---------------------- MODULE CircuitApplicationProofs ----------------------
(***************************************************************************)
(* Proofs about CircuitApplication, for any number of sessions and circuits *)
(* and any bus failures: the books the worker keeps stay well formed, and   *)
(* lqosd keeps a circuit without an authoritative session only against the  *)
(* answer it gave.                                                          *)
(***************************************************************************)
EXTENDS CircuitApplication, TLAPS

(* The provers a step is tried with when its BY names none, in this order. *)
USE ZenonT(10), SMTT(30), Z3T(30), ZenonT(60)
USE DEF lqosd

\* The methods of DynamicCircuitApplicationState keep the shape of the state.
LEMMA PendingTypes ==
    ASSUME NEW a \in ApplicationStates, NEW o \in Owners, NEW seq \in Nat
    PROVE  /\ track_pending_upsert(a, o, seq) \in ApplicationStates
           /\ track_deferred_removal(a, o, seq) \in ApplicationStates
           /\ prune_deferred_removal(a, o) \in ApplicationStates
           /\ clear_pending_upsert(a, o, seq) \in ApplicationStates
<1>1. track_pending_upsert(a, o, seq) \in ApplicationStates
    BY DEF ApplicationStates, track_pending_upsert
<1>2. track_deferred_removal(a, o, seq) \in ApplicationStates
    BY DEF ApplicationStates, track_deferred_removal
<1>3. ASSUME NEW b \in ApplicationStates
      PROVE  prune_deferred_removal(b, o) \in ApplicationStates
    BY DEF ApplicationStates, prune_deferred_removal
<1>4. [a EXCEPT !.pending_upserts[o] = @ \ {seq}] \in ApplicationStates
    BY DEF ApplicationStates
<1> QED BY <1>1, <1>2, <1>3, <1>4 DEF clear_pending_upsert

\* A removal that is put aside keeps the side list typed.
LEMMA PendingRemovalType ==
    ASSUME NEW a \in ApplicationStates, NEW q \in Queued
    PROVE  record_pending_removal(a, q) \in ApplicationStates
<1>1. OwnerKey(q.intent) \in Owners
    BY DEF Queued, Intents, OwnerKey, Owners
<1> DEFINE o == OwnerKey(q.intent)
           removals == (a.pending_removals \ PendingRemovalOf(a, o)) \cup {q}
           kept == IF PendingRemovalOf(a, o) = {}
                   THEN a.pending_removal_order
                   ELSE {e \in a.pending_removal_order : e[2] # o}
           order == kept \cup {<<q.sequence, o>>}
<1>2. removals \in SUBSET Queued
    BY DEF ApplicationStates, PendingRemovalOf
<1>3. order \in SUBSET (Nat \X Owners)
  <2>1. kept \subseteq a.pending_removal_order
      OBVIOUS
  <2>2. a.pending_removal_order \in SUBSET (Nat \X Owners)
      BY DEF ApplicationStates
  <2>3. <<q.sequence, o>> \in Nat \X Owners
      BY <1>1 DEF Queued
  <2> QED BY <2>1, <2>2, <2>3
<1>4. record_pending_removal(a, q) =
          [a EXCEPT !.pending_removals = removals, !.pending_removal_order = order]
    BY DEF record_pending_removal
<1> HIDE DEF removals, order
<1> QED BY <1>2, <1>3, <1>4 DEF ApplicationStates

\* Recording, retaining and releasing an owner keep the application state typed.
LEMMA OwnerTypes ==
    ASSUME NEW a \in ApplicationStates, NEW c \in Circuits, NEW s \in Sessions,
           NEW seq \in Nat
    PROVE  /\ record_applied_upsert(a, c, s, seq) \in ApplicationStates
           /\ record_retained_upsert(a, c, s, seq) \in ApplicationStates
           /\ release_owner(a, c, s) \in ApplicationStates
<1>1. <<c, s>> \in Owners
    BY DEF Owners
<1>2. ASSUME NEW b \in ApplicationStates
      PROVE  record_upsert_owner(b, c, s) \in ApplicationStates
    BY <1>1 DEF ApplicationStates, record_upsert_owner
<1>3. record_applied_upsert(a, c, s, seq) \in ApplicationStates
    BY <1>1, <1>2 DEF ApplicationStates, record_applied_upsert
<1>4. record_retained_upsert(a, c, s, seq) \in ApplicationStates
  <2> DEFINE b == record_upsert_owner(prune_deferred_removal(a, <<c, s>>), c, s)
  <2>1. b \in ApplicationStates
      BY <1>1, <1>2, PendingTypes
  <2>2. [b EXCEPT !.retained[<<c, s>>] = seq] \in ApplicationStates
      BY <1>1, <2>1 DEF ApplicationStates
  <2> QED BY <2>2 DEF record_retained_upsert
<1>5. release_owner(a, c, s) \in ApplicationStates
  <2> DEFINE o == <<c, s>>
             remaining == a.current_owners[c] \ {s}
             retained == [a.retained EXCEPT ![o] = NoSequence]
             upserts == [a.pending_upserts EXCEPT ![o] = {}]
             deferred == [a.deferred_removal EXCEPT ![o] = NoSequence]
             removals == a.pending_removals \ PendingRemovalOf(a, o)
             applied == [a.latest_applied EXCEPT ![o] = NoSequence]
             owners == [a.current_owners EXCEPT ![c] = remaining]
             authority == [a.authoritative EXCEPT ![c] =
                              IF @ = s \/ remaining = {} THEN NoSession ELSE @]
  <2>1. /\ retained \in [Owners -> Nat \cup {NoSequence}]
        /\ upserts \in [Owners -> SUBSET Nat]
        /\ deferred \in [Owners -> Nat \cup {NoSequence}]
        /\ applied \in [Owners -> Nat \cup {NoSequence}]
      BY <1>1 DEF ApplicationStates
  <2>2. /\ removals \in SUBSET Queued
        /\ owners \in [Circuits -> SUBSET Sessions]
        /\ authority \in [Circuits -> Sessions \cup {NoSession}]
      BY DEF ApplicationStates
  <2>3. release_owner(a, c, s) =
            [a EXCEPT !.retained = retained, !.pending_upserts = upserts,
                      !.deferred_removal = deferred, !.pending_removals = removals,
                      !.latest_applied = applied, !.current_owners = owners,
                      !.authoritative = authority]
      BY DEF release_owner
  <2> HIDE DEF retained, upserts, deferred, removals, applied, owners, authority
  <2> QED BY <2>1, <2>2, <2>3 DEF ApplicationStates
<1> QED BY <1>3, <1>4, <1>5

-----------------------------------------------------------------------------
\* What the listener writes, and what the worker writes about pending intents,
\* is apart from the ownership books.
SameBooks(a, b) ==
    /\ a.current_owners = b.current_owners
    /\ a.authoritative = b.authoritative
    /\ a.retained = b.retained

\* Tracking or clearing a pending upsert leaves the ownership books alone.
LEMMA PendingSameBooks ==
    ASSUME NEW a \in ApplicationStates, NEW o \in Owners, NEW seq \in Nat
    PROVE  /\ SameBooks(a, track_pending_upsert(a, o, seq))
           /\ SameBooks(a, track_deferred_removal(a, o, seq))
           /\ SameBooks(a, prune_deferred_removal(a, o))
           /\ SameBooks(a, clear_pending_upsert(a, o, seq))
<1>1. /\ SameBooks(a, track_pending_upsert(a, o, seq))
      /\ SameBooks(a, track_deferred_removal(a, o, seq))
    BY DEF SameBooks, ApplicationStates, track_pending_upsert, track_deferred_removal
<1>2. ASSUME NEW b \in ApplicationStates
      PROVE  SameBooks(b, prune_deferred_removal(b, o))
    BY DEF SameBooks, ApplicationStates, prune_deferred_removal
<1>3. DEFINE b == [a EXCEPT !.pending_upserts[o] = @ \ {seq}]
<1>4. b \in ApplicationStates /\ SameBooks(a, b)
    BY DEF SameBooks, ApplicationStates
<1>5. SameBooks(a, clear_pending_upsert(a, o, seq))
    BY <1>2, <1>4 DEF SameBooks, clear_pending_upsert
<1> QED BY <1>1, <1>2, <1>5

\* Putting a removal aside leaves the ownership books alone.
LEMMA PendingRemovalSameBooks ==
    ASSUME NEW a \in ApplicationStates, NEW q \in Queued
    PROVE  SameBooks(a, record_pending_removal(a, q))
<1>1. PICK removals, order :
          record_pending_removal(a, q) =
              [a EXCEPT !.pending_removals = removals, !.pending_removal_order = order]
    BY DEF record_pending_removal
<1> QED BY <1>1 DEF SameBooks, ApplicationStates

\* Well-formedness only depends on the ownership books.
LEMMA SameBooksWellFormed ==
    ASSUME NEW a, NEW b, SameBooks(a, b), WellFormed(a)
    PROVE  WellFormed(b)
<1> SUFFICES ASSUME NEW d \in Circuits, NEW t \in Sessions
             PROVE  /\ t = b.authoritative[d] => b.retained[<<d, t>>] = NoSequence
                    /\ t \in b.current_owners[d] <=>
                          t = b.authoritative[d] \/ b.retained[<<d, t>>] # NoSequence
    BY DEF WellFormed
<1>1. /\ t = a.authoritative[d] => a.retained[<<d, t>>] = NoSequence
      /\ t \in a.current_owners[d] <=>
            t = a.authoritative[d] \/ a.retained[<<d, t>>] # NoSequence
    BY DEF WellFormed
<1> QED BY <1>1 DEF SameBooks

\* Releasing an owner keeps the books well formed.
LEMMA ReleaseWellFormed ==
    ASSUME NEW a \in ApplicationStates, NEW c \in Circuits, NEW s \in Sessions,
           WellFormed(a)
    PROVE  WellFormed(release_owner(a, c, s))
<1> DEFINE b == release_owner(a, c, s)
<1>1. /\ b.current_owners = [a.current_owners EXCEPT ![c] = @ \ {s}]
      /\ b.retained = [a.retained EXCEPT ![<<c, s>>] = NoSequence]
      /\ b.authoritative = [a.authoritative EXCEPT ![c] =
             IF @ = s \/ a.current_owners[c] \ {s} = {} THEN NoSession ELSE @]
    BY DEF release_owner, ApplicationStates
<1> HIDE DEF b
<1> SUFFICES ASSUME NEW d \in Circuits, NEW t \in Sessions
             PROVE  /\ t = b.authoritative[d] => b.retained[<<d, t>>] = NoSequence
                    /\ t \in b.current_owners[d] <=>
                          t = b.authoritative[d] \/ b.retained[<<d, t>>] # NoSequence
    BY DEF WellFormed, b
<1>2. /\ <<d, t>> \in Owners /\ <<c, s>> \in Owners
      /\ <<d, t>> = <<c, s>> <=> d = c /\ t = s
    BY DEF Owners
<1>3. /\ a.current_owners \in [Circuits -> SUBSET Sessions]
      /\ a.authoritative \in [Circuits -> Sessions \cup {NoSession}]
      /\ a.retained \in [Owners -> Nat \cup {NoSequence}]
    BY DEF ApplicationStates
<1>4. CASE d # c
    BY <1>1, <1>2, <1>3, <1>4 DEF WellFormed
<1>5. CASE d = c /\ t = s
    BY <1>1, <1>2, <1>3, <1>5, ConstantsAssumption DEF WellFormed
<1>6. CASE d = c /\ t # s
    BY <1>1, <1>2, <1>3, <1>6, ConstantsAssumption DEF WellFormed
<1> QED BY <1>4, <1>5, <1>6

\* Recording an applied upsert keeps the books well formed, provided nobody
\* else is authoritative for the circuit.
LEMMA AppliedWellFormed ==
    ASSUME NEW a \in ApplicationStates, NEW c \in Circuits, NEW s \in Sessions,
           NEW seq \in Nat, WellFormed(a), a.authoritative[c] \in {NoSession, s}
    PROVE  /\ WellFormed(record_applied_upsert(a, c, s, seq))
           /\ record_applied_upsert(a, c, s, seq).authoritative =
                  [a.authoritative EXCEPT ![c] = s]
<1> DEFINE b == record_applied_upsert(a, c, s, seq)
<1>1. /\ b.current_owners = [a.current_owners EXCEPT ![c] = @ \cup {s}]
      /\ b.retained = [a.retained EXCEPT ![<<c, s>>] = NoSequence]
      /\ b.authoritative = [a.authoritative EXCEPT ![c] = s]
    BY DEF record_applied_upsert, record_upsert_owner, ApplicationStates
<1> HIDE DEF b
<1> SUFFICES ASSUME NEW d \in Circuits, NEW t \in Sessions
             PROVE  /\ t = b.authoritative[d] => b.retained[<<d, t>>] = NoSequence
                    /\ t \in b.current_owners[d] <=>
                          t = b.authoritative[d] \/ b.retained[<<d, t>>] # NoSequence
    BY <1>1 DEF WellFormed, b
<1>2. /\ <<d, t>> \in Owners /\ <<c, s>> \in Owners
      /\ <<d, t>> = <<c, s>> <=> d = c /\ t = s
    BY DEF Owners
<1>3. /\ a.current_owners \in [Circuits -> SUBSET Sessions]
      /\ a.authoritative \in [Circuits -> Sessions \cup {NoSession}]
      /\ a.retained \in [Owners -> Nat \cup {NoSequence}]
    BY DEF ApplicationStates
<1>4. CASE d # c
    BY <1>1, <1>2, <1>3, <1>4 DEF WellFormed
<1>5. CASE d = c
    BY <1>1, <1>2, <1>3, <1>5, ConstantsAssumption DEF WellFormed
<1> QED BY <1>4, <1>5
\* Retaining an upsert keeps the books well formed, provided somebody else is
\* authoritative for the circuit.
LEMMA RetainedWellFormed ==
    ASSUME NEW a \in ApplicationStates, NEW c \in Circuits, NEW s \in Sessions,
           NEW seq \in Nat, WellFormed(a), a.authoritative[c] \notin {NoSession, s}
    PROVE  /\ WellFormed(record_retained_upsert(a, c, s, seq))
           /\ record_retained_upsert(a, c, s, seq).authoritative = a.authoritative
<1>1. CASE seq <= a.deferred_removal[<<c, s>>]
    BY <1>1 DEF record_retained_upsert
<1>2. CASE ~(seq <= a.deferred_removal[<<c, s>>])
  <2> DEFINE p == prune_deferred_removal(a, <<c, s>>)
             b == record_retained_upsert(a, c, s, seq)
  <2>0. <<c, s>> \in Owners
      BY DEF Owners
  <2>1. p \in ApplicationStates /\ SameBooks(a, p)
      BY <2>0, PendingTypes, PendingSameBooks
  <2> HIDE DEF p
  <2>2. /\ b.current_owners = [p.current_owners EXCEPT ![c] = @ \cup {s}]
        /\ b.retained = [p.retained EXCEPT ![<<c, s>>] = seq]
        /\ b.authoritative = [p.authoritative EXCEPT ![c] =
                                 IF @ = NoSession THEN s ELSE @]
    <3>1. b = [record_upsert_owner(p, c, s) EXCEPT !.retained[<<c, s>>] = seq]
        BY <1>2 DEF record_retained_upsert, p
    <3> DEFINE r == record_upsert_owner(p, c, s)
    <3>2. /\ r = [p EXCEPT !.retained = [p.retained EXCEPT ![<<c, s>>] = NoSequence],
                           !.current_owners = [p.current_owners EXCEPT ![c] = @ \cup {s}],
                           !.authoritative = [p.authoritative EXCEPT ![c] =
                                                 IF @ = NoSession THEN s ELSE @]]
        BY <2>1 DEF record_upsert_owner, ApplicationStates
    <3> HIDE DEF r
    <3>3. /\ r.current_owners = [p.current_owners EXCEPT ![c] = @ \cup {s}]
          /\ r.retained = [p.retained EXCEPT ![<<c, s>>] = NoSequence]
          /\ r.authoritative = [p.authoritative EXCEPT ![c] =
                                   IF @ = NoSession THEN s ELSE @]
        BY <2>1, <3>2 DEF ApplicationStates
    <3>4. /\ b.current_owners = r.current_owners
          /\ b.retained = [r.retained EXCEPT ![<<c, s>>] = seq]
          /\ b.authoritative = r.authoritative
        BY <2>1, <3>1, <3>2 DEF ApplicationStates, r
    <3> HIDE DEF b
    <3>5. p.retained \in [Owners -> Nat \cup {NoSequence}]
        BY <2>1 DEF ApplicationStates
    <3> QED BY <2>0, <3>3, <3>4, <3>5
  <2>3. /\ b.current_owners = [a.current_owners EXCEPT ![c] = @ \cup {s}]
        /\ b.retained = [a.retained EXCEPT ![<<c, s>>] = seq]
        /\ b.authoritative = a.authoritative
      BY <2>1, <2>2 DEF SameBooks, ApplicationStates
  <2> HIDE DEF b
  <2> SUFFICES ASSUME NEW d \in Circuits, NEW t \in Sessions
               PROVE  /\ t = b.authoritative[d] => b.retained[<<d, t>>] = NoSequence
                      /\ t \in b.current_owners[d] <=>
                            t = b.authoritative[d] \/ b.retained[<<d, t>>] # NoSequence
      BY <2>3 DEF WellFormed, b
  <2>4. /\ <<d, t>> \in Owners
        /\ <<d, t>> = <<c, s>> <=> d = c /\ t = s
      BY DEF Owners
  <2>5. /\ a.current_owners \in [Circuits -> SUBSET Sessions]
        /\ a.authoritative \in [Circuits -> Sessions \cup {NoSession}]
        /\ a.retained \in [Owners -> Nat \cup {NoSequence}]
      BY DEF ApplicationStates
  <2>6. CASE d # c
      BY <2>0, <2>3, <2>4, <2>5, <2>6 DEF WellFormed
  <2>7. CASE d = c
      BY <2>0, <2>3, <2>4, <2>5, <2>7, ConstantsAssumption DEF WellFormed, NoSequence
  <2> QED BY <2>6, <2>7
<1> QED BY <1>1, <1>2

-----------------------------------------------------------------------------
\* What the type invariant says of the intent the worker is processing.
LEMMA JobTypes ==
    ASSUME TypeOK, worker.at \in WorkLabels
    PROVE  /\ worker \in [at : WorkLabels, job : Queued]
           /\ Job \in Queued
           /\ Job.sequence \in Nat
           /\ Job.intent \in Intents
           /\ JobCircuit \in Circuits
           /\ JobSession \in Sessions
           /\ OwnerKey(Job.intent) \in Owners
           /\ \A label \in WorkLabels :
                 [worker EXCEPT !.at = label] \in [at : WorkLabels, job : Queued]
<1>1. worker \in [at : WorkLabels, job : Queued]
    BY DEF TypeOK, WorkLabels, Waiting, Draining
<1>2. Job \in Queued /\ Job.sequence \in Nat /\ Job.intent \in Intents
    BY <1>1 DEF Job, Queued
<1>3. /\ JobCircuit \in Circuits /\ JobSession \in Sessions
      /\ OwnerKey(Job.intent) \in Owners
    BY <1>2 DEF JobCircuit, JobSession, Intents, OwnerKey, Owners
<1>4. ASSUME NEW label \in WorkLabels
      PROVE  [worker EXCEPT !.at = label] \in [at : WorkLabels, job : Queued]
    BY <1>1
<1> QED BY <1>1, <1>2, <1>3, <1>4

\* The worker begins a queued intent in a typed state.
LEMMA BeginType ==
    ASSUME NEW q \in Queued
    PROVE  Begin(q) \in [at : WorkLabels, job : Queued]
BY DEF Begin, WorkLabels

\* An answered request leaves what lqosd holds typed.
LEMMA AnsweredType ==
    ASSUME TypeOK, NEW o, NEW c \in Circuits, NEW d \in Devices, NEW seq \in Nat,
           Answered(o, c, d, seq)
    PROVE  /\ installed' \in [Circuits -> Devices]
           /\ backlog' \in Seq(Commands)
           /\ stray' \subseteq Circuits
<1>1. installed' \in [Circuits -> Devices] /\ stray' \subseteq Circuits
    BY DEF Answered, TypeOK
<1>2. [circuit |-> c, device |-> d, sequence |-> seq] \in Commands
    BY DEF Commands
<1>3. backlog' \in Seq(Commands)
    BY <1>2, SMTT(30) DEF Answered, TypeOK
<1> QED BY <1>1, <1>3

\* A request can only make lqosd want the circuit it was for, and only when it
\* names a device and has an effect.
LEMMA AnsweredWanted ==
    ASSUME TypeOK, NEW o, NEW c \in Circuits, NEW d \in Devices, NEW seq \in Nat,
           Answered(o, c, d, seq), NEW e \in Circuits, Wanted(e)'
    PROVE  \/ Wanted(e)
           \/ e = c /\ d # NoDevice /\ o.effect \in {"done", "late"}
<1>1. CASE installed'[e] # NoDevice
    BY <1>1 DEF Wanted, Answered, TypeOK
<1>2. ASSUME NEW i \in 1..Len(backlog'), backlog'[i].circuit = e,
             backlog'[i].device # NoDevice
      PROVE  Wanted(e) \/ (e = c /\ d # NoDevice /\ o.effect \in {"done", "late"})
  <2> DEFINE command == [circuit |-> c, device |-> d, sequence |-> seq]
  <2>1. CASE o.effect = "late"
    <3>1. backlog' = Append(backlog, command)
        BY <2>1 DEF Answered
    <3>2. command \in Commands /\ backlog \in Seq(Commands)
        BY DEF Commands, TypeOK
    <3>3. command.circuit = c /\ command.device = d
        OBVIOUS
    <3> HIDE DEF command
    <3>4. \/ i \in 1..Len(backlog) /\ backlog'[i] = backlog[i]
          \/ backlog'[i] = command
        BY <1>2, <3>1, <3>2, SMTT(30)
    <3> QED BY <1>2, <2>1, <3>3, <3>4 DEF Wanted
  <2>2. CASE o.effect # "late"
      BY <1>2, <2>2 DEF Answered, Wanted
  <2> QED BY <2>1, <2>2
<1> QED BY <1>1, <1>2 DEF Wanted

\* The owner a removal acts for is an owner.
LEMMA RemovalOwnerType ==
    ASSUME NEW a \in ApplicationStates, NEW i \in Intents
    PROVE  removal_owner_context(a, i) \in Sessions \cup {NoSession}
<1>1. i.session \in Sessions /\ i.circuit \in Circuits
    BY DEF Intents
<1>2. a.authoritative[i.circuit] \in Sessions \cup {NoSession}
    BY <1>1 DEF ApplicationStates
<1> QED BY <1>1, <1>2 DEF removal_owner_context

\* A promotable owner is an owner with a retained upsert.
LEMMA PromotableType ==
    ASSUME NEW a \in ApplicationStates, NEW c \in Circuits, NEW s \in Sessions,
           NEW t \in promotable_retained_upsert(a, c, s)
    PROVE  /\ t \in Sessions
           /\ t # s
           /\ a.retained[<<c, t>>] \in Nat
<1>1. t \in Sessions /\ t # s /\ a.retained[<<c, t>>] # NoSequence
    BY DEF promotable_retained_upsert, RetainedOthers
<1>2. a.retained \in [Owners -> Nat \cup {NoSequence}] /\ <<c, t>> \in Owners
    BY <1>1 DEF ApplicationStates, Owners
<1> QED BY <1>1, <1>2

-----------------------------------------------------------------------------
\* What is not recorded as applied either had no effect or was said to have
\* failed; what releases an owner was carried out, or acknowledged and dropped.
LEMMA BusFacts ==
    ASSUME NEW o \in BusOutcomes
    PROVE  /\ ~upsert_result_records_success(o) =>
                  o.effect = "none" \/ (o.effect = "late" /\ o.result = "RequestFailed")
           /\ removal_result_releases_owner(o) =>
                  /\ o.result = "Ok"
                  /\ o.effect = "none" \/ (o.effect = "done" /\ backlog = <<>>)
BY DEF BusOutcomes, upsert_result_records_success, removal_result_releases_owner

\* Which owner a removal acts for only depends on the ownership books.
LEMMA SameOwner ==
    ASSUME NEW a, NEW b, SameBooks(a, b), NEW i
    PROVE  removal_owner_context(a, i) = removal_owner_context(b, i)
BY DEF SameBooks, removal_owner_context

\* The inductive invariant.  TypeOK needs RequestStaysJustified: the owner a
\* removal acts for is looked up again when the reply arrives.  The ownership
\* books need it too: only then is the released owner the authoritative one.
Inv ==
    /\ TypeOK
    /\ OwnershipWellFormed
    /\ InstalledHasAuthority
    /\ RequestStaysJustified

AwaitsBus == {"create", "promote", "fallback", "delete"}

\* A step that leaves the books and lqosd alone, and issues no request.
LEMMA BooksKept ==
    ASSUME Inv, TypeOK', SameBooks(app, app'), UNCHANGED lqosd,
           worker' = worker \/ worker'.at \notin AwaitsBus
    PROVE  Inv'
<1>1. OwnershipWellFormed'
    BY SameBooksWellFormed DEF Inv, OwnershipWellFormed
<1>2. InstalledHasAuthority'
    BY DEF Inv, InstalledHasAuthority, Wanted, SameBooks
<1>3. CASE worker' = worker
  <2>1. RemovalOwner' = RemovalOwner
      BY <1>3, SameOwner DEF RemovalOwner, Job
  <2> QED
      BY <1>1, <1>2, <1>3, <2>1
         DEF Inv, RequestStaysJustified, SameBooks, JobCircuit, JobSession, Job
<1>4. CASE worker'.at \notin AwaitsBus
    BY <1>1, <1>2, <1>4 DEF Inv, RequestStaysJustified, AwaitsBus
<1> QED BY <1>3, <1>4

\* lqosd's circuits keep an authoritative session when the books gain one.
LEMMA AuthorityKept ==
    ASSUME TypeOK, InstalledHasAuthority, NEW c \in Circuits, NEW s \in Sessions,
           NEW o, NEW d \in Devices, NEW seq \in Nat, Answered(o, c, d, seq),
           app'.authoritative = [app.authoritative EXCEPT ![c] = s]
    PROVE  InstalledHasAuthority'
<1> SUFFICES ASSUME NEW e \in Circuits \ stray', Wanted(e)'
             PROVE  app'.authoritative[e] # NoSession
    BY DEF InstalledHasAuthority
<1>1. app.authoritative \in [Circuits -> Sessions \cup {NoSession}]
    BY DEF TypeOK, ApplicationStates
<1>2. CASE e = c
    BY <1>1, <1>2, ConstantsAssumption
<1>3. CASE e # c
  <2>1. e \notin stray /\ Wanted(e)
      BY <1>3, AnsweredWanted DEF Answered
  <2> QED BY <1>1, <1>3, <2>1 DEF InstalledHasAuthority
<1> QED BY <1>2, <1>3

\* A create that is not recorded leaves nothing behind unless its answer is false.
LEMMA NotRecorded ==
    ASSUME TypeOK, InstalledHasAuthority, NEW c \in Circuits,
           NEW o \in BusOutcomes, ~upsert_result_records_success(o),
           NEW d \in Devices, d # NoDevice, NEW seq \in Nat, Answered(o, c, d, seq),
           app' = app
    PROVE  InstalledHasAuthority'
<1> SUFFICES ASSUME NEW e \in Circuits \ stray', Wanted(e)'
             PROVE  app.authoritative[e] # NoSession
    BY DEF InstalledHasAuthority
<1>1. Misleads(o, d) \/ o.effect = "none"
    BY BusFacts DEF Misleads
<1>2. CASE Misleads(o, d)
  <2>1. e # c /\ e \notin stray
      BY <1>2 DEF Answered
  <2> QED BY <2>1, AnsweredWanted DEF InstalledHasAuthority
<1>3. CASE ~Misleads(o, d) /\ o.effect = "none"
  <2>1. e \notin stray /\ Wanted(e)
      BY <1>3, AnsweredWanted DEF Answered
  <2> QED BY <2>1 DEF InstalledHasAuthority
<1> QED BY <1>1, <1>2, <1>3

-----------------------------------------------------------------------------
\* The listener's steps.
LEMMA StartStep ==
    ASSUME Inv, NEW s \in Sessions, NEW previous, NEW listed \in SUBSET Circuits,
           NEW intents \in SUBSET Intents, StartEvent(s, previous, listed, intents)
    PROVE  Inv'
<1>1. active' \in [Sessions -> SUBSET Circuits]
    BY DEF StartEvent, Inv, TypeOK
<1>2. TypeOK'
    BY <1>1 DEF StartEvent, Inv, TypeOK
<1> QED BY <1>2, BooksKept DEF StartEvent, SameBooks

\* A session event preserves the invariant.
LEMMA EventStep ==
    ASSUME Inv, SessionEvent
    PROVE  Inv'
<1>1. PICK s \in Sessions, previous \in SUBSET Sessions :
          \/ \E c \in Circuits : SessionActive(s, previous, c)
          \/ SessionEnded(s, previous)
    BY DEF SessionEvent
<1>2. Listed(s, previous) \in SUBSET Circuits
    BY <1>1 DEF Inv, TypeOK, Listed
<1>3. \A d \in Circuits, r \in BOOLEAN : Removal(d, s, r) \in Intents /\ Upsert(d, s) \in Intents
    BY DEF Removal, Upsert, Intents
<1>4. CASE SessionEnded(s, previous)
  <2>1. {Removal(d, s, FALSE) : d \in Listed(s, previous)} \in SUBSET Intents
      BY <1>2, <1>3
  <2> QED BY <1>4, <2>1, StartStep DEF SessionEnded
<1>5. ASSUME NEW c \in Circuits, SessionActive(s, previous, c)
      PROVE  Inv'
  <2>1. {Upsert(c, s)} \cup {Removal(d, s, TRUE) : d \in Listed(s, previous) \ {c}}
            \in SUBSET Intents
      BY <1>2, <1>3
  <2> QED BY <1>5, <2>1, StartStep DEF SessionActive
<1> QED BY <1>1, <1>4, <1>5

\* Emitting an intent, to the queue or the side list, preserves the invariant.
LEMMA EmitStep ==
    ASSUME Inv, Listener
    PROVE  Inv'
<1> USE DEF Inv
<1>1. CASE EmitTrack
  <2>1. PICK i \in outbox :
            /\ outbox' = outbox \ {i}
            /\ emitting' = [stage |-> "send",
                            queued |-> [sequence |-> next_sequence, intent |-> i]]
            /\ app' = IF i.kind = "upsert"
                      THEN track_pending_upsert(app, OwnerKey(i), next_sequence)
                      ELSE track_deferred_removal(app, OwnerKey(i), next_sequence)
      BY <1>1 DEF EmitTrack
  <2>2. i \in Intents /\ OwnerKey(i) \in Owners
      BY DEF TypeOK, Intents, OwnerKey, Owners
  <2>3. app' \in ApplicationStates /\ SameBooks(app, app')
      BY <2>1, <2>2, PendingTypes, PendingSameBooks DEF TypeOK
  <2>4. emitting' \in [stage : {"send", "full"}, queued : Queued]
      BY <2>1, <2>2 DEF TypeOK, Queued
  <2>5. TypeOK'
      BY <1>1, <2>1, <2>3, <2>4 DEF TypeOK, EmitTrack
  <2> QED BY <1>1, <2>3, <2>5, BooksKept DEF EmitTrack
<1>2. CASE EmitSend
  <2>1. emitting \in [stage : {"send", "full"}, queued : Queued]
      BY <1>2 DEF EmitSend, TypeOK, Idle
  <2>2. /\ queue' \in Seq(Queued) /\ Len(queue') <= QueueCapacity
        /\ emitting' \in {Idle} \cup [stage : {"send", "full"}, queued : Queued]
    <3>1. CASE Len(queue) < QueueCapacity
      <4>1. queue' = Append(queue, emitting.queued) /\ emitting' = Idle
          BY <1>2, <3>1 DEF EmitSend
      <4>2. emitting.queued \in Queued /\ queue \in Seq(Queued) /\ Len(queue) \in Nat
          BY <2>1 DEF TypeOK
      <4>3. queue' \in Seq(Queued) /\ Len(queue') = Len(queue) + 1
          BY <4>1, <4>2
      <4> QED BY <3>1, <4>1, <4>2, <4>3, ConstantsAssumption
    <3>2. CASE ~(Len(queue) < QueueCapacity)
        BY <1>2, <2>1, <3>2 DEF EmitSend, TypeOK
    <3> QED BY <3>1, <3>2
  <2>3. TypeOK'
      BY <1>2, <2>2 DEF EmitSend, TypeOK
  <2> QED BY <1>2, <2>3, BooksKept DEF EmitSend, SameBooks
<1>3. CASE EmitQueueFull
  <2>1. emitting \in [stage : {"send", "full"}, queued : Queued]
      BY <1>3 DEF EmitQueueFull, TypeOK, Idle
  <2>2. /\ emitting.queued \in Queued /\ emitting.queued.sequence \in Nat
        /\ OwnerKey(emitting.queued.intent) \in Owners
      BY <2>1 DEF Queued, Intents, OwnerKey, Owners
  <2>3. app' \in ApplicationStates /\ SameBooks(app, app')
      BY <1>3, <2>2, PendingTypes, PendingSameBooks, PendingRemovalType,
         PendingRemovalSameBooks DEF EmitQueueFull, TypeOK
  <2>4. TypeOK'
      BY <1>3, <2>3 DEF EmitQueueFull, TypeOK
  <2> QED BY <1>3, <2>3, <2>4, BooksKept DEF EmitQueueFull
<1> QED BY <1>1, <1>2, <1>3 DEF Listener

-----------------------------------------------------------------------------
\* The worker's steps that issue no request and leave the books alone.
LEMMA QuietWorkerStep ==
    ASSUME Inv, Receive \/ CheckUpsert \/ ClearUpsert \/ SkipRemoval \/ TakePendingRemoval
    PROVE  Inv'
<1> USE DEF Inv
<1>1. CASE Receive
  <2>1. /\ Head(queue) \in Queued /\ Tail(queue) \in Seq(Queued)
        /\ Len(Tail(queue)) <= QueueCapacity
    <3>1. queue \in Seq(Queued) /\ queue # <<>> /\ Len(queue) <= QueueCapacity
        BY <1>1 DEF Receive, TypeOK
    <3>2. Len(Tail(queue)) = Len(queue) - 1 /\ Len(queue) \in Nat
        BY <3>1
    <3> QED BY <3>1, <3>2, ConstantsAssumption
  <2>2. TypeOK'
      BY <1>1, <2>1, BeginType DEF Receive, TypeOK
  <2>3. worker'.at \notin AwaitsBus
      BY <1>1 DEF Receive, Begin, AwaitsBus
  <2> QED BY <1>1, <2>2, <2>3, BooksKept DEF Receive, SameBooks
<1>2. CASE CheckUpsert
  <2>1. PICK label \in {"clear", "share"} : worker' = [worker EXCEPT !.at = label]
      BY <1>2 DEF CheckUpsert, Goto
  <2>2. /\ worker' \in [at : WorkLabels, job : Queued]
        /\ worker'.at \notin AwaitsBus
      BY <1>2, <2>1, JobTypes DEF CheckUpsert, WorkLabels, AwaitsBus
  <2>3. TypeOK'
      BY <1>2, <2>2 DEF CheckUpsert, TypeOK
  <2> QED BY <1>2, <2>2, <2>3, BooksKept DEF CheckUpsert, SameBooks
<1>3. CASE ClearUpsert
  <2>1. app' \in ApplicationStates /\ SameBooks(app, app')
      BY <1>3, JobTypes, PendingTypes, PendingSameBooks DEF ClearUpsert, WorkLabels, TypeOK
  <2>2. TypeOK'
      BY <1>3, <2>1 DEF ClearUpsert, TypeOK
  <2> QED BY <1>3, <2>1, <2>2, BooksKept DEF ClearUpsert, Draining, AwaitsBus
<1>4. CASE SkipRemoval
  <2>1. TypeOK'
      BY <1>4 DEF SkipRemoval, TypeOK
  <2> QED BY <1>4, <2>1, BooksKept DEF SkipRemoval, SameBooks, Draining, AwaitsBus
<1>5. CASE TakePendingRemoval
  <2>1. \/ worker' = Waiting
        \/ \E q \in app.pending_removals : worker' = Begin(q)
      BY <1>5 DEF TakePendingRemoval
  <2>2. /\ worker' \in {Waiting, Draining} \cup [at : WorkLabels, job : Queued]
        /\ worker'.at \notin AwaitsBus
    <3>1. CASE worker' = Waiting
        BY <3>1 DEF Waiting, AwaitsBus
    <3>2. ASSUME NEW q \in app.pending_removals, worker' = Begin(q)
          PROVE  /\ worker' \in [at : WorkLabels, job : Queued]
                 /\ worker'.at \notin AwaitsBus
      <4>1. q \in Queued
          BY DEF TypeOK, ApplicationStates
      <4> QED BY <3>2, <4>1, BeginType DEF Begin, AwaitsBus
    <3> QED BY <2>1, <3>1, <3>2
  <2>3. PICK removals \in SUBSET app.pending_removals, order \in SUBSET app.pending_removal_order :
            app' = [app EXCEPT !.pending_removals = removals, !.pending_removal_order = order]
    <3> DEFINE live == {e \in app.pending_removal_order : PendingRemovalOf(app, e[2]) # {}}
    <3>1. CASE app' = [app EXCEPT !.pending_removal_order = {}]
      <4>1. app' = [app EXCEPT !.pending_removals = app.pending_removals,
                               !.pending_removal_order = {}]
          BY <3>1 DEF TypeOK, ApplicationStates
      <4> QED BY <4>1
    <3>2. ASSUME NEW e \in live, NEW q \in app.pending_removals,
                 app' = [app EXCEPT !.pending_removals = @ \ {q},
                                    !.pending_removal_order = {f \in @ : f[1] > e[1]}]
          PROVE  \E removals \in SUBSET app.pending_removals,
                    order \in SUBSET app.pending_removal_order :
                    app' = [app EXCEPT !.pending_removals = removals,
                                       !.pending_removal_order = order]
      <4> WITNESS app.pending_removals \ {q} \in SUBSET app.pending_removals
      <4> WITNESS {f \in app.pending_removal_order : f[1] > e[1]}
                      \in SUBSET app.pending_removal_order
      <4> QED BY <3>2
    <3> QED BY <1>5, <3>1, <3>2 DEF TakePendingRemoval
  <2>4. app' \in ApplicationStates /\ SameBooks(app, app')
      BY <2>3 DEF TypeOK, ApplicationStates, SameBooks
  <2>5. TypeOK'
      BY <1>5, <2>2, <2>4 DEF TakePendingRemoval, TypeOK
  <2> QED BY <1>5, <2>2, <2>4, <2>5, BooksKept DEF TakePendingRemoval
<1> QED BY <1>1, <1>2, <1>3, <1>4, <1>5

-----------------------------------------------------------------------------
\* The worker's steps around a create request.
LEMMA UpsertStep ==
    ASSUME Inv, ShareUpsert \/ CreateDone
    PROVE  Inv'
<1> USE DEF Inv
<1>1. /\ worker.at \in {"share", "create"}
      /\ worker \in [at : WorkLabels, job : Queued]
      /\ Job.sequence \in Nat /\ JobCircuit \in Circuits /\ JobSession \in Sessions
      /\ \A label \in WorkLabels :
            [worker EXCEPT !.at = label] \in [at : WorkLabels, job : Queued]
    BY JobTypes DEF ShareUpsert, CreateDone, WorkLabels
<1>2. /\ app \in ApplicationStates /\ WellFormed(app)
      /\ app.authoritative \in [Circuits -> Sessions \cup {NoSession}]
    BY DEF TypeOK, OwnershipWellFormed, ApplicationStates
<1>3. CASE ShareUpsert /\ shared_upsert_may_apply(app, JobCircuit, JobSession)
  <2>1. worker' = [worker EXCEPT !.at = "create"] /\ app' = app
      BY <1>3 DEF ShareUpsert, Goto
  <2>2. worker' \in [at : WorkLabels, job : Queued] /\ worker'.at = "create"
        /\ worker'.job = worker.job
      BY <1>1, <2>1 DEF WorkLabels
  <2>3. TypeOK'
      BY <1>3, <2>1, <2>2 DEF ShareUpsert, TypeOK
  <2>4. OwnershipWellFormed' /\ InstalledHasAuthority'
      BY <1>3, <2>1 DEF ShareUpsert, OwnershipWellFormed, InstalledHasAuthority, Wanted
  <2>5. app.authoritative[JobCircuit] \in {NoSession, JobSession}
      BY <1>1, <1>2, <1>3, ConstantsAssumption DEF shared_upsert_may_apply, WellFormed
  <2>6. RequestStaysJustified'
      BY <2>1, <2>2, <2>5 DEF RequestStaysJustified, JobCircuit, JobSession, Job
  <2> QED BY <2>3, <2>4, <2>6
<1>4. CASE ShareUpsert /\ ~shared_upsert_may_apply(app, JobCircuit, JobSession)
  <2>1. /\ worker' = [worker EXCEPT !.at = "clear"]
        /\ app' = record_retained_upsert(app, JobCircuit, JobSession, Job.sequence)
      BY <1>4 DEF ShareUpsert, Goto
  <2>2. worker' \in [at : WorkLabels, job : Queued] /\ worker'.at = "clear"
      BY <1>1, <2>1 DEF WorkLabels
  <2>3. app.authoritative[JobCircuit] \notin {NoSession, JobSession}
      BY <1>4 DEF shared_upsert_may_apply
  <2>4. /\ app' \in ApplicationStates /\ WellFormed(app')
        /\ app'.authoritative = app.authoritative
      BY <1>1, <1>2, <2>1, <2>3, OwnerTypes, RetainedWellFormed
  <2>5. TypeOK'
      BY <1>4, <2>2, <2>4 DEF ShareUpsert, TypeOK
  <2>6. OwnershipWellFormed'
      BY <2>4 DEF OwnershipWellFormed
  <2>7. InstalledHasAuthority'
      BY <1>4, <2>4 DEF ShareUpsert, InstalledHasAuthority, Wanted
  <2>8. RequestStaysJustified'
      BY <2>2 DEF RequestStaysJustified
  <2> QED BY <2>5, <2>6, <2>7, <2>8
<1>5. CASE CreateDone
  <2> DEFINE device == [session |-> JobSession, sequence |-> Job.sequence]
  <2>1. PICK o \in BusOutcomes :
            /\ Answered(o, JobCircuit, device, Job.sequence)
            /\ app' = IF upsert_result_records_success(o)
                      THEN record_applied_upsert(app, JobCircuit, JobSession, Job.sequence)
                      ELSE app
      BY <1>5 DEF CreateDone
  <2>2. device \in Devices /\ device # NoDevice
      BY <1>1, SMTT(30) DEF Devices, NoDevice, NoSequence
  <2> HIDE DEF device
  <2>3. /\ installed' \in [Circuits -> Devices] /\ backlog' \in Seq(Commands)
        /\ stray' \subseteq Circuits
      BY <1>1, <2>1, <2>2, AnsweredType
  <2>4. worker' \in [at : WorkLabels, job : Queued] /\ worker'.at = "clear"
      BY <1>1, <1>5 DEF CreateDone, Goto, WorkLabels
  <2>5. app.authoritative[JobCircuit] \in {NoSession, JobSession}
      BY <1>5 DEF CreateDone, RequestStaysJustified
  <2>6. CASE upsert_result_records_success(o)
    <3>1. /\ app' \in ApplicationStates /\ WellFormed(app')
          /\ app'.authoritative = [app.authoritative EXCEPT ![JobCircuit] = JobSession]
        BY <1>1, <1>2, <2>1, <2>5, <2>6, OwnerTypes, AppliedWellFormed
    <3>2. InstalledHasAuthority'
        BY <1>1, <2>1, <2>2, <3>1, AuthorityKept
    <3>3. TypeOK'
        BY <1>5, <2>3, <2>4, <3>1 DEF CreateDone, TypeOK
    <3> QED BY <2>4, <3>1, <3>2, <3>3 DEF OwnershipWellFormed, RequestStaysJustified
  <2>7. CASE ~upsert_result_records_success(o)
    <3>1. app' = app
        BY <2>1, <2>7
    <3>2. InstalledHasAuthority'
        BY <1>1, <2>1, <2>2, <2>7, <3>1, NotRecorded
    <3>3. TypeOK'
        BY <1>5, <2>3, <2>4, <3>1 DEF CreateDone, TypeOK
    <3> QED BY <2>4, <3>1, <3>2, <3>3 DEF OwnershipWellFormed, RequestStaysJustified
  <2> QED BY <2>6, <2>7
<1> QED BY <1>3, <1>4, <1>5

-----------------------------------------------------------------------------
\* Releasing an owner takes the authority away from it, and from nobody else.
LEMMA ReleaseAuthority ==
    ASSUME NEW a \in ApplicationStates, NEW c \in Circuits, NEW s \in Sessions,
           WellFormed(a)
    PROVE  release_owner(a, c, s).authoritative =
               [a.authoritative EXCEPT ![c] = IF @ = s THEN NoSession ELSE @]
<1>1. release_owner(a, c, s).authoritative = [a.authoritative EXCEPT ![c] =
             IF @ = s \/ a.current_owners[c] \ {s} = {} THEN NoSession ELSE @]
    BY DEF release_owner, ApplicationStates
<1>2. /\ a.current_owners \in [Circuits -> SUBSET Sessions]
      /\ a.authoritative \in [Circuits -> Sessions \cup {NoSession}]
    BY DEF ApplicationStates
<1>3. a.authoritative[c] \notin {s, NoSession} => a.current_owners[c] \ {s} # {}
    BY <1>2 DEF WellFormed
<1> QED BY <1>1, <1>2, <1>3

\* A confirmed removal leaves nothing installed that could miss its authority,
\* an unconfirmed one leaves the books as they were.
LEMMA ApplyRemovalStep ==
    ASSUME Inv, NEW c \in Circuits, JobCircuit = c, Job.sequence \in Nat,
           NEW released \in ApplicationStates, WellFormed(released),
           \A d \in Circuits \ {c} : released.authoritative[d] = app.authoritative[d],
           ApplyRemoval(released)
    PROVE  Inv'
<1> USE DEF Inv
<1>1. PICK o \in BusOutcomes :
          /\ Answered(o, c, NoDevice, Job.sequence)
          /\ app' = IF removal_result_releases_owner(o) THEN released ELSE app
    BY DEF ApplyRemoval
<1>2. NoDevice \in Devices
    BY DEF NoDevice, Devices
<1>3. /\ installed' \in [Circuits -> Devices] /\ backlog' \in Seq(Commands)
      /\ stray' \subseteq Circuits
    BY <1>1, <1>2, AnsweredType
<1>4. TypeOK'
    BY <1>1, <1>3 DEF ApplyRemoval, TypeOK
<1>5. OwnershipWellFormed'
    BY <1>1 DEF OwnershipWellFormed
<1>6. InstalledHasAuthority'
  <2> SUFFICES ASSUME NEW e \in Circuits \ stray', Wanted(e)'
               PROVE  app'.authoritative[e] # NoSession
      BY DEF InstalledHasAuthority
  <2>1. Wanted(e)
      BY <1>1, <1>2, AnsweredWanted
  <2>2. CASE e = c /\ removal_result_releases_owner(o)
    <3>1. o.result = "Ok" /\ (o.effect = "none" \/ (o.effect = "done" /\ backlog = <<>>))
        BY <2>2, BusFacts
    <3>2. CASE o.effect = "none"
        BY <1>1, <2>2, <3>1, <3>2 DEF Answered, Misleads
    <3>3. CASE o.effect = "done" /\ backlog = <<>>
      <4>1. installed'[c] = NoDevice /\ backlog' = <<>>
          BY <1>1, <3>3 DEF Answered, TypeOK
      <4> QED BY <2>2, <4>1, SMTT(30) DEF Wanted
    <3> QED BY <3>1, <3>2, <3>3
  <2>3. CASE e # c
    <3>1. e \notin stray
        BY <1>1, <2>3 DEF Answered
    <3> QED BY <1>1, <2>1, <2>3, <3>1 DEF InstalledHasAuthority
  <2>4. CASE e = c /\ ~removal_result_releases_owner(o)
    <3>1. e \notin stray
      <4>1. o.effect # "done"
          BY <1>1, <2>4 DEF BusOutcomes, removal_result_releases_owner
      <4> QED BY <1>1, <4>1 DEF Answered
    <3> QED BY <1>1, <2>1, <2>4, <3>1 DEF InstalledHasAuthority
  <2> QED BY <2>2, <2>3, <2>4
<1>7. RequestStaysJustified'
    BY DEF ApplyRemoval, RequestStaysJustified, Draining
<1> QED BY <1>4, <1>5, <1>6, <1>7

\* The worker's steps around a removal.
LEMMA RemovalStep ==
    ASSUME Inv, ActOnRemoval \/ PromoteDone \/ RemoveDone \/ FallbackDone
    PROVE  Inv'
<1> USE DEF Inv
<1> DEFINE c == JobCircuit
           s == RemovalOwner
<1>1. /\ worker \in [at : WorkLabels, job : Queued]
      /\ Job.sequence \in Nat /\ c \in Circuits
      /\ \A label \in WorkLabels :
            [worker EXCEPT !.at = label] \in [at : WorkLabels, job : Queued]
    BY JobTypes DEF ActOnRemoval, PromoteDone, RemoveDone, FallbackDone, WorkLabels
<1>2. /\ app \in ApplicationStates /\ WellFormed(app)
      /\ app.authoritative \in [Circuits -> Sessions \cup {NoSession}]
    BY DEF TypeOK, OwnershipWellFormed, ApplicationStates
<1>3. s \in Sessions
  <2>1. s \in Sessions \cup {NoSession}
      BY <1>2, JobTypes, RemovalOwnerType
         DEF RemovalOwner, ActOnRemoval, PromoteDone, RemoveDone, FallbackDone, WorkLabels
  <2>2. s # NoSession
      BY DEF ActOnRemoval, PromoteDone, RemoveDone, FallbackDone, RequestStaysJustified
  <2> QED BY <2>1, <2>2
<1> DEFINE released == release_owner(app, c, s)
<1>4. /\ released \in ApplicationStates /\ WellFormed(released)
      /\ released.authoritative =
             [app.authoritative EXCEPT ![c] = IF @ = s THEN NoSession ELSE @]
    BY <1>1, <1>2, <1>3, OwnerTypes, ReleaseWellFormed, ReleaseAuthority
<1> HIDE DEF released
<1>5. CASE ActOnRemoval
  <2> DEFINE action == removal_action(app, c, s)
  <2>1. CASE action = "ReleaseOnly"
    <3>1. app' = released /\ worker' = Draining
        BY <1>5, <2>1 DEF ActOnRemoval, released
    <3>2. app.authoritative[c] # s
        BY <2>1 DEF removal_action
    <3>3. app'.authoritative = app.authoritative
        BY <1>1, <1>2, <1>4, <3>1, <3>2
    <3>4. TypeOK'
        BY <1>4, <1>5, <3>1 DEF ActOnRemoval, TypeOK
    <3>5. InstalledHasAuthority'
        BY <1>5, <3>3 DEF ActOnRemoval, InstalledHasAuthority, Wanted
    <3> QED BY <1>4, <3>1, <3>4, <3>5 DEF OwnershipWellFormed, RequestStaysJustified, Draining
  <2>2. CASE action \in {"Remove", "Promote"}
    <3>1. PICK label \in {"delete", "promote"} :
              worker' = [worker EXCEPT !.at = label] /\ app' = app
        BY <1>5, <2>2 DEF ActOnRemoval, Goto
    <3>2. app.authoritative[c] = s
        BY <2>2 DEF removal_action
    <3>3. worker' \in [at : WorkLabels, job : Queued] /\ worker'.at = label
          /\ worker'.job = worker.job
        BY <1>1, <3>1 DEF WorkLabels
    <3>4. TypeOK'
        BY <1>5, <3>1, <3>3 DEF ActOnRemoval, TypeOK
    <3>5. OwnershipWellFormed' /\ InstalledHasAuthority'
        BY <1>5, <3>1 DEF ActOnRemoval, OwnershipWellFormed, InstalledHasAuthority, Wanted
    <3>6. RemovalOwner' = s /\ JobCircuit' = c
        BY <3>1, <3>3 DEF RemovalOwner, JobCircuit, Job
    <3>7. RequestStaysJustified'
        BY <1>3, <3>1, <3>2, <3>3, <3>6, ConstantsAssumption DEF RequestStaysJustified
    <3> QED BY <3>4, <3>5, <3>7
  <2>3. action \in {"ReleaseOnly", "Remove", "Promote"}
      BY DEF removal_action
  <2> QED BY <2>1, <2>2, <2>3
<1>6. CASE RemoveDone
  <2>1. ApplyRemoval(released)
      BY <1>6 DEF RemoveDone, released
  <2>2. \A d \in Circuits \ {c} : released.authoritative[d] = app.authoritative[d]
      BY <1>2, <1>4
  <2> QED BY <1>1, <1>4, <2>1, <2>2, ApplyRemovalStep
<1>7. CASE FallbackDone
  <2>1. PICK t \in promotable_retained_upsert(app, c, s) :
            ApplyRemoval(release_owner(released, c, t))
      BY <1>7 DEF FallbackDone, released
  <2>2. t \in Sessions
      BY <1>1, <1>2, <1>3, <2>1, PromotableType
  <2> DEFINE both == release_owner(released, c, t)
  <2>3. /\ both \in ApplicationStates /\ WellFormed(both)
        /\ both.authoritative =
               [released.authoritative EXCEPT ![c] = IF @ = t THEN NoSession ELSE @]
      BY <1>1, <1>4, <2>2, OwnerTypes, ReleaseWellFormed, ReleaseAuthority
  <2> HIDE DEF both
  <2>4. \A d \in Circuits \ {c} : both.authoritative[d] = app.authoritative[d]
      BY <1>2, <1>4, <2>3
  <2>5. ApplyRemoval(both)
      BY <2>1 DEF both
  <2> QED BY <1>1, <2>3, <2>4, <2>5, ApplyRemovalStep
<1>8. CASE PromoteDone
  <2>1. PICK t \in promotable_retained_upsert(app, c, s), o \in BusOutcomes :
            /\ Answered(o, c, [session |-> t, sequence |-> app.retained[<<c, t>>]],
                        Job.sequence)
            /\ IF upsert_result_records_success(o)
               THEN /\ app' = record_applied_upsert(released, c, t, app.retained[<<c, t>>])
                    /\ worker' = Draining
               ELSE Goto("fallback") /\ app' = app
      BY <1>8 DEF PromoteDone, released
  <2> DEFINE first == app.retained[<<c, t>>]
             device == [session |-> t, sequence |-> first]
  <2>2. t \in Sessions /\ first \in Nat
      BY <1>1, <1>2, <1>3, <2>1, PromotableType
  <2>3. device \in Devices /\ device # NoDevice
      BY <2>2, SMTT(30) DEF Devices, NoDevice, NoSequence
  <2>4. Answered(o, c, device, Job.sequence)
      BY <2>1
  <2> HIDE DEF device, first
  <2>5. /\ installed' \in [Circuits -> Devices] /\ backlog' \in Seq(Commands)
        /\ stray' \subseteq Circuits
      BY <1>1, <2>3, <2>4, AnsweredType
  <2>6. app.authoritative[c] = s
      BY <1>8 DEF PromoteDone, RequestStaysJustified
  <2>7. CASE upsert_result_records_success(o)
    <3>1. app' = record_applied_upsert(released, c, t, first) /\ worker' = Draining
        BY <2>1, <2>7 DEF first
    <3>2. released.authoritative[c] = NoSession
        BY <1>1, <1>2, <1>4, <2>6
    <3>3. /\ app' \in ApplicationStates /\ WellFormed(app')
          /\ app'.authoritative = [released.authoritative EXCEPT ![c] = t]
      <4>1. released.authoritative[c] \in {NoSession, t}
          BY <3>2
      <4>2. record_applied_upsert(released, c, t, first) \in ApplicationStates
          BY <1>1, <1>4, <2>2, OwnerTypes
      <4>3. /\ WellFormed(record_applied_upsert(released, c, t, first))
            /\ record_applied_upsert(released, c, t, first).authoritative =
                   [released.authoritative EXCEPT ![c] = t]
        <5>1. released \in ApplicationStates /\ WellFormed(released) /\ c \in Circuits
            BY <1>1, <1>4
        <5> HIDE DEF c
        <5> QED BY <2>2, <4>1, <5>1, AppliedWellFormed
      <4> QED BY <3>1, <4>2, <4>3
    <3>4. app'.authoritative = [app.authoritative EXCEPT ![c] = t]
        BY <1>1, <1>2, <1>4, <3>3
    <3>5. InstalledHasAuthority'
        BY <1>1, <2>2, <2>3, <2>4, <3>4, AuthorityKept
    <3>6. TypeOK'
        BY <1>8, <2>5, <3>1, <3>3 DEF PromoteDone, TypeOK
    <3> QED BY <3>1, <3>3, <3>5, <3>6 DEF OwnershipWellFormed, RequestStaysJustified, Draining
  <2>8. CASE ~upsert_result_records_success(o)
    <3>1. app' = app /\ worker' = [worker EXCEPT !.at = "fallback"]
        BY <2>1, <2>8 DEF Goto
    <3>2. InstalledHasAuthority'
        BY <1>1, <2>1, <2>3, <2>4, <2>8, <3>1, NotRecorded
    <3>3. worker' \in [at : WorkLabels, job : Queued] /\ worker'.at = "fallback"
          /\ worker'.job = worker.job
        BY <1>1, <3>1 DEF WorkLabels
    <3>4. TypeOK'
        BY <1>8, <2>5, <3>1, <3>3 DEF PromoteDone, TypeOK
    <3>5. RemovalOwner' = s /\ JobCircuit' = c
        BY <3>1, <3>3 DEF RemovalOwner, JobCircuit, Job
    <3>6. RequestStaysJustified'
        BY <1>3, <2>6, <3>1, <3>3, <3>5, ConstantsAssumption DEF RequestStaysJustified
    <3> QED BY <3>1, <3>2, <3>4, <3>6 DEF OwnershipWellFormed
  <2> QED BY <2>7, <2>8
<1> QED BY <1>5, <1>6, <1>7, <1>8

-----------------------------------------------------------------------------

\* What lqosd does on its own: it carries out what it was asked for, and lets
\* circuits go.
LEMMA LqosdStep ==
    ASSUME Inv, Lqosd
    PROVE  Inv'
<1> USE DEF Inv
<1>1. /\ installed' \in [Circuits -> Devices]
      /\ backlog' \in Seq(Commands)
      /\ \A e \in Circuits : Wanted(e)' => Wanted(e)
  <2>1. CASE CarryOut
    <3>1. /\ backlog \in Seq(Commands) /\ backlog # <<>>
          /\ installed' = [installed EXCEPT ![Head(backlog).circuit] = Head(backlog).device]
          /\ backlog' = Tail(backlog)
        BY <2>1 DEF CarryOut, TypeOK
    <3>2. /\ Head(backlog) \in Commands /\ Head(backlog) = backlog[1]
          /\ 1 \in 1..Len(backlog) /\ backlog' \in Seq(Commands)
          /\ \A i \in 1..Len(backlog') : i + 1 \in 1..Len(backlog) /\ backlog'[i] = backlog[i + 1]
        BY <3>1, SMTT(30)
    <3>3. Head(backlog).circuit \in Circuits /\ Head(backlog).device \in Devices
        BY <3>2 DEF Commands
    <3>4. installed' \in [Circuits -> Devices]
        BY <3>1, <3>3 DEF TypeOK
    <3>5. ASSUME NEW e \in Circuits, Wanted(e)'
          PROVE  Wanted(e)
      <4>1. CASE installed'[e] # NoDevice
          BY <3>1, <3>2, <3>3, <4>1 DEF Wanted, TypeOK
      <4>2. ASSUME NEW i \in 1..Len(backlog'), backlog'[i].circuit = e,
                   backlog'[i].device # NoDevice
            PROVE  Wanted(e)
          BY <3>2, <4>2 DEF Wanted
      <4> QED BY <3>5, <4>1, <4>2 DEF Wanted
    <3> QED BY <3>2, <3>4, <3>5
  <2>2. CASE ExpireCircuit
    <3>1. PICK c \in Circuits : installed' = [installed EXCEPT ![c] = NoDevice]
        BY <2>2 DEF ExpireCircuit
    <3>2. NoDevice \in Devices /\ backlog' = backlog
        BY <2>2 DEF NoDevice, Devices, ExpireCircuit
    <3> QED BY <3>1, <3>2 DEF TypeOK, Wanted
  <2> QED BY <2>1, <2>2 DEF Lqosd
<1>2. UNCHANGED <<active, outbox, emitting, next_sequence, queue, app, worker, stray>>
    BY DEF Lqosd, CarryOut, ExpireCircuit
<1>3. TypeOK'
    BY <1>1, <1>2 DEF TypeOK
<1>4. InstalledHasAuthority'
    BY <1>1, <1>2 DEF InstalledHasAuthority
<1>5. OwnershipWellFormed'
    BY <1>2 DEF OwnershipWellFormed
<1>6. RequestStaysJustified'
    BY <1>2 DEF RequestStaysJustified, RemovalOwner, JobCircuit, JobSession, Job
<1> QED BY <1>3, <1>4, <1>5, <1>6

\* lqosd starts in a state that satisfies the invariant.
LEMMA InitInv ==
    ASSUME Init
    PROVE  Inv
<1>1. TypeOK
  <2>1. EmptyState \in ApplicationStates
      BY DEF EmptyState, ApplicationStates
  <2>2. NoDevice \in Devices
      BY DEF NoDevice, Devices
  <2>3. queue \in Seq(Queued) /\ Len(queue) <= QueueCapacity
      BY ConstantsAssumption DEF Init
  <2>4. installed \in [Circuits -> Devices]
      BY <2>2 DEF Init, Leftover, Devices
  <2>5. backlog \in Seq(Commands) /\ stray \subseteq Circuits
      BY ConstantsAssumption DEF Init
  <2> QED BY <2>1, <2>3, <2>4, <2>5 DEF Init, TypeOK
<1>2. OwnershipWellFormed
  <2>1. \A c \in Circuits, s \in Sessions : <<c, s>> \in Owners
      BY DEF Owners
  <2> SUFFICES ASSUME NEW c \in Circuits, NEW s \in Sessions
               PROVE  /\ s = app.authoritative[c] => app.retained[<<c, s>>] = NoSequence
                      /\ s \in app.current_owners[c] <=>
                            s = app.authoritative[c] \/ app.retained[<<c, s>>] # NoSequence
      BY DEF OwnershipWellFormed, WellFormed
  <2> QED BY <2>1, ConstantsAssumption DEF Init, EmptyState
<1>3. InstalledHasAuthority
    BY SMTT(30) DEF Init, InstalledHasAuthority, Wanted
<1>4. RequestStaysJustified
    BY DEF Init, RequestStaysJustified, Waiting
<1> QED BY <1>1, <1>2, <1>3, <1>4 DEF Inv

\* Every step of the listener and of the worker preserves the invariant.
LEMMA NextInv ==
    ASSUME Inv, [Next]_vars
    PROVE  Inv'
<1>1. CASE SessionEvent
    BY <1>1, EventStep
<1>2. CASE Listener
    BY <1>2, EmitStep
<1>3. CASE Worker
    BY <1>3, QuietWorkerStep, UpsertStep, RemovalStep DEF Worker
<1>4. CASE UNCHANGED vars
  <2>1. TypeOK'
      BY <1>4 DEF vars, Inv, TypeOK
  <2> QED BY <1>4, <2>1, BooksKept DEF vars, SameBooks
<1>5. CASE Lqosd
    BY <1>5, LqosdStep
<1> QED BY <1>1, <1>2, <1>3, <1>4, <1>5 DEF Next

\* The inductive invariant holds in every reachable state.
THEOREM Invariance == Spec => []Inv
<1>1. Init => Inv
    BY InitInv
<1>2. Inv /\ [Next]_vars => Inv'
    BY NextInv
<1> QED BY <1>1, <1>2, PTL DEF Spec

\* The state keeps its shape and the intent queue its capacity, for any number
\* of sessions, circuits and intents and any failures of the bus.
THEOREM TypeCorrect == Spec => []TypeOK
<1>1. Inv => TypeOK
    BY DEF Inv
<1> QED BY <1>1, Invariance, PTL

\* The ownership books of the worker are always well formed.
THEOREM BooksWellFormed == Spec => []OwnershipWellFormed
<1>1. Inv => OwnershipWellFormed
    BY DEF Inv
<1> QED BY <1>1, Invariance, PTL

\* lqosd neither has nor is about to get a circuit that no session has authority
\* over, unless it said that the create had failed or that the removal was done.
THEOREM NoCircuitWithoutAuthority == Spec => []InstalledHasAuthority
<1>1. Inv => InstalledHasAuthority
    BY DEF Inv
<1> QED BY <1>1, Invariance, PTL

\* What a bus request was based on still holds when its reply arrives.
THEOREM RequestsStayJustified == Spec => []RequestStaysJustified
<1>1. Inv => RequestStaysJustified
    BY DEF Inv
<1> QED BY <1>1, Invariance, PTL

=============================================================================
