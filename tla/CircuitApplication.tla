-------------------------- MODULE CircuitApplication --------------------------
(***************************************************************************)
(* The dynamic-circuit application pipeline of the RADIUS accounting        *)
(* listener (lqosd/src/radius_accounting.rs).                               *)
(*                                                                          *)
(* Two tokio tasks share `application_state` behind a mutex:                *)
(*   - the listener task turns an accounting event into intents and emits   *)
(*     them one by one into a bounded queue (ApplyingDynamicCircuitSink);   *)
(*   - the worker task takes intents from the queue, asks lqosd over the    *)
(*     internal bus to create or remove circuits, and keeps the books on    *)
(*     which sessions own a circuit and which of them is authoritative.     *)
(* Every lock section and every await is a step of its own.                 *)
(*                                                                          *)
(* Abstractions.  A shaped device is the session it was resolved for and    *)
(* the sequence number of the upsert that carried it.  The session store is *)
(* reduced to the circuit ids each session believes active; the order of    *)
(* the removals of one event is left open.  lqosd is reduced to the         *)
(* overlays of the bakery and to the commands it has still to carry out:    *)
(* the bus, the registry's actor and the bakery each have one consumer that *)
(* takes its queue in order, and every wait for them may end before they    *)
(* have.  A behaviour is one life of lqosd: a restart loses the books, the  *)
(* sessions and the commands, and starts again from the circuits of         *)
(* dynamic_circuits.json.  Apply-failed diagnostics are left out.           *)
(***************************************************************************)
EXTENDS Integers, Sequences, FiniteSets

CONSTANTS
    Sessions,       \* accounting session keys
    Circuits,       \* circuit ids
    QueueCapacity,  \* capacity of the intent queue (1024 in lqosd)
    MaxIntents,     \* bound on the intents emitted in a behaviour
    Events,         \* kinds of session event that may happen, see SessionEvent
    Faults,         \* what may happen to lqosd and the bus, see BusOutcomes
    Leftovers,      \* circuits an earlier life of lqosd left in dynamic_circuits.json
    NoSession       \* absence of a session

ASSUME ConstantsAssumption ==
    /\ NoSession \notin Sessions
    /\ QueueCapacity \in Nat \ {0}
    /\ MaxIntents \in Nat
    /\ Events \subseteq {"active", "end", "rekey", "promote"}
    /\ Faults \subseteq {"refused", "failed", "timeout", "dropped", "disabled", "expire"}
    /\ Leftovers \subseteq Circuits

VARIABLES
    active,         \* circuit ids each session believes active
    outbox,         \* intents the current event still has to emit
    emitting,       \* the emit call in progress
    next_sequence,  \* next sequence number of the sink
    queue,          \* the bounded intent queue
    app,            \* DynamicCircuitApplicationState
    worker,         \* where the worker is, and the intent it is processing
    installed,      \* the device lqosd has for each circuit
    backlog,        \* commands lqosd has taken and not carried out
    stray           \* history: circuits lqosd has against the answer it gave

lqosd == <<installed, backlog, stray>>
vars == <<active, outbox, emitting, next_sequence, queue, app, worker, lqosd>>

Owners == Circuits \X Sessions
NoSequence == -1
Devices == [session : Sessions \cup {NoSession}, sequence : Nat \cup {NoSequence}]
NoDevice == [session |-> NoSession, sequence |-> NoSequence]
\* The device of a circuit from an earlier life of lqosd.
Leftover == [session |-> NoSession, sequence |-> 0]
\* What lqosd is to have for a circuit, and the intent that asked for it.
Commands == [circuit : Circuits, device : Devices, sequence : Nat]

Upsert(c, s) == [kind |-> "upsert", circuit |-> c, session |-> s, rekeyed |-> FALSE]
Removal(c, s, r) == [kind |-> "remove", circuit |-> c, session |-> s, rekeyed |-> r]
Intents == [kind : {"upsert", "remove"}, circuit : Circuits, session : Sessions,
            rekeyed : BOOLEAN]
Queued == [sequence : Nat, intent : Intents]

OwnerKey(i) == <<i.circuit, i.session>>

-----------------------------------------------------------------------------
(***************************************************************************)
(* DynamicCircuitApplicationState: its methods as functions on the record.  *)
(* A sequence that a map does not hold is NoSequence.  pending_removal_order*)
(* holds <<sequence, owner>> pairs: removals are pushed in sequence order.  *)
(***************************************************************************)
ApplicationStates ==
    [ current_owners        : [Circuits -> SUBSET Sessions],
      authoritative         : [Circuits -> Sessions \cup {NoSession}],
      pending_upserts       : [Owners -> SUBSET Nat],
      deferred_removal      : [Owners -> Nat \cup {NoSequence}],
      pending_removals      : SUBSET Queued,
      pending_removal_order : SUBSET (Nat \X Owners),
      latest_applied        : [Owners -> Nat \cup {NoSequence}],
      retained              : [Owners -> Nat \cup {NoSequence}] ]

EmptyState ==
    [ current_owners        |-> [c \in Circuits |-> {}],
      authoritative         |-> [c \in Circuits |-> NoSession],
      pending_upserts       |-> [o \in Owners |-> {}],
      deferred_removal      |-> [o \in Owners |-> NoSequence],
      pending_removals      |-> {},
      pending_removal_order |-> {},
      latest_applied        |-> [o \in Owners |-> NoSequence],
      retained              |-> [o \in Owners |-> NoSequence] ]

track_pending_upsert(a, o, seq) ==
    [a EXCEPT !.pending_upserts[o] = @ \cup {seq}]

has_pending_upsert_at_or_before(a, o, seq) ==
    \E p \in a.pending_upserts[o] : p <= seq

track_deferred_removal(a, o, seq) ==
    IF has_pending_upsert_at_or_before(a, o, seq)
    THEN [a EXCEPT !.deferred_removal[o] = seq]
    ELSE a

prune_deferred_removal(a, o) ==
    IF has_pending_upsert_at_or_before(a, o, a.deferred_removal[o])
    THEN a
    ELSE [a EXCEPT !.deferred_removal[o] = NoSequence]

clear_pending_upsert(a, o, seq) ==
    prune_deferred_removal([a EXCEPT !.pending_upserts[o] = @ \ {seq}], o)

upsert_was_removed_before_application(a, o, seq) ==
    seq <= a.deferred_removal[o]

PendingRemovalOf(a, o) == {q \in a.pending_removals : OwnerKey(q.intent) = o}

record_pending_removal(a, q) ==
    LET o == OwnerKey(q.intent)
        kept == IF PendingRemovalOf(a, o) = {}
                THEN a.pending_removal_order
                ELSE {e \in a.pending_removal_order : e[2] # o}
    IN  [a EXCEPT !.pending_removals = (@ \ PendingRemovalOf(a, o)) \cup {q},
                  !.pending_removal_order = kept \cup {<<q.sequence, o>>}]

\* Mutant: any session may overwrite a shared circuit.
AnyUpsertMayApply(a, c, s) == TRUE

\* The other owners' claims do not count while the circuit has no owner but s.
shared_upsert_may_apply(a, c, s) ==
    \/ a.current_owners[c] \subseteq {s}
    \/ a.authoritative[c] \in {NoSession, s}

record_upsert_owner(a, c, s) ==
    [a EXCEPT !.retained[<<c, s>>] = NoSequence,
              !.current_owners[c] = @ \cup {s},
              !.authoritative[c] = IF @ = NoSession THEN s ELSE @]

record_applied_upsert(a, c, s, seq) ==
    [record_upsert_owner(a, c, s) EXCEPT !.latest_applied[<<c, s>>] = seq]

\* record_upsert_owner drops what was retained, so the new sequence is kept.
record_retained_upsert(a, c, s, seq) ==
    IF seq <= a.deferred_removal[<<c, s>>]
    THEN a
    ELSE [record_upsert_owner(prune_deferred_removal(a, <<c, s>>), c, s)
             EXCEPT !.retained[<<c, s>>] = seq]

\* Mutant: the authority is given up only with the last owner.
ReleaseKeepsAuthority(a, c, s) ==
    LET o == <<c, s>>
        remaining == a.current_owners[c] \ {s}
    IN  [a EXCEPT !.retained[o] = NoSequence,
                  !.pending_upserts[o] = {},
                  !.deferred_removal[o] = NoSequence,
                  !.pending_removals = @ \ PendingRemovalOf(a, o),
                  !.latest_applied[o] = NoSequence,
                  !.current_owners[c] = remaining,
                  !.authoritative[c] = IF remaining = {} THEN NoSession ELSE @]

release_owner(a, c, s) ==
    LET o == <<c, s>>
        remaining == a.current_owners[c] \ {s}
    IN  [a EXCEPT !.retained[o] = NoSequence,
                  !.pending_upserts[o] = {},
                  !.deferred_removal[o] = NoSequence,
                  !.pending_removals = @ \ PendingRemovalOf(a, o),
                  !.latest_applied[o] = NoSequence,
                  !.current_owners[c] = remaining,
                  !.authoritative[c] =
                      IF @ = s \/ remaining = {} THEN NoSession ELSE @]

\* Mutant: only the authoritative session may give a circuit up.
OnlyAuthorityRemoves(a, i) ==
    IF a.authoritative[i.circuit] = i.session THEN i.session ELSE NoSession

\* A removal acts for its own session when that owns the circuit; a removal
\* that follows a rekey may act for the circuit's sole, authoritative owner.
removal_owner_context(a, i) ==
    CASE i.session \in a.current_owners[i.circuit] -> i.session
      [] /\ i.session \notin a.current_owners[i.circuit]
         /\ i.rekeyed
         /\ a.authoritative[i.circuit] # NoSession
         /\ a.current_owners[i.circuit] = {a.authoritative[i.circuit]}
           -> a.authoritative[i.circuit]
      [] OTHER -> NoSession

\* Mutant: the order of a removal and the upserts around it is not compared.
RemovalNeverStale(a, c, s, seq) == FALSE

removal_is_stale(a, c, s, seq) == a.latest_applied[<<c, s>>] > seq

RetainedOthers(a, c, s) ==
    {t \in Sessions \ {s} : a.retained[<<c, t>>] # NoSequence}

\* An Option: empty, or the one owner whose retained upsert came first.
promotable_retained_upsert(a, c, s) ==
    {t \in RetainedOthers(a, c, s) :
        \A u \in RetainedOthers(a, c, s) :
            a.retained[<<c, t>>] <= a.retained[<<c, u>>]}

\* Mutant: the circuit goes with its authoritative session, whoever waits.
NeverPromotes(a, c, s) == IF a.authoritative[c] # s THEN "ReleaseOnly" ELSE "Remove"

removal_action(a, c, s) ==
    CASE a.authoritative[c] # s -> "ReleaseOnly"
      [] a.authoritative[c] = s /\ promotable_retained_upsert(a, c, s) # {} -> "Promote"
      [] OTHER -> "Remove"

-----------------------------------------------------------------------------
(***************************************************************************)
(* The listener task: session events and the emission of their intents.     *)
(***************************************************************************)
Idle == [stage |-> "idle"]

\* What session s lists once the sessions `previous` are merged into it.  Only an
\* alternate key of the same session brings circuits along: a session that is
\* still pending has no shaped device, hence lists none.
Listed(s, previous) == active[s] \cup UNION {active[p] : p \in previous}

\* The listener handles one event at a time, and MaxIntents bounds them all.
StartEvent(s, previous, listed, intents) ==
    /\ emitting = Idle
    /\ outbox = {}
    /\ previous # {} => "promote" \in Events
    /\ next_sequence + Cardinality(intents) <= MaxIntents
    /\ outbox' = intents
    /\ active' = [t \in Sessions |-> IF t = s THEN listed
                                     ELSE IF t \in previous THEN {} ELSE active[t]]
    /\ UNCHANGED <<emitting, next_sequence, queue, app, worker, lqosd>>

\* Start or Interim-Update: session s resolves to circuit c.
SessionActive(s, previous, c) ==
    LET others == Listed(s, previous) \ {c}
    IN  /\ "active" \in Events
        /\ others # {} => "rekey" \in Events
        /\ StartEvent(s, previous, {c},
                      {Upsert(c, s)} \cup {Removal(d, s, TRUE) : d \in others})

\* Stop, expiry, or an update after which the session cannot be shaped.
SessionEnded(s, previous) ==
    /\ "end" \in Events
    /\ Listed(s, previous) # {}
    /\ StartEvent(s, previous, {}, {Removal(d, s, FALSE) : d \in Listed(s, previous)})

\* emit, first lock section: number the intent and note what it overtakes.
EmitTrack ==
    /\ emitting = Idle
    /\ \E i \in outbox :
          /\ i.kind = "remove" => \A j \in outbox : j.kind = "remove"
          /\ outbox' = outbox \ {i}
          /\ emitting' = [stage |-> "send",
                          queued |-> [sequence |-> next_sequence, intent |-> i]]
          /\ app' = IF i.kind = "upsert"
                    THEN track_pending_upsert(app, OwnerKey(i), next_sequence)
                    ELSE track_deferred_removal(app, OwnerKey(i), next_sequence)
    /\ next_sequence' = next_sequence + 1
    /\ UNCHANGED <<active, queue, worker, lqosd>>

\* Mutant: off by one at the queue's capacity.
SendBeyondCapacity ==
    /\ emitting.stage = "send"
    /\ IF Len(queue) <= QueueCapacity
       THEN /\ queue' = Append(queue, emitting.queued)
            /\ emitting' = Idle
       ELSE /\ emitting' = [emitting EXCEPT !.stage = "full"]
            /\ queue' = queue
    /\ UNCHANGED <<active, outbox, next_sequence, app, worker, lqosd>>

\* try_send
EmitSend ==
    /\ emitting.stage = "send"
    /\ IF Len(queue) < QueueCapacity
       THEN /\ queue' = Append(queue, emitting.queued)
            /\ emitting' = Idle
       ELSE /\ emitting' = [emitting EXCEPT !.stage = "full"]
            /\ queue' = queue
    /\ UNCHANGED <<active, outbox, next_sequence, app, worker, lqosd>>

\* Mutant: an upsert the queue did not take stays pending.
QueueFullKeepsPending ==
    /\ emitting.stage = "full"
    /\ app' = IF emitting.queued.intent.kind = "upsert" THEN app
              ELSE record_pending_removal(app, emitting.queued)
    /\ emitting' = Idle
    /\ UNCHANGED <<active, outbox, next_sequence, queue, worker, lqosd>>

\* The queue was full: an upsert is given up, a removal goes to the side list.
EmitQueueFull ==
    /\ emitting.stage = "full"
    /\ LET q == emitting.queued
       IN  app' = IF q.intent.kind = "upsert"
                  THEN clear_pending_upsert(app, OwnerKey(q.intent), q.sequence)
                  ELSE record_pending_removal(app, q)
    /\ emitting' = Idle
    /\ UNCHANGED <<active, outbox, next_sequence, queue, worker, lqosd>>

-----------------------------------------------------------------------------
(***************************************************************************)
(* lqosd behind the internal bus.  `result` is what                         *)
(* apply_dynamic_circuit_request returns, `effect` what becomes of the      *)
(* request.  A success tells that the bakery has carried out everything     *)
(* before it, except when dynamic circuits are disabled or the              *)
(* configuration cannot be read: then lqosd acknowledges and does nothing.  *)
(* A failure tells nothing: the bakery may have stored the overlay and      *)
(* refused the class, or the wait for it ended first and it follows later.  *)
(***************************************************************************)
BusOutcomes ==
    {o \in [result : {"Ok"}, effect : {"done"}] : backlog = <<>>}
    \cup {o \in [result : {"Ok"}, effect : {"none"}] : "disabled" \in Faults}
    \cup {o \in [result : {"BusSendTimeout"}, effect : {"none"}] : "refused" \in Faults}
    \cup {o \in [result : {"RequestFailed"}, effect : {"none", "late"}] : "failed" \in Faults}
    \cup {o \in [result : {"ReplyTimeout"}, effect : {"none", "late"}] : "timeout" \in Faults}
    \cup {o \in [result : {"ReplyDropped"}, effect : {"none", "late"}] : "dropped" \in Faults}

upsert_result_records_success(o) == o.result \in {"Ok", "ReplyTimeout", "ReplyDropped"}
\* Mutant: a removal without an answer counts as done, as an upsert does.
UnansweredReleasesOwner(o) == o.result \in {"Ok", "ReplyTimeout", "ReplyDropped"}

removal_result_releases_owner(o) == o.result = "Ok"

\* The answer is false, and leaves a circuit nobody asked to keep: a create that
\* is said to have failed goes on, or a removal that is said to be done is not.
Misleads(o, device) ==
    \/ o.result = "RequestFailed" /\ o.effect = "late" /\ device # NoDevice
    \/ o.result = "Ok" /\ o.effect = "none" /\ device = NoDevice

\* The request of intent number seq for circuit c is answered with outcome o.
Answered(o, c, device, seq) ==
    /\ installed' = IF o.effect = "done" THEN [installed EXCEPT ![c] = device] ELSE installed
    /\ backlog' = IF o.effect = "late"
                  THEN Append(backlog, [circuit |-> c, device |-> device, sequence |-> seq])
                  ELSE backlog
    /\ stray' = IF Misleads(o, device) THEN stray \cup {c}
                ELSE IF o.effect = "done" THEN stray \ {c} ELSE stray

\* The bakery carries out the oldest command it has.
CarryOut ==
    /\ backlog # <<>>
    /\ installed' = [installed EXCEPT ![Head(backlog).circuit] = Head(backlog).device]
    /\ backlog' = Tail(backlog)
    /\ UNCHANGED <<active, outbox, emitting, next_sequence, queue, app, worker, stray>>

\* The registry drops a circuit that was idle for the TTL and tells the bakery:
\* the step is the bakery's, whatever was queued behind that command.
ExpireCircuit ==
    /\ "expire" \in Faults
    /\ \E c \in Circuits :
          /\ installed[c] # NoDevice
          /\ installed' = [installed EXCEPT ![c] = NoDevice]
    /\ UNCHANGED <<active, outbox, emitting, next_sequence, queue, app, worker,
                   backlog, stray>>

-----------------------------------------------------------------------------
(***************************************************************************)
(* The worker task.                                                         *)
(***************************************************************************)
Waiting == [at |-> "recv"]
Draining == [at |-> "drain"]
WorkLabels == {"check", "share", "create", "clear", "remove", "promote", "fallback", "delete"}
Job == worker.job
JobCircuit == Job.intent.circuit
JobSession == Job.intent.session
\* The session a removal acts for; only the worker changes what it depends on.
RemovalOwner == removal_owner_context(app, Job.intent)

Begin(q) == [at |-> IF q.intent.kind = "upsert" THEN "check" ELSE "remove", job |-> q]
Goto(label) == worker' = [worker EXCEPT !.at = label]

Receive ==
    /\ worker = Waiting
    /\ queue # <<>>
    /\ worker' = Begin(Head(queue))
    /\ queue' = Tail(queue)
    /\ UNCHANGED <<active, outbox, emitting, next_sequence, app, lqosd>>

CheckUpsert ==
    /\ worker.at = "check"
    /\ Goto(IF upsert_was_removed_before_application(app, OwnerKey(Job.intent), Job.sequence)
            THEN "clear" ELSE "share")
    /\ UNCHANGED <<active, outbox, emitting, next_sequence, queue, app, lqosd>>

ShareUpsert ==
    /\ worker.at = "share"
    /\ IF shared_upsert_may_apply(app, JobCircuit, JobSession)
       THEN Goto("create") /\ app' = app
       ELSE /\ Goto("clear")
            /\ app' = record_retained_upsert(app, JobCircuit, JobSession, Job.sequence)
    /\ UNCHANGED <<active, outbox, emitting, next_sequence, queue, lqosd>>

CreateDone ==
    /\ worker.at = "create"
    /\ \E o \in BusOutcomes :
          /\ Answered(o, JobCircuit, [session |-> JobSession, sequence |-> Job.sequence],
                      Job.sequence)
          /\ app' = IF upsert_result_records_success(o)
                    THEN record_applied_upsert(app, JobCircuit, JobSession, Job.sequence)
                    ELSE app
    /\ Goto("clear")
    /\ UNCHANGED <<active, outbox, emitting, next_sequence, queue>>

ClearUpsert ==
    /\ worker.at = "clear"
    /\ app' = clear_pending_upsert(app, OwnerKey(Job.intent), Job.sequence)
    /\ worker' = Draining
    /\ UNCHANGED <<active, outbox, emitting, next_sequence, queue, lqosd>>

\* The lock sections of a removal read only what the worker itself writes, so
\* they are one step, up to the bus request when there is one.
SkipRemoval ==
    /\ worker.at = "remove"
    /\ RemovalOwner # NoSession =>
          removal_is_stale(app, JobCircuit, RemovalOwner, Job.sequence)
    /\ worker' = Draining
    /\ UNCHANGED <<active, outbox, emitting, next_sequence, queue, app, lqosd>>

ActOnRemoval ==
    /\ worker.at = "remove"
    /\ RemovalOwner # NoSession
    /\ ~removal_is_stale(app, JobCircuit, RemovalOwner, Job.sequence)
    /\ LET action == removal_action(app, JobCircuit, RemovalOwner)
       IN  \/ /\ action = "ReleaseOnly"
              /\ app' = release_owner(app, JobCircuit, RemovalOwner)
              /\ worker' = Draining
           \/ /\ action = "Remove"
              /\ Goto("delete")
              /\ app' = app
           \/ /\ action = "Promote"
              /\ Goto("promote")
              /\ app' = app
    /\ UNCHANGED <<active, outbox, emitting, next_sequence, queue, lqosd>>

PromoteDone ==
    /\ worker.at = "promote"
    /\ \E t \in promotable_retained_upsert(app, JobCircuit, RemovalOwner),
          o \in BusOutcomes :
          LET first_sequence == app.retained[<<JobCircuit, t>>]
          IN  /\ Answered(o, JobCircuit, [session |-> t, sequence |-> first_sequence],
                          Job.sequence)
              /\ IF upsert_result_records_success(o)
                 THEN /\ app' = record_applied_upsert(
                                    release_owner(app, JobCircuit, RemovalOwner),
                                    JobCircuit, t, first_sequence)
                      /\ worker' = Draining
                 ELSE Goto("fallback") /\ app' = app
    /\ UNCHANGED <<active, outbox, emitting, next_sequence, queue>>

\* apply_dynamic_circuit_removal_request: `released` is the state of the books
\* once lqosd has confirmed the removal.
ApplyRemoval(released) ==
    /\ \E o \in BusOutcomes :
          /\ Answered(o, JobCircuit, NoDevice, Job.sequence)
          /\ app' = IF removal_result_releases_owner(o) THEN released ELSE app
    /\ worker' = Draining
    /\ UNCHANGED <<active, outbox, emitting, next_sequence, queue>>

RemoveDone ==
    /\ worker.at = "delete"
    /\ ApplyRemoval(release_owner(app, JobCircuit, RemovalOwner))

\* After a failed promotion the session that was to take over is released too.
FallbackDone ==
    /\ worker.at = "fallback"
    /\ \E t \in promotable_retained_upsert(app, JobCircuit, RemovalOwner) :
          ApplyRemoval(release_owner(release_owner(app, JobCircuit, RemovalOwner),
                                     JobCircuit, t))

\* Mutant: the drain loop never ends.
DrainForever ==
    /\ worker = Draining
    /\ LET live == {e \in app.pending_removal_order : PendingRemovalOf(app, e[2]) # {}}
       IN  \E e \in live, q \in app.pending_removals :
             /\ \A f \in live : e[1] <= f[1]
             /\ OwnerKey(q.intent) = e[2]
             /\ worker' = Begin(q)
             /\ app' = [app EXCEPT !.pending_removals = @ \ {q},
                            !.pending_removal_order = {f \in @ : f[1] > e[1]}]
    /\ UNCHANGED <<active, outbox, emitting, next_sequence, queue, lqosd>>

\* take_next_pending_removal pops until an owner still has a pending removal.
TakePendingRemoval ==
    /\ worker = Draining
    /\ LET live == {e \in app.pending_removal_order : PendingRemovalOf(app, e[2]) # {}}
       IN  \/ /\ live = {}
              /\ worker' = Waiting
              /\ app' = [app EXCEPT !.pending_removal_order = {}]
           \/ \E e \in live, q \in app.pending_removals :
                /\ \A f \in live : e[1] <= f[1]
                /\ OwnerKey(q.intent) = e[2]
                /\ worker' = Begin(q)
                /\ app' = [app EXCEPT !.pending_removals = @ \ {q},
                               !.pending_removal_order = {f \in @ : f[1] > e[1]}]
    /\ UNCHANGED <<active, outbox, emitting, next_sequence, queue, lqosd>>

-----------------------------------------------------------------------------
Init ==
    /\ active = [s \in Sessions |-> {}]
    /\ outbox = {}
    /\ emitting = Idle
    /\ next_sequence = 0
    /\ queue = <<>>
    /\ app = EmptyState
    /\ worker = Waiting
    /\ installed = [c \in Circuits |-> IF c \in Leftovers THEN Leftover ELSE NoDevice]
    /\ backlog = <<>>
    /\ stray = Leftovers

SessionEvent ==
    \E s \in Sessions : \E previous \in {{}} \cup {{p} : p \in Sessions \ {s}} :
        \/ \E c \in Circuits : SessionActive(s, previous, c)
        \/ SessionEnded(s, previous)

Listener == EmitTrack \/ EmitSend \/ EmitQueueFull

Worker ==
    \/ Receive \/ CheckUpsert \/ ShareUpsert \/ CreateDone \/ ClearUpsert
    \/ SkipRemoval \/ ActOnRemoval \/ PromoteDone \/ RemoveDone \/ FallbackDone
    \/ TakePendingRemoval

Lqosd == CarryOut \/ ExpireCircuit

Next == SessionEvent \/ Listener \/ Worker \/ Lqosd

Spec == Init /\ [][Next]_vars

\* Both tasks run on the runtime and every bus call has a timeout, so each
\* keeps making steps, and the bakery's thread takes what it is sent; nothing
\* obliges a NAS to send another packet.
FairSpec == Spec /\ WF_vars(Listener) /\ WF_vars(Worker) /\ WF_vars(CarryOut)

-----------------------------------------------------------------------------
\* The shape of the state, and the bound try_send keeps on the intent queue.
TypeOK ==
    /\ active \in [Sessions -> SUBSET Circuits]
    /\ outbox \subseteq Intents
    /\ emitting \in {Idle} \cup [stage : {"send", "full"}, queued : Queued]
    /\ next_sequence \in Nat
    /\ queue \in Seq(Queued)
    /\ Len(queue) <= QueueCapacity
    /\ app \in ApplicationStates
    /\ worker \in {Waiting, Draining} \cup [at : WorkLabels, job : Queued]
    /\ installed \in [Circuits -> Devices]
    /\ backlog \in Seq(Commands)
    /\ stray \subseteq Circuits

WellFormed(a) ==
    \A c \in Circuits, s \in Sessions :
        /\ s = a.authoritative[c] => a.retained[<<c, s>>] = NoSequence
        /\ s \in a.current_owners[c] <=>
              s = a.authoritative[c] \/ a.retained[<<c, s>>] # NoSequence

\* The ownership books: an authoritative session is an owner, and every owner is
\* either authoritative or has an upsert retained for its turn, never both.
OwnershipWellFormed == WellFormed(app)

Wanted(c) ==
    \/ installed[c] # NoDevice
    \/ \E i \in 1..Len(backlog) : backlog[i].circuit = c /\ backlog[i].device # NoDevice

\* Whatever the bus loses, delays or does twice, lqosd neither has nor is about
\* to get a circuit that no session has authority over, and that nobody could
\* remove any more, unless it answered that the create had failed or that the
\* removal was done; its next true answer about the circuit ends that, too.
InstalledHasAuthority ==
    \A c \in Circuits \ stray : Wanted(c) => app.authoritative[c] # NoSession

\* The worker decides on a bus request, releases the lock, awaits the reply and
\* then updates the books: what the decision was based on still holds then,
\* whatever the listener did in between.
RequestStaysJustified ==
    /\ worker.at = "create" => app.authoritative[JobCircuit] \in {NoSession, JobSession}
    /\ worker.at \in {"promote", "fallback", "delete"} =>
          /\ RemovalOwner # NoSession
          /\ RemovalOwner = app.authoritative[JobCircuit]

\* As long as the bus answers what it accepts, lqosd has exactly the device of the
\* authoritative session's latest applied upsert.
InstalledIsAuthoritative ==
    \A c \in Circuits :
        installed[c] = IF app.authoritative[c] = NoSession THEN NoDevice
                       ELSE [session |-> app.authoritative[c],
                             sequence |-> app.latest_applied[<<c, app.authoritative[c]>>]]

InFlight(o, p) ==
    LET is(q) == q.sequence = p /\ q.intent.kind = "upsert" /\ OwnerKey(q.intent) = o
    IN  \/ \E i \in 1..Len(queue) : is(queue[i])
        \/ emitting # Idle /\ is(emitting.queued)
        \/ worker \notin {Waiting, Draining} /\ is(worker.job)

\* A pending upsert is still on its way to the worker, and a deferred removal
\* marker outlives no upsert it was set for: neither map leaks entries.
PendingIsInFlight ==
    \A o \in Owners :
        /\ \A p \in app.pending_upserts[o] : InFlight(o, p)
        /\ app.deferred_removal[o] # NoSequence =>
              \E p \in app.pending_upserts[o] : p < app.deferred_removal[o]

Takes(step, c) == step /\ installed[c] # NoDevice /\ installed'[c] = NoDevice

\* A removal never takes down a device that a later upsert installed, even when
\* the removal waited on the side list while that upsert went through the queue,
\* or lqosd carries it out long after the worker stopped waiting for it; only a
\* device whose create lqosd said had failed is not known to be later.
NoStaleUninstall ==
    [][\A c \in Circuits \ stray :
          /\ Takes(backlog # <<>> /\ backlog' = Tail(backlog), c)
                => installed[c].sequence < Head(backlog).sequence
          /\ Takes(worker.at \in {"delete", "fallback"} /\ worker' # worker, c)
                => installed[c].sequence < Job.sequence]_vars

\* Both tasks are at rest and nothing is left to emit, queued or set aside.
Settled ==
    /\ outbox = {}
    /\ emitting = Idle
    /\ queue = <<>>
    /\ worker = Waiting
    /\ backlog = <<>>

Orphaned(c) == installed[c] # NoDevice /\ \A s \in Sessions : c \notin active[s]
Missing(c) == installed[c] = NoDevice /\ \E s \in Sessions : c \in active[s]

\* Once the pipeline is at rest no circuit is left for which no session exists:
\* a circuit "is removed at Accounting-Stop".
NoOrphanWhenSettled ==
    Settled /\ app.pending_removals = {} => \A c \in Circuits : ~Orphaned(c)

\* Once the pipeline is at rest every circuit an active session lists exists:
\* "the circuit appears at Accounting-Start", and only that session's end removes it.
NoMissingWhenSettled ==
    Settled => \A c \in Circuits : ~Missing(c)

\* After the last event lqosd ends up with the circuits the sessions list.
CircuitsConverge ==
    <>[](\A c \in Circuits : ~Orphaned(c) /\ ~Missing(c))
=============================================================================
