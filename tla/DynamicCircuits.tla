---------------------------- MODULE DynamicCircuits ----------------------------
(***************************************************************************)
(* Dynamic circuits across the three threads of lqosd that keep them:       *)
(*   - bus handlers (lqosd/src/dynamic_circuits.rs) run one create or       *)
(*     remove request each, waiting at most ten seconds for every reply;    *)
(*   - the network-devices actor (lqos_network_devices/src/actor.rs) owns   *)
(*     the registry, its file, the TTL and the ShapedDevices catalog;       *)
(*   - the bakery thread (lqos_bakery/src/lib.rs) owns the overlays, the    *)
(*     open batch and the circuits it has classes for.                      *)
(* A fourth thread, the promoter (lqosd/src/network_devices_hooks.rs),      *)
(* applies the circuits the actor makes out of unknown addresses.           *)
(* The threads talk over two FIFO channels, `regq` and `bakq`.              *)
(*                                                                          *)
(* Abstractions.  A shaped device is its circuit and a version, and hangs   *)
(* off the site ParentOf[circuit]; every circuit has an address, so all of  *)
(* them count against the mapped-circuit limit.  `idle` holds the circuits  *)
(* whose last_seen is older than the TTL; the clock itself is left out.     *)
(* In Observe mode a circuit of the books has no class in the kernel; only  *)
(* that upserts are put off is modelled.  Class minors, qdisc handles, live *)
(* migration, site virtualization and lazy queues are left out: a circuit   *)
(* has a class or it has not.                                               *)
(***************************************************************************)
EXTENDS Integers, Sequences, FiniteSets, SequencesExt

CONSTANTS
    Circuits,       \* circuit ids, after normalize_circuit_id_key
    Promotable,     \* the circuits that stand for an unknown address
    Versions,       \* contents a shaped device may have
    Sites,          \* sites of the shaping tree
    ParentOf,       \* the parent node of each circuit
    Plans,          \* batches LibreQoS.py may commit
    Catalogs,       \* sets of circuits ShapedDevices.csv may cover
    Handlers,       \* bus handler threads
    Promoter,       \* the promoter thread
    MappedLimit,    \* effective mapped-circuit limit
    MaxEvents,      \* bound on requests, sightings, reloads, batches, restarts
    Faults          \* what may fail: see the actions that name a fault

ASSUME ConstantsAssumption ==
    /\ Promotable \subseteq Circuits
    /\ IsFiniteSet(Circuits)
    /\ ParentOf \in [Circuits -> Sites]
    /\ Plans \subseteq [sites : SUBSET Sites, circuits : SUBSET Circuits]
    /\ \A plan \in Plans : \A c \in plan.circuits : ParentOf[c] \in plan.sites
    /\ Catalogs \subseteq SUBSET Circuits
    /\ Promoter \notin Handlers
    /\ MappedLimit \in Nat
    /\ MaxEvents \in Nat
    /\ Faults \subseteq {"persist", "timeout", "full", "disabled", "config", "observe",
                        "reload", "fallback", "lost", "restart"}

VARIABLES
    registry,   \* DYNAMIC_CIRCUITS: the version registered for a circuit
    idle,       \* registered circuits last seen longer ago than the TTL
    disk,       \* dynamic_circuits.json
    disk_idle,  \* the same reading of the file's last_seen_unix
    statics,    \* circuits covered by the published ShapedDevices catalog
    regq,       \* commands of the network-devices actor
    handler,    \* the request each bus handler is serving
    bakq,       \* commands of the bakery
    overlays,   \* dynamic_circuit_overlays
    batch,      \* whether a batch is open
    sites,      \* sites of the applied tree; none before the first commit
    live,       \* circuits: the bakery's circuits with a class
    planned,    \* circuits of the last batch that was applied
    sighted,    \* observations in flight of addresses nothing covered
    pending,    \* UNKNOWN_IP_PROMOTIONS_PENDING
    promoq,     \* promotions waiting for the promoter
    promoter,   \* the promotion the promoter is applying
    mapped,     \* circuits whose address the promoter put in the kernel map
    planner,    \* the batch LibreQoS.py is sending, if any
    events      \* environment events so far

actorVars == <<registry, idle, disk, disk_idle, statics>>
bakeryVars == <<overlays, batch, sites, live, planned>>
promoVars == <<sighted, pending, promoq, promoter, mapped>>
vars == <<actorVars, regq, handler, bakq, bakeryVars, promoVars, planner, events>>

(* A version that may be absent is a set of at most one version. *)
MaybeVersion == {{}} \cup {{v} : v \in Versions}
Stored == [Circuits -> MaybeVersion]
In(store) == {c \in Circuits : store[c] # {}}
Without(store, C) == [c \in Circuits |-> IF c \in C THEN {} ELSE store[c]]

Request(pc, c, v) == [pc |-> pc, circuit |-> c, version |-> v]
Nothing == [pc |-> "idle"]
Command(op, c, v, reply) == [op |-> op, circuit |-> c, version |-> v, reply |-> reply]
Removals(C) ==
    LET ids == SetToSeq(C)
    IN  [i \in DOMAIN ids |-> Command("remove", ids[i], {}, {})]

Count == events < MaxEvents /\ events' = events + 1
----------------------------------------------------------------------------
(* Bus handlers: create_dynamic_circuit and remove_dynamic_circuit *)

(* Handlers whose reply it is move on to pc, or are done. *)
Answer(reply, pc) ==
    [h \in Handlers |->
        CASE h \notin reply -> handler[h]
          [] pc = "idle"    -> Nothing
          [] OTHER          -> [handler[h] EXCEPT !.pc = pc]]

(* Mutant of Abandon: a late answer still finds the handler. *)
ReplyOutlivesTimeout(q, h) == q

(* After a timeout the command stays queued but its reply goes nowhere. *)
Abandon(q, h) ==
    [i \in DOMAIN q |-> IF "reply" \in DOMAIN q[i]
                        THEN [q[i] EXCEPT !.reply = @ \ {h}] ELSE q[i]]

(* The actor's channel stayed full for ten seconds: send_actor_command gives up. *)
ChannelFull == "full" \in Faults

(* The request is answered at once: acknowledged while dynamic circuits are
   disabled or the configuration cannot be read, refused for an empty field. *)
AnsweredAtOnce == "disabled" \in Faults

CreateDynamicCircuit(h, c, v) ==
    /\ handler[h].pc = "idle"
    /\ Count
    /\ \/ /\ regq' = Append(regq, Command("upsert", c, {v}, {h}))
          /\ handler' = [handler EXCEPT ![h] = Request("registering", c, {v})]
       \/ /\ AnsweredAtOnce \/ ChannelFull
          /\ UNCHANGED <<regq, handler>>
    /\ UNCHANGED <<actorVars, bakq, bakeryVars, promoVars, planner>>

(* The registry answered Ok: upsert_bakery_overlay *)
SendOverlay(h) ==
    /\ handler[h].pc = "registered"
    /\ bakq' = Append(bakq, Command("upsert", handler[h].circuit, handler[h].version, {h}))
    /\ handler' = [handler EXCEPT ![h].pc = "overlaying"]
    /\ UNCHANGED <<actorVars, regq, bakeryVars, promoVars, planner, events>>

(* remove_dynamic_circuit of the registry, for the request of h *)
Unregister(h, pc) ==
    \/ /\ regq' = Append(regq, Command("remove", handler[h].circuit, {}, {h}))
       /\ handler' = [handler EXCEPT ![h].pc = pc]
    \/ /\ ChannelFull
       /\ handler' = [handler EXCEPT ![h] = Nothing]
       /\ UNCHANGED regq

(* The bakery refused or did not answer: take the registry entry back. *)
Rollback(h) ==
    /\ handler[h].pc = "rejected"
    /\ Unregister(h, "rolling_back")
    /\ UNCHANGED <<actorVars, bakq, bakeryVars, promoVars, planner, events>>

RemoveDynamicCircuit(h, c) ==
    /\ handler[h].pc = "idle"
    /\ Count
    /\ \/ /\ bakq' = Append(bakq, Command("remove", c, {}, {h}))
          /\ handler' = [handler EXCEPT ![h] = Request("unlaying", c, {})]
       \/ AnsweredAtOnce /\ UNCHANGED <<bakq, handler>>
    /\ UNCHANGED <<actorVars, regq, bakeryVars, promoVars, planner>>

(* The bakery answered Ok: remove the registry entry as well. *)
SendUnregister(h) ==
    /\ handler[h].pc = "unlaid"
    /\ Unregister(h, "unregistering")
    /\ UNCHANGED <<actorVars, bakq, bakeryVars, promoVars, planner, events>>

RegistryTimeout(h) ==
    /\ "timeout" \in Faults
    /\ handler[h].pc \in {"registering", "rolling_back", "unregistering"}
    /\ regq' = Abandon(regq, h)
    /\ handler' = [handler EXCEPT ![h] = Nothing]
    /\ UNCHANGED <<actorVars, bakq, bakeryVars, promoVars, planner, events>>

BakeryTimeout(h) ==
    /\ "timeout" \in Faults
    /\ handler[h].pc \in {"overlaying", "unlaying"}
    /\ bakq' = Abandon(bakq, h)
    /\ handler' = [handler EXCEPT ![h] = IF @.pc = "overlaying"
                                          THEN [@ EXCEPT !.pc = "rejected"] ELSE Nothing]
    /\ UNCHANGED <<actorVars, regq, bakeryVars, promoVars, planner, events>>
----------------------------------------------------------------------------
(* The network-devices actor *)

(* persist_dynamic_circuits_to_disk writes the whole snapshot. *)
Persist(snapshot, stale) == disk' = snapshot /\ disk_idle' = stale

(* upsert_dynamic_circuit_inner up to its reply; an unchanged device is not
   written, so the file keeps its older last_seen_unix. *)
Upserted(c, v) ==
    /\ registry' = [registry EXCEPT ![c] = v]
    /\ idle' = idle \ {c}
    /\ IF registry[c] # v THEN Persist(registry', idle') ELSE UNCHANGED <<disk, disk_idle>>
    /\ UNCHANGED statics

(* Mutant of NotUpserted: the snapshot is published although the write failed. *)
PublishesUnwritten(c, v) ==
    /\ "persist" \in Faults
    /\ registry' = [registry EXCEPT ![c] = v]
    /\ UNCHANGED <<idle, disk, disk_idle, statics>>

(* Persisting failed: nothing is published. *)
NotUpserted(c, v) ==
    /\ "persist" \in Faults
    /\ registry[c] # v
    /\ UNCHANGED actorVars

RegistryUpsert ==
    /\ regq # <<>>
    /\ Head(regq).op = "upsert"
    /\ regq' = Tail(regq)
    /\ LET r == Head(regq) IN
          \/ Upserted(r.circuit, r.version) /\ handler' = Answer(r.reply, "registered")
          \/ NotUpserted(r.circuit, r.version) /\ handler' = Answer(r.reply, "idle")
    /\ UNCHANGED <<bakq, bakeryVars, promoVars, planner, events>>

(* remove_dynamic_circuit_inner; every outcome ends the handler's request. *)
RegistryRemove ==
    /\ regq # <<>>
    /\ Head(regq).op = "remove"
    /\ regq' = Tail(regq)
    /\ LET c == Head(regq).circuit IN
          \/ /\ c \in In(registry)
             /\ registry' = Without(registry, {c})
             /\ idle' = idle \ {c}
             /\ Persist(registry', idle')
             /\ UNCHANGED statics
          \/ /\ c \notin In(registry) \/ "persist" \in Faults
             /\ UNCHANGED actorVars
    /\ handler' = Answer(Head(regq).reply, "idle")
    /\ UNCHANGED <<bakq, bakeryVars, promoVars, planner, events>>

(* Time passes and nothing is seen of c for longer than the TTL.  The file is
   never newer than the snapshot.  The TTL is taken to be longer than the time
   a handler spends between two of its sends. *)
Age(c) ==
    /\ \A h \in Handlers : handler[h].pc = "registered" => handler[h].circuit # c
    /\ \/ c \in In(registry) \ idle /\ idle' = idle \cup {c}
       \/ c \in In(disk) \ disk_idle /\ UNCHANGED idle
    /\ disk_idle' = IF c \in In(disk) THEN disk_idle \cup {c} ELSE disk_idle
    /\ UNCHANGED <<registry, disk, statics, regq, handler, bakq, bakeryVars, promoVars, planner, events>>

(* The actor drops the circuits C and on_dynamic_circuits_expired tells the
   bakery, without waiting for a reply. *)
Drop(C) ==
    /\ registry' = Without(registry, C)
    /\ idle' = idle \ C
    /\ bakq' = bakq \o Removals(C)

(* Mutant of PruneExpired: the bakery is not told. *)
PruneWithoutHook ==
    /\ In(registry) \cap idle # {}
    /\ registry' = Without(registry, In(registry) \cap idle)
    /\ idle' = {}
    /\ Persist(registry', idle')
    /\ UNCHANGED <<bakq, statics, regq, handler, bakeryVars, promoVars, planner, events>>

(* The maintenance tick.  If persisting fails nothing happens. *)
PruneExpired ==
    /\ In(registry) \cap idle # {}
    /\ Drop(In(registry) \cap idle)
    /\ Persist(registry', idle')
    /\ UNCHANGED <<statics, regq, handler, bakeryVars, promoVars, planner, events>>

(* publish_shaped_devices_if_changed and the prune it ends with.  Here the
   circuits are dropped even if persisting fails. *)
ReloadShapedDevices(catalog) ==
    /\ catalog # statics
    /\ Count
    /\ statics' = catalog
    /\ Drop(In(registry) \cap catalog)
    /\ \/ In(registry) \cap catalog # {} /\ Persist(registry', idle')
       \/ /\ In(registry) \cap catalog = {} \/ "persist" \in Faults
          /\ UNCHANGED <<disk, disk_idle>>
    /\ UNCHANGED <<regq, handler, bakeryVars, promoVars, planner>>

(* Traffic of a registered circuit: the combined catalog resolves its address
   to the circuit, whether or not the kernel maps it, so the actor takes the
   observation as activity. *)
ObserveKnown(c) ==
    /\ c \in idle \ statics
    /\ idle' = idle \ {c}
    /\ UNCHANGED <<registry, disk, disk_idle, statics, regq, handler, bakq, bakeryVars,
                   promoVars, planner, events>>

(* The throughput tracker sees an address that resolves to nothing. *)
Sight(c) ==
    /\ c \in Promotable \ (In(registry) \cup statics \cup sighted)
    /\ Count
    /\ sighted' = sighted \cup {c}
    /\ UNCHANGED <<actorVars, regq, handler, bakq, bakeryVars, pending, promoq, promoter, mapped,
                   planner>>

(* Mutant of ObserveUnknown: the pending set is not consulted. *)
PromotesAgain(c, v) ==
    /\ c \in sighted
    /\ sighted' = sighted \ {c}
    /\ Upserted(c, {v})
    /\ pending' = pending \cup {c}
    /\ promoq' = Append(promoq, <<c, v>>)
    /\ UNCHANGED <<regq, handler, bakq, bakeryVars, promoter, mapped, planner, events>>

(* The actor gets that observation: maybe_promote_unknown_ips and the hook
   on_unknown_ip_promoted. *)
ObserveUnknown(c, v) ==
    /\ c \in sighted
    /\ sighted' = sighted \ {c}
    /\ \/ /\ c \notin statics
          /\ Upserted(c, {v})
          /\ pending' = pending \cup {c}
          /\ promoq' = IF c \in pending THEN promoq ELSE Append(promoq, <<c, v>>)
       \/ /\ c \in statics \/ NotUpserted(c, {v})
          /\ UNCHANGED <<actorVars, pending, promoq>>
    /\ UNCHANGED <<regq, handler, bakq, bakeryVars, promoter, mapped, planner, events>>
----------------------------------------------------------------------------
(* The promoter *)

TakePromotion ==
    /\ promoter.pc = "idle"
    /\ promoq # <<>>
    /\ LET c == Head(promoq)[1] IN
          /\ bakq' = Append(bakq, Command("upsert", c, {Head(promoq)[2]}, {Promoter}))
          /\ promoter' = Request("waiting", c, {})
    /\ promoq' = Tail(promoq)
    /\ UNCHANGED <<actorVars, regq, handler, bakeryVars, sighted, pending, mapped, planner, events>>

PromotionTimeout ==
    /\ "timeout" \in Faults
    /\ promoter.pc = "waiting"
    /\ bakq' = Abandon(bakq, Promoter)
    /\ promoter' = [promoter EXCEPT !.pc = "done"]
    /\ UNCHANGED <<actorVars, regq, handler, bakeryVars, sighted, pending, promoq, mapped, planner, events>>

(* The bakery returned a class handle: add_ip_to_tc for every address. *)
MapAddresses ==
    /\ promoter.pc = "handle"
    /\ mapped' = mapped \cup {promoter.circuit}
    /\ promoter' = [promoter EXCEPT !.pc = "done"]
    /\ UNCHANGED <<actorVars, regq, handler, bakq, bakeryVars, sighted, pending, promoq, planner, events>>

PromotionDone ==
    /\ promoter.pc = "done"
    /\ pending' = pending \ {promoter.circuit}
    /\ promoter' = Nothing
    /\ UNCHANGED <<actorVars, regq, handler, bakq, bakeryVars, sighted, promoq, mapped, planner, events>>
----------------------------------------------------------------------------
(* The bakery *)

(* Mutant of UpsertOutcomes: the parent is not looked up. *)
AnyParentWillDo(c) ==
    {IF batch \/ sites = {} THEN "deferred"
     ELSE IF c \notin live /\ Cardinality(live) >= MappedLimit THEN "error" ELSE "handle"}

(* handle_upsert_dynamic_circuit_overlay after it has stored the overlay: it may
   find no configuration, or Observe mode in it. *)
UpsertOutcomes(c) ==
    IF batch THEN {"deferred"}
    ELSE {"error" : f \in Faults \cap {"config"}} \cup
         {"deferred" : f \in Faults \cap {"observe"}} \cup
         {CASE sites = {} -> "deferred"
            [] c \in live -> "handle"
            [] ParentOf[c] \notin sites -> "error"
            [] Cardinality(live) >= MappedLimit -> "error"
            [] OTHER -> "handle"}

BakeryUpsert ==
    /\ bakq # <<>>
    /\ Head(bakq).op = "upsert"
    /\ bakq' = Tail(bakq)
    /\ LET b == Head(bakq) IN
          /\ overlays' = [overlays EXCEPT ![b.circuit] = b.version]
          /\ \E outcome \in UpsertOutcomes(b.circuit) :
               /\ live' = IF outcome = "handle" THEN live \cup {b.circuit} ELSE live
               /\ handler' = Answer(b.reply, IF outcome = "error" THEN "rejected" ELSE "idle")
               /\ promoter' = IF Promoter \notin b.reply THEN promoter
                              ELSE [promoter EXCEPT !.pc = IF outcome = "handle"
                                                           THEN "handle" ELSE "done"]
    /\ UNCHANGED <<actorVars, regq, batch, sites, planned, sighted, pending, promoq, mapped,
                   planner, events>>

(* Mutant of BakeryRemove: the class is always left to the next commit. *)
RemovesOverlayOnly ==
    /\ bakq # <<>>
    /\ Head(bakq).op = "remove"
    /\ bakq' = Tail(bakq)
    /\ overlays' = Without(overlays, {Head(bakq).circuit})
    /\ handler' = Answer(Head(bakq).reply, "unlaid")
    /\ UNCHANGED <<actorVars, regq, batch, sites, live, planned, promoVars, planner, events>>

(* handle_remove_dynamic_circuit_overlay: an open batch defers the removal of
   the class to its commit; without a configuration the class stays. *)
BakeryRemove ==
    /\ bakq # <<>>
    /\ Head(bakq).op = "remove"
    /\ bakq' = Tail(bakq)
    /\ LET b == Head(bakq) IN
          /\ overlays' = Without(overlays, {b.circuit})
          /\ \/ /\ live' = IF batch THEN live ELSE live \ {b.circuit}
                /\ handler' = Answer(b.reply, "unlaid")
             \/ /\ ~batch /\ "config" \in Faults
                /\ UNCHANGED live
                /\ handler' = Answer(b.reply, "idle")
    /\ UNCHANGED <<actorVars, regq, batch, sites, planned, promoVars, planner, events>>

(* LibreQoS.py sends StartBatch, then the sites and circuits of the batch,
   then CommitBatch; other threads' commands may come in between.  A chunk of
   them that fails to reach lqosd is reported and skipped. *)
Sent(command) ==
    \/ bakq' = Append(bakq, command)
    \/ "lost" \in Faults /\ UNCHANGED bakq

SendStartBatch(plan) ==
    /\ planner = {}
    /\ Count
    /\ planner' = {plan}
    /\ Sent([op |-> "start"])
    /\ UNCHANGED <<actorVars, regq, handler, bakeryVars, promoVars>>

SendCommitBatch ==
    /\ \E plan \in planner : Sent([op |-> "commit", plan |-> plan])
    /\ planner' = {}
    /\ UNCHANGED <<actorVars, regq, handler, bakeryVars, promoVars, events>>

BakeryStart ==
    /\ bakq # <<>>
    /\ Head(bakq).op = "start"
    /\ bakq' = Tail(bakq)
    /\ batch' = TRUE
    /\ UNCHANGED <<actorVars, regq, handler, overlays, sites, live, planned, promoVars, planner,
                   events>>

(* Mutant of WithOverlays: the batch is applied as it came. *)
WithoutOverlays(plan) == plan.circuits

(* What a commit makes of a batch: append_dynamic_circuit_overlays_to_batch adds
   the overlays whose parent is one of its sites ... *)
WithOverlays(plan) ==
    plan.circuits \cup {c \in In(overlays) : ParentOf[c] \in plan.sites}

(* ... and the mapped-circuit limit cuts it down, keeping circuits that already
   have a class first. *)
WithinLimit(C) ==
    IF Cardinality(C) <= MappedLimit THEN {C}
    ELSE {K \in SUBSET C : /\ Cardinality(K) = MappedLimit
                           /\ C \cap live \subseteq K \/ K \subseteq live}

(* handle_commit_batch.  It applies the batch, incrementally or by a full
   reload.  The reloads it falls back on when a speed change cannot be queued or
   a live migration cannot be set up are given the batch as it was before the
   limit.  A reload that fails keeps the tree of before and still closes the
   batch; without a configuration the batch stays open. *)
BakeryCommit ==
    /\ bakq # <<>>
    /\ Head(bakq).op = "commit"
    /\ bakq' = Tail(bakq)
    /\ \/ /\ batch
          /\ batch' = FALSE
          /\ sites' = Head(bakq).plan.sites
          /\ LET C == WithOverlays(Head(bakq).plan) IN
                \/ live' \in WithinLimit(C)
                \/ "fallback" \in Faults /\ sites # {} /\ live' = C
          /\ planned' = Head(bakq).plan.circuits
       \/ /\ batch /\ "reload" \in Faults
          /\ batch' = FALSE
          /\ UNCHANGED <<sites, live, planned>>
       \/ /\ ~batch \/ "config" \in Faults
          /\ UNCHANGED <<batch, sites, live, planned>>
    /\ UNCHANGED <<actorVars, regq, handler, overlays, promoVars, planner, events>>
----------------------------------------------------------------------------
(* lqosd stops at any point and starts again: the queues and the bakery's books
   are gone, both threads read the file, and the actor prunes what the catalog
   covers.  The kernel's address map is pinned and survives. *)
Restart ==
    /\ "restart" \in Faults
    /\ Count
    /\ LET superseded == In(disk) \cap statics IN
          /\ registry' = Without(disk, superseded)
          /\ idle' = disk_idle \ superseded
          /\ \/ superseded # {} /\ Persist(registry', idle')
             \/ (superseded = {} \/ "persist" \in Faults) /\ UNCHANGED <<disk, disk_idle>>
          /\ bakq' = Removals(superseded)
    /\ overlays' = disk
    /\ batch' = FALSE /\ sites' = {} /\ live' = {} /\ planned' = {} /\ planner' = {}
    /\ regq' = <<>> /\ handler' = [h \in Handlers |-> Nothing]
    /\ sighted' = {} /\ pending' = {} /\ promoq' = <<>> /\ promoter' = Nothing
    /\ UNCHANGED <<statics, mapped>>

Init ==
    /\ registry = [c \in Circuits |-> {}] /\ disk = registry /\ overlays = registry
    /\ idle = {} /\ disk_idle = {} /\ statics = {}
    /\ regq = <<>> /\ bakq = <<>>
    /\ handler = [h \in Handlers |-> Nothing]
    /\ batch = FALSE /\ sites = {} /\ live = {} /\ planned = {} /\ planner = {}
    /\ sighted = {} /\ pending = {} /\ promoq = <<>> /\ promoter = Nothing /\ mapped = {}
    /\ events = 0

HandlerStep(h) == SendOverlay(h) \/ Rollback(h) \/ SendUnregister(h)
ActorStep == RegistryUpsert \/ RegistryRemove
BakeryStep == BakeryUpsert \/ BakeryRemove \/ BakeryStart \/ BakeryCommit
PromoterStep == TakePromotion \/ MapAddresses \/ PromotionDone

Next ==
    \/ \E h \in Handlers :
         \/ HandlerStep(h) \/ RegistryTimeout(h) \/ BakeryTimeout(h)
         \/ \E c \in Circuits \ Promotable :
              RemoveDynamicCircuit(h, c) \/ \E v \in Versions : CreateDynamicCircuit(h, c, v)
    \/ ActorStep \/ PruneExpired
    \/ \E catalog \in Catalogs : ReloadShapedDevices(catalog)
    \/ \E c \in Circuits :
         \/ Age(c) \/ ObserveKnown(c) \/ Sight(c)
         \/ \E v \in Versions : ObserveUnknown(c, v)
    \/ PromoterStep \/ PromotionTimeout
    \/ BakeryStep
    \/ \E plan \in Plans : SendStartBatch(plan)
    \/ SendCommitBatch
    \/ Restart

Spec == Init /\ [][Next]_vars

(* The threads run: each takes the next command of its channel, a handler goes
   on once it is answered, the promoter works off its queue, a batch that was
   started is committed, the maintenance timer ticks, and the actor gets the
   observations sent to it.  Nothing is assumed of requests, reloads, time,
   traffic or failures. *)
FairSpec ==
    /\ Spec
    /\ WF_vars(ActorStep) /\ WF_vars(BakeryStep) /\ WF_vars(PromoterStep)
    /\ WF_vars(SendCommitBatch) /\ WF_vars(PruneExpired)
    /\ \A h \in Handlers : WF_vars(HandlerStep(h))
    /\ \A c \in Circuits : WF_vars(\E v \in Versions : ObserveUnknown(c, v))

(* ... and the traffic of every registered circuit goes on. *)
BusySpec == FairSpec /\ \A c \in Circuits : WF_vars(ObserveKnown(c))
----------------------------------------------------------------------------
(* Properties *)

HandlerStates == {"idle", "registering", "registered", "overlaying", "rejected",
                  "rolling_back", "unlaying", "unlaid", "unregistering"}
Commands == [op : {"upsert", "remove"}, circuit : Circuits, version : MaybeVersion,
             reply : SUBSET (Handlers \cup {Promoter})]
BatchCommands == [op : {"start"}] \cup [op : {"commit"}, plan : Plans]

(* The threads' state has the shape the code gives it; in particular only
   circuits that are registered, or in the file, carry a last_seen, and a reply
   only ever finds the request it is for, also after a timeout. *)
TypeOK ==
    /\ registry \in Stored /\ disk \in Stored /\ overlays \in Stored
    /\ idle \subseteq In(registry) /\ disk_idle \subseteq In(disk)
    /\ statics \subseteq Circuits
    /\ regq \in Seq(Commands) /\ bakq \in Seq(Commands \cup BatchCommands)
    /\ \A h \in Handlers : \/ handler[h] = Nothing
                          \/ handler[h] \in [pc : HandlerStates, circuit : Circuits,
                                            version : MaybeVersion]
    /\ batch \in BOOLEAN /\ sites \subseteq Sites /\ live \subseteq Circuits
    /\ planned \subseteq Circuits /\ planner \in {{}} \cup {{p} : p \in Plans}
    /\ sighted \subseteq Promotable /\ pending \subseteq Promotable /\ mapped \subseteq Promotable
    /\ promoq \in Seq(Promotable \X Versions)
    /\ promoter = Nothing \/ promoter \in [pc : {"waiting", "handle", "done"},
                                          circuit : Promotable, version : {{}}]
    /\ events \in 0 .. MaxEvents

(* Whatever is registered is in dynamic_circuits.json with the same contents,
   so a restart at any moment, also right after a failed write, brings back
   every registered circuit the catalog does not cover. *)
RegisteredIsDurable == \A c \in In(registry) : disk[c] = registry[c]

(* A circuit's class hangs off a site of the tree that is applied, although
   overlays come and go between, and inside, the batches that replace it. *)
ClassesHangOffSites == \A c \in live : ParentOf[c] \in sites

(* A class that neither the applied batch nor an overlay asks for is one whose
   removal came while a batch was open; the commit of that batch takes it down. *)
NoClassWithoutOwner == live \subseteq planned \cup In(overlays) \/ batch

(* A promoted circuit is queued at most once, and is marked pending exactly while
   it is queued or the promoter works on it. *)
PromotionsDeduplicated ==
    /\ pending = {promoq[i][1] : i \in DOMAIN promoq} \cup
                 {c \in Promotable : promoter.pc # "idle" /\ promoter.circuit = c}
    /\ \A i, j \in DOMAIN promoq : promoq[i][1] = promoq[j][1] => i = j
    /\ \A i \in DOMAIN promoq : promoter.pc # "idle" => promoter.circuit # promoq[i][1]

(* No thread has anything left to do. *)
Settled ==
    /\ regq = <<>> /\ bakq = <<>> /\ promoq = <<>> /\ sighted = {} /\ planner = {}
    /\ \A h \in Handlers : handler[h].pc = "idle"
    /\ promoter.pc = "idle"

(* Once every command is processed the registry and the bakery's overlays agree
   on which dynamic circuits there are and on their contents: what the rollback
   of create_dynamic_circuit, the order of the two steps of
   remove_dynamic_circuit and on_dynamic_circuits_expired are there for. *)
InSyncWhenSettled == Settled => registry = overlays

(* A circuit that was registered while a batch was open, or before the first
   one, gets its class: in the end every registered circuit under a site of the
   tree has one. *)
RegisteredGetsClass ==
    <>[](\A c \in In(registry) : ParentOf[c] \in sites => c \in live)

(* A promoted circuit that traffic keeps alive gets its address mapped, also if
   the bakery had no tree yet when it was promoted. *)
PromotedGetsMapped ==
    \A c \in Promotable : (c \in In(registry) /\ sites # {})
                              ~> (c \in mapped \/ c \notin In(registry))
==============================================================================
