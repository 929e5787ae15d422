---------------------------- MODULE LiveMigration ----------------------------
(***************************************************************************)
(* Commits, lazy queues and live circuit migrations of the bakery           *)
(* (lqos_bakery/src/lib.rs).                                                *)
(*                                                                          *)
(* The bakery is one thread.  It takes a command from its channel, or wakes *)
(* up every 250 ms, and after a commit, a tick or a wake-up it makes a pass *)
(* over the pending migrations that advances each by one stage.  A          *)
(* migration takes an active circuit to a new class without a gap: a shadow *)
(* class is built and verified, the addresses are moved onto it, the final  *)
(* class is built and verified, the addresses are moved on, the shadow is   *)
(* torn down.  Meanwhile LibreQoS.py, through other threads of lqosd, maps  *)
(* the addresses of the plan it committed.                                  *)
(*                                                                          *)
(* Abstractions.  Circuits have one address each, mapped in the kernel and  *)
(* in mapping_current at once.  A class is its minor number: one queue, one *)
(* direction.  Site speeds, StormGuard, runtime-virtualized sites, dynamic  *)
(* overlays and the mapped-circuit limit are left out, and a circuit's      *)
(* queueing discipline handles always rotate as they should.  There is      *)
(* always a free shadow minor: thousands are set aside for them.            *)
(***************************************************************************)
EXTENDS Integers, FiniteSets

CONSTANTS
    Circuits,
    Parents,            \* sites a circuit can hang off
    Minors,             \* class minors LibreQoS.py hands out
    ShadowMinors,       \* class minors find_free_circuit_shadow_minor can choose
    Plans,              \* what LibreQoS.py may commit: [tree, circuit]
    FirstPlan,          \* the one committed at start-up
    LazyModes,          \* values of lazy_queues: "No", "Htb", "Full"
    MaxRetries,         \* MIGRATION_VERIFICATION_MAX_RETRIES
    MigrationsPerPass,  \* MIGRATIONS_PER_TICK
    MaxEvents,          \* bound on commits, expiries, activity and mode switches
    Faults              \* "tc", "read", "remap", "classify", "config", "observe", "expire"

Handles == Minors \cup ShadowMinors

ASSUME ConstantsAssumption ==
    /\ Minors \cap ShadowMinors = {}
    /\ Handles \subseteq Nat \ {0}
    /\ FirstPlan \in Plans
    /\ LazyModes \subseteq {"No", "Htb", "Full"}
    /\ MaxRetries \in Nat /\ MigrationsPerPass \in Nat \ {0} /\ MaxEvents \in Nat
    /\ Faults \subseteq {"tc", "read", "remap", "classify", "config", "observe", "expire"}

VARIABLES
    lazy,        \* the lazy_queues setting
    observe,     \* queue_mode = observe in the configuration
    ready,       \* MQ_CREATED and FIRST_COMMIT_APPLIED
    tree_active, \* SHAPING_TREE_ACTIVE
    reload,      \* reload_required: "no", or what its reason is about
    sites,       \* the sites the bakery believes in the tree
    circuits,    \* the command of each circuit, a set of at most one
    live,        \* live_circuits
    migrations,  \* the pending migration of each circuit, a set of at most one
    pass,        \* migrations the current pass has yet to look at
    kernel,      \* the class at each handle, a set of at most one
    mapped,      \* the handle each circuit's address maps to, 0 for none
    current,     \* mapping_current: the handle the bakery believes it maps to
    plan,        \* the plan LibreQoS.py committed last
    run,         \* the LibreQoS.py run: "idle", "sent", "quiesced", "handled"
    tomap,       \* circuits whose addresses it has not yet mapped
    events       \* events so far

config == <<lazy, observe>>
tree == <<ready, tree_active, sites>>
addresses == <<mapped, current>>
python == <<plan, run, tomap>>
bakery == <<tree, reload, circuits, live, migrations, pass>>
vars == <<config, bakery, kernel, addresses, python, events>>

\* A rate is a number; commands with the same place differ in their speed.
Commands == [parent : Parents, minor : Minors, rate : Nat]
Stages == {"PrepareShadow", "VerifyShadowReady", "SwapToShadow", "BuildFinal",
           "VerifyFinalReady", "SwapToFinal", "TeardownMigrationScaffold", "Done"}
Migrations == [stage : Stages, desired : Commands, shadow : ShadowMinors, tries : Nat]
IsOption(o, S) == o = {} \/ \E x \in o : o = {x} /\ x \in S
The(option) == CHOOSE x \in option : TRUE

Event == events < MaxEvents /\ events' = events + 1
-----------------------------------------------------------------------------
(***************************************************************************)
(* The kernel's classes.  `class replace` creates a class or leaves it      *)
(* where it is, deletions of what is not there are tolerated, and a batch   *)
(* that fails may have carried out some of its commands.                    *)
(***************************************************************************)
NoClasses == [m \in Handles |-> {}]

Deleted(k, M) == [m \in Handles |-> IF m \in M THEN {} ELSE k[m]]

Unleafed(k, M) ==
    [m \in Handles |-> IF m \in M THEN {[c EXCEPT !.leaf = FALSE] : c \in k[m]} ELSE k[m]]

Replaced(k, cmds, leaf) ==
    [m \in Handles |->
        LET here == {x \in cmds : x.minor = m} IN
        IF here = {} THEN k[m]
        ELSE IF k[m] = {} THEN {[parent |-> x.parent, leaf |-> leaf] : x \in here}
        ELSE {[c EXCEPT !.leaf = @ \/ leaf] : c \in k[m]}]

Executed(k, deletions, cmds, leaf) ==
    LET d == Deleted(k, deletions) IN
    {[ok |-> TRUE, kernel |-> Replaced(d, cmds, leaf)]} \cup
    (IF "tc" \in Faults /\ (deletions # {} \/ cmds # {})
     THEN {[ok |-> FALSE, kernel |-> x] : x \in {k, d, Replaced(d, cmds, FALSE)}} ELSE {})

\* to_prune: HTB-lazy keeps the class of a circuit and drops its leaf qdisc.
Pruned(k, M) == IF lazy = "Htb" THEN Unleafed(k, M) ELSE Deleted(k, M)

\* add_circuit in Builder mode: HTB-lazy defers the leaf qdiscs.
BuilderLeaf == lazy # "Htb"
-----------------------------------------------------------------------------
(***************************************************************************)
(* A pass over the pending migrations                                       *)
(***************************************************************************)
Pending(migs) == {c \in Circuits : migs[c] # {}}
Unfinished(migs) == {c \in Pending(migs) : The(migs[c]).stage # "Done"}

\* The map's order is arbitrary; a pass stops after MigrationsPerPass advances.
Passes(migs) ==
    IF Cardinality(Unfinished(migs)) < MigrationsPerPass
    THEN {Pending(migs)}
    ELSE {S \in SUBSET Pending(migs) : Cardinality(S \cap Unfinished(migs)) = MigrationsPerPass}

\* Mutant: observe mode forgets every reload requirement.
ForgetsRequirement(migs, required) ==
    IF observe
    THEN migrations' = [c \in Circuits |-> {}] /\ reload' = "no" /\ pass' = {}
    ELSE migrations' = migs /\ reload' = required /\ pass' \in Passes(migs)

\* Observe mode cancels what is pending and the reload it may have asked for.
StartPass(migs, required) ==
    IF observe
    THEN /\ migrations' = [c \in Circuits |-> {}]
         /\ reload' = IF required = "migration" THEN "no" ELSE required
         /\ pass' = {}
    ELSE /\ migrations' = migs
         /\ reload' = required
         /\ pass' \in Passes(migs)

\* The circuit whose turn it is in the pass, at the given stage
At(c, stage) ==
    /\ c \in pass
    /\ The(migrations[c]).stage = stage
    /\ pass' = pass \ {c}
    /\ UNCHANGED <<config, tree, live, python, events>>

Mig(c) == The(migrations[c])
Enter(c, stage) ==
    migrations' = [migrations EXCEPT ![c] = {[Mig(c) EXCEPT !.stage = stage, !.tries = 0]}]

\* mark_reload_required, and give the migration up
GiveUp(c) == Enter(c, "Done") /\ reload' = "migration"

\* The class that stands for the migration, at its shadow or its final handle
Shadow(c) == [Mig(c).desired EXCEPT !.minor = Mig(c).shadow]
WrongParent(x) == {m \in {x.minor} : \E k \in kernel[m] : k.parent # x.parent}
Ready(x) == \E k \in kernel[x.minor] : k.parent = x.parent /\ k.leaf

CannotRead(c) ==
    /\ "read" \in Faults
    /\ GiveUp(c)
    /\ UNCHANGED <<kernel, addresses, circuits>>

Build(c, x, next) ==
    \/ \E r \in Executed(kernel, WrongParent(x), {x}, TRUE) :
         /\ kernel' = r.kernel
         /\ IF r.ok THEN Enter(c, next) /\ UNCHANGED reload ELSE GiveUp(c)
         /\ UNCHANGED <<addresses, circuits>>
    \/ CannotRead(c)

\* Mutant: a retry is not counted.
RetriesForever(c, x, next) ==
    /\ IF Ready(x) THEN Enter(c, next) ELSE UNCHANGED migrations
    /\ UNCHANGED <<reload, kernel, addresses, circuits>>

Verify(c, x, next) ==
    \/ /\ CASE Ready(x) -> Enter(c, next) /\ UNCHANGED reload
            [] ~Ready(x) /\ Mig(c).tries < MaxRetries ->
                 /\ migrations' = [migrations EXCEPT ![c] = {[Mig(c) EXCEPT !.tries = @ + 1]}]
                 /\ UNCHANGED reload
            [] OTHER -> GiveUp(c)
       /\ UNCHANGED <<kernel, addresses, circuits>>
    \/ CannotRead(c)

\* A remap that fails is rolled back to what mapping_current held, if the rollback succeeds.
Remap(c, x, next, published) ==
    \/ /\ mapped' = [mapped EXCEPT ![c] = x.minor]
       /\ current' = [current EXCEPT ![c] = x.minor]
       /\ circuits' = published
       /\ Enter(c, next)
       /\ UNCHANGED <<kernel, reload>>
    \/ /\ "remap" \in Faults
       /\ \/ mapped' \in {mapped, [mapped EXCEPT ![c] = current[c]]} /\ UNCHANGED current
          \/ /\ mapped' = [mapped EXCEPT ![c] = x.minor]
             /\ current' = [current EXCEPT ![c] = x.minor]
       /\ GiveUp(c)
       /\ UNCHANGED <<kernel, circuits>>

\* Mutant: a shadow class that is there already is taken as it is.
ReusesShadow(c) ==
    /\ At(c, "PrepareShadow")
    /\ IF kernel[Mig(c).shadow] # {}
       THEN Enter(c, "SwapToShadow") /\ UNCHANGED <<reload, kernel, addresses, circuits>>
       ELSE Build(c, Shadow(c), "VerifyShadowReady")

PrepareShadow(c) ==
    At(c, "PrepareShadow") /\ Build(c, Shadow(c), "VerifyShadowReady")
VerifyShadowReady(c) ==
    At(c, "VerifyShadowReady") /\ Verify(c, Shadow(c), "SwapToShadow")
\* Mutant: the swap onto the final class is skipped.
VerifiesPastSwap(c) ==
    At(c, "VerifyFinalReady") /\ Verify(c, Mig(c).desired, "TeardownMigrationScaffold")

SwapToShadow(c) ==
    At(c, "SwapToShadow") /\ Remap(c, Shadow(c), "BuildFinal", circuits)
BuildFinal(c) ==
    At(c, "BuildFinal") /\ Build(c, Mig(c).desired, "VerifyFinalReady")
VerifyFinalReady(c) ==
    At(c, "VerifyFinalReady") /\ Verify(c, Mig(c).desired, "SwapToFinal")
SwapToFinal(c) ==
    At(c, "SwapToFinal") /\ Remap(c, Mig(c).desired, "TeardownMigrationScaffold",
                                  [circuits EXCEPT ![c] = {Mig(c).desired}])

TeardownMigrationScaffold(c) ==
    /\ At(c, "TeardownMigrationScaffold")
    /\ \E r \in Executed(kernel, {Mig(c).shadow}, {}, FALSE) :
         /\ kernel' = r.kernel
         /\ IF r.ok THEN Enter(c, "Done") /\ UNCHANGED reload ELSE GiveUp(c)
    /\ UNCHANGED <<addresses, circuits>>

RemoveDone(c) ==
    /\ At(c, "Done")
    /\ migrations' = [migrations EXCEPT ![c] = {}]
    /\ UNCHANGED <<reload, kernel, addresses, circuits>>

Advance(c) ==
    \/ PrepareShadow(c) \/ VerifyShadowReady(c) \/ SwapToShadow(c) \/ BuildFinal(c)
    \/ VerifyFinalReady(c) \/ SwapToFinal(c) \/ TeardownMigrationScaffold(c) \/ RemoveDone(c)

\* recv_timeout: nothing but the pass
Background ==
    /\ pass = {}
    /\ Pending(migrations) # {}
    /\ StartPass(migrations, reload)
    /\ UNCHANGED <<config, tree, live, circuits, kernel, addresses, python, events>>
-----------------------------------------------------------------------------
(***************************************************************************)
(* Lazy queues                                                              *)
(***************************************************************************)
\* handle_circuit_activity: traffic of a circuit that has no live queue
Activity(c) ==
    /\ pass = {}
    /\ lazy # "No" /\ ~observe /\ ready
    /\ c \notin live /\ circuits[c] # {}
    /\ live' = live \cup {c}
    /\ kernel' \in {r.kernel : r \in Executed(kernel, {}, circuits[c], TRUE)}
    /\ UNCHANGED <<config, tree, reload, circuits, migrations, pass, addresses, python, events>>

\* handle_tick: circuits without traffic for lazy_expire_seconds, then a pass
Expire(S) ==
    /\ "expire" \in Faults
    /\ pass = {}
    /\ S # {} /\ \A c \in S : circuits[c] # {}
    /\ live' = live \ S
    /\ LET pruned == Pruned(kernel, {x.minor : x \in UNION {circuits[c] : c \in S}})
       IN  kernel' \in {pruned} \cup {k \in {kernel} : "tc" \in Faults}
    /\ StartPass(migrations, reload)
    /\ Event
    /\ UNCHANGED <<config, tree, circuits, addresses, python>>
-----------------------------------------------------------------------------
(***************************************************************************)
(* LibreQoS.py: one run commits a plan and then maps the plan's addresses   *)
(* through lqosd, whether or not the bakery has come to the commit.         *)
(***************************************************************************)
Planned(p) == {c \in Circuits : p.circuit[c] # {}}

Submit(p) ==
    /\ run = "idle"
    /\ plan' = p
    /\ IF observe
       THEN /\ run' = "quiesced"
            /\ tomap' = {}
            /\ mapped' = [c \in Circuits |-> 0]
            /\ current' = [c \in Circuits |-> 0]
       ELSE run' = "sent" /\ tomap' = Planned(p) /\ UNCHANGED addresses
    /\ Event
    /\ UNCHANGED <<config, bakery, kernel>>

\* MapIpToFlow: the bakery only stages what lqosd has mapped
MapAddress(c) ==
    /\ c \in tomap
    /\ tomap' = tomap \ {c}
    /\ mapped' = [mapped EXCEPT ![c] = The(plan.circuit[c]).minor]
    /\ UNCHANGED <<config, bakery, kernel, current, plan, run, events>>

\* ClearHotCache: stale addresses are deleted and the staged ones taken over
CommitMappings ==
    /\ run = "handled" /\ tomap = {}
    /\ pass = {}
    /\ run' = "idle"
    /\ mapped' = [c \in Circuits |->
                     IF c \notin Planned(plan) /\ current[c] # 0 THEN 0 ELSE mapped[c]]
    /\ current' = [c \in Circuits |->
                     IF c \in Planned(plan) THEN The(plan.circuit[c]).minor ELSE 0]
    /\ UNCHANGED <<config, bakery, kernel, plan, tomap, events>>
-----------------------------------------------------------------------------
(***************************************************************************)
(* The bakery's CommitBatch                                                 *)
(***************************************************************************)
Built(p) == Replaced(NoClasses, IF observe THEN {} ELSE UNION {p.circuit[c] : c \in Circuits},
                     BuilderLeaf)

\* full_reload leaves the pending migrations as they are.
FullReload(migs) ==
    \/ /\ sites' = plan.tree
       /\ circuits' = plan.circuit
       /\ live' = {}
       /\ kernel' = Built(plan)
       /\ ready' = TRUE
       /\ tree_active' = ~observe
       /\ \/ StartPass(migs, "no")
          \/ "classify" \in Faults /\ StartPass(migs, "other")
    \/ /\ "tc" \in Faults
       /\ kernel' \in {kernel, NoClasses, Built(plan)}
       /\ StartPass(migs, "other")
       /\ UNCHANGED <<tree, circuits, live>>

\* Mutant: a commit is compared with what is published only.
PublishedOnly(migs) == circuits

\* circuits_with_pending_migration_targets
Targets(migs) ==
    [c \in Circuits |-> IF migs[c] # {} THEN {The(migs[c]).desired} ELSE circuits[c]]

classify_circuit_change(x, y) ==
    CASE x.parent # y.parent \/ x.minor # y.minor                     -> "Migration"
      [] x.parent = y.parent /\ x.minor = y.minor /\ x.rate # y.rate  -> "Speed"
      [] OTHER                                                        -> "None"

Changed(migs, kind) ==
    {c \in Planned(plan) : \E x \in Targets(migs)[c], y \in plan.circuit[c] :
                               classify_circuit_change(x, y) = kind}

\* Mutants: a shadow is any minor no circuit has; shadow minors of pending migrations count as free.
ShadowsAnywhere(migs, Q) ==
    {f \in [Q -> Handles] : \A c \in Q, d \in Circuits : \A x \in circuits[d] : x.minor # f[c]}
ShadowsOfPendingFree(migs, Q) ==
    {f \in [Q -> ShadowMinors] :
        /\ \A c, d \in Q : f[c] = f[d] => c = d
        /\ \A c \in Q, m \in ShadowMinors : m < f[c] => \E d \in Q : f[d] = m}

\* queue_live_migration for each circuit of Q in some order, with the lowest shadow minor that no
\* unfinished migration has: one replaced earlier in the commit has its new one instead.
ShadowChoices(migs, Q) ==
    {f \in [Q -> ShadowMinors] :
        \E rank \in [Q -> 1..Cardinality(Q)] :
            /\ \A c, d \in Q : rank[c] = rank[d] => c = d
            /\ \A c \in Q :
                 LET earlier == {d \in Q : rank[d] < rank[c]}
                     used == {f[d] : d \in earlier} \cup
                             {The(migs[d]).shadow : d \in Unfinished(migs) \ earlier}
                 IN  f[c] \notin used /\ \A m \in ShadowMinors \ used : f[c] <= m}

Queued(migs, f) ==
    [c \in Circuits |->
        IF c \in DOMAIN f
        THEN {[stage |-> "PrepareShadow", desired |-> y, shadow |-> f[c], tries |-> 0] :
                y \in plan.circuit[c]}
        ELSE migs[c]]

\* Circuits that move under the bakery's feet, without a live queue: the old class goes unless
\* its handle is one of a circuit that moves.
MoveFallback(k, moved, idle) ==
    LET protected == {y.minor : y \in UNION {plan.circuit[c] : c \in moved}}
        old == {x.minor : x \in UNION {circuits[c] : c \in idle}}
    IN  IF lazy = "Full" \/ observe \/ idle = {} THEN {[ok |-> TRUE, kernel |-> k]}
        ELSE Executed(k, old \ protected, UNION {plan.circuit[c] : c \in idle}, BuilderLeaf)

SpeedFallback(k, idle) ==
    LET cmds == UNION {plan.circuit[c] : c \in idle}
    IN  IF lazy = "Full" \/ observe \/ idle = {} THEN {[ok |-> TRUE, kernel |-> k]}
        ELSE Executed(k, {y.minor : y \in {z \in cmds : lazy = "No"}}, cmds, BuilderLeaf)

Additions(k, added) ==
    Executed(k, {}, IF observe THEN {} ELSE UNION {plan.circuit[c] : c \in added}, BuilderLeaf)

Incremental(migs, required) ==
    LET old == Targets(migs)
        removed == {c \in Circuits \ Planned(plan) : circuits[c] # {}}
        added == {c \in Planned(plan) : old[c] = {}}
        speed == Changed(migs, "Speed")
        moved == {c \in Changed(migs, "Migration") : circuits[c] # {}}
        queued == {c \in speed \cup moved : c \in live /\ circuits[c] # {}}
        gone == {x.minor : x \in UNION {circuits[c] : c \in {d \in removed : lazy = "No" \/ d \in live}}}
    IN  \E f \in ShadowChoices(migs, queued) :
        \E k1 \in {Pruned(kernel, gone)} \cup {k \in {kernel} : "tc" \in Faults} :
        \E r2 \in SpeedFallback(k1, speed \ queued) :
        \E r3 \in MoveFallback(r2.kernel, moved, moved \ queued) :
        \E r4 \in Additions(r3.kernel, added) :
            /\ kernel' = r4.kernel
            /\ circuits' = [c \in Circuits |->
                  IF \/ c \in removed \cup added \cup (speed \ queued)
                     \/ c \in moved \ queued /\ r3.ok
                  THEN plan.circuit[c] ELSE circuits[c]]
            /\ live' = live \ removed
            /\ StartPass(Queued(migs, f), IF r3.ok THEN required ELSE "other")
            /\ UNCHANGED tree

\* Without a configuration the batch is not looked at; the pass has a second try at reading it.
NoConfiguration ==
    /\ "config" \in Faults
    /\ StartPass(migrations, reload) \/ UNCHANGED <<migrations, reload, pass>>
    /\ UNCHANGED <<tree, circuits, live, kernel>>

CommitBatch ==
    /\ run \in {"sent", "quiesced"}
    /\ pass = {}
    /\ run' = IF run = "sent" THEN "handled" ELSE "idle"
    /\ NoConfiguration \/
       LET cancel == tree_active /\ observe
           migs == IF cancel THEN [c \in Circuits |-> {}] ELSE migrations
           required == IF cancel /\ reload = "migration" THEN "no" ELSE reload
       IN  IF \/ required # "no"
              \/ ~ready
              \/ tree_active = observe
              \/ plan.tree # sites
           THEN FullReload(migs)
           ELSE Incremental(migs, required)
    /\ UNCHANGED <<config, addresses, plan, tomap, events>>

\* The operator edits queue_mode.
SetMode ==
    /\ "observe" \in Faults
    /\ observe' = ~observe
    /\ Event
    /\ UNCHANGED <<lazy, bakery, kernel, addresses, python>>
-----------------------------------------------------------------------------
Init ==
    /\ lazy \in LazyModes
    /\ observe = FALSE
    /\ ready = FALSE /\ tree_active = FALSE /\ sites = 0
    /\ reload = "no"
    /\ circuits = [c \in Circuits |-> {}]
    /\ live = {}
    /\ migrations = [c \in Circuits |-> {}]
    /\ pass = {}
    /\ kernel = NoClasses
    /\ mapped = [c \in Circuits |-> 0] /\ current = mapped
    /\ plan = FirstPlan /\ run = "sent" /\ tomap = Planned(plan)
    /\ events = 0

Next ==
    \/ \E p \in Plans : Submit(p)
    \/ CommitBatch
    \/ CommitMappings
    \/ Background
    \/ SetMode
    \/ \E c \in Circuits : Advance(c) \/ MapAddress(c) \/ Activity(c)
    \/ \E S \in SUBSET live : Expire(S)

Spec == Init /\ [][Next]_vars

\* The bakery thread keeps taking commands and waking up, and a LibreQoS.py run ends.
FairSpec ==
    /\ Spec
    /\ WF_vars(CommitBatch) /\ WF_vars(CommitMappings) /\ WF_vars(Background)
    /\ \A c \in Circuits : WF_vars(Advance(c)) /\ WF_vars(MapAddress(c))
-----------------------------------------------------------------------------
\* The state keeps its shape, and a pass only holds migrations that are still pending.
TypeOK ==
    /\ lazy \in LazyModes /\ observe \in BOOLEAN
    /\ ready \in BOOLEAN /\ tree_active \in BOOLEAN
    /\ reload \in {"no", "migration", "other"}
    /\ DOMAIN circuits = Circuits /\ \A c \in Circuits : IsOption(circuits[c], Commands)
    /\ live \subseteq Circuits
    /\ DOMAIN migrations = Circuits /\ \A c \in Circuits : IsOption(migrations[c], Migrations)
    /\ pass \subseteq Pending(migrations)
    /\ DOMAIN kernel = Handles
    /\ \A m \in Handles : IsOption(kernel[m], [parent : Parents, leaf : BOOLEAN])
    /\ mapped \in [Circuits -> Handles \cup {0}]
    /\ current \in [Circuits -> Handles \cup {0}]
    /\ plan \in Plans /\ run \in {"idle", "sent", "quiesced", "handled"}
    /\ tomap \subseteq Circuits
    /\ events \in 0..MaxEvents

(***************************************************************************)
(* Nothing is under way: LibreQoS.py's run is over, no migration is         *)
(* pending, no reload is asked for and the tree is the one of the mode.     *)
(***************************************************************************)
Settled ==
    /\ run = "idle" /\ pass = {} /\ Pending(migrations) = {}
    /\ reload = "no" /\ tree_active # observe

(***************************************************************************)
(* A plan takes hold.  Once everything has settled, whatever commits,       *)
(* passes and mappings were interleaved, the bakery's circuits are those of *)
(* the last commit, each address maps to its circuit's class, and that      *)
(* class has the queues its lazy mode promises (handle_commit_batch,        *)
(* process_pending_migrations, MapIpToFlow).                                *)
(***************************************************************************)
PlanInForce ==
    Settled =>
        \A c \in Circuits :
            /\ circuits[c] = plan.circuit[c]
            /\ \A x \in circuits[c] : ~observe =>
                 /\ mapped[c] = x.minor
                 /\ lazy # "Full" \/ c \in live => kernel[x.minor] # {}
                 /\ lazy = "No" \/ c \in live => \A k \in kernel[x.minor] : k.leaf

(***************************************************************************)
(* A migration publishes its circuit only when the final class is in place: *)
(* under the new parent and with its leaf qdisc (the comment on             *)
(* Migration::desired_cmd, and SwapToFinal).  An expiry between the two     *)
(* passes of VerifyFinalReady and SwapToFinal breaks this.                  *)
(***************************************************************************)
PublishedOnlyWhenReady ==
    [][\A c \in Circuits :
         /\ migrations[c] # {} /\ Mig(c).stage = "SwapToFinal"
         /\ circuits'[c] = {Mig(c).desired} /\ circuits'[c] # circuits[c]
         => Ready(Mig(c).desired)]_vars

\* Two migrations under way never share a shadow class, also when a commit replaces some of them
\* (find_free_circuit_shadow_minor).
ShadowsDisjoint ==
    \A c, d \in Unfinished(migrations) : Mig(c).shadow = Mig(d).shadow => c = d

\* While the tree is kept, addresses move onto a shadow class only when it is complete at that
\* moment, passes after it was verified and whatever other migrations built and tore down and
\* commits replaced since (VerifyShadowReady, SwapToShadow).
ShadowReadyAtSwap ==
    [][\A c \in Circuits :
         migrations[c] # {} /\ Mig(c).stage = "SwapToShadow" /\
         migrations'[c] # {} /\ The(migrations'[c]).stage = "BuildFinal"
         => Ready(Shadow(c))]_vars

\* As long as no stage fails, tearing a migration's shadow class down takes neither the class its
\* own circuit's address maps to nor that of a circuit that is not being moved itself
\* (TeardownMigrationScaffold against the remaps of every circuit and LibreQoS.py's mappings).  A
\* circuit whose migration was replaced and has yet to leave its former shadow is not spared.
TeardownSparesTraffic ==
    [][\A c \in Circuits : migrations[c] # {} /\ Mig(c).stage = "TeardownMigrationScaffold" /\
                            kernel'[Mig(c).shadow] # kernel[Mig(c).shadow]
         => \A d \in Circuits : mapped[d] = Mig(c).shadow =>
                                   d # c /\ d \in Unfinished(migrations)]_vars

\* A required reload stays required until a full reload has put the committed plan in force, but
\* for Observe mode, which drops it when the reason recorded last is a migration's, also if that
\* replaced the reason of a failed reload (mark_reload_required, clear_reload_required,
\* cancel_pending_migrations_for_observe_mode).
OnlyReloadClearsRequirement ==
    [][reload # "no" /\ reload' = "no" =>
         \/ circuits' = plan.circuit /\ sites' = plan.tree /\ kernel' = Built(plan)
         \/ observe /\ reload = "migration"]_vars

\* Every migration ends, whatever fails and whatever else happens to its classes meanwhile: it is
\* published, given up or cancelled (the retry limits of process_pending_migrations).
MigrationsEnd == \A c \in Circuits : migrations[c] # {} ~> migrations[c] = {}
=============================================================================
