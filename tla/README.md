# LibreQoS: a TLA+ verification project

LibreQoS shapes the traffic of an ISP's subscribers. A subscriber's *circuit* has a
class and a queue in a Linux HTB tree, and every address of the circuit is mapped to
that class. Circuits come from files (`ShapedDevices.csv`, `network.json`), from RADIUS
accounting and from traffic nobody planned for. Several threads, processes and files
hold a part of this state, and they are brought into agreement by queues, timeouts,
retries and rollbacks. This project models those protocols in TLA+, checks them with TLC
and proves the core of the first one with TLAPS.

`PROJECT.json` lists every component, run, mutant, hazard, finding and theorem, and maps
each definition to the lines it models. Paths below are relative to the repository's
`src/` directory, except `docs/`, which is at the top.

## 1. The system

| Part | State | Operations | Talks to |
|---|---|---|---|
| RADIUS listener and session store (`lqos_radius`, `lqosd/radius_accounting.rs`) | sessions, their keys, rates and deadlines | Start, Interim-Update, Stop, Accounting-On/Off, expiry | emits circuit *intents* |
| Application pipeline (`radius_accounting.rs`) | bounded intent queue, side list of deferred removals, ownership books | emit, apply upsert, apply removal, promote a retained owner | internal bus |
| Bus (`lqos_bus`) | handler permits, internal FIFO | handle with a deadline, answer busy | everyone |
| Dynamic-circuit requests (`lqosd/dynamic_circuits.rs`) | one request per handler | create with rollback, remove | registry, bakery |
| Registry (`lqos_network_devices`) | dynamic circuits, their file, the catalog | upsert, remove, expire, reload, promote unknown addresses | hooks into lqosd |
| Bakery (`lqos_bakery`) | overlays, open batch, planned and live circuits, migrations | commit (full reload or incremental), migrate, activate and expire lazy queues | tc, address map |
| `LibreQoS.py`, `scheduler.py` | the plan, the applied hash | refresh, map addresses | bakery, lqosd |
| StormGuard, TreeGuard | adjustments against a tree generation, virtualized nodes | adjust, reset, virtualize | bakery, overrides |
| Netplan helper | pending change, backups | apply, confirm, revert, roll back at a deadline | netplan |
| Overrides | JSON files under a process lock | load, mutate, save | scheduler, TreeGuard |
| Data path, trackers, UI, integrations, tools | statistics, presentation, conversion | | |

What is hard about it, and therefore what the modules keep:

* the listener and the worker of the application pipeline share books behind a mutex that
  is released while the worker awaits the bus;
* the intent queue may be full, and a removal must not get lost then;
* several sessions may own one circuit, and the circuit must survive until the last ends;
* a bus request may be refused, fail, or be answered late or never, and every wait for
  lqosd may end before the bakery has carried the request out;
* a create is two steps in two threads, with a rollback for the second;
* a command whose caller gave up stays queued and is carried out later;
* registry and bakery survive a restart through one file, `dynamic_circuits.json`, which
  only the registry writes and both read;
* a live migration takes eight stages over many passes while commits, mode switches,
  traffic and expiries of lazy queues go on, and any `tc` command of it may fail.

Correctness, in short: circuits converge to what the sessions say; registry and bakery
agree; nothing that was registered is lost; a committed plan takes hold; traffic moves only
to classes that are ready for it; a failure that needs a rebuild is not forgotten.

## 2. Modules

### CircuitApplication (`lqosd/src/radius_accounting.rs`, `lqos_radius/src/session.rs`)

Two tokio tasks; every lock section and every await is a step.

| Module | Code |
|---|---|
| `active` | circuit ids each session of the store believes active |
| `outbox`, `emitting`, `next_sequence` | the intents of one event and `ApplyingDynamicCircuitSink::emit` |
| `queue` | the `mpsc` channel, capacity `QueueCapacity` (1024 in lqosd) |
| `app` | `DynamicCircuitApplicationState`: pending upserts, deferred removals, the side list, owners, authority, retained upserts |
| `worker` | where `run_dynamic_circuit_application_worker` is, and its intent |
| `installed`, `backlog` | the device lqosd has for each circuit, and the commands it has taken and not yet carried out |
| `stray` | history: circuits lqosd may have against the answer it gave |
| `SessionActive`, `SessionEnded` | what the session store emits for an event |
| `EmitTrack`, `EmitSend`, `EmitQueueFull` | the two lock sections of `emit` and `try_send` |
| `Receive` ... `TakePendingRemoval` | the worker and the drain of the side list |
| `CarryOut`, `ExpireCircuit` | the bakery works off its commands; the registry drops an idle circuit |

The operators on `app` keep the names of the Rust methods. The internal bus is what its
caller can see (`BusOutcomes`): `result` is what `apply_dynamic_circuit_request` returns,
`effect` what becomes of the request. "done" means carried out before the answer, "late"
that it follows later, "none" that it never does. A success means "done", except that lqosd
acknowledges without doing anything while dynamic circuits are disabled; a failure, a
timeout and a dropped reply leave "late" and "none" open. Bus, actor and bakery each take
their queue in order, so late requests are carried out in the order they were made, and a
success tells that nothing is outstanding. Two answers mislead the worker (`Misleads`): a
create that is said to have failed and goes on, and a removal that is said to be done and is
not. The circuits concerned are in `stray` until the next request for them that is carried
out before its answer.

A behaviour is one life of lqosd. A restart loses the books and the sessions but not
`dynamic_circuits.json`, so `Leftovers` are the circuits an earlier life left behind; they
start as strays.

### DynamicCircuits (`lqos_network_devices`, `lqosd/src/dynamic_circuits.rs`, `network_devices_hooks.rs`, `lqos_bakery`)

Bus handlers, the network-devices actor, the bakery thread and the promoter, connected by
two FIFO channels (`regq`, `bakq`). Handlers wait for replies and may give up
(`RegistryTimeout`, `BakeryTimeout`); the command stays queued (`Abandon` only cuts the
reply). They also give up when the actor's channel stays full (`ChannelFull`), and answer
at once while dynamic circuits are disabled or a field is empty (`AnsweredAtOnce`).
`registry`/`disk` are the published snapshot and `dynamic_circuits.json`; `overlays`,
`batch`, `sites`, `live` and `planned` belong to the bakery, which reads the file when it
starts and never writes it. `BakeryCommit` has the two reloads `handle_commit_batch` falls
back on with the batch as it was before the mapped-circuit limit. `Age` stands for the
passing of the TTL, `Restart` for a crash of lqosd at any point, and `Sent` for a chunk of
a batch that may fail to reach lqosd.

### LiveMigration (`lqos_bakery/src/lib.rs`, `commands.rs`, `utils.rs`, `diff/circuits.rs`, `LibreQoS.py`)

The bakery thread takes one command at a time; a *pass* advances each pending migration
by one stage (`Advance`, one action per `MigrationStage`). `CommitBatch` is all of
`handle_commit_batch`: it returns early without a configuration (`NoConfiguration`),
otherwise decides between `FullReload` and `Incremental`, and the latter does removals,
speed changes, moves and additions in the code's order. `kernel` holds the
classes as the `tc` commands leave them (external: `class replace` updates a class where
it is and does not move it). `Submit`, `CommitMappings` and `MapAddress` are the refresh
of `LibreQoS.py`, whose address mapping runs beside the bakery.

### CircuitApplicationProofs

The TLAPS proofs about CircuitApplication (section 5).

### MC modules

`MCCircuitApplication`, `MCDynamicCircuits` and `MCLiveMigration` define the plans, trees
and symmetry sets of the instances; the `.cfg` files give the constants.

## 3. Runs

| Run | Instance | What it shows |
|---|---|---|
| `app_shared` | 3 sessions, 1 circuit, room in the queue, reliable bus, 5 intents, fairness | lqosd always has the device of the authoritative session; once settled no circuit is orphaned or missing; circuits converge |
| `app_faulty` | 2 sessions, 2 circuits of which one is left over, queue of 1, all events, all bus outcomes, expiry, 4 intents | books well formed, no circuit without authority unless lqosd misled the worker, pending upserts really in flight, decisions still justified after the await, no stale removal |
| `app_full_queue` | 2 sessions, 1 circuit, queue of 1 | **violation** of `NoOrphanWhenSettled` |
| `app_rekeyed` | 2 sessions, 2 circuits, rekeys | **violation** of `NoMissingWhenSettled` |
| `dyn_serial` | 1 handler, 2 circuits, 2 versions, TTL, restarts, fairness | registry and overlays agree once settled, no class without owner, every registered circuit under a site gets its class |
| `dyn_faulty` | 2 handlers, promoter, catalog reloads, all ten faults, mapped limit 1 | what is registered is in the file, classes hang off sites of the tree, promotions happen once, late replies find nobody |
| `dyn_rejected` | a parent that is not in the tree | **violation** of `InSyncWhenSettled` |
| `dyn_promoted` | a promotion before the first commit, traffic going on | **violation** of `PromotedGetsMapped` |
| `mig_moves` | 2 circuits, 3 lazy modes, moves and speed changes, one migration per pass, 2 events | a plan takes hold, shadows are disjoint and complete when traffic moves onto them, teardown spares the traffic of its own circuit and of circuits at rest |
| `mig_faulty` | 1 circuit, all failures, Observe mode, expiry, fairness | migrations end, a required reload is only cleared by a reload, or by Observe mode when a migration asked for it last |
| `mig_reload` | 1 circuit, a full reload while a migration is pending | **violation** of `PlanInForce` |
| `mig_expired` | 1 circuit, a speed change, expiry | **violation** of `PublishedOnlyWhenReady` |

Every property of a passing run has a mutant in `PROJECT.json`: a plausible bug in the
modelled code that makes TLC find the property violated.

**Bounds.** `MaxIntents` and `MaxEvents` bound what the environment does, never how the
threads respond. Four intents are enough for two sessions to claim a circuit, swap
authority and leave, or for one to leave and come back; a queue of one is full as soon as
the worker is busy with something else. The backlog of lqosd is bounded only by the
requests these intents cause. Three sessions on one circuit (`app_shared`, five intents) are
the least where the worker has a choice whom to promote. Two circuits with a limit of one
reach the mapped-circuit limit. Two migration events let the second commit replace
migrations of the first at every stage; with `MigrationsPerPass` 1 and two circuits more
migrations are pending than a pass takes. (The same run with three events, 21 million
states, was also checked once and passes; it takes half an hour.) One retry is enough to
tell "retries" from "gives up". `app_faulty` uses symmetry over sessions, which the
specification never tells apart; it checks no liveness. Deadlock checking is off in all
runs: once the bounded environment has done all it may, the system is idle, which is not an
error.

**Fairness.** Weak fairness of the listener and worker tasks (tokio polls a task whose
channel or timer is ready) and of the bakery's work on what it was sent; of each thread's
step on its channel; of the actor's
maintenance tick; of the bakery's wake-up every 250 ms and of the end of a run of
`LibreQoS.py` that has begun. No fairness is assumed of requests, sessions, operators,
failures, time or traffic, with one exception: `dyn_promoted` uses `BusySpec`, in which
the traffic of a registered circuit goes on, because the comment it checks promises a
retry "on future observations".

## 4. Findings

1. **`app_full_queue`**, `radius_accounting.rs:1632`. A removal that met a full queue waits
   in the side list, which is drained before the rest of the queue. `release_owner` clears
   the deferred-removal mark, so an older Interim-Update still in the queue is applied
   afterwards and the circuit outlives its session.
2. **`app_rekeyed`**, `radius_accounting.rs:1690`. A rekeyed removal whose own session does
   not own the circuit acts for its only owner, which may be another live session.
3. **`dyn_rejected`**, `lqos_bakery/src/lib.rs:775`. An overlay is stored before the checks
   that may refuse it; the rollback of `create_dynamic_circuit` removes the registration
   only, so the refused overlay stays.
4. **`dyn_promoted`**, `network_devices_hooks.rs:92`. "We'll retry on future observations":
   later observations find the circuit registered and never map its address.
5. **`mig_reload`**, `lqos_bakery/src/lib.rs:11180`. A full reload leaves pending migrations,
   which later write back the circuit they were queued for.
6. **`mig_expired`**, `lqos_bakery/src/lib.rs:6283`. A tick expires the queue of a circuit whose
   final class was verified one pass ago. A speed change keeps its handle, so the expired
   class is the final one, and the pass of the same tick moves the address onto it and
   publishes the circuit. The comment at `lib.rs:132` says this happens "only after live TC
   and IP cutover reach the final class successfully".

## 5. Proofs

`CircuitApplicationProofs` proves for every number of sessions and circuits, every queue
capacity, every set of leftovers and every combination of events and bus outcomes:

* `TypeCorrect`: `Spec => []TypeOK`, including that the queue keeps its capacity;
* `BooksWellFormed`: `Spec => []OwnershipWellFormed`;
* `NoCircuitWithoutAuthority`: `Spec => []InstalledHasAuthority`, that is, lqosd neither has
  nor is about to get a circuit that no session has authority over, unless it said that the
  create had failed or that the removal was done;
* `RequestsStayJustified`: `Spec => []RequestStaysJustified`.

The only assumption is `ConstantsAssumption` of CircuitApplication. The inductive invariant
is the conjunction

    Inv == TypeOK /\ OwnershipWellFormed /\ InstalledHasAuthority /\ RequestStaysJustified

Each part needs the others. `InstalledHasAuthority` covers the backlog as well as what is
installed, because a command carried out later changes what is installed without the worker
looking. It is not inductive alone: when a create is answered, or given up as unanswered,
the step also records the owner, and this owner becomes authoritative only if nobody else
is, which is what `RequestStaysJustified` says of the moment before the reply. When a delete
is acknowledged, the authority is given up, and no circuit may be left behind: a truthful
success means that the backlog is empty and the circuit gone, and the other kind makes the
circuit a stray. A delete without an answer gives nothing up (`NotRecorded`,
`AuthorityKept`). `RequestStaysJustified` in turn needs that the listener, which runs during
the await, touches only the pending and deferred parts of the books (`PendingSameBooks`,
`PendingRemovalSameBooks`, `SameOwner`), and `OwnershipWellFormed` is what lets the worker
conclude that a promoted session is an owner. The lemmas come in four layers: what each
method of `DynamicCircuitApplicationState` does to the type and to the well-formedness of
the books; what an answer does to lqosd (`AnsweredType`, `AnsweredWanted`, `BusFacts`);
facts about jobs, outcomes and owners; and one lemma per group of actions, `LqosdStep` for
lqosd's own. All four conjuncts are also invariants of `app_faulty`.

**Only model-checked.** `InstalledIsAuthoritative`, `PendingIsInFlight`, `NoStaleUninstall`
and the settled-state properties; everything about DynamicCircuits and LiveMigration; all
liveness (fairness is out of the prover's reach).

## 6. What is left out

* *CircuitApplication*: the session store beyond its intents; counters and diagnostics.
  Convergence is checked for starts and ends of sessions and a bus that answers truthfully.
  With rekeys and a full queue it fails (section 4). Circuits in `stray` are excepted from
  `InstalledHasAuthority` and `NoStaleUninstall`: after a misleading answer such a circuit
  stays until some session asks for it again or it expires. With a session promoted to
  another key the old key's ownership stays until a rekeyed removal, and a removal put aside
  just after the worker emptied the queue waits for the next intent of any session; both are
  in the hazard list.
* *DynamicCircuits*: minors, qdisc handles, lazy queues and migrations of overlays.
  Agreement of registry and bakery is checked with one handler and no fault but restarts:
  with two, the two threads can see a create and a remove of one circuit in opposite orders.
  The mapped-circuit limit is no invariant, because the fallback reloads exceed it.
* *LiveMigration*: one address, one queue and one direction per circuit; no site speeds,
  overlays, StormGuard or virtualized nodes. `PlanInForce` is checked for plans that keep
  every circuit and the tree, without expiry and mode switches. A circuit that is removed
  while its migration is pending is put back when the migration ends. A migration that an
  expiry makes fail is given up, and when the reload it asks for happens at a commit whose
  addresses were mapped before, the address stays on the removed shadow until the next
  refresh. A circuit whose migration a commit replaced can have its address on its former
  shadow when another migration has chosen that minor again and tears it down;
  `TeardownSparesTraffic` excepts it.
* Packet parsing, eBPF, statistics, the web interface, integrations and tools: no shared
  state with a protocol, or pure I/O. The reasons are in the component list.

## 7. Plan

Next modules, in this order:

1. **AccountingSessions**: keys and their promotion, pending and stale sessions, expiry
   deadlines and the listener's timer; its intents are the input of CircuitApplication, so
   that `SessionActive`/`SessionEnded` become an abstraction it implements.
2. **NodeVirtualization**: `TreeGuardSetNodeVirtual`, its operations, retries and deferred
   cleanup, sharing `migrations` with LiveMigration.
3. **StormGuard**: tree generations, adjustment batches, reset and discard against commits.
4. **NetplanTransaction**: apply, confirm, revert, the rollback worker, a crash in between.
5. **BusServer**: permits, deadlines, fail-fast and side-effecting requests.
6. **OverrideWriter** and **Scheduler**: lock per load and save, bounded retries; readiness,
   deferred refreshes and the applied hash.

Compositions and abstractions: an abstract `CircuitService` (a circuit is there or not,
each request takes effect at most once between call and answer) that DynamicCircuits
implements with one handler, and that replaces `BusOutcomes` in CircuitApplication; an
abstract `PlanStore` (a commit replaces the plan, eventually in force) for LiveMigration.

Theorems worth proving next: `PendingIsInFlight` and `NoStaleUninstall`
(CircuitApplication); `RegisteredIsDurable`, `ClassesHangOffSites` and
`PromotionsDeduplicated` (DynamicCircuits); `ShadowsDisjoint` and
`OnlyReloadClearsRequirement` (LiveMigration); mutual exclusion of confirm and rollback if
NetplanTransaction turns out to have it; the refinement of `CircuitService`.
