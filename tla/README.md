# Specifications of the ensemble prover's protocols

TLA+ specifications of the parts of `src/ensemble_prover` in which several
processes, coroutines or operators share state: what they may do to each other,
what must hold throughout, and why. They are translated from the code; the
documents (`src/docs/local-inference.md`, the modules' own comments) are quoted
where a property takes its wording from them. Every definition that models code
is listed with its source lines in `PROJECT.json` under `map`.

## 1. Inventory

### What runs beside what

A *run* of the prover is one process with one asyncio event loop; several runs
share a host. Runs on one host share the inference servers through files: each
mutation takes a file lock, reads a JSON document, changes a copy, validates it
and replaces the file (`local_inference/strictload.py`, `durable_mutation`).
Inside a run, coroutines share Python objects; between two `await`s each runs
alone, and any of them can be cancelled at an `await`. In the parts modelled
here threads matter only through locks that are held for one short call. Operators run commands
(`readiness_cli.py`) against the same files while runs are under way.

| Component | State | Operations | Hard behaviour | What makes it correct |
|---|---|---|---|---|
| capacity coordinator `local_inference/capacity.py` | permits, queue, group configurations, next serial | register, transition, acquire, poll, mark_dispatched, complete, cancel, expiry, heartbeat loss, process stop, server reset, reconcile, revalidate, prune | most methods are two locked mutations with the lock dropped between; caps change under running work; clocks of callers differ | slots within caps, nobody starved or overtaken, deadlines respected, a slot under running work is kept until there is evidence, the file is never one the validator rejects |
| compute ledger `local_inference/budget.py` | ceilings, consumed, reserved, one reservation per dispatch id, profile | create, reserve, release, mark_dispatched, mark_unknown, observe and settle wall time, record_unresolved, grants, profile change | concurrent children of one allocation; late readings; overruns | nothing overcommitted or refunded, totals agree, final readings stand |
| request runtime `local_inference/runtime.py`, `seams.py` | where a request is; what it has read | admit, reserve, dispatch, exchange, settle, clean up after every failure | two stores that cannot be changed together; the process can die between any two calls; deadlines race answers | nothing is sent unpaid or without a slot; a request that ends leaves nothing behind but what a call left that was written and then raised |
| operator commands `local_inference/readiness.py`, `readiness_cli.py` | none of their own | reconcile, settle-wall, inspect | read-then-write against live requests and other operators | resolve what a request left in doubt, once |
| request gate `request_gate.py` and its use in `models.py` | readers, writer, waiting writers, the negotiation of reasoning | enter shared or exclusive, leave, cancel anywhere | lost wakeups, leaked counts under cancellation, starvation of the exclusive | counts match holders; exclusive means alone; no sleeper before an open gate |
| provider health `provider_health.py` and its use in `models.py` | one lane: count, epoch, floor, cooling, half-open token, retired | acquire, record success / refusal / abandonment, release; owner and observer of each HTTP request; closing of clients | answers from older generations; a request outlives its owner; a client closes over a live request | one probe at a time, its token always comes back, stale answers change nothing |
| durable files `local_inference/strictload.py` | the files | durable_mutation, atomic_write_json, strict parsing | crash in a write; a write that lands and then raises | a mutation happens whole or not at all; a caller it raises at does not know which |
| resource installation `local_inference/runtime.py` (`prepare_resources`) | identity, state, budget directory, ledger, marker; bindings kept in checkpoints | install, resume, require, extend | a crash between any two of five writes, installers that share a coordinator but no lock, retries with other bindings and ceilings, lost files | work stays under one coordinator and on its ledger; a marker ties together what is there |
| promotion outbox `mini_theory/promotion_outbox.py` | receipts, the authority of each lineage, claims, results, published bundles | enqueue, reuse, revoke, drain: recover, claim, compile, publish, settle, release | drains in parallel, compilation outside the lock, producers and drains that die, stale snapshots, a crash between a receipt and its authority, a write that lands and raises | dependencies published first; a live claim and a standing result are left alone; what a producer was told is durable is, unless it asked for something else since |
| theory leases `mini_theory/lease.py` | owner files and who has them locked | create, sweep, probe, close, finalizer | a name and its file are different things; files are created, swept and probed at once; death at any step | a living owner keeps its lock; only the dead are judged abandoned |
| theory needs `mini_theory/need_store.py` | needs and their claims, under the same leases | submit, claim, settle | as the outbox | as the outbox |
| formalization store `formalization/store.py`, `campaign.py` | tasks, dependencies and attempts in SQLite; what each worker has read | add, claim, heartbeat, checkpoint, complete, fail, revise, expand | a worker whose lease ran out finishes late; tasks change under work that rests on them; counts kept two ways | only the current lease writes; results and frozen statements belong to the contract in force; the right tasks are ready |
| mathematical memory `mathematical_memory/requests.py`, `budget.py` | request files | submit, take, answer | several processes on one directory | no request lost or answered twice |
| dollar budget `llm_usage.py` | reserved and settled dollars | reserve, settle, restore | concurrent callers; usage beyond the estimate | exposure within the limit |
| attempt and session checkpoints `mini_session/…` | serialized sessions | save, resume | crash while saving | the last whole checkpoint is resumed |
| process supervision `sweep_control.py`, `shutdown.py`, watchdogs | process groups, deadlines | start, signal, reap | operating-system timing | no orphan survives a run |
| Lean verification `lean_runner.py`, `persistent_verifier.py` | compiler processes | check | timeouts, restarts | a verdict belongs to its source |
| proof search `mini_session/`, `mini_recursive.py`, `proof_*` | the search state | turns, actions, scheduling | none of protocol kind: one coroutine, driven by model output | heuristic |
| research claims, deadline transactions, configuration, local protocol, user interfaces | documents | pure functions, appends, presentation | little | validation |

`PROJECT.json` lists the same components with their status and every hazard at
its line.

### How they interact

```
                    model client (models.py)
      request gate  ------>  attempt  ------> HTTP request <--- observer
                                |  acquire / success / 429         |
                                v                                  v
                          provider lane  <-------------------------+

   LocalInferenceRuntime.request
        |  acquire, mark_dispatched, complete, cancel …     (state.json lock)   
        |------------------------------>  capacity coordinator <----+
        |  reserve, mark_dispatched, settle …               (ledger.json lock)
        |------------------------------>  compute ledger  <---------+
        |  HTTP                                                     |
        |------------------------------>  inference server          |
                                                       operator: reconcile, settle-wall
```

The two halves do not call each other: the local runtime serves a provider that
runs on the host, the provider lane serves remote ones.

```
   producer (session)                       drain of any process
      |  enqueue, reuse, revoke                |  claim, publish, settle
      +------------>  promotion outbox  <------+-----> theory library
                          |  is its owner dead?
                          v
                     theory lease  <---- every process that opens the root

   campaign worker --- claim, heartbeat, checkpoint, complete, fail, expand --+
   operator        --- revise ------------------------------------------------+--> formalization store
```

## 2. The modules

| Module | Models | Role |
|---|---|---|
| `Coordinator` | capacity.py: durable state and mutations | component, shared by two compositions |
| `Capacity` | capacity.py: the methods as one or two mutations of several callers, with a clock | component specification and its properties |
| `MCCapacity` | – | instances (`CapacityQueue`, `CapacityOperator`) |
| `Ledger` | budget.py: durable state and mutations | component, shared by two compositions |
| `ComputeLedger` | budget.py: any client and operator | component specification and its properties |
| `MCComputeLedger` | – | instance |
| `DispatchContract` | the promise stated at the head of seams.py | abstract specification |
| `LocalRuntime` | runtime.py, seams.py, readiness.py over `Coordinator` and `Ledger` | composition; implements `DispatchContract` |
| `MCLocalRuntime` | – | instances (`RuntimeRequests`, `RuntimeOperator` and one that refutes documentation) |
| `RequestGate` | request_gate.py and `_gated_chat_entrypoint` of models.py | component specification and its properties |
| `ProviderLane` | provider_health.py (lanes), `_post_with_retry` and `close` of models.py | component specification and its properties |
| `MCProviderLane` | – | instance |
| `OwnerLiveness` | what a theory lease promises its users | abstract specification |
| `TheoryLease` | lease.py over a file system with names, files and locks | component; implements `OwnerLiveness` |
| `PromotionOutbox` | promotion_outbox.py over `OwnerLiveness` | component specification and its properties |
| `MCPromotionOutbox` | – | instance |
| `FormalizationStore` | formalization/store.py and the worker of campaign.py | component specification and its properties |
| `MCFormalizationStore` | – | instance |
| `ResourceInstall` | `prepare_resources` and `require_resources` of runtime.py, with the writes of capacity.py and budget.py they make | component specification and its properties |
| `MCResourceInstall` | – | instance |
| `Capacity_proofs`, `ComputeLedger_proofs`, `LocalRuntime_proofs`, `RequestGate_proofs`, `ProviderLane_proofs`, `Leases_proofs` (of `TheoryLease` and `FormalizationStore`), `PromotionOutbox_proofs`, `ResourceInstall_proofs` | – | theorems and their proofs |

### Coordinator and Capacity

`permit`, `queue`, `policy` and `nextSerial` are the document `state.json`. A
mutation is one step, because `_mutate` holds the directory's lock from the read
to the replacing write. Each operator `Acquire`, `MarkDispatched`, … is the body
of one such mutation with its trailing `_touch`/`_expire_group`/`_promote`
(`Settle`): expire what is due, prune terminal permits, promote in order of
arrival. `queue` is a set because the list is only appended to and filtered: its
order is that of the serials. A fingerprint of a configuration is the
configuration itself.

Most public methods call `expire_due(now)` and then, with the lock dropped and
the *same* `now`, make their change. `Capacity` gives each caller that
remembered second (`calling`): `BeginCall` is the first half, a `Finish…` action
the second, and any other caller's steps fall between. `Recent` lets a caller's
second be up to `Lag` seconds old.

### Ledger and ComputeLedger

`ceiling`, `consumed`, `reserved`, `claim` and `profile` are `ledger.json`. Every
method is one mutation and so one action. `ComputeLedger` lets anybody call
anything with any reading of any clock: the ledger has to hold its own whatever
its callers do.

### LocalRuntime

`pc` is the call a request makes next, `memory` what it has read and will act on
after another lock was taken. The steps follow `_admit`, `_reserve`, `_dispatch`,
`_exchange`, `_finish`, `_settle` and, on failure, the four handlers the code
chooses by how far the request got: `drop` (a permit only), `undo` (permit and
reservation), `void` (charged, not started), `abandon` (possibly sent). The
deadline can come at any `await`, and `Crash` ends a request anywhere. `Operate`
runs reconcile and settle-wall call by call beside the requests. `remote` is the
server's own work, which nobody sees.

Every call of a request on the coordinator or the ledger has three outcomes. It
returns; it raises and nothing is changed, because it was refused or not
written; or it makes its change and raises all the same, because
`atomic_write_json` replaces the file before it opens and syncs the directory
(`strictload.py:125-130`). `Raised` is the last two. The request acts on
`attempt.acquired`, `reserved` and `budget_marked`, which are set when a call
returns, so after the third outcome it takes the handler of a request that did
not get so far. `memory[d].torn` is a history variable: which of the calls
`acquire`, `reserve` and `mark_dispatched` of the ledger did that.

A call of the cleanup itself, or of an operator's command, that raises ends it
there, with or without the change. To the files that is a death of the process
before or after the step, and `Crash` and `OperatorCrash` stand for it.

`EndsClean` says what a request leaves that ended by itself: no waiting permit,
no reservation, no claim without an outcome and no slot that nobody accounts for.
It names the exceptions: an `acquire` that landed and raised leaves its permit to
the deadline (`_cleanup` does nothing before `acquired`), a `reserve` leaves its
reservation (`_release_before_send` gives back only the permit), a
`mark_dispatched` leaves a charge nobody settles and, until its deadline, an
admitted permit (`release_if_not_dispatched` answers `retained`). Nothing else
leaves any of these.

`DispatchContract` knows four things of a request: whose slot it holds, whether
it is promised, paid or returned, whether the server works on it, and whether an
operator wrote it off. `KeepsContract` maps the runtime to it: the slot from the
permit's state, the charge from the claim's, the work from `remote`, the
write-off from the outcome `capacity_released_unresolved`.

### RequestGate

Each coroutine makes one call after another. A call first waits while another
negotiates whether reasoning can be turned off, then enters the gate, shared or
exclusive, makes its request and leaves in a shielded release task. `asleep`,
`awake` and `cancelled` are the states of a waiter of `asyncio.Condition`: a
notified waiter re-reads its predicate, a cancelled one takes the lock again
before the exception is raised. The condition's lock is never held across an
`await`, so it is always free and code between two suspensions is one step.

### ProviderLane

One lane and the attempts on it. `lane` is `_LaneState`, with `cooling` for
`now < ready_at`; `permit` and `ownership` are the objects each attempt got;
`owner` is where `_post_with_retry` is with it, `transport` the HTTP request,
`observer` the task `_observe_transport_receipt`. Token numbers are never reused,
so an attempt's token is the attempt. `Leave` is the `finally` of an attempt: it
hands the permit over or settles it, on the lane the exception handler left.
An owner that is cancelled where it waits takes the same path (`CancelOwner`),
whether or not the answer is there. `Close` and `CloseUnresolved` are the two
outcomes of `close`; the handler for an error inside `close`, which
fences and cancels in the same order even where nothing is unresolved, is left out. A client sends nothing after it was closed: its callers
close it when their run is over.

`overtaken` is a history variable: which attempts were admitted before the epoch
last moved.

### OwnerLiveness and TheoryLease

`OwnerLiveness` has three steps: an owner starts, ends, and is judged abandoned
after it ended. `TheoryLease` is how lease.py achieves that with `flock`. `name`
is the file a pathname leads to, `lock` who holds each file, `own` the file an
owner keeps open. Opening a free name creates a new file, unlinking frees the
name only, closing a descriptor gives up its lock, and the death of a process
all of its locks. Each system call is a step: `Begin` to `Born` are the
constructor with its sweep, `Withdraw` and `Release` are close, its fallback
and the finalizer, `BeginProbe` to `ProbeRelease` are `owner_abandoned`.
Identifiers are random and become known to others after the constructor
returned, so a probe is about a `known` owner. An `Outsider` is
`_producer_abandoned` of promotion_outbox.py, which probes owners of another
root without their cleanup lock.

`life` maps the steps of an owner to unborn, live and gone, and
`JudgesOnlyTheDead` is the refinement. The moment of birth is the first lock, the
moment of death the withdrawal of the pathname, not the release of the lock: a
probe between the two judges an owner that will not use its lease again.

### PromotionOutbox

A receipt is identified by its owner and the contents it descends from; a
receipt without predecessor is the first of its lineage and needs no authority
file (`Baseline`). `Enqueue` writes the receipt, `WriteAuthority` the authority,
and the producer may die or the write fail in between. `_atomic_json` replaces
the file before it syncs the directory, so the last write of a command may also
land and raise (`Landed`): the receipt or authority is on disk, and the producer
is told `promotion_receipt_persistence_failed`. A drain goes through
`DrainSteps`: recover the claims of the dead, take a snapshot, and for each
receipt look at its owner and dependencies, claim it under the lock, compile it
without, look at the claim again under the lock, publish and write the result.
`LockFree` is the inbox's lock: whoever holds it between two writes keeps the
others out, but not those who read without it.

A snapshot holds what the code keeps: which receipts were unsettled, which
shared by the drain's owner, who provides each dependency, and which of those
stood. Whether a receipt's owner is dead is a `Judge` of `OwnerLiveness`, the
specification that `TheoryLease` implements: the modules are composed by that
contract and not by their steps.

Within the drain's `try` anything that raises gives the claim back (`Fail`,
`ReleaseClaim`), whether or not its write landed. What raises outside it, the
recovery, the claim and the release, raises out of the drain (`EndDrain`), and a
claim that landed then stays while its process lives. A result that does not
stand is set aside before the claim is written and stays set aside if it is not.

`promised` and `attempted` are history variables: what an owner was last told
about a lineage, and what it has asked for since in commands that failed.
`PromiseKept` says that what has authority on its word is one of these and
nothing else. A process whose owner has ended does nothing more.

### FormalizationStore

A method is one SQLite transaction and so one action; between them a worker
holds its claim and what it has read (`worker`). `Reaped`, `Refreshed` and
`InvalidatedBy` are the shared statements `_reap`, `_refresh_affected` and
`_descendants`, written as maps over tasks, so that an action can apply one
after the other as the transaction does. The recursive query is the least set
closed under dependents. `complete` alone does not count again but counts down.

A lease is what is left of it in ticks, so time has no end: `Tick` takes one from
each. Any worker may reap. A task's contract is its `text` (how often it was
revised) and the `generation` of each prerequisite: `Reading` is what a result or
a frozen statement is made from.

### ResourceInstall

Five files make an installation, and each write is a step: `Initialize` and
`InitializeState` are the two of the coordinator, `MakeBudget` and `CreateLedger`
the directory and the ledger, `Publish` the marker. `Survey` is what an installer
looks at under `.runtime_initialization`. That lock is one of each directory that
holds budgets (`runtime.py:110`; `ParentOf`, `initLock`): runs keep theirs in
`<coordinator>/budgets`, an operator's probe in `<coordinator>/probes`, and
installers of the two move between each other's writes. Only
`CapacityCoordinator.initialize` holds the coordinator's own lock over both of
its writes (`rootLock`); `open` looks at the two files outside it, sees one
without the other there, and refuses. `Resume` is `_resume`, which writes
nothing. A binding is what `_load_binding` admits: fresh, with a coordinator's id,
or with a marker; those that were handed out (`issued`) outlive the process that
got them. Every check that fails raises, and an exception, a death and a
normal return all leave the same files and free the same locks, so one action,
`End`, stands for all of them and may come at any step. So does a write that
lands and raises: the step, and then `End`.

`Extend` and `Transition` are an operator's: they make a ledger used and give a
group another policy. `revisions` counts the changes of each group, as the list of
its transitions does.

`Lose` takes any of the files at once while no process runs, once: the code tests
for each of them. A budget whose whole directory is gone cannot be told from one that
never was, and is another allocation. `charged` is a history variable: under which
coordinators work of an allocation was charged.

## 3. The runs

TLC explores each passing run completely; a run that expects a violation ends at the
first counterexample.

| Run | Instance | What it shows |
|---|---|---|
| `capacity_queue` | three requests, two endpoints of one group, one narrower than the group; one caller; the server may reset | The state always passes the validator (`ValidState`); no usable slot is free beside a waiter (`WorkConserving`); grants are made in order (`NoOvertaking`); only evidence frees a slot of dispatched work (`SlotKeptUntilEvidence`). |
| `capacity_operator` | two requests, two callers in the middle of calls, seconds up to one old; the cap moves between two and one; reconcile and prune | Lowering a cap stops dispatches over it (`DispatchWithinCap`); nothing is dispatched at or after its deadline as its caller sees the time (`NoLateDispatch`), nothing promoted past its queue deadline (`PromotedInTime`). |
| `compute_ledger` | two dispatch ids, batches of two, two clocks, an operator, two profiles | `ValidLedger` (totals and holdings are what the validator recomputes), `NoOvercommit`, `DebtIsOverrun`, `NoRefund`, `FinalStands`. |
| `runtime_requests` | two requests, one slot, every failure, written or not, and crash; fairness | The composition implements `DispatchContract` (`KeepsContract`), so nothing is sent unpaid or without a slot; every request that begins ends (`RequestEnds`). |
| `runtime_operator` | one request, one operator with both commands, two clocks | The contract with an operator in between any two calls; an ended request leaves nothing but what a call left that landed and raised (`EndsClean`); a released dispatch is never settled as completed by one operator (`ReleasedIsNotCompleted`). |
| `request_gate` | three coroutines, shared or exclusive, with or without reasoning, cancelled anywhere; fairness | `CountsAgree`, `Isolated`, `NoLostWakeup`, `OneProbe`, and an exclusive waiter enters or is cancelled (`ExclusiveEnters`). |
| `provider_lane` | two clients with an attempt each at a time; up to three changes of epoch; fairness | `LoneProbe`, `TokenIsHeld`, `LadderAgrees`, `FreshEvidence`, and a half-open lane does not stay half-open (`ProbeSettles`). |
| `theory_lease` | three owners, one observer from outside, three files | `LeaseKept`, and the refinement of `OwnerLiveness` (`JudgesOnlyTheDead`). |
| `promotion_outbox` | three processes of one theorem; a lemma, its revision and a theorem proved with the lemma; two commands, of whose writes those on one lineage may land and raise | `DependenciesFirst`, `PromiseKept`, `LiveClaimStands`, `ResultStands`, `SettledRightfully`. |
| `formalization_store` | three tasks in any graph, two workers, three attempts, one revision | `ReadinessAgrees`, `ResultIsCurrent`, `FrozenIsCurrent`, `OneOutcome`. |
| `resource_install` | two processes, two budgets of one coordinator in two directories, whose profiles agree on a group or not, two ceilings, two coordinators, one change of policy, files lost once | `WorkStands`, `MarkerStands`. |
| `released_completed` | one request, two operators | A finding, see below. |

### Bounds, and why they are enough

- *Requests.* Two compete, a third is needed to overtake or to be left behind in
  a queue (`capacity_queue`), and to have a call negotiate, one wait for it and
  one at the gate (`request_gate`). The mutations look at one permit and at
  counts, so more requests repeat the same comparisons.
- *Time.* `MaxTime` is two seconds with timeouts of one, so queue and request
  deadlines pass in a behaviour and a promoted permit can expire. `capacity_operator`
  has callers up to one second late and timeouts longer than that: there the second
  mutation of a call may follow a deadline that its first did not see.
- *Serials.* `MaxSerial` is the number of permits ever created. A forgotten
  dispatch id can be acquired again until then.
- *Tombstones.* `capacity_operator` prunes with a limit of one. In the runtime
  the limit is the number of requests: forgetting a permit while its cleanup runs
  would need 128 requests to end meanwhile.
- *Money.* The ledger's run has three dispatches, three tokens and three
  milliseconds, and asks for one or two dispatches with two milliseconds each:
  too little for all, so that division, refusal and overrun happen. Readings of
  zero, one and three are under, within and over what is granted.
- *Runtime.* `LastRequest` keeps requests from starting when the clock is about
  to stop, so that every deadline of a request comes within the run.
- *Lane.* `LastEpoch` is three: refusal, refused probe, successful probe and an
  answer from before. `MaxCount` is three where the code has 63, so that the
  counter saturates. An attempt can be followed by another on the same slot once
  its observer is gone, so permits of three generations meet.
- *Lease.* Three owners, so that one can sweep and one probe a third that is
  starting, closing or dead. `MaxFiles` is three: each owner's own file, or a
  file recreated by a probe or a sweep after it was unlinked.
- *Outbox.* `MaxCommands` is two: a receipt and its replacement, its reuse, its
  revocation, or the receipt that depends on it. Three processes are a producer,
  a drain that dies with a claim and one that recovers it. `Serials` limits only
  how many claims are remembered at once; an identity that nobody remembers may
  be drawn again. `MaxDoubts` is one: of the two lineages two
  commands can be about, one at a time has a write that landed and raised; a command
  that fails or dies between its two writes is not limited. All work on one theorem; what a drain may do for others does not depend
  on it.
- *Store.* Three tasks make every graph up to a chain, a fork and a join. Three
  attempts are a claim, a claim after its lease ran out, and the claim of a
  prerequisite. A lease of one tick runs out at every tick, renewed or not;
  the proofs cover any length. One revision meets any state of the rest.
- *Installation.* Two processes meet at the lock of a directory, or, in two
  directories, at the coordinator between any two writes; one can die at each write
  and the other find what it left, with the same or another ceiling. A group's policy
  changes once (`MaxRevisions`; 64 times in the code), which is what tells a group
  that was changed from one that was not. One loss takes any of
  the files, all of them included; a second coordinator is what an installer makes
  after it.
- *Symmetry* is used in runs without liveness, over ids that only name things.
- *Deadlock* is not checked where the system may stop: in the runtime and lane
  runs all requests may have ended, or the lane is retired and the clients
  closed; in the lease and outbox runs all processes may have died; in the store
  run all tasks may be verified or blocked.

### Fairness

- `RequestEnds` assumes that the clock runs and that a coroutine's next call is
  made (weak fairness of `Tick` and of each `Step(d)`). The waits in the runtime
  are bounded by `asyncio.wait_for` or are polls with a sleep, and the file locks
  are held for one mutation.
- `ExclusiveEnters` assumes that each coroutine that can go on does (`Step(c)`).
  A request in the gate ends by its own timeout; nothing is assumed of new calls.
- `ProbeSettles` assumes that the event loop runs an owner and an observer that
  are ready, and that every HTTP request ends. A request that never ends and
  whose client is not closed does keep the lane half-open: the code prefers that
  to a second probe. Nobody is assumed to cancel, detach or close.

### Findings

- `released_completed`: with two operators at once, a reconcile can release a
  permit between the read and the write of a settle-wall. The dispatch ends
  released as unresolved and settled as completed, which the documentation
  excludes (`readiness.py:292`). One operator at a time cannot get there
  (`runtime_operator` checks the same invariant and passes).

Two sentences of the documentation are wider than the code, without a run of their
own. `src/docs/local-inference.md` says that settle-wall "applies only to a response
whose completion is already recorded", while the command settles the claim of any
dispatch whose permit is not released and completes the permit itself
(`readiness.py:302-318`, `SettleWall` and `SettleComplete` in `LocalRuntime`).
`src/docs/formalization-campaign.md` (74-77) says that `expand` adds a prerequisite
"while preserving the parent's frozen claim", which holds of the task that is
expanded; if its new prerequisite is expanded in its turn, `_invalidate`
(`store.py:668-687`) empties the session of everything that rests on that, the
waiting parent's included, as its docstring says.

## 4. What is proved

The proofs hold for every value of the constants that satisfies the named
assumptions; TLC evaluates those on its instances.

- `CoordinatorAssumption`, `CapacityAssumption`: finitely many dispatch ids;
  configurations within the limits `_validate_group` enforces; a caller's second
  is older than the end of its call by less than any request timeout.
- `LedgerAssumption`, `ComputeLedgerAssumption`: positive amounts in a request,
  ceilings and grants in range.
- `RuntimeAssumption`: finitely many requests, each with a clock; policies within
  the limits of the coordinator and request sizes within those of the ledger; names
  that mean nothing are no names. Endpoints, groups and operators need not be
  finite.
- `Remembered` is a hypothesis of the runtime's theorems and not an assumption on
  its constants: there are no more requests than a group keeps terminal permits
  (`_TOMBSTONES`, 128, `capacity.py:22`). A permit that is forgotten loses that it
  was dispatched and that it was written off, and a cleanup that looks for it fails
  (the hazard at `capacity.py:750`); the refinement mapping and `EndsClean` read
  both. Every instance TLC checks satisfies it. `OneOperator`, a hypothesis of one
  theorem, says that there is at most one operator: with two the property is
  false, as `released_completed` shows.
- `GateAssumption`: finitely many calls. `LaneAssumption`: each attempt belongs
  to a client and the counter saturates at one or more; neither attempts nor
  clients need be finite.
- `LeaseAssumption`: finitely many owners, none of them an outsider.
  `InstallAssumption`: every budget is in a directory, and names that mean nothing
  are no names; neither callers, budgets, directories nor profiles need be finite. `OutboxAssumption`: contents have a helper and needs among contents; nothing
  says that needs are acyclic or owners finite. `StoreAssumption`: finitely many
  tasks, a lease of at least one tick.

**Capacity.** `CapacityTyped`, `CapacityValid`, `PromotionsInTime`,
`DispatchesInTime`, `SlotsKept`, `DispatchesWithinCap`, `NoSlotIdle`,
`GrantsInOrder`. The argument is about
snapshots of the file: a snapshot is *sound* if its records are well formed, its
queue is the set of its queued permits, and serials and endpoints are in place.
Each mutation first makes one change and then runs the shared tail; each of the
tail's three maps (expire, prune, promote) takes sound snapshots to sound ones
permit by permit. The bound `Lag < requestTimeout` is what `NoLateDispatch`
needs: a permit promoted between the halves of a call has a deadline that the
call's old second cannot have reached. That no usable slot is free beside a waiter
is inductive once endpoints are known to be registered: the permits that hold
slots when the walk of the waiting list ends include those it counted when it
stepped over an entry (`RoomShrinks`, `SettleRoom`), in a group the tail does not
settle none gives up a slot, and every mutation that frees a slot or raises a cap
runs the tail on that group (`Prepared`). It carries the order of grants too: a
newcomer that finds a slot free finds nobody waiting for that endpoint.

**Ledger.** `LedgerTyped`, `LedgerHolds`, `LedgerBounded`, `LedgerNoRefund`,
`LedgerFinalStands`, `LedgerValid`, `LedgerDebt`. `LedgerInv` joins type, the formula for what a request
holds, and the bound on what is given out, and adds that a final reading has a
clock: without it a settlement could pass for a first reading.

That the totals of the file are the sums over its reservations (`TotalsAgree`)
takes sums over a finite set, which the community modules fold one element at a
time. `CountUp` is induction in the form of a set: a set of numbers with zero that
is closed under the successor has all numbers. With it `UnfoldingExists` and
`SumUnfolds` show what the fold does with one more element, and the rest are
statements about two functions that differ in one place: taking one claim from one
group of states to another moves its share from one total to the other
(`TotalMoves`). `BalancedInv` joins the totals to `LedgerInv` and says which changes
of one claim each method makes (`Books`); `ClaimsCounted` has as a consequence that
no more requests hold a promise or a charge than dispatches were given out.

**Runtime.** `RuntimeInvariant`, `RuntimeTyped`, `RequestsEndClean`,
`OneOperatorNeverContradicts`, `RuntimeImplementsContract`. The two documents are
first reduced to what one mutation may do to one permit and to one claim. Of the
coordinator, every mutation is one change and the shared tail, and the tail leaves
each permit as it is, expires it or promotes it (`Tail`, `Drift`), and gives a group
no more slots than it has (`Apportioned`, `Shared`). Of the ledger, every call the
runtime makes is a call of `ComputeLedger` (`Accounts`), so its `BalancedInv` holds
here by the same lemmas: `LedgerValid` and what follows from it carry over. What
remains is a relation between a request's next call and its own state. `RuntimeInv`
joins

- `Typed`, `Filing` and `Balanced`: types, sound permits and serials, the ledger's
  invariant;
- `Phases`: for each request, what its next call, its memory, its permit, its claim
  and the server's work can be together (`Consistent`). Before the charge the permit
  is not dispatched; before the start nothing was sent; what a cleanup read under one
  lock still says enough when it takes the next;
- `Warrants`: for each command of an operator, what it may still count on of what it
  read, while the request and other operators go on.

Each step of a request only moves that request, and other permits only as the tail
does (`Moved`); each step of an operator moves one dispatch (`Ran`). `Onward` is what
neither undoes, and so what the warrants rest on. `EndsClean` follows from `Phases`:
what a request may leave is in the relation by `torn`, which each handler carries to
the end, and a handler that took the request for one that did not get so far is
shown to leave no more than that.
`ReleasedIsNotCompleted` needs one more invariant (`Sole`): a dispatch that was
written off is in doubt in the ledger or was never sent, and while the only operator
is between the read and the write of a settle-wall nobody can release. The request
itself may settle late, but not what was released (`Blameless`). The refinement maps
each step to an action of `DispatchContract` or a stutter: what the contract says of
charges is a change of one claim's state (`ChargeChanges`), what it says of slots a
change of permits that adds at most one slot where there is room (`CallReallocates`,
`RoomForOneMore`).

**Gate.** `GateTyped`, `GateCounts`, `GateIsolates`, `GateWakes`,
`OneProbeOnly`. The four invariants support each other: counters that agree with
the calls make the predicates mean what they should, and a predicate that is true
only for a call that may enter keeps the counters right. One fact is added, that
the owner of a negotiation is past waiting for one.

**Lane.** `LaneTyped`, `LoneProbeOnly`, `TokenHeld`, `LadderHolds`,
`EvidenceFresh`. `LaneInv` says of the lane that the count is the distance of its
epoch from its floor, and of each attempt where its three parts can be together,
that its epoch is not ahead of the lane's, and that a probe which may still be
answered *holds the token*. The last is the heart: from it two probes cannot be
under way, and an answer that finds its own epoch finds no other probe out.
`LoneProbe` alone is not inductive: a probe whose owner left must still own
the token through its observer, or the next admission breaks it. When a close
retires the lane the token is gone; what remains is that no probe sets out any
more (`NoneSetsOut`).

**Lease.** `LeaseTyped`, `LeaseIsKept`, `LeaseImplementsOwnerLiveness`.
`LeaseInv` follows a file from its creation. Until an owner has locked its file
nobody else can open it: a sweep holds the cleanup lock that the owner's creation
holds too (`Guarded`, `Nascent`, `SweptBorn`), and a probe knows the identifier
only after construction (`KnownBorn`). Afterwards whoever opens the name of a
living owner opens the file that owner has locked (`Sweeping`, `Probing`), so the
lock can be taken only when the life is over. The refinement follows step by
step: creation, lock, withdrawal and crash are steps of `OwnerLiveness`, a
verdict is a `Judge`, and everything else stutters.

**Outbox.** `OutboxTyped`, `DependenciesComeFirst`, `PromisesAreKept`,
`LiveClaimsStand`, `ResultsAreRightful`, `ResultsStand`. Three threads make
`OutboxInv`: the claim of a living owner is the one its drain works on and a
recovery carries only claims of the dead (`InHand`); what a drain saw
under the lock is still so when it writes (`Section`, `Current`), and why it may
work on the receipt still holds (`Entitled`, `Supported`); a lineage without an
authority file has at most one first receipt, which its owner was promised or asked
for since, and what a file says was promised or asked for since (`Written`,
`Promised`). `ResultsStand`
needs that a claim is made only where no result stands and that publication never
takes a bundle back. `Stands` is recursive over receipts that may need each
other; `StandsUnfolds` shows that its equation has a solution.

**Store.** `StoreTyped`, `CountsAreTrue`, `ReadinessIsTrue`,
`ResultsAreCurrent`, `FrozenAreCurrent`, `AttemptsEndOnce`. `StoreInv` has a graph part and a worker
part. The graph is *consistent* if the stored counts are the true ones and what is
ready, running or verified has only verified prerequisites; throwing away a set
closed under dependents keeps it consistent, and counting down by one agrees with
counting again because `complete` verifies a task that was not verified. That
nothing is blocked without cause rests on the closure that `_refresh_affected`
blocks being the *least* one: a blocked task without a failed or blocked
prerequisite could be taken out of it. A
worker that still holds its lease has read what stands now, because tokens are
never used twice and whatever changes what it read takes its lease away.

**Installation.** `InstallTyped`, `WorkAlwaysStands`, `MarkersStand`.
`InstallInv` says where each caller can be (`Placed`): an installer holds the lock
of its budget's directory, its budget has no marker and was never charged, and what
it wrote or found is there, whatever installers of other directories have added to
the coordinator since; a caller about to charge holds the marker that stands. `Recorded` carries
the past of a budget across lost files: what was charged was charged under the
marker's coordinator and shows in the ledger, so an unmarked budget whose ledger
is unused was never charged. That is what `Unused` tests, and why it is enough.

### Only model-checked

- Liveness (`RequestEnds`, `ExclusiveEnters`, `ProbeSettles`): fairness and
  ENABLED are beyond the prover.
- The runtime after a permit was forgotten, that is with more requests than
  `Tombstones`: no theorem covers it (see `Remembered`), and neither does a run of
  the runtime; the coordinator alone is checked and proved with any limit.

`RuntimeTypeOK` states the types of the runtime's variables and is in no run;
`RuntimeTyped` proves it.

## 5. What is not modelled

Within the modelled components: the history of 64 transitions per group (in
`ResourceInstall` its length), the upper bound on times, diagnostic notes and time stamps; checks that an owner or a
fingerprint is the one it was (it never changes); building and parsing HTTP
requests and answers; the text of errors. In models.py: payloads, parsing, retry
counts and delays. In provider_health.py: the pause of a transport after three
failures and the registry of subscription requests. In promotion_outbox.py:
receipts of the first schema, the retirement of helpers and the recapture of
their contexts, deferred audits, the caches that index receipts, damaged files
and the inbox of another environment. In store.py and campaign.py: events,
blobs and metadata, which no transition reads, the budgets of a campaign, and
what a step does between its calls of the store.

Some coordinator and ledger operations have no caller in the repository outside
tests (`transition`, `revalidate`, `report_process_stopped`,
`verified_server_reset`, `prune_terminal_tombstones`, `grant_extension`). They
are part of the component's interface and are actions of its specification, but
not of `LocalRuntime`; `transition` and `grant_extension` are also actions of
`ResourceInstall`, whose properties they bear on. `apply_checkpoint_decision` (seams.py) is one call of
`reconfigure_profile`, and present as that.

Left out altogether: what is pure I/O or presentation (user interfaces,
configuration, checkpoints), what is decided by other programs (Lean, process
groups), and the heuristic search.

Known gaps of the code: a process that dies between the charge and the dispatch
leaves a charged claim no command resolves; one that dies after reserving leaves a
reservation nobody releases. A charge or a reservation that is written and then
raises leaves the same without a death, and `EndsClean` says that nothing else does.
Both are on the safe side of the budget. So is an installer that dies between the coordinator's identity
and its state, or between a budget's directory and its ledger: every later
installer refuses what it finds (`ledger_lost`), and an operator has to remove it.

## 6. Plan

Order of the modules, by how much depends on them:

1. `Coordinator`, `Capacity` – done.
2. `Ledger`, `ComputeLedger` – done.
3. `DispatchContract`, `LocalRuntime` – done.
4. `RequestGate` – done. 5. `ProviderLane` – done.
6. `OwnerLiveness`, `TheoryLease` – done. 7. `PromotionOutbox` – done.
8. `FormalizationStore` – done.
9. `ResourceInstall` – done.
10. `NeedStore`: claims of theory needs over `OwnerLiveness`, as the outbox.
11. The exposure of the dollar budget (`llm_usage.py`): reservations of
    concurrent callers whose usage exceeds them.

Every safety and action property of the runs is proved, and both refinements. Proof
to come: the runtime's theorems with permits that are forgotten once their request
has ended, which needs a history of what was dispatched and written off.
