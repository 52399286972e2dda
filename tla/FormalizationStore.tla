-------------------------- MODULE FormalizationStore --------------------------
(***************************************************************************)
(* The ledger of a formalization campaign (formalization/store.py) and the *)
(* worker processes that share it (formalization/campaign.py).  Tasks form *)
(* a graph of prerequisites; a worker leases a ready task, reads it and    *)
(* the results it rests on, works on it outside the database, and writes   *)
(* under its lease.  Leases run out, workers die, and an operator revises  *)
(* tasks while their dependents are being worked on.                       *)
(*                                                                         *)
(* Every method of the store is one SQLite transaction, so one step here.  *)
(* Time is what is left of a lease: Tick lets one unit of it pass for      *)
(* every running task, and a lease with nothing left has run out.          *)
(***************************************************************************)
EXTENDS Integers, Sequences, FiniteSets

CONSTANTS
    Tasks,
    Workers,
    None,
    Lease,         \* what a claim or a heartbeat grants, in ticks
    MaxClaims,     \* bound: attempts ever started
    MaxRevisions   \* bound: revisions of any task

(* What a worker has seen of a task: its text and, of each prerequisite,   *)
(* the generation whose result it imported.                                *)
Readings == [text : Nat, basis : [Tasks -> Nat \union {None}]]

ASSUME StoreAssumption ==
    /\ IsFiniteSet(Tasks)
    /\ Lease \in Nat \ {0} /\ MaxClaims \in Nat /\ MaxRevisions \in Nat
    /\ None \notin Tasks \union Nat \union Readings

VARIABLES
    state,         \* of each task; "absent": not yet added
    deps,          \* its direct prerequisites
    remaining,     \* the stored count of the unverified ones (remaining_deps)
    generation,
    text,          \* history: how often its own contract was revised
    token,         \* the attempt that holds its lease
    left,          \* what is left of that lease
    attempts,      \* every attempt ever started; the token is the position
    result,        \* the reading a verified task's result was made from
    session,       \* the reading its frozen statement was made from
    revisions,
    worker         \* what each worker process is doing

graphVars == <<state, deps, remaining>>
leaseVars == <<token, left, attempts>>
contractVars == <<generation, text, revisions>>
storeVars == <<graphVars, leaseVars, contractVars, result, session, worker>>

States == {"absent", "ready", "pending", "running", "verified", "failed", "blocked"}
Waiting == {"ready", "pending", "blocked"}
Outcomes == {"open", "verified", "failed", "retry", "expired", "superseded"}
Tokens == 1..MaxClaims

Idle == [task |-> None, token |-> None, generation |-> None, read |-> None]

StoreTypeOK ==
    /\ state \in [Tasks -> States]
    /\ deps \in [Tasks -> SUBSET Tasks]
    /\ remaining \in [Tasks -> Nat]
    /\ generation \in [Tasks -> Nat]
    /\ text \in [Tasks -> Nat]
    /\ token \in [Tasks -> Tokens \union {None}]
    /\ left \in [Tasks -> 0..Lease]
    /\ attempts \in Seq([task : Tasks, outcome : Outcomes])
    /\ result \in [Tasks -> Readings \union {None}]
    /\ session \in [Tasks -> Readings \union {None}]
    /\ revisions \in 0..MaxRevisions
    /\ worker \in [Workers -> {Idle} \union
         [task : Tasks, token : Tokens, generation : Nat, read : Readings \union {None}]]

StoreInit ==
    /\ state = [t \in Tasks |-> "absent"]
    /\ deps = [t \in Tasks |-> {}]
    /\ remaining = [t \in Tasks |-> 0]
    /\ generation = [t \in Tasks |-> 0]
    /\ text = [t \in Tasks |-> 0]
    /\ token = [t \in Tasks |-> None]
    /\ left = [t \in Tasks |-> 0]
    /\ attempts = <<>>
    /\ result = [t \in Tasks |-> None]
    /\ session = [t \in Tasks |-> None]
    /\ revisions = 0
    /\ worker = [w \in Workers |-> Idle]

Known == {t \in Tasks : state[t] # "absent"}

(***************************************************************************)
(* The graph.                                                              *)
(***************************************************************************)
Dependents(seed, within, dep) ==
    LET closed == {S \in {seed \union more : more \in SUBSET (within \ seed)} :
                     \A e \in within \ S : dep[e] \intersect S = {}}
    IN  {d \in seed \union within : \A S \in closed : d \in S}

Descendants(t, dep) == Dependents({t}, Tasks, dep)

NoCycleAt(t, dep) == dep[t] \intersect Descendants(t, dep) = {}

(* _refresh_affected: count again, wake or put to sleep what waits, then   *)
(* block what waits on a failed or blocked task.                           *)
Unverified(t, st, dep) == {p \in dep[t] : st[p] # "verified"}

Recounted(affected, st, rem, dep) ==
    [t \in Tasks |-> IF t \in affected THEN Cardinality(Unverified(t, st, dep))
                     ELSE rem[t]]

Woken(affected, st, rem) ==
    [t \in Tasks |-> IF t \notin affected \/ st[t] \notin Waiting THEN st[t]
                     ELSE IF rem[t] = 0 THEN "ready" ELSE "pending"]

Stuck(affected, st, dep) ==
    Dependents({d \in affected : \E p \in dep[d] : st[p] \in {"failed", "blocked"}},
               affected, dep)

Blocked(affected, st, dep) ==
    LET stuck == Stuck(affected, st, dep)
    IN  [t \in Tasks |-> IF t \in stuck /\ st[t] \in {"pending", "ready"}
                         THEN "blocked" ELSE st[t]]

Refreshed(affected, st, rem, dep) ==
    LET counts == Recounted(affected, st, rem, dep)
    IN  [count |-> counts, state |-> Blocked(affected, Woken(affected, st, counts), dep)]

Refresh(affected, st, dep) ==
    LET new == Refreshed(affected, st, remaining, dep)
    IN  /\ remaining' = new.count
        /\ state' = new.state
        /\ deps' = dep

(* The open attempts that hold the leases of a set of tasks end.           *)
Ended(set, outcome) ==
    [a \in DOMAIN attempts |->
        IF attempts[a].outcome = "open" /\ \E t \in set : token[t] = a
        THEN [attempts[a] EXCEPT !.outcome = outcome] ELSE attempts[a]]

Without(set, f, none) == [t \in Tasks |-> IF t \in set THEN none ELSE f[t]]

(***************************************************************************)
(* add_tasks: a batch that may refer forward within itself.  The campaign  *)
(* calls it once, to start the plan; later tasks come from expand.         *)
(***************************************************************************)
Plans(batch) == [batch -> SUBSET (Known \union batch)]

Merged(plan) ==
    [t \in Tasks |-> IF t \in DOMAIN plan THEN plan[t] ELSE deps[t]]

Added(plan) ==
    Refreshed(DOMAIN plan, Without(DOMAIN plan, state, "pending"), remaining, Merged(plan))

AddTasks ==
    /\ Known = {}
    /\ \E batch \in (SUBSET (Tasks \ Known)) \ {{}} : \E plan \in Plans(batch) :
        LET added == Added(plan)
        IN  /\ \A t \in batch : NoCycleAt(t, Merged(plan))
            /\ state' = added.state
            /\ remaining' = added.count
            /\ deps' = Merged(plan)
    /\ UNCHANGED <<leaseVars, contractVars, result, session, worker>>

(***************************************************************************)
(* claim: take back the leases that ran out, then lease one ready task.    *)
(* Priorities and filters may pick any ready task, or none.                *)
(***************************************************************************)
Expired == {t \in Tasks : state[t] = "running" /\ left[t] = 0}

Reaped ==
    Refreshed(Expired, Without(Expired, state, "pending"), remaining, deps)

ClaimNothing(w) ==
    /\ worker[w] = Idle
    /\ Expired # {}
    /\ state' = Reaped.state
    /\ remaining' = Reaped.count
    /\ attempts' = Ended(Expired, "expired")
    /\ token' = Without(Expired, token, None)
    /\ UNCHANGED <<deps, left, contractVars, result, session, worker>>

ClaimTask(w, t) ==
    LET new == Len(attempts) + 1
    IN  /\ worker[w] = Idle
        /\ Reaped.state[t] = "ready"
        /\ new \in Tokens
        /\ state' = [Reaped.state EXCEPT ![t] = "running"]
        /\ remaining' = Reaped.count
        /\ attempts' = Append(Ended(Expired, "expired"),
             [task |-> t, outcome |-> "open"])
        /\ token' = [Without(Expired, token, None) EXCEPT ![t] = new]
        /\ left' = [left EXCEPT ![t] = Lease]
        /\ worker' = [worker EXCEPT ![w] =
             [task |-> t, token |-> new, generation |-> generation[t], read |-> None]]
        /\ UNCHANGED <<deps, contractVars, result, session>>

Claim(w) == ClaimNothing(w) \/ \E t \in Tasks : ClaimTask(w, t)

(***************************************************************************)
(* The work.  Reading takes no lease; every write asserts it.              *)
(***************************************************************************)
\* Mutant: the lease is checked against the clock but not the token.
LeasedToSomeone(w) ==
    LET t == worker[w].task
    IN  worker[w] # Idle /\ state[t] = "running" /\ left[t] > 0

Leased(w) ==
    LET t == worker[w].task
    IN  /\ worker[w] # Idle
        /\ generation[t] = worker[w].generation
        /\ token[t] = worker[w].token
        /\ state[t] = "running"
        /\ left[t] > 0

Reading(t) ==
    [text |-> text[t],
     basis |-> [p \in Tasks |-> IF p \in deps[t] THEN generation[p] ELSE None]]

Read(w) ==
    LET t == worker[w].task
    IN  /\ worker[w] # Idle /\ worker[w].read = None
        /\ Unverified(t, state, deps) = {}
        /\ worker' = [worker EXCEPT ![w].read = Reading(t)]
        /\ UNCHANGED <<graphVars, leaseVars, contractVars, result, session>>

Heartbeat(w) ==
    /\ Leased(w)
    /\ left' = [left EXCEPT ![worker[w].task] = Lease]
    /\ UNCHANGED <<graphVars, token, attempts, contractVars, result, session, worker>>

(* checkpoint: the frozen statement, made from what the worker read.       *)
Checkpoint(w) ==
    /\ Leased(w)
    /\ worker[w].read # None
    /\ session[worker[w].task] = None
    /\ session' = [session EXCEPT ![worker[w].task] = worker[w].read]
    /\ UNCHANGED <<graphVars, leaseVars, contractVars, result, worker>>

Finish(w, outcome) ==
    /\ token' = [token EXCEPT ![worker[w].task] = None]
    /\ left' = [left EXCEPT ![worker[w].task] = 0]
    /\ attempts' = [attempts EXCEPT ![worker[w].token].outcome = outcome]
    /\ worker' = [worker EXCEPT ![w] = Idle]

\* Mutant: a completed task wakes its dependents without counting.
WakeAll(t, st) ==
    [d \in Tasks |-> IF t \in deps[d] /\ st[d] \in {"pending", "blocked"}
                     THEN "ready" ELSE st[d]]

(* complete counts the direct dependents down instead of counting again.   *)
Unlocked(t, st) ==
    [d \in Tasks |->
        IF t \in deps[d] /\ remaining[d] = 1 /\ st[d] \in {"pending", "blocked"}
        THEN "ready" ELSE st[d]]

Complete(w) ==
    LET t == worker[w].task
    IN  /\ Leased(w)
        /\ worker[w].read # None
        /\ state' = Unlocked(t, [state EXCEPT ![t] = "verified"])
        /\ remaining' = [d \in Tasks |->
             IF t \in deps[d] /\ remaining[d] > 0 THEN remaining[d] - 1 ELSE remaining[d]]
        /\ result' = [result EXCEPT ![t] = worker[w].read]
        /\ Finish(w, "verified")
        /\ UNCHANGED <<deps, contractVars, session>>

Fail(w, retry) ==
    LET t == worker[w].task
    IN  /\ Leased(w)
        /\ Refresh(Descendants(t, deps),
                   [state EXCEPT ![t] = IF retry THEN "pending" ELSE "failed"], deps)
        /\ Finish(w, IF retry THEN "retry" ELSE "failed")
        /\ UNCHANGED <<contractVars, result, session>>

(* _step is stopped when the heartbeat or a write finds the lease lost, or *)
(* the process dies: it writes nothing.                                    *)
LoseLease(w) ==
    /\ worker[w] # Idle
    /\ worker' = [worker EXCEPT ![w] = Idle]
    /\ UNCHANGED <<graphVars, leaseVars, contractVars, result, session>>

(***************************************************************************)
(* Changes of the plan.  _invalidate throws away the results, sessions and *)
(* leases of a task and of everything that rests on it.                    *)
(***************************************************************************)
\* Mutant: only the revised task is invalidated.
OnlyItself(t, dep) == {t}

InvalidatedBy(t, dep) == Descendants(t, dep)

Invalidate(set, keeps, dep, st, rem) ==
    LET new == Refreshed(set, Without(set, st, "pending"), rem, dep)
    IN  /\ state' = new.state
        /\ remaining' = new.count
        /\ deps' = dep
        /\ generation' = [t \in Tasks |-> IF t \in set THEN generation[t] + 1 ELSE generation[t]]
        /\ result' = Without(set, result, None)
        /\ session' = Without(set \ keeps, session, None)
        /\ attempts' = Ended(set, "superseded")
        /\ token' = Without(set, token, None)
        /\ left' = Without(set, left, 0)

(* revise, by the operator or by a worker under its own claim.             *)
Revise(t, needs) ==
    LET dep == [deps EXCEPT ![t] = needs]
    IN  /\ revisions < MaxRevisions
        /\ t \in Known
        /\ NoCycleAt(t, dep)
        /\ Invalidate(InvalidatedBy(t, dep), {}, dep, state, remaining)
        /\ text' = [text EXCEPT ![t] = @ + 1]
        /\ revisions' = revisions + 1
        /\ UNCHANGED worker

(* expand: the leased parent gets new prerequisites and waits for them.    *)
Expand(w) ==
    LET t == worker[w].task
    IN  /\ Leased(w)
        /\ \E batch \in (SUBSET (Tasks \ Known)) \ {{}} : \E plan \in Plans(batch) :
           \E more \in SUBSET (Known \union batch) :
             LET dep == [Merged(plan) EXCEPT ![t] = deps[t] \union more]
                 added == Added(plan)
             IN  /\ \A new \in batch : NoCycleAt(new, Merged(plan))
                 /\ NoCycleAt(t, dep)
                 /\ Invalidate(InvalidatedBy(t, dep), {t}, dep, added.state, added.count)
        /\ worker' = [worker EXCEPT ![w] = Idle]
        /\ UNCHANGED <<text, revisions>>

Tick ==
    /\ \E t \in Tasks : state[t] = "running" /\ left[t] > 0
    /\ left' = [t \in Tasks |->
         IF state[t] = "running" /\ left[t] > 0 THEN left[t] - 1 ELSE left[t]]
    /\ UNCHANGED <<graphVars, token, attempts, contractVars, result, session, worker>>

WorkerStep(w) ==
    \/ Claim(w) \/ Read(w) \/ Heartbeat(w) \/ Checkpoint(w) \/ Complete(w)
    \/ \E retry \in BOOLEAN : Fail(w, retry)
    \/ Expand(w) \/ LoseLease(w)

StoreNext ==
    \/ AddTasks
    \/ \E t \in Tasks : \E needs \in SUBSET Known : Revise(t, needs)
    \/ \E w \in Workers : WorkerStep(w)
    \/ Tick

StoreSpec == StoreInit /\ [][StoreNext]_storeVars

-----------------------------------------------------------------------------
(* The stored count of unverified prerequisites, which complete counts     *)
(* down and every other method counts again, is the true count.            *)
CountsAgree ==
    \A t \in Known : remaining[t] = Cardinality(Unverified(t, state, deps))

(* A waiting task is blocked exactly when a prerequisite failed or is      *)
(* blocked, and ready exactly when all are verified: nothing is admitted   *)
(* too early and nothing is left asleep after its last prerequisite.       *)
ReadinessAgrees ==
    \A t \in Known : state[t] \in Waiting =>
        /\ state[t] = "ready" <=> Unverified(t, state, deps) = {}
        /\ state[t] = "blocked" <=> \E p \in deps[t] : state[p] \in {"failed", "blocked"}

(* A verified result was made from the text of its task and the results of *)
(* its prerequisites that stand now: no revision, expansion or expired     *)
(* lease lets a late worker publish what it made from older ones.          *)
ResultIsCurrent ==
    \A t \in Known : state[t] = "verified" =>
        /\ Unverified(t, state, deps) = {}
        /\ result[t] = Reading(t)

(* A frozen statement was made from the current text of its task and from  *)
(* results of its prerequisites that have not been replaced since.         *)
FrozenIsCurrent ==
    \A t \in Known : session[t] # None =>
        /\ session[t].text = text[t]
        /\ \A p \in Tasks : session[t].basis[p] # None =>
             p \in deps[t] /\ generation[p] = session[t].basis[p]

(* Every attempt is open while it holds its task's lease and gets one      *)
(* outcome for ever: a late worker cannot rewrite the history.             *)
OneOutcome ==
    [][\A a \in DOMAIN attempts :
        /\ a \in DOMAIN attempts'
        /\ attempts'[a].outcome # attempts[a].outcome =>
             attempts[a].outcome = "open" /\ token[attempts[a].task] = a
                /\ token'[attempts[a].task] # a]_storeVars
=============================================================================
