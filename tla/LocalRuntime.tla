----------------------------- MODULE LocalRuntime -----------------------------
(***************************************************************************)
(* One request of LocalInferenceRuntime (local_inference/runtime.py) from  *)
(* admission to settlement, composed with the capacity coordinator and the *)
(* compute ledger it shares with other requests, and with the operator's   *)
(* reconcile and settle-wall commands (local_inference/readiness.py).      *)
(*                                                                         *)
(* A dispatch id is drawn at random for each request and never used again, *)
(* so it stands for the request.  Each call on the coordinator or ledger   *)
(* is a step; between any two of them other requests, the operators, the   *)
(* clock and the inference server move, and the process may die.           *)
(*                                                                         *)
(* A call replaces its file and then syncs the directory, so it may return *)
(* or raise, and when it raises its change may have been made or not.      *)
(***************************************************************************)
EXTENDS Integers, FiniteSets

CONSTANTS
    Dispatches, Endpoints, Groups, GroupOf, Processes, Servers, Policies, NoPolicy,
    None, Tombstones,
    Requests, Receipts, Operators, Profiles, MaxCount, MaxWall,
    PolicyOf,      \* the configuration each group was registered with
    Limits,        \* the ceilings of the run's ledger
    ReceiptOf,     \* the observation clock of each request, "w-" + dispatch_id
    Readings,      \* bound: readings of a request's clock, in milliseconds
    LastRequest,   \* bound: no request begins after this second
    MaxTime        \* bound: the last second of the clock

VARIABLES
    permit, queue, policy, nextSerial,              \* the coordinator
    ceiling, consumed, reserved, claim, profile,    \* the ledger
    clock,         \* the host's clock, in seconds
    pc,            \* the call each request makes next
    memory,        \* what a request has read and will act on; torn is the call of
                   \* its own that made its change and raised (read by no action)
    remote,        \* the server's work on each request: none, running or done
    command        \* what each operator is doing

Capacity == INSTANCE Coordinator
Budget == INSTANCE Ledger

coordinatorVars == <<permit, queue, policy, nextSerial>>
ledgerVars == <<ceiling, consumed, reserved, claim, profile>>
runtimeVars == <<coordinatorVars, ledgerVars, clock, pc, memory, remote, command>>

ASSUME RuntimeAssumption ==
    /\ IsFiniteSet(Dispatches)
    /\ GroupOf \in [Endpoints -> Groups]
    /\ \A p \in Policies : Capacity!IsPolicy(p)
    /\ PolicyOf \in [Groups -> Policies]
    /\ NoPolicy \notin Policies
    /\ None \notin Dispatches \cup Endpoints \cup Groups \cup Processes \cup Servers
    /\ None \notin Receipts \cup Operators \cup Profiles
    /\ None # "capacity_released_unresolved"
    /\ Tombstones \in Nat
    /\ Requests \subseteq Budget!RequestRecords
    /\ MaxCount \in Nat /\ MaxWall \in Nat
    /\ ReceiptOf \in [Dispatches -> Receipts]
    /\ Limits \in [Budget!Dimensions -> Nat]
    /\ Readings \subseteq Nat
    /\ LastRequest \in Nat /\ MaxTime \in Nat

(***************************************************************************)
(* Where a request can be.  The handlers of a failure depend on how far it *)
(* got: drop (acquired), undo (reserved), void (budget_marked) and abandon *)
(* (transport_started).                                                    *)
(***************************************************************************)
Ended == {"done", "failed", "crashed"}

Steps ==
    {"idle", "acquire", "poll", "polled", "reserve", "reserving", "callback", "ensure",
     "ensured", "charge", "start", "starting", "send", "exchange", "complete", "settle",
     "drop", "undo", "undoRead", "undoRelease", "void", "voidComplete", "voidSettle",
     "abandon", "abandonRead", "lateSettle", "observe", "markUnknown", "free",
     "cancel", "cancelling", "heartbeat", "heartbeatLost"} \cup Ended

NoMemory ==
    [now |-> 0, permit |-> "absent", claim |-> "none", cancelled |-> FALSE, next |-> "idle",
     torn |-> "none"]

Memories ==
    [now : Nat, permit : Capacity!PermitStates, claim : Budget!ClaimStates,
     cancelled : BOOLEAN, next : Steps, torn : {"none", "acquire", "reserve", "charge"}]

Commands ==
    {"none", "readReservation", "expire", "readPermit", "mark", "record", "release",
     "readForSettle", "settle", "complete"}

Free == [step |-> "none", dispatch |-> None, now |-> 0, permit |-> "absent", claim |-> "none"]

CommandRecords ==
    [step : Commands, dispatch : Dispatches \cup {None}, now : Nat,
     permit : Capacity!PermitStates, claim : Budget!ClaimStates]

Init ==
    /\ permit = [d \in Dispatches |-> Capacity!NoPermit]
    /\ queue = {}
    /\ policy = PolicyOf
    /\ nextSerial = 1
    /\ \E h \in Profiles : Budget!Create(Limits, h)
    /\ clock = 0
    /\ pc = [d \in Dispatches |-> "idle"]
    /\ memory = [d \in Dispatches |-> NoMemory]
    /\ remote = [d \in Dispatches |-> "none"]
    /\ command = [o \in Operators |-> Free]

(***************************************************************************)
(* Control.                                                                *)
(***************************************************************************)
At(d, step) == pc[d] = step

Goto(d, step) == pc' = [pc EXCEPT ![d] = step]

Remember(d, field, value) == memory' = [memory EXCEPT ![d][field] = value]

Forget(d) == memory' = [memory EXCEPT ![d] = [NoMemory EXCEPT !.torn = memory[d].torn]]

\* The request is over: what it had read is forgotten.
End(d, how) == Goto(d, how) /\ Forget(d)

Outside == UNCHANGED <<clock, remote, command>>

NoCapacityChange == UNCHANGED coordinatorVars
NoBudgetChange == UNCHANGED ledgerVars
NoResourceChange == NoCapacityChange /\ NoBudgetChange

\* A step that only reads, compares or raises.
Local == NoResourceChange /\ Outside

\* The call raised: it was refused or not written, or it was written and then failed.
Raised(call) == call \/ Local

\* self.expire_due(now), the first of the two mutations of most coordinator calls.
ExpireFirst(now) == Capacity!ExpireDue(now) /\ NoBudgetChange /\ Outside

(***************************************************************************)
(* request: _admit.                                                        *)
(***************************************************************************)
Request(d) ==
    /\ At(d, "idle")
    /\ clock <= LastRequest
    /\ \/ ExpireFirst(clock) /\ Goto(d, "acquire") /\ Remember(d, "now", clock)
       \/ Raised(ExpireFirst(clock)) /\ End(d, "failed")

\* attempt.acquired is set only when the call returns: without it _cleanup does nothing.
Acquire(d) ==
    /\ At(d, "acquire")
    /\ \/ /\ \E e \in Endpoints, p \in Processes : Capacity!Acquire(d, e, p, memory[d].now)
          /\ NoBudgetChange /\ Outside
          /\ \/ Goto(d, "poll") /\ Forget(d)
             \/ /\ Goto(d, "failed")
                /\ memory' = [memory EXCEPT ![d] = [NoMemory EXCEPT !.torn = "acquire"]]
       \/ Local /\ End(d, "failed")

\* Mutant: a waiting request only looks at its permit.
PollWithoutExpiry(d) ==
    /\ At(d, "poll")
    /\ Local
    /\ Goto(d, "polled")
    /\ UNCHANGED memory

Poll(d) ==
    /\ At(d, "poll")
    /\ \/ ExpireFirst(clock) /\ Goto(d, "polled")
       \/ Raised(ExpireFirst(clock)) /\ Goto(d, "drop")
    /\ UNCHANGED memory

\* Any of the reads of _admit, _reserve and _dispatch may raise deadline_exceeded,
\* and the awaits among them may be cancelled.
Polled(d) ==
    /\ At(d, "polled")
    /\ \/ permit[d].state = "admitted" /\ Goto(d, "reserve")
       \/ permit[d].state = "queued" /\ Goto(d, "poll")
       \/ Goto(d, "drop")
    /\ Local /\ UNCHANGED memory

(***************************************************************************)
(* request: _reserve and reserve_budget_for_admitted_permit.               *)
(***************************************************************************)
ReadForReserve(d) ==
    /\ At(d, "reserve")
    /\ \/ permit[d].state = "admitted" /\ Goto(d, "reserving")
       \/ Goto(d, "drop")
    /\ Local /\ UNCHANGED memory

\* attempt.reserved is set only when the call returns: without it the cleanup gives
\* back the permit and not the reservation.
Reserve(d) ==
    /\ At(d, "reserving")
    /\ \/ /\ \E r \in Requests : Budget!Reserve(d, r, profile)
          /\ NoCapacityChange /\ Outside
          /\ \/ Goto(d, "callback") /\ UNCHANGED memory
             \/ Goto(d, "drop") /\ Remember(d, "torn", "reserve")
       \/ Local /\ Goto(d, "drop") /\ UNCHANGED memory

(***************************************************************************)
(* request: _dispatch.                                                     *)
(***************************************************************************)
\* await before_dispatch.
Callback(d) ==
    /\ At(d, "callback")
    /\ Goto(d, "ensure") \/ Goto(d, "undo")
    /\ Local /\ UNCHANGED memory

EnsureAdmitted(d) ==
    /\ At(d, "ensure")
    /\ \/ ExpireFirst(clock) /\ Goto(d, "ensured")
       \/ Raised(ExpireFirst(clock)) /\ Goto(d, "undo")
    /\ UNCHANGED memory

Ensured(d) ==
    /\ At(d, "ensured")
    /\ \/ permit[d].state = "admitted" /\ Goto(d, "charge")
       \/ Goto(d, "undo")
    /\ Local /\ UNCHANGED memory

\* Mutant: the request is started without its charge.
ChargeSkipped(d) ==
    /\ At(d, "charge")
    /\ Local /\ UNCHANGED memory
    /\ Goto(d, "start")

\* ledger.mark_dispatched: from here on the request is paid for.  attempt.budget_marked
\* is set only when the call returns: without it the cleanup takes the request for one
\* that was only reserved.
Charge(d) ==
    /\ At(d, "charge")
    /\ \/ /\ Budget!MarkDispatched(d)
          /\ NoCapacityChange /\ Outside
          /\ \/ Goto(d, "start") /\ UNCHANGED memory
             \/ Goto(d, "undo") /\ Remember(d, "torn", "charge")
       \/ Local /\ Goto(d, "undo") /\ UNCHANGED memory

Start(d) ==
    /\ At(d, "start")
    /\ \/ ExpireFirst(clock) /\ Goto(d, "starting")
       \/ Raised(ExpireFirst(clock)) /\ Goto(d, "void")
    /\ UNCHANGED memory

\* Mutant: the coordinator's refusal to dispatch is ignored.
StartedAnyway(d) ==
    /\ At(d, "starting")
    /\ Goto(d, "send")
    /\ Local /\ UNCHANGED memory

\* coordinator.mark_dispatched; the runtime names no server instance.
Started(d) ==
    /\ At(d, "starting")
    /\ \/ /\ Capacity!MarkDispatched(d, None)
          /\ NoBudgetChange /\ Outside
          /\ Goto(d, "send") \/ Goto(d, "void")
       \/ Local /\ Goto(d, "void")
    /\ UNCHANGED memory

(***************************************************************************)
(* request: _exchange and _finish.  The request reaches the server or not; *)
(* on_dispatched and the last _arm_timeout may still raise before it.      *)
(***************************************************************************)
Send(d) ==
    /\ At(d, "send")
    /\ \/ Goto(d, "exchange") /\ remote' \in {remote, [remote EXCEPT ![d] = "running"]}
       \/ Goto(d, "void") /\ UNCHANGED remote
    /\ NoResourceChange /\ UNCHANGED <<clock, command, memory>>

\* A terminal envelope or a rejection: the server has finished with the request.
Respond(d) ==
    /\ At(d, "exchange")
    /\ remote[d] = "done"
    /\ Goto(d, "complete")
    /\ Local /\ UNCHANGED memory

\* A timeout, a transport error, an unusable answer or a cancellation.
LoseResponse(d) ==
    /\ At(d, "exchange")
    /\ Goto(d, "abandon")
    /\ \E isCancelled \in BOOLEAN : Remember(d, "cancelled", isCancelled)
    /\ Local

\* _settle: the permit first, then the ledger.
Complete(d) ==
    /\ At(d, "complete")
    /\ \/ /\ Capacity!Complete(d, clock)
          /\ NoBudgetChange /\ Outside
          /\ Goto(d, "settle") \/ Goto(d, "abandon")
       \/ Local /\ Goto(d, "abandon")
    /\ UNCHANGED memory

Settle(d) ==
    /\ At(d, "settle")
    /\ \/ /\ \E millis \in Readings : Budget!SettleObservedWall(d, millis, ReceiptOf[d], TRUE)
          /\ NoCapacityChange /\ Outside
          /\ \/ End(d, "done")
             \/ Goto(d, "abandon") /\ UNCHANGED memory
       \/ Local /\ Goto(d, "abandon") /\ UNCHANGED memory

(***************************************************************************)
(* _cleanup.  A permit that still waits or is only admitted is cancelled;  *)
(* memory[d].next says what follows the cancellation.  A call of the       *)
(* cleanup that raises ends it there, before or after its change: to the   *)
(* files that is the process dying (Crash) before or after the step.       *)
(***************************************************************************)
Waiting == {"queued", "admitted"}

ReadPermit(d, step, next) ==
    /\ Goto(d, step)
    /\ memory' = [memory EXCEPT ![d].now = clock, ![d].permit = permit[d].state,
                                ![d].next = next]

\* Mutant: the permit is left to its deadline.
DropWithoutCancel(d) ==
    /\ At(d, "drop")
    /\ End(d, "failed")
    /\ Local

\* Nothing reserved: only the permit is given back.
Drop(d) ==
    /\ At(d, "drop")
    /\ IF permit[d].state \in Waiting THEN ReadPermit(d, "cancel", "failed")
                                      ELSE End(d, "failed")
    /\ Local

\* release_if_not_dispatched reads the permit, then the reservation.
Undo(d) ==
    /\ At(d, "undo")
    /\ ReadPermit(d, "undoRead", "undoRelease")
    /\ Local

UndoRead(d) ==
    /\ At(d, "undoRead")
    /\ LET started == \/ claim[d].state \in {"dispatched", "unknown"}
                      \/ memory[d].permit \in Capacity!Completable \cup {"completed"}
           gone == memory[d].permit \in {"cancelled", "expired_before_dispatch"}
       IN CASE started /\ memory[d].permit = "dispatched"
                  -> Goto(d, "cancel") /\ Remember(d, "next", "failed")
            [] started /\ memory[d].permit # "dispatched" -> End(d, "failed")
            [] ~started /\ memory[d].permit \in Waiting -> Goto(d, "cancel") /\ UNCHANGED memory
            [] ~started /\ gone -> Goto(d, "undoRelease") /\ UNCHANGED memory
            [] OTHER -> End(d, "failed")
    /\ Local

UndoRelease(d) ==
    /\ At(d, "undoRelease")
    /\ Budget!ReleaseNotDispatched(d)
    /\ NoCapacityChange /\ Outside
    /\ End(d, "failed")

\* _release_before_send with the budget charged and no send begun.
Void(d) ==
    /\ At(d, "void")
    /\ ReadPermit(d,
                  CASE permit[d].state \in Waiting -> "cancel"
                    [] permit[d].state \in Capacity!Completable -> "voidComplete"
                    [] OTHER -> "voidSettle",
                  "voidSettle")
    /\ Local

VoidComplete(d) ==
    /\ At(d, "voidComplete")
    /\ \/ /\ Capacity!Complete(d, memory[d].now)
          /\ NoBudgetChange /\ Outside
          /\ Goto(d, "voidSettle") /\ UNCHANGED memory
       \/ permit[d].state \notin Capacity!Completable /\ Local /\ End(d, "failed")

\* The charge stays; the clock is closed at zero and the wall time given back.
VoidSettle(d) ==
    /\ At(d, "voidSettle")
    /\ \/ Budget!SettleObservedWall(d, 0, ReceiptOf[d], TRUE) /\ NoCapacityChange /\ Outside
       \/ ~Budget!Readable(d, 0, ReceiptOf[d]) /\ Local
    /\ End(d, "failed")

\* The request was sent and its outcome is not known: read the permit, then the claim.
Abandon(d) ==
    /\ At(d, "abandon")
    /\ ReadPermit(d, "abandonRead", "failed")
    /\ Local

AbandonRead(d) ==
    /\ At(d, "abandonRead")
    /\ LET seen == claim[d].state
           isCompleted == memory[d].permit = "completed"
       IN CASE isCompleted /\ seen = "dispatched" -> Goto(d, "lateSettle") /\ UNCHANGED memory
            [] isCompleted /\ seen # "dispatched" -> End(d, "failed")
            [] ~isCompleted /\ seen \in {"dispatched", "unknown"}
                  -> Goto(d, "observe") /\ Remember(d, "claim", seen)
            [] OTHER -> Goto(d, "free") /\ UNCHANGED memory
    /\ Local

LateSettle(d) ==
    /\ At(d, "lateSettle")
    /\ \E millis \in Readings :
          \/ /\ Budget!SettleObservedWall(d, millis, ReceiptOf[d], TRUE)
             /\ NoCapacityChange /\ Outside
          \/ ~Budget!Readable(d, millis, ReceiptOf[d]) /\ Local
    /\ End(d, "failed")

Observe(d) ==
    /\ At(d, "observe")
    /\ \E millis \in Readings :
          \/ /\ Budget!ObserveWall(d, millis, ReceiptOf[d])
             /\ NoCapacityChange /\ Outside
             /\ Goto(d, IF memory[d].claim = "dispatched" THEN "markUnknown" ELSE "free")
             /\ UNCHANGED memory
          \/ ~Budget!Readable(d, millis, ReceiptOf[d]) /\ Local /\ End(d, "failed")

MarkUnknown(d) ==
    /\ At(d, "markUnknown")
    /\ \/ Budget!MarkUnknown(d) /\ NoCapacityChange /\ Outside /\ Goto(d, "free") /\ UNCHANGED memory
       \/ claim[d].state = "unknown" /\ Local /\ Goto(d, "free") /\ UNCHANGED memory
       \/ claim[d].state = "completed" /\ Local /\ End(d, "failed")

\* The slot is not given back: the permit is marked, by cancel or by a lost heartbeat.
FreeOrKeep(d) ==
    /\ At(d, "free")
    /\ LET unmarked == IF memory[d].cancelled THEN {"dispatched", "completion_unknown"}
                                              ELSE {"dispatched", "cancel_requested"}
       IN IF memory[d].permit \in unmarked
          THEN /\ Goto(d, IF memory[d].cancelled THEN "cancel" ELSE "heartbeat")
               /\ UNCHANGED memory
          ELSE End(d, "failed")
    /\ Local

Heartbeat(d) ==
    /\ At(d, "heartbeat")
    /\ ExpireFirst(memory[d].now)
    /\ Goto(d, "heartbeatLost")
    /\ UNCHANGED memory

HeartbeatLost(d) ==
    /\ At(d, "heartbeatLost")
    /\ \/ Capacity!NoteHeartbeatExpired(d) /\ NoBudgetChange /\ Outside
       \/ permit[d].state # "dispatched" /\ Local
    /\ End(d, "failed")

Cancel(d) ==
    /\ At(d, "cancel")
    /\ ExpireFirst(memory[d].now)
    /\ Goto(d, "cancelling")
    /\ UNCHANGED memory

\* cancel is a no-op on work already cancelled, expired or in doubt.
Cancelling(d) ==
    /\ At(d, "cancelling")
    /\ \/ Capacity!Cancel(d, memory[d].now) /\ NoBudgetChange /\ Outside
       \/ permit[d].state \notin Waiting \cup {"dispatched"} /\ Local
    /\ IF memory[d].next = "failed" THEN End(d, "failed")
                                    ELSE Goto(d, memory[d].next) /\ UNCHANGED memory

(***************************************************************************)
(* The operator's commands.  Both read the reservation and the permit      *)
(* first and act on what they read.                                        *)
(***************************************************************************)
Doing(o, step) == command[o].step = step

Then(o, step) == command' = [command EXCEPT ![o].step = step]

Leave(o) == command' = [command EXCEPT ![o] = Free]

Around == UNCHANGED <<clock, pc, memory, remote>>

BeginReconcile(o, d) ==
    /\ Doing(o, "none")
    /\ claim[d].state # "none"
    /\ permit[d].state # "absent"
    /\ command' = [command EXCEPT ![o] = [Free EXCEPT !.step = "expire", !.dispatch = d,
                                                     !.now = clock, !.claim = claim[d].state]]
    /\ NoResourceChange /\ Around

ReconcileExpire(o) ==
    /\ Doing(o, "expire")
    /\ Capacity!ExpireDue(command[o].now)
    /\ Then(o, "readPermit")
    /\ NoBudgetChange /\ Around

ReconcileReadPermit(o) ==
    /\ Doing(o, "readPermit")
    /\ IF permit[command[o].dispatch].state \in {"completion_unknown", "cancel_requested"}
       THEN Then(o, "mark")
       ELSE Leave(o)
    /\ NoResourceChange /\ Around

\* mark_unknown if the reservation was read as dispatched; it must then be unknown.
ReconcileMark(o) ==
    LET d == command[o].dispatch
    IN /\ Doing(o, "mark")
       /\ NoCapacityChange /\ Around
       /\ \/ command[o].claim = "dispatched" /\ Budget!MarkUnknown(d) /\ Then(o, "record")
          \/ /\ \/ command[o].claim = "unknown"
                \/ command[o].claim = "dispatched" /\ claim[d].state = "unknown"
             /\ NoBudgetChange
             /\ Then(o, "record")
          \/ /\ \/ command[o].claim \notin {"dispatched", "unknown"}
                \/ command[o].claim = "dispatched" /\ claim[d].state = "completed"
             /\ NoBudgetChange
             /\ Leave(o)

ReconcileRecord(o) ==
    LET d == command[o].dispatch
    IN /\ Doing(o, "record")
       /\ \/ Budget!RecordUnresolved(d, o) /\ Then(o, "release")
          \/ /\ claim[d].state # "unknown" \/ claim[d].operator \notin {None, o}
             /\ NoBudgetChange
             /\ Leave(o)
       /\ NoCapacityChange /\ Around

\* completion_evidence_lost releases the slot; retain_unknown leaves it.
ReconcileRelease(o) ==
    /\ Doing(o, "release")
    /\ Capacity!Reconcile(command[o].dispatch, command[o].now) \/ NoCapacityChange
    /\ Leave(o)
    /\ NoBudgetChange /\ Around

\* settle-wall: the operator has the receipt of a clear response.
BeginSettle(o, d) ==
    /\ Doing(o, "none")
    /\ remote[d] = "done"
    /\ command' = [command EXCEPT ![o] = [Free EXCEPT !.step = "readForSettle", !.dispatch = d,
                                                     !.now = clock, !.claim = claim[d].state]]
    /\ NoResourceChange /\ Around

\* Mutant: a released permit is not refused.
SettleReadReleased(o) ==
    LET now == permit[command[o].dispatch].state
    IN /\ Doing(o, "readForSettle")
       /\ IF now = "completed" /\ command[o].claim = "completed"
          THEN Leave(o)
          ELSE command' = [command EXCEPT ![o].step = "settle", ![o].permit = now]
       /\ NoResourceChange /\ Around

SettleReadPermit(o) ==
    LET now == permit[command[o].dispatch].state
    IN /\ Doing(o, "readForSettle")
       /\ IF now = "released" \/ (now = "completed" /\ command[o].claim = "completed")
          THEN Leave(o)
          ELSE command' = [command EXCEPT ![o].step = "settle", ![o].permit = now]
       /\ NoResourceChange /\ Around

SettleWall(o) ==
    LET d == command[o].dispatch
    IN /\ Doing(o, "settle")
       /\ \E millis \in Readings \ {0}, w \in Receipts :
             \/ /\ Budget!SettleObservedWall(d, millis, w, TRUE)
                /\ IF command[o].permit = "completed" THEN Leave(o) ELSE Then(o, "complete")
             \/ ~Budget!Readable(d, millis, w) /\ NoBudgetChange /\ Leave(o)
       /\ NoCapacityChange /\ Around

SettleComplete(o) ==
    LET d == command[o].dispatch
    IN /\ Doing(o, "complete")
       /\ \/ Capacity!Complete(d, command[o].now)
          \/ permit[d].state \notin Capacity!Completable /\ NoCapacityChange
       /\ Leave(o)
       /\ NoBudgetChange /\ Around

(***************************************************************************)
(* The environment: the server, the clock, and the death of processes.     *)
(***************************************************************************)
ServerFinishes(d) ==
    /\ remote[d] = "running"
    /\ remote' = [remote EXCEPT ![d] = "done"]
    /\ NoResourceChange /\ UNCHANGED <<clock, pc, memory, command>>

Tick ==
    /\ clock < MaxTime
    /\ clock' = clock + 1
    /\ NoResourceChange /\ UNCHANGED <<pc, memory, remote, command>>

\* The process dies, or a call of the request's own cleanup raises.
Crash(d) ==
    /\ pc[d] \notin {"idle"} \cup Ended
    /\ End(d, "crashed")
    /\ Local

\* The command's process dies, or one of its calls raises.
OperatorCrash(o) ==
    /\ ~Doing(o, "none")
    /\ Leave(o)
    /\ NoResourceChange /\ Around

\* The steps of a request's own coroutine, once it has begun.
Step(d) ==
    \/ Acquire(d) \/ Poll(d) \/ Polled(d)
    \/ ReadForReserve(d) \/ Reserve(d)
    \/ Callback(d) \/ EnsureAdmitted(d) \/ Ensured(d)
    \/ Charge(d) \/ Start(d) \/ Started(d)
    \/ Send(d) \/ Respond(d) \/ LoseResponse(d) \/ Complete(d) \/ Settle(d)
    \/ Drop(d)
    \/ Undo(d) \/ UndoRead(d) \/ UndoRelease(d)
    \/ Void(d) \/ VoidComplete(d) \/ VoidSettle(d)
    \/ Abandon(d) \/ AbandonRead(d) \/ LateSettle(d) \/ Observe(d) \/ MarkUnknown(d)
    \/ FreeOrKeep(d) \/ Heartbeat(d) \/ HeartbeatLost(d)
    \/ Cancel(d) \/ Cancelling(d)

Operate(o) ==
    \/ \E d \in Dispatches : BeginReconcile(o, d) \/ BeginSettle(o, d)
    \/ ReconcileExpire(o) \/ ReconcileReadPermit(o) \/ ReconcileMark(o)
    \/ ReconcileRecord(o) \/ ReconcileRelease(o)
    \/ SettleReadPermit(o) \/ SettleWall(o) \/ SettleComplete(o)
    \/ OperatorCrash(o)

Next ==
    \/ \E d \in Dispatches : Request(d) \/ Step(d) \/ ServerFinishes(d) \/ Crash(d)
    \/ \E o \in Operators : Operate(o)
    \/ Tick

Spec == Init /\ [][Next]_runtimeVars

\* A request's coroutine keeps running until it ends, and time passes.
FairSpec == Spec /\ WF_runtimeVars(Tick) /\ \A d \in Dispatches : WF_runtimeVars(Step(d))

(* The types of the variables.                                             *)
RuntimeTypeOK ==
    /\ Capacity!CoordinatorTypeOK
    /\ claim \in [Dispatches -> Budget!ClaimRecords]
    /\ clock \in Nat
    /\ pc \in [Dispatches -> Steps]
    /\ memory \in [Dispatches -> Memories]
    /\ remote \in [Dispatches -> {"none", "running", "done"}]
    /\ command \in [Operators -> CommandRecords]

(***************************************************************************)
(* A request that ended by itself, its cleanup finished, leaves nothing    *)
(* that only it could give back: no place in a queue, no slot without a    *)
(* dispatch, no unspent reservation.  Neither does it leave a dispatch     *)
(* that both records take to be still under way, nor a claim in doubt for  *)
(* a permit that never started, which no operator command could resolve.   *)
(* The exceptions are three calls the cleanup cannot tell to have been     *)
(* made when they raise after the write: acquire leaves its permit to the  *)
(* deadline, reserve leaves its reservation, and mark_dispatched leaves a  *)
(* charge with, until its deadline, an admitted permit.  (Where an         *)
(* operator settled the claim meanwhile, its command can be repeated to    *)
(* complete the permit.)                                                   *)
(***************************************************************************)
EndsClean ==
    \A d \in Dispatches : pc[d] \in {"done", "failed"} =>
        /\ permit[d].state \in Waiting => memory[d].torn \in {"acquire", "charge"}
        /\ claim[d].state = "reserved" => memory[d].torn = "reserve"
        /\ claim[d].state = "dispatched" => memory[d].torn = "charge"
        /\ permit[d].state = "dispatched" => claim[d].state = "completed"
        /\ claim[d].state = "unknown" => permit[d].wasDispatched

(***************************************************************************)
(* Every request that begins ends: it is answered, it fails or its process *)
(* dies.  No queue, lock-step with an operator or race with a deadline     *)
(* keeps it polling or cleaning up for ever.                               *)
(***************************************************************************)
RequestEnds == \A d \in Dispatches : pc[d] # "idle" ~> pc[d] \in Ended

(***************************************************************************)
(* The composition keeps the promise of DispatchContract.                  *)
(***************************************************************************)
Contract == INSTANCE DispatchContract WITH
    Slots <- [g \in Groups |-> PolicyOf[g].maxInflight],
    Purse <- Limits["dispatches"],
    slot <- [d \in Dispatches |-> IF permit[d].state \in Capacity!Slot
                                  THEN Capacity!GroupIn(permit, d) ELSE None],
    charge <- [d \in Dispatches |->
                  CASE claim[d].state = "none" -> "none"
                    [] claim[d].state = "reserved" -> "promised"
                    [] claim[d].state = "released" -> "returned"
                    [] OTHER -> "paid"],
    work <- remote,
    writtenOff <- {d \in Dispatches : permit[d].outcome = "capacity_released_unresolved"}

KeepsContract == Contract!Spec

(***************************************************************************)
(* What the documentation says and the code does not do.                   *)
(***************************************************************************)
\* completion_evidence_lost releases a slot "without ... asserting successful
\* completion" (docs/local-inference.md): no request that was sent is both
\* released as unresolved and settled as completed.  One command at a time keeps
\* to this; two at once do not.
ReleasedIsNotCompleted ==
    \A d \in Dispatches :
        (remote[d] # "none" /\ permit[d].outcome = "capacity_released_unresolved")
            => claim[d].state # "completed"

=============================================================================
