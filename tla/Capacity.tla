------------------------------- MODULE Capacity -------------------------------
(***************************************************************************)
(* One capacity coordinator shared by several callers.  Each mutation is   *)
(* atomic under the file lock, but most public methods are two mutations:  *)
(* expire_due(now) and then, with the lock released in between and the     *)
(* same `now`, the change itself.  `calling[c]` is that remembered `now`.  *)
(* Any other caller's mutations can fall between the two.                  *)
(***************************************************************************)
EXTENDS Coordinator

CONSTANTS
    Callers,      \* threads and processes that use the coordinator
    Lag,          \* seconds: the age of a caller's now_s when its call ends
    MaxTime,      \* bound: the last second of the clock
    MaxSerial     \* bound: permits created over a behaviour

ASSUME CapacityAssumption ==
    /\ Lag \in Nat
    /\ MaxTime \in Nat
    /\ MaxSerial \in Nat
    /\ \A p \in Policies : Lag < p.requestTimeout

VARIABLES
    clock,        \* the host's clock, in seconds
    calling       \* the now_s of each caller between its two mutations, or NoTime

capacityVars == <<permit, queue, policy, nextSerial, clock, calling>>

Idle == [c \in Callers |-> NoTime]

CapacityTypeOK ==
    /\ CoordinatorTypeOK
    /\ clock \in Nat
    /\ calling \in [Callers -> Times]

Init ==
    /\ CoordinatorInit
    /\ clock = 0
    /\ calling = Idle

\* A value of now_s a caller may pass: read from the clock at most Lag seconds ago.
Recent == {t \in 0..clock : clock <= t + Lag}

\* Time passes, but no call under way outlives its now_s by more than Lag.
Tick ==
    /\ clock < MaxTime
    /\ \A c \in Callers : calling[c] # NoTime => clock < calling[c] + Lag
    /\ clock' = clock + 1
    /\ UNCHANGED <<coordinatorVars, calling>>

\* Mutant: the method does not expire what is due before it acts.
BeginCallWithoutExpiry(c, t) ==
    /\ calling[c] = NoTime
    /\ calling' = [calling EXCEPT ![c] = t]
    /\ UNCHANGED <<coordinatorVars, clock>>

\* The first half of a method that begins with self.expire_due(now), or a bare poll.
BeginCall(c, t) ==
    /\ calling[c] = NoTime
    /\ ExpireDue(t)
    /\ calling' = [calling EXCEPT ![c] = t]
    /\ UNCHANGED clock

Return(c) == calling' = [calling EXCEPT ![c] = NoTime] /\ UNCHANGED clock

\* The method changes nothing more: it was a poll, or it raised or was idempotent.
EndCall(c) ==
    /\ calling[c] # NoTime
    /\ Return(c)
    /\ UNCHANGED coordinatorVars

FinishAcquire(c, d, e, proc) ==
    /\ calling[c] # NoTime
    /\ nextSerial <= MaxSerial
    /\ Acquire(d, e, proc, calling[c])
    /\ Return(c)

FinishMarkDispatched(c, d, s) ==
    /\ calling[c] # NoTime
    /\ MarkDispatched(d, s)
    /\ Return(c)

FinishCancel(c, d) ==
    /\ calling[c] # NoTime
    /\ Cancel(d, calling[c])
    /\ Return(c)

FinishNoteHeartbeatExpired(c, d) ==
    /\ calling[c] # NoTime
    /\ NoteHeartbeatExpired(d)
    /\ Return(c)

FinishReportProcessStopped(c, proc) ==
    /\ calling[c] # NoTime
    /\ ReportProcessStopped(proc, calling[c])
    /\ Return(c)

FinishRevalidate(c, d) ==
    /\ calling[c] # NoTime
    /\ Revalidate(d)
    /\ Return(c)

\* The methods that are one mutation.
Alone == UNCHANGED <<clock, calling>>

RegisterDeclarations == \E g \in Groups, pol \in Policies : Register(g, pol) /\ Alone

OperatorTransition ==
    \E g \in Groups, pol \in Policies, t \in Recent : Transition(g, pol, t) /\ Alone

CompleteDispatch == \E d \in Dispatches, t \in Recent : Complete(d, t) /\ Alone

OperatorReset ==
    \E g \in Groups, s \in Servers, t \in Recent : VerifiedServerReset(g, s, t) /\ Alone

OperatorReconcile == \E d \in Dispatches, t \in Recent : Reconcile(d, t) /\ Alone

OperatorPrune ==
    \E g \in Groups, n \in 0..Tombstones : PruneTerminalTombstones(g, n) /\ Alone

Call(c) ==
    \/ \E t \in Recent : BeginCall(c, t)
    \/ EndCall(c)
    \/ \E d \in Dispatches, e \in Endpoints, proc \in Processes : FinishAcquire(c, d, e, proc)
    \/ \E d \in Dispatches, s \in Servers \cup {None} : FinishMarkDispatched(c, d, s)
    \/ \E d \in Dispatches : FinishCancel(c, d)
    \/ \E d \in Dispatches : FinishNoteHeartbeatExpired(c, d)
    \/ \E proc \in Processes : FinishReportProcessStopped(c, proc)
    \/ \E d \in Dispatches : FinishRevalidate(c, d)

Next ==
    \/ Tick
    \/ \E c \in Callers : Call(c)
    \/ RegisterDeclarations
    \/ OperatorTransition
    \/ CompleteDispatch
    \/ OperatorReset
    \/ OperatorReconcile
    \/ OperatorPrune

Spec == Init /\ [][Next]_capacityVars

(***************************************************************************)
(* Safety.                                                                 *)
(***************************************************************************)
\* What _validate_permit demands of one permit.
ValidPermit(p) ==
    LET started == p.state \in Completable \cup {"completed", "released"}
    IN /\ p.wasDispatched <=> started
       /\ (started \/ p.state \in {"admitted", "expired_before_dispatch"})
            => p.requestDeadline # NoTime
       /\ p.state = "queued" => p.requestDeadline = NoTime /\ p.queueDeadline # NoTime
       /\ p.uncertain <=> p.state \in {"cancel_requested", "completion_unknown", "released"}
       /\ p.state \notin Terminal => p.outcome = None
       /\ p.state = "cancelled" => p.outcome = "cancelled_before_dispatch"
       /\ p.state \in {"expired_before_dispatch", "completed"} => p.outcome = p.state
       /\ p.state = "released" =>
             p.outcome \in {"capacity_released_unresolved",
                           "released_by_verified_server_reset"}

(***************************************************************************)
(* No sequence of calls reaches a state the module's own validator         *)
(* rejects.  Were there one, _mutate and _load_unlocked would raise        *)
(* corrupt_coordinator and the coordinator could neither admit nor free    *)
(* anything again.                                                         *)
(***************************************************************************)
ValidState ==
    /\ \A d \in Dispatches : ValidPermit(permit[d])
    /\ queue = {d \in Dispatches : permit[d].state = "queued"}
    /\ \A d \in Dispatches : permit[d].state # "absent" =>
          /\ permit[d].serial \in 1..(nextSerial - 1)
          /\ policy[GroupIn(permit, d)] # NoPolicy
          /\ permit[d].endpoint \in DOMAIN policy[GroupIn(permit, d)].cap
    /\ \A d, w \in Dispatches :
          d # w /\ permit[d].state # "absent" /\ permit[w].state # "absent"
             => permit[d].serial # permit[w].serial

(***************************************************************************)
(* No slot is left free while an entry that could use it waits: every path *)
(* that frees a slot or raises a cap also promotes.  A waiting client only *)
(* polls, so a missed promotion would leave it waiting until the next one. *)
(***************************************************************************)
WorkConserving ==
    \A d \in queue : ~HasRoom(permit, policy, permit[d].endpoint)

\* The dispatch ids whose request may be running on the server.
Remote(pp, g) == {d \in Dispatches : pp[d].state \in Completable /\ GroupIn(pp, d) = g}

(***************************************************************************)
(* A dispatch never starts a request that takes the group's remote work    *)
(* over the cap in force, even when the cap was lowered after the permit   *)
(* was admitted and several admitted permits race to dispatch.             *)
(***************************************************************************)
DispatchWithinCap ==
    [][\A d \in Dispatches :
         (permit[d].state = "admitted" /\ permit'[d].state = "dispatched") =>
            Cardinality(Remote(permit', GroupIn(permit, d)))
               <= policy[GroupIn(permit, d)].maxInflight]_capacityVars

(***************************************************************************)
(* First come, first served at each endpoint: nobody receives a slot of an *)
(* endpoint while an older request for the same endpoint goes on waiting,  *)
(* neither by promotion nor by an acquire that finds a free slot.          *)
(***************************************************************************)
NoOvertaking ==
    [][\A d \in Dispatches :
         (permit[d].state \notin Slot /\ permit'[d].state \in Slot) =>
            ~ \E w \in queue' : /\ permit'[w].endpoint = permit'[d].endpoint
                                /\ permit'[w].serial < permit'[d].serial]_capacityVars

(***************************************************************************)
(* A permit is not dispatched at or after its request deadline as the      *)
(* dispatching caller sees the time: expire_due with the same now_s comes  *)
(* first, and what is promoted in between gets a fresh deadline.           *)
(***************************************************************************)
NoLateDispatch ==
    [][\A d \in Dispatches :
         (permit[d].state = "admitted" /\ permit'[d].state = "dispatched") =>
            \E c \in Callers : /\ calling[c] # NoTime
                               /\ calling'[c] = NoTime
                               /\ calling[c] < permit[d].requestDeadline]_capacityVars

(***************************************************************************)
(* "Expired queue entries must never receive a fresh request deadline"     *)
(* (the comment in _promote): the second at which a waiting permit is      *)
(* promoted, read back from the deadline it is given, is before its queue  *)
(* deadline, whichever caller frees the slot and however late its clock.   *)
(***************************************************************************)
PromotedInTime ==
    [][\A d \in Dispatches :
         (permit[d].state = "queued" /\ permit'[d].state = "admitted") =>
            permit'[d].requestDeadline - policy'[GroupIn(permit, d)].requestTimeout
               < permit[d].queueDeadline]_capacityVars

(***************************************************************************)
(* Work that was dispatched keeps its slot until its completion, a server  *)
(* reset or an operator's release is recorded: not by expiry, heartbeat    *)
(* loss, cancellation, process death, reconfiguration or pruning.          *)
(***************************************************************************)
SlotKeptUntilEvidence ==
    [][\A d \in Dispatches :
         (permit[d].state \in Completable /\ permit'[d].state \notin Completable) =>
            CompleteDispatch \/ OperatorReset \/ OperatorReconcile]_capacityVars

=============================================================================
