----------------------------- MODULE Coordinator -----------------------------
(***************************************************************************)
(* The durable state of one CapacityCoordinator (local_inference/          *)
(* capacity.py) and the mutations its methods make.  Every mutation runs   *)
(* under the directory's file lock on a fresh copy of state.json and is    *)
(* written back whole (_mutate), so each one is a single step.  A public   *)
(* method is one or two of these steps; Capacity.tla says which.           *)
(*                                                                         *)
(* The queue of a group is a list to which only newly numbered permits are *)
(* appended, and which is otherwise only filtered: its order is the order  *)
(* of the permits' serials.  `queue` is therefore the set of its members.  *)
(* A configuration fingerprint (registration_revision) is represented by   *)
(* the configuration itself: two are equal exactly when the policies are.  *)
(* Notes, the heartbeat flag and the admitted/dispatched time stamps are   *)
(* diagnostics no operation reads, and are left out.                       *)
(***************************************************************************)
EXTENDS Integers, FiniteSets

CONSTANTS
    Dispatches,   \* dispatch ids
    Endpoints,    \* endpoint names
    Groups,       \* capacity groups
    GroupOf,      \* the group that declares each endpoint
    Processes,    \* process incarnations
    Servers,      \* inference server instances
    Policies,     \* the configurations an operator may give a group
    NoPolicy,     \* a group nobody has registered yet
    None,         \* Python's None
    Tombstones    \* _TOMBSTONES: terminal permits a group remembers

VARIABLES
    permit,       \* the permit of each dispatch id, or NoPermit
    queue,        \* dispatch ids on a waiting list
    policy,       \* the configuration of each group
    nextSerial    \* next_serial

coordinatorVars == <<permit, queue, policy, nextSerial>>

(***************************************************************************)
(* A configuration: group limits, timeouts and the cap of each registered  *)
(* endpoint.  An endpoint's cap never exceeds its group's (_validate_group)*)
(***************************************************************************)
IsPolicy(p) ==
    /\ p.maxInflight \in Nat \ {0}
    /\ p.maxQueued \in Nat
    /\ p.queueTimeout \in Nat \ {0}
    /\ p.requestTimeout \in Nat \ {0}
    /\ DOMAIN p.cap \subseteq Endpoints
    /\ \A e \in DOMAIN p.cap : p.cap[e] \in 1..p.maxInflight

ASSUME CoordinatorAssumption ==
    /\ IsFiniteSet(Dispatches)
    /\ GroupOf \in [Endpoints -> Groups]
    /\ \A p \in Policies : IsPolicy(p)
    /\ NoPolicy \notin Policies
    /\ None \notin Endpoints \cup Processes \cup Servers
    /\ Tombstones \in Nat

(***************************************************************************)
(* Permits.                                                                *)
(***************************************************************************)
Slot == {"admitted", "dispatched", "cancel_requested", "completion_unknown"}
Completable == {"dispatched", "cancel_requested", "completion_unknown"}
Terminal == {"cancelled", "expired_before_dispatch", "completed", "released"}
PermitStates == {"absent", "queued"} \cup Slot \cup Terminal

Outcomes ==
    {None, "cancelled_before_dispatch", "expired_before_dispatch", "completed",
     "capacity_released_unresolved", "released_by_verified_server_reset"}

NoTime == -1
Times == Nat \cup {NoTime}

PermitRecords ==
    [state : PermitStates, serial : Nat, endpoint : Endpoints \cup {None},
     process : Processes \cup {None}, bound : Policies \cup {NoPolicy},
     queueDeadline : Times, requestDeadline : Times, server : Servers \cup {None},
     wasDispatched : BOOLEAN, outcome : Outcomes, uncertain : BOOLEAN]

NoPermit ==
    [state |-> "absent", serial |-> 0, endpoint |-> None, process |-> None,
     bound |-> NoPolicy, queueDeadline |-> NoTime, requestDeadline |-> NoTime,
     server |-> None, wasDispatched |-> FALSE, outcome |-> None, uncertain |-> FALSE]

CoordinatorTypeOK ==
    /\ permit \in [Dispatches -> PermitRecords]
    /\ queue \subseteq Dispatches
    /\ policy \in [Groups -> Policies \cup {NoPolicy}]
    /\ nextSerial \in Nat \ {0}

\* The group of a permit that exists.
GroupIn(pp, d) == GroupOf[pp[d].endpoint]

(***************************************************************************)
(* _counts: the permits that hold a slot of a group, and of an endpoint.   *)
(***************************************************************************)
SlotsOf(pp, g) == {d \in Dispatches : pp[d].state \in Slot /\ GroupIn(pp, d) = g}

SlotsAt(pp, e) == {d \in Dispatches : pp[d].state \in Slot /\ pp[d].endpoint = e}

\* Whether `e` could take one more permit beyond its slots and the set `more`.
RoomBeside(pp, pol, more, e) ==
    LET g == GroupOf[e]
    IN /\ Cardinality(SlotsOf(pp, g) \cup {d \in more : GroupIn(pp, d) = g})
              < pol[g].maxInflight
       /\ Cardinality(SlotsAt(pp, e) \cup {d \in more : pp[d].endpoint = e})
              < pol[g].cap[e]

HasRoom(pp, pol, e) == RoomBeside(pp, pol, {}, e)

(***************************************************************************)
(* Effects on one permit.                                                  *)
(***************************************************************************)
CancelBeforeDispatch(p) ==
    [p EXCEPT !.state = "cancelled", !.outcome = "cancelled_before_dispatch",
              !.uncertain = FALSE]

BecomeUnknown(p) == [p EXCEPT !.state = "completion_unknown", !.uncertain = TRUE]

Released(p, how) ==
    [p EXCEPT !.state = "released", !.outcome = how, !.uncertain = TRUE]

(***************************************************************************)
(* _expire_group.  A waiting permit past its queue deadline is cancelled;  *)
(* an admitted one past its request deadline gives its slot back; a        *)
(* dispatched one keeps its slot with its completion unknown.              *)
(***************************************************************************)
\* Mutant: the deadline second itself still counts as in time.
QueueDueLate(p, t) == p.queueDeadline # NoTime /\ t > p.queueDeadline

QueueDue(p, t) == p.queueDeadline # NoTime /\ t >= p.queueDeadline

RequestDue(p, t) == p.requestDeadline # NoTime /\ t >= p.requestDeadline

\* The waiting dispatch ids of the groups `gs` whose queue deadline has come.
DueWaiting(pp, q, gs, t) == {d \in q : GroupIn(pp, d) \in gs /\ QueueDue(pp[d], t)}

Expire(pp, q, gs, t) ==
    [d \in Dispatches |->
        CASE d \in DueWaiting(pp, q, gs, t) -> CancelBeforeDispatch(pp[d])
          [] pp[d].state = "admitted" /\ GroupIn(pp, d) \in gs /\ RequestDue(pp[d], t)
                -> [pp[d] EXCEPT !.state = "expired_before_dispatch",
                                 !.outcome = "expired_before_dispatch",
                                 !.uncertain = FALSE]
          [] pp[d].state = "dispatched" /\ GroupIn(pp, d) \in gs /\ RequestDue(pp[d], t)
                -> BecomeUnknown(pp[d])
          [] OTHER -> pp[d]]

(***************************************************************************)
(* _promote walks the waiting list once, oldest first, and admits an entry *)
(* exactly when there is room beside the slots held and the entries        *)
(* admitted earlier in the walk.  An entry whose endpoint is full is       *)
(* stepped over.  Promotes(pp, pol, q, gs, won) says that `won` is the set *)
(* of entries the walk over the groups `gs` admits.                        *)
(***************************************************************************)
\* Mutant: the newest entry goes first.
BeforeNewestFirst(pp, won, d) == {w \in won : pp[w].serial > pp[d].serial}

Before(pp, won, d) == {w \in won : pp[w].serial < pp[d].serial}

Promotes(pp, pol, q, gs, won) ==
    /\ won \subseteq q
    /\ \A d \in q :
        d \in won <=> /\ GroupIn(pp, d) \in gs
                     /\ RoomBeside(pp, pol, Before(pp, won, d), pp[d].endpoint)

\* A promoted permit gets a fresh request deadline and the present configuration.
Admit(pp, pol, won, t) ==
    [d \in Dispatches |->
        IF d \in won
        THEN LET now == pol[GroupIn(pp, d)]
             IN [pp[d] EXCEPT !.state = "admitted", !.bound = now,
                              !.requestDeadline = t + now.requestTimeout]
        ELSE pp[d]]

\* _prune: beyond the `limit` newest terminal permits of a group, forget the rest.
Prune(pp, gs, limit) ==
    [d \in Dispatches |->
        IF /\ pp[d].state \in Terminal
           /\ GroupIn(pp, d) \in gs
           /\ Cardinality({e \in Dispatches : /\ pp[e].state \in Terminal
                                              /\ GroupIn(pp, e) = GroupIn(pp, d)
                                              /\ pp[e].serial > pp[d].serial}) >= limit
        THEN NoPermit
        ELSE pp[d]]

(***************************************************************************)
(* The common tail of every path that can free a slot: expire, promote     *)
(* and prune the groups `gs` at time `t`, from permits `pp`, waiting       *)
(* entries `q` and configuration `pol`.                                    *)
(***************************************************************************)
Settle(pp, q, pol, gs, t) ==
    LET due     == Expire(pp, q, gs, t)
        waiting == q \ DueWaiting(pp, q, gs, t)
    IN \E won \in SUBSET waiting :
        /\ Promotes(due, pol, waiting, gs, won)
        /\ permit' = Prune(Admit(due, pol, won, t), gs, Tombstones)
        /\ queue' = waiting \ won

(***************************************************************************)
(* The mutations.  `t` is the caller's now_s.                              *)
(***************************************************************************)
\* register_declarations for a group that has none yet.
Register(g, pol) ==
    /\ policy[g] = NoPolicy
    /\ \A e \in DOMAIN pol.cap : GroupOf[e] = g
    /\ policy' = [policy EXCEPT ![g] = pol]
    /\ UNCHANGED <<permit, queue, nextSerial>>

Registered == {g \in Groups : policy[g] # NoPolicy}

\* transition: an operator replaces a group's configuration; no endpoint is lost.
Transition(g, pol, t) ==
    /\ g \in Registered
    /\ pol # policy[g]
    /\ DOMAIN policy[g].cap \subseteq DOMAIN pol.cap
    /\ \A e \in DOMAIN pol.cap : GroupOf[e] = g
    /\ LET next == [policy EXCEPT ![g] = pol]
       IN policy' = next /\ Settle(permit, queue, next, Registered, t)
    /\ UNCHANGED nextSerial

\* expire_due: _touch on every group.
ExpireDue(t) ==
    /\ Settle(permit, queue, policy, Registered, t)
    /\ UNCHANGED <<policy, nextSerial>>

\* _new_permit.
NewPermit(e, proc, t, isAdmitted) ==
    LET now == policy[GroupOf[e]]
    IN [NoPermit EXCEPT
            !.state = IF isAdmitted THEN "admitted" ELSE "queued",
            !.serial = nextSerial,
            !.endpoint = e,
            !.process = proc,
            !.bound = now,
            !.queueDeadline = IF isAdmitted THEN NoTime ELSE t + now.queueTimeout,
            !.requestDeadline = IF isAdmitted THEN t + now.requestTimeout ELSE NoTime]

\* acquire raises queue_overflow.
Overflow(e) ==
    /\ ~HasRoom(permit, policy, e)
    /\ Cardinality({w \in queue : GroupIn(permit, w) = GroupOf[e]})
          >= policy[GroupOf[e]].maxQueued

\* acquire for an id the index does not hold; a known id changes nothing.
Acquire(d, e, proc, t) ==
    /\ permit[d].state = "absent"
    /\ GroupOf[e] \in Registered
    /\ e \in DOMAIN policy[GroupOf[e]].cap
    /\ \/ /\ HasRoom(permit, policy, e)
          /\ permit' = [permit EXCEPT ![d] = NewPermit(e, proc, t, TRUE)]
          /\ queue' = queue
       \/ /\ ~HasRoom(permit, policy, e)
          /\ ~Overflow(e)
          /\ permit' = [permit EXCEPT ![d] = NewPermit(e, proc, t, FALSE)]
          /\ queue' = queue \cup {d}
    /\ nextSerial' = nextSerial + 1
    /\ UNCHANGED policy

(***************************************************************************)
(* _admission_fits: remote work and the admissions no younger than `d` fit *)
(* the present caps.                                                       *)
(***************************************************************************)
\* Mutant: only the admitted permits are counted.
OccupiedByAdmitted(d) ==
    {w \in Dispatches : /\ permit[w].state = "admitted"
                        /\ permit[w].serial <= permit[d].serial
                        /\ GroupIn(permit, w) = GroupIn(permit, d)}

Occupied(d) ==
    {w \in Dispatches :
        /\ \/ permit[w].state \in Completable
           \/ permit[w].state = "admitted" /\ permit[w].serial <= permit[d].serial
        /\ GroupIn(permit, w) = GroupIn(permit, d)}

AdmissionFits(d) ==
    LET pol == policy[GroupIn(permit, d)]
    IN /\ Cardinality(Occupied(d)) <= pol.maxInflight
       /\ Cardinality({w \in Occupied(d) : permit[w].endpoint = permit[d].endpoint})
             <= pol.cap[permit[d].endpoint]

MarkDispatched(d, s) ==
    /\ permit[d].state = "admitted"
    /\ permit[d].bound = policy[GroupIn(permit, d)]
    /\ AdmissionFits(d)
    /\ permit' = [permit EXCEPT ![d].state = "dispatched", ![d].wasDispatched = TRUE,
                                ![d].server = s, ![d].uncertain = FALSE]
    /\ UNCHANGED <<queue, policy, nextSerial>>

\* revalidate a waiting or admitted permit under the present configuration.
Revalidate(d) ==
    /\ permit[d].state \in {"queued"} \cup Slot
    /\ permit[d].state = "admitted" => AdmissionFits(d)
    /\ permit[d].bound # policy[GroupIn(permit, d)]
    /\ permit' = [permit EXCEPT ![d].bound = policy[GroupIn(permit, d)]]
    /\ UNCHANGED <<queue, policy, nextSerial>>

\* Mutant: the slot is freed and nobody is promoted into it.
CompleteWithoutPromotion(d, t) ==
    /\ permit[d].state \in Completable
    /\ permit' = [permit EXCEPT ![d].state = "completed", ![d].outcome = "completed",
                                ![d].uncertain = FALSE]
    /\ UNCHANGED <<queue, policy, nextSerial>>

Complete(d, t) ==
    /\ permit[d].state \in Completable
    /\ Settle([permit EXCEPT ![d].state = "completed", ![d].outcome = "completed",
                             ![d].uncertain = FALSE],
              queue, policy, {GroupIn(permit, d)}, t)
    /\ UNCHANGED <<policy, nextSerial>>

\* Mutant: a waiting permit is cancelled and stays on the waiting list.
CancelLeavesQueue(d, t) ==
    /\ permit[d].state \in {"queued", "admitted"}
    /\ permit' = [permit EXCEPT ![d] = CancelBeforeDispatch(@)]
    /\ UNCHANGED <<queue, policy, nextSerial>>

\* cancel frees work that was not dispatched and only marks work that was.
Cancel(d, t) ==
    /\ \/ /\ permit[d].state \in {"queued", "admitted"}
          /\ Settle([permit EXCEPT ![d] = CancelBeforeDispatch(@)], queue \ {d},
                    policy, {GroupIn(permit, d)}, t)
       \/ /\ permit[d].state = "dispatched"
          /\ Settle([permit EXCEPT ![d].state = "cancel_requested", ![d].uncertain = TRUE],
                    queue, policy, {GroupIn(permit, d)}, t)
    /\ UNCHANGED <<policy, nextSerial>>

\* note_heartbeat_expired: a silent client does not prove the server stopped.
NoteHeartbeatExpired(d) ==
    /\ permit[d].state = "dispatched"
    /\ permit' = [permit EXCEPT ![d] = BecomeUnknown(@)]
    /\ UNCHANGED <<queue, policy, nextSerial>>

\* Mutant: the death of the client is taken for the end of its requests.
StoppedProcessFreesSlots(proc, t) ==
    LET own == {d \in Dispatches : permit[d].process = proc}
    IN /\ Settle([d \in Dispatches |->
                    IF d \in own /\ permit[d].state \in {"queued"} \cup Slot
                    THEN CancelBeforeDispatch(permit[d])
                    ELSE permit[d]],
                 queue \ own, policy, Registered, t)
       /\ UNCHANGED <<policy, nextSerial>>

\* report_process_stopped, for every permit the process owns.
ReportProcessStopped(proc, t) ==
    LET own == {d \in Dispatches : permit[d].process = proc}
        stopped == [d \in Dispatches |->
            CASE d \in own /\ permit[d].state \in {"queued", "admitted"}
                    -> CancelBeforeDispatch(permit[d])
              [] d \in own /\ permit[d].state = "dispatched" -> BecomeUnknown(permit[d])
              [] OTHER -> permit[d]]
    IN /\ Settle(stopped, queue \ own, policy, Registered, t)
       /\ UNCHANGED <<policy, nextSerial>>

\* verified_server_reset: the operator proves instance `s` is gone.
VerifiedServerReset(g, s, t) ==
    LET gone(p) == p.server = s /\ p.state \in Completable
    IN /\ g \in Registered
       /\ Settle([d \in Dispatches |->
                    IF gone(permit[d]) /\ GroupIn(permit, d) = g
                    THEN Released(permit[d], "released_by_verified_server_reset")
                    ELSE permit[d]],
                 queue, policy, {g}, t)
       /\ UNCHANGED <<policy, nextSerial>>

\* reconcile with release_capacity_unresolved; retain_unknown only adds a note.
Reconcile(d, t) ==
    /\ permit[d].state \in {"completion_unknown", "cancel_requested"}
    /\ Settle([permit EXCEPT ![d] = Released(@, "capacity_released_unresolved")],
              queue, policy, {GroupIn(permit, d)}, t)
    /\ UNCHANGED <<policy, nextSerial>>

\* prune_terminal_tombstones.
PruneTerminalTombstones(g, limit) ==
    /\ g \in Registered
    /\ limit \in 0..Tombstones
    /\ permit' = Prune(permit, {g}, limit)
    /\ UNCHANGED <<queue, policy, nextSerial>>

CoordinatorInit ==
    /\ permit = [d \in Dispatches |-> NoPermit]
    /\ queue = {}
    /\ policy = [g \in Groups |-> NoPolicy]
    /\ nextSerial = 1

=============================================================================
