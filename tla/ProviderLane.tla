----------------------------- MODULE ProviderLane -----------------------------
(***************************************************************************)
(* The health of one provider lane (provider_health.py) and the requests   *)
(* that the model clients of a run send over it (models.py): admission,    *)
(* the request, its owner and the observer of its response, which may      *)
(* outlive the owner, and the closing of a client.                         *)
(*                                                                         *)
(* Owners and observers are coroutines of one event loop; between two      *)
(* suspensions each runs alone.  An owner may be cancelled where it waits, *)
(* and a cancelled HTTP request ends when and how it pleases.              *)
(*                                                                         *)
(* A lane nobody has been refused by has no entry in _states; the entry    *)
(* setdefault would create has the same effect, and stands for it here.    *)
(***************************************************************************)
EXTENDS Integers, FiniteSets

CONSTANTS
    Requests,     \* attempts that may be under way together
    Clients,      \* model clients
    ClientOf,     \* the client of each attempt
    None,         \* no token
    MaxCount,     \* where rejection_count saturates: 63
    LastEpoch     \* bound: nothing is admitted from this epoch on

ASSUME LaneAssumption ==
    /\ None \notin Requests
    /\ ClientOf \in [Requests -> Clients]
    /\ MaxCount \in Nat \ {0}
    /\ LastEpoch \in Nat

VARIABLES
    lane,       \* _LaneState
    permit,     \* ProviderLanePermit of each attempt; its token is the attempt
    ownership,  \* ProviderLanePermitOwnership of each attempt
    owner,      \* where _post_with_retry is with each attempt
    transport,  \* the HTTP request of each attempt
    observer,   \* _observe_transport_receipt of each attempt
    barrier,    \* clients that are closed: _late_receipt_observer_barrier
    overtaken   \* history: attempts admitted before the epoch last changed

requestVars == <<permit, ownership, owner, transport, observer>>
vars == <<lane, requestVars, barrier, overtaken>>

(***************************************************************************)
(* rejection_count, rejection_epoch, healthy_epoch_floor, half_open_token  *)
(* and permanently_retired by their names; cooling stands for              *)
(* now < ready_at.                                                         *)
(***************************************************************************)
Lanes == [count : 0..MaxCount, epoch : Nat, floor : Nat, cooling : BOOLEAN,
          token : Requests \cup {None}, retired : BOOLEAN]

Permits == [epoch : Nat, probe : BOOLEAN]

\* received: the response was taken by its owner (ensemble_transport_owner_received).
Ownerships == [byObserver : BOOLEAN, settled : BOOLEAN, released : BOOLEAN, received : BOOLEAN]

Fresh == [byObserver |-> FALSE, settled |-> FALSE, released |-> FALSE, received |-> FALSE]

Replies == {"ok", "refused", "other", "failed"}

Healthy == [count |-> 0, epoch |-> 0, floor |-> 0, cooling |-> FALSE,
            token |-> None, retired |-> FALSE]

Init ==
    /\ lane = Healthy
    /\ permit = [r \in Requests |-> [epoch |-> 0, probe |-> FALSE]]
    /\ ownership = [r \in Requests |-> Fresh]
    /\ owner = [r \in Requests |-> "idle"]
    /\ transport = [r \in Requests |-> "none"]
    /\ observer = [r \in Requests |-> "none"]
    /\ barrier = {}
    /\ overtaken = {}

(***************************************************************************)
(* ProviderLaneHealthRegistry: what the lane becomes when attempt r does   *)
(* this to it.                                                             *)
(***************************************************************************)
Released(l, r) == IF ~l.retired /\ l.token = r THEN [l EXCEPT !.token = None] ELSE l

Cooled(l, r) == [Released(l, r) EXCEPT !.cooling = TRUE]

Advanced(l, r) ==
    [Cooled(l, r) EXCEPT !.count = IF l.count < MaxCount THEN l.count + 1 ELSE l.count,
                         !.epoch = l.epoch + 1]

\* Mutant: every refusal of a generation advances the ladder.
RefusedEachTime(l, r) ==
    IF l.retired \/ permit[r].epoch < l.floor THEN l ELSE Advanced(l, r)

\* Mutant: a refusal from before the last recovery counts as evidence.
RefusedFromBefore(l, r) ==
    IF l.retired THEN l
    ELSE IF permit[r].epoch >= l.epoch THEN Advanced(l, r) ELSE Cooled(l, r)

\* record_rate_limit
Refused(l, r) ==
    IF l.retired \/ permit[r].epoch < l.floor THEN l
    ELSE IF permit[r].epoch >= l.epoch THEN Advanced(l, r) ELSE Cooled(l, r)

\* record_success
Succeeded(l, r) ==
    CASE l.retired -> l
      [] ~l.retired /\ permit[r].epoch = l.epoch /\ permit[r].probe ->
            [Healthy EXCEPT !.epoch = l.epoch + 1, !.floor = l.epoch + 1]
      [] ~l.retired /\ permit[r].epoch = l.epoch /\ ~permit[r].probe /\ l.floor = 0 -> Healthy
      [] OTHER -> Released(l, r)

\* record_unresolved_abandonment
Fences(l, r) == permit[r].epoch >= l.floor /\ l.token = r

Retired(l) ==
    [l EXCEPT !.epoch = l.epoch + 1, !.count = IF l.count = 0 THEN 1 ELSE l.count,
              !.cooling = TRUE, !.token = None, !.retired = TRUE]

\* An epoch leaves behind whatever was admitted before it.
Overtake == overtaken' = IF lane'.epoch = lane.epoch THEN overtaken ELSE Requests

(***************************************************************************)
(* The owner of an attempt.                                                *)
(***************************************************************************)
\* acquire; deferred attempts change nothing.
Acquire(r) ==
    /\ owner[r] = "idle" /\ observer[r] = "none" /\ transport[r] # "running"
    /\ ClientOf[r] \notin barrier
    /\ lane.epoch < LastEpoch
    /\ ~lane.retired
    /\ LET probe == lane.count > 0
       IN /\ probe => ~lane.cooling /\ lane.token = None
          /\ lane' = IF probe THEN [lane EXCEPT !.token = r] ELSE lane
          /\ permit' = [permit EXCEPT ![r] = [epoch |-> lane.epoch, probe |-> probe]]
    /\ ownership' = [ownership EXCEPT ![r] = Fresh]
    /\ owner' = [owner EXCEPT ![r] = "admitted"]
    /\ transport' = [transport EXCEPT ![r] = "none"]
    /\ overtaken' = overtaken \ {r}
    /\ UNCHANGED <<observer, barrier>>

\* Mutant: the permit of an owner that was interrupted is simply released.
LeaveWithoutTransfer(r, l, received, detached) ==
    LET mine == ownership[r]
        frees == ~mine.released /\ (detached => mine.settled)
    IN /\ owner' = [owner EXCEPT ![r] = "idle"]
       /\ ownership' = [ownership EXCEPT ![r] = [byObserver |-> detached, settled |-> mine.settled,
                                                 released |-> mine.released \/ frees,
                                                 received |-> received]]
       /\ lane' = IF frees THEN Released(l, r) ELSE l

\* Mutant: a permit is handed to an observer that is already gone.
LeaveToTheDead(r, l, received, detached) ==
    LET mine == ownership[r]
        handed == detached \/ (permit[r].probe /\ transport[r] # "none" /\ ~received)
        frees == ~mine.released /\ ~handed
    IN /\ owner' = [owner EXCEPT ![r] = "idle"]
       /\ ownership' = [ownership EXCEPT ![r] = [byObserver |-> handed, settled |-> mine.settled,
                                                 released |-> mine.released \/ frees,
                                                 received |-> received]]
       /\ lane' = IF frees THEN Released(l, r) ELSE l

(***************************************************************************)
(* The `finally` of an attempt, on the lane l its handler left: the permit *)
(* is handed to the observer (transfer_to_observer) where the response was *)
(* not taken, and otherwise given back (settle_owner).                     *)
(***************************************************************************)
Leave(r, l, received, detached) ==
    LET mine == ownership[r]
        handed == detached \/ (permit[r].probe /\ transport[r] # "none" /\ ~received)
        frees == ~mine.released /\ (handed => mine.settled)
    IN /\ owner' = [owner EXCEPT ![r] = "idle"]
       /\ ownership' = [ownership EXCEPT ![r] = [byObserver |-> handed, settled |-> mine.settled,
                                                 released |-> mine.released \/ frees,
                                                 received |-> received]]
       /\ lane' = IF frees THEN Released(l, r) ELSE l

\* Waits before a retry; the permit is kept until the wait is over.
Sleep(r, received) ==
    /\ owner' = [owner EXCEPT ![r] = "sleeping"]
    /\ ownership' = [ownership EXCEPT ![r].received = received]
    /\ UNCHANGED lane

ByOwner == Overtake /\ UNCHANGED <<permit, transport, observer, barrier>>

\* notify_provider_dispatch_observer raises, or the call is cancelled in it.
Withdraw(r) ==
    /\ owner[r] = "admitted"
    /\ Leave(r, lane, FALSE, FALSE)
    /\ ByOwner

\* create_task(post) and _track_post_task.
Dispatch(r) ==
    /\ owner[r] = "admitted"
    /\ owner' = [owner EXCEPT ![r] = "waiting"]
    /\ transport' = [transport EXCEPT ![r] = "running"]
    /\ observer' = [observer EXCEPT ![r] = "watching"]
    /\ UNCHANGED <<lane, permit, ownership, barrier, overtaken>>

\* The owner takes the response: other is any status but 2xx and a retryable 429.
Receive(r) ==
    /\ owner[r] = "waiting"
    /\ \/ transport[r] = "ok" /\ Leave(r, Succeeded(lane, r), TRUE, FALSE)
       \/ transport[r] = "refused" /\ Leave(r, Refused(lane, r), TRUE, FALSE)
       \/ transport[r] = "other" /\ (Leave(r, lane, TRUE, FALSE) \/ Sleep(r, TRUE))
    /\ ByOwner

\* The request failed before a response, or its cancellation took effect.
Fail(r) ==
    /\ owner[r] = "waiting" /\ transport[r] = "failed"
    /\ Leave(r, lane, FALSE, FALSE) \/ Sleep(r, FALSE)
    /\ ByOwner

\* The hard timeout has passed and the request resists its cancellation.
Detach(r) ==
    /\ owner[r] = "waiting" /\ transport[r] = "running"
    /\ Leave(r, lane, FALSE, TRUE)
    /\ ByOwner

\* The owner is cancelled while it waits, whether or not the response is there.
CancelOwner(r) ==
    /\ owner[r] = "waiting"
    /\ Leave(r, lane, FALSE, FALSE)
    /\ ByOwner

\* The wait before the retry is over, or cancelled.
Wake(r) ==
    /\ owner[r] = "sleeping"
    /\ Leave(r, lane, ownership[r].received, FALSE)
    /\ ByOwner

(***************************************************************************)
(* The HTTP request, and the observer of its response.                     *)
(***************************************************************************)
Finish(r) ==
    /\ transport[r] = "running"
    /\ \E reply \in Replies : transport' = [transport EXCEPT ![r] = reply]
    /\ UNCHANGED <<lane, permit, ownership, owner, observer, barrier, overtaken>>

\* settle_observer, on the lane l the observer left.
SettleObserver(r, l) ==
    LET mine == ownership[r]
        frees == mine.byObserver /\ ~mine.released
    IN /\ observer' = [observer EXCEPT ![r] = "none"]
       /\ ownership' = [ownership EXCEPT ![r].settled = TRUE,
                                         ![r].released = mine.released \/ frees]
       /\ lane' = IF frees THEN Released(l, r) ELSE l

ByObserver == Overtake /\ UNCHANGED <<permit, owner, transport, barrier>>

\* Mutant: an observer whose request failed has nothing to settle.
ObserveOnlyResponses(r) ==
    /\ observer[r] = "watching"
    /\ transport[r] \in Replies
    /\ observer' = [observer EXCEPT ![r] = IF transport[r] = "failed" THEN "none" ELSE "dozing"]
    /\ lane' = IF transport[r] = "ok" THEN Succeeded(lane, r) ELSE lane
    /\ UNCHANGED ownership
    /\ ByObserver

Observe(r) ==
    /\ observer[r] = "watching"
    /\ \/ transport[r] = "failed" /\ SettleObserver(r, lane)
       \/ /\ transport[r] \in Replies \ {"failed"}
          /\ observer' = [observer EXCEPT ![r] = "dozing"]
          /\ lane' = IF transport[r] = "ok" THEN Succeeded(lane, r) ELSE lane
          /\ UNCHANGED ownership
    /\ ByObserver

\* A refusal nobody has taken is evidence all the same, unless the client is closed.
Conclude(r) ==
    /\ observer[r] = "dozing"
    /\ LET late == /\ transport[r] = "refused"
                   /\ ~ownership[r].received
                   /\ ClientOf[r] \notin barrier
       IN SettleObserver(r, IF late THEN Refused(lane, r) ELSE lane)
    /\ ByObserver

\* The cancellation of close is raised in the observer.
StopObserver(r) ==
    /\ observer[r] = "cancelled"
    /\ SettleObserver(r, lane)
    /\ ByObserver

(***************************************************************************)
(* Closing a client, after it has cancelled its requests.                  *)
(***************************************************************************)
Of(k) == {r \in Requests : ClientOf[r] = k}
Unresolved(k) == {r \in Of(k) : transport[r] = "running"}

\* Everything has ended and been observed.
Close(k) ==
    /\ k \notin barrier
    /\ \A r \in Of(k) : transport[r] # "running" /\ observer[r] = "none"
    /\ barrier' = barrier \cup {k}
    /\ UNCHANGED <<lane, requestVars, overtaken>>

\* Requests that resist: a half-open lane is retired, and the observers cancelled.
CloseUnresolved(k) ==
    /\ k \notin barrier
    /\ Unresolved(k) # {}
    /\ lane' = IF \E r \in Unresolved(k) : permit[r].probe /\ Fences(lane, r)
               THEN Retired(lane) ELSE lane
    /\ barrier' = barrier \cup {k}
    /\ observer' = [r \in Requests |->
                       IF ClientOf[r] = k /\ observer[r] # "none" THEN "cancelled" ELSE observer[r]]
    /\ Overtake
    /\ UNCHANGED <<permit, ownership, owner, transport>>

\* ready_at passes.
Elapse ==
    /\ lane.cooling
    /\ lane' = [lane EXCEPT !.cooling = FALSE]
    /\ UNCHANGED <<requestVars, barrier, overtaken>>

OwnerStep(r) == Withdraw(r) \/ Dispatch(r) \/ Receive(r) \/ Fail(r) \/ Wake(r)
ObserverStep(r) == Observe(r) \/ Conclude(r) \/ StopObserver(r)

Next ==
    \/ \E r \in Requests :
          Acquire(r) \/ OwnerStep(r) \/ Detach(r) \/ CancelOwner(r) \/ Finish(r) \/ ObserverStep(r)
    \/ \E k \in Clients : Close(k) \/ CloseUnresolved(k)
    \/ Elapse

Spec == Init /\ [][Next]_vars

\* The event loop runs what is ready, and every HTTP request ends.
FairSpec ==
    Spec /\ \A r \in Requests : WF_vars(OwnerStep(r)) /\ WF_vars(ObserverStep(r)) /\ WF_vars(Finish(r))

LaneTypeOK ==
    /\ lane \in Lanes
    /\ permit \in [Requests -> Permits]
    /\ ownership \in [Requests -> Ownerships]
    /\ owner \in [Requests -> {"idle", "admitted", "waiting", "sleeping"}]
    /\ transport \in [Requests -> {"none", "running"} \cup Replies]
    /\ observer \in [Requests -> {"none", "watching", "dozing", "cancelled"}]
    /\ barrier \subseteq Clients
    /\ overtaken \subseteq Requests

(***************************************************************************)
(* "Once the lease expires exactly one half-open request is admitted":     *)
(* two probes are never under way together, although their owners time     *)
(* out, are cancelled and leave them running, and clients close over them. *)
(***************************************************************************)
LoneProbe ==
    \A r, s \in Requests :
        (/\ permit[r].probe /\ transport[r] = "running"
         /\ permit[s].probe /\ transport[s] = "running") => r = s

(***************************************************************************)
(* A half-open lane waits for somebody: whoever holds its token will yet   *)
(* give it back, as the owner of the attempt or as its observer.  A token  *)
(* that neither gives back would defer every other client for the run.     *)
(***************************************************************************)
TokenIsHeld ==
    \A r \in Requests : lane.token = r =>
        /\ permit[r].probe /\ ~ownership[r].released
        /\ owner[r] # "idle" \/ (observer[r] # "none" /\ ownership[r].byObserver)

(***************************************************************************)
(* The back-off has one rung for each generation of refusals since the     *)
(* lane was last healthy, and a healthy lane neither cools down nor waits  *)
(* for a probe: late answers from before a recovery leave no trace.        *)
(***************************************************************************)
LadderAgrees ==
    ~lane.retired =>
        /\ lane.count < MaxCount => lane.epoch = lane.floor + lane.count
        /\ lane.count = 0 => ~lane.cooling /\ lane.token = None

(***************************************************************************)
(* What moves the lane to another epoch is the answer to an attempt that   *)
(* was admitted in the present one: refusals of attempts admitted together *)
(* count once, and neither a late success nor a late refusal undoes newer  *)
(* evidence.                                                               *)
(***************************************************************************)
FreshEvidence ==
    [][lane'.epoch # lane.epoch =>
          \E r \in Requests \ overtaken : owner'[r] # owner[r] \/ observer'[r] # observer[r]]_vars

(***************************************************************************)
(* A half-open lane does not stay half-open: its probe settles it or gives *)
(* the token back.                                                         *)
(***************************************************************************)
ProbeSettles == (lane.token # None) ~> (lane.token = None)

===============================================================================
