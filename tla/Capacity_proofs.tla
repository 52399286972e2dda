--------------------------- MODULE Capacity_proofs ---------------------------
(***************************************************************************)
(* What is proved of the capacity coordinator for every set of callers,    *)
(* dispatches, endpoints and configurations.  The argument is made about   *)
(* snapshots of state.json: every mutation turns a sound snapshot into a   *)
(* sound one, permit by permit, and the shared tail (Settle) is the        *)
(* composition of three such maps.                                         *)
(***************************************************************************)
EXTENDS Capacity, FiniteSetTheorems, TLAPS

\* The configurations of the groups.
Configuration == [Groups -> Policies \cup {NoPolicy}]

(***************************************************************************)
(* A sound snapshot: what CapacityTypeOK and ValidState say, of any        *)
(* permits, queue, configuration and next serial.                          *)
(***************************************************************************)
Placed(pp, pol, n) ==
    \A d \in Dispatches : pp[d].state # "absent" =>
        /\ pp[d].serial \in 1..(n - 1)
        /\ pp[d].endpoint \in Endpoints
        /\ pol[GroupIn(pp, d)] # NoPolicy
        /\ pp[d].endpoint \in DOMAIN pol[GroupIn(pp, d)].cap

Distinct(pp) ==
    \A d, w \in Dispatches :
        d # w /\ pp[d].state # "absent" /\ pp[w].state # "absent"
            => pp[d].serial # pp[w].serial

Well(p) == p \in PermitRecords /\ ValidPermit(p)

WellFormed(pp) == pp = [d \in Dispatches |-> pp[d]] /\ \A d \in Dispatches : Well(pp[d])

Waits(pp) == {d \in Dispatches : pp[d].state = "queued"}

Sound(pp, q, pol, n) ==
    WellFormed(pp) /\ q = Waits(pp) /\ Placed(pp, pol, n) /\ Distinct(pp)

\* A permit of a later snapshot is the same permit, or gone.
Follows(new, old) ==
    new.state # "absent" =>
        old.state # "absent" /\ new.endpoint = old.endpoint /\ new.serial = old.serial

(***************************************************************************)
(* The effects on one permit keep it well formed.                          *)
(***************************************************************************)
LEMMA StateSets ==
    /\ Slot \subseteq PermitStates /\ Terminal \subseteq PermitStates
    /\ Completable \subseteq Slot
    /\ "absent" \notin Slot \cup Terminal /\ "queued" \notin Slot \cup Terminal
    /\ Slot \cap Terminal = {}
BY DEF Slot, Completable, Terminal, PermitStates

LEMMA AbsentWell == Well(NoPermit)
<1>1. NoPermit \in PermitRecords
  BY DEF NoPermit, PermitRecords, PermitStates, Times, NoTime, Outcomes
<1>2. ValidPermit(NoPermit)
  BY DEF NoPermit, ValidPermit, Completable, Terminal, NoTime
<1> QED
  BY <1>1, <1>2 DEF Well

LEMMA CancelWell ==
    ASSUME NEW p, Well(p), p.state \in {"queued", "admitted"}
    PROVE  /\ Well(CancelBeforeDispatch(p)) /\ Follows(CancelBeforeDispatch(p), p)
           /\ CancelBeforeDispatch(p).state = "cancelled"
<1> DEFINE c == CancelBeforeDispatch(p)
<1>1. p \in PermitRecords /\ ValidPermit(p)
  BY DEF Well
<1>2. c \in PermitRecords
  BY <1>1 DEF CancelBeforeDispatch, PermitRecords, PermitStates, Terminal, Outcomes
<1>3. /\ c.state = "cancelled" /\ c.outcome = "cancelled_before_dispatch"
      /\ c.uncertain = FALSE /\ c.wasDispatched = p.wasDispatched
      /\ c.endpoint = p.endpoint /\ c.serial = p.serial
  BY <1>1 DEF CancelBeforeDispatch, PermitRecords
<1>4. p.wasDispatched = FALSE
  BY <1>1 DEF ValidPermit, Completable, Terminal
<1> HIDE DEF c
<1>5. ValidPermit(c)
  BY <1>3, <1>4 DEF ValidPermit, Completable, Terminal
<1> QED
  BY <1>2, <1>3, <1>5 DEF Well, Follows, c

\* The four changes to a permit that was, or is being, dispatched.
LEMMA UnknownWell ==
    ASSUME NEW p, Well(p), p.state = "dispatched"
    PROVE  /\ Well(BecomeUnknown(p)) /\ Follows(BecomeUnknown(p), p)
           /\ BecomeUnknown(p).state = "completion_unknown"
<1> DEFINE c == BecomeUnknown(p)
<1>1. p \in PermitRecords /\ ValidPermit(p)
  BY DEF Well
<1>2. c \in PermitRecords
  BY <1>1 DEF BecomeUnknown, PermitRecords, PermitStates, Slot
<1>3. /\ c.state = "completion_unknown" /\ c.uncertain = TRUE
      /\ c.outcome = p.outcome /\ c.wasDispatched = p.wasDispatched
      /\ c.requestDeadline = p.requestDeadline
      /\ c.endpoint = p.endpoint /\ c.serial = p.serial
  BY <1>1 DEF BecomeUnknown, PermitRecords
<1> HIDE DEF c
<1>4. ValidPermit(c)
  BY <1>1, <1>3 DEF ValidPermit, Completable, Terminal
<1> QED
  BY <1>2, <1>3, <1>4 DEF Well, Follows, c

LEMMA ReleasedWell ==
    ASSUME NEW p, Well(p), p.state \in Completable,
           NEW how \in {"capacity_released_unresolved", "released_by_verified_server_reset"}
    PROVE  /\ Well(Released(p, how)) /\ Follows(Released(p, how), p)
           /\ Released(p, how).state = "released"
<1> DEFINE c == Released(p, how)
<1>1. p \in PermitRecords /\ ValidPermit(p)
  BY DEF Well
<1>2. c \in PermitRecords
  BY <1>1 DEF Released, PermitRecords, PermitStates, Terminal, Outcomes
<1>3. /\ c.state = "released" /\ c.uncertain = TRUE /\ c.outcome = how
      /\ c.wasDispatched = p.wasDispatched /\ c.requestDeadline = p.requestDeadline
      /\ c.endpoint = p.endpoint /\ c.serial = p.serial
  BY <1>1 DEF Released, PermitRecords
<1> HIDE DEF c
<1>4. ValidPermit(c)
  BY <1>1, <1>3 DEF ValidPermit, Completable, Terminal
<1> QED
  BY <1>2, <1>3, <1>4 DEF Well, Follows, Completable, c

LEMMA CompletedWell ==
    ASSUME NEW p, Well(p), p.state \in Completable,
           NEW c, c = [p EXCEPT !.state = "completed", !.outcome = "completed",
                                !.uncertain = FALSE]
    PROVE  Well(c) /\ Follows(c, p) /\ c.state = "completed"
<1>1. p \in PermitRecords /\ ValidPermit(p)
  BY DEF Well
<1>2. c \in PermitRecords
  BY <1>1 DEF PermitRecords, PermitStates, Terminal, Outcomes
<1>3. /\ c.state = "completed" /\ c.uncertain = FALSE /\ c.outcome = "completed"
      /\ c.wasDispatched = p.wasDispatched /\ c.requestDeadline = p.requestDeadline
      /\ c.endpoint = p.endpoint /\ c.serial = p.serial
  BY <1>1 DEF PermitRecords
<1>4. ValidPermit(c)
  BY <1>1, <1>3 DEF ValidPermit, Completable, Terminal
<1> QED
  BY <1>2, <1>3, <1>4 DEF Well, Follows, Completable

LEMMA CancelRequestedWell ==
    ASSUME NEW p, Well(p), p.state = "dispatched",
           NEW c, c = [p EXCEPT !.state = "cancel_requested", !.uncertain = TRUE]
    PROVE  Well(c) /\ Follows(c, p) /\ c.state = "cancel_requested"
<1>1. p \in PermitRecords /\ ValidPermit(p)
  BY DEF Well
<1>2. c \in PermitRecords
  BY <1>1 DEF PermitRecords, PermitStates, Slot
<1>3. /\ c.state = "cancel_requested" /\ c.uncertain = TRUE /\ c.outcome = p.outcome
      /\ c.wasDispatched = p.wasDispatched /\ c.requestDeadline = p.requestDeadline
      /\ c.endpoint = p.endpoint /\ c.serial = p.serial
  BY <1>1 DEF PermitRecords
<1>4. ValidPermit(c)
  BY <1>1, <1>3 DEF ValidPermit, Completable, Terminal
<1> QED
  BY <1>2, <1>3, <1>4 DEF Well, Follows

LEMMA DispatchedWell ==
    ASSUME NEW p, Well(p), p.state = "admitted", NEW s \in Servers \cup {None},
           NEW c, c = [p EXCEPT !.state = "dispatched", !.wasDispatched = TRUE,
                                !.server = s, !.uncertain = FALSE]
    PROVE  Well(c) /\ Follows(c, p) /\ c.state = "dispatched"
<1>1. p \in PermitRecords /\ ValidPermit(p)
  BY DEF Well
<1>2. c \in PermitRecords
  BY <1>1 DEF PermitRecords, PermitStates, Slot
<1>3. /\ c.state = "dispatched" /\ c.uncertain = FALSE /\ c.outcome = p.outcome
      /\ c.wasDispatched = TRUE /\ c.requestDeadline = p.requestDeadline
      /\ c.endpoint = p.endpoint /\ c.serial = p.serial
  BY <1>1 DEF PermitRecords
<1>4. ValidPermit(c)
  BY <1>1, <1>3 DEF ValidPermit, Completable, Terminal
<1> QED
  BY <1>2, <1>3, <1>4 DEF Well, Follows

\* A permit whose request deadline passed before its dispatch.
LEMMA ExpiredWell ==
    ASSUME NEW p, Well(p), p.state = "admitted",
           NEW c, c = [p EXCEPT !.state = "expired_before_dispatch",
                                !.outcome = "expired_before_dispatch", !.uncertain = FALSE]
    PROVE  Well(c) /\ Follows(c, p) /\ c.state = "expired_before_dispatch"
<1>1. p \in PermitRecords /\ ValidPermit(p)
  BY DEF Well
<1>2. c \in PermitRecords
  BY <1>1 DEF PermitRecords, PermitStates, Terminal, Outcomes
<1>3. /\ c.state = "expired_before_dispatch" /\ c.uncertain = FALSE
      /\ c.outcome = "expired_before_dispatch"
      /\ c.wasDispatched = p.wasDispatched /\ c.requestDeadline = p.requestDeadline
      /\ c.endpoint = p.endpoint /\ c.serial = p.serial
  BY <1>1 DEF PermitRecords
<1>4. ValidPermit(c)
  BY <1>1, <1>3 DEF ValidPermit, Completable, Terminal
<1> QED
  BY <1>2, <1>3, <1>4 DEF Well, Follows

\* Promotion gives the present configuration and a fresh deadline.
Promoted(p, now, deadline) ==
    [p EXCEPT !.state = "admitted", !.bound = now, !.requestDeadline = deadline]

LEMMA PromotedWell ==
    ASSUME NEW p, Well(p), p.state = "queued", NEW now \in Policies, NEW deadline \in Nat
    PROVE  LET c == Promoted(p, now, deadline)
           IN /\ Well(c) /\ Follows(c, p) /\ c.state = "admitted"
              /\ c.requestDeadline = deadline
<1> DEFINE c == Promoted(p, now, deadline)
<1>1. p \in PermitRecords /\ ValidPermit(p)
  BY DEF Well
<1>2. deadline # NoTime /\ deadline \in Times
  BY DEF NoTime, Times
<1>3. c \in PermitRecords
  BY <1>1, <1>2 DEF PermitRecords, PermitStates, Slot, Promoted
<1>4. /\ c.state = "admitted" /\ c.uncertain = p.uncertain /\ c.outcome = p.outcome
      /\ c.wasDispatched = p.wasDispatched /\ c.requestDeadline = deadline
      /\ c.endpoint = p.endpoint /\ c.serial = p.serial
  BY <1>1 DEF PermitRecords, Promoted
<1> HIDE DEF c
<1>5. ValidPermit(c)
  BY <1>1, <1>2, <1>4 DEF ValidPermit, Completable, Terminal
<1> QED
  BY <1>3, <1>4, <1>5 DEF Well, Follows, c

(***************************************************************************)
(* Snapshots.                                                              *)
(***************************************************************************)
LEMMA FollowsSound ==
    ASSUME NEW pp, NEW q, NEW pol, NEW n, Sound(pp, q, pol, n),
           NEW pp2, WellFormed(pp2), \A d \in Dispatches : Follows(pp2[d], pp[d])
    PROVE  Sound(pp2, Waits(pp2), pol, n)
<1>1. Placed(pp2, pol, n)
  BY DEF Sound, Placed, Follows, GroupIn
<1>2. Distinct(pp2)
  BY DEF Sound, Distinct, Follows
<1> QED
  BY <1>1, <1>2 DEF Sound

\* A waiting permit of a sound snapshot is at an endpoint of a registered group.
LEMMA PlacedGroup ==
    ASSUME NEW pp, NEW q, NEW pol \in Configuration, NEW n, Sound(pp, q, pol, n),
           NEW d \in Dispatches, pp[d].state # "absent"
    PROVE  /\ pp[d].endpoint \in Endpoints /\ GroupIn(pp, d) \in Groups
           /\ pol[GroupIn(pp, d)] \in Policies
<1>1. pp[d].endpoint \in Endpoints
  BY DEF Sound, Placed
<1> QED
  BY <1>1, CoordinatorAssumption DEF Sound, Placed, GroupIn, Configuration

\* The states no tail step produces.
Active == {"queued", "admitted", "dispatched"}

(***************************************************************************)
(* The tail of every path that can free a slot.                            *)
(***************************************************************************)
\* What expiry makes of each permit.
Expires(due, pp, gs, t) ==
    \A d \in Dispatches :
        /\ Follows(due[d], pp[d])
        /\ due[d].state \in Active => due[d] = pp[d]
        /\ pp[d].state \in Completable => due[d].state \in Completable
        /\ due[d].state = "admitted" /\ GroupIn(pp, d) \in gs => ~RequestDue(pp[d], t)

LEMMA ExpireSound ==
    ASSUME NEW pp, NEW q, NEW pol, NEW n, Sound(pp, q, pol, n), NEW gs, NEW t
    PROVE  /\ Sound(Expire(pp, q, gs, t), q \ DueWaiting(pp, q, gs, t), pol, n)
           /\ Expires(Expire(pp, q, gs, t), pp, gs, t)
<1> DEFINE due == Expire(pp, q, gs, t)
           late == DueWaiting(pp, q, gs, t)
<1>1. \A d \in late : d \in Dispatches /\ pp[d].state = "queued"
  BY DEF DueWaiting, Sound, Waits
<1>2. ASSUME NEW d \in Dispatches
      PROVE  /\ Well(due[d]) /\ Follows(due[d], pp[d])
             /\ due[d].state \in Active => due[d] = pp[d]
             /\ due[d].state = "admitted" /\ GroupIn(pp, d) \in gs => ~RequestDue(pp[d], t)
             /\ due[d].state = "queued" <=> pp[d].state = "queued" /\ d \notin late
             /\ pp[d].state \in Completable => due[d].state \in Completable
  <2>1. Well(pp[d])
    BY DEF Sound, WellFormed
  <2>2. CASE d \in late
    <3>1. due[d] = CancelBeforeDispatch(pp[d])
      BY <1>1, <2>2 DEF Expire
    <3>2. pp[d].state = "queued"
      BY <1>1, <2>2
    <3> HIDE DEF due, late
    <3> QED
      BY <2>1, <2>2, <3>1, <3>2, CancelWell DEF Completable, Active
  <2>3. CASE d \notin late /\ pp[d].state = "admitted" /\ GroupIn(pp, d) \in gs
                /\ RequestDue(pp[d], t)
    <3>1. due[d] = [pp[d] EXCEPT !.state = "expired_before_dispatch",
                                 !.outcome = "expired_before_dispatch",
                                 !.uncertain = FALSE]
      BY <2>3 DEF Expire
    <3> QED
      BY <2>1, <2>3, <3>1, ExpiredWell DEF Completable, Active
  <2>4. CASE d \notin late /\ pp[d].state = "dispatched" /\ GroupIn(pp, d) \in gs
                /\ RequestDue(pp[d], t)
    <3>1. due[d] = BecomeUnknown(pp[d])
      BY <2>4 DEF Expire
    <3> QED
      BY <2>1, <2>4, <3>1, UnknownWell DEF Completable, Active
  <2>5. CASE d \notin late /\ ~(pp[d].state \in {"admitted", "dispatched"}
                               /\ GroupIn(pp, d) \in gs /\ RequestDue(pp[d], t))
    <3>1. due[d] = pp[d]
      BY <2>5 DEF Expire
    <3> QED
      BY <2>1, <2>5, <3>1 DEF Follows
  <2> QED
    BY <2>2, <2>3, <2>4, <2>5
<1>3. WellFormed(due)
  <2>1. due = [d \in Dispatches |-> due[d]]
    BY DEF Expire
  <2> HIDE DEF due
  <2> QED
    BY <1>2, <2>1 DEF WellFormed
<1> HIDE DEF due, late
<1>4. Waits(due) = q \ late
  BY <1>2 DEF Waits, Sound
<1>5. Sound(due, q \ late, pol, n)
  BY <1>2, <1>3, <1>4, FollowsSound
<1>6. Expires(due, pp, gs, t)
  BY <1>2 DEF Expires
<1> QED
  BY <1>5, <1>6 DEF due, late

\* What promotion makes of each permit.
Promotion(after, pp, pol, won, t) ==
    \A d \in Dispatches :
        /\ Follows(after[d], pp[d])
        /\ d \notin won => after[d] = pp[d]
        /\ d \in won => /\ after[d].state = "admitted"
                        /\ after[d].requestDeadline = t + pol[GroupIn(pp, d)].requestTimeout

LEMMA AdmitSound ==
    ASSUME NEW pp, NEW q, NEW pol \in Configuration, NEW n, Sound(pp, q, pol, n),
           NEW won \in SUBSET q, NEW t \in Nat
    PROVE  /\ Sound(Admit(pp, pol, won, t), q \ won, pol, n)
           /\ Promotion(Admit(pp, pol, won, t), pp, pol, won, t)
<1> DEFINE after == Admit(pp, pol, won, t)
<1>1. ASSUME NEW d \in Dispatches
      PROVE  /\ Well(after[d]) /\ Follows(after[d], pp[d])
             /\ d \notin won => after[d] = pp[d]
             /\ d \in won => /\ after[d].state = "admitted"
                             /\ after[d].requestDeadline
                                   = t + pol[GroupIn(pp, d)].requestTimeout
  <2>1. Well(pp[d])
    BY DEF Sound, WellFormed
  <2>2. CASE d \in won
    <3>1. pp[d].state = "queued"
      BY <2>2 DEF Sound, Waits
    <3> DEFINE old == pp[d]
               settings == pol[GroupIn(pp, d)]
               due == t + settings.requestTimeout
               new == after[d]
    <3>2. settings \in Policies
      BY <3>1, PlacedGroup
    <3>3. due \in Nat
      <4> HIDE DEF settings
      <4> QED
        BY <3>2, CoordinatorAssumption DEF IsPolicy
    <3>4. new = Promoted(old, settings, due)
      BY <2>2 DEF Admit, Promoted
    <3>5. Well(old) /\ old.state = "queued"
      BY <2>1, <3>1
    <3> HIDE DEF old, settings, due, new
    <3>6. /\ Well(new) /\ Follows(new, old) /\ new.state = "admitted"
          /\ new.requestDeadline = due
      BY <3>2, <3>3, <3>4, <3>5, PromotedWell
    <3> HIDE DEF after
    <3> QED
      BY <2>2, <3>6 DEF old, settings, due, new
  <2>3. CASE d \notin won
    BY <2>1, <2>3 DEF Admit, Follows
  <2> QED
    BY <2>2, <2>3
<1>2. WellFormed(after)
  BY <1>1 DEF WellFormed, Admit
<1> HIDE DEF after
<1>3. Waits(after) = q \ won
  BY <1>1 DEF Waits, Sound
<1>4. Promotion(after, pp, pol, won, t)
  BY <1>1 DEF Promotion
<1>5. Sound(after, q \ won, pol, n)
  BY <1>1, <1>2, <1>3, FollowsSound
<1> QED
  BY <1>4, <1>5 DEF after

\* Pruning forgets some terminal permits.
Pruning(kept, pp) ==
    \A d \in Dispatches :
        kept[d] = pp[d] \/ (pp[d].state \in Terminal /\ kept[d] = NoPermit)

LEMMA PruneSound ==
    ASSUME NEW pp, NEW q, NEW pol, NEW n, Sound(pp, q, pol, n), NEW gs, NEW limit
    PROVE  /\ Sound(Prune(pp, gs, limit), q, pol, n)
           /\ Pruning(Prune(pp, gs, limit), pp)
<1> DEFINE kept == Prune(pp, gs, limit)
<1>1. ASSUME NEW d \in Dispatches
      PROVE  /\ Well(kept[d]) /\ Follows(kept[d], pp[d])
             /\ pp[d].state \notin Terminal => kept[d] = pp[d]
             /\ kept[d] \in {pp[d], NoPermit}
  <2>1. Well(pp[d])
    BY DEF Sound, WellFormed
  <2>2. kept[d] \in {pp[d], NoPermit} /\ (pp[d].state \notin Terminal => kept[d] = pp[d])
    BY DEF Prune
  <2>3. NoPermit.state = "absent"
    BY DEF NoPermit
  <2> HIDE DEF kept
  <2> QED
    BY <2>1, <2>2, <2>3, AbsentWell DEF Follows
<1>2. WellFormed(kept)
  BY <1>1 DEF WellFormed, Prune
<1> HIDE DEF kept
<1>3. Waits(kept) = q
  BY <1>1 DEF Waits, Sound, Terminal, NoPermit
<1>4. Sound(kept, q, pol, n)
  BY <1>1, <1>2, <1>3, FollowsSound
<1>5. Pruning(kept, pp)
  BY <1>1 DEF Pruning
<1> QED
  BY <1>4, <1>5 DEF kept

(***************************************************************************)
(* What the tail makes of a sound snapshot: nothing starts or ends on the  *)
(* server, what is still admitted is not due, and what is promoted was     *)
(* waiting in time.                                                        *)
(***************************************************************************)
LEMMA SettleEffect ==
    ASSUME NEW pp, NEW q, NEW pol \in Configuration, NEW n, Sound(pp, q, pol, n),
           NEW gs, NEW t \in Nat, Settle(pp, q, pol, gs, t)
    PROVE  /\ Sound(permit', queue', pol, n)
           /\ \A d \in Dispatches : Follows(permit'[d], pp[d])
           /\ \A d \in Dispatches :
                 /\ pp[d].state \in Completable => permit'[d].state \in Completable
                 /\ permit'[d].state = "dispatched" => pp[d].state = "dispatched"
                 /\ permit'[d].state = "admitted" =>
                       \/ /\ pp[d].state = "admitted"
                          /\ permit'[d] = pp[d]
                          /\ GroupIn(pp, d) \in gs => ~RequestDue(pp[d], t)
                       \/ /\ pp[d].state = "queued"
                          /\ ~QueueDue(pp[d], t)
                          /\ permit'[d].requestDeadline
                                = t + pol[GroupIn(pp, d)].requestTimeout
<1> DEFINE due == Expire(pp, q, gs, t)
           waiting == q \ DueWaiting(pp, q, gs, t)
<1>1. PICK won \in SUBSET waiting :
          /\ Promotes(due, pol, waiting, gs, won)
          /\ permit' = Prune(Admit(due, pol, won, t), gs, Tombstones)
          /\ queue' = waiting \ won
  BY DEF Settle
<1> DEFINE after == Admit(due, pol, won, t)
<1>2. Sound(due, waiting, pol, n) /\ Expires(due, pp, gs, t)
  BY ExpireSound
<1>3. \A d \in won : /\ d \in Dispatches /\ due[d] = pp[d] /\ pp[d].state = "queued"
                     /\ GroupIn(pp, d) \in gs /\ ~QueueDue(pp[d], t)
  <2> SUFFICES ASSUME NEW d \in won
               PROVE  /\ d \in Dispatches /\ due[d] = pp[d] /\ pp[d].state = "queued"
                      /\ GroupIn(pp, d) \in gs /\ ~QueueDue(pp[d], t)
    OBVIOUS
  <2>1. d \in waiting /\ d \in q /\ d \notin DueWaiting(pp, q, gs, t)
    OBVIOUS
  <2>2. GroupIn(due, d) \in gs
    BY <1>1, <2>1 DEF Promotes
  <2>3. d \in Dispatches /\ due[d].state = "queued" /\ pp[d].state = "queued"
    BY <1>2, <2>1 DEF Sound, Waits
  <2> HIDE DEF due, waiting
  <2>4. due[d] = pp[d]
    BY <1>2, <2>3 DEF Expires, Active
  <2>5. GroupIn(pp, d) \in gs
    BY <2>2, <2>4 DEF GroupIn
  <2> QED
    BY <2>1, <2>3, <2>4, <2>5 DEF DueWaiting
<1> HIDE DEF due, waiting
<1>4. Sound(after, waiting \ won, pol, n) /\ Promotion(after, due, pol, won, t)
  BY <1>2, AdmitSound
<1> HIDE DEF after
<1>5. Sound(permit', waiting \ won, pol, n) /\ Pruning(permit', after)
  <2>1. permit' = Prune(after, gs, Tombstones)
    BY <1>1 DEF after
  <2> QED
    BY <1>4, <2>1, PruneSound
<1>6. NoPermit.state = "absent"
  BY DEF NoPermit
<1>7. ASSUME NEW d \in Dispatches
      PROVE  /\ Follows(permit'[d], pp[d])
             /\ pp[d].state \in Completable => permit'[d].state \in Completable
             /\ permit'[d].state = "dispatched" => pp[d].state = "dispatched"
  <2>1. Follows(permit'[d], pp[d])
    BY <1>2, <1>4, <1>5, <1>6 DEF Expires, Promotion, Pruning, Follows
  <2>2. pp[d].state \in Completable => permit'[d].state \in Completable
    BY <1>2, <1>3, <1>4, <1>5
    DEF Expires, Promotion, Pruning, Completable, Terminal
  <2>3. permit'[d].state = "dispatched" => pp[d].state = "dispatched"
    BY <1>2, <1>4, <1>5, <1>6 DEF Expires, Promotion, Pruning, Active
  <2> QED
    BY <2>1, <2>2, <2>3
<1>8. ASSUME NEW d \in Dispatches, permit'[d].state = "admitted"
      PROVE  \/ /\ pp[d].state = "admitted"
                /\ permit'[d] = pp[d]
                /\ GroupIn(pp, d) \in gs => ~RequestDue(pp[d], t)
             \/ /\ pp[d].state = "queued"
                /\ ~QueueDue(pp[d], t)
                /\ permit'[d].requestDeadline = t + pol[GroupIn(pp, d)].requestTimeout
  <2>1. permit'[d] = after[d]
    BY <1>5, <1>6, <1>8 DEF Pruning
  <2>2. CASE d \in won
    BY <1>3, <1>4, <2>1, <2>2 DEF Promotion, GroupIn
  <2>3. CASE d \notin won
    BY <1>2, <1>4, <1>8, <2>1, <2>3 DEF Expires, Promotion, Active
  <2> QED
    BY <2>2, <2>3
<1> QED
  BY <1>1, <1>5, <1>7, <1>8

(***************************************************************************)
(* Room.  An endpoint has no more room when more permits hold slots of its *)
(* group, so an entry the walk stepped over finds none afterwards, and one *)
(* the walk admitted leaves none older waiting for the same endpoint.      *)
(***************************************************************************)
LEMMA RoomShrinks ==
    ASSUME NEW pol \in Configuration, NEW e \in Endpoints,
           pol[GroupOf[e]] \in Policies, e \in DOMAIN pol[GroupOf[e]].cap,
           NEW pp, NEW few \in SUBSET Dispatches, NEW qq, NEW many \in SUBSET Dispatches,
           \A d \in Dispatches :
              /\ GroupIn(pp, d) = GroupOf[e]
              /\ pp[d].state \in Slot \/ d \in few
              => /\ qq[d].endpoint = pp[d].endpoint
                 /\ qq[d].state \in Slot \/ d \in many,
           RoomBeside(qq, pol, many, e)
    PROVE  RoomBeside(pp, pol, few, e)
<1> DEFINE g == GroupOf[e]
           ppOf == SlotsOf(pp, g) \cup {d \in few : GroupIn(pp, d) = g}
           qqOf == SlotsOf(qq, g) \cup {d \in many : GroupIn(qq, d) = g}
           ppAt == SlotsAt(pp, e) \cup {d \in few : pp[d].endpoint = e}
           qqAt == SlotsAt(qq, e) \cup {d \in many : qq[d].endpoint = e}
           limit == pol[g].maxInflight
           cap == pol[g].cap[e]
<1>1. ppOf \subseteq qqOf /\ ppAt \subseteq qqAt
  BY DEF SlotsOf, SlotsAt, GroupIn
<1>2. qqOf \subseteq Dispatches /\ qqAt \subseteq Dispatches
  BY DEF SlotsOf, SlotsAt
<1>3. limit \in Nat /\ cap \in Nat
  BY CoordinatorAssumption DEF IsPolicy
<1>4. Cardinality(qqOf) < limit /\ Cardinality(qqAt) < cap
  BY DEF RoomBeside
<1> HIDE DEF ppOf, qqOf, ppAt, qqAt, limit, cap
<1>5. IsFiniteSet(qqOf) /\ IsFiniteSet(qqAt)
  BY <1>2, CoordinatorAssumption, FS_Subset
<1>6. /\ Cardinality(ppOf) \in Nat /\ Cardinality(qqOf) \in Nat
      /\ Cardinality(ppOf) <= Cardinality(qqOf)
  BY <1>1, <1>5, FS_Subset, FS_CardinalityType
<1>7. /\ Cardinality(ppAt) \in Nat /\ Cardinality(qqAt) \in Nat
      /\ Cardinality(ppAt) <= Cardinality(qqAt)
  BY <1>1, <1>5, FS_Subset, FS_CardinalityType
<1>8. Cardinality(ppOf) < limit /\ Cardinality(ppAt) < cap
  BY <1>3, <1>4, <1>6, <1>7
<1> QED
  BY <1>8 DEF RoomBeside, ppOf, ppAt, limit, cap

\* An entry that waits for a full endpoint still does when no slot is given up.
LEMMA KeepsFull ==
    ASSUME NEW pp, NEW q, NEW pol \in Configuration, NEW n, Sound(pp, q, pol, n),
           NEW d \in Dispatches, pp[d].state # "absent", NEW qq,
           \A b \in Dispatches :
              pp[b].state \in Slot /\ GroupIn(pp, b) = GroupIn(pp, d) =>
                  qq[b].state \in Slot /\ qq[b].endpoint = pp[b].endpoint,
           ~HasRoom(pp, pol, pp[d].endpoint)
    PROVE  ~HasRoom(qq, pol, pp[d].endpoint)
<1> DEFINE e == pp[d].endpoint
<1>1. e \in Endpoints /\ pol[GroupOf[e]] \in Policies /\ e \in DOMAIN pol[GroupOf[e]].cap
  BY PlacedGroup DEF GroupIn, Sound, Placed
<1>2. GroupIn(pp, d) = GroupOf[e]
  BY DEF GroupIn
<1> HIDE DEF e
<1>3. RoomBeside(qq, pol, {}, e) => RoomBeside(pp, pol, {}, e)
  BY <1>1, <1>2, RoomShrinks
<1> QED
  BY <1>3 DEF HasRoom, e

\* What the tail leaves of the room, in the groups it settles and in the others.
LEMMA SettleRoom ==
    ASSUME NEW pp, NEW q, NEW pol \in Configuration, NEW n, Sound(pp, q, pol, n),
           NEW gs, NEW t \in Nat, Settle(pp, q, pol, gs, t)
    PROVE  /\ \A d \in queue' :
                 /\ d \in q /\ permit'[d].endpoint = pp[d].endpoint
                 /\ GroupIn(pp, d) \in gs => ~HasRoom(permit', pol, pp[d].endpoint)
           /\ \A d \in Dispatches :
                 pp[d].state \in Slot /\ GroupIn(pp, d) \notin gs => permit'[d] = pp[d]
           /\ \A d \in Dispatches, w \in queue' :
                 /\ pp[d].state \notin Slot /\ permit'[d].state \in Slot
                 /\ permit'[w].endpoint = permit'[d].endpoint
                 => ~(permit'[w].serial < permit'[d].serial)
<1> DEFINE due == Expire(pp, q, gs, t)
           waiting == q \ DueWaiting(pp, q, gs, t)
<1>1. PICK won \in SUBSET waiting :
          /\ Promotes(due, pol, waiting, gs, won)
          /\ permit' = Prune(Admit(due, pol, won, t), gs, Tombstones)
          /\ queue' = waiting \ won
  BY DEF Settle
<1> DEFINE after == Admit(due, pol, won, t)
<1>2. Sound(due, waiting, pol, n) /\ Expires(due, pp, gs, t)
  BY ExpireSound
<1>3. \A d \in Dispatches : /\ due[d].state \in Slot => pp[d].state \in Slot
                            /\ GroupIn(pp, d) \notin gs => due[d] = pp[d]
  <2> SUFFICES ASSUME NEW d \in Dispatches
               PROVE  /\ due[d].state \in Slot => pp[d].state \in Slot
                      /\ GroupIn(pp, d) \notin gs => due[d] = pp[d]
    OBVIOUS
  <2>1. GroupIn(pp, d) \notin gs => due[d] = pp[d]
    BY DEF Expire, DueWaiting
  <2>2. \/ due[d] = pp[d] \/ pp[d].state \in Slot
        \/ due[d] = CancelBeforeDispatch(pp[d])
    BY DEF Expire, Slot
  <2>3. pp[d] \in PermitRecords
    BY DEF Sound, WellFormed, Well
  <2>4. CancelBeforeDispatch(pp[d]).state = "cancelled"
    BY <2>3 DEF CancelBeforeDispatch, PermitRecords
  <2> HIDE DEF due
  <2> QED
    BY <2>1, <2>2, <2>4 DEF Slot
<1> HIDE DEF due, waiting
<1>4. Sound(after, waiting \ won, pol, n) /\ Promotion(after, due, pol, won, t)
  BY <1>2, AdmitSound
<1> HIDE DEF after
<1>5. Pruning(permit', after)
  <2>1. permit' = Prune(after, gs, Tombstones)
    BY <1>1 DEF after
  <2> QED
    BY <1>4, <2>1, PruneSound
<1>6. ASSUME NEW d \in Dispatches, due[d].state \in Slot \/ d \in won
      PROVE  permit'[d] = after[d] /\ permit'[d].state \in Slot
             /\ permit'[d].endpoint = due[d].endpoint /\ permit'[d].serial = due[d].serial
  <2>1. after[d].state \in Slot
    BY <1>4, <1>6 DEF Promotion, Slot
  <2>2. permit'[d] = after[d]
    BY <1>5, <2>1, StateSets DEF Pruning
  <2> QED
    BY <1>4, <2>1, <2>2, StateSets DEF Promotion, Follows
<1>7. ASSUME NEW d \in queue'
      PROVE  /\ d \in Dispatches /\ d \in waiting /\ d \in q /\ d \notin won
             /\ due[d] = pp[d] /\ permit'[d] = due[d]
             /\ pp[d].endpoint \in Endpoints /\ pol[GroupIn(pp, d)] \in Policies
             /\ pp[d].endpoint \in DOMAIN pol[GroupIn(pp, d)].cap
  <2>1. d \in waiting /\ d \notin won
    BY <1>1, <1>7
  <2>2. d \in Dispatches /\ due[d].state = "queued"
    BY <1>2, <2>1 DEF Sound, Waits
  <2>3. due[d] = pp[d]
    BY <1>2, <2>2 DEF Expires, Active
  <2>4. after[d] = due[d]
    BY <1>4, <2>1, <2>2 DEF Promotion
  <2>5. permit'[d] = due[d]
    BY <1>5, <2>2, <2>4 DEF Pruning, Terminal
  <2>6. /\ pp[d].endpoint \in Endpoints /\ pol[GroupIn(pp, d)] \in Policies
        /\ pp[d].endpoint \in DOMAIN pol[GroupIn(pp, d)].cap
    BY <2>2, <2>3, PlacedGroup DEF Sound, Placed
  <2> QED
    BY <2>1, <2>2, <2>3, <2>5, <2>6 DEF waiting
<1>8. won \subseteq Dispatches
  BY <1>2 DEF Sound, Waits
<1>9. ASSUME NEW d \in queue', GroupIn(pp, d) \in gs
      PROVE  ~RoomBeside(due, pol, Before(due, won, d), pp[d].endpoint)
  BY <1>1, <1>7, <1>9 DEF Promotes, GroupIn
<1>10. ASSUME NEW d \in queue', GroupIn(pp, d) \in gs,
              HasRoom(permit', pol, pp[d].endpoint)
       PROVE  FALSE
  <2> DEFINE e == pp[d].endpoint
             few == Before(due, won, d)
  <2>1. few \in SUBSET Dispatches /\ few \subseteq won
    BY <1>8 DEF Before
  <2>2. e \in Endpoints /\ pol[GroupOf[e]] \in Policies /\ e \in DOMAIN pol[GroupOf[e]].cap
    BY <1>7 DEF GroupIn
  <2> HIDE DEF few
  <2>3. ASSUME NEW b \in Dispatches, due[b].state \in Slot \/ b \in few
        PROVE  permit'[b].endpoint = due[b].endpoint /\ permit'[b].state \in Slot
    BY <1>6, <2>1, <2>3
  <2>4. RoomBeside(permit', pol, {}, e)
    BY <1>10 DEF HasRoom
  <2>5. RoomBeside(due, pol, few, e)
    <3> HIDE DEF e
    <3> QED
      BY <2>1, <2>2, <2>3, <2>4, RoomShrinks
  <2> QED
    BY <1>9, <1>10, <2>5 DEF few
<1>11. ASSUME NEW d \in Dispatches, pp[d].state \in Slot, GroupIn(pp, d) \notin gs
       PROVE  permit'[d] = pp[d]
  <2>1. due[d] = pp[d]
    BY <1>3, <1>11
  <2>2. d \notin waiting
    BY <1>2, <1>11, <2>1, StateSets DEF Sound, Waits
  <2>3. after[d] = due[d]
    BY <1>4, <2>2 DEF Promotion
  <2> QED
    BY <1>6, <1>11, <2>1, <2>3
<1>12. ASSUME NEW d \in Dispatches, NEW w \in queue',
              pp[d].state \notin Slot, permit'[d].state \in Slot,
              permit'[w].endpoint = permit'[d].endpoint,
              permit'[w].serial < permit'[d].serial
       PROVE  FALSE
  <2>1. d \in won
    <3>1. permit'[d] = after[d]
      BY <1>5, <1>12, StateSets DEF Pruning, NoPermit
    <3> QED
      BY <1>3, <1>4, <1>12, <3>1 DEF Promotion
  <2> DEFINE e == due[d].endpoint
             few == Before(due, won, w)
             many == Before(due, won, d)
  <2>2. /\ GroupIn(due, d) \in gs /\ RoomBeside(due, pol, many, e)
    BY <1>1, <2>1 DEF Promotes
  <2>3. permit'[d].endpoint = due[d].endpoint /\ permit'[d].serial = due[d].serial
    BY <1>6, <2>1
  <2>4. /\ w \in Dispatches /\ due[w] = pp[w]
        /\ due[w].endpoint = e /\ due[w].serial < due[d].serial
    BY <1>7, <1>12, <2>3
  <2>5. \A b \in Dispatches : due[b].serial \in Nat
    BY <1>2 DEF Sound, WellFormed, Well, PermitRecords
  <2>6. few \subseteq many /\ few \in SUBSET Dispatches /\ many \in SUBSET Dispatches
    BY <1>8, <2>4, <2>5 DEF Before
  <2>7. e \in Endpoints /\ pol[GroupOf[e]] \in Policies /\ e \in DOMAIN pol[GroupOf[e]].cap
    BY <1>7, <2>4 DEF GroupIn
  <2>8. GroupIn(pp, w) \in gs
    BY <2>2, <2>4 DEF GroupIn
  <2>9. ~RoomBeside(due, pol, few, e)
    BY <1>9, <2>4, <2>8
  <2> HIDE DEF e, few, many
  <2>10. RoomBeside(due, pol, few, e)
    BY <2>2, <2>6, <2>7, RoomShrinks
  <2> QED
    BY <2>9, <2>10
<1> QED
  BY <1>7, <1>10, <1>11, <1>12

(***************************************************************************)
(* The inductive invariant.  A pending call is no older than Lag, and no   *)
(* permit still admitted is due at the second a pending call began: its    *)
(* first half expired those that were, and whatever was admitted since     *)
(* has a deadline a whole request timeout, more than Lag, ahead.  Nobody   *)
(* waits who could be admitted, which is also why a newcomer that finds a  *)
(* slot free passes nobody.                                                *)
(***************************************************************************)
Snapshot == Sound(permit, queue, policy, nextSerial)

CallsRecent ==
    \A c \in Callers : calling[c] # NoTime =>
        calling[c] \in Nat /\ calling[c] <= clock /\ clock <= calling[c] + Lag

NoneDue ==
    \A c \in Callers, d \in Dispatches :
        calling[c] # NoTime /\ permit[d].state = "admitted"
            => calling[c] < permit[d].requestDeadline

CapacityInv ==
    /\ policy \in Configuration /\ nextSerial \in Nat \ {0}
    /\ clock \in Nat /\ calling \in [Callers -> Times]
    /\ Snapshot /\ CallsRecent /\ NoneDue /\ WorkConserving

LEMMA InvTyped == CapacityInv => CapacityTypeOK
<1> SUFFICES ASSUME CapacityInv PROVE CapacityTypeOK
  OBVIOUS
<1>1. permit \in [Dispatches -> PermitRecords]
  BY DEF CapacityInv, Snapshot, Sound, WellFormed, Well
<1>2. queue \subseteq Dispatches
  BY DEF CapacityInv, Snapshot, Sound, Waits
<1> QED
  BY <1>1, <1>2 DEF CapacityInv, CapacityTypeOK, CoordinatorTypeOK, Configuration

LEMMA InvValid == CapacityInv => ValidState
BY DEF CapacityInv, Snapshot, Sound, WellFormed, Well, Waits, Placed, Distinct, ValidState

LEMMA InitInv == Init => CapacityInv
<1> SUFFICES ASSUME Init PROVE CapacityInv
  OBVIOUS
<1>1. \A d \in Dispatches : permit[d] = NoPermit /\ permit[d].state = "absent"
  BY DEF Init, CoordinatorInit, NoPermit
<1>2. WellFormed(permit)
  BY <1>1, AbsentWell DEF WellFormed, Init, CoordinatorInit
<1>3. queue = Waits(permit)
  BY <1>1 DEF Waits, Init, CoordinatorInit
<1>4. Snapshot
  BY <1>1, <1>2, <1>3 DEF Snapshot, Sound, Placed, Distinct
<1> QED
  BY <1>1, <1>4
  DEF CapacityInv, CallsRecent, NoneDue, WorkConserving, Init, CoordinatorInit, Idle,
      Configuration, Times, NoTime

\* What is admitted for `n` seconds from a second no older than Lag outlasts every call.
LEMMA FreshDeadline ==
    ASSUME CapacityInv, NEW c \in Callers, calling[c] # NoTime,
           NEW t \in Nat, clock <= t + Lag, NEW now \in Policies
    PROVE  calling[c] < t + now.requestTimeout
<1>1. calling[c] \in Nat /\ calling[c] <= clock /\ clock \in Nat
  BY DEF CapacityInv, CallsRecent
<1>2. Lag < now.requestTimeout /\ now.requestTimeout \in Nat /\ Lag \in Nat
  BY CapacityAssumption, CoordinatorAssumption DEF IsPolicy
<1> QED
  BY <1>1, <1>2

LEMMA SnapshotNow ==
    ASSUME CapacityInv
    PROVE  /\ Sound(permit, queue, policy, nextSerial) /\ policy \in Configuration
           /\ WellFormed(permit) /\ queue = Waits(permit)
           /\ \A d \in Dispatches : Well(permit[d])
BY DEF CapacityInv, Snapshot, Sound, WellFormed

\* Calls may end, and none begins.
Quiet == /\ clock' = clock
         /\ calling' \in [Callers -> Times]
         /\ \A c \in Callers : calling'[c] \in {calling[c], NoTime}

LEMMA QuietReturn ==
    ASSUME CapacityInv, NEW c \in Callers, Return(c)
    PROVE  Quiet
BY DEF CapacityInv, Return, Quiet, Times

LEMMA QuietAlone == ASSUME CapacityInv, Alone PROVE Quiet
BY DEF CapacityInv, Alone, Quiet

(***************************************************************************)
(* What most steps keep to: a permit is promoted before its queue deadline,*)
(* nothing is started, and nothing started loses its slot.                 *)
(***************************************************************************)
InTime ==
    \A d \in Dispatches :
        permit[d].state = "queued" /\ permit'[d].state = "admitted" =>
            permit'[d].requestDeadline - policy'[GroupIn(permit, d)].requestTimeout
                < permit[d].queueDeadline

\* Nobody gets a slot of an endpoint for which an older request goes on waiting.
InOrder ==
    \A d \in Dispatches : permit[d].state \notin Slot /\ permit'[d].state \in Slot =>
        ~ \E w \in queue' : /\ permit'[w].endpoint = permit'[d].endpoint
                            /\ permit'[w].serial < permit'[d].serial

StartsNothing ==
    \A d \in Dispatches : permit[d].state = "admitted" => permit'[d].state # "dispatched"

Keeps(old, new) ==
    \A d \in Dispatches : old[d].state \in Completable => new[d].state \in Completable

(***************************************************************************)
(* The two shapes of a mutation.  One changes some permits and nothing     *)
(* else; the other changes some permits, perhaps the configuration, and    *)
(* runs the tail.  Neither admits except through the tail.                 *)
(***************************************************************************)
LEMMA PlainStep ==
    ASSUME CapacityInv, Quiet, UNCHANGED <<policy, nextSerial>>,
           WellFormed(permit'), queue' = Waits(permit'),
           \A d \in Dispatches :
              /\ Follows(permit'[d], permit[d])
              /\ permit'[d].state = "admitted" =>
                    /\ permit[d].state = "admitted"
                    /\ permit'[d].requestDeadline = permit[d].requestDeadline
              /\ permit'[d].state = "queued" => permit[d].state = "queued"
              /\ permit'[d].state \in Slot <=> permit[d].state \in Slot
    PROVE  CapacityInv' /\ InTime /\ InOrder
<1>1. Sound(permit', queue', policy, nextSerial)
  BY FollowsSound DEF CapacityInv, Snapshot
<1>2. Snapshot'
  BY <1>1 DEF Snapshot
<1>3. CallsRecent'
  BY DEF CapacityInv, CallsRecent, Quiet
<1>4. NoneDue'
  BY DEF CapacityInv, NoneDue, Quiet
<1>5. InTime /\ InOrder
  BY DEF InTime, InOrder
<1>6. WorkConserving'
  <2>1. Sound(permit, queue, policy, nextSerial) /\ policy \in Configuration
    BY SnapshotNow
  <2>2. queue' \subseteq queue
    BY SnapshotNow DEF Waits
  <2>3. \A b \in Dispatches : permit[b].state \in Slot =>
            permit'[b].state \in Slot /\ permit'[b].endpoint = permit[b].endpoint
    BY StateSets DEF Follows
  <2>4. ASSUME NEW d \in queue'
        PROVE  ~HasRoom(permit', policy', permit'[d].endpoint)
    <3>1. d \in Dispatches /\ permit[d].state = "queued" /\ d \in queue
      BY <2>2, SnapshotNow DEF Waits
    <3>2. permit'[d].endpoint = permit[d].endpoint
      BY <2>4 DEF Follows, Waits
    <3>3. ~HasRoom(permit, policy, permit[d].endpoint)
      BY <3>1 DEF CapacityInv, WorkConserving
    <3> QED
      BY <2>1, <2>3, <3>1, <3>2, <3>3, KeepsFull
  <2> QED
    BY <2>4 DEF WorkConserving
<1> QED
  BY <1>2, <1>3, <1>4, <1>5, <1>6 DEF CapacityInv, Quiet

LEMMA TailEffect ==
    ASSUME CapacityInv, NEW pp, NEW q, NEW pol \in Configuration, policy' = pol,
           Sound(pp, q, pol, nextSerial),
           \A d \in Dispatches : pp[d].state \in Active => pp[d] = permit[d],
           NEW gs, NEW t \in Nat, Settle(pp, q, pol, gs, t)
    PROVE  InTime /\ StartsNothing /\ (Keeps(permit, pp) => Keeps(permit, permit'))
<1>1. /\ \A d \in Dispatches :
            /\ pp[d].state \in Completable => permit'[d].state \in Completable
            /\ permit'[d].state = "dispatched" => pp[d].state = "dispatched"
      /\ \A d \in Dispatches : permit'[d].state = "admitted" =>
            \/ pp[d].state = "admitted" /\ permit'[d] = pp[d]
            \/ /\ pp[d].state = "queued" /\ ~QueueDue(pp[d], t)
               /\ permit'[d].requestDeadline = t + pol[GroupIn(pp, d)].requestTimeout
  BY SettleEffect
<1>2. ASSUME NEW d \in Dispatches, permit[d].state = "queued", permit'[d].state = "admitted"
      PROVE  permit'[d].requestDeadline - policy'[GroupIn(permit, d)].requestTimeout
                < permit[d].queueDeadline
  <2>1. pp[d].state \in Active
    BY <1>1, <1>2 DEF Active
  <2>2. pp[d] = permit[d]
    BY <2>1
  <2>3. /\ ~QueueDue(permit[d], t)
        /\ permit'[d].requestDeadline = t + pol[GroupIn(permit, d)].requestTimeout
    BY <1>1, <1>2, <2>2 DEF GroupIn
  <2>4. permit[d].queueDeadline \in Nat
    BY <1>2, SnapshotNow DEF Well, ValidPermit, PermitRecords, Times
  <2>5. pol[GroupIn(permit, d)] \in Policies
    BY <1>2, <2>2, PlacedGroup DEF GroupIn
  <2>6. pol[GroupIn(permit, d)].requestTimeout \in Nat
    BY <2>5, CoordinatorAssumption DEF IsPolicy
  <2> QED
    BY <2>3, <2>4, <2>6 DEF QueueDue, NoTime
<1>3. StartsNothing
  BY <1>1 DEF StartsNothing, Active
<1>4. Keeps(permit, pp) => Keeps(permit, permit')
  BY <1>1 DEF Keeps
<1> QED
  BY <1>2, <1>3, <1>4 DEF InTime

\* What precedes the tail over the groups `gs` only gives up their slots.
Prepared(pp, gs) ==
    \A d \in Dispatches :
        /\ Follows(pp[d], permit[d])
        /\ pp[d].state \in Active => pp[d] = permit[d]
        /\ pp[d].state \in Slot => permit[d].state \in Slot
        /\ permit[d].state \in Slot /\ GroupIn(permit, d) \notin gs => pp[d] = permit[d]

LEMMA TailRoom ==
    ASSUME CapacityInv, NEW pp, NEW q, NEW pol \in Configuration, policy' = pol,
           Sound(pp, q, pol, nextSerial), NEW gs, Prepared(pp, gs),
           \A g \in Groups \ gs : pol[g] = policy[g],
           NEW t \in Nat, Settle(pp, q, pol, gs, t)
    PROVE  WorkConserving' /\ InOrder
<1>1. /\ \A d \in queue' :
            /\ d \in q /\ permit'[d].endpoint = pp[d].endpoint
            /\ GroupIn(pp, d) \in gs => ~HasRoom(permit', pol, pp[d].endpoint)
      /\ \A d \in Dispatches :
            pp[d].state \in Slot /\ GroupIn(pp, d) \notin gs => permit'[d] = pp[d]
      /\ \A d \in Dispatches, w \in queue' :
            /\ pp[d].state \notin Slot /\ permit'[d].state \in Slot
            /\ permit'[w].endpoint = permit'[d].endpoint
            => ~(permit'[w].serial < permit'[d].serial)
  BY SettleRoom
<1>2. Sound(permit, queue, policy, nextSerial) /\ policy \in Configuration
  BY SnapshotNow
<1>3. ASSUME NEW d \in queue'
      PROVE  /\ d \in Dispatches /\ d \in queue /\ permit[d].state = "queued"
             /\ pp[d] = permit[d] /\ permit'[d].endpoint = permit[d].endpoint
  <2>1. d \in Dispatches /\ pp[d].state = "queued"
    BY <1>1, <1>3 DEF Sound, Waits
  <2> QED
    BY <1>1, <1>2, <1>3, <2>1 DEF Prepared, Active, Sound, Waits
<1>4. ASSUME NEW d \in queue'
      PROVE  ~HasRoom(permit', policy', permit'[d].endpoint)
  <2>1. CASE GroupIn(pp, d) \in gs
    BY <1>1, <1>4, <2>1
  <2>2. CASE GroupIn(pp, d) \notin gs
    <3> DEFINE e == permit[d].endpoint
    <3>1. GroupIn(permit, d) \in Groups \ gs /\ GroupIn(permit, d) = GroupOf[e]
      BY <1>2, <1>3, <2>2, PlacedGroup DEF GroupIn
    <3>2. \A b \in Dispatches :
             permit[b].state \in Slot /\ GroupIn(permit, b) = GroupIn(permit, d) =>
                 permit'[b].state \in Slot /\ permit'[b].endpoint = permit[b].endpoint
      BY <1>1, <3>1 DEF Prepared, GroupIn
    <3>3. ~HasRoom(permit, policy, e)
      BY <1>3 DEF CapacityInv, WorkConserving
    <3>4. ~HasRoom(permit', policy, e)
      BY <1>2, <1>3, <3>2, <3>3, KeepsFull
    <3>5. pol[GroupOf[e]] = policy[GroupOf[e]]
      BY <3>1
    <3>6. HasRoom(permit', pol, e) <=> HasRoom(permit', policy, e)
      BY <3>5 DEF HasRoom, RoomBeside
    <3> QED
      BY <1>3, <3>4, <3>6
  <2> QED
    BY <2>1, <2>2
<1>5. InOrder
  BY <1>1 DEF InOrder, Prepared
<1> QED
  BY <1>4, <1>5 DEF WorkConserving

LEMMA SettleStep ==
    ASSUME CapacityInv, Quiet, nextSerial' = nextSerial,
           NEW pp, NEW q, NEW pol \in Configuration, policy' = pol,
           Sound(pp, q, pol, nextSerial),
           NEW gs, Prepared(pp, gs), \A g \in Groups \ gs : pol[g] = policy[g],
           NEW t \in Nat, clock <= t + Lag, Settle(pp, q, pol, gs, t)
    PROVE  /\ CapacityInv' /\ InTime /\ InOrder /\ StartsNothing
           /\ Keeps(permit, pp) => Keeps(permit, permit')
<1>1. /\ Sound(permit', queue', pol, nextSerial)
      /\ \A d \in Dispatches : permit'[d].state = "admitted" =>
            \/ pp[d].state = "admitted" /\ permit'[d] = pp[d]
            \/ /\ pp[d].state = "queued"
               /\ permit'[d].requestDeadline = t + pol[GroupIn(pp, d)].requestTimeout
  BY SettleEffect
<1>2. Snapshot'
  BY <1>1 DEF Snapshot
<1>3. CallsRecent'
  BY DEF CapacityInv, CallsRecent, Quiet
<1>4. ASSUME NEW c \in Callers, NEW d \in Dispatches,
             calling'[c] # NoTime, permit'[d].state = "admitted"
      PROVE  calling'[c] < permit'[d].requestDeadline
  <2>1. calling'[c] = calling[c]
    BY <1>4 DEF Quiet
  <2>2. CASE pp[d].state = "admitted" /\ permit'[d] = pp[d]
    BY <1>4, <2>1, <2>2 DEF CapacityInv, NoneDue, Prepared, Active
  <2>3. CASE /\ pp[d].state = "queued"
             /\ permit'[d].requestDeadline = t + pol[GroupIn(pp, d)].requestTimeout
    <3>1. pol[GroupIn(pp, d)] \in Policies
      BY <2>3, PlacedGroup
    <3>2. calling[c] < t + pol[GroupIn(pp, d)].requestTimeout
      BY <1>4, <2>1, <3>1, FreshDeadline
    <3> QED
      BY <2>1, <2>3, <3>2
  <2> QED
    BY <1>1, <1>4, <2>2, <2>3
<1>5. WorkConserving' /\ InOrder
  BY TailRoom
<1>6. CapacityInv'
  BY <1>2, <1>3, <1>4, <1>5 DEF CapacityInv, Quiet, NoneDue
<1>7. \A d \in Dispatches : pp[d].state \in Active => pp[d] = permit[d]
  BY DEF Prepared
<1> QED
  BY <1>5, <1>6, <1>7, TailEffect

\* A second read from the clock lately.
LEMMA RecentSecond ==
    ASSUME CapacityInv
    PROVE  /\ \A t \in Recent : t \in Nat /\ t <= clock /\ clock <= t + Lag
           /\ \A c \in Callers : calling[c] # NoTime =>
                 calling[c] \in Nat /\ calling[c] <= clock /\ clock <= calling[c] + Lag
BY DEF CapacityInv, CallsRecent, Recent

LEMMA TickInv ==
    ASSUME CapacityInv, Tick
    PROVE  CapacityInv' /\ InTime /\ InOrder /\ StartsNothing /\ Keeps(permit, permit')
<1>1. CallsRecent'
  BY CapacityAssumption DEF CapacityInv, CallsRecent, Tick
<1>2. Snapshot' /\ NoneDue'
  BY DEF CapacityInv, Snapshot, NoneDue, Tick, coordinatorVars
<1>3. WorkConserving' /\ InTime /\ InOrder /\ StartsNothing /\ Keeps(permit, permit')
  BY DEF CapacityInv, Tick, coordinatorVars, WorkConserving, InTime, InOrder, StartsNothing, Keeps
<1> QED
  BY <1>1, <1>2, <1>3 DEF CapacityInv, Tick, coordinatorVars

LEMMA BeginCallInv ==
    ASSUME CapacityInv, NEW c \in Callers, NEW t \in Recent, BeginCall(c, t)
    PROVE  CapacityInv' /\ InTime /\ InOrder /\ StartsNothing /\ Keeps(permit, permit')
<1>1. /\ Settle(permit, queue, policy, Registered, t)
      /\ policy' = policy /\ nextSerial' = nextSerial /\ clock' = clock
      /\ calling' = [calling EXCEPT ![c] = t]
  BY DEF BeginCall, ExpireDue
<1>2. t \in Nat /\ t <= clock /\ clock <= t + Lag
  BY RecentSecond
<1>3. Sound(permit, queue, policy, nextSerial) /\ policy \in Configuration
  BY DEF CapacityInv, Snapshot
<1>4. /\ Sound(permit', queue', policy, nextSerial)
      /\ \A d \in Dispatches : permit'[d].state = "admitted" =>
            \/ /\ permit[d].state = "admitted" /\ permit'[d] = permit[d]
               /\ GroupIn(permit, d) \in Registered => ~RequestDue(permit[d], t)
            \/ /\ permit[d].state = "queued"
               /\ permit'[d].requestDeadline = t + policy[GroupIn(permit, d)].requestTimeout
  BY <1>1, <1>2, <1>3, SettleEffect
<1>5. Snapshot'
  BY <1>1, <1>4 DEF Snapshot
<1>6. CallsRecent'
  BY <1>1, <1>2 DEF CapacityInv, CallsRecent
<1>7. ASSUME NEW b \in Callers, NEW d \in Dispatches,
             calling'[b] # NoTime, permit'[d].state = "admitted"
      PROVE  calling'[b] < permit'[d].requestDeadline
  <2>1. calling'[b] = t \/ calling'[b] = calling[b]
    BY <1>1 DEF CapacityInv
  <2>2. CASE /\ permit[d].state = "admitted" /\ permit'[d] = permit[d]
             /\ GroupIn(permit, d) \in Registered => ~RequestDue(permit[d], t)
    <3>1. GroupIn(permit, d) \in Registered
      BY <1>3, <2>2, PlacedGroup, CoordinatorAssumption DEF Registered
    <3>2. permit[d].requestDeadline \in Nat
      BY <1>3, <2>2 DEF Sound, WellFormed, Well, ValidPermit, PermitRecords, Times
    <3>3. t < permit[d].requestDeadline
      BY <1>2, <2>2, <3>1, <3>2 DEF RequestDue, NoTime
    <3> QED
      BY <1>7, <2>1, <2>2, <3>3 DEF CapacityInv, NoneDue
  <2>3. CASE /\ permit[d].state = "queued"
             /\ permit'[d].requestDeadline = t + policy[GroupIn(permit, d)].requestTimeout
    <3>1. policy[GroupIn(permit, d)] \in Policies
      BY <1>3, <2>3, PlacedGroup
    <3>2. t < t + policy[GroupIn(permit, d)].requestTimeout
      BY <1>2, <3>1, CoordinatorAssumption DEF IsPolicy
    <3>3. calling[b] # NoTime => calling[b] < t + policy[GroupIn(permit, d)].requestTimeout
      BY <1>2, <3>1, FreshDeadline
    <3> QED
      BY <1>7, <2>1, <2>3, <3>2, <3>3
  <2> QED
    BY <1>4, <1>7, <2>2, <2>3
<1>8. calling' \in [Callers -> Times] /\ clock' \in Nat
  BY <1>1, <1>2 DEF CapacityInv, Times
<1>9. Keeps(permit, permit)
  BY DEF Keeps
<1>10. InTime /\ StartsNothing /\ Keeps(permit, permit')
  BY <1>1, <1>2, <1>3, <1>9, TailEffect
<1>11. WorkConserving' /\ InOrder
  <2>1. Prepared(permit, Registered)
    BY DEF Prepared, Follows
  <2> QED
    BY <1>1, <1>2, <1>3, <2>1, TailRoom
<1> QED
  BY <1>1, <1>5, <1>6, <1>7, <1>8, <1>10, <1>11 DEF CapacityInv, NoneDue

(***************************************************************************)
(* The second halves of the calls, and the methods that are one mutation.  *)
(***************************************************************************)
\* Of one permit: `pp` is the snapshot now with `p` in the place of permit `d`.
Replaced(pp, d, p) ==
    /\ pp[d] = p /\ \A e \in Dispatches : e # d => pp[e] = permit[e]
    /\ WellFormed(pp)
    /\ \A e \in Dispatches : Follows(pp[e], permit[e])
    /\ p.state # "queued" => Waits(pp) = queue \ {d}
    /\ p.state = "queued" => Waits(pp) = queue \cup {d}
    /\ Sound(pp, Waits(pp), policy, nextSerial)

LEMMA ReplaceOne ==
    ASSUME CapacityInv, NEW d \in Dispatches, NEW p, Well(p), Follows(p, permit[d]),
           NEW pp, pp = [permit EXCEPT ![d] = p]
    PROVE  Replaced(pp, d, p)
<1>1. /\ permit = [e \in Dispatches |-> permit[e]]
      /\ \A e \in Dispatches : Well(permit[e])
      /\ queue = Waits(permit)
  BY SnapshotNow DEF WellFormed
<1>2. pp = [e \in Dispatches |-> IF e = d THEN p ELSE permit[e]]
  BY <1>1
<1>3. pp[d] = p /\ \A e \in Dispatches : e # d => pp[e] = permit[e]
  BY <1>2
<1>4. WellFormed(pp)
  <2>1. pp = [e \in Dispatches |-> pp[e]]
    BY <1>2
  <2> QED
    BY <1>1, <1>3, <2>1 DEF WellFormed
<1>5. \A e \in Dispatches : Follows(pp[e], permit[e])
  BY <1>3 DEF Follows
<1>6. /\ p.state # "queued" => Waits(pp) = queue \ {d}
      /\ p.state = "queued" => Waits(pp) = queue \cup {d}
  BY <1>1, <1>3 DEF Waits
<1>7. Sound(pp, Waits(pp), policy, nextSerial)
  BY <1>4, <1>5, SnapshotNow, FollowsSound
<1> QED
  BY <1>3, <1>4, <1>5, <1>6, <1>7 DEF Replaced

LEMMA MarkDispatchedInv ==
    ASSUME CapacityInv, Quiet, NEW d \in Dispatches, NEW s \in Servers \cup {None},
           MarkDispatched(d, s)
    PROVE  /\ CapacityInv' /\ InTime /\ InOrder /\ Keeps(permit, permit')
           /\ \A b \in Dispatches \ {d} : permit'[b] = permit[b]
<1> DEFINE c == [permit[d] EXCEPT !.state = "dispatched", !.wasDispatched = TRUE,
                                  !.server = s, !.uncertain = FALSE]
<1>1. /\ permit[d].state = "admitted" /\ permit' = [permit EXCEPT ![d] = c]
      /\ UNCHANGED <<queue, policy, nextSerial>>
  BY DEF MarkDispatched
<1>2. Well(c) /\ Follows(c, permit[d]) /\ c.state = "dispatched"
  BY <1>1, SnapshotNow, DispatchedWell
<1> HIDE DEF c
<1>3. Replaced(permit', d, c)
  BY <1>1, <1>2, ReplaceOne
<1>4. d \notin queue
  BY <1>1, SnapshotNow DEF Waits
<1>5. Keeps(permit, permit')
  BY <1>1, <1>3 DEF Replaced, Keeps, Completable
<1>6. CapacityInv' /\ InTime /\ InOrder
  BY <1>1, <1>2, <1>3, <1>4, PlainStep DEF Replaced, Slot
<1> QED
  BY <1>3, <1>5, <1>6 DEF Replaced

LEMMA HeartbeatInv ==
    ASSUME CapacityInv, Quiet, NEW d \in Dispatches, NoteHeartbeatExpired(d)
    PROVE  CapacityInv' /\ InTime /\ InOrder /\ StartsNothing /\ Keeps(permit, permit')
<1> DEFINE c == BecomeUnknown(permit[d])
<1>1. /\ permit[d].state = "dispatched" /\ permit' = [permit EXCEPT ![d] = c]
      /\ UNCHANGED <<queue, policy, nextSerial>>
  BY DEF NoteHeartbeatExpired
<1>2. Well(c) /\ Follows(c, permit[d]) /\ c.state = "completion_unknown"
  BY <1>1, SnapshotNow, UnknownWell
<1> HIDE DEF c
<1>3. Replaced(permit', d, c)
  BY <1>1, <1>2, ReplaceOne
<1>4. d \notin queue
  BY <1>1, SnapshotNow DEF Waits
<1>5. StartsNothing /\ Keeps(permit, permit')
  BY <1>1, <1>2, <1>3 DEF Replaced, StartsNothing, Keeps, Completable
<1>6. CapacityInv' /\ InTime /\ InOrder
  BY <1>1, <1>2, <1>3, <1>4, PlainStep DEF Replaced, Slot
<1> QED
  BY <1>5, <1>6

LEMMA RevalidateInv ==
    ASSUME CapacityInv, Quiet, NEW d \in Dispatches, Revalidate(d)
    PROVE  CapacityInv' /\ InTime /\ InOrder /\ StartsNothing /\ Keeps(permit, permit')
<1> DEFINE settings == policy[GroupIn(permit, d)]
           c == [permit[d] EXCEPT !.bound = settings]
<1>1. /\ permit[d].state # "absent" /\ permit' = [permit EXCEPT ![d] = c]
      /\ UNCHANGED <<queue, policy, nextSerial>>
  BY DEF Revalidate, Slot
<1>2. settings \in Policies
  BY <1>1, SnapshotNow, PlacedGroup
<1>3. permit[d] \in PermitRecords /\ ValidPermit(permit[d])
  BY SnapshotNow DEF Well
<1> HIDE DEF settings
<1>4. /\ c \in PermitRecords
      /\ c.state = permit[d].state /\ c.uncertain = permit[d].uncertain
      /\ c.outcome = permit[d].outcome /\ c.wasDispatched = permit[d].wasDispatched
      /\ c.requestDeadline = permit[d].requestDeadline
      /\ c.queueDeadline = permit[d].queueDeadline
      /\ c.endpoint = permit[d].endpoint /\ c.serial = permit[d].serial
  BY <1>2, <1>3 DEF PermitRecords
<1> HIDE DEF c
<1>5. Well(c) /\ Follows(c, permit[d])
  BY <1>1, <1>3, <1>4 DEF Well, ValidPermit, Follows
<1>6. Replaced(permit', d, c)
  BY <1>1, <1>5, ReplaceOne
<1>7. Waits(permit') = queue
  BY <1>4, <1>6, SnapshotNow DEF Waits, Replaced
<1>8. StartsNothing /\ Keeps(permit, permit')
  BY <1>4, <1>6 DEF Replaced, StartsNothing, Keeps
<1>9. CapacityInv' /\ InTime /\ InOrder
  BY <1>1, <1>4, <1>6, <1>7, PlainStep DEF Replaced
<1> QED
  BY <1>8, <1>9

\* The permits that stop waiting leave the queue, and then the tail runs.
LEMMA CompleteInv ==
    ASSUME CapacityInv, Quiet, NEW d \in Dispatches, NEW t \in Nat, clock <= t + Lag,
           Complete(d, t)
    PROVE  CapacityInv' /\ InTime /\ InOrder /\ StartsNothing
<1> DEFINE c == [permit[d] EXCEPT !.state = "completed", !.outcome = "completed",
                                  !.uncertain = FALSE]
           pp == [permit EXCEPT ![d] = c]
<1>1. /\ permit[d].state \in Completable
      /\ Settle(pp, queue, policy, {GroupIn(permit, d)}, t)
      /\ policy' = policy /\ nextSerial' = nextSerial
  BY DEF Complete
<1>2. Well(c) /\ Follows(c, permit[d]) /\ c.state = "completed"
  BY <1>1, SnapshotNow, CompletedWell
<1>3. Replaced(pp, d, c)
  BY <1>2, ReplaceOne
<1> HIDE DEF c, pp
<1>4. d \notin queue
  BY <1>1, SnapshotNow DEF Waits, Completable
<1>5. Sound(pp, queue, policy, nextSerial)
  BY <1>2, <1>3, <1>4 DEF Replaced, Active
<1>6. Prepared(pp, {GroupIn(permit, d)})
  BY <1>2, <1>3 DEF Replaced, Prepared, Active, Slot
<1> QED
  BY <1>1, <1>5, <1>6, SnapshotNow, SettleStep

LEMMA ReconcileInv ==
    ASSUME CapacityInv, Quiet, NEW d \in Dispatches, NEW t \in Nat, clock <= t + Lag,
           Reconcile(d, t)
    PROVE  CapacityInv' /\ InTime /\ InOrder /\ StartsNothing
<1> DEFINE c == Released(permit[d], "capacity_released_unresolved")
           pp == [permit EXCEPT ![d] = c]
<1>1. /\ permit[d].state \in Completable
      /\ Settle(pp, queue, policy, {GroupIn(permit, d)}, t)
      /\ policy' = policy /\ nextSerial' = nextSerial
  BY DEF Reconcile, Completable
<1>2. Well(c) /\ Follows(c, permit[d]) /\ c.state = "released"
  BY <1>1, SnapshotNow, ReleasedWell
<1>3. Replaced(pp, d, c)
  BY <1>2, ReplaceOne
<1> HIDE DEF c, pp
<1>4. d \notin queue
  BY <1>1, SnapshotNow DEF Waits, Completable
<1>5. Sound(pp, queue, policy, nextSerial)
  BY <1>2, <1>3, <1>4 DEF Replaced, Active
<1>6. Prepared(pp, {GroupIn(permit, d)})
  BY <1>2, <1>3 DEF Replaced, Prepared, Active, Slot
<1> QED
  BY <1>1, <1>5, <1>6, SnapshotNow, SettleStep

LEMMA CancelInv ==
    ASSUME CapacityInv, Quiet, NEW d \in Dispatches, NEW t \in Nat, clock <= t + Lag,
           Cancel(d, t)
    PROVE  CapacityInv' /\ InTime /\ InOrder /\ StartsNothing /\ Keeps(permit, permit')
<1>1. CASE permit[d].state \in {"queued", "admitted"}
  <2> DEFINE c == CancelBeforeDispatch(permit[d])
             pp == [permit EXCEPT ![d] = c]
  <2>1. /\ Settle(pp, queue \ {d}, policy, {GroupIn(permit, d)}, t)
        /\ policy' = policy /\ nextSerial' = nextSerial
    BY <1>1 DEF Cancel
  <2>2. Well(c) /\ Follows(c, permit[d]) /\ c.state = "cancelled"
    BY <1>1, SnapshotNow, CancelWell
  <2>3. Replaced(pp, d, c)
    BY <2>2, ReplaceOne
  <2> HIDE DEF c, pp
  <2>4. Prepared(pp, {GroupIn(permit, d)})
    BY <2>2, <2>3 DEF Replaced, Prepared, Active, Slot
  <2>5. Sound(pp, queue \ {d}, policy, nextSerial)
    BY <2>2, <2>3 DEF Replaced, Active
  <2>6. Keeps(permit, pp)
    BY <1>1, <2>3 DEF Replaced, Keeps, Completable
  <2> QED
    BY <2>1, <2>4, <2>5, <2>6, SnapshotNow, SettleStep
<1>2. CASE permit[d].state = "dispatched"
  <2> DEFINE c == [permit[d] EXCEPT !.state = "cancel_requested", !.uncertain = TRUE]
             pp == [permit EXCEPT ![d] = c]
  <2>1. /\ Settle(pp, queue, policy, {GroupIn(permit, d)}, t)
        /\ policy' = policy /\ nextSerial' = nextSerial
    BY <1>2 DEF Cancel
  <2>2. Well(c) /\ Follows(c, permit[d]) /\ c.state = "cancel_requested"
    BY <1>2, SnapshotNow, CancelRequestedWell
  <2>3. Replaced(pp, d, c)
    BY <2>2, ReplaceOne
  <2> HIDE DEF c, pp
  <2>4. d \notin queue
    BY <1>2, SnapshotNow DEF Waits
  <2>5. Sound(pp, queue, policy, nextSerial)
    BY <2>2, <2>3, <2>4 DEF Replaced, Active
  <2>6. Prepared(pp, {GroupIn(permit, d)})
    BY <1>2, <2>2, <2>3 DEF Replaced, Prepared, Active, Slot
  <2>7. Keeps(permit, pp)
    BY <2>2, <2>3 DEF Replaced, Keeps, Completable
  <2> QED
    BY <2>1, <2>5, <2>6, <2>7, SnapshotNow, SettleStep
<1> QED
  BY <1>1, <1>2 DEF Cancel

LEMMA StoppedInv ==
    ASSUME CapacityInv, Quiet, NEW proc \in Processes, NEW t \in Nat, clock <= t + Lag,
           ReportProcessStopped(proc, t)
    PROVE  CapacityInv' /\ InTime /\ InOrder /\ StartsNothing /\ Keeps(permit, permit')
<1> DEFINE own == {d \in Dispatches : permit[d].process = proc}
           pp == [d \in Dispatches |->
                    CASE d \in own /\ permit[d].state \in {"queued", "admitted"}
                            -> CancelBeforeDispatch(permit[d])
                      [] d \in own /\ permit[d].state = "dispatched"
                            -> BecomeUnknown(permit[d])
                      [] OTHER -> permit[d]]
<1>1. /\ Settle(pp, queue \ own, policy, Registered, t)
      /\ policy' = policy /\ nextSerial' = nextSerial
  BY DEF ReportProcessStopped
<1>2. ASSUME NEW d \in Dispatches
      PROVE  /\ Well(pp[d]) /\ Follows(pp[d], permit[d])
             /\ pp[d].state \in Active => pp[d] = permit[d]
             /\ pp[d].state = "queued" <=> permit[d].state = "queued" /\ d \notin own
             /\ permit[d].state \in Completable => pp[d].state \in Completable
             /\ pp[d].state \in Slot => permit[d].state \in Slot
             /\ permit[d].state = "absent" => pp[d] = permit[d]
  <2>1. Well(permit[d])
    BY SnapshotNow
  <2>2. CASE d \in own /\ permit[d].state \in {"queued", "admitted"}
    <3>1. pp[d] = CancelBeforeDispatch(permit[d])
      BY <2>2
    <3> HIDE DEF pp, own
    <3> QED
      BY <2>1, <2>2, <3>1, CancelWell DEF Active, Completable, Slot
  <2>3. CASE d \in own /\ permit[d].state = "dispatched"
    <3>1. pp[d] = BecomeUnknown(permit[d])
      BY <2>3
    <3> HIDE DEF pp, own
    <3> QED
      BY <2>1, <2>3, <3>1, UnknownWell DEF Active, Completable, Slot
  <2>4. CASE ~(d \in own /\ permit[d].state \in {"queued", "admitted", "dispatched"})
    <3>1. pp[d] = permit[d]
      BY <2>4
    <3> HIDE DEF pp, own
    <3> QED
      BY <2>1, <2>4, <3>1 DEF Follows
  <2> QED
    BY <2>2, <2>3, <2>4
<1>3. pp = [d \in Dispatches |-> pp[d]]
  OBVIOUS
<1> HIDE DEF pp, own
<1>4. WellFormed(pp)
  BY <1>2, <1>3 DEF WellFormed
<1>5. Waits(pp) = queue \ own
  BY <1>2, SnapshotNow DEF Waits
<1>6. Sound(pp, queue \ own, policy, nextSerial)
  BY <1>2, <1>4, <1>5, SnapshotNow, FollowsSound
<1>7. Keeps(permit, pp)
  BY <1>2 DEF Keeps
<1>8. ASSUME NEW d \in Dispatches, permit[d].state # "absent"
      PROVE  GroupIn(permit, d) \in Registered
  BY <1>8, SnapshotNow, PlacedGroup, CoordinatorAssumption DEF Registered
<1>9. Prepared(pp, Registered)
  BY <1>2, <1>8 DEF Prepared, Slot
<1> QED
  BY <1>1, <1>6, <1>7, <1>9, SnapshotNow, SettleStep

LEMMA ResetInv ==
    ASSUME CapacityInv, Quiet, NEW g \in Groups, NEW s \in Servers, NEW t \in Nat,
           clock <= t + Lag, VerifiedServerReset(g, s, t)
    PROVE  CapacityInv' /\ InTime /\ InOrder /\ StartsNothing
<1> DEFINE gone(d) == permit[d].server = s /\ permit[d].state \in Completable
                         /\ GroupIn(permit, d) = g
           pp == [d \in Dispatches |->
                    IF gone(d) THEN Released(permit[d], "released_by_verified_server_reset")
                               ELSE permit[d]]
<1>1. /\ Settle(pp, queue, policy, {g}, t)
      /\ policy' = policy /\ nextSerial' = nextSerial
  BY DEF VerifiedServerReset
<1>2. ASSUME NEW d \in Dispatches
      PROVE  /\ Well(pp[d]) /\ Follows(pp[d], permit[d])
             /\ pp[d].state \in Active => pp[d] = permit[d]
             /\ pp[d].state = "queued" <=> permit[d].state = "queued"
             /\ pp[d].state \in Slot => permit[d].state \in Slot
             /\ GroupIn(permit, d) # g => pp[d] = permit[d]
  <2>1. Well(permit[d])
    BY SnapshotNow
  <2>2. CASE gone(d)
    <3>1. pp[d] = Released(permit[d], "released_by_verified_server_reset")
      BY <2>2
    <3>2. permit[d].state \in Completable /\ GroupIn(permit, d) = g
      BY <2>2
    <3> HIDE DEF pp, gone
    <3> QED
      BY <2>1, <3>1, <3>2, ReleasedWell DEF Completable, Active, Slot
  <2>3. CASE ~gone(d)
    <3>1. pp[d] = permit[d]
      BY <2>3
    <3> HIDE DEF pp, gone
    <3> QED
      BY <2>1, <3>1 DEF Follows
  <2> QED
    BY <2>2, <2>3
<1>3. pp = [d \in Dispatches |-> pp[d]]
  OBVIOUS
<1> HIDE DEF pp, gone
<1>4. WellFormed(pp)
  BY <1>2, <1>3 DEF WellFormed
<1>5. Waits(pp) = queue
  BY <1>2, SnapshotNow DEF Waits
<1>6. Sound(pp, queue, policy, nextSerial)
  BY <1>2, <1>4, <1>5, SnapshotNow, FollowsSound
<1>7. Prepared(pp, {g})
  BY <1>2 DEF Prepared
<1> QED
  BY <1>1, <1>6, <1>7, SnapshotNow, SettleStep

LEMMA PruneInv ==
    ASSUME CapacityInv, Quiet, NEW g \in Groups, NEW limit, PruneTerminalTombstones(g, limit)
    PROVE  CapacityInv' /\ InTime /\ InOrder /\ StartsNothing /\ Keeps(permit, permit')
<1>1. permit' = Prune(permit, {g}, limit) /\ UNCHANGED <<queue, policy, nextSerial>>
  BY DEF PruneTerminalTombstones
<1>2. Sound(permit', queue, policy, nextSerial) /\ Pruning(permit', permit)
  BY <1>1, SnapshotNow, PruneSound
<1>3. NoPermit.state = "absent"
  BY DEF NoPermit
<1>4. ASSUME NEW d \in Dispatches
      PROVE  /\ Follows(permit'[d], permit[d])
             /\ permit'[d].state = "admitted" =>
                   /\ permit[d].state = "admitted"
                   /\ permit'[d].requestDeadline = permit[d].requestDeadline
             /\ permit'[d].state = "queued" => permit[d].state = "queued"
             /\ permit'[d].state \in Slot <=> permit[d].state \in Slot
  BY <1>2, <1>3, StateSets DEF Pruning, Follows
<1>5. WellFormed(permit') /\ queue' = Waits(permit')
  BY <1>1, <1>2 DEF Sound
<1>6. StartsNothing /\ Keeps(permit, permit')
  BY <1>2, <1>3 DEF Pruning, StartsNothing, Keeps, Completable, Terminal
<1>7. CapacityInv' /\ InTime /\ InOrder
  BY <1>1, <1>4, <1>5, PlainStep
<1> QED
  BY <1>6, <1>7

LEMMA RegisterInv ==
    ASSUME CapacityInv, Alone, NEW g \in Groups, NEW pol \in Policies, Register(g, pol)
    PROVE  CapacityInv' /\ InTime /\ InOrder /\ StartsNothing /\ Keeps(permit, permit')
<1>1. /\ policy[g] = NoPolicy /\ policy' = [policy EXCEPT ![g] = pol]
      /\ UNCHANGED <<permit, queue, nextSerial, clock, calling>>
  BY DEF Register, Alone
<1>2. policy \in Configuration /\ policy' \in Configuration
  BY <1>1, SnapshotNow DEF Configuration
<1>3. ASSUME NEW d \in Dispatches, permit[d].state # "absent"
      PROVE  policy'[GroupIn(permit, d)] = policy[GroupIn(permit, d)]
  <2>1. policy[GroupIn(permit, d)] \in Policies /\ GroupIn(permit, d) \in Groups
    BY <1>3, SnapshotNow, PlacedGroup
  <2> QED
    BY <1>1, <1>2, <2>1, CoordinatorAssumption DEF Configuration
<1>4. Placed(permit, policy', nextSerial)
  BY <1>3, SnapshotNow DEF Sound, Placed
<1>5. Sound(permit, queue, policy', nextSerial)
  BY <1>4, SnapshotNow DEF Sound
<1>6. Snapshot' /\ CallsRecent' /\ NoneDue'
  BY <1>1, <1>5 DEF Snapshot, CapacityInv, CallsRecent, NoneDue
<1>7. InTime /\ InOrder /\ StartsNothing /\ Keeps(permit, permit')
  BY <1>1 DEF InTime, InOrder, StartsNothing, Keeps
<1>8. ASSUME NEW d \in queue
      PROVE  ~HasRoom(permit, policy', permit[d].endpoint)
  <2>1. d \in Dispatches /\ permit[d].state # "absent"
    BY SnapshotNow DEF Waits
  <2>2. ~HasRoom(permit, policy, permit[d].endpoint)
    BY DEF CapacityInv, WorkConserving
  <2> QED
    BY <1>3, <2>1, <2>2 DEF HasRoom, RoomBeside, GroupIn
<1>9. WorkConserving'
  BY <1>1, <1>8 DEF WorkConserving
<1> QED
  BY <1>1, <1>2, <1>6, <1>7, <1>9 DEF CapacityInv

LEMMA TransitionInv ==
    ASSUME CapacityInv, Quiet, NEW g \in Groups, NEW pol \in Policies, NEW t \in Nat,
           clock <= t + Lag, Transition(g, pol, t)
    PROVE  CapacityInv' /\ InTime /\ InOrder /\ StartsNothing /\ Keeps(permit, permit')
<1> DEFINE next == [policy EXCEPT ![g] = pol]
<1>1. /\ policy' = next /\ nextSerial' = nextSerial
      /\ Settle(permit, queue, next, Registered, t)
      /\ DOMAIN policy[g].cap \subseteq DOMAIN pol.cap
  BY DEF Transition
<1>2. next \in Configuration
  BY SnapshotNow DEF Configuration
<1>3. Placed(permit, next, nextSerial)
  <2> SUFFICES ASSUME NEW d \in Dispatches, permit[d].state # "absent"
               PROVE  /\ permit[d].serial \in 1..(nextSerial - 1)
                      /\ permit[d].endpoint \in Endpoints
                      /\ next[GroupIn(permit, d)] # NoPolicy
                      /\ permit[d].endpoint \in DOMAIN next[GroupIn(permit, d)].cap
    BY DEF Placed
  <2>1. /\ permit[d].serial \in 1..(nextSerial - 1)
        /\ permit[d].endpoint \in Endpoints
        /\ permit[d].endpoint \in DOMAIN policy[GroupIn(permit, d)].cap
        /\ GroupIn(permit, d) \in Groups /\ policy[GroupIn(permit, d)] \in Policies
    BY SnapshotNow, PlacedGroup DEF Sound, Placed
  <2>2. policy \in Configuration
    BY SnapshotNow
  <2>3. CASE GroupIn(permit, d) = g
    BY <1>1, <2>1, <2>2, <2>3, CoordinatorAssumption DEF Configuration
  <2>4. CASE GroupIn(permit, d) # g
    BY <2>1, <2>2, <2>4, CoordinatorAssumption DEF Configuration
  <2> QED
    BY <2>3, <2>4
<1> HIDE DEF next
<1>4. Sound(permit, queue, next, nextSerial)
  BY <1>3, SnapshotNow DEF Sound
<1>5. Keeps(permit, permit)
  BY DEF Keeps
<1>6. Prepared(permit, Registered)
  BY DEF Prepared, Follows
<1>7. \A h \in Groups \ Registered : next[h] = policy[h]
  BY SnapshotNow DEF next, Transition, Configuration
<1> QED
  BY <1>1, <1>2, <1>4, <1>5, <1>6, <1>7, SettleStep

LEMMA NewPermitWell ==
    ASSUME CapacityInv, NEW e \in Endpoints, NEW proc \in Processes, NEW t \in Nat,
           NEW isAdmitted \in BOOLEAN, GroupOf[e] \in Registered
    PROVE  /\ Well(NewPermit(e, proc, t, isAdmitted))
           /\ NewPermit(e, proc, t, isAdmitted).serial = nextSerial
           /\ NewPermit(e, proc, t, isAdmitted).endpoint = e
           /\ NewPermit(e, proc, t, isAdmitted).state
                  = IF isAdmitted THEN "admitted" ELSE "queued"
           /\ isAdmitted => NewPermit(e, proc, t, isAdmitted).requestDeadline
                               = t + policy[GroupOf[e]].requestTimeout
<1> DEFINE settings == policy[GroupOf[e]]
           waits == t + settings.queueTimeout
           lasts == t + settings.requestTimeout
           c == NewPermit(e, proc, t, isAdmitted)
<1>1. settings \in Policies
  BY SnapshotNow DEF Registered, Configuration
<1>2. waits \in Nat /\ lasts \in Nat
  <2> HIDE DEF settings
  <2> QED
    BY <1>1, CoordinatorAssumption DEF IsPolicy
<1>3. nextSerial \in Nat
  BY DEF CapacityInv
<1>4. NoPermit \in PermitRecords /\ NoPermit.outcome = None
      /\ NoPermit.wasDispatched = FALSE /\ NoPermit.uncertain = FALSE
  BY AbsentWell DEF Well, NoPermit
<1>5. c = [NoPermit EXCEPT
              !.state = IF isAdmitted THEN "admitted" ELSE "queued", !.serial = nextSerial,
              !.endpoint = e, !.process = proc, !.bound = settings,
              !.queueDeadline = IF isAdmitted THEN NoTime ELSE waits,
              !.requestDeadline = IF isAdmitted THEN lasts ELSE NoTime]
  BY DEF NewPermit
<1> HIDE DEF settings, waits, lasts, c
<1>6. NoTime \in Times /\ waits \in Times /\ lasts \in Times
      /\ waits # NoTime /\ lasts # NoTime
  BY <1>2 DEF Times, NoTime
<1>7. c \in PermitRecords
  BY <1>1, <1>3, <1>4, <1>5, <1>6 DEF PermitRecords, PermitStates, Slot
<1>8. /\ c.state = IF isAdmitted THEN "admitted" ELSE "queued"
      /\ c.serial = nextSerial /\ c.endpoint = e
      /\ c.queueDeadline = IF isAdmitted THEN NoTime ELSE waits
      /\ c.requestDeadline = IF isAdmitted THEN lasts ELSE NoTime
      /\ c.outcome = None /\ c.wasDispatched = FALSE /\ c.uncertain = FALSE
  BY <1>4, <1>5 DEF PermitRecords
<1>9. ValidPermit(c)
  BY <1>6, <1>8 DEF ValidPermit, Completable, Terminal
<1> QED
  BY <1>7, <1>8, <1>9 DEF Well, c, settings, lasts

(***************************************************************************)
(* acquire: a new serial, a place or a place in the queue.                 *)
(***************************************************************************)
LEMMA AcquireInv ==
    ASSUME CapacityInv, Quiet, NEW d \in Dispatches, NEW e \in Endpoints,
           NEW proc \in Processes, NEW t \in Nat, clock <= t + Lag, Acquire(d, e, proc, t)
    PROVE  CapacityInv' /\ InTime /\ InOrder /\ StartsNothing /\ Keeps(permit, permit')
<1>1. PICK isAdmitted \in BOOLEAN :
          /\ permit' = [permit EXCEPT ![d] = NewPermit(e, proc, t, isAdmitted)]
          /\ queue' = IF isAdmitted THEN queue ELSE queue \cup {d}
          /\ isAdmitted <=> HasRoom(permit, policy, e)
  BY DEF Acquire
<1>2. /\ permit[d].state = "absent" /\ GroupOf[e] \in Registered
      /\ e \in DOMAIN policy[GroupOf[e]].cap
      /\ nextSerial' = nextSerial + 1 /\ policy' = policy
  BY DEF Acquire
<1> DEFINE c == NewPermit(e, proc, t, isAdmitted)
<1>3. /\ Well(c) /\ c.serial = nextSerial /\ c.endpoint = e
      /\ c.state = IF isAdmitted THEN "admitted" ELSE "queued"
      /\ isAdmitted => c.requestDeadline = t + policy[GroupOf[e]].requestTimeout
  BY <1>2, NewPermitWell
<1> HIDE DEF c
<1>4. /\ permit = [b \in Dispatches |-> permit[b]] /\ queue = Waits(permit)
      /\ \A b \in Dispatches : Well(permit[b])
      /\ Placed(permit, policy, nextSerial) /\ Distinct(permit)
      /\ policy \in Configuration /\ nextSerial \in Nat \ {0}
  BY SnapshotNow DEF WellFormed, Sound, CapacityInv
<1>5. /\ permit' = [b \in Dispatches |-> permit'[b]]
      /\ permit'[d] = c /\ \A b \in Dispatches : b # d => permit'[b] = permit[b]
  BY <1>1, <1>4 DEF c
<1>6. WellFormed(permit')
  BY <1>3, <1>4, <1>5 DEF WellFormed
<1>7. queue' = Waits(permit')
  BY <1>1, <1>2, <1>3, <1>4, <1>5 DEF Waits
<1>8. Placed(permit', policy', nextSerial')
  <2> SUFFICES ASSUME NEW b \in Dispatches, permit'[b].state # "absent"
               PROVE  /\ permit'[b].serial \in 1..(nextSerial' - 1)
                      /\ permit'[b].endpoint \in Endpoints
                      /\ policy'[GroupIn(permit', b)] # NoPolicy
                      /\ permit'[b].endpoint \in DOMAIN policy'[GroupIn(permit', b)].cap
    BY DEF Placed
  <2>1. CASE b = d
    BY <1>2, <1>3, <1>4, <1>5, <2>1 DEF GroupIn, Registered
  <2>2. CASE b # d
    BY <1>2, <1>4, <1>5, <2>2 DEF Placed, GroupIn
  <2> QED
    BY <2>1, <2>2
<1>9. Distinct(permit')
  BY <1>3, <1>4, <1>5 DEF Distinct, Placed
<1>10. Snapshot'
  BY <1>6, <1>7, <1>8, <1>9 DEF Snapshot, Sound
<1>11. ASSUME NEW b \in Callers, NEW w \in Dispatches,
              calling'[b] # NoTime, permit'[w].state = "admitted"
       PROVE  calling'[b] < permit'[w].requestDeadline
  <2>1. calling'[b] = calling[b]
    BY <1>11 DEF Quiet
  <2>2. CASE w # d
    BY <1>5, <1>11, <2>1, <2>2 DEF CapacityInv, NoneDue
  <2>3. CASE w = d
    <3>1. isAdmitted /\ permit'[w].requestDeadline = t + policy[GroupOf[e]].requestTimeout
      BY <1>3, <1>5, <1>11, <2>3
    <3>2. policy[GroupOf[e]] \in Policies
      BY <1>2, <1>4 DEF Registered, Configuration
    <3>3. calling[b] < t + policy[GroupOf[e]].requestTimeout
      BY <1>11, <2>1, <3>2, FreshDeadline
    <3> QED
      BY <2>1, <3>1, <3>3
  <2> QED
    BY <2>2, <2>3
<1>12. CallsRecent'
  BY DEF CapacityInv, CallsRecent, Quiet
<1>13. InTime /\ StartsNothing /\ Keeps(permit, permit')
  BY <1>2, <1>3, <1>5 DEF InTime, StartsNothing, Keeps, Completable
<1>14. ASSUME NEW w \in queue'
       PROVE  /\ ~HasRoom(permit, policy, permit'[w].endpoint)
              /\ ~HasRoom(permit', policy', permit'[w].endpoint)
  <2>1. ~HasRoom(permit, policy, permit'[w].endpoint)
    <3>1. CASE w \in queue
      BY <1>2, <1>4, <1>5, <3>1 DEF CapacityInv, WorkConserving, Waits
    <3>2. CASE w \notin queue
      BY <1>1, <1>3, <1>5, <1>14, <3>2
    <3> QED
      BY <3>1, <3>2
  <2> DEFINE at == permit'[w].endpoint
  <2>2. w \in Dispatches /\ permit'[w].state # "absent"
    BY <1>7, <1>14 DEF Waits
  <2>3. /\ at \in Endpoints /\ policy[GroupOf[at]] \in Policies
        /\ at \in DOMAIN policy[GroupOf[at]].cap
    BY <1>2, <1>4, <1>8, <2>2, CoordinatorAssumption DEF Placed, GroupIn, Configuration
  <2> HIDE DEF at
  <2>4. \A b \in Dispatches : permit[b].state \in Slot =>
            permit'[b].endpoint = permit[b].endpoint /\ permit'[b].state \in Slot
    BY <1>2, <1>5, StateSets
  <2>5. RoomBeside(permit', policy, {}, at) => RoomBeside(permit, policy, {}, at)
    BY <1>4, <2>3, <2>4, RoomShrinks
  <2> QED
    BY <1>2, <2>1, <2>5 DEF HasRoom, at
<1>15. WorkConserving'
  BY <1>14 DEF WorkConserving
<1>16. InOrder
  <2> SUFFICES ASSUME NEW b \in Dispatches, NEW w \in queue',
                      permit[b].state \notin Slot, permit'[b].state \in Slot,
                      permit'[w].endpoint = permit'[b].endpoint
               PROVE  FALSE
    BY DEF InOrder
  <2>1. b = d /\ permit'[b].endpoint = e /\ isAdmitted
    BY <1>3, <1>5, StateSets
  <2> QED
    BY <1>1, <1>14, <2>1
<1> QED
  BY <1>13, <1>15, <1>16, <1>2, <1>4, <1>10, <1>11, <1>12 DEF CapacityInv, NoneDue, Quiet

(***************************************************************************)
(* All steps together.  Only the second half of mark_dispatched starts     *)
(* anything, and only completion, reset and reconciliation free a slot.    *)
(***************************************************************************)
StartsInTime ==
    \A d \in Dispatches : permit[d].state = "admitted" /\ permit'[d].state = "dispatched" =>
        \E c \in Callers : /\ calling[c] # NoTime
                           /\ calling'[c] = NoTime
                           /\ calling[c] < permit[d].requestDeadline

StartsWithinCap ==
    \A d \in Dispatches : permit[d].state = "admitted" /\ permit'[d].state = "dispatched" =>
        Cardinality(Remote(permit', GroupIn(permit, d))) <= policy[GroupIn(permit, d)].maxInflight

FreesWithEvidence ==
    \A d \in Dispatches : permit[d].state \in Completable /\ permit'[d].state \notin Completable =>
        CompleteDispatch \/ OperatorReset \/ OperatorReconcile

StepInv == CapacityInv' /\ InTime /\ InOrder /\ StartsInTime /\ StartsWithinCap /\ FreesWithEvidence

LEMMA OrdinaryStep ==
    ASSUME CapacityInv', InTime, InOrder, StartsNothing, Keeps(permit, permit')
    PROVE  StepInv
<1>1. StartsInTime /\ StartsWithinCap
  BY DEF StartsNothing, StartsInTime, StartsWithinCap
<1>2. FreesWithEvidence
  BY DEF Keeps, FreesWithEvidence
<1> QED
  BY <1>1, <1>2 DEF StepInv

LEMMA FreeingStep ==
    ASSUME CapacityInv', InTime, InOrder, StartsNothing,
           CompleteDispatch \/ OperatorReset \/ OperatorReconcile
    PROVE  StepInv
<1>1. StartsInTime /\ StartsWithinCap
  BY DEF StartsNothing, StartsInTime, StartsWithinCap
<1>2. FreesWithEvidence
  BY DEF FreesWithEvidence
<1> QED
  BY <1>1, <1>2 DEF StepInv

LEMMA StutterStep ==
    ASSUME CapacityInv, Quiet, UNCHANGED coordinatorVars PROVE StepInv
<1>1. \A d \in Dispatches :
         /\ Follows(permit'[d], permit[d])
         /\ permit'[d].state = "admitted" =>
               /\ permit[d].state = "admitted"
               /\ permit'[d].requestDeadline = permit[d].requestDeadline
         /\ permit'[d].state = "queued" => permit[d].state = "queued"
         /\ permit'[d].state \in Slot <=> permit[d].state \in Slot
  BY DEF coordinatorVars, Follows
<1>2. WellFormed(permit') /\ queue' = Waits(permit')
  BY SnapshotNow DEF coordinatorVars
<1>3. CapacityInv' /\ InTime /\ InOrder
  BY <1>1, <1>2, PlainStep DEF coordinatorVars
<1>4. StartsNothing /\ Keeps(permit, permit')
  BY DEF coordinatorVars, StartsNothing, Keeps
<1> QED
  BY <1>3, <1>4, OrdinaryStep

\* What runs remotely once `d` is dispatched is part of what _admission_fits counted.
LEMMA DispatchFits ==
    ASSUME CapacityInv, NEW d \in Dispatches, NEW s \in Servers \cup {None},
           MarkDispatched(d, s), \A b \in Dispatches \ {d} : permit'[b] = permit[b]
    PROVE  Cardinality(Remote(permit', GroupIn(permit, d))) <= policy[GroupIn(permit, d)].maxInflight
<1> DEFINE g == GroupIn(permit, d)
<1>1. /\ permit[d].state = "admitted" /\ AdmissionFits(d)
      /\ Cardinality(Occupied(d)) <= policy[g].maxInflight
  BY DEF MarkDispatched, AdmissionFits
<1>2. permit[d].serial \in Nat
  BY SnapshotNow DEF Well, PermitRecords
<1>3. Remote(permit', g) \subseteq Occupied(d)
  BY <1>1, <1>2 DEF Remote, Occupied, GroupIn, Completable
<1>4. policy[g] \in Policies
  BY <1>1, SnapshotNow, PlacedGroup
<1>5. policy[g].maxInflight \in Nat
  BY <1>4, CoordinatorAssumption DEF IsPolicy
<1>6. IsFiniteSet(Occupied(d))
  BY CoordinatorAssumption, FS_Subset DEF Occupied
<1>7. /\ Cardinality(Remote(permit', g)) <= Cardinality(Occupied(d))
      /\ Cardinality(Remote(permit', g)) \in Nat /\ Cardinality(Occupied(d)) \in Nat
  BY <1>3, <1>6, FS_Subset, FS_CardinalityType
<1> QED
  BY <1>1, <1>5, <1>7

LEMMA DispatchStep ==
    ASSUME CapacityInv, NEW c \in Callers, NEW d \in Dispatches,
           NEW s \in Servers \cup {None}, FinishMarkDispatched(c, d, s)
    PROVE  StepInv
<1>1. calling[c] # NoTime /\ MarkDispatched(d, s) /\ Return(c)
  BY DEF FinishMarkDispatched
<1>2. Quiet
  BY <1>1, QuietReturn
<1>3. /\ CapacityInv' /\ InTime /\ InOrder /\ Keeps(permit, permit')
      /\ \A b \in Dispatches \ {d} : permit'[b] = permit[b]
  BY <1>1, <1>2, MarkDispatchedInv
<1>4. calling'[c] = NoTime
  BY <1>1 DEF Return, CapacityInv
<1>5. permit[d].state = "admitted" => calling[c] < permit[d].requestDeadline
  BY <1>1 DEF CapacityInv, NoneDue
<1>6. StartsInTime
  BY <1>1, <1>3, <1>4, <1>5 DEF StartsInTime
<1>7. FreesWithEvidence
  BY <1>3 DEF Keeps, FreesWithEvidence
<1>8. Cardinality(Remote(permit', GroupIn(permit, d))) <= policy[GroupIn(permit, d)].maxInflight
  BY <1>1, <1>3, DispatchFits
<1>9. StartsWithinCap
  BY <1>3, <1>8 DEF StartsWithinCap
<1> QED
  BY <1>3, <1>6, <1>7, <1>9 DEF StepInv

LEMMA CallStep == ASSUME CapacityInv, NEW c \in Callers, Call(c) PROVE StepInv
<1>1. calling[c] # NoTime => calling[c] \in Nat /\ clock <= calling[c] + Lag
  BY RecentSecond
<1>2. Return(c) => Quiet
  BY QuietReturn
<1>3. CASE \E t \in Recent : BeginCall(c, t)
  BY <1>3, BeginCallInv, OrdinaryStep
<1>4. CASE EndCall(c)
  BY <1>2, <1>4, StutterStep DEF EndCall
<1>5. CASE \E d \in Dispatches, e \in Endpoints, proc \in Processes : FinishAcquire(c, d, e, proc)
  BY <1>1, <1>2, <1>5, AcquireInv, OrdinaryStep DEF FinishAcquire
<1>6. CASE \E d \in Dispatches, s \in Servers \cup {None} : FinishMarkDispatched(c, d, s)
  BY <1>6, DispatchStep
<1>7. CASE \E d \in Dispatches : FinishCancel(c, d)
  BY <1>1, <1>2, <1>7, CancelInv, OrdinaryStep DEF FinishCancel
<1>8. CASE \E d \in Dispatches : FinishNoteHeartbeatExpired(c, d)
  BY <1>2, <1>8, HeartbeatInv, OrdinaryStep DEF FinishNoteHeartbeatExpired
<1>9. CASE \E proc \in Processes : FinishReportProcessStopped(c, proc)
  BY <1>1, <1>2, <1>9, StoppedInv, OrdinaryStep DEF FinishReportProcessStopped
<1>10. CASE \E d \in Dispatches : FinishRevalidate(c, d)
  BY <1>2, <1>10, RevalidateInv, OrdinaryStep DEF FinishRevalidate
<1> QED
  BY <1>3, <1>4, <1>5, <1>6, <1>7, <1>8, <1>9, <1>10 DEF Call

LEMMA NextStep == ASSUME CapacityInv, Next PROVE StepInv
<1>1. \A t \in Recent : t \in Nat /\ clock <= t + Lag
  BY RecentSecond
<1>2. Alone => Quiet
  BY QuietAlone
<1>3. CASE Tick
  BY <1>3, TickInv, OrdinaryStep
<1>4. CASE \E c \in Callers : Call(c)
  BY <1>4, CallStep
<1>5. CASE RegisterDeclarations
  BY <1>5, RegisterInv, OrdinaryStep DEF RegisterDeclarations
<1>6. CASE OperatorTransition
  BY <1>1, <1>2, <1>6, TransitionInv, OrdinaryStep DEF OperatorTransition
<1>7. CASE CompleteDispatch
  <2>1. CapacityInv' /\ InTime /\ InOrder /\ StartsNothing
    BY <1>1, <1>2, <1>7, CompleteInv DEF CompleteDispatch
  <2> QED
    BY <1>7, <2>1, FreeingStep
<1>8. CASE OperatorReset
  <2>1. CapacityInv' /\ InTime /\ InOrder /\ StartsNothing
    BY <1>1, <1>2, <1>8, ResetInv DEF OperatorReset
  <2> QED
    BY <1>8, <2>1, FreeingStep
<1>9. CASE OperatorReconcile
  <2>1. CapacityInv' /\ InTime /\ InOrder /\ StartsNothing
    BY <1>1, <1>2, <1>9, ReconcileInv DEF OperatorReconcile
  <2> QED
    BY <1>9, <2>1, FreeingStep
<1>10. CASE OperatorPrune
  BY <1>2, <1>10, PruneInv, OrdinaryStep DEF OperatorPrune
<1> QED
  BY <1>3, <1>4, <1>5, <1>6, <1>7, <1>8, <1>9, <1>10 DEF Next

LEMMA BoxStep == CapacityInv /\ [Next]_capacityVars => StepInv
<1> SUFFICES ASSUME CapacityInv, [Next]_capacityVars PROVE StepInv
  OBVIOUS
<1>1. CASE Next
  BY <1>1, NextStep
<1>2. CASE UNCHANGED capacityVars
  <2>1. Quiet /\ UNCHANGED coordinatorVars
    BY <1>2 DEF capacityVars, coordinatorVars, Quiet, CapacityInv
  <2> QED
    BY <2>1, StutterStep
<1> QED
  BY <1>1, <1>2

LEMMA AlwaysInv == Spec => []CapacityInv
<1>1. CapacityInv /\ [Next]_capacityVars => CapacityInv'
  BY BoxStep DEF StepInv
<1> QED
  BY <1>1, InitInv, PTL DEF Spec

(***************************************************************************)
(* The theorems.                                                           *)
(***************************************************************************)
\* Every value state.json can hold is one the coordinator's records allow.
THEOREM CapacityTyped == Spec => []CapacityTypeOK
BY AlwaysInv, InvTyped, PTL

\* No sequence of calls, however interleaved, leaves a state that
\* _validate_state rejects: the coordinator never locks itself out.
THEOREM CapacityValid == Spec => []ValidState
BY AlwaysInv, InvValid, PTL

\* A waiting entry whose queue deadline has come is never promoted by anyone.
THEOREM PromotionsInTime == Spec => PromotedInTime
<1>1. CapacityInv /\ [Next]_capacityVars => InTime
  BY BoxStep DEF StepInv
<1>2. InTime => \A d \in Dispatches :
         (permit[d].state = "queued" /\ permit'[d].state = "admitted") =>
            permit'[d].requestDeadline - policy'[GroupIn(permit, d)].requestTimeout
               < permit[d].queueDeadline
  BY DEF InTime
<1> QED
  BY <1>1, <1>2, AlwaysInv, PTL DEF Spec, PromotedInTime

\* Whatever frees a slot or raises a cap, no entry is left waiting for an
\* endpoint that could take it: a client that only polls misses no promotion.
THEOREM NoSlotIdle == Spec => []WorkConserving
<1>1. CapacityInv => WorkConserving
  BY DEF CapacityInv
<1> QED
  BY <1>1, AlwaysInv, PTL

\* Slots of an endpoint are granted in the order in which they were asked for,
\* by promotion and by an acquire that finds one free.
THEOREM GrantsInOrder == Spec => NoOvertaking
<1>1. CapacityInv /\ [Next]_capacityVars => InOrder
  BY BoxStep DEF StepInv
<1>2. InOrder => \A d \in Dispatches :
         (permit[d].state \notin Slot /\ permit'[d].state \in Slot) =>
            ~ \E w \in queue' : /\ permit'[w].endpoint = permit'[d].endpoint
                                /\ permit'[w].serial < permit'[d].serial
  BY DEF InOrder
<1> QED
  BY <1>1, <1>2, AlwaysInv, PTL DEF Spec, NoOvertaking

\* mark_dispatched starts nothing whose request deadline has come, although
\* others may move the coordinator between its expiry and its change.
THEOREM DispatchesInTime == Spec => NoLateDispatch
<1>1. CapacityInv /\ [Next]_capacityVars => StartsInTime
  BY BoxStep DEF StepInv
<1>2. StartsInTime => \A d \in Dispatches :
         (permit[d].state = "admitted" /\ permit'[d].state = "dispatched") =>
            \E c \in Callers : /\ calling[c] # NoTime
                               /\ calling'[c] = NoTime
                               /\ calling[c] < permit[d].requestDeadline
  BY DEF StartsInTime
<1> QED
  BY <1>1, <1>2, AlwaysInv, PTL DEF Spec, NoLateDispatch

\* Expiry, cancellation, lost heartbeats, dead processes, new configurations
\* and pruning never free the slot of work the server may still be doing.
THEOREM SlotsKept == Spec => SlotKeptUntilEvidence
<1>1. CapacityInv /\ [Next]_capacityVars => FreesWithEvidence
  BY BoxStep DEF StepInv
<1>2. FreesWithEvidence => \A d \in Dispatches :
         (permit[d].state \in Completable /\ permit'[d].state \notin Completable) =>
            CompleteDispatch \/ OperatorReset \/ OperatorReconcile
  BY DEF FreesWithEvidence
<1> QED
  BY <1>1, <1>2, AlwaysInv, PTL DEF Spec, SlotKeptUntilEvidence

\* However the caps were lowered and whoever races to dispatch, a dispatch that
\* starts leaves the remote work of its group within the cap then in force.
THEOREM DispatchesWithinCap == Spec => DispatchWithinCap
<1>1. CapacityInv /\ [Next]_capacityVars => StartsWithinCap
  BY BoxStep DEF StepInv
<1>2. StartsWithinCap => \A d \in Dispatches :
         (permit[d].state = "admitted" /\ permit'[d].state = "dispatched") =>
            Cardinality(Remote(permit', GroupIn(permit, d)))
               <= policy[GroupIn(permit, d)].maxInflight
  BY DEF StartsWithinCap
<1> QED
  BY <1>1, <1>2, AlwaysInv, PTL DEF Spec, DispatchWithinCap

=============================================================================
