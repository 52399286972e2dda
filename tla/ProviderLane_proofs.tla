------------------------- MODULE ProviderLane_proofs -------------------------
(***************************************************************************)
(* Proofs about ProviderLane, for any set of attempts and clients.         *)
(*                                                                         *)
(* The invariant LaneInv has a part about the lane alone (Ladder) and one  *)
(* about each attempt (Slot).  The heart of Slot is that a probe whose     *)
(* answer may still be recorded holds the token of the lane: this is what  *)
(* the hand-over from owner to observer is for, and why an answer that     *)
(* finds the epoch it was admitted in speaks for the lane.                 *)
(***************************************************************************)
EXTENDS ProviderLane, TLAPS

Ladder(l) ==
    /\ l.floor <= l.epoch
    /\ l.retired => l.token = None
    /\ ~l.retired =>
          /\ l.count < MaxCount => l.epoch = l.floor + l.count
          /\ l.count = 0 => ~l.cooling /\ l.token = None

\* Where owner, request and observer of an attempt can be together.
Places(r) ==
    /\ owner[r] = "admitted" => transport[r] = "none"
    /\ owner[r] = "waiting" => transport[r] # "none"
    /\ owner[r] = "sleeping" => transport[r] \in {"other", "failed"}
    /\ ownership[r].settled <=> (transport[r] # "none" /\ observer[r] = "none")
    /\ transport[r] = "none" => observer[r] = "none"
    /\ observer[r] = "dozing" => transport[r] \in {"ok", "refused", "other"}
    /\ ownership[r].byObserver => owner[r] = "idle"

\* What the epoch of a permit says of the lane.
Epochs(r) ==
    /\ permit[r].epoch <= lane.epoch
    /\ permit[r].epoch = lane.epoch => r \notin overtaken
    /\ (permit[r].epoch = lane.epoch /\ ~permit[r].probe /\ ~lane.retired) => lane.count = 0

Held(r) ==
    lane.token = r =>
        /\ permit[r].probe /\ permit[r].epoch = lane.epoch /\ ~ownership[r].released
        /\ owner[r] # "idle" \/ (observer[r] # "none" /\ ownership[r].byObserver)

\* A probe that may still be answered holds the token.
Holds(r) ==
    (permit[r].probe /\ ~lane.retired) =>
        /\ owner[r] = "admitted" => lane.token = r
        /\ transport[r] = "running" => lane.token = r /\ observer[r] = "watching"
        /\ (/\ permit[r].epoch = lane.epoch
            /\ transport[r] \in {"ok", "refused"}
            /\ owner[r] = "waiting" \/ observer[r] \in {"watching", "dozing"}) => lane.token = r

Slot(r) == Places(r) /\ Epochs(r) /\ Held(r) /\ Holds(r)

LaneInv == LaneTypeOK /\ Ladder(lane) /\ \A r \in Requests : Slot(r)

(***************************************************************************)
(* What the answer to attempt r can make of the lane.                      *)
(***************************************************************************)
Moved(l, r) ==
    /\ l \in Lanes /\ Ladder(l)
    /\ l.retired = lane.retired
    /\ l.token \in {lane.token, None}
    /\ lane.token \notin {r, None} => l.token = lane.token
    /\ \/ l.epoch = lane.epoch /\ l.count = lane.count
       \/ /\ l.epoch = lane.epoch + 1 /\ l.token = None
          /\ ~lane.retired /\ permit[r].epoch = lane.epoch

LEMMA Unmoved ==
    ASSUME LaneInv, NEW r \in Requests
    PROVE  Moved(lane, r)
  BY DEF LaneInv, LaneTypeOK, Moved

LEMMA ReleasedMoves ==
    ASSUME LaneInv, NEW r \in Requests, NEW l, Moved(l, r)
    PROVE  /\ Moved(Released(l, r), r)
           /\ Released(l, r).token # r
           /\ Released(l, r).epoch = l.epoch
<1> r # None
  BY LaneAssumption
<1>1. CASE l.retired \/ l.token # r
  <2>1. Released(l, r) = l
    BY <1>1 DEF Released
  <2>2. l.token # r
    BY <1>1 DEF Moved, Ladder
  <2> QED
    BY <2>1, <2>2
<1>2. CASE ~l.retired /\ l.token = r
  <2>1. Released(l, r) = [l EXCEPT !.token = None]
    BY <1>2 DEF Released
  <2>2. Released(l, r) \in Lanes
    BY <2>1 DEF Moved, Lanes
  <2> QED
    BY <1>2, <2>1, <2>2 DEF Moved, Ladder, Lanes
<1> QED
  BY <1>1, <1>2

\* A lane that changes its epoch for r has no other token out.
LEMMA Alone ==
    ASSUME LaneInv, NEW r \in Requests, ~lane.retired, permit[r].epoch = lane.epoch,
           permit[r].probe => lane.token = r
    PROVE  lane.token \in {r, None}
<1> SUFFICES ASSUME NEW s \in Requests, lane.token = s, s # r PROVE FALSE
  BY DEF LaneInv, LaneTypeOK, Lanes
<1>1. ~permit[r].probe
  BY DEF LaneInv, LaneTypeOK, Lanes
<1>2. lane.count = 0
  BY <1>1 DEF LaneInv, Slot, Epochs
<1>3. lane.token = None
  BY <1>2 DEF LaneInv, Ladder
<1> QED
  BY <1>3, LaneAssumption

LEMMA SucceededMoves ==
    ASSUME LaneInv, NEW r \in Requests,
           (permit[r].probe /\ permit[r].epoch = lane.epoch /\ ~lane.retired) => lane.token = r
    PROVE  /\ Moved(Succeeded(lane, r), r)
           /\ (permit[r].probe /\ permit[r].epoch = lane.epoch /\ ~lane.retired)
                 => Succeeded(lane, r).epoch = lane.epoch + 1
<1> DEFINE l == Succeeded(lane, r)
<1>t. lane \in Lanes /\ Ladder(lane) /\ permit[r] \in Permits /\ MaxCount \in Nat \ {0}
  BY LaneAssumption DEF LaneInv, LaneTypeOK
<1>1. CASE lane.retired
  <2>1. l = lane
    BY <1>1 DEF Succeeded
  <2> QED
    BY <1>1, <2>1, Unmoved
<1>2. CASE ~lane.retired /\ permit[r].epoch = lane.epoch /\ permit[r].probe
  <2>1. l = [Healthy EXCEPT !.epoch = lane.epoch + 1, !.floor = lane.epoch + 1]
    BY <1>2 DEF Succeeded
  <2>2. /\ l.count = 0 /\ l.epoch = lane.epoch + 1 /\ l.floor = lane.epoch + 1
        /\ l.cooling = FALSE /\ l.token = None /\ l.retired = FALSE
    BY <2>1 DEF Healthy
  <2>3. l \in Lanes
    <3>1. l = [count |-> 0, epoch |-> lane.epoch + 1, floor |-> lane.epoch + 1,
               cooling |-> FALSE, token |-> None, retired |-> FALSE]
      BY <2>1 DEF Healthy
    <3>2. lane.epoch + 1 \in Nat /\ 0 \in 0..MaxCount
      BY <1>t DEF Lanes
    <3> QED
      BY <3>1, <3>2 DEF Lanes
  <2>4. Ladder(l)
    BY <1>t, <2>2 DEF Ladder, Lanes
  <2>5. lane.retired = FALSE /\ lane.token = r
    BY <1>2, <1>t DEF Lanes
  <2> QED
    BY <1>2, <2>2, <2>3, <2>4, <2>5 DEF Moved
<1>3. CASE ~lane.retired /\ permit[r].epoch = lane.epoch /\ ~permit[r].probe /\ lane.floor = 0
  <2>1. l = Healthy
    BY <1>3 DEF Succeeded
  <2>2. lane.count = 0
    BY <1>3 DEF LaneInv, Slot, Epochs
  <2>3. lane.epoch = 0 /\ ~lane.cooling /\ lane.token = None
    BY <1>t, <1>3, <2>2 DEF Ladder, Lanes
  <2>4. Healthy \in Lanes
    BY <1>t DEF Lanes, Healthy
  <2>5. Ladder(Healthy)
    BY <1>t DEF Ladder, Healthy
  <2>6. /\ Healthy.count = 0 /\ Healthy.epoch = 0 /\ Healthy.token = None
        /\ Healthy.retired = FALSE /\ lane.retired = FALSE
    BY <1>3, <1>t DEF Healthy, Lanes
  <2>7. Moved(Healthy, r)
    BY <2>2, <2>3, <2>4, <2>5, <2>6 DEF Moved
  <2> QED
    BY <1>3, <2>1, <2>7
<1>4. CASE ~lane.retired /\ ~(permit[r].epoch = lane.epoch /\ (permit[r].probe \/ lane.floor = 0))
  <2>1. l = Released(lane, r)
    BY <1>4 DEF Succeeded
  <2> QED
    BY <1>4, <2>1, Unmoved, ReleasedMoves
<1> QED
  BY <1>1, <1>2, <1>3, <1>4

LEMMA RefusedMoves ==
    ASSUME LaneInv, NEW r \in Requests,
           (permit[r].probe /\ permit[r].epoch = lane.epoch /\ ~lane.retired) => lane.token = r
    PROVE  /\ Moved(Refused(lane, r), r)
           /\ (permit[r].epoch = lane.epoch /\ ~lane.retired)
                 => Refused(lane, r).epoch = lane.epoch + 1
<1> DEFINE l == Refused(lane, r)
<1>t. lane \in Lanes /\ Ladder(lane) /\ permit[r] \in Permits /\ MaxCount \in Nat \ {0}
  BY LaneAssumption DEF LaneInv, LaneTypeOK
<1>e. permit[r].epoch <= lane.epoch
  BY DEF LaneInv, Slot, Epochs
<1>1. CASE lane.retired \/ permit[r].epoch < lane.floor
  <2>1. l = lane
    BY <1>1 DEF Refused
  <2>2. permit[r].epoch = lane.epoch => lane.retired
    BY <1>1, <1>t DEF Ladder, Lanes, Permits
  <2> QED
    BY <2>1, <2>2, Unmoved
<1>2. CASE ~lane.retired /\ permit[r].epoch >= lane.floor /\ permit[r].epoch = lane.epoch
  <2>1. l = Advanced(lane, r)
    <3>1. permit[r].epoch >= lane.epoch /\ ~(permit[r].epoch < lane.floor)
      BY <1>2, <1>t DEF Lanes, Permits
    <3> QED
      BY <1>2, <3>1 DEF Refused
  <2>2. lane.token \in {r, None}
    BY <1>2, Alone
  <2>3. Released(lane, r) \in Lanes /\ Released(lane, r).token = None
    BY <1>2, <1>t, <2>2 DEF Released, Lanes
  <2> DEFINE m == Released(lane, r)
  <2>4. m.floor = lane.floor /\ m.retired = lane.retired
    BY <1>t DEF Released, Lanes
  <2> DEFINE n == IF lane.count < MaxCount THEN lane.count + 1 ELSE lane.count
  <2> DEFINE c == Cooled(lane, r)
  <2>5. /\ c \in Lanes /\ c.floor = lane.floor /\ c.cooling = TRUE
        /\ c.token = None /\ c.retired = lane.retired
    BY <2>3, <2>4 DEF Cooled, Lanes
  <2>6. n \in 0..MaxCount /\ lane.epoch + 1 \in Nat
    BY <1>t DEF Lanes
  <2> HIDE DEF n, c
  <2>7. /\ l \in Lanes /\ l.count = n /\ l.epoch = lane.epoch + 1 /\ l.floor = lane.floor
        /\ l.cooling = TRUE /\ l.token = None /\ l.retired = lane.retired
    <3>1. l = [c EXCEPT !.count = n, !.epoch = lane.epoch + 1]
      BY <2>1 DEF Advanced, c, n
    <3> QED
      BY <2>5, <2>6, <3>1 DEF Lanes
  <2>8. Ladder(l)
    BY <1>2, <1>t, <2>7 DEF Ladder, Lanes, n
  <2> QED
    BY <1>2, <2>2, <2>7, <2>8 DEF Moved
<1>3. CASE ~lane.retired /\ permit[r].epoch >= lane.floor /\ permit[r].epoch # lane.epoch
  <2>1. l = Cooled(lane, r)
    <3>1. permit[r].epoch < lane.epoch /\ ~(permit[r].epoch < lane.floor)
      BY <1>3, <1>t, <1>e DEF Lanes, Permits
    <3> QED
      BY <1>3, <1>t, <3>1 DEF Refused, Lanes, Permits
  <2>2. Moved(Released(lane, r), r)
    BY Unmoved, ReleasedMoves
  <2>3. Released(lane, r).epoch = lane.epoch /\ Released(lane, r).count = lane.count
    BY <1>t DEF Released, Lanes
  <2>4. lane.count # 0
    BY <1>3, <1>t, <1>e DEF Ladder, Lanes, Permits
  <2> DEFINE m == Released(lane, r)
  <2>5. l = [count |-> m.count, epoch |-> m.epoch, floor |-> m.floor, cooling |-> TRUE,
             token |-> m.token, retired |-> m.retired]
    BY <2>1, <2>2 DEF Cooled, Moved, Lanes
  <2>6. l \in Lanes
    BY <2>2, <2>5 DEF Moved, Lanes
  <2>7. Ladder(l)
    BY <2>2, <2>3, <2>4, <2>5 DEF Moved, Ladder
  <2> QED
    BY <1>3, <2>2, <2>3, <2>5, <2>6, <2>7 DEF Moved
<1> QED
  BY <1>1, <1>2, <1>3, <1>t DEF Lanes, Permits

(***************************************************************************)
(* The attempts that do not move.                                          *)
(***************************************************************************)
LEMMA OthersKeep ==
    ASSUME LaneInv, NEW r \in Requests, NEW s \in Requests, s # r,
           Moved(lane', r), Overtake,
           permit'[s] = permit[s], ownership'[s] = ownership[s], owner'[s] = owner[s],
           transport'[s] = transport[s], observer'[s] = observer[s]
    PROVE  Slot(s)'
<1> USE LaneAssumption
<1>t. lane \in Lanes /\ permit[s] \in Permits /\ lane' \in Lanes
  BY DEF LaneInv, LaneTypeOK, Moved
<1>s. Slot(s)
  BY DEF LaneInv
<1>1. Places(s)'
  BY <1>s DEF Slot, Places
<1>2. lane.token = s <=> lane'.token = s
  <2>1. lane'.token = s => lane.token = s
    BY DEF Moved
  <2>2. lane.token = s => lane'.token = s
    BY DEF Moved
  <2> QED
    BY <2>1, <2>2
<1>3. CASE lane'.epoch = lane.epoch /\ lane'.count = lane.count
  <2>1. overtaken' = overtaken
    BY <1>3 DEF Overtake
  <2>2. Epochs(s)'
    BY <1>s, <1>3, <2>1 DEF Slot, Epochs, Moved
  <2>3. Held(s)' /\ Holds(s)'
    BY <1>s, <1>2, <1>3 DEF Slot, Held, Holds, Moved
  <2> QED
    BY <1>1, <2>2, <2>3 DEF Slot
<1>4. CASE lane'.epoch = lane.epoch + 1 /\ lane'.token = None
  <2>1. permit[s].epoch < lane'.epoch
    BY <1>s, <1>t, <1>4 DEF Slot, Epochs, Lanes, Permits
  <2>2. Epochs(s)'
    BY <1>t, <2>1 DEF Epochs, Lanes, Permits
  <2>3. lane'.token # s /\ lane.token # s
    BY <1>2, <1>4
  <2>4. Held(s)'
    BY <2>3 DEF Held
  <2>5. Holds(s)'
    <3>1. permit'[s].epoch # lane'.epoch
      BY <1>t, <2>1 DEF Lanes, Permits
    <3>2. (permit[s].probe /\ ~lane.retired) => transport[s] # "running" /\ owner[s] # "admitted"
      BY <1>s, <2>3 DEF Slot, Holds
    <3> QED
      BY <3>1, <3>2 DEF Holds, Moved
  <2> QED
    BY <1>1, <2>2, <2>4, <2>5 DEF Slot
<1> QED
  BY <1>3, <1>4 DEF Moved

\* The epochs of the attempt that moves the lane.
LEMMA MoverEpochs ==
    ASSUME LaneInv, NEW r \in Requests, Moved(lane', r), Overtake, permit' = permit
    PROVE  Epochs(r)'
<1>t. lane \in Lanes /\ permit[r] \in Permits /\ lane' \in Lanes
  BY DEF LaneInv, LaneTypeOK, Moved
<1>s. Epochs(r)
  BY DEF LaneInv, Slot
<1>1. CASE lane'.epoch = lane.epoch /\ lane'.count = lane.count
  BY <1>1, <1>s DEF Epochs, Moved, Overtake
<1>2. CASE lane'.epoch = lane.epoch + 1
  <2>1. permit[r].epoch < lane'.epoch
    BY <1>s, <1>t, <1>2 DEF Epochs, Lanes, Permits
  <2> QED
    BY <1>t, <2>1 DEF Epochs, Lanes, Permits
<1> QED
  BY <1>1, <1>2 DEF Moved

LEMMA OvertakeTyped ==
    ASSUME LaneTypeOK, Overtake
    PROVE  overtaken' \subseteq Requests
  BY DEF LaneTypeOK, Overtake

(***************************************************************************)
(* The end of an owner, whose handler left the lane l.                     *)
(***************************************************************************)
LEMMA LeaveKeeps ==
    ASSUME LaneInv, NEW r \in Requests, NEW l, Moved(l, r),
           NEW received \in BOOLEAN, NEW detached \in BOOLEAN,
           Leave(r, l, received, detached), ByOwner,
           owner[r] # "idle",
           ~received => l = lane,
           detached => transport[r] = "running",
           received => /\ transport[r] # "running"
                       /\ (/\ permit[r].probe /\ permit[r].epoch = lane.epoch /\ ~lane.retired
                           /\ transport[r] \in {"ok", "refused"}) => l.epoch = lane.epoch + 1
    PROVE  LaneInv'
<1> DEFINE mine == ownership[r]
           handed == detached \/ (permit[r].probe /\ transport[r] # "none" /\ ~received)
           frees == ~mine.released /\ (handed => mine.settled)
<1> USE LaneAssumption
<1>t. LaneTypeOK /\ Slot(r)
  BY DEF LaneInv
<1>o. mine \in Ownerships /\ mine.byObserver = FALSE
  BY <1>t DEF LaneTypeOK, Slot, Places, Ownerships
<1>1. /\ owner' = [owner EXCEPT ![r] = "idle"]
      /\ ownership' = [ownership EXCEPT ![r] =
                          [byObserver |-> handed, settled |-> mine.settled,
                           released |-> mine.released \/ frees, received |-> received]]
      /\ lane' = IF frees THEN Released(l, r) ELSE l
      /\ UNCHANGED <<permit, transport, observer, barrier>> /\ Overtake
  BY DEF Leave, ByOwner
<1>2. Moved(lane', r) /\ lane'.epoch = l.epoch
  BY <1>1, ReleasedMoves
<1>3. frees => lane'.token # r
  BY <1>1, ReleasedMoves
<1>4. LaneTypeOK'
  <2>1. [byObserver |-> handed, settled |-> mine.settled,
         released |-> mine.released \/ frees, received |-> received] \in Ownerships
    BY <1>o DEF Ownerships
  <2>2. ownership' \in [Requests -> Ownerships]
    BY <1>t, <1>1, <2>1 DEF LaneTypeOK
  <2> QED
    BY <1>t, <1>1, <1>2, <2>2, OvertakeTyped DEF LaneTypeOK, Moved
<1>5. Ladder(lane')
  BY <1>2 DEF Moved
<1>6. ASSUME NEW s \in Requests, s # r PROVE Slot(s)'
  BY <1>t, <1>1, <1>2, <1>6, OthersKeep DEF LaneTypeOK
<1>7. Slot(r)'
  <2>1. /\ owner'[r] = "idle" /\ observer'[r] = observer[r] /\ transport'[r] = transport[r]
        /\ permit'[r] = permit[r]
        /\ ownership'[r].byObserver = handed /\ ownership'[r].settled = mine.settled
        /\ ownership'[r].released = (mine.released \/ frees)
    BY <1>t, <1>1 DEF LaneTypeOK
  <2>2. mine.settled <=> (transport[r] # "none" /\ observer[r] = "none")
    BY <1>t DEF Slot, Places
  <2>3. Places(r)'
    BY <1>t, <2>1, <2>2 DEF Slot, Places
  <2>4. Epochs(r)'
    BY <1>1, <1>2, MoverEpochs
  <2>5. Held(r)'
    <3> SUFFICES ASSUME lane'.token = r
                 PROVE  /\ permit[r].probe /\ permit[r].epoch = lane'.epoch
                        /\ ~(mine.released \/ frees)
                        /\ observer[r] # "none" /\ handed
      BY <2>1 DEF Held
    <3>1. lane.token = r /\ lane'.epoch = lane.epoch
      BY <1>2 DEF Moved
    <3>2. permit[r].probe /\ permit[r].epoch = lane.epoch /\ ~mine.released
      BY <1>t, <3>1 DEF Slot, Held
    <3>3. ~frees
      BY <1>3
    <3>4. handed /\ ~mine.settled
      BY <3>2, <3>3
    <3>5. transport[r] # "none"
      BY <3>4
    <3> QED
      BY <2>2, <3>1, <3>2, <3>3, <3>4, <3>5
  <2>6. Holds(r)'
    <3> SUFFICES ASSUME permit[r].probe, ~lane'.retired
                 PROVE  /\ transport[r] = "running" => lane'.token = r /\ observer[r] = "watching"
                        /\ (/\ permit[r].epoch = lane'.epoch
                            /\ transport[r] \in {"ok", "refused"}
                            /\ observer[r] \in {"watching", "dozing"}) => lane'.token = r
      BY <2>1 DEF Holds
    <3>0. ~lane.retired
      BY <1>2 DEF Moved
    <3>1. ASSUME transport[r] = "running" PROVE lane'.token = r /\ observer[r] = "watching"
      <4>1. lane.token = r /\ observer[r] = "watching"
        BY <1>t, <3>0, <3>1 DEF Slot, Holds
      <4>2. ~received
        BY <3>1
      <4>3. handed /\ ~mine.settled
        BY <2>2, <3>1, <4>1, <4>2
      <4> QED
        BY <1>1, <4>1, <4>2, <4>3
    <3>2. ASSUME permit[r].epoch = lane'.epoch, transport[r] \in {"ok", "refused"},
                 observer[r] \in {"watching", "dozing"}
          PROVE  lane'.token = r
      <4>t. lane \in Lanes /\ permit[r] \in Permits
        BY <1>t DEF LaneTypeOK
      <4>1. permit[r].epoch = lane.epoch /\ lane'.epoch = lane.epoch
        BY <1>2, <1>t, <3>2, <4>t DEF Moved, Slot, Epochs, Lanes, Permits
      <4>2. ~received
        BY <1>2, <3>0, <3>2, <4>t, <4>1 DEF Lanes
      <4>3. lane.token = r
        BY <1>t, <3>0, <3>2, <4>1 DEF Slot, Holds
      <4>4. handed /\ ~mine.settled
        BY <2>2, <3>2, <4>2
      <4> QED
        BY <1>1, <4>2, <4>3, <4>4
    <3> QED
      BY <3>1, <3>2
  <2> QED
    BY <2>3, <2>4, <2>5, <2>6 DEF Slot
<1> QED
  BY <1>4, <1>5, <1>6, <1>7 DEF LaneInv

(***************************************************************************)
(* The end of an observer that left the lane l.                            *)
(***************************************************************************)
LEMMA SettleKeeps ==
    ASSUME LaneInv, NEW r \in Requests, NEW l, Moved(l, r),
           SettleObserver(r, l), ByObserver,
           observer[r] # "none",
           transport[r] = "running" => observer[r] = "cancelled",
           l = lane \/ l.epoch = lane.epoch + 1 \/ permit[r].epoch # lane.epoch \/ lane.retired
    PROVE  LaneInv'
<1> DEFINE mine == ownership[r]
           frees == mine.byObserver /\ ~mine.released
<1> USE LaneAssumption
<1>t. LaneTypeOK /\ Slot(r)
  BY DEF LaneInv
<1>o. mine \in Ownerships
  BY <1>t DEF LaneTypeOK
<1>1. /\ observer' = [observer EXCEPT ![r] = "none"]
      /\ ownership' = [ownership EXCEPT ![r].settled = TRUE,
                                        ![r].released = mine.released \/ frees]
      /\ lane' = IF frees THEN Released(l, r) ELSE l
      /\ UNCHANGED <<permit, owner, transport, barrier>> /\ Overtake
  BY DEF SettleObserver, ByObserver
<1>2. Moved(lane', r) /\ lane'.epoch = l.epoch
  BY <1>1, ReleasedMoves
<1>3. frees => lane'.token # r
  BY <1>1, ReleasedMoves
<1>4. LaneTypeOK'
  <2>1. ownership' \in [Requests -> Ownerships]
    BY <1>t, <1>o, <1>1 DEF LaneTypeOK, Ownerships
  <2>2. observer' \in [Requests -> {"none", "watching", "dozing", "cancelled"}]
    BY <1>t, <1>1 DEF LaneTypeOK
  <2> QED
    BY <1>t, <1>1, <1>2, <2>1, <2>2, OvertakeTyped DEF LaneTypeOK, Moved
<1>5. Ladder(lane')
  BY <1>2 DEF Moved
<1>6. ASSUME NEW s \in Requests, s # r PROVE Slot(s)'
  BY <1>t, <1>1, <1>2, <1>6, OthersKeep DEF LaneTypeOK
<1>7. Slot(r)'
  <2>1. /\ observer'[r] = "none" /\ owner'[r] = owner[r] /\ transport'[r] = transport[r]
        /\ permit'[r] = permit[r]
        /\ ownership'[r].byObserver = mine.byObserver /\ ownership'[r].settled = TRUE
        /\ ownership'[r].released = (mine.released \/ frees)
    BY <1>t, <1>1 DEF LaneTypeOK, Ownerships
  <2>2. transport[r] # "none"
    BY <1>t DEF Slot, Places
  <2>3. Places(r)'
    BY <1>t, <2>1, <2>2 DEF Slot, Places
  <2>4. Epochs(r)'
    BY <1>1, <1>2, MoverEpochs
  <2>5. Held(r)'
    <3> SUFFICES ASSUME lane'.token = r
                 PROVE  /\ permit[r].probe /\ permit[r].epoch = lane'.epoch
                        /\ ~(mine.released \/ frees)
                        /\ owner[r] # "idle"
      BY <2>1 DEF Held
    <3>1. lane.token = r /\ lane'.epoch = lane.epoch
      BY <1>2 DEF Moved
    <3>2. /\ permit[r].probe /\ permit[r].epoch = lane.epoch /\ ~mine.released
          /\ owner[r] # "idle" \/ mine.byObserver
      BY <1>t, <3>1 DEF Slot, Held
    <3>3. ~frees
      BY <1>3
    <3> QED
      BY <3>1, <3>2, <3>3
  <2>6. Holds(r)'
    <3> SUFFICES ASSUME permit[r].probe, ~lane'.retired
                 PROVE  /\ owner[r] # "admitted"
                        /\ transport[r] # "running"
                        /\ (/\ permit[r].epoch = lane'.epoch
                            /\ transport[r] \in {"ok", "refused"}
                            /\ owner[r] = "waiting") => lane'.token = r
      BY <2>1 DEF Holds
    <3>0. ~lane.retired
      BY <1>2 DEF Moved
    <3>a. owner[r] # "admitted"
      BY <1>t, <2>2 DEF Slot, Places
    <3>1. transport[r] # "running"
      BY <1>t, <3>0 DEF Slot, Holds
    <3>2. ASSUME permit[r].epoch = lane'.epoch, transport[r] \in {"ok", "refused"},
                 owner[r] = "waiting"
          PROVE  lane'.token = r
      <4>t. lane \in Lanes /\ permit[r] \in Permits
        BY <1>t DEF LaneTypeOK
      <4>1. permit[r].epoch = lane.epoch /\ lane'.epoch = lane.epoch
        BY <1>2, <1>t, <3>2, <4>t DEF Moved, Slot, Epochs, Lanes, Permits
      <4>2. l = lane
        BY <1>2, <3>0, <4>t, <4>1 DEF Lanes
      <4>3. lane.token = r
        BY <1>t, <3>0, <3>2, <4>1 DEF Slot, Holds
      <4>4. ~mine.byObserver
        BY <1>t, <3>2 DEF Slot, Places
      <4> QED
        BY <1>1, <4>2, <4>3, <4>4
    <3> QED
      BY <3>a, <3>1, <3>2
  <2> QED
    BY <2>3, <2>4, <2>5, <2>6 DEF Slot
<1> QED
  BY <1>4, <1>5, <1>6, <1>7 DEF LaneInv

(***************************************************************************)
(* The actions.                                                            *)
(***************************************************************************)
LEMMA InitKeeps == Init => LaneInv
<1> SUFFICES ASSUME Init PROVE LaneInv
  OBVIOUS
<1> USE LaneAssumption DEF Init, Healthy, Fresh
<1>1. LaneTypeOK
  <2>1. lane \in Lanes
    BY DEF Lanes
  <2>2. permit \in [Requests -> Permits]
    BY DEF Permits
  <2>3. ownership \in [Requests -> Ownerships]
    BY DEF Ownerships
  <2> QED
    BY <2>1, <2>2, <2>3 DEF LaneTypeOK
<1>2. Ladder(lane)
  BY DEF Ladder
<1>3. ASSUME NEW r \in Requests PROVE Slot(r)
  BY DEF Slot, Places, Epochs, Held, Holds
<1> QED
  BY <1>1, <1>2, <1>3 DEF LaneInv

LEMMA AcquireKeeps ==
    ASSUME LaneInv, NEW r \in Requests, Acquire(r)
    PROVE  LaneInv'
<1> USE LaneAssumption
<1> DEFINE probe == lane.count > 0
<1>t. LaneTypeOK /\ Slot(r) /\ Ladder(lane)
  BY DEF LaneInv
<1>l. lane \in Lanes
  BY <1>t DEF LaneTypeOK
<1>1. /\ owner[r] = "idle" /\ observer[r] = "none" /\ transport[r] # "running"
      /\ ~lane.retired
      /\ probe => lane.token = None
      /\ lane' = IF probe THEN [lane EXCEPT !.token = r] ELSE lane
      /\ permit' = [permit EXCEPT ![r] = [epoch |-> lane.epoch, probe |-> probe]]
      /\ ownership' = [ownership EXCEPT ![r] = Fresh]
      /\ owner' = [owner EXCEPT ![r] = "admitted"]
      /\ transport' = [transport EXCEPT ![r] = "none"]
      /\ overtaken' = overtaken \ {r}
      /\ UNCHANGED <<observer, barrier>>
  BY DEF Acquire
<1>2. /\ lane' \in Lanes /\ lane'.epoch = lane.epoch /\ lane'.count = lane.count
      /\ lane'.floor = lane.floor /\ lane'.cooling = lane.cooling /\ lane'.retired = lane.retired
      /\ lane'.token = IF probe THEN r ELSE lane.token
  BY <1>1, <1>l DEF Lanes
<1>3. lane.token = None
  BY <1>1, <1>l, <1>t DEF Ladder, Lanes
<1>4. LaneTypeOK'
  <2>1. [epoch |-> lane.epoch, probe |-> probe] \in Permits
    BY <1>l DEF Lanes, Permits
  <2>2. Fresh \in Ownerships
    BY DEF Fresh, Ownerships
  <2> QED
    BY <1>t, <1>1, <1>2, <2>1, <2>2 DEF LaneTypeOK
<1>5. Ladder(lane')
  BY <1>1, <1>2, <1>t, <1>l DEF Ladder, Lanes
<1>6. ASSUME NEW s \in Requests, s # r PROVE Slot(s)'
  <2>1. /\ permit'[s] = permit[s] /\ ownership'[s] = ownership[s] /\ owner'[s] = owner[s]
        /\ transport'[s] = transport[s] /\ observer'[s] = observer[s]
    BY <1>t, <1>1, <1>6 DEF LaneTypeOK
  <2>2. Slot(s) /\ lane.token # s /\ lane'.token # s
    BY <1>2, <1>3, <1>6 DEF LaneInv
  <2>3. Places(s)'
    BY <2>1, <2>2 DEF Slot, Places
  <2>4. Epochs(s)'
    BY <1>1, <1>2, <2>1, <2>2 DEF Slot, Epochs
  <2>5. Held(s)' /\ Holds(s)'
    BY <1>2, <2>1, <2>2 DEF Slot, Held, Holds
  <2> QED
    BY <2>3, <2>4, <2>5 DEF Slot
<1>7. Slot(r)'
  <2>1. /\ permit'[r].epoch = lane.epoch /\ (permit'[r].probe <=> probe)
        /\ ownership'[r].byObserver = FALSE /\ ownership'[r].settled = FALSE
        /\ ownership'[r].released = FALSE
        /\ owner'[r] = "admitted" /\ transport'[r] = "none" /\ observer'[r] = "none"
    BY <1>t, <1>1 DEF LaneTypeOK, Fresh
  <2>2. Places(r)'
    BY <2>1 DEF Places
  <2>3. Epochs(r)'
    <3>1. ~permit'[r].probe => lane.count = 0
      BY <1>l, <2>1 DEF Lanes
    <3>2. r \notin overtaken' /\ lane.epoch <= lane.epoch
      BY <1>1, <1>l DEF Lanes
    <3> QED
      BY ONLY <1>2, <2>1, <3>1, <3>2 DEF Epochs
  <2>4. Held(r)'
    BY <1>2, <1>3, <2>1 DEF Held
  <2>5. Holds(r)'
    <3>1. permit'[r].probe => lane'.token = r
      BY <1>2, <2>1
    <3> QED
      BY <2>1, <3>1 DEF Holds
  <2> QED
    BY <2>2, <2>3, <2>4, <2>5 DEF Slot
<1> QED
  BY <1>4, <1>5, <1>6, <1>7 DEF LaneInv

LEMMA DispatchKeeps ==
    ASSUME LaneInv, NEW r \in Requests, Dispatch(r)
    PROVE  LaneInv'
<1> USE LaneAssumption
<1>t. LaneTypeOK /\ Slot(r) /\ Ladder(lane)
  BY DEF LaneInv
<1>1. /\ owner[r] = "admitted"
      /\ owner' = [owner EXCEPT ![r] = "waiting"]
      /\ transport' = [transport EXCEPT ![r] = "running"]
      /\ observer' = [observer EXCEPT ![r] = "watching"]
      /\ UNCHANGED <<lane, permit, ownership, barrier, overtaken>>
  BY DEF Dispatch
<1>2. LaneTypeOK'
  BY <1>t, <1>1 DEF LaneTypeOK
<1>3. Ladder(lane')
  BY <1>1, <1>t
<1>4. Overtake
  BY <1>1 DEF Overtake
<1>5. Moved(lane', r)
  BY <1>1, Unmoved
<1>6. ASSUME NEW s \in Requests, s # r PROVE Slot(s)'
  BY <1>t, <1>1, <1>4, <1>5, <1>6, OthersKeep DEF LaneTypeOK
<1>7. Slot(r)'
  <2>1. owner'[r] = "waiting" /\ transport'[r] = "running" /\ observer'[r] = "watching"
    BY <1>t, <1>1 DEF LaneTypeOK
  <2>2. Places(r)'
    BY <1>t, <1>1, <2>1 DEF Slot, Places
  <2>3. Epochs(r)' /\ Held(r)'
    BY <1>t, <1>1, <2>1 DEF Slot, Epochs, Held
  <2>4. Holds(r)'
    BY <1>t, <1>1, <2>1 DEF Slot, Holds
  <2> QED
    BY <2>2, <2>3, <2>4 DEF Slot
<1> QED
  BY <1>2, <1>3, <1>6, <1>7 DEF LaneInv

LEMMA FinishKeeps ==
    ASSUME LaneInv, NEW r \in Requests, Finish(r)
    PROVE  LaneInv'
<1> USE LaneAssumption
<1>t. LaneTypeOK /\ Slot(r) /\ Ladder(lane)
  BY DEF LaneInv
<1>1. PICK reply \in Replies : transport' = [transport EXCEPT ![r] = reply]
  BY DEF Finish
<1>2. /\ transport[r] = "running"
      /\ UNCHANGED <<lane, permit, ownership, owner, observer, barrier, overtaken>>
  BY DEF Finish
<1>3. LaneTypeOK'
  BY <1>t, <1>1, <1>2 DEF LaneTypeOK
<1>4. Overtake /\ Moved(lane', r) /\ Ladder(lane')
  BY <1>t, <1>2, Unmoved DEF Overtake
<1>5. ASSUME NEW s \in Requests, s # r PROVE Slot(s)'
  BY <1>t, <1>1, <1>2, <1>4, <1>5, OthersKeep DEF LaneTypeOK
<1>6. Slot(r)'
  BY <1>t, <1>1, <1>2 DEF LaneTypeOK, Slot, Places, Epochs, Held, Holds, Replies
<1> QED
  BY <1>3, <1>4, <1>5, <1>6 DEF LaneInv

\* A wait before a retry keeps the permit.
LEMMA SleepKeeps ==
    ASSUME LaneInv, NEW r \in Requests, NEW received \in BOOLEAN, Sleep(r, received), ByOwner,
           owner[r] = "waiting", transport[r] \in {"other", "failed"}
    PROVE  LaneInv'
<1> USE LaneAssumption
<1>t. LaneTypeOK /\ Slot(r) /\ Ladder(lane)
  BY DEF LaneInv
<1>1. /\ owner' = [owner EXCEPT ![r] = "sleeping"]
      /\ ownership' = [ownership EXCEPT ![r].received = received]
      /\ UNCHANGED <<lane, permit, transport, observer, barrier>> /\ Overtake
  BY DEF Sleep, ByOwner
<1>2. overtaken' = overtaken
  BY <1>1 DEF Overtake
<1>3. LaneTypeOK'
  <2>1. ownership' \in [Requests -> Ownerships]
    BY <1>t, <1>1 DEF LaneTypeOK, Ownerships
  <2> QED
    BY <1>t, <1>1, <1>2, <2>1 DEF LaneTypeOK
<1>4. Moved(lane', r) /\ Ladder(lane')
  BY <1>t, <1>1, Unmoved
<1>5. ASSUME NEW s \in Requests, s # r PROVE Slot(s)'
  BY <1>t, <1>1, <1>4, <1>5, OthersKeep DEF LaneTypeOK
<1>6. Slot(r)'
  <2>1. /\ owner'[r] = "sleeping"
        /\ ownership'[r].byObserver = ownership[r].byObserver
        /\ ownership'[r].settled = ownership[r].settled
        /\ ownership'[r].released = ownership[r].released
    BY <1>t, <1>1 DEF LaneTypeOK, Ownerships
  <2>2. Places(r)'
    BY <1>t, <1>1, <2>1 DEF Slot, Places
  <2>3. Epochs(r)'
    BY <1>t, <1>1, <1>2 DEF Slot, Epochs
  <2>4. Held(r)' /\ Holds(r)'
    BY <1>t, <1>1, <2>1 DEF Slot, Held, Holds
  <2> QED
    BY <2>2, <2>3, <2>4 DEF Slot
<1> QED
  BY <1>3, <1>4, <1>5, <1>6 DEF LaneInv

LEMMA OwnerKeeps ==
    ASSUME LaneInv, NEW r \in Requests,
           Withdraw(r) \/ Receive(r) \/ Fail(r) \/ Wake(r) \/ Detach(r) \/ CancelOwner(r)
    PROVE  LaneInv'
<1>t. LaneTypeOK /\ Slot(r)
  BY DEF LaneInv
<1>u. Moved(lane, r)
  BY Unmoved
<1>1. CASE Withdraw(r)
  BY <1>1, <1>u, LeaveKeeps DEF Withdraw
<1>2. CASE Receive(r)
  <2>1. owner[r] = "waiting" /\ ByOwner
    BY <1>2 DEF Receive
  <2>2. CASE transport[r] = "ok" /\ Leave(r, Succeeded(lane, r), TRUE, FALSE)
    <3>1. (permit[r].probe /\ permit[r].epoch = lane.epoch /\ ~lane.retired) => lane.token = r
      BY <1>t, <2>1, <2>2 DEF Slot, Holds
    <3>2. /\ Moved(Succeeded(lane, r), r)
          /\ (permit[r].probe /\ permit[r].epoch = lane.epoch /\ ~lane.retired)
                => Succeeded(lane, r).epoch = lane.epoch + 1
      BY <3>1, SucceededMoves
    <3> QED
      BY <2>1, <2>2, <3>2, LeaveKeeps
  <2>3. CASE transport[r] = "refused" /\ Leave(r, Refused(lane, r), TRUE, FALSE)
    <3>1. (permit[r].probe /\ permit[r].epoch = lane.epoch /\ ~lane.retired) => lane.token = r
      BY <1>t, <2>1, <2>3 DEF Slot, Holds
    <3>2. /\ Moved(Refused(lane, r), r)
          /\ (permit[r].epoch = lane.epoch /\ ~lane.retired)
                => Refused(lane, r).epoch = lane.epoch + 1
      BY <3>1, RefusedMoves
    <3> QED
      BY <2>1, <2>3, <3>2, LeaveKeeps
  <2>4. CASE transport[r] = "other" /\ Leave(r, lane, TRUE, FALSE)
    BY <1>u, <2>1, <2>4, LeaveKeeps
  <2>5. CASE transport[r] = "other" /\ Sleep(r, TRUE)
    BY <2>1, <2>5, SleepKeeps
  <2> QED
    BY <1>2, <2>2, <2>3, <2>4, <2>5 DEF Receive
<1>3. CASE Fail(r)
  <2>1. owner[r] = "waiting" /\ transport[r] = "failed" /\ ByOwner
    BY <1>3 DEF Fail
  <2>2. CASE Leave(r, lane, FALSE, FALSE)
    BY <1>u, <2>1, <2>2, LeaveKeeps
  <2>3. CASE Sleep(r, FALSE)
    BY <2>1, <2>3, SleepKeeps
  <2> QED
    BY <1>3, <2>2, <2>3 DEF Fail
<1>4. CASE Wake(r)
  <2>1. owner[r] = "sleeping" /\ Leave(r, lane, ownership[r].received, FALSE) /\ ByOwner
    BY <1>4 DEF Wake
  <2>2. ownership[r].received \in BOOLEAN
    BY <1>t DEF LaneTypeOK, Ownerships
  <2>3. transport[r] \in {"other", "failed"}
    BY <1>t, <2>1 DEF Slot, Places
  <2> QED
    BY <1>u, <2>1, <2>2, <2>3, LeaveKeeps
<1>5. CASE Detach(r)
  BY <1>5, <1>u, LeaveKeeps DEF Detach
<1>6. CASE CancelOwner(r)
  BY <1>6, <1>u, LeaveKeeps DEF CancelOwner
<1> QED
  BY <1>1, <1>2, <1>3, <1>4, <1>5, <1>6

LEMMA ObserverKeeps ==
    ASSUME LaneInv, NEW r \in Requests, ObserverStep(r)
    PROVE  LaneInv'
<1>t. LaneTypeOK /\ Slot(r) /\ Ladder(lane)
  BY DEF LaneInv
<1>u. Moved(lane, r)
  BY Unmoved
<1>1. CASE Observe(r)
  <2>1. observer[r] = "watching" /\ ByObserver
    BY <1>1 DEF Observe
  <2>2. CASE transport[r] = "failed" /\ SettleObserver(r, lane)
    BY <1>u, <2>1, <2>2, SettleKeeps
  <2>3. CASE /\ transport[r] \in Replies \ {"failed"}
             /\ observer' = [observer EXCEPT ![r] = "dozing"]
             /\ lane' = IF transport[r] = "ok" THEN Succeeded(lane, r) ELSE lane
             /\ UNCHANGED ownership
    <3> USE LaneAssumption
    <3>1. UNCHANGED <<permit, owner, transport, ownership, barrier>> /\ Overtake
      BY <2>1, <2>3 DEF ByObserver
    <3>2. transport[r] = "ok" =>
             ((permit[r].probe /\ permit[r].epoch = lane.epoch /\ ~lane.retired) => lane.token = r)
      BY <1>t, <2>1 DEF Slot, Holds
    <3>3. Moved(lane', r)
      BY <1>u, <2>3, <3>2, SucceededMoves
    <3>4. (/\ transport[r] = "ok"
           /\ permit[r].probe /\ permit[r].epoch = lane.epoch /\ ~lane.retired)
              => lane'.epoch = lane.epoch + 1
      BY <2>3, <3>2, SucceededMoves
    <3>5. LaneTypeOK'
      <4>1. observer' \in [Requests -> {"none", "watching", "dozing", "cancelled"}]
        BY <1>t, <2>3 DEF LaneTypeOK
      <4> QED
        BY <1>t, <3>1, <3>3, <4>1, OvertakeTyped DEF LaneTypeOK, Moved
    <3>6. Ladder(lane')
      BY <3>3 DEF Moved
    <3>7. ASSUME NEW s \in Requests, s # r PROVE Slot(s)'
      BY <1>t, <2>3, <3>1, <3>3, <3>7, OthersKeep DEF LaneTypeOK
    <3>8. Slot(r)'
      <4>1. observer'[r] = "dozing"
        BY <1>t, <2>3 DEF LaneTypeOK
      <4>2. transport[r] \in {"ok", "refused", "other"}
        BY <2>3 DEF Replies
      <4>3. Places(r)'
        BY <1>t, <2>1, <3>1, <4>1, <4>2 DEF Slot, Places
      <4>4. Epochs(r)'
        BY <3>1, <3>3, MoverEpochs
      <4>5. Held(r)'
        <5> SUFFICES ASSUME lane'.token = r
                     PROVE  /\ permit[r].probe /\ permit[r].epoch = lane'.epoch
                            /\ ~ownership[r].released
                            /\ owner[r] # "idle" \/ ownership[r].byObserver
          BY <3>1, <4>1 DEF Held
        <5>1. lane.token = r /\ lane'.epoch = lane.epoch
          BY <3>3 DEF Moved
        <5> QED
          BY <1>t, <5>1 DEF Slot, Held
      <4>6. Holds(r)'
        <5> SUFFICES ASSUME permit[r].probe, ~lane'.retired
                     PROVE  /\ owner[r] # "admitted"
                            /\ (/\ permit[r].epoch = lane'.epoch
                                /\ transport[r] \in {"ok", "refused"}) => lane'.token = r
          BY <3>1, <4>1, <4>2 DEF Holds
        <5>0. ~lane.retired
          BY <3>3 DEF Moved
        <5>1. owner[r] # "admitted"
          BY <1>t, <4>2 DEF Slot, Places
        <5>2. ASSUME permit[r].epoch = lane'.epoch, transport[r] \in {"ok", "refused"}
              PROVE  lane'.token = r
          <6>t. lane \in Lanes /\ permit[r] \in Permits
            BY <1>t DEF LaneTypeOK
          <6>1. permit[r].epoch = lane.epoch /\ lane'.epoch = lane.epoch
            BY <1>t, <3>3, <5>2, <6>t DEF Moved, Slot, Epochs, Lanes, Permits
          <6>2. lane' = lane
            BY <2>3, <3>4, <5>0, <5>2, <6>t, <6>1 DEF Lanes
          <6> QED
            BY <1>t, <2>1, <5>0, <5>2, <6>1, <6>2 DEF Slot, Holds
        <5> QED
          BY <5>1, <5>2
      <4> QED
        BY <4>3, <4>4, <4>5, <4>6 DEF Slot
    <3> QED
      BY <3>5, <3>6, <3>7, <3>8 DEF LaneInv
  <2> QED
    BY <1>1, <2>2, <2>3 DEF Observe
<1>2. CASE Conclude(r)
  <2> DEFINE late == /\ transport[r] = "refused"
                     /\ ~ownership[r].received
                     /\ ClientOf[r] \notin barrier
  <2>1. /\ observer[r] = "dozing" /\ ByObserver
        /\ SettleObserver(r, IF late THEN Refused(lane, r) ELSE lane)
    BY <1>2 DEF Conclude
  <2>2. transport[r] # "running"
    BY <1>t, <2>1 DEF Slot, Places
  <2>3. CASE late
    <3>1. (permit[r].probe /\ permit[r].epoch = lane.epoch /\ ~lane.retired) => lane.token = r
      BY <1>t, <2>1, <2>3 DEF Slot, Holds
    <3>2. /\ Moved(Refused(lane, r), r)
          /\ (permit[r].epoch = lane.epoch /\ ~lane.retired)
                => Refused(lane, r).epoch = lane.epoch + 1
      BY <3>1, RefusedMoves
    <3> QED
      BY <2>1, <2>2, <2>3, <3>2, SettleKeeps
  <2>4. CASE ~late
    BY <1>u, <2>1, <2>2, <2>4, SettleKeeps
  <2> QED
    BY <2>3, <2>4
<1>3. CASE StopObserver(r)
  BY <1>3, <1>u, SettleKeeps DEF StopObserver
<1> QED
  BY <1>1, <1>2, <1>3 DEF ObserverStep

LEMMA CloseKeeps ==
    ASSUME LaneInv, NEW k \in Clients, Close(k)
    PROVE  LaneInv'
<1>1. LaneTypeOK'
  BY DEF LaneInv, LaneTypeOK, Close, requestVars
<1>2. Ladder(lane') /\ \A r \in Requests : Slot(r)'
  BY DEF LaneInv, Close, requestVars, Slot, Places, Epochs, Held, Holds
<1> QED
  BY <1>1, <1>2 DEF LaneInv

LEMMA CloseUnresolvedKeeps ==
    ASSUME LaneInv, NEW k \in Clients, CloseUnresolved(k)
    PROVE  LaneInv'
<1> USE LaneAssumption
<1>t. LaneTypeOK /\ Ladder(lane) /\ lane \in Lanes
  BY DEF LaneInv, LaneTypeOK
<1> DEFINE fenced == \E r \in Unresolved(k) : permit[r].probe /\ Fences(lane, r)
<1>1. /\ lane' = IF fenced THEN Retired(lane) ELSE lane
      /\ barrier' = barrier \cup {k}
      /\ observer' = [r \in Requests |->
                         IF ClientOf[r] = k /\ observer[r] # "none" THEN "cancelled" ELSE observer[r]]
      /\ Overtake
      /\ UNCHANGED <<permit, ownership, owner, transport>>
  BY DEF CloseUnresolved
<1>2. /\ lane' \in Lanes /\ Ladder(lane')
      /\ fenced => lane'.retired /\ lane'.epoch = lane.epoch + 1 /\ lane'.token = None
      /\ ~fenced => lane' = lane
  <2>1. CASE fenced
    <3>1. lane' = [lane EXCEPT !.epoch = lane.epoch + 1,
                               !.count = IF lane.count = 0 THEN 1 ELSE lane.count,
                               !.cooling = TRUE, !.token = None, !.retired = TRUE]
      BY <1>1, <2>1 DEF Retired
    <3>2. (IF lane.count = 0 THEN 1 ELSE lane.count) \in 0..MaxCount /\ lane.epoch + 1 \in Nat
      BY <1>t DEF Lanes
    <3>3. /\ lane' \in Lanes /\ lane'.retired = TRUE /\ lane'.epoch = lane.epoch + 1
          /\ lane'.token = None /\ lane'.floor = lane.floor
      BY <1>t, <3>1, <3>2 DEF Lanes
    <3> QED
      BY <1>t, <2>1, <3>3 DEF Ladder, Lanes
  <2>2. CASE ~fenced
    BY <1>1, <1>t, <2>2
  <2> QED
    BY <2>1, <2>2
<1>3. LaneTypeOK'
  <2>1. observer' \in [Requests -> {"none", "watching", "dozing", "cancelled"}]
    BY <1>t, <1>1 DEF LaneTypeOK
  <2> QED
    BY <1>t, <1>1, <1>2, <2>1, OvertakeTyped DEF LaneTypeOK
<1>4. ASSUME NEW r \in Requests PROVE Slot(r)'
  <2>t. Slot(r) /\ permit[r] \in Permits
    BY <1>t DEF LaneInv, LaneTypeOK
  <2>1. observer'[r] \in {observer[r], "cancelled"} /\ (observer'[r] = "none" <=> observer[r] = "none")
    BY <1>1
  <2>2. Places(r)'
    BY <1>1, <2>t, <2>1 DEF Slot, Places
  <2>3. Epochs(r)'
    <3>1. CASE fenced
      BY <1>1, <1>2, <1>t, <2>t, <3>1 DEF Slot, Epochs, Lanes, Permits
    <3>2. CASE ~fenced
      BY <1>1, <1>2, <2>t, <3>2 DEF Slot, Epochs, Overtake
    <3> QED
      BY <3>1, <3>2
  <2>4. Held(r)'
    BY <1>1, <1>2, <2>t, <2>1 DEF Slot, Held
  <2>5. Holds(r)'
    <3>1. CASE fenced
      BY <1>2, <3>1 DEF Holds
    <3>2. CASE ~fenced
      <4>1. ASSUME permit[r].probe, ~lane.retired, transport[r] = "running"
            PROVE  observer'[r] = observer[r]
        <5>1. lane.token = r
          BY <2>t, <4>1 DEF Slot, Holds
        <5>2. permit[r].epoch = lane.epoch
          BY <2>t, <5>1 DEF Slot, Held
        <5>3. Fences(lane, r)
          BY <1>t, <2>t, <5>1, <5>2 DEF Fences, Ladder, Lanes, Permits
        <5>4. ClientOf[r] # k
          BY <3>2, <4>1, <5>3 DEF Unresolved, Of
        <5> QED
          BY <1>1, <5>4
      <4> QED
        BY <1>1, <1>2, <2>t, <2>1, <3>2, <4>1 DEF Slot, Holds
    <3> QED
      BY <3>1, <3>2
  <2> QED
    BY <2>2, <2>3, <2>4, <2>5 DEF Slot
<1> QED
  BY <1>2, <1>3, <1>4 DEF LaneInv

LEMMA ElapseKeeps ==
    ASSUME LaneInv, Elapse
    PROVE  LaneInv'
<1>t. LaneTypeOK /\ Ladder(lane) /\ lane \in Lanes
  BY DEF LaneInv, LaneTypeOK
<1>1. /\ lane' = [lane EXCEPT !.cooling = FALSE]
      /\ UNCHANGED <<requestVars, barrier, overtaken>>
  BY DEF Elapse
<1>2. /\ lane' \in Lanes /\ lane'.epoch = lane.epoch /\ lane'.count = lane.count
      /\ lane'.floor = lane.floor /\ lane'.token = lane.token /\ lane'.retired = lane.retired
      /\ lane'.cooling = FALSE
  BY <1>t, <1>1 DEF Lanes
<1>3. LaneTypeOK'
  BY <1>t, <1>1, <1>2 DEF LaneTypeOK, requestVars
<1>4. Ladder(lane')
  BY <1>t, <1>2 DEF Ladder
<1>5. ASSUME NEW r \in Requests PROVE Slot(r)'
  <2>1. Slot(r)
    BY DEF LaneInv
  <2> QED
    BY <1>1, <1>2, <2>1 DEF requestVars, Slot, Places, Epochs, Held, Holds
<1> QED
  BY <1>3, <1>4, <1>5 DEF LaneInv

(***************************************************************************)
(* The specification.                                                      *)
(***************************************************************************)
LEMMA NextKeeps == LaneInv /\ [Next]_vars => LaneInv'
<1> SUFFICES ASSUME LaneInv, [Next]_vars PROVE LaneInv'
  OBVIOUS
<1>1. CASE UNCHANGED vars
  BY <1>1 DEF vars, requestVars, LaneInv, LaneTypeOK, Ladder, Slot, Places, Epochs, Held, Holds
<1>2. ASSUME NEW r \in Requests,
             \/ Acquire(r) \/ OwnerStep(r) \/ Detach(r) \/ CancelOwner(r) \/ Finish(r)
             \/ ObserverStep(r)
      PROVE  LaneInv'
  BY <1>2, AcquireKeeps, DispatchKeeps, OwnerKeeps, FinishKeeps, ObserverKeeps DEF OwnerStep
<1>3. ASSUME NEW k \in Clients, Close(k) \/ CloseUnresolved(k) PROVE LaneInv'
  BY <1>3, CloseKeeps, CloseUnresolvedKeeps
<1>4. CASE Elapse
  BY <1>4, ElapseKeeps
<1> QED
  BY <1>1, <1>2, <1>3, <1>4 DEF Next

(***************************************************************************)
(* LaneInv holds throughout: what ProviderLaneHealthRegistry keeps of a    *)
(* lane agrees with where the attempts that were admitted to it are.       *)
(***************************************************************************)
THEOREM LaneInvariant == Spec => []LaneInv
  BY InitKeeps, NextKeeps, PTL DEF Spec

(***************************************************************************)
(* Every variable keeps to its values; rejection_count never passes the    *)
(* value it saturates at.                                                  *)
(***************************************************************************)
THEOREM LaneTyped == Spec => []LaneTypeOK
<1>1. LaneInv => LaneTypeOK
  BY DEF LaneInv
<1> QED
  BY <1>1, LaneInvariant, PTL

(***************************************************************************)
(* The token of a half-open lane is held by a probe whose owner or whose   *)
(* observer will give it back.                                             *)
(***************************************************************************)
THEOREM TokenHeld == Spec => []TokenIsHeld
<1>1. LaneInv => TokenIsHeld
  BY DEF LaneInv, Slot, Held, TokenIsHeld
<1> QED
  BY <1>1, LaneInvariant, PTL

(***************************************************************************)
(* The back-off ladder counts the generations of refusals since the last   *)
(* recovery, and a healthy lane neither cools down nor awaits a probe.     *)
(***************************************************************************)
THEOREM LadderHolds == Spec => []LadderAgrees
<1>1. LaneInv => LadderAgrees
  BY DEF LaneInv, Ladder, LadderAgrees
<1> QED
  BY <1>1, LaneInvariant, PTL

(***************************************************************************)
(* One probe at a time.  While the lane serves, a probe under way holds    *)
(* the token; once it is retired nobody holds it, and what remains is that *)
(* no probe is admitted any more.                                          *)
(***************************************************************************)
UnderWay(r) == permit[r].probe /\ (owner[r] = "admitted" \/ transport[r] = "running")

OneUnderWay == \A r, s \in Requests : UnderWay(r) /\ UnderWay(s) => r = s

LEMMA NoneSetsOut ==
    ASSUME LaneInv, [Next]_vars, lane'.retired, NEW r \in Requests, UnderWay(r)'
    PROVE  UnderWay(r)
<1>t. LaneTypeOK
  BY DEF LaneInv
<1>1. CASE UNCHANGED vars
  BY <1>1 DEF vars, requestVars, UnderWay
<1>2. ASSUME NEW s \in Requests, Acquire(s) PROVE FALSE
  <2>1. ~lane.retired /\ lane' \in {lane, [lane EXCEPT !.token = s]}
    BY <1>2 DEF Acquire
  <2>2. lane'.retired = lane.retired
    BY <1>t, <2>1 DEF LaneTypeOK, Lanes
  <2> QED
    BY <2>1, <2>2
<1>3. ASSUME NEW s \in Requests, Dispatch(s) PROVE UnderWay(r)
  <2>1. owner[s] = "admitted" /\ permit' = permit
    BY <1>3 DEF Dispatch
  <2>2. CASE r = s
    BY <2>1, <2>2 DEF UnderWay
  <2>3. CASE r # s
    <3>1. owner'[r] = owner[r] /\ transport'[r] = transport[r]
      BY <1>t, <1>3, <2>3 DEF Dispatch, LaneTypeOK
    <3> QED
      BY <2>1, <3>1 DEF UnderWay
  <2> QED
    BY <2>2, <2>3
<1>4. ASSUME NEW s \in Requests,
             Withdraw(s) \/ Receive(s) \/ Fail(s) \/ Wake(s) \/ Detach(s) \/ CancelOwner(s)
      PROVE  UnderWay(r)
  <2>1. ByOwner /\ (owner' = [owner EXCEPT ![s] = "idle"] \/ owner' = [owner EXCEPT ![s] = "sleeping"])
    BY <1>4 DEF Withdraw, Receive, Fail, Wake, Detach, CancelOwner, Leave, Sleep
  <2>2. permit' = permit /\ transport' = transport
    BY <2>1 DEF ByOwner
  <2>3. owner'[r] = "admitted" => owner[r] = "admitted"
    BY <1>t, <2>1 DEF LaneTypeOK
  <2> QED
    BY <2>2, <2>3 DEF UnderWay
<1>5. ASSUME NEW s \in Requests, Finish(s) PROVE UnderWay(r)
  <2>1. permit' = permit /\ owner' = owner
    BY <1>5 DEF Finish
  <2>2. transport'[r] = "running" => transport[r] = "running"
    BY <1>t, <1>5 DEF Finish, LaneTypeOK, Replies
  <2> QED
    BY <2>1, <2>2 DEF UnderWay
<1>6. ASSUME NEW s \in Requests, ObserverStep(s) PROVE UnderWay(r)
  <2>1. ByObserver
    BY <1>6 DEF ObserverStep, Observe, Conclude, StopObserver
  <2> QED
    BY <2>1 DEF ByObserver, UnderWay
<1>7. ASSUME NEW k \in Clients, Close(k) \/ CloseUnresolved(k) PROVE UnderWay(r)
  BY <1>7 DEF Close, CloseUnresolved, requestVars, UnderWay
<1>8. CASE Elapse
  BY <1>8 DEF Elapse, requestVars, UnderWay
<1> QED
  BY <1>1, <1>2, <1>3, <1>4, <1>5, <1>6, <1>7, <1>8 DEF Next, OwnerStep

LEMMA OneKeeps ==
    ASSUME LaneInv, LaneInv', OneUnderWay, [Next]_vars
    PROVE  OneUnderWay'
<1> SUFFICES ASSUME NEW r \in Requests, NEW s \in Requests, UnderWay(r)', UnderWay(s)'
             PROVE  r = s
  BY DEF OneUnderWay
<1>1. CASE lane'.retired
  BY <1>1, NoneSetsOut DEF OneUnderWay
<1>2. CASE ~lane'.retired
  <2>1. lane'.token = r /\ lane'.token = s
    BY <1>2 DEF LaneInv, Slot, Holds, UnderWay
  <2> QED
    BY <2>1
<1> QED
  BY <1>1, <1>2

(***************************************************************************)
(* Two half-open probes are never under way together, however the owners,  *)
(* the observers and the closing of the clients interleave.                *)
(***************************************************************************)
THEOREM LoneProbeOnly == Spec => []LoneProbe
<1>1. Init => OneUnderWay
  BY DEF Init, OneUnderWay, UnderWay
<1>2. LaneInv /\ LaneInv' /\ OneUnderWay /\ [Next]_vars => OneUnderWay'
  BY OneKeeps
<1>3. OneUnderWay => LoneProbe
  BY DEF OneUnderWay, UnderWay, LoneProbe
<1> QED
  BY <1>1, <1>2, <1>3, LaneInvariant, PTL DEF Spec

(***************************************************************************)
(* What moves the epoch.                                                   *)
(***************************************************************************)
LEMMA FreshMover ==
    ASSUME LaneInv, NEW r \in Requests, NEW l, Moved(l, r), l.epoch # lane.epoch
    PROVE  r \notin overtaken
  BY DEF LaneInv, Slot, Epochs, Moved

LEMMA OwnerIsFresh ==
    ASSUME LaneInv, NEW r \in Requests, lane'.epoch # lane.epoch,
           Withdraw(r) \/ Receive(r) \/ Fail(r) \/ Wake(r) \/ Detach(r) \/ CancelOwner(r)
    PROVE  r \notin overtaken /\ owner'[r] # owner[r]
<1>t. LaneTypeOK /\ Slot(r)
  BY DEF LaneInv
<1>u. Moved(lane, r)
  BY Unmoved
<1>1. ASSUME NEW l, Moved(l, r), NEW received, NEW detached, Leave(r, l, received, detached),
             owner[r] # "idle"
      PROVE  r \notin overtaken /\ owner'[r] # owner[r]
  <2>1. owner'[r] = "idle"
    BY <1>t, <1>1 DEF Leave, LaneTypeOK
  <2>2. lane'.epoch = l.epoch
    BY <1>1, ReleasedMoves DEF Leave
  <2> QED
    BY <1>1, <2>1, <2>2, FreshMover
<1>2. CASE Receive(r)
  <2>0. owner[r] = "waiting"
    BY <1>2 DEF Receive
  <2>1. CASE transport[r] = "ok" /\ Leave(r, Succeeded(lane, r), TRUE, FALSE)
    <3>1. (permit[r].probe /\ permit[r].epoch = lane.epoch /\ ~lane.retired) => lane.token = r
      BY <1>t, <2>0, <2>1 DEF Slot, Holds
    <3> QED
      BY <1>1, <2>0, <2>1, <3>1, SucceededMoves
  <2>2. CASE transport[r] = "refused" /\ Leave(r, Refused(lane, r), TRUE, FALSE)
    <3>1. (permit[r].probe /\ permit[r].epoch = lane.epoch /\ ~lane.retired) => lane.token = r
      BY <1>t, <2>0, <2>2 DEF Slot, Holds
    <3> QED
      BY <1>1, <2>0, <2>2, <3>1, RefusedMoves
  <2>3. CASE Leave(r, lane, TRUE, FALSE) \/ Sleep(r, TRUE)
    BY <1>1, <1>u, <2>0, <2>3 DEF Sleep
  <2> QED
    BY <1>2, <2>1, <2>2, <2>3 DEF Receive
<1>3. CASE Withdraw(r)
  BY <1>1, <1>u, <1>3 DEF Withdraw
<1>4. CASE Fail(r)
  BY <1>1, <1>u, <1>4 DEF Fail, Sleep
<1>5. CASE Wake(r)
  BY <1>1, <1>u, <1>5 DEF Wake
<1>6. CASE Detach(r)
  BY <1>1, <1>u, <1>6 DEF Detach
<1>7. CASE CancelOwner(r)
  BY <1>1, <1>u, <1>7 DEF CancelOwner
<1> QED
  BY <1>2, <1>3, <1>4, <1>5, <1>6, <1>7

LEMMA ObserverIsFresh ==
    ASSUME LaneInv, NEW r \in Requests, lane'.epoch # lane.epoch, ObserverStep(r)
    PROVE  r \notin overtaken /\ observer'[r] # observer[r]
<1>t. LaneTypeOK /\ Slot(r)
  BY DEF LaneInv
<1>u. Moved(lane, r)
  BY Unmoved
<1>1. ASSUME NEW l, Moved(l, r), SettleObserver(r, l), observer[r] # "none"
      PROVE  r \notin overtaken /\ observer'[r] # observer[r]
  <2>1. observer'[r] = "none"
    BY <1>t, <1>1 DEF SettleObserver, LaneTypeOK
  <2>2. lane'.epoch = l.epoch
    BY <1>1, ReleasedMoves DEF SettleObserver
  <2> QED
    BY <1>1, <2>1, <2>2, FreshMover
<1>2. CASE Observe(r)
  <2>0. observer[r] = "watching"
    BY <1>2 DEF Observe
  <2>1. CASE SettleObserver(r, lane)
    BY <1>1, <1>u, <2>0, <2>1
  <2>2. CASE /\ observer' = [observer EXCEPT ![r] = "dozing"]
             /\ lane' = IF transport[r] = "ok" THEN Succeeded(lane, r) ELSE lane
    <3>1. observer'[r] = "dozing"
      BY <1>t, <2>2 DEF LaneTypeOK
    <3>2. transport[r] = "ok" /\ lane' = Succeeded(lane, r)
      BY <2>2
    <3>3. (permit[r].probe /\ permit[r].epoch = lane.epoch /\ ~lane.retired) => lane.token = r
      BY <1>t, <2>0, <3>2 DEF Slot, Holds
    <3> QED
      BY <2>0, <3>1, <3>2, <3>3, SucceededMoves, FreshMover
  <2> QED
    BY <1>2, <2>1, <2>2 DEF Observe
<1>3. CASE Conclude(r)
  <2> DEFINE late == /\ transport[r] = "refused"
                     /\ ~ownership[r].received
                     /\ ClientOf[r] \notin barrier
  <2>1. observer[r] = "dozing" /\ SettleObserver(r, IF late THEN Refused(lane, r) ELSE lane)
    BY <1>3 DEF Conclude
  <2>2. CASE late
    <3>1. (permit[r].probe /\ permit[r].epoch = lane.epoch /\ ~lane.retired) => lane.token = r
      BY <1>t, <2>1, <2>2 DEF Slot, Holds
    <3> QED
      BY <1>1, <2>1, <2>2, <3>1, RefusedMoves
  <2>3. CASE ~late
    BY <1>1, <1>u, <2>1, <2>3
  <2> QED
    BY <2>2, <2>3
<1>4. CASE StopObserver(r)
  BY <1>1, <1>u, <1>4 DEF StopObserver
<1> QED
  BY <1>2, <1>3, <1>4 DEF ObserverStep

LEMMA FenceIsFresh ==
    ASSUME LaneInv, NEW k \in Clients, CloseUnresolved(k), lane'.epoch # lane.epoch
    PROVE  \E r \in Requests \ overtaken : observer'[r] # observer[r]
<1>1. PICK r \in Unresolved(k) : permit[r].probe /\ Fences(lane, r)
  BY DEF CloseUnresolved
<1>2. r \in Requests /\ ClientOf[r] = k /\ transport[r] = "running" /\ lane.token = r
  BY <1>1 DEF Unresolved, Of, Fences
<1>3. permit[r].epoch = lane.epoch /\ r \notin overtaken
  BY <1>2 DEF LaneInv, Slot, Held, Epochs
<1>4. ~lane.retired
  BY <1>2, LaneAssumption DEF LaneInv, Ladder
<1>5. observer[r] = "watching"
  BY <1>1, <1>2, <1>4 DEF LaneInv, Slot, Holds
<1>6. observer'[r] = "cancelled"
  BY <1>2, <1>5 DEF CloseUnresolved
<1> QED
  BY <1>2, <1>3, <1>5, <1>6

(***************************************************************************)
(* The lane changes its epoch only on the answer to an attempt that was    *)
(* admitted in the present one.                                            *)
(***************************************************************************)
THEOREM EvidenceFresh == Spec => FreshEvidence
<1> DEFINE Evidence == lane'.epoch # lane.epoch =>
       \E r \in Requests \ overtaken : owner'[r] # owner[r] \/ observer'[r] # observer[r]
<1>1. LaneInv /\ [Next]_vars => [Evidence]_vars
  <2> SUFFICES ASSUME LaneInv, Next, lane'.epoch # lane.epoch
               PROVE  \E r \in Requests \ overtaken :
                         owner'[r] # owner[r] \/ observer'[r] # observer[r]
    OBVIOUS
  <2>1. ASSUME NEW r \in Requests, Acquire(r) PROVE FALSE
    <3>1. lane' \in {lane, [lane EXCEPT !.token = r]}
      BY <2>1 DEF Acquire
    <3> QED
      BY <3>1 DEF LaneInv, LaneTypeOK, Lanes
  <2>2. ASSUME NEW r \in Requests, Dispatch(r) \/ Finish(r) PROVE FALSE
    BY <2>2 DEF Dispatch, Finish
  <2>3. CASE Elapse
    BY <2>3 DEF Elapse, LaneInv, LaneTypeOK, Lanes
  <2>4. ASSUME NEW k \in Clients, Close(k) PROVE FALSE
    BY <2>4 DEF Close
  <2> QED
    BY <2>1, <2>2, <2>3, <2>4, OwnerIsFresh, ObserverIsFresh, FenceIsFresh DEF Next, OwnerStep
<1> QED
  BY <1>1, LaneInvariant, PTL DEF Spec, FreshEvidence

=============================================================================
