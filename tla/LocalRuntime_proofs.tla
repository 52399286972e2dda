------------------------- MODULE LocalRuntime_proofs -------------------------
(***************************************************************************)
(* What is proved of the request runtime, for every number of requests,    *)
(* endpoints and operators.  The coordinator and the ledger are reduced to *)
(* what they may do to the state of one permit and of one claim, and the   *)
(* runtime to a relation between the call a request makes next, what it    *)
(* remembers, and the states of its permit, its claim and its work.        *)
(***************************************************************************)
EXTENDS LocalRuntime, FiniteSetTheorems, TLAPS

(***************************************************************************)
(* The states of a permit before and after its request is dispatched, and  *)
(* those of a claim whose outcome is open.                                 *)
(***************************************************************************)
Fresh == {"queued", "admitted", "cancelled", "expired_before_dispatch"}

Begun == Capacity!Completable \cup {"completed", "released"}

Open == {"dispatched", "unknown"}

(***************************************************************************)
(* The calls of a request, by what it holds.                               *)
(***************************************************************************)
Placing == {"poll", "polled", "reserve", "reserving", "drop"}

Promising == {"callback", "ensure", "ensured", "charge", "undo", "undoRead", "undoRelease"}

Starting == {"start", "starting"}

Unsent == {"send", "void", "voidComplete", "voidSettle"}

Unobserved ==
    Starting \cup Unsent
      \cup {"exchange", "complete", "settle", "abandon", "abandonRead", "lateSettle", "observe"}

Freeing == {"free", "heartbeat", "heartbeatLost"}

Sent ==
    {"exchange", "complete", "settle", "abandon", "abandonRead", "lateSettle", "observe",
     "markUnknown"} \cup Freeing

Stopping == {"cancel", "cancelling"}

(***************************************************************************)
(* A request that makes call s and remembers m, with its permit in state p,*)
(* its claim in state c with the clock w, and its work in state r.         *)
(***************************************************************************)
Admission(s, p, c, m) ==
    /\ s \in {"idle", "acquire"} => p = "absent" /\ c = "none"
    /\ s \in Placing => /\ p \in Fresh
                        /\ c = "none" \/ (s = "drop" /\ c = "reserved" /\ m.torn = "reserve")
    /\ s \in Promising =>
          /\ p \in Fresh
          /\ c = "reserved" \/ (s \in {"undo", "undoRead"} /\ c = "dispatched" /\ m.torn = "charge")
    /\ s = "undoRead" => /\ m.permit \in Fresh /\ m.next = "undoRelease"
                         /\ m.permit \notin Waiting => p \notin Waiting
    /\ s = "undoRelease" => p \notin Waiting

Dispatching(s, p, c, r) ==
    /\ s \in Starting => p \in Fresh /\ c = "dispatched"
    /\ s \in Unsent => c \in Open /\ r = "none"
    /\ s \in {"send", "voidComplete"} => p \in Capacity!Completable \cup {"released"}
    /\ s = "void" => p \in Fresh \cup Capacity!Completable \cup {"released"}
    /\ s = "voidSettle" => p \in (Fresh \ Waiting) \cup Begun

Exchanging(s, p, c, m, r) ==
    /\ s \in Sent => p \in Begun /\ c \in Budget!Charged
    /\ s = "complete" => r = "done"
    /\ s \in {"settle", "lateSettle"} => p = "completed"

Abandoning(s, p, c, m) ==
    /\ s \in {"abandonRead", "observe", "markUnknown"} \cup Freeing =>
          /\ m.permit \in Begun /\ m.next = "failed"
          /\ m.permit = "completed" => p = "completed"
          /\ m.permit # "dispatched" => p # "dispatched"
    /\ s = "observe" => m.claim \in Open /\ (m.claim = "unknown" => c \in {"unknown", "completed"})
    /\ s \in Freeing => c \in {"unknown", "completed"}

Halting(s, p, c, m) ==
    s \in Stopping =>
        \/ /\ m.next = "failed" /\ p \in Fresh
           /\ c = "none" \/ (c = "reserved" /\ m.torn = "reserve")
        \/ m.next = "failed" /\ p \in Begun /\ c \in {"unknown", "completed"}
        \/ m.next = "undoRelease" /\ p \in Fresh /\ c = "reserved"
        \/ m.next = "voidSettle" /\ p \in Fresh /\ c = "dispatched"

Leaving(s, p, c, m) ==
    s \in {"done", "failed"} => /\ p \in Waiting => m.torn \in {"acquire", "charge"}
                                /\ c = "reserved" => m.torn = "reserve"
                                /\ c = "dispatched" => m.torn = "charge"
                                /\ p = "dispatched" => c = "completed"

Always(s, p, c, w, m, r) ==
    /\ r # "none" => p \in Begun /\ c \in Budget!Charged
    /\ c = "unknown" => p \in Begun
    /\ p = "released" => c \in {"unknown", "completed"}
    /\ (s \in Unobserved \/ (s \in Stopping /\ m.next = "voidSettle")) /\ c \in Open => w = None

Consistent(s, p, c, w, m, r) ==
    /\ Admission(s, p, c, m) /\ Dispatching(s, p, c, r)
    /\ Exchanging(s, p, c, m, r) /\ Abandoning(s, p, c, m)
    /\ Halting(s, p, c, m) /\ Leaving(s, p, c, m)
    /\ Always(s, p, c, w, m, r)

Phases ==
    \A d \in Dispatches :
        Consistent(pc[d], permit[d].state, claim[d].state, claim[d].receipt, memory[d], remote[d])

(***************************************************************************)
(* What an operator at step s of a command may count on.                   *)
(***************************************************************************)
Warranted(s, p, c, r) ==
    /\ s \in {"mark", "record", "release"} => p \in Begun \ {"dispatched"}
    /\ s = "release" => c \in {"unknown", "completed"}
    /\ s \in {"readForSettle", "settle", "complete"} => r = "done"

Warrants ==
    \A o \in Operators : command[o].step # "none" =>
        LET d == command[o].dispatch
        IN /\ d \in Dispatches
           /\ Warranted(command[o].step, permit[d].state, claim[d].state, remote[d])

\* A request that may be written off: its claim is in doubt or it was not sent.  (One that
\* is completed cannot be written off any more.)
Excused(p, c, r) == c = "unknown" \/ p = "completed" \/ r = "none"

OneOperator == \A o, q \in Operators : o = q

\* What one operator may count on where two may not.
Sole ==
    /\ \A d \in Dispatches :
          permit[d].state = "released" => Excused(permit[d].state, claim[d].state, remote[d])
    /\ \A o \in Operators :
          LET d == command[o].dispatch
          IN /\ command[o].step = "release" =>
                   Excused(permit[d].state, claim[d].state, remote[d])
             /\ command[o].step = "settle" => permit[d].state # "released"

(***************************************************************************)
(* The coordinator: what the shared tail of its mutations may do to a      *)
(* permit.  An entry that waits is promoted or cancelled, an admitted one  *)
(* expires, a dispatched one becomes unknown, and the rest is left alone.  *)
(***************************************************************************)
Drift(p, q) ==
    \/ q = p
    \/ p = "queued" /\ q \in {"admitted", "cancelled"}
    \/ p = "admitted" /\ q = "expired_before_dispatch"
    \/ p = "dispatched" /\ q = "completion_unknown"

Fit(p) ==
    /\ p \in Capacity!PermitRecords
    /\ p.state # "absent" => p.endpoint \in Endpoints
    /\ p.state \in Begun => p.wasDispatched
    /\ p.outcome = "capacity_released_unresolved" <=> p.state = "released"

Tail(old, new) ==
    /\ Fit(new) /\ Drift(old.state, new.state)
    /\ new.endpoint = old.endpoint /\ new.serial = old.serial

Waits(pp) == {d \in Dispatches : pp[d].state = "queued"}

Numbered(pp, n) ==
    /\ \A d \in Dispatches : pp[d].state # "absent" => pp[d].serial < n
    /\ \A d, e \in Dispatches :
          d # e /\ pp[d].state # "absent" /\ pp[e].state # "absent" => pp[d].serial # pp[e].serial

Filed(pp, q, n) ==
    /\ pp = [d \in Dispatches |-> pp[d]]
    /\ \A d \in Dispatches : Fit(pp[d])
    /\ q = Waits(pp)
    /\ Numbered(pp, n)

\* No permit is forgotten, because there are no more requests than tombstones.
Remembered == Cardinality(Dispatches) <= Tombstones

LEMMA SameCardinality ==
    ASSUME NEW S
    PROVE  Capacity!Cardinality(S) = Cardinality(S)
BY DEF Capacity!Cardinality, Cardinality

LEMMA Policed ==
    ASSUME NEW g \in Groups
    PROVE  /\ PolicyOf[g] \in Policies /\ PolicyOf[g].maxInflight \in Nat \ {0}
           /\ PolicyOf[g].queueTimeout \in Nat /\ PolicyOf[g].requestTimeout \in Nat
BY RuntimeAssumption DEF Capacity!IsPolicy

\* Two changes that leave a permit fit.
LEMMA CancelTail ==
    ASSUME NEW p, Fit(p), p.state = "queued"
    PROVE  LET c == Capacity!CancelBeforeDispatch(p)
           IN Tail(p, c) /\ c.state = "cancelled"
<1> DEFINE c == Capacity!CancelBeforeDispatch(p)
<1>1. p \in Capacity!PermitRecords
  BY DEF Fit
<1>2. c \in Capacity!PermitRecords
  BY <1>1 DEF Capacity!CancelBeforeDispatch, Capacity!PermitRecords, Capacity!PermitStates,
     Capacity!Terminal, Capacity!Outcomes
<1>3. /\ c.state = "cancelled" /\ c.outcome = "cancelled_before_dispatch"
      /\ c.endpoint = p.endpoint /\ c.serial = p.serial
  BY <1>1 DEF Capacity!CancelBeforeDispatch, Capacity!PermitRecords
<1> HIDE DEF c
<1>4. Fit(c)
  BY <1>2, <1>3 DEF Fit, Begun, Capacity!Completable
<1> QED
  BY <1>3, <1>4 DEF Tail, Drift, c

LEMMA UnknownTail ==
    ASSUME NEW p, Fit(p), p.state = "dispatched"
    PROVE  LET c == Capacity!BecomeUnknown(p)
           IN Tail(p, c) /\ c.state = "completion_unknown"
<1> DEFINE c == Capacity!BecomeUnknown(p)
<1>1. p \in Capacity!PermitRecords
  BY DEF Fit
<1>2. c \in Capacity!PermitRecords
  BY <1>1 DEF Capacity!BecomeUnknown, Capacity!PermitRecords, Capacity!PermitStates, Capacity!Slot
<1>3. /\ c.state = "completion_unknown" /\ c.outcome = p.outcome
      /\ c.wasDispatched = p.wasDispatched
      /\ c.endpoint = p.endpoint /\ c.serial = p.serial
  BY <1>1 DEF Capacity!BecomeUnknown, Capacity!PermitRecords
<1> HIDE DEF c
<1>4. Fit(c)
  BY <1>2, <1>3 DEF Fit, Begun, Capacity!Completable
<1> QED
  BY <1>3, <1>4 DEF Tail, Drift, c

\* What expiry makes of each permit.
LEMMA ExpireTail ==
    ASSUME NEW pp, NEW q, NEW n, Filed(pp, q, n), NEW gs, NEW t, NEW d \in Dispatches
    PROVE  LET due == Capacity!Expire(pp, q, gs, t)
           IN /\ Tail(pp[d], due[d])
              /\ due[d].state = "queued" <=>
                    pp[d].state = "queued" /\ d \notin Capacity!DueWaiting(pp, q, gs, t)
              /\ due[d].state = "queued" => due[d] = pp[d]
              /\ due[d].state \in Capacity!Slot => pp[d].state \in Capacity!Slot
<1> DEFINE due == Capacity!Expire(pp, q, gs, t)
           late == Capacity!DueWaiting(pp, q, gs, t)
<1>1. d \in late => pp[d].state = "queued"
  BY DEF Capacity!DueWaiting, Filed, Waits
<1>2. Fit(pp[d])
  BY DEF Filed
<1>3. CASE d \in late
  <2>1. due[d] = Capacity!CancelBeforeDispatch(pp[d])
    BY <1>1, <1>3 DEF Capacity!Expire
  <2> HIDE DEF due, late
  <2> QED
    BY <1>1, <1>2, <1>3, <2>1, CancelTail DEF Capacity!Slot, due, late
<1>4. CASE d \notin late /\ pp[d].state = "admitted" /\ Capacity!GroupIn(pp, d) \in gs
              /\ Capacity!RequestDue(pp[d], t)
  <2> DEFINE p == pp[d]
             c == [p EXCEPT !.state = "expired_before_dispatch",
                            !.outcome = "expired_before_dispatch", !.uncertain = FALSE]
  <2>1. due[d] = c
    BY <1>4 DEF Capacity!Expire
  <2>2. p \in Capacity!PermitRecords
    BY <1>2 DEF Fit
  <2>3. c \in Capacity!PermitRecords
    BY <2>2 DEF Capacity!PermitRecords, Capacity!PermitStates, Capacity!Terminal,
       Capacity!Outcomes
  <2>4. /\ c.state = "expired_before_dispatch" /\ c.outcome = "expired_before_dispatch"
        /\ c.endpoint = p.endpoint /\ c.serial = p.serial
    BY <2>2 DEF Capacity!PermitRecords
  <2> HIDE DEF c
  <2>5. Fit(c)
    BY <1>2, <1>4, <2>3, <2>4 DEF Fit, Begun, Capacity!Completable
  <2>6. Tail(p, c)
    BY <1>4, <2>4, <2>5 DEF Tail, Drift
  <2> HIDE DEF due, late
  <2> QED
    BY <1>4, <2>1, <2>4, <2>6 DEF Capacity!Slot, due, late
<1>5. CASE d \notin late /\ pp[d].state = "dispatched" /\ Capacity!GroupIn(pp, d) \in gs
              /\ Capacity!RequestDue(pp[d], t)
  <2>1. due[d] = Capacity!BecomeUnknown(pp[d])
    BY <1>5 DEF Capacity!Expire
  <2> HIDE DEF due, late
  <2> QED
    BY <1>2, <1>5, <2>1, UnknownTail DEF Capacity!Slot, due, late
<1>6. CASE d \notin late /\ ~(pp[d].state \in {"admitted", "dispatched"}
                             /\ Capacity!GroupIn(pp, d) \in gs
                             /\ Capacity!RequestDue(pp[d], t))
  <2>1. due[d] = pp[d]
    BY <1>6 DEF Capacity!Expire
  <2> HIDE DEF due, late
  <2> QED
    BY <1>2, <1>6, <2>1 DEF Tail, Drift, due, late
<1> QED
  BY <1>3, <1>4, <1>5, <1>6

\* What promotion makes of each permit.
LEMMA AdmitTail ==
    ASSUME NEW pp, NEW q, NEW n, Filed(pp, q, n), NEW won \in SUBSET q, NEW t \in Nat,
           NEW d \in Dispatches
    PROVE  LET after == Capacity!Admit(pp, PolicyOf, won, t)
           IN /\ Tail(pp[d], after[d])
              /\ d \in won => pp[d].state = "queued" /\ after[d].state = "admitted"
              /\ d \notin won => after[d] = pp[d]
<1> DEFINE after == Capacity!Admit(pp, PolicyOf, won, t)
           p == pp[d]
<1>1. Fit(p)
  BY DEF Filed
<1>2. CASE d \in won
  <2> DEFINE now == PolicyOf[Capacity!GroupIn(pp, d)]
             due == t + now.requestTimeout
             c == [p EXCEPT !.state = "admitted", !.bound = now, !.requestDeadline = due]
  <2>1. p.state = "queued"
    BY <1>2 DEF Filed, Waits
  <2>2. p \in Capacity!PermitRecords /\ p.endpoint \in Endpoints
    BY <1>1, <2>1 DEF Fit
  <2>3. Capacity!GroupIn(pp, d) \in Groups
    BY <2>2, RuntimeAssumption DEF Capacity!GroupIn
  <2>4. now \in Policies /\ due \in Nat
    BY <2>3, Policed
  <2>5. after[d] = c
    BY <1>2 DEF Capacity!Admit
  <2> HIDE DEF now, due
  <2>6. c \in Capacity!PermitRecords
    BY <2>2, <2>4 DEF Capacity!PermitRecords, Capacity!PermitStates, Capacity!Slot,
       Capacity!Times
  <2>7. /\ c.state = "admitted" /\ c.outcome = p.outcome
        /\ c.endpoint = p.endpoint /\ c.serial = p.serial
    BY <2>2 DEF Capacity!PermitRecords
  <2> HIDE DEF c
  <2>8. Fit(c)
    BY <1>1, <2>1, <2>6, <2>7 DEF Fit, Begun, Capacity!Completable
  <2>9. Tail(p, c)
    BY <2>1, <2>7, <2>8 DEF Tail, Drift
  <2> HIDE DEF after
  <2> QED
    BY <1>2, <2>1, <2>5, <2>7, <2>9 DEF after
<1>3. CASE d \notin won
  BY <1>1, <1>3 DEF Capacity!Admit, Tail, Drift
<1> QED
  BY <1>2, <1>3

\* Pruning forgets nothing.
LEMMA PruneForgetsNothing ==
    ASSUME Remembered, NEW pp, pp = [d \in Dispatches |-> pp[d]],
           \A d \in Dispatches : Fit(pp[d]), NEW gs
    PROVE  Capacity!Prune(pp, gs, Tombstones) = pp
<1>1. ASSUME NEW d \in Dispatches,
             NEW S, S \subseteq Dispatches, d \notin S
      PROVE  ~(Cardinality(S) >= Tombstones)
  <2>1. IsFiniteSet(Dispatches) /\ IsFiniteSet(S)
    BY <1>1, RuntimeAssumption, FS_Subset
  <2>2. Cardinality(S \cup {d}) = Cardinality(S) + 1 /\ Cardinality(S) \in Nat
    BY <1>1, <2>1, FS_AddElement, FS_CardinalityType
  <2>3. Cardinality(S \cup {d}) <= Cardinality(Dispatches) /\ Cardinality(Dispatches) \in Nat
    BY <1>1, <2>1, FS_Subset, FS_CardinalityType
  <2> QED
    BY <2>2, <2>3, RuntimeAssumption DEF Remembered
<1>2. ASSUME NEW d \in Dispatches
      PROVE  Capacity!Prune(pp, gs, Tombstones)[d] = pp[d]
  <2> DEFINE S == {e \in Dispatches : /\ pp[e].state \in Capacity!Terminal
                                      /\ Capacity!GroupIn(pp, e) = Capacity!GroupIn(pp, d)
                                      /\ pp[e].serial > pp[d].serial}
  <2>1. S \subseteq Dispatches
    OBVIOUS
  <2>2. CASE d \notin S
    <3>1. Capacity!Prune(pp, gs, Tombstones)[d]
            = IF /\ pp[d].state \in Capacity!Terminal /\ Capacity!GroupIn(pp, d) \in gs
                 /\ Capacity!Cardinality(S) >= Tombstones
              THEN Capacity!NoPermit
              ELSE pp[d]
      BY DEF Capacity!Prune
    <3> HIDE DEF S
    <3>2. ~(Capacity!Cardinality(S) >= Tombstones)
      BY <1>1, <2>1, <2>2, SameCardinality
    <3> QED
      BY <3>1, <3>2
  <2>3. d \notin S
    BY DEF Fit, Capacity!PermitRecords
  <2> QED
    BY <2>2, <2>3
<1> QED
  BY <1>2 DEF Capacity!Prune

(***************************************************************************)
(* The walk over the waiting list never takes a group over its cap: the    *)
(* youngest of the entries it admits there found room beside all others.   *)
(***************************************************************************)
LEMMA LeastNumber ==
    ASSUME NEW H, H \subseteq Nat, H # {}
    PROVE  \E h \in H : \A k \in H : h <= k
<1> DEFINE less == {ss \in Nat \X Nat : ss[1] < ss[2]}
<1>1. IsWellFoundedOn(less, Nat)
  <2>1. less = OpToRel(<, Nat)
    BY DEF OpToRel
  <2> QED
    BY <2>1, NatLessThanWellFounded
<1>2. PICK h \in H : \A k \in H : <<k, h>> \notin less
  <2> HIDE DEF less
  <2> QED
    BY <1>1, WFMin
<1>3. ASSUME NEW k \in H
      PROVE  h <= k
  <2>1. k \in Nat /\ h \in Nat /\ <<k, h>> \notin less
    BY <1>2
  <2>2. ~(k < h)
    BY <2>1
  <2> HIDE DEF less
  <2> QED
    BY <2>1, <2>2
<1> QED
  BY <1>3

\* Among finitely many numbered things one has the highest number.
LEMMA Youngest ==
    ASSUME NEW pp, NEW S \in SUBSET Dispatches, S # {},
           \A d \in S : pp[d].serial \in Nat,
           NEW n \in Nat, \A d \in S : pp[d].serial < n
    PROVE  \E w \in S : \A d \in S : pp[d].serial <= pp[w].serial
<1> DEFINE heights == {n - pp[d].serial : d \in S}
<1>1. heights \subseteq Nat /\ heights # {}
  OBVIOUS
<1>2. PICK least \in heights : \A h \in heights : least <= h
  <2> HIDE DEF heights
  <2> QED
    BY <1>1, LeastNumber
<1>3. PICK w \in S : least = n - pp[w].serial
  BY <1>2
<1>4. \A d \in S : n - pp[w].serial <= n - pp[d].serial
  BY <1>2, <1>3
<1> QED
  BY <1>3, <1>4

LEMMA WalkWithinCap ==
    ASSUME NEW pp, NEW q, NEW n \in Nat, Filed(pp, q, n), NEW gs,
           NEW won, Capacity!Promotes(pp, PolicyOf, q, gs, won),
           NEW g \in Groups, NEW mine, mine = {d \in won : Capacity!GroupIn(pp, d) = g},
           mine # {}
    PROVE  Cardinality(Capacity!SlotsOf(pp, g) \cup mine) <= PolicyOf[g].maxInflight
<1>1. won \subseteq q /\ q \subseteq Dispatches
  BY DEF Capacity!Promotes, Filed, Waits
<1>2. \A d \in won : pp[d].state = "queued" /\ d \in Dispatches
  BY <1>1 DEF Filed, Waits
<1>3. \A d \in mine : pp[d].serial \in Nat /\ pp[d].serial < n
  BY <1>2 DEF Filed, Fit, Capacity!PermitRecords, Numbered
<1>4. PICK w \in mine : \A d \in mine : pp[d].serial <= pp[w].serial
  BY <1>1, <1>3, Youngest
<1> DEFINE older == {d \in Capacity!Before(pp, won, w) : Capacity!GroupIn(pp, d) = g}
           others == Capacity!SlotsOf(pp, g) \cup older
<1>5. \A d \in mine : d = w \/ pp[d].serial < pp[w].serial
  <2> SUFFICES ASSUME NEW d \in mine, d # w PROVE pp[d].serial < pp[w].serial
    OBVIOUS
  <2>1. pp[d].serial # pp[w].serial
    BY <1>2 DEF Filed, Numbered
  <2> QED
    BY <1>3, <1>4, <2>1
<1>6. mine \subseteq older \cup {w}
  BY <1>5 DEF Capacity!Before
<1>7. w \in q /\ w \in won /\ Capacity!GroupIn(pp, w) = g /\ GroupOf[pp[w].endpoint] = g
  BY <1>1 DEF Capacity!GroupIn
<1>8. Capacity!RoomBeside(pp, PolicyOf, Capacity!Before(pp, won, w), pp[w].endpoint)
  BY <1>7 DEF Capacity!Promotes
<1>9. Capacity!Cardinality(others) < PolicyOf[g].maxInflight
  BY <1>7, <1>8 DEF Capacity!RoomBeside
<1>10. others \subseteq Dispatches
  BY <1>1 DEF Capacity!SlotsOf, Capacity!Before
<1>11. Capacity!SlotsOf(pp, g) \cup mine \subseteq others \cup {w}
  BY <1>6
<1> HIDE DEF others
<1>12. IsFiniteSet(others) /\ IsFiniteSet(others \cup {w})
  BY <1>10, RuntimeAssumption, FS_Subset, FS_AddElement
<1>13. /\ Cardinality(others) \in Nat /\ Cardinality(others \cup {w}) <= Cardinality(others) + 1
       /\ Cardinality(others \cup {w}) \in Nat
  <2>1. Cardinality(others) \in Nat /\ Cardinality(others \cup {w}) \in Nat
    BY <1>12, FS_CardinalityType
  <2>2. Cardinality(others \cup {w})
          = IF w \in others THEN Cardinality(others) ELSE Cardinality(others) + 1
    BY <1>12, FS_AddElement
  <2> QED
    BY <2>1, <2>2
<1>14. /\ Cardinality(Capacity!SlotsOf(pp, g) \cup mine) <= Cardinality(others \cup {w})
       /\ Cardinality(Capacity!SlotsOf(pp, g) \cup mine) \in Nat
  BY <1>11, <1>12, FS_Subset, FS_CardinalityType
<1>15. Cardinality(others) < PolicyOf[g].maxInflight
  BY <1>9, SameCardinality
<1>16. PolicyOf[g].maxInflight \in Nat
  BY Policed
<1> QED
  BY <1>13, <1>14, <1>15, <1>16

(***************************************************************************)
(* The tail of a mutation, permit by permit and group by group.            *)
(***************************************************************************)
\* Group g gives out no more slots than it has, or none that was not out.
Apportioned(new, old, g) ==
    \/ Capacity!SlotsOf(new, g) \subseteq Capacity!SlotsOf(old, g)
    \/ Cardinality(Capacity!SlotsOf(new, g)) <= PolicyOf[g].maxInflight

\* New permits are numbered as the old ones are.
LEMMA TailNumbered ==
    ASSUME NEW pp, NEW n, Numbered(pp, n), NEW qq,
           \A d \in Dispatches : Tail(pp[d], qq[d])
    PROVE  Numbered(qq, n)
<1>1. \A d \in Dispatches :
         /\ qq[d].state # "absent" => pp[d].state # "absent"
         /\ qq[d].serial = pp[d].serial
  BY DEF Tail, Drift
<1> QED
  BY <1>1 DEF Numbered

LEMMA SettleTail ==
    ASSUME Remembered, NEW pp, NEW q, NEW n \in Nat, Filed(pp, q, n), NEW gs, NEW t \in Nat,
           Capacity!Settle(pp, q, PolicyOf, gs, t)
    PROVE  /\ Filed(permit', queue', n)
           /\ \A d \in Dispatches : Tail(pp[d], permit'[d])
           /\ \A g \in Groups : Apportioned(permit', pp, g)
<1> DEFINE due == Capacity!Expire(pp, q, gs, t)
           waiting == q \ Capacity!DueWaiting(pp, q, gs, t)
<1>1. PICK won \in SUBSET waiting :
          /\ Capacity!Promotes(due, PolicyOf, waiting, gs, won)
          /\ permit' = Capacity!Prune(Capacity!Admit(due, PolicyOf, won, t), gs, Tombstones)
          /\ queue' = waiting \ won
  BY DEF Capacity!Settle
<1> DEFINE after == Capacity!Admit(due, PolicyOf, won, t)
<1>2. ASSUME NEW d \in Dispatches
      PROVE  /\ Tail(pp[d], due[d])
             /\ due[d].state = "queued" <=> d \in waiting
             /\ due[d].state = "queued" => due[d] = pp[d]
             /\ due[d].state \in Capacity!Slot => pp[d].state \in Capacity!Slot
  <2>1. d \in q <=> pp[d].state = "queued"
    BY DEF Filed, Waits
  <2> QED
    BY <2>1, ExpireTail
<1>3. due = [d \in Dispatches |-> due[d]]
  BY DEF Capacity!Expire
<1>4. waiting \subseteq Dispatches
  BY DEF Filed, Waits
<1> HIDE DEF due, waiting
<1>5. Filed(due, waiting, n)
  <2>1. Numbered(due, n)
    BY <1>2, TailNumbered DEF Filed
  <2>2. \A d \in Dispatches : Fit(due[d])
    BY <1>2 DEF Tail
  <2>3. waiting = Waits(due)
    BY <1>2, <1>4 DEF Waits
  <2> QED
    BY <1>3, <2>1, <2>2, <2>3 DEF Filed
<1>6. ASSUME NEW d \in Dispatches
      PROVE  /\ Tail(due[d], after[d])
             /\ d \in won => due[d].state = "queued" /\ after[d].state = "admitted"
             /\ d \notin won => after[d] = due[d]
  BY <1>5, AdmitTail
<1>7. after = [d \in Dispatches |-> after[d]]
  BY DEF Capacity!Admit
<1>8. permit' = after
  <2> HIDE DEF after
  <2>1. permit' = Capacity!Prune(after, gs, Tombstones)
    BY <1>1 DEF after
  <2> QED
    BY <1>6, <1>7, <2>1, PruneForgetsNothing DEF Tail
<1> HIDE DEF after
<1>9. ASSUME NEW d \in Dispatches
      PROVE  Tail(pp[d], after[d])
  <2>1. CASE d \in won
    BY <1>2, <1>6, <2>1
  <2>2. CASE d \notin won
    BY <1>2, <1>6, <2>2
  <2> QED
    BY <2>1, <2>2
<1>10. Filed(after, waiting \ won, n)
  <2>1. Numbered(after, n)
    BY <1>9, TailNumbered DEF Filed
  <2>2. \A d \in Dispatches : Fit(after[d])
    BY <1>9 DEF Tail
  <2>3. waiting \ won = Waits(after)
    BY <1>2, <1>4, <1>6 DEF Waits
  <2> QED
    BY <1>7, <2>1, <2>2, <2>3 DEF Filed
<1>11. ASSUME NEW g \in Groups
       PROVE  Apportioned(after, pp, g)
  <2> DEFINE mine == {d \in won : Capacity!GroupIn(due, d) = g}
  <2>1. \A d \in Dispatches : Capacity!GroupIn(due, d) = Capacity!GroupIn(pp, d)
                              /\ Capacity!GroupIn(after, d) = Capacity!GroupIn(due, d)
    BY <1>2, <1>6 DEF Tail, Capacity!GroupIn
  <2>2. CASE mine = {}
    <3>1. Capacity!SlotsOf(after, g) \subseteq Capacity!SlotsOf(pp, g)
      BY <1>2, <1>6, <2>1, <2>2 DEF Capacity!SlotsOf
    <3> QED
      BY <3>1 DEF Apportioned
  <2>3. CASE mine # {}
    <3>1. Cardinality(Capacity!SlotsOf(due, g) \cup mine) <= PolicyOf[g].maxInflight
      BY <1>1, <1>5, <2>3, WalkWithinCap
    <3>2. Capacity!SlotsOf(after, g) = Capacity!SlotsOf(due, g) \cup mine
      <4>1. \A d \in won : d \in Dispatches
        BY <1>4
      <4>2. \A d \in Dispatches :
               /\ d \in won => after[d].state \in Capacity!Slot
               /\ d \notin won => after[d] = due[d]
        BY <1>6 DEF Capacity!Slot
      <4> QED
        BY <2>1, <4>1, <4>2 DEF Capacity!SlotsOf
    <3> QED
      BY <3>1, <3>2 DEF Apportioned
  <2> QED
    BY <2>2, <2>3
<1> QED
  BY <1>1, <1>8, <1>9, <1>10, <1>11

(***************************************************************************)
(* The mutations of the coordinator that a request or an operator makes.   *)
(***************************************************************************)
Filing ==
    Filed(permit, queue, nextSerial) /\ nextSerial \in Nat \ {0} /\ policy = PolicyOf

\* Every permit but that of d is at most moved by the tail.
Others(d) == \A e \in Dispatches \ {d} : Tail(permit[e], permit'[e])

Shared == \A g \in Groups : Apportioned(permit', permit, g)

\* The permit of d goes from one of the states `from` to one of the states `to`.
Goes(d, from, to) ==
    /\ permit[d].state \in from /\ permit'[d].state \in to
    /\ permit'[d].endpoint = permit[d].endpoint

LEMMA ExpireDueEffect ==
    ASSUME Remembered, Filing, NEW t \in Nat, Capacity!ExpireDue(t)
    PROVE  Filing' /\ (\A d \in Dispatches : Tail(permit[d], permit'[d])) /\ Shared
<1>1. /\ Capacity!Settle(permit, queue, PolicyOf, Capacity!Registered, t)
      /\ UNCHANGED <<policy, nextSerial>>
  BY DEF Capacity!ExpireDue, Filing
<1>2. /\ Filed(permit', queue', nextSerial)
      /\ \A d \in Dispatches : Tail(permit[d], permit'[d])
      /\ \A g \in Groups : Apportioned(permit', permit, g)
  BY <1>1, SettleTail DEF Filing
<1> QED
  BY <1>1, <1>2 DEF Filing, Shared

\* A mutation that ends the permit of d, or only marks it, and then runs the tail.
LEMMA EndingEffect ==
    ASSUME Remembered, Filing, NEW d \in Dispatches, permit[d].state # "absent",
           NEW c, Fit(c), c.state \notin {"absent", "queued", "admitted", "dispatched"},
           c.endpoint = permit[d].endpoint, c.serial = permit[d].serial,
           c.state \in Capacity!Slot => permit[d].state \in Capacity!Slot,
           NEW pp, pp = [e \in Dispatches |-> IF e = d THEN c ELSE permit[e]],
           NEW gs, NEW t \in Nat, Capacity!Settle(pp, queue \ {d}, PolicyOf, gs, t),
           UNCHANGED <<policy, nextSerial>>
    PROVE  /\ Filing' /\ Others(d) /\ Shared
           /\ permit'[d].state = c.state /\ permit'[d].endpoint = permit[d].endpoint
<1>1. \A e \in Dispatches : pp[e] = IF e = d THEN c ELSE permit[e]
  OBVIOUS
<1>2. pp = [e \in Dispatches |-> pp[e]]
  OBVIOUS
<1>3. Filed(pp, queue \ {d}, nextSerial)
  <2>1. \A e \in Dispatches : Fit(pp[e])
    BY <1>1 DEF Filing, Filed
  <2>2. queue \ {d} = Waits(pp)
    BY <1>1 DEF Filing, Filed, Waits
  <2>3. Numbered(pp, nextSerial)
    BY <1>1 DEF Filing, Filed, Numbered
  <2> QED
    BY <1>2, <2>1, <2>2, <2>3 DEF Filed
<1>4. /\ Filed(permit', queue', nextSerial)
      /\ \A e \in Dispatches : Tail(pp[e], permit'[e])
      /\ \A g \in Groups : Apportioned(permit', pp, g)
  BY <1>3, SettleTail DEF Filing
<1>5. \A g \in Groups : Capacity!SlotsOf(pp, g) \subseteq Capacity!SlotsOf(permit, g)
  BY <1>1 DEF Capacity!SlotsOf, Capacity!GroupIn
<1>6. Shared
  BY <1>4, <1>5 DEF Shared, Apportioned
<1>7. permit'[d].state = c.state /\ permit'[d].endpoint = permit[d].endpoint
  <2>1. Tail(c, permit'[d])
    BY <1>1, <1>4
  <2> QED
    BY <2>1 DEF Tail, Drift
<1>8. Others(d)
  BY <1>1, <1>4 DEF Others
<1> QED
  BY <1>4, <1>6, <1>7, <1>8 DEF Filing

\* A mutation without the tail.
LEMMA ChangeEffect ==
    ASSUME Filing, NEW d \in Dispatches, permit[d].state \notin {"absent", "queued"},
           NEW c, Fit(c), c.state \notin {"absent", "queued"},
           c.endpoint = permit[d].endpoint, c.serial = permit[d].serial,
           c.state \in Capacity!Slot => permit[d].state \in Capacity!Slot,
           permit' = [e \in Dispatches |-> IF e = d THEN c ELSE permit[e]],
           UNCHANGED <<queue, policy, nextSerial>>
    PROVE  /\ Filing' /\ Others(d) /\ Shared
           /\ permit'[d].state = c.state /\ permit'[d].endpoint = permit[d].endpoint
<1>1. \A e \in Dispatches : permit'[e] = IF e = d THEN c ELSE permit[e]
  OBVIOUS
<1>2. permit' = [e \in Dispatches |-> permit'[e]]
  OBVIOUS
<1>3. Filed(permit', queue, nextSerial)
  <2>1. \A e \in Dispatches : Fit(permit'[e])
    BY <1>1 DEF Filing, Filed
  <2>2. queue = Waits(permit')
    BY <1>1 DEF Filing, Filed, Waits
  <2>3. Numbered(permit', nextSerial)
    BY <1>1 DEF Filing, Filed, Numbered
  <2> QED
    BY <1>2, <2>1, <2>2, <2>3 DEF Filed
<1>4. Shared
  BY <1>1 DEF Shared, Apportioned, Capacity!SlotsOf, Capacity!GroupIn
<1>5. Others(d)
  BY <1>1, <1>3 DEF Others, Tail, Drift, Filed
<1> QED
  BY <1>1, <1>3, <1>4, <1>5 DEF Filing

\* What a function looks like after a change at d.
LEMMA ChangedAt ==
    ASSUME Filing, NEW d \in Dispatches, NEW c
    PROVE  /\ [permit EXCEPT ![d] = c] = [e \in Dispatches |-> IF e = d THEN c ELSE permit[e]]
           /\ permit[d] \in Capacity!PermitRecords /\ Fit(permit[d])
           /\ permit[d].state = "queued" <=> d \in queue
BY DEF Filing, Filed, Fit, Waits

LEMMA CompleteEffect ==
    ASSUME Remembered, Filing, NEW d \in Dispatches, NEW t \in Nat, Capacity!Complete(d, t)
    PROVE  /\ Filing' /\ Others(d) /\ Shared
           /\ Goes(d, Capacity!Completable, {"completed"})
<1> DEFINE p == permit[d]
           c == [p EXCEPT !.state = "completed", !.outcome = "completed", !.uncertain = FALSE]
           pp == [permit EXCEPT ![d].state = "completed", ![d].outcome = "completed",
                                ![d].uncertain = FALSE]
           gs == {Capacity!GroupIn(permit, d)}
<1>1. /\ p.state \in Capacity!Completable /\ UNCHANGED <<policy, nextSerial>>
      /\ Capacity!Settle(pp, queue, PolicyOf, gs, t)
  BY DEF Capacity!Complete, Filing
<1>2. p \in Capacity!PermitRecords /\ Fit(p) /\ (p.state = "queued" <=> d \in queue)
  BY ChangedAt
<1>3. pp = [e \in Dispatches |-> IF e = d THEN c ELSE permit[e]]
  BY <1>2 DEF Filing, Filed
<1>4. c \in Capacity!PermitRecords
  BY <1>2 DEF Capacity!PermitRecords, Capacity!PermitStates, Capacity!Terminal,
     Capacity!Outcomes
<1>5. /\ c.state = "completed" /\ c.outcome = "completed"
      /\ c.wasDispatched = p.wasDispatched /\ c.endpoint = p.endpoint /\ c.serial = p.serial
  BY <1>2 DEF Capacity!PermitRecords
<1>6. queue \ {d} = queue
  BY <1>1, <1>2 DEF Capacity!Completable
<1> HIDE DEF c, pp, gs
<1>7. Fit(c) /\ p.state # "absent"
  BY <1>1, <1>2, <1>4, <1>5 DEF Fit, Begun, Capacity!Completable
<1>8. Capacity!Settle(pp, queue \ {d}, PolicyOf, gs, t)
  BY <1>1, <1>6
<1>9. /\ Filing' /\ Others(d) /\ Shared
      /\ permit'[d].state = c.state /\ permit'[d].endpoint = permit[d].endpoint
  BY <1>1, <1>3, <1>5, <1>7, <1>8, EndingEffect DEF Capacity!Slot
<1> QED
  BY <1>1, <1>5, <1>9 DEF Goes

LEMMA ReleaseEffect ==
    ASSUME Remembered, Filing, NEW d \in Dispatches, NEW t \in Nat, Capacity!Reconcile(d, t)
    PROVE  /\ Filing' /\ Others(d) /\ Shared
           /\ Goes(d, {"completion_unknown", "cancel_requested"}, {"released"})
<1> DEFINE p == permit[d]
           c == Capacity!Released(p, "capacity_released_unresolved")
           pp == [permit EXCEPT ![d] = c]
           gs == {Capacity!GroupIn(permit, d)}
<1>1. /\ p.state \in {"completion_unknown", "cancel_requested"}
      /\ UNCHANGED <<policy, nextSerial>>
      /\ Capacity!Settle(pp, queue, PolicyOf, gs, t)
  BY DEF Capacity!Reconcile, Filing
<1>2. p \in Capacity!PermitRecords /\ Fit(p) /\ (p.state = "queued" <=> d \in queue)
  BY ChangedAt
<1>3. pp = [e \in Dispatches |-> IF e = d THEN c ELSE permit[e]]
  BY ChangedAt
<1>4. c \in Capacity!PermitRecords
  BY <1>2 DEF Capacity!Released, Capacity!PermitRecords, Capacity!PermitStates,
     Capacity!Terminal, Capacity!Outcomes
<1>5. /\ c.state = "released" /\ c.outcome = "capacity_released_unresolved"
      /\ c.wasDispatched = p.wasDispatched /\ c.endpoint = p.endpoint /\ c.serial = p.serial
  BY <1>2 DEF Capacity!Released, Capacity!PermitRecords
<1>6. queue \ {d} = queue
  BY <1>1, <1>2
<1> HIDE DEF c, pp, gs
<1>7. Fit(c) /\ p.state # "absent"
  BY <1>1, <1>2, <1>4, <1>5 DEF Fit, Begun, Capacity!Completable
<1>8. Capacity!Settle(pp, queue \ {d}, PolicyOf, gs, t)
  BY <1>1, <1>6
<1>9. /\ Filing' /\ Others(d) /\ Shared
      /\ permit'[d].state = c.state /\ permit'[d].endpoint = permit[d].endpoint
  BY <1>1, <1>3, <1>5, <1>7, <1>8, EndingEffect DEF Capacity!Slot
<1> QED
  BY <1>1, <1>5, <1>9 DEF Goes

LEMMA CancelEffect ==
    ASSUME Remembered, Filing, NEW d \in Dispatches, NEW t \in Nat, Capacity!Cancel(d, t)
    PROVE  /\ Filing' /\ Others(d) /\ Shared
           /\ Goes(d, Waiting, {"cancelled"}) \/ Goes(d, {"dispatched"}, {"cancel_requested"})
<1> DEFINE p == permit[d]
           gs == {Capacity!GroupIn(permit, d)}
<1>1. p \in Capacity!PermitRecords /\ Fit(p) /\ (p.state = "queued" <=> d \in queue)
  BY ChangedAt
<1>2. CASE p.state \in Waiting
  <2> DEFINE c == Capacity!CancelBeforeDispatch(p)
             pp == [permit EXCEPT ![d] = c]
  <2>1. /\ UNCHANGED <<policy, nextSerial>>
        /\ Capacity!Settle(pp, queue \ {d}, PolicyOf, gs, t)
    BY <1>2 DEF Capacity!Cancel, Filing, Waiting
  <2>2. pp = [e \in Dispatches |-> IF e = d THEN c ELSE permit[e]]
    BY ChangedAt
  <2>3. c \in Capacity!PermitRecords
    BY <1>1 DEF Capacity!CancelBeforeDispatch, Capacity!PermitRecords,
       Capacity!PermitStates, Capacity!Terminal, Capacity!Outcomes
  <2>4. /\ c.state = "cancelled" /\ c.outcome = "cancelled_before_dispatch"
        /\ c.endpoint = p.endpoint /\ c.serial = p.serial
    BY <1>1 DEF Capacity!CancelBeforeDispatch, Capacity!PermitRecords
  <2> HIDE DEF c, pp, gs
  <2>5. Fit(c) /\ p.state # "absent"
    BY <1>1, <1>2, <2>3, <2>4 DEF Fit, Begun, Capacity!Completable, Waiting
  <2>6. /\ Filing' /\ Others(d) /\ Shared
        /\ permit'[d].state = c.state /\ permit'[d].endpoint = permit[d].endpoint
    BY <2>1, <2>2, <2>4, <2>5, EndingEffect DEF Capacity!Slot
  <2> QED
    BY <1>2, <2>4, <2>6 DEF Goes
<1>3. CASE p.state \notin Waiting
  <2> DEFINE c == [p EXCEPT !.state = "cancel_requested", !.uncertain = TRUE]
             pp == [permit EXCEPT ![d].state = "cancel_requested", ![d].uncertain = TRUE]
  <2>1. /\ UNCHANGED <<policy, nextSerial>> /\ p.state = "dispatched"
        /\ Capacity!Settle(pp, queue, PolicyOf, gs, t)
    BY <1>3 DEF Capacity!Cancel, Filing, Waiting
  <2>2. pp = [e \in Dispatches |-> IF e = d THEN c ELSE permit[e]]
    BY <1>1 DEF Filing, Filed
  <2>3. c \in Capacity!PermitRecords
    BY <1>1 DEF Capacity!PermitRecords, Capacity!PermitStates, Capacity!Slot
  <2>4. /\ c.state = "cancel_requested" /\ c.outcome = p.outcome
        /\ c.wasDispatched = p.wasDispatched
        /\ c.endpoint = p.endpoint /\ c.serial = p.serial
    BY <1>1 DEF Capacity!PermitRecords
  <2>5. queue \ {d} = queue
    BY <1>1, <2>1
  <2> HIDE DEF c, pp, gs
  <2>6. Fit(c) /\ p.state # "absent"
    BY <1>1, <2>1, <2>3, <2>4 DEF Fit, Begun, Capacity!Completable
  <2>7. Capacity!Settle(pp, queue \ {d}, PolicyOf, gs, t)
    BY <2>1, <2>5
  <2>8. /\ Filing' /\ Others(d) /\ Shared
        /\ permit'[d].state = c.state /\ permit'[d].endpoint = permit[d].endpoint
    BY <2>1, <2>2, <2>4, <2>6, <2>7, EndingEffect DEF Capacity!Slot
  <2> QED
    BY <2>1, <2>4, <2>8 DEF Goes
<1> QED
  BY <1>2, <1>3

LEMMA HeartbeatEffect ==
    ASSUME Filing, NEW d \in Dispatches, Capacity!NoteHeartbeatExpired(d)
    PROVE  /\ Filing' /\ Others(d) /\ Shared
           /\ Goes(d, {"dispatched"}, {"completion_unknown"})
<1> DEFINE p == permit[d]
           c == Capacity!BecomeUnknown(p)
<1>1. p \in Capacity!PermitRecords /\ Fit(p)
  BY ChangedAt
<1>2. /\ p.state = "dispatched" /\ UNCHANGED <<queue, policy, nextSerial>>
      /\ permit' = [e \in Dispatches |-> IF e = d THEN c ELSE permit[e]]
  BY ChangedAt DEF Capacity!NoteHeartbeatExpired
<1>3. Tail(p, c) /\ c.state = "completion_unknown"
  BY <1>1, <1>2, UnknownTail
<1> HIDE DEF c
<1>4. /\ Filing' /\ Others(d) /\ Shared
      /\ permit'[d].state = c.state /\ permit'[d].endpoint = permit[d].endpoint
  BY <1>2, <1>3, ChangeEffect DEF Capacity!Slot, Tail
<1> QED
  BY <1>2, <1>3, <1>4 DEF Goes

LEMMA DispatchEffect ==
    ASSUME Filing, NEW d \in Dispatches, Capacity!MarkDispatched(d, None)
    PROVE  /\ Filing' /\ Others(d) /\ Shared
           /\ Goes(d, {"admitted"}, {"dispatched"})
<1> DEFINE p == permit[d]
           c == [p EXCEPT !.state = "dispatched", !.wasDispatched = TRUE,
                          !.server = None, !.uncertain = FALSE]
<1>1. p \in Capacity!PermitRecords /\ Fit(p)
  BY ChangedAt
<1>2. p.state = "admitted" /\ UNCHANGED <<queue, policy, nextSerial>>
  BY DEF Capacity!MarkDispatched
<1>3. permit' = [e \in Dispatches |-> IF e = d THEN c ELSE permit[e]]
  BY <1>1 DEF Capacity!MarkDispatched, Filing, Filed
<1>4. c \in Capacity!PermitRecords
  BY <1>1 DEF Capacity!PermitRecords, Capacity!PermitStates, Capacity!Slot
<1>5. /\ c.state = "dispatched" /\ c.outcome = p.outcome /\ c.wasDispatched = TRUE
      /\ c.endpoint = p.endpoint /\ c.serial = p.serial
  BY <1>1 DEF Capacity!PermitRecords
<1> HIDE DEF c
<1>6. Fit(c)
  BY <1>1, <1>2, <1>4, <1>5 DEF Fit, Begun, Capacity!Completable
<1>7. /\ Filing' /\ Others(d) /\ Shared
      /\ permit'[d].state = c.state /\ permit'[d].endpoint = permit[d].endpoint
  BY <1>2, <1>3, <1>5, <1>6, ChangeEffect DEF Capacity!Slot
<1> QED
  BY <1>2, <1>5, <1>7 DEF Goes

\* A new permit is admitted where its endpoint has room, and queued where it has none.
LEMMA AcquireEffect ==
    ASSUME Filing, NEW d \in Dispatches, NEW e \in Endpoints, NEW proc \in Processes,
           NEW t \in Nat, Capacity!Acquire(d, e, proc, t)
    PROVE  /\ Filing' /\ Others(d) /\ Shared
           /\ permit[d].state = "absent" /\ permit'[d].state \in Waiting
           /\ permit'[d].endpoint \in Endpoints
<1> DEFINE g == GroupOf[e]
           roomy == Capacity!HasRoom(permit, PolicyOf, e)
           now == PolicyOf[g]
           queueBy == t + now.queueTimeout
           requestBy == t + now.requestTimeout
           fresh(state, wait, due) ==
              [Capacity!NoPermit EXCEPT
                  !.state = state, !.serial = nextSerial, !.endpoint = e, !.process = proc,
                  !.bound = now, !.queueDeadline = wait, !.requestDeadline = due]
           granted == fresh("admitted", Capacity!NoTime, requestBy)
           waiting == fresh("queued", queueBy, Capacity!NoTime)
           c == IF roomy THEN granted ELSE waiting
<1>1. g \in Groups /\ now \in Policies /\ queueBy \in Nat /\ requestBy \in Nat
  <2>1. g \in Groups
    BY RuntimeAssumption
  <2> QED
    BY <2>1, Policed
<1>2. /\ permit[d].state = "absent" /\ nextSerial' = nextSerial + 1 /\ policy' = policy
      /\ permit' = [permit EXCEPT ![d] = c]
      /\ queue' = IF roomy THEN queue ELSE queue \cup {d}
  <2>1. Capacity!NewPermit(e, proc, t, TRUE) = granted
    BY DEF Capacity!NewPermit, Filing
  <2>2. Capacity!NewPermit(e, proc, t, FALSE) = waiting
    BY DEF Capacity!NewPermit, Filing
  <2> HIDE DEF granted, waiting, roomy
  <2>3. /\ permit[d].state = "absent" /\ nextSerial' = nextSerial + 1 /\ policy' = policy
        /\ \/ roomy /\ permit' = [permit EXCEPT ![d] = granted] /\ queue' = queue
           \/ ~roomy /\ permit' = [permit EXCEPT ![d] = waiting] /\ queue' = queue \cup {d}
    BY <2>1, <2>2 DEF Capacity!Acquire, Filing, roomy
  <2> QED
    BY <2>3
<1>3. permit' = [b \in Dispatches |-> IF b = d THEN c ELSE permit[b]]
  BY <1>2, ChangedAt
<1>4. /\ c.state = IF roomy THEN "admitted" ELSE "queued"
      /\ c.serial = nextSerial /\ c.endpoint = e /\ c.outcome = None
  BY DEF Capacity!NoPermit
<1>5. c \in Capacity!PermitRecords
  <2>1. queueBy \in Capacity!Times /\ requestBy \in Capacity!Times
        /\ Capacity!NoTime \in Capacity!Times
    BY <1>1 DEF Capacity!Times, Capacity!NoTime
  <2>2. nextSerial \in Nat /\ None \in Capacity!Outcomes
        /\ {"admitted", "queued"} \subseteq Capacity!PermitStates
    BY DEF Filing, Capacity!Outcomes, Capacity!PermitStates, Capacity!Slot
  <2>3. Capacity!NoPermit \in Capacity!PermitRecords
    BY <2>1, <2>2 DEF Capacity!NoPermit, Capacity!PermitRecords, Capacity!PermitStates
  <2> HIDE DEF now, queueBy, requestBy, roomy
  <2> QED
    BY <1>1, <2>1, <2>2, <2>3 DEF Capacity!PermitRecords
<1> HIDE DEF c, queueBy, requestBy
<1>6. Fit(c)
  BY <1>4, <1>5, RuntimeAssumption DEF Fit, Begun, Capacity!Completable
<1>7. \A b \in Dispatches : permit'[b] = IF b = d THEN c ELSE permit[b]
  BY <1>3
<1>8. Filed(permit', queue', nextSerial + 1)
  <2>1. permit' = [b \in Dispatches |-> permit'[b]]
    BY <1>3
  <2>2. \A b \in Dispatches : Fit(permit'[b])
    BY <1>6, <1>7 DEF Filing, Filed
  <2>3. queue' = Waits(permit')
    BY <1>2, <1>4, <1>7 DEF Filing, Filed, Waits
  <2>4. Numbered(permit', nextSerial + 1)
    <3>1. \A b \in Dispatches \ {d} : permit[b].state # "absent" =>
             permit[b].serial < nextSerial /\ permit[b].serial \in Nat
      BY DEF Filing, Filed, Numbered, Fit, Capacity!PermitRecords
    <3> QED
      BY <1>4, <1>7, <3>1 DEF Filing, Filed, Numbered
  <2> QED
    BY <2>1, <2>2, <2>3, <2>4 DEF Filed
<1>9. Others(d)
  BY <1>7, <1>8 DEF Others, Tail, Drift, Filed
<1>10. Shared
  <2> SUFFICES ASSUME NEW h \in Groups PROVE Apportioned(permit', permit, h)
    BY DEF Shared
  <2>1. CASE roomy /\ h = g
    <3> DEFINE S == Capacity!SlotsOf(permit, g)
    <3>1. Capacity!Cardinality(S \cup {}) < now.maxInflight
      <4>1. S \cup {b \in {} : Capacity!GroupIn(permit, b) = g} = S \cup {}
        OBVIOUS
      <4> HIDE DEF S
      <4> QED
        BY <2>1, <4>1 DEF Capacity!HasRoom, Capacity!RoomBeside, S
    <3>2. Capacity!SlotsOf(permit', g) \subseteq S \cup {d}
      BY <1>7 DEF Capacity!SlotsOf, Capacity!GroupIn
    <3>3. S \subseteq Dispatches
      BY DEF Capacity!SlotsOf
    <3> HIDE DEF S
    <3>4. IsFiniteSet(S) /\ IsFiniteSet(S \cup {d}) /\ Cardinality(S) \in Nat
      BY <3>3, RuntimeAssumption, FS_Subset, FS_AddElement, FS_CardinalityType
    <3>5. Cardinality(S) < now.maxInflight /\ now.maxInflight \in Nat
      <4>1. S \cup {} = S
        OBVIOUS
      <4> QED
        BY <1>1, <3>1, <4>1, SameCardinality, Policed
    <3>6. Cardinality(S \cup {d}) <= Cardinality(S) + 1
      BY <3>4, FS_AddElement
    <3>7. /\ Cardinality(Capacity!SlotsOf(permit', g)) <= Cardinality(S \cup {d})
          /\ Cardinality(Capacity!SlotsOf(permit', g)) \in Nat
          /\ Cardinality(S \cup {d}) \in Nat
      BY <3>2, <3>4, FS_Subset, FS_CardinalityType
    <3>8. Cardinality(Capacity!SlotsOf(permit', g)) <= now.maxInflight
      BY <3>4, <3>5, <3>6, <3>7
    <3> QED
      BY <2>1, <3>8 DEF Apportioned
  <2>2. CASE ~(roomy /\ h = g)
    <3>1. Capacity!SlotsOf(permit', h) \subseteq Capacity!SlotsOf(permit, h)
      BY <1>4, <1>7, <2>2 DEF Capacity!SlotsOf, Capacity!GroupIn, Capacity!Slot
    <3> QED
      BY <3>1 DEF Apportioned
  <2> QED
    BY <2>1, <2>2
<1> QED
  BY <1>2, <1>4, <1>7, <1>8, <1>9, <1>10 DEF Filing, Waiting

(***************************************************************************)
(* The ledger: every call the runtime and the operators make is a call of  *)
(* ComputeLedger, so that what is proved there holds here.                 *)
(***************************************************************************)
Accounts == INSTANCE ComputeLedger_proofs
    WITH Ceilings <- {Limits}, Grants <- {}, Readings <- Readings \cup {0}

LEMMA AccountsAssumed == Accounts!LedgerAssumption /\ Accounts!ComputeLedgerAssumption
<1>1. Accounts!IsFiniteSet(Dispatches)
  BY RuntimeAssumption DEF Accounts!IsFiniteSet, IsFiniteSet
<1>2. Accounts!LedgerAssumption
  BY <1>1, RuntimeAssumption
  DEF Accounts!LedgerAssumption, Accounts!RequestRecords, Budget!RequestRecords
<1>3. Accounts!ComputeLedgerAssumption
  BY RuntimeAssumption
  DEF Accounts!ComputeLedgerAssumption, Accounts!Dimensions, Budget!Dimensions
<1> QED
  BY <1>2, <1>3

LEMMA AccountsKept ==
    ASSUME Accounts!BalancedInv, [Accounts!Next]_ledgerVars
    PROVE  Accounts!BalancedInv'
BY AccountsAssumed, Accounts!NextBalanced DEF ledgerVars, Accounts!ledgerVars

Balanced == Accounts!BalancedInv /\ ceiling = Limits

\* What the invariant of the ledger says of single claims.
LEMMA ClaimFacts ==
    ASSUME Balanced
    PROVE  /\ claim = [d \in Dispatches |-> claim[d]] /\ profile \in Profiles
           /\ \A d \in Dispatches :
                 /\ claim[d] \in Accounts!ClaimRecords
                 /\ claim[d].receipt = None => claim[d].wall = 0 /\ ~claim[d].final
                 /\ claim[d].state \notin Budget!Charged => claim[d].receipt = None
<1>1. Accounts!LedgerTypeOK /\ Accounts!HeldAsExpected /\ Accounts!FinalHasClock
  BY DEF Balanced, Accounts!BalancedInv, Accounts!LedgerInv
<1>2. claim = [d \in Dispatches |-> claim[d]] /\ profile \in Profiles
      /\ \A d \in Dispatches : claim[d] \in Accounts!ClaimRecords
  BY <1>1 DEF Accounts!LedgerTypeOK
<1>3. ASSUME NEW d \in Dispatches
      PROVE  /\ claim[d].receipt = None => claim[d].wall = 0 /\ ~claim[d].final
             /\ claim[d].state \notin Budget!Charged => claim[d].receipt = None
  BY <1>1 DEF Accounts!HeldAsExpected, Accounts!FinalHasClock, Accounts!Charged, Budget!Charged
<1> QED
  BY <1>2, <1>3

\* One call changes one claim, from one of the states `from` to one of the states `to`.
Rewrites(d, from, to) ==
    /\ claim[d].state \in from /\ claim'[d].state \in to
    /\ \A e \in Dispatches \ {d} : claim'[e] = claim[e]

LEMMA LedgerCall ==
    ASSUME Balanced, NEW d \in Dispatches, Accounts!Client(d), ceiling' = ceiling
    PROVE  Balanced'
<1>1. Accounts!Next
  BY DEF Accounts!Next
<1>2. Accounts!BalancedInv'
  BY <1>1, AccountsKept DEF Balanced
<1> QED
  BY <1>2 DEF Balanced

LEMMA ReserveEffect ==
    ASSUME Balanced, NEW d \in Dispatches, NEW r \in Requests, Budget!Reserve(d, r, profile)
    PROVE  Balanced' /\ Rewrites(d, {"none"}, {"reserved"})
<1>1. Accounts!Reserve(d, r, profile)
  BY DEF Budget!Reserve, Accounts!Reserve, Budget!HasRoom, Accounts!HasRoom,
     Budget!GrantedWall, Accounts!GrantedWall, Budget!Least, Accounts!Least,
     Budget!Left, Accounts!Left, Budget!NoClaim, Accounts!NoClaim
<1>2. Accounts!Client(d)
  BY <1>1, ClaimFacts DEF Accounts!Client
<1>3. claim[d].state = "none" /\ ceiling' = ceiling
  BY DEF Budget!Reserve
<1>4. claim'[d].state = "reserved" /\ \A e \in Dispatches \ {d} : claim'[e] = claim[e]
  BY ClaimFacts DEF Budget!Reserve, Budget!NoClaim
<1> QED
  BY <1>2, <1>3, <1>4, LedgerCall DEF Rewrites

LEMMA ReturnEffect ==
    ASSUME Balanced, NEW d \in Dispatches, Budget!ReleaseNotDispatched(d)
    PROVE  Balanced' /\ Rewrites(d, {"reserved"}, {"released"})
<1>1. Accounts!ReleaseNotDispatched(d)
  BY DEF Budget!ReleaseNotDispatched, Accounts!ReleaseNotDispatched
<1>2. Accounts!Client(d)
  BY <1>1 DEF Accounts!Client
<1>3. claim[d].state = "reserved" /\ ceiling' = ceiling
  BY DEF Budget!ReleaseNotDispatched
<1>4. claim'[d].state = "released" /\ \A e \in Dispatches \ {d} : claim'[e] = claim[e]
  BY ClaimFacts DEF Budget!ReleaseNotDispatched, Accounts!ClaimRecords
<1> QED
  BY <1>2, <1>3, <1>4, LedgerCall DEF Rewrites

LEMMA ChargeEffect ==
    ASSUME Balanced, NEW d \in Dispatches, Budget!MarkDispatched(d)
    PROVE  /\ Balanced' /\ Rewrites(d, {"reserved"}, {"dispatched"})
           /\ claim'[d].receipt = None
<1>1. Accounts!MarkDispatched(d)
  BY DEF Budget!MarkDispatched, Accounts!MarkDispatched
<1>2. Accounts!Client(d)
  BY <1>1 DEF Accounts!Client
<1>3. claim[d].state = "reserved" /\ ceiling' = ceiling
  BY DEF Budget!MarkDispatched
<1>4. /\ claim'[d].state = "dispatched" /\ claim'[d].receipt = claim[d].receipt
      /\ \A e \in Dispatches \ {d} : claim'[e] = claim[e]
  BY ClaimFacts DEF Budget!MarkDispatched, Accounts!ClaimRecords
<1>5. claim[d].receipt = None
  BY <1>3, ClaimFacts DEF Budget!Charged
<1> QED
  BY <1>2, <1>3, <1>4, <1>5, LedgerCall DEF Rewrites

LEMMA UnknownEffect ==
    ASSUME Balanced, NEW d \in Dispatches, Budget!MarkUnknown(d)
    PROVE  /\ Balanced' /\ Rewrites(d, {"dispatched"}, {"unknown"})
           /\ claim'[d].receipt = claim[d].receipt
<1>1. Accounts!MarkUnknown(d)
  BY DEF Budget!MarkUnknown, Accounts!MarkUnknown
<1>2. Accounts!Client(d)
  BY <1>1 DEF Accounts!Client
<1>3. claim[d].state = "dispatched" /\ ceiling' = ceiling
  BY DEF Budget!MarkUnknown
<1>4. /\ claim'[d].state = "unknown" /\ claim'[d].receipt = claim[d].receipt
      /\ \A e \in Dispatches \ {d} : claim'[e] = claim[e]
  BY ClaimFacts DEF Budget!MarkUnknown, Accounts!ClaimRecords
<1> QED
  BY <1>2, <1>3, <1>4, LedgerCall DEF Rewrites

LEMMA RecordEffect ==
    ASSUME Balanced, NEW d \in Dispatches, NEW o \in Operators, Budget!RecordUnresolved(d, o)
    PROVE  /\ Balanced' /\ Rewrites(d, {"unknown"}, {"unknown"})
           /\ claim'[d].receipt = claim[d].receipt
<1>1. Accounts!RecordUnresolved(d, o)
  BY DEF Budget!RecordUnresolved, Accounts!RecordUnresolved
<1>2. Accounts!Client(d)
  BY <1>1 DEF Accounts!Client
<1>3. claim[d].state = "unknown" /\ ceiling' = ceiling
  BY DEF Budget!RecordUnresolved
<1>4. /\ claim'[d].state = "unknown" /\ claim'[d].receipt = claim[d].receipt
      /\ \A e \in Dispatches \ {d} : claim'[e] = claim[e]
  BY <1>3, ClaimFacts DEF Budget!RecordUnresolved, Accounts!ClaimRecords
<1> QED
  BY <1>2, <1>3, <1>4, LedgerCall DEF Rewrites

LEMMA ObserveEffect ==
    ASSUME Balanced, NEW d \in Dispatches, NEW millis \in Readings, NEW w \in Receipts,
           Budget!ObserveWall(d, millis, w)
    PROVE  /\ Balanced' /\ claim[d].state \in Budget!Charged
           /\ Rewrites(d, {claim[d].state}, {claim[d].state})
<1>1. Accounts!ObserveWall(d, millis, w)
  BY DEF Budget!ObserveWall, Accounts!ObserveWall, Budget!Readable, Accounts!Readable,
     Budget!Covered, Accounts!Covered, Budget!Least, Accounts!Least,
     Budget!Charged, Accounts!Charged
<1>2. Accounts!Client(d)
  BY <1>1 DEF Accounts!Client
<1>3. claim[d].state \in Budget!Charged /\ ceiling' = ceiling
  BY DEF Budget!ObserveWall, Budget!Readable
<1>4. /\ claim'[d].state = claim[d].state
      /\ \A e \in Dispatches \ {d} : claim'[e] = claim[e]
  BY ClaimFacts DEF Budget!ObserveWall, Accounts!ClaimRecords
<1> QED
  BY <1>2, <1>3, <1>4, LedgerCall DEF Rewrites

LEMMA SettledEffect ==
    ASSUME Balanced, NEW d \in Dispatches, NEW millis \in Readings \cup {0},
           NEW w \in Receipts, Budget!SettleObservedWall(d, millis, w, TRUE)
    PROVE  Balanced' /\ Rewrites(d, Budget!Charged, {"completed"})
<1>1. Accounts!SettleObservedWall(d, millis, w, TRUE)
  BY DEF Budget!SettleObservedWall, Accounts!SettleObservedWall, Budget!Readable,
     Accounts!Readable, Budget!Covered, Accounts!Covered, Budget!Least, Accounts!Least,
     Budget!Charged, Accounts!Charged
<1>2. Accounts!Client(d)
  BY <1>1 DEF Accounts!Client
<1>3. claim[d].state \in Budget!Charged /\ ceiling' = ceiling
  BY DEF Budget!SettleObservedWall, Budget!Readable
<1>4. /\ claim'[d].state = "completed"
      /\ \A e \in Dispatches \ {d} : claim'[e] = claim[e]
  BY ClaimFacts DEF Budget!SettleObservedWall, Accounts!ClaimRecords
<1> QED
  BY <1>2, <1>3, <1>4, LedgerCall DEF Rewrites

\* A claim whose clock was never read accepts any reading.
LEMMA Readability ==
    ASSUME Balanced, NEW d \in Dispatches, claim[d].state \in Budget!Charged,
           claim[d].receipt = None, NEW millis \in Nat, NEW w
    PROVE  Budget!Readable(d, millis, w)
BY ClaimFacts DEF Budget!Readable

(***************************************************************************)
(* The runtime: the inductive invariant.                                   *)
(***************************************************************************)
Typed ==
    /\ clock \in Nat
    /\ pc \in [Dispatches -> Steps]
    /\ memory \in [Dispatches -> Memories]
    /\ remote \in [Dispatches -> {"none", "running", "done"}]
    /\ command \in [Operators -> CommandRecords]

RuntimeInv == Typed /\ Filing /\ Balanced /\ Phases /\ Warrants

\* What nothing that happens to a request undoes.
Onward(p, c, r, pNext, cNext, rNext) ==
    /\ p \in Begun \ {"dispatched"} => pNext \in Begun \ {"dispatched"}
    /\ c \in {"unknown", "completed"} => cNext \in {"unknown", "completed"}
    /\ r = "done" => rNext = "done"

\* What a request does not do to itself while an operator works on it.
Blameless(p, c, r, pNext, cNext, rNext) ==
    /\ pNext = "released" => p = "released"
    /\ (/\ p \in Begun \ {"dispatched"} /\ c \in {"unknown", "completed"}
        /\ Excused(p, c, r))
          => Excused(pNext, cNext, rNext)

\* The requests other than d are only moved by the coordinator's tail.
Elsewhere(d) ==
    \A e \in Dispatches \ {d} :
        /\ Drift(permit[e].state, permit'[e].state) /\ claim'[e] = claim[e]
        /\ pc'[e] = pc[e] /\ memory'[e] = memory[e] /\ remote'[e] = remote[e]

\* A step that request d takes itself.
Moved(d) ==
    /\ Typed' /\ Filing' /\ Balanced' /\ Elsewhere(d) /\ command' = command
    /\ Onward(permit[d].state, claim[d].state, remote[d],
              permit'[d].state, claim'[d].state, remote'[d])
    /\ Blameless(permit[d].state, claim[d].state, remote[d],
                 permit'[d].state, claim'[d].state, remote'[d])
    /\ Consistent(pc'[d], permit'[d].state, claim'[d].state, claim'[d].receipt,
                  memory'[d], remote'[d])

LEMMA ConsistentDrift ==
    ASSUME NEW s, NEW p, NEW q, NEW c, NEW w, NEW m, NEW r,
           Consistent(s, p, c, w, m, r), Drift(p, q)
    PROVE  Consistent(s, q, c, w, m, r)
<1> USE DEF Consistent, Drift, Fresh, Begun, Capacity!Completable, Waiting
<1>1. Admission(s, q, c, m)
  BY DEF Admission
<1>2. Dispatching(s, q, c, r)
  BY DEF Dispatching
<1>3. Exchanging(s, q, c, m, r)
  BY DEF Exchanging
<1>4. Abandoning(s, q, c, m)
  BY DEF Abandoning
<1>5. Halting(s, q, c, m)
  BY DEF Halting
<1>6. Leaving(s, q, c, m)
  BY DEF Leaving
<1>7. Always(s, q, c, w, m, r)
  BY DEF Always
<1> QED
  BY <1>1, <1>2, <1>3, <1>4, <1>5, <1>6, <1>7

LEMMA WarrantedOnward ==
    ASSUME NEW s, NEW p, NEW c, NEW r, NEW pNext, NEW cNext, NEW rNext,
           Warranted(s, p, c, r), Onward(p, c, r, pNext, cNext, rNext)
    PROVE  Warranted(s, pNext, cNext, rNext)
BY DEF Warranted, Onward

LEMMA DriftOnward ==
    ASSUME NEW p, NEW q, NEW c, NEW r, Drift(p, q)
    PROVE  Onward(p, c, r, q, c, r) /\ Blameless(p, c, r, q, c, r)
BY DEF Onward, Blameless, Excused, Drift, Begun, Capacity!Completable

\* Whatever a request does, the others and the operators can go on as they were.
LEMMA MovedKeepsInv ==
    ASSUME RuntimeInv, NEW d \in Dispatches, Moved(d)
    PROVE  RuntimeInv'
<1>1. ASSUME NEW e \in Dispatches
      PROVE  /\ Onward(permit[e].state, claim[e].state, remote[e],
                       permit'[e].state, claim'[e].state, remote'[e])
             /\ Consistent(pc'[e], permit'[e].state, claim'[e].state, claim'[e].receipt,
                           memory'[e], remote'[e])
  <2>1. CASE e = d
    BY <2>1 DEF Moved
  <2>2. CASE e # d
    <3>1. /\ Drift(permit[e].state, permit'[e].state) /\ claim'[e] = claim[e]
          /\ pc'[e] = pc[e] /\ memory'[e] = memory[e] /\ remote'[e] = remote[e]
      BY <2>2 DEF Moved, Elsewhere
    <3>2. Consistent(pc[e], permit[e].state, claim[e].state, claim[e].receipt,
                     memory[e], remote[e])
      BY DEF RuntimeInv, Phases
    <3> QED
      BY <3>1, <3>2, ConsistentDrift, DriftOnward
  <2> QED
    BY <2>1, <2>2
<1>2. Phases'
  BY <1>1 DEF Phases
<1>3. ASSUME NEW o \in Operators, command'[o].step # "none"
      PROVE  /\ command'[o].dispatch \in Dispatches
             /\ Warranted(command'[o].step, permit'[command'[o].dispatch].state,
                          claim'[command'[o].dispatch].state, remote'[command'[o].dispatch])
  <2>1. command' = command
    BY DEF Moved
  <2>2. /\ command[o].dispatch \in Dispatches
        /\ Warranted(command[o].step, permit[command[o].dispatch].state,
                     claim[command[o].dispatch].state, remote[command[o].dispatch])
    BY <1>3, <2>1 DEF RuntimeInv, Warrants
  <2> QED
    BY <1>1, <2>1, <2>2, WarrantedOnward
<1>4. Warrants'
  BY <1>3 DEF Warrants
<1> QED
  BY <1>2, <1>4 DEF RuntimeInv, Moved

(***************************************************************************)
(* The steps of a request, by what they touch: nothing shared, the         *)
(* coordinator or the ledger.                                              *)
(***************************************************************************)
\* Request d goes on to call s and remembers m.
Turns(d, s, m) ==
    /\ s \in Steps /\ m \in Memories
    /\ pc' = [pc EXCEPT ![d] = s]
    /\ memory' = [memory EXCEPT ![d] = m]

LEMMA TurnsAt ==
    ASSUME Typed, NEW d \in Dispatches, NEW s, NEW m, Turns(d, s, m),
           UNCHANGED <<clock, command>>,
           remote' \in [Dispatches -> {"none", "running", "done"}]
    PROVE  /\ Typed' /\ pc'[d] = s /\ memory'[d] = m
           /\ \A e \in Dispatches \ {d} : pc'[e] = pc[e] /\ memory'[e] = memory[e]
BY DEF Typed, Turns

\* What is left of a memory that is forgotten.
Blank(d) == [NoMemory EXCEPT !.torn = memory[d].torn]

\* The memory of a request is left as it is, forgotten, or changed in one field.
LEMMA Keeping ==
    ASSUME Typed, NEW d \in Dispatches, NEW s \in Steps, Goto(d, s), UNCHANGED memory
    PROVE  Turns(d, s, memory[d])
<1>1. memory = [memory EXCEPT ![d] = memory[d]] /\ memory[d] \in Memories
  BY DEF Typed
<1> QED
  BY <1>1 DEF Turns, Goto

LEMMA Forgetting ==
    ASSUME Typed, NEW d \in Dispatches, NEW s \in Steps, Goto(d, s), Forget(d)
    PROVE  Turns(d, s, Blank(d)) /\ Blank(d).torn = memory[d].torn
<1>1. memory[d].torn \in {"none", "acquire", "reserve", "charge"}
  BY DEF Typed, Memories
<1>2. Blank(d) \in Memories /\ Blank(d).torn = memory[d].torn
  BY <1>1
  DEF Blank, NoMemory, Memories, Capacity!PermitStates, Budget!ClaimStates, Steps
<1> QED
  BY <1>2 DEF Turns, Goto, Forget, Blank

LEMMA Reading ==
    ASSUME Typed, Filing, NEW d \in Dispatches, NEW s \in Steps, NEW next \in Steps,
           ReadPermit(d, s, next)
    PROVE  LET m == [memory[d] EXCEPT !.now = clock, !.permit = permit[d].state, !.next = next]
           IN Turns(d, s, m) /\ m.permit = permit[d].state /\ m.next = next
<1>1. memory[d] \in Memories /\ clock \in Nat /\ permit[d].state \in Capacity!PermitStates
  BY DEF Typed, Filing, Filed, Fit, Capacity!PermitRecords
<1> DEFINE m == [memory[d] EXCEPT !.now = clock, !.permit = permit[d].state, !.next = next]
<1>2. m \in Memories /\ m.permit = permit[d].state /\ m.next = next
  BY <1>1 DEF Memories
<1>3. memory' = [memory EXCEPT ![d] = m]
  BY DEF ReadPermit, Typed
<1> HIDE DEF m
<1> QED
  BY <1>2, <1>3 DEF Turns, Goto, ReadPermit, m

\* Neither forgets which call raised.
LEMMA BlankTorn ==
    ASSUME NEW d
    PROVE  Blank(d).torn = memory[d].torn
BY DEF Blank, NoMemory

LEMMA ReadingTorn ==
    ASSUME Typed, NEW d \in Dispatches, NEW next
    PROVE  [memory[d] EXCEPT !.now = clock, !.permit = permit[d].state,
                             !.next = next].torn = memory[d].torn
BY DEF Typed, Memories

LEMMA LocalMove ==
    ASSUME RuntimeInv, NEW d \in Dispatches, NEW s, NEW m, Turns(d, s, m), Local,
           Consistent(s, permit[d].state, claim[d].state, claim[d].receipt, m, remote[d])
    PROVE  Moved(d)
<1>1. Typed /\ Filing /\ Balanced
  BY DEF RuntimeInv
<1>2. /\ UNCHANGED <<permit, queue, policy, nextSerial>>
      /\ UNCHANGED <<ceiling, consumed, reserved, claim, profile>>
      /\ UNCHANGED <<clock, remote, command>>
  BY DEF Local, NoResourceChange, NoCapacityChange, NoBudgetChange, Outside,
     coordinatorVars, ledgerVars
<1>3. /\ Typed' /\ pc'[d] = s /\ memory'[d] = m
      /\ \A e \in Dispatches \ {d} : pc'[e] = pc[e] /\ memory'[e] = memory[e]
  BY <1>1, <1>2, TurnsAt DEF Typed
<1>4. Filing'
  BY <1>1, <1>2 DEF Filing, Filed, Waits, Numbered
<1>5. Balanced'
  BY <1>1, <1>2, AccountsKept DEF Balanced, ledgerVars
<1>6. Drift(permit[d].state, permit[d].state)
  BY DEF Drift
<1>7. Elsewhere(d)
  BY <1>2, <1>3 DEF Elsewhere, Drift
<1> QED
  BY <1>2, <1>3, <1>4, <1>5, <1>6, <1>7, DriftOnward DEF Moved

LEMMA CapacityMove ==
    ASSUME RuntimeInv, NEW d \in Dispatches, NEW s, NEW m, Turns(d, s, m),
           NoBudgetChange, Outside, Filing', Others(d),
           Onward(permit[d].state, claim[d].state, remote[d],
                  permit'[d].state, claim[d].state, remote[d]),
           Blameless(permit[d].state, claim[d].state, remote[d],
                     permit'[d].state, claim[d].state, remote[d]),
           Consistent(s, permit'[d].state, claim[d].state, claim[d].receipt, m, remote[d])
    PROVE  Moved(d)
<1>1. Typed /\ Balanced
  BY DEF RuntimeInv
<1>2. /\ UNCHANGED <<ceiling, consumed, reserved, claim, profile>>
      /\ UNCHANGED <<clock, remote, command>>
  BY DEF NoBudgetChange, Outside, ledgerVars
<1>3. /\ Typed' /\ pc'[d] = s /\ memory'[d] = m
      /\ \A e \in Dispatches \ {d} : pc'[e] = pc[e] /\ memory'[e] = memory[e]
  BY <1>1, <1>2, TurnsAt DEF Typed
<1>4. Balanced'
  BY <1>1, <1>2, AccountsKept DEF Balanced, ledgerVars
<1>5. Elsewhere(d)
  BY <1>2, <1>3 DEF Elsewhere, Others, Tail
<1> QED
  BY <1>2, <1>3, <1>4, <1>5 DEF Moved

\* A deadline that passes is nothing a request was not prepared for.
LEMMA ExpiryMove ==
    ASSUME Remembered, RuntimeInv, NEW d \in Dispatches, NEW s, NEW m, Turns(d, s, m),
           NEW t \in Nat, ExpireFirst(t),
           Consistent(s, permit[d].state, claim[d].state, claim[d].receipt, m, remote[d])
    PROVE  Moved(d)
<1>1. Filing /\ Capacity!ExpireDue(t) /\ NoBudgetChange /\ Outside
  BY DEF RuntimeInv, ExpireFirst
<1>2. Filing' /\ \A e \in Dispatches : Tail(permit[e], permit'[e])
  BY <1>1, ExpireDueEffect
<1>3. Drift(permit[d].state, permit'[d].state) /\ Others(d)
  BY <1>2 DEF Tail, Others
<1> QED
  BY <1>1, <1>2, <1>3, CapacityMove, ConsistentDrift, DriftOnward

\* A call that raised has expired what was due or done nothing.
LEMMA RaisedExpiryMove ==
    ASSUME Remembered, RuntimeInv, NEW d \in Dispatches, NEW s, NEW m, Turns(d, s, m),
           NEW t \in Nat, Raised(ExpireFirst(t)),
           Consistent(s, permit[d].state, claim[d].state, claim[d].receipt, m, remote[d])
    PROVE  Moved(d)
<1>1. CASE ExpireFirst(t)
  BY <1>1, ExpiryMove
<1>2. CASE Local
  BY <1>2, LocalMove
<1> QED
  BY <1>1, <1>2 DEF Raised

LEMMA BudgetMove ==
    ASSUME RuntimeInv, NEW d \in Dispatches, NEW s, NEW m, Turns(d, s, m),
           NoCapacityChange, Outside, Balanced',
           \A e \in Dispatches \ {d} : claim'[e] = claim[e],
           Onward(permit[d].state, claim[d].state, remote[d],
                  permit[d].state, claim'[d].state, remote[d]),
           Blameless(permit[d].state, claim[d].state, remote[d],
                     permit[d].state, claim'[d].state, remote[d]),
           Consistent(s, permit[d].state, claim'[d].state, claim'[d].receipt, m, remote[d])
    PROVE  Moved(d)
<1>1. Typed /\ Filing
  BY DEF RuntimeInv
<1>2. /\ UNCHANGED <<permit, queue, policy, nextSerial>>
      /\ UNCHANGED <<clock, remote, command>>
  BY DEF NoCapacityChange, Outside, coordinatorVars
<1>3. /\ Typed' /\ pc'[d] = s /\ memory'[d] = m
      /\ \A e \in Dispatches \ {d} : pc'[e] = pc[e] /\ memory'[e] = memory[e]
  BY <1>1, <1>2, TurnsAt DEF Typed
<1>4. Filing'
  BY <1>1, <1>2 DEF Filing, Filed, Waits, Numbered
<1>5. Elsewhere(d)
  BY <1>2, <1>3 DEF Elsewhere, Drift
<1> QED
  BY <1>2, <1>3, <1>4, <1>5 DEF Moved

\* What request d satisfies if it is at call s with memory m and nothing else has changed.
Ready(d, s, m) ==
    Consistent(s, permit[d].state, claim[d].state, claim[d].receipt, m, remote[d])

LEMMA Here ==
    ASSUME RuntimeInv, NEW d \in Dispatches
    PROVE  /\ Typed /\ Filing /\ Balanced /\ Ready(d, pc[d], memory[d])
           /\ memory[d] \in Memories /\ memory[d].now \in Nat /\ clock \in Nat
           /\ permit[d].state \in Capacity!PermitStates /\ claim[d].state \in Budget!ClaimStates
<1>1. Typed /\ Filing /\ Balanced /\ Ready(d, pc[d], memory[d])
  BY DEF RuntimeInv, Phases, Ready
<1>2. memory[d] \in Memories /\ memory[d].now \in Nat /\ clock \in Nat
  BY <1>1 DEF Typed, Memories
<1>3. permit[d].state \in Capacity!PermitStates
  BY <1>1 DEF Filing, Filed, Fit, Capacity!PermitRecords
<1>4. claim[d].state \in Budget!ClaimStates
  BY <1>1, ClaimFacts
  DEF Accounts!ClaimRecords, Accounts!ClaimStates, Accounts!Charged, Budget!ClaimStates,
      Budget!Charged
<1> QED
  BY <1>1, <1>2, <1>3, <1>4

USE DEF Fresh, Begun, Open, Placing, Promising, Starting, Unsent, Unobserved, Freeing, Sent,
        Stopping, Waiting, Capacity!Completable, Budget!Charged, Excused

(***************************************************************************)
(* The steps of a request: _admit and _reserve.                            *)
(***************************************************************************)
LEMMA RequestMoves ==
    ASSUME Remembered, RuntimeInv, NEW d \in Dispatches, Request(d)
    PROVE  Moved(d)
<1>1. pc[d] = "idle" /\ clock \in Nat /\ Ready(d, "idle", memory[d])
  BY Here DEF Request, At
<1>2. CASE ExpireFirst(clock) /\ Goto(d, "acquire") /\ Remember(d, "now", clock)
  <2> DEFINE m == [memory[d] EXCEPT !.now = clock]
  <2>1. m \in Memories
    BY Here DEF Memories
  <2>2. memory' = [memory EXCEPT ![d] = m]
    BY <1>2, Here DEF Remember, Typed, Memories
  <2> HIDE DEF m
  <2>3. Turns(d, "acquire", m)
    BY <1>2, <2>1, <2>2 DEF Turns, Goto, Steps
  <2>4. Ready(d, "acquire", m)
    BY <1>1
    DEF Ready, Consistent, Admission, Dispatching, Exchanging, Abandoning, Halting, Leaving, Always
  <2> QED
    BY <1>1, <1>2, <2>3, <2>4, ExpiryMove DEF Ready
<1>3. CASE Raised(ExpireFirst(clock)) /\ End(d, "failed")
  <2>1. Turns(d, "failed", Blank(d))
    BY <1>3, Here, Forgetting DEF End, Steps, Ended
  <2>2. Ready(d, "failed", Blank(d))
    BY <1>1
    DEF Ready, Consistent, Admission, Dispatching, Exchanging, Abandoning, Halting, Leaving, Always
  <2> QED
    BY <1>1, <1>3, <2>1, <2>2, RaisedExpiryMove DEF Ready
<1> QED
  BY <1>2, <1>3 DEF Request

LEMMA AcquireMoves ==
    ASSUME Remembered, RuntimeInv, NEW d \in Dispatches, Acquire(d)
    PROVE  Moved(d)
<1>1. pc[d] = "acquire" /\ memory[d].now \in Nat
  BY Here DEF Acquire, At
<1>2. permit[d].state = "absent" /\ claim[d].state = "none" /\ remote[d] = "none"
  BY <1>1, Here DEF Ready, Consistent, Admission, Always
<1>3. CASE /\ \E e \in Endpoints, p \in Processes : Capacity!Acquire(d, e, p, memory[d].now)
           /\ NoBudgetChange /\ Outside
           /\ \/ Goto(d, "poll") /\ Forget(d)
              \/ /\ Goto(d, "failed")
                 /\ memory' = [memory EXCEPT ![d] = [NoMemory EXCEPT !.torn = "acquire"]]
  <2>1. PICK e \in Endpoints, p \in Processes :
           Capacity!Acquire(d, e, p, memory[d].now) /\ NoBudgetChange /\ Outside
    BY <1>3
  <2>2. Filing' /\ Others(d) /\ permit'[d].state \in Waiting
    BY <1>1, <2>1, Here, AcquireEffect
  <2>3. /\ Onward(permit[d].state, claim[d].state, remote[d],
                  permit'[d].state, claim[d].state, remote[d])
        /\ Blameless(permit[d].state, claim[d].state, remote[d],
                     permit'[d].state, claim[d].state, remote[d])
    BY <1>2, <2>2 DEF Onward, Blameless
  <2>4. CASE Goto(d, "poll") /\ Forget(d)
    <3>1. Turns(d, "poll", Blank(d))
      BY <2>4, Here, Forgetting DEF Steps
    <3>2. Consistent("poll", permit'[d].state, claim[d].state, claim[d].receipt, Blank(d), remote[d])
      BY <1>2, <2>2
      DEF Consistent, Admission, Dispatching, Exchanging, Abandoning, Halting, Leaving, Always
    <3> QED
      BY <2>1, <2>2, <2>3, <3>1, <3>2, CapacityMove
  <2>5. CASE /\ Goto(d, "failed")
             /\ memory' = [memory EXCEPT ![d] = [NoMemory EXCEPT !.torn = "acquire"]]
    <3> DEFINE m == [NoMemory EXCEPT !.torn = "acquire"]
    <3>1. m \in Memories /\ m.torn = "acquire"
      BY DEF NoMemory, Memories, Capacity!PermitStates, Budget!ClaimStates, Steps
    <3> HIDE DEF m
    <3>2. Turns(d, "failed", m)
      BY <2>5, <3>1 DEF Turns, Goto, Steps, Ended, m
    <3>3. Consistent("failed", permit'[d].state, claim[d].state, claim[d].receipt, m, remote[d])
      BY <1>2, <2>2, <3>1
      DEF Consistent, Admission, Dispatching, Exchanging, Abandoning, Halting, Leaving, Always
    <3> QED
      BY <2>1, <2>2, <2>3, <3>2, <3>3, CapacityMove
  <2> QED
    BY <1>3, <2>4, <2>5
<1>4. CASE Local /\ End(d, "failed")
  <2>1. Turns(d, "failed", Blank(d))
    BY <1>4, Here, Forgetting DEF End, Steps, Ended
  <2>2. Ready(d, "failed", Blank(d))
    BY <1>2
    DEF Ready, Consistent, Admission, Dispatching, Exchanging, Abandoning, Halting, Leaving, Always
  <2> QED
    BY <1>4, <2>1, <2>2, LocalMove DEF Ready
<1> QED
  BY <1>3, <1>4 DEF Acquire

LEMMA PollMoves ==
    ASSUME Remembered, RuntimeInv, NEW d \in Dispatches, Poll(d)
    PROVE  Moved(d)
<1>1. PICK s \in {"polled", "drop"} : Goto(d, s) /\ Raised(ExpireFirst(clock))
  BY DEF Poll, Raised
<1>2. pc[d] = "poll" /\ Turns(d, s, memory[d])
  BY <1>1, Here, Keeping DEF Poll, At, Steps
<1>3. Ready(d, s, memory[d])
  BY <1>2, Here
  DEF Ready, Consistent, Admission, Dispatching, Exchanging, Abandoning, Halting, Leaving, Always
<1> QED
  BY <1>1, <1>2, <1>3, Here, RaisedExpiryMove DEF Ready

LEMMA PolledMoves ==
    ASSUME RuntimeInv, NEW d \in Dispatches, Polled(d)
    PROVE  Moved(d)
<1>1. PICK s \in {"reserve", "poll", "drop"} : Goto(d, s)
  BY DEF Polled
<1>2. pc[d] = "polled" /\ Local /\ Turns(d, s, memory[d])
  BY <1>1, Here, Keeping DEF Polled, At, Steps
<1>3. Ready(d, s, memory[d])
  BY <1>2, Here
  DEF Ready, Consistent, Admission, Dispatching, Exchanging, Abandoning, Halting, Leaving, Always
<1> QED
  BY <1>2, <1>3, LocalMove DEF Ready

LEMMA ReadForReserveMoves ==
    ASSUME RuntimeInv, NEW d \in Dispatches, ReadForReserve(d)
    PROVE  Moved(d)
<1>1. PICK s \in {"reserving", "drop"} : Goto(d, s)
  BY DEF ReadForReserve
<1>2. pc[d] = "reserve" /\ Local /\ Turns(d, s, memory[d])
  BY <1>1, Here, Keeping DEF ReadForReserve, At, Steps
<1>3. Ready(d, s, memory[d])
  BY <1>2, Here
  DEF Ready, Consistent, Admission, Dispatching, Exchanging, Abandoning, Halting, Leaving, Always
<1> QED
  BY <1>2, <1>3, LocalMove DEF Ready

LEMMA ReserveMoves ==
    ASSUME RuntimeInv, NEW d \in Dispatches, Reserve(d)
    PROVE  Moved(d)
<1>1. pc[d] = "reserving"
  BY DEF Reserve, At
<1>2. permit[d].state \in Fresh /\ claim[d].state = "none" /\ remote[d] = "none"
  BY <1>1, Here DEF Ready, Consistent, Admission, Always
<1> DEFINE m == [memory[d] EXCEPT !.torn = "reserve"]
<1>3. m \in Memories /\ m.torn = "reserve"
  BY Here DEF Memories
<1>4. Remember(d, "torn", "reserve") => memory' = [memory EXCEPT ![d] = m]
  BY Here DEF Remember, Typed, Memories
<1> HIDE DEF m
<1>5. CASE /\ \E r \in Requests : Budget!Reserve(d, r, profile)
           /\ NoCapacityChange /\ Outside
           /\ \/ Goto(d, "callback") /\ UNCHANGED memory
              \/ Goto(d, "drop") /\ Remember(d, "torn", "reserve")
  <2>1. Balanced' /\ Rewrites(d, {"none"}, {"reserved"})
    BY <1>5, Here, ReserveEffect
  <2>2. /\ Onward(permit[d].state, claim[d].state, remote[d],
                  permit[d].state, claim'[d].state, remote[d])
        /\ Blameless(permit[d].state, claim[d].state, remote[d],
                     permit[d].state, claim'[d].state, remote[d])
    BY <1>2 DEF Onward, Blameless
  <2>3. CASE Goto(d, "callback") /\ UNCHANGED memory
    <3>1. Turns(d, "callback", memory[d])
      BY <2>3, Here, Keeping DEF Steps
    <3>2. Consistent("callback", permit[d].state, claim'[d].state, claim'[d].receipt,
                     memory[d], remote[d])
      BY <1>2, <2>1
      DEF Rewrites, Consistent, Admission, Dispatching, Exchanging, Abandoning, Halting, Leaving,
          Always
    <3> QED
      BY <1>5, <2>1, <2>2, <3>1, <3>2, BudgetMove DEF Rewrites
  <2>4. CASE Goto(d, "drop") /\ Remember(d, "torn", "reserve")
    <3>1. Turns(d, "drop", m)
      BY <1>3, <1>4, <2>4 DEF Turns, Goto, Steps
    <3>2. Consistent("drop", permit[d].state, claim'[d].state, claim'[d].receipt, m, remote[d])
      BY <1>2, <1>3, <2>1
      DEF Rewrites, Consistent, Admission, Dispatching, Exchanging, Abandoning, Halting, Leaving,
          Always
    <3> QED
      BY <1>5, <2>1, <2>2, <3>1, <3>2, BudgetMove DEF Rewrites
  <2> QED
    BY <1>5, <2>3, <2>4
<1>6. CASE Local /\ Goto(d, "drop") /\ UNCHANGED memory
  <2>1. Turns(d, "drop", memory[d])
    BY <1>6, Here, Keeping DEF Steps
  <2>2. Ready(d, "drop", memory[d])
    BY <1>2
    DEF Ready, Consistent, Admission, Dispatching, Exchanging, Abandoning, Halting, Leaving, Always
  <2> QED
    BY <1>6, <2>1, <2>2, LocalMove DEF Ready
<1> QED
  BY <1>5, <1>6 DEF Reserve

(***************************************************************************)
(* The steps of a request: _dispatch.                                      *)
(***************************************************************************)
LEMMA CallbackMoves ==
    ASSUME RuntimeInv, NEW d \in Dispatches, Callback(d)
    PROVE  Moved(d)
<1>1. PICK s \in {"ensure", "undo"} : Goto(d, s)
  BY DEF Callback
<1>2. pc[d] = "callback" /\ Local /\ Turns(d, s, memory[d])
  BY <1>1, Here, Keeping DEF Callback, At, Steps
<1>3. Ready(d, s, memory[d])
  BY <1>2, Here
  DEF Ready, Consistent, Admission, Dispatching, Exchanging, Abandoning, Halting, Leaving, Always
<1> QED
  BY <1>2, <1>3, LocalMove DEF Ready

LEMMA EnsureAdmittedMoves ==
    ASSUME Remembered, RuntimeInv, NEW d \in Dispatches, EnsureAdmitted(d)
    PROVE  Moved(d)
<1>1. PICK s \in {"ensured", "undo"} : Goto(d, s) /\ Raised(ExpireFirst(clock))
  BY DEF EnsureAdmitted, Raised
<1>2. pc[d] = "ensure" /\ Turns(d, s, memory[d])
  BY <1>1, Here, Keeping DEF EnsureAdmitted, At, Steps
<1>3. Ready(d, s, memory[d])
  BY <1>2, Here
  DEF Ready, Consistent, Admission, Dispatching, Exchanging, Abandoning, Halting, Leaving, Always
<1> QED
  BY <1>1, <1>2, <1>3, Here, RaisedExpiryMove DEF Ready

LEMMA EnsuredMoves ==
    ASSUME RuntimeInv, NEW d \in Dispatches, Ensured(d)
    PROVE  Moved(d)
<1>1. PICK s \in {"charge", "undo"} : Goto(d, s)
  BY DEF Ensured
<1>2. pc[d] = "ensured" /\ Local /\ Turns(d, s, memory[d])
  BY <1>1, Here, Keeping DEF Ensured, At, Steps
<1>3. Ready(d, s, memory[d])
  BY <1>2, Here
  DEF Ready, Consistent, Admission, Dispatching, Exchanging, Abandoning, Halting, Leaving, Always
<1> QED
  BY <1>2, <1>3, LocalMove DEF Ready

LEMMA ChargeMoves ==
    ASSUME RuntimeInv, NEW d \in Dispatches, Charge(d)
    PROVE  Moved(d)
<1>1. pc[d] = "charge"
  BY DEF Charge, At
<1>2. permit[d].state \in Fresh /\ claim[d].state = "reserved" /\ remote[d] = "none"
  BY <1>1, Here DEF Ready, Consistent, Admission, Always
<1> DEFINE m == [memory[d] EXCEPT !.torn = "charge"]
<1>3. m \in Memories /\ m.torn = "charge"
  BY Here DEF Memories
<1>4. Remember(d, "torn", "charge") => memory' = [memory EXCEPT ![d] = m]
  BY Here DEF Remember, Typed, Memories
<1> HIDE DEF m
<1>5. CASE /\ Budget!MarkDispatched(d)
           /\ NoCapacityChange /\ Outside
           /\ \/ Goto(d, "start") /\ UNCHANGED memory
              \/ Goto(d, "undo") /\ Remember(d, "torn", "charge")
  <2>1. Balanced' /\ Rewrites(d, {"reserved"}, {"dispatched"}) /\ claim'[d].receipt = None
    BY <1>5, Here, ChargeEffect
  <2>2. /\ Onward(permit[d].state, claim[d].state, remote[d],
                  permit[d].state, claim'[d].state, remote[d])
        /\ Blameless(permit[d].state, claim[d].state, remote[d],
                     permit[d].state, claim'[d].state, remote[d])
    BY <1>2 DEF Onward, Blameless
  <2>3. CASE Goto(d, "start") /\ UNCHANGED memory
    <3>1. Turns(d, "start", memory[d])
      BY <2>3, Here, Keeping DEF Steps
    <3>2. Consistent("start", permit[d].state, claim'[d].state, claim'[d].receipt,
                     memory[d], remote[d])
      BY <1>2, <2>1
      DEF Rewrites, Consistent, Admission, Dispatching, Exchanging, Abandoning, Halting, Leaving,
          Always
    <3> QED
      BY <1>5, <2>1, <2>2, <3>1, <3>2, BudgetMove DEF Rewrites
  <2>4. CASE Goto(d, "undo") /\ Remember(d, "torn", "charge")
    <3>1. Turns(d, "undo", m)
      BY <1>3, <1>4, <2>4 DEF Turns, Goto, Steps
    <3>2. Consistent("undo", permit[d].state, claim'[d].state, claim'[d].receipt, m, remote[d])
      BY <1>2, <1>3, <2>1
      DEF Rewrites, Consistent, Admission, Dispatching, Exchanging, Abandoning, Halting, Leaving,
          Always
    <3> QED
      BY <1>5, <2>1, <2>2, <3>1, <3>2, BudgetMove DEF Rewrites
  <2> QED
    BY <1>5, <2>3, <2>4
<1>6. CASE Local /\ Goto(d, "undo") /\ UNCHANGED memory
  <2>1. Turns(d, "undo", memory[d])
    BY <1>6, Here, Keeping DEF Steps
  <2>2. Ready(d, "undo", memory[d])
    BY <1>2
    DEF Ready, Consistent, Admission, Dispatching, Exchanging, Abandoning, Halting, Leaving, Always
  <2> QED
    BY <1>6, <2>1, <2>2, LocalMove DEF Ready
<1> QED
  BY <1>5, <1>6 DEF Charge

LEMMA StartMoves ==
    ASSUME Remembered, RuntimeInv, NEW d \in Dispatches, Start(d)
    PROVE  Moved(d)
<1>1. PICK s \in {"starting", "void"} : Goto(d, s) /\ Raised(ExpireFirst(clock))
  BY DEF Start, Raised
<1>2. pc[d] = "start" /\ Turns(d, s, memory[d])
  BY <1>1, Here, Keeping DEF Start, At, Steps
<1>3. Ready(d, s, memory[d])
  BY <1>2, Here
  DEF Ready, Consistent, Admission, Dispatching, Exchanging, Abandoning, Halting, Leaving, Always
<1> QED
  BY <1>1, <1>2, <1>3, Here, RaisedExpiryMove DEF Ready

LEMMA StartedMoves ==
    ASSUME RuntimeInv, NEW d \in Dispatches, Started(d)
    PROVE  Moved(d)
<1>1. pc[d] = "starting" /\ UNCHANGED memory
  BY DEF Started, At
<1>2. Ready(d, "starting", memory[d])
  BY <1>1, Here
<1>3. CASE /\ Capacity!MarkDispatched(d, None) /\ NoBudgetChange /\ Outside
           /\ Goto(d, "send") \/ Goto(d, "void")
  <2>1. Filing' /\ Others(d) /\ Goes(d, {"admitted"}, {"dispatched"})
    BY <1>3, Here, DispatchEffect
  <2>2. PICK s \in {"send", "void"} : Turns(d, s, memory[d])
    BY <1>1, <1>3, Here, Keeping DEF Steps
  <2>3. Consistent(s, permit'[d].state, claim[d].state, claim[d].receipt,
                   memory[d], remote[d])
    BY <1>2, <2>1
    DEF Ready, Goes, Consistent, Admission, Dispatching, Exchanging, Abandoning, Halting, Leaving,
        Always
  <2>4. /\ Onward(permit[d].state, claim[d].state, remote[d],
                  permit'[d].state, claim[d].state, remote[d])
        /\ Blameless(permit[d].state, claim[d].state, remote[d],
                     permit'[d].state, claim[d].state, remote[d])
    BY <2>1 DEF Goes, Onward, Blameless
  <2> QED
    BY <1>3, <2>1, <2>2, <2>3, <2>4, CapacityMove
<1>4. CASE Local /\ Goto(d, "void")
  <2>1. Turns(d, "void", memory[d])
    BY <1>1, <1>4, Here, Keeping DEF Steps
  <2>2. Ready(d, "void", memory[d])
    BY <1>2
    DEF Ready, Consistent, Admission, Dispatching, Exchanging, Abandoning, Halting, Leaving, Always
  <2> QED
    BY <1>4, <2>1, <2>2, LocalMove DEF Ready
<1> QED
  BY <1>3, <1>4 DEF Started

(***************************************************************************)
(* The steps of a request: _exchange and _finish.                          *)
(***************************************************************************)
LEMMA SendMoves ==
    ASSUME RuntimeInv, NEW d \in Dispatches, Send(d)
    PROVE  Moved(d)
<1>1. /\ pc[d] = "send" /\ UNCHANGED <<clock, command, memory>>
      /\ UNCHANGED <<permit, queue, policy, nextSerial>>
      /\ UNCHANGED <<ceiling, consumed, reserved, claim, profile>>
  BY DEF Send, At, NoResourceChange, NoCapacityChange, NoBudgetChange, coordinatorVars, ledgerVars
<1>2. PICK s \in {"exchange", "void"} :
         /\ Goto(d, s)
         /\ remote' \in {remote, [remote EXCEPT ![d] = "running"]}
         /\ s = "void" => remote' = remote
  BY DEF Send
<1>3. remote \in [Dispatches -> {"none", "running", "done"}] /\ remote[d] = "none"
  BY <1>1, Here DEF Typed, Ready, Consistent, Dispatching
<1>4. /\ remote' \in [Dispatches -> {"none", "running", "done"}]
      /\ remote'[d] \in {"none", "running"} /\ (s = "void" => remote'[d] = "none")
      /\ \A e \in Dispatches \ {d} : remote'[e] = remote[e]
  BY <1>2, <1>3
<1>5. Turns(d, s, memory[d])
  BY <1>1, <1>2, Here, Keeping DEF Steps
<1>6. /\ Typed' /\ pc'[d] = s /\ memory'[d] = memory[d]
      /\ \A e \in Dispatches \ {d} : pc'[e] = pc[e] /\ memory'[e] = memory[e]
  BY <1>1, <1>4, <1>5, Here, TurnsAt
<1>7. Filing'
  BY <1>1, Here DEF Filing, Filed, Waits, Numbered
<1>8. Balanced'
  BY <1>1, Here, AccountsKept DEF Balanced, ledgerVars
<1>9. Elsewhere(d)
  BY <1>1, <1>4, <1>6 DEF Elsewhere, Drift
<1>10. Ready(d, "send", memory[d])
  BY <1>1, Here
<1>11. Consistent(s, permit[d].state, claim[d].state, claim[d].receipt, memory[d], remote'[d])
  BY <1>2, <1>4, <1>10
  DEF Ready, Consistent, Admission, Dispatching, Exchanging, Abandoning, Halting, Leaving, Always
<1>12. /\ Onward(permit[d].state, claim[d].state, remote[d],
                 permit[d].state, claim[d].state, remote'[d])
       /\ Blameless(permit[d].state, claim[d].state, remote[d],
                    permit[d].state, claim[d].state, remote'[d])
  BY <1>3, <1>10 DEF Ready, Consistent, Dispatching, Onward, Blameless
<1> QED
  BY <1>1, <1>6, <1>7, <1>8, <1>9, <1>11, <1>12 DEF Moved

LEMMA RespondMoves ==
    ASSUME RuntimeInv, NEW d \in Dispatches, Respond(d)
    PROVE  Moved(d)
<1>1. /\ pc[d] = "exchange" /\ remote[d] = "done" /\ Local
      /\ Turns(d, "complete", memory[d])
  BY Here, Keeping DEF Respond, At, Steps
<1>2. Ready(d, "complete", memory[d])
  BY <1>1, Here
  DEF Ready, Consistent, Admission, Dispatching, Exchanging, Abandoning, Halting, Leaving, Always
<1> QED
  BY <1>1, <1>2, LocalMove DEF Ready

LEMMA LoseResponseMoves ==
    ASSUME RuntimeInv, NEW d \in Dispatches, LoseResponse(d)
    PROVE  Moved(d)
<1>1. PICK isCancelled \in BOOLEAN : Remember(d, "cancelled", isCancelled)
  BY DEF LoseResponse
<1> DEFINE m == [memory[d] EXCEPT !.cancelled = isCancelled]
<1>2. pc[d] = "exchange" /\ Goto(d, "abandon") /\ Local
  BY DEF LoseResponse, At
<1>3. m \in Memories
  BY Here DEF Memories
<1>4. memory' = [memory EXCEPT ![d] = m]
  BY <1>1, Here DEF Remember, Typed, Memories
<1> HIDE DEF m
<1>5. Turns(d, "abandon", m)
  BY <1>2, <1>3, <1>4 DEF Turns, Goto, Steps
<1>6. Ready(d, "abandon", m)
  BY <1>2, Here
  DEF Ready, Consistent, Admission, Dispatching, Exchanging, Abandoning, Halting, Leaving, Always
<1> QED
  BY <1>2, <1>5, <1>6, LocalMove DEF Ready

LEMMA CompleteMoves ==
    ASSUME Remembered, RuntimeInv, NEW d \in Dispatches, Complete(d)
    PROVE  Moved(d)
<1>1. pc[d] = "complete" /\ UNCHANGED memory
  BY DEF Complete, At
<1>2. Ready(d, "complete", memory[d])
  BY <1>1, Here
<1>3. CASE /\ Capacity!Complete(d, clock) /\ NoBudgetChange /\ Outside
           /\ Goto(d, "settle") \/ Goto(d, "abandon")
  <2>1. Filing' /\ Others(d) /\ Goes(d, Capacity!Completable, {"completed"})
    BY <1>3, Here, CompleteEffect
  <2>2. PICK s \in {"settle", "abandon"} : Turns(d, s, memory[d])
    BY <1>1, <1>3, Here, Keeping DEF Steps
  <2>3. Consistent(s, permit'[d].state, claim[d].state, claim[d].receipt,
                   memory[d], remote[d])
    BY <1>2, <2>1
    DEF Ready, Goes, Consistent, Admission, Dispatching, Exchanging, Abandoning, Halting, Leaving,
        Always
  <2>4. /\ Onward(permit[d].state, claim[d].state, remote[d],
                  permit'[d].state, claim[d].state, remote[d])
        /\ Blameless(permit[d].state, claim[d].state, remote[d],
                     permit'[d].state, claim[d].state, remote[d])
    BY <2>1 DEF Goes, Onward, Blameless
  <2> QED
    BY <1>3, <2>1, <2>2, <2>3, <2>4, CapacityMove
<1>4. CASE Local /\ Goto(d, "abandon")
  <2>1. Turns(d, "abandon", memory[d])
    BY <1>1, <1>4, Here, Keeping DEF Steps
  <2>2. Ready(d, "abandon", memory[d])
    BY <1>2
    DEF Ready, Consistent, Admission, Dispatching, Exchanging, Abandoning, Halting, Leaving, Always
  <2> QED
    BY <1>4, <2>1, <2>2, LocalMove DEF Ready
<1> QED
  BY <1>3, <1>4 DEF Complete

LEMMA ReceiptTyped ==
    ASSUME NEW d \in Dispatches
    PROVE  ReceiptOf[d] \in Receipts
BY RuntimeAssumption

LEMMA SettleMoves ==
    ASSUME RuntimeInv, NEW d \in Dispatches, Settle(d)
    PROVE  Moved(d)
<1>1. Ready(d, "settle", memory[d])
  BY Here DEF Settle, At
<1>2. CASE /\ \E millis \in Readings : Budget!SettleObservedWall(d, millis, ReceiptOf[d], TRUE)
           /\ NoCapacityChange /\ Outside
           /\ End(d, "done") \/ (Goto(d, "abandon") /\ UNCHANGED memory)
  <2>1. PICK millis \in Readings : Budget!SettleObservedWall(d, millis, ReceiptOf[d], TRUE)
    BY <1>2
  <2>2. Balanced' /\ Rewrites(d, Budget!Charged, {"completed"})
    BY <2>1, Here, ReceiptTyped, SettledEffect
  <2>3. PICK s \in {"done", "abandon"}, m \in {Blank(d), memory[d]} : Turns(d, s, m)
    BY <1>2, Here, Forgetting, Keeping DEF End, Steps, Ended
  <2>4. Consistent(s, permit[d].state, claim'[d].state, claim'[d].receipt, m, remote[d])
    BY <1>1, <2>2
    DEF Ready, Rewrites, Consistent, Admission, Dispatching, Exchanging, Abandoning, Halting,
        Leaving, Always
  <2>5. /\ Onward(permit[d].state, claim[d].state, remote[d],
                  permit[d].state, claim'[d].state, remote[d])
        /\ Blameless(permit[d].state, claim[d].state, remote[d],
                     permit[d].state, claim'[d].state, remote[d])
    BY <1>1, <2>2 DEF Ready, Consistent, Exchanging, Rewrites, Onward, Blameless
  <2> QED
    BY <1>2, <2>2, <2>3, <2>4, <2>5, BudgetMove DEF Rewrites
<1>3. CASE Local /\ Goto(d, "abandon") /\ UNCHANGED memory
  <2>1. Turns(d, "abandon", memory[d])
    BY <1>3, Here, Keeping DEF Steps
  <2>2. Ready(d, "abandon", memory[d])
    BY <1>1
    DEF Ready, Consistent, Admission, Dispatching, Exchanging, Abandoning, Halting, Leaving, Always
  <2> QED
    BY <1>3, <2>1, <2>2, LocalMove DEF Ready
<1> QED
  BY <1>2, <1>3 DEF Settle

(***************************************************************************)
(* The steps of a request: _cleanup before the request was sent.           *)
(***************************************************************************)
LEMMA Failing ==
    ASSUME RuntimeInv, NEW d \in Dispatches, Local, End(d, "failed"), Ready(d, "failed", Blank(d))
    PROVE  Moved(d)
<1>1. Turns(d, "failed", Blank(d))
  BY Here, Forgetting DEF End, Steps, Ended
<1> QED
  BY <1>1, LocalMove DEF Ready

LEMMA DropMoves ==
    ASSUME RuntimeInv, NEW d \in Dispatches, Drop(d)
    PROVE  Moved(d)
<1>1. Ready(d, "drop", memory[d]) /\ Local
  BY Here DEF Drop, At
<1>2. CASE permit[d].state \in Waiting
  <2> DEFINE m == [memory[d] EXCEPT !.now = clock, !.permit = permit[d].state, !.next = "failed"]
  <2>1. ReadPermit(d, "cancel", "failed")
    BY <1>2 DEF Drop
  <2>2. Turns(d, "cancel", m) /\ m.next = "failed"
    BY <2>1, Here, Reading DEF Steps, Ended
  <2>3. m.torn = memory[d].torn
    BY Here, ReadingTorn
  <2> HIDE DEF m
  <2>4. Ready(d, "cancel", m)
    BY <1>1, <1>2, <2>2, <2>3
    DEF Ready, Consistent, Admission, Dispatching, Exchanging, Abandoning, Halting, Leaving, Always
  <2> QED
    BY <1>1, <2>2, <2>4, LocalMove DEF Ready
<1>3. CASE permit[d].state \notin Waiting
  <2>1. End(d, "failed")
    BY <1>3 DEF Drop
  <2>2. /\ permit[d].state \in Fresh \ Waiting /\ remote[d] = "none"
        /\ claim[d].state = "none" \/ (claim[d].state = "reserved" /\ memory[d].torn = "reserve")
    <3>1. Admission("drop", permit[d].state, claim[d].state, memory[d])
      BY <1>1 DEF Ready, Consistent
    <3>2. remote[d] # "none" => permit[d].state \in Begun
      BY <1>1 DEF Ready, Consistent, Always
    <3> QED
      BY <1>3, <3>1, <3>2 DEF Admission
  <2>3. Ready(d, "failed", Blank(d))
    BY <2>2, BlankTorn
    DEF Ready, Consistent, Admission, Dispatching, Exchanging, Abandoning, Halting, Leaving, Always
  <2> QED
    BY <1>1, <2>1, <2>3, Failing
<1> QED
  BY <1>2, <1>3

LEMMA UndoMoves ==
    ASSUME RuntimeInv, NEW d \in Dispatches, Undo(d)
    PROVE  Moved(d)
<1> DEFINE m == [memory[d] EXCEPT !.now = clock, !.permit = permit[d].state,
                                  !.next = "undoRelease"]
<1>1. Ready(d, "undo", memory[d]) /\ Local
  BY Here DEF Undo, At
<1>2. Turns(d, "undoRead", m) /\ m.permit = permit[d].state /\ m.next = "undoRelease"
  BY Here, Reading DEF Undo, Steps
<1>3. m.torn = memory[d].torn
  BY Here, ReadingTorn
<1> HIDE DEF m
<1>4. Ready(d, "undoRead", m)
  BY <1>1, <1>2, <1>3
  DEF Ready, Consistent, Admission, Dispatching, Exchanging, Abandoning, Halting, Leaving, Always
<1> QED
  BY <1>1, <1>2, <1>4, LocalMove DEF Ready

\* What was read is a permit that did not start: it is cancelled first, or gone.  With a
\* charge of which the request does not know, both are left.
LEMMA UndoReadMoves ==
    ASSUME RuntimeInv, NEW d \in Dispatches, UndoRead(d)
    PROVE  Moved(d)
<1>1. Ready(d, "undoRead", memory[d]) /\ Local
  BY Here DEF UndoRead, At
<1>2. /\ memory[d].permit \in Fresh /\ permit[d].state \in Fresh
      /\ claim[d].state = "reserved" \/ (claim[d].state = "dispatched" /\ memory[d].torn = "charge")
      /\ memory[d].next = "undoRelease"
      /\ memory[d].permit \notin Waiting => permit[d].state \notin Waiting
  BY <1>1 DEF Ready, Consistent, Admission
<1>3. CASE claim[d].state = "reserved" /\ memory[d].permit \in Waiting
  <2>1. Goto(d, "cancel") /\ UNCHANGED memory
    BY <1>2, <1>3 DEF UndoRead
  <2>2. Turns(d, "cancel", memory[d])
    BY <2>1, Here, Keeping DEF Steps
  <2>3. Ready(d, "cancel", memory[d])
    BY <1>1, <1>2, <1>3
    DEF Ready, Consistent, Admission, Dispatching, Exchanging, Abandoning, Halting, Leaving, Always
  <2> QED
    BY <1>1, <2>2, <2>3, LocalMove DEF Ready
<1>4. CASE claim[d].state = "reserved" /\ memory[d].permit \notin Waiting
  <2>1. Goto(d, "undoRelease") /\ UNCHANGED memory
    BY <1>2, <1>4 DEF UndoRead
  <2>2. Turns(d, "undoRelease", memory[d])
    BY <2>1, Here, Keeping DEF Steps
  <2>3. Ready(d, "undoRelease", memory[d])
    BY <1>1, <1>2, <1>4
    DEF Ready, Consistent, Admission, Dispatching, Exchanging, Abandoning, Halting, Leaving, Always
  <2> QED
    BY <1>1, <2>2, <2>3, LocalMove DEF Ready
<1>5. CASE claim[d].state = "dispatched" /\ memory[d].torn = "charge"
  <2>1. End(d, "failed")
    BY <1>2, <1>5 DEF UndoRead
  <2>2. Ready(d, "failed", Blank(d))
    BY <1>1, <1>2, <1>5, BlankTorn
    DEF Ready, Consistent, Admission, Dispatching, Exchanging, Abandoning, Halting, Leaving, Always
  <2> QED
    BY <1>1, <2>1, <2>2, Failing
<1> QED
  BY <1>2, <1>3, <1>4, <1>5

LEMMA UndoReleaseMoves ==
    ASSUME RuntimeInv, NEW d \in Dispatches, UndoRelease(d)
    PROVE  Moved(d)
<1>1. Ready(d, "undoRelease", memory[d]) /\ NoCapacityChange /\ Outside
  BY Here DEF UndoRelease, At
<1>2. Balanced' /\ Rewrites(d, {"reserved"}, {"released"})
  BY Here, ReturnEffect DEF UndoRelease
<1>3. Turns(d, "failed", Blank(d))
  BY Here, Forgetting DEF UndoRelease, End, Steps, Ended
<1>4. Consistent("failed", permit[d].state, claim'[d].state, claim'[d].receipt,
                 Blank(d), remote[d])
  BY <1>1, <1>2
  DEF Ready, Rewrites, Consistent, Admission, Dispatching, Exchanging, Abandoning, Halting,
      Leaving, Always
<1>5. /\ Onward(permit[d].state, claim[d].state, remote[d],
                permit[d].state, claim'[d].state, remote[d])
      /\ Blameless(permit[d].state, claim[d].state, remote[d],
                   permit[d].state, claim'[d].state, remote[d])
  BY <1>2 DEF Rewrites, Onward, Blameless
<1> QED
  BY <1>1, <1>2, <1>3, <1>4, <1>5, BudgetMove DEF Rewrites

LEMMA VoidMoves ==
    ASSUME RuntimeInv, NEW d \in Dispatches, Void(d)
    PROVE  Moved(d)
<1> DEFINE m == [memory[d] EXCEPT !.now = clock, !.permit = permit[d].state,
                                  !.next = "voidSettle"]
           s == CASE permit[d].state \in Waiting -> "cancel"
                  [] permit[d].state \in Capacity!Completable -> "voidComplete"
                  [] OTHER -> "voidSettle"
<1>1. Ready(d, "void", memory[d]) /\ Local /\ ReadPermit(d, s, "voidSettle")
  BY Here DEF Void, At
<1>2. \/ s = "cancel" /\ permit[d].state \in Waiting
      \/ s = "voidComplete" /\ permit[d].state \in Capacity!Completable
      \/ s = "voidSettle" /\ permit[d].state \notin Waiting
  OBVIOUS
<1> HIDE DEF s
<1>3. Turns(d, s, m) /\ m.next = "voidSettle"
  BY <1>1, <1>2, Here, Reading DEF Steps
<1> HIDE DEF m
<1>4. Ready(d, s, m)
  BY <1>1, <1>2, <1>3
  DEF Ready, Consistent, Admission, Dispatching, Exchanging, Abandoning, Halting, Leaving, Always
<1> QED
  BY <1>1, <1>3, <1>4, LocalMove DEF Ready

LEMMA VoidCompleteMoves ==
    ASSUME Remembered, RuntimeInv, NEW d \in Dispatches, VoidComplete(d)
    PROVE  Moved(d)
<1>1. Ready(d, "voidComplete", memory[d])
  BY Here DEF VoidComplete, At
<1>2. CASE /\ Capacity!Complete(d, memory[d].now) /\ NoBudgetChange /\ Outside
           /\ Goto(d, "voidSettle") /\ UNCHANGED memory
  <2>1. Filing' /\ Others(d) /\ Goes(d, Capacity!Completable, {"completed"})
    BY <1>2, Here, CompleteEffect
  <2>2. Turns(d, "voidSettle", memory[d])
    BY <1>2, Here, Keeping DEF Steps
  <2>3. Consistent("voidSettle", permit'[d].state, claim[d].state, claim[d].receipt,
                   memory[d], remote[d])
    BY <1>1, <2>1
    DEF Ready, Goes, Consistent, Admission, Dispatching, Exchanging, Abandoning, Halting, Leaving,
        Always
  <2>4. /\ Onward(permit[d].state, claim[d].state, remote[d],
                  permit'[d].state, claim[d].state, remote[d])
        /\ Blameless(permit[d].state, claim[d].state, remote[d],
                     permit'[d].state, claim[d].state, remote[d])
    BY <2>1 DEF Goes, Onward, Blameless
  <2> QED
    BY <1>2, <2>1, <2>2, <2>3, <2>4, CapacityMove
<1>3. CASE permit[d].state \notin Capacity!Completable /\ Local /\ End(d, "failed")
  <2>1. Ready(d, "failed", Blank(d))
    BY <1>1, <1>3
    DEF Ready, Consistent, Admission, Dispatching, Exchanging, Abandoning, Halting, Leaving, Always
  <2> QED
    BY <1>3, <2>1, Failing
<1> QED
  BY <1>2, <1>3 DEF VoidComplete

\* The clock of a request that was not sent was never read, and can be closed.
LEMMA VoidSettleMoves ==
    ASSUME RuntimeInv, NEW d \in Dispatches, VoidSettle(d)
    PROVE  Moved(d)
<1>1. Ready(d, "voidSettle", memory[d])
  BY Here DEF VoidSettle, At
<1>2. claim[d].state \in Open /\ claim[d].receipt = None /\ remote[d] = "none"
  BY <1>1 DEF Ready, Consistent, Dispatching, Always
<1>3. Budget!Readable(d, 0, ReceiptOf[d])
  BY <1>2, Here, Readability
<1>4. /\ Budget!SettleObservedWall(d, 0, ReceiptOf[d], TRUE) /\ NoCapacityChange /\ Outside
      /\ End(d, "failed")
  BY <1>3 DEF VoidSettle
<1>5. Balanced' /\ Rewrites(d, Budget!Charged, {"completed"})
  BY <1>4, Here, ReceiptTyped, SettledEffect
<1>6. Turns(d, "failed", Blank(d))
  BY <1>4, Here, Forgetting DEF End, Steps, Ended
<1>7. Consistent("failed", permit[d].state, claim'[d].state, claim'[d].receipt,
                 Blank(d), remote[d])
  BY <1>1, <1>2, <1>5
  DEF Ready, Rewrites, Consistent, Admission, Dispatching, Exchanging, Abandoning, Halting,
      Leaving, Always
<1>8. /\ Onward(permit[d].state, claim[d].state, remote[d],
                permit[d].state, claim'[d].state, remote[d])
      /\ Blameless(permit[d].state, claim[d].state, remote[d],
                   permit[d].state, claim'[d].state, remote[d])
  BY <1>2, <1>5 DEF Rewrites, Onward, Blameless
<1> QED
  BY <1>4, <1>5, <1>6, <1>7, <1>8, BudgetMove DEF Rewrites

(***************************************************************************)
(* The steps of a request: _cleanup after it was sent.                     *)
(***************************************************************************)
LEMMA AbandonMoves ==
    ASSUME RuntimeInv, NEW d \in Dispatches, Abandon(d)
    PROVE  Moved(d)
<1> DEFINE m == [memory[d] EXCEPT !.now = clock, !.permit = permit[d].state, !.next = "failed"]
<1>1. Ready(d, "abandon", memory[d]) /\ Local
  BY Here DEF Abandon, At
<1>2. Turns(d, "abandonRead", m) /\ m.permit = permit[d].state /\ m.next = "failed"
  BY Here, Reading DEF Abandon, Steps, Ended
<1> HIDE DEF m
<1>3. Ready(d, "abandonRead", m)
  BY <1>1, <1>2
  DEF Ready, Consistent, Admission, Dispatching, Exchanging, Abandoning, Halting, Leaving, Always
<1> QED
  BY <1>1, <1>2, <1>3, LocalMove DEF Ready

LEMMA AbandonReadMoves ==
    ASSUME RuntimeInv, NEW d \in Dispatches, AbandonRead(d)
    PROVE  Moved(d)
<1> DEFINE isCompleted == memory[d].permit = "completed"
           seen == claim[d].state
<1>1. Ready(d, "abandonRead", memory[d]) /\ Local
  BY Here DEF AbandonRead, At
<1>2. /\ permit[d].state \in Begun /\ seen \in Budget!Charged
      /\ isCompleted => permit[d].state = "completed"
  BY <1>1 DEF Ready, Consistent, Exchanging, Abandoning
<1>3. CASE isCompleted /\ seen = "dispatched"
  <2>1. Goto(d, "lateSettle") /\ UNCHANGED memory
    BY <1>3 DEF AbandonRead
  <2>2. Turns(d, "lateSettle", memory[d])
    BY <2>1, Here, Keeping DEF Steps
  <2>3. Ready(d, "lateSettle", memory[d])
    BY <1>1, <1>2, <1>3
    DEF Ready, Consistent, Admission, Dispatching, Exchanging, Abandoning, Halting, Leaving, Always
  <2> QED
    BY <1>1, <2>2, <2>3, LocalMove DEF Ready
<1>4. CASE isCompleted /\ seen # "dispatched"
  <2>1. End(d, "failed")
    BY <1>4 DEF AbandonRead
  <2>2. Ready(d, "failed", Blank(d))
    BY <1>1, <1>2, <1>4
    DEF Ready, Consistent, Admission, Dispatching, Exchanging, Abandoning, Halting, Leaving, Always
  <2> QED
    BY <1>1, <2>1, <2>2, Failing
<1>5. CASE ~isCompleted /\ seen \in Open
  <2> DEFINE m == [memory[d] EXCEPT !.claim = seen]
  <2>1. Goto(d, "observe") /\ Remember(d, "claim", seen)
    BY <1>5 DEF AbandonRead
  <2>2. m \in Memories /\ memory' = [memory EXCEPT ![d] = m]
    BY <2>1, Here DEF Remember, Typed, Memories
  <2>3. m.claim = seen /\ m.permit = memory[d].permit /\ m.next = memory[d].next
    BY Here DEF Memories
  <2> HIDE DEF m
  <2>4. Turns(d, "observe", m)
    BY <2>1, <2>2 DEF Turns, Goto, Steps
  <2>5. Ready(d, "observe", m)
    BY <1>1, <1>2, <1>5, <2>3
    DEF Ready, Consistent, Admission, Dispatching, Exchanging, Abandoning, Halting, Leaving, Always
  <2> QED
    BY <1>1, <2>4, <2>5, LocalMove DEF Ready
<1>6. CASE ~isCompleted /\ seen \notin Open
  <2>1. Goto(d, "free") /\ UNCHANGED memory
    BY <1>6 DEF AbandonRead
  <2>2. Turns(d, "free", memory[d])
    BY <2>1, Here, Keeping DEF Steps
  <2>3. Ready(d, "free", memory[d])
    BY <1>1, <1>2, <1>6
    DEF Ready, Consistent, Admission, Dispatching, Exchanging, Abandoning, Halting, Leaving, Always
  <2> QED
    BY <1>1, <2>2, <2>3, LocalMove DEF Ready
<1> QED
  BY <1>3, <1>4, <1>5, <1>6

LEMMA LateSettleMoves ==
    ASSUME RuntimeInv, NEW d \in Dispatches, LateSettle(d)
    PROVE  Moved(d)
<1>1. Ready(d, "lateSettle", memory[d]) /\ End(d, "failed")
  BY Here DEF LateSettle, At
<1>2. PICK millis \in Readings :
         \/ /\ Budget!SettleObservedWall(d, millis, ReceiptOf[d], TRUE)
            /\ NoCapacityChange /\ Outside
         \/ ~Budget!Readable(d, millis, ReceiptOf[d]) /\ Local
  BY DEF LateSettle
<1>3. CASE Budget!SettleObservedWall(d, millis, ReceiptOf[d], TRUE) /\ NoCapacityChange /\ Outside
  <2>1. Balanced' /\ Rewrites(d, Budget!Charged, {"completed"})
    BY <1>3, Here, ReceiptTyped, SettledEffect
  <2>2. Turns(d, "failed", Blank(d))
    BY <1>1, Here, Forgetting DEF End, Steps, Ended
  <2>3. Consistent("failed", permit[d].state, claim'[d].state, claim'[d].receipt,
                   Blank(d), remote[d])
    BY <1>1, <2>1
    DEF Ready, Rewrites, Consistent, Admission, Dispatching, Exchanging, Abandoning, Halting,
        Leaving, Always
  <2>4. /\ Onward(permit[d].state, claim[d].state, remote[d],
                  permit[d].state, claim'[d].state, remote[d])
        /\ Blameless(permit[d].state, claim[d].state, remote[d],
                     permit[d].state, claim'[d].state, remote[d])
    BY <1>1, <2>1 DEF Ready, Consistent, Exchanging, Rewrites, Onward, Blameless
  <2> QED
    BY <1>3, <2>1, <2>2, <2>3, <2>4, BudgetMove DEF Rewrites
<1>4. CASE ~Budget!Readable(d, millis, ReceiptOf[d]) /\ Local
  <2>1. claim[d].state \in Budget!Charged /\ claim[d].state \notin Open
    BY <1>1, <1>4, Here, Readability, RuntimeAssumption
    DEF Ready, Consistent, Exchanging, Always
  <2>2. Ready(d, "failed", Blank(d))
    BY <1>1, <2>1
    DEF Ready, Consistent, Admission, Dispatching, Exchanging, Abandoning, Halting, Leaving, Always
  <2> QED
    BY <1>1, <1>4, <2>2, Failing
<1> QED
  BY <1>2, <1>3, <1>4

LEMMA ObserveMoves ==
    ASSUME RuntimeInv, NEW d \in Dispatches, Observe(d)
    PROVE  Moved(d)
<1>1. Ready(d, "observe", memory[d])
  BY Here DEF Observe, At
<1>2. PICK millis \in Readings :
         \/ /\ Budget!ObserveWall(d, millis, ReceiptOf[d]) /\ NoCapacityChange /\ Outside
            /\ Goto(d, IF memory[d].claim = "dispatched" THEN "markUnknown" ELSE "free")
            /\ UNCHANGED memory
         \/ ~Budget!Readable(d, millis, ReceiptOf[d]) /\ Local /\ End(d, "failed")
  BY DEF Observe
<1>3. CASE /\ Budget!ObserveWall(d, millis, ReceiptOf[d]) /\ NoCapacityChange /\ Outside
           /\ Goto(d, IF memory[d].claim = "dispatched" THEN "markUnknown" ELSE "free")
           /\ UNCHANGED memory
  <2>1. Balanced' /\ Rewrites(d, {claim[d].state}, {claim[d].state})
    BY <1>3, Here, ReceiptTyped, ObserveEffect
  <2>2. PICK s \in {"markUnknown", "free"} :
           /\ Goto(d, s)
           /\ s = "free" => memory[d].claim # "dispatched"
    BY <1>3
  <2>3. Turns(d, s, memory[d])
    BY <1>3, <2>2, Here, Keeping DEF Steps
  <2>4. Consistent(s, permit[d].state, claim'[d].state, claim'[d].receipt, memory[d], remote[d])
    BY <1>1, <2>1, <2>2
    DEF Ready, Rewrites, Consistent, Admission, Dispatching, Exchanging, Abandoning, Halting,
        Leaving, Always
  <2>5. /\ Onward(permit[d].state, claim[d].state, remote[d],
                  permit[d].state, claim'[d].state, remote[d])
        /\ Blameless(permit[d].state, claim[d].state, remote[d],
                     permit[d].state, claim'[d].state, remote[d])
    BY <2>1 DEF Rewrites, Onward, Blameless
  <2> QED
    BY <1>3, <2>1, <2>3, <2>4, <2>5, BudgetMove DEF Rewrites
<1>4. CASE ~Budget!Readable(d, millis, ReceiptOf[d]) /\ Local /\ End(d, "failed")
  <2>1. claim[d].state \in Budget!Charged /\ claim[d].state \notin Open
    BY <1>1, <1>4, Here, Readability, RuntimeAssumption
    DEF Ready, Consistent, Exchanging, Always
  <2>2. Ready(d, "failed", Blank(d))
    BY <1>1, <2>1
    DEF Ready, Consistent, Admission, Dispatching, Exchanging, Abandoning, Halting, Leaving, Always
  <2> QED
    BY <1>4, <2>2, Failing
<1> QED
  BY <1>2, <1>3, <1>4

LEMMA MarkUnknownMoves ==
    ASSUME RuntimeInv, NEW d \in Dispatches, MarkUnknown(d)
    PROVE  Moved(d)
<1>1. Ready(d, "markUnknown", memory[d])
  BY Here DEF MarkUnknown, At
<1>2. CASE /\ Budget!MarkUnknown(d) /\ NoCapacityChange /\ Outside
           /\ Goto(d, "free") /\ UNCHANGED memory
  <2>1. Balanced' /\ Rewrites(d, {"dispatched"}, {"unknown"})
    BY <1>2, Here, UnknownEffect
  <2>2. Turns(d, "free", memory[d])
    BY <1>2, Here, Keeping DEF Steps
  <2>3. Consistent("free", permit[d].state, claim'[d].state, claim'[d].receipt,
                   memory[d], remote[d])
    BY <1>1, <2>1
    DEF Ready, Rewrites, Consistent, Admission, Dispatching, Exchanging, Abandoning, Halting,
        Leaving, Always
  <2>4. /\ Onward(permit[d].state, claim[d].state, remote[d],
                  permit[d].state, claim'[d].state, remote[d])
        /\ Blameless(permit[d].state, claim[d].state, remote[d],
                     permit[d].state, claim'[d].state, remote[d])
    BY <2>1 DEF Rewrites, Onward, Blameless
  <2> QED
    BY <1>2, <2>1, <2>2, <2>3, <2>4, BudgetMove DEF Rewrites
<1>3. CASE claim[d].state = "unknown" /\ Local /\ Goto(d, "free") /\ UNCHANGED memory
  <2>1. Turns(d, "free", memory[d])
    BY <1>3, Here, Keeping DEF Steps
  <2>2. Ready(d, "free", memory[d])
    BY <1>1, <1>3
    DEF Ready, Consistent, Admission, Dispatching, Exchanging, Abandoning, Halting, Leaving, Always
  <2> QED
    BY <1>3, <2>1, <2>2, LocalMove DEF Ready
<1>4. CASE claim[d].state = "completed" /\ Local /\ End(d, "failed")
  <2>1. Ready(d, "failed", Blank(d))
    BY <1>1, <1>4
    DEF Ready, Consistent, Admission, Dispatching, Exchanging, Abandoning, Halting, Leaving, Always
  <2> QED
    BY <1>4, <2>1, Failing
<1> QED
  BY <1>2, <1>3, <1>4 DEF MarkUnknown

\* A permit that is still dispatched was read so, and is marked.
LEMMA FreeOrKeepMoves ==
    ASSUME RuntimeInv, NEW d \in Dispatches, FreeOrKeep(d)
    PROVE  Moved(d)
<1> DEFINE unmarked == IF memory[d].cancelled THEN {"dispatched", "completion_unknown"}
                                              ELSE {"dispatched", "cancel_requested"}
<1>1. Ready(d, "free", memory[d]) /\ Local
  BY Here DEF FreeOrKeep, At
<1>2. memory[d].permit \notin unmarked => permit[d].state # "dispatched"
  BY <1>1 DEF Ready, Consistent, Abandoning
<1>3. CASE memory[d].permit \in unmarked
  <2>1. PICK s \in {"cancel", "heartbeat"} : Goto(d, s) /\ UNCHANGED memory
    BY <1>3 DEF FreeOrKeep
  <2>2. Turns(d, s, memory[d])
    BY <2>1, Here, Keeping DEF Steps
  <2>3. Ready(d, s, memory[d])
    BY <1>1
    DEF Ready, Consistent, Admission, Dispatching, Exchanging, Abandoning, Halting, Leaving, Always
  <2> QED
    BY <1>1, <2>2, <2>3, LocalMove DEF Ready
<1>4. CASE memory[d].permit \notin unmarked
  <2>1. End(d, "failed")
    BY <1>4 DEF FreeOrKeep
  <2> HIDE DEF unmarked
  <2>2. Ready(d, "failed", Blank(d))
    BY <1>1, <1>2, <1>4
    DEF Ready, Consistent, Admission, Dispatching, Exchanging, Abandoning, Halting, Leaving, Always
  <2> QED
    BY <1>1, <2>1, <2>2, Failing
<1> QED
  BY <1>3, <1>4

LEMMA HeartbeatMoves ==
    ASSUME Remembered, RuntimeInv, NEW d \in Dispatches, Heartbeat(d)
    PROVE  Moved(d)
<1>1. /\ pc[d] = "heartbeat" /\ ExpireFirst(memory[d].now)
      /\ Turns(d, "heartbeatLost", memory[d])
  BY Here, Keeping DEF Heartbeat, At, Steps
<1>2. Ready(d, "heartbeatLost", memory[d])
  BY <1>1, Here
  DEF Ready, Consistent, Admission, Dispatching, Exchanging, Abandoning, Halting, Leaving, Always
<1> QED
  BY <1>1, <1>2, Here, ExpiryMove DEF Ready

LEMMA HeartbeatLostMoves ==
    ASSUME RuntimeInv, NEW d \in Dispatches, HeartbeatLost(d)
    PROVE  Moved(d)
<1>1. Ready(d, "heartbeatLost", memory[d]) /\ End(d, "failed")
  BY Here DEF HeartbeatLost, At
<1>2. CASE Capacity!NoteHeartbeatExpired(d) /\ NoBudgetChange /\ Outside
  <2>1. Filing' /\ Others(d) /\ Goes(d, {"dispatched"}, {"completion_unknown"})
    BY <1>2, Here, HeartbeatEffect
  <2>2. Turns(d, "failed", Blank(d))
    BY <1>1, Here, Forgetting DEF End, Steps, Ended
  <2>3. Consistent("failed", permit'[d].state, claim[d].state, claim[d].receipt,
                   Blank(d), remote[d])
    BY <1>1, <2>1
    DEF Ready, Goes, Consistent, Admission, Dispatching, Exchanging, Abandoning, Halting, Leaving,
        Always
  <2>4. /\ Onward(permit[d].state, claim[d].state, remote[d],
                  permit'[d].state, claim[d].state, remote[d])
        /\ Blameless(permit[d].state, claim[d].state, remote[d],
                     permit'[d].state, claim[d].state, remote[d])
    BY <2>1 DEF Goes, Onward, Blameless
  <2> QED
    BY <1>2, <2>1, <2>2, <2>3, <2>4, CapacityMove
<1>3. CASE permit[d].state # "dispatched" /\ Local
  <2>1. Ready(d, "failed", Blank(d))
    BY <1>1, <1>3
    DEF Ready, Consistent, Admission, Dispatching, Exchanging, Abandoning, Halting, Leaving, Always
  <2> QED
    BY <1>1, <1>3, <2>1, Failing
<1> QED
  BY <1>2, <1>3 DEF HeartbeatLost

LEMMA CancelMoves ==
    ASSUME Remembered, RuntimeInv, NEW d \in Dispatches, Cancel(d)
    PROVE  Moved(d)
<1>1. /\ pc[d] = "cancel" /\ ExpireFirst(memory[d].now)
      /\ Turns(d, "cancelling", memory[d])
  BY Here, Keeping DEF Cancel, At, Steps
<1>2. Ready(d, "cancelling", memory[d])
  BY <1>1, Here
  DEF Ready, Consistent, Admission, Dispatching, Exchanging, Abandoning, Halting, Leaving, Always
<1> QED
  BY <1>1, <1>2, Here, ExpiryMove DEF Ready

\* Where a cancelled request goes on to.
LEMMA AfterCancel ==
    ASSUME RuntimeInv, NEW d \in Dispatches, Cancelling(d)
    PROVE  \E s \in {"failed", "undoRelease", "voidSettle"} :
              LET m == IF s = "failed" THEN Blank(d) ELSE memory[d]
              IN Turns(d, s, m) /\ s = memory[d].next /\ m.torn = memory[d].torn
<1>1. Ready(d, "cancelling", memory[d])
  BY Here DEF Cancelling, At
<1>2. memory[d].next \in {"failed", "undoRelease", "voidSettle"}
  BY <1>1 DEF Ready, Consistent, Halting
<1>3. CASE memory[d].next = "failed"
  <2>1. Turns(d, "failed", Blank(d))
    BY <1>3, Here, Forgetting DEF Cancelling, End, Steps, Ended
  <2> QED
    BY <1>3, <2>1, BlankTorn
<1>4. CASE memory[d].next # "failed"
  <2>1. Goto(d, memory[d].next) /\ UNCHANGED memory
    BY <1>4 DEF Cancelling
  <2>2. Turns(d, memory[d].next, memory[d])
    BY <1>2, <2>1, Here, Keeping DEF Steps, Ended
  <2> QED
    BY <1>2, <1>4, <2>2
<1> QED
  BY <1>3, <1>4

LEMMA CancellingMoves ==
    ASSUME Remembered, RuntimeInv, NEW d \in Dispatches, Cancelling(d)
    PROVE  Moved(d)
<1>1. Ready(d, "cancelling", memory[d])
  BY Here DEF Cancelling, At
<1>2. PICK s \in {"failed", "undoRelease", "voidSettle"}, m \in {Blank(d), memory[d]} :
         Turns(d, s, m) /\ s = memory[d].next /\ m.torn = memory[d].torn
  BY AfterCancel
<1>3. CASE Capacity!Cancel(d, memory[d].now) /\ NoBudgetChange /\ Outside
  <2>1. /\ Filing' /\ Others(d)
        /\ Goes(d, Waiting, {"cancelled"}) \/ Goes(d, {"dispatched"}, {"cancel_requested"})
    BY <1>3, Here, CancelEffect
  <2>2. Consistent(s, permit'[d].state, claim[d].state, claim[d].receipt, m, remote[d])
    BY <1>1, <1>2, <2>1
    DEF Ready, Goes, Consistent, Admission, Dispatching, Exchanging, Abandoning, Halting, Leaving,
        Always
  <2>3. /\ Onward(permit[d].state, claim[d].state, remote[d],
                  permit'[d].state, claim[d].state, remote[d])
        /\ Blameless(permit[d].state, claim[d].state, remote[d],
                     permit'[d].state, claim[d].state, remote[d])
    BY <2>1 DEF Goes, Onward, Blameless
  <2> QED
    BY <1>2, <1>3, <2>1, <2>2, <2>3, CapacityMove
<1>4. CASE permit[d].state \notin Waiting \cup {"dispatched"} /\ Local
  <2>1. Ready(d, s, m)
    BY <1>1, <1>2, <1>4
    DEF Ready, Consistent, Admission, Dispatching, Exchanging, Abandoning, Halting, Leaving, Always
  <2> QED
    BY <1>2, <1>4, <2>1, LocalMove DEF Ready
<1> QED
  BY <1>3, <1>4 DEF Cancelling

LEMMA CrashMoves ==
    ASSUME RuntimeInv, NEW d \in Dispatches, Crash(d)
    PROVE  Moved(d)
<1>1. Turns(d, "crashed", Blank(d)) /\ Local
  BY Here, Forgetting DEF Crash, End, Steps, Ended
<1>2. Ready(d, "crashed", Blank(d))
  BY Here
  DEF Ready, Consistent, Admission, Dispatching, Exchanging, Abandoning, Halting, Leaving, Always
<1> QED
  BY <1>1, <1>2, LocalMove DEF Ready

\* Every step of a request's own coroutine.
LEMMA StepMoves ==
    ASSUME Remembered, RuntimeInv, NEW d \in Dispatches, Step(d)
    PROVE  Moved(d)
BY AcquireMoves, PollMoves, PolledMoves, ReadForReserveMoves, ReserveMoves, CallbackMoves,
   EnsureAdmittedMoves, EnsuredMoves, ChargeMoves, StartMoves, StartedMoves, SendMoves,
   RespondMoves, LoseResponseMoves, CompleteMoves, SettleMoves, DropMoves, UndoMoves,
   UndoReadMoves, UndoReleaseMoves, VoidMoves, VoidCompleteMoves, VoidSettleMoves, AbandonMoves,
   AbandonReadMoves, LateSettleMoves, ObserveMoves, MarkUnknownMoves, FreeOrKeepMoves,
   HeartbeatMoves, HeartbeatLostMoves, CancelMoves, CancellingMoves DEF Step

(***************************************************************************)
(* The server finishes, and the operators' commands.                       *)
(***************************************************************************)
LEMMA ServerMoves ==
    ASSUME RuntimeInv, NEW d \in Dispatches, ServerFinishes(d)
    PROVE  Moved(d)
<1>1. /\ remote[d] = "running" /\ remote' = [remote EXCEPT ![d] = "done"]
      /\ UNCHANGED <<clock, pc, memory, command>>
      /\ UNCHANGED <<permit, queue, policy, nextSerial>>
      /\ UNCHANGED <<ceiling, consumed, reserved, claim, profile>>
  BY DEF ServerFinishes, NoResourceChange, NoCapacityChange, NoBudgetChange, coordinatorVars,
     ledgerVars
<1>2. Typed' /\ remote'[d] = "done" /\ \A e \in Dispatches \ {d} : remote'[e] = remote[e]
  BY <1>1, Here DEF Typed
<1>3. Filing'
  BY <1>1, Here DEF Filing, Filed, Waits, Numbered
<1>4. Balanced'
  BY <1>1, Here, AccountsKept DEF Balanced, ledgerVars
<1>5. Elsewhere(d)
  BY <1>1, <1>2 DEF Elsewhere, Drift
<1>6. Consistent(pc[d], permit[d].state, claim[d].state, claim[d].receipt, memory[d], "done")
  BY <1>1, Here
  DEF Ready, Consistent, Admission, Dispatching, Exchanging, Abandoning, Halting, Leaving, Always
<1>7. /\ Onward(permit[d].state, claim[d].state, remote[d],
                permit[d].state, claim[d].state, "done")
      /\ Blameless(permit[d].state, claim[d].state, remote[d],
                   permit[d].state, claim[d].state, "done")
  BY <1>1 DEF Onward, Blameless
<1> QED
  BY <1>1, <1>2, <1>3, <1>4, <1>5, <1>6, <1>7 DEF Moved

\* What an operator may do to a request, whatever call that makes next.
LEMMA MarkedConsistent ==
    ASSUME NEW s, NEW p, NEW w, NEW m, NEW r,
           Consistent(s, p, "dispatched", w, m, r), p \in Begun \ {"dispatched"}
    PROVE  Consistent(s, p, "unknown", w, m, r)
BY DEF Consistent, Admission, Dispatching, Exchanging, Abandoning, Halting, Leaving, Always

LEMMA ReleasedConsistent ==
    ASSUME NEW s, NEW p, NEW c, NEW w, NEW m, NEW r, Consistent(s, p, c, w, m, r),
           p \in {"completion_unknown", "cancel_requested"}, c \in {"unknown", "completed"}
    PROVE  Consistent(s, "released", c, w, m, r)
BY DEF Consistent, Admission, Dispatching, Exchanging, Abandoning, Halting, Leaving, Always

LEMMA SettledConsistent ==
    ASSUME NEW s, NEW p, NEW c, NEW w, NEW v, NEW m, Consistent(s, p, c, w, m, "done")
    PROVE  Consistent(s, p, "completed", v, m, "done")
BY DEF Consistent, Admission, Dispatching, Exchanging, Abandoning, Halting, Leaving, Always

LEMMA CompletedConsistent ==
    ASSUME NEW s, NEW p, NEW c, NEW w, NEW m, Consistent(s, p, c, w, m, "done")
    PROVE  Consistent(s, "completed", c, w, m, "done")
BY DEF Consistent, Admission, Dispatching, Exchanging, Abandoning, Halting, Leaving, Always

\* Operator o leaves its command as the record k, and request d is the only one it touched.
Ran(o, d, k) ==
    /\ Typed' /\ Filing' /\ Balanced' /\ UNCHANGED <<clock, pc, memory, remote>>
    /\ \A e \in Dispatches \ {d} :
          Drift(permit[e].state, permit'[e].state) /\ claim'[e] = claim[e]
    /\ Onward(permit[d].state, claim[d].state, remote[d],
              permit'[d].state, claim'[d].state, remote[d])
    /\ Consistent(pc[d], permit'[d].state, claim'[d].state, claim'[d].receipt,
                  memory[d], remote[d])
    /\ command' = [command EXCEPT ![o] = k]
    /\ k.step # "none" => /\ k.dispatch = d
                          /\ Warranted(k.step, permit'[d].state, claim'[d].state, remote[d])

LEMMA RanKeepsInv ==
    ASSUME RuntimeInv, NEW o \in Operators, NEW d \in Dispatches, NEW k, Ran(o, d, k)
    PROVE  RuntimeInv'
<1>1. ASSUME NEW e \in Dispatches
      PROVE  /\ Onward(permit[e].state, claim[e].state, remote[e],
                       permit'[e].state, claim'[e].state, remote'[e])
             /\ Consistent(pc'[e], permit'[e].state, claim'[e].state, claim'[e].receipt,
                           memory'[e], remote'[e])
  <2>1. CASE e = d
    BY <2>1 DEF Ran
  <2>2. CASE e # d
    <3>1. /\ Drift(permit[e].state, permit'[e].state) /\ claim'[e] = claim[e]
          /\ UNCHANGED <<pc, memory, remote>>
      BY <2>2 DEF Ran
    <3>2. Consistent(pc[e], permit[e].state, claim[e].state, claim[e].receipt,
                     memory[e], remote[e])
      BY DEF RuntimeInv, Phases
    <3> QED
      BY <3>1, <3>2, ConsistentDrift, DriftOnward
  <2> QED
    BY <2>1, <2>2
<1>2. Phases'
  BY <1>1 DEF Phases
<1>3. ASSUME NEW q \in Operators, command'[q].step # "none"
      PROVE  /\ command'[q].dispatch \in Dispatches
             /\ Warranted(command'[q].step, permit'[command'[q].dispatch].state,
                          claim'[command'[q].dispatch].state, remote'[command'[q].dispatch])
  <2>1. command' = [command EXCEPT ![o] = k] /\ command \in [Operators -> CommandRecords]
        /\ remote' = remote
    BY DEF Ran, RuntimeInv, Typed
  <2>2. CASE q = o
    <3>1. command'[q] = k
      BY <2>1, <2>2
    <3>2. k.dispatch = d /\ Warranted(k.step, permit'[d].state, claim'[d].state, remote[d])
      BY <1>3, <3>1 DEF Ran
    <3> QED
      BY <2>1, <3>1, <3>2
  <2>3. CASE q # o
    <3>1. command'[q] = command[q]
      BY <2>1, <2>3
    <3>2. /\ command[q].dispatch \in Dispatches
          /\ Warranted(command[q].step, permit[command[q].dispatch].state,
                       claim[command[q].dispatch].state, remote[command[q].dispatch])
      BY <1>3, <3>1 DEF RuntimeInv, Warrants
    <3> QED
      BY <1>1, <2>1, <3>1, <3>2, WarrantedOnward
  <2> QED
    BY <2>2, <2>3
<1>4. Warrants'
  BY <1>3 DEF Warrants
<1> QED
  BY <1>2, <1>4 DEF RuntimeInv, Ran

\* What an operator's command is about, and how it goes on.
LEMMA Commanded ==
    ASSUME RuntimeInv, NEW o \in Operators, command[o].step # "none"
    PROVE  /\ command[o].dispatch \in Dispatches /\ command[o].now \in Nat
           /\ command[o] \in CommandRecords
           /\ Warranted(command[o].step, permit[command[o].dispatch].state,
                        claim[command[o].dispatch].state, remote[command[o].dispatch])
BY DEF RuntimeInv, Warrants, Typed, CommandRecords

LEMMA GoingOn ==
    ASSUME RuntimeInv, NEW o \in Operators, NEW s \in Commands, Then(o, s)
    PROVE  LET k == [command[o] EXCEPT !.step = s]
           IN /\ command' = [command EXCEPT ![o] = k] /\ k \in CommandRecords
              /\ k.step = s /\ k.dispatch = command[o].dispatch
BY DEF RuntimeInv, Typed, CommandRecords, Then

LEMMA GoingAway ==
    ASSUME RuntimeInv, NEW o \in Operators, Leave(o)
    PROVE  command' = [command EXCEPT ![o] = Free] /\ Free \in CommandRecords
BY DEF Leave, Free, CommandRecords, Commands, Capacity!PermitStates, Budget!ClaimStates

\* An operator's step by what it touches: nothing shared, the coordinator or the ledger.
LEMMA RanLocal ==
    ASSUME RuntimeInv, NEW o \in Operators, NEW d \in Dispatches, NEW k \in CommandRecords,
           command' = [command EXCEPT ![o] = k], NoResourceChange, Around,
           k.step # "none" => /\ k.dispatch = d
                              /\ Warranted(k.step, permit[d].state, claim[d].state, remote[d])
    PROVE  Ran(o, d, k)
<1>1. /\ UNCHANGED <<permit, queue, policy, nextSerial>>
      /\ UNCHANGED <<ceiling, consumed, reserved, claim, profile>>
      /\ UNCHANGED <<clock, pc, memory, remote>>
  BY DEF NoResourceChange, NoCapacityChange, NoBudgetChange, Around, coordinatorVars, ledgerVars
<1>2. Typed'
  BY <1>1, Here DEF RuntimeInv, Typed
<1>3. Filing'
  BY <1>1, Here DEF Filing, Filed, Waits, Numbered
<1>4. Balanced'
  BY <1>1, Here, AccountsKept DEF Balanced, ledgerVars
<1>5. Drift(permit[d].state, permit[d].state)
  BY DEF Drift
<1>6. Consistent(pc[d], permit[d].state, claim[d].state, claim[d].receipt, memory[d], remote[d])
  BY Here DEF Ready
<1> QED
  BY <1>1, <1>2, <1>3, <1>4, <1>5, <1>6, DriftOnward DEF Ran, Drift

LEMMA RanCapacity ==
    ASSUME RuntimeInv, NEW o \in Operators, NEW d \in Dispatches, NEW k \in CommandRecords,
           command' = [command EXCEPT ![o] = k], NoBudgetChange, Around, Filing', Others(d),
           Onward(permit[d].state, claim[d].state, remote[d],
                  permit'[d].state, claim[d].state, remote[d]),
           Consistent(pc[d], permit'[d].state, claim[d].state, claim[d].receipt,
                      memory[d], remote[d]),
           k.step # "none" => /\ k.dispatch = d
                              /\ Warranted(k.step, permit'[d].state, claim[d].state, remote[d])
    PROVE  Ran(o, d, k)
<1>1. /\ UNCHANGED <<ceiling, consumed, reserved, claim, profile>>
      /\ UNCHANGED <<clock, pc, memory, remote>>
  BY DEF NoBudgetChange, Around, ledgerVars
<1>2. Typed'
  BY <1>1, Here DEF RuntimeInv, Typed
<1>3. Balanced'
  BY <1>1, Here, AccountsKept DEF Balanced, ledgerVars
<1> QED
  BY <1>1, <1>2, <1>3 DEF Ran, Others, Tail

LEMMA RanBudget ==
    ASSUME RuntimeInv, NEW o \in Operators, NEW d \in Dispatches, NEW k \in CommandRecords,
           command' = [command EXCEPT ![o] = k], NoCapacityChange, Around, Balanced',
           \A e \in Dispatches \ {d} : claim'[e] = claim[e],
           Onward(permit[d].state, claim[d].state, remote[d],
                  permit[d].state, claim'[d].state, remote[d]),
           Consistent(pc[d], permit[d].state, claim'[d].state, claim'[d].receipt,
                      memory[d], remote[d]),
           k.step # "none" => /\ k.dispatch = d
                              /\ Warranted(k.step, permit[d].state, claim'[d].state, remote[d])
    PROVE  Ran(o, d, k)
<1>1. /\ UNCHANGED <<permit, queue, policy, nextSerial>>
      /\ UNCHANGED <<clock, pc, memory, remote>>
  BY DEF NoCapacityChange, Around, coordinatorVars
<1>2. Typed'
  BY <1>1, Here DEF RuntimeInv, Typed
<1>3. Filing'
  BY <1>1, Here DEF Filing, Filed, Waits, Numbered
<1> QED
  BY <1>1, <1>2, <1>3 DEF Ran, Drift

(***************************************************************************)
(* reconcile.                                                              *)
(***************************************************************************)
LEMMA BeginReconcileRuns ==
    ASSUME RuntimeInv, NEW o \in Operators, NEW d \in Dispatches, BeginReconcile(o, d)
    PROVE  \E k : Ran(o, d, k)
<1> DEFINE k == [Free EXCEPT !.step = "expire", !.dispatch = d, !.now = clock,
                             !.claim = claim[d].state]
<1>1. command' = [command EXCEPT ![o] = k] /\ NoResourceChange /\ Around
  BY DEF BeginReconcile
<1>2. k \in CommandRecords /\ k.step = "expire" /\ k.dispatch = d
  BY Here DEF Free, CommandRecords, Commands, Capacity!PermitStates
<1> HIDE DEF k
<1>3. Warranted(k.step, permit[d].state, claim[d].state, remote[d])
  BY <1>2 DEF Warranted
<1> QED
  BY <1>1, <1>2, <1>3, RanLocal

LEMMA ReconcileExpireRuns ==
    ASSUME Remembered, RuntimeInv, NEW o \in Operators, ReconcileExpire(o)
    PROVE  \E k : Ran(o, command[o].dispatch, k)
<1> DEFINE d == command[o].dispatch
           k == [command[o] EXCEPT !.step = "readPermit"]
<1>1. command[o].step = "expire" /\ d \in Dispatches /\ command[o].now \in Nat
  BY Commanded DEF ReconcileExpire, Doing
<1>2. /\ command' = [command EXCEPT ![o] = k] /\ k \in CommandRecords
      /\ k.step = "readPermit" /\ k.dispatch = d
  BY GoingOn DEF ReconcileExpire, Commands
<1>3. NoBudgetChange /\ Around /\ Capacity!ExpireDue(command[o].now)
  BY DEF ReconcileExpire
<1> HIDE DEF d, k
<1>4. Filing' /\ \A e \in Dispatches : Tail(permit[e], permit'[e])
  BY <1>1, <1>3, ExpireDueEffect DEF RuntimeInv
<1>5. Drift(permit[d].state, permit'[d].state) /\ Others(d)
  BY <1>1, <1>4 DEF Tail, Others
<1>6. Consistent(pc[d], permit'[d].state, claim[d].state, claim[d].receipt, memory[d], remote[d])
  BY <1>1, <1>5, Here, ConsistentDrift DEF Ready
<1>7. Warranted(k.step, permit'[d].state, claim[d].state, remote[d])
  BY <1>2 DEF Warranted
<1>8. Ran(o, d, k)
  BY <1>1, <1>2, <1>3, <1>4, <1>5, <1>6, <1>7, DriftOnward, RanCapacity
<1> QED
  BY <1>8 DEF d

LEMMA ReconcileReadPermitRuns ==
    ASSUME RuntimeInv, NEW o \in Operators, ReconcileReadPermit(o)
    PROVE  \E k : Ran(o, command[o].dispatch, k)
<1> DEFINE d == command[o].dispatch
<1>1. d \in Dispatches /\ NoResourceChange /\ Around
  BY Commanded DEF ReconcileReadPermit, Doing
<1>2. CASE permit[d].state \in {"completion_unknown", "cancel_requested"}
  <2> DEFINE k == [command[o] EXCEPT !.step = "mark"]
  <2>1. Then(o, "mark")
    BY <1>2 DEF ReconcileReadPermit
  <2>2. /\ command' = [command EXCEPT ![o] = k] /\ k \in CommandRecords
        /\ k.step = "mark" /\ k.dispatch = d
    BY <2>1, GoingOn DEF Commands
  <2> HIDE DEF d, k
  <2>3. Warranted(k.step, permit[d].state, claim[d].state, remote[d])
    BY <1>2, <2>2 DEF Warranted
  <2>4. Ran(o, d, k)
    BY <1>1, <2>2, <2>3, RanLocal
  <2> QED
    BY <2>4 DEF d
<1>3. CASE permit[d].state \notin {"completion_unknown", "cancel_requested"}
  <2>1. Leave(o)
    BY <1>3 DEF ReconcileReadPermit
  <2>2. Ran(o, d, Free)
    BY <1>1, <2>1, GoingAway, RanLocal DEF Free
  <2> QED
    BY <2>2
<1> QED
  BY <1>2, <1>3

LEMMA ReconcileMarkRuns ==
    ASSUME RuntimeInv, NEW o \in Operators, ReconcileMark(o)
    PROVE  \E k : Ran(o, command[o].dispatch, k)
<1> DEFINE d == command[o].dispatch
           k == [command[o] EXCEPT !.step = "record"]
<1>1. /\ d \in Dispatches /\ NoCapacityChange /\ Around
      /\ permit[d].state \in Begun \ {"dispatched"}
  BY Commanded DEF ReconcileMark, Doing, Warranted
<1>2. CASE Budget!MarkUnknown(d) /\ Then(o, "record")
  <2>1. /\ command' = [command EXCEPT ![o] = k] /\ k \in CommandRecords
        /\ k.step = "record" /\ k.dispatch = d
    BY <1>2, GoingOn DEF Commands
  <2>2. /\ Balanced' /\ Rewrites(d, {"dispatched"}, {"unknown"})
        /\ claim'[d].receipt = claim[d].receipt
    BY <1>1, <1>2, UnknownEffect DEF RuntimeInv
  <2> HIDE DEF d, k
  <2>3. Consistent(pc[d], permit[d].state, claim'[d].state, claim'[d].receipt,
                   memory[d], remote[d])
    BY <1>1, <2>2, Here, MarkedConsistent DEF Ready, Rewrites
  <2>4. Onward(permit[d].state, claim[d].state, remote[d],
               permit[d].state, claim'[d].state, remote[d])
    BY <2>2 DEF Rewrites, Onward
  <2>5. Warranted(k.step, permit[d].state, claim'[d].state, remote[d])
    BY <1>1, <2>1 DEF Warranted
  <2>6. Ran(o, d, k)
    BY <1>1, <2>1, <2>2, <2>3, <2>4, <2>5, RanBudget DEF Rewrites
  <2> QED
    BY <2>6 DEF d
<1>3. CASE NoBudgetChange /\ Then(o, "record")
  <2>1. /\ command' = [command EXCEPT ![o] = k] /\ k \in CommandRecords
        /\ k.step = "record" /\ k.dispatch = d
    BY <1>3, GoingOn DEF Commands
  <2> HIDE DEF d, k
  <2>2. Warranted(k.step, permit[d].state, claim[d].state, remote[d])
    BY <1>1, <2>1 DEF Warranted
  <2>3. Ran(o, d, k)
    BY <1>1, <1>3, <2>1, <2>2, RanLocal DEF NoResourceChange
  <2> QED
    BY <2>3 DEF d
<1>4. CASE NoBudgetChange /\ Leave(o)
  <2>1. Ran(o, d, Free)
    BY <1>1, <1>4, GoingAway, RanLocal DEF Free, NoResourceChange
  <2> QED
    BY <2>1
<1> QED
  BY <1>2, <1>3, <1>4 DEF ReconcileMark

LEMMA ReconcileRecordRuns ==
    ASSUME RuntimeInv, NEW o \in Operators, ReconcileRecord(o)
    PROVE  \E k : Ran(o, command[o].dispatch, k)
<1> DEFINE d == command[o].dispatch
           k == [command[o] EXCEPT !.step = "release"]
<1>1. /\ d \in Dispatches /\ NoCapacityChange /\ Around
      /\ permit[d].state \in Begun \ {"dispatched"}
  BY Commanded DEF ReconcileRecord, Doing, Warranted
<1>2. CASE Budget!RecordUnresolved(d, o) /\ Then(o, "release")
  <2>1. /\ command' = [command EXCEPT ![o] = k] /\ k \in CommandRecords
        /\ k.step = "release" /\ k.dispatch = d
    BY <1>2, GoingOn DEF Commands
  <2>2. /\ Balanced' /\ Rewrites(d, {"unknown"}, {"unknown"})
        /\ claim'[d].receipt = claim[d].receipt
    BY <1>1, <1>2, RecordEffect DEF RuntimeInv
  <2> HIDE DEF d, k
  <2>3. Consistent(pc[d], permit[d].state, claim'[d].state, claim'[d].receipt,
                   memory[d], remote[d])
    BY <1>1, <2>2, Here DEF Ready, Rewrites
  <2>4. Onward(permit[d].state, claim[d].state, remote[d],
               permit[d].state, claim'[d].state, remote[d])
    BY <2>2 DEF Rewrites, Onward
  <2>5. Warranted(k.step, permit[d].state, claim'[d].state, remote[d])
    BY <1>1, <2>1, <2>2 DEF Warranted, Rewrites
  <2>6. Ran(o, d, k)
    BY <1>1, <2>1, <2>2, <2>3, <2>4, <2>5, RanBudget DEF Rewrites
  <2> QED
    BY <2>6 DEF d
<1>3. CASE NoBudgetChange /\ Leave(o)
  <2>1. Ran(o, d, Free)
    BY <1>1, <1>3, GoingAway, RanLocal DEF Free, NoResourceChange
  <2> QED
    BY <2>1
<1> QED
  BY <1>2, <1>3 DEF ReconcileRecord

LEMMA ReconcileReleaseRuns ==
    ASSUME Remembered, RuntimeInv, NEW o \in Operators, ReconcileRelease(o)
    PROVE  Ran(o, command[o].dispatch, Free)
<1> DEFINE d == command[o].dispatch
<1>1. /\ d \in Dispatches /\ NoBudgetChange /\ Around /\ command[o].now \in Nat
      /\ claim[d].state \in {"unknown", "completed"}
      /\ command' = [command EXCEPT ![o] = Free] /\ Free \in CommandRecords
  BY Commanded, GoingAway DEF ReconcileRelease, Doing, Warranted
<1>2. CASE Capacity!Reconcile(d, command[o].now)
  <2>1. /\ Filing' /\ Others(d)
        /\ Goes(d, {"completion_unknown", "cancel_requested"}, {"released"})
    BY <1>1, <1>2, ReleaseEffect DEF RuntimeInv
  <2>2. Consistent(pc[d], permit'[d].state, claim[d].state, claim[d].receipt,
                   memory[d], remote[d])
    BY <1>1, <2>1, Here, ReleasedConsistent DEF Ready, Goes
  <2>3. Onward(permit[d].state, claim[d].state, remote[d],
               permit'[d].state, claim[d].state, remote[d])
    BY <2>1 DEF Goes, Onward
  <2> QED
    BY <1>1, <2>1, <2>2, <2>3, RanCapacity DEF Free
<1>3. CASE NoCapacityChange
  BY <1>1, <1>3, RanLocal DEF Free, NoResourceChange
<1> QED
  BY <1>2, <1>3 DEF ReconcileRelease

(***************************************************************************)
(* settle-wall.                                                            *)
(***************************************************************************)
LEMMA BeginSettleRuns ==
    ASSUME RuntimeInv, NEW o \in Operators, NEW d \in Dispatches, BeginSettle(o, d)
    PROVE  \E k : Ran(o, d, k)
<1> DEFINE k == [Free EXCEPT !.step = "readForSettle", !.dispatch = d, !.now = clock,
                             !.claim = claim[d].state]
<1>1. /\ command' = [command EXCEPT ![o] = k] /\ NoResourceChange /\ Around
      /\ remote[d] = "done"
  BY DEF BeginSettle
<1>2. k \in CommandRecords /\ k.step = "readForSettle" /\ k.dispatch = d
  BY Here DEF Free, CommandRecords, Commands, Capacity!PermitStates
<1> HIDE DEF k
<1>3. Warranted(k.step, permit[d].state, claim[d].state, remote[d])
  BY <1>1, <1>2 DEF Warranted
<1> QED
  BY <1>1, <1>2, <1>3, RanLocal

LEMMA SettleReadPermitRuns ==
    ASSUME RuntimeInv, NEW o \in Operators, SettleReadPermit(o)
    PROVE  \E k : Ran(o, command[o].dispatch, k)
<1> DEFINE d == command[o].dispatch
           now == permit[d].state
           gone == now = "released" \/ (now = "completed" /\ command[o].claim = "completed")
<1>1. /\ d \in Dispatches /\ NoResourceChange /\ Around /\ command[o] \in CommandRecords
      /\ remote[d] = "done"
  BY Commanded DEF SettleReadPermit, Doing, Warranted
<1>2. CASE gone
  <2>1. Leave(o)
    BY <1>2 DEF SettleReadPermit
  <2>2. Ran(o, d, Free)
    BY <1>1, <2>1, GoingAway, RanLocal DEF Free
  <2> QED
    BY <2>2
<1>3. CASE ~gone
  <2> DEFINE k == [command[o] EXCEPT !.step = "settle", !.permit = now]
  <2>1. command' = [command EXCEPT ![o].step = "settle", ![o].permit = now]
    BY <1>3 DEF SettleReadPermit
  <2>2. command' = [command EXCEPT ![o] = k]
    BY <1>1, <2>1 DEF RuntimeInv, Typed
  <2>3. k \in CommandRecords /\ k.step = "settle" /\ k.dispatch = d
    BY <1>1, Here DEF CommandRecords, Commands
  <2> HIDE DEF d, k
  <2>4. Warranted(k.step, permit[d].state, claim[d].state, remote[d])
    BY <1>1, <2>3 DEF Warranted
  <2>5. Ran(o, d, k)
    BY <1>1, <2>2, <2>3, <2>4, RanLocal
  <2> QED
    BY <2>5 DEF d
<1> QED
  BY <1>2, <1>3

LEMMA SettleWallRuns ==
    ASSUME RuntimeInv, NEW o \in Operators, SettleWall(o)
    PROVE  \E k : Ran(o, command[o].dispatch, k)
<1> DEFINE d == command[o].dispatch
<1>1. /\ d \in Dispatches /\ NoCapacityChange /\ Around /\ remote[d] = "done"
  BY Commanded DEF SettleWall, Doing, Warranted
<1>2. PICK millis \in Readings \ {0}, w \in Receipts :
         \/ /\ Budget!SettleObservedWall(d, millis, w, TRUE)
            /\ IF command[o].permit = "completed" THEN Leave(o) ELSE Then(o, "complete")
         \/ ~Budget!Readable(d, millis, w) /\ NoBudgetChange /\ Leave(o)
  BY DEF SettleWall
<1>3. CASE /\ Budget!SettleObservedWall(d, millis, w, TRUE)
           /\ IF command[o].permit = "completed" THEN Leave(o) ELSE Then(o, "complete")
  <2> DEFINE onto == [command[o] EXCEPT !.step = "complete"]
  <2>1. Balanced' /\ Rewrites(d, Budget!Charged, {"completed"})
    BY <1>1, <1>3, SettledEffect DEF RuntimeInv
  <2>2. onto \in CommandRecords /\ onto.step = "complete" /\ onto.dispatch = d
    BY <1>1, Commanded DEF SettleWall, Doing, CommandRecords, Commands
  <2>3. CASE Leave(o)
    <3>1. command' = [command EXCEPT ![o] = Free] /\ Free \in CommandRecords
      BY <2>3, GoingAway
    <3>2. Consistent(pc[d], permit[d].state, claim'[d].state, claim'[d].receipt,
                     memory[d], remote[d])
      BY <1>1, <2>1, Here, SettledConsistent DEF Ready, Rewrites
    <3>3. Onward(permit[d].state, claim[d].state, remote[d],
                 permit[d].state, claim'[d].state, remote[d])
      BY <2>1 DEF Rewrites, Onward
    <3>4. Ran(o, d, Free)
      BY <1>1, <2>1, <3>1, <3>2, <3>3, RanBudget DEF Rewrites, Free
    <3> QED
      BY <3>4
  <2>4. CASE Then(o, "complete")
    <3>1. command' = [command EXCEPT ![o] = onto]
      BY <2>4, GoingOn DEF Commands
    <3> HIDE DEF d, onto
    <3>2. Consistent(pc[d], permit[d].state, claim'[d].state, claim'[d].receipt,
                     memory[d], remote[d])
      BY <1>1, <2>1, Here, SettledConsistent DEF Ready, Rewrites
    <3>3. Onward(permit[d].state, claim[d].state, remote[d],
                 permit[d].state, claim'[d].state, remote[d])
      BY <2>1 DEF Rewrites, Onward
    <3>4. Warranted(onto.step, permit[d].state, claim'[d].state, remote[d])
      BY <1>1, <2>2 DEF Warranted
    <3>5. Ran(o, d, onto)
      BY <1>1, <2>1, <2>2, <3>1, <3>2, <3>3, <3>4, RanBudget DEF Rewrites
    <3> QED
      BY <3>5 DEF d
  <2> QED
    BY <1>3, <2>3, <2>4
<1>4. CASE ~Budget!Readable(d, millis, w) /\ NoBudgetChange /\ Leave(o)
  <2>1. Ran(o, d, Free)
    BY <1>1, <1>4, GoingAway, RanLocal DEF Free, NoResourceChange
  <2> QED
    BY <2>1
<1> QED
  BY <1>2, <1>3, <1>4

LEMMA SettleCompleteRuns ==
    ASSUME Remembered, RuntimeInv, NEW o \in Operators, SettleComplete(o)
    PROVE  Ran(o, command[o].dispatch, Free)
<1> DEFINE d == command[o].dispatch
<1>1. /\ d \in Dispatches /\ NoBudgetChange /\ Around /\ command[o].now \in Nat
      /\ remote[d] = "done"
      /\ command' = [command EXCEPT ![o] = Free] /\ Free \in CommandRecords
  BY Commanded, GoingAway DEF SettleComplete, Doing, Warranted
<1>2. CASE Capacity!Complete(d, command[o].now)
  <2>1. Filing' /\ Others(d) /\ Goes(d, Capacity!Completable, {"completed"})
    BY <1>1, <1>2, CompleteEffect DEF RuntimeInv
  <2>2. Consistent(pc[d], permit'[d].state, claim[d].state, claim[d].receipt,
                   memory[d], remote[d])
    BY <1>1, <2>1, Here, CompletedConsistent DEF Ready, Goes
  <2>3. Onward(permit[d].state, claim[d].state, remote[d],
               permit'[d].state, claim[d].state, remote[d])
    BY <2>1 DEF Goes, Onward
  <2> QED
    BY <1>1, <2>1, <2>2, <2>3, RanCapacity DEF Free
<1>3. CASE NoCapacityChange
  BY <1>1, <1>3, RanLocal DEF Free, NoResourceChange
<1> QED
  BY <1>2, <1>3 DEF SettleComplete

LEMMA OperatorCrashRuns ==
    ASSUME RuntimeInv, NEW o \in Operators, OperatorCrash(o)
    PROVE  Ran(o, command[o].dispatch, Free)
<1>1. /\ command[o].dispatch \in Dispatches /\ NoResourceChange /\ Around
      /\ command' = [command EXCEPT ![o] = Free] /\ Free \in CommandRecords
  BY Commanded, GoingAway DEF OperatorCrash, Doing
<1> QED
  BY <1>1, RanLocal DEF Free

LEMMA OperateRuns ==
    ASSUME Remembered, RuntimeInv, NEW o \in Operators, Operate(o)
    PROVE  \E d \in Dispatches : \E k : Ran(o, d, k)
<1>1. CASE \E d \in Dispatches : BeginReconcile(o, d) \/ BeginSettle(o, d)
  BY <1>1, BeginReconcileRuns, BeginSettleRuns
<1>2. CASE ~\E d \in Dispatches : BeginReconcile(o, d) \/ BeginSettle(o, d)
  <2>1. command[o].step # "none"
    BY <1>2 DEF Operate, ReconcileExpire, ReconcileReadPermit, ReconcileMark, ReconcileRecord,
       ReconcileRelease, SettleReadPermit, SettleWall, SettleComplete, OperatorCrash, Doing
  <2>2. command[o].dispatch \in Dispatches
    BY <2>1, Commanded
  <2>3. \E k : Ran(o, command[o].dispatch, k)
    BY <1>2, ReconcileExpireRuns, ReconcileReadPermitRuns, ReconcileMarkRuns,
       ReconcileRecordRuns, ReconcileReleaseRuns, SettleReadPermitRuns, SettleWallRuns,
       SettleCompleteRuns, OperatorCrashRuns DEF Operate
  <2> QED
    BY <2>2, <2>3
<1> QED
  BY <1>1, <1>2

(***************************************************************************)
(* The invariant holds, whatever the numbers of requests and operators.    *)
(***************************************************************************)
LEMMA RuntimeBegins == Init => RuntimeInv
<1> SUFFICES ASSUME Init
             PROVE  RuntimeInv
  OBVIOUS
<1>1. Typed
  BY RuntimeAssumption
  DEF Init, Typed, Steps, Ended, NoMemory, Memories, Free, CommandRecords, Commands,
      Capacity!PermitStates, Budget!ClaimStates
<1>2. Filing
  <2>1. /\ permit = [d \in Dispatches |-> Capacity!NoPermit] /\ queue = {}
        /\ policy = PolicyOf /\ nextSerial = 1
    BY DEF Init
  <2>2. None # "capacity_released_unresolved"
    BY RuntimeAssumption
  <2>3. Fit(Capacity!NoPermit) /\ Capacity!NoPermit.state = "absent"
    BY <2>2 DEF Fit, Capacity!NoPermit, Capacity!PermitRecords, Capacity!PermitStates,
       Capacity!Outcomes, Capacity!Times, Capacity!NoTime
  <2> QED
    BY <2>1, <2>3 DEF Filing, Filed, Waits, Numbered
<1>3. Balanced
  <2>1. PICK h \in Profiles : Budget!Create(Limits, h)
    BY DEF Init
  <2>2. Accounts!Init /\ ceiling = Limits
    BY <2>1 DEF Budget!Create, Accounts!Init, Accounts!Create, Accounts!Nothing, Budget!Nothing,
       Accounts!Dimensions, Budget!Dimensions, Accounts!NoClaim, Budget!NoClaim
  <2> QED
    BY <2>2, AccountsAssumed, Accounts!InitBalanced DEF Balanced
<1>4. ASSUME NEW d \in Dispatches
      PROVE  /\ pc[d] = "idle" /\ permit[d].state = "absent" /\ claim[d].state = "none"
             /\ remote[d] = "none"
  BY DEF Init, Capacity!NoPermit, Budget!Create, Budget!NoClaim
<1>5. Phases
  BY <1>4
  DEF Phases, Consistent, Admission, Dispatching, Exchanging, Abandoning, Halting, Leaving, Always
<1>6. Warrants
  BY DEF Init, Warrants, Free
<1> QED
  BY <1>1, <1>2, <1>3, <1>5, <1>6 DEF RuntimeInv

LEMMA TickKeepsInv ==
    ASSUME RuntimeInv, UNCHANGED <<pc, memory, remote, command>>, NoResourceChange, clock' \in Nat
    PROVE  RuntimeInv'
<1>1. /\ UNCHANGED <<permit, queue, policy, nextSerial>>
      /\ UNCHANGED <<ceiling, consumed, reserved, claim, profile>>
  BY DEF NoResourceChange, NoCapacityChange, NoBudgetChange, coordinatorVars, ledgerVars
<1>2. Typed'
  BY DEF RuntimeInv, Typed
<1>3. Filing'
  BY <1>1 DEF RuntimeInv, Filing, Filed, Waits, Numbered
<1>4. Balanced'
  BY <1>1, AccountsKept DEF RuntimeInv, Balanced, ledgerVars
<1>5. Phases' /\ Warrants'
  BY <1>1 DEF RuntimeInv, Phases, Warrants
<1> QED
  BY <1>2, <1>3, <1>4, <1>5 DEF RuntimeInv

LEMMA RuntimeGoesOn == ASSUME Remembered, RuntimeInv, [Next]_runtimeVars PROVE RuntimeInv'
<1>1. CASE \E d \in Dispatches : Request(d) \/ Step(d) \/ ServerFinishes(d) \/ Crash(d)
  BY <1>1, RequestMoves, StepMoves, ServerMoves, CrashMoves, MovedKeepsInv
<1>2. CASE \E o \in Operators : Operate(o)
  BY <1>2, OperateRuns, RanKeepsInv
<1>3. CASE Tick
  BY <1>3, TickKeepsInv DEF Tick, RuntimeInv, Typed
<1>4. CASE UNCHANGED runtimeVars
  BY <1>4, TickKeepsInv
  DEF runtimeVars, RuntimeInv, Typed, NoResourceChange, NoCapacityChange, NoBudgetChange
<1> QED
  BY <1>1, <1>2, <1>3, <1>4 DEF Next

\* Whatever the requests and operators do, in any order and with any crash, the next call of
\* each request agrees with what it remembers and with its permit, its claim and its work,
\* and what each operator read is still a warrant for the command it makes next.
THEOREM RuntimeInvariant == Remembered => (Spec => []RuntimeInv)
<1>1. Remembered => (RuntimeInv /\ [Next]_runtimeVars => RuntimeInv')
  BY RuntimeGoesOn
<1>2. ASSUME Remembered
      PROVE  Spec => []RuntimeInv
  <2>1. RuntimeInv /\ [Next]_runtimeVars => RuntimeInv'
    BY <1>1, <1>2
  <2> QED
    BY RuntimeBegins, <2>1, PTL DEF Spec
<1> QED
  BY <1>2

\* The variables keep their types: no step of a request or an operator leaves a permit, a
\* claim or a memory that the code could not read back.
THEOREM RuntimeTyped == Remembered => (Spec => []RuntimeTypeOK)
<1>1. ASSUME RuntimeInv
      PROVE  RuntimeTypeOK
  <2>1. Capacity!CoordinatorTypeOK
    <3>1. /\ permit = [d \in Dispatches |-> permit[d]]
          /\ \A d \in Dispatches : permit[d] \in Capacity!PermitRecords
          /\ queue \subseteq Dispatches /\ nextSerial \in Nat \ {0}
      BY <1>1 DEF RuntimeInv, Filing, Filed, Fit, Waits
    <3>2. permit \in [Dispatches -> Capacity!PermitRecords]
      BY <3>1
    <3>3. policy \in [Groups -> Policies \cup {NoPolicy}]
      BY <1>1, RuntimeAssumption DEF RuntimeInv, Filing
    <3> QED
      BY <3>1, <3>2, <3>3 DEF Capacity!CoordinatorTypeOK
  <2>2. claim \in [Dispatches -> Budget!ClaimRecords]
    BY <1>1, ClaimFacts
    DEF RuntimeInv, Budget!ClaimRecords, Accounts!ClaimRecords, Budget!ClaimStates,
        Accounts!ClaimStates, Accounts!Charged
  <2> QED
    BY <1>1, <2>1, <2>2 DEF RuntimeInv, Typed, RuntimeTypeOK
<1>2. Remembered => (Spec => []RuntimeInv)
  BY RuntimeInvariant
<1> QED
  BY <1>1, <1>2, PTL

\* A request that ended by itself has left no place in a queue, no slot without a dispatch
\* and no unspent reservation, but for those of a call of its own that made its change and
\* raised; whatever the operators, the other requests and the deadlines did meanwhile.
THEOREM RequestsEndClean == Remembered => (Spec => []EndsClean)
<1>1. ASSUME RuntimeInv, NEW d \in Dispatches, pc[d] \in {"done", "failed"}
      PROVE  /\ permit[d].state \in Waiting => memory[d].torn \in {"acquire", "charge"}
             /\ claim[d].state = "reserved" => memory[d].torn = "reserve"
             /\ claim[d].state = "dispatched" => memory[d].torn = "charge"
             /\ permit[d].state = "dispatched" => claim[d].state = "completed"
             /\ claim[d].state = "unknown" => permit[d].wasDispatched
  <2>1. Ready(d, pc[d], memory[d]) /\ Fit(permit[d])
    BY <1>1, Here DEF Filing, Filed
  <2> QED
    BY <1>1, <2>1 DEF Ready, Consistent, Leaving, Always, Fit
<1>2. RuntimeInv => EndsClean
  BY <1>1 DEF EndsClean
<1>3. Remembered => (Spec => []RuntimeInv)
  BY RuntimeInvariant
<1> QED
  BY <1>2, <1>3, PTL

(***************************************************************************)
(* One operator at a time never has a request both written off and settled *)
(* as completed.                                                           *)
(***************************************************************************)
LEMMA MovedKeepsSole ==
    ASSUME RuntimeInv, Sole, NEW d \in Dispatches, Moved(d)
    PROVE  Sole'
<1>1. ASSUME NEW e \in Dispatches
      PROVE  /\ Blameless(permit[e].state, claim[e].state, remote[e],
                          permit'[e].state, claim'[e].state, remote'[e])
             /\ permit[e].state = "released" => claim[e].state \in {"unknown", "completed"}
  <2>1. CASE e = d
    BY <2>1, Here DEF Moved, Ready, Consistent, Always
  <2>2. CASE e # d
    <3>1. /\ Drift(permit[e].state, permit'[e].state) /\ claim'[e] = claim[e]
          /\ remote'[e] = remote[e]
      BY <2>2 DEF Moved, Elsewhere
    <3> QED
      BY <3>1, Here, DriftOnward DEF Ready, Consistent, Always
  <2> QED
    BY <2>1, <2>2
<1>2. ASSUME NEW e \in Dispatches, permit'[e].state = "released"
      PROVE  Excused(permit'[e].state, claim'[e].state, remote'[e])
  <2>1. permit[e].state = "released"
    BY <1>1, <1>2 DEF Blameless
  <2>2. Excused(permit[e].state, claim[e].state, remote[e])
    BY <2>1 DEF Sole
  <2> QED
    BY <1>1, <2>1, <2>2 DEF Blameless
<1>3. ASSUME NEW o \in Operators
      PROVE  LET e == command'[o].dispatch
             IN /\ command'[o].step = "release" =>
                      Excused(permit'[e].state, claim'[e].state, remote'[e])
                /\ command'[o].step = "settle" => permit'[e].state # "released"
  <2> DEFINE e == command[o].dispatch
  <2>1. command' = command
    BY DEF Moved
  <2>2. CASE command[o].step = "release"
    <3>1. /\ e \in Dispatches /\ permit[e].state \in Begun \ {"dispatched"}
          /\ claim[e].state \in {"unknown", "completed"}
      BY <2>2, Commanded DEF Warranted
    <3>2. Excused(permit[e].state, claim[e].state, remote[e])
      BY <2>2 DEF Sole
    <3>3. Excused(permit'[e].state, claim'[e].state, remote'[e])
      BY <1>1, <3>1, <3>2 DEF Blameless
    <3> QED
      BY <2>1, <2>2, <3>3
  <2>3. CASE command[o].step = "settle"
    <3>1. e \in Dispatches
      BY <2>3, Commanded
    <3>2. permit[e].state # "released"
      BY <2>3 DEF Sole
    <3>3. permit'[e].state # "released"
      BY <1>1, <3>1, <3>2 DEF Blameless
    <3> QED
      BY <2>1, <2>3, <3>3
  <2> QED
    BY <2>1, <2>2, <2>3
<1> QED
  BY <1>2, <1>3 DEF Sole

\* The only operator's command is about d and goes on as the record k.
LEMMA RanKeepsSole ==
    ASSUME OneOperator, Sole, NEW o \in Operators, NEW d \in Dispatches, NEW k,
           command \in [Operators -> CommandRecords], command' = [command EXCEPT ![o] = k],
           remote' = remote,
           \A e \in Dispatches \ {d} :
              Drift(permit[e].state, permit'[e].state) /\ claim'[e] = claim[e],
           permit'[d].state = "released" =>
              Excused(permit'[d].state, claim'[d].state, remote[d]),
           k.step = "release" =>
              k.dispatch = d /\ Excused(permit'[d].state, claim'[d].state, remote[d]),
           k.step = "settle" => k.dispatch = d /\ permit'[d].state # "released"
    PROVE  Sole'
<1>1. ASSUME NEW e \in Dispatches, permit'[e].state = "released"
      PROVE  Excused(permit'[e].state, claim'[e].state, remote'[e])
  <2>1. CASE e # d
    <3>1. permit[e].state = "released" /\ claim'[e] = claim[e]
      BY <1>1, <2>1 DEF Drift
    <3>2. Excused(permit[e].state, claim[e].state, remote[e])
      BY <3>1 DEF Sole
    <3> QED
      BY <1>1, <3>1, <3>2
  <2> QED
    BY <1>1, <2>1
<1>2. ASSUME NEW q \in Operators
      PROVE  command'[q] = k
  BY <1>2 DEF OneOperator
<1>3. ASSUME NEW q \in Operators
      PROVE  LET e == command'[q].dispatch
             IN /\ command'[q].step = "release" =>
                      Excused(permit'[e].state, claim'[e].state, remote'[e])
                /\ command'[q].step = "settle" => permit'[e].state # "released"
  BY <1>2, <1>3
<1> QED
  BY <1>1, <1>3 DEF Sole

\* A command that only reads, goes on to the record k, and does not come to release.
LEMMA ReadingKeepsSole ==
    ASSUME RuntimeInv, OneOperator, Sole, NEW o \in Operators, NEW d \in Dispatches, NEW k,
           command' = [command EXCEPT ![o] = k], NoResourceChange, Around, k.step # "release",
           k.step = "settle" => k.dispatch = d /\ permit[d].state # "released"
    PROVE  Sole'
<1>1. permit' = permit /\ claim' = claim /\ remote' = remote
  BY DEF NoResourceChange, NoCapacityChange, NoBudgetChange, Around, coordinatorVars, ledgerVars
<1>2. permit[d].state = "released" => Excused(permit[d].state, claim[d].state, remote[d])
  BY DEF Sole
<1>3. command \in [Operators -> CommandRecords]
  BY DEF RuntimeInv, Typed
<1> QED
  BY <1>1, <1>2, <1>3, RanKeepsSole DEF Drift

LEMMA ReconcileKeepsSole ==
    ASSUME Remembered, RuntimeInv, OneOperator, Sole, NEW o \in Operators,
           \/ ReconcileExpire(o) \/ ReconcileReadPermit(o) \/ ReconcileMark(o)
           \/ ReconcileRecord(o) \/ ReconcileRelease(o)
    PROVE  Sole'
<1> DEFINE d == command[o].dispatch
<1>1. /\ d \in Dispatches /\ command[o].now \in Nat /\ Around
      /\ command \in [Operators -> CommandRecords] /\ remote' = remote
      /\ Warranted(command[o].step, permit[d].state, claim[d].state, remote[d])
  BY Commanded
  DEF ReconcileExpire, ReconcileReadPermit, ReconcileMark, ReconcileRecord, ReconcileRelease,
      Doing, Around, RuntimeInv, Typed
<1>2. permit[d].state = "released" => Excused(permit[d].state, claim[d].state, remote[d])
  BY <1>1 DEF Sole
<1>3. CASE ReconcileExpire(o)
  <2> DEFINE k == [command[o] EXCEPT !.step = "readPermit"]
  <2>1. command' = [command EXCEPT ![o] = k] /\ k.step = "readPermit"
    BY <1>3, GoingOn DEF ReconcileExpire, Commands
  <2>2. Filing /\ Capacity!ExpireDue(command[o].now) /\ claim' = claim
    BY <1>3 DEF ReconcileExpire, NoBudgetChange, ledgerVars, RuntimeInv
  <2>3. \A e \in Dispatches : Drift(permit[e].state, permit'[e].state)
    BY <1>1, <2>2, ExpireDueEffect DEF Tail
  <2>4. permit'[d].state = "released" => permit[d].state = "released"
    BY <1>1, <2>3 DEF Drift
  <2> HIDE DEF d, k
  <2> QED
    BY <1>1, <1>2, <2>1, <2>2, <2>3, <2>4, RanKeepsSole
<1>4. CASE ReconcileReadPermit(o)
  <2> DEFINE k == [command[o] EXCEPT !.step = "mark"]
  <2>1. NoResourceChange /\ (Then(o, "mark") \/ Leave(o))
    BY <1>4 DEF ReconcileReadPermit
  <2>2. CASE Then(o, "mark")
    <3>1. command' = [command EXCEPT ![o] = k] /\ k.step = "mark"
      BY <2>2, GoingOn DEF Commands
    <3> QED
      BY <1>1, <2>1, <3>1, ReadingKeepsSole
  <2>3. CASE Leave(o)
    BY <1>1, <2>1, <2>3, GoingAway, ReadingKeepsSole DEF Free
  <2> QED
    BY <2>1, <2>2, <2>3
<1>5. CASE ReconcileMark(o)
  <2> DEFINE k == [command[o] EXCEPT !.step = "record"]
  <2>1. NoCapacityChange /\ permit' = permit
    BY <1>5 DEF ReconcileMark, NoCapacityChange, coordinatorVars
  <2>2. CASE Budget!MarkUnknown(d) /\ Then(o, "record")
    <3>1. command' = [command EXCEPT ![o] = k] /\ k.step = "record"
      BY <2>2, GoingOn DEF Commands
    <3>2. Rewrites(d, {"dispatched"}, {"unknown"})
      BY <1>1, <2>2, UnknownEffect DEF RuntimeInv
    <3> HIDE DEF d, k
    <3> QED
      BY <1>1, <2>1, <3>1, <3>2, RanKeepsSole DEF Rewrites, Drift
  <2>3. CASE NoBudgetChange /\ Then(o, "record")
    <3>1. command' = [command EXCEPT ![o] = k] /\ k.step = "record"
      BY <2>3, GoingOn DEF Commands
    <3> QED
      BY <1>1, <2>1, <2>3, <3>1, ReadingKeepsSole DEF NoResourceChange
  <2>4. CASE NoBudgetChange /\ Leave(o)
    BY <1>1, <2>1, <2>4, GoingAway, ReadingKeepsSole DEF Free, NoResourceChange
  <2> QED
    BY <1>5, <2>2, <2>3, <2>4 DEF ReconcileMark
<1>6. CASE ReconcileRecord(o)
  <2> DEFINE k == [command[o] EXCEPT !.step = "release"]
  <2>1. NoCapacityChange /\ permit' = permit
    BY <1>6 DEF ReconcileRecord, NoCapacityChange, coordinatorVars
  <2>2. CASE Budget!RecordUnresolved(d, o) /\ Then(o, "release")
    <3>1. command' = [command EXCEPT ![o] = k] /\ k.step = "release" /\ k.dispatch = d
      BY <2>2, GoingOn DEF Commands
    <3>2. Rewrites(d, {"unknown"}, {"unknown"})
      BY <1>1, <2>2, RecordEffect DEF RuntimeInv
    <3> HIDE DEF d, k
    <3> QED
      BY <1>1, <2>1, <3>1, <3>2, RanKeepsSole DEF Rewrites, Drift
  <2>3. CASE NoBudgetChange /\ Leave(o)
    BY <1>1, <2>1, <2>3, GoingAway, ReadingKeepsSole DEF Free, NoResourceChange
  <2> QED
    BY <1>6, <2>2, <2>3 DEF ReconcileRecord
<1>7. CASE ReconcileRelease(o)
  <2>1. /\ command' = [command EXCEPT ![o] = Free] /\ NoBudgetChange /\ claim' = claim
        /\ Excused(permit[d].state, claim[d].state, remote[d])
    BY <1>7, GoingAway DEF ReconcileRelease, NoBudgetChange, ledgerVars, Sole, Doing
  <2>2. CASE Capacity!Reconcile(d, command[o].now)
    <3>1. Others(d) /\ Goes(d, {"completion_unknown", "cancel_requested"}, {"released"})
      BY <1>1, <2>2, ReleaseEffect DEF RuntimeInv
    <3>2. \A e \in Dispatches \ {d} :
             Drift(permit[e].state, permit'[e].state) /\ claim'[e] = claim[e]
      BY <2>1, <3>1 DEF Others, Tail
    <3>3. Excused(permit'[d].state, claim'[d].state, remote[d])
      BY <2>1, <3>1 DEF Goes
    <3>4. Free.step = "none"
      BY DEF Free
    <3> HIDE DEF d, Excused
    <3> QED
      BY <1>1, <2>1, <3>2, <3>3, <3>4, RanKeepsSole
  <2>3. CASE NoCapacityChange
    <3>1. Free.step = "none" /\ NoResourceChange
      BY <2>1, <2>3 DEF Free, NoResourceChange
    <3> HIDE DEF d
    <3> QED
      BY <1>1, <2>1, <3>1, ReadingKeepsSole
  <2> QED
    BY <1>7, <2>2, <2>3 DEF ReconcileRelease
<1> QED
  BY <1>3, <1>4, <1>5, <1>6, <1>7

LEMMA SettlingKeepsSole ==
    ASSUME Remembered, RuntimeInv, OneOperator, Sole, NEW o \in Operators,
           \/ SettleReadPermit(o) \/ SettleWall(o) \/ SettleComplete(o) \/ OperatorCrash(o)
    PROVE  Sole'
<1> DEFINE d == command[o].dispatch
<1>1. /\ d \in Dispatches /\ command[o].now \in Nat /\ Around
      /\ command \in [Operators -> CommandRecords] /\ remote' = remote
  BY Commanded
  DEF SettleReadPermit, SettleWall, SettleComplete, OperatorCrash, Doing, Around, RuntimeInv, Typed
<1>2. CASE SettleReadPermit(o)
  <2> DEFINE now == permit[d].state
             gone == now = "released" \/ (now = "completed" /\ command[o].claim = "completed")
             k == [command[o] EXCEPT !.step = "settle", !.permit = now]
  <2>1. NoResourceChange
    BY <1>2 DEF SettleReadPermit
  <2>2. CASE gone
    <3>1. Leave(o)
      BY <1>2, <2>2 DEF SettleReadPermit
    <3> QED
      BY <1>1, <2>1, <3>1, GoingAway, ReadingKeepsSole DEF Free
  <2>3. CASE ~gone
    <3>1. command' = [command EXCEPT ![o].step = "settle", ![o].permit = now]
      BY <1>2, <2>3 DEF SettleReadPermit
    <3>2. command' = [command EXCEPT ![o] = k] /\ k.step = "settle" /\ k.dispatch = d
      BY <1>1, <3>1 DEF CommandRecords
    <3>3. permit[d].state # "released"
      BY <2>3
    <3> HIDE DEF d, k
    <3> QED
      BY <1>1, <2>1, <3>2, <3>3, ReadingKeepsSole
  <2> QED
    BY <2>2, <2>3
<1>3. CASE SettleWall(o)
  <2> DEFINE onto == [command[o] EXCEPT !.step = "complete"]
  <2>1. /\ NoCapacityChange /\ permit' = permit /\ permit[d].state # "released"
    BY <1>3 DEF SettleWall, NoCapacityChange, coordinatorVars, Sole, Doing
  <2>2. PICK millis \in Readings \ {0}, w \in Receipts :
           \/ /\ Budget!SettleObservedWall(d, millis, w, TRUE)
              /\ IF command[o].permit = "completed" THEN Leave(o) ELSE Then(o, "complete")
           \/ ~Budget!Readable(d, millis, w) /\ NoBudgetChange /\ Leave(o)
    BY <1>3 DEF SettleWall
  <2>3. CASE Budget!SettleObservedWall(d, millis, w, TRUE) /\ (Leave(o) \/ Then(o, "complete"))
    <3>1. Rewrites(d, Budget!Charged, {"completed"})
      BY <1>1, <2>3, SettledEffect DEF RuntimeInv
    <3>2. PICK k \in {Free, onto} :
             command' = [command EXCEPT ![o] = k] /\ k.step \in {"none", "complete"}
      BY <2>3, GoingOn, GoingAway DEF Free, Commands
    <3> HIDE DEF d
    <3> QED
      BY <1>1, <2>1, <3>1, <3>2, RanKeepsSole DEF Rewrites, Drift
  <2>4. CASE NoBudgetChange /\ Leave(o)
    BY <1>1, <2>1, <2>4, GoingAway, ReadingKeepsSole DEF Free, NoResourceChange
  <2> QED
    BY <2>2, <2>3, <2>4
<1>4. CASE SettleComplete(o)
  <2>1. command' = [command EXCEPT ![o] = Free] /\ NoBudgetChange /\ claim' = claim
    BY <1>4, GoingAway DEF SettleComplete, NoBudgetChange, ledgerVars
  <2>2. CASE Capacity!Complete(d, command[o].now)
    <3>1. Others(d) /\ Goes(d, Capacity!Completable, {"completed"})
      BY <1>1, <2>2, CompleteEffect DEF RuntimeInv
    <3>2. \A e \in Dispatches \ {d} :
             Drift(permit[e].state, permit'[e].state) /\ claim'[e] = claim[e]
      BY <2>1, <3>1 DEF Others, Tail
    <3>3. permit'[d].state # "released"
      BY <3>1 DEF Goes
    <3>4. Free.step = "none"
      BY DEF Free
    <3> HIDE DEF d, Excused
    <3> QED
      BY <1>1, <2>1, <3>2, <3>3, <3>4, RanKeepsSole
  <2>3. CASE NoCapacityChange
    <3>1. Free.step = "none" /\ NoResourceChange
      BY <2>1, <2>3 DEF Free, NoResourceChange
    <3> HIDE DEF d
    <3> QED
      BY <1>1, <2>1, <3>1, ReadingKeepsSole
  <2> QED
    BY <1>4, <2>2, <2>3 DEF SettleComplete
<1>5. CASE OperatorCrash(o)
  BY <1>1, <1>5, GoingAway, ReadingKeepsSole DEF OperatorCrash, Free
<1> QED
  BY <1>2, <1>3, <1>4, <1>5

LEMMA BeginningKeepsSole ==
    ASSUME RuntimeInv, OneOperator, Sole, NEW o \in Operators, NEW d \in Dispatches,
           BeginReconcile(o, d) \/ BeginSettle(o, d)
    PROVE  Sole'
<1> DEFINE k(s) == [Free EXCEPT !.step = s, !.dispatch = d, !.now = clock,
                                !.claim = claim[d].state]
<1>1. PICK s \in {"expire", "readForSettle"} : command' = [command EXCEPT ![o] = k(s)]
  BY DEF BeginReconcile, BeginSettle
<1>2. k(s).step = s /\ NoResourceChange /\ Around
  BY DEF Free, BeginReconcile, BeginSettle
<1> HIDE DEF k
<1> QED
  BY <1>1, <1>2, ReadingKeepsSole

LEMMA SoleGoesOn ==
    ASSUME Remembered, OneOperator, RuntimeInv, Sole, [Next]_runtimeVars
    PROVE  Sole'
<1>1. CASE \E d \in Dispatches : Request(d) \/ Step(d) \/ ServerFinishes(d) \/ Crash(d)
  BY <1>1, RequestMoves, StepMoves, ServerMoves, CrashMoves, MovedKeepsSole
<1>2. CASE \E o \in Operators : Operate(o)
  BY <1>2, ReconcileKeepsSole, SettlingKeepsSole, BeginningKeepsSole DEF Operate
<1>3. CASE Tick \/ UNCHANGED runtimeVars
  BY <1>3 DEF Tick, runtimeVars, NoResourceChange, NoCapacityChange, NoBudgetChange,
     coordinatorVars, ledgerVars, Sole
<1> QED
  BY <1>1, <1>2, <1>3 DEF Next

\* While operators work one at a time, no request that was sent is both released as unresolved
\* and settled as completed: reconcile checks that the claim is in doubt after it has marked
\* it, and settle-wall refuses a released permit.  With two operators at once this is false.
THEOREM OneOperatorNeverContradicts ==
    Remembered /\ OneOperator => (Spec => []ReleasedIsNotCompleted)
<1>1. Init => Sole
  BY DEF Init, Sole, Free, Capacity!NoPermit
<1>2. Remembered /\ OneOperator /\ RuntimeInv /\ Sole /\ [Next]_runtimeVars => Sole'
  BY SoleGoesOn
<1>3. Remembered => (Spec => []RuntimeInv)
  BY RuntimeInvariant
<1>4. ASSUME RuntimeInv, Sole, NEW d \in Dispatches, remote[d] # "none",
             permit[d].outcome = "capacity_released_unresolved"
      PROVE  claim[d].state # "completed"
  <2>1. permit[d].state = "released"
    BY <1>4, Here DEF Filing, Filed, Fit
  <2> QED
    BY <1>4, <2>1 DEF Sole
<1>5. RuntimeInv /\ Sole => ReleasedIsNotCompleted
  BY <1>4 DEF ReleasedIsNotCompleted
<1>6. Remembered /\ OneOperator /\ Spec => []Sole
  <2> SUFFICES ASSUME Remembered, OneOperator PROVE Spec => []Sole
    OBVIOUS
  <2>1. RuntimeInv /\ Sole /\ [Next]_runtimeVars => Sole'
    BY <1>2
  <2>2. Spec => []RuntimeInv
    BY <1>3
  <2> QED
    BY <1>1, <2>1, <2>2, PTL DEF Spec
<1> QED
  BY <1>3, <1>5, <1>6, PTL

(***************************************************************************)
(* The runtime implements DispatchContract: each step maps to one of its   *)
(* steps or to none.                                                       *)
(***************************************************************************)
SlotsIn(pp) ==
    [d \in Dispatches |-> IF pp[d].state \in Capacity!Slot THEN Capacity!GroupIn(pp, d) ELSE None]

ChargeOf ==
    [d \in Dispatches |->
        CASE claim[d].state = "none" -> "none"
          [] claim[d].state = "reserved" -> "promised"
          [] claim[d].state = "released" -> "returned"
          [] OTHER -> "paid"]

WrittenIn(pp) == {d \in Dispatches : pp[d].outcome = "capacity_released_unresolved"}

ContractStep == [Contract!Next]_(Contract!contractVars)

LEMMA ContractCardinality ==
    ASSUME NEW S
    PROVE  Contract!Cardinality(S) = Cardinality(S)
BY DEF Contract!Cardinality, Cardinality

\* A slot of the contract is a slot of the coordinator, and work is written off when released.
LEMMA SlotsHeld ==
    ASSUME NEW pp, \A d \in Dispatches : Fit(pp[d])
    PROVE  /\ SlotsIn(pp) \in [Dispatches -> Groups \cup {None}]
           /\ \A g \in Groups :
                 {d \in Dispatches : SlotsIn(pp)[d] = g} = Capacity!SlotsOf(pp, g)
           /\ WrittenIn(pp) = {d \in Dispatches : pp[d].state = "released"}
<1>1. ASSUME NEW d \in Dispatches, pp[d].state \in Capacity!Slot
      PROVE  Capacity!GroupIn(pp, d) \in Groups
  <2>1. pp[d].state # "absent"
    BY <1>1 DEF Capacity!Slot
  <2> QED
    BY <2>1, RuntimeAssumption DEF Fit, Capacity!GroupIn
<1>2. SlotsIn(pp) \in [Dispatches -> Groups \cup {None}]
  BY <1>1 DEF SlotsIn
<1>3. \A g \in Groups : {d \in Dispatches : SlotsIn(pp)[d] = g} = Capacity!SlotsOf(pp, g)
  <2>1. None \notin Groups
    BY RuntimeAssumption
  <2> QED
    BY <2>1 DEF SlotsIn, Capacity!SlotsOf
<1>4. WrittenIn(pp) = {d \in Dispatches : pp[d].state = "released"}
  BY DEF WrittenIn, Fit
<1> QED
  BY <1>2, <1>3, <1>4

\* A mutation of the coordinator that leaves slots under running work where they are, or
\* writes the work off.
LEMMA Reallocates ==
    ASSUME RuntimeInv, NEW d \in Dispatches, Filing', Others(d), Shared,
           UNCHANGED <<claim, remote>>,
           permit[d].state = "released" => permit'[d].state = "released",
           permit[d].state # "absent" => permit'[d].endpoint = permit[d].endpoint,
           remote[d] = "running" =>
              \/ permit'[d].state = "released"
              \/ permit[d].state \in Capacity!Slot <=> permit'[d].state \in Capacity!Slot
    PROVE  ContractStep
<1> USE DEF Capacity!Slot
<1>1. \A e \in Dispatches : Fit(permit[e]) /\ Fit(permit'[e])
  BY DEF RuntimeInv, Filing, Filed
<1>2. /\ SlotsIn(permit') \in [Dispatches -> Groups \cup {None}]
      /\ \A g \in Groups :
            {e \in Dispatches : SlotsIn(permit')[e] = g} = Capacity!SlotsOf(permit', g)
      /\ \A g \in Groups : {e \in Dispatches : SlotsIn(permit)[e] = g} = Capacity!SlotsOf(permit, g)
      /\ WrittenIn(permit') = {e \in Dispatches : permit'[e].state = "released"}
      /\ WrittenIn(permit) = {e \in Dispatches : permit[e].state = "released"}
  BY <1>1, SlotsHeld
<1>3. ASSUME NEW e \in Dispatches
      PROVE  /\ permit[e].state = "released" => permit'[e].state = "released"
             /\ remote[e] = "running" /\ SlotsIn(permit')[e] # SlotsIn(permit)[e] =>
                   permit'[e].state = "released"
  <2>1. /\ permit[e].state = "released" => permit'[e].state = "released"
        /\ permit[e].state # "absent" => permit'[e].endpoint = permit[e].endpoint
        /\ remote[e] = "running" =>
              \/ permit'[e].state = "released"
              \/ permit[e].state \in Capacity!Slot <=> permit'[e].state \in Capacity!Slot
    <3>1. CASE e = d
      BY <3>1
    <3>2. CASE e # d
      <4>1. Drift(permit[e].state, permit'[e].state) /\ permit'[e].endpoint = permit[e].endpoint
        BY <3>2 DEF Others, Tail
      <4>2. remote[e] = "running" => permit[e].state \in Begun
        BY Here DEF Ready, Consistent, Always
      <4> QED
        BY <4>1, <4>2 DEF Drift
    <3> QED
      BY <3>1, <3>2
  <2>2. ASSUME remote[e] = "running", permit'[e].state # "released"
        PROVE  SlotsIn(permit')[e] = SlotsIn(permit)[e]
    BY <2>1, <2>2 DEF SlotsIn, Capacity!GroupIn
  <2> QED
    BY <2>1, <2>2
<1>4. \A g \in Groups :
         \/ {e \in Dispatches : SlotsIn(permit')[e] = g}
               \subseteq {e \in Dispatches : SlotsIn(permit)[e] = g}
         \/ Contract!Cardinality({e \in Dispatches : SlotsIn(permit')[e] = g})
               <= [h \in Groups |-> PolicyOf[h].maxInflight][g]
  BY <1>2, ContractCardinality DEF Shared, Apportioned
<1>5. WrittenIn(permit') \in SUBSET Dispatches /\ WrittenIn(permit) \subseteq WrittenIn(permit')
  BY <1>2, <1>3
<1>6. \A e \in Dispatches :
         remote[e] = "running" /\ SlotsIn(permit')[e] # SlotsIn(permit)[e] =>
            e \in WrittenIn(permit')
  BY <1>2, <1>3
<1>7. Contract!Reallocate
  BY <1>2, <1>4, <1>5, <1>6
  DEF Contract!Reallocate, Contract!Holding, SlotsIn, WrittenIn
<1> QED
  BY <1>7 DEF ContractStep, Contract!Next

\* Steps the contract does not see.
LEMMA Stutters ==
    ASSUME UNCHANGED <<permit, remote>>, ChargeOf' = ChargeOf
    PROVE  ContractStep
<1>1. UNCHANGED Contract!contractVars
  BY DEF Contract!contractVars, ChargeOf, Capacity!GroupIn
<1> QED
  BY <1>1 DEF ContractStep

LEMMA LocalStutters ==
    ASSUME NoResourceChange, remote' = remote
    PROVE  ContractStep
BY Stutters DEF NoResourceChange, NoCapacityChange, NoBudgetChange, coordinatorVars, ledgerVars,
   ChargeOf

\* What is paid stays paid, whatever becomes of its outcome.
LEMMA PaidStutters ==
    ASSUME NoCapacityChange, remote' = remote, NEW d \in Dispatches,
           Rewrites(d, Budget!Charged, Budget!Charged)
    PROVE  ContractStep
<1>1. \A e \in Dispatches : ChargeOf'[e] = ChargeOf[e]
  <2>1. ChargeOf[d] = "paid" /\ ChargeOf'[d] = "paid"
    BY DEF ChargeOf, Rewrites
  <2>2. \A e \in Dispatches \ {d} : ChargeOf'[e] = ChargeOf[e]
    BY DEF ChargeOf, Rewrites
  <2> QED
    BY <2>1, <2>2
<1>2. ChargeOf' = ChargeOf
  BY <1>1 DEF ChargeOf
<1> QED
  BY <1>2, Stutters DEF NoCapacityChange, coordinatorVars

LEMMA ExpiryReallocates ==
    ASSUME Remembered, RuntimeInv, NEW d \in Dispatches, NEW t \in Nat, Capacity!ExpireDue(t),
           UNCHANGED <<claim, remote>>
    PROVE  ContractStep
<1>1. Filing' /\ (\A e \in Dispatches : Tail(permit[e], permit'[e])) /\ Shared
  BY ExpireDueEffect DEF RuntimeInv
<1>2. Others(d)
  BY <1>1 DEF Others
<1>3. /\ Drift(permit[d].state, permit'[d].state) /\ permit'[d].endpoint = permit[d].endpoint
      /\ remote[d] = "running" => permit[d].state \in Begun
  BY <1>1, Here DEF Tail, Ready, Consistent, Always
<1>4. /\ permit[d].state = "released" => permit'[d].state = "released"
      /\ remote[d] = "running" =>
            (permit[d].state \in Capacity!Slot <=> permit'[d].state \in Capacity!Slot)
  BY <1>3 DEF Drift, Capacity!Slot
<1> QED
  BY <1>1, <1>2, <1>3, <1>4, Reallocates

\* The permit of d changes its state, and its work is not cut off.
LEMMA CallReallocates ==
    ASSUME RuntimeInv, NEW d \in Dispatches, Filing', Others(d), Shared,
           UNCHANGED <<claim, remote>>, NEW from, NEW to, Goes(d, from, to),
           "released" \notin from,
           \/ remote[d] # "running"
           \/ to \subseteq {"released"}
           \/ from \cup to \subseteq Capacity!Slot
    PROVE  ContractStep
<1>1. permit[d].state # "released" /\ permit'[d].endpoint = permit[d].endpoint
  BY DEF Goes
<1>2. remote[d] = "running" =>
         \/ permit'[d].state = "released"
         \/ permit[d].state \in Capacity!Slot <=> permit'[d].state \in Capacity!Slot
  BY DEF Goes
<1> QED
  BY <1>1, <1>2, Reallocates

LEMMA CompleteReallocates ==
    ASSUME Remembered, RuntimeInv, NEW d \in Dispatches, NEW t \in Nat, Capacity!Complete(d, t),
           UNCHANGED <<claim, remote>>, remote[d] # "running"
    PROVE  ContractStep
<1>1. /\ Filing' /\ Others(d) /\ Shared /\ Goes(d, Capacity!Completable, {"completed"})
  BY CompleteEffect DEF RuntimeInv
<1>2. "released" \notin Capacity!Completable
  OBVIOUS
<1> QED
  BY <1>1, <1>2, CallReallocates

LEMMA RunningBegun ==
    ASSUME RuntimeInv, NEW d \in Dispatches
    PROVE  remote[d] = "running" => permit[d].state \in Begun
BY Here DEF Ready, Consistent, Always

\* The steps of a request on the coordinator.
LEMMA CapacityStepsReallocate ==
    ASSUME Remembered, RuntimeInv, NEW d \in Dispatches,
           \/ Request(d) \/ Acquire(d) \/ Poll(d) \/ EnsureAdmitted(d) \/ Start(d) \/ Started(d)
           \/ Complete(d) \/ VoidComplete(d) \/ Heartbeat(d) \/ HeartbeatLost(d)
           \/ Cancel(d) \/ Cancelling(d)
    PROVE  ContractStep
<1>1. \A t : ExpireFirst(t) => Capacity!ExpireDue(t) /\ claim' = claim /\ remote' = remote
  BY DEF ExpireFirst, NoBudgetChange, Outside, ledgerVars
<1>2. NoBudgetChange /\ Outside => claim' = claim /\ remote' = remote
  BY DEF NoBudgetChange, Outside, ledgerVars
<1>3. Local => ContractStep
  BY LocalStutters DEF Local, Outside
<1>4. CASE Request(d) \/ Poll(d) \/ EnsureAdmitted(d) \/ Start(d) \/ Heartbeat(d) \/ Cancel(d)
  <2>1. PICK t \in Nat : Raised(ExpireFirst(t))
    <3>1. clock \in Nat /\ memory[d].now \in Nat
      BY Here
    <3>2. Raised(ExpireFirst(clock)) \/ Raised(ExpireFirst(memory[d].now))
      BY <1>4 DEF Request, Poll, EnsureAdmitted, Start, Heartbeat, Cancel, Raised
    <3> QED
      BY <3>1, <3>2
  <2>2. CASE ExpireFirst(t)
    BY <1>1, <2>2, ExpiryReallocates
  <2> QED
    BY <1>3, <2>1, <2>2 DEF Raised
<1>5. CASE Acquire(d)
  <2>1. CASE \E e \in Endpoints, p \in Processes :
                Capacity!Acquire(d, e, p, memory[d].now) /\ NoBudgetChange /\ Outside
    <3>1. /\ Filing' /\ Others(d) /\ Shared /\ permit[d].state = "absent"
          /\ permit'[d].state \in Waiting
      BY <2>1, Here, AcquireEffect
    <3>2. remote[d] # "running"
      BY <3>1, RunningBegun
    <3> QED
      BY <1>2, <2>1, <3>1, <3>2, Reallocates
  <2>2. CASE Local
    BY <1>3, <2>2
  <2> QED
    BY <1>5, <2>1, <2>2 DEF Acquire
<1>6. CASE Started(d)
  <2>1. CASE Capacity!MarkDispatched(d, None) /\ NoBudgetChange /\ Outside
    <3>1. Filing' /\ Others(d) /\ Shared /\ Goes(d, {"admitted"}, {"dispatched"})
      BY <2>1, Here, DispatchEffect
    <3>2. {"admitted"} \cup {"dispatched"} \subseteq Capacity!Slot /\ "released" \notin {"admitted"}
      BY DEF Capacity!Slot
    <3> QED
      BY <1>2, <2>1, <3>1, <3>2, CallReallocates
  <2>2. CASE Local
    BY <1>3, <2>2
  <2> QED
    BY <1>6, <2>1, <2>2 DEF Started
<1>7. CASE Complete(d)
  <2>1. remote[d] = "done"
    BY <1>7, Here DEF Complete, At, Ready, Consistent, Exchanging
  <2> QED
    BY <1>2, <1>3, <1>7, <2>1, Here, CompleteReallocates DEF Complete
<1>8. CASE VoidComplete(d)
  <2>1. remote[d] = "none"
    BY <1>8, Here DEF VoidComplete, At, Ready, Consistent, Dispatching
  <2> QED
    BY <1>2, <1>3, <1>8, <2>1, Here, CompleteReallocates DEF VoidComplete
<1>9. CASE HeartbeatLost(d)
  <2>1. CASE Capacity!NoteHeartbeatExpired(d) /\ NoBudgetChange /\ Outside
    <3>1. Filing' /\ Others(d) /\ Shared /\ Goes(d, {"dispatched"}, {"completion_unknown"})
      BY <2>1, Here, HeartbeatEffect
    <3>2. /\ {"dispatched"} \cup {"completion_unknown"} \subseteq Capacity!Slot
          /\ "released" \notin {"dispatched"}
      BY DEF Capacity!Slot
    <3> QED
      BY <1>2, <2>1, <3>1, <3>2, CallReallocates
  <2> QED
    BY <1>3, <1>9, <2>1 DEF HeartbeatLost
<1>10. CASE Cancelling(d)
  <2>1. CASE Capacity!Cancel(d, memory[d].now) /\ NoBudgetChange /\ Outside
    <3>1. /\ Filing' /\ Others(d) /\ Shared
          /\ Goes(d, Waiting, {"cancelled"}) \/ Goes(d, {"dispatched"}, {"cancel_requested"})
      BY <2>1, Here, CancelEffect
    <3>2. CASE Goes(d, Waiting, {"cancelled"})
      <4>1. remote[d] # "running" /\ "released" \notin Waiting
        BY <3>2, RunningBegun DEF Goes
      <4> QED
        BY <1>2, <2>1, <3>1, <3>2, <4>1, CallReallocates
    <3>3. CASE Goes(d, {"dispatched"}, {"cancel_requested"})
      <4>1. /\ {"dispatched"} \cup {"cancel_requested"} \subseteq Capacity!Slot
            /\ "released" \notin {"dispatched"}
        BY DEF Capacity!Slot
      <4> QED
        BY <1>2, <2>1, <3>1, <3>3, <4>1, CallReallocates
    <3> QED
      BY <3>1, <3>2, <3>3
  <2> QED
    BY <1>3, <1>10, <2>1 DEF Cancelling
<1> QED
  BY <1>4, <1>5, <1>6, <1>7, <1>8, <1>9, <1>10

\* Fewer dispatches are promised or paid than the ledger allows where one more has room.
LEMMA RoomForOneMore ==
    ASSUME Balanced, NEW r \in Requests, Budget!HasRoom(r)
    PROVE  Cardinality({e \in Dispatches : ChargeOf[e] \in {"promised", "paid"}})
              < Limits["dispatches"]
<1> DEFINE taken == {e \in Dispatches : ChargeOf[e] \in {"promised", "paid"}}
           promised == reserved["dispatches"]
           paid == consumed["dispatches"]
<1>1. taken = Accounts!Claimed({"reserved"} \cup Accounts!Charged)
  <2>1. \A e \in Dispatches : claim[e].state \in Budget!ClaimStates
    BY ClaimFacts
    DEF Accounts!ClaimRecords, Accounts!ClaimStates, Accounts!Charged, Budget!ClaimStates
  <2> QED
    BY <2>1 DEF Accounts!Claimed, Accounts!Charged, ChargeOf, Budget!ClaimStates
<1>2. Accounts!Cardinality(taken) = Cardinality(taken)
  BY DEF Accounts!Cardinality, Cardinality
<1>3. Accounts!LedgerInv /\ Accounts!TotalsAgree /\ Accounts!EachCounts
  BY DEF Balanced, Accounts!BalancedInv, Accounts!Books
<1>4. Accounts!Cardinality(taken) <= promised + paid
  BY <1>1, <1>3, AccountsAssumed, Accounts!ClaimsCounted
<1>5. promised \in Int /\ paid \in Nat
  BY <1>3 DEF Accounts!LedgerInv, Accounts!LedgerTypeOK, Accounts!Dimensions
<1>6. Limits["dispatches"] \in Nat /\ r.units \in Nat \ {0}
  BY RuntimeAssumption DEF Budget!Dimensions, Budget!RequestRecords
<1>7. Limits["dispatches"] - paid - promised >= r.units
  BY DEF Budget!HasRoom, Budget!Left, Balanced
<1>8. Cardinality(taken) \in Nat
  BY RuntimeAssumption, FS_Subset, FS_CardinalityType
<1> HIDE DEF taken, promised, paid
<1>9. Cardinality(taken) < Limits["dispatches"]
  BY <1>2, <1>4, <1>5, <1>6, <1>7, <1>8
<1> QED
  BY <1>9 DEF taken

LEMMA ChargeChanges ==
    ASSUME NoCapacityChange, remote' = remote, NEW d \in Dispatches,
           NEW from, NEW to, Rewrites(d, {from}, {to})
    PROVE  /\ UNCHANGED <<permit, remote>>
           /\ from = "none" /\ to = "reserved" =>
                 ChargeOf[d] = "none" /\ ChargeOf' = [ChargeOf EXCEPT ![d] = "promised"]
           /\ from = "reserved" /\ to = "released" =>
                 ChargeOf[d] = "promised" /\ ChargeOf' = [ChargeOf EXCEPT ![d] = "returned"]
           /\ from = "reserved" /\ to = "dispatched" =>
                 ChargeOf[d] = "promised" /\ ChargeOf' = [ChargeOf EXCEPT ![d] = "paid"]
<1>1. UNCHANGED <<permit, remote>>
  BY DEF NoCapacityChange, coordinatorVars
<1>2. /\ claim[d].state = from /\ claim'[d].state = to
      /\ \A e \in Dispatches \ {d} : claim'[e] = claim[e]
  BY DEF Rewrites
<1>3. ASSUME NEW c, ChargeOf'[d] = c
      PROVE  ChargeOf' = [ChargeOf EXCEPT ![d] = c]
  BY <1>2, <1>3 DEF ChargeOf
<1>4. /\ from = "none" => ChargeOf[d] = "none"
      /\ from = "reserved" => ChargeOf[d] = "promised"
      /\ to = "reserved" => ChargeOf'[d] = "promised"
      /\ to = "released" => ChargeOf'[d] = "returned"
      /\ to = "dispatched" => ChargeOf'[d] = "paid"
  BY <1>2 DEF ChargeOf
<1> QED
  BY <1>1, <1>3, <1>4

\* The steps of a request on the ledger.
LEMMA BudgetStepsPay ==
    ASSUME RuntimeInv, NEW d \in Dispatches,
           \/ Reserve(d) \/ UndoRelease(d) \/ Charge(d) \/ Settle(d) \/ VoidSettle(d)
           \/ LateSettle(d) \/ Observe(d) \/ MarkUnknown(d)
    PROVE  ContractStep
<1>1. Local => ContractStep
  BY LocalStutters DEF Local, Outside
<1>2. Outside => remote' = remote
  BY DEF Outside
<1>3. CASE Reserve(d)
  <2>1. CASE \E r \in Requests : Budget!Reserve(d, r, profile) /\ NoCapacityChange /\ Outside
    <3>1. PICK r \in Requests : Budget!Reserve(d, r, profile)
      BY <2>1
    <3>2. Rewrites(d, {"none"}, {"reserved"}) /\ Budget!HasRoom(r)
      BY <3>1, Here, ReserveEffect DEF Budget!Reserve
    <3>3. /\ UNCHANGED <<permit, remote>> /\ ChargeOf[d] = "none"
          /\ ChargeOf' = [ChargeOf EXCEPT ![d] = "promised"]
      BY <1>2, <2>1, <3>2, ChargeChanges
    <3>4. Contract!Cardinality({e \in Dispatches : ChargeOf[e] \in {"promised", "paid"}})
             < Limits["dispatches"]
      BY <3>2, Here, RoomForOneMore, ContractCardinality
    <3>5. Contract!Promise(d)
      BY <3>3, <3>4 DEF Contract!Promise, ChargeOf, Capacity!GroupIn
    <3> QED
      BY <3>5 DEF ContractStep, Contract!Next
  <2> QED
    BY <1>1, <1>3, <2>1 DEF Reserve
<1>4. CASE UndoRelease(d)
  <2>1. Rewrites(d, {"reserved"}, {"released"})
    BY <1>4, Here, ReturnEffect DEF UndoRelease
  <2>2. /\ UNCHANGED <<permit, remote>> /\ ChargeOf[d] = "promised"
        /\ ChargeOf' = [ChargeOf EXCEPT ![d] = "returned"]
    BY <1>2, <1>4, <2>1, ChargeChanges DEF UndoRelease
  <2>3. Contract!Return(d)
    BY <2>2 DEF Contract!Return, ChargeOf, Capacity!GroupIn
  <2> QED
    BY <2>3 DEF ContractStep, Contract!Next
<1>5. CASE Charge(d)
  <2>1. CASE Budget!MarkDispatched(d) /\ NoCapacityChange /\ Outside
    <3>1. Rewrites(d, {"reserved"}, {"dispatched"})
      BY <2>1, Here, ChargeEffect
    <3>2. /\ UNCHANGED <<permit, remote>> /\ ChargeOf[d] = "promised"
          /\ ChargeOf' = [ChargeOf EXCEPT ![d] = "paid"]
      BY <1>2, <2>1, <3>1, ChargeChanges
    <3>3. Contract!Pay(d)
      BY <3>2 DEF Contract!Pay, ChargeOf, Capacity!GroupIn
    <3> QED
      BY <3>3 DEF ContractStep, Contract!Next
  <2> QED
    BY <1>1, <1>5, <2>1 DEF Charge
<1>6. CASE Settle(d) \/ VoidSettle(d) \/ LateSettle(d)
  <2>1. \/ Local
        \/ /\ \E millis \in Readings \cup {0} :
                 Budget!SettleObservedWall(d, millis, ReceiptOf[d], TRUE)
           /\ NoCapacityChange /\ Outside
    BY <1>6 DEF Settle, VoidSettle, LateSettle
  <2>2. CASE /\ \E millis \in Readings \cup {0} :
                   Budget!SettleObservedWall(d, millis, ReceiptOf[d], TRUE)
             /\ NoCapacityChange /\ Outside
    <3>1. Rewrites(d, Budget!Charged, {"completed"})
      BY <2>2, Here, ReceiptTyped, SettledEffect
    <3> QED
      BY <1>2, <2>2, <3>1, PaidStutters DEF Rewrites
  <2> QED
    BY <1>1, <2>1, <2>2
<1>7. CASE Observe(d)
  <2>1. PICK millis \in Readings :
           \/ Local
           \/ Budget!ObserveWall(d, millis, ReceiptOf[d]) /\ NoCapacityChange /\ Outside
    BY <1>7 DEF Observe
  <2>2. CASE Budget!ObserveWall(d, millis, ReceiptOf[d]) /\ NoCapacityChange /\ Outside
    <3>1. /\ claim[d].state \in Budget!Charged
          /\ Rewrites(d, {claim[d].state}, {claim[d].state})
      BY <2>2, Here, ReceiptTyped, ObserveEffect
    <3> QED
      BY <1>2, <2>2, <3>1, PaidStutters DEF Rewrites
  <2> QED
    BY <1>1, <2>1, <2>2
<1>8. CASE MarkUnknown(d)
  <2>1. CASE Budget!MarkUnknown(d) /\ NoCapacityChange /\ Outside
    <3>1. Rewrites(d, {"dispatched"}, {"unknown"})
      BY <2>1, Here, UnknownEffect
    <3> QED
      BY <1>2, <2>1, <3>1, PaidStutters DEF Rewrites
  <2> QED
    BY <1>1, <1>8, <2>1 DEF MarkUnknown
<1> QED
  BY <1>3, <1>4, <1>5, <1>6, <1>7, <1>8

\* A request is sent when it is paid for and holds a slot, or was written off meanwhile.
LEMMA SendBegins ==
    ASSUME RuntimeInv, NEW d \in Dispatches, Send(d)
    PROVE  ContractStep
<1>1. NoResourceChange /\ remote' \in {remote, [remote EXCEPT ![d] = "running"]}
  BY DEF Send
<1>2. CASE remote' = remote
  BY <1>1, <1>2, LocalStutters
<1>3. CASE remote' = [remote EXCEPT ![d] = "running"]
  <2>1. /\ claim[d].state \in Open /\ remote[d] = "none"
        /\ permit[d].state \in Capacity!Completable \cup {"released"}
    BY Here DEF Send, At, Ready, Consistent, Dispatching
  <2>2. permit' = permit /\ ChargeOf' = ChargeOf
    BY <1>1 DEF NoResourceChange, NoCapacityChange, NoBudgetChange, coordinatorVars, ledgerVars,
       ChargeOf
  <2>3. ChargeOf[d] = "paid"
    BY <2>1 DEF ChargeOf
  <2>4. SlotsIn(permit)[d] # None \/ d \in WrittenIn(permit)
    <3>1. \A e \in Dispatches : Fit(permit[e])
      BY DEF RuntimeInv, Filing, Filed
    <3>2. CASE permit[d].state = "released"
      BY <3>1, <3>2, SlotsHeld
    <3>3. CASE permit[d].state \in Capacity!Completable
      <4>1. permit[d].state \in Capacity!Slot /\ permit[d].endpoint \in Endpoints
        BY <3>1, <3>3 DEF Fit, Capacity!Slot
      <4>2. Capacity!GroupIn(permit, d) \in Groups /\ None \notin Groups
        BY <4>1, RuntimeAssumption DEF Capacity!GroupIn
      <4> QED
        BY <4>1, <4>2 DEF SlotsIn
    <3> QED
      BY <2>1, <3>2, <3>3
  <2>5. Contract!Begin(d)
    BY <1>3, <2>1, <2>2, <2>3, <2>4
    DEF Contract!Begin, SlotsIn, WrittenIn, ChargeOf, Capacity!GroupIn
  <2> QED
    BY <2>5 DEF ContractStep, Contract!Next
<1> QED
  BY <1>1, <1>2, <1>3

LEMMA ServerFinishesWork ==
    ASSUME NEW d \in Dispatches, ServerFinishes(d)
    PROVE  ContractStep
<1>1. permit' = permit /\ ChargeOf' = ChargeOf
  BY DEF ServerFinishes, NoResourceChange, NoCapacityChange, NoBudgetChange, coordinatorVars,
     ledgerVars, ChargeOf
<1>2. Contract!Finish(d)
  BY <1>1 DEF ServerFinishes, Contract!Finish, ChargeOf, Capacity!GroupIn
<1> QED
  BY <1>2 DEF ContractStep, Contract!Next

\* The steps of a request that only read or decide.
LEMMA ReadingStutters ==
    ASSUME NEW d \in Dispatches,
           \/ Polled(d) \/ ReadForReserve(d) \/ Callback(d) \/ Ensured(d) \/ Respond(d)
           \/ LoseResponse(d) \/ Drop(d) \/ Undo(d) \/ UndoRead(d) \/ Void(d) \/ Abandon(d)
           \/ AbandonRead(d) \/ FreeOrKeep(d) \/ Crash(d)
    PROVE  ContractStep
<1>1. Local
  BY DEF Polled, ReadForReserve, Callback, Ensured, Respond, LoseResponse, Drop, Undo, UndoRead,
     Void, Abandon, AbandonRead, FreeOrKeep, Crash
<1> QED
  BY <1>1, LocalStutters DEF Local, Outside

LEMMA RequestStepsKeepContract ==
    ASSUME Remembered, RuntimeInv, NEW d \in Dispatches,
           Request(d) \/ Step(d) \/ ServerFinishes(d) \/ Crash(d)
    PROVE  ContractStep
BY CapacityStepsReallocate, BudgetStepsPay, SendBegins, ServerFinishesWork, ReadingStutters
DEF Step

\* An operator frees a slot only where the work is done or is written off with it.
LEMMA OperatorsKeepContract ==
    ASSUME Remembered, RuntimeInv, NEW o \in Operators, Operate(o)
    PROVE  ContractStep
<1> DEFINE d == command[o].dispatch
<1>1. Around => remote' = remote
  BY DEF Around
<1>2. NoBudgetChange => claim' = claim
  BY DEF NoBudgetChange, ledgerVars
<1>3. CASE \/ \E e \in Dispatches : BeginReconcile(o, e) \/ BeginSettle(o, e)
           \/ ReconcileReadPermit(o) \/ SettleReadPermit(o) \/ OperatorCrash(o)
  <2>1. NoResourceChange /\ Around
    BY <1>3 DEF BeginReconcile, BeginSettle, ReconcileReadPermit, SettleReadPermit, OperatorCrash
  <2> QED
    BY <1>1, <2>1, LocalStutters
<1>4. CASE ReconcileExpire(o)
  <2>1. d \in Dispatches /\ command[o].now \in Nat
    BY <1>4, Commanded DEF ReconcileExpire, Doing
  <2>2. Capacity!ExpireDue(command[o].now) /\ NoBudgetChange /\ Around
    BY <1>4 DEF ReconcileExpire
  <2> QED
    BY <1>1, <1>2, <2>1, <2>2, ExpiryReallocates
<1>5. CASE ReconcileMark(o)
  <2>1. d \in Dispatches
    BY <1>5, Commanded DEF ReconcileMark, Doing
  <2>2. NoCapacityChange /\ Around /\ (Budget!MarkUnknown(d) \/ NoBudgetChange)
    BY <1>5 DEF ReconcileMark
  <2>3. CASE Budget!MarkUnknown(d)
    <3>1. Rewrites(d, {"dispatched"}, {"unknown"})
      BY <2>1, <2>3, UnknownEffect DEF RuntimeInv
    <3> HIDE DEF d
    <3> QED
      BY <1>1, <2>1, <2>2, <3>1, PaidStutters DEF Rewrites
  <2> QED
    BY <1>1, <2>2, <2>3, LocalStutters DEF NoResourceChange
<1>6. CASE ReconcileRecord(o)
  <2>1. d \in Dispatches
    BY <1>6, Commanded DEF ReconcileRecord, Doing
  <2>2. NoCapacityChange /\ Around /\ (Budget!RecordUnresolved(d, o) \/ NoBudgetChange)
    BY <1>6 DEF ReconcileRecord
  <2>3. CASE Budget!RecordUnresolved(d, o)
    <3>1. Rewrites(d, {"unknown"}, {"unknown"})
      BY <2>1, <2>3, RecordEffect DEF RuntimeInv
    <3> HIDE DEF d
    <3> QED
      BY <1>1, <2>1, <2>2, <3>1, PaidStutters DEF Rewrites
  <2> QED
    BY <1>1, <2>2, <2>3, LocalStutters DEF NoResourceChange
<1>7. CASE ReconcileRelease(o)
  <2>1. d \in Dispatches /\ command[o].now \in Nat
    BY <1>7, Commanded DEF ReconcileRelease, Doing
  <2>2. /\ NoBudgetChange /\ Around
        /\ Capacity!Reconcile(d, command[o].now) \/ NoCapacityChange
    BY <1>7 DEF ReconcileRelease
  <2>3. CASE Capacity!Reconcile(d, command[o].now)
    <3>1. /\ Filing' /\ Others(d) /\ Shared
          /\ Goes(d, {"completion_unknown", "cancel_requested"}, {"released"})
      BY <2>1, <2>3, ReleaseEffect DEF RuntimeInv
    <3>2. "released" \notin {"completion_unknown", "cancel_requested"}
      OBVIOUS
    <3> HIDE DEF d
    <3> QED
      BY <1>1, <1>2, <2>1, <2>2, <3>1, <3>2, CallReallocates
  <2> QED
    BY <1>1, <2>2, <2>3, LocalStutters DEF NoResourceChange
<1>8. CASE SettleWall(o)
  <2>1. d \in Dispatches
    BY <1>8, Commanded DEF SettleWall, Doing
  <2>2. PICK millis \in Readings \ {0}, w \in Receipts :
           Budget!SettleObservedWall(d, millis, w, TRUE) \/ NoBudgetChange
    BY <1>8 DEF SettleWall
  <2>3. NoCapacityChange /\ Around
    BY <1>8 DEF SettleWall
  <2>4. CASE Budget!SettleObservedWall(d, millis, w, TRUE)
    <3>1. Rewrites(d, Budget!Charged, {"completed"})
      BY <2>1, <2>4, SettledEffect DEF RuntimeInv
    <3> HIDE DEF d
    <3> QED
      BY <1>1, <2>1, <2>3, <3>1, PaidStutters DEF Rewrites
  <2> QED
    BY <1>1, <2>2, <2>3, <2>4, LocalStutters DEF NoResourceChange
<1>9. CASE SettleComplete(o)
  <2>1. d \in Dispatches /\ command[o].now \in Nat /\ remote[d] = "done"
    BY <1>9, Commanded DEF SettleComplete, Doing, Warranted
  <2>2. /\ NoBudgetChange /\ Around
        /\ Capacity!Complete(d, command[o].now) \/ NoCapacityChange
    BY <1>9 DEF SettleComplete
  <2> HIDE DEF d
  <2> QED
    BY <1>1, <1>2, <2>1, <2>2, CompleteReallocates, LocalStutters DEF NoResourceChange
<1> QED
  BY <1>3, <1>4, <1>5, <1>6, <1>7, <1>8, <1>9 DEF Operate

\* The detailed runtime implements the contract: no request is sent unpaid or without a slot,
\* nothing paid is refunded, no slot under running work is given away unless the work is
\* written off, and no group gives out more slots than it has.
THEOREM RuntimeImplementsContract == Remembered => (Spec => KeepsContract)
<1>1. Init => Contract!Init
  <2> SUFFICES ASSUME Init
               PROVE  Contract!Init
    OBVIOUS
  <2>1. /\ permit = [d \in Dispatches |-> Capacity!NoPermit]
        /\ claim = [d \in Dispatches |-> Budget!NoClaim]
        /\ remote = [d \in Dispatches |-> "none"]
    BY DEF Init, Budget!Create
  <2>2. None # "capacity_released_unresolved"
    BY RuntimeAssumption
  <2> QED
    BY <2>1, <2>2 DEF Contract!Init, Capacity!NoPermit, Budget!NoClaim, Capacity!Slot
<1>2. Remembered /\ RuntimeInv /\ [Next]_runtimeVars => [Contract!Next]_(Contract!contractVars)
  <2> SUFFICES ASSUME Remembered, RuntimeInv, [Next]_runtimeVars
               PROVE  ContractStep
    BY DEF ContractStep
  <2>1. CASE Tick \/ UNCHANGED runtimeVars
    BY <2>1, LocalStutters
    DEF Tick, runtimeVars, NoResourceChange, NoCapacityChange, NoBudgetChange
  <2> QED
    BY <2>1, RequestStepsKeepContract, OperatorsKeepContract DEF Next
<1>3. Remembered => (Spec => []RuntimeInv)
  BY RuntimeInvariant
<1> SUFFICES ASSUME Remembered
             PROVE  Spec => KeepsContract
  OBVIOUS
<1>4. RuntimeInv /\ [Next]_runtimeVars => [Contract!Next]_(Contract!contractVars)
  BY <1>2
<1>5. Spec => []RuntimeInv
  BY <1>3
<1> QED
  BY <1>1, <1>4, <1>5, PTL DEF Spec, KeepsContract, Contract!Spec

=============================================================================
