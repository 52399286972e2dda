------------------------- MODULE ComputeLedger_proofs -------------------------
(***************************************************************************)
(* What is proved of the allocation ledger for every set of dispatches,    *)
(* requests, receipts, operators and profiles, whatever the ceilings.      *)
(***************************************************************************)
EXTENDS ComputeLedger, FiniteSetTheorems, TLAPS

LEMMA InitTyped == Init => LedgerTypeOK
<1> SUFFICES ASSUME NEW limits \in Ceilings, NEW h \in Profiles, Create(limits, h)
             PROVE  LedgerTypeOK
  BY DEF Init
<1>1. NoClaim \in ClaimRecords
  BY DEF NoClaim, ClaimRecords, ClaimStates, Charged
<1> QED
  BY <1>1, ComputeLedgerAssumption DEF Create, LedgerTypeOK, Nothing, Dimensions

\* Least and Greatest are one of their arguments and bound both.
LEMMA LeastGreatest ==
    ASSUME NEW a \in Int, NEW b \in Int
    PROVE  /\ Least(a, b) \in {a, b} /\ Least(a, b) <= a /\ Least(a, b) <= b
           /\ Greatest(a, b) \in {a, b} /\ Greatest(a, b) >= a /\ Greatest(a, b) >= b
BY DEF Least, Greatest

\* A final reading has a clock.
FinalHasClock == \A d \in Dispatches : claim[d].final => claim[d].receipt # None

(***************************************************************************)
(* The inductive invariant: the types, the formula for what each request   *)
(* holds, the clock of a final reading and the bound on what is given out. *)
(***************************************************************************)
LedgerInv == LedgerTypeOK /\ HeldAsExpected /\ FinalHasClock /\ NoOvercommit

LEMMA InitInv == Init => LedgerInv
<1> SUFFICES ASSUME Init PROVE LedgerInv
  OBVIOUS
<1>1. PICK limits \in Ceilings, h \in Profiles : Create(limits, h)
  BY DEF Init
<1>2. HeldAsExpected
  BY <1>1 DEF Create, HeldAsExpected, NoClaim
<1>3. NoOvercommit
  BY <1>1, ComputeLedgerAssumption DEF Create, NoOvercommit, Nothing, Dimensions
<1>4. FinalHasClock
  BY <1>1 DEF Create, FinalHasClock, NoClaim
<1> QED
  BY <1>2, <1>3, <1>4, InitTyped DEF LedgerInv

LEMMA ReserveInv ==
    ASSUME LedgerInv, NEW d \in Dispatches, NEW r \in Requests,
           NEW h \in Profiles \cup {None}, Reserve(d, r, h)
    PROVE  LedgerInv'
<1>1. /\ r.units \in Nat \ {0} /\ r.tokens \in Nat \ {0}
      /\ GrantedWall(r) \in Int /\ GrantedWall(r) > 0
  <2>1. r \in RequestRecords
    BY LedgerAssumption
  <2>2. Left("wall") \div r.units \in Int /\ r.wall \in Int
    BY <2>1 DEF RequestRecords, LedgerInv, LedgerTypeOK, Left, Dimensions
  <2> QED
    BY <2>1, <2>2, LeastGreatest DEF RequestRecords, Reserve, GrantedWall
<1> DEFINE env == GrantedWall(r) * r.units
           c == [NoClaim EXCEPT !.state = "reserved", !.units = r.units,
                                !.tokens = r.units * r.tokens, !.envelope = env,
                                !.held = env, !.profile = profile]
<1>2. env \in Nat /\ r.units * r.tokens \in Nat
  BY <1>1
<1>3. /\ claim' = [claim EXCEPT ![d] = c]
      /\ reserved' = [reserved EXCEPT !["dispatches"] = @ + r.units,
                                      !["tokens"] = @ + r.units * r.tokens,
                                      !["wall"] = @ + env]
      /\ UNCHANGED <<ceiling, consumed, profile>>
  BY DEF Reserve
<1> HIDE DEF env
<1>4. c \in ClaimRecords
  BY <1>1, <1>2 DEF NoClaim, ClaimRecords, ClaimStates, Charged, LedgerInv, LedgerTypeOK
<1>5. LedgerTypeOK'
  BY <1>1, <1>2, <1>3, <1>4 DEF LedgerInv, LedgerTypeOK, Dimensions
<1>6. HeldAsExpected'
  <2>1. /\ c.held = Greatest(0, c.envelope - c.wall) /\ c.state = "reserved"
        /\ c.receipt = None /\ c.final = FALSE /\ c.wall = 0
    BY <1>2 DEF NoClaim, Greatest
  <2> HIDE DEF c
  <2> QED
    BY <1>3, <2>1 DEF LedgerInv, LedgerTypeOK, HeldAsExpected
<1>7. NoOvercommit'
  <2>1. /\ ceiling["dispatches"] - consumed["dispatches"] - reserved["dispatches"] >= r.units
        /\ ceiling["tokens"] - consumed["tokens"] - reserved["tokens"] >= r.units * r.tokens
    BY DEF Reserve, HasRoom, Left
  <2>2. /\ reserved'["dispatches"] = reserved["dispatches"] + r.units
        /\ reserved'["tokens"] = reserved["tokens"] + r.units * r.tokens
    BY <1>3 DEF LedgerInv, LedgerTypeOK, Dimensions
  <2> DEFINE t == r.units * r.tokens
  <2>3. t \in Nat
    BY <1>2
  <2> HIDE DEF t
  <2> QED
    BY <1>1, <1>3, <2>1, <2>2, <2>3 DEF LedgerInv, LedgerTypeOK, NoOvercommit, Dimensions, t
<1>8. FinalHasClock'
  <2>1. c.final = FALSE
    BY DEF NoClaim
  <2> HIDE DEF c
  <2> QED
    BY <1>3, <2>1 DEF LedgerInv, LedgerTypeOK, FinalHasClock
<1> QED
  BY <1>5, <1>6, <1>7, <1>8 DEF LedgerInv

LEMMA ReleaseInv ==
    ASSUME LedgerInv, NEW d \in Dispatches, ReleaseNotDispatched(d)
    PROVE  LedgerInv'
<1>1. claim[d] \in ClaimRecords
  BY DEF LedgerInv, LedgerTypeOK
<1>2. LedgerTypeOK'
  BY <1>1 DEF LedgerInv, LedgerTypeOK, ReleaseNotDispatched, ClaimRecords, ClaimStates, Dimensions
<1>3. HeldAsExpected'
  BY <1>1 DEF LedgerInv, LedgerTypeOK, HeldAsExpected, ReleaseNotDispatched, ClaimRecords, Charged
<1>4. NoOvercommit'
  BY <1>1 DEF LedgerInv, LedgerTypeOK, NoOvercommit, ReleaseNotDispatched, ClaimRecords, Dimensions
<1>5. FinalHasClock'
  BY <1>1 DEF LedgerInv, LedgerTypeOK, FinalHasClock, ReleaseNotDispatched, ClaimRecords
<1> QED
  BY <1>2, <1>3, <1>4, <1>5 DEF LedgerInv

LEMMA MarkDispatchedInv ==
    ASSUME LedgerInv, NEW d \in Dispatches, MarkDispatched(d)
    PROVE  LedgerInv'
<1>1. claim[d] \in ClaimRecords
  BY DEF LedgerInv, LedgerTypeOK
<1>2. LedgerTypeOK'
  BY <1>1 DEF LedgerInv, LedgerTypeOK, MarkDispatched, ClaimRecords, ClaimStates, Charged, Dimensions
<1>3. HeldAsExpected'
  BY <1>1 DEF LedgerInv, LedgerTypeOK, HeldAsExpected, MarkDispatched, ClaimRecords, Charged
<1>4. NoOvercommit'
  BY <1>1 DEF LedgerInv, LedgerTypeOK, NoOvercommit, MarkDispatched, ClaimRecords, Dimensions
<1>5. FinalHasClock'
  BY <1>1 DEF LedgerInv, LedgerTypeOK, FinalHasClock, MarkDispatched, ClaimRecords
<1> QED
  BY <1>2, <1>3, <1>4, <1>5 DEF LedgerInv

LEMMA MarkUnknownInv ==
    ASSUME LedgerInv, NEW d \in Dispatches, MarkUnknown(d)
    PROVE  LedgerInv'
<1>1. claim[d] \in ClaimRecords
  BY DEF LedgerInv, LedgerTypeOK
<1>2. LedgerTypeOK'
  BY <1>1 DEF LedgerInv, LedgerTypeOK, MarkUnknown, ClaimRecords, ClaimStates, Charged
<1>3. HeldAsExpected'
  BY <1>1 DEF LedgerInv, LedgerTypeOK, HeldAsExpected, MarkUnknown, ClaimRecords, Charged
<1>4. FinalHasClock'
  BY <1>1 DEF LedgerInv, LedgerTypeOK, FinalHasClock, MarkUnknown, ClaimRecords
<1> QED
  BY <1>2, <1>3, <1>4 DEF LedgerInv, NoOvercommit, MarkUnknown

(***************************************************************************)
(* A reading takes from what is held no more than is held, and leaves the  *)
(* envelope less the reading, or nothing.                                  *)
(***************************************************************************)
LEMMA ReadingCovers ==
    ASSUME LedgerInv, NEW d \in Dispatches, NEW millis \in Nat, NEW w \in Receipts,
           Readable(d, millis, w)
    PROVE  /\ Covered(d, millis) \in Nat
           /\ claim[d].held - Covered(d, millis) \in Nat
           /\ millis - claim[d].wall \in Nat
           /\ claim[d].state # "completed" =>
                 claim[d].held - Covered(d, millis)
                    = Greatest(0, claim[d].envelope - millis)
<1>1. claim[d] \in ClaimRecords
  BY DEF LedgerInv, LedgerTypeOK
<1>2. /\ claim[d].held \in Nat /\ claim[d].wall \in Nat /\ claim[d].envelope \in Nat
      /\ millis >= claim[d].wall
  BY <1>1 DEF ClaimRecords, Readable
<1>3. claim[d].state # "completed" =>
         claim[d].held = Greatest(0, claim[d].envelope - claim[d].wall)
  BY DEF LedgerInv, HeldAsExpected, Readable, Charged
<1>4. millis - claim[d].wall \in Nat
  BY <1>2
<1> DEFINE taken == Least(millis - claim[d].wall, claim[d].held)
<1>5. /\ taken \in Nat
      /\ claim[d].held - taken \in Nat
      /\ claim[d].held = Greatest(0, claim[d].envelope - claim[d].wall)
            => claim[d].held - taken = Greatest(0, claim[d].envelope - millis)
  <2> DEFINE h == claim[d].held
             v == claim[d].wall
             e == claim[d].envelope
  <2>1. h \in Nat /\ v \in Nat /\ e \in Nat /\ millis >= v
    BY <1>2
  <2> HIDE DEF h, v, e
  <2>2. /\ Least(millis - v, h) \in Nat
        /\ h - Least(millis - v, h) \in Nat
        /\ h = Greatest(0, e - v) => h - Least(millis - v, h) = Greatest(0, e - millis)
    BY <2>1 DEF Least, Greatest
  <2> QED
    BY <2>2 DEF h, v, e
<1>6. Covered(d, millis) = taken
  BY DEF Covered
<1> QED
  BY ONLY <1>3, <1>4, <1>5, <1>6

LEMMA ObserveInv ==
    ASSUME LedgerInv, NEW d \in Dispatches, NEW millis \in Nat, NEW w \in Receipts,
           ObserveWall(d, millis, w)
    PROVE  LedgerInv'
<1> DEFINE kept == claim[d].held - Covered(d, millis)
<1>1. claim[d] \in ClaimRecords
  BY DEF LedgerInv, LedgerTypeOK
<1>2. /\ Covered(d, millis) \in Nat /\ kept \in Nat /\ millis - claim[d].wall \in Nat
      /\ claim[d].state # "completed" => kept = Greatest(0, claim[d].envelope - millis)
  BY ReadingCovers DEF ObserveWall
<1>3. /\ claim' = [claim EXCEPT ![d].held = kept, ![d].wall = millis, ![d].receipt = w]
      /\ claim[d].state \in Charged
      /\ claim[d].final => millis = claim[d].wall
      /\ UNCHANGED <<ceiling, profile>>
      /\ reserved' = [reserved EXCEPT !["wall"] = @ - Covered(d, millis)]
      /\ consumed' = [consumed EXCEPT !["wall"] = @ + (millis - claim[d].wall)]
  BY DEF ObserveWall, Readable, LedgerInv, LedgerTypeOK
<1>4. LedgerTypeOK'
  <2> HIDE DEF kept
  <2>1. claim' \in [Dispatches -> ClaimRecords]
    BY <1>1, <1>2, <1>3 DEF LedgerInv, LedgerTypeOK, ClaimRecords
  <2>2. reserved' \in [Dimensions -> Int] /\ consumed' \in [Dimensions -> Nat]
    BY <1>2, <1>3 DEF LedgerInv, LedgerTypeOK, Dimensions
  <2> QED
    BY <1>3, <2>1, <2>2 DEF LedgerInv, LedgerTypeOK
<1>5. HeldAsExpected'
  <2>1. claim[d].state = "completed" => kept = 0
    <3>1. claim[d].state = "completed" => claim[d].held = 0
      BY DEF LedgerInv, HeldAsExpected
    <3> QED
      BY <1>2, <3>1
  <2>2. None \notin Receipts
    BY LedgerAssumption
  <2> HIDE DEF kept
  <2> QED
    BY <1>1, <1>2, <1>3, <2>1, <2>2
    DEF LedgerInv, LedgerTypeOK, HeldAsExpected, ClaimRecords, Charged
<1>6. NoOvercommit'
  BY <1>3 DEF LedgerInv, LedgerTypeOK, NoOvercommit, Dimensions
<1>7. FinalHasClock'
  BY <1>1, <1>3, LedgerAssumption DEF LedgerInv, LedgerTypeOK, FinalHasClock, ClaimRecords
<1> QED
  BY <1>4, <1>5, <1>6, <1>7 DEF LedgerInv

LEMMA SettleInv ==
    ASSUME LedgerInv, NEW d \in Dispatches, NEW millis \in Nat, NEW w \in Receipts,
           NEW known \in BOOLEAN, SettleObservedWall(d, millis, w, known)
    PROVE  LedgerInv'
<1> DEFINE kept == IF known THEN 0 ELSE claim[d].held - Covered(d, millis)
           state == IF known THEN "completed" ELSE "unknown"
<1>1. claim[d] \in ClaimRecords
  BY DEF LedgerInv, LedgerTypeOK
<1>2. /\ kept \in Nat /\ millis - claim[d].wall \in Nat
      /\ ~known => kept = Greatest(0, claim[d].envelope - millis)
  BY ReadingCovers DEF SettleObservedWall
<1>3. /\ claim' = [claim EXCEPT ![d].held = kept, ![d].wall = millis,
                                ![d].receipt = w, ![d].final = TRUE, ![d].state = state]
      /\ UNCHANGED <<ceiling, profile>>
      /\ reserved' = [reserved EXCEPT !["wall"] = @ - (claim[d].held - kept)]
      /\ consumed' = [consumed EXCEPT !["wall"] = @ + (millis - claim[d].wall)]
  BY DEF SettleObservedWall
<1>4. state \in Charged /\ (state = "completed" <=> known)
  BY DEF Charged
<1>5. claim[d].held \in Int
  BY <1>1 DEF ClaimRecords
<1> HIDE DEF kept, state
<1>6. LedgerTypeOK'
  <2>1. claim' \in [Dispatches -> ClaimRecords]
    BY <1>1, <1>2, <1>3, <1>4 DEF LedgerInv, LedgerTypeOK, ClaimRecords, ClaimStates
  <2>2. reserved' \in [Dimensions -> Int] /\ consumed' \in [Dimensions -> Nat]
    BY <1>2, <1>3, <1>5 DEF LedgerInv, LedgerTypeOK, Dimensions
  <2> QED
    BY <1>3, <2>1, <2>2 DEF LedgerInv, LedgerTypeOK
<1>7. HeldAsExpected'
  <2>1. None \notin Receipts
    BY LedgerAssumption
  <2>2. known => kept = 0
    BY DEF kept
  <2> QED
    BY <1>1, <1>2, <1>3, <1>4, <2>1, <2>2
    DEF LedgerInv, LedgerTypeOK, HeldAsExpected, ClaimRecords, Charged
<1>8. NoOvercommit'
  BY <1>3 DEF LedgerInv, LedgerTypeOK, NoOvercommit, Dimensions
<1>9. FinalHasClock'
  BY <1>1, <1>3, LedgerAssumption DEF LedgerInv, LedgerTypeOK, FinalHasClock, ClaimRecords
<1> QED
  BY <1>6, <1>7, <1>8, <1>9 DEF LedgerInv

LEMMA RecordInv ==
    ASSUME LedgerInv, NEW d \in Dispatches, NEW op \in Operators, RecordUnresolved(d, op)
    PROVE  LedgerInv'
<1>1. claim[d] \in ClaimRecords
  BY DEF LedgerInv, LedgerTypeOK
<1>2. LedgerTypeOK'
  BY <1>1 DEF LedgerInv, LedgerTypeOK, RecordUnresolved, ClaimRecords
<1>3. HeldAsExpected'
  BY <1>1 DEF LedgerInv, LedgerTypeOK, HeldAsExpected, RecordUnresolved, ClaimRecords, Charged
<1>4. FinalHasClock'
  BY <1>1 DEF LedgerInv, LedgerTypeOK, FinalHasClock, RecordUnresolved, ClaimRecords
<1> QED
  BY <1>2, <1>3, <1>4 DEF LedgerInv, NoOvercommit, RecordUnresolved

LEMMA ExtensionInv ==
    ASSUME LedgerInv, NEW extra \in Grants, GrantExtension(extra)
    PROVE  LedgerInv'
<1>1. extra \in [Dimensions -> Nat]
  BY ComputeLedgerAssumption
<1> QED
  BY <1>1 DEF LedgerInv, LedgerTypeOK, HeldAsExpected, FinalHasClock, NoOvercommit,
             GrantExtension, Dimensions

LEMMA NextInv == LedgerInv /\ [Next]_ledgerVars => LedgerInv'
<1> SUFFICES ASSUME LedgerInv, [Next]_ledgerVars PROVE LedgerInv'
  OBVIOUS
<1> USE ComputeLedgerAssumption
<1>1. ASSUME NEW d \in Dispatches, Client(d) PROVE LedgerInv'
  BY <1>1, ReserveInv, ReleaseInv, MarkDispatchedInv, MarkUnknownInv, ObserveInv,
     SettleInv, RecordInv DEF Client
<1>2. ASSUME NEW extra \in Grants, GrantExtension(extra) PROVE LedgerInv'
  BY <1>2, ExtensionInv
<1>3. ASSUME NEW h \in Profiles, ReconfigureProfile(h) PROVE LedgerInv'
  BY <1>3 DEF ReconfigureProfile, LedgerInv, LedgerTypeOK, HeldAsExpected, FinalHasClock, NoOvercommit
<1>4. CASE UNCHANGED ledgerVars
  BY <1>4 DEF ledgerVars, LedgerInv, LedgerTypeOK, HeldAsExpected, FinalHasClock, NoOvercommit
<1> QED
  BY <1>1, <1>2, <1>3, <1>4 DEF Next

LEMMA AlwaysInv == Spec => []LedgerInv
<1> QED
  BY InitInv, NextInv, PTL DEF Spec

-----------------------------------------------------------------------------
(***************************************************************************)
(* Sums over finite sets of dispatches.                                    *)
(***************************************************************************)
Sum(f, S) == SumFunctionOnSet(f, S)

\* Induction: a set of numbers with 0 and all their successors has them all.
LEMMA CountUp ==
    ASSUME NEW B, B \subseteq Nat, 0 \in B, \A n \in B : n + 1 \in B
    PROVE  \A n \in Nat : n \in B
<1> DEFINE less == {ss \in Nat \X Nat : ss[1] < ss[2]}
           rest == Nat \ B
<1>1. IsWellFoundedOn(less, Nat)
  <2>1. less = OpToRel(<, Nat)
    BY DEF OpToRel
  <2> QED
    BY <2>1, NatLessThanWellFounded
<1>2. SUFFICES ASSUME rest # {} PROVE FALSE
  OBVIOUS
<1>3. PICK n \in rest : \A m \in rest : <<m, n>> \notin less
  <2> HIDE DEF less
  <2> QED
    BY <1>1, <1>2, WFMin
<1>4. n \in Nat \ {0} /\ n - 1 \in Nat /\ n - 1 < n
  OBVIOUS
<1>5. n - 1 \in B
  BY <1>3, <1>4
<1> QED
  BY <1>4, <1>5

\* What makes a function over the subsets of S a running sum of f.
Unfolds(f, S, g) ==
    g = [s \in SUBSET S |->
            IF s = {} THEN 0
            ELSE LET x == CHOOSE x \in s : TRUE IN f[x] + g[s \ {x}]]

Picked(s) == CHOOSE x \in s : TRUE

LEMMA SumIs ==
    ASSUME NEW f, NEW S
    PROVE SumFunctionOnSet(f, S) = (CHOOSE g : Unfolds(f, S, g))[S]
BY DEF SumFunctionOnSet, FoldFunctionOnSet, MapThenFoldSet, Unfolds

LEMMA Decreasing ==
    ASSUME NEW S, IsFiniteSet(S), NEW s \in SUBSET S, s # {}
    PROVE  /\ Picked(s) \in s /\ s \ {Picked(s)} \in SUBSET S
           /\ Cardinality(s) \in Nat \ {0} /\ IsFiniteSet(s)
           /\ Cardinality(s \ {Picked(s)}) = Cardinality(s) - 1
<1>1. Picked(s) \in s
  BY DEF Picked
<1>2. IsFiniteSet(s)
  BY FS_Subset
<1> QED
  BY <1>1, <1>2, FS_CardinalityType, FS_EmptySet, FS_RemoveElement

\* Sums of the parts of S with up to n elements.
SumsUpTo(f, S, g, n) ==
    \A s \in SUBSET S : Cardinality(s) <= n =>
        g[s] = IF s = {} THEN 0 ELSE f[Picked(s)] + g[s \ {Picked(s)}]

LEMMA UnfoldingExists ==
    ASSUME NEW V \in {Nat, Int}, NEW S, IsFiniteSet(S), NEW f, \A x \in S : f[x] \in V
    PROVE  \E g \in [SUBSET S -> V] : Unfolds(f, S, g)
<1> DEFINE B == {n \in Nat : \E g \in [SUBSET S -> V] : SumsUpTo(f, S, g, n)}
<1>1. 0 \in B
  <2> DEFINE g == [s \in SUBSET S |-> 0]
  <2>1. \A s \in SUBSET S : Cardinality(s) <= 0 => s = {}
    BY FS_Subset, FS_CardinalityType, FS_EmptySet
  <2>2. SumsUpTo(f, S, g, 0) /\ g \in [SUBSET S -> V]
    BY <2>1 DEF SumsUpTo
  <2> HIDE DEF g
  <2> QED
    BY <2>2
<1>2. ASSUME NEW n \in B PROVE n + 1 \in B
  <2>1. PICK g \in [SUBSET S -> V] : SumsUpTo(f, S, g, n)
    OBVIOUS
  <2> DEFINE body(s) == IF s = {} THEN 0 ELSE f[Picked(s)] + g[s \ {Picked(s)}]
             h == [s \in SUBSET S |-> IF Cardinality(s) <= n THEN g[s] ELSE body(s)]
  <2>2. \A s \in SUBSET S : body(s) \in V
    <3> SUFFICES ASSUME NEW s \in SUBSET S, s # {} PROVE body(s) \in V
      OBVIOUS
    <3>1. Picked(s) \in S /\ s \ {Picked(s)} \in SUBSET S
      BY Decreasing
    <3> QED
      BY <3>1
  <2>3. h \in [SUBSET S -> V]
    <3> HIDE DEF body
    <3> QED
      BY <2>2
  <2>4. SumsUpTo(f, S, h, n + 1)
    <3> SUFFICES ASSUME NEW s \in SUBSET S, Cardinality(s) <= n + 1
                 PROVE  h[s] = IF s = {} THEN 0 ELSE f[Picked(s)] + h[s \ {Picked(s)}]
      BY DEF SumsUpTo
    <3>1. h[s] = body(s)
      BY <2>1 DEF SumsUpTo
    <3>2. CASE s = {}
      BY <3>1, <3>2
    <3>3. CASE s # {}
      <4>1. h[s \ {Picked(s)}] = g[s \ {Picked(s)}]
        BY <3>3, Decreasing
      <4> QED
        BY <3>1, <3>3, <4>1
    <3> QED
      BY <3>2, <3>3
  <2> HIDE DEF h
  <2>5. \E k \in [SUBSET S -> V] : SumsUpTo(f, S, k, n + 1)
    BY <2>3, <2>4
  <2>6. n + 1 \in Nat
    OBVIOUS
  <2> QED
    BY <2>5, <2>6, Zenon
<1>3. Cardinality(S) \in B
  <2> HIDE DEF B
  <2>1. B \subseteq Nat
    BY DEF B
  <2> QED
    BY <1>1, <1>2, <2>1, CountUp, FS_CardinalityType
<1>4. PICK g \in [SUBSET S -> V] : SumsUpTo(f, S, g, Cardinality(S))
  BY <1>3
<1>5. \A s \in SUBSET S : Cardinality(s) <= Cardinality(S)
  BY FS_Subset
<1>6. \A s \in SUBSET S : g[s] = IF s = {} THEN 0 ELSE f[Picked(s)] + g[s \ {Picked(s)}]
  BY <1>4, <1>5 DEF SumsUpTo
<1>7. Unfolds(f, S, g)
  BY <1>6 DEF Unfolds, Picked
<1> QED
  BY <1>7

\* Two running sums agree on the sets they both sum.
LEMMA UnfoldingsAgree ==
    ASSUME NEW S, IsFiniteSet(S), NEW T \in SUBSET S, NEW f,
           NEW g, Unfolds(f, S, g), NEW h, Unfolds(f, T, h)
    PROVE  \A s \in SUBSET T : g[s] = h[s]
<1> DEFINE B == {n \in Nat : \A s \in SUBSET T : Cardinality(s) = n => g[s] = h[s]}
<1>1. /\ \A s \in SUBSET S : g[s] = IF s = {} THEN 0 ELSE f[Picked(s)] + g[s \ {Picked(s)}]
      /\ \A s \in SUBSET T : h[s] = IF s = {} THEN 0 ELSE f[Picked(s)] + h[s \ {Picked(s)}]
  BY DEF Unfolds, Picked
<1>2. IsFiniteSet(T)
  BY FS_Subset
<1>3. 0 \in B
  <2>1. \A s \in SUBSET T : Cardinality(s) = 0 => s = {}
    BY <1>2, FS_Subset, FS_EmptySet
  <2> QED
    BY <1>1, <2>1
<1>4. ASSUME NEW n \in B PROVE n + 1 \in B
  <2> SUFFICES ASSUME NEW s \in SUBSET T, Cardinality(s) = n + 1 PROVE g[s] = h[s]
    OBVIOUS
  <2>1. s # {}
    BY FS_EmptySet
  <2>2. s \ {Picked(s)} \in SUBSET T /\ Cardinality(s \ {Picked(s)}) = n
    BY <1>2, <2>1, Decreasing
  <2> QED
    BY <1>1, <2>1, <2>2
<1>5. \A n \in Nat : n \in B
  <2> HIDE DEF B
  <2>1. B \subseteq Nat
    BY DEF B
  <2> QED
    BY <1>3, <1>4, <2>1, CountUp
<1> SUFFICES ASSUME NEW s \in SUBSET T PROVE g[s] = h[s]
  OBVIOUS
<1>6. Cardinality(s) \in Nat
  BY <1>2, FS_Subset, FS_CardinalityType
<1> QED
  BY <1>5, <1>6

LEMMA SumUnfolds ==
    ASSUME NEW V \in {Nat, Int}, NEW S, IsFiniteSet(S), NEW f, \A x \in S : f[x] \in V
    PROVE  /\ Sum(f, S) \in V
           /\ S = {} => Sum(f, S) = 0
           /\ S # {} => Sum(f, S) = f[Picked(S)] + Sum(f, S \ {Picked(S)})
<1> DEFINE run(T) == CHOOSE g : Unfolds(f, T, g)
<1>1. ASSUME NEW T \in SUBSET S
      PROVE  Unfolds(f, T, run(T)) /\ run(T)[T] \in V /\ Sum(f, T) = run(T)[T]
  <2>1. PICK g \in [SUBSET T -> V] : Unfolds(f, T, g)
    BY UnfoldingExists, FS_Subset
  <2>2. Unfolds(f, T, run(T))
    BY <2>1
  <2> HIDE DEF run
  <2>3. run(T)[T] = g[T]
    <3>1. IsFiniteSet(T) /\ T \in SUBSET T
      BY FS_Subset
    <3> QED
      BY <2>1, <2>2, <3>1, UnfoldingsAgree
  <2>4. Sum(f, T) = run(T)[T]
    BY SumIs DEF Sum, run
  <2> QED
    BY <2>1, <2>2, <2>3, <2>4
<1> HIDE DEF run
<1>2. Sum(f, S) = run(S)[S] /\ Sum(f, S) \in V /\ Unfolds(f, S, run(S))
  BY <1>1
<1>3. run(S)[S] = IF S = {} THEN 0 ELSE f[Picked(S)] + run(S)[S \ {Picked(S)}]
  BY <1>2 DEF Unfolds, Picked
<1>4. ASSUME S # {} PROVE run(S)[S \ {Picked(S)}] = Sum(f, S \ {Picked(S)})
  <2> DEFINE T == S \ {Picked(S)}
  <2>1. T \in SUBSET S
    OBVIOUS
  <2> HIDE DEF T
  <2>2. run(S)[T] = run(T)[T]
    BY <1>1, <1>2, <2>1, UnfoldingsAgree
  <2> QED
    BY <1>1, <2>1, <2>2 DEF T
<1> QED
  BY <1>2, <1>3, <1>4

\* Any element may be taken out first.
LEMMA SumWithout ==
    ASSUME NEW S, IsFiniteSet(S), NEW f, \A x \in S : f[x] \in Int, NEW x \in S
    PROVE  Sum(f, S) = f[x] + Sum(f, S \ {x})
<1> DEFINE B == {n \in Nat : \A s \in SUBSET S : Cardinality(s) = n =>
                    \A y \in s : Sum(f, s) = f[y] + Sum(f, s \ {y})}
<1>1. 0 \in B
  <2>1. \A s \in SUBSET S : Cardinality(s) = 0 => s = {}
    BY FS_Subset, FS_EmptySet
  <2> QED
    BY <2>1
<1>2. ASSUME NEW n \in B PROVE n + 1 \in B
  <2> SUFFICES ASSUME NEW s \in SUBSET S, Cardinality(s) = n + 1, NEW y \in s
               PROVE  Sum(f, s) = f[y] + Sum(f, s \ {y})
    OBVIOUS
  <2> DEFINE c == Picked(s)
  <2>0. n \in Nat /\ s # {}
    OBVIOUS
  <2>1. /\ c \in s /\ IsFiniteSet(s) /\ s \ {c} \in SUBSET S
        /\ Cardinality(s \ {c}) = n
    <3> HIDE DEF B
    <3> QED
      BY <2>0, Decreasing
  <2>2. Sum(f, s) = f[c] + Sum(f, s \ {c})
    BY <2>1, SumUnfolds
  <2>3. CASE y = c
    BY <2>2, <2>3
  <2>4. CASE y # c
    <3>1. Sum(f, s \ {c}) = f[y] + Sum(f, (s \ {c}) \ {y})
      BY <2>1, <2>4
    <3>2. /\ s \ {y} \in SUBSET S /\ Cardinality(s \ {y}) = n /\ c \in s \ {y}
          /\ IsFiniteSet(s \ {y})
      BY <2>1, <2>4, FS_RemoveElement
    <3>3. Sum(f, s \ {y}) = f[c] + Sum(f, (s \ {y}) \ {c})
      BY <3>2
    <3>4. (s \ {y}) \ {c} = (s \ {c}) \ {y}
      OBVIOUS
    <3>5. Sum(f, (s \ {c}) \ {y}) \in Int /\ f[c] \in Int /\ f[y] \in Int
      <4>1. (s \ {c}) \ {y} \in SUBSET S
        OBVIOUS
      <4>2. IsFiniteSet((s \ {c}) \ {y})
        BY <4>1, FS_Subset
      <4> QED
        BY <2>1, <4>1, <4>2, SumUnfolds
    <3> DEFINE rest == Sum(f, (s \ {c}) \ {y})
    <3> HIDE DEF c, B, rest
    <3>6. /\ Sum(f, s) = f[c] + (f[y] + rest)
          /\ Sum(f, s \ {y}) = f[c] + rest
          /\ rest \in Int
      BY <2>2, <3>1, <3>3, <3>4, <3>5 DEF rest
    <3> QED
      BY <3>5, <3>6
  <2> QED
    BY <2>3, <2>4
<1>3. \A n \in Nat : n \in B
  <2> HIDE DEF B
  <2>1. B \subseteq Nat
    BY DEF B
  <2> QED
    BY <1>1, <1>2, <2>1, CountUp
<1> QED
  BY <1>3, FS_CardinalityType

\* A larger function has a larger sum.
LEMMA SumMonotonic ==
    ASSUME NEW S, IsFiniteSet(S), NEW f, NEW g,
           \A x \in S : f[x] \in Int /\ g[x] \in Int /\ f[x] <= g[x]
    PROVE  Sum(f, S) <= Sum(g, S)
<1> DEFINE B == {n \in Nat : \A s \in SUBSET S : Cardinality(s) = n => Sum(f, s) <= Sum(g, s)}
<1>1. 0 \in B
  <2>1. \A s \in SUBSET S : Cardinality(s) = 0 => s = {}
    BY FS_Subset, FS_EmptySet
  <2>2. Sum(f, {}) = 0 /\ Sum(g, {}) = 0
    BY FS_EmptySet, SumUnfolds
  <2> QED
    BY <2>1, <2>2
<1>2. ASSUME NEW n \in B PROVE n + 1 \in B
  <2> SUFFICES ASSUME NEW s \in SUBSET S, Cardinality(s) = n + 1
               PROVE  Sum(f, s) <= Sum(g, s)
    OBVIOUS
  <2> DEFINE c == Picked(s)
             t == s \ {c}
  <2>1. s # {}
    BY FS_EmptySet
  <2>2. /\ c \in s /\ IsFiniteSet(s) /\ t \in SUBSET S
        /\ Cardinality(t) = n /\ IsFiniteSet(t)
    BY <2>1, Decreasing, FS_Subset
  <2>3. Sum(f, s) = f[c] + Sum(f, t) /\ Sum(g, s) = g[c] + Sum(g, t)
    BY <2>1, <2>2, SumUnfolds
  <2>4. Sum(f, t) \in Int /\ Sum(g, t) \in Int
    BY <2>2, SumUnfolds
  <2>5. Sum(f, t) <= Sum(g, t)
    BY <2>2
  <2>6. f[c] \in Int /\ g[c] \in Int /\ f[c] <= g[c]
    BY <2>2
  <2> HIDE DEF c, t
  <2> QED
    BY <2>3, <2>4, <2>5, <2>6
<1>3. \A n \in Nat : n \in B
  <2> HIDE DEF B
  <2>1. B \subseteq Nat
    BY DEF B
  <2> QED
    BY <1>1, <1>2, <2>1, CountUp
<1> QED
  BY <1>3, FS_CardinalityType

LEMMA SumAgrees ==
    ASSUME NEW S, IsFiniteSet(S), NEW f, NEW g,
           \A x \in S : f[x] \in Int /\ g[x] = f[x]
    PROVE  Sum(f, S) = Sum(g, S)
<1>1. Sum(f, S) <= Sum(g, S) /\ Sum(g, S) <= Sum(f, S)
  BY SumMonotonic
<1>2. Sum(f, S) \in Int /\ Sum(g, S) \in Int
  BY SumUnfolds
<1> QED
  BY <1>1, <1>2

\* A sum of positive numbers counts at least its terms.
LEMMA SumCounts ==
    ASSUME NEW S, IsFiniteSet(S), NEW f,
           \A x \in S : f[x] \in Int /\ f[x] >= 1
    PROVE  Sum(f, S) >= Cardinality(S)
<1> DEFINE B == {n \in Nat : \A s \in SUBSET S : Cardinality(s) = n => Sum(f, s) >= n}
<1>1. 0 \in B
  <2>1. \A s \in SUBSET S : Cardinality(s) = 0 => s = {}
    BY FS_Subset, FS_EmptySet
  <2>2. Sum(f, {}) = 0
    BY FS_EmptySet, SumUnfolds
  <2> QED
    BY <2>1, <2>2
<1>2. ASSUME NEW n \in B PROVE n + 1 \in B
  <2> SUFFICES ASSUME NEW s \in SUBSET S, Cardinality(s) = n + 1
               PROVE  Sum(f, s) >= n + 1
    OBVIOUS
  <2> DEFINE c == Picked(s)
             t == s \ {c}
  <2>1. s # {}
    BY FS_EmptySet
  <2>2. /\ c \in s /\ IsFiniteSet(s) /\ t \in SUBSET S
        /\ Cardinality(t) = n /\ IsFiniteSet(t)
    BY <2>1, Decreasing, FS_Subset
  <2>3. Sum(f, s) = f[c] + Sum(f, t)
    BY <2>1, <2>2, SumUnfolds
  <2>4. Sum(f, t) \in Int
    BY <2>2, SumUnfolds
  <2>5. Sum(f, t) >= n
    BY <2>2
  <2>6. f[c] \in Int /\ f[c] >= 1
    BY <2>2
  <2> HIDE DEF c, t
  <2> QED
    BY <2>3, <2>4, <2>5, <2>6
<1>3. \A n \in Nat : n \in B
  <2> HIDE DEF B
  <2>1. B \subseteq Nat
    BY DEF B
  <2> QED
    BY <1>1, <1>2, <2>1, CountUp
<1> QED
  BY <1>3, FS_CardinalityType

LEMMA SumOfNothing ==
    ASSUME NEW S, IsFiniteSet(S), NEW f, \A x \in S : f[x] = 0
    PROVE  Sum(f, S) = 0
<1> DEFINE B == {n \in Nat : \A s \in SUBSET S : Cardinality(s) = n => Sum(f, s) = 0}
<1>1. 0 \in B
  <2>1. \A s \in SUBSET S : Cardinality(s) = 0 => s = {}
    BY FS_Subset, FS_EmptySet
  <2>2. Sum(f, {}) = 0
    BY FS_EmptySet, SumUnfolds
  <2> QED
    BY <2>1, <2>2
<1>2. ASSUME NEW n \in B PROVE n + 1 \in B
  <2> SUFFICES ASSUME NEW s \in SUBSET S, Cardinality(s) = n + 1 PROVE Sum(f, s) = 0
    OBVIOUS
  <2> DEFINE c == Picked(s)
             t == s \ {c}
  <2>1. s # {}
    BY FS_EmptySet
  <2>2. /\ c \in s /\ IsFiniteSet(s) /\ t \in SUBSET S /\ Cardinality(t) = n
    BY <2>1, Decreasing
  <2>3. Sum(f, s) = f[c] + Sum(f, t)
    BY <2>1, <2>2, SumUnfolds
  <2>4. f[c] = 0 /\ Sum(f, t) = 0
    BY <2>2
  <2> HIDE DEF c, t
  <2> QED
    BY <2>3, <2>4
<1>3. \A n \in Nat : n \in B
  <2> HIDE DEF B
  <2>1. B \subseteq Nat
    BY DEF B
  <2> QED
    BY <1>1, <1>2, <2>1, CountUp
<1> QED
  BY <1>3, FS_CardinalityType

-----------------------------------------------------------------------------
(***************************************************************************)
(* The totals.  A step that rewrites one claim moves each total by what    *)
(* that claim leaves and what it brings.                                   *)
(***************************************************************************)
Part(c, states, n) == IF c.state \in states THEN n ELSE 0

LEMMA SumMoves ==
    ASSUME NEW D, IsFiniteSet(D), NEW f, NEW g,
           \A x \in D : f[x] \in Int /\ g[x] \in Int,
           NEW S \in SUBSET D, NEW T \in SUBSET D, NEW d \in D,
           \A x \in D : x # d => g[x] = f[x] /\ (x \in S <=> x \in T)
    PROVE  Sum(g, T) = Sum(f, S) - (IF d \in S THEN f[d] ELSE 0)
                                 + (IF d \in T THEN g[d] ELSE 0)
<1> DEFINE R == S \ {d}
<1>1. R = T \ {d} /\ IsFiniteSet(S) /\ IsFiniteSet(T) /\ IsFiniteSet(R)
  BY FS_Subset
<1>2. Sum(g, R) = Sum(f, R) /\ Sum(f, R) \in Int
  BY <1>1, SumAgrees, SumUnfolds
<1>3. Sum(f, S) = (IF d \in S THEN f[d] ELSE 0) + Sum(f, R)
  <2>1. CASE d \in S
    BY <1>1, <2>1, SumWithout
  <2>2. CASE d \notin S
    <3>1. R = S
      BY <2>2
    <3> QED
      BY <1>2, <2>2, <3>1
  <2> QED
    BY <2>1, <2>2
<1>4. Sum(g, T) = (IF d \in T THEN g[d] ELSE 0) + Sum(g, R)
  <2>1. CASE d \in T
    BY <1>1, <2>1, SumWithout
  <2>2. CASE d \notin T
    <3>1. R = T
      BY <1>1, <2>2
    <3> HIDE DEF R
    <3> QED
      BY <1>2, <2>2, <3>1
  <2> QED
    BY <2>1, <2>2
<1> HIDE DEF R
<1> QED
  BY <1>2, <1>3, <1>4

\* One claim is rewritten.
Rewritten(d, c) == c \in ClaimRecords /\ claim' = [claim EXCEPT ![d] = c]

LEMMA TotalMoves ==
    ASSUME LedgerTypeOK, NEW d \in Dispatches, NEW c, Rewritten(d, c),
           NEW states, NEW f, NEW g,
           \A e \in Dispatches : f[e] \in Int /\ g[e] \in Int,
           \A e \in Dispatches : e # d => g[e] = f[e]
    PROVE  Sum(g, Claimed(states)') = Sum(f, Claimed(states)) - Part(claim[d], states, f[d])
                                                              + Part(c, states, g[d])
<1>1. Claimed(states) \in SUBSET Dispatches /\ Claimed(states)' \in SUBSET Dispatches
  BY DEF Claimed
<1>2. \A e \in Dispatches : claim'[e] = IF e = d THEN c ELSE claim[e]
  BY DEF Rewritten, LedgerTypeOK
<1>3. \A e \in Dispatches : e # d => (e \in Claimed(states) <=> e \in Claimed(states)')
  BY <1>2 DEF Claimed
<1>4. (d \in Claimed(states) <=> claim[d].state \in states)
      /\ (d \in Claimed(states)' <=> c.state \in states)
  BY <1>2 DEF Claimed
<1>5. Sum(g, Claimed(states)') = Sum(f, Claimed(states))
                                 - (IF d \in Claimed(states) THEN f[d] ELSE 0)
                                 + (IF d \in Claimed(states)' THEN g[d] ELSE 0)
  BY <1>1, <1>3, LedgerAssumption, SumMoves
<1> QED
  BY <1>4, <1>5 DEF Part

(***************************************************************************)
(* The books balance: the totals are the sums of the reservations, and     *)
(* wall time is overdrawn by overruns only.                                *)
(***************************************************************************)
Books == TotalsAgree /\ DebtIsOverrun

\* How far a step may move the totals when it rewrites claim d into c.
TotalsFollow(d, c) ==
    /\ reserved'["dispatches"] = reserved["dispatches"]
          - Part(claim[d], {"reserved"}, claim[d].units) + Part(c, {"reserved"}, c.units)
    /\ reserved'["tokens"] = reserved["tokens"]
          - Part(claim[d], {"reserved"}, claim[d].tokens) + Part(c, {"reserved"}, c.tokens)
    /\ reserved'["wall"] = reserved["wall"] - claim[d].held + c.held
    /\ consumed'["dispatches"] = consumed["dispatches"]
          - Part(claim[d], Charged, claim[d].units) + Part(c, Charged, c.units)
    /\ consumed'["tokens"] = consumed["tokens"]
          - Part(claim[d], Charged, claim[d].tokens) + Part(c, Charged, c.tokens)
    /\ consumed'["wall"] = consumed["wall"] - claim[d].wall + c.wall

LEMMA TotalsKept ==
    ASSUME LedgerTypeOK, TotalsAgree, NEW d \in Dispatches, NEW c, Rewritten(d, c),
           TotalsFollow(d, c)
    PROVE  TotalsAgree'
<1>0. LedgerTypeOK /\ c \in ClaimRecords /\ \A e \in Dispatches : claim[e] \in ClaimRecords
  BY DEF LedgerTypeOK, Rewritten
<1>1. \A e \in Dispatches : claim'[e] = IF e = d THEN c ELSE claim[e]
  BY DEF Rewritten, LedgerTypeOK
<1>2. /\ \A e \in Dispatches : UnitsOf[e] = claim[e].units /\ UnitsOf'[e] = claim'[e].units
      /\ \A e \in Dispatches : TokensOf[e] = claim[e].tokens /\ TokensOf'[e] = claim'[e].tokens
      /\ \A e \in Dispatches : HeldBy[e] = claim[e].held /\ HeldBy'[e] = claim'[e].held
      /\ \A e \in Dispatches : WallOf[e] = claim[e].wall /\ WallOf'[e] = claim'[e].wall
  BY DEF UnitsOf, TokensOf, HeldBy, WallOf
<1>3. \A e \in Dispatches :
         /\ UnitsOf[e] \in Int /\ TokensOf[e] \in Int /\ HeldBy[e] \in Int /\ WallOf[e] \in Int
         /\ UnitsOf'[e] \in Int /\ TokensOf'[e] \in Int /\ HeldBy'[e] \in Int /\ WallOf'[e] \in Int
  BY <1>0, <1>1, <1>2 DEF ClaimRecords
<1>4. /\ UnitsOf'[d] = c.units /\ TokensOf'[d] = c.tokens /\ HeldBy'[d] = c.held
      /\ WallOf'[d] = c.wall
      /\ UnitsOf[d] = claim[d].units /\ TokensOf[d] = claim[d].tokens
      /\ HeldBy[d] = claim[d].held /\ WallOf[d] = claim[d].wall
  BY <1>1, <1>2
<1>5. \A e \in Dispatches : e # d =>
         /\ UnitsOf'[e] = UnitsOf[e] /\ TokensOf'[e] = TokensOf[e]
         /\ HeldBy'[e] = HeldBy[e] /\ WallOf'[e] = WallOf[e]
  BY <1>1, <1>2
<1>6. ASSUME NEW states
      PROVE  /\ Sum(UnitsOf', Claimed(states)') = Sum(UnitsOf, Claimed(states))
                   - Part(claim[d], states, claim[d].units) + Part(c, states, c.units)
             /\ Sum(TokensOf', Claimed(states)') = Sum(TokensOf, Claimed(states))
                   - Part(claim[d], states, claim[d].tokens) + Part(c, states, c.tokens)
  BY ONLY <1>0, <1>3, <1>4, <1>5, TotalMoves, d \in Dispatches, Rewritten(d, c)
<1>7. /\ Sum(HeldBy', Dispatches) = Sum(HeldBy, Dispatches) - claim[d].held + c.held
      /\ Sum(WallOf', Dispatches) = Sum(WallOf, Dispatches) - claim[d].wall + c.wall
  BY <1>3, <1>4, <1>5, LedgerAssumption, SumMoves
<1> QED
  BY <1>6, <1>7 DEF TotalsAgree, TotalsFollow, Sum

LEMMA DebtKept ==
    ASSUME LedgerTypeOK, LedgerTypeOK', DebtIsOverrun, NEW d \in Dispatches, NEW c,
           Rewritten(d, c), ceiling' = ceiling,
           consumed'["wall"] + reserved'["wall"]
             - Part(c, Charged, Greatest(0, c.wall - c.envelope))
           <= consumed["wall"] + reserved["wall"]
             - Part(claim[d], Charged, Greatest(0, claim[d].wall - claim[d].envelope))
    PROVE  DebtIsOverrun'
<1>0. LedgerTypeOK /\ c \in ClaimRecords /\ \A e \in Dispatches : claim[e] \in ClaimRecords
  BY DEF LedgerTypeOK, Rewritten
<1>1. \A e \in Dispatches : claim'[e] = IF e = d THEN c ELSE claim[e]
  BY DEF Rewritten, LedgerTypeOK
<1>2. \A e \in Dispatches :
         /\ Overrun[e] = Greatest(0, claim[e].wall - claim[e].envelope)
         /\ Overrun'[e] = Greatest(0, claim'[e].wall - claim'[e].envelope)
  BY DEF Overrun
<1>3. \A e \in Dispatches : Overrun[e] \in Int /\ Overrun'[e] \in Int
  BY <1>0, <1>1, <1>2 DEF ClaimRecords, Greatest
<1>4. \A e \in Dispatches : e # d => Overrun'[e] = Overrun[e]
  BY <1>1, <1>2
<1>5. Sum(Overrun', Claimed(Charged)') = Sum(Overrun, Claimed(Charged))
         - Part(claim[d], Charged, Overrun[d]) + Part(c, Charged, Overrun'[d])
  BY ONLY <1>0, <1>3, <1>4, TotalMoves, d \in Dispatches, Rewritten(d, c)
<1>6. Sum(Overrun, Claimed(Charged)) \in Int
  BY <1>3, LedgerAssumption, FS_Subset, SumUnfolds DEF Claimed
<1>7. /\ Part(claim[d], Charged, Overrun[d]) \in Int /\ Part(c, Charged, Overrun'[d]) \in Int
      /\ Overrun'[d] = Greatest(0, c.wall - c.envelope)
      /\ Overrun[d] = Greatest(0, claim[d].wall - claim[d].envelope)
  BY <1>1, <1>2, <1>3 DEF Part
<1>8. /\ consumed["wall"] \in Int /\ reserved["wall"] \in Int /\ ceiling["wall"] \in Int
      /\ consumed'["wall"] \in Int /\ reserved'["wall"] \in Int
  BY DEF LedgerTypeOK, Dimensions
<1> QED
  BY <1>5, <1>6, <1>7, <1>8 DEF DebtIsOverrun, Sum

LEMMA RewriteBooks ==
    ASSUME LedgerInv, LedgerInv', Books, NEW d \in Dispatches, NEW c, Rewritten(d, c),
           TotalsFollow(d, c), ceiling' = ceiling,
           consumed'["wall"] + reserved'["wall"]
             - Part(c, Charged, Greatest(0, c.wall - c.envelope))
           <= consumed["wall"] + reserved["wall"]
             - Part(claim[d], Charged, Greatest(0, claim[d].wall - claim[d].envelope))
    PROVE  Books'
BY TotalsKept, DebtKept DEF Books, LedgerInv

LEMMA ReserveBooks ==
    ASSUME LedgerInv, LedgerInv', Books, NEW d \in Dispatches, NEW r \in Requests,
           NEW h \in Profiles \cup {None}, Reserve(d, r, h)
    PROVE  Books'
<1> DEFINE env == GrantedWall(r) * r.units
           c == [NoClaim EXCEPT !.state = "reserved", !.units = r.units,
                                !.tokens = r.units * r.tokens, !.envelope = env,
                                !.held = env, !.profile = profile]
<1>1. /\ claim' = [claim EXCEPT ![d] = c]
      /\ reserved' = [reserved EXCEPT !["dispatches"] = @ + r.units,
                                      !["tokens"] = @ + r.units * r.tokens,
                                      !["wall"] = @ + env]
      /\ UNCHANGED <<ceiling, consumed, profile>>
      /\ claim[d].state = "none"
  BY DEF Reserve
<1>2. claim'[d] = c /\ c \in ClaimRecords
  BY <1>1 DEF LedgerInv, LedgerTypeOK
<1>3. /\ c.state = "reserved" /\ c.units = r.units /\ c.tokens = r.units * r.tokens
      /\ c.held = env /\ c.wall = 0
  BY DEF NoClaim
<1>4. claim[d].held = 0 /\ claim[d].wall = 0
  <2>1. claim[d] \in ClaimRecords
    BY DEF LedgerInv, LedgerTypeOK
  <2> QED
    BY <1>1, <2>1 DEF LedgerInv, HeldAsExpected, Charged
<1>5. r.units \in Nat /\ r.units * r.tokens \in Nat /\ env \in Nat
  BY <1>2, <1>3 DEF ClaimRecords
<1>6. /\ reserved \in [Dimensions -> Int] /\ consumed \in [Dimensions -> Int]
      /\ ceiling \in [Dimensions -> Int]
  BY DEF LedgerInv, LedgerTypeOK
<1>7. env <= Left("wall")
  <2> DEFINE left == Left("wall")
             u == r.units
             share == GrantedWall(r)
  <2>1. left \in Int /\ left > 0 /\ u \in Nat /\ u > 0 /\ share \in Int /\ share <= left \div u
    <3>1. r \in RequestRecords
      BY LedgerAssumption
    <3>2. left \in Int /\ r.wall \in Int /\ u \in Nat /\ u > 0
      BY <1>6, <3>1 DEF RequestRecords, Left, Dimensions
    <3>3. left \div u \in Int
      BY <3>2
    <3> QED
      BY <3>2, <3>3, LeastGreatest DEF Reserve, HasRoom, GrantedWall
  <2> HIDE DEF left, u, share
  <2>2. (left \div u) * u <= left
    BY <2>1
  <2>3. share * u <= (left \div u) * u
    BY <2>1
  <2>4. share * u \in Int /\ (left \div u) * u \in Int
    BY <2>1
  <2> QED
    BY <2>1, <2>2, <2>3, <2>4 DEF left, u, share
<1> HIDE DEF env, c
<1>8. TotalsAgree'
  <2>1. TotalsFollow(d, c)
    BY <1>1, <1>3, <1>4, <1>5, <1>6 DEF TotalsFollow, Part, Charged, Dimensions
  <2> QED
    BY <1>1, <1>2, <2>1, TotalsKept DEF Books, LedgerInv, Rewritten
<1>9. DebtIsOverrun'
  <2>1. Sum(Overrun', Claimed(Charged)') \in Nat
    <3>1. \A e \in Dispatches : Overrun'[e] \in Nat
      BY DEF Overrun, LedgerInv, LedgerTypeOK, ClaimRecords, Greatest
    <3>2. Claimed(Charged)' \subseteq Dispatches
      BY DEF Claimed
    <3> QED
      BY <3>1, <3>2, LedgerAssumption, FS_Subset, SumUnfolds
  <2>2. consumed'["wall"] + reserved'["wall"] <= ceiling'["wall"]
    BY <1>1, <1>5, <1>6, <1>7 DEF Left, Dimensions
  <2>3. consumed'["wall"] \in Int /\ reserved'["wall"] \in Int /\ ceiling'["wall"] \in Int
    BY DEF LedgerInv, LedgerTypeOK, Dimensions
  <2> QED
    BY <2>1, <2>2, <2>3 DEF DebtIsOverrun, Sum
<1> QED
  BY <1>8, <1>9 DEF Books

LEMMA ReleaseBooks ==
    ASSUME LedgerInv, LedgerInv', Books, NEW d \in Dispatches, ReleaseNotDispatched(d)
    PROVE  Books'
<1> DEFINE c == [claim[d] EXCEPT !.held = 0, !.state = "released"]
<1>1. claim[d] \in ClaimRecords /\ reserved \in [Dimensions -> Int]
      /\ consumed \in [Dimensions -> Int] /\ claim \in [Dispatches -> ClaimRecords]
  BY DEF LedgerInv, LedgerTypeOK
<1>2. Rewritten(d, c)
  BY <1>1 DEF ReleaseNotDispatched, Rewritten, ClaimRecords, ClaimStates
<1>3. /\ c.state = "released" /\ c.held = 0 /\ c.wall = claim[d].wall /\ claim[d].state = "reserved"
      /\ c.units = claim[d].units /\ c.tokens = claim[d].tokens /\ claim[d].held \in Nat
      /\ c.wall \in Nat /\ c.units \in Nat /\ c.tokens \in Nat
  BY <1>1 DEF ClaimRecords, ReleaseNotDispatched
<1> HIDE DEF c
<1>4. TotalsFollow(d, c) /\ ceiling' = ceiling /\ consumed' = consumed
  BY <1>1, <1>3 DEF TotalsFollow, Part, Charged, Dimensions, ReleaseNotDispatched
<1>5. reserved'["wall"] = reserved["wall"] - claim[d].held
  BY <1>1 DEF ReleaseNotDispatched, Dimensions
<1>6. /\ Part(c, Charged, Greatest(0, c.wall - c.envelope)) = 0
      /\ Part(claim[d], Charged, Greatest(0, claim[d].wall - claim[d].envelope)) = 0
  BY <1>3 DEF Part, Charged
<1>7. reserved["wall"] \in Int /\ consumed["wall"] \in Int
  BY <1>1 DEF Dimensions
<1>8. consumed'["wall"] + reserved'["wall"] <= consumed["wall"] + reserved["wall"]
  BY <1>3, <1>4, <1>5, <1>7
<1>9. consumed'["wall"] + reserved'["wall"]
        - Part(c, Charged, Greatest(0, c.wall - c.envelope))
      <= consumed["wall"] + reserved["wall"]
        - Part(claim[d], Charged, Greatest(0, claim[d].wall - claim[d].envelope))
  BY <1>3, <1>4, <1>5, <1>6, <1>7
<1> QED
  BY <1>2, <1>4, <1>9, RewriteBooks

LEMMA MarkDispatchedBooks ==
    ASSUME LedgerInv, LedgerInv', Books, NEW d \in Dispatches, MarkDispatched(d)
    PROVE  Books'
<1> DEFINE c == [claim[d] EXCEPT !.state = "dispatched"]
<1>1. claim[d] \in ClaimRecords /\ reserved \in [Dimensions -> Int]
      /\ consumed \in [Dimensions -> Int] /\ claim \in [Dispatches -> ClaimRecords]
  BY DEF LedgerInv, LedgerTypeOK
<1>2. Rewritten(d, c)
  BY <1>1 DEF MarkDispatched, Rewritten, ClaimRecords, ClaimStates, Charged
<1>3. /\ c.state = "dispatched" /\ c.held = claim[d].held /\ c.wall = claim[d].wall
      /\ claim[d].state = "reserved" /\ c.envelope = claim[d].envelope
      /\ c.units = claim[d].units /\ c.tokens = claim[d].tokens /\ c.held \in Nat
      /\ c.wall \in Nat /\ c.units \in Nat /\ c.tokens \in Nat /\ c.envelope \in Nat
  BY <1>1 DEF ClaimRecords, MarkDispatched
<1> HIDE DEF c
<1>4. TotalsFollow(d, c) /\ ceiling' = ceiling
  BY <1>1, <1>3 DEF TotalsFollow, Part, Charged, Dimensions, MarkDispatched
<1>5. reserved'["wall"] = reserved["wall"] /\ consumed'["wall"] = consumed["wall"]
  BY <1>1 DEF MarkDispatched, Dimensions
<1>6. /\ Part(c, Charged, Greatest(0, c.wall - c.envelope)) \in Nat
      /\ Part(claim[d], Charged, Greatest(0, claim[d].wall - claim[d].envelope)) = 0
  BY <1>3 DEF Part, Charged, Greatest
<1>7. reserved["wall"] \in Int /\ consumed["wall"] \in Int
  BY <1>1 DEF Dimensions
<1>9. consumed'["wall"] + reserved'["wall"]
        - Part(c, Charged, Greatest(0, c.wall - c.envelope))
      <= consumed["wall"] + reserved["wall"]
        - Part(claim[d], Charged, Greatest(0, claim[d].wall - claim[d].envelope))
  BY <1>5, <1>6, <1>7
<1> QED
  BY <1>2, <1>4, <1>9, RewriteBooks

\* The books of a step that changes neither the totals nor what enters them.
LEMMA SameBooks ==
    ASSUME LedgerInv, LedgerInv', Books, NEW d \in Dispatches, NEW c, Rewritten(d, c),
           UNCHANGED <<ceiling, consumed, reserved>>,
           c.state \in Charged, claim[d].state \in Charged,
           c.units = claim[d].units, c.tokens = claim[d].tokens, c.held = claim[d].held,
           c.wall = claim[d].wall, c.envelope = claim[d].envelope
    PROVE  Books'
<1>1. claim[d] \in ClaimRecords /\ reserved \in [Dimensions -> Int]
      /\ consumed \in [Dimensions -> Int] /\ claim \in [Dispatches -> ClaimRecords]
  BY DEF LedgerInv, LedgerTypeOK
<1>2. /\ claim[d].units \in Nat /\ claim[d].tokens \in Nat /\ claim[d].held \in Nat
      /\ claim[d].wall \in Nat /\ claim[d].envelope \in Nat
  BY <1>1 DEF ClaimRecords
<1>3. TotalsFollow(d, c)
  BY <1>1, <1>2 DEF TotalsFollow, Part, Charged, Dimensions
<1>4. Part(c, Charged, Greatest(0, c.wall - c.envelope))
      = Part(claim[d], Charged, Greatest(0, claim[d].wall - claim[d].envelope))
  BY DEF Part
<1>5. /\ Part(claim[d], Charged, Greatest(0, claim[d].wall - claim[d].envelope)) \in Int
      /\ reserved["wall"] \in Int /\ consumed["wall"] \in Int
  BY <1>1, <1>2 DEF Part, Greatest, Dimensions
<1> QED
  BY <1>3, <1>4, <1>5, RewriteBooks

LEMMA MarkUnknownBooks ==
    ASSUME LedgerInv, LedgerInv', Books, NEW d \in Dispatches, MarkUnknown(d)
    PROVE  Books'
<1> DEFINE c == [claim[d] EXCEPT !.state = "unknown"]
<1>1. claim[d] \in ClaimRecords /\ claim \in [Dispatches -> ClaimRecords]
  BY DEF LedgerInv, LedgerTypeOK
<1>2. Rewritten(d, c)
  BY <1>1 DEF MarkUnknown, Rewritten, ClaimRecords, ClaimStates, Charged
<1>3. /\ c.state \in Charged /\ claim[d].state \in Charged
      /\ c.units = claim[d].units /\ c.tokens = claim[d].tokens /\ c.held = claim[d].held
      /\ c.wall = claim[d].wall /\ c.envelope = claim[d].envelope
      /\ UNCHANGED <<ceiling, consumed, reserved>>
  BY <1>1 DEF MarkUnknown, Charged, ClaimRecords
<1> HIDE DEF c
<1> QED
  BY <1>2, <1>3, SameBooks

LEMMA RecordBooks ==
    ASSUME LedgerInv, LedgerInv', Books, NEW d \in Dispatches, NEW op \in Operators,
           RecordUnresolved(d, op)
    PROVE  Books'
<1> DEFINE c == [claim[d] EXCEPT !.operator = op]
<1>1. claim[d] \in ClaimRecords /\ claim \in [Dispatches -> ClaimRecords]
  BY DEF LedgerInv, LedgerTypeOK
<1>2. Rewritten(d, c)
  BY <1>1 DEF RecordUnresolved, Rewritten, ClaimRecords
<1>3. /\ c.state \in Charged /\ claim[d].state \in Charged
      /\ c.units = claim[d].units /\ c.tokens = claim[d].tokens /\ c.held = claim[d].held
      /\ c.wall = claim[d].wall /\ c.envelope = claim[d].envelope
      /\ UNCHANGED <<ceiling, consumed, reserved>>
  BY <1>1 DEF RecordUnresolved, Charged, ClaimRecords
<1> HIDE DEF c
<1> QED
  BY <1>2, <1>3, SameBooks

(***************************************************************************)
(* A reading moves the debt by what it adds to the overrun, and a final    *)
(* one by no more.                                                         *)
(***************************************************************************)
LEMMA ReadingBooks ==
    ASSUME LedgerInv, LedgerInv', Books, NEW d \in Dispatches, NEW millis \in Nat,
           NEW w \in Receipts, Readable(d, millis, w),
           NEW c, Rewritten(d, c), c.state \in Charged,
           c.units = claim[d].units, c.tokens = claim[d].tokens, c.wall = millis,
           c.envelope = claim[d].envelope,
           c.held \in {0, claim[d].held - Covered(d, millis)},
           ceiling' = ceiling,
           reserved' = [reserved EXCEPT !["wall"] = @ - (claim[d].held - c.held)],
           consumed' = [consumed EXCEPT !["wall"] = @ + (millis - claim[d].wall)]
    PROVE  Books'
<1> DEFINE old == claim[d]
<1>1. old \in ClaimRecords /\ reserved \in [Dimensions -> Int]
      /\ consumed \in [Dimensions -> Int] /\ claim \in [Dispatches -> ClaimRecords]
  BY DEF LedgerInv, LedgerTypeOK
<1>2. /\ old.units \in Nat /\ old.tokens \in Nat /\ old.held \in Nat
      /\ old.wall \in Nat /\ old.envelope \in Nat /\ old.state \in Charged
      /\ millis >= old.wall
  BY <1>1 DEF ClaimRecords, Readable
<1>3. /\ c.held \in Nat /\ c.held <= old.held - Covered(d, millis)
      /\ Covered(d, millis) = Least(millis - old.wall, old.held)
  BY <1>2, ReadingCovers DEF Covered
<1>4. \/ old.held = Greatest(0, old.envelope - old.wall)
      \/ old.held = 0 /\ millis = old.wall
  BY <1>1 DEF LedgerInv, HeldAsExpected, Readable, Charged
<1>5. /\ reserved'["wall"] = reserved["wall"] - (old.held - c.held)
      /\ consumed'["wall"] = consumed["wall"] + (millis - old.wall)
      /\ \A k \in {"dispatches", "tokens"} : reserved'[k] = reserved[k] /\ consumed'[k] = consumed[k]
  BY <1>1 DEF Dimensions
<1>6. /\ \A k \in Dimensions : reserved[k] \in Int /\ consumed[k] \in Int
  BY <1>1
<1> HIDE DEF old
<1>7. TotalsFollow(d, c)
  <2>1. old.state \notin {"reserved"} /\ c.state \notin {"reserved"}
    BY <1>2 DEF Charged
  <2> QED
    BY <1>2, <1>3, <1>5, <1>6, <2>1 DEF TotalsFollow, Part, Dimensions, old
<1>8. /\ Part(c, Charged, Greatest(0, c.wall - c.envelope)) = Greatest(0, millis - old.envelope)
      /\ Part(old, Charged, Greatest(0, old.wall - old.envelope)) = Greatest(0, old.wall - old.envelope)
  BY <1>2 DEF Part, old
<1>9. (millis - old.wall) - (old.held - c.held) - Greatest(0, millis - old.envelope)
      <= 0 - Greatest(0, old.wall - old.envelope)
  <2> DEFINE h == old.held
             v == old.wall
             e == old.envelope
             k == c.held
  <2>1. /\ h \in Nat /\ v \in Nat /\ e \in Nat /\ millis >= v /\ k \in Nat
        /\ k <= h - Least(millis - v, h)
        /\ h = Greatest(0, e - v) \/ (h = 0 /\ millis = v)
    BY <1>2, <1>3, <1>4
  <2> HIDE DEF h, v, e, k
  <2>2. (millis - v) - (h - k) - Greatest(0, millis - e) <= 0 - Greatest(0, v - e)
    BY <2>1 DEF Least, Greatest
  <2> QED
    BY <2>2 DEF h, v, e, k
<1>10. consumed'["wall"] + reserved'["wall"]
         - Part(c, Charged, Greatest(0, c.wall - c.envelope))
       <= consumed["wall"] + reserved["wall"]
         - Part(old, Charged, Greatest(0, old.wall - old.envelope))
  <2> DEFINE G == Greatest(0, millis - old.envelope)
             F == Greatest(0, old.wall - old.envelope)
  <2>1. G \in Int /\ F \in Int
    BY <1>2 DEF Greatest
  <2>2. (millis - old.wall) - (old.held - c.held) - G <= 0 - F
    BY <1>9
  <2>3. reserved["wall"] \in Int /\ consumed["wall"] \in Int
    BY <1>6 DEF Dimensions
  <2> HIDE DEF G, F
  <2>4. consumed'["wall"] + reserved'["wall"] - G <= consumed["wall"] + reserved["wall"] - F
    BY <1>2, <1>3, <1>5, <2>1, <2>2, <2>3
  <2> QED
    BY <1>8, <2>4 DEF G, F
<1> QED
  BY <1>7, <1>10, RewriteBooks DEF old

LEMMA ObserveBooks ==
    ASSUME LedgerInv, LedgerInv', Books, NEW d \in Dispatches, NEW millis \in Nat,
           NEW w \in Receipts, ObserveWall(d, millis, w)
    PROVE  Books'
<1> DEFINE kept == claim[d].held - Covered(d, millis)
           c == [claim[d] EXCEPT !.held = kept, !.wall = millis, !.receipt = w]
<1>1. claim[d] \in ClaimRecords /\ claim \in [Dispatches -> ClaimRecords]
      /\ Readable(d, millis, w)
  BY DEF LedgerInv, LedgerTypeOK, ObserveWall
<1>2. kept \in Nat /\ Covered(d, millis) \in Nat /\ claim[d].held \in Nat
  BY <1>1, ReadingCovers DEF ClaimRecords
<1>3. Rewritten(d, c)
  <2> HIDE DEF kept
  <2>1. claim' = [claim EXCEPT ![d].held = kept, ![d].wall = millis, ![d].receipt = w]
    BY DEF ObserveWall, kept
  <2> QED
    BY <1>1, <1>2, <2>1 DEF Rewritten, ClaimRecords
<1>4. claim[d].held - kept = Covered(d, millis)
  BY <1>2
<1> HIDE DEF kept
<1>5. /\ c.state = claim[d].state /\ c.units = claim[d].units /\ c.tokens = claim[d].tokens
      /\ c.wall = millis /\ c.envelope = claim[d].envelope /\ c.held = kept
  BY <1>1 DEF ClaimRecords
<1> HIDE DEF c
<1>6. /\ reserved' = [reserved EXCEPT !["wall"] = @ - (claim[d].held - c.held)]
      /\ consumed' = [consumed EXCEPT !["wall"] = @ + (millis - claim[d].wall)]
      /\ ceiling' = ceiling
  BY <1>4, <1>5 DEF ObserveWall
<1>7. c.state \in Charged /\ c.held \in {0, claim[d].held - Covered(d, millis)}
  BY <1>1, <1>5 DEF Readable, kept
<1> QED
  BY <1>1, <1>3, <1>5, <1>6, <1>7, ReadingBooks

LEMMA SettleBooks ==
    ASSUME LedgerInv, LedgerInv', Books, NEW d \in Dispatches, NEW millis \in Nat,
           NEW w \in Receipts, NEW known \in BOOLEAN, SettleObservedWall(d, millis, w, known)
    PROVE  Books'
<1> DEFINE kept == IF known THEN 0 ELSE claim[d].held - Covered(d, millis)
           state == IF known THEN "completed" ELSE "unknown"
           c == [claim[d] EXCEPT !.held = kept, !.wall = millis, !.receipt = w,
                                 !.final = TRUE, !.state = state]
<1>1. claim[d] \in ClaimRecords /\ claim \in [Dispatches -> ClaimRecords]
      /\ Readable(d, millis, w)
  BY DEF LedgerInv, LedgerTypeOK, SettleObservedWall
<1>2. kept \in Nat /\ state \in Charged /\ kept \in {0, claim[d].held - Covered(d, millis)}
  BY <1>1, ReadingCovers DEF Charged
<1>3. /\ claim' = [claim EXCEPT ![d].held = kept, ![d].wall = millis,
                                ![d].receipt = w, ![d].final = TRUE, ![d].state = state]
      /\ reserved' = [reserved EXCEPT !["wall"] = @ - (claim[d].held - kept)]
      /\ consumed' = [consumed EXCEPT !["wall"] = @ + (millis - claim[d].wall)]
      /\ ceiling' = ceiling
  BY DEF SettleObservedWall
<1> HIDE DEF kept, state
<1>4. Rewritten(d, c)
  BY <1>1, <1>2, <1>3 DEF Rewritten, ClaimRecords, ClaimStates
<1>5. /\ c.state = state /\ c.units = claim[d].units /\ c.tokens = claim[d].tokens
      /\ c.wall = millis /\ c.envelope = claim[d].envelope /\ c.held = kept
  BY <1>1 DEF ClaimRecords
<1> HIDE DEF c
<1> QED
  BY <1>1, <1>2, <1>3, <1>4, <1>5, ReadingBooks

LEMMA ExtensionBooks ==
    ASSUME LedgerInv, Books, NEW extra \in Grants, GrantExtension(extra)
    PROVE  Books'
<1>1. TotalsAgree'
  BY DEF Books, TotalsAgree, GrantExtension, UnitsOf, TokensOf, HeldBy, WallOf, Claimed
<1>2. ceiling'["wall"] >= ceiling["wall"] /\ ceiling'["wall"] \in Int /\ ceiling["wall"] \in Int
  BY ComputeLedgerAssumption DEF GrantExtension, LedgerInv, LedgerTypeOK, Dimensions
<1>3. Sum(Overrun, Claimed(Charged)) \in Int
  <2>1. \A e \in Dispatches : Overrun[e] \in Int
    BY DEF Overrun, LedgerInv, LedgerTypeOK, ClaimRecords, Greatest
  <2> QED
    BY <2>1, LedgerAssumption, FS_Subset, SumUnfolds DEF Claimed
<1>4. /\ Sum(Overrun', Claimed(Charged)') = Sum(Overrun, Claimed(Charged))
      /\ consumed' = consumed /\ reserved' = reserved
      /\ consumed["wall"] \in Int /\ reserved["wall"] \in Int
  BY DEF GrantExtension, Overrun, Claimed, LedgerInv, LedgerTypeOK, Dimensions
<1>5. DebtIsOverrun'
  BY <1>2, <1>3, <1>4 DEF Books, DebtIsOverrun, Sum
<1> QED
  BY <1>1, <1>5 DEF Books

LEMMA InitBooks == Init => Books
<1> SUFFICES ASSUME Init PROVE Books
  OBVIOUS
<1>1. PICK limits \in Ceilings, h \in Profiles : Create(limits, h)
  BY DEF Init
<1>2. /\ Claimed({"reserved"}) = {} /\ Claimed(Charged) = {}
  BY <1>1 DEF Create, Claimed, NoClaim, Charged
<1>3. \A f : Sum(f, {}) = 0
  BY FS_EmptySet, SumUnfolds
<1>4. /\ \A e \in Dispatches : HeldBy[e] = 0 /\ WallOf[e] = 0
  BY <1>1 DEF Create, HeldBy, WallOf, NoClaim
<1>5. Sum(HeldBy, Dispatches) = 0 /\ Sum(WallOf, Dispatches) = 0
  BY <1>4, LedgerAssumption, SumOfNothing
<1>6. \A k \in Dimensions : consumed[k] = 0 /\ reserved[k] = 0 /\ ceiling[k] \in Nat
  BY <1>1, ComputeLedgerAssumption DEF Create, Nothing
<1>7. TotalsAgree
  BY <1>2, <1>3, <1>5, <1>6 DEF TotalsAgree, Sum, Dimensions
<1>8. DebtIsOverrun
  BY <1>2, <1>3, <1>6 DEF DebtIsOverrun, Sum, Dimensions
<1> QED
  BY <1>7, <1>8 DEF Books

\* Every reservation is for at least one dispatch.
EachCounts == \A d \in Dispatches : claim[d].state # "none" => claim[d].units >= 1

LEMMA CountsKept == LedgerInv /\ EachCounts /\ [Next]_ledgerVars => EachCounts'
<1> SUFFICES ASSUME LedgerInv, EachCounts, [Next]_ledgerVars PROVE EachCounts'
  OBVIOUS
<1> USE DEF EachCounts
<1>0. claim \in [Dispatches -> ClaimRecords] /\ \A e \in Dispatches : claim[e] \in ClaimRecords
  BY DEF LedgerInv, LedgerTypeOK
<1>1. ASSUME NEW d \in Dispatches, Client(d) PROVE EachCounts'
  <2>1. ASSUME NEW r \in Requests, NEW h \in Profiles \cup {None}, Reserve(d, r, h)
        PROVE  claim'[d].units >= 1
    <3>1. claim'[d].units = r.units
      BY <1>0, <2>1 DEF Reserve, NoClaim
    <3> QED
      BY <3>1, LedgerAssumption DEF RequestRecords
  <2>2. CASE \E r \in Requests, h \in Profiles \cup {None} : Reserve(d, r, h)
    BY <1>0, <2>1, <2>2 DEF Reserve
  <2>3. CASE ReleaseNotDispatched(d)
    BY <1>0, <2>3 DEF ReleaseNotDispatched, ClaimRecords
  <2>4. CASE MarkDispatched(d)
    BY <1>0, <2>4 DEF MarkDispatched, ClaimRecords
  <2>5. CASE MarkUnknown(d)
    BY <1>0, <2>5 DEF MarkUnknown, ClaimRecords
  <2>6. CASE \E millis \in Readings, w \in Receipts : ObserveWall(d, millis, w)
    BY <1>0, <2>6 DEF ObserveWall, ClaimRecords
  <2>7. CASE \E millis \in Readings, w \in Receipts, known \in BOOLEAN :
                SettleObservedWall(d, millis, w, known)
    BY <1>0, <2>7 DEF SettleObservedWall, Readable, Charged, ClaimRecords
  <2>8. CASE \E op \in Operators : RecordUnresolved(d, op)
    BY <1>0, <2>8 DEF RecordUnresolved, ClaimRecords
  <2> QED
    BY <1>1, <2>2, <2>3, <2>4, <2>5, <2>6, <2>7, <2>8 DEF Client
<1>2. ASSUME UNCHANGED claim PROVE EachCounts'
  BY <1>2
<1> QED
  BY <1>1, <1>2 DEF Next, GrantExtension, ReconfigureProfile, ledgerVars

\* So no more requests are promised or charged than the dispatches given out.
LEMMA ClaimsCounted ==
    ASSUME LedgerInv, TotalsAgree, EachCounts
    PROVE  Cardinality(Claimed({"reserved"} \cup Charged))
              <= reserved["dispatches"] + consumed["dispatches"]
<1> DEFINE R == Claimed({"reserved"})
           C == Claimed(Charged)
<1>1. /\ R \in SUBSET Dispatches /\ C \in SUBSET Dispatches
      /\ R \cap C = {} /\ Claimed({"reserved"} \cup Charged) = R \cup C
  BY DEF Claimed, Charged
<1>2. IsFiniteSet(R) /\ IsFiniteSet(C)
  BY <1>1, LedgerAssumption, FS_Subset
<1>3. \A e \in R \cup C : UnitsOf[e] \in Int /\ UnitsOf[e] >= 1
  BY DEF UnitsOf, EachCounts, Claimed, Charged, LedgerInv, LedgerTypeOK, ClaimRecords
<1> HIDE DEF R, C
<1>4. Sum(UnitsOf, R) >= Cardinality(R) /\ Sum(UnitsOf, C) >= Cardinality(C)
  BY <1>2, <1>3, SumCounts
<1>5. Cardinality(R \cup C) = Cardinality(R) + Cardinality(C) - Cardinality(R \cap C)
  BY <1>2, FS_Union
<1>6. Cardinality(R \cap C) = 0 /\ Cardinality(R) \in Nat /\ Cardinality(C) \in Nat
  BY <1>1, <1>2, FS_EmptySet, FS_CardinalityType
<1>7. Sum(UnitsOf, R) \in Int /\ Sum(UnitsOf, C) \in Int
  BY <1>2, <1>3, SumUnfolds
<1>8. reserved["dispatches"] = Sum(UnitsOf, R) /\ consumed["dispatches"] = Sum(UnitsOf, C)
  BY DEF TotalsAgree, Sum, R, C
<1> DEFINE r == Cardinality(R)
           c == Cardinality(C)
           sr == Sum(UnitsOf, R)
           sc == Sum(UnitsOf, C)
<1>9. r \in Int /\ c \in Int /\ sr \in Int /\ sc \in Int /\ sr >= r /\ sc >= c
  BY <1>4, <1>6, <1>7
<1>10. Cardinality(Claimed({"reserved"} \cup Charged)) = r + c - Cardinality(R \cap C)
  BY <1>1, <1>5 DEF R, C
<1>11. Cardinality(Claimed({"reserved"} \cup Charged)) = r + c
  BY <1>6, <1>9, <1>10
<1>12. r + c <= sr + sc
  <2> HIDE DEF r, c, sr, sc
  <2> QED
    BY <1>9
<1> QED
  BY <1>8, <1>11, <1>12

(***************************************************************************)
(* The full inductive invariant of the ledger.                             *)
(***************************************************************************)
BalancedInv == LedgerInv /\ Books /\ EachCounts

LEMMA InitBalanced == Init => BalancedInv
<1> SUFFICES ASSUME Init PROVE BalancedInv
  OBVIOUS
<1>1. EachCounts
  BY DEF Init, Create, EachCounts, NoClaim
<1> QED
  BY <1>1, InitInv, InitBooks DEF BalancedInv

LEMMA NextBalanced == BalancedInv /\ [Next]_ledgerVars => BalancedInv'
<1> SUFFICES ASSUME BalancedInv, [Next]_ledgerVars PROVE BalancedInv'
  OBVIOUS
<1> USE ComputeLedgerAssumption
<1>0. LedgerInv /\ Books /\ LedgerInv'
  <2>1. LedgerInv /\ Books
    BY DEF BalancedInv
  <2> QED
    BY <2>1, NextInv
<1>1. ASSUME NEW d \in Dispatches, Client(d) PROVE Books'
  BY <1>0, <1>1, ReserveBooks, ReleaseBooks, MarkDispatchedBooks, MarkUnknownBooks,
     ObserveBooks, SettleBooks, RecordBooks DEF Client
<1>2. ASSUME NEW extra \in Grants, GrantExtension(extra) PROVE Books'
  BY <1>0, <1>2, ExtensionBooks
<1>3. ASSUME UNCHANGED <<ceiling, consumed, reserved, claim>> PROVE Books'
  BY <1>0, <1>3 DEF Books, TotalsAgree, DebtIsOverrun, UnitsOf, TokensOf, HeldBy, WallOf,
                    Overrun, Claimed
<1>4. ASSUME NEW h \in Profiles, ReconfigureProfile(h) PROVE Books'
  BY <1>3, <1>4 DEF ReconfigureProfile
<1>5. ASSUME UNCHANGED ledgerVars PROVE Books'
  BY <1>3, <1>5 DEF ledgerVars
<1>6. Books'
  BY <1>1, <1>2, <1>4, <1>5 DEF Next
<1>7. EachCounts'
  BY CountsKept DEF BalancedInv
<1> QED
  BY <1>0, <1>6, <1>7 DEF BalancedInv

LEMMA AlwaysBalanced == Spec => []BalancedInv
<1> QED
  BY InitBalanced, NextBalanced, PTL DEF Spec

(***************************************************************************)
(* No sequence of calls leaves a ledger that _validate_inner rejects: the  *)
(* totals are the sums of the reservations, and each holds what it should. *)
(***************************************************************************)
THEOREM LedgerValid == Spec => []ValidLedger
<1>1. BalancedInv => ValidLedger
  BY DEF BalancedInv, Books, LedgerInv, ValidLedger
<1> QED
  BY <1>1, AlwaysBalanced, PTL

(***************************************************************************)
(* Wall time is overdrawn by requests that ran longer than they were       *)
(* granted and by nothing else.                                            *)
(***************************************************************************)
THEOREM LedgerDebt == Spec => []DebtIsOverrun
<1>1. BalancedInv => DebtIsOverrun
  BY DEF BalancedInv, Books
<1> QED
  BY <1>1, AlwaysBalanced, PTL

(***************************************************************************)
(* The ledger's records stay well formed.                                  *)
(***************************************************************************)
THEOREM LedgerTyped == Spec => []LedgerTypeOK
<1>1. LedgerInv => LedgerTypeOK
  BY DEF LedgerInv
<1> QED
  BY <1>1, AlwaysInv, PTL

(***************************************************************************)
(* What every reservation holds is what _validate_inner expects of it.     *)
(***************************************************************************)
THEOREM LedgerHolds == Spec => []HeldAsExpected
<1>1. LedgerInv => HeldAsExpected
  BY DEF LedgerInv
<1> QED
  BY <1>1, AlwaysInv, PTL

(***************************************************************************)
(* The run never gives out more dispatches or tokens than it was given.    *)
(***************************************************************************)
THEOREM LedgerBounded == Spec => []NoOvercommit
<1>1. LedgerInv => NoOvercommit
  BY DEF LedgerInv
<1> QED
  BY <1>1, AlwaysInv, PTL

(***************************************************************************)
(* What one step takes from a claim and from the totals: nothing charged   *)
(* comes back, and nothing final moves.                                    *)
(***************************************************************************)
LEMMA ClientKeeps ==
    ASSUME LedgerInv, NEW d \in Dispatches, Client(d)
    PROVE  /\ ceiling' = ceiling
           /\ \A k \in Dimensions : consumed'[k] >= consumed[k]
           /\ \A e \in Dispatches : e # d => claim'[e] = claim[e]
           /\ claim[d].state \in Charged =>
                 /\ claim'[d].state \in Charged
                 /\ claim'[d].units = claim[d].units
                 /\ claim'[d].tokens = claim[d].tokens
           /\ claim[d].final =>
                 /\ claim'[d].final
                 /\ claim'[d].wall = claim[d].wall
                 /\ claim'[d].receipt = claim[d].receipt
                 /\ claim[d].state = "completed" => claim'[d].state = "completed"
<1>1. claim[d] \in ClaimRecords /\ claim \in [Dispatches -> ClaimRecords]
      /\ consumed \in [Dimensions -> Nat]
  BY DEF LedgerInv, LedgerTypeOK
<1>2. claim[d].final => claim[d].state \in Charged
  BY DEF LedgerInv, HeldAsExpected
<1>0. claim[d].final => claim[d].receipt # None
  BY DEF LedgerInv, FinalHasClock
<1>3. CASE \E r \in Requests, h \in Profiles \cup {None} : Reserve(d, r, h)
  BY <1>1, <1>2, <1>3 DEF Reserve, Charged
<1>4. CASE ReleaseNotDispatched(d)
  BY <1>1, <1>2, <1>4 DEF ReleaseNotDispatched, Charged
<1>5. CASE MarkDispatched(d)
  BY <1>1, <1>2, <1>5 DEF MarkDispatched, Charged, ClaimRecords, Dimensions
<1>6. CASE MarkUnknown(d)
  BY <1>1, <1>6 DEF MarkUnknown, Charged, ClaimRecords
<1>7. CASE \E millis \in Readings, w \in Receipts : ObserveWall(d, millis, w)
  BY <1>0, <1>1, <1>7, ComputeLedgerAssumption
  DEF ObserveWall, Readable, Charged, ClaimRecords, Dimensions
<1>8. CASE \E millis \in Readings, w \in Receipts, known \in BOOLEAN :
              SettleObservedWall(d, millis, w, known)
  BY <1>0, <1>1, <1>8, ComputeLedgerAssumption
  DEF SettleObservedWall, Readable, Charged, ClaimRecords, Dimensions
<1>9. CASE \E op \in Operators : RecordUnresolved(d, op)
  BY <1>1, <1>9 DEF RecordUnresolved, Charged, ClaimRecords
<1> QED
  BY <1>3, <1>4, <1>5, <1>6, <1>7, <1>8, <1>9 DEF Client

(***************************************************************************)
(* After mark_dispatched neither side refunds the envelope.                *)
(***************************************************************************)
THEOREM LedgerNoRefund == Spec => NoRefund
<1> DEFINE Kept == /\ \A k \in Dimensions : consumed'[k] >= consumed[k] /\ ceiling'[k] >= ceiling[k]
                   /\ \A d \in Dispatches : claim[d].state \in Charged =>
                         /\ claim'[d].state \in Charged
                         /\ claim'[d].units = claim[d].units
                         /\ claim'[d].tokens = claim[d].tokens
<1>1. LedgerInv /\ [Next]_ledgerVars => [Kept]_ledgerVars
  <2> SUFFICES ASSUME LedgerInv, Next PROVE Kept
    OBVIOUS
  <2>1. consumed \in [Dimensions -> Nat] /\ ceiling \in [Dimensions -> Nat]
    BY DEF LedgerInv, LedgerTypeOK
  <2>2. ASSUME NEW d \in Dispatches, Client(d) PROVE Kept
    BY <2>1, <2>2, ClientKeeps
  <2>3. ASSUME NEW extra \in Grants, GrantExtension(extra) PROVE Kept
    BY <2>1, <2>3, ComputeLedgerAssumption DEF GrantExtension
  <2>4. ASSUME NEW h \in Profiles, ReconfigureProfile(h) PROVE Kept
    BY <2>1, <2>4 DEF ReconfigureProfile
  <2> QED
    BY <2>2, <2>3, <2>4 DEF Next
<1> QED
  BY <1>1, AlwaysInv, PTL DEF Spec, NoRefund

(***************************************************************************)
(* A final measurement and a known completion stand for ever.              *)
(***************************************************************************)
THEOREM LedgerFinalStands == Spec => FinalStands
<1> DEFINE Stands == \A d \in Dispatches : claim[d].final =>
                        /\ claim'[d].final
                        /\ claim'[d].wall = claim[d].wall
                        /\ claim'[d].receipt = claim[d].receipt
                        /\ claim[d].state = "completed" => claim'[d].state = "completed"
<1>1. LedgerInv /\ [Next]_ledgerVars => [Stands]_ledgerVars
  <2> SUFFICES ASSUME LedgerInv, Next PROVE Stands
    OBVIOUS
  <2>1. ASSUME NEW d \in Dispatches, Client(d) PROVE Stands
    BY <2>1, ClientKeeps
  <2>2. ASSUME NEW extra \in Grants, GrantExtension(extra) PROVE Stands
    BY <2>2 DEF GrantExtension
  <2>3. ASSUME NEW h \in Profiles, ReconfigureProfile(h) PROVE Stands
    BY <2>3 DEF ReconfigureProfile
  <2> QED
    BY <2>1, <2>2, <2>3 DEF Next
<1> QED
  BY <1>1, AlwaysInv, PTL DEF Spec, FinalStands

=============================================================================
