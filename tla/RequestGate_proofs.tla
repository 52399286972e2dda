-------------------------- MODULE RequestGate_proofs --------------------------
(***************************************************************************)
(* The gate's safety for every finite set of calls.  The four invariants   *)
(* that are checked support each other: the counters speak for the calls,  *)
(* so what a predicate reads is what the calls do.  Only one fact has to   *)
(* be added: the owner of a negotiation has got past waiting for one.      *)
(***************************************************************************)
EXTENDS RequestGate, FiniteSetTheorems, TLAPS

Negotiating ==
    negotiator # None => pc[negotiator] \in AtGate \cup Holding \cup {"left"}

GateInv ==
    /\ GateTypeOK /\ CountsAgree /\ Isolated
    /\ NoLostWakeup /\ OneProbe /\ Negotiating

\* The two halves of NoLostWakeup.
Alert == \A w \in Calls : pc[w] = "asleep" => ~Open(ask[w].exclusive)

Heard == \A w \in Calls : pc[w] = "pending" => negotiator \notin {None, w}

LEMMA WakeupHalves == NoLostWakeup <=> Alert /\ Heard
BY DEF NoLostWakeup, Alert, Heard

(***************************************************************************)
(* Counting: two sets that differ at most in `c`.                          *)
(***************************************************************************)
Grows(S, T, c) == c \notin S /\ c \in T
Shrinks(S, T, c) == c \in S /\ c \notin T

LEMMA Countable ==
    ASSUME NEW S \in SUBSET Calls
    PROVE  IsFiniteSet(S) /\ Cardinality(S) \in Nat
BY GateAssumption, FS_Subset, FS_CardinalityType

LEMMA CountOneMove ==
    ASSUME NEW S \in SUBSET Calls, NEW T \in SUBSET Calls, NEW c \in Calls,
           S \ {c} = T \ {c}
    PROVE  /\ Grows(S, T, c) => Cardinality(T) = Cardinality(S) + 1
           /\ Shrinks(S, T, c) => Cardinality(T) = Cardinality(S) - 1
           /\ ~Grows(S, T, c) /\ ~Shrinks(S, T, c) => T = S
<1>1. IsFiniteSet(S) /\ IsFiniteSet(T)
  BY Countable
<1>2. CASE Grows(S, T, c)
  <2>1. T = S \cup {c}
    BY <1>2 DEF Grows
  <2> QED
    BY <1>1, <1>2, <2>1, FS_AddElement DEF Grows, Shrinks
<1>3. CASE Shrinks(S, T, c)
  <2>1. T = S \ {c}
    BY <1>3 DEF Shrinks
  <2> QED
    BY <1>1, <1>3, <2>1, FS_RemoveElement DEF Grows, Shrinks
<1>4. CASE ~Grows(S, T, c) /\ ~Shrinks(S, T, c)
  BY <1>4 DEF Grows, Shrinks
<1> QED
  BY <1>2, <1>3, <1>4

(***************************************************************************)
(* A step of one call leaves the others where they are, except that it may *)
(* wake sleepers and answer those that await its negotiation.              *)
(***************************************************************************)
Beside(c) ==
    \A w \in Calls \ {c} :
        /\ ask'[w] = ask[w]
        /\ pc'[w] \in Holding <=> pc[w] \in Holding
        /\ pc'[w] \in AtGate <=> pc[w] \in AtGate

\* How the counted sets change.
Moves(S, T, c) ==
    /\ Grows(S, T, c) => Cardinality(T) = Cardinality(S) + 1
    /\ Shrinks(S, T, c) => Cardinality(T) = Cardinality(S) - 1
    /\ ~Grows(S, T, c) /\ ~Shrinks(S, T, c) => T = S
    /\ T \ {c} = S \ {c}

LEMMA CountsMove ==
    ASSUME NEW c \in Calls, Beside(c)
    PROVE  /\ Moves(Inside(TRUE), Inside(TRUE)', c)
           /\ Moves(Inside(FALSE), Inside(FALSE)', c)
           /\ Moves(Waiting, Waiting', c)
<1>1. Inside(TRUE)' \ {c} = Inside(TRUE) \ {c} /\ Inside(FALSE)' \ {c} = Inside(FALSE) \ {c}
  BY DEF Inside, Beside
<1>2. Waiting' \ {c} = Waiting \ {c}
  BY DEF Waiting, Beside
<1>3. /\ Inside(TRUE) \in SUBSET Calls /\ Inside(TRUE)' \in SUBSET Calls
      /\ Inside(FALSE) \in SUBSET Calls /\ Inside(FALSE)' \in SUBSET Calls
  BY DEF Inside
<1>4. Waiting \in SUBSET Calls /\ Waiting' \in SUBSET Calls
  BY DEF Waiting
<1>5. Moves(Inside(TRUE), Inside(TRUE)', c)
  BY <1>1, <1>3, CountOneMove DEF Moves
<1>6. Moves(Inside(FALSE), Inside(FALSE)', c)
  BY <1>1, <1>3, CountOneMove DEF Moves
<1>7. Moves(Waiting, Waiting', c)
  BY <1>2, <1>4, CountOneMove DEF Moves
<1> QED
  BY <1>5, <1>6, <1>7

(***************************************************************************)
(* Entering.                                                               *)
(***************************************************************************)
\* The gate is open exactly when no holder and no waiting call keeps it shut.
LEMMA OpenMeans ==
    ASSUME GateInv
    PROVE  /\ Open(TRUE) => Inside(TRUE) = {} /\ Inside(FALSE) = {}
           /\ Open(FALSE) => Inside(TRUE) = {} /\ Waiting = {}
<1>1. /\ IsFiniteSet(Inside(FALSE)) /\ IsFiniteSet(Waiting)
  BY Countable DEF Inside, Waiting
<1> QED
  BY <1>1, FS_EmptySet DEF GateInv, CountsAgree, Open

\* The gate's own part of the invariant after a step.
GateSide ==
    /\ readers' \in Nat /\ writer' \in BOOLEAN /\ writersWaiting' \in Nat
    /\ CountsAgree' /\ Isolated' /\ Alert'

LEMMA EnterSharedInv ==
    ASSUME GateInv, NEW c \in Calls, pc[c] \notin Holding,
           ask' \in [Calls -> Asks], ~ask'[c].exclusive,
           \A w \in Calls \ {c} : ask'[w] = ask[w],
           pc[c] \in AtGate => ask'[c] = ask[c],
           EnterShared(c)
    PROVE  GateSide
<1>1. /\ pc' = [pc EXCEPT ![c] = "inside"] /\ pc \in [Calls -> Places]
      /\ Open(FALSE) /\ readers' = readers + 1
      /\ writer' = writer /\ writersWaiting' = writersWaiting
      /\ readers \in Nat /\ writer \in BOOLEAN /\ writersWaiting \in Nat
  BY DEF EnterShared, Move, GateInv, GateTypeOK
<1>2. Inside(TRUE) = {} /\ Waiting = {} /\ ~writer
  BY <1>1, OpenMeans DEF Open
<1>3. Beside(c)
  BY <1>1 DEF Beside
<1>4. /\ Moves(Inside(TRUE), Inside(TRUE)', c)
      /\ Moves(Inside(FALSE), Inside(FALSE)', c)
      /\ Moves(Waiting, Waiting', c)
  BY <1>3, CountsMove
<1>5. /\ Grows(Inside(FALSE), Inside(FALSE)', c)
      /\ c \notin Inside(TRUE)' /\ c \notin Waiting'
  BY <1>1 DEF Inside, Waiting, Holding, AtGate, Grows, GateInv, GateTypeOK, Asks
<1>6. Inside(TRUE)' = {} /\ Waiting' = {}
  BY <1>2, <1>4, <1>5 DEF Moves
<1>7. CountsAgree'
  BY <1>1, <1>2, <1>4, <1>5, <1>6 DEF Moves, CountsAgree, GateInv
<1>8. Isolated'
  <2>1. \A v \in Calls : pc'[v] \in Holding => ~ask'[v].exclusive
    BY <1>6 DEF Inside, Asks
  <2> QED
    BY <2>1 DEF Isolated
<1>9. ASSUME NEW w \in Calls, pc'[w] = "asleep"
      PROVE  ~Open(ask[w].exclusive)'
  <2>1. w # c /\ pc[w] = "asleep" /\ ask'[w] = ask[w]
    BY <1>1, <1>9
  <2>2. ask[w].exclusive \in BOOLEAN /\ ~Open(ask[w].exclusive)
    BY <2>1 DEF GateInv, NoLostWakeup, GateTypeOK, Asks
  <2>3. ~ask[w].exclusive
    BY <1>2, <2>1 DEF Waiting, AtGate
  <2> QED
    BY <1>1, <2>2, <2>3
<1> QED
  BY <1>1, <1>7, <1>8, <1>9 DEF GateSide, Alert

LEMMA EnterExclusiveInv ==
    ASSUME GateInv, NEW c \in Calls, pc[c] \notin Holding,
           ask' \in [Calls -> Asks], ask'[c].exclusive,
           \A w \in Calls \ {c} : ask'[w] = ask[w],
           pc[c] \in AtGate => ask'[c] = ask[c],
           NEW waiting, EnterExclusive(c, waiting),
           waiting = IF pc[c] \in AtGate THEN writersWaiting - 1 ELSE writersWaiting
    PROVE  GateSide
<1>1. /\ pc' = [pc EXCEPT ![c] = "inside"] /\ pc \in [Calls -> Places]
      /\ Open(TRUE) /\ readers' = readers /\ writer' = TRUE /\ writersWaiting' = waiting
      /\ readers \in Nat /\ writersWaiting \in Nat
  BY DEF EnterExclusive, Move, GateInv, GateTypeOK
<1>2. Inside(TRUE) = {} /\ Inside(FALSE) = {}
  BY <1>1, OpenMeans
<1>3. Beside(c)
  BY <1>1 DEF Beside
<1>4. /\ Moves(Inside(TRUE), Inside(TRUE)', c)
      /\ Moves(Inside(FALSE), Inside(FALSE)', c)
      /\ Moves(Waiting, Waiting', c)
  BY <1>3, CountsMove
<1>5. c \in Inside(TRUE)' /\ c \notin Inside(FALSE)' /\ c \notin Waiting'
  BY <1>1 DEF Inside, Waiting, Holding, AtGate
<1>6. Inside(FALSE)' = {}
  BY <1>2, <1>4, <1>5 DEF Moves
<1>7. Cardinality(Waiting)' = writersWaiting'
  <2>1. CASE pc[c] \in AtGate
    <3>1. Shrinks(Waiting, Waiting', c)
      BY <1>5, <2>1 DEF Waiting, Shrinks
    <3> QED
      BY <1>1, <1>4, <2>1, <3>1 DEF Moves, CountsAgree, GateInv
  <2>2. CASE pc[c] \notin AtGate
    <3>1. ~Grows(Waiting, Waiting', c) /\ ~Shrinks(Waiting, Waiting', c)
      BY <1>5, <2>2 DEF Waiting, Shrinks, Grows
    <3> QED
      BY <1>1, <1>4, <2>2, <3>1 DEF Moves, CountsAgree, GateInv
  <2> QED
    BY <2>1, <2>2
<1>8. CountsAgree' /\ writersWaiting' \in Nat
  <2>1. Waiting' \in SUBSET Calls
    BY DEF Waiting
  <2>2. readers = 0
    BY <1>1 DEF Open
  <2>3. Cardinality(Inside(FALSE)') = 0
    BY <1>6, FS_EmptySet
  <2> QED
    BY <1>1, <1>5, <1>7, <2>1, <2>2, <2>3, Countable DEF CountsAgree
<1>9. Isolated'
  <2>1. \A v \in Calls : pc'[v] \in Holding => v = c
    <3> SUFFICES ASSUME NEW v \in Calls, v # c, pc'[v] \in Holding
                 PROVE  FALSE
      OBVIOUS
    <3>1. v \in Inside(TRUE) \/ v \in Inside(FALSE)
      BY <1>1 DEF Inside, GateInv, GateTypeOK, Asks
    <3> QED
      BY <1>2, <3>1
  <2> QED
    BY <2>1 DEF Isolated
<1>10. \A w \in Calls : ~Open(ask[w].exclusive)'
  BY <1>1 DEF Open
<1> QED
  BY <1>1, <1>8, <1>9, <1>10 DEF GateSide, Alert

(***************************************************************************)
(* Steps that do not touch the gate.                                       *)
(***************************************************************************)
LEMMA IsolatedKept ==
    ASSUME GateInv, ask' \in [Calls -> Asks],
           Inside(TRUE)' \subseteq Inside(TRUE), Inside(FALSE)' \subseteq Inside(FALSE)
    PROVE  Isolated'
<1> SUFFICES ASSUME NEW v \in Calls, NEW w \in Calls, v # w,
                    pc'[v] \in Holding, pc'[w] \in Holding, ask'[v].exclusive
             PROVE  FALSE
  BY DEF Isolated
<1>1. v \in Inside(TRUE)
  BY DEF Inside, Asks
<1>2. w \in Inside(TRUE) \/ w \in Inside(FALSE)
  BY DEF Inside, Asks
<1> QED
  BY <1>1, <1>2 DEF GateInv, Isolated, Inside

LEMMA GateUntouched ==
    ASSUME GateInv, NEW c \in Calls, Beside(c), UNCHANGED gateVars,
           ask' \in [Calls -> Asks],
           pc'[c] \in Holding <=> pc[c] \in Holding,
           pc'[c] \in AtGate <=> pc[c] \in AtGate,
           pc[c] \in Holding \cup AtGate => ask'[c].exclusive = ask[c].exclusive,
           \A w \in Calls \ {c} : pc'[w] = "asleep" => pc[w] = "asleep",
           pc'[c] = "asleep" => ~Open(ask'[c].exclusive)
    PROVE  GateSide
<1>1. /\ Inside(TRUE)' = Inside(TRUE) /\ Inside(FALSE)' = Inside(FALSE)
      /\ Waiting' = Waiting
  BY DEF Inside, Waiting, Beside
<1>2. CountsAgree'
  BY <1>1 DEF CountsAgree, GateInv, gateVars
<1>3. Isolated'
  BY <1>1, IsolatedKept
<1>4. ASSUME NEW w \in Calls, pc'[w] = "asleep"
      PROVE  ~Open(ask[w].exclusive)'
  <2>1. ~Open(ask'[w].exclusive)
    <3>1. CASE w = c
      BY <1>4, <3>1
    <3>2. CASE w # c
      BY <1>4, <3>2 DEF GateInv, NoLostWakeup, Beside
    <3> QED
      BY <3>1, <3>2
  <2> QED
    BY <2>1 DEF Open, gateVars
<1> QED
  BY <1>2, <1>3, <1>4 DEF GateSide, Alert, GateInv, GateTypeOK, gateVars

(***************************************************************************)
(* The negotiation's part of the invariant.                                *)
(***************************************************************************)
Beyond == AtGate \cup Holding \cup {"left"}

TalkSide ==
    /\ negotiator' \in Calls \cup {None} /\ known' \in BOOLEAN
    /\ Heard' /\ OneProbe' /\ Negotiating'

\* A step that ends no call and begins none.
LEMMA TalkUntouched ==
    ASSUME GateInv, NEW c \in Calls, UNCHANGED negotiator,
           known' \in BOOLEAN, known => known',
           pc[c] \in Beyond, pc'[c] \in Beyond, ask'[c].off = ask[c].off,
           \A w \in Calls \ {c} :
              /\ ask'[w] = ask[w]
              /\ pc'[w] = pc[w] \/ (pc[w] = "asleep" /\ pc'[w] = "awake")
    PROVE  TalkSide
<1>1. \A w \in Calls : /\ ask'[w].off = ask[w].off
                       /\ pc'[w] \in Beyond <=> pc[w] \in Beyond
                       /\ pc'[w] = "pending" => pc[w] = "pending"
  BY DEF Beyond, AtGate, Holding
<1>2. Heard'
  BY <1>1 DEF Heard, GateInv, NoLostWakeup
<1>3. OneProbe'
  BY <1>1 DEF OneProbe, Beyond, GateInv
<1>4. Negotiating'
  BY <1>1 DEF Negotiating, Beyond, GateInv, GateTypeOK
<1> QED
  BY <1>2, <1>3, <1>4 DEF TalkSide, GateInv, GateTypeOK

LEMMA EndTalks ==
    ASSUME GateInv, NEW c \in Calls, NEW at, End(c, at),
           known' \in BOOLEAN, known => known',
           \A w \in Calls : at[w] = pc[w] \/ (pc[w] = "asleep" /\ at[w] = "awake")
    PROVE  /\ TalkSide
           /\ pc' \in [Calls -> Places] /\ pc'[c] = "out"
           /\ ask' \in [Calls -> Asks]
           /\ \A w \in Calls \ {c} :
                 /\ ask'[w] = ask[w]
                 /\ pc'[w] = at[w] \/ (pc[w] = "pending" /\ pc'[w] = "answered")
<1>1. ask' \in [Calls -> Asks] /\ \A w \in Calls \ {c} : ask'[w] = ask[w]
  BY DEF End, NoAsk, Asks, GateInv, GateTypeOK
<1>2. /\ pc'[c] = "out"
      /\ \A w \in Calls \ {c} :
            pc'[w] = IF negotiator = c /\ at[w] = "pending" THEN "answered" ELSE at[w]
  BY DEF End
<1>3. pc' \in [Calls -> Places]
  <2>1. \A w \in Calls : pc'[w] \in Places
    BY <1>2 DEF Places, AtGate, GateInv, GateTypeOK
  <2> QED
    BY <2>1 DEF End
<1>4. /\ \A w \in Calls \ {c} : pc'[w] \in Beyond <=> pc[w] \in Beyond
      /\ \A w \in Calls : pc'[w] = "pending" => pc[w] = "pending" /\ w # c /\ negotiator # c
  BY <1>2 DEF Beyond, AtGate, Holding
<1>5. negotiator' = IF negotiator = c THEN None ELSE negotiator
  BY DEF End
<1>6. Heard'
  BY <1>4, <1>5 DEF Heard, GateInv, NoLostWakeup
<1>7. OneProbe'
  <2> SUFFICES ASSUME ~known', NEW w \in Calls, ask'[w].off, pc'[w] \in Beyond
               PROVE  negotiator' = w
    BY DEF OneProbe, Beyond
  <2>1. w # c
    BY <1>2 DEF Beyond, AtGate, Holding
  <2>2. negotiator = w
    BY <1>1, <1>4, <2>1 DEF OneProbe, Beyond, GateInv
  <2> QED
    BY <1>5, <2>1, <2>2
<1>8. Negotiating'
  BY <1>4, <1>5 DEF Negotiating, Beyond, GateInv, GateTypeOK
<1>9. negotiator' \in Calls \cup {None}
  BY <1>5 DEF GateInv, GateTypeOK
<1>10. \A w \in Calls \ {c} : pc'[w] = at[w] \/ (pc[w] = "pending" /\ pc'[w] = "answered")
  BY <1>2
<1> QED
  BY <1>1, <1>2, <1>3, <1>6, <1>7, <1>8, <1>9, <1>10 DEF TalkSide

\* A call that goes to the gate, perhaps as the owner of a negotiation.
LEMMA BeginTalks ==
    ASSUME GateInv, NEW c \in Calls, pc[c] \in {"out", "answered"}, UNCHANGED known,
           \A w \in Calls \ {c} : ask'[w] = ask[w] /\ pc'[w] = pc[w],
           pc'[c] \in Beyond,
           ~Undiscovered(ask'[c].off) \/ negotiator = None,
           negotiator' = IF Undiscovered(ask'[c].off) THEN c ELSE negotiator
    PROVE  TalkSide
<1>1. negotiator # c
  BY GateAssumption DEF Negotiating, AtGate, Holding, GateInv
<1>2. None \notin Calls
  BY GateAssumption
<1>3. CASE Undiscovered(ask'[c].off)
  <2>1. negotiator = None /\ negotiator' = c /\ ~known
    BY <1>3 DEF Undiscovered
  <2>2. \A w \in Calls \ {c} : ~(ask[w].off /\ pc[w] \in Beyond)
    BY <1>2, <2>1 DEF OneProbe, Beyond, GateInv
  <2>3. \A w \in Calls : pc'[w] # "pending"
    BY <2>1 DEF Beyond, AtGate, Holding, NoLostWakeup, GateInv
  <2> QED
    BY <2>1, <2>2, <2>3
    DEF TalkSide, Heard, OneProbe, Negotiating, Beyond, GateInv, GateTypeOK
<1>4. CASE ~Undiscovered(ask'[c].off)
  <2>1. negotiator' = negotiator /\ (ask'[c].off => known)
    BY <1>4 DEF Undiscovered
  <2>2. Heard'
    BY <2>1 DEF Heard, Beyond, AtGate, Holding, NoLostWakeup, GateInv
  <2>3. OneProbe'
    BY <2>1 DEF OneProbe, GateInv
  <2>4. Negotiating'
    BY <1>1, <2>1 DEF Negotiating, GateInv, GateTypeOK
  <2> QED
    BY <2>1, <2>2, <2>3, <2>4 DEF TalkSide, GateInv, GateTypeOK
<1> QED
  BY <1>3, <1>4

\* A call that waits for the negotiation of another.
LEMMA PendingTalks ==
    ASSUME GateInv, NEW c \in Calls, pc[c] \in {"out", "answered"}, UNCHANGED <<known, negotiator>>,
           \A w \in Calls \ {c} : ask'[w] = ask[w] /\ pc'[w] = pc[w],
           pc'[c] = "pending", negotiator # None
    PROVE  TalkSide
<1>1. negotiator # c
  BY GateAssumption DEF Negotiating, AtGate, Holding, GateInv
<1>2. Heard'
  BY <1>1 DEF Heard, NoLostWakeup, GateInv
<1>3. OneProbe'
  BY DEF OneProbe, AtGate, Holding, GateInv
<1>4. Negotiating'
  BY <1>1 DEF Negotiating, GateInv, GateTypeOK
<1> QED
  BY <1>2, <1>3, <1>4 DEF TalkSide, GateInv, GateTypeOK

LEMMA Together ==
    ASSUME GateSide, TalkSide, pc' \in [Calls -> Places], ask' \in [Calls -> Asks]
    PROVE  GateInv'
<1>1. NoLostWakeup'
  BY WakeupHalves DEF GateSide, TalkSide, NoLostWakeup, Alert, Heard
<1> QED
  BY <1>1 DEF GateSide, TalkSide, GateInv, GateTypeOK

(***************************************************************************)
(* The steps.                                                              *)
(***************************************************************************)
LEMMA JoinInv ==
    ASSUME GateInv, NEW c \in Calls, pc[c] \in {"out", "answered"},
           ask' \in [Calls -> Asks], \A w \in Calls \ {c} : ask'[w] = ask[w],
           Join(c, ask'[c].exclusive)
    PROVE  /\ GateSide /\ pc' \in [Calls -> Places] /\ pc'[c] \in Beyond
           /\ \A w \in Calls \ {c} : pc'[w] = pc[w]
<1> DEFINE x == ask'[c].exclusive
<1>1. pc[c] \notin AtGate \cup Holding /\ pc \in [Calls -> Places] /\ x \in BOOLEAN
  BY DEF AtGate, Holding, GateInv, GateTypeOK, Asks
<1>2. CASE ~x /\ EnterShared(c)
  <2>1. pc' = [pc EXCEPT ![c] = "inside"]
    BY <1>2 DEF EnterShared, Move
  <2>2. GateSide
    BY <1>1, <1>2, EnterSharedInv
  <2> QED
    BY <1>1, <2>1, <2>2 DEF Places, Beyond, Holding
<1>3. CASE x /\ EnterExclusive(c, writersWaiting)
  <2>1. pc' = [pc EXCEPT ![c] = "inside"]
    BY <1>3 DEF EnterExclusive, Move
  <2>2. GateSide
    BY <1>1, <1>3, EnterExclusiveInv
  <2> QED
    BY <1>1, <2>1, <2>2 DEF Places, Beyond, Holding
<1>4. CASE /\ ~Open(x)
           /\ pc' = Move(c, "asleep")
           /\ writersWaiting' = IF x THEN writersWaiting + 1 ELSE writersWaiting
           /\ UNCHANGED <<readers, writer>>
  <2>1. pc' = [pc EXCEPT ![c] = "asleep"]
    BY <1>4 DEF Move
  <2>2. pc' \in [Calls -> Places] /\ pc'[c] \in Beyond
    BY <1>1, <2>1 DEF Places, Beyond, AtGate
  <2>3. /\ Inside(TRUE)' = Inside(TRUE) /\ Inside(FALSE)' = Inside(FALSE)
    BY <1>1, <2>1 DEF Inside, Holding
  <2>4. Isolated'
    BY <2>3, IsolatedKept
  <2>5. CASE ~x
    <3>1. Waiting' = Waiting /\ UNCHANGED gateVars
      BY <1>1, <1>4, <2>1, <2>5 DEF Waiting, AtGate, gateVars
    <3>2. CountsAgree'
      BY <2>3, <3>1 DEF CountsAgree, GateInv, gateVars
    <3>3. \A w \in Calls : pc'[w] = "asleep" => ~Open(ask'[w].exclusive)
      BY <1>1, <1>4, <2>1 DEF GateInv, NoLostWakeup
    <3>4. Alert'
      BY <3>1, <3>3 DEF Alert, Open, gateVars
    <3> QED
      BY <2>1, <2>2, <2>4, <3>1, <3>2, <3>4 DEF GateSide, GateInv, GateTypeOK, gateVars
  <2>6. CASE x
    <3>1. writersWaiting' = writersWaiting + 1 /\ writersWaiting \in Nat
      BY <1>4, <2>6 DEF GateInv, GateTypeOK
    <3>2. Grows(Waiting, Waiting', c) /\ Beside(c)
      BY <1>1, <2>1, <2>6 DEF Waiting, AtGate, Holding, Grows, Beside
    <3>3. Cardinality(Waiting)' = writersWaiting'
      BY <3>1, <3>2, CountsMove DEF Moves, CountsAgree, GateInv
    <3>4. CountsAgree'
      BY <1>4, <2>3, <3>3 DEF CountsAgree, GateInv
    <3>5. Alert'
      <4> SUFFICES ASSUME NEW w \in Calls, pc'[w] = "asleep"
                   PROVE  ~Open(ask[w].exclusive)'
        BY DEF Alert
      <4>1. CASE w = c
        BY <1>4, <2>6, <4>1 DEF Open
      <4>2. CASE w # c
        <5>1. ~Open(ask[w].exclusive) /\ ask'[w] = ask[w] /\ ask[w].exclusive \in BOOLEAN
          BY <2>1, <4>2 DEF GateInv, NoLostWakeup, GateTypeOK, Asks
        <5> QED
          BY <1>4, <3>1, <5>1 DEF Open
      <4> QED
        BY <4>1, <4>2
    <3> QED
      BY <1>4, <2>1, <2>2, <2>4, <3>1, <3>4, <3>5 DEF GateSide, GateInv, GateTypeOK
  <2> QED
    BY <1>1, <2>5, <2>6
<1> QED
  BY <1>2, <1>3, <1>4 DEF Join

LEMMA BeginInv ==
    ASSUME GateInv, NEW c \in Calls, pc[c] \in {"out", "answered"}, UNCHANGED known,
           ask' \in [Calls -> Asks], \A w \in Calls \ {c} : ask'[w] = ask[w],
           Begin(c, ask'[c].exclusive, ask'[c].off)
    PROVE  GateInv'
<1>1. pc \in [Calls -> Places] /\ pc[c] \notin AtGate \cup Holding
  BY DEF GateInv, GateTypeOK, AtGate, Holding
<1>2. CASE /\ Undiscovered(ask'[c].off) /\ negotiator # None
           /\ pc' = Move(c, "pending")
           /\ UNCHANGED <<gateVars, negotiator>>
  <2>1. pc' = [pc EXCEPT ![c] = "pending"] /\ pc' \in [Calls -> Places]
    BY <1>1, <1>2 DEF Move, Places
  <2>2. GateSide
    BY <1>1, <1>2, <2>1, GateUntouched DEF Beside, AtGate, Holding
  <2>3. TalkSide
    BY <1>1, <1>2, <2>1, PendingTalks
  <2> QED
    BY <2>1, <2>2, <2>3, Together
<1>3. CASE /\ ~Undiscovered(ask'[c].off) \/ negotiator = None
           /\ Join(c, ask'[c].exclusive)
           /\ negotiator' = IF Undiscovered(ask'[c].off) THEN c ELSE negotiator
  <2>1. /\ GateSide /\ pc' \in [Calls -> Places] /\ pc'[c] \in Beyond
        /\ \A w \in Calls \ {c} : pc'[w] = pc[w]
    BY <1>3, JoinInv
  <2>2. TalkSide
    BY <1>3, <2>1, BeginTalks
  <2> QED
    BY <2>1, <2>2, Together
<1> QED
  BY <1>2, <1>3 DEF Begin

LEMMA GiveUpInv ==
    ASSUME GateInv, NEW c \in Calls, GiveUp(c)
    PROVE  GateInv'
<1>1. /\ TalkSide
      /\ pc' \in [Calls -> Places] /\ pc'[c] = "out"
      /\ ask' \in [Calls -> Asks]
      /\ \A w \in Calls \ {c} :
            /\ ask'[w] = ask[w]
            /\ pc'[w] = pc[w] \/ (pc[w] = "pending" /\ pc'[w] = "answered")
  BY EndTalks DEF GiveUp, GateInv, GateTypeOK
<1>2. GateSide
  BY <1>1, GateUntouched DEF GiveUp, Beside, AtGate, Holding
<1> QED
  BY <1>1, <1>2, Together

LEMMA ResumeInv ==
    ASSUME GateInv, NEW c \in Calls, Resume(c)
    PROVE  GateInv'
<1>1. /\ pc \in [Calls -> Places] /\ pc[c] = "awake" /\ pc[c] \in AtGate /\ pc[c] \notin Holding
      /\ UNCHANGED <<ask, negotiator, known>> /\ ask' \in [Calls -> Asks]
  BY DEF Resume, GateInv, GateTypeOK, AtGate, Holding
<1>2. CASE ~ask[c].exclusive /\ EnterShared(c)
  <2>1. pc' = [pc EXCEPT ![c] = "inside"]
    BY <1>2 DEF EnterShared, Move
  <2>2. GateSide
    BY <1>1, <1>2, EnterSharedInv
  <2>3. TalkSide
    BY <1>1, <2>1, TalkUntouched DEF Beyond, Holding, AtGate, GateInv, GateTypeOK
  <2>4. pc' \in [Calls -> Places]
    BY <1>1, <2>1 DEF Places, Holding
  <2> QED
    BY <1>1, <2>2, <2>3, <2>4, Together
<1>3. CASE ask[c].exclusive /\ EnterExclusive(c, writersWaiting - 1)
  <2>1. pc' = [pc EXCEPT ![c] = "inside"]
    BY <1>3 DEF EnterExclusive, Move
  <2>2. GateSide
    BY <1>1, <1>3, EnterExclusiveInv
  <2>3. TalkSide
    BY <1>1, <2>1, TalkUntouched DEF Beyond, Holding, AtGate, GateInv, GateTypeOK
  <2>4. pc' \in [Calls -> Places]
    BY <1>1, <2>1 DEF Places, Holding
  <2> QED
    BY <1>1, <2>2, <2>3, <2>4, Together
<1>4. CASE ~Open(ask[c].exclusive) /\ pc' = Move(c, "asleep") /\ UNCHANGED gateVars
  <2>1. pc' = [pc EXCEPT ![c] = "asleep"]
    BY <1>4 DEF Move
  <2>2. GateSide
    BY <1>1, <1>4, <2>1, GateUntouched DEF Beside, AtGate, Holding
  <2>3. TalkSide
    BY <1>1, <2>1, TalkUntouched DEF Beyond, AtGate, GateInv, GateTypeOK
  <2>4. pc' \in [Calls -> Places]
    BY <1>1, <2>1 DEF Places, AtGate
  <2> QED
    BY <1>1, <2>2, <2>3, <2>4, Together
<1> QED
  BY <1>2, <1>3, <1>4 DEF Resume

LEMMA CancelInv ==
    ASSUME GateInv, NEW c \in Calls, Cancel(c)
    PROVE  GateInv'
<1>1. /\ pc \in [Calls -> Places] /\ pc[c] \in AtGate /\ pc[c] \notin Holding
      /\ pc' = [pc EXCEPT ![c] = "cancelled"]
      /\ UNCHANGED <<ask, gateVars, negotiator, known>> /\ ask' \in [Calls -> Asks]
  BY DEF Cancel, Move, GateInv, GateTypeOK, AtGate, Holding
<1>2. GateSide
  BY <1>1, GateUntouched DEF Beside, AtGate, Holding
<1>3. TalkSide
  BY <1>1, TalkUntouched DEF Beyond, AtGate, GateInv, GateTypeOK
<1>4. pc' \in [Calls -> Places]
  BY <1>1 DEF Places, AtGate
<1> QED
  BY <1>1, <1>2, <1>3, <1>4, Together

\* A step of a holder that keeps its place and changes only whether it was served.
LEMMA HolderInv ==
    ASSUME GateInv, NEW c \in Calls, pc[c] \in Holding \cup {"left"}, pc' \in [Calls -> Places],
           pc'[c] \in Holding <=> pc[c] \in Holding, pc'[c] \in Holding \cup {"left"},
           \A w \in Calls \ {c} : pc'[w] = pc[w] /\ ask'[w] = ask[w],
           ask' \in [Calls -> Asks], ask'[c].exclusive = ask[c].exclusive,
           ask'[c].off = ask[c].off, UNCHANGED <<gateVars, negotiator>>,
           known' \in BOOLEAN, known => known'
    PROVE  GateInv'
<1>1. pc[c] \notin AtGate /\ pc'[c] \notin AtGate
  BY DEF AtGate, Holding
<1>2. GateSide
  BY <1>1, GateUntouched DEF Beside, AtGate
<1>3. TalkSide
  BY TalkUntouched DEF Beyond
<1> QED
  BY <1>2, <1>3, Together

LEMMA LearnInv ==
    ASSUME GateInv, NEW c \in Calls, Learn(c)
    PROVE  GateInv'
BY HolderInv DEF Learn, Holding, GateInv, GateTypeOK

LEMMA LeaveInv ==
    ASSUME GateInv, NEW c \in Calls, Leave(c)
    PROVE  GateInv'
<1>1. PICK served \in BOOLEAN : ask' = [ask EXCEPT ![c].served = served]
  BY DEF Leave
<1>2. /\ ask' \in [Calls -> Asks] /\ ask'[c].exclusive = ask[c].exclusive
      /\ ask'[c].off = ask[c].off /\ \A w \in Calls \ {c} : ask'[w] = ask[w]
  BY <1>1 DEF Asks, GateInv, GateTypeOK
<1>3. pc \in [Calls -> Places] /\ pc' = [pc EXCEPT ![c] = "leaving"] /\ pc[c] = "inside"
  BY DEF Leave, Move, GateInv, GateTypeOK
<1>4. pc' \in [Calls -> Places]
  BY <1>3 DEF Places, Holding
<1> QED
  BY <1>2, <1>3, <1>4, HolderInv DEF Leave, Holding, GateInv, GateTypeOK

LEMMA CancelLateInv ==
    ASSUME GateInv, NEW c \in Calls, CancelLate(c)
    PROVE  GateInv'
<1>1. /\ ask' \in [Calls -> Asks] /\ ask'[c].exclusive = ask[c].exclusive
      /\ ask'[c].off = ask[c].off /\ \A w \in Calls \ {c} : ask'[w] = ask[w]
  BY DEF CancelLate, Asks, GateInv, GateTypeOK
<1> QED
  BY <1>1, HolderInv DEF CancelLate, Holding, GateInv, GateTypeOK

\* After notify_all nobody sleeps.
LEMMA UnwindInv ==
    ASSUME GateInv, NEW c \in Calls, Unwind(c)
    PROVE  GateInv'
<1>1. pc \in [Calls -> Places] /\ pc[c] = "cancelled" /\ UNCHANGED <<readers, writer, known>>
  BY DEF Unwind, GateInv, GateTypeOK
<1>2. CASE ~ask[c].exclusive
  <2>1. UNCHANGED writersWaiting /\ End(c, pc)
    BY <1>2 DEF Unwind
  <2>2. /\ TalkSide
        /\ pc' \in [Calls -> Places] /\ pc'[c] = "out"
        /\ ask' \in [Calls -> Asks]
        /\ \A w \in Calls \ {c} :
              /\ ask'[w] = ask[w]
              /\ pc'[w] = pc[w] \/ (pc[w] = "pending" /\ pc'[w] = "answered")
    BY <1>1, <2>1, EndTalks DEF GateInv, GateTypeOK
  <2>3. /\ Inside(TRUE)' = Inside(TRUE) /\ Inside(FALSE)' = Inside(FALSE)
        /\ Waiting' = Waiting
    BY <1>1, <1>2, <2>2 DEF Inside, Waiting, AtGate, Holding
  <2>4. CountsAgree' /\ Isolated'
    BY <1>1, <2>1, <2>2, <2>3, IsolatedKept DEF CountsAgree, GateInv
  <2>5. Alert'
    BY <1>1, <2>1, <2>2 DEF Alert, Open, NoLostWakeup, GateInv
  <2> QED
    BY <1>1, <2>1, <2>2, <2>4, <2>5, Together DEF GateSide, GateInv, GateTypeOK
<1>3. CASE ask[c].exclusive
  <2>1. writersWaiting' = writersWaiting - 1 /\ End(c, NotifyAll(pc))
    BY <1>3 DEF Unwind
  <2>2. \A w \in Calls : /\ NotifyAll(pc)[w] # "asleep"
                         /\ \/ NotifyAll(pc)[w] = pc[w]
                            \/ pc[w] = "asleep" /\ NotifyAll(pc)[w] = "awake"
    BY DEF NotifyAll
  <2>3. /\ TalkSide
        /\ pc' \in [Calls -> Places] /\ pc'[c] = "out"
        /\ ask' \in [Calls -> Asks]
        /\ \A w \in Calls \ {c} :
              /\ ask'[w] = ask[w]
              /\ \/ pc'[w] = NotifyAll(pc)[w]
                 \/ pc[w] = "pending" /\ pc'[w] = "answered"
    BY <1>1, <2>1, <2>2, EndTalks DEF GateInv, GateTypeOK
  <2>4. /\ Inside(TRUE)' = Inside(TRUE) /\ Inside(FALSE)' = Inside(FALSE)
    BY <1>1, <2>2, <2>3 DEF Inside, Holding
  <2>5. Beside(c) /\ Shrinks(Waiting, Waiting', c)
    BY <1>1, <1>3, <2>2, <2>3 DEF Beside, Waiting, Shrinks, AtGate, Holding
  <2>6. Cardinality(Waiting)' = writersWaiting'
    BY <2>1, <2>5, CountsMove DEF Moves, CountsAgree, GateInv
  <2>7. CountsAgree' /\ Isolated'
    BY <1>1, <2>3, <2>4, <2>6, IsolatedKept DEF CountsAgree, GateInv
  <2>8. Waiting' \in SUBSET Calls
    BY DEF Waiting
  <2>9. writersWaiting' \in Nat
    BY <2>6, <2>8, Countable
  <2>10. Alert'
    BY <2>2, <2>3 DEF Alert
  <2> QED
    BY <1>1, <2>3, <2>7, <2>9, <2>10, Together DEF GateSide, GateInv, GateTypeOK
<1> QED
  BY <1>2, <1>3

LEMMA ReleaseInv ==
    ASSUME GateInv, NEW c \in Calls, Release(c)
    PROVE  GateInv'
<1>1. /\ pc \in [Calls -> Places] /\ pc[c] = "leaving" /\ pc'[c] = "left"
      /\ UNCHANGED <<writersWaiting, ask, negotiator, known>> /\ ask' \in [Calls -> Asks]
      /\ \A w \in Calls \ {c} : pc'[w] = IF pc[w] = "asleep" THEN "awake" ELSE pc[w]
  BY DEF Release, NotifyAll, GateInv, GateTypeOK
<1>2. pc' \in [Calls -> Places] /\ \A w \in Calls : pc'[w] # "asleep"
  <2>1. pc' = [[w \in Calls |-> IF pc[w] = "asleep" THEN "awake" ELSE pc[w]] EXCEPT ![c] = "left"]
    BY DEF Release, NotifyAll
  <2> QED
    BY <1>1, <2>1 DEF Places, AtGate
<1>3. TalkSide
  BY <1>1, TalkUntouched DEF Beyond, Holding, GateInv, GateTypeOK
<1>4. Beside(c)
  BY <1>1 DEF Beside, AtGate, Holding
<1>5. Waiting' = Waiting
  BY <1>1 DEF Waiting, AtGate
<1>6. Inside(TRUE)' = Inside(TRUE) \ {c} /\ Inside(FALSE)' = Inside(FALSE) \ {c}
  BY <1>1 DEF Inside, Holding
<1>7. Isolated'
  BY <1>1, <1>6, IsolatedKept
<1>8. ask[c].exclusive \in BOOLEAN
  BY DEF GateInv, GateTypeOK, Asks
<1>9. CountsAgree' /\ readers' \in Nat /\ writer' \in BOOLEAN
  <2>1. CASE ask[c].exclusive
    <3>1. writer' = FALSE /\ readers' = readers
      BY <2>1 DEF Release
    <3>2. Inside(TRUE) = {c} /\ Inside(FALSE) = {}
      BY <1>1, <2>1 DEF GateInv, Isolated, Inside, Holding
    <3>3. Inside(TRUE)' = {} /\ Inside(FALSE)' = Inside(FALSE)
      BY <1>6, <3>2
    <3> QED
      BY <1>1, <1>5, <3>1, <3>3 DEF CountsAgree, GateInv, GateTypeOK
  <2>2. CASE ~ask[c].exclusive
    <3>1. readers' = readers - 1 /\ writer' = writer
      BY <2>2 DEF Release
    <3>2. Shrinks(Inside(FALSE), Inside(FALSE)', c) /\ Inside(TRUE)' = Inside(TRUE)
      BY <1>1, <1>6, <1>8, <2>2 DEF Inside, Holding, Shrinks
    <3>3. Cardinality(Inside(FALSE))' = readers'
      BY <1>4, <3>1, <3>2, CountsMove DEF Moves, CountsAgree, GateInv
    <3>4. Inside(FALSE)' \in SUBSET Calls
      BY DEF Inside
    <3> QED
      BY <1>1, <1>5, <3>1, <3>2, <3>3, <3>4, Countable DEF CountsAgree, GateInv, GateTypeOK
  <2> QED
    BY <1>8, <2>1, <2>2
<1>10. GateSide
  BY <1>1, <1>2, <1>7, <1>9 DEF GateSide, Alert, GateInv, GateTypeOK
<1> QED
  BY <1>1, <1>2, <1>3, <1>10, Together

LEMMA ReturnInv ==
    ASSUME GateInv, NEW c \in Calls, Return(c)
    PROVE  GateInv'
<1>1. known' \in BOOLEAN /\ (known => known')
  BY DEF Return, GateInv, GateTypeOK, Asks
<1>2. /\ TalkSide
      /\ pc' \in [Calls -> Places] /\ pc'[c] = "out"
      /\ ask' \in [Calls -> Asks]
      /\ \A w \in Calls \ {c} :
            /\ ask'[w] = ask[w]
            /\ pc'[w] = pc[w] \/ (pc[w] = "pending" /\ pc'[w] = "answered")
  BY <1>1, EndTalks DEF Return, GateInv, GateTypeOK
<1>3. GateSide
  BY <1>2, GateUntouched DEF Return, Beside, AtGate, Holding
<1> QED
  BY <1>2, <1>3, Together

LEMMA RequestInv ==
    ASSUME GateInv, NEW c \in Calls, Request(c)
    PROVE  GateInv'
<1>1. PICK exclusive, off \in BOOLEAN :
         /\ ask' = [ask EXCEPT ![c] = [NoAsk EXCEPT !.exclusive = exclusive, !.off = off]]
         /\ Begin(c, exclusive, off)
  BY DEF Request
<1>2. /\ ask' \in [Calls -> Asks] /\ \A w \in Calls \ {c} : ask'[w] = ask[w]
      /\ ask'[c].exclusive = exclusive /\ ask'[c].off = off
  BY <1>1 DEF NoAsk, Asks, GateInv, GateTypeOK
<1> QED
  BY <1>1, <1>2, BeginInv DEF Request

LEMMA NextInv == GateInv /\ [Next]_vars => GateInv'
<1> SUFFICES ASSUME GateInv, [Next]_vars PROVE GateInv'
  OBVIOUS
<1>1. CASE UNCHANGED vars
  BY <1>1 DEF vars, gateVars, GateInv, GateTypeOK, CountsAgree, Isolated, NoLostWakeup,
              OneProbe, Negotiating, Inside, Waiting, Open
<1>2. CASE Next
  <2>1. PICK c \in Calls :
           Request(c) \/ Step(c) \/ GiveUp(c) \/ Cancel(c) \/ Learn(c) \/ CancelLate(c)
    BY <1>2 DEF Next
  <2>2. CASE LookAgain(c)
    BY <2>2, BeginInv DEF LookAgain, GateInv, GateTypeOK
  <2>3. CASE Step(c)
    BY <2>2, <2>3, ResumeInv, UnwindInv, LeaveInv, ReleaseInv, ReturnInv DEF Step
  <2> QED
    BY <2>1, <2>3, RequestInv, GiveUpInv, CancelInv, LearnInv, CancelLateInv
<1> QED
  BY <1>1, <1>2

LEMMA InitInv == Init => GateInv
<1> SUFFICES ASSUME Init PROVE GateInv
  OBVIOUS
<1>1. Inside(TRUE) = {} /\ Inside(FALSE) = {} /\ Waiting = {}
  BY DEF Init, Inside, Waiting, AtGate, Holding
<1> QED
  BY <1>1, FS_EmptySet
  DEF Init, GateInv, GateTypeOK, CountsAgree, Isolated, NoLostWakeup, OneProbe, Negotiating,
      Places, Asks, NoAsk, AtGate, Holding

LEMMA AlwaysInv == Spec => []GateInv
BY InitInv, NextInv, PTL DEF Spec

(***************************************************************************)
(* The theorems.                                                           *)
(***************************************************************************)
\* The gate keeps its type: no counter is ever decremented below zero.
THEOREM GateTyped == Spec => []GateTypeOK
BY AlwaysInv, PTL DEF GateInv

\* No cancellation, wherever it falls, makes a counter disagree with the calls.
THEOREM GateCounts == Spec => []CountsAgree
BY AlwaysInv, PTL DEF GateInv

\* A call that holds the gate exclusively holds it alone.
THEOREM GateIsolates == Spec => []Isolated
BY AlwaysInv, PTL DEF GateInv

\* No call sleeps in front of an open gate or awaits a negotiation nobody ends.
THEOREM GateWakes == Spec => []NoLostWakeup
BY AlwaysInv, PTL DEF GateInv

\* At most one call at a time tries whether reasoning can be turned off.
THEOREM OneProbeOnly == Spec => []OneProbe
BY AlwaysInv, PTL DEF GateInv

=============================================================================
