---------------------------- MODULE ComputeLedger ----------------------------
(***************************************************************************)
(* The allocation ledger used on its own, by clients that reserve, charge, *)
(* observe and settle in any order the ledger lets them, and by operators  *)
(* who extend it, reconfigure it and record what stays unresolved.         *)
(***************************************************************************)
EXTENDS Ledger, Functions

CONSTANTS
    Ceilings,     \* the ceilings a run may be created with
    Grants,       \* the extensions an operator may grant
    Readings      \* bound: readings of an observation clock, in milliseconds

ASSUME ComputeLedgerAssumption ==
    /\ Ceilings \subseteq [Dimensions -> Nat]
    /\ Grants \subseteq [Dimensions -> Nat]
    /\ Readings \subseteq Nat

Init == \E limits \in Ceilings, h \in Profiles : Create(limits, h)

Client(d) ==
    \/ \E r \in Requests, h \in Profiles \cup {None} : Reserve(d, r, h)
    \/ ReleaseNotDispatched(d)
    \/ MarkDispatched(d)
    \/ MarkUnknown(d)
    \/ \E millis \in Readings, w \in Receipts : ObserveWall(d, millis, w)
    \/ \E millis \in Readings, w \in Receipts, known \in BOOLEAN :
           SettleObservedWall(d, millis, w, known)
    \/ \E op \in Operators : RecordUnresolved(d, op)

Next ==
    \/ \E d \in Dispatches : Client(d)
    \/ \E extra \in Grants : GrantExtension(extra)
    \/ \E h \in Profiles : ReconfigureProfile(h)

Spec == Init /\ [][Next]_ledgerVars

LedgerTypeOK ==
    /\ ceiling \in [Dimensions -> Nat]
    /\ consumed \in [Dimensions -> Nat]
    /\ reserved \in [Dimensions -> Int]
    /\ claim \in [Dispatches -> ClaimRecords]
    /\ profile \in Profiles

(***************************************************************************)
(* The totals _validate_inner recomputes from the reservations.  A step    *)
(* that let them drift would make every later call raise corrupt_ledger.   *)
(***************************************************************************)
UnitsOf == [d \in Dispatches |-> claim[d].units]
TokensOf == [d \in Dispatches |-> claim[d].tokens]
HeldBy == [d \in Dispatches |-> claim[d].held]
WallOf == [d \in Dispatches |-> claim[d].wall]

Claimed(states) == {d \in Dispatches : claim[d].state \in states}

TotalsAgree ==
    /\ reserved["dispatches"] = SumFunctionOnSet(UnitsOf, Claimed({"reserved"}))
    /\ reserved["tokens"] = SumFunctionOnSet(TokensOf, Claimed({"reserved"}))
    /\ reserved["wall"] = SumFunctionOnSet(HeldBy, Dispatches)
    /\ consumed["dispatches"] = SumFunctionOnSet(UnitsOf, Claimed(Charged))
    /\ consumed["tokens"] = SumFunctionOnSet(TokensOf, Claimed(Charged))
    /\ consumed["wall"] = SumFunctionOnSet(WallOf, Dispatches)

(***************************************************************************)
(* expected_reserved of _validate_inner: what a request still holds is its *)
(* envelope less what was observed, never less than zero, and nothing once *)
(* it is released or completed; only a charged request has a clock, and a  *)
(* completed one has a final reading.                                      *)
(***************************************************************************)
HeldAsExpected ==
    \A d \in Dispatches :
        LET c == claim[d]
        IN /\ c.held = IF c.state \in {"none", "released", "completed"}
                       THEN 0
                       ELSE Greatest(0, c.envelope - c.wall)
           /\ c.receipt # None \/ c.final \/ c.wall # 0 => c.state \in Charged
           /\ c.state = "completed" => c.final
           /\ c.receipt = None => c.wall = 0

(***************************************************************************)
(* No sequence of calls leaves a ledger that _validate_inner rejects, over *)
(* which every later call would raise corrupt_ledger.                      *)
(***************************************************************************)
ValidLedger == TotalsAgree /\ HeldAsExpected

(***************************************************************************)
(* What is charged and what is promised to queued-up requests together     *)
(* never exceed the dispatches and tokens the run was given, in whatever   *)
(* order concurrent children reserve, release and dispatch.                *)
(***************************************************************************)
NoOvercommit ==
    \A k \in {"dispatches", "tokens"} : consumed[k] + reserved[k] <= ceiling[k]

(***************************************************************************)
(* Wall time is overdrawn by requests that ran longer than what they were  *)
(* granted and by nothing else: the ledger never grants time it has not    *)
(* got, even while it is in debt.                                          *)
(***************************************************************************)
Overrun == [d \in Dispatches |-> Greatest(0, claim[d].wall - claim[d].envelope)]

DebtIsOverrun ==
    consumed["wall"] + reserved["wall"]
        <= ceiling["wall"] + SumFunctionOnSet(Overrun, Claimed(Charged))

(***************************************************************************)
(* "After mark_dispatched, neither side refunds the envelope" (seams.py):  *)
(* no step takes back a charge, an observed millisecond or a ceiling, and  *)
(* a charged request never returns to a state that could be released.      *)
(***************************************************************************)
NoRefund ==
    [][/\ \A k \in Dimensions : consumed'[k] >= consumed[k] /\ ceiling'[k] >= ceiling[k]
       /\ \A d \in Dispatches : claim[d].state \in Charged =>
             /\ claim'[d].state \in Charged
             /\ claim'[d].units = claim[d].units
             /\ claim'[d].tokens = claim[d].tokens]_ledgerVars

(***************************************************************************)
(* A settled measurement stands: once a reading is final, a late reading,  *)
(* a retry or a later completion can neither change it nor its clock, and  *)
(* a known completion is never taken back.                                 *)
(***************************************************************************)
FinalStands ==
    [][\A d \in Dispatches : claim[d].final =>
          /\ claim'[d].final
          /\ claim'[d].wall = claim[d].wall
          /\ claim'[d].receipt = claim[d].receipt
          /\ claim[d].state = "completed" => claim'[d].state = "completed"]_ledgerVars

=============================================================================
