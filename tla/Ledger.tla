-------------------------------- MODULE Ledger --------------------------------
(***************************************************************************)
(* The run's compute allocation, LocalComputeLedger (local_inference/      *)
(* budget.py), and the mutations of its methods.  Each method is one       *)
(* mutation of ledger.json under the directory's file lock, so it is one   *)
(* step.  Three quantities are allocated: dispatches, requested output     *)
(* tokens and milliseconds of observed request wall time.  The first two   *)
(* are charged for good when a request is dispatched; wall time is held in *)
(* advance and replaced by what is observed, even beyond what was held.    *)
(*                                                                         *)
(* A call that raises changes nothing and is not a step.  The owner of a   *)
(* reservation is fixed and checked by every method, and is left out.      *)
(***************************************************************************)
EXTENDS Integers, FiniteSets

CONSTANTS
    Dispatches,   \* dispatch ids
    Requests,     \* what a caller may ask for: units, and tokens and wall per unit
    Receipts,     \* ids of observation clocks
    Operators,    \* operator ids
    Profiles,     \* profile hashes
    None,         \* Python's None
    MaxCount,     \* _MAX_COUNT: no ceiling of dispatches or tokens is higher
    MaxWall       \* _MAX_WALL_MS: no ceiling of wall time is higher

VARIABLES
    ceiling,      \* state["ceilings"]
    consumed,     \* state["consumed"]
    reserved,     \* state["reserved"]
    claim,        \* state["reservations"], NoClaim where there is none
    profile       \* the profile hash of the last segment

ledgerVars == <<ceiling, consumed, reserved, claim, profile>>

Dimensions == {"dispatches", "tokens", "wall"}

Nothing == [k \in Dimensions |-> 0]

RequestRecords == [units : Nat \ {0}, tokens : Nat \ {0}, wall : Nat \ {0}]

ASSUME LedgerAssumption ==
    /\ IsFiniteSet(Dispatches)
    /\ Requests \subseteq RequestRecords
    /\ None \notin Receipts \cup Operators \cup Profiles
    /\ MaxCount \in Nat /\ MaxWall \in Nat

(***************************************************************************)
(* Reservations.                                                           *)
(***************************************************************************)
Charged == {"dispatched", "unknown", "completed"}
ClaimStates == {"none", "reserved", "released"} \cup Charged

ClaimRecords ==
    [state : ClaimStates, units : Nat, tokens : Nat, envelope : Nat, held : Nat,
     wall : Nat, receipt : Receipts \cup {None}, final : BOOLEAN,
     operator : Operators \cup {None}, profile : Profiles \cup {None}]

NoClaim ==
    [state |-> "none", units |-> 0, tokens |-> 0, envelope |-> 0, held |-> 0,
     wall |-> 0, receipt |-> None, final |-> FALSE, operator |-> None,
     profile |-> None]

\* What is left of each allocation, _wall_remaining among them; wall can be negative.
Left(k) == ceiling[k] - consumed[k] - reserved[k]

Least(a, b) == IF a <= b THEN a ELSE b

Greatest(a, b) == IF a >= b THEN a ELSE b

(***************************************************************************)
(* reserve.  The wall grant is cut to what is left, shared among the units.*)
(***************************************************************************)
\* Mutant: the remaining wall time is offered to every unit.
GrantedWallToEachUnit(r) == Least(r.wall, Left("wall"))

GrantedWall(r) == Least(r.wall, Left("wall") \div r.units)

\* Mutant: what other requests hold is not counted.
HasRoomBesideConsumed(r) ==
    /\ ceiling["dispatches"] - consumed["dispatches"] >= r.units
    /\ ceiling["tokens"] - consumed["tokens"] >= r.units * r.tokens
    /\ Left("wall") > 0

\* _require_room.
HasRoom(r) ==
    /\ Left("dispatches") >= r.units
    /\ Left("tokens") >= r.units * r.tokens
    /\ Left("wall") > 0

Reserve(d, r, expected) ==
    /\ claim[d].state = "none"
    /\ expected \in {None, profile}
    /\ HasRoom(r)
    /\ GrantedWall(r) > 0
    /\ LET envelope == GrantedWall(r) * r.units
       IN /\ reserved' = [reserved EXCEPT !["dispatches"] = @ + r.units,
                                          !["tokens"] = @ + r.units * r.tokens,
                                          !["wall"] = @ + envelope]
          /\ claim' = [claim EXCEPT ![d] =
                [NoClaim EXCEPT !.state = "reserved", !.units = r.units,
                                !.tokens = r.units * r.tokens, !.envelope = envelope,
                                !.held = envelope, !.profile = profile]]
    /\ UNCHANGED <<ceiling, consumed, profile>>

ReleaseNotDispatched(d) ==
    /\ claim[d].state = "reserved"
    /\ reserved' = [reserved EXCEPT !["dispatches"] = @ - claim[d].units,
                                    !["tokens"] = @ - claim[d].tokens,
                                    !["wall"] = @ - claim[d].held]
    /\ claim' = [claim EXCEPT ![d].held = 0, ![d].state = "released"]
    /\ UNCHANGED <<ceiling, consumed, profile>>

\* Mutant: the envelope is charged and stays reserved too.
MarkDispatchedTwiceCharged(d) ==
    /\ claim[d].state = "reserved"
    /\ claim[d].profile = profile
    /\ consumed' = [consumed EXCEPT !["dispatches"] = @ + claim[d].units,
                                    !["tokens"] = @ + claim[d].tokens]
    /\ claim' = [claim EXCEPT ![d].state = "dispatched"]
    /\ UNCHANGED <<ceiling, reserved, profile>>

\* mark_dispatched charges; for a reservation already charged it does nothing.
MarkDispatched(d) ==
    /\ claim[d].state = "reserved"
    /\ claim[d].profile = profile
    /\ reserved' = [reserved EXCEPT !["dispatches"] = @ - claim[d].units,
                                    !["tokens"] = @ - claim[d].tokens]
    /\ consumed' = [consumed EXCEPT !["dispatches"] = @ + claim[d].units,
                                    !["tokens"] = @ + claim[d].tokens]
    /\ claim' = [claim EXCEPT ![d].state = "dispatched"]
    /\ UNCHANGED <<ceiling, profile>>

MarkUnknown(d) ==
    /\ claim[d].state = "dispatched"
    /\ claim' = [claim EXCEPT ![d].state = "unknown"]
    /\ UNCHANGED <<ceiling, consumed, reserved, profile>>

(***************************************************************************)
(* _accrue_wall.  `millis` is a cumulative reading of the clock `receipt`: *)
(* what it adds is consumed, and first taken from what the request holds.  *)
(***************************************************************************)
\* Mutant: a final reading may be replaced by a later one.
ReadableAfterFinal(d, millis, receipt) ==
    /\ claim[d].state \in Charged
    /\ claim[d].receipt \in {None, receipt}
    /\ millis >= claim[d].wall

Readable(d, millis, receipt) ==
    /\ claim[d].state \in Charged
    /\ claim[d].receipt \in {None, receipt}
    /\ millis >= claim[d].wall
    /\ claim[d].final => millis = claim[d].wall

Covered(d, millis) == Least(millis - claim[d].wall, claim[d].held)

ObserveWall(d, millis, receipt) ==
    /\ Readable(d, millis, receipt)
    /\ reserved' = [reserved EXCEPT !["wall"] = @ - Covered(d, millis)]
    /\ consumed' = [consumed EXCEPT !["wall"] = @ + (millis - claim[d].wall)]
    /\ claim' = [claim EXCEPT ![d].held = @ - Covered(d, millis), ![d].wall = millis,
                              ![d].receipt = receipt]
    /\ UNCHANGED <<ceiling, profile>>

\* Mutant: a request that ended without evidence gives back its charge.
SettleRefundsUnknown(d, millis, receipt, known) ==
    /\ Readable(d, millis, receipt)
    /\ claim[d].state = "completed" => known
    /\ LET back == IF known THEN 0 ELSE claim[d].units
       IN consumed' = [consumed EXCEPT !["dispatches"] = @ - back,
                                       !["wall"] = @ + (millis - claim[d].wall)]
    /\ reserved' = [reserved EXCEPT !["wall"] = @ - claim[d].held]
    /\ claim' = [claim EXCEPT ![d].state = IF known THEN "completed" ELSE "unknown",
                              ![d].held = 0, ![d].wall = millis,
                              ![d].receipt = receipt, ![d].final = TRUE]
    /\ UNCHANGED <<ceiling, profile>>

\* settle_observed_wall closes the clock; known completion frees what is still held.
SettleObservedWall(d, millis, receipt, known) ==
    /\ Readable(d, millis, receipt)
    /\ claim[d].state = "completed" => known
    /\ LET kept == IF known THEN 0 ELSE claim[d].held - Covered(d, millis)
       IN /\ reserved' = [reserved EXCEPT !["wall"] = @ - (claim[d].held - kept)]
          /\ claim' = [claim EXCEPT ![d].held = kept, ![d].wall = millis,
                                    ![d].receipt = receipt, ![d].final = TRUE,
                                    ![d].state = IF known THEN "completed" ELSE "unknown"]
    /\ consumed' = [consumed EXCEPT !["wall"] = @ + (millis - claim[d].wall)]
    /\ UNCHANGED <<ceiling, profile>>

RecordUnresolved(d, op) ==
    /\ claim[d].state = "unknown"
    /\ claim[d].operator \in {None, op}
    /\ claim' = [claim EXCEPT ![d].operator = op]
    /\ UNCHANGED <<ceiling, consumed, reserved, profile>>

GrantExtension(extra) ==
    /\ extra # Nothing
    /\ ceiling["dispatches"] + extra["dispatches"] <= MaxCount
    /\ ceiling["tokens"] + extra["tokens"] <= MaxCount
    /\ ceiling["wall"] + extra["wall"] <= MaxWall
    /\ ceiling' = [k \in Dimensions |-> ceiling[k] + extra[k]]
    /\ UNCHANGED <<consumed, reserved, claim, profile>>

\* reconfigure_profile: reservations made under the former profile stay as they are.
ReconfigureProfile(h) ==
    /\ profile # h
    /\ profile' = h
    /\ UNCHANGED <<ceiling, consumed, reserved, claim>>

\* create.
Create(limits, h) ==
    /\ ceiling = limits
    /\ profile = h
    /\ consumed = Nothing
    /\ reserved = Nothing
    /\ claim = [d \in Dispatches |-> NoClaim]

=============================================================================
