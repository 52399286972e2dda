--------------------------- MODULE DispatchContract ---------------------------
(***************************************************************************)
(* What the local inference resources promise together, whatever the calls *)
(* they are made of: a request is sent to the server only when it is paid  *)
(* for and holds one of its group's slots; what is paid is never refunded; *)
(* a slot under running work is given away only when an operator writes    *)
(* the work off; and no group ever gives out more slots than it has.       *)
(* (The protocol is stated in the opening comment of seams.py.)            *)
(***************************************************************************)
EXTENDS Naturals, FiniteSets

CONSTANTS
    Dispatches,
    Groups,
    None,
    Slots,        \* the slots of each group
    Purse         \* dispatches the run may pay for

VARIABLES
    slot,         \* the group whose slot a request holds, or None
    charge,       \* none, promised, returned or paid
    work,         \* the server's work: none, running or done
    writtenOff    \* requests an operator gave up on

contractVars == <<slot, charge, work, writtenOff>>

Holding(s, g) == {d \in Dispatches : s[d] = g}

Init ==
    /\ slot = [d \in Dispatches |-> None]
    /\ charge = [d \in Dispatches |-> "none"]
    /\ work = [d \in Dispatches |-> "none"]
    /\ writtenOff = {}

\* Slots change hands: several may be freed and granted at once.
Reallocate ==
    /\ slot' \in [Dispatches -> Groups \cup {None}]
    /\ \A g \in Groups : \/ Holding(slot', g) \subseteq Holding(slot, g)
                         \/ Cardinality(Holding(slot', g)) <= Slots[g]
    /\ writtenOff' \in SUBSET Dispatches
    /\ writtenOff \subseteq writtenOff'
    /\ \A d \in Dispatches :
          (work[d] = "running" /\ slot'[d] # slot[d]) => d \in writtenOff'
    /\ UNCHANGED <<charge, work>>

Promise(d) ==
    /\ charge[d] = "none"
    /\ Cardinality({e \in Dispatches : charge[e] \in {"promised", "paid"}}) < Purse
    /\ charge' = [charge EXCEPT ![d] = "promised"]
    /\ UNCHANGED <<slot, work, writtenOff>>

Return(d) ==
    /\ charge[d] = "promised"
    /\ charge' = [charge EXCEPT ![d] = "returned"]
    /\ UNCHANGED <<slot, work, writtenOff>>

Pay(d) ==
    /\ charge[d] = "promised"
    /\ charge' = [charge EXCEPT ![d] = "paid"]
    /\ UNCHANGED <<slot, work, writtenOff>>

Begin(d) ==
    /\ work[d] = "none"
    /\ charge[d] = "paid"
    /\ slot[d] # None \/ d \in writtenOff
    /\ work' = [work EXCEPT ![d] = "running"]
    /\ UNCHANGED <<slot, charge, writtenOff>>

Finish(d) ==
    /\ work[d] = "running"
    /\ work' = [work EXCEPT ![d] = "done"]
    /\ UNCHANGED <<slot, charge, writtenOff>>

Next ==
    \/ Reallocate
    \/ \E d \in Dispatches : Promise(d) \/ Return(d) \/ Pay(d) \/ Begin(d) \/ Finish(d)

Spec == Init /\ [][Next]_contractVars

=============================================================================
