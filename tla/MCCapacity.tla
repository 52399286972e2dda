------------------------------ MODULE MCCapacity ------------------------------
(***************************************************************************)
(* Instances of Capacity for TLC: one group with one or two endpoints, and *)
(* the configurations an operator may give it.                             *)
(***************************************************************************)
EXTENDS Capacity, TLC

CONSTANTS e1, e2, g1

TwoEndpoints == [e \in {e1, e2} |-> g1]

\* Two slots, of which at most one at e1; room for two to wait.
Wide == [maxInflight |-> 2, maxQueued |-> 2, queueTimeout |-> 1, requestTimeout |-> 1,
         cap |-> e1 :> 1 @@ e2 :> 2]
WideOnly == {Wide}

\* One endpoint, whose cap an operator moves between two and one.
OneEndpoint == [e \in {e1} |-> g1]
Recut == {[maxInflight |-> n, maxQueued |-> 1, queueTimeout |-> 1,
           requestTimeout |-> 1, cap |-> e1 :> n] : n \in 1..2}

\* The same with timeouts longer than the clock skew of one second.
SlowRecut == {[p EXCEPT !.queueTimeout = 2, !.requestTimeout = 2] : p \in Recut}

AnyDispatch == Permutations(Dispatches)
AnyCaller == AnyDispatch \cup Permutations(Callers)

=============================================================================
