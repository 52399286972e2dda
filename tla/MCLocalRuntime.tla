---------------------------- MODULE MCLocalRuntime ----------------------------
(***************************************************************************)
(* Instances of LocalRuntime for TLC: one endpoint with one slot.          *)
(***************************************************************************)
EXTENDS LocalRuntime, TLC

CONSTANTS e1, g1, w1

OneEndpoint == [e \in {e1} |-> g1]

\* One slot, one place in the queue, timeouts of a second.
Single == [maxInflight |-> 1, maxQueued |-> 1, queueTimeout |-> 1, requestTimeout |-> 1,
           cap |-> e1 :> 1]
OnlySingle == {Single}
AllSingle == g1 :> Single

\* Each request asks for one dispatch; there is enough for two.
OneUnit == {[units |-> 1, tokens |-> 1, wall |-> 1]}
ForTwo == "dispatches" :> 2 @@ "tokens" :> 2 @@ "wall" :> 2

OneClock == [d \in Dispatches |-> w1]

=============================================================================
