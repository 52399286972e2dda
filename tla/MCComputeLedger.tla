---------------------------- MODULE MCComputeLedger ----------------------------
(***************************************************************************)
(* Instances of ComputeLedger for TLC.                                     *)
(***************************************************************************)
EXTENDS ComputeLedger, TLC

Limits(d, t, w) == "dispatches" :> d @@ "tokens" :> t @@ "wall" :> w

Ask(u, t, w) == [units |-> u, tokens |-> t, wall |-> w]

\* Three dispatches, some taken in a batch of two, and less wall time than is asked for.
SmallRun == {Limits(3, 3, 3)}
SmallAsks == {Ask(1, 1, 2), Ask(2, 1, 2)}
SmallGrants == {Limits(1, 0, 0), Limits(0, 1, 2)}

Symmetric ==
    Permutations(Dispatches) \cup Permutations(Receipts) \cup Permutations(Profiles)

=============================================================================
