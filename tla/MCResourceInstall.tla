-------------------------- MODULE MCResourceInstall --------------------------
(* Two processes prepare two budgets in two directories; their profiles    *)
(* agree on a group or disagree on it.                                     *)
EXTENDS ResourceInstall, TLC

CONSTANTS g1, wide, narrow

Declared == {g1 :> wide, g1 :> narrow}

\* Each budget is in a directory of its own, so that the two can be named alike.
Apart == [b \in Budgets |-> b]

Alike == Permutations(Callers) \union Permutations(Budgets) \union Permutations({wide, narrow})
=============================================================================
