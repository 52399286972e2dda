------------------------ MODULE MCFormalizationStore ------------------------
(* Tasks and workers are interchangeable.                                  *)
EXTENDS FormalizationStore, TLC

Alike == Permutations(Tasks) \union Permutations(Workers)
=============================================================================
