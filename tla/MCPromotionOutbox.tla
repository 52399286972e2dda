-------------------------- MODULE MCPromotionOutbox --------------------------
(* A lemma, its revision and a theorem proved with the first lemma.        *)
EXTENDS PromotionOutbox, TLC

CONSTANTS a1, a2, b1, lemma, result, t1

NameOf == [c \in Contents |-> IF c = b1 THEN result ELSE lemma]
LemmaFirst == [c \in Contents |-> IF c = b1 THEN {a1} ELSE {}]
OneTheorem == [p \in Owners |-> t1]

AnyOwner == Permutations(Owners)
=============================================================================
