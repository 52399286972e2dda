---------------------------- MODULE MCProviderLane ----------------------------
(***************************************************************************)
(* An instance of ProviderLane for TLC: two clients that share a lane.     *)
(***************************************************************************)
EXTENDS ProviderLane

CONSTANTS r1, r2, k1, k2

TwoClients == [r \in Requests |-> IF r = r1 THEN k1 ELSE k2]

===============================================================================
