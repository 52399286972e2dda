---------------------------- MODULE OwnerLiveness ----------------------------
(***************************************************************************)
(* What a theory lease (mini_theory/lease.py) promises to the stores that  *)
(* keep work for several processes: an owner lives once, its identifier is *)
(* never used again, and it is judged abandoned only after its life ended. *)
(* Stores may then take over what a judged owner has left.                 *)
(***************************************************************************)
CONSTANT Owners           \* owner identifiers, uuid4 each

VARIABLES
    status,               \* the life of each owner
    judged                \* the owners some observer has found abandoned

livenessVars == <<status, judged>>

LivenessTypeOK ==
    /\ status \in [Owners -> {"unborn", "live", "gone"}]
    /\ judged \subseteq Owners

LivenessInit ==
    /\ status = [o \in Owners |-> "unborn"]
    /\ judged = {}

Start(o) ==
    /\ status[o] = "unborn"
    /\ status' = [status EXCEPT ![o] = "live"]
    /\ UNCHANGED judged

(* Closed, failed while it was being constructed, or killed.               *)
End(o) ==
    /\ status[o] # "gone"
    /\ status' = [status EXCEPT ![o] = "gone"]
    /\ UNCHANGED judged

Judge(o) ==
    /\ status[o] = "gone"
    /\ judged' = judged \union {o}
    /\ UNCHANGED status

LivenessNext == \E o \in Owners : Start(o) \/ End(o) \/ Judge(o)

LivenessSpec == LivenessInit /\ [][LivenessNext]_livenessVars
=============================================================================
