----------------------------- MODULE ScaleDown ------------------------------
(***************************************************************************)
(* What remediateUnsafeDeployment promises about a Deployment that others  *)
(* write as well, as one indivisible step: it lowers the replicas of a     *)
(* Deployment that is the CR's, runs more than one and whose count nobody  *)
(* else claims, and it does nothing else.                                  *)
(***************************************************************************)
EXTENDS Naturals

CONSTANT Op             \* the operator's name as a field manager

VARIABLES uid,          \* of the Deployment, 0 when there is none
          owned,        \* the CR controls it
          replicas,
          holders       \* the field managers of replicas

Init == uid # 0 /\ owned = TRUE

Lower ==
    /\ uid # 0 /\ owned = TRUE /\ replicas > 1 /\ holders \subseteq {Op}
    /\ replicas' = 1
    /\ holders' = holders \cup {Op}
    /\ uid' = uid /\ owned' \in BOOLEAN

\* Whoever else writes the count, or puts another Deployment in the place, holds
\* the count alone: the operator stays a holder only of a count that stays.
Elsewhere == Op \in holders' => Op \in holders /\ uid' = uid /\ replicas' = replicas

Spec == Init /\ [][Lower \/ Elsewhere]_<<uid, owned, replicas, holders>>
=============================================================================
