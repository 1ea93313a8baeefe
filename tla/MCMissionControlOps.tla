------------------------ MODULE MCMissionControlOps ------------------------
(* The operations lane on small instances: threads, challenges and         *)
(* operations of one kind are interchangeable.                             *)
EXTENDS MissionControlOps, TLC

OpsSymmetry == Permutations(Threads) \cup Permutations(Challenges)
                 \cup Permutations(RequestIds)
=============================================================================
