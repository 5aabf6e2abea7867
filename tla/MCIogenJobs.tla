----------------------------- MODULE MCIogenJobs -----------------------------
(* Instances of IogenJobs: independent jobs, and the chain of dependencies *)
(* of scripts/io/8.hotspot_read/parameter.                                 *)
EXTENDS IogenJobs

Independent == [j \in Jobs |-> j]
Chain == [j \in Jobs |-> IF j = 1 THEN 1 ELSE j - 1]
=============================================================================
