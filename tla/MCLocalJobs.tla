----------------------------- MODULE MCLocalJobs -----------------------------
(* Two jobs of one owner: one pulled, one pushing. *)
EXTENDS LocalJobs

MCOwner == [j \in Jobs |-> "o"]
MCMaxBytes == [j \in Jobs |-> IF j = "a" THEN 4 ELSE 2]
=============================================================================
