------------------------------- MODULE MCJobs -------------------------------
(* Instances of Jobs. *)
EXTENDS Jobs

CONSTANTS w1, w2, o1, o2
==============================================================================
