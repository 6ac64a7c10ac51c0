--------------------------- MODULE MCFollowTable ---------------------------
(* Bounds for FollowTable: see README.  Turns are interchangeable. *)
EXTENDS FollowTable, TLC

Symmetry == Permutations(Sessions)

=============================================================================
