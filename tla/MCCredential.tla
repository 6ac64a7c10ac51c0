---------------------------- MODULE MCCredential ----------------------------
(* Bounds for Credential: see README. *)
EXTENDS Credential

=============================================================================
