----------------------------- MODULE Generation -----------------------------
(***************************************************************************)
(* What the two daemons promise each other about configurations.  The      *)
(* broker runs one generation at a time.  The gateway serves with the      *)
(* broker generation that it last agreed on, and agrees only on one that   *)
(* the broker has run since the gateway last began to ask.                 *)
(***************************************************************************)
CONSTANT Digests

VARIABLES active,  \* the digest the broker runs
          recent,  \* those it ran since the gateway began to ask
          served   \* the one the gateway serves with, or "none"

vars == <<active, recent, served>>

Init == active \in Digests /\ recent = {active} /\ served = "none"

\* The broker changes over, or starts again.
Activate(d) == active' = d /\ recent' = recent \cup {d} /\ UNCHANGED served

Ask == recent' = {active} /\ UNCHANGED <<active, served>>

Agree(d) == d \in recent /\ served' = d /\ UNCHANGED <<active, recent>>

\* The gateway starts again.
Forget == served' = "none" /\ recent' = {active} /\ UNCHANGED active

Next == Ask \/ Forget \/ \E d \in Digests : Activate(d) \/ Agree(d)

Spec == Init /\ [][Next]_vars
==============================================================================
