---------------------------- MODULE MCWakeStore ----------------------------
(* Instances of WakeStore for TLC. *)
EXTENDS WakeStore

CONSTANTS ann, room, pr

MCPeople == {ann}
MCSpaces == {room}
MCTargets == {pr}
==============================================================================
