------------------------------ MODULE MCReload ------------------------------
(* Instances of Reload: x2 and x3 differ in their secrets only, x4 does not
   know the gateway as its owner, x5 is x1 but for a setting that takes a
   restart, and so is k3 of k1. *)
EXTENDS Reload, TLC

CONSTANTS x1, x2, x3, x4, x5, d1, d2, d3, k1, k2, k3, p1, p2, r1, r2, r3

MCDigestOf == x1 :> d1 @@ x2 :> d2 @@ x3 :> d2 @@ x4 :> d3 @@ x5 :> d1
MCBrokerPin == [x \in Contents |-> IF x = x5 THEN p2 ELSE p1]
MCGatewayPin == [k \in Configs |-> IF k = k3 THEN p2 ELSE p1]
==============================================================================
