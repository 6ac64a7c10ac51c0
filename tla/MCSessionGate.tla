---------------------------- MODULE MCSessionGate ----------------------------
(* Instances of SessionGate: who sends what into one conversation. *)
EXTENDS SessionGate

CONSTANTS a1, a2, aj, al, b1, g1, g2, p1, chan, ana, ben, hub

MCKeyOf == [m \in Msgs |-> chan]

MCSender == [m \in Msgs |-> CASE m = b1 -> ben [] m \in {g1, g2} -> hub [] OTHER -> ana]

MCKind == [m \in Msgs |->
  CASE m = aj -> "job" [] m = al -> "late"
    [] m \in {g1, g2} -> "github" [] OTHER -> "native"]

MCBase == [m \in Msgs |-> a2]

\* Any of them may be admitted first: p1 and al were held by the collector, or
\* were not, and a2 and a1 may be told apart by nothing but their admission.
MCReceivedAt == [m \in Msgs |->
  CASE m \in {a1, a2} -> 1 [] m \in {b1, al} -> 2 [] OTHER -> 3]

\* GitHub's deliveries differ only in name.
Deliveries == Permutations({g1, g2})
==============================================================================
