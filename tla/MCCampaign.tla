----------------------------- MODULE MCCampaign -----------------------------
(* Small instances of Campaign. *)
EXTENDS Campaign

CONSTANTS n1, n2, n3, n4

(* n2 and n3 need n1, and n4 needs both. *)
Diamond == [n \in Nodes |-> CASE n = n1 -> {} [] n = n4 -> {n2, n3} [] OTHER -> {n1}]
AsNumbered == SelectSeq(<<n1, n2, n3, n4>>, LAMBDA n : n \in Nodes)
AnyPlan == [n \in Nodes |-> PlanKinds]
NoPlan == [n \in Nodes |-> {"none"}]
=============================================================================
