----------------------------- MODULE MCImperium -----------------------------
(* Small instances of Imperium: three tasks at most, each in a role. *)
EXTENDS ImperiumRefinement, TLC

CONSTANTS t1, t2, t3

NoDeps == [t \in Tasks |-> <<>>]
Flat == [t \in Tasks |-> 1]
NoRetry == [t \in Tasks |-> 0]
OneRetry == [t \in Tasks |-> 1]
MixedRetry == [t \in Tasks |-> IF t = t1 THEN 1 ELSE 0]
AnyOrder == [t \in Tasks |-> {}]

(* t2 needs t1, and outranks it. *)
Chain == [t \in Tasks |-> IF t = t2 THEN <<t1>> ELSE <<>>]
ChildFirst == [t \in Tasks |-> IF t = t2 THEN 0 ELSE 1]
ParentsFirst == [t \in Tasks |-> IF t = t2 THEN {t1} ELSE {}]

=============================================================================
