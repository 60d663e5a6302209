------------------------- MODULE ImperiumRefinement -------------------------
(* The kernel implements the life cycle: the state of a task is the state    *)
(* of the record registered for it.                                          *)
EXTENDS Imperium

Life == INSTANCE TaskLifecycle WITH
    Dependencies <- [t \in Tasks |-> {DependsOn[t][k] : k \in 1..Len(DependsOn[t])}],
    state <- [t \in Tasks |-> StateOf(t)]

(* Every step of the kernel is a step of the life cycle or changes no        *)
(* task's state, although a retry swaps the record under the registry and    *)
(* approval acts on a record it looked up one step earlier.                  *)
LifeSpec == Life!Spec
=============================================================================
