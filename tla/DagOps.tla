------------------------------- MODULE DagOps -------------------------------
(***************************************************************************)
(* The pure part of pradyos/imperium/dag.py: what add_task computes from     *)
(* the edges it finds.  A graph is a set of pairs <<parent, child>>, the     *)
(* content of DependencyGraph._edges.                                        *)
(***************************************************************************)
EXTENDS Naturals, Sequences, FiniteSets

(* The heads of the edges that leave a set of nodes. *)
ChildrenOf(E, S) == {e[2] : e \in {x \in E : x[1] \in S}}

(* Every node a path of E leads to from n, n included. *)
Reach(E, n) ==
    LET R[k \in 0..Cardinality(E)] ==
          IF k = 0 THEN {n} ELSE R[k-1] \cup ChildrenOf(E, R[k-1])
    IN  R[Cardinality(E)]

(* Mutant: the cycle is looked for in the wrong direction. *)
MutWouldCycle(E, parent, child) == child \in Reach(E, parent) \/ parent = child

(* _would_cycle: the edge parent -> child closes a cycle when child already  *)
(* reaches parent (a node reaches itself).                                   *)
WouldCycle(E, parent, child) == parent \in Reach(E, child)

(* add_task: the parents are taken in list order and an edge is added for    *)
(* each; the first that would close a cycle raises CycleDetected, and the    *)
(* edges added before it stay.                                               *)
AddTask(E, t, parents) ==
    LET A[k \in 0..Len(parents)] ==
          IF k = 0 THEN [edges |-> E, ok |-> TRUE]
          ELSE LET prev == A[k-1] IN
               IF ~prev.ok \/ WouldCycle(prev.edges, parents[k], t)
               THEN [prev EXCEPT !.ok = FALSE]
               ELSE [edges |-> prev.edges \cup {<<parents[k], t>>}, ok |-> TRUE]
    IN  A[Len(parents)]
=============================================================================
