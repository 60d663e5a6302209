--------------------------- MODULE DependencyGraph ---------------------------
(***************************************************************************)
(* The DependencyGraph object of pradyos/imperium/dag.py: the two edge       *)
(* maps it keeps, add_task, remove, and topological_order, whose loop runs   *)
(* under the same lock and is taken here one node per step, because the      *)
(* order in which Python iterates a set is not determined.                   *)
(***************************************************************************)
EXTENDS DagOps, SequencesExt

CONSTANTS
    Tasks,        \* task identifiers
    DepLists,     \* the depends_on lists callers pass
    MaxAdds,      \* bound: calls of add_task
    MaxRemoves    \* bound: calls of remove (the kernel makes none)

ASSUME DepListsAssumption == DepLists \subseteq Seq(Tasks)
ASSUME DagBoundAssumption == MaxAdds \in Nat /\ MaxRemoves \in Nat

VARIABLES
    edges,     \* _edges:   pairs <<parent, child>>
    reverse,   \* _reverse: the same pairs, as the child's set of parents has them
    keys,      \* the keys of the defaultdict _edges, those with an empty set too
    sort,      \* locals of topological_order: pc, indeg, q and order
    calls      \* how often add_task and remove were called

dagVars == <<edges, reverse, keys, sort, calls>>

Idle == [pc |-> "idle", indeg |-> <<>>, q |-> <<>>, order |-> <<>>]

Parents(t) == {e[1] : e \in {x \in reverse : x[2] = t}}
Nodes == keys \cup {e[2] : e \in edges} \cup {e[2] : e \in reverse}

DagInit ==
    /\ edges = {} /\ reverse = {} /\ keys = {}
    /\ sort = Idle
    /\ calls = [add |-> 0, remove |-> 0]

(* add_task: the partial result stays when the call raises. *)
AddTaskCall(t, parents) ==
    /\ sort.pc = "idle" /\ calls.add < MaxAdds
    /\ LET after == AddTask(edges, t, parents).edges IN
         /\ edges' = after
         /\ reverse' = reverse \cup (after \ edges)
         /\ keys' = keys \cup {e[1] : e \in after}
    /\ calls' = [calls EXCEPT !.add = @ + 1]
    /\ UNCHANGED sort

(* remove: drops the edges into t from both maps, and the edges out of t     *)
(* from _edges only.  Indexing the defaultdict creates a parent's key.       *)
RemoveCall(t) ==
    /\ sort.pc = "idle" /\ calls.remove < MaxRemoves
    /\ edges' = {e \in edges : e[1] # t /\ ~(e[2] = t /\ e[1] \in Parents(t))}
    /\ reverse' = {e \in reverse : e[2] # t}
    /\ keys' = (keys \cup Parents(t)) \ {t}
    /\ calls' = [calls EXCEPT !.remove = @ + 1]
    /\ UNCHANGED sort

(* topological_order, up to its loop. *)
SortStart ==
    /\ sort.pc = "idle"
    /\ LET indeg == [n \in Nodes |-> Cardinality(Parents(n))]
       IN  \E q \in SetToSeqs({n \in Nodes : indeg[n] = 0}) :
             sort' = [pc |-> "loop", indeg |-> indeg, q |-> q, order |-> <<>>]
    /\ UNCHANGED <<edges, reverse, keys, calls>>

(* One turn of the loop: the node at the head of the queue is output and     *)
(* its children lose one incoming edge each.                                 *)
SortVisit ==
    /\ sort.pc = "loop" /\ sort.q # <<>>
    /\ LET n == Head(sort.q)
           children == ChildrenOf(edges, {n})
           indeg == [m \in Nodes |->
                       sort.indeg[m] - (IF m \in children THEN 1 ELSE 0)]
       IN  \E free \in SetToSeqs({m \in children : indeg[m] = 0}) :
             sort' = [sort EXCEPT !.indeg = indeg,
                                  !.q = Tail(@) \o free,
                                  !.order = Append(@, n)]
    /\ UNCHANGED <<edges, reverse, keys, calls>>

(* The queue is empty: the order is returned, or CycleDetected is raised     *)
(* because a node was never freed.                                           *)
SortEnd ==
    /\ sort.pc = "loop" /\ sort.q = <<>>
    /\ sort' = [sort EXCEPT !.pc = IF Len(sort.order) = Cardinality(Nodes)
                                   THEN "returned" ELSE "raised"]
    /\ UNCHANGED <<edges, reverse, keys, calls>>

(* The caller has its answer and the lock is free again. *)
SortLeave ==
    /\ sort.pc \in {"returned", "raised"}
    /\ sort' = Idle
    /\ UNCHANGED <<edges, reverse, keys, calls>>

DagNext ==
    \/ \E t \in Tasks, parents \in DepLists : AddTaskCall(t, parents)
    \/ \E t \in Tasks : RemoveCall(t)
    \/ SortStart \/ SortVisit \/ SortEnd \/ SortLeave

DagSpec == DagInit /\ [][DagNext]_dagVars

-----------------------------------------------------------------------------
Acyclic == \A e \in edges : e[1] \notin Reach(edges, e[2])

EdgesMirrored == edges \subseteq reverse

SortSound ==
    /\ sort.pc = "loop" => sort.indeg \in [Nodes -> Nat]
    /\ sort.pc = "returned" =>
        /\ ToSet(sort.order) = Nodes
        /\ \A e \in edges : \E i, j \in 1..Len(sort.order) :
              i < j /\ sort.order[i] = e[1] /\ sort.order[j] = e[2]

(* No sequence of add_task calls, accepted, refused or refused half way,     *)
(* leaves a cycle in _edges; the two maps agree on every edge that is still  *)
(* there: remove never forgets a parent that still lists the child; and no   *)
(* node loses more incoming edges than topological_order has counted, whose  *)
(* order lists every node once, parents first.                               *)
GraphSound == Acyclic /\ EdgesMirrored /\ SortSound
=============================================================================
