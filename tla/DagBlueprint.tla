---------------------------- MODULE DagBlueprint ----------------------------
(***************************************************************************)
(* The task graphs ("blueprints") that sched_d accepts, as                 *)
(* sched_dag_validate_and_build leaves them in memory: a set of nodes and, *)
(* for every node, the set of nodes it depends on.  A node is named by its *)
(* index in dag->nodes, so a smaller number is scanned earlier.            *)
(***************************************************************************)
EXTENDS Integers, FiniteSets

(* Nodes whose dependencies are all processed get processed; a set that is *)
(* closed under that rule contains every node Kahn's loop ever marks.      *)
ProcessedClosed(b, P) ==
    \A n \in b.nodes : b.deps[n] \subseteq P => n \in P

(* The nodes Kahn's loop has marked (indeg = SIZE_MAX) when a full pass    *)
(* makes no progress: the least closed set.                                *)
Processed(b) ==
    {n \in b.nodes : \A P \in SUBSET b.nodes : ProcessedClosed(b, P) => n \in P}

(* sched_dag_detect_cycle: the graph is accepted when every node was       *)
(* processed.                                                              *)
CycleFree(b) == Processed(b) = b.nodes

(* sched_dag_validate_deps: every dependency names a node of the graph.    *)
DepsExist(b) == \A n \in b.nodes : b.deps[n] \subseteq b.nodes

ValidBlueprint(b) == b.nodes # {} /\ DepsExist(b) /\ CycleFree(b)

(* What the engine needs of an accepted graph: every non-empty set of its  *)
(* nodes has a member that depends on no other member.                     *)
WellFounded(b) ==
    \A S \in SUBSET b.nodes : S # {} => \E n \in S : b.deps[n] \cap S = {}
=============================================================================
