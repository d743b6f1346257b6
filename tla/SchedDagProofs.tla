--------------------------- MODULE SchedDagProofs ---------------------------
(***************************************************************************)
(* Proofs about the DAG engine for every number of graphs, every set of    *)
(* blueprints, every batch size and both failure policies.                 *)
(***************************************************************************)
EXTENDS SchedDag, FiniteSetTheorems, TLAPS

-----------------------------------------------------------------------------
(* Facts about one graph.                                                  *)

(* A graph that Kahn's loop accepts is well-founded: were every member of  *)
(* a set S to depend on a member of S, the nodes outside S would be closed *)
(* and no node of S would ever be processed.                               *)
LEMMA AcceptedIsWellFounded ==
    ASSUME NEW b, ValidBlueprint(b)
    PROVE  WellFounded(b)
<1> SUFFICES ASSUME NEW S \in SUBSET b.nodes, S # {},
                    \A n \in S : b.deps[n] \cap S # {}
             PROVE  FALSE
    BY DEF WellFounded
<1> DEFINE P == b.nodes \ S
<1>1. ProcessedClosed(b, P)
    BY DEF ProcessedClosed
<1>2. PICK n \in S : TRUE
    OBVIOUS
<1>3. n \in Processed(b)
    BY DEF ValidBlueprint, CycleFree
<1>4. P \in SUBSET b.nodes
    OBVIOUS
<1>5. n \in P
    BY <1>1, <1>3, <1>4 DEF Processed
<1> QED
    BY <1>2, <1>5

(* The nodes that the propagation cancels: every one of them is pending    *)
(* and has a broken or an equally unreachable dependency, and no pending   *)
(* node with a broken dependency is left out.                              *)
LEMMA UnreachableFacts ==
    ASSUME NEW g
    PROVE  /\ Unreachable(g) \subseteq PendingNodes(g)
           /\ UnreachableClosed(g, Unreachable(g))
           /\ \A n \in Unreachable(g) : \E m \in g.bp.deps[n] :
                g.st[m] \in DepBroken \/ m \in Unreachable(g)
<1> DEFINE U == Unreachable(g)
<1>1. U \subseteq PendingNodes(g)
    BY DEF Unreachable
<1>2. UnreachableClosed(g, U)
    <2> SUFFICES ASSUME NEW n \in PendingNodes(g), NEW m \in g.bp.deps[n],
                        g.st[m] \in DepBroken \/ m \in U,
                        NEW S \in SUBSET PendingNodes(g),
                        UnreachableClosed(g, S)
                 PROVE  n \in S
        BY DEF UnreachableClosed, Unreachable
    <2>1. m \in U => m \in S
        BY DEF Unreachable
    <2> QED
        BY <2>1 DEF UnreachableClosed
<1>3. ASSUME NEW n \in U, \A m \in g.bp.deps[n] : g.st[m] \notin DepBroken /\ m \notin U
      PROVE  FALSE
    <2> DEFINE S == U \ {n}
    <2>1. UnreachableClosed(g, S)
        BY <1>2, <1>3 DEF UnreachableClosed
    <2>2. S \in SUBSET PendingNodes(g)
        BY <1>1
    <2>3. n \in S
        BY <1>3, <2>1, <2>2 DEF Unreachable
    <2> QED
        BY <2>3
<1> QED
    BY <1>1, <1>2, <1>3

(* What a blueprint looks like, for the SMT solver.                        *)
LEMMA BlueprintFacts ==
    ASSUME NEW b \in Blueprint
    PROVE  /\ b.nodes \subseteq Node
           /\ b.deps \in [Node -> SUBSET Node]
           /\ b.maxRetries \in [Node -> Nat]
           /\ b.budget \in Nat \cup {Unlimited}
    BY BlueprintAssumption DEF BlueprintShape

(* The cascade of an abort: the graph is closed with status s, its pending *)
(* nodes are canceled and nothing else changes.                            *)
LEMMA CascadeFacts ==
    ASSUME NEW g \in Graph, Accepted(g), GraphInv(g), g.status = "ACTIVE",
           NEW s \in {"FAILED", "CANCELED"},
           s = "FAILED" => \E n \in g.bp.nodes : g.st[n] = "FAILED"
    PROVE  LET h == CascadeCancel([g EXCEPT !.status = s])
           IN  /\ h \in Graph
               /\ Accepted(h)
               /\ GraphInv(h)
               /\ h.status = s
               /\ h.bp = g.bp
               /\ \A m \in Node : h.st[m] = "RUNNING" <=> g.st[m] = "RUNNING"
<1> DEFINE c == [g EXCEPT !.status = s]
           h == CascadeCancel(c)
<1> USE BlueprintFacts
<1>a. /\ c \in Graph /\ c.status = s /\ c.bp = g.bp /\ c.retries = g.retries
      /\ c.st = g.st /\ c.timer = g.timer /\ c.budget = g.budget
    BY DEF Graph, DagStatus
<1> HIDE DEF c
<1>1. /\ h \in Graph /\ h.status = s /\ h.bp = g.bp /\ h.retries = g.retries
      /\ h.st = [n \in Node |-> IF n \in g.bp.nodes /\ g.st[n] \in {"PENDING", "READY"}
                                THEN "CANCELED" ELSE g.st[n]]
    <2> DEFINE x == [n \in Node |-> IF n \in g.bp.nodes /\ g.st[n] \in {"PENDING", "READY"}
                                   THEN "CANCELED" ELSE g.st[n]]
               t == [n \in Node |-> IF n \in g.bp.nodes /\ g.st[n] \in {"PENDING", "READY"}
                                   THEN 0 ELSE g.timer[n]]
    <2>1. h = [c EXCEPT !.st = x, !.timer = t]
        BY <1>a DEF CascadeCancel
    <2>2. x \in [Node -> NodeStatus] /\ t \in [Node -> Int]
        BY DEF Graph, NodeStatus
    <2> HIDE DEF x, t, h
    <2>3. h \in Graph /\ h.st = x /\ h.bp = c.bp /\ h.status = c.status
          /\ h.retries = c.retries
        BY <1>a, <2>1, <2>2 DEF Graph
    <2> QED
        BY <1>a, <2>3 DEF x
<1> HIDE DEF h
<1>2. Accepted(h)
    BY <1>1 DEF Accepted
<1>3. \A m \in Node : h.st[m] = "RUNNING" <=> g.st[m] = "RUNNING"
    BY <1>1
<1>4. GraphStarted(h)
    BY <1>1 DEF GraphInv, GraphStarted, Accepted, ValidBlueprint, DepsExist
<1>5. GraphClosed(h) /\ GraphCause(h) /\ GraphVerdictOf(h)
    BY <1>1 DEF GraphClosed, GraphCause, GraphVerdictOf, Accepted
<1>6. GraphInv(h)
    BY <1>1, <1>4, <1>5 DEF GraphInv
<1> QED
    BY <1>1, <1>2, <1>3, <1>6 DEF h, c

(* The loop of a cancel: the same, with the retry clocks left alone.       *)
LEMMA CancelFacts ==
    ASSUME NEW g \in Graph, Accepted(g), GraphInv(g), g.status = "ACTIVE"
    PROVE  LET h == CancelPending(g)
           IN  /\ h \in Graph
               /\ Accepted(h)
               /\ GraphInv(h)
               /\ h.status = "CANCELED"
               /\ h.bp = g.bp
               /\ \A m \in Node : h.st[m] = "RUNNING" <=> g.st[m] = "RUNNING"
               /\ \A m \in g.bp.nodes : g.st[m] \in NodeDone => h.st[m] = g.st[m]
<1> DEFINE h == CancelPending(g)
           x == [n \in Node |-> IF n \in g.bp.nodes /\ g.st[n] \in {"PENDING", "READY"}
                                THEN "CANCELED" ELSE g.st[n]]
<1> USE BlueprintFacts
<1>1. h = [g EXCEPT !.status = "CANCELED", !.st = x]
    BY DEF CancelPending
<1>2. x \in [Node -> NodeStatus]
    BY DEF Graph, NodeStatus
<1>3. \A n \in Node : x[n] = IF n \in g.bp.nodes /\ g.st[n] \in {"PENDING", "READY"}
                             THEN "CANCELED" ELSE g.st[n]
    OBVIOUS
<1> HIDE DEF x, h
<1>4. /\ h \in Graph /\ h.status = "CANCELED" /\ h.bp = g.bp
      /\ h.retries = g.retries /\ h.st = x
    BY <1>1, <1>2 DEF Graph, DagStatus
<1>5. Accepted(h)
    BY <1>4 DEF Accepted
<1>6. \A m \in Node : h.st[m] = "RUNNING" <=> g.st[m] = "RUNNING"
    BY <1>3, <1>4
<1>7. GraphStarted(h)
    BY <1>3, <1>4 DEF GraphInv, GraphStarted, Accepted, ValidBlueprint, DepsExist
<1>8. GraphClosed(h) /\ GraphCause(h) /\ GraphVerdictOf(h)
    BY <1>3, <1>4 DEF GraphClosed, GraphCause, GraphVerdictOf, Accepted
<1>9. GraphInv(h)
    BY <1>3, <1>4, <1>7, <1>8 DEF GraphInv
<1>10. \A m \in g.bp.nodes : g.st[m] \in NodeDone => h.st[m] = g.st[m]
    BY <1>3, <1>4 DEF NodeDone, Accepted
<1> QED
    BY <1>4, <1>5, <1>6, <1>9, <1>10 DEF h

(* One node lands in status x; the graph keeps everything else.            *)
LEMMA NodeFinalFacts ==
    ASSUME NEW g \in Graph, NEW n \in Node, NEW x \in NodeStatus
    PROVE  /\ NodeFinal(g, n, x) \in Graph
           /\ NodeFinal(g, n, x).st = [g.st EXCEPT ![n] = x]
           /\ NodeFinal(g, n, x).bp = g.bp
           /\ NodeFinal(g, n, x).status = g.status
           /\ NodeFinal(g, n, x).retries = g.retries
<1> DEFINE s == [g.st EXCEPT ![n] = x]
           t == [g.timer EXCEPT ![n] = 0]
           h == NodeFinal(g, n, x)
<1>1. s \in [Node -> NodeStatus] /\ t \in [Node -> Int]
    BY DEF Graph
<1>2. h = [g EXCEPT !.st = s, !.timer = t]
    BY DEF NodeFinal
<1> HIDE DEF s, t, h
<1>3. /\ h \in Graph /\ h.st = s /\ h.bp = g.bp /\ h.status = g.status
      /\ h.retries = g.retries
    BY <1>1, <1>2 DEF Graph
<1> QED
    BY <1>3 DEF s, h

(* A running node n of graph g lands in x and graph h results, with the    *)
(* graph's status kept and x allowed by the grading rules.                 *)
Lands(g, n, x, h) ==
    /\ g \in Graph /\ Accepted(g) /\ GraphInv(g)
    /\ n \in g.bp.nodes /\ g.st[n] = "RUNNING"
    /\ x \in {"COMPLETED", "SEMANTIC_FAILED", "FAILED", "CANCELED", "PENDING"}
    /\ g.status # "ACTIVE" => x \in {"CANCELED", "FAILED"}
    /\ g.status = "ACTIVE" => x # "CANCELED"
    /\ h \in Graph /\ h.bp = g.bp /\ h.status = g.status
    /\ h.st = [g.st EXCEPT ![n] = x]
    /\ Accepted(h)

(* Such a landing leaves a consistent graph.                               *)
LEMMA LandingFacts ==
    ASSUME NEW g, NEW n, NEW x, NEW h, Lands(g, n, x, h)
    PROVE  /\ h \in Graph
           /\ Accepted(h)
           /\ GraphInv(h)
           /\ \A m \in Node : h.st[m] = "RUNNING" <=> g.st[m] = "RUNNING" /\ m # n
<1> USE DEF Lands
<1> USE BlueprintFacts
<1>0. n \in Node /\ g.bp \in Blueprint /\ g.st \in [Node -> NodeStatus]
      /\ g.bp.nodes \subseteq Node /\ g.bp.deps \in [Node -> SUBSET Node]
    BY DEF Accepted, Graph
<1>1. \A m \in Node : h.st[m] = IF m = n THEN x ELSE g.st[m]
    BY <1>0
<1>2. g.status \notin {"COMPLETED", "SEMANTIC_FAILED"}
    BY DEF GraphInv, GraphVerdictOf
<1>3. GraphStarted(h)
    BY <1>0, <1>1 DEF GraphInv, GraphStarted, Accepted, ValidBlueprint, DepsExist
<1>4. GraphCause(h)
    BY <1>0, <1>1 DEF GraphInv, GraphCause
<1>5. GraphClosed(h)
    BY <1>0, <1>1 DEF GraphInv, GraphClosed
<1>6. GraphVerdictOf(h)
    BY <1>0, <1>1, <1>2 DEF GraphInv, GraphVerdictOf
<1> QED
    BY <1>0, <1>1, <1>3, <1>4, <1>5, <1>6 DEF GraphInv

(* sched_dag_write_back_node keeps a graph consistent, and the node whose  *)
(* result is written back is the only one that stops running.              *)
LEMMA WriteBackFacts ==
    ASSUME NEW g \in Graph, Accepted(g), GraphInv(g),
           NEW n \in g.bp.nodes, g.st[n] = "RUNNING", NEW r \in Outcome
    PROVE  LET h == WriteBack(g, n, r)
           IN  /\ h \in Graph
               /\ Accepted(h)
               /\ GraphInv(h)
               /\ \A m \in Node : h.st[m] = "RUNNING" <=> g.st[m] = "RUNNING" /\ m # n
<1> DEFINE h == WriteBack(g, n, r)
           Goal == /\ h \in Graph
                   /\ Accepted(h)
                   /\ GraphInv(h)
                   /\ \A m \in Node :
                        h.st[m] = "RUNNING" <=> g.st[m] = "RUNNING" /\ m # n
<1> SUFFICES Goal
    OBVIOUS
<1> USE BlueprintFacts
<1>0. n \in Node /\ g.bp \in Blueprint /\ g.st \in [Node -> NodeStatus]
    BY DEF Accepted, Graph
<1>1. CASE g.status \in {"CANCELED", "FAILED"}
    <2>1. h = NodeFinal(g, n, "CANCELED")
        BY <1>1 DEF WriteBack
    <2> HIDE DEF h
    <2>2. /\ h \in Graph /\ h.st = [g.st EXCEPT ![n] = "CANCELED"]
          /\ h.bp = g.bp /\ h.status = g.status /\ h.retries = g.retries
        BY <1>0, <2>1, NodeFinalFacts DEF NodeStatus
    <2>3. Accepted(h)
        BY <2>2 DEF Accepted
    <2>4. Lands(g, n, "CANCELED", h)
        BY <1>1, <2>2, <2>3 DEF Lands
    <2> QED
        BY <2>4, LandingFacts
<1>2. CASE g.status \notin {"CANCELED", "FAILED"}
    <2>0. g.status = "ACTIVE"
        BY <1>2 DEF GraphInv, GraphVerdictOf, Accepted, Graph, DagStatus
    <2>1. CASE r \in Success
        <3> DEFINE x == IF r = "empty" THEN "SEMANTIC_FAILED"
                        ELSE IF r = "rejected" THEN "FAILED" ELSE "COMPLETED"
        <3>1. h = NodeFinal(g, n, x)
            BY <1>2, <2>1 DEF WriteBack, NodeSucceed, Success
        <3> HIDE DEF h
        <3>2. x \in NodeStatus /\ x \in {"COMPLETED", "SEMANTIC_FAILED", "FAILED"}
            BY DEF NodeStatus
        <3> HIDE DEF x
        <3>3. /\ h \in Graph /\ h.st = [g.st EXCEPT ![n] = x]
              /\ h.bp = g.bp /\ h.status = g.status /\ h.retries = g.retries
            BY <1>0, <3>1, <3>2, NodeFinalFacts
        <3>4. Accepted(h)
            BY <3>3 DEF Accepted
        <3>5. Lands(g, n, x, h)
            BY <2>0, <3>2, <3>3, <3>4 DEF Lands
        <3> QED
            BY <3>5, LandingFacts
    <2>2. CASE r \notin Success /\ (r = "fatal" \/ ~FatalCascade)
        <3> DEFINE f == [g EXCEPT !.st[n] = "FAILED"]
        <3>1. h = CascadeCancel([f EXCEPT !.status = "FAILED"])
            BY <1>2, <2>2 DEF WriteBack, DagAbort, Graph
        <3>2. /\ f \in Graph /\ f.st = [g.st EXCEPT ![n] = "FAILED"]
              /\ f.bp = g.bp /\ f.status = g.status /\ f.retries = g.retries
            BY <1>0 DEF Graph, NodeStatus
        <3> HIDE DEF f, h
        <3>3. Accepted(f)
            BY <3>2 DEF Accepted
        <3>4. /\ GraphInv(f)
              /\ \A m \in Node : f.st[m] = "RUNNING" <=> g.st[m] = "RUNNING" /\ m # n
            <4>1. Lands(g, n, "FAILED", f)
                BY <2>0, <3>2, <3>3 DEF Lands
            <4> QED
                BY <4>1, LandingFacts
        <3>5. f.status = "ACTIVE" /\ \E k \in f.bp.nodes : f.st[k] = "FAILED"
            BY <1>0, <2>0, <3>2
        <3> QED
            BY <3>1, <3>2, <3>3, <3>4, <3>5, CascadeFacts, ZenonT(60)
    <2>3. CASE r \notin Success /\ r # "fatal" /\ FatalCascade /\ MayRetry(g, n, r)
        <3>1. h = NodeBackoff(g, n)
            BY <1>2, <2>3 DEF WriteBack
        <3>2. /\ h \in Graph /\ h.st = [g.st EXCEPT ![n] = "PENDING"]
              /\ h.bp = g.bp /\ h.status = g.status
              /\ h.retries = [g.retries EXCEPT ![n] = @ + 1]
            <4> DEFINE k == RetryDelay * 2 ^ g.retries[n]
                       s == [g.st EXCEPT ![n] = "PENDING"]
                       c == [g.retries EXCEPT ![n] = @ + 1]
                       t == [g.timer EXCEPT ![n] = k]
            <4>1. g.retries[n] \in Nat
                BY <1>0 DEF Graph
            <4>2. k \in Int
                BY <4>1, SizeAssumption
            <4>3. h = [g EXCEPT !.st = s, !.retries = c, !.timer = t]
                BY <3>1 DEF NodeBackoff
            <4> HIDE DEF k, h
            <4>4. /\ s \in [Node -> NodeStatus] /\ c \in [Node -> Nat]
                  /\ t \in [Node -> Int]
                BY <1>0, <4>1, <4>2 DEF Graph, NodeStatus
            <4> HIDE DEF s, c, t
            <4>5. /\ h \in Graph /\ h.st = s /\ h.bp = g.bp
                  /\ h.status = g.status /\ h.retries = c
                BY <4>3, <4>4 DEF Graph
            <4> QED
                BY <4>5 DEF s, c
        <3> HIDE DEF h
        <3>3. Accepted(h)
            BY <1>0, <2>3, <3>2 DEF Accepted, MayRetry, Graph
        <3>4. Lands(g, n, "PENDING", h)
            BY <2>0, <3>2, <3>3 DEF Lands
        <3> QED
            BY <3>4, LandingFacts
    <2>4. CASE r \notin Success /\ r # "fatal" /\ FatalCascade /\ ~MayRetry(g, n, r)
        <3>1. h = [g EXCEPT !.st[n] = "FAILED"]
            BY <1>2, <2>4 DEF WriteBack
        <3>2. /\ h \in Graph /\ h.st = [g.st EXCEPT ![n] = "FAILED"]
              /\ h.bp = g.bp /\ h.status = g.status /\ h.retries = g.retries
            <4> DEFINE s == [g.st EXCEPT ![n] = "FAILED"]
            <4>1. h = [g EXCEPT !.st = s]
                BY <3>1
            <4>2. s \in [Node -> NodeStatus]
                BY <1>0 DEF Graph, NodeStatus
            <4> HIDE DEF h, s
            <4>3. /\ h \in Graph /\ h.st = s
                  /\ h.bp = g.bp /\ h.status = g.status /\ h.retries = g.retries
                BY <4>1, <4>2 DEF Graph
            <4> QED
                BY <4>3 DEF s
        <3> HIDE DEF h
        <3>3. Accepted(h)
            BY <3>2 DEF Accepted
        <3>4. Lands(g, n, "FAILED", h)
            BY <2>0, <3>2, <3>3 DEF Lands
        <3> QED
            BY <3>4, LandingFacts
    <2> QED
        BY <2>1, <2>2, <2>3, <2>4
<1> QED
    BY <1>1, <1>2

NoBrokenPending(g) ==
    g.status = "ACTIVE" =>
        \A n \in g.bp.nodes : g.st[n] = "PENDING" =>
            \A m \in g.bp.deps[n] : g.st[m] \notin DepBroken

(* sched_dag_propagate_unreachable keeps a graph consistent and leaves no  *)
(* pending node of an active graph with a broken dependency.               *)
LEMMA PropagateFacts ==
    ASSUME NEW g \in Graph, Accepted(g), GraphInv(g)
    PROVE  LET h == PropagateUnreachable(g)
           IN  /\ h \in Graph
               /\ Accepted(h)
               /\ GraphInv(h)
               /\ NoBrokenPending(h)
               /\ \A m \in Node : h.st[m] = "RUNNING" <=> g.st[m] = "RUNNING"
<1> DEFINE h == PropagateUnreachable(g)
           Goal == /\ h \in Graph
                   /\ Accepted(h)
                   /\ GraphInv(h)
                   /\ NoBrokenPending(h)
                   /\ \A m \in Node : h.st[m] = "RUNNING" <=> g.st[m] = "RUNNING"
<1> SUFFICES Goal
    OBVIOUS
<1>1. CASE g.status # "ACTIVE"
    <2>1. h = g
        BY <1>1 DEF PropagateUnreachable
    <2> HIDE DEF h
    <2> QED
        BY <1>1, <2>1 DEF NoBrokenPending
<1>2. CASE g.status = "ACTIVE"
    <2> DEFINE U == Unreachable(g)
               x == [n \in Node |-> IF n \in U THEN "CANCELED" ELSE g.st[n]]
               t == [n \in Node |-> IF n \in U THEN 0 ELSE g.timer[n]]
    <2>1. h = [g EXCEPT !.st = x, !.timer = t]
        BY <1>2 DEF PropagateUnreachable
    <2>2. x \in [Node -> NodeStatus] /\ t \in [Node -> Int]
        BY DEF Graph, NodeStatus
    <2> HIDE DEF h, x, t
    <2>3. /\ h \in Graph /\ h.st = x /\ h.bp = g.bp /\ h.status = g.status
          /\ h.retries = g.retries
        BY <2>1, <2>2 DEF Graph
    <2>4. Accepted(h)
        BY <2>3 DEF Accepted
    <2>5. /\ g.bp.nodes \subseteq Node
          /\ g.bp.deps \in [Node -> SUBSET Node]
          /\ \A n \in g.bp.nodes : g.bp.deps[n] \subseteq g.bp.nodes
        BY BlueprintFacts DEF Accepted, ValidBlueprint, DepsExist
    <2>6. \A n \in Node : h.st[n] = IF n \in U THEN "CANCELED" ELSE g.st[n]
        BY <2>3 DEF x
    <2>7. /\ U \subseteq PendingNodes(g)
          /\ UnreachableClosed(g, U)
        BY UnreachableFacts
    <2>8. \A n \in U : n \in g.bp.nodes /\ n \in Node /\ g.st[n] = "PENDING"
        BY <2>5, <2>7 DEF PendingNodes
    <2> HIDE DEF U
    <2>9. \A m \in Node : h.st[m] = "RUNNING" <=> g.st[m] = "RUNNING"
        BY <2>6, <2>8
    <2>10. GraphStarted(h)
        BY <2>3, <2>5, <2>6, <2>8 DEF GraphInv, GraphStarted
    <2>11. GraphCause(h)
        <3> SUFFICES ASSUME NEW n \in g.bp.nodes, h.st[n] = "CANCELED"
                     PROVE  \E k \in g.bp.nodes : h.st[k] \in {"FAILED", "SEMANTIC_FAILED"}
            BY <2>3 DEF GraphCause
        <3>1. \E k \in g.bp.nodes : g.st[k] \in DepBroken
            <4>1. CASE n \notin U
                BY <2>5, <2>6, <4>1 DEF DepBroken
            <4>2. CASE n \in U
                <5> SUFFICES ASSUME \A k \in g.bp.nodes : g.st[k] \notin DepBroken
                             PROVE  FALSE
                    OBVIOUS
                <5>1. UnreachableClosed(g, {})
                    BY <2>5 DEF UnreachableClosed, PendingNodes
                <5>2. U \subseteq {}
                    BY <5>1 DEF Unreachable, U
                <5> QED
                    BY <4>2, <5>2
            <4> QED
                BY <4>1, <4>2
        <3>2. \E k \in g.bp.nodes : g.st[k] \in {"FAILED", "SEMANTIC_FAILED"}
            BY <1>2, <3>1 DEF GraphInv, GraphCause, DepBroken
        <3> QED
            BY <2>5, <2>6, <2>8, <3>2
    <2>12. NoBrokenPending(h)
        <3> SUFFICES ASSUME NEW n \in g.bp.nodes, h.st[n] = "PENDING",
                            NEW m \in g.bp.deps[n], h.st[m] \in DepBroken
                     PROVE  FALSE
            BY <2>3 DEF NoBrokenPending
        <3>1. n \notin U /\ g.st[n] = "PENDING" /\ n \in PendingNodes(g)
            BY <2>5, <2>6 DEF PendingNodes
        <3>2. g.st[m] \in DepBroken \/ m \in U
            BY <2>5, <2>6
        <3> QED
            BY <2>7, <3>1, <3>2 DEF UnreachableClosed
    <2>13. GraphClosed(h) /\ GraphVerdictOf(h)
        BY <1>2, <2>3 DEF GraphClosed, GraphVerdictOf
    <2>14. GraphInv(h)
        BY <2>3, <2>6, <2>8, <2>10, <2>11, <2>13 DEF GraphInv
    <2> QED
        BY <2>3, <2>4, <2>9, <2>12, <2>14
<1> QED
    BY <1>1, <1>2

(* sched_dag_finalize_terminal closes a graph whose nodes are all done     *)
(* with the verdict its nodes justify.                                     *)
LEMMA FinalizeFacts ==
    ASSUME NEW g \in Graph, Accepted(g), GraphInv(g), NoBrokenPending(g)
    PROVE  LET h == FinalizeTerminal(g)
           IN  /\ h \in Graph
               /\ Accepted(h)
               /\ GraphInv(h)
               /\ Settled(h)
               /\ \A m \in Node : h.st[m] = "RUNNING" <=> g.st[m] = "RUNNING"
<1> DEFINE h == FinalizeTerminal(g)
           Goal == /\ h \in Graph
                   /\ Accepted(h)
                   /\ GraphInv(h)
                   /\ Settled(h)
                   /\ \A m \in Node : h.st[m] = "RUNNING" <=> g.st[m] = "RUNNING"
<1> SUFFICES Goal
    OBVIOUS
<1>1. CASE ~(g.status = "ACTIVE" /\ AllTerminal(g))
    <2>1. h = g
        BY <1>1 DEF FinalizeTerminal
    <2>2. Settled(g)
        BY <1>1 DEF Settled, NoBrokenPending
    <2> HIDE DEF h
    <2> QED
        BY <2>1, <2>2
<1>2. CASE g.status = "ACTIVE" /\ AllTerminal(g)
    <2> DEFINE v == FinalStatus(g)
    <2>1. h = [g EXCEPT !.status = v]
        BY <1>2 DEF FinalizeTerminal
    <2>2. v \in {"FAILED", "SEMANTIC_FAILED", "COMPLETED"}
        BY DEF FinalStatus
    <2> HIDE DEF h, v
    <2>3. /\ h \in Graph /\ h.st = g.st /\ h.bp = g.bp /\ h.status = v
          /\ h.retries = g.retries
        BY <2>1, <2>2 DEF Graph, DagStatus
    <2>4. Accepted(h)
        BY <2>2, <2>3 DEF Accepted
    <2>5. GraphStarted(h) /\ GraphCause(h) /\ GraphClosed(h)
        BY <1>2, <2>2, <2>3 DEF GraphInv, GraphStarted, GraphCause, GraphClosed,
                                AllTerminal, NodeDone
    <2>6. GraphVerdictOf(h)
        BY <1>2, <2>2, <2>3 DEF GraphVerdictOf, v, FinalStatus, AllTerminal, NodeDone,
                                GraphInv, GraphCause
    <2>7. GraphInv(h) /\ Settled(h)
        BY <2>2, <2>3, <2>5, <2>6 DEF GraphInv, Settled
    <2> QED
        BY <2>3, <2>4, <2>7
<1> QED
    BY <1>1, <1>2

(* Both together, as every convergence applies them.                       *)
LEMMA ConvergeFacts ==
    ASSUME NEW g \in Graph, Accepted(g), GraphInv(g)
    PROVE  LET h == FinalizeTerminal(PropagateUnreachable(g))
           IN  /\ h \in Graph
               /\ Accepted(h)
               /\ GraphInv(h)
               /\ Settled(h)
               /\ \A m \in Node : h.st[m] = "RUNNING" <=> g.st[m] = "RUNNING"
<1> DEFINE k == PropagateUnreachable(g)
<1>1. /\ k \in Graph /\ Accepted(k) /\ GraphInv(k) /\ NoBrokenPending(k)
      /\ \A m \in Node : k.st[m] = "RUNNING" <=> g.st[m] = "RUNNING"
    BY PropagateFacts
<1> HIDE DEF k
<1> DEFINE h == FinalizeTerminal(k)
<1>2. /\ h \in Graph /\ Accepted(h) /\ GraphInv(h) /\ Settled(h)
      /\ \A m \in Node : h.st[m] = "RUNNING" <=> k.st[m] = "RUNNING"
    BY <1>1, FinalizeFacts
<1> HIDE DEF h
<1>3. \A m \in Node : h.st[m] = "RUNNING" <=> g.st[m] = "RUNNING"
    BY <1>1, <1>2
<1> QED
    BY <1>2, <1>3 DEF h, k

(* Starting a set A of ready nodes of an active graph.                     *)
LEMMA StartFacts ==
    ASSUME NEW g \in Graph, Accepted(g), GraphInv(g), NEW A \in SUBSET Node,
           A # {} => g.status = "ACTIVE",
           \A n \in A : n \in g.bp.nodes /\ NodeReady(g, n),
           NEW x, x = [n \in Node |-> IF n \in A THEN "RUNNING" ELSE g.st[n]]
    PROVE  LET h == [g EXCEPT !.st = x]
           IN  /\ h \in Graph
               /\ Accepted(h)
               /\ GraphInv(h)
               /\ \A m \in Node : h.st[m] = "RUNNING" <=> g.st[m] = "RUNNING" \/ m \in A
<1> DEFINE h == [g EXCEPT !.st = x]
<1>1. x \in [Node -> NodeStatus]
    BY DEF Graph, NodeStatus
<1>2. /\ h \in Graph /\ h.st = x /\ h.bp = g.bp /\ h.status = g.status
      /\ h.retries = g.retries
    BY <1>1 DEF Graph
<1> HIDE DEF h
<1>3. \A n \in Node : h.st[n] = IF n \in A THEN "RUNNING" ELSE g.st[n]
    BY <1>2
<1>4. /\ g.bp.nodes \subseteq Node
      /\ g.bp.deps \in [Node -> SUBSET Node]
      /\ \A n \in g.bp.nodes : g.bp.deps[n] \subseteq g.bp.nodes
    BY BlueprintFacts DEF Accepted, ValidBlueprint, DepsExist
<1>5. \A n \in A : g.st[n] = "PENDING" /\ \A m \in g.bp.deps[n] : g.st[m] = "COMPLETED"
    BY DEF NodeReady
<1>6. Accepted(h)
    BY <1>2 DEF Accepted
<1>7. GraphStarted(h)
    BY <1>2, <1>3, <1>4, <1>5 DEF GraphInv, GraphStarted
<1>8. GraphCause(h)
    BY <1>2, <1>3, <1>4, <1>5 DEF GraphInv, GraphCause
<1>9. GraphClosed(h) /\ GraphVerdictOf(h)
    BY <1>2, <1>3, <1>4, <1>5 DEF GraphInv, GraphClosed, GraphVerdictOf
<1>10. GraphInv(h)
    BY <1>2, <1>3, <1>4, <1>7, <1>8, <1>9 DEF GraphInv
<1> QED
    BY <1>2, <1>3, <1>6, <1>10 DEF h

(* The clock touches neither statuses nor retry counts.                    *)
LEMMA ClockFacts ==
    ASSUME NEW g \in Graph, NEW t \in [Node -> Int],
           NEW u \in Nat \cup {Unlimited}
    PROVE  LET h == [g EXCEPT !.timer = t, !.budget = u]
           IN  /\ h \in Graph
               /\ h.st = g.st /\ h.bp = g.bp /\ h.status = g.status
               /\ h.retries = g.retries
               /\ Accepted(g) => Accepted(h)
               /\ GraphInv(g) => GraphInv(h)
               /\ Settled(g) => Settled(h)
<1> DEFINE h == [g EXCEPT !.timer = t, !.budget = u]
<1>1. h \in Graph /\ h.st = g.st /\ h.bp = g.bp /\ h.status = g.status /\ h.retries = g.retries
    BY DEF Graph
<1> HIDE DEF h
<1>2. Accepted(g) => Accepted(h)
    BY <1>1 DEF Accepted
<1>3. GraphInv(g) => GraphInv(h)
    BY <1>1 DEF GraphInv, GraphStarted, GraphCause, GraphClosed, GraphVerdictOf
<1>4. Settled(g) => Settled(h)
    BY <1>1 DEF Settled, AllTerminal
<1> QED
    BY <1>1, <1>2, <1>3, <1>4 DEF h

(* A freshly accepted graph.                                               *)
LEMMA NewGraphFacts ==
    ASSUME NEW b \in Blueprint, ValidBlueprint(b)
    PROVE  /\ NewGraph(b) \in Graph
           /\ Accepted(NewGraph(b))
           /\ GraphInv(NewGraph(b))
           /\ Settled(NewGraph(b))
           /\ \A m \in Node : NewGraph(b).st[m] = "PENDING"
<1> DEFINE h == NewGraph(b)
           x == [n \in Node |-> "PENDING"]
           z == [n \in Node |-> 0]
<1>1. x \in [Node -> NodeStatus] /\ z \in [Node -> Nat] /\ z \in [Node -> Int]
    BY DEF NodeStatus
<1>2. h = [bp |-> b, status |-> "ACTIVE", st |-> x, retries |-> z, timer |-> z,
           budget |-> b.budget]
    BY DEF NewGraph
<1>3. /\ \A n \in Node : x[n] = "PENDING" /\ z[n] = 0
      /\ b.nodes \subseteq Node /\ b.deps \in [Node -> SUBSET Node]
      /\ b.maxRetries \in [Node -> Nat] /\ b.budget \in Nat \cup {Unlimited}
    BY BlueprintFacts
<1> HIDE DEF h, x, z
<1>4. /\ h \in Graph /\ h.st = x /\ h.bp = b /\ h.status = "ACTIVE" /\ h.retries = z
    BY <1>1, <1>2, <1>3 DEF Graph, DagStatus
<1>5. Accepted(h)
    BY <1>3, <1>4 DEF Accepted
<1>6. GraphInv(h)
    BY <1>3, <1>4 DEF GraphInv, GraphStarted, GraphCause, GraphClosed, GraphVerdictOf
<1>7. Settled(h)
    BY <1>3, <1>4 DEF Settled, AllTerminal, NodeDone, DepBroken, ValidBlueprint, DepsExist
<1> QED
    BY <1>3, <1>4, <1>5, <1>6, <1>7 DEF h

-----------------------------------------------------------------------------
(* The graph table.  SlotOK is what the invariant says of one slot when c  *)
(* graphs were submitted, TableOK what it says of the whole table.         *)
SlotOK(d, g, c, rest) ==
    /\ g \in Graph
    /\ IF d <= c
       THEN Accepted(g) /\ GraphInv(g) /\ (rest => Settled(g))
       ELSE g = EmptySlot

TableOK(D, c, rest) ==
    /\ D = [d \in Dag |-> D[d]]
    /\ \A d \in Dag : SlotOK(d, D[d], c, rest)

Runs(D, p) == D[p[1]].st[p[2]] = "RUNNING"

ControlOK ==
    /\ dagCount \in 0..MaxDags
    /\ dagRun \in BOOLEAN
    /\ pc \in {"none", "scan", "gap", "wait", "timed", "serial", "dispatch",
               "inline"}
    /\ wake \in BOOLEAN
    /\ waitFor \in Int
    /\ cur \subseteq Item
    /\ todo \subseteq Item
    /\ pool \subseteq Item
    /\ pending \in Nat

LEMMA EmptySlotFacts ==
    /\ EmptySlot \in Graph
    /\ EmptySlot.status = "NONE"
    /\ EmptySlot.budget = Unlimited
    /\ \A n \in Node : EmptySlot.st[n] = "PENDING" /\ EmptySlot.timer[n] = 0
<1> DEFINE x == [n \in Node |-> "PENDING"]
           z == [n \in Node |-> 0]
<1>1. x \in [Node -> NodeStatus] /\ z \in [Node -> Nat] /\ z \in [Node -> Int]
    BY DEF NodeStatus
<1>2. \A n \in Node : x[n] = "PENDING" /\ z[n] = 0
    OBVIOUS
<1>3. EmptySlot = [bp |-> NoGraph, status |-> "NONE", st |-> x, retries |-> z,
                   timer |-> z, budget |-> Unlimited]
    BY DEF EmptySlot
<1> HIDE DEF x, z
<1> QED
    BY <1>1, <1>2, <1>3 DEF Graph

LEMMA TableWriteBack ==
    ASSUME NEW D, NEW c \in Nat, TableOK(D, c, FALSE), NEW p \in Item, Runs(D, p),
           NEW r \in Outcome
    PROVE  LET E == [D EXCEPT ![p[1]] = WriteBack(@, p[2], r)]
           IN  /\ TableOK(E, c, FALSE)
               /\ \A q \in Item : Runs(E, q) <=> Runs(D, q) /\ q # p
<1> DEFINE d == p[1]
           n == p[2]
           g == D[d]
           h == WriteBack(g, n, r)
           E == [D EXCEPT ![d] = h]
<1>1. d \in Dag /\ n \in Node /\ p = <<d, n>>
    BY DEF Item
<1>2. SlotOK(d, g, c, FALSE) /\ D = [e \in Dag |-> D[e]]
    BY <1>1 DEF TableOK
<1>3. g.st[n] = "RUNNING"
    BY DEF Runs
<1>4. d <= c
    BY <1>1, <1>2, <1>3, EmptySlotFacts DEF SlotOK
<1>5. g \in Graph /\ Accepted(g) /\ GraphInv(g)
    BY <1>2, <1>4 DEF SlotOK
<1>6. n \in g.bp.nodes
    BY <1>1, <1>3, <1>5 DEF GraphInv
<1>7. /\ h \in Graph /\ Accepted(h) /\ GraphInv(h)
      /\ \A m \in Node : h.st[m] = "RUNNING" <=> g.st[m] = "RUNNING" /\ m # n
    BY <1>3, <1>5, <1>6, WriteBackFacts, SMTT(30)
<1>8. [D EXCEPT ![p[1]] = WriteBack(@, p[2], r)] = E
    OBVIOUS
<1> HIDE DEF h
<1>9. SlotOK(d, h, c, FALSE)
    BY <1>4, <1>7 DEF SlotOK
<1>10. TableOK(E, c, FALSE) /\ E[d] = h /\ \A e \in Dag : e # d => E[e] = D[e]
    <2>1. /\ E = [e \in Dag |-> E[e]]
          /\ E[d] = h
          /\ \A e \in Dag : e # d => E[e] = D[e]
        BY <1>1, <1>2
    <2> HIDE DEF E
    <2> QED
        BY <1>9, <2>1 DEF TableOK
<1> HIDE DEF E
<1>11. ASSUME NEW q \in Item
       PROVE  Runs(E, q) <=> Runs(D, q) /\ q # p
    <2>1. q[1] \in Dag /\ q[2] \in Node /\ q = <<q[1], q[2]>>
        BY DEF Item
    <2>2. CASE q[1] = d
        BY <1>1, <1>7, <1>10, <2>1, <2>2 DEF Runs
    <2>3. CASE q[1] # d
        BY <1>1, <1>10, <2>1, <2>3 DEF Runs
    <2> QED
        BY <2>2, <2>3
<1> QED
    BY <1>8, <1>10, <1>11

LEMMA TableConverge ==
    ASSUME NEW D, NEW c \in Nat, TableOK(D, c, FALSE)
    PROVE  /\ TableOK(Converge(D), c, TRUE)
           /\ \A q \in Item : Runs(Converge(D), q) <=> Runs(D, q)
<1> DEFINE C(d) == FinalizeTerminal(PropagateUnreachable(D[d]))
<1>1. ASSUME NEW d \in Dag
      PROVE  /\ SlotOK(d, C(d), c, TRUE)
             /\ \A m \in Node : C(d).st[m] = "RUNNING" <=> D[d].st[m] = "RUNNING"
    <2>1. SlotOK(d, D[d], c, FALSE)
        BY DEF TableOK
    <2>2. CASE d <= c
        <3>1. D[d] \in Graph /\ Accepted(D[d]) /\ GraphInv(D[d])
            BY <2>1, <2>2 DEF SlotOK
        <3>2. /\ C(d) \in Graph /\ Accepted(C(d)) /\ GraphInv(C(d)) /\ Settled(C(d))
              /\ \A m \in Node : C(d).st[m] = "RUNNING" <=> D[d].st[m] = "RUNNING"
            BY <3>1, ConvergeFacts
        <3> QED
            BY <2>2, <3>2 DEF SlotOK
    <2>3. CASE ~(d <= c)
        <3>1. D[d] = EmptySlot
            BY <2>1, <2>3 DEF SlotOK
        <3>2. C(d) = EmptySlot
            BY <3>1, EmptySlotFacts DEF FinalizeTerminal, PropagateUnreachable
        <3> QED
            BY <2>3, <3>1, <3>2, EmptySlotFacts DEF SlotOK
    <2> QED
        BY <2>2, <2>3
<1>2. Converge(D) = [d \in Dag |-> C(d)]
    BY DEF Converge
<1> HIDE DEF C
<1>3. TableOK(Converge(D), c, TRUE)
    BY <1>1, <1>2 DEF TableOK
<1>4. ASSUME NEW q \in Item
      PROVE  Runs(Converge(D), q) <=> Runs(D, q)
    <2>1. q[1] \in Dag /\ q[2] \in Node
        BY DEF Item
    <2>2. Converge(D)[q[1]] = C(q[1])
        BY <1>2, <2>1
    <2>3. C(q[1]).st[q[2]] = "RUNNING" <=> D[q[1]].st[q[2]] = "RUNNING"
        BY <1>1, <2>1
    <2> QED
        BY <2>2, <2>3 DEF Runs
<1> QED
    BY <1>3, <1>4

LEMMA TableStart ==
    ASSUME TableOK(dags, dagCount, FALSE), dagCount \in Nat, NEW B \in SUBSET ReadySet
    PROVE  /\ TableOK(StartNodes(B), dagCount, FALSE)
           /\ \A q \in Item : Runs(StartNodes(B), q) <=> Runs(dags, q) \/ q \in B
           /\ \A q \in B : ~Runs(dags, q)
<1> DEFINE X(d) == [n \in Node |-> IF <<d, n>> \in B THEN "RUNNING" ELSE dags[d].st[n]]
           A(d) == {n \in Node : <<d, n>> \in B}
           S(d) == [dags[d] EXCEPT !.st = X(d)]
<1>1. ASSUME NEW d \in Dag
      PROVE  /\ SlotOK(d, S(d), dagCount, FALSE)
             /\ \A m \in Node : S(d).st[m] = "RUNNING" <=>
                                   dags[d].st[m] = "RUNNING" \/ <<d, m>> \in B
    <2>1. SlotOK(d, dags[d], dagCount, FALSE)
        BY DEF TableOK
    <2>2. \A n \in A(d) : /\ dags[d].status = "ACTIVE"
                          /\ n \in dags[d].bp.nodes
                          /\ NodeReady(dags[d], n)
        BY DEF ReadySet, Item
    <2>3. CASE d <= dagCount
        <3>1. dags[d] \in Graph /\ Accepted(dags[d]) /\ GraphInv(dags[d])
            BY <2>1, <2>3 DEF SlotOK
        <3>2. X(d) = [n \in Node |-> IF n \in A(d) THEN "RUNNING" ELSE dags[d].st[n]]
            OBVIOUS
        <3>3. A(d) \in SUBSET Node /\ (A(d) # {} => dags[d].status = "ACTIVE")
            BY <2>2
        <3> HIDE DEF X
        <3>4. /\ S(d) \in Graph /\ Accepted(S(d)) /\ GraphInv(S(d))
              /\ \A m \in Node : S(d).st[m] = "RUNNING" <=>
                                    dags[d].st[m] = "RUNNING" \/ m \in A(d)
            BY <2>2, <3>1, <3>2, <3>3, StartFacts
        <3> HIDE DEF S
        <3> QED
            BY <2>3, <3>4 DEF SlotOK
    <2>4. CASE ~(d <= dagCount)
        <3>1. dags[d] = EmptySlot
            BY <2>1, <2>4 DEF SlotOK
        <3>2. A(d) = {}
            BY <2>2, <3>1, EmptySlotFacts
        <3>3. X(d) = dags[d].st
            BY <3>1, <3>2 DEF EmptySlot
        <3>4. S(d) = dags[d]
            BY <3>1, <3>3 DEF EmptySlot
        <3> QED
            BY <2>4, <3>1, <3>2, <3>4, EmptySlotFacts DEF SlotOK
    <2> QED
        BY <2>3, <2>4
<1>2. StartNodes(B) = [d \in Dag |-> S(d)]
    BY DEF StartNodes
<1> HIDE DEF S, X, A
<1>3. TableOK(StartNodes(B), dagCount, FALSE)
    BY <1>1, <1>2 DEF TableOK
<1>4. ASSUME NEW q \in Item
      PROVE  Runs(StartNodes(B), q) <=> Runs(dags, q) \/ q \in B
    <2>1. q[1] \in Dag /\ q[2] \in Node /\ q = <<q[1], q[2]>>
        BY DEF Item
    <2>2. StartNodes(B)[q[1]] = S(q[1])
        BY <1>2, <2>1
    <2>3. S(q[1]).st[q[2]] = "RUNNING" <=>
             dags[q[1]].st[q[2]] = "RUNNING" \/ <<q[1], q[2]>> \in B
        BY <1>1, <2>1
    <2> QED
        BY <2>1, <2>2, <2>3 DEF Runs
<1>5. \A q \in B : ~Runs(dags, q)
    BY DEF ReadySet, NodeReady, Runs
<1> QED
    BY <1>3, <1>4, <1>5

-----------------------------------------------------------------------------
LEMMA ItemFacts ==
    /\ IsFiniteSet(Item)
    /\ \A S \in SUBSET Item : IsFiniteSet(S) /\ Cardinality(S) \in Nat
<1>1. IsFiniteSet(Dag)
    BY SizeAssumption, FS_Interval DEF Dag
<1>2. IsFiniteSet(Item)
    BY <1>1, SizeAssumption, FS_Product DEF Item
<1> QED
    BY <1>2, FS_Subset, FS_CardinalityType

(* Weakening: a table that is settled is in particular consistent.         *)
LEMMA TableWeaken ==
    ASSUME NEW D, NEW c, NEW rest \in BOOLEAN, TableOK(D, c, rest)
    PROVE  TableOK(D, c, FALSE)
    BY DEF TableOK, SlotOK

(* The invariant, read slot by slot.                                       *)
LEMMA InvSplit ==
    ASSUME IInv
    PROVE  /\ ControlOK
           /\ TableOK(dags, dagCount, Resting)
           /\ TableOK(dags, dagCount, FALSE)
           /\ \A p \in Item : Runs(dags, p) <=> p \in Outstanding
           /\ Outstanding \subseteq Item
<1>1. ControlOK
    BY DEF IInv, TypeOK, ControlOK
<1>2. dags = [d \in Dag |-> dags[d]]
    BY DEF IInv, TypeOK
<1>3. \A d \in Dag : SlotOK(d, dags[d], dagCount, Resting)
    BY DEF IInv, TypeOK, GraphsInv, SlotOK
<1>4. TableOK(dags, dagCount, Resting)
    BY <1>2, <1>3 DEF TableOK
<1>5. Resting \in BOOLEAN
    BY DEF Resting
<1>6. TableOK(dags, dagCount, FALSE)
    BY <1>4, <1>5, TableWeaken
<1>7. \A p \in Item : Runs(dags, p) <=> p \in Outstanding
    BY DEF IInv, OwnerInv, Runs
<1> QED
    BY <1>1, <1>4, <1>6, <1>7 DEF IInv, TypeOK, Outstanding

LEMMA InitInv == Init => IInv
<1> SUFFICES ASSUME Init PROVE IInv
    OBVIOUS
<1> USE DEF Init
<1>1. TypeOK
    <2>1. dags \in [Dag -> Graph]
        BY EmptySlotFacts
    <2>2. \A d \in Dag : ~(d <= dagCount) /\ dags[d] = EmptySlot
        BY DEF Dag
    <2>3. dagCount \in 0..MaxDags /\ pending \in Nat /\ waitFor \in Int
        BY SizeAssumption
    <2> QED
        BY <2>1, <2>2, <2>3 DEF TypeOK
<1>2. GraphsInv
    BY DEF GraphsInv, Dag
<1>3. OwnerInv
    <2>1. \A p \in Item : dags[p[1]].st[p[2]] # "RUNNING"
        BY EmptySlotFacts DEF Item
    <2> QED
        BY <2>1 DEF OwnerInv, Outstanding
<1>4. PendingInv
    BY FS_EmptySet DEF PendingInv, Outstanding
<1> QED
    BY <1>1, <1>2, <1>3, <1>4 DEF IInv

(* Steps that leave the graphs and their owners alone.                     *)
LEMMA QuietStep ==
    ASSUME IInv, UNCHANGED <<dags, dagCount, cur, todo, pool, pending>>,
           pc = pc' \/ (Resting /\ Resting'), ControlOK'
    PROVE  IInv'
<1>1. Resting' = Resting /\ Outstanding' = Outstanding
    BY DEF Resting, Outstanding
<1>2. TypeOK'
    BY DEF IInv, TypeOK, ControlOK
<1>3. GraphsInv'
    BY <1>1 DEF IInv, GraphsInv
<1>4. OwnerInv'
    BY <1>1 DEF IInv, OwnerInv, Resting
<1>5. PendingInv'
    BY <1>1 DEF IInv, PendingInv, Resting
<1> QED
    BY <1>2, <1>3, <1>4, <1>5 DEF IInv

(* Putting the primed invariant back together.                             *)
LEMMA InvJoin ==
    ASSUME ControlOK', TableOK(dags', dagCount', Resting'),
           \A p \in Item : Runs(dags', p) <=> p \in Outstanding',
           (cur # {} <=> pc \in {"serial", "inline"})',
           (\A p, q \in cur : p = q)',
           (todo \cup pool # {} => pc \in {"dispatch", "inline"})',
           (cur \cap (todo \cup pool) = {} /\ todo \cap pool = {})',
           PendingInv'
    PROVE  IInv'
<1>1. dags' \in [Dag -> Graph]
    BY DEF TableOK, SlotOK
<1>2. \A d \in Dag : IF d <= dagCount' THEN Accepted(dags'[d]) ELSE dags'[d] = EmptySlot
    BY DEF TableOK, SlotOK
<1>3. TypeOK'
    BY <1>1, <1>2 DEF TypeOK, ControlOK
<1>4. GraphsInv'
    BY DEF GraphsInv, TableOK, SlotOK
<1>5. OwnerInv'
    BY DEF OwnerInv, Runs
<1> QED
    BY <1>3, <1>4, <1>5 DEF IInv

-----------------------------------------------------------------------------
(* One lemma per action that changes the graphs or their owners.           *)

LEMMA SubmitStep ==
    ASSUME IInv, NEW b \in Blueprint, SubmitDag(b)
    PROVE  IInv'
<1> USE DEF SubmitDag
<1> DEFINE e == dagCount + 1
           h == NewGraph(b)
<1>1. /\ ControlOK /\ TableOK(dags, dagCount, Resting)
      /\ \A p \in Item : Runs(dags, p) <=> p \in Outstanding
    BY InvSplit
<1>2. e \in Dag /\ dagCount \in Nat /\ e \in Nat /\ dagCount' = e
    BY <1>1, SizeAssumption DEF ControlOK, Dag
<1>3. /\ h \in Graph /\ Accepted(h) /\ GraphInv(h) /\ Settled(h)
      /\ \A m \in Node : h.st[m] = "PENDING"
    BY NewGraphFacts
<1>4. /\ dags' = [d \in Dag |-> dags'[d]]
      /\ dags'[e] = h
      /\ \A d \in Dag : d # e => dags'[d] = dags[d]
    BY <1>1, <1>2 DEF TableOK
<1> HIDE DEF h
<1>5. Resting' = Resting /\ Outstanding' = Outstanding /\ Resting \in BOOLEAN
    BY DEF Resting, Outstanding
<1>6. ASSUME NEW d \in Dag
      PROVE  SlotOK(d, dags'[d], e, Resting)
    <2>1. CASE d = e
        BY <1>2, <1>3, <1>4, <2>1 DEF SlotOK
    <2>2. CASE d # e
        <3>1. SlotOK(d, dags[d], dagCount, Resting)
            BY <1>1 DEF TableOK
        <3>2. d <= dagCount <=> d <= e
            BY <1>2, <2>2 DEF Dag
        <3> QED
            BY <1>4, <2>2, <3>1, <3>2 DEF SlotOK
    <2> QED
        BY <2>1, <2>2
<1>7. TableOK(dags', dagCount', Resting')
    BY <1>2, <1>4, <1>5, <1>6 DEF TableOK
<1>8. ControlOK'
    BY <1>1, <1>2 DEF ControlOK, Broadcast, Dag
<1>9. ASSUME NEW p \in Item
      PROVE  Runs(dags', p) <=> p \in Outstanding'
    <2>1. p[1] \in Dag /\ p[2] \in Node
        BY DEF Item
    <2>2. CASE p[1] = e
        <3>1. SlotOK(e, dags[e], dagCount, Resting)
            BY <1>1, <1>2 DEF TableOK
        <3>2. dags[e] = EmptySlot
            BY <1>2, <3>1 DEF SlotOK
        <3>3. ~Runs(dags, p)
            BY <2>1, <2>2, <3>2, EmptySlotFacts DEF Runs
        <3>4. ~Runs(dags', p)
            BY <1>3, <1>4, <2>1, <2>2 DEF Runs
        <3> QED
            BY <1>1, <1>5, <3>3, <3>4
    <2>3. CASE p[1] # e
        <3>1. Runs(dags', p) <=> Runs(dags, p)
            BY <1>4, <2>1, <2>3 DEF Runs
        <3> QED
            BY <1>1, <1>5, <3>1
    <2> QED
        BY <2>2, <2>3
<1>10. PendingInv'
    BY <1>5 DEF IInv, PendingInv
<1> QED
    BY <1>7, <1>8, <1>9, <1>10, InvJoin DEF IInv, OwnerInv

LEMMA CancelStep ==
    ASSUME IInv, NEW e \in Dag, CancelDag(e)
    PROVE  IInv'
<1> USE DEF CancelDag
<1> DEFINE g == dags[e]
           h == CancelPending(g)
<1>1. /\ ControlOK /\ TableOK(dags, dagCount, Resting)
      /\ \A p \in Item : Runs(dags, p) <=> p \in Outstanding
    BY InvSplit
<1>2. SlotOK(e, g, dagCount, Resting)
    BY <1>1 DEF TableOK
<1>3. e <= dagCount /\ g \in Graph /\ Accepted(g) /\ GraphInv(g)
    BY <1>2, EmptySlotFacts DEF SlotOK
<1>4. /\ h \in Graph /\ Accepted(h) /\ GraphInv(h) /\ h.status = "CANCELED"
      /\ \A m \in Node : h.st[m] = "RUNNING" <=> g.st[m] = "RUNNING"
    BY <1>3, CancelFacts
<1>5. /\ dags' = [d \in Dag |-> dags'[d]]
      /\ dags'[e] = h
      /\ \A d \in Dag : d # e => dags'[d] = dags[d]
    BY <1>1 DEF TableOK
<1> HIDE DEF h
<1>6. Resting' = Resting /\ Outstanding' = Outstanding /\ Resting \in BOOLEAN
    BY DEF Resting, Outstanding
<1>7. SlotOK(e, h, dagCount, Resting)
    BY <1>3, <1>4 DEF SlotOK, Settled
<1>8. TableOK(dags', dagCount', Resting')
    BY <1>1, <1>5, <1>6, <1>7 DEF TableOK
<1>9. ControlOK'
    BY <1>1 DEF ControlOK, Broadcast
<1>10. ASSUME NEW p \in Item
       PROVE  Runs(dags', p) <=> p \in Outstanding'
    <2>1. p[1] \in Dag /\ p[2] \in Node
        BY DEF Item
    <2>2. Runs(dags', p) <=> Runs(dags, p)
        BY <1>4, <1>5, <2>1 DEF Runs
    <2> QED
        BY <1>1, <1>6, <2>2
<1>11. PendingInv'
    BY <1>6 DEF IInv, PendingInv
<1> QED
    BY <1>8, <1>9, <1>10, <1>11, InvJoin DEF IInv, OwnerInv

LEMMA RunOneStep ==
    ASSUME IInv, RunOne
    PROVE  IInv'
<1> USE DEF RunOne
<1>1. /\ ControlOK /\ TableOK(dags, dagCount, FALSE)
      /\ \A p \in Item : Runs(dags, p) <=> p \in Outstanding
    BY InvSplit
<1>2. PICK p \in ReadySet : dags' = StartNodes({p}) /\ cur' = {p}
    OBVIOUS
<1>3. p \in Item /\ {p} \in SUBSET ReadySet
    BY DEF ReadySet
<1>4. cur = {} /\ todo = {} /\ pool = {} /\ pending = 0
    <2>1. cur = {} /\ todo = {} /\ pool = {}
        BY DEF IInv, OwnerInv
    <2> QED
        BY <2>1, FS_EmptySet DEF IInv, PendingInv, Outstanding
<1>5. /\ TableOK(dags', dagCount, FALSE)
      /\ \A q \in Item : Runs(dags', q) <=> Runs(dags, q) \/ q \in {p}
    <2>1. dagCount \in Nat
        BY <1>1 DEF ControlOK
    <2>2. /\ TableOK(StartNodes({p}), dagCount, FALSE)
          /\ \A q \in Item : Runs(StartNodes({p}), q) <=> Runs(dags, q) \/ q \in {p}
        BY <1>1, <1>3, <2>1, TableStart
    <2> QED
        BY <1>2, <2>2
<1>6. Resting' = FALSE /\ dagCount' = dagCount /\ Outstanding' = {p} /\ Outstanding = {}
    BY <1>2, <1>4 DEF Resting, Outstanding
<1>7. \A q \in Item : Runs(dags', q) <=> q \in Outstanding'
    BY <1>1, <1>5, <1>6
<1>8. ControlOK'
    BY <1>1, <1>2, <1>3 DEF ControlOK
<1>9. TableOK(dags', dagCount', Resting')
    BY <1>5, <1>6
<1>10. PendingInv'
    BY <1>4 DEF PendingInv
<1> QED
    BY <1>2, <1>4, <1>7, <1>8, <1>9, <1>10, InvJoin

LEMMA RunOneDoneStep ==
    ASSUME IInv, NEW r \in Outcome, RunOneDone(r)
    PROVE  IInv'
<1> USE DEF RunOneDone
<1>1. /\ ControlOK /\ TableOK(dags, dagCount, FALSE)
      /\ \A p \in Item : Runs(dags, p) <=> p \in Outstanding
    BY InvSplit
<1>2. PICK p \in cur :
          dags' = Converge([dags EXCEPT ![p[1]] = WriteBack(@, p[2], r)])
    OBVIOUS
<1>3. cur = {p} /\ todo = {} /\ pool = {} /\ p \in Item
    BY <1>1, <1>2 DEF IInv, OwnerInv, ControlOK
<1>4. Outstanding = {p} /\ Outstanding' = {} /\ Resting'
    BY <1>3 DEF Outstanding, Resting
<1> DEFINE E == [dags EXCEPT ![p[1]] = WriteBack(@, p[2], r)]
<1>5. Runs(dags, p)
    BY <1>1, <1>3, <1>4
<1>6. dagCount \in Nat /\ dagCount' = dagCount
    BY <1>1 DEF ControlOK
<1>7. /\ TableOK(E, dagCount, FALSE)
      /\ \A q \in Item : Runs(E, q) <=> Runs(dags, q) /\ q # p
    BY <1>1, <1>3, <1>5, <1>6, TableWriteBack
<1>8. dags' = Converge(E)
    BY <1>2
<1> HIDE DEF E
<1>9. /\ TableOK(dags', dagCount, TRUE)
      /\ \A q \in Item : Runs(dags', q) <=> Runs(E, q)
    BY <1>6, <1>7, <1>8, TableConverge
<1>10. \A q \in Item : Runs(dags', q) <=> q \in Outstanding'
    BY <1>1, <1>4, <1>7, <1>9
<1>11. ControlOK'
    BY <1>1 DEF ControlOK
<1>12. TableOK(dags', dagCount', Resting')
    BY <1>4, <1>6, <1>9
<1>13. PendingInv'
    <2>1. pending = 0 /\ pending' = 0
        BY DEF IInv, PendingInv
    <2> QED
        BY <1>4, <2>1, FS_EmptySet DEF PendingInv
<1> QED
    BY <1>3, <1>10, <1>11, <1>12, <1>13, InvJoin

LEMMA CollectStep ==
    ASSUME IInv, CollectBatch
    PROVE  IInv'
<1> USE DEF CollectBatch
<1>1. /\ ControlOK /\ TableOK(dags, dagCount, FALSE)
      /\ \A p \in Item : Runs(dags, p) <=> p \in Outstanding
    BY InvSplit
<1>2. PICK B \in SUBSET ReadySet :
          dags' = StartNodes(B) /\ todo' = B /\ pending' = Cardinality(B)
    OBVIOUS
<1>3. B \subseteq Item
    BY DEF ReadySet
<1>4. cur = {} /\ todo = {} /\ pool = {}
    BY DEF IInv, OwnerInv
<1>5. /\ TableOK(dags', dagCount, FALSE)
      /\ \A q \in Item : Runs(dags', q) <=> Runs(dags, q) \/ q \in B
    <2>1. dagCount \in Nat
        BY <1>1 DEF ControlOK
    <2>2. /\ TableOK(StartNodes(B), dagCount, FALSE)
          /\ \A q \in Item : Runs(StartNodes(B), q) <=> Runs(dags, q) \/ q \in B
        BY <1>1, <2>1, TableStart
    <2> QED
        BY <1>2, <2>2
<1>6. Resting' = FALSE /\ dagCount' = dagCount /\ Outstanding' = B /\ Outstanding = {}
    BY <1>2, <1>4 DEF Resting, Outstanding
<1>7. \A q \in Item : Runs(dags', q) <=> q \in Outstanding'
    BY <1>1, <1>5, <1>6
<1>8. ControlOK'
    BY <1>1, <1>2, <1>3, ItemFacts DEF ControlOK
<1>9. TableOK(dags', dagCount', Resting')
    BY <1>5, <1>6
<1>10. PendingInv'
    BY <1>2, <1>6 DEF PendingInv
<1> QED
    BY <1>2, <1>4, <1>7, <1>8, <1>9, <1>10, InvJoin

(* batch_pending goes down by exactly one when an item is finished.        *)
LEMMA BatchDoneFacts ==
    ASSUME IInv, BatchDone, pc # "serial", pc' # "serial",
           NEW p \in Outstanding, Outstanding' = Outstanding \ {p}
    PROVE  PendingInv' /\ pending' \in Nat
<1>1. Outstanding \in SUBSET Item
    BY InvSplit
<1>2. IsFiniteSet(Outstanding) /\ Cardinality(Outstanding) \in Nat
    BY <1>1, ItemFacts
<1>3. Cardinality(Outstanding) # 0
    BY <1>2, FS_EmptySet
<1>4. Cardinality(Outstanding \ {p}) = Cardinality(Outstanding) - 1
    BY <1>2, FS_RemoveElement
<1>5. pending = Cardinality(Outstanding)
    BY DEF IInv, PendingInv
<1>6. pending' = Cardinality(Outstanding) - 1
    BY <1>2, <1>3, <1>5 DEF BatchDone
<1> QED
    BY <1>2, <1>3, <1>4, <1>6 DEF PendingInv

LEMMA DispatchToPoolStep ==
    ASSUME IInv, DispatchToPool
    PROVE  IInv'
<1> USE DEF DispatchToPool
<1>1. PICK p \in todo : todo' = todo \ {p} /\ pool' = pool \cup {p}
    OBVIOUS
<1>2. Outstanding' = Outstanding /\ Resting' = Resting
    BY <1>1 DEF Outstanding, Resting
<1>3. TypeOK'
    BY <1>1 DEF IInv, TypeOK
<1>4. GraphsInv'
    BY <1>2 DEF IInv, GraphsInv
<1>5. OwnerInv'
    <2>1. \A q \in Item : dags'[q[1]].st[q[2]] = "RUNNING" <=> q \in Outstanding'
        BY <1>2 DEF IInv, OwnerInv
    <2>2. todo' \cup pool' = todo \cup pool /\ todo' \cap pool' = {}
        BY <1>1 DEF IInv, OwnerInv
    <2> QED
        BY <2>1, <2>2 DEF IInv, OwnerInv
<1>6. PendingInv'
    BY <1>2 DEF IInv, PendingInv
<1> QED
    BY <1>3, <1>4, <1>5, <1>6 DEF IInv

LEMMA DispatchInlineStep ==
    ASSUME IInv, DispatchInline
    PROVE  IInv'
<1> USE DEF DispatchInline
<1>1. PICK p \in todo : todo' = todo \ {p} /\ cur' = {p}
    OBVIOUS
<1>2. cur = {}
    BY DEF IInv, OwnerInv
<1>3. Outstanding' = Outstanding /\ Resting' = Resting
    BY <1>1, <1>2 DEF Outstanding, Resting
<1>4. TypeOK'
    BY <1>1 DEF IInv, TypeOK
<1>5. GraphsInv'
    BY <1>3 DEF IInv, GraphsInv
<1>6. OwnerInv'
    <2>1. \A q \in Item : dags'[q[1]].st[q[2]] = "RUNNING" <=> q \in Outstanding'
        BY <1>3 DEF IInv, OwnerInv
    <2>2. todo' \cap pool' = {} /\ cur' \cap (todo' \cup pool') = {}
        BY <1>1 DEF IInv, OwnerInv
    <2> QED
        BY <1>1, <2>1, <2>2 DEF OwnerInv
<1>7. PendingInv'
    BY <1>3 DEF IInv, PendingInv
<1> QED
    BY <1>4, <1>5, <1>6, <1>7 DEF IInv

(* sched_dag_fail_node on a running node.                                  *)
LEMMA TableFail ==
    ASSUME NEW D, NEW c \in Nat, TableOK(D, c, FALSE), NEW p \in Item, Runs(D, p)
    PROVE  LET E == [D EXCEPT ![p[1]].st[p[2]] = "FAILED"]
           IN  /\ TableOK(E, c, FALSE)
               /\ \A q \in Item : Runs(E, q) <=> Runs(D, q) /\ q # p
<1> DEFINE d == p[1]
           n == p[2]
           g == D[d]
           h == [g EXCEPT !.st[n] = "FAILED"]
           E == [D EXCEPT ![d] = h]
<1>1. d \in Dag /\ n \in Node /\ p = <<d, n>>
    BY DEF Item
<1>2. SlotOK(d, g, c, FALSE) /\ D = [e \in Dag |-> D[e]]
    BY <1>1 DEF TableOK
<1>3. g.st[n] = "RUNNING"
    BY DEF Runs
<1>4. d <= c
    BY <1>1, <1>2, <1>3, EmptySlotFacts DEF SlotOK
<1>5. g \in Graph /\ Accepted(g) /\ GraphInv(g)
    BY <1>2, <1>4 DEF SlotOK
<1>6. n \in g.bp.nodes
    BY <1>1, <1>3, <1>5 DEF GraphInv
<1>7. /\ h \in Graph /\ Accepted(h) /\ GraphInv(h)
      /\ \A m \in Node : h.st[m] = "RUNNING" <=> g.st[m] = "RUNNING" /\ m # n
    <2>1. /\ h \in Graph /\ h.st = [g.st EXCEPT ![n] = "FAILED"]
          /\ h.bp = g.bp /\ h.status = g.status /\ h.retries = g.retries
        BY <1>1, <1>5 DEF Graph, NodeStatus
    <2> HIDE DEF h
    <2>2. Accepted(h)
        BY <1>5, <2>1 DEF Accepted
    <2>3. Lands(g, n, "FAILED", h)
        BY <1>3, <1>5, <1>6, <2>1, <2>2 DEF Lands
    <2> QED
        BY <2>3, LandingFacts
<1>8. [D EXCEPT ![p[1]].st[p[2]] = "FAILED"] = E
    OBVIOUS
<1> HIDE DEF h
<1>9. SlotOK(d, h, c, FALSE)
    BY <1>4, <1>7 DEF SlotOK
<1>10. TableOK(E, c, FALSE) /\ E[d] = h /\ \A e \in Dag : e # d => E[e] = D[e]
    <2>1. /\ E = [e \in Dag |-> E[e]]
          /\ E[d] = h
          /\ \A e \in Dag : e # d => E[e] = D[e]
        BY <1>1, <1>2
    <2> HIDE DEF E
    <2> QED
        BY <1>9, <2>1 DEF TableOK
<1> HIDE DEF E
<1>11. ASSUME NEW q \in Item
       PROVE  Runs(E, q) <=> Runs(D, q) /\ q # p
    <2>1. q[1] \in Dag /\ q[2] \in Node /\ q = <<q[1], q[2]>>
        BY DEF Item
    <2>2. CASE q[1] = d
        BY <1>1, <1>7, <1>10, <2>1, <2>2 DEF Runs
    <2>3. CASE q[1] # d
        BY <1>1, <1>10, <2>1, <2>3 DEF Runs
    <2> QED
        BY <2>2, <2>3
<1> QED
    BY <1>8, <1>10, <1>11

(* The three ways an item of a batch is finished.                          *)
LEMMA DispatchFailStep ==
    ASSUME IInv, DispatchFail
    PROVE  IInv'
<1> USE DEF DispatchFail
<1>1. /\ ControlOK /\ TableOK(dags, dagCount, FALSE)
      /\ \A p \in Item : Runs(dags, p) <=> p \in Outstanding
    BY InvSplit
<1>2. PICK p \in todo : /\ todo' = todo \ {p}
                        /\ dags' = [dags EXCEPT ![p[1]].st[p[2]] = "FAILED"]
    OBVIOUS
<1>3. p \in Item /\ p \in Outstanding /\ Outstanding' = Outstanding \ {p}
    BY <1>1, <1>2 DEF IInv, OwnerInv, ControlOK, Outstanding
<1>4. dagCount \in Nat /\ dagCount' = dagCount /\ Resting' = FALSE
    BY <1>1 DEF ControlOK, Resting
<1>5. Runs(dags, p)
    BY <1>1, <1>3
<1> DEFINE E == [dags EXCEPT ![p[1]].st[p[2]] = "FAILED"]
<1>6. /\ TableOK(E, dagCount, FALSE)
      /\ \A q \in Item : Runs(E, q) <=> Runs(dags, q) /\ q # p
    BY <1>1, <1>3, <1>4, <1>5, TableFail
<1>7. dags' = E
    BY <1>2
<1> HIDE DEF E
<1>8. TableOK(dags', dagCount', Resting')
    BY <1>4, <1>6, <1>7
<1>9. \A q \in Item : Runs(dags', q) <=> q \in Outstanding'
    BY <1>1, <1>3, <1>6, <1>7
<1>10. PendingInv' /\ pending' \in Nat
    BY <1>3, BatchDoneFacts
<1>11. ControlOK'
    BY <1>1, <1>2, <1>10 DEF ControlOK
<1> QED
    BY <1>2, <1>8, <1>9, <1>10, <1>11, InvJoin DEF IInv, OwnerInv

LEMMA InlineDoneStep ==
    ASSUME IInv, NEW r \in Outcome, InlineDone(r)
    PROVE  IInv'
<1> USE DEF InlineDone
<1>1. /\ ControlOK /\ TableOK(dags, dagCount, FALSE)
      /\ \A p \in Item : Runs(dags, p) <=> p \in Outstanding
    BY InvSplit
<1>2. PICK p \in cur : dags' = [dags EXCEPT ![p[1]] = WriteBack(@, p[2], r)]
    OBVIOUS
<1>3. p \in Item /\ p \in Outstanding /\ Outstanding' = Outstanding \ {p} /\ cur = {p}
    <2>1. p \in Item
        BY <1>1, <1>2 DEF ControlOK
    <2>2. /\ \A q \in cur : q = p
          /\ cur \cap (todo \cup pool) = {}
        BY <1>2 DEF IInv, OwnerInv
    <2>3. cur' = {} /\ todo' = todo /\ pool' = pool
        OBVIOUS
    <2> HIDE DEF InlineDone
    <2> QED
        BY <1>2, <2>1, <2>2, <2>3 DEF Outstanding
<1>4. dagCount \in Nat /\ dagCount' = dagCount /\ Resting' = FALSE
    BY <1>1 DEF ControlOK, Resting
<1>5. Runs(dags, p)
    BY <1>1, <1>3
<1> DEFINE E == [dags EXCEPT ![p[1]] = WriteBack(@, p[2], r)]
<1>6. /\ TableOK(E, dagCount, FALSE)
      /\ \A q \in Item : Runs(E, q) <=> Runs(dags, q) /\ q # p
    BY <1>1, <1>3, <1>4, <1>5, TableWriteBack
<1>7. dags' = E
    BY <1>2
<1> HIDE DEF E
<1>8. TableOK(dags', dagCount', Resting')
    BY <1>4, <1>6, <1>7
<1>9. \A q \in Item : Runs(dags', q) <=> q \in Outstanding'
    BY <1>1, <1>3, <1>6, <1>7
<1>10. PendingInv' /\ pending' \in Nat
    BY <1>3, BatchDoneFacts
<1>11. ControlOK'
    BY <1>1, <1>2, <1>10 DEF ControlOK
<1> QED
    BY <1>2, <1>8, <1>9, <1>10, <1>11, InvJoin DEF IInv, OwnerInv

LEMMA PoolDoneStep ==
    ASSUME IInv, NEW r \in Outcome, PoolDone(r)
    PROVE  IInv'
<1> USE DEF PoolDone
<1>1. /\ ControlOK /\ TableOK(dags, dagCount, FALSE)
      /\ \A p \in Item : Runs(dags, p) <=> p \in Outstanding
    BY InvSplit
<1>2. PICK p \in pool : /\ dags' = [dags EXCEPT ![p[1]] = WriteBack(@, p[2], r)]
                        /\ pool' = pool \ {p}
    OBVIOUS
<1>3. p \in Item /\ p \in Outstanding /\ Outstanding' = Outstanding \ {p}
    <2>1. p \in Item
        BY <1>1, <1>2 DEF ControlOK
    <2>2. cur \cap (todo \cup pool) = {} /\ todo \cap pool = {}
        BY DEF IInv, OwnerInv
    <2>3. cur' = cur /\ todo' = todo
        OBVIOUS
    <2> HIDE DEF PoolDone
    <2> QED
        BY <1>2, <2>1, <2>2, <2>3 DEF Outstanding
<1>4. pc \in {"dispatch", "inline"} /\ pc' = pc
    BY <1>2 DEF IInv, OwnerInv
<1>5. dagCount \in Nat /\ dagCount' = dagCount /\ Resting' = FALSE
    BY <1>1, <1>4 DEF ControlOK, Resting
<1>6. Runs(dags, p)
    BY <1>1, <1>3
<1> DEFINE E == [dags EXCEPT ![p[1]] = WriteBack(@, p[2], r)]
<1>7. /\ TableOK(E, dagCount, FALSE)
      /\ \A q \in Item : Runs(E, q) <=> Runs(dags, q) /\ q # p
    BY <1>1, <1>3, <1>5, <1>6, TableWriteBack
<1>8. dags' = E
    BY <1>2
<1> HIDE DEF E
<1>9. TableOK(dags', dagCount', Resting')
    BY <1>5, <1>7, <1>8
<1>10. \A q \in Item : Runs(dags', q) <=> q \in Outstanding'
    BY <1>1, <1>3, <1>7, <1>8
<1>11. PendingInv' /\ pending' \in Nat
    BY <1>3, <1>4, BatchDoneFacts
<1>12. ControlOK'
    BY <1>1, <1>2, <1>11 DEF ControlOK
<1> QED
    BY <1>2, <1>4, <1>9, <1>10, <1>11, <1>12, InvJoin DEF IInv, OwnerInv

LEMMA BarrierStep ==
    ASSUME IInv, BatchBarrier
    PROVE  IInv'
<1> USE DEF BatchBarrier
<1>1. /\ ControlOK /\ TableOK(dags, dagCount, FALSE)
      /\ \A p \in Item : Runs(dags, p) <=> p \in Outstanding
    BY InvSplit
<1>2. Outstanding = {} /\ Outstanding' = {}
    <2>1. Outstanding \in SUBSET Item
        BY InvSplit
    <2>2. Cardinality(Outstanding) = 0
        BY DEF IInv, PendingInv
    <2> QED
        BY <2>1, <2>2, ItemFacts, FS_EmptySet DEF Outstanding
<1>3. dagCount \in Nat /\ dagCount' = dagCount /\ Resting' = TRUE
    BY <1>1 DEF ControlOK, Resting
<1>4. /\ TableOK(dags', dagCount', Resting')
      /\ \A q \in Item : Runs(dags', q) <=> Runs(dags, q)
    BY <1>1, <1>3, TableConverge
<1>5. \A q \in Item : Runs(dags', q) <=> q \in Outstanding'
    BY <1>1, <1>2, <1>4
<1>6. ControlOK'
    BY <1>1 DEF ControlOK
<1>7. PendingInv'
    BY <1>2, FS_EmptySet DEF PendingInv
<1> QED
    BY <1>2, <1>4, <1>5, <1>6, <1>7, InvJoin DEF Outstanding

LEMMA TickStep ==
    ASSUME IInv, Tick
    PROVE  IInv'
<1>0. /\ waitFor' = Less(waitFor)
      /\ UNCHANGED <<dagCount, dagRun, pc, wake, cur, todo, pool, pending>>
    BY DEF Tick
<1>1. /\ ControlOK /\ TableOK(dags, dagCount, Resting)
      /\ \A p \in Item : Runs(dags, p) <=> p \in Outstanding
    BY InvSplit
<1> DEFINE T(d) == [n \in Node |-> Less(dags[d].timer[n])]
           U(d) == IF dags[d].budget = Unlimited THEN Unlimited ELSE Less(dags[d].budget)
           H(d) == [dags[d] EXCEPT !.timer = T(d), !.budget = U(d)]
<1>2. ASSUME NEW d \in Dag
      PROVE  SlotOK(d, H(d), dagCount, Resting) /\ H(d).st = dags[d].st
    <2>1. SlotOK(d, dags[d], dagCount, Resting) /\ dags[d] \in Graph
        BY <1>1 DEF TableOK, SlotOK
    <2>2. T(d) \in [Node -> Int]
        <3>1. dags[d].timer \in [Node -> Int]
            BY <2>1 DEF Graph
        <3> QED
            BY <3>1 DEF Less
    <2>3. U(d) \in Nat \cup {Unlimited}
        <3>1. dags[d].budget \in Nat \cup {Unlimited}
            BY <2>1 DEF Graph
        <3> QED
            BY <3>1 DEF Less
    <2>4. dags[d] = EmptySlot => H(d) = EmptySlot
        <3> SUFFICES ASSUME dags[d] = EmptySlot PROVE H(d) = EmptySlot
            OBVIOUS
        <3>0. /\ EmptySlot.timer = [n \in Node |-> 0]
              /\ EmptySlot.budget = Unlimited
            BY DEF EmptySlot
        <3>1. T(d) = EmptySlot.timer
            BY <3>0 DEF Less
        <3>2. U(d) = EmptySlot.budget
            BY <3>0
        <3> HIDE DEF T, U
        <3> QED
            BY <3>1, <3>2 DEF EmptySlot
    <2> HIDE DEF T, U
    <2>5. /\ H(d) \in Graph /\ H(d).st = dags[d].st
          /\ Accepted(dags[d]) => Accepted(H(d))
          /\ GraphInv(dags[d]) => GraphInv(H(d))
          /\ Settled(dags[d]) => Settled(H(d))
        <3> DEFINE g == dags[d]
                   t == T(d)
                   u == U(d)
        <3>1. g \in Graph /\ t \in [Node -> Int] /\ u \in Nat \cup {Unlimited}
            BY <2>1, <2>2, <2>3
        <3> HIDE DEF g, t, u
        <3>2. LET h == [g EXCEPT !.timer = t, !.budget = u]
              IN  /\ h \in Graph /\ h.st = g.st
                  /\ Accepted(g) => Accepted(h)
                  /\ GraphInv(g) => GraphInv(h)
                  /\ Settled(g) => Settled(h)
            BY <3>1, ClockFacts
        <3> QED
            BY <3>2 DEF g, t, u
    <2> HIDE DEF H
    <2> QED
        BY <2>1, <2>4, <2>5 DEF SlotOK
<1>3. dags' = [d \in Dag |-> H(d)]
    BY DEF Tick
<1> HIDE DEF H
<1>4. Resting' = Resting /\ Outstanding' = Outstanding /\ dagCount' = dagCount
    BY <1>0 DEF Resting, Outstanding
<1>5. TableOK(dags', dagCount', Resting')
    BY <1>2, <1>3, <1>4 DEF TableOK
<1>6. ASSUME NEW p \in Item
      PROVE  Runs(dags', p) <=> p \in Outstanding'
    <2>1. p[1] \in Dag
        BY DEF Item
    <2>2. dags'[p[1]].st = dags[p[1]].st
        BY <1>2, <1>3, <2>1
    <2>3. Runs(dags', p) <=> Runs(dags, p)
        BY <2>2 DEF Runs
    <2> QED
        BY <1>1, <1>4, <2>3
<1>7. ControlOK'
    <2>1. waitFor' \in Int
        BY <1>0, <1>1 DEF ControlOK, Less
    <2> QED
        BY <1>0, <1>1, <2>1 DEF ControlOK
<1>8. PendingInv'
    BY <1>0, <1>4 DEF IInv, PendingInv
<1> QED
    BY <1>0, <1>5, <1>6, <1>7, <1>8, InvJoin DEF IInv, OwnerInv

-----------------------------------------------------------------------------
(* The induction step: one case per action of the engine.                  *)
LEMMA NextInv == IInv /\ [Next]_vars => IInv'
<1> SUFFICES ASSUME IInv, [Next]_vars PROVE IInv'
    OBVIOUS
<1>0. ControlOK
    BY InvSplit
<1>1. ASSUME NEW b \in Blueprint, SubmitDag(b) PROVE IInv'
    BY <1>1, SubmitStep
<1>2. ASSUME NEW d \in Dag, CancelDag(d) PROVE IInv'
    BY <1>2, CancelStep
<1>3. CASE StartWorkers
    <2>1. ControlOK' /\ Resting /\ Resting'
        BY <1>0, <1>3 DEF StartWorkers, ControlOK, Resting
    <2> QED
        BY <1>3, <2>1, QuietStep DEF StartWorkers
<1>4. CASE StopWorkers
    <2>1. ControlOK'
        BY <1>0, <1>4 DEF StopWorkers, Broadcast, ControlOK
    <2> QED
        BY <1>4, <2>1, QuietStep DEF StopWorkers
<1>5. CASE ExitThread
    <2>1. ControlOK' /\ Resting /\ Resting'
        BY <1>0, <1>5 DEF ExitThread, ControlOK, Resting
    <2> QED
        BY <1>5, <2>1, QuietStep DEF ExitThread
<1>6. CASE ScanMiss
    <2>1. ControlOK' /\ Resting /\ Resting'
        BY <1>0, <1>6 DEF ScanMiss, ControlOK, Resting
    <2> QED
        BY <1>6, <2>1, QuietStep DEF ScanMiss
<1>7. CASE ArmWait
    <2>1. Resting /\ Resting'
        BY <1>7 DEF ArmWait, Resting
    <2>2. waitFor' \in Int
        <3>1. CASE UNCHANGED waitFor
            BY <1>0, <3>1 DEF ControlOK
        <3>2. CASE \E p \in InBackoff : waitFor' = dags[p[1]].timer[p[2]]
            <4>1. PICK p \in Item : waitFor' = dags[p[1]].timer[p[2]]
                BY <3>2 DEF InBackoff
            <4>2. p[1] \in Dag /\ p[2] \in Node
                BY DEF Item
            <4>3. dags[p[1]] \in Graph
                BY <4>2 DEF IInv, TypeOK
            <4>4. dags[p[1]].timer \in [Node -> Int]
                BY <4>3 DEF Graph
            <4> QED
                BY <4>1, <4>2, <4>4
        <3> QED
            BY <1>7, <3>1, <3>2 DEF ArmWait
    <2>3. ControlOK'
        BY <1>0, <1>7, <2>2 DEF ArmWait, ControlOK
    <2> QED
        BY <1>7, <2>1, <2>3, QuietStep DEF ArmWait
<1>8. CASE Wakeup
    <2>0. waitFor' \in Int /\ wake' \in BOOLEAN /\ pc' = "scan"
        <3>1. waitFor' = 0 /\ wake' = FALSE /\ pc' = "scan"
            BY <1>8 DEF Wakeup
        <3>2. waitFor' \in Int
            BY <3>1
        <3>3. wake' \in BOOLEAN
            BY <3>1, Zenon
        <3> QED
            BY <3>1, <3>2, <3>3
    <2>1. ControlOK' /\ Resting /\ Resting'
        BY <1>0, <1>8, <2>0 DEF Wakeup, ControlOK, Resting
    <2> QED
        BY <1>8, <2>1, QuietStep DEF Wakeup
<1>9. CASE SpuriousWakeup
    <2>0. waitFor' \in Int /\ wake' \in BOOLEAN /\ pc' = "scan"
        <3>1. waitFor' = 0 /\ wake' = FALSE /\ pc' = "scan"
            BY <1>9 DEF SpuriousWakeup
        <3>2. waitFor' \in Int
            BY <3>1
        <3>3. wake' \in BOOLEAN
            BY <3>1, Zenon
        <3> QED
            BY <3>1, <3>2, <3>3
    <2>1. ControlOK' /\ Resting /\ Resting'
        BY <1>0, <1>9, <2>0 DEF SpuriousWakeup, ControlOK, Resting
    <2> QED
        BY <1>9, <2>1, QuietStep DEF SpuriousWakeup
<1>10. CASE RunOne
    BY <1>10, RunOneStep
<1>11. CASE CollectBatch
    BY <1>11, CollectStep
<1>12. CASE DispatchToPool
    BY <1>12, DispatchToPoolStep
<1>13. CASE DispatchInline
    BY <1>13, DispatchInlineStep
<1>14. CASE DispatchFail
    BY <1>14, DispatchFailStep
<1>15. CASE BatchBarrier
    BY <1>15, BarrierStep
<1>16. ASSUME NEW r \in Outcome, RunOneDone(r) PROVE IInv'
    BY <1>16, RunOneDoneStep
<1>17. ASSUME NEW r \in Outcome, InlineDone(r) PROVE IInv'
    BY <1>17, InlineDoneStep
<1>18. ASSUME NEW r \in Outcome, PoolDone(r) PROVE IInv'
    BY <1>18, PoolDoneStep
<1>19. CASE Tick
    BY <1>19, TickStep
<1>20. CASE UNCHANGED vars
    <2>1. ControlOK'
        BY <1>0, <1>20 DEF vars, ControlOK
    <2> QED
        BY <1>20, <2>1, QuietStep DEF vars
<1> QED
    BY <1>1, <1>2, <1>3, <1>4, <1>5, <1>6, <1>7, <1>8, <1>9, <1>10, <1>11,
       <1>12, <1>13, <1>14, <1>15, <1>16, <1>17, <1>18, <1>19, <1>20
       DEF Next, DagThread, Executor

(* The engine keeps its inductive invariant, for every number of graphs,   *)
(* every set of blueprints, both dispatch paths and both cascade modes.    *)
THEOREM EngineInvariant == Spec => []IInv
    BY InitInv, NextInv, PTL DEF Spec

(* sched_service_s stays well formed: see TypeOK.                          *)
THEOREM EngineTypeOK == Spec => []TypeOK
<1>1. IInv => TypeOK
    BY DEF IInv
<1> QED
    BY <1>1, EngineInvariant, PTL

LEMMA UsedFacts ==
    ASSUME IInv, NEW d \in Used
    PROVE  /\ d \in Dag /\ d <= dagCount
           /\ dags[d] \in Graph /\ Accepted(dags[d]) /\ GraphInv(dags[d])
           /\ Resting => Settled(dags[d])
<1>1. d \in Dag /\ dags[d].status # "NONE"
    BY DEF Used
<1>2. d <= dagCount
    BY <1>1, EmptySlotFacts DEF IInv, TypeOK
<1> QED
    BY <1>1, <1>2 DEF IInv, TypeOK, GraphsInv

(* Topological order: sched_dag_node_ready lets a node start only after    *)
(* all its dependencies completed, and nothing undoes that later.          *)
THEOREM TopologicalOrder == Spec => []StartedAfterDeps
<1>1. IInv => StartedAfterDeps
    BY UsedFacts DEF StartedAfterDeps, GraphInv, GraphStarted
<1> QED
    BY <1>1, EngineInvariant, PTL

(* The status sched_dag_finalize_terminal or an abort gives a graph is     *)
(* what happened to its nodes.                                             *)
THEOREM VerdictIsTrue == Spec => []GraphVerdict
<1>1. IInv => GraphVerdict
    BY UsedFacts DEF GraphVerdict, GraphInv, GraphVerdictOf
<1> QED
    BY <1>1, EngineInvariant, PTL

(* A closed graph has no node left to start.                               *)
THEOREM ClosedIsDrained == Spec => []ClosedGraphDrained
<1>1. IInv => ClosedGraphDrained
    <2> SUFFICES ASSUME IInv, NEW d \in Used, dags[d].status # "ACTIVE",
                        NEW n \in dags[d].bp.nodes
                 PROVE  dags[d].st[n] \notin {"PENDING", "READY"}
        BY DEF ClosedGraphDrained
    <2>1. Accepted(dags[d]) /\ GraphInv(dags[d])
        BY UsedFacts
    <2>2. n \in Node
        BY <2>1, BlueprintFacts DEF Accepted
    <2> QED
        BY <2>1, <2>2 DEF GraphInv, GraphClosed
<1> QED
    BY <1>1, EngineInvariant, PTL

(* Every running node has exactly one thread that will write it back, and  *)
(* batch_pending counts the outstanding items of a batch.                  *)
THEOREM RunningHasOwner == Spec => []RunningIsOwned
<1>1. IInv => RunningIsOwned
    <2> SUFFICES ASSUME IInv PROVE RunningIsOwned
        OBVIOUS
    <2>1. Outstanding \subseteq Item
        BY InvSplit
    <2>2. {p \in Item : dags[p[1]].st[p[2]] = "RUNNING"} = Outstanding
        BY <2>1 DEF IInv, OwnerInv
    <2> QED
        BY <2>2 DEF RunningIsOwned, IInv, PendingInv
<1> QED
    BY <1>1, EngineInvariant, PTL

(* Whenever the dag thread looks for work or waits, each active graph has  *)
(* a node that can run as soon as its backoff is over.                     *)
THEOREM NeverStuck == Spec => []NoStuckGraph
<1>1. IInv => NoStuckGraph
    <2> SUFFICES ASSUME IInv, Resting, NEW d \in Used, dags[d].status = "ACTIVE"
                 PROVE  \E n \in dags[d].bp.nodes :
                            /\ dags[d].st[n] = "PENDING"
                            /\ \A m \in dags[d].bp.deps[n] : dags[d].st[m] = "COMPLETED"
        BY DEF NoStuckGraph
    <2> DEFINE g == dags[d]
               P == {n \in g.bp.nodes : g.st[n] = "PENDING"}
    <2>1. d \in Dag /\ g \in Graph /\ Accepted(g) /\ GraphInv(g) /\ Settled(g)
        BY UsedFacts
    <2>2. /\ g.bp.nodes \subseteq Node
          /\ \A n \in g.bp.nodes : g.bp.deps[n] \subseteq g.bp.nodes
        BY <2>1, BlueprintFacts DEF Accepted, ValidBlueprint, DepsExist
    <2>3. \A n \in Node : g.st[n] # "RUNNING"
        <3>1. Outstanding = {}
            BY DEF IInv, OwnerInv, Outstanding, Resting
        <3>2. \A n \in Node : <<d, n>> \in Item
            BY <2>1 DEF Item
        <3> QED
            BY <3>1, <3>2 DEF IInv, OwnerInv
    <2>4. \A n \in Node : g.st[n] \in NodeDone \cup {"PENDING"}
        BY <2>1, <2>3 DEF GraphInv, Graph, NodeStatus, NodeDone
    <2>5. P # {}
        BY <2>1, <2>2, <2>4 DEF Settled, AllTerminal
    <2>6. WellFounded(g.bp)
        BY <2>1, AcceptedIsWellFounded DEF Accepted
    <2>7. PICK n \in P : g.bp.deps[n] \cap P = {}
        BY <2>5, <2>6 DEF WellFounded
    <2>8. \A m \in g.bp.deps[n] : g.st[m] = "COMPLETED"
        BY <2>1, <2>2, <2>4, <2>7 DEF Settled, NodeDone, DepBroken
    <2> QED
        BY <2>7, <2>8
<1> QED
    BY <1>1, EngineInvariant, PTL

-----------------------------------------------------------------------------
(* The action properties.  Keeps(g, h): what graph g became final about is *)
(* still so in h, and a closed g gained no completed node.                 *)
Keeps(g, h) ==
    /\ h.bp = g.bp
    /\ g.status # "ACTIVE" => h.status = g.status
    /\ \A n \in g.bp.nodes : g.st[n] \in NodeDone => h.st[n] = g.st[n]
    /\ g.status # "ACTIVE" =>
         \A n \in g.bp.nodes : h.st[n] = "COMPLETED" => g.st[n] = "COMPLETED"

LEMMA KeepsReflexive == \A g : Keeps(g, g)
    BY DEF Keeps

LEMMA CascadeKeeps ==
    ASSUME NEW g \in Graph, g.status = "ACTIVE", Accepted(g), NEW s \in DagStatus
    PROVE  Keeps(g, CascadeCancel([g EXCEPT !.status = s]))
<1> DEFINE c == [g EXCEPT !.status = s]
           h == CascadeCancel(c)
           x == [n \in Node |-> IF n \in c.bp.nodes /\ c.st[n] \in {"PENDING", "READY"}
                                THEN "CANCELED" ELSE c.st[n]]
<1>1. c.bp = g.bp /\ c.st = g.st /\ c \in Graph
    BY DEF Graph
<1> HIDE DEF c
<1>2. h.bp = g.bp /\ h.st = x
    BY <1>1 DEF CascadeCancel, Graph
<1>3. g.bp.nodes \subseteq Node
    BY BlueprintFacts DEF Accepted
<1>4. \A n \in g.bp.nodes : g.st[n] \in NodeDone => h.st[n] = g.st[n]
    BY <1>1, <1>2, <1>3 DEF NodeDone
<1> QED
    BY <1>2, <1>4 DEF Keeps, h, c

LEMMA WriteBackKeeps ==
    ASSUME NEW g \in Graph, Accepted(g), NEW n \in g.bp.nodes, g.st[n] = "RUNNING",
           g.status \in {"ACTIVE", "FAILED", "CANCELED"}, NEW r \in Outcome
    PROVE  Keeps(g, WriteBack(g, n, r))
<1> DEFINE h == WriteBack(g, n, r)
<1>0. g.bp.nodes \subseteq Node /\ n \in Node
    BY BlueprintFacts DEF Accepted
<1>1. CASE g.status # "ACTIVE"
    <2>1. h = NodeFinal(g, n, "CANCELED")
        BY <1>1 DEF WriteBack
    <2>2. /\ h.st = [g.st EXCEPT ![n] = "CANCELED"]
          /\ h.bp = g.bp /\ h.status = g.status
        <3>1. "CANCELED" \in NodeStatus
            BY DEF NodeStatus
        <3> HIDE DEF h
        <3> QED
            BY <1>0, <2>1, <3>1, NodeFinalFacts
    <2> HIDE DEF h
    <2>3. \A m \in g.bp.nodes : h.st[m] = IF m = n THEN "CANCELED" ELSE g.st[m]
        BY <1>0, <2>2 DEF Graph
    <2> QED
        BY <2>2, <2>3 DEF Keeps, NodeDone, h
<1>2. CASE g.status = "ACTIVE"
    <2>1. CASE r \in Success
        <3>1. PICK x \in NodeStatus : h = NodeFinal(g, n, x)
            BY <1>2, <2>1 DEF WriteBack, NodeSucceed, Success, NodeStatus
        <3> HIDE DEF h
        <3>2. h.st = [g.st EXCEPT ![n] = x] /\ h.bp = g.bp
            BY <1>0, <3>1, NodeFinalFacts
        <3>3. \A m \in g.bp.nodes : h.st[m] = IF m = n THEN x ELSE g.st[m]
            BY <1>0, <3>2 DEF Graph
        <3> QED
            BY <1>2, <3>2, <3>3 DEF Keeps, NodeDone, h
    <2>2. CASE r \notin Success /\ (r = "fatal" \/ ~FatalCascade)
        <3> DEFINE f == [g EXCEPT !.st[n] = "FAILED"]
        <3>1. h = CascadeCancel([f EXCEPT !.status = "FAILED"])
            BY <1>2, <2>2 DEF WriteBack, DagAbort
        <3>2. /\ f \in Graph /\ f.bp = g.bp /\ f.status = "ACTIVE"
              /\ f.retries = g.retries /\ f.st = [g.st EXCEPT ![n] = "FAILED"]
            BY <1>0, <1>2 DEF Graph, NodeStatus
        <3> HIDE DEF f
        <3>3. Accepted(f)
            BY <3>2 DEF Accepted
        <3>4. Keeps(f, h)
            BY <3>1, <3>2, <3>3, CascadeKeeps DEF DagStatus
        <3>5. \A m \in g.bp.nodes : g.st[m] \in NodeDone => f.st[m] = g.st[m]
            BY <1>0, <3>2 DEF Graph, NodeDone
        <3> HIDE DEF h
        <3> QED
            BY <1>2, <3>2, <3>4, <3>5 DEF Keeps, h
    <2>3. CASE r \notin Success /\ r # "fatal" /\ FatalCascade /\ MayRetry(g, n, r)
        <3>1. h = NodeBackoff(g, n)
            BY <1>2, <2>3 DEF WriteBack
        <3>2. h.st = [g.st EXCEPT ![n] = "PENDING"] /\ h.bp = g.bp
            BY <3>1 DEF NodeBackoff, Graph
        <3> HIDE DEF h
        <3>3. \A m \in g.bp.nodes : h.st[m] = IF m = n THEN "PENDING" ELSE g.st[m]
            BY <1>0, <3>2 DEF Graph
        <3> QED
            BY <1>2, <3>2, <3>3 DEF Keeps, NodeDone, h
    <2>4. CASE r \notin Success /\ r # "fatal" /\ FatalCascade /\ ~MayRetry(g, n, r)
        <3>1. h = [g EXCEPT !.st[n] = "FAILED"]
            BY <1>2, <2>4 DEF WriteBack
        <3>2. h.st = [g.st EXCEPT ![n] = "FAILED"] /\ h.bp = g.bp
            BY <3>1 DEF Graph
        <3> HIDE DEF h
        <3>3. \A m \in g.bp.nodes : h.st[m] = IF m = n THEN "FAILED" ELSE g.st[m]
            BY <1>0, <3>2 DEF Graph
        <3> QED
            BY <1>2, <3>2, <3>3 DEF Keeps, NodeDone, h
    <2> QED
        BY <2>1, <2>2, <2>3, <2>4
<1> QED
    BY <1>1, <1>2

LEMMA ConvergeKeeps ==
    ASSUME NEW g \in Graph, Accepted(g)
    PROVE  Keeps(g, FinalizeTerminal(PropagateUnreachable(g)))
<1> DEFINE k == PropagateUnreachable(g)
           h == FinalizeTerminal(k)
<1>1. CASE g.status # "ACTIVE"
    BY <1>1, KeepsReflexive DEF PropagateUnreachable, FinalizeTerminal
<1>2. CASE g.status = "ACTIVE"
    <2>0. g.bp.nodes \subseteq Node
        BY BlueprintFacts DEF Accepted
    <2> DEFINE x == [n \in Node |-> IF n \in Unreachable(g) THEN "CANCELED" ELSE g.st[n]]
    <2>1. k.bp = g.bp /\ k.st = x
        BY <1>2 DEF PropagateUnreachable, Graph
    <2>2. \A n \in g.bp.nodes : g.st[n] \in NodeDone => k.st[n] = g.st[n]
        BY <2>0, <2>1, UnreachableFacts DEF PendingNodes, NodeDone
    <2>3. k \in Graph
        <3> DEFINE t == [n \in Node |-> IF n \in Unreachable(g) THEN 0 ELSE g.timer[n]]
        <3>1. x \in [Node -> NodeStatus] /\ t \in [Node -> Int]
            BY DEF Graph, NodeStatus
        <3>2. k = [g EXCEPT !.st = x, !.timer = t]
            BY <1>2 DEF PropagateUnreachable
        <3> HIDE DEF x, t, k
        <3> QED
            BY <3>1, <3>2 DEF Graph
    <2> HIDE DEF k, x
    <2>4. h.st = k.st /\ h.bp = k.bp
        BY <2>3 DEF FinalizeTerminal, Graph
    <2> QED
        BY <1>2, <2>1, <2>2, <2>4 DEF Keeps, k, h
<1> QED
    BY <1>1, <1>2

(* The same for a whole step of the table.                                 *)
TableKeeps(D, E) == \A d \in Dag : D[d].status # "NONE" => Keeps(D[d], E[d])

LEMMA TableWriteBackKeeps ==
    ASSUME IInv, NEW p \in Outstanding, NEW r \in Outcome
    PROVE  TableKeeps(dags, [dags EXCEPT ![p[1]] = WriteBack(@, p[2], r)])
<1> DEFINE e == p[1]
           n == p[2]
           g == dags[e]
           h == WriteBack(g, n, r)
           E == [dags EXCEPT ![e] = h]
<1>1. /\ TableOK(dags, dagCount, FALSE)
      /\ \A q \in Item : Runs(dags, q) <=> q \in Outstanding
      /\ p \in Item
    BY InvSplit
<1>2. e \in Dag /\ n \in Node /\ g.st[n] = "RUNNING"
    BY <1>1 DEF Item, Runs
<1>3. SlotOK(e, g, dagCount, FALSE) /\ dags = [d \in Dag |-> dags[d]]
    BY <1>1, <1>2 DEF TableOK
<1>4. g \in Graph /\ Accepted(g) /\ GraphInv(g)
    BY <1>2, <1>3, EmptySlotFacts DEF SlotOK
<1>5. n \in g.bp.nodes
    BY <1>2, <1>4 DEF GraphInv
<1>6. g.status \in {"ACTIVE", "FAILED", "CANCELED"}
    <2>1. g.status \notin {"COMPLETED", "SEMANTIC_FAILED"}
        BY <1>2, <1>4, <1>5 DEF GraphInv, GraphVerdictOf
    <2> QED
        BY <1>4, <2>1 DEF Graph, Accepted, DagStatus
<1>7. Keeps(g, h)
    BY <1>2, <1>4, <1>5, <1>6, WriteBackKeeps
<1> HIDE DEF h
<1>8. \A d \in Dag : E[d] = IF d = e THEN h ELSE dags[d]
    BY <1>2, <1>3
<1>9. TableKeeps(dags, E)
    BY <1>7, <1>8, KeepsReflexive DEF TableKeeps
<1> QED
    BY <1>9 DEF h

LEMMA TableConvergeKeeps ==
    ASSUME NEW D, NEW E, NEW c \in Nat, TableOK(E, c, FALSE), TableKeeps(D, E),
           \A d \in Dag : D[d].status # "NONE" => E[d].status # "NONE"
    PROVE  TableKeeps(D, Converge(E))
<1> SUFFICES ASSUME NEW d \in Dag, D[d].status # "NONE"
             PROVE  Keeps(D[d], Converge(E)[d])
    BY DEF TableKeeps
<1>1. E[d] \in Graph /\ Accepted(E[d])
    BY EmptySlotFacts DEF TableOK, SlotOK
<1>2. Keeps(E[d], FinalizeTerminal(PropagateUnreachable(E[d])))
    BY <1>1, ConvergeKeeps
<1>3. Converge(E)[d] = FinalizeTerminal(PropagateUnreachable(E[d]))
    BY DEF Converge
<1>4. Keeps(D[d], E[d])
    BY DEF TableKeeps
<1> DEFINE f == E[d]
           h == Converge(E)[d]
<1>5. Keeps(D[d], f) /\ Keeps(f, h)
    BY <1>2, <1>3, <1>4
<1> HIDE DEF f, h
<1>6. Keeps(D[d], h)
    BY <1>5 DEF Keeps
<1> QED
    BY <1>6 DEF h

(* A write-back never empties a slot.                                      *)
LEMMA WriteBackSlots ==
    ASSUME IInv, NEW p \in Outstanding, NEW r \in Outcome, NEW E,
           E = [dags EXCEPT ![p[1]] = WriteBack(@, p[2], r)]
    PROVE  /\ dagCount \in Nat
           /\ TableOK(E, dagCount, FALSE)
           /\ \A d \in Dag : dags[d].status # "NONE" => E[d].status # "NONE"
<1>1. /\ ControlOK /\ TableOK(dags, dagCount, FALSE)
      /\ \A q \in Item : Runs(dags, q) <=> q \in Outstanding
      /\ p \in Item
    BY InvSplit
<1>2. Runs(dags, p) /\ dagCount \in Nat
    BY <1>1 DEF ControlOK
<1>3. TableOK(E, dagCount, FALSE)
    BY <1>1, <1>2, TableWriteBack
<1>4. \A d \in Dag : dags[d].status # "NONE" => d <= dagCount
    BY <1>1, EmptySlotFacts DEF TableOK, SlotOK
<1> QED
    BY <1>2, <1>3, <1>4 DEF TableOK, SlotOK, Accepted

LEMMA StepKeeps ==
    ASSUME IInv, [Next]_vars
    PROVE  TableKeeps(dags, dags')
<1>0. /\ ControlOK /\ TableOK(dags, dagCount, FALSE)
      /\ Outstanding \subseteq Item
    BY InvSplit
<1>u. dags = [d \in Dag |-> dags[d]]
    BY <1>0 DEF TableOK
<1>v. \A d \in Dag : dags[d].status # "NONE" =>
          d <= dagCount /\ dags[d] \in Graph /\ Accepted(dags[d])
    BY <1>0, EmptySlotFacts DEF TableOK, SlotOK
<1>q. UNCHANGED dags => TableKeeps(dags, dags')
    BY KeepsReflexive DEF TableKeeps
<1>1. ASSUME NEW b \in Blueprint, SubmitDag(b) PROVE TableKeeps(dags, dags')
    <2>1. dagCount \in Nat /\ dags' = [dags EXCEPT ![dagCount + 1] = NewGraph(b)]
        BY <1>0, <1>1 DEF SubmitDag, ControlOK
    <2>2. \A d \in Dag : dags[d].status # "NONE" => dags'[d] = dags[d]
        BY <1>u, <1>v, <2>1 DEF Dag
    <2> QED
        BY <2>2, KeepsReflexive DEF TableKeeps
<1>2. ASSUME NEW e \in Dag, CancelDag(e) PROVE TableKeeps(dags, dags')
    <2> DEFINE h == CancelPending(dags[e])
    <2>1. dags[e].status = "ACTIVE" /\ dags' = [dags EXCEPT ![e] = h]
        BY <1>2 DEF CancelDag
    <2>2. dags[e] \in Graph /\ Accepted(dags[e]) /\ GraphInv(dags[e])
        BY <1>0, <1>v, <2>1 DEF TableOK, SlotOK
    <2>3. Keeps(dags[e], h)
        <3>1. /\ h.bp = dags[e].bp
              /\ \A m \in dags[e].bp.nodes :
                    dags[e].st[m] \in NodeDone => h.st[m] = dags[e].st[m]
            BY <2>1, <2>2, CancelFacts
        <3> HIDE DEF h
        <3> QED
            BY <2>1, <3>1 DEF Keeps
    <2> HIDE DEF h
    <2>4. \A d \in Dag : dags'[d] = IF d = e THEN h ELSE dags[d]
        BY <1>u, <2>1
    <2> QED
        BY <2>3, <2>4, KeepsReflexive DEF TableKeeps
<1>3. ASSUME NEW B \in SUBSET ReadySet, dags' = StartNodes(B)
      PROVE  TableKeeps(dags, dags')
    <2> SUFFICES ASSUME NEW d \in Dag, dags[d].status # "NONE"
                 PROVE  Keeps(dags[d], dags'[d])
        BY DEF TableKeeps
    <2> DEFINE g == dags[d]
               x == [n \in Node |-> IF <<d, n>> \in B THEN "RUNNING" ELSE dags[d].st[n]]
               h == [g EXCEPT !.st = x]
    <2>1. dags'[d] = h
        BY <1>3 DEF StartNodes
    <2>2. g \in Graph /\ g.bp.nodes \subseteq Node
        BY <1>v, BlueprintFacts DEF Accepted
    <2>3. \A n \in Node : <<d, n>> \in B => g.st[n] = "PENDING" /\ g.status = "ACTIVE"
        BY DEF ReadySet, NodeReady
    <2>4. \A n \in Node : x[n] = IF <<d, n>> \in B THEN "RUNNING" ELSE g.st[n]
        OBVIOUS
    <2> HIDE DEF x
    <2>5. h.st = x /\ h.bp = g.bp /\ h.status = g.status
        BY <2>2 DEF Graph
    <2> HIDE DEF h
    <2>6. Keeps(g, h)
        BY <2>2, <2>3, <2>4, <2>5 DEF Keeps, NodeDone
    <2> QED
        BY <2>1, <2>6
<1>4. ASSUME NEW p \in Outstanding, NEW r \in Outcome,
             dags' = [dags EXCEPT ![p[1]] = WriteBack(@, p[2], r)]
      PROVE  TableKeeps(dags, dags')
    BY <1>4, TableWriteBackKeeps
<1>5. ASSUME NEW r \in Outcome, RunOneDone(r) PROVE TableKeeps(dags, dags')
    <2>1. PICK p \in cur :
              dags' = Converge([dags EXCEPT ![p[1]] = WriteBack(@, p[2], r)])
        BY <1>5 DEF RunOneDone
    <2>2. p \in Outstanding
        BY DEF Outstanding
    <2> DEFINE E == [dags EXCEPT ![p[1]] = WriteBack(@, p[2], r)]
    <2>3. TableKeeps(dags, E)
        BY <2>2, TableWriteBackKeeps
    <2>4. /\ dagCount \in Nat
          /\ TableOK(E, dagCount, FALSE)
          /\ \A d \in Dag : dags[d].status # "NONE" => E[d].status # "NONE"
        BY <2>2, WriteBackSlots
    <2>5. dags' = Converge(E)
        BY <2>1
    <2> HIDE DEF E
    <2> QED
        BY <2>3, <2>4, <2>5, TableConvergeKeeps
<1>6. CASE BatchBarrier
    <2>1. dags' = Converge(dags) /\ dagCount \in Nat
        BY <1>0, <1>6 DEF BatchBarrier, ControlOK
    <2>2. TableKeeps(dags, dags)
        BY KeepsReflexive DEF TableKeeps
    <2> QED
        BY <1>0, <2>1, <2>2, TableConvergeKeeps
<1>7. CASE DispatchFail
    <2>1. PICK p \in todo : dags' = [dags EXCEPT ![p[1]].st[p[2]] = "FAILED"]
        BY <1>7 DEF DispatchFail
    <2> DEFINE e == p[1]
               n == p[2]
               g == dags[e]
               h == [g EXCEPT !.st[n] = "FAILED"]
    <2>2. e \in Dag /\ n \in Node /\ g.st[n] = "RUNNING"
        <3>1. p \in Outstanding /\ p \in Item
            BY <1>0 DEF Outstanding
        <3> QED
            BY <3>1 DEF Item, IInv, OwnerInv
    <2>3. g \in Graph /\ g.bp.nodes \subseteq Node
        <3>1. SlotOK(e, g, dagCount, FALSE)
            BY <1>0, <2>2 DEF TableOK
        <3> QED
            BY <2>2, <3>1, EmptySlotFacts, BlueprintFacts DEF SlotOK, Accepted
    <2>4. h.bp = g.bp /\ h.status = g.status /\ h.st = [g.st EXCEPT ![n] = "FAILED"]
        BY <2>3 DEF Graph
    <2>5. dags' = [dags EXCEPT ![e] = h]
        BY <2>1
    <2> HIDE DEF h
    <2>6. \A m \in g.bp.nodes : h.st[m] = IF m = n THEN "FAILED" ELSE g.st[m]
        BY <2>3, <2>4 DEF Graph
    <2>7. Keeps(g, h)
        BY <2>2, <2>3, <2>4, <2>6 DEF Keeps, NodeDone
    <2>8. \A d \in Dag : dags'[d] = IF d = e THEN h ELSE dags[d]
        BY <1>u, <2>2, <2>5
    <2> QED
        BY <2>7, <2>8, KeepsReflexive DEF TableKeeps
<1>8. CASE Tick
    <2> SUFFICES ASSUME NEW d \in Dag, dags[d].status # "NONE"
                 PROVE  Keeps(dags[d], dags'[d])
        BY DEF TableKeeps
    <2>1. dags[d] \in Graph
        BY <1>v
    <2>2. /\ dags'[d].bp = dags[d].bp
          /\ dags'[d].st = dags[d].st
          /\ dags'[d].status = dags[d].status
        BY <1>8, <2>1 DEF Tick, Graph
    <2> QED
        BY <2>2 DEF Keeps
<1>9. CASE RunOne
    <2>1. PICK p \in ReadySet : dags' = StartNodes({p})
        BY <1>9 DEF RunOne
    <2> QED
        BY <1>3, <2>1
<1>10. CASE CollectBatch
    BY <1>3, <1>10 DEF CollectBatch
<1>11. ASSUME NEW r \in Outcome, InlineDone(r) PROVE TableKeeps(dags, dags')
    BY <1>4, <1>11 DEF InlineDone, Outstanding
<1>12. ASSUME NEW r \in Outcome, PoolDone(r) PROVE TableKeeps(dags, dags')
    BY <1>4, <1>12 DEF PoolDone, Outstanding
<1>13. CASE \/ StartWorkers \/ StopWorkers \/ ExitThread \/ ScanMiss \/ ArmWait
            \/ Wakeup \/ SpuriousWakeup \/ DispatchToPool \/ DispatchInline
            \/ UNCHANGED vars
    BY <1>q, <1>13 DEF StartWorkers, StopWorkers, ExitThread, ScanMiss, ArmWait,
        Wakeup, SpuriousWakeup, DispatchToPool, DispatchInline, vars
<1> QED
    BY <1>1, <1>2, <1>5, <1>6, <1>7, <1>8, <1>9, <1>10, <1>11, <1>12, <1>13
       DEF Next, DagThread, Executor

(* What is done stays done: no step of the engine changes a node that is   *)
(* done or the status of a closed graph.                                   *)
THEOREM DoneStaysDone == Spec => DoneIsFinal
<1>1. IInv /\ [Next]_vars =>
        [\A d \in Used :
            /\ dags[d].status # "ACTIVE" => dags'[d].status = dags[d].status
            /\ \A n \in dags[d].bp.nodes : dags[d].st[n] \in NodeDone =>
                 dags'[d].st[n] = dags[d].st[n]]_vars
    BY StepKeeps DEF Used, TableKeeps, Keeps
<1> QED
    BY <1>1, EngineInvariant, PTL DEF Spec, DoneIsFinal

(* A late result never completes a node of a closed graph.                 *)
THEOREM ClosedGainsNothing == Spec => NoOutputAfterClose
<1>1. IInv /\ [Next]_vars =>
        [\A d \in Used : dags[d].status # "ACTIVE" =>
            \A n \in dags[d].bp.nodes :
                dags'[d].st[n] = "COMPLETED" => dags[d].st[n] = "COMPLETED"]_vars
    BY StepKeeps DEF Used, TableKeeps, Keeps
<1> QED
    BY <1>1, EngineInvariant, PTL DEF Spec, NoOutputAfterClose
=============================================================================
