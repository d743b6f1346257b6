------------------------------ MODULE SchedDag ------------------------------
(***************************************************************************)
(* The DAG execution engine of sched_d (src/sched_d/src/dag): the graph    *)
(* table guarded by service->lock, the dag worker thread with its serial   *)
(* and its parallel dispatch path, the pool threads that run one node      *)
(* each, and the RPC threads that submit and cancel graphs.                *)
(*                                                                         *)
(* Every action is one critical section of service->lock, or one step      *)
(* outside it.  Time is kept as countdowns: a retry_at_ms of now + k is a  *)
(* timer of k, and Tick lets one unit of wall time pass.                   *)
(***************************************************************************)
EXTENDS DagBlueprint

CONSTANTS
    MaxDags,        \* SCHED_DAG_MAX_DAGS
    Node,           \* the node indexes of a graph, at most SCHED_DAG_MAX_NODES
    Blueprint,      \* the graphs clients submit
    BatchSize,      \* service->dag_batch_size; 0 selects the serial path
    FatalCascade,   \* service->dag_fatal_cascade
    RetryDelay,     \* retry_delay_ms in clock units
    Unlimited,      \* retry_budget_ms = 0
    NoGraph         \* the blueprint of an unused slot

Dag == 1..MaxDags

(* A client may describe any graph, cyclic ones and dangling dependencies  *)
(* included; only its shape is fixed by the JSON.                          *)
BlueprintShape(b) ==
    /\ DOMAIN b = {"nodes", "deps", "maxRetries", "budget"}
    /\ b = [nodes |-> b.nodes, deps |-> b.deps,
            maxRetries |-> b.maxRetries, budget |-> b.budget]
    /\ b.nodes \subseteq Node
    /\ b.deps \in [Node -> SUBSET Node]
    /\ b.maxRetries \in [Node -> Nat]
    /\ b.budget \in Nat \cup {Unlimited}

ASSUME SizeAssumption ==
    /\ MaxDags \in Nat
    /\ Node \subseteq Nat
    /\ IsFiniteSet(Node)
    /\ BatchSize \in Nat
    /\ RetryDelay \in Nat \ {0}
    /\ FatalCascade \in BOOLEAN

ASSUME BlueprintAssumption ==
    /\ \A b \in Blueprint : BlueprintShape(b)
    /\ NoGraph \notin Blueprint
    /\ Unlimited \notin Nat

NodeStatus ==
    {"PENDING", "READY", "RUNNING", "COMPLETED", "SEMANTIC_FAILED", "FAILED",
     "CANCELED"}
DagStatus ==
    {"ACTIVE", "COMPLETED", "SEMANTIC_FAILED", "FAILED", "CANCELED"}

(* sched_dag_node_done and sched_dag_dep_broken.                           *)
NodeDone == {"COMPLETED", "SEMANTIC_FAILED", "FAILED", "CANCELED"}
DepBroken == {"SEMANTIC_FAILED", "FAILED", "CANCELED"}

(* What one executor call comes back with, as far as the write-back tells  *)
(* apart: success with an accepted artifact, success without an artifact,  *)
(* success with an artifact its validator rejects, and the three classes   *)
(* of error code.  A missing executor is AIRY_ERR_SVC_NOT_READY, one of    *)
(* the transient codes.                                                    *)
Outcome == {"artifact", "empty", "rejected", "fatal", "transient", "ordinary"}
Success == {"artifact", "empty", "rejected"}

-----------------------------------------------------------------------------
(* One graph: its blueprint, its status, and per node the status, the      *)
(* number of retries spent and the time until retry_at_ms.  The budget is  *)
(* the time until created_at_ms + retry_budget_ms.                         *)

EmptySlot ==
    [bp |-> NoGraph, status |-> "NONE",
     st |-> [n \in Node |-> "PENDING"],
     retries |-> [n \in Node |-> 0],
     timer |-> [n \in Node |-> 0],
     budget |-> Unlimited]

NewGraph(b) ==
    [bp |-> b, status |-> "ACTIVE",
     st |-> [n \in Node |-> "PENDING"],
     retries |-> [n \in Node |-> 0],
     timer |-> [n \in Node |-> 0],
     budget |-> b.budget]

(* Mutant of NodeReady: a dependency counts as completed unless it broke.  *)
NodeReadyUnbroken(g, n) ==
    /\ g.st[n] = "PENDING"
    /\ g.timer[n] = 0
    /\ \A m \in g.bp.deps[n] : g.st[m] \notin DepBroken

(* sched_dag_node_ready(dag, idx) = 1.                                     *)
NodeReady(g, n) ==
    /\ g.st[n] = "PENDING"
    /\ g.timer[n] = 0
    /\ \A m \in g.bp.deps[n] : g.st[m] = "COMPLETED"

(* dag_cascade_cancel.                                                     *)
CascadeCancel(g) ==
    [g EXCEPT
        !.st = [n \in Node |->
            IF n \in g.bp.nodes /\ g.st[n] \in {"PENDING", "READY"}
            THEN "CANCELED" ELSE g.st[n]],
        !.timer = [n \in Node |->
            IF n \in g.bp.nodes /\ g.st[n] \in {"PENDING", "READY"}
            THEN 0 ELSE g.timer[n]]]

(* The loop of sched_service_cancel_dag; it leaves retry_at_ms alone.      *)
CancelPending(g) ==
    [g EXCEPT
        !.status = "CANCELED",
        !.st = [n \in Node |->
            IF n \in g.bp.nodes /\ g.st[n] \in {"PENDING", "READY"}
            THEN "CANCELED" ELSE g.st[n]]]

NodeFinal(g, n, s) == [g EXCEPT !.st[n] = s, !.timer[n] = 0]

NodeSucceed(g, n, r) ==
    NodeFinal(g, n, CASE r = "empty" -> "SEMANTIC_FAILED"
                      [] r = "rejected" -> "FAILED"
                      [] r = "artifact" -> "COMPLETED")

DagAbort(g, n) ==
    CascadeCancel([g EXCEPT !.st[n] = "FAILED", !.status = "FAILED"])

MayRetry(g, n, r) ==
    /\ r = "transient"
    /\ g.retries[n] < g.bp.maxRetries[n]
    /\ g.budget # 0

NodeBackoff(g, n) ==
    [g EXCEPT !.st[n] = "PENDING",
              !.retries[n] = @ + 1,
              !.timer[n] = RetryDelay * 2 ^ g.retries[n]]

(* Mutant of WriteBack: a result is graded without looking whether the     *)
(* graph was canceled or aborted meanwhile.                                *)
WriteBackLate(g, n, r) ==
    IF r \in Success THEN NodeSucceed(g, n, r)
    ELSE IF r = "fatal" \/ ~FatalCascade THEN DagAbort(g, n)
    ELSE IF MayRetry(g, n, r) THEN NodeBackoff(g, n)
    ELSE [g EXCEPT !.st[n] = "FAILED"]

(* sched_dag_write_back_node: grade one executor result.                   *)
WriteBack(g, n, r) ==
    IF g.st[n] = "CANCELED" \/ g.status \in {"CANCELED", "FAILED"}
    THEN NodeFinal(g, n, "CANCELED")
    ELSE IF r \in Success THEN NodeSucceed(g, n, r)
    ELSE IF r = "fatal" \/ ~FatalCascade THEN DagAbort(g, n)
    ELSE IF MayRetry(g, n, r) THEN NodeBackoff(g, n)
    ELSE [g EXCEPT !.st[n] = "FAILED"]

(* sched_dag_propagate_unreachable on one graph: the pending nodes that    *)
(* the loop has canceled when a pass changes nothing, the least set that   *)
(* contains every pending node with a broken dependency.                   *)
PendingNodes(g) == {n \in g.bp.nodes : g.st[n] = "PENDING"}

UnreachableClosed(g, S) ==
    \A n \in PendingNodes(g) :
        (\E m \in g.bp.deps[n] : g.st[m] \in DepBroken \/ m \in S) => n \in S

Unreachable(g) ==
    {n \in PendingNodes(g) :
        \A S \in SUBSET PendingNodes(g) : UnreachableClosed(g, S) => n \in S}

(* Mutant of PropagateUnreachable: one pass, direct dependents only.       *)
PropagateOnePass(g) ==
    IF g.status # "ACTIVE" THEN g
    ELSE [g EXCEPT !.st = [n \in Node |->
            IF n \in PendingNodes(g) /\ \E m \in g.bp.deps[n] : g.st[m] \in DepBroken
            THEN "CANCELED" ELSE g.st[n]]]

PropagateUnreachable(g) ==
    IF g.status # "ACTIVE" THEN g
    ELSE [g EXCEPT
            !.st = [n \in Node |->
                        IF n \in Unreachable(g) THEN "CANCELED" ELSE g.st[n]],
            !.timer = [n \in Node |->
                        IF n \in Unreachable(g) THEN 0 ELSE g.timer[n]]]

(* sched_dag_finalize_terminal on one graph.                               *)
AllTerminal(g) == \A n \in g.bp.nodes : g.st[n] \in NodeDone

(* Mutant of FinalStatus: only a failed node spoils the verdict.           *)
FinalStatusLenient(g) ==
    IF \E n \in g.bp.nodes : g.st[n] = "FAILED" THEN "FAILED" ELSE "COMPLETED"

FinalStatus(g) ==
    IF \E n \in g.bp.nodes : g.st[n] = "FAILED" THEN "FAILED"
    ELSE IF \E n \in g.bp.nodes : g.st[n] = "SEMANTIC_FAILED"
    THEN "SEMANTIC_FAILED"
    ELSE "COMPLETED"

FinalizeTerminal(g) ==
    IF g.status = "ACTIVE" /\ AllTerminal(g)
    THEN [g EXCEPT !.status = FinalStatus(g)] ELSE g

Converge(ds) == [d \in Dag |-> FinalizeTerminal(PropagateUnreachable(ds[d]))]

-----------------------------------------------------------------------------
VARIABLES
    dags,       \* service->dags
    dagCount,   \* service->dag_count
    dagRun,     \* service->dag_run
    pc,         \* where the dag worker thread is
    wake,       \* dag_cond was broadcast since the thread went to wait
    waitFor,    \* time left of airy_cond_timedwait
    cur,        \* the nodes the dag thread itself runs: none or one
    todo,       \* batch items not yet handed to the pool
    pool,       \* batch items the pool runs
    pending     \* service->batch_pending

vars == <<dags, dagCount, dagRun, pc, wake, waitFor, cur, todo, pool, pending>>

Item == Dag \X Node

(* The thread keeps service->lock between its fruitless scan and the wait; *)
(* everywhere else a control state means the lock is free.                 *)
LockFree == pc # "gap"

(* The scan order of sched_dag_find_ready: graph table, then node array.   *)
Before(p, q) == p[1] < q[1] \/ (p[1] = q[1] /\ p[2] < q[2])
FirstOf(p, S) == p \in S /\ \A q \in S : q = p \/ Before(p, q)

ReadySet ==
    {p \in Item : /\ dags[p[1]].status = "ACTIVE"
                  /\ p[2] \in dags[p[1]].bp.nodes
                  /\ NodeReady(dags[p[1]], p[2])}

(* sched_dag_collect_ready_batch takes the first BatchSize ready nodes.    *)
ReadyBatch(B) ==
    /\ B # {}
    /\ Cardinality(B) <= BatchSize
    /\ \A p \in B, q \in ReadySet : Before(q, p) => q \in B
    /\ B = ReadySet \/ Cardinality(B) = BatchSize

InBackoff ==
    {p \in Item : /\ dags[p[1]].status = "ACTIVE"
                  /\ p[2] \in dags[p[1]].bp.nodes
                  /\ dags[p[1]].st[p[2]] = "PENDING"
                  /\ dags[p[1]].timer[p[2]] > 0}

StartNodes(B) ==
    [d \in Dag |-> [dags[d] EXCEPT
        !.st = [n \in Node |->
                    IF <<d, n>> \in B THEN "RUNNING" ELSE dags[d].st[n]]]]

(* airy_cond_broadcast(&dag_cond).                                         *)
Broadcast == wake' = (wake \/ pc \in {"wait", "timed"})

-----------------------------------------------------------------------------
Init ==
    /\ dags = [d \in Dag |-> EmptySlot]
    /\ dagCount = 0
    /\ dagRun = FALSE
    /\ pc = "none"
    /\ wake = FALSE
    /\ waitFor = 0
    /\ cur = {}
    /\ todo = {}
    /\ pool = {}
    /\ pending = 0

-----------------------------------------------------------------------------
(* RPC threads.  A rejected submission changes nothing.                    *)

(* Mutant of SubmitDag: the dag thread is not notified.                    *)
SubmitDagSilent(b) ==
    /\ LockFree
    /\ ValidBlueprint(b)
    /\ dagCount < MaxDags
    /\ dagCount' = dagCount + 1
    /\ dags' = [dags EXCEPT ![dagCount + 1] = NewGraph(b)]
    /\ UNCHANGED <<dagRun, pc, wake, waitFor, cur, todo, pool, pending>>

SubmitDag(b) ==
    /\ LockFree
    /\ ValidBlueprint(b)
    /\ dagCount < MaxDags
    /\ dagCount' = dagCount + 1
    /\ dags' = [dags EXCEPT ![dagCount + 1] = NewGraph(b)]
    /\ Broadcast
    /\ UNCHANGED <<dagRun, pc, waitFor, cur, todo, pool, pending>>

CancelDag(d) ==
    /\ LockFree
    /\ dags[d].status = "ACTIVE"
    /\ dags' = [dags EXCEPT ![d] = CancelPending(@)]
    /\ Broadcast
    /\ UNCHANGED <<dagCount, dagRun, pc, waitFor, cur, todo, pool, pending>>

StartWorkers ==
    /\ pc = "none"
    /\ dagRun' = TRUE
    /\ pc' = "scan"
    /\ UNCHANGED <<dags, dagCount, wake, waitFor, cur, todo, pool, pending>>

StopWorkers ==
    /\ LockFree
    /\ pc # "none"
    /\ dagRun
    /\ dagRun' = FALSE
    /\ Broadcast
    /\ UNCHANGED <<dags, dagCount, pc, waitFor, cur, todo, pool, pending>>

-----------------------------------------------------------------------------
(* The dag worker thread.                                                  *)

(* sched_dag_wait_ready leaves its loop because of a stop.                 *)
ExitThread ==
    /\ pc = "scan"
    /\ ~dagRun
    /\ pc' = "none"
    /\ UNCHANGED <<dags, dagCount, dagRun, wake, waitFor, cur, todo, pool, pending>>

(* sched_dag_find_ready found nothing; the lock stays held, the clock      *)
(* does not stop.                                                          *)
ScanMiss ==
    /\ pc = "scan"
    /\ dagRun
    /\ ReadySet = {}
    /\ pc' = "gap"
    /\ UNCHANGED <<dags, dagCount, dagRun, wake, waitFor, cur, todo, pool, pending>>

(* sched_dag_min_retry_at reads the clock again, then the thread waits:    *)
(* without a limit when no retry lies in the future, else for the          *)
(* shortest one.                                                           *)
ArmWait ==
    /\ pc = "gap"
    /\ wake' = FALSE
    /\ \/ /\ InBackoff = {}
          /\ pc' = "wait"
          /\ UNCHANGED waitFor
       \/ \E p \in InBackoff :
            /\ \A q \in InBackoff :
                 dags[p[1]].timer[p[2]] <= dags[q[1]].timer[q[2]]
            /\ pc' = "timed"
            /\ waitFor' = dags[p[1]].timer[p[2]]
    /\ UNCHANGED <<dags, dagCount, dagRun, cur, todo, pool, pending>>

Wakeup ==
    /\ \/ pc = "wait" /\ wake
       \/ pc = "timed" /\ (wake \/ waitFor = 0)
    /\ pc' = "scan"
    /\ wake' = FALSE
    /\ waitFor' = 0
    /\ UNCHANGED <<dags, dagCount, dagRun, cur, todo, pool, pending>>

(* A condition variable may return without a broadcast; no fairness.       *)
SpuriousWakeup ==
    /\ pc \in {"wait", "timed"}
    /\ pc' = "scan"
    /\ wake' = FALSE
    /\ waitFor' = 0
    /\ UNCHANGED <<dags, dagCount, dagRun, cur, todo, pool, pending>>

(* sched_dag_run_one, up to the executor call and after it.                *)
RunOne ==
    /\ pc = "scan"
    /\ dagRun
    /\ BatchSize = 0
    /\ \E p \in ReadySet :
        /\ FirstOf(p, ReadySet)
        /\ dags' = StartNodes({p})
        /\ cur' = {p}
    /\ pc' = "serial"
    /\ UNCHANGED <<dagCount, dagRun, wake, waitFor, todo, pool, pending>>

RunOneDone(r) ==
    /\ pc = "serial"
    /\ \E p \in cur :
        dags' = Converge([dags EXCEPT ![p[1]] = WriteBack(@, p[2], r)])
    /\ cur' = {}
    /\ pc' = "scan"
    /\ UNCHANGED <<dagCount, dagRun, wake, waitFor, todo, pool, pending>>

(* sched_dag_run_batch: collect, dispatch item by item, wait for the       *)
(* batch, converge.                                                        *)
CollectBatch ==
    /\ pc = "scan"
    /\ dagRun
    /\ BatchSize > 0
    /\ \E B \in SUBSET ReadySet :
        /\ ReadyBatch(B)
        /\ dags' = StartNodes(B)
        /\ todo' = B
        /\ pending' = Cardinality(B)
    /\ pc' = "dispatch"
    /\ UNCHANGED <<dagCount, dagRun, wake, waitFor, cur, pool>>

BatchDone == pending' = IF pending > 0 THEN pending - 1 ELSE pending

DispatchToPool ==
    /\ pc = "dispatch"
    /\ \E p \in todo :
        /\ FirstOf(p, todo)
        /\ todo' = todo \ {p}
        /\ pool' = pool \cup {p}
    /\ UNCHANGED <<dags, dagCount, dagRun, pc, wake, waitFor, cur, pending>>

(* thread_pool_submit failed: the dag thread runs the item itself.         *)
DispatchInline ==
    /\ pc = "dispatch"
    /\ \E p \in todo :
        /\ FirstOf(p, todo)
        /\ todo' = todo \ {p}
        /\ cur' = {p}
    /\ pc' = "inline"
    /\ UNCHANGED <<dags, dagCount, dagRun, wake, waitFor, pool, pending>>

(* Mutant of DispatchFail: the failed item is not counted down.            *)
DispatchFailUncounted ==
    /\ pc = "dispatch"
    /\ \E p \in todo :
        /\ FirstOf(p, todo)
        /\ todo' = todo \ {p}
        /\ dags' = [dags EXCEPT ![p[1]].st[p[2]] = "FAILED"]
    /\ UNCHANGED <<dagCount, dagRun, pc, wake, waitFor, cur, pool, pending>>

(* The batch item could not be allocated: sched_dag_fail_node.             *)
DispatchFail ==
    /\ pc = "dispatch"
    /\ \E p \in todo :
        /\ FirstOf(p, todo)
        /\ todo' = todo \ {p}
        /\ dags' = [dags EXCEPT ![p[1]].st[p[2]] = "FAILED"]
    /\ BatchDone
    /\ UNCHANGED <<dagCount, dagRun, pc, wake, waitFor, cur, pool>>

InlineDone(r) ==
    /\ pc = "inline"
    /\ \E p \in cur : dags' = [dags EXCEPT ![p[1]] = WriteBack(@, p[2], r)]
    /\ cur' = {}
    /\ pc' = "dispatch"
    /\ BatchDone
    /\ UNCHANGED <<dagCount, dagRun, wake, waitFor, todo, pool>>

(* sched_dag_batch_worker on a pool thread.                                *)
PoolDone(r) ==
    /\ LockFree
    /\ \E p \in pool :
        /\ dags' = [dags EXCEPT ![p[1]] = WriteBack(@, p[2], r)]
        /\ pool' = pool \ {p}
    /\ BatchDone
    /\ UNCHANGED <<dagCount, dagRun, pc, wake, waitFor, cur, todo>>

BatchBarrier ==
    /\ pc = "dispatch"
    /\ todo = {}
    /\ pending = 0
    /\ dags' = Converge(dags)
    /\ pc' = "scan"
    /\ UNCHANGED <<dagCount, dagRun, wake, waitFor, cur, todo, pool, pending>>

-----------------------------------------------------------------------------
Less(k) == IF k > 0 THEN k - 1 ELSE k

(* One unit of wall time passes, also while the thread holds the lock.     *)
Tick ==
    /\ dags' = [d \in Dag |-> [dags[d] EXCEPT
            !.timer = [n \in Node |-> Less(dags[d].timer[n])],
            !.budget = IF dags[d].budget = Unlimited THEN Unlimited
                       ELSE Less(dags[d].budget)]]
    /\ waitFor' = Less(waitFor)
    /\ UNCHANGED <<dagCount, dagRun, pc, wake, cur, todo, pool, pending>>

Executor == \E r \in Outcome : RunOneDone(r) \/ InlineDone(r) \/ PoolDone(r)

DagThread ==
    \/ ExitThread \/ ScanMiss \/ ArmWait \/ Wakeup \/ RunOne \/ CollectBatch
    \/ DispatchToPool \/ DispatchInline \/ DispatchFail \/ BatchBarrier

Next ==
    \/ \E b \in Blueprint : SubmitDag(b)
    \/ \E d \in Dag : CancelDag(d)
    \/ StartWorkers
    \/ StopWorkers
    \/ DagThread
    \/ SpuriousWakeup
    \/ Executor
    \/ Tick

Spec == Init /\ [][Next]_vars

(* The thread is scheduled, wall time passes, and every executor call      *)
(* returns: sched_dispatch.c bounds each RPC it makes by a timeout.        *)
Fairness == WF_vars(DagThread) /\ WF_vars(Executor) /\ WF_vars(Tick)

FairSpec == Spec /\ Fairness

-----------------------------------------------------------------------------
Graph ==
    [bp : Blueprint \cup {NoGraph}, status : DagStatus \cup {"NONE"},
     st : [Node -> NodeStatus], retries : [Node -> Nat],
     timer : [Node -> Int], budget : Nat \cup {Unlimited}]

(* A graph in a used slot: accepted when it was submitted, and no node     *)
(* retried more often than it declared.                                    *)
Accepted(g) ==
    /\ g.bp \in Blueprint
    /\ ValidBlueprint(g.bp)
    /\ g.status # "NONE"
    /\ \A n \in Node : g.retries[n] <= g.bp.maxRetries[n]

(* Every slot of the graph table up to dag_count holds an accepted graph,  *)
(* and the slots above it are unused.                                      *)
TypeOK ==
    /\ dags \in [Dag -> Graph]
    /\ dagCount \in 0..MaxDags
    /\ \A d \in Dag :
         IF d <= dagCount THEN Accepted(dags[d]) ELSE dags[d] = EmptySlot
    /\ dagRun \in BOOLEAN
    /\ pc \in {"none", "scan", "gap", "wait", "timed", "serial", "dispatch",
               "inline"}
    /\ wake \in BOOLEAN
    /\ waitFor \in Int
    /\ cur \subseteq Item
    /\ todo \subseteq Item
    /\ pool \subseteq Item
    /\ pending \in Nat

Used == {d \in Dag : dags[d].status # "NONE"}

(* Topological order: a node that was started has only completed           *)
(* dependencies, whatever was canceled, retried or aborted in between.     *)
StartedAfterDeps ==
    \A d \in Used : \A n \in dags[d].bp.nodes :
        dags[d].st[n] \in {"RUNNING", "COMPLETED", "SEMANTIC_FAILED", "FAILED"} =>
            \A m \in dags[d].bp.deps[n] : dags[d].st[m] = "COMPLETED"

(* sched_dag_finalize_terminal reports what really happened: a COMPLETED   *)
(* graph has only completed nodes, a FAILED graph has a failed node, and a *)
(* SEMANTIC_FAILED graph has a node without an artifact and no failed one. *)
GraphVerdict ==
    \A d \in Used :
        LET g == dags[d] IN
        /\ g.status = "COMPLETED" =>
             \A n \in g.bp.nodes : g.st[n] = "COMPLETED"
        /\ g.status = "FAILED" => \E n \in g.bp.nodes : g.st[n] = "FAILED"
        /\ g.status = "SEMANTIC_FAILED" =>
             /\ \E n \in g.bp.nodes : g.st[n] = "SEMANTIC_FAILED"
             /\ \A n \in g.bp.nodes : g.st[n] # "FAILED"

(* A closed graph has nothing left to start: a transient failure that      *)
(* lands after a cancel or an abort must not put its node back to PENDING. *)
ClosedGraphDrained ==
    \A d \in Used : dags[d].status # "ACTIVE" =>
        \A n \in dags[d].bp.nodes : dags[d].st[n] \notin {"PENDING", "READY"}

Outstanding == cur \cup todo \cup pool

(* The running nodes are exactly those some thread still has to write      *)
(* back, and batch_pending counts them: no node is left RUNNING without an *)
(* owner, and the barrier neither opens early nor stays shut.              *)
RunningIsOwned ==
    /\ {p \in Item : dags[p[1]].st[p[2]] = "RUNNING"} = Outstanding
    /\ pending = IF pc = "serial" THEN 0 ELSE Cardinality(Outstanding)

Resting == pc \in {"none", "scan", "gap", "wait", "timed"}

(* While the dag thread looks for work or waits, every active graph still  *)
(* has a node whose dependencies all completed (ready, or in backoff): no  *)
(* graph is stuck behind a failed dependency, none is left unfinalized.    *)
NoStuckGraph ==
    Resting =>
        \A d \in Used : dags[d].status = "ACTIVE" =>
            \E n \in dags[d].bp.nodes :
                /\ dags[d].st[n] = "PENDING"
                /\ \A m \in dags[d].bp.deps[n] : dags[d].st[m] = "COMPLETED"

(* A node that is done never changes again, and a graph leaves its closed  *)
(* status never: late results of a canceled or aborted graph are dropped.  *)
DoneIsFinal ==
    [][\A d \in Used :
        /\ dags[d].status # "ACTIVE" => dags'[d].status = dags[d].status
        /\ \A n \in dags[d].bp.nodes : dags[d].st[n] \in NodeDone =>
             dags'[d].st[n] = dags[d].st[n]]_vars

(* "a RUNNING node no longer posts output after finishing"                 *)
(* (scheduler_service.h): once a graph is closed no node completes in it.  *)
NoOutputAfterClose ==
    [][\A d \in Used : dags[d].status # "ACTIVE" =>
        \A n \in dags[d].bp.nodes :
            dags'[d].st[n] = "COMPLETED" => dags[d].st[n] = "COMPLETED"]_vars

(* Every submitted graph reaches a final status unless the workers are     *)
(* stopped: nothing it waits for is lost.                                  *)
GraphConverges ==
    \A d \in Dag :
        dags[d].status = "ACTIVE" ~> (dags[d].status # "ACTIVE" \/ ~dagRun)

-----------------------------------------------------------------------------
(* The inductive invariant, in named parts.                                *)

(* A used graph on its own: topological order; a canceled node of an       *)
(* active graph has a failed cause somewhere in the graph; a closed graph  *)
(* is drained and its verdict holds; only an active, aborted or canceled   *)
(* graph has running nodes.                                                *)
GraphStarted(g) ==
    \A n \in g.bp.nodes :
        g.st[n] \in {"RUNNING", "COMPLETED", "SEMANTIC_FAILED", "FAILED"} =>
            \A m \in g.bp.deps[n] : g.st[m] = "COMPLETED"

GraphCause(g) ==
    g.status = "ACTIVE" /\ (\E n \in g.bp.nodes : g.st[n] = "CANCELED") =>
        \E n \in g.bp.nodes : g.st[n] \in {"FAILED", "SEMANTIC_FAILED"}

GraphClosed(g) ==
    g.status # "ACTIVE" => \A n \in g.bp.nodes : g.st[n] # "PENDING"

GraphVerdictOf(g) ==
    /\ g.status = "COMPLETED" => \A n \in g.bp.nodes : g.st[n] = "COMPLETED"
    /\ g.status = "FAILED" => \E n \in g.bp.nodes : g.st[n] = "FAILED"
    /\ g.status = "SEMANTIC_FAILED" =>
         /\ \E n \in g.bp.nodes : g.st[n] = "SEMANTIC_FAILED"
         /\ \A n \in g.bp.nodes : g.st[n] \notin {"FAILED", "RUNNING"}

GraphInv(g) ==
    /\ \A n \in Node : g.st[n] # "READY"
    /\ \A n \in Node : n \notin g.bp.nodes => g.st[n] = "PENDING"
    /\ GraphStarted(g)
    /\ GraphCause(g)
    /\ GraphClosed(g)
    /\ GraphVerdictOf(g)

(* After a convergence: no pending node has a broken dependency, and a     *)
(* graph whose nodes are all terminal is not active any more.              *)
Settled(g) ==
    g.status = "ACTIVE" =>
        /\ \A n \in g.bp.nodes : g.st[n] = "PENDING" =>
             \A m \in g.bp.deps[n] : g.st[m] \notin DepBroken
        /\ ~AllTerminal(g)

GraphsInv ==
    \A d \in Dag : d <= dagCount =>
        GraphInv(dags[d]) /\ (Resting => Settled(dags[d]))

(* Who holds which running node.                                           *)
OwnerInv ==
    /\ \A p \in Item : dags[p[1]].st[p[2]] = "RUNNING" <=> p \in Outstanding
    /\ cur # {} <=> pc \in {"serial", "inline"}
    /\ \A p, q \in cur : p = q
    /\ todo \cup pool # {} => pc \in {"dispatch", "inline"}
    /\ cur \cap (todo \cup pool) = {}
    /\ todo \cap pool = {}

PendingInv == pending = IF pc = "serial" THEN 0 ELSE Cardinality(Outstanding)

IInv == TypeOK /\ GraphsInv /\ OwnerInv /\ PendingInv
=============================================================================
