------------------------------ MODULE SchedTask ------------------------------
(***************************************************************************)
(* The task side of sched_d (src/sched_d/src/service): the task table, the *)
(* ring queue, the worker thread, the agent registry with its selection    *)
(* strategies, and the events written to the hall.  Every action is one    *)
(* critical section of service->lock or one step outside it.               *)
(***************************************************************************)
EXTENDS Integers, Sequences, FiniteSets

CONSTANTS
    Cap,            \* AIRY_CAP_MAX_TASKS: ring slots and table entries
    Request,        \* what clients submit: [id, prio, timed], where timed
                    \* means timeout_ms > 0
    AgentInfo,      \* what agents register: [id, avail, weight, rate, load]
    MaxAgents,      \* AIRY_CAP_MAX_AGENTS
    Strategies,     \* the strategies the service may be configured with
    MaxSelections,  \* bound on total_tasks_scheduled through the RPC
    None

ASSUME CapAssumption ==
    /\ Cap \in Nat \ {0} /\ MaxAgents \in Nat
    /\ None \notin Request
    /\ \A r \in Request : r.prio \in Nat
    /\ \A a \in AgentInfo : a.weight \in Nat /\ a.rate \in Nat /\ a.load \in 0..10

TaskId == {r.id : r \in Request}
Priority == {r.prio : r \in Request}
Slot == 0..(Cap - 1)
AgentId == {a.id : a \in AgentInfo}

Status == {"NONE", "PENDING", "RUNNING", "COMPLETED", "FAILED", "CANCELED"}
Final == {"COMPLETED", "FAILED", "CANCELED"}

(* How an executor call ends: output in time, output after the task's      *)
(* timeout_ms, success without output, an error.                           *)
Outcome == {"output", "late", "empty", "error"}

VARIABLES
    status,     \* rec->status, NONE before the submission
    req,        \* the request rec was built from, None before it
    ring,       \* service->queue
    head, tail, \* service->queue_head, service->queue_tail
    agents,     \* service->agents[0 .. agent_count - 1]
    strategy,   \* service->config.strategy
    selections, \* service->total_tasks_scheduled
    executor,   \* service->executor # NULL
    run,        \* service->worker_run
    pc,         \* where the worker thread is
    asleep,     \* the worker waits on queue_cond
    cur,        \* the record the worker handles
    chosen,     \* the agent selected for it
    events,     \* the hall's events of each task
    owed        \* the event the RPC thread writes after releasing the lock

table == <<status, req>>
queueVars == <<ring, head, tail>>
registry == <<agents, strategy, selections>>
worker == <<run, pc, asleep, cur, chosen>>
hall == <<events, owed>>
vars == <<table, queueVars, registry, executor, worker, hall>>

-----------------------------------------------------------------------------
(* The ring.                                                               *)

QLen == (tail + Cap - head) % Cap

(* The i-th slot of the queue, counted from the head.                      *)
At(i) == (head + i) % Cap

Queued == [i \in 1..QLen |-> ring[At(i - 1)]]

(* Mutant: the loop ends one entry early.                                  *)
CompactShort(i) ==
    /\ ring' = [s \in Slot |->
                  IF s = At(QLen - 1) THEN None
                  ELSE IF \E j \in i..(QLen - 3) : s = At(j) THEN ring[(s + 1) % Cap]
                  ELSE ring[s]]
    /\ tail' = (tail + Cap - 1) % Cap
    /\ UNCHANGED head

(* The compaction of take_highest and cancel_task: from position i on,     *)
(* every entry moves down one slot, and the tail steps back.  The vacated  *)
(* slot is written before it is read again; it counts as empty.            *)
Compact(i) ==
    /\ ring' = [s \in Slot |->
                  IF s = At(QLen - 1) THEN None
                  ELSE IF \E j \in i..(QLen - 2) : s = At(j) THEN ring[(s + 1) % Cap]
                  ELSE ring[s]]
    /\ tail' = (tail + Cap - 1) % Cap
    /\ UNCHANGED head

Prio(t) == req[t].prio

(* Mutant: >= in the scan, so the youngest of the highest priority wins.   *)
HighestLast(i) ==
    /\ i \in 0..(QLen - 1)
    /\ \A j \in 0..(QLen - 1) :
         \/ Prio(ring[At(j)]) < Prio(ring[At(i)])
         \/ Prio(ring[At(j)]) = Prio(ring[At(i)]) /\ i >= j

(* The scan of sched_queue_take_highest: the first entry that no entry     *)
(* beats.                                                                  *)
Highest(i) ==
    /\ i \in 0..(QLen - 1)
    /\ \A j \in 0..(QLen - 1) :
         \/ Prio(ring[At(j)]) < Prio(ring[At(i)])
         \/ Prio(ring[At(j)]) = Prio(ring[At(i)]) /\ i <= j

-----------------------------------------------------------------------------
(* The agent registry.  Scores are scaled to integers (load_factor in      *)
(* tenths), so that none is below the -1 the scan starts from.             *)

Position(a) == {i \in 1..Len(agents) : agents[i].id = a}

PriorityWeight(p) == IF p >= 3 THEN 8 ELSE IF p = 2 THEN 4 ELSE IF p = 1 THEN 3 ELSE 2

Weighted(a) == a.weight * a.rate * (10 - a.load)

Score(i, p) ==
    CASE strategy = "WEIGHTED" -> Weighted(agents[i])
      [] strategy = "ROUND_ROBIN" ->
            IF selections % Len(agents) = i - 1 THEN 100 ELSE 0
      [] strategy = "ML_BASED" -> agents[i].rate * (10 - agents[i].load)
      [] strategy = "PRIORITY_BASED" -> Weighted(agents[i]) * PriorityWeight(p)
      [] OTHER -> agents[i].weight

Available == {i \in 1..Len(agents) : agents[i].avail}

(* sched_service_schedule_task: the first of the best available agents.    *)
Best(p) ==
    IF Available = {} THEN None
    ELSE agents[CHOOSE i \in Available :
                  \A j \in Available :
                     \/ Score(j, p) < Score(i, p)
                     \/ Score(j, p) = Score(i, p) /\ i <= j].id

Count ==
    /\ selections' = selections + 1
    /\ UNCHANGED <<agents, strategy>>

-----------------------------------------------------------------------------
Init ==
    /\ status = [t \in TaskId |-> "NONE"]
    /\ req = [t \in TaskId |-> None]
    /\ ring = [s \in Slot |-> None]
    /\ head = 0 /\ tail = 0
    /\ agents = <<>>
    /\ strategy \in Strategies
    /\ selections = 0
    /\ executor = FALSE
    /\ run = FALSE
    /\ pc = "none"
    /\ asleep = FALSE
    /\ cur = None
    /\ chosen = None
    /\ events = [t \in TaskId |-> <<>>]
    /\ owed = {}

-----------------------------------------------------------------------------
(* The RPC thread: sched_d runs its event driver without concurrent        *)
(* clients, so one call is finished before the next.  A refused call       *)
(* changes nothing.                                                        *)
Idle == owed = {}

TaskCount == Cardinality({t \in TaskId : status[t] # "NONE"})

(* Mutant: no airy_cond_signal after the append.                           *)
SubmitTaskSilent(r) ==
    /\ Idle
    /\ status[r.id] = "NONE"
    /\ QLen < Cap - 1
    /\ TaskCount < Cap
    /\ status' = [status EXCEPT ![r.id] = "PENDING"]
    /\ req' = [req EXCEPT ![r.id] = r]
    /\ ring' = [ring EXCEPT ![tail] = r.id]
    /\ tail' = (tail + 1) % Cap
    /\ owed' = owed \cup {<<r.id, "task_queued">>}
    /\ UNCHANGED <<head, registry, executor, worker, events>>

SubmitTask(r) ==
    /\ Idle
    /\ status[r.id] = "NONE"
    /\ QLen < Cap - 1
    /\ TaskCount < Cap
    /\ status' = [status EXCEPT ![r.id] = "PENDING"]
    /\ req' = [req EXCEPT ![r.id] = r]
    /\ ring' = [ring EXCEPT ![tail] = r.id]
    /\ tail' = (tail + 1) % Cap
    /\ asleep' = FALSE
    /\ owed' = owed \cup {<<r.id, "task_queued">>}
    /\ UNCHANGED <<head, registry, executor, run, pc, cur, chosen, events>>

CancelTask(t) ==
    /\ Idle
    /\ status[t] = "PENDING"
    /\ status' = [status EXCEPT ![t] = "CANCELED"]
    /\ IF \E i \in 0..(QLen - 1) : ring[At(i)] = t
       THEN Compact(CHOOSE i \in 0..(QLen - 1) : ring[At(i)] = t)
       ELSE UNCHANGED queueVars
    /\ owed' = owed \cup {<<t, "task_canceled">>}
    /\ UNCHANGED <<req, registry, executor, worker, events>>

(* The event is written after the lock was released.                       *)
WriteEvent(o) ==
    /\ o \in owed
    /\ owed' = owed \ {o}
    /\ events' = [events EXCEPT ![o[1]] = Append(@, o[2])]
    /\ UNCHANGED <<table, queueVars, registry, executor, worker>>

(* At the capacity even a refresh is refused.                              *)
RegisterAgent(a) ==
    /\ Idle
    /\ Len(agents) < MaxAgents
    /\ agents' = IF Position(a.id) = {} THEN Append(agents, a)
                 ELSE [i \in 1..Len(agents) |->
                          IF agents[i].id = a.id THEN a ELSE agents[i]]
    /\ UNCHANGED <<strategy, selections, table, queueVars, executor, worker, hall>>

UnregisterAgent(a) ==
    /\ Idle
    /\ \E k \in Position(a) :
         agents' = [i \in 1..(Len(agents) - 1) |-> agents[IF i < k THEN i ELSE i + 1]]
    /\ UNCHANGED <<strategy, selections, table, queueVars, executor, worker, hall>>

(* sched_service_schedule_task called by an RPC thread.                    *)
RpcSelect ==
    /\ Idle
    /\ selections < MaxSelections
    /\ Count
    /\ UNCHANGED <<table, queueVars, executor, worker, hall>>

SetExecutor ==
    /\ Idle
    /\ ~executor
    /\ executor' = TRUE
    /\ UNCHANGED <<table, queueVars, registry, worker, hall>>

StartWorkers ==
    /\ Idle
    /\ pc = "none"
    /\ run' = TRUE
    /\ pc' = "loop"
    /\ asleep' = FALSE
    /\ UNCHANGED <<table, queueVars, registry, executor, cur, chosen, hall>>

StopWorkers ==
    /\ Idle
    /\ pc # "none"
    /\ run
    /\ run' = FALSE
    /\ asleep' = FALSE
    /\ UNCHANGED <<table, queueVars, registry, executor, pc, cur, chosen, hall>>

-----------------------------------------------------------------------------
(* The worker thread.                                                      *)

Sleep ==
    /\ pc = "loop" /\ ~asleep
    /\ run /\ head = tail
    /\ asleep' = TRUE
    /\ UNCHANGED <<table, queueVars, registry, executor, run, pc, cur, chosen, hall>>

ExitThread ==
    /\ pc = "loop" /\ ~asleep
    /\ ~run
    /\ pc' = "none"
    /\ UNCHANGED <<table, queueVars, registry, executor, run, asleep, cur, chosen, hall>>

Take ==
    /\ pc = "loop" /\ ~asleep
    /\ run
    /\ \E i \in 0..(QLen - 1) :
        /\ Highest(i)
        /\ cur' = ring[At(i)]
        /\ Compact(i)
    /\ status' = [status EXCEPT ![cur'] = "RUNNING"]
    /\ pc' = "select"
    /\ UNCHANGED <<req, registry, executor, run, asleep, chosen, hall>>

Select ==
    /\ pc = "select"
    /\ Count
    /\ chosen' = Best(Prio(cur))
    /\ pc' = IF Best(Prio(cur)) = None THEN "fail" ELSE "dispatch"
    /\ UNCHANGED <<table, queueVars, executor, run, asleep, cur, hall>>

Dispatch ==
    /\ pc = "dispatch"
    /\ IF executor
       THEN /\ events' = [events EXCEPT ![cur] = Append(@, "task_started")]
            /\ pc' = "exec"
       ELSE /\ pc' = "fail"
            /\ UNCHANGED events
    /\ UNCHANGED <<table, queueVars, registry, executor, run, asleep, cur, chosen, owed>>

WriteBack(s) ==
    /\ status' = [status EXCEPT ![cur] = s]
    /\ pc' = "event"
    /\ UNCHANGED <<req, queueVars, registry, executor, run, asleep, cur, chosen, hall>>

(* Mutant: an error is retried.                                            *)
FinishRetry(r) ==
    /\ pc = "exec"
    /\ IF r = "error"
       THEN /\ pc' = "dispatch"
            /\ UNCHANGED <<table, queueVars, registry, executor, run, asleep, cur, chosen, hall>>
       ELSE WriteBack(IF r = "output" \/ (r = "late" /\ ~req[cur].timed)
                      THEN "COMPLETED" ELSE "FAILED")

Finish(r) ==
    /\ pc = "exec"
    /\ WriteBack(IF r = "output" \/ (r = "late" /\ ~req[cur].timed)
                 THEN "COMPLETED" ELSE "FAILED")

Fail ==
    /\ pc = "fail"
    /\ WriteBack("FAILED")

WriteResult ==
    /\ pc = "event"
    /\ events' = [events EXCEPT ![cur] = Append(@, "task_done")]
    /\ cur' = None
    /\ chosen' = None
    /\ pc' = "loop"
    /\ UNCHANGED <<table, queueVars, registry, executor, run, asleep, owed>>

(* airy_cond_wait may return without a signal.                             *)
SpuriousWakeup ==
    /\ asleep
    /\ asleep' = FALSE
    /\ UNCHANGED <<table, queueVars, registry, executor, run, pc, cur, chosen, hall>>

Worker ==
    \/ Sleep \/ ExitThread \/ Take \/ Select \/ Dispatch
    \/ \E r \in Outcome : Finish(r)
    \/ Fail \/ WriteResult

Next ==
    \/ \E r \in Request : SubmitTask(r)
    \/ \E t \in TaskId : CancelTask(t)
    \/ \E o \in owed : WriteEvent(o)
    \/ \E a \in AgentInfo : RegisterAgent(a)
    \/ \E a \in AgentId : UnregisterAgent(a)
    \/ RpcSelect
    \/ SetExecutor
    \/ StartWorkers
    \/ StopWorkers
    \/ Worker
    \/ SpuriousWakeup

Spec == Init /\ [][Next]_vars

(* The worker thread is scheduled and every executor call returns.         *)
FairSpec == Spec /\ WF_vars(Worker)

-----------------------------------------------------------------------------

(* The ring holds every PENDING task exactly once and nothing else: no     *)
(* task is lost, doubled or left in the queue by a take or a cancel.       *)
QueueIsPending ==
    /\ {Queued[i] : i \in 1..QLen} = {t \in TaskId : status[t] = "PENDING"}
    /\ \A i, j \in 1..QLen : Queued[i] = Queued[j] => i = j

(* The queue, the priorities and the tasks taken, as TaskQueue sees them.  *)
Prios == [t \in TaskId |-> IF req[t] = None THEN 0 ELSE Prio(t)]
Taken == {t \in TaskId : status[t] \in {"RUNNING", "COMPLETED", "FAILED"}}

Abstract == INSTANCE TaskQueue WITH queue <- Queued, prio <- Prios, taken <- Taken

(* The ring implements the priority queue its comment promises.            *)
IsPriorityQueue == Abstract!Spec

(* The hall's record of a task is a possible history, however late the RPC *)
(* thread writes: each event comes at most once, so a task is executed at  *)
(* most once, it starts before it is done, and a canceled task was neither *)
(* started nor done.                                                       *)
HallTellsOneStory ==
    \A t \in TaskId :
        LET At1(e) == {i \in 1..Len(events[t]) : events[t][i] = e} IN
        /\ \A e \in {"task_queued", "task_started", "task_done", "task_canceled"} :
             \A i, j \in At1(e) : i = j
        /\ \A i \in At1("task_started"), j \in At1("task_done") : i < j
        /\ status[t] = "CANCELED" \/ At1("task_canceled") # {} => At1("task_started") \cup At1("task_done") = {}

(* A waiting task is taken, canceled, or the workers are stopped: no       *)
(* signal is lost, and the bounded table rules out starvation.             *)
TaskLeavesQueue ==
    \A t \in TaskId : (status[t] = "PENDING" /\ run) ~> (status[t] # "PENDING" \/ ~run)

=============================================================================
