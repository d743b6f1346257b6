------------------------------ MODULE ToolExec ------------------------------
(* How tool_d executes a tool.  An RPC thread looks the tool up, checks its   *)
(* arguments, tries the result cache, and hands a job to the executor pool.   *)
(* A pool worker asks the approval gate (the SafetyGuard chain, and a person  *)
(* when interactive approval is on), runs the tool and hands the result back. *)
(* The submitter waits with a deadline: when it passes, the submitter answers *)
(* "canceled" and leaves the job, detached, to the worker.                    *)
(*                                                                            *)
(* Data: a request is a member of TReqs with a tool, an agent and arguments   *)
(* (treq); clocks are left out, so a deadline passes whenever it may.         *)
EXTENDS DaemonBase, Functions

CONSTANTS
    TReqs,         \* the requests; each is served by one RPC thread
    TCalls,        \* what they ask: a set of [TReqs -> [tool, agent, par]]
    TTool,         \* [tools -> [exe, cacheable]]; exe is none, builtin or cmd
    TWorkers,      \* the worker threads of the pool
    TCap,          \* POOL_QUEUE_CAP
    TAcl,          \* the rules loaded at start: a set of <<agent, tool>>
    TRates,        \* the values rate_limit_per_minute may be given (0: off)
    TBroken        \* which start-up failures may happen: of gate, sandbox, cache

VARIABLES
    treq,          \* the member of TCalls this behaviour is about
    tcfg,          \* [rate, inter, broken]: how the service was assembled
    tpc,           \* RPC thread: idle, wait, store, end
    tjob,          \* job of a request: {} or a pool_job_t
    treply,        \* what the RPC thread holds as its answer
    tqueue,        \* queue[]: requests whose jobs wait for a worker
    twork,         \* worker: the step it is at, its request and its result
    tpend,         \* pending approvals, oldest first
    tacl,          \* acl_table: pairs that may execute
    trate,         \* rate_limit_call_count of the current window
    tcache,        \* key -> the request whose execution produced the entry
    tstat,         \* [total, fail, runs, wins]: counters of service and executor
    tdown,         \* p->shutdown, then the service is gone
    \* what really happened, for the properties
    tran,          \* requests whose tool was started
    tverdict,      \* request -> the decision tool.approve accepted for it
    tpassed        \* requests the static chain let through

tvars == <<treq, tcfg, tpc, tjob, treply, tqueue, twork, tpend, tacl, trate, tcache,
           tstat, tdown, tran, tverdict, tpassed>>

-----------------------------------------------------------------------------
(* Results.  "from" names the request whose execution produced the output.    *)
TResult(ok, cls, from) == [success |-> ok, cls |-> cls, from |-> from]
synth_cancel_result(r) == TResult(FALSE, "fail", r)
Answer(ret, res) == {[ret |-> ret, res |-> res]}

tool_cache_key(r) == <<treq[r].agent, treq[r].tool, treq[r].par>>
Job == [ret |-> "none", res |-> {}, done |-> FALSE, detached |-> FALSE, freed |-> 0]
Resting == [at |-> "rest", req |-> {}, ret |-> "none", res |-> {}]

tool_service_create ==
    /\ tcfg \in [rate: TRates, inter: BOOLEAN, broken: {{}} \cup {{b} : b \in TBroken}]
    /\ tacl = TAcl
    /\ tcache = <<>>
    /\ tstat = [total |-> 0, fail |-> 0, runs |-> 0, wins |-> 0]
    /\ tdown = "no"

TInit ==
    /\ treq \in TCalls
    /\ tool_service_create
    /\ tpc = [r \in TReqs |-> "idle"]
    /\ tjob = [r \in TReqs |-> {}]
    /\ treply = [r \in TReqs |-> {}]
    /\ tqueue = <<>>
    /\ twork = [w \in TWorkers |-> Resting]
    /\ tpend = <<>>
    /\ trate = 0
    /\ tran = {}
    /\ tverdict = [r \in TReqs |-> "none"]
    /\ tpassed = {}

-----------------------------------------------------------------------------
(* The RPC thread: handle_execute and tool_service_execute.                   *)

daemon_check_tool_permission(a, t) == <<a, t>> \in tacl

get_cached_result(r) ==
    IF /\ TTool[treq[r].tool].cacheable
       /\ tool_cache_key(r) \in DOMAIN tcache
    THEN {TResult(TRUE, "ok", tcache[tool_cache_key(r)])}
    ELSE {}

Reply(r, ret, res) ==
    /\ tpc' = [tpc EXCEPT ![r] = "end"]
    /\ treply' = [treply EXCEPT ![r] = Answer(ret, res)]

validate_tool_params(r) == treq[r].par # "malformed"

\* The early ends: an unknown tool, arguments its schema refuses, a cached result.
execute_answered(r) ==
    /\ tpc[r] = "idle" /\ tdown = "no"
    /\ UNCHANGED <<treq, tcfg, tjob, tqueue, twork, tpend, tacl, trate, tcache, tdown, tran, tverdict, tpassed>>
    /\ \/ /\ treq[r].tool \notin DOMAIN TTool
          /\ Reply(r, "not_found", {})
          /\ UNCHANGED tstat
       \/ /\ treq[r].tool \in DOMAIN TTool
          /\ ~validate_tool_params(r)
          /\ Reply(r, "validation", {})
          /\ UNCHANGED tstat
       \/ /\ treq[r].tool \in DOMAIN TTool
          /\ validate_tool_params(r)
          /\ daemon_check_tool_permission(treq[r].agent, treq[r].tool)
          /\ get_cached_result(r) # {}
          /\ Reply(r, "ok", get_cached_result(r))
          /\ tstat' = [tstat EXCEPT !.total = @ + 1]

CacheMisses(r) ==
    /\ treq[r].tool \in DOMAIN TTool
    /\ validate_tool_params(r)
    /\ \/ ~daemon_check_tool_permission(treq[r].agent, treq[r].tool)
       \/ get_cached_result(r) = {}

\* tool_service_execute counts the call, and a failed one, when the pool returns.
Counted(ret) ==
    tstat' = [tstat EXCEPT !.total = @ + 1, !.fail = @ + (IF ret = "ok" THEN 0 ELSE 1)]

\* executor_pool_run up to its wait: a full queue refuses, else the job is queued.
pool_enqueue(r) ==
    /\ tpc[r] = "idle" /\ tdown = "no" /\ CacheMisses(r)
    /\ UNCHANGED <<treq, tcfg, twork, tpend, tacl, trate, tcache, tdown, tran, tverdict, tpassed>>
    /\ \/ /\ Len(tqueue) >= TCap
          /\ Reply(r, "busy", {})
          /\ Counted("busy")
          /\ UNCHANGED <<tjob, tqueue>>
       \/ /\ Len(tqueue) < TCap
          /\ tqueue' = Append(tqueue, r)
          /\ tjob' = [tjob EXCEPT ![r] = {Job}]
          /\ tpc' = [tpc EXCEPT ![r] = "wait"]
          /\ UNCHANGED <<treply, tstat>>

JobOf(r) == CHOOSE j \in tjob[r] : TRUE
SetJob(r, j) == tjob' = [tjob EXCEPT ![r] = {j}]

\* job_free: a detached job takes its result along, another only its shell.
job_free(j) == [j EXCEPT !.freed = @ + 1, !.res = IF j.detached THEN {} ELSE @]

\* The wait ended with the job done: the submitter takes the result over.
pool_taken(r) ==
    /\ tpc[r] = "wait" /\ JobOf(r).done
    /\ SetJob(r, job_free(JobOf(r)))
    /\ treply' = [treply EXCEPT ![r] = Answer(JobOf(r).ret, JobOf(r).res)]
    /\ tpc' = [tpc EXCEPT ![r] = "store"]
    /\ Counted(JobOf(r).ret)
    /\ UNCHANGED <<treq, tcfg, tqueue, twork, tpend, tacl, trate, tcache, tdown, tran, tverdict, tpassed>>

\* The deadline passed first: the job is detached and the call answered canceled.
pool_detached(r) ==
    /\ tpc[r] = "wait" /\ ~JobOf(r).done
    /\ SetJob(r, [JobOf(r) EXCEPT !.detached = TRUE])
    /\ Reply(r, "canceled", {synth_cancel_result(r)})
    /\ Counted("canceled")
    /\ UNCHANGED <<treq, tcfg, tqueue, twork, tpend, tacl, trate, tcache, tdown, tran, tverdict, tpassed>>

\* A successful result of a cacheable tool is kept under agent, tool and arguments.
cache_tool_result(r) ==
    /\ tpc[r] = "store"
    /\ tpc' = [tpc EXCEPT ![r] = "end"]
    /\ LET a == CHOOSE x \in treply[r] : TRUE
       IN  IF /\ a.ret = "ok"
              /\ \E res \in a.res : res.success
              /\ TTool[treq[r].tool].cacheable
              /\ "cache" \notin tcfg.broken
           THEN tcache' = [k \in {tool_cache_key(r)} \cup DOMAIN tcache |->
                                IF k = tool_cache_key(r) THEN r ELSE tcache[k]]
           ELSE UNCHANGED tcache
    /\ UNCHANGED <<treq, tcfg, tjob, treply, tqueue, twork, tpend, tacl, trate, tstat, tdown, tran, tverdict, tpassed>>

-----------------------------------------------------------------------------
(* The worker: pool_worker, tool_executor_run and what they call.             *)

\* Fills the result of a call that was refused or could not start.
tool_fail(w, cls, err) ==
    twork' = [twork EXCEPT ![w] = [@ EXCEPT !.at = "done", !.ret = err,
        !.res = {TResult(FALSE, cls, CHOOSE r \in twork[w].req : TRUE)}]]

At(w, step) == twork[w].at = step
Goto(w, step) == twork' = [twork EXCEPT ![w].at = step]
ReqOf(w) == CHOOSE r \in twork[w].req : TRUE

\* Takes the job at the head of the queue; the executor counts the execution.
worker_take(w) ==
    /\ At(w, "rest") /\ tqueue # <<>>
    /\ tqueue' = Tail(tqueue)
    /\ twork' = [twork EXCEPT ![w] = [Resting EXCEPT !.at = "start", !.req = {Head(tqueue)}]]
    /\ tstat' = [tstat EXCEPT !.runs = @ + 1]
    /\ UNCHANGED <<treq, tcfg, tpc, tjob, treply, tpend, tacl, trate, tcache, tdown, tran, tverdict, tpassed>>

\* No executable, or no gate: refused before anything is asked.
executor_refuses(w) ==
    /\ At(w, "start")
    /\ \/ /\ TTool[treq[ReqOf(w)].tool].exe = "none"
          /\ tool_fail(w, "respond", "invalid_param")
       \/ /\ TTool[treq[ReqOf(w)].tool].exe # "none"
          /\ "gate" \in tcfg.broken
          /\ tool_fail(w, "fatal", "eperm")
    /\ UNCHANGED <<treq, tcfg, tpc, tjob, treply, tqueue, tpend, tacl, trate, tcache, tstat, tdown, tran, tverdict, tpassed>>

\* The guards of the SafetyGuard chain, in its order, each TRUE when it passes.
sgb_perm(r) == daemon_check_tool_permission(treq[r].agent, treq[r].tool)
sgb_rate(base) == tcfg.rate = 0 \/ base + 1 <= tcfg.rate
sgb_filter(r) == treq[r].par # "denied"
RateAsked(r) == tcfg.rate > 0 /\ sgb_perm(r)

\* tool_approval_check_for_agent: leave for the call when every guard passes.
tool_approval_check_for_agent(r, base, quota) ==
    sgb_perm(r) /\ sgb_rate(base) /\ sgb_filter(r) /\ quota

\* What the chain denied is asked of the user where someone may answer.
gate_ask(w, pass) ==
    \/ pass /\ Goto(w, "run")
    \/ ~pass /\ tcfg.inter /\ Goto(w, "ask")
    \/ ~pass /\ ~tcfg.inter /\ tool_fail(w, "respond", "eperm")

\* The chain stops at the first guard that denies; only a reached rate guard counts
\* the call, in a window that may have run out, and only a reached quota guard asks
\* the quota (external: it may say no).  Input sanitising and audit never deny.
safety_guard_bridge_check(w) ==
    LET r == ReqOf(w)
    IN  /\ At(w, "start")
        /\ TTool[treq[r].tool].exe # "none" /\ "gate" \notin tcfg.broken
        /\ \E expired, quota \in BOOLEAN :
              LET base == IF expired THEN 0 ELSE trate
                  pass == tool_approval_check_for_agent(r, base, quota)
              IN  /\ trate' = IF RateAsked(r) THEN MinOf(base + 1, tcfg.rate + 1) ELSE trate
                  /\ tpassed' = IF pass THEN tpassed \cup {r} ELSE tpassed
                  /\ gate_ask(w, pass)
        /\ UNCHANGED <<treq, tcfg, tpc, tjob, treply, tqueue, tpend, tacl, tcache, tstat, tdown, tran, tverdict>>

\* interactive_approval_block, first half: the question joins the pending list.
approval_pending(w) ==
    /\ At(w, "ask")
    /\ tpend' = Append(tpend, [req |-> ReqOf(w), resolved |-> FALSE, outcome |-> "deny"])
    /\ Goto(w, "blocked")
    /\ UNCHANGED <<treq, tcfg, tpc, tjob, treply, tqueue, tacl, trate, tcache, tstat, tdown, tran, tverdict, tpassed>>

\* A wait that has timed out denies without looking at the decision that came meanwhile.
woken_deaf(w) ==
    /\ At(w, "blocked")
    /\ LET r == ReqOf(w)
           i == CHOOSE k \in DOMAIN tpend : tpend[k].req = r
       IN  /\ tpend' = DropAt(tpend, i)
           /\ tool_fail(w, "respond", "eperm")
    /\ UNCHANGED <<treq, tcfg, tpc, tjob, treply, tqueue, tacl, trate, tcache, tstat, tdown, tran, tverdict, tpassed>>

\* Second half: a decision or the deadline ends the wait; the question is unlinked and
\* its outcome, denied unless someone decided otherwise, is what ask_via_interactive
\* goes by.  "always" also adds the rule.
approval_woken(w) ==
    /\ At(w, "blocked")
    /\ LET r == ReqOf(w)
           i == CHOOSE k \in DOMAIN tpend : tpend[k].req = r
           outcome == tpend[i].outcome
       IN  /\ tpend' = DropAt(tpend, i)
           /\ tacl' = IF outcome = "always" THEN tacl \cup {<<treq[r].agent, treq[r].tool>>} ELSE tacl
           /\ IF outcome = "deny" THEN tool_fail(w, "respond", "eperm") ELSE Goto(w, "run")
    /\ UNCHANGED <<treq, tcfg, tpc, tjob, treply, tqueue, trate, tcache, tstat, tdown, tran, tverdict, tpassed>>

\* tool_set_exit: what the exit status of a command makes of the result.
ExitStatus == {"zero", "noexec", "timeout", "nonzero"}
tool_set_exit(r, st) ==
    CASE st = "zero" -> TResult(TRUE, "ok", r)
      [] st = "noexec" -> TResult(FALSE, "respond", r)
      [] OTHER -> TResult(FALSE, "fail", r)

\* A built-in tool runs in the worker; its return code is the executor's.
tool_builtin_exec(w) ==
    /\ At(w, "run") /\ TTool[treq[ReqOf(w)].tool].exe = "builtin"
    /\ tran' = tran \cup {ReqOf(w)}
    /\ \E ok \in BOOLEAN :
          /\ twork' = [twork EXCEPT ![w] = [@ EXCEPT !.at = "done",
                 !.ret = IF ok THEN "ok" ELSE "builtin_failed",
                 !.res = {TResult(ok, IF ok THEN "ok" ELSE "fail", ReqOf(w))}]]
          /\ tstat' = [tstat EXCEPT !.wins = @ + (IF ok THEN 1 ELSE 0)]
    /\ UNCHANGED <<treq, tcfg, tpc, tjob, treply, tqueue, tpend, tacl, trate, tcache, tdown, tverdict, tpassed>>

\* Another tool runs in the sandbox; once it was started the executor returns OK and
\* the failure, if any, is in the result.
sandbox_exec(w) ==
    /\ At(w, "run") /\ TTool[treq[ReqOf(w)].tool].exe = "cmd"
    /\ \/ /\ tool_fail(w, "fatal", "eperm")     \* no sandbox, or it refuses
          /\ UNCHANGED <<tran, tstat>>
       \/ /\ "sandbox" \notin tcfg.broken
          /\ tran' = tran \cup {ReqOf(w)}
          /\ \E st \in ExitStatus :
                /\ twork' = [twork EXCEPT ![w] = [@ EXCEPT !.at = "done", !.ret = "ok",
                       !.res = {tool_set_exit(ReqOf(w), st)}]]
                /\ tstat' = [tstat EXCEPT !.wins = @ + (IF st = "zero" THEN 1 ELSE 0)]
    /\ UNCHANGED <<treq, tcfg, tpc, tjob, treply, tqueue, tpend, tacl, trate, tcache, tdown, tverdict, tpassed>>

\* A worker that leaves the freeing to the submitter, who may be gone.
finish_keeps(w) ==
    /\ At(w, "done")
    /\ SetJob(ReqOf(w), [JobOf(ReqOf(w)) EXCEPT !.ret = twork[w].ret, !.res = twork[w].res, !.done = TRUE])
    /\ twork' = [twork EXCEPT ![w] = Resting]
    /\ UNCHANGED <<treq, tcfg, tpc, treply, tqueue, tpend, tacl, trate, tcache, tstat, tdown, tran, tverdict, tpassed>>

\* Back under the pool lock: the job gets its result; a detached one is freed here.
worker_finish(w) ==
    /\ At(w, "done")
    /\ LET r == ReqOf(w)
           j == [JobOf(r) EXCEPT !.ret = twork[w].ret, !.res = twork[w].res, !.done = TRUE]
       IN  SetJob(r, IF j.detached THEN job_free(j) ELSE j)
    /\ twork' = [twork EXCEPT ![w] = Resting]
    /\ UNCHANGED <<treq, tcfg, tpc, treply, tqueue, tpend, tacl, trate, tcache, tstat, tdown, tran, tverdict, tpassed>>

-----------------------------------------------------------------------------
(* tool.approve: the first decision on a pending request stands.              *)
interactive_approval_resolve(i, decision) ==
    /\ i \in DOMAIN tpend /\ ~tpend[i].resolved /\ tdown # "gone"
    /\ tpend' = [tpend EXCEPT ![i].resolved = TRUE, ![i].outcome = decision]
    /\ tverdict' = [tverdict EXCEPT ![tpend[i].req] = decision]
    /\ UNCHANGED <<treq, tcfg, tpc, tjob, treply, tqueue, twork, tacl, trate, tcache, tstat, tdown, tran, tpassed>>

\* The daemon stops: its RPC threads are joined first (daemon_cleanup), then
\* executor_pool_free empties the queue and waits for the running jobs.
executor_pool_free ==
    /\ tdown = "no"
    /\ \A r \in TReqs : tpc[r] \in {"idle", "end"}
    /\ tdown' = "drain"
    /\ tqueue' = <<>>
    /\ tjob' = [r \in TReqs |-> IF r \in Range(tqueue) /\ ~JobOf(r).done
                                THEN {[JobOf(r) EXCEPT !.ret = "canceled", !.done = TRUE,
                                                       !.res = {synth_cancel_result(r)}]}
                                ELSE tjob[r]]
    /\ UNCHANGED <<treq, tcfg, tpc, treply, twork, tpend, tacl, trate, tcache, tstat, tran, tverdict, tpassed>>

\* With no job running the workers are joined, and pool, gate and cache are freed.
tool_service_destroy ==
    /\ tdown = "drain"
    /\ \A w \in TWorkers : At(w, "rest")
    /\ tdown' = "gone"
    /\ tcache' = <<>>
    /\ tpend' = <<>>
    /\ UNCHANGED <<treq, tcfg, tpc, tjob, treply, tqueue, twork, tacl, trate, tstat, tran, tverdict, tpassed>>

TNext ==
    \/ \E r \in TReqs : \/ execute_answered(r) \/ pool_enqueue(r) \/ pool_taken(r)
                        \/ pool_detached(r) \/ cache_tool_result(r)
    \/ \E w \in TWorkers : \/ worker_take(w) \/ executor_refuses(w) \/ safety_guard_bridge_check(w)
                           \/ approval_pending(w) \/ approval_woken(w)
                           \/ tool_builtin_exec(w) \/ sandbox_exec(w) \/ worker_finish(w)
    \/ \E i \in DOMAIN tpend, d \in {"allow", "always", "deny"} : interactive_approval_resolve(i, d)
    \/ executor_pool_free
    \/ tool_service_destroy

-----------------------------------------------------------------------------
(* Properties.                                                                *)

(* A tool runs only with leave, and an accepted decision is carried out: what *)
(* the SafetyGuard chain refused is started only if tool.approve accepted     *)
(* "allow" or "always" for that very request; a request whose "allow" was     *)
(* accepted is not answered as denied, however close the approval's deadline  *)
(* was; an accepted "deny" never runs.                                        *)
(* (gate_ask, interactive_approval_block against interactive_approval_resolve)*)
DecisionHonoured ==
    /\ \A r \in tran : r \in tpassed \/ tverdict[r] \in {"allow", "always"}
    /\ \A w \in TWorkers : At(w, "done") /\ tverdict[ReqOf(w)] \in {"allow", "always"}
           => twork[w].ret # "eperm" \/ \E x \in twork[w].res : x.cls = "fatal"

InHand(r) == \E w \in TWorkers : twork[w].req = {r}

(* The hand-over between submitter and worker, with the deadline racing the   *)
(* completion: a job is freed at most once and never while a worker or the    *)
(* queue still refers to it; when both sides are through with it, it was      *)
(* freed (a detached job that was still queued when the pool shut down        *)
(* excepted); and the result a caller gets was produced for its own agent,    *)
(* tool and arguments, also when it comes from the cache.                     *)
(* (executor_pool_run, pool_worker, job_free, get_cached_result)              *)
HandedOver ==
    /\ \A r \in TReqs : tjob[r] # {} =>
         /\ JobOf(r).freed <= 1
         /\ JobOf(r).freed = 1 => ~InHand(r) /\ r \notin Range(tqueue) /\ tpc[r] # "wait"
         /\ tpc[r] = "end" /\ ~InHand(r) /\ r \notin Range(tqueue) =>
               \/ JobOf(r).freed = 1
               \/ JobOf(r).detached /\ JobOf(r).ret = "canceled" /\ tdown # "no"
    /\ \A r \in TReqs : \A a \in treply[r] : \A x \in a.res :
         /\ tool_cache_key(x.from) = tool_cache_key(r)
         /\ x.success => x.from \in tran

=============================================================================
