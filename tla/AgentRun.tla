------------------------------ MODULE AgentRun ------------------------------
(* agent.run, agent.run_stream and agent.cancel in agent_d (agent_run_rpc.c,   *)
(* agent_run_exec.c, agent_run_loop.c, agent_run_engine.c).                   *)
(*                                                                            *)
(* Every request is served by a thread of its own.  What the threads share is *)
(* the list of running sessions, the cancel flag of each, and the counter ids *)
(* are made from.  A step ends where a thread waits for another daemon or     *)
(* touches what is shared.  Ids are taken within one millisecond, when only   *)
(* the counter tells them apart.                                              *)
EXTENDS AgentLedger

CONSTANTS
    Runs,         \* the requests
    ASetups,      \* requests, what the daemons around may answer, how many cancels
    AMaxLoops,    \* AGENT_RUN_MAX_TOOL_LOOPS
    AFailLimit    \* AGENT_RUN_TOOL_FAIL_LIMIT

ASSUME ALoopsPositive == AMaxLoops \in Nat \ {0} /\ AFailLimit \in Nat \ {0}

VARIABLES
    aset,         \* the setup
    arun,         \* run_ctx_t of each request
    areg,         \* g_run_sessions, newest first: run, session id, cancelled
    aseq,         \* run_gen_id's static counter
    acancel       \* the answers of agent.cancel: {} or the run marked and where it was
avars == <<aset, arun, areg, aseq, acancel>>

Idle == [pc |-> "idle", sess |-> "", tmp |-> 0, rid |-> -1, seq |-> 0, lseq |-> 0, rc |-> -1,
         text |-> "", gccp |-> FALSE, trace |-> 0, round |-> 0, streak |-> 0, todo |-> <<>>,
         g |-> agent_ledger_init, plan |-> FALSE, cancelled |-> FALSE, agents |-> 0,
         gone |-> FALSE, evs |-> <<>>, chain |-> <<>>, saved |-> FALSE, reply |-> ""]

AInit ==
    /\ aset \in ASetups
    /\ arun = [r \in Runs |-> Idle]
    /\ areg = <<>>
    /\ aseq = 0
    /\ acancel = <<>>

Req(r) == aset.req[r]
At(r, pc) == arun[r].pc = pc
Registered(r) == \E i \in DOMAIN areg : areg[i].run = r
agent_run_is_cancelled(r) == \E i \in DOMAIN areg : areg[i].run = r /\ areg[i].cancelled

\* an event goes out with the next id of the counter the caller names; without
\* a sink nothing happens, after a failed send nothing more is sent
agent_run_emit_event(r, c, counter, rid, type, info) ==
    IF ~Req(r).stream THEN c
    ELSE LET e == [type |-> type, id |-> c[counter], rid |-> rid, info |-> info]
             n == IF c.gone THEN c ELSE [c EXCEPT !.evs = Append(@, e)]
         IN [n EXCEPT ![counter] = @ + 1]
\* active->run_id: after unregister the memory holds something else
ActiveRunId(r) == IF Registered(r) THEN arun[r].rid ELSE -2
Emit(r, c, type, info) == agent_run_emit_event(r, c, "seq", ActiveRunId(r), type, info)
LoopEmit(r, c, type, info) == agent_run_emit_event(r, c, "lseq", ActiveRunId(r), type, info)

Set(r, c) == arun' = [arun EXCEPT ![r] = c]
Local(r, c) == Set(r, c) /\ UNCHANGED <<aset, areg, aseq, acancel>>
agent_record_event(c, e) == [c EXCEPT !.chain = Append(@, e)]

-----------------------------------------------------------------------------
\* the prompt, or the text of the first message; none is an error
parse_run_args(q) == q.prompt \/ q.msg0

\* agent.run and agent.run_stream
handle_run(r) ==
    /\ At(r, "idle")
    /\ Local(r, IF parse_run_args(Req(r)) THEN [arun[r] EXCEPT !.pc = "open"]
                ELSE [arun[r] EXCEPT !.pc = "done", !.reply = "invalid"])

agent_run_register(r, s) == areg' = <<[run |-> r, sess |-> s, cancelled |-> FALSE]>> \o areg
Unregistered(r) == SelectSeq(areg, LAMBDA n : n.run # r)

\* run_gen_id: the counter is read and written back without a lock
run_gen_id_read(r) ==
    /\ At(r, "open") \/ At(r, "runid")
    /\ At(r, "open") => Req(r).sess = ""
    /\ Local(r, [arun[r] EXCEPT !.tmp = aseq, !.pc = IF @ = "open" THEN "sessgen" ELSE "rungen"])

\* the session id: the caller's, or a new one; then the run joins the list
run_open_session(r) ==
    /\ (At(r, "open") /\ Req(r).sess # "") \/ At(r, "sessgen")
    /\ LET s == IF At(r, "open") THEN Req(r).sess ELSE ToString(arun[r].tmp)
       IN /\ agent_run_register(r, s)
          /\ Set(r, [arun[r] EXCEPT !.sess = s, !.pc = "runid"])
    /\ aseq' = IF At(r, "sessgen") THEN arun[r].tmp + 1 ELSE aseq
    /\ UNCHANGED <<aset, acancel>>

\* the run id is there; without a model the run ends here
run_open(r) ==
    /\ At(r, "rungen")
    /\ aseq' = arun[r].tmp + 1
    /\ LET c == [arun[r] EXCEPT !.rid = arun[r].tmp]
       IN IF Req(r).model
          THEN Set(r, [c EXCEPT !.pc = "announce"]) /\ UNCHANGED areg
          ELSE /\ Set(r, [agent_run_emit_event(r, c, "seq", c.rid, "error", "nomodel")
                          EXCEPT !.pc = "done", !.reply = "failed"])
               /\ areg' = Unregistered(r)
    /\ UNCHANGED <<aset, acancel>>

\* run_start on both records, then the branch: a spec, given or from a file
\* with a role in it, starts an agent; otherwise the question goes to think_d
agent_spec_from_file(q) == IF q.spec = "" /\ q.file = "role" THEN "object" ELSE q.spec
run_announce(r) ==
    /\ At(r, "announce")
    /\ LET c == Emit(r, agent_record_event(arun[r], "run_start"), "run_start", "")
       IN Local(r, [c EXCEPT !.pc = IF agent_spec_from_file(Req(r)) = "" THEN "think" ELSE "orch"])

\* spawn an agent, then ask it; what fails becomes the reason in the answer
run_orch(c, ok) ==
    [c EXCEPT !.pc = "chain", !.rc = IF ok THEN 0 ELSE 3, !.text = IF ok THEN "answer" ELSE "reason"]
agent_run_orchestrate(r) ==
    \/ /\ At(r, "orch")
       /\ \/ /\ agent_spec_from_file(Req(r)) = "object"
             /\ Local(r, [arun[r] EXCEPT !.pc = "invoke", !.agents = @ + 1])
          \/ Local(r, run_orch(arun[r], FALSE))
    \/ /\ At(r, "invoke")
       /\ \/ Local(r, run_orch(arun[r], TRUE))
          \/ Local(r, run_orch(arun[r], FALSE))

\* run_seed: the messages given, or the prompt; a system message goes first and
\* the first user message is the anchor of the map
run_seed(q, plan, taken) ==
    LET h == IF q.hist THEN <<"user", "assistant", "user">> ELSE <<>>
        roles == <<"system">> \o h \o (IF plan THEN <<"system", "user">> ELSE IF q.hist THEN <<>> ELSE <<"user">>)
        g == FoldLeft(LAMBDA a, role : AddMsg(a, role, {}), agent_ledger_init, roles)
        anchor == FirstIdx(roles, LAMBDA role : role = "user")
    IN agent_ledger_add(g, "user", anchor, taken)

\* the tool loop starts afresh: its own counter, ledger and messages
LoopFrom(r, c, plan) ==
    \E taken \in aset.taken :
       Local(r, [c EXCEPT !.pc = "round", !.plan = plan, !.round = 0, !.lseq = 0, !.streak = 0,
                          !.trace = 0, !.text = "", !.g = run_seed(Req(r), plan, taken)])

\* think_d does not answer, answers no object, or an object
agent_think_process(a) == IF a \in {"down", "notobject"} THEN "none" ELSE a
\* without its answer straight to the tools; otherwise a question back to the
\* user, a plan, or no plan
run_think(r) ==
    /\ At(r, "think")
    /\ \E t \in aset.think :
         LET a == agent_think_process(t) IN
         CASE a \in {"none", "noplan"} -> LoopFrom(r, arun[r], FALSE)
           [] a = "ask" -> Local(r, [arun[r] EXCEPT !.gccp = TRUE, !.rc = 0, !.pc = "chain"])
           [] a = "plan" -> LoopFrom(r, agent_record_event(arun[r], "plan"), TRUE)

\* the start of a round of agent_run_tool_loop
agent_run_tool_loop(r) ==
    /\ At(r, "round")
    /\ LET c == arun[r]
       IN IF c.round = AMaxLoops THEN Local(r, [c EXCEPT !.rc = -1, !.text = "", !.trace = 0, !.pc = "looped"])
          ELSE IF agent_run_is_cancelled(r)
          THEN Local(r, [c EXCEPT !.rc = 1, !.text = "", !.trace = 0, !.pc = "looped"])
          ELSE \E warn, ok \in aset.warn :
                 Local(r, [c EXCEPT !.round = @ + 1, !.g = agent_ledger_fit(@, warn, ok), !.pc = "llm"])

\* a piece of the answer as it arrives
run_emit_delta(r, c) == LoopEmit(r, c, "token_delta", "")
\* one LLM call: it fails at once (-1) or half way (-2), answers (0), or asks
\* for n tools
run_llm_round(r) ==
    /\ At(r, "llm")
    /\ \E n \in aset.llm, taken \in aset.taken :
         LET c == arun[r]
             calls == [k \in 1..n |-> <<c.g.next, k>>]
             g == agent_ledger_add(AddMsg(c.g, "assistant", Range(calls)), "assistant", c.g.next, taken)
             d == run_emit_delta(r, [c EXCEPT !.g = g, !.todo = calls])
             half == IF n = -2 THEN run_emit_delta(r, c) ELSE c
         IN IF n < 0 THEN Local(r, [half EXCEPT !.rc = -1, !.text = "", !.trace = 0, !.pc = "looped"])
            ELSE IF n = 0 THEN Local(r, [d EXCEPT !.rc = 0, !.text = "answer", !.pc = "looped"])
            ELSE Local(r, [d EXCEPT !.pc = "tool"])

\* tool_d is not reached, answers no JSON, reports a failure or a success
run_execute_tool(a) == a \notin {"unreachable", "garbage", "failed"}
run_fail_streak_bump(streak, ok) == IF ok THEN 0 ELSE streak + 1

\* one tool call, its result in the messages, the ledger and the trace; the
\* limit of failures in a row ends the loop, the calls left get no answer
run_tool_one(r) ==
    /\ At(r, "tool")
    /\ \E a \in aset.tool, taken \in aset.taken :
         LET c == LoopEmit(r, arun[r], "tool_start", Head(arun[r].todo))
             e == LoopEmit(r, c, "tool_end", Head(c.todo))
             g == agent_ledger_add(AddMsg(c.g, "tool", {Head(c.todo)}), "tool_result", c.g.next, taken)
             streak == run_fail_streak_bump(c.streak, run_execute_tool(a))
             d == [e EXCEPT !.g = g, !.streak = streak, !.trace = @ + 1, !.todo = Tail(@)]
         IN Local(r, IF streak >= AFailLimit
                     THEN [d EXCEPT !.todo = <<>>, !.rc = 2, !.text = "fuse", !.pc = "looped"]
                     ELSE [d EXCEPT !.pc = IF d.todo = <<>> THEN "round" ELSE "tool"])

\* after the loop: the plan is announced, and a plan that failed is followed
\* by a loop without it
run_plan(r) ==
    /\ At(r, "looped")
    /\ LET c == IF arun[r].plan THEN Emit(r, arun[r], "plan", "") ELSE arun[r]
       IN IF c.plan /\ c.rc < 0 THEN LoopFrom(r, c, FALSE) ELSE Local(r, [c EXCEPT !.pc = "chain"])

\* the decision chain hears of a success that is not cancelled
run_chain(r) ==
    /\ At(r, "chain")
    /\ LET c == arun[r]
           tools == IF c.trace > 0 THEN agent_record_event(c, "tools") ELSE c
           all == IF c.gccp THEN tools ELSE agent_record_event(tools, "run_result")
           d == IF c.rc = 0 /\ ~agent_run_is_cancelled(r) THEN all ELSE c
       IN Local(r, [d EXCEPT !.pc = "flag"])

\* the flag is read once more and decides the answer
read_cancelled(r) ==
    /\ At(r, "flag")
    /\ Local(r, [arun[r] EXCEPT !.cancelled = agent_run_is_cancelled(r), !.pc = "unreg"])

agent_run_unregister(r) ==
    /\ At(r, "unreg")
    /\ areg' = Unregistered(r)
    /\ Set(r, [arun[r] EXCEPT !.pc = "fill"])
    /\ UNCHANGED <<aset, aseq, acancel>>

agent_persist(c, taken) == [c EXCEPT !.saved = taken]
\* a success is written to mem_d, cancelled or not, if mem_d takes it
run_fill(r) ==
    /\ At(r, "fill")
    /\ \E taken \in aset.taken :
         LET c == [arun[r] EXCEPT !.pc = "tail"]
         IN Local(r, IF c.rc = 0 /\ ~c.gccp THEN agent_persist(c, taken) ELSE c)

RunEnd(c) == IF c.cancelled THEN "cancelled" ELSE IF c.rc # 0 THEN "failed" ELSE "completed"
\* message, run_end, error; then the answer
Tail3(r, rid) ==
    LET c == arun[r]
        ev(d, type, info) == agent_run_emit_event(r, d, "seq", rid, type, info)
        msg == IF c.rc = 0 /\ ~c.gccp /\ c.text # "" THEN ev(c, "message", "") ELSE c
        end == ev(msg, "run_end", RunEnd(c))
        err == IF c.rc # 0 /\ ~c.cancelled THEN ev(end, "error", c.text) ELSE end
    IN Local(r, [err EXCEPT !.pc = "done", !.reply = RunEnd(c)])
\* a mutant: the run id is read where unregister freed it
tail_reads_active(r) == At(r, "tail") /\ Tail3(r, ActiveRunId(r))
run_tail(r) == At(r, "tail") /\ Tail3(r, arun[r].rid)

\* the newest run of that session is marked
agent_run_cancel_by_session(at) == areg' = IF at = 0 THEN areg ELSE [areg EXCEPT ![at].cancelled = TRUE]
\* agent.cancel: "cancelling", or no such session
handle_cancel(s) ==
    /\ Len(acancel) < aset.cancels
    /\ LET at == FirstIdx(areg, LAMBDA n : n.sess = s)
       IN /\ agent_run_cancel_by_session(at)
          /\ acancel' = Append(acancel, IF at = 0 THEN {} ELSE
                                {[run |-> areg[at].run, pc |-> arun[areg[at].run].pc]})
    /\ UNCHANGED <<aset, arun, aseq>>

\* the client of a stream is gone: sends fail from now on
rs_sink_emit(r) ==
    /\ Req(r).stream /\ aset.leave /\ ~arun[r].gone /\ arun[r].pc \notin {"idle", "done"}
    /\ Local(r, [arun[r] EXCEPT !.gone = TRUE])

ASessions == UNION {{Req(r).sess, arun[r].sess} : r \in Runs} \ {""}
ANext ==
    \/ \E r \in Runs :
          \/ handle_run(r) \/ run_gen_id_read(r) \/ run_open_session(r) \/ run_open(r)
          \/ run_announce(r) \/ agent_run_orchestrate(r) \/ run_think(r) \/ agent_run_tool_loop(r)
          \/ run_llm_round(r) \/ run_tool_one(r) \/ run_plan(r) \/ run_chain(r) \/ read_cancelled(r)
          \/ agent_run_unregister(r) \/ run_fill(r) \/ run_tail(r) \/ rs_sink_emit(r)
    \/ \E s \in ASessions : handle_cancel(s)

-----------------------------------------------------------------------------
Types(r) == [i \in DOMAIN arun[r].evs |-> arun[r].evs[i].type]
\* a cancel of r was acknowledged while r could still read its flag
CancelHeard(r) ==
    \E i \in DOMAIN acancel : \E a \in acancel[i] : a.run = r /\ a.pc # "unreg"

\* agent_run_execute as its caller sees it, whatever other runs of the same
\* session and cancels do meanwhile.  Every event carries the id of its own run
\* (agent_run_exec.c:613).  A stream is run_start, the work, message, run_end,
\* error in this order, the last one only for a failure, and the status of
\* run_end is the answer; a tool's end follows its start.  A cancel that is
\* acknowledged before the flag is read for the last time makes the answer
\* "cancelled", and nothing else does.  The run is in mem_d and in the decision
\* chain only as a success.
RunHolds ==
    \A r \in Runs :
      LET c == arun[r]
          ts == Types(r)
      IN /\ \A i \in DOMAIN ts : c.evs[i].rid = c.rid
         /\ \A i \in DOMAIN ts :
               /\ ts[i] = "run_start" <=> (i = 1 /\ Req(r).model)
               /\ ts[i] = "run_end" => \A j \in (i + 1)..Len(ts) : ts[j] = "error" /\ c.reply = "failed"
               /\ ts[i] = "run_end" => c.evs[i].info = c.reply
               /\ ts[i] = "message" => i + 1 <= Len(ts) /\ ts[i + 1] = "run_end"
               /\ ts[i] = "tool_end" => i > 1 /\ ts[i - 1] = "tool_start" /\ c.evs[i - 1].info = c.evs[i].info
         /\ c.pc = "done" /\ c.rid # -1 /\ Req(r).model => (c.reply = "cancelled" <=> CancelHeard(r))
         /\ c.saved => c.rc = 0
         /\ \A i \in DOMAIN c.chain : c.chain[i] = "run_result" => c.rc = 0
         /\ Registered(r) <=> c.pc \notin {"idle", "open", "sessgen", "fill", "tail", "done"}
\* agent_run_ledger.c:13, "assistant(tool_calls) and its tool messages are one
\* group, no orphaned tool message": as long as mem_d took every message of the
\* run, what is sent to the LLM after any number of compressions has every tool
\* message after the call it answers and every call answered.
GroupsWhole ==
    \A r \in Runs : At(r, "llm") /\ arun[r].g.lost = 0 => GroupsAreWhole(arun[r].g.msgs)
\* agent_run_ledger.c:141 and test_run_ledger.c:141: the summary of an earlier
\* compression, which has no ledger id, is "never a candidate" again.  So no
\* text of the run leaves the messages except into a summary that stays.
SummaryKept ==
    \A r \in Runs : At(r, "llm") => TextIsThere(arun[r].g)
=============================================================================
