------------------------------ MODULE ToolProc ------------------------------
(* The built-in tools of tool_d that run a command: shell_run, the git tools, *)
(* web_fetch and web_search.  Each pool worker forks a child, feeds its       *)
(* stdin, pumps its merged output until the child is reaped, the deadline     *)
(* passes or the buffer is full, drains the tail and reports.  Workers run in *)
(* one process and the pipes are inherited: a child holds the stdin pipes     *)
(* that other workers had open when it was forked.                            *)
(*                                                                            *)
(* Output and input are counted in chunks.  A child follows a script of       *)
(* "write", "readall" (stdin up to its end), "hang" and exit codes.           *)
EXTENDS DaemonBase, FiniteSets, SequencesExt

CONSTANTS
    XWorkers,     \* pool workers
    XJobs,        \* a set of functions worker -> [tool, script, stdin]
    XPipe,        \* chunks a pipe holds
    XCap          \* BUILTIN_OUTPUT_CAP, in chunks

VARIABLES
    xjob,         \* worker -> the tool call it runs
    xpc,          \* worker -> where it is in builtin_proc_capture
    xchild,       \* worker -> [st, at, wrote, code] of its child
    xin,          \* worker -> [n, held] of the child's stdin; held by workers' children or "self"
    xfed,         \* worker -> chunks of stdin still to write
    xout,         \* worker -> chunks in the output pipe
    xbuf,         \* worker -> [len, trunc, timed, exited]
    xstage,       \* worker -> which source web_search asks: bing, rewritten, ddg
    xres          \* worker -> {} or the tool's answer

xvars == <<xjob, xpc, xchild, xin, xfed, xout, xbuf, xstage, xres>>

GitMaxArgs == 2    \* BUILTIN_GIT_MAX_ARGS, 32 in the build

NoChild == [st |-> "none", at |-> 1, wrote |-> 0, code |-> -1]
EmptyBuf == [len |-> 0, trunc |-> FALSE, timed |-> FALSE, exited |-> FALSE]

XInit ==
    /\ xjob \in XJobs
    /\ xpc = [w \in XWorkers |-> "params"]
    /\ xchild = [w \in XWorkers |-> NoChild]
    /\ xin = [w \in XWorkers |-> [n |-> 0, held |-> {}]]
    /\ xfed = [w \in XWorkers |-> 0]
    /\ xout = [w \in XWorkers |-> 0]
    /\ xbuf = [w \in XWorkers |-> EmptyBuf]
    /\ xstage = [w \in XWorkers |-> "bing"]
    /\ xres = [w \in XWorkers |-> {}]

XGoto(w, l) == xpc' = [xpc EXCEPT ![w] = l]
XReply(w, r) == xres' = [xres EXCEPT ![w] = {r}] /\ XGoto(w, "done")
Ok(out) == [success |-> TRUE, out |-> out]
Fails(out) == [success |-> FALSE, out |-> out]

-----------------------------------------------------------------------------
(* Each tool looks at its parameters before it starts anything.               *)
Enters(w, ok) == IF ok THEN XGoto(w, "spawn") /\ UNCHANGED xres ELSE XReply(w, Fails(0))
shell_run_tool(w) ==
    /\ xpc[w] = "params" /\ xjob[w].tool = "shell_run"
    /\ \E command \in BOOLEAN : Enters(w, command)
    /\ UNCHANGED <<xjob, xchild, xin, xfed, xout, xbuf, xstage>>
\* git_exec runs a subcommand of the read-only list, git_diff its own; git_apply
\* feeds its patch to the command.
git_tools(w) ==
    /\ xpc[w] = "params" /\ xjob[w].tool = "git"
    /\ \E readonly, strings \in BOOLEAN, n \in {1, GitMaxArgs, GitMaxArgs + 1} :
          Enters(w, strings /\ (xjob[w].stdin > 0 \/ (readonly /\ n <= GitMaxArgs)))
    /\ UNCHANGED <<xjob, xchild, xin, xfed, xout, xbuf, xstage>>
\* web_fetch takes an http or https address, web_search any text.
builtin_parse_url(scheme, host) == scheme \in {"http", "https"} /\ host
web_params(w) ==
    /\ xpc[w] = "params" /\ xjob[w].tool \in {"web_fetch", "web_search"}
    /\ \E given, host \in BOOLEAN, scheme \in {"http", "ftp"} :
          Enters(w, given /\ (xjob[w].tool = "web_fetch" => builtin_parse_url(scheme, host)))
    /\ UNCHANGED <<xjob, xchild, xin, xfed, xout, xbuf, xstage>>

-----------------------------------------------------------------------------
(* capture_spawn: both pipes, then fork.  A tool answers at once when either  *)
(* fails (web_search goes on to its next source).                             *)
capture_pipes(w) ==
    /\ xpc[w] = "spawn"
    /\ \/ /\ xin' = [xin EXCEPT ![w] = [n |-> 0, held |-> {"self"}]]
          /\ XGoto(w, "fork")
       \/ UNCHANGED xin /\ XGoto(w, "refused")
    /\ UNCHANGED <<xjob, xchild, xfed, xout, xbuf, xstage, xres>>

\* The child keeps every stdin pipe its siblings had open, but its own write end.
capture_fork(w) ==
    /\ xpc[w] = "fork"
    /\ \/ /\ xchild' = [xchild EXCEPT ![w] = [NoChild EXCEPT !.st = "run"]]
          /\ xin' = [v \in XWorkers |-> IF v # w /\ "self" \in xin[v].held
                                        THEN [xin[v] EXCEPT !.held = @ \cup {w}] ELSE xin[v]]
          /\ xfed' = [xfed EXCEPT ![w] = xjob[w].stdin]
          /\ xout' = [xout EXCEPT ![w] = 0]
          /\ xbuf' = [xbuf EXCEPT ![w] = EmptyBuf]
          /\ XGoto(w, "feed")
       \/ /\ xin' = [xin EXCEPT ![w].held = {}] /\ XGoto(w, "refused")
          /\ UNCHANGED <<xchild, xfed, xout, xbuf>>
    /\ UNCHANGED <<xjob, xstage, xres>>

\* capture_feed: blocks on a full pipe, stops when nobody reads it any more.
capture_feed(w) ==
    /\ xpc[w] = "feed"
    /\ \/ /\ xfed[w] > 0 /\ xchild[w].st = "run" /\ xin[w].n < XPipe
          /\ xin' = [xin EXCEPT ![w].n = @ + 1]
          /\ xfed' = [xfed EXCEPT ![w] = @ - 1]
          /\ UNCHANGED xpc
       \/ /\ xfed[w] = 0 \/ xchild[w].st # "run"
          /\ xin' = [xin EXCEPT ![w].held = @ \ {"self"}]
          /\ XGoto(w, "loop")
          /\ UNCHANGED xfed
    /\ UNCHANGED <<xjob, xchild, xout, xbuf, xstage, xres>>

-----------------------------------------------------------------------------
\* The child, external: one step of its script.
Dies(w, code) ==
    /\ xchild' = [xchild EXCEPT ![w].st = "zombie", ![w].code = code]
    /\ xin' = [v \in XWorkers |-> [xin[v] EXCEPT !.held = @ \ {w}]]
child_steps(w) ==
    /\ xchild[w].st = "run"
    /\ LET does == xjob[w].script[xchild[w].at]
           goes == [xchild EXCEPT ![w].at = @ + 1]
       IN  \/ /\ does = "write" /\ xout[w] < XPipe
              /\ xout' = [xout EXCEPT ![w] = @ + 1]
              /\ xchild' = [goes EXCEPT ![w].wrote = @ + 1]
              /\ UNCHANGED xin
           \/ /\ does = "write" /\ xpc[w] \in {"report", "done"}  \* SIGPIPE: nobody reads
              /\ Dies(w, -1) /\ UNCHANGED xout
           \/ /\ does = "readall" /\ xin[w].n > 0
              /\ xin' = [xin EXCEPT ![w].n = @ - 1]
              /\ UNCHANGED <<xout, xchild>>
           \/ /\ does = "readall" /\ xin[w].n = 0 /\ xin[w].held = {}
              /\ xchild' = goes
              /\ UNCHANGED <<xin, xout>>
           \/ /\ does \in {"exit0", "exit1", "exit127"}
              /\ Dies(w, CASE does = "exit0" -> 0 [] does = "exit1" -> 1 [] OTHER -> 127)
              /\ UNCHANGED xout
    /\ UNCHANGED <<xjob, xpc, xfed, xbuf, xstage, xres>>

-----------------------------------------------------------------------------
\* builtin_buf_push: FALSE once the buffer cannot grow.
Pushes(b) == b.len < XCap
builtin_buf_push(b) == IF Pushes(b) THEN [b EXCEPT !.len = @ + 1] ELSE [b EXCEPT !.trunc = TRUE]

\* capture_loop: reap, give up at the deadline, or read what there is.
capture_loop(w) ==
    /\ xpc[w] = "loop"
    /\ \/ /\ xchild[w].st = "zombie"                       \* waitpid(WNOHANG)
          /\ xchild' = [xchild EXCEPT ![w].st = "reaped"]
          /\ xbuf' = [xbuf EXCEPT ![w].exited = TRUE]
          /\ XGoto(w, "drain")
          /\ UNCHANGED <<xout, xin>>
       \/ /\ xchild[w].st = "run"                          \* the deadline: SIGKILL, waitpid
          /\ xchild' = [xchild EXCEPT ![w].st = "reaped"]
          /\ xin' = [v \in XWorkers |-> [xin[v] EXCEPT !.held = @ \ {w}]]
          /\ xbuf' = [xbuf EXCEPT ![w].timed = TRUE]
          /\ XGoto(w, "drain")
          /\ UNCHANGED xout
       \/ /\ xchild[w].st = "run" /\ xout[w] > 0
          /\ xout' = [xout EXCEPT ![w] = @ - 1]
          /\ xbuf' = [xbuf EXCEPT ![w] = builtin_buf_push(@)]
          /\ IF Pushes(xbuf[w]) THEN UNCHANGED xpc ELSE XGoto(w, "drain")
          /\ UNCHANGED <<xchild, xin>>
    /\ UNCHANGED <<xjob, xfed, xstage, xres>>

\* A pump that reports as soon as the child is reaped.
capture_drain_none(w) ==
    /\ xpc[w] = "drain" /\ XGoto(w, "report")
    /\ UNCHANGED <<xjob, xchild, xin, xfed, xout, xbuf, xstage, xres>>

\* capture_drain: what the pipe still holds; its deadline passes only on an empty pipe.
capture_drain(w) ==
    /\ xpc[w] = "drain"
    /\ IF xout[w] = 0
       THEN XGoto(w, "report") /\ UNCHANGED <<xout, xbuf>>
       ELSE /\ xout' = [xout EXCEPT ![w] = @ - 1]
            /\ xbuf' = [xbuf EXCEPT ![w] = builtin_buf_push(@)]
            /\ IF Pushes(xbuf[w]) THEN UNCHANGED xpc ELSE XGoto(w, "report")
    /\ UNCHANGED <<xjob, xchild, xin, xfed, xstage, xres>>

\* capture_finish: the exit code.
capture_finish(w) ==
    IF xbuf[w].exited /\ ~xbuf[w].timed THEN xchild[w].code ELSE -1

-----------------------------------------------------------------------------
\* shell_run, git_exec, git_diff, git_apply: btool_finish.
btool_finish(w) ==
    /\ xjob[w].tool \in {"shell_run", "git"}
    /\ \/ /\ xpc[w] = "report"
          /\ XReply(w, IF capture_finish(w) = 0 THEN Ok(xbuf[w].len) ELSE Fails(xbuf[w].len))
       \/ xpc[w] = "refused" /\ XReply(w, Fails(0))
    /\ UNCHANGED <<xjob, xchild, xin, xfed, xout, xbuf, xstage>>

\* web_fetch: curl's status line is at the end of its output; without curl a plain
\* http address goes through the network layer.
StatusRead(w) == xbuf[w].exited /\ ~xbuf[w].trunc
web_fetch_tool(w) ==
    /\ xjob[w].tool = "web_fetch"
    /\ \/ xpc[w] = "refused" /\ XReply(w, Fails(0))
       \/ /\ xpc[w] = "report" /\ capture_finish(w) = 127
          /\ \E via \in {Fails(0), Ok(1)} : XReply(w, via)
       \/ /\ xpc[w] = "report" /\ capture_finish(w) # 127
          /\ \E status \in IF StatusRead(w) THEN {0, 200, 404} ELSE {0} :
                XReply(w, CASE status >= 400 -> Fails(xbuf[w].len)
                           [] status > 0 -> Ok(xbuf[w].len)
                           [] OTHER -> Fails(0))
    /\ UNCHANGED <<xjob, xchild, xin, xfed, xout, xbuf, xstage>>

\* web_search_via: what one source gave: nothing, results, or a dictionary page.
Found(w) == IF xpc[w] = "report" /\ capture_finish(w) = 0
            THEN {"none", "results", "degraded"} ELSE {"none"}
\* web_search_tool: Bing, once more with the query rewritten, then DuckDuckGo; the
\* budget may run out after the first source.
Again(w, s) == xstage' = [xstage EXCEPT ![w] = s] /\ XGoto(w, "spawn") /\ UNCHANGED xres
Ends(w, got) == XReply(w, IF got = "none" THEN Fails(0) ELSE Ok(1)) /\ UNCHANGED xstage
web_search_tool(w) ==
    /\ xjob[w].tool = "web_search" /\ xpc[w] \in {"report", "refused"}
    /\ \E got \in Found(w), late, rewrote \in BOOLEAN :
         CASE xstage[w] = "bing" /\ got = "none" -> IF late THEN Ends(w, got) ELSE Again(w, "ddg")
           [] xstage[w] = "bing" /\ got = "degraded" ->
                 IF late THEN Ends(w, got) ELSE Again(w, IF rewrote THEN "rewritten" ELSE "ddg")
           [] xstage[w] = "rewritten" /\ got # "results" -> Again(w, "ddg")
           [] OTHER -> Ends(w, got)
    /\ UNCHANGED <<xjob, xchild, xin, xfed, xout, xbuf>>

XNext ==
    \E w \in XWorkers :
        \/ shell_run_tool(w) \/ git_tools(w) \/ web_params(w)
        \/ capture_pipes(w) \/ capture_fork(w) \/ capture_feed(w) \/ capture_loop(w)
        \/ capture_drain(w) \/ child_steps(w)
        \/ btool_finish(w) \/ web_fetch_tool(w) \/ web_search_tool(w)

-----------------------------------------------------------------------------
(* A command tool that answers with success tells the truth about its         *)
(* command: the child ran to its end with code 0 and nobody killed it, and    *)
(* unless the buffer was full the answer holds all the child wrote, also what *)
(* was still in the pipe when it was reaped.  No answer exceeds the cap, and  *)
(* a child is left unreaped only when the full buffer ended the pump.         *)
(* (builtin_proc_capture, btool_finish)                                       *)
CaptureHonest ==
    \A w \in XWorkers : xpc[w] = "done" =>
        /\ xbuf[w].len <= XCap
        /\ xchild[w].st \in {"run", "zombie"} => xbuf[w].trunc
        /\ \A r \in xres[w] : r.success /\ xjob[w].tool \in {"shell_run", "git"} =>
             /\ xchild[w].code = 0 /\ xbuf[w].exited
             /\ xbuf[w].trunc \/ r.out = xchild[w].wrote
=============================================================================
