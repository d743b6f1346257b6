---------------------------- MODULE LlmProvider ----------------------------
(***************************************************************************)
(* llm_d: one call to one upstream provider (providers/core and adapters). *)
(*                                                                         *)
(* Worker threads share the provider's context: its API key, its rate      *)
(* limiter and its latency ring.  A call refreshes the key, builds its     *)
(* headers, and posts: through the rate limiter (the `chat` adapter's      *)
(* complete), directly (the other adapters' complete), or as a stream of   *)
(* server-sent events.  Every post runs the transport retry loop of        *)
(* retry.c; the outcome of each transfer is the environment's choice.      *)
(* A stream's body is a sequence of tokens, a line being its content and a *)
(* newline: transfers hand over any number of tokens at a time.            *)
(***************************************************************************)
EXTENDS DaemonBase, FiniteSets, SequencesExt

CONSTANTS
    PJobs,          \* what the worker threads may be calling: functions from threads to jobs
                    \*   fmt: the provider's wire format, stream: a stream is asked for,
                    \*   idem: temperature 0 and a seed (req_idem)
    PBody,          \* PBody[fmt]: tokens of an uncut upstream stream
    PMaxRetries,    \* base->max_retries
    PRpm,           \* rl->rpm_limit
    PToolMax,       \* PROVIDER_TOOL_MAX
    PSlots,         \* PROV_STAT_SLOTS
    PFloor, PCap,   \* PROV_TMO_FLOOR_SEC, PROV_TMO_CAP_SEC
    PKeys,          \* values the key may take in the environment
    PMaxSpan        \* bound on expired rpm windows and key rotations

ASSUME LlmProviderAssumption ==
    /\ PMaxRetries \in Nat /\ PRpm \in Nat \ {0} /\ PSlots \in Nat \ {0}
    /\ "torn" \notin PKeys

VARIABLES
    pjob,       \* the job of each thread
    pcall,      \* the call each thread is in
    prl,        \* the rate limiter: count, whether its window expired, 429s in a row (to 2)
    pkey,       \* base->api_key; "torn" while it is being overwritten
    psecret,    \* the key the environment and secrets.env hold
    plat,       \* latency ring of prov_stat.c: samples, head, count
    ptmo,       \* timeout kinds counted by prov_stat_hit
    pspan       \* windows and rotations so far

pVars == <<pjob, pcall, prl, pkey, psecret, plat, ptmo, pspan>>

----------------------------------------------------------------------------
(* Pure parts *)

CurlRes == {"ok", "connect", "ssl", "tmo_connect", "tmo_stall", "tmo_total", "recv", "other"}
Timeouts == {"tmo_connect", "tmo_stall", "tmo_total"}
HttpCodes == {200, 400, 401, 429, 500}

\* The transfer broke before the request was handed to the server.
BeforeSend == {"connect", "ssl", "tmo_connect"}

provider_retryable(res) == res \in CurlRes \ {"ok", "other"}

retry_in_class(res, fmt) ==
    IF fmt = "local" THEN res = "connect" ELSE provider_retryable(res)

pre_send_fail(res) == res \in {"connect", "ssl"}

\* A plausible slip: any failure inside the class is tried again.
retry_any(fmt, idem, res) == res = "tmo_connect" \/ retry_in_class(res, fmt)

retry_allowed(fmt, idem, res) ==
    \/ res = "tmo_connect"
    \/ /\ retry_in_class(res, fmt)
       /\ IF res \in Timeouts THEN res # "tmo_total" /\ idem
          ELSE pre_send_fail(res) \/ idem

provider_http_err_map(code, fallback) ==
    CASE code \in {401, 403} -> "AUTH_FAIL"
      [] code = 429          -> "RATE_LIMIT"
      [] code \in {400, 422} -> "BAD_REQUEST"
      [] OTHER               -> fallback

curl_fail(res) ==
    CASE res = "tmo_stall" -> "STREAM_STALL"
      [] res = "tmo_total" -> "TIMEDOUT"
      [] OTHER             -> "IO"

http_fail(code) == IF code \in {400, 422} THEN "BAD_REQUEST" ELSE "IO"

\* The tool-call slot of an index: an existing one, or a new one while there is room.
tool_slot(tools, index) ==
    IF \E k \in DOMAIN tools : tools[k].index = index \/ Len(tools) >= PToolMax
    THEN tools ELSE Append(tools, [index |-> index, id |-> "", args |-> <<>>])

SlotOf(tools, index) == FirstIdx(tools, LAMBDA s : s.index = index)

tool_str_first(old, new) == IF old = "" THEN new ELSE old

provider_tool_begin(tools, index, id) ==
    LET ts == tool_slot(tools, index)
        k  == SlotOf(ts, index)
    IN  IF k = 0 THEN ts ELSE [ts EXCEPT ![k].id = tool_str_first(@, id)]

provider_tool_args_add(tools, index, frag) ==
    LET ts == tool_slot(tools, index)
        k  == SlotOf(ts, index)
    IN  IF k = 0 THEN ts ELSE [ts EXCEPT ![k].args = @ \o frag]

\* One tool_calls entry of a chat delta; an entry without an index opens a new slot.
provider_tool_delta(tools, d) ==
    LET index == Opt(d.index, Len(tools))
        begun == provider_tool_begin(tools, index, d.id)
    IN  IF SlotOf(begun, index) = 0 THEN begun
        ELSE provider_tool_args_add(begun, index, d.args)

provider_tool_json(tools) ==
    [k \in DOMAIN tools |-> [id |-> tool_str_first(tools[k].id, "call_unknown"),
                             args |-> tools[k].args]]

provider_stream_acc_init == [text |-> <<>>, tools |-> <<>>, fin |-> ""]

prov_stream_chunk(acc, e) ==
    CASE e.k = "text" -> [acc EXCEPT !.text = Append(@, e.x)]
      [] e.k = "tool" -> [acc EXCEPT !.tools = provider_tool_delta(@, e)]
      [] e.k = "fin"  -> [acc EXCEPT !.fin = e.x]
      [] OTHER        -> acc

msg_map_event(acc, e) ==
    CASE e.k = "text"  -> [acc EXCEPT !.text = Append(@, e.x)]
      [] e.k = "begin" -> [acc EXCEPT !.tools = provider_tool_begin(@, Opt(e.index, 0), e.id)]
      [] e.k = "args"  -> [acc EXCEPT !.tools = provider_tool_args_add(@, Opt(e.index, 0), e.args)]
      [] e.k = "fin"   -> [acc EXCEPT !.fin = e.x]
      [] OTHER         -> acc

stream_integrity(fin) ==
    CASE fin = ""               -> "NO_FINISH"
      [] fin = "length"         -> "TRUNCATED"
      [] fin = "content_filter" -> "CONTENT_FILTERED"
      [] OTHER                  -> "ok"

prov_stat_lat(l, ms) ==
    [samples |-> [l.samples EXCEPT ![l.head] = ms],
     head    |-> (l.head + 1) % PSlots,
     count   |-> MinOf(l.count + 1, PSlots)]

prov_stat_p99(l) ==
    IF l.count = 0 THEN 0
    ELSE LET vals == SortSeq([i \in 1..l.count |-> l.samples[i - 1]], LAMBDA a, b : a < b)
         IN  vals[(l.count * 99 + 99) \div 100]

prov_tmo_auto(l) ==
    LET p99 == prov_stat_p99(l)
    IN  IF p99 = 0 THEN PCap ELSE MaxOf((p99 * 3) \div 2, PFloor)

\* Only the local adapter leaves its timeout to the p99 of its own calls (local_init).
provider_budget_sec(l, fmt) == IF fmt = "local" THEN prov_tmo_auto(l) ELSE PCap

\* local_init fixes one retry; the other adapters keep base->max_retries.
local_init(fmt) == IF fmt = "local" THEN 1 ELSE PMaxRetries

chat_rate_limiter(t) == pjob[t].fmt = "chat" /\ ~pjob[t].stream

----------------------------------------------------------------------------
(* Calls *)

PIdle ==
    [pc |-> "idle", key |-> "", att |-> 0, rt |-> 0, http |-> 0, code |-> 0, res |-> "ok",
     sent |-> 0, pos |-> 0, line |-> <<>>, raw |-> FALSE, done |-> FALSE,
     acc |-> provider_stream_acc_init, out |-> <<>>, budget |-> 0, ret |-> ""]

PThr == DOMAIN pjob

PInit ==
    /\ pjob \in PJobs
    /\ pcall = [t \in PThr |-> PIdle]
    /\ prl = [count |-> 0, old |-> FALSE, seq |-> 0]
    /\ pkey \in PKeys
    /\ psecret = pkey
    /\ plat = [samples |-> [i \in 0..PSlots - 1 |-> 0], head |-> 0, count |-> 0]
    /\ ptmo = {}
    /\ pspan = 0

Call(t, c) == pcall' = [pcall EXCEPT ![t] = c] /\ UNCHANGED pjob

\* provider_refresh_api_key, up to the overwrite: the old key is wiped first.
provider_refresh_api_key(t) ==
    /\ pcall[t].pc = "idle"
    /\ IF pkey = psecret
       THEN Call(t, [pcall[t] EXCEPT !.pc = "hdr"]) /\ UNCHANGED pkey
       ELSE Call(t, [pcall[t] EXCEPT !.pc = "key", !.key = psecret]) /\ pkey' = "torn"
    /\ \A u \in PThr : pcall[u].pc # "key"          \* g_secrets_refresh_lock
    /\ UNCHANGED <<prl, psecret, plat, ptmo, pspan>>

\* ... and the copy of the new one.
key_copied(t) ==
    /\ pcall[t].pc = "key"
    /\ pkey' = pcall[t].key
    /\ Call(t, [pcall[t] EXCEPT !.pc = "hdr"])
    /\ UNCHANGED <<prl, psecret, plat, ptmo, pspan>>

\* provider_headers_build reads the key without the refresh lock.
provider_headers_build(t) ==
    /\ pcall[t].pc = "hdr"
    /\ Call(t, [pcall[t] EXCEPT
                  !.pc = IF chat_rate_limiter(t) THEN "rpm" ELSE "try",
                  !.key = IF pjob[t].fmt = "local" THEN "" ELSE pkey,
                  !.budget = provider_budget_sec(plat, pjob[t].fmt)])
    /\ UNCHANGED <<prl, pkey, psecret, plat, ptmo, pspan>>

\* A refused call sleeps a second and asks again: it takes no attempt.
rl_check_rpm(t) ==
    /\ pcall[t].pc = "rpm"
    /\ LET rl == IF prl.old THEN [prl EXCEPT !.count = 0, !.old = FALSE] ELSE prl
       IN  IF rl.count >= PRpm
           THEN prl' = rl /\ UNCHANGED <<pjob, pcall>>
           ELSE /\ prl' = [rl EXCEPT !.count = @ + 1]
                /\ Call(t, [pcall[t] EXCEPT !.pc = "try", !.rt = 0, !.code = 0,
                                            !.sent = 0, !.res = "ok"])
    /\ UNCHANGED <<pkey, psecret, plat, ptmo, pspan>>

prov_http_done(res) == ptmo' = IF res \in Timeouts THEN ptmo \union {res} ELSE ptmo

\* One transfer of a plain post; the status is read only when it succeeded.
http_try(t) ==
    /\ pcall[t].pc = "try" /\ ~pjob[t].stream
    /\ \E res \in CurlRes, code \in HttpCodes :
         /\ res # "ok" => code = 200              \* no status to choose
         /\ Call(t, [pcall[t] EXCEPT
                       !.res = res,
                       !.code = IF res = "ok" THEN code ELSE @,
                       !.sent = IF res \in BeforeSend THEN @ ELSE @ + 1,
                       !.pc = IF res = "ok" THEN "posted" ELSE "retry"])
         /\ prov_http_done(res)
    /\ UNCHANGED <<prl, pkey, psecret, plat, pspan>>

\* sse_process_buffer: feed the complete lines, keep the rest.
feed(fmt, c, e) ==
    IF e.k = "DONE" THEN [c EXCEPT !.done = TRUE]
    ELSE [c EXCEPT !.acc = IF fmt = "messages" THEN msg_map_event(@, e)
                           ELSE prov_stream_chunk(@, e),
                   !.out = IF e.k = "text" THEN Append(@, e.x) ELSE @]

sse_process_buffer(fmt, c) ==
    LET ends == {i \in DOMAIN c.line : c.line[i].k = "nl"}
        cut  == IF ends = {} THEN 0 ELSE CHOOSE i \in ends : \A j \in ends : j <= i
        full == SelectSeq(SubSeq(c.line, 1, cut), LAMBDA e : e.k # "nl")
    IN  [FoldLeft(LAMBDA d, e : feed(fmt, d, e), c, full)
           EXCEPT !.line = SubSeq(c.line, cut + 1, Len(c.line))]

\* A streaming transfer hands over some more of the body.
sse_write_callback(t) ==
    /\ pcall[t].pc = "try" /\ pjob[t].stream
    /\ LET body == PBody[pjob[t].fmt]
           c    == pcall[t]
       IN  \E n \in c.pos + 1..Len(body) :
             Call(t, sse_process_buffer(pjob[t].fmt,
                       [c EXCEPT !.pos = n, !.raw = TRUE, !.code = 200,
                                 !.line = @ \o SubSeq(body, c.pos + 1, n)]))
    /\ UNCHANGED <<prl, pkey, psecret, plat, ptmo, pspan>>

\* The transfer ends.  Its status is read even when it failed: after a byte of the body
\* it is 200; before, the server may have answered an error with a body, or nothing.
sse_try(t) ==
    /\ pcall[t].pc = "try" /\ pjob[t].stream
    /\ \E res \in CurlRes, code \in HttpCodes \union {0} :
         /\ pcall[t].raw => code = 200 /\ res \notin BeforeSend
         /\ (~pcall[t].raw /\ res # "ok") => code = 0
         /\ res = "ok" => code # 0
         /\ Call(t, [pcall[t] EXCEPT
                       !.res = res, !.code = code,
                       !.raw = @ \/ code \notin {0, 200},
                       !.sent = IF res \in BeforeSend THEN @ ELSE @ + 1,
                       !.pc = IF res = "ok" THEN "posted" ELSE "retry"])
         /\ prov_http_done(res)
    /\ UNCHANGED <<prl, pkey, psecret, plat, pspan>>

sse_gate(c) == c.code = 0 /\ ~c.raw

\* Between two transfers: the class, the gate and the time left decide.
provider_retry_run(t) ==
    /\ pcall[t].pc = "retry"
    /\ LET c  == pcall[t]
           ok == /\ c.rt < local_init(pjob[t].fmt)
                 /\ retry_allowed(pjob[t].fmt, pjob[t].idem, c.res)
                 /\ pjob[t].stream => sse_gate(c)
       IN  \E time_left \in BOOLEAN :               \* provider_retry_budget_ok
             Call(t, IF ok /\ time_left
                     THEN [c EXCEPT !.pc = "try", !.rt = @ + 1, !.pos = 0, !.line = <<>>,
                                    !.raw = FALSE, !.done = FALSE]
                     ELSE [c EXCEPT !.pc = "posted"])
    /\ UNCHANGED <<prl, pkey, psecret, plat, ptmo, pspan>>

Finish(c, ret) == [c EXCEPT !.pc = "done", !.ret = ret]

\* provider_http_post writes the caller's status only on success.
provider_http_post(c) ==
    IF c.res = "ok" THEN [ret |-> "ok", http |-> c.code]
    ELSE [ret |-> curl_fail(c.res), http |-> c.http]

\* provider_driver_complete once the post has returned for good.
provider_driver_complete(t, c, ret) ==
    /\ IF ret = "ok" THEN plat' = prov_stat_lat(plat, 1) ELSE UNCHANGED plat
    /\ Call(t, Finish(c, IF ret # "ok" THEN ret
                         ELSE IF c.http # 200 THEN provider_http_err_map(c.http, "IO")
                         ELSE "ok"))

\* A plain post without a rate limiter.
exec_post(t) ==
    /\ pcall[t].pc = "posted" /\ ~pjob[t].stream /\ ~chat_rate_limiter(t)
    /\ LET p == provider_http_post(pcall[t])
       IN  provider_driver_complete(t, [pcall[t] EXCEPT !.http = p.http], p.ret)
    /\ UNCHANGED <<prl, pkey, psecret, ptmo, pspan>>

rl_reset_429(rl) == [rl EXCEPT !.seq = 0]

\* Counts the 429; the wait that follows, by the server's hint or by backoff, is time only.
rl_record_429(rl) == [rl EXCEPT !.seq = MinOf(@ + 1, 2)]

\* provider_http_request_with_retry after one post.
provider_http_request_with_retry(t) ==
    /\ pcall[t].pc = "posted" /\ chat_rate_limiter(t)
    /\ LET p   == provider_http_post(pcall[t])
           c   == [pcall[t] EXCEPT !.http = p.http]
           max == IF PMaxRetries > 0 THEN PMaxRetries ELSE 5
           next == [c EXCEPT !.att = @ + 1, !.pc = "rpm"]
       IN  CASE p.ret = "ok" /\ p.http = 200 ->
                  prl' = rl_reset_429(prl) /\ provider_driver_complete(t, c, "ok")
             [] p.http = 429 ->
                  /\ prl' = rl_record_429(prl)
                  /\ IF c.att + 1 < max THEN Call(t, next) /\ UNCHANGED plat
                     ELSE provider_driver_complete(t, c, provider_http_err_map(429, "IO"))
             [] p.http = 500 /\ c.att < max - 1 -> Call(t, next) /\ UNCHANGED <<prl, plat>>
             [] OTHER ->
                  /\ provider_driver_complete(t, c, provider_http_err_map(p.http, "IO"))
                  /\ UNCHANGED prl
    /\ UNCHANGED <<pkey, psecret, ptmo, pspan>>

\* provider_driver_complete_stream: the error, or the collected tool calls and the verdict.
provider_driver_complete_stream(t, c, ret) ==
    IF ret # "ok"
    THEN Call(t, Finish(c, provider_http_err_map(c.http, ret))) /\ UNCHANGED plat
    ELSE /\ plat' = prov_stat_lat(plat, 1)
         /\ Call(t, Finish([c EXCEPT !.out = @ \o provider_tool_json(c.acc.tools)],
                           stream_integrity(c.acc.fin)))

\* provider_stream_post after the transfers, then the driver: the rest of the line buffer,
\* the transport error, the status, the [DONE] sentinel, the finish reason.
provider_stream_post(t) ==
    /\ pcall[t].pc = "posted" /\ pjob[t].stream
    /\ LET c   == [sse_process_buffer(pjob[t].fmt, pcall[t]) EXCEPT !.http = pcall[t].code]
           ret == CASE c.res # "ok" -> curl_fail(c.res)
                    [] c.code >= 400 -> http_fail(c.code)
                    [] pjob[t].fmt # "messages" /\ ~c.done -> "STREAM_UNDONE"
                    [] OTHER -> "ok"
       IN  provider_driver_complete_stream(t, c, ret)
    /\ UNCHANGED <<prl, pkey, psecret, ptmo, pspan>>

\* The rate limiter's minute goes by.
rpm_window(n) ==
    /\ pspan < PMaxSpan /\ pspan' = n /\ n = pspan + 1
    /\ prl' = [prl EXCEPT !.old = TRUE]
    /\ UNCHANGED <<pjob, pcall, pkey, psecret, plat, ptmo>>

\* secrets.env or the environment is given another key.
key_rotated(n) ==
    /\ pspan < PMaxSpan /\ pspan' = n /\ n = pspan + 1
    /\ psecret' \in PKeys \ {psecret}
    /\ UNCHANGED <<pjob, pcall, prl, pkey, plat, ptmo>>

PNext ==
    \/ \E t \in PThr :
         \/ provider_refresh_api_key(t) \/ key_copied(t) \/ provider_headers_build(t)
         \/ rl_check_rpm(t) \/ http_try(t)
         \/ sse_write_callback(t) \/ sse_try(t) \/ provider_retry_run(t)
         \/ exec_post(t) \/ provider_http_request_with_retry(t) \/ provider_stream_post(t)
    \/ \E n \in 1..PMaxSpan : rpm_window(n) \/ key_rotated(n)

PSpec == PInit /\ [][PNext]_pVars

----------------------------------------------------------------------------
(* Properties *)

\* What an uncut stream of a format says, read without buffers, retries or slots: its texts
\* in order, and for every tool index the concatenation of its argument fragments.
StreamText(fmt) ==
    LET evs == SelectSeq(PBody[fmt], LAMBDA e : e.k = "text")
    IN  [i \in DOMAIN evs |-> evs[i].x]

ToolArgs(fmt, index) ==
    FoldLeft(LAMBDA a, e : IF e.k \in {"tool", "args"} /\ e.index = {index} THEN a \o e.args ELSE a,
             <<>>, PBody[fmt])

\* One post never puts a request that is not idempotent on the wire twice: what the server
\* may already be generating is not asked for again (retry.c).  The client of a stream never
\* sees a piece of text twice or out of order, whatever was cut, retried or split over
\* transfers; and a stream reported complete handed over every text and, for every tool
\* call, exactly the fragments of its own index (sse.c).
TransferHolds ==
    /\ \A t \in PThr : ~pjob[t].idem => pcall[t].sent <= 1
    /\ \A t \in {u \in PThr : pjob[u].stream} :
         LET c == pcall[t]
         IN  /\ IsPrefix(c.acc.text, StreamText(pjob[t].fmt))
             /\ (c.pc = "done" /\ c.ret = "ok") =>
                  /\ c.acc.text = StreamText(pjob[t].fmt)
                  /\ \A k \in DOMAIN c.acc.tools :
                       c.acc.tools[k].args = ToolArgs(pjob[t].fmt, c.acc.tools[k].index)
=============================================================================
