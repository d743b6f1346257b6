----------------------------- MODULE MCAgentMem -----------------------------
(* Small instances of agent_d's run engine, of its stream reader, of the RPC   *)
(* client and of mem_d's parts; one of them runs.                             *)
EXTENDS AgentRun, AgentStream, RpcClient, MemStore, MemCache, MemLedger

CONSTANTS r1, r2, c1, c2
VARIABLE unit

Q == [prompt |-> TRUE, msg0 |-> FALSE, sess |-> "", stream |-> FALSE, model |-> TRUE,
      spec |-> "", file |-> "", hist |-> FALSE]
None == [Q EXCEPT !.prompt = FALSE]
Two(a, b) == (r1 :> a) @@ (r2 :> b)
S == [req |-> Two(Q, None), llm |-> {0, 1}, tool |-> {"success"}, taken |-> {TRUE}, warn |-> {FALSE},
      think |-> {"down"}, cancels |-> 0, leave |-> FALSE]
Streamed(s) == [Q EXCEPT !.stream = TRUE, !.sess = s]
MCASetups ==
  {\* long runs that mem_d compresses
   [S EXCEPT !.llm = {1, 2}, !.warn = BOOLEAN],
   [S EXCEPT !.req = Two([Q EXCEPT !.hist = TRUE], None), !.llm = {1}, !.warn = BOOLEAN, !.taken = BOOLEAN],
   \* one stream with everything that can happen to it
   [S EXCEPT !.req = Two([Streamed("s") EXCEPT !.prompt = FALSE, !.msg0 = TRUE], None), !.llm = {-2, -1, 0, 1},
             !.tool = {"success", "failed", "unreachable", "garbage"}, !.think = {"down", "ask"}, !.cancels = 1, !.leave = TRUE],
   \* a plan that works, and one that does not
   [S EXCEPT !.req = Two(Streamed("s"), None), !.llm = {-1, 0, 1}, !.think = {"plan", "noplan", "notobject"}, !.cancels = 1],
   \* two runs of one session, and of sessions of their own
   [S EXCEPT !.req = Two(Streamed("s"), Streamed("s")), !.llm = {0}, !.cancels = 2],
   [S EXCEPT !.req = Two(Streamed(""), Q), !.llm = {0}, !.cancels = 1],
   \* orchestrated runs, and one without a model
   [S EXCEPT !.req = Two([Streamed("s") EXCEPT !.spec = "object"], [Q EXCEPT !.file = "role"]), !.cancels = 1],
   [S EXCEPT !.req = Two([Streamed("s") EXCEPT !.spec = "notobject"], [Streamed("s") EXCEPT !.model = FALSE]),
             !.cancels = 1]}
MCLong == {[S EXCEPT !.llm = {1}, !.warn = {TRUE}]}

Tx(b) == [k |-> "text", b |-> b]
Fr(t, b) == [k |-> t, b |-> b]
MCSLists ==
  {<<Tx(<<"a", "L3", "C", "C", "L2", "C">>), Fr("T", <<"j", "x">>), Fr("U", <<"j", "t", "$">>)>>,
   <<Fr("R", <<"q">>), Tx(<<"T", "RS", "a">>), Fr("R", <<"q", "q">>), Tx(<<"b">>), Fr("U", <<"j", "p", "c">>)>>,
   <<Fr("T", <<"j">>), Fr("T", <<"x">>), Tx(<<"a", "RS", "L2", "C", "T">>), Fr("T", <<"j", "j", "j", "j", "j">>)>>,
   <<Tx(<<"L2", "C">>), Fr("U", <<"x">>), Fr("R", <<>>), Fr("E", <<"j">>), Tx(<<"a">>)>>}

RQ == [calls |-> 1, target |-> "t", method |-> "m", stream |-> FALSE, token |-> FALSE, len |-> 2, body |-> 0]
RNone == [RQ EXCEPT !.calls = 0]
RTwo(a, b) == (c1 :> a) @@ (c2 :> b)
MCRSetups ==
  {RTwo(RQ, [RQ EXCEPT !.len = 1, !.body = 1]),
   RTwo([RQ EXCEPT !.calls = 4, !.len = 1], RNone),
   RTwo([RQ EXCEPT !.len = 1], [RQ EXCEPT !.target = "u", !.len = 1, !.body = -32601]),
   RTwo([RQ EXCEPT !.token = TRUE, !.len = 1], RQ),
   RTwo(RNone, [RQ EXCEPT !.len = 3]),
   RTwo([RQ EXCEPT !.stream = TRUE, !.method = "complete_stream"], RNone)}
MCRCancel == {RTwo([RQ EXCEPT !.token = TRUE], RQ)}
MCRTmo == "complete_stream" :> 2

MCTexts == {<<"a", "of", "b">>, <<"H", "b", "J">>}
MCDocs == {<<1, 3, 1>>, <<1, 1, 1, 2>>}
MCLn(i, u) == [id |-> i, data |-> <<"a">>, kb |-> "", utf8 |-> u, open |-> FALSE]
MCFiles == {<<>>, <<MCLn(1, TRUE), MCLn(2, FALSE)>>}
MCIds == 1..3
MCSetups == {[emb |-> FALSE, ops |-> {"write", "delete"}, full |-> TRUE],
             [emb |-> TRUE, ops |-> {"write", "evolve", "read"}, full |-> FALSE],
             [emb |-> FALSE, ops |-> {"kb", "delete"}, full |-> TRUE]}

MCCTexts == {<<"x", "y">>, <<"y", "x">>, <<"z">>, <<"key">>}
MCModels == {<<"m">>}
MCCSecret == {<<"key">>}
MCCHash == [t \in MCCTexts |-> IF t = <<"z">> THEN 1 ELSE 0]

U == [type |-> "user", text |-> <<"p">>, tok |-> 0]
T == [type |-> "tool_result", text |-> <<"p", "q", "r">>, tok |-> 0]
Y(t) == [type |-> t, text |-> <<"q">>, tok |-> 2]
MCScripts == {<<Y("system"), U, T, [type |-> "assistant", text |-> <<"p", "r", "q", "p">>, tok |-> 0], T, U>>,
              <<U, Y("cache_hit"), U, Y("assistant"), U, Y("assistant"), Y("assistant")>>}
MCTok == [s \in {"p", "q", "r", "cut"} |-> IF s = "r" THEN 3 ELSE 1]
MCLCfgs == {[l1 |-> TRUE, l2 |-> FALSE, gate |-> FALSE], [l1 |-> TRUE, l2 |-> TRUE, gate |-> TRUE],
            [l1 |-> FALSE, l2 |-> TRUE, gate |-> FALSE]}

MCInit ==
    /\ unit \in {"run", "stream", "rpc", "store", "cache", "ledger"}
    /\ AInit /\ SInit /\ RInit /\ MInit /\ CInit /\ LInit
    /\ unit # "run" => aset = CHOOSE x \in ASetups : TRUE
    /\ unit # "stream" => sitems = CHOOSE x \in SLists : TRUE
    /\ unit # "rpc" => rset = (CHOOSE x \in RSetups : TRUE) /\ rup
    /\ unit # "store" => mset = (CHOOSE x \in MSetups : TRUE) /\ mfile = <<>>
    /\ unit # "ledger" => lscript = (CHOOSE x \in LScripts : TRUE) /\ lcfg = CHOOSE x \in LCfgs : TRUE
MCNext ==
    /\ UNCHANGED unit
    /\ \/ unit = "run" /\ ANext /\ UNCHANGED <<svars, rvars, mvars, cvars, lvars>>
       \/ unit = "stream" /\ SNext /\ UNCHANGED <<avars, rvars, mvars, cvars, lvars>>
       \/ unit = "rpc" /\ RNext /\ UNCHANGED <<avars, svars, mvars, cvars, lvars>>
       \/ unit = "store" /\ MNext /\ UNCHANGED <<avars, svars, rvars, cvars, lvars>>
       \/ unit = "cache" /\ CNext /\ UNCHANGED <<avars, svars, rvars, mvars, lvars>>
       \/ unit = "ledger" /\ LNext /\ UNCHANGED <<avars, svars, rvars, mvars, cvars>>
vars == <<unit, avars, svars, rvars, mvars, cvars, lvars>>
Spec == MCInit /\ [][MCNext]_vars
RunSpec == MCInit /\ unit = "run" /\ [][MCNext]_vars
RpcSpec == MCInit /\ unit = "rpc" /\ [][MCNext]_vars
=============================================================================
