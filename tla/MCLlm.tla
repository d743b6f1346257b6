------------------------------- MODULE MCLlm -------------------------------
(***************************************************************************)
(* llm_d for TLC.  The parts share no variable here, so one run explores   *)
(* each of them in its own instance: `unit' picks the part in the initial  *)
(* state and only that part moves.                                         *)
(***************************************************************************)
EXTENDS LlmRouter, LlmConfig, LlmService, LlmProvider, LlmWire, LlmCost

VARIABLE unit

vars == <<unit, rVars, cVars, sVars, pVars, wVars, lVars>>

-----------------------------------------------------------------------------
(* Router: two endpoints of one provider that tie on priority and cost.    *)
MCConfig == <<"a1", "a2">>
MCProvOf == [a1 |-> "p", a2 |-> "p"]
MCPriority == [a1 |-> 1, a2 |-> 1]
MCCost == [a1 |-> 2, a2 |-> 2]
MCWindow == [a1 |-> 2, a2 |-> 1]

(* Config: files of rows, good and bad, and sections that repeat, extend   *)
(* and override them, in more providers than a table of two holds.         *)
Row(name, prov) ==
    [name |-> name, id |-> "", prov |-> prov, env |-> "", local |-> FALSE, url |-> "", conc |-> 1,
     keysok |-> TRUE, declok |-> TRUE]
Sec(name, models) == [name |-> name, env |-> "K", url |-> "", models |-> models]
File0 == [yaml |-> TRUE, rows |-> <<>>, secs |-> <<>>, llm |-> ""]
MCRow == {Row("m1", "p"), [Row("m2", "q") EXCEPT !.url = "u"], [Row("n", "p") EXCEPT !.keysok = FALSE],
          [Row("", "r") EXCEPT !.id = "m3", !.local = TRUE]}
MCSec == {Sec("p", <<"m1", "m4">>), Sec("q", <<"m5">>), Sec("", <<"m6">>)}
Short(S) == {<<>>} \cup {<<a>> : a \in S} \cup {<<a, b>> : a, b \in S}
MCMain == {[File0 EXCEPT !.rows = r, !.secs = s] : r \in Short(MCRow), s \in Short(MCSec)}
          \cup {[File0 EXCEPT !.rows = <<Row("m1", "p"), Row("m2", "q"), Row("m3", "r"), Row("m4", "p")>>],
                [File0 EXCEPT !.rows = <<Row("m1", "p")>>, !.secs = <<Sec("q", <<"m2">>)>>, !.llm = "m9"]}
          \cup {[File0 EXCEPT !.yaml = FALSE, !.secs = s] : s \in Short(MCSec)}
MCUser == {<<>>, [File0 EXCEPT !.rows = <<Row("m7", "p")>>, !.secs = <<Sec("s", <<"m8">>)>>],
           [File0 EXCEPT !.llm = "m9"]}
MCPairs == MCMain \X MCUser

(* Service: three loads of one or two providers, the first two in auto     *)
(* mode, the last with routing off.                                        *)
Prov1 == [name |-> "p", models |-> <<"m1">>, conc |-> <<1>>]
Prov2 == [name |-> "q", models |-> <<"m2">>, conc |-> <<0>>]
Routing(mode, depth) == [mode |-> mode, depth |-> depth, on |-> {}, deadline |-> {}]
Loaded1(provs, main, user) == [provs |-> provs, err |-> FALSE, def |-> "m1", main |-> main, user |-> user]
MCBoot == << Loaded1(<<Prov1, Prov2>>, Routing({"auto"}, {1}), NoRouting),
             Loaded1(<<Prov2, Prov1>>, Routing({"off"}, {0}), Routing({"auto"}, {})),
             Loaded1(<<Prov1>>, NoRouting, Routing({"off"}, {0})) >>
MCSlots == [p |-> {2}, q |-> {}]
MCSJobs == {[t1 |-> "complete", t2 |-> "complete"], [t1 |-> "emb", t2 |-> "stream"]}

(* Provider: two blocking calls at once, or one call of each wire format;  *)
(* the bodies interleave the fragments of two tool calls.                  *)
Ev(k, x) == [k |-> k, x |-> x, index |-> {}, id |-> "", args |-> x]
Tool(i, id, a) == [k |-> "tool", x |-> "", index |-> i, id |-> id, args |-> a]
Begin(i, id) == [k |-> "begin", x |-> "", index |-> {i}, id |-> id, args |-> ""]
Args(i, a) == [k |-> "args", x |-> "", index |-> {i}, id |-> "", args |-> a]
Lines(s) == FoldLeft(LAMBDA a, x : a \o <<x, Ev("nl", "")>>, <<>>, s)
MCBody ==
    [chat |-> Lines(<<Ev("text", "a"), Tool({0}, "i", <<"p">>), Tool({1}, "j", <<"q">>),
                      Tool({0}, "", <<"r">>), Ev("fin", "stop"), Ev("DONE", "")>>),
     messages |-> Lines(<<Ev("text", "a"), Begin(0, "i"), Begin(1, "j"), Args(1, <<"q">>),
                          Args(0, <<"p">>), Ev("fin", "stop")>>),
     local |-> Lines(<<Ev("text", "a"), Ev("text", "b"), Ev("fin", "length"), Ev("DONE", "")>>)]
Job(f, s, i) == [fmt |-> f, stream |-> s, idem |-> i]
MCJobs ==
    {[t1 |-> Job("chat", FALSE, FALSE), t2 |-> Job("chat", FALSE, TRUE)]}
    \cup {[t1 |-> Job(f, TRUE, i)] : f \in DOMAIN MCBody, i \in BOOLEAN}
    \cup {[t1 |-> Job(f, FALSE, i)] : f \in {"messages", "local"}, i \in BOOLEAN}

(* Wire: conversations of up to three messages.                            *)
Msg(r, t, d, c, f) == [role |-> r, text |-> t, dated |-> d, calls |-> c, ref |-> f]
MCMsg == {Msg("system", "s", FALSE, <<>>, {}), Msg("system", "s", TRUE, <<>>, {}),
          Msg("user", "u", FALSE, <<>>, {}), Msg("assistant", "a", FALSE, <<"c1", "c2">>, {}),
          Msg("tool", "r", FALSE, <<>>, {"c1"}), Msg("tool", "r", FALSE, <<>>, {""})}
NoOpt == [temp |-> {}, max |-> {}, seed |-> {}, grammar |-> {}, think |-> {}, budget |-> {},
          slot |-> {}, stop |-> {}, stream |-> FALSE, tools |-> {}]
MCOpt == {NoOpt, [NoOpt EXCEPT !.seed = {5}, !.temp = {0}, !.stream = TRUE],
          [NoOpt EXCEPT !.think = {TRUE}, !.budget = {4}, !.grammar = {""}, !.tools = {"t"}]}
MCCaps == {{}, {"seed", "grammar", "cache_prompt"}, {"enable_thinking", "thinking_budget", "slot_id"}}
Choice(c, r, t) == [role |-> "assistant", content |-> c, reasoning |-> r, calls |-> t]
MCResp == {[id |-> i, model |-> {"m"}, usage |-> u, timings |-> 2, finish |-> f, window |-> 1, choices |-> c] :
             i \in {{}, {"x"}}, u \in {0, 3}, f \in {{"stop"}, {"length"}},
             c \in {<<>>, <<Choice({}, {""}, <<"c">>), Choice({"t"}, {}, <<"c", "d">>)>>}}

(* Cost: two rule sets that price one model differently.                   *)
MCRules == {<<[pat |-> {"m"}, price |-> 2], [pat |-> {"m", "n"}, price |-> 3]>>,
            <<[pat |-> {"m"}, price |-> 1]>>}

-----------------------------------------------------------------------------
Init ==
    /\ unit \in {"router", "service", "config", "provider", "wire", "cost"}
    /\ RInit /\ CInit /\ SInit /\ PInit /\ WInit /\ LInit
    /\ unit # "provider" => pjob = (CHOOSE j \in PJobs : TRUE) /\ pkey = "k1"
    /\ unit # "config" => cpair = (CHOOSE p \in CPairs : TRUE)
    /\ unit # "service" => sreq["t1"].kind = "emb"
    /\ unit # "wire" => wstable
    /\ unit # "cost" => lrules = (CHOOSE r \in LRules : TRUE)

Next ==
    /\ UNCHANGED unit
    /\ \/ unit = "router" /\ RNext /\ UNCHANGED <<cVars, sVars, pVars, wVars, lVars>>
       \/ unit = "config" /\ CNext /\ UNCHANGED <<rVars, sVars, pVars, wVars, lVars>>
       \/ unit = "service" /\ SNext /\ UNCHANGED <<rVars, cVars, pVars, wVars, lVars>>
       \/ unit = "provider" /\ PNext /\ UNCHANGED <<rVars, cVars, sVars, wVars, lVars>>
       \/ unit = "wire" /\ WNext /\ UNCHANGED <<rVars, cVars, sVars, pVars, lVars>>
       \/ unit = "cost" /\ LNext /\ UNCHANGED <<rVars, cVars, sVars, pVars, wVars>>

Spec == Init /\ [][Next]_vars

=============================================================================
