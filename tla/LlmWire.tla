------------------------------ MODULE LlmWire ------------------------------
(***************************************************************************)
(* llm_d: from the parameters of an RPC to the body on the provider's wire *)
(* (rpc/dispatch.c, providers/core/envelope.c, adapters/messages.c), and   *)
(* from the provider's answer to the JSON that is returned, cached and     *)
(* read back (rpc/response.c).                                             *)
(*                                                                         *)
(* A message is [role, text, dated, calls, ref]: dated when its text holds *)
(* a date, calls the ids of the tool calls it makes, ref the tool call it  *)
(* answers.  A request's other parameters are a record of optional values. *)
(***************************************************************************)
EXTENDS DaemonBase, FiniteSets, SequencesExt

CONSTANTS
    WMsg,           \* messages a client may send
    WOpt,           \* records of the other parameters a client may send
    WCaps,          \* sets of capabilities a provider may declare
    WResp,          \* answers a provider may give
    WMaxMsgs,       \* MAX_MESSAGES_PER_REQUEST
    WMsgTokens      \* MSG_MAX_TOKENS

ASSUME LlmWireAssumption == WMaxMsgs \in Nat \ {0}

VARIABLES
    wconv,      \* the conversation the client sends
    wstable,    \* AIRY_LLM_PREFIX_STABLE is on
    wcfg,       \* the parsed request, or the refusal
    wbody,      \* the body built for each wire format
    wback       \* the response read back from its JSON

wVars == <<wconv, wstable, wcfg, wbody, wback>>

----------------------------------------------------------------------------
(* Parsing the request *)

TimeMsg == [role |-> "system", text |-> "now", dated |-> TRUE, calls |-> <<>>, ref |-> {}]

msg_has_time(msgs) == msgs[1].role = "system" /\ msgs[1].text # "" /\ msgs[1].dated

Refused(why) == [ok |-> FALSE, why |-> why]

\* Time context in front of the messages.
inject_time(msgs) ==
    IF Len(msgs) + 1 > WMaxMsgs THEN Refused("overflow")
    ELSE [ok |-> TRUE, msgs |-> <<TimeMsg>> \o msgs]

\* A plausible slip: the tail message is written over the last slot.
append_time_over(msgs) ==
    [ok |-> TRUE, msgs |-> SubSeq(msgs, 1, MinOf(Len(msgs), WMaxMsgs - 1)) \o <<TimeMsg>>]

\* Time context after the messages, so that the prefix of the prompt does not move.
append_time_tail(msgs) ==
    IF Len(msgs) + 1 > WMaxMsgs THEN Refused("overflow")
    ELSE [ok |-> TRUE, msgs |-> Append(msgs, TimeMsg)]

\* The optional fields are taken when they hold something.
fill_msg(m) == [m EXCEPT !.ref = {r \in m.ref : r # ""}]

fill_msgs(msgs, stable) ==
    LET filled == [i \in DOMAIN msgs |-> fill_msg(msgs[i])]
    IN  CASE msg_has_time(msgs) -> [ok |-> TRUE, msgs |-> filled]
          [] stable             -> append_time_tail(filled)
          [] OTHER              -> inject_time(filled)

parse_messages(msgs, stable) ==
    CASE Len(msgs) = 0       -> Refused("empty")
      [] Len(msgs) > WMaxMsgs -> Refused("overflow")
      [] OTHER               -> fill_msgs(msgs, stable)

\* An absent temperature leaves 0 and temperature_set unset.
parse_sampling(o) ==
    [temp  |-> Opt(o.temp, 0), temp_set |-> o.temp # {},
     max   |-> Opt(o.max, 0), seed |-> Opt(o.seed, 0), grammar |-> o.grammar \ {""},
     think |-> o.think, budget |-> IF o.think = {} THEN 0 ELSE Opt(o.budget, 0),
     slot  |-> o.slot, stop |-> o.stop, stream |-> o.stream]

parse_tools(o) == o.tools

parse_params(msgs, o, stable) ==
    LET m == parse_messages(msgs, stable)
    IN  IF ~m.ok THEN m
        ELSE [ok |-> TRUE, msgs |-> m.msgs, samp |-> parse_sampling(o), tools |-> parse_tools(o)]

----------------------------------------------------------------------------
(* Building the body *)

\* Values are in tenths: an unset temperature is sent as 0.7.
fill_core(s, default_max) ==
    LET max == IF s.max > 0 THEN s.max ELSE default_max
    IN  [temp |-> IF s.temp_set \/ s.temp > 0 THEN s.temp ELSE 7,
         max  |-> {max} \ {0}]

\* A field of a capability the provider does not declare is dropped.
fill_caps(s, caps) ==
    [seed    |-> IF "seed" \in caps THEN {s.seed} \ {0} ELSE {},
     grammar |-> IF "grammar" \in caps THEN s.grammar ELSE {},
     cache   |-> "cache_prompt" \in caps,
     slot    |-> IF "slot_id" \in caps THEN s.slot ELSE {}]

fill_thinking(s, caps) ==
    [enable |-> IF "enable_thinking" \in caps THEN s.think ELSE {},
     budget |-> IF "thinking_budget" \in caps THEN {s.budget} \ {0} ELSE {}]

fill_stop(s) == [stream |-> s.stream, stop |-> s.stop]

provider_request_params_fill(s, caps, default_max) ==
    [core |-> fill_core(s, default_max), caps |-> fill_caps(s, caps),
     thinking |-> fill_thinking(s, caps), stop |-> fill_stop(s)]

msgs_build(msgs) == [i \in DOMAIN msgs |-> msgs[i]]

prov_build_chat(cfg, caps) ==
    [params |-> provider_request_params_fill(cfg.samp, caps, 0),
     usage  |-> cfg.samp.stream,
     tools  |-> cfg.tools,
     msgs   |-> msgs_build(cfg.msgs)]

\* The three shapes of a message in the content-block format.
msg_map_msg(m) ==
    CASE m.ref # {}      -> [role |-> "user", text |-> m.text, use |-> <<>>, result |-> m.ref]
      [] Len(m.calls) > 0 -> [role |-> "assistant", text |-> m.text, use |-> m.calls, result |-> {}]
      [] OTHER           -> [role |-> m.role, text |-> m.text, use |-> <<>>, result |-> {}]

\* System messages leave the array; the last one becomes the top-level system string.
msg_build_request(cfg, caps) ==
    LET sys   == SelectSeq(cfg.msgs, LAMBDA m : m.role = "system")
        turns == SelectSeq(cfg.msgs, LAMBDA m : m.role # "system")
    IN  [params |-> provider_request_params_fill(cfg.samp, caps, WMsgTokens),
         tools  |-> cfg.tools,
         system |-> IF sys = <<>> THEN {} ELSE {sys[Len(sys)].text},
         msgs   |-> [i \in DOMAIN turns |-> msg_map_msg(turns[i])]]

\* adapter.c decides from the request alone whether a repeat is harmless.
req_idem(s) == s.temp = 0 /\ s.seed # 0

----------------------------------------------------------------------------
(* The response as JSON and back *)

usage_add(r) == r.usage

timings_add(r) == {r.timings} \ {0}

cap_add(r) == {r.window} \ {0}

choice_build(c) ==
    [role |-> c.role, content |-> Opt(c.content, ""),
     reasoning |-> c.reasoning \ {""}, calls |-> c.calls]

response_to_json(r) ==
    [id |-> r.id, model |-> r.model, top |-> usage_add(r), usage |-> {usage_add(r)},
     timings |-> timings_add(r), finish |-> r.finish, truncated |-> r.finish = {"length"},
     capacity |-> cap_add(r), choices |-> [i \in DOMAIN r.choices |-> choice_build(r.choices[i])]]

resp_take_usage(j) == Opt(j.usage, j.top)

resp_take_timings(j) == Opt(j.timings, 0)

resp_take_choice(c) ==
    [role |-> c.role, content |-> {c.content}, reasoning |-> c.reasoning, calls |-> c.calls]

resp_take_choices(j) == [i \in DOMAIN j.choices |-> resp_take_choice(j.choices[i])]

\* The capacity written by response_to_json is not read back.
response_from_json(j) ==
    [id |-> j.id, model |-> j.model, usage |-> resp_take_usage(j),
     timings |-> resp_take_timings(j), finish |-> j.finish, window |-> 0,
     choices |-> resp_take_choices(j)]

----------------------------------------------------------------------------
(* The walk: a client composes a conversation and sends it; an answer is   *)
(* turned to JSON for the client and the cache, and read back on a hit.    *)

WInit ==
    /\ wconv = <<>>
    /\ wstable \in BOOLEAN
    /\ wcfg = Refused("none")
    /\ wbody = {}
    /\ wback = {}

client_says(m) ==
    /\ wcfg = Refused("none") /\ Len(wconv) <= WMaxMsgs
    /\ wconv' = Append(wconv, m)
    /\ UNCHANGED <<wstable, wcfg, wbody, wback>>

handle_params(o, caps) ==
    /\ wcfg = Refused("none")
    /\ LET cfg == parse_params(wconv, o, wstable)
       IN  /\ wcfg' = cfg
           /\ wbody' = IF ~cfg.ok THEN {}
                       ELSE {[chat |-> prov_build_chat(cfg, caps), messages |-> msg_build_request(cfg, caps)]}
    /\ UNCHANGED <<wconv, wstable, wback>>

cached_reply(r) ==
    /\ wcfg.ok /\ wback = {}
    /\ wback' = {[sent |-> r, got |-> response_from_json(response_to_json(r))]}
    /\ UNCHANGED <<wconv, wstable, wcfg, wbody>>

WNext ==
    \/ \E m \in WMsg : client_says(m)
    \/ \E o \in WOpt, caps \in WCaps : handle_params(o, caps)
    \/ \E r \in WResp : cached_reply(r)

WSpec == WInit /\ [][WNext]_wVars

----------------------------------------------------------------------------
(* Properties *)

Turns(msgs) == SelectSeq(msgs, LAMBDA m : m.role # "system")

\* A request that is accepted carries every turn of the conversation to the wire, in order,
\* in both formats, a tool result still naming its call; a conversation without room for
\* the time context is refused as a whole and never cut (dispatch.c, append_time_tail).
NoTurnLost ==
    \A b \in wbody :
      LET sent == Turns(wconv)
          chat == Turns(b.chat.msgs)
          msgs == b.messages.msgs
      IN  /\ Len(chat) = Len(sent) /\ Len(msgs) = Len(sent)
          /\ \A i \in DOMAIN sent :
               /\ chat[i].text = sent[i].text /\ chat[i].calls = sent[i].calls
               /\ msgs[i].text = sent[i].text
               /\ msgs[i].result = sent[i].ref \ {""}
               /\ sent[i].ref \subseteq {""} => msgs[i].use = sent[i].calls

\* A reply served from the cache is the reply that was stored: text, reasoning, tool calls,
\* finish reason and usage survive response_to_json and response_from_json.
CachedReplyEqual ==
    \A w \in wback :
      /\ \A f \in {"id", "model", "usage", "timings", "finish"} : w.got[f] = w.sent[f]
      /\ \A i \in DOMAIN w.sent.choices :
           /\ w.got.choices[i].calls = w.sent.choices[i].calls
           /\ Opt(w.got.choices[i].content, "") = Opt(w.sent.choices[i].content, "")
           /\ w.got.choices[i].reasoning = w.sent.choices[i].reasoning \ {""}

\* What goes out and what comes back is what was meant: NoTurnLost for the request bodies of
\* dispatch.c and the adapters, CachedReplyEqual for the replies kept as JSON.
WireHolds == NoTurnLost /\ CachedReplyEqual
=============================================================================
