---------------------------- MODULE AgentStream ----------------------------
(* agent_d's reader of an llm_d answer (agent_run_stream.c).                  *)
(*                                                                            *)
(* llm_d writes text and control frames into one byte stream; a frame is      *)
(* RS tag body RS.  The bytes arrive in payloads cut anywhere.  A byte is a   *)
(* member of a small alphabet: "RS", the tags "T" "R" "U" "E", "L2" and "L3"  *)
(* (the lead byte of a 2- or 3-byte character), "C" (a continuation byte);    *)
(* anything else is a character of one byte.  A frame body is JSON when it    *)
(* starts with "j".  Allocation failure is left out.                          *)
EXTENDS DaemonBase, FiniteSets, SequencesExt

CONSTANTS
    SLists,      \* what llm_d may send: sequences of text and frame items
    SFrameMax    \* AIRY_LLM_STREAM_FRAME_MAX

ASSUME SFrameMaxPositive == SFrameMax \in Nat \ {0}

VARIABLES
    sitems,      \* the items llm_d sends, fixed at the start
    srest,       \* the bytes not yet received
    sst,         \* agent_stream_t
    sdeltas,     \* the increments handed to on_text, in order
    sres         \* agent_stream_result_t once taken: {} or {result}
svars == <<sitems, srest, sst, sdeltas, sres>>

Tags == {"T", "R", "U", "E"}
\* the control frame as llm_d's emitter writes it
Wire(it) == IF it.k = "text" THEN it.b ELSE <<"RS", it.k>> \o it.b \o <<"RS">>

\* mode: "text", "rs" (an RS whose next byte is not read yet), "prev" (that RS
\* ended the payload: prev_rs) or "frame"; seg: text of this payload not yet
\* passed on; dropped: the frame outgrew the limit
agent_stream_init ==
    [mode |-> "text", seg |-> <<>>, text |-> <<>>, sent |-> 0, reason |-> <<>>,
     tag |-> "", frame |-> <<>>, dropped |-> FALSE, tools |-> {}, tokens |-> 0,
     cost |-> 0, error |-> FALSE, out |-> <<>>]

\* how many bytes at the end of s are the start of an unfinished character
run_utf8_tail(s) ==
    LET cont == Max({k \in 0..MinOf(4, Len(s)) : \A i \in 0..(k - 1) : s[Len(s) - i] = "C"})
        c == s[Len(s) - cont]
        need == IF c = "L2" THEN 2 ELSE IF c = "L3" THEN 3 ELSE 1
    IN IF cont = MinOf(4, Len(s)) THEN cont
       ELSE IF cont + 1 < need THEN cont + 1 ELSE 0

\* text joins the answer and its aligned part goes out as one increment
run_emit_text(st, data) ==
    LET text == st.text \o data
        safe == Len(text) - run_utf8_tail(text)
    IN IF data = <<>> THEN st
       ELSE IF safe <= st.sent THEN [st EXCEPT !.text = text]
       ELSE [st EXCEPT !.text = text, !.sent = safe,
                       !.out = Append(@, SubSeq(text, st.sent + 1, safe))]

IsJson(body) == body[1] = "j"
Has(body, b) == \E i \in DOMAIN body : body[i] = b
run_take_tools(st) == IF IsJson(st.frame) THEN [st EXCEPT !.tools = {st.frame}] ELSE st
\* the total, or prompt and completion when there is none; "t", "p", "c", "$"
\* in the body stand for the four number fields
run_take_usage(st) ==
    LET n(b, v) == IF Has(st.frame, b) THEN v ELSE 0
        total == IF Has(st.frame, "t") THEN 9 ELSE n("p", 3) + n("c", 4)
    IN IF ~IsJson(st.frame) THEN st
       ELSE [st EXCEPT !.tokens = IF total > 0 THEN total ELSE @,
                       !.cost = IF Has(st.frame, "$") THEN 1 ELSE @]
\* the whole answer has failed: what was gathered is dropped
run_take_error(st) ==
    [st EXCEPT !.error = TRUE, !.text = <<>>, !.sent = 0, !.reason = <<>>, !.tools = {}]

run_frame_dispatch(st) ==
    LET taken ==
          CASE st.dropped \/ st.frame = <<>> -> st
            [] st.tag = "T" -> run_take_tools(st)
            [] st.tag = "R" -> [st EXCEPT !.reason = @ \o st.frame]
            [] st.tag = "U" -> run_take_usage(st)
            [] st.tag = "E" -> run_take_error(st)
    IN [taken EXCEPT !.mode = "text", !.tag = "", !.frame = <<>>, !.dropped = FALSE]

\* one byte inside a frame
run_frame_drain(st, c) ==
    IF c = "RS" THEN run_frame_dispatch(st)
    ELSE IF ~st.dropped /\ Len(st.frame) + 1 < SFrameMax THEN [st EXCEPT !.frame = Append(@, c)]
    ELSE [st EXCEPT !.dropped = TRUE]

OpenFrame(st, c) == [st EXCEPT !.mode = "frame", !.tag = c]
PassSeg(st) == [run_emit_text(st, st.seg) EXCEPT !.seg = <<>>]
\* one byte of plain text
TextByte(st, c) == IF c = "RS" THEN [st EXCEPT !.mode = "rs"] ELSE [st EXCEPT !.seg = Append(@, c)]

\* one byte of the payload.  A lone RS inside a payload goes out together with
\* the byte after it; one that ended the last payload goes out alone.
FeedByte(st, c) ==
    CASE st.mode = "frame" -> run_frame_drain(st, c)
      [] st.mode = "prev" /\ c \in Tags -> OpenFrame(st, c)
      [] st.mode = "prev" -> TextByte([run_emit_text(st, <<"RS">>) EXCEPT !.mode = "text"], c)
      [] st.mode = "rs" /\ c \in Tags -> OpenFrame(PassSeg(st), c)
      [] st.mode = "rs" -> [run_emit_text(PassSeg(st), <<"RS", c>>) EXCEPT !.mode = "text"]
      [] st.mode = "text" -> TextByte(st, c)

\* a mutant: the RS that ended a payload is forgotten
forgets_rs(st, data) ==
    LET s == PassSeg(FoldLeft(FeedByte, st, data))
    IN IF s.mode = "rs" THEN [s EXCEPT !.mode = "text"] ELSE s

agent_stream_feed(st, data) ==
    LET s == PassSeg(FoldLeft(FeedByte, st, data))
    IN IF s.mode = "rs" THEN [s EXCEPT !.mode = "prev"] ELSE s

\* the stream is over: half a frame is dropped, a waiting RS was text, and the
\* bytes kept back for alignment go out
agent_stream_finish(st) ==
    LET s == IF st.mode = "prev" THEN run_emit_text(st, <<"RS">>) ELSE st
        rest == SubSeq(s.text, s.sent + 1, Len(s.text))
    IN [s EXCEPT !.mode = "text", !.tag = "", !.frame = <<>>, !.dropped = FALSE,
                 !.sent = Len(s.text), !.out = IF rest = <<>> THEN @ ELSE Append(@, rest)]

agent_stream_take(st) ==
    [text |-> st.text, reason |-> st.reason, tools |-> st.tools, tokens |-> st.tokens,
     cost |-> st.cost, error |-> st.error]

-----------------------------------------------------------------------------
SInit ==
    /\ sitems \in SLists
    /\ srest = FlattenSeq([i \in DOMAIN sitems |-> Wire(sitems[i])])
    /\ sst = agent_stream_init
    /\ sdeltas = <<>>
    /\ sres = {}

\* a payload of any length; on_text is called as the bytes are read
agent_stream_on_chunk ==
    /\ sres = {} /\ srest # <<>>
    /\ \E n \in 1..Len(srest) :
         LET s == agent_stream_feed(sst, SubSeq(srest, 1, n))
         IN /\ srest' = SubSeq(srest, n + 1, Len(srest))
            /\ sst' = [s EXCEPT !.out = <<>>]
            /\ sdeltas' = sdeltas \o s.out
    /\ UNCHANGED <<sitems, sres>>

\* the connection closes, after the last byte or before it
stream_ends ==
    /\ sres = {}
    /\ LET s == agent_stream_finish(sst)
       IN /\ sres' = {agent_stream_take(s)}
          /\ sdeltas' = sdeltas \o s.out
          /\ sst' = agent_stream_init
    /\ UNCHANGED <<sitems, srest>>

SNext == agent_stream_on_chunk \/ stream_ends

-----------------------------------------------------------------------------
Frames(t) == SelectSeq(sitems, LAMBDA it : it.k = t /\ it.b # <<>> /\ Len(it.b) < SFrameMax)
Bodies(s) == FlattenSeq([i \in DOMAIN s |-> s[i].b])
Failed == Frames("E") # <<>>
SentText == Bodies(SelectSeq(sitems, LAMBDA it : it.k = "text"))
SentTools == LET ts == SelectSeq(Frames("T"), LAMBDA it : IsJson(it.b))
             IN IF ts = <<>> THEN {} ELSE {Last(ts).b}
\* agent_run_stream.c's promise "sum of the increments = the final text, byte
\* for byte, and the client never gets half a character": however the answer is
\* cut into payloads, a complete one yields exactly the text, the reasoning and
\* the last tool list llm_d sent; the increments add up to the text and none
\* starts inside a character; an error frame makes the answer a failure.
StreamHolds ==
    \A r \in sres :
      /\ ~r.error => FlattenSeq(sdeltas) = r.text
      /\ srest = <<>> /\ ~Failed =>
            /\ r.text = SentText /\ r.tools = SentTools /\ ~r.error
            /\ r.reason = Bodies(Frames("R"))
      /\ srest = <<>> /\ Failed => r.error
      /\ \A i \in DOMAIN sdeltas : sdeltas[i][1] # "C"
=============================================================================
