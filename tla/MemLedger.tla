------------------------------ MODULE MemLedger ------------------------------
(* mem_d: the ledger of a session's context (engine/ledger.c), the planner    *)
(* that shortens it (engine/compress.c) and their handlers.  The ledger holds *)
(* token counts and states; the texts are the caller's, who sends them again  *)
(* to compress.  A text is a sequence of sentences.                           *)
EXTENDS DaemonBase, FiniteSets, SequencesExt

CONSTANTS
    LScripts,       \* what a caller appends, in order: [type, text, tok], tok 0 when it does not count
    LTok,           \* tokens of a sentence
    LInstr,         \* sentences with an instruction word
    LMaxEntries, LMaxTool, LMaxTurns, LMinL2, LBudget, LWarn,
    LCfgs,          \* [l1, l2, gate]: what the configuration switches on
    LCompresses, LMarks  \* bounds: requests of each kind

VARIABLES
    lscript,        \* the caller's work, and what of it is appended
    lat,
    lcfg,
    lsess,          \* the session: [entries, active], entries [id, type, tok, status, ref, text, mark]
    lcount,         \* entry_count of the ledger
    lrep,           \* {} or the answer to the last request
    ln              \* [compress, mark]: requests so far

lvars == <<lscript, lat, lcfg, lsess, lcount, lrep, ln>>

Tokens(t) == LET f[n \in 0..Len(t)] == IF n = 0 THEN 0 ELSE f[n - 1] + LTok[t[n]] IN f[Len(t)]
ActiveSum(es) ==
    LET f[n \in 0..Len(es)] == IF n = 0 THEN 0
                               ELSE f[n - 1] + IF es[n].status = "active" THEN es[n].tok ELSE 0
    IN f[Len(es)]

LInit ==
    /\ lscript \in LScripts /\ lat = 0 /\ lcfg \in LCfgs
    /\ lsess = [entries |-> <<>>, active |-> 0]
    /\ lcount = 0 /\ lrep = {} /\ ln = [compress |-> 0, mark |-> 0]

-----------------------------------------------------------------------------
\* append_fill: a new entry is active and counts its text unless the caller gave a count.
LEntry(id, type, text, tok, ref) ==
    [id |-> id, type |-> type, tok |-> IF tok > 0 THEN tok ELSE Tokens(text),
     status |-> "active", ref |-> ref, text |-> text, mark |-> FALSE]
append_args_ok(n) == lcount + n <= LMaxEntries
append_link(s, new) ==
    LET f[n \in 0..Len(new)] == IF n = 0 THEN s.active ELSE f[n - 1] + new[n].tok
    IN [entries |-> s.entries \o new, active |-> f[Len(new)]]

\* mem_ledger_append: a batch is taken whole or not at all.
mem_ledger_append(new) ==
    \/ /\ append_args_ok(Len(new))
       /\ lsess' = append_link(lsess, new)
       /\ lcount' = lcount + Len(new)
       /\ lrep' = {[op |-> "append", ok |-> TRUE]}
    \/ /\ ~append_args_ok(Len(new))
       /\ lrep' = {[op |-> "append", ok |-> FALSE]}
       /\ UNCHANGED <<lsess, lcount>>
handle_ledger_append ==
    /\ lrep = {} /\ lat < Len(lscript)
    /\ \E n \in 1..MinOf(2, Len(lscript) - lat) :
         LET id == Len(lsess.entries)
             in(i) == lscript[lat + i]
         IN /\ mem_ledger_append([i \in 1..n |-> LEntry(id + i, in(i).type, in(i).text, in(i).tok, 0)])
            /\ lat' = lat + n
    /\ UNCHANGED <<lscript, lcfg, ln>>

\* mem_ledger_mark: a record of the change is appended, outside every limit, and the
\* entry takes the status; the same status again changes nothing.
Found(s, id) == id \in DOMAIN s.entries
mark_one(s, id, st) ==
    LET e == s.entries[id]
        rec == [id |-> Len(s.entries) + 1, type |-> e.type, tok |-> 0, status |-> st,
                ref |-> id, text |-> <<>>, mark |-> TRUE]
    IN IF ~Found(s, id) \/ e.status = st THEN s
       ELSE [s EXCEPT !.entries = Append([@ EXCEPT ![id].status = st], rec)]
session_recalc_active(s) == [s EXCEPT !.active = ActiveSum(s.entries)]
mem_ledger_mark(s, id, st) == session_recalc_active(mark_one(s, id, st))
Updated(s, id, st) == IF Found(s, id) /\ s.entries[id].status # st THEN 1 ELSE 0
handle_ledger_mark ==
    /\ lrep = {} /\ ln.mark < LMarks
    /\ ln' = [ln EXCEPT !.mark = @ + 1]
    /\ \E id \in 1..(Len(lsess.entries) + 1), st \in {"active", "evicted"} :
          /\ lsess' = mem_ledger_mark(lsess, id, st)
          /\ lcount' = lcount + Len(lsess'.entries) - Len(lsess.entries)
          /\ lrep' = {[op |-> "mark", updated |-> Updated(lsess, id, st)]}
    /\ UNCHANGED <<lscript, lat, lcfg>>

\* mem_ledger_window, mem_ledger_budget, mem_ledger_history.
mem_ledger_window == SelectSeq(lsess.entries, LAMBDA e : e.status = "active")
mem_ledger_budget == [used |-> lsess.active, headroom |-> MaxOf(0, LBudget - lsess.active)]
mem_ledger_history(limit) ==
    LET n == Len(lsess.entries)
    IN IF limit > 0 /\ limit < n THEN SubSeq(lsess.entries, n - limit + 1, n) ELSE lsess.entries
handle_ledger_reads ==
    /\ lrep = {}
    /\ \/ lrep' = {[op |-> "window", got |-> mem_ledger_window, warn |-> 10 * lsess.active >= LBudget * LWarn]}
       \/ lrep' = {[op |-> "budget"] @@ mem_ledger_budget}
    /\ UNCHANGED <<lscript, lat, lcfg, lsess, lcount, ln>>
handle_ledger_history ==
    /\ lrep = {}
    /\ \E limit \in {0, 1} : lrep' = {[op |-> "history", got |-> mem_ledger_history(limit)]}
    /\ UNCHANGED <<lscript, lat, lcfg, lsess, lcount, ln>>
ledger_answer_sent ==
    /\ lrep # {} /\ lrep' = {}
    /\ UNCHANGED <<lscript, lat, lcfg, lsess, lcount, ln>>

-----------------------------------------------------------------------------
(* mem_compress_plan over the entries v that the caller sends.                *)
cmp_turns(v) == [i \in DOMAIN v |-> Cardinality({j \in 1..i : v[j].type = "user"})]
cur_user(v) == Max({0} \cup {i \in DOMAIN v : v[i].type = "user"})
cmp_protected(v, i) == v[i].type \in {"system", "tool_def", "cache_hit"} \/ i = cur_user(v)

\* The first turn and the last ones stay; the turns between them are dropped.
l1_drop_turn(v, i) ==
    LET turns == cmp_turns(v)[Len(v)]
        turn == cmp_turns(v)[i]
    IN /\ v[i].type \in {"user", "assistant", "tool_result"}
       /\ turns > LMaxTurns /\ turn > 1
       /\ turn < turns - (IF LMaxTurns > 1 THEN LMaxTurns - 1 ELSE 0) + 1
l1_truncate(v, i) == v[i].type = "tool_result" /\ Tokens(v[i].text) > LMaxTool /\ Len(v[i].text) > 2
\* l1_dedup: the first entry of a text stays, if it is neither protected nor dropped.
dedup_any(v, i) == v[i].text # <<>> /\ ~l1_truncate(v, i) /\ \E j \in 1..(i - 1) : v[j].text = v[i].text
l1_dedup(v, i) ==
    /\ v[i].text # <<>> /\ ~l1_truncate(v, i)
    /\ \E j \in 1..(i - 1) : ~cmp_protected(v, j) /\ ~l1_drop_turn(v, j) /\ v[j].text = v[i].text
cmp_l1(v, i) ==
    CASE cmp_protected(v, i) \/ ~lcfg.l1 -> "none"
      [] l1_drop_turn(v, i) -> "drop"
      [] l1_truncate(v, i) -> "truncate"
      [] l1_dedup(v, i) -> "dedup"
      [] OTHER -> "none"

\* sent_score, top_k, extract_key_sentences: repeated sentences, instructions, the first
\* and the last weigh more; the best two or three stay, in their order.
wordfreq(v, s) == Cardinality({p \in UNION {{i} \X DOMAIN v[i].text : i \in DOMAIN v} : v[p[1]].text[p[2]] = s})
sent_score(v, t, i) == (IF wordfreq(v, t[i]) > 1 THEN 1 ELSE 0) + (IF t[i] \in LInstr THEN 5 ELSE 0)
                       + (IF i = 1 THEN 3 ELSE 0) + (IF i = Len(t) THEN 2 ELSE 0)
top_k(n) == MaxOf(2, MinOf(3, n \div 2))
extract_key_sentences(v, t) ==
    LET sc == [i \in DOMAIN t |-> sent_score(v, t, i)]
        rank(i) == Cardinality({j \in DOMAIN t : sc[j] > sc[i] \/ (sc[j] = sc[i] /\ j < i)})
        picked == {i \in DOMAIN t : rank(i) < top_k(Len(t))}
        nth(k) == CHOOSE i \in picked : Cardinality({j \in picked : j <= i}) = k
    IN IF Len(t) <= 2 THEN t ELSE [k \in 1..Cardinality(picked) |-> t[nth(k)]]
mem_compress_gate_pass == lcfg.gate
\* cmp_l2: only when switched on and let through, and the window is still too large or long.
Saved(v, act) ==
    LET f[i \in 0..Len(v)] ==
            IF i = 0 THEN 0
            ELSE f[i - 1] + CASE act[i] \in {"drop", "dedup"} -> Tokens(v[i].text)
                              [] act[i] = "truncate" -> Tokens(v[i].text) - LMaxTool
                              [] OTHER -> 0
    IN f[Len(v)]
Used(v) == LET f[i \in 0..Len(v)] == IF i = 0 THEN 0 ELSE f[i - 1] + Tokens(v[i].text) IN f[Len(v)]
cmp_l2(v, act1) ==
    /\ lcfg.l2 /\ mem_compress_gate_pass
    /\ \/ 10 * (Used(v) - Saved(v, act1)) >= LBudget * LWarn
       \/ cmp_turns(v)[Len(v)] > LMaxTurns
l2_extract(v, act1, i) ==
    /\ act1[i] = "none" /\ v[i].type \in {"assistant", "user"} /\ i # cur_user(v)
    /\ ~(cmp_turns(v)[i] = 1 /\ v[i].type = "user")
    /\ Tokens(v[i].text) >= LMinL2
    /\ Tokens(extract_key_sentences(v, v[i].text)) < Tokens(v[i].text)
plan_acts(v) ==
    LET act1 == [i \in DOMAIN v |-> cmp_l1(v, i)]
        l2 == cmp_l2(v, act1)
    IN [i \in DOMAIN v |-> IF l2 /\ l2_extract(v, act1, i) THEN "extract" ELSE act1[i]]

\* cmp_build: the context is what stays, shortened entries in their new form.
Piece(v, act, i) ==
    CASE act[i] \in {"drop", "dedup"} -> <<>>
      [] act[i] = "truncate" -> <<v[i].text[1], "cut", v[i].text[Len(v[i].text)]>>
      [] act[i] = "extract" -> extract_key_sentences(v, v[i].text)
      [] OTHER -> v[i].text
cmp_build(v, act) == FlattenSeq([i \in DOMAIN v |-> Piece(v, act, i)])

\* handle_compress: every action marks its entry; the number of entries the LAST mark
\* changed decides whether the context is appended as a block.
StatusOf(a) == CASE a = "drop" -> "evicted" [] a = "dedup" -> "deduped" [] OTHER -> "compressed"
MarkAll(v, acts) ==
    LET todo == SelectSeq([i \in DOMAIN v |-> i], LAMBDA i : acts[i] # "none")
        f[n \in 0..Len(todo)] ==
            IF n = 0 THEN [s |-> lsess, marked |-> 0, first |-> 0]
            ELSE LET st == StatusOf(acts[todo[n]])
                     id == v[todo[n]].id
                     g == f[n - 1]
                 IN [s |-> mem_ledger_mark(g.s, id, st), marked |-> Updated(g.s, id, st),
                     first |-> IF n = 1 THEN id ELSE g.first]
    IN f[Len(todo)]
compress_reply(v, acts, s, block) ==
    [op |-> "compress", view |-> v, acts |-> acts, block |-> block,
     ctx |-> cmp_build(v, acts) # <<>>, full |-> ~append_args_ok(1 + Len(s.entries) - Len(lsess.entries)),
     changed |-> Len(s.entries) - Len(lsess.entries)]
compress_view(v) ==
    LET acts == plan_acts(v)
        m == MarkAll(v, acts)
        ctx == cmp_build(v, acts)
        marks == Len(m.s.entries) - Len(lsess.entries)
        block == m.marked > 0 /\ ctx # <<>> /\ append_args_ok(marks + 1)
        new == LEntry(Len(m.s.entries) + 1, "compressed", ctx, 0, m.first)
    IN /\ lsess' = IF block THEN append_link(m.s, <<new>>) ELSE m.s
       /\ lcount' = lcount + marks + IF block THEN 1 ELSE 0
       /\ lrep' = {compress_reply(v, acts, m.s, block)}
\* The caller sends what the window shows, or everything it ever appended.
CallerSent == SelectSeq(lsess.entries, LAMBDA e : ~e.mark /\ e.type # "compressed")
handle_compress ==
    /\ lrep = {} /\ ln.compress < LCompresses
    /\ ln' = [ln EXCEPT !.compress = @ + 1]
    /\ \E v \in {mem_ledger_window, CallerSent} : v # <<>> /\ compress_view(v)
    /\ UNCHANGED <<lscript, lat, lcfg>>

LNext == \/ handle_ledger_append \/ handle_ledger_mark \/ handle_ledger_reads \/ handle_ledger_history
         \/ ledger_answer_sent \/ handle_compress

-----------------------------------------------------------------------------
(* Whatever appends, marks and compressions come: the active tokens are the   *)
(* sum over the active entries and the count of entries is exact              *)
(* (append_link, session_recalc_active); an entry that is not active has a    *)
(* record of the change after it (mem_ledger_mark); and a compression never   *)
(* touches a system, tool_def or cache_hit entry or the newest user entry,    *)
(* drops nothing of the first or the last turns, rewrites only through the    *)
(* gate, and drops a repeated text only while another copy stays in the       *)
(* context (cmp_protected, l1_drop_turn, l1_dedup, cmp_l2).                   *)
LedgerHolds ==
    /\ lsess.active = ActiveSum(lsess.entries) /\ lcount = Len(lsess.entries)
    /\ \A i \in DOMAIN lsess.entries : (~lsess.entries[i].mark /\ lsess.entries[i].status # "active") =>
          \E j \in (i + 1)..Len(lsess.entries) : lsess.entries[j].mark /\ lsess.entries[j].ref = i
    /\ \A a \in lrep : a.op = "compress" =>
          LET v == a.view
              turn == cmp_turns(v)
          IN \A i \in DOMAIN v :
               /\ a.acts[i] # "none" => /\ v[i].type \notin {"system", "tool_def", "cache_hit"}
                                        /\ i # cur_user(v)
               /\ a.acts[i] = "drop" => turn[i] > 1 /\ turn[i] < turn[Len(v)]
               /\ a.acts[i] = "extract" => lcfg.gate
               /\ a.acts[i] = "dedup" => \E j \in 1..(i - 1) :
                     v[j].text = v[i].text /\ a.acts[j] \notin {"drop", "dedup"}

=============================================================================
