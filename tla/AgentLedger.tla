---------------------------- MODULE AgentLedger ----------------------------
(* The messages of one agent run and their map to mem_d's ledger              *)
(* (agent_run_ledger.c).                                                      *)
(*                                                                            *)
(* A conversation g has the messages of the next LLM request, the map items   *)
(* (has a ledger id, entry type, message number), the number of the next      *)
(* message, and how many appends mem_d did not take.  A message has a number, *)
(* its role, the tool calls it makes (assistant) or answers (tool), and the   *)
(* numbers of the messages whose text it holds: its own, or, for a summary,   *)
(* those that were handed to mem.compress.                                    *)
EXTENDS DaemonBase, FiniteSets, SequencesExt

\* the session id is never empty here: the ledger is on
agent_ledger_init == [msgs |-> <<>>, items |-> <<>>, next |-> 1, lost |-> 0]

AddMsg(g, role, calls) ==
    [g EXCEPT !.msgs = Append(@, [n |-> g.next, role |-> role, calls |-> calls, holds |-> {g.next}]),
              !.next = @ + 1]

lg_item_push(g, eid, type, n) == [g EXCEPT !.items = Append(@, [eid |-> eid, type |-> type, n |-> n])]

\* a message mem_d did not take gets no map item
agent_ledger_add(g, type, n, taken) ==
    IF taken THEN lg_item_push(g, TRUE, type, n) ELSE [g EXCEPT !.lost = @ + 1]

\* the last assistant item: it and what follows stay as they are
lg_protect_start(g) ==
    LET as == {j \in DOMAIN g.items : g.items[j].type = "assistant"}
    IN IF as = {} THEN Len(g.items) + 1 ELSE Max(as)

\* what mem.compress is given: the items after the first and before the
\* protected ones that have a ledger id
lg_cand_entries(g, protect) == {g.items[j].n : j \in {k \in 2..(protect - 1) : g.items[k].eid}}

\* a mutant: the last group is not protected, its assistant goes
protects_nothing(g, protect, n) == \E j \in 2..MinOf(protect, Len(g.items)) : g.items[j].n = n

\* what is taken out of the messages: every item in that range
lg_is_candidate(g, protect, n) == \E j \in 2..(protect - 1) : g.items[j].n = n

\* the candidates give way to one summary where the first of them stood; the
\* map keeps the first item, the protected ones and, at the end, the summary
lg_apply(g, protect, entries) ==
    LET gone(m) == lg_is_candidate(g, protect, m.n)
        at == FirstIdx(g.msgs, gone)
        sent == {i \in DOMAIN g.msgs : g.msgs[i].n \in entries}
        summary == [n |-> g.next, role |-> "user", calls |-> {},
                    holds |-> {g.next} \cup UNION {g.msgs[i].holds : i \in sent}]
        keep(m) == ~gone(m)
    IN IF at = 0 THEN g
       ELSE [g EXCEPT !.msgs = SubSeq(@, 1, at - 1) \o <<summary>>
                               \o SelectSeq(SubSeq(@, at, Len(@)), keep),
                      !.items = <<@[1]>> \o SubSeq(@, protect, Len(@))
                                \o <<[eid |-> FALSE, type |-> "user", n |-> g.next]>>,
                      !.next = @ + 1]

\* before each LLM call: mem_d warns about the budget and compresses, or not
agent_ledger_fit(g, warn, compressed) ==
    LET protect == lg_protect_start(g)
        entries == lg_cand_entries(g, protect)
    IN IF warn /\ protect > 2 /\ entries # {} /\ compressed THEN lg_apply(g, protect, entries) ELSE g

\* whether a list of messages keeps tool groups whole: a tool message comes
\* after the assistant message that made its call with only tool messages
\* between, and every call made has its answer
GroupsAreWhole(ms) ==
    /\ \A i \in DOMAIN ms : ms[i].role = "tool" =>
          \E a \in 1..(i - 1) : /\ ms[a].role = "assistant" /\ ms[i].calls \subseteq ms[a].calls
                                /\ \A k \in (a + 1)..i : ms[k].role = "tool"
    /\ \A a \in DOMAIN ms : ms[a].role = "assistant" =>
          \A c \in ms[a].calls : \E i \in DOMAIN ms : ms[i].role = "tool" /\ ms[i].calls = {c}
\* whether the text of every message so far is still there, as itself or inside
\* a summary
TextIsThere(g) == \A n \in 1..(g.next - 1) : \E i \in DOMAIN g.msgs : n \in g.msgs[i].holds
=============================================================================
