------------------------------ MODULE MemStore ------------------------------
(* mem_d: the record store (core/service.c), its file of one JSON line per    *)
(* record (engine/mem_persist.c), knowledge bases (engine/kb.c), the term     *)
(* vectors search ranks by (engine/vector.c), the optional embedding backend  *)
(* (engine/emb_client.c) and the mem.* handlers.  The daemon answers one      *)
(* request at a time, so a request is interrupted by a crash only; every      *)
(* point where a crash or a failed write leaves another file is a step.       *)
(*                                                                            *)
(* A text is a sequence of tokens: words, Han characters and separators.      *)
EXTENDS DaemonBase, FiniteSets, SequencesExt

CONSTANTS
    MTexts,       \* texts that clients write and search for
    MDocs,        \* documents to ingest: sequences of character widths in bytes
    MHan, MStop,  \* the Han characters and the stop words among the tokens
    MMax,         \* max_records
    MDfMax,       \* distinct terms the document-frequency table takes
    MIds,         \* records ever made (bounds the run)
    MFiles,       \* files the daemon may find when it first starts
    MSetups       \* [emb, ops, full]: a backend is configured; what clients ask; the disk may fill

VARIABLES
    mset,         \* the setup of this run
    mup,          \* the daemon runs
    mpc,          \* where its one request is
    mreq,         \* {} or the request it serves
    mrecs,        \* records: [id, data, kb, emb]
    mindex,       \* record_index: id -> position
    mdf,          \* df_table: term -> documents that hold it
    mfile,        \* mem.jsonl: lines [id, data, kb, utf8, open]; id 0 cannot be parsed
    mbak,         \* {} or mem.jsonl.bak
    mfp,          \* jsonl_append_fp: none, or the file that has the name now or had it
    memb,         \* [healthy, cool]: the backend, and whether its retry time is not over
    mnext,        \* the next record id
    mrep,         \* {} or what the last request answered
    mkept, mgone, \* history: records whose line was written whole; deletes that were answered
    mfail,        \* history: a rewrite of the file has failed
    mleak         \* history: terms counted for a record that was not stored, or not counted

mvars == <<mset, mup, mpc, mreq, mrecs, mindex, mdf, mfile, mbak, mfp, memb, mnext, mrep,
           mkept, mgone, mfail, mleak>>
mmem == <<mrecs, mindex, mdf, memb, mleak>>
mdisk == <<mfile, mbak, mfp, mkept, mgone, mfail>>

MRec(i, d, k) == [id |-> i, data |-> d, kb |-> k, emb |-> FALSE]
MLine(r) == [id |-> r.id, data |-> r.data, kb |-> r.kb, utf8 |-> TRUE, open |-> FALSE]
Cut == [id |-> 0, data |-> <<>>, kb |-> "", utf8 |-> TRUE, open |-> TRUE]
Parsed(f) == SelectSeq(f, LAMBDA l : l.id # 0)
IdsIn(s) == {s[i].id : i \in DOMAIN s}

-----------------------------------------------------------------------------
(* mem_vec_build: the terms of a text.  A word that is no stop word is a      *)
(* term, a Han character is one, and so is a Han character with the one       *)
(* before it; a separator ends a pair, a word in between does not.            *)
LastHan(t) ==
    LET h[i \in 0..Len(t)] == CASE i = 0 -> ""
                                [] i > 0 /\ t[i] \in MHan -> t[i]
                                [] i > 0 /\ t[i] = " " -> ""
                                [] OTHER -> h[i - 1]
    IN h
mem_vec_build(t) ==
    {<<t[i]>> : i \in {j \in DOMAIN t : t[j] # " " /\ t[j] \notin MStop}}
    \cup {<<LastHan(t)[i - 1], t[i]>> : i \in {j \in DOMAIN t : t[j] \in MHan /\ LastHan(t)[j - 1] # ""}}

\* mem_df_add_doc: terms beyond the table's load limit are left out.
Fits(df, ts) == Cardinality({t \in DOMAIN df : df[t] > 0} \cup ts) <= MDfMax
DfOf(df, t) == IF t \in DOMAIN df THEN df[t] ELSE 0
mem_df_add_doc(df, ts) ==
    LET known == {t \in ts : DfOf(df, t) > 0}
        new == IF Fits(df, ts) THEN ts \ known ELSE {}
    IN [t \in DOMAIN df \cup new |-> IF t \in known \cup new THEN DfOf(df, t) + 1 ELSE df[t]]
mem_df_remove_doc(df, ts) ==
    [t \in DOMAIN df |-> IF t \in ts /\ df[t] > 0 THEN df[t] - 1 ELSE df[t]]

\* mem_compute_score and mem_vec_cosine, as counts: places where the query is found,
\* and terms that both have.
mem_compute_score(d, q) ==
    IF q = <<>> THEN 0
    ELSE Cardinality({i \in 0..(Len(d) - Len(q)) : SubSeq(d, i + 1, i + Len(q)) = q})
mem_rec_vec_score(r, q, use_emb) ==
    IF use_emb /\ r.emb THEN 1 ELSE Cardinality(mem_vec_build(q) \cap mem_vec_build(r.data))
Score(r, q, use_emb) == 6 * mem_rec_vec_score(r, q, use_emb) + 4 * mem_compute_score(r.data, q)

mem_rec_in_kb(r, kb) == kb = "" \/ r.kb = kb
\* mem_hits_collect and mem_hits_trim: what scores, best first, equal scores in the
\* order of the array, at most limit.
mem_hits(q, kb, limit, use_emb) ==
    LET s(i) == Score(mrecs[i], q, use_emb)
        in == {i \in DOMAIN mrecs : mem_rec_in_kb(mrecs[i], kb) /\ s(i) > 0}
        rank(i) == 1 + Cardinality({j \in in : s(j) > s(i) \/ (s(j) = s(i) /\ j < i)})
        all == [n \in 1..Cardinality(in) |-> mrecs[CHOOSE i \in in : rank(i) = n]]
    IN SubSeq(all, 1, MinOf(limit, Len(all)))

-----------------------------------------------------------------------------
MInit ==
    /\ mset \in MSetups
    /\ mup = FALSE /\ mpc = "idle" /\ mreq = {}
    /\ mrecs = <<>> /\ mindex = <<>> /\ mdf = <<>>
    /\ mfile \in MFiles
    /\ mbak = {} /\ mfp = "none"
    /\ memb = [healthy |-> TRUE, cool |-> FALSE]
    /\ mnext = 1 + Max({0} \cup IdsIn(mfile))
    /\ mrep = {}
    /\ mkept = IdsIn(Parsed(mfile)) /\ mgone = {} /\ mfail = FALSE /\ mleak = FALSE

\* One request at a time: an answer goes out before the next request.
Free(op) == mup /\ mpc = "idle" /\ mrep = {} /\ op \in mset.ops
Answer1(a) == mrep' = {a} /\ mpc' = "idle" /\ mreq' = {}
answer_sent ==
    /\ mup /\ mrep # {}
    /\ mrep' = {}
    /\ UNCHANGED <<mup, mpc, mreq, mnext, mmem, mdisk>>

\* mem_persist_repair_utf8: lines an older version cut in the middle of a character
\* are repaired in place, after a copy of the whole file was made.
NeedsRepair == \E i \in DOMAIN mfile : ~mfile[i].utf8
Repaired(f) == [i \in DOMAIN f |-> [f[i] EXCEPT !.utf8 = TRUE]]
repair_backs_up ==
    /\ ~mup /\ mpc = "idle" /\ NeedsRepair
    /\ \/ mbak' = {mfile} /\ mpc' = "repair"
       \/ UNCHANGED mbak /\ mpc' = "load"
    /\ UNCHANGED <<mup, mreq, mfile, mfp, mkept, mgone, mfail, mnext, mrep, mmem>>
mem_persist_repair_utf8 ==
    /\ mpc = "repair"
    /\ \/ mfile' = Repaired(mfile)
       \/ UNCHANGED mfile
    /\ mpc' = "load"
    /\ UNCHANGED <<mup, mreq, mbak, mfp, mkept, mgone, mfail, mnext, mrep, mmem>>

\* mem_load_lines, mem_record_decode: each line that can be parsed, up to max_records.
LoadedRecs(f) ==
    LET ok == Parsed(f)
        take == SubSeq(ok, 1, MinOf(Len(ok), MMax))
    IN [i \in DOMAIN take |-> MRec(take[i].id, take[i].data, take[i].kb)]
DfAfter(rs) ==
    LET f[n \in 0..Len(rs)] == IF n = 0 THEN <<>>
                               ELSE mem_df_add_doc(f[n - 1], mem_vec_build(rs[n].data))
    IN f[Len(rs)]
IndexOf(rs) == [i \in IdsIn(rs) |-> CHOOSE n \in DOMAIN rs : rs[n].id = i]
mem_service_create ==
    /\ ~mup
    /\ mpc = "load" \/ (mpc = "idle" /\ ~NeedsRepair)
    /\ mup' = TRUE /\ mpc' = "idle"
    /\ mrecs' = LoadedRecs(mfile)
    /\ mindex' = IndexOf(mrecs')
    /\ mdf' = DfAfter(mrecs')
    /\ mleak' = (mdf' # [t \in UNION {mem_vec_build(mrecs'[i].data) : i \in DOMAIN mrecs'} |->
                           Cardinality({i \in DOMAIN mrecs' : t \in mem_vec_build(mrecs'[i].data)})])
    /\ memb' = [healthy |-> TRUE, cool |-> FALSE]
    /\ mfp' = "none"
    /\ UNCHANGED <<mreq, mfile, mbak, mkept, mgone, mfail, mnext, mrep>>

-----------------------------------------------------------------------------
(* mem_service_write in steps: the record in memory, its line, its embedding. *)
\* Takes the record, unless the store is full or the index refuses it; a refused
\* record's terms stay counted.
Stored(d, kb, put) ==
    LET ts == mem_vec_build(d)
    IN /\ mdf' = mem_df_add_doc(mdf, ts)
       /\ mleak' = (mleak \/ ~put \/ ~Fits(mdf, ts))
       /\ IF put
          THEN /\ mrecs' = Append(mrecs, MRec(mnext, d, kb))
               /\ mindex' = mindex @@ (mnext :> Len(mrecs) + 1)
          ELSE UNCHANGED <<mrecs, mindex>>

\* mem_persist_append_record: opens the file when it is not open; the line is written
\* whole, not at all, or in part.  A line after an unfinished one is glued to it.
Glued(f, l) ==
    IF f # <<>> /\ Last(f).open THEN Append(Front(f), [Cut EXCEPT !.open = l.open])
    ELSE Append(f, l)
mem_persist_append_record(r, wrote) ==
    /\ mfp' = IF mfp = "none" /\ wrote # "closed" THEN "current" ELSE mfp
    /\ mfile' = IF mfp = "stale" THEN mfile
                ELSE CASE wrote = "all" -> Glued(mfile, MLine(r))
                       [] wrote = "part" -> Glued(mfile, Cut)
                       [] wrote = "unended" -> Glued(mfile, [MLine(r) EXCEPT !.open = TRUE])
                       [] OTHER -> mfile
    /\ mkept' = IF wrote = "all" /\ (mfile = <<>> \/ ~Last(mfile).open) THEN mkept \cup {r.id} ELSE mkept
    /\ UNCHANGED <<mgone, mfail>>

write_appends ==
    /\ mup /\ mpc = "append"
    /\ \E wrote \in {"all"} \cup IF mset.full THEN {"none", "part", "unended", "closed"} ELSE {} :
          mem_persist_append_record(mrecs[Len(mrecs)], wrote)
    /\ mpc' = "embed"
    /\ UNCHANGED <<mup, mreq, mbak, mnext, mrep, mmem>>

\* mem_emb_should_try, mem_emb_embed, mem_rec_embed: only when the backend is well or
\* its retry time is over; a failure marks it and the record keeps its terms.
mem_emb_should_try == mset.emb /\ (memb.healthy \/ ~memb.cool)
mem_emb_embed(ok) == memb' = IF ok THEN [memb EXCEPT !.healthy = TRUE]
                             ELSE [healthy |-> FALSE, cool |-> TRUE]
WriteDone ==
    \A q \in mreq : IF q.op = "kb_ingest" THEN mpc' = "chunk" /\ UNCHANGED <<mreq, mrep>>
                    ELSE Answer1([op |-> q.op, ok |-> TRUE])
mem_rec_embed ==
    /\ mup /\ mpc = "embed"
    /\ \/ /\ mem_emb_should_try
          /\ \E ok \in BOOLEAN :
                /\ mem_emb_embed(ok)
                /\ mrecs' = IF ok THEN [mrecs EXCEPT ![Len(mrecs)].emb = TRUE] ELSE mrecs
       \/ ~mem_emb_should_try /\ UNCHANGED <<memb, mrecs>>
    /\ WriteDone
    /\ UNCHANGED <<mup, mindex, mdf, mleak, mnext, mdisk>>
retry_time_over ==
    /\ mup /\ memb.cool
    /\ memb' = [memb EXCEPT !.cool = FALSE]
    /\ UNCHANGED <<mup, mpc, mreq, mrecs, mindex, mdf, mleak, mnext, mrep, mdisk>>

\* Starts one write; answers at once when it is refused.
Writes(q, d, kb, failed) ==
    /\ mnext \in MIds
    /\ mreq' = {q}
    /\ \/ /\ Len(mrecs) < MMax
          /\ \E put \in BOOLEAN :
                /\ Stored(d, kb, put)
                /\ mpc' = IF put THEN "append" ELSE failed
                /\ mnext' = mnext + 1
       \/ Len(mrecs) >= MMax /\ mpc' = failed /\ UNCHANGED <<mrecs, mindex, mdf, mleak, mnext>>
    /\ UNCHANGED <<mup, mrep, mdisk>>
write_fails ==
    /\ mup /\ mpc = "fail"
    /\ \A q \in mreq : Answer1([op |-> q.op, ok |-> FALSE])
    /\ UNCHANGED <<mup, mnext, mmem, mdisk>>

handle_write ==
    /\ Free("write")
    /\ \E d \in MTexts : Writes([op |-> "write"], d, "", "fail")
    /\ UNCHANGED memb

-----------------------------------------------------------------------------
(* mem_remove_record_at: the last record takes the place of the removed one.  *)
RemovedAt(s, n) == IF n = Len(s) THEN Front(s) ELSE Front([s EXCEPT ![n] = Last(s)])
Now == [recs |-> mrecs, index |-> mindex, df |-> mdf]
mem_remove_record_at(g, n) ==
    LET gone == [i \in DOMAIN g.index \ {g.recs[n].id} |-> g.index[i]]
    IN [recs |-> RemovedAt(g.recs, n),
        index |-> IF n = Len(g.recs) THEN gone ELSE [gone EXCEPT ![Last(g.recs).id] = n],
        df |-> mem_df_remove_doc(g.df, mem_vec_build(g.recs[n].data))]

\* mem_persist_rewrite_all: closes the append handle, writes every record to a side
\* file and renames it over the file; when that fails the file stays as it was.
rewrite_keeps_handle ==
    /\ mup /\ mpc = "rewrite"
    /\ \/ /\ mfile' = [i \in DOMAIN mrecs |-> MLine(mrecs[i])]
          /\ mfp' = IF mfp = "none" THEN "none" ELSE "stale"
          /\ mkept' = mkept \cup IdsIn(mrecs)
          /\ UNCHANGED mfail
       \/ mset.full /\ mfail' = TRUE /\ UNCHANGED <<mfile, mfp, mkept>>
    /\ \A q \in mreq : mgone' = mgone \cup q.ids /\ Answer1([op |-> q.op, ok |-> TRUE])
    /\ UNCHANGED <<mup, mbak, mnext, mmem>>
mem_persist_rewrite_all ==
    /\ mup /\ mpc = "rewrite"
    /\ mfp' = "none"
    /\ \/ /\ mfile' = [i \in DOMAIN mrecs |-> MLine(mrecs[i])]
          /\ mkept' = mkept \cup IdsIn(mrecs)
          /\ UNCHANGED mfail
       \/ mset.full /\ mfail' = TRUE /\ UNCHANGED <<mfile, mkept>>
    /\ \A q \in mreq : mgone' = mgone \cup q.ids /\ Answer1([op |-> q.op, ok |-> TRUE])
    /\ UNCHANGED <<mup, mbak, mnext, mmem>>

Deletes(q, gone, after) ==
    /\ mrecs' = after.recs /\ mindex' = after.index /\ mdf' = after.df
    /\ mkept' = mkept \ gone
    /\ mreq' = {[op |-> q, ids |-> gone]} /\ mpc' = "rewrite"
    /\ UNCHANGED <<mup, memb, mleak, mfile, mbak, mfp, mgone, mfail, mnext, mrep>>

handle_delete ==
    /\ Free("delete")
    /\ \E i \in 1..(mnext - 1) :
          \/ /\ i \notin DOMAIN mindex
             /\ Answer1([op |-> "delete", ok |-> FALSE])
             /\ UNCHANGED <<mup, mnext, mmem, mdisk>>
          \/ /\ i \in DOMAIN mindex
             /\ Deletes("delete", {i}, mem_remove_record_at(Now, mindex[i]))

\* mem_service_get, mem_service_recent, mem_service_search: answers, in the store's
\* own words; a search may ask the backend first.
mem_service_get(i) ==
    IF i \in DOMAIN mindex /\ mindex[i] <= Len(mrecs) THEN {mrecs[mindex[i]]} ELSE {}
mem_service_recent(limit) ==
    LET n == Len(mrecs) IN [k \in 1..MinOf(limit, n) |-> mrecs[n + 1 - k]]
Recs(s) == [i \in DOMAIN s |-> <<s[i].id, s[i].data>>]
mem_rank_open(use_emb) ==
    \/ mem_emb_should_try /\ mem_emb_embed(use_emb)
    \/ ~mem_emb_should_try /\ ~use_emb /\ UNCHANGED memb
handle_reads ==
    /\ Free("read")
    /\ \/ /\ \E i \in 1..(mnext - 1) :
                Answer1([op |-> "get", id |-> i, got |-> Recs(SetToSeq(mem_service_get(i)))])
          /\ UNCHANGED memb
       \/ /\ \E limit \in {1, 2} : Answer1([op |-> "recent", got |-> Recs(mem_service_recent(limit))])
          /\ UNCHANGED memb
       \/ \E q \in MTexts, kb \in {"", "kb"}, use_emb \in BOOLEAN :
             /\ mem_rank_open(use_emb)
             /\ Answer1([op |-> "search", kb |-> kb, got |-> Recs(mem_hits(q, kb, 1, use_emb))])
    /\ UNCHANGED <<mup, mrecs, mindex, mdf, mleak, mnext, mdisk>>

\* handle_evolve: the best hits for a query, or one record, written again as a new one.
hits_merge(hits) == FlattenSeq([i \in DOMAIN hits |-> hits[i].data])
Evolves(d) ==
    IF d = <<>>
    THEN Answer1([op |-> "evolve", ok |-> FALSE]) /\ UNCHANGED <<mup, mrecs, mindex, mdf, mleak, mnext, mdisk>>
    ELSE Writes([op |-> "evolve"], d, "", "fail")
handle_evolve ==
    /\ Free("evolve")
    /\ \/ \E q \in MTexts, use_emb \in BOOLEAN :
             /\ mem_rank_open(use_emb)
             /\ Evolves(hits_merge(mem_hits(q, "", 2, use_emb)))
       \/ /\ \E i \in 1..(mnext - 1) : Evolves(hits_merge(SetToSeq(mem_service_get(i))))
          /\ UNCHANGED memb

-----------------------------------------------------------------------------
(* Knowledge bases: a document is written chunk by chunk.  The bytes of a     *)
(* document are positions; a character takes one or more of them.             *)
CharStarts(doc) ==
    LET s[i \in 1..(Len(doc) + 1)] == IF i = 1 THEN 0 ELSE s[i - 1] + doc[i - 1]
    IN {s[i] : i \in 1..Len(doc)}
DocLen(doc) == LET s[i \in 0..Len(doc)] == IF i = 0 THEN 0 ELSE s[i - 1] + doc[i] IN s[Len(doc)]
\* mem_kb_chunk_len: backs off to the start of a character.
mem_kb_chunk_len(doc, off, chunk) ==
    IF off + chunk >= DocLen(doc) THEN DocLen(doc) - off
    ELSE Max({p \in off..(off + chunk) : p = off \/ p \in CharStarts(doc)}) - off
ChunkText == <<"k">>

handle_kb_ingest ==
    /\ Free("kb")
    /\ \E doc \in MDocs, chunk \in {2, 3} :
          mreq' = {[op |-> "kb_ingest", doc |-> doc, chunk |-> chunk, off |-> 0]}
    /\ mpc' = "chunk"
    /\ UNCHANGED <<mup, mnext, mrep, mmem, mdisk>>
mem_service_kb_ingest ==
    /\ mup /\ mpc = "chunk"
    /\ \A q \in mreq :
         LET n == mem_kb_chunk_len(q.doc, q.off, q.chunk)
         IN IF q.off < DocLen(q.doc) /\ n > 0
            THEN Writes([q EXCEPT !.off = q.off + n], ChunkText, "kb", "fail") /\ UNCHANGED memb
            ELSE /\ Answer1([op |-> "kb_ingest", ok |-> TRUE, off |-> q.off, doc |-> q.doc, chunk |-> q.chunk])
                 /\ UNCHANGED <<mup, mnext, mmem, mdisk>>

\* mem_service_kb_delete: looks at a place again after it was filled from the end.
KbSwept(kb) ==
    LET f[n \in 0..Len(mrecs)] ==
            IF n = 0 THEN [at |-> 1] @@ Now
            ELSE LET g == f[n - 1]
                 IN IF g.recs[g.at].kb = kb
                    THEN mem_remove_record_at(g, g.at) @@ [at |-> g.at]
                    ELSE [g EXCEPT !.at = g.at + 1]
    IN f[Len(mrecs)]
handle_kb_delete ==
    /\ Free("kb")
    /\ LET in == {mrecs[i].id : i \in {j \in DOMAIN mrecs : mrecs[j].kb = "kb"}}
       IN IF in = {}
          THEN Answer1([op |-> "kb_delete", ok |-> TRUE]) /\ UNCHANGED <<mup, mnext, mmem, mdisk>>
          ELSE Deletes("kb_delete", in, KbSwept("kb"))

mem_service_kb_list == {mrecs[i].kb : i \in {j \in DOMAIN mrecs : mrecs[j].kb # ""}}
handle_kb_list ==
    /\ Free("kb")
    /\ Answer1([op |-> "kb_list", kbs |-> mem_service_kb_list])
    /\ UNCHANGED <<mup, mnext, mmem, mdisk>>

-----------------------------------------------------------------------------
(* The process ends: at rest through mem_service_destroy, or in the middle of *)
(* a step of the above.  A line being appended may be left unfinished, a      *)
(* repair half written; a rewrite not yet renamed leaves nothing.             *)
Forgets ==
    /\ mup' = FALSE /\ mpc' = "idle" /\ mreq' = {} /\ mrep' = {}
    /\ mrecs' = <<>> /\ mindex' = <<>> /\ mdf' = <<>> /\ mleak' = FALSE
    /\ mfp' = "none"
    /\ UNCHANGED <<memb, mnext>>
mem_service_destroy ==
    /\ mup /\ Forgets
    /\ UNCHANGED <<mfile, mbak, mkept, mgone, mfail>>
crash_in_append ==
    /\ mup /\ mpc = "append" /\ Forgets
    /\ \E wrote \in {"part", "unended"} :
          mfile' = Glued(mfile, IF wrote = "part" THEN Cut
                                ELSE [MLine(mrecs[Len(mrecs)]) EXCEPT !.open = TRUE])
    /\ UNCHANGED <<mbak, mkept, mgone, mfail>>
crash_in_repair ==
    /\ mpc = "repair" /\ Forgets
    /\ \E n \in 0..(Len(mfile) - 1) :
          /\ mfile' = SubSeq(Repaired(mfile), 1, n)
          /\ mkept' = mkept \cap IdsIn(mfile')
    /\ UNCHANGED <<mbak, mgone, mfail>>

MNext == UNCHANGED mset /\
   (\/ repair_backs_up \/ mem_persist_repair_utf8 \/ mem_service_create
    \/ answer_sent \/ handle_write \/ write_appends \/ mem_rec_embed \/ write_fails \/ retry_time_over
    \/ handle_delete \/ mem_persist_rewrite_all \/ handle_reads \/ handle_evolve
    \/ handle_kb_ingest \/ mem_service_kb_ingest \/ handle_kb_delete \/ handle_kb_list
    \/ mem_service_destroy \/ crash_in_append \/ crash_in_repair)

-----------------------------------------------------------------------------
IndexTrue ==
    /\ DOMAIN mindex = IdsIn(mrecs)
    /\ \A i \in DOMAIN mindex : mindex[i] \in DOMAIN mrecs /\ mrecs[mindex[i]].id = i
TermsTrue ==
    \A t \in DOMAIN mdf \cup UNION {mem_vec_build(mrecs[i].data) : i \in DOMAIN mrecs} :
       DfOf(mdf, t) = Cardinality({i \in DOMAIN mrecs : t \in mem_vec_build(mrecs[i].data)})

(* Through removals that move the last record, restarts, and crashes at any   *)
(* point of a request: record_index names every record's place                *)
(* (mem_remove_record_at); the table of terms counts the stored documents,    *)
(* unless it was full or a record was refused after it was counted            *)
(* (mem_service_write); a record whose line was written whole, and that was   *)
(* not glued to an unfinished line before it, can be read back from the file  *)
(* until it is deleted, and no record comes back after its delete was         *)
(* answered, as long as no rewrite of the file failed                         *)
(* (mem_persist_append_record, mem_persist_rewrite_all); and an ingest that   *)
(* answers success stored the whole document, cut between characters, unless  *)
(* a character is wider than the chunk (mem_service_kb_ingest).               *)
StoreHolds ==
    /\ mup => IndexTrue /\ (mleak \/ TermsTrue)
    /\ mfail \/ (/\ mkept \subseteq IdsIn(Parsed(mfile))
                  /\ mgone \cap IdsIn(Parsed(mfile)) = {})
    /\ \A a \in mrep : (a.op = "kb_ingest" /\ a.ok) =>
          /\ a.off \in CharStarts(a.doc) \cup {DocLen(a.doc)}
          /\ a.off = DocLen(a.doc) \/ \E i \in DOMAIN a.doc : a.doc[i] > a.chunk

=============================================================================
