------------------------------ MODULE MemCache ------------------------------
(* mem_d: the cache of model replies (engine/cache.c, cache_handlers.c).  A   *)
(* get answers the entry of the same text and model (L0), else the most       *)
(* similar text of the same model (L1).  Texts are sequences of words; the    *)
(* hash chains are one sequence in the order of a scan over the buckets.      *)
EXTENDS DaemonBase, FiniteSets, SequencesExt

CONSTANTS
    CTexts, CModels,
    CSecret,      \* texts that mem_cache_admit refuses
    CHash,        \* text -> bucket
    CMaxEntries, CMaxBytes, CTtls, CDefaultTtl,
    CTime, CPuts, CGets  \* bounds: the clock, entries ever made, and gets

VARIABLES
    centries,     \* the chains: [id, text, model, resp, at, ttl, last, acc, bytes]
    ccount, cbytes, cstat,
    cclk, cnext,
    crep,         \* {} or the answer to the last request
    clatest,      \* history: key -> the response put last; every put brings another one
    cgone         \* history: ids that were deleted

cvars == <<centries, ccount, cbytes, cstat, cclk, cnext, crep, clatest, cgone>>

\* cache_key_build: the text, a bar and the model (their digest, taken as collision-free)
CKey(t, m) == t \o <<"|">> \o m
KeyOf(e) == CKey(e.text, e.model)
CLen(t) == 2 * Len(t) - 1
SumBytes(s) == LET f[n \in 0..Len(s)] == IF n = 0 THEN 0 ELSE f[n - 1] + s[n].bytes IN f[Len(s)]

CInit ==
    /\ centries = <<>> /\ ccount = 0 /\ cbytes = 0
    /\ cstat = [hits |-> 0, misses |-> 0]
    /\ cclk = 0 /\ cnext = 1 /\ crep = {}
    /\ clatest = <<>> /\ cgone = {}

-----------------------------------------------------------------------------
entry_expired(e) == cclk - e.at >= e.ttl

\* entry_find_exact: the first of the chain.
entry_find_exact(es, t, m) == FirstIdx(es, LAMBDA e : KeyOf(e) = CKey(t, m))

\* semantic_score as a fraction: words of one text that the other has, over the rest of
\* both, with the ratio of the lengths.  Repeated words count each time.
semantic_score(a, b) ==
    LET inter == Cardinality({i \in DOMAIN a : \E j \in DOMAIN b : a[i] = b[j]})
        uni == Len(a) + Len(b) - inter
        long == MaxOf(CLen(a), CLen(b))
        short == MinOf(CLen(a), CLen(b))
    IN IF a = <<>> \/ b = <<>> THEN <<0, 1>>
       ELSE <<4 * inter * long + short * uni, 5 * uni * long>>
Less(p, q) == p[1] * q[2] < q[1] * p[2]

\* cache_evict: first what has expired, then the least used, the oldest of those, until
\* both limits are kept.
Unlinked(s, i) == [es |-> DropAt(s.es, i), n |-> s.n - 1, bytes |-> s.bytes - s.es[i].bytes]
SweptTtl(s) ==
    LET live == SelectSeq(s.es, LAMBDA e : ~entry_expired(e))
    IN [es |-> live, n |-> s.n - (Len(s.es) - Len(live)),
        bytes |-> s.bytes - (SumBytes(s.es) - SumBytes(live))]
Worse(e, f) == e.acc < f.acc \/ (e.acc = f.acc /\ e.last < f.last)
Victim(es) == CHOOSE i \in DOMAIN es : /\ \A j \in DOMAIN es : ~Worse(es[j], es[i])
                                       /\ \A j \in 1..(i - 1) : Worse(es[i], es[j])
Over(s) == s.n > CMaxEntries \/ s.bytes > CMaxBytes
cache_evict(s) ==
    LET f[n \in 0..Len(s.es)] ==
            IF n = 0 THEN SweptTtl(s)
            ELSE LET g == f[n - 1]
                 IN IF Over(g) /\ g.es # <<>> THEN Unlinked(g, Victim(g.es)) ELSE g
    IN f[Len(s.es)]
Becomes(s) == centries' = s.es /\ ccount' = s.n /\ cbytes' = s.bytes

-----------------------------------------------------------------------------
\* mem_cache_admit: fail-closed on texts with credentials or private paths.
mem_cache_admit(t) == t # <<>> /\ t \notin CSecret

\* mem_cache_put: replaces the entry of the same key, links the new one at the head of
\* its chain and evicts; the new entry itself may be the victim, and the id is then
\* read from freed memory.
LinkedAt(es, e) ==
    LET h == CHash[e.text]
        n == Cardinality({i \in DOMAIN es : CHash[es[i].text] < h})
    IN SubSeq(es, 1, n) \o <<e>> \o SubSeq(es, n + 1, Len(es))
CHeld == [es |-> centries, n |-> ccount, bytes |-> cbytes]
keeps_old(s, t, m) == s
cache_unlink(s, t, m) == LET i == entry_find_exact(s.es, t, m) IN IF i = 0 THEN s ELSE Unlinked(s, i)
mem_cache_put(t, m, ttl) ==
    LET e == [id |-> cnext, text |-> t, model |-> m, resp |-> cnext, at |-> cclk,
              ttl |-> IF ttl > 0 THEN ttl ELSE CDefaultTtl, last |-> cclk, acc |-> 0,
              bytes |-> CLen(t) + 2]
        old == cache_unlink(CHeld, t, m)
        new == [es |-> LinkedAt(old.es, e), n |-> old.n + 1, bytes |-> old.bytes + e.bytes]
        out == cache_evict(new)
        kept == \E i \in DOMAIN out.es : out.es[i].id = cnext
    IN /\ Becomes(out)
       /\ clatest' = (CKey(t, m) :> cnext) @@ clatest
       /\ \E id \in IF kept THEN {cnext} ELSE {cnext, 0} : crep' = {[op |-> "put", ok |-> TRUE, id |-> id]}
handle_cache_put ==
    /\ cnext <= CPuts /\ crep = {}
    /\ \E t \in CTexts, m \in CModels, ttl \in CTtls, declared \in BOOLEAN :
          \/ /\ declared /\ mem_cache_admit(t)
             /\ mem_cache_put(t, m, ttl)
             /\ cnext' = cnext + 1
          \/ /\ ~(declared /\ mem_cache_admit(t))
             /\ crep' = {[op |-> "put", ok |-> FALSE, id |-> 0]}
             /\ UNCHANGED <<centries, ccount, cbytes, clatest, cnext>>
    /\ UNCHANGED <<cstat, cclk, cgone>>

\* cache_l1: the best unexpired entry of the model, the first of equals, if it reaches the
\* threshold (in hundredths).
cache_l1(t, m, thr) ==
    LET ok == {i \in DOMAIN centries : centries[i].model = m /\ ~entry_expired(centries[i])
                                       /\ semantic_score(t, centries[i].text)[1] > 0}
        sc(i) == semantic_score(t, centries[i].text)
        best == {i \in ok : \A j \in ok : ~Less(sc(i), sc(j)) /\ (j < i => Less(sc(j), sc(i)))}
    IN {i \in best : ~Less(sc(i), <<thr, 100>>)}

\* cache_hit, cache_l0, mem_cache_get: an expired exact entry is removed and is a miss,
\* without a look at similar texts.
CHit(i, exact, t, m) ==
    /\ centries' = [centries EXCEPT ![i].acc = @ + 1, ![i].last = cclk]
    /\ cstat' = [cstat EXCEPT !.hits = @ + 1]
    /\ crep' = {[op |-> "get", hit |-> TRUE, exact |-> exact, text |-> t, model |-> m, from |-> centries[i], now |-> cclk]}
    /\ UNCHANGED <<ccount, cbytes>>
CMiss ==
    /\ cstat' = [cstat EXCEPT !.misses = @ + 1]
    /\ crep' = {[op |-> "get", hit |-> FALSE]}
mem_cache_get(t, m, thr) ==
    LET x == entry_find_exact(centries, t, m)
    IN \/ x # 0 /\ ~entry_expired(centries[x]) /\ CHit(x, TRUE, t, m)
       \/ x # 0 /\ entry_expired(centries[x]) /\ CMiss /\ Becomes(Unlinked(CHeld, x))
       \/ /\ x = 0
          /\ \/ cache_l1(t, m, thr) = {} /\ CMiss /\ UNCHANGED <<centries, ccount, cbytes>>
             \/ \E i \in cache_l1(t, m, thr) : CHit(i, FALSE, t, m)
handle_cache_get ==
    /\ cstat.hits + cstat.misses < CGets /\ crep = {}
    /\ \E t \in CTexts, m \in CModels, thr \in {85} : mem_cache_get(t, m, thr)
    /\ UNCHANGED <<cclk, cnext, clatest, cgone>>

mem_cache_del(id) ==
    LET i == FirstIdx(centries, LAMBDA e : e.id = id)
    IN /\ Becomes(IF i = 0 THEN CHeld ELSE Unlinked(CHeld, i))
       /\ crep' = {[op |-> "del", deleted |-> i # 0]}
handle_cache_del ==
    /\ crep = {}
    /\ \E id \in 1..(cnext - 1) : mem_cache_del(id) /\ cgone' = cgone \cup {id}
    /\ UNCHANGED <<cstat, cclk, cnext, clatest>>

\* mem_cache_stats adds the bytes up again rather than trust the counter.
mem_cache_stats ==
    [op |-> "stats", entries |-> ccount, bytes |-> SumBytes(centries),
     sampled |-> cstat.hits + cstat.misses > 0]
handle_cache_stats ==
    /\ crep = {}
    /\ crep' = {mem_cache_stats}
    /\ UNCHANGED <<centries, ccount, cbytes, cstat, cclk, cnext, clatest, cgone>>

cache_answer_sent ==
    /\ crep # {} /\ crep' = {}
    /\ UNCHANGED <<centries, ccount, cbytes, cstat, cclk, cnext, clatest, cgone>>
cache_time_passes ==
    /\ cclk < CTime /\ cclk' = cclk + 1
    /\ UNCHANGED <<centries, ccount, cbytes, cstat, cnext, crep, clatest, cgone>>

CNext == \/ handle_cache_put \/ handle_cache_get \/ handle_cache_del \/ handle_cache_stats
         \/ cache_answer_sent \/ cache_time_passes

(* Through puts, evictions, expiry and deletes in any order: the counters     *)
(* agree with the chains and both limits are kept after every request         *)
(* (cache_evict, entry_unlink); no text of mem_cache_admit's refusals is held;*)
(* and an answer is an unexpired, undeleted entry of the asked model, an      *)
(* exact one the response put last for that text, never one an earlier put    *)
(* left behind (mem_cache_put, mem_cache_get).                                *)
CacheHolds ==
    /\ ccount = Len(centries) /\ cbytes = SumBytes(centries)
    /\ ccount <= CMaxEntries /\ cbytes <= CMaxBytes
    /\ \A i \in DOMAIN centries : centries[i].text \notin CSecret
    /\ \A a \in crep : (a.op = "get" /\ a.hit) =>
          /\ a.from.model = a.model /\ a.from.id \notin cgone
          /\ a.now - a.from.at < a.from.ttl
          /\ a.exact => a.from.resp = clatest[CKey(a.text, a.model)]

=============================================================================
