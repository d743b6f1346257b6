------------------------------ MODULE LlmCost ------------------------------
(***************************************************************************)
(* llm_d: the usage ledger (accounting/cost_tracker.c).  Every finished    *)
(* request adds its usage and offers a flush; a flush exports the totals,  *)
(* writes <path>.tmp and renames it.  The workers do so concurrently, the  *)
(* lock being held only around the counters.  The process may be killed    *)
(* at any step: the files survive, the memory does not.                    *)
(***************************************************************************)
EXTENDS DaemonBase, FiniteSets, SequencesExt

CONSTANTS
    LWorker,        \* threads that finish requests
    LModel,         \* model names
    LRules,         \* price tables: sequences of [pat: set of names, price]
    LFlushOps,      \* COST_FLUSH_OPS
    LU32,           \* 2^32, the range of uint32_t
    LMaxAdds, LMaxCrash  \* bounds on requests and crashes

ASSUME LlmCostAssumption ==
    /\ IsFiniteSet(LWorker) /\ LFlushOps \in Nat \ {0} /\ LU32 \in Nat \ {0}
    /\ LRules \subseteq Seq([pat : SUBSET STRING, price : Nat])

VARIABLES
    lrules,     \* the price table in force
    lsum,       \* model -> [tok, usd]: the totals in memory
    lpending,   \* additions since the last successful write
    ldirty,     \* something is not known to be on disk
    lw,         \* each worker's flush
    linode,     \* contents of the files, by inode: a whole ledger, or not
    ltmp, lpath,\* inode named <path>.tmp and <path>: a set of at most one
    lever,      \* model -> [tok, usd] ever added, in any life of the process
    ladds, lcrash

lVars == <<lrules, lsum, lpending, ldirty, lw, linode, ltmp, lpath, lever, ladds, lcrash>>

----------------------------------------------------------------------------
Zero == [m \in LModel |-> [tok |-> 0, usd |-> 0]]
DefaultPrice == 1

match_rule(model, rule) == model \in rule.pat

\* The first rule that matches decides.
cost_tracker_price(rules, model) ==
    LET i == FirstIdx(rules, LAMBDA r : match_rule(model, r))
    IN  IF i = 0 THEN DefaultPrice ELSE rules[i].price

LIdle == [pc |-> "idle", sync |-> FALSE, snap |-> 0, json |-> Zero, ino |-> 0]

entry_apply(sum, e, m) == [sum EXCEPT ![m] = [tok |-> @.tok + e.tok, usd |-> @.usd + e.usd]]

\* The totals are 64 bits wide, what is read back 32.  Converting a double that does not fit is
\* undefined: the builds wrap it (x86-64) or saturate (AArch64).
json_u32(n, wraps) == IF n < LU32 THEN n ELSE IF wraps THEN n % LU32 ELSE LU32 - 1

Merged(sum, file, wraps) ==
    [m \in LModel |-> [tok |-> sum[m].tok + json_u32(file[m].tok, wraps), usd |-> sum[m].usd + file[m].usd]]

\* A plausible slip: the stored totals are applied on top of what an earlier life left behind.
load_twice(sum, wraps) ==
    IF \E i \in lpath : linode[i].whole
    THEN LET file == linode[CHOOSE i \in lpath : TRUE].val IN Merged(Merged(sum, file, wraps), file, wraps)
    ELSE sum

\* A missing, empty or unparsable file adds nothing.
cost_tracker_load(sum, wraps) ==
    IF \E i \in lpath : linode[i].whole
    THEN Merged(sum, linode[CHOOSE i \in lpath : TRUE].val, wraps)
    ELSE sum

Inodes == 1..Cardinality(LWorker) + 2
Cut == [whole |-> FALSE, val |-> Zero]

\* The files no name and no open handle refers to are gone.
Kept(files, names, workers) ==
    LET open == {workers[w].ino : w \in {v \in LWorker : workers[v].pc = "write"}}
    IN  [i \in Inodes |-> IF i \in names \union open THEN files[i] ELSE Cut]

LInit ==
    /\ lrules \in LRules
    /\ lsum = Zero /\ lpending = 0 /\ ldirty = FALSE
    /\ lw = [w \in LWorker |-> LIdle]
    /\ linode = [i \in Inodes |-> Cut] /\ ltmp = {} /\ lpath = {}
    /\ lever = Zero /\ ladds = 0 /\ lcrash = 0

Worker(w, r) == lw' = [lw EXCEPT ![w] = r]

cost_set_rules(rules) ==
    /\ lrules # rules /\ lrules' = rules
    /\ UNCHANGED <<lsum, lpending, ldirty, lw, linode, ltmp, lpath, lever, ladds, lcrash>>

\* The usage of one request (a token) at the price in force.
cost_tracker_add(w, m) ==
    /\ lw[w].pc = "idle" /\ ladds < LMaxAdds
    /\ LET e == [tok |-> 1, usd |-> cost_tracker_price(lrules, m)]
       IN  lsum' = entry_apply(lsum, e, m) /\ lever' = entry_apply(lever, e, m)
    /\ lpending' = lpending + 1 /\ ldirty' = TRUE /\ ladds' = ladds + 1
    /\ Worker(w, [LIdle EXCEPT !.pc = "flush"])
    /\ UNCHANGED <<lrules, linode, ltmp, lpath, lcrash>>

\* Whether the time window asks for a synchronous write is the clock's choice.
cost_tracker_flush(w) ==
    /\ lw[w].pc = "flush"
    /\ \E sync \in BOOLEAN :
         Worker(w, IF ~ldirty \/ (~sync /\ lpending < LFlushOps) THEN LIdle
                   ELSE [LIdle EXCEPT !.pc = "snap", !.sync = sync])
    /\ UNCHANGED <<lrules, lsum, lpending, ldirty, linode, ltmp, lpath, lever, ladds, lcrash>>

cost_write(w) ==
    /\ lw[w].pc = "snap"
    /\ Worker(w, [lw[w] EXCEPT !.pc = "export", !.snap = lpending])
    /\ UNCHANGED <<lrules, lsum, lpending, ldirty, linode, ltmp, lpath, lever, ladds, lcrash>>

cost_tracker_export(w) ==
    /\ lw[w].pc = "export"
    /\ Worker(w, [lw[w] EXCEPT !.pc = "open", !.json = lsum])
    /\ UNCHANGED <<lrules, lsum, lpending, ldirty, linode, ltmp, lpath, lever, ladds, lcrash>>

\* fopen(tmp, "wb"): a new file, or the one of that name cut to nothing; or it fails.
tmp_open(w) ==
    /\ lw[w].pc = "open"
    /\ \/ LET used == lpath \union {lw[v].ino : v \in {v \in LWorker : lw[v].pc = "write"}}
              ino  == Opt(ltmp, CHOOSE i \in Inodes \ used : TRUE)
          IN  /\ linode' = [linode EXCEPT ![ino] = Cut]
              /\ ltmp' = {ino}
              /\ Worker(w, [lw[w] EXCEPT !.pc = "write", !.ino = ino])
       \/ Worker(w, LIdle) /\ UNCHANGED <<linode, ltmp>>
    /\ UNCHANGED <<lrules, lsum, lpending, ldirty, lpath, lever, ladds, lcrash>>

\* The bytes go to the open file, whatever name it has by now; or the write fails.
tmp_write(w) ==
    /\ lw[w].pc = "write"
    /\ \/ /\ linode' = [linode EXCEPT ![lw[w].ino] = [whole |-> TRUE, val |-> lw[w].json]]
          /\ Worker(w, [lw[w] EXCEPT !.pc = "rename", !.json = Zero, !.ino = 0])
          /\ UNCHANGED ltmp
       \/ Worker(w, LIdle) /\ ltmp' = {} /\ linode' = Kept(linode, lpath, lw')
    /\ UNCHANGED <<lrules, lsum, lpending, ldirty, lpath, lever, ladds, lcrash>>

\* A rename that fails, for want of the file or otherwise, is followed by remove(tmp).
tmp_rename(w) ==
    /\ lw[w].pc = "rename"
    /\ \/ /\ ltmp # {} /\ lpath' = ltmp
          /\ Worker(w, [lw[w] EXCEPT !.pc = "count", !.json = Zero, !.ino = 0])
       \/ Worker(w, LIdle) /\ UNCHANGED lpath
    /\ ltmp' = {}
    /\ linode' = Kept(linode, lpath' \union ltmp', lw')
    /\ UNCHANGED <<lrules, lsum, lpending, ldirty, lever, ladds, lcrash>>

\* Only the additions seen before the export are taken off.
write_counted(w) ==
    /\ lw[w].pc = "count"
    /\ lpending' = IF lpending > lw[w].snap THEN lpending - lw[w].snap ELSE 0
    /\ ldirty' = IF lw[w].sync THEN lpending' > 0 ELSE ldirty
    /\ Worker(w, LIdle)
    /\ UNCHANGED <<lrules, lsum, linode, ltmp, lpath, lever, ladds, lcrash>>

\* Orderly stop: the service saves with sync once no request is left (llm_service_destroy).
cost_tracker_save(w) ==
    /\ \A v \in LWorker : lw[v].pc = "idle"
    /\ ldirty
    /\ Worker(w, [LIdle EXCEPT !.pc = "snap", !.sync = TRUE])
    /\ UNCHANGED <<lrules, lsum, lpending, ldirty, linode, ltmp, lpath, lever, ladds, lcrash>>

\* The process is killed and started again on the files it left.
cost_restart(rules) ==
    /\ lcrash < LMaxCrash /\ lcrash' = lcrash + 1
    /\ lrules' = rules
    /\ \E wraps \in BOOLEAN : lsum' = cost_tracker_load(Zero, wraps)
    /\ lpending' = 0 /\ ldirty' = FALSE
    /\ lw' = [w \in LWorker |-> LIdle]
    /\ linode' = Kept(linode, ltmp \union lpath, lw')
    /\ UNCHANGED <<ltmp, lpath, lever, ladds>>

LNext ==
    \/ \E rules \in LRules : cost_set_rules(rules) \/ cost_restart(rules)
    \/ \E w \in LWorker, m \in LModel : cost_tracker_add(w, m)
    \/ \E w \in LWorker :
         \/ cost_tracker_flush(w) \/ cost_write(w) \/ cost_tracker_export(w)
         \/ tmp_open(w) \/ tmp_write(w) \/ tmp_rename(w) \/ write_counted(w)
         \/ cost_tracker_save(w)

LSpec == LInit /\ [][LNext]_lVars

----------------------------------------------------------------------------
(* Properties *)

\* However writes interleave and wherever the process is killed, neither the ledger in memory
\* nor a readable ledger on disk ever holds more than was really used and charged.
NoOvercharge ==
    LET Within(sum) == \A m \in LModel : sum[m].tok <= lever[m].tok /\ sum[m].usd <= lever[m].usd
    IN  /\ Within(lsum)
        /\ \A i \in lpath : linode[i].whole => Within(linode[i].val)

=============================================================================
