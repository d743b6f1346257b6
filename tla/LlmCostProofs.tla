--------------------------- MODULE LlmCostProofs ---------------------------
(***************************************************************************)
(* The bill of llm_d never exceeds what was used, for every number of      *)
(* workers and models, every price table, and any number of crashes.       *)
(***************************************************************************)
EXTENDS LlmCost, FiniteSetTheorems, SequenceTheorems, WellFoundedInduction, TLAPS

(* A set of natural numbers that is not empty has a least element.         *)
LEMMA LeastExists ==
    ASSUME NEW S \in SUBSET Nat, S # {}
    PROVE  \E x \in S : \A y \in S : x =< y
<1>1. PICK x \in S : \A y \in S : <<y, x>> \notin OpToRel(<, Nat)
    BY NatLessThanWellFounded, WFMin, Zenon
<1>2. \A a, b \in Nat : a < b => <<a, b>> \in OpToRel(<, Nat)
    BY DEF OpToRel
<1>3. \A y \in S : ~(y < x)
    BY <1>1, <1>2
<1> QED
    BY <1>3

(* The first matching rule decides, or the default: a price is a natural   *)
(* number (cost_tracker_price).                                            *)
LEMMA PriceType ==
    ASSUME NEW rules \in LRules, NEW m
    PROVE  cost_tracker_price(rules, m) \in Nat
<1> DEFINE I == {i \in 1..Len(rules) : match_rule(m, rules[i])}
<1>1. rules \in Seq([pat : SUBSET STRING, price : Nat])
    BY LlmCostAssumption
<1>2. I \in SUBSET Nat
    BY <1>1
<1> DEFINE First == CHOOSE i \in I : \A j \in I : i <= j
<1>3. FirstIdx(rules, LAMBDA r : match_rule(m, r)) = IF I = {} THEN 0 ELSE First
    BY DEF FirstIdx
<1>4. CASE I = {}
    BY <1>3, <1>4 DEF cost_tracker_price, DefaultPrice
<1>5. CASE I # {}
    <2>1. \E x \in I : \A y \in I : x =< y
        BY <1>2, <1>5, LeastExists
    <2>2. First \in I
        BY <2>1
    <2> DEFINE k == First
    <2>3. k \in 1..Len(rules)
        BY <2>2
    <2> HIDE DEF k
    <2>4. rules[k] \in [pat : SUBSET STRING, price : Nat]
        BY <1>1, <2>3, ElementOfSeq, Zenon
    <2>5. k # 0 /\ rules[k].price \in Nat
        <3>1. k # 0
            BY <1>1, <2>3
        <3>2. rules[k].price \in Nat
            BY <2>4
        <3> QED
            BY <3>1, <3>2
    <2> QED
        BY <1>3, <1>5, <2>4, <2>5 DEF cost_tracker_price, k
<1> QED
    BY <1>4, <1>5

-----------------------------------------------------------------------------
Ledger == [LModel -> [tok : Nat, usd : Nat]]
FlushRec ==
    [pc : {"idle", "flush", "snap", "export", "open", "write", "rename", "count"},
     sync : BOOLEAN, snap : Nat, json : Ledger, ino : Nat]
USE DEF FlushRec
Below(a, b) == \A m \in LModel : a[m].tok <= b[m].tok /\ a[m].usd <= b[m].usd

CostTypeOK ==
    /\ lrules \in LRules /\ lever \in Ledger /\ lsum \in Ledger
    /\ lpending \in Nat /\ ldirty \in BOOLEAN
    /\ lw \in [LWorker -> FlushRec]
    /\ linode \in [Inodes -> [whole : BOOLEAN, val : Ledger]]
    /\ ltmp \in SUBSET Inodes /\ lpath \in SUBSET Inodes
    /\ (\A i, j \in ltmp : i = j) /\ (\A i, j \in lpath : i = j)

(* The inductive invariant: whatever holds a ledger, the memory, a worker  *)
(* on its way to the file, or a file under any name or none, holds no more *)
(* than was added.                                                         *)
CostInv ==
    /\ CostTypeOK
    /\ Below(lsum, lever)
    /\ \A w \in LWorker : Below(lw[w].json, lever)
    /\ \A i \in Inodes : Below(linode[i].val, lever)

(* The empty ledger is a ledger, and below every other.                    *)
LEMMA ZeroFacts ==
    /\ Zero \in Ledger
    /\ \A l \in Ledger : Below(Zero, l)
BY DEF Zero, Ledger, Below

(* Adding the same usage to two ledgers keeps them ordered, and adding to  *)
(* the larger one alone does (entry_apply).                                *)
LEMMA ApplyFacts ==
    ASSUME NEW a \in Ledger, NEW b \in Ledger, NEW m \in LModel,
           NEW e \in [tok : Nat, usd : Nat]
    PROVE  /\ entry_apply(b, e, m) \in Ledger
           /\ Below(a, b) => Below(entry_apply(a, e, m), entry_apply(b, e, m))
           /\ Below(a, b) => Below(a, entry_apply(b, e, m))
BY DEF Ledger, Below, entry_apply

(* Dropping the files that nothing refers to empties them, which is below  *)
(* everything.                                                             *)
LEMMA KeptFacts ==
    ASSUME NEW names, NEW workers, NEW files \in [Inodes -> [whole : BOOLEAN, val : Ledger]],
           NEW l \in Ledger, \A i \in Inodes : Below(files[i].val, l)
    PROVE  /\ Kept(files, names, workers) \in [Inodes -> [whole : BOOLEAN, val : Ledger]]
           /\ \A i \in Inodes : Below(Kept(files, names, workers)[i].val, l)
BY ZeroFacts DEF Kept, Cut

(* There is always an inode that neither <path> nor an open file uses: a   *)
(* worker that is about to open its file has none open.                    *)
LEMMA FreeInode ==
    ASSUME CostTypeOK, NEW w \in LWorker, lw[w].pc = "open"
    PROVE  Inodes \ (lpath \union {lw[v].ino : v \in {v \in LWorker : lw[v].pc = "write"}}) # {}
<1> DEFINE W == {v \in LWorker : lw[v].pc = "write"}
           T == {lw[v].ino : v \in W}
           f == [v \in W |-> lw[v].ino]
<1>1. IsFiniteSet(LWorker \ {w}) /\ Cardinality(LWorker \ {w}) = Cardinality(LWorker) - 1
    BY LlmCostAssumption, FS_RemoveElement
<1>2. W \in SUBSET (LWorker \ {w})
    OBVIOUS
<1>3. IsFiniteSet(W) /\ Cardinality(W) <= Cardinality(LWorker) - 1
    BY <1>1, <1>2, FS_Subset
<1>4. f \in Surjection(W, T)
    BY DEF Surjection
<1>5. IsFiniteSet(T) /\ Cardinality(T) <= Cardinality(W)
    BY <1>3, <1>4, FS_Surjection
<1>6. IsFiniteSet(lpath) /\ Cardinality(lpath) <= 1
    <2>1. CASE lpath = {}
        BY <2>1, FS_EmptySet
    <2>2. CASE lpath # {}
        <3>1. PICK i \in lpath : TRUE
            BY <2>2
        <3>2. lpath = {i}
            BY <3>1 DEF CostTypeOK
        <3>3. IsFiniteSet({i}) /\ Cardinality({i}) = 1
            BY FS_Singleton
        <3> QED
            BY <3>2, <3>3
    <2> QED
        BY <2>1, <2>2
<1>7. Cardinality(LWorker) \in Nat /\ Cardinality(W) \in Nat /\ Cardinality(T) \in Nat
      /\ Cardinality(lpath) \in Nat
    BY <1>3, <1>5, <1>6, LlmCostAssumption, FS_CardinalityType
<1>8. IsFiniteSet(lpath \cup T) /\ Cardinality(lpath \cup T) <= Cardinality(LWorker)
    <2>1. IsFiniteSet(lpath \cap T) /\ IsFiniteSet(lpath \cup T)
          /\ Cardinality(lpath \cup T) = Cardinality(lpath) + Cardinality(T) - Cardinality(lpath \cap T)
        BY <1>5, <1>6, FS_Union, FS_Subset
    <2>2. Cardinality(lpath \cap T) \in Nat
        BY <2>1, FS_CardinalityType
    <2> HIDE DEF T, W
    <2> QED
        BY <1>3, <1>5, <1>6, <1>7, <2>1, <2>2
<1>9. IsFiniteSet(Inodes) /\ Cardinality(Inodes) = Cardinality(LWorker) + 2
    <2> DEFINE n == Cardinality(LWorker) + 2
    <2>1. 1 \in Int /\ n \in Int /\ ~(1 > n) /\ n - 1 + 1 = n
        BY <1>7
    <2> HIDE DEF n
    <2>2. IsFiniteSet(1..n) /\ Cardinality(1..n) = n
        BY <2>1, FS_Interval
    <2> QED
        BY <2>2 DEF n, Inodes
<1>10. CASE Inodes \subseteq lpath \cup T
    <2>1. Cardinality(Inodes) <= Cardinality(lpath \cup T)
        BY <1>8, <1>10, FS_Subset
    <2>2. Cardinality(lpath \cup T) \in Nat
        BY <1>8, FS_CardinalityType
    <2> QED
        BY <1>7, <1>8, <1>9, <2>1, <2>2
<1> QED
    BY <1>10

-----------------------------------------------------------------------------
(* The process starts with empty ledgers everywhere.                       *)
LEMMA CostInitial == LInit => CostInv
<1> SUFFICES ASSUME LInit PROVE CostInv
    OBVIOUS
<1>1. CostTypeOK
    BY ZeroFacts DEF LInit, CostTypeOK, LIdle, Cut
<1> QED
    BY <1>1, ZeroFacts DEF LInit, CostInv, LIdle, Cut

(* A step that moves one worker and leaves the ledgers alone.              *)
LEMMA WorkerStep ==
    ASSUME CostInv, NEW w \in LWorker, NEW r, Worker(w, r),
           r \in FlushRec,
           Below(r.json, lever),
           lpending' \in Nat, ldirty' \in BOOLEAN,
           UNCHANGED <<lrules, lsum, linode, ltmp, lpath, lever>>
    PROVE  CostInv'
<1>1. CostTypeOK'
    BY DEF CostInv, CostTypeOK, Worker
<1>2. \A v \in LWorker : Below(lw'[v].json, lever)
    BY DEF CostInv, CostTypeOK, Worker
<1>3. Below(lsum', lever') /\ \A k \in Inodes : Below(linode'[k].val, lever')
    BY DEF CostInv
<1>4. \A v \in LWorker : Below(lw'[v].json, lever')
    BY <1>2
<1> QED
    BY <1>1, <1>3, <1>4 DEF CostInv

(* New prices leave the totals alone (cost_set_rules).                     *)
LEMMA SetRulesStep ==
    ASSUME CostInv, NEW rules \in LRules, cost_set_rules(rules)
    PROVE  CostInv'
<1>1. CostTypeOK'
    BY DEF CostInv, CostTypeOK, cost_set_rules
<1> QED
    BY <1>1 DEF CostInv, cost_set_rules

(* One usage goes to the total and to the record of all use alike          *)
(* (cost_tracker_add).                                                     *)
LEMMA AddStep ==
    ASSUME CostInv, NEW w \in LWorker, NEW m \in LModel, cost_tracker_add(w, m)
    PROVE  CostInv'
<1> DEFINE e == [tok |-> 1, usd |-> cost_tracker_price(lrules, m)]
<1>1. e \in [tok : Nat, usd : Nat]
    BY PriceType DEF CostInv, CostTypeOK
<1>2. lsum' = entry_apply(lsum, e, m) /\ lever' = entry_apply(lever, e, m)
    BY DEF cost_tracker_add
<1>3. lsum \in Ledger /\ lever \in Ledger
    BY DEF CostInv, CostTypeOK
<1> HIDE DEF e
<1>4. /\ lsum' \in Ledger /\ lever' \in Ledger /\ Below(lsum', lever')
      /\ \A l \in Ledger : Below(l, lever) => Below(l, lever')
    <2>1. lsum' \in Ledger /\ lever' \in Ledger
        BY <1>1, <1>2, <1>3, ApplyFacts
    <2>2. Below(lsum', lever')
        BY <1>1, <1>2, <1>3, ApplyFacts DEF CostInv
    <2>3. \A l \in Ledger : Below(l, lever) => Below(l, lever')
        BY <1>1, <1>2, <1>3, ApplyFacts
    <2> QED
        BY <2>1, <2>2, <2>3
<1> DEFINE r == [LIdle EXCEPT !.pc = "flush"]
<1>5. /\ lpending' = lpending + 1 /\ ldirty' = TRUE /\ lw' = [lw EXCEPT ![w] = r]
      /\ UNCHANGED <<lrules, linode, ltmp, lpath>>
    BY DEF cost_tracker_add, Worker
<1>6. /\ r \in FlushRec
      /\ r.json = Zero
    BY ZeroFacts DEF LIdle
<1> HIDE DEF r
<1>7. CostTypeOK'
    BY <1>4, <1>5, <1>6 DEF CostInv, CostTypeOK
<1>8. \A v \in LWorker : Below(lw'[v].json, lever')
    BY <1>4, <1>5, <1>6, ZeroFacts DEF CostInv, CostTypeOK
<1>9. \A i \in Inodes : Below(linode'[i].val, lever')
    BY <1>4, <1>5 DEF CostInv, CostTypeOK
<1> QED
    BY <1>4, <1>7, <1>8, <1>9 DEF CostInv

(* A flush that is due starts empty-handed (cost_tracker_flush).           *)
LEMMA FlushStep ==
    ASSUME CostInv, NEW w \in LWorker, cost_tracker_flush(w)
    PROVE  CostInv'
<1>1. PICK sync \in BOOLEAN :
          Worker(w, IF ~ldirty \/ (~sync /\ lpending < LFlushOps) THEN LIdle
                    ELSE [LIdle EXCEPT !.pc = "snap", !.sync = sync])
    BY DEF cost_tracker_flush
<1> DEFINE r == IF ~ldirty \/ (~sync /\ lpending < LFlushOps) THEN LIdle
                ELSE [LIdle EXCEPT !.pc = "snap", !.sync = sync]
<1>2. /\ r \in FlushRec
      /\ r.json = Zero
    BY ZeroFacts DEF LIdle
<1>3. Below(r.json, lever)
    BY <1>2, ZeroFacts DEF CostInv, CostTypeOK
<1>4. lpending' \in Nat /\ ldirty' \in BOOLEAN /\ UNCHANGED <<lrules, lsum, linode, ltmp, lpath, lever>>
    BY DEF cost_tracker_flush, CostInv, CostTypeOK
<1> HIDE DEF r
<1>5. Worker(w, r)
    BY <1>1 DEF r
<1> QED
    BY <1>2, <1>3, <1>4, <1>5, WorkerStep

(* cost_write, cost_tracker_export and write_counted only fill in the      *)
(* worker's record; what they export is the ledger of that moment.         *)
LEMMA OwnStep ==
    ASSUME CostInv, NEW w \in LWorker,
           cost_write(w) \/ cost_tracker_export(w) \/ write_counted(w) \/ cost_tracker_save(w)
    PROVE  CostInv'
<1>1. lw[w] \in FlushRec /\ Below(lw[w].json, lever) /\ lpending \in Nat /\ ldirty \in BOOLEAN
    BY DEF CostInv, CostTypeOK
<1>2. LIdle \in FlushRec /\ Below(LIdle.json, lever)
    BY ZeroFacts DEF LIdle, CostInv, CostTypeOK
<1>3. CASE cost_write(w)
    <2> DEFINE r == [lw[w] EXCEPT !.pc = "export", !.snap = lpending]
    <2>1. r \in FlushRec /\ Below(r.json, lever)
        BY <1>1
    <2>2. Worker(w, r) /\ lpending' \in Nat /\ ldirty' \in BOOLEAN
          /\ UNCHANGED <<lrules, lsum, linode, ltmp, lpath, lever>>
        BY <1>1, <1>3 DEF cost_write
    <2> HIDE DEF r
    <2> QED
        BY <2>1, <2>2, WorkerStep
<1>4. CASE cost_tracker_export(w)
    <2> DEFINE r == [lw[w] EXCEPT !.pc = "open", !.json = lsum]
    <2>1. r \in FlushRec /\ Below(r.json, lever)
        BY <1>1 DEF CostInv, CostTypeOK
    <2>2. Worker(w, r) /\ lpending' \in Nat /\ ldirty' \in BOOLEAN
          /\ UNCHANGED <<lrules, lsum, linode, ltmp, lpath, lever>>
        BY <1>1, <1>4 DEF cost_tracker_export
    <2> HIDE DEF r
    <2> QED
        BY <2>1, <2>2, WorkerStep
<1>5. CASE write_counted(w)
    <2>1. Worker(w, LIdle) /\ UNCHANGED <<lrules, lsum, linode, ltmp, lpath, lever>>
        BY <1>5 DEF write_counted
    <2>2. lw[w].snap \in Nat /\ lpending' = IF lpending > lw[w].snap THEN lpending - lw[w].snap ELSE 0
        BY <1>1, <1>5 DEF write_counted
    <2>3. lpending' \in Nat
        BY <1>1, <2>2
    <2>4. ldirty' = (IF lw[w].sync THEN lpending' > 0 ELSE ldirty)
        BY <1>5 DEF write_counted
    <2>5. ldirty' \in BOOLEAN
        <3>1. CASE lw[w].sync
            <4>1. (lpending' > 0) \in BOOLEAN
                <5>1. CASE lpending' > 0
                    <6>1. (lpending' > 0) = TRUE
                        BY <5>1
                    <6> QED
                        BY <6>1, Zenon
                <5>2. CASE ~(lpending' > 0)
                    <6>1. (lpending' > 0) = FALSE
                        BY <5>2
                    <6> QED
                        BY <6>1, Zenon
                <5> QED
                    BY <5>1, <5>2
            <4>2. ldirty' = (lpending' > 0)
                BY <2>4, <3>1, Zenon
            <4> QED
                BY <4>1, <4>2, Zenon
        <3>2. CASE ~lw[w].sync
            <4>1. ldirty' = ldirty
                BY <2>4, <3>2, Zenon
            <4> QED
                BY <1>1, <4>1, Zenon
        <3> QED
            BY <3>1, <3>2
    <2> QED
        BY <1>2, <2>1, <2>3, <2>5, WorkerStep
<1>6. CASE cost_tracker_save(w)
    <2> DEFINE r == [LIdle EXCEPT !.pc = "snap", !.sync = TRUE]
    <2>1. r \in FlushRec /\ Below(r.json, lever)
        BY <1>2 DEF LIdle
    <2>2. Worker(w, r) /\ lpending' \in Nat /\ ldirty' \in BOOLEAN
          /\ UNCHANGED <<lrules, lsum, linode, ltmp, lpath, lever>>
        BY <1>1, <1>6 DEF cost_tracker_save
    <2> HIDE DEF r
    <2> QED
        BY <2>1, <2>2, WorkerStep
<1> QED
    BY <1>3, <1>4, <1>5, <1>6

(* A step that moves one worker and the files, and leaves the ledger in    *)
(* memory alone.                                                           *)
LEMMA FileStep ==
    ASSUME CostInv, NEW w \in LWorker, NEW r, Worker(w, r),
           r \in FlushRec,
           Below(r.json, lever),
           linode' \in [Inodes -> [whole : BOOLEAN, val : Ledger]],
           \A i \in Inodes : Below(linode'[i].val, lever),
           ltmp' \in SUBSET Inodes, \A i, j \in ltmp' : i = j,
           lpath' \in SUBSET Inodes, \A i, j \in lpath' : i = j,
           UNCHANGED <<lrules, lsum, lpending, ldirty, lever>>
    PROVE  CostInv'
<1>1. lw' \in [LWorker -> FlushRec]
    BY DEF CostInv, CostTypeOK, Worker
<1>2. CostTypeOK'
    BY <1>1 DEF CostInv, CostTypeOK
<1>3. \A v \in LWorker : Below(lw'[v].json, lever')
    BY DEF CostInv, CostTypeOK, Worker
<1>4. Below(lsum', lever') /\ \A k \in Inodes : Below(linode'[k].val, lever')
    BY DEF CostInv
<1> QED
    BY <1>2, <1>3, <1>4 DEF CostInv

(* Opening <path>.tmp cuts a file to nothing (fopen in cost_write).         *)
LEMMA OpenStep ==
    ASSUME CostInv, NEW w \in LWorker, tmp_open(w)
    PROVE  CostInv'
<1> DEFINE used == lpath \union {lw[v].ino : v \in {v \in LWorker : lw[v].pc = "write"}}
           ino  == Opt(ltmp, CHOOSE i \in Inodes \ used : TRUE)
           r    == [lw[w] EXCEPT !.pc = "write", !.ino = ino]
<1>1. Inodes \ used # {}
    BY FreeInode DEF CostInv, tmp_open
<1>2. (CHOOSE i \in Inodes \ used : TRUE) \in Inodes
    BY <1>1
<1>3. ltmp \in SUBSET Inodes
    BY DEF CostInv, CostTypeOK
<1> HIDE DEF used
<1>4. ino \in Inodes
    BY <1>2, <1>3 DEF Opt
<1>5. CASE Worker(w, LIdle) /\ UNCHANGED <<linode, ltmp>>
    <2>1. LIdle \in FlushRec /\ Below(LIdle.json, lever)
        BY ZeroFacts DEF LIdle, CostInv, CostTypeOK
    <2>2. lpending' \in Nat /\ ldirty' \in BOOLEAN
          /\ UNCHANGED <<lrules, lsum, linode, ltmp, lpath, lever>>
        BY <1>5 DEF tmp_open, CostInv, CostTypeOK
    <2> QED
        BY <1>5, <2>1, <2>2, WorkerStep
<1> SUFFICES ASSUME ~(Worker(w, LIdle) /\ UNCHANGED <<linode, ltmp>>)
             PROVE  CostInv'
    BY <1>5
<1>6. /\ linode' = [linode EXCEPT ![ino] = Cut] /\ ltmp' = {ino} /\ Worker(w, r)
      /\ UNCHANGED <<lrules, lsum, lpending, ldirty, lpath, lever>>
    BY DEF tmp_open, used
<1> HIDE DEF ino
<1>7. Inodes \in SUBSET Nat
    <2>1. Cardinality(LWorker) \in Nat
        BY LlmCostAssumption, FS_CardinalityType
    <2> QED
        BY <2>1 DEF Inodes
<1>8. r \in FlushRec /\ Below(r.json, lever)
    <2>1. lw[w] \in FlushRec /\ Below(lw[w].json, lever)
        BY DEF CostInv, CostTypeOK
    <2>2. ino \in Nat
        BY <1>4, <1>7
    <2> QED
        BY <2>1, <2>2
<1>9. /\ linode' \in [Inodes -> [whole : BOOLEAN, val : Ledger]]
      /\ \A i \in Inodes : Below(linode'[i].val, lever)
    BY <1>4, <1>6, ZeroFacts DEF CostInv, CostTypeOK, Cut
<1>10. /\ ltmp' \in SUBSET Inodes /\ (\A i, j \in ltmp' : i = j)
      /\ lpath' \in SUBSET Inodes /\ (\A i, j \in lpath' : i = j)
    BY <1>4, <1>6 DEF CostInv, CostTypeOK
<1> HIDE DEF r
<1> QED
    BY <1>6, <1>8, <1>9, <1>10, FileStep

(* What is written is what the worker exported (fwrite in cost_write).      *)
LEMMA WriteStep ==
    ASSUME CostInv, NEW w \in LWorker, tmp_write(w)
    PROVE  CostInv'
<1>1. /\ lw[w] \in FlushRec /\ Below(lw[w].json, lever) /\ lever \in Ledger
      /\ linode \in [Inodes -> [whole : BOOLEAN, val : Ledger]]
      /\ \A i \in Inodes : Below(linode[i].val, lever)
      /\ ltmp \in SUBSET Inodes /\ (\A i, j \in ltmp : i = j)
      /\ lpath \in SUBSET Inodes /\ (\A i, j \in lpath : i = j)
    BY DEF CostInv, CostTypeOK
<1>2. UNCHANGED <<lrules, lsum, lpending, ldirty, lpath, lever>>
    BY DEF tmp_write
<1>3. ASSUME linode' = [linode EXCEPT ![lw[w].ino] = [whole |-> TRUE, val |-> lw[w].json]],
             Worker(w, [lw[w] EXCEPT !.pc = "rename", !.json = Zero, !.ino = 0]),
             UNCHANGED ltmp
      PROVE  CostInv'
    <2> DEFINE r == [lw[w] EXCEPT !.pc = "rename", !.json = Zero, !.ino = 0]
    <2>1. r \in FlushRec /\ Below(r.json, lever)
        BY <1>1, ZeroFacts
    <2>2. /\ linode' \in [Inodes -> [whole : BOOLEAN, val : Ledger]]
          /\ \A i \in Inodes : Below(linode'[i].val, lever)
        BY <1>1, <1>3
    <2>3. Worker(w, r)
        BY <1>3
    <2> HIDE DEF r
    <2> QED
        BY <1>1, <1>2, <1>3, <2>1, <2>2, <2>3, FileStep
<1>4. ASSUME Worker(w, LIdle), ltmp' = {}, linode' = Kept(linode, lpath, lw')
      PROVE  CostInv'
    <2>1. LIdle \in FlushRec /\ Below(LIdle.json, lever)
        BY <1>1, ZeroFacts DEF LIdle
    <2>2. /\ linode' \in [Inodes -> [whole : BOOLEAN, val : Ledger]]
          /\ \A i \in Inodes : Below(linode'[i].val, lever)
        BY <1>1, <1>4, KeptFacts
    <2> QED
        BY <1>1, <1>2, <1>4, <2>1, <2>2, FileStep
<1> QED
    BY <1>3, <1>4 DEF tmp_write

(* A rename moves a name, never the contents (rename in cost_write).       *)
LEMMA RenameStep ==
    ASSUME CostInv, NEW w \in LWorker, tmp_rename(w)
    PROVE  CostInv'
<1> DEFINE r == [lw[w] EXCEPT !.pc = "count", !.json = Zero, !.ino = 0]
<1>1. /\ lw[w] \in FlushRec /\ lever \in Ledger
      /\ linode \in [Inodes -> [whole : BOOLEAN, val : Ledger]]
      /\ \A i \in Inodes : Below(linode[i].val, lever)
      /\ ltmp \in SUBSET Inodes /\ (\A i, j \in ltmp : i = j)
      /\ lpath \in SUBSET Inodes /\ (\A i, j \in lpath : i = j)
    BY DEF CostInv, CostTypeOK
<1>2. /\ r \in FlushRec /\ Below(r.json, lever)
      /\ LIdle \in FlushRec /\ Below(LIdle.json, lever)
    BY <1>1, ZeroFacts DEF LIdle
<1> HIDE DEF r
<1>3. /\ Worker(w, r) \/ Worker(w, LIdle)
      /\ linode' = Kept(linode, lpath' \union ltmp', lw')
      /\ ltmp' = {} /\ (lpath' = ltmp \/ lpath' = lpath)
      /\ UNCHANGED <<lrules, lsum, lpending, ldirty, lever>>
    BY DEF tmp_rename, r
<1>4. /\ ltmp' \in SUBSET Inodes /\ (\A i, j \in ltmp' : i = j)
      /\ lpath' \in SUBSET Inodes /\ (\A i, j \in lpath' : i = j)
    BY <1>1, <1>3
<1>5. /\ linode' \in [Inodes -> [whole : BOOLEAN, val : Ledger]]
      /\ \A i \in Inodes : Below(linode'[i].val, lever)
    BY <1>1, <1>3, KeptFacts
<1> QED
    BY <1>2, <1>3, <1>4, <1>5, FileStep

(* A count read back is the stored one or, where it does not fit, a        *)
(* smaller one (json_u32).                                                 *)
LEMMA ReadBack ==
    ASSUME NEW n \in Nat, NEW wraps \in BOOLEAN
    PROVE  json_u32(n, wraps) \in Nat /\ json_u32(n, wraps) <= n
<1>1. LU32 \in Nat /\ LU32 > 0
    BY LlmCostAssumption
<1>2. n % LU32 \in Nat /\ n % LU32 < LU32
    BY <1>1
<1> QED
    BY <1>1, <1>2 DEF json_u32

(* What a restart reads back is a file's ledger, added to nothing          *)
(* (cost_tracker_load).                                                    *)
LEMMA LoadFacts ==
    ASSUME CostInv, NEW wraps \in BOOLEAN
    PROVE  /\ cost_tracker_load(Zero, wraps) \in Ledger
           /\ Below(cost_tracker_load(Zero, wraps), lever)
<1>1. CASE \E i \in lpath : linode[i].whole
    <2> DEFINE k == CHOOSE i \in lpath : TRUE
    <2>1. k \in lpath
        BY <1>1
    <2> HIDE DEF k
    <2>2. linode[k].val \in Ledger /\ Below(linode[k].val, lever)
        BY <2>1 DEF CostInv, CostTypeOK
    <2> DEFINE f == linode[k].val
    <2>3. \A m \in LModel : json_u32(f[m].tok, wraps) \in Nat
                            /\ json_u32(f[m].tok, wraps) <= f[m].tok
        BY <2>2, ReadBack DEF Ledger
    <2> HIDE DEF f
    <2>4. f \in Ledger /\ Below(f, lever) /\ lever \in Ledger
        BY <2>2 DEF f, CostInv, CostTypeOK
    <2>5. Merged(Zero, f, wraps) \in Ledger
        BY <2>3, <2>4 DEF Merged, Zero, Ledger
    <2>6. Below(Merged(Zero, f, wraps), lever)
        BY <2>3, <2>4 DEF Merged, Zero, Ledger, Below
    <2> QED
        BY <1>1, <2>6, <2>5 DEF cost_tracker_load, k, f
<1>2. CASE ~ \E i \in lpath : linode[i].whole
    BY <1>2, ZeroFacts DEF cost_tracker_load, CostInv, CostTypeOK
<1> QED
    BY <1>1, <1>2

(* A restart holds what it read, and nothing else (cost_tracker_load).     *)
LEMMA RestartStep ==
    ASSUME CostInv, NEW rules \in LRules, cost_restart(rules)
    PROVE  CostInv'
<1>1. /\ lever \in Ledger /\ linode \in [Inodes -> [whole : BOOLEAN, val : Ledger]]
      /\ \A i \in Inodes : Below(linode[i].val, lever)
    BY DEF CostInv, CostTypeOK
<1>2. /\ lrules' = rules /\ lpending' = 0 /\ ldirty' = FALSE
      /\ \E wraps \in BOOLEAN : lsum' = cost_tracker_load(Zero, wraps)
      /\ lw' = [w \in LWorker |-> LIdle] /\ linode' = Kept(linode, ltmp \union lpath, lw')
      /\ UNCHANGED <<ltmp, lpath, lever>>
    BY DEF cost_restart
<1>3. /\ linode' \in [Inodes -> [whole : BOOLEAN, val : Ledger]]
      /\ \A i \in Inodes : Below(linode'[i].val, lever)
    BY <1>1, <1>2, KeptFacts
<1>4. lsum' \in Ledger /\ Below(lsum', lever)
    BY <1>2, LoadFacts
<1>5. lw' \in [LWorker -> FlushRec]
    BY <1>2, ZeroFacts DEF LIdle
<1>6. \A w \in LWorker : Below(lw'[w].json, lever)
    BY <1>1, <1>2, ZeroFacts DEF LIdle
<1>7. CostTypeOK'
    BY <1>2, <1>3, <1>4, <1>5 DEF CostInv, CostTypeOK
<1> QED
    BY <1>2, <1>3, <1>4, <1>6, <1>7 DEF CostInv

-----------------------------------------------------------------------------
(* Every step keeps every ledger below what was added.                     *)
LEMMA CostStep == CostInv /\ [LNext]_lVars => CostInv'
<1> SUFFICES ASSUME CostInv, [LNext]_lVars PROVE CostInv'
    OBVIOUS
<1>1. CASE LNext
    BY <1>1, SetRulesStep, RestartStep, AddStep, FlushStep, OwnStep, OpenStep, WriteStep,
       RenameStep DEF LNext
<1>2. CASE UNCHANGED lVars
    BY <1>2 DEF lVars, CostInv, CostTypeOK
<1> QED
    BY <1>1, <1>2

(* The ledger in memory, the ledgers on their way to the file and every    *)
(* file hold no more than was added (cost_tracker.c), always.              *)
THEOREM CostInvariant == LSpec => []CostInv
BY CostInitial, CostStep, PTL DEF LSpec

(* Neither the ledger in memory nor a readable ledger on disk ever holds   *)
(* more than was used and charged: flushes that overlap, writes that fail  *)
(* and restarts included.                                                  *)
THEOREM BillNeverExceedsUse == LSpec => []NoOvercharge
<1>1. CostInv => NoOvercharge
    BY DEF CostInv, CostTypeOK, NoOvercharge, Below
<1> QED
    BY <1>1, CostInvariant, PTL
=============================================================================
