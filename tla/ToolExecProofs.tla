--------------------------- MODULE ToolExecProofs ---------------------------
(***************************************************************************)
(* The hand-over between the RPC threads and the worker pool of tool_d,    *)
(* and the approval gate, for any number of requests and workers.          *)
(***************************************************************************)
EXTENDS ToolExec, TLAPS

TSpec == TInit /\ [][TNext]_tvars

Cls == {"ok", "respond", "fail", "fatal"}
Rets == {"none", "ok", "invalid_param", "eperm", "builtin_failed", "canceled",
         "not_found", "validation", "busy"}
Res == [success : BOOLEAN, cls : Cls, from : TReqs]
JobRec == [ret : Rets, res : SUBSET Res, done : BOOLEAN, detached : BOOLEAN, freed : Nat]
Steps == {"rest", "start", "ask", "blocked", "run", "done"}
WorkRec == [at : Steps, req : SUBSET TReqs, ret : Rets, res : SUBSET Res]
Question == [req : TReqs, resolved : BOOLEAN, outcome : {"allow", "always", "deny"}]

(* The types of the state ...                                              *)
TypeOK ==
    /\ tpc \in [TReqs -> {"idle", "wait", "store", "end"}]
    /\ tjob \in [TReqs -> SUBSET JobRec]
    /\ treply \in [TReqs -> SUBSET [ret : Rets, res : SUBSET Res]]
    /\ tqueue \in Seq(TReqs)
    /\ twork \in [TWorkers -> WorkRec]
    /\ tpend \in Seq(Question)
    /\ tverdict \in [TReqs -> {"none", "allow", "always", "deny"}]
    /\ tran \subseteq TReqs

Queued(r) == \E i \in 1..Len(tqueue) : tqueue[i] = r
Holds(w, r) == twork[w].req = {r}
Asked(r) == \E i \in 1..Len(tpend) : tpend[i].req = r

(* ... a job goes from the submitter to the queue, a worker and back ...   *)
JobOK(r, j) ==
    /\ j.freed \in {0, 1}
    /\ tpc[r] # "idle"
    /\ tpc[r] = "wait" => j.freed = 0
    /\ j.freed = 1 => j.done
    /\ j.detached => tpc[r] = "end"
    /\ tpc[r] = "store" => j.freed = 1
    /\ tpc[r] = "end" /\ ~j.detached => j.freed = 1
    /\ j.detached /\ j.done => j.freed = 1 \/ (j.ret = "canceled" /\ tdown # "no")
    /\ ~j.done => Queued(r) \/ InHand(r)

JobInv ==
    \A r \in TReqs :
        /\ tpc[r] = "wait" => tjob[r] # {}
        /\ \A j, k \in tjob[r] : k = j
        /\ \A j \in tjob[r] : JobOK(r, j)

(* ... which holds one unfinished job, alone ...                           *)
QueueInv ==
    \A i \in 1..Len(tqueue) :
        /\ tjob[tqueue[i]] # {} /\ \A j \in tjob[tqueue[i]] : ~j.done
        /\ \A k \in 1..Len(tqueue) : tqueue[k] = tqueue[i] => k = i
        /\ \A w \in TWorkers : ~Holds(w, tqueue[i])

RestInv ==
    \A w \in TWorkers :
        /\ twork[w].at = "rest" => twork[w].req = {}
        /\ twork[w].at # "rest" => \E r \in TReqs : Holds(w, r)

HoldInv ==
    \A w \in TWorkers, r \in TReqs : Holds(w, r) =>
        /\ tjob[r] # {} /\ \A j \in tjob[r] : ~j.done
        /\ \A v \in TWorkers : Holds(v, r) => v = w

(* ... and every result is one of its own request.                         *)
ResInv ==
    /\ \A r \in TReqs : \A j \in tjob[r] : \A x \in j.res : x.from = r /\ (x.success => r \in tran)
    /\ \A w \in TWorkers : \A r \in TReqs : Holds(w, r) =>
         \A x \in twork[w].res : x.from = r /\ (x.success => r \in tran)
    /\ \A r \in TReqs : tpc[r] = "store" =>
         treply[r] # {} /\ \A a \in treply[r] : \A x \in a.res : x.from = r
    /\ \A r \in TReqs : \A a \in treply[r] : \A x \in a.res :
         tool_cache_key(x.from) = tool_cache_key(r) /\ (x.success => x.from \in tran)
    /\ \A k \in DOMAIN tcache : tcache[k] \in tran /\ tool_cache_key(tcache[k]) = k

(* A question is pending for the one worker that waits for its answer ...  *)
PendInv ==
    \A i \in 1..Len(tpend) :
        /\ \E w \in TWorkers : Holds(w, tpend[i].req) /\ twork[w].at = "blocked"
        /\ \A k \in 1..Len(tpend) : tpend[k].req = tpend[i].req => k = i
        /\ tpend[i].resolved => tverdict[tpend[i].req] = tpend[i].outcome
        /\ ~tpend[i].resolved => tverdict[tpend[i].req] = "none" /\ tpend[i].outcome = "deny"

(* ... and a request has its leave before its tool is started.             *)
Leave(r) == r \in tpassed \/ tverdict[r] \in {"allow", "always"}

GateInv ==
    /\ \A r \in TReqs : tjob[r] = {} \/ Queued(r) => r \notin tran /\ tverdict[r] = "none"
    /\ \A w \in TWorkers, r \in TReqs : Holds(w, r) =>
         /\ twork[w].at \in {"start", "ask"} => tverdict[r] = "none"
         /\ twork[w].at # "done" => r \notin tran
         /\ twork[w].at = "blocked" => Asked(r)
         /\ twork[w].at = "run" => Leave(r)
         /\ twork[w].at = "done" /\ tverdict[r] \in {"allow", "always"} =>
              twork[w].ret # "eperm" \/ \E x \in twork[w].res : x.cls = "fatal"
    /\ \A r \in tran : Leave(r)

IInv == TypeOK /\ JobInv /\ QueueInv /\ RestInv /\ HoldInv /\ ResInv /\ PendInv /\ GateInv

-----------------------------------------------------------------------------
(* The values the actions choose.                                          *)

(* A request has one job ...                                               *)
LEMMA JobIs ==
    ASSUME TypeOK, JobInv, NEW r \in TReqs, tjob[r] # {}
    PROVE  JobOf(r) \in JobRec /\ tjob[r] = {JobOf(r)}
<1>1. JobOf(r) \in tjob[r]
    BY Zenon DEF JobOf
<1>2. \A j, k \in tjob[r] : k = j
    BY Zenon DEF JobInv
<1>3. tjob[r] \in SUBSET JobRec
    BY Zenon DEF TypeOK
<1> QED
    BY <1>1, <1>2, <1>3, Zenon

(* ... and a worker one request.                                           *)
LEMMA ReqIs ==
    ASSUME NEW w \in TWorkers, NEW r \in TReqs, Holds(w, r)
    PROVE  ReqOf(w) = r
BY Zenon DEF Holds, ReqOf

(* Whoever is at work holds a request.                                     *)
LEMMA AtWork ==
    ASSUME RestInv, NEW w \in TWorkers, twork[w].at # "rest"
    PROVE  ReqOf(w) \in TReqs /\ Holds(w, ReqOf(w))
<1>1. PICK r \in TReqs : Holds(w, r)
    BY Zenon DEF RestInv
<1> QED
    BY <1>1, ReqIs, Zenon

(* Worker w, who serves r, goes to step s with the result e, R.            *)
Moves(w, r, s, e, R) ==
    /\ twork' \in [TWorkers -> WorkRec]
    /\ twork'[w].at = s /\ twork'[w].req = {r} /\ twork'[w].ret = e /\ twork'[w].res = R
    /\ \A v \in TWorkers : v # w => twork'[v] = twork[v]

(* The assignments of the worker's steps.                                  *)
LEMMA FieldsMove ==
    ASSUME TypeOK, NEW w \in TWorkers, NEW r \in TReqs, Holds(w, r),
           NEW s \in Steps, NEW e \in Rets, NEW R \in SUBSET Res,
           twork' = [twork EXCEPT ![w] = [@ EXCEPT !.at = s, !.ret = e, !.res = R]]
    PROVE  Moves(w, r, s, e, R)
<1>1. twork \in [TWorkers -> WorkRec] /\ twork[w].req = {r}
    BY Zenon DEF TypeOK, Holds
<1>2. PICK x \in WorkRec : x = twork[w]
    BY <1>1, Zenon
<1>3. PICK y : y = [x EXCEPT !.at = s, !.ret = e, !.res = R]
    BY Zenon
<1>4. y \in WorkRec
    BY <1>3, Zenon DEF WorkRec
<1>5. y.at = s /\ y.ret = e /\ y.res = R /\ y.req = x.req
    BY <1>3 DEF WorkRec
<1>6. twork' = [twork EXCEPT ![w] = y]
    BY <1>2, <1>3, Zenon
<1>7. /\ twork' \in [TWorkers -> WorkRec] /\ twork'[w] = y
      /\ \A v \in TWorkers : v # w => twork'[v] = twork[v]
    BY <1>1, <1>4, <1>6, Zenon
<1> QED
    BY <1>1, <1>2, <1>5, <1>7, Zenon DEF Moves

LEMMA GotoMoves ==
    ASSUME TypeOK, NEW w \in TWorkers, NEW r \in TReqs, Holds(w, r), NEW s \in Steps, Goto(w, s)
    PROVE  Moves(w, r, s, twork[w].ret, twork[w].res)
<1>1. twork \in [TWorkers -> WorkRec] /\ twork[w].req = {r}
    BY Zenon DEF TypeOK, Holds
<1>2. PICK x \in WorkRec : x = twork[w]
    BY <1>1, Zenon
<1>3. PICK y : y = [x EXCEPT !.at = s]
    BY Zenon
<1>4. y \in WorkRec
    BY <1>3, Zenon DEF WorkRec
<1>5. y.at = s /\ y.ret = x.ret /\ y.res = x.res /\ y.req = x.req
    BY <1>3 DEF WorkRec
<1>6. twork' = [twork EXCEPT ![w] = y]
    BY <1>2, <1>3, Zenon DEF Goto
<1>7. /\ twork' \in [TWorkers -> WorkRec] /\ twork'[w] = y
      /\ \A v \in TWorkers : v # w => twork'[v] = twork[v]
    BY <1>1, <1>4, <1>6, Zenon
<1> QED
    BY <1>1, <1>2, <1>5, <1>7, Zenon DEF Moves

(* A call that is refused or cannot start.                                 *)
LEMMA FailMoves ==
    ASSUME TypeOK, NEW w \in TWorkers, NEW r \in TReqs, Holds(w, r),
           NEW c \in Cls, NEW e \in Rets, tool_fail(w, c, e)
    PROVE  Moves(w, r, "done", e, {TResult(FALSE, c, r)})
<1>1. (CHOOSE q \in twork[w].req : TRUE) = r
    BY Zenon DEF Holds
<1>2. TResult(FALSE, c, r) \in Res
    BY DEF TResult, Res
<1>3. PICK R : R = {TResult(FALSE, c, r)}
    BY Zenon
<1>4. R \in SUBSET Res
    BY <1>2, <1>3, Zenon
<1>5. twork' = [twork EXCEPT ![w] = [@ EXCEPT !.at = "done", !.ret = e, !.res = R]]
    BY <1>1, <1>3, Zenon DEF tool_fail
<1>6. "done" \in Steps
    BY Zenon DEF Steps
<1> QED
    BY <1>3, <1>4, <1>5, <1>6, FieldsMove, Zenon

(* A job nobody touches.                                                   *)
LEMMA SameJobOK ==
    ASSUME NEW q, tpc'[q] = tpc[q], tdown # "no" => tdown' # "no", NEW j,
           Queued(q) \/ InHand(q) => Queued(q)' \/ InHand(q)'
    PROVE  JobOK(q, j) => JobOK(q, j)'
BY DEF JobOK

(* A step keeps who serves which request.                                  *)
LEMMA SameHands ==
    ASSUME NEW w \in TWorkers, NEW r \in TReqs, Holds(w, r), NEW s, NEW e, NEW R,
           Moves(w, r, s, e, R)
    PROVE  /\ \A v \in TWorkers : twork'[v].req = twork[v].req
           /\ \A v \in TWorkers, q \in TReqs : Holds(v, q)' = Holds(v, q)
           /\ \A q \in TReqs : InHand(q)' = InHand(q)
<1>1. \A v \in TWorkers : twork'[v].req = twork[v].req
    BY Zenon DEF Moves, Holds
<1> QED
    BY <1>1, Zenon DEF Holds, InHand

-----------------------------------------------------------------------------
(* A worker goes from one step to the next: who waits for whom stays ...   *)
LEMMA MoveJobs ==
    ASSUME TypeOK, JobInv, QueueInv, RestInv, HoldInv,
           NEW w \in TWorkers, NEW r \in TReqs, Holds(w, r),
           NEW s \in Steps \ {"rest"}, NEW e, NEW R, Moves(w, r, s, e, R),
           UNCHANGED <<tpc, tjob, tqueue, tdown>>
    PROVE  JobInv' /\ QueueInv' /\ RestInv' /\ HoldInv'
<1>1. /\ \A v \in TWorkers, q \in TReqs : Holds(v, q)' = Holds(v, q)
      /\ \A q \in TReqs : InHand(q)' = InHand(q)
      /\ \A v \in TWorkers : twork'[v].req = twork[v].req
    BY SameHands, Zenon
<1>2. \A q \in TReqs : Queued(q)' = Queued(q)
    BY Zenon DEF Queued
<1>3. JobInv'
    <2>1. \A q \in TReqs : Queued(q) \/ InHand(q) => Queued(q)' \/ InHand(q)'
        BY <1>1, <1>2, Zenon
    <2>2. \A q \in TReqs : \A j : JobOK(q, j) => JobOK(q, j)'
        BY <2>1, SameJobOK, Zenon
    <2>3. tpc' = tpc /\ tjob' = tjob
        BY Zenon
    <2> QED
        BY <2>2, <2>3, Zenon DEF JobInv
<1>4. QueueInv'
    <2>1. \A i \in 1..Len(tqueue) : tqueue[i] \in TReqs
        BY DEF TypeOK
    <2> QED
        BY <1>1, <2>1, Zenon DEF QueueInv
<1>5. RestInv'
    <2> SUFFICES ASSUME NEW v \in TWorkers
                 PROVE  /\ twork'[v].at = "rest" => twork'[v].req = {}
                        /\ twork'[v].at # "rest" => \E q \in TReqs : Holds(v, q)'
        BY Zenon DEF RestInv
    <2>1. CASE v = w
        <3>1. twork'[v].at # "rest"
            BY <2>1 DEF Moves
        <3> QED
            BY <1>1, <2>1, <3>1, Zenon
    <2>2. CASE v # w
        <3>1. twork'[v] = twork[v]
            BY <2>2, Zenon DEF Moves
        <3> QED
            BY <1>1, <3>1, Zenon DEF RestInv
    <2> QED
        BY <2>1, <2>2, Zenon
<1>6. HoldInv'
    BY <1>1, Zenon DEF HoldInv
<1> QED
    BY <1>3, <1>4, <1>5, <1>6

(* ... the results stay those of their requests ...                        *)
LEMMA MoveRes ==
    ASSUME ResInv, NEW w \in TWorkers, NEW r \in TReqs, Holds(w, r),
           NEW s, NEW e, NEW R, Moves(w, r, s, e, R),
           UNCHANGED <<treq, tpc, tjob, treply, tcache>>, tran \subseteq tran',
           \A x \in R : x.from = r /\ (x.success => r \in tran')
    PROVE  ResInv'
<1>1. /\ \A v \in TWorkers, q \in TReqs : Holds(v, q)' = Holds(v, q)
      /\ \A v \in TWorkers : twork'[v].req = twork[v].req
    BY SameHands, Zenon
<1>2. \A q \in TReqs : \A j \in tjob[q] : \A x \in j.res : x.from = q /\ (x.success => q \in tran')
    BY DEF ResInv
<1>3. \A v \in TWorkers : \A q \in TReqs : Holds(v, q)' =>
         \A x \in twork'[v].res : x.from = q /\ (x.success => q \in tran')
    BY DEF ResInv, Holds, Moves
<1>4. \A q \in TReqs : \A a \in treply[q] : \A x \in a.res :
         tool_cache_key(x.from)' = tool_cache_key(q)' /\ (x.success => x.from \in tran')
    BY DEF ResInv, tool_cache_key
<1>5. \A k \in DOMAIN tcache : tcache[k] \in tran' /\ tool_cache_key(tcache[k])' = k
    BY DEF ResInv, tool_cache_key
<1> QED
    BY <1>2, <1>3, <1>4, <1>5, Zenon DEF ResInv

(* ... and so does the leave.                                              *)
LEMMA MoveGate ==
    ASSUME TypeOK, QueueInv, HoldInv, GateInv,
           NEW w \in TWorkers, NEW r \in TReqs, Holds(w, r), twork[w].at # "done",
           NEW s \in Steps \ {"rest", "start"}, NEW e, NEW R, Moves(w, r, s, e, R),
           UNCHANGED <<tjob, tqueue, tverdict>>, tpassed \subseteq tpassed',
           \/ tran' = tran
           \/ tran' = tran \cup {r} /\ s = "done" /\ Leave(r),
           s = "ask" => tverdict[r] = "none",
           s = "blocked" => Asked(r)',
           s = "run" => Leave(r)',
           s = "done" /\ tverdict[r] \in {"allow", "always"} =>
               e # "eperm" \/ \E x \in R : x.cls = "fatal",
           \A q \in TReqs : q # r => (Asked(q) => Asked(q)')
    PROVE  GateInv' /\ tran \subseteq tran' /\ tran' \subseteq TReqs
<1>1. /\ \A v \in TWorkers, q \in TReqs : Holds(v, q)' = Holds(v, q)
      /\ \A v \in TWorkers : twork'[v].req = twork[v].req
    BY SameHands, Zenon
<1>2. \A q \in TReqs : Queued(q)' = Queued(q)
    BY Zenon DEF Queued
<1>3. /\ tran \subseteq tran' /\ tran' \subseteq TReqs /\ (s # "done" => tran' = tran)
      /\ \A q \in TReqs : q # r => (q \in tran' <=> q \in tran)
    BY Zenon DEF TypeOK
<1>4. \A q \in TReqs : (tjob[q] = {} \/ Queued(q)) => q # r
    <2>1. tjob[r] # {}
        BY Zenon DEF HoldInv
    <2>2. ~Queued(r)
        BY Zenon DEF QueueInv, Queued
    <2> QED
        BY <2>1, <2>2, Zenon
<1>5. \A q \in TReqs : tjob'[q] = {} \/ Queued(q)' => q \notin tran' /\ tverdict'[q] = "none"
    BY <1>2, <1>3, <1>4, Zenon DEF GateInv
<1>6. \A q \in TReqs : Leave(q) => Leave(q)'
    BY Zenon DEF Leave
<1>7. r \notin tran
    BY Zenon DEF GateInv
<1>8. ASSUME NEW v \in TWorkers, NEW q \in TReqs, Holds(v, q)'
      PROVE  /\ twork'[v].at \in {"start", "ask"} => tverdict'[q] = "none"
             /\ twork'[v].at # "done" => q \notin tran'
             /\ twork'[v].at = "blocked" => Asked(q)'
             /\ twork'[v].at = "run" => Leave(q)'
             /\ twork'[v].at = "done" /\ tverdict'[q] \in {"allow", "always"} =>
                  twork'[v].ret # "eperm" \/ \E x \in twork'[v].res : x.cls = "fatal"
    <2>1. CASE v = w
        <3>1. /\ twork'[v].at = s /\ twork'[v].req = {r}
              /\ twork'[v].ret = e /\ twork'[v].res = R
            BY <2>1, Zenon DEF Moves
        <3>2. q = r
            BY <1>8, <3>1 DEF Holds
        <3> QED
            BY <1>3, <1>7, <3>1, <3>2, Zenon
    <2>2. CASE v # w
        <3>1. Holds(v, q) /\ twork'[v] = twork[v]
            BY <1>1, <1>8, <2>2, Zenon DEF Moves
        <3>2. q # r
            BY <2>2, <3>1, Zenon DEF HoldInv
        <3>3. /\ twork[v].at \in {"start", "ask"} => tverdict[q] = "none"
              /\ twork[v].at # "done" => q \notin tran
              /\ twork[v].at = "blocked" => Asked(q)
              /\ twork[v].at = "run" => Leave(q)
              /\ twork[v].at = "done" /\ tverdict[q] \in {"allow", "always"} =>
                   twork[v].ret # "eperm" \/ \E x \in twork[v].res : x.cls = "fatal"
            BY <3>1, Zenon DEF GateInv
        <3> QED
            BY <1>3, <1>6, <3>1, <3>2, <3>3, Zenon
    <2> QED
        BY <2>1, <2>2, Zenon
<1>9. \A q \in tran' : Leave(q)'
    BY <1>3, <1>6, Zenon DEF GateInv, TypeOK
<1> QED
    BY <1>3, <1>5, <1>8, <1>9, Zenon DEF GateInv

(* A worker that neither asks nor is answered leaves the questions alone.  *)
LEMMA SamePend ==
    ASSUME PendInv, NEW w \in TWorkers, NEW r \in TReqs, Holds(w, r), twork[w].at # "blocked",
           NEW s, NEW e, NEW R, Moves(w, r, s, e, R), UNCHANGED <<tpend, tverdict>>
    PROVE  PendInv' /\ \A q \in TReqs : Asked(q) => Asked(q)'
<1>1. \A v \in TWorkers : \A q : Holds(v, q) /\ twork[v].at = "blocked" =>
          Holds(v, q)' /\ twork'[v].at = "blocked"
    BY Zenon DEF Moves, Holds
<1>2. \A q \in TReqs : Asked(q) => Asked(q)'
    BY Zenon DEF Asked
<1>3. PendInv'
    BY <1>1, Zenon DEF PendInv
<1> QED
    BY <1>2, <1>3

(* One step of a worker that holds r.                                      *)
LEMMA MoveInv ==
    ASSUME IInv, NEW w \in TWorkers, NEW r \in TReqs, Holds(w, r), twork[w].at # "done",
           NEW s \in Steps \ {"rest", "start"}, NEW e, NEW R, Moves(w, r, s, e, R),
           UNCHANGED <<treq, tpc, tjob, treply, tqueue, tcache, tdown, tverdict>>,
           tpassed \subseteq tpassed',
           \/ tran' = tran
           \/ tran' = tran \cup {r} /\ s = "done" /\ Leave(r),
           \A x \in R : x.from = r /\ (x.success => r \in tran'),
           s = "ask" => tverdict[r] = "none",
           s = "blocked" => Asked(r)',
           s = "run" => Leave(r)',
           s = "done" /\ tverdict[r] \in {"allow", "always"} =>
               e # "eperm" \/ \E x \in R : x.cls = "fatal",
           \A q \in TReqs : q # r => (Asked(q) => Asked(q)'),
           tpend' \in Seq(Question), PendInv'
    PROVE  IInv'
<1>1. TypeOK /\ JobInv /\ QueueInv /\ RestInv /\ HoldInv /\ ResInv /\ GateInv
    BY Zenon DEF IInv
<1>2. GateInv' /\ tran \subseteq tran' /\ tran' \subseteq TReqs
    BY <1>1, MoveGate, Zenon
<1>3. JobInv' /\ QueueInv' /\ RestInv' /\ HoldInv'
    BY <1>1, MoveJobs, Zenon
<1>4. ResInv'
    BY <1>1, <1>2, MoveRes, Zenon
<1>5. TypeOK'
    BY <1>1, <1>2, Zenon DEF TypeOK, Moves
<1> QED
    BY <1>2, <1>3, <1>4, <1>5, Zenon DEF IInv

(* The same where nobody is asked or answered.                             *)
LEMMA QuietMove ==
    ASSUME IInv, NEW w \in TWorkers, NEW r \in TReqs, Holds(w, r),
           twork[w].at \notin {"done", "blocked"},
           NEW s \in {"ask", "run", "done"}, NEW e, NEW R, Moves(w, r, s, e, R),
           UNCHANGED <<treq, tpc, tjob, treply, tqueue, tcache, tdown, tverdict, tpend>>,
           tpassed \subseteq tpassed',
           \/ tran' = tran
           \/ tran' = tran \cup {r} /\ s = "done" /\ Leave(r),
           \A x \in R : x.from = r /\ (x.success => r \in tran'),
           s = "ask" => tverdict[r] = "none",
           s = "run" => Leave(r)',
           s = "done" /\ tverdict[r] \in {"allow", "always"} =>
               e # "eperm" \/ \E x \in R : x.cls = "fatal"
    PROVE  IInv'
<1>1. PendInv /\ tpend' \in Seq(Question)
    BY Zenon DEF IInv, TypeOK
<1>2. twork[w].at # "done" /\ twork[w].at # "blocked"
    BY Zenon
<1>3. PendInv' /\ \A q \in TReqs : Asked(q) => Asked(q)'
    BY <1>1, <1>2, SamePend, Zenon
<1>4. s \in Steps \ {"rest", "start"} /\ s # "blocked"
    BY Zenon DEF Steps
<1> QED
    BY <1>1, <1>2, <1>3, <1>4, MoveInv, Zenon

LEMMA QuietDone ==
    ASSUME IInv, NEW w \in TWorkers, NEW r \in TReqs, Holds(w, r),
           twork[w].at \notin {"done", "blocked"},
           NEW e, NEW R, Moves(w, r, "done", e, R),
           UNCHANGED <<treq, tpc, tjob, treply, tqueue, tcache, tdown, tverdict, tpend>>,
           tpassed \subseteq tpassed',
           tran' = tran \/ (tran' = tran \cup {r} /\ Leave(r)),
           \A x \in R : x.from = r /\ (x.success => r \in tran'),
           tverdict[r] \in {"allow", "always"} => e # "eperm" \/ \E x \in R : x.cls = "fatal"
    PROVE  IInv'
<1>1. PICK s \in {"ask", "run", "done"} : s = "done"
    OBVIOUS
<1>2. s # "ask" /\ s # "run"
    BY <1>1
<1>3. Moves(w, r, s, e, R)
    BY <1>1, Zenon
<1> QED
    BY <1>1, <1>2, <1>3, QuietMove, Zenon

(* A refused call.                                                         *)
LEMMA QuietFail ==
    ASSUME IInv, NEW w \in TWorkers, NEW r \in TReqs, Holds(w, r),
           twork[w].at \notin {"done", "blocked"},
           NEW c \in Cls, NEW e \in Rets, tool_fail(w, c, e),
           UNCHANGED <<treq, tpc, tjob, treply, tqueue, tcache, tdown, tverdict, tpend>>,
           tpassed \subseteq tpassed', tran' = tran,
           tverdict[r] \notin {"allow", "always"} \/ c = "fatal"
    PROVE  IInv'
<1>1. TypeOK
    BY Zenon DEF IInv
<1>2. PICK R : R = {TResult(FALSE, c, r)}
    BY Zenon
<1>3. Moves(w, r, "done", e, R)
    BY <1>1, <1>2, FailMoves, Zenon
<1>4. (\A x \in R : x.from = r /\ ~x.success) /\ \E x \in R : x.cls = c
    BY <1>2 DEF TResult
<1>5. \A x \in R : x.from = r /\ (x.success => r \in tran')
    BY <1>4, Zenon
<1>6. tverdict[r] \in {"allow", "always"} => e # "eperm" \/ \E x \in R : x.cls = "fatal"
    BY <1>4, Zenon
<1> QED
    BY <1>3, <1>5, <1>6, QuietDone, Zenon

(* The executor refuses a tool before anything is asked.                   *)
LEMMA RefusesStep ==
    ASSUME IInv, NEW w \in TWorkers, executor_refuses(w)
    PROVE  IInv'
<1>1. TypeOK /\ RestInv /\ GateInv
    BY Zenon DEF IInv
<1>2. twork[w].at = "start" /\ twork[w].at # "rest" /\ twork[w].at \notin {"done", "blocked"}
    BY DEF executor_refuses, At
<1>3. PICK r \in TReqs : Holds(w, r)
    BY <1>1, <1>2, Zenon DEF RestInv
<1>4. tverdict[r] = "none"
    BY <1>1, <1>2, <1>3, Zenon DEF GateInv
<1>5. PICK c \in Cls, e \in Rets : tool_fail(w, c, e)
    BY Zenon DEF executor_refuses, Cls, Rets
<1>7. /\ UNCHANGED <<treq, tpc, tjob, treply, tqueue, tcache, tdown, tverdict, tpend>>
      /\ tpassed \subseteq tpassed' /\ tran' = tran
    BY Zenon DEF executor_refuses
<1>8. tverdict[r] \notin {"allow", "always"}
    BY <1>4
<1> QED
    BY <1>2, <1>3, <1>5, <1>7, <1>8, QuietFail, Zenon

(* The SafetyGuard chain passes, denies, or leaves the call to the user.   *)
LEMMA BridgeStep ==
    ASSUME IInv, NEW w \in TWorkers, safety_guard_bridge_check(w)
    PROVE  IInv'
<1>1. TypeOK /\ RestInv /\ GateInv /\ ResInv
    BY Zenon DEF IInv
<1>2. twork[w].at = "start" /\ twork[w].at # "rest" /\ twork[w].at \notin {"done", "blocked"}
    BY DEF safety_guard_bridge_check, At
<1>3. PICK r \in TReqs : Holds(w, r)
    BY <1>1, <1>2, Zenon DEF RestInv
<1>4. tverdict[r] = "none" /\ ReqOf(w) = r
    BY <1>1, <1>2, <1>3, ReqIs, Zenon DEF GateInv
<1>5. PICK pass \in BOOLEAN : tpassed' = (IF pass THEN tpassed \cup {r} ELSE tpassed) /\ gate_ask(w, pass)
    BY <1>4, Zenon DEF safety_guard_bridge_check, tool_approval_check_for_agent
<1>6. /\ UNCHANGED <<treq, tpc, tjob, treply, tqueue, tcache, tdown, tverdict, tpend>>
      /\ tran' = tran
    BY Zenon DEF safety_guard_bridge_check
<1>7. tpassed \subseteq tpassed' /\ (pass => Leave(r)')
    BY <1>5, Zenon DEF Leave
<1>8. tverdict[r] \notin {"allow", "always"}
    BY <1>4
<1>9. \A x \in twork[w].res : x.from = r /\ (x.success => r \in tran')
    BY <1>1, <1>3, <1>6, Zenon DEF ResInv
<1>10. CASE pass /\ Goto(w, "run")
    <2>1. Moves(w, r, "run", twork[w].ret, twork[w].res)
        BY <1>1, <1>3, <1>10, GotoMoves, Zenon DEF Steps
    <2> QED
        BY <1>2, <1>3, <1>6, <1>7, <1>8, <1>9, <1>10, <2>1, QuietMove, Zenon
<1>11. CASE Goto(w, "ask")
    <2>1. Moves(w, r, "ask", twork[w].ret, twork[w].res)
        BY <1>1, <1>3, <1>11, GotoMoves, Zenon DEF Steps
    <2>2. "ask" # "run" /\ "ask" # "done"
        OBVIOUS
    <2> QED
        BY <1>2, <1>3, <1>4, <1>6, <1>7, <1>8, <1>9, <2>1, <2>2, QuietMove, Zenon
<1>12. CASE tool_fail(w, "respond", "eperm")
    <2>1. PICK c \in Cls, e \in Rets : c = "respond" /\ e = "eperm"
        BY Zenon DEF Cls, Rets
    <2>2. tool_fail(w, c, e)
        BY <1>12, <2>1, Zenon
    <2> QED
        BY <1>2, <1>3, <1>6, <1>7, <1>8, <2>2, QuietFail, Zenon
<1> QED
    BY <1>5, <1>10, <1>11, <1>12, Zenon DEF gate_ask

(* A built-in tool runs.                                                   *)
LEMMA BuiltinStep ==
    ASSUME IInv, NEW w \in TWorkers, tool_builtin_exec(w)
    PROVE  IInv'
<1>1. TypeOK /\ RestInv /\ GateInv
    BY Zenon DEF IInv
<1>2. twork[w].at = "run" /\ twork[w].at # "rest" /\ twork[w].at \notin {"done", "blocked"}
    BY DEF tool_builtin_exec, At
<1>3. PICK r \in TReqs : Holds(w, r)
    BY <1>1, <1>2, Zenon DEF RestInv
<1>4. Leave(r) /\ ReqOf(w) = r
    BY <1>1, <1>2, <1>3, ReqIs, Zenon DEF GateInv
<1>5. PICK ok \in BOOLEAN :
          twork' = [twork EXCEPT ![w] = [@ EXCEPT !.at = "done",
                 !.ret = IF ok THEN "ok" ELSE "builtin_failed",
                 !.res = {TResult(ok, IF ok THEN "ok" ELSE "fail", ReqOf(w))}]]
    BY Zenon DEF tool_builtin_exec
<1>6. PICK e \in Rets, c \in Cls :
          /\ e = IF ok THEN "ok" ELSE "builtin_failed"
          /\ c = IF ok THEN "ok" ELSE "fail"
    BY Zenon DEF Cls, Rets
<1>7. PICK R : R = {TResult(ok, c, r)}
    BY Zenon
<1>8. R \in SUBSET Res /\ \A x \in R : x.from = r
    BY <1>7 DEF TResult, Res
<1>9. twork' = [twork EXCEPT ![w] = [@ EXCEPT !.at = "done", !.ret = e, !.res = R]]
    BY <1>4, <1>5, <1>6, <1>7, Zenon
<1>10. Moves(w, r, "done", e, R)
    BY <1>1, <1>3, <1>8, <1>9, FieldsMove, Zenon DEF Steps
<1>11. /\ UNCHANGED <<treq, tpc, tjob, treply, tqueue, tcache, tdown, tverdict, tpend>>
       /\ tpassed \subseteq tpassed' /\ tran' = tran \cup {r} /\ r \in tran'
    BY <1>4, Zenon DEF tool_builtin_exec
<1>12. e # "eperm"
    BY <1>6
<1>13. \A x \in R : x.from = r /\ (x.success => r \in tran')
    BY <1>8, <1>11, Zenon
<1> QED
    BY <1>2, <1>3, <1>4, <1>10, <1>11, <1>12, <1>13, QuietDone, Zenon

(* A command runs in the sandbox, or cannot be started there.              *)
LEMMA SandboxStep ==
    ASSUME IInv, NEW w \in TWorkers, sandbox_exec(w)
    PROVE  IInv'
<1>1. TypeOK /\ RestInv /\ GateInv
    BY Zenon DEF IInv
<1>2. twork[w].at = "run" /\ twork[w].at # "rest" /\ twork[w].at \notin {"done", "blocked"}
    <2>1. twork[w].at = "run"
        BY Zenon DEF sandbox_exec, At
    <2> QED
        BY <2>1
<1>3. PICK r \in TReqs : Holds(w, r)
    BY <1>1, <1>2, Zenon DEF RestInv
<1>4. Leave(r) /\ ReqOf(w) = r
    BY <1>1, <1>2, <1>3, ReqIs, Zenon DEF GateInv
<1>5. /\ UNCHANGED <<treq, tpc, tjob, treply, tqueue, tcache, tdown, tverdict, tpend>>
      /\ tpassed \subseteq tpassed'
    BY Zenon DEF sandbox_exec
<1>6. CASE tool_fail(w, "fatal", "eperm") /\ tran' = tran
    <2>1. PICK c \in Cls, e \in Rets : c = "fatal" /\ e = "eperm"
        BY Zenon DEF Cls, Rets
    <2>2. tool_fail(w, c, e)
        BY <1>6, <2>1, Zenon
    <2> QED
        BY <1>2, <1>3, <1>5, <1>6, <2>1, <2>2, QuietFail, Zenon
<1>7. ASSUME NEW st \in ExitStatus, tran' = tran \cup {r},
             twork' = [twork EXCEPT ![w] = [@ EXCEPT !.at = "done", !.ret = "ok",
                       !.res = {tool_set_exit(r, st)}]]
      PROVE  IInv'
    <2>1. PICK R : R = {tool_set_exit(r, st)}
        BY Zenon
    <2>2. R \in SUBSET Res /\ \A x \in R : x.from = r
        <3>1. \/ tool_set_exit(r, st) = TResult(TRUE, "ok", r)
              \/ tool_set_exit(r, st) = TResult(FALSE, "respond", r)
              \/ tool_set_exit(r, st) = TResult(FALSE, "fail", r)
            BY Zenon DEF tool_set_exit, ExitStatus
        <3>2. PICK t : t = tool_set_exit(r, st)
            BY Zenon
        <3>3. PICK b \in BOOLEAN, c \in Cls : t = TResult(b, c, r)
            BY <3>1, <3>2, Zenon DEF Cls
        <3>4. t \in Res /\ t.from = r
            BY <3>3, Zenon DEF TResult, Res
        <3> QED
            BY <2>1, <3>2, <3>4, Zenon
    <2>3. Moves(w, r, "done", "ok", R)
        <3>1. PICK e \in Rets : e = "ok"
            BY Zenon DEF Rets
        <3>2. "done" \in Steps
            BY Zenon DEF Steps
        <3>3. twork' = [twork EXCEPT ![w] = [@ EXCEPT !.at = "done", !.ret = e, !.res = R]]
            BY <1>7, <2>1, <3>1, Zenon
        <3>4. Moves(w, r, "done", e, R)
            BY <1>1, <1>3, <2>2, <3>2, <3>3, FieldsMove, Zenon
        <3> QED
            BY <3>1, <3>4, Zenon
    <2>4. "ok" # "eperm" /\ r \in tran'
        BY <1>7
    <2>5. \A x \in R : x.from = r /\ (x.success => r \in tran')
        BY <2>2, <2>4, Zenon
    <2> QED
        BY <1>2, <1>3, <1>4, <1>5, <1>7, <2>3, <2>4, <2>5, QuietDone, Zenon
<1> QED
    BY <1>4, <1>6, <1>7, Zenon DEF sandbox_exec

-----------------------------------------------------------------------------
(* What a step leaves alone.                                               *)
LEMMA SameJobs ==
    ASSUME UNCHANGED <<tpc, tjob, tqueue, twork, tdown>>
    PROVE  /\ JobInv => JobInv'
           /\ QueueInv => QueueInv'
           /\ RestInv => RestInv'
           /\ HoldInv => HoldInv'
<1>1. JobInv => JobInv'
    <2>1. \A q \in TReqs : Queued(q) \/ InHand(q) => Queued(q)' \/ InHand(q)'
        BY Zenon DEF Queued, InHand
    <2>2. \A q \in TReqs : \A j : JobOK(q, j) => JobOK(q, j)'
        BY <2>1, SameJobOK, Zenon
    <2> QED
        BY <2>2, Zenon DEF JobInv
<1>2. QueueInv => QueueInv'
    BY DEF QueueInv, Holds
<1>3. RestInv => RestInv'
    BY DEF RestInv, Holds
<1>4. HoldInv => HoldInv'
    BY DEF HoldInv, Holds
<1> QED
    BY <1>1, <1>2, <1>3, <1>4, Zenon

LEMMA SameRes ==
    ASSUME UNCHANGED <<treq, tpc, tjob, treply, twork, tcache, tran>>
    PROVE  ResInv => ResInv'
BY DEF ResInv, Holds, tool_cache_key

LEMMA SameWorkRes ==
    ASSUME ResInv, UNCHANGED <<twork, tran>>
    PROVE  \A v \in TWorkers : \A q \in TReqs : Holds(v, q)' =>
               \A x \in twork'[v].res : x.from = q /\ (x.success => q \in tran')
<1>1. \A v \in TWorkers : \A q \in TReqs : Holds(v, q) =>
          \A x \in twork[v].res : x.from = q /\ (x.success => q \in tran)
    BY Zenon DEF ResInv
<1> QED
    BY <1>1, Zenon DEF Holds

LEMMA SameReplyRes ==
    ASSUME ResInv, UNCHANGED <<treq, treply, tran>>
    PROVE  \A q \in TReqs : \A a \in treply'[q] : \A x \in a.res :
               tool_cache_key(x.from)' = tool_cache_key(q)' /\ (x.success => x.from \in tran')
<1>1. \A q \in TReqs : \A a \in treply[q] : \A x \in a.res :
          tool_cache_key(x.from) = tool_cache_key(q) /\ (x.success => x.from \in tran)
    BY Zenon DEF ResInv
<1> QED
    BY <1>1, Zenon DEF tool_cache_key

LEMMA SameCacheRes ==
    ASSUME ResInv, UNCHANGED <<treq, tcache, tran>>
    PROVE  \A m \in DOMAIN tcache' : tcache'[m] \in tran' /\ tool_cache_key(tcache[m])' = m
<1>1. \A m \in DOMAIN tcache : tcache[m] \in tran /\ tool_cache_key(tcache[m]) = m
    BY Zenon DEF ResInv
<1> QED
    BY <1>1, Zenon DEF tool_cache_key

LEMMA SameWorkGate ==
    ASSUME GateInv, UNCHANGED <<twork, tpend, tran, tverdict, tpassed>>
    PROVE  \A v \in TWorkers, q \in TReqs : Holds(v, q)' =>
             /\ twork'[v].at \in {"start", "ask"} => tverdict'[q] = "none"
             /\ twork'[v].at # "done" => q \notin tran'
             /\ twork'[v].at = "blocked" => Asked(q)'
             /\ twork'[v].at = "run" => Leave(q)'
             /\ twork'[v].at = "done" /\ tverdict'[q] \in {"allow", "always"} =>
                  twork'[v].ret # "eperm" \/ \E x \in twork'[v].res : x.cls = "fatal"
BY DEF GateInv, Holds, Asked, Leave

LEMMA SameGate ==
    ASSUME UNCHANGED <<tjob, tqueue, twork, tpend, tran, tverdict, tpassed>>
    PROVE  GateInv => GateInv'
BY DEF GateInv, Queued, Holds, Asked, Leave

LEMMA SamePending ==
    ASSUME UNCHANGED <<twork, tpend, tverdict>>
    PROVE  PendInv => PendInv'
BY DEF PendInv, Holds

-----------------------------------------------------------------------------
(* The questions.                                                          *)

(* What PendInv says of one question.                                      *)
Waits(x) ==
    /\ \E w \in TWorkers : Holds(w, x.req) /\ twork[w].at = "blocked"
    /\ x.resolved => tverdict[x.req] = x.outcome
    /\ ~x.resolved => tverdict[x.req] = "none" /\ x.outcome = "deny"

LEMMA PendParts ==
    PendInv <=> /\ \A i \in 1..Len(tpend) : Waits(tpend[i])
                /\ \A i, k \in 1..Len(tpend) : tpend[k].req = tpend[i].req => k = i
BY Zenon DEF PendInv, Waits

LEMMA PendPartsPrimed ==
    PendInv' <=> /\ \A i \in 1..Len(tpend') : Waits(tpend[i])'
                 /\ \A i, k \in 1..Len(tpend') : tpend'[k].req = tpend'[i].req => k = i
BY Zenon DEF PendInv, Waits

(* A question stays as it is when another worker moves.                    *)
LEMMA SameWaits ==
    ASSUME NEW x, Waits(x), NEW w \in TWorkers, NEW r, x.req # r, Holds(w, r),
           NEW s, NEW e, NEW R, Moves(w, r, s, e, R), UNCHANGED tverdict
    PROVE  Waits(x)'
<1>1. PICK v \in TWorkers : Holds(v, x.req) /\ twork[v].at = "blocked"
    BY Zenon DEF Waits
<1>2. v # w
    BY <1>1 DEF Holds
<1>3. twork'[v] = twork[v]
    BY <1>2, Zenon DEF Moves
<1>4. Holds(v, x.req)' /\ twork'[v].at = "blocked"
    BY <1>1, <1>3, Zenon DEF Holds
<1> QED
    BY <1>4, Zenon DEF Waits

(* A worker asks.                                                          *)
LEMMA PendPush ==
    ASSUME IInv, NEW w \in TWorkers, NEW r \in TReqs, Holds(w, r), twork[w].at = "ask",
           NEW e, NEW R, Moves(w, r, "blocked", e, R), UNCHANGED tverdict,
           tpend' = Append(tpend, [req |-> r, resolved |-> FALSE, outcome |-> "deny"])
    PROVE  PendInv' /\ tpend' \in Seq(Question) /\ Asked(r)' /\ \A q \in TReqs : Asked(q) => Asked(q)'
<1>1. PendInv /\ HoldInv /\ GateInv /\ tpend \in Seq(Question)
    BY Zenon DEF IInv, TypeOK
<1>2. PICK x : x = [req |-> r, resolved |-> FALSE, outcome |-> "deny"]
    BY Zenon
<1>3. x \in Question /\ x.req = r /\ ~x.resolved /\ x.outcome = "deny"
    BY <1>2 DEF Question
<1>4. tpend' = Append(tpend, x)
    BY <1>2, Zenon
<1>5. PICK n \in Nat : n = Len(tpend)
    BY <1>1
<1>6. tpend' \in Seq(Question) /\ Len(tpend') = n + 1
    BY <1>1, <1>3, <1>4, <1>5
<1>7. tpend'[n + 1] = x /\ \A i \in 1..n : tpend'[i] = tpend[i]
    BY <1>1, <1>3, <1>4, <1>5
<1>8. n + 1 \in 1..(n + 1) /\ \A i \in 1..(n + 1) : i \in 1..n \/ i = n + 1
    OBVIOUS
<1>9. \A i \in 1..n : i \in 1..(n + 1)
    OBVIOUS
<1>10. /\ \A i \in 1..n : Waits(tpend[i])
       /\ \A i, k \in 1..n : tpend[k].req = tpend[i].req => k = i
    BY <1>1, <1>5, PendParts, Zenon
<1>11. ASSUME NEW i \in 1..n
       PROVE  tpend[i].req # r
    <2>1. SUFFICES ASSUME tpend[i].req = r
                   PROVE  FALSE
        BY Zenon
    <2>2. PICK v \in TWorkers : Holds(v, r) /\ twork[v].at = "blocked"
        BY <1>10, <2>1, Zenon DEF Waits
    <2>3. v = w
        BY <1>1, <2>2, Zenon DEF HoldInv
    <2> QED
        BY <2>2, <2>3
<1>12. Waits(x)'
    <2>1. tverdict'[r] = "none"
        BY <1>1, Zenon DEF GateInv
    <2>2. Holds(w, x.req)' /\ twork'[w].at = "blocked"
        BY <1>3, Zenon DEF Holds, Moves
    <2> QED
        BY <1>3, <2>1, <2>2, Zenon DEF Waits
<1>13. ASSUME NEW i \in 1..n
       PROVE  Waits(tpend[i])'
    <2>1. PICK y : y = tpend[i]
        BY Zenon
    <2>2. Waits(y) /\ y.req # r
        BY <1>10, <1>11, <2>1, Zenon
    <2>3. Waits(y)'
        BY <2>2, SameWaits, Zenon
    <2>4. tpend'[i] = y
        BY <1>7, <2>1, Zenon
    <2> QED
        BY <2>3, <2>4, Zenon
<1>14. \A i \in 1..Len(tpend') : Waits(tpend[i])'
    <2>1. Waits(tpend[n + 1])'
        BY <1>7, <1>12, Zenon
    <2> QED
        BY <1>6, <1>8, <1>13, <2>1, Zenon
<1>15. ASSUME NEW i \in 1..(n + 1), NEW k \in 1..(n + 1), tpend'[k].req = tpend'[i].req
       PROVE  k = i
    <2>1. \A j \in 1..n : tpend'[j].req # r
        BY <1>7, <1>11, Zenon
    <2>2. tpend'[n + 1].req = r
        BY <1>3, <1>7, Zenon
    <2>3. CASE i \in 1..n /\ k \in 1..n
        BY <1>7, <1>10, <1>15, <2>3, Zenon
    <2> QED
        BY <1>8, <1>15, <2>1, <2>2, <2>3, Zenon
<1>16. Asked(r)' /\ \A q \in TReqs : Asked(q) => Asked(q)'
    BY <1>3, <1>5, <1>6, <1>7, <1>8, <1>9, Zenon DEF Asked
<1> QED
    <2>1. \A i, k \in 1..Len(tpend') : tpend'[k].req = tpend'[i].req => k = i
        BY <1>6, <1>15, Zenon
    <2> QED
        BY <1>6, <1>14, <1>16, <2>1, PendPartsPrimed, Zenon

(* The place in s of the k-th element of s without its i-th.               *)
Skip(i, k) == IF k < i THEN k ELSE k + 1

LEMMA SkipIs ==
    ASSUME NEW n \in Nat, NEW i \in 1..n
    PROVE  /\ \A k \in 1..(n - 1) : Skip(i, k) \in 1..n /\ Skip(i, k) # i
           /\ \A k, l \in 1..(n - 1) : Skip(i, k) = Skip(i, l) => k = l
           /\ \A m \in 1..n : m # i => \E k \in 1..(n - 1) : Skip(i, k) = m
<1>1. \A k \in 1..(n - 1) : Skip(i, k) \in 1..n /\ Skip(i, k) # i
    BY DEF Skip
<1>2. \A k, l \in 1..(n - 1) : Skip(i, k) = Skip(i, l) => k = l
    BY DEF Skip
<1>3. ASSUME NEW m \in 1..n, m # i
      PROVE  \E k \in 1..(n - 1) : Skip(i, k) = m
    <2>1. CASE m < i
        <3>1. m \in 1..(n - 1) /\ Skip(i, m) = m
            BY <2>1 DEF Skip
        <3> QED
            BY <3>1, Zenon
    <2>2. CASE m > i
        <3>1. m - 1 \in 1..(n - 1) /\ Skip(i, m - 1) = m
            BY <2>2 DEF Skip
        <3> QED
            BY <3>1, Zenon
    <2> QED
        BY <1>3, <2>1, <2>2
<1> QED
    BY <1>1, <1>2, <1>3, Zenon

(* A sequence without its i-th element.                                    *)
LEMMA DropIs ==
    ASSUME NEW S, NEW q \in Seq(S), NEW i \in 1..Len(q)
    PROVE  /\ DropAt(q, i) \in Seq(S) /\ Len(DropAt(q, i)) = Len(q) - 1
           /\ \A j \in 1..(Len(q) - 1) : DropAt(q, i)[j] = q[Skip(i, j)]
<1>1. PICK m \in 1..(Len(q) + 1), n \in 0..Len(q) : m = i + 1 /\ n = i - 1
    OBVIOUS
<1>2. PICK a \in Seq(S) : /\ a = SubSeq(q, 1, n) /\ Len(a) = n
                          /\ \A j \in 1..n : a[j] = q[j]
    <2>1. SubSeq(q, 1, n) \in Seq(S)
        OBVIOUS
    <2>2. Len(SubSeq(q, 1, n)) = n
        OBVIOUS
    <2>3. \A j \in 1..n : SubSeq(q, 1, n)[j] = q[j]
        OBVIOUS
    <2> QED
        BY <2>1, <2>2, <2>3, Zenon
<1>3. PICK b \in Seq(S) : /\ b = SubSeq(q, m, Len(q)) /\ Len(b) = Len(q) - m + 1
                          /\ \A j \in 1..(Len(q) - m + 1) : b[j] = q[m + j - 1]
    <2>1. SubSeq(q, m, Len(q)) \in Seq(S)
        OBVIOUS
    <2>2. Len(SubSeq(q, m, Len(q))) = Len(q) - m + 1
        OBVIOUS
    <2>3. \A j \in 1..(Len(q) - m + 1) : SubSeq(q, m, Len(q))[j] = q[m + j - 1]
        OBVIOUS
    <2> QED
        BY <2>1, <2>2, <2>3, Zenon
<1>4. PICK c \in Seq(S) : /\ c = a \o b /\ Len(c) = Len(a) + Len(b)
                          /\ \A j \in 1..Len(a) : c[j] = a[j]
                          /\ \A j \in 1..Len(b) : c[Len(a) + j] = b[j]
    <2>1. a \o b \in Seq(S)
        OBVIOUS
    <2>2. Len(a \o b) = Len(a) + Len(b)
        OBVIOUS
    <2>3. \A j \in 1..Len(a) : (a \o b)[j] = a[j]
        OBVIOUS
    <2>4. \A j \in 1..Len(b) : (a \o b)[Len(a) + j] = b[j]
        OBVIOUS
    <2> QED
        BY <2>1, <2>2, <2>3, <2>4, Zenon
<1>5. Len(a) = i - 1 /\ Len(b) = Len(q) - i /\ Len(c) = Len(q) - 1
    <2>1. Len(a) = n /\ Len(b) = Len(q) - m + 1 /\ Len(c) = Len(a) + Len(b)
        BY <1>2, <1>3, <1>4, Zenon
    <2> QED
        BY <1>1, <2>1
<1>6. ASSUME NEW j \in 1..(Len(q) - 1)
      PROVE  c[j] = q[Skip(i, j)]
    <2>1. CASE j < i
        <3>1. j \in 1..Len(a) /\ j \in 1..n /\ Skip(i, j) = j
            BY <1>1, <1>5, <2>1 DEF Skip
        <3> QED
            BY <1>2, <1>4, <3>1, Zenon
    <2>2. CASE ~(j < i)
        <3>1. PICK k \in 1..Len(b) : j = Len(a) + k
            <4>1. j - Len(a) \in 1..Len(b) /\ j = Len(a) + (j - Len(a))
                BY <1>5, <2>2
            <4> QED
                BY <4>1, Zenon
        <3>2. c[j] = b[k]
            BY <1>4, <3>1, Zenon
        <3>3. k \in 1..(Len(q) - m + 1) /\ m + k - 1 = Skip(i, j)
            BY <1>1, <1>5, <2>2, <3>1 DEF Skip
        <3> QED
            BY <1>3, <3>2, <3>3, Zenon
    <2> QED
        BY <2>1, <2>2, Zenon
<1>7. DropAt(q, i) = c
    BY <1>1, <1>2, <1>3, <1>4, Zenon DEF DropAt
<1> QED
    BY <1>5, <1>6, <1>7, Zenon

(* A worker's wait ends.                                                   *)
LEMMA PendDrop ==
    ASSUME IInv, NEW w \in TWorkers, NEW r \in TReqs, Holds(w, r),
           NEW i \in 1..Len(tpend), tpend[i].req = r,
           NEW s, NEW e, NEW R, Moves(w, r, s, e, R), UNCHANGED tverdict,
           tpend' = DropAt(tpend, i)
    PROVE  /\ PendInv' /\ tpend' \in Seq(Question)
           /\ \A q \in TReqs : q # r => (Asked(q) => Asked(q)')
<1>1. PendInv /\ tpend \in Seq(Question)
    BY Zenon DEF IInv, TypeOK
<1>2. PICK n \in Nat : n = Len(tpend)
    BY <1>1
<1>3. tpend' \in Seq(Question) /\ Len(tpend') = n - 1 /\ \A j \in 1..(n - 1) : tpend'[j] = tpend[Skip(i, j)]
    BY <1>1, <1>2, DropIs, Zenon
<1>4. /\ \A k \in 1..(n - 1) : Skip(i, k) \in 1..n /\ Skip(i, k) # i
      /\ \A k, l \in 1..(n - 1) : Skip(i, k) = Skip(i, l) => k = l
      /\ \A m \in 1..n : m # i => \E k \in 1..(n - 1) : Skip(i, k) = m
    BY <1>2, SkipIs, Zenon
<1>5. /\ \A j \in 1..n : Waits(tpend[j])
      /\ \A j, k \in 1..n : tpend[k].req = tpend[j].req => k = j
    BY <1>1, <1>2, PendParts, Zenon
<1>6. ASSUME NEW j \in 1..(n - 1)
      PROVE  Waits(tpend[j])'
    <2>1. PICK y : y = tpend[Skip(i, j)]
        BY Zenon
    <2>2. Waits(y) /\ y.req # r
        BY <1>2, <1>4, <1>5, <2>1, Zenon
    <2>3. Waits(y)'
        BY <2>2, SameWaits, Zenon
    <2>4. tpend'[j] = y
        BY <1>3, <2>1, Zenon
    <2> QED
        BY <2>3, <2>4, Zenon
<1>7. ASSUME NEW j \in 1..(n - 1), NEW k \in 1..(n - 1), tpend'[k].req = tpend'[j].req
      PROVE  k = j
    <2>1. Skip(i, k) = Skip(i, j)
        <3>1. Skip(i, k) \in 1..n /\ Skip(i, j) \in 1..n
            BY <1>4, Zenon
        <3>2. tpend[Skip(i, k)].req = tpend[Skip(i, j)].req
            BY <1>3, <1>7, Zenon
        <3> QED
            BY <1>5, <3>1, <3>2, Zenon
    <2> QED
        BY <1>4, <2>1, Zenon
<1>8. ASSUME NEW q \in TReqs, q # r, Asked(q)
      PROVE  Asked(q)'
    <2>1. PICK m \in 1..n : tpend[m].req = q
        BY <1>2, <1>8, Zenon DEF Asked
    <2>2. m # i
        BY <1>8, <2>1
    <2>3. PICK k \in 1..(n - 1) : Skip(i, k) = m
        BY <1>4, <2>2, Zenon
    <2> QED
        BY <1>3, <2>1, <2>3, Zenon DEF Asked
<1>9. PendInv'
    <2>1. \A j, k \in 1..Len(tpend') : tpend'[k].req = tpend'[j].req => k = j
        BY <1>3, <1>7, Zenon
    <2>2. \A j \in 1..Len(tpend') : Waits(tpend[j])'
        BY <1>3, <1>6, Zenon
    <2> QED
        BY <2>1, <2>2, PendPartsPrimed, Zenon
<1> QED
    BY <1>3, <1>8, <1>9, Zenon

(* interactive_approval_block, first half.                                 *)
LEMMA PendingStep ==
    ASSUME IInv, NEW w \in TWorkers, approval_pending(w)
    PROVE  IInv'
<1>1. TypeOK /\ RestInv /\ GateInv /\ ResInv
    BY Zenon DEF IInv
<1>2. twork[w].at = "ask" /\ twork[w].at # "rest" /\ twork[w].at # "done"
    BY DEF approval_pending, At
<1>3. PICK r \in TReqs : Holds(w, r)
    BY <1>1, <1>2, Zenon DEF RestInv
<1>4. ReqOf(w) = r
    BY <1>3, ReqIs, Zenon
<1>5. PICK s \in Steps \ {"rest", "start"} : s = "blocked"
    BY DEF Steps
<1>6. s # "ask" /\ s # "run" /\ s # "done"
    BY <1>5
<1>7. Moves(w, r, "blocked", twork[w].ret, twork[w].res)
    BY <1>1, <1>3, <1>5, GotoMoves, Zenon DEF approval_pending
<1>8. Moves(w, r, s, twork[w].ret, twork[w].res)
    BY <1>5, <1>7, Zenon
<1>9. /\ UNCHANGED <<treq, tpc, tjob, treply, tqueue, tcache, tdown, tverdict>>
      /\ tpassed \subseteq tpassed' /\ tran' = tran
    BY Zenon DEF approval_pending
<1>10. tpend' = Append(tpend, [req |-> r, resolved |-> FALSE, outcome |-> "deny"])
    BY <1>4, Zenon DEF approval_pending
<1>11. PendInv' /\ tpend' \in Seq(Question) /\ Asked(r)' /\ \A q \in TReqs : Asked(q) => Asked(q)'
    BY <1>2, <1>3, <1>7, <1>9, <1>10, PendPush, Zenon
<1>12. \A x \in twork[w].res : x.from = r /\ (x.success => r \in tran')
    BY <1>1, <1>3, <1>9, Zenon DEF ResInv
<1> QED
    BY <1>2, <1>3, <1>6, <1>8, <1>9, <1>11, <1>12, MoveInv, Zenon

(* Second half: the decision, or the deadline.                             *)
LEMMA WokenStep ==
    ASSUME IInv, NEW w \in TWorkers, approval_woken(w)
    PROVE  IInv'
<1>1. TypeOK /\ RestInv /\ GateInv /\ ResInv /\ PendInv
    BY Zenon DEF IInv
<1>2. twork[w].at = "blocked" /\ twork[w].at # "rest" /\ twork[w].at # "done"
    <2>1. twork[w].at = "blocked"
        BY Zenon DEF approval_woken, At
    <2> QED
        BY <2>1
<1>3. PICK r \in TReqs : Holds(w, r)
    BY <1>1, <1>2, Zenon DEF RestInv
<1>4. ReqOf(w) = r
    BY <1>3, ReqIs, Zenon
<1>5. DOMAIN tpend = 1..Len(tpend)
    BY <1>1 DEF TypeOK
<1>6. PICK i : i = CHOOSE k \in DOMAIN tpend : tpend[k].req = r
    BY Zenon
<1>7. i \in 1..Len(tpend) /\ tpend[i].req = r
    BY <1>1, <1>2, <1>3, <1>5, <1>6, Zenon DEF GateInv, Asked
<1>8. /\ tpend' = DropAt(tpend, i)
      /\ IF tpend[i].outcome = "deny" THEN tool_fail(w, "respond", "eperm") ELSE Goto(w, "run")
    BY <1>4, <1>6, Zenon DEF approval_woken
<1>9. /\ UNCHANGED <<treq, tpc, tjob, treply, tqueue, tcache, tdown, tverdict>>
      /\ tpassed \subseteq tpassed' /\ tran' = tran
    BY Zenon DEF approval_woken
<1>10. CASE tpend[i].outcome = "deny"
    <2>1. PICK c \in Cls, e \in Rets : c = "respond" /\ e = "eperm"
        BY Zenon DEF Cls, Rets
    <2>2. PICK R : R = {TResult(FALSE, c, r)}
        BY Zenon
    <2>3. tool_fail(w, c, e)
        BY <1>8, <1>10, <2>1, Zenon
    <2>4. Moves(w, r, "done", e, R)
        BY <1>1, <1>3, <2>2, <2>3, FailMoves, Zenon
    <2>5. PICK s \in Steps \ {"rest", "start"} : s = "done"
        BY DEF Steps
    <2>6. s # "ask" /\ s # "run" /\ s # "blocked"
        BY <2>5
    <2>7. Moves(w, r, s, e, R)
        BY <2>4, <2>5, Zenon
    <2>8. /\ PendInv' /\ tpend' \in Seq(Question)
          /\ \A q \in TReqs : q # r => (Asked(q) => Asked(q)')
        BY <1>3, <1>7, <1>8, <1>9, <2>7, PendDrop, Zenon
    <2>9. \A x \in R : x.from = r /\ ~x.success
        BY <2>2 DEF TResult
    <2>10. \A x \in R : x.from = r /\ (x.success => r \in tran')
        BY <2>9, Zenon
    <2>11. tverdict[r] = "none" \/ tverdict[r] = "deny"
        BY <1>1, <1>7, <1>10, Zenon DEF PendInv
    <2>12. tverdict[r] \notin {"allow", "always"}
        BY <2>11
    <2> QED
        BY <1>2, <1>3, <1>9, <2>6, <2>7, <2>8, <2>10, <2>12, MoveInv, Zenon
<1>11. CASE tpend[i].outcome # "deny"
    <2>1. PICK s \in Steps \ {"rest", "start"} : s = "run"
        BY DEF Steps
    <2>2. s # "ask" /\ s # "done" /\ s # "blocked"
        BY <2>1
    <2>3. Moves(w, r, s, twork[w].ret, twork[w].res)
        <3>1. Goto(w, s)
            BY <1>8, <1>11, <2>1, Zenon
        <3>2. s \in Steps
            BY Zenon
        <3> QED
            BY <1>1, <1>3, <3>1, <3>2, GotoMoves, Zenon
    <2>4. /\ PendInv' /\ tpend' \in Seq(Question)
          /\ \A q \in TReqs : q # r => (Asked(q) => Asked(q)')
        BY <1>3, <1>7, <1>8, <1>9, <2>3, PendDrop, Zenon
    <2>5. \A x \in twork[w].res : x.from = r /\ (x.success => r \in tran')
        BY <1>1, <1>3, <1>9, Zenon DEF ResInv
    <2>6. tverdict[r] = tpend[i].outcome /\ tverdict[r] # "none"
        <3>1. tpend[i].resolved
            BY <1>1, <1>7, <1>11, Zenon DEF PendInv
        <3>2. tverdict[r] = tpend[i].outcome
            BY <1>1, <1>7, <3>1, Zenon DEF PendInv
        <3>3. tpend[i] \in Question
            BY <1>1, <1>7 DEF TypeOK
        <3>4. tpend[i].outcome \in {"allow", "always", "deny"}
            BY <3>3, Zenon DEF Question
        <3> QED
            BY <3>2, <3>4
    <2>7. tverdict[r] \in {"none", "allow", "always", "deny"}
        BY <1>1, Zenon DEF TypeOK
    <2>8. tverdict[r] \in {"allow", "always"}
        BY <1>11, <2>6, <2>7, Zenon
    <2>9. Leave(r)'
        BY <1>9, <2>8, Zenon DEF Leave
    <2> QED
        BY <1>2, <1>3, <1>9, <2>2, <2>3, <2>4, <2>5, <2>9, MoveInv, Zenon
<1> QED
    BY <1>10, <1>11, Zenon

(* tool.approve decides a question nobody decided yet.                     *)
LEMMA ResolveStep ==
    ASSUME IInv, NEW i \in DOMAIN tpend, NEW d \in {"allow", "always", "deny"},
           interactive_approval_resolve(i, d)
    PROVE  IInv'
<1>1. TypeOK /\ JobInv /\ QueueInv /\ RestInv /\ HoldInv /\ ResInv /\ PendInv /\ GateInv
    BY Zenon DEF IInv
<1>2. tpend \in Seq(Question) /\ i \in 1..Len(tpend) /\ tpend[i] \in Question
    BY <1>1 DEF TypeOK
<1>3. PICK q \in TReqs : q = tpend[i].req
    BY <1>2, Zenon DEF Question
<1>4. UNCHANGED <<treq, tpc, tjob, treply, tqueue, twork, tcache, tdown, tran, tpassed>>
    BY Zenon DEF interactive_approval_resolve
<1>5. PICK x : x = [tpend[i] EXCEPT !.resolved = TRUE, !.outcome = d]
    BY Zenon
<1>6. x \in Question
    BY <1>2, <1>5, Zenon DEF Question
<1>7. x.req = q /\ x.resolved /\ x.outcome = d
    BY <1>2, <1>3, <1>5 DEF Question
<1>8. tpend' = [tpend EXCEPT ![i] = x]
    <2>1. tpend' = [tpend EXCEPT ![i].resolved = TRUE, ![i].outcome = d]
        BY Zenon DEF interactive_approval_resolve
    <2> QED
        BY <1>2, <1>5, <2>1, Zenon
<1>9. /\ tpend' \in Seq(Question) /\ Len(tpend') = Len(tpend) /\ tpend'[i] = x
      /\ \A k \in 1..Len(tpend) : k # i => tpend'[k] = tpend[k]
    BY <1>2, <1>6, <1>8
<1>10. tverdict' = [tverdict EXCEPT ![q] = d] /\ ~tpend[i].resolved
    BY <1>3, Zenon DEF interactive_approval_resolve
<1>11. /\ tverdict' \in [TReqs -> {"none", "allow", "always", "deny"}] /\ tverdict'[q] = d
       /\ \A p \in TReqs : p # q => tverdict'[p] = tverdict[p]
    BY <1>1, <1>10, Zenon DEF TypeOK
<1>12. tverdict[q] = "none"
    BY <1>1, <1>2, <1>3, <1>10, Zenon DEF PendInv
<1>13. PICK w \in TWorkers : Holds(w, q) /\ twork[w].at = "blocked"
    BY <1>1, <1>2, <1>3, Zenon DEF PendInv
<1>14. tjob[q] # {} /\ ~Queued(q) /\ \A v \in TWorkers : Holds(v, q) => v = w
    <2>1. tjob[q] # {} /\ \A v \in TWorkers : Holds(v, q) => v = w
        BY <1>1, <1>13, Zenon DEF HoldInv
    <2>2. ~Queued(q)
        BY <1>1, <1>13, Zenon DEF QueueInv, Queued
    <2> QED
        BY <2>1, <2>2
<1>15. /\ \A v \in TWorkers, p \in TReqs : Holds(v, p)' = Holds(v, p)
       /\ \A p \in TReqs : Queued(p)' = Queued(p)
       /\ \A p \in TReqs : InHand(p)' = InHand(p)
       /\ \A p \in TReqs : tool_cache_key(p)' = tool_cache_key(p)
    BY <1>4, Zenon DEF Holds, Queued, InHand, tool_cache_key
<1>16. JobInv' /\ RestInv' /\ HoldInv'
    BY <1>1, <1>4, SameJobs, Zenon
<1>17. QueueInv' /\ ResInv'
    BY <1>1, <1>4, SameJobs, SameRes, Zenon
<1>18. PendInv'
    <2>1. /\ \A j \in 1..Len(tpend) : Waits(tpend[j])
          /\ \A j, k \in 1..Len(tpend) : tpend[k].req = tpend[j].req => k = j
        BY <1>1, PendParts, Zenon
    <2>2. \A j \in 1..Len(tpend) : tpend'[j].req = tpend[j].req
        BY <1>3, <1>7, <1>9, Zenon
    <2>3. \A j, k \in 1..Len(tpend') : tpend'[k].req = tpend'[j].req => k = j
        BY <1>9, <2>1, <2>2, Zenon
    <2>4. ASSUME NEW j \in 1..Len(tpend')
          PROVE  Waits(tpend[j])'
        <3>1. CASE j = i
            <4>1. Holds(w, x.req)' /\ twork'[w].at = "blocked"
                BY <1>4, <1>7, <1>13, Zenon DEF Holds
            <4>2. Waits(x)'
                BY <1>7, <1>11, <4>1, Zenon DEF Waits
            <4> QED
                BY <1>9, <3>1, <4>2, Zenon
        <3>2. CASE j # i
            <4>1. PICK y : y = tpend[j]
                BY Zenon
            <4>2. tpend'[j] = y /\ Waits(y) /\ y.req # q /\ y \in Question
                <5>1. j \in 1..Len(tpend)
                    BY <1>9, Zenon
                <5>2. y \in Question
                    BY <1>2, <4>1, <5>1
                <5> QED
                    BY <1>2, <1>3, <1>9, <2>1, <3>2, <4>1, <5>1, <5>2, Zenon
            <4>3. tverdict'[y.req] = tverdict[y.req]
                BY <1>11, <4>2, Zenon DEF Question
            <4>4. Waits(y)'
                BY <1>4, <4>2, <4>3, Zenon DEF Waits, Holds
            <4> QED
                BY <4>2, <4>4, Zenon
        <3> QED
            BY <3>1, <3>2, Zenon
    <2> QED
        BY <2>3, <2>4, PendPartsPrimed, Zenon
<1>19. GateInv'
    <2>1. \A p \in TReqs : Leave(p) => Leave(p)'
        <3>1. "none" \notin {"allow", "always"}
            OBVIOUS
        <3> QED
            BY <1>4, <1>11, <1>12, <3>1, Zenon DEF Leave
    <2>2. \A p \in TReqs : Asked(p) => Asked(p)'
        BY <1>3, <1>7, <1>9, Zenon DEF Asked
    <2>3. \A p \in TReqs : tjob'[p] = {} \/ Queued(p)' => p \notin tran' /\ tverdict'[p] = "none"
        BY <1>1, <1>4, <1>11, <1>14, <1>15, Zenon DEF GateInv
    <2>4. ASSUME NEW v \in TWorkers, NEW p \in TReqs, Holds(v, p)'
          PROVE  /\ twork'[v].at \in {"start", "ask"} => tverdict'[p] = "none"
                 /\ twork'[v].at # "done" => p \notin tran'
                 /\ twork'[v].at = "blocked" => Asked(p)'
                 /\ twork'[v].at = "run" => Leave(p)'
                 /\ twork'[v].at = "done" /\ tverdict'[p] \in {"allow", "always"} =>
                      twork'[v].ret # "eperm" \/ \E y \in twork'[v].res : y.cls = "fatal"
        <3>1. Holds(v, p) /\ twork'[v] = twork[v] /\ tran' = tran
            BY <1>4, <1>15, <2>4, Zenon
        <3>2. /\ twork[v].at \in {"start", "ask"} => tverdict[p] = "none"
              /\ twork[v].at # "done" => p \notin tran
              /\ twork[v].at = "blocked" => Asked(p)
              /\ twork[v].at = "run" => Leave(p)
              /\ twork[v].at = "done" /\ tverdict[p] \in {"allow", "always"} =>
                   twork[v].ret # "eperm" \/ \E y \in twork[v].res : y.cls = "fatal"
            BY <1>1, <3>1, Zenon DEF GateInv
        <3>3. CASE p = q
            <4>1. twork[v].at = "blocked"
                BY <1>13, <1>14, <3>1, <3>3, Zenon
            <4>2. twork[v].at \notin {"start", "ask"} /\ twork[v].at # "done" /\ twork[v].at # "run"
                BY <4>1
            <4> QED
                BY <2>2, <3>1, <3>2, <4>2, Zenon
        <3>4. CASE p # q
            BY <1>11, <2>1, <2>2, <3>1, <3>2, <3>4, Zenon
        <3> QED
            BY <3>3, <3>4, Zenon
    <2>5. \A p \in tran' : Leave(p)'
        BY <1>1, <1>4, <2>1, Zenon DEF GateInv, TypeOK
    <2> QED
        BY <2>3, <2>4, <2>5, Zenon DEF GateInv
<1>20. TypeOK'
    BY <1>1, <1>4, <1>9, <1>11, Zenon DEF TypeOK
<1> QED
    BY <1>16, <1>17, <1>18, <1>19, <1>20, Zenon DEF IInv

-----------------------------------------------------------------------------
(* The hand-over.                                                          *)

(* The job of r is replaced.                                               *)
LEMMA PutJob ==
    ASSUME TypeOK, NEW r \in TReqs, NEW k \in JobRec, tjob' = [tjob EXCEPT ![r] = {k}]
    PROVE  /\ tjob' \in [TReqs -> SUBSET JobRec] /\ tjob'[r] = {k}
           /\ \A q \in TReqs : q # r => tjob'[q] = tjob[q]
<1>1. tjob \in [TReqs -> SUBSET JobRec]
    BY Zenon DEF TypeOK
<1>2. PICK K \in SUBSET JobRec : K = {k}
    BY Zenon
<1>3. tjob' = [tjob EXCEPT ![r] = K]
    BY <1>2, Zenon
<1> QED
    BY <1>1, <1>2, <1>3, Zenon

LEMMA PutJobInv ==
    ASSUME JobInv, NEW r \in TReqs, NEW k, tjob'[r] = {k},
           \A q \in TReqs : q # r => tjob'[q] = tjob[q] /\ tpc'[q] = tpc[q], JobOK(r, k)',
           \A q \in TReqs : q # r => \A j : JobOK(q, j) => JobOK(q, j)'
    PROVE  JobInv'
<1>1. ASSUME NEW q \in TReqs
      PROVE  /\ tpc'[q] = "wait" => tjob'[q] # {}
             /\ \A j, l \in tjob'[q] : l = j
             /\ \A j \in tjob'[q] : JobOK(q, j)'
    <2>1. CASE q = r
        BY <2>1, Zenon
    <2>2. CASE q # r
        BY <2>2, Zenon DEF JobInv
    <2> QED
        BY <2>1, <2>2, Zenon
<1> QED
    BY <1>1, Zenon DEF JobInv

(* A freed job.                                                            *)
LEMMA FreeIs ==
    ASSUME NEW j \in JobRec
    PROVE  /\ job_free(j) \in JobRec /\ job_free(j).freed = j.freed + 1
           /\ job_free(j).done = j.done /\ job_free(j).detached = j.detached
           /\ job_free(j).ret = j.ret
           /\ job_free(j).res \subseteq j.res
<1>1. PICK R : R = IF j.detached THEN {} ELSE j.res
    BY Zenon
<1>2. R \in SUBSET Res /\ R \subseteq j.res /\ j.freed \in Nat
    BY <1>1, Zenon DEF JobRec
<1>3. PICK n \in Nat : n = j.freed + 1
    BY <1>2
<1>4. PICK k : k = [j EXCEPT !.freed = n, !.res = R]
    BY Zenon
<1>5. job_free(j) = k
    BY <1>1, <1>3, <1>4, Zenon DEF job_free
<1>6. k \in JobRec
    BY <1>2, <1>4, Zenon DEF JobRec
<1>7. k.freed = n /\ k.res = R /\ k.done = j.done /\ k.detached = j.detached /\ k.ret = j.ret
    BY <1>4 DEF JobRec
<1> QED
    BY <1>2, <1>3, <1>5, <1>6, <1>7, Zenon

(* The submitter is back: r gets its answer.                               *)
LEMMA AnswerRes ==
    ASSUME ResInv, NEW r \in TReqs, NEW e, NEW R, NEW pc,
           tpc' = [tpc EXCEPT ![r] = pc], treply' = [treply EXCEPT ![r] = Answer(e, R)],
           tpc \in [TReqs -> {"idle", "wait", "store", "end"}],
           treply \in [TReqs -> SUBSET [ret : Rets, res : SUBSET Res]],
           UNCHANGED <<treq, twork, tcache, tran>>,
           \A q \in TReqs : \A j \in tjob'[q] : \A x \in j.res : x.from = q /\ (x.success => q \in tran),
           pc = "store" => \A x \in R : x.from = r,
           \A x \in R : tool_cache_key(x.from) = tool_cache_key(r) /\ (x.success => x.from \in tran)
    PROVE  ResInv'
<1>1. PICK a : a = [ret |-> e, res |-> R]
    BY Zenon
<1>2. a.res = R
    BY <1>1
<1>3. treply' = [treply EXCEPT ![r] = {a}]
    BY <1>1, Zenon DEF Answer
<1>4. /\ tpc'[r] = pc /\ treply'[r] = {a}
      /\ \A q \in TReqs : q # r => tpc'[q] = tpc[q] /\ treply'[q] = treply[q]
    BY <1>3, Zenon
<1>5. ASSUME NEW q \in TReqs, tpc'[q] = "store"
      PROVE  treply'[q] # {} /\ \A b \in treply'[q] : \A x \in b.res : x.from = q
    <2>1. CASE q = r
        BY <1>2, <1>4, <1>5, <2>1, Zenon
    <2>2. CASE q # r
        BY <1>4, <1>5, <2>2, Zenon DEF ResInv
    <2> QED
        BY <2>1, <2>2, Zenon
<1>6. ASSUME NEW q \in TReqs, NEW b \in treply'[q], NEW x \in b.res
      PROVE  tool_cache_key(x.from)' = tool_cache_key(q)' /\ (x.success => x.from \in tran')
    <2>1. tool_cache_key(x.from)' = tool_cache_key(x.from) /\ tool_cache_key(q)' = tool_cache_key(q)
        BY Zenon DEF tool_cache_key
    <2>2. CASE q = r
        BY <1>2, <1>4, <1>6, <2>1, <2>2, Zenon
    <2>3. CASE q # r
        <3>1. \A p \in TReqs : \A c \in treply[p] : \A y \in c.res :
                  tool_cache_key(y.from) = tool_cache_key(p) /\ (y.success => y.from \in tran)
            BY Zenon DEF ResInv
        <3>2. b \in treply[q]
            BY <1>4, <1>6, <2>3, Zenon
        <3> QED
            BY <2>1, <3>1, <3>2, Zenon
    <2> QED
        BY <2>2, <2>3, Zenon
<1>7. /\ \A w \in TWorkers : \A q \in TReqs : Holds(w, q)' =>
           \A x \in twork'[w].res : x.from = q /\ (x.success => q \in tran')
      /\ \A k \in DOMAIN tcache' : tcache'[k] \in tran' /\ tool_cache_key(tcache[k])' = k
    BY DEF ResInv, Holds, tool_cache_key
<1> QED
    BY <1>5, <1>6, <1>7, Zenon DEF ResInv

(* Only the job of r and its thread change.                                *)
LEMMA SubmitterJobs ==
    ASSUME IInv, NEW r \in TReqs, NEW k \in JobRec, SetJob(r, k), tjob[r] # {},
           NEW pc \in {"store", "end"}, tpc' = [tpc EXCEPT ![r] = pc], JobOK(r, k)',
           (\A j \in tjob[r] : ~j.done) => ~k.done,
           UNCHANGED <<tqueue, twork, tdown, tpend, tran, tverdict, tpassed>>
    PROVE  JobInv' /\ QueueInv' /\ RestInv' /\ HoldInv' /\ PendInv' /\ GateInv'
<1>1. TypeOK /\ JobInv /\ QueueInv /\ RestInv /\ HoldInv /\ PendInv /\ GateInv
    BY Zenon DEF IInv
<1>2. tjob'[r] = {k} /\ \A q \in TReqs : q # r => tjob'[q] = tjob[q]
    BY <1>1, PutJob, Zenon DEF SetJob
<1>3. \A q \in TReqs : q # r => tpc'[q] = tpc[q]
    BY <1>1, Zenon DEF TypeOK
<1>4. /\ \A v \in TWorkers, q \in TReqs : Holds(v, q)' = Holds(v, q)
      /\ \A q \in TReqs : Queued(q)' = Queued(q)
      /\ \A q \in TReqs : InHand(q)' = InHand(q)
      /\ \A q \in TReqs : Asked(q)' = Asked(q)
      /\ \A q \in TReqs : Leave(q)' = Leave(q)
    BY Zenon DEF Holds, Queued, InHand, Asked, Leave
<1>5. \A q \in TReqs : q # r => \A j : JobOK(q, j) => JobOK(q, j)'
    BY <1>3, <1>4, SameJobOK, Zenon
<1>6. JobInv'
    BY <1>1, <1>2, <1>3, <1>5, PutJobInv, Zenon
<1>7. \A q \in TReqs : /\ tjob'[q] # {} <=> tjob[q] # {}
                       /\ (\A j \in tjob[q] : ~j.done) => (\A j \in tjob'[q] : ~j.done)
    BY <1>2, Zenon
<1>8. QueueInv'
    <2>1. \A i \in 1..Len(tqueue) : tqueue[i] \in TReqs
        BY <1>1 DEF TypeOK
    <2> QED
        BY <1>1, <1>4, <1>7, <2>1, Zenon DEF QueueInv
<1>9. RestInv'
    BY <1>1, <1>4, Zenon DEF RestInv
<1>10. HoldInv'
    BY <1>1, <1>4, <1>7, Zenon DEF HoldInv
<1>11. PendInv'
    BY <1>1, SamePending, Zenon
<1>12. GateInv'
    BY <1>1, <1>4, <1>7, Zenon DEF GateInv, TypeOK
<1> QED
    BY <1>6, <1>8, <1>9, <1>10, <1>11, <1>12

(* An answer is of its type.                                               *)
LEMMA AnswerType ==
    ASSUME TypeOK, NEW r \in TReqs, NEW e \in Rets, NEW R \in SUBSET Res,
           treply' = [treply EXCEPT ![r] = Answer(e, R)]
    PROVE  treply' \in [TReqs -> SUBSET [ret : Rets, res : SUBSET Res]]
<1>1. PICK A \in SUBSET [ret : Rets, res : SUBSET Res] : A = Answer(e, R)
    <2>1. [ret |-> e, res |-> R] \in [ret : Rets, res : SUBSET Res]
        BY Zenon
    <2> QED
        BY <2>1, Zenon DEF Answer
<1>2. treply' = [treply EXCEPT ![r] = A]
    BY <1>1, Zenon
<1> QED
    BY <1>2, Zenon DEF TypeOK

(* The submitter takes a finished job over.                                *)
LEMMA TakenStep ==
    ASSUME IInv, NEW r \in TReqs, pool_taken(r)
    PROVE  IInv'
<1>1. TypeOK /\ JobInv /\ ResInv
    BY Zenon DEF IInv
<1>2. /\ UNCHANGED <<treq, tqueue, twork, tpend, tcache, tdown, tran, tverdict, tpassed>>
      /\ tpc[r] = "wait" /\ JobOf(r).done
    BY Zenon DEF pool_taken
<1>3. tjob[r] # {}
    BY <1>1, <1>2, Zenon DEF JobInv
<1>4. PICK j \in JobRec : j = JobOf(r) /\ tjob[r] = {j}
    BY <1>1, <1>3, JobIs, Zenon
<1>5. PICK k \in JobRec : k = job_free(j)
    BY FreeIs, Zenon
<1>6. /\ k.freed = j.freed + 1 /\ k.done = j.done /\ k.detached = j.detached
      /\ k.ret = j.ret /\ k.res \subseteq j.res
    BY <1>5, FreeIs, Zenon
<1>7. PICK pc \in {"store", "end"} : pc = "store"
    BY Zenon
<1>8. SetJob(r, k) /\ tpc' = [tpc EXCEPT ![r] = pc] /\ treply' = [treply EXCEPT ![r] = Answer(j.ret, j.res)]
    BY <1>4, <1>5, <1>7, Zenon DEF pool_taken
<1>9. tpc' \in [TReqs -> {"idle", "wait", "store", "end"}] /\ tpc'[r] = "store"
    BY <1>1, <1>7, <1>8, Zenon DEF TypeOK
<1>10. j.freed = 0 /\ ~j.detached /\ j.done
    <2>1. JobOK(r, j)
        BY <1>1, <1>4, Zenon DEF JobInv
    <2>2. "wait" # "end"
        OBVIOUS
    <2>3. j.freed = 0 /\ ~j.detached
        BY <1>2, <2>1, <2>2, Zenon DEF JobOK
    <2> QED
        BY <1>2, <1>4, <2>3, Zenon
<1>11. k.freed = 1 /\ k.done /\ ~k.detached
    BY <1>6, <1>10
<1>12. JobOK(r, k)'
    BY <1>9, <1>11 DEF JobOK
<1>13. JobInv' /\ QueueInv' /\ RestInv' /\ HoldInv' /\ PendInv' /\ GateInv'
    BY <1>2, <1>3, <1>4, <1>8, <1>10, <1>12, SubmitterJobs, Zenon
<1>14. /\ tjob' \in [TReqs -> SUBSET JobRec] /\ tjob'[r] = {k}
       /\ \A q \in TReqs : q # r => tjob'[q] = tjob[q]
    BY <1>1, <1>8, PutJob, Zenon DEF SetJob
<1>15. \A q \in TReqs : \A l \in tjob[q] : \A x \in l.res : x.from = q /\ (x.success => q \in tran)
    BY <1>1, Zenon DEF ResInv
<1>16. \A q \in TReqs : \A l \in tjob'[q] : \A x \in l.res : x.from = q /\ (x.success => q \in tran)
    <2>1. \A x \in k.res : x.from = r /\ (x.success => r \in tran)
        BY <1>4, <1>6, <1>15, Zenon
    <2> QED
        BY <1>14, <1>15, <2>1, Zenon
<1>17. j.ret \in Rets /\ j.res \in SUBSET Res
    BY Zenon DEF JobRec
<1>18. treply' \in [TReqs -> SUBSET [ret : Rets, res : SUBSET Res]]
    BY <1>1, <1>8, <1>17, AnswerType, Zenon
<1>19. ResInv'
    <2>1. \A x \in j.res : x.from = r /\ (x.success => r \in tran)
        BY <1>4, <1>15, Zenon
    <2>2. \A x \in j.res : x.from = r
        BY <2>1, Zenon
    <2>3. \A x \in j.res : tool_cache_key(x.from) = tool_cache_key(r) /\ (x.success => x.from \in tran)
        BY <2>1, Zenon
    <2>4. /\ tpc \in [TReqs -> {"idle", "wait", "store", "end"}]
          /\ treply \in [TReqs -> SUBSET [ret : Rets, res : SUBSET Res]]
        BY <1>1, Zenon DEF TypeOK
    <2>5. UNCHANGED <<treq, twork, tcache, tran>>
        BY <1>2, Zenon
    <2> QED
        BY <1>1, <1>8, <1>16, <2>2, <2>3, <2>4, <2>5, AnswerRes, Zenon
<1>20. TypeOK'
    BY <1>1, <1>2, <1>9, <1>14, <1>18, Zenon DEF TypeOK
<1> QED
    BY <1>13, <1>19, <1>20, Zenon DEF IInv

(* The submitter gives up waiting and leaves the job to the worker.        *)
LEMMA DetachedStep ==
    ASSUME IInv, NEW r \in TReqs, pool_detached(r)
    PROVE  IInv'
<1>1. TypeOK /\ JobInv /\ ResInv
    BY Zenon DEF IInv
<1>2. /\ UNCHANGED <<treq, tqueue, twork, tpend, tcache, tdown, tran, tverdict, tpassed>>
      /\ tpc[r] = "wait" /\ ~JobOf(r).done
    BY Zenon DEF pool_detached
<1>3. tjob[r] # {}
    BY <1>1, <1>2, Zenon DEF JobInv
<1>4. PICK j \in JobRec : j = JobOf(r) /\ tjob[r] = {j}
    BY <1>1, <1>3, JobIs, Zenon
<1>5. PICK k : k = [j EXCEPT !.detached = TRUE]
    BY Zenon
<1>6. k \in JobRec
    BY <1>5, Zenon DEF JobRec
<1>7. k.freed = j.freed /\ k.done = j.done /\ k.detached /\ k.ret = j.ret /\ k.res = j.res
    BY <1>5 DEF JobRec
<1>8. PICK pc \in {"store", "end"} : pc = "end"
    BY Zenon
<1>9. PICK R : R = {synth_cancel_result(r)}
    BY Zenon
<1>10. PICK e \in Rets : e = "canceled"
    BY Zenon DEF Rets
<1>11. SetJob(r, k) /\ tpc' = [tpc EXCEPT ![r] = pc] /\ treply' = [treply EXCEPT ![r] = Answer(e, R)]
    BY <1>4, <1>5, <1>8, <1>9, <1>10, Zenon DEF pool_detached, Reply
<1>12. tpc' \in [TReqs -> {"idle", "wait", "store", "end"}] /\ tpc'[r] = "end"
    BY <1>1, <1>8, <1>11, Zenon DEF TypeOK
<1>13. JobOK(r, j) /\ ~j.done
    BY <1>1, <1>2, <1>4, Zenon DEF JobInv
<1>14. JobOK(r, k)'
    <2>1. j.freed = 0 /\ (Queued(r) \/ InHand(r))
        BY <1>2, <1>13, Zenon DEF JobOK
    <2>2. Queued(r)' \/ InHand(r)'
        BY <1>2, <2>1, Zenon DEF Queued, InHand
    <2>3. k.freed = 0 /\ k.detached /\ ~k.done
        BY <1>7, <1>13, <2>1, Zenon
    <2> QED
        BY <1>12, <2>2, <2>3 DEF JobOK
<1>15. JobInv' /\ QueueInv' /\ RestInv' /\ HoldInv' /\ PendInv' /\ GateInv'
    <2>1. ~k.done
        BY <1>7, <1>13, Zenon
    <2> QED
        BY <1>2, <1>3, <1>6, <1>11, <1>14, <2>1, SubmitterJobs, Zenon
<1>16. /\ tjob' \in [TReqs -> SUBSET JobRec] /\ tjob'[r] = {k}
       /\ \A q \in TReqs : q # r => tjob'[q] = tjob[q]
    BY <1>1, <1>6, <1>11, PutJob, Zenon DEF SetJob
<1>17. \A q \in TReqs : \A l \in tjob'[q] : \A x \in l.res : x.from = q /\ (x.success => q \in tran)
    <2>1. \A q \in TReqs : \A l \in tjob[q] : \A x \in l.res : x.from = q /\ (x.success => q \in tran)
        BY <1>1, Zenon DEF ResInv
    <2>2. \A x \in k.res : x.from = r /\ (x.success => r \in tran)
        BY <1>4, <1>7, <2>1, Zenon
    <2> QED
        BY <1>16, <2>1, <2>2, Zenon
<1>18. (\A x \in R : x.from = r /\ ~x.success) /\ R \in SUBSET Res
    <2>1. \A x \in R : x.from = r /\ ~x.success
        BY <1>9 DEF synth_cancel_result, TResult
    <2>2. synth_cancel_result(r) \in Res
        BY Zenon DEF synth_cancel_result, TResult, Res, Cls
    <2> QED
        BY <1>9, <2>1, <2>2, Zenon
<1>19. treply' \in [TReqs -> SUBSET [ret : Rets, res : SUBSET Res]]
    BY <1>1, <1>11, <1>18, AnswerType, Zenon
<1>20. ResInv'
    <2>1. \A x \in R : x.from = r
        BY <1>18, Zenon
    <2>2. \A x \in R : tool_cache_key(x.from) = tool_cache_key(r) /\ (x.success => x.from \in tran)
        BY <1>18, Zenon
    <2>3. /\ tpc \in [TReqs -> {"idle", "wait", "store", "end"}]
          /\ treply \in [TReqs -> SUBSET [ret : Rets, res : SUBSET Res]]
        BY <1>1, Zenon DEF TypeOK
    <2>4. UNCHANGED <<treq, twork, tcache, tran>>
        BY <1>2, Zenon
    <2> QED
        BY <1>1, <1>11, <1>17, <2>1, <2>2, <2>3, <2>4, AnswerRes, Zenon
<1>21. TypeOK'
    BY <1>1, <1>2, <1>12, <1>16, <1>19, Zenon DEF TypeOK
<1> QED
    BY <1>15, <1>20, <1>21, Zenon DEF IInv

(* A worker's record is replaced.                                          *)
LEMMA PutWork ==
    ASSUME TypeOK, NEW w \in TWorkers, NEW y \in WorkRec, twork' = [twork EXCEPT ![w] = y]
    PROVE  /\ twork' \in [TWorkers -> WorkRec] /\ twork'[w] = y
           /\ \A v \in TWorkers : v # w => twork'[v] = twork[v]
<1>1. twork \in [TWorkers -> WorkRec]
    BY Zenon DEF TypeOK
<1> QED
    BY <1>1, Zenon

(* A worker is through with a job: the submitter finds the result, or a    *)
(* detached job is freed.                                                  *)
LEMMA FinishStep ==
    ASSUME IInv, NEW w \in TWorkers, worker_finish(w)
    PROVE  IInv'
<1>1. TypeOK /\ JobInv /\ QueueInv /\ RestInv /\ HoldInv /\ ResInv /\ PendInv /\ GateInv
    BY Zenon DEF IInv
<1>2. twork[w].at = "done" /\ twork[w].at # "rest" /\ twork[w].at # "blocked"
    <2>1. twork[w].at = "done"
        BY Zenon DEF worker_finish, At
    <2> QED
        BY <2>1
<1>3. PICK r \in TReqs : Holds(w, r)
    BY <1>1, <1>2, Zenon DEF RestInv
<1>4. ReqOf(w) = r
    BY <1>3, ReqIs, Zenon
<1>5. tjob[r] # {} /\ (\A j \in tjob[r] : ~j.done) /\ \A v \in TWorkers : Holds(v, r) => v = w
    BY <1>1, <1>3, Zenon DEF HoldInv
<1>6. PICK j \in JobRec : j = JobOf(r) /\ tjob[r] = {j}
    BY <1>1, <1>5, JobIs, Zenon
<1>7. JobOK(r, j) /\ ~j.done
    BY <1>1, <1>5, <1>6, Zenon DEF JobInv
<1>8. UNCHANGED <<treq, tpc, treply, tqueue, tpend, tcache, tdown, tran, tverdict, tpassed>>
    BY Zenon DEF worker_finish
<1>9. PICK y \in WorkRec : y = twork[w]
    BY <1>1, Zenon DEF TypeOK
<1>10. PICK l : l = [j EXCEPT !.ret = y.ret, !.res = y.res, !.done = TRUE]
    BY Zenon
<1>11. y.ret \in Rets /\ y.res \in SUBSET Res
    BY Zenon DEF WorkRec
<1>12. l \in JobRec
    BY <1>10, <1>11, Zenon DEF JobRec
<1>13. l.freed = j.freed /\ l.done /\ l.detached = j.detached /\ l.res = y.res
    BY <1>10 DEF JobRec
<1>14. PICK k \in JobRec : k = IF l.detached THEN job_free(l) ELSE l
    BY <1>12, FreeIs, Zenon
<1>15. SetJob(r, k) /\ twork' = [twork EXCEPT ![w] = Resting]
    BY <1>4, <1>6, <1>9, <1>10, <1>14, Zenon DEF worker_finish
<1>16. /\ k.done = l.done /\ k.detached = l.detached /\ k.res \subseteq l.res
       /\ k.freed = IF l.detached THEN l.freed + 1 ELSE l.freed
    BY <1>12, <1>14, FreeIs, Zenon
<1>17. j.freed = 0 /\ tpc[r] # "idle" /\ tpc[r] # "store" /\ (tpc[r] = "end" <=> j.detached)
    <2>1. j.freed = 0
        BY <1>7 DEF JobOK
    <2>2. j.freed # 1
        BY <2>1
    <2> QED
        BY <1>7, <2>2, Zenon DEF JobOK
<1>18. k.done /\ k.detached = j.detached /\ k.freed = IF j.detached THEN 1 ELSE 0
    BY <1>13, <1>16, <1>17
<1>19. JobOK(r, k)'
    BY <1>8, <1>17, <1>18 DEF JobOK
<1>20. /\ tjob' \in [TReqs -> SUBSET JobRec] /\ tjob'[r] = {k}
       /\ \A q \in TReqs : q # r => tjob'[q] = tjob[q]
    BY <1>1, <1>15, PutJob, Zenon DEF SetJob
<1>21. Resting \in WorkRec /\ Resting.at = "rest" /\ Resting.req = {} /\ Resting.res = {}
    BY DEF Resting, WorkRec, Steps, Rets
<1>22. /\ twork' \in [TWorkers -> WorkRec] /\ twork'[w] = Resting
       /\ \A v \in TWorkers : v # w => twork'[v] = twork[v]
    BY <1>1, <1>15, <1>21, PutWork, Zenon
<1>23. \A v \in TWorkers, q \in TReqs : Holds(v, q)' <=> Holds(v, q) /\ v # w
    BY <1>21, <1>22, Zenon DEF Holds
<1>24. \A v \in TWorkers, q \in TReqs : Holds(v, q)' => twork'[v] = twork[v] /\ q # r
    BY <1>3, <1>5, <1>22, <1>23, Zenon
<1>25. \A q \in TReqs : q # r => (InHand(q) => InHand(q)')
    BY <1>3, <1>23, Zenon DEF InHand, Holds
<1>26. \A q \in TReqs : Queued(q)' <=> Queued(q)
    BY <1>8, Zenon DEF Queued
<1>27. JobInv'
    <2>1. \A q \in TReqs : q # r => \A m : JobOK(q, m) => JobOK(q, m)'
        BY <1>8, <1>25, <1>26, SameJobOK, Zenon
    <2>2. \A q \in TReqs : q # r => tjob'[q] = tjob[q] /\ tpc'[q] = tpc[q]
        BY <1>8, <1>20, Zenon
    <2> QED
        BY <1>1, <1>19, <1>20, <2>1, <2>2, PutJobInv, Zenon
<1>28. QueueInv'
    <2>1. \A i \in 1..Len(tqueue) : tqueue[i] \in TReqs
        BY <1>1 DEF TypeOK
    <2>2. \A i \in 1..Len(tqueue) : tqueue[i] # r
        BY <1>1, <1>3, Zenon DEF QueueInv
    <2> QED
        BY <1>1, <1>8, <1>20, <1>23, <2>1, <2>2, Zenon DEF QueueInv
<1>29. RestInv'
    BY <1>1, <1>21, <1>22, <1>23, Zenon DEF RestInv
<1>30. HoldInv'
    BY <1>1, <1>20, <1>23, <1>24, Zenon DEF HoldInv
<1>31. ResInv'
    <2>1. \A q \in TReqs : \A m \in tjob[q] : \A x \in m.res : x.from = q /\ (x.success => q \in tran)
        BY <1>1, Zenon DEF ResInv
    <2>2. \A x \in k.res : x.from = r /\ (x.success => r \in tran)
        BY <1>1, <1>3, <1>9, <1>13, <1>16, Zenon DEF ResInv
    <2>3. \A q \in TReqs : \A m \in tjob'[q] : \A x \in m.res : x.from = q /\ (x.success => q \in tran')
        <3>1. tran' = tran
            BY <1>8, Zenon
        <3>2. ASSUME NEW q \in TReqs, NEW m \in tjob'[q], NEW x \in m.res
              PROVE  x.from = q /\ (x.success => q \in tran)
            <4>1. CASE q = r
                BY <1>20, <2>2, <3>2, <4>1, Zenon
            <4>2. CASE q # r
                BY <1>20, <2>1, <3>2, <4>2, Zenon
            <4> QED
                BY <4>1, <4>2, Zenon
        <3> QED
            BY <3>1, <3>2, Zenon
    <2>4. \A v \in TWorkers : \A q \in TReqs : Holds(v, q)' =>
             \A x \in twork'[v].res : x.from = q /\ (x.success => q \in tran')
        <3>1. \A v \in TWorkers : \A q \in TReqs : Holds(v, q) =>
                 \A x \in twork[v].res : x.from = q /\ (x.success => q \in tran)
            BY <1>1, Zenon DEF ResInv
        <3>2. tran' = tran
            BY <1>8, Zenon
        <3> QED
            BY <1>23, <1>24, <3>1, <3>2, Zenon
    <2>5. \A q \in TReqs : tpc'[q] = "store" =>
             treply'[q] # {} /\ \A a \in treply'[q] : \A x \in a.res : x.from = q
        BY <1>1, <1>8, Zenon DEF ResInv
    <2>6. \A q \in TReqs : \A a \in treply'[q] : \A x \in a.res :
             tool_cache_key(x.from)' = tool_cache_key(q)' /\ (x.success => x.from \in tran')
        BY <1>1, <1>8, SameReplyRes, Zenon
    <2>7. \A m \in DOMAIN tcache' : tcache'[m] \in tran' /\ tool_cache_key(tcache[m])' = m
        BY <1>1, <1>8, SameCacheRes, Zenon
    <2> QED
        BY <2>3, <2>4, <2>5, <2>6, <2>7, Zenon DEF ResInv
<1>32. PendInv'
    <2>1. \A v \in TWorkers : \A q : Holds(v, q) /\ twork[v].at = "blocked" =>
             Holds(v, q)' /\ twork'[v].at = "blocked"
        BY <1>2, <1>22, Zenon DEF Holds
    <2> QED
        BY <1>1, <1>8, <2>1, Zenon DEF PendInv
<1>33. GateInv'
    <2>1. \A q \in TReqs : tjob'[q] = {} \/ Queued(q)' => q \notin tran' /\ tverdict'[q] = "none"
        BY <1>1, <1>5, <1>8, <1>20, <1>26, Zenon DEF GateInv
    <2>2. /\ \A q \in TReqs : Asked(q)' <=> Asked(q)
          /\ \A q : Leave(q)' <=> Leave(q)
        BY <1>8, Zenon DEF Asked, Leave
    <2>3. ASSUME NEW v \in TWorkers, NEW q \in TReqs, Holds(v, q)'
          PROVE  /\ twork'[v].at \in {"start", "ask"} => tverdict'[q] = "none"
                 /\ twork'[v].at # "done" => q \notin tran'
                 /\ twork'[v].at = "blocked" => Asked(q)'
                 /\ twork'[v].at = "run" => Leave(q)'
                 /\ twork'[v].at = "done" /\ tverdict'[q] \in {"allow", "always"} =>
                      twork'[v].ret # "eperm" \/ \E x \in twork'[v].res : x.cls = "fatal"
        <3>1. Holds(v, q) /\ twork'[v] = twork[v]
            BY <1>23, <1>24, <2>3, Zenon
        <3> QED
            BY <1>1, <1>8, <2>2, <3>1, Zenon DEF GateInv
    <2>4. \A q \in tran' : Leave(q)'
        BY <1>1, <1>8, <2>2, Zenon DEF GateInv
    <2> QED
        BY <2>1, <2>3, <2>4, Zenon DEF GateInv
<1>34. TypeOK'
    BY <1>1, <1>8, <1>20, <1>22, Zenon DEF TypeOK
<1> QED
    BY <1>27, <1>28, <1>29, <1>30, <1>31, <1>32, <1>33, <1>34, Zenon DEF IInv

(* A worker takes the job at the head of the queue.                        *)
LEMMA TakeStep ==
    ASSUME IInv, NEW w \in TWorkers, worker_take(w)
    PROVE  IInv'
<1>1. TypeOK /\ JobInv /\ QueueInv /\ RestInv /\ HoldInv /\ ResInv /\ PendInv /\ GateInv
    BY Zenon DEF IInv
<1>2. twork[w].at = "rest" /\ twork[w].at # "blocked" /\ twork[w].req = {} /\ tqueue # <<>>
    <2>1. twork[w].at = "rest" /\ tqueue # <<>>
        BY Zenon DEF worker_take, At
    <2>2. twork[w].at # "blocked"
        BY <2>1
    <2> QED
        BY <1>1, <2>1, <2>2, Zenon DEF RestInv
<1>3. UNCHANGED <<treq, tpc, tjob, treply, tpend, tcache, tdown, tran, tverdict, tpassed>>
    BY Zenon DEF worker_take
<1>4. tqueue \in Seq(TReqs)
    BY <1>1, Zenon DEF TypeOK
<1>5. PICK n \in Nat : n = Len(tqueue)
    BY <1>4
<1>6. 1 \in 1..n /\ n > 0
    BY <1>2, <1>4, <1>5
<1>7. PICK r \in TReqs : r = Head(tqueue) /\ r = tqueue[1]
    BY <1>4, <1>5, <1>6
<1>8. tqueue' = Tail(tqueue)
    BY Zenon DEF worker_take
<1>9. /\ tqueue' \in Seq(TReqs) /\ Len(tqueue') = n - 1
      /\ \A i \in 1..(n - 1) : tqueue'[i] = tqueue[i + 1]
    BY <1>2, <1>4, <1>5, <1>8
<1>10. \A i \in 1..(n - 1) : i + 1 \in 1..n /\ i + 1 # 1
    OBVIOUS
<1>11. \A i \in 1..n : i # 1 => \E k \in 1..(n - 1) : i = k + 1
    <2>1. \A i \in 1..n : i # 1 => i - 1 \in 1..(n - 1) /\ i = (i - 1) + 1
        OBVIOUS
    <2> QED
        BY <2>1, Zenon
<1>12. /\ \A i \in 1..n : tjob[tqueue[i]] # {} /\ \A j \in tjob[tqueue[i]] : ~j.done
       /\ \A i, k \in 1..n : tqueue[k] = tqueue[i] => k = i
       /\ \A i \in 1..n : \A v \in TWorkers : ~Holds(v, tqueue[i])
    BY <1>1, <1>5, Zenon DEF QueueInv
<1>13. \A q \in TReqs : Queued(q)' <=> Queued(q) /\ q # r
    <2>1. ASSUME NEW q \in TReqs, Queued(q)'
          PROVE  Queued(q) /\ q # r
        <3>1. PICK i \in 1..(n - 1) : tqueue'[i] = q
            BY <1>9, <2>1, Zenon DEF Queued
        <3>2. i + 1 \in 1..n /\ i + 1 # 1 /\ tqueue[i + 1] = q
            BY <1>9, <1>10, <3>1, Zenon
        <3>3. q # r
            BY <1>6, <1>7, <1>12, <3>2, Zenon
        <3> QED
            BY <1>5, <3>2, <3>3, Zenon DEF Queued
    <2>2. ASSUME NEW q \in TReqs, Queued(q), q # r
          PROVE  Queued(q)'
        <3>1. PICK i \in 1..n : tqueue[i] = q
            BY <1>5, <2>2, Zenon DEF Queued
        <3>2. i # 1
            BY <1>7, <2>2, <3>1, Zenon
        <3>3. PICK k \in 1..(n - 1) : i = k + 1
            BY <1>11, <3>2, Zenon
        <3> QED
            BY <1>9, <3>1, <3>3, Zenon DEF Queued
    <2> QED
        BY <2>1, <2>2, Zenon
<1>14. Queued(r) /\ tjob[r] # {} /\ (\A j \in tjob[r] : ~j.done) /\ \A v \in TWorkers : ~Holds(v, r)
    <2>1. tqueue[1] = r /\ 1 \in 1..Len(tqueue)
        BY <1>5, <1>6, <1>7, Zenon
    <2>2. Queued(r)
        BY <2>1, Zenon DEF Queued
    <2>3. tjob[r] # {} /\ (\A j \in tjob[r] : ~j.done) /\ \A v \in TWorkers : ~Holds(v, r)
        BY <1>6, <1>7, <1>12, Zenon
    <2> QED
        BY <2>2, <2>3
<1>15. PICK y : y = [Resting EXCEPT !.at = "start", !.req = {r}]
    BY Zenon
<1>16. y \in WorkRec /\ y.at = "start" /\ y.req = {r} /\ y.res = {}
    <2>1. Resting \in WorkRec
        BY DEF Resting, WorkRec, Steps, Rets
    <2>2. y \in WorkRec
        BY <1>15, <2>1, Zenon DEF WorkRec, Steps
    <2>3. y.at = "start" /\ y.req = {r} /\ y.res = {}
        BY <1>15 DEF Resting
    <2> QED
        BY <2>2, <2>3
<1>17. twork' = [twork EXCEPT ![w] = y]
    BY <1>7, <1>15, Zenon DEF worker_take
<1>18. /\ twork' \in [TWorkers -> WorkRec] /\ twork'[w] = y
       /\ \A v \in TWorkers : v # w => twork'[v] = twork[v]
    BY <1>1, <1>16, <1>17, PutWork, Zenon
<1>19. Holds(w, r)' /\ \A q \in TReqs : ~Holds(w, q)
    BY <1>2, <1>16, <1>18, Zenon DEF Holds
<1>20. ASSUME NEW v \in TWorkers, NEW q \in TReqs, Holds(v, q)'
       PROVE  \/ v = w /\ q = r
              \/ v # w /\ q # r /\ Holds(v, q)
    <2>1. CASE v = w
        <3>1. {q} = {r}
            BY <1>16, <1>18, <1>20, <2>1, Zenon DEF Holds
        <3> QED
            BY <2>1, <3>1, Zenon
    <2>2. CASE v # w
        <3>1. Holds(v, q)
            BY <1>18, <1>20, <2>2, Zenon DEF Holds
        <3> QED
            BY <1>14, <2>2, <3>1, Zenon
    <2> QED
        BY <2>1, <2>2, Zenon
<1>21. \A v \in TWorkers, q \in TReqs : Holds(v, q) => Holds(v, q)'
    BY <1>18, <1>19, Zenon DEF Holds
<1>22. JobInv'
    <2>1. ASSUME NEW q \in TReqs, Queued(q) \/ InHand(q)
          PROVE  Queued(q)' \/ InHand(q)'
        <3>1. CASE q = r
            BY <1>19, <3>1, Zenon DEF InHand, Holds
        <3>2. CASE q # r /\ Queued(q)
            BY <1>13, <3>2, Zenon
        <3>3. CASE InHand(q)
            BY <1>21, <3>3, Zenon DEF InHand, Holds
        <3> QED
            BY <2>1, <3>1, <3>2, <3>3, Zenon
    <2>2. \A q \in TReqs : \A j : JobOK(q, j) => JobOK(q, j)'
        BY <1>3, <2>1, SameJobOK, Zenon
    <2> QED
        BY <1>1, <1>3, <2>2, Zenon DEF JobInv
<1>23. QueueInv'
    <2>1. ASSUME NEW i \in 1..(n - 1)
          PROVE  /\ tjob'[tqueue'[i]] # {} /\ \A j \in tjob'[tqueue'[i]] : ~j.done
                 /\ \A k \in 1..(n - 1) : tqueue'[k] = tqueue'[i] => k = i
                 /\ \A v \in TWorkers : ~Holds(v, tqueue[i])'
        <3>1. i + 1 \in 1..n /\ i + 1 # 1 /\ tqueue'[i] = tqueue[i + 1]
            BY <1>9, <1>10, Zenon
        <3>2. tjob'[tqueue'[i]] # {} /\ \A j \in tjob'[tqueue'[i]] : ~j.done
            BY <1>3, <1>12, <3>1, Zenon
        <3>3. ASSUME NEW k \in 1..(n - 1), tqueue'[k] = tqueue'[i]
              PROVE  k = i
            <4>1. k + 1 \in 1..n /\ tqueue[k + 1] = tqueue[i + 1]
                BY <1>9, <1>10, <3>1, <3>3, Zenon
            <4>2. k + 1 = i + 1
                BY <1>12, <3>1, <4>1, Zenon
            <4> QED
                BY <4>2
        <3>4. PICK q \in TReqs : q = tqueue'[i]
            BY <1>4, <1>5, <3>1
        <3>5. q # r /\ \A v \in TWorkers : ~Holds(v, q)
            BY <1>6, <1>7, <1>12, <3>1, <3>4, Zenon
        <3>6. \A v \in TWorkers : ~Holds(v, q)'
            BY <1>20, <3>5, Zenon
        <3> QED
            BY <3>2, <3>3, <3>4, <3>6, Zenon
    <2> QED
        BY <1>9, <2>1, Zenon DEF QueueInv
<1>24. RestInv'
    <2> SUFFICES ASSUME NEW v \in TWorkers
                 PROVE  /\ twork'[v].at = "rest" => twork'[v].req = {}
                        /\ twork'[v].at # "rest" => \E q \in TReqs : Holds(v, q)'
        BY Zenon DEF RestInv
    <2>1. CASE v = w
        <3>1. twork'[v].at # "rest"
            BY <1>16, <1>18, <2>1
        <3> QED
            BY <1>19, <2>1, <3>1, Zenon
    <2>2. CASE v # w
        <3>1. twork'[v] = twork[v]
            BY <1>18, <2>2, Zenon
        <3> QED
            BY <1>1, <1>21, <3>1, Zenon DEF RestInv
    <2> QED
        BY <2>1, <2>2, Zenon
<1>25. HoldInv'
    <2> SUFFICES ASSUME NEW v \in TWorkers, NEW q \in TReqs, Holds(v, q)'
                 PROVE  /\ tjob'[q] # {} /\ \A j \in tjob'[q] : ~j.done
                        /\ \A u \in TWorkers : Holds(u, q)' => u = v
        BY Zenon DEF HoldInv
    <2>1. CASE v = w /\ q = r
        BY <1>3, <1>14, <1>20, <2>1, Zenon
    <2>2. CASE v # w /\ q # r /\ Holds(v, q)
        <3>1. /\ tjob[q] # {} /\ \A j \in tjob[q] : ~j.done
              /\ \A u \in TWorkers : Holds(u, q) => u = v
            BY <1>1, <2>2, Zenon DEF HoldInv
        <3>2. tjob' = tjob
            BY <1>3, Zenon
        <3> QED
            BY <1>20, <2>2, <3>1, <3>2, Zenon
    <2> QED
        BY <1>20, <2>1, <2>2, Zenon
<1>26. ResInv'
    <2>1. \A v \in TWorkers : \A q \in TReqs : Holds(v, q)' =>
             \A x \in twork'[v].res : x.from = q /\ (x.success => q \in tran')
        <3>1. \A v \in TWorkers : \A q \in TReqs : Holds(v, q) =>
                 \A x \in twork[v].res : x.from = q /\ (x.success => q \in tran)
            BY <1>1, Zenon DEF ResInv
        <3>2. tran' = tran /\ twork'[w].res = {}
            BY <1>3, <1>16, <1>18, Zenon
        <3>3. ASSUME NEW v \in TWorkers, NEW q \in TReqs, Holds(v, q)'
              PROVE  \A x \in twork'[v].res : x.from = q /\ (x.success => q \in tran')
            <4>1. CASE v = w
                BY <3>2, <4>1, Zenon
            <4>2. CASE v # w
                <5>1. Holds(v, q) /\ twork'[v] = twork[v]
                    BY <1>18, <1>20, <3>3, <4>2, Zenon
                <5>2. \A x \in twork[v].res : x.from = q /\ (x.success => q \in tran)
                    BY <3>1, <5>1, Zenon
                <5>3. tran' = tran
                    BY <3>2, Zenon
                <5> QED
                    BY <5>1, <5>2, <5>3
            <4> QED
                BY <4>1, <4>2, Zenon
        <3> QED
            BY <3>3, Zenon
    <2>2. /\ \A q \in TReqs : \A m \in tjob'[q] : \A x \in m.res : x.from = q /\ (x.success => q \in tran')
          /\ \A q \in TReqs : tpc'[q] = "store" =>
               treply'[q] # {} /\ \A a \in treply'[q] : \A x \in a.res : x.from = q
        BY <1>1, <1>3, Zenon DEF ResInv
    <2>3. /\ \A q \in TReqs : \A a \in treply'[q] : \A x \in a.res :
               tool_cache_key(x.from)' = tool_cache_key(q)' /\ (x.success => x.from \in tran')
          /\ \A m \in DOMAIN tcache' : tcache'[m] \in tran' /\ tool_cache_key(tcache[m])' = m
        BY <1>1, <1>3, SameReplyRes, SameCacheRes, Zenon
    <2> QED
        BY <2>1, <2>2, <2>3, Zenon DEF ResInv
<1>27. PendInv'
    <2>1. \A v \in TWorkers : \A q : Holds(v, q) /\ twork[v].at = "blocked" =>
             Holds(v, q)' /\ twork'[v].at = "blocked"
        BY <1>2, <1>18, Zenon DEF Holds
    <2> QED
        BY <1>1, <1>3, <2>1, Zenon DEF PendInv
<1>28. GateInv'
    <2>1. \A q \in TReqs : tjob'[q] = {} \/ Queued(q)' => q \notin tran' /\ tverdict'[q] = "none"
        BY <1>1, <1>3, <1>13, Zenon DEF GateInv
    <2>2. /\ \A q \in TReqs : Asked(q)' <=> Asked(q)
          /\ \A q : Leave(q)' <=> Leave(q)
        BY <1>3, Zenon DEF Asked, Leave
    <2>3. ASSUME NEW v \in TWorkers, NEW q \in TReqs, Holds(v, q)'
          PROVE  /\ twork'[v].at \in {"start", "ask"} => tverdict'[q] = "none"
                 /\ twork'[v].at # "done" => q \notin tran'
                 /\ twork'[v].at = "blocked" => Asked(q)'
                 /\ twork'[v].at = "run" => Leave(q)'
                 /\ twork'[v].at = "done" /\ tverdict'[q] \in {"allow", "always"} =>
                      twork'[v].ret # "eperm" \/ \E x \in twork'[v].res : x.cls = "fatal"
        <3>1. CASE v = w /\ q = r
            <4>1. r \notin tran' /\ tverdict'[r] = "none"
                BY <1>1, <1>3, <1>14, Zenon DEF GateInv
            <4>2. twork'[v].at = "start"
                BY <1>16, <1>18, <3>1, Zenon
            <4>3. twork'[v].at # "blocked" /\ twork'[v].at # "run" /\ twork'[v].at # "done"
                BY <4>2
            <4> QED
                BY <3>1, <4>1, <4>3, Zenon
        <3>2. CASE v # w /\ q # r /\ Holds(v, q)
            <4>1. twork'[v] = twork[v]
                BY <1>18, <3>2, Zenon
            <4> QED
                BY <1>1, <1>3, <2>2, <3>2, <4>1, Zenon DEF GateInv
        <3> QED
            BY <1>20, <2>3, <3>1, <3>2, Zenon
    <2>4. \A q \in tran' : Leave(q)'
        BY <1>1, <1>3, <2>2, Zenon DEF GateInv
    <2> QED
        BY <2>1, <2>3, <2>4, Zenon DEF GateInv
<1>29. TypeOK'
    BY <1>1, <1>3, <1>9, <1>18, Zenon DEF TypeOK
<1> QED
    BY <1>22, <1>23, <1>24, <1>25, <1>26, <1>27, <1>28, <1>29, Zenon DEF IInv

-----------------------------------------------------------------------------
(* The RPC thread before it has a job, and after.                          *)

(* An answer without a job.                                                *)
LEMMA ReplyStep ==
    ASSUME IInv, NEW r \in TReqs, tpc[r] = "idle", NEW e \in Rets, NEW R \in SUBSET Res,
           Reply(r, e, R),
           UNCHANGED <<treq, tjob, tqueue, twork, tpend, tcache, tdown, tran, tverdict, tpassed>>,
           \A x \in R : tool_cache_key(x.from) = tool_cache_key(r) /\ (x.success => x.from \in tran)
    PROVE  IInv'
<1>1. TypeOK /\ JobInv /\ QueueInv /\ RestInv /\ HoldInv /\ ResInv /\ PendInv /\ GateInv
    BY Zenon DEF IInv
<1>2. PICK pc \in {"idle", "wait", "store", "end"} : pc = "end"
    BY Zenon
<1>3. pc # "store" /\ pc # "wait"
    BY <1>2
<1>4. tpc' = [tpc EXCEPT ![r] = pc] /\ treply' = [treply EXCEPT ![r] = Answer(e, R)]
    BY <1>2, Zenon DEF Reply
<1>5. tpc \in [TReqs -> {"idle", "wait", "store", "end"}] /\ treply \in [TReqs -> SUBSET [ret : Rets, res : SUBSET Res]]
    BY <1>1, Zenon DEF TypeOK
<1>6. /\ tpc' \in [TReqs -> {"idle", "wait", "store", "end"}] /\ tpc'[r] = pc
      /\ \A q \in TReqs : q # r => tpc'[q] = tpc[q]
    BY <1>4, <1>5, Zenon
<1>7. treply' \in [TReqs -> SUBSET [ret : Rets, res : SUBSET Res]]
    BY <1>1, <1>4, AnswerType, Zenon
<1>8. tjob[r] = {}
    BY <1>1, Zenon DEF JobInv, JobOK
<1>9. JobInv'
    <2>1. \A q \in TReqs : Queued(q) \/ InHand(q) => Queued(q)' \/ InHand(q)'
        BY Zenon DEF Queued, InHand
    <2>2. \A q \in TReqs : q # r => \A j : JobOK(q, j) => JobOK(q, j)'
        BY <1>6, <2>1, SameJobOK, Zenon
    <2>3. tjob' = tjob
        BY Zenon
    <2> QED
        BY <1>1, <1>3, <1>6, <1>8, <2>2, <2>3, Zenon DEF JobInv
<1>10. QueueInv' /\ RestInv' /\ HoldInv'
    <2>1. QueueInv'
        BY <1>1 DEF QueueInv, Holds
    <2>2. RestInv'
        BY <1>1 DEF RestInv, Holds
    <2>3. HoldInv'
        BY <1>1 DEF HoldInv, Holds
    <2> QED
        BY <2>1, <2>2, <2>3
<1>11. PendInv' /\ GateInv'
    BY <1>1, SamePending, SameGate, Zenon
<1>12. ResInv'
    <2>1. \A q \in TReqs : \A j \in tjob'[q] : \A x \in j.res : x.from = q /\ (x.success => q \in tran)
        BY <1>1, Zenon DEF ResInv
    <2>2. UNCHANGED <<treq, twork, tcache, tran>>
        BY Zenon
    <2> QED
        BY <1>1, <1>3, <1>4, <1>5, <2>1, <2>2, AnswerRes, Zenon
<1>13. TypeOK'
    BY <1>1, <1>6, <1>7, Zenon DEF TypeOK
<1> QED
    BY <1>9, <1>10, <1>11, <1>12, <1>13, Zenon DEF IInv

(* An unknown tool, refused arguments, a cached result.                    *)
LEMMA AnsweredStep ==
    ASSUME IInv, NEW r \in TReqs, execute_answered(r)
    PROVE  IInv'
<1>1. TypeOK /\ ResInv
    BY Zenon DEF IInv
<1>2. /\ UNCHANGED <<treq, tjob, tqueue, twork, tpend, tcache, tdown, tran, tverdict, tpassed>>
      /\ tpc[r] = "idle"
    BY Zenon DEF execute_answered
<1>3. ASSUME NEW e \in Rets, Reply(r, e, {})
      PROVE  IInv'
    <2>1. PICK R \in SUBSET Res : R = {}
        BY Zenon
    <2>2. Reply(r, e, R)
        BY <1>3, <2>1, Zenon
    <2>3. \A x \in R : tool_cache_key(x.from) = tool_cache_key(r) /\ (x.success => x.from \in tran)
        BY <2>1, Zenon
    <2> QED
        BY <1>2, <2>2, <2>3, ReplyStep, Zenon
<1>4. CASE Reply(r, "not_found", {}) \/ Reply(r, "validation", {})
    <2>1. PICK e \in Rets : Reply(r, e, {})
        BY <1>4, Zenon DEF Rets
    <2> QED
        BY <1>3, <2>1, Zenon
<1>5. CASE get_cached_result(r) # {} /\ Reply(r, "ok", get_cached_result(r))
    <2>1. PICK k : k = tool_cache_key(r)
        BY Zenon
    <2>2. k \in DOMAIN tcache /\ get_cached_result(r) = {TResult(TRUE, "ok", tcache[k])}
        BY <1>5, <2>1, Zenon DEF get_cached_result
    <2>3. PICK p : p = tcache[k]
        BY Zenon
    <2>4. p \in tran /\ p \in TReqs /\ tool_cache_key(p) = k
        BY <1>1, <2>2, <2>3, Zenon DEF ResInv, TypeOK
    <2>5. PICK x : x = TResult(TRUE, "ok", p)
        BY Zenon
    <2>6. x \in Res
        BY <2>4, <2>5, Zenon DEF TResult, Res, Cls
    <2>7. x.from = p
        BY <2>5 DEF TResult
    <2>8. PICK R \in SUBSET Res : R = {x}
        BY <2>6, Zenon
    <2>9. PICK e \in Rets : e = "ok"
        BY Zenon DEF Rets
    <2>10. Reply(r, e, R)
        BY <1>5, <2>2, <2>3, <2>5, <2>8, <2>9, Zenon
    <2>11. \A y \in R : tool_cache_key(y.from) = tool_cache_key(r) /\ (y.success => y.from \in tran)
        BY <2>1, <2>4, <2>7, <2>8, Zenon
    <2> QED
        BY <1>2, <2>10, <2>11, ReplyStep, Zenon
<1> QED
    BY <1>4, <1>5, Zenon DEF execute_answered

(* A job is queued, or the queue is full.                                  *)
LEMMA EnqueueStep ==
    ASSUME IInv, NEW r \in TReqs, pool_enqueue(r)
    PROVE  IInv'
<1>1. TypeOK /\ JobInv /\ QueueInv /\ RestInv /\ HoldInv /\ ResInv /\ PendInv /\ GateInv
    BY Zenon DEF IInv
<1>2. UNCHANGED <<treq, twork, tpend, tcache, tdown, tran, tverdict, tpassed>> /\ tpc[r] = "idle"
    BY Zenon DEF pool_enqueue
<1>3. CASE Reply(r, "busy", {}) /\ UNCHANGED <<tjob, tqueue>>
    <2>1. PICK R \in SUBSET Res : R = {}
        BY Zenon
    <2>2. PICK e \in Rets : e = "busy"
        BY Zenon DEF Rets
    <2>3. Reply(r, e, R)
        BY <1>3, <2>1, <2>2, Zenon
    <2>4. \A x \in R : tool_cache_key(x.from) = tool_cache_key(r) /\ (x.success => x.from \in tran)
        BY <2>1, Zenon
    <2>5. UNCHANGED <<treq, tjob, tqueue, twork, tpend, tcache, tdown, tran, tverdict, tpassed>>
        BY <1>2, <1>3, Zenon
    <2> QED
        BY <1>2, <2>3, <2>4, <2>5, ReplyStep, Zenon
<1>4. CASE /\ tqueue' = Append(tqueue, r) /\ tjob' = [tjob EXCEPT ![r] = {Job}]
           /\ tpc' = [tpc EXCEPT ![r] = "wait"] /\ UNCHANGED treply
    <2>1. tjob[r] = {} /\ tqueue \in Seq(TReqs)
        BY <1>1, <1>2, Zenon DEF JobInv, JobOK, TypeOK
    <2>2. Job \in JobRec /\ Job.freed = 0 /\ ~Job.done /\ ~Job.detached /\ Job.res = {}
        BY DEF Job, JobRec, Rets
    <2>3. PICK k \in JobRec : k = Job
        BY <2>2, Zenon
    <2>4. /\ tjob' \in [TReqs -> SUBSET JobRec] /\ tjob'[r] = {k}
          /\ \A q \in TReqs : q # r => tjob'[q] = tjob[q]
        BY <1>1, <1>4, <2>3, PutJob, Zenon
    <2>5. /\ tpc' \in [TReqs -> {"idle", "wait", "store", "end"}] /\ tpc'[r] = "wait"
          /\ \A q \in TReqs : q # r => tpc'[q] = tpc[q]
        BY <1>1, <1>4, Zenon DEF TypeOK
    <2>6. PICK n \in Nat : n = Len(tqueue)
        BY <2>1
    <2>7. /\ tqueue' \in Seq(TReqs) /\ Len(tqueue') = n + 1 /\ tqueue'[n + 1] = r
          /\ \A i \in 1..n : tqueue'[i] = tqueue[i]
        BY <1>4, <2>1, <2>6
    <2>8. /\ n + 1 \in 1..(n + 1) /\ \A i \in 1..n : i \in 1..(n + 1)
          /\ \A i \in 1..(n + 1) : i \in 1..n \/ i = n + 1
        OBVIOUS
    <2>9. \A q \in TReqs : Queued(q)' <=> Queued(q) \/ q = r
        BY <2>6, <2>7, <2>8, Zenon DEF Queued
    <2>10. /\ \A v \in TWorkers : \A q : Holds(v, q)' <=> Holds(v, q)
           /\ \A q : InHand(q)' <=> InHand(q)
           /\ \A q : Asked(q)' <=> Asked(q)
           /\ \A q : Leave(q)' <=> Leave(q)
        BY <1>2, Zenon DEF Holds, InHand, Asked, Leave
    <2>11. \A v \in TWorkers : ~Holds(v, r)
        BY <1>1, <2>1, Zenon DEF HoldInv
    <2>12. \A i \in 1..n : /\ tjob[tqueue[i]] # {} /\ \A j \in tjob[tqueue[i]] : ~j.done
                           /\ \A l \in 1..n : tqueue[l] = tqueue[i] => l = i
                           /\ \A v \in TWorkers : ~Holds(v, tqueue[i])
        BY <1>1, <2>6, Zenon DEF QueueInv
    <2>13. \A i \in 1..n : tqueue[i] \in TReqs /\ tqueue[i] # r
        <3>1. \A i \in 1..n : tqueue[i] \in TReqs
            BY <2>1, <2>6
        <3> QED
            BY <2>1, <2>12, <3>1, Zenon
    <2>14. JobInv'
        <3>1. JobOK(r, k)'
            <4>1. Queued(r)'
                BY <2>9, Zenon
            <4> QED
                BY <2>2, <2>3, <2>5, <4>1 DEF JobOK
        <3>2. \A q \in TReqs : q # r => \A j : JobOK(q, j) => JobOK(q, j)'
            BY <1>2, <2>5, <2>9, <2>10, SameJobOK, Zenon
        <3>3. \A q \in TReqs : q # r => tjob'[q] = tjob[q] /\ tpc'[q] = tpc[q]
            BY <2>4, <2>5, Zenon
        <3> QED
            BY <1>1, <2>4, <3>1, <3>2, <3>3, PutJobInv, Zenon
    <2>15. QueueInv'
        <3>1. ASSUME NEW i \in 1..(n + 1)
              PROVE  /\ tjob'[tqueue'[i]] # {} /\ \A j \in tjob'[tqueue'[i]] : ~j.done
                     /\ \A l \in 1..(n + 1) : tqueue'[l] = tqueue'[i] => l = i
                     /\ \A v \in TWorkers : ~Holds(v, tqueue[i])'
            <4>1. CASE i \in 1..n
                <5>1. tqueue'[i] = tqueue[i] /\ tqueue[i] \in TReqs /\ tqueue[i] # r
                    BY <2>7, <2>13, <4>1, Zenon
                <5>2. tjob'[tqueue'[i]] = tjob[tqueue[i]]
                    BY <2>4, <5>1, Zenon
                <5>3. \A l \in 1..(n + 1) : tqueue'[l] = tqueue'[i] => l = i
                    BY <2>7, <2>8, <2>12, <4>1, <5>1, Zenon
                <5>4. \A v \in TWorkers : ~Holds(v, tqueue[i])'
                    BY <1>2, <2>12, <4>1, <5>1, Zenon DEF Holds
                <5> QED
                    BY <2>12, <4>1, <5>2, <5>3, <5>4, Zenon
            <4>2. CASE i = n + 1
                <5>1. tqueue'[i] = r
                    BY <2>7, <4>2, Zenon
                <5>2. tjob'[r] # {} /\ \A j \in tjob'[r] : ~j.done
                    BY <2>2, <2>3, <2>4, Zenon
                <5>3. \A l \in 1..(n + 1) : tqueue'[l] = r => l = i
                    BY <2>7, <2>8, <2>13, <4>2, Zenon
                <5>4. \A v \in TWorkers : ~Holds(v, tqueue[i])'
                    BY <1>2, <2>11, <5>1, Zenon DEF Holds
                <5> QED
                    BY <5>1, <5>2, <5>3, <5>4, Zenon
            <4> QED
                BY <2>8, <4>1, <4>2, Zenon
        <3> QED
            BY <2>7, <3>1, Zenon DEF QueueInv
    <2>16. RestInv' /\ PendInv'
        <3>1. RestInv'
            BY <1>1, <1>2 DEF RestInv, Holds
        <3> QED
            BY <1>1, <1>2, <3>1, SamePending, Zenon
    <2>17. HoldInv'
        <3>1. \A v \in TWorkers, q \in TReqs : Holds(v, q)' => Holds(v, q) /\ tjob'[q] = tjob[q]
            BY <2>4, <2>10, <2>11, Zenon
        <3> QED
            BY <1>1, <2>10, <3>1, Zenon DEF HoldInv
    <2>18. ResInv'
        <3>1. \A q \in TReqs : tpc'[q] = "store" => tpc[q] = "store"
            <4>1. "wait" # "store"
                OBVIOUS
            <4> QED
                BY <2>5, <4>1, Zenon
        <3>2. \A q \in TReqs : \A j \in tjob'[q] : \A x \in j.res : x.from = q /\ (x.success => q \in tran')
            <4>1. \A q \in TReqs : \A j \in tjob[q] : \A x \in j.res : x.from = q /\ (x.success => q \in tran)
                BY <1>1, Zenon DEF ResInv
            <4>2. tran' = tran
                BY <1>2, Zenon
            <4> QED
                BY <2>2, <2>3, <2>4, <4>1, <4>2, Zenon
        <3>3. \A v \in TWorkers : \A q \in TReqs : Holds(v, q)' =>
                 \A x \in twork'[v].res : x.from = q /\ (x.success => q \in tran')
            BY <1>1, <1>2, SameWorkRes, Zenon
        <3>4. \A q \in TReqs : tpc'[q] = "store" =>
                 treply'[q] # {} /\ \A a \in treply'[q] : \A x \in a.res : x.from = q
            BY <1>1, <1>4, <3>1, Zenon DEF ResInv
        <3>5. /\ \A q \in TReqs : \A a \in treply'[q] : \A x \in a.res :
                   tool_cache_key(x.from)' = tool_cache_key(q)' /\ (x.success => x.from \in tran')
              /\ \A m \in DOMAIN tcache' : tcache'[m] \in tran' /\ tool_cache_key(tcache[m])' = m
            BY <1>1, <1>2, <1>4, SameReplyRes, SameCacheRes, Zenon
        <3> QED
            BY <3>2, <3>3, <3>4, <3>5, Zenon DEF ResInv
    <2>19. GateInv'
        <3>1. \A q \in TReqs : tjob'[q] = {} \/ Queued(q)' => tjob[q] = {} \/ Queued(q)
            BY <2>1, <2>4, <2>9, Zenon
        <3>2. /\ \A q \in TReqs : tjob[q] = {} \/ Queued(q) => q \notin tran /\ tverdict[q] = "none"
              /\ \A q \in tran : Leave(q)
            BY <1>1, Zenon DEF GateInv
        <3>3. \A v \in TWorkers, q \in TReqs : Holds(v, q)' =>
                 /\ twork'[v].at \in {"start", "ask"} => tverdict'[q] = "none"
                 /\ twork'[v].at # "done" => q \notin tran'
                 /\ twork'[v].at = "blocked" => Asked(q)'
                 /\ twork'[v].at = "run" => Leave(q)'
                 /\ twork'[v].at = "done" /\ tverdict'[q] \in {"allow", "always"} =>
                      twork'[v].ret # "eperm" \/ \E x \in twork'[v].res : x.cls = "fatal"
            BY <1>1, <1>2, SameWorkGate, Zenon
        <3>4. tran' = tran /\ tverdict' = tverdict
            BY <1>2, Zenon
        <3>5. \A q \in TReqs : tjob'[q] = {} \/ Queued(q)' => q \notin tran' /\ tverdict'[q] = "none"
            BY <3>1, <3>2, <3>4, Zenon
        <3>6. \A q \in tran' : Leave(q)'
            BY <2>10, <3>2, <3>4, Zenon
        <3> QED
            BY <3>3, <3>5, <3>6, Zenon DEF GateInv
    <2>20. TypeOK'
        BY <1>1, <1>2, <1>4, <2>4, <2>5, <2>7, Zenon DEF TypeOK
    <2> QED
        BY <2>14, <2>15, <2>16, <2>17, <2>18, <2>19, <2>20, Zenon DEF IInv
<1> QED
    BY <1>3, <1>4, Zenon DEF pool_enqueue

(* A successful result is cached under the key of its request.             *)
LEMMA CacheStep ==
    ASSUME IInv, NEW r \in TReqs, cache_tool_result(r)
    PROVE  IInv'
<1>1. TypeOK /\ JobInv /\ QueueInv /\ RestInv /\ HoldInv /\ ResInv /\ PendInv /\ GateInv
    BY Zenon DEF IInv
<1>2. /\ UNCHANGED <<treq, tjob, treply, tqueue, twork, tpend, tdown, tran, tverdict, tpassed>>
      /\ tpc[r] = "store" /\ tpc' = [tpc EXCEPT ![r] = "end"]
    BY Zenon DEF cache_tool_result
<1>3. /\ tpc' \in [TReqs -> {"idle", "wait", "store", "end"}] /\ tpc'[r] = "end"
      /\ \A q \in TReqs : q # r => tpc'[q] = tpc[q]
    BY <1>1, <1>2, Zenon DEF TypeOK
<1>4. JobInv'
    <2>1. \A q \in TReqs : Queued(q) \/ InHand(q) => Queued(q)' \/ InHand(q)'
        BY <1>2, Zenon DEF Queued, InHand
    <2>2. \A q \in TReqs : q # r => \A j : JobOK(q, j) => JobOK(q, j)'
        BY <1>2, <1>3, <2>1, SameJobOK, Zenon
    <2>3. \A j : JobOK(r, j) => JobOK(r, j)'
        <3>1. ASSUME NEW j, JobOK(r, j)
              PROVE  JobOK(r, j)'
            <4>1. j.freed = 1 /\ j.done /\ tpc'[r] # "idle" /\ tpc'[r] # "wait" /\ tpc'[r] = "end"
                BY <1>2, <1>3, <3>1 DEF JobOK
            <4> QED
                BY <4>1 DEF JobOK
        <3> QED
            BY <3>1, Zenon
    <2>4. tjob' = tjob /\ tpc'[r] # "wait"
        BY <1>2, <1>3
    <2>5. \A q \in TReqs : \A j : JobOK(q, j) => JobOK(q, j)'
        BY <2>2, <2>3, Zenon
    <2>6. \A q \in TReqs : tpc'[q] = "wait" => tpc[q] = "wait"
        BY <1>3, <2>4, Zenon
    <2> QED
        BY <1>1, <2>4, <2>5, <2>6, Zenon DEF JobInv
<1>5. QueueInv' /\ RestInv' /\ HoldInv'
    <2>1. QueueInv'
        BY <1>1, <1>2 DEF QueueInv, Holds
    <2>2. RestInv'
        BY <1>1, <1>2 DEF RestInv, Holds
    <2>3. HoldInv'
        BY <1>1, <1>2 DEF HoldInv, Holds
    <2> QED
        BY <2>1, <2>2, <2>3
<1>6. PendInv' /\ GateInv'
    BY <1>1, <1>2, SamePending, SameGate, Zenon
<1>7. \A k \in DOMAIN tcache' : tcache'[k] \in tran /\ tool_cache_key(tcache'[k]) = k
    <2>1. \A k \in DOMAIN tcache : tcache[k] \in tran /\ tool_cache_key(tcache[k]) = k
        BY <1>1, Zenon DEF ResInv
    <2>2. CASE tcache' = tcache
        BY <2>1, <2>2, Zenon
    <2>3. CASE /\ \E x \in (CHOOSE y \in treply[r] : TRUE).res : x.success
               /\ tcache' = [k \in {tool_cache_key(r)} \cup DOMAIN tcache |->
                              IF k = tool_cache_key(r) THEN r ELSE tcache[k]]
        <3>1. PICK a : a = CHOOSE y \in treply[r] : TRUE
            BY Zenon
        <3>2. a \in treply[r]
            <4>1. treply[r] # {}
                BY <1>1, <1>2, Zenon DEF ResInv
            <4> QED
                BY <3>1, <4>1, Zenon
        <3>3. PICK x \in a.res : x.success
            BY <2>3, <3>1, Zenon
        <3>4. x.from = r /\ x.from \in tran
            BY <1>1, <1>2, <3>2, <3>3, Zenon DEF ResInv
        <3>5. PICK k : k = tool_cache_key(r)
            BY Zenon
        <3>6. tcache' = [m \in {k} \cup DOMAIN tcache |-> IF m = k THEN r ELSE tcache[m]]
            BY <2>3, <3>5, Zenon
        <3>7. DOMAIN tcache' = {k} \cup DOMAIN tcache
            BY <3>6, Zenon
        <3>8. tcache'[k] = r /\ \A m \in DOMAIN tcache : m # k => tcache'[m] = tcache[m]
            BY <3>6, Zenon
        <3> QED
            BY <2>1, <3>4, <3>5, <3>7, <3>8, Zenon
    <2> QED
        BY <2>2, <2>3, Zenon DEF cache_tool_result
<1>8. ResInv'
    <2>1. \A k \in DOMAIN tcache' : tcache'[k] \in tran' /\ tool_cache_key(tcache[k])' = k
        BY <1>2, <1>7, Zenon DEF tool_cache_key
    <2>2. \A q \in TReqs : tpc'[q] = "store" =>
             treply'[q] # {} /\ \A a \in treply'[q] : \A x \in a.res : x.from = q
        <3>1. \A q \in TReqs : tpc'[q] = "store" => tpc[q] = "store"
            BY <1>2, <1>3, Zenon
        <3> QED
            BY <1>1, <1>2, <3>1, Zenon DEF ResInv
    <2>3. \A q \in TReqs : \A m \in tjob'[q] : \A x \in m.res : x.from = q /\ (x.success => q \in tran')
        BY <1>1, <1>2, Zenon DEF ResInv
    <2>4. /\ \A v \in TWorkers : \A q \in TReqs : Holds(v, q)' =>
               \A x \in twork'[v].res : x.from = q /\ (x.success => q \in tran')
          /\ \A q \in TReqs : \A a \in treply'[q] : \A x \in a.res :
               tool_cache_key(x.from)' = tool_cache_key(q)' /\ (x.success => x.from \in tran')
        BY <1>1, <1>2, SameWorkRes, SameReplyRes, Zenon
    <2> QED
        BY <2>1, <2>2, <2>3, <2>4, Zenon DEF ResInv
<1>9. TypeOK'
    BY <1>1, <1>2, <1>3, Zenon DEF TypeOK
<1> QED
    BY <1>4, <1>5, <1>6, <1>8, <1>9, Zenon DEF IInv

-----------------------------------------------------------------------------
(* The end of the service.                                                 *)

(* What is in the queue.                                                   *)
LEMMA InQueue ==
    ASSUME TypeOK, NEW r \in TReqs
    PROVE  r \in Range(tqueue) <=> Queued(r)
<1>1. DOMAIN tqueue = 1..Len(tqueue)
    BY DEF TypeOK
<1> QED
    BY <1>1, Zenon DEF Range, Queued

(* executor_pool_free cancels what is still queued.                        *)
LEMMA PoolFreeStep ==
    ASSUME IInv, executor_pool_free
    PROVE  IInv'
<1>1. TypeOK /\ JobInv /\ QueueInv /\ RestInv /\ HoldInv /\ ResInv /\ PendInv /\ GateInv
    BY Zenon DEF IInv
<1>2. /\ UNCHANGED <<treq, tpc, treply, twork, tpend, tcache, tran, tverdict, tpassed>>
      /\ \A r \in TReqs : tpc[r] \in {"idle", "end"}
      /\ tqueue' = <<>> /\ tdown' = "drain"
    BY Zenon DEF executor_pool_free
<1>3. tdown' # "no"
    BY <1>2
<1>4. tqueue' \in Seq(TReqs) /\ Len(tqueue') = 0
    BY <1>2
<1>5. \A q \in TReqs : ~Queued(q)'
    BY <1>4 DEF Queued
<1>6. /\ \A v \in TWorkers : \A q : Holds(v, q)' <=> Holds(v, q)
      /\ \A q : InHand(q)' <=> InHand(q)
      /\ \A q : Asked(q)' <=> Asked(q)
      /\ \A q : Leave(q)' <=> Leave(q)
    BY <1>2, Zenon DEF Holds, InHand, Asked, Leave
<1>7. ASSUME NEW r \in TReqs
      PROVE  /\ tjob'[r] \in SUBSET JobRec /\ (tjob'[r] = {} <=> tjob[r] = {})
             /\ \A j, k \in tjob'[r] : k = j
             /\ \A j \in tjob'[r] : JobOK(r, j)'
             /\ \A j \in tjob'[r] : \A x \in j.res : x.from = r /\ (x.success => r \in tran)
             /\ ~Queued(r) => tjob'[r] = tjob[r]
    <2>1. tjob'[r] = IF r \in Range(tqueue) /\ ~JobOf(r).done
                     THEN {[JobOf(r) EXCEPT !.ret = "canceled", !.done = TRUE,
                                            !.res = {synth_cancel_result(r)}]}
                     ELSE tjob[r]
        BY Zenon DEF executor_pool_free
    <2>2. /\ tjob[r] \in SUBSET JobRec /\ \A j, k \in tjob[r] : k = j
          /\ \A j \in tjob[r] : JobOK(r, j)
          /\ \A j \in tjob[r] : \A x \in j.res : x.from = r /\ (x.success => r \in tran)
        BY <1>1, Zenon DEF TypeOK, JobInv, ResInv
    <2>3. CASE Queued(r)
        <3>1. tjob[r] # {} /\ \A j \in tjob[r] : ~j.done
            BY <1>1, <2>3, Zenon DEF QueueInv, Queued
        <3>2. PICK j \in JobRec : j = JobOf(r) /\ tjob[r] = {j}
            BY <1>1, <3>1, JobIs, Zenon
        <3>3. PICK R : R = {synth_cancel_result(r)}
            BY Zenon
        <3>4. PICK e \in Rets : e = "canceled"
            BY Zenon DEF Rets
        <3>5. PICK k : k = [j EXCEPT !.ret = e, !.done = TRUE, !.res = R]
            BY Zenon
        <3>6. tjob'[r] = {k}
            BY <1>1, <2>1, <2>3, <3>1, <3>2, <3>3, <3>4, <3>5, InQueue, Zenon
        <3>7. R \in SUBSET Res /\ \A x \in R : x.from = r /\ ~x.success
            <4>1. \A x \in R : x.from = r /\ ~x.success
                BY <3>3 DEF synth_cancel_result, TResult
            <4>2. synth_cancel_result(r) \in Res
                BY Zenon DEF synth_cancel_result, TResult, Res, Cls
            <4> QED
                BY <3>3, <4>1, <4>2, Zenon
        <3>8. k \in JobRec
            BY <3>5, <3>7, Zenon DEF JobRec
        <3>9. k.ret = e /\ k.done /\ k.res = R /\ k.freed = j.freed /\ k.detached = j.detached
            BY <3>5 DEF JobRec
        <3>10. j.freed = 0 /\ j.detached /\ tpc[r] = "end"
            <4>1. JobOK(r, j) /\ ~j.done /\ tpc[r] \in {"idle", "end"}
                BY <1>2, <2>2, <3>1, <3>2, Zenon
            <4> QED
                BY <4>1 DEF JobOK
        <3>11. k.freed = 0 /\ k.detached /\ k.ret = "canceled" /\ tpc'[r] = "end"
            BY <1>2, <3>4, <3>9, <3>10, Zenon
        <3>12. JobOK(r, k)'
            BY <1>3, <3>9, <3>11 DEF JobOK
        <3>13. \A x \in k.res : x.from = r /\ (x.success => r \in tran)
            BY <3>7, <3>9, Zenon
        <3> QED
            BY <2>3, <3>1, <3>6, <3>8, <3>12, <3>13, Zenon
    <2>4. CASE ~Queued(r)
        <3>1. tjob'[r] = tjob[r]
            BY <1>1, <2>1, <2>4, InQueue, Zenon
        <3>2. Queued(r) \/ InHand(r) => Queued(r)' \/ InHand(r)'
            BY <1>6, <2>4, Zenon
        <3>3. tpc'[r] = tpc[r] /\ (tdown # "no" => tdown' # "no")
            BY <1>2, <1>3, Zenon
        <3>4. \A j : JobOK(r, j) => JobOK(r, j)'
            BY <3>2, <3>3, SameJobOK, Zenon
        <3> QED
            BY <2>2, <3>1, <3>4, Zenon
    <2> QED
        BY <2>3, <2>4, Zenon
<1>8. tjob' \in [TReqs -> SUBSET JobRec]
    <2>1. tjob' = [r \in TReqs |-> tjob'[r]]
        BY Zenon DEF executor_pool_free
    <2> QED
        BY <1>7, <2>1, Zenon
<1>9. JobInv'
    BY <1>1, <1>2, <1>7, Zenon DEF JobInv
<1>10. QueueInv'
    BY <1>4 DEF QueueInv
<1>11. RestInv' /\ PendInv'
    <2>1. RestInv'
        BY <1>1, <1>2 DEF RestInv, Holds
    <2> QED
        BY <1>1, <1>2, <2>1, SamePending, Zenon
<1>12. HoldInv'
    <2>1. \A v \in TWorkers, q \in TReqs : Holds(v, q) => ~Queued(q)
        BY <1>1, Zenon DEF QueueInv, Queued
    <2>2. \A v \in TWorkers, q \in TReqs : Holds(v, q)' => Holds(v, q) /\ tjob'[q] = tjob[q]
        BY <1>6, <1>7, <2>1, Zenon
    <2> QED
        BY <1>1, <1>6, <2>2, Zenon DEF HoldInv
<1>13. ResInv'
    <2>1. \A q \in TReqs : \A j \in tjob'[q] : \A x \in j.res : x.from = q /\ (x.success => q \in tran')
        <3>1. tran' = tran
            BY <1>2, Zenon
        <3>2. \A q \in TReqs : \A j \in tjob'[q] : \A x \in j.res : x.from = q /\ (x.success => q \in tran)
            BY <1>7, Zenon
        <3> QED
            BY <3>1, <3>2, Zenon
    <2>2. \A q \in TReqs : tpc'[q] = "store" =>
             treply'[q] # {} /\ \A a \in treply'[q] : \A x \in a.res : x.from = q
        BY <1>1, <1>2, Zenon DEF ResInv
    <2>3. \A v \in TWorkers : \A q \in TReqs : Holds(v, q)' =>
             \A x \in twork'[v].res : x.from = q /\ (x.success => q \in tran')
        BY <1>1, <1>2, SameWorkRes, Zenon
    <2>4. /\ \A q \in TReqs : \A a \in treply'[q] : \A x \in a.res :
               tool_cache_key(x.from)' = tool_cache_key(q)' /\ (x.success => x.from \in tran')
          /\ \A m \in DOMAIN tcache' : tcache'[m] \in tran' /\ tool_cache_key(tcache[m])' = m
        BY <1>1, <1>2, SameReplyRes, SameCacheRes, Zenon
    <2> QED
        BY <2>1, <2>2, <2>3, <2>4, Zenon DEF ResInv
<1>14. GateInv'
    <2>1. \A q \in TReqs : tjob'[q] = {} \/ Queued(q)' => tjob[q] = {} \/ Queued(q)
        BY <1>5, <1>7, Zenon
    <2>2. /\ \A q \in TReqs : tjob[q] = {} \/ Queued(q) => q \notin tran /\ tverdict[q] = "none"
          /\ \A q \in tran : Leave(q)
        BY <1>1, Zenon DEF GateInv
    <2>3. \A v \in TWorkers, q \in TReqs : Holds(v, q)' =>
             /\ twork'[v].at \in {"start", "ask"} => tverdict'[q] = "none"
             /\ twork'[v].at # "done" => q \notin tran'
             /\ twork'[v].at = "blocked" => Asked(q)'
             /\ twork'[v].at = "run" => Leave(q)'
             /\ twork'[v].at = "done" /\ tverdict'[q] \in {"allow", "always"} =>
                  twork'[v].ret # "eperm" \/ \E x \in twork'[v].res : x.cls = "fatal"
        BY <1>1, <1>2, SameWorkGate, Zenon
    <2>4. tran' = tran /\ tverdict' = tverdict
        BY <1>2, Zenon
    <2>5. \A q \in TReqs : tjob'[q] = {} \/ Queued(q)' => q \notin tran' /\ tverdict'[q] = "none"
        BY <2>1, <2>2, <2>4, Zenon
    <2>6. \A q \in tran' : Leave(q)'
        BY <1>6, <2>2, <2>4, Zenon
    <2> QED
        BY <2>3, <2>5, <2>6, Zenon DEF GateInv
<1>15. TypeOK'
    BY <1>1, <1>2, <1>4, <1>8, Zenon DEF TypeOK
<1> QED
    BY <1>9, <1>10, <1>11, <1>12, <1>13, <1>14, <1>15, Zenon DEF IInv

(* With all workers at rest the service goes.                              *)
LEMMA DestroyStep ==
    ASSUME IInv, tool_service_destroy
    PROVE  IInv'
<1>1. TypeOK /\ JobInv /\ QueueInv /\ RestInv /\ HoldInv /\ ResInv /\ PendInv /\ GateInv
    BY Zenon DEF IInv
<1>2. /\ UNCHANGED <<treq, tpc, tjob, treply, tqueue, twork, tran, tverdict, tpassed>>
      /\ tpend' = <<>> /\ tcache' = <<>> /\ tdown' = "gone"
      /\ \A w \in TWorkers : twork[w].at = "rest"
    BY Zenon DEF tool_service_destroy, At
<1>3. tdown' # "no"
    BY <1>2
<1>4. \A v \in TWorkers, q \in TReqs : ~Holds(v, q) /\ ~Holds(v, q)'
    BY <1>1, <1>2, Zenon DEF RestInv, Holds
<1>5. JobInv'
    <2>1. \A q \in TReqs : Queued(q) \/ InHand(q) => Queued(q)' \/ InHand(q)'
        BY <1>2, Zenon DEF Queued, InHand
    <2>2. \A q \in TReqs : \A j : JobOK(q, j) => JobOK(q, j)'
        BY <1>2, <1>3, <2>1, SameJobOK, Zenon
    <2> QED
        BY <1>1, <1>2, <2>2, Zenon DEF JobInv
<1>6. QueueInv' /\ RestInv' /\ HoldInv'
    <2>1. QueueInv'
        BY <1>1, <1>2 DEF QueueInv, Holds
    <2>2. RestInv'
        BY <1>1, <1>2 DEF RestInv, Holds
    <2>3. HoldInv'
        BY <1>4, Zenon DEF HoldInv
    <2> QED
        BY <2>1, <2>2, <2>3
<1>7. PendInv' /\ tpend' \in Seq(Question)
    BY <1>2 DEF PendInv
<1>8. ResInv'
    <2>1. DOMAIN tcache' = {}
        BY <1>2
    <2>2. /\ \A q \in TReqs : \A m \in tjob'[q] : \A x \in m.res : x.from = q /\ (x.success => q \in tran')
          /\ \A q \in TReqs : tpc'[q] = "store" =>
               treply'[q] # {} /\ \A a \in treply'[q] : \A x \in a.res : x.from = q
        BY <1>1, <1>2, Zenon DEF ResInv
    <2>3. \A q \in TReqs : \A a \in treply'[q] : \A x \in a.res :
             tool_cache_key(x.from)' = tool_cache_key(q)' /\ (x.success => x.from \in tran')
        BY <1>1, <1>2, SameReplyRes, Zenon
    <2> QED
        BY <1>4, <2>1, <2>2, <2>3, Zenon DEF ResInv
<1>9. GateInv'
    <2>1. \A q \in TReqs : tjob'[q] = {} \/ Queued(q)' => q \notin tran' /\ tverdict'[q] = "none"
        BY <1>1, <1>2 DEF GateInv, Queued
    <2>2. \A q \in tran' : Leave(q)'
        BY <1>1, <1>2 DEF GateInv, Leave
    <2> QED
        BY <1>4, <2>1, <2>2, Zenon DEF GateInv
<1>10. TypeOK'
    BY <1>1, <1>2, <1>7, Zenon DEF TypeOK
<1> QED
    BY <1>5, <1>6, <1>7, <1>8, <1>9, <1>10, Zenon DEF IInv

-----------------------------------------------------------------------------
(* The invariant holds when the service starts ...                         *)
LEMMA InitIInv ==
    ASSUME TInit
    PROVE  IInv
<1>1. /\ tpc = [r \in TReqs |-> "idle"] /\ tjob = [r \in TReqs |-> {}] /\ treply = [r \in TReqs |-> {}]
      /\ tqueue = <<>> /\ twork = [w \in TWorkers |-> Resting] /\ tpend = <<>> /\ tran = {}
      /\ tverdict = [r \in TReqs |-> "none"] /\ tcache = <<>>
    BY Zenon DEF TInit, tool_service_create
<1>2. Resting \in WorkRec /\ Resting.at = "rest" /\ Resting.req = {} /\ Resting.res = {}
    BY DEF Resting, WorkRec, Steps, Rets
<1>3. \A v \in TWorkers : twork[v].at = "rest" /\ twork[v].req = {}
    BY <1>1, <1>2, Zenon
<1>4. \A v \in TWorkers, q \in TReqs : ~Holds(v, q)
    BY <1>3, Zenon DEF Holds
<1>5. tqueue \in Seq(TReqs) /\ tpend \in Seq(Question) /\ Len(tqueue) = 0 /\ Len(tpend) = 0
    BY <1>1
<1>6. TypeOK
    BY <1>1, <1>2, <1>5, Zenon DEF TypeOK
<1>7. \A q \in TReqs : tpc[q] = "idle" /\ tjob[q] = {} /\ treply[q] = {}
    BY <1>1, Zenon
<1>8. \A q \in TReqs : tpc[q] # "wait" /\ tpc[q] # "store"
    BY <1>7
<1>9. JobInv
    BY <1>7, <1>8, Zenon DEF JobInv
<1>10. QueueInv /\ PendInv
    BY <1>5 DEF QueueInv, PendInv
<1>11. RestInv /\ HoldInv
    BY <1>3, <1>4, Zenon DEF RestInv, HoldInv
<1>12. ResInv
    <2>1. DOMAIN tcache = {}
        BY <1>1
    <2> QED
        BY <1>4, <1>7, <1>8, <2>1, Zenon DEF ResInv
<1>13. GateInv
    BY <1>1, <1>4, Zenon DEF GateInv
<1> QED
    BY <1>6, <1>9, <1>10, <1>11, <1>12, <1>13, Zenon DEF IInv

(* ... and every step keeps it.                                            *)
LEMMA NextIInv ==
    ASSUME IInv, [TNext]_tvars
    PROVE  IInv'
<1>1. CASE UNCHANGED tvars
    <2>1. UNCHANGED <<treq, tpc, tjob, treply, tqueue, twork, tpend, tcache, tdown, tran, tverdict, tpassed>>
        BY <1>1, Zenon DEF tvars
    <2>2. TypeOK /\ JobInv /\ QueueInv /\ RestInv /\ HoldInv /\ ResInv /\ PendInv /\ GateInv
        BY Zenon DEF IInv
    <2>3. JobInv' /\ QueueInv' /\ RestInv' /\ HoldInv' /\ ResInv' /\ PendInv' /\ GateInv'
        BY <2>1, <2>2, SameJobs, SameRes, SamePending, SameGate, Zenon
    <2>4. TypeOK'
        BY <2>1, <2>2, Zenon DEF TypeOK
    <2> QED
        BY <2>3, <2>4, Zenon DEF IInv
<1>2. ASSUME NEW r \in TReqs,
             \/ execute_answered(r) \/ pool_enqueue(r) \/ pool_taken(r)
             \/ pool_detached(r) \/ cache_tool_result(r)
      PROVE  IInv'
    BY <1>2, AnsweredStep, EnqueueStep, TakenStep, DetachedStep, CacheStep, Zenon
<1>3. ASSUME NEW w \in TWorkers,
             \/ worker_take(w) \/ executor_refuses(w) \/ safety_guard_bridge_check(w)
             \/ approval_pending(w) \/ approval_woken(w)
             \/ tool_builtin_exec(w) \/ sandbox_exec(w) \/ worker_finish(w)
      PROVE  IInv'
    BY <1>3, TakeStep, RefusesStep, BridgeStep, PendingStep, WokenStep, BuiltinStep, SandboxStep,
       FinishStep, Zenon
<1>4. ASSUME NEW i \in DOMAIN tpend, NEW d \in {"allow", "always", "deny"},
             interactive_approval_resolve(i, d)
      PROVE  IInv'
    BY <1>4, ResolveStep, Zenon
<1>5. CASE executor_pool_free
    BY <1>5, PoolFreeStep, Zenon
<1>6. CASE tool_service_destroy
    BY <1>6, DestroyStep, Zenon
<1> QED
    BY <1>1, <1>2, <1>3, <1>4, <1>5, <1>6, Zenon DEF TNext

(* The inductive invariant of the executor, for any number of requests and *)
(* workers: tool_service_execute, executor_pool_run, pool_worker, the      *)
(* approval gate, tool.approve and the shutdown of the pool keep it.       *)
THEOREM ExecInvariant ==
    TSpec => []IInv
<1>1. TInit => IInv
    BY InitIInv, Zenon
<1>2. IInv /\ [TNext]_tvars => IInv'
    BY NextIInv, Zenon
<1> QED
    BY <1>1, <1>2, PTL DEF TSpec

(* A tool runs only with leave, and an accepted decision is carried out,   *)
(* whatever the deadline of the approval does meanwhile (gate_ask,         *)
(* interactive_approval_block against interactive_approval_resolve).       *)
THEOREM DecisionsHonoured ==
    TSpec => []DecisionHonoured
<1>1. IInv => DecisionHonoured
    <2>1. SUFFICES ASSUME IInv
                   PROVE  DecisionHonoured
        BY Zenon
    <2>2. RestInv /\ GateInv
        BY <2>1, Zenon DEF IInv
    <2>3. \A r \in tran : r \in tpassed \/ tverdict[r] \in {"allow", "always"}
        BY <2>2, Zenon DEF GateInv, Leave
    <2>4. ASSUME NEW w \in TWorkers, At(w, "done"), tverdict[ReqOf(w)] \in {"allow", "always"}
          PROVE  twork[w].ret # "eperm" \/ \E x \in twork[w].res : x.cls = "fatal"
        <3>1. twork[w].at = "done" /\ twork[w].at # "rest"
            BY <2>4 DEF At
        <3>2. ReqOf(w) \in TReqs /\ Holds(w, ReqOf(w))
            BY <2>2, <3>1, AtWork, Zenon
        <3> QED
            BY <2>2, <2>4, <3>1, <3>2, Zenon DEF GateInv
    <2> QED
        BY <2>3, <2>4, Zenon DEF DecisionHonoured
<1> QED
    BY <1>1, ExecInvariant, PTL

(* The hand-over between submitter and worker: a job is freed once, when   *)
(* nobody refers to it any more, and the result a caller gets is one of    *)
(* its own agent, tool and arguments (executor_pool_run, pool_worker,      *)
(* job_free, get_cached_result).                                           *)
THEOREM JobsHandedOver ==
    TSpec => []HandedOver
<1>1. IInv => HandedOver
    <2>1. SUFFICES ASSUME IInv
                   PROVE  HandedOver
        BY Zenon
    <2>2. TypeOK /\ JobInv /\ QueueInv /\ HoldInv /\ ResInv
        BY <2>1, Zenon DEF IInv
    <2>3. ASSUME NEW r \in TReqs, tjob[r] # {}
          PROVE  /\ JobOf(r).freed <= 1
                 /\ JobOf(r).freed = 1 => ~InHand(r) /\ r \notin Range(tqueue) /\ tpc[r] # "wait"
                 /\ tpc[r] = "end" /\ ~InHand(r) /\ r \notin Range(tqueue) =>
                       \/ JobOf(r).freed = 1
                       \/ JobOf(r).detached /\ JobOf(r).ret = "canceled" /\ tdown # "no"
        <3>1. PICK j \in JobRec : j = JobOf(r) /\ tjob[r] = {j}
            BY <2>2, <2>3, JobIs, Zenon
        <3>2. JobOK(r, j)
            BY <2>2, <3>1, Zenon DEF JobInv
        <3>3. r \in Range(tqueue) <=> Queued(r)
            BY <2>2, InQueue, Zenon
        <3>4. j.freed <= 1
            BY <3>2 DEF JobOK
        <3>5. ASSUME j.freed = 1
              PROVE  ~InHand(r) /\ ~Queued(r) /\ tpc[r] # "wait"
            <4>1. j.done
                BY <3>2, <3>5, Zenon DEF JobOK
            <4>2. ~InHand(r)
                BY <2>2, <3>1, <4>1, Zenon DEF HoldInv, InHand, Holds
            <4>3. ~Queued(r)
                BY <2>2, <3>1, <4>1, Zenon DEF QueueInv, Queued
            <4>4. j.freed # 0
                BY <3>5
            <4> QED
                BY <3>2, <4>2, <4>3, <4>4, Zenon DEF JobOK
        <3>6. ASSUME tpc[r] = "end", ~InHand(r), ~Queued(r)
              PROVE  j.freed = 1 \/ (j.detached /\ j.ret = "canceled" /\ tdown # "no")
            BY <3>2, <3>6, Zenon DEF JobOK
        <3> QED
            BY <3>1, <3>3, <3>4, <3>5, <3>6, Zenon
    <2>4. \A r \in TReqs : \A a \in treply[r] : \A x \in a.res :
             /\ tool_cache_key(x.from) = tool_cache_key(r)
             /\ x.success => x.from \in tran
        BY <2>2, Zenon DEF ResInv
    <2> QED
        BY <2>3, <2>4, Zenon DEF HandedOver
<1> QED
    BY <1>1, ExecInvariant, PTL

=============================================================================
