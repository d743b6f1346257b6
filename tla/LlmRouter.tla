----------------------------- MODULE LlmRouter ------------------------------
(***************************************************************************)
(* The endpoint router of llm_d (src/llm_d/src/router, and the endpoint    *)
(* probes of providers/core/ep_health.c and svc.c): the circuit breaker of *)
(* each endpoint, its state file, the selection strategies, the reload     *)
(* that registers the endpoints again, and the probe sweeps that report    *)
(* into the breaker.                                                       *)
(*                                                                         *)
(* Times are airy_time_ms() truncated to Wrap values, as in the code.  The *)
(* context mutex makes every operation atomic, but "now" is read before    *)
(* the mutex is taken: an operation works with a time up to MaxLag old.    *)
(***************************************************************************)
EXTENDS DaemonBase, FiniteSets, SequencesExt

CONSTANTS
    Config,         \* the endpoints of the configuration, in order
    ProvOf,         \* provider of an endpoint
    Priority,       \* priority of an endpoint
    Cost,           \* estimated cost of a request at an endpoint
    Window,         \* context window of an endpoint
    MaxEps,         \* LLM_ROUTER_MAX_ENDPOINTS
    Wrap,           \* 2^32 for the code
    FailMax, FailWindow, OpenMs, OpenMaxMs, MaxLevel, ProbeMs, ProbeMax,
    DeepEvery,      \* EP_PROBE_DEEP_EVERY
    Sweeper,        \* pool threads that run a probe sweep
    Latency,        \* latencies a measurement may report
    RClockStart,    \* time at start-up
    MaxLag,         \* bound on the age of "now"
    RMaxTick,       \* bound on the time modelled
    RMaxOps         \* bound on the number of operations

ASSUME LlmRouterAssumption ==
    /\ MaxEps \in Nat \ {0} /\ Wrap \in Nat \ {0} /\ RClockStart \in 0..Wrap-1
    /\ {FailMax, FailWindow, OpenMs, OpenMaxMs, ProbeMs, ProbeMax} \subseteq Nat \ {0}
    /\ OpenMaxMs < Wrap \div 2 /\ ProbeMs < Wrap \div 2 /\ MaxLag < OpenMs

Ep == {Config[i] : i \in DOMAIN Config}
Prov == {ProvOf[e] : e \in Ep}
\* llm_fo_reason_t; the breaker counts "rate_limit" like "transport" and ignores "none"
Reason == {"none", "transport", "auth"}

VARIABLES
    rclock, rtick, rops,
    reps,       \* ctx->endpoints
    rrestore,   \* ctx->restore
    rfile,      \* the lines of router.state
    rup,        \* ctx->initialized
    rleft,      \* endpoints a start or a reload has still to register
    rrr,        \* round_robin_index
    rview,      \* ep_health: provider -> [reach, deep]
    rround,     \* g_ep_round, modulo DeepEvery
    rsweep,     \* Sweeper -> the probe result it has still to report
    rhold       \* ghost: time for which an opened circuit must stay open

rVars == <<rclock, rtick, rops, reps, rrestore, rfile, rup, rleft, rrr, rview, rround,
           rsweep, rhold>>

-----------------------------------------------------------------------------
(* The breaker of one endpoint (llm_health.c).                             *)

Sub(a, b) == (a - b) % Wrap
\* (int32_t)(t - now) > 0
Ahead(t, now) == Sub(t, now) \in 1 .. (Wrap \div 2) - 1
NonZero(t) == IF t = 0 THEN 1 ELSE t

llm_ep_ok(ep) ==
    [ep EXCEPT !.consec = 0, !.last = 0, !.open = 0, !.probe = 0, !.pfail = 0, !.level = 0]

llm_ep_state(ep, now) ==
    IF ep.open = 0 THEN "CLOSED" ELSE IF Ahead(ep.open, now) THEN "OPEN" ELSE "HALF"

HoldOf(ep) == MinOf(OpenMs * 2^MinOf(ep.level, MaxLevel), OpenMaxMs)

ep_open(ep, now) ==
    [ep EXCEPT !.open = NonZero((now + HoldOf(ep)) % Wrap), !.probe = 0,
               !.level = MinOf(@ + 1, 255)]

ep_count(ep, now) ==
    [ep EXCEPT !.consec = (IF @ # 0 /\ Sub(now, ep.last) >= FailWindow THEN 0 ELSE @) + 1,
               !.last = now]

llm_ep_fail(ep, reason, now) ==
    LET half == [ep EXCEPT !.last = now, !.pfail = IF reason = "auth" THEN @ ELSE @ + 1]
        closed == ep_count(ep, now)
    IN  CASE reason = "none" -> ep
          [] reason # "none" /\ llm_ep_state(ep, now) = "OPEN" -> [ep EXCEPT !.last = now]
          [] reason # "none" /\ llm_ep_state(ep, now) = "HALF" ->
                IF reason = "auth" \/ half.pfail >= ProbeMax
                THEN ep_open([half EXCEPT !.pfail = 0], now) ELSE half
          [] OTHER ->
                IF reason = "auth" \/ closed.consec >= FailMax
                THEN ep_open([closed EXCEPT !.pfail = 0], now) ELSE closed

\* the probe slot of a half-open circuit is taken by the caller that is admitted
Admits(ep, now) ==
    \/ llm_ep_state(ep, now) = "CLOSED"
    \/ llm_ep_state(ep, now) = "HALF" /\ ~(ep.probe # 0 /\ Ahead(ep.probe, now))

llm_ep_admit(ep, now) ==
    IF Admits(ep, now) /\ llm_ep_state(ep, now) = "HALF"
    THEN [ep EXCEPT !.probe = NonZero((now + ProbeMs) % Wrap)] ELSE ep

ep_step(ep, ok, reason, now) == IF ok THEN llm_ep_ok(ep) ELSE llm_ep_fail(ep, reason, now)

-----------------------------------------------------------------------------
(* The state file (router_state.c).  Times are stored as durations.        *)

snap_from_ep(ep, now) ==
    LET age == IF ep.last # 0 THEN Sub(now, ep.last) ELSE 0
        s == llm_ep_state(ep, now)
    IN  [id |-> ep.id, consec |-> ep.consec, pfail |-> ep.pfail, level |-> ep.level,
         age |-> IF ep.consec # 0 /\ age = 0 THEN 1 ELSE age,
         state |-> s, remain |-> IF s = "OPEN" THEN Sub(ep.open, now) ELSE 0]

\* what reading a line back clamps
snap_fill(s) ==
    [s EXCEPT !.consec = MinOf(@, FailMax), !.age = MinOf(@, FailWindow),
              !.remain = MinOf(@, OpenMaxMs), !.pfail = MinOf(@, ProbeMax),
              !.level = MinOf(@, MaxLevel)]

router_state_load(file) ==
    [i \in 1 .. MinOf(Len(file), MaxEps) |-> snap_fill(file[i])]

rtr_state_capture(eps, now) == [i \in DOMAIN eps |-> snap_from_ep(eps[i], now)]

\* an empty table leaves the file as it is
rtr_state_save(eps, file, now) ==
    IF eps = <<>> THEN file ELSE [i \in DOMAIN eps |-> snap_from_ep(eps[i], now)]

Fresh(e) == [id |-> e, consec |-> 0, last |-> 0, open |-> 0, probe |-> 0, pfail |-> 0,
             level |-> 0, lat |-> 0]

restored(ep, s, now) ==
    [ep EXCEPT !.consec = s.consec, !.pfail = s.pfail, !.level = s.level,
               !.last = IF s.age # 0 THEN Sub(now, s.age) ELSE 0,
               !.open = CASE s.state = "OPEN" -> (now + NonZero(s.remain)) % Wrap
                          [] s.state = "HALF" -> NonZero(now)
                          [] OTHER -> 0]

\* the first matching line, and the list without it (the last takes its place)
SnapOf(e, restore) == SelectInSeq(restore, LAMBDA s : s.id = e)
rtr_ep_restore(e, restore, now) ==
    IF SnapOf(e, restore) = 0 THEN Fresh(e)
    ELSE restored(Fresh(e), restore[SnapOf(e, restore)], now)
Consumed(e, restore) ==
    IF SnapOf(e, restore) = 0 THEN restore
    ELSE SubSeq([restore EXCEPT ![SnapOf(e, restore)] = restore[Len(restore)]],
                1, Len(restore) - 1)

-----------------------------------------------------------------------------
(* Selection (router_context.h, router_strategy.c, llm_router_pick).  A    *)
(* request names a preferred provider or "any".                            *)

router_get_eligible(eps, pref, now) ==
    SelectSeq(eps, LAMBDA ep : /\ llm_ep_state(ep, now) # "OPEN"
                               /\ pref \in {"any", ProvOf[ep.id]})

cand_precedes(a, b) ==
    \/ Priority[a.id] > Priority[b.id]
    \/ Priority[a.id] = Priority[b.id] /\ Cost[a.id] < Cost[b.id]

\* one round of the insertion sort: key moves left over what it precedes
InsertRanked(sorted, key) ==
    LET stay == {i \in DOMAIN sorted : \E j \in i..Len(sorted) : ~cand_precedes(key, sorted[j])}
    IN  InsertAt(sorted, Cardinality(stay) + 1, key)

llm_router_pick(eps, pref, now) ==
    FoldLeft(InsertRanked, <<>>, router_get_eligible(eps, pref, now))

\* the cheapest endpoint, the first of equals
route_cost_aware(el) ==
    CHOOSE i \in DOMAIN el :
        /\ \A j \in DOMAIN el : Cost[el[i].id] <= Cost[el[j].id]
        /\ \A j \in 1..i-1 : Cost[el[j].id] > Cost[el[i].id]
route_round_robin(el, rr) == (rr % Len(el)) + 1
route_least_latency(el) ==
    CHOOSE i \in DOMAIN el :
        /\ \A j \in DOMAIN el : el[i].lat <= el[j].lat
        /\ \A j \in 1..i-1 : el[j].lat > el[i].lat
quality_cmp(a, b) ==
    \/ Priority[a.id] > Priority[b.id]
    \/ Priority[a.id] = Priority[b.id] /\ Window[a.id] > Window[b.id]
\* qsort leaves the order of equals open: the choice is any maximum
route_quality_first(el) ==
    {i \in DOMAIN el : ~\E j \in DOMAIN el : quality_cmp(el[j], el[i])}

Strategy == {"COST", "ROUND_ROBIN", "LATENCY", "COMPLEXITY", "FALLBACK"}

\* FALLBACK is round robin unless nothing is eligible, and then all fail
route_dispatch(el, strategy) ==
    CASE strategy = "COST" -> {route_cost_aware(el)}
      [] strategy \in {"ROUND_ROBIN", "FALLBACK"} -> {route_round_robin(el, rrr)}
      [] strategy = "LATENCY" -> {route_least_latency(el)}
      [] strategy = "COMPLEXITY" -> route_quality_first(el)

-----------------------------------------------------------------------------
(* Initially the router is initialised without a state file and the        *)
(* endpoints are being registered.  The clock starts anew at every start.  *)

RInit ==
    /\ rclock = RClockStart /\ rtick = 0 /\ rops = 0
    /\ reps = <<>> /\ rrestore = <<>> /\ rfile = <<>>
    /\ rup = TRUE /\ rleft = Config /\ rrr = 0
    /\ rview = [p \in Prov |-> [reach |-> -1, deep |-> -1]]
    /\ rround = 0
    /\ rsweep = [t \in Sweeper |-> "idle"]
    /\ rhold = [e \in Ep |-> 0]

\* an operation counts towards the bound and reads the clock up to MaxLag early
Op == rops < RMaxOps /\ rops' = rops + 1
Now == {Sub(rclock, k) : k \in 0 .. MinOf(MaxLag, rtick)}

(* llm_router_init, and the registrations that follow it in                *)
(* llm_service_create.                                                     *)
llm_router_init ==
    /\ ~rup
    /\ Op
    /\ rup' = TRUE
    /\ rclock' = RClockStart
    /\ rrestore' = router_state_load(rfile)
    /\ reps' = <<>>
    /\ rrr' = 0
    /\ rleft' = Config
    /\ rview' = [p \in Prov |-> [reach |-> -1, deep |-> -1]]
    /\ rround' = 0
    /\ UNCHANGED <<rtick, rfile, rsweep, rhold>>

(* Mutant: a registration forgets the state kept for the endpoint.         *)
register_blank ==
    /\ rup /\ rleft # <<>>
    /\ reps' = IF Len(reps) >= MaxEps THEN reps ELSE Append(reps, Fresh(Head(rleft)))
    /\ rleft' = Tail(rleft)
    /\ UNCHANGED <<rclock, rtick, rops, rrestore, rfile, rup, rrr, rview, rround, rsweep, rhold>>

llm_router_register_endpoint ==
    /\ rup /\ rleft # <<>>
    /\ LET e == Head(rleft) IN
       IF Len(reps) >= MaxEps
       THEN /\ UNCHANGED <<reps, rrestore>>
            /\ rhold' = [rhold EXCEPT ![e] = 0]
       ELSE /\ reps' = Append(reps, rtr_ep_restore(e, rrestore, rclock))
            /\ rrestore' = Consumed(e, rrestore)
            /\ UNCHANGED rhold
    /\ rleft' = Tail(rleft)
    /\ UNCHANGED <<rclock, rtick, rops, rfile, rup, rrr, rview, rround, rsweep>>

(* A reload empties the table; the registrations follow one by one.        *)
llm_rtr_reset_eps ==
    /\ rup /\ rleft = <<>>
    /\ Op
    /\ rrestore' = rtr_state_capture(reps, rclock)
    /\ reps' = <<>>
    /\ rrr' = 0
    /\ rleft' = Config
    /\ UNCHANGED <<rclock, rtick, rfile, rup, rview, rround, rsweep, rhold>>

(* router_ep_find: the first endpoint of that name.                        *)
router_ep_find(e) == SelectInSeq(reps, LAMBDA ep : ep.id = e)

\* the table after the endpoints at the places I took a step
Stepped(I, ok, reason, now) ==
    [i \in DOMAIN reps |-> IF i \in I THEN ep_step(reps[i], ok, reason, now) ELSE reps[i]]

\* ghost: a success ends the hold; a circuit that opens has to stay open for its hold time,
\* counted from the moment the failure was observed
HoldAfter(eps, I, ok, now) ==
    [e \in Ep |->
        LET i == router_ep_find(e) IN
        IF i = 0 \/ i \notin I THEN rhold[e]
        ELSE IF ok THEN 0
        ELSE IF eps[i].level # reps[i].level THEN HoldOf(reps[i]) - Sub(rclock, now)
        ELSE rhold[e]]

(* ep_note and llm_rtr_prov_note: step the endpoints, save when one        *)
(* changed.                                                                *)
Note(I, ok, reason, now) ==
    LET eps == Stepped(I, ok, reason, now) IN
    /\ reps' = eps
    /\ rfile' = IF eps = reps THEN rfile ELSE rtr_state_save(eps, rfile, rclock)
    /\ rhold' = HoldAfter(eps, I, ok, now)

(* llm_rtr_fail: an endpoint that is not in the table is not found.        *)
llm_rtr_fail(e, reason, now) ==
    /\ rup /\ Op /\ router_ep_find(e) # 0
    /\ Note({router_ep_find(e)}, FALSE, reason, now)
    /\ UNCHANGED <<rclock, rtick, rrestore, rup, rleft, rrr, rview, rround, rsweep>>

llm_rtr_ok(e, now) ==
    /\ rup /\ Op /\ router_ep_find(e) # 0
    /\ Note({router_ep_find(e)}, TRUE, "none", now)
    /\ UNCHANGED <<rclock, rtick, rrestore, rup, rleft, rrr, rview, rround, rsweep>>

\* what the file does not hold is forgotten
InFile(e, file) == \E k \in DOMAIN file : file[k].id = e
RDown(file) ==
    /\ rup /\ rup' = FALSE
    /\ rfile' = file
    /\ rhold' = [e \in Ep |-> IF InFile(e, file) THEN rhold[e] ELSE 0]
    /\ reps' = <<>> /\ rrestore' = <<>> /\ rleft' = <<>>
    /\ rsweep' = [t \in Sweeper |-> "idle"]
    /\ UNCHANGED <<rclock, rtick, rrr, rview, rround>>

(* The process dies while the state file is written in place: the first    *)
(* n lines are there.                                                      *)
FailThenDie(e, reason, n) ==
    LET eps == Stepped({router_ep_find(e)}, FALSE, reason, rclock) IN
    /\ Op /\ router_ep_find(e) # 0
    /\ eps # reps
    /\ RDown(SubSeq(rtr_state_save(eps, rfile, rclock), 1, n))

(* llm_rtr_admit.                                                          *)
llm_rtr_admit(e, now) ==
    /\ rup /\ Op /\ router_ep_find(e) # 0
    /\ Admits(reps[router_ep_find(e)], now)
    /\ reps' = [reps EXCEPT ![router_ep_find(e)] = llm_ep_admit(@, now)]
    /\ UNCHANGED <<rclock, rtick, rrestore, rfile, rup, rleft, rrr, rview, rround, rsweep, rhold>>

(* llm_router_route: only a round robin choice changes the router.         *)
llm_router_route(strategy, pref) ==
    LET el == router_get_eligible(reps, pref, rclock) IN
    /\ rup /\ Op
    /\ el # <<>>
    /\ \E i \in route_dispatch(el, strategy) : i \in DOMAIN el
    /\ rrr' = IF strategy \in {"ROUND_ROBIN", "FALLBACK"} THEN (rrr + 1) % Len(Config) ELSE rrr
    /\ UNCHANGED <<rclock, rtick, reps, rrestore, rfile, rup, rleft, rview, rround, rsweep, rhold>>

(* llm_rtr_meas: the moving average of the latency.                        *)
llm_rtr_meas(e, lat) ==
    /\ rup /\ Op /\ router_ep_find(e) # 0
    /\ reps' = [reps EXCEPT ![router_ep_find(e)].lat = (4 * @ + lat + 2) \div 5]
    /\ UNCHANGED <<rclock, rtick, rrestore, rfile, rup, rleft, rrr, rview, rround, rsweep, rhold>>

(* llm_rtr_health: no endpoint, or none closed, is DOWN.                   *)
llm_rtr_health(now) ==
    LET ok == {i \in DOMAIN reps : llm_ep_state(reps[i], now) = "CLOSED"} IN
    IF ok = {} THEN "DOWN" ELSE IF ok = DOMAIN reps THEN "OK" ELSE "DEGRADED"

-----------------------------------------------------------------------------
(* The probe sweep (ep_probe_tick, ep_health_sweep): a light probe, every  *)
(* DeepEvery-th round also a deep one.  The result enters the view under   *)
(* the view's lock and reaches the router afterwards.                      *)

\* a failed deep probe stays in force until a deep probe succeeds
rec_update(rec, ok, ran, deep) ==
    LET d == IF ran THEN deep ELSE rec.deep IN
    [reach |-> IF ok /\ d # 0 THEN 1 ELSE 0, deep |-> d]

sweep_one(t, p, ok, deep) ==
    /\ rup /\ Op
    /\ rsweep[t] = "idle"
    /\ rview' = [rview EXCEPT ![p] = rec_update(@, ok, rround = 0, deep)]
    /\ rsweep' = [rsweep EXCEPT ![t] = <<p, rview'[p].reach>>]
    /\ rround' = (rround + 1) % DeepEvery
    /\ UNCHANGED <<rclock, rtick, reps, rrestore, rfile, rup, rleft, rrr, rhold>>

(* ep_note_router: every endpoint of the provider gets the result.         *)
llm_rtr_prov_note(t) ==
    /\ rup
    /\ rsweep[t] # "idle"
    /\ Note({i \in DOMAIN reps : ProvOf[reps[i].id] = rsweep[t][1]}, rsweep[t][2] = 1, "transport", rclock)
    /\ rsweep' = [rsweep EXCEPT ![t] = "idle"]
    /\ UNCHANGED <<rclock, rtick, rops, rrestore, rup, rleft, rrr, rview, rround>>

-----------------------------------------------------------------------------
(* Time, the end of the process and its next-state relation.               *)

RTick ==
    /\ rtick < RMaxTick
    /\ rtick' = rtick + 1
    /\ rclock' = (rclock + 1) % Wrap
    /\ rhold' = [e \in Ep |-> IF rhold[e] > 0 THEN rhold[e] - 1 ELSE 0]
    /\ UNCHANGED <<rops, reps, rrestore, rfile, rup, rleft, rrr, rview, rround, rsweep>>

(* llm_router_destroy saves once more.                                     *)
llm_router_destroy == RDown(rtr_state_save(reps, rfile, rclock)) /\ UNCHANGED rops

RCrash == RDown(rfile) /\ UNCHANGED rops

RNext ==
    \/ llm_router_init \/ llm_router_register_endpoint \/ llm_rtr_reset_eps
    \/ \E e \in Ep, now \in Now :
        \/ \E reason \in Reason : llm_rtr_fail(e, reason, now)
        \/ llm_rtr_ok(e, now)
        \/ llm_rtr_admit(e, now)
    \/ \E e \in Ep, reason \in Reason, n \in 0..Len(reps) : FailThenDie(e, reason, n)
    \/ \E s \in Strategy, pref \in Prov \cup {"any"} : llm_router_route(s, pref)
    \/ \E e \in Ep, lat \in Latency : llm_rtr_meas(e, lat)
    \/ \E t \in Sweeper, p \in Prov, ok \in BOOLEAN, deep \in 0..1 : sweep_one(t, p, ok, deep)
    \/ \E t \in Sweeper : llm_rtr_prov_note(t)
    \/ RTick \/ llm_router_destroy \/ RCrash

-----------------------------------------------------------------------------
(* Properties.                                                             *)

(* A circuit that opened stays open for its hold time, whatever failures,  *)
(* admissions, probe sweeps and reloads with a fresh registration of all   *)
(* endpoints happen meanwhile; only a success reported for the endpoint    *)
(* closes it (llm_ep_fail, rtr_state_capture, rtr_ep_restore).             *)
CircuitHeld ==
    \A i \in DOMAIN reps :
        (router_ep_find(reps[i].id) = i /\ rhold[reps[i].id] > 0)
            => llm_ep_state(reps[i], rclock) = "OPEN"

(* What llm_router_pick hands to the failover chain is every endpoint of   *)
(* the request whose circuit is not open, each once, the higher priority   *)
(* and then the lower cost first, equals in the order of registration.     *)
PickRanks ==
    \A pref \in Prov \cup {"any"} :
        LET out == llm_router_pick(reps, pref, rclock)
            Pos(e) == SelectInSeq(reps, LAMBDA ep : ep.id = e)
        IN  /\ {out[i].id : i \in DOMAIN out} =
                  {e \in Ep : /\ Pos(e) # 0 /\ pref \in {"any", ProvOf[e]}
                              /\ llm_ep_state(reps[Pos(e)], rclock) # "OPEN"}
            /\ \A i, j \in DOMAIN out : i < j =>
                  LET a == out[i].id
                      b == out[j].id
                  IN  \/ Priority[a] > Priority[b]
                      \/ Priority[a] = Priority[b] /\ Cost[a] < Cost[b]
                      \/ Priority[a] = Priority[b] /\ Cost[a] = Cost[b] /\ Pos(a) < Pos(b)

(* The router as the failover chain sees it: breakers hold (CircuitHeld),  *)
(* and the candidates are complete and in order (PickRanks).               *)
RouterHolds == CircuitHeld /\ PickRanks
=============================================================================
