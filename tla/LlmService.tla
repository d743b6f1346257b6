----------------------------- MODULE LlmService -----------------------------
(***************************************************************************)
(* The request path of llm_d (src/llm_d/src/rpc): the handlers and their   *)
(* retries, the failover chain over endpoints with its per-provider seats, *)
(* the response cache, and the reload that replaces the provider registry  *)
(* behind the drain gate of src/common/src/svc/svc_swap.c.                 *)
(*                                                                         *)
(* Request threads and reload threads interleave; a step runs from one     *)
(* lock, network call or sleep to the next.  A registry is known by the    *)
(* number of the load that built it.  The breaker's answers and the rank   *)
(* of the router's candidates (LlmRouter) are left open.                   *)
(***************************************************************************)
EXTENDS DaemonBase, FiniteSets, Functions

CONSTANTS
    Boot,           \* Boot[n]: what load n reads, [err, provs, def] and the two routing sections
    FoSet,          \* routing.on when no file gives it
    MaxTried,       \* SVC_CHAIN_MAX_TRIED
    DefDepth,       \* SVC_CHAIN_DEF_DEPTH
    Slots,          \* total_slots that /props gave for a provider, {}: never asked (cloud)
    RetiredMax,     \* LLM_RETIRED_MAX
    MaxRetries,     \* LLM_MAX_RETRIES
    SReq,           \* request threads, one request each
    SJobs,          \* the methods they serve: functions from threads to methods
    SErr,           \* how an upstream call may end
    SModel,         \* the models they ask for
    Reloader        \* threads that reload

NoModel == ""
NoRouting == <<>>
Load == DOMAIN Boot

ASSUME LlmServiceAssumption ==
    /\ MaxTried \in Nat \ {0} /\ RetiredMax \in Nat \ {0}
    /\ DefDepth \in Nat /\ MaxRetries \in Nat
    /\ Len(Boot) \in Nat \ {0} /\ Load = 1..Len(Boot)
    /\ \A n \in Load : \A f \in {Boot[n].main, Boot[n].user} : f # NoRouting => f.depth \subseteq Int
    /\ IsFiniteSet(SReq)

-----------------------------------------------------------------------------
(* The routing section (service_route.c) of the main file and then of the  *)
(* user's file; an entry is an optional value.                             *)
svc_chain_def == [mode |-> "off", depth |-> DefDepth, on |-> FoSet, budget |-> FALSE]

route_mode(f, cfg) ==
    [cfg EXCEPT !.mode = IF f.mode = {} THEN @ ELSE IF f.mode = {"auto"} THEN "auto" ELSE "off"]
route_depth(f, cfg) == [cfg EXCEPT !.depth = MinOf(MaxOf(Opt(f.depth, @), 0), MaxTried)]
route_on(f, cfg) == [cfg EXCEPT !.on = Opt(f.on, @)]
route_deadline(f, cfg) == [cfg EXCEPT !.budget = IF f.deadline = {} THEN @ ELSE Opt(f.deadline, 0) > 0]

svc_route_load(f, cfg) ==
    IF f = NoRouting THEN cfg
    ELSE route_deadline(f, route_on(f, route_depth(f, route_mode(f, cfg))))

RouteOf == [n \in Load |-> svc_route_load(Boot[n].user, svc_route_load(Boot[n].main, svc_chain_def))]

\* the registry (registry.c): it skips entries without a name
provider_registry_create == [n \in Load |-> SelectSeq(Boot[n].provs, LAMBDA p : p.name # "")]

\* the first provider that lists the model
provider_registry_find(n, model) ==
    FirstIdx(provider_registry_create[n], LAMBDA p : model \in Range(p.models))

\* the endpoints <<provider, model>>; their order only feeds the router's rank
provider_registry_enumerate(n) ==
    UNION {{<<p.name, m>> : m \in Range(p.models)} : p \in Range(provider_registry_create[n])}

(* A registered provider has one limit of concurrent calls for each model, *)
(* and /props, where it was asked, gave a number of slots.                 *)
ASSUME RegistryAssumption ==
    \A n \in Load :
        /\ DOMAIN provider_registry_create[n] = 1..Len(provider_registry_create[n])
        /\ \A p \in Range(provider_registry_create[n]) :
             /\ DOMAIN p.models = 1..Len(p.models)
             /\ \A i \in DOMAIN p.models : p.conc[i] \in Int
             /\ Slots[p.name] \subseteq Int

SProv == UNION {{p.name : p \in Range(provider_registry_create[n])} : n \in Load}
SModels == SModel \cup UNION {UNION {Range(p.models) : p \in Range(provider_registry_create[n])} : n \in Load}

-----------------------------------------------------------------------------
VARIABLES
    ssw,        \* svc->swap: gen, draining, inflight
    sregy,      \* svc->registry
    sroute,     \* svc->route
    sdef,       \* svc->default_model
    stable,     \* the load whose endpoints the router's table holds, 0: being rebuilt
    sfreed,     \* destroyed registries
    sretired,   \* svc->retired
    sforced,    \* ghost: registries whose retirement was cut short
    sseats,     \* base->inflight of the providers of each registry
    scache,     \* the L0 response cache, by model
    sl1,        \* the semantic cache of mem_d, by model
    sreq,       \* the request threads
    sload,      \* the number of loads done or begun
    srel        \* the reload threads

sVars == <<ssw, sregy, sroute, sdef, stable, sfreed, sretired, sforced, sseats, scache, sl1,
           sreq, sload, srel>>

NoProv == <<0, "">>
None == <<>>
Idle == [pc |-> "idle", kind |-> "complete", model |-> NoModel, gen |-> 0, att |-> 0, prov |-> NoProv,
         cur |-> NoModel, tried |-> {}, hops |-> 0, calls |-> 0, first |-> "none", seat |-> FALSE,
         sent |-> FALSE, over |-> FALSE, ret |-> "none", resp |-> None, route |-> svc_chain_def]
RIdle == [pc |-> "idle", nreg |-> 0, oreg |-> 0, forced |-> FALSE]

SInit ==
    /\ ssw = [gen |-> 1, drain |-> FALSE, infl |-> 0]
    /\ sregy = 1 /\ sload = 1 /\ stable = 1
    /\ sroute = RouteOf[1] /\ sdef = Boot[1].def
    /\ sfreed = {} /\ sretired = <<>> /\ sforced = {}
    /\ sseats = [n \in Load |-> [p \in SProv |-> 0]]
    /\ scache = [m \in SModels |-> None] /\ sl1 = [m \in SModels |-> None]
    /\ \E job \in SJobs : sreq = [t \in SReq |-> [Idle EXCEPT !.kind = job[t]]]
    /\ srel = [l \in Reloader |-> RIdle]

Set(t, r) == sreq' = [sreq EXCEPT ![t] = r]
ConfigSame == UNCHANGED <<sregy, sroute, sdef, stable, sfreed, sretired, sforced, sload, srel>>

-----------------------------------------------------------------------------
(* The request handlers (methods.c).                                       *)

\* a new service call starts with a clean chain
Fresh_call(r) == [Idle EXCEPT !.kind = r.kind, !.model = r.model, !.att = r.att, !.pc = "enter"]

handle_complete(t, m) ==
    /\ sreq[t].pc = "idle" /\ sreq[t].kind = "complete"
    /\ Set(t, Fresh_call([Idle EXCEPT !.model = m]))
    /\ ConfigSame /\ UNCHANGED <<ssw, sseats, scache, sl1>>

handle_embeddings(t, m) ==
    /\ sreq[t].pc = "idle" /\ sreq[t].kind = "emb"
    /\ Set(t, Fresh_call([Idle EXCEPT !.kind = "emb", !.model = m]))
    /\ ConfigSame /\ UNCHANGED <<ssw, sseats, scache, sl1>>

(* handle_complete_stream first looks the provider up, outside the gate    *)
(* and without svc->lock ...                                               *)
handle_complete_stream(t, m) ==
    /\ sreq[t].pc = "idle" /\ sreq[t].kind = "stream"
    /\ Set(t, [Idle EXCEPT !.kind = "stream", !.model = m, !.pc = "peek",
                           !.prov = <<sregy, "?">>])
    /\ ConfigSame /\ UNCHANGED <<ssw, sseats, scache, sl1>>

(* ... and then copies its name.                                           *)
peek_name(t) ==
    /\ sreq[t].pc = "peek"
    /\ Set(t, Fresh_call(sreq[t]))
    /\ ConfigSame /\ UNCHANGED <<ssw, sseats, scache, sl1>>

llm_error_is_retryable(e) == e \notin {"auth", "invalid_model", "bad_request", "not_supported"}

(* After the service call: handle_complete tries again unless the error is *)
(* final, the tries are used up, or this one took longer than              *)
(* LLM_RETRY_FAST_FAIL_MS, as one that outlasted a drain has; the other    *)
(* handlers answer.                                                        *)
handle_result(t, slow) ==
    LET r == sreq[t] IN
    /\ r.pc = "ret"
    /\ r.over => slow
    /\ IF /\ r.kind = "complete" /\ r.ret # "ok" /\ llm_error_is_retryable(r.ret)
          /\ r.att < MaxRetries /\ ~slow
       THEN Set(t, Fresh_call([r EXCEPT !.att = @ + 1]))
       ELSE Set(t, [r EXCEPT !.pc = "done"])
    /\ ConfigSame /\ UNCHANGED <<ssw, sseats, scache, sl1>>

-----------------------------------------------------------------------------
(* The drain gate (svc_swap.c).                                            *)

svc_swap_enter(t) ==
    LET r == sreq[t] IN
    /\ r.pc = "enter"
    /\ IF ssw.drain
       THEN Set(t, [r EXCEPT !.pc = "ret", !.ret = "busy"]) /\ UNCHANGED ssw
       ELSE /\ Set(t, [r EXCEPT !.pc = "pick", !.gen = ssw.gen])
            /\ ssw' = [ssw EXCEPT !.infl = @ + 1]
    /\ ConfigSame /\ UNCHANGED <<sseats, scache, sl1>>

(* svc_swap_leave with req_leave: a response of an older generation is     *)
(* dropped and the call answers BUSY.                                      *)
svc_swap_leave(t) ==
    LET r == sreq[t]
        ok == r.gen = ssw.gen
    IN  /\ r.pc = "leave"
        /\ ssw' = [ssw EXCEPT !.infl = MaxOf(@ - 1, 0)]
        /\ Set(t, [r EXCEPT !.pc = "ret", !.prov = NoProv, !.over = ~ok,
                            !.resp = IF ok THEN @ ELSE None,
                            !.ret = IF ~ok /\ @ = "ok" THEN "busy" ELSE @])
        /\ ConfigSame /\ UNCHANGED <<sseats, scache, sl1>>

-----------------------------------------------------------------------------
(* Cache and provider selection (service_request.c).                       *)

\* L0, then the semantic cache, whose answer is kept in L0; an entry may have expired
cache_lookup(t, hit) ==
    LET r == sreq[t] IN
    /\ r.pc = "pick" /\ r.kind = "complete"
    /\ hit \in {scache[r.model], sl1[r.model]} \ {None}
    /\ scache' = [scache EXCEPT ![r.model] = hit]
    /\ Set(t, [r EXCEPT !.pc = "leave", !.ret = "ok", !.resp = hit])
    /\ ConfigSame /\ UNCHANGED <<ssw, sseats, sl1>>

\* svc_find_prov: the registry of the moment and the provider's place in it
svc_find_prov(model) ==
    IF provider_registry_find(sregy, model) = 0 THEN NoProv
    ELSE <<sregy, provider_registry_create[sregy][provider_registry_find(sregy, model)].name>>

\* the endpoints the router may answer with
Routed == IF stable = 0 THEN {} ELSE provider_registry_enumerate(stable)

\* an explicit model that is registered skips the router
select_provider_via_router(model) ==
    IF svc_find_prov(model) # NoProv THEN {svc_find_prov(model)}
    ELSE {svc_find_prov(e[2]) : e \in Routed} \cup (IF Routed = {} THEN {NoProv} ELSE {})

emb_prov(model) == {svc_find_prov(IF model = NoModel THEN sdef ELSE model)}

(* pick_provider, or emb_prov; the chain copies the routing configuration. *)
pick_provider(t, prov) ==
    LET r == sreq[t] IN
    /\ r.pc = "pick"
    /\ prov \in IF r.kind = "emb" THEN emb_prov(r.model) ELSE select_provider_via_router(r.model)
    /\ Set(t, IF prov = NoProv THEN [r EXCEPT !.pc = "leave", !.ret = "invalid_model"]
              ELSE [r EXCEPT !.pc = IF r.kind = "emb" THEN "call" ELSE "try",
                             !.prov = prov, !.cur = r.model, !.route = sroute])
    /\ ConfigSame /\ UNCHANGED <<ssw, sseats, scache, sl1>>

-----------------------------------------------------------------------------
(* The failover chain (service_chain.c).                                   *)

\* max_concurrent of the model
prov_max_conc(prov, model) ==
    LET reg == provider_registry_create[prov[1]]
        p == reg[FirstIdx(reg, LAMBDA q : q.name = prov[2])]
        i == FirstIdx(p.models, LAMBDA m : m = model)
    IN  IF i = 0 THEN 0 ELSE p.conc[i]

\* the seats for the model, 0: no gate
svc_gate_limit(prov, model) ==
    LET conc == MaxOf(prov_max_conc(prov, model), 1)
        slots == Opt(Slots[prov[2]], 0)
    IN  IF Slots[prov[2]] = {} THEN 0
        ELSE MinOf(conc, IF slots > 0 THEN slots ELSE conc)

svc_gate_acquire(prov, model) ==
    \/ svc_gate_limit(prov, model) = 0
    \/ sseats[prov[1]][prov[2]] < svc_gate_limit(prov, model)

svc_chain_mark(r, e) == IF Cardinality(r.tried) >= MaxTried THEN r ELSE [r EXCEPT !.tried = @ \cup {e}]

(* chain_gate: in auto mode the breaker and then the seats; who is refused *)
(* goes to the next candidate.  With routing off only the seats count.     *)
chain_gate(t, admitted) ==
    LET auto == sreq[t].route.mode = "auto"
        r == IF auto THEN svc_chain_mark(sreq[t], <<sreq[t].prov[2], sreq[t].cur>>) ELSE sreq[t]
        gated == svc_gate_limit(r.prov, r.cur) # 0
    IN  /\ r.pc = "try"
        /\ (~auto) => admitted
        /\ IF admitted /\ svc_gate_acquire(r.prov, r.cur)
           THEN /\ Set(t, [r EXCEPT !.pc = "call", !.seat = gated, !.calls = @ + 1])
                /\ sseats' = IF gated THEN [sseats EXCEPT ![r.prov[1]][r.prov[2]] = @ + 1] ELSE sseats
           ELSE /\ Set(t, IF auto THEN [r EXCEPT !.pc = "next"]
                          ELSE [r EXCEPT !.pc = "leave", !.ret = "busy"])
                /\ UNCHANGED sseats
        /\ ConfigSame /\ UNCHANGED <<ssw, scache, sl1>>

\* svc_chain_next: a candidate that was not tried; it costs a hop even when it is skipped later
svc_chain_next(r, e) ==
    [svc_chain_mark(r, e) EXCEPT !.hops = @ + 1, !.cur = e[2]]

(* next_prov: the candidate's model is looked up again; one that the       *)
(* registry does not have is passed over.                                  *)
next_prov(t) ==
    LET r == sreq[t]
        cand == IF Cardinality(r.tried) >= MaxTried THEN {} ELSE Routed \ r.tried
    IN  /\ r.pc = "next"
        /\ IF cand = {}
           THEN Set(t, [r EXCEPT !.pc = "leave",
                                 !.ret = IF r.first = "none" THEN "invalid_model" ELSE r.first])
           ELSE \E e \in cand :
                  Set(t, IF svc_find_prov(e[2]) = NoProv THEN svc_chain_next(r, e)
                         ELSE [svc_chain_next(r, e) EXCEPT !.pc = "try", !.prov = svc_find_prov(e[2])])
        /\ ConfigSame /\ UNCHANGED <<ssw, sseats, scache, sl1>>

\* llm_fo_reason and llm_fo_should
llm_fo_should(err, on) == err \in {"transport", "rate_limit", "auth"} /\ err \in on

(* Mutant: the number of hops is not compared with the depth.              *)
svc_chain_retry_deep(r, err, left) ==
    /\ r.route.mode = "auto" /\ llm_fo_should(err, r.route.on)
    /\ left \/ ~r.route.budget

\* left: the time budget is not used up
svc_chain_retry(r, err, left) ==
    /\ r.route.mode = "auto" /\ llm_fo_should(err, r.route.on)
    /\ r.hops < r.route.depth
    /\ left \/ ~r.route.budget

(* attempt_run and the rest of chain_try: the seat is given back, and a    *)
(* failure moves on to the next candidate unless part of the answer was    *)
(* already streamed.                                                       *)
attempt_run(t, err, sent, left) ==
    LET r == sreq[t]
        r1 == [r EXCEPT !.seat = FALSE, !.sent = @ \/ sent,
                        !.first = IF @ = "none" /\ err # "ok" THEN err ELSE @]
    IN  /\ r.pc = "call"
        /\ sent => r.kind = "stream"
        /\ sseats' = IF r.seat THEN [sseats EXCEPT ![r.prov[1]][r.prov[2]] = @ - 1] ELSE sseats
        /\ Set(t, CASE err = "ok" -> [r1 EXCEPT !.pc = IF r.kind = "complete" THEN "store" ELSE "leave",
                                                !.ret = "ok", !.resp = <<t, r.att>>]
                    [] err # "ok" /\ r.kind # "emb" /\ svc_chain_retry(r, err, left) /\ ~r1.sent ->
                          [r1 EXCEPT !.pc = "next"]
                    [] OTHER -> [r1 EXCEPT !.pc = "leave",
                                           !.ret = IF r.route.mode = "auto" THEN r1.first ELSE err])
        /\ ConfigSame /\ UNCHANGED <<ssw, scache, sl1>>

(* cache_store, under the model that answered, in both caches.             *)
cache_store(t) ==
    LET r == sreq[t] IN
    /\ r.pc = "store"
    /\ scache' = [scache EXCEPT ![r.cur] = r.resp]
    /\ sl1' = [sl1 EXCEPT ![r.cur] = r.resp]
    /\ Set(t, [r EXCEPT !.pc = "leave"])
    /\ ConfigSame /\ UNCHANGED <<ssw, sseats>>

-----------------------------------------------------------------------------
(* Reload (service_reload.c).                                              *)

RequestsSame == UNCHANGED <<sreq, scache, sl1, sseats>>
SetR(l, r) == srel' = [srel EXCEPT ![l] = r]

(* Under reload_lock: read the files and build the registry, or keep the   *)
(* old one and wait (the wait only delays the next reload).                *)
reload_read(l) ==
    /\ srel[l].pc = "idle" /\ sload < Len(Boot)
    /\ sload' = sload + 1
    /\ SetR(l, IF Boot[sload + 1].err THEN RIdle
               ELSE [RIdle EXCEPT !.pc = "built", !.nreg = sload + 1])
    /\ RequestsSame
    /\ UNCHANGED <<ssw, sregy, sroute, sdef, stable, sfreed, sretired, sforced>>

(* svc_swap_begin; while another reload drains, this one gives up.         *)
svc_swap_begin(l) ==
    /\ srel[l].pc = "built"
    /\ IF ssw.drain
       THEN SetR(l, RIdle) /\ sfreed' = sfreed \cup {srel[l].nreg} /\ UNCHANGED ssw
       ELSE SetR(l, [srel[l] EXCEPT !.pc = "drain"]) /\ ssw' = [ssw EXCEPT !.drain = TRUE]
                /\ UNCHANGED sfreed
    /\ RequestsSame
    /\ UNCHANGED <<sregy, sroute, sdef, stable, sretired, sforced, sload>>

\* the gate is empty, or the drain time is over
svc_swap_drained(l) ==
    /\ srel[l].pc = "drain"
    /\ SetR(l, [srel[l] EXCEPT !.pc = "swap", !.forced = ssw.infl > 0])
    /\ RequestsSame
    /\ UNCHANGED <<ssw, sregy, sroute, sdef, stable, sfreed, sretired, sforced, sload>>

(* The registry under svc->lock, then llm_boot_apply and the reset of the  *)
(* router's table.                                                         *)
reload_swap(l) ==
    LET b == Boot[srel[l].nreg] IN
    /\ srel[l].pc = "swap"
    /\ sregy' = srel[l].nreg
    /\ sroute' = RouteOf[srel[l].nreg]
    /\ sdef' = IF b.def = NoModel THEN sdef ELSE b.def
    /\ stable' = 0
    /\ SetR(l, [srel[l] EXCEPT !.pc = "commit", !.oreg = sregy])
    /\ RequestsSame
    /\ UNCHANGED <<ssw, sfreed, sretired, sforced, sload>>

(* The endpoints are registered again, and svc_swap_commit.                *)
svc_swap_commit(l) ==
    /\ srel[l].pc = "commit"
    /\ stable' = srel[l].nreg
    /\ ssw' = [ssw EXCEPT !.gen = @ + 1, !.drain = FALSE]
    /\ SetR(l, [srel[l] EXCEPT !.pc = "dispose"])
    /\ RequestsSame
    /\ UNCHANGED <<sregy, sroute, sdef, sfreed, sretired, sforced, sload>>

\* what retire_push frees: the k entries past their grace time, and the oldest when it is full
retire_reap(k) == SubSeq(sretired, k + 1, Len(sretired))
retire_push(kept, reg) ==
    Append(IF Len(kept) >= RetiredMax THEN Tail(kept) ELSE kept, reg)

(* Mutant: the old registry is freed whether or not the drain timed out.   *)
old_dispose_now(l, k) ==
    /\ srel[l].pc = "dispose" /\ k = 0
    /\ sfreed' = sfreed \cup {srel[l].oreg}
    /\ SetR(l, RIdle)
    /\ RequestsSame
    /\ UNCHANGED <<ssw, sregy, sroute, sdef, stable, sretired, sforced, sload>>

(* old_dispose: after a full drain the old registry is freed at once,      *)
(* after a forced one it goes to the retired list.                         *)
old_dispose(l, k) ==
    LET kept == retire_push(retire_reap(k), srel[l].oreg)
        gone == Range(sretired) \ Range(kept)
    IN  /\ srel[l].pc = "dispose" /\ k <= Len(sretired)
        /\ IF srel[l].forced
           THEN /\ sretired' = kept
                /\ sfreed' = sfreed \cup gone
                /\ sforced' = sforced \cup gone
           ELSE /\ k = 0
                /\ sfreed' = sfreed \cup {srel[l].oreg}
                /\ UNCHANGED <<sretired, sforced>>
        /\ SetR(l, RIdle)
        /\ RequestsSame
        /\ UNCHANGED <<ssw, sregy, sroute, sdef, stable, sload>>

SNext ==
    \/ \E t \in SReq :
        \/ \E m \in SModel : handle_complete(t, m) \/ handle_embeddings(t, m) \/ handle_complete_stream(t, m)
        \/ peek_name(t) \/ svc_swap_enter(t) \/ svc_swap_leave(t) \/ next_prov(t) \/ cache_store(t)
        \/ \E b \in BOOLEAN : handle_result(t, b) \/ chain_gate(t, b)
        \/ \E m \in SModels : cache_lookup(t, scache[m]) \/ cache_lookup(t, sl1[m])
        \/ \E prov \in Load \X SProv \cup {NoProv} : pick_provider(t, prov)
        \/ \E err \in SErr, sent, left \in BOOLEAN : attempt_run(t, err, sent, left)
    \/ \E l \in Reloader :
        \/ reload_read(l) \/ svc_swap_begin(l) \/ svc_swap_drained(l) \/ reload_swap(l)
        \/ svc_swap_commit(l)
        \/ \E k \in 0..RetiredMax : old_dispose(l, k)

-----------------------------------------------------------------------------
(* Properties.                                                             *)

Inside(t) == sreq[t].pc \in {"pick", "try", "call", "next", "store", "leave"}

(* A request between svc_swap_enter and svc_swap_leave never holds a       *)
(* provider of a destroyed registry, however many reloads overtake it,     *)
(* unless the retired list let go of that registry because its grace time  *)
(* was over or the list was full (old_dispose, retire_push).               *)
HeldRegistryAlive ==
    \A t \in SReq : (Inside(t) /\ sreq[t].prov[1] \in sfreed) => sreq[t].prov[1] \in sforced

(* One service call makes at most depth + 1 upstream calls, none after a   *)
(* part of the answer was streamed, and the seats of a provider are        *)
(* exactly those of the calls that hold one, never more than its limit     *)
(* (chain_gate, attempt_run, svc_chain_retry).                             *)
ChainDiscipline ==
    /\ \A t \in SReq : /\ sreq[t].calls <= sreq[t].route.depth + 1
                       /\ sreq[t].sent => sreq[t].pc \notin {"try", "call", "next"}
    /\ \A n \in Load, p \in SProv :
          /\ sseats[n][p] = Cardinality({t \in SReq : sreq[t].seat /\ sreq[t].prov = <<n, p>>})
          /\ sseats[n][p] > 0 => \E m \in SModels : sseats[n][p] <= svc_gate_limit(<<n, p>>, m)

=============================================================================
