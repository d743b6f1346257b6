-------------------------- MODULE LlmServiceProofs --------------------------
(***************************************************************************)
(* Proofs about LlmService, for any number of request and reload threads,  *)
(* loads, providers and retired registries.                                *)
(*                                                                         *)
(* GateInv is the invariant of the drain gate: which thread owns which     *)
(* registry (OwnInv), at most one reload drains and a full drain means     *)
(* that nobody is inside (DrainInv), the counter of the gate counts the    *)
(* requests inside (CountInv), and a request holds the current registry, a *)
(* retired one or one that was let go by force (HoldInv).  ChainInv is the *)
(* invariant of the failover chain: calls and hops of each request, and    *)
(* the seats of each provider, one for each call that holds one.           *)
(***************************************************************************)
EXTENDS LlmService, FiniteSetTheorems, WellFoundedInduction, TLAPS

(* The service without fairness: the theorems are about safety.            *)
SSpec == SInit /\ [][SNext]_sVars

(* A request thread's record, whatever its fields hold.                    *)
Fields(A) ==
    [pc : A, kind : A, model : A, gen : A, att : A, prov : A, cur : A, tried : A, hops : A,
     calls : A, first : A, seat : A, sent : A, over : A, ret : A, resp : A, route : A]
IsReq(r) == \E A : r \in Fields(A)

(* A record inside the gate; a call that has not entered has no provider.  *)
InGate(r) == r.pc \in {"pick", "try", "call", "next", "store", "leave"}
NewCall(r) == r.pc = "enter" => r.prov = NoProv

(* Types: the registries are known by the numbers of the loads so far.     *)
RelType ==
    [pc : {"idle", "built", "drain", "swap", "commit", "dispose"}, nreg : Nat, oreg : Nat,
     forced : BOOLEAN]

SType ==
    /\ \E A : sreq \in [SReq -> Fields(A)]
    /\ ssw \in [gen : Nat, drain : BOOLEAN, infl : Nat]
    /\ srel \in [Reloader -> RelType]
    /\ sload \in Nat /\ sregy \in 1..sload
    /\ sfreed \in SUBSET (1..sload) /\ sretired \in Seq(1..sload)

(* The registry a reload owns: the new one until it is swapped in, then    *)
(* the old one until it is disposed of.                                    *)
Busy(l) == srel[l].pc # "idle"
Owned(l) == IF srel[l].pc \in {"built", "drain", "swap"} THEN srel[l].nreg ELSE srel[l].oreg

OwnInv ==
    /\ sregy \notin sfreed /\ sregy \notin Range(sretired)
    /\ \A n \in Range(sretired) : n \notin sfreed
    /\ \A l \in Reloader : Busy(l) =>
          /\ Owned(l) \in 1..sload /\ Owned(l) # sregy
          /\ Owned(l) \notin sfreed /\ Owned(l) \notin Range(sretired)
    /\ \A l, k \in Reloader : Busy(l) /\ Busy(k) /\ Owned(l) = Owned(k) => l = k

Drains(l) == srel[l].pc \in {"drain", "swap", "commit"}
Quiet(l) == srel[l].pc \in {"swap", "commit"} /\ ~srel[l].forced

DrainInv ==
    /\ \A l \in Reloader : Drains(l) => ssw.drain
    /\ \A l, k \in Reloader : Drains(l) /\ Drains(k) => l = k
    /\ \A l \in Reloader : Quiet(l) => ssw.infl = 0

CountInv == ssw.infl = Cardinality({t \in SReq : Inside(t)})

(* The registries that a request may still hold.                           *)
Grace(l) == srel[l].pc \in {"commit", "dispose"} /\ srel[l].forced
Held ==
    {0, sregy} \cup Range(sretired) \cup sforced
    \cup {srel[l].oreg : l \in {k \in Reloader : Grace(k)}}

HoldInv ==
    \A t \in SReq : /\ Inside(t) => sreq[t].prov[1] \in Held
                    /\ NewCall(sreq[t])

GateInv == SType /\ OwnInv /\ DrainInv /\ CountInv /\ HoldInv

-----------------------------------------------------------------------------
(* The providers of the registries.                                        *)
Known == UNION {{<<n, p.name>> : p \in Range(provider_registry_create[n])} : n \in Load}

(* What a request's record says of its calls and hops ...                  *)
ReqNum(r) ==
    /\ r.calls \in Nat /\ r.hops \in Nat /\ r.route.depth \in Nat
    /\ r.pc \in {"idle", "peek", "enter", "pick"} => r.calls = 0 /\ r.hops = 0
    /\ r.pc = "try" => r.calls <= r.hops /\ r.calls <= r.route.depth
    /\ r.pc = "next" => r.calls <= r.hops + 1 /\ r.calls <= r.route.depth
    /\ r.pc = "call" => r.calls <= r.hops + 1
    /\ r.calls <= r.route.depth + 1

(* ... and of its endpoint, its seat and what it has streamed.             *)
ReqEnd(r) ==
    /\ r.pc # "idle" => r.model \in SModel
    /\ r.pc \in {"idle", "peek", "enter", "pick"} => ~r.sent
    /\ r.pc \in {"try", "call", "next"} => r.cur \in SModels /\ r.prov \in Known /\ ~r.sent
    /\ r.seat => r.pc = "call"

ReqOK(r) == ReqNum(r) /\ ReqEnd(r)

ConfigInv ==
    /\ sroute.depth \in Nat /\ sload <= Len(Boot) /\ stable \in 0..sload
    /\ \A l \in Reloader : Busy(l) => srel[l].nreg \in 1..sload

Seated(n, p) == {t \in SReq : sreq[t].seat /\ sreq[t].prov = <<n, p>>}

SeatInv ==
    /\ sseats \in [Load -> [SProv -> Nat]]
    /\ \A n \in Load, p \in SProv :
          /\ sseats[n][p] = Cardinality(Seated(n, p))
          /\ sseats[n][p] > 0 => \E m \in SModels :
                svc_gate_limit(<<n, p>>, m) \in Int /\ sseats[n][p] <= svc_gate_limit(<<n, p>>, m)

ChainInv == (\A t \in SReq : ReqOK(sreq[t])) /\ ConfigInv /\ SeatInv

SvcInv == GateInv /\ ChainInv

-----------------------------------------------------------------------------
(* A record over some values is one over more values.                      *)
LEMMA FieldsGrow ==
    ASSUME NEW A, NEW B
    PROVE  \A r \in Fields(A) : r \in Fields(A \cup B)
BY Zenon DEF Fields

(* The record of a thread before its request is a request record.          *)
LEMMA IdleIsReq ==
    /\ IsReq(Idle) /\ Idle.prov = NoProv /\ Idle.pc = "idle"
<1>1. Idle.prov = NoProv /\ Idle.pc = "idle"
    BY DEF Idle
<1>2. Idle \in Fields({"idle", "complete", NoModel, 0, NoProv, {}, "none", FALSE, None, svc_chain_def})
    BY Zenon DEF Fields, Idle
<1> QED
    BY <1>1, <1>2, Zenon DEF IsReq

(* A fresh service call waits at the gate and holds no provider.           *)
LEMMA FreshFacts ==
    ASSUME NEW r
    PROVE  IsReq(Fresh_call(r)) /\ Fresh_call(r).pc = "enter" /\ Fresh_call(r).prov = NoProv
<1>1. PICK A : Idle \in Fields(A)
    BY IdleIsReq, Zenon DEF IsReq
<1>2. Fresh_call(r) \in Fields(A \cup {r.kind, r.model, r.att, "enter"})
    BY <1>1, Zenon DEF Fields, Fresh_call
<1>3. Fresh_call(r).pc = "enter" /\ Fresh_call(r).prov = Idle.prov
    BY <1>1 DEF Fields, Fresh_call
<1> QED
    BY <1>2, <1>3, IdleIsReq, Zenon DEF IsReq

(* One thread's record changes: the others keep theirs.                    *)
LEMMA SetFacts ==
    ASSUME SType, NEW t \in SReq, NEW r, IsReq(r), Set(t, r)
    PROVE  /\ \E A : sreq' \in [SReq -> Fields(A)]
           /\ sreq'[t] = r
           /\ \A u \in SReq : u # t => sreq'[u] = sreq[u]
<1>1. PICK A : sreq \in [SReq -> Fields(A)]
    BY Zenon DEF SType
<1>2. PICK B : r \in Fields(B)
    BY Zenon DEF IsReq
<1>3. sreq \in [SReq -> Fields(A \cup B)] /\ r \in Fields(A \cup B)
  <2>1. \A q \in Fields(A) : q \in Fields(A \cup B)
    BY FieldsGrow, Zenon
  <2>2. r \in Fields(A \cup B)
    BY <1>2, Zenon DEF Fields
  <2> QED
    BY <1>1, <2>1, <2>2
<1>4. sreq' = [sreq EXCEPT ![t] = r]
    BY Zenon DEF Set
<1> QED
    BY <1>3, <1>4

(* What the steps of requests leave alone.                                 *)
LEMMA FrameGate ==
    ASSUME SType, OwnInv, ConfigSame
    PROVE  OwnInv' /\ Held' = Held
<1>1. /\ sregy' = sregy /\ sfreed' = sfreed /\ sretired' = sretired /\ sforced' = sforced
      /\ sload' = sload /\ srel' = srel
    BY Zenon DEF ConfigSame
<1>2. OwnInv'
  <2>1. \A k \in Reloader : (Busy(k)' <=> Busy(k)) /\ Owned(k)' = Owned(k)
    BY <1>1, Zenon DEF Busy, Owned
  <2>2. /\ sregy' \notin sfreed' /\ sregy' \notin Range(sretired')
        /\ \A n \in Range(sretired') : n \notin sfreed'
    BY <1>1, Zenon DEF OwnInv
  <2>3. ASSUME NEW k \in Reloader, Busy(k)'
        PROVE  /\ Owned(k)' \in 1..sload' /\ Owned(k)' # sregy'
               /\ Owned(k)' \notin sfreed' /\ Owned(k)' \notin Range(sretired')
    <3>1. Busy(k) /\ Owned(k)' = Owned(k)
      BY <2>1, <2>3, Zenon
    <3>2. /\ Owned(k) \in 1..sload /\ Owned(k) # sregy
          /\ Owned(k) \notin sfreed /\ Owned(k) \notin Range(sretired)
      BY <3>1, Zenon DEF OwnInv
    <3> QED
      BY <3>1, <3>2, <1>1, Zenon
  <2>4. \A k, j \in Reloader : Busy(k)' /\ Busy(j)' /\ Owned(k)' = Owned(j)' => k = j
    BY <2>1, Zenon DEF OwnInv
  <2> QED
    BY <2>2, <2>3, <2>4, Zenon DEF OwnInv
<1>3. Held' = Held
    BY <1>1, Zenon DEF Held, Grace, Range
<1> QED
    BY <1>2, <1>3, Zenon

(* A request moves on its own side of the gate.                            *)
LEMMA StayStep ==
    ASSUME GateInv, NEW t \in SReq, NEW r, IsReq(r), Set(t, r), ConfigSame, ssw' = ssw,
           InGate(r) <=> InGate(sreq[t]), NewCall(r),
           InGate(r) => r.prov[1] \in {0, sregy, sreq[t].prov[1]}
    PROVE  GateInv'
<1>a. SType /\ OwnInv /\ DrainInv /\ CountInv /\ HoldInv
    BY Zenon DEF GateInv
<1>b. /\ sregy' = sregy /\ sfreed' = sfreed /\ sretired' = sretired /\ sforced' = sforced
      /\ sload' = sload /\ srel' = srel
    BY Zenon DEF ConfigSame
<1>c. /\ \E A : sreq' \in [SReq -> Fields(A)]
      /\ sreq'[t] = r
      /\ \A u \in SReq : u # t => sreq'[u] = sreq[u]
    BY <1>a, SetFacts, Zenon
<1>d. \A u \in SReq : Inside(u)' <=> Inside(u)
    BY <1>c, Zenon DEF Inside, InGate
<1>1. SType'
    BY <1>a, <1>b, <1>c, Zenon DEF SType
<1>2. OwnInv'
    BY <1>a, FrameGate, Zenon
<1>3. DrainInv'
    BY <1>a, <1>b, Zenon DEF DrainInv, Drains, Quiet
<1>4. CountInv'
  <2>1. {u \in SReq : Inside(u)'} = {u \in SReq : Inside(u)}
    BY <1>d, Zenon
  <2> QED
    BY <2>1, <1>a, Zenon DEF CountInv
<1>5. HoldInv'
  <2>1. Held' = Held
    BY <1>a, FrameGate, Zenon
  <2> SUFFICES ASSUME NEW u \in SReq
               PROVE  (Inside(u)' => sreq'[u].prov[1] \in Held') /\ NewCall(sreq'[u])
    BY Zenon DEF HoldInv, NewCall
  <2>2. CASE u = t
    <3>1. NewCall(sreq'[u])
      BY <2>2, <1>c, Zenon
    <3>2. ASSUME Inside(u)' PROVE sreq'[u].prov[1] \in Held
      <4>1. InGate(r) /\ Inside(t)
        BY <2>2, <3>2, <1>c, <1>d, Zenon DEF Inside, InGate
      <4>2. sreq[t].prov[1] \in Held
        BY <4>1, <1>a, Zenon DEF HoldInv
      <4>3. 0 \in Held /\ sregy \in Held
        BY DEF Held
      <4> QED
        BY <4>1, <4>2, <4>3, <2>2, <1>c, Zenon
    <3> QED
      BY <3>1, <3>2, <2>1, Zenon
  <2>3. CASE u # t
    BY <2>3, <2>1, <1>a, <1>c, <1>d, Zenon DEF HoldInv
  <2> QED
    BY <2>2, <2>3, Zenon
<1> QED
    BY <1>1, <1>2, <1>3, <1>4, <1>5, Zenon DEF GateInv

(* What the two ends of the gate share: thread t gets record r, and infl   *)
(* counts the threads inside again.                                        *)
LEMMA CrossStep ==
    ASSUME GateInv, NEW t \in SReq, NEW r, IsReq(r), Set(t, r), ConfigSame, NEW x \in Nat,
           ssw' = [ssw EXCEPT !.infl = x], NewCall(r),
           x = Cardinality({u \in SReq : Inside(u)'}),
           \A l \in Reloader : Quiet(l) => x = 0,
           InGate(r) => r.prov = NoProv
    PROVE  GateInv'
<1>a. SType /\ OwnInv /\ DrainInv /\ HoldInv
    BY Zenon DEF GateInv
<1>b. /\ sregy' = sregy /\ sfreed' = sfreed /\ sretired' = sretired
      /\ sload' = sload /\ srel' = srel
    BY Zenon DEF ConfigSame
<1>c. /\ \E A : sreq' \in [SReq -> Fields(A)]
      /\ sreq'[t] = r
      /\ \A u \in SReq : u # t => sreq'[u] = sreq[u]
    BY <1>a, SetFacts, Zenon
<1>d. /\ ssw' \in [gen : Nat, drain : BOOLEAN, infl : Nat]
      /\ ssw'.infl = x /\ ssw'.drain = ssw.drain
  <2>1. ssw \in [gen : Nat, drain : BOOLEAN, infl : Nat]
    BY <1>a, Zenon DEF SType
  <2> QED
    BY <2>1
<1>1. SType'
    BY <1>a, <1>b, <1>c, <1>d, Zenon DEF SType
<1>2. OwnInv' /\ Held' = Held
    BY <1>a, FrameGate, Zenon
<1>3. DrainInv'
    BY <1>a, <1>b, <1>d, Zenon DEF DrainInv, Drains, Quiet
<1>4. CountInv'
    BY <1>d, Zenon DEF CountInv
<1>5. HoldInv'
  <2>1. NoProv[1] = 0 /\ 0 \in Held
    BY DEF Held, NoProv
  <2> SUFFICES ASSUME NEW u \in SReq
               PROVE  (Inside(u)' => sreq'[u].prov[1] \in Held) /\ NewCall(sreq'[u])
    BY <1>2, Zenon DEF HoldInv, NewCall
  <2>2. CASE u = t
    BY <2>1, <2>2, <1>c, Zenon DEF Inside, InGate
  <2>3. CASE u # t
    BY <2>3, <1>a, <1>c, Zenon DEF HoldInv, Inside
  <2> QED
    BY <2>2, <2>3, Zenon
<1> QED
    BY <1>1, <1>2, <1>3, <1>4, <1>5, Zenon DEF GateInv

(* The threads inside the gate are finitely many.                          *)
LEMMA InsideFinite ==
    IsFiniteSet({u \in SReq : Inside(u)})
<1>1. IsFiniteSet(SReq)
    BY LlmServiceAssumption
<1>2. {u \in SReq : Inside(u)} \in SUBSET SReq
    BY Zenon
<1> QED
    BY <1>1, <1>2, FS_Subset, Zenon

(* svc_swap_enter lets a request in unless a reload drains the gate.       *)
LEMMA EnterStep ==
    ASSUME GateInv, NEW t \in SReq, NEW r, IsReq(r), Set(t, r), ConfigSame,
           sreq[t].pc = "enter", ~ssw.drain, ssw' = [ssw EXCEPT !.infl = @ + 1],
           r.pc = "pick", r.prov = sreq[t].prov
    PROVE  GateInv'
<1>a. SType /\ DrainInv /\ CountInv /\ HoldInv
    BY Zenon DEF GateInv
<1>b. ssw.infl \in Nat
    BY <1>a DEF SType
<1>c. /\ sreq'[t] = r
      /\ \A u \in SReq : u # t => sreq'[u] = sreq[u]
    BY <1>a, SetFacts, Zenon
<1>d. ~Inside(t) /\ Inside(t)' /\ ~(r.pc = "enter")
  <2>1. ~Inside(t) /\ ~(r.pc = "enter")
    BY DEF Inside
  <2>2. Inside(t)'
    BY <1>c, Zenon DEF Inside
  <2> QED
    BY <2>1, <2>2
<1>1. ssw.infl + 1 = Cardinality({u \in SReq : Inside(u)'})
  <2> DEFINE S == {u \in SReq : Inside(u)}
  <2>1. {u \in SReq : Inside(u)'} = S \cup {t}
    BY <1>c, <1>d, Zenon DEF Inside
  <2>2. IsFiniteSet(S) /\ t \notin S
    BY InsideFinite, <1>d, Zenon
  <2>3. ssw.infl = Cardinality(S)
    BY <1>a, Zenon DEF CountInv
  <2> HIDE DEF S
  <2>4. Cardinality(S \cup {t}) = Cardinality(S) + 1
    BY <2>2, FS_AddElement
  <2> QED
    BY <2>1, <2>3, <2>4
<1>2. \A l \in Reloader : ~Quiet(l)
    BY <1>a, Zenon DEF DrainInv, Drains, Quiet
<1>3. r.prov = NoProv
    BY <1>a, Zenon DEF HoldInv, NewCall
<1>4. ssw.infl + 1 \in Nat
    BY <1>b
<1>5. NewCall(r)
    BY <1>d, Zenon DEF NewCall
<1> QED
    BY <1>1, <1>2, <1>3, <1>4, <1>5, CrossStep, Zenon

(* svc_swap_leave counts a request out.                                    *)
LEMMA LeaveStep ==
    ASSUME GateInv, NEW t \in SReq, NEW r, IsReq(r), Set(t, r), ConfigSame,
           sreq[t].pc = "leave", ssw' = [ssw EXCEPT !.infl = MaxOf(@ - 1, 0)], r.pc = "ret"
    PROVE  GateInv'
<1>a. SType /\ DrainInv /\ CountInv
    BY Zenon DEF GateInv
<1>b. ssw.infl \in Nat
    BY <1>a DEF SType
<1>c. /\ sreq'[t] = r
      /\ \A u \in SReq : u # t => sreq'[u] = sreq[u]
    BY <1>a, SetFacts, Zenon
<1>d. Inside(t) /\ ~Inside(t)' /\ ~InGate(r) /\ NewCall(r)
  <2>1. ~InGate(r) /\ NewCall(r)
    BY DEF InGate, NewCall
  <2>2. Inside(t)
    BY Zenon DEF Inside
  <2>3. ~Inside(t)'
    BY <1>c, <2>1, Zenon DEF Inside, InGate
  <2> QED
    BY <2>1, <2>2, <2>3
<1>1. ssw.infl - 1 = Cardinality({u \in SReq : Inside(u)'}) /\ ssw.infl > 0
  <2> DEFINE S == {u \in SReq : Inside(u)}
  <2>1. {u \in SReq : Inside(u)'} = S \ {t}
    BY <1>c, <1>d, Zenon DEF Inside
  <2>2. IsFiniteSet(S) /\ t \in S
    BY InsideFinite, <1>d, Zenon
  <2>3. ssw.infl = Cardinality(S)
    BY <1>a, Zenon DEF CountInv
  <2> HIDE DEF S
  <2>4. Cardinality(S \ {t}) = Cardinality(S) - 1
    BY <2>2, FS_RemoveElement
  <2>5. Cardinality(S \ {t}) \in Nat
    BY <2>2, FS_RemoveElement, FS_CardinalityType
  <2>6. ssw.infl - 1 = Cardinality(S \ {t}) /\ ssw.infl > 0
    BY <2>3, <2>4, <2>5, <1>b
  <2> QED
    BY <2>1, <2>6, Zenon
<1>2. MaxOf(ssw.infl - 1, 0) = ssw.infl - 1 /\ ssw.infl - 1 \in Nat
    BY <1>1, <1>b DEF MaxOf
<1>3. \A l \in Reloader : ~Quiet(l)
  <2>1. ssw.infl # 0
    BY <1>1, <1>b
  <2> QED
    BY <2>1, <1>a, Zenon DEF DrainInv
<1>4. ssw' = [ssw EXCEPT !.infl = ssw.infl - 1]
    BY <1>2, Zenon
<1>5. ssw.infl - 1 = Cardinality({u \in SReq : Inside(u)'})
    BY <1>1, Zenon
<1> QED
    BY <1>2, <1>3, <1>4, <1>5, <1>d, CrossStep, Zenon

-----------------------------------------------------------------------------
(* The updates of a request's record.                                      *)
PcOf(q, r, at) == q = [r EXCEPT !.pc = at]
RetOf(q, r, at, ret) == q = [r EXCEPT !.pc = at, !.ret = ret]
GenOf(q, r, at, gen) == q = [r EXCEPT !.pc = at, !.gen = gen]
HitOf(q, r, at, ret, resp) == q = [r EXCEPT !.pc = at, !.ret = ret, !.resp = resp]
TriedOf(q, r, tried) == q = [r EXCEPT !.tried = tried]
ProvOf(q, r, at, prov) == q = [r EXCEPT !.pc = at, !.prov = prov]
LeaveOf(q, r, at, prov, over, resp, ret) ==
    q = [r EXCEPT !.pc = at, !.prov = prov, !.over = over, !.resp = resp, !.ret = ret]
AttOf(q, r, att) == q = [r EXCEPT !.att = att]
PickOf(q, r, at, prov, cur, route) ==
    q = [r EXCEPT !.pc = at, !.prov = prov, !.cur = cur, !.route = route]
CallOf(q, r, at, seat, calls) == q = [r EXCEPT !.pc = at, !.seat = seat, !.calls = calls]
HopOf(q, r, hops, cur) == q = [r EXCEPT !.hops = hops, !.cur = cur]
TryOf(q, r, seat, sent, first) == q = [r EXCEPT !.seat = seat, !.sent = sent, !.first = first]

(* Most of them leave its chain alone.                                     *)
SameChain(q, r) ==
    /\ q.cur = r.cur /\ q.hops = r.hops /\ q.calls = r.calls /\ q.seat = r.seat
    /\ q.sent = r.sent /\ q.route = r.route /\ q.kind = r.kind /\ q.model = r.model

(* The chain of a request, written out.                                    *)
Reads(q, at, prov, cur, hops, calls, seat, sent, route, kind, model) ==
    /\ q.pc = at /\ q.prov = prov /\ q.cur = cur /\ q.hops = hops /\ q.calls = calls
    /\ q.seat = seat /\ q.sent = sent /\ q.route = route /\ q.kind = kind /\ q.model = model

(* A step that only moves on ...                                           *)
LEMMA SetPc ==
    ASSUME NEW r, IsReq(r), NEW at,
           NEW q, PcOf(q, r, at)
    PROVE  /\ IsReq(q) /\ q.pc = at /\ q.prov = r.prov /\ SameChain(q, r)
<1>1. PICK A : r \in Fields(A)
    BY Zenon DEF IsReq
<1>2. q \in Fields(A \cup {at})
    BY <1>1, Zenon DEF Fields, PcOf
<1>3. /\ q.pc = at /\ q.prov = r.prov /\ SameChain(q, r)
    BY <1>1 DEF Fields, SameChain, PcOf
<1> QED
    BY <1>2, <1>3, Zenon DEF IsReq

(* ... that sets the result ...                                            *)
LEMMA SetRet ==
    ASSUME NEW r, IsReq(r), NEW at, NEW ret_,
           NEW q, RetOf(q, r, at, ret_)
    PROVE  /\ IsReq(q) /\ q.pc = at /\ q.prov = r.prov /\ SameChain(q, r)
<1>1. PICK A : r \in Fields(A)
    BY Zenon DEF IsReq
<1>2. q \in Fields(A \cup {at, ret_})
    BY <1>1, Zenon DEF Fields, RetOf
<1>3. /\ q.pc = at /\ q.prov = r.prov /\ SameChain(q, r)
    BY <1>1 DEF Fields, SameChain, RetOf
<1> QED
    BY <1>2, <1>3, Zenon DEF IsReq

(* ... svc_swap_enter ...                                                  *)
LEMMA SetGen ==
    ASSUME NEW r, IsReq(r), NEW at, NEW gen_,
           NEW q, GenOf(q, r, at, gen_)
    PROVE  /\ IsReq(q) /\ q.pc = at /\ q.prov = r.prov /\ SameChain(q, r)
<1>1. PICK A : r \in Fields(A)
    BY Zenon DEF IsReq
<1>2. q \in Fields(A \cup {at, gen_})
    BY <1>1, Zenon DEF Fields, GenOf
<1>3. /\ q.pc = at /\ q.prov = r.prov /\ SameChain(q, r)
    BY <1>1 DEF Fields, SameChain, GenOf
<1> QED
    BY <1>2, <1>3, Zenon DEF IsReq

(* ... an answer ...                                                       *)
LEMMA SetHit ==
    ASSUME NEW r, IsReq(r), NEW at, NEW ret_, NEW resp_,
           NEW q, HitOf(q, r, at, ret_, resp_)
    PROVE  /\ IsReq(q) /\ q.pc = at /\ q.prov = r.prov /\ SameChain(q, r)
<1>1. PICK A : r \in Fields(A)
    BY Zenon DEF IsReq
<1>2. q \in Fields(A \cup {at, ret_, resp_})
    BY <1>1, Zenon DEF Fields, HitOf
<1>3. /\ q.pc = at /\ q.prov = r.prov /\ SameChain(q, r)
    BY <1>1 DEF Fields, SameChain, HitOf
<1> QED
    BY <1>2, <1>3, Zenon DEF IsReq

(* ... svc_chain_mark ...                                                  *)
LEMMA SetTried ==
    ASSUME NEW r, IsReq(r), NEW tried_,
           NEW q, TriedOf(q, r, tried_)
    PROVE  /\ IsReq(q) /\ q.pc = r.pc /\ q.prov = r.prov /\ SameChain(q, r)
<1>1. PICK A : r \in Fields(A)
    BY Zenon DEF IsReq
<1>2. q \in Fields(A \cup {tried_})
    BY <1>1, Zenon DEF Fields, TriedOf
<1>3. /\ q.pc = r.pc /\ q.prov = r.prov /\ SameChain(q, r)
    BY <1>1 DEF Fields, SameChain, TriedOf
<1> QED
    BY <1>2, <1>3, Zenon DEF IsReq

(* ... next_prov ...                                                       *)
LEMMA SetProv ==
    ASSUME NEW r, IsReq(r), NEW at, NEW prov_,
           NEW q, ProvOf(q, r, at, prov_)
    PROVE  /\ IsReq(q) /\ q.pc = at /\ q.prov = prov_ /\ SameChain(q, r)
<1>1. PICK A : r \in Fields(A)
    BY Zenon DEF IsReq
<1>2. q \in Fields(A \cup {at, prov_})
    BY <1>1, Zenon DEF Fields, ProvOf
<1>3. /\ q.pc = at /\ q.prov = prov_ /\ SameChain(q, r)
    BY <1>1 DEF Fields, SameChain, ProvOf
<1> QED
    BY <1>2, <1>3, Zenon DEF IsReq

(* ... svc_swap_leave ...                                                  *)
LEMMA SetLeave ==
    ASSUME NEW r, IsReq(r), NEW at, NEW prov_, NEW over_, NEW resp_, NEW ret_,
           NEW q, LeaveOf(q, r, at, prov_, over_, resp_, ret_)
    PROVE  /\ IsReq(q) /\ q.pc = at /\ q.prov = prov_ /\ SameChain(q, r)
<1>1. PICK A : r \in Fields(A)
    BY Zenon DEF IsReq
<1>2. q \in Fields(A \cup {at, prov_, over_, resp_, ret_})
    BY <1>1, Zenon DEF Fields, LeaveOf
<1>3. /\ q.pc = at /\ q.prov = prov_ /\ SameChain(q, r)
    BY <1>1 DEF Fields, SameChain, LeaveOf
<1> QED
    BY <1>2, <1>3, Zenon DEF IsReq

(* ... handle_result; and those that change it: ...                        *)
LEMMA SetAtt ==
    ASSUME NEW r, IsReq(r), NEW att_,
           NEW q, AttOf(q, r, att_)
    PROVE  /\ IsReq(q) /\ q.pc = r.pc /\ q.prov = r.prov /\ SameChain(q, r)
<1>1. PICK A : r \in Fields(A)
    BY Zenon DEF IsReq
<1>2. q \in Fields(A \cup {att_})
    BY <1>1, Zenon DEF Fields, AttOf
<1>3. /\ q.pc = r.pc /\ q.prov = r.prov /\ SameChain(q, r)
    BY <1>1 DEF Fields, SameChain, AttOf
<1> QED
    BY <1>2, <1>3, Zenon DEF IsReq

(* ... pick_provider ...                                                   *)
LEMMA SetPick ==
    ASSUME NEW r, IsReq(r), NEW at, NEW prov_, NEW cur_, NEW route_,
           NEW q, PickOf(q, r, at, prov_, cur_, route_)
    PROVE  IsReq(q) /\ Reads(q, at, prov_, cur_, r.hops, r.calls, r.seat, r.sent, route_, r.kind, r.model)
<1>1. PICK A : r \in Fields(A)
    BY Zenon DEF IsReq
<1>2. q \in Fields(A \cup {at, prov_, cur_, route_})
    BY <1>1, Zenon DEF Fields, PickOf
<1>3. Reads(q, at, prov_, cur_, r.hops, r.calls, r.seat, r.sent, route_, r.kind, r.model)
    BY <1>1 DEF Fields, Reads, PickOf
<1> QED
    BY <1>2, <1>3, Zenon DEF IsReq

(* ... chain_gate ...                                                      *)
LEMMA SetCall ==
    ASSUME NEW r, IsReq(r), NEW at, NEW seat_, NEW calls_,
           NEW q, CallOf(q, r, at, seat_, calls_)
    PROVE  IsReq(q) /\ Reads(q, at, r.prov, r.cur, r.hops, calls_, seat_, r.sent, r.route, r.kind, r.model)
<1>1. PICK A : r \in Fields(A)
    BY Zenon DEF IsReq
<1>2. q \in Fields(A \cup {at, seat_, calls_})
    BY <1>1, Zenon DEF Fields, CallOf
<1>3. Reads(q, at, r.prov, r.cur, r.hops, calls_, seat_, r.sent, r.route, r.kind, r.model)
    BY <1>1 DEF Fields, Reads, CallOf
<1> QED
    BY <1>2, <1>3, Zenon DEF IsReq

(* ... svc_chain_next ...                                                  *)
LEMMA SetHop ==
    ASSUME NEW r, IsReq(r), NEW hops_, NEW cur_,
           NEW q, HopOf(q, r, hops_, cur_)
    PROVE  IsReq(q) /\ Reads(q, r.pc, r.prov, cur_, hops_, r.calls, r.seat, r.sent, r.route, r.kind, r.model)
<1>1. PICK A : r \in Fields(A)
    BY Zenon DEF IsReq
<1>2. q \in Fields(A \cup {hops_, cur_})
    BY <1>1, Zenon DEF Fields, HopOf
<1>3. Reads(q, r.pc, r.prov, cur_, hops_, r.calls, r.seat, r.sent, r.route, r.kind, r.model)
    BY <1>1 DEF Fields, Reads, HopOf
<1> QED
    BY <1>2, <1>3, Zenon DEF IsReq

(* ... and attempt_run.                                                     *)
LEMMA SetTry ==
    ASSUME NEW r, IsReq(r), NEW seat_, NEW sent_, NEW first_,
           NEW q, TryOf(q, r, seat_, sent_, first_)
    PROVE  IsReq(q) /\ Reads(q, r.pc, r.prov, r.cur, r.hops, r.calls, seat_, sent_, r.route, r.kind, r.model)
<1>1. PICK A : r \in Fields(A)
    BY Zenon DEF IsReq
<1>2. q \in Fields(A \cup {seat_, sent_, first_})
    BY <1>1, Zenon DEF Fields, TryOf
<1>3. Reads(q, r.pc, r.prov, r.cur, r.hops, r.calls, seat_, sent_, r.route, r.kind, r.model)
    BY <1>1 DEF Fields, Reads, TryOf
<1> QED
    BY <1>2, <1>3, Zenon DEF IsReq

-----------------------------------------------------------------------------
(* A request's own record.                                                 *)
LEMMA ReqIsReq ==
    ASSUME SType, NEW t \in SReq
    PROVE  IsReq(sreq[t])
<1>1. PICK A : sreq \in [SReq -> Fields(A)]
    BY Zenon DEF SType
<1> QED
    BY <1>1, Zenon DEF IsReq

(* A step of a request that neither takes nor gives back a seat keeps the  *)
(* chains and the seats in order.                                          *)
LEMMA ChainStay ==
    ASSUME SType, ChainInv, NEW t \in SReq, NEW q, IsReq(q), Set(t, q), ConfigSame, sseats' = sseats,
           ReqOK(q), ~q.seat, ~sreq[t].seat
    PROVE  ChainInv'
<1>a. (\A u \in SReq : ReqOK(sreq[u])) /\ ConfigInv /\ SeatInv
    BY Zenon DEF ChainInv
<1>b. /\ sreq'[t] = q
      /\ \A u \in SReq : u # t => sreq'[u] = sreq[u]
    BY SetFacts, Zenon
<1>1. \A u \in SReq : ReqOK(sreq'[u])
    BY <1>a, <1>b, Zenon
<1>2. ConfigInv'
  <2>1. sroute' = sroute /\ sload' = sload /\ stable' = stable /\ srel' = srel
    BY Zenon DEF ConfigSame
  <2> QED
    BY <1>a, <2>1, Zenon DEF ConfigInv, Busy
<1>3. \A n, p : Seated(n, p)' = Seated(n, p)
    BY <1>b, Zenon DEF Seated
<1>4. SeatInv'
    BY <1>a, <1>3, Zenon DEF SeatInv
<1>5. (\A u \in SReq : ReqOK(sreq[u]))'
    BY <1>1, Zenon DEF ReqOK, ReqNum, ReqEnd
<1> QED
    BY <1>2, <1>4, <1>5, Zenon DEF ChainInv

(* The same for the whole invariant, on one side of the gate.              *)
LEMMA ReqStep ==
    ASSUME SvcInv, NEW t \in SReq, NEW q, IsReq(q), Set(t, q), ConfigSame, ssw' = ssw, sseats' = sseats,
           InGate(q) <=> InGate(sreq[t]), NewCall(q),
           InGate(q) => q.prov[1] \in {0, sregy, sreq[t].prov[1]},
           ReqOK(q), ~q.seat, ~sreq[t].seat
    PROVE  SvcInv'
<1>1. GateInv /\ ChainInv /\ SType
    BY Zenon DEF SvcInv, GateInv
<1>2. GateInv'
    BY <1>1, StayStep, Zenon
<1>3. ChainInv'
    BY <1>1, ChainStay, Zenon
<1> QED
    BY <1>2, <1>3, Zenon DEF SvcInv

-----------------------------------------------------------------------------
(* The registries.                                                         *)

(* A set of natural numbers that is not empty has a least element.         *)
LEMMA LeastExists ==
    ASSUME NEW S \in SUBSET Nat, S # {}
    PROVE  \E x \in S : \A y \in S : x =< y
<1>1. PICK x \in S : \A y \in S : <<y, x>> \notin OpToRel(<, Nat)
    BY NatLessThanWellFounded, WFMin, Zenon
<1>2. \A a, b \in Nat : a < b => <<a, b>> \in OpToRel(<, Nat)
    BY DEF OpToRel
<1>3. \A y \in S : ~(y < x)
    BY <1>1, <1>2
<1> QED
    BY <1>3

(* provider_registry_find answers with a place in the registry, or none.   *)
LEMMA FindFacts ==
    ASSUME NEW n \in Load, NEW m, provider_registry_find(n, m) # 0
    PROVE  /\ provider_registry_find(n, m) \in DOMAIN provider_registry_create[n]
<1> DEFINE reg == provider_registry_create[n]
           I == {i \in 1..Len(reg) : m \in Range(reg[i].models)}
<1>1. DOMAIN reg = 1..Len(reg)
    BY RegistryAssumption, Zenon
<1>2. provider_registry_find(n, m) = IF I = {} THEN 0 ELSE CHOOSE i \in I : \A j \in I : i <= j
    BY Zenon DEF provider_registry_find, FirstIdx
<1>3. I # {} /\ I \in SUBSET Nat /\ I \in SUBSET DOMAIN reg
    BY <1>1, <1>2
<1> HIDE DEF I, reg
<1>4. \E x \in I : \A y \in I : x <= y
    BY <1>3, LeastExists
<1>5. (CHOOSE i \in I : \A j \in I : i <= j) \in I
    BY <1>4, Zenon
<1> QED
    BY <1>2, <1>3, <1>5 DEF reg

(* svc_find_prov answers with a provider of the registry of the moment.    *)
LEMMA FindProv ==
    ASSUME sregy \in Load, NEW m
    PROVE  /\ svc_find_prov(m) = NoProv \/ svc_find_prov(m) \in Known
           /\ svc_find_prov(m)[1] \in {0, sregy}
<1>1. CASE provider_registry_find(sregy, m) = 0
    BY <1>1 DEF svc_find_prov, NoProv
<1>2. CASE provider_registry_find(sregy, m) # 0
  <2> DEFINE p == provider_registry_create[sregy][provider_registry_find(sregy, m)]
  <2>1. svc_find_prov(m) = <<sregy, p.name>>
    BY <1>2, Zenon DEF svc_find_prov
  <2>2. p \in Range(provider_registry_create[sregy])
    BY <1>2, FindFacts, Zenon DEF Range
  <2> HIDE DEF p
  <2> DEFINE names(n) == {<<n, q.name>> : q \in Range(provider_registry_create[n])}
  <2>a. <<sregy, p.name>> \in names(sregy)
    BY <2>2, Zenon
  <2>b. Known = UNION {names(n) : n \in Load}
    BY Zenon DEF Known
  <2> HIDE DEF names
  <2>3. <<sregy, p.name>> \in Known
    BY <2>a, <2>b
  <2>4. <<sregy, p.name>>[1] = sregy
    OBVIOUS
  <2> QED
    BY <2>1, <2>3, <2>4, Zenon
<1> QED
    BY <1>1, <1>2, Zenon

(* An endpoint of the router's table is an endpoint of a registry.         *)
LEMMA RoutedModels ==
    ASSUME stable = 0 \/ stable \in Load, NEW e \in Routed
    PROVE  e[2] \in SModels
<1>1. stable \in Load /\ e \in provider_registry_enumerate(stable)
    BY DEF Routed
<1>2. PICK p \in Range(provider_registry_create[stable]) : \E m \in Range(p.models) : e = <<p.name, m>>
    BY <1>1, Zenon DEF provider_registry_enumerate
<1>3. PICK m \in Range(p.models) : e = <<p.name, m>>
    BY <1>2, Zenon
<1>4. e[2] = m
    BY <1>3
<1>5. m \in SModels
  <2> DEFINE models(n) == UNION {Range(q.models) : q \in Range(provider_registry_create[n])}
  <2>1. m \in models(stable)
    BY <1>3
  <2>2. SModels = SModel \cup UNION {models(n) : n \in Load}
    BY Zenon DEF SModels
  <2> HIDE DEF models
  <2> QED
    BY <1>1, <2>1, <2>2
<1> QED
    BY <1>4, <1>5, Zenon

(* The seats of a provider for a model are a natural number.               *)
LEMMA LimitType ==
    ASSUME NEW prov \in Known, NEW m
    PROVE  svc_gate_limit(prov, m) \in Int
<1>1. PICK n \in Load : prov \in {<<n, p.name>> : p \in Range(provider_registry_create[n])}
    BY Zenon DEF Known
<1>2. PICK k \in Range(provider_registry_create[n]) : prov = <<n, k.name>>
    BY <1>1, Zenon
<1> DEFINE reg == provider_registry_create[n]
           I == {i \in 1..Len(reg) : reg[i].name = prov[2]}
           j == FirstIdx(reg, LAMBDA q : q.name = prov[2])
           p == reg[j]
           J == {i \in 1..Len(p.models) : p.models[i] = m}
<1>3. prov[1] = n /\ prov[2] = k.name
    BY <1>2
<1>4. j \in I
  <2>1. DOMAIN reg = 1..Len(reg)
    BY RegistryAssumption, Zenon
  <2>2. PICK i \in DOMAIN reg : reg[i] = k
    BY <1>2, Zenon DEF Range
  <2>3. i \in I
    BY <2>1, <2>2, <1>3, Zenon
  <2>4. j = CHOOSE x \in I : \A y \in I : x <= y
    BY <2>3, Zenon DEF FirstIdx
  <2>5. I \in SUBSET Nat /\ I # {}
    BY <2>3
  <2> HIDE DEF I, j
  <2>6. \E x \in I : \A y \in I : x <= y
    BY <2>5, LeastExists
  <2> QED
    BY <2>4, <2>6, Zenon
<1>5. p \in Range(reg) /\ p.name = prov[2]
    BY <1>4, RegistryAssumption, Zenon DEF Range
<1> HIDE DEF j, p
<1>6. /\ DOMAIN p.models = 1..Len(p.models) /\ Slots[p.name] \subseteq Int
      /\ \A i \in DOMAIN p.models : p.conc[i] \in Int
    BY <1>5, RegistryAssumption, Zenon
<1>7. prov_max_conc(prov, m) \in Int
  <2>1. prov_max_conc(prov, m) = LET i == FirstIdx(p.models, LAMBDA x : x = m)
                                 IN  IF i = 0 THEN 0 ELSE p.conc[i]
    BY <1>3, Zenon DEF prov_max_conc, p, j
  <2>2. FirstIdx(p.models, LAMBDA x : x = m) =
            IF J = {} THEN 0 ELSE CHOOSE i \in J : \A y \in J : i <= y
    BY Zenon DEF FirstIdx
  <2>3. J \in SUBSET Nat /\ J \in SUBSET DOMAIN p.models
    BY <1>6
  <2> HIDE DEF J
  <2>4. J # {} => (CHOOSE i \in J : \A y \in J : i <= y) \in J
    BY <2>3, LeastExists, Zenon
  <2> QED
    BY <2>1, <2>2, <2>3, <2>4, <1>6
<1>8. Opt(Slots[prov[2]], 0) \in Int
  <2>1. Slots[prov[2]] \subseteq Int
    BY <1>5, <1>6, Zenon
  <2> QED
    BY <2>1 DEF Opt
<1> QED
    BY <1>7, <1>8 DEF svc_gate_limit, MaxOf, MinOf

(* A routing configuration.                                                *)
Route(A) == [mode : A, depth : Nat, on : A, budget : A]

(* A routing section leaves the depth a natural number (svc_route_load).   *)
LEMMA SectionType ==
    ASSUME NEW f, f # NoRouting => f.depth \subseteq Int, NEW A, NEW cfg \in Route(A)
    PROVE  \E B : svc_route_load(f, cfg) \in Route(B)
<1>1. CASE f = NoRouting
    BY <1>1, Zenon DEF svc_route_load
<1>2. CASE f # NoRouting
  <2> DEFINE c1 == route_mode(f, cfg)
             c2 == route_depth(f, c1)
             c3 == route_on(f, c2)
             c4 == route_deadline(f, c3)
  <2>1. c1 \in Route(A \cup {"auto", "off"})
    BY Zenon DEF route_mode, Route
  <2> HIDE DEF c1
  <2>2. c2 \in Route(A \cup {"auto", "off"})
    <3>1. c1.depth \in Nat
      BY <2>1 DEF Route
    <3>2. Opt(f.depth, c1.depth) \in Int
      BY <1>2, <3>1 DEF Opt
    <3>3. MinOf(MaxOf(Opt(f.depth, c1.depth), 0), MaxTried) \in Nat
      BY <3>2, LlmServiceAssumption DEF MinOf, MaxOf
    <3> QED
      BY <2>1, <3>3, Zenon DEF route_depth, Route
  <2> HIDE DEF c2
  <2>3. PICK x : c3 = [c2 EXCEPT !.on = x]
    BY Zenon DEF route_on
  <2>4. c3 \in Route(A \cup {"auto", "off", x})
    BY <2>2, <2>3, Zenon DEF Route
  <2> HIDE DEF c3
  <2>5. PICK y : c4 = [c3 EXCEPT !.budget = y]
    BY Zenon DEF route_deadline
  <2>6. c4 \in Route(A \cup {"auto", "off", x, y})
    BY <2>4, <2>5, Zenon DEF Route
  <2>7. svc_route_load(f, cfg) = c4
    BY <1>2, Zenon DEF svc_route_load, c1, c2, c3
  <2> QED
    BY <2>6, <2>7, Zenon
<1> QED
    BY <1>1, <1>2, Zenon

(* So every load of the configuration has a depth (route_depth clamps it). *)
LEMMA RouteType ==
    /\ svc_chain_def.depth \in Nat
    /\ \A n \in Load : RouteOf[n].depth \in Nat
<1>1. DefDepth \in Nat
    BY LlmServiceAssumption, Zenon
<1>2. svc_chain_def \in Route({"off", FoSet, FALSE})
    BY <1>1, Zenon DEF Route, svc_chain_def
<1>3. ASSUME NEW n \in Load PROVE RouteOf[n].depth \in Nat
  <2>1. /\ Boot[n].main # NoRouting => Boot[n].main.depth \subseteq Int
        /\ Boot[n].user # NoRouting => Boot[n].user.depth \subseteq Int
    BY LlmServiceAssumption, Zenon
  <2>2. PICK A : svc_route_load(Boot[n].main, svc_chain_def) \in Route(A)
    BY <1>2, <2>1, SectionType, Zenon
  <2>3. PICK B : RouteOf[n] \in Route(B)
    <3>1. PICK cfg \in Route(A) : cfg = svc_route_load(Boot[n].main, svc_chain_def)
      BY <2>2, Zenon
    <3>2. RouteOf[n] = svc_route_load(Boot[n].user, cfg)
      BY <3>1, Zenon DEF RouteOf
    <3>3. PICK f : f = Boot[n].user
      BY Zenon
    <3>4. f # NoRouting => f.depth \subseteq Int
      BY <2>1, <3>3, Zenon
    <3>5. \E B : svc_route_load(f, cfg) \in Route(B)
      BY <3>4, SectionType, Zenon
    <3> QED
      BY <3>2, <3>3, <3>5, Zenon
  <2> QED
    BY <2>3 DEF Route
<1>4. svc_chain_def.depth \in Nat
    BY <1>1 DEF svc_chain_def
<1> QED
    BY <1>3, <1>4, Zenon

-----------------------------------------------------------------------------
(* The steps of a request.                                                 *)

(* What the invariant says of one request thread.                          *)
LEMMA Basics ==
    ASSUME SvcInv, NEW t \in SReq
    PROVE  /\ GateInv /\ ChainInv /\ SType
           /\ IsReq(sreq[t]) /\ ReqOK(sreq[t]) /\ NewCall(sreq[t])
           /\ sregy \in Load /\ (stable = 0 \/ stable \in Load)
<1>1. GateInv /\ ChainInv /\ SType /\ ConfigInv
    BY Zenon DEF SvcInv, GateInv, ChainInv
<1>2. IsReq(sreq[t])
    BY <1>1, ReqIsReq, Zenon
<1>3. ReqOK(sreq[t]) /\ NewCall(sreq[t])
    BY <1>1, Zenon DEF GateInv, HoldInv, ChainInv
<1>4. sregy \in 1..sload /\ sload \in Nat /\ sload <= Len(Boot) /\ stable \in 0..sload
    BY <1>1, Zenon DEF SType, ConfigInv
<1>5. Load = 1..Len(Boot) /\ Len(Boot) \in Nat
    BY LlmServiceAssumption
<1>6. sregy \in Load /\ (stable = 0 \/ stable \in Load)
    BY <1>4, <1>5
<1> QED
    BY <1>1, <1>2, <1>3, <1>6, Zenon

(* A new call's chain is clean.                                            *)
LEMMA FreshOK ==
    ASSUME NEW r, r.model \in SModel, NEW q, q = Fresh_call(r)
    PROVE  /\ IsReq(q) /\ NewCall(q) /\ ~InGate(q) /\ ReqOK(q) /\ ~q.seat
<1>1. IsReq(q) /\ q.pc = "enter" /\ q.prov = NoProv
    BY FreshFacts, Zenon
<1>2. PICK A : Idle \in Fields(A)
    BY IdleIsReq, Zenon DEF IsReq
<1>3. /\ q.calls = Idle.calls /\ q.hops = Idle.hops /\ q.seat = Idle.seat /\ q.sent = Idle.sent
      /\ q.route = Idle.route /\ q.model = r.model
    BY <1>2 DEF Fields, Fresh_call
<1>4. /\ Idle.calls = 0 /\ Idle.hops = 0 /\ Idle.seat = FALSE /\ Idle.sent = FALSE
      /\ Idle.route = svc_chain_def
    BY DEF Idle
<1>5. ~q.seat /\ ~q.sent /\ q.model \in SModel
    BY <1>3, <1>4, Zenon
<1>6. ReqNum(q)
    BY <1>1, <1>3, <1>4, RouteType DEF ReqNum
<1>7. ReqEnd(q)
    BY <1>1, <1>5 DEF ReqEnd
<1>8. NewCall(q) /\ ~InGate(q)
    BY <1>1 DEF NewCall, InGate
<1> QED
    BY <1>1, <1>5, <1>6, <1>7, <1>8, Zenon DEF ReqOK

(* A request begins or tries again.                                        *)
LEMMA FreshStep ==
    ASSUME SvcInv, NEW t \in SReq, NEW r, r.model \in SModel, Set(t, Fresh_call(r)), ConfigSame,
           UNCHANGED <<ssw, sseats>>, sreq[t].pc \in {"idle", "peek", "ret"}
    PROVE  SvcInv'
<1> DEFINE q == Fresh_call(r)
<1>1. IsReq(q) /\ NewCall(q) /\ ~InGate(q) /\ ReqOK(q) /\ ~q.seat
    BY FreshOK, Zenon
<1>2. ReqOK(sreq[t])
    BY Basics, Zenon
<1>3. ~InGate(sreq[t]) /\ ~sreq[t].seat
    BY <1>2 DEF InGate, ReqOK, ReqEnd
<1> HIDE DEF q
<1>4. Set(t, q) /\ ssw' = ssw /\ sseats' = sseats
    BY Zenon DEF q
<1> QED
    BY <1>1, <1>3, <1>4, ReqStep, Zenon

(* A request whose chain is over.                                          *)
LEMMA OverOK ==
    ASSUME NEW r, ReqOK(r), r.pc # "idle", ~r.seat, NEW q, SameChain(q, r),
           q.pc \in {"store", "leave", "ret", "done"}
    PROVE  ReqOK(q) /\ ~q.seat /\ NewCall(q)
<1>1. ReqNum(r) /\ ReqEnd(r)
    BY Zenon DEF ReqOK
<1>2. ReqNum(q)
    BY <1>1 DEF ReqNum, SameChain
<1>3. ~q.seat /\ q.model = r.model
    BY Zenon DEF SameChain
<1>4. ReqEnd(q) /\ NewCall(q)
    BY <1>1, <1>3 DEF ReqEnd, NewCall
<1> QED
    BY <1>2, <1>3, <1>4, Zenon DEF ReqOK

(* handle_complete, handle_embeddings, handle_complete_stream and the      *)
(* second half of the latter.                                              *)
LEMMA HandleStep ==
    ASSUME SvcInv, NEW t \in SReq, NEW m \in SModel,
           handle_complete(t, m) \/ handle_embeddings(t, m) \/ handle_complete_stream(t, m)
    PROVE  SvcInv'
<1>0. PICK A : Idle \in Fields(A)
    BY IdleIsReq, Zenon DEF IsReq
<1>1. CASE handle_complete(t, m)
  <2> DEFINE r == [Idle EXCEPT !.model = m]
  <2>1. r.model = m
    BY <1>0 DEF Fields
  <2> HIDE DEF r
  <2>2. /\ Set(t, Fresh_call(r)) /\ ConfigSame /\ UNCHANGED <<ssw, sseats>>
        /\ sreq[t].pc = "idle"
    BY <1>1, Zenon DEF handle_complete, r
  <2> QED
    BY <2>1, <2>2, FreshStep, Zenon
<1>2. CASE handle_embeddings(t, m)
  <2> DEFINE r == [Idle EXCEPT !.kind = "emb", !.model = m]
  <2>1. r.model = m
    BY <1>0 DEF Fields
  <2> HIDE DEF r
  <2>2. /\ Set(t, Fresh_call(r)) /\ ConfigSame /\ UNCHANGED <<ssw, sseats>>
        /\ sreq[t].pc = "idle"
    BY <1>2, Zenon DEF handle_embeddings, r
  <2> QED
    BY <2>1, <2>2, FreshStep, Zenon
<1>3. CASE handle_complete_stream(t, m)
  <2>0. PICK q : q = [Idle EXCEPT !.kind = "stream", !.model = m, !.pc = "peek", !.prov = <<sregy, "?">>]
    BY Zenon
  <2>1. /\ IsReq(q) /\ q.pc = "peek" /\ q.model = m
        /\ q.calls = Idle.calls /\ q.hops = Idle.hops /\ q.seat = Idle.seat /\ q.sent = Idle.sent
        /\ q.route = Idle.route
    <3>1. q \in Fields(A \cup {"stream", m, "peek", <<sregy, "?">>})
      BY <1>0, <2>0, Zenon DEF Fields
    <3>2. /\ q.pc = "peek" /\ q.model = m
          /\ q.calls = Idle.calls /\ q.hops = Idle.hops /\ q.seat = Idle.seat /\ q.sent = Idle.sent
          /\ q.route = Idle.route
      BY <1>0, <2>0 DEF Fields
    <3> QED
      BY <3>1, <3>2, Zenon DEF IsReq
  <2>2. /\ Idle.calls = 0 /\ Idle.hops = 0 /\ Idle.seat = FALSE /\ Idle.sent = FALSE
        /\ Idle.route = svc_chain_def
    BY DEF Idle
  <2>3. ~q.seat /\ ~q.sent
    BY <2>1, <2>2, Zenon
  <2>4. ReqNum(q)
    BY <2>1, <2>2, RouteType DEF ReqNum
  <2>5. ReqEnd(q) /\ NewCall(q) /\ ~InGate(q)
    BY <2>1, <2>3 DEF ReqEnd, NewCall, InGate
  <2>6. /\ Set(t, q) /\ ConfigSame /\ ssw' = ssw /\ sseats' = sseats
        /\ sreq[t].pc = "idle"
    BY <1>3, <2>0, Zenon DEF handle_complete_stream
  <2>7. ReqOK(sreq[t])
    BY Basics, Zenon
  <2>8. ~InGate(sreq[t]) /\ ~sreq[t].seat
    BY <2>6, <2>7 DEF InGate, ReqOK, ReqEnd
  <2>9. ReqOK(q)
    BY <2>4, <2>5, Zenon DEF ReqOK
  <2> QED
    BY <2>1, <2>3, <2>5, <2>6, <2>8, <2>9, ReqStep, Zenon
<1> QED
    BY <1>1, <1>2, <1>3, Zenon

(* peek_name.                                                              *)
LEMMA PeekStep ==
    ASSUME SvcInv, NEW t \in SReq, peek_name(t)
    PROVE  SvcInv'
<1>1. /\ Set(t, Fresh_call(sreq[t])) /\ ConfigSame /\ UNCHANGED <<ssw, sseats>>
      /\ sreq[t].pc = "peek"
    BY Zenon DEF peek_name
<1>2. ReqOK(sreq[t])
    BY Basics, Zenon
<1>3. sreq[t].model \in SModel
    BY <1>1, <1>2 DEF ReqOK, ReqEnd
<1> QED
    BY <1>1, <1>3, FreshStep, Zenon

(* handle_complete tries again or answers.                                 *)
LEMMA ResultStep ==
    ASSUME SvcInv, NEW t \in SReq, NEW slow, handle_result(t, slow)
    PROVE  SvcInv'
<1>1. IsReq(sreq[t]) /\ ReqOK(sreq[t])
    BY Basics, Zenon
<1>2. sreq[t].pc = "ret" /\ ConfigSame /\ ssw' = ssw /\ sseats' = sseats
    BY Zenon DEF handle_result
<1>3. ~InGate(sreq[t]) /\ ~sreq[t].seat /\ sreq[t].pc # "idle" /\ sreq[t].model \in SModel
    BY <1>1, <1>2 DEF InGate, ReqOK, ReqEnd
<1>4. \/ Set(t, Fresh_call([sreq[t] EXCEPT !.att = @ + 1]))
      \/ Set(t, [sreq[t] EXCEPT !.pc = "done"])
    BY Zenon DEF handle_result
<1>5. CASE Set(t, Fresh_call([sreq[t] EXCEPT !.att = @ + 1]))
  <2>0. PICK r : AttOf(r, sreq[t], sreq[t].att + 1)
    BY Zenon DEF AttOf
  <2>1. SameChain(r, sreq[t])
    BY <1>1, <2>0, SetAtt, Zenon
  <2>2. r.model \in SModel
    BY <2>1, <1>3, Zenon DEF SameChain
  <2>3. Set(t, Fresh_call(r))
    BY <1>5, <2>0, Zenon DEF AttOf
  <2> QED
    BY <1>2, <2>2, <2>3, FreshStep, Zenon
<1>6. CASE Set(t, [sreq[t] EXCEPT !.pc = "done"])
  <2>0. PICK q : PcOf(q, sreq[t], "done")
    BY Zenon DEF PcOf
  <2>1. IsReq(q) /\ q.pc = "done" /\ q.prov = sreq[t].prov /\ SameChain(q, sreq[t])
    BY <1>1, <2>0, SetPc, Zenon
  <2>2. ~InGate(q)
    BY <2>1 DEF InGate
  <2>3. ReqOK(q) /\ ~q.seat /\ NewCall(q)
    BY <1>1, <1>3, <2>1, OverOK, Zenon
  <2>4. Set(t, q)
    BY <1>6, <2>0, Zenon DEF PcOf
  <2> QED
    BY <1>2, <1>3, <2>1, <2>2, <2>3, <2>4, ReqStep, Zenon
<1> QED
    BY <1>4, <1>5, <1>6, Zenon

(* A request inside the gate moves on to a point where its chain is over.  *)
LEMMA OverStep ==
    ASSUME SvcInv, NEW t \in SReq, NEW q, IsReq(q), SameChain(q, sreq[t]), q.prov = sreq[t].prov,
           q.pc \in {"store", "leave"}, sreq[t].pc \in {"pick", "try", "next", "store"},
           Set(t, q), ConfigSame, ssw' = ssw, sseats' = sseats
    PROVE  SvcInv'
<1>1. ReqOK(sreq[t])
    BY Basics, Zenon
<1>2. ~sreq[t].seat /\ sreq[t].pc # "idle"
    BY <1>1 DEF ReqOK, ReqEnd
<1>3. ReqOK(q) /\ ~q.seat /\ NewCall(q)
    BY <1>1, <1>2, OverOK, Zenon
<1>4. InGate(q) /\ InGate(sreq[t])
    BY DEF InGate
<1> QED
    BY <1>2, <1>3, <1>4, ReqStep, Zenon

(* svc_swap_enter and svc_swap_leave.                                      *)
LEMMA SwapStep ==
    ASSUME SvcInv, NEW t \in SReq, svc_swap_enter(t) \/ svc_swap_leave(t)
    PROVE  SvcInv'
<1>0. GateInv /\ ChainInv /\ SType /\ IsReq(sreq[t]) /\ ReqOK(sreq[t]) /\ NewCall(sreq[t])
    BY Basics, Zenon
<1>1. CASE svc_swap_enter(t) /\ ssw.drain
  <2>0. PICK q : RetOf(q, sreq[t], "ret", "busy")
    BY Zenon DEF RetOf
  <2>1. IsReq(q) /\ q.pc = "ret" /\ q.prov = sreq[t].prov /\ SameChain(q, sreq[t])
    BY <1>0, <2>0, SetRet, Zenon
  <2>2. /\ Set(t, q) /\ ConfigSame /\ ssw' = ssw /\ sseats' = sseats /\ sreq[t].pc = "enter"
    BY <1>1, <2>0, Zenon DEF svc_swap_enter, RetOf
  <2>3. ~InGate(q) /\ ~InGate(sreq[t]) /\ sreq[t].pc # "idle"
    BY <2>1, <2>2 DEF InGate
  <2>4. ~sreq[t].seat
    BY <1>0, <2>2 DEF ReqOK, ReqEnd
  <2>5. ReqOK(q) /\ ~q.seat /\ NewCall(q)
    BY <1>0, <2>1, <2>3, <2>4, OverOK, Zenon
  <2> QED
    BY <2>1, <2>2, <2>3, <2>4, <2>5, ReqStep, Zenon
<1>2. CASE svc_swap_enter(t) /\ ~ssw.drain
  <2>0. PICK q : GenOf(q, sreq[t], "pick", ssw.gen)
    BY Zenon DEF GenOf
  <2>1. IsReq(q) /\ q.pc = "pick" /\ q.prov = sreq[t].prov /\ SameChain(q, sreq[t])
    BY <1>0, <2>0, SetGen, Zenon
  <2>2. /\ Set(t, q) /\ ConfigSame /\ ssw' = [ssw EXCEPT !.infl = @ + 1] /\ sseats' = sseats
        /\ sreq[t].pc = "enter"
    BY <1>2, <2>0, Zenon DEF svc_swap_enter, GenOf
  <2>3. GateInv'
    BY <1>0, <1>2, <2>1, <2>2, EnterStep, Zenon
  <2>4. ~sreq[t].seat /\ ~sreq[t].sent /\ sreq[t].model \in SModel
    BY <1>0, <2>2 DEF ReqOK, ReqEnd
  <2>5. ~q.seat /\ ~q.sent /\ q.model \in SModel
    BY <2>1, <2>4, Zenon DEF SameChain
  <2>6. ReqNum(q)
    <3>1. ReqNum(sreq[t])
      BY <1>0, Zenon DEF ReqOK
    <3> QED
      BY <3>1, <2>1, <2>2 DEF ReqNum, SameChain
  <2>7. ReqEnd(q)
    BY <2>1, <2>5 DEF ReqEnd
  <2>8. ChainInv'
    BY <1>0, <2>1, <2>2, <2>4, <2>5, <2>6, <2>7, ChainStay, Zenon DEF ReqOK
  <2> QED
    BY <2>3, <2>8, Zenon DEF SvcInv
<1>3. CASE svc_swap_leave(t)
  <2>0. PICK a, b, c, q :
          /\ LeaveOf(q, sreq[t], "ret", NoProv, a, b, c)
          /\ Set(t, q)
    BY <1>3, Zenon DEF svc_swap_leave, LeaveOf
  <2>1. IsReq(q) /\ q.pc = "ret" /\ q.prov = NoProv /\ SameChain(q, sreq[t])
    BY <1>0, <2>0, SetLeave, Zenon
  <2>2. /\ ConfigSame /\ ssw' = [ssw EXCEPT !.infl = MaxOf(@ - 1, 0)] /\ sseats' = sseats
        /\ sreq[t].pc = "leave"
    BY <1>3, Zenon DEF svc_swap_leave
  <2>3. GateInv'
    BY <1>0, <2>0, <2>1, <2>2, LeaveStep, Zenon
  <2>4. ~sreq[t].seat /\ sreq[t].pc # "idle"
    BY <1>0, <2>2 DEF ReqOK, ReqEnd
  <2>5. ReqOK(q) /\ ~q.seat
    BY <1>0, <2>1, <2>4, OverOK, Zenon
  <2>6. ChainInv'
    BY <1>0, <2>0, <2>1, <2>2, <2>4, <2>5, ChainStay, Zenon
  <2> QED
    BY <2>3, <2>6, Zenon DEF SvcInv
<1> QED
    BY <1>1, <1>2, <1>3, Zenon

(* The response cache answers, or keeps an answer.                         *)
LEMMA CacheStep ==
    ASSUME SvcInv, NEW t \in SReq, NEW hit, cache_lookup(t, hit) \/ cache_store(t)
    PROVE  SvcInv'
<1>0. IsReq(sreq[t])
    BY Basics, Zenon
<1>1. CASE cache_lookup(t, hit)
  <2>0. PICK q : HitOf(q, sreq[t], "leave", "ok", hit)
    BY Zenon DEF HitOf
  <2>1. IsReq(q) /\ q.pc = "leave" /\ q.prov = sreq[t].prov /\ SameChain(q, sreq[t])
    BY <1>0, <2>0, SetHit, Zenon
  <2>2. /\ Set(t, q) /\ ConfigSame /\ ssw' = ssw /\ sseats' = sseats /\ sreq[t].pc = "pick"
    BY <1>1, <2>0, Zenon DEF cache_lookup, HitOf
  <2> QED
    BY <2>1, <2>2, OverStep, Zenon
<1>2. CASE cache_store(t)
  <2>0. PICK q : PcOf(q, sreq[t], "leave")
    BY Zenon DEF PcOf
  <2>1. IsReq(q) /\ q.pc = "leave" /\ q.prov = sreq[t].prov /\ SameChain(q, sreq[t])
    BY <1>0, <2>0, SetPc, Zenon
  <2>2. /\ Set(t, q) /\ ConfigSame /\ ssw' = ssw /\ sseats' = sseats /\ sreq[t].pc = "store"
    BY <1>2, <2>0, Zenon DEF cache_store, PcOf
  <2> QED
    BY <2>1, <2>2, OverStep, Zenon
<1> QED
    BY <1>1, <1>2, Zenon

(* pick_provider asks svc_find_prov, whichever model it settles on.        *)
LEMMA PickFacts ==
    ASSUME NEW t \in SReq, NEW prov, pick_provider(t, prov), prov # NoProv
    PROVE  \E m : prov = svc_find_prov(m)
<1>1. \/ prov \in emb_prov(sreq[t].model)
      \/ prov \in select_provider_via_router(sreq[t].model)
    BY Zenon DEF pick_provider
<1>2. CASE prov \in emb_prov(sreq[t].model)
    BY <1>2, Zenon DEF emb_prov
<1>3. CASE prov \in select_provider_via_router(sreq[t].model)
    BY <1>3, Zenon DEF select_provider_via_router
<1> QED
    BY <1>1, <1>2, <1>3, Zenon

(* pick_provider: the request gets a provider of the registry of the       *)
(* moment, or gives up.                                                    *)
LEMMA PickStep ==
    ASSUME SvcInv, NEW t \in SReq, NEW prov, pick_provider(t, prov)
    PROVE  SvcInv'
<1>0. /\ ChainInv /\ IsReq(sreq[t]) /\ ReqOK(sreq[t]) /\ sregy \in Load
    BY Basics, Zenon
<1>1. /\ ConfigSame /\ ssw' = ssw /\ sseats' = sseats /\ sreq[t].pc = "pick"
    BY Zenon DEF pick_provider
<1>2. CASE prov = NoProv
  <2>0. PICK q : RetOf(q, sreq[t], "leave", "invalid_model")
    BY Zenon DEF RetOf
  <2>1. IsReq(q) /\ q.pc = "leave" /\ q.prov = sreq[t].prov /\ SameChain(q, sreq[t])
    BY <1>0, <2>0, SetRet, Zenon
  <2>2. Set(t, q)
    BY <1>2, <2>0, Zenon DEF pick_provider, RetOf
  <2> QED
    BY <1>1, <2>1, <2>2, OverStep, Zenon
<1>3. CASE prov # NoProv
  <2>1. PICK at, q : /\ PickOf(q, sreq[t], at, prov, sreq[t].model, sroute)
                     /\ Set(t, q) /\ at \in {"call", "try"}
    <3> DEFINE at == IF sreq[t].kind = "emb" THEN "call" ELSE "try"
    <3>1. at \in {"call", "try"}
      BY Zenon
    <3>2. Set(t, [sreq[t] EXCEPT !.pc = at, !.prov = prov, !.cur = sreq[t].model, !.route = sroute])
      BY <1>3, Zenon DEF pick_provider
    <3> HIDE DEF at
    <3> QED
      BY <3>1, <3>2, Zenon DEF PickOf
  <2>a. /\ IsReq(q)
        /\ Reads(q, at, prov, sreq[t].model, sreq[t].hops, sreq[t].calls, sreq[t].seat, sreq[t].sent,
                 sroute, sreq[t].kind, sreq[t].model)
    BY <1>0, <2>1, SetPick, Zenon
  <2>2. /\ IsReq(q) /\ q.pc = at /\ q.prov = prov /\ q.cur = sreq[t].model /\ q.route = sroute
        /\ q.hops = sreq[t].hops /\ q.calls = sreq[t].calls /\ q.seat = sreq[t].seat
        /\ q.sent = sreq[t].sent /\ q.model = sreq[t].model
    BY <2>a, Zenon DEF Reads
  <2>3. prov \in Known /\ prov[1] \in {0, sregy}
    <3>1. PICK m : prov = svc_find_prov(m)
      BY <1>3, PickFacts, Zenon
    <3> QED
      BY <3>1, <1>0, <1>3, FindProv, Zenon
  <2>4. /\ ~sreq[t].seat /\ ~sreq[t].sent /\ sreq[t].model \in SModel
        /\ sreq[t].calls = 0 /\ sreq[t].hops = 0
    BY <1>0, <1>1 DEF ReqOK, ReqEnd, ReqNum
  <2>5. ~q.seat /\ ~q.sent /\ q.cur \in SModels /\ q.model \in SModel /\ q.prov \in Known
    BY <2>2, <2>3, <2>4, Zenon DEF SModels
  <2>6. sroute.depth \in Nat
    BY <1>0, Zenon DEF ChainInv, ConfigInv
  <2>7. ReqNum(q)
    BY <2>1, <2>2, <2>4, <2>6 DEF ReqNum
  <2>8. ReqEnd(q)
    BY <2>5, Zenon DEF ReqEnd
  <2>9. NewCall(q) /\ InGate(q) /\ InGate(sreq[t])
    BY <1>1, <2>1, <2>2 DEF NewCall, InGate
  <2>10. ReqOK(q)
    BY <2>7, <2>8, Zenon DEF ReqOK
  <2>11. InGate(q) => q.prov[1] \in {0, sregy, sreq[t].prov[1]}
    BY <2>2, <2>3
  <2> QED
    BY <1>1, <2>1, <2>2, <2>4, <2>5, <2>9, <2>10, <2>11, ReqStep, Zenon
<1> QED
    BY <1>2, <1>3, Zenon

(* svc_chain_mark notes an endpoint as tried.                              *)
LEMMA MarkFacts ==
    ASSUME NEW r, IsReq(r), NEW e, NEW q, q = svc_chain_mark(r, e)
    PROVE  IsReq(q) /\ q.pc = r.pc /\ q.prov = r.prov /\ SameChain(q, r)
<1>1. CASE q = r
    BY <1>1, Zenon DEF SameChain
<1>2. CASE q # r
  <2>1. TriedOf(q, r, r.tried \cup {e})
    BY <1>2, Zenon DEF svc_chain_mark, TriedOf
  <2> QED
    BY <2>1, SetTried, Zenon
<1> QED
    BY <1>1, <1>2, Zenon

(* next_prov goes on with a candidate, or gives up.                        *)
LEMMA NextStep ==
    ASSUME SvcInv, NEW t \in SReq, next_prov(t)
    PROVE  SvcInv'
<1>0. /\ IsReq(sreq[t]) /\ ReqOK(sreq[t]) /\ sregy \in Load /\ (stable = 0 \/ stable \in Load)
    BY Basics, Zenon
<1>1. /\ ConfigSame /\ ssw' = ssw /\ sseats' = sseats /\ sreq[t].pc = "next"
    BY Zenon DEF next_prov
<1> DEFINE cand == IF Cardinality(sreq[t].tried) >= MaxTried THEN {} ELSE Routed \ sreq[t].tried
<1>2. CASE cand = {}
  <2>1. PICK x, q : RetOf(q, sreq[t], "leave", x) /\ Set(t, q)
    BY <1>2, Zenon DEF next_prov, RetOf
  <2>2. IsReq(q) /\ q.pc = "leave" /\ q.prov = sreq[t].prov /\ SameChain(q, sreq[t])
    BY <1>0, <2>1, SetRet, Zenon
  <2> QED
    BY <1>1, <2>1, <2>2, OverStep, Zenon
<1>3. CASE cand # {}
  <2>1. PICK e \in cand :
          Set(t, IF svc_find_prov(e[2]) = NoProv THEN svc_chain_next(sreq[t], e)
                 ELSE [svc_chain_next(sreq[t], e) EXCEPT !.pc = "try", !.prov = svc_find_prov(e[2])])
    BY <1>3, Zenon DEF next_prov
  <2>2. e[2] \in SModels
    <3>1. e \in Routed
      BY Zenon
    <3> QED
      BY <3>1, <1>0, RoutedModels, Zenon
  <2>3. PICK r1 : r1 = svc_chain_mark(sreq[t], e)
    BY Zenon
  <2>4. IsReq(r1) /\ r1.pc = sreq[t].pc /\ r1.prov = sreq[t].prov /\ SameChain(r1, sreq[t])
    BY <1>0, <2>3, MarkFacts, Zenon
  <2>5. PICK r2 : HopOf(r2, r1, r1.hops + 1, e[2])
    BY Zenon DEF HopOf
  <2>6. r2 = svc_chain_next(sreq[t], e)
    BY <2>3, <2>5, Zenon DEF HopOf, svc_chain_next
  <2>7. /\ IsReq(r2)
        /\ Reads(r2, r1.pc, r1.prov, e[2], r1.hops + 1, r1.calls, r1.seat, r1.sent, r1.route, r1.kind, r1.model)
    BY <2>4, <2>5, SetHop, Zenon
  <2>8. PICK q : /\ IsReq(q) /\ SameChain(q, r2) /\ Set(t, q)
                 /\ \/ q.pc = "next" /\ q.prov = sreq[t].prov
                    \/ q.pc = "try" /\ q.prov = svc_find_prov(e[2]) /\ q.prov # NoProv
    <3>1. CASE svc_find_prov(e[2]) = NoProv
      <4>1. SameChain(r2, r2)
        BY Zenon DEF SameChain
      <4>2. r2.pc = "next" /\ r2.prov = sreq[t].prov
        BY <1>1, <2>4, <2>7, Zenon DEF Reads
      <4>3. Set(t, r2)
        BY <2>1, <2>6, <3>1, Zenon
      <4> QED
        BY <4>1, <4>2, <4>3, <2>7, Zenon
    <3>2. CASE svc_find_prov(e[2]) # NoProv
      <4>1. PICK q : ProvOf(q, r2, "try", svc_find_prov(e[2]))
        BY Zenon DEF ProvOf
      <4>2. IsReq(q) /\ q.pc = "try" /\ q.prov = svc_find_prov(e[2]) /\ SameChain(q, r2)
        BY <2>7, <4>1, SetProv, Zenon
      <4>3. Set(t, q)
        BY <2>1, <2>6, <3>2, <4>1, Zenon DEF ProvOf
      <4> QED
        BY <4>2, <4>3, <3>2, Zenon
    <3> QED
      BY <3>1, <3>2, Zenon
  <2>9. /\ q.cur = e[2] /\ q.hops = sreq[t].hops + 1 /\ q.calls = sreq[t].calls /\ q.seat = sreq[t].seat
        /\ q.sent = sreq[t].sent /\ q.route = sreq[t].route /\ q.model = sreq[t].model
    BY <2>4, <2>7, <2>8, Zenon DEF Reads, SameChain
  <2>10. /\ ~sreq[t].seat /\ ~sreq[t].sent /\ sreq[t].model \in SModel /\ sreq[t].prov \in Known
    BY <1>0, <1>1 DEF ReqOK, ReqEnd
  <2>11. q.prov \in Known /\ q.prov[1] \in {0, sregy, sreq[t].prov[1]}
    <3>1. CASE q.prov = sreq[t].prov
      BY <3>1, <2>10
    <3>2. CASE q.prov = svc_find_prov(e[2]) /\ q.prov # NoProv
      BY <3>2, <1>0, FindProv, Zenon
    <3> QED
      BY <3>1, <3>2, <2>8, Zenon
  <2>12. ~q.seat /\ ~q.sent /\ q.cur \in SModels /\ q.model \in SModel
    BY <2>2, <2>9, <2>10, Zenon
  <2>13. ReqNum(q)
    <3>1. ReqNum(sreq[t])
      BY <1>0, Zenon DEF ReqOK
    <3>2. q.pc \in {"next", "try"}
      BY <2>8, Zenon
    <3> QED
      BY <3>1, <3>2, <1>1, <2>9 DEF ReqNum
  <2>14. ReqOK(q)
    BY <2>11, <2>12, <2>13, Zenon DEF ReqOK, ReqEnd
  <2>15. NewCall(q) /\ InGate(q) /\ InGate(sreq[t])
    BY <1>1, <2>8 DEF NewCall, InGate
  <2> QED
    BY <1>1, <2>8, <2>10, <2>11, <2>12, <2>14, <2>15, ReqStep, Zenon
<1> QED
    BY <1>2, <1>3, Zenon

-----------------------------------------------------------------------------
(* The seats.                                                              *)

(* A known provider is a provider of a load.                               *)
LEMMA KnownFacts ==
    ASSUME NEW prov \in Known
    PROVE  prov = <<prov[1], prov[2]>> /\ prov[1] \in Load /\ prov[2] \in SProv
<1>1. PICK n \in Load : prov \in {<<n, p.name>> : p \in Range(provider_registry_create[n])}
    BY Zenon DEF Known
<1>2. PICK k \in Range(provider_registry_create[n]) : prov = <<n, k.name>>
    BY <1>1, Zenon
<1>3. prov[1] = n /\ prov[2] = k.name
    BY <1>2
<1>4. k.name \in SProv
  <2> DEFINE names(i) == {p.name : p \in Range(provider_registry_create[i])}
  <2>1. k.name \in names(n)
    BY <1>2, Zenon
  <2>2. SProv = UNION {names(i) : i \in Load}
    BY Zenon DEF SProv
  <2> HIDE DEF names
  <2> QED
    BY <2>1, <2>2
<1> QED
    BY <1>2, <1>3, <1>4

(* The calls that hold a seat of a provider are finitely many.             *)
LEMMA SeatedFinite ==
    ASSUME NEW n, NEW p
    PROVE  IsFiniteSet(Seated(n, p))
<1>1. IsFiniteSet(SReq)
    BY LlmServiceAssumption
<1>2. Seated(n, p) \in SUBSET SReq
    BY Zenon DEF Seated
<1> QED
    BY <1>1, <1>2, FS_Subset, Zenon

(* A seat taken or given back: the requests' records change as in          *)
(* ChainStay, and one counter moves with its set.                          *)
LEMMA SeatFrame ==
    ASSUME SType, ChainInv, NEW t \in SReq, NEW q, IsReq(q), Set(t, q), ConfigSame, ReqOK(q),
           NEW n \in Load, NEW p \in SProv, NEW x \in Nat,
           sseats' = [sseats EXCEPT ![n][p] = x], x = Cardinality(Seated(n, p)'),
           x > 0 => \E m \in SModels :
                      svc_gate_limit(<<n, p>>, m) \in Int /\ x <= svc_gate_limit(<<n, p>>, m),
           q.seat => q.prov = <<n, p>>, sreq[t].seat => sreq[t].prov = <<n, p>>
    PROVE  ChainInv'
<1>a. (\A u \in SReq : ReqOK(sreq[u])) /\ ConfigInv /\ SeatInv
    BY Zenon DEF ChainInv
<1>b. /\ sreq'[t] = q
      /\ \A u \in SReq : u # t => sreq'[u] = sreq[u]
    BY SetFacts, Zenon
<1>1. \A u \in SReq : ReqOK(sreq'[u])
    BY <1>a, <1>b, Zenon
<1>2. ConfigInv'
  <2>1. sroute' = sroute /\ sload' = sload /\ stable' = stable /\ srel' = srel
    BY Zenon DEF ConfigSame
  <2> QED
    BY <1>a, <2>1, Zenon DEF ConfigInv, Busy
<1>c. sseats \in [Load -> [SProv -> Nat]]
    BY <1>a, Zenon DEF SeatInv
<1>3. /\ sseats' \in [Load -> [SProv -> Nat]]
      /\ sseats'[n][p] = x
      /\ \A i \in Load, k \in SProv : (i # n \/ k # p) => sseats'[i][k] = sseats[i][k]
    BY <1>c
<1>4. ASSUME NEW i \in Load, NEW k \in SProv, i # n \/ k # p
      PROVE  Seated(i, k)' = Seated(i, k)
  <2>1. <<i, k>> # <<n, p>>
    BY <1>4
  <2>2. ~(sreq[t].seat /\ sreq[t].prov = <<i, k>>) /\ ~(sreq'[t].seat /\ sreq'[t].prov = <<i, k>>)
    BY <2>1, <1>b, Zenon
  <2> QED
    BY <2>2, <1>b, Zenon DEF Seated
<1>5. ASSUME NEW i \in Load, NEW k \in SProv
      PROVE  /\ sseats'[i][k] = Cardinality(Seated(i, k)')
             /\ sseats'[i][k] > 0 => \E m \in SModels :
                    svc_gate_limit(<<i, k>>, m) \in Int /\ sseats'[i][k] <= svc_gate_limit(<<i, k>>, m)
  <2>1. CASE i = n /\ k = p
    BY <2>1, <1>3, Zenon
  <2>2. CASE i # n \/ k # p
    <3>1. sseats'[i][k] = sseats[i][k] /\ Seated(i, k)' = Seated(i, k)
      BY <2>2, <1>3, <1>4, Zenon
    <3> QED
      BY <3>1, <1>a, Zenon DEF SeatInv
  <2> QED
    BY <2>1, <2>2, Zenon
<1>6. SeatInv'
    BY <1>3, <1>5, Zenon DEF SeatInv
<1>7. (\A u \in SReq : ReqOK(sreq[u]))'
    BY <1>1, Zenon DEF ReqOK, ReqNum, ReqEnd
<1> QED
    BY <1>2, <1>6, <1>7, Zenon DEF ChainInv

(* svc_gate_acquire takes a seat while one is free ...                     *)
LEMMA SeatTaken ==
    ASSUME SType, ChainInv, NEW t \in SReq, NEW q, IsReq(q), Set(t, q), ConfigSame, ReqOK(q),
           ~sreq[t].seat, q.seat, NEW prov \in Known, q.prov = prov, NEW m \in SModels,
           sseats' = [sseats EXCEPT ![prov[1]][prov[2]] = @ + 1],
           sseats[prov[1]][prov[2]] < svc_gate_limit(prov, m)
    PROVE  ChainInv'
<1> DEFINE n == prov[1]
           p == prov[2]
           x == sseats[n][p] + 1
<1>1. prov = <<n, p>> /\ n \in Load /\ p \in SProv
    BY KnownFacts, Zenon
<1>2. sseats[n][p] \in Nat /\ sseats[n][p] = Cardinality(Seated(n, p))
    BY <1>1, Zenon DEF ChainInv, SeatInv
<1>3. svc_gate_limit(<<n, p>>, m) \in Int
    BY <1>1, LimitType, Zenon
<1>4. x \in Nat /\ x <= svc_gate_limit(<<n, p>>, m)
  <2>1. sseats[n][p] < svc_gate_limit(<<n, p>>, m)
    BY <1>1, Zenon
  <2> QED
    BY <2>1, <1>2, <1>3
<1>5. x = Cardinality(Seated(n, p)')
  <2>1. /\ sreq'[t] = q
        /\ \A u \in SReq : u # t => sreq'[u] = sreq[u]
    BY SetFacts, Zenon
  <2>2. q.prov = <<n, p>>
    BY <1>1, Zenon
  <2>3. Seated(n, p)' = Seated(n, p) \cup {t} /\ t \notin Seated(n, p)
    BY <2>1, <2>2, Zenon DEF Seated
  <2> DEFINE S == Seated(n, p)
  <2>4. IsFiniteSet(S) /\ t \notin S /\ Seated(n, p)' = S \cup {t} /\ sseats[n][p] = Cardinality(S)
    BY <2>3, <1>2, SeatedFinite, Zenon
  <2> HIDE DEF S
  <2>5. Cardinality(S \cup {t}) = Cardinality(S) + 1
    BY <2>4, FS_AddElement
  <2> QED
    BY <2>4, <2>5, Zenon
<1>6. q.seat => q.prov = <<n, p>>
    BY <1>1, Zenon
<1>7. sseats' = [sseats EXCEPT ![n][p] = x]
    BY Zenon
<1> HIDE DEF n, p, x
<1> QED
    BY <1>1, <1>3, <1>4, <1>5, <1>6, <1>7, SeatFrame, Zenon

(* ... and attempt_run gives it back.                                      *)
LEMMA SeatGiven ==
    ASSUME SType, ChainInv, NEW t \in SReq, NEW q, IsReq(q), Set(t, q), ConfigSame, ReqOK(q),
           sreq[t].seat, ~q.seat, NEW prov \in Known, sreq[t].prov = prov,
           sseats' = [sseats EXCEPT ![prov[1]][prov[2]] = @ - 1]
    PROVE  ChainInv'
<1> DEFINE n == prov[1]
           p == prov[2]
           x == sseats[n][p] - 1
<1>1. prov = <<n, p>> /\ n \in Load /\ p \in SProv
    BY KnownFacts, Zenon
<1>2. /\ sseats[n][p] \in Nat /\ sseats[n][p] = Cardinality(Seated(n, p))
      /\ sseats[n][p] > 0 => \E m \in SModels :
            svc_gate_limit(<<n, p>>, m) \in Int /\ sseats[n][p] <= svc_gate_limit(<<n, p>>, m)
    BY <1>1, Zenon DEF ChainInv, SeatInv
<1>3. x = Cardinality(Seated(n, p)') /\ x \in Nat
  <2>1. /\ sreq'[t] = q
        /\ \A u \in SReq : u # t => sreq'[u] = sreq[u]
    BY SetFacts, Zenon
  <2>2. sreq[t].prov = <<n, p>>
    BY <1>1, Zenon
  <2>3. Seated(n, p)' = Seated(n, p) \ {t} /\ t \in Seated(n, p)
    BY <2>1, <2>2, Zenon DEF Seated
  <2> DEFINE S == Seated(n, p)
  <2>4. IsFiniteSet(S) /\ t \in S /\ Seated(n, p)' = S \ {t} /\ sseats[n][p] = Cardinality(S)
    BY <2>3, <1>2, SeatedFinite, Zenon
  <2> HIDE DEF S
  <2>5. IsFiniteSet(S \ {t}) /\ Cardinality(S \ {t}) = Cardinality(S) - 1
    BY <2>4, FS_RemoveElement
  <2>6. Cardinality(S \ {t}) \in Nat
    BY <2>5, FS_CardinalityType
  <2> QED
    BY <2>4, <2>5, <2>6, Zenon
<1>4. x > 0 => \E m \in SModels :
         svc_gate_limit(<<n, p>>, m) \in Int /\ x <= svc_gate_limit(<<n, p>>, m)
  <2>1. sseats[n][p] > 0
    BY <1>2, <1>3
  <2>2. PICK m \in SModels :
          svc_gate_limit(<<n, p>>, m) \in Int /\ sseats[n][p] <= svc_gate_limit(<<n, p>>, m)
    BY <1>2, <2>1, Zenon
  <2>3. x <= svc_gate_limit(<<n, p>>, m)
    BY <1>2, <2>2
  <2> QED
    BY <2>2, <2>3, Zenon
<1>5. sreq[t].seat => sreq[t].prov = <<n, p>>
    BY <1>1, Zenon
<1>6. sseats' = [sseats EXCEPT ![n][p] = x]
    BY Zenon
<1> HIDE DEF n, p, x
<1> QED
    BY <1>1, <1>3, <1>4, <1>5, <1>6, SeatFrame, Zenon

(* chain_gate: breaker and seats admit the call, or the chain moves on.    *)
LEMMA GateStep ==
    ASSUME SvcInv, NEW t \in SReq, NEW b, chain_gate(t, b)
    PROVE  SvcInv'
<1> DEFINE auto == sreq[t].route.mode = "auto"
           r0 == IF auto THEN svc_chain_mark(sreq[t], <<sreq[t].prov[2], sreq[t].cur>>) ELSE sreq[t]
<1>0. /\ GateInv /\ ChainInv /\ SType /\ IsReq(sreq[t]) /\ ReqOK(sreq[t])
    BY Basics, Zenon
<1>a. PICK r : r = r0
    BY Zenon
<1>1. /\ r.pc = "try" /\ ConfigSame /\ ssw' = ssw
      /\ \/ /\ svc_gate_acquire(r.prov, r.cur)
            /\ Set(t, [r EXCEPT !.pc = "call", !.seat = svc_gate_limit(r.prov, r.cur) # 0, !.calls = @ + 1])
            /\ sseats' = IF svc_gate_limit(r.prov, r.cur) # 0
                         THEN [sseats EXCEPT ![r.prov[1]][r.prov[2]] = @ + 1] ELSE sseats
         \/ /\ Set(t, IF auto THEN [r EXCEPT !.pc = "next"] ELSE [r EXCEPT !.pc = "leave", !.ret = "busy"])
            /\ sseats' = sseats
    BY <1>a, Zenon DEF chain_gate
<1>2. IsReq(r) /\ r.pc = sreq[t].pc /\ r.prov = sreq[t].prov /\ SameChain(r, sreq[t])
  <2>1. CASE auto
    <3>1. PICK e : r = svc_chain_mark(sreq[t], e)
      BY <2>1, <1>a, Zenon
    <3>2. PICK s : s = sreq[t]
      BY Zenon
    <3>3. IsReq(s) /\ r = svc_chain_mark(s, e)
      BY <3>1, <3>2, <1>0, Zenon
    <3>4. IsReq(r) /\ r.pc = s.pc /\ r.prov = s.prov /\ SameChain(r, s)
      BY <3>3, MarkFacts, Zenon
    <3> QED
      BY <3>2, <3>4, Zenon
  <2>2. CASE ~auto
    BY <2>2, <1>0, <1>a, Zenon DEF SameChain
  <2> QED
    BY <2>1, <2>2, Zenon
<1> HIDE DEF r0
<1>3. /\ ReqNum(sreq[t]) /\ ReqEnd(sreq[t]) /\ sreq[t].pc = "try"
    BY <1>0, <1>1, <1>2, Zenon DEF ReqOK
<1>4. /\ ~sreq[t].seat /\ ~sreq[t].sent /\ sreq[t].cur \in SModels /\ sreq[t].prov \in Known
      /\ sreq[t].model \in SModel /\ InGate(sreq[t])
    BY <1>3 DEF ReqEnd, InGate
<1>5. /\ r.cur = sreq[t].cur /\ r.hops = sreq[t].hops /\ r.calls = sreq[t].calls /\ r.seat = sreq[t].seat
      /\ r.sent = sreq[t].sent /\ r.route = sreq[t].route /\ r.model = sreq[t].model
    BY <1>2, Zenon DEF SameChain
<1>6. ASSUME svc_gate_acquire(r.prov, r.cur),
             Set(t, [r EXCEPT !.pc = "call", !.seat = svc_gate_limit(r.prov, r.cur) # 0, !.calls = @ + 1]),
             sseats' = IF svc_gate_limit(r.prov, r.cur) # 0
                       THEN [sseats EXCEPT ![r.prov[1]][r.prov[2]] = @ + 1] ELSE sseats
      PROVE  SvcInv'
  <2> DEFINE gated == svc_gate_limit(r.prov, r.cur) # 0
  <2>1. PICK q : CallOf(q, r, "call", gated, r.calls + 1) /\ Set(t, q)
    BY <1>6, Zenon DEF CallOf
  <2>2. IsReq(q) /\ Reads(q, "call", r.prov, r.cur, r.hops, r.calls + 1, gated, r.sent, r.route, r.kind, r.model)
    BY <1>2, <2>1, SetCall, Zenon
  <2>3. /\ q.pc = "call" /\ q.prov = sreq[t].prov /\ q.cur = sreq[t].cur /\ q.hops = sreq[t].hops
        /\ q.calls = sreq[t].calls + 1 /\ q.sent = sreq[t].sent /\ q.route = sreq[t].route
        /\ q.model = sreq[t].model
    BY <1>2, <1>5, <2>2, Zenon DEF Reads
  <2>4. q.seat <=> gated
    BY <2>2, Zenon DEF Reads
  <2>5. ReqNum(q)
    <3>1. /\ sreq[t].calls \in Nat /\ sreq[t].hops \in Nat /\ sreq[t].route.depth \in Nat
          /\ sreq[t].calls <= sreq[t].hops /\ sreq[t].calls <= sreq[t].route.depth
      BY <1>3, Zenon DEF ReqNum
    <3>2. PICK c \in Nat, h \in Nat, d \in Nat :
               c = sreq[t].calls /\ h = sreq[t].hops /\ d = sreq[t].route.depth
      BY <3>1, Zenon
    <3>3. c <= h /\ c <= d
      BY <3>1, <3>2, Zenon
    <3>4. c + 1 \in Nat /\ c + 1 <= h + 1 /\ c + 1 <= d + 1
      BY <3>3
    <3>5. /\ q.calls \in Nat /\ q.hops \in Nat /\ q.route.depth \in Nat
          /\ q.calls <= q.hops + 1 /\ q.calls <= q.route.depth + 1
      BY <3>2, <3>4, <2>3, Zenon
    <3>6. q.pc \notin {"idle", "peek", "enter", "pick", "try", "next"}
      BY <2>3
    <3> QED
      BY <3>5, <3>6, Zenon DEF ReqNum
  <2>6. ReqEnd(q)
    BY <1>4, <2>3, Zenon DEF ReqEnd
  <2>7. ReqOK(q)
    BY <2>5, <2>6, Zenon DEF ReqOK
  <2>8. NewCall(q) /\ InGate(q)
    BY <2>3 DEF NewCall, InGate
  <2>9. q.prov[1] \in {0, sregy, sreq[t].prov[1]}
    BY <2>3
  <2>10. CASE gated
    <3>1. GateInv'
      BY <1>0, <1>1, <1>4, <2>1, <2>2, <2>8, <2>9, StayStep, Zenon
    <3>2. /\ sseats' = [sseats EXCEPT ![q.prov[1]][q.prov[2]] = @ + 1]
          /\ sseats[q.prov[1]][q.prov[2]] < svc_gate_limit(q.prov, q.cur)
      BY <1>2, <1>5, <1>6, <2>3, <2>10, Zenon DEF svc_gate_acquire
    <3>3. q.prov \in Known /\ q.cur \in SModels /\ q.seat
      BY <1>4, <2>3, <2>4, <2>10, Zenon
    <3>4. ChainInv'
      BY <1>0, <1>1, <1>4, <2>1, <2>2, <2>7, <3>2, <3>3, SeatTaken, Zenon
    <3> QED
      BY <3>1, <3>4, Zenon DEF SvcInv
  <2>11. CASE ~gated
    <3>1. sseats' = sseats /\ ~q.seat
      BY <1>6, <2>4, <2>11, Zenon
    <3> QED
      BY <1>1, <1>4, <2>1, <2>2, <2>7, <2>8, <2>9, <3>1, ReqStep, Zenon
  <2> QED
    BY <2>10, <2>11, Zenon
<1>7. ASSUME Set(t, IF auto THEN [r EXCEPT !.pc = "next"] ELSE [r EXCEPT !.pc = "leave", !.ret = "busy"]),
             sseats' = sseats
      PROVE  SvcInv'
  <2>1. CASE auto
    <3>1. PICK q : PcOf(q, r, "next") /\ Set(t, q)
      BY <1>7, <2>1, Zenon DEF PcOf
    <3>2. IsReq(q) /\ q.pc = "next" /\ q.prov = r.prov /\ SameChain(q, r)
      BY <1>2, <3>1, SetPc, Zenon
    <3>3. /\ q.prov = sreq[t].prov /\ q.cur = sreq[t].cur /\ q.hops = sreq[t].hops
          /\ q.calls = sreq[t].calls /\ q.sent = sreq[t].sent /\ q.route = sreq[t].route
          /\ q.model = sreq[t].model /\ q.seat = sreq[t].seat
      BY <1>2, <1>5, <3>2, Zenon DEF SameChain
    <3>4. ReqNum(q)
      BY <1>3, <3>2, <3>3 DEF ReqNum
    <3>5. ~q.seat /\ ReqEnd(q)
      BY <1>4, <3>3, Zenon DEF ReqEnd
    <3>6. ReqOK(q)
      BY <3>4, <3>5, Zenon DEF ReqOK
    <3>7. NewCall(q) /\ InGate(q)
      BY <3>2 DEF NewCall, InGate
    <3>8. q.prov[1] \in {0, sregy, sreq[t].prov[1]}
      BY <3>3
    <3> QED
      BY <1>1, <1>4, <1>7, <3>1, <3>2, <3>5, <3>6, <3>7, <3>8, ReqStep, Zenon
  <2>2. CASE ~auto
    <3>1. PICK q : RetOf(q, r, "leave", "busy") /\ Set(t, q)
      BY <1>7, <2>2, Zenon DEF RetOf
    <3>2. IsReq(q) /\ q.pc = "leave" /\ q.prov = r.prov /\ SameChain(q, r)
      BY <1>2, <3>1, SetRet, Zenon
    <3>3. SameChain(q, sreq[t]) /\ q.prov = sreq[t].prov
      BY <1>2, <3>2, Zenon DEF SameChain
    <3> QED
      BY <1>1, <1>3, <1>7, <3>1, <3>2, <3>3, OverStep, Zenon
  <2> QED
    BY <2>1, <2>2, Zenon
<1> QED
    BY <1>1, <1>6, <1>7, Zenon

(* attempt_run: the upstream call ends, and so does the chain, or it moves *)
(* on.                                                                     *)
LEMMA AttemptStep ==
    ASSUME SvcInv, NEW t \in SReq, NEW err, NEW sent, NEW left, attempt_run(t, err, sent, left)
    PROVE  SvcInv'
<1>0. /\ GateInv /\ ChainInv /\ SType /\ IsReq(sreq[t]) /\ ReqNum(sreq[t]) /\ ReqEnd(sreq[t])
    BY Basics, Zenon DEF ReqOK
<1>1. sreq[t].pc = "call" /\ ConfigSame /\ ssw' = ssw
    BY Zenon DEF attempt_run
<1>2. /\ sreq[t].cur \in SModels /\ sreq[t].prov \in Known /\ sreq[t].model \in SModel /\ InGate(sreq[t])
    BY <1>0, <1>1 DEF ReqEnd, InGate
<1> DEFINE x == sreq[t].sent \/ sent
           y == IF sreq[t].first = "none" /\ err # "ok" THEN err ELSE sreq[t].first
<1>3. PICK r : r = [sreq[t] EXCEPT !.seat = FALSE, !.sent = x, !.first = y]
    BY Zenon
<1>4. PICK q : /\ Set(t, q)
               /\ \/ \E a \in {"store", "leave"} : q = [r EXCEPT !.pc = a, !.ret = "ok", !.resp = <<t, sreq[t].att>>]
                  \/ q = [r EXCEPT !.pc = "next"] /\ svc_chain_retry(sreq[t], err, left) /\ ~r.sent
                  \/ \E c : q = [r EXCEPT !.pc = "leave", !.ret = c]
  <2>1. CASE err = "ok"
    <3> DEFINE a == IF sreq[t].kind = "complete" THEN "store" ELSE "leave"
    <3>1. Set(t, [r EXCEPT !.pc = a, !.ret = "ok", !.resp = <<t, sreq[t].att>>])
      BY <1>3, <2>1, Zenon DEF attempt_run
    <3>2. a \in {"store", "leave"}
      BY Zenon
    <3> HIDE DEF a
    <3> QED
      BY <3>1, <3>2, Zenon
  <2>2. CASE err # "ok" /\ sreq[t].kind # "emb" /\ svc_chain_retry(sreq[t], err, left) /\ ~r.sent
    <3>1. Set(t, [r EXCEPT !.pc = "next"])
      BY <1>3, <2>2, Zenon DEF attempt_run
    <3> QED
      BY <3>1, <2>2, Zenon
  <2>3. CASE /\ err # "ok"
             /\ ~(err # "ok" /\ sreq[t].kind # "emb" /\ svc_chain_retry(sreq[t], err, left) /\ ~r.sent)
    <3>1. \E c : Set(t, [r EXCEPT !.pc = "leave", !.ret = c])
      BY <1>3, <2>3, Zenon DEF attempt_run
    <3> QED
      BY <3>1, Zenon
  <2> QED
    BY <2>1, <2>2, <2>3, Zenon
<1>5. TryOf(r, sreq[t], FALSE, x, y)
    BY <1>3, Zenon DEF TryOf
<1> HIDE DEF x, y
<1>6. /\ IsReq(r)
      /\ Reads(r, sreq[t].pc, sreq[t].prov, sreq[t].cur, sreq[t].hops, sreq[t].calls, FALSE, x,
               sreq[t].route, sreq[t].kind, sreq[t].model)
    BY <1>0, <1>5, SetTry, Zenon
<1>7. /\ r.prov = sreq[t].prov /\ r.cur = sreq[t].cur /\ r.hops = sreq[t].hops
      /\ r.calls = sreq[t].calls /\ r.route = sreq[t].route /\ r.model = sreq[t].model /\ ~r.seat
    BY <1>6, Zenon DEF Reads
<1>8. /\ IsReq(q) /\ q.prov = r.prov /\ SameChain(q, r)
      /\ \/ q.pc \in {"store", "leave"}
         \/ q.pc = "next" /\ svc_chain_retry(sreq[t], err, left) /\ ~r.sent
  <2>1. ASSUME NEW a \in {"store", "leave"}, q = [r EXCEPT !.pc = a, !.ret = "ok", !.resp = <<t, sreq[t].att>>]
        PROVE  IsReq(q) /\ q.pc = a /\ q.prov = r.prov /\ SameChain(q, r)
    <3>1. HitOf(q, r, a, "ok", <<t, sreq[t].att>>)
      BY <2>1, Zenon DEF HitOf
    <3> QED
      BY <3>1, <1>6, SetHit, Zenon
  <2>2. ASSUME q = [r EXCEPT !.pc = "next"]
        PROVE  IsReq(q) /\ q.pc = "next" /\ q.prov = r.prov /\ SameChain(q, r)
    <3>1. PcOf(q, r, "next")
      BY <2>2, Zenon DEF PcOf
    <3> QED
      BY <3>1, <1>6, SetPc, Zenon
  <2>3. ASSUME NEW c, q = [r EXCEPT !.pc = "leave", !.ret = c]
        PROVE  IsReq(q) /\ q.pc = "leave" /\ q.prov = r.prov /\ SameChain(q, r)
    <3>1. RetOf(q, r, "leave", c)
      BY <2>3, Zenon DEF RetOf
    <3> QED
      BY <3>1, <1>6, SetRet, Zenon
  <2> QED
    BY <1>4, <2>1, <2>2, <2>3, Zenon
<1>9. /\ q.prov = sreq[t].prov /\ q.cur = sreq[t].cur /\ q.hops = sreq[t].hops
      /\ q.calls = sreq[t].calls /\ q.route = sreq[t].route /\ q.model = sreq[t].model /\ ~q.seat
      /\ q.sent = r.sent
    BY <1>7, <1>8, Zenon DEF SameChain
<1>10. ReqNum(q)
  <2>1. q.pc = "next" => sreq[t].hops < sreq[t].route.depth
    BY <1>8 DEF svc_chain_retry
  <2>2. q.pc \in {"store", "leave", "next"}
    BY <1>8, Zenon
  <2> QED
    BY <1>0, <1>1, <1>9, <2>1, <2>2 DEF ReqNum
<1>11. q.pc = "next" => ~q.sent
    BY <1>8, <1>9
<1>12. q.pc \notin {"idle", "peek", "enter", "pick", "try", "call"} /\ InGate(q) /\ NewCall(q)
    BY <1>8 DEF InGate, NewCall
<1>13. ReqEnd(q)
    BY <1>2, <1>9, <1>11, <1>12, Zenon DEF ReqEnd
<1>14. ReqOK(q)
    BY <1>10, <1>13, Zenon DEF ReqOK
<1>15. q.prov[1] \in {0, sregy, sreq[t].prov[1]}
    BY <1>9
<1>16. CASE sreq[t].seat
  <2>1. GateInv'
    BY <1>0, <1>1, <1>2, <1>4, <1>8, <1>12, <1>15, StayStep, Zenon
  <2>2. sseats' = [sseats EXCEPT ![sreq[t].prov[1]][sreq[t].prov[2]] = @ - 1]
    BY <1>16, Zenon DEF attempt_run
  <2>3. ChainInv'
    BY <1>0, <1>1, <1>2, <1>4, <1>8, <1>9, <1>14, <1>16, <2>2, SeatGiven, Zenon
  <2> QED
    BY <2>1, <2>3, Zenon DEF SvcInv
<1>17. CASE ~sreq[t].seat
  <2>1. sseats' = sseats
    BY <1>17, Zenon DEF attempt_run
  <2> QED
    BY <1>1, <1>2, <1>4, <1>8, <1>9, <1>12, <1>14, <1>15, <1>17, <2>1, ReqStep, Zenon
<1> QED
    BY <1>16, <1>17, Zenon

-----------------------------------------------------------------------------
(* The steps of a reload.                                                  *)

(* One reload thread's record changes.                                     *)
LEMMA SetRFacts ==
    ASSUME SType, NEW l \in Reloader, NEW r \in RelType, SetR(l, r)
    PROVE  /\ srel' \in [Reloader -> RelType] /\ srel'[l] = r
           /\ \A k \in Reloader : k # l => srel'[k] = srel[k]
<1>1. srel \in [Reloader -> RelType]
    BY Zenon DEF SType
<1>2. srel' = [srel EXCEPT ![l] = r]
    BY Zenon DEF SetR
<1> HIDE DEF RelType
<1> QED
    BY <1>1, <1>2

(* A reload leaves the requests where they are.                            *)
LEMMA ReloadChain ==
    ASSUME ChainInv, RequestsSame, ConfigInv'
    PROVE  ChainInv'
<1>1. sreq' = sreq /\ sseats' = sseats
    BY Zenon DEF RequestsSame
<1>2. SeatInv'
    BY <1>1, Zenon DEF ChainInv, SeatInv, Seated
<1>3. (\A u \in SReq : ReqOK(sreq[u]))'
    BY <1>1, Zenon DEF ChainInv, ReqOK, ReqNum, ReqEnd
<1> QED
    BY <1>2, <1>3, Zenon DEF ChainInv

(* What requests hold survives a reload step that lets go of no registry,  *)
(* or that happens while nobody is inside the gate.                        *)
LEMMA ReloadHold ==
    ASSUME GateInv, RequestsSame, ssw'.infl = ssw.infl,
           Held \subseteq Held' \/ \A t \in SReq : ~Inside(t)
    PROVE  CountInv' /\ HoldInv'
<1>1. sreq' = sreq
    BY Zenon DEF RequestsSame
<1>2. \A t \in SReq : Inside(t)' <=> Inside(t)
    BY <1>1, Zenon DEF Inside
<1>3. CountInv'
  <2>1. {t \in SReq : Inside(t)'} = {t \in SReq : Inside(t)}
    BY <1>2, Zenon
  <2> QED
    BY <2>1, Zenon DEF GateInv, CountInv
<1>4. HoldInv'
    BY <1>1, <1>2, Zenon DEF GateInv, HoldInv, NewCall
<1> QED
    BY <1>3, <1>4, Zenon

(* What the invariant says to a reload thread.                             *)
LEMMA RelBasics ==
    ASSUME SvcInv, NEW l \in Reloader
    PROVE  /\ GateInv /\ ChainInv /\ SType /\ OwnInv /\ DrainInv /\ ConfigInv
           /\ srel[l] \in RelType
           /\ sload \in Nat /\ sregy \in 1..sload /\ sfreed \in SUBSET (1..sload)
           /\ sretired \in Seq(1..sload) /\ Range(sretired) \in SUBSET (1..sload)
           /\ ssw \in [gen : Nat, drain : BOOLEAN, infl : Nat]
           /\ Load = 1..Len(Boot) /\ Len(Boot) \in Nat
<1>1. GateInv /\ ChainInv /\ SType /\ OwnInv /\ DrainInv /\ ConfigInv
    BY Zenon DEF SvcInv, GateInv, ChainInv
<1>2. /\ sload \in Nat /\ sregy \in 1..sload /\ sfreed \in SUBSET (1..sload)
      /\ sretired \in Seq(1..sload) /\ ssw \in [gen : Nat, drain : BOOLEAN, infl : Nat]
      /\ srel \in [Reloader -> RelType]
    BY <1>1, Zenon DEF SType
<1>3. Range(sretired) \in SUBSET (1..sload)
    BY <1>2 DEF Range
<1>4. Load = 1..Len(Boot) /\ Len(Boot) \in Nat
    BY LlmServiceAssumption
<1>5. srel[l] \in RelType
    BY <1>2, Zenon
<1> QED
    BY <1>1, <1>2, <1>3, <1>4, <1>5, Zenon

(* The record of a reload thread that does nothing.                        *)
LEMMA RIdleType ==
    RIdle \in RelType /\ RIdle.pc = "idle"
BY DEF RIdle, RelType

(* reload_read builds a registry with a new number.                        *)
LEMMA ReadStep ==
    ASSUME SvcInv, NEW l \in Reloader, reload_read(l)
    PROVE  SvcInv'
<1>0. /\ GateInv /\ ChainInv /\ SType /\ OwnInv /\ DrainInv /\ ConfigInv
      /\ sload \in Nat /\ sregy \in 1..sload /\ sfreed \in SUBSET (1..sload)
      /\ sretired \in Seq(1..sload) /\ Range(sretired) \in SUBSET (1..sload)
      /\ Len(Boot) \in Nat
    BY RelBasics, Zenon
<1>1. /\ srel[l].pc = "idle" /\ sload < Len(Boot) /\ sload' = sload + 1 /\ RequestsSame
      /\ ssw' = ssw /\ sregy' = sregy /\ sroute' = sroute /\ stable' = stable /\ sfreed' = sfreed
      /\ sretired' = sretired /\ sforced' = sforced
    BY Zenon DEF reload_read
<1>2. PICK r \in RelType :
        /\ SetR(l, r) /\ r.pc \in {"idle", "built"} /\ (r.pc = "built" => r.nreg = sload + 1)
  <2> DEFINE q == [RIdle EXCEPT !.pc = "built", !.nreg = sload + 1]
  <2>0. sload + 1 \in Nat
    BY <1>0
  <2>1. q \in RelType /\ q.pc = "built" /\ q.nreg = sload + 1
    <3>1. q \in RelType
      BY <2>0, RIdleType, Zenon DEF RelType
    <3>2. q.pc = "built" /\ q.nreg = sload + 1
      BY RIdleType DEF RelType
    <3> QED
      BY <3>1, <3>2, Zenon
  <2>2. SetR(l, RIdle) \/ SetR(l, q)
    BY Zenon DEF reload_read
  <2>3. RIdle.pc # "built"
    BY RIdleType
  <2> HIDE DEF q
  <2> QED
    BY <2>1, <2>2, <2>3, RIdleType, Zenon
<1>3. /\ srel' \in [Reloader -> RelType] /\ srel'[l] = r
      /\ \A k \in Reloader : k # l => srel'[k] = srel[k]
    BY <1>0, <1>2, SetRFacts, Zenon
<1>4. SType'
  <2>1. /\ sload' \in Nat /\ sregy' \in 1..sload' /\ sfreed' \in SUBSET (1..sload')
        /\ sretired' \in Seq(1..sload')
    BY <1>0, <1>1
  <2>2. sreq' = sreq
    BY <1>1, Zenon DEF RequestsSame
  <2> QED
    BY <1>0, <1>1, <1>3, <2>1, <2>2, Zenon DEF SType
<1>5. \A k \in Reloader : Busy(k)' =>
         \/ k # l /\ Busy(k) /\ Owned(k)' = Owned(k) /\ srel'[k].nreg = srel[k].nreg
         \/ k = l /\ Owned(k)' = sload + 1 /\ srel'[k].nreg = sload + 1
  <2>1. SUFFICES ASSUME NEW k \in Reloader, Busy(k)'
                 PROVE  \/ k # l /\ Busy(k) /\ Owned(k)' = Owned(k) /\ srel'[k].nreg = srel[k].nreg
                        \/ k = l /\ Owned(k)' = sload + 1 /\ srel'[k].nreg = sload + 1
    BY Zenon
  <2>2. CASE k = l
    BY <2>1, <2>2, <1>2, <1>3, Zenon DEF Busy, Owned
  <2>3. CASE k # l
    BY <2>1, <2>3, <1>3, Zenon DEF Busy, Owned
  <2> QED
    BY <2>2, <2>3, Zenon
<1>6. OwnInv'
  <2>1. /\ sregy' \notin sfreed' /\ sregy' \notin Range(sretired')
        /\ \A n \in Range(sretired') : n \notin sfreed'
    BY <1>0, <1>1, Zenon DEF OwnInv
  <2>2. \A k \in Reloader : Busy(k) => Owned(k) \in 1..sload
    BY <1>0, Zenon DEF OwnInv
  <2>3. ASSUME NEW k \in Reloader, Busy(k)'
        PROVE  /\ Owned(k)' \in 1..sload' /\ Owned(k)' # sregy'
               /\ Owned(k)' \notin sfreed' /\ Owned(k)' \notin Range(sretired')
    <3>1. CASE k # l /\ Busy(k) /\ Owned(k)' = Owned(k)
      <4>1. /\ Owned(k) \in 1..sload /\ Owned(k) # sregy
            /\ Owned(k) \notin sfreed /\ Owned(k) \notin Range(sretired)
        BY <3>1, <1>0, Zenon DEF OwnInv
      <4>2. 1..sload \subseteq 1..sload'
        BY <1>0, <1>1
      <4> QED
        BY <3>1, <4>1, <4>2, <1>1, Zenon
    <3>2. CASE Owned(k)' = sload + 1
      BY <3>2, <1>0, <1>1
    <3> QED
      BY <3>1, <3>2, <2>3, <1>5, Zenon
  <2>4. ASSUME NEW k \in Reloader, NEW j \in Reloader, Busy(k)', Busy(j)', Owned(k)' = Owned(j)'
        PROVE  k = j
    <3>1. sload + 1 \notin 1..sload
      BY <1>0
    <3>2. Busy(k) /\ Busy(j) /\ Owned(k) = Owned(j) => k = j
      BY <1>0, Zenon DEF OwnInv
    <3> QED
      BY <2>2, <2>4, <3>1, <3>2, <1>5, Zenon
  <2> QED
    BY <2>1, <2>3, <2>4, Zenon DEF OwnInv
<1>7. \A k \in Reloader : (Drains(k)' => k # l) /\ (Quiet(k)' => k # l) /\ (Grace(k) => k # l)
  <2>1. r.pc \notin {"drain", "swap", "commit"} /\ srel[l].pc \notin {"commit", "dispose"}
    BY <1>1, <1>2
  <2> QED
    BY <2>1, <1>3, Zenon DEF Drains, Quiet, Grace
<1>8. DrainInv'
    BY <1>0, <1>1, <1>3, <1>7, Zenon DEF DrainInv, Drains, Quiet
<1>9. Held \subseteq Held'
    BY <1>1, <1>3, <1>7, Zenon DEF Held, Grace
<1>10. CountInv' /\ HoldInv'
    BY <1>0, <1>1, <1>9, ReloadHold, Zenon
<1>11. ConfigInv'
  <2>1. sroute.depth \in Nat /\ stable \in 0..sload /\ \A k \in Reloader : Busy(k) => srel[k].nreg \in 1..sload
    BY <1>0, Zenon DEF ConfigInv
  <2>2. sroute'.depth \in Nat
    BY <1>1, <2>1, Zenon
  <2>3. sload' <= Len(Boot) /\ stable' \in 0..sload' /\ 1..sload \subseteq 1..sload' /\ sload + 1 \in 1..sload'
    BY <1>0, <1>1, <2>1
  <2>4. \A k \in Reloader : Busy(k)' => srel'[k].nreg \in 1..sload'
    BY <1>5, <2>1, <2>3, Zenon
  <2> QED
    BY <2>2, <2>3, <2>4, Zenon DEF ConfigInv
<1>12. ChainInv'
    BY <1>0, <1>1, <1>11, ReloadChain, Zenon
<1> QED
    BY <1>4, <1>6, <1>8, <1>10, <1>12, Zenon DEF SvcInv, GateInv

(* A reload moves on with the registry it owns.                            *)
LEMMA OwnSame ==
    ASSUME OwnInv, NEW l \in Reloader, Busy(l), Busy(l)', Owned(l)' = Owned(l),
           \A k \in Reloader : k # l => srel'[k] = srel[k],
           sregy' = sregy, sfreed' = sfreed, sretired' = sretired, sload' = sload
    PROVE  OwnInv'
<1>1. \A k \in Reloader : (Busy(k)' <=> Busy(k)) /\ Owned(k)' = Owned(k)
  <2> SUFFICES ASSUME NEW k \in Reloader PROVE (Busy(k)' <=> Busy(k)) /\ Owned(k)' = Owned(k)
    BY Zenon
  <2>1. CASE k = l
    BY <2>1, Zenon
  <2>2. CASE k # l
    BY <2>2, Zenon DEF Busy, Owned
  <2> QED
    BY <2>1, <2>2, Zenon
<1>2. /\ sregy' \notin sfreed' /\ sregy' \notin Range(sretired')
      /\ \A n \in Range(sretired') : n \notin sfreed'
    BY Zenon DEF OwnInv
<1>3. ASSUME NEW k \in Reloader, Busy(k)'
      PROVE  /\ Owned(k)' \in 1..sload' /\ Owned(k)' # sregy'
             /\ Owned(k)' \notin sfreed' /\ Owned(k)' \notin Range(sretired')
  <2>1. Busy(k) /\ Owned(k)' = Owned(k)
    BY <1>1, <1>3, Zenon
  <2>2. /\ Owned(k) \in 1..sload /\ Owned(k) # sregy
        /\ Owned(k) \notin sfreed /\ Owned(k) \notin Range(sretired)
    BY <2>1, Zenon DEF OwnInv
  <2> QED
    BY <2>1, <2>2, Zenon
<1>4. \A k, j \in Reloader : Busy(k)' /\ Busy(j)' /\ Owned(k)' = Owned(j)' => k = j
    BY <1>1, Zenon DEF OwnInv
<1> QED
    BY <1>2, <1>3, <1>4, Zenon DEF OwnInv

(* A reload destroys the registry it owns, which no request holds.         *)
LEMMA DropStep ==
    ASSUME SvcInv, NEW l \in Reloader, Busy(l), ~Grace(l), SetR(l, RIdle),
           sfreed' = sfreed \cup {Owned(l)}, ssw' = ssw, RequestsSame,
           UNCHANGED <<sregy, sroute, sdef, stable, sretired, sforced, sload>>
    PROVE  SvcInv'
<1>0. /\ GateInv /\ ChainInv /\ SType /\ OwnInv /\ DrainInv /\ ConfigInv
      /\ sfreed \in SUBSET (1..sload)
    BY RelBasics, Zenon
<1>1. /\ sregy' = sregy /\ sroute' = sroute /\ stable' = stable
      /\ sretired' = sretired /\ sforced' = sforced /\ sload' = sload
    BY Zenon
<1>2. /\ srel' \in [Reloader -> RelType] /\ srel'[l] = RIdle
      /\ \A k \in Reloader : k # l => srel'[k] = srel[k]
    BY <1>0, <1>1, SetRFacts, RIdleType, Zenon
<1>4. /\ Owned(l) \in 1..sload /\ Owned(l) # sregy
      /\ Owned(l) \notin sfreed /\ Owned(l) \notin Range(sretired)
    BY <1>0, Zenon DEF OwnInv
<1>5. SType'
  <2>1. sreq' = sreq
    BY <1>1, Zenon DEF RequestsSame
  <2>2. sfreed' \in SUBSET (1..sload)
    BY <1>0, <1>1, <1>4, Zenon
  <2> QED
    BY <1>0, <1>1, <1>2, <2>1, <2>2, Zenon DEF SType
<1>6. \A k \in Reloader : Busy(k)' => k # l /\ Busy(k) /\ Owned(k)' = Owned(k) /\ srel'[k] = srel[k]
    BY <1>2, RIdleType, Zenon DEF Busy, Owned
<1>7. OwnInv'
  <2>1. /\ sregy' \notin sfreed' /\ sregy' \notin Range(sretired')
        /\ \A n \in Range(sretired') : n \notin sfreed'
    BY <1>0, <1>1, <1>4, Zenon DEF OwnInv
  <2>2. ASSUME NEW k \in Reloader, Busy(k)'
        PROVE  /\ Owned(k)' \in 1..sload' /\ Owned(k)' # sregy'
               /\ Owned(k)' \notin sfreed' /\ Owned(k)' \notin Range(sretired')
    <3>1. k # l /\ Busy(k) /\ Owned(k)' = Owned(k)
      BY <2>2, <1>6, Zenon
    <3>2. /\ Owned(k) \in 1..sload /\ Owned(k) # sregy
          /\ Owned(k) \notin sfreed /\ Owned(k) \notin Range(sretired) /\ Owned(k) # Owned(l)
      BY <3>1, <1>0, Zenon DEF OwnInv
    <3> QED
      BY <3>1, <3>2, <1>1, Zenon
  <2>3. \A k, j \in Reloader : Busy(k)' /\ Busy(j)' /\ Owned(k)' = Owned(j)' => k = j
    BY <1>0, <1>6, Zenon DEF OwnInv
  <2> QED
    BY <2>1, <2>2, <2>3, Zenon DEF OwnInv
<1>8. \A k \in Reloader : (Drains(k)' => k # l) /\ (Quiet(k)' => k # l) /\ (Grace(k) => k # l)
  <2>1. RIdle.pc \notin {"drain", "swap", "commit"}
    BY RIdleType
  <2> QED
    BY <2>1, <1>2, Zenon DEF Drains, Quiet, Grace
<1>9. DrainInv'
    BY <1>0, <1>1, <1>2, <1>8, Zenon DEF DrainInv, Drains, Quiet
<1>10. Held \subseteq Held'
    BY <1>1, <1>2, <1>8, Zenon DEF Held, Grace
<1>11. CountInv' /\ HoldInv'
    BY <1>0, <1>1, <1>10, ReloadHold, Zenon
<1>12. ConfigInv'
    BY <1>0, <1>1, <1>6, Zenon DEF ConfigInv
<1>13. ChainInv'
    BY <1>0, <1>1, <1>12, ReloadChain, Zenon
<1> QED
    BY <1>5, <1>7, <1>9, <1>11, <1>13, Zenon DEF SvcInv, GateInv

(* svc_swap_begin drains the gate, ...                                     *)
LEMMA BeginStep ==
    ASSUME SvcInv, NEW l \in Reloader, svc_swap_begin(l), ~ssw.drain
    PROVE  SvcInv'
<1>0. /\ GateInv /\ ChainInv /\ SType /\ OwnInv /\ DrainInv /\ ConfigInv /\ srel[l] \in RelType
      /\ ssw \in [gen : Nat, drain : BOOLEAN, infl : Nat]
    BY RelBasics, Zenon
<1>1. /\ srel[l].pc = "built" /\ SetR(l, [srel[l] EXCEPT !.pc = "drain"])
      /\ ssw' = [ssw EXCEPT !.drain = TRUE] /\ RequestsSame
      /\ sregy' = sregy /\ sroute' = sroute /\ stable' = stable /\ sfreed' = sfreed
      /\ sretired' = sretired /\ sforced' = sforced /\ sload' = sload
    BY Zenon DEF svc_swap_begin
<1>2. PICK r \in RelType : SetR(l, r) /\ r.pc = "drain" /\ r.nreg = srel[l].nreg
  <2>1. PICK r : r = [srel[l] EXCEPT !.pc = "drain"]
    BY Zenon
  <2>2. r \in RelType
    BY <1>0, <2>1, Zenon DEF RelType
  <2>3. r.pc = "drain" /\ r.nreg = srel[l].nreg
    BY <1>0, <2>1 DEF RelType
  <2> QED
    BY <1>1, <2>1, <2>2, <2>3, Zenon
<1>3. /\ srel' \in [Reloader -> RelType] /\ srel'[l] = r
      /\ \A k \in Reloader : k # l => srel'[k] = srel[k]
    BY <1>0, <1>2, SetRFacts, Zenon
<1>4. /\ ssw' \in [gen : Nat, drain : BOOLEAN, infl : Nat] /\ ssw'.infl = ssw.infl
    BY <1>0, <1>1
<1>d. ssw'.drain
  <2>1. ssw'.drain = TRUE
    BY <1>0, <1>1
  <2> QED
    BY <2>1, Zenon
<1>5. SType'
  <2>1. sreq' = sreq
    BY <1>1, Zenon DEF RequestsSame
  <2> QED
    BY <1>0, <1>1, <1>3, <1>4, <2>1, Zenon DEF SType
<1>6. Busy(l) /\ Busy(l)' /\ Owned(l)' = Owned(l)
  <2>1. "built" # "idle" /\ "drain" # "idle"
    OBVIOUS
  <2> QED
    BY <2>1, <1>1, <1>2, <1>3, Zenon DEF Busy, Owned
<1>7. OwnInv'
    BY <1>0, <1>1, <1>3, <1>6, OwnSame, Zenon
<1>8. DrainInv'
  <2>1. \A k \in Reloader : ~Drains(k)
    BY <1>0, Zenon DEF DrainInv
  <2>2. \A k \in Reloader : Drains(k)' => k = l
    BY <2>1, <1>3, Zenon DEF Drains
  <2>3. \A k \in Reloader : ~Quiet(k)'
    <3>1. r.pc \notin {"swap", "commit"}
      BY <1>2
    <3> QED
      BY <3>1, <2>1, <1>3, Zenon DEF Quiet, Drains
  <2> QED
    BY <2>2, <2>3, <1>d, Zenon DEF DrainInv
<1>9. Held \subseteq Held'
  <2>1. ~Grace(l)
    BY <1>1 DEF Grace
  <2> QED
    BY <2>1, <1>1, <1>3, Zenon DEF Held, Grace
<1>10. CountInv' /\ HoldInv'
    BY <1>0, <1>1, <1>4, <1>9, ReloadHold, Zenon
<1>11. ConfigInv'
  <2>1. \A k \in Reloader : Busy(k)' => Busy(k) /\ srel'[k].nreg = srel[k].nreg
    BY <1>2, <1>3, <1>6, Zenon DEF Busy
  <2> QED
    BY <2>1, <1>0, <1>1, Zenon DEF ConfigInv
<1>12. ChainInv'
    BY <1>0, <1>1, <1>11, ReloadChain, Zenon
<1> QED
    BY <1>5, <1>7, <1>8, <1>10, <1>12, Zenon DEF SvcInv, GateInv

(* ... or gives up and destroys the registry it has built.                 *)
LEMMA GiveUpStep ==
    ASSUME SvcInv, NEW l \in Reloader, svc_swap_begin(l), ssw.drain
    PROVE  SvcInv'
<1>1. /\ srel[l].pc = "built" /\ SetR(l, RIdle) /\ sfreed' = sfreed \cup {srel[l].nreg}
      /\ ssw' = ssw /\ RequestsSame
      /\ UNCHANGED <<sregy, sroute, sdef, stable, sretired, sforced, sload>>
    BY Zenon DEF svc_swap_begin
<1>2. Busy(l) /\ Owned(l) = srel[l].nreg /\ ~Grace(l)
  <2>1. "built" # "idle" /\ "built" \notin {"commit", "dispose"}
    OBVIOUS
  <2> QED
    BY <2>1, <1>1, Zenon DEF Busy, Owned, Grace
<1> QED
    BY <1>1, <1>2, DropStep, Zenon

(* svc_swap_drained: the gate is empty, or the reload goes on by force.    *)
LEMMA DrainedStep ==
    ASSUME SvcInv, NEW l \in Reloader, svc_swap_drained(l)
    PROVE  SvcInv'
<1>0. /\ GateInv /\ ChainInv /\ SType /\ OwnInv /\ DrainInv /\ ConfigInv /\ srel[l] \in RelType
      /\ ssw \in [gen : Nat, drain : BOOLEAN, infl : Nat]
    BY RelBasics, Zenon
<1>1. /\ srel[l].pc = "drain" /\ SetR(l, [srel[l] EXCEPT !.pc = "swap", !.forced = ssw.infl > 0])
      /\ ssw' = ssw /\ RequestsSame
      /\ sregy' = sregy /\ sroute' = sroute /\ stable' = stable /\ sfreed' = sfreed
      /\ sretired' = sretired /\ sforced' = sforced /\ sload' = sload
    BY Zenon DEF svc_swap_drained
<1>2. PICK r \in RelType :
        SetR(l, r) /\ r.pc = "swap" /\ r.nreg = srel[l].nreg /\ (r.forced <=> ssw.infl > 0)
  <2>a. (ssw.infl > 0) \in BOOLEAN
    OBVIOUS
  <2>1. PICK x \in BOOLEAN : x = (ssw.infl > 0)
    BY <2>a, Zenon
  <2>2. PICK r : r = [srel[l] EXCEPT !.pc = "swap", !.forced = x]
    BY Zenon
  <2>3. r \in RelType
    BY <1>0, <2>2, Zenon DEF RelType
  <2>4. r.pc = "swap" /\ r.nreg = srel[l].nreg /\ r.forced = x
    BY <1>0, <2>2 DEF RelType
  <2>5. SetR(l, r)
    BY <1>1, <2>1, <2>2, Zenon
  <2>6. r.forced <=> ssw.infl > 0
    BY <2>1, <2>4, Zenon
  <2> QED
    BY <2>3, <2>4, <2>5, <2>6, Zenon
<1>3. /\ srel' \in [Reloader -> RelType] /\ srel'[l] = r
      /\ \A k \in Reloader : k # l => srel'[k] = srel[k]
    BY <1>0, <1>2, SetRFacts, Zenon
<1>4. SType'
  <2>1. sreq' = sreq
    BY <1>1, Zenon DEF RequestsSame
  <2> QED
    BY <1>0, <1>1, <1>3, <2>1, Zenon DEF SType
<1>5. Busy(l) /\ Busy(l)' /\ Owned(l)' = Owned(l)
  <2>1. "drain" # "idle" /\ "swap" # "idle"
    OBVIOUS
  <2> QED
    BY <2>1, <1>1, <1>2, <1>3, Zenon DEF Busy, Owned
<1>6. OwnInv'
    BY <1>0, <1>1, <1>3, <1>5, OwnSame, Zenon
<1>7. DrainInv'
  <2>1. \A k \in Reloader : Drains(k)' => Drains(k)
    BY <1>1, <1>3, Zenon DEF Drains
  <2>2. ~r.forced => ssw.infl = 0
    BY <1>0, <1>2
  <2>3. \A k \in Reloader : Quiet(k)' => ssw.infl = 0
    BY <2>2, <1>0, <1>3, Zenon DEF Quiet, DrainInv
  <2> QED
    BY <2>1, <2>3, <1>0, <1>1, Zenon DEF DrainInv
<1>8. Held \subseteq Held'
  <2>1. ~Grace(l)
    BY <1>1 DEF Grace
  <2> QED
    BY <2>1, <1>1, <1>3, Zenon DEF Held, Grace
<1>9. CountInv' /\ HoldInv'
    BY <1>0, <1>1, <1>8, ReloadHold, Zenon
<1>10. ConfigInv'
  <2>1. \A k \in Reloader : Busy(k)' => Busy(k) /\ srel'[k].nreg = srel[k].nreg
    BY <1>2, <1>3, <1>5, Zenon DEF Busy
  <2> QED
    BY <2>1, <1>0, <1>1, Zenon DEF ConfigInv
<1>11. ChainInv'
    BY <1>0, <1>1, <1>10, ReloadChain, Zenon
<1> QED
    BY <1>4, <1>6, <1>7, <1>9, <1>11, Zenon DEF SvcInv, GateInv

(* svc_swap_commit: the gate opens for the next generation.                *)
LEMMA CommitStep ==
    ASSUME SvcInv, NEW l \in Reloader, svc_swap_commit(l)
    PROVE  SvcInv'
<1>0. /\ GateInv /\ ChainInv /\ SType /\ OwnInv /\ DrainInv /\ ConfigInv /\ srel[l] \in RelType
      /\ ssw \in [gen : Nat, drain : BOOLEAN, infl : Nat]
    BY RelBasics, Zenon
<1>1. /\ srel[l].pc = "commit" /\ SetR(l, [srel[l] EXCEPT !.pc = "dispose"])
      /\ ssw' = [ssw EXCEPT !.gen = @ + 1, !.drain = FALSE] /\ RequestsSame
      /\ sregy' = sregy /\ sroute' = sroute /\ stable' = srel[l].nreg /\ sfreed' = sfreed
      /\ sretired' = sretired /\ sforced' = sforced /\ sload' = sload
    BY Zenon DEF svc_swap_commit
<1>2. PICK r \in RelType :
        /\ SetR(l, r) /\ r.pc = "dispose" /\ r.nreg = srel[l].nreg /\ r.oreg = srel[l].oreg
        /\ r.forced = srel[l].forced
  <2>1. PICK r : r = [srel[l] EXCEPT !.pc = "dispose"]
    BY Zenon
  <2>2. r \in RelType
    BY <1>0, <2>1, Zenon DEF RelType
  <2>3. r.pc = "dispose" /\ r.nreg = srel[l].nreg /\ r.oreg = srel[l].oreg /\ r.forced = srel[l].forced
    BY <1>0, <2>1 DEF RelType
  <2> QED
    BY <1>1, <2>1, <2>2, <2>3, Zenon
<1>3. /\ srel' \in [Reloader -> RelType] /\ srel'[l] = r
      /\ \A k \in Reloader : k # l => srel'[k] = srel[k]
    BY <1>0, <1>2, SetRFacts, Zenon
<1>4. /\ ssw' \in [gen : Nat, drain : BOOLEAN, infl : Nat] /\ ssw'.infl = ssw.infl
  <2>1. ssw.gen + 1 \in Nat
    BY <1>0
  <2>2. ssw' \in [gen : Nat, drain : BOOLEAN, infl : Nat]
    BY <1>0, <1>1, <2>1, Zenon
  <2>3. ssw'.infl = ssw.infl
    BY <1>0, <1>1
  <2> QED
    BY <2>2, <2>3, Zenon
<1>5. SType'
  <2>1. sreq' = sreq
    BY <1>1, Zenon DEF RequestsSame
  <2> QED
    BY <1>0, <1>1, <1>3, <1>4, <2>1, Zenon DEF SType
<1>6. Busy(l) /\ Busy(l)' /\ Owned(l)' = Owned(l)
  <2>1. "commit" \notin {"idle", "built", "drain", "swap"} /\ "dispose" \notin {"idle", "built", "drain", "swap"}
    OBVIOUS
  <2> QED
    BY <2>1, <1>1, <1>2, <1>3, Zenon DEF Busy, Owned
<1>7. OwnInv'
    BY <1>0, <1>1, <1>3, <1>6, OwnSame, Zenon
<1>8. DrainInv'
  <2>1. \A k \in Reloader : ~Drains(k)'
    <3>1. Drains(l)
      BY <1>1, Zenon DEF Drains
    <3>2. \A k \in Reloader : Drains(k) => k = l
      BY <3>1, <1>0, Zenon DEF DrainInv
    <3>3. r.pc \notin {"drain", "swap", "commit"}
      BY <1>2
    <3> QED
      BY <3>2, <3>3, <1>3, Zenon DEF Drains
  <2> QED
    BY <2>1, Zenon DEF DrainInv, Drains, Quiet
<1>9. Held \subseteq Held'
  <2>1. \A k \in Reloader : Grace(k) => Grace(k)' /\ srel'[k].oreg = srel[k].oreg
    BY <1>2, <1>3, Zenon DEF Grace
  <2> QED
    BY <2>1, <1>1, Zenon DEF Held
<1>10. CountInv' /\ HoldInv'
    BY <1>0, <1>1, <1>4, <1>9, ReloadHold, Zenon
<1>11. ConfigInv'
  <2>1. \A k \in Reloader : Busy(k)' => Busy(k) /\ srel'[k].nreg = srel[k].nreg
    BY <1>2, <1>3, <1>6, Zenon DEF Busy
  <2>2. stable' \in 0..sload'
    <3>1. srel[l].nreg \in 1..sload
      BY <1>0, <1>6, Zenon DEF ConfigInv
    <3> QED
      BY <3>1, <1>1
  <2> QED
    BY <2>1, <2>2, <1>0, <1>1, Zenon DEF ConfigInv
<1>12. ChainInv'
    BY <1>0, <1>1, <1>11, ReloadChain, Zenon
<1> QED
    BY <1>5, <1>7, <1>8, <1>10, <1>12, Zenon DEF SvcInv, GateInv

(* After a full drain no request is inside the gate.                       *)
LEMMA EmptyGate ==
    ASSUME GateInv, NEW l \in Reloader, Quiet(l)
    PROVE  \A t \in SReq : ~Inside(t)
<1> DEFINE S == {t \in SReq : Inside(t)}
<1>1. Cardinality(S) = 0
    BY Zenon DEF GateInv, DrainInv, CountInv
<1>2. IsFiniteSet(S)
    BY InsideFinite, Zenon
<1>3. S = {}
  <2> HIDE DEF S
  <2> QED
    BY <1>1, <1>2, FS_EmptySet
<1> QED
    BY <1>3, Zenon

(* reload_swap: the new registry takes the old one's place.                *)
LEMMA ReloadSwapStep ==
    ASSUME SvcInv, NEW l \in Reloader, reload_swap(l)
    PROVE  SvcInv'
<1>0. /\ GateInv /\ ChainInv /\ SType /\ OwnInv /\ DrainInv /\ ConfigInv /\ srel[l] \in RelType
      /\ sload \in Nat /\ sregy \in 1..sload /\ Load = 1..Len(Boot) /\ Len(Boot) \in Nat
    BY RelBasics, Zenon
<1>1. /\ srel[l].pc = "swap" /\ SetR(l, [srel[l] EXCEPT !.pc = "commit", !.oreg = sregy])
      /\ sregy' = srel[l].nreg /\ sroute' = RouteOf[srel[l].nreg] /\ stable' = 0
      /\ ssw' = ssw /\ RequestsSame /\ sfreed' = sfreed
      /\ sretired' = sretired /\ sforced' = sforced /\ sload' = sload
    BY Zenon DEF reload_swap
<1>2. PICK r \in RelType :
        /\ SetR(l, r) /\ r.pc = "commit" /\ r.nreg = srel[l].nreg /\ r.oreg = sregy
        /\ r.forced = srel[l].forced
  <2>0. sregy \in Nat
    BY <1>0
  <2>1. PICK r : r = [srel[l] EXCEPT !.pc = "commit", !.oreg = sregy]
    BY Zenon
  <2>2. r \in RelType
    BY <1>0, <2>0, <2>1, Zenon DEF RelType
  <2>3. r.pc = "commit" /\ r.nreg = srel[l].nreg /\ r.oreg = sregy /\ r.forced = srel[l].forced
    BY <1>0, <2>1 DEF RelType
  <2> QED
    BY <1>1, <2>1, <2>2, <2>3, Zenon
<1>3. /\ srel' \in [Reloader -> RelType] /\ srel'[l] = r
      /\ \A k \in Reloader : k # l => srel'[k] = srel[k]
    BY <1>0, <1>2, SetRFacts, Zenon
<1>4. /\ Busy(l) /\ Busy(l)' /\ Owned(l) = srel[l].nreg /\ Owned(l)' = sregy
  <2>1. "swap" # "idle" /\ "commit" \notin {"idle", "built", "drain", "swap"}
    OBVIOUS
  <2> QED
    BY <2>1, <1>1, <1>2, <1>3, Zenon DEF Busy, Owned
<1>5. \A k \in Reloader : k # l => (Busy(k)' <=> Busy(k)) /\ Owned(k)' = Owned(k)
    BY <1>3, Zenon DEF Busy, Owned
<1>6. /\ srel[l].nreg \in 1..sload /\ srel[l].nreg # sregy
      /\ srel[l].nreg \notin sfreed /\ srel[l].nreg \notin Range(sretired)
    BY <1>0, <1>4, Zenon DEF OwnInv
<1>7. SType'
  <2>1. sreq' = sreq
    BY <1>1, Zenon DEF RequestsSame
  <2> QED
    BY <1>0, <1>1, <1>3, <1>6, <2>1, Zenon DEF SType
<1>8. OwnInv'
  <2>1. /\ sregy' \notin sfreed' /\ sregy' \notin Range(sretired')
        /\ \A n \in Range(sretired') : n \notin sfreed'
    BY <1>0, <1>1, <1>6, Zenon DEF OwnInv
  <2>2. ASSUME NEW k \in Reloader, Busy(k)'
        PROVE  /\ Owned(k)' \in 1..sload' /\ Owned(k)' # sregy'
               /\ Owned(k)' \notin sfreed' /\ Owned(k)' \notin Range(sretired')
    <3>1. CASE k = l
      BY <3>1, <1>0, <1>1, <1>4, <1>6, Zenon DEF OwnInv
    <3>2. CASE k # l
      <4>1. Busy(k) /\ Owned(k)' = Owned(k)
        BY <2>2, <3>2, <1>5, Zenon
      <4>2. /\ Owned(k) \in 1..sload /\ Owned(k) # Owned(l)
            /\ Owned(k) \notin sfreed /\ Owned(k) \notin Range(sretired)
        BY <4>1, <3>2, <1>0, <1>4, Zenon DEF OwnInv
      <4> QED
        BY <4>1, <4>2, <1>1, <1>4, Zenon
    <3> QED
      BY <3>1, <3>2, Zenon
  <2>3. ASSUME NEW k \in Reloader, NEW j \in Reloader, Busy(k)', Busy(j)', Owned(k)' = Owned(j)'
        PROVE  k = j
    <3>1. \A i \in Reloader : Busy(i) => Owned(i) # sregy
      BY <1>0, Zenon DEF OwnInv
    <3>2. Busy(k) /\ Busy(j) /\ Owned(k) = Owned(j) => k = j
      BY <1>0, Zenon DEF OwnInv
    <3> QED
      BY <2>3, <3>1, <3>2, <1>4, <1>5, Zenon
  <2> QED
    BY <2>1, <2>2, <2>3, Zenon DEF OwnInv
<1>9. DrainInv'
  <2>1. \A k \in Reloader : (Drains(k)' => Drains(k)) /\ (Quiet(k)' => Quiet(k))
    BY <1>1, <1>2, <1>3, Zenon DEF Drains, Quiet
  <2> QED
    BY <2>1, <1>0, <1>1, Zenon DEF DrainInv
<1>10. Held \subseteq Held' \/ \A t \in SReq : ~Inside(t)
  <2>1. CASE srel[l].forced
    <3>1. Grace(l)' /\ srel'[l].oreg = sregy
      BY <2>1, <1>2, <1>3, Zenon DEF Grace
    <3>2. ~Grace(l)
      BY <1>1 DEF Grace
    <3>3. \A k \in Reloader : Grace(k) => Grace(k)' /\ srel'[k].oreg = srel[k].oreg
      BY <3>2, <1>3, Zenon DEF Grace
    <3>4. sregy \in Held'
      BY <3>1, Zenon DEF Held
    <3> QED
      BY <3>3, <3>4, <1>1, Zenon DEF Held
  <2>2. CASE ~srel[l].forced
    <3>1. Quiet(l)
      BY <2>2, <1>1, Zenon DEF Quiet
    <3> QED
      BY <3>1, <1>0, EmptyGate, Zenon
  <2> QED
    BY <2>1, <2>2, Zenon
<1>11. CountInv' /\ HoldInv'
    BY <1>0, <1>1, <1>10, ReloadHold, Zenon
<1>12. ConfigInv'
  <2>1. \A k \in Reloader : Busy(k)' => Busy(k) /\ srel'[k].nreg = srel[k].nreg
    BY <1>2, <1>3, <1>4, Zenon DEF Busy
  <2>2. sload <= Len(Boot)
    BY <1>0, Zenon DEF ConfigInv
  <2>3. srel[l].nreg \in Load /\ 0 \in 0..sload
    BY <1>0, <1>6, <2>2
  <2>4. sroute'.depth \in Nat
    BY <1>1, <2>3, RouteType, Zenon
  <2> QED
    BY <2>1, <2>3, <2>4, <1>0, <1>1, Zenon DEF ConfigInv
<1>13. ChainInv'
    BY <1>0, <1>1, <1>12, ReloadChain, Zenon
<1> QED
    BY <1>7, <1>8, <1>9, <1>11, <1>13, Zenon DEF SvcInv, GateInv

(* The retired list after the reap of k entries and the push of reg.       *)
Pushed(S, k, reg) ==
    \E kept \in Seq(S) :
        /\ kept = retire_push(retire_reap(k), reg)
        /\ reg \in Range(kept) /\ Range(kept) \subseteq Range(sretired) \cup {reg}

(* retire_push keeps the registry it is given, and adds no other one.      *)
LEMMA PushFacts ==
    ASSUME NEW S, sretired \in Seq(S), NEW k \in Nat, k <= Len(sretired), NEW reg \in S
    PROVE  Pushed(S, k, reg)
<1>0. PICK kept : kept = retire_push(retire_reap(k), reg)
    BY Zenon
<1> DEFINE u == retire_reap(k)
           v == IF Len(u) >= RetiredMax THEN Tail(u) ELSE u
<1>1. /\ u \in Seq(S) /\ Len(u) = Len(sretired) - k
      /\ \A i \in 1..Len(u) : k + i \in 1..Len(sretired) /\ u[i] = sretired[k + i]
    BY DEF retire_reap
<1>a. \A i \in 1..Len(sretired) : sretired[i] \in Range(sretired)
    BY DEF Range
<1>2. \A i \in 1..Len(u) : u[i] \in Range(sretired)
    BY <1>1, <1>a, Zenon
<1> HIDE DEF u
<1>3. v \in Seq(S) /\ \A i \in 1..Len(v) : v[i] \in Range(sretired)
  <2>1. CASE Len(u) >= RetiredMax
    <3>1. u # <<>>
      BY <1>1, <2>1, LlmServiceAssumption
    <3>2. /\ Tail(u) \in Seq(S) /\ Len(Tail(u)) = Len(u) - 1
          /\ \A i \in 1..Len(Tail(u)) : i + 1 \in 1..Len(u) /\ Tail(u)[i] = u[i + 1]
      BY <1>1, <3>1
    <3>3. v = Tail(u)
      BY <2>1, Zenon
    <3> QED
      BY <1>2, <3>2, <3>3
  <2>2. CASE ~(Len(u) >= RetiredMax)
    BY <1>1, <1>2, <2>2
  <2> QED
    BY <2>1, <2>2, Zenon
<1>4. kept = Append(v, reg)
    BY <1>0, Zenon DEF retire_push, u
<1> HIDE DEF v
<1>5. /\ kept \in Seq(S) /\ Len(kept) = Len(v) + 1 /\ kept[Len(v) + 1] = reg
      /\ \A i \in 1..Len(v) : kept[i] = v[i]
    BY <1>3, <1>4
<1>6. DOMAIN kept = 1..Len(kept) /\ Len(v) \in Nat
    BY <1>3, <1>5
<1>7. reg \in Range(kept)
    BY <1>5, <1>6 DEF Range
<1>8. ASSUME NEW i \in DOMAIN kept PROVE kept[i] \in Range(sretired) \cup {reg}
  <2>1. i = Len(v) + 1 \/ i \in 1..Len(v)
    BY <1>5, <1>6
  <2> QED
    BY <2>1, <1>3, <1>5, Zenon
<1>9. Range(kept) \subseteq Range(sretired) \cup {reg}
    BY <1>8, Zenon DEF Range
<1> QED
    BY <1>0, <1>5, <1>7, <1>9, Zenon DEF Pushed

(* old_dispose: the old registry is destroyed after a full drain and       *)
(* retired after a forced one.                                             *)
LEMMA DisposeStep ==
    ASSUME SvcInv, NEW l \in Reloader, NEW k \in 0..RetiredMax, old_dispose(l, k)
    PROVE  SvcInv'
<1>0. /\ GateInv /\ ChainInv /\ SType /\ OwnInv /\ DrainInv /\ ConfigInv
      /\ sfreed \in SUBSET (1..sload) /\ sretired \in Seq(1..sload)
      /\ Range(sretired) \in SUBSET (1..sload)
    BY RelBasics, Zenon
<1>1. /\ srel[l].pc = "dispose" /\ k <= Len(sretired) /\ SetR(l, RIdle) /\ ssw' = ssw /\ RequestsSame
      /\ sregy' = sregy /\ sroute' = sroute /\ sdef' = sdef /\ stable' = stable /\ sload' = sload
    BY Zenon DEF old_dispose
<1>2. Busy(l) /\ Owned(l) = srel[l].oreg
  <2>1. "dispose" \notin {"idle", "built", "drain", "swap"}
    OBVIOUS
  <2> QED
    BY <2>1, <1>1, Zenon DEF Busy, Owned
<1>3. CASE ~srel[l].forced
  <2>1. sfreed' = sfreed \cup {srel[l].oreg} /\ sretired' = sretired /\ sforced' = sforced
    BY <1>3, Zenon DEF old_dispose
  <2>2. ~Grace(l)
    BY <1>3, Zenon DEF Grace
  <2> QED
    BY <1>1, <1>2, <2>1, <2>2, DropStep, Zenon
<1>4. CASE srel[l].forced
  <2>2. /\ srel[l].oreg \in 1..sload /\ srel[l].oreg # sregy
        /\ srel[l].oreg \notin sfreed /\ srel[l].oreg \notin Range(sretired)
    BY <1>0, <1>2, Zenon DEF OwnInv
  <2>3. k \in Nat
    BY LlmServiceAssumption
  <2>4. PICK kept \in Seq(1..sload) :
          /\ kept = retire_push(retire_reap(k), srel[l].oreg)
          /\ srel[l].oreg \in Range(kept) /\ Range(kept) \subseteq Range(sretired) \cup {srel[l].oreg}
    <3>1. Pushed(1..sload, k, srel[l].oreg)
      BY <1>0, <1>1, <2>2, <2>3, PushFacts, Zenon
    <3> QED
      BY <3>1, Zenon DEF Pushed
  <2> DEFINE gone == Range(sretired) \ Range(kept)
  <2>1. sretired' = kept /\ sfreed' = sfreed \cup gone /\ sforced' = sforced \cup gone
    BY <1>4, <2>4, Zenon DEF old_dispose
  <2>5. /\ srel' \in [Reloader -> RelType] /\ srel'[l] = RIdle
        /\ \A j \in Reloader : j # l => srel'[j] = srel[j]
    BY <1>0, <1>1, SetRFacts, RIdleType, Zenon
  <2>6. SType'
    <3>1. sreq' = sreq
      BY <1>1, Zenon DEF RequestsSame
    <3>2. sfreed' \in SUBSET (1..sload)
      BY <1>0, <2>1, Zenon
    <3> QED
      BY <1>0, <1>1, <2>1, <2>4, <2>5, <3>1, <3>2, Zenon DEF SType
  <2>7. \A j \in Reloader : Busy(j)' => j # l /\ Busy(j) /\ Owned(j)' = Owned(j) /\ srel'[j] = srel[j]
    BY <2>5, RIdleType, Zenon DEF Busy, Owned
  <2>8. OwnInv'
    <3>1. sregy \notin sfreed /\ sregy \notin Range(sretired) /\ \A n \in Range(sretired) : n \notin sfreed
      BY <1>0, Zenon DEF OwnInv
    <3>2. /\ sregy' \notin sfreed' /\ sregy' \notin Range(sretired')
          /\ \A n \in Range(sretired') : n \notin sfreed'
      BY <3>1, <1>1, <2>1, <2>2, <2>4, Zenon
    <3>3. ASSUME NEW j \in Reloader, Busy(j)'
          PROVE  /\ Owned(j)' \in 1..sload' /\ Owned(j)' # sregy'
                 /\ Owned(j)' \notin sfreed' /\ Owned(j)' \notin Range(sretired')
      <4>1. j # l /\ Busy(j) /\ Owned(j)' = Owned(j)
        BY <3>3, <2>7, Zenon
      <4>2. /\ Owned(j) \in 1..sload /\ Owned(j) # sregy
            /\ Owned(j) \notin sfreed /\ Owned(j) \notin Range(sretired) /\ Owned(j) # Owned(l)
        BY <4>1, <1>0, <1>2, Zenon DEF OwnInv
      <4> QED
        BY <4>1, <4>2, <1>1, <1>2, <2>1, <2>4, Zenon
    <3>4. \A i, j \in Reloader : Busy(i)' /\ Busy(j)' /\ Owned(i)' = Owned(j)' => i = j
      BY <1>0, <2>7, Zenon DEF OwnInv
    <3> QED
      BY <3>2, <3>3, <3>4, Zenon DEF OwnInv
  <2>9. \A j \in Reloader : (Drains(j)' => j # l) /\ (Quiet(j)' => j # l)
    <3>1. RIdle.pc \notin {"drain", "swap", "commit"}
      BY RIdleType
    <3> QED
      BY <3>1, <2>5, Zenon DEF Drains, Quiet
  <2>10. DrainInv'
    BY <1>0, <1>1, <2>5, <2>9, Zenon DEF DrainInv, Drains, Quiet
  <2>11. Held \subseteq Held'
    <3>1. ASSUME NEW n \in Range(sretired) PROVE n \in Held'
      BY <2>1, Zenon DEF Held
    <3>2. ASSUME NEW j \in Reloader, Grace(j) PROVE srel[j].oreg \in Held'
      <4>1. CASE j = l
        BY <4>1, <2>1, <2>4, Zenon DEF Held
      <4>2. CASE j # l
        <5>1. Grace(j)' /\ srel'[j].oreg = srel[j].oreg
          BY <3>2, <4>2, <2>5, Zenon DEF Grace
        <5> QED
          BY <5>1, Zenon DEF Held
      <4> QED
        BY <4>1, <4>2, Zenon
    <3>3. 0 \in Held' /\ sregy \in Held'
      BY <1>1, Zenon DEF Held
    <3>4. sforced \subseteq Held'
      BY <2>1, Zenon DEF Held
    <3> QED
      BY <3>1, <3>2, <3>3, <3>4, Zenon DEF Held
  <2>12. CountInv' /\ HoldInv'
    BY <1>0, <1>1, <2>11, ReloadHold, Zenon
  <2>13. ConfigInv'
    BY <1>0, <1>1, <2>7, Zenon DEF ConfigInv
  <2>14. ChainInv'
    BY <1>0, <1>1, <2>13, ReloadChain, Zenon
  <2> QED
    BY <2>6, <2>8, <2>10, <2>12, <2>14, Zenon DEF SvcInv, GateInv
<1> QED
    BY <1>3, <1>4, Zenon

-----------------------------------------------------------------------------
(* The service starts with one registry, an open gate and idle threads.    *)
LEMMA InitInv ==
    ASSUME SInit
    PROVE  SvcInv
<1>1. PICK job : sreq = [t \in SReq |-> [Idle EXCEPT !.kind = job[t]]]
    BY Zenon DEF SInit
<1>2. PICK A : Idle \in Fields(A)
    BY IdleIsReq, Zenon DEF IsReq
<1>3. /\ ssw = [gen |-> 1, drain |-> FALSE, infl |-> 0] /\ sregy = 1 /\ sload = 1 /\ stable = 1
      /\ sroute = RouteOf[1] /\ sfreed = {} /\ sretired = <<>> /\ sforced = {}
      /\ sseats = [n \in Load |-> [p \in SProv |-> 0]]
      /\ srel = [l \in Reloader |-> RIdle]
    BY Zenon DEF SInit
<1>4. ASSUME NEW t \in SReq
      PROVE  /\ sreq[t].pc = "idle" /\ sreq[t].calls = 0 /\ sreq[t].hops = 0
             /\ sreq[t].route = svc_chain_def /\ ~sreq[t].seat /\ ~sreq[t].sent
  <2>1. PICK q : q = [Idle EXCEPT !.kind = job[t]]
    BY Zenon
  <2>2. /\ q.pc = Idle.pc /\ q.calls = Idle.calls /\ q.hops = Idle.hops
        /\ q.route = Idle.route /\ q.seat = Idle.seat /\ q.sent = Idle.sent
    BY <1>2, <2>1 DEF Fields
  <2>3. /\ Idle.pc = "idle" /\ Idle.calls = 0 /\ Idle.hops = 0 /\ Idle.seat = FALSE /\ Idle.sent = FALSE
        /\ Idle.route = svc_chain_def
    BY DEF Idle
  <2>4. sreq[t] = q
    BY <1>1, <2>1, Zenon
  <2> QED
    BY <2>2, <2>3, <2>4, Zenon
<1>5. \A t \in SReq : ~Inside(t) /\ NewCall(sreq[t])
    BY <1>4 DEF Inside, NewCall
<1>6. \A l \in Reloader : ~Busy(l) /\ ~Drains(l) /\ ~Quiet(l)
  <2>1. \A l \in Reloader : srel[l].pc = "idle"
    BY <1>3, RIdleType, Zenon
  <2> QED
    BY <2>1 DEF Busy, Drains, Quiet
<1>7. SType
  <2>1. \E B : sreq \in [SReq -> Fields(B)]
    <3> DEFINE B == A \cup {job[t] : t \in SReq}
    <3>1. \A t \in SReq : [Idle EXCEPT !.kind = job[t]] \in Fields(B)
      BY <1>2, Zenon DEF Fields
    <3> HIDE DEF B
    <3> QED
      BY <1>1, <3>1, Zenon
  <2>2. ssw \in [gen : Nat, drain : BOOLEAN, infl : Nat]
    BY <1>3
  <2>3. srel \in [Reloader -> RelType]
    BY <1>3, RIdleType, Zenon
  <2>4. sload \in Nat /\ sregy \in 1..sload /\ sfreed \in SUBSET (1..sload) /\ sretired \in Seq(1..sload)
    BY <1>3
  <2> QED
    BY <2>1, <2>2, <2>3, <2>4, Zenon DEF SType
<1>8. OwnInv
  <2>1. Range(sretired) = {}
    BY <1>3 DEF Range
  <2> QED
    BY <2>1, <1>3, <1>6, Zenon DEF OwnInv
<1>9. DrainInv
    BY <1>6, Zenon DEF DrainInv
<1>10. CountInv
  <2>1. {t \in SReq : Inside(t)} = {}
    BY <1>5, Zenon
  <2>2. ssw.infl = 0
    BY <1>3
  <2> QED
    BY <2>1, <2>2, FS_EmptySet, Zenon DEF CountInv
<1>11. HoldInv
    BY <1>5, Zenon DEF HoldInv
<1>12. \A t \in SReq : ReqOK(sreq[t])
  <2> SUFFICES ASSUME NEW t \in SReq PROVE ReqOK(sreq[t])
    BY Zenon
  <2>1. ReqNum(sreq[t])
    BY <1>4, RouteType DEF ReqNum
  <2>2. ReqEnd(sreq[t])
    BY <1>4 DEF ReqEnd
  <2> QED
    BY <2>1, <2>2, Zenon DEF ReqOK
<1>13. ConfigInv
  <2>1. 1 \in Load /\ 1 <= Len(Boot)
    BY LlmServiceAssumption
  <2>2. sroute.depth \in Nat
    BY <1>3, <2>1, RouteType, Zenon
  <2>3. sload <= Len(Boot) /\ stable \in 0..sload
    BY <1>3, <2>1
  <2> QED
    BY <2>2, <2>3, <1>6, Zenon DEF ConfigInv
<1>14. SeatInv
  <2>1. sseats \in [Load -> [SProv -> Nat]] /\ \A n \in Load, p \in SProv : sseats[n][p] = 0
    BY <1>3
  <2>2. \A n, p : Seated(n, p) = {}
    BY <1>4, Zenon DEF Seated
  <2>3. Cardinality({}) = 0 /\ ~(0 > 0)
    BY FS_EmptySet
  <2> QED
    BY <2>1, <2>2, <2>3, Zenon DEF SeatInv
<1> QED
    BY <1>7, <1>8, <1>9, <1>10, <1>11, <1>12, <1>13, <1>14, Zenon DEF SvcInv, GateInv, ChainInv

(* Every step of a request or of a reload keeps the invariant.             *)
LEMMA NextInv ==
    ASSUME SvcInv, [SNext]_sVars
    PROVE  SvcInv'
<1>1. ASSUME NEW t \in SReq,
             \/ \E m \in SModel : handle_complete(t, m) \/ handle_embeddings(t, m) \/ handle_complete_stream(t, m)
             \/ peek_name(t) \/ svc_swap_enter(t) \/ svc_swap_leave(t) \/ next_prov(t) \/ cache_store(t)
             \/ \E b \in BOOLEAN : handle_result(t, b) \/ chain_gate(t, b)
             \/ \E m \in SModels : cache_lookup(t, scache[m]) \/ cache_lookup(t, sl1[m])
             \/ \E prov \in Load \X SProv \cup {NoProv} : pick_provider(t, prov)
             \/ \E err \in SErr, sent, left \in BOOLEAN : attempt_run(t, err, sent, left)
      PROVE  SvcInv'
    BY <1>1, HandleStep, PeekStep, ResultStep, SwapStep, NextStep, CacheStep, GateStep, PickStep, AttemptStep, Zenon
<1>2. ASSUME NEW l \in Reloader,
             \/ reload_read(l) \/ svc_swap_begin(l) \/ svc_swap_drained(l) \/ reload_swap(l)
             \/ svc_swap_commit(l)
             \/ \E k \in 0..RetiredMax : old_dispose(l, k)
      PROVE  SvcInv'
    BY <1>2, ReadStep, BeginStep, GiveUpStep, DrainedStep, ReloadSwapStep, CommitStep, DisposeStep, Zenon
<1>3. CASE UNCHANGED sVars
  <2>1. /\ ssw' = ssw /\ sregy' = sregy /\ sroute' = sroute /\ stable' = stable /\ sfreed' = sfreed
        /\ sretired' = sretired /\ sforced' = sforced /\ sseats' = sseats /\ sreq' = sreq
        /\ sload' = sload /\ srel' = srel
    BY <1>3, Zenon DEF sVars
  <2>a. SType /\ OwnInv /\ DrainInv
    BY Zenon DEF SvcInv, GateInv
  <2>b. SType'
    BY <2>1, <2>a, Zenon DEF SType
  <2>c. OwnInv'
    <3>1. ConfigSame
      BY <1>3, Zenon DEF sVars, ConfigSame
    <3> QED
      BY <3>1, <2>a, FrameGate, Zenon
  <2>2. DrainInv'
    BY <2>1, <2>a, Zenon DEF DrainInv, Drains, Quiet
  <2>d. GateInv /\ RequestsSame /\ ssw'.infl = ssw.infl
    BY <2>1, <1>3, Zenon DEF SvcInv, RequestsSame, sVars
  <2>e. Held \subseteq Held'
    BY <2>1, Zenon DEF Held, Grace
  <2>3. CountInv' /\ HoldInv'
    BY <2>d, <2>e, ReloadHold, Zenon
  <2>4. ChainInv'
    <3>1. ChainInv /\ ConfigInv
      BY Zenon DEF SvcInv, ChainInv
    <3>2. ConfigInv'
      BY <3>1, <2>1, Zenon DEF ConfigInv, Busy
    <3> QED
      BY <3>1, <3>2, <2>d, ReloadChain, Zenon
  <2> QED
    BY <2>b, <2>c, <2>2, <2>3, <2>4, Zenon DEF SvcInv, GateInv
<1> QED
    BY <1>1, <1>2, <1>3, Zenon DEF SNext

(* However requests and reloads interleave, the gate counts the requests   *)
(* inside it, every registry has one owner, and the seats and the chains   *)
(* agree: SvcInv is an invariant of llm_d (svc_swap.c, service_reload.c,   *)
(* service_chain.c).                                                       *)
THEOREM ServiceGateInvariant ==
    SSpec => []SvcInv
<1>1. SInit => SvcInv
    BY InitInv
<1>2. SvcInv /\ [SNext]_sVars => SvcInv'
    BY NextInv
<1> QED
    BY <1>1, <1>2, PTL DEF SSpec

(* A request inside the gate never holds a provider of a destroyed         *)
(* registry, unless the retired list was made to let go of it              *)
(* (old_dispose, retire_push): for any number of overlapping reloads and   *)
(* requests.                                                               *)
THEOREM HeldAlive ==
    SSpec => []HeldRegistryAlive
<1>1. SvcInv => HeldRegistryAlive
  <2> SUFFICES ASSUME SvcInv, NEW t \in SReq, Inside(t), sreq[t].prov[1] \in sfreed
               PROVE  sreq[t].prov[1] \in sforced
    BY Zenon DEF HeldRegistryAlive
  <2> DEFINE n == sreq[t].prov[1]
  <2>1. GateInv /\ SType /\ OwnInv
    BY Zenon DEF SvcInv, GateInv
  <2>2. n \in Held
    BY <2>1, Zenon DEF GateInv, HoldInv
  <2>3. n # 0
    <3>1. n \in 1..sload /\ sload \in Nat
      BY <2>1, Zenon DEF SType
    <3> HIDE DEF n
    <3> QED
      BY <3>1
  <2>4. n # sregy /\ n \notin Range(sretired)
    BY <2>1, Zenon DEF OwnInv
  <2>5. ASSUME NEW l \in Reloader, Grace(l) PROVE n # srel[l].oreg
    <3>1. srel[l].pc \in {"commit", "dispose"}
      BY <2>5, Zenon DEF Grace
    <3>2. Busy(l) /\ Owned(l) = srel[l].oreg
      BY <3>1 DEF Busy, Owned
    <3> QED
      BY <3>2, <2>1, Zenon DEF OwnInv
  <2> QED
    BY <2>2, <2>3, <2>4, <2>5, Zenon DEF Held
<1> QED
    BY <1>1, ServiceGateInvariant, PTL

(* A service call makes at most depth + 1 upstream calls and none after it *)
(* has streamed a part of the answer, and the seats taken at a provider    *)
(* are exactly those of the calls in progress, within its limit            *)
(* (chain_gate, attempt_run).                                              *)
THEOREM ChainDisciplined ==
    SSpec => []ChainDiscipline
<1>1. SvcInv => ChainDiscipline
  <2> SUFFICES ASSUME SvcInv PROVE ChainDiscipline
    BY Zenon
  <2>1. (\A t \in SReq : ReqOK(sreq[t])) /\ SeatInv
    BY Zenon DEF SvcInv, ChainInv
  <2>2. ASSUME NEW t \in SReq
        PROVE  /\ sreq[t].calls <= sreq[t].route.depth + 1
               /\ sreq[t].sent => sreq[t].pc \notin {"try", "call", "next"}
    <3>1. ReqNum(sreq[t]) /\ ReqEnd(sreq[t])
      BY <2>1, Zenon DEF ReqOK
    <3>2. sreq[t].calls <= sreq[t].route.depth + 1
      BY <3>1 DEF ReqNum
    <3>3. sreq[t].sent => sreq[t].pc \notin {"try", "call", "next"}
      BY <3>1, Zenon DEF ReqEnd
    <3> QED
      BY <3>2, <3>3, Zenon
  <2>3. \A n \in Load, p \in SProv :
          /\ sseats[n][p] = Cardinality({t \in SReq : sreq[t].seat /\ sreq[t].prov = <<n, p>>})
          /\ sseats[n][p] > 0 => \E m \in SModels : sseats[n][p] <= svc_gate_limit(<<n, p>>, m)
    BY <2>1, Zenon DEF SeatInv, Seated
  <2> QED
    BY <2>2, <2>3, Zenon DEF ChainDiscipline
<1> QED
    BY <1>1, ServiceGateInvariant, PTL

=============================================================================
