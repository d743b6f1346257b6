----------------------------- MODULE RpcClient -----------------------------
(* The JSON-RPC client every daemon uses to call another                      *)
(* (daemon_rpc_client.c) and its memory of targets that cannot be reached     *)
(* (daemon_rpc_neg.c).                                                        *)
(*                                                                            *)
(* The callers are threads of one process and share its descriptor table: a   *)
(* new connection gets the lowest free number, a read or a close acts on      *)
(* whatever the number means then.  A response is so many chunks; the peer    *)
(* sends them one by one and may close at any point.  Time is a clock that    *)
(* advances up to a bound; allocation failure is left out.                    *)
EXTENDS DaemonBase, FiniteSets, SequencesExt

CONSTANTS
    Callers,
    RSetups,      \* per caller: number of calls, target, method, stream, cancel token, and the
                  \* response (chunks; body 0: a result, 1: neither, else an error code)
    RTmo,         \* g_rpc_tmo: method -> budget
    RDefaultTmo,  \* DAEMON_RPC_DEFAULT_TIMEOUT_MS
    RMaxResp,     \* DAEMON_RPC_MAX_RESPONSE, in chunks
    RNegMax,      \* RPC_NEG_MAX
    RLevelMax,    \* RPC_NEG_LEVEL_MAX
    RNegCap,      \* RPC_NEG_CAP_MS, in units of RPC_NEG_BASE_MS
    RTime         \* bound: the clock stops here

VARIABLES
    rset,         \* the setup
    rcall,        \* each caller
    rfds,         \* descriptor table: number -> connection
    rconn,        \* every connection made: chunks sent, chunks read, closed by the peer
    rneg,         \* g_neg: target -> entry
    rup,          \* whether the targets accept connections
    rnow,
    rfreed        \* connections closed by a caller they do not belong to
rvars == <<rset, rcall, rfds, rconn, rneg, rup, rnow, rfreed>>

RIdle == [pc |-> "idle", calls |-> 0, fd |-> 0, conn |-> 0, end |-> 0, got |-> <<>>, rc |-> "",
          ok |-> FALSE, cfd |-> 0]
RInit ==
    /\ rset \in RSetups
    /\ rcall = [c \in Callers |-> RIdle]
    /\ rfds = <<>>
    /\ rconn = <<>>
    /\ rneg = <<>>
    /\ rup \in BOOLEAN
    /\ rnow = 0
    /\ rfreed = {}

RReq(c) == rset[c]
AtR(c, pc) == rcall[c].pc = pc
SetR(c, r) == rcall' = [rcall EXCEPT ![c] = r]
LocalR(c, r) == SetR(c, r) /\ UNCHANGED <<rset, rfds, rconn, rneg, rup, rnow, rfreed>>
Ends(c, r, rc) == LocalR(c, [r EXCEPT !.pc = "close", !.rc = rc])

-----------------------------------------------------------------------------
\* daemon_rpc_neg.c: only a target that was reached once is backed off
neg_delay(level) == MinOf(2 ^ (level - 1), RNegCap)
rpc_neg_blocked(t) == t \in DOMAIN rneg /\ rneg[t].until > rnow
rpc_neg_fail(t) ==
    IF t \notin DOMAIN rneg THEN UNCHANGED rneg
    ELSE LET level == MinOf(rneg[t].level + 1, RLevelMax)
         IN rneg' = [rneg EXCEPT ![t] = [until |-> rnow + neg_delay(level), level |-> level]]
\* a full table takes no new target
rpc_neg_ok(t) ==
    IF t \notin DOMAIN rneg /\ Cardinality(DOMAIN rneg) >= RNegMax THEN UNCHANGED rneg
    ELSE rneg' = (t :> [until |-> 0, level |-> 0]) @@ rneg

-----------------------------------------------------------------------------
LowestFree == Min((1..(Cardinality(DOMAIN rfds) + 1)) \ DOMAIN rfds)
\* connect: a number and a connection of c
Connect(c, role) ==
    /\ rfds' = (LowestFree :> Len(rconn) + 1) @@ rfds
    /\ rconn' = Append(rconn, [owner |-> c, role |-> role, asked |-> FALSE, sent |-> 0, read |-> 0, closed |-> FALSE])
\* close(fd) on whatever the number means now; none is EBADF and changes nothing
rpc_close_fd(c, fd) ==
    IF fd \notin DOMAIN rfds THEN UNCHANGED <<rfds, rfreed>>
    ELSE /\ rfds' = [n \in DOMAIN rfds \ {fd} |-> rfds[n]]
         /\ rfreed' = IF rconn[rfds[fd]].owner = c THEN rfreed ELSE rfreed \cup {rfds[fd]}

rpc_timeout_for(m) == IF m \in DOMAIN RTmo THEN RTmo[m] ELSE RDefaultTmo

\* daemon_rpc_call, _cancelable and _stream begin alike: the budget runs from
\* here, and a target in backoff is not tried
daemon_rpc_call(c) ==
    /\ AtR(c, "idle") /\ rcall[c].calls < RReq(c).calls
    /\ LET r == [RIdle EXCEPT !.calls = rcall[c].calls + 1, !.end = rnow + rpc_timeout_for(RReq(c).method)]
       IN LocalR(c, IF rpc_neg_blocked(RReq(c).target) THEN [r EXCEPT !.pc = "idle", !.rc = "SYS_SOCKET"]
                    ELSE [r EXCEPT !.pc = "connect"])

rpc_connect(c) ==
    /\ AtR(c, "connect")
    /\ IF rup THEN Connect(c, "call") /\ SetR(c, [rcall[c] EXCEPT !.pc = "neg", !.ok = TRUE,
                                                  !.fd = LowestFree, !.conn = Len(rconn) + 1])
       ELSE SetR(c, [rcall[c] EXCEPT !.pc = "neg"]) /\ UNCHANGED <<rfds, rconn>>
    /\ UNCHANGED <<rset, rneg, rup, rnow, rfreed>>

\* the outcome is noted after the connect, another caller's may come first
rpc_conn_open(c) ==
    /\ AtR(c, "neg")
    /\ IF rcall[c].ok
       THEN rpc_neg_ok(RReq(c).target) /\ SetR(c, [rcall[c] EXCEPT !.pc = "send"])
       ELSE rpc_neg_fail(RReq(c).target) /\ SetR(c, [rcall[c] EXCEPT !.pc = "idle", !.rc = "SYS_SOCKET"])
    /\ UNCHANGED <<rset, rfds, rconn, rup, rnow, rfreed>>

\* what a descriptor means to this caller now
Peer(c) == IF rcall[c].fd \in DOMAIN rfds THEN {rfds[rcall[c].fd]} ELSE {}
rpc_conn_send(c) ==
    /\ AtR(c, "send")
    /\ \/ /\ \E p \in Peer(c) : ~rconn[p].closed /\ rconn' = [rconn EXCEPT ![p].asked = TRUE]
          /\ SetR(c, [rcall[c] EXCEPT !.pc = "recv"])
          /\ UNCHANGED <<rset, rfds, rneg, rup, rnow, rfreed>>
       \/ (\A p \in Peer(c) : rconn[p].closed) /\ Ends(c, rcall[c], "SYS_SOCKET")

\* rpc_complete: a whole JSON value is there
rpc_complete(c, got) == Len(got) = RReq(c).len
Unread(p) == rconn[p].sent > rconn[p].read
HangUp(p) == rconn[p].closed

\* one chunk is read; too much is an error; a caller of a stream hands it on
ReadChunk(c, p, drain) ==
    LET got == Append(rcall[c].got, p)
        r == [rcall[c] EXCEPT !.got = got]
    IN /\ rconn' = [rconn EXCEPT ![p].read = @ + 1]
       /\ SetR(c, IF RReq(c).stream THEN r
                  ELSE IF Len(got) > RMaxResp THEN [rcall[c] EXCEPT !.pc = "close", !.rc = "OUT_OF_MEMORY"]
                  ELSE IF rpc_complete(c, got) THEN [r EXCEPT !.pc = "close", !.rc = "SUCCESS"]
                  ELSE [r EXCEPT !.pc = IF drain THEN "drain" ELSE "recv"])
       /\ UNCHANGED <<rset, rfds, rneg, rup, rnow, rfreed>>

\* a mutant: hangup is looked at before what can be read
hangup_first(c, p) ==
    IF HangUp(p) THEN Ends(c, rcall[c], "SYS_SOCKET") ELSE ReadChunk(c, p, FALSE)
\* poll said readable: read first, then see to the hangup
ReadFirst(c, p) == ReadChunk(c, p, HangUp(p))

\* a turn of rpc_recv_resp: budget, cancel, poll, recv.  With nothing to read a
\* closed peer shows as end of file or as a bare hangup.
rpc_recv_resp(c) ==
    /\ AtR(c, "recv") /\ ~RReq(c).stream
    /\ \/ rnow >= rcall[c].end /\ Ends(c, rcall[c], "TIMEOUT")
       \/ rnow < rcall[c].end /\ Peer(c) = {} /\ Ends(c, rcall[c], "SYS_SOCKET")
       \/ rnow < rcall[c].end /\ \E p \in Peer(c) : Unread(p) /\ ReadFirst(c, p)
       \/ /\ rnow < rcall[c].end
          /\ \E p \in Peer(c) : ~Unread(p) /\ HangUp(p)
          /\ \E rc \in {"SYS_SOCKET", "PROTOCOL"} : Ends(c, rcall[c], rc)

\* a turn of the stream's loop: each chunk is handed on, and the end of the
\* connection, whenever it comes, is the end of the stream
daemon_rpc_call_stream(c) ==
    /\ AtR(c, "recv") /\ RReq(c).stream
    /\ \/ rnow >= rcall[c].end /\ Ends(c, rcall[c], "TIMEOUT")
       \/ rnow < rcall[c].end /\ \E p \in Peer(c) : Unread(p) /\ ReadChunk(c, p, FALSE)
       \/ /\ rnow < rcall[c].end
          /\ \A p \in Peer(c) : ~Unread(p) /\ HangUp(p)
          /\ Ends(c, rcall[c], IF Peer(c) = {} THEN "SYS_SOCKET" ELSE "SUCCESS")

\* after a hangup: read what was sent before it, to the end
rpc_drain(c) ==
    /\ AtR(c, "drain")
    /\ \/ rnow >= rcall[c].end /\ Ends(c, rcall[c], "TIMEOUT")
       \/ rnow < rcall[c].end /\ Peer(c) = {} /\ Ends(c, rcall[c], "SYS_SOCKET")
       \/ rnow < rcall[c].end /\ \E p \in Peer(c) : Unread(p) /\ ReadChunk(c, p, TRUE)
       \/ rnow < rcall[c].end /\ \E p \in Peer(c) : ~Unread(p) /\ Ends(c, rcall[c], "PROTOCOL")

\* the token is set: the connection is closed, the cancel request goes over a
\* new one, and the caller closes the first number once more
rpc_cancel(c) ==
    \/ /\ AtR(c, "recv") /\ RReq(c).token /\ ~RReq(c).stream /\ rnow < rcall[c].end
       /\ rpc_close_fd(c, rcall[c].fd)
       /\ SetR(c, [rcall[c] EXCEPT !.pc = "cancel"])
       /\ UNCHANGED <<rset, rconn, rneg, rup, rnow>>
    \/ /\ AtR(c, "cancel")
       /\ IF rup /\ ~rpc_neg_blocked(RReq(c).target)
          THEN /\ Connect(c, "cancel") /\ rpc_neg_ok(RReq(c).target)
               /\ SetR(c, [rcall[c] EXCEPT !.pc = "cancelled", !.cfd = LowestFree])
          ELSE /\ SetR(c, [rcall[c] EXCEPT !.pc = "close", !.rc = "CANCELED"])
               /\ IF rup THEN UNCHANGED rneg ELSE rpc_neg_fail(RReq(c).target)
               /\ UNCHANGED <<rfds, rconn>>
       /\ UNCHANGED <<rset, rup, rnow, rfreed>>
    \/ /\ AtR(c, "cancelled")
       /\ rpc_close_fd(c, rcall[c].cfd)
       /\ SetR(c, [rcall[c] EXCEPT !.pc = "close", !.rc = "CANCELED"])
       /\ UNCHANGED <<rset, rconn, rneg, rup, rnow>>

\* an error object maps to a class of codes; no result is a protocol error
rpc_json_err(code) ==
    CASE code = -32700 -> "PROTOCOL"
      [] code \in {-32600, -32602} -> "INVALID_PARAM"
      [] code = -32601 -> "NOT_SUPPORTED"
      [] OTHER -> "GENERIC_FAIL"
\* the caller closes its number and reads the response
daemon_rpc_call_cancelable(c) ==
    /\ AtR(c, "close")
    /\ rpc_close_fd(c, rcall[c].fd)
    /\ LET body == RReq(c).body
           rc == IF rcall[c].rc # "SUCCESS" \/ RReq(c).stream \/ body = 0 THEN rcall[c].rc
                 ELSE IF body = 1 THEN "PROTOCOL" ELSE rpc_json_err(body)
       IN SetR(c, [rcall[c] EXCEPT !.pc = "idle", !.rc = rc])
    /\ UNCHANGED <<rset, rconn, rneg, rup, rnow>>

\* the other end, the target's state and the clock
peer_sends(p) ==
    /\ ~rconn[p].closed /\ rconn[p].asked /\ rconn[p].sent < RReq(rconn[p].owner).len
    /\ rconn' = [rconn EXCEPT ![p].sent = @ + 1]
    /\ UNCHANGED <<rset, rcall, rfds, rneg, rup, rnow, rfreed>>
peer_closes(p) ==
    /\ ~rconn[p].closed /\ rconn[p].role = "call"
    /\ rconn' = [rconn EXCEPT ![p].closed = TRUE]
    /\ UNCHANGED <<rset, rcall, rfds, rneg, rup, rnow, rfreed>>
clock_ticks ==
    /\ rnow < RTime
    /\ rnow' = rnow + 1
    /\ rup' \in BOOLEAN
    /\ UNCHANGED <<rset, rcall, rfds, rconn, rneg, rfreed>>

RNext ==
    \/ \E c \in Callers :
          daemon_rpc_call(c) \/ rpc_connect(c) \/ rpc_conn_open(c) \/ rpc_conn_send(c) \/ rpc_recv_resp(c)
          \/ daemon_rpc_call_stream(c) \/ rpc_drain(c) \/ rpc_cancel(c) \/ daemon_rpc_call_cancelable(c)
    \/ \E p \in Range(rfds) : peer_sends(p) \/ peer_closes(p)
    \/ clock_ticks

-----------------------------------------------------------------------------
\* What a caller may rely on as long as no call has closed another's connection
\* (OwnFdsOnly).  A successful call
\* has the whole response of its own connection.  A response that was sent in
\* full and fits is lost only to the deadline ("checking hangup first would
\* discard the already-arrived complete response", daemon_rpc_client.c:505).  A
\* finished call leaves no descriptor open.  A target nobody ever reached is
\* not backed off (daemon_rpc_neg.c:14), and none for longer than the cap.
RpcHolds == rfreed = {} =>
    /\ \A c \in Callers :
         LET r == rcall[c]
         IN AtR(c, "idle") /\ r.calls > 0 =>
              /\ r.rc = "SUCCESS" /\ ~RReq(c).stream => r.got = [i \in 1..RReq(c).len |-> r.conn]
              /\ r.rc \in {"SYS_SOCKET", "PROTOCOL"} /\ r.conn # 0 /\ ~RReq(c).stream /\ RReq(c).body = 0
                   => rconn[r.conn].sent < RReq(c).len
              /\ \A n \in DOMAIN rfds : rconn[rfds[n]].owner # c
    /\ \A t \in DOMAIN rneg :
         /\ \E p \in DOMAIN rconn : RReq(rconn[p].owner).target = t
         /\ rneg[t].until <= rnow + RNegCap
\* daemon_rpc_client.c:419, "the caller owns the returned fd and must close
\* it": no call closes a connection that belongs to another.
OwnFdsOnly == rfreed = {}
=============================================================================
