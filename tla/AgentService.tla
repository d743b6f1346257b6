---------------------------- MODULE AgentService ----------------------------
(***************************************************************************)
(* The agent service of agent_d (src/agent_d/src/service and               *)
(* monitor/agent_d_monitor.c): the slot table with one runner child per    *)
(* agent, the spawn, invoke, cancel and terminate requests that pool       *)
(* threads execute concurrently, the idle reaper, and the shutdown.        *)
(*                                                                         *)
(* svc->lock and session_lock guard short sections and are part of the     *)
(* atomicity of the actions.  The entry lock of a slot is held across the  *)
(* exchange with the child and is a variable.  The n-th spawn creates the  *)
(* agent id n and, when the fork succeeds, the child n.                    *)
(***************************************************************************)
EXTENDS Integers, FiniteSets

CONSTANTS
    MaxAgents,  \* slots of the table (svc->max_agents)
    MaxSpawn,   \* bound on the number of spawn requests
    MaxUnread,  \* bound on the lines left unread in a child's pipe
    Spawner,    \* pool threads that execute agent.spawn
    Invoker,    \* pool threads that execute agent.invoke
    Request,    \* request ids
    None

ASSUME AgentAssumption ==
    /\ MaxAgents \in Nat \ {0} /\ MaxSpawn \in Nat /\ MaxUnread \in Nat \ {0}
    /\ None \notin Invoker \cup Request \cup (1..MaxSpawn) \cup (1..MaxAgents)

Slot == 1..MaxAgents
Agent == 1..MaxSpawn

VARIABLES
    \* the table
    st,         \* status of a slot
    sid,        \* agent_id of a slot, None when NULL
    child,      \* child_pid and the pipe ends of a slot, None when -1
    lock,       \* the invoke thread that holds entry_lock
    count,      \* agent_count
    index,      \* agent_index
    \* the children
    spawned,    \* number of spawns so far
    alive,      \* children that run
    unread,     \* requests sent and not answered plus answers not read
    answered,   \* how many of them are answers
    torn,       \* children with an answer that was cut off
    \* spawn threads
    spc, sslot, smine, sok, sagent,
    \* invoke threads and their sessions
    ipc, iagent, ireq, islot,
    session,    \* the thread whose token a request id is registered with
    canceled,   \* request ids whose token is set
    \* the reaper and the daemon
    cands,      \* slots the reaper collected and has still to handle
    phase

tableVars == <<st, sid, child, lock, count, index>>
childVars == <<spawned, alive, unread, answered, torn>>
spawnVars == <<spc, sslot, smine, sok, sagent>>
invokeVars == <<ipc, iagent, ireq, islot>>
sessionVars == <<session, canceled>>
vars == <<tableVars, childVars, spawnVars, invokeVars, sessionVars, cands, phase>>

Init ==
    /\ st = [s \in Slot |-> "FREE"]
    /\ sid = [s \in Slot |-> None]
    /\ child = [s \in Slot |-> None]
    /\ lock = [s \in Slot |-> None]
    /\ count = 0
    /\ index = [a \in Agent |-> None]
    /\ spawned = 0
    /\ alive = {}
    /\ unread = [c \in Agent |-> 0]
    /\ answered = [c \in Agent |-> 0]
    /\ torn = {}
    /\ spc = [p \in Spawner |-> "idle"]
    /\ sslot = [p \in Spawner |-> None]
    /\ smine = [p \in Spawner |-> None]
    /\ sok = [p \in Spawner |-> FALSE]
    /\ sagent = [p \in Spawner |-> None]
    /\ ipc = [i \in Invoker |-> "idle"]
    /\ iagent = [i \in Invoker |-> None]
    /\ ireq = [i \in Invoker |-> None]
    /\ islot = [i \in Invoker |-> None]
    /\ session = [r \in Request |-> None]
    /\ canceled = {}
    /\ cands = {}
    /\ phase = "up"

(* Requests the pool has queued are executed until it is joined.           *)
Serving == phase # "destroyed"

-----------------------------------------------------------------------------
(* agent_service_spawn.                                                    *)

(* The first free slot below agent_count, or a new one.                    *)
FreeSlots == {s \in 1..count : st[s] = "FREE"}
NextSlot(s) ==
    IF FreeSlots # {} THEN s \in FreeSlots /\ \A t \in FreeSlots : s <= t
    ELSE s = count + 1

(* Mutant: the slots of terminated agents are reused.                      *)
NextEnded ==
    IF \E s \in 1..count : st[s] \in {"FREE", "TERMINATED"}
    THEN CHOOSE s \in 1..count : st[s] \in {"FREE", "TERMINATED"}
    ELSE count + 1

AcquireReuse(p) ==
    /\ Serving
    /\ spc[p] = "idle"
    /\ spawned < MaxSpawn
    /\ NextEnded <= MaxAgents
    /\ spawned' = spawned + 1
    /\ count' = IF NextEnded > count THEN NextEnded ELSE count
    /\ st' = [st EXCEPT ![NextEnded] = "SPAWNING"]
    /\ sid' = [sid EXCEPT ![NextEnded] = spawned']
    /\ sslot' = [sslot EXCEPT ![p] = NextEnded]
    /\ sagent' = [sagent EXCEPT ![p] = spawned']
    /\ spc' = [spc EXCEPT ![p] = "fork"]
    /\ UNCHANGED <<child, lock, index, alive, unread, answered, torn, smine, sok,
                   invokeVars, sessionVars, cands, phase>>

Acquire(p) ==
    /\ Serving
    /\ spc[p] = "idle"
    /\ spawned < MaxSpawn
    /\ spawned' = spawned + 1
    /\ \E s \in Slot :
         /\ NextSlot(s)
         /\ count' = IF s > count THEN s ELSE count
         /\ st' = [st EXCEPT ![s] = "SPAWNING"]
         /\ sid' = [sid EXCEPT ![s] = spawned']
         /\ sslot' = [sslot EXCEPT ![p] = s]
    /\ sagent' = [sagent EXCEPT ![p] = spawned']
    /\ spc' = [spc EXCEPT ![p] = "fork"]
    /\ UNCHANGED <<child, lock, index, alive, unread, answered, torn, smine, sok,
                   invokeVars, sessionVars, cands, phase>>

Fork(p) ==
    /\ spc[p] = "fork"
    /\ \/ /\ alive' = alive \cup {sagent[p]}
          /\ smine' = [smine EXCEPT ![p] = sagent[p]]
          /\ spc' = [spc EXCEPT ![p] = "handshake"]
       \/ /\ spc' = [spc EXCEPT ![p] = "copy"]
          /\ UNCHANGED <<alive, smine>>
    /\ UNCHANGED <<tableVars, spawned, unread, answered, torn, sslot, sok, sagent,
                   invokeVars, sessionVars, cands, phase>>

(* Mutant: a child that is not ready is given up without being killed.     *)
HandshakeNoKill(p) ==
    /\ spc[p] = "handshake"
    /\ spc' = [spc EXCEPT ![p] = "copy"]
    /\ \/ /\ smine[p] \in alive
          /\ UNCHANGED <<alive, smine>>
       \/ /\ smine' = [smine EXCEPT ![p] = None]
          /\ UNCHANGED alive
    /\ UNCHANGED <<tableVars, spawned, unread, answered, torn, sslot, sok, sagent,
                   invokeVars, sessionVars, cands, phase>>

(* The ready line, or a timeout, an end of file, another line: then the    *)
(* child is killed and reaped.                                             *)
Handshake(p) ==
    /\ spc[p] = "handshake"
    /\ spc' = [spc EXCEPT ![p] = "copy"]
    /\ \/ /\ smine[p] \in alive
          /\ UNCHANGED <<alive, smine>>
       \/ /\ alive' = alive \ {smine[p]}
          /\ smine' = [smine EXCEPT ![p] = None]
    /\ UNCHANGED <<tableVars, spawned, unread, answered, torn, sslot, sok, sagent,
                   invokeVars, sessionVars, cands, phase>>

(* The copy of agent->agent_id, taken without a lock.                      *)
CopyId(p) ==
    /\ spc[p] = "copy"
    /\ sok' = [sok EXCEPT ![p] = smine[p] # None /\ sid[sslot[p]] # None]
    /\ spc' = [spc EXCEPT ![p] = "finish"]
    /\ UNCHANGED <<tableVars, childVars, sslot, smine, sagent,
                   invokeVars, sessionVars, cands, phase>>

EndSpawn(p) ==
    /\ spc' = [spc EXCEPT ![p] = "idle"]
    /\ sslot' = [sslot EXCEPT ![p] = None]
    /\ sagent' = [sagent EXCEPT ![p] = None]

(* agent_spawn_finish up to the release of the entry lock.                 *)
Register(p, s) ==
    /\ child' = [child EXCEPT ![s] = smine[p]]
    /\ index' = [index EXCEPT ![sid[s]] = s]
    /\ st' = [st EXCEPT ![s] = "RUNNING"]
    /\ EndSpawn(p)
    /\ UNCHANGED alive

(* With a NULL id hindex_put fails: the child is killed and the slot freed.*)
(* Without a copy of the id the child is left alone.                       *)
Rollback(p, s) ==
    /\ st' = [st EXCEPT ![s] = "FREE"]
    /\ alive' = IF sok[p] THEN alive \ {smine[p]} ELSE alive
    /\ spc' = [spc EXCEPT ![p] = "release"]
    /\ UNCHANGED <<child, index, sslot, sagent>>

Finish(p) ==
    LET s == sslot[p] IN
    /\ spc[p] = "finish"
    /\ lock[s] = None
    /\ IF sok[p] /\ sid[s] # None THEN Register(p, s) ELSE Rollback(p, s)
    /\ smine' = [smine EXCEPT ![p] = None]
    /\ sok' = [sok EXCEPT ![p] = FALSE]
    /\ UNCHANGED <<sid, lock, count, spawned, unread, answered, torn, invokeVars,
                   sessionVars, cands, phase>>

(* The second half of the failure path, in a critical section of its own.  *)
Release(p) ==
    /\ spc[p] = "release"
    /\ sid' = [sid EXCEPT ![sslot[p]] = None]
    /\ EndSpawn(p)
    /\ UNCHANGED <<st, child, lock, count, index, childVars, smine, sok,
                   invokeVars, sessionVars, cands, phase>>

-----------------------------------------------------------------------------
(* handle_invoke and agent_service_invoke.                                 *)

(* Mutant: a second begin takes over the session of its request id.        *)
BeginReplace(i, a, r) ==
    /\ Serving
    /\ ipc[i] = "idle"
    /\ session' = [session EXCEPT ![r] = i]
    /\ ireq' = [ireq EXCEPT ![i] = r]
    /\ iagent' = [iagent EXCEPT ![i] = a]
    /\ ipc' = [ipc EXCEPT ![i] = "lock"]
    /\ UNCHANGED <<tableVars, childVars, spawnVars, islot, canceled, cands, phase>>

(* A request id that is registered, or a full session table, is refused.   *)
Begin(i, a, r) ==
    /\ Serving
    /\ ipc[i] = "idle"
    /\ session[r] = None
    /\ session' = [session EXCEPT ![r] = i]
    /\ ireq' = [ireq EXCEPT ![i] = r]
    /\ iagent' = [iagent EXCEPT ![i] = a]
    /\ ipc' = [ipc EXCEPT ![i] = "lock"]
    /\ UNCHANGED <<tableVars, childVars, spawnVars, islot, canceled, cands, phase>>

(* agent_run_orchestrate invokes without a session.                        *)
BeginRun(i, a) ==
    /\ Serving
    /\ ipc[i] = "idle"
    /\ iagent' = [iagent EXCEPT ![i] = a]
    /\ ipc' = [ipc EXCEPT ![i] = "lock"]
    /\ UNCHANGED <<tableVars, childVars, spawnVars, ireq, islot, sessionVars, cands, phase>>

(* The lookup, and the entry lock of the slot it found.                    *)
LockEntry(i) ==
    LET s == index[iagent[i]] IN
    /\ ipc[i] = "lock"
    /\ s # None => lock[s] = None
    /\ IF s # None /\ st[s] = "RUNNING" /\ child[s] # None
       THEN /\ lock' = [lock EXCEPT ![s] = i]
            /\ islot' = [islot EXCEPT ![i] = s]
            /\ ipc' = [ipc EXCEPT ![i] = "send"]
       ELSE /\ ipc' = [ipc EXCEPT ![i] = "end"]
            /\ UNCHANGED <<lock, islot>>
    /\ UNCHANGED <<st, sid, child, count, index, childVars, spawnVars, iagent, ireq,
                   sessionVars, cands, phase>>

(* agent_kill_and_reap: the child of the slot is killed and reaped, the    *)
(* pipe with what is in it is closed.                                      *)
KillAndReap(s) ==
    /\ alive' = alive \ {child[s]}
    /\ unread' = [c \in Agent |-> IF c = child[s] THEN 0 ELSE unread[c]]
    /\ answered' = [c \in Agent |-> IF c = child[s] THEN 0 ELSE answered[c]]
    /\ torn' = torn \ {child[s]}
    /\ child' = [child EXCEPT ![s] = None]

KillAndUnlock(i) ==
    LET s == islot[i] IN
    /\ KillAndReap(s)
    /\ lock' = [lock EXCEPT ![s] = None]
    /\ ipc' = [ipc EXCEPT ![i] = "end"]
    /\ islot' = [islot EXCEPT ![i] = None]

(* A write to a child that is gone fails.                                  *)
Send(i) ==
    LET s == islot[i] IN
    /\ ipc[i] = "send"
    /\ IF child[s] \in alive
       THEN /\ unread' = [unread EXCEPT ![child[s]] = @ + 1]
            /\ ipc' = [ipc EXCEPT ![i] = "read"]
            /\ UNCHANGED <<alive, child, lock, islot, answered, torn>>
       ELSE KillAndUnlock(i)
    /\ UNCHANGED <<st, sid, count, index, spawned, spawnVars, iagent, ireq,
                   sessionVars, cands, phase>>

IsCanceled(i) == ireq[i] # None /\ ireq[i] \in canceled

(* A whole line, or AGENT_RESP_BUF_SIZE bytes of a longer one, the rest of *)
(* which stays in the pipe.                                                *)
ReadAnswer(i) ==
    LET s == islot[i]
        c == child[s]
    IN
    /\ ipc[i] = "read"
    /\ ~IsCanceled(i)
    /\ answered[c] > 0
    /\ \/ /\ unread' = [unread EXCEPT ![c] = @ - 1]
          /\ answered' = [answered EXCEPT ![c] = @ - 1]
          /\ UNCHANGED torn
       \/ /\ unread[c] <= MaxUnread
          /\ torn' = torn \cup {c}
          /\ UNCHANGED <<unread, answered>>
    /\ lock' = [lock EXCEPT ![s] = None]
    /\ ipc' = [ipc EXCEPT ![i] = "end"]
    /\ islot' = [islot EXCEPT ![i] = None]
    /\ UNCHANGED <<st, sid, child, count, index, spawned, alive, spawnVars, iagent, ireq,
                   sessionVars, cands, phase>>

(* The token was set: the read looks at it before every byte.              *)
ReadCancel(i) ==
    /\ ipc[i] = "read"
    /\ IsCanceled(i)
    /\ KillAndUnlock(i)
    /\ UNCHANGED <<st, sid, count, index, spawned, spawnVars, iagent, ireq,
                   sessionVars, cands, phase>>

(* Mutant: the child survives the timeout of an invoke.                    *)
ReadFailKeep(i) ==
    /\ ipc[i] = "read"
    /\ ~IsCanceled(i)
    /\ lock' = [lock EXCEPT ![islot[i]] = None]
    /\ ipc' = [ipc EXCEPT ![i] = "end"]
    /\ islot' = [islot EXCEPT ![i] = None]
    /\ UNCHANGED <<st, sid, child, count, index, childVars, spawnVars, iagent, ireq,
                   sessionVars, cands, phase>>

(* Mutant: a read without a deadline.                                      *)
ReadFailEof(i) ==
    /\ ipc[i] = "read"
    /\ ~IsCanceled(i)
    /\ child[islot[i]] \notin alive
    /\ KillAndUnlock(i)
    /\ UNCHANGED <<st, sid, count, index, spawned, spawnVars, iagent, ireq,
                   sessionVars, cands, phase>>

(* The deadline, or the end of file of a child that is gone.               *)
ReadFail(i) ==
    /\ ipc[i] = "read"
    /\ ~IsCanceled(i)
    /\ KillAndUnlock(i)
    /\ UNCHANGED <<st, sid, count, index, spawned, spawnVars, iagent, ireq,
                   sessionVars, cands, phase>>

(* agent_service_invoke_end frees the token with the session.              *)
End(i) ==
    /\ ipc[i] = "end"
    /\ IF ireq[i] # None
       THEN /\ session' = [session EXCEPT ![ireq[i]] = None]
            /\ canceled' = canceled \ {ireq[i]}
       ELSE UNCHANGED sessionVars
    /\ ipc' = [ipc EXCEPT ![i] = "idle"]
    /\ ireq' = [ireq EXCEPT ![i] = None]
    /\ iagent' = [iagent EXCEPT ![i] = None]
    /\ UNCHANGED <<tableVars, childVars, spawnVars, islot, cands, phase>>

-----------------------------------------------------------------------------
(* The other requests, the reaper, time, the children, and the shutdown.   *)

Cancel(r) ==
    /\ Serving
    /\ session[r] # None
    /\ canceled' = canceled \cup {r}
    /\ UNCHANGED <<tableVars, childVars, spawnVars, invokeVars, session, cands, phase>>

(* What terminate and the reaper do to a slot under its entry lock.        *)
EndAgent(s) ==
    /\ KillAndReap(s)
    /\ st' = [st EXCEPT ![s] = "TERMINATED"]
    /\ UNCHANGED <<sid, lock, count, index, spawned, spawnVars, invokeVars,
                   sessionVars, phase>>

Terminate(a) ==
    /\ Serving
    /\ index[a] # None
    /\ lock[index[a]] = None
    /\ EndAgent(index[a])
    /\ UNCHANGED cands

(* The agents idle for max_idle_s are collected under svc->lock; time is   *)
(* left out, so any of the running agents may be among them ...            *)
ReapScan ==
    /\ phase \in {"up", "draining"}
    /\ cands = {}
    /\ cands' \in SUBSET {s \in 1..count : st[s] = "RUNNING" /\ child[s] # None}
    /\ UNCHANGED <<tableVars, childVars, spawnVars, invokeVars, sessionVars, phase>>

(* ... and ended one by one under their entry locks.                       *)
ReapOne(s) ==
    /\ s \in cands
    /\ lock[s] = None
    /\ cands' = cands \ {s}
    /\ IF st[s] = "RUNNING" /\ child[s] # None THEN EndAgent(s)
       ELSE UNCHANGED <<tableVars, childVars, spawnVars, invokeVars, sessionVars, phase>>

ChildAnswers(c) ==
    /\ c \in alive
    /\ answered[c] < unread[c]
    /\ answered' = [answered EXCEPT ![c] = @ + 1]
    /\ UNCHANGED <<tableVars, spawned, alive, unread, torn, spawnVars, invokeVars,
                   sessionVars, cands, phase>>

ChildExits(c) ==
    /\ c \in alive
    /\ alive' = alive \ {c}
    /\ UNCHANGED <<tableVars, spawned, unread, answered, torn, spawnVars, invokeVars,
                   sessionVars, cands, phase>>

(* svc_teardown: every registered invoke is canceled ...                   *)
Teardown ==
    /\ phase = "up"
    /\ phase' = "draining"
    /\ canceled' = {r \in Request : session[r] # None}
    /\ UNCHANGED <<tableVars, childVars, spawnVars, invokeVars, session, cands>>

(* ... the drain ends when no session is left or after ten seconds, and    *)
(* the reaper is joined.                                                   *)
DrainOver ==
    /\ phase = "draining"
    /\ cands = {}
    /\ phase' = "joining"
    /\ UNCHANGED <<tableVars, childVars, spawnVars, invokeVars, sessionVars, cands>>

(* The pool is joined, then agent_service_destroy kills what is left.      *)
Destroy ==
    /\ phase = "joining"
    /\ \A p \in Spawner : spc[p] = "idle"
    /\ \A i \in Invoker : ipc[i] = "idle"
    /\ phase' = "destroyed"
    /\ alive' = alive \ {child[s] : s \in 1..count}
    /\ unread' = [c \in Agent |-> 0]
    /\ answered' = [c \in Agent |-> 0]
    /\ torn' = {}
    /\ child' = [s \in Slot |-> None]
    /\ sid' = [s \in Slot |-> None]
    /\ index' = [a \in Agent |-> None]
    /\ count' = 0
    /\ UNCHANGED <<st, lock, spawned, spawnVars, invokeVars, sessionVars, cands>>

-----------------------------------------------------------------------------
SpawnStep(p) == Fork(p) \/ Handshake(p) \/ CopyId(p) \/ Finish(p) \/ Release(p)
InvokeStep(i) == Send(i) \/ ReadAnswer(i) \/ ReadCancel(i) \/ ReadFail(i) \/ End(i)

Next ==
    \/ \E p \in Spawner : Acquire(p) \/ SpawnStep(p)
    \/ \E i \in Invoker, a \in 1..spawned : BeginRun(i, a) \/ \E r \in Request : Begin(i, a, r)
    \/ \E i \in Invoker : LockEntry(i) \/ InvokeStep(i)
    \/ \E r \in Request : Cancel(r)
    \/ \E a \in Agent : Terminate(a) \/ ChildAnswers(a) \/ ChildExits(a)
    \/ ReapScan
    \/ \E s \in Slot : ReapOne(s)
    \/ Teardown \/ DrainOver \/ Destroy

Spec == Init /\ [][Next]_vars

(* An invoke thread that does not wait for a lock goes on, and a read ends *)
(* at its deadline.  Nothing is assumed of the order in which a lock is    *)
(* granted.                                                                *)
Fairness == \A i \in Invoker : WF_vars(InvokeStep(i))

FairSpec == Spec /\ Fairness

-----------------------------------------------------------------------------

(* No runner process is leaked: a child that runs is the child of a        *)
(* RUNNING slot or of a spawn in progress, and none outlives the daemon.   *)
ChildrenTracked ==
    /\ \A c \in alive :
         \/ \E s \in Slot : child[s] = c /\ st[s] = "RUNNING"
         \/ \E p \in Spawner : smine[p] = c
    /\ phase = "destroyed" => alive = {}

(* The answer an invoke reads is the answer to its own request: between    *)
(* two exchanges the pipe of a live child is empty, and during one it      *)
(* holds one line at most, unless an answer was cut off before.            *)
PipeIsClean ==
    \A s \in Slot : child[s] # None /\ child[s] \notin torn =>
        unread[child[s]] = IF lock[s] # None /\ ipc[lock[s]] = "read" THEN 1 ELSE 0

(* The token an invoke polls is not freed under it: its session is         *)
(* registered until it ends, for no other thread.                          *)
TokenAlive ==
    \A i \in Invoker : ireq[i] # None => session[ireq[i]] = i

(* An agent id leads to the child that was spawned for it, or to none,     *)
(* however slots are freed and reused.                                     *)
RightChild ==
    \A a \in Agent : index[a] # None => child[index[a]] \in {a, None}

(* An invoke that has got hold of its agent returns and leaves the agent   *)
(* to the next one, even if the child never answers and nobody cancels.    *)
ExchangeEnds ==
    \A i \in Invoker : ipc[i] \in {"send", "read", "end"} ~> ipc[i] = "idle"

(* service.h: a running agent is registered under its id.                  *)
RunningIsRegistered ==
    phase # "destroyed" =>
        \A s \in Slot : st[s] = "RUNNING" => sid[s] # None /\ index[sid[s]] = s
=============================================================================
