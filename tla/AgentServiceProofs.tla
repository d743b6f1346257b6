------------------------- MODULE AgentServiceProofs -------------------------
(***************************************************************************)
(* Proofs about AgentService, for every number of slots, threads and       *)
(* requests: the inductive invariant and its parts, a lemma for each       *)
(* action, and what follows for the pipes, the sessions, the registered    *)
(* agents and the children.                                                *)
(***************************************************************************)
EXTENDS AgentService, TLAPS

(* A spawn that owns its slot: between agent_slot_acquire and the end of   *)
(* agent_spawn_finish.                                                     *)
Active(p) == spc[p] \in {"fork", "handshake", "copy", "finish"}

(* An invoke that is between the lock and the unlock of its entry.         *)
Holds(i) == ipc[i] \in {"send", "read"}

-----------------------------------------------------------------------------
(* The inductive invariant: types ...                                      *)

TableType ==
    /\ st \in [Slot -> {"FREE", "SPAWNING", "RUNNING", "TERMINATED"}]
    /\ sid \in [Slot -> Agent \cup {None}]
    /\ child \in [Slot -> Agent \cup {None}]
    /\ lock \in [Slot -> Invoker \cup {None}]
    /\ count \in 0..MaxAgents
    /\ index \in [Agent -> Slot \cup {None}]

ChildType ==
    /\ spawned \in 0..MaxSpawn
    /\ alive \in SUBSET Agent
    /\ unread \in [Agent -> Nat]
    /\ answered \in [Agent -> Nat]
    /\ torn \in SUBSET Agent

SpawnType ==
    /\ spc \in [Spawner -> {"idle", "fork", "handshake", "copy", "finish", "release"}]
    /\ sslot \in [Spawner -> Slot \cup {None}]
    /\ smine \in [Spawner -> Agent \cup {None}]
    /\ sok \in [Spawner -> BOOLEAN]
    /\ sagent \in [Spawner -> Agent \cup {None}]

InvokeType ==
    /\ ipc \in [Invoker -> {"idle", "lock", "send", "read", "end"}]
    /\ iagent \in [Invoker -> Agent \cup {None}]
    /\ ireq \in [Invoker -> Request \cup {None}]
    /\ islot \in [Invoker -> Slot \cup {None}]
    /\ session \in [Request -> Invoker \cup {None}]
    /\ canceled \in SUBSET Request

DaemonType ==
    /\ cands \in SUBSET Slot
    /\ phase \in {"up", "draining", "joining", "destroyed"}

TypeOK == TableType /\ ChildType /\ SpawnType /\ InvokeType /\ DaemonType

(* ... a spawn owns a SPAWNING slot and an agent id that is not yet        *)
(* registered ...                                                          *)
SpawnState ==
    \A p \in Spawner :
        /\ spc[p] # "idle" =>
             /\ sslot[p] \in Slot /\ sagent[p] \in Agent /\ sagent[p] <= spawned
             /\ phase # "destroyed"
        /\ Active(p) =>
             /\ st[sslot[p]] = "SPAWNING"
             /\ sid[sslot[p]] \in {sagent[p], None}
             /\ index[sagent[p]] = None
        /\ smine[p] # None => Active(p) /\ smine[p] = sagent[p]
        /\ spc[p] = "handshake" => smine[p] = sagent[p]
        /\ sok[p] => spc[p] = "finish" /\ smine[p] # None

(* ... no two spawns own the same slot or agent ...                        *)
SpawnApart ==
    \A p, q \in Spawner : Active(p) /\ Active(q) /\ p # q =>
        sslot[p] # sslot[q] /\ sagent[p] # sagent[q]

(* ... only a RUNNING slot below agent_count has a child ...               *)
SlotState ==
    \A s \in Slot :
        /\ child[s] # None => st[s] = "RUNNING" /\ s <= count /\ child[s] <= spawned
        /\ st[s] # "FREE" /\ phase # "destroyed" => s <= count

(* ... one slot per child, none of them the child of a spawn in progress   *)
ChildApart ==
    \A s, t \in Slot : child[s] # None /\ child[s] = child[t] => s = t

ChildFresh ==
    \A s \in Slot, p \in Spawner : Active(p) => child[s] # sagent[p]

(* ... the index names slots of agents that were registered ...            *)
IndexState ==
    \A a \in Agent : index[a] # None =>
        a <= spawned /\ st[index[a]] \in {"RUNNING", "TERMINATED"}

(* ... an entry lock is held for the exchange with a child and by the      *)
(* thread that works on the slot ...                                       *)
LockHeld ==
    \A s \in Slot : lock[s] # None =>
        Holds(lock[s]) /\ islot[lock[s]] = s /\ child[s] # None

HolderLocks ==
    \A i \in Invoker : Holds(i) => islot[i] \in Slot /\ lock[islot[i]] = i

(* ... an invoke has an agent id from its request ...                      *)
CallerAgent ==
    \A i \in Invoker : ipc[i] # "idle" => iagent[i] \in Agent

(* ... a child has no more answers than requests, and a pipe that nobody   *)
(* has written to is empty ...                                             *)
AnswersBelow ==
    \A c \in Agent : answered[c] <= unread[c]

PipeFresh ==
    \A c \in Agent : c > spawned => unread[c] = 0 /\ c \notin alive

PipeSpawn ==
    \A p \in Spawner : Active(p) => unread[sagent[p]] = 0

(* ... and a thread without a request has no session.                      *)
SessionState == \A i \in Invoker : ipc[i] = "idle" => ireq[i] = None

IInv ==
    /\ TypeOK
    /\ SpawnState /\ SpawnApart
    /\ SlotState /\ ChildApart /\ ChildFresh /\ IndexState
    /\ LockHeld /\ HolderLocks /\ CallerAgent
    /\ AnswersBelow /\ PipeFresh /\ PipeSpawn /\ SessionState
    /\ PipeIsClean /\ TokenAlive /\ RightChild

-----------------------------------------------------------------------------
(* None is neither a slot, an agent, a thread nor a request id.            *)
LEMMA NoneFacts ==
    /\ None \notin Slot /\ None \notin Agent /\ None \notin Invoker /\ None \notin Request
    /\ \A s \in Slot : s \in Nat
    /\ \A a \in Agent : a \in Nat
BY AgentAssumption, SMTT(60) DEF Slot, Agent

(* agent_service_create leaves an empty table.                             *)
LEMMA InitIInv == Init => IInv
<1> SUFFICES ASSUME Init PROVE IInv
    OBVIOUS
<1> USE NoneFacts, AgentAssumption DEF Init
<1>1. TypeOK
    BY SMTT(60) DEF TypeOK, TableType, ChildType, SpawnType, InvokeType, DaemonType
<1>2. SpawnState /\ SpawnApart /\ SlotState /\ ChildApart /\ ChildFresh /\ IndexState
    BY Zenon DEF SpawnState, SpawnApart, SlotState, ChildApart, ChildFresh, IndexState, Active
<1>3. /\ LockHeld /\ HolderLocks /\ CallerAgent /\ SessionState
      /\ AnswersBelow /\ PipeFresh /\ PipeSpawn
    BY DEF LockHeld, HolderLocks, CallerAgent, SessionState,
           AnswersBelow, PipeFresh, PipeSpawn, Active, Holds
<1>4. PipeIsClean /\ TokenAlive /\ RightChild
    BY Zenon DEF PipeIsClean, TokenAlive, RightChild
<1> QED
    BY <1>1, <1>2, <1>3, <1>4, Zenon DEF IInv

(* Each part survives a step that leaves its variables alone.              *)
LEMMA FrameTypes ==
    ASSUME IInv
    PROVE  /\ (UNCHANGED <<st, sid, child, lock, count, index>> => TableType')
           /\ (UNCHANGED <<spawned, alive, unread, answered, torn>> => ChildType')
           /\ (UNCHANGED <<spc, sslot, smine, sok, sagent>> => SpawnType')
           /\ (UNCHANGED <<ipc, iagent, ireq, islot, session, canceled>> => InvokeType')
           /\ (UNCHANGED <<cands, phase>> => DaemonType')
<1>1. (UNCHANGED <<st, sid, child, lock, count, index>> => TableType')
    BY Zenon DEF IInv, TypeOK, TableType
<1>2. (UNCHANGED <<spawned, alive, unread, answered, torn>> => ChildType')
    BY Zenon DEF IInv, TypeOK, ChildType
<1>3. (UNCHANGED <<spc, sslot, smine, sok, sagent>> => SpawnType')
    BY Zenon DEF IInv, TypeOK, SpawnType
<1>4. (UNCHANGED <<ipc, iagent, ireq, islot, session, canceled>> => InvokeType')
    BY Zenon DEF IInv, TypeOK, InvokeType
<1>5. (UNCHANGED <<cands, phase>> => DaemonType')
    BY Zenon DEF IInv, TypeOK, DaemonType
<1> QED
    BY <1>1, <1>2, <1>3, <1>4, <1>5, Zenon

(* ... the spawns in progress ...                                          *)
LEMMA FrameSpawn ==
    ASSUME IInv
    PROVE  /\ (UNCHANGED <<spc, sslot, sagent, spawned, phase, st, sid, index, smine, sok>> => SpawnState')
           /\ (UNCHANGED <<spc, sslot, sagent>> => SpawnApart')
           /\ (UNCHANGED <<unread, spc, sagent>> => PipeSpawn')
           /\ (UNCHANGED <<child, spc, sagent>> => ChildFresh')
<1>1. (UNCHANGED <<spc, sslot, sagent, spawned, phase, st, sid, index, smine, sok>> => SpawnState')
    BY SMTT(60) DEF IInv, SpawnState, Active
<1>2. (UNCHANGED <<spc, sslot, sagent>> => SpawnApart')
    BY Zenon DEF IInv, SpawnApart, Active
<1>3. (UNCHANGED <<unread, spc, sagent>> => PipeSpawn')
    BY Zenon DEF IInv, PipeSpawn, Active
<1>4. (UNCHANGED <<child, spc, sagent>> => ChildFresh')
    BY Zenon DEF IInv, ChildFresh, Active
<1> QED
    BY <1>1, <1>2, <1>3, <1>4, Zenon

(* ... the slots and the index ...                                         *)
LEMMA FrameTable ==
    ASSUME IInv
    PROVE  /\ (UNCHANGED <<child, st, count, spawned, phase>> => SlotState')
           /\ (UNCHANGED <<child>> => ChildApart')
           /\ (UNCHANGED <<index, spawned, st>> => IndexState')
           /\ (UNCHANGED <<index, child>> => RightChild')
<1>1. (UNCHANGED <<child, st, count, spawned, phase>> => SlotState')
    BY Zenon DEF IInv, SlotState
<1>2. (UNCHANGED <<child>> => ChildApart')
    BY Zenon DEF IInv, ChildApart
<1>3. (UNCHANGED <<index, spawned, st>> => IndexState')
    BY Zenon DEF IInv, IndexState
<1>4. (UNCHANGED <<index, child>> => RightChild')
    BY Zenon DEF IInv, RightChild
<1> QED
    BY <1>1, <1>2, <1>3, <1>4, Zenon

(* ... the invokes and their locks ...                                     *)
LEMMA FrameInvoke ==
    ASSUME IInv
    PROVE  /\ (UNCHANGED <<lock, ipc, islot, child>> => LockHeld')
           /\ (UNCHANGED <<lock, ipc, islot>> => HolderLocks')
           /\ (UNCHANGED <<ipc, iagent>> => CallerAgent')
           /\ (UNCHANGED <<ipc, ireq>> => SessionState')
           /\ (UNCHANGED <<ireq, session>> => TokenAlive')
<1>1. (UNCHANGED <<lock, ipc, islot, child>> => LockHeld')
    BY Zenon DEF IInv, LockHeld, Holds
<1>2. (UNCHANGED <<lock, ipc, islot>> => HolderLocks')
    BY Zenon DEF IInv, HolderLocks, Holds
<1>3. (UNCHANGED <<ipc, iagent>> => CallerAgent')
    BY Zenon DEF IInv, CallerAgent
<1>4. (UNCHANGED <<ipc, ireq>> => SessionState')
    BY Zenon DEF IInv, SessionState
<1>5. (UNCHANGED <<ireq, session>> => TokenAlive')
    BY Zenon DEF IInv, TokenAlive
<1> QED
    BY <1>1, <1>2, <1>3, <1>4, <1>5, Zenon

(* ... the pipes of the children.                                          *)
LEMMA FramePipe ==
    ASSUME IInv
    PROVE  /\ (UNCHANGED <<answered, unread>> => AnswersBelow')
           /\ (UNCHANGED <<unread, spawned, alive>> => PipeFresh')
           /\ (UNCHANGED <<child, torn, unread, lock, ipc>> => PipeIsClean')
<1>1. (UNCHANGED <<answered, unread>> => AnswersBelow')
    BY Zenon DEF IInv, AnswersBelow
<1>2. (UNCHANGED <<unread, spawned, alive>> => PipeFresh')
    BY Zenon DEF IInv, PipeFresh
<1>3. (UNCHANGED <<child, torn, unread, lock, ipc>> => PipeIsClean')
    BY Zenon DEF IInv, PipeIsClean
<1> QED
    BY <1>1, <1>2, <1>3, Zenon

(* fork(): the child is the spawn's own, or there is none.                 *)
LEMMA ForkInv ==
    ASSUME IInv, NEW p \in Spawner, Fork(p)
    PROVE  IInv'
<1> USE NoneFacts
<1>a. /\ TableType /\ ChildType /\ SpawnType /\ SpawnState /\ SpawnApart
      /\ ChildFresh /\ PipeFresh /\ PipeSpawn
    BY Zenon DEF IInv, TypeOK
<1>e. /\ spc[p] = "fork"
      /\ alive' \in SUBSET (alive \cup {sagent[p]})
      /\ \/ /\ smine' = [smine EXCEPT ![p] = sagent[p]]
            /\ spc' = [spc EXCEPT ![p] = "handshake"]
         \/ /\ smine' = smine
            /\ spc' = [spc EXCEPT ![p] = "copy"]
    BY Zenon DEF Fork
<1>u. UNCHANGED <<st, sid, child, lock, count, index, spawned, unread, answered, torn, sslot,
                  sok, sagent, ipc, iagent, ireq, islot, session, canceled, cands, phase>>
    BY Zenon DEF Fork, tableVars, childVars, spawnVars, invokeVars, sessionVars
<1>1. TableType' /\ InvokeType' /\ DaemonType'
    BY <1>u, FrameTypes, Zenon
<1>2. SlotState' /\ ChildApart' /\ IndexState' /\ RightChild'
    BY <1>u, FrameTable, Zenon
<1>3. LockHeld' /\ HolderLocks' /\ CallerAgent' /\ SessionState' /\ TokenAlive'
    BY <1>u, FrameInvoke, Zenon
<1>4. AnswersBelow' /\ PipeIsClean'
    BY <1>u, FramePipe, Zenon
<1> USE <1>a, <1>e, <1>u
<1>5. ChildType'
    BY SMTT(60) DEF ChildType, SpawnState, Active
<1>6. SpawnType'
    BY Zenon DEF SpawnType, SpawnState, Active
<1>7. SpawnState'
    BY SMTT(60) DEF SpawnState, SpawnType, Active
<1>8. SpawnApart'
    BY SMTT(60) DEF SpawnApart, SpawnType, Active
<1>9. ChildFresh'
    BY Zenon DEF ChildFresh, TableType, SpawnType, Active
<1>10. PipeFresh'
    BY SMTT(60) DEF PipeFresh, ChildType, SpawnState, Active, SpawnType
<1>11. PipeSpawn'
    BY SMTT(60) DEF PipeSpawn, SpawnType, Active, SpawnState
<1> HIDE <1>a, <1>e, <1>u
<1> QED
    BY <1>1, <1>2, <1>3, <1>4, <1>5, <1>6, <1>7, <1>8, <1>9,
       <1>10, <1>11, Zenon DEF IInv, TypeOK

(* The handshake: the child is ready, or killed.                           *)
LEMMA HandshakeInv ==
    ASSUME IInv, NEW p \in Spawner, Handshake(p)
    PROVE  IInv'
<1> USE NoneFacts
<1>a. /\ TableType /\ ChildType /\ SpawnType /\ SpawnState /\ SpawnApart
      /\ ChildFresh /\ PipeFresh /\ PipeSpawn
    BY Zenon DEF IInv, TypeOK
<1>e. /\ spc[p] = "handshake"
      /\ alive' \in SUBSET alive
      /\ smine' = [smine EXCEPT ![p] = None] \/ smine' = smine
      /\ spc' = [spc EXCEPT ![p] = "copy"]
    BY Zenon DEF Handshake
<1>u. UNCHANGED <<st, sid, child, lock, count, index, spawned, unread, answered, torn, sslot,
                  sok, sagent, ipc, iagent, ireq, islot, session, canceled, cands, phase>>
    BY Zenon DEF Handshake, tableVars, childVars, spawnVars, invokeVars, sessionVars
<1>1. TableType' /\ InvokeType' /\ DaemonType'
    BY <1>u, FrameTypes, Zenon
<1>2. SlotState' /\ ChildApart' /\ IndexState' /\ RightChild'
    BY <1>u, FrameTable, Zenon
<1>3. LockHeld' /\ HolderLocks' /\ CallerAgent' /\ SessionState' /\ TokenAlive'
    BY <1>u, FrameInvoke, Zenon
<1>4. AnswersBelow' /\ PipeIsClean'
    BY <1>u, FramePipe, Zenon
<1> USE <1>a, <1>e, <1>u
<1>5. ChildType'
    BY Zenon DEF ChildType
<1>6. SpawnType'
    BY Zenon DEF SpawnType
<1>7. SpawnState'
    BY SMTT(60) DEF SpawnState, SpawnType, Active
<1>8. SpawnApart'
    BY SMTT(60) DEF SpawnApart, SpawnType, Active
<1>9. ChildFresh'
    BY Zenon DEF ChildFresh, TableType, SpawnType, Active
<1>10. PipeFresh'
    BY Zenon DEF PipeFresh, ChildType
<1>11. PipeSpawn'
    BY Zenon DEF PipeSpawn, SpawnType, Active
<1> HIDE <1>a, <1>e, <1>u
<1> QED
    BY <1>1, <1>2, <1>3, <1>4, <1>5, <1>6, <1>7, <1>8, <1>9,
       <1>10, <1>11, Zenon DEF IInv, TypeOK

(* The copy of the agent id for the answer.                                *)
LEMMA CopyIdInv ==
    ASSUME IInv, NEW p \in Spawner, CopyId(p)
    PROVE  IInv'
<1> USE NoneFacts
<1>a. /\ TableType /\ SpawnType /\ SpawnState /\ SpawnApart /\ ChildFresh
      /\ PipeSpawn
    BY Zenon DEF IInv, TypeOK
<1>e. /\ spc[p] = "copy"
      /\ \E b \in BOOLEAN : (b => smine[p] # None) /\ sok' = [sok EXCEPT ![p] = b]
      /\ spc' = [spc EXCEPT ![p] = "finish"]
    BY Zenon DEF CopyId
<1>u. UNCHANGED <<st, sid, child, lock, count, index, spawned, alive, unread, answered, torn,
                  sslot, smine, sagent, ipc, iagent, ireq, islot, session, canceled, cands, phase>>
    BY Zenon DEF CopyId, tableVars, childVars, spawnVars, invokeVars, sessionVars
<1>1. TableType' /\ ChildType' /\ InvokeType' /\ DaemonType'
    BY <1>u, FrameTypes, Zenon
<1>2. SlotState' /\ ChildApart' /\ IndexState' /\ RightChild'
    BY <1>u, FrameTable, Zenon
<1>3. LockHeld' /\ HolderLocks' /\ CallerAgent' /\ SessionState' /\ TokenAlive'
    BY <1>u, FrameInvoke, Zenon
<1>4. AnswersBelow' /\ PipeFresh' /\ PipeIsClean'
    BY <1>u, FramePipe, Zenon
<1> USE <1>a, <1>e, <1>u
<1>5. SpawnType'
    BY Zenon DEF SpawnType
<1>6. SpawnState'
    BY SMTT(60) DEF SpawnState, SpawnType, Active
<1>7. SpawnApart'
    BY SMTT(60) DEF SpawnApart, SpawnType, Active
<1>8. ChildFresh'
    BY Zenon DEF ChildFresh, TableType, SpawnType, Active
<1>9. PipeSpawn'
    BY Zenon DEF PipeSpawn, SpawnType, Active
<1> HIDE <1>a, <1>e, <1>u
<1> QED
    BY <1>1, <1>2, <1>3, <1>4, <1>5, <1>6, <1>7, <1>8, <1>9, Zenon DEF IInv, TypeOK

(* agent_spawn_finish registers the agent under its id.                    *)
LEMMA RegisterInv ==
    ASSUME IInv, NEW p \in Spawner, NEW s \in Slot, NEW a \in Agent,
           Finish(p), sok[p], sid[s] = a, smine[p] = a, sslot[p] = s, sagent[p] = a
    PROVE  IInv'
<1> USE NoneFacts
<1>a. /\ TableType /\ ChildType /\ SpawnType /\ InvokeType /\ SpawnState
      /\ SpawnApart /\ SlotState /\ ChildApart /\ ChildFresh /\ IndexState
      /\ LockHeld /\ PipeSpawn /\ PipeIsClean /\ RightChild
    BY Zenon DEF IInv, TypeOK
<1>e. /\ spc[p] = "finish" /\ lock[s] = None
      /\ child' = [child EXCEPT ![s] = a]
      /\ index' = [index EXCEPT ![a] = s]
      /\ st' = [st EXCEPT ![s] = "RUNNING"]
      /\ spc' = [spc EXCEPT ![p] = "idle"]
      /\ sslot' = [sslot EXCEPT ![p] = None]
      /\ sagent' = [sagent EXCEPT ![p] = None]
      /\ smine' = [smine EXCEPT ![p] = None]
      /\ sok' = [sok EXCEPT ![p] = FALSE]
    BY Zenon DEF Finish, Register, EndSpawn
<1>u. UNCHANGED <<sid, lock, count, spawned, alive, unread, answered, torn, ipc, iagent, ireq,
                  islot, session, canceled, cands, phase>>
    BY Zenon DEF Finish, Register, EndSpawn, tableVars, childVars, spawnVars, invokeVars, sessionVars
<1>1. ChildType' /\ InvokeType' /\ DaemonType'
    BY <1>u, FrameTypes, Zenon
<1>2. HolderLocks' /\ CallerAgent' /\ SessionState' /\ TokenAlive'
    BY <1>u, FrameInvoke, Zenon
<1>3. AnswersBelow' /\ PipeFresh'
    BY <1>u, FramePipe, Zenon
<1> USE <1>a, <1>e, <1>u
<1>4. TableType'
    BY Zenon DEF TableType
<1>5. SpawnType'
    BY Zenon DEF SpawnType
<1>6. SpawnState'
    BY SMTT(60) DEF SpawnState, TableType, SpawnType, Active, SpawnApart, IndexState
<1>7. SpawnApart'
    BY Zenon DEF SpawnApart, SpawnType, Active
<1>8. SlotState'
    BY SMTT(60) DEF SlotState, TableType, SpawnState, Active
<1>9. ChildApart'
    BY SMTT(60) DEF ChildApart, TableType, ChildFresh, Active
<1>10. ChildFresh'
    BY SMTT(60) DEF ChildFresh, TableType, SpawnType, Active, SpawnApart
<1>11. IndexState'
    BY SMTT(60) DEF IndexState, TableType, SpawnState, Active
<1>12. LockHeld'
    BY SMTT(60) DEF LockHeld, TableType, InvokeType, Holds, SlotState
<1>13. PipeSpawn'
    BY Zenon DEF PipeSpawn, SpawnType, Active
<1>14. PipeIsClean'
    BY DEF PipeIsClean, TableType, ChildType, InvokeType, LockHeld, Holds, ChildFresh,
           Active, PipeSpawn
<1>15. RightChild'
    BY SMTT(60) DEF RightChild, TableType, SpawnState, Active, IndexState
<1> HIDE <1>a, <1>e, <1>u
<1> QED
    BY <1>1, <1>2, <1>3, <1>4, <1>5, <1>6, <1>7, <1>8, <1>9,
       <1>10, <1>11, <1>12, <1>13, <1>14, <1>15, Zenon DEF IInv, TypeOK

(* agent_spawn_finish frees the slot.                                      *)
LEMMA RollbackInv ==
    ASSUME IInv, NEW p \in Spawner, NEW s \in Slot, sslot[p] = s,
           Finish(p), ~(sok[p] /\ sid[s] # None)
    PROVE  IInv'
<1> USE NoneFacts
<1>a. /\ TableType /\ ChildType /\ SpawnType /\ SpawnState /\ SpawnApart
      /\ SlotState /\ ChildFresh /\ IndexState /\ PipeFresh /\ PipeSpawn
    BY Zenon DEF IInv, TypeOK
<1>e. /\ spc[p] = "finish"
      /\ st' = [st EXCEPT ![s] = "FREE"]
      /\ alive' \in SUBSET alive
      /\ spc' = [spc EXCEPT ![p] = "release"]
      /\ smine' = [smine EXCEPT ![p] = None]
      /\ sok' = [sok EXCEPT ![p] = FALSE]
    BY Zenon DEF Finish, Rollback
<1>u. UNCHANGED <<sid, child, lock, count, index, spawned, unread, answered, torn, sslot, sagent,
                  ipc, iagent, ireq, islot, session, canceled, cands, phase>>
    BY Zenon DEF Finish, Rollback, tableVars, childVars, spawnVars, invokeVars, sessionVars
<1>1. InvokeType' /\ DaemonType'
    BY <1>u, FrameTypes, Zenon
<1>2. ChildApart' /\ RightChild'
    BY <1>u, FrameTable, Zenon
<1>3. LockHeld' /\ HolderLocks' /\ CallerAgent' /\ SessionState' /\ TokenAlive'
    BY <1>u, FrameInvoke, Zenon
<1>4. AnswersBelow' /\ PipeIsClean'
    BY <1>u, FramePipe, Zenon
<1> USE <1>a, <1>e, <1>u
<1>5. TableType'
    BY Zenon DEF TableType
<1>6. ChildType'
    BY Zenon DEF ChildType
<1>7. SpawnType'
    BY Zenon DEF SpawnType
<1>8. SpawnState'
    BY SMTT(60) DEF SpawnState, TableType, SpawnType, Active, SpawnApart
<1>9. SpawnApart'
    BY Zenon DEF SpawnApart, SpawnType, Active
<1>10. SlotState'
    BY SMTT(60) DEF SlotState, TableType, SpawnState, Active
<1>11. ChildFresh'
    BY Zenon DEF ChildFresh, TableType, SpawnType, Active
<1>12. IndexState'
    BY SMTT(60) DEF IndexState, TableType, SpawnState, Active
<1>13. PipeFresh'
    BY Zenon DEF PipeFresh, ChildType
<1>14. PipeSpawn'
    BY Zenon DEF PipeSpawn, SpawnType, Active
<1> HIDE <1>a, <1>e, <1>u
<1> QED
    BY <1>1, <1>2, <1>3, <1>4, <1>5, <1>6, <1>7, <1>8, <1>9,
       <1>10, <1>11, <1>12, <1>13, <1>14, Zenon DEF IInv, TypeOK

(* The second critical section of a failed spawn clears the id.            *)
LEMMA ReleaseInv ==
    ASSUME IInv, NEW p \in Spawner, NEW s \in Slot, sslot[p] = s, Release(p)
    PROVE  IInv'
<1> USE NoneFacts
<1>a. /\ TableType /\ SpawnType /\ SpawnState /\ SpawnApart /\ ChildFresh
      /\ PipeSpawn
    BY Zenon DEF IInv, TypeOK
<1>e. /\ spc[p] = "release"
      /\ sid' = [sid EXCEPT ![s] = None]
      /\ spc' = [spc EXCEPT ![p] = "idle"]
      /\ sslot' = [sslot EXCEPT ![p] = None]
      /\ sagent' = [sagent EXCEPT ![p] = None]
    BY Zenon DEF Release, EndSpawn
<1>u. UNCHANGED <<st, child, lock, count, index, spawned, alive, unread, answered, torn, smine,
                  sok, ipc, iagent, ireq, islot, session, canceled, cands, phase>>
    BY Zenon DEF Release, EndSpawn, tableVars, childVars, spawnVars, invokeVars, sessionVars
<1>1. ChildType' /\ InvokeType' /\ DaemonType'
    BY <1>u, FrameTypes, Zenon
<1>2. SlotState' /\ ChildApart' /\ IndexState' /\ RightChild'
    BY <1>u, FrameTable, Zenon
<1>3. LockHeld' /\ HolderLocks' /\ CallerAgent' /\ SessionState' /\ TokenAlive'
    BY <1>u, FrameInvoke, Zenon
<1>4. AnswersBelow' /\ PipeFresh' /\ PipeIsClean'
    BY <1>u, FramePipe, Zenon
<1> USE <1>a, <1>e, <1>u
<1>5. TableType'
    BY Zenon DEF TableType
<1>6. SpawnType'
    BY Zenon DEF SpawnType
<1>7. SpawnState'
    BY SMTT(60) DEF SpawnState, TableType, SpawnType, Active
<1>8. SpawnApart'
    BY Zenon DEF SpawnApart, SpawnType, Active
<1>9. ChildFresh'
    BY Zenon DEF ChildFresh, TableType, SpawnType, Active
<1>10. PipeSpawn'
    BY Zenon DEF PipeSpawn, SpawnType, Active
<1> HIDE <1>a, <1>e, <1>u
<1> QED
    BY <1>1, <1>2, <1>3, <1>4, <1>5, <1>6, <1>7, <1>8, <1>9,
       <1>10, Zenon DEF IInv, TypeOK

(* agent_slot_acquire: the slot s goes to the agent a.                     *)
LEMMA AcquireStep ==
    ASSUME IInv, NEW p \in Spawner, NEW s \in Slot, NEW a \in Agent,
           Acquire(p), st[s] = "FREE", a = spawned + 1,
           count' \in 0..MaxAgents, count <= count', s <= count',
           st' = [st EXCEPT ![s] = "SPAWNING"],
           sid' = [sid EXCEPT ![s] = a],
           sslot' = [sslot EXCEPT ![p] = s]
    PROVE  IInv'
<1> USE NoneFacts
<1>a. /\ TableType /\ ChildType /\ SpawnType /\ SpawnState /\ SpawnApart
      /\ SlotState /\ ChildFresh /\ IndexState /\ PipeFresh /\ PipeSpawn
    BY Zenon DEF IInv, TypeOK
<1>e. /\ phase # "destroyed" /\ spc[p] = "idle" /\ spawned' = a
      /\ sagent' = [sagent EXCEPT ![p] = a]
      /\ spc' = [spc EXCEPT ![p] = "fork"]
    BY Zenon DEF Acquire, Serving
<1>u. UNCHANGED <<child, lock, index, alive, unread, answered, torn, smine, sok, ipc, iagent,
                  ireq, islot, session, canceled, cands, phase>>
    BY Zenon DEF Acquire, tableVars, childVars, spawnVars, invokeVars, sessionVars
<1>1. InvokeType' /\ DaemonType'
    BY <1>u, FrameTypes, Zenon
<1>2. ChildApart' /\ RightChild'
    BY <1>u, FrameTable, Zenon
<1>3. LockHeld' /\ HolderLocks' /\ CallerAgent' /\ SessionState' /\ TokenAlive'
    BY <1>u, FrameInvoke, Zenon
<1>4. AnswersBelow' /\ PipeIsClean'
    BY <1>u, FramePipe, Zenon
<1> USE <1>a, <1>e, <1>u
<1>5. TableType'
    BY Zenon DEF TableType
<1>6. ChildType'
    BY AgentAssumption, SMTT(60) DEF ChildType, Agent
<1>7. SpawnType'
    BY Zenon DEF SpawnType
<1>8. SpawnState'
  <2>0. spawned \in Nat /\ a \in Nat /\ (\A x \in Nat : x <= spawned => x <= spawned' /\ x # a)
    BY SMTT(60) DEF ChildType
  <2>1. index[a] = None
    BY <2>0, Zenon DEF IndexState, TableType
  <2>q. \A q \in Spawner : spc[q] # "idle" => sagent[q] <= spawned' /\ sagent[q] # a
    BY <2>0, Zenon DEF SpawnState
  <2> SUFFICES ASSUME NEW q \in Spawner PROVE SpawnState!(q)'
    BY Zenon DEF SpawnState
  <2>2. CASE q = p
    BY <2>1, <2>2, SMTT(60) DEF SpawnState, TableType, SpawnType, Active
  <2>3. CASE q # p
    <3>1. spc'[q] = spc[q] /\ sslot'[q] = sslot[q] /\ sagent'[q] = sagent[q]
      BY <2>3, Zenon DEF SpawnType
    <3>2. Active(q) => /\ sslot[q] # s /\ sslot[q] \in Slot
                       /\ st'[sslot[q]] = st[sslot[q]] /\ sid'[sslot[q]] = sid[sslot[q]]
      BY Zenon DEF SpawnState, TableType, Active
    <3>3. SpawnState!(q)
      BY Zenon DEF SpawnState
    <3> QED
      BY <2>q, <3>1, <3>2, <3>3, Zenon DEF Active
  <2> QED
    BY <2>2, <2>3, Zenon
<1>9. SpawnApart'
    BY SMTT(60) DEF SpawnApart, SpawnType, Active, SpawnState, ChildType
<1>10. SlotState'
  <2>1. spawned \in Nat /\ a \in Nat /\ count \in Nat /\ count' \in Nat
    BY SMTT(60) DEF ChildType, TableType
  <2> SUFFICES ASSUME NEW t \in Slot PROVE SlotState!(t)'
    BY Zenon DEF SlotState
  <2>a. SlotState!(t) /\ child'[t] = child[t]
    BY Zenon DEF SlotState
  <2>b. child[t] # None => child[t] \in Nat
    BY Zenon DEF TableType
  <2>2. SlotState!(t) /\ child'[t] = child[t] /\ (child[t] # None => child[t] \in Nat)
    BY <2>a, <2>b, Zenon
  <2>3. CASE t = s
    BY <2>1, <2>2, <2>3, Zenon DEF TableType
  <2>4. CASE t # s
    BY <2>1, <2>2, <2>4, SMTT(60) DEF TableType
  <2> QED
    BY <2>3, <2>4, Zenon
<1>11. ChildFresh'
    BY SMTT(60) DEF ChildFresh, TableType, SpawnType, Active, SlotState, ChildType
<1>12. IndexState'
    BY SMTT(60) DEF IndexState, TableType, ChildType
<1>13. PipeFresh'
    BY SMTT(60) DEF PipeFresh, ChildType
<1>14. PipeSpawn'
    BY SMTT(60) DEF PipeSpawn, SpawnType, Active, PipeFresh, ChildType, SpawnState
<1> HIDE <1>a, <1>e, <1>u
<1> QED
    BY <1>1, <1>2, <1>3, <1>4, <1>5, <1>6, <1>7, <1>8, <1>9,
       <1>10, <1>11, <1>12, <1>13, <1>14, Zenon DEF IInv, TypeOK

(* agent_slot_acquire takes a FREE slot of the table.                      *)
LEMMA NextSlotFacts ==
    ASSUME IInv, phase # "destroyed", NEW s \in Slot, NextSlot(s)
    PROVE  st[s] = "FREE" /\ count \in Nat /\ s \in Nat
<1>a. TableType /\ SlotState
    BY Zenon DEF IInv, TypeOK
<1>b. count \in Nat /\ s \in Nat
    BY <1>a, NoneFacts, SMTT(60) DEF TableType
<1>1. CASE FreeSlots # {}
    BY <1>1, <1>b, Zenon DEF NextSlot, FreeSlots
<1>2. CASE FreeSlots = {}
    <2>1. ~(s <= count)
        BY <1>2, <1>b, SMTT(60) DEF NextSlot
    <2> QED
        BY <1>a, <1>b, <2>1, Zenon DEF SlotState
<1> QED
    BY <1>b, <1>1, <1>2, Zenon

(* agent_slot_acquire keeps the invariant.                                 *)
LEMMA AcquireInv ==
    ASSUME IInv, NEW p \in Spawner, Acquire(p)
    PROVE  IInv'
<1>a. count \in 0..MaxAgents /\ spawned \in 0..MaxSpawn
    BY Zenon DEF IInv, TypeOK, TableType, ChildType
<1>1. PICK s \in Slot :
          /\ NextSlot(s)
          /\ count' = IF s > count THEN s ELSE count
          /\ st' = [st EXCEPT ![s] = "SPAWNING"]
          /\ sid' = [sid EXCEPT ![s] = spawned']
          /\ sslot' = [sslot EXCEPT ![p] = s]
    BY Zenon DEF Acquire
<1>2. st[s] = "FREE" /\ count \in Nat /\ s \in Nat
    BY <1>1, NextSlotFacts, Zenon DEF Acquire, Serving
<1>3. spawned' = spawned + 1 /\ spawned + 1 \in Agent
    BY <1>a, AgentAssumption, SMTT(60) DEF Acquire, Agent
<1>4. count' \in 0..MaxAgents /\ count <= count' /\ s <= count'
    BY <1>a, <1>1, <1>2, AgentAssumption, SMTT(60) DEF Slot
<1>5. sid' = [sid EXCEPT ![s] = spawned + 1]
    BY <1>1, <1>3, Zenon
<1> QED
    BY <1>1, <1>2, <1>3, <1>4, <1>5, AcquireStep, Zenon

(* The steps of a spawn after the slot is its own.                         *)
LEMMA SpawnStepInv ==
    ASSUME IInv, NEW p \in Spawner, SpawnStep(p)
    PROVE  IInv'
<1>a. SpawnState
    BY Zenon DEF IInv
<1>v. spc[p] # "idle" => sslot[p] \in Slot /\ sagent[p] \in Agent
    BY <1>a, Zenon DEF SpawnState
<1>1. CASE Fork(p) \/ Handshake(p) \/ CopyId(p)
    BY <1>1, ForkInv, HandshakeInv, CopyIdInv, Zenon
<1>2. CASE Finish(p)
    <2>f. spc[p] = "finish"
        BY <1>2, Zenon DEF Finish
    <2>1. sslot[p] \in Slot /\ sagent[p] \in Agent
        BY <1>v, <2>f, Zenon
    <2>2. CASE sok[p] /\ sid[sslot[p]] # None
        <3>1. sid[sslot[p]] = sagent[p] /\ smine[p] = sagent[p]
            BY <1>a, <2>f, <2>1, <2>2, Zenon DEF SpawnState, Active
        <3> QED
            BY <1>2, <2>1, <2>2, <3>1, RegisterInv, Zenon
    <2>3. CASE ~(sok[p] /\ sid[sslot[p]] # None)
        BY <1>2, <2>1, <2>3, RollbackInv, Zenon
    <2> QED
        BY <2>2, <2>3, Zenon
<1>3. CASE Release(p)
    <2>r. spc[p] = "release"
        BY <1>3, Zenon DEF Release
    <2>1. sslot[p] \in Slot
        BY <1>v, <2>r, Zenon
    <2> QED
        BY <1>3, <2>1, ReleaseInv, Zenon
<1> QED
    BY <1>1, <1>2, <1>3, Zenon DEF SpawnStep

-----------------------------------------------------------------------------
(* The steps of invokes, children and the reaper.                          *)

(* A thread that holds no entry lock moves on without taking one.          *)
LEMMA OutsideStep ==
    ASSUME IInv, NEW i \in Invoker, ~Holds(i), NEW x \in {"idle", "lock", "end"},
           ipc' = [ipc EXCEPT ![i] = x],
           UNCHANGED <<lock, islot, child, torn, unread>>
    PROVE  LockHeld' /\ HolderLocks' /\ PipeIsClean'
<1> USE NoneFacts
<1>a. TableType /\ InvokeType /\ LockHeld /\ HolderLocks /\ PipeIsClean
    BY Zenon DEF IInv, TypeOK
<1>b. lock \in [Slot -> Invoker \cup {None}] /\ ipc \in [Invoker -> {"idle", "lock", "send", "read", "end"}]
    BY <1>a, Zenon DEF TableType, InvokeType
<1>1. LockHeld' /\ (\A s \in Slot : lock[s] # i)
    BY <1>a, <1>b, SMTT(60) DEF LockHeld, Holds
<1>2. HolderLocks'
    BY <1>a, <1>b, Zenon DEF HolderLocks, Holds
<1>3. PipeIsClean'
    BY <1>a, <1>b, <1>1, Zenon DEF PipeIsClean
<1> QED
    BY <1>1, <1>2, <1>3, Zenon

(* A thread gives its entry lock back.                                     *)
LEMMA UnlockStep ==
    ASSUME IInv, NEW i \in Invoker, NEW s \in Slot, s = islot[i], Holds(i),
           lock' = [lock EXCEPT ![s] = None],
           ipc' = [ipc EXCEPT ![i] = "end"],
           islot' = [islot EXCEPT ![i] = None],
           child' \in {child, [child EXCEPT ![s] = None]}
    PROVE  LockHeld' /\ HolderLocks'
<1> USE NoneFacts
<1>a. TableType /\ InvokeType /\ LockHeld /\ HolderLocks
    BY Zenon DEF IInv, TypeOK
<1>1. LockHeld'
    BY <1>a, SMTT(60) DEF LockHeld, HolderLocks, Holds, TableType, InvokeType
<1>2. HolderLocks'
    BY <1>a, SMTT(60) DEF HolderLocks, LockHeld, Holds, TableType, InvokeType
<1> QED
    BY <1>1, <1>2, Zenon

(* agent_service_invoke_begin registers a session.                         *)
LEMMA BeginInv ==
    ASSUME IInv, NEW i \in Invoker, NEW a \in Agent, NEW r \in Request, Begin(i, a, r)
    PROVE  IInv'
<1> USE NoneFacts
<1>a. InvokeType /\ CallerAgent /\ SessionState /\ TokenAlive
    BY Zenon DEF IInv, TypeOK
<1>e. /\ ipc[i] = "idle" /\ session[r] = None
      /\ session' = [session EXCEPT ![r] = i]
      /\ ireq' = [ireq EXCEPT ![i] = r]
      /\ iagent' = [iagent EXCEPT ![i] = a]
      /\ ipc' = [ipc EXCEPT ![i] = "lock"]
    BY Zenon DEF Begin
<1>u. UNCHANGED <<st, sid, child, lock, count, index, spawned, alive, unread, answered, torn,
                  spc, sslot, smine, sok, sagent, islot, canceled, cands, phase>>
    BY Zenon DEF Begin, tableVars, childVars, spawnVars, invokeVars, sessionVars
<1>1. TableType' /\ ChildType' /\ SpawnType' /\ DaemonType'
    BY <1>u, FrameTypes, Zenon
<1>2. SpawnState' /\ SpawnApart' /\ PipeSpawn' /\ ChildFresh'
    BY <1>u, FrameSpawn, Zenon
<1>3. SlotState' /\ ChildApart' /\ IndexState' /\ RightChild'
    BY <1>u, FrameTable, Zenon
<1>4. AnswersBelow' /\ PipeFresh'
    BY <1>u, FramePipe, Zenon
<1>5. LockHeld' /\ HolderLocks' /\ PipeIsClean'
    BY <1>e, <1>u, OutsideStep, Zenon DEF Holds
<1> USE <1>a, <1>e, <1>u
<1>6. InvokeType'
    BY Zenon DEF InvokeType
<1>7. CallerAgent'
    BY Zenon DEF CallerAgent, InvokeType
<1>8. SessionState'
    BY Zenon DEF SessionState, InvokeType
<1>9. TokenAlive'
    BY Zenon DEF TokenAlive, InvokeType, SessionState
<1> HIDE <1>a, <1>e, <1>u
<1> QED
    BY <1>1, <1>2, <1>3, <1>4, <1>5, <1>6, <1>7, <1>8, <1>9, Zenon DEF IInv, TypeOK

(* An invoke of the run engine begins without a session.                   *)
LEMMA BeginRunInv ==
    ASSUME IInv, NEW i \in Invoker, NEW a \in Agent, BeginRun(i, a)
    PROVE  IInv'
<1> USE NoneFacts
<1>a. InvokeType /\ CallerAgent /\ SessionState
    BY Zenon DEF IInv, TypeOK
<1>e. /\ ipc[i] = "idle"
      /\ iagent' = [iagent EXCEPT ![i] = a]
      /\ ipc' = [ipc EXCEPT ![i] = "lock"]
    BY Zenon DEF BeginRun
<1>u. UNCHANGED <<st, sid, child, lock, count, index, spawned, alive, unread, answered, torn,
                  spc, sslot, smine, sok, sagent, ireq, islot, session, canceled, cands, phase>>
    BY Zenon DEF BeginRun, tableVars, childVars, spawnVars, invokeVars, sessionVars
<1>1. TableType' /\ ChildType' /\ SpawnType' /\ DaemonType'
    BY <1>u, FrameTypes, Zenon
<1>2. SpawnState' /\ SpawnApart' /\ PipeSpawn' /\ ChildFresh'
    BY <1>u, FrameSpawn, Zenon
<1>3. SlotState' /\ ChildApart' /\ IndexState' /\ RightChild'
    BY <1>u, FrameTable, Zenon
<1>4. TokenAlive'
    BY <1>u, FrameInvoke, Zenon
<1>5. AnswersBelow' /\ PipeFresh'
    BY <1>u, FramePipe, Zenon
<1>6. LockHeld' /\ HolderLocks' /\ PipeIsClean'
    BY <1>e, <1>u, OutsideStep, Zenon DEF Holds
<1> USE <1>a, <1>e, <1>u
<1>7. InvokeType'
    BY Zenon DEF InvokeType
<1>8. CallerAgent'
    BY Zenon DEF CallerAgent, InvokeType
<1>9. SessionState'
    BY Zenon DEF SessionState, InvokeType
<1> HIDE <1>a, <1>e, <1>u
<1> QED
    BY <1>1, <1>2, <1>3, <1>4, <1>5, <1>6, <1>7, <1>8, <1>9, Zenon DEF IInv, TypeOK

(* The entry lock of an agent that runs is taken.                          *)
LEMMA LockOkInv ==
    ASSUME IInv, NEW i \in Invoker, NEW s \in Slot, s = index[iagent[i]], LockEntry(i),
           st[s] = "RUNNING", child[s] # None
    PROVE  IInv'
<1> USE NoneFacts
<1>a. /\ TableType /\ ChildType /\ InvokeType /\ LockHeld /\ HolderLocks
      /\ CallerAgent /\ SessionState /\ PipeIsClean
    BY Zenon DEF IInv, TypeOK
<1>e. /\ ipc[i] = "lock" /\ lock[s] = None
      /\ lock' = [lock EXCEPT ![s] = i]
      /\ islot' = [islot EXCEPT ![i] = s]
      /\ ipc' = [ipc EXCEPT ![i] = "send"]
    BY Zenon DEF LockEntry
<1>u. UNCHANGED <<st, sid, child, count, index, spawned, alive, unread, answered, torn, spc,
                  sslot, smine, sok, sagent, iagent, ireq, session, canceled, cands, phase>>
    BY Zenon DEF LockEntry, tableVars, childVars, spawnVars, invokeVars, sessionVars
<1>1. ChildType' /\ SpawnType' /\ DaemonType'
    BY <1>u, FrameTypes, Zenon
<1>2. SpawnState' /\ SpawnApart' /\ PipeSpawn' /\ ChildFresh'
    BY <1>u, FrameSpawn, Zenon
<1>3. SlotState' /\ ChildApart' /\ IndexState' /\ RightChild'
    BY <1>u, FrameTable, Zenon
<1>4. TokenAlive'
    BY <1>u, FrameInvoke, Zenon
<1>5. AnswersBelow' /\ PipeFresh'
    BY <1>u, FramePipe, Zenon
<1> USE <1>a, <1>e, <1>u
<1>6. TableType'
    BY Zenon DEF TableType
<1>7. InvokeType'
    BY Zenon DEF InvokeType
<1>8. LockHeld'
    BY SMTT(60) DEF LockHeld, TableType, InvokeType, Holds
<1>9. HolderLocks'
    BY SMTT(60) DEF HolderLocks, TableType, InvokeType, Holds
<1>10. CallerAgent'
    BY Zenon DEF CallerAgent, InvokeType
<1>11. SessionState'
    BY Zenon DEF SessionState, InvokeType
<1>12. PipeIsClean'
    BY SMTT(60) DEF PipeIsClean, TableType, ChildType, InvokeType, LockHeld, Holds
<1> HIDE <1>a, <1>e, <1>u
<1> QED
    BY <1>1, <1>2, <1>3, <1>4, <1>5, <1>6, <1>7, <1>8, <1>9,
       <1>10, <1>11, <1>12, Zenon DEF IInv, TypeOK

(* The lookup finds no agent that runs.                                    *)
LEMMA LockFailInv ==
    ASSUME IInv, NEW i \in Invoker, LockEntry(i),
           LET s == index[iagent[i]] IN ~(s # None /\ st[s] = "RUNNING" /\ child[s] # None)
    PROVE  IInv'
<1> USE NoneFacts
<1>a. InvokeType /\ CallerAgent /\ SessionState
    BY Zenon DEF IInv, TypeOK
<1>e. /\ ipc[i] = "lock"
      /\ ipc' = [ipc EXCEPT ![i] = "end"]
    BY Zenon DEF LockEntry
<1>u. UNCHANGED <<st, sid, child, lock, count, index, spawned, alive, unread, answered, torn,
                  spc, sslot, smine, sok, sagent, iagent, ireq, islot, session, canceled, cands,
                  phase>>
    BY Zenon DEF LockEntry, tableVars, childVars, spawnVars, invokeVars, sessionVars
<1>1. TableType' /\ ChildType' /\ SpawnType' /\ DaemonType'
    BY <1>u, FrameTypes, Zenon
<1>2. SpawnState' /\ SpawnApart' /\ PipeSpawn' /\ ChildFresh'
    BY <1>u, FrameSpawn, Zenon
<1>3. SlotState' /\ ChildApart' /\ IndexState' /\ RightChild'
    BY <1>u, FrameTable, Zenon
<1>4. TokenAlive'
    BY <1>u, FrameInvoke, Zenon
<1>5. AnswersBelow' /\ PipeFresh'
    BY <1>u, FramePipe, Zenon
<1>6. LockHeld' /\ HolderLocks' /\ PipeIsClean'
    BY <1>e, <1>u, OutsideStep, Zenon DEF Holds
<1> USE <1>a, <1>e, <1>u
<1>7. InvokeType'
    BY Zenon DEF InvokeType
<1>8. CallerAgent'
    BY Zenon DEF CallerAgent, InvokeType
<1>9. SessionState'
    BY Zenon DEF SessionState, InvokeType
<1> HIDE <1>a, <1>e, <1>u
<1> QED
    BY <1>1, <1>2, <1>3, <1>4, <1>5, <1>6, <1>7, <1>8, <1>9, Zenon DEF IInv, TypeOK

(* The request is written to the pipe of a live child.                     *)
LEMMA SendInv ==
    ASSUME IInv, NEW i \in Invoker, NEW s \in Slot, s = islot[i], NEW c \in Agent, c = child[s],
           Send(i), c \in alive
    PROVE  IInv'
<1> USE NoneFacts
<1>a. /\ TableType /\ ChildType /\ InvokeType /\ SpawnState /\ SlotState
      /\ ChildApart /\ ChildFresh /\ LockHeld /\ HolderLocks /\ CallerAgent
      /\ AnswersBelow /\ PipeFresh /\ PipeSpawn /\ SessionState /\ PipeIsClean
    BY Zenon DEF IInv, TypeOK
<1>e. /\ ipc[i] = "send"
      /\ unread' = [unread EXCEPT ![c] = @ + 1]
      /\ ipc' = [ipc EXCEPT ![i] = "read"]
    BY Zenon DEF Send
<1>u. UNCHANGED <<st, sid, child, lock, count, index, spawned, alive, answered, torn, spc,
                  sslot, smine, sok, sagent, iagent, ireq, islot, session, canceled, cands, phase>>
    BY Zenon DEF Send, tableVars, childVars, spawnVars, invokeVars, sessionVars
<1>1. TableType' /\ SpawnType' /\ DaemonType'
    BY <1>u, FrameTypes, Zenon
<1>2. SpawnState' /\ SpawnApart' /\ ChildFresh'
    BY <1>u, FrameSpawn, Zenon
<1>3. SlotState' /\ ChildApart' /\ IndexState' /\ RightChild'
    BY <1>u, FrameTable, Zenon
<1>4. TokenAlive'
    BY <1>u, FrameInvoke, Zenon
<1> USE <1>a, <1>e, <1>u
<1>5. ChildType'
    BY SMTT(60) DEF ChildType, AnswersBelow
<1>6. InvokeType'
    BY Zenon DEF InvokeType
<1>7. LockHeld'
    BY SMTT(60) DEF LockHeld, TableType, InvokeType, Holds
<1>8. HolderLocks'
    BY Zenon DEF HolderLocks, InvokeType, Holds
<1>9. CallerAgent'
    BY Zenon DEF CallerAgent, InvokeType
<1>10. AnswersBelow'
    BY SMTT(60) DEF AnswersBelow, ChildType
<1>11. PipeFresh'
    BY Zenon DEF PipeFresh, ChildType, SlotState, TableType
<1>12. PipeSpawn'
    BY SMTT(60) DEF PipeSpawn, ChildType, Active, ChildFresh, SpawnState, TableType
<1>13. SessionState'
    BY Zenon DEF SessionState, InvokeType
<1>14. PipeIsClean'
  <2> SUFFICES ASSUME NEW t \in Slot PROVE PipeIsClean!(t)'
    BY Zenon DEF PipeIsClean
  <2>1. CASE t = s
    BY <2>1, SMTT(60) DEF PipeIsClean, TableType, ChildType, InvokeType, LockHeld, HolderLocks, Holds
  <2>2. CASE t # s
    BY <2>2, SMTT(60) DEF PipeIsClean, TableType, ChildType, InvokeType, LockHeld, HolderLocks, Holds, ChildApart
  <2> QED
    BY <2>1, <2>2, Zenon
<1> HIDE <1>a, <1>e, <1>u
<1> QED
    BY <1>1, <1>2, <1>3, <1>4, <1>5, <1>6, <1>7, <1>8, <1>9,
       <1>10, <1>11, <1>12, <1>13, <1>14, Zenon DEF IInv, TypeOK

(* A whole line is read.                                                   *)
LEMMA ReadAnswerInv ==
    ASSUME IInv, NEW i \in Invoker, NEW s \in Slot, s = islot[i], NEW c \in Agent, c = child[s],
           ReadAnswer(i), torn' = torn,
           unread' = [unread EXCEPT ![c] = @ - 1],
           answered' = [answered EXCEPT ![c] = @ - 1]
    PROVE  IInv'
<1> USE NoneFacts
<1>a. /\ TableType /\ ChildType /\ InvokeType /\ SpawnState /\ SlotState
      /\ ChildApart /\ ChildFresh /\ LockHeld /\ HolderLocks /\ CallerAgent
      /\ AnswersBelow /\ PipeFresh /\ PipeSpawn /\ SessionState /\ PipeIsClean
    BY Zenon DEF IInv, TypeOK
<1>e. /\ ipc[i] = "read" /\ answered[c] > 0
      /\ lock' = [lock EXCEPT ![s] = None]
      /\ ipc' = [ipc EXCEPT ![i] = "end"]
      /\ islot' = [islot EXCEPT ![i] = None]
    BY Zenon DEF ReadAnswer
<1>u. UNCHANGED <<st, sid, child, count, index, spawned, alive, torn, spc, sslot, smine,
                  sok, sagent, iagent, ireq, session, canceled, cands, phase>>
    BY Zenon DEF ReadAnswer, tableVars, childVars, spawnVars, invokeVars, sessionVars
<1>1. SpawnType' /\ DaemonType'
    BY <1>u, FrameTypes, Zenon
<1>2. SpawnState' /\ SpawnApart' /\ ChildFresh'
    BY <1>u, FrameSpawn, Zenon
<1>3. SlotState' /\ ChildApart' /\ IndexState' /\ RightChild'
    BY <1>u, FrameTable, Zenon
<1>4. TokenAlive'
    BY <1>u, FrameInvoke, Zenon
<1>5. LockHeld' /\ HolderLocks'
    BY <1>e, <1>u, UnlockStep, Zenon DEF Holds
<1> USE <1>a, <1>e, <1>u
<1>6. TableType'
    BY Zenon DEF TableType
<1>7. ChildType'
    BY SMTT(60) DEF ChildType, AnswersBelow
<1>8. InvokeType'
    BY Zenon DEF InvokeType
<1>9. CallerAgent'
    BY Zenon DEF CallerAgent, InvokeType
<1>10. AnswersBelow'
    BY SMTT(60) DEF AnswersBelow, ChildType
<1>11. PipeFresh'
    BY SMTT(60) DEF PipeFresh, ChildType, SlotState, TableType
<1>12. PipeSpawn'
    BY SMTT(60) DEF PipeSpawn, ChildType, Active, ChildFresh, SpawnState, TableType
<1>13. SessionState'
    BY Zenon DEF SessionState, InvokeType
<1>14. PipeIsClean'
  <2> SUFFICES ASSUME NEW t \in Slot PROVE PipeIsClean!(t)'
    BY Zenon DEF PipeIsClean
  <2>1. CASE t = s
    BY <2>1, SMTT(60) DEF PipeIsClean, TableType, ChildType, InvokeType, LockHeld, HolderLocks, Holds
  <2>2. CASE t # s
    BY <2>2, SMTT(60) DEF PipeIsClean, TableType, ChildType, InvokeType, LockHeld, HolderLocks, Holds, ChildApart
  <2> QED
    BY <2>1, <2>2, Zenon
<1> HIDE <1>a, <1>e, <1>u
<1> QED
    BY <1>1, <1>2, <1>3, <1>4, <1>5, <1>6, <1>7, <1>8, <1>9,
       <1>10, <1>11, <1>12, <1>13, <1>14, Zenon DEF IInv, TypeOK

(* A line is cut off at AGENT_RESP_BUF_SIZE.                               *)
LEMMA ReadTornInv ==
    ASSUME IInv, NEW i \in Invoker, NEW s \in Slot, s = islot[i], NEW c \in Agent, c = child[s],
           ReadAnswer(i), torn' = torn \cup {c}, UNCHANGED <<unread, answered>>
    PROVE  IInv'
<1> USE NoneFacts
<1>a. /\ TableType /\ ChildType /\ InvokeType /\ ChildApart /\ LockHeld
      /\ HolderLocks /\ CallerAgent /\ AnswersBelow /\ SessionState /\ PipeIsClean
    BY Zenon DEF IInv, TypeOK
<1>e. /\ ipc[i] = "read"
      /\ lock' = [lock EXCEPT ![s] = None]
      /\ ipc' = [ipc EXCEPT ![i] = "end"]
      /\ islot' = [islot EXCEPT ![i] = None]
    BY Zenon DEF ReadAnswer
<1>u. UNCHANGED <<st, sid, child, count, index, spawned, alive, unread, answered, spc, sslot,
                  smine, sok, sagent, iagent, ireq, session, canceled, cands, phase>>
    BY Zenon DEF ReadAnswer, tableVars, childVars, spawnVars, invokeVars, sessionVars
<1>1. SpawnType' /\ DaemonType'
    BY <1>u, FrameTypes, Zenon
<1>2. SpawnState' /\ SpawnApart' /\ PipeSpawn' /\ ChildFresh'
    BY <1>u, FrameSpawn, Zenon
<1>3. SlotState' /\ ChildApart' /\ IndexState' /\ RightChild'
    BY <1>u, FrameTable, Zenon
<1>4. TokenAlive'
    BY <1>u, FrameInvoke, Zenon
<1>5. AnswersBelow' /\ PipeFresh'
    BY <1>u, FramePipe, Zenon
<1>6. LockHeld' /\ HolderLocks'
    BY <1>e, <1>u, UnlockStep, Zenon DEF Holds
<1> USE <1>a, <1>e, <1>u
<1>7. TableType'
    BY Zenon DEF TableType
<1>8. ChildType'
    BY Zenon DEF ChildType, AnswersBelow
<1>9. InvokeType'
    BY Zenon DEF InvokeType
<1>10. CallerAgent'
    BY Zenon DEF CallerAgent, InvokeType
<1>11. SessionState'
    BY Zenon DEF SessionState, InvokeType
<1>12. PipeIsClean'
  <2> SUFFICES ASSUME NEW t \in Slot PROVE PipeIsClean!(t)'
    BY Zenon DEF PipeIsClean
  <2>1. CASE t = s
    BY <2>1, Zenon DEF PipeIsClean, TableType, ChildType, InvokeType, LockHeld, HolderLocks, Holds
  <2>2. CASE t # s
    BY <2>2, SMTT(60) DEF PipeIsClean, TableType, ChildType, InvokeType, LockHeld, HolderLocks, Holds, ChildApart
  <2> QED
    BY <2>1, <2>2, Zenon
<1> HIDE <1>a, <1>e, <1>u
<1> QED
    BY <1>1, <1>2, <1>3, <1>4, <1>5, <1>6, <1>7, <1>8, <1>9,
       <1>10, <1>11, <1>12, Zenon DEF IInv, TypeOK

(* agent_service_invoke_end frees the session.                             *)
LEMMA EndSessionInv ==
    ASSUME IInv, NEW i \in Invoker, NEW r \in Request, r = ireq[i], End(i)
    PROVE  IInv'
<1> USE NoneFacts
<1>a. InvokeType /\ CallerAgent /\ SessionState /\ TokenAlive
    BY Zenon DEF IInv, TypeOK
<1>e. /\ ipc[i] = "end"
      /\ session' = [session EXCEPT ![r] = None]
      /\ canceled' = canceled \ {r}
      /\ ipc' = [ipc EXCEPT ![i] = "idle"]
      /\ ireq' = [ireq EXCEPT ![i] = None]
      /\ iagent' = [iagent EXCEPT ![i] = None]
    BY Zenon DEF End
<1>u. UNCHANGED <<st, sid, child, lock, count, index, spawned, alive, unread, answered, torn,
                  spc, sslot, smine, sok, sagent, islot, cands, phase>>
    BY Zenon DEF End, tableVars, childVars, spawnVars, invokeVars, sessionVars
<1>1. TableType' /\ ChildType' /\ SpawnType' /\ DaemonType'
    BY <1>u, FrameTypes, Zenon
<1>2. SpawnState' /\ SpawnApart' /\ PipeSpawn' /\ ChildFresh'
    BY <1>u, FrameSpawn, Zenon
<1>3. SlotState' /\ ChildApart' /\ IndexState' /\ RightChild'
    BY <1>u, FrameTable, Zenon
<1>4. AnswersBelow' /\ PipeFresh'
    BY <1>u, FramePipe, Zenon
<1>5. LockHeld' /\ HolderLocks' /\ PipeIsClean'
    BY <1>e, <1>u, OutsideStep, Zenon DEF Holds
<1> USE <1>a, <1>e, <1>u
<1>6. InvokeType'
    BY Zenon DEF InvokeType
<1>7. CallerAgent'
    BY Zenon DEF CallerAgent, InvokeType
<1>8. SessionState'
    BY Zenon DEF SessionState, InvokeType
<1>9. TokenAlive'
    BY Zenon DEF TokenAlive, InvokeType
<1> HIDE <1>a, <1>e, <1>u
<1> QED
    BY <1>1, <1>2, <1>3, <1>4, <1>5, <1>6, <1>7, <1>8, <1>9, Zenon DEF IInv, TypeOK

(* An invoke without a session ends.                                       *)
LEMMA EndRunInv ==
    ASSUME IInv, NEW i \in Invoker, ireq[i] = None, ireq' = ireq, End(i)
    PROVE  IInv'
<1> USE NoneFacts
<1>a. InvokeType /\ CallerAgent /\ SessionState
    BY Zenon DEF IInv, TypeOK
<1>e. /\ ipc[i] = "end"
      /\ ipc' = [ipc EXCEPT ![i] = "idle"]
      /\ iagent' = [iagent EXCEPT ![i] = None]
    BY Zenon DEF End
<1>u. UNCHANGED <<st, sid, child, lock, count, index, spawned, alive, unread, answered, torn,
                  spc, sslot, smine, sok, sagent, ireq, islot, session, canceled, cands, phase>>
    BY Zenon DEF End, tableVars, childVars, spawnVars, invokeVars, sessionVars
<1>1. TableType' /\ ChildType' /\ SpawnType' /\ DaemonType'
    BY <1>u, FrameTypes, Zenon
<1>2. SpawnState' /\ SpawnApart' /\ PipeSpawn' /\ ChildFresh'
    BY <1>u, FrameSpawn, Zenon
<1>3. SlotState' /\ ChildApart' /\ IndexState' /\ RightChild'
    BY <1>u, FrameTable, Zenon
<1>4. TokenAlive'
    BY <1>u, FrameInvoke, Zenon
<1>5. AnswersBelow' /\ PipeFresh'
    BY <1>u, FramePipe, Zenon
<1>6. LockHeld' /\ HolderLocks' /\ PipeIsClean'
    BY <1>e, <1>u, OutsideStep, Zenon DEF Holds
<1> USE <1>a, <1>e, <1>u
<1>7. InvokeType'
    BY Zenon DEF InvokeType
<1>8. CallerAgent'
    BY Zenon DEF CallerAgent, InvokeType
<1>9. SessionState'
    BY Zenon DEF SessionState, InvokeType
<1> HIDE <1>a, <1>e, <1>u
<1> QED
    BY <1>1, <1>2, <1>3, <1>4, <1>5, <1>6, <1>7, <1>8, <1>9, Zenon DEF IInv, TypeOK

(* A runner answers a request.                                             *)
LEMMA ChildAnswersInv ==
    ASSUME IInv, NEW c \in Agent, ChildAnswers(c)
    PROVE  IInv'
<1> USE NoneFacts
<1>a. ChildType /\ AnswersBelow
    BY Zenon DEF IInv, TypeOK
<1>e. /\ answered[c] < unread[c]
      /\ answered' = [answered EXCEPT ![c] = @ + 1]
    BY Zenon DEF ChildAnswers
<1>u. UNCHANGED <<st, sid, child, lock, count, index, spawned, alive, unread, torn, spc,
                  sslot, smine, sok, sagent, ipc, iagent, ireq, islot, session, canceled, cands,
                  phase>>
    BY Zenon DEF ChildAnswers, tableVars, childVars, spawnVars, invokeVars, sessionVars
<1>1. TableType' /\ SpawnType' /\ InvokeType' /\ DaemonType'
    BY <1>u, FrameTypes, Zenon
<1>2. SpawnState' /\ SpawnApart' /\ PipeSpawn' /\ ChildFresh'
    BY <1>u, FrameSpawn, Zenon
<1>3. SlotState' /\ ChildApart' /\ IndexState' /\ RightChild'
    BY <1>u, FrameTable, Zenon
<1>4. LockHeld' /\ HolderLocks' /\ CallerAgent' /\ SessionState' /\ TokenAlive'
    BY <1>u, FrameInvoke, Zenon
<1>5. PipeFresh' /\ PipeIsClean'
    BY <1>u, FramePipe, Zenon
<1> USE <1>a, <1>e, <1>u
<1>6. ChildType'
    BY SMTT(60) DEF ChildType
<1>7. AnswersBelow'
    BY SMTT(60) DEF AnswersBelow, ChildType
<1> HIDE <1>a, <1>e, <1>u
<1> QED
    BY <1>1, <1>2, <1>3, <1>4, <1>5, <1>6, <1>7, Zenon DEF IInv, TypeOK

(* A runner exits by itself.                                               *)
LEMMA ChildExitsInv ==
    ASSUME IInv, NEW c \in Agent, ChildExits(c)
    PROVE  IInv'
<1> USE NoneFacts
<1>a. ChildType /\ PipeFresh
    BY Zenon DEF IInv, TypeOK
<1>e. /\ alive' = alive \ {c}
    BY Zenon DEF ChildExits
<1>u. UNCHANGED <<st, sid, child, lock, count, index, spawned, unread, answered, torn, spc,
                  sslot, smine, sok, sagent, ipc, iagent, ireq, islot, session, canceled, cands,
                  phase>>
    BY Zenon DEF ChildExits, tableVars, childVars, spawnVars, invokeVars, sessionVars
<1>1. TableType' /\ SpawnType' /\ InvokeType' /\ DaemonType'
    BY <1>u, FrameTypes, Zenon
<1>2. SpawnState' /\ SpawnApart' /\ PipeSpawn' /\ ChildFresh'
    BY <1>u, FrameSpawn, Zenon
<1>3. SlotState' /\ ChildApart' /\ IndexState' /\ RightChild'
    BY <1>u, FrameTable, Zenon
<1>4. LockHeld' /\ HolderLocks' /\ CallerAgent' /\ SessionState' /\ TokenAlive'
    BY <1>u, FrameInvoke, Zenon
<1>5. AnswersBelow' /\ PipeIsClean'
    BY <1>u, FramePipe, Zenon
<1> USE <1>a, <1>e, <1>u
<1>6. ChildType'
    BY Zenon DEF ChildType
<1>7. PipeFresh'
    BY Zenon DEF PipeFresh, ChildType
<1> HIDE <1>a, <1>e, <1>u
<1> QED
    BY <1>1, <1>2, <1>3, <1>4, <1>5, <1>6, <1>7, Zenon DEF IInv, TypeOK

(* Cancels, the scan of the reaper and the shutdown up to the join of the  *)
(* pool.                                                                   *)
LEMMA DaemonInv ==
    ASSUME IInv, cands' \in SUBSET Slot, canceled' \in SUBSET Request,
           phase # "destroyed", phase' \in {"up", "draining", "joining"},
           UNCHANGED <<tableVars, childVars, spawnVars, invokeVars, session>>
    PROVE  IInv'
<1> USE NoneFacts
<1>a. InvokeType /\ DaemonType /\ SpawnState /\ SlotState
    BY Zenon DEF IInv, TypeOK
<1>u. UNCHANGED <<st, sid, child, lock, count, index, spawned, alive, unread, answered, torn,
                  spc, sslot, smine, sok, sagent, ipc, iagent, ireq, islot, session>>
    BY Zenon DEF tableVars, childVars, spawnVars, invokeVars, sessionVars
<1>1. TableType' /\ ChildType' /\ SpawnType'
    BY <1>u, FrameTypes, Zenon
<1>2. SpawnApart' /\ PipeSpawn' /\ ChildFresh'
    BY <1>u, FrameSpawn, Zenon
<1>3. ChildApart' /\ IndexState' /\ RightChild'
    BY <1>u, FrameTable, Zenon
<1>4. LockHeld' /\ HolderLocks' /\ CallerAgent' /\ SessionState' /\ TokenAlive'
    BY <1>u, FrameInvoke, Zenon
<1>5. AnswersBelow' /\ PipeFresh' /\ PipeIsClean'
    BY <1>u, FramePipe, Zenon
<1> USE <1>a, <1>u
<1>6. InvokeType'
    BY Zenon DEF InvokeType
<1>7. DaemonType'
    BY Zenon DEF DaemonType
<1>8. SpawnState'
    BY Zenon DEF SpawnState, DaemonType, Active
<1>9. SlotState'
    BY Zenon DEF SlotState, DaemonType
<1> HIDE <1>a, <1>u
<1> QED
    BY <1>1, <1>2, <1>3, <1>4, <1>5, <1>6, <1>7, <1>8, <1>9, Zenon DEF IInv, TypeOK

(* A candidate of the reaper that has become busy or is gone is skipped.   *)
LEMMA ScanInv ==
    ASSUME IInv, cands' \in SUBSET cands,
           UNCHANGED <<tableVars, childVars, spawnVars, invokeVars, sessionVars, phase>>
    PROVE  IInv'
<1> USE NoneFacts
<1>a. DaemonType
    BY Zenon DEF IInv, TypeOK
<1>u. UNCHANGED <<st, sid, child, lock, count, index, spawned, alive, unread, answered, torn,
                  spc, sslot, smine, sok, sagent, ipc, iagent, ireq, islot, session, canceled,
                  phase>>
    BY Zenon DEF tableVars, childVars, spawnVars, invokeVars, sessionVars
<1>1. TableType' /\ ChildType' /\ SpawnType' /\ InvokeType'
    BY <1>u, FrameTypes, Zenon
<1>2. SpawnState' /\ SpawnApart' /\ PipeSpawn' /\ ChildFresh'
    BY <1>u, FrameSpawn, Zenon
<1>3. SlotState' /\ ChildApart' /\ IndexState' /\ RightChild'
    BY <1>u, FrameTable, Zenon
<1>4. LockHeld' /\ HolderLocks' /\ CallerAgent' /\ SessionState' /\ TokenAlive'
    BY <1>u, FrameInvoke, Zenon
<1>5. AnswersBelow' /\ PipeFresh' /\ PipeIsClean'
    BY <1>u, FramePipe, Zenon
<1> USE <1>a, <1>u
<1>6. DaemonType'
    BY Zenon DEF DaemonType
<1> HIDE <1>a, <1>u
<1> QED
    BY <1>1, <1>2, <1>3, <1>4, <1>5, <1>6, Zenon DEF IInv, TypeOK

-----------------------------------------------------------------------------
(* The steps that kill children.                                           *)

(* agent_service_destroy.                                                  *)
LEMMA DestroyInv ==
    ASSUME IInv, Destroy
    PROVE  IInv'
<1> USE NoneFacts
<1>a. /\ TableType /\ ChildType /\ SpawnType /\ InvokeType /\ DaemonType
      /\ SpawnState /\ SlotState /\ ChildApart /\ ChildFresh /\ IndexState
      /\ LockHeld /\ AnswersBelow /\ PipeFresh /\ PipeSpawn /\ PipeIsClean
      /\ RightChild
    BY Zenon DEF IInv, TypeOK
<1>e. /\ \A p \in Spawner : spc[p] = "idle"
      /\ \A i \in Invoker : ipc[i] = "idle"
      /\ phase' = "destroyed"
      /\ alive' \in SUBSET alive
      /\ unread' = [c \in Agent |-> 0]
      /\ answered' = [c \in Agent |-> 0]
      /\ torn' = {}
      /\ child' = [s \in Slot |-> None]
      /\ sid' = [s \in Slot |-> None]
      /\ index' = [a \in Agent |-> None]
      /\ count' = 0
    BY DEF Destroy
<1>u. UNCHANGED <<st, lock, spawned, spc, sslot, smine, sok, sagent, ipc, iagent, ireq,
                  islot, session, canceled, cands>>
    BY Zenon DEF Destroy, tableVars, childVars, spawnVars, invokeVars, sessionVars
<1>1. SpawnType' /\ InvokeType'
    BY <1>u, FrameTypes, Zenon
<1>2. SpawnApart'
    BY <1>u, FrameSpawn, Zenon
<1>3. HolderLocks' /\ CallerAgent' /\ SessionState' /\ TokenAlive'
    BY <1>u, FrameInvoke, Zenon
<1> USE <1>a, <1>e, <1>u
<1>4. TableType'
    BY AgentAssumption, SMTT(60) DEF TableType
<1>5. ChildType'
    BY Zenon DEF ChildType
<1>6. DaemonType'
    BY Zenon DEF DaemonType
<1>7. SpawnState'
    BY Zenon DEF SpawnState, TableType, DaemonType, Active
<1>8. SlotState'
    BY Zenon DEF SlotState, TableType, DaemonType
<1>9. ChildApart'
    BY Zenon DEF ChildApart, TableType
<1>10. ChildFresh'
    BY Zenon DEF ChildFresh, TableType, SpawnType, Active
<1>11. IndexState'
    BY Zenon DEF IndexState, TableType
<1>12. LockHeld'
    BY SMTT(60) DEF LockHeld, TableType, InvokeType, Holds
<1>13. AnswersBelow'
    BY SMTT(60) DEF AnswersBelow, ChildType
<1>14. PipeFresh'
    BY Zenon DEF PipeFresh, ChildType
<1>15. PipeSpawn'
    BY Zenon DEF PipeSpawn, ChildType, Active
<1>16. PipeIsClean'
    BY Zenon DEF PipeIsClean, TableType, ChildType, InvokeType
<1>17. RightChild'
    BY Zenon DEF RightChild, TableType
<1> HIDE <1>a, <1>e, <1>u
<1> QED
    BY <1>1, <1>2, <1>3, <1>4, <1>5, <1>6, <1>7, <1>8, <1>9,
       <1>10, <1>11, <1>12, <1>13, <1>14, <1>15, <1>16, <1>17, Zenon DEF IInv, TypeOK

(* What agent_kill_and_reap leaves alone.                                  *)
LEMMA KillFacts ==
    ASSUME IInv, NEW s \in Slot, KillAndReap(s)
    PROVE  /\ alive' \in SUBSET alive /\ torn' \in SUBSET torn
           /\ child' = [child EXCEPT ![s] = None]
           /\ unread' \in [Agent -> Nat] /\ answered' \in [Agent -> Nat]
           /\ \A c \in Agent : unread'[c] \in {0, unread[c]} /\ answered'[c] <= unread'[c]
           /\ \A c \in Agent : c # child[s] =>
                unread'[c] = unread[c] /\ (c \in torn' <=> c \in torn)
<1>a. TableType /\ ChildType /\ AnswersBelow
    BY DEF IInv, TypeOK
<1> QED
    BY <1>a, NoneFacts DEF TableType, ChildType, AnswersBelow, KillAndReap

(* A failed exchange kills the child and gives the entry lock back.        *)
LEMMA KillUnlockInv ==
    ASSUME IInv, NEW i \in Invoker, NEW s \in Slot, s = islot[i], Holds(i), KillAndUnlock(i),
           UNCHANGED <<st, sid, count, index, spawned, spawnVars, iagent, ireq,
                       sessionVars, cands, phase>>
    PROVE  IInv'
<1> USE NoneFacts
<1>a. /\ TableType /\ ChildType /\ SpawnType /\ InvokeType /\ SpawnState
      /\ SlotState /\ ChildApart /\ ChildFresh /\ LockHeld /\ HolderLocks
      /\ CallerAgent /\ AnswersBelow /\ PipeFresh /\ PipeSpawn /\ SessionState
      /\ PipeIsClean /\ RightChild
    BY Zenon DEF IInv, TypeOK
<1>e. /\ alive' \in SUBSET alive
      /\ torn' \in SUBSET torn /\ (\A c \in Agent : c # child[s] => (c \in torn' <=> c \in torn))
      /\ child' = [child EXCEPT ![s] = None]
      /\ unread' \in [Agent -> Nat] /\ (\A c \in Agent : unread'[c] \in {0, unread[c]})
      /\ \A c \in Agent : c # child[s] => unread'[c] = unread[c]
      /\ answered' \in [Agent -> Nat] /\ (\A c \in Agent : answered'[c] <= unread'[c])
      /\ lock' = [lock EXCEPT ![s] = None]
      /\ ipc' = [ipc EXCEPT ![i] = "end"]
      /\ islot' = [islot EXCEPT ![i] = None]
    BY KillFacts, Zenon DEF KillAndUnlock
<1>u. UNCHANGED <<st, sid, count, index, spawned, spc, sslot, smine, sok, sagent, iagent,
                  ireq, session, canceled, cands, phase>>
    BY Zenon DEF tableVars, childVars, spawnVars, invokeVars, sessionVars
<1>1. SpawnType' /\ DaemonType'
    BY <1>u, FrameTypes, Zenon
<1>2. SpawnState' /\ SpawnApart'
    BY <1>u, FrameSpawn, Zenon
<1>3. IndexState'
    BY <1>u, FrameTable, Zenon
<1>4. TokenAlive'
    BY <1>u, FrameInvoke, Zenon
<1>5. LockHeld' /\ HolderLocks'
    BY <1>e, <1>u, UnlockStep
<1> USE <1>a, <1>e, <1>u
<1>6. TableType'
    BY Zenon DEF TableType
<1>7. ChildType'
    BY Zenon DEF ChildType
<1>8. InvokeType'
    BY Zenon DEF InvokeType
<1>9. SlotState'
    BY Zenon DEF SlotState, TableType
<1>10. ChildApart'
    BY Zenon DEF ChildApart, TableType
<1>11. ChildFresh'
    BY SMTT(60) DEF ChildFresh, TableType, SpawnType, Active, SpawnState
<1>12. CallerAgent'
    BY Zenon DEF CallerAgent, InvokeType, Holds
<1>13. AnswersBelow'
    BY Zenon DEF AnswersBelow, ChildType
<1>14. PipeFresh'
    BY Zenon DEF PipeFresh, ChildType
<1>15. PipeSpawn'
    BY Zenon DEF PipeSpawn, ChildType, Active, SpawnState
<1>16. SessionState'
    BY Zenon DEF SessionState, InvokeType, Holds
<1>17. PipeIsClean'
  <2> SUFFICES ASSUME NEW t \in Slot PROVE PipeIsClean!(t)'
    BY DEF PipeIsClean
  <2>1. CASE t = s
    BY <2>1, Zenon DEF PipeIsClean, TableType, ChildType, InvokeType, LockHeld, HolderLocks, Holds
  <2>2. CASE t # s
    BY <2>2, SMTT(60) DEF PipeIsClean, TableType, ChildType, InvokeType, LockHeld, HolderLocks, Holds, ChildApart
  <2> QED
    BY <2>1, <2>2
<1>18. RightChild'
    BY SMTT(60) DEF RightChild, TableType
<1> HIDE <1>a, <1>e, <1>u
<1> QED
    BY <1>1, <1>2, <1>3, <1>4, <1>5, <1>6, <1>7, <1>8, <1>9,
       <1>10, <1>11, <1>12, <1>13, <1>14, <1>15, <1>16, <1>17, <1>18, Zenon DEF IInv, TypeOK

(* terminate and the reaper kill the child under the entry lock.           *)
LEMMA EndAgentInv ==
    ASSUME IInv, NEW s \in Slot, EndAgent(s), lock[s] = None,
           st[s] \in {"RUNNING", "TERMINATED"}, cands' \in SUBSET cands
    PROVE  IInv'
<1> USE NoneFacts
<1>a. /\ TableType /\ ChildType /\ SpawnType /\ InvokeType /\ DaemonType
      /\ SpawnState /\ SlotState /\ ChildApart /\ ChildFresh /\ IndexState
      /\ LockHeld /\ HolderLocks /\ AnswersBelow /\ PipeFresh /\ PipeSpawn
      /\ PipeIsClean /\ RightChild
    BY Zenon DEF IInv, TypeOK
<1>e. /\ alive' \in SUBSET alive
      /\ torn' \in SUBSET torn /\ (\A c \in Agent : c # child[s] => (c \in torn' <=> c \in torn))
      /\ child' = [child EXCEPT ![s] = None]
      /\ unread' \in [Agent -> Nat] /\ (\A c \in Agent : unread'[c] \in {0, unread[c]})
      /\ \A c \in Agent : c # child[s] => unread'[c] = unread[c]
      /\ answered' \in [Agent -> Nat] /\ (\A c \in Agent : answered'[c] <= unread'[c])
      /\ st' = [st EXCEPT ![s] = "TERMINATED"]
    BY KillFacts, Zenon DEF EndAgent
<1>u. UNCHANGED <<sid, lock, count, index, spawned, spc, sslot, smine, sok, sagent, ipc,
                  iagent, ireq, islot, session, canceled, phase>>
    BY Zenon DEF EndAgent, tableVars, childVars, spawnVars, invokeVars, sessionVars
<1>1. SpawnType' /\ InvokeType'
    BY <1>u, FrameTypes, Zenon
<1>2. SpawnApart'
    BY <1>u, FrameSpawn, Zenon
<1>3. HolderLocks' /\ CallerAgent' /\ SessionState' /\ TokenAlive'
    BY <1>u, FrameInvoke, Zenon
<1> USE <1>a, <1>e, <1>u
<1>4. TableType'
    BY Zenon DEF TableType
<1>5. ChildType'
    BY Zenon DEF ChildType
<1>6. DaemonType'
    BY Zenon DEF DaemonType
<1>7. SpawnState'
    BY Zenon DEF SpawnState, TableType, Active
<1>8. SlotState'
    BY Zenon DEF SlotState, TableType
<1>9. ChildApart'
    BY Zenon DEF ChildApart, TableType
<1>10. ChildFresh'
    BY SMTT(60) DEF ChildFresh, TableType, SpawnType, Active, SpawnState
<1>11. IndexState'
    BY Zenon DEF IndexState, TableType
<1>12. LockHeld'
    BY Zenon DEF LockHeld, TableType, InvokeType, Holds
<1>13. AnswersBelow'
    BY Zenon DEF AnswersBelow, ChildType
<1>14. PipeFresh'
    BY Zenon DEF PipeFresh, ChildType
<1>15. PipeSpawn'
    BY SMTT(60) DEF PipeSpawn, ChildType, Active, SpawnState
<1>16. PipeIsClean'
  <2> SUFFICES ASSUME NEW t \in Slot PROVE PipeIsClean!(t)'
    BY DEF PipeIsClean
  <2>1. CASE t = s
    BY <2>1, SMTT(60) DEF PipeIsClean, TableType, ChildType, InvokeType, LockHeld, HolderLocks, Holds
  <2>2. CASE t # s
    BY <2>2, SMTT(60) DEF PipeIsClean, TableType, ChildType, InvokeType, LockHeld, HolderLocks, Holds, ChildApart
  <2> QED
    BY <2>1, <2>2
<1>17. RightChild'
    BY Zenon DEF RightChild, TableType
<1> HIDE <1>a, <1>e, <1>u
<1> QED
    BY <1>1, <1>2, <1>3, <1>4, <1>5, <1>6, <1>7, <1>8, <1>9,
       <1>10, <1>11, <1>12, <1>13, <1>14, <1>15, <1>16, <1>17, Zenon DEF IInv, TypeOK

-----------------------------------------------------------------------------
(* The steps of an invoke thread.                                          *)
LEMMA BeginStepInv ==
    ASSUME IInv, NEW i \in Invoker, NEW a \in 1..spawned,
           BeginRun(i, a) \/ \E r \in Request : Begin(i, a, r)
    PROVE  IInv'
<1>1. a \in Agent
    BY AgentAssumption, SMTT(60) DEF IInv, TypeOK, ChildType, Agent
<1> QED
    BY <1>1, BeginRunInv, BeginInv, Zenon

(* The lookup and the entry lock of an invoke.                             *)
LEMMA LockEntryInv ==
    ASSUME IInv, NEW i \in Invoker, LockEntry(i)
    PROVE  IInv'
<1> DEFINE s == index[iagent[i]]
<1>a. TableType /\ CallerAgent
    BY Zenon DEF IInv, TypeOK
<1>1. s \in Slot \cup {None}
    BY <1>a, Zenon DEF LockEntry, CallerAgent, TableType
<1>2. CASE s # None /\ st[s] = "RUNNING" /\ child[s] # None
    BY <1>1, <1>2, LockOkInv, Zenon
<1>3. CASE ~(s # None /\ st[s] = "RUNNING" /\ child[s] # None)
    BY <1>3, LockFailInv, Zenon
<1> QED
    BY <1>2, <1>3, Zenon

(* The exchange of an invoke with its child, and the end of the invoke.    *)
LEMMA InvokeStepInv ==
    ASSUME IInv, NEW i \in Invoker, InvokeStep(i)
    PROVE  IInv'
<1> DEFINE s == islot[i]
           c == child[s]
<1>a. TableType /\ InvokeType /\ LockHeld /\ HolderLocks
    BY Zenon DEF IInv, TypeOK
<1>1. Holds(i) => s \in Slot /\ c \in Agent
    <2>1. Holds(i) => s \in Slot /\ lock[s] = i
        BY <1>a, Zenon DEF HolderLocks
    <2>2. s \in Slot /\ lock[s] # None => c # None
        BY <1>a, Zenon DEF LockHeld
    <2> QED
        BY <1>a, <2>1, <2>2, NoneFacts, Zenon DEF TableType
<1>2. CASE Send(i)
    <2>1. Holds(i)
        BY <1>2, Zenon DEF Send, Holds
    <2>2. CASE c \in alive
        BY <1>1, <1>2, <2>1, <2>2, SendInv, Zenon
    <2>3. CASE c \notin alive
        <3>1. /\ KillAndUnlock(i)
              /\ UNCHANGED <<st, sid, count, index, spawned, spawnVars, iagent, ireq,
                             sessionVars, cands, phase>>
            BY <1>2, <2>3, Zenon DEF Send
        <3> QED
            BY <1>1, <2>1, <3>1, KillUnlockInv, Zenon
    <2> QED
        BY <2>2, <2>3, Zenon
<1>3. CASE ReadAnswer(i)
    <2>1. Holds(i)
        BY <1>3, Zenon DEF ReadAnswer, Holds
    <2>2. \/ /\ unread' = [unread EXCEPT ![c] = @ - 1]
             /\ answered' = [answered EXCEPT ![c] = @ - 1]
             /\ torn' = torn
          \/ torn' = torn \cup {c} /\ UNCHANGED <<unread, answered>>
        BY <1>3, Zenon DEF ReadAnswer
    <2> QED
        BY <1>1, <1>3, <2>1, <2>2, ReadAnswerInv, ReadTornInv, Zenon
<1>4. CASE ReadCancel(i) \/ ReadFail(i)
    <2>1. /\ Holds(i) /\ KillAndUnlock(i)
          /\ UNCHANGED <<st, sid, count, index, spawned, spawnVars, iagent, ireq,
                         sessionVars, cands, phase>>
        BY <1>4, Zenon DEF ReadCancel, ReadFail, Holds
    <2> QED
        BY <1>1, <2>1, KillUnlockInv, Zenon
<1>5. CASE End(i)
    <2>1. CASE ireq[i] = None
        <3>1. ireq' = ireq
            BY <1>5, <1>a, <2>1, Zenon DEF End, InvokeType
        <3> QED
            BY <1>5, <2>1, <3>1, EndRunInv, Zenon
    <2>2. CASE ireq[i] # None
        <3>1. ireq[i] \in Request
            BY <1>a, <2>2, Zenon DEF InvokeType
        <3> QED
            BY <1>5, <3>1, EndSessionInv, Zenon
    <2> QED
        BY <2>1, <2>2, Zenon
<1> QED
    BY <1>2, <1>3, <1>4, <1>5, Zenon DEF InvokeStep

(* The other requests, the reaper, the children and the shutdown.          *)
LEMMA OtherInv ==
    ASSUME IInv,
           \/ \E r \in Request : Cancel(r)
           \/ \E a \in Agent : Terminate(a) \/ ChildAnswers(a) \/ ChildExits(a)
           \/ ReapScan
           \/ \E s \in Slot : ReapOne(s)
           \/ Teardown \/ DrainOver \/ Destroy
    PROVE  IInv'
<1>a. TableType /\ InvokeType /\ DaemonType /\ IndexState
    BY Zenon DEF IInv, TypeOK
<1>1. CASE \E r \in Request : Cancel(r)
    <2>1. PICK r \in Request : Cancel(r)
        BY <1>1, Zenon
    <2>2. canceled' \in SUBSET Request /\ cands' \in SUBSET Slot /\ phase' = phase
        BY <1>a, <2>1, Zenon DEF Cancel, InvokeType, DaemonType
    <2>3. phase' \in {"up", "draining", "joining"} /\ phase # "destroyed"
        BY <1>a, <2>1, <2>2, Zenon DEF Cancel, Serving, DaemonType
    <2> QED
        BY <2>1, <2>2, <2>3, DaemonInv, Zenon DEF Cancel
<1>2. CASE \E a \in Agent : Terminate(a)
    <2>1. PICK a \in Agent : Terminate(a)
        BY <1>2, Zenon
    <2>2. index[a] \in Slot /\ st[index[a]] \in {"RUNNING", "TERMINATED"}
        BY <1>a, <2>1, Zenon DEF Terminate, IndexState, TableType
    <2>3. EndAgent(index[a]) /\ lock[index[a]] = None /\ cands' = cands
        BY <2>1, Zenon DEF Terminate
    <2>4. cands' \in SUBSET cands
        BY <2>3, Zenon
    <2> QED
        BY <2>2, <2>3, <2>4, EndAgentInv, Zenon
<1>3. CASE \E a \in Agent : ChildAnswers(a) \/ ChildExits(a)
    BY <1>3, ChildAnswersInv, ChildExitsInv, Zenon
<1>4. CASE ReapScan
    <2>1. cands' \in SUBSET Slot
        <3>1. \A s \in 1..count : s \in Slot
            BY <1>a, AgentAssumption, SMTT(60) DEF TableType, Slot
        <3> QED
            BY <1>4, <3>1, Zenon DEF ReapScan
    <2>2. /\ UNCHANGED <<tableVars, childVars, spawnVars, invokeVars, session>>
          /\ canceled' \in SUBSET Request
          /\ phase # "destroyed" /\ phase' \in {"up", "draining", "joining"}
        BY <1>4, <1>a, Zenon DEF ReapScan, sessionVars, InvokeType
    <2> QED
        BY <2>1, <2>2, DaemonInv, Zenon
<1>5. CASE \E s \in Slot : ReapOne(s)
    <2>1. PICK s \in Slot : ReapOne(s)
        BY <1>5, Zenon
    <2>2. cands' \in SUBSET cands /\ lock[s] = None
        BY <2>1, Zenon DEF ReapOne
    <2>3. CASE st[s] = "RUNNING" /\ child[s] # None
        BY <2>1, <2>2, <2>3, EndAgentInv, Zenon DEF ReapOne
    <2>4. CASE ~(st[s] = "RUNNING" /\ child[s] # None)
        <3>1. UNCHANGED <<tableVars, childVars, spawnVars, invokeVars, sessionVars, phase>>
            BY <2>1, <2>4, Zenon DEF ReapOne
        <3> QED
            BY <2>2, <3>1, ScanInv, Zenon
    <2> QED
        BY <2>3, <2>4, Zenon
<1>6. CASE Teardown \/ DrainOver
    <2>1. /\ UNCHANGED <<tableVars, childVars, spawnVars, invokeVars, session>>
          /\ canceled' \in SUBSET Request /\ cands' \in SUBSET Slot
          /\ phase # "destroyed" /\ phase' \in {"up", "draining", "joining"}
        BY <1>6, <1>a, Zenon DEF Teardown, DrainOver, sessionVars, InvokeType, DaemonType
    <2> QED
        BY <2>1, DaemonInv, Zenon
<1>7. CASE Destroy
    BY <1>7, DestroyInv, Zenon
<1> QED
    BY <1>1, <1>2, <1>3, <1>4, <1>5, <1>6, <1>7, Zenon

(* One step of the service keeps the invariant.                            *)
LEMMA NextIInv ==
    ASSUME IInv, [Next]_vars
    PROVE  IInv'
<1>1. CASE \E p \in Spawner : Acquire(p) \/ SpawnStep(p)
    BY <1>1, AcquireInv, SpawnStepInv, Zenon
<1>2. CASE \E i \in Invoker, a \in 1..spawned : BeginRun(i, a) \/ \E r \in Request : Begin(i, a, r)
    BY <1>2, BeginStepInv, Zenon
<1>3. CASE \E i \in Invoker : LockEntry(i) \/ InvokeStep(i)
    BY <1>3, LockEntryInv, InvokeStepInv, Zenon
<1>4. CASE \/ \E r \in Request : Cancel(r)
           \/ \E a \in Agent : Terminate(a) \/ ChildAnswers(a) \/ ChildExits(a)
           \/ ReapScan
           \/ \E s \in Slot : ReapOne(s)
           \/ Teardown \/ DrainOver \/ Destroy
    BY <1>4, OtherInv, Zenon
<1>5. CASE UNCHANGED vars
    <2>1. UNCHANGED <<tableVars, childVars, spawnVars, invokeVars, sessionVars, phase>>
        BY <1>5, Zenon DEF vars
    <2>2. cands' \in SUBSET cands
        BY <1>5, Zenon DEF vars
    <2> QED
        BY <2>1, <2>2, ScanInv, Zenon
<1> QED
    BY <1>1, <1>2, <1>3, <1>4, <1>5, Zenon DEF Next

(* Every reachable state satisfies the invariant.                          *)
THEOREM ServiceInvariant == Spec => []IInv
<1>1. IInv /\ [Next]_vars => IInv'
    BY NextIInv, Zenon
<1> QED
    BY InitIInv, <1>1, PTL DEF Spec

-----------------------------------------------------------------------------
(* A spawn that fails marks its slot FREE in agent_spawn_finish and clears *)
(* the id of the slot in a second critical section.  No other spawn takes  *)
(* the slot in between.                                                    *)
NoSlotRace ==
    \A p, q \in Spawner : Acquire(p) /\ spc[q] = "release" => sslot'[p] # sslot[q]

(* What holds of the slots as long as that is so: the id of a slot is the  *)
(* id of the spawn that owns it ...                                        *)
OwnId == \A p \in Spawner : Active(p) => sid[sslot[p]] = sagent[p]

(* ... a failed spawn still has its slot for itself ...                    *)
FreedSlot == \A p \in Spawner : spc[p] = "release" => st[sslot[p]] = "FREE"

FreedApart ==
    \A p, q \in Spawner : spc[p] = "release" /\ spc[q] # "idle" /\ p # q =>
        sslot[p] # sslot[q]

(* ... and a spawn with a child has a copy of its agent's id.              *)
FinishOk == \A p \in Spawner : spc[p] = "finish" /\ smine[p] # None => sok[p]

TrackInv ==
    /\ OwnId /\ FreedSlot /\ FreedApart /\ FinishOk
    /\ RunningIsRegistered /\ ChildrenTracked

(* agent_slot_acquire takes a slot that no spawn has.                      *)
LEMMA AcquireTrack ==
    ASSUME IInv, TrackInv, NEW p \in Spawner, Acquire(p), NoSlotRace
    PROVE  TrackInv'
<1>a. TableType /\ SpawnType /\ SpawnState
    BY Zenon DEF IInv, TypeOK
<1>b. OwnId /\ FreedSlot /\ FreedApart /\ FinishOk /\ RunningIsRegistered /\ ChildrenTracked
    BY Zenon DEF TrackInv
<1>1. PICK s \in Slot :
          /\ NextSlot(s)
          /\ st' = [st EXCEPT ![s] = "SPAWNING"]
          /\ sid' = [sid EXCEPT ![s] = spawned']
          /\ sslot' = [sslot EXCEPT ![p] = s]
    BY Zenon DEF Acquire
<1>2. st[s] = "FREE"
    BY <1>1, NextSlotFacts, Zenon DEF Acquire, Serving
<1>e. /\ spc[p] = "idle" /\ phase # "destroyed"
      /\ sagent' = [sagent EXCEPT ![p] = spawned']
      /\ spc' = [spc EXCEPT ![p] = "fork"]
      /\ UNCHANGED <<child, index, alive, smine, sok, phase>>
    BY Zenon DEF Acquire, Serving
<1>3. \A q \in Spawner : spc[q] = "release" => sslot[q] # s
    BY <1>a, <1>1, Zenon DEF NoSlotRace, SpawnType
<1>4. \A q \in Spawner : q # p =>
          spc'[q] = spc[q] /\ sslot'[q] = sslot[q] /\ sagent'[q] = sagent[q]
    BY <1>a, <1>1, <1>e, Zenon DEF SpawnType
<1>5. spc'[p] = "fork" /\ sslot'[p] = s /\ sagent'[p] = spawned' /\ sid'[s] = spawned'
    BY <1>a, <1>1, <1>e, Zenon DEF SpawnType, TableType
<1>6. \A t \in Slot : t # s => st'[t] = st[t] /\ sid'[t] = sid[t]
    BY <1>a, <1>1, Zenon DEF TableType
<1>7. \A q \in Spawner : Active(q) \/ spc[q] = "release" => sslot[q] \in Slot /\ sslot[q] # s
    BY <1>a, <1>2, <1>3, Zenon DEF SpawnState, Active
<1>8. OwnId'
    BY <1>b, <1>4, <1>5, <1>6, <1>7, SMTT(60) DEF OwnId, Active
<1>9. FreedSlot' /\ FreedApart'
    BY <1>b, <1>4, <1>5, <1>6, <1>7, SMTT(60) DEF FreedSlot, FreedApart
<1>10. FinishOk'
    BY <1>b, <1>4, <1>5, <1>e, Zenon DEF FinishOk
<1>11. st'[s] = "SPAWNING"
    BY <1>a, <1>1, Zenon DEF TableType
<1>12. RunningIsRegistered'
    BY <1>b, <1>6, <1>11, <1>e, Zenon DEF RunningIsRegistered
<1>13. ChildrenTracked'
    BY <1>b, <1>2, <1>6, <1>e, SMTT(60) DEF ChildrenTracked
<1> QED
    BY <1>8, <1>9, <1>10, <1>12, <1>13, Zenon DEF TrackInv

(* A spawn step that leaves the slots alone.                               *)
LEMMA ForkTrack ==
    ASSUME IInv, TrackInv, NEW p \in Spawner, Fork(p) \/ Handshake(p) \/ CopyId(p)
    PROVE  TrackInv'
<1>a. TableType /\ SpawnType /\ SpawnState
    BY Zenon DEF IInv, TypeOK
<1>c. ChildType
    BY Zenon DEF IInv, TypeOK
<1>b. OwnId /\ FreedSlot /\ FreedApart /\ FinishOk /\ RunningIsRegistered /\ ChildrenTracked
    BY Zenon DEF TrackInv
<1>u. UNCHANGED <<st, sid, child, index, sslot, sagent, phase>>
    BY Zenon DEF Fork, Handshake, CopyId, tableVars, childVars
<1>e. /\ spc[p] \in {"fork", "handshake", "copy"}
      /\ \/ spc' = [spc EXCEPT ![p] = "handshake"]
         \/ spc' = [spc EXCEPT ![p] = "copy"]
         \/ spc' = [spc EXCEPT ![p] = "finish"]
    BY Zenon DEF Fork, Handshake, CopyId
<1>1. /\ \A q \in Spawner : q # p => spc'[q] = spc[q]
      /\ Active(p) /\ spc'[p] \in {"handshake", "copy", "finish"}
    BY <1>a, <1>e, Zenon DEF SpawnType, Active
<1>2. \A q \in Spawner : (spc'[q] # "release" /\ spc[q] # "release") \/ spc'[q] = spc[q]
    BY <1>1, Zenon DEF Active
<1>3. \A q \in Spawner : (spc'[q] \in {"fork", "handshake", "copy", "finish"}) => Active(q)
    BY <1>1, Zenon DEF Active
<1>4. OwnId'
    BY <1>b, <1>3, <1>u, Zenon DEF OwnId, Active
<1>5. FreedSlot' /\ FreedApart'
    <2>1. \A q \in Spawner : spc'[q] # "idle" => spc[q] # "idle"
        BY <1>1, Zenon DEF Active
    <2>2. \A q \in Spawner : spc'[q] = "release" => spc[q] = "release"
        BY <1>2, Zenon
    <2> QED
        BY <1>b, <1>u, <2>1, <2>2, Zenon DEF FreedSlot, FreedApart
<1>6. RunningIsRegistered'
    BY <1>b, <1>u, Zenon DEF RunningIsRegistered
<1>7. FinishOk'
    <2>1. CASE Fork(p) \/ Handshake(p)
        <3>1. /\ spc'[p] # "finish" /\ sok' = sok
              /\ \A q \in Spawner : q # p => smine'[q] = smine[q]
            BY <1>a, <2>1, Zenon DEF Fork, Handshake, SpawnType
        <3> QED
            BY <1>b, <1>1, <3>1, Zenon DEF FinishOk
    <2>2. CASE CopyId(p)
        <3>1. smine' = smine /\ sok' = [sok EXCEPT ![p] = smine[p] # None /\ sid[sslot[p]] # None]
            BY <2>2, Zenon DEF CopyId
        <3>2. smine[p] # None => sid[sslot[p]] # None
            BY <1>a, <1>b, <1>1, NoneFacts, Zenon DEF OwnId, SpawnState, Active
        <3>3. smine[p] # None => sok'[p]
            BY <1>a, <3>1, <3>2, Zenon DEF SpawnType
        <3>4. \A q \in Spawner : q # p => sok'[q] = sok[q]
            BY <1>a, <3>1, Zenon DEF SpawnType
        <3> QED
            BY <1>b, <1>1, <3>1, <3>3, <3>4, Zenon DEF FinishOk
    <2> QED
        BY <2>1, <2>2
<1>8. ChildrenTracked'
    <2>p. phase # "destroyed"
        BY <1>a, <1>1, Zenon DEF SpawnState, Active
    <2>1. CASE Fork(p)
        <3>1. \/ alive' = alive /\ smine' = smine
              \/ alive' = alive \cup {sagent[p]} /\ smine' = [smine EXCEPT ![p] = sagent[p]]
            BY <2>1, Zenon DEF Fork
        <3>2. smine[p] # None => smine[p] = sagent[p]
            BY <1>a, Zenon DEF SpawnState
        <3>3. \A c \in alive : c # None
            BY <1>c, NoneFacts, Zenon DEF ChildType
        <3> QED
            BY <1>a, <1>b, <1>u, <2>p, <3>1, <3>2, <3>3, Zenon DEF ChildrenTracked, SpawnType
    <2>2. CASE Handshake(p)
        <3>1. \/ alive' = alive /\ smine' = smine
              \/ alive' = alive \ {smine[p]} /\ smine' = [smine EXCEPT ![p] = None]
            BY <2>2, Zenon DEF Handshake
        <3> QED
            BY <1>a, <1>b, <1>u, <2>p, <3>1, Zenon DEF ChildrenTracked, SpawnType
    <2>3. CASE CopyId(p)
        <3>1. alive' = alive /\ smine' = smine
            BY <2>3, Zenon DEF CopyId, childVars
        <3> QED
            BY <1>b, <1>u, <2>p, <3>1, Zenon DEF ChildrenTracked
    <2> QED
        BY <2>1, <2>2, <2>3, Zenon
<1> QED
    BY <1>4, <1>5, <1>6, <1>7, <1>8, Zenon DEF TrackInv

(* agent_spawn_finish, and the second half of its failure path.            *)
LEMMA FinishTrack ==
    ASSUME IInv, TrackInv, NEW p \in Spawner, Finish(p)
    PROVE  TrackInv'
<1> DEFINE s == sslot[p]
           a == sagent[p]
<1>a. TableType /\ ChildType /\ SpawnType /\ SpawnState /\ SpawnApart
    BY Zenon DEF IInv, TypeOK
<1>b. OwnId /\ FreedSlot /\ FreedApart /\ FinishOk /\ RunningIsRegistered /\ ChildrenTracked
    BY Zenon DEF TrackInv
<1>f. spc[p] = "finish"
    BY Zenon DEF Finish
<1>1. /\ s \in Slot /\ a \in Agent /\ sid[s] = a /\ a # None
      /\ st[s] = "SPAWNING" /\ index[a] = None
      /\ phase # "destroyed"
    BY <1>a, <1>b, <1>f, NoneFacts, Zenon DEF SpawnState, OwnId, Active
<1>u. /\ UNCHANGED <<sid, phase>>
      /\ smine' = [smine EXCEPT ![p] = None]
      /\ sok' = [sok EXCEPT ![p] = FALSE]
    BY Zenon DEF Finish
<1>2. \A q \in Spawner : q # p => smine'[q] = smine[q] /\ (sok[q] => sok'[q])
    BY <1>a, <1>u, Zenon DEF SpawnType
<1>3. \A q \in Spawner : q # p /\ spc[q] # "idle" => sslot[q] \in Slot /\ sslot[q] # s
    <2>1. \A q \in Spawner : spc[q] # "idle" => Active(q) \/ spc[q] = "release"
        BY <1>a, Zenon DEF SpawnType, Active
    <2>2. \A q \in Spawner : q # p /\ Active(q) => sslot[q] # s
        BY <1>a, <1>f, Zenon DEF SpawnApart, Active
    <2>3. \A q \in Spawner : q # p /\ spc[q] = "release" => sslot[q] # s
        BY <1>b, <1>f, Zenon DEF FreedApart
    <2>4. \A q \in Spawner : spc[q] # "idle" => sslot[q] \in Slot
        BY <1>a, Zenon DEF SpawnState
    <2> QED
        BY <2>1, <2>2, <2>3, <2>4, Zenon
<1>4. CASE sok[p]
    <2>1. Register(p, s)
        BY <1>1, <1>4, Zenon DEF Finish
    <2>2. /\ child' = [child EXCEPT ![s] = smine[p]]
          /\ index' = [index EXCEPT ![a] = s]
          /\ st' = [st EXCEPT ![s] = "RUNNING"]
          /\ spc' = [spc EXCEPT ![p] = "idle"]
          /\ sslot' = [sslot EXCEPT ![p] = None]
          /\ sagent' = [sagent EXCEPT ![p] = None]
          /\ alive' = alive
        BY <1>1, <2>1, Zenon DEF Register, EndSpawn
    <2>3. /\ spc'[p] = "idle"
          /\ \A q \in Spawner : q # p => spc'[q] = spc[q] /\ sslot'[q] = sslot[q] /\ sagent'[q] = sagent[q]
        BY <1>a, <2>2, Zenon DEF SpawnType
    <2>4. /\ \A t \in Slot : t # s => st'[t] = st[t] /\ child'[t] = child[t]
          /\ st'[s] = "RUNNING" /\ child'[s] = smine[p]
        BY <1>a, <1>1, <2>2, Zenon DEF TableType
    <2>5. OwnId'
        BY <1>b, <1>3, <1>u, <2>3, <2>4, SMTT(60) DEF OwnId, Active
    <2>6. FreedSlot' /\ FreedApart'
        BY <1>b, <1>3, <2>3, <2>4, SMTT(60) DEF FreedSlot, FreedApart
    <2>7. FinishOk'
        BY <1>b, <1>2, <2>3, Zenon DEF FinishOk
    <2>8. RunningIsRegistered'
        BY <1>a, <1>b, <1>1, <1>u, <2>2, <2>4, NoneFacts, SMTT(60)
           DEF RunningIsRegistered, TableType
    <2>9. ChildrenTracked'
        BY <1>b, <1>1, <1>2, <1>u, <2>2, <2>4, SMTT(60) DEF ChildrenTracked
    <2> QED
        BY <2>5, <2>6, <2>7, <2>8, <2>9, Zenon DEF TrackInv
<1>5. CASE ~sok[p]
    <2>1. Rollback(p, s)
        BY <1>5, Zenon DEF Finish
    <2>2. /\ st' = [st EXCEPT ![s] = "FREE"]
          /\ alive' = alive
          /\ spc' = [spc EXCEPT ![p] = "release"]
          /\ UNCHANGED <<child, index, sslot, sagent>>
        BY <1>5, <2>1, Zenon DEF Rollback
    <2>3. spc'[p] = "release" /\ \A q \in Spawner : q # p => spc'[q] = spc[q]
        BY <1>a, <2>2, Zenon DEF SpawnType
    <2>4. st'[s] = "FREE" /\ \A t \in Slot : t # s => st'[t] = st[t]
        BY <1>a, <1>1, <2>2, Zenon DEF TableType
    <2>5. OwnId'
        BY <1>b, <1>u, <2>2, <2>3, Zenon DEF OwnId, Active
    <2>6. FreedSlot' /\ FreedApart'
        BY <1>b, <1>3, <2>2, <2>3, <2>4, SMTT(60) DEF FreedSlot, FreedApart
    <2>7. FinishOk'
        BY <1>b, <1>2, <2>3, Zenon DEF FinishOk
    <2>8. RunningIsRegistered'
        BY <1>b, <1>u, <2>2, <2>4, Zenon DEF RunningIsRegistered
    <2>9. ChildrenTracked'
        <3>1. smine[p] = None
            BY <1>b, <1>f, <1>5, Zenon DEF FinishOk
        <3>2. \A c \in alive : c # None
            BY <1>a, NoneFacts, Zenon DEF ChildType
        <3> QED
            BY <1>b, <1>1, <1>2, <1>u, <2>2, <2>4, <3>1, <3>2, SMTT(60) DEF ChildrenTracked
    <2> QED
        BY <2>5, <2>6, <2>7, <2>8, <2>9, Zenon DEF TrackInv
<1> QED
    BY <1>4, <1>5

(* The second critical section of a failed spawn clears its own slot.      *)
LEMMA ReleaseTrack ==
    ASSUME IInv, TrackInv, NEW p \in Spawner, Release(p)
    PROVE  TrackInv'
<1> DEFINE s == sslot[p]
<1>a. TableType /\ SpawnType /\ SpawnState
    BY Zenon DEF IInv, TypeOK
<1>b. OwnId /\ FreedSlot /\ FreedApart /\ FinishOk /\ RunningIsRegistered /\ ChildrenTracked
    BY Zenon DEF TrackInv
<1>e. /\ spc[p] = "release"
      /\ sid' = [sid EXCEPT ![s] = None]
      /\ spc' = [spc EXCEPT ![p] = "idle"]
      /\ sslot' = [sslot EXCEPT ![p] = None]
      /\ sagent' = [sagent EXCEPT ![p] = None]
      /\ UNCHANGED <<st, child, index, alive, smine, sok, phase>>
    BY Zenon DEF Release, EndSpawn, childVars
<1>1. s \in Slot /\ st[s] = "FREE"
    BY <1>a, <1>b, <1>e, Zenon DEF SpawnState, FreedSlot
<1>2. \A t \in Slot : t # s => sid'[t] = sid[t]
    BY <1>a, <1>e, Zenon DEF TableType
<1>3. /\ spc'[p] = "idle"
      /\ \A q \in Spawner : q # p => spc'[q] = spc[q] /\ sslot'[q] = sslot[q] /\ sagent'[q] = sagent[q]
    BY <1>a, <1>e, Zenon DEF SpawnType
<1>4. OwnId'
    <2>1. \A q \in Spawner : q # p /\ Active(q) => sslot[q] # s /\ sslot[q] \in Slot
        BY <1>a, <1>b, <1>e, Zenon DEF FreedApart, SpawnState, Active
    <2> QED
        BY <1>b, <1>2, <1>3, <2>1, SMTT(60) DEF OwnId, Active
<1>5. FreedSlot' /\ FreedApart'
    BY <1>b, <1>3, <1>e, SMTT(60) DEF FreedSlot, FreedApart
<1>6. FinishOk'
    BY <1>b, <1>3, <1>e, Zenon DEF FinishOk
<1>7. RunningIsRegistered'
    BY <1>b, <1>1, <1>2, <1>e, Zenon DEF RunningIsRegistered
<1>8. ChildrenTracked'
    BY <1>b, <1>e, Zenon DEF ChildrenTracked
<1> QED
    BY <1>4, <1>5, <1>6, <1>7, <1>8, Zenon DEF TrackInv

-----------------------------------------------------------------------------
(* A step outside the spawns that kills no child without clearing its slot *)
(* keeps the children tracked.                                             *)
LEMMA OutsideTrack ==
    ASSUME IInv, TrackInv, UNCHANGED <<sid, index, spc, sslot, smine, sok, sagent>>,
           alive' \in SUBSET alive,
           \A s \in Slot : st'[s] = st[s] \/ (st[s] # "FREE" /\ st'[s] = "TERMINATED"),
           \A s \in Slot : child[s] \in alive' /\ st[s] = "RUNNING" =>
               child'[s] = child[s] /\ st'[s] = "RUNNING",
           (phase' = "destroyed") <=> (phase = "destroyed")
    PROVE  TrackInv'
<1>b. OwnId /\ FreedSlot /\ FreedApart /\ FinishOk /\ RunningIsRegistered /\ ChildrenTracked
    BY Zenon DEF TrackInv
<1>1. OwnId' /\ FreedApart' /\ FinishOk'
    BY <1>b, Zenon DEF OwnId, FreedApart, FinishOk, Active
<1>2. FreedSlot'
    <2>1. \A p \in Spawner : spc[p] = "release" => sslot[p] \in Slot
        BY Zenon DEF IInv, SpawnState
    <2> QED
        BY <1>b, <2>1, Zenon DEF FreedSlot
<1>3. RunningIsRegistered'
    BY <1>b, Zenon DEF RunningIsRegistered
<1>4. ChildrenTracked'
    BY <1>b, Zenon DEF ChildrenTracked
<1> QED
    BY <1>1, <1>2, <1>3, <1>4, Zenon DEF TrackInv

(* A child that is killed and reaped is taken out of its slot.             *)
LEMMA KillTrack ==
    ASSUME IInv, TrackInv, NEW s \in Slot, KillAndReap(s),
           UNCHANGED <<sid, index, spawnVars, phase>>,
           \A t \in Slot : st'[t] = st[t] \/ (t = s /\ st[t] # "FREE" /\ st'[t] = "TERMINATED")
    PROVE  TrackInv'
<1>a. TableType
    BY Zenon DEF IInv, TypeOK
<1>1. alive' = alive \ {child[s]} /\ child' = [child EXCEPT ![s] = None]
    BY Zenon DEF KillAndReap
<1>2. \A t \in Slot : t # s => child'[t] = child[t]
    BY <1>a, <1>1, Zenon DEF TableType
<1>3. \A t \in Slot : child[t] \in alive' /\ st[t] = "RUNNING" =>
          child'[t] = child[t] /\ st'[t] = "RUNNING"
    BY <1>1, <1>2, Zenon
<1>4. UNCHANGED <<spc, sslot, smine, sok, sagent>>
    BY Zenon DEF spawnVars
<1> QED
    BY <1>1, <1>3, <1>4, OutsideTrack, Zenon

(* A step that touches neither the slots nor the children.                 *)
LEMMA IdleTrack ==
    ASSUME IInv, TrackInv, UNCHANGED <<st, sid, child, index, spawnVars>>,
           alive' \in SUBSET alive, (phase' = "destroyed") <=> (phase = "destroyed")
    PROVE  TrackInv'
<1>1. UNCHANGED <<spc, sslot, smine, sok, sagent>>
    BY Zenon DEF spawnVars
<1>2. \A s \in Slot : st'[s] = st[s] \/ (st[s] # "FREE" /\ st'[s] = "TERMINATED")
    BY Zenon
<1>3. \A s \in Slot : child[s] \in alive' /\ st[s] = "RUNNING" =>
          child'[s] = child[s] /\ st'[s] = "RUNNING"
    BY Zenon
<1>4. UNCHANGED <<sid, index, spc, sslot, smine, sok, sagent>>
    BY <1>1, Zenon
<1> QED
    BY <1>2, <1>3, <1>4, OutsideTrack, Zenon

(* The exchange of an invoke kills a child only together with its slot     *)
(* entry.                                                                  *)
LEMMA InvokeTrack ==
    ASSUME IInv, TrackInv, NEW i \in Invoker, LockEntry(i) \/ InvokeStep(i)
    PROVE  TrackInv'
<1>1. CASE LockEntry(i)
    <2>1. UNCHANGED <<st, sid, child, index, spawnVars, alive, phase>>
        BY <1>1, Zenon DEF LockEntry, childVars
    <2> QED
        BY <2>1, IdleTrack
<1>2. CASE ReadAnswer(i)
    <2>1. UNCHANGED <<st, sid, child, index, spawnVars, alive, phase>>
        BY <1>2, Zenon DEF ReadAnswer, tableVars
    <2> QED
        BY <2>1, IdleTrack
<1>3. CASE End(i)
    <2>1. UNCHANGED <<st, sid, child, index, spawnVars, alive, phase>>
        BY <1>3, Zenon DEF End, tableVars, childVars
    <2> QED
        BY <2>1, IdleTrack
<1>4. CASE Send(i) /\ child[islot[i]] \in alive
    <2>1. UNCHANGED <<st, sid, child, index, spawnVars, alive, phase>>
        BY <1>4, Zenon DEF Send
    <2> QED
        BY <2>1, IdleTrack
<1>5. CASE \/ Send(i) /\ child[islot[i]] \notin alive
           \/ ReadCancel(i) \/ ReadFail(i)
    <2>1. KillAndUnlock(i) /\ UNCHANGED <<st, sid, index, spawnVars, phase>>
        BY <1>5, Zenon DEF Send, ReadCancel, ReadFail
    <2>2. Holds(i)
        BY <1>5, Zenon DEF Send, ReadCancel, ReadFail, Holds
    <2>3. islot[i] \in Slot
        BY <2>2, Zenon DEF IInv, HolderLocks
    <2>4. KillAndReap(islot[i])
        BY <2>1, Zenon DEF KillAndUnlock
    <2>5. \A t \in Slot : \/ st'[t] = st[t]
                          \/ t = islot[i] /\ st[t] # "FREE" /\ st'[t] = "TERMINATED"
        BY <2>1, Zenon
    <2>6. UNCHANGED <<sid, index, spawnVars, phase>>
        BY <2>1, Zenon
    <2> QED
        BY <2>3, <2>4, <2>5, <2>6, KillTrack
<1> QED
    BY <1>1, <1>2, <1>3, <1>4, <1>5, Zenon DEF InvokeStep

(* So do terminate and the reaper.                                         *)
LEMMA EndAgentTrack ==
    ASSUME IInv, TrackInv, NEW s \in Slot, EndAgent(s), st[s] \in {"RUNNING", "TERMINATED"}
    PROVE  TrackInv'
<1>a. TableType
    BY Zenon DEF IInv, TypeOK
<1>1. /\ KillAndReap(s) /\ st' = [st EXCEPT ![s] = "TERMINATED"]
      /\ UNCHANGED <<sid, index, spawnVars, phase>>
    BY Zenon DEF EndAgent
<1>2. st[s] # "FREE"
    BY SMT
<1>3. /\ st'[s] = "TERMINATED"
      /\ \A t \in Slot : t # s => st'[t] = st[t]
    BY <1>a, <1>1, Zenon DEF TableType
<1>4. \A t \in Slot : st'[t] = st[t] \/ (t = s /\ st[t] # "FREE" /\ st'[t] = "TERMINATED")
    BY <1>2, <1>3, Zenon
<1> QED
    BY <1>1, <1>4, KillTrack, Zenon

(* agent_service_destroy kills the child of every slot below agent_count;  *)
(* no other is left when the pool is joined.                               *)
LEMMA DestroyTrack ==
    ASSUME IInv, TrackInv, Destroy
    PROVE  TrackInv'
<1>a. TableType /\ ChildType /\ SpawnState /\ SlotState
    BY Zenon DEF IInv, TypeOK
<1>b. ChildrenTracked
    BY Zenon DEF TrackInv
<1>e. /\ \A p \in Spawner : spc[p] = "idle"
      /\ phase' = "destroyed"
      /\ alive' = alive \ {child[s] : s \in 1..count}
      /\ UNCHANGED <<spc, smine>>
    BY Zenon DEF Destroy, spawnVars
<1>1. \A c \in alive : c # None
    BY <1>a, NoneFacts, Zenon DEF ChildType
<1>2. \A p \in Spawner : smine[p] = None
    BY <1>a, <1>e, Zenon DEF SpawnState, Active
<1>3. \A c \in alive : \E s \in Slot : child[s] = c
    BY <1>b, <1>1, <1>2, Zenon DEF ChildrenTracked
<1>4. \A s \in Slot : child[s] # None => s \in 1..count
    BY <1>a, SMTT(60) DEF SlotState, TableType, Slot
<1>5. alive' = {}
    BY <1>1, <1>3, <1>4, <1>e, Zenon
<1>6. ChildrenTracked' /\ RunningIsRegistered'
    BY <1>5, <1>e, Zenon DEF ChildrenTracked, RunningIsRegistered
<1>7. OwnId' /\ FreedSlot' /\ FreedApart' /\ FinishOk'
    BY <1>e, Zenon DEF OwnId, FreedSlot, FreedApart, FinishOk, Active
<1> QED
    BY <1>6, <1>7, Zenon DEF TrackInv

(* The other requests, the reaper, the children and the shutdown.          *)
LEMMA OtherTrack ==
    ASSUME IInv, TrackInv,
           \/ \E r \in Request : Cancel(r)
           \/ \E a \in Agent : Terminate(a) \/ ChildAnswers(a) \/ ChildExits(a)
           \/ ReapScan
           \/ \E s \in Slot : ReapOne(s)
           \/ Teardown \/ DrainOver \/ Destroy
    PROVE  TrackInv'
<1>1. CASE \/ \E r \in Request : Cancel(r)
           \/ \E a \in Agent : ChildAnswers(a)
           \/ ReapScan \/ Teardown \/ DrainOver
    <2>1. UNCHANGED <<st, sid, child, index, spawnVars, alive>>
        BY <1>1, Zenon DEF Cancel, ChildAnswers, ReapScan, Teardown, DrainOver,
           tableVars, childVars
    <2>2. \/ phase' = phase
          \/ phase = "up" /\ phase' = "draining"
          \/ phase = "draining" /\ phase' = "joining"
        BY <1>1, Zenon DEF Cancel, ChildAnswers, ReapScan, Teardown, DrainOver
    <2>3. (phase' = "destroyed") <=> (phase = "destroyed")
        BY <2>2
    <2> QED
        BY <2>1, <2>3, IdleTrack, Zenon
<1>2. CASE \E a \in Agent : ChildExits(a)
    <2>1. UNCHANGED <<st, sid, child, index, spawnVars, phase>> /\ alive' \in SUBSET alive
        BY <1>2, Zenon DEF ChildExits, tableVars
    <2> QED
        BY <2>1, IdleTrack, Zenon
<1>3. CASE \E a \in Agent : Terminate(a)
    <2>1. PICK a \in Agent : Terminate(a)
        BY <1>3
    <2>2. index[a] \in Slot /\ st[index[a]] \in {"RUNNING", "TERMINATED"}
        BY <2>1, Zenon DEF Terminate, IInv, TypeOK, IndexState, TableType
    <2>3. EndAgent(index[a])
        BY <2>1, Zenon DEF Terminate
    <2> QED
        BY <2>2, <2>3, EndAgentTrack, Zenon
<1>4. CASE \E s \in Slot : ReapOne(s)
    <2>1. PICK s \in Slot : ReapOne(s)
        BY <1>4
    <2>2. CASE st[s] = "RUNNING" /\ child[s] # None
        BY <2>1, <2>2, EndAgentTrack, Zenon DEF ReapOne
    <2>3. CASE ~(st[s] = "RUNNING" /\ child[s] # None)
        <3>1. UNCHANGED <<st, sid, child, index, spawnVars, alive, phase>>
            BY <2>1, <2>3, Zenon DEF ReapOne, tableVars, childVars
        <3> QED
            BY <3>1, IdleTrack, Zenon
    <2> QED
        BY <2>2, <2>3
<1> QED
    BY <1>1, <1>2, <1>3, <1>4, DestroyTrack, Zenon

(* One step of the service keeps the slots exact if it is no race.         *)
LEMMA NextTrack ==
    ASSUME IInv, TrackInv, [Next /\ NoSlotRace]_vars
    PROVE  TrackInv'
<1>1. CASE NoSlotRace /\ \E p \in Spawner : Acquire(p) \/ SpawnStep(p)
    BY <1>1, AcquireTrack, ForkTrack, FinishTrack, ReleaseTrack, Zenon DEF SpawnStep
<1>2. CASE \E i \in Invoker, a \in 1..spawned : BeginRun(i, a) \/ \E r \in Request : Begin(i, a, r)
    <2>1. UNCHANGED <<st, sid, child, index, spawnVars, alive, phase>>
        BY <1>2, Zenon DEF BeginRun, Begin, tableVars, childVars
    <2> QED
        BY <2>1, IdleTrack, Zenon
<1>3. CASE \E i \in Invoker : LockEntry(i) \/ InvokeStep(i)
    BY <1>3, InvokeTrack
<1>4. CASE \/ \E r \in Request : Cancel(r)
           \/ \E a \in Agent : Terminate(a) \/ ChildAnswers(a) \/ ChildExits(a)
           \/ ReapScan
           \/ \E s \in Slot : ReapOne(s)
           \/ Teardown \/ DrainOver \/ Destroy
    BY <1>4, OtherTrack, Zenon
<1>5. CASE UNCHANGED vars
    <2>1. UNCHANGED <<st, sid, child, index, spawnVars, alive, phase>>
        BY <1>5, Zenon DEF vars, tableVars, childVars
    <2> QED
        BY <2>1, IdleTrack, Zenon
<1> QED
    BY <1>1, <1>2, <1>3, <1>4, <1>5, Zenon DEF Next

(* The empty table is exact.                                               *)
LEMMA InitTrack == Init => TrackInv
BY NoneFacts DEF Init, TrackInv, OwnId, FreedSlot, FreedApart, FinishOk,
   RunningIsRegistered, ChildrenTracked, Active

-----------------------------------------------------------------------------
(* The answer an invoke reads is the answer to its own request, for every  *)
(* number of slots and of threads that invoke, cancel, terminate and reap  *)
(* at the same time: agent_service_invoke's exchange under the entry lock, *)
(* and its kill of a child whose exchange was given up.                    *)
THEOREM PipesClean == Spec => []PipeIsClean
<1>1. IInv => PipeIsClean
    BY Zenon DEF IInv
<1> QED
    BY ServiceInvariant, <1>1, PTL

(* agent_service_invoke_begin and _end: the cancel token an invoke polls   *)
(* belongs to its own registered session, whatever other requests come.    *)
THEOREM TokensAlive == Spec => []TokenAlive
<1>1. IInv => TokenAlive
    BY Zenon DEF IInv
<1> QED
    BY ServiceInvariant, <1>1, PTL

(* An agent id never leads to the child of another agent, also when two    *)
(* spawns race for a slot (agent_slot_acquire, agent_spawn_finish).        *)
THEOREM RightChildren == Spec => []RightChild
<1>1. IInv => RightChild
    BY Zenon DEF IInv
<1> QED
    BY ServiceInvariant, <1>1, PTL

(* As long as no spawn takes a slot between the two critical sections of a *)
(* failed one, the slot bookkeeping is exact.                              *)
THEOREM CarefulTracked == Spec /\ [][NoSlotRace]_vars => []TrackInv
<1>1. IInv /\ TrackInv /\ [Next]_vars /\ [NoSlotRace]_vars => TrackInv'
    BY NextTrack, Zenon
<1> QED
    BY InitTrack, ServiceInvariant, <1>1, PTL DEF Spec

(* ... so no runner process is leaked then, and none outlives the daemon.  *)
THEOREM ChildrenKept == Spec /\ [][NoSlotRace]_vars => []ChildrenTracked
<1>1. TrackInv => ChildrenTracked
    BY Zenon DEF TrackInv
<1> QED
    BY CarefulTracked, <1>1, PTL

(* ... and a running agent is registered under its id: the slot race is    *)
(* the only way to lose one.                                               *)
THEOREM RegisteredKept == Spec /\ [][NoSlotRace]_vars => []RunningIsRegistered
<1>1. TrackInv => RunningIsRegistered
    BY Zenon DEF TrackInv
<1> QED
    BY CarefulTracked, <1>1, PTL

(* With one thread that spawns there is no such race.                      *)
THEOREM OneSpawner ==
    ASSUME \A p, q \in Spawner : p = q
    PROVE  Spec => [](ChildrenTracked /\ RunningIsRegistered)
<1>1. ASSUME NEW p \in Spawner, NEW q \in Spawner, Acquire(p), spc[q] = "release"
      PROVE  FALSE
    BY <1>1 DEF Acquire
<1>2. [Next]_vars => [NoSlotRace]_vars
    BY <1>1, Zenon DEF NoSlotRace
<1>3. Spec => [][NoSlotRace]_vars
    BY <1>2, PTL DEF Spec
<1> QED
    BY <1>3, ChildrenKept, RegisteredKept, PTL
=============================================================================
