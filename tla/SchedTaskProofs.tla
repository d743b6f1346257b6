--------------------------- MODULE SchedTaskProofs ---------------------------
(***************************************************************************)
(* Proofs about SchedTask for every capacity of the ring, every set of     *)
(* requests and agents and every strategy.                                 *)
(***************************************************************************)
EXTENDS SchedTask, TLAPS

-----------------------------------------------------------------------------
(* The inductive invariant: types ...                                      *)

EventName == {"task_queued", "task_started", "task_done", "task_canceled"}

TypeOK ==
    /\ status \in [TaskId -> Status]
    /\ req \in [TaskId -> Request \cup {None}]
    /\ ring \in [Slot -> TaskId \cup {None}]
    /\ head \in Slot /\ tail \in Slot
    /\ pc \in {"none", "loop", "select", "dispatch", "exec", "fail", "event"}
    /\ events \in [TaskId -> Seq(EventName)]
    /\ owed \in SUBSET (TaskId \X {"task_queued", "task_canceled"})

(* ... the slots from head to tail hold the PENDING tasks, each once ...   *)
RingInv ==
    /\ \A i \in 0..(QLen - 1) : ring[At(i)] \in TaskId /\ status[ring[At(i)]] = "PENDING"
    /\ \A t \in TaskId : status[t] = "PENDING" => \E i \in 0..(QLen - 1) : ring[At(i)] = t
    /\ \A i, j \in 0..(QLen - 1) : ring[At(i)] = ring[At(j)] => i = j

(* ... a record is built from a request ...                                *)
ReqInv ==
    \A t \in TaskId :
        /\ status[t] = "NONE" => req[t] = None
        /\ status[t] # "NONE" => req[t] \in Request

(* ... the worker handles the one RUNNING task ...                         *)
WorkerInv ==
    /\ pc \in {"select", "dispatch", "exec", "fail"} => cur \in TaskId /\ status[cur] = "RUNNING"
    /\ pc = "event" => cur \in TaskId /\ status[cur] \in {"COMPLETED", "FAILED"}
    /\ \A t \in TaskId : status[t] = "RUNNING" =>
           t = cur /\ pc \in {"select", "dispatch", "exec", "fail"}

(* ... and the hall has an event of a task only when the record allows it. *)
Has(t, e) == \E i \in 1..Len(events[t]) : events[t][i] = e

OnceInv ==
    \A t \in TaskId : \A i, j \in 1..Len(events[t]) :
        /\ events[t][i] = events[t][j] => i = j
        /\ events[t][i] = "task_started" /\ events[t][j] = "task_done" => i < j

HallInv ==
    \A t \in TaskId :
        /\ Has(t, "task_queued") => status[t] # "NONE" /\ <<t, "task_queued">> \notin owed
        /\ Has(t, "task_started") =>
             /\ status[t] \in {"RUNNING", "COMPLETED", "FAILED"}
             /\ t = cur => pc \notin {"select", "dispatch"}
        /\ Has(t, "task_done") =>
             /\ status[t] \in {"COMPLETED", "FAILED"}
             /\ ~(t = cur /\ pc = "event")
        /\ Has(t, "task_canceled") =>
             status[t] = "CANCELED" /\ <<t, "task_canceled">> \notin owed
        /\ <<t, "task_queued">> \in owed => status[t] # "NONE"
        /\ <<t, "task_canceled">> \in owed => status[t] = "CANCELED"

IInv == TypeOK /\ RingInv /\ ReqInv /\ WorkerInv /\ OnceInv /\ HallInv

-----------------------------------------------------------------------------
(* The arithmetic of the ring.                                             *)

(* The remainder of what is below twice the capacity ...                   *)
LEMMA ModSmall ==
    ASSUME NEW n \in Nat \ {0}, NEW a \in 0..(n - 1)
    PROVE  a % n = a
BY Z3

(* ... and one lap of the ring above it ...                                *)
LEMMA ModWrap ==
    ASSUME NEW n \in Nat \ {0}, NEW a \in n..(2 * n - 1)
    PROVE  a % n = a - n
BY Z3

(* ... gives the slot of a position and the length of the queue.           *)
LEMMA RingFacts ==
    ASSUME TypeOK
    PROVE  /\ Cap \in Nat \ {0} /\ head \in 0..(Cap - 1) /\ tail \in 0..(Cap - 1)
           /\ QLen = IF head <= tail THEN tail - head ELSE tail + Cap - head
           /\ QLen \in 0..(Cap - 1)
           /\ \A i \in 0..(Cap - 1) :
                At(i) = IF head + i < Cap THEN head + i ELSE head + i - Cap
           /\ \A i \in 0..(Cap - 1) : At(i) \in Slot
           /\ \A i, j \in 0..(Cap - 1) : At(i) = At(j) => i = j
           /\ tail = At(QLen)
<1>1. Cap \in Nat \ {0} /\ head \in 0..(Cap - 1) /\ tail \in 0..(Cap - 1)
    BY CapAssumption DEF TypeOK, Slot
<1>2. QLen = IF head <= tail THEN tail - head ELSE tail + Cap - head
    <2>1. CASE head <= tail
        <3>1. PICK a \in Cap..(2 * Cap - 1) : a = tail + Cap - head
            BY <1>1, <2>1
        <3>2. a % Cap = a - Cap
            BY CapAssumption, ModWrap, Zenon
        <3> QED
            BY <1>1, <2>1, <3>1, <3>2 DEF QLen
    <2>2. CASE ~(head <= tail)
        <3>1. tail + Cap - head \in 0..(Cap - 1)
            BY <1>1, <2>2
        <3> QED
            BY <1>1, <2>2, <3>1, ModSmall DEF QLen
    <2> QED
        BY <2>1, <2>2
<1>3. QLen \in 0..(Cap - 1)
    BY <1>1, <1>2
<1>4. \A i \in 0..(Cap - 1) : At(i) = IF head + i < Cap THEN head + i ELSE head + i - Cap
    <2> SUFFICES ASSUME NEW i \in 0..(Cap - 1)
                 PROVE  At(i) = IF head + i < Cap THEN head + i ELSE head + i - Cap
        OBVIOUS
    <2>1. CASE head + i < Cap
        <3>1. head + i \in 0..(Cap - 1)
            BY <1>1, <2>1
        <3> QED
            BY <1>1, <2>1, <3>1, ModSmall DEF At
    <2>2. CASE ~(head + i < Cap)
        <3>1. PICK a \in Cap..(2 * Cap - 1) : a = head + i
            BY <1>1, <2>2
        <3>2. a % Cap = a - Cap
            BY CapAssumption, ModWrap, Zenon
        <3> QED
            BY <1>1, <2>2, <3>1, <3>2 DEF At
    <2> QED
        BY <2>1, <2>2
<1>5. \A i \in 0..(Cap - 1) : At(i) \in Slot
    BY <1>1, <1>4 DEF Slot
<1>6. \A i, j \in 0..(Cap - 1) : At(i) = At(j) => i = j
    BY <1>1, <1>4
<1>7. tail = At(QLen)
    BY <1>1, <1>2, <1>3, <1>4
<1> QED
    BY <1>1, <1>2, <1>3, <1>4, <1>5, <1>6, <1>7

(* The slot after a position is the slot of the next position.             *)
LEMMA AtNext ==
    ASSUME TypeOK, NEW i \in 0..(Cap - 2)
    PROVE  (At(i) + 1) % Cap = At(i + 1)
<1>1. /\ Cap \in Nat \ {0} /\ head \in 0..(Cap - 1)
      /\ \A j \in 0..(Cap - 1) : At(j) = IF head + j < Cap THEN head + j ELSE head + j - Cap
    BY RingFacts
<1>2. /\ At(i) = IF head + i < Cap THEN head + i ELSE head + i - Cap
      /\ At(i + 1) = IF head + (i + 1) < Cap THEN head + (i + 1) ELSE head + (i + 1) - Cap
    BY <1>1
<1>3. CASE At(i) + 1 < Cap
    <2>1. At(i) + 1 \in 0..(Cap - 1)
        BY <1>1, <1>2, <1>3
    <2>2. (At(i) + 1) % Cap = At(i) + 1
        BY <1>1, <2>1, ModSmall
    <2> QED
        BY <1>1, <1>2, <1>3, <2>2
<1>4. CASE ~(At(i) + 1 < Cap)
    <2>1. At(i) + 1 = Cap /\ At(i + 1) = 0
        BY <1>1, <1>2, <1>4
    <2>2. Cap \in Cap..(2 * Cap - 1)
        BY <1>1
    <2>3. Cap % Cap = Cap - Cap
        BY <1>1, <2>2, ModWrap
    <2> QED
        BY <1>1, <2>1, <2>3
<1> QED
    BY <1>3, <1>4

(* The compaction of take_highest and cancel_task closes the gap of the    *)
(* position i: the entries before it stay, the others move up by one.      *)
LEMMA CompactFacts ==
    ASSUME TypeOK, NEW i \in 0..(QLen - 1), Compact(i)
    PROVE  /\ ring' \in [Slot -> TaskId \cup {None}]
           /\ head' = head /\ tail' \in Slot
           /\ QLen' = QLen - 1
           /\ \A j \in 0..(QLen - 2) :
                ring'[At(j)'] = ring[At(IF j < i THEN j ELSE j + 1)]
<1>1. /\ Cap \in Nat \ {0} /\ head \in 0..(Cap - 1) /\ tail \in 0..(Cap - 1)
      /\ QLen = IF head <= tail THEN tail - head ELSE tail + Cap - head
      /\ QLen \in 0..(Cap - 1) /\ QLen # 0
      /\ \A j \in 0..(Cap - 1) : At(j) \in Slot
      /\ \A j, k \in 0..(Cap - 1) : At(j) = At(k) => j = k
    BY RingFacts
<1>2. /\ ring' = [s \in Slot |->
                    IF s = At(QLen - 1) THEN None
                    ELSE IF \E j \in i..(QLen - 2) : s = At(j) THEN ring[(s + 1) % Cap]
                    ELSE ring[s]]
      /\ tail' = (tail + Cap - 1) % Cap
      /\ head' = head
    BY Zenon DEF Compact
<1>3. tail' = IF tail = 0 THEN Cap - 1 ELSE tail - 1
    <2>1. CASE tail = 0
        <3>1. tail + Cap - 1 \in 0..(Cap - 1)
            BY <1>1, <2>1
        <3> QED
            BY <1>1, <1>2, <2>1, <3>1, ModSmall
    <2>2. CASE tail # 0
        <3>1. PICK a \in Cap..(2 * Cap - 1) : a = tail + Cap - 1
            BY <1>1, <2>2
        <3>2. a % Cap = a - Cap
            BY CapAssumption, ModWrap, Zenon
        <3> QED
            BY <1>1, <1>2, <2>2, <3>1, <3>2
    <2> QED
        BY <2>1, <2>2
<1>4. tail' \in Slot
    BY <1>1, <1>3 DEF Slot
<1>5. QLen' = QLen - 1
    <2>1. PICK n \in 0..(Cap - 1) : n = tail'
        BY <1>4 DEF Slot
    <2>2. QLen' = (n + Cap - head) % Cap
        BY <1>2, <2>1 DEF QLen
    <2>3. Cap \in Nat \ {0} /\ head \in 0..(Cap - 1)
        BY <1>1
    <2>4. CASE head <= n
        <3>1. PICK a \in Cap..(2 * Cap - 1) : a = n + Cap - head
            BY <2>3, <2>4
        <3>2. a % Cap = a - Cap
            BY CapAssumption, ModWrap, Zenon
        <3> QED
            BY <1>1, <1>3, <2>1, <2>2, <2>4, <3>1, <3>2
    <2>5. CASE ~(head <= n)
        <3>1. n + Cap - head \in 0..(Cap - 1)
            BY <2>3, <2>5
        <3>2. (n + Cap - head) % Cap = n + Cap - head
            BY <2>3, <3>1, ModSmall
        <3> QED
            BY <1>1, <1>3, <2>1, <2>2, <2>5, <3>2
    <2> QED
        BY <2>4, <2>5
<1>6. \A s \in Slot : (s + 1) % Cap \in Slot
    BY <1>1, Z3 DEF Slot
<1>7. ring' \in [Slot -> TaskId \cup {None}]
    BY <1>2, <1>6 DEF TypeOK
<1>8. ASSUME NEW j \in 0..(QLen - 2)
      PROVE  ring'[At(j)'] = ring[At(IF j < i THEN j ELSE j + 1)]
    <2>1. At(j)' = At(j)
        BY <1>2 DEF At
    <2>2. At(j) \in Slot /\ At(j) # At(QLen - 1)
        BY <1>1
    <2>3. CASE j < i
        <3>1. ~\E k \in i..(QLen - 2) : At(j) = At(k)
            BY <1>1, <2>3
        <3>2. ring'[At(j)] = ring[At(j)]
            BY <1>2, <2>2, <3>1
        <3> QED
            BY <2>1, <2>3, <3>2
    <2>4. CASE ~(j < i)
        <3>1. \E k \in i..(QLen - 2) : At(j) = At(k)
            BY <1>1, <2>4
        <3>2. ring'[At(j)] = ring[(At(j) + 1) % Cap]
            BY <1>2, <2>2, <3>1
        <3>3. j \in 0..(Cap - 2)
            BY <1>1
        <3>4. (At(j) + 1) % Cap = At(j + 1)
            BY <3>3, AtNext
        <3> QED
            BY <2>1, <2>4, <3>2, <3>4
    <2> QED
        BY <2>3, <2>4
<1> QED
    BY <1>2, <1>4, <1>5, <1>7, <1>8, Zenon

(* A submission adds an entry behind the last one.                         *)
LEMMA AppendFacts ==
    ASSUME TypeOK, NEW x \in TaskId, QLen < Cap - 1,
           ring' = [ring EXCEPT ![tail] = x], tail' = (tail + 1) % Cap, head' = head
    PROVE  /\ ring' \in [Slot -> TaskId \cup {None}]
           /\ tail' \in Slot
           /\ QLen' = QLen + 1
           /\ \A j \in 0..QLen : ring'[At(j)'] = IF j = QLen THEN x ELSE ring[At(j)]
<1>1. /\ Cap \in Nat \ {0} /\ head \in 0..(Cap - 1) /\ tail \in 0..(Cap - 1)
      /\ QLen = IF head <= tail THEN tail - head ELSE tail + Cap - head
      /\ QLen \in 0..(Cap - 1)
    BY RingFacts
<1>2. /\ \A j \in 0..(Cap - 1) : At(j) \in Slot
      /\ \A j, k \in 0..(Cap - 1) : At(j) = At(k) => j = k
      /\ tail = At(QLen)
    BY RingFacts
<1>3. tail' = IF tail = Cap - 1 THEN 0 ELSE tail + 1
    <2>1. CASE tail = Cap - 1
        <3>1. Cap \in Cap..(2 * Cap - 1)
            BY CapAssumption
        <3>2. Cap % Cap = Cap - Cap
            BY <3>1, CapAssumption, ModWrap
        <3>3. tail + 1 = Cap
            BY <1>1, <2>1
        <3> QED
            BY <1>1, <2>1, <3>2, <3>3
    <2>2. CASE tail # Cap - 1
        <3>1. tail + 1 \in 0..(Cap - 1)
            BY <1>1, <2>2
        <3>2. (tail + 1) % Cap = tail + 1
            BY <3>1, CapAssumption, ModSmall
        <3> QED
            BY <2>2, <3>2
    <2> QED
        BY <2>1, <2>2
<1>4. tail' \in Slot
    BY <1>1, <1>3 DEF Slot
<1>5. QLen' = QLen + 1
    <2>1. PICK n \in 0..(Cap - 1) : n = tail'
        BY <1>4 DEF Slot
    <2>2. QLen' = (n + Cap - head) % Cap
        BY <2>1 DEF QLen
    <2>3. Cap \in Nat \ {0} /\ head \in 0..(Cap - 1)
        BY <1>1
    <2>4. CASE head <= n
        <3>1. PICK a \in Cap..(2 * Cap - 1) : a = n + Cap - head
            BY <2>3, <2>4
        <3>2. a % Cap = a - Cap
            BY CapAssumption, ModWrap, Zenon
        <3> QED
            BY <1>1, <1>3, <2>1, <2>2, <2>4, <3>1, <3>2
    <2>5. CASE ~(head <= n)
        <3>1. n + Cap - head \in 0..(Cap - 1)
            BY <2>3, <2>5
        <3>2. (n + Cap - head) % Cap = n + Cap - head
            BY <2>3, <3>1, ModSmall
        <3> QED
            BY <1>1, <1>3, <2>1, <2>2, <2>5, <3>2
    <2> QED
        BY <2>4, <2>5
<1>6. ring' \in [Slot -> TaskId \cup {None}]
    BY DEF TypeOK
<1>7. ASSUME NEW j \in 0..QLen
      PROVE  ring'[At(j)'] = IF j = QLen THEN x ELSE ring[At(j)]
    <2>1. At(j)' = At(j)
        BY DEF At
    <2>2. At(j) \in Slot /\ (At(j) = tail <=> j = QLen)
        BY <1>1, <1>2
    <2> QED
        BY <2>1, <2>2 DEF TypeOK
<1> QED
    BY <1>4, <1>5, <1>6, <1>7

-----------------------------------------------------------------------------
(* The ring and the PENDING tasks.                                         *)

(* A step that leaves the ring and the set of PENDING tasks alone.         *)
LEMMA RingSame ==
    ASSUME RingInv, UNCHANGED queueVars,
           \A t \in TaskId : status'[t] = "PENDING" <=> status[t] = "PENDING"
    PROVE  RingInv'
<1>1. UNCHANGED <<ring, head, tail>> /\ QLen' = QLen /\ \A i \in 0..(QLen - 1) : At(i)' = At(i)
    BY DEF queueVars, QLen, At
<1> QED
    BY <1>1 DEF RingInv

(* sched_service_submit_task: the new task is the last of the queue.       *)
LEMMA RingGrow ==
    ASSUME TypeOK, RingInv, NEW x \in TaskId, status[x] = "NONE", QLen < Cap - 1,
           ring' = [ring EXCEPT ![tail] = x], tail' = (tail + 1) % Cap, head' = head,
           status' = [status EXCEPT ![x] = "PENDING"]
    PROVE  RingInv'
<1>0. QLen \in Nat
    BY RingFacts
<1>1. /\ QLen \in Nat /\ QLen' = QLen + 1
      /\ \A j \in 0..QLen : ring'[At(j)'] = IF j = QLen THEN x ELSE ring[At(j)]
    BY <1>0, AppendFacts, Zenon
<1>2. /\ \A t \in TaskId : t # x => status'[t] = status[t]
      /\ status'[x] = "PENDING"
    BY DEF TypeOK
<1>3. /\ \A i \in 0..(QLen - 1) : ring[At(i)] \in TaskId /\ status[ring[At(i)]] = "PENDING"
      /\ \A t \in TaskId : status[t] = "PENDING" => \E i \in 0..(QLen - 1) : ring[At(i)] = t
      /\ \A i, j \in 0..(QLen - 1) : ring[At(i)] = ring[At(j)] => i = j
    BY DEF RingInv
<1>4. \A i \in 0..QLen : ring'[At(i)'] \in TaskId /\ status'[ring'[At(i)']] = "PENDING"
    BY <1>1, <1>2, <1>3
<1>5. ASSUME NEW t \in TaskId, status'[t] = "PENDING"
      PROVE  \E i \in 0..QLen : ring'[At(i)'] = t
    <2>1. CASE t = x
        BY <1>1, <2>1
    <2>2. CASE t # x
        <3>1. PICK i \in 0..(QLen - 1) : ring[At(i)] = t
            BY <1>2, <1>3, <1>5, <2>2
        <3> QED
            BY <1>1, <3>1
    <2> QED
        BY <2>1, <2>2
<1>6. \A i, j \in 0..QLen : ring'[At(i)'] = ring'[At(j)'] => i = j
    BY <1>1, <1>2, <1>3
<1>7. 0..(QLen' - 1) = 0..QLen
    BY <1>1
<1> QED
    BY <1>4, <1>5, <1>6, <1>7, Zenon DEF RingInv

(* take_highest and cancel_task: the task of one position leaves.          *)
LEMMA RingShrink ==
    ASSUME TypeOK, RingInv, NEW i \in 0..(QLen - 1), Compact(i),
           NEW s, s # "PENDING", status' = [status EXCEPT ![ring[At(i)]] = s]
    PROVE  RingInv'
<1> DEFINE K(j) == IF j < i THEN j ELSE j + 1
<1>1. /\ QLen \in Nat /\ QLen' = QLen - 1
      /\ \A j \in 0..(QLen - 2) : ring'[At(j)'] = ring[At(K(j))]
    BY RingFacts, CompactFacts
<1>2. /\ \A j \in 0..(QLen - 1) : ring[At(j)] \in TaskId /\ status[ring[At(j)]] = "PENDING"
      /\ \A t \in TaskId : status[t] = "PENDING" => \E j \in 0..(QLen - 1) : ring[At(j)] = t
      /\ \A j, k \in 0..(QLen - 1) : ring[At(j)] = ring[At(k)] => j = k
    BY DEF RingInv
<1>3. /\ \A t \in TaskId : t # ring[At(i)] => status'[t] = status[t]
      /\ status'[ring[At(i)]] = s
    BY <1>2 DEF TypeOK
<1>4. /\ \A j \in 0..(QLen - 2) : K(j) \in 0..(QLen - 1) /\ K(j) # i
      /\ \A j, k \in 0..(QLen - 2) : K(j) = K(k) => j = k
      /\ \A m \in 0..(QLen - 1) : m # i => \E j \in 0..(QLen - 2) : K(j) = m
    <2>1. \A j \in 0..(QLen - 2) : K(j) \in 0..(QLen - 1) /\ K(j) # i
        BY <1>1
    <2>2. \A j, k \in 0..(QLen - 2) : K(j) = K(k) => j = k
        BY <1>1
    <2>3. ASSUME NEW m \in 0..(QLen - 1), m # i
          PROVE  \E j \in 0..(QLen - 2) : K(j) = m
        <3>1. CASE m < i
            <4>1. m \in 0..(QLen - 2) /\ K(m) = m
                BY <1>1, <3>1
            <4> QED
                BY <4>1
        <3>2. CASE ~(m < i)
            <4>1. m - 1 \in 0..(QLen - 2) /\ K(m - 1) = m
                BY <1>1, <2>3, <3>2
            <4> QED
                BY <4>1
        <3> QED
            BY <3>1, <3>2
    <2> QED
        BY <2>1, <2>2, <2>3
<1> HIDE DEF K
<1>5. \A j \in 0..(QLen - 2) : ring'[At(j)'] \in TaskId /\ status'[ring'[At(j)']] = "PENDING"
    BY <1>1, <1>2, <1>3, <1>4
<1>6. ASSUME NEW t \in TaskId, status'[t] = "PENDING"
      PROVE  \E j \in 0..(QLen - 2) : ring'[At(j)'] = t
    <2>1. t # ring[At(i)] /\ status[t] = "PENDING"
        BY <1>3, <1>6
    <2>2. PICK m \in 0..(QLen - 1) : ring[At(m)] = t
        BY <1>2, <2>1
    <2>3. PICK j \in 0..(QLen - 2) : K(j) = m
        BY <1>4, <2>1, <2>2
    <2> QED
        BY <1>1, <2>2, <2>3
<1>7. \A j, k \in 0..(QLen - 2) : ring'[At(j)'] = ring'[At(k)'] => j = k
    BY <1>1, <1>2, <1>4
<1>8. 0..(QLen' - 1) = 0..(QLen - 2)
    BY <1>1
<1> QED
    BY <1>5, <1>6, <1>7, <1>8, Zenon DEF RingInv

-----------------------------------------------------------------------------
(* The hall.                                                               *)

(* An event that a task does not have yet is added to its record.          *)
LEMMA AppendEvent ==
    ASSUME TypeOK, OnceInv, NEW t \in TaskId, NEW e \in EventName, ~Has(t, e),
           e = "task_started" => ~Has(t, "task_done"),
           events' = [events EXCEPT ![t] = Append(@, e)]
    PROVE  /\ OnceInv'
           /\ events' \in [TaskId -> Seq(EventName)]
           /\ \A u \in TaskId : \A f \in EventName : Has(u, f)' => Has(u, f) \/ (u = t /\ f = e)
<1>1. events \in [TaskId -> Seq(EventName)]
    BY DEF TypeOK
<1>2. events' \in [TaskId -> Seq(EventName)]
    BY <1>1
<1>3. /\ \A u \in TaskId : u # t => events'[u] = events[u]
      /\ events'[t] = Append(events[t], e)
    BY <1>1
<1>4. /\ Len(events[t]) \in Nat
      /\ Len(events'[t]) = Len(events[t]) + 1
      /\ \A i \in 1..Len(events[t]) : events'[t][i] = events[t][i]
      /\ events'[t][Len(events[t]) + 1] = e
    BY <1>1, <1>3
<1>5. \A i \in 1..Len(events[t]) : events[t][i] # e
    BY DEF Has
<1>6. \A i, j \in 1..Len(events'[t]) :
          /\ events'[t][i] = events'[t][j] => i = j
          /\ events'[t][i] = "task_started" /\ events'[t][j] = "task_done" => i < j
    <2> SUFFICES ASSUME NEW i \in 1..Len(events'[t]), NEW j \in 1..Len(events'[t])
                 PROVE  /\ events'[t][i] = events'[t][j] => i = j
                        /\ events'[t][i] = "task_started" /\ events'[t][j] = "task_done" => i < j
        OBVIOUS
    <2>1. i \in 1..Len(events[t]) \/ i = Len(events[t]) + 1
        BY <1>4
    <2>2. j \in 1..Len(events[t]) \/ j = Len(events[t]) + 1
        BY <1>4
    <2>3. \A a, b \in 1..Len(events[t]) :
              /\ events[t][a] = events[t][b] => a = b
              /\ events[t][a] = "task_started" /\ events[t][b] = "task_done" => a < b
        BY DEF OnceInv
    <2>4. e = "task_started" => \A a \in 1..Len(events[t]) : events[t][a] # "task_done"
        BY DEF Has
    <2> QED
        BY <1>4, <1>5, <2>1, <2>2, <2>3, <2>4
<1>7. OnceInv'
    BY <1>3, <1>6 DEF OnceInv
<1>8. ASSUME NEW u \in TaskId, NEW f \in EventName, Has(u, f)'
      PROVE  Has(u, f) \/ (u = t /\ f = e)
    BY <1>3, <1>4, <1>8 DEF Has
<1> QED
    BY <1>2, <1>7, <1>8

(* A step that writes no event.                                            *)
LEMMA SameEvents ==
    ASSUME OnceInv, events' = events
    PROVE  OnceInv' /\ \A t \in TaskId, e \in EventName : Has(t, e)' <=> Has(t, e)
<1>1. OnceInv'
    BY DEF OnceInv
<1>2. \A t \in TaskId, e \in EventName : Has(t, e)' <=> Has(t, e)
    BY Zenon DEF Has
<1> QED
    BY <1>1, <1>2

-----------------------------------------------------------------------------
(* Every step keeps the invariant.                                         *)

(* The empty table satisfies the invariant.                                *)
LEMMA InitIInv == Init => IInv
<1> SUFFICES ASSUME Init PROVE IInv
    OBVIOUS
<1>1. TypeOK
    BY CapAssumption DEF Init, TypeOK, Slot, Status, EventName
<1>2. QLen = 0
    BY <1>1, RingFacts DEF Init
<1>3. RingInv
    BY <1>2 DEF Init, RingInv
<1>4. ReqInv /\ WorkerInv
    BY DEF Init, ReqInv, WorkerInv
<1>5. OnceInv /\ HallInv
    BY DEF Init, OnceInv, HallInv, Has
<1> QED
    BY <1>1, <1>3, <1>4, <1>5 DEF IInv

(* Steps that only touch the registry, the executor or the sleep.          *)
LEMMA FrameInv ==
    ASSUME IInv, UNCHANGED <<status, req, ring, head, tail, pc, cur, events, owed>>
    PROVE  IInv'
<1>1. RingInv'
    BY RingSame DEF IInv, queueVars
<1>2. TypeOK' /\ ReqInv' /\ WorkerInv'
    BY Zenon DEF IInv, TypeOK, ReqInv, WorkerInv
<1>3. OnceInv'
    BY SameEvents, Zenon DEF IInv
<1>4. HallInv'
    BY Zenon DEF IInv, HallInv, Has
<1> QED
    BY <1>1, <1>2, <1>3, <1>4, Zenon DEF IInv

(* The worker starts, ends, or has selected an agent.                      *)
LEMMA PcInv ==
    ASSUME IInv, UNCHANGED <<status, req, ring, head, tail, cur, events, owed>>,
           \/ pc = "none" /\ pc' = "loop"
           \/ pc = "loop" /\ pc' = "none"
           \/ pc = "select" /\ pc' = "dispatch"
           \/ pc \in {"select", "dispatch"} /\ pc' = "fail"
    PROVE  IInv'
<1>1. RingInv'
    BY RingSame DEF IInv, queueVars
<1>2. TypeOK'
    BY DEF IInv, TypeOK
<1>3. ReqInv'
    BY Zenon DEF IInv, ReqInv
<1>4. WorkerInv'
    BY DEF IInv, WorkerInv
<1>5. OnceInv' /\ \A t \in TaskId, e \in EventName : Has(t, e)' <=> Has(t, e)
    BY SameEvents, Zenon DEF IInv
<1>6. HallInv'
    BY <1>5 DEF IInv, HallInv, EventName
<1> QED
    BY <1>1, <1>2, <1>3, <1>4, <1>5, <1>6, Zenon DEF IInv

(* A submission takes a fresh record and the slot at the tail.             *)
LEMMA SubmitInv ==
    ASSUME IInv, NEW r \in Request, SubmitTask(r)
    PROVE  IInv'
<1> DEFINE x == r.id
<1>1. x \in TaskId
    BY DEF TaskId
<1>2. /\ owed = {} /\ status[x] = "NONE" /\ QLen < Cap - 1
      /\ status' = [status EXCEPT ![x] = "PENDING"]
      /\ req' = [req EXCEPT ![x] = r]
      /\ ring' = [ring EXCEPT ![tail] = x]
      /\ tail' = (tail + 1) % Cap
      /\ owed' = {<<x, "task_queued">>}
      /\ UNCHANGED <<head, pc, cur, events>>
    BY DEF SubmitTask, Idle
<1> HIDE DEF x
<1>3. TypeOK /\ RingInv /\ ReqInv /\ WorkerInv /\ OnceInv /\ HallInv
    BY DEF IInv
<1>4. RingInv'
    BY <1>1, <1>2, <1>3, RingGrow, Zenon
<1>5. ring' \in [Slot -> TaskId \cup {None}] /\ tail' \in Slot
    BY <1>1, <1>2, <1>3, AppendFacts, Zenon
<1>6. /\ \A t \in TaskId : t # x => status'[t] = status[t] /\ req'[t] = req[t]
      /\ status'[x] = "PENDING" /\ req'[x] = r
    BY <1>1, <1>2, <1>3 DEF TypeOK
<1>7. TypeOK'
    BY <1>1, <1>2, <1>3, <1>5 DEF TypeOK, Status
<1>8. ReqInv'
    BY <1>1, <1>3, <1>6 DEF ReqInv
<1>9. WorkerInv'
    BY <1>1, <1>2, <1>3, <1>6 DEF WorkerInv
<1>10. OnceInv' /\ \A t \in TaskId, e \in EventName : Has(t, e)' <=> Has(t, e)
    BY <1>2, <1>3, SameEvents, Zenon
<1>11. HallInv'
    <2>2. \A e \in EventName : ~Has(x, e)
        BY <1>1, <1>2, <1>3 DEF HallInv, EventName
    <2> QED
        BY <1>1, <1>2, <1>3, <1>6, <1>10, <2>2 DEF HallInv, EventName
<1> QED
    BY <1>4, <1>7, <1>8, <1>9, <1>10, <1>11 DEF IInv

(* A compaction with the new status of the task that leaves.               *)
LEMMA LeaveInv ==
    ASSUME IInv, NEW i \in 0..(QLen - 1), Compact(i),
           NEW s \in Status \ {"PENDING", "NONE"},
           status' = [status EXCEPT ![ring[At(i)]] = s], req' = req
    PROVE  /\ RingInv' /\ ReqInv'
           /\ status' \in [TaskId -> Status]
           /\ ring' \in [Slot -> TaskId \cup {None}] /\ head' \in Slot /\ tail' \in Slot
           /\ ring[At(i)] \in TaskId /\ status[ring[At(i)]] = "PENDING"
           /\ status'[ring[At(i)]] = s
           /\ \A t \in TaskId : t # ring[At(i)] => status'[t] = status[t]
<1>1. TypeOK /\ RingInv /\ ReqInv
    BY DEF IInv
<1>2. RingInv'
    <2>1. s # "PENDING"
        OBVIOUS
    <2> QED
        BY <1>1, <2>1, RingShrink, Zenon
<1>3. ring[At(i)] \in TaskId /\ status[ring[At(i)]] = "PENDING"
    BY <1>1 DEF RingInv
<1>4. /\ status' \in [TaskId -> Status] /\ status'[ring[At(i)]] = s
      /\ \A t \in TaskId : t # ring[At(i)] => status'[t] = status[t]
    BY <1>1, <1>3 DEF TypeOK
<1>5. ring' \in [Slot -> TaskId \cup {None}] /\ head' = head /\ tail' \in Slot
    BY <1>1, CompactFacts
<1>6. ReqInv'
    BY <1>1, <1>3, <1>4 DEF ReqInv
<1> QED
    BY <1>1, <1>2, <1>3, <1>4, <1>5, <1>6 DEF TypeOK

(* A cancellation finds its PENDING task in the ring and removes it.       *)
LEMMA CancelInv ==
    ASSUME IInv, NEW t \in TaskId, CancelTask(t)
    PROVE  IInv'
<1>1. TypeOK /\ RingInv /\ ReqInv /\ WorkerInv /\ OnceInv /\ HallInv
    BY DEF IInv
<1>2. /\ owed = {} /\ status[t] = "PENDING"
      /\ status' = [status EXCEPT ![t] = "CANCELED"]
      /\ owed' = {<<t, "task_canceled">>}
      /\ UNCHANGED <<req, pc, cur, events>>
    BY DEF CancelTask, Idle, worker
<1>3. \E i \in 0..(QLen - 1) : ring[At(i)] = t
    BY <1>1, <1>2 DEF RingInv
<1>4. PICK i \in 0..(QLen - 1) : ring[At(i)] = t /\ Compact(i)
    BY <1>3, Zenon DEF CancelTask
<1>5. "CANCELED" \in Status \ {"PENDING", "NONE"}
    BY DEF Status
<1>6. /\ RingInv' /\ ReqInv'
      /\ status' \in [TaskId -> Status]
      /\ ring' \in [Slot -> TaskId \cup {None}] /\ head' \in Slot /\ tail' \in Slot
      /\ status'[t] = "CANCELED"
      /\ \A u \in TaskId : u # t => status'[u] = status[u]
    BY <1>2, <1>4, <1>5, LeaveInv, Zenon
<1>7. TypeOK'
    BY <1>1, <1>2, <1>6 DEF TypeOK
<1>8. WorkerInv'
    BY <1>1, <1>2, <1>6 DEF WorkerInv
<1>9. OnceInv' /\ \A u \in TaskId, e \in EventName : Has(u, e)' <=> Has(u, e)
    BY <1>1, <1>2, SameEvents, Zenon
<1>10. HallInv'
    BY <1>1, <1>2, <1>6, <1>9 DEF HallInv, EventName
<1> QED
    BY <1>6, <1>7, <1>8, <1>9, <1>10 DEF IInv

(* The worker removes the task it takes and holds it alone.                *)
LEMMA TakeInv ==
    ASSUME IInv, Take
    PROVE  IInv'
<1>1. TypeOK /\ RingInv /\ ReqInv /\ WorkerInv /\ OnceInv /\ HallInv
    BY DEF IInv
<1>2. PICK i \in 0..(QLen - 1) : cur' = ring[At(i)] /\ Compact(i)
    BY DEF Take
<1>3. /\ pc = "loop" /\ pc' = "select"
      /\ status' = [status EXCEPT ![ring[At(i)]] = "RUNNING"]
      /\ UNCHANGED <<req, events, owed>>
    BY <1>2 DEF Take, hall
<1>4. "RUNNING" \in Status \ {"PENDING", "NONE"}
    BY DEF Status
<1>5. /\ RingInv' /\ ReqInv'
      /\ status' \in [TaskId -> Status]
      /\ ring' \in [Slot -> TaskId \cup {None}] /\ head' \in Slot /\ tail' \in Slot
      /\ cur' \in TaskId /\ status[cur'] = "PENDING" /\ status'[cur'] = "RUNNING"
      /\ \A u \in TaskId : u # cur' => status'[u] = status[u]
    BY <1>2, <1>3, <1>4, LeaveInv, Zenon
<1>6. TypeOK'
    BY <1>1, <1>3, <1>5 DEF TypeOK
<1>7. WorkerInv'
    BY <1>1, <1>3, <1>5 DEF WorkerInv
<1>8. OnceInv' /\ \A u \in TaskId, e \in EventName : Has(u, e)' <=> Has(u, e)
    BY <1>1, <1>3, SameEvents, Zenon
<1>9. HallInv'
    BY <1>1, <1>3, <1>5, <1>8, Zenon DEF HallInv, EventName
<1> QED
    BY <1>5, <1>6, <1>7, <1>8, <1>9 DEF IInv

(* The RPC thread writes the event it owes.                                *)
LEMMA WriteEventInv ==
    ASSUME IInv, NEW o \in owed, WriteEvent(o)
    PROVE  IInv'
<1>1. TypeOK /\ RingInv /\ ReqInv /\ WorkerInv /\ OnceInv /\ HallInv
    BY DEF IInv
<1>2. PICK t \in TaskId, e \in {"task_queued", "task_canceled"} : o = <<t, e>>
    BY <1>1 DEF TypeOK
<1>3. /\ owed' = owed \ {<<t, e>>}
      /\ events' = [events EXCEPT ![t] = Append(@, e)]
      /\ UNCHANGED <<status, req, ring, head, tail, pc, cur>>
    BY <1>2 DEF WriteEvent, table, queueVars, worker
<1>4. e \in EventName /\ ~Has(t, e) /\ e # "task_started"
    BY <1>1, <1>2 DEF HallInv, EventName
<1>5. /\ OnceInv' /\ events' \in [TaskId -> Seq(EventName)]
      /\ \A u \in TaskId : \A f \in EventName : Has(u, f)' => Has(u, f) \/ (u = t /\ f = e)
    BY <1>1, <1>3, <1>4, AppendEvent, Zenon
<1>6. TypeOK'
    BY <1>1, <1>3, <1>5 DEF TypeOK
<1>7. RingInv'
    BY <1>1, <1>3, RingSame DEF queueVars
<1>8. ReqInv' /\ WorkerInv'
    BY <1>1, <1>3, Zenon DEF ReqInv, WorkerInv
<1>9. HallInv'
    <2>1. \A u \in TaskId, f \in EventName : <<u, f>> \in owed' <=> <<u, f>> \in owed /\ ~(u = t /\ f = e)
        BY <1>3
    <2> QED
        BY <1>1, <1>2, <1>3, <1>5, <2>1 DEF HallInv, EventName
<1> QED
    BY <1>5, <1>6, <1>7, <1>8, <1>9 DEF IInv

(* Dispatch: the start is recorded, or there is no executor.               *)
LEMMA DispatchInv ==
    ASSUME IInv, Dispatch
    PROVE  IInv'
<1>1. TypeOK /\ RingInv /\ ReqInv /\ WorkerInv /\ OnceInv /\ HallInv
    BY DEF IInv
<1>2. pc = "dispatch" /\ UNCHANGED <<status, req, ring, head, tail, cur, owed>>
    BY DEF Dispatch, table, queueVars
<1>3. CASE ~executor
    <2>1. pc' = "fail" /\ events' = events
        BY <1>3 DEF Dispatch
    <2> QED
        BY <1>2, <2>1, PcInv
<1>4. CASE executor
    <2>1. /\ pc' = "exec" /\ cur \in TaskId /\ status[cur] = "RUNNING"
          /\ events' = [events EXCEPT ![cur] = Append(@, "task_started")]
        BY <1>1, <1>2, <1>4 DEF Dispatch, WorkerInv
    <2>2. ~Has(cur, "task_started") /\ ~Has(cur, "task_done") /\ "task_started" \in EventName
        BY <1>1, <1>2, <2>1 DEF HallInv, EventName
    <2>3. /\ OnceInv' /\ events' \in [TaskId -> Seq(EventName)]
          /\ \A u \in TaskId : \A f \in EventName :
                Has(u, f)' => Has(u, f) \/ (u = cur /\ f = "task_started")
        BY <1>1, <2>1, <2>2, AppendEvent, Zenon
    <2>4. TypeOK'
        BY <1>1, <1>2, <2>1, <2>3 DEF TypeOK
    <2>5. RingInv'
        BY <1>1, <1>2, RingSame DEF queueVars
    <2>6. ReqInv' /\ WorkerInv'
        BY <1>1, <1>2, <2>1 DEF ReqInv, WorkerInv
    <2>7. HallInv'
        <3>1. \A u \in TaskId :
                /\ Has(u, "task_queued")' => Has(u, "task_queued")
                /\ Has(u, "task_started")' => Has(u, "task_started") \/ u = cur
                /\ Has(u, "task_done")' => Has(u, "task_done")
                /\ Has(u, "task_canceled")' => Has(u, "task_canceled")
            BY <2>3 DEF EventName
        <3> QED
            BY <1>1, <1>2, <2>1, <3>1, Zenon DEF HallInv
    <2> QED
        BY <2>3, <2>4, <2>5, <2>6, <2>7 DEF IInv
<1> QED
    BY <1>3, <1>4

(* The result of the executor, or the failure, is written to the record.   *)
LEMMA WriteBackInv ==
    ASSUME IInv, pc \in {"exec", "fail"}, NEW s \in {"COMPLETED", "FAILED"}, WriteBack(s)
    PROVE  IInv'
<1>1. TypeOK /\ RingInv /\ ReqInv /\ WorkerInv /\ OnceInv /\ HallInv
    BY DEF IInv
<1>2. /\ status' = [status EXCEPT ![cur] = s] /\ pc' = "event"
      /\ UNCHANGED <<req, ring, head, tail, cur, events, owed>>
    BY DEF WriteBack, queueVars, hall
<1>3. cur \in TaskId /\ status[cur] = "RUNNING"
    BY <1>1 DEF WorkerInv
<1>4. /\ status'[cur] = s
      /\ \A t \in TaskId : t # cur => status'[t] = status[t]
    BY <1>1, <1>2, <1>3 DEF TypeOK
<1>5. TypeOK'
    BY <1>1, <1>2, <1>3 DEF TypeOK, Status
<1>6. RingInv'
    BY <1>1, <1>2, <1>3, <1>4, RingSame DEF queueVars
<1>7. ReqInv' /\ WorkerInv'
    BY <1>1, <1>2, <1>3, <1>4 DEF ReqInv, WorkerInv
<1>8. OnceInv' /\ \A u \in TaskId, e \in EventName : Has(u, e)' <=> Has(u, e)
    BY <1>1, <1>2, SameEvents, Zenon
<1>9. HallInv'
    BY <1>1, <1>2, <1>3, <1>4, <1>8, Zenon DEF HallInv, EventName
<1> QED
    BY <1>5, <1>6, <1>7, <1>8, <1>9 DEF IInv

(* The result is recorded and the worker goes on to the next task.         *)
LEMMA WriteResultInv ==
    ASSUME IInv, WriteResult
    PROVE  IInv'
<1>1. TypeOK /\ RingInv /\ ReqInv /\ WorkerInv /\ OnceInv /\ HallInv
    BY DEF IInv
<1>2. /\ pc = "event" /\ pc' = "loop"
      /\ events' = [events EXCEPT ![cur] = Append(@, "task_done")]
      /\ UNCHANGED <<status, req, ring, head, tail, owed>>
    BY DEF WriteResult, table, queueVars
<1>3. cur \in TaskId /\ status[cur] \in {"COMPLETED", "FAILED"}
    BY <1>1, <1>2 DEF WorkerInv
<1>4. ~Has(cur, "task_done") /\ "task_done" \in EventName /\ "task_done" # "task_started"
    BY <1>1, <1>2, <1>3 DEF HallInv, EventName
<1>5. /\ OnceInv' /\ events' \in [TaskId -> Seq(EventName)]
      /\ \A u \in TaskId : \A f \in EventName :
            Has(u, f)' => Has(u, f) \/ (u = cur /\ f = "task_done")
    BY <1>1, <1>2, <1>3, <1>4, AppendEvent, Zenon
<1>6. TypeOK'
    BY <1>1, <1>2, <1>5 DEF TypeOK
<1>7. RingInv'
    BY <1>1, <1>2, RingSame DEF queueVars
<1>8. ReqInv' /\ WorkerInv'
    BY <1>1, <1>2 DEF ReqInv, WorkerInv
<1>9. HallInv'
    <2>1. \A u \in TaskId :
            /\ Has(u, "task_queued")' => Has(u, "task_queued")
            /\ Has(u, "task_started")' => Has(u, "task_started")
            /\ Has(u, "task_done")' => Has(u, "task_done") \/ u = cur
            /\ Has(u, "task_canceled")' => Has(u, "task_canceled")
        BY <1>5 DEF EventName
    <2> QED
        BY <1>1, <1>2, <1>3, <2>1, Zenon DEF HallInv
<1> QED
    BY <1>5, <1>6, <1>7, <1>8, <1>9 DEF IInv

(* One step of the service keeps the invariant.                            *)
LEMMA NextIInv ==
    ASSUME IInv, [Next]_vars
    PROVE  IInv'
<1>1. CASE \E r \in Request : SubmitTask(r)
    BY <1>1, SubmitInv
<1>2. CASE \E t \in TaskId : CancelTask(t)
    BY <1>2, CancelInv
<1>3. CASE \E o \in owed : WriteEvent(o)
    BY <1>3, WriteEventInv
<1>4. CASE \/ \E a \in AgentInfo : RegisterAgent(a)
           \/ \E a \in AgentId : UnregisterAgent(a)
           \/ RpcSelect \/ SetExecutor \/ StopWorkers \/ Sleep \/ SpuriousWakeup
           \/ UNCHANGED vars
    <2>1. UNCHANGED <<status, req, ring, head, tail, pc, cur, events, owed>>
        BY <1>4, Zenon DEF RegisterAgent, UnregisterAgent, RpcSelect, SetExecutor, StopWorkers,
           Sleep, SpuriousWakeup, vars, table, queueVars, worker, hall
    <2> QED
        BY <2>1, FrameInv
<1>5. CASE StartWorkers \/ ExitThread \/ Select
    <2>1. UNCHANGED <<status, req, ring, head, tail, cur, events, owed>>
        BY <1>5, Zenon DEF StartWorkers, ExitThread, Select, table, queueVars, hall
    <2>2. \/ pc = "none" /\ pc' = "loop"
          \/ pc = "loop" /\ pc' = "none"
          \/ pc = "select" /\ pc' = "dispatch"
          \/ pc \in {"select", "dispatch"} /\ pc' = "fail"
        BY <1>5 DEF StartWorkers, ExitThread, Select
    <2> QED
        BY <2>1, <2>2, PcInv
<1>6. CASE Take \/ Dispatch \/ WriteResult
    BY <1>6, TakeInv, DispatchInv, WriteResultInv
<1>7. CASE Fail
    BY <1>7, WriteBackInv DEF Fail
<1>8. CASE \E r \in Outcome : Finish(r)
    <2>1. pc = "exec" /\ \E s \in {"COMPLETED", "FAILED"} : WriteBack(s)
        BY <1>8 DEF Finish
    <2> QED
        BY <2>1, WriteBackInv
<1> QED
    BY <1>1, <1>2, <1>3, <1>4, <1>5, <1>6, <1>7, <1>8, Zenon DEF Next, Worker

(* Every reachable state satisfies the invariant.                          *)
THEOREM TaskInvariant == Spec => []IInv
<1>1. IInv /\ [Next]_vars => IInv'
    BY NextIInv
<1> QED
    BY InitIInv, <1>1, PTL DEF Spec

-----------------------------------------------------------------------------
(* The properties of the queue and of the hall.                            *)

(* The ring holds exactly the PENDING tasks, each once, for every capacity *)
(* and every order of submissions, takes and cancellations: the wrapping   *)
(* index arithmetic and the compaction lose and double nothing.            *)
THEOREM RingIsPending == Spec => []QueueIsPending
<1>1. ASSUME IInv
      PROVE  QueueIsPending
    <2>1. TypeOK /\ RingInv
        BY <1>1, Zenon DEF IInv
    <2>2. QLen \in Nat
        BY <2>1, RingFacts
    <2>3. \A i \in 1..QLen : Queued[i] = ring[At(i - 1)] /\ i - 1 \in 0..(QLen - 1)
        BY <2>2 DEF Queued
    <2>4. \A i \in 0..(QLen - 1) : i + 1 \in 1..QLen /\ Queued[i + 1] = ring[At(i)]
        BY <2>2 DEF Queued
    <2>5. \A i, j \in 1..QLen : Queued[i] = Queued[j] => i = j
        BY <2>1, <2>2, <2>3 DEF RingInv
    <2>6. \A i \in 1..QLen : Queued[i] \in TaskId /\ status[Queued[i]] = "PENDING"
        BY <2>1, <2>3 DEF RingInv
    <2>7. \A t \in TaskId : status[t] = "PENDING" => \E i \in 1..QLen : Queued[i] = t
        BY <2>1, <2>4 DEF RingInv
    <2>8. {Queued[i] : i \in 1..QLen} = {t \in TaskId : status[t] = "PENDING"}
        BY <2>6, <2>7, Zenon
    <2> QED
        BY <2>5, <2>8, Zenon DEF QueueIsPending
<1> QED
    BY TaskInvariant, <1>1, PTL

(* The hall never tells two stories of a task: an event is written at most *)
(* once, the start before the end, and neither for a canceled task, though *)
(* the RPC thread and the worker write outside the lock.                   *)
THEOREM OneStory == Spec => []HallTellsOneStory
<1>1. ASSUME IInv
      PROVE  HallTellsOneStory
    <2>1. OnceInv /\ HallInv
        BY <1>1, Zenon DEF IInv
    <2>2. ASSUME NEW t \in TaskId
          PROVE  /\ status[t] = "CANCELED" => ~Has(t, "task_started") /\ ~Has(t, "task_done")
                 /\ Has(t, "task_canceled") => status[t] = "CANCELED"
        BY <2>1, Zenon DEF HallInv
    <2> QED
        BY <2>1, <2>2 DEF OnceInv, Has, HallTellsOneStory
<1> QED
    BY TaskInvariant, <1>1, PTL

-----------------------------------------------------------------------------
(* The ring implements the priority queue.                                 *)

(* Two sequences with the same elements at the same places are equal.      *)
LEMMA SeqSame ==
    ASSUME NEW S, NEW p \in Seq(S), NEW q \in Seq(S), Len(p) = Len(q),
           \A j \in 1..Len(p) : p[j] = q[j]
    PROVE  p = q
OBVIOUS

(* The sequence without its i-th element.                                  *)
LEMMA DropOne ==
    ASSUME NEW S, NEW p \in Seq(S), NEW q \in Seq(S), NEW i \in 1..Len(q),
           Len(p) = Len(q) - 1
    PROVE  (\A j \in 1..Len(p) : p[j] = q[IF j < i THEN j ELSE j + 1])
             => p = SubSeq(q, 1, i - 1) \o SubSeq(q, i + 1, Len(q))
<1>1. SUFFICES ASSUME \A j \in 1..Len(p) : p[j] = q[IF j < i THEN j ELSE j + 1]
               PROVE  p = SubSeq(q, 1, i - 1) \o SubSeq(q, i + 1, Len(q))
    BY Zenon
<1>2. PICK m \in 1..(Len(q) + 1), n \in 0..Len(q) : m = i + 1 /\ n = i - 1
    OBVIOUS
<1>3. PICK a \in Seq(S) : /\ a = SubSeq(q, 1, n) /\ Len(a) = n
                          /\ \A j \in 1..n : a[j] = q[j]
    <2>1. SubSeq(q, 1, n) \in Seq(S)
        OBVIOUS
    <2>2. Len(SubSeq(q, 1, n)) = n
        OBVIOUS
    <2>3. \A j \in 1..n : SubSeq(q, 1, n)[j] = q[j]
        OBVIOUS
    <2> QED
        BY <2>1, <2>2, <2>3, Zenon
<1>4. PICK b \in Seq(S) : /\ b = SubSeq(q, m, Len(q)) /\ Len(b) = Len(q) - m + 1
                          /\ \A j \in 1..(Len(q) - m + 1) : b[j] = q[m + j - 1]
    <2>1. SubSeq(q, m, Len(q)) \in Seq(S)
        OBVIOUS
    <2>2. Len(SubSeq(q, m, Len(q))) = Len(q) - m + 1
        OBVIOUS
    <2>3. \A j \in 1..(Len(q) - m + 1) : SubSeq(q, m, Len(q))[j] = q[m + j - 1]
        OBVIOUS
    <2> QED
        BY <2>1, <2>2, <2>3, Zenon
<1>5. PICK c \in Seq(S) : /\ c = a \o b /\ Len(c) = Len(a) + Len(b)
                          /\ \A j \in 1..Len(a) : c[j] = a[j]
                          /\ \A j \in 1..Len(b) : c[Len(a) + j] = b[j]
    <2>1. a \o b \in Seq(S)
        OBVIOUS
    <2>2. Len(a \o b) = Len(a) + Len(b)
        OBVIOUS
    <2>3. \A j \in 1..Len(a) : (a \o b)[j] = a[j]
        OBVIOUS
    <2>4. \A j \in 1..Len(b) : (a \o b)[Len(a) + j] = b[j]
        OBVIOUS
    <2> QED
        BY <2>1, <2>2, <2>3, <2>4, Zenon
<1>6. Len(a) = i - 1 /\ Len(b) = Len(q) - i /\ Len(c) = Len(p)
    <2>1. Len(a) = n /\ Len(b) = Len(q) - m + 1 /\ Len(c) = Len(a) + Len(b)
        BY <1>3, <1>4, <1>5, Zenon
    <2> QED
        BY <1>2, <2>1
<1>7. ASSUME NEW j \in 1..Len(p)
      PROVE  p[j] = c[j]
    <2>1. p[j] = q[IF j < i THEN j ELSE j + 1]
        BY <1>1
    <2>2. CASE j < i
        <3>1. j \in 1..Len(a) /\ j \in 1..n
            BY <1>2, <1>6, <2>2
        <3>2. c[j] = q[j]
            BY <1>3, <1>5, <3>1, Zenon
        <3> QED
            BY <2>1, <2>2, <3>2, Zenon
    <2>3. CASE ~(j < i)
        <3>1. PICK k \in 1..Len(b) : j = Len(a) + k
            <4>1. j - Len(a) \in 1..Len(b) /\ j = Len(a) + (j - Len(a))
                BY <1>6, <2>3
            <4> QED
                BY <4>1, Zenon
        <3>2. c[j] = b[k]
            BY <1>5, <3>1, Zenon
        <3>3. k \in 1..(Len(q) - m + 1) /\ m + k - 1 = j + 1
            BY <1>2, <1>6, <3>1
        <3>4. b[k] = q[j + 1]
            BY <1>4, <3>3, Zenon
        <3> QED
            BY <2>1, <2>3, <3>2, <3>4, Zenon
    <2> QED
        BY <2>2, <2>3, Zenon
<1>8. p = c
    BY <1>6, <1>7, SeqSame, Zenon
<1> QED
    BY <1>2, <1>3, <1>4, <1>5, <1>8, Zenon

(* The sequence with one more element.                                     *)
LEMMA AddOne ==
    ASSUME NEW S, NEW q \in Seq(S), NEW x \in S
    PROVE  Append(q, x) = [j \in 1..(Len(q) + 1) |-> IF j = Len(q) + 1 THEN x ELSE q[j]]
<1> DEFINE f == [j \in 1..(Len(q) + 1) |-> IF j = Len(q) + 1 THEN x ELSE q[j]]
<1>1. PICK c \in Seq(S) : c = Append(q, x)
    <2>1. Append(q, x) \in Seq(S)
        OBVIOUS
    <2> QED
        BY <2>1, Zenon
<1>2. Len(c) = Len(q) + 1 /\ \A j \in 1..(Len(q) + 1) : c[j] = IF j = Len(q) + 1 THEN x ELSE q[j]
    BY <1>1
<1>3. f \in Seq(S) /\ Len(f) = Len(q) + 1
    OBVIOUS
<1>4. \A j \in 1..Len(c) : c[j] = f[j]
    BY <1>2
<1> HIDE DEF f
<1>5. c = f
    BY <1>2, <1>3, <1>4, SeqSame, Zenon
<1> QED
    BY <1>1, <1>5, Zenon DEF f

(* The queue as a sequence.                                                *)
LEMMA QueuedFacts ==
    ASSUME TypeOK, RingInv
    PROVE  /\ Queued \in Seq(TaskId) /\ Len(Queued) = QLen /\ QLen \in 0..(Cap - 1)
           /\ DOMAIN Queued = 1..QLen
           /\ \A i \in 1..QLen : Queued[i] = ring[At(i - 1)] /\ i - 1 \in 0..(QLen - 1)
<1>1. QLen \in 0..(Cap - 1) /\ QLen \in Nat
    BY RingFacts
<1>2. \A i \in 1..QLen : ring[At(i - 1)] \in TaskId /\ i - 1 \in 0..(QLen - 1)
    BY <1>1 DEF RingInv
<1> QED
    BY <1>1, <1>2 DEF Queued

(* A compaction removes one element of that sequence.                      *)
LEMMA CompactDrops ==
    ASSUME TypeOK, RingInv, NEW i \in 0..(QLen - 1), Compact(i)
    PROVE  /\ i + 1 \in DOMAIN Queued /\ Queued[i + 1] = ring[At(i)]
           /\ Queued' = Abstract!Without(i + 1)
<1>1. /\ Queued \in Seq(TaskId) /\ Len(Queued) = QLen /\ QLen \in Nat
      /\ DOMAIN Queued = 1..QLen
      /\ \A j \in 1..QLen : Queued[j] = ring[At(j - 1)]
    BY QueuedFacts
<1>2. /\ QLen' = QLen - 1
      /\ \A j \in 0..(QLen - 2) : ring'[At(j)'] = ring[At(IF j < i THEN j ELSE j + 1)]
    BY CompactFacts
<1>3. \A j \in 1..QLen' : ring'[At(j - 1)'] = Queued[IF j < i + 1 THEN j ELSE j + 1]
    <2> SUFFICES ASSUME NEW j \in 1..QLen'
                 PROVE  ring'[At(j - 1)'] = Queued[IF j < i + 1 THEN j ELSE j + 1]
        OBVIOUS
    <2>1. PICK k \in 0..(QLen - 2) : k = j - 1
        BY <1>1, <1>2
    <2>2. ring'[At(j - 1)'] = ring[At(IF k < i THEN k ELSE k + 1)]
        BY <1>2, <2>1, Zenon
    <2>3. CASE j < i + 1
        <3>1. k < i /\ j \in 1..QLen
            BY <1>1, <2>1, <2>3
        <3> QED
            BY <1>1, <2>1, <2>2, <2>3, <3>1, Zenon
    <2>4. CASE ~(j < i + 1)
        <3>1. ~(k < i) /\ j + 1 \in 1..QLen /\ k + 1 = (j + 1) - 1
            BY <1>1, <2>1, <2>4
        <3> QED
            BY <1>1, <2>2, <2>4, <3>1, Zenon
    <2> QED
        BY <2>3, <2>4, Zenon
<1>4. i + 1 \in 1..Len(Queued) /\ i + 1 \in DOMAIN Queued /\ Queued[i + 1] = ring[At(i)]
    BY <1>1
<1>5. /\ Queued' \in Seq(TaskId) /\ Len(Queued') = Len(Queued) - 1
      /\ \A j \in 1..Len(Queued') : Queued'[j] = Queued[IF j < i + 1 THEN j ELSE j + 1]
    <2>1. Queued' = [j \in 1..QLen' |-> ring'[At(j - 1)']]
        BY Zenon DEF Queued
    <2>2. \A j \in 1..QLen' : Queued[IF j < i + 1 THEN j ELSE j + 1] \in TaskId
        BY <1>1, <1>2
    <2>3. Queued' = [j \in 1..QLen' |-> Queued[IF j < i + 1 THEN j ELSE j + 1]]
        BY <1>3, <2>1, Zenon
    <2>4. QLen' \in Nat
        BY <1>1, <1>2
    <2> QED
        BY <1>1, <1>2, <2>2, <2>3, <2>4
<1>6. Queued' = SubSeq(Queued, 1, (i + 1) - 1) \o SubSeq(Queued, (i + 1) + 1, Len(Queued))
    <2>0. PICK p \in Seq(TaskId), q \in Seq(TaskId) : p = Queued' /\ q = Queued
        BY <1>1, <1>5, Zenon
    <2>1. PICK k \in 1..Len(q) : k = i + 1
        BY <1>4, <2>0, Zenon
    <2>2. Len(p) = Len(q) - 1 /\ \A j \in 1..Len(p) : p[j] = q[IF j < k THEN j ELSE j + 1]
        BY <1>5, <2>0, <2>1, Zenon
    <2>3. p = SubSeq(q, 1, k - 1) \o SubSeq(q, k + 1, Len(q))
        BY <2>2, DropOne, Zenon
    <2> QED
        BY <2>0, <2>1, <2>3, Zenon
<1> QED
    BY <1>4, <1>6, Zenon DEF Abstract!Without

(* An append to the ring is an append to that sequence.                    *)
LEMMA SubmitAppends ==
    ASSUME TypeOK, RingInv, NEW x \in TaskId, QLen < Cap - 1,
           ring' = [ring EXCEPT ![tail] = x], tail' = (tail + 1) % Cap, head' = head
    PROVE  Queued' = Append(Queued, x)
<1>1. /\ Queued \in Seq(TaskId) /\ Len(Queued) = QLen /\ QLen \in Nat
      /\ \A j \in 1..QLen : Queued[j] = ring[At(j - 1)]
    BY QueuedFacts
<1>2. /\ QLen' = QLen + 1
      /\ \A j \in 0..QLen : ring'[At(j)'] = IF j = QLen THEN x ELSE ring[At(j)]
    BY AppendFacts, Zenon
<1>3. Queued' = [j \in 1..QLen' |-> ring'[At(j - 1)']]
    BY Zenon DEF Queued
<1>4. \A j \in 1..QLen' : ring'[At(j - 1)'] = IF j = QLen + 1 THEN x ELSE Queued[j]
    <2> SUFFICES ASSUME NEW j \in 1..QLen'
                 PROVE  ring'[At(j - 1)'] = IF j = QLen + 1 THEN x ELSE Queued[j]
        OBVIOUS
    <2>1. PICK k \in 0..QLen : k = j - 1
        BY <1>1, <1>2
    <2>2. ring'[At(j - 1)'] = IF k = QLen THEN x ELSE ring[At(k)]
        BY <1>2, <2>1, Zenon
    <2> QED
        BY <1>1, <1>2, <2>1, <2>2
<1>5. Queued' = [j \in 1..QLen' |-> IF j = QLen + 1 THEN x ELSE Queued[j]]
    BY <1>3, <1>4, Zenon
<1> QED
    <2>1. PICK q \in Seq(TaskId) : q = Queued
        BY <1>1, Zenon
    <2>2. Append(q, x) = [j \in 1..(Len(q) + 1) |-> IF j = Len(q) + 1 THEN x ELSE q[j]]
        BY AddOne
    <2> QED
        BY <1>1, <1>2, <1>5, <2>1, <2>2, Zenon

(* The initial states map to the empty queue.                              *)
LEMMA RefineInit == Init => Abstract!Init
<1> SUFFICES ASSUME Init
             PROVE  Abstract!Init
    OBVIOUS
<1>1. QLen = 0
    <2>1. TypeOK
        BY InitIInv, Zenon DEF IInv
    <2>2. QLen = IF head <= tail THEN tail - head ELSE tail + Cap - head
        BY <2>1, RingFacts, Zenon
    <2> QED
        BY <2>2 DEF Init
<1>2. Queued = <<>>
    BY <1>1 DEF Queued
<1>3. Prios = [t \in TaskId |-> 0]
    BY DEF Init, Prios
<1>4. Taken = {}
    BY DEF Init, Taken
<1> QED
    BY <1>2, <1>3, <1>4, Zenon DEF Abstract!Init

(* A step that leaves the ring and the records stutters.                   *)
LEMMA RefineSame ==
    ASSUME UNCHANGED <<ring, head, tail, req>>, Taken' = Taken
    PROVE  UNCHANGED <<Queued, Prios, Taken>>
<1>1. Queued' = Queued
    BY Zenon DEF Queued, QLen, At
<1>2. Prios' = Prios
    BY Zenon DEF Prios, Prio
<1> QED
    BY <1>1, <1>2

(* A submission is an arrival at the end of the queue.                     *)
LEMMA RefineSubmit ==
    ASSUME IInv, NEW r \in Request, SubmitTask(r)
    PROVE  Abstract!Submit(r.id)
<1> DEFINE x == r.id
<1>1. x \in TaskId /\ r \in Request /\ r # None /\ r.prio \in Priority
    BY CapAssumption DEF TaskId, Priority
<1>2. /\ status[x] = "NONE" /\ QLen < Cap - 1
      /\ status' = [status EXCEPT ![x] = "PENDING"]
      /\ req' = [req EXCEPT ![x] = r]
      /\ ring' = [ring EXCEPT ![tail] = x]
      /\ tail' = (tail + 1) % Cap /\ head' = head
    BY DEF SubmitTask
<1>3. r.prio = r["prio"]
    OBVIOUS
<1> HIDE DEF x
<1>4. TypeOK /\ RingInv
    BY Zenon DEF IInv
<1>5. Queued' = Append(Queued, x)
    BY <1>1, <1>2, <1>4, SubmitAppends, Zenon
<1>6. \A i \in DOMAIN Queued : Queued[i] # x
    BY <1>2, <1>4, QueuedFacts DEF RingInv
<1>7. x \notin Taken /\ Taken' = Taken
    BY <1>1, <1>2, <1>4 DEF TypeOK, Taken
<1>8. Prios' = [Prios EXCEPT ![x] = r.prio]
    BY <1>1, <1>2, <1>4, Zenon DEF TypeOK, Prios, Prio
<1> QED
    BY <1>1, <1>5, <1>6, <1>7, <1>8, Zenon DEF Abstract!Submit, x

(* The worker takes the first of the highest priority.                     *)
LEMMA RefineTake ==
    ASSUME IInv, Take
    PROVE  Abstract!Take
<1>1. TypeOK /\ RingInv /\ ReqInv
    BY Zenon DEF IInv
<1>2. PICK i \in 0..(QLen - 1) : Highest(i) /\ cur' = ring[At(i)] /\ Compact(i)
    BY Zenon DEF Take
<1>3. status' = [status EXCEPT ![ring[At(i)]] = "RUNNING"] /\ req' = req
    BY <1>2, Zenon DEF Take
<1>4. /\ i + 1 \in DOMAIN Queued /\ Queued[i + 1] = ring[At(i)]
      /\ Queued' = Abstract!Without(i + 1)
    BY <1>1, <1>2, CompactDrops, Zenon
<1>5. /\ DOMAIN Queued = 1..QLen /\ QLen \in Nat
      /\ \A j \in 1..QLen : Queued[j] = ring[At(j - 1)] /\ j - 1 \in 0..(QLen - 1)
    BY <1>1, QueuedFacts
<1>6. \A j \in 0..(QLen - 1) : ring[At(j)] \in TaskId /\ status[ring[At(j)]] = "PENDING"
    BY <1>1, Zenon DEF RingInv
<1>7. \A t \in TaskId : status[t] = "PENDING" => Prios[t] = Prio(t) /\ Prio(t) \in Nat
    BY <1>1, CapAssumption DEF ReqInv, Prios, Prio
<1>8. \A j \in 1..QLen : Prios[Queued[j]] = Prio(ring[At(j - 1)]) /\ Prio(ring[At(j - 1)]) \in Nat
    BY <1>5, <1>6, <1>7, Zenon
<1>9. Prios[Queued[i + 1]] = Prio(ring[At(i)]) /\ Prio(ring[At(i)]) \in Nat
    BY <1>4, <1>6, <1>7, Zenon
<1>10. Abstract!IsNext(i + 1)
    <2>1. ASSUME NEW j \in 1..QLen
          PROVE  /\ Prios[Queued[j]] <= Prios[Queued[i + 1]]
                 /\ j < i + 1 => Prios[Queued[j]] < Prios[Queued[i + 1]]
        <3>1. PICK k \in 0..(QLen - 1) : k = j - 1
            BY <1>5
        <3>2. \/ Prio(ring[At(k)]) < Prio(ring[At(i)])
              \/ Prio(ring[At(k)]) = Prio(ring[At(i)]) /\ i <= k
            BY <1>2, Zenon DEF Highest
        <3>3. Prios[Queued[j]] = Prio(ring[At(k)]) /\ Prio(ring[At(k)]) \in Nat
            BY <1>8, <3>1, Zenon
        <3> QED
            BY <1>9, <3>1, <3>2, <3>3
    <2>2. \A j \in 1..((i + 1) - 1) : j \in 1..QLen /\ j < i + 1
        BY <1>5
    <2> QED
        BY <1>5, <2>1, <2>2, Zenon DEF Abstract!IsNext
<1>11. Taken' = Taken \cup {Queued[i + 1]}
    BY <1>1, <1>3, <1>4, <1>6 DEF TypeOK, Taken
<1>12. Prios' = Prios
    BY <1>3, Zenon DEF Prios, Prio
<1> QED
    BY <1>4, <1>10, <1>11, <1>12, Zenon DEF Abstract!Take

(* A cancellation removes one waiting task, wherever it stands.            *)
LEMMA RefineCancel ==
    ASSUME IInv, NEW t \in TaskId, CancelTask(t)
    PROVE  Abstract!Cancel
<1>1. TypeOK /\ RingInv
    BY Zenon DEF IInv
<1>2. /\ status[t] = "PENDING" /\ req' = req
      /\ status' = [status EXCEPT ![t] = "CANCELED"]
    BY Zenon DEF CancelTask
<1>3. \E i \in 0..(QLen - 1) : ring[At(i)] = t
    BY <1>1, <1>2, Zenon DEF RingInv
<1>4. PICK i \in 0..(QLen - 1) : Compact(i)
    BY <1>3, Zenon DEF CancelTask
<1>5. i + 1 \in DOMAIN Queued /\ Queued' = Abstract!Without(i + 1)
    BY <1>1, <1>4, CompactDrops, Zenon
<1>6. Taken' = Taken
    BY <1>1, <1>2 DEF TypeOK, Taken
<1>7. Prios' = Prios
    BY <1>2, Zenon DEF Prios, Prio
<1> QED
    BY <1>5, <1>6, <1>7, Zenon DEF Abstract!Cancel

(* Every step of the service is a step of the priority queue or none.      *)
LEMMA RefineNext ==
    ASSUME IInv, [Next]_vars
    PROVE  [Abstract!Next]_<<Queued, Prios, Taken>>
<1>1. CASE \E r \in Request : SubmitTask(r)
    <2>1. PICK r \in Request : SubmitTask(r)
        BY <1>1
    <2>2. r.id \in TaskId
        BY DEF TaskId
    <2> QED
        BY <2>1, <2>2, RefineSubmit, Zenon DEF Abstract!Next
<1>2. CASE \E t \in TaskId : CancelTask(t)
    BY <1>2, RefineCancel, Zenon DEF Abstract!Next
<1>3. CASE Take
    BY <1>3, RefineTake, Zenon DEF Abstract!Next
<1>4. CASE (Fail \/ \E r \in Outcome : Finish(r))
    <2>1. pc \in {"fail", "exec"} /\ \E s \in {"COMPLETED", "FAILED"} : WriteBack(s)
        BY <1>4 DEF Fail, Finish
    <2>2. PICK s \in {"COMPLETED", "FAILED"} : WriteBack(s)
        BY <2>1
    <2>3. cur \in TaskId /\ status[cur] = "RUNNING" /\ TypeOK
        BY <2>1 DEF IInv, WorkerInv
    <2>4. /\ status' = [status EXCEPT ![cur] = s]
          /\ UNCHANGED <<ring, head, tail, req>>
        BY <2>2, Zenon DEF WriteBack, queueVars
    <2>5. Taken' = Taken
        BY <2>3, <2>4 DEF TypeOK, Taken
    <2> QED
        BY <2>4, <2>5, RefineSame, Zenon
<1>5. CASE \/ \E o \in owed : WriteEvent(o)
           \/ \E a \in AgentInfo : RegisterAgent(a)
           \/ \E a \in AgentId : UnregisterAgent(a)
           \/ RpcSelect \/ SetExecutor \/ StartWorkers \/ StopWorkers
           \/ Sleep \/ ExitThread \/ Select \/ Dispatch \/ WriteResult \/ SpuriousWakeup
           \/ UNCHANGED vars
    <2>1. UNCHANGED <<status, req, ring, head, tail>>
        BY <1>5, Zenon DEF WriteEvent, RegisterAgent, UnregisterAgent, RpcSelect, SetExecutor,
           StartWorkers, StopWorkers, Sleep, ExitThread, Select, Dispatch, WriteResult,
           SpuriousWakeup, vars, table, queueVars
    <2>2. Taken' = Taken
        BY <2>1, Zenon DEF Taken
    <2> QED
        BY <2>1, <2>2, RefineSame, Zenon
<1> QED
    BY <1>1, <1>2, <1>3, <1>4, <1>5, Zenon DEF Next, Worker

(* The ring queue, with its scan, its compaction and its cancellations, is *)
(* the priority queue its comment promises: highest priority first, first  *)
(* come first served among equals.                                         *)
THEOREM RingIsPriorityQueue == Spec => IsPriorityQueue
<1>1. IInv /\ [Next]_vars => [Abstract!Next]_<<Queued, Prios, Taken>>
    BY RefineNext
<1> QED
    BY RefineInit, TaskInvariant, <1>1, PTL DEF Spec, IsPriorityQueue, Abstract!Spec

=============================================================================
