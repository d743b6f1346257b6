--------------------------- MODULE SupervisorProofs ---------------------------
(***************************************************************************)
(* Proofs about Supervisor for every process table, every tuning and every *)
(* split into CORE and AUX daemons.                                        *)
(***************************************************************************)
EXTENDS Supervisor, TLAPS

LEMMA BackoffIsInt == \A f \in Nat : Backoff(f) \in Int
<1> SUFFICES ASSUME NEW f \in Nat PROVE Backoff(f) \in Int
    OBVIOUS
<1>1. 2 ^ (IF f > 1 THEN f - 1 ELSE 0) \in Int
    OBVIOUS
<1> DEFINE p == 2 ^ (IF f > 1 THEN f - 1 ELSE 0)
<1> HIDE DEF p
<1>2. p \in Int
    BY <1>1 DEF p
<1>3. Backoff(f) = IF BackoffBase * p < BackoffMax THEN BackoffBase * p ELSE BackoffMax
    BY DEF Backoff, p
<1> QED
    BY <1>2, <1>3, TuningAssumption

(* sup_decl_load establishes the invariant.                                *)
LEMMA InitInv == Init => IInv
<1> SUFFICES ASSUME Init PROVE IInv
    OBVIOUS
<1> USE DaemonAssumption, TuningAssumption DEF Init
<1>1. TypeOK
    <2>1. up \in [Daemon -> BOOLEAN] /\ stop \in BOOLEAN
        BY Zenon
    <2> QED
        BY <2>1 DEF TypeOK, State
<1>2. OneChildPerEntry
    BY DEF OneChildPerEntry
<1>3. AttemptInv
    BY DEF AttemptInv
<1>4. CountedOutInv /\ PassInv
    BY DEF CountedOutInv, PassInv
<1> QED
    BY <1>1, <1>2, <1>3, <1>4 DEF IInv

(* The steps of the loop that only move it on.                             *)
LEMMA LoopStep ==
    ASSUME IInv, BeginStep \/ EndReap \/ EndSweep \/ ServeNothing \/ ServeShutdown
           \/ TermAll \/ Signal
    PROVE  IInv'
<1> USE DaemonAssumption, TuningAssumption
<1>0. TypeOK /\ OneChildPerEntry /\ AttemptInv /\ CountedOutInv /\ PassInv
    BY DEF IInv
<1>1. TypeOK'
    BY <1>0 DEF TypeOK, State, CountedOutInv, BeginStep, EndReap, EndSweep,
       ServeNothing, ServeShutdown, TermAll, Signal, table
<1>2. OneChildPerEntry'
    BY <1>0 DEF TypeOK, State, OneChildPerEntry, Serving, BeginStep, EndReap,
       EndSweep, ServeNothing, ServeShutdown, TermAll, Signal, table
<1>3. AttemptInv'
    BY <1>0 DEF TypeOK, State, AttemptInv, OneChildPerEntry, Serving, PassInv,
       BeginStep, EndReap, EndSweep, ServeNothing, ServeShutdown, TermAll,
       Signal, table
<1>4. CountedOutInv'
    BY <1>0 DEF TypeOK, State, CountedOutInv, BeginStep, EndReap, EndSweep,
       ServeNothing, ServeShutdown, TermAll, Signal, table
<1>5. PassInv'
    BY <1>0 DEF TypeOK, PassInv, OneChildPerEntry, BeginStep, EndReap, EndSweep,
       ServeNothing, ServeShutdown, TermAll, Signal, table
<1> QED
    BY <1>1, <1>2, <1>3, <1>4, <1>5 DEF IInv

(* sup_proc_reap visits one entry.                                         *)
LEMMA ReapStep ==
    ASSUME IInv, NEW d \in Daemon, Reap(d)
    PROVE  IInv'
<1> USE DaemonAssumption, TuningAssumption, BackoffIsInt
<1>0. TypeOK /\ OneChildPerEntry /\ AttemptInv /\ CountedOutInv /\ PassInv
    BY DEF IInv
<1>1. TypeOK'
    BY <1>0 DEF TypeOK, State, CountedOutInv, Reap, ReapOne, table
<1>2. OneChildPerEntry'
    BY <1>0 DEF TypeOK, State, OneChildPerEntry, Serving, Reap, ReapOne, table
<1>3. AttemptInv'
    BY <1>0 DEF TypeOK, State, AttemptInv, OneChildPerEntry, Serving, PassInv,
       Reap, ReapOne, table
<1>4. CountedOutInv'
    BY <1>0 DEF TypeOK, State, CountedOutInv, Reap, ReapOne, table
<1>5. PassInv'
    BY <1>0 DEF TypeOK, PassInv, OneChildPerEntry, Reap, ReapOne, table
<1> QED
    BY <1>1, <1>2, <1>3, <1>4, <1>5 DEF IInv

(* Daemons crash, hang and recover.                                        *)
LEMMA EnvStep ==
    ASSUME IInv, NEW d \in Daemon, Crash(d) \/ Flip(d)
    PROVE  IInv'
<1> USE DaemonAssumption, TuningAssumption
<1>0. TypeOK /\ OneChildPerEntry /\ AttemptInv /\ CountedOutInv /\ PassInv
    BY DEF IInv
<1>1. TypeOK'
  <2>1. up' \in [Daemon -> BOOLEAN]
      BY <1>0, Zenon DEF TypeOK, Crash, Flip
  <2>2. pid' \in [Daemon -> {"none", "live", "dead"}]
      BY <1>0 DEF TypeOK, Crash, Flip
  <2>3. UNCHANGED <<state, fails, timer, deadTicks, children, tries, pc, left,
                    stop, grace>>
      BY DEF Crash, Flip
  <2> QED
      BY <1>0, <2>1, <2>2, <2>3 DEF TypeOK
<1>2. OneChildPerEntry'
    BY <1>0 DEF TypeOK, State, OneChildPerEntry, Serving, Crash, Flip, table
<1>3. AttemptInv'
    BY <1>0 DEF TypeOK, State, AttemptInv, OneChildPerEntry, Serving, PassInv,
       Crash, Flip, table
<1>4. CountedOutInv'
    BY <1>0 DEF TypeOK, State, CountedOutInv, Crash, Flip, table
<1>5. PassInv'
    BY <1>0 DEF TypeOK, PassInv, OneChildPerEntry, Crash, Flip, table
<1> QED
    BY <1>1, <1>2, <1>3, <1>4, <1>5 DEF IInv

(* Time passes.                                                            *)
LEMMA TickStep ==
    ASSUME IInv, Tick
    PROVE  IInv'
<1> USE DaemonAssumption, TuningAssumption
<1>0. TypeOK /\ OneChildPerEntry /\ AttemptInv /\ CountedOutInv /\ PassInv
    BY DEF IInv
<1>1. TypeOK'
    BY <1>0 DEF TypeOK, State, CountedOutInv, Tick, Less
<1>2. OneChildPerEntry'
    BY <1>0 DEF TypeOK, State, OneChildPerEntry, Serving, Tick, Less
<1>3. AttemptInv'
    BY <1>0 DEF TypeOK, State, AttemptInv, OneChildPerEntry, Serving, PassInv,
       Tick, Less
<1>4. CountedOutInv'
    BY <1>0 DEF TypeOK, State, CountedOutInv, Tick, Less
<1>5. PassInv'
    BY <1>0 DEF TypeOK, PassInv, OneChildPerEntry, Tick, Less
<1> QED
    BY <1>1, <1>2, <1>3, <1>4, <1>5 DEF IInv

(* The grace period of a shutdown.                                         *)
LEMMA PollStep ==
    ASSUME IInv, GracePoll
    PROVE  IInv'
<1> USE DaemonAssumption, TuningAssumption
<1>0. TypeOK /\ OneChildPerEntry /\ AttemptInv /\ CountedOutInv /\ PassInv
    BY DEF IInv
<1>1. TypeOK'
    BY <1>0 DEF TypeOK, State, CountedOutInv, GracePoll
<1>2. OneChildPerEntry'
    BY <1>0 DEF TypeOK, State, OneChildPerEntry, Serving, GracePoll
<1>3. AttemptInv'
    BY <1>0 DEF TypeOK, State, AttemptInv, OneChildPerEntry, Serving, PassInv,
       GracePoll
<1>4. CountedOutInv'
    BY <1>0 DEF TypeOK, State, CountedOutInv, GracePoll
<1>5. PassInv'
    BY <1>0 DEF TypeOK, PassInv, OneChildPerEntry, GracePoll
<1> QED
    BY <1>1, <1>2, <1>3, <1>4, <1>5 DEF IInv

(* The end of a shutdown.                                                  *)
LEMMA KillStep ==
    ASSUME IInv, KillAll
    PROVE  IInv'
<1> USE DaemonAssumption, TuningAssumption
<1>0. TypeOK /\ OneChildPerEntry /\ AttemptInv /\ CountedOutInv /\ PassInv
    BY DEF IInv
<1>1. TypeOK'
    BY <1>0 DEF TypeOK, State, CountedOutInv, KillAll
<1>2. OneChildPerEntry'
    BY <1>0 DEF TypeOK, State, OneChildPerEntry, Serving, KillAll
<1>3. AttemptInv'
    BY <1>0 DEF TypeOK, State, AttemptInv, OneChildPerEntry, Serving, PassInv,
       KillAll
<1>4. CountedOutInv'
    BY <1>0 DEF TypeOK, State, CountedOutInv, KillAll
<1>5. PassInv'
    BY <1>0 DEF TypeOK, PassInv, OneChildPerEntry, KillAll
<1> QED
    BY <1>1, <1>2, <1>3, <1>4, <1>5 DEF IInv

(* sup_activate.                                                           *)
LEMMA ActivateStep ==
    ASSUME IInv, NEW d \in Daemon, ServeActivate(d)
    PROVE  IInv'
<1> USE DaemonAssumption, TuningAssumption, BackoffIsInt
<1>0. TypeOK /\ OneChildPerEntry /\ AttemptInv /\ CountedOutInv /\ PassInv
    BY DEF IInv
<1>1. TypeOK'
    BY <1>0 DEF TypeOK, State, CountedOutInv, ServeActivate, SpawnOrBackoff,
       Spawned, SpawnFailed, table
<1>2. OneChildPerEntry'
    BY <1>0 DEF TypeOK, State, OneChildPerEntry, Serving, ServeActivate,
       SpawnOrBackoff, Spawned, SpawnFailed, table
<1>3. AttemptInv'
    BY <1>0 DEF TypeOK, State, AttemptInv, OneChildPerEntry, Serving, PassInv,
       ServeActivate, SpawnOrBackoff, Spawned, SpawnFailed, table
<1>4. CountedOutInv'
    BY <1>0 DEF TypeOK, State, CountedOutInv, ServeActivate, SpawnOrBackoff,
       Spawned, SpawnFailed, table
<1>5. PassInv'
    BY <1>0 DEF TypeOK, PassInv, OneChildPerEntry, ServeActivate,
       SpawnOrBackoff, Spawned, SpawnFailed, table
<1> QED
    BY <1>1, <1>2, <1>3, <1>4, <1>5 DEF IInv

(* sup_reconcile starts an entry, or waits, or gives up.                   *)
LEMMA SweepSpawnStep ==
    ASSUME IInv, NEW d \in Daemon, Sweep(d), state[d] \notin {"STARTING", "RUNNING"}
    PROVE  IInv'
<1> USE DaemonAssumption, TuningAssumption, BackoffIsInt
<1>0. TypeOK /\ OneChildPerEntry /\ AttemptInv /\ CountedOutInv /\ PassInv
    BY DEF IInv
<1>1. TypeOK'
    BY <1>0 DEF TypeOK, State, CountedOutInv, Sweep, Tend, SpawnOrBackoff,
       Spawned, SpawnFailed, table
<1>2. OneChildPerEntry'
    BY <1>0 DEF TypeOK, State, OneChildPerEntry, Serving, Sweep, Tend,
       SpawnOrBackoff, Spawned, SpawnFailed, table
<1>3. AttemptInv'
    BY <1>0 DEF TypeOK, State, AttemptInv, OneChildPerEntry, Serving, PassInv,
       Sweep, Tend, SpawnOrBackoff, Spawned, SpawnFailed, table
<1>4. CountedOutInv'
    BY <1>0 DEF TypeOK, State, CountedOutInv, Sweep, Tend, SpawnOrBackoff,
       Spawned, SpawnFailed, table
<1>5. PassInv'
    BY <1>0 DEF TypeOK, PassInv, OneChildPerEntry, Sweep, Tend, SpawnOrBackoff,
       Spawned, SpawnFailed, table
<1> QED
    BY <1>1, <1>2, <1>3, <1>4, <1>5 DEF IInv

(* sup_reconcile probes an entry.                                          *)
LEMMA SweepHealthStep ==
    ASSUME IInv, NEW d \in Daemon, Sweep(d), state[d] \in {"STARTING", "RUNNING"}
    PROVE  IInv'
<1> USE DaemonAssumption, TuningAssumption
<1>0. TypeOK /\ OneChildPerEntry /\ AttemptInv /\ CountedOutInv /\ PassInv
    BY DEF IInv
<1>1. TypeOK'
    BY <1>0 DEF TypeOK, State, CountedOutInv, Sweep, First, Tend, HealthTick,
       Healthy, Unreachable, table
<1>2. OneChildPerEntry'
    BY <1>0 DEF TypeOK, State, OneChildPerEntry, Serving, Sweep, First, Tend,
       HealthTick, Healthy, Unreachable, table
<1>3. AttemptInv'
    BY <1>0 DEF TypeOK, State, AttemptInv, OneChildPerEntry, Serving, PassInv,
       Sweep, First, Tend, HealthTick, Healthy, Unreachable, table
<1>4. CountedOutInv'
    BY <1>0 DEF TypeOK, State, CountedOutInv, Sweep, First, Tend, HealthTick,
       Healthy, Unreachable, table
<1>5. PassInv'
    BY <1>0 DEF TypeOK, PassInv, OneChildPerEntry, Sweep, First, Tend,
       HealthTick, Healthy, Unreachable, table
<1> QED
    BY <1>1, <1>2, <1>3, <1>4, <1>5 DEF IInv

LEMMA NextInv == IInv /\ [Next]_vars => IInv'
<1> SUFFICES ASSUME IInv, [Next]_vars PROVE IInv'
    OBVIOUS
<1>1. CASE Loop
    BY <1>1, LoopStep, ReapStep, SweepSpawnStep, SweepHealthStep, PollStep,
       KillStep DEF Loop
<1>2. CASE \E d \in Daemon : ServeActivate(d)
    BY <1>2, ActivateStep
<1>3. CASE ServeShutdown
    BY <1>3, LoopStep
<1>4. CASE \E d \in Daemon : Crash(d) \/ Flip(d)
    BY <1>4, EnvStep
<1>5. CASE Signal
    BY <1>5, LoopStep
<1>6. CASE Tick
    BY <1>6, TickStep
<1>7. CASE UNCHANGED vars
    BY <1>7 DEF vars, table, IInv, TypeOK, OneChildPerEntry, Serving,
       AttemptInv,
                CountedOutInv, PassInv
<1> QED
    BY <1>1, <1>2, <1>3, <1>4, <1>5, <1>6, <1>7 DEF Next

(* The invariant holds in every reachable state.                           *)
THEOREM SupervisorInvariant == Spec => []IInv
<1> QED
    BY InitInv, NextInv, PTL DEF Spec

(* The process table of supervisor_d is well typed, and no daemon is       *)
(* probed more than liveness_ticks times after its last answer.            *)
THEOREM SupervisorTypeOK == Spec => []TypeOK
<1>1. IInv => TypeOK
    BY DEF IInv
<1> QED
    BY <1>1, SupervisorInvariant, PTL

(* sup_proc_spawn, sup_proc_reap and sup_activate keep at most one child   *)
(* per entry, and the states of the table agree with the children.         *)
THEOREM ChildrenAreTracked == Spec => []OneChildPerEntry
<1>1. IInv => OneChildPerEntry
    BY DEF IInv
<1> QED
    BY <1>1, SupervisorInvariant, PTL

(* The backoff gate of sup_reconcile bounds the attempts in a row.         *)
THEOREM RestartsAreBounded == Spec => []NoRestartStorm
<1>1. IInv => NoRestartStorm
    BY DaemonAssumption, TuningAssumption DEF IInv, TypeOK, State, AttemptInv,
       NoRestartStorm
<1> QED
    BY <1>1, SupervisorInvariant, PTL

(* sup_shutdown_all reaps every child before the supervisor exits.         *)
THEOREM ShutdownReapsAll == Spec => []ExitLeavesNoChild
<1>1. IInv => ExitLeavesNoChild
    BY DEF IInv, OneChildPerEntry, PassInv, ExitLeavesNoChild
<1> QED
    BY <1>1, SupervisorInvariant, PTL

Revival ==
    \A d \in Daemon :
        \/ state[d] = "FAILED" /\ state'[d] # "FAILED"
        \/ d \notin Core /\ children'[d] > children[d]
        => pc = "serve" /\ pc' = "check"

(* Only sup_activate takes an entry out of FAILED or starts an AUX daemon. *)
THEOREM ActivateIsTheOnlyWay == Spec => OnlyActivateRevives
<1>1. IInv /\ [Next]_vars => [Revival]_vars
    <2> SUFFICES ASSUME IInv, Next PROVE Revival
        OBVIOUS
    <2>0. TypeOK /\ PassInv
        BY DEF IInv
    <2>a. OneChildPerEntry
        BY DEF IInv
    <2>1. CASE \E d \in Daemon : Reap(d)
        <3> PICK d \in Daemon : Reap(d)
            BY <2>1
        <3>1. children[d] \in Int /\ children[d] - 1 < children[d]
            BY <2>0 DEF TypeOK
        <3>2. \A e \in Daemon : ~(children'[e] > children[e])
            BY <2>0, <3>1 DEF TypeOK, Reap, ReapOne, table
        <3>3. \A e \in Daemon : state[e] = "FAILED" => state'[e] = "FAILED"
            BY <2>0, <2>a DEF TypeOK, Reap, ReapOne, table, OneChildPerEntry,
               Serving
        <3> QED
            BY <3>2, <3>3 DEF Revival
    <2>2. CASE \E d \in Daemon : Sweep(d)
        <3> PICK d \in Daemon : Sweep(d)
            BY <2>2
        <3>1. d \in Core
            BY <2>0 DEF PassInv, Sweep, First
        <3> QED
            BY <2>0, <3>1 DEF TypeOK, State, Sweep, Tend, SpawnOrBackoff,
               Spawned, SpawnFailed,
               HealthTick, Healthy, Unreachable, table, Revival
    <2>3. CASE \E d \in Daemon : ServeActivate(d)
        BY <2>3 DEF ServeActivate, Revival
    <2>4. CASE BeginStep \/ EndReap \/ EndSweep \/ ServeNothing \/ ServeShutdown
               \/ TermAll \/ Signal \/ Tick
        BY <2>0, <2>4 DEF TypeOK, BeginStep, EndReap, EndSweep, ServeNothing,
           ServeShutdown,
           TermAll, Signal, Tick, table, Revival
    <2>5. CASE GracePoll \/ KillAll \/ \E d \in Daemon : Crash(d) \/ Flip(d)
        BY <2>0, <2>5 DEF TypeOK, GracePoll, KillAll, Crash, Flip, Revival
    <2> QED
        BY <2>1, <2>2, <2>3, <2>4, <2>5 DEF Next, Loop
<1> QED
    BY <1>1, SupervisorInvariant, PTL DEF Spec, OnlyActivateRevives, Revival
=============================================================================
