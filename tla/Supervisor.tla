----------------------------- MODULE Supervisor -----------------------------
(***************************************************************************)
(* supervisor_d: the process table, the reconcile loop (reap, respawn,     *)
(* probe), the control port and the orderly shutdown.  The loop is one     *)
(* thread; the daemons it watches and the signal handler interleave with   *)
(* it.  Time is kept as countdowns (next_ms - now) and passes while the    *)
(* loop waits in select or in the grace period of a shutdown.              *)
(***************************************************************************)
EXTENDS Integers

CONSTANTS
    Daemon,         \* indexes of the process table, in scan order
    Core,           \* SUP_ROLE_CORE; the others are SUP_ROLE_AUX
    HasSock,        \* daemons with an endpoint to probe
    BackoffBase,    \* backoff_base_ms
    BackoffMax,     \* backoff_max_ms
    MaxAttempts,    \* max_attempts
    LivenessTicks,  \* liveness_ticks
    Grace           \* SUP_TERM_GRACE_MS

ASSUME DaemonAssumption ==
    /\ Daemon \subseteq Nat
    /\ Core \subseteq Daemon
    /\ HasSock \subseteq Daemon

(* env_long accepts positive values only.                                  *)
ASSUME TuningAssumption ==
    /\ BackoffBase \in Nat \ {0}
    /\ BackoffMax \in Nat \ {0}
    /\ MaxAttempts \in Nat \ {0}
    /\ LivenessTicks \in Nat \ {0}
    /\ Grace \in Nat

VARIABLES
    state,      \* p->state
    pid,        \* "none" is SUP_PID_INVALID, "dead" a child not yet reaped
    fails,      \* p->fail_count
    timer,      \* p->next_ms - now
    deadTicks,  \* p->dead_ticks
    up,         \* the daemon's endpoint answers a probe
    pc,         \* where the main loop is
    left,       \* table entries the current pass has not visited
    stop,       \* g_stop || ctx->shutdown
    grace,      \* time left of the shutdown's grace period
    children,   \* history: OS child processes started for the daemon, unreaped
    tries       \* history: spawn attempts since it was last healthy or activated

table == <<state, pid, fails, timer, deadTicks, up, children, tries>>
vars == <<table, pc, left, stop, grace>>

State == {"STOPPED", "STARTING", "RUNNING", "BACKOFF", "FAILED"}

(* sup_backoff_ms for a fail_count of f.                                   *)
Backoff(f) ==
    LET ms == BackoffBase * 2 ^ (IF f > 1 THEN f - 1 ELSE 0)
    IN  IF ms < BackoffMax THEN ms ELSE BackoffMax

Less(k) == IF k > 0 THEN k - 1 ELSE k

First(d, S) == d \in S /\ \A e \in S : d <= e

(* sup_decl_load leaves every entry stopped and without a process.         *)
Init ==
    /\ state = [d \in Daemon |-> "STOPPED"]
    /\ pid = [d \in Daemon |-> "none"]
    /\ fails = [d \in Daemon |-> 0]
    /\ timer = [d \in Daemon |-> 0]
    /\ deadTicks = [d \in Daemon |-> 0]
    /\ up = [d \in Daemon |-> FALSE]
    /\ children = [d \in Daemon |-> 0]
    /\ tries = [d \in Daemon |-> 0]
    /\ pc = "check"
    /\ left = {}
    /\ stop = FALSE
    /\ grace = 0

-----------------------------------------------------------------------------
(* spawn_or_backoff(ctx, p, now) with p->fail_count = f: the child starts, *)
(* or fork fails.                                                          *)
Spawned(d, f, t) ==
    /\ state' = [state EXCEPT ![d] = "STARTING"]
    /\ pid' = [pid EXCEPT ![d] = "live"]
    /\ fails' = [fails EXCEPT ![d] = f]
    /\ deadTicks' = [deadTicks EXCEPT ![d] = 0]
    /\ children' = [children EXCEPT ![d] = @ + 1]
    /\ tries' = [tries EXCEPT ![d] = t + 1]
    /\ UNCHANGED <<timer, up>>

SpawnFailed(d, f, t) ==
    /\ state' = [state EXCEPT ![d] = "BACKOFF"]
    /\ fails' = [fails EXCEPT ![d] = f + 1]
    /\ timer' = [timer EXCEPT ![d] = Backoff(f + 1)]
    /\ tries' = [tries EXCEPT ![d] = t + 1]
    /\ UNCHANGED <<pid, deadTicks, up, children>>

SpawnOrBackoff(d, f, t) ==
    \/ Spawned(d, f, t)
    \/ SpawnFailed(d, f, t)

(* sup_proc_reap on one entry.                                             *)
ReapOne(d) ==
    IF pid[d] = "dead"
    THEN /\ pid' = [pid EXCEPT ![d] = "none"]
         /\ fails' = [fails EXCEPT ![d] = @ + 1]
         /\ children' = [children EXCEPT ![d] = @ - 1]
         /\ IF d \in Core
            THEN /\ state' = [state EXCEPT ![d] = "BACKOFF"]
                 /\ timer' = [timer EXCEPT ![d] = Backoff(fails[d] + 1)]
            ELSE /\ state' = [state EXCEPT ![d] = "STOPPED"]
                 /\ UNCHANGED timer
         /\ UNCHANGED <<deadTicks, up, tries>>
    ELSE UNCHANGED table

(* sup_health_tick: reachable, then not reachable.                         *)
Healthy(d) ==
    /\ state' = [state EXCEPT ![d] = "RUNNING"]
    /\ fails' = [fails EXCEPT ![d] = 0]
    /\ tries' = [tries EXCEPT ![d] = 0]
    /\ UNCHANGED <<pid, timer, up, children>>

Unreachable(d) ==
    /\ deadTicks' = [deadTicks EXCEPT ![d] = @ + 1]
    /\ pid' = [pid EXCEPT ![d] =
                  IF deadTicks[d] + 1 >= LivenessTicks THEN "dead" ELSE @]
    /\ UNCHANGED <<state, fails, timer, up, children, tries>>

(* Mutant of HealthTick: a starting daemon is given all the time it wants. *)
HealthTickPatient(d) ==
    IF pid[d] = "none" \/ (state[d] = "STARTING" /\ ~up[d]) THEN UNCHANGED table
    ELSE IF up[d]
    THEN Healthy(d) /\ deadTicks' = [deadTicks EXCEPT ![d] = 0]
    ELSE Unreachable(d)

HealthTick(d) ==
    IF pid[d] = "none" THEN UNCHANGED table
    ELSE IF d \notin HasSock
    THEN IF state[d] = "STARTING" THEN Healthy(d) /\ UNCHANGED deadTicks
                                  ELSE UNCHANGED table
    ELSE IF up[d]
    THEN Healthy(d) /\ deadTicks' = [deadTicks EXCEPT ![d] = 0]
    ELSE Unreachable(d)

(* Mutant of Tend: one attempt too many.                                   *)
TendOnceMore(d) ==
    CASE state[d] = "STOPPED" -> SpawnOrBackoff(d, fails[d], tries[d])
      [] state[d] = "BACKOFF" ->
            IF timer[d] > 0 THEN UNCHANGED table
            ELSE IF fails[d] > MaxAttempts
            THEN /\ state' = [state EXCEPT ![d] = "FAILED"]
                 /\ UNCHANGED <<pid, fails, timer, deadTicks, up, children, tries>>
            ELSE SpawnOrBackoff(d, fails[d], tries[d])
      [] state[d] \in {"STARTING", "RUNNING"} -> HealthTick(d)
      [] OTHER -> UNCHANGED table

(* Mutant of Tend: the BACKOFF case is missing.                            *)
TendNoBackoff(d) ==
    CASE state[d] = "STOPPED" -> SpawnOrBackoff(d, fails[d], tries[d])
      [] state[d] \in {"STARTING", "RUNNING"} -> HealthTick(d)
      [] OTHER -> UNCHANGED table

(* The switch of sup_reconcile on one CORE entry.                          *)
Tend(d) ==
    CASE state[d] = "STOPPED" -> SpawnOrBackoff(d, fails[d], tries[d])
      [] state[d] = "BACKOFF" ->
            IF timer[d] > 0 THEN UNCHANGED table
            ELSE IF fails[d] >= MaxAttempts
            THEN /\ state' = [state EXCEPT ![d] = "FAILED"]
                 /\ UNCHANGED <<pid, fails, timer, deadTicks, up, children, tries>>
            ELSE SpawnOrBackoff(d, fails[d], tries[d])
      [] state[d] \in {"STARTING", "RUNNING"} -> HealthTick(d)
      [] OTHER -> UNCHANGED table

-----------------------------------------------------------------------------
(* The main loop: sup_svc_step over and over, then sup_svc_clear.          *)

BeginStep ==
    /\ pc = "check"
    /\ IF stop THEN pc' = "term" /\ UNCHANGED left
               ELSE pc' = "reap" /\ left' = Daemon
    /\ UNCHANGED <<table, stop, grace>>

Reap(d) ==
    /\ pc = "reap"
    /\ First(d, left)
    /\ ReapOne(d)
    /\ left' = left \ {d}
    /\ UNCHANGED <<pc, stop, grace>>

EndReap ==
    /\ pc = "reap"
    /\ left = {}
    /\ pc' = "sweep"
    /\ left' = Core
    /\ UNCHANGED <<table, stop, grace>>

Sweep(d) ==
    /\ pc = "sweep"
    /\ First(d, left)
    /\ Tend(d)
    /\ left' = left \ {d}
    /\ UNCHANGED <<pc, stop, grace>>

EndSweep ==
    /\ pc = "sweep"
    /\ left = {}
    /\ pc' = IF stop THEN "term" ELSE "serve"
    /\ UNCHANGED <<table, left, stop, grace>>

(* sup_ctrl_serve: no connection within tick_ms, or a request that changes *)
(* nothing (health_check, an unknown method or name, an overlong line).    *)
ServeNothing ==
    /\ pc = "serve"
    /\ pc' = "check"
    /\ UNCHANGED <<table, left, stop, grace>>

(* Mutant of ServeActivate: a running daemon is started once more.         *)
ServeActivateBlind(d) ==
    /\ pc = "serve"
    /\ SpawnOrBackoff(d, 0, 0)
    /\ pc' = "check"
    /\ UNCHANGED <<left, stop, grace>>

ServeActivate(d) ==
    /\ pc = "serve"
    /\ IF pid[d] # "none" THEN UNCHANGED table
                          ELSE SpawnOrBackoff(d, 0, 0)
    /\ pc' = "check"
    /\ UNCHANGED <<left, stop, grace>>

ServeShutdown ==
    /\ pc = "serve"
    /\ stop' = TRUE
    /\ pc' = "check"
    /\ UNCHANGED <<table, left, grace>>

(* sup_shutdown_all: SIGTERM to every child, poll until they are gone or   *)
(* the grace period is over, SIGKILL the rest and wait for them.           *)
TermAll ==
    /\ pc = "term"
    /\ pc' = "grace"
    /\ grace' = Grace
    /\ UNCHANGED <<table, left, stop>>

(* Mutant of GracePoll: the deadline is not looked at.                     *)
GracePollForever ==
    /\ pc = "grace"
    /\ pid' = [d \in Daemon |-> IF pid[d] = "dead" THEN "none" ELSE pid[d]]
    /\ children' = [d \in Daemon |->
                       IF pid[d] = "dead" THEN children[d] - 1 ELSE children[d]]
    /\ pc' = IF \A d \in Daemon : pid'[d] = "none" THEN "kill" ELSE "grace"
    /\ UNCHANGED <<state, fails, timer, deadTicks, up, tries, left, stop, grace>>

GracePoll ==
    /\ pc = "grace"
    /\ pid' = [d \in Daemon |-> IF pid[d] = "dead" THEN "none" ELSE pid[d]]
    /\ children' = [d \in Daemon |->
                       IF pid[d] = "dead" THEN children[d] - 1 ELSE children[d]]
    /\ pc' = IF grace = 0 \/ \A d \in Daemon : pid'[d] = "none"
             THEN "kill" ELSE "grace"
    /\ UNCHANGED <<state, fails, timer, deadTicks, up, tries, left, stop, grace>>

(* Mutant of KillAll: only running daemons are killed.                     *)
KillAllRunning ==
    /\ pc = "kill"
    /\ pid' = [d \in Daemon |-> IF state[d] = "RUNNING" THEN "none" ELSE pid[d]]
    /\ children' = [d \in Daemon |->
                       IF pid[d] # pid'[d] THEN children[d] - 1 ELSE children[d]]
    /\ pc' = "exit"
    /\ UNCHANGED <<state, fails, timer, deadTicks, up, tries, left, stop, grace>>

KillAll ==
    /\ pc = "kill"
    /\ pid' = [d \in Daemon |-> "none"]
    /\ up' = [d \in Daemon |-> FALSE]
    /\ children' = [d \in Daemon |->
                       IF pid[d] # "none" THEN children[d] - 1 ELSE children[d]]
    /\ pc' = "exit"
    /\ UNCHANGED <<state, fails, timer, deadTicks, tries, left, stop, grace>>

-----------------------------------------------------------------------------
(* The environment.                                                        *)

(* A daemon exits, crashes, or obeys SIGTERM.                              *)
Crash(d) ==
    /\ pid[d] = "live"
    /\ pid' = [pid EXCEPT ![d] = "dead"]
    /\ up' = [up EXCEPT ![d] = FALSE]
    /\ UNCHANGED <<state, fails, timer, deadTicks, children, tries, pc, left,
                   stop, grace>>

(* A daemon starts or stops to answer at its endpoint; only CORE daemons   *)
(* are ever probed.                                                        *)
Flip(d) ==
    /\ d \in Core \cap HasSock
    /\ pid[d] = "live"
    /\ up' = [up EXCEPT ![d] = ~@]
    /\ UNCHANGED <<state, pid, fails, timer, deadTicks, children, tries, pc,
                   left, stop, grace>>

(* on_term.                                                                *)
Signal ==
    /\ ~stop
    /\ stop' = TRUE
    /\ UNCHANGED <<table, pc, left, grace>>

Tick ==
    /\ pc \in {"serve", "grace"}
    /\ timer' = [d \in Daemon |-> Less(timer[d])]
    /\ grace' = Less(grace)
    /\ UNCHANGED <<state, pid, fails, deadTicks, up, children, tries, pc, left,
                   stop>>

Loop ==
    \/ BeginStep
    \/ \E d \in Daemon : Reap(d)
    \/ EndReap
    \/ \E d \in Daemon : Sweep(d)
    \/ EndSweep
    \/ ServeNothing
    \/ TermAll
    \/ GracePoll
    \/ KillAll

Next ==
    \/ Loop
    \/ \E d \in Daemon : ServeActivate(d)
    \/ ServeShutdown
    \/ \E d \in Daemon : Crash(d)
    \/ \E d \in Daemon : Flip(d)
    \/ Signal
    \/ Tick

Spec == Init /\ [][Next]_vars

(* The loop runs, and the clock does not stand still each time it waits.   *)
Fairness == WF_vars(Loop) /\ SF_vars(Tick)

FairSpec == Spec /\ Fairness

-----------------------------------------------------------------------------
Serving == pc \in {"check", "reap", "sweep", "serve"}

TypeOK ==
    /\ state \in [Daemon -> State]
    /\ pid \in [Daemon -> {"none", "live", "dead"}]
    /\ fails \in [Daemon -> Nat]
    /\ timer \in [Daemon -> Int]
    /\ deadTicks \in [Daemon -> 0..LivenessTicks]
    /\ up \in [Daemon -> BOOLEAN]
    /\ children \in [Daemon -> Int]
    /\ tries \in [Daemon -> Nat]
    /\ pc \in {"check", "reap", "sweep", "serve", "term", "grace", "kill", "exit"}
    /\ left \subseteq Daemon
    /\ stop \in BOOLEAN
    /\ grace \in Nat

(* The table tells the truth about processes: while the supervisor serves, *)
(* an entry is STARTING or RUNNING exactly when it has a child, and never  *)
(* has it two children for one daemon, whatever dies or is activated when. *)
OneChildPerEntry ==
    \A d \in Daemon :
        /\ children[d] = IF pid[d] = "none" THEN 0 ELSE 1
        /\ Serving => (state[d] \in {"STARTING", "RUNNING"} <=> pid[d] # "none")

(* No restart storm: a CORE daemon is started at most max_attempts times   *)
(* in a row without having been healthy or activated in between, and it is *)
(* FAILED only after that many failures.                                   *)
NoRestartStorm ==
    \A d \in Core :
        /\ tries[d] <= MaxAttempts
        /\ fails[d] <= MaxAttempts
        /\ state[d] = "FAILED" => fails[d] = MaxAttempts

(* The supervisor leaves no child behind when it exits.                    *)
ExitLeavesNoChild == pc = "exit" => \A d \in Daemon : children[d] = 0

(* README: "activate" is the only way out of FAILED, and an AUX daemon is  *)
(* started by nothing else.                                                *)
OnlyActivateRevives ==
    [][\A d \in Daemon :
        \/ state[d] = "FAILED" /\ state'[d] # "FAILED"
        \/ d \notin Core /\ children'[d] > children[d]
        => pc = "serve" /\ pc' = "check"]_vars

(* A CORE daemon whose backoff is over is tried again (a failed try re-arms *)
(* the backoff) or given up as FAILED.                                      *)
CoreIsRetried ==
    \A d \in Core :
        (state[d] \in {"STOPPED", "BACKOFF"} /\ timer[d] = 0) ~>
            (state[d] \notin {"STOPPED", "BACKOFF"} \/ timer[d] > 0 \/ stop)

(* A CORE daemon that hangs (alive, endpoint silent) is killed.            *)
HungIsKilled ==
    \A d \in Core \cap HasSock :
        (pid[d] = "live" /\ ~up[d]) ~> (pid[d] # "live" \/ up[d] \/ stop)

(* A shutdown, once accepted, ends.                                        *)
ShutdownEnds == stop ~> pc = "exit"
-----------------------------------------------------------------------------
(* The inductive invariant, in named parts.                                *)

(* What the state of a CORE entry says about its failures and attempts.    *)
AttemptInv ==
    \A d \in Core :
        CASE state[d] = "STOPPED" -> fails[d] = 0 /\ tries[d] = 0
          [] state[d] = "BACKOFF" -> fails[d] <= MaxAttempts /\ tries[d] <= fails[d]
          [] state[d] = "FAILED" -> fails[d] = MaxAttempts /\ tries[d] <= fails[d]
          [] OTHER -> fails[d] < MaxAttempts /\ tries[d] <= fails[d] + 1

(* A child that has been counted out is dead, and is reaped before it can  *)
(* be counted again.                                                       *)
CountedOutInv ==
    \A d \in Daemon :
        \/ pid[d] = "live"
        \/ pid[d] = "dead" /\ pc = "reap" /\ d \notin left
        \/ pid[d] = "dead" /\ pc = "sweep" /\ d \in left
        => deadTicks[d] < LivenessTicks

PassInv ==
    /\ pc = "sweep" => left \subseteq Core
    /\ pc = "exit" => \A d \in Daemon : pid[d] = "none"

IInv == TypeOK /\ OneChildPerEntry /\ AttemptInv /\ CountedOutInv /\ PassInv
=============================================================================
