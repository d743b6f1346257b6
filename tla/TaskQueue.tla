------------------------------ MODULE TaskQueue ------------------------------
(***************************************************************************)
(* What the task queue of sched_d promises (the comment above              *)
(* sched_queue_take_highest): the highest priority first, first come first *)
(* served among equals, whatever is canceled in between.                   *)
(***************************************************************************)
EXTENDS Integers, Sequences

CONSTANTS TaskId, Priority

VARIABLES
    queue,      \* waiting tasks in order of arrival
    prio,       \* the priority a task was submitted with
    taken       \* the tasks handed to the worker

Init ==
    /\ queue = <<>>
    /\ prio = [t \in TaskId |-> 0]
    /\ taken = {}

Submit(t) ==
    /\ t \notin taken /\ \A i \in DOMAIN queue : queue[i] # t
    /\ queue' = Append(queue, t)
    /\ \E p \in Priority : prio' = [prio EXCEPT ![t] = p]
    /\ UNCHANGED taken

Without(i) == SubSeq(queue, 1, i - 1) \o SubSeq(queue, i + 1, Len(queue))

(* The position the worker takes next.                                     *)
IsNext(i) ==
    /\ \A j \in DOMAIN queue : prio[queue[j]] <= prio[queue[i]]
    /\ \A j \in 1..(i - 1) : prio[queue[j]] < prio[queue[i]]

Take ==
    \E i \in DOMAIN queue :
        /\ IsNext(i)
        /\ queue' = Without(i)
        /\ taken' = taken \cup {queue[i]}
        /\ UNCHANGED prio

Cancel ==
    \E i \in DOMAIN queue :
        /\ queue' = Without(i)
        /\ UNCHANGED <<prio, taken>>

Next == (\E t \in TaskId : Submit(t)) \/ Take \/ Cancel

Spec == Init /\ [][Next]_<<queue, prio, taken>>
=============================================================================
