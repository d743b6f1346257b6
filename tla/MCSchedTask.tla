---------------------------- MODULE MCSchedTask ----------------------------
(* Three tasks in a ring of four slots, two of them of equal priority; two *)
(* agents that come and go, one of them registered as unavailable.         *)
EXTENDS SchedTask
Req(t, p, l) == [id |-> t, prio |-> p, timed |-> l]
Requests == {Req("t1", 1, TRUE), Req("t2", 1, FALSE), Req("t3", 2, FALSE)}
Agent(a, av, w) == [id |-> a, avail |-> av, weight |-> w, rate |-> 1, load |-> 0]
Agents == {Agent("a1", TRUE, 1), Agent("a2", FALSE, 2)}
RR == {"ROUND_ROBIN"}
=============================================================================
