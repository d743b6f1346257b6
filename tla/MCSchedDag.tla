----------------------------- MODULE MCSchedDag -----------------------------
(* Small instances of SchedDag for TLC.                                    *)
EXTENDS SchedDag, TLC

BP(ns, dep, mr, bud) ==
    [nodes |-> ns, deps |-> dep, maxRetries |-> [n \in Node |-> mr],
     budget |-> bud]

NoDeps == [n \in Node |-> {}]
Chain == 2 :> {1} @@ 3 :> {2} @@ NoDeps      \* 1 <- 2 <- 3
Join == 3 :> {1, 2} @@ NoDeps                \* 1, 2 <- 3
Cycle == 1 :> {2} @@ 2 :> {1} @@ NoDeps

Nodes3 == 1..3

\* A join, a chain, and a cyclic graph that must be refused; no retries.
BPsPlain ==
    {BP({1, 2, 3}, Join, 0, Unlimited), BP({1, 2, 3}, Chain, 0, Unlimited),
     BP({1, 2, 3}, Cycle, 0, Unlimited)}

\* A chain of two nodes with two retries each under a budget that can run
\* out between them, and a join with one retry and no budget.
BPsRetry ==
    {BP({1, 2}, 2 :> {1} @@ NoDeps, 2, 3), BP({1, 2, 3}, Join, 1, Unlimited)}

\* The join alone: two nodes of one batch, then their common successor.
BPsJoin == {BP({1, 2, 3}, Join, 1, Unlimited)}
=============================================================================
