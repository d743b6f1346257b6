----------------------------- MODULE DaemonBase -----------------------------
(* The helpers of the component modules that need no library.              *)
EXTENDS Integers, Sequences

MinOf(a, b) == IF a < b THEN a ELSE b
MaxOf(a, b) == IF a > b THEN a ELSE b

\* an optional value is a set with at most one element
Opt(o, default) == IF o = {} THEN default ELSE CHOOSE v \in o : TRUE

\* the index of the first element that satisfies P, 0 when there is none
FirstIdx(s, P(_)) ==
    LET I == {i \in 1..Len(s) : P(s[i])}
    IN  IF I = {} THEN 0 ELSE CHOOSE i \in I : \A j \in I : i <= j

\* the sequence without its i-th element
DropAt(s, i) == SubSeq(s, 1, i - 1) \o SubSeq(s, i + 1, Len(s))
=============================================================================
