-------------------------- MODULE ToolTableProofs --------------------------
(***************************************************************************)
(* The two tables of tool_d: the plugin host pays back every library it    *)
(* opens, and a listing of the tool table tells the truth for as long as   *)
(* it is held; for any number of threads, clients, probes, libraries and   *)
(* tools.                                                                  *)
(***************************************************************************)
EXTENDS ToolPlugin, ToolRegistry, FiniteSetTheorems, WellFoundedInduction, TLAPS

GSpec == GInit /\ [][GNext]_gvars

(* The types of the plugin host's state.                                   *)
GStates == {"initialized", "starting", "running", "error", "unloaded"}
GPlaces == {"free", "init", "insert", "start", "execute"}
GInstance == [lib : GLibs, state : GStates, errors : Nat, destroyed : Nat, badstop : BOOLEAN]
GTypeOK ==
    /\ gjob \in GJobs
    /\ ginst \in Seq(GInstance)
    /\ gnodes \in Seq(1..Len(ginst))
    /\ gopen \in [GLibs -> Int]
    /\ gpc \in [GThreads -> [at : GPlaces, inst : Nat]]

GLoads(t) == gpc[t].at \in {"init", "insert"}
GListed(l) == {i \in Range(gnodes) : ginst[i].lib = l}
GLoading(l) == {t \in GThreads : GLoads(t) /\ GArgOf(t) = l}

\* No node is linked twice.
GLinkedOnce == \A j, k \in DOMAIN gnodes : gnodes[j] = gnodes[k] => j = k
\* A thread between two parts of a load was asked for one; after plugin_init it has a node of
\* its own, of the library it was asked for, not yet linked and not destroyed.
GNotShared == \A t, u \in GThreads :
    gpc[t].at = "insert" /\ gpc[u].at = "insert" /\ gpc[t].inst = gpc[u].inst => t = u
GHolders ==
    /\ \A t \in GThreads : GLoads(t) => gjob[t].op = "load"
    /\ \A t \in GThreads : gpc[t].at = "insert" =>
         /\ gpc[t].inst \in DOMAIN ginst \ Range(gnodes)
         /\ ginst[gpc[t].inst].lib = GArgOf(t)
         /\ ginst[gpc[t].inst].destroyed = 0
    /\ GNotShared
GNodesSound ==
    /\ \A i \in DOMAIN ginst : ginst[i].destroyed <= 1 /\ ~ginst[i].badstop
    /\ \A i \in Range(gnodes) : ginst[i].destroyed = 0
GPaid == \A l \in GLibs : gopen[l] = Cardinality(GListed(l)) + Cardinality(GLoading(l))
GInv == GTypeOK /\ GLinkedOnce /\ GHolders /\ GNodesSound /\ GPaid
-----------------------------------------------------------------------------
(* Sequences without repetition.                                           *)

NoRepeat(q) == \A j, k \in 1..Len(q) : q[j] = q[k] => j = k

(* A set of natural numbers has a least element.                           *)
LEMMA LeastExists ==
    ASSUME NEW S \in SUBSET Nat, S # {}
    PROVE  \E x \in S : \A y \in S : x =< y
<1>1. PICK x \in S : \A y \in S : <<y, x>> \notin OpToRel(<, Nat)
    BY NatLessThanWellFounded, WFMin, Zenon
<1>2. \A a, b \in Nat : a < b => <<a, b>> \in OpToRel(<, Nat)
    BY Zenon DEF OpToRel
<1>3. \A y \in S : ~(y < x)
    BY <1>1, <1>2, Zenon
<1> QED
    BY <1>3

(* The indices of a sequence, and the set of its elements.                 *)
LEMMA RangeIs ==
    ASSUME NEW S, NEW q \in Seq(S)
    PROVE  /\ DOMAIN q = 1..Len(q)
           /\ Range(q) = {q[j] : j \in 1..Len(q)}
           /\ Range(q) \subseteq S
<1>1. DOMAIN q = 1..Len(q) /\ \A j \in 1..Len(q) : q[j] \in S
    OBVIOUS
<1> QED
    BY <1>1, Zenon DEF Range

(* A list without repetition has as many elements as nodes.                *)
LEMMA CountNodes ==
    ASSUME NEW S, NEW q \in Seq(S), NoRepeat(q)
    PROVE  /\ IsFiniteSet(Range(q))
           /\ Cardinality(Range(q)) = Len(q)
<1>1. /\ DOMAIN q = 1..Len(q) /\ Len(q) \in Nat
      /\ Range(q) = {q[j] : j \in 1..Len(q)}
    BY RangeIs
<1>2. q \in [1..Len(q) -> Range(q)]
    BY <1>1
<1>3. q \in Bijection(1..Len(q), Range(q))
    BY <1>1, <1>2, Zenon DEF Bijection, Injection, Surjection, IsInjective, NoRepeat
<1>4. ExistsBijection(1..Len(q), Range(q))
    BY <1>3, Zenon DEF ExistsBijection
<1> QED
    BY <1>1, <1>4, FS_NatBijection, FS_CountingElements, Zenon

(* A node linked at the head of the list (plugin_service_load).            *)
LEMMA PushFacts ==
    ASSUME NEW S, NEW q \in Seq(S), NoRepeat(q), NEW x \in S, x \notin Range(q)
    PROVE  /\ <<x>> \o q \in Seq(S)
           /\ NoRepeat(<<x>> \o q)
           /\ Range(<<x>> \o q) = Range(q) \cup {x}
<1>1. PICK r \in Seq(S) : /\ r = <<x>> \o q /\ Len(r) = Len(q) + 1 /\ r[1] = x
                          /\ \A j \in 1..Len(q) : r[j + 1] = q[j]
    <2>1. PICK a \in Seq(S) : a = <<x>> /\ Len(a) = 1 /\ a[1] = x
        <3>1. <<x>> \in Seq(S)
            OBVIOUS
        <3>2. Len(<<x>>) = 1 /\ <<x>>[1] = x
            BY Zenon
        <3> QED
            BY <3>1, <3>2, Zenon
    <2>2. a \o q \in Seq(S) /\ Len(a \o q) = Len(a) + Len(q)
        OBVIOUS
    <2>3. \A j \in 1..Len(a) : (a \o q)[j] = a[j]
        OBVIOUS
    <2>4. \A j \in 1..Len(q) : (a \o q)[Len(a) + j] = q[j]
        OBVIOUS
    <2>5. \A j \in 1..Len(q) : Len(a) + j = j + 1
        BY <2>1
    <2>6. 1 \in 1..Len(a) /\ Len(a) + Len(q) = Len(q) + 1
        BY <2>1
    <2>7. (a \o q)[1] = x /\ Len(a \o q) = Len(q) + 1
        BY <2>1, <2>2, <2>3, <2>6, Zenon
    <2>8. \A j \in 1..Len(q) : (a \o q)[j + 1] = q[j]
        BY <2>4, <2>5, Zenon
    <2> QED
        BY <2>1, <2>2, <2>7, <2>8, Zenon
<1>2. \A j \in 1..Len(r) : j = 1 \/ \E k \in 1..Len(q) : j = k + 1
    <2> SUFFICES ASSUME NEW j \in 1..Len(r), j # 1
                 PROVE  \E k \in 1..Len(q) : j = k + 1
        BY Zenon
    <2>1. j - 1 \in 1..Len(q) /\ j = (j - 1) + 1
        BY <1>1
    <2> QED
        BY <2>1, Zenon
<1>3. 1 \in 1..Len(r) /\ \A k \in 1..Len(q) : k + 1 \in 1..Len(r)
    BY <1>1
<1>4. /\ Range(r) = {r[j] : j \in 1..Len(r)}
      /\ Range(q) = {q[j] : j \in 1..Len(q)}
    BY RangeIs, Zenon
<1>5. Range(r) = Range(q) \cup {x}
    <2>1. ASSUME NEW y \in Range(r) PROVE y \in Range(q) \cup {x}
        <3>1. PICK j \in 1..Len(r) : y = r[j]
            BY <1>4, <2>1, Zenon
        <3>2. CASE j = 1
            BY <1>1, <3>1, <3>2, Zenon
        <3>3. CASE \E k \in 1..Len(q) : j = k + 1
            BY <1>1, <1>4, <3>1, <3>3, Zenon
        <3> QED
            BY <1>2, <3>2, <3>3, Zenon
    <2>2. ASSUME NEW y \in Range(q) PROVE y \in Range(r)
        <3>1. PICK k \in 1..Len(q) : y = q[k]
            BY <1>4, <2>2, Zenon
        <3>2. y = r[k + 1] /\ k + 1 \in 1..Len(r)
            BY <1>1, <1>3, <3>1, Zenon
        <3> QED
            BY <1>4, <3>2, Zenon
    <2>3. x \in Range(r)
        BY <1>1, <1>3, <1>4, Zenon
    <2> QED
        BY <2>1, <2>2, <2>3, Zenon
<1>6. NoRepeat(r)
    <2> SUFFICES ASSUME NEW j \in 1..Len(r), NEW k \in 1..Len(r), r[j] = r[k]
                 PROVE  j = k
        BY Zenon DEF NoRepeat
    <2>1. ASSUME NEW y \in 1..Len(q) PROVE r[y + 1] = q[y] /\ q[y] # x
        BY <1>1, <1>4, Zenon
    <2>0. ASSUME NEW y \in 1..Len(r), y # 1 PROVE r[y] # x
        <3>1. PICK v \in 1..Len(q) : y = v + 1
            BY <1>2, <2>0, Zenon
        <3> QED
            BY <2>1, <3>1, Zenon
    <2>2. CASE j = 1 /\ k # 1
        BY <1>1, <2>0, <2>2, Zenon
    <2>3. CASE j # 1 /\ k = 1
        BY <1>1, <2>0, <2>3, Zenon
    <2>4. CASE j # 1 /\ k # 1
        <3>1. PICK u \in 1..Len(q) : j = u + 1
            BY <1>2, <2>4, Zenon
        <3>2. PICK v \in 1..Len(q) : k = v + 1
            BY <1>2, <2>4, Zenon
        <3>3. q[u] = q[v]
            BY <2>1, <3>1, <3>2, Zenon
        <3> QED
            BY <3>1, <3>2, <3>3, Zenon DEF NoRepeat
    <2> QED
        BY <2>2, <2>3, <2>4, Zenon
<1> QED
    BY <1>1, <1>5, <1>6, Zenon

Skip(i, j) == IF j < i THEN j ELSE j + 1

SkipsOne(n, i) ==
    /\ \A j \in 1..(n - 1) : Skip(i, j) \in 1..n /\ Skip(i, j) # i
    /\ \A k \in 1..n : k # i => \E j \in 1..(n - 1) : Skip(i, j) = k
    /\ \A j, k \in 1..(n - 1) : Skip(i, j) = Skip(i, k) => j = k

(* When the i-th element is dropped no other is lost ...                   *)
LEMMA SkipOver ==
    ASSUME NEW n \in Nat, NEW i \in 1..n
    PROVE  SkipsOne(n, i)
<1>1. \A j \in 1..(n - 1) : Skip(i, j) \in 1..n /\ Skip(i, j) # i
    BY DEF Skip
<1>2. \A j, k \in 1..(n - 1) : Skip(i, j) = Skip(i, k) => j = k
    BY DEF Skip
<1>3. ASSUME NEW k \in 1..n, k # i
      PROVE  \E j \in 1..(n - 1) : Skip(i, j) = k
    <2>1. CASE k < i
        BY <2>1 DEF Skip
    <2>2. CASE ~(k < i)
        <3>1. k - 1 \in 1..(n - 1) /\ Skip(i, k - 1) = k
            BY <1>3, <2>2 DEF Skip
        <3> QED
            BY <3>1, Zenon
    <2> QED
        BY <2>1, <2>2, Zenon
<1> QED
    BY <1>1, <1>2, <1>3, Zenon DEF SkipsOne

(* ... and each comes from before or after it.                             *)
LEMMA SkipFrom ==
    ASSUME NEW n \in Nat, NEW i \in 1..n, NEW j \in 1..(n - 1)
    PROVE  /\ j < i => Skip(i, j) = j /\ j \in 1..(i - 1)
           /\ ~(j < i) => \E k \in 1..(n - i) : j = (i - 1) + k /\ Skip(i, j) = i + k
<1>1. ASSUME j < i PROVE Skip(i, j) = j /\ j \in 1..(i - 1)
    BY <1>1 DEF Skip
<1>2. ASSUME ~(j < i)
      PROVE  \E k \in 1..(n - i) : j = (i - 1) + k /\ Skip(i, j) = i + k
    <2>1. /\ j - i + 1 \in 1..(n - i)
          /\ j = (i - 1) + (j - i + 1) /\ Skip(i, j) = i + (j - i + 1)
        BY <1>2 DEF Skip
    <2> QED
        BY <2>1, Zenon
<1> QED
    BY <1>1, <1>2, Zenon

(* A node unlinked from the list (plugin_service_unload).                  *)
LEMMA DropFacts ==
    ASSUME NEW S, NEW q \in Seq(S), NoRepeat(q), NEW i \in 1..Len(q)
    PROVE  /\ DropAt(q, i) \in Seq(S)
           /\ NoRepeat(DropAt(q, i))
           /\ Range(DropAt(q, i)) = Range(q) \ {q[i]}
<1>2. PICK m \in 1..(Len(q) + 1), n \in 0..Len(q) : m = i + 1 /\ n = i - 1
    OBVIOUS
<1>3. PICK a \in Seq(S) : /\ a = SubSeq(q, 1, n) /\ Len(a) = n
                          /\ \A j \in 1..n : a[j] = q[j]
    <2>1. SubSeq(q, 1, n) \in Seq(S) /\ Len(SubSeq(q, 1, n)) = n
        OBVIOUS
    <2>2. \A j \in 1..n : SubSeq(q, 1, n)[j] = q[j]
        OBVIOUS
    <2> QED
        BY <2>1, <2>2, Zenon
<1>4. PICK b \in Seq(S) : /\ b = SubSeq(q, m, Len(q)) /\ Len(b) = Len(q) - i
                          /\ \A j \in 1..(Len(q) - i) : b[j] = q[i + j]
    <2>1. SubSeq(q, m, Len(q)) \in Seq(S)
        OBVIOUS
    <2>2. Len(SubSeq(q, m, Len(q))) = Len(q) - i
        BY <1>2
    <2>3. \A j \in 1..(Len(q) - i) : SubSeq(q, m, Len(q))[j] = q[i + j]
        BY <1>2
    <2> QED
        BY <2>1, <2>2, <2>3, Zenon
<1>5. PICK c \in Seq(S) : /\ c = a \o b /\ Len(c) = Len(a) + Len(b)
                          /\ \A j \in 1..Len(a) : c[j] = a[j]
                          /\ \A j \in 1..Len(b) : c[Len(a) + j] = b[j]
    <2>1. a \o b \in Seq(S) /\ Len(a \o b) = Len(a) + Len(b)
        OBVIOUS
    <2>2. \A j \in 1..Len(a) : (a \o b)[j] = a[j]
        OBVIOUS
    <2>3. \A j \in 1..Len(b) : (a \o b)[Len(a) + j] = b[j]
        OBVIOUS
    <2> QED
        BY <2>1, <2>2, <2>3, Zenon
<1>6. c = DropAt(q, i)
    BY <1>2, <1>3, <1>4, <1>5, Zenon DEF DropAt
<1>7. \A j \in 1..(Len(q) - 1) : c[j] = q[Skip(i, j)]
    <2>1. Len(q) \in Nat
        OBVIOUS
    <2>2. Len(a) = i - 1 /\ Len(b) = Len(q) - i /\ n = i - 1
        BY <1>2, <1>3, <1>4, Zenon
    <2> SUFFICES ASSUME NEW j \in 1..(Len(q) - 1)
                 PROVE  c[j] = q[Skip(i, j)]
        BY Zenon
    <2>3. CASE j < i
        <3>1. Skip(i, j) = j /\ j \in 1..(i - 1)
            BY <2>1, <2>3, SkipFrom, Zenon
        <3> QED
            BY <1>3, <1>5, <2>2, <3>1, Zenon
    <2>4. CASE ~(j < i)
        <3>1. PICK k \in 1..(Len(q) - i) : j = (i - 1) + k /\ Skip(i, j) = i + k
            BY <2>1, <2>4, SkipFrom, Zenon
        <3>2. j = Len(a) + k /\ k \in 1..Len(b)
            BY <2>2, <3>1, Zenon
        <3>3. c[j] = b[k] /\ b[k] = q[i + k]
            BY <1>4, <1>5, <3>1, <3>2, Zenon
        <3> QED
            BY <3>1, <3>3, Zenon
    <2> QED
        BY <2>3, <2>4, Zenon
<1>8. Len(c) = Len(q) - 1 /\ Len(q) \in Nat
    <2>1. Len(q) \in Nat
        OBVIOUS
    <2>2. Len(a) = i - 1 /\ Len(b) = Len(q) - i /\ Len(c) = Len(a) + Len(b)
        BY <1>2, <1>3, <1>4, <1>5, Zenon
    <2>3. \A m1 \in Nat : \A k \in 1..m1 : (k - 1) + (m1 - k) = m1 - 1
        OBVIOUS
    <2>4. (i - 1) + (Len(q) - i) = Len(q) - 1
        BY <2>1, <2>3, Zenon
    <2> QED
        BY <2>1, <2>2, <2>4, Zenon
<1>9. /\ \A j \in 1..Len(c) : Skip(i, j) \in 1..Len(q) /\ Skip(i, j) # i /\ c[j] = q[Skip(i, j)]
      /\ \A k \in 1..Len(q) : k # i => \E j \in 1..Len(c) : Skip(i, j) = k
      /\ \A j, k \in 1..Len(c) : Skip(i, j) = Skip(i, k) => j = k
    <2>1. PICK m1 \in Nat : m1 = Len(q) /\ Len(c) = m1 - 1
        BY <1>8, Zenon
    <2>2. i \in 1..m1
        BY <2>1, Zenon
    <2>3. /\ \A j \in 1..(m1 - 1) : Skip(i, j) \in 1..m1 /\ Skip(i, j) # i
          /\ \A k \in 1..m1 : k # i => \E j \in 1..(m1 - 1) : Skip(i, j) = k
          /\ \A j, k \in 1..(m1 - 1) : Skip(i, j) = Skip(i, k) => j = k
        BY <2>2, SkipOver, Zenon DEF SkipsOne
    <2>4. \A j \in 1..Len(c) : c[j] = q[Skip(i, j)]
        BY <1>7, <1>8, Zenon
    <2> QED
        BY <2>1, <2>3, <2>4, Zenon
<1>10. /\ Range(c) = {c[j] : j \in 1..Len(c)}
       /\ Range(q) = {q[j] : j \in 1..Len(q)}
    BY RangeIs, Zenon
<1>11. NoRepeat(c)
    BY <1>9, Zenon DEF NoRepeat
<1>12. Range(c) = Range(q) \ {q[i]}
    <2>1. ASSUME NEW x \in Range(c) PROVE x \in Range(q) \ {q[i]}
        <3>1. PICK j \in 1..Len(c) : x = c[j]
            BY <1>10, <2>1, Zenon
        <3>2. x = q[Skip(i, j)] /\ Skip(i, j) \in 1..Len(q) /\ Skip(i, j) # i
            BY <1>9, <3>1, Zenon
        <3> QED
            BY <1>10, <3>2, Zenon DEF NoRepeat
    <2>2. ASSUME NEW x \in Range(q), x # q[i] PROVE x \in Range(c)
        <3>1. PICK k \in 1..Len(q) : x = q[k]
            BY <1>10, <2>2, Zenon
        <3>2. PICK j \in 1..Len(c) : Skip(i, j) = k
            BY <1>9, <2>2, <3>1, Zenon
        <3>3. c[j] = x
            BY <1>9, <3>1, <3>2, Zenon
        <3> QED
            BY <1>10, <3>3, Zenon
    <2> QED
        BY <2>1, <2>2, Zenon
<1> QED
    BY <1>6, <1>11, <1>12, Zenon

(* A finite set with one element more.                                     *)
LEMMA CardUp ==
    ASSUME NEW S, IsFiniteSet(S), NEW x, x \notin S, NEW T, T = S \cup {x}
    PROVE  Cardinality(T) = Cardinality(S) + 1
BY FS_AddElement, Zenon

(* A finite set with one element less.                                     *)
LEMMA CardDown ==
    ASSUME NEW S, IsFiniteSet(S), NEW x, x \in S, NEW T, T = S \ {x}
    PROVE  Cardinality(T) = Cardinality(S) - 1
BY FS_RemoveElement, Zenon

(* An element of a sequence.                                               *)
LEMMA ElementIn ==
    ASSUME NEW S, NEW q \in Seq(S), NEW i \in 1..Len(q)
    PROVE  q[i] \in S
OBVIOUS

(* One element of a sequence replaced.                                     *)
LEMMA EditFacts ==
    ASSUME NEW S, NEW q \in Seq(S), NEW i \in 1..Len(q), NEW x \in S,
           NEW r, r = [q EXCEPT ![i] = x]
    PROVE  /\ r \in Seq(S) /\ Len(r) = Len(q)
           /\ \A j \in 1..Len(q) : r[j] = IF j = i THEN x ELSE q[j]
OBVIOUS

(* One element appended to a sequence.                                     *)
LEMMA AppendFacts ==
    ASSUME NEW S, NEW q \in Seq(S), NEW x \in S, NEW r, r = Append(q, x)
    PROVE  /\ r \in Seq(S) /\ Len(r) = Len(q) + 1
           /\ r[Len(q) + 1] = x
           /\ \A j \in 1..Len(q) : r[j] = q[j]
OBVIOUS

-----------------------------------------------------------------------------
(* The plugin host.                                                        *)

(* A thread between two requests.                                          *)
LEMMA FreeThread == GFree \in [at : GPlaces, inst : Nat] /\ GFree.at = "free"
<1>1. 0 \in Nat
    BY Zenon
<1>2. "free" \in GPlaces
    BY Zenon DEF GPlaces
<1>3. GFree \in [at : GPlaces, inst : Nat]
    BY <1>1, <1>2, Zenon DEF GFree
<1>4. GFree.at = "free"
    BY Zenon DEF GFree
<1> QED
    BY <1>3, <1>4, Zenon

(* Nothing is loaded, nothing is open.                                     *)
LEMMA PluginsStart == GInit => GInv
<1> SUFFICES ASSUME GInit PROVE GInv
    BY Zenon
<1>1. /\ gjob \in GJobs /\ gnodes = <<>> /\ ginst = <<>>
      /\ gopen = [l \in GLibs |-> 0] /\ gpc = [t \in GThreads |-> GFree]
    BY Zenon DEF GInit
<1>2. GTypeOK
    <2>1. ginst \in Seq(GInstance) /\ gnodes \in Seq(1..Len(ginst))
        BY <1>1
    <2>2. gopen \in [GLibs -> Int]
        BY <1>1
    <2>3. GFree \in [at : GPlaces, inst : Nat]
        BY FreeThread, Zenon
    <2>4. gpc \in [GThreads -> [at : GPlaces, inst : Nat]]
        BY <1>1, <2>3, Zenon
    <2> QED
        BY <1>1, <2>1, <2>2, <2>4, Zenon DEF GTypeOK
<1>3. \A t \in GThreads : gpc[t].at = "free"
    BY <1>1, FreeThread, Zenon
<1>4. DOMAIN gnodes = {} /\ Range(gnodes) = {} /\ DOMAIN ginst = {}
    BY <1>1 DEF Range
<1>5. GLinkedOnce /\ GHolders /\ GNodesSound
    BY <1>3, <1>4, Zenon DEF GLinkedOnce, GHolders, GNodesSound, GLoads, GNotShared
<1>6. \A l : GListed(l) = {} /\ GLoading(l) = {}
    BY <1>3, <1>4, Zenon DEF GListed, GLoading, GLoads
<1>7. GPaid
    <2>1. Cardinality({}) = 0 /\ 0 + 0 = 0
        BY FS_EmptySet
    <2>2. \A l \in GLibs : gopen[l] = 0
        BY <1>1, Zenon
    <2>3. \A l \in GLibs : gopen[l] = Cardinality({}) + Cardinality({})
        BY <2>1, <2>2, Zenon
    <2> QED
        BY <1>6, <2>3, Zenon DEF GPaid
<1> QED
    BY <1>2, <1>5, <1>7, Zenon DEF GInv

(* The sets counted are finite, the linked nodes exist.                    *)
LEMMA Counted ==
    ASSUME GInv
    PROVE  /\ \A l : IsFiniteSet(GListed(l)) /\ Cardinality(GListed(l)) \in Nat
           /\ \A l : IsFiniteSet(GLoading(l)) /\ Cardinality(GLoading(l)) \in Nat
           /\ Range(gnodes) \subseteq 1..Len(ginst) /\ NoRepeat(gnodes)
           /\ DOMAIN ginst = 1..Len(ginst) /\ Len(ginst) \in Nat
<1>1. ginst \in Seq(GInstance) /\ gnodes \in Seq(1..Len(ginst))
    BY Zenon DEF GInv, GTypeOK
<1>2. DOMAIN ginst = 1..Len(ginst) /\ Len(ginst) \in Nat
    BY <1>1
<1>3. Range(gnodes) \subseteq 1..Len(ginst) /\ DOMAIN gnodes = 1..Len(gnodes)
    BY <1>1, RangeIs, Zenon
<1>4. NoRepeat(gnodes)
    BY <1>3, Zenon DEF NoRepeat, GInv, GLinkedOnce
<1>5. IsFiniteSet(Range(gnodes))
    BY <1>1, <1>4, CountNodes, Zenon
<1>6. \A l : IsFiniteSet(GListed(l))
    <2> TAKE l
    <2>1. GListed(l) \in SUBSET Range(gnodes)
        BY Zenon DEF GListed
    <2> QED
        BY <1>5, <2>1, FS_Subset, Zenon
<1>7. \A l : IsFiniteSet(GLoading(l))
    <2> TAKE l
    <2>1. GLoading(l) \in SUBSET GThreads
        BY Zenon DEF GLoading
    <2> QED
        BY PluginAssumption, <2>1, FS_Subset, Zenon
<1> QED
    BY <1>2, <1>3, <1>4, <1>6, <1>7, FS_CardinalityType, Zenon

(* The search from the head finds a linked node, if there is one of that   *)
(* name (find_node).                                                       *)
LEMMA Found ==
    ASSUME GInv, NEW n, find_node(n) # {}
    PROVE  /\ GNewestAt(n) \in 1..Len(gnodes)
           /\ GNewestOf(n) \in Range(gnodes)
           /\ GNewestOf(n) \in 1..Len(ginst)
<1> DEFINE I == {k \in 1..Len(gnodes) : GNameOf(gnodes[k]) = n}
<1>1. gnodes \in Seq(1..Len(ginst))
    BY Zenon DEF GInv, GTypeOK
<1>2. /\ DOMAIN gnodes = 1..Len(gnodes)
      /\ Range(gnodes) = {gnodes[j] : j \in 1..Len(gnodes)}
      /\ Range(gnodes) \subseteq 1..Len(ginst)
    BY <1>1, RangeIs, Zenon
<1>3. I # {}
    BY <1>2, Zenon DEF find_node, GNameOf
<1>4. I \in SUBSET Nat /\ Len(gnodes) \in Nat
    BY <1>1
<1>5. PICK k \in I : \A j \in I : k =< j
    BY <1>3, <1>4, LeastExists, Zenon
<1>6. ASSUME NEW j \in 1..(k - 1) PROVE GNameOf(gnodes[j]) # n
    <2>1. j \in 1..Len(gnodes) /\ ~(k =< j)
        BY <1>4, <1>5
    <2> QED
        BY <1>5, <2>1, Zenon
<1>7. /\ k \in DOMAIN gnodes /\ GNameOf(gnodes[k]) = n
      /\ \A j \in 1..(k - 1) : GNameOf(gnodes[j]) # n
    BY <1>2, <1>5, <1>6, Zenon
<1>8. GNewestAt(n) \in DOMAIN gnodes
    BY <1>7, Zenon DEF GNewestAt
<1> QED
    BY <1>2, <1>8, Zenon DEF GNewestOf

(* What a step may change of the nodes, the list, the handles and the      *)
(* loads without touching the account.                                     *)
GNodesKept ==
    /\ ginst' \in Seq(GInstance)
    /\ Len(ginst') = Len(ginst)
    /\ \A i \in 1..Len(ginst) :
         /\ ginst'[i].lib = ginst[i].lib /\ ginst'[i].destroyed = ginst[i].destroyed
         /\ ginst'[i].badstop => ginst[i].badstop
GLoadsKept ==
    /\ gpc' \in [GThreads -> [at : GPlaces, inst : Nat]]
    /\ \A t \in GThreads : (GLoads(t)' <=> GLoads(t)) /\ (GLoads(t) => gpc'[t] = gpc[t])
GListKept == gjob' = gjob /\ gnodes' = gnodes /\ gopen' = gopen

(* A step after which every loader that has a node had it before shares    *)
(* none that was not shared.                                               *)
LEMMA NoneShared ==
    ASSUME GInv,
           \A u \in GThreads : gpc'[u].at = "insert" => gpc[u].at = "insert" /\ gpc'[u] = gpc[u]
    PROVE  GNotShared'
<1>1. GNotShared
    BY Zenon DEF GInv, GHolders
<1>2. ASSUME NEW t \in GThreads, NEW u \in GThreads, gpc'[t].at = "insert",
             gpc'[u].at = "insert", gpc'[t].inst = gpc'[u].inst
      PROVE  t = u
    <2>1. gpc[t].at = "insert" /\ gpc'[t] = gpc[t]
        BY <1>2, Zenon
    <2>2. gpc[u].at = "insert" /\ gpc'[u] = gpc[u]
        BY <1>2, Zenon
    <2>3. gpc[t].inst = gpc[u].inst
        BY <1>2, <2>1, <2>2, Zenon
    <2> QED
        BY <1>1, <2>1, <2>2, <2>3, Zenon DEF GNotShared
<1> QED
    BY <1>2, Zenon DEF GNotShared

(* A step that keeps the three keeps the account.                          *)
LEMMA QuietStep ==
    ASSUME GInv, GNodesKept, GLoadsKept, GListKept
    PROVE  GInv'
<1>1. /\ gjob \in GJobs /\ gnodes \in Seq(1..Len(ginst)) /\ gopen \in [GLibs -> Int]
      /\ ginst \in Seq(GInstance)
    BY Zenon DEF GInv, GTypeOK
<1>2. GTypeOK'
    BY <1>1, Zenon DEF GTypeOK, GNodesKept, GLoadsKept, GListKept
<1>3. Range(gnodes)' = Range(gnodes) /\ Range(gnodes) \subseteq 1..Len(ginst)
    BY Counted, Zenon DEF GListKept
<1>4. DOMAIN ginst = 1..Len(ginst) /\ DOMAIN ginst' = 1..Len(ginst)
    BY <1>1 DEF GNodesKept
<1>5. \A t \in GThreads : gpc'[t].at = "insert" => gpc[t].at = "insert" /\ gpc'[t] = gpc[t]
    BY Zenon DEF GLoadsKept, GLoads
<1>6. \A t : GArgOf(t)' = GArgOf(t) /\ gjob'[t] = gjob[t]
    BY Zenon DEF GArgOf, GListKept
<1>7. GLinkedOnce'
    BY Zenon DEF GInv, GLinkedOnce, GListKept
<1>8. GHolders'
    <2>1. \A t \in GThreads : GLoads(t)' => gjob'[t].op = "load"
        BY <1>6, Zenon DEF GInv, GHolders, GLoadsKept
    <2>2. ASSUME NEW t \in GThreads, gpc'[t].at = "insert"
          PROVE  /\ gpc'[t].inst \in DOMAIN ginst' \ Range(gnodes')
                 /\ ginst'[gpc'[t].inst].lib = GArgOf(t)'
                 /\ ginst'[gpc'[t].inst].destroyed = 0
        <3>1. gpc[t].at = "insert" /\ gpc'[t].inst = gpc[t].inst
            BY <1>5, <2>2, Zenon
        <3>2. /\ gpc[t].inst \in DOMAIN ginst /\ gpc[t].inst \notin Range(gnodes)
              /\ ginst[gpc[t].inst].lib = GArgOf(t) /\ ginst[gpc[t].inst].destroyed = 0
            BY <3>1, Zenon DEF GInv, GHolders
        <3> QED
            BY <1>3, <1>4, <1>6, <3>1, <3>2, Zenon DEF GNodesKept
    <2>3. GNotShared'
        BY <1>5, Zenon DEF GInv, GHolders, GNotShared
    <2> QED
        BY <2>1, <2>2, <2>3, Zenon DEF GHolders
<1>9. GNodesSound'
    <2>1. \A i \in DOMAIN ginst' : ginst'[i].destroyed <= 1 /\ ~ginst'[i].badstop
        BY <1>4, Zenon DEF GInv, GNodesSound, GNodesKept
    <2>2. \A i \in Range(gnodes)' : ginst'[i].destroyed = 0
        BY <1>3, Zenon DEF GInv, GNodesSound, GNodesKept
    <2> QED
        BY <2>1, <2>2, Zenon DEF GNodesSound
<1>10. GPaid'
    <2>1. \A l : GListed(l)' = GListed(l)
        BY <1>3, Zenon DEF GListed, GNodesKept
    <2>2. \A l : GLoading(l)' = GLoading(l)
        BY <1>6, Zenon DEF GLoading, GLoadsKept
    <2> QED
        BY <2>1, <2>2, Zenon DEF GInv, GPaid, GListKept
<1> QED
    BY <1>2, <1>7, <1>8, <1>9, <1>10, Zenon DEF GInv

(* A thread that is not loading answers: the loaders are the same.         *)
LEMMA AnswerAside ==
    ASSUME GInv, NEW t \in GThreads, ~GLoads(t), NEW a, GAnswer(t, a)
    PROVE  GLoadsKept
<1>1. gpc \in [GThreads -> [at : GPlaces, inst : Nat]]
    BY Zenon DEF GInv, GTypeOK
<1>2. gpc' = [gpc EXCEPT ![t] = GFree]
    BY Zenon DEF GAnswer
<1>3. GFree \in [at : GPlaces, inst : Nat] /\ GFree.at = "free"
    BY FreeThread, Zenon
<1>4. /\ gpc' \in [GThreads -> [at : GPlaces, inst : Nat]]
      /\ \A u \in GThreads : gpc'[u] = IF u = t THEN GFree ELSE gpc[u]
    BY <1>1, <1>2, <1>3, Zenon
<1>5. "free" \notin {"init", "insert"}
    BY Zenon
<1> QED
    BY <1>3, <1>4, <1>5, Zenon DEF GLoadsKept, GLoads

(* The same for a thread that goes on to a callback.                       *)
LEMMA HoldAside ==
    ASSUME GInv, NEW t \in GThreads, ~GLoads(t), NEW at \in {"start", "execute"},
           NEW i \in Nat, GHold(t, at, i)
    PROVE  GLoadsKept
<1>1. gpc \in [GThreads -> [at : GPlaces, inst : Nat]]
    BY Zenon DEF GInv, GTypeOK
<1> DEFINE v == [at |-> at, inst |-> i]
<1>2. gpc' = [gpc EXCEPT ![t] = v]
    BY Zenon DEF GHold
<1>3. v \in [at : GPlaces, inst : Nat] /\ v.at \notin {"init", "insert"}
    <2>1. at \in GPlaces
        BY Zenon DEF GPlaces
    <2>2. v \in [at : GPlaces, inst : Nat]
        BY <2>1, Zenon
    <2>3. v.at = at
        BY Zenon
    <2>4. at \notin {"init", "insert"}
        BY Zenon
    <2> QED
        BY <2>2, <2>3, <2>4, Zenon
<1> HIDE DEF v
<1>4. /\ gpc' \in [GThreads -> [at : GPlaces, inst : Nat]]
      /\ \A u \in GThreads : gpc'[u] = IF u = t THEN v ELSE gpc[u]
    BY <1>1, <1>2, <1>3, Zenon
<1> QED
    BY <1>3, <1>4, Zenon DEF GLoadsKept, GLoads

(* The nodes are left alone.                                               *)
LEMMA NodesAlone ==
    ASSUME GInv, ginst' = ginst
    PROVE  GNodesKept
BY Zenon DEF GInv, GTypeOK, GNodesKept

(* One node changes state and counts an error.                             *)
LEMMA NodeEdited ==
    ASSUME GInv, NEW i \in 1..Len(ginst), NEW r \in GInstance,
           ginst' = [ginst EXCEPT ![i] = r],
           r.lib = ginst[i].lib, r.destroyed = ginst[i].destroyed, r.badstop => ginst[i].badstop
    PROVE  GNodesKept
<1>1. ginst \in Seq(GInstance)
    BY Zenon DEF GInv, GTypeOK
<1>2. /\ ginst' \in Seq(GInstance) /\ Len(ginst') = Len(ginst)
      /\ \A j \in 1..Len(ginst) : ginst'[j] = IF j = i THEN r ELSE ginst[j]
    BY <1>1, EditFacts
<1> QED
    BY <1>2, Zenon DEF GNodesKept

(* The scan of the directory and the shutdown leave the tables alone       *)
(* (plugin_discovery_scan, plugin_rpc_cleanup).                            *)
LEMMA TablesAlone ==
    ASSUME GInv, UNCHANGED <<gjob, gnodes, ginst, gopen, gpc>>
    PROVE  GInv'
<1>1. GLoadsKept
    BY Zenon DEF GInv, GTypeOK, GLoadsKept, GLoads
<1> QED
    BY <1>1, NodesAlone, QuietStep, Zenon DEF GListKept

GRestated(x, r) == \E s \in GStates, e \in Nat : r = [x EXCEPT !.state = s, !.errors = e]

(* The fields of a node after a change of state and error count.           *)
LEMMA StateEdit ==
    ASSUME NEW x \in GInstance, NEW r, GRestated(x, r)
    PROVE  r \in GInstance /\ r.lib = x.lib /\ r.destroyed = x.destroyed /\ r.badstop = x.badstop
<1>0. PICK s \in GStates, e \in Nat : r = [x EXCEPT !.state = s, !.errors = e]
    BY Zenon DEF GRestated
<1>1. r \in GInstance
    BY <1>0, Zenon DEF GInstance
<1>2. r.lib = x.lib /\ r.destroyed = x.destroyed /\ r.badstop = x.badstop
    BY <1>0, Zenon DEF GInstance
<1> QED
    BY <1>1, <1>2, Zenon

(* The start callback is copied under the lock (start_snapshot).           *)
LEMMA StartTakesSnapshot ==
    ASSUME GInv, NEW t \in GThreads, start_snapshot(t)
    PROVE  GInv'
<1>1. ~GLoads(t) /\ GListKept
    BY Zenon DEF start_snapshot, GAsked, GLoads, GListKept
<1>2. CASE ginst' = ginst /\ \E a : GAnswer(t, a)
    BY <1>1, <1>2, AnswerAside, NodesAlone, QuietStep, Zenon
<1> DEFINE i == GNewestOf(GArgOf(t))
<1>3. CASE /\ find_node(GArgOf(t)) # {}
           /\ ginst' = [ginst EXCEPT ![i].state = "starting"]
           /\ GHold(t, "start", i)
    <2>1. i \in 1..Len(ginst)
        BY <1>3, Found, Zenon
    <2>2. ginst \in Seq(GInstance)
        BY Zenon DEF GInv, GTypeOK
    <2>3. PICK k \in 1..Len(ginst), x \in GInstance : k = i /\ x = ginst[k]
        BY <2>1, <2>2, ElementIn, Zenon
    <2>4. PICK r : r = [x EXCEPT !.state = "starting"]
        BY Zenon
    <2>5. GRestated(x, r)
        <3>1. r = [x EXCEPT !.state = "starting", !.errors = x.errors] /\ x.errors \in Nat
            BY <2>4, Zenon DEF GInstance
        <3>2. "starting" \in GStates
            BY Zenon DEF GStates
        <3> QED
            BY <3>1, <3>2, Zenon DEF GRestated
    <2>6. r \in GInstance /\ r.lib = x.lib /\ r.destroyed = x.destroyed /\ r.badstop = x.badstop
        BY <2>5, StateEdit, Zenon
    <2>7. ginst' = [ginst EXCEPT ![k] = r]
        BY <1>3, <2>3, <2>4, Zenon
    <2>8. GNodesKept
        BY <2>3, <2>6, <2>7, NodeEdited, Zenon
    <2>9. k \in Nat /\ GHold(t, "start", k)
        BY <1>3, <2>3
    <2>10. GLoadsKept
        BY <1>1, <2>9, HoldAside, Zenon
    <2> QED
        BY <1>1, <2>8, <2>10, QuietStep, Zenon
<1> QED
    <2>1. CASE find_node(GArgOf(t)) = {}
        BY <1>2, <2>1, Zenon DEF start_snapshot
    <2>2. CASE find_node(GArgOf(t)) # {} /\ ginst[i].state = "running"
        BY <1>2, <2>2, Zenon DEF start_snapshot
    <2>3. CASE find_node(GArgOf(t)) # {} /\ ginst[i].state = "error"
        BY <1>2, <2>3, Zenon DEF start_snapshot
    <2>4. CASE find_node(GArgOf(t)) # {} /\ ginst[i].state # "running" /\ ginst[i].state # "error"
        BY <1>3, <2>4, Zenon DEF start_snapshot
    <2> QED
        BY <2>1, <2>2, <2>3, <2>4, Zenon

(* The callback has run and the node is looked up again (start_returns).   *)
LEMMA StartReturns ==
    ASSUME GInv, NEW t \in GThreads, start_returns(t)
    PROVE  GInv'
<1>1. ~GLoads(t) /\ GListKept
    BY Zenon DEF start_returns, GLoads, GListKept
<1>2. CASE find_node(GArgOf(t)) = {}
    <2>1. ginst' = ginst /\ GAnswer(t, "not_found")
        BY <1>2, Zenon DEF start_returns
    <2> QED
        BY <1>1, <2>1, AnswerAside, NodesAlone, QuietStep, Zenon
<1>3. CASE find_node(GArgOf(t)) # {}
    <2> DEFINE i == GNewestOf(GArgOf(t))
    <2>1. i \in 1..Len(ginst)
        BY <1>3, Found, Zenon
    <2>2. ginst \in Seq(GInstance)
        BY Zenon DEF GInv, GTypeOK
    <2>3. PICK k \in 1..Len(ginst), x \in GInstance : k = i /\ x = ginst[k]
        BY <2>1, <2>2, ElementIn, Zenon
    <2>4. PICK ok \in BOOLEAN :
             /\ ginst' = [ginst EXCEPT ![k].state = IF ok THEN "running" ELSE "error",
                                       ![k].errors = @ + (IF ok THEN 0 ELSE 1)]
             /\ GAnswer(t, IF ok THEN "started" ELSE "exec_fail")
        BY <1>3, <2>3, Zenon DEF start_returns
    <2>5. PICK s \in GStates, e \in Nat : /\ s = IF ok THEN "running" ELSE "error"
                                         /\ e = x.errors + (IF ok THEN 0 ELSE 1)
        <3>1. x.errors \in Nat
            BY Zenon DEF GInstance
        <3>2. x.errors + (IF ok THEN 0 ELSE 1) \in Nat
            BY <3>1
        <3>3. (IF ok THEN "running" ELSE "error") \in GStates
            BY Zenon DEF GStates
        <3> QED
            BY <3>2, <3>3, Zenon
    <2>6. PICK r : r = [x EXCEPT !.state = s, !.errors = e]
        BY Zenon
    <2>7. ginst' = [ginst EXCEPT ![k] = r]
        BY <2>2, <2>3, <2>4, <2>5, <2>6, Zenon
    <2>8. GRestated(x, r)
        BY <2>5, <2>6, Zenon DEF GRestated
    <2>9. r \in GInstance /\ r.lib = x.lib /\ r.destroyed = x.destroyed /\ r.badstop = x.badstop
        BY <2>8, StateEdit, Zenon
    <2>10. GNodesKept
        BY <2>3, <2>7, <2>9, NodeEdited, Zenon
    <2> QED
        BY <1>1, <2>4, <2>10, AnswerAside, QuietStep, Zenon
<1> QED
    BY <1>2, <1>3, Zenon

(* A running plugin is stopped while its library is open, and its node not *)
(* destroyed (plugin_service_stop).                                        *)
LEMMA Stops ==
    ASSUME GInv, NEW t \in GThreads, plugin_service_stop(t)
    PROVE  GInv'
<1>1. ~GLoads(t) /\ GListKept
    BY Zenon DEF plugin_service_stop, GAsked, GLoads, GListKept
<1>2. PICK a : GAnswer(t, a)
    BY Zenon DEF plugin_service_stop
<1>3. CASE ginst' = ginst
    BY <1>1, <1>2, <1>3, AnswerAside, NodesAlone, QuietStep, Zenon
<1> DEFINE i == GNewestOf(GArgOf(t))
<1>4. CASE /\ find_node(GArgOf(t)) # {}
           /\ ginst' = [ginst EXCEPT ![i].state = "initialized",
                          ![i].badstop = @ \/ ginst[i].destroyed > 0 \/ gopen[ginst[i].lib] = 0]
    <2>1. i \in 1..Len(ginst) /\ i \in Range(gnodes)
        BY <1>4, Found, Zenon
    <2>2. ginst \in Seq(GInstance)
        BY Zenon DEF GInv, GTypeOK
    <2>3. PICK k \in 1..Len(ginst), x \in GInstance : k = i /\ x = ginst[k]
        BY <2>1, <2>2, ElementIn, Zenon
    <2>4. x.destroyed = 0 /\ ~x.badstop
        BY <2>1, <2>3, Counted, Zenon DEF GInv, GNodesSound
    <2>5. gopen[x.lib] # 0
        <3>1. x.lib \in GLibs
            BY Zenon DEF GInstance
        <3>2. k \in GListed(x.lib)
            BY <2>1, <2>3, Zenon DEF GListed
        <3>3. Cardinality(GListed(x.lib)) # 0
            BY <3>2, Counted, FS_EmptySet, Zenon
        <3>4. PICK m \in Nat, n \in Nat : /\ m = Cardinality(GListed(x.lib))
                                          /\ n = Cardinality(GLoading(x.lib))
            BY Counted, Zenon
        <3>5. gopen[x.lib] = m + n
            BY <3>1, <3>4, Zenon DEF GInv, GPaid
        <3> QED
            BY <3>3, <3>4, <3>5
    <2>6. ~(ginst[i].destroyed > 0) /\ ~ginst[i].badstop /\ gopen[ginst[i].lib] # 0
        BY <2>3, <2>4, <2>5
    <2>7. PICK r : r = [x EXCEPT !.state = "initialized",
                          !.badstop = @ \/ x.destroyed > 0 \/ gopen[x.lib] = 0]
        BY Zenon
    <2>8. ginst' = [ginst EXCEPT ![k] = r]
        BY <1>4, <2>2, <2>3, <2>7, Zenon
    <2>9. r \in GInstance
        <3>1. "initialized" \in GStates /\ (x.badstop \/ x.destroyed > 0 \/ gopen[x.lib] = 0) \in BOOLEAN
            BY Zenon DEF GStates
        <3> QED
            BY <2>7, <3>1, Zenon DEF GInstance
    <2>10. r.lib = x.lib /\ r.destroyed = x.destroyed
        BY <2>7, Zenon DEF GInstance
    <2>11. ~r.badstop
        <3>1. r.badstop = (x.badstop \/ x.destroyed > 0 \/ gopen[x.lib] = 0)
            BY <2>7, Zenon DEF GInstance
        <3> QED
            BY <2>3, <2>6, <3>1, Zenon
    <2>12. GNodesKept
        BY <2>3, <2>8, <2>9, <2>10, <2>11, NodeEdited, Zenon
    <2> QED
        BY <1>1, <1>2, <2>12, AnswerAside, QuietStep, Zenon
<1> QED
    BY <1>3, <1>4, Zenon DEF plugin_service_stop

(* The plugin function is looked up under the lock and called after it     *)
(* (plugin_service_execute).                                               *)
LEMMA Executes ==
    ASSUME GInv, NEW t \in GThreads, execute_snapshot(t) \/ execute_calls(t)
    PROVE  GInv'
<1>1. ~GLoads(t) /\ GListKept /\ ginst' = ginst
    BY Zenon DEF execute_snapshot, execute_calls, GAsked, GLoads, GListKept
<1>2. CASE \E a : GAnswer(t, a)
    BY <1>1, <1>2, AnswerAside, NodesAlone, QuietStep, Zenon
<1>3. CASE find_node(GArgOf(t)) # {} /\ GHold(t, "execute", GNewestOf(GArgOf(t)))
    <2>1. GNewestOf(GArgOf(t)) \in 1..Len(ginst)
        BY <1>3, Found, Zenon
    <2>2. GNewestOf(GArgOf(t)) \in Nat
        BY <2>1, Counted
    <2> QED
        BY <1>1, <1>3, <2>2, HoldAside, NodesAlone, QuietStep, Zenon
<1> QED
    BY <1>2, <1>3, Zenon DEF execute_snapshot, execute_calls

(* A node as plugin_service_load makes it.                                 *)
LEMMA FreshNode ==
    ASSUME NEW l \in GLibs, NEW ok \in BOOLEAN
    PROVE  /\ GFresh(l, ok) \in GInstance
           /\ GFresh(l, ok).lib = l /\ GFresh(l, ok).destroyed = 0 /\ ~GFresh(l, ok).badstop
           /\ GFresh(l, ok).errors \in Nat
<1>1. /\ (IF ok THEN "initialized" ELSE "error") \in GStates
      /\ FALSE \in BOOLEAN
    BY Zenon DEF GStates
<1>2. (IF ok THEN 0 ELSE 1) \in Nat /\ 0 \in Nat
    BY Zenon
<1>3. GFresh(l, ok) \in GInstance
    BY <1>1, <1>2, Zenon DEF GFresh, GInstance
<1>4. GFresh(l, ok).lib = l /\ GFresh(l, ok).destroyed = 0 /\ GFresh(l, ok).errors \in Nat
    BY Zenon DEF GFresh
<1>5. ~GFresh(l, ok).badstop
    BY Zenon DEF GFresh
<1> QED
    BY <1>3, <1>4, <1>5, Zenon

(* A library refused is closed again; one accepted is opened and counted   *)
(* with its loader (load_opens).                                           *)
LEMMA LoadOpens ==
    ASSUME GInv, NEW t \in GThreads, load_opens(t)
    PROVE  GInv'
<1>1. /\ ~GLoads(t) /\ gpc[t].at = "free" /\ gjob[t].op = "load"
      /\ gjob' = gjob /\ gnodes' = gnodes /\ ginst' = ginst
    BY Zenon DEF load_opens, GAsked, GLoads
<1>2. CASE gopen' = gopen /\ GAnswer(t, "load_refused")
    BY <1>1, <1>2, AnswerAside, NodesAlone, QuietStep, Zenon DEF GListKept
<1>3. CASE gopen' = [gopen EXCEPT ![GArgOf(t)] = @ + 1] /\ GHold(t, "init", 0)
    <2>1. /\ gjob \in GJobs /\ gnodes \in Seq(1..Len(ginst)) /\ gopen \in [GLibs -> Int]
          /\ ginst \in Seq(GInstance) /\ gpc \in [GThreads -> [at : GPlaces, inst : Nat]]
        BY Zenon DEF GInv, GTypeOK
    <2>2. GArgOf(t) \in GLibs
        BY <1>1, <2>1, PluginAssumption, Zenon DEF GArgOf, GLibs
    <2>3. PICK L \in GLibs, v \in [at : GPlaces, inst : Nat] :
             L = GArgOf(t) /\ v = [at |-> "init", inst |-> 0] /\ v.at = "init"
        <3> DEFINE w == [at |-> "init", inst |-> 0]
        <3>1. "init" \in GPlaces
            BY Zenon DEF GPlaces
        <3>2. 0 \in Nat
            BY Zenon
        <3>3. w \in [at : GPlaces, inst : Nat]
            BY <3>1, <3>2, Zenon
        <3>4. w.at = "init"
            BY Zenon
        <3> QED
            BY <2>2, <3>3, <3>4, Zenon
    <2>4. /\ gpc' \in [GThreads -> [at : GPlaces, inst : Nat]]
          /\ \A u \in GThreads : gpc'[u] = IF u = t THEN v ELSE gpc[u]
        BY <1>3, <2>1, <2>3, Zenon DEF GHold
    <2>5. /\ gopen' \in [GLibs -> Int]
          /\ \A l \in GLibs : gopen'[l] = IF l = L THEN gopen[l] + 1 ELSE gopen[l]
        BY <1>3, <2>1, <2>3
    <2>6. GTypeOK'
        BY <1>1, <2>1, <2>4, <2>5, Zenon DEF GTypeOK
    <2>7. \A u \in GThreads : GLoads(u)' <=> (u = t \/ GLoads(u))
        BY <2>3, <2>4, Zenon DEF GLoads
    <2>8. \A u \in GThreads : gpc'[u].at = "insert" => gpc[u].at = "insert" /\ gpc'[u] = gpc[u]
        BY <2>3, <2>4, Zenon
    <2>9. GHolders'
        <3>1. \A u \in GThreads : GLoads(u)' => gjob'[u].op = "load"
            BY <1>1, <2>7, Zenon DEF GInv, GHolders
        <3>2. ASSUME NEW u \in GThreads, gpc'[u].at = "insert"
              PROVE  /\ gpc'[u].inst \in DOMAIN ginst' \ Range(gnodes')
                     /\ ginst'[gpc'[u].inst].lib = GArgOf(u)'
                     /\ ginst'[gpc'[u].inst].destroyed = 0
            BY <1>1, <2>8, <3>2, Zenon DEF GInv, GHolders, GArgOf
        <3>3. GNotShared'
            BY <2>8, NoneShared, Zenon
        <3> QED
            BY <3>1, <3>2, <3>3, Zenon DEF GHolders
    <2>10. GLinkedOnce' /\ GNodesSound'
        BY <1>1, Zenon DEF GInv, GLinkedOnce, GNodesSound
    <2>11. GPaid'
        <3> SUFFICES ASSUME NEW l \in GLibs
                     PROVE  gopen'[l] = Cardinality(GListed(l)') + Cardinality(GLoading(l)')
            BY Zenon DEF GPaid
        <3>1. GListed(l)' = GListed(l)
            BY <1>1, Zenon DEF GListed
        <3>2. PICK m \in Nat, n \in Nat : m = Cardinality(GListed(l)) /\ n = Cardinality(GLoading(l))
            BY Counted, Zenon
        <3>3. gopen[l] = m + n
            BY <3>2, Zenon DEF GInv, GPaid
        <3>4. CASE l = L
            <4>1. GLoading(l)' = GLoading(l) \cup {t} /\ t \notin GLoading(l)
                BY <1>1, <2>3, <2>7, <3>4, Zenon DEF GLoading, GArgOf
            <4>2. Cardinality(GLoading(l)') = n + 1
                BY <3>2, <4>1, Counted, CardUp, Zenon
            <4> QED
                BY <2>5, <3>1, <3>2, <3>3, <3>4, <4>2
        <3>5. CASE l # L
            <4>1. GLoading(l)' = GLoading(l)
                BY <1>1, <2>3, <2>7, <3>5, Zenon DEF GLoading, GArgOf
            <4> QED
                BY <2>5, <3>1, <3>2, <3>3, <3>5, <4>1, Zenon
        <3> QED
            BY <3>4, <3>5, Zenon
    <2> QED
        BY <2>6, <2>9, <2>10, <2>11, Zenon DEF GInv
<1> QED
    BY <1>2, <1>3, Zenon DEF load_opens

(* plugin_init has run: the loader has a node of its own (load_inits).     *)
LEMMA LoadInits ==
    ASSUME GInv, NEW t \in GThreads, load_inits(t)
    PROVE  GInv'
<1>1. /\ gpc[t].at = "init" /\ GLoads(t) /\ gjob[t].op = "load"
      /\ gjob' = gjob /\ gnodes' = gnodes /\ gopen' = gopen
    <2>1. /\ gpc[t].at = "init"
          /\ gjob' = gjob /\ gnodes' = gnodes /\ gopen' = gopen
        BY Zenon DEF load_inits
    <2>2. GLoads(t)
        BY <2>1, Zenon DEF GLoads
    <2> QED
        BY <2>1, <2>2, Zenon DEF GInv, GHolders
<1>2. /\ gjob \in GJobs /\ gnodes \in Seq(1..Len(ginst)) /\ gopen \in [GLibs -> Int]
      /\ ginst \in Seq(GInstance) /\ gpc \in [GThreads -> [at : GPlaces, inst : Nat]]
    BY Zenon DEF GInv, GTypeOK
<1>3. PICK L \in GLibs : L = GArgOf(t)
    BY <1>1, <1>2, PluginAssumption, Zenon DEF GArgOf, GLibs
<1>4. PICK x \in GInstance : ginst' = Append(ginst, x) /\ x.lib = L /\ x.destroyed = 0 /\ ~x.badstop
    <2>1. PICK ok \in BOOLEAN : ginst' = Append(ginst, GFresh(L, ok))
        BY <1>3, Zenon DEF load_inits
    <2> QED
        BY <2>1, FreshNode, Zenon
<1>5. PICK N \in Nat : N = Len(ginst)
    BY Counted, Zenon
<1>6. /\ ginst' \in Seq(GInstance) /\ Len(ginst') = N + 1 /\ ginst'[N + 1] = x
      /\ \A j \in 1..N : ginst'[j] = ginst[j]
    <2>1. PICK q, r : q \in Seq(GInstance) /\ q = ginst /\ r = ginst' /\ r = Append(q, x)
        BY <1>2, <1>4, Zenon
    <2>2. /\ r \in Seq(GInstance) /\ Len(r) = Len(q) + 1 /\ r[Len(q) + 1] = x
          /\ \A j \in 1..Len(q) : r[j] = q[j]
        BY <2>1, AppendFacts
    <2> QED
        BY <1>5, <2>1, <2>2, Zenon
<1>7. /\ Range(gnodes) \subseteq 1..N /\ DOMAIN ginst = 1..N /\ DOMAIN ginst' = 1..(N + 1)
      /\ N + 1 \in 1..(N + 1) /\ N + 1 \notin 1..N /\ 1..N \subseteq 1..(N + 1)
    <2>1. Range(gnodes) \subseteq 1..N /\ DOMAIN ginst = 1..N
        BY <1>5, Counted, Zenon
    <2>2. DOMAIN ginst' = 1..(N + 1)
        BY <1>6
    <2>3. N + 1 \in 1..(N + 1) /\ N + 1 \notin 1..N /\ 1..N \subseteq 1..(N + 1)
        OBVIOUS
    <2> QED
        BY <2>1, <2>2, <2>3, Zenon
<1>8. PICK v \in [at : GPlaces, inst : Nat] :
         v = [at |-> "insert", inst |-> N + 1] /\ v.at = "insert" /\ v.inst = N + 1
    <2> DEFINE w == [at |-> "insert", inst |-> N + 1]
    <2>1. "insert" \in GPlaces
        BY Zenon DEF GPlaces
    <2>2. N + 1 \in Nat
        OBVIOUS
    <2>3. w \in [at : GPlaces, inst : Nat]
        BY <2>1, <2>2, Zenon
    <2>4. w.at = "insert" /\ w.inst = N + 1
        BY Zenon
    <2> QED
        BY <2>3, <2>4, Zenon
<1>9. /\ gpc' \in [GThreads -> [at : GPlaces, inst : Nat]]
      /\ \A u \in GThreads : gpc'[u] = IF u = t THEN v ELSE gpc[u]
    BY <1>2, <1>5, <1>8, Zenon DEF load_inits, GHold
<1>10. GTypeOK'
    <2>1. gnodes \in Seq(1..(N + 1))
        BY <1>2, <1>5
    <2> QED
        BY <1>1, <1>2, <1>6, <1>9, <2>1, Zenon DEF GTypeOK
<1>11. \A u \in GThreads : GLoads(u)' <=> GLoads(u)
    <2>1. v.at \in {"init", "insert"}
        BY <1>8, Zenon
    <2> QED
        BY <1>1, <1>9, <2>1, Zenon DEF GLoads
<1>12. GLinkedOnce'
    BY <1>1, Zenon DEF GInv, GLinkedOnce
<1>13. GNodesSound'
    <2>1. ASSUME NEW i \in DOMAIN ginst' PROVE ginst'[i].destroyed <= 1 /\ ~ginst'[i].badstop
        <3>1. CASE i \in 1..N
            BY <1>6, <1>7, <3>1, Zenon DEF GInv, GNodesSound
        <3>2. CASE i = N + 1
            <4>1. 0 <= 1
                OBVIOUS
            <4> QED
                BY <1>4, <1>6, <3>2, <4>1, Zenon
        <3> QED
            BY <1>7, <3>1, <3>2
    <2>2. \A i \in Range(gnodes)' : ginst'[i].destroyed = 0
        BY <1>1, <1>6, <1>7, Zenon DEF GInv, GNodesSound
    <2> QED
        BY <2>1, <2>2, Zenon DEF GNodesSound
<1>14. GHolders'
    <2>1. \A u \in GThreads : GLoads(u)' => gjob'[u].op = "load"
        BY <1>1, <1>11, Zenon DEF GInv, GHolders
    <2>2. ASSUME NEW u \in GThreads, gpc'[u].at = "insert", u # t
          PROVE  /\ gpc[u].at = "insert" /\ gpc'[u].inst = gpc[u].inst /\ gpc[u].inst \in 1..N
                 /\ gpc[u].inst \notin Range(gnodes)
                 /\ ginst[gpc[u].inst].lib = GArgOf(u) /\ ginst[gpc[u].inst].destroyed = 0
        BY <1>7, <1>9, <2>2, Zenon DEF GInv, GHolders
    <2>3. ASSUME NEW u \in GThreads, gpc'[u].at = "insert"
          PROVE  /\ gpc'[u].inst \in DOMAIN ginst' \ Range(gnodes')
                 /\ ginst'[gpc'[u].inst].lib = GArgOf(u)'
                 /\ ginst'[gpc'[u].inst].destroyed = 0
        <3>1. CASE u = t
            <4>1. gpc'[u].inst = N + 1 /\ GArgOf(u)' = L
                BY <1>1, <1>3, <1>8, <1>9, <3>1, Zenon DEF GArgOf
            <4>2. N + 1 \in DOMAIN ginst' /\ N + 1 \notin Range(gnodes')
                BY <1>1, <1>7, Zenon
            <4>3. ginst'[N + 1].lib = L /\ ginst'[N + 1].destroyed = 0
                BY <1>4, <1>6, Zenon
            <4> QED
                BY <4>1, <4>2, <4>3, Zenon
        <3>2. CASE u # t
            <4>1. /\ gpc'[u].inst = gpc[u].inst /\ gpc[u].inst \in 1..N
                  /\ gpc[u].inst \notin Range(gnodes)
                  /\ ginst[gpc[u].inst].lib = GArgOf(u) /\ ginst[gpc[u].inst].destroyed = 0
                BY <2>2, <2>3, <3>2, Zenon
            <4>2. PICK i \in 1..N : i = gpc'[u].inst /\ i = gpc[u].inst /\ i \in 1..(N + 1)
                BY <1>7, <4>1, Zenon
            <4>3. ginst'[i] = ginst[i] /\ GArgOf(u)' = GArgOf(u)
                BY <1>1, <1>6, <4>2, Zenon DEF GArgOf
            <4> QED
                BY <1>1, <1>7, <4>1, <4>2, <4>3, Zenon
        <3> QED
            BY <3>1, <3>2, Zenon
    <2>4. ASSUME NEW a \in GThreads, NEW b \in GThreads,
                 gpc'[a].at = "insert", gpc'[b].at = "insert", gpc'[a].inst = gpc'[b].inst
          PROVE  a = b
        <3>1. CASE a # t /\ b # t
            <4>1. /\ gpc[a].at = "insert" /\ gpc[b].at = "insert"
                  /\ gpc'[a].inst = gpc[a].inst /\ gpc'[b].inst = gpc[b].inst
                BY <2>2, <2>4, <3>1, Zenon
            <4>2. gpc[a].inst = gpc[b].inst
                BY <2>4, <4>1, Zenon
            <4>3. GNotShared
                BY Zenon DEF GInv, GHolders
            <4> QED
                BY <4>1, <4>2, <4>3, Zenon DEF GNotShared
        <3>2. CASE a = t /\ b # t
            <4>1. gpc'[a].inst = N + 1
                BY <1>8, <1>9, <3>2, Zenon
            <4>2. gpc'[b].inst \in 1..N
                BY <2>2, <2>4, <3>2, Zenon
            <4> QED
                BY <1>7, <2>4, <4>1, <4>2, Zenon
        <3>3. CASE a # t /\ b = t
            <4>1. gpc'[b].inst = N + 1
                BY <1>8, <1>9, <3>3, Zenon
            <4>2. gpc'[a].inst \in 1..N
                BY <2>2, <2>4, <3>3, Zenon
            <4> QED
                BY <1>7, <2>4, <4>1, <4>2, Zenon
        <3> QED
            BY <3>1, <3>2, <3>3, Zenon
    <2> QED
        BY <2>1, <2>3, <2>4, Zenon DEF GHolders, GNotShared
<1>15. GPaid'
    <2>1. \A l : GListed(l)' = GListed(l)
        BY <1>1, <1>6, <1>7, Zenon DEF GListed
    <2>2. \A l : GLoading(l)' = GLoading(l)
        BY <1>1, <1>11, Zenon DEF GLoading, GArgOf
    <2> QED
        BY <1>1, <2>1, <2>2, Zenon DEF GInv, GPaid
<1> QED
    BY <1>10, <1>12, <1>13, <1>14, <1>15, Zenon DEF GInv

(* The node is linked and its loader gone (load_inserts).                  *)
LEMMA LoadInserts ==
    ASSUME GInv, NEW t \in GThreads, load_inserts(t)
    PROVE  GInv'
<1>1. /\ gpc[t].at = "insert" /\ GLoads(t)
      /\ gjob' = gjob /\ ginst' = ginst /\ gopen' = gopen
    <2>1. /\ gpc[t].at = "insert"
          /\ gjob' = gjob /\ ginst' = ginst /\ gopen' = gopen
        BY Zenon DEF load_inserts
    <2> QED
        BY <2>1, Zenon DEF GLoads
<1>2. /\ gjob \in GJobs /\ gnodes \in Seq(1..Len(ginst)) /\ gopen \in [GLibs -> Int]
      /\ ginst \in Seq(GInstance) /\ gpc \in [GThreads -> [at : GPlaces, inst : Nat]]
    BY Zenon DEF GInv, GTypeOK
<1>3. /\ DOMAIN ginst = 1..Len(ginst) /\ NoRepeat(gnodes)
      /\ Range(gnodes) \subseteq 1..Len(ginst)
    BY Counted, Zenon
<1>4. PICK x \in 1..Len(ginst) :
         /\ x = gpc[t].inst /\ x \notin Range(gnodes)
         /\ ginst[x].lib = GArgOf(t) /\ ginst[x].destroyed = 0
    BY <1>1, <1>3, Zenon DEF GInv, GHolders
<1>5. gnodes' = <<x>> \o gnodes
    BY <1>4, Zenon DEF load_inserts
<1>6. /\ gnodes' \in Seq(1..Len(ginst)) /\ NoRepeat(gnodes') /\ Range(gnodes') = Range(gnodes) \cup {x}
    <2>0. PICK S : S = 1..Len(ginst)
        BY Zenon
    <2>1. PICK q \in Seq(S) : q = gnodes
        BY <1>2, <2>0, Zenon
    <2>2. NoRepeat(q) /\ x \in S /\ x \notin Range(q)
        BY <1>3, <1>4, <2>0, <2>1, Zenon
    <2>3. /\ <<x>> \o q \in Seq(S) /\ NoRepeat(<<x>> \o q)
          /\ Range(<<x>> \o q) = Range(q) \cup {x}
        BY <2>2, PushFacts
    <2> QED
        BY <1>5, <2>0, <2>1, <2>3, Zenon
<1>7. GFree \in [at : GPlaces, inst : Nat] /\ GFree.at = "free"
    BY FreeThread, Zenon
<1>8. /\ gpc' \in [GThreads -> [at : GPlaces, inst : Nat]]
      /\ \A u \in GThreads : gpc'[u] = IF u = t THEN GFree ELSE gpc[u]
    BY <1>2, <1>7, Zenon DEF load_inserts, GAnswer
<1>9. GTypeOK'
    BY <1>1, <1>2, <1>6, <1>8, Zenon DEF GTypeOK
<1>10. /\ \A u \in GThreads : GLoads(u)' <=> u # t /\ GLoads(u)
       /\ \A u \in GThreads : gpc'[u].at = "insert" => u # t /\ gpc'[u] = gpc[u]
    <2>1. "free" \notin {"init", "insert"} /\ "free" # "insert"
        BY Zenon
    <2> QED
        BY <1>7, <1>8, <2>1, Zenon DEF GLoads
<1>11. GLinkedOnce'
    <2>1. DOMAIN gnodes' = 1..Len(gnodes')
        BY <1>6
    <2> QED
        BY <1>6, <2>1, Zenon DEF GLinkedOnce, NoRepeat
<1>12. GNodesSound'
    BY <1>1, <1>4, <1>6, Zenon DEF GInv, GNodesSound
<1>13. GHolders'
    <2>1. \A u \in GThreads : GLoads(u)' => gjob'[u].op = "load"
        BY <1>1, <1>10, Zenon DEF GInv, GHolders
    <2>2. ASSUME NEW u \in GThreads, gpc'[u].at = "insert"
          PROVE  /\ gpc'[u].inst \in DOMAIN ginst' \ Range(gnodes')
                 /\ ginst'[gpc'[u].inst].lib = GArgOf(u)'
                 /\ ginst'[gpc'[u].inst].destroyed = 0
        <3>1. u # t /\ gpc'[u] = gpc[u] /\ gpc[u].at = "insert"
            BY <1>10, <2>2, Zenon
        <3>2. /\ gpc[u].inst \in DOMAIN ginst /\ gpc[u].inst \notin Range(gnodes)
              /\ ginst[gpc[u].inst].lib = GArgOf(u) /\ ginst[gpc[u].inst].destroyed = 0
            BY <3>1, Zenon DEF GInv, GHolders
        <3>3. gpc[u].inst # x
            BY <1>1, <1>4, <3>1, Zenon DEF GInv, GHolders, GNotShared
        <3> QED
            BY <1>1, <1>6, <3>1, <3>2, <3>3, Zenon DEF GArgOf
    <2>3. GNotShared'
        BY <1>10, Zenon DEF GInv, GHolders, GNotShared
    <2> QED
        BY <2>1, <2>2, <2>3, Zenon DEF GHolders
<1>14. GPaid'
    <2> SUFFICES ASSUME NEW l \in GLibs
                 PROVE  gopen'[l] = Cardinality(GListed(l)') + Cardinality(GLoading(l)')
        BY Zenon DEF GPaid
    <2>1. PICK m \in Nat, n \in Nat : m = Cardinality(GListed(l)) /\ n = Cardinality(GLoading(l))
        BY Counted, Zenon
    <2>2. gopen[l] = m + n
        BY <2>1, Zenon DEF GInv, GPaid
    <2>3. CASE l = GArgOf(t)
        <3>1. GListed(l)' = GListed(l) \cup {x} /\ x \notin GListed(l)
            BY <1>1, <1>4, <1>6, <2>3, Zenon DEF GListed
        <3>2. GLoading(l)' = GLoading(l) \ {t} /\ t \in GLoading(l)
            BY <1>1, <1>10, <2>3, Zenon DEF GLoading, GArgOf
        <3>3. Cardinality(GListed(l)') = m + 1
            BY <2>1, <3>1, Counted, CardUp, Zenon
        <3>4. Cardinality(GLoading(l)') = n - 1
            BY <2>1, <3>2, Counted, CardDown, Zenon
        <3> QED
            BY <1>1, <2>2, <3>3, <3>4
    <2>4. CASE l # GArgOf(t)
        <3>1. GListed(l)' = GListed(l)
            BY <1>1, <1>4, <1>6, <2>4, Zenon DEF GListed
        <3>2. GLoading(l)' = GLoading(l)
            BY <1>1, <1>10, <2>4, Zenon DEF GLoading, GArgOf
        <3> QED
            BY <1>1, <2>1, <2>2, <3>1, <3>2, Zenon
    <2> QED
        BY <2>3, <2>4, Zenon
<1> QED
    BY <1>9, <1>11, <1>12, <1>13, <1>14, Zenon DEF GInv

(* The newest node of the name is destroyed, unlinked and its library      *)
(* closed, in one hold of the lock (plugin_service_unload).                *)
LEMMA Unloads ==
    ASSUME GInv, NEW t \in GThreads, plugin_service_unload(t)
    PROVE  GInv'
<1>1. /\ ~GLoads(t) /\ gjob' = gjob /\ \E a : GAnswer(t, a)
    <2>1. ~GLoads(t) /\ gjob' = gjob
        BY Zenon DEF plugin_service_unload, GAsked, GLoads
    <2> QED
        BY <2>1, Zenon DEF plugin_service_unload
<1>2. GLoadsKept
    BY <1>1, AnswerAside, Zenon
<1>3. CASE find_node(GArgOf(t)) = {}
    <2>1. gnodes' = gnodes /\ ginst' = ginst /\ gopen' = gopen
        BY <1>3, Zenon DEF plugin_service_unload
    <2> QED
        BY <1>1, <1>2, <2>1, NodesAlone, QuietStep, Zenon DEF GListKept
<1>4. CASE find_node(GArgOf(t)) # {}
    <2>1. /\ gjob \in GJobs /\ gnodes \in Seq(1..Len(ginst)) /\ gopen \in [GLibs -> Int]
          /\ ginst \in Seq(GInstance) /\ gpc \in [GThreads -> [at : GPlaces, inst : Nat]]
        BY Zenon DEF GInv, GTypeOK
    <2>2. /\ DOMAIN ginst = 1..Len(ginst) /\ NoRepeat(gnodes)
          /\ Range(gnodes) \subseteq 1..Len(ginst)
        BY Counted, Zenon
    <2>3. PICK k \in 1..Len(gnodes), i \in 1..Len(ginst) :
             k = GNewestAt(GArgOf(t)) /\ i = gnodes[k] /\ i = GNewestOf(GArgOf(t)) /\ i \in Range(gnodes)
        BY <1>4, Found, Zenon DEF GNewestOf
    <2>4. PICK x \in GInstance : x = ginst[i]
        BY <2>1, <2>3, ElementIn, Zenon
    <2>5. /\ gnodes' = DropAt(gnodes, k)
          /\ ginst' = [ginst EXCEPT ![i].destroyed = @ + 1, ![i].state = "unloaded"]
          /\ gopen' = [gopen EXCEPT ![ginst[i].lib] = @ - 1]
        BY <1>4, <2>3, Zenon DEF plugin_service_unload
    <2>6. /\ gnodes' \in Seq(1..Len(ginst)) /\ NoRepeat(gnodes') /\ Range(gnodes') = Range(gnodes) \ {i}
        <3>0. PICK S : S = 1..Len(ginst)
            BY Zenon
        <3>1. PICK q \in Seq(S) : q = gnodes
            BY <2>1, <3>0, Zenon
        <3>2. NoRepeat(q) /\ k \in 1..Len(q)
            BY <2>2, <2>3, <3>1, Zenon
        <3>3. /\ DropAt(q, k) \in Seq(S) /\ NoRepeat(DropAt(q, k))
              /\ Range(DropAt(q, k)) = Range(q) \ {q[k]}
            BY <3>2, DropFacts, Zenon
        <3> QED
            BY <2>3, <2>5, <3>0, <3>1, <3>3, Zenon
    <2>7. x.destroyed = 0 /\ ~x.badstop
        BY <2>2, <2>3, <2>4, Zenon DEF GInv, GNodesSound
    <2>8. PICK r : r = [x EXCEPT !.destroyed = @ + 1, !.state = "unloaded"]
        BY Zenon
    <2>9. ginst' = [ginst EXCEPT ![i] = r]
        BY <2>1, <2>4, <2>5, <2>8, Zenon
    <2>10. r \in GInstance /\ r.lib = x.lib /\ r.destroyed = 1 /\ ~r.badstop
        <3>1. "unloaded" \in GStates
            BY Zenon DEF GStates
        <3>2. x.destroyed + 1 \in Nat /\ x.destroyed + 1 = 1
            BY <2>7
        <3>3. r \in GInstance
            BY <2>8, <3>1, <3>2, Zenon DEF GInstance
        <3>4. r.lib = x.lib /\ r.destroyed = x.destroyed + 1
            BY <2>8, Zenon DEF GInstance
        <3>5. r.badstop = x.badstop
            BY <2>8, Zenon DEF GInstance
        <3> QED
            BY <2>7, <3>2, <3>3, <3>4, <3>5, Zenon
    <2>11. /\ ginst' \in Seq(GInstance) /\ Len(ginst') = Len(ginst)
           /\ \A j \in 1..Len(ginst) : ginst'[j] = IF j = i THEN r ELSE ginst[j]
        <3>1. PICK q, p : q \in Seq(GInstance) /\ q = ginst /\ p = ginst' /\ p = [q EXCEPT ![i] = r]
            BY <2>1, <2>9, Zenon
        <3>2. i \in 1..Len(q)
            BY <3>1, Zenon
        <3>3. /\ p \in Seq(GInstance) /\ Len(p) = Len(q)
              /\ \A j \in 1..Len(q) : p[j] = IF j = i THEN r ELSE q[j]
            BY <2>10, <3>1, <3>2, EditFacts
        <3> QED
            BY <3>1, <3>3, Zenon
    <2>12. PICK L \in GLibs : L = x.lib
        BY Zenon DEF GInstance
    <2>13. /\ gopen' \in [GLibs -> Int]
           /\ \A l \in GLibs : gopen'[l] = IF l = L THEN gopen[l] - 1 ELSE gopen[l]
        BY <2>1, <2>4, <2>5, <2>12
    <2>14. GTypeOK'
        BY <1>1, <1>2, <2>1, <2>6, <2>11, <2>13, Zenon DEF GTypeOK, GLoadsKept
    <2>15. DOMAIN ginst' = 1..Len(ginst) /\ DOMAIN gnodes' = 1..Len(gnodes')
        BY <2>6, <2>11
    <2>16. GLinkedOnce'
        BY <2>6, <2>15, Zenon DEF GLinkedOnce, NoRepeat
    <2>17. \A j \in 1..Len(ginst) : ginst'[j].lib = ginst[j].lib
        BY <2>4, <2>10, <2>11, Zenon
    <2>18. GNodesSound'
        <3>1. 1 <= 1
            OBVIOUS
        <3>2. \A j \in DOMAIN ginst' : ginst'[j].destroyed <= 1 /\ ~ginst'[j].badstop
            BY <2>2, <2>10, <2>11, <2>15, <3>1, Zenon DEF GInv, GNodesSound
        <3>3. \A j \in Range(gnodes') : ginst'[j].destroyed = 0
            BY <2>2, <2>6, <2>11, Zenon DEF GInv, GNodesSound
        <3> QED
            BY <3>2, <3>3, Zenon DEF GNodesSound
    <2>19. GHolders'
        <3>1. \A u \in GThreads : GLoads(u)' => gjob'[u].op = "load"
            BY <1>1, <1>2, Zenon DEF GInv, GHolders, GLoadsKept
        <3>2. \A u \in GThreads : gpc'[u].at = "insert" => gpc[u].at = "insert" /\ gpc'[u] = gpc[u]
            BY <1>2, Zenon DEF GLoadsKept, GLoads
        <3>3. ASSUME NEW u \in GThreads, gpc'[u].at = "insert"
              PROVE  /\ gpc'[u].inst \in DOMAIN ginst' \ Range(gnodes')
                     /\ ginst'[gpc'[u].inst].lib = GArgOf(u)'
                     /\ ginst'[gpc'[u].inst].destroyed = 0
            <4>1. PICK j \in 1..Len(ginst) :
                     /\ j = gpc[u].inst /\ j = gpc'[u].inst /\ j \notin Range(gnodes)
                     /\ ginst[j].lib = GArgOf(u) /\ ginst[j].destroyed = 0
                BY <2>2, <3>2, <3>3, Zenon DEF GInv, GHolders
            <4>2. j # i /\ GArgOf(u)' = GArgOf(u)
                BY <1>1, <2>3, <4>1, Zenon DEF GArgOf
            <4>3. ginst'[j] = ginst[j]
                BY <2>11, <4>2, Zenon
            <4> QED
                BY <2>6, <2>15, <4>1, <4>2, <4>3, Zenon
        <3>4. GNotShared'
            BY <3>2, NoneShared, Zenon
        <3> QED
            BY <3>1, <3>3, <3>4, Zenon DEF GHolders
    <2>20. GPaid'
        <3> SUFFICES ASSUME NEW l \in GLibs
                     PROVE  gopen'[l] = Cardinality(GListed(l)') + Cardinality(GLoading(l)')
            BY Zenon DEF GPaid
        <3>1. PICK m \in Nat, n \in Nat : m = Cardinality(GListed(l)) /\ n = Cardinality(GLoading(l))
            BY Counted, Zenon
        <3>2. gopen[l] = m + n
            BY <3>1, Zenon DEF GInv, GPaid
        <3>3. GLoading(l)' = GLoading(l)
            BY <1>1, <1>2, Zenon DEF GLoading, GLoadsKept, GArgOf
        <3>4. CASE l = L
            <4>1. GListed(l)' = GListed(l) \ {i} /\ i \in GListed(l)
                BY <2>2, <2>3, <2>4, <2>6, <2>12, <2>17, <3>4, Zenon DEF GListed
            <4>2. Cardinality(GListed(l)') = m - 1
                BY <3>1, <4>1, Counted, CardDown, Zenon
            <4> QED
                BY <2>13, <3>1, <3>2, <3>3, <3>4, <4>2
        <3>5. CASE l # L
            <4>1. GListed(l)' = GListed(l)
                BY <2>2, <2>4, <2>6, <2>12, <2>17, <3>5, Zenon DEF GListed
            <4> QED
                BY <2>13, <3>1, <3>2, <3>3, <3>5, <4>1, Zenon
        <3> QED
            BY <3>4, <3>5, Zenon
    <2> QED
        BY <2>14, <2>16, <2>18, <2>19, <2>20, Zenon DEF GInv
<1> QED
    BY <1>3, <1>4, Zenon

(* A library loaded by the loop of plugin_rpc_init is opened, and its node *)
(* linked, in one step: no other thread runs (prpc_scan_load).             *)
LEMMA ScanLoads ==
    ASSUME GInv, prpc_scan_load
    PROVE  GInv'
<1>1. gjob' = gjob /\ gpc' = gpc
    BY Zenon DEF prpc_scan_load
<1>2. CASE gnodes' = gnodes /\ ginst' = ginst /\ gopen' = gopen
    BY <1>1, <1>2, TablesAlone, Zenon
<1>3. CASE \E L \in GLibs, new \in GInstance, x \in GInstance :
              /\ x = new \/ GRestated(new, x)
              /\ new.lib = L /\ new.destroyed = 0 /\ ~new.badstop
              /\ gnodes' = <<Len(ginst) + 1>> \o gnodes
              /\ gopen' = [gopen EXCEPT ![L] = @ + 1]
              /\ ginst' = Append(ginst, x)
    <2>1. PICK L \in GLibs, x \in GInstance :
              /\ x.lib = L /\ x.destroyed = 0 /\ ~x.badstop
              /\ gnodes' = <<Len(ginst) + 1>> \o gnodes
              /\ gopen' = [gopen EXCEPT ![L] = @ + 1]
              /\ ginst' = Append(ginst, x)
        BY <1>3, StateEdit, Zenon
    <2>2. /\ gjob \in GJobs /\ gnodes \in Seq(1..Len(ginst)) /\ gopen \in [GLibs -> Int]
          /\ ginst \in Seq(GInstance) /\ gpc \in [GThreads -> [at : GPlaces, inst : Nat]]
        BY Zenon DEF GInv, GTypeOK
    <2>3. PICK N \in Nat : N = Len(ginst)
        BY Counted, Zenon
    <2>4. /\ ginst' \in Seq(GInstance) /\ Len(ginst') = N + 1 /\ ginst'[N + 1] = x
          /\ \A j \in 1..N : ginst'[j] = ginst[j]
        <3>1. PICK q, r : q \in Seq(GInstance) /\ q = ginst /\ r = ginst' /\ r = Append(q, x)
            BY <2>1, <2>2, Zenon
        <3>2. /\ r \in Seq(GInstance) /\ Len(r) = Len(q) + 1 /\ r[Len(q) + 1] = x
              /\ \A j \in 1..Len(q) : r[j] = q[j]
            BY <3>1, AppendFacts
        <3> QED
            BY <2>3, <3>1, <3>2, Zenon
    <2>5. /\ Range(gnodes) \subseteq 1..N /\ DOMAIN ginst = 1..N /\ DOMAIN ginst' = 1..(N + 1)
          /\ N + 1 \in 1..(N + 1) /\ N + 1 \notin 1..N /\ 1..N \subseteq 1..(N + 1)
        <3>1. Range(gnodes) \subseteq 1..N /\ DOMAIN ginst = 1..N
            BY <2>3, Counted, Zenon
        <3>2. DOMAIN ginst' = 1..(N + 1)
            BY <2>4
        <3>3. N + 1 \in 1..(N + 1) /\ N + 1 \notin 1..N /\ 1..N \subseteq 1..(N + 1)
            OBVIOUS
        <3> QED
            BY <3>1, <3>2, <3>3, Zenon
    <2>6. /\ gnodes' \in Seq(1..(N + 1)) /\ NoRepeat(gnodes')
          /\ Range(gnodes') = Range(gnodes) \cup {N + 1}
        <3>1. gnodes \in Seq(1..(N + 1))
            BY <2>2, <2>3
        <3>0. PICK S : S = 1..(N + 1)
            BY Zenon
        <3>2. PICK q \in Seq(S), y \in S : q = gnodes /\ y = N + 1
            BY <2>5, <3>0, <3>1, Zenon
        <3>3. NoRepeat(q) /\ y \notin Range(q)
            BY <2>5, <3>2, Counted, Zenon
        <3>4. /\ <<y>> \o q \in Seq(S) /\ NoRepeat(<<y>> \o q)
              /\ Range(<<y>> \o q) = Range(q) \cup {y}
            BY <3>3, PushFacts
        <3> QED
            BY <2>1, <2>3, <3>0, <3>2, <3>4, Zenon
    <2>7. /\ gopen' \in [GLibs -> Int]
          /\ \A l \in GLibs : gopen'[l] = IF l = L THEN gopen[l] + 1 ELSE gopen[l]
        BY <2>1, <2>2
    <2>8. GTypeOK'
        BY <1>1, <2>2, <2>4, <2>6, <2>7, Zenon DEF GTypeOK
    <2>9. GLinkedOnce'
        <3>1. DOMAIN gnodes' = 1..Len(gnodes')
            BY <2>6
        <3> QED
            BY <2>6, <3>1, Zenon DEF GLinkedOnce, NoRepeat
    <2>10. GNodesSound'
        <3>1. ASSUME NEW i \in DOMAIN ginst' PROVE ginst'[i].destroyed <= 1 /\ ~ginst'[i].badstop
            <4>1. CASE i \in 1..N
                BY <2>4, <2>5, <4>1, Zenon DEF GInv, GNodesSound
            <4>2. CASE i = N + 1
                <5>1. 0 <= 1
                    OBVIOUS
                <5> QED
                    BY <2>1, <2>4, <4>2, <5>1, Zenon
            <4> QED
                BY <2>5, <4>1, <4>2
        <3>2. \A i \in Range(gnodes') : ginst'[i].destroyed = 0
            BY <2>1, <2>4, <2>5, <2>6, Zenon DEF GInv, GNodesSound
        <3> QED
            BY <3>1, <3>2, Zenon DEF GNodesSound
    <2>11. GHolders'
        <3>1. \A u \in GThreads : GLoads(u)' => gjob'[u].op = "load"
            BY <1>1, Zenon DEF GInv, GHolders, GLoads
        <3>2. ASSUME NEW u \in GThreads, gpc'[u].at = "insert"
              PROVE  /\ gpc'[u].inst \in DOMAIN ginst' \ Range(gnodes')
                     /\ ginst'[gpc'[u].inst].lib = GArgOf(u)'
                     /\ ginst'[gpc'[u].inst].destroyed = 0
            <4>1. PICK j \in 1..N :
                     /\ j = gpc[u].inst /\ j = gpc'[u].inst /\ j \notin Range(gnodes)
                     /\ ginst[j].lib = GArgOf(u) /\ ginst[j].destroyed = 0
                BY <1>1, <2>5, <3>2, Zenon DEF GInv, GHolders
            <4>2. j # N + 1 /\ j \in 1..(N + 1) /\ GArgOf(u)' = GArgOf(u)
                BY <1>1, <2>5, Zenon DEF GArgOf
            <4>3. ginst'[j] = ginst[j]
                BY <2>4, Zenon
            <4> QED
                BY <2>5, <2>6, <4>1, <4>2, <4>3, Zenon
        <3>3. GNotShared'
            BY <1>1, Zenon DEF GInv, GHolders, GNotShared
        <3> QED
            BY <3>1, <3>2, <3>3, Zenon DEF GHolders
    <2>12. GPaid'
        <3> SUFFICES ASSUME NEW l \in GLibs
                     PROVE  gopen'[l] = Cardinality(GListed(l)') + Cardinality(GLoading(l)')
            BY Zenon DEF GPaid
        <3>1. PICK m \in Nat, n \in Nat : m = Cardinality(GListed(l)) /\ n = Cardinality(GLoading(l))
            BY Counted, Zenon
        <3>2. gopen[l] = m + n
            BY <3>1, Zenon DEF GInv, GPaid
        <3>3. GLoading(l)' = GLoading(l)
            BY <1>1, Zenon DEF GLoading, GLoads, GArgOf
        <3>4. CASE l = L
            <4>1. GListed(l)' = GListed(l) \cup {N + 1} /\ N + 1 \notin GListed(l)
                BY <2>1, <2>4, <2>5, <2>6, <3>4, Zenon DEF GListed
            <4>2. Cardinality(GListed(l)') = m + 1
                BY <3>1, <4>1, Counted, CardUp, Zenon
            <4> QED
                BY <2>7, <3>1, <3>2, <3>3, <3>4, <4>2
        <3>5. CASE l # L
            <4>1. GListed(l)' = GListed(l)
                BY <2>1, <2>4, <2>5, <2>6, <3>5, Zenon DEF GListed
            <4> QED
                BY <2>7, <3>1, <3>2, <3>3, <3>5, <4>1, Zenon
        <3> QED
            BY <3>4, <3>5, Zenon
    <2> QED
        BY <2>8, <2>9, <2>10, <2>11, <2>12, Zenon DEF GInv
<1>4. CASE gat > Len(gfound)
    BY <1>2, <1>4, Zenon DEF prpc_scan_load
<1>5. CASE ~(gat > Len(gfound))
    <2> DEFINE m == gfound[gat]
               lib == GLibOf(m)
    <2>1. PICK granted \in BOOLEAN, initOk \in BOOLEAN, startOk \in BOOLEAN :
             LET loads == /\ plugin_permission_check(m, granted)
                          /\ lib \in GLibs /\ GLoadable(lib)
                          /\ find_node(GLib[lib].name) = {}
                 starts == initOk /\ GFieldOf(m, "name") = {GLib[lib].name}
                 new == GFresh(lib, initOk)
             IN  IF ~loads
                 THEN UNCHANGED <<gnodes, ginst, gopen>>
                 ELSE /\ gnodes' = <<Len(ginst) + 1>> \o gnodes
                      /\ gopen' = [gopen EXCEPT ![lib] = @ + 1]
                      /\ ginst' = Append(ginst,
                            CASE ~starts -> new
                              [] starts /\ startOk -> [new EXCEPT !.state = "running"]
                              [] OTHER -> [new EXCEPT !.state = "error", !.errors = @ + 1])
        BY <1>5, Zenon DEF prpc_scan_load
    <2> DEFINE starts == initOk /\ GFieldOf(m, "name") = {GLib[lib].name}
               new == GFresh(lib, initOk)
               x == CASE ~starts -> new
                      [] starts /\ startOk -> [new EXCEPT !.state = "running"]
                      [] OTHER -> [new EXCEPT !.state = "error", !.errors = @ + 1]
    <2>2. CASE UNCHANGED <<gnodes, ginst, gopen>>
        BY <1>2, <2>2, Zenon
    <2>3. CASE /\ lib \in GLibs
               /\ gnodes' = <<Len(ginst) + 1>> \o gnodes
               /\ gopen' = [gopen EXCEPT ![lib] = @ + 1]
               /\ ginst' = Append(ginst, x)
        <3>1. /\ new \in GInstance /\ new.lib = lib /\ new.destroyed = 0 /\ ~new.badstop
              /\ new.errors \in Nat
            BY <2>3, FreshNode, Zenon
        <3> HIDE DEF new, starts, lib
        <3>2. "running" \in GStates /\ "error" \in GStates
            BY Zenon DEF GStates
        <3>3. x = new \/ GRestated(new, x)
            <4>1. CASE ~starts
                BY <4>1, Zenon
            <4>2. CASE starts /\ startOk
                <5>1. x = [new EXCEPT !.state = "running"]
                    BY <4>2, Zenon
                <5>2. x = [new EXCEPT !.state = "running", !.errors = new.errors]
                    BY <3>1, <5>1, Zenon DEF GInstance
                <5> QED
                    BY <3>1, <3>2, <5>2, Zenon DEF GRestated
            <4>3. CASE starts /\ ~startOk
                <5>1. x = [new EXCEPT !.state = "error", !.errors = @ + 1]
                    BY <4>3, Zenon
                <5>2. PICK e \in Nat : e = new.errors + 1
                    BY <3>1
                <5>3. x = [new EXCEPT !.state = "error", !.errors = e]
                    BY <3>1, <5>1, <5>2, Zenon DEF GInstance
                <5> QED
                    BY <3>2, <5>3, Zenon DEF GRestated
            <4> QED
                BY <4>1, <4>2, <4>3, Zenon
        <3> HIDE DEF x
        <3>4. x \in GInstance
            BY <3>1, <3>3, StateEdit, Zenon
        <3> QED
            BY <1>3, <2>3, <3>1, <3>3, <3>4, Zenon
    <2> QED
        BY <2>1, <2>2, <2>3, Zenon
<1> QED
    BY <1>4, <1>5, Zenon

(* Every step of the host keeps the account.                               *)
LEMMA PluginsStep == GInv /\ [GNext]_gvars => GInv'
<1> SUFFICES ASSUME GInv, [GNext]_gvars PROVE GInv'
    BY Zenon
<1>1. CASE plugin_discovery_scan \/ plugin_rpc_cleanup \/ UNCHANGED gvars
    <2>1. UNCHANGED <<gjob, gnodes, ginst, gopen, gpc>>
        BY <1>1, Zenon DEF plugin_discovery_scan, plugin_rpc_cleanup, gvars
    <2> QED
        BY <2>1, TablesAlone, Zenon
<1>2. CASE prpc_scan_load
    BY <1>2, ScanLoads, Zenon
<1>3. ASSUME NEW t \in GThreads,
             \/ load_opens(t) \/ load_inits(t) \/ load_inserts(t)
             \/ plugin_service_unload(t) \/ plugin_service_stop(t)
             \/ start_snapshot(t) \/ start_returns(t)
             \/ execute_snapshot(t) \/ execute_calls(t)
      PROVE  GInv'
    BY <1>3, LoadOpens, LoadInits, LoadInserts, Unloads, Stops, StartTakesSnapshot, StartReturns,
       Executes, Zenon
<1> QED
    BY <1>1, <1>2, <1>3, Zenon DEF GNext

(* Whatever the threads load, start, stop, execute and unload, the account *)
(* of nodes, loaders and open handles holds.                               *)
THEOREM PluginInvariant == GSpec => []GInv
<1> QED
    BY PluginsStart, PluginsStep, PTL DEF GSpec

(* Every dlopen is paid back exactly once: a library is open as often as   *)
(* nodes of it are linked or on their way; a node is destroyed at most     *)
(* once, never while linked and never stopped afterwards; and the          *)
(* statistics count each linked node once.                                 *)
THEOREM EveryHandlePaidBack == GSpec => []HandlesPaidBack
<1>1. GInv => HandlesPaidBack
    <2> SUFFICES ASSUME GInv PROVE HandlesPaidBack
        BY Zenon
    <2>1. \A l \in GLibs : gopen[l] =
             Cardinality({i \in Range(gnodes) : ginst[i].lib = l})
             + Cardinality({t \in GThreads : gpc[t].at \in {"init", "insert"} /\ GArgOf(t) = l})
        BY Zenon DEF GInv, GPaid, GListed, GLoading, GLoads
    <2>2. \A i \in DOMAIN ginst :
             /\ ginst[i].destroyed <= 1 /\ ~ginst[i].badstop
             /\ i \in Range(gnodes) => ginst[i].destroyed = 0
        BY Zenon DEF GInv, GNodesSound
    <2>3. Len(gnodes) = Cardinality(Range(gnodes))
        <3>1. gnodes \in Seq(1..Len(ginst)) /\ NoRepeat(gnodes)
            BY Counted, Zenon DEF GInv, GTypeOK
        <3> QED
            BY <3>1, CountNodes, Zenon
    <2>4. plugin_service_get_daemon_stats.plugins = Len(gnodes)
        BY Zenon DEF plugin_service_get_daemon_stats
    <2> QED
        BY <2>1, <2>2, <2>3, <2>4, Zenon DEF HandlesPaidBack
<1> QED
    BY <1>1, PluginInvariant, PTL

-----------------------------------------------------------------------------
(* The tool table.                                                         *)

YSpec == YInit /\ [][YNext]_yvars

YIds == {YBuiltin[k].id : k \in 1..Len(YBuiltin)}
YStatus == {"up", "down", "unknown"}

(* The types of the tool table's state ...                                 *)
YTypeOK ==
    /\ yphase \in {"boot", "serve", "gone"}
    /\ yat \in 0..Len(YBuiltin)
    /\ ylinks \in Seq(YIds \X YSocks)
    /\ ypoll \in [YPolls -> [rest : Seq(YSocks), got : SUBSET YStatus]]
    /\ DOMAIN yseen = YClients /\ DOMAIN yhid = YClients

(* ... the entries are well formed, and a listing holds copies of them ... *)
YTable == IsFiniteSet(DOMAIN yreg) /\ \A id \in DOMAIN yreg : YTakes(yreg[id])
YSeen == yphase # "gone" => \A c \in YClients : \A id \in DOMAIN yseen[c] :
            id \in DOMAIN yreg /\ yseen[c][id] = yreg[id]

(* ... taken under the lock, while tool_d serves ...                       *)
YLocked == \A l \in ylock : l \in [who : YClients, rest : Seq(DOMAIN yreg)] /\ yphase = "serve"

(* ... a tool has at most one link, to a known socket ...                  *)
YLinked ==
    /\ \A i \in 1..Len(ylinks) :
         /\ ylinks[i][2] \in DOMAIN ysocks
         /\ \E k \in 1..yat : ylinks[i][1] = YBuiltin[k].id
    /\ \A i, j \in 1..Len(ylinks) : ylinks[i][1] = ylinks[j][1] => i = j

(* ... and what is on record or on its way as down was down, so that what  *)
(* a listing left out depends on a daemon that was.                        *)
YDown ==
    /\ DOMAIN ysocks \subseteq YSocks
    /\ \A s \in DOMAIN ysocks : ysocks[s] = "down" => s \in ybeen
    /\ YSocks \ yup \subseteq ybeen
YProbes == \A p \in YPolls :
    /\ ypoll[p].got # {} => ypoll[p].rest # <<>>
    /\ "down" \in ypoll[p].got => Head(ypoll[p].rest) \in ybeen
YHidden ==
    /\ yphase = "boot" => \A c \in YClients : yhid[c] = {}
    /\ \A c \in YClients : \A i \in 1..Len(ylinks) :
         ylinks[i][1] \in yhid[c] => ylinks[i][2] \in ybeen

YInv == YTypeOK /\ YTable /\ YSeen /\ YLocked /\ YLinked /\ YDown /\ YProbes /\ YHidden

(* The elements of a finite set, one after the other.                      *)
LEMMA Ordered ==
    ASSUME NEW S, IsFiniteSet(S)
    PROVE  InSomeOrder(S) \in Seq(S)
<1>1. PICK n \in Nat : ExistsBijection(1..n, S)
    BY FS_NatBijection, Zenon
<1>2. Cardinality(S) = n
    BY <1>1, FS_CountingElements, Zenon
<1>3. \E q \in [1..n -> S] : IsInjective(q)
    BY <1>1, Zenon DEF ExistsBijection, Bijection, Injection
<1>4. InSomeOrder(S) \in [1..n -> S]
    BY <1>2, <1>3, Zenon DEF InSomeOrder
<1> QED
    BY <1>4

(* A number doubled is even, and only such a number is.                    *)
LEMMA EvenIsDouble ==
    ASSUME NEW n \in Nat
    PROVE  n % 2 = 0 <=> \E k \in 0..n : n = 2 * k
<1>1. ASSUME n % 2 = 0 PROVE \E k \in 0..n : n = 2 * k
    <2>1. n = 2 * (n \div 2) + (n % 2)
        OBVIOUS
    <2>2. n \div 2 \in 0..n
        OBVIOUS
    <2>3. n = 2 * (n \div 2)
        BY <1>1, <2>1, <2>2
    <2> QED
        BY <2>2, <2>3, Zenon
<1>2. ASSUME NEW k \in 0..n, n = 2 * k PROVE n % 2 = 0
    BY <1>2
<1> QED
    BY <1>1, <1>2, Zenon

(* The validator accepts a value exactly when a reader of the schema would *)
(* (validate_single_param).                                                *)
LEMMA OneParameter ==
    ASSUME NEW s \in YSchema, NEW v \in YValues
    PROVE  validate_single_param(s, v) <=> Conforms(s, v)
<1>1. /\ v.kind \in {"string", "number", "array", "boolean", "object", "null"} /\ v.n \in Nat
      /\ v.kind = "string" => v.n <= YMaxStr
      /\ v.kind = "array" => v.n <= YMaxArr
    BY TableAssumption, Zenon
<1>2. PICK k \in {"string", "number", "array", "boolean", "object", "null"}, n \in Nat :
         k = v.kind /\ n = v.n
    BY <1>1, Zenon
<1>3. s.type = {} \/ \E t \in {"string", "number", "integer", "array", "boolean", "object"} : s.type = {t}
    BY Zenon DEF YSchema
<1>4. CASE s.type = {}
    <2>1. \A t : {} # {t}
        BY Zenon
    <2>2. validate_single_param(s, v)
        BY <1>4, <2>1, Zenon DEF validate_single_param
    <2> QED
        BY <1>4, <2>2, Zenon DEF Conforms
<1>5. ASSUME NEW t \in {"string", "number", "integer", "array", "boolean", "object"}, s.type = {t}
      PROVE  validate_single_param(s, v) <=> Conforms(s, v)
    <2>1. \A a, b : {a} = {b} <=> a = b
        BY Zenon
    <2>2. /\ {t} # {} /\ Conforms(s, v) <=>
             /\ t = k \/ (t = "integer" /\ k = "number" /\ \E j \in 0..n : n = 2 * j)
             /\ k \in {"string", "number"} => AtLeast(s.lo, n)
             /\ k \in {"string", "number", "array"} => AtMost(s.hi, n)
        BY <1>2, <1>5, Zenon DEF Conforms
    <2>3. CASE t = "string"
        <3>1. s.type = {"string"}
            BY <1>5, <2>3, Zenon
        <3>2. validate_single_param(s, v) <=> val_string(s, v)
            BY <2>1, <3>1, Zenon DEF validate_single_param
        <3> QED
            BY <1>1, <1>2, <2>2, <2>3, <3>2, Zenon DEF val_string
    <2>4. CASE t = "number"
        <3>1. s.type = {"number"} /\ s.type # {"integer"}
            BY <1>5, <2>1, <2>4, Zenon
        <3>2. validate_single_param(s, v) <=> val_number(s, v)
            BY <2>1, <3>1, Zenon DEF validate_single_param
        <3> QED
            BY <1>1, <1>2, <2>2, <2>4, <3>1, <3>2, Zenon DEF val_number
    <2>5. CASE t = "integer"
        <3>1. s.type = {"integer"}
            BY <1>5, <2>5, Zenon
        <3>2. validate_single_param(s, v) <=> val_number(s, v)
            BY <2>1, <3>1, Zenon DEF validate_single_param
        <3>3. k # "integer" /\ (n % 2 = 0 <=> \E j \in 0..n : n = 2 * j)
            BY <1>2, EvenIsDouble, Zenon
        <3> QED
            BY <1>1, <1>2, <2>2, <2>5, <3>1, <3>2, <3>3, Zenon DEF val_number
    <2>6. CASE t = "array"
        <3>1. s.type = {"array"}
            BY <1>5, <2>6, Zenon
        <3>2. validate_single_param(s, v) <=> val_array(s, v)
            BY <2>1, <3>1, Zenon DEF validate_single_param
        <3> QED
            BY <1>1, <1>2, <2>2, <2>6, <3>2, Zenon DEF val_array
    <2>7. CASE t \in {"boolean", "object"}
        <3>1. Opt(s.type, "") = t
            BY <1>5, Zenon DEF Opt
        <3>2. validate_single_param(s, v) <=> v.kind = t
            BY <1>5, <2>1, <2>7, <3>1, Zenon DEF validate_single_param
        <3> QED
            BY <1>1, <1>2, <2>2, <2>7, <3>2, Zenon
    <2> QED
        BY <2>3, <2>4, <2>5, <2>6, <2>7, Zenon
<1> QED
    BY <1>3, <1>4, <1>5, Zenon

(* The same for the arguments of a call (tool_validator_validate).         *)
LEMMA AllParameters ==
    ASSUME NEW params, YTakes(params), NEW given \in SUBSET DOMAIN params, NEW args \in [given -> YValues]
    PROVE  tool_validator_validate(params, args) <=>
             \A p \in DOMAIN params :
                 IF p \in given THEN Conforms(params[p], args[p]) ELSE ~params[p].req
<1>1. DOMAIN args = given /\ \A p \in given : args[p] \in YValues
    BY Zenon
<1>2. \A p \in given : validate_single_param(params[p], args[p]) <=> Conforms(params[p], args[p])
    BY <1>1, OneParameter, Zenon DEF YTakes
<1> QED
    BY <1>1, <1>2, Zenon DEF tool_validator_validate

(* Nothing is registered and nothing listed.                               *)
LEMMA TableStarts == YInit => YInv
<1> SUFFICES ASSUME YInit PROVE YInv
    OBVIOUS
<1>1. /\ yphase = "boot" /\ yat = 0 /\ yreg = <<>> /\ ylinks = <<>> /\ ysocks = <<>>
      /\ ypoll = [p \in YPolls |-> YIdle] /\ yseen = [c \in YClients |-> <<>>]
      /\ yhid = [c \in YClients |-> {}] /\ ylock = {} /\ ybeen = YSocks \ yup
    BY Zenon DEF YInit
<1>2. /\ DOMAIN <<>> = {} /\ 1..Len(ylinks) = {} /\ ylinks \in Seq(YIds \X YSocks)
      /\ yat \in 0..Len(YBuiltin)
    <2>1. DOMAIN <<>> = {} /\ 1..Len(ylinks) = {}
        BY <1>1
    <2>2. ylinks \in Seq(YIds \X YSocks)
        BY <1>1
    <2>3. \A n \in Nat : 0 \in 0..n
        OBVIOUS
    <2> QED
        BY <1>1, <2>1, <2>2, <2>3, TableAssumption, Zenon
<1>3. YIdle \in [rest : Seq(YSocks), got : SUBSET YStatus] /\ YIdle.got = {}
    <2>1. <<>> \in Seq(YSocks)
        OBVIOUS
    <2>2. YIdle \in [rest : Seq(YSocks), got : SUBSET YStatus]
        BY <2>1, Zenon DEF YIdle
    <2>3. YIdle.got = {}
        BY DEF YIdle
    <2> QED
        BY <2>2, <2>3, Zenon
<1>4. YTypeOK
    BY <1>1, <1>2, <1>3, Zenon DEF YTypeOK
<1>5. YTable
    BY <1>1, <1>2, FS_EmptySet, Zenon DEF YTable
<1>6. YSeen /\ YLocked /\ YDown
    BY <1>1, <1>2, Zenon DEF YSeen, YLocked, YDown
<1>7. YLinked /\ YHidden
    BY <1>1, <1>2, Zenon DEF YLinked, YHidden
<1>8. YProbes
    BY <1>1, <1>3, Zenon DEF YProbes
<1> QED
    BY <1>4, <1>5, <1>6, <1>7, <1>8, Zenon DEF YInv

(* What a table is that was written at one key, and one that has grown ... *)
Written(g, f, k, v) ==
    DOMAIN g = DOMAIN f \cup {k} /\ \A x \in DOMAIN g : g[x] = IF x = k THEN v ELSE f[x]
Grown(new, old) == DOMAIN old \subseteq DOMAIN new /\ \A x \in DOMAIN old : new[x] = old[x]
WellFormed(reg) == IsFiniteSet(DOMAIN reg) /\ \A id \in DOMAIN reg : YTakes(reg[id])

(* ... is what WithEntry makes of it.                                      *)
LEMMA Extended ==
    ASSUME NEW f, NEW k, NEW v
    PROVE  Written(WithEntry(f, k, v), f, k, v)
BY Zenon DEF WithEntry, Written

(* An entry is added under a new id; the others stay as they are           *)
(* (tool_registry_add).                                                    *)
LEMMA EntryAdded ==
    ASSUME NEW reg, WellFormed(reg), NEW m, YTakes(m.params)
    PROVE  WellFormed(tool_registry_add(reg, m)) /\ Grown(tool_registry_add(reg, m), reg)
<1>1. CASE m.id \in DOMAIN reg
    <2>1. tool_registry_add(reg, m) = reg
        BY <1>1, Zenon DEF tool_registry_add
    <2> QED
        BY <2>1, Zenon DEF Grown
<1>2. CASE m.id \notin DOMAIN reg
    <2>1. PICK new : new = tool_registry_add(reg, m)
        BY Zenon
    <2>2. new = WithEntry(reg, m.id, m.params)
        BY <1>2, <2>1, Zenon DEF tool_registry_add
    <2>3. Written(new, reg, m.id, m.params)
        BY <2>2, Extended, Zenon
    <2>4. IsFiniteSet(DOMAIN new)
        BY <2>3, FS_AddElement, Zenon DEF WellFormed, Written
    <2>5. WellFormed(new) /\ Grown(new, reg)
        BY <1>2, <2>3, <2>4, Zenon DEF Written, WellFormed, Grown
    <2> QED
        BY <2>1, <2>5, Zenon
<1> QED
    BY <1>1, <1>2, Zenon

(* A socket not yet watched is watched, with nothing known of it           *)
(* (tool_avail_dep).                                                       *)
SocketKnown(g, f, s) ==
    /\ DOMAIN g = DOMAIN f \cup {s}
    /\ \A x \in DOMAIN g : g[x] = IF x \in DOMAIN f THEN f[x] ELSE "unknown"

(* It is what tool_avail_dep leaves in socks[].                            *)
LEMMA SocketAdded ==
    ASSUME NEW f, NEW s
    PROVE  SocketKnown(IF s \in DOMAIN f THEN f ELSE WithEntry(f, s, "unknown"), f, s)
<1>1. CASE s \in DOMAIN f
    BY <1>1, Zenon DEF SocketKnown
<1>2. CASE s \notin DOMAIN f
    <2>1. PICK g : g = WithEntry(f, s, "unknown")
        BY Zenon
    <2>2. Written(g, f, s, "unknown")
        BY <2>1, Extended, Zenon
    <2>3. SocketKnown(g, f, s)
        BY <1>2, <2>2, Zenon DEF Written, SocketKnown
    <2> QED
        BY <1>2, <2>1, <2>3, Zenon
<1> QED
    BY <1>1, <1>2, Zenon

(* One built-in tool more, with its link and its socket if they fit, or    *)
(* the end of the registration (register_builtin_tools).                   *)
LEMMA BuiltinsRegister ==
    ASSUME YInv, register_builtin_tools
    PROVE  YInv'
<1>1. /\ yphase = "boot"
      /\ yup' = yup /\ ypoll' = ypoll /\ ylock' = ylock /\ yseen' = yseen /\ yhid' = yhid
      /\ ybeen' = ybeen
    BY Zenon DEF register_builtin_tools
<1>2. YTypeOK /\ YTable /\ YSeen /\ YLocked /\ YLinked /\ YDown /\ YProbes /\ YHidden
    BY Zenon DEF YInv
<1>3. ylock = {}
    BY <1>1, <1>2, Zenon DEF YLocked
<1>4. CASE yat = Len(YBuiltin)
    <2>1. /\ yphase' = "serve" /\ yat' = yat /\ yreg' = yreg /\ ylinks' = ylinks /\ ysocks' = ysocks
        BY <1>4, Zenon DEF register_builtin_tools
    <2>2. YTypeOK' /\ YTable'
        BY <1>1, <1>2, <2>1, Zenon DEF YTypeOK, YTable
    <2>3. YSeen' /\ YLocked' /\ YLinked'
        BY <1>1, <1>2, <1>3, <2>1, Zenon DEF YSeen, YLocked, YLinked
    <2>4. YDown' /\ YProbes'
        BY <1>1, <1>2, <2>1, Zenon DEF YDown, YProbes
    <2>5. YHidden'
        BY <1>1, <1>2, <2>1, Zenon DEF YHidden
    <2> QED
        BY <2>2, <2>3, <2>4, <2>5, Zenon DEF YInv
<1>5. CASE yat # Len(YBuiltin)
    <2>1. /\ yphase' = yphase /\ yat' = yat + 1
          /\ yreg' = tool_registry_add(yreg, YBuiltin[yat + 1])
          /\ tool_avail_dep(YBuiltin[yat + 1])
        BY <1>5, Zenon DEF register_builtin_tools
    <2>2. /\ yat + 1 \in 1..Len(YBuiltin) /\ yat + 1 \in 0..Len(YBuiltin)
          /\ 1..yat \subseteq 1..(yat + 1) /\ yat + 1 \in 1..(yat + 1) /\ yat + 1 \notin 1..yat
          /\ 1..yat \subseteq 1..Len(YBuiltin)
        <3>1. yat \in 0..Len(YBuiltin) /\ Len(YBuiltin) \in Nat
            BY <1>2, TableAssumption, Zenon DEF YTypeOK
        <3> QED
            BY <1>5, <3>1
    <2>3. PICK k \in 1..Len(YBuiltin) : k = yat + 1
        BY <2>2, Zenon
    <2>4. PICK m : m = YBuiltin[k]
        BY Zenon
    <2>5. /\ m.dep \in YSocks \cup {""} /\ YTakes(m.params) /\ m.id \in YIds
          /\ \A j \in 1..yat : YBuiltin[j].id # m.id
        BY <2>2, <2>3, <2>4, TableAssumption, Zenon DEF YIds
    <2>6. /\ YTable' /\ DOMAIN yreg \subseteq DOMAIN yreg'
          /\ \A id \in DOMAIN yreg : yreg'[id] = yreg[id]
        <3>1. yreg' = tool_registry_add(yreg, m)
            BY <2>1, <2>3, <2>4, Zenon
        <3>2. WellFormed(yreg)
            BY <1>2, Zenon DEF YTable, WellFormed
        <3>3. WellFormed(yreg') /\ Grown(yreg', yreg)
            BY <2>5, <3>1, <3>2, EntryAdded, Zenon
        <3> QED
            BY <3>3, Zenon DEF YTable, WellFormed, Grown
    <2>7. YSeen'
        BY <1>1, <1>2, <2>1, <2>6, Zenon DEF YSeen
    <2>8. YLocked'
        BY <1>1, <1>3, Zenon DEF YLocked
    <2>9. CASE ylinks' = ylinks /\ ysocks' = ysocks
        <3>1. YTypeOK'
            BY <1>1, <1>2, <2>1, <2>2, <2>9, Zenon DEF YTypeOK
        <3>2. YLinked'
            BY <1>2, <2>1, <2>2, <2>9, Zenon DEF YLinked
        <3>3. YDown' /\ YProbes' /\ YHidden'
            BY <1>1, <1>2, <2>1, <2>9, Zenon DEF YDown, YProbes, YHidden
        <3> QED
            BY <2>6, <2>7, <2>8, <3>1, <3>2, <3>3, Zenon DEF YInv
    <2>10. CASE /\ m.dep # "" /\ ylinks' = Append(ylinks, <<m.id, m.dep>>)
                /\ ysocks' = IF m.dep \in DOMAIN ysocks THEN ysocks ELSE WithEntry(ysocks, m.dep, "unknown")
        <3>1. ylinks \in Seq(YIds \X YSocks)
            BY <1>2, Zenon DEF YTypeOK
        <3>2. PICK x \in YIds \X YSocks : x = <<m.id, m.dep>> /\ x[1] = m.id /\ x[2] = m.dep
            <4>1. m.dep \in YSocks
                BY <2>5, <2>10, Zenon
            <4>2. PICK a \in YIds, b \in YSocks : a = m.id /\ b = m.dep
                BY <2>5, <4>1, Zenon
            <4>3. <<a, b>> \in YIds \X YSocks /\ <<a, b>>[1] = a /\ <<a, b>>[2] = b
                OBVIOUS
            <4> QED
                BY <4>2, <4>3, Zenon
        <3>3. PICK n \in Nat : n = Len(ylinks)
            BY <3>1
        <3>4. /\ ylinks' \in Seq(YIds \X YSocks) /\ Len(ylinks') = n + 1 /\ ylinks'[n + 1] = x
              /\ \A j \in 1..n : ylinks'[j] = ylinks[j]
            <4>0. PICK S : S = YIds \X YSocks
                BY Zenon
            <4>1. PICK q, r : q \in Seq(S) /\ q = ylinks /\ r = ylinks' /\ r = Append(q, x) /\ x \in S
                BY <2>10, <3>1, <3>2, <4>0, Zenon
            <4>2. /\ r \in Seq(S) /\ Len(r) = Len(q) + 1 /\ r[Len(q) + 1] = x
                  /\ \A j \in 1..Len(q) : r[j] = q[j]
                BY <4>1, AppendFacts
            <4> QED
                BY <3>3, <4>0, <4>1, <4>2, Zenon
        <3>5. \A j \in 1..Len(ylinks') : j \in 1..n \/ j = n + 1
            BY <3>4
        <3>6. /\ DOMAIN ysocks' = DOMAIN ysocks \cup {m.dep}
              /\ \A s \in DOMAIN ysocks' : ysocks'[s] = IF s \in DOMAIN ysocks THEN ysocks[s] ELSE "unknown"
            <4>1. SocketKnown(ysocks', ysocks, m.dep)
                BY <2>10, SocketAdded, Zenon
            <4> QED
                BY <4>1, Zenon DEF SocketKnown
        <3>7. YTypeOK'
            BY <1>1, <1>2, <2>1, <2>2, <3>4, Zenon DEF YTypeOK
        <3>8. \A j \in 1..n : ylinks[j][1] # m.id
            BY <1>2, <2>5, <3>3, Zenon DEF YLinked
        <3>9. YLinked'
            <4>1. ASSUME NEW i \in 1..Len(ylinks')
                  PROVE  /\ ylinks'[i][2] \in DOMAIN ysocks'
                         /\ \E j \in 1..yat' : ylinks'[i][1] = YBuiltin[j].id
                <5>1. CASE i \in 1..n
                    <6>1. ylinks'[i] = ylinks[i] /\ ylinks[i][2] \in DOMAIN ysocks
                        BY <1>2, <3>3, <3>4, <5>1, Zenon DEF YLinked
                    <6>2. \E j \in 1..yat : ylinks[i][1] = YBuiltin[j].id
                        BY <1>2, <3>3, <5>1, Zenon DEF YLinked
                    <6> QED
                        BY <2>1, <2>2, <3>6, <6>1, <6>2, Zenon
                <5>2. CASE i = n + 1
                    BY <2>1, <2>2, <2>3, <2>4, <3>2, <3>4, <3>6, <5>2, Zenon
                <5> QED
                    BY <3>5, <5>1, <5>2, Zenon
            <4>2. ASSUME NEW i \in 1..Len(ylinks'), NEW j \in 1..Len(ylinks'),
                         ylinks'[i][1] = ylinks'[j][1]
                  PROVE  i = j
                <5>1. CASE i \in 1..n /\ j \in 1..n
                    BY <1>2, <3>3, <3>4, <4>2, <5>1, Zenon DEF YLinked
                <5>2. CASE i \in 1..n /\ j = n + 1
                    BY <3>2, <3>4, <3>8, <4>2, <5>2, Zenon
                <5>3. CASE i = n + 1 /\ j \in 1..n
                    BY <3>2, <3>4, <3>8, <4>2, <5>3, Zenon
                <5>4. CASE i = n + 1 /\ j = n + 1
                    BY <5>4, Zenon
                <5> QED
                    BY <3>5, <5>1, <5>2, <5>3, <5>4, Zenon
            <4> QED
                BY <4>1, <4>2, Zenon DEF YLinked
        <3>10. YDown'
            <4>1. m.dep \in YSocks
                BY <2>5, <2>10, Zenon
            <4> QED
                BY <1>1, <1>2, <3>6, <4>1, Zenon DEF YDown
        <3>11. YProbes'
            BY <1>1, <1>2, Zenon DEF YProbes
        <3>12. YHidden'
            <4>1. \A c \in YClients : yhid'[c] = {}
                BY <1>1, <1>2, Zenon DEF YHidden
            <4> QED
                BY <4>1, Zenon DEF YHidden
        <3> QED
            BY <2>6, <2>7, <2>8, <3>7, <3>9, <3>10, <3>11, <3>12, Zenon DEF YInv
    <2> QED
        BY <2>1, <2>3, <2>4, <2>9, <2>10, Zenon DEF tool_avail_dep
<1> QED
    BY <1>4, <1>5, Zenon

(* A client registers a tool: a new id is added, a known one refused       *)
(* (handle_register).                                                      *)
LEMMA ClientRegisters ==
    ASSUME YInv, NEW c \in YClients, NEW m \in YOffered, handle_register(c, m)
    PROVE  YInv'
<1>1. /\ ylock = {} /\ yphase' = yphase /\ yat' = yat /\ ylinks' = ylinks /\ ysocks' = ysocks
      /\ yup' = yup /\ ypoll' = ypoll /\ ylock' = ylock /\ yseen' = yseen /\ yhid' = yhid
      /\ ybeen' = ybeen
    BY Zenon DEF handle_register
<1>2. YTypeOK /\ YTable /\ YSeen /\ YLocked /\ YLinked /\ YDown /\ YProbes /\ YHidden
    BY Zenon DEF YInv
<1> DEFINE ps == [p \in DOMAIN m.params |-> [m.params[p] EXCEPT !.req = FALSE]]
           copy == [m EXCEPT !.params = ps]
<1>3. yreg' = tool_registry_add(yreg, copy)
    BY Zenon DEF handle_register
<1>4. YTakes(ps)
    <2>1. ASSUME NEW p \in DOMAIN m.params PROVE [m.params[p] EXCEPT !.req = FALSE] \in YSchema
        <3>1. m.params[p] \in YSchema
            BY TableAssumption, Zenon DEF YTakes
        <3>2. FALSE \in BOOLEAN
            BY Zenon
        <3> QED
            BY <3>1, <3>2, Zenon DEF YSchema
    <2> QED
        BY <2>1, Zenon DEF YTakes
<1> HIDE DEF ps
<1>5. YTakes(copy.params)
    <2>1. m = [id |-> m.id, params |-> m.params, dep |-> m.dep]
        BY TableAssumption, Zenon
    <2>2. copy.params = ps
        BY <2>1
    <2> QED
        BY <1>4, <2>2, Zenon
<1> HIDE DEF copy
<1>6. /\ YTable' /\ DOMAIN yreg \subseteq DOMAIN yreg'
      /\ \A id \in DOMAIN yreg : yreg'[id] = yreg[id]
    <2>1. WellFormed(yreg)
        BY <1>2, Zenon DEF YTable, WellFormed
    <2>2. WellFormed(yreg') /\ Grown(yreg', yreg)
        BY <1>3, <1>5, <2>1, EntryAdded, Zenon
    <2> QED
        BY <2>2, Zenon DEF YTable, WellFormed, Grown
<1>7. YTypeOK' /\ YLinked' /\ YDown'
    BY <1>1, <1>2, Zenon DEF YTypeOK, YLinked, YDown
<1>8. YProbes' /\ YHidden' /\ YLocked'
    BY <1>1, <1>2, Zenon DEF YProbes, YHidden, YLocked
<1>9. YSeen'
    BY <1>1, <1>2, <1>6, Zenon DEF YSeen
<1> QED
    BY <1>6, <1>7, <1>8, <1>9, Zenon DEF YInv

(* The head of a sequence that is not empty, and what follows it.          *)
LEMMA HeadAndTail ==
    ASSUME NEW S, NEW q \in Seq(S), q # <<>>
    PROVE  Head(q) \in S /\ Tail(q) \in Seq(S)
OBVIOUS

(* A client's listing begins: the registry is locked, the old listing gone *)
(* (tool_registry_list_json).                                              *)
LEMMA ListingLocks ==
    ASSUME YInv, NEW c \in YClients, list_locks(c)
    PROVE  YInv'
<1>1. /\ yphase = "serve" /\ ylock' = {[who |-> c, rest |-> InSomeOrder(DOMAIN yreg)]}
      /\ yseen' = [yseen EXCEPT ![c] = <<>>] /\ yhid' = [yhid EXCEPT ![c] = {}]
      /\ yphase' = yphase /\ yat' = yat /\ yreg' = yreg /\ ylinks' = ylinks /\ ysocks' = ysocks
      /\ yup' = yup /\ ypoll' = ypoll /\ ybeen' = ybeen
    BY Zenon DEF list_locks
<1>2. YTypeOK /\ YTable /\ YSeen /\ YLocked /\ YLinked /\ YDown /\ YProbes /\ YHidden
    BY Zenon DEF YInv
<1>3. DOMAIN yseen = YClients /\ DOMAIN yhid = YClients
    BY <1>2, Zenon DEF YTypeOK
<1>4. /\ DOMAIN yseen' = YClients /\ DOMAIN yhid' = YClients
      /\ yseen'[c] = <<>> /\ yhid'[c] = {}
      /\ \A d \in YClients : d # c => yseen'[d] = yseen[d] /\ yhid'[d] = yhid[d]
    BY <1>1, <1>3, Zenon
<1>5. YTypeOK' /\ YTable' /\ YLinked' /\ YDown' /\ YProbes'
    <2>1. YTypeOK' /\ YTable'
        BY <1>1, <1>2, <1>4, Zenon DEF YTypeOK, YTable
    <2>2. YLinked' /\ YDown' /\ YProbes'
        BY <1>1, <1>2, Zenon DEF YLinked, YDown, YProbes
    <2> QED
        BY <2>1, <2>2, Zenon
<1>6. YSeen'
    <2>1. DOMAIN <<>> = {}
        OBVIOUS
    <2> QED
        BY <1>1, <1>2, <1>4, <2>1, Zenon DEF YSeen
<1>7. YHidden'
    BY <1>1, <1>2, <1>4, Zenon DEF YHidden
<1>8. YLocked'
    <2>1. PICK q : q = InSomeOrder(DOMAIN yreg) /\ q \in Seq(DOMAIN yreg)
        BY <1>2, Ordered, Zenon DEF YTable
    <2>2. [who |-> c, rest |-> q] \in [who : YClients, rest : Seq(DOMAIN yreg)]
        BY <2>1, Zenon
    <2> QED
        BY <1>1, <2>1, <2>2, Zenon DEF YLocked
<1> QED
    BY <1>5, <1>6, <1>7, <1>8, Zenon DEF YInv

(* A tool left out of a listing depends on a daemon that has been down     *)
(* (tool_avail_ok).                                                        *)
LEMMA LeftOutWasDown ==
    ASSUME YTypeOK, YLinked, YDown, NEW id, ~tool_avail_ok(id),
           NEW i \in 1..Len(ylinks), ylinks[i][1] = id
    PROVE  ylinks[i][2] \in ybeen
<1> DEFINE at == {j \in DOMAIN ylinks : ylinks[j][1] = id}
<1>1. DOMAIN ylinks = 1..Len(ylinks) /\ 1..Len(ylinks) \subseteq Nat
    <2>1. PICK S : S = YIds \X YSocks
        BY Zenon
    <2>2. ylinks \in Seq(S)
        BY <2>1, Zenon DEF YTypeOK
    <2> QED
        BY <2>2
<1>2. at \in SUBSET Nat /\ at # {} /\ ysocks[ylinks[Min(at)][2]] = "down"
    BY <1>1, Zenon DEF tool_avail_ok
<1>3. Min(at) \in at
    <2>1. PICK A : A = at
        BY Zenon
    <2>2. \E x \in A : \A y \in A : x =< y
        BY <1>2, <2>1, LeastExists, Zenon
    <2>3. Min(A) \in A
        BY <2>2, Zenon DEF Min
    <2> QED
        BY <2>1, <2>3, Zenon
<1>4. PICK k \in 1..Len(ylinks) : k = Min(at) /\ ylinks[k][1] = id
    BY <1>1, <1>3, Zenon
<1>5. k = i
    BY <1>4, Zenon DEF YLinked
<1>6. ysocks[ylinks[i][2]] = "down" /\ ylinks[i][2] \in DOMAIN ysocks
    BY <1>2, <1>4, <1>5, Zenon DEF YLinked
<1> QED
    BY <1>6, Zenon DEF YDown

(* A listing takes the next tool, or leaves it out, or ends                *)
(* (tool_registry_list_json).                                              *)
LEMMA ListingGoesOn ==
    ASSUME YInv, tool_registry_list_json
    PROVE  YInv'
<1>1. /\ yphase' = yphase /\ yat' = yat /\ yreg' = yreg /\ ylinks' = ylinks /\ ysocks' = ysocks
      /\ yup' = yup /\ ypoll' = ypoll /\ ybeen' = ybeen
    BY Zenon DEF tool_registry_list_json
<1>2. YTypeOK /\ YTable /\ YSeen /\ YLocked /\ YLinked /\ YDown /\ YProbes /\ YHidden
    BY Zenon DEF YInv
<1>3. YTable' /\ YLinked' /\ YDown' /\ YProbes'
    BY <1>1, <1>2, Zenon DEF YTable, YLinked, YDown, YProbes
<1>4. PICK l \in ylock :
         IF l.rest = <<>>
         THEN ylock' = {} /\ UNCHANGED <<yseen, yhid>>
         ELSE /\ ylock' = {[l EXCEPT !.rest = Tail(@)]}
              /\ IF tool_avail_ok(Head(l.rest))
                 THEN /\ yseen' = [yseen EXCEPT ![l.who] = WithEntry(@, Head(l.rest), yreg[Head(l.rest)])]
                      /\ UNCHANGED yhid
                 ELSE yhid' = [yhid EXCEPT ![l.who] = @ \cup {Head(l.rest)}] /\ UNCHANGED yseen
    BY Zenon DEF tool_registry_list_json
<1>5. DOMAIN yseen = YClients /\ DOMAIN yhid = YClients
    BY <1>2, Zenon DEF YTypeOK
<1>6. CASE l.rest = <<>>
    <2>1. ylock' = {} /\ yseen' = yseen /\ yhid' = yhid
        BY <1>4, <1>6, Zenon
    <2>2. YTypeOK' /\ YSeen' /\ YLocked' /\ YHidden'
        BY <1>1, <1>2, <2>1, Zenon DEF YTypeOK, YSeen, YLocked, YHidden
    <2> QED
        BY <1>3, <2>2, Zenon DEF YInv
<1>7. CASE l.rest # <<>>
    <2>1. l \in [who : YClients, rest : Seq(DOMAIN yreg)] /\ yphase = "serve"
        BY <1>2, Zenon DEF YLocked
    <2>2. PICK c \in YClients, q \in Seq(DOMAIN yreg) : c = l.who /\ q = l.rest
        BY <2>1
    <2>3. PICK id \in DOMAIN yreg : id = Head(l.rest) /\ Tail(l.rest) \in Seq(DOMAIN yreg)
        BY <1>7, <2>2, HeadAndTail, Zenon
    <2>4. YLocked'
        <3>1. [l EXCEPT !.rest = Tail(@)] \in [who : YClients, rest : Seq(DOMAIN yreg)]
            BY <2>1, <2>3, Zenon
        <3> QED
            BY <1>1, <1>4, <1>7, <2>1, <3>1, Zenon DEF YLocked
    <2>5. CASE tool_avail_ok(id)
        <3>1. yseen' = [yseen EXCEPT ![c] = WithEntry(yseen[c], id, yreg[id])] /\ yhid' = yhid
            BY <1>4, <1>7, <2>2, <2>3, <2>5, Zenon
        <3>2. /\ DOMAIN yseen' = YClients /\ yseen'[c] = WithEntry(yseen[c], id, yreg[id])
              /\ \A d \in YClients : d # c => yseen'[d] = yseen[d]
            BY <1>5, <3>1, Zenon
        <3>3. Written(yseen'[c], yseen[c], id, yreg[id])
            BY <3>2, Extended, Zenon
        <3>4. YTypeOK' /\ YHidden'
            BY <1>1, <1>2, <3>1, <3>2, Zenon DEF YTypeOK, YHidden
        <3>5. ASSUME NEW d \in YClients, NEW x \in DOMAIN yseen'[d]
              PROVE  x \in DOMAIN yreg /\ yseen'[d][x] = yreg[x]
            <4>1. \A e \in YClients : \A y \in DOMAIN yseen[e] : y \in DOMAIN yreg /\ yseen[e][y] = yreg[y]
                BY <1>2, <2>1, Zenon DEF YSeen
            <4>2. CASE d = c
                <5>1. DOMAIN yseen'[c] = DOMAIN yseen[c] \cup {id}
                    BY <3>3, Zenon DEF Written
                <5>2. yseen'[c][x] = IF x = id THEN yreg[id] ELSE yseen[c][x]
                    BY <3>3, <3>5, <4>2, Zenon DEF Written
                <5> QED
                    BY <3>5, <4>1, <4>2, <5>1, <5>2, Zenon
            <4>3. CASE d # c
                BY <3>2, <3>5, <4>1, <4>3, Zenon
            <4> QED
                BY <4>2, <4>3, Zenon
        <3>6. YSeen'
            BY <1>1, <3>5, Zenon DEF YSeen
        <3> QED
            BY <1>3, <2>4, <3>4, <3>6, Zenon DEF YInv
    <2>6. CASE ~tool_avail_ok(id)
        <3>1. yhid' = [yhid EXCEPT ![c] = yhid[c] \cup {id}] /\ yseen' = yseen
            BY <1>4, <1>7, <2>2, <2>3, <2>6, Zenon
        <3>2. /\ DOMAIN yhid' = YClients /\ yhid'[c] = yhid[c] \cup {id}
              /\ \A d \in YClients : d # c => yhid'[d] = yhid[d]
            BY <1>5, <3>1, Zenon
        <3>3. YTypeOK' /\ YSeen'
            BY <1>1, <1>2, <3>1, <3>2, Zenon DEF YTypeOK, YSeen
        <3>4. ASSUME NEW d \in YClients, NEW i \in 1..Len(ylinks), ylinks[i][1] \in yhid'[d]
              PROVE  ylinks[i][2] \in ybeen
            <4>1. CASE ylinks[i][1] \in yhid[d]
                BY <1>2, <4>1, Zenon DEF YHidden
            <4>2. CASE ylinks[i][1] = id
                BY <1>2, <2>6, <4>2, LeftOutWasDown, Zenon
            <4> QED
                BY <3>2, <3>4, <4>1, <4>2, Zenon
        <3>5. YHidden'
            BY <1>1, <2>1, <3>4, Zenon DEF YHidden
        <3> QED
            BY <1>3, <2>4, <3>3, <3>5, Zenon DEF YInv
    <2> QED
        BY <2>5, <2>6, Zenon
<1> QED
    BY <1>6, <1>7, Zenon

(* A step of a probe task p leaves the table, the listings and the other   *)
(* tasks alone; what is left to see is what it knows and what it recorded  *)
(* (tool_avail_poll).                                                      *)
LEMMA ProbeAside ==
    ASSUME YInv, NEW p \in YPolls,
           /\ yphase' = yphase /\ yat' = yat /\ yreg' = yreg /\ ylinks' = ylinks /\ yup' = yup
           /\ ylock' = ylock /\ yseen' = yseen /\ yhid' = yhid /\ ybeen' = ybeen,
           NEW r \in [rest : Seq(YSocks), got : SUBSET YStatus],
           ypoll' = [ypoll EXCEPT ![p] = r],
           r.got # {} => r.rest # <<>>,
           "down" \in r.got => Head(r.rest) \in ybeen,
           DOMAIN ysocks' = DOMAIN ysocks,
           \A s \in DOMAIN ysocks : ysocks'[s] = "down" => s \in ybeen
    PROVE  YInv'
<1>1. YTypeOK /\ YTable /\ YSeen /\ YLocked /\ YLinked /\ YDown /\ YProbes /\ YHidden
    BY Zenon DEF YInv
<1>2. ypoll \in [YPolls -> [rest : Seq(YSocks), got : SUBSET YStatus]]
    BY <1>1, Zenon DEF YTypeOK
<1>3. /\ ypoll' \in [YPolls -> [rest : Seq(YSocks), got : SUBSET YStatus]]
      /\ ypoll'[p] = r /\ \A o \in YPolls : o # p => ypoll'[o] = ypoll[o]
    <2>1. PICK R : R = [rest : Seq(YSocks), got : SUBSET YStatus]
        BY Zenon
    <2> QED
        BY <1>2, <2>1, Zenon
<1>4. YTypeOK' /\ YTable'
    BY <1>1, <1>3, Zenon DEF YTypeOK, YTable
<1>5. YSeen' /\ YLocked' /\ YHidden'
    BY <1>1, Zenon DEF YSeen, YLocked, YHidden
<1>6. YLinked' /\ YDown'
    BY <1>1, Zenon DEF YLinked, YDown
<1>7. YProbes'
    BY <1>1, <1>3, Zenon DEF YProbes
<1> QED
    BY <1>4, <1>5, <1>6, <1>7, Zenon DEF YInv

(* A probe task copies the names of the sockets to probe.                  *)
LEMMA ProbesBegin ==
    ASSUME YInv, NEW p \in YPolls, poll_starts(p)
    PROVE  YInv'
<1>1. /\ ypoll[p] = YIdle /\ ypoll' = [ypoll EXCEPT ![p].rest = InSomeOrder(DOMAIN ysocks)]
      /\ yphase' = yphase /\ yat' = yat /\ yreg' = yreg /\ ylinks' = ylinks /\ yup' = yup
      /\ ylock' = ylock /\ yseen' = yseen /\ yhid' = yhid /\ ybeen' = ybeen /\ ysocks' = ysocks
    BY Zenon DEF poll_starts
<1>2. YTypeOK /\ YDown
    BY Zenon DEF YInv
<1>3. InSomeOrder(DOMAIN ysocks) \in Seq(YSocks)
    <2>1. PICK D : D = DOMAIN ysocks /\ D \subseteq YSocks
        BY <1>2, Zenon DEF YDown
    <2>2. IsFiniteSet(D)
        BY <2>1, TableAssumption, FS_Subset, Zenon
    <2>3. PICK q \in Seq(D) : q = InSomeOrder(D)
        BY <2>2, Ordered, Zenon
    <2>4. q \in Seq(YSocks)
        BY <2>1, <2>3
    <2> QED
        BY <2>1, <2>3, <2>4, Zenon
<1>4. PICK q \in Seq(YSocks) : q = InSomeOrder(DOMAIN ysocks)
    BY <1>3, Zenon
<1>5. ypoll[p] \in [rest : Seq(YSocks), got : SUBSET YStatus]
    BY <1>2, Zenon DEF YTypeOK
<1>6. PICK r \in [rest : Seq(YSocks), got : SUBSET YStatus] : r = [ypoll[p] EXCEPT !.rest = q]
    BY <1>4, <1>5, Zenon
<1>7. r.got = {} /\ ypoll' = [ypoll EXCEPT ![p] = r]
    <2>1. ypoll[p].got = {}
        BY <1>1 DEF YIdle
    <2>2. r.got = ypoll[p].got
        BY <1>5, <1>6
    <2>3. ypoll' = [ypoll EXCEPT ![p] = r]
        BY <1>1, <1>4, <1>6, Zenon
    <2> QED
        BY <2>1, <2>2, <2>3, Zenon
<1>8. \A s \in DOMAIN ysocks : ysocks'[s] = "down" => s \in ybeen
    BY <1>1, <1>2, Zenon DEF YDown
<1> QED
    BY <1>1, <1>7, <1>8, ProbeAside, Zenon

(* A daemon that does not answer is down at that moment (sock_probe).      *)
LEMMA ProbeAnswers ==
    ASSUME YInv, NEW p \in YPolls, sock_probe(p)
    PROVE  YInv'
<1>1. /\ ypoll[p].rest # <<>>
      /\ yphase' = yphase /\ yat' = yat /\ yreg' = yreg /\ ylinks' = ylinks /\ yup' = yup
      /\ ylock' = ylock /\ yseen' = yseen /\ yhid' = yhid /\ ybeen' = ybeen /\ ysocks' = ysocks
    BY Zenon DEF sock_probe
<1>2. YTypeOK /\ YDown
    BY Zenon DEF YInv
<1>3. PICK g \in {"unknown", IF Head(ypoll[p].rest) \in yup THEN "up" ELSE "down"} :
         ypoll' = [ypoll EXCEPT ![p].got = {g}]
    BY Zenon DEF sock_probe
<1>4. ypoll[p] \in [rest : Seq(YSocks), got : SUBSET YStatus]
    BY <1>2, Zenon DEF YTypeOK
<1>5. PICK q \in Seq(YSocks) : q = ypoll[p].rest
    BY <1>4
<1>6. g \in YStatus
    BY <1>3, Zenon DEF YStatus
<1>7. PICK r \in [rest : Seq(YSocks), got : SUBSET YStatus] : r = [ypoll[p] EXCEPT !.got = {g}]
    BY <1>4, <1>6, Zenon
<1>8. r.rest = ypoll[p].rest /\ r.got = {g}
    BY <1>4, <1>7
<1>9. ypoll' = [ypoll EXCEPT ![p] = r]
    BY <1>3, <1>7, Zenon
<1>10. "down" \in r.got => Head(r.rest) \in ybeen
    <2>1. Head(q) \in YSocks
        BY <1>1, <1>5, HeadAndTail, Zenon
    <2>2. g = "down" => Head(q) \notin yup
        BY <1>3, <1>5, Zenon
    <2> QED
        BY <1>2, <1>5, <1>8, <2>1, <2>2, Zenon DEF YDown
<1>11. \A s \in DOMAIN ysocks : ysocks'[s] = "down" => s \in ybeen
    BY <1>1, <1>2, Zenon DEF YDown
<1> QED
    BY <1>1, <1>8, <1>9, <1>10, <1>11, ProbeAside, Zenon

(* What a probe found goes on record, however old it is by now.            *)
LEMMA ProbeRecords ==
    ASSUME YInv, NEW p \in YPolls, poll_records(p)
    PROVE  YInv'
<1>1. /\ ypoll[p].got # {}
      /\ yphase' = yphase /\ yat' = yat /\ yreg' = yreg /\ ylinks' = ylinks /\ yup' = yup
      /\ ylock' = ylock /\ yseen' = yseen /\ yhid' = yhid /\ ybeen' = ybeen
    BY Zenon DEF poll_records
<1>2. YTypeOK /\ YDown /\ YProbes
    BY Zenon DEF YInv
<1>3. PICK s, g :
         /\ s = Head(ypoll[p].rest) /\ g = Opt(ypoll[p].got, "unknown")
         /\ ysocks' = IF g = "unknown" THEN ysocks ELSE [ysocks EXCEPT ![s] = g]
         /\ ypoll' = [ypoll EXCEPT ![p] = [rest |-> Tail(ypoll[p].rest), got |-> {}]]
    BY Zenon DEF poll_records
<1>4. ypoll[p] \in [rest : Seq(YSocks), got : SUBSET YStatus]
    BY <1>2, Zenon DEF YTypeOK
<1>5. PICK q \in Seq(YSocks) : q = ypoll[p].rest
    BY <1>4
<1>6. q # <<>>
    BY <1>1, <1>2, <1>5, Zenon DEF YProbes
<1>7. g \in ypoll[p].got
    BY <1>1, <1>3, Zenon DEF Opt
<1>8. g = "down" => s \in ybeen
    BY <1>2, <1>3, <1>7, Zenon DEF YProbes
<1>9. PICK t \in Seq(YSocks) : t = Tail(ypoll[p].rest)
    BY <1>5, <1>6, HeadAndTail, Zenon
<1>10. PICK r \in [rest : Seq(YSocks), got : SUBSET YStatus] : r = [rest |-> t, got |-> {}]
    BY Zenon
<1>11. r.got = {}
    BY <1>10
<1>12. ypoll' = [ypoll EXCEPT ![p] = r]
    BY <1>3, <1>9, <1>10, Zenon
<1>13. DOMAIN ysocks' = DOMAIN ysocks
    BY <1>3, Zenon
<1>14. \A x \in DOMAIN ysocks : ysocks'[x] = "down" => x \in ybeen
    BY <1>2, <1>3, <1>8, Zenon DEF YDown
<1> QED
    BY <1>1, <1>11, <1>12, <1>13, <1>14, ProbeAside, Zenon

(* A daemon starts or stops.                                               *)
LEMMA DaemonFlips ==
    ASSUME YInv, NEW s \in YSocks, daemon_flips(s)
    PROVE  YInv'
<1>1. /\ yup' = IF s \in yup THEN yup \ {s} ELSE yup \cup {s}
      /\ ybeen' = ybeen \cup {s}
      /\ yphase' = yphase /\ yat' = yat /\ yreg' = yreg /\ ylinks' = ylinks /\ ysocks' = ysocks
      /\ ypoll' = ypoll /\ ylock' = ylock /\ yseen' = yseen /\ yhid' = yhid
    BY Zenon DEF daemon_flips
<1>2. YTypeOK /\ YTable /\ YSeen /\ YLocked /\ YLinked /\ YDown /\ YProbes /\ YHidden
    BY Zenon DEF YInv
<1>3. YTypeOK' /\ YTable' /\ YSeen'
    BY <1>1, <1>2, Zenon DEF YTypeOK, YTable, YSeen
<1>4. YLocked' /\ YLinked'
    BY <1>1, <1>2, Zenon DEF YLocked, YLinked
<1>5. ybeen \subseteq ybeen' /\ YSocks \ yup' \subseteq (YSocks \ yup) \cup {s} /\ s \in ybeen'
    BY <1>1, Zenon
<1>6. YDown'
    <2>1. YSocks \ yup' \subseteq ybeen'
        BY <1>2, <1>5, Zenon DEF YDown
    <2> QED
        BY <1>1, <1>2, <1>5, <2>1, Zenon DEF YDown
<1>7. YProbes' /\ YHidden'
    BY <1>1, <1>2, <1>5, Zenon DEF YProbes, YHidden
<1> QED
    BY <1>3, <1>4, <1>6, <1>7, Zenon DEF YInv

(* The table is freed when nothing reads it any more (svc_destroy).        *)
LEMMA TableFreed ==
    ASSUME YInv, YDestroy
    PROVE  YInv'
<1>1. /\ ylock = {} /\ yphase' = "gone"
      /\ yreg' = <<>> /\ ylinks' = <<>> /\ ysocks' = <<>>
      /\ yat' = yat /\ yup' = yup /\ ypoll' = ypoll /\ ylock' = ylock /\ yseen' = yseen
      /\ yhid' = yhid /\ ybeen' = ybeen
    BY Zenon DEF YDestroy
<1>2. YTypeOK /\ YDown /\ YProbes
    BY Zenon DEF YInv
<1>3. DOMAIN <<>> = {} /\ 1..Len(ylinks') = {} /\ ylinks' \in Seq(YIds \X YSocks)
    BY <1>1
<1>4. YTypeOK'
    BY <1>1, <1>2, <1>3, Zenon DEF YTypeOK
<1>5. YTable' /\ YSeen' /\ YLocked'
    BY <1>1, <1>3, FS_EmptySet, Zenon DEF YTable, YSeen, YLocked
<1>6. YLinked' /\ YDown'
    BY <1>1, <1>2, <1>3, Zenon DEF YLinked, YDown
<1>7. YProbes' /\ YHidden'
    BY <1>1, <1>2, <1>3, Zenon DEF YProbes, YHidden
<1> QED
    BY <1>4, <1>5, <1>6, <1>7, Zenon DEF YInv

(* Every step of the tool table keeps the invariant.                       *)
LEMMA TableStep == YInv /\ [YNext]_yvars => YInv'
<1> SUFFICES ASSUME YInv, [YNext]_yvars PROVE YInv'
    OBVIOUS
<1>1. CASE UNCHANGED yvars
    <2>1. /\ yphase' = yphase /\ yat' = yat /\ yreg' = yreg /\ ylinks' = ylinks /\ ysocks' = ysocks
          /\ yup' = yup /\ ypoll' = ypoll /\ ylock' = ylock /\ yseen' = yseen /\ yhid' = yhid
          /\ ybeen' = ybeen
        BY <1>1, Zenon DEF yvars
    <2>2. YTypeOK /\ YTable /\ YSeen /\ YLocked /\ YLinked /\ YDown /\ YProbes /\ YHidden
        BY Zenon DEF YInv
    <2>3. YTypeOK' /\ YTable' /\ YSeen'
        BY <2>1, <2>2, Zenon DEF YTypeOK, YTable, YSeen
    <2>4. YLocked' /\ YLinked'
        BY <2>1, <2>2, Zenon DEF YLocked, YLinked
    <2>5. YDown' /\ YProbes' /\ YHidden'
        BY <2>1, <2>2, Zenon DEF YDown, YProbes, YHidden
    <2> QED
        BY <2>3, <2>4, <2>5, Zenon DEF YInv
<1>2. ASSUME NEW c \in YClients, NEW m \in YOffered, handle_register(c, m) PROVE YInv'
    BY <1>2, ClientRegisters, Zenon
<1>3. ASSUME NEW c \in YClients, list_locks(c) PROVE YInv'
    BY <1>3, ListingLocks, Zenon
<1>4. ASSUME NEW p \in YPolls, poll_starts(p) \/ sock_probe(p) \/ poll_records(p) PROVE YInv'
    BY <1>4, ProbesBegin, ProbeAnswers, ProbeRecords, Zenon
<1>5. ASSUME NEW s \in YSocks, daemon_flips(s) PROVE YInv'
    BY <1>5, DaemonFlips, Zenon
<1>6. CASE register_builtin_tools \/ YDestroy \/ tool_registry_list_json
    BY <1>6, BuiltinsRegister, TableFreed, ListingGoesOn, Zenon
<1> QED
    BY <1>1, <1>2, <1>3, <1>4, <1>5, <1>6, Zenon DEF YNext

(* Whatever clients register and list, however the daemons come and go and *)
(* the probes overlap, the table, the listings and the availability view   *)
(* keep the invariant.                                                     *)
THEOREM TableInvariant == YSpec => []YInv
<1>1. YInit => YInv
    BY TableStarts, Zenon
<1>2. YInv /\ [YNext]_yvars => YInv'
    BY TableStep, Zenon
<1> QED
    BY <1>1, <1>2, PTL DEF YSpec

(* A listed schema says which arguments of a call pass the check.          *)
HonestAbout(listed, params) ==
    \A given \in SUBSET DOMAIN listed : \A args \in [given -> YValues] :
        tool_validator_validate(params, args) <=>
          \A p \in DOMAIN listed :
              IF p \in given THEN Conforms(listed[p], args[p]) ELSE ~listed[p].req

(* For every table, clients, daemons and probe tasks: while a client holds *)
(* a listing, a call of a listed tool passes tool_validator_validate       *)
(* exactly when its arguments are those the listing asks for, and a        *)
(* listing left out no tool but those whose daemon was down at some time.  *)
THEOREM ListingTellsTruth == YSpec => []CallAsAdvertised
<1>1. YInv => CallAsAdvertised
    <2> SUFFICES ASSUME YInv PROVE CallAsAdvertised
        OBVIOUS
    <2>1. YTypeOK /\ YTable /\ YSeen /\ YHidden
        BY Zenon DEF YInv
    <2>2. ASSUME NEW c \in YClients, yphase = "serve", NEW id \in DOMAIN yseen[c]
          PROVE  id \in DOMAIN yreg /\ HonestAbout(yseen[c][id], yreg[id])
        <3>1. id \in DOMAIN yreg /\ yseen[c][id] = yreg[id]
            BY <2>1, <2>2, Zenon DEF YSeen
        <3>2. PICK params : params = yreg[id] /\ params = yseen[c][id] /\ YTakes(params)
            BY <2>1, <3>1, Zenon DEF YTable
        <3>3. HonestAbout(params, params)
            BY <3>2, AllParameters, Zenon DEF HonestAbout
        <3> QED
            BY <3>1, <3>2, <3>3, Zenon
    <2>3. DOMAIN ylinks = 1..Len(ylinks)
        <3>1. PICK S : S = YIds \X YSocks
            BY Zenon
        <3>2. ylinks \in Seq(S)
            BY <2>1, <3>1, Zenon DEF YTypeOK
        <3> QED
            BY <3>2
    <2>4. \A c \in YClients : \A i \in DOMAIN ylinks : ylinks[i][1] \in yhid[c] => ylinks[i][2] \in ybeen
        BY <2>1, <2>3, Zenon DEF YHidden
    <2> QED
        BY <2>2, <2>4, Zenon DEF CallAsAdvertised, HonestAbout
<1> QED
    BY <1>1, TableInvariant, PTL
=============================================================================
