------------------------------- MODULE ToolFs -------------------------------
(* The file tools of tool_d: fs_read, fs_write, fs_edit, fs_list, fs_glob,    *)
(* fs_grep and fs_delete, run by pool workers on one workspace.  A path is a  *)
(* sequence of names; the tree is a function from paths to [kind, text].      *)
(* A name and a text are sequences of letters.  A write replaces the file at  *)
(* once (temporary file and rename); an edit is a read and then a write; a    *)
(* recursive delete removes one entry at a time.  A scan sees one tree.       *)
EXTENDS DaemonBase, FiniteSets, SequencesExt

CONSTANTS
    FWorkers,       \* pool workers
    FTrees,         \* the workspaces to begin with
    FJobs,          \* a set of functions worker -> tool call
    FNoise,         \* builtin_scan_noise_dir: names that scans pass over
    FCap,           \* BUILTIN_OUTPUT_CAP: letters a read returns
    FGlobMax, FGrepMax, FListMax,   \* BUILTIN_GLOB_MAX, max_results, BUILTIN_LIST_MAX_ENTRIES
    FMaxDepth,      \* BUILTIN_SCAN_MAX_DEPTH
    FMaxFile        \* BUILTIN_SCAN_MAX_FILE_BYTES

VARIABLES
    ftree,          \* path -> [kind, text]
    fjob,           \* worker -> the call it runs
    fpc,            \* worker -> where it is
    fgot,           \* worker -> what it has read or still has to remove
    fres            \* worker -> {} or its answer, with the tree it was read from

fvars == <<ftree, fjob, fpc, fgot, fres>>
File(t) == [kind |-> "file", text |-> t]
Dir == [kind |-> "dir", text |-> <<>>]
FInit ==
    /\ ftree \in FTrees /\ fjob \in FJobs
    /\ fpc = [w \in FWorkers |-> "call"]
    /\ fgot = [w \in FWorkers |-> <<>>]
    /\ fres = [w \in FWorkers |-> {}]

FGoto(w, l) == fpc' = [fpc EXCEPT ![w] = l]
FReply(w, ok, out) ==
    /\ fres' = [fres EXCEPT ![w] = {[ok |-> ok, out |-> out, tree |-> ftree]}]
    /\ FGoto(w, "done")
IsDir(p) == p \in DOMAIN ftree /\ ftree[p].kind = "dir"
IsFile(p) == p \in DOMAIN ftree /\ ftree[p].kind = "file"
\* readdir: the names in a directory.
Entries(p) == {q \in DOMAIN ftree : q # <<>> /\ Front(q) = p}

-----------------------------------------------------------------------------
(* builtin_read_all, fs_read_whole.                                           *)
fs_read_whole(p) == SubSeq(ftree[p].text, 1, MinOf(Len(ftree[p].text), FCap))
fs_read_tool(w) ==
    LET j == fjob[w]
    IN  /\ fpc[w] = "call" /\ j.op = "read"
        /\ IF IsFile(j.path) THEN FReply(w, TRUE, fs_read_whole(j.path)) ELSE FReply(w, FALSE, <<>>)
        /\ UNCHANGED <<ftree, fjob, fgot>>

\* fs_write_parents: make the missing parents, or ask for the direct one.
Parents(p) == {SubSeq(p, 1, k) : k \in 1..(Len(p) - 1)}
fs_write_parents(p, create) ==
    IF create THEN \A q \in Parents(p) : ~IsFile(q) ELSE IsDir(Front(p))
fs_write_tool(w) ==
    LET j == fjob[w]
    IN  /\ fpc[w] = "call" /\ j.op = "write"
        /\ IF fs_write_parents(j.path, j.create) /\ ~IsDir(j.path)
           THEN /\ ftree' = (j.path :> File(j.text)) @@ [q \in Parents(j.path) |-> Dir] @@ ftree
                /\ FReply(w, TRUE, <<>>)
           ELSE FReply(w, FALSE, <<>>) /\ UNCHANGED ftree
        /\ UNCHANGED <<fjob, fgot>>

-----------------------------------------------------------------------------
(* fs_edit: strstr from the left, over occurrences that do not overlap.       *)
AtPos(s, old, i) == SubSeq(s, i, i + Len(old) - 1) = old
RECURSIVE Total(_, _, _)
Total(s, old, i) ==
    IF i + Len(old) - 1 > Len(s) THEN 0
    ELSE IF AtPos(s, old, i) THEN 1 + Total(s, old, i + Len(old)) ELSE Total(s, old, i + 1)
RECURSIVE Rebuild(_, _, _, _, _)
Rebuild(s, old, new, i, reps) ==
    IF reps = 0 \/ i + Len(old) - 1 > Len(s) THEN SubSeq(s, i, Len(s))
    ELSE IF AtPos(s, old, i) THEN new \o Rebuild(s, old, new, i + Len(old), reps - 1)
    ELSE <<s[i]>> \o Rebuild(s, old, new, i + 1, reps)
edit_reps(s, j) == MinOf(Total(s, j.old, 1), j.count)

fs_edit_reads(w) ==
    LET j == fjob[w]
    IN  /\ fpc[w] = "call" /\ j.op = "edit"
        /\ IF ~IsFile(j.path) \/ Total(fs_read_whole(j.path), j.old, 1) = 0
           THEN FReply(w, FALSE, <<>>) /\ UNCHANGED fgot
           ELSE /\ fgot' = [fgot EXCEPT ![w] = fs_read_whole(j.path)]
                /\ FGoto(w, "edit") /\ UNCHANGED fres
        /\ UNCHANGED <<ftree, fjob>>
fs_edit_writes(w) ==
    LET j == fjob[w]
        new == Rebuild(fgot[w], j.old, j.new, 1, edit_reps(fgot[w], j))
    IN  /\ fpc[w] = "edit"
        /\ IF IsDir(Front(j.path)) /\ ~IsDir(j.path)
           THEN ftree' = (j.path :> File(new)) @@ ftree /\ FReply(w, TRUE, new)
           ELSE FReply(w, FALSE, <<>>) /\ UNCHANGED ftree
        /\ UNCHANGED <<fjob, fgot>>

-----------------------------------------------------------------------------
(* builtin_glob_seg_match: * and ? within one name.                           *)
RECURSIVE DropStars(_)
DropStars(pat) == IF pat # <<>> /\ Head(pat) = "*" THEN DropStars(Tail(pat)) ELSE pat
RECURSIVE builtin_glob_seg_match(_, _)
builtin_glob_seg_match(pat, str) ==
    IF pat = <<>> THEN str = <<>>
    ELSE IF Head(pat) = "*"
    THEN LET rest == DropStars(pat)
         IN  rest = <<>> \/ \E k \in 1..Len(str) : builtin_glob_seg_match(rest, SubSeq(str, k, Len(str)))
    ELSE /\ str # <<>>
         /\ Head(pat) \in {"?", Head(str)}
         /\ builtin_glob_seg_match(Tail(pat), Tail(str))

\* glob_prune and the walk; "**" stands for any number of directories.
Pruned(q, dirs_only) == Last(q) \in FNoise \/ (dirs_only /\ ~IsDir(q))
RECURSIVE builtin_glob_impl(_, _, _)
builtin_glob_impl(segs, i, p) ==
    IF i > Len(segs) THEN IF p = <<>> THEN {} ELSE {p}
    ELSE LET star == segs[i] = <<"**">>
             next == IF star THEN i ELSE i + 1
             walk == {q \in Entries(p) : (star \/ builtin_glob_seg_match(segs[i], Last(q)))
                                         /\ ~Pruned(q, star \/ next <= Len(segs))}
         IN  (IF star THEN builtin_glob_impl(segs, i + 1, p) ELSE {})
             \cup UNION {builtin_glob_impl(segs, next, q) : q \in walk}
\* The walk stops at the limit, in the order the directories are read.  (With one "**"
\* no path is met twice.)
fs_glob_tool(w) ==
    LET j == fjob[w]
        all == builtin_glob_impl(j.segs, 1, <<>>)
    IN  /\ fpc[w] = "call" /\ j.op = "glob"
        /\ \E out \in SUBSET all : Cardinality(out) = MinOf(Cardinality(all), FGlobMax)
                                   /\ FReply(w, out # {}, out)
        /\ UNCHANGED <<ftree, fjob, fgot>>

-----------------------------------------------------------------------------
(* fs_list, fs_grep.                                                          *)
fs_list_tool(w) ==
    LET j == fjob[w]
    IN  /\ fpc[w] = "call" /\ j.op = "list"
        /\ IF ~IsDir(j.path) THEN FReply(w, FALSE, {})
           ELSE \E out \in SUBSET Entries(j.path) :
                  /\ Cardinality(out) = MinOf(Cardinality(Entries(j.path)), FListMax)
                  /\ FReply(w, TRUE, out)
        /\ UNCHANGED <<ftree, fjob, fgot>>

\* The files grep_walk reaches: it passes over noise and large files, and a directory
\* that lies too deep ends the whole walk (grep_stop).
RECURSIVE grep_walk(_, _, _)
grep_walk(p, depth, glob) ==
    LET in == {q \in Entries(p) : Last(q) \notin FNoise}
    IN  {q \in in : IsFile(q) /\ Len(ftree[q].text) <= FMaxFile
                    /\ (glob = {} \/ \E g \in glob : builtin_glob_seg_match(g, Last(q)))}
        \cup UNION {grep_walk(q, depth + 1, glob) : q \in {d \in in : IsDir(d) /\ depth < FMaxDepth}}
TooDeep == \E q \in DOMAIN ftree : IsDir(q) /\ Len(q) > FMaxDepth
                                   /\ \A k \in 1..Len(q) : q[k] \notin FNoise
grep_file(q, pat) == pat \in Range(ftree[q].text)
fs_grep_tool(w) ==
    LET j == fjob[w]
        hits == {q \in grep_walk(<<>>, 0, j.glob) : grep_file(q, j.pat)}
    IN  /\ fpc[w] = "call" /\ j.op = "grep"
        /\ \E out \in SUBSET hits :
              /\ IF TooDeep THEN Cardinality(out) <= FGrepMax
                 ELSE Cardinality(out) = MinOf(Cardinality(hits), FGrepMax)
              /\ FReply(w, out # {}, out)
        /\ UNCHANGED <<ftree, fjob, fgot>>

-----------------------------------------------------------------------------
(* fs_delete: a file, an empty directory, or with "recursive" a tree, entries *)
(* before the directory that holds them; the first failure ends it.           *)
Below(p) == {q \in DOMAIN ftree : IsPrefix(p, q)}
fs_delete_tool(w) ==
    LET j == fjob[w]
    IN  /\ fpc[w] = "call" /\ j.op = "delete"
        /\ IF j.path \notin DOMAIN ftree \/ j.path = <<>>
              \/ (IsDir(j.path) /\ Entries(j.path) # {} /\ ~j.recursive)
           THEN FReply(w, FALSE, {}) /\ UNCHANGED ftree
           ELSE IF IsDir(j.path) /\ j.recursive
           THEN FGoto(w, "tree") /\ UNCHANGED <<ftree, fres>>
           ELSE ftree' = [q \in DOMAIN ftree \ {j.path} |-> ftree[q]] /\ FReply(w, TRUE, {})
        /\ UNCHANGED <<fjob, fgot>>
\* One unlink or rmdir of fs_delete_tree, deepest first.  It fails on a directory that
\* lies too deep, and on an entry that another worker has just removed.
TreeFails(w) ==
    \/ fjob[w].path \notin DOMAIN ftree
    \/ \E q \in Below(fjob[w].path) : IsDir(q) /\ Len(q) - Len(fjob[w].path) > FMaxDepth
    \/ \E v \in FWorkers \ {w} : fjob[v].op = "delete" /\ fpc[v] # "call"
fs_delete_tree(w) ==
    LET j == fjob[w]
    IN  /\ fpc[w] = "tree"
        /\ \/ TreeFails(w) /\ FReply(w, FALSE, {}) /\ UNCHANGED ftree
           \/ \E q \in Below(j.path) :
                  /\ Entries(q) = {} /\ (IsDir(q) => Len(q) - Len(j.path) <= FMaxDepth)
                  /\ ftree' = [x \in DOMAIN ftree \ {q} |-> ftree[x]]
                  /\ IF q = j.path THEN FReply(w, TRUE, {}) ELSE UNCHANGED <<fpc, fres>>
        /\ UNCHANGED <<fjob, fgot>>

FNext ==
    \E w \in FWorkers :
        \/ fs_read_tool(w) \/ fs_write_tool(w) \/ fs_edit_reads(w) \/ fs_edit_writes(w)
        \/ fs_glob_tool(w) \/ fs_list_tool(w) \/ fs_grep_tool(w)
        \/ fs_delete_tool(w) \/ fs_delete_tree(w)

-----------------------------------------------------------------------------
(* References, without recursion: an alignment of pattern and text is a       *)
(* function that says how far each part of the pattern reaches.               *)
Reach(f, i) == IF i = 0 THEN 0 ELSE f[i]
NameMatches(pat, str) ==
    \E f \in [1..Len(pat) -> 0..Len(str)] :
        /\ Reach(f, Len(pat)) = Len(str)
        /\ \A i \in 1..Len(pat) :
             IF pat[i] = "*" THEN f[i] >= Reach(f, i - 1)
             ELSE f[i] = Reach(f, i - 1) + 1 /\ pat[i] \in {"?", str[f[i]]}
PathMatches(tree, segs, p) ==
    \E f \in [1..Len(segs) -> 0..Len(p)] :
        /\ Reach(f, Len(segs)) = Len(p)
        /\ \A i \in 1..Len(segs) :
             IF segs[i] = <<"**">>
             THEN f[i] >= Reach(f, i - 1) /\ \A k \in (Reach(f, i - 1) + 1)..f[i] :
                                                 tree[SubSeq(p, 1, k)].kind = "dir"
             ELSE f[i] = Reach(f, i - 1) + 1 /\ NameMatches(segs[i], p[f[i]])
Seen(tree) == {p \in DOMAIN tree \ {<<>>} : \A k \in 1..Len(p) : p[k] \notin FNoise}

\* out is s with its first "count" occurrences of old, from the left, replaced by new.
Replaced(s, old, new, count, out) ==
    LET occ == {i \in 1..(Len(s) - Len(old) + 1) : AtPos(s, old, i)}
        left == CHOOSE P \in SUBSET occ :
                   \A i \in occ : (i \in P) <=> ~\E p \in P : p < i /\ i < p + Len(old)
        P == {i \in left : Cardinality({p \in left : p <= i}) <= count}
        shift(i) == Cardinality({p \in P : p < i}) * (Len(new) - Len(old))
    IN  /\ Len(out) = Len(s) + Cardinality(P) * (Len(new) - Len(old))
        /\ \A p \in P : SubSeq(out, p + shift(p), p + shift(p) + Len(new) - 1) = new
        /\ \A i \in 1..Len(s) :
             (~\E p \in P : p <= i /\ i < p + Len(old)) => out[i + shift(i)] = s[i]

(* Each file tool answers exactly: an edit writes the text it read with the   *)
(* first occurrences replaced and nothing else changed; a glob and a grep     *)
(* return the paths that match, all of them unless a limit was reached; and a *)
(* listing the entries of the directory.                                      *)
(* (fs_edit_tool, builtin_glob_impl, grep_walk, fs_list_tool)                 *)
FsToolsExact ==
    \A w \in FWorkers : \A r \in fres[w] :
        LET j == fjob[w]
            upto(out, ref, max) == out \subseteq ref /\ Cardinality(out) = MinOf(Cardinality(ref), max)
        IN  /\ j.op = "edit" /\ r.ok => Replaced(fgot[w], j.old, j.new, j.count, r.out)
            /\ j.op = "glob" => upto(r.out, {p \in Seen(r.tree) : PathMatches(r.tree, j.segs, p)}, FGlobMax)
            /\ j.op = "list" /\ r.ok =>
                 upto(r.out, {p \in DOMAIN r.tree : p # <<>> /\ Front(p) = j.path}, FListMax)
            /\ j.op = "grep" =>
                 LET ref == {p \in Seen(r.tree) :
                               /\ r.tree[p].kind = "file" /\ Len(r.tree[p].text) <= FMaxFile
                               /\ j.pat \in Range(r.tree[p].text)
                               /\ \A g \in j.glob : NameMatches(g, Last(p))}
                 IN  /\ r.out \subseteq ref
                     /\ \/ Cardinality(r.out) = MinOf(Cardinality(ref), FGrepMax)
                        \/ \E p \in Seen(r.tree) : r.tree[p].kind = "dir" /\ Len(p) > FMaxDepth
=============================================================================
