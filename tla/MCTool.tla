------------------------------- MODULE MCTool -------------------------------
(* tool_d for TLC: one component at a time, chosen by "unit".  The components *)
(* share no state, so a behaviour of one is explored with the others at rest. *)
EXTENDS ToolExec, ToolPlugin, ToolRegistry, ToolProc, ToolFs

VARIABLE unit

MCReqs == {"r1", "r2"}
Call(t, a, p) == [tool |-> t, agent |-> a, par |-> p]
Pair(c, d) == ("r1" :> c) @@ ("r2" :> d)
MCCalls == {Pair(Call("sh", "a", "p"), Call("sh", "b", "p")),
            Pair(Call("fs", "a", "p"), Call("fs", "a", "p")),
            Pair(Call("nil", "a", "p"), Call("fs", "b", "denied")),
            Pair(Call("sh", "a", "malformed"), Call("gone", "a", "p"))}
MCToolTab == [sh |-> [exe |-> "cmd", cacheable |-> TRUE],
              fs |-> [exe |-> "builtin", cacheable |-> TRUE],
              nil |-> [exe |-> "none", cacheable |-> FALSE]]
MCAcl == {<<"a", "sh">>, <<"a", "fs">>}

\* Two libraries with the same plugin name, and one that lacks plugin_destroy.
MCLib == [one |-> [name |-> "p", syms |-> {"metadata", "init", "destroy", "start", "execute"}],
          two |-> [name |-> "p", syms |-> {"metadata", "init", "destroy"}],
          bad |-> [name |-> "q", syms |-> {"metadata", "init"}]]
Line(k, v) == [key |-> k, val |-> v]
Manifest(n, lib, perm) == <<Line("name", n), Line("type", "tool_provider"), Line("api_version", 1),
                            Line("min_airy_version", 1), Line("library", lib), Line("-", perm)>>
MCDirs == {{}, {<<{Manifest("p", "one", "file_read")}>>},
           {<<{}, {Manifest("other", "two", "file_read")}, {Tail(Manifest("p", "one", "file_read"))},
             {Manifest("q", "bad", "mind_read")}>>}}
Do(o, x) == [op |-> o, arg |-> x]
MCJobs == {[t1 |-> Do("load", "one"), t2 |-> Do("load", "two"), t3 |-> Do("unload", "p")],
           [t1 |-> Do("start", "p"), t2 |-> Do("unload", "p"), t3 |-> Do("load", "two")],
           [t1 |-> Do("execute", "p"), t2 |-> Do("stop", "p"), t3 |-> Do("unload", "p")],
           [t1 |-> Do("start", "p"), t2 |-> Do("start", "p"), t3 |-> Do("load", "bad")]}
MCThreads == {"t1", "t2", "t3"}

Schema(t, lo, hi, req) == [type |-> t, lo |-> lo, hi |-> hi, req |-> req]
Tool(id, ps, dep) == [id |-> id, params |-> ps, dep |-> dep]
MCBuiltin == <<Tool("fs", [path |-> Schema({"string"}, {1}, {2}, TRUE),
                           all |-> Schema({"boolean"}, {}, {}, FALSE)], ""),
               Tool("calc", [n |-> Schema({"integer"}, {2}, {}, TRUE),
                             x |-> Schema({"number"}, {}, {3}, FALSE)], "maths"),
               Tool("plot", [xs |-> Schema({"array"}, {}, {1}, TRUE)], "maths"),
               Tool("late", [q |-> Schema({}, {}, {}, FALSE)], "mem")>>
MCOffered == {Tool("fs", [path |-> Schema({"object"}, {}, {}, TRUE)], ""),
              Tool("mine", [o |-> Schema({"object"}, {}, {}, TRUE)], "")}
MCValues == {[kind |-> k, n |-> n] : k \in {"string", "number", "array"}, n \in 0..3}
            \cup {[kind |-> k, n |-> 0] : k \in {"boolean", "object", "null"}}

Cmd(t, sc, n) == [tool |-> t, script |-> sc, stdin |-> n]
MCCmds == {[w1 |-> Cmd("git", <<"readall", "write", "exit0">>, 2),
            w2 |-> Cmd("shell_run", <<"write", "write", "write", "exit0">>, 0)],
           [w1 |-> Cmd("shell_run", <<"write", "hang">>, 0),
            w2 |-> Cmd("git", <<"readall", "exit1">>, 1)],
           [w1 |-> Cmd("web_fetch", <<"write", "exit0">>, 0),
            w2 |-> Cmd("web_search", <<"write", "exit0">>, 0)],
           [w1 |-> Cmd("web_fetch", <<"exit127">>, 0),
            w2 |-> Cmd("web_fetch", <<"write", "write", "write", "write", "write", "write", "exit0">>, 0)]}

FsJob(o, x) == [op |-> o] @@ x
MCFsTree == (<<>> :> Dir) @@ (<<<<"s">>>> :> Dir) @@ (<<<<"s">>, <<"a", "b">>>> :> File(<<"x", "x", "x", "y">>))
            @@ (<<<<"b">>>> :> File(<<"y">>)) @@ (<<<<"n">>>> :> Dir) @@ (<<<<"n">>, <<"b">>>> :> File(<<"y">>))
MCFsDeep == MCFsTree @@ (<<<<"s">>, <<"s">>>> :> Dir) @@ (<<<<"s">>, <<"s">>, <<"s">>>> :> Dir)
            @@ (<<<<"s">>, <<"s">>, <<"s">>, <<"b">>>> :> File(<<"y">>))
MCFsTrees == {MCFsTree, MCFsDeep}
MCNoise == {<<"n">>}
ab == <<<<"s">>, <<"a", "b">>>>
Edit(o, n, c) == FsJob("edit", [path |-> ab, old |-> o, new |-> n, count |-> c])
Glob(segs) == FsJob("glob", [segs |-> segs])
MCFsJobs ==
    {[w1 |-> Edit(<<"x">>, <<"x", "x">>, 2), w2 |-> Edit(<<"x", "x">>, <<>>, 2)],
     [w1 |-> Edit(<<"z">>, <<"x">>, 1), w2 |-> FsJob("write", [path |-> ab, text |-> <<"z", "z">>, create |-> FALSE])],
     [w1 |-> FsJob("delete", [path |-> <<<<"s">>>>, recursive |-> TRUE]),
      w2 |-> FsJob("write", [path |-> <<<<"s">>, <<"c">>, <<"d">>>>, text |-> <<"z">>, create |-> TRUE])],
     [w1 |-> FsJob("delete", [path |-> <<<<"s">>>>, recursive |-> TRUE]),
      w2 |-> FsJob("delete", [path |-> ab, recursive |-> FALSE])],
     [w1 |-> FsJob("delete", [path |-> <<<<"s">>>>, recursive |-> FALSE]), w2 |-> FsJob("read", [path |-> ab])],
     [w1 |-> Glob(<<<<"**">>, <<"*", "b">>>>), w2 |-> Glob(<<<<"?">>, <<"*", "*">>>>)],
     [w1 |-> Glob(<<<<"s">>, <<"**">>>>), w2 |-> Glob(<<<<"a", "?">>>>)],
     [w1 |-> FsJob("grep", [pat |-> "y", glob |-> {}]), w2 |-> FsJob("grep", [pat |-> "y", glob |-> {<<"?">>}])],
     [w1 |-> FsJob("write", [path |-> <<<<"b">>, <<"c">>>>, text |-> <<"z">>, create |-> TRUE]),
      w2 |-> FsJob("write", [path |-> <<<<"c">>, <<"c">>>>, text |-> <<"z">>, create |-> FALSE])],
     [w1 |-> FsJob("list", [path |-> <<>>]), w2 |-> FsJob("list", [path |-> ab])],
     [w1 |-> FsJob("read", [path |-> <<<<"z">>>>]), w2 |-> FsJob("list", [path |-> <<<<"s">>>>])],
     [w1 |-> FsJob("delete", [path |-> <<<<"s">>>>, recursive |-> TRUE]), w2 |-> Edit(<<"y">>, <<>>, 1)]}

Units == {"exec", "plugin", "registry", "proc", "fs"}
vars == <<unit, tvars, gvars, yvars, xvars, fvars>>

Init ==
    /\ unit \in Units
    /\ TInit /\ (unit # "exec" => treq = (CHOOSE c \in TCalls : TRUE)
                               /\ tcfg = [rate |-> 0, inter |-> FALSE, broken |-> {}])
    /\ GInit /\ (unit # "plugin" => gjob = (CHOOSE j \in GJobs : TRUE)
                                 /\ gdir = {})
    /\ YInit /\ (unit # "registry" => yup = {})
    /\ XInit /\ (unit # "proc" => xjob = (CHOOSE j \in XJobs : TRUE))
    /\ FInit /\ (unit # "fs" => fjob = (CHOOSE j \in FJobs : TRUE) /\ ftree = (CHOOSE t \in FTrees : TRUE))
Next ==
    /\ UNCHANGED unit
    /\ \/ unit = "exec" /\ TNext /\ UNCHANGED <<gvars, yvars, xvars, fvars>>
       \/ unit = "plugin" /\ GNext /\ UNCHANGED <<tvars, yvars, xvars, fvars>>
       \/ unit = "registry" /\ YNext /\ UNCHANGED <<tvars, gvars, xvars, fvars>>
       \/ unit = "proc" /\ XNext /\ UNCHANGED <<tvars, gvars, yvars, fvars>>
       \/ unit = "fs" /\ FNext /\ UNCHANGED <<tvars, gvars, yvars, xvars>>
Spec == Init /\ [][Next]_vars

(* The built-in tools answer truthfully, those that run a command and those   *)
(* that work on files: CaptureHonest and FsToolsExact.                        *)
(* (builtin_proc_capture, fs_edit_tool, builtin_glob_impl, grep_walk)         *)
BuiltinsHonest == CaptureHonest /\ FsToolsExact
=============================================================================
