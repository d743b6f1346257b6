----------------------------- MODULE ToolPlugin -----------------------------
(* The plugin host of tool_d.  At start the plugin directory is scanned, the  *)
(* manifests are checked against the permission table, and what is allowed is *)
(* loaded and started.  From then on RPC threads load, start, stop, execute   *)
(* and unload plugins.  The registry is behind a lock; the callbacks init,    *)
(* start and execute run outside it.                                          *)
(*                                                                            *)
(* A library is a member of GLibs; dlopen counts its openings (gopen), and    *)
(* its code can be called while the count is positive.  An instance is one    *)
(* plugin_node_t, numbered in the order of the loads.                         *)
EXTENDS DaemonBase, FiniteSetsExt

CONSTANTS
    GDirs,         \* plugins_dir: {} if absent, else {sequence of its entries}
    GLib,          \* [GLibs -> [name, syms]]: what a library exports
    GPerms,        \* the permission names of PERM_META
    GMaxPlugins,   \* PLUGIN_DISCOVERY_MAX_PLUGINS
    GThreads,      \* RPC threads
    GJobs          \* what they are asked: a set of [GThreads -> [op, arg]]

\* A request to load names a library that GLib describes.
ASSUME PluginAssumption ==
    /\ IsFiniteSet(GThreads)
    /\ \A job \in GJobs, t \in GThreads : job[t].op = "load" => job[t].arg \in DOMAIN GLib

VARIABLES
    gdir,          \* entries of the plugin directory, as GDirs
    gjob,          \* the member of GJobs this behaviour is about
    gphase,        \* scan, load, serve, stopped
    gat,           \* index of the scan or of the load loop
    gfound,        \* g_discovered: the valid manifests
    gfrees,        \* how often that array was freed
    gnodes,        \* the registry list: instances, newest first
    ginst,         \* instance -> [lib, state, errors, destroyed, badstop]
    gopen,         \* library -> times it is open
    gpc,           \* thread -> [at, inst]: where it is, the instance it holds
    gans           \* thread -> what it answered

gvars == <<gdir, gjob, gphase, gat, gfound, gfrees, gnodes, ginst, gopen, gpc, gans>>

GLibs == DOMAIN GLib
GFree == [at |-> "free", inst |-> 0]

plugin_rpc_init ==
    /\ gdir \in GDirs
    /\ gphase = "scan"
    /\ gat = 1
    /\ gfound = <<>>
    /\ gfrees = 0

GInit ==
    /\ gjob \in GJobs
    /\ plugin_rpc_init
    /\ gnodes = <<>>
    /\ ginst = <<>>
    /\ gopen = [l \in GLibs |-> 0]
    /\ gpc = [t \in GThreads |-> GFree]
    /\ gans = [t \in GThreads |-> "none"]

-----------------------------------------------------------------------------
(* Discovery.  A manifest is a sequence of lines [key, val]; key is the first *)
(* field name the text of the line begins with, "-" for a permission item.    *)

\* The value of a field: the last line for it, {} if there is none.
GFieldOf(m, k) ==
    LET at == {i \in DOMAIN m : m[i].key = k}
    IN  IF at = {} THEN {} ELSE {m[Max(at)].val}
GPermsOf(m) == {m[i].val : i \in {j \in DOMAIN m : m[j].key = "-"}}
PluginTypes == {"tool_provider", "protocol_adapter", "memory_provider", "hook_extension"}

\* The required fields; atoi makes 0 of an api version that is not a number.
parse_manifest(m) ==
    /\ GFieldOf(m, "name") # {}
    /\ GFieldOf(m, "library") # {}
    /\ GFieldOf(m, "type") \in {{t} : t \in PluginTypes}
    /\ GFieldOf(m, "api_version") \notin {{}, {0}}
    /\ GFieldOf(m, "min_airy_version") \notin {{}, {0}}

DirEntries == IF gdir = {} THEN <<>> ELSE CHOOSE d \in gdir : TRUE

\* One entry of the directory; a hidden one, a file and one without manifest have no
\* manifest here.  The scan ends with the directory or with a full array.
plugin_discovery_scan ==
    /\ gphase = "scan"
    /\ IF gat > Len(DirEntries) \/ Len(gfound) >= GMaxPlugins
       THEN /\ gphase' = "load" /\ gat' = 1
            /\ UNCHANGED gfound
       ELSE /\ gat' = gat + 1
            /\ gfound' = IF \E m \in DirEntries[gat] : parse_manifest(m)
                         THEN Append(gfound, CHOOSE m \in DirEntries[gat] : TRUE)
                         ELSE gfound
            /\ UNCHANGED gphase
    /\ UNCHANGED <<gdir, gjob, gfrees, gnodes, ginst, gopen, gpc, gans>>

\* Strict mode: some permission declared, each of them known, and granted by the guard
\* (external: it may say no).
plugin_permission_check(m, granted) ==
    /\ GPermsOf(m) # {}
    /\ GPermsOf(m) \subseteq GPerms
    /\ granted

-----------------------------------------------------------------------------
(* plugin_service_load, in the three parts the registry lock cuts it into.    *)

GNameOf(i) == GLib[ginst[i].lib].name
find_node(n) == {i \in Range(gnodes) : GLib[ginst[i].lib].name = n}
\* The list is searched from its head: the newest instance of a name is found.
GNewestAt(n) == CHOOSE k \in DOMAIN gnodes :
    /\ GNameOf(gnodes[k]) = n
    /\ \A j \in 1..(k - 1) : GNameOf(gnodes[j]) # n
GNewestOf(n) == gnodes[GNewestAt(n)]

GLoadable(lib) == {"metadata", "init", "destroy"} \subseteq GLib[lib].syms
GFresh(lib, ok) == [lib |-> lib, state |-> IF ok THEN "initialized" ELSE "error",
                   errors |-> IF ok THEN 0 ELSE 1, destroyed |-> 0, badstop |-> FALSE]

GAnswer(t, a) ==
    /\ gpc' = [gpc EXCEPT ![t] = GFree]
    /\ gans' = [gans EXCEPT ![t] = a]
GHold(t, at, i) == gpc' = [gpc EXCEPT ![t] = [at |-> at, inst |-> i]]
GAsked(t, op) == gphase = "serve" /\ gpc[t].at = "free" /\ gans[t] = "none" /\ gjob[t].op = op
GArgOf(t) == gjob[t].arg

\* A load that keeps the handle of a library it refuses.
opens_keeps(t) ==
    /\ GAsked(t, "load")
    /\ gopen' = [gopen EXCEPT ![GArgOf(t)] = @ + 1]
    /\ IF find_node(GLib[GArgOf(t)].name) = {} /\ GLoadable(GArgOf(t))
       THEN GHold(t, "init", 0) /\ UNCHANGED gans
       ELSE GAnswer(t, "load_refused")
    /\ UNCHANGED <<gdir, gjob, gphase, gat, gfound, gfrees, gnodes, ginst>>

\* dlopen, the metadata, the check that the name is new, and the required symbols; a
\* library refused here is closed again.
load_opens(t) ==
    /\ GAsked(t, "load")
    /\ \/ /\ find_node(GLib[GArgOf(t)].name) = {} /\ GLoadable(GArgOf(t))
          /\ gopen' = [gopen EXCEPT ![GArgOf(t)] = @ + 1]
          /\ GHold(t, "init", 0)
          /\ UNCHANGED gans
       \/ /\ find_node(GLib[GArgOf(t)].name) # {} \/ ~GLoadable(GArgOf(t))
          /\ GAnswer(t, "load_refused")
          /\ UNCHANGED gopen
    /\ UNCHANGED <<gdir, gjob, gphase, gat, gfound, gfrees, gnodes, ginst>>

\* plugin_init; when it fails the node is kept, in the error state.
load_inits(t) ==
    /\ gpc[t].at = "init"
    /\ \E ok \in BOOLEAN : ginst' = Append(ginst, GFresh(GArgOf(t), ok))
    /\ GHold(t, "insert", Len(ginst) + 1)
    /\ UNCHANGED <<gdir, gjob, gphase, gat, gfound, gfrees, gnodes, gopen, gans>>

load_inserts(t) ==
    /\ gpc[t].at = "insert"
    /\ gnodes' = <<gpc[t].inst>> \o gnodes
    /\ GAnswer(t, "loaded")
    /\ UNCHANGED <<gdir, gjob, gphase, gat, gfound, gfrees, ginst, gopen>>

-----------------------------------------------------------------------------
\* plugin_service_unload: stop if running, destroy, dlclose and unlink, all under the lock.
plugin_service_unload(t) ==
    /\ GAsked(t, "unload")
    /\ IF find_node(GArgOf(t)) = {}
       THEN /\ GAnswer(t, "not_found")
            /\ UNCHANGED <<gnodes, ginst, gopen>>
       ELSE LET i == GNewestOf(GArgOf(t))
            IN  /\ gnodes' = DropAt(gnodes, GNewestAt(GArgOf(t)))
                /\ ginst' = [ginst EXCEPT ![i].destroyed = @ + 1, ![i].state = "unloaded"]
                /\ gopen' = [gopen EXCEPT ![ginst[i].lib] = @ - 1]
                /\ GAnswer(t, "unloaded")
    /\ UNCHANGED <<gdir, gjob, gphase, gat, gfound, gfrees>>

\* plugin_service_start up to the unlock: the state is set and the callback copied.
start_snapshot(t) ==
    /\ GAsked(t, "start")
    /\ IF find_node(GArgOf(t)) = {}
       THEN GAnswer(t, "not_found") /\ UNCHANGED ginst
       ELSE LET i == GNewestOf(GArgOf(t))
            IN  CASE ginst[i].state = "running" -> GAnswer(t, "started") /\ UNCHANGED ginst
                  [] ginst[i].state = "error" -> GAnswer(t, "state_error") /\ UNCHANGED ginst
                  [] OTHER -> /\ ginst' = [ginst EXCEPT ![i].state = "starting"]
                              /\ GHold(t, "start", i)
                              /\ UNCHANGED gans
    /\ UNCHANGED <<gdir, gjob, gphase, gat, gfound, gfrees, gnodes, gopen>>

\* The callback has run, outside the lock; the node is looked up again by its name.
start_returns(t) ==
    /\ gpc[t].at = "start"
    /\ IF find_node(GArgOf(t)) = {}
       THEN GAnswer(t, "not_found") /\ UNCHANGED ginst
       ELSE \E ok \in BOOLEAN :
              LET i == GNewestOf(GArgOf(t))
              IN  /\ ginst' = [ginst EXCEPT ![i].state = IF ok THEN "running" ELSE "error",
                                            ![i].errors = @ + (IF ok THEN 0 ELSE 1)]
                  /\ GAnswer(t, IF ok THEN "started" ELSE "exec_fail")
    /\ UNCHANGED <<gdir, gjob, gphase, gat, gfound, gfrees, gnodes, gopen>>

\* plugin_service_stop: the callback runs under the lock, and only for a running plugin.
plugin_service_stop(t) ==
    /\ GAsked(t, "stop")
    /\ IF find_node(GArgOf(t)) = {}
       THEN GAnswer(t, "not_found") /\ UNCHANGED ginst
       ELSE LET i == GNewestOf(GArgOf(t))
            IN  /\ ginst' = IF ginst[i].state = "running"
                            THEN [ginst EXCEPT ![i].state = "initialized",
                                               ![i].badstop = @ \/ ginst[i].destroyed > 0 \/ gopen[ginst[i].lib] = 0]
                            ELSE ginst
                /\ GAnswer(t, "stopped")
    /\ UNCHANGED <<gdir, gjob, gphase, gat, gfound, gfrees, gnodes, gopen>>

\* plugin_service_execute: the function is looked up under the lock, in any state, ...
execute_snapshot(t) ==
    /\ GAsked(t, "execute")
    /\ IF find_node(GArgOf(t)) = {} \/ "execute" \notin GLib[ginst[GNewestOf(GArgOf(t))].lib].syms
       THEN GAnswer(t, "not_found")
       ELSE GHold(t, "execute", GNewestOf(GArgOf(t))) /\ UNCHANGED gans
    /\ UNCHANGED <<gdir, gjob, gphase, gat, gfound, gfrees, gnodes, ginst, gopen>>

\* ... and called after the unlock.
execute_calls(t) ==
    /\ gpc[t].at = "execute"
    /\ \E ok \in BOOLEAN : GAnswer(t, IF ok THEN "executed" ELSE "exec_fail")
    /\ UNCHANGED <<gdir, gjob, gphase, gat, gfound, gfrees, gnodes, ginst, gopen>>

\* plugin_service_get_daemon_stats, plugin_service_list: what plugin.* reports.
plugin_service_get_daemon_stats ==
    [plugins |-> Len(gnodes),
     errors |-> SumFunction([k \in DOMAIN gnodes |-> ginst[gnodes[k]].errors])]
plugin_service_get_state(n) ==
    IF find_node(n) = {} THEN "unloaded" ELSE ginst[GNewestOf(n)].state

-----------------------------------------------------------------------------
(* The load loop of plugin_rpc_init: no other thread runs yet.  It starts the *)
(* plugin by the name of the manifest, not by the name the library gave.      *)
GLibOf(m) == CHOOSE v \in GFieldOf(m, "library") : TRUE
prpc_scan_load ==
    /\ gphase = "load"
    /\ IF gat > Len(gfound)
       THEN gphase' = "serve" /\ UNCHANGED <<gat, gnodes, ginst, gopen>>
       ELSE /\ gat' = gat + 1
            /\ UNCHANGED gphase
            /\ \E granted, initOk, startOk \in BOOLEAN :
                 LET m == gfound[gat]
                     lib == GLibOf(m)
                     loads == /\ plugin_permission_check(m, granted)
                              /\ lib \in GLibs /\ GLoadable(lib)
                              /\ find_node(GLib[lib].name) = {}
                     starts == initOk /\ GFieldOf(m, "name") = {GLib[lib].name}
                     new == GFresh(lib, initOk)
                 IN  IF ~loads
                     THEN UNCHANGED <<gnodes, ginst, gopen>>
                     ELSE /\ gnodes' = <<Len(ginst) + 1>> \o gnodes
                          /\ gopen' = [gopen EXCEPT ![lib] = @ + 1]
                          /\ ginst' = Append(ginst,
                                CASE ~starts -> new
                                  [] starts /\ startOk -> [new EXCEPT !.state = "running"]
                                  [] OTHER -> [new EXCEPT !.state = "error", !.errors = @ + 1])
    /\ UNCHANGED <<gdir, gjob, gfound, gfrees, gpc, gans>>

\* Shutdown, after the RPC threads were joined: the array of the scan is freed as
\* g_discovered and, by plugin_discovery_destroy, as g_discovery.results.
plugin_rpc_cleanup ==
    /\ gphase = "serve"
    /\ \A t \in GThreads : gpc[t].at = "free"
    /\ gphase' = "stopped"
    /\ gfrees' = IF gdir = {} THEN 0 ELSE gfrees + 2
    /\ UNCHANGED <<gdir, gjob, gat, gfound, gnodes, ginst, gopen, gpc, gans>>

GNext ==
    \/ plugin_discovery_scan \/ prpc_scan_load \/ plugin_rpc_cleanup
    \/ \E t \in GThreads : \/ load_opens(t) \/ load_inits(t) \/ load_inserts(t)
                           \/ plugin_service_unload(t) \/ plugin_service_stop(t)
                           \/ start_snapshot(t) \/ start_returns(t)
                           \/ execute_snapshot(t) \/ execute_calls(t)

-----------------------------------------------------------------------------
(* Every dlopen is paid back exactly once, whichever thread gets there first: *)
(* a library is open as often as instances of it are in the registry or on    *)
(* their way there; an instance is destroyed at most once, never while it is  *)
(* listed, and never stopped afterwards; and plugin.get_stats counts each     *)
(* listed instance once.                                                      *)
(* (plugin_service_load, plugin_service_unload, plugin_service_stop)          *)
HandlesPaidBack ==
    /\ \A l \in GLibs : gopen[l] =
         Cardinality({i \in Range(gnodes) : ginst[i].lib = l})
         + Cardinality({t \in GThreads : gpc[t].at \in {"init", "insert"} /\ GArgOf(t) = l})
    /\ \A i \in DOMAIN ginst :
         /\ ginst[i].destroyed <= 1 /\ ~ginst[i].badstop
         /\ i \in Range(gnodes) => ginst[i].destroyed = 0
    /\ plugin_service_get_daemon_stats.plugins = Cardinality(Range(gnodes))

=============================================================================
