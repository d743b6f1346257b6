---------------------------- MODULE ToolRegistry ----------------------------
(* The tool table of tool_d: the built-in tools and those that RPC clients    *)
(* register, the listing a model chooses its calls from, the check of a       *)
(* call's arguments, and the availability view that keeps a tool out of the   *)
(* listing while the daemon it depends on is down.  Probes of the daemons run *)
(* on a timer, outside the lock, and may overlap.                             *)
(*                                                                            *)
(* A schema is [type, lo, hi, req]; type is {} or {name}, lo and hi are {} or *)
(* {bound}.  A value is [kind, n]: n is the length of a string or an array,   *)
(* and twice a number, so that an odd n is not an integer.                    *)
EXTENDS DaemonBase, FiniteSetsExt, Functions

CONSTANTS
    YBuiltin,      \* defs[]: sequence of [id, params, dep]
    YOffered,      \* what clients may register: a set of [id, params, dep]
    YSocks,        \* sockets of the daemons tools depend on
    YClients,      \* RPC clients
    YPolls,        \* probe tasks that may be on the way at the same time
    YMaxLink, YMaxSock,   \* TOOL_AVAIL_MAX_LINK, TOOL_AVAIL_MAX_SOCK
    YMaxStr, YMaxArr,     \* MAX_STRING_LEN, MAX_ARRAY_LEN
    YValues        \* the argument values clients try

\* A schema whose type, if it has one, is one the validator knows.
YSchema == [type : {{}} \cup {{t} : t \in {"string", "number", "integer", "array", "boolean", "object"}},
            lo : SUBSET Int, hi : SUBSET Int, req : BOOLEAN]
YTakes(params) == \A p \in DOMAIN params : params[p] \in YSchema

\* No two built-in tools have the same id, a tool depends on a daemon or on none, and the
\* values keep the size limits.
ASSUME TableAssumption ==
    /\ Len(YBuiltin) \in Nat
    /\ \A i \in 1..Len(YBuiltin) :
         /\ YBuiltin[i].dep \in YSocks \cup {""} /\ YTakes(YBuiltin[i].params)
         /\ \A j \in 1..Len(YBuiltin) : YBuiltin[i].id = YBuiltin[j].id => i = j
    /\ \A m \in YOffered : m = [id |-> m.id, params |-> m.params, dep |-> m.dep] /\ YTakes(m.params)
    /\ IsFiniteSet(YSocks)
    /\ \A v \in YValues :
         /\ v.kind \in {"string", "number", "array", "boolean", "object", "null"} /\ v.n \in Nat
         /\ v.kind = "string" => v.n <= YMaxStr
         /\ v.kind = "array" => v.n <= YMaxArr

VARIABLES
    yphase,        \* boot (registering the built-in tools), serve, gone
    yat,           \* built-in tools registered so far
    yreg,          \* id -> params of the registered tools
    ylinks,        \* links[]: sequence of <<tool, socket>>
    ysocks,        \* socket -> up, down or unknown, for those in socks[]
    yup,           \* which daemons really run
    ypoll,         \* probe task -> [rest, got]
    ylock,         \* {} or {[who, rest]}: the listing that holds the registry lock
    yseen,         \* client -> the listing it holds
    yhid,          \* client -> the tools that listing left out
    yans,          \* client -> answer to its last registration
    ybeen          \* history: the daemons that have been down since tool_d serves

yvars == <<yphase, yat, yreg, ylinks, ysocks, yup, ypoll, ylock, yseen, yhid, yans, ybeen>>
YIdle == [rest |-> <<>>, got |-> {}]
\* a set as a sequence, in some order; a table with the entry of a key written
InSomeOrder(S) == CHOOSE q \in [1..Cardinality(S) -> S] : IsInjective(q)
WithEntry(f, k, v) == [x \in DOMAIN f \cup {k} |-> IF x = k THEN v ELSE f[x]]

YInit ==
    /\ yphase = "boot" /\ yat = 0
    /\ yreg = <<>>
    /\ ylinks = <<>>
    /\ ysocks = <<>>
    /\ yup \in SUBSET YSocks
    /\ ypoll = [p \in YPolls |-> YIdle]
    /\ yseen = [c \in YClients |-> <<>>]
    /\ yhid = [c \in YClients |-> {}]
    /\ yans = [c \in YClients |-> "none"]
    /\ ylock = {}
    /\ ybeen = YSocks \ yup

-----------------------------------------------------------------------------
\* A registration that replaces the entry of a known id.
registry_add_over(reg, m) == WithEntry(reg, m.id, m.params)

\* tool_registry_add: an id is taken once and its entry never changes.
tool_registry_add(reg, m) == IF m.id \in DOMAIN reg THEN reg ELSE WithEntry(reg, m.id, m.params)

\* tool_avail_dep: a link, and the socket if it is new, with nothing known of it.
DepFits(m) == /\ Len(ylinks) < YMaxLink
              /\ m.dep \in DOMAIN ysocks \/ Cardinality(DOMAIN ysocks) < YMaxSock
tool_avail_dep(m) ==
    IF m.dep = "" \/ ~DepFits(m)
    THEN UNCHANGED <<ylinks, ysocks>>
    ELSE /\ ylinks' = Append(ylinks, <<m.id, m.dep>>)
         /\ ysocks' = IF m.dep \in DOMAIN ysocks THEN ysocks ELSE WithEntry(ysocks, m.dep, "unknown")

register_builtin_tools ==
    /\ yphase = "boot"
    /\ IF yat = Len(YBuiltin)
       THEN /\ yphase' = "serve"
            /\ UNCHANGED <<yat, yreg, ylinks, ysocks>>
       ELSE /\ yat' = yat + 1
            /\ yreg' = tool_registry_add(yreg, YBuiltin[yat + 1])
            /\ tool_avail_dep(YBuiltin[yat + 1])
            /\ UNCHANGED yphase
    /\ UNCHANGED <<yup, ypoll, ylock, yseen, yhid, yans, ybeen>>

\* tool.register: the fields are copied, and no parameter of such a tool is required.
handle_register(c, m) ==
    /\ yphase = "serve" /\ yans[c] = "none" /\ ylock = {}
    /\ LET copy == [m EXCEPT !.params = [p \in DOMAIN m.params |-> [m.params[p] EXCEPT !.req = FALSE]]]
       IN  yreg' = tool_registry_add(yreg, copy)
    /\ yans' = [yans EXCEPT ![c] = IF m.id \in DOMAIN yreg THEN "register_failed" ELSE "registered"]
    /\ UNCHANGED <<yphase, yat, ylinks, ysocks, yup, ypoll, ylock, yseen, yhid, ybeen>>

\* The first link of a tool decides; only a daemon seen down hides it.
tool_avail_ok(id) ==
    LET at == {i \in DOMAIN ylinks : ylinks[i][1] = id}
    IN  at = {} \/ ysocks[ylinks[Min(at)][2]] # "down"

\* tool_registry_list_json: under the registry lock, each tool that is up with the
\* schema of its parameters; the availability view may change between two tools.
list_locks(c) ==
    /\ yphase = "serve" /\ ylock = {}
    /\ ylock' = {[who |-> c, rest |-> InSomeOrder(DOMAIN yreg)]}
    /\ yseen' = [yseen EXCEPT ![c] = <<>>]
    /\ yhid' = [yhid EXCEPT ![c] = {}]
    /\ UNCHANGED <<yphase, yat, yreg, ylinks, ysocks, yup, ypoll, yans, ybeen>>

tool_registry_list_json ==
    /\ \E l \in ylock :
         IF l.rest = <<>>
         THEN ylock' = {} /\ UNCHANGED <<yseen, yhid>>
         ELSE LET id == Head(l.rest)
              IN  /\ ylock' = {[l EXCEPT !.rest = Tail(@)]}
                  /\ IF tool_avail_ok(id)
                     THEN yseen' = [yseen EXCEPT ![l.who] = WithEntry(@, id, yreg[id])] /\ UNCHANGED yhid
                     ELSE yhid' = [yhid EXCEPT ![l.who] = @ \cup {id}] /\ UNCHANGED yseen
    /\ UNCHANGED <<yphase, yat, yreg, ylinks, ysocks, yup, ypoll, yans, ybeen>>

-----------------------------------------------------------------------------
(* tool_avail_poll: a copy of the socket names, then probe and record each.   *)
poll_starts(p) ==
    /\ yphase = "serve" /\ ypoll[p] = YIdle /\ DOMAIN ysocks # {}
    /\ ypoll' = [ypoll EXCEPT ![p].rest = InSomeOrder(DOMAIN ysocks)]
    /\ UNCHANGED <<yphase, yat, yreg, ylinks, ysocks, yup, ylock, yseen, yhid, yans, ybeen>>

\* connect() tells whether the daemon listens; without a socket nothing is known.
sock_probe(p) ==
    /\ ypoll[p].rest # <<>> /\ ypoll[p].got = {}
    /\ \E got \in {"unknown", IF Head(ypoll[p].rest) \in yup THEN "up" ELSE "down"} :
          ypoll' = [ypoll EXCEPT ![p].got = {got}]
    /\ UNCHANGED <<yphase, yat, yreg, ylinks, ysocks, yup, ylock, yseen, yhid, yans, ybeen>>

poll_records(p) ==
    /\ ypoll[p].got # {}
    /\ LET s == Head(ypoll[p].rest)
           got == Opt(ypoll[p].got, "unknown")
       IN  /\ ysocks' = IF got = "unknown" THEN ysocks ELSE [ysocks EXCEPT ![s] = got]
           /\ ypoll' = [ypoll EXCEPT ![p] = [rest |-> Tail(@.rest), got |-> {}]]
    /\ UNCHANGED <<yphase, yat, yreg, ylinks, yup, ylock, yseen, yhid, yans, ybeen>>

\* external: a daemon starts or stops.
daemon_flips(s) ==
    /\ yphase = "serve"
    /\ yup' = IF s \in yup THEN yup \ {s} ELSE yup \cup {s}
    /\ ybeen' = ybeen \cup {s}
    /\ UNCHANGED <<yphase, yat, yreg, ylinks, ysocks, ypoll, ylock, yseen, yhid, yans>>

\* svc_destroy, with the probe tasks joined before (daemon_cleanup).
YDestroy ==
    /\ yphase = "serve" /\ ylock = {} /\ \A p \in YPolls : ypoll[p] = YIdle
    /\ yphase' = "gone"
    /\ yreg' = <<>> /\ ylinks' = <<>> /\ ysocks' = <<>>
    /\ UNCHANGED <<yat, yup, ypoll, ylock, yseen, yhid, yans, ybeen>>

YNext ==
    \/ register_builtin_tools \/ YDestroy \/ tool_registry_list_json
    \/ \E c \in YClients : list_locks(c) \/ \E m \in YOffered : handle_register(c, m)
    \/ \E p \in YPolls : poll_starts(p) \/ sock_probe(p) \/ poll_records(p)
    \/ \E s \in YSocks : daemon_flips(s)

-----------------------------------------------------------------------------
(* tool_validator_validate and its rules.  An argument object is a function   *)
(* from the names given to their values.                                      *)
AtLeast(b, n) == \A x \in b : n >= x
AtMost(b, n) == \A x \in b : n <= x

val_string(s, v) == v.kind = "string" /\ AtLeast(s.lo, v.n) /\ AtMost(s.hi, v.n) /\ v.n <= YMaxStr
val_number(s, v) ==
    /\ v.kind = "number"
    /\ s.type = {"integer"} => v.n % 2 = 0
    /\ AtLeast(s.lo, v.n) /\ AtMost(s.hi, v.n)
val_array(s, v) == v.kind = "array" /\ AtMost(s.hi, v.n) /\ v.n <= YMaxArr

validate_single_param(s, v) ==
    CASE s.type = {"string"} -> val_string(s, v)
      [] s.type \in {{"number"}, {"integer"}} -> val_number(s, v)
      [] s.type = {"array"} -> val_array(s, v)
      [] s.type \in {{"boolean"}, {"object"}} -> v.kind = Opt(s.type, "")
      [] OTHER -> TRUE

tool_validator_validate(params, args) ==
    \A p \in DOMAIN params :
        IF p \in DOMAIN args THEN validate_single_param(params[p], args[p]) ELSE ~params[p].req

-----------------------------------------------------------------------------
\* What a reader of a listing takes a parameter's schema to mean.
Conforms(s, v) ==
    \/ s.type = {}
    \/ /\ \E t \in s.type :
             t = v.kind \/ (t = "integer" /\ v.kind = "number" /\ \E k \in 0..v.n : v.n = 2 * k)
       /\ v.kind \in {"string", "number"} => AtLeast(s.lo, v.n)
       /\ v.kind \in {"string", "number", "array"} => AtMost(s.hi, v.n)

(* The listing tells the truth for as long as it is held: whatever other      *)
(* clients register in the meantime, a call of a listed tool passes the       *)
(* argument check exactly when its arguments are those the listing asks for   *)
(* (within the size limits); and a listing leaves out no tool but those whose *)
(* daemon really was down at some time, however the probes overlap or fail.   *)
(* (tool_registry_add, tool_registry_list_json, tool_validator_validate)      *)
CallAsAdvertised ==
    \A c \in YClients :
        /\ yphase = "serve" =>
             \A id \in DOMAIN yseen[c] :
             /\ id \in DOMAIN yreg
             /\ \A given \in SUBSET DOMAIN yseen[c][id] : \A args \in [given -> YValues] :
                  tool_validator_validate(yreg[id], args) <=>
                    \A p \in DOMAIN yseen[c][id] :
                        IF p \in given THEN Conforms(yseen[c][id][p], args[p]) ELSE ~yseen[c][id][p].req
        /\ \A i \in DOMAIN ylinks : ylinks[i][1] \in yhid[c] => ylinks[i][2] \in ybeen
=============================================================================
