------------------------------ MODULE LlmConfig ------------------------------
(***************************************************************************)
(* Loading llm_d's model configuration (src/llm_d/src/config and           *)
(* src/llm_d/src/rpc/service_boot.c, service_providers.c): the rows of     *)
(* models:, the sections of providers: and the short form llm: of the main *)
(* file and of the user's file become the providers of the registry.       *)
(* A step takes one row, section or provider.                              *)
(*                                                                         *)
(* A text field is a string, "" when absent.  A row is                     *)
(*   [name, id, prov, env, local, url, conc, keysok, declok],              *)
(* a section [name, env, url, models], a file [yaml, rows, secs, llm]; the *)
(* fields of the C structs that are copied the same way (headers, format,  *)
(* time-outs, prices) are left out.                                        *)
(***************************************************************************)
EXTENDS DaemonBase, FiniteSets, SequencesExt

CONSTANTS
    CPairs,         \* the main and the user file: <<main, user>>, <<>> for no user file
    MaxRows,        \* 64: rows of models:, and models of one provider
    MaxProvs        \* 16: providers of one file

ASSUME LlmConfigAssumption == MaxRows \in Nat \ {0} /\ MaxProvs \in Nat \ {0}

VARIABLES
    cpair,      \* the two files
    cfile,      \* the file being read, "main" or "user", then "merge", "done" or "failed"
    crows, csecs,       \* what is still to read of it
    cmodels, csections, \* svc_yaml_state_t: the rows and sections kept
    cprovs,     \* provider_agg_t provs[16]
    cmain,      \* the providers of the main file
    cmerged     \* the result of the merge

cVars == <<cpair, cfile, crows, csecs, cmodels, csections, cprovs, cmain, cmerged>>

FirstOf(a, b) == IF a # "" THEN a ELSE b
Reading == cfile \in {"main", "user"}
File == cpair[IF cfile = "main" THEN 1 ELSE 2]

\* a .json file has sections only
CInit ==
    /\ cpair \in CPairs /\ cfile = "main"
    /\ crows = cpair[1].rows /\ csecs = cpair[1].secs
    /\ cmodels = <<>> /\ csections = <<>> /\ cprovs = <<>> /\ cmain = <<>> /\ cmerged = <<>>

\* MODEL_<n>_API_KEY; n counts the rows kept, not the rows of the file
svc_yaml_route(row, n) ==
    FirstOf(row.env, IF row.local THEN "" ELSE "MODEL_" \o ToString(n) \o "_API_KEY")

\* a row without a name, with an unknown key or with an illegal declaration is dropped
RowOk(row) == FirstOf(row.id, row.name) # "" /\ FirstOf(row.prov, row.name) # ""
              /\ row.keysok /\ row.declok

svc_yaml_parse_model ==
    /\ Reading /\ crows # <<>>
    /\ LET row == Head(crows)
           m == [name |-> FirstOf(row.id, row.name), prov |-> FirstOf(row.prov, row.name),
                 url |-> row.url, conc |-> row.conc, env |-> svc_yaml_route(row, Len(cmodels) + 1)]
       IN  cmodels' = IF Len(cmodels) < MaxRows /\ RowOk(row) THEN Append(cmodels, m) ELSE cmodels
    /\ crows' = Tail(crows)
    /\ UNCHANGED <<cpair, cfile, csecs, csections, cprovs, cmain, cmerged>>

svc_yaml_parse_prov ==
    /\ Reading /\ File.yaml /\ crows = <<>> /\ csecs # <<>>
    /\ csections' = IF Head(csecs).name = "" \/ Len(csections) >= MaxProvs THEN csections
                    ELSE Append(csections, [Head(csecs) EXCEPT !.models = SubSeq(@, 1, MinOf(MaxRows, Len(@)))])
    /\ csecs' = Tail(csecs)
    /\ UNCHANGED <<cpair, cfile, crows, cmodels, cprovs, cmain, cmerged>>

Parsed == Reading /\ crows = <<>> /\ csecs = <<>>

\* llm: replaces all rows and sections by its one model
svc_yaml_expand_llm ==
    /\ Parsed /\ File.llm # "" /\ cprovs = <<>>
    /\ cprovs' = <<[name |-> "chat", env |-> "", url |-> "", models |-> <<File.llm>>, conc |-> <<0>>]>>
    /\ cmodels' = <<>> /\ csections' = <<>>
    /\ UNCHANGED <<cpair, cfile, crows, csecs, cmain, cmerged>>

\* the slot of that name, a new one behind the others, or 0 when the table is full
agg_slot(provs, name) ==
    LET i == FirstIdx(provs, LAMBDA p : p.name = name)
    IN  IF i # 0 THEN i ELSE IF Len(provs) >= MaxProvs THEN 0 ELSE Len(provs) + 1

WithSlot(provs, name, env) ==
    IF agg_slot(provs, name) # Len(provs) + 1 THEN provs
    ELSE Append(provs, [name |-> name, env |-> env, url |-> "", models |-> <<>>, conc |-> <<>>])

AddModel(p, name, conc) ==
    IF Len(p.models) >= MaxRows THEN p
    ELSE [p EXCEPT !.models = Append(@, name), !.conc = Append(@, conc)]

\* the first row that finds no slot ends the aggregation
svc_yaml_aggregate_providers ==
    /\ Parsed /\ cmodels # <<>> /\ File.llm = ""
    /\ LET m == Head(cmodels)
           j == agg_slot(cprovs, m.prov)
       IN  IF j = 0 THEN cmodels' = <<>> /\ UNCHANGED cprovs
           ELSE /\ cmodels' = Tail(cmodels)
                /\ cprovs' = [WithSlot(cprovs, m.prov, m.env) EXCEPT
                                 ![j] = [AddModel(@, m.name, m.conc) EXCEPT !.url = FirstOf(@, m.url)]]
    /\ UNCHANGED <<cpair, cfile, crows, csecs, csections, cmain, cmerged>>

\* what a section adds: the models the provider does not list yet
AddNew(p, models) ==
    FoldLeft(LAMBDA q, n : IF n \in Range(q.models) THEN q ELSE AddModel(q, n, 0), p, models)

\* mutant: a section's models replace those of the rows
merge_replacing ==
    /\ Parsed /\ cmodels = <<>> /\ csections # <<>> /\ File.llm = ""
    /\ LET s == Head(csections)
           j == agg_slot(cprovs, s.name)
       IN  cprovs' = IF j = 0 THEN cprovs
                     ELSE [WithSlot(cprovs, s.name, "") EXCEPT
                              ![j] = [AddNew([@ EXCEPT !.models = <<>>, !.conc = <<>>], s.models) EXCEPT
                                        !.url = FirstOf(s.url, @), !.env = FirstOf(s.env, @)]]
    /\ csections' = Tail(csections)
    /\ UNCHANGED <<cpair, cfile, crows, csecs, cmodels, cmain, cmerged>>

\* a section overrides the fields it gives and adds its models
svc_yaml_merge_provider_cfgs ==
    /\ Parsed /\ cmodels = <<>> /\ csections # <<>> /\ File.llm = ""
    /\ LET s == Head(csections)
           j == agg_slot(cprovs, s.name)
       IN  cprovs' = IF j = 0 THEN cprovs
                     ELSE [WithSlot(cprovs, s.name, "") EXCEPT
                              ![j] = [AddNew(@, s.models) EXCEPT !.url = FirstOf(s.url, @),
                                                                 !.env = FirstOf(s.env, @)]]
    /\ csections' = Tail(csections)
    /\ UNCHANGED <<cpair, cfile, crows, csecs, cmodels, cmain, cmerged>>

\* a .json file: its named providers as they stand
svc_load_model_config_json ==
    /\ Reading /\ ~File.yaml /\ csecs # <<>>
    /\ LET s == Head(csecs)
       IN  cprovs' = IF s.name = "" THEN cprovs
                     ELSE Append(cprovs, [name |-> s.name, env |-> s.env, url |-> s.url, models |-> s.models,
                                          conc |-> [i \in DOMAIN s.models |-> 0]])
    /\ csecs' = Tail(csecs)
    /\ UNCHANGED <<cpair, cfile, crows, cmodels, csections, cmain, cmerged>>

-----------------------------------------------------------------------------
Loaded == Parsed /\ cmodels = <<>> /\ csections = <<>> /\ (File.llm # "" => cprovs # <<>>)

(* boot_prov_load: no provider in the main file is a failure, whatever the *)
(* user's file holds; otherwise the user's file is read and merged.        *)
boot_prov_load ==
    /\ Loaded
    /\ IF cfile = "main"
       THEN /\ cmain' = cprovs /\ cprovs' = <<>> /\ UNCHANGED cmerged
            /\ cfile' = IF cprovs = <<>> THEN "failed" ELSE IF cpair[2] = <<>> THEN "merge" ELSE "user"
            /\ IF cfile' = "user" THEN crows' = cpair[2].rows /\ csecs' = cpair[2].secs
               ELSE UNCHANGED <<crows, csecs>>
       ELSE cfile' = "merge" /\ UNCHANGED <<cmain, cprovs, cmerged, crows, csecs>>
    /\ UNCHANGED <<cpair, cmodels, csections>>

\* merge_provider_configs: the providers of the main file first
merged_add ==
    /\ cfile = "merge" /\ cmain # <<>>
    /\ cmerged' = Append(cmerged, Head(cmain)) /\ cmain' = Tail(cmain)
    /\ UNCHANGED <<cpair, cfile, crows, csecs, cmodels, csections, cprovs>>

\* then those of the user: one replaces the provider of its name or is added
merged_put ==
    /\ cfile = "merge" /\ cmain = <<>> /\ cprovs # <<>>
    /\ LET i == FirstIdx(cmerged, LAMBDA q : q.name = Head(cprovs).name)
       IN  cmerged' = IF i # 0 THEN [cmerged EXCEPT ![i] = Head(cprovs)] ELSE Append(cmerged, Head(cprovs))
    /\ cprovs' = Tail(cprovs)
    /\ UNCHANGED <<cpair, cfile, crows, csecs, cmodels, csections, cmain>>

llm_boot_fill ==
    /\ cfile = "merge" /\ cmain = <<>> /\ cprovs = <<>>
    /\ cfile' = "done"
    /\ UNCHANGED <<cpair, crows, csecs, cmodels, csections, cprovs, cmain, cmerged>>

CNext ==
    \/ svc_yaml_parse_model \/ svc_yaml_parse_prov \/ svc_yaml_expand_llm
    \/ svc_yaml_aggregate_providers \/ svc_yaml_merge_provider_cfgs \/ svc_load_model_config_json
    \/ boot_prov_load \/ merged_add \/ merged_put \/ llm_boot_fill

-----------------------------------------------------------------------------

\* the <<provider, model>> pairs a file declares
Declared(f) ==
    IF f.llm # "" THEN {<<"chat", f.llm>>}
    ELSE {<<FirstOf(r.prov, r.name), FirstOf(r.id, r.name)>> : r \in {r \in Range(f.rows) : RowOk(r)}}
         \cup UNION {{<<s.name, m>> : m \in Range(s.models)} : s \in {s \in Range(f.secs) : s.name # ""}}

Regular(f) == f.yaml \/ \A i, j \in DOMAIN f.secs : f.secs[i].name = f.secs[j].name => i = j

UserNames == IF cpair[2] = <<>> THEN {} ELSE {d[1] : d \in Declared(cpair[2])}
Wanted == {d \in Declared(cpair[1]) : d[1] \notin UserNames}
          \cup (IF cpair[2] = <<>> THEN {} ELSE Declared(cpair[2]))
Served == UNION {{<<cmerged[i].name, m>> : m \in Range(cmerged[i].models)} : i \in DOMAIN cmerged}

(* When the load of a YAML file, or of a JSON file that names no provider  *)
(* twice, is done a provider is registered once, every endpoint            *)
(* registered was declared, and, unless a file has more providers than the *)
(* table holds, every endpoint that was declared is registered; a provider *)
(* of the user's file hides the one of the same name (svc_yaml_aggregate_  *)
(* providers, svc_yaml_merge_provider_cfgs, merge_provider_configs).       *)
RegistryAsDeclared ==
    cfile = "done" /\ Regular(cpair[1]) =>
        /\ \A i, j \in DOMAIN cmerged : cmerged[i].name = cmerged[j].name => i = j
        /\ Served \subseteq Wanted
        /\ (\A k \in {k \in {1, 2} : cpair[k] # <<>>} :
               Cardinality({d[1] : d \in Declared(cpair[k])}) <= MaxProvs) => Served = Wanted

=============================================================================
