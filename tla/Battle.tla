-------------------------------- MODULE Battle --------------------------------
(***************************************************************************)
(* A battle directory: what `bench validate` (bench_kit/validate.py and    *)
(* lint.py) reports about its files, and what run_battle (run.py) needs    *)
(* from them.  A file is a record whose kind says how far it can be read:  *)
(*   none      missing; for tasks and runners the whole directory          *)
(*   empty     a directory without a file that counts                      *)
(*   garbled   no UTF-8                                                    *)
(*   unusable  no YAML mapping, or a syntax error                          *)
(*   whole     what the other fields describe                              *)
(* One file stands for the ones of its directory.                          *)
(***************************************************************************)
EXTENDS FiniteSets

Files == {"meta", "readme", "tasks", "runners", "compose", "dockerfile"}

Kinds == {"none", "empty", "garbled", "unusable", "whole"}

\* The issue `code`, if `bad`.
Flag(bad, code) == IF bad THEN {code} ELSE {}

------------------------------------------------------------------------------
(* meta.yaml                                                               *)

\* A path in meta.yaml: "in" is the scaffold's, "elsewhere" another one in the battle.
Paths == {"in", "elsewhere", "out", "nonstring"}

\* Mutant: without a usable meta.yaml there are no paths.
MutPathOf(b, field) == IF b.meta.kind = "whole" THEN b.meta[field] ELSE "nonstring"

\* (meta_data or {}).get(...): the defaults are the scaffold's paths.
PathOf(b, field) == IF b.meta.kind = "whole" THEN b.meta[field] ELSE "in"

\* _resolve_in_battle: a string, not out of the battle directory.
Resolves(path) == path \in {"in", "elsewhere"}

\* The schema: strings for the three paths, a mapping for fixtures, and all the rest.
MetaSchema(m) ==
  /\ m.rest
  /\ "nonstring" \notin {m.tasks_dir, m.runners_dir, m.compose}
  /\ m.fixtures = "map"

\* _validate_meta, with the check of bench_kit_version.
MetaIssues(m) ==
  IF m.kind # "whole" THEN {"BK010"}
  ELSE Flag(~MetaSchema(m), "BK010")
       \cup Flag(m.slug # "own", "BK011")
       \cup Flag(m.range # "in", "BK012")

------------------------------------------------------------------------------
(* tasks and runners                                                       *)

\* _validate_tasks; a directory without tasks passes.
TaskIssues(t) ==
  CASE t.kind \in {"none", "unusable"} -> {"BK020"}
    [] t.kind = "whole" -> Flag(~t.rest \/ "missing" \in {t.id, t.service}, "BK020")
                           \cup Flag(t.id = "other", "BK021")
    [] OTHER -> {}

\* lint_runners_dir and lint_runner_file; so does one without runners.
RunnerIssues(r) ==
  CASE r.kind = "none" -> {"BK006"}
    [] r.kind = "unusable" -> {"BK005"}
    [] r.kind = "whole" -> Flag(r.imports = "forbidden", "BK001")
                           \cup Flag(r.calls = "forbidden", "BK002")
                           \cup Flag(r.image \in {"computed", "tag"}, "BK003")
                           \cup Flag(r.image = "none", "BK004")
    [] OTHER -> {}

------------------------------------------------------------------------------
(* fixtures/compose.yml: networks maps names to "internal: true or not",   *)
(* services maps names to their configuration                              *)

\* A name that PyYAML does not read as a string: a number, or a bare `on`.
NonStrings == {"nonstring"}

\* The entries that the validator looks at: it skips names that are no strings.
Named(map) == DOMAIN map \ NonStrings

\* Mutant: a network that declares `internal` at all.
MutInternal(c) == Named(c.networks)

Internal(c) == {n \in Named(c.networks) : c.networks[n]}

\* _check_compose_networks.
NetworkIssues(c) ==
  Flag(DOMAIN c.networks = {} \/ Internal(c) # Named(c.networks), "BK031")

\* _check_service_network_isolation; "networks" of a service is a set of names.
IsolationIssues(s, internal) ==
  Flag(s.network_mode \/ s.networks.kind # "names" \/ s.networks.names = {}
       \/ ~(s.networks.names \subseteq internal), "BK034")

\* _check_compose_service.
ServiceIssues(s, internal) ==
  IF ~s.mapping THEN {"BK032"}
  ELSE Flag(s.image = "none" /\ ~s.build, "BK032")
       \cup Flag(s.image = "tag", "BK033")
       \cup IsolationIssues(s, internal)

\* Mutant: a battle may have no compose file.
MutComposeIssues(c) ==
  IF c.kind # "whole" THEN Flag(c.kind # "none", "BK030")
  ELSE NetworkIssues(c)
       \cup Flag(DOMAIN c.services = {}, "BK032")
       \cup UNION {ServiceIssues(c.services[n], Internal(c)) : n \in Named(c.services)}

\* _validate_compose.
ComposeIssues(c) ==
  IF c.kind # "whole" THEN {"BK030"}
  ELSE NetworkIssues(c)
       \cup Flag(DOMAIN c.services = {}, "BK032")
       \cup UNION {ServiceIssues(c.services[n], Internal(c)) : n \in Named(c.services)}

------------------------------------------------------------------------------
(* validate_battle                                                         *)

\* What a path leads to: a battle has only what the scaffold put there.
Found(b, file, field) == IF PathOf(b, field) = "in" THEN b[file] ELSE [kind |-> "none"]

IssuesAt(path, issues) == IF Resolves(path) THEN issues ELSE {"BK041"}

\* BK022: only a compose file that could be read has services to compare with.
ServiceUnknown(b) ==
  LET t == Found(b, "tasks", "tasks_dir")
      c == Found(b, "compose", "compose")
  IN  /\ Resolves(PathOf(b, "tasks_dir")) /\ Resolves(PathOf(b, "compose"))
      /\ t.kind = "whole" /\ t.id # "missing" /\ t.service # "missing"
      /\ c.kind = "whole" /\ t.service \notin Named(c.services)

Issues(b) ==
  MetaIssues(b.meta)
  \cup IssuesAt(PathOf(b, "tasks_dir"), TaskIssues(Found(b, "tasks", "tasks_dir")))
  \cup IssuesAt(PathOf(b, "runners_dir"), RunnerIssues(Found(b, "runners", "runners_dir")))
  \cup IssuesAt(PathOf(b, "compose"), ComposeIssues(Found(b, "compose", "compose")))
  \cup Flag(ServiceUnknown(b), "BK022")

\* A UnicodeDecodeError is no YAMLError and no OSError, and fixtures that are no mapping
\* have no get: both leave validate_battle as they are.
Raw(b) ==
  \/ b.meta.kind = "garbled"
  \/ b.meta.kind = "whole" /\ b.meta.fixtures = "other"
  \/ \E p \in {<<"tasks", "tasks_dir">>, <<"runners", "runners_dir">>, <<"compose", "compose">>} :
       Resolves(PathOf(b, p[2])) /\ Found(b, p[1], p[2]).kind = "garbled"

------------------------------------------------------------------------------
(* What run_battle makes of it                                             *)

\* _read_yaml: only a file that is YAML but no mapping is a RunError.
ReadYaml(f) ==
  CASE f.kind = "whole" -> {"ok"}
    [] f.kind = "unusable" -> {"raw", "RunError"}
    [] OTHER -> {"raw"}

\* _load_tasks: the id is subscripted; glob finds nothing where there is no directory.
LoadTasks(t) ==
  CASE t.kind \in {"none", "empty"} -> {"RunError"}
    [] t.kind = "whole" -> {IF t.id = "missing" THEN "raw" ELSE "ok"}
    [] OTHER -> ReadYaml(t)

\* _load_runners and _find_runner_class: whatever goes wrong in the import is a RunError.
LoadRunners(r) ==
  {IF r.kind = "whole" /\ r.loads THEN "ok" ELSE "RunError"}

\* run_battle up to the wipe: the first failure is the outcome.
Load(b) ==
  LET meta == ReadYaml(b.meta)
      tasks == LoadTasks(Found(b, "tasks", "tasks_dir"))
      runners == LoadRunners(Found(b, "runners", "runners_dir"))
  IN  (meta \ {"ok"})
      \cup IF "ok" \notin meta THEN {} ELSE (tasks \ {"ok"})
      \cup IF "ok" \notin meta \cap tasks THEN {} ELSE runners

\* The networks docker compose attaches a service to.
Attached(s) ==
  IF s.network_mode THEN {"host"}
  ELSE IF s.networks.kind = "names" /\ s.networks.names # {} THEN s.networks.names
  ELSE {"default"}

\* No service that the validator looked at has a way out: each of its networks is internal.
Contained(c) ==
  \A n \in Named(c.services) : \A net \in Attached(c.services[n]) :
    net \in DOMAIN c.networks /\ c.networks[net]

\* _discover_internal_network: the first internal network of the file.
Discover(c) ==
  CASE c.kind = "whole" ->
         {IF \E n \in DOMAIN c.networks : c.networks[n] THEN "ok" ELSE "RunError"}
    [] OTHER -> ReadYaml(c)

==============================================================================
