----------------------------- MODULE AuthorProofs -----------------------------
(***************************************************************************)
(* What `bench validate` lets through, for battles of any content, any     *)
(* number of networks, services and edits.                                 *)
(***************************************************************************)
EXTENDS Author, TLAPS

------------------------------------------------------------------------------
(* The validator                                                           *)

\* In a compose file without issues, the services that the validator looks at have no way
\* out, and if there are any, there is an internal network for _discover_internal_network
\* to find.
LEMMA ComposeContained ==
  ASSUME NEW c, ComposeIssues(c) = {}
  PROVE  /\ c.kind = "whole"
         /\ Contained(c)
         /\ Named(c.services) # {} => Discover(c) = {"ok"}
PROOF
  <1>1. c.kind = "whole"
    BY DEF ComposeIssues
  <1>2. \A n \in Named(c.services) : ServiceIssues(c.services[n], Internal(c)) = {}
    BY <1>1 DEF ComposeIssues
  <1>3. ASSUME NEW n \in Named(c.services)
        PROVE  /\ ~c.services[n].network_mode
               /\ c.services[n].networks.kind = "names" /\ c.services[n].networks.names # {}
               /\ c.services[n].networks.names \subseteq Internal(c)
    <2> DEFINE s == c.services[n]
    <2>1. IsolationIssues(s, Internal(c)) = {}
      BY <1>2, <1>3 DEF ServiceIssues
    <2> QED
      BY <2>1 DEF IsolationIssues, Flag
  <1>4. \A net \in Internal(c) : net \in DOMAIN c.networks /\ c.networks[net]
    BY DEF Internal, Named
  <1>5. ASSUME Named(c.services) # {}
        PROVE  Discover(c) = {"ok"}
    <2>1. PICK n \in Named(c.services) : TRUE
      BY <1>5
    <2>2. \E net : net \in Internal(c)
      BY <2>1, <1>3
    <2> QED
      BY <2>2, <1>1, <1>4 DEF Discover
  <1>6. Contained(c)
    BY <1>3, <1>4 DEF Contained, Attached
  <1> QED
    BY <1>1, <1>5, <1>6

\* A battle without issues has a meta.yaml that is a mapping, with one for its fixtures.
LEMMA MetaUsable ==
  ASSUME NEW b, Issues(b) = {}
  PROVE  b.meta.kind = "whole" /\ b.meta.fixtures = "map"
PROOF
  <1>1. MetaIssues(b.meta) = {}
    BY DEF Issues
  <1>2. b.meta.kind = "whole"
    BY <1>1 DEF MetaIssues
  <1>3. MetaSchema(b.meta)
    BY <1>1, <1>2 DEF MetaIssues, Flag
  <1> QED
    BY <1>2, <1>3 DEF MetaSchema

\* Its compose file is the one it was validated with, and has no issues of its own.
LEMMA ComposeClean ==
  ASSUME NEW b, Issues(b) = {}
  PROVE  ComposeIssues(b.compose) = {}
PROOF
  <1> DEFINE c == Found(b, "compose", "compose")
  <1>1. IssuesAt(PathOf(b, "compose"), ComposeIssues(c)) = {}
    BY DEF Issues
  <1>2. ComposeIssues(c) = {}
    BY <1>1 DEF IssuesAt
  <1>3. c.kind = "whole"
    BY <1>2, ComposeContained
  <1>4. c = b["compose"]
    BY <1>3 DEF Found
  <1> QED
    BY <1>2, <1>4

\* The kinds of a battle's files.
Sorted(b) == \A f \in Files : b[f].kind \in Kinds

\* Loading a battle that validates raises nothing but RunError.
LEMMA LoadsOrRefuses ==
  ASSUME NEW b, Sorted(b), Issues(b) = {}, ~Raw(b)
  PROVE  Load(b) \subseteq {"ok", "RunError"}
PROOF
  <1> DEFINE t == Found(b, "tasks", "tasks_dir")
             r == Found(b, "runners", "runners_dir")
  <1>1. ReadYaml(b.meta) = {"ok"}
    BY MetaUsable DEF ReadYaml
  <1>2. LoadTasks(t) \subseteq {"ok", "RunError"}
    <2>1. IssuesAt(PathOf(b, "tasks_dir"), TaskIssues(t)) = {}
      BY DEF Issues
    <2>2. Resolves(PathOf(b, "tasks_dir")) /\ TaskIssues(t) = {}
      BY <2>1 DEF IssuesAt
    <2>3. t.kind # "garbled"
      BY <2>2 DEF Raw
    <2>4. t.kind \in Kinds
      <3>1. CASE PathOf(b, "tasks_dir") = "in"
        BY <3>1 DEF Found, Sorted, Files
      <3>2. CASE PathOf(b, "tasks_dir") # "in"
        BY <3>2 DEF Found, Kinds
      <3> QED
        BY <3>1, <3>2
    <2>5. t.kind \notin {"none", "unusable"}
      BY <2>2 DEF TaskIssues
    <2>6. CASE t.kind = "empty"
      BY <2>6 DEF LoadTasks
    <2>7. CASE t.kind = "whole"
      <3>1. t.id # "missing"
        BY <2>2, <2>7 DEF TaskIssues, Flag
      <3> QED
        BY <3>1, <2>7 DEF LoadTasks
    <2> QED
      BY <2>3, <2>4, <2>5, <2>6, <2>7 DEF Kinds
  <1>3. LoadRunners(r) \subseteq {"ok", "RunError"}
    BY DEF LoadRunners
  <1> QED
    BY <1>1, <1>2, <1>3 DEF Load

------------------------------------------------------------------------------
(* Nothing is hidden                                                       *)

\* What bench init writes has no issues, file by file.
LEMMA TemplatesClean ==
  /\ MetaIssues(MetaTemplate) = {}
  /\ TaskIssues(TaskTemplate) = {}
  /\ RunnerIssues(RunnerTemplate) = {}
  /\ ComposeIssues(ComposeTemplate) = {}
PROOF
  <1>1. MetaIssues(MetaTemplate) = {}
    BY DEF MetaIssues, MetaSchema, MetaTemplate, Flag
  <1>2. TaskIssues(TaskTemplate) = {}
    BY DEF TaskIssues, TaskTemplate, Flag
  <1>3. RunnerIssues(RunnerTemplate) = {}
    BY DEF RunnerIssues, RunnerTemplate, Flag
  <1>4. ComposeIssues(ComposeTemplate) = {}
    <2> DEFINE c == ComposeTemplate
    <2>1. c.kind = "whole" /\ DOMAIN c.networks = {"bench"} /\ c.networks["bench"] = TRUE
      BY DEF ComposeTemplate
    <2>2. DOMAIN c.services = {"example"} /\ c.services["example"] = ServiceTemplate
      BY DEF ComposeTemplate
    <2>3. Internal(c) = {"bench"}
      BY <2>1 DEF Internal, Named, NonStrings
    <2>4. NetworkIssues(c) = {}
      BY <2>1, <2>3 DEF NetworkIssues, Flag, Named, NonStrings
    <2>5. IsolationIssues(ServiceTemplate, {"bench"}) = {}
      BY DEF IsolationIssues, ServiceTemplate, Flag
    <2>6. ServiceIssues(ServiceTemplate, {"bench"}) = {}
      BY <2>5 DEF ServiceIssues, ServiceTemplate, Flag
    <2>7. UNION {ServiceIssues(c.services[n], Internal(c)) : n \in Named(c.services)} = {}
      BY <2>2, <2>3, <2>6 DEF Named
    <2> QED
      BY <2>1, <2>2, <2>4, <2>7 DEF ComposeIssues, Flag
  <1> QED
    BY <1>1, <1>2, <1>3, <1>4

\* The files of the scaffold.
LEMMA ScaffoldFiles ==
  /\ DOMAIN Scaffold = Files
  /\ Scaffold["meta"] = MetaTemplate
  /\ Scaffold["tasks"] = TaskTemplate
  /\ Scaffold["runners"] = RunnerTemplate
  /\ Scaffold["compose"] = ComposeTemplate
PROOF
  BY DEF Scaffold, Files

\* Where nothing leads away from a file, the validator looks at that file.
LEMMA LooksThere ==
  ASSUME NEW b, NEW file, NEW field, NEW issues, PathOf(b, field) = "in"
  PROVE  Found(b, file, field) = b[file] /\ IssuesAt(PathOf(b, field), issues) = issues
PROOF
  BY DEF Found, IssuesAt, Resolves

\* The issues of an otherwise good battle are reported of any battle with that file.
LEMMA IssuesStay ==
  ASSUME DOMAIN battle = Files, NEW f \in Files, ~Redirected(f)
  PROVE  Issues(Alone(f)) \ {"BK022"} \subseteq Issues(battle)
PROOF
  <1> DEFINE a == Alone(f)
  <1>1. /\ a[f] = battle[f]
        /\ \A g \in Files \ {f} : a[g] = Scaffold[g]
    BY ScaffoldFiles DEF Alone
  <1>2. MetaIssues(a["meta"]) \subseteq MetaIssues(battle["meta"])
    <2>1. CASE f = "meta"
      BY <2>1, <1>1
    <2>2. CASE f # "meta"
      <3>1. a["meta"] = MetaTemplate
        BY <2>2, <1>1, ScaffoldFiles DEF Files
      <3> QED
        BY <3>1, TemplatesClean
    <2> QED
      BY <2>1, <2>2
  <1>3. ASSUME f # "meta", NEW field \in {"tasks_dir", "runners_dir", "compose"}
        PROVE  PathOf(a, field) = "in"
    <2>1. a["meta"] = MetaTemplate
      BY <1>3, <1>1, ScaffoldFiles DEF Files
    <2> QED
      BY <2>1, <1>3 DEF PathOf, MetaTemplate
  <1>4. ASSUME f = "meta", NEW field \in {"tasks_dir", "runners_dir", "compose"}
        PROVE  PathOf(a, field) = PathOf(battle, field)
    BY <1>4, <1>1 DEF PathOf
  <1>5. IssuesAt(PathOf(a, "tasks_dir"), TaskIssues(Found(a, "tasks", "tasks_dir")))
          \subseteq IssuesAt(PathOf(battle, "tasks_dir"), TaskIssues(Found(battle, "tasks", "tasks_dir")))
    <2> DEFINE p == PathOf(a, "tasks_dir")
    <2>1. CASE f = "tasks"
      <3>1. PathOf(battle, "tasks_dir") = "in"
        BY <2>1 DEF Redirected, PathOf
      <3> QED
        BY <2>1, <3>1, <1>1, <1>3, LooksThere
    <2>2. CASE f # "tasks"
      <3>1. a["tasks"] = TaskTemplate
        BY <2>2, <1>1, ScaffoldFiles DEF Files
      <3>2. CASE p = "in"
        BY <3>1, <3>2, TemplatesClean, LooksThere
      <3>3. CASE p # "in"
        <4>1. f = "meta"
          BY <3>3, <1>3
        <4>2. PathOf(battle, "tasks_dir") = p
          BY <4>1, <1>4
        <4> QED
          BY <4>2, <3>3 DEF Found
      <3> QED
        BY <3>2, <3>3
    <2> QED
      BY <2>1, <2>2
  <1>6. IssuesAt(PathOf(a, "runners_dir"), RunnerIssues(Found(a, "runners", "runners_dir")))
          \subseteq IssuesAt(PathOf(battle, "runners_dir"), RunnerIssues(Found(battle, "runners", "runners_dir")))
    <2> DEFINE p == PathOf(a, "runners_dir")
    <2>1. CASE f = "runners"
      <3>1. PathOf(battle, "runners_dir") = "in"
        BY <2>1 DEF Redirected, PathOf
      <3> QED
        BY <2>1, <3>1, <1>1, <1>3, LooksThere
    <2>2. CASE f # "runners"
      <3>1. a["runners"] = RunnerTemplate
        BY <2>2, <1>1, ScaffoldFiles DEF Files
      <3>2. CASE p = "in"
        BY <3>1, <3>2, TemplatesClean, LooksThere
      <3>3. CASE p # "in"
        <4>1. f = "meta"
          BY <3>3, <1>3
        <4>2. PathOf(battle, "runners_dir") = p
          BY <4>1, <1>4
        <4> QED
          BY <4>2, <3>3 DEF Found
      <3> QED
        BY <3>2, <3>3
    <2> QED
      BY <2>1, <2>2
  <1>7. IssuesAt(PathOf(a, "compose"), ComposeIssues(Found(a, "compose", "compose")))
          \subseteq IssuesAt(PathOf(battle, "compose"), ComposeIssues(Found(battle, "compose", "compose")))
    <2> DEFINE p == PathOf(a, "compose")
    <2>1. CASE f = "compose"
      <3>1. PathOf(battle, "compose") = "in"
        BY <2>1 DEF Redirected, PathOf
      <3> QED
        BY <2>1, <3>1, <1>1, <1>3, LooksThere
    <2>2. CASE f # "compose"
      <3>1. a["compose"] = ComposeTemplate
        BY <2>2, <1>1, ScaffoldFiles DEF Files
      <3>2. CASE p = "in"
        BY <3>1, <3>2, TemplatesClean, LooksThere
      <3>3. CASE p # "in"
        <4>1. f = "meta"
          BY <3>3, <1>3
        <4>2. PathOf(battle, "compose") = p
          BY <4>1, <1>4
        <4> QED
          BY <4>2, <3>3 DEF Found
      <3> QED
        BY <3>2, <3>3
    <2> QED
      BY <2>1, <2>2
  <1>8. Flag(ServiceUnknown(a), "BK022") \subseteq {"BK022"}
    BY DEF Flag
  <1> QED
    BY <1>2, <1>5, <1>6, <1>7, <1>8 DEF Issues

------------------------------------------------------------------------------
(* Type correctness                                                        *)

\* bench init writes, and only into a directory.
Typed ==
  /\ TypeOK
  /\ DOMAIN battle = Files
  /\ pc \in {"open", "write"} => cmd = "init" /\ target = "dir"

LEMMA InitOrderFacts ==
  /\ Len(InitOrder) = 6
  /\ \A i \in 1 .. 6 : InitOrder[i] \in Files
PROOF
  <1>1. Len(InitOrder) = 6
    BY DEF InitOrder
  <1>2. \A i \in 1 .. 6 : i = 1 \/ i = 2 \/ i = 3 \/ i = 4 \/ i = 5 \/ i = 6
    BY SMT
  <1> QED
    BY <1>1, <1>2 DEF InitOrder, Files

\* Every exit code is one of cli.py's.
LEMMA ExitCodes ==
  \A o \in {"ok", "issues", "raw", "InitError", "RunError"} : ExitCode(o) \in {"0", "1", "2", "4"}
PROOF
  BY DEF ExitCode

LEMMA LoadOutcomes ==
  ASSUME NEW b
  PROVE  Load(b) \subseteq {"ok", "raw", "RunError"}
PROOF
  <1>1. \A f : ReadYaml(f) \subseteq {"ok", "raw", "RunError"}
    BY DEF ReadYaml
  <1>2. \A t : LoadTasks(t) \subseteq {"ok", "raw", "RunError"}
    BY <1>1 DEF LoadTasks
  <1>3. \A r : LoadRunners(r) \subseteq {"ok", "RunError"}
    BY DEF LoadRunners
  <1> QED
    BY <1>1, <1>2, <1>3 DEF Load

LEMMA DiscoverOutcomes ==
  ASSUME NEW c
  PROVE  Discover(c) \subseteq {"ok", "raw", "RunError"}
PROOF
  BY DEF Discover, ReadYaml

LEMMA TypedInit == Init => Typed
PROOF
  BY InitOrderFacts, AuthorAssumption, SMTT(20) DEF Init, Typed, TypeOK, Empty

LEMMA TypedStep == Typed /\ [Next]_vars => Typed'
PROOF
  <1> SUFFICES ASSUME Typed, [Next]_vars
               PROVE  Typed'
    OBVIOUS
  <1> USE InitOrderFacts DEF Typed, TypeOK
  <1>1. CASE StartInit
    BY <1>1, ExitCodes DEF StartInit, End, Empty
  <1>2. CASE OpenFile
    <2> DEFINE f == InitOrder[at]
    <2>1. target' = "dir" /\ at \in 1 .. 6 /\ f \in Files
      BY <1>2 DEF OpenFile
    <2>2. \E x \in {Truncated(f), [kind |-> "empty"], battle[f]} :
            battle' = [battle EXCEPT ![f] = x]
      BY <1>2 DEF OpenFile
    <2>3. DOMAIN battle' = Files
      BY <2>2
    <2>4. \A g \in Files :
            battle'[g] \in Contents[g] \cup {None, Truncated(g), Scaffold[g], [kind |-> "empty"]}
      BY <2>1, <2>2
    <2> QED
      BY <1>2, <2>1, <2>3, <2>4, ExitCodes DEF OpenFile, End, Goto
  <1>3. CASE WriteFile
    <2> DEFINE f == InitOrder[at]
    <2>1. target' = "dir" /\ at \in 1 .. 6 /\ f \in Files
      BY <1>3 DEF WriteFile
    <2>2. battle' = [battle EXCEPT ![f] = Scaffold[f]] \/ battle' = battle
      BY <1>3 DEF WriteFile
    <2>3. DOMAIN battle' = Files
      BY <2>2
    <2>4. \A g \in Files :
            battle'[g] \in Contents[g] \cup {None, Truncated(g), Scaffold[g], [kind |-> "empty"]}
      BY <2>1, <2>2
    <2> QED
      BY <1>3, <2>1, <2>3, <2>4, ExitCodes DEF WriteFile, End, Goto
  <1>4. CASE Validate
    BY <1>4, ExitCodes DEF Validate, End, Empty
  <1>5. CASE StartRun
    BY <1>5, ExitCodes DEF StartRun, End, Empty
  <1>6. CASE LoadBattle
    BY <1>6, ExitCodes, LoadOutcomes DEF LoadBattle, End, Goto, Empty
  <1>7. CASE ComposeUp
    BY <1>7, ExitCodes DEF ComposeUp, End, Goto, Empty
  <1>8. CASE DiscoverNetwork
    BY <1>8, ExitCodes, DiscoverOutcomes DEF DiscoverNetwork, End, Empty
  <1>9. CASE Edit
    <2>1. PICK f \in Files : \E x \in Contents[f] : battle' = [battle EXCEPT ![f] = x]
      BY <1>9 DEF Edit
    <2>2. DOMAIN battle' = Files
      BY <2>1
    <2>3. \A g \in Files :
            battle'[g] \in Contents[g] \cup {None, Truncated(g), Scaffold[g], [kind |-> "empty"]}
      BY <2>1
    <2>4. target' = "dir" /\ edits' \in 0 .. MaxEdits
      BY <1>9, AuthorAssumption DEF Edit
    <2> QED
      BY <1>9, <2>2, <2>3, <2>4 DEF Edit
  <1>10. CASE Crash
    BY <1>10 DEF Crash, Empty
  <1>11. CASE UNCHANGED vars
    BY <1>11 DEF vars, Empty
  <1> QED
    BY <1>1, <1>2, <1>3, <1>4, <1>5, <1>6, <1>7, <1>8, <1>9, <1>10, <1>11 DEF Next

\* The variables keep their types and every file has a content the validator can meet, for
\* any contents and any number of edits (init.py, validate.py, run.py).
THEOREM TypeCorrect == Spec => []TypeOK
PROOF
  <1>1. Typed => TypeOK
    BY DEF Typed
  <1> QED
    BY TypedInit, TypedStep, <1>1, PTL DEF Spec

------------------------------------------------------------------------------
(* What validates, runs                                                    *)

Loading == {"load", "up", "discover"}

\* Until the author edits, run_battle works on what it validated: meta.yaml and the compose
\* file were read, and brought up, as they still are.
Judged ==
  /\ pc \in Loading => cmd = "run" /\ Clean(report)
  /\ pc \in Loading /\ ~touched => Issues(battle) = {} /\ ~Raw(battle)
  /\ pc \in {"up", "discover"} /\ ~touched => meta = battle.meta
  /\ pc = "discover" /\ ~touched => came = battle.compose
  /\ pc = "idle" /\ cmd = "run" /\ ~touched /\ Clean(report) => exit \in {"none", "0", "4"}

LEMMA KindsHold == ASSUME Typed PROVE Sorted(battle)
PROOF
  <1> SUFFICES ASSUME NEW f \in Files
               PROVE  battle[f].kind \in Kinds
    BY DEF Sorted
  <1>1. battle[f] \in Contents[f] \cup {None, Truncated(f), Scaffold[f], [kind |-> "empty"]}
    BY DEF Typed, TypeOK
  <1>2. None.kind \in Kinds
    BY DEF None, Kinds
  <1>3. Scaffold[f].kind \in Kinds
    BY DEF Scaffold, MetaTemplate, TaskTemplate, RunnerTemplate, ComposeTemplate, Text, Kinds
  <1>4. Truncated(f).kind \in Kinds
    <2>1. CASE f = "runners"
      BY <2>1, ScaffoldFiles DEF Truncated, RunnerTemplate, Kinds
    <2>2. CASE f # "runners"
      BY <2>2 DEF Truncated, Kinds
    <2> QED
      BY <2>1, <2>2
  <1> QED
    BY <1>1, <1>2, <1>3, <1>4, AuthorAssumption DEF Kinds

\* A clean report is that of the battle as it is.
LEMMA CleanMeans ==
  ASSUME Judge, Clean(report')
  PROVE  Issues(battle) = {} /\ ~Raw(battle)
PROOF
  BY DEF Judge, Clean

LEMMA JudgedInit == Init => Judged
PROOF
  BY DEF Init, Judged, Loading

LEMMA JudgedStep == Typed /\ Judged /\ [Next]_vars => Judged'
PROOF
  <1> SUFFICES ASSUME Typed, Judged, [Next]_vars
               PROVE  Judged'
    OBVIOUS
  <1> USE DEF Judged, Loading
  <1>1. CASE StartInit
    BY <1>1 DEF StartInit, End
  <1>2. CASE OpenFile
    BY <1>2 DEF OpenFile, End, Goto, Typed
  <1>3. CASE WriteFile
    BY <1>3 DEF WriteFile, End, Goto, Typed
  <1>4. CASE Validate
    BY <1>4 DEF Validate, End
  <1>5. CASE StartRun
    <2>1. CASE Clean(report')
      BY <1>5, <2>1, CleanMeans DEF StartRun, End
    <2>2. CASE ~Clean(report')
      BY <1>5, <2>2 DEF StartRun, End
    <2> QED
      BY <2>1, <2>2
  <1>6. CASE LoadBattle
    <2>1. ~touched => Load(battle) \subseteq {"ok", "RunError"}
      BY <1>6, KindsHold, LoadsOrRefuses DEF LoadBattle
    <2>2. ExitCode("RunError") = "4"
      BY DEF ExitCode
    <2>3. ~touched /\ pc' = "idle" => exit' = "4"
      BY <1>6, <2>1, <2>2 DEF LoadBattle, End, Goto
    <2>4. pc' \in {"idle", "up"} /\ (pc' = "up" => meta' = battle.meta)
      BY <1>6 DEF LoadBattle, End, Goto
    <2> QED
      BY <1>6, <2>3, <2>4 DEF LoadBattle
  <1>7. CASE ComposeUp
    <2>1. ~touched => meta.fixtures = "map"
      BY <1>7, MetaUsable DEF ComposeUp
    <2>2. ExitCode("RunError") = "4"
      BY DEF ExitCode
    <2>3. ~touched /\ pc' = "idle" => exit' = "4"
      BY <1>7, <2>1, <2>2 DEF ComposeUp, End, Goto
    <2>4. pc' \in {"idle", "discover"} /\ (pc' = "discover" => came' = battle.compose)
      BY <1>7 DEF ComposeUp, End, Goto
    <2> QED
      BY <1>7, <2>3, <2>4 DEF ComposeUp
  <1>8. CASE DiscoverNetwork
    <2>1. ~touched => Discover(battle.compose) \subseteq {"ok", "RunError"}
      BY <1>8, ComposeClean, ComposeContained DEF DiscoverNetwork, Discover
    <2>2. ExitCode("ok") = "0" /\ ExitCode("RunError") = "4"
      BY DEF ExitCode
    <2>3. pc' = "idle" /\ (~touched => exit' \in {"0", "4"})
      BY <1>8, <2>1, <2>2 DEF DiscoverNetwork, End
    <2> QED
      BY <1>8, <2>3 DEF DiscoverNetwork
  <1>9. CASE Edit
    BY <1>9 DEF Edit
  <1>10. CASE Crash
    BY <1>10 DEF Crash
  <1>11. CASE UNCHANGED vars
    BY <1>11 DEF vars
  <1> QED
    BY <1>1, <1>2, <1>3, <1>4, <1>5, <1>6, <1>7, <1>8, <1>9, <1>10, <1>11 DEF Next

LEMMA JudgedRuns == Judged => ValidatedRuns
PROOF
  <1> SUFFICES ASSUME Judged
               PROVE  ValidatedRuns
    OBVIOUS
  <1>1. ASSUME pc = "discover", ~touched
        PROVE  /\ Contained(came)
               /\ Named(battle.compose.services) # {} => Discover(battle.compose) = {"ok"}
    <2>1. Issues(battle) = {} /\ came = battle.compose
      BY <1>1 DEF Judged, Loading
    <2> QED
      BY <2>1, ComposeClean, ComposeContained
  <1> QED
    BY <1>1 DEF Judged, ValidatedRuns

\* Whatever an author writes, a battle that validates and is not edited meanwhile is loaded
\* or refused with a RunError, and its services have an internal network and no way out,
\* those apart whose name is no string (validate.py, lint.py against the reads of run.py).
THEOREM ValidatedBattlesRun == Spec => []ValidatedRuns
PROOF
  <1>1. Spec => [](Typed /\ Judged)
    <2>1. Init => Typed /\ Judged
      BY TypedInit, JudgedInit
    <2>2. Typed /\ Judged /\ [Next]_vars => (Typed /\ Judged)'
      BY TypedStep, JudgedStep
    <2> QED
      BY <2>1, <2>2, PTL DEF Spec
  <1> QED
    BY <1>1, JudgedRuns, PTL

------------------------------------------------------------------------------
(* The report                                                              *)

\* The report is that of the battle until an edit or bench init touches it.
Current ==
  cmd \in {"validate", "run"} /\ target = "dir" /\ ~touched =>
    report = IF Raw(battle) THEN [kind |-> "raw"]
             ELSE [kind |-> "report", issues |-> Issues(battle)]

\* The contents for which validate_battle raises are those for which Raising says so.
LEMMA RaisingIsRaw == ASSUME Typed PROVE Raising <=> Raw(battle)
PROOF
  <1> DEFINE Blocked(f, field) ==
        Resolves(PathOf(battle, field)) /\ Found(battle, f, field).kind = "garbled"
  <1>1. ASSUME NEW f \in {"tasks", "runners", "compose"}, NEW field,
               Redirected(f) <=> battle.meta.kind = "whole" /\ battle.meta[field] # "in"
        PROVE  Blocked(f, field) <=> battle[f].kind = "garbled" /\ ~Redirected(f)
    BY <1>1 DEF PathOf, Found, Resolves
  <1>2. /\ Redirected("tasks") <=> battle.meta.kind = "whole" /\ battle.meta["tasks_dir"] # "in"
        /\ Redirected("runners") <=> battle.meta.kind = "whole" /\ battle.meta["runners_dir"] # "in"
        /\ Redirected("compose") <=> battle.meta.kind = "whole" /\ battle.meta["compose"] # "in"
        /\ ~Redirected("meta")
    BY DEF Redirected
  <1>3. Raw(battle) <=> \/ battle.meta.kind = "garbled"
                        \/ battle.meta.kind = "whole" /\ battle.meta.fixtures = "other"
                        \/ Blocked("tasks", "tasks_dir")
                        \/ Blocked("runners", "runners_dir")
                        \/ Blocked("compose", "compose")
    BY DEF Raw
  <1>4. Raising <=> \/ battle.meta.kind = "garbled"
                    \/ battle.meta.kind = "whole" /\ battle.meta.fixtures = "other"
                    \/ \E f \in {"tasks", "runners", "compose"} :
                         battle[f].kind = "garbled" /\ ~Redirected(f)
    BY <1>2 DEF Raising
  <1> QED
    BY <1>1, <1>2, <1>3, <1>4

LEMMA CurrentInit == Init => Current
PROOF
  BY DEF Init, Current

LEMMA CurrentStep == Typed /\ Current /\ [Next]_vars => Current'
PROOF
  <1> SUFFICES ASSUME Typed, Current, [Next]_vars
               PROVE  Current'
    OBVIOUS
  <1> USE DEF Typed, Current
  <1>1. CASE StartInit
    BY <1>1 DEF StartInit, End
  <1>2. CASE OpenFile
    BY <1>2 DEF OpenFile, End, Goto
  <1>3. CASE WriteFile
    BY <1>3 DEF WriteFile, End, Goto
  <1>4. CASE Validate
    BY <1>4 DEF Validate, Judge, End
  <1>5. CASE StartRun
    BY <1>5 DEF StartRun, Judge, End
  <1>6. CASE LoadBattle
    BY <1>6 DEF LoadBattle, End, Goto
  <1>7. CASE ComposeUp
    BY <1>7 DEF ComposeUp, End, Goto
  <1>8. CASE DiscoverNetwork
    BY <1>8 DEF DiscoverNetwork, End
  <1>9. CASE Edit
    BY <1>9 DEF Edit
  <1>10. CASE Crash
    BY <1>10 DEF Crash
  <1>11. CASE UNCHANGED vars
    BY <1>11 DEF vars
  <1> QED
    BY <1>1, <1>2, <1>3, <1>4, <1>5, <1>6, <1>7, <1>8, <1>9, <1>10, <1>11 DEF Next

\* validate_battle "collects everything" (validate.py:42-44), but for one exception: a file
\* that is no UTF-8 or fixtures that are no mapping make it raise and hide every issue.  For
\* all other contents there is a report, with what would be reported of each file in an
\* otherwise good battle.
THEOREM NothingHidden == Spec => []HidesNothing
PROOF
  <1>1. Typed /\ Current => HidesNothing
    <2> SUFFICES ASSUME Typed, Current, target = "dir", ~touched, cmd \in {"validate", "run"}
                 PROVE  IF Raising THEN report.kind = "raw"
                        ELSE /\ report.kind = "report"
                             /\ \A f \in Files : ~Redirected(f) =>
                                  Issues(Alone(f)) \ {"BK022"} \subseteq report.issues
      BY DEF HidesNothing
    <2>1. CASE Raising
      BY <2>1, RaisingIsRaw DEF Current
    <2>2. CASE ~Raising
      <3>1. report = [kind |-> "report", issues |-> Issues(battle)]
        BY <2>2, RaisingIsRaw DEF Current
      <3> QED
        BY <2>2, <3>1, IssuesStay DEF Typed
    <2> QED
      BY <2>1, <2>2
  <1>2. Spec => [](Typed /\ Current)
    <2>1. Init => Typed /\ Current
      BY TypedInit, CurrentInit
    <2>2. Typed /\ Current /\ [Next]_vars => (Typed /\ Current)'
      BY TypedStep, CurrentStep
    <2> QED
      BY <2>1, <2>2, PTL DEF Spec
  <1> QED
    BY <1>1, <1>2, PTL

------------------------------------------------------------------------------
(* The scaffold                                                            *)

\* The i-th file that bench init writes.
Nth(i) == battle[InitOrder[i]]

\* What bench init leaves behind, wherever it is cut short: the files before the one it was
\* at are the templates, the ones after it are missing.  An empty directory of tasks, which
\* the validator passes, is therefore never followed by a compose file, which it requires.
Prefix ==
  edits = 0 =>
    /\ \A i \in 1 .. 6 :
         Nth(i) \in {None, Truncated(InitOrder[i]), Scaffold[InitOrder[i]], [kind |-> "empty"]}
    /\ \A i, j \in 1 .. 6 : i < j /\ Nth(j) # None => Nth(i) = Scaffold[InitOrder[i]]
    /\ pc \in {"open", "write"} => \A i \in 1 .. 6 : i < at => Nth(i) = Scaffold[InitOrder[i]]
    /\ pc \in {"open", "write"} => \A i \in 1 .. 6 : i > at => Nth(i) = None
    /\ pc = "open" => Nth(at) = None

LEMMA PrefixInit == Init => Prefix
PROOF
  BY InitOrderFacts DEF Init, Prefix, Nth

\* Writing one file of the order leaves the others alone.
LEMMA InitOrderDistinct ==
  \A i, j \in 1 .. 6 : InitOrder[i] = InitOrder[j] => i = j
PROOF
  <1>1. \A i \in 1 .. 6 : i = 1 \/ i = 2 \/ i = 3 \/ i = 4 \/ i = 5 \/ i = 6
    BY SMT
  <1> QED
    BY <1>1 DEF InitOrder

LEMMA PrefixStep == Typed /\ Prefix /\ [Next]_vars => Prefix'
PROOF
  <1> SUFFICES ASSUME Typed, Prefix, [Next]_vars, edits' = 0
               PROVE  Prefix'
    BY DEF Prefix
  <1>0. edits = 0
    BY DEF Typed, TypeOK, Next, vars, StartInit, OpenFile, WriteFile, Validate, StartRun,
           LoadBattle, ComposeUp, DiscoverNetwork, Edit, Crash
  <1> USE <1>0
  <1>1. CASE StartInit
    <2>1. battle' = battle /\ (pc' = "open" => Empty /\ at' = 1)
      BY <1>1 DEF StartInit, End
    <2>2. pc' \in {"open", "idle"}
      BY <1>1 DEF StartInit, End
    <2>3. Empty => \A i \in 1 .. 6 : Nth(i) = None
      BY InitOrderFacts DEF Empty, Nth
    <2> QED
      BY <2>1, <2>2, <2>3 DEF Prefix, Nth
  <1>2. CASE OpenFile
    <2> DEFINE f == InitOrder[at]
    <2>1. at' = at /\ at \in 1 .. 6 /\ f \in DOMAIN battle
      BY <1>2, InitOrderFacts DEF OpenFile, Typed, TypeOK
    <2>2. \E x \in {Truncated(f), [kind |-> "empty"], battle[f]} :
            battle' = [battle EXCEPT ![f] = x]
      BY <1>2 DEF OpenFile
    <2>3. pc' \in {"write", "idle"} /\ pc = "open"
      BY <1>2 DEF OpenFile, Goto, End
    <2>4. \A i \in 1 .. 6 : i # at => Nth(i)' = Nth(i)
      BY <2>1, <2>2, InitOrderDistinct DEF Nth
    <2>5. Nth(at)' \in {Truncated(f), [kind |-> "empty"], None}
      BY <2>1, <2>2, <2>3 DEF Nth, Prefix
    <2>6. \A i \in 1 .. 6 : i < at => Nth(i) = Scaffold[InitOrder[i]]
      BY <2>3 DEF Prefix
    <2>7. \A i \in 1 .. 6 : i > at => Nth(i) = None
      BY <2>3 DEF Prefix
    <2>8. \A i \in 1 .. 6 :
            Nth(i)' \in {None, Truncated(InitOrder[i]), Scaffold[InitOrder[i]], [kind |-> "empty"]}
      BY <2>1, <2>4, <2>5 DEF Prefix, Nth
    <2>9. \A i \in 1 .. 6 : i < at' => Nth(i)' = Scaffold[InitOrder[i]]
      BY <2>1, <2>4, <2>6
    <2>10. \A i \in 1 .. 6 : i > at' => Nth(i)' = None
      BY <2>1, <2>4, <2>7
    <2> QED
      BY <2>1, <2>3, <2>8, <2>9, <2>10 DEF Prefix
  <1>3. CASE WriteFile
    <2> DEFINE f == InitOrder[at]
    <2>1. at \in 1 .. 6 /\ f \in DOMAIN battle /\ pc = "write"
      BY <1>3, InitOrderFacts DEF WriteFile, Typed, TypeOK
    <2>2. \A i \in 1 .. 6 : i < at => Nth(i) = Scaffold[InitOrder[i]]
      BY <2>1 DEF Prefix
    <2>3. \A i \in 1 .. 6 : i > at => Nth(i) = None
      BY <2>1 DEF Prefix
    <2>4. CASE UNCHANGED <<battle, at>> /\ pc' = "idle"
      BY <2>4 DEF Prefix, Nth
    <2>5. CASE /\ battle' = [battle EXCEPT ![f] = Scaffold[f]]
               /\ at' = at + 1
               /\ pc' \in {"idle", "open"}
               /\ pc' = "open" => at < 6
      <3>1. \A i \in 1 .. 6 : i # at => Nth(i)' = Nth(i)
        BY <2>1, <2>5, InitOrderDistinct DEF Nth
      <3>2. battle'[InitOrder[at]] = Scaffold[InitOrder[at]]
        BY <2>1, <2>5
      <3>3. \A i \in 1 .. 6 : i < at' => Nth(i)' = Scaffold[InitOrder[i]]
        BY <2>1, <2>2, <2>5, <3>1, <3>2 DEF Nth
      <3>4. \A i \in 1 .. 6 : i >= at' => Nth(i)' = None
        BY <2>1, <2>3, <2>5, <3>1
      <3> QED
        BY <2>1, <2>5, <3>3, <3>4 DEF Prefix, Nth
    <2> QED
      BY <1>3, <2>1, <2>4, <2>5, InitOrderFacts DEF WriteFile, End, Goto
  <1>4. CASE Validate \/ StartRun
    BY <1>4 DEF Validate, StartRun, End, Prefix, Nth
  <1>5. CASE LoadBattle \/ ComposeUp \/ DiscoverNetwork
    BY <1>5 DEF LoadBattle, ComposeUp, DiscoverNetwork, End, Goto, Prefix, Nth
  <1>6. CASE Edit
    BY <1>6 DEF Edit, Typed, TypeOK
  <1>7. CASE Crash
    BY <1>7 DEF Crash, Prefix, Nth
  <1>8. CASE UNCHANGED vars
    BY <1>8 DEF vars, Prefix, Nth
  <1> QED
    BY <1>1, <1>2, <1>3, <1>4, <1>5, <1>6, <1>7, <1>8 DEF Next

\* The four files a battle needs are what bench init writes.
Complete == \A f \in {"meta", "tasks", "runners", "compose"} : battle[f] = Scaffold[f]

\* A complete scaffold has no issues, and nothing in it raises.
LEMMA CompleteIsClean ==
  ASSUME Complete
  PROVE  Issues(battle) = {} /\ ~Raw(battle)
PROOF
  <1>1. /\ battle["meta"] = MetaTemplate /\ battle["tasks"] = TaskTemplate
        /\ battle["runners"] = RunnerTemplate /\ battle["compose"] = ComposeTemplate
    BY ScaffoldFiles DEF Complete
  <1>2. \A field \in {"tasks_dir", "runners_dir", "compose"} : PathOf(battle, field) = "in"
    BY <1>1 DEF PathOf, MetaTemplate
  <1>3. /\ Found(battle, "tasks", "tasks_dir") = TaskTemplate
        /\ Found(battle, "runners", "runners_dir") = RunnerTemplate
        /\ Found(battle, "compose", "compose") = ComposeTemplate
    BY <1>1, <1>2 DEF Found
  <1>4. ~ServiceUnknown(battle)
    BY <1>3 DEF ServiceUnknown, TaskTemplate, ComposeTemplate, Named, NonStrings
  <1>5. Issues(battle) = {}
    BY <1>1, <1>2, <1>3, <1>4, TemplatesClean DEF Issues, IssuesAt, Resolves, Flag
  <1>6. ~Raw(battle)
    BY <1>1, <1>3 DEF Raw, MetaTemplate, TaskTemplate, RunnerTemplate, ComposeTemplate
  <1> QED
    BY <1>5, <1>6

\* A battle that only bench init wrote and that has no issues has the last file that is
\* required, the compose file, and so all those before it.
LEMMA CleanIsComplete ==
  ASSUME Prefix, edits = 0, Issues(battle) = {}
  PROVE  Complete
PROOF
  <1>1. battle["compose"].kind = "whole"
    BY ComposeClean, ComposeContained
  <1>2. InitOrder[1] = "meta" /\ InitOrder[3] = "tasks" /\ InitOrder[4] = "runners"
        /\ InitOrder[5] = "compose"
    BY DEF InitOrder
  <1>3. battle["compose"] # None
    BY <1>1 DEF None
  <1>4. \A i \in 1 .. 4 : Nth(i) = Scaffold[InitOrder[i]]
    BY <1>2, <1>3 DEF Prefix, Nth
  <1>5. battle["compose"] = Scaffold["compose"]
    <2>1. Nth(5) \in {None, Truncated("compose"), Scaffold["compose"], [kind |-> "empty"]}
      BY <1>2 DEF Prefix
    <2>2. Truncated("compose").kind = "unusable"
      BY DEF Truncated
    <2> QED
      BY <1>1, <1>2, <1>3, <2>1, <2>2 DEF Nth
  <1> QED
    BY <1>2, <1>4, <1>5 DEF Complete, Nth

\* The last verdict of bench validate on what bench init left behind.
ScaffoldPart ==
  edits = 0 /\ cmd = "validate" => pc = "idle" /\ (exit = "0" <=> Complete)

LEMMA ScaffoldInit == Init => ScaffoldPart
PROOF
  BY DEF Init, ScaffoldPart

LEMMA ScaffoldStep == Typed /\ Prefix /\ ScaffoldPart /\ [Next]_vars => ScaffoldPart'
PROOF
  <1> SUFFICES ASSUME Typed, Prefix, ScaffoldPart, [Next]_vars, edits' = 0, cmd' = "validate"
               PROVE  pc' = "idle" /\ (exit' = "0" <=> Complete')
    BY DEF ScaffoldPart
  <1>1. edits = 0
    BY DEF Typed, TypeOK, Next, vars, StartInit, OpenFile, WriteFile, Validate, StartRun,
           LoadBattle, ComposeUp, DiscoverNetwork, Edit, Crash
  <1>2. CASE Validate
    <2>1. pc' = "idle" /\ battle' = battle /\ (exit' = "0" <=> Clean(report'))
      BY <1>2 DEF Validate, End, ExitCode
    <2>2. Complete => target = "dir"
      <3> SUFFICES ASSUME target # "dir", Complete
                   PROVE  FALSE
        OBVIOUS
      <3>1. battle["meta"] = None /\ battle["meta"] = MetaTemplate
        BY ScaffoldFiles DEF Typed, TypeOK, Empty, Complete, Files
      <3>2. None.kind # MetaTemplate.kind
        BY DEF None, MetaTemplate
      <3> QED
        BY <3>1, <3>2
    <2>3. CASE target # "dir"
      <3>1. ~Clean(report')
        BY <1>2, <2>3 DEF Validate, Judge, Clean
      <3> QED
        BY <2>1, <2>2, <2>3, <3>1 DEF Complete
    <2>4. CASE target = "dir"
      <3>1. Clean(report') <=> Issues(battle) = {} /\ ~Raw(battle)
        BY <1>2, <2>4 DEF Validate, Judge, Clean
      <3>2. Complete <=> Issues(battle) = {} /\ ~Raw(battle)
        BY <1>1, CompleteIsClean, CleanIsComplete
      <3> QED
        BY <2>1, <3>1, <3>2 DEF Complete
    <2> QED
      BY <2>3, <2>4
  <1>3. CASE ~Validate
    <2>1. cmd = "validate" /\ pc = "idle"
      BY <1>1, <1>3 DEF Next, vars, StartInit, OpenFile, WriteFile, StartRun, LoadBattle,
         ComposeUp, DiscoverNetwork, Edit, Crash, ScaffoldPart
    <2>2. UNCHANGED <<battle, pc, exit>>
      BY <1>1, <1>3, <2>1 DEF Next, vars, StartInit, OpenFile, WriteFile, StartRun, LoadBattle,
         ComposeUp, DiscoverNetwork, Edit, Crash, Typed, TypeOK
    <2> QED
      BY <1>1, <2>1, <2>2 DEF ScaffoldPart, Complete
  <1> QED
    BY <1>2, <1>3

\* However often bench init fails, is killed and is tried again, bench validate passes the
\* directory just if the four files a battle needs are what init writes: no half-written
\* scaffold validates (init.py, validate.py).
THEOREM ScaffoldsJudged == Spec => []ScaffoldJudged
PROOF
  <1>1. ScaffoldPart => ScaffoldJudged
    BY DEF ScaffoldPart, ScaffoldJudged, Complete
  <1>2. Spec => [](Typed /\ Prefix /\ ScaffoldPart)
    <2>1. Init => Typed /\ Prefix /\ ScaffoldPart
      BY TypedInit, PrefixInit, ScaffoldInit
    <2>2. Typed /\ Prefix /\ ScaffoldPart /\ [Next]_vars => (Typed /\ Prefix /\ ScaffoldPart)'
      BY TypedStep, PrefixStep, ScaffoldStep
    <2> QED
      BY <2>1, <2>2, PTL DEF Spec
  <1> QED
    BY <1>1, <1>2, PTL

==============================================================================
