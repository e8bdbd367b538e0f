-------------------------------- MODULE Author --------------------------------
(***************************************************************************)
(* An author at work on one battle directory with `bench init`, `bench     *)
(* validate` and `bench run` (bench_kit/init.py, validate.py, run.py up to *)
(* the iterations, and the handlers of cli.py), and with an editor.        *)
(* What happens once the fixtures are up is Bench.                         *)
(***************************************************************************)
EXTENDS Battle, Naturals, Sequences

CONSTANTS
  Contents,   \* for each file, what an author can make of it
  MaxEdits    \* bound on the edits

ASSUME AuthorAssumption ==
  /\ DOMAIN Contents = Files
  /\ \A f \in Files : \A x \in Contents[f] : x.kind \in Kinds
  /\ MaxEdits \in Nat

VARIABLES
  target,   \* the battle directory: "absent", "file" or "dir"
  battle,   \* its files
  pc,       \* where the command is
  cmd,      \* the last command
  at,       \* bench init: the number of the file it is writing
  meta,     \* bench run: the meta.yaml it has in memory
  came,     \* the compose file that docker compose brought up
  report,   \* what validate_battle returned, or raised
  exit,     \* the exit code of the command
  touched,  \* an edit was made since the battle was last validated
  edits     \* number of edits

vars == <<target, battle, pc, cmd, at, meta, came, report, exit, touched, edits>>

None == [kind |-> "none"]
NoReport == [kind |-> "none"]

\* The templates of init.py, as far as the validator and bench run tell them apart.
Text == [kind |-> "whole"]
MetaTemplate ==
  [kind |-> "whole", rest |-> TRUE, slug |-> "own", range |-> "in", fixtures |-> "map",
   tasks_dir |-> "in", runners_dir |-> "in", compose |-> "in"]
TaskTemplate == [kind |-> "whole", rest |-> TRUE, id |-> "own", service |-> "example"]
RunnerTemplate ==
  [kind |-> "whole", imports |-> "fine", calls |-> "fine", image |-> "pinned", loads |-> TRUE]
ServiceTemplate ==
  [mapping |-> TRUE, image |-> "pinned", build |-> FALSE, network_mode |-> FALSE,
   networks |-> [kind |-> "names", names |-> {"bench"}]]
ComposeTemplate ==
  [kind |-> "whole", networks |-> [n \in {"bench"} |-> TRUE],
   services |-> [s \in {"example"} |-> ServiceTemplate]]

Scaffold ==
  [f \in Files |->
     CASE f = "meta" -> MetaTemplate
       [] f = "tasks" -> TaskTemplate
       [] f = "runners" -> RunnerTemplate
       [] f = "compose" -> ComposeTemplate
       [] OTHER -> Text]

\* The order in which InitPlan lists the files.
InitOrder == <<"meta", "readme", "tasks", "runners", "compose", "dockerfile">>

\* An empty file: no mapping, but a Python module without a class.
Truncated(f) ==
  IF f = "runners" THEN [Scaffold[f] EXCEPT !.image = "none", !.loads = FALSE]
  ELSE [kind |-> "unusable"]

Init ==
  /\ target \in {"absent", "file", "dir"}
  /\ battle = [f \in Files |-> None]
  /\ pc = "idle"
  /\ cmd = "none"
  /\ at = 1
  /\ meta = None
  /\ came = None
  /\ report = NoReport
  /\ exit = "none"
  /\ touched = TRUE
  /\ edits = 0

------------------------------------------------------------------------------

\* cli.py: success, a failed validation, wrong usage, a RunError; a traceback exits with 1.
ExitCode(outcome) ==
  CASE outcome = "ok" -> "0"
    [] outcome \in {"issues", "raw"} -> "1"
    [] outcome = "InitError" -> "2"
    [] outcome = "RunError" -> "4"

End(outcome) == pc' = "idle" /\ exit' = ExitCode(outcome)
Goto(l) == pc' = l /\ UNCHANGED exit

Empty == \A f \in Files : battle[f] = None

\* bench init: a bad slug or id, and a target in the way, raise InitError; else mkdir.
StartInit ==
  /\ pc = "idle"
  /\ cmd' = "init"
  /\ at' = 1
  /\ \/ End("InitError") /\ UNCHANGED target
     \/ target \in {"absent", "dir"} /\ Empty /\ target' = "dir" /\ pc' = "open" /\ exit' = "none"
  /\ UNCHANGED <<battle, meta, came, report, touched, edits>>

\* mkdir of the parent and write_text, which truncates; an OSError is not converted.
OpenFile ==
  /\ pc = "open"
  /\ \/ battle' = [battle EXCEPT ![InitOrder[at]] = Truncated(InitOrder[at])] /\ Goto("write")
     \/ /\ battle' = [battle EXCEPT ![InitOrder[at]] =
             IF @ = None /\ InitOrder[at] \in {"tasks", "runners"} THEN [kind |-> "empty"] ELSE @]
        /\ End("raw")
  /\ UNCHANGED <<target, cmd, at, meta, came, report, touched, edits>>

\* Mutant: one file too many.
MutWriteFile ==
  /\ pc = "write"
  /\ \/ /\ battle' = [battle EXCEPT ![InitOrder[at]] = Scaffold[InitOrder[at]]]
        /\ at' = at + 1
        /\ IF at > Len(InitOrder) THEN End("ok") ELSE Goto("open")
     \/ End("raw") /\ UNCHANGED <<battle, at>>
  /\ UNCHANGED <<target, cmd, meta, came, report, touched, edits>>

WriteFile ==
  /\ pc = "write"
  /\ \/ /\ battle' = [battle EXCEPT ![InitOrder[at]] = Scaffold[InitOrder[at]]]
        /\ at' = at + 1
        /\ IF at = Len(InitOrder) THEN End("ok") ELSE Goto("open")
     \/ End("raw") /\ UNCHANGED <<battle, at>>
  /\ UNCHANGED <<target, cmd, meta, came, report, touched, edits>>

\* What validate_battle says of the directory as it is; "raw" if it raises.
Judge ==
  report' = IF target # "dir" THEN [kind |-> "report", issues |-> {"BK040"}]
            ELSE IF Raw(battle) THEN [kind |-> "raw"]
            ELSE [kind |-> "report", issues |-> Issues(battle)]

Clean(r) == r.kind = "report" /\ r.issues = {}

Validate ==
  /\ pc = "idle"
  /\ cmd' = "validate"
  /\ Judge
  /\ touched' = FALSE
  /\ End(IF Clean(report') THEN "ok" ELSE IF report'.kind = "raw" THEN "raw" ELSE "issues")
  /\ UNCHANGED <<target, battle, at, meta, came, edits>>

\* bench run: a battle that does not validate raises RunError.
StartRun ==
  /\ pc = "idle"
  /\ cmd' = "run"
  /\ Judge
  /\ touched' = FALSE
  /\ came' = None
  /\ \/ Clean(report') /\ pc' = "load" /\ exit' = "none"
     \/ ~Clean(report') /\ End(IF report'.kind = "raw" THEN "raw" ELSE "RunError")
  /\ UNCHANGED <<target, battle, at, meta, edits>>

\* meta.yaml, tasks and runners are read again; --tools or --results-dir may be wrong.
LoadBattle ==
  /\ pc = "load"
  /\ \/ \E o \in Load(battle) : IF o = "ok" THEN Goto("up") /\ meta' = battle.meta
                                ELSE End(o) /\ UNCHANGED meta
     \/ End("RunError") /\ UNCHANGED meta
  /\ UNCHANGED <<target, battle, cmd, at, came, report, touched, edits>>

\* meta["fixtures"]["compose"], then docker compose up, which reads the file itself.
ComposeUp ==
  /\ pc = "up"
  /\ \/ meta.fixtures # "map" /\ End("raw") /\ UNCHANGED came
     \/ meta.fixtures = "map" /\ End("RunError") /\ UNCHANGED came
     \/ /\ meta.fixtures = "map" /\ meta.compose = "in" /\ battle.compose.kind = "whole"
        /\ came' = battle.compose
        /\ Goto("discover")
  /\ UNCHANGED <<target, battle, cmd, at, meta, report, touched, edits>>

\* _discover_internal_network reads it once more.
DiscoverNetwork ==
  /\ pc = "discover"
  /\ \E o \in Discover(battle.compose) : End(o)
  /\ UNCHANGED <<target, battle, cmd, at, meta, came, report, touched, edits>>

\* The author edits or deletes a file, or a checkout does.
Edit ==
  /\ target = "dir"
  /\ edits < MaxEdits
  /\ edits' = edits + 1
  /\ touched' = TRUE
  /\ \E f \in Files : \E x \in Contents[f] : battle' = [battle EXCEPT ![f] = x]
  /\ UNCHANGED <<target, pc, cmd, at, meta, came, report, exit>>

\* The process is killed.
Crash ==
  /\ pc # "idle"
  /\ pc' = "idle"
  /\ exit' = "none"
  /\ UNCHANGED <<target, battle, cmd, at, meta, came, report, touched, edits>>

Next ==
  \/ StartInit \/ OpenFile \/ WriteFile
  \/ Validate
  \/ StartRun \/ LoadBattle \/ ComposeUp \/ DiscoverNetwork
  \/ Edit \/ Crash

Spec == Init /\ [][Next]_vars

------------------------------------------------------------------------------
(* Properties                                                              *)

\* The variables keep their types, and every file has a content the validator can meet.
TypeOK ==
  /\ target \in {"absent", "file", "dir"}
  /\ \A f \in Files :
       battle[f] \in Contents[f] \cup {None, Truncated(f), Scaffold[f], [kind |-> "empty"]}
  /\ pc \in {"idle", "open", "write", "load", "up", "discover"}
  /\ cmd \in {"none", "init", "validate", "run"}
  /\ at \in 1 .. Len(InitOrder) + 1
  /\ pc \in {"open", "write"} => at <= Len(InitOrder)
  /\ exit \in {"none", "0", "1", "2", "4"}
  /\ touched \in BOOLEAN
  /\ edits \in 0 .. MaxEdits
  /\ target # "dir" => Empty

\* What validate lets through, run can use.  While nobody edits the battle after its
\* validation, loading it raises nothing but RunError, the network is found ("should have
\* been caught by validate"), and no service that came up has a way out of the internal
\* networks, though each of the three reads of the files asks for something else.
\* Exempt are services whose name is no string, which the validator skips (validate.py:312):
\* nothing is known of their networks, and with no other service there may be no internal one.
ValidatedRuns ==
  /\ cmd = "run" /\ pc = "idle" /\ ~touched /\ Clean(report) => exit \in {"none", "0", "4"}
  /\ pc = "discover" /\ ~touched =>
       /\ Contained(came)
       /\ Named(battle.compose.services) # {} => Discover(battle.compose) = {"ok"}

\* The battle as the scaffold made it, but for one file.
Alone(f) == [Scaffold EXCEPT ![f] = battle[f]]

\* A readable meta.yaml that leads to another file than the scaffold's.
Redirected(f) ==
  /\ battle.meta.kind = "whole"
  /\ \/ f = "tasks" /\ battle.meta.tasks_dir # "in"
     \/ f = "runners" /\ battle.meta.runners_dir # "in"
     \/ f = "compose" /\ battle.meta.compose # "in"

\* Contents for which validate_battle raises instead of reporting: a file that it reads and
\* that is no UTF-8 (validate.py:144-146), and fixtures that are no mapping (validate.py:67).
Raising ==
  \/ \E f \in {"meta", "tasks", "runners", "compose"} :
       battle[f].kind = "garbled" /\ ~Redirected(f)
  \/ battle.meta.kind = "whole" /\ battle.meta.fixtures = "other"

\* validate.py:42-44: "does not stop at the first failure - it collects everything so a
\* single CI run gives the author the full picture".  It does, with one exception: contents
\* that make it raise hide every issue there is.  Whatever else is wrong with the other
\* files, there is a report, with all that would be reported of each file in an otherwise
\* good battle (unless meta.yaml leads away from the file; BK022 is about two files).
HidesNothing ==
  target = "dir" /\ ~touched /\ cmd \in {"validate", "run"} =>
    IF Raising THEN report.kind = "raw"
    ELSE /\ report.kind = "report"
         /\ \A f \in Files : ~Redirected(f) =>
              Issues(Alone(f)) \ {"BK022"} \subseteq report.issues

\* A scaffold is valid, and only a complete one: however bench init was cut short and tried
\* again, the validator passes it just if every file a battle needs is what init writes.
ScaffoldJudged ==
  edits = 0 /\ cmd = "validate" =>
    (exit = "0" <=> \A f \in {"meta", "tasks", "runners", "compose"} : battle[f] = Scaffold[f])

==============================================================================
