-------------------------------- MODULE Bench --------------------------------
(***************************************************************************)
(* The orchestrator run_battle (bench_kit/run.py) over successive rounds   *)
(* of `bench run` on one battle directory: validation, the results tree on *)
(* disk, the compose fixtures, the iterations, the output.json gate, the   *)
(* commit, result.json, and what an exception, a crash or an edit of the   *)
(* repository does in between.                                             *)
(*                                                                         *)
(* A cell is one iteration of one (tool, task) pair; cells are numbered in *)
(* the order of the nested loops.  What one iteration's sandboxed call can *)
(* report is the outcome set of SandboxContract.                           *)
(***************************************************************************)
EXTENDS Naturals, Sequences

CONSTANTS
  Cells,      \* number of (tool, task, iteration) triples in the battle
  Gated,      \* the cells whose task has a non-empty `expected`
  Commits,    \* commits the repository's HEAD can be at
  GitCommit,  \* the environment's GIT_COMMIT: a commit, or Nil if it is not a full SHA
  MaxRounds   \* bound on the number of `bench run` invocations

\* The all-zero SHA recorded when neither git nor GIT_COMMIT names a commit.
Nil == "nil"

ASSUME BenchAssumption ==
  /\ Cells \in Nat \ {0}
  /\ Gated \subseteq 1 .. Cells
  /\ Commits # {}
  /\ GitCommit \in Commits \cup {Nil}
  /\ MaxRounds \in Nat \ {0}

VARIABLES
  pc,        \* where run_battle is
  round,     \* the invocation
  cell,      \* the next cell to execute
  runs,      \* the success flags recorded so far
  outcome,   \* what the sandboxed call of this cell reported
  output,    \* the cell's output.json
  failedAt,  \* where the exception that ends this round was raised
  how,       \* what kind of exception it was
  fixtures,  \* the compose project of each round
  teardown,  \* the exit code of compose down: "none", "ok" or "err"
  stray,     \* a leaked container sits on this round's fixture network
  head,      \* HEAD of the repository
  tree,      \* what the working tree holds: a commit, or "dirty"
  commit,    \* what git rev-parse reported
  seen,      \* the trees this round has read the battle from
  logs,      \* for each cell, the round whose log.jsonl is on disk; 0 for none
  result,    \* result.json on disk
  halfWiped  \* an rmtree has begun and not finished

control == <<pc, round, failedAt, how>>
iterVars == <<cell, runs, outcome, output>>
dockerVars == <<fixtures, teardown, stray>>
repoVars == <<head, tree>>
diskVars == <<logs, result, halfWiped>>

stateVars == <<control, iterVars, dockerVars, commit, seen, diskVars>>
vars == <<stateVars, repoVars>>

NoResult == [kind |-> "none"]
TornResult == [kind |-> "torn"]

Outputs == {"none", "match", "mismatch", "malformed", "undecodable"}
Idle == {"idle", "done", "failed"}
Protected == {"run", "gate"}
Active == {"validate", "load", "wipe", "up", "network", "down", "head", "open", "write"}
          \cup Protected

Init ==
  /\ pc = "idle"
  /\ round = 0
  /\ cell = 1
  /\ runs = <<>>
  /\ outcome = "none"
  /\ output = "none"
  /\ failedAt = "none"
  /\ how = "none"
  /\ fixtures = [r \in 1 .. MaxRounds |-> "down"]
  /\ teardown = "none"
  /\ stray = FALSE
  /\ commit = Nil
  /\ head \in Commits
  /\ tree = head
  /\ seen = {}
  /\ logs = [c \in 1 .. Cells |-> 0]
  /\ result = NoResult
  /\ halfWiped = FALSE

------------------------------------------------------------------------------

Goto(l) == pc' = l /\ UNCHANGED <<round, failedAt, how>>

\* Mutant: no finally around the iterations.
MutRaise(kind) ==
  /\ failedAt' = pc
  /\ how' = kind
  /\ pc' = "failed"
  /\ UNCHANGED round

\* An exception raised at pc; inside the try block it unwinds through `finally`.
Raise(kind) ==
  /\ failedAt' = pc
  /\ how' = kind
  /\ pc' = IF pc \in Protected THEN "down" ELSE "failed"
  /\ UNCHANGED round

ReadTree == seen' = seen \cup {tree}

\* `bench run` is started (again).
Start ==
  /\ pc \in Idle
  /\ round < MaxRounds
  /\ pc' = "validate"
  /\ round' = round + 1
  /\ failedAt' = "none"
  /\ how' = "none"
  /\ cell' = 1
  /\ runs' = <<>>
  /\ outcome' = "none"
  /\ output' = "none"
  /\ teardown' = "none"
  /\ stray' = FALSE
  /\ commit' = Nil
  /\ seen' = {}
  /\ UNCHANGED <<fixtures, repoVars, diskVars>>

\* An invalid battle raises RunError before anything is touched.
Validate ==
  /\ pc = "validate"
  /\ ReadTree
  /\ Goto("load") \/ Raise("error")
  /\ UNCHANGED <<iterVars, dockerVars, repoVars, commit, diskVars>>

\* meta.yaml, tasks, runners and the results directory; each may raise RunError.
Load ==
  /\ pc = "load"
  /\ ReadTree
  /\ Goto("wipe") \/ Raise("error")
  /\ UNCHANGED <<iterVars, dockerVars, repoVars, commit, diskVars>>

\* Mutant: rmtree of the runs tree only, result.json is left to be overwritten.
MutWipe ==
  /\ pc = "wipe"
  /\ logs' = [c \in 1 .. Cells |-> 0]
  /\ Goto("up")
  /\ UNCHANGED <<iterVars, dockerVars, repoVars, commit, seen, result, halfWiped>>

\* rmtree deletes one entry after the other, in no particular order, and may fail at any
\* of them (a container can leave files its owner only may delete); then mkdir.
Wipe ==
  /\ pc = "wipe"
  /\ \/ \E c \in 1 .. Cells :
          /\ logs[c] # 0
          /\ logs' = [logs EXCEPT ![c] = 0]
          /\ halfWiped' = TRUE
          /\ UNCHANGED <<control, result>>
     \/ /\ result # NoResult
        /\ result' = NoResult
        /\ halfWiped' = TRUE
        /\ UNCHANGED <<control, logs>>
     \/ /\ result = NoResult
        /\ \A c \in 1 .. Cells : logs[c] = 0
        /\ halfWiped' = FALSE
        /\ Goto("up")
        /\ UNCHANGED <<logs, result>>
     \/ Raise("error") /\ UNCHANGED diskVars
  /\ UNCHANGED <<iterVars, dockerVars, repoVars, commit, seen>>

\* docker compose up --wait; a failure or a timeout leaves what had started.
ComposeUp ==
  /\ pc = "up"
  /\ \/ fixtures' = [fixtures EXCEPT ![round] = "up"] /\ Goto("network")
     \/ fixtures' = [fixtures EXCEPT ![round] = "partial"] /\ Raise("error")
  /\ UNCHANGED <<iterVars, teardown, stray, repoVars, commit, seen, diskVars>>

\* The compose file is read again; an edit may have removed the internal network.
DiscoverNetwork ==
  /\ pc = "network"
  /\ ReadTree
  /\ Goto("run") \/ (tree = "dirty" /\ Raise("error"))
  /\ UNCHANGED <<iterVars, dockerVars, repoVars, commit, diskVars>>

\* runner.run through run_task_in_sandbox: the container sees the battle directory as
\* it is now and writes output.json; log.jsonl is written when the call returns.
RunCell ==
  /\ pc = "run"
  /\ ReadTree
  /\ output' \in Outputs
  /\ stray' \in {stray, TRUE}
  /\ \/ /\ outcome' \in {"pass", "fail", "timeout"}
        /\ logs' = [logs EXCEPT ![cell] = round]
        /\ Goto("gate")
     \/ outcome' = "raised" /\ UNCHANGED logs /\ Raise("error")
  /\ UNCHANGED <<cell, runs, fixtures, teardown, repoVars, commit, result, halfWiped>>

\* _final_success: the exit code, then output.json against `expected`.
FinalSuccess ==
  /\ outcome = "pass"
  /\ cell \in Gated => output \in {"none", "match"}

\* _read_output_json is reached only for a passing cell with expectations, and turns
\* every decoding problem but UnicodeDecodeError into a failed run.
Undecodable == outcome = "pass" /\ cell \in Gated /\ output = "undecodable"

\* Mutant: an output that cannot be decoded skips the rest of the task's iterations.
MutGate ==
  /\ pc = "gate"
  /\ runs' = Append(runs, FinalSuccess)
  /\ cell' = cell + 1
  /\ Goto(IF cell = Cells \/ Undecodable THEN "down" ELSE "run")
  /\ UNCHANGED <<outcome, output, dockerVars, repoVars, commit, seen, diskVars>>

\* Mutant: only successful iterations are recorded.
MutGateRecord ==
  /\ pc = "gate"
  /\ runs' = IF FinalSuccess THEN Append(runs, TRUE) ELSE runs
  /\ cell' = cell + 1
  /\ Goto(IF cell = Cells THEN "down" ELSE "run")
  /\ UNCHANGED <<outcome, output, dockerVars, repoVars, commit, seen, diskVars>>

Gate ==
  /\ pc = "gate"
  /\ \/ /\ ~Undecodable
        /\ runs' = Append(runs, FinalSuccess)
        /\ cell' = cell + 1
        /\ Goto(IF cell = Cells THEN "down" ELSE "run")
     \/ Undecodable /\ Raise("error") /\ UNCHANGED <<runs, cell>>
  /\ UNCHANGED <<outcome, output, dockerVars, repoVars, commit, seen, diskVars>>

\* After compose down an exception in flight goes on, else the result is built.
AfterDown ==
  /\ pc' = IF how = "none" THEN "head" ELSE "failed"
  /\ UNCHANGED <<round, failedAt, how>>

\* Mutant: the teardown waits until no container is left on the network.
MutComposeDown ==
  /\ pc = "down"
  /\ ~stray
  /\ teardown' = "ok"
  /\ fixtures' = [fixtures EXCEPT ![round] = "down"]
  /\ AfterDown
  /\ UNCHANGED <<iterVars, stray, repoVars, commit, seen, diskVars>>

\* docker compose down: its exit code is ignored, its timeout raises and replaces the
\* exception in flight.  A stray container keeps the network alive.
ComposeDown ==
  /\ pc = "down"
  /\ \/ /\ fixtures' = [fixtures EXCEPT ![round] = IF stray THEN "network" ELSE "down"]
        /\ teardown' = IF stray THEN "err" ELSE "ok"
        /\ AfterDown
     \/ UNCHANGED fixtures /\ teardown' = "err" /\ AfterDown
     \/ UNCHANGED <<fixtures, teardown>> /\ Raise("error")
  /\ UNCHANGED <<iterVars, stray, repoVars, commit, seen, diskVars>>

\* git rev-parse has five seconds; where it names no commit, GIT_COMMIT does.
ReadHead ==
  /\ pc = "head"
  /\ \/ commit' \in {head, GitCommit} /\ Goto("open")
     \/ UNCHANGED commit /\ Raise("error")
  /\ UNCHANGED <<iterVars, dockerVars, repoVars, seen, diskVars>>

\* write_text truncates ...
OpenResult ==
  /\ pc = "open"
  /\ result' = TornResult
  /\ Goto("write")
  /\ UNCHANGED <<iterVars, dockerVars, repoVars, commit, seen, logs, halfWiped>>

\* ... then writes.
WriteResult ==
  /\ pc = "write"
  /\ result' = [kind |-> "whole", round |-> round, commit |-> commit, runs |-> runs]
  /\ Goto("done")
  /\ UNCHANGED <<iterVars, dockerVars, repoVars, commit, seen, logs, halfWiped>>

\* What a command that is cut short may leave: some services, or the cell's container.
CutShort ==
  /\ fixtures' \in {fixtures, [fixtures EXCEPT ![round] = IF pc = "up" THEN "partial" ELSE @]}
  /\ stray' \in {stray, stray \/ pc = "run"}
  /\ UNCHANGED <<iterVars, teardown, repoVars, commit, seen, diskVars>>

\* KeyboardInterrupt, at most one per round; it replaces an error in flight.
Interrupt ==
  /\ pc \in Active
  /\ how \in {"none", "error"}
  /\ Raise("interrupt")
  /\ CutShort

\* SIGKILL or power loss: no finally.
Crash ==
  /\ pc \in Active
  /\ pc' = "failed"
  /\ failedAt' = pc
  /\ how' = "crash"
  /\ UNCHANGED round
  /\ CutShort

\* The operator checks out a commit, or edits files.
Checkout ==
  /\ head' \in Commits
  /\ tree' = head'
  /\ UNCHANGED stateVars

Edit ==
  /\ tree' = "dirty"
  /\ UNCHANGED <<head, stateVars>>

Bench ==
  \/ Validate \/ Load \/ Wipe \/ ComposeUp \/ DiscoverNetwork \/ RunCell \/ Gate
  \/ ComposeDown \/ ReadHead \/ OpenResult \/ WriteResult

Next == Start \/ Bench \/ Interrupt \/ Crash \/ Checkout \/ Edit

SafetySpec == Init /\ [][Next]_vars

\* The process keeps running; every docker and git call it waits for has a timeout.
Spec == SafetySpec /\ WF_vars(Bench)

------------------------------------------------------------------------------
(* Properties                                                              *)

Whole == result.kind = "whole"

\* The orchestrator's variables keep their types.
TypeOK ==
  /\ pc \in Idle \cup Active
  /\ round \in 0 .. MaxRounds
  /\ cell \in 1 .. Cells + 1
  /\ runs \in Seq(BOOLEAN) /\ Len(runs) = cell - 1
  /\ outcome \in {"none", "pass", "fail", "timeout", "raised"}
  /\ output \in Outputs
  /\ failedAt \in Active \cup {"none"}
  /\ how \in {"none", "error", "interrupt", "crash"}
  /\ fixtures \in [1 .. MaxRounds -> {"down", "partial", "up", "network"}]
  /\ teardown \in {"none", "ok", "err"}
  /\ stray \in BOOLEAN
  /\ commit \in Commits \cup {Nil}
  /\ head \in Commits
  /\ tree \in Commits \cup {"dirty"}
  /\ seen \subseteq Commits \cup {"dirty"}
  /\ logs \in [1 .. Cells -> 0 .. MaxRounds]
  /\ result.kind \in {"none", "torn", "whole"}
  /\ halfWiped \in BOOLEAN

\* A readable result.json lies beside the complete logs of its own round, never beside
\* logs of another one (run.py: rmtree before, write last).  A wipe that was cut short can
\* leave it beside fewer of them, but not beside others either.
ResultMatchesLogs ==
  Whole =>
    /\ Len(result.runs) = Cells
    /\ \A c \in 1 .. Cells : logs[c] = result.round \/ (halfWiped /\ logs[c] = 0)

\* A round that fails after its wipe leaves no readable result.json behind, so the
\* result of an earlier round cannot be taken for its own.
NoStaleResult ==
  pc = "failed" /\ failedAt \notin {"validate", "load", "wipe"} => ~Whole

\* When a round is over its fixtures are gone, or there is a reason: up or the network
\* discovery failed outside the try block, down failed or was cut short, a stray
\* container held the network, or the process was killed.
FixturesAccounted ==
  pc \in {"done", "failed"} /\ fixtures[round] # "down" =>
    \/ failedAt \in {"up", "network", "down"}
    \/ teardown = "err"
    \/ how = "crash"

\* result.json is published whole only for a round in which every cell was recorded,
\* nothing was raised and the teardown was attempted.
AllOrNothing ==
  [][Whole' /\ result' # result =>
       how = "none" /\ Len(runs) = Cells /\ teardown # "none"]_vars

\* Once an iteration has begun, compose down is attempted, unless the process is killed.
TeardownFollows == (pc \in Protected) ~> (pc = "down" \/ how = "crash")

\* Every invocation ends: no docker or git call can hang it.
RoundEnds == (pc \in Active) ~> (pc \in {"done", "failed"})

\* result.schema.json: battle_commit is the "full git SHA-1 of the repo state used to
\* produce this result".
CommitIsUsed == pc = "done" /\ result.commit # Nil => seen = {result.commit}

\* run.py, RunError: "Per-iteration failures of the container itself are recorded as
\* success=False in result.json and never raise".
IterationNeverRaises == ~(failedAt = "gate" /\ how = "error")

------------------------------------------------------------------------------
(* Refinement of Results                                                   *)

ResultsPhase ==
  CASE pc \in Idle -> "quiet"
    [] pc \in {"validate", "load", "wipe"} -> "wipe"
    [] pc = "write" -> "write"
    [] OTHER -> "fill"

ResultsRecord ==
  IF Whole THEN [kind |-> "whole", round |-> result.round, commit |-> result.commit]
  ELSE [kind |-> result.kind, round |-> 0, commit |-> Nil]

Directory == INSTANCE Results WITH phase <- ResultsPhase, result <- ResultsRecord

\* The orchestrator, with all that goes wrong around it, treats its results directory the
\* way that `bench package` relies on.
ImplementsResults == Directory!Spec

==============================================================================
