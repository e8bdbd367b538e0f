------------------------------- MODULE Harness -------------------------------
(***************************************************************************)
(* One browser cell after the other through runners/selenium.py: the       *)
(* argv, the container with its shell preflight and EXIT trap, drive.js,   *)
(* the Selenium grid's pool of sessions, the attach timeout, and the gate  *)
(* of run.py that reads output.json.                                       *)
(*                                                                         *)
(* Time is a clock of ticks.  The grid is external: it grants a session    *)
(* when a slot is free and takes it back some ticks after its last use.    *)
(* An orphan is a session whose container is gone.                         *)
(***************************************************************************)
EXTENDS Naturals, FiniteSets

CONSTANTS
  MaxSessions,  \* SE_NODE_MAX_SESSIONS
  Reap,         \* ticks until an idle session is gone: SE_NODE_SESSION_TIMEOUT and a pass
  Timeout,      \* ticks of the task's timeout_s
  MaxGhosts     \* bound on the queued requests whose client is gone

ASSUME HarnessAssumption ==
  /\ MaxSessions \in Nat \ {0}
  /\ Reap \in Nat \ {0}
  /\ Timeout \in Nat \ {0}
  /\ MaxGhosts \in Nat

VARIABLES
  pc,        \* where the cell is
  elapsed,   \* ticks since its container started
  lease,     \* ticks its session has left, 0 if it has none
  orphans,   \* the sessions of dead containers, by cause and ticks left
  ghosts,    \* requests in the grid's queue that nobody waits for
  expected,  \* the value `expected` has for the key the handler reports
  got,       \* the value the handler returned for it
  output,    \* output.json
  marks,     \* what happened in node: it got to the try block, a write failed
  exit,      \* how the container ended
  success    \* what run.py recorded

gridVars == <<lease, orphans, ghosts>>
nodeVars == <<expected, got, output, marks>>
vars == <<pc, elapsed, gridVars, nodeVars, exit, success>>

Shell == {"post", "parse"}
Node == {"args", "handle", "write", "written", "compare", "catch", "caught"}
Live == Shell \cup Node \cup {"delete"}

\* Python values of `expected`: none stands for an empty one, and the last two are no JSON.
Wanted == {"none", "one", "true", "text", "nan", "date"}
\* JavaScript values a handler of drive.js returns; absent is a key it does not report.
Returned == {"one", "text", "undefined", "absent"}

Leases == {"timeout", "other"} \X (1 .. Reap)
\* The orphans with a lease in S, numbered, and the slots they hold.
Sessions(S) == UNION {{l} \X (1 .. orphans[l]) : l \in S}
Held(S) == Cardinality(Sessions(S))
Used == Held(Leases) + (IF lease > 0 THEN 1 ELSE 0)

Init ==
  /\ pc = "start"
  /\ elapsed = 0
  /\ lease = 0
  /\ orphans = [l \in Leases |-> 0]
  /\ ghosts = 0
  /\ expected = "none"
  /\ got = "absent"
  /\ output = "none"
  /\ marks = {}
  /\ exit = "none"
  /\ success = FALSE

------------------------------------------------------------------------------
(* The runner and the preflight                                            *)

\* Mutant: what the last cell left is not cleared.
MutStart ==
  /\ pc \in {"start", "recorded"}
  /\ expected' \in Wanted
  /\ pc' = "raised" \/ (expected' # "date" /\ pc' = "post")
  /\ elapsed' = 0
  /\ got' = "absent"
  /\ output' = "none"
  /\ marks' = {}
  /\ success' = FALSE
  /\ UNCHANGED <<gridVars, exit>>

\* The next iteration, in a directory of its own.  json.dumps refuses a YAML date with a
\* TypeError, and docker may fail before the container starts: both end the bench.
Start ==
  /\ pc \in {"start", "recorded"}
  /\ expected' \in Wanted
  /\ pc' = "raised" \/ (expected' # "date" /\ pc' = "post")
  /\ elapsed' = 0
  /\ got' = "absent"
  /\ output' = "none"
  /\ marks' = {}
  /\ exit' = "none"
  /\ success' = FALSE
  /\ UNCHANGED gridVars

\* The container is over: what becomes of its session, and with which code it ended.
Orphan(cause) ==
  /\ orphans' = IF lease = 0 THEN orphans ELSE [orphans EXCEPT ![<<cause, lease>>] = @ + 1]
  /\ lease' = 0

Over(code) == pc' = "gate" /\ exit' = code

\* A request may stay in the grid's queue when its client goes.
LeaveGhost == ghosts' \in {ghosts} \cup (IF ghosts < MaxGhosts THEN {ghosts + 1} ELSE {})

\* The grid serves the POST of the preflight: curl has no timeout of its own.
Grant ==
  /\ pc = "post"
  /\ Used < MaxSessions
  /\ lease' = Reap
  /\ pc' = "parse"
  /\ UNCHANGED <<elapsed, orphans, ghosts, nodeVars, exit, success>>

\* curl -f fails, and set -e ends the shell: no trap yet.
PostFails ==
  /\ pc = "post"
  /\ Over("nonzero")
  /\ LeaveGhost
  /\ UNCHANGED <<elapsed, lease, orphans, nodeVars, success>>

\* The answer is parsed; one without se:cdp ends the shell before the trap is set.
Parse ==
  /\ pc = "parse"
  /\ \/ pc' = "args" /\ UNCHANGED <<exit, lease, orphans>>
     \/ Over("nonzero") /\ Orphan("other")
  /\ UNCHANGED <<elapsed, ghosts, nodeVars, success>>

\* The EXIT trap: node's exit code is kept whether or not the DELETE works.
Delete ==
  /\ pc = "delete"
  /\ Orphan("other") \/ (lease' = 0 /\ UNCHANGED orphans)
  /\ pc' = "gate"
  /\ UNCHANGED <<elapsed, ghosts, nodeVars, exit, success>>

------------------------------------------------------------------------------
(* drive.js                                                                *)

Exit(code) == pc' = "delete" /\ exit' = code
Fail == pc' = "catch" /\ UNCHANGED exit

\* parseJsonObjectArg is called before the try block: a rejected main exits with 1.
Args ==
  /\ pc = "args"
  /\ \/ expected # "nan" /\ pc' = "handle" /\ marks' = {"try"} /\ UNCHANGED exit
     \/ Exit("nonzero") /\ UNCHANGED marks
  /\ UNCHANGED <<elapsed, gridVars, expected, got, output, success>>

\* connect, then the task's handler; without its session it throws.
Handle ==
  /\ pc = "handle"
  /\ \/ lease > 0 /\ got' \in Returned /\ pc' = "write" /\ UNCHANGED exit
     \/ Fail /\ UNCHANGED got
  /\ UNCHANGED <<elapsed, gridVars, expected, output, marks, success>>

\* fs.writeFile truncates, then writes; either may fail.
Write ==
  /\ pc = "write"
  /\ \/ output' = "torn" /\ pc' = "written" /\ UNCHANGED <<exit, marks>>
     \/ Fail /\ marks' = marks \cup {"ioerr"} /\ UNCHANGED output
  /\ UNCHANGED <<elapsed, gridVars, expected, got, success>>

Written ==
  /\ pc = "written"
  /\ \/ output' = "handler" /\ pc' = "compare" /\ UNCHANGED <<exit, marks>>
     \/ Fail /\ marks' = marks \cup {"ioerr"} /\ UNCHANGED output
  /\ UNCHANGED <<elapsed, gridVars, expected, got, success>>

\* Mutant: a key is skipped by its value, not by `in`.
MutMismatch == expected # "none" /\ got \notin {"absent", "undefined"} /\ got # expected

\* findExpectedMismatch: isDeepStrictEqual, for the keys the output has.
Mismatch == expected # "none" /\ got # "absent" /\ got # expected

Compare ==
  /\ pc = "compare"
  /\ Exit(IF Mismatch THEN "nonzero" ELSE "zero")
  /\ UNCHANGED <<elapsed, gridVars, nodeVars, success>>

\* Mutant: process.exit before the record is written.
MutCatch ==
  /\ pc = "catch"
  /\ Exit("nonzero")
  /\ UNCHANGED <<elapsed, gridVars, nodeVars, success>>

\* The catch block writes the error record, ignores a failure of that, and exits with 1.
Catch ==
  /\ pc = "catch"
  /\ \/ output' = "torn" /\ pc' = "caught" /\ UNCHANGED <<exit, marks>>
     \/ Exit("nonzero") /\ marks' = marks \cup {"ioerr"} /\ UNCHANGED output
  /\ UNCHANGED <<elapsed, gridVars, expected, got, success>>

Caught ==
  /\ pc = "caught"
  /\ \/ output' = "error" /\ UNCHANGED marks
     \/ UNCHANGED output /\ marks' = marks \cup {"ioerr"}
  /\ Exit("nonzero")
  /\ UNCHANGED <<elapsed, gridVars, expected, got, success>>

------------------------------------------------------------------------------
(* The host                                                                *)

\* The container is removed: docker rm -f kills the shell before its trap can run.
Kill(cause) ==
  /\ pc \in Live
  /\ Orphan(cause) \/ (pc = "delete" /\ lease' = 0 /\ UNCHANGED orphans)
  /\ IF pc = "post" THEN LeaveGhost ELSE UNCHANGED ghosts
  /\ pc' = "gate"

\* Mutant: the timeout strikes early.
MutExpired == elapsed >= 1

\* The attach waits for timeout_s.
Expired == elapsed = Timeout

\* Mutant: no timeout while the shell waits for its session.
MutTimesOut ==
  /\ Expired
  /\ pc # "post"
  /\ Kill("timeout")
  /\ exit' = "timeout"
  /\ UNCHANGED <<elapsed, nodeVars, success>>

TimesOut ==
  /\ Expired
  /\ Kill("timeout")
  /\ exit' = "timeout"
  /\ UNCHANGED <<elapsed, nodeVars, success>>

\* The attach ended with an error although the container still ran.
AttachFails ==
  /\ Kill("other")
  /\ exit' = "nonzero"
  /\ UNCHANGED <<elapsed, nodeVars, success>>

\* What output.json holds for the key: JSON.stringify drops undefined.
InFile == IF output = "handler" /\ got # "undefined" THEN got ELSE "absent"

\* Python's == takes 1 and True for equal.
PyEqual(a, b) == a = b \/ {a, b} = {"one", "true"}

\* run_task_in_sandbox writes log.jsonl and reports success for code zero in time; then
\* _final_success: a torn file is malformed, a missing one and a missing key are skipped.
Gate ==
  /\ pc = "gate"
  /\ pc' = "recorded"
  /\ success' = /\ exit = "zero"
                /\ \/ expected = "none"
                   \/ /\ output # "torn"
                      /\ InFile = "absent" \/ PyEqual(InFile, expected)
  /\ UNCHANGED <<elapsed, gridVars, nodeVars, exit>>

------------------------------------------------------------------------------
(* The grid and the clock                                                  *)

GrantGhost ==
  /\ ghosts > 0
  /\ ghosts' = ghosts - 1
  /\ \/ Used < MaxSessions /\ orphans' = [orphans EXCEPT ![<<"other", Reap>>] = @ + 1]
     \/ UNCHANGED orphans
  /\ UNCHANGED <<pc, elapsed, lease, nodeVars, exit, success>>

\* A session in use may count as such, or not.
Refresh ==
  /\ pc = "handle"
  /\ lease > 0
  /\ lease' = Reap
  /\ UNCHANGED <<pc, elapsed, orphans, ghosts, nodeVars, exit, success>>

Tick ==
  /\ pc \in Live => elapsed < Timeout
  /\ elapsed' = IF pc \in Live THEN elapsed + 1 ELSE elapsed
  /\ lease' = IF lease = 0 THEN 0 ELSE lease - 1
  /\ orphans' = [l \in Leases |-> IF l[2] = Reap THEN 0 ELSE orphans[<<l[1], l[2] + 1>>]]
  /\ UNCHANGED <<pc, ghosts, nodeVars, exit, success>>

Drive == Args \/ Handle \/ Write \/ Written \/ Compare \/ Catch \/ Caught
Preflight == PostFails \/ Parse \/ Delete
Grid == Grant \/ GrantGhost \/ Refresh

Next == Start \/ Preflight \/ Drive \/ TimesOut \/ AttachFails \/ Gate \/ Grid \/ Tick

\* Time passes, the attach times out and run.py goes on; the grid and node owe nothing.
Spec ==
  /\ Init /\ [][Next]_vars
  /\ WF_vars(Tick)
  /\ WF_vars(TimesOut)
  /\ WF_vars(Gate)

------------------------------------------------------------------------------
(* Properties                                                              *)

\* The variables keep their types, a cell has an exit code exactly when node or its
\* container is over, and the grid never has more sessions than slots.
TypeOK ==
  /\ pc \in Live \cup {"start", "gate", "recorded", "raised"}
  /\ elapsed \in 0 .. Timeout
  /\ lease \in 0 .. Reap
  /\ orphans \in [Leases -> 0 .. MaxSessions]
  /\ ghosts \in 0 .. MaxGhosts
  /\ expected \in Wanted
  /\ got \in Returned
  /\ output \in {"none", "torn", "handler", "error"}
  /\ marks \subseteq {"try", "ioerr"}
  /\ exit \in {"none", "zero", "nonzero", "timeout"}
  /\ success \in BOOLEAN
  /\ pc \in Shell \cup Node => exit = "none"
  /\ Used <= MaxSessions

\* compose.yml: "Short session timeout reaps leaked sessions quickly so the pool doesn't
\* bottleneck".  However many cells in a row time out, the sessions that their killed
\* containers left hold at most Reap / Timeout slots, rounded up: before the pool is full,
\* the rest must have been lost another way.
TimeoutsLeaveRoom ==
  Timeout * Held({"timeout"} \X (1 .. Reap)) < Reap + Timeout

\* What the cell was asked for is what the handler returned, as JavaScript sees it.
Right == expected = "none" \/ got = "absent" \/ got = expected

\* The two gates agree: run.py never overturns a container that ended with zero in time,
\* though it reads the value back from JSON and compares it with Python's ==, and what it
\* records as a success is a value that is right and stands in output.json.
SuccessIsRight ==
  pc = "recorded" =>
    /\ success <=> exit = "zero"
    /\ success => Right /\ output = "handler"

\* drive.js: "Always emit output.json with diagnostic context so the orchestrator log carries
\* the failure cause".  A container that failed by itself in the try block leaves a whole
\* record, the handler's or the error's, unless a write failed.
DiagnosticLeft ==
  pc = "delete" /\ marks = {"try"} => output \in {"handler", "error"}

\* Every cell is recorded, whether or not the grid ever grants it a session.
CellEnds == (pc \in Live) ~> (pc = "recorded")

==============================================================================
