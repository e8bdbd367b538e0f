------------------------------- MODULE Sandbox -------------------------------
(***************************************************************************)
(* One call of run_constrained (bench_kit/exec.py): the calling thread,    *)
(* the docker daemon it drives through the docker CLI, the container, the  *)
(* stats poller thread with its watcher thread, and the docker stats       *)
(* process they read from.                                                 *)
(*                                                                         *)
(* Every docker command is a request the client sends, the daemon serves,  *)
(* and the client waits for with a timeout.  When the client stops waiting *)
(* (a timeout, or an exception such as KeyboardInterrupt) the CLI process  *)
(* is killed but the daemon may still serve the request later.             *)
(***************************************************************************)
EXTENDS Naturals

CONSTANT MaxSamples   \* bound on the stats lines docker emits in one call

ASSUME SamplesAssumption == MaxSamples \in Nat

VARIABLES
  pc,             \* where the calling thread is
  reply,          \* the answer to the docker command at pc
  gaveUp,         \* commands the caller stopped waiting for
  inflight,       \* requests of those that the daemon may still serve
  interruptedAt,  \* where an asynchronous exception hit, "none" if it did not
  timedOut,       \* ExecResult.timed_out
  exitCode,       \* ExecResult.exit_code
  container,      \* the container, as the daemon knows it
  procExit,       \* how the contained process ended
  stop,           \* the threading.Event
  poller,         \* the _poll_stats thread
  watcher,        \* the _terminate_when_stopped thread
  stats,          \* the docker stats process
  sigterm,        \* proc.terminate() was called on it
  written,        \* number of lines docker stats has written to its pipe
  samples,        \* number of samples appended to the list so far
  counted         \* samples _summarise_samples has read

callVars == <<gaveUp, inflight, interruptedAt>>
resultVars == <<timedOut, exitCode>>
daemonVars == <<container, procExit>>
threadVars == <<poller, watcher, stats, sigterm, written, samples>>

vars == <<pc, reply, callVars, resultVars, daemonVars, stop, threadVars, counted>>

Commands == {"inspect", "pull", "create", "attach", "kill", "rm"}
Ended == {"returned", "raised"}
Present == {"created", "running", "exited"}

\* The flags of the create argv that change when a container goes away: none.
CreateFlags == {}

Init ==
  /\ pc = "check"
  /\ reply = "none"
  /\ gaveUp = {}
  /\ inflight = {}
  /\ interruptedAt = "none"
  /\ timedOut = FALSE
  /\ exitCode = "none"
  /\ container = "none"
  /\ procExit = "none"
  /\ stop = FALSE
  /\ poller = "off"
  /\ watcher = "off"
  /\ stats = "off"
  /\ sigterm = FALSE
  /\ written = 0
  /\ samples = 0
  /\ counted = 0

------------------------------------------------------------------------------
(* The calling thread                                                      *)

Send(c) == pc' = c /\ reply' = "sent"

Goto(l) == pc' = l /\ reply' = "none"

Answered(c) == pc = c /\ reply \in {"ok", "err"}

\* subprocess.run stops waiting and kills the CLI; the daemon keeps an unserved request.
GiveUp ==
  /\ gaveUp' = gaveUp \cup {pc}
  /\ inflight' = IF reply = "sent" THEN inflight \cup {pc} ELSE inflight

\* Whatever ends the try block leads to its finally block.
Finally == Goto("finally")

\* An unpinned image or a missing docker CLI raises ExecError.
CheckImage ==
  /\ pc = "check"
  /\ Send("inspect") \/ Goto("raised")
  /\ UNCHANGED <<callVars, resultVars, daemonVars, stop, threadVars, counted>>

\* _ensure_image_local: pull only what inspect does not find.
Inspected ==
  /\ Answered("inspect")
  /\ \/ reply = "ok" /\ Send("create")
     \/ reply = "err" /\ Send("pull")
  /\ UNCHANGED <<callVars, resultVars, daemonVars, stop, threadVars, counted>>

Pulled ==
  /\ Answered("pull")
  /\ \/ reply = "ok" /\ Send("create")
     \/ reply = "err" /\ pc' = "raised" /\ UNCHANGED reply
  /\ UNCHANGED <<callVars, resultVars, daemonVars, stop, threadVars, counted>>

\* A failed create raises ExecError; so does one that succeeds and prints no id.
Created ==
  /\ pc = "create"
  /\ \/ reply = "ok" /\ Goto("launch")
     \/ reply \in {"err", "no id"} /\ pc' = "raised" /\ UNCHANGED reply
  /\ UNCHANGED <<callVars, resultVars, daemonVars, stop, threadVars, counted>>

\* TimeoutExpired of inspect, pull and create escapes run_constrained.
SetupTimeout ==
  /\ pc \in {"inspect", "pull", "create"}
  /\ GiveUp
  /\ Goto("raised")
  /\ UNCHANGED <<interruptedAt, resultVars, daemonVars, stop, threadVars, counted>>

\* poller.start(); what comes before the try block is not protected by its finally.
Launch ==
  /\ pc = "launch"
  /\ poller' = "spawned"
  /\ Goto("started")
  /\ UNCHANGED <<callVars, resultVars, daemonVars, stop, counted,
                 watcher, stats, sigterm, written, samples>>

\* The try block: docker start --attach.
Attach ==
  /\ pc = "started"
  /\ Send("attach")
  /\ UNCHANGED <<callVars, resultVars, daemonVars, stop, threadVars, counted>>

\* Mutant: the exit code of the CLI is not read.
MutAttached ==
  /\ Answered("attach")
  /\ exitCode' = "zero"
  /\ Finally
  /\ UNCHANGED <<callVars, timedOut, daemonVars, stop, threadVars, counted>>

Attached ==
  /\ Answered("attach")
  /\ exitCode' = IF reply = "ok" THEN "zero" ELSE "nonzero"
  /\ Finally
  /\ UNCHANGED <<callVars, timedOut, daemonVars, stop, threadVars, counted>>

AttachTimeout ==
  /\ pc = "attach"
  /\ GiveUp
  /\ timedOut' = TRUE
  /\ Send("kill")
  /\ UNCHANGED <<interruptedAt, exitCode, daemonVars, stop, threadVars, counted>>

\* Mutant: docker kill without a timeout.
MutKilled ==
  /\ Answered("kill")
  /\ exitCode' = "124"
  /\ Finally
  /\ UNCHANGED <<callVars, timedOut, daemonVars, stop, threadVars, counted>>

\* _docker_kill is best effort: its answer is ignored and its timeout swallowed.
Killed ==
  /\ pc = "kill"
  /\ \/ Answered("kill") /\ UNCHANGED <<gaveUp, inflight>>
     \/ GiveUp
  /\ exitCode' = "124"
  /\ Finally
  /\ UNCHANGED <<interruptedAt, timedOut, daemonVars, stop, threadVars, counted>>

\* The finally block begins with stop.set().
StopPoller ==
  /\ pc = "finally"
  /\ stop' = TRUE
  /\ Goto("join")
  /\ UNCHANGED <<callVars, resultVars, daemonVars, threadVars, counted>>

\* Mutant: docker rm only when the poller outlives the join.
MutJoin ==
  /\ pc = "join"
  /\ \/ poller = "done" /\ pc' = (IF interruptedAt = "none" THEN "summarise" ELSE "raised")
        /\ UNCHANGED reply
     \/ poller # "done" /\ Send("rm")
  /\ UNCHANGED <<callVars, resultVars, daemonVars, stop, threadVars, counted>>

\* join(timeout=_KILL_GRACE_S) returns whether or not the poller has ended by then.
Join ==
  /\ pc = "join"
  /\ Send("rm")
  /\ UNCHANGED <<callVars, resultVars, daemonVars, stop, threadVars, counted>>

\* _docker_rm is best effort too; an exception in flight propagates after it.
Removed ==
  /\ pc = "rm"
  /\ \/ Answered("rm") /\ UNCHANGED <<reply, gaveUp, inflight>>
     \/ GiveUp /\ reply' = "none"
  /\ pc' = IF interruptedAt = "none" THEN "summarise" ELSE "raised"
  /\ UNCHANGED <<interruptedAt, resultVars, daemonVars, stop, threadVars, counted>>

\* Mutant: one sample too many is read.
MutSummarise ==
  /\ pc = "summarise"
  /\ \/ counted <= samples /\ counted' = counted + 1 /\ UNCHANGED pc
     \/ counted = samples /\ pc' = "returned" /\ UNCHANGED counted
  /\ UNCHANGED <<reply, callVars, resultVars, daemonVars, stop, threadVars>>

\* `for s in samples` reads the live list, so it sees what the poller still appends.
Summarise ==
  /\ pc = "summarise"
  /\ \/ counted < samples /\ counted' = counted + 1 /\ UNCHANGED pc
     \/ counted = samples /\ pc' = "returned" /\ UNCHANGED counted
  /\ UNCHANGED <<reply, callVars, resultVars, daemonVars, stop, threadVars>>

\* KeyboardInterrupt, an OSError of subprocess, a thread that cannot be started: only the
\* try block has a finally, and nothing protects the finally block.
Interrupt ==
  /\ pc \notin Ended
  /\ interruptedAt = "none"
  /\ interruptedAt' = pc
  /\ IF pc \in Commands THEN GiveUp ELSE UNCHANGED <<gaveUp, inflight>>
  /\ IF pc \in {"attach", "kill"}
     THEN Finally
     ELSE pc' = "raised" /\ reply' = IF pc = "summarise" THEN reply ELSE "none"
  /\ UNCHANGED <<resultVars, daemonVars, stop, threadVars, counted>>

Client ==
  \/ CheckImage \/ Inspected \/ Pulled \/ Created \/ SetupTimeout \/ Launch
  \/ Attach \/ Attached \/ AttachTimeout \/ Killed \/ StopPoller \/ Join \/ Removed
  \/ Summarise

------------------------------------------------------------------------------
(* The docker daemon and the container                                     *)

\* Where a container goes when its process ends: docker removes it only if asked to.
AfterExit == IF "--rm" \in CreateFlags THEN "removed" ELSE "exited"

\* What serving a command does to the container.
Effect(c) ==
  \/ c = "create" /\ container = "none" /\ container' = "created" /\ UNCHANGED procExit
  \/ c = "attach" /\ container = "created" /\ container' = "running" /\ UNCHANGED procExit
  \/ c = "kill" /\ container = "running" /\ container' = AfterExit /\ procExit' = "killed"
  \/ /\ c = "rm"
     /\ container \in Present
     /\ container' = "removed"
     /\ procExit' = IF container = "running" THEN "killed" ELSE procExit

\* create, kill and rm answer when they are done; the id that create prints may get lost.
ServeOk ==
  /\ reply = "sent"
  /\ pc \in {"create", "kill", "rm"}
  /\ Effect(pc)
  /\ reply' \in {"ok"} \cup (IF pc = "create" THEN {"no id"} ELSE {})
  /\ UNCHANGED <<pc, callVars, resultVars, stop, threadVars, counted>>

\* inspect and pull leave containers alone.
ServeQuery ==
  /\ reply = "sent"
  /\ pc \in {"inspect", "pull"}
  /\ reply' = "ok"
  /\ UNCHANGED <<pc, callVars, resultVars, daemonVars, stop, threadVars, counted>>

\* Any command can fail: no such image, no such container, a broken attach stream.
ServeErr ==
  /\ reply = "sent"
  /\ pc \in Commands
  /\ reply' = "err"
  /\ UNCHANGED <<pc, callVars, resultVars, daemonVars, stop, threadVars, counted>>

StartContainer ==
  /\ reply = "sent"
  /\ pc = "attach"
  /\ Effect("attach")
  /\ UNCHANGED <<pc, reply, callVars, resultVars, stop, threadVars, counted>>

\* docker start --attach exits with the exit code of the process.
AttachEnds ==
  /\ reply = "sent"
  /\ pc = "attach"
  /\ procExit # "none"
  /\ reply' = IF procExit = "zero" THEN "ok" ELSE "err"
  /\ UNCHANGED <<pc, callVars, resultVars, daemonVars, stop, threadVars, counted>>

\* A request whose client has gone is served all the same, or dropped.
ServeLate ==
  \E c \in inflight :
    /\ Effect(c) \/ UNCHANGED daemonVars
    /\ inflight' = inflight \ {c}
    /\ UNCHANGED <<pc, reply, gaveUp, interruptedAt, resultVars, stop, threadVars, counted>>

ProcessExits ==
  /\ container = "running"
  /\ container' = AfterExit
  /\ procExit' \in {"zero", "nonzero"}
  /\ UNCHANGED <<pc, reply, callVars, resultVars, stop, threadVars, counted>>

Daemon == ServeOk \/ ServeQuery \/ ServeErr \/ StartContainer \/ AttachEnds \/ ServeLate

------------------------------------------------------------------------------
(* The stats poller, its watcher and the docker stats process              *)

mainVars == <<pc, reply, callVars, resultVars, daemonVars, stop, counted>>

\* Popen succeeds and the watcher starts, or Popen fails and the thread ends.
PollerOpens ==
  /\ poller = "spawned"
  /\ \/ poller' = "reading" /\ stats' = "alive" /\ watcher' = "waiting"
     \/ poller' = "done" /\ UNCHANGED <<stats, watcher>>
  /\ UNCHANGED <<mainVars, sigterm, written, samples>>

\* docker stats writes a line.
StatsWrites ==
  /\ stats = "alive"
  /\ written < MaxSamples
  /\ written' = written + 1
  /\ UNCHANGED <<mainVars, poller, watcher, stats, sigterm, samples>>

\* One line of the pipe; lines written before the process died can still be read.
PollerReads ==
  /\ poller = "reading"
  /\ samples < written
  /\ samples' = samples + 1
  /\ UNCHANGED <<mainVars, poller, watcher, stats, sigterm, written>>

\* Mutant: the loop ends once stop is set, with lines left in the pipe.
MutPollerAtEof ==
  /\ poller = "reading"
  /\ stats \in {"closed", "dead"}
  /\ stop \/ samples = written
  /\ poller' = "reaping"
  /\ sigterm' = TRUE
  /\ UNCHANGED <<mainVars, watcher, stats, written, samples>>

\* EOF, behind the last line, ends the loop; the finally block terminates and waits.
PollerAtEof ==
  /\ poller = "reading"
  /\ stats \in {"closed", "dead"}
  /\ samples = written
  /\ poller' = "reaping"
  /\ sigterm' = TRUE
  /\ UNCHANGED <<mainVars, watcher, stats, written, samples>>

\* proc.wait, escalating to proc.kill after _STATS_TERMINATE_GRACE_S.
PollerReaps ==
  /\ poller = "reaping"
  /\ poller' = "done"
  /\ stats' = "dead"
  /\ UNCHANGED <<mainVars, watcher, sigterm, written, samples>>

\* Mutant: the watcher does not terminate docker stats.
MutWatcherFires ==
  /\ watcher = "waiting"
  /\ stop
  /\ watcher' = "done"
  /\ UNCHANGED <<mainVars, poller, stats, sigterm, written, samples>>

WatcherFires ==
  /\ watcher = "waiting"
  /\ stop
  /\ watcher' = "done"
  /\ sigterm' = TRUE
  /\ UNCHANGED <<mainVars, poller, stats, written, samples>>

\* docker stats ends on SIGTERM.
StatsTerminates ==
  /\ sigterm
  /\ stats \in {"alive", "closed"}
  /\ stats' = "dead"
  /\ UNCHANGED <<mainVars, poller, watcher, sigterm, written, samples>>

\* It may also end, or close its output, at any time of its own accord.
StatsFails ==
  /\ stats = "alive"
  /\ stats' \in {"closed", "dead"}
  /\ UNCHANGED <<mainVars, poller, watcher, sigterm, written, samples>>

Poller == PollerOpens \/ PollerReads \/ PollerAtEof \/ PollerReaps

------------------------------------------------------------------------------

Next ==
  \/ Client \/ Interrupt
  \/ Daemon \/ ProcessExits
  \/ Poller \/ WatcherFires \/ StatsWrites \/ StatsTerminates \/ StatsFails

SafetySpec == Init /\ [][Next]_vars

\* Threads run, timeouts expire and docker stats obeys SIGTERM.  The daemon and
\* the contained process owe nothing.
Spec ==
  /\ SafetySpec
  /\ WF_vars(Client)
  /\ WF_vars(Poller)
  /\ WF_vars(WatcherFires)
  /\ WF_vars(StatsTerminates)

\* A daemon that also serves every request, and a process that ends when it can.
ServingSpec == Spec /\ WF_vars(Daemon) /\ WF_vars(ProcessExits)

------------------------------------------------------------------------------
(* Properties                                                              *)

Unprotected == {"check", "launch", "started", "finally", "join", "summarise"}

ClientTypes ==
  /\ pc \in Commands \cup Ended \cup Unprotected
  /\ reply \in {"none", "sent", "ok", "no id", "err"}
  /\ interruptedAt \in Commands \cup Unprotected \cup {"none"}

RequestTypes == gaveUp \subseteq Commands /\ inflight \subseteq Commands

ResultTypes ==
  /\ timedOut \in BOOLEAN
  /\ exitCode \in {"none", "zero", "nonzero", "124"}

DaemonTypes ==
  /\ container \in Present \cup {"none", "removed"}
  /\ procExit \in {"none", "zero", "nonzero", "killed"}

ThreadTypes ==
  /\ poller \in {"off", "spawned", "reading", "reaping", "done"}
  /\ watcher \in {"off", "waiting", "done"}
  /\ stats \in {"off", "alive", "closed", "dead"}
  /\ sigterm \in BOOLEAN
  /\ stop \in BOOLEAN

SampleTypes ==
  /\ written \in 0 .. MaxSamples
  /\ samples \in 0 .. written
  /\ counted \in 0 .. samples

\* The variables of the call keep their types; no more samples are counted than were
\* appended, and no more appended than docker stats wrote.
TypeOK ==
  ClientTypes /\ RequestTypes /\ ResultTypes /\ DaemonTypes /\ ThreadTypes /\ SampleTypes

\* ExecResult.success, set when the call returns.
Success == exitCode = "zero" /\ ~timedOut

\* A run is reported successful only if its process ended by itself with code zero
\* while the caller was still waiting, whatever the kill, the cleanup and late
\* answers of the daemon do in between (exec.py: success=...).
SuccessIsEarned ==
  pc = "returned" /\ Success => procExit = "zero" /\ "attach" \notin gaveUp

\* A container is left behind only for one of the reasons the code cannot help: the create
\* or the rm was given up on, the rm was answered with an error, create printed no id, or an
\* exception hit between the create and the try block or in the finally block before the rm.
LeakIsExplained ==
  pc \in Ended /\ container \in Present =>
    \/ "create" \in gaveUp
    \/ "rm" \in gaveUp
    \/ reply \in {"err", "no id"}
    \/ interruptedAt \in {"launch", "started", "finally", "join"}

\* Once the poller has ended, no line that docker stats wrote is lost: a call that returns
\* then has summed up every one of them, be it that the join gave up before and the poller
\* drained the pipe while the container was removed or while the list was read (exec.py: the
\* watcher ends docker stats, "so the main reader exits naturally on EOF").
NoLineIsLost ==
  [][pc # "returned" /\ pc' = "returned" /\ poller = "done" => counted' = written']_vars

\* Whatever the daemon does, the call returns or raises: every wait has a timeout.
CallEnds == <>(pc \in Ended)

\* A started poller thread ends, though docker stats never closes its output by itself: the
\* watcher unblocks its read (exec.py: _poll_stats).  The exceptions are an exception between
\* poller.start() and the try block and one in the finally block before stop.set(): then
\* nobody tells the poller to stop.
PollerEnds ==
  (poller = "spawned") ~> (poller = "done" \/ interruptedAt \in {"started", "finally"})

\* exec.py's comments: a container left by a failed kill or rm is one "the daemon
\* will reap shortly (every container we create uses --rm)".
StrayIsReaped == (pc \in Ended /\ container = "exited") ~> (container = "removed")

------------------------------------------------------------------------------
(* Refinement of SandboxContract                                           *)

ContractPhase == IF pc \in Ended THEN "over" ELSE "open"

ContractOutcome ==
  CASE pc = "raised" -> "raised"
    [] pc = "returned" /\ timedOut -> "timeout"
    [] pc = "returned" /\ ~timedOut -> IF Success THEN "pass" ELSE "fail"
    [] OTHER -> "none"

ContractProc ==
  IF procExit # "none" THEN IF procExit = "zero" THEN "zero" ELSE "other"
  ELSE IF container = "running" THEN "live" ELSE "absent"

Contract == INSTANCE SandboxContract
  WITH phase <- ContractPhase, outcome <- ContractOutcome, proc <- ContractProc

\* The call with its daemon and threads implements the contract the runners rely on.
ImplementsContract == Contract!Spec

==============================================================================
