---------------------------- MODULE SandboxProofs ----------------------------
(***************************************************************************)
(* Proofs about Sandbox for every MaxSamples: type correctness, the two    *)
(* safety invariants about success and leaks, the samples read up to the   *)
(* last line once the poller has ended, and the safety part of the         *)
(* refinement of SandboxContract.                                                        *)
(***************************************************************************)
EXTENDS Sandbox, TLAPS

AllVars == <<pc, reply, gaveUp, inflight, interruptedAt, timedOut, exitCode, container,
             procExit, stop, poller, watcher, stats, sigterm, written, samples,
             counted>>

\* What Sandbox's step is made of, in one place for the case splits below.
LEMMA NextCases ==
  ASSUME [Next]_vars
  PROVE  \/ CheckImage \/ Inspected \/ Pulled \/ Created \/ SetupTimeout \/ Launch
         \/ Attach \/ Attached \/ AttachTimeout \/ Killed \/ StopPoller \/ Join \/ Removed
         \/ Summarise \/ Interrupt
         \/ ServeOk \/ ServeQuery \/ ServeErr \/ StartContainer \/ AttachEnds \/ ServeLate
         \/ ProcessExits
         \/ PollerOpens \/ PollerReads \/ PollerAtEof \/ PollerReaps
         \/ WatcherFires \/ StatsWrites \/ StatsTerminates \/ StatsFails
         \/ UNCHANGED AllVars
  BY DEF Next, Client, Daemon, Poller, vars, AllVars, callVars, resultVars, daemonVars,
         threadVars

------------------------------------------------------------------------------
(* Type correctness                                                        *)

\* Giving up moves a command from the caller to the daemon and invents none.
LEMMA GiveUpType ==
  ASSUME RequestTypes, pc \in Commands, GiveUp
  PROVE  RequestTypes'
  BY DEF RequestTypes, GiveUp

\* The client's position, the last answer and the interruption.
LEMMA ClientTypesStep == TypeOK /\ [Next]_vars => ClientTypes'
<1> SUFFICES ASSUME ClientTypes, [Next]_vars PROVE ClientTypes'
  BY DEF TypeOK
<1> USE DEF ClientTypes, Commands, Ended, Unprotected
<1>1. CASE CheckImage \/ Inspected \/ Pulled \/ Created \/ SetupTimeout \/ Launch
  BY <1>1 DEF CheckImage, Inspected, Pulled, Created, SetupTimeout, Launch, callVars,
              Send, Goto
<1>2. CASE Attach \/ Attached \/ AttachTimeout \/ Killed \/ StopPoller \/ Join \/ Summarise
  BY <1>2 DEF Attach, Attached, AttachTimeout, Killed, StopPoller, Join, Summarise,
              callVars, Finally, Send, Goto
<1>3. CASE Removed
  BY <1>3 DEF Removed
<1>4. CASE Interrupt
  BY <1>4 DEF Interrupt, Finally, Goto
<1>5. CASE ServeOk \/ ServeQuery \/ ServeErr \/ StartContainer \/ AttachEnds \/ ServeLate
           \/ ProcessExits
  BY <1>5 DEF ServeOk, ServeQuery, ServeErr, StartContainer, AttachEnds, ServeLate,
              ProcessExits, callVars
<1>6. CASE \/ PollerOpens \/ PollerReads \/ PollerAtEof \/ PollerReaps
           \/ WatcherFires \/ StatsWrites \/ StatsTerminates \/ StatsFails \/ UNCHANGED AllVars
  BY <1>6 DEF PollerOpens, PollerReads, PollerAtEof, PollerReaps, WatcherFires,
              StatsWrites, StatsTerminates, StatsFails, AllVars, mainVars, callVars
<1> HIDE DEF ClientTypes, Commands, Ended, Unprotected
<1>7. QED
  BY <1>1, <1>2, <1>3, <1>4, <1>5, <1>6, NextCases

\* The requests: only a step that gives up adds one.
LEMMA RequestTypesStep == TypeOK /\ [Next]_vars => RequestTypes'
<1> SUFFICES ASSUME RequestTypes, [Next]_vars PROVE RequestTypes'
  BY DEF TypeOK
<1>1. CASE SetupTimeout
  BY <1>1, GiveUpType DEF SetupTimeout, Commands
<1>2. CASE AttachTimeout
  BY <1>2, GiveUpType DEF AttachTimeout, Commands
<1>3. CASE Killed
  BY <1>3, GiveUpType DEF Killed, Commands, RequestTypes
<1>4. CASE Removed
  BY <1>4, GiveUpType DEF Removed, Commands, RequestTypes
<1>5. CASE Interrupt
  BY <1>5, GiveUpType DEF Interrupt, RequestTypes
<1>6. CASE ServeLate
  BY <1>6 DEF ServeLate, RequestTypes
<1>7. CASE \/ CheckImage \/ Inspected \/ Pulled \/ Created \/ Launch \/ Attach
           \/ Attached \/ StopPoller \/ Join \/ Summarise
  BY <1>7 DEF CheckImage, Inspected, Pulled, Created, Launch, Attach, Attached, StopPoller,
              Join, Summarise, callVars, RequestTypes
<1>8. CASE \/ ServeOk \/ ServeQuery \/ ServeErr \/ StartContainer \/ AttachEnds
           \/ ProcessExits \/ PollerOpens \/ PollerReads \/ PollerAtEof \/ PollerReaps
           \/ WatcherFires \/ StatsWrites \/ StatsTerminates \/ StatsFails \/ UNCHANGED AllVars
  BY <1>8 DEF ServeOk, ServeQuery, ServeErr, StartContainer, AttachEnds, ProcessExits,
              PollerOpens, PollerReads, PollerAtEof, PollerReaps, WatcherFires,
              StatsWrites, StatsTerminates, StatsFails, AllVars, mainVars, callVars, RequestTypes
<1>9. QED
  BY <1>1, <1>2, <1>3, <1>4, <1>5, <1>6, <1>7, <1>8, NextCases

\* The result, the daemon's state and the threads' states.
LEMMA StateTypesStep ==
  TypeOK /\ [Next]_vars => ResultTypes' /\ DaemonTypes' /\ ThreadTypes'
<1> SUFFICES ASSUME ResultTypes, DaemonTypes, ThreadTypes, [Next]_vars
             PROVE  ResultTypes' /\ DaemonTypes' /\ ThreadTypes'
  BY DEF TypeOK
<1> USE NextCases DEF
     CheckImage, Inspected, Pulled, Created, SetupTimeout, Launch,
     Attach, Attached, AttachTimeout, Killed, StopPoller, Join, Removed, Summarise, Interrupt,
     ServeOk, ServeQuery, ServeErr, StartContainer, AttachEnds, ServeLate, ProcessExits,
     PollerOpens, PollerReads, PollerAtEof, PollerReaps,
     WatcherFires, StatsWrites, StatsTerminates, StatsFails, AllVars
<1>1. ResultTypes'
  BY DEF ResultTypes, resultVars, mainVars
<1>2. DaemonTypes'
  BY DEF DaemonTypes, daemonVars, mainVars, Effect, AfterExit, CreateFlags, Present
<1>3. ThreadTypes'
  BY DEF ThreadTypes, threadVars, mainVars, Finally
<1>4. QED
  BY <1>1, <1>2, <1>3

\* The samples: docker stats writes a line within the bound, the poller reads one that was
\* written, the summary one that was read.
LEMMA SampleTypesStep == TypeOK /\ [Next]_vars => SampleTypes'
<1> SUFFICES ASSUME SampleTypes, [Next]_vars PROVE SampleTypes'
  BY DEF TypeOK
<1>1. CASE StatsWrites
  BY <1>1, SamplesAssumption DEF StatsWrites, SampleTypes, mainVars
<1>2. CASE PollerReads
  BY <1>2, SamplesAssumption DEF PollerReads, SampleTypes, mainVars
<1>3. CASE Summarise
  BY <1>3, SamplesAssumption DEF Summarise, SampleTypes, threadVars
<1>4. CASE UNCHANGED <<written, samples, counted>>
  BY <1>4 DEF SampleTypes
<1>5. UNCHANGED <<written, samples, counted>> \/ StatsWrites \/ PollerReads \/ Summarise
  BY NextCases DEF CheckImage, Inspected, Pulled, Created, SetupTimeout,
     Launch, Attach, Attached, AttachTimeout, Killed, StopPoller, Join, Removed, Interrupt,
     ServeOk, ServeQuery, ServeErr, StartContainer, AttachEnds, ServeLate, ProcessExits,
     PollerOpens, PollerAtEof, PollerReaps, WatcherFires, StatsTerminates, StatsFails,
     AllVars, threadVars, mainVars
<1>6. QED
  BY <1>1, <1>2, <1>3, <1>4, <1>5

\* The types hold initially.
LEMMA InitTypes == Init => TypeOK
<1> SUFFICES ASSUME Init PROVE TypeOK
  OBVIOUS
<1>1. ClientTypes
  BY DEF Init, ClientTypes, Commands, Ended, Unprotected
<1>2. RequestTypes /\ ResultTypes
  BY DEF Init, RequestTypes, ResultTypes
<1>3. DaemonTypes
  BY DEF Init, DaemonTypes, Present
<1>4. ThreadTypes
  BY DEF Init, ThreadTypes
<1>5. SampleTypes
  <2>1. written \in 0 .. MaxSamples
    BY SamplesAssumption DEF Init
  <2>2. samples \in 0 .. written /\ counted \in 0 .. samples
    BY DEF Init
  <2>3. QED
    BY <2>1, <2>2 DEF SampleTypes
<1>6. QED
  BY <1>1, <1>2, <1>3, <1>4, <1>5 DEF TypeOK

\* Every step keeps the types.
LEMMA TypeStep == TypeOK /\ [Next]_vars => TypeOK'
  BY ClientTypesStep, RequestTypesStep, StateTypesStep, SampleTypesStep DEF TypeOK

\* The variables of one call of run_constrained keep their types.
THEOREM TypeCorrect == SafetySpec => []TypeOK
  BY InitTypes, TypeStep, PTL DEF SafetySpec

------------------------------------------------------------------------------
(* Success and leaks                                                       *)

\* Before the container exists nothing has been given up and nobody has interrupted.
SetupPart ==
  /\ pc \in {"check", "inspect", "pull", "create"} => gaveUp = {}
  /\ pc \in {"check", "inspect", "pull"} => container = "none"
  /\ pc = "create" /\ reply \in {"sent", "err"} => container = "none"

\* A container whose process has ended is stopped or gone, and only such a one.
ProcessPart == container \in {"none", "created", "running"} => procExit = "none"

\* The daemon can only serve late what the client has given up on.
InflightPart == inflight \subseteq gaveUp

\* The answer of docker rm is what tells a released container from a leaked one.
ReleasePart ==
  /\ pc = "rm" /\ reply = "ok" => container = "removed"
  /\ pc = "summarise" => container = "removed" \/ "rm" \in gaveUp \/ reply = "err"

\* How the exit code of the CLI relates to the process before and after it is read.
ExitPart ==
  /\ pc \in {"check", "inspect", "pull", "create", "launch", "started", "attach"} =>
       exitCode = "none" /\ "attach" \notin gaveUp
  /\ pc = "attach" /\ reply = "ok" => procExit = "zero"
  /\ exitCode = "zero" => procExit = "zero" /\ "attach" \notin gaveUp

\* The inductive invariant.
IInv ==
  /\ TypeOK
  /\ SetupPart
  /\ ProcessPart
  /\ InflightPart
  /\ ReleasePart
  /\ ExitPart
  /\ LeakIsExplained

\* The steps of the threads leave the call and the container alone.
LEMMA ThreadsApart ==
  ASSUME \/ PollerOpens \/ PollerReads \/ PollerAtEof \/ PollerReaps
         \/ WatcherFires \/ StatsWrites \/ StatsTerminates \/ StatsFails \/ UNCHANGED AllVars
  PROVE  UNCHANGED <<pc, reply, gaveUp, inflight, interruptedAt, timedOut, exitCode,
                     container, procExit>>
  BY DEF PollerOpens, PollerReads, PollerAtEof, PollerReaps, WatcherFires, StatsWrites,
         StatsTerminates, StatsFails, AllVars, mainVars, callVars, resultVars, daemonVars

\* The steps of the calling thread leave the container alone.
LEMMA ClientApart ==
  ASSUME \/ CheckImage \/ Inspected \/ Pulled \/ Created \/ SetupTimeout \/ Launch
         \/ Attach \/ Attached \/ AttachTimeout \/ Killed \/ StopPoller \/ Join \/ Removed
         \/ Summarise \/ Interrupt
  PROVE  UNCHANGED <<container, procExit>>
  BY DEF CheckImage, Inspected, Pulled, Created, SetupTimeout, Launch, Attach,
         Attached, AttachTimeout, Killed, StopPoller, Join, Removed, Summarise, Interrupt,
         daemonVars

\* A container whose process has ended never runs again.
LEMMA ProcessStep == IInv /\ [Next]_vars => ProcessPart'
<1> SUFFICES ASSUME ProcessPart, DaemonTypes, [Next]_vars PROVE ProcessPart'
  BY DEF IInv, TypeOK
<1>1. UNCHANGED <<container, procExit>> \/ Effect("create") \/ Effect("attach")
      \/ Effect("kill") \/ Effect("rm") \/ ProcessExits
  BY NextCases, ClientApart, ThreadsApart
     DEF ServeOk, ServeQuery, ServeErr, StartContainer, AttachEnds, ServeLate, Effect,
         daemonVars
<1>2. QED
  BY <1>1 DEF ProcessPart, DaemonTypes, Effect, ProcessExits, AfterExit, CreateFlags, Present

\* Requests in flight were given up on.
LEMMA InflightStep == IInv /\ [Next]_vars => InflightPart'
<1> SUFFICES ASSUME InflightPart, [Next]_vars PROVE InflightPart'
  BY DEF IInv
<1>1. UNCHANGED <<gaveUp, inflight>> \/ GiveUp \/ ServeLate
  BY NextCases, ThreadsApart DEF CheckImage, Inspected, Pulled, Created, SetupTimeout, Launch,
     Attach, Attached, AttachTimeout, Killed, StopPoller, Join, Removed, Summarise, Interrupt,
     ServeOk, ServeQuery, ServeErr, StartContainer, AttachEnds, ProcessExits, callVars
<1>2. QED
  BY <1>1 DEF InflightPart, GiveUp, ServeLate

\* Nothing is given up on, and nothing exists, before the create is answered.
LEMMA SetupStep == IInv /\ [Next]_vars => SetupPart'
<1> SUFFICES ASSUME SetupPart, InflightPart, ClientTypes, [Next]_vars PROVE SetupPart'
  BY DEF IInv, TypeOK
<1> USE DEF SetupPart, Send, Goto, callVars, daemonVars
<1>1. CASE CheckImage \/ Inspected \/ Pulled \/ Created
  BY <1>1 DEF CheckImage, Inspected, Pulled, Created, Answered
<1>2. CASE SetupTimeout \/ Launch \/ Attach \/ Attached \/ AttachTimeout \/ Killed
  BY <1>2 DEF SetupTimeout, Launch, Attach, Attached, AttachTimeout, Killed, Finally
<1>3. CASE StopPoller \/ Join \/ Removed \/ Summarise \/ Interrupt
  BY <1>3 DEF StopPoller, Join, Removed, Summarise, Interrupt, Finally
<1>4. CASE ServeOk \/ StartContainer \/ ServeLate \/ ProcessExits
  BY <1>4 DEF ServeOk, StartContainer, ServeLate, ProcessExits, Effect, InflightPart
<1>5. CASE ServeQuery \/ ServeErr \/ AttachEnds
  BY <1>5 DEF ServeQuery, ServeErr, AttachEnds
<1>6. QED
  BY <1>1, <1>2, <1>3, <1>4, <1>5, NextCases, ThreadsApart

\* An "ok" from docker rm means that the container is gone, and it stays gone.
LEMMA ReleaseStep == IInv /\ [Next]_vars => ReleasePart'
<1> SUFFICES ASSUME ReleasePart, ClientTypes, [Next]_vars PROVE ReleasePart'
  BY DEF IInv, TypeOK
<1> USE DEF ReleasePart, Send, Goto, callVars, daemonVars
<1>1. CASE \/ CheckImage \/ Inspected \/ Pulled \/ Created \/ SetupTimeout \/ Launch
           \/ Attach \/ Attached \/ AttachTimeout \/ Killed \/ StopPoller \/ Join
  BY <1>1 DEF CheckImage, Inspected, Pulled, Created, SetupTimeout, Launch, Attach,
              Attached, AttachTimeout, Killed, StopPoller, Join, Finally
<1>2. CASE Removed \/ Summarise \/ Interrupt
  BY <1>2 DEF Removed, Summarise, Interrupt, Answered, GiveUp, Finally
<1>3. CASE ServeOk \/ ServeQuery \/ ServeErr
  BY <1>3 DEF ServeOk, ServeQuery, ServeErr, Effect
<1>4. CASE StartContainer \/ AttachEnds \/ ServeLate \/ ProcessExits
  BY <1>4 DEF StartContainer, AttachEnds, ServeLate, ProcessExits, Effect
<1>5. QED
  BY <1>1, <1>2, <1>3, <1>4, NextCases, ThreadsApart

\* The exit code that is read is the exit code of the process.
LEMMA ExitStep == IInv /\ [Next]_vars => ExitPart'
<1> SUFFICES ASSUME ExitPart, ProcessPart, ClientTypes, [Next]_vars PROVE ExitPart'
  BY DEF IInv, TypeOK
<1> USE DEF ExitPart, Send, Goto, callVars, resultVars, daemonVars
<1>1. CASE \/ CheckImage \/ Inspected \/ Pulled \/ Created \/ SetupTimeout \/ Launch
  BY <1>1 DEF CheckImage, Inspected, Pulled, Created, SetupTimeout, Launch, GiveUp,
              Answered
<1>2. CASE Attach \/ Attached \/ AttachTimeout
  BY <1>2 DEF Attach, Attached, AttachTimeout, Answered, GiveUp, Finally
<1>3. CASE Killed \/ StopPoller \/ Join \/ Removed \/ Summarise
  BY <1>3 DEF Killed, StopPoller, Join, Removed, Summarise, GiveUp, Finally
<1>4. CASE Interrupt
  BY <1>4 DEF Interrupt, Finally, GiveUp, Ended, Commands
<1>5. CASE ServeOk \/ ServeQuery \/ ServeErr \/ AttachEnds
  BY <1>5 DEF ServeOk, ServeQuery, ServeErr, AttachEnds, Effect, ProcessPart, Present
<1>6. CASE StartContainer \/ ServeLate \/ ProcessExits
  BY <1>6 DEF StartContainer, ServeLate, ProcessExits, Effect, ProcessPart, Present
<1>7. QED
  BY <1>1, <1>2, <1>3, <1>4, <1>5, <1>6, NextCases, ThreadsApart

\* Each way for the call to end accounts for the container, and each late effect of the
\* daemon after the end goes back to a create that was given up on.
LEMMA LeakStep == IInv /\ [Next]_vars => LeakIsExplained'
<1> SUFFICES ASSUME LeakIsExplained, ReleasePart, SetupPart, InflightPart, ClientTypes,
                    [Next]_vars
             PROVE  LeakIsExplained'
  BY DEF IInv, TypeOK
<1> USE DEF LeakIsExplained, Send, Goto, callVars, daemonVars, Ended, Present
<1>1. CASE CheckImage \/ Inspected \/ Pulled \/ Created
  BY <1>1 DEF CheckImage, Inspected, Pulled, Created, Answered, SetupPart
<1>2. CASE SetupTimeout
  BY <1>2 DEF SetupTimeout, GiveUp, SetupPart
<1>3. CASE \/ Launch \/ Attach \/ Attached \/ AttachTimeout \/ Killed \/ StopPoller \/ Join
  BY <1>3 DEF Launch, Attach, Attached, AttachTimeout, Killed, StopPoller, Join, Finally
<1>4. CASE Removed \/ Summarise
  BY <1>4 DEF Removed, Summarise, Answered, GiveUp, ReleasePart
<1>5. CASE Interrupt
  BY <1>5 DEF Interrupt, Finally, GiveUp, Commands, Unprotected, ClientTypes, SetupPart,
              ReleasePart
<1>6. CASE ServeOk \/ ServeQuery \/ ServeErr \/ StartContainer \/ AttachEnds
  BY <1>6 DEF ServeOk, ServeQuery, ServeErr, StartContainer, AttachEnds, Effect, Commands
<1>7. CASE ServeLate \/ ProcessExits
  BY <1>7 DEF ServeLate, ProcessExits, Effect, AfterExit, CreateFlags, InflightPart
<1>8. QED
  BY <1>1, <1>2, <1>3, <1>4, <1>5, <1>6, <1>7, NextCases, ThreadsApart

\* The inductive invariant holds.
THEOREM Invariance == SafetySpec => []IInv
<1>1. Init => IInv
  <2> SUFFICES ASSUME Init PROVE IInv
    OBVIOUS
  <2>1. TypeOK
    BY InitTypes
  <2>2. SetupPart /\ ProcessPart /\ InflightPart /\ ReleasePart /\ ExitPart
    BY DEF Init, SetupPart, ProcessPart, InflightPart, ReleasePart, ExitPart
  <2>3. LeakIsExplained
    BY DEF Init, LeakIsExplained, Ended
  <2>4. QED
    BY <2>1, <2>2, <2>3 DEF IInv
<1>2. IInv /\ [Next]_vars => IInv'
  <2>1. IInv /\ [Next]_vars => TypeOK'
    BY TypeStep DEF IInv
  <2>2. QED
    BY <2>1, SetupStep, ProcessStep, InflightStep, ReleaseStep, ExitStep, LeakStep DEF IInv
<1>3. QED
  BY <1>1, <1>2, PTL DEF SafetySpec

\* A run reported successful is one whose process ended with code zero in time.
THEOREM SuccessEarned == SafetySpec => []SuccessIsEarned
<1>1. IInv => SuccessIsEarned
  BY DEF IInv, ExitPart, SuccessIsEarned, Success
<1>2. QED
  BY <1>1, Invariance, PTL

\* Every leaked container has one of the explanations that the code cannot help.
THEOREM LeaksExplained == SafetySpec => []LeakIsExplained
<1>1. IInv => LeakIsExplained
  BY DEF IInv
<1>2. QED
  BY <1>1, Invariance, PTL

------------------------------------------------------------------------------
(* The lines of docker stats                                               *)

\* Nothing is written before docker stats was started, and the poller leaves its loop only
\* with the last line read and docker stats writing no more.
PipePart ==
  /\ pc \in {"check", "inspect", "pull", "create", "launch"} => poller = "off"
  /\ poller \in {"off", "spawned"} => stats = "off" /\ written = 0 /\ samples = 0
  /\ poller \in {"reaping", "done"} => stats # "alive" /\ samples = written

LEMMA PipeInit == Init => PipePart
  BY DEF Init, PipePart

\* The calling thread starts the poller once and writes and reads no line.
LEMMA PipeClient ==
  ASSUME PipePart,
         \/ CheckImage \/ Inspected \/ Pulled \/ Created \/ SetupTimeout \/ Launch
         \/ Attach \/ Attached \/ AttachTimeout \/ Killed \/ StopPoller \/ Join \/ Removed
         \/ Summarise \/ Interrupt
  PROVE  PipePart'
<1> USE DEF PipePart, threadVars
<1>1. CASE Launch
  BY <1>1 DEF Launch, Goto
<1>2. CASE CheckImage \/ Inspected \/ Pulled \/ Created \/ SetupTimeout
  BY <1>2 DEF CheckImage, Inspected, Pulled, Created, SetupTimeout, Answered, Send, Goto
<1>3. CASE Attach \/ Attached \/ AttachTimeout \/ Killed \/ StopPoller \/ Join
  BY <1>3 DEF Attach, Attached, AttachTimeout, Killed, StopPoller, Join, Finally, Send, Goto
<1>4. CASE Removed \/ Summarise
  BY <1>4 DEF Removed, Summarise
<1>5. CASE Interrupt
  BY <1>5 DEF Interrupt, Finally, Goto
<1>6. QED
  BY <1>1, <1>2, <1>3, <1>4, <1>5

\* The threads and docker stats keep the books of the pipe.
LEMMA PipeThreads ==
  ASSUME PipePart,
         \/ PollerOpens \/ PollerReads \/ PollerAtEof \/ PollerReaps
         \/ WatcherFires \/ StatsWrites \/ StatsTerminates \/ StatsFails
  PROVE  PipePart'
<1> USE DEF PipePart, mainVars
<1>1. CASE PollerOpens
  BY <1>1 DEF PollerOpens
<1>2. CASE PollerReads \/ PollerAtEof \/ PollerReaps
  BY <1>2 DEF PollerReads, PollerAtEof, PollerReaps
<1>3. CASE WatcherFires \/ StatsWrites \/ StatsTerminates \/ StatsFails
  BY <1>3 DEF WatcherFires, StatsWrites, StatsTerminates, StatsFails
<1>4. QED
  BY <1>1, <1>2, <1>3

\* Every step keeps them.
LEMMA PipeStep == PipePart /\ [Next]_vars => PipePart'
<1> SUFFICES ASSUME PipePart, [Next]_vars PROVE PipePart'
  OBVIOUS
<1>1. CASE \/ ServeOk \/ ServeQuery \/ ServeErr \/ StartContainer \/ AttachEnds
           \/ ServeLate \/ ProcessExits \/ UNCHANGED AllVars
  BY <1>1 DEF ServeOk, ServeQuery, ServeErr, StartContainer, AttachEnds, ServeLate,
              ProcessExits, AllVars, threadVars, PipePart
<1>2. QED
  BY <1>1, NextCases, PipeClient, PipeThreads

\* A call that returns when the poller has ended has summed up every line that docker stats
\* wrote, whether or not the join saw the poller end (_poll_stats, _summarise_samples).
THEOREM LinesKept == SafetySpec => NoLineIsLost
<1>1. ASSUME PipePart, [Next]_vars, pc # "returned", pc' = "returned", poller = "done"
      PROVE  counted' = written'
  <2>1. Summarise
    BY <1>1, NextCases DEF CheckImage, Inspected, Pulled, Created, SetupTimeout, Launch,
       Attach, Attached, AttachTimeout, Killed, StopPoller, Join, Removed, Interrupt, ServeOk,
       ServeQuery, ServeErr, StartContainer, AttachEnds, ServeLate, ProcessExits,
       PollerOpens, PollerReads, PollerAtEof, PollerReaps, WatcherFires, StatsWrites,
       StatsTerminates, StatsFails, AllVars, mainVars, Send, Goto, Finally
  <2>2. QED
    BY <1>1, <2>1 DEF Summarise, PipePart, threadVars
<1>2. PipePart /\ [Next]_vars =>
        (pc # "returned" /\ pc' = "returned" /\ poller = "done" => counted' = written')
  BY <1>1
<1>3. QED
  BY <1>2, PipeInit, PipeStep, PTL DEF SafetySpec, NoLineIsLost

------------------------------------------------------------------------------
(* Refinement                                                              *)

\* Steps of the daemon and the process move the contained process as the contract says.
LEMMA DaemonRefines ==
  ASSUME IInv, IInv', UNCHANGED <<pc, timedOut, exitCode>>,
         \/ UNCHANGED <<container, procExit>> \/ Effect("create") \/ Effect("attach")
         \/ Effect("kill") \/ Effect("rm") \/ ProcessExits
  PROVE  [Contract!Next]_(Contract!contractVars)
<1>1. UNCHANGED <<ContractPhase, ContractOutcome>>
  BY DEF ContractPhase, ContractOutcome, Success
<1>2. DaemonTypes /\ ProcessPart
  BY DEF IInv, TypeOK
<1>3. \/ UNCHANGED ContractProc
      \/ ContractProc = "absent" /\ ContractProc' = "live"
      \/ ContractProc = "live" /\ ContractProc' \in {"zero", "other"}
  BY <1>2 DEF ContractProc, DaemonTypes, ProcessPart, Effect, ProcessExits, AfterExit,
              CreateFlags, Present
<1>4. QED
  BY <1>1, <1>3 DEF Contract!Next, Contract!Starts, Contract!Ends, Contract!contractVars

\* Steps of the calling thread are invisible, except the last one, which returns.
LEMMA ClientRefines ==
  ASSUME IInv, UNCHANGED <<container, procExit>>,
         \/ pc \notin Ended
         \/ UNCHANGED <<pc, timedOut, exitCode>>,
         pc' = "returned" => UNCHANGED exitCode
  PROVE  [Contract!Next]_(Contract!contractVars)
<1>1. UNCHANGED ContractProc
  BY DEF ContractProc
<1>2. CASE UNCHANGED <<pc, timedOut, exitCode>>
  BY <1>1, <1>2 DEF ContractPhase, ContractOutcome, Success, Contract!contractVars
<1>3. CASE pc \notin Ended /\ pc' \notin Ended
  BY <1>1, <1>3 DEF ContractPhase, ContractOutcome, Ended, Contract!contractVars
<1>4. CASE pc \notin Ended /\ pc' \in Ended
  <2>1. ContractPhase = "open" /\ ContractPhase' = "over"
    BY <1>4 DEF ContractPhase
  <2>2. ContractOutcome' \in Contract!Outcomes
    BY <1>4 DEF ContractOutcome, Ended, Contract!Outcomes
  <2>3. ContractOutcome' = "pass" => ContractProc = "zero"
    BY <1>4 DEF ContractOutcome, ContractProc, Success, Ended, IInv, ExitPart
  <2>4. QED
    BY <1>1, <2>1, <2>2, <2>3 DEF Contract!Next, Contract!Return
<1>5. QED
  BY <1>2, <1>3, <1>4

\* Every step of the sandbox is a step of the contract or leaves it unchanged.
LEMMA StepRefines == IInv /\ IInv' /\ [Next]_vars => [Contract!Next]_(Contract!contractVars)
<1> SUFFICES ASSUME IInv, IInv', [Next]_vars
             PROVE  [Contract!Next]_(Contract!contractVars)
  OBVIOUS
<1>1. CASE \/ ServeOk \/ ServeQuery \/ ServeErr \/ StartContainer \/ AttachEnds
           \/ ServeLate \/ ProcessExits
  <2>1. UNCHANGED <<pc, timedOut, exitCode>>
    BY <1>1 DEF ServeOk, ServeQuery, ServeErr, StartContainer, AttachEnds, ServeLate,
                ProcessExits, resultVars
  <2>2. \/ UNCHANGED <<container, procExit>> \/ Effect("create") \/ Effect("attach")
        \/ Effect("kill") \/ Effect("rm") \/ ProcessExits
    BY <1>1 DEF ServeOk, ServeQuery, ServeErr, StartContainer, AttachEnds, ServeLate, Effect,
                daemonVars
  <2>3. QED
    BY <2>1, <2>2, DaemonRefines
<1>2. CASE \/ PollerOpens \/ PollerReads \/ PollerAtEof \/ PollerReaps
           \/ WatcherFires \/ StatsWrites \/ StatsTerminates \/ StatsFails \/ UNCHANGED AllVars
  <2>1. UNCHANGED <<pc, timedOut, exitCode, container, procExit>>
    BY <1>2, ThreadsApart
  <2>2. QED
    BY <2>1, DaemonRefines
<1>3. CASE \/ CheckImage \/ Inspected \/ Pulled \/ Created \/ SetupTimeout \/ Launch
           \/ Attach \/ Attached \/ AttachTimeout \/ Killed \/ StopPoller \/ Join \/ Removed
           \/ Summarise \/ Interrupt
  <2>1. UNCHANGED <<container, procExit>>
    BY <1>3, ClientApart
  <2>2. pc \notin Ended /\ (pc' = "returned" => UNCHANGED exitCode)
    BY <1>3 DEF CheckImage, Inspected, Pulled, Created, SetupTimeout, Launch, Attach, Attached,
                AttachTimeout, Killed, StopPoller, Join, Removed, Summarise, Interrupt,
                Answered, Finally, Send, Goto, Ended, resultVars
  <2>3. QED
    BY <2>1, <2>2, ClientRefines
<1>4. QED
  BY <1>1, <1>2, <1>3, NextCases

\* The call implements the safety part of its contract, whatever the daemon does.
THEOREM Refinement == SafetySpec => Contract!SafetySpec
<1>1. Init => Contract!Init
  BY DEF Init, Contract!Init, ContractPhase, ContractOutcome, ContractProc, Ended
<1>2. QED
  BY <1>1, StepRefines, Invariance, PTL DEF SafetySpec, Contract!SafetySpec

==============================================================================
