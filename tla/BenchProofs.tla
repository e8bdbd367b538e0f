----------------------------- MODULE BenchProofs -------------------------------
(***************************************************************************)
(* The orchestrator over any number of cells, rounds and commits: what its *)
(* results directory holds, what becomes of its fixtures, and that it      *)
(* keeps the promise of Results.                                           *)
(***************************************************************************)
EXTENDS Bench, TLAPS

Early == {"validate", "load", "wipe"}
Late == {"head", "open", "write"}

\* How far the round is, and that an exception sends it to `finally` or to its end.
Control ==
  /\ pc \in Active \cup {"done", "failed"} => round # 0
  /\ pc \in Active \ {"down"} => how = "none"
  /\ pc \in Protected => cell <= Cells
  /\ pc \in Early \cup {"up", "network"} => cell = 1
  /\ pc = "down" /\ how = "none" => cell = Cells + 1
  /\ pc \in Late => cell = Cells + 1 /\ teardown # "none"

\* What result.json can be: a whole one is some earlier round's or this one's.
ResultTyped ==
  \/ result \in {NoResult, TornResult}
  \/ /\ result \in [kind : {"whole"}, round : Nat, commit : Commits \cup {Nil}, runs : Seq(BOOLEAN)]
     /\ result.round # 0

\* The logs of the cells before c are this round's; the others are not there.
LogsUpTo(c) == \A d \in 1 .. Cells : logs[d] = IF d < c THEN round ELSE 0

\* From the end of the wipe until the end of the round the directory holds this round only.
Directories ==
  /\ pc \in Active \ (Early \cup {"write"}) => result = NoResult
  /\ pc = "write" => result = TornResult
  /\ pc \in {"up", "network", "run"} \cup Late => LogsUpTo(cell)
  /\ pc = "down" /\ how = "none" => LogsUpTo(cell)
  /\ pc = "gate" => LogsUpTo(cell + 1)

\* The fixtures of a round come with `up` and go with `down`.
Fixtures ==
  /\ \A r \in 1 .. MaxRounds : r > round => fixtures[r] = "down"
  /\ pc \in Early \cup {"up"} => fixtures[round] = "down"
  /\ pc \in Late => fixtures[round] = "down" \/ teardown = "err"
  /\ FixturesAccounted

Inv ==
  TypeOK /\ Control /\ ResultTyped /\ Directories /\ ResultMatchesLogs /\ NoStaleResult /\ Fixtures

------------------------------------------------------------------------------
(* Types and control                                                       *)

ControlTyped ==
  /\ pc \in Idle \cup Active
  /\ round \in 0 .. MaxRounds
  /\ failedAt \in Active \cup {"none"}
  /\ how \in {"none", "error", "interrupt", "crash"}

IterTyped ==
  /\ cell \in 1 .. Cells + 1
  /\ runs \in Seq(BOOLEAN) /\ Len(runs) = cell - 1
  /\ outcome \in {"none", "pass", "fail", "timeout", "raised"}
  /\ output \in Outputs

DockerTyped ==
  /\ fixtures \in [1 .. MaxRounds -> {"down", "partial", "up", "network"}]
  /\ teardown \in {"none", "ok", "err"}
  /\ stray \in BOOLEAN

RepoTyped ==
  /\ commit \in Commits \cup {Nil}
  /\ head \in Commits
  /\ tree \in Commits \cup {"dirty"}
  /\ seen \subseteq Commits \cup {"dirty"}

DiskTyped ==
  /\ logs \in [1 .. Cells -> 0 .. MaxRounds]
  /\ result.kind \in {"none", "torn", "whole"}
  /\ halfWiped \in BOOLEAN

LEMMA TypeParts ==
  TypeOK <=> ControlTyped /\ IterTyped /\ DockerTyped /\ RepoTyped /\ DiskTyped
PROOF
  BY DEF TypeOK, ControlTyped, IterTyped, DockerTyped, RepoTyped, DiskTyped

LEMMA Kinds == NoResult.kind = "none" /\ TornResult.kind = "torn"
PROOF
  BY DEF NoResult, TornResult

LEMMA TypeInit == Init => TypeOK
PROOF
  <1> SUFFICES ASSUME Init
               PROVE  TypeOK
    OBVIOUS
  <1>1. ControlTyped
    BY BenchAssumption DEF Init, ControlTyped, Idle
  <1>2. IterTyped
    BY BenchAssumption DEF Init, IterTyped, Outputs
  <1>3. DockerTyped
    BY DEF Init, DockerTyped
  <1>4. RepoTyped
    BY DEF Init, RepoTyped
  <1>5. DiskTyped
    <2>1. [c \in 1 .. Cells |-> 0] \in [1 .. Cells -> 0 .. MaxRounds]
      BY BenchAssumption
    <2> QED
      BY <2>1, Kinds DEF Init, DiskTyped
  <1> QED
    BY <1>1, <1>2, <1>3, <1>4, <1>5, TypeParts

LEMMA ControlInit == Init => Control
PROOF
  BY DEF Init, Control, Active, Protected, Early, Late

LEMMA ControlTypedStep == TypeOK /\ Control /\ [Next]_vars => ControlTyped'
PROOF
  <1> SUFFICES ASSUME TypeOK, Control, [Next]_vars
               PROVE  ControlTyped'
    OBVIOUS
  <1> USE BenchAssumption
      DEF TypeOK, ControlTyped, Control, Idle, Active, Protected, Early, Late, Goto, Raise, ReadTree,
          stateVars, control, iterVars, dockerVars, repoVars, diskVars, Outputs
  <1>1. CASE Start \/ Validate \/ Load
    <2>1. CASE Start
      BY <2>1 DEF Start
    <2>2. CASE Validate \/ Load
      BY <2>2 DEF Validate, Load
    <2> QED
      BY <1>1, <2>1, <2>2
  <1>2. CASE Wipe
    BY <1>2 DEF Wipe
  <1>3. CASE ComposeUp \/ DiscoverNetwork
    BY <1>3 DEF ComposeUp, DiscoverNetwork
  <1>4. CASE RunCell
    BY <1>4 DEF RunCell
  <1>5. CASE Gate
    BY <1>5 DEF Gate
  <1>6. CASE ComposeDown
    BY <1>6 DEF ComposeDown, AfterDown
  <1>7. CASE ReadHead \/ OpenResult \/ WriteResult
    BY <1>7 DEF ReadHead, OpenResult, WriteResult
  <1>8. CASE Interrupt
    BY <1>8 DEF Interrupt, CutShort
  <1>9. CASE Crash
    BY <1>9 DEF Crash, CutShort
  <1>10. CASE Checkout \/ Edit
    BY <1>10 DEF Checkout, Edit
  <1>11. CASE UNCHANGED vars
    BY <1>11 DEF vars
  <1> QED
    BY <1>1, <1>2, <1>3, <1>4, <1>5, <1>6, <1>7, <1>8, <1>9, <1>10, <1>11 DEF Next, Bench

LEMMA IterTypedStep == TypeOK /\ Control /\ [Next]_vars => IterTyped'
PROOF
  <1> SUFFICES ASSUME TypeOK, Control, [Next]_vars
               PROVE  IterTyped'
    OBVIOUS
  <1> USE BenchAssumption
      DEF TypeOK, IterTyped, Control, Idle, Active, Protected, Early, Late, Goto, Raise, ReadTree,
          stateVars, control, iterVars, dockerVars, repoVars, diskVars, Outputs
  <1>1. CASE Start
    BY <1>1 DEF Start
  <1>2. CASE RunCell
    BY <1>2 DEF RunCell
  <1>3. CASE Gate
    <2>1. FinalSuccess \in BOOLEAN
      BY DEF FinalSuccess
    <2>2. Append(runs, FinalSuccess) \in Seq(BOOLEAN) /\ Len(Append(runs, FinalSuccess)) = cell
      BY <2>1
    <2>3. UNCHANGED <<outcome, output>> /\ cell <= Cells
      BY <1>3 DEF Gate
    <2>4. CASE runs' = Append(runs, FinalSuccess) /\ cell' = cell + 1
      BY <2>2, <2>3, <2>4
    <2>5. CASE UNCHANGED <<runs, cell>>
      BY <2>3, <2>5
    <2> QED
      BY <1>3, <2>4, <2>5 DEF Gate
  <1>4. CASE Interrupt \/ Crash
    BY <1>4 DEF Interrupt, CutShort, Crash
  <1>5. CASE \/ Validate \/ Load \/ Wipe \/ ComposeUp \/ DiscoverNetwork \/ ComposeDown
             \/ ReadHead \/ OpenResult \/ WriteResult \/ Checkout \/ Edit
    BY <1>5 DEF Validate, Load, Wipe, ComposeUp, DiscoverNetwork, ComposeDown, AfterDown,
       ReadHead, OpenResult, WriteResult, Checkout, Edit
  <1>6. CASE UNCHANGED vars
    BY <1>6 DEF vars
  <1> QED
    BY <1>1, <1>2, <1>3, <1>4, <1>5, <1>6 DEF Next, Bench

LEMMA DockerTypedStep == TypeOK /\ Control /\ [Next]_vars => DockerTyped'
PROOF
  <1> SUFFICES ASSUME TypeOK, Control, [Next]_vars
               PROVE  DockerTyped'
    OBVIOUS
  <1> USE BenchAssumption
      DEF TypeOK, DockerTyped, Control, Idle, Active, Protected, Early, Late, Goto, Raise, ReadTree,
          stateVars, control, iterVars, dockerVars, repoVars, diskVars, Outputs
  <1>1. CASE Start
    BY <1>1 DEF Start
  <1>2. CASE ComposeUp
    BY <1>2 DEF ComposeUp
  <1>3. CASE RunCell
    BY <1>3 DEF RunCell
  <1>4. CASE ComposeDown
    BY <1>4 DEF ComposeDown, AfterDown
  <1>5. CASE Interrupt \/ Crash
    BY <1>5 DEF Interrupt, CutShort, Crash
  <1>6. CASE \/ Validate \/ Load \/ Wipe \/ DiscoverNetwork \/ Gate \/ ReadHead \/ OpenResult
             \/ WriteResult \/ Checkout \/ Edit
    BY <1>6 DEF Validate, Load, Wipe, DiscoverNetwork, Gate, ReadHead, OpenResult, WriteResult,
       Checkout, Edit
  <1>7. CASE UNCHANGED vars
    BY <1>7 DEF vars
  <1> QED
    BY <1>1, <1>2, <1>3, <1>4, <1>5, <1>6, <1>7 DEF Next, Bench

LEMMA RepoTypedStep == TypeOK /\ Control /\ [Next]_vars => RepoTyped'
PROOF
  <1> SUFFICES ASSUME TypeOK, Control, [Next]_vars
               PROVE  RepoTyped'
    OBVIOUS
  <1> USE BenchAssumption
      DEF TypeOK, RepoTyped, Control, Idle, Active, Protected, Early, Late, Goto, Raise, ReadTree,
          stateVars, control, iterVars, dockerVars, repoVars, diskVars, Outputs
  <1>1. CASE Start
    BY <1>1 DEF Start
  <1>2. CASE Validate \/ Load \/ DiscoverNetwork \/ RunCell
    BY <1>2 DEF Validate, Load, DiscoverNetwork, RunCell
  <1>3. CASE ReadHead
    BY <1>3 DEF ReadHead
  <1>4. CASE Checkout \/ Edit
    BY <1>4 DEF Checkout, Edit
  <1>5. CASE Interrupt \/ Crash
    BY <1>5 DEF Interrupt, CutShort, Crash
  <1>6. CASE Wipe \/ ComposeUp \/ Gate \/ ComposeDown \/ OpenResult \/ WriteResult
    BY <1>6 DEF Wipe, ComposeUp, Gate, ComposeDown, AfterDown, OpenResult, WriteResult
  <1>7. CASE UNCHANGED vars
    BY <1>7 DEF vars
  <1> QED
    BY <1>1, <1>2, <1>3, <1>4, <1>5, <1>6, <1>7 DEF Next, Bench

LEMMA DiskTypedStep == TypeOK /\ Control /\ [Next]_vars => DiskTyped'
PROOF
  <1> SUFFICES ASSUME TypeOK, Control, [Next]_vars
               PROVE  DiskTyped'
    OBVIOUS
  <1> USE BenchAssumption
      DEF TypeOK, DiskTyped, Control, Idle, Active, Protected, Early, Late, Goto, Raise, ReadTree,
          stateVars, control, iterVars, dockerVars, repoVars, diskVars, Outputs
  <1>1. CASE Start
    BY <1>1 DEF Start
  <1>2. CASE Wipe
    <2>1. result'.kind \in {"none", "torn", "whole"}
      BY <1>2, Kinds DEF Wipe
    <2>2. UNCHANGED logs \/ \E c \in 1 .. Cells : logs' = [logs EXCEPT ![c] = 0]
      BY <1>2 DEF Wipe
    <2>3. halfWiped' \in BOOLEAN
      BY <1>2 DEF Wipe
    <2> QED
      BY <2>1, <2>2, <2>3
  <1>3. CASE RunCell
    BY <1>3 DEF RunCell
  <1>4. CASE OpenResult \/ WriteResult
    BY <1>4 DEF OpenResult, WriteResult, TornResult
  <1>5. CASE Interrupt \/ Crash
    BY <1>5 DEF Interrupt, CutShort, Crash
  <1>6. CASE \/ Validate \/ Load \/ ComposeUp \/ DiscoverNetwork \/ Gate \/ ComposeDown
             \/ ReadHead \/ Checkout \/ Edit
    BY <1>6 DEF Validate, Load, ComposeUp, DiscoverNetwork, Gate, ComposeDown, AfterDown,
       ReadHead, Checkout, Edit
  <1>7. CASE UNCHANGED vars
    BY <1>7 DEF vars
  <1> QED
    BY <1>1, <1>2, <1>3, <1>4, <1>5, <1>6, <1>7 DEF Next, Bench

LEMMA TypeStep == TypeOK /\ Control /\ [Next]_vars => TypeOK'
PROOF
  <1>1. TypeOK' <=> ControlTyped' /\ IterTyped' /\ DockerTyped' /\ RepoTyped' /\ DiskTyped'
    BY DEF TypeOK, ControlTyped, IterTyped, DockerTyped, RepoTyped, DiskTyped
  <1> QED
    BY <1>1, ControlTypedStep, IterTypedStep, DockerTypedStep, RepoTypedStep, DiskTypedStep

LEMMA ControlStep == TypeOK /\ Control /\ [Next]_vars => Control'
PROOF
  <1> SUFFICES ASSUME TypeOK, Control, [Next]_vars
               PROVE  Control'
    OBVIOUS
  <1> USE BenchAssumption
      DEF TypeOK, Control, Idle, Active, Protected, Early, Late, Goto, Raise, ReadTree, stateVars, control,
          iterVars, dockerVars, repoVars, diskVars
  <1>1. CASE Start
    BY <1>1 DEF Start
  <1>2. CASE Validate
    BY <1>2 DEF Validate
  <1>3. CASE Load
    BY <1>3 DEF Load
  <1>4. CASE Wipe
    BY <1>4 DEF Wipe
  <1>5. CASE ComposeUp
    BY <1>5 DEF ComposeUp
  <1>6. CASE DiscoverNetwork
    BY <1>6 DEF DiscoverNetwork
  <1>7. CASE RunCell
    BY <1>7 DEF RunCell
  <1>8. CASE Gate
    BY <1>8 DEF Gate
  <1>9. CASE ComposeDown
    BY <1>9 DEF ComposeDown, AfterDown
  <1>10. CASE ReadHead
    BY <1>10 DEF ReadHead
  <1>11. CASE OpenResult
    BY <1>11 DEF OpenResult
  <1>12. CASE WriteResult
    BY <1>12 DEF WriteResult
  <1>13. CASE Interrupt
    BY <1>13 DEF Interrupt, CutShort
  <1>14. CASE Crash
    BY <1>14 DEF Crash, CutShort
  <1>15. CASE Checkout
    BY <1>15 DEF Checkout
  <1>16. CASE Edit
    BY <1>16 DEF Edit
  <1>17. CASE UNCHANGED vars
    BY <1>17 DEF vars
  <1> QED
    BY <1>1, <1>2, <1>3, <1>4, <1>5, <1>6, <1>7, <1>8, <1>9, <1>10, <1>11, <1>12, <1>13,
       <1>14, <1>15, <1>16, <1>17 DEF Next, Bench

\* Theorem: the orchestrator's variables keep their types, and the flags it has recorded
\* are as many as the cells it has left behind.
THEOREM TypesHold == SafetySpec => []TypeOK
PROOF
  BY TypeInit, ControlInit, TypeStep, ControlStep, PTL DEF SafetySpec

------------------------------------------------------------------------------
(* The results directory                                                   *)

LEMMA ResultTypedStep == TypeOK /\ Control /\ ResultTyped /\ [Next]_vars => ResultTyped'
PROOF
  <1> SUFFICES ASSUME TypeOK, Control, ResultTyped, [Next]_vars
               PROVE  ResultTyped'
    OBVIOUS
  <1> USE BenchAssumption
      DEF ResultTyped, TypeOK, Control, Idle, Active, Protected, Early, Late, Goto, Raise,
          ReadTree, stateVars, control, iterVars, dockerVars, repoVars, diskVars
  <1>1. CASE Wipe
    BY <1>1 DEF Wipe
  <1>2. CASE OpenResult
    BY <1>2 DEF OpenResult
  <1>3. CASE WriteResult
    BY <1>3 DEF WriteResult
  <1>4. CASE \/ Start \/ Validate \/ Load \/ ComposeUp \/ DiscoverNetwork \/ RunCell \/ Gate
             \/ ComposeDown \/ ReadHead \/ Interrupt \/ Crash \/ Checkout \/ Edit
    BY <1>4 DEF Start, Validate, Load, ComposeUp, DiscoverNetwork, RunCell, Gate, ComposeDown,
       AfterDown, ReadHead, Interrupt, CutShort, Crash, Checkout, Edit
  <1>5. CASE UNCHANGED vars
    BY <1>5 DEF vars
  <1> QED
    BY <1>1, <1>2, <1>3, <1>4, <1>5 DEF Next, Bench

LEMMA DirectoriesStep == TypeOK /\ Control /\ Directories /\ [Next]_vars => Directories'
PROOF
  <1> SUFFICES ASSUME TypeOK, Control, Directories, [Next]_vars
               PROVE  Directories'
    OBVIOUS
  <1> USE BenchAssumption
      DEF Directories, LogsUpTo, TypeOK, Control, Idle, Active, Protected, Early, Late, Goto, Raise,
          ReadTree, stateVars, control, iterVars, dockerVars, repoVars, diskVars
  <1>1. CASE Start
    BY <1>1 DEF Start
  <1>2. CASE Wipe
    <2>1. CASE pc' = "up"
      BY <1>2, <2>1 DEF Wipe
    <2>2. CASE pc' \in {"wipe", "failed"}
      BY <2>2
    <2> QED
      BY <1>2, <2>1, <2>2 DEF Wipe
  <1>3. CASE ComposeUp \/ DiscoverNetwork
    BY <1>3 DEF ComposeUp, DiscoverNetwork
  <1>4. CASE RunCell
    BY <1>4 DEF RunCell
  <1>5. CASE Gate
    BY <1>5 DEF Gate
  <1>6. CASE ComposeDown
    BY <1>6 DEF ComposeDown, AfterDown
  <1>7. CASE OpenResult \/ WriteResult
    BY <1>7 DEF OpenResult, WriteResult, NoResult, TornResult
  <1>8. CASE ReadHead
    BY <1>8 DEF ReadHead
  <1>9. CASE Interrupt \/ Crash
    BY <1>9 DEF Interrupt, CutShort, Crash
  <1>10. CASE Validate \/ Load \/ Checkout \/ Edit
    BY <1>10 DEF Validate, Load, Checkout, Edit
  <1>11. CASE UNCHANGED vars
    BY <1>11 DEF vars
  <1> QED
    BY <1>1, <1>2, <1>3, <1>4, <1>5, <1>6, <1>7, <1>8, <1>9, <1>10, <1>11 DEF Next, Bench

LEMMA MatchStep ==
  TypeOK /\ Control /\ Directories /\ ResultMatchesLogs /\ [Next]_vars => ResultMatchesLogs'
PROOF
  <1> SUFFICES ASSUME TypeOK, Control, Directories, ResultMatchesLogs, [Next]_vars
               PROVE  ResultMatchesLogs'
    OBVIOUS
  <1> USE BenchAssumption
      DEF Directories, LogsUpTo, TypeOK, Control, ResultMatchesLogs, Whole, Idle, Active,
          Protected, Early, Late, Goto, Raise, ReadTree, stateVars, control, iterVars,
          dockerVars, repoVars, diskVars
  <1>1. CASE Wipe
    <2>1. ASSUME NEW c \in 1 .. Cells, logs' = [logs EXCEPT ![c] = 0], halfWiped' = TRUE,
                 UNCHANGED result
          PROVE  ResultMatchesLogs'
      <3> SUFFICES ASSUME Whole, NEW d \in 1 .. Cells
                   PROVE  logs'[d] = result.round \/ logs'[d] = 0
        BY <2>1
      <3>1. logs[d] = result.round \/ logs[d] = 0
        OBVIOUS
      <3>2. logs'[d] = IF d = c THEN 0 ELSE logs[d]
        BY <2>1
      <3> QED
        BY <3>1, <3>2
    <2>2. CASE result' = NoResult
      BY <2>2, Kinds
    <2>3. CASE UNCHANGED diskVars
      BY <2>3
    <2> QED
      BY <1>1, <2>1, <2>2, <2>3 DEF Wipe
  <1>2. CASE RunCell
    BY <1>2 DEF RunCell, NoResult
  <1>3. CASE OpenResult
    BY <1>3 DEF OpenResult, TornResult
  <1>4. CASE WriteResult
    BY <1>4 DEF WriteResult
  <1>5. CASE \/ Start \/ Validate \/ Load \/ ComposeUp \/ DiscoverNetwork \/ Gate \/ ComposeDown
             \/ ReadHead \/ Interrupt \/ Crash \/ Checkout \/ Edit
    BY <1>5 DEF Start, Validate, Load, ComposeUp, DiscoverNetwork, Gate, ComposeDown, AfterDown,
       ReadHead, Interrupt, CutShort, Crash, Checkout, Edit
  <1>6. CASE UNCHANGED vars
    BY <1>6 DEF vars
  <1> QED
    BY <1>1, <1>2, <1>3, <1>4, <1>5, <1>6 DEF Next, Bench

LEMMA StaleStep == TypeOK /\ Control /\ Directories /\ NoStaleResult /\ [Next]_vars => NoStaleResult'
PROOF
  <1> SUFFICES ASSUME TypeOK, Control, Directories, NoStaleResult, [Next]_vars
               PROVE  NoStaleResult'
    OBVIOUS
  <1> USE BenchAssumption
      DEF Directories, TypeOK, Control, NoStaleResult, Whole, Idle, Active, Protected, Early,
          Late, Goto, Raise, ReadTree, stateVars, control, iterVars, dockerVars, repoVars, diskVars
  <1>1. CASE Start
    BY <1>1 DEF Start
  <1>2. CASE Wipe
    BY <1>2 DEF Wipe, NoResult
  <1>3. CASE ComposeUp \/ RunCell \/ Gate \/ DiscoverNetwork
    <2>1. result' = NoResult
      BY <1>3 DEF ComposeUp, RunCell, Gate, DiscoverNetwork
    <2> QED
      BY <2>1, Kinds
  <1>4. CASE ComposeDown
    BY <1>4 DEF ComposeDown, AfterDown, NoResult
  <1>5. CASE OpenResult
    BY <1>5 DEF OpenResult, TornResult
  <1>6. CASE Interrupt
    BY <1>6 DEF Interrupt, CutShort, NoResult, TornResult
  <1>7. CASE Crash
    BY <1>7 DEF Crash, CutShort, NoResult, TornResult
  <1>8. CASE ReadHead
    BY <1>8 DEF ReadHead, NoResult
  <1>9. CASE Validate \/ Load \/ WriteResult \/ Checkout \/ Edit
    BY <1>9 DEF Validate, Load, WriteResult, Checkout, Edit
  <1>10. CASE UNCHANGED vars
    BY <1>10 DEF vars
  <1> QED
    BY <1>1, <1>2, <1>3, <1>4, <1>5, <1>6, <1>7, <1>8, <1>9, <1>10 DEF Next, Bench

------------------------------------------------------------------------------
(* The fixtures                                                            *)

LEMMA FixturesStep == TypeOK /\ Control /\ Fixtures /\ [Next]_vars => Fixtures'
PROOF
  <1> SUFFICES ASSUME TypeOK, Control, Fixtures, [Next]_vars
               PROVE  Fixtures'
    OBVIOUS
  <1> USE BenchAssumption
      DEF Fixtures, FixturesAccounted, TypeOK, Control, Idle, Active, Protected, Early, Late, Goto, Raise,
          ReadTree, stateVars, control, iterVars, dockerVars, repoVars, diskVars
  <1>1. CASE Start
    <2>1. UNCHANGED fixtures /\ round' = round + 1 /\ round' \in 1 .. MaxRounds
      BY <1>1 DEF Start
    <2>2. pc' = "validate"
      BY <1>1 DEF Start
    <2>3. \A r \in 1 .. MaxRounds : r > round => fixtures[r] = "down"
      OBVIOUS
    <2>4. fixtures'[round'] = "down"
      BY <2>1, <2>3
    <2>5. \A r \in 1 .. MaxRounds : r > round' => fixtures'[r] = "down"
      BY <2>1, <2>3
    <2> QED
      BY <2>2, <2>4, <2>5
  <1>2. CASE ComposeUp
    BY <1>2, SMTT(30) DEF ComposeUp
  <1>3. CASE ComposeDown
    BY <1>3 DEF ComposeDown, AfterDown
  <1>4. CASE RunCell
    BY <1>4 DEF RunCell
  <1>5. CASE Interrupt
    BY <1>5 DEF Interrupt, CutShort
  <1>6. CASE Crash
    BY <1>6 DEF Crash, CutShort
  <1>7. CASE \/ Validate \/ Load \/ Wipe \/ DiscoverNetwork \/ Gate \/ ReadHead \/ OpenResult
             \/ WriteResult \/ Checkout \/ Edit
    BY <1>7 DEF Validate, Load, Wipe, DiscoverNetwork, Gate, ReadHead, OpenResult, WriteResult,
       Checkout, Edit
  <1>8. CASE UNCHANGED vars
    BY <1>8 DEF vars
  <1> QED
    BY <1>1, <1>2, <1>3, <1>4, <1>5, <1>6, <1>7, <1>8 DEF Next, Bench

------------------------------------------------------------------------------
(* The results                                                             *)

LEMMA RestInit ==
  Init => ResultTyped /\ Directories /\ ResultMatchesLogs /\ NoStaleResult /\ Fixtures
PROOF
  <1> SUFFICES ASSUME Init
               PROVE  ResultTyped /\ Directories /\ ResultMatchesLogs /\ NoStaleResult /\ Fixtures
    OBVIOUS
  <1>1. pc = "idle" /\ result = NoResult /\ ~ Whole
    BY Kinds DEF Init, Whole
  <1>2. \A r \in 1 .. MaxRounds : fixtures[r] = "down"
    BY DEF Init
  <1> QED
    BY <1>1, <1>2 DEF ResultTyped, Directories, ResultMatchesLogs, NoStaleResult, Fixtures,
                      FixturesAccounted, Active, Protected, Early, Late

\* The inductive invariant, from which the theorems below follow.
LEMMA Invariance == SafetySpec => []Inv
PROOF
  <1>1. Init => Inv
    BY TypeInit, ControlInit, RestInit DEF Inv
  <1>2. Inv /\ [Next]_vars => Inv'
    <2> SUFFICES ASSUME Inv, [Next]_vars
                 PROVE  Inv'
      OBVIOUS
    <2>1. TypeOK' /\ Control' /\ ResultTyped'
      BY TypeStep, ControlStep, ResultTypedStep DEF Inv
    <2>2. Directories' /\ ResultMatchesLogs' /\ NoStaleResult' /\ Fixtures'
      BY DirectoriesStep, MatchStep, StaleStep, FixturesStep DEF Inv
    <2> QED
      BY <2>1, <2>2 DEF Inv
  <1> QED
    BY <1>1, <1>2, PTL DEF SafetySpec

\* Theorem: a readable result.json lies beside the complete logs of its own round, unless a
\* wipe was cut short (run.py: rmtree first, write_text last).
THEOREM ResultsMatch == SafetySpec => []ResultMatchesLogs
PROOF
  BY Invariance, PTL DEF Inv

\* Theorem: a round that fails after its wipe leaves no readable result.json, so that none
\* of an earlier round can be taken for its own.
THEOREM NeverStale == SafetySpec => []NoStaleResult
PROOF
  BY Invariance, PTL DEF Inv

\* Theorem: what is left of a round's fixtures has one of the reasons run.py allows for.
THEOREM FixturesHold == SafetySpec => []FixturesAccounted
PROOF
  BY Invariance, PTL DEF Inv, Fixtures

\* Only the last step of a round makes result.json whole.
LEMMA PublishStep ==
  Inv /\ [Next]_vars =>
    (Whole' /\ result' # result => how = "none" /\ Len(runs) = Cells /\ teardown # "none")
PROOF
  <1> SUFFICES ASSUME Inv, [Next]_vars, Whole', result' # result
               PROVE  how = "none" /\ Len(runs) = Cells /\ teardown # "none"
    OBVIOUS
  <1>1. WriteResult
    <2>1. result' # NoResult /\ result' # TornResult
      BY Kinds DEF Whole
    <2> QED
      BY <2>1 DEF Next, Bench, Start, Validate, Load, Wipe, ComposeUp, DiscoverNetwork, RunCell,
                  Gate, ComposeDown, ReadHead, OpenResult, Interrupt, Crash, CutShort, Checkout,
                  Edit, vars, stateVars, diskVars
  <1> QED
    BY <1>1, BenchAssumption DEF WriteResult, Inv, TypeOK, Control, Active, Late

\* Theorem: result.json is published whole only for a round that recorded every cell,
\* raised nothing and attempted the teardown.
THEOREM PublishesAll == SafetySpec => AllOrNothing
PROOF
  <1>1. SafetySpec => []Inv /\ [][Next]_vars
    BY Invariance, PTL DEF SafetySpec
  <1>2. Inv /\ [Next]_vars =>
          [Whole' /\ result' # result =>
             how = "none" /\ Len(runs) = Cells /\ teardown # "none"]_vars
    BY PublishStep
  <1> QED
    BY <1>1, <1>2, PTL DEF AllOrNothing

------------------------------------------------------------------------------
(* The refinement of Results                                               *)

Mapping ==
  /\ pc \in Idle => ResultsPhase = "quiet"
  /\ pc \in Early => ResultsPhase = "wipe"
  /\ pc = "write" => ResultsPhase = "write"
  /\ pc \in Active \ (Early \cup {"write"}) => ResultsPhase = "fill"
  /\ Whole => ResultsRecord = [kind |-> "whole", round |-> result.round, commit |-> result.commit]
  /\ result = NoResult => ResultsRecord = Directory!NoResult
  /\ result = TornResult => ResultsRecord = Directory!TornResult

\* What run_battle's position and result.json are to a reader of the directory.
LEMMA MappingHolds == Mapping /\ Mapping'
PROOF
  <1>1. NoResult.kind = "none" /\ TornResult.kind = "torn"
    BY DEF NoResult, TornResult
  <1> QED
    BY <1>1 DEF Mapping, ResultsPhase, ResultsRecord, Whole, Idle, Active, Protected, Early, Nil,
                Directory!NoResult, Directory!TornResult, Directory!Nil

\* The same position and the same result.json are the same to it.
LEMMA MappingStutters ==
  /\ pc' = pc => ResultsPhase' = ResultsPhase
  /\ result' = result => ResultsRecord' = ResultsRecord
PROOF
  BY DEF ResultsPhase, ResultsRecord, Whole

LEMMA DirectoryInit == Init => Directory!Init
PROOF
  BY MappingHolds DEF Init, Directory!Init, Mapping, Idle

LEMMA DirectoryStep == Inv /\ [Next]_vars => [Directory!Next]_(Directory!resultsVars)
PROOF
  <1> SUFFICES ASSUME Inv, [Next]_vars
               PROVE  [Directory!Next]_(Directory!resultsVars)
    OBVIOUS
  <1> USE MappingHolds, MappingStutters
      DEF Directory!Next, Directory!resultsVars, Directory!diskVars, diskVars, control, stateVars
  <1>1. ASSUME UNCHANGED diskVars, UNCHANGED round, pc \in Active, pc' = "failed"
        PROVE  Directory!EndEarly
    BY <1>1 DEF Directory!EndEarly, Mapping, Idle, Active, Protected, Early
  <1>2. ASSUME UNCHANGED diskVars, UNCHANGED round, ResultsPhase' = ResultsPhase
        PROVE  UNCHANGED Directory!resultsVars
    BY <1>2
  <1>3. CASE Start
    BY <1>3 DEF Start, Directory!Begin, Mapping, Idle, Early
  <1>4. CASE Validate \/ Load
    <2>1. UNCHANGED diskVars /\ UNCHANGED round /\ pc \in Early /\ pc' \in Early \cup {"failed"}
      BY <1>4 DEF Validate, Load, Goto, Raise, Early, Protected
    <2> QED
      BY <1>1, <1>2, <2>1 DEF Mapping, Early, Active
  <1>5. CASE Wipe
    <2>1. pc = "wipe" /\ UNCHANGED round
      BY <1>5 DEF Wipe, Goto, Raise
    <2>2. CASE /\ \E c \in 1 .. Cells : logs[c] # 0 /\ logs' = [logs EXCEPT ![c] = 0]
               /\ halfWiped' = TRUE
               /\ UNCHANGED <<control, result>>
      BY <2>1, <2>2 DEF Directory!WipeEntry, Mapping, Early
    <2>3. CASE /\ result # NoResult
               /\ result' = NoResult
               /\ halfWiped' = TRUE
               /\ UNCHANGED <<control, logs>>
      <3>1. ResultsRecord # Directory!NoResult
        BY <2>3 DEF Inv, ResultTyped, Mapping, Whole, Directory!NoResult, Directory!TornResult
      <3> QED
        BY <2>1, <2>3, <3>1 DEF Directory!WipeEntry, Mapping, Early
    <2>4. CASE /\ result = NoResult
               /\ \A c \in 1 .. Cells : logs[c] = 0
               /\ halfWiped' = FALSE
               /\ Goto("up")
               /\ UNCHANGED <<logs, result>>
      BY <2>1, <2>4 DEF Directory!Wiped, Mapping, Early, Active, Goto
    <2>5. CASE Raise("error") /\ UNCHANGED diskVars
      BY <1>1, <2>1, <2>5 DEF Raise, Active, Protected
    <2> QED
      BY <1>5, <2>2, <2>3, <2>4, <2>5 DEF Wipe
  <1>6. CASE ComposeUp \/ DiscoverNetwork \/ ReadHead
    <2>1. /\ UNCHANGED diskVars /\ UNCHANGED round
          /\ pc \in {"up", "network", "head"} /\ pc' \in {"network", "run", "open", "failed"}
      BY <1>6 DEF ComposeUp, DiscoverNetwork, ReadHead, Goto, Raise, Protected
    <2> QED
      BY <1>1, <1>2, <2>1 DEF Mapping, Early, Active, Protected
  <1>7. CASE RunCell
    <2>1. /\ pc = "run" /\ pc' \in {"gate", "down"}
          /\ UNCHANGED <<round, result, halfWiped>>
          /\ UNCHANGED logs \/ logs' = [logs EXCEPT ![cell] = round]
      BY <1>7 DEF RunCell, Goto, Raise, Protected
    <2>2. ResultsPhase = "fill" /\ ResultsPhase' = "fill" /\ UNCHANGED ResultsRecord
      BY <2>1 DEF Mapping, Active, Protected, Early
    <2>3. CASE UNCHANGED logs
      BY <2>1, <2>2, <2>3
    <2>4. CASE logs' = [logs EXCEPT ![cell] = round]
      <3>1. /\ cell \in 1 .. Cells
            /\ round # 0
            /\ \A d \in 1 .. Cells : logs[d] = IF d < cell THEN round ELSE 0
        BY <2>1, BenchAssumption
           DEF Inv, TypeOK, Control, Directories, LogsUpTo, Active, Protected
      <3>2. logs[cell] # round /\ \A d \in 1 .. cell - 1 : logs[d] = round
        BY <3>1, BenchAssumption
      <3> QED
        BY <2>1, <2>2, <2>4, <3>1, <3>2 DEF Directory!AddLog
    <2> QED
      BY <2>1, <2>3, <2>4
  <1>8. CASE Gate
    <2>1. /\ UNCHANGED diskVars /\ UNCHANGED round
          /\ pc = "gate" /\ pc' \in {"run", "down"}
      BY <1>8 DEF Gate, Goto, Raise, Protected
    <2> QED
      BY <1>2, <2>1 DEF Mapping, Early, Active, Protected
  <1>9. CASE ComposeDown
    <2>1. /\ UNCHANGED diskVars /\ UNCHANGED round
          /\ pc = "down" /\ pc' \in {"head", "failed"}
      BY <1>9 DEF ComposeDown, AfterDown, Raise, Protected
    <2> QED
      BY <1>1, <1>2, <2>1 DEF Mapping, Early, Active, Protected
  <1>10. CASE OpenResult
    <2>1. \A c \in 1 .. Cells : logs[c] = round
      BY <1>10, BenchAssumption DEF OpenResult, Inv, Control, Directories, LogsUpTo, Late
    <2> QED
      BY <1>10, <2>1 DEF OpenResult, Goto, Directory!OpenResult, Mapping, Active, Early
  <1>11. CASE WriteResult
    <2>1. /\ pc = "write" /\ pc' = "done"
          /\ UNCHANGED <<round, logs, halfWiped>>
          /\ Whole' /\ result'.round = round /\ result'.commit = commit
      BY <1>11 DEF WriteResult, Goto, Whole
    <2>2. commit \in Commits \cup {Directory!Nil}
      BY DEF Inv, TypeOK, Nil, Directory!Nil
    <2> QED
      BY <2>1, <2>2 DEF Directory!WriteResult, Mapping, Idle
  <1>12. CASE Interrupt \/ Crash
    <2>1. /\ UNCHANGED diskVars /\ UNCHANGED round /\ pc \in Active
          /\ pc' = "failed" \/ (pc \in Protected /\ pc' = "down")
      BY <1>12 DEF Interrupt, Crash, CutShort, Raise
    <2> QED
      BY <1>1, <1>2, <2>1 DEF Mapping, Early, Active, Protected
  <1>13. CASE Checkout \/ Edit \/ UNCHANGED vars
    BY <1>2, <1>13 DEF Checkout, Edit, vars
  <1> QED
    BY <1>3, <1>4, <1>5, <1>6, <1>7, <1>8, <1>9, <1>10, <1>11, <1>12, <1>13 DEF Next, Bench

\* Theorem: whatever a round runs into, the orchestrator treats its results directory the
\* way `bench package` relies on: it empties it, adds the logs in the order of the cells,
\* and writes result.json last.
THEOREM KeepsThePromise == SafetySpec => ImplementsResults
PROOF
  BY DirectoryInit, Invariance, DirectoryStep, PTL DEF SafetySpec, ImplementsResults, Directory!Spec

================================================================================
