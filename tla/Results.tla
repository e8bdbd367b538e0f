------------------------------- MODULE Results -------------------------------
(***************************************************************************)
(* What run_battle (bench_kit/run.py) promises about the results directory *)
(* to those who read it: each round removes what an earlier one left,      *)
(* writes one log after the other, and publishes result.json last, when    *)
(* every log of the round is there.  A round may end early anywhere.       *)
(***************************************************************************)
EXTENDS Naturals

CONSTANTS
  Cells,      \* number of iterations in the battle
  Commits,    \* commits of the repository
  MaxRounds   \* bound on the number of rounds

\* The all-zero SHA.
Nil == "nil"

ASSUME ResultsAssumption ==
  /\ Cells \in Nat \ {0}
  /\ MaxRounds \in Nat

VARIABLES
  round,      \* the last round begun
  phase,      \* "quiet" between rounds, "wipe", "fill", then "write"
  logs,       \* for each cell, the round whose log.jsonl is on disk; 0 for none
  result,     \* result.json on disk
  halfWiped   \* an rmtree has begun and not finished

diskVars == <<logs, result, halfWiped>>
resultsVars == <<round, phase, diskVars>>

NoResult == [kind |-> "none", round |-> 0, commit |-> Nil]
TornResult == [kind |-> "torn", round |-> 0, commit |-> Nil]

Init ==
  /\ round = 0
  /\ phase = "quiet"
  /\ logs = [c \in 1 .. Cells |-> 0]
  /\ result = NoResult
  /\ halfWiped = FALSE

Begin ==
  /\ phase = "quiet"
  /\ round < MaxRounds
  /\ round' = round + 1
  /\ phase' = "wipe"
  /\ UNCHANGED diskVars

\* One entry of the directory goes, in no particular order.
WipeEntry ==
  /\ phase = "wipe"
  /\ \/ \E c \in 1 .. Cells :
          logs[c] # 0 /\ logs' = [logs EXCEPT ![c] = 0] /\ UNCHANGED result
     \/ result # NoResult /\ result' = NoResult /\ UNCHANGED logs
  /\ halfWiped' = TRUE
  /\ UNCHANGED <<round, phase>>

Wiped ==
  /\ phase = "wipe"
  /\ result = NoResult
  /\ \A c \in 1 .. Cells : logs[c] = 0
  /\ halfWiped' = FALSE
  /\ phase' = "fill"
  /\ UNCHANGED <<round, logs, result>>

\* The logs appear in the order of the cells.
AddLog ==
  /\ phase = "fill"
  /\ \E c \in 1 .. Cells :
       /\ logs[c] # round
       /\ \A d \in 1 .. c - 1 : logs[d] = round
       /\ logs' = [logs EXCEPT ![c] = round]
  /\ UNCHANGED <<round, phase, result, halfWiped>>

\* Mutant: a result is published for a round that has not run every cell.
MutOpenResult ==
  /\ phase = "fill"
  /\ result' = TornResult
  /\ phase' = "write"
  /\ UNCHANGED <<round, logs, halfWiped>>

OpenResult ==
  /\ phase = "fill"
  /\ \A c \in 1 .. Cells : logs[c] = round
  /\ result' = TornResult
  /\ phase' = "write"
  /\ UNCHANGED <<round, logs, halfWiped>>

WriteResult ==
  /\ phase = "write"
  /\ \E c \in Commits \cup {Nil} :
       result' = [kind |-> "whole", round |-> round, commit |-> c]
  /\ phase' = "quiet"
  /\ UNCHANGED <<round, logs, halfWiped>>

\* An exception or a crash.
EndEarly ==
  /\ phase # "quiet"
  /\ phase' = "quiet"
  /\ UNCHANGED <<round, diskVars>>

Next ==
  Begin \/ WipeEntry \/ Wiped \/ AddLog \/ OpenResult \/ WriteResult \/ EndEarly

Spec == Init /\ [][Next]_resultsVars

==============================================================================
