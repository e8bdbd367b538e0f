--------------------------- MODULE SandboxContract ---------------------------
(***************************************************************************)
(* What one call of run_constrained (bench_kit/exec.py) promises to the    *)
(* runner that makes it, with the docker daemon, the polling threads and   *)
(* the cleanup commands hidden.  The contained process starts and ends at  *)
(* its own pace and may outlive the call; the call ends exactly once, with *)
(* one outcome, and reports "pass" only for a process that ended by itself *)
(* with exit code zero.                                                    *)
(***************************************************************************)

VARIABLES
  phase,    \* "open" until the call returns or raises, then "over"
  outcome,  \* what the caller is told
  proc      \* the contained process: absent, live, or how it ended

contractVars == <<phase, outcome, proc>>

Outcomes == {"pass", "fail", "timeout", "raised"}

Init ==
  /\ phase = "open"
  /\ outcome = "none"
  /\ proc = "absent"

Starts ==
  /\ proc = "absent"
  /\ proc' = "live"
  /\ UNCHANGED <<phase, outcome>>

Ends ==
  /\ proc = "live"
  /\ proc' \in {"zero", "other"}
  /\ UNCHANGED <<phase, outcome>>

Return ==
  /\ phase = "open"
  /\ phase' = "over"
  /\ outcome' \in Outcomes
  /\ outcome' = "pass" => proc = "zero"
  /\ UNCHANGED proc

Next == Starts \/ Ends \/ Return

SafetySpec == Init /\ [][Next]_contractVars

Spec == SafetySpec /\ WF_contractVars(Return)

==============================================================================
