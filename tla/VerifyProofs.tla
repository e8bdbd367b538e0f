----------------------------- MODULE VerifyProofs ------------------------------
(***************************************************************************)
(* The verification pipeline, for any number of invocations, commits,      *)
(* pairs and samples: what is run, under which tolerances, what is left    *)
(* behind, and what the exit code rests on.                                *)
(***************************************************************************)
EXTENDS Verify, SummaryProofs

Clones == {"keep", "temp"}
Compared == {"compare", "open", "write"}
Past == {"extract", "locate", "commit", "tolerances", "run"} \cup Compared
Ended(end) == pc = end \/ (pc = "cleanup" /\ how = "none")

\* The position says which source verify works on and whether an exception is in flight.
Control ==
  /\ pc \in Active \ {"dispatch"} => mode # "both"
  /\ pc \in Cloning => mode \in Clones
  /\ pc = "cleanup" => mode = "temp"
  /\ pc \in Active \ {"cleanup"} => how = "none"
  /\ pc = "done" => how = "none"
  /\ pc = "failed" => how # "none"

\* Past the check of HEAD a clone is at the claimed commit.
AtHead == pc \in Past /\ mode \in Clones => dirs[mode].head = Claim

\* A clone's tolerances are those its meta.yaml declares, and that file was validated.
Judged ==
  /\ pc \in {"run"} \cup Compared /\ mode \in Clones => tol = LoadTolerances(declared)
  /\ pc \in Compared /\ mode \in Clones => Valid(declared)

\* Nothing is in the temporary directory before it is made, nor after it was removed.
Removal == (pc = "dispatch" => dirs.temp = Absent) /\ TempRemoved

\* Past the dispatch, the --keep-source directory is this invocation's to write, if it held
\* nothing, or nobody writes it.
Keeping ==
  /\ pc = "dispatch" \/ (pc \in Active /\ mode # "keep") => dirs.keep = found
  /\ pc \in Active \ {"dispatch"} /\ mode = "keep" => found.files \in {"absent", "empty"}

\* An invocation that ends without an exception has run the battle and reported its verdict.
Reporting ==
  /\ pc \in Compared => ranAt # NoTree
  /\ Ended("done") =>
       /\ ranAt # NoTree
       /\ report = [kind |-> "whole", attempt |-> attempt, verdict |-> Verdict]

------------------------------------------------------------------------------
(* Control and types                                                       *)

LEMMA ControlInit == Init => Control
PROOF
  BY DEF Init, Control, Active, Cloning

LEMMA ControlStep == Control /\ [Next]_vars => Control'
PROOF
  <1> SUFFICES ASSUME Control, [Next]_vars
               PROVE  Control'
    OBVIOUS
  <1> USE VerifyAssumption
      DEF Control, Clones, Idle, Active, Cloning, Goto, Return, Raise, GitFails, Leave,
          SetTarget, Target, control, data, inputs
  <1>1. CASE Start \/ Dispatch \/ Clone \/ ShallowInit \/ ShallowFetch \/
            ShallowCheckout \/ Wipe \/ FullClone \/ FullCheckout \/ CheckHead \/
            Extract \/ Locate \/ CommitMatches \/ ReadTolerances \/ RunBattle \/
            Compare \/ OpenReport \/ WriteReport \/ Cleanup \/ Interrupt \/ Crash \/
            Checkout \/ Clear
    BY <1>1 DEF Start, Dispatch, Clone, ShallowInit, ShallowFetch, ShallowCheckout, Wipe,
        FullClone, FullCheckout, CheckHead, Extract, Locate, CommitMatches, ReadTolerances,
        RunBattle, Compare, OpenReport, WriteReport, Cleanup, Interrupt, CutShort, Crash,
        Checkout, Clear
  <1>2. CASE UNCHANGED vars
    BY <1>2 DEF vars
  <1> QED
    BY <1>1, <1>2 DEF Next, Pipeline, Acquire

Dirs == [{"keep", "temp"} -> [files : {"absent", "empty", "partial", "tree"},
                              head  : Commits \cup {"none"}]]

LEMMA TypeInit == Init => TypeOK
PROOF
  <1> SUFFICES ASSUME Init
               PROVE  TypeOK
    OBVIOUS
  <1>1. dirs \in [{"keep", "temp"} -> [files : {"absent", "empty", "partial", "tree"},
                                       head  : Commits \cup {"none"}]]
    BY DEF Init, Absent
  <1>2. found.files = "absent" /\ user \in [head : Commits, clean : BOOLEAN]
    BY DEF Init, Absent
  <1>3. DOMAIN Default \subseteq DOMAIN tol /\ DOMAIN verified \subseteq Keys
    BY DEF Init
  <1>4. report.kind = "none" /\ report.attempt = attempt /\ attempt = 0 /\ report.verdict = "none"
    BY DEF Init, NoReport
  <1> QED
    BY <1>1, <1>2, <1>3, <1>4, VerifyAssumption DEF Init, TypeOK, Idle

LEMMA DirsStep == TypeOK /\ Control /\ [Next]_vars => (dirs \in Dirs)'
PROOF
  <1> SUFFICES ASSUME TypeOK, Control, [Next]_vars
               PROVE  (dirs \in Dirs)'
    OBVIOUS
  <1> USE VerifyAssumption
      DEF TypeOK, Control, Clones, Dirs, Idle, Active, Cloning, Goto, Return, Raise, GitFails,
          Leave, SetTarget, Target, control, data, inputs
  <1>1. CASE Start \/ Clear
    BY <1>1 DEF Start, Clear, Absent
  <1>2. CASE Dispatch \/ Clone
    BY <1>2 DEF Dispatch, Clone
  <1>3. CASE ShallowInit \/ ShallowCheckout \/ Wipe
    BY <1>3 DEF ShallowInit, ShallowCheckout, Wipe
  <1>4. CASE FullClone \/ FullCheckout
    BY <1>4 DEF FullClone, FullCheckout
  <1>5. CASE Cleanup
    BY <1>5 DEF Cleanup
  <1>6. CASE Interrupt \/ Crash
    BY <1>6 DEF Interrupt, CutShort, Crash
  <1>7. CASE ShallowFetch \/ CheckHead \/ Extract \/ Locate \/ CommitMatches \/
            ReadTolerances \/ RunBattle \/ Compare \/ OpenReport \/ WriteReport \/ Checkout
    BY <1>7 DEF ShallowFetch, CheckHead, Extract, Locate, CommitMatches, ReadTolerances,
        RunBattle, Compare, OpenReport, WriteReport, Checkout
  <1>8. CASE UNCHANGED vars
    BY <1>8 DEF vars
  <1> QED
    BY <1>1, <1>2, <1>3, <1>4, <1>5, <1>6, <1>7, <1>8 DEF Next, Pipeline, Acquire

LEMMA VerdictTyped == Verdict \in {"match", "mismatch", "incomplete"}
PROOF
  BY DEF Verdict, VerdictFromDiffs

RestTyped ==
  /\ pc \in Idle \cup Active
  /\ attempt \in 0 .. MaxAttempts
  /\ mode \in {"source", "keep", "temp", "both"}
  /\ how \in {"none", "VerifyError", "raw", "interrupt", "cleanup", "crash"}
  /\ found.files \in {"absent", "empty", "partial", "tree"}
  /\ user \in [head : Commits, clean : BOOLEAN]
  /\ DOMAIN Default \subseteq DOMAIN tol
  /\ ranAt \in [head : Commits, clean : BOOLEAN] \cup {NoTree}
  /\ DOMAIN verified \subseteq Keys
  /\ report.kind \in {"none", "torn", "whole"}
  /\ report.attempt \in 0 .. attempt
  /\ report.verdict \in {"none", "match", "mismatch", "incomplete"}

LEMMA RestStep == TypeOK /\ Control /\ AtHead /\ [Next]_vars => RestTyped'
PROOF
  <1> SUFFICES ASSUME TypeOK, Control, AtHead, [Next]_vars
               PROVE  RestTyped'
    OBVIOUS
  <1> USE VerifyAssumption
      DEF TypeOK, RestTyped, Control, Clones, Idle, Active, Cloning, Goto, Return, Raise,
          GitFails, Leave, SetTarget, Target, control, data, inputs
  <1>1. CASE Start
    BY <1>1 DEF Start
  <1>2. CASE ReadTolerances
    <2>1. DOMAIN Default \subseteq DOMAIN tol'
      <3>1. \A o : DOMAIN Default \subseteq DOMAIN LoadTolerances(o)
        BY DEF LoadTolerances
      <3> QED
        BY <1>2, <3>1 DEF ReadTolerances
    <2>2. /\ pc' \in {"run", "failed", "cleanup"}
          /\ how' \in {how, "raw"}
          /\ UNCHANGED <<attempt, mode, found, user, ranAt, verified, report>>
      BY <1>2 DEF ReadTolerances
    <2> QED
      BY <2>1, <2>2
  <1>3. CASE RunBattle
    <2>1. Tree \in [head : Commits, clean : BOOLEAN]
      <3>1. pc = "run"
        BY <1>3 DEF RunBattle
      <3>2. CASE mode = "source"
        BY <3>2 DEF Tree
      <3>3. CASE mode \in Clones
        BY <3>1, <3>3 DEF Tree, AtHead, Past
      <3> QED
        BY <3>1, <3>2, <3>3
    <2>2. \/ ranAt' = Tree /\ DOMAIN verified' \subseteq Keys
          \/ UNCHANGED <<ranAt, verified>>
      BY <1>3 DEF RunBattle
    <2>3. /\ pc' \in {"compare", "failed", "cleanup"}
          /\ how' \in {how, "raw"}
          /\ UNCHANGED <<attempt, mode, found, user, tol, report>>
      BY <1>3 DEF RunBattle
    <2> QED
      BY <2>1, <2>2, <2>3
  <1>4. CASE OpenReport
    BY <1>4 DEF OpenReport
  <1>5. CASE WriteReport
    BY <1>5, VerdictTyped DEF WriteReport
  <1>6. CASE Cleanup
    BY <1>6 DEF Cleanup
  <1>7. CASE Interrupt \/ Crash
    BY <1>7 DEF Interrupt, CutShort, Crash
  <1>8. CASE Checkout
    BY <1>8 DEF Checkout
  <1>9. CASE Dispatch \/ Clone \/ ShallowInit \/ ShallowFetch \/ ShallowCheckout \/
            Wipe \/ FullClone \/ FullCheckout \/ CheckHead \/ Extract \/ Locate \/
            CommitMatches \/ Compare \/ Clear
    BY <1>9 DEF Dispatch, Clone, ShallowInit, ShallowFetch, ShallowCheckout, Wipe, FullClone,
        FullCheckout, CheckHead, Extract, Locate, CommitMatches, Compare, Clear
  <1>10. CASE UNCHANGED vars
    BY <1>10 DEF vars
  <1> QED
    BY <1>1, <1>2, <1>3, <1>4, <1>5, <1>6, <1>7, <1>8, <1>9, <1>10 DEF Next, Pipeline, Acquire

LEMMA TypeStep == TypeOK /\ Control /\ AtHead /\ [Next]_vars => TypeOK'
PROOF
  <1>1. TypeOK' <=> RestTyped' /\ dirs' \in Dirs
    BY DEF TypeOK, RestTyped, Dirs
  <1> QED
    BY <1>1, DirsStep, RestStep

------------------------------------------------------------------------------
(* What is run, and under which tolerances                                 *)

LEMMA AtHeadStep == TypeOK /\ Control /\ AtHead /\ [Next]_vars => AtHead'
PROOF
  <1> SUFFICES ASSUME TypeOK, Control, AtHead, [Next]_vars
               PROVE  AtHead'
    OBVIOUS
  <1> USE VerifyAssumption
      DEF TypeOK, Control, Clones, AtHead, Past, Compared, Idle, Active, Cloning, Goto, Return,
          Raise, GitFails, Leave, SetTarget, Target, control, data, inputs
  <1>1. CASE Dispatch
    BY <1>1 DEF Dispatch
  <1>2. CASE CheckHead
    BY <1>2 DEF CheckHead, AtClaim, Tree
  <1>3. CASE FullClone \/ FullCheckout
    BY <1>3 DEF FullClone, FullCheckout
  <1>4. CASE Cleanup
    BY <1>4 DEF Cleanup
  <1>5. CASE Interrupt \/ Crash
    BY <1>5 DEF Interrupt, CutShort, Crash
  <1>6. CASE Start \/ Clear
    BY <1>6 DEF Start, Clear
  <1>7. CASE Clone \/ ShallowInit \/ ShallowFetch \/ ShallowCheckout \/ Wipe \/
            Extract \/ Locate \/ CommitMatches \/ ReadTolerances \/ RunBattle \/
            Compare \/ OpenReport \/ WriteReport \/ Checkout
    BY <1>7 DEF Clone, ShallowInit, ShallowFetch, ShallowCheckout, Wipe, Extract, Locate,
        CommitMatches, ReadTolerances, RunBattle, Compare, OpenReport, WriteReport, Checkout
  <1>8. CASE UNCHANGED vars
    BY <1>8 DEF vars
  <1> QED
    BY <1>1, <1>2, <1>3, <1>4, <1>5, <1>6, <1>7, <1>8 DEF Next, Pipeline, Acquire

LEMMA CloneStep == TypeOK /\ Control /\ AtHead /\ CloneRunsClaim /\ [Next]_vars => CloneRunsClaim'
PROOF
  <1> SUFFICES ASSUME TypeOK, Control, AtHead, CloneRunsClaim, [Next]_vars
               PROVE  CloneRunsClaim'
    OBVIOUS
  <1> USE VerifyAssumption
      DEF TypeOK, Control, Clones, CloneRunsClaim, Idle, Active, Cloning, Goto, Return, Raise,
          GitFails, Leave, SetTarget, Target, control, data, inputs
  <1>1. CASE RunBattle
    BY <1>1 DEF RunBattle, AtHead, Past, Compared, Tree, Exact
  <1>2. CASE Start \/ Dispatch \/ Clone \/ ShallowInit \/ ShallowFetch \/
            ShallowCheckout \/ Wipe \/ FullClone \/ FullCheckout \/ CheckHead \/
            Extract \/ Locate \/ CommitMatches \/ ReadTolerances \/ Compare \/
            OpenReport \/ WriteReport \/ Cleanup \/ Interrupt \/ Crash \/ Checkout \/
            Clear
    BY <1>2 DEF Start, Dispatch, Clone, ShallowInit, ShallowFetch, ShallowCheckout, Wipe,
        FullClone, FullCheckout, CheckHead, Extract, Locate, CommitMatches, ReadTolerances,
        Compare, OpenReport, WriteReport, Cleanup, Interrupt, CutShort, Crash, Checkout, Clear
  <1>3. CASE UNCHANGED vars
    BY <1>3 DEF vars
  <1> QED
    BY <1>1, <1>2, <1>3 DEF Next, Pipeline, Acquire

LEMMA JudgedStep == TypeOK /\ Control /\ AtHead /\ Judged /\ [Next]_vars => Judged'
PROOF
  <1> SUFFICES ASSUME TypeOK, Control, AtHead, Judged, [Next]_vars
               PROVE  Judged'
    OBVIOUS
  <1> USE VerifyAssumption
      DEF TypeOK, Control, Clones, Judged, Compared, Idle, Active, Cloning, Goto, Return,
          Raise, GitFails, Leave, SetTarget, Target, control, data, inputs
  <1>1. CASE ReadTolerances
    BY <1>1 DEF ReadTolerances, MetaTolerances, Tree, Exact, AtHead, Past
  <1>2. CASE RunBattle
    BY <1>2 DEF RunBattle, MetaTolerances, Tree, Exact, AtHead, Past
  <1>3. CASE Start \/ Dispatch \/ Clone \/ ShallowInit \/ ShallowFetch \/
            ShallowCheckout \/ Wipe \/ FullClone \/ FullCheckout \/ CheckHead \/
            Extract \/ Locate \/ CommitMatches \/ Compare \/ OpenReport \/ WriteReport \/
            Cleanup \/ Interrupt \/ Crash \/ Checkout \/ Clear
    BY <1>3 DEF Start, Dispatch, Clone, ShallowInit, ShallowFetch, ShallowCheckout, Wipe,
        FullClone, FullCheckout, CheckHead, Extract, Locate, CommitMatches, Compare,
        OpenReport, WriteReport, Cleanup, Interrupt, CutShort, Crash, Checkout, Clear
  <1>4. CASE UNCHANGED vars
    BY <1>4 DEF vars
  <1> QED
    BY <1>1, <1>2, <1>3, <1>4 DEF Next, Pipeline, Acquire

------------------------------------------------------------------------------
(* What is left behind                                                     *)

LEMMA RemovalStep == TypeOK /\ Control /\ Removal /\ [Next]_vars => Removal'
PROOF
  <1> SUFFICES ASSUME TypeOK, Control, Removal, [Next]_vars
               PROVE  Removal'
    OBVIOUS
  <1> USE VerifyAssumption
      DEF TypeOK, Control, Clones, Removal, TempRemoved, Idle, Active, Cloning, Goto, Return,
          Raise, GitFails, Leave, SetTarget, Target, control, data, inputs
  <1>1. CASE Start
    BY <1>1 DEF Start, Absent
  <1>2. CASE Dispatch
    BY <1>2 DEF Dispatch
  <1>3. CASE Cleanup
    BY <1>3 DEF Cleanup, Absent
  <1>4. CASE Clone \/ WriteReport
    BY <1>4 DEF Clone, WriteReport
  <1>5. CASE Clear
    BY <1>5 DEF Clear
  <1>6. CASE ShallowInit \/ ShallowFetch \/ ShallowCheckout \/ Wipe \/ FullClone \/
            FullCheckout \/ CheckHead \/ Extract \/ Locate \/ CommitMatches \/
            ReadTolerances \/ RunBattle \/ Compare \/ OpenReport \/ Interrupt \/ Crash \/
            Checkout
    BY <1>6 DEF ShallowInit, ShallowFetch, ShallowCheckout, Wipe, FullClone, FullCheckout,
        CheckHead, Extract, Locate, CommitMatches, ReadTolerances, RunBattle, Compare,
        OpenReport, Interrupt, CutShort, Crash, Checkout
  <1>7. CASE UNCHANGED vars
    BY <1>7 DEF vars
  <1> QED
    BY <1>1, <1>2, <1>3, <1>4, <1>5, <1>6, <1>7 DEF Next, Pipeline, Acquire

LEMMA KeepingStep == TypeOK /\ Control /\ Keeping /\ [Next]_vars => Keeping'
PROOF
  <1> SUFFICES ASSUME TypeOK, Control, Keeping, [Next]_vars
               PROVE  Keeping'
    OBVIOUS
  <1> USE VerifyAssumption
      DEF TypeOK, Control, Clones, Keeping, Idle, Active, Cloning, Goto, Return, Raise,
          GitFails, Leave, SetTarget, Target, control, data, inputs
  <1>1. CASE Start
    BY <1>1 DEF Start
  <1>2. CASE Dispatch
    BY <1>2 DEF Dispatch
  <1>3. CASE Cleanup
    BY <1>3 DEF Cleanup, Absent
  <1>4. CASE Clone
    BY <1>4 DEF Clone
  <1>5. CASE Clear
    BY <1>5 DEF Clear
  <1>6. CASE ShallowInit \/ ShallowFetch \/ ShallowCheckout \/ Wipe \/ FullClone \/
            FullCheckout \/ CheckHead \/ Extract \/ Locate \/ CommitMatches \/
            ReadTolerances \/ RunBattle \/ Compare \/ OpenReport \/ WriteReport \/
            Interrupt \/ Crash \/ Checkout
    BY <1>6 DEF ShallowInit, ShallowFetch, ShallowCheckout, Wipe, FullClone, FullCheckout,
        CheckHead, Extract, Locate, CommitMatches, ReadTolerances, RunBattle, Compare,
        OpenReport, WriteReport, Interrupt, CutShort, Crash, Checkout
  <1>7. CASE UNCHANGED vars
    BY <1>7 DEF vars
  <1> QED
    BY <1>1, <1>2, <1>3, <1>4, <1>5, <1>6, <1>7 DEF Next, Pipeline, Acquire

------------------------------------------------------------------------------
(* What the exit code rests on                                             *)

\* The verdict depends on the two sets of iterations and on the tolerances only.
LEMMA VerdictFixed == UNCHANGED <<claimed, verified, tol>> => UNCHANGED Verdict
PROOF
  BY DEF Verdict

LEMMA ReportingStep == TypeOK /\ Control /\ AtHead /\ Reporting /\ [Next]_vars => Reporting'
PROOF
  <1> SUFFICES ASSUME TypeOK, Control, AtHead, Reporting, [Next]_vars
               PROVE  Reporting'
    OBVIOUS
  <1> USE VerifyAssumption, VerdictFixed
      DEF Control, Clones, Reporting, Ended, Compared, Idle, Active, Cloning, Goto, Return,
          Raise, GitFails, Leave, SetTarget, Target, control, data, inputs
  <1>1. CASE Start
    BY <1>1 DEF Start
  <1>2. CASE Dispatch
    BY <1>2 DEF Dispatch
  <1>3. CASE RunBattle
    <2>1. Tree # NoTree
      BY <1>3 DEF RunBattle, Tree, NoTree, TypeOK
    <2> QED
      BY <1>3, <2>1 DEF RunBattle
  <1>4. CASE Cleanup
    BY <1>4 DEF Cleanup
  <1>5. CASE WriteReport
    BY <1>5 DEF WriteReport
  <1>6. CASE Interrupt \/ Crash
    BY <1>6 DEF Interrupt, CutShort, Crash
  <1>7. CASE OpenReport
    BY <1>7 DEF OpenReport
  <1>8. CASE Clone \/ ShallowInit \/ ShallowFetch \/ ShallowCheckout \/ Wipe \/
            FullClone \/ FullCheckout \/ CheckHead \/ Extract \/ Locate \/
            CommitMatches \/ ReadTolerances \/ Compare \/ Checkout \/ Clear
    BY <1>8 DEF Clone, ShallowInit, ShallowFetch, ShallowCheckout, Wipe, FullClone,
        FullCheckout, CheckHead, Extract, Locate, CommitMatches, ReadTolerances, Compare,
        Checkout, Clear
  <1>9. CASE UNCHANGED vars
    BY <1>9 DEF vars
  <1> QED
    BY <1>1, <1>2, <1>3, <1>4, <1>5, <1>6, <1>7, <1>8, <1>9 DEF Next, Pipeline, Acquire

------------------------------------------------------------------------------

Inv ==
  TypeOK /\ Control /\ AtHead /\ CloneRunsClaim /\ Judged /\ Removal /\ Keeping /\ Reporting

LEMMA InvInit == Init => Inv
PROOF
  <1> SUFFICES ASSUME Init
               PROVE  Inv
    OBVIOUS
  <1>1. /\ pc = "idle" /\ how = "none" /\ mode = "temp" /\ ranAt = NoTree
        /\ dirs.temp = Absent
    BY DEF Init
  <1> QED
    BY <1>1, TypeInit, ControlInit
       DEF Inv, AtHead, CloneRunsClaim, Judged, Removal, TempRemoved, Keeping, Reporting, Ended,
           Past, Compared, Active, Cloning

LEMMA Invariance == SafetySpec => []Inv
PROOF
  <1>1. Inv /\ [Next]_vars => Inv'
    <2> SUFFICES ASSUME Inv, [Next]_vars
                 PROVE  Inv'
      OBVIOUS
    <2>1. TypeOK' /\ Control' /\ AtHead' /\ CloneRunsClaim'
      BY TypeStep, ControlStep, AtHeadStep, CloneStep DEF Inv
    <2>2. Judged' /\ Removal' /\ Keeping' /\ Reporting'
      BY JudgedStep, RemovalStep, KeepingStep, ReportingStep DEF Inv
    <2> QED
      BY <2>1, <2>2 DEF Inv
  <1> QED
    BY <1>1, InvInit, PTL DEF SafetySpec

\* Theorem: verify_bundle's variables keep their types.
THEOREM TypesHold == SafetySpec => []TypeOK
PROOF
  BY Invariance, PTL DEF Inv

\* Theorem: a clone is run only at the claimed commit, whatever a server answers to the
\* fetch and whichever of the two ways obtained it (_auto_clone, _commit_matches).
THEOREM ClonesRunTheClaim == SafetySpec => []CloneRunsClaim
PROOF
  BY Invariance, PTL DEF Inv

\* Theorem: no verdict on a clone rests on tolerances looser than the defaults, because
\* run_battle validates what _load_tolerances took unseen.
THEOREM TolerancesHold == SafetySpec => []NeverLoosened
PROOF
  <1>1. Inv => NeverLoosened
    <2> SUFFICES ASSUME Inv, mode \in Clones, pc \in Compared, NEW m \in DOMAIN Default
                 PROVE  tol[m] <= Default[m]
      BY DEF NeverLoosened, Clones, Compared
    <2>1. tol[m] = IF m \in DOMAIN declared THEN declared[m] ELSE Default[m]
      BY DEF Inv, Judged, LoadTolerances
    <2>2. m \in DOMAIN declared => declared[m] <= Default[m]
      BY DEF Inv, Judged, Valid
    <2>3. Default[m] \in Nat
      BY DEF Default
    <2> QED
      BY <2>1, <2>2, <2>3
  <1> QED
    BY <1>1, Invariance, PTL

\* Theorem: the temporary clone is gone when verify ends, unless it is killed or the removal
\* itself fails.
THEOREM ClonesAreRemoved == SafetySpec => []TempRemoved
PROOF
  BY Invariance, PTL DEF Inv, Removal

\* Theorem: a --keep-source directory that held anything is left as it was found.
THEOREM KeptHolds == SafetySpec => []KeptIsKept
PROOF
  <1>1. Inv => KeptIsKept
    BY DEF Inv, Keeping, KeptIsKept, Active
  <1> QED
    BY <1>1, Invariance, PTL

\* An invocation exits with zero only after it reported a match.
LEMMA ExitZeroReports ==
  Inv /\ pc \in {"done", "failed"} /\ ExitCode = 0 =>
    Reported /\ report.verdict = "match" /\ Verdict = "match" /\ ranAt # NoTree
PROOF
  <1> SUFFICES ASSUME Inv, pc \in {"done", "failed"}, ExitCode = 0
               PROVE  Reported /\ report.verdict = "match" /\ Verdict = "match" /\ ranAt # NoTree
    OBVIOUS
  <1>1. how = "none" /\ Verdict = "match"
    BY DEF ExitCode, Inv, TypeOK
  <1>2. pc = "done"
    BY <1>1 DEF Inv, Control
  <1> QED
    BY <1>1, <1>2 DEF Inv, Reporting, Ended, Reported

------------------------------------------------------------------------------
(* The verdict                                                             *)

\* The claimer's and the verifier's iterations are what run.py records.
IterationsTyped ==
  /\ claimed \in [Keys -> Results]
  /\ DOMAIN verified \subseteq Keys
  /\ \A k \in DOMAIN verified : verified[k] \in Results

\* The results of a pair are sequences of iterations that the arithmetic is about.
LEMMA ResultsTyped == Results \subseteq [1 .. Iterations -> Iteration]
PROOF
  BY VerifyAssumption DEF Runs, Iteration

\* Nothing of the pair is left to compare, or some of its metrics.
Lost(k) == k \notin DOMAIN verified \/ Vanished(k)

\* The nearest rank of the contract is the nearest one of the measured column.
LEMMA NearestRankIs ==
  ASSUME NEW rs, NEW field, NEW S, S = Successes(rs),
         Column(rs, field) \in [S -> Nat],
         NEW p, NEW v, IsNearest(Column(rs, field), p, v)
  PROVE  NearestRank(rs, field, p) = v
PROOF
  <1> DEFINE g == Column(rs, field)
             Reach(x) == Cardinality({i \in S : g[i] <= x})
             N == {g[i] : i \in {j \in S : 100 * Reach(g[j]) >= p * Cardinality(S)}}
  <1>1. DOMAIN g = S /\ \A i \in S : g[i] = rs[i][field] /\ g[i] \in Nat
    BY DEF Column
  <1>2. NearestRank(rs, field, p) = Min(N)
    <2>1. \A x : {i \in S : rs[i][field] <= x} = {i \in S : g[i] <= x}
      BY <1>1
    <2>2. {j \in S : 100 * Cardinality({i \in S : rs[i][field] <= rs[j][field]})
                       >= p * Cardinality(S)}
            = {j \in S : 100 * Reach(g[j]) >= p * Cardinality(S)}
      BY <1>1, <2>1
    <2> QED
      BY <1>1, <2>2 DEF NearestRank
  <1>3. /\ v \in Nat
        /\ \E i \in S : g[i] = v
        /\ 100 * Reach(v) >= p * Cardinality(S)
        /\ \A i \in S : 100 * Reach(g[i]) >= p * Cardinality(S) => v <= g[i]
    BY <1>1 DEF IsNearest
  <1> HIDE DEF Reach, g
  <1>4. v \in N /\ \A x \in N : v <= x /\ x \in Nat
    BY <1>1, <1>3
  <1> HIDE DEF N
  <1>5. Min(N) = v
    <2>1. \A x \in N : (\A y \in N : x <= y) => x = v
      BY <1>3, <1>4
    <2> QED
      BY <1>4, <2>1 DEF Min
  <1> QED
    BY <1>2, <1>5

\* Every metric of a row is the nearest rank of what its successful iterations measured.
LEMMA RowIsNearest ==
  ASSUME NEW n \in Nat \ {0}, NEW rs \in [1 .. n -> Iteration], Successes(rs) # {}
  PROVE  /\ \A m \in DOMAIN WallPercent : Row(rs)[m] = NearestRank(rs, "wall", WallPercent[m])
         /\ Row(rs)["peak_rss_mb"] = NearestRank(rs, "rss", 100)
         /\ Row(rs)["cpu_time_ms_p50"] = NearestRank(rs, "cpu", 50)
PROOF
  <1> DEFINE S == Successes(rs)
             wall == Column(rs, "wall")
             rss == Column(rs, "rss")
             cpu == Column(rs, "cpu")
  <1>1. /\ S \in SUBSET Nat /\ IsFiniteSet(S)
        /\ wall \in [S -> Nat] /\ rss \in [S -> Nat] /\ cpu \in [S -> Nat]
    BY ColumnTyped
  <1>2. ASSUME NEW field \in {"wall", "cpu"}, NEW p \in {50, 95, 99}
        PROVE  NearestRank(rs, field, p) = Percentile(Sorted(Column(rs, field)), p)
    <2>1. Column(rs, field) \in [S -> Nat]
      BY <1>1
    <2>2. IsNearest(Column(rs, field), p, Percentile(Sorted(Column(rs, field)), p))
      <3> HIDE DEF S
      <3> QED
        BY <1>1, <2>1, PercentileIsNearest DEF S
    <2> QED
      BY <2>1, <2>2, NearestRankIs
  <1>3. NearestRank(rs, "rss", 100) = Max(Range(rss))
    <2>1. IsNearest(rss, 100, Max(Range(rss)))
      BY <1>1, GreatestIsNearest
    <2> QED
      BY <1>1, <2>1, NearestRankIs
  <1>4. /\ Row(rs)["wall_clock_ms_p50"] = Percentile(Sorted(wall), 50)
        /\ Row(rs)["wall_clock_ms_p95"] = Percentile(Sorted(wall), 95)
        /\ Row(rs)["wall_clock_ms_p99"] = Percentile(Sorted(wall), 99)
        /\ Row(rs)["peak_rss_mb"] = Max(Range(rss))
        /\ Row(rs)["cpu_time_ms_p50"] = Percentile(Sorted(cpu), 50)
    BY DEF Row
  <1> QED
    BY <1>2, <1>3, <1>4 DEF WallPercent

\* On measured values _one_diff's test is the tolerance contract.
LEMMA WithinIsClose ==
  ASSUME NEW m, m # "success_rate", NEW c \in Nat, NEW v \in Nat, NEW t
  PROVE  Within(m, c, v, t) <=> Close(c, v, t)
PROOF
  <1>1. Denominator(c) = Max({c, 1})
    <2>1. Max({c, 1}) = IF c >= 1 THEN c ELSE 1
      BY MaxOfTwo
    <2> QED
      BY <2>1 DEF Denominator, Abs
  <1>2. v # None
    BY DEF None
  <1> QED
    BY <1>1, <1>2 DEF Within, Close

\* What the comparison of a pair works on.
LEMMA PairTyped ==
  ASSUME IterationsTyped, NEW k \in Keys
  PROVE  /\ Iterations \in Nat \ {0}
         /\ claimed[k] \in [1 .. Iterations -> Iteration]
         /\ k \in DOMAIN BuildSummary(claimed) /\ BuildSummary(claimed)[k] = Row(claimed[k])
         /\ IF k \in DOMAIN verified
            THEN /\ verified[k] \in [1 .. Iterations -> Iteration]
                 /\ Get(BuildSummary(verified), k, <<>>) = Row(verified[k])
            ELSE Get(BuildSummary(verified), k, <<>>) = <<>>
PROOF
  BY VerifyAssumption, ResultsTyped DEF IterationsTyped, BuildSummary, Get

\* A diff is missing its verified value exactly if the pair is lost.
LEMMA PairLost ==
  ASSUME IterationsTyped, NEW k \in Keys
  PROVE  LET c == BuildSummary(claimed)[k]
             v == Get(BuildSummary(verified), k, <<>>)
         IN  Lost(k) <=> \E m \in DOMAIN c : Get(v, m, None) = None
PROOF
  <1> DEFINE c == Row(claimed[k])
             v == Get(BuildSummary(verified), k, <<>>)
  <1>1. /\ BuildSummary(claimed)[k] = c
        /\ DOMAIN c = IF Successes(claimed[k]) = {} THEN {"success_rate"} ELSE Metrics
    BY PairTyped, RowTyped
  <1>2. CASE k \notin DOMAIN verified
    <2>1. v = <<>>
      BY <1>2, PairTyped
    <2>2. Get(v, "success_rate", None) = None /\ "success_rate" \in DOMAIN c
      BY <1>1, <2>1 DEF Get, Metrics
    <2> QED
      BY <1>1, <1>2, <2>2 DEF Lost, Vanished
  <1>3. CASE k \in DOMAIN verified
    <2>1. /\ v = Row(verified[k])
          /\ DOMAIN v = IF Successes(verified[k]) = {} THEN {"success_rate"} ELSE Metrics
          /\ \A m \in DOMAIN v : v[m] \in Nat
      BY <1>3, PairTyped, RowTyped
    <2> HIDE DEF c, v
    <2>2. \A m : Get(v, m, None) = None <=> m \notin DOMAIN v
      BY <2>1 DEF Get, None
    <2>3. Lost(k) <=> Successes(claimed[k]) # {} /\ Successes(verified[k]) = {}
      BY <1>3 DEF Lost, Vanished
    <2>4. (\E m \in DOMAIN c : m \notin DOMAIN v) <=>
            Successes(claimed[k]) # {} /\ Successes(verified[k]) = {}
      BY <1>1, <2>1 DEF Metrics
    <2>5. Lost(k) <=> \E m \in DOMAIN c : Get(v, m, None) = None
      BY <2>2, <2>3, <2>4
    <2> QED
      BY <1>1, <2>5 DEF v
  <1> QED
    BY <1>2, <1>3

\* The diffs of a pair that is not lost are all within tolerance exactly if the pair agrees.
LEMMA PairAgrees ==
  ASSUME IterationsTyped, DOMAIN Default \subseteq DOMAIN tol, NEW k \in Keys, ~Lost(k)
  PROVE  LET c == BuildSummary(claimed)[k]
             v == Get(BuildSummary(verified), k, <<>>)
         IN  Agree(k) <=>
               \A m \in DOMAIN c : Within(m, c[m], Get(v, m, None), Get(tol, m, 0))
PROOF
  <1> DEFINE cs == claimed[k]
             vs == verified[k]
             c == Row(cs)
             v == Row(vs)
             n == Iterations
  <1>1. /\ n \in 1 .. 50 /\ k \in DOMAIN verified
        /\ cs \in [1 .. n -> Iteration] /\ vs \in [1 .. n -> Iteration]
        /\ BuildSummary(claimed)[k] = c /\ Get(BuildSummary(verified), k, <<>>) = v
        /\ Successes(cs) # {} => Successes(vs) # {}
    BY PairTyped, VerifyAssumption DEF Lost, Vanished
  <1>2. /\ DOMAIN c = IF Successes(cs) = {} THEN {"success_rate"} ELSE Metrics
        /\ c["success_rate"] = Rate(Cardinality(Successes(cs)), n)
        /\ \A m \in DOMAIN c : c[m] \in Nat
        /\ DOMAIN v = IF Successes(vs) = {} THEN {"success_rate"} ELSE Metrics
        /\ v["success_rate"] = Rate(Cardinality(Successes(vs)), n)
        /\ \A m \in DOMAIN v : v[m] \in Nat
    BY <1>1, RowTyped
  <1>3. Cardinality(Successes(cs)) \in 0 .. n /\ Cardinality(Successes(vs)) \in 0 .. n
    BY <1>1, ColumnTyped
  <1>4. Cardinality(Successes(cs)) = Cardinality(Successes(vs)) <=>
          c["success_rate"] = v["success_rate"]
    <2> DEFINE s == Cardinality(Successes(cs))
               t == Cardinality(Successes(vs))
    <2>1. s \in 0 .. n /\ t \in 0 .. n /\ n \in 1 .. 50
      BY <1>1, <1>3
    <2> HIDE DEF s, t, n
    <2>2. Rate(s, n) = Rate(t, n) <=> s = t
      BY <2>1, RatesTell
    <2> QED
      BY <1>2, <2>2 DEF s, t
  <1>5. \A m \in DOMAIN c : m \in DOMAIN v /\ Get(v, m, None) = v[m] /\ Get(tol, m, 0) = tol[m]
    BY <1>1, <1>2 DEF Get, Metrics, Default
  <1> DEFINE In(m) == Within(m, c[m], Get(v, m, None), Get(tol, m, 0))
  <1> HIDE DEF c, v
  <1>6. In("success_rate") <=> Cardinality(Successes(cs)) = Cardinality(Successes(vs))
    <2>1. "success_rate" \in DOMAIN c
      BY <1>2 DEF Metrics
    <2>2. v["success_rate"] # None
      BY <1>2, <1>5, <2>1 DEF None
    <2> QED
      BY <1>4, <1>5, <2>1, <2>2 DEF Within
  <1>7. \A m \in DOMAIN c \ {"success_rate"} : In(m) <=> Close(c[m], v[m], tol[m])
    BY <1>2, <1>5, WithinIsClose
  <1> HIDE DEF In
  <1>8. ASSUME Successes(cs) = {}
        PROVE  Agree(k) <=> \A m \in DOMAIN c : In(m)
    BY <1>2, <1>6, <1>8 DEF Agree
  <1>9. ASSUME Successes(cs) # {}
        PROVE  Agree(k) <=> \A m \in DOMAIN c : In(m)
    <2>1. Successes(vs) # {} /\ DOMAIN c = Metrics
      BY <1>1, <1>2, <1>9
    <2>2. /\ \A m \in DOMAIN WallPercent : c[m] = NearestRank(cs, "wall", WallPercent[m])
          /\ c["peak_rss_mb"] = NearestRank(cs, "rss", 100)
          /\ c["cpu_time_ms_p50"] = NearestRank(cs, "cpu", 50)
      BY <1>1, <1>9, RowIsNearest DEF c
    <2>3. /\ \A m \in DOMAIN WallPercent : v[m] = NearestRank(vs, "wall", WallPercent[m])
          /\ v["peak_rss_mb"] = NearestRank(vs, "rss", 100)
          /\ v["cpu_time_ms_p50"] = NearestRank(vs, "cpu", 50)
      BY <1>1, <2>1, RowIsNearest DEF v
    <2>4. DOMAIN c =
            {"success_rate", "peak_rss_mb", "cpu_time_ms_p50"} \cup DOMAIN WallPercent
      BY <2>1 DEF Metrics, WallPercent
    <2>5. "success_rate" \notin DOMAIN WallPercent
      BY DEF WallPercent
    <2>6. (\A m \in DOMAIN c : In(m)) <=>
            /\ In("success_rate")
            /\ \A m \in DOMAIN WallPercent : Close(c[m], v[m], tol[m])
            /\ Close(c["peak_rss_mb"], v["peak_rss_mb"], tol["peak_rss_mb"])
            /\ Close(c["cpu_time_ms_p50"], v["cpu_time_ms_p50"], tol["cpu_time_ms_p50"])
      BY <1>7, <2>4, <2>5
    <2>7. (\A m \in DOMAIN WallPercent : Close(c[m], v[m], tol[m])) <=>
            \A m \in DOMAIN WallPercent :
              Close(NearestRank(cs, "wall", WallPercent[m]),
                    NearestRank(vs, "wall", WallPercent[m]), tol[m])
      BY <2>2, <2>3
    <2> QED
      BY <1>6, <1>9, <2>2, <2>3, <2>6, <2>7 DEF Agree
  <1>10. Agree(k) <=> \A m \in DOMAIN c : In(m)
    BY <1>8, <1>9
  <1> QED
    BY <1>1, <1>10 DEF In, c, v

\* The verdict that the code computes is the one the iterations call for.
LEMMA VerdictIsTheirs ==
  ASSUME IterationsTyped, DOMAIN Default \subseteq DOMAIN tol
  PROVE  Verdict = IF \E k \in Keys : Lost(k) THEN "incomplete"
                   ELSE IF \A k \in Keys : Agree(k) THEN "match" ELSE "mismatch"
PROOF
  <1> DEFINE C == BuildSummary(claimed)
             V(k) == Get(BuildSummary(verified), k, <<>>)
             Missing(k) == \E m \in DOMAIN C[k] : Get(V(k), m, None) = None
             In(k) == \A m \in DOMAIN C[k] : Within(m, C[k][m], Get(V(k), m, None), Get(tol, m, 0))
  <1>1. DOMAIN C = Keys /\ Keys # {} /\ \A k \in Keys : DOMAIN C[k] # {}
    <2>1. \A k \in Keys : DOMAIN Row(claimed[k]) # {}
      BY PairTyped, RowTyped DEF Metrics
    <2> QED
      BY <2>1, VerifyAssumption DEF BuildSummary, IterationsTyped
  <1>2. /\ Verdict = "incomplete" <=>
             \/ \A k \in DOMAIN C : DOMAIN C[k] = {}
             \/ \E k \in DOMAIN C : Missing(k)
        /\ Verdict = "match" <=>
             /\ \E k \in DOMAIN C : DOMAIN C[k] # {}
             /\ \A k \in DOMAIN C : ~Missing(k) /\ In(k)
        /\ Verdict \in {"incomplete", "match", "mismatch"}
    BY VerdictMeans, Zenon DEF Verdict
  <1>3. \A k \in Keys : Lost(k) <=> Missing(k)
    BY PairLost
  <1>4. \A k \in Keys : ~Lost(k) => (Agree(k) <=> In(k))
    BY PairAgrees
  <1> HIDE DEF C, Missing, In
  <1>5. Verdict = "incomplete" <=> \E k \in Keys : Lost(k)
    BY <1>1, <1>2, <1>3
  <1>6. Verdict = "match" <=> \A k \in Keys : ~Lost(k) /\ Agree(k)
    BY <1>1, <1>2, <1>3, <1>4
  <1> QED
    BY <1>2, <1>5, <1>6

\* A report of this invocation exists only once it was written, and carries the verdict on
\* the iterations and tolerances as they are.
ReportFits ==
  /\ IterationsTyped
  /\ pc \in Active \ {"cleanup"} => ~Reported
  /\ Reported => report.verdict = Verdict

LEMMA ReportFitsInit == Init => ReportFits
PROOF
  BY DEF Init, ReportFits, IterationsTyped, Reported, NoReport, Active, Cloning

LEMMA ReportFitsStep == TypeOK /\ Control /\ ReportFits /\ [Next]_vars => ReportFits'
PROOF
  <1> SUFFICES ASSUME TypeOK, Control, ReportFits, [Next]_vars
               PROVE  ReportFits'
    OBVIOUS
  <1>1. ASSUME UNCHANGED <<claimed, verified>>
        PROVE  IterationsTyped'
    BY <1>1 DEF ReportFits, IterationsTyped
  <1> USE VerifyAssumption, VerdictFixed
      DEF Control, Clones, ReportFits, Reported, Idle, Active, Cloning, Goto, Return,
          Raise, GitFails, Leave, SetTarget, Target, control, data, inputs
  <1>2. CASE Start
    <2>1. ~Reported'
      BY <1>2 DEF Start, TypeOK
    <2>2. IterationsTyped'
      BY <1>2 DEF Start, IterationsTyped
    <2> QED
      BY <2>1, <2>2
  <1>3. CASE RunBattle
    <2>1. IterationsTyped'
      BY <1>3 DEF RunBattle, IterationsTyped
    <2>2. ~Reported /\ UNCHANGED <<report, attempt>>
      BY <1>3 DEF RunBattle
    <2> QED
      BY <2>1, <2>2
  <1>4. CASE ReadTolerances
    BY <1>1, <1>4 DEF ReadTolerances
  <1>5. CASE OpenReport
    BY <1>1, <1>5 DEF OpenReport
  <1>6. CASE WriteReport
    BY <1>1, <1>6 DEF WriteReport
  <1>7. CASE Cleanup \/ Interrupt \/ Crash
    BY <1>1, <1>7 DEF Cleanup, Interrupt, CutShort, Crash
  <1>8. CASE Dispatch \/ Clone \/ ShallowInit \/ ShallowFetch \/ ShallowCheckout \/ Wipe \/
            FullClone \/ FullCheckout \/ CheckHead \/ Extract \/ Locate \/
            CommitMatches \/ Compare \/ Checkout \/ Clear
    BY <1>1, <1>8 DEF Dispatch, Clone, ShallowInit, ShallowFetch, ShallowCheckout, Wipe,
        FullClone, FullCheckout, CheckHead, Extract, Locate, CommitMatches, Compare,
        Checkout, Clear
  <1>9. CASE UNCHANGED vars
    BY <1>1, <1>9 DEF vars
  <1> QED
    BY <1>2, <1>3, <1>4, <1>5, <1>6, <1>7, <1>8, <1>9 DEF Next, Pipeline, Acquire

LEMMA ReportsFit == SafetySpec => []ReportFits
PROOF
  <1>1. Inv /\ ReportFits /\ [Next]_vars => ReportFits'
    BY ReportFitsStep DEF Inv
  <1> QED
    BY <1>1, Invariance, ReportFitsInit, PTL DEF SafetySpec

\* Theorem: the verdict reported is the one that the two sets of iterations call for, by
\* nearest ranks and tolerances, for any number of pairs, up to fifty iterations and any
\* measurements (_build_summary, _compare_summaries, _verdict_from_diffs), except that for a
\* pair that vanished it is just no match.
THEOREM VerdictsAreRight == SafetySpec => []VerdictIsRight
PROOF
  <1>1. Inv /\ ReportFits => VerdictIsRight
    <2>1. Inv /\ ReportFits => IterationsTyped /\ DOMAIN Default \subseteq DOMAIN tol
      BY DEF Inv, TypeOK, ReportFits
    <2> QED
      BY <2>1, VerdictIsTheirs DEF ReportFits, VerdictIsRight, Lost
  <1> QED
    BY <1>1, Invariance, ReportsFit, PTL

\* Theorem: `bench verify` exits with 0 only if this invocation ran the battle again and
\* reported a match, and every claimed pair was among what it ran and agrees.
THEOREM ExitZeroMatches == SafetySpec => []ExitZeroIsMatch
PROOF
  <1>1. Inv /\ ReportFits => ExitZeroIsMatch
    <2> SUFFICES ASSUME Inv, ReportFits, pc \in {"done", "failed"}, ExitCode = 0
                 PROVE  /\ Reported /\ report.verdict = "match"
                        /\ ranAt # NoTree
                        /\ \A k \in Keys : k \in DOMAIN verified /\ Agree(k)
      BY DEF ExitZeroIsMatch
    <2>1. Reported /\ report.verdict = "match" /\ Verdict = "match" /\ ranAt # NoTree
      BY ExitZeroReports
    <2>2. \A k \in Keys : ~Lost(k) /\ Agree(k)
      BY <2>1, VerdictIsTheirs DEF Inv, TypeOK, ReportFits
    <2> QED
      BY <2>1, <2>2 DEF Lost, Vanished
  <1> QED
    BY <1>1, Invariance, ReportsFit, PTL

==============================================================================
