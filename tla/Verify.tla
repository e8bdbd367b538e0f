------------------------------- MODULE Verify --------------------------------
(***************************************************************************)
(* verify_bundle (bench_kit/verify.py) over successive invocations: the    *)
(* source of the checkout, the shallow fetch and its full-clone fallback,  *)
(* the commit checks, the tolerances, the re-run, the verdict and          *)
(* verify-result.json.  What happens inside the re-run is Bench; here it   *)
(* is one step that fails or yields the verifier's iterations.             *)
(***************************************************************************)
EXTENDS Summary

CONSTANTS
  Keys,         \* the (tool, task) pairs of the battle
  Iterations,   \* iterations per pair
  Results,      \* what the iterations of a pair can come to
  Overrides,    \* the tolerance blocks a meta.yaml can declare
  Commits,      \* commits of the repository
  Claim,        \* the bundle's battle_commit
  Modes,        \* the ways verify is invoked
  MaxAttempts   \* bound on the number of invocations

\* One iteration: run.py records the metrics of failed ones too.
Runs == [success : BOOLEAN, wall : Nat, rss : Nat, cpu : Nat]

ASSUME VerifyAssumption ==
  /\ Keys # {} /\ IsFiniteSet(Keys)
  /\ Iterations \in 1 .. 50
  /\ Results \subseteq [1 .. Iterations -> Runs]
  /\ Claim \in Commits /\ "none" \notin Commits
  /\ Modes \subseteq {"source", "keep", "temp", "both"}
  /\ MaxAttempts \in Nat \ {0}

VARIABLES
  pc,        \* where verify_bundle is
  attempt,   \* the invocation
  mode,      \* "source", "keep" (--keep-source), "temp" or "both" flags at once
  how,       \* the exception in flight
  dirs,      \* the clone targets: the --keep-source directory and the temporary one
  found,     \* the --keep-source directory as this invocation found it
  user,      \* the operator's checkout, for --source
  tol,       \* the tolerances loaded
  ranAt,     \* the tree the battle was re-run from
  verified,  \* the verifier's iterations
  report,    \* verify-result.json
  claimed,   \* the iterations behind the bundle's result.json
  declared   \* the tolerances that meta.yaml declares at commit Claim

inputs == <<claimed, declared>>
control == <<pc, attempt, mode, how, found>>
data == <<tol, ranAt, verified, report>>
vars == <<control, dirs, user, data, inputs>>

NoTree == [head |-> "none", clean |-> FALSE]
Absent == [files |-> "absent", head |-> "none"]
NoReport == [kind |-> "none", attempt |-> 0, verdict |-> "none"]

Idle == {"idle", "done", "failed"}
Cloning == {"clone", "init", "fetch", "checkout", "wipe", "full", "pick", "head"}
Active == Cloning \cup {"dispatch", "extract", "locate", "commit", "tolerances", "run",
                        "compare", "open", "write", "cleanup"}

Init ==
  /\ pc = "idle"
  /\ attempt = 0
  /\ mode = "temp"
  /\ how = "none"
  /\ dirs = [m \in {"keep", "temp"} |-> Absent]
  /\ found = Absent
  /\ user \in [head : Commits, clean : {TRUE}]
  /\ tol = Default
  /\ ranAt = NoTree
  /\ verified = <<>>
  /\ report = NoReport
  /\ claimed \in [Keys -> Results]
  /\ declared \in Overrides

------------------------------------------------------------------------------

\* Mutant: the temporary directory outlives an exception.
MutLeave(end) == IF mode = "temp" /\ end = "done" THEN "cleanup" ELSE end

\* Leaving the `with` block of the temporary directory removes it first.
Leave(end) == IF mode = "temp" /\ pc \notin {"dispatch", "cleanup"} THEN "cleanup" ELSE end

Goto(l) == pc' = l /\ UNCHANGED <<attempt, mode, how, found>>

Return == Goto(Leave("done"))

Raise(kind) ==
  /\ pc' = Leave("failed")
  /\ how' = kind
  /\ UNCHANGED <<attempt, mode, found>>

\* _run_git turns a non-zero exit and a timeout into VerifyError.
GitFails == Raise("VerifyError")

Target == dirs[mode]
SetTarget(files, head) == dirs' = [dirs EXCEPT ![mode] = [files |-> files, head |-> head]]

\* The checkout verify works on; only the operator's own may be dirty.
Tree == IF mode = "source" THEN user ELSE [head |-> Target.head, clean |-> TRUE]
Exact == [head |-> Claim, clean |-> TRUE]

\* Mutant: HEAD is not compared.
MutAtClaim == Tree.head \in Commits

\* rev-parse HEAD says nothing of uncommitted changes.
AtClaim == Tree.head = Claim

Start ==
  /\ pc \in Idle
  /\ attempt < MaxAttempts
  /\ pc' = "dispatch"
  /\ attempt' = attempt + 1
  /\ mode' \in Modes
  /\ how' = "none"
  /\ dirs' = [dirs EXCEPT !.temp = Absent]
  /\ found' = dirs.keep
  /\ tol' = Default
  /\ ranAt' = NoTree
  /\ verified' = <<>>
  /\ UNCHANGED <<user, report, inputs>>

\* Mutant: --keep-source is not required to be empty.
MutDispatch ==
  /\ pc = "dispatch"
  /\ \/ Raise("VerifyError") /\ UNCHANGED dirs
     \/ Raise("raw") /\ UNCHANGED dirs
     \/ mode = "source" /\ Goto("extract") /\ UNCHANGED dirs
     \/ mode = "temp" /\ Goto("clone") /\ UNCHANGED dirs
     \/ mode = "keep" /\ Goto("clone") /\ UNCHANGED dirs
  /\ UNCHANGED <<user, data, inputs>>

\* The flags, the bundle's meta.json (which a truncated gzip stream fails with an
\* exception that is no PackageError), then the three sources.
Dispatch ==
  /\ pc = "dispatch"
  /\ \/ Raise("VerifyError") /\ UNCHANGED dirs
     \/ mode # "both" /\ Raise("raw") /\ UNCHANGED dirs
     \/ mode = "source" /\ Goto("extract") /\ UNCHANGED dirs
     \/ mode = "temp" /\ Goto("clone") /\ UNCHANGED dirs
     \/ /\ mode = "keep"
        /\ Target.files \in {"absent", "empty"}
        /\ SetTarget("empty", "none")
        /\ Goto("clone")
  /\ UNCHANGED <<user, data, inputs>>

\* No git, a malformed commit or URL; else _shallow_fetch makes the directory.
Clone ==
  /\ pc = "clone"
  /\ \/ Raise("VerifyError") /\ UNCHANGED dirs
     \/ /\ IF Target.files = "absent" THEN SetTarget("empty", "none") ELSE UNCHANGED dirs
        /\ Goto("init")
  /\ UNCHANGED <<user, data, inputs>>

ShallowInit ==
  /\ pc = "init"
  /\ \/ SetTarget("partial", Target.head) /\ Goto("fetch")
     \/ Goto("wipe") /\ (UNCHANGED dirs \/ SetTarget("partial", Target.head))
  /\ UNCHANGED <<user, data, inputs>>

\* remote add, then fetch --depth=1; a remote named origin may already be there.
ShallowFetch ==
  /\ pc = "fetch"
  /\ Goto("checkout") \/ Goto("wipe")
  /\ UNCHANGED <<dirs, user, data, inputs>>

\* A server may answer a fetch by SHA with something else.
ShallowCheckout ==
  /\ pc = "checkout"
  /\ \/ \E c \in Commits : SetTarget("tree", c) /\ Goto("head")
     \/ Goto("wipe") /\ UNCHANGED dirs
  /\ UNCHANGED <<user, data, inputs>>

\* Mutant: the shallow fetch is retried after the wipe.
MutWipe ==
  /\ pc = "wipe"
  /\ Goto("clone")
  /\ SetTarget("absent", "none") \/ UNCHANGED dirs
  /\ UNCHANGED <<user, data, inputs>>

\* rmtree(ignore_errors=True) may leave something.
Wipe ==
  /\ pc = "wipe"
  /\ Goto("full")
  /\ SetTarget("absent", "none") \/ UNCHANGED dirs
  /\ UNCHANGED <<user, data, inputs>>

\* git clone refuses a directory that is not empty, and lands on the default branch.
FullClone ==
  /\ pc = "full"
  /\ \/ /\ Target.files \in {"absent", "empty"}
        /\ \/ \E c \in Commits : SetTarget("tree", c) /\ Goto("pick")
           \/ GitFails /\ (UNCHANGED dirs \/ SetTarget("partial", "none"))
     \/ Target.files \notin {"absent", "empty"} /\ GitFails /\ UNCHANGED dirs
  /\ UNCHANGED <<user, data, inputs>>

\* git checkout of the commit, which the clone may not contain.
FullCheckout ==
  /\ pc = "pick"
  /\ \/ SetTarget("tree", Claim) /\ Goto("head")
     \/ GitFails /\ UNCHANGED dirs
  /\ UNCHANGED <<user, data, inputs>>

CheckHead ==
  /\ pc = "head"
  /\ (AtClaim /\ Goto("extract")) \/ GitFails
  /\ UNCHANGED <<dirs, user, data, inputs>>

\* The bundle's result.json; one that is no result fails with a raw exception.
Extract ==
  /\ pc = "extract"
  /\ Goto("locate") \/ Raise("VerifyError") \/ Raise("raw")
  /\ UNCHANGED <<dirs, user, data, inputs>>

\* The battle's directory in the checkout; reading what is there may fail.
Locate ==
  /\ pc = "locate"
  /\ Goto("commit") \/ Raise("VerifyError") \/ Raise("raw")
  /\ UNCHANGED <<dirs, user, data, inputs>>

CommitMatches ==
  /\ pc = "commit"
  /\ (AtClaim /\ Goto("tolerances")) \/ GitFails
  /\ UNCHANGED <<dirs, user, data, inputs>>

\* What meta.yaml says in the tree as it is now; an edited one says anything.
MetaTolerances == IF Tree = Exact THEN {declared} ELSE Overrides

\* A meta.yaml that cannot be read or parsed fails with a raw exception.
ReadTolerances ==
  /\ pc = "tolerances"
  /\ \/ Goto("run") /\ \E o \in MetaTolerances : tol' = LoadTolerances(o)
     \/ Raise("raw") /\ UNCHANGED tol
  /\ UNCHANGED <<dirs, user, ranAt, verified, report, inputs>>

\* validate_battle holds meta.yaml against the schema's maxima.
Valid(o) == \A m \in DOMAIN o : o[m] <= Default[m]

\* Mutant: the battle is not validated before it runs.
MutRunBattle ==
  /\ pc = "run"
  /\ \/ /\ ranAt' = Tree
        /\ \E K \in IF Tree = Exact THEN {Keys} ELSE SUBSET Keys \ {{}} :
             verified' \in [K -> Results]
        /\ Goto("compare")
     \/ Raise("raw") /\ UNCHANGED <<ranAt, verified>>
  /\ UNCHANGED <<dirs, user, tol, report, inputs>>

\* run_battle validates the battle, then runs it; its RunError is not converted.  An
\* edited battle may have lost some of the pairs.
RunBattle ==
  /\ pc = "run"
  /\ \/ /\ \E o \in MetaTolerances : Valid(o)
        /\ ranAt' = Tree
        /\ \E K \in IF Tree = Exact THEN {Keys} ELSE SUBSET Keys \ {{}} :
             verified' \in [K -> Results]
        /\ Goto("compare")
     \/ Raise("raw") /\ UNCHANGED <<ranAt, verified>>
  /\ UNCHANGED <<dirs, user, tol, report, inputs>>

\* The summary that a bundle's result.json brings along is the one run.py made of its runs.
Verdict ==
  VerdictFromDiffs(CompareSummaries(BuildSummary(claimed), BuildSummary(verified), tol))

\* The comparison; the command line always names an output path.
Compare ==
  /\ pc = "compare"
  /\ Goto("open")
  /\ UNCHANGED <<dirs, user, data, inputs>>

\* write_text truncates ...
OpenReport ==
  /\ pc = "open"
  /\ \/ report' = [kind |-> "torn", attempt |-> attempt, verdict |-> "none"] /\ Goto("write")
     \/ UNCHANGED report /\ Raise("raw")
  /\ UNCHANGED <<dirs, user, tol, ranAt, verified, inputs>>

\* Mutant: an OSError of the write is swallowed.
MutWriteReport ==
  /\ pc = "write"
  /\ \/ UNCHANGED report /\ Return
     \/ /\ Return
        /\ report' = [kind |-> "whole", attempt |-> attempt, verdict |-> Verdict]
  /\ UNCHANGED <<dirs, user, tol, ranAt, verified, inputs>>

\* ... then writes.
WriteReport ==
  /\ pc = "write"
  /\ \/ UNCHANGED report /\ Raise("raw")
     \/ /\ Return
        /\ report' = [kind |-> "whole", attempt |-> attempt, verdict |-> Verdict]
  /\ UNCHANGED <<dirs, user, tol, ranAt, verified, inputs>>

\* TemporaryDirectory.__exit__; its rmtree may itself fail.
Cleanup ==
  /\ pc = "cleanup"
  /\ \/ SetTarget("absent", "none") /\ Goto(IF how = "none" THEN "done" ELSE "failed")
     \/ UNCHANGED dirs /\ Raise("cleanup")
  /\ UNCHANGED <<user, data, inputs>>

\* What a git call that is cut short may leave.
CutShort ==
  \/ UNCHANGED dirs
  \/ pc \in {"init", "checkout", "wipe", "full"} /\ SetTarget("partial", Target.head)

\* KeyboardInterrupt, at most one per invocation.
Interrupt ==
  /\ pc \in Active
  /\ how = "none"
  /\ Raise(IF pc = "cleanup" THEN "cleanup" ELSE "interrupt")
  /\ CutShort
  /\ UNCHANGED <<user, data, inputs>>

\* SIGKILL or power loss.
Crash ==
  /\ pc \in Active
  /\ pc' = "failed"
  /\ how' = "crash"
  /\ CutShort
  /\ UNCHANGED <<attempt, mode, found, user, data, inputs>>

\* The operator works in the checkout that --source names ...
Checkout ==
  /\ user' \in [head : Commits, clean : BOOLEAN]
  /\ UNCHANGED <<control, dirs, data, inputs>>

\* ... and between invocations may clear the --keep-source directory.
Clear ==
  /\ pc \in Idle
  /\ dirs' = [dirs EXCEPT !.keep = Absent]
  /\ UNCHANGED <<control, user, data, inputs>>

\* cli.py: what `bench verify` exits with once it has ended; a traceback is Python's 1,
\* which is also a verdict other than "match".
ExitCode ==
  CASE how = "VerifyError" -> 4
    [] how = "none" -> IF Verdict = "match" THEN 0 ELSE 1
    [] how = "interrupt" -> 130
    [] OTHER -> 1

Acquire ==
  \/ Clone \/ ShallowInit \/ ShallowFetch \/ ShallowCheckout \/ Wipe
  \/ FullClone \/ FullCheckout \/ CheckHead

Pipeline ==
  \/ Dispatch \/ Acquire \/ Extract \/ Locate \/ CommitMatches \/ ReadTolerances
  \/ RunBattle \/ Compare \/ OpenReport \/ WriteReport \/ Cleanup

Next == Start \/ Pipeline \/ Interrupt \/ Crash \/ Checkout \/ Clear

SafetySpec == Init /\ [][Next]_vars

\* Every git call has a timeout, and run_battle ends (RoundEnds of Bench).
Spec == SafetySpec /\ WF_vars(Pipeline)

------------------------------------------------------------------------------
(* Properties                                                              *)

\* verify_bundle's variables keep their types.
TypeOK ==
  /\ pc \in Idle \cup Active
  /\ attempt \in 0 .. MaxAttempts
  /\ mode \in {"source", "keep", "temp", "both"}
  /\ how \in {"none", "VerifyError", "raw", "interrupt", "cleanup", "crash"}
  /\ dirs \in [{"keep", "temp"} -> [files : {"absent", "empty", "partial", "tree"},
                                    head  : Commits \cup {"none"}]]
  /\ found.files \in {"absent", "empty", "partial", "tree"}
  /\ user \in [head : Commits, clean : BOOLEAN]
  /\ DOMAIN Default \subseteq DOMAIN tol
  /\ ranAt \in [head : Commits, clean : BOOLEAN] \cup {NoTree}
  /\ DOMAIN verified \subseteq Keys
  /\ report.kind \in {"none", "torn", "whole"}
  /\ report.attempt \in 0 .. attempt
  /\ report.verdict \in {"none", "match", "mismatch", "incomplete"}

\* A clone is run only at the claimed commit, whichever way it was fetched and whatever
\* the server answered (_auto_clone, _commit_matches).
CloneRunsClaim == mode \in {"keep", "temp"} /\ ranAt # NoTree => ranAt = Exact

\* A clone is judged under tolerances no looser than the defaults: a battle that declares
\* looser ones never yields a verdict, though _load_tolerances itself takes any value.
NeverLoosened ==
  mode \in {"keep", "temp"} /\ pc \in {"compare", "open", "write"} =>
    \A m \in DOMAIN Default : tol[m] <= Default[m]

\* The temporary clone is removed when verify ends, however it ends: only a crash or a
\* failure of the removal itself leaves it behind.
TempRemoved ==
  pc \in Idle /\ mode = "temp" /\ how \notin {"crash", "cleanup"} => dirs.temp = Absent

\* verify never touches a --keep-source directory that held anything when it was invoked,
\* be it what an earlier verify left there.
KeptIsKept ==
  pc \in Active /\ found.files \in {"partial", "tree"} => dirs.keep = found

\* Every invocation ends: no git call can hang it.
VerifyEnds == (pc \in Active) ~> (pc \in {"done", "failed"})

------------------------------------------------------------------------------
(* The verdict, from the iterations alone                                  *)

\* The least measured value that at least p percent of the successful iterations reach.
NearestRank(rs, field, p) ==
  LET ok == Successes(rs)
      Reach(v) == Cardinality({i \in ok : rs[i][field] <= v})
  IN  Min({rs[i][field] : i \in {j \in ok : 100 * Reach(rs[j][field]) >= p * Cardinality(ok)}})

\* verify.py's tolerance contract: abs(verified - claimed) / max(claimed, 1) <= tolerance.
Close(c, v, percent) == 100 * Abs(v - c) <= percent * Max({c, 1})

\* The pair was run again, and what had succeeded did not once.
Vanished(k) ==
  /\ k \in DOMAIN verified
  /\ Successes(claimed[k]) # {}
  /\ Successes(verified[k]) = {}

\* The percentiles of the wall clock that a summary holds.
WallPercent == [wall_clock_ms_p50 |-> 50, wall_clock_ms_p95 |-> 95, wall_clock_ms_p99 |-> 99]

Agree(k) ==
  LET c == claimed[k]
      v == verified[k]
  IN  /\ Cardinality(Successes(c)) = Cardinality(Successes(v))
      /\ Successes(c) # {} =>
           /\ \A m \in DOMAIN WallPercent :
                Close(NearestRank(c, "wall", WallPercent[m]),
                      NearestRank(v, "wall", WallPercent[m]), tol[m])
           /\ Close(NearestRank(c, "rss", 100), NearestRank(v, "rss", 100), tol.peak_rss_mb)
           /\ Close(NearestRank(c, "cpu", 50), NearestRank(v, "cpu", 50), tol.cpu_time_ms_p50)

Reported == report.kind = "whole" /\ report.attempt = attempt

\* The verdict reported is the one that the two sets of iterations call for: "incomplete"
\* exactly if a claimed pair was not run again, else "match" exactly if every pair succeeded
\* equally often and each nearest-rank percentile of its successful iterations is within
\* tolerance, else "mismatch".  A pair that vanished is the exception, for which
\* RefutedIsMismatch says what the documents promise: here its verdict is just no match.
VerdictIsRight ==
  Reported =>
    IF \E k \in Keys : Vanished(k) THEN report.verdict # "match"
    ELSE report.verdict = IF ~(Keys \subseteq DOMAIN verified) THEN "incomplete"
                          ELSE IF \A k \in Keys : Agree(k) THEN "match" ELSE "mismatch"

\* verify.py's docstring: "`success_rate` must match exactly. Different success rates mean
\* the tool behaved differently - the primary signal of refutation."  So where every pair
\* was run again, one that succeeded more or less often makes the verdict "mismatch".
RefutedIsMismatch ==
  /\ Reported
  /\ Keys \subseteq DOMAIN verified
  /\ \E k \in Keys : Cardinality(Successes(claimed[k])) # Cardinality(Successes(verified[k]))
  => report.verdict = "mismatch"

\* `bench verify` exits with 0 only if the report on disk is this invocation's, be it that
\* an earlier one left a report there, says "match", and every claimed pair was run again
\* and agrees: no failure on the way, and no older report, can look like a match.
ExitZeroIsMatch ==
  pc \in {"done", "failed"} /\ how # "crash" /\ ExitCode = 0 =>
    /\ Reported /\ report.verdict = "match"
    /\ ranAt # NoTree
    /\ \A k \in Keys : k \in DOMAIN verified /\ Agree(k)

==============================================================================
