# krabarena-bench in TLA+

A verification project for the bench-kit (`bench-kit/bench_kit`) and the browsers
battle (`battles/browsers`): TLA+ modules translated from the source, TLC runs over
small instances, and theorems that TLAPS checks for every value of the constants.

    tlc -config Sandbox.cfg Sandbox         # one run; the others are listed below
    tlapm SandboxProofs.tla                 # one module of proofs

## 1. The system

`bench run` executes a battle: it validates it, wipes the results directory, starts the
fixtures with docker compose, runs every (tool, task, iteration) in a container of its
own, tears the fixtures down and writes `result.json`. `bench package` bundles that
result. `bench verify` takes a bundle, obtains the battle's repository at the claimed
commit, runs the battle again and compares the two summaries under tolerances.

| Component | State it keeps | Operations | What is hard | What makes it correct |
|---|---|---|---|---|
| **Sandboxed execution** `exec.py` | a container in the daemon, two threads, a `docker stats` process, the live list of samples | `run_constrained`, `run_task_in_sandbox` | every docker command may fail, time out or be served after the client left; a join with a timeout; an exception between two steps | a success is earned; leaks have a reason; a poller that ended lost no line; everything ends |
| **Orchestrator** `run.py` | the results tree, `result.json`, the compose project | `run_battle` | `finally` around the loops only; a crash in the wipe or the write; HEAD read last | `result.json` belongs to its logs, is never stale, never partial; fixtures go down |
| **Summary and verdict** `run.py`, `verify.py` | none (pure) | `_build_summary`, `_percentile`, `_load_tolerances`, `_compare_summaries`, `_verdict_from_diffs` | nearest rank for few samples, rounding, zero denominators, missing metrics | the verdict is the one the iterations call for, but for finding 5 |
| **Verification** `verify.py` | clone directories, `verify-result.json` | `verify_bundle` in three modes | fallbacks after partial git commands, a server that answers something else, a checkout that moves | a clone runs only at the claim, under tolerances no looser than the defaults; directories are left as promised |
| **Packaging** `package.py` | the bundle file | `package_bundle`, `read_bundle_json` | reads a results tree that another run may rewrite; crash in the write | a bundle holds one round |
| **Validation, lint** `validate.py`, `lint.py` | none (pure) | `validate_battle`, `lint_runners_dir` | one file's trouble must not hide another's, short of an exception; `run.py` reads the files again, and asks for more | what validates can be run, and its services have no way out |
| **Scaffolding** `init.py` | six files | `init_battle` | a write that fails or a crash between two files, then a retry | a scaffold cut short does not pass for a battle |
| **Browser tasks** `harness/drive.js`, `fixtures/app` | the page, the driver's counter | seven tasks | page tasks interleave with driver steps | the output is the fixture's content |
| **Harness main** `harness/drive.js` | `output.json`, the exit code | `main` | a throw between truncation and write; `process.exit` in the catch | a failure leaves its record, a zero is a right value |
| **Selenium runner** `runners/selenium.py` | a session in the grid | create, run, delete in a shell trap | a killed container never runs its trap; pool limit; session timeout | timeouts leave room for the next cell, every cell ends |
| **Command line** `cli.py` | none | a handler per command | a traceback exits with 1 like a failed validation or a mismatch | exit code 0 means what it says |
| `env.py`, `runner_base.py`, schemas, other runners, CI | none | | | |

How they interact: `cli` calls `run_battle`, `package_bundle` and `verify_bundle`.
`verify_bundle` calls `package.read_bundle_json` and `run_battle`. `run_battle` calls
`validate_battle` and each runner; a runner calls `run_task_in_sandbox`, which calls
`run_constrained`. Containers and orchestrator share the iteration's directory
(`output.json` one way, the battle's files the other), the daemon shares containers and
networks with everybody, and successive invocations share the results directory, the
`--keep-source` directory and `verify-result.json`.

## 2. Modules

| Module | Stands for | Proofs in |
|---|---|---|
| `SandboxContract` | what one `run_constrained` promises a runner | |
| `Sandbox` | `run_constrained` with daemon, container, poller, watcher and `docker stats`; implements `SandboxContract` | `SandboxProofs` |
| `Bench` | `run_battle` over successive rounds; one cell's call has the outcomes of `SandboxContract` | `BenchProofs` |
| `Results` | what `run_battle` promises about the results directory; `Bench` implements it | |
| `Bundle` | `package_bundle` and `read_bundle_json`, composed with `Results` | `BundleProofs` |
| `Summary` | the arithmetic, as operators | `SummaryProofs` |
| `Verify` | `verify_bundle` over successive invocations, extends `Summary`; the re-run is one step (what it does is `Bench`) | `VerifyProofs` |
| `MCVerify` | values of `Verify`'s constants for TLC | |
| `Feed` | driver, page and server of the infinite-scroll task | `FeedProofs` |
| `Harness` | one Selenium cell after the other: preflight, `drive.js`'s `main`, the grid's pool, the attach timeout, the gate of `run.py` | `HarnessProofs` |
| `Battle` | what `validate_battle` and `lint_runners_dir` report of a battle and what `run_battle` needs from it, as operators | `AuthorProofs` |
| `Author` | `bench init`, `bench validate` and the loading half of `bench run` on one directory, with an editor; extends `Battle` | `AuthorProofs` |
| `MCAuthor` | values of `Author`'s constants for TLC | |

### Sandbox

`pc` is the calling thread's line. A docker command is a request: `Send(c)` issues it,
a daemon action answers it in `reply`, and the thread goes on with the answer or gives
up waiting. Giving up (`GiveUp`) is what `subprocess.run(timeout=...)` and an exception
do: the CLI process dies, and the request, if unserved, moves to `inflight`, from where
`ServeLate` may still serve it at any later time, or drop it. The daemon never has to
answer; a timeout is always enabled.

| Code | Action |
|---|---|
| `_ensure_image_local` | `CheckImage`, `Inspected`, `Pulled` |
| `_docker_create` | `Created`; a timeout of it, of inspect or of pull is `SetupTimeout`, which escapes the call |
| `poller.start()`, not yet in the `try` | `Launch` |
| `docker start --attach` in the `try` | `Attach`, then `Attached` or `AttachTimeout` and `Killed` |
| `finally`: `stop.set()`; `join(timeout)`; `docker rm -f` | `StopPoller`; `Join`, at any time, whether or not the poller has ended; `Removed` |
| `_summarise_samples` over the live list | `Summarise`, one sample a step |
| `docker stats` writes a line | `StatsWrites`; `written` counts them, `samples` those the poller has read |
| `_poll_stats` | `PollerOpens`, `PollerReads`, `PollerAtEof`, `PollerReaps` |
| `_terminate_when_stopped` | `WatcherFires` |
| KeyboardInterrupt, `OSError` of subprocess | `Interrupt`, at most one, at any step |

Abstracted: the argv (only whether it asks docker to remove the container matters),
stdout and stderr, and what a sample says. An answered create may have printed no id, with
a container made nonetheless. The exit code is `zero`, `nonzero` or `124`.

### Bench

The battle is `Cells` numbered iterations in the order of the nested loops; `Gated` are
the ones whose task has an `expected`. `logs[c]` is the round whose `log.jsonl` is on
disk for cell `c`, `result` what `result.json` holds (`none`, `torn` between truncation
and write, or `whole`). `Raise` sends an exception inside the `try` through compose down
(`Protected`), any other one straight out. `Wipe` is `shutil.rmtree`, one entry a step.
The operator edits files or checks out commits at any time (`Edit`, `Checkout`), and
`seen` collects the trees that the round read. An interrupt may hit while an error
unwinds. A stray container on the fixture network is what `Sandbox` shows can be left
behind; it makes compose down fail. One invocation runs at a time.

`Results` is the abstract specification of the directory: wiped entry by entry, filled
in order, published last, ended early anywhere. `ImplementsResults` checks that `Bench`
implements it; `ResultsPhase` maps the steps up to the wipe to "wipe" and the ones from
compose up to `ReadHead` to "fill".

### Bundle

`Bundle` extends `Results`, so `bench run` (`Rerun`) goes on while `bench package` and
the two reads of `bench verify` proceed. The packager parses and checks `result.json`
(`Load`), truncates the output and writes `meta.json` from what it parsed (`OpenBundle`),
reads `result.json` again as bytes (`AddResult`), lists the runs tree (`ListRuns`) and
adds file after file (`AddRun`). An exception inside the `with` closes the gzip layer as
usual (`Abort`), so what it leaves is readable; a kill leaves a stream without its end.
`settled` and `fresh` are history: the directory was whole when the packaging that wrote
the bundle began and did not change while it lasted; the bundle is still the one that
`meta.json` was read from.

### Summary and Verify

`Summary` works on integers: rates in ten-thousandths, tolerances in percent. The code
divides doubles and compares with a two-digit literal, which gives the same answer as the
products of integers, since both sides are correctly rounded. `Verify` has one action for
each step of the pipeline. Every git command may fail and leave a part (`partial`), a
fetch by SHA may land on any commit, `rmtree(ignore_errors=True)` may leave something,
and a raw exception (one that is no `VerifyError`) may come from the bundle, from the
re-run or from the write. The bundle's own iterations are `claimed`; the verifier's are
chosen by `RunBattle`. The summary compared on the bundle's side is the one that `run.py`
computes from its iterations: `verify.py` takes the `summary` block as it is given, and
one that does not fit its own iterations is not met. An edited tree may declare any
tolerances, but the re-run's validation refuses the ones above the schema's maxima.
`ExitCode` is what `cli.py` makes of the end: a traceback exits with Python's 1.

### Feed

The driver's click, wait and harvest are separate steps; the page's tasks run between
them, one at a time: a click handler, a scroll handler at any moment, the continuation
of a fetch. A rejected fetch leaves the `loading` flag set. Items are their `data-id`.

### Harness

`pc` is where the cell is: in the shell (`post`, `parse`), in node (`args` to `caught`),
in the EXIT trap (`delete`), over (`gate`, `recorded`). Time is a clock: `Tick` ages the
cell and every session, and may not pass a running cell's timeout.

| Code | Action |
|---|---|
| `SeleniumRunner.run`, one call an iteration | `Start`; `json.dumps` of a YAML date raises and ends the bench |
| `curl -X POST` under `set -e` | `Grant` (the grid) or `PostFails`; it has no timeout of its own |
| parsing `se:cdp` | `Parse`; a failure ends the shell before the trap is set |
| `main` | `Args`, `Handle`, `Write` and `Written` (truncate, write), `Compare`; `Catch` and `Caught` write the record of the failure |
| the trap | `Delete` |
| attach timeout, attach error, `docker rm -f` | `TimesOut`, `AttachFails` |
| `run_task_in_sandbox`, `_final_success` | `Gate` |

The grid is external, modelled from what `compose.yml` asks of it: a slot for each of
`MaxSessions` sessions, an unused session gone after at most `Reap` ticks (the timeout
and a pass of the grid's reaper), a request whose client went away may still be served
(`ghosts`). `expected` and `got` are one key's value, with the values that tell
JavaScript's `isDeepStrictEqual` from Python's `==` (1 and true), JSON from both
(`undefined`, NaN) and YAML from JSON (a date). Containers that outlive their call
(`Sandbox`) are left out here: `Kill` is a kill and rm that docker answers, and a cell's
container is gone when the cell is over. Where the best-effort kill or rm fails
(`exec.py:338-346`), the container goes on using its session; nothing is claimed of that.

### Battle and Author

A file is a record: how far it can be read (`kind`), and the fields that validator and
orchestrator look at, abstracted to what they tell apart. One file stands for the tasks
and one for the runners; a schema's value patterns are one flag (`rest`); `internal` is
its truth value. The linter's walks over syntax trees are abstracted to whether they meet
a forbidden import or call. Issues are the set of their `BK` codes. `Raw` says when an
exception leaves `validate_battle`. Networks and services whose name PyYAML does not read
as a string (`NonStrings`) are skipped by the validator (`validate.py:312`, `347`) but not
by `_discover_internal_network`, and docker compose may bring them up.

`Author` has an action for each step that reads or writes the directory: `OpenFile` and
`WriteFile` truncate and write one file of the scaffold, `Validate` is `bench validate`,
`StartRun`, `LoadBattle`, `ComposeUp` and `DiscoverNetwork` are the four times that
`bench run` reads the files. `Edit` puts any of `Contents` into a file at any time, so
also between those reads; `Crash` kills the process. What follows is `Bench`.

## 3. Runs

| Run | Instance | Shows |
|---|---|---|
| `sandbox` | two samples | `SuccessIsEarned`, `LeakIsExplained`, `NoLineIsLost`, `CallEnds`, `PollerEnds`, `ImplementsContract` |
| `sandbox_stray` | | **violated** `StrayIsReaped` (finding 1) |
| `bench` | two cells, one gated; two rounds | `ResultMatchesLogs`, `NoStaleResult`, `FixturesAccounted`, `ImplementsResults`, `AllOrNothing`, `TeardownFollows`, `RoundEnds` |
| `bench_commit` | two commits, one cell, one round | **violated** `CommitIsUsed` (finding 2) |
| `bench_output` | | **violated** `IterationNeverRaises` (finding 3) |
| `bundle` | two cells, two rounds, two packagings | `ClaimIsOneRound`, `MetaNamesACommit` |
| `bundle_torn` | | **violated** `ReaderNeverRaw` (finding 4) |
| `verify` | two pairs, two commits, four ways to invoke, two invocations | `CloneRunsClaim`, `NeverLoosened`, `TempRemoved`, `KeptIsKept`, `ExitZeroIsMatch`, `VerdictIsRight`, `VerifyEnds` |
| `verdict_refuted` | one pair, two iterations on each side | **violated** `RefutedIsMismatch` (finding 5) |
| `browser` | five slots, ticks of 15 s: a task of 30 s, sessions gone after 45 s | `TimeoutsLeaveRoom`, `SuccessIsRight`, `DiagnosticLeft`, `CellEnds` |
| `author` | an empty, missing or blocked directory, two edits out of some 70 file contents | `ValidatedRuns`, `HidesNothing`, `ScaffoldJudged` |
| `feed` | 200 items in batches of 20: the real sizes | `HarvestIsFeed`, `NoStall`, `HarvestEnds` |

Each passing run also checks its module's `TypeOK`. Every property has a mutant of a
definition (the operators `Mut...`) that makes TLC find it violated.

Bounds, and why they are enough:

- `MaxSamples = 2` bounds the lines docker stats writes in one call. Two are needed for
  a line that is read during the summary after one that was read before. The proofs
  hold for any bound. At most one exception hits a call.
- `MaxRounds = 2`: every property of `Bench` relates a round to what the one before left.
  `MaxPackages = 2`: a bundle written over an earlier one. `Cells = 2` gives a first and
  a last cell, a gated and an ungated one.
- `MaxEdits = 2` breaks two files, or one and then repairs it; every property of `Author`
  is about one file beside another, or a file before and after. The contents change one
  field of a template at a time (compose: networks and one service); `AuthorProofs` has
  the three properties for any contents.
- `MaxSessions = 5` and the 15-second tick are the values of `compose.yml` (30 s, plus a
  pass of the reaper) and of the shortest task; `TimeoutsLeaveRoom` is then "at most two
  slots of five". `MaxGhosts = 1` is one request that outlives its client.
- `MaxAttempts = 2`: the second invocation meets the first one's directory and report.
- `Results` of the `verify` run are two iterations that are alike (`Fast` twice), that
  differ (`Fast` and `Slow`), or that both failed. From the first to the second p95 of the
  wall clock goes up by 50 %, beyond its 40 % and on the boundary of p99, and the peak of
  memory by 30 %, on its boundary; the way back is within all defaults. p50 is the lesser
  of two values, so it tells the two apart only if its rank is off by one; the CPU's is
  then 0 in the claim, which has no denominator. Declared tolerances are tighter or looser
  than the defaults. For other numbers of iterations `SummaryProofs` has the percentiles,
  and `VerdictsAreRight` the verdict, up to the schema's 50.

Deadlock checking is off where the system stops by design (a call that has returned, the
driver that is done, a bench that an exception ended); `bench`, `verify` and `author`
always have an operator who can act.

Fairness. `Sandbox!Spec`: the calling thread, the poller and the watcher run (threads
of a live process), the client's timeouts expire (part of the client's own step), and
`docker stats` dies of SIGTERM, or of the SIGKILL that follows. The daemon and the
contained process owe nothing. `ServingSpec`, used only to refute `StrayIsReaped`, adds
a daemon that serves and a process that ends, so that the counterexample is not mere
inaction. `Bench!Spec` and `Verify!Spec`: the process runs; every docker and git call it
waits for has a timeout. `Feed!Spec`: the driver runs and the server answers.
`Harness!Spec`: time passes, the attach times out and `run.py` goes on; the grid, the shell
and node owe nothing, so `CellEnds` does not need a session to be granted.

## 4. Findings

1. **No `--rm`.** `exec.py:334-336` and `246-250` say that the daemon reaps a container
   left by a failed cleanup, since it was created with `--rm`; `_build_create_argv` has
   no such flag.
2. **`battle_commit` is read last.** A checkout or edit during the bench makes it name a
   state that did not produce the result (`run.py:120`, `result.schema.json:38`).
3. **A non-UTF-8 `output.json` ends the bench** (`run.py:410`), against `RunError`'s
   promise that per-iteration failures never raise.
4. **A truncated bundle raises `EOFError`** (`package.py:242-256`), although the
   docstring at `218-221` says that every reasonable failure becomes a `PackageError`.

5. **A tool that stops succeeding is not refuted.** Its percentiles are missing, missing
   values come first, and the verdict is `incomplete` (`verify.py:503`). `verify.py:32-33`
   ("Different success rates mean the tool behaved differently - the primary signal of
   refutation"), `SPEC.md:278-280` and `docs/REPRODUCIBILITY.md:82-84` ("Otherwise:
   `mismatch`") promise a mismatch. `VerdictIsRight` names the case as its exception.

Seen on the way, and in the models, without a run of its own:

- An exception between `poller.start()` and the `try`, or in the `finally` before
  `stop.set()`, leaves poller, watcher and `docker stats` behind (`exec.py:148-152`, `171`):
  the exception of `PollerEnds`.
- A service whose name PyYAML reads as something else than a string (a number, a bare
  `on`) is validated by nothing (`validate.py:312`); what becomes of it is docker compose's
  affair. `ValidatedRuns` names it as its exception.
- `--source` is checked once and only by HEAD (`verify.py:402-410`): a dirty or moving
  checkout is run.
- `validate_battle` raises on a file that is not UTF-8 and on `fixtures` that is no
  mapping (`validate.py:67`), where `42-44` says that it collects everything: such a file
  hides every issue of all others. `HidesNothing` names these contents as the one
  exception and says that they always raise. (A `meta.yaml` that is missing or no mapping
  hides nothing: the default paths are used.)
- A directory without tasks or without runners validates and then fails in `bench run`.
- An uncaught exception exits with 1, the code of a failed validation and of a verdict
  other than `match`.
- `init.py:3-5` declines to write outside the working directory; `--out` names any.
- `selenium.py:73-76` always releases the session; a killed container, and an answer that
  cannot be parsed, leave it to the grid's timeout.
- A YAML date in `expected` makes `json.dumps` raise in the runner and ends the bench.
- A packaging that fails while it adds the logs leaves a readable bundle without some of
  them at the output path, of one round nonetheless (`ClaimIsOneRound`).

## 5. Theorems

All are checked by TLAPS to the last leaf. Together they state every invariant and every
action property that a passing run checks, and the safety of both refinements.

**SandboxProofs.** `TypeCorrect`; from it and six further conjuncts the inductive
invariant `IInv` (`Invariance`), which says: how the process ended agrees with the
container's state (`ProcessPart`); what is in flight was given up on (`InflightPart`);
before the create is answered nothing exists and nothing but the setup was given up on
(`SetupPart`); an `ok` of docker rm means that the container is gone (`ReleasePart`);
the exit code is that of the process (`ExitPart`). `SuccessIsEarned` and
`LeakIsExplained` are not inductive alone: a late `create` or `kill` may still be served
after the call ended, and one must know which commands can be in flight.
`SuccessEarned`, `LeaksExplained` and `Refinement` (the safety part of
`ImplementsContract`) follow. `LinesKept` (`NoLineIsLost`) has an invariant of its own,
`PipePart`: the poller leaves its loop only with the last line read and `docker stats` dead,
and a loop over a live list ends only where the list does. No constant is assumed to be
more than `SamplesAssumption` says.

**BenchProofs.** For any cells, gates, commits and rounds. `Control`: where the round is
fixes the cell, and an exception is in flight only in `finally`. `Directories`: from the
end of the wipe to the end of the round `result.json` is absent, or torn while it is
written, and the logs of exactly the cells before the current one are this round's. A
half-wiped directory is then one of a round that failed, its wipe took logs away and
brought none, so `ResultsMatch`, `NeverStale` and `PublishesAll` follow; `FixturesHold`
needs that later rounds' fixtures are not up yet (`Fixtures`). `KeepsThePromise` proves
`ImplementsResults`, each step of `run_battle` being a step of `Results` or a stutter.
That is what justifies `Bundle`, where `Results` stands for `bench run`.

**BundleProofs.** For any number of cells, rounds and packagings. `DirectoryInv` is the
promise of `Results`: a whole `result.json` lies beside the complete logs of its round.
`Faithful` follows the packager through a directory that nothing touches, member by
member: what it holds and has written is what is there. `OneRound` is what the bundle then
is, and `ReaderInv` carries it over to the claim: `ClaimsHold`, `CommitNamed`. The wipe
takes the logs in order; that the next one to go exists is a least-number argument
(`LeastExists`), by the library's well-founded induction on the naturals.

**SummaryProofs.** `RankIsNearest`: `_percentile`'s rank is the least that p percent of
the samples do not exceed, and the clamp to the last index never acts. `OrderExists`: a
finite family can be sorted (its i-th member goes where counting the ones below it says),
hence `Sorted` yields its values in ascending order (`SortedOrders`).
`PercentileIsNearest`: the percentile read off it is the least value that p percent of the
family do not exceed; `GreatestIsNearest` for the peak; `PercentilesOrdered`: p50 <= p95
<= p99. `RateInjective`: up to the schema's 50 iterations, rates rounded to four digits
are equal only for equal counts. `TighteningIsSound`: what matches under tighter
tolerances matches under looser ones. `SelfMatch`: a summary matches itself.
`SummaryTyped`: the summaries that run.py builds are ones these two speak of.
`MatchCountsSuccesses`: a match means equally many successes.

**VerifyProofs.** For any pairs, up to 50 iterations, any measurements, commits and
declared tolerances, and any number of invocations. Control: past the check of HEAD a
clone is at the claimed commit (`AtHead`), its tolerances are those of its `meta.yaml`,
which the re-run has validated (`Judged`), and past the dispatch a `--keep-source`
directory held nothing or is not written (`Keeping`); hence `ClonesRunTheClaim`,
`TolerancesHold`, `ClonesAreRemoved`, `KeptHolds`. Verdict: each metric of a row is the
nearest rank of the successful iterations (`RowIsNearest`); a diff misses its value
exactly if the pair is lost (`PairLost`: it was not run again, or never succeeds), and a
pair that is not lost is within tolerance exactly if it agrees (`PairAgrees`, with
`RateInjective` for the rates). So the computed verdict is the one of the contract
(`VerdictIsTheirs`). A report of this invocation exists only once written, and its
verdict still fits the iterations and tolerances (`ReportFits`): `VerdictsAreRight`, and
with `ExitZeroReports` also `ExitZeroMatches`. Assumed: `VerifyAssumption`, where
`"none"`, the head of a directory without a commit, is no commit.

**FeedProofs.** For every feed that is a whole number of batches, `HarvestCorrect` and
`WaitsAreServed`. Invariant: the list is the feed's first `offset` items; `offset` and
the driver's `current` are batch boundaries with `current <= offset`; a fetch in flight
is for `offset` and exists exactly while `loading`, unless one was rejected. Two
boundaries that differ do so by a batch (`Gap`), hence a driver that waits at
`current < offset` is already served, and one at `current = offset` has a fetch on its
way. `FeedAssumption` (`Total % Batch = 0`, `Target = Total`) is what the values of
`server.js`, `feed.html` and `infinite-scroll.yaml` satisfy; without it the driver would
wait for a batch that never fills.

**AuthorProofs.** `ComposeContained`: none of the services that the validator looks at in
a compose file without issues has a way out, and where there is one there is an internal
network to be found. From it `ValidatedBattlesRun`
(`ValidatedRuns`), with the invariant `Judged`: until the author edits, the battle that
`run_battle` works on has no issues, `meta` is the `meta.yaml` on disk and `came` its
compose file. `NothingHidden` (`HidesNothing`): the report is that of the battle as it is,
raised or returned (`Current`), it is raised just for the contents that the property names
(`RaisingIsRaw`), and `IssuesStay` compares it file by file with the scaffold, whose templates
have no issues (`TemplatesClean`). `ScaffoldsJudged` (`ScaffoldJudged`): without edits,
the files before the one being written are templates and the later ones are missing
(`Prefix`), and the validator passes such a directory just if none is missing
(`CompleteIsClean`, `CleanIsComplete`). `TypeCorrect` carries the kinds of the files.
`AuthorAssumption` says only that contents are of those kinds.

**HarnessProofs.** For every pool, timeout and queue. `SuccessesAreRight` and
`FailuresAreRecorded`: an exit code of zero means that node compared the value it wrote
(`Gated`); what reaches the trap from the try block wrote a record or met a failing write
(`Recorded`). `TypeCorrect` has the grid's limit, sessions in use never exceeding the
pool, by counting sessions as pairs of a lease and a number (`OneMore`, `TickOlder`).
`RoomIsLeft` (`TimeoutsLeaveRoom`) needs more than the number of sessions: cells time out
at least `Timeout` ticks apart, so the sessions with m ticks or more to live date from the
last `Reap - m` ticks (`Spaced`).

Only model-checked is liveness (`CallEnds`, `PollerEnds`, `TeardownFollows`, `RoundEnds`,
`VerifyEnds`, `HarvestEnds`, `CellEnds` and the liveness half of `ImplementsContract`),
which needs fairness and ENABLED. What the proofs do not reach is that a doubles quotient
compares as the products of integers do (§2): it is part of the translation.

## 6. Not modelled

- The walks of `lint.py` over syntax trees: their input is Python's grammar. `env.py`,
  `runner_base.py` and the argument parsing of `cli.py`: no state. CI workflows, images
  and nginx: configuration of other programs.
- The other runners (browserless, headless-shell, lightpanda): one call of
  `run_task_in_sandbox` with constant arguments and no session to give back.
- Two `bench run` at once on one directory: nothing in the code excludes it, nothing is
  promised about it.
- `run_task_in_sandbox`'s mounts, and the parsing of docker's figures.
- The steps of the other browser tasks: straight-line scripts; their results are a choice
  in `Harness`.

## 7. Plan

Done, in this order: `Sandbox` with its contract and proofs, `Bench`, `Summary` with its
proofs, `Verify`, `Feed` with its proofs, `Results` and `Bundle`, `Harness`, `Battle` and
`Author` with their proofs, then the proofs of `Bench`, `Bundle`, `Verify` and of the rest
of `Harness`, `Author` and `Sandbox`. Next:

1. `Bench` composed with the packager itself, so that `ClaimIsOneRound` is stated of
   `run_battle` and not of what `Results` says of it.
2. Weaker assumptions where a proof does not use one, and shorter proofs where two
   components share an argument.
