------------------------------- MODULE Summary -------------------------------
(***************************************************************************)
(* The arithmetic of bench_kit: how run.py aggregates the iterations of a  *)
(* (tool, task) pair into a summary row, and how verify.py compares two    *)
(* summaries and reaches a verdict.                                        *)
(*                                                                         *)
(* Tolerances are whole percents.  The code divides doubles; a quotient of *)
(* two integers compares with a two-digit literal exactly as the products  *)
(* below do, because both are rounded to the nearest double.               *)
(***************************************************************************)
EXTENDS Integers, Sequences, FiniteSetsExt, Functions

\* dict.get of an absent key; no metric is negative.
None == -1

\* The default tolerances: each `maximum` of meta.schema.json; no row has a throughput.
Default ==
  [success_rate      |-> 0,  wall_clock_ms_p50 |-> 30, wall_clock_ms_p95 |-> 40,
   wall_clock_ms_p99 |-> 50, peak_rss_mb       |-> 30, cpu_time_ms_p50   |-> 30,
   throughput        |-> 30]

------------------------------------------------------------------------------
(* run.py: the summary                                                     *)

\* 1-based rank of the p-th percentile of n samples.
Rank(n, p) == Max({1, (p * n + 99) \div 100})

\* Mutant: the rank is rounded down.
MutPercentile(sorted, p) ==
  sorted[Min({Max({1, (p * Len(sorted)) \div 100}), Len(sorted)})]

\* Never called with an empty sequence: the metrics are guarded by `if wall`.
Percentile(sorted, p) == sorted[Min({Rank(Len(sorted), p), Len(sorted)})]

\* round(s / n, 4), in ten-thousandths; ties go to the even neighbour.
Rate(s, n) ==
  LET q == (10000 * s) \div n
      r == (10000 * s) % n
  IN  IF 2 * r > n \/ (2 * r = n /\ q % 2 = 1) THEN q + 1 ELSE q

\* The values of a finite family in ascending order.
Sorted(f) ==
  LET n == Cardinality(DOMAIN f)
      order == CHOOSE q \in Bijection(1 .. n, DOMAIN f) :
                 \A i, j \in 1 .. n : i <= j => f[q[i]] <= f[q[j]]
  IN  [i \in 1 .. n |-> f[order[i]]]

\* The iterations that succeeded.
Successes(rs) == {i \in DOMAIN rs : rs[i].success}

\* What the successful iterations measured.
Column(rs, field) == [i \in Successes(rs) |-> rs[i][field]]

\* The metrics of one (tool, task) pair: one without a successful iteration has a
\* success rate and nothing else.
Row(rs) ==
  LET rate == Rate(Cardinality(Successes(rs)), Len(rs))
      wall == Sorted(Column(rs, "wall"))
  IN  IF Successes(rs) = {} THEN [success_rate |-> rate]
      ELSE [success_rate      |-> rate,
            wall_clock_ms_p50 |-> Percentile(wall, 50),
            wall_clock_ms_p95 |-> Percentile(wall, 95),
            wall_clock_ms_p99 |-> Percentile(wall, 99),
            peak_rss_mb       |-> Max(Range(Column(rs, "rss"))),
            cpu_time_ms_p50   |-> Percentile(Sorted(Column(rs, "cpu")), 50)]

\* runs: a function from the (tool, task) pairs to the sequence of their iterations.
BuildSummary(runs) == [k \in DOMAIN runs |-> Row(runs[k])]

------------------------------------------------------------------------------
(* verify.py: the comparison                                               *)

Get(f, x, default) == IF x \in DOMAIN f THEN f[x] ELSE default

\* Mutant: the defaults are lost when the battle declares tolerances.
MutLoadTolerances(overrides) == overrides

\* The battle's overrides replace the defaults, whatever their value: it is the
\* validation of meta.yaml that bounds them.
LoadTolerances(overrides) ==
  [m \in DOMAIN Default \cup DOMAIN overrides |->
     IF m \in DOMAIN overrides THEN overrides[m] ELSE Default[m]]

Abs(i) == IF i < 0 THEN -i ELSE i

\* A zero claim is compared as if it were one.
Denominator(claimed) == IF claimed = 0 THEN 1 ELSE Abs(claimed)

Within(metric, claimed, verified, tolerance) ==
  /\ verified # None
  /\ IF metric = "success_rate"
     THEN claimed = verified
     ELSE 100 * Abs(verified - claimed) <= tolerance * Denominator(claimed)

\* One diff per claimed metric of a pair; what only the verifier measured is not compared.
RowDiffs(k, claimed, verified, tolerances) ==
  {[key      |-> k,
    metric   |-> m,
    verified |-> Get(verified, m, None),
    within   |-> Within(m, claimed[m], Get(verified, m, None), Get(tolerances, m, 0))] :
     m \in DOMAIN claimed}

CompareSummaries(claimed, verified, tolerances) ==
  UNION {RowDiffs(k, claimed[k], Get(verified, k, <<>>), tolerances) : k \in DOMAIN claimed}

\* A missing value makes the verification incomplete, before any tolerance is looked at.
VerdictFromDiffs(diffs) ==
  IF diffs = {} \/ \E d \in diffs : d.verified = None THEN "incomplete"
  ELSE IF \A d \in diffs : d.within THEN "match"
  ELSE "mismatch"

==============================================================================
