------------------------------ MODULE MCVerify -------------------------------
(* Values of Verify's constants for TLC.                                   *)
EXTENDS Verify

\* From Fast to Slow the wall clock goes 50 percent up, beyond 40, and the memory 30, which is
\* its tolerance; from Slow to Fast they go 33 and 23 percent down, within all tolerances.
Fast == [success |-> TRUE, wall |-> 10, rss |-> 10, cpu |-> 0]
Slow == [success |-> TRUE, wall |-> 15, rss |-> 13, cpu |-> 1]
Failed == [success |-> FALSE, wall |-> 10, rss |-> 10, cpu |-> 10]

\* What two iterations can come to.
Alike == <<Fast, Fast>>
Apart == <<Fast, Slow>>
Lame == <<Fast, Failed>>
Lost == <<Failed, Failed>>

Succeeding == {Alike, Apart, Lost}
Failing == {Alike, Lame, Lost}

TightAndLoose ==
  {[wall_clock_ms_p99 |-> 40, cpu_time_ms_p50 |-> 0], [peak_rss_mb |-> 90]}

==============================================================================
