----------------------------- MODULE HarnessProofs -----------------------------
(***************************************************************************)
(* What a browser cell records and what the sessions of timed out cells    *)
(* hold, for every pool, lease, timeout and queue.                         *)
(***************************************************************************)
EXTENDS Harness, FiniteSetTheorems, TLAPS

\* Where node has compared, output.json is the handler's; a cell that ended with zero did so
\* because nothing differed.
Gated ==
  /\ expected \in Wanted
  /\ got \in Returned
  /\ pc \in Shell \cup Node => exit = "none"
  /\ pc = "compare" => output = "handler"
  /\ exit = "zero" => output = "handler" /\ ~Mismatch
  /\ pc = "recorded" => (success <=> exit = "zero")

\* `try` is marked once node has got there; what reaches the end from there left a record.
Recorded ==
  /\ pc \in {"post", "parse", "args"} => marks = {}
  /\ pc = "compare" => output = "handler"
  /\ DiagnosticLeft

LEMMA GatedInit == Init => Gated
PROOF
  BY DEF Init, Gated, Wanted, Returned, Shell, Node

LEMMA RecordedInit == Init => Recorded
PROOF
  BY DEF Init, Recorded, DiagnosticLeft

\* The value run.py reads back is the one the handler returned, if nothing differed.
LEMMA GatesAgree ==
  ASSUME expected \in Wanted, got \in Returned, output = "handler", ~Mismatch
  PROVE  expected = "none" \/ InFile = "absent" \/ PyEqual(InFile, expected)
PROOF
  BY DEF Mismatch, InFile, PyEqual, Wanted, Returned

LEMMA GatedStep == Gated /\ [Next]_vars => Gated'
PROOF
  <1> SUFFICES ASSUME Gated, [Next]_vars
               PROVE  Gated'
    OBVIOUS
  <1> USE DEF Gated, Shell, Node, Mismatch, nodeVars, gridVars
  <1>1. CASE Start
    BY <1>1 DEF Start, Returned
  <1>2. CASE PostFails
    BY <1>2 DEF PostFails, Over
  <1>3. CASE Parse
    BY <1>3 DEF Parse, Over, Orphan
  <1>4. CASE Delete
    BY <1>4 DEF Delete
  <1>5. CASE Args
    BY <1>5 DEF Args, Exit
  <1>6. CASE Handle
    BY <1>6 DEF Handle, Fail
  <1>7. CASE Write
    BY <1>7 DEF Write, Fail
  <1>8. CASE Written
    BY <1>8 DEF Written, Fail
  <1>9. CASE Compare
    BY <1>9 DEF Compare, Exit
  <1>10. CASE Catch
    BY <1>10 DEF Catch, Exit
  <1>11. CASE Caught
    BY <1>11 DEF Caught, Exit
  <1>12. CASE TimesOut
    BY <1>12 DEF TimesOut, Kill
  <1>13. CASE AttachFails
    BY <1>13 DEF AttachFails, Kill
  <1>14. CASE Gate
    <2>1. exit = "zero" => success'
      BY <1>14, GatesAgree DEF Gate
    <2>2. success' => exit = "zero"
      BY <1>14 DEF Gate
    <2> QED
      BY <1>14, <2>1, <2>2 DEF Gate
  <1>15. CASE Grid
    BY <1>15 DEF Grid, Grant, GrantGhost, Refresh
  <1>16. CASE Tick
    BY <1>16 DEF Tick
  <1>17. CASE UNCHANGED vars
    BY <1>17 DEF vars
  <1> QED
    BY <1>1, <1>2, <1>3, <1>4, <1>5, <1>6, <1>7, <1>8, <1>9, <1>10, <1>11, <1>12, <1>13,
       <1>14, <1>15, <1>16, <1>17 DEF Next, Preflight, Drive

LEMMA RecordedStep == Recorded /\ [Next]_vars => Recorded'
PROOF
  <1> SUFFICES ASSUME Recorded, [Next]_vars
               PROVE  Recorded'
    OBVIOUS
  <1> USE DEF Recorded, DiagnosticLeft, nodeVars, gridVars
  <1>1. CASE Start
    BY <1>1 DEF Start
  <1>2. CASE PostFails
    BY <1>2 DEF PostFails, Over
  <1>3. CASE Parse
    BY <1>3 DEF Parse, Over, Orphan
  <1>4. CASE Delete
    BY <1>4 DEF Delete
  <1>5. CASE Args
    BY <1>5 DEF Args, Exit
  <1>6. CASE Handle
    BY <1>6 DEF Handle, Fail
  <1>7. CASE Write
    BY <1>7 DEF Write, Fail
  <1>8. CASE Written
    BY <1>8 DEF Written, Fail
  <1>9. CASE Compare
    BY <1>9 DEF Compare, Exit
  <1>10. CASE Catch
    BY <1>10 DEF Catch, Exit
  <1>11. CASE Caught
    BY <1>11 DEF Caught, Exit
  <1>12. CASE TimesOut
    BY <1>12 DEF TimesOut, Kill
  <1>13. CASE AttachFails
    BY <1>13 DEF AttachFails, Kill
  <1>14. CASE Gate
    BY <1>14 DEF Gate
  <1>15. CASE Grid
    BY <1>15 DEF Grid, Grant, GrantGhost, Refresh
  <1>16. CASE Tick
    BY <1>16 DEF Tick
  <1>17. CASE UNCHANGED vars
    BY <1>17 DEF vars
  <1> QED
    BY <1>1, <1>2, <1>3, <1>4, <1>5, <1>6, <1>7, <1>8, <1>9, <1>10, <1>11, <1>12, <1>13,
       <1>14, <1>15, <1>16, <1>17 DEF Next, Preflight, Drive

\* run.py's comparison with `expected` never overturns drive.js's, and a recorded success is
\* the handler's right value in output.json, whatever the timeouts and the pool do.
THEOREM SuccessesAreRight == Spec => []SuccessIsRight
PROOF
  <1>1. Gated => SuccessIsRight
    BY DEF Gated, SuccessIsRight, Mismatch, Right
  <1> QED
    BY GatedInit, GatedStep, <1>1, PTL DEF Spec

\* drive.js leaves a whole record of a failure in its try block before process.exit, unless
\* a write failed.
THEOREM FailuresAreRecorded == Spec => []DiagnosticLeft
PROOF
  <1>1. Recorded => DiagnosticLeft
    BY DEF Recorded
  <1> QED
    BY RecordedInit, RecordedStep, <1>1, PTL DEF Spec

------------------------------------------------------------------------------
(* Counting the sessions of dead containers                                *)

\* The orphans that o counts, with a lease in S, numbered: Held(S) is their number.
Numbered(o, S) == UNION {{l} \X (1 .. o[l]) : l \in S}

LEMMA LeasesFinite == IsFiniteSet(Leases)
PROOF
  <1>1. IsFiniteSet({"timeout", "other"})
    <2>1. IsFiniteSet({"timeout"} \cup {"other"})
      BY FS_Singleton, FS_AddElement
    <2>2. {"timeout"} \cup {"other"} = {"timeout", "other"}
      OBVIOUS
    <2> QED
      BY <2>1, <2>2
  <1>2. IsFiniteSet(1 .. Reap)
    BY HarnessAssumption, FS_Interval
  <1> QED
    BY <1>1, <1>2, FS_Product DEF Leases

\* No kind of orphan is counted beyond N, so there are finitely many.
LEMMA NumberedFinite ==
  ASSUME NEW N \in Nat, NEW o \in [Leases -> 0 .. N], NEW S \in SUBSET Leases
  PROVE  IsFiniteSet(Numbered(o, S)) /\ Cardinality(Numbered(o, S)) \in Nat
PROOF
  <1>1. IsFiniteSet(Leases \X (1 .. N))
    <2>1. IsFiniteSet(1 .. N)
      BY FS_Interval
    <2> QED
      BY <2>1, LeasesFinite, FS_Product
  <1>2. Numbered(o, S) \subseteq Leases \X (1 .. N)
    <2> SUFFICES ASSUME NEW l \in S, NEW i \in 1 .. o[l]
                 PROVE  l \in Leases /\ i \in 1 .. N
      BY DEF Numbered
    <2>1. o[l] \in 0 .. N
      OBVIOUS
    <2> QED
      BY <2>1
  <1> QED
    BY <1>1, <1>2, FS_Subset, FS_CardinalityType

\* An orphan more counts once wherever its lease is counted.
LEMMA OneMore ==
  ASSUME NEW N \in Nat, NEW o \in [Leases -> 0 .. N], NEW S \in SUBSET Leases,
         NEW l \in Leases
  PROVE  Cardinality(Numbered([o EXCEPT ![l] = @ + 1], S)) =
           Cardinality(Numbered(o, S)) + (IF l \in S THEN 1 ELSE 0)
PROOF
  <1> DEFINE p == [o EXCEPT ![l] = @ + 1]
             x == <<l, o[l] + 1>>
  <1>1. \A k \in Leases : o[k] \in Nat
    OBVIOUS
  <1>2. \A k \in S : k # l => p[k] = o[k]
    OBVIOUS
  <1>3. CASE l \notin S
    <2>1. Numbered(p, S) = Numbered(o, S)
      BY <1>2, <1>3 DEF Numbered
    <2>2. Cardinality(Numbered(o, S)) \in Nat
      BY NumberedFinite
    <2> QED
      BY <1>3, <2>1, <2>2
  <1>4. CASE l \in S
    <2>1. p[l] = o[l] + 1 /\ 1 .. p[l] = (1 .. o[l]) \cup {o[l] + 1}
      BY <1>1
    <2>2. Numbered(p, S) = Numbered(o, S) \cup {x}
      <3>1. ASSUME NEW k \in S, NEW i \in 1 .. p[k]
            PROVE  <<k, i>> \in Numbered(o, S) \cup {x}
        BY <1>2, <2>1 DEF Numbered
      <3>2. ASSUME NEW k \in S, NEW i \in 1 .. o[k]
            PROVE  <<k, i>> \in Numbered(p, S)
        <4>1. i \in 1 .. p[k]
          BY <1>2, <2>1
        <4> QED
          BY <4>1 DEF Numbered
      <3>3. x \in Numbered(p, S)
        <4>1. o[l] + 1 \in 1 .. p[l]
          BY <2>1
        <4> QED
          BY <1>4, <4>1 DEF Numbered
      <3>4. Numbered(p, S) \subseteq Numbered(o, S) \cup {x}
        BY <3>1 DEF Numbered
      <3>5. Numbered(o, S) \subseteq Numbered(p, S)
        BY <3>2 DEF Numbered
      <3> QED
        BY <3>3, <3>4, <3>5
    <2>3. x \notin Numbered(o, S)
      <3> SUFFICES ASSUME NEW k \in S, NEW i \in 1 .. o[k], x = <<k, i>>
                   PROVE  FALSE
        BY DEF Numbered
      <3> QED
        BY <1>1
    <2>4. /\ IsFiniteSet(Numbered(o, S))
          /\ Cardinality(Numbered(o, S)) \in Nat
      BY NumberedFinite
    <2> HIDE DEF p, x
    <2>5. Cardinality(Numbered(p, S)) = Cardinality(Numbered(o, S)) + 1
      BY <2>2, <2>3, <2>4, FS_AddElement
    <2> QED
      BY <1>4, <2>5 DEF p
  <1> QED
    BY <1>3, <1>4

\* What a tick leaves of the orphans was there a tick earlier, with a lease one longer.
LEMMA TickOlder ==
  ASSUME NEW N \in Nat, NEW o \in [Leases -> 0 .. N],
         NEW S \in SUBSET Leases, NEW T \in SUBSET Leases,
         \A l \in S : l[2] # Reap => <<l[1], l[2] + 1>> \in T
  PROVE  Cardinality(Numbered([l \in Leases |-> IF l[2] = Reap THEN 0 ELSE o[<<l[1], l[2] + 1>>]], S))
           <= Cardinality(Numbered(o, T))
PROOF
  <1> DEFINE p == [l \in Leases |-> IF l[2] = Reap THEN 0 ELSE o[<<l[1], l[2] + 1>>]]
             f == [x \in Numbered(p, S) |-> <<<<x[1][1], x[1][2] + 1>>, x[2]>>]
  <1>1. IsFiniteSet(Numbered(o, T))
    BY NumberedFinite
  <1>2. ASSUME NEW x \in Numbered(p, S)
        PROVE  \E l \in S : \E i \in 1 .. o[<<l[1], l[2] + 1>>] :
                 x = <<l, i>> /\ <<l[1], l[2] + 1>> \in T
    <2>1. PICK l \in S : x \in {l} \X (1 .. p[l])
      BY DEF Numbered
    <2>2. x = <<x[1], x[2]>> /\ x[1] = l /\ x[2] \in 1 .. p[l]
      BY <2>1
    <2>3. l[2] # Reap
      <3> SUFFICES ASSUME l[2] = Reap
                   PROVE  FALSE
        OBVIOUS
      <3>1. p[l] = 0
        OBVIOUS
      <3> QED
        BY <2>2, <3>1
    <2>4. p[l] = o[<<l[1], l[2] + 1>>]
      BY <2>3
    <2> QED
      BY <2>2, <2>3, <2>4
  <1>3. f \in [Numbered(p, S) -> Numbered(o, T)]
    <2> SUFFICES ASSUME NEW x \in Numbered(p, S)
                 PROVE  <<<<x[1][1], x[1][2] + 1>>, x[2]>> \in Numbered(o, T)
      BY Zenon
    <2>1. PICK l \in S : \E i \in 1 .. o[<<l[1], l[2] + 1>>] :
                            x = <<l, i>> /\ <<l[1], l[2] + 1>> \in T
      BY <1>2
    <2>2. x[1] = l /\ x[2] \in 1 .. o[<<l[1], l[2] + 1>>] /\ <<l[1], l[2] + 1>> \in T
      BY <2>1
    <2> HIDE DEF p
    <2> QED
      BY <2>2 DEF Numbered
  <1>4. ASSUME NEW x \in Numbered(p, S), NEW y \in Numbered(p, S), f[x] = f[y]
        PROVE  x = y
    <2>1. PICK k \in S : \E i \in 1 .. o[<<k[1], k[2] + 1>>] : x = <<k, i>>
      BY <1>2
    <2>2. PICK l \in S : \E i \in 1 .. o[<<l[1], l[2] + 1>>] : y = <<l, i>>
      BY <1>2
    <2> HIDE DEF p
    <2>3. x[1] = k /\ y[1] = l /\ x = <<k, x[2]>> /\ y = <<l, y[2]>>
      BY <2>1, <2>2
    <2>4. k[1] = l[1] /\ k[2] + 1 = l[2] + 1 /\ x[2] = y[2]
      BY <1>4, <2>3
    <2>5. k[2] \in Nat /\ l[2] \in Nat /\ k = <<k[1], k[2]>> /\ l = <<l[1], l[2]>>
      BY HarnessAssumption DEF Leases
    <2>6. k[2] = l[2]
      BY <2>4, <2>5
    <2> QED
      BY <2>3, <2>4, <2>5, <2>6
  <1>5. f \in Injection(Numbered(p, S), Numbered(o, T))
    BY <1>3, <1>4 DEF Injection, IsInjective
  <1> QED
    BY <1>1, <1>5, FS_Injection

\* No kind of orphan is counted beyond the slots that all of them hold.
LEMMA WithinTotal ==
  ASSUME NEW N \in Nat, NEW o \in [Leases -> 0 .. N], NEW l \in Leases
  PROVE  o[l] <= Cardinality(Numbered(o, Leases))
PROOF
  <1>1. o[l] \in Nat
    OBVIOUS
  <1>2. IsFiniteSet(1 .. o[l]) /\ Cardinality(1 .. o[l]) = o[l]
    BY <1>1, FS_Interval
  <1>3. IsFiniteSet(Numbered(o, Leases))
    BY NumberedFinite
  <1> DEFINE f == [i \in 1 .. o[l] |-> <<l, i>>]
  <1>4. f \in Injection(1 .. o[l], Numbered(o, Leases))
    BY DEF Injection, IsInjective, Numbered
  <1> HIDE DEF f
  <1> QED
    BY <1>2, <1>3, <1>4, FS_Injection

------------------------------------------------------------------------------
(* The pool                                                                *)

\* The types of everything but the pool.
CellTypes ==
  /\ pc \in Live \cup {"start", "gate", "recorded", "raised"}
  /\ elapsed \in 0 .. Timeout
  /\ lease \in 0 .. Reap
  /\ ghosts \in 0 .. MaxGhosts
  /\ expected \in Wanted
  /\ got \in Returned
  /\ output \in {"none", "torn", "handler", "error"}
  /\ marks \subseteq {"try", "ioerr"}
  /\ exit \in {"none", "zero", "nonzero", "timeout"}
  /\ success \in BOOLEAN
  /\ pc \in Shell \cup Node => exit = "none"

\* The grid's slots: the orphans' and the running cell's are at most MaxSessions.
Pool == orphans \in [Leases -> 0 .. MaxSessions] /\ Used <= MaxSessions

LEMMA CellTypesInit == Init => CellTypes
PROOF
  <1> SUFFICES ASSUME Init
               PROVE  CellTypes
    OBVIOUS
  <1>1. elapsed \in 0 .. Timeout /\ lease \in 0 .. Reap /\ ghosts \in 0 .. MaxGhosts
    BY HarnessAssumption DEF Init
  <1>2. marks \subseteq {"try", "ioerr"}
    BY DEF Init
  <1>3. expected \in Wanted /\ got \in Returned
    BY DEF Init, Wanted, Returned
  <1>4. pc \in Live \cup {"start", "gate", "recorded", "raised"} /\ pc \notin Shell \cup Node
    BY DEF Init, Live, Shell, Node
  <1> QED
    BY <1>1, <1>2, <1>3, <1>4 DEF Init, CellTypes

LEMMA CellTypesStep == CellTypes /\ [Next]_vars => CellTypes'
PROOF
  <1> SUFFICES ASSUME CellTypes, [Next]_vars
               PROVE  CellTypes'
    OBVIOUS
  <1> USE HarnessAssumption DEF CellTypes, Live, Shell, Node, Returned, gridVars, nodeVars
  <1>1. CASE Start
    <2>1. elapsed' \in 0 .. Timeout
      BY <1>1 DEF Start
    <2>2. expected' \in Wanted /\ got' \in Returned /\ marks' \subseteq {"try", "ioerr"}
      BY <1>1 DEF Start
    <2>3. /\ pc' \in Live \cup {"start", "gate", "recorded", "raised"}
          /\ exit' = "none" /\ output' = "none" /\ success' = FALSE
      BY <1>1 DEF Start
    <2> QED
      BY <1>1, <2>1, <2>2, <2>3 DEF Start
  <1>2. CASE PostFails
    BY <1>2 DEF PostFails, Over, LeaveGhost
  <1>3. CASE Parse
    BY <1>3 DEF Parse, Over, Orphan
  <1>4. CASE Delete
    BY <1>4 DEF Delete, Orphan
  <1>5. CASE Args
    BY <1>5 DEF Args, Exit
  <1>6. CASE Handle
    BY <1>6 DEF Handle, Fail
  <1>7. CASE Write
    BY <1>7 DEF Write, Fail
  <1>8. CASE Written
    BY <1>8 DEF Written, Fail
  <1>9. CASE Compare
    BY <1>9 DEF Compare, Exit
  <1>10. CASE Catch
    BY <1>10 DEF Catch, Exit
  <1>11. CASE Caught
    BY <1>11 DEF Caught, Exit
  <1>12. CASE TimesOut
    BY <1>12 DEF TimesOut, Kill, LeaveGhost, Orphan
  <1>13. CASE AttachFails
    BY <1>13 DEF AttachFails, Kill, LeaveGhost, Orphan
  <1>14. CASE Gate
    BY <1>14 DEF Gate
  <1>15. CASE Grid
    <2>1. CASE Grant
      BY <2>1 DEF Grant
    <2>2. CASE GrantGhost
      BY <2>2 DEF GrantGhost
    <2>3. CASE Refresh
      BY <2>3 DEF Refresh
    <2> QED
      BY <1>15, <2>1, <2>2, <2>3 DEF Grid
  <1>16. CASE Tick
    BY <1>16 DEF Tick
  <1>17. CASE UNCHANGED vars
    BY <1>17 DEF vars
  <1> QED
    BY <1>1, <1>2, <1>3, <1>4, <1>5, <1>6, <1>7, <1>8, <1>9, <1>10, <1>11, <1>12, <1>13,
       <1>14, <1>15, <1>16, <1>17 DEF Next, Preflight, Drive

\* Nothing is held where nothing is counted.
LEMMA NoneHeld ==
  ASSUME NEW S \in SUBSET Leases, orphans = [l \in Leases |-> 0]
  PROVE  Held(S) = 0
PROOF
  <1>1. Sessions(S) = {}
    BY DEF Sessions
  <1> QED
    BY <1>1, FS_EmptySet DEF Held

LEMMA PoolInit == Init => Pool
PROOF
  <1> SUFFICES ASSUME Init
               PROVE  Pool
    OBVIOUS
  <1>1. Held(Leases) = 0
    BY NoneHeld DEF Init
  <1> QED
    BY <1>1, HarnessAssumption DEF Init, Pool, Used

\* The grid grants only into a free slot; all else keeps or frees one.
LEMMA PoolStep == CellTypes /\ Pool /\ [Next]_vars => Pool'
PROOF
  <1> SUFFICES ASSUME CellTypes, Pool, [Next]_vars
               PROVE  Pool'
    OBVIOUS
  <1> DEFINE h == Cardinality(Numbered(orphans, Leases))
  <1>1. /\ orphans \in [Leases -> 0 .. MaxSessions]
        /\ lease \in 0 .. Reap
        /\ MaxSessions \in Nat /\ Reap \in Nat \ {0}
    BY HarnessAssumption DEF Pool, CellTypes
  <1>2. h \in Nat
    BY <1>1, NumberedFinite
  <1>3. /\ Held(Leases) = h
        /\ Held(Leases)' = Cardinality(Numbered(orphans', Leases))
    BY DEF Held, Sessions, Numbered
  <1>4. h + (IF lease > 0 THEN 1 ELSE 0) <= MaxSessions
    BY <1>3 DEF Pool, Used
  <1>5. CASE Tick
    <2>1. orphans' = [l \in Leases |-> IF l[2] = Reap THEN 0 ELSE orphans[<<l[1], l[2] + 1>>]]
      BY <1>5 DEF Tick
    <2>2. \A l \in Leases : l[2] # Reap => <<l[1], l[2] + 1>> \in Leases
      BY <1>1 DEF Leases
    <2>3. Held(Leases)' <= h
      BY <1>1, <1>3, <2>1, <2>2, TickOlder
    <2>4. orphans' \in [Leases -> 0 .. MaxSessions]
      BY <1>1, <2>1, <2>2
    <2>5. Held(Leases)' \in Nat
      BY <1>1, <1>3, <2>4, NumberedFinite
    <2>6. lease' > 0 => lease > 0
      BY <1>1, <1>5 DEF Tick
    <2> HIDE DEF h
    <2> QED
      BY <1>1, <1>2, <1>4, <2>3, <2>4, <2>5, <2>6 DEF Pool, Used
  <1>6. ASSUME UNCHANGED orphans, lease' > 0 => lease > 0 \/ Used < MaxSessions
        PROVE  Pool'
    <2>1. Held(Leases)' = h
      BY <1>3, <1>6
    <2> HIDE DEF h
    <2> QED
      BY <1>1, <1>2, <1>3, <1>4, <1>6, <2>1 DEF Pool, Used
  <1>7. ASSUME NEW l \in Leases, orphans' = [orphans EXCEPT ![l] = @ + 1],
               \/ lease > 0 /\ lease' = 0
               \/ UNCHANGED lease /\ Used < MaxSessions
        PROVE  Pool'
    <2>1. Held(Leases)' = h + 1
      BY <1>1, <1>3, <1>7, OneMore
    <2>2. h + 1 + (IF lease' > 0 THEN 1 ELSE 0) <= MaxSessions
      <3> HIDE DEF h
      <3> QED
        BY <1>1, <1>2, <1>3, <1>4, <1>7 DEF Used
    <2>3. orphans' \in [Leases -> 0 .. MaxSessions + 1]
      BY <1>1, <1>7
    <2>4. \A k \in Leases : orphans'[k] <= h + 1
      <3> SUFFICES ASSUME NEW k \in Leases
                   PROVE  orphans'[k] <= h + 1
        OBVIOUS
      <3>1. MaxSessions + 1 \in Nat
        BY <1>1
      <3>2. orphans'[k] <= Cardinality(Numbered(orphans', Leases))
        BY <2>3, <3>1, WithinTotal
      <3> QED
        BY <1>3, <2>1, <3>2
    <2>5. orphans' \in [Leases -> 0 .. MaxSessions]
      <3> SUFFICES ASSUME NEW k \in Leases
                   PROVE  orphans'[k] \in 0 .. MaxSessions
        BY <2>3
      <3> HIDE DEF h
      <3>1. orphans'[k] \in 0 .. MaxSessions + 1 /\ orphans'[k] <= h + 1
        BY <2>3, <2>4
      <3> QED
        BY <1>1, <1>2, <2>2, <3>1
    <2> HIDE DEF h
    <2> QED
      BY <2>1, <2>2, <2>5 DEF Pool, Used
  <1>8. ASSUME NEW cause \in {"timeout", "other"}, Orphan(cause)
        PROVE  Pool'
    <2>1. CASE lease = 0
      BY <1>6, <1>8, <2>1 DEF Orphan
    <2>2. CASE lease # 0
      <3>1. <<cause, lease>> \in Leases /\ lease > 0
        BY <1>1, <2>2 DEF Leases
      <3> QED
        BY <1>7, <1>8, <2>2, <3>1 DEF Orphan
    <2> QED
      BY <2>1, <2>2
  <1>9. CASE \/ Parse \/ Delete \/ TimesOut \/ AttachFails
    BY <1>6, <1>8, <1>9 DEF Parse, Delete, TimesOut, AttachFails, Kill
  <1>10. CASE GrantGhost
    <2>1. <<"other", Reap>> \in Leases
      BY <1>1 DEF Leases
    <2> QED
      BY <1>6, <1>7, <1>10, <2>1 DEF GrantGhost
  <1>11. CASE Grant \/ Refresh
    BY <1>6, <1>11 DEF Grant, Refresh
  <1>12. CASE \/ Start \/ PostFails \/ Drive \/ Gate \/ UNCHANGED vars
    BY <1>6, <1>12 DEF Start, PostFails, Drive, Args, Handle, Write, Written, Compare, Catch,
       Caught, Gate, vars, gridVars
  <1> QED
    BY <1>5, <1>9, <1>10, <1>11, <1>12 DEF Next, Preflight, Grid

\* The variables keep their types, and the orphaned sessions and the running one never hold
\* more than the grid's slots (compose.yml, selenium.py), for every pool, lease and timeout.
THEOREM TypeCorrect == Spec => []TypeOK
PROOF
  <1>1. CellTypes /\ Pool => TypeOK
    BY DEF CellTypes, Pool, TypeOK
  <1> QED
    BY CellTypesInit, CellTypesStep, PoolInit, PoolStep, <1>1, PTL DEF Spec

------------------------------------------------------------------------------
(* What timeouts hold                                                      *)

\* The sessions of timed out cells with m ticks left or more.
TimedOut(m) == {"timeout"} \X (m .. Reap)

\* How long ago the last cell timed out, at least: every earlier one ended before the
\* running cell started.
Age == IF pc \in Live THEN elapsed ELSE 0

\* Cells time out at least Timeout ticks apart and a lease is Reap ticks at most, so the
\* sessions that still have m ticks date from the last Reap - m ticks.
Spaced ==
  \A m \in 1 .. Reap :
    Held(TimedOut(m)) > 0 => Timeout * Held(TimedOut(m)) + m + Age <= Reap + Timeout

LEMMA Multiples ==
  /\ \A t, c \in Nat : t * (c + 1) = t * c + t
  /\ \A t, c, d \in Nat : c <= d => t * c <= t * d
  /\ \A t, c \in Nat : t * c \in Nat
  /\ \A t \in Nat : t * 0 = 0
PROOF
  <1>1. \A t, c \in Nat : t * (c + 1) = t * c + t
    BY SMT
  <1>2. \A t, c, d \in Nat : c <= d => t * c <= t * d
    BY SMT
  <1>3. \A t, c \in Nat : t * c \in Nat
    BY SMT
  <1> QED
    BY <1>1, <1>2, <1>3, SMT

LEMMA SpacedInit == Init => Spaced
PROOF
  <1> SUFFICES ASSUME Init, NEW m \in 1 .. Reap
               PROVE  ~(Held(TimedOut(m)) > 0)
    BY DEF Spaced
  <1>1. TimedOut(m) \subseteq Leases
    BY HarnessAssumption DEF TimedOut, Leases
  <1>2. Held(TimedOut(m)) = 0
    BY <1>1, NoneHeld DEF Init
  <1> QED
    BY <1>2

LEMMA SpacedStep == CellTypes /\ Pool /\ Spaced /\ [Next]_vars => Spaced'
PROOF
  <1> SUFFICES ASSUME CellTypes, Pool, Spaced, [Next]_vars, NEW m \in 1 .. Reap,
                      NEW c, c = Held(TimedOut(m)), NEW d, d = Held(TimedOut(m))',
                      NEW a, a = Age, NEW b, b = Age'
               PROVE  d > 0 => Timeout * d + m + b <= Reap + Timeout
    BY DEF Spaced, TimedOut
  <1>1. /\ orphans \in [Leases -> 0 .. MaxSessions]
        /\ lease \in 0 .. Reap
        /\ elapsed \in 0 .. Timeout
        /\ MaxSessions \in Nat /\ Reap \in Nat \ {0} /\ Timeout \in Nat \ {0}
    BY HarnessAssumption DEF Pool, CellTypes
  <1>2. \A k \in Nat : Held(TimedOut(k)) = Cardinality(Numbered(orphans, TimedOut(k)))
    BY DEF Held, Sessions, Numbered
  <1>3. /\ c = Cardinality(Numbered(orphans, TimedOut(m)))
        /\ d = Cardinality(Numbered(orphans', TimedOut(m)))
    BY DEF Held, Sessions, Numbered, TimedOut
  <1>4. \A k \in Nat \ {0} : TimedOut(k) \subseteq Leases
    BY <1>1 DEF TimedOut, Leases
  <1>5. m \in Nat \ {0} /\ m <= Reap
    BY <1>1
  <1>6. c \in Nat /\ a \in Nat
    <2>1. c \in Nat
      BY <1>1, <1>3, <1>4, <1>5, NumberedFinite
    <2>2. a \in Nat
      BY <1>1 DEF Age
    <2> QED
      BY <2>1, <2>2
  <1>7. c > 0 => Timeout * c + m + a <= Reap + Timeout
    BY DEF Spaced
  <1>8. Timeout * c \in Nat /\ Timeout * (c + 1) = Timeout * c + Timeout /\ Timeout * 0 = 0
    BY <1>1, <1>6, Multiples
  <1>9. ASSUME d = c, b \in Nat, b <= a
        PROVE  d > 0 => Timeout * d + m + b <= Reap + Timeout
    BY <1>1, <1>5, <1>6, <1>7, <1>8, <1>9
  <1>10. ASSUME NEW l \in Leases, orphans' = [orphans EXCEPT ![l] = @ + 1]
         PROVE  d = c + (IF l \in TimedOut(m) THEN 1 ELSE 0)
    <2>1. TimedOut(m) \in SUBSET Leases
      BY <1>4, <1>5
    <2>2. MaxSessions \in Nat /\ orphans \in [Leases -> 0 .. MaxSessions]
      BY <1>1
    <2>3. Cardinality(Numbered([orphans EXCEPT ![l] = @ + 1], TimedOut(m)))
            = Cardinality(Numbered(orphans, TimedOut(m))) + (IF l \in TimedOut(m) THEN 1 ELSE 0)
      BY <2>1, <2>2, OneMore
    <2> QED
      BY <1>3, <1>10, <2>3
  <1>11. UNCHANGED orphans => d = c
    BY <1>3
  <1>12. ASSUME Orphan("other")
         PROVE  d = c
    <2>1. CASE lease = 0
      BY <1>11, <1>12, <2>1 DEF Orphan
    <2>2. CASE lease # 0
      <3>1. <<"other", lease>> \in Leases /\ <<"other", lease>> \notin TimedOut(m)
        BY <1>1, <2>2 DEF Leases, TimedOut
      <3>2. d = c + 0
        BY <1>10, <1>12, <2>2, <3>1 DEF Orphan
      <3> QED
        BY <1>6, <3>2
    <2> QED
      BY <2>1, <2>2
  <1>13. CASE TimesOut
    <2>1. pc \in Live /\ elapsed = Timeout /\ pc' = "gate"
      BY <1>13 DEF TimesOut, Expired, Kill
    <2>2. a = Timeout /\ b = 0
      BY <2>1 DEF Age, Live, Shell, Node
    <2>3. d = c \/ (d = c + 1 /\ m <= lease)
      <3>1. CASE UNCHANGED orphans
        BY <1>11, <3>1
      <3>2. CASE orphans' = [orphans EXCEPT ![<<"timeout", lease>>] = @ + 1] /\ lease # 0
        <4>1. <<"timeout", lease>> \in Leases
          BY <1>1, <3>2 DEF Leases
        <4>2. d = c + (IF <<"timeout", lease>> \in TimedOut(m) THEN 1 ELSE 0)
          BY <1>10, <3>2, <4>1
        <4>3. <<"timeout", lease>> \in TimedOut(m) => m <= lease
          BY DEF TimedOut
        <4> QED
          BY <1>6, <4>2, <4>3
      <3> QED
        BY <1>13, <3>1, <3>2 DEF TimesOut, Kill, Orphan
    <2>4. CASE d = c
      BY <1>1, <1>9, <2>2, <2>4
    <2>5. CASE d = c + 1 /\ m <= lease
      <3>1. CASE c = 0
        BY <1>1, <1>5, <1>8, <2>2, <2>5, <3>1
      <3>2. CASE c > 0
        BY <1>1, <1>5, <1>7, <1>8, <2>2, <2>5, <3>2
      <3> QED
        BY <1>6, <3>1, <3>2
    <2> QED
      BY <2>3, <2>4, <2>5
  <1>14. CASE Tick
    <2>1. orphans' = [l \in Leases |-> IF l[2] = Reap THEN 0 ELSE orphans[<<l[1], l[2] + 1>>]]
      BY <1>14 DEF Tick
    <2>2. \A l \in TimedOut(m) : l[2] # Reap => <<l[1], l[2] + 1>> \in TimedOut(m + 1)
      BY <1>1 DEF TimedOut
    <2>3. m + 1 \in Nat \ {0}
      BY <1>5
    <2>4. /\ TimedOut(m) \in SUBSET Leases /\ TimedOut(m + 1) \in SUBSET Leases
          /\ MaxSessions \in Nat
      BY <1>1, <1>4, <1>5, <2>3
    <2> DEFINE e == Held(TimedOut(m + 1))
    <2>5. e = Cardinality(Numbered(orphans, TimedOut(m + 1)))
      BY <1>2, <2>3
    <2>6. d <= e
      BY <1>1, <1>3, <2>1, <2>2, <2>4, <2>5, TickOlder
    <2>7. e \in Nat
      BY <1>1, <2>4, <2>5, NumberedFinite
    <2>8. d \in Nat
      <3>1. \A l \in Leases : l[2] # Reap => <<l[1], l[2] + 1>> \in Leases
        BY <1>1 DEF Leases
      <3>2. orphans' \in [Leases -> 0 .. MaxSessions]
        BY <1>1, <2>1, <3>1
      <3> QED
        BY <1>3, <2>4, <3>2, NumberedFinite
    <2>9. e > 0 => Timeout * e + (m + 1) + a <= Reap + Timeout
      <3>1. CASE m + 1 \in 1 .. Reap
        BY <3>1 DEF Spaced
      <3>2. CASE m + 1 \notin 1 .. Reap
        <4>1. TimedOut(m + 1) = {}
          BY <1>1, <2>3, <3>2 DEF TimedOut
        <4>2. e = 0
          BY <4>1, FS_EmptySet DEF Held, Sessions
        <4> QED
          BY <4>2
      <3> QED
        BY <3>1, <3>2
    <2>10. b \in Nat /\ b <= a + 1
      BY <1>1, <1>14 DEF Tick, Age
    <2> HIDE DEF e
    <2>11. Timeout * d <= Timeout * e /\ Timeout * d \in Nat /\ Timeout * e \in Nat
      BY <1>1, <2>6, <2>7, <2>8, Multiples
    <2> QED
      BY <1>1, <1>5, <1>6, <2>6, <2>7, <2>8, <2>9, <2>10, <2>11
  <1>15. CASE \/ Parse \/ Delete \/ AttachFails \/ GrantGhost
    <2>1. d = c
      <3>1. <<"other", Reap>> \in Leases /\ <<"other", Reap>> \notin TimedOut(m)
        BY <1>1 DEF Leases, TimedOut
      <3>2. orphans' = [orphans EXCEPT ![<<"other", Reap>>] = @ + 1] => d = c + 0
        BY <1>10, <3>1
      <3>3. Orphan("other") \/ UNCHANGED orphans
            \/ orphans' = [orphans EXCEPT ![<<"other", Reap>>] = @ + 1]
        BY <1>15 DEF Parse, Delete, AttachFails, Kill, GrantGhost
      <3> QED
        BY <1>6, <1>11, <1>12, <3>2, <3>3
    <2>2. b \in Nat /\ b <= a
      <3>1. UNCHANGED elapsed /\ (pc' \in Live => pc \in Live)
        BY <1>15 DEF Parse, Delete, AttachFails, Kill, GrantGhost, Over, Live, Shell, Node
      <3> QED
        BY <1>1, <3>1 DEF Age
    <2> QED
      BY <1>9, <2>1, <2>2
  <1>16. CASE \/ Start \/ PostFails \/ Drive \/ Gate \/ Grant \/ Refresh \/ UNCHANGED vars
    <2>1. d = c
      BY <1>11, <1>16 DEF Start, PostFails, Drive, Args, Handle, Write, Written, Compare, Catch,
         Caught, Gate, Grant, Refresh, vars, gridVars
    <2>2. b \in Nat /\ b <= a
      <3>1. CASE Start
        BY <3>1, <1>1 DEF Start, Age, Live, Shell, Node
      <3>2. CASE UNCHANGED elapsed /\ (pc' \in Live => pc \in Live)
        BY <3>2, <1>1 DEF Age
      <3> QED
        BY <1>16, <3>1, <3>2 DEF PostFails, Over, Drive, Args, Handle, Write, Written, Compare,
           Catch, Caught, Exit, Fail, Gate, Grant, Refresh, vars, Live, Shell, Node
    <2> QED
      BY <1>9, <2>1, <2>2
  <1> QED
    BY <1>13, <1>14, <1>15, <1>16 DEF Next, Preflight, Grid

\* However many cells in a row time out, the sessions their killed containers left hold at
\* most Reap / Timeout slots, rounded up (compose.yml: the short session timeout keeps the
\* pool from bottlenecking), for every pool, lease and timeout.
THEOREM RoomIsLeft == Spec => []TimeoutsLeaveRoom
PROOF
  <1>1. CellTypes /\ Pool /\ Spaced => TimeoutsLeaveRoom
    <2> SUFFICES ASSUME CellTypes, Pool, Spaced
                 PROVE  TimeoutsLeaveRoom
      OBVIOUS
    <2> DEFINE c == Held(TimedOut(1))
    <2>1. Reap \in Nat \ {0} /\ Timeout \in Nat \ {0} /\ MaxSessions \in Nat
      BY HarnessAssumption
    <2>2. c \in Nat
      <3>1. TimedOut(1) \subseteq Leases
        BY DEF TimedOut, Leases
      <3> QED
        BY <2>1, <3>1, NumberedFinite DEF Held, Sessions, Numbered, Pool
    <2>3. c > 0 => Timeout * c + 1 + Age <= Reap + Timeout
      BY <2>1 DEF Spaced
    <2>4. Age \in Nat
      BY <2>1 DEF Age, CellTypes
    <2>5. Timeout * c < Reap + Timeout
      <3> HIDE DEF c
      <3>1. Timeout * c \in Nat /\ Timeout * 0 = 0
        BY <2>1, <2>2, Multiples
      <3> QED
        BY <2>1, <2>2, <2>3, <2>4, <3>1
    <2> QED
      BY <2>5 DEF TimeoutsLeaveRoom, TimedOut
  <1>2. Spec => [](CellTypes /\ Pool /\ Spaced)
    <2>1. Init => CellTypes /\ Pool /\ Spaced
      BY CellTypesInit, PoolInit, SpacedInit
    <2>2. CellTypes /\ Pool /\ Spaced /\ [Next]_vars => (CellTypes /\ Pool /\ Spaced)'
      BY CellTypesStep, PoolStep, SpacedStep
    <2> QED
      BY <2>1, <2>2, PTL DEF Spec
  <1> QED
    BY <1>1, <1>2, PTL

==============================================================================
