----------------------------- MODULE FeedProofs ------------------------------
(***************************************************************************)
(* The harvest of the infinite-scroll task is the whole feed, and the      *)
(* driver never waits for a batch that nobody asked for, whatever the size *)
(* of the feed and of the batches.                                         *)
(***************************************************************************)
EXTENDS Feed, SequenceTheorems, TLAPS

\* The batch boundaries.
Boundaries == {k * Batch : k \in Nat}

\* The first n items of the feed.
Prefix(n) == [i \in 1 .. n |-> i - 1]

PageInv ==
  /\ offset \in 0 .. Total
  /\ offset \in Boundaries
  /\ items = Prefix(offset)
  /\ loading \in BOOLEAN
  /\ broken \in BOOLEAN
  /\ request \in {offset, NoRequest}
  /\ request = offset => loading = TRUE
  /\ loading = TRUE /\ broken = FALSE => request = offset

DriverInv ==
  /\ driver \in {"count", "loop", "wait", "done", "failed"}
  /\ current \in 0 .. offset
  /\ current \in Boundaries
  /\ driver = "wait" => current < Target
  /\ driver = "wait" /\ broken = FALSE => offset >= current + Batch \/ request # NoRequest
  /\ driver = "done" => current = Total /\ harvest = Prefix(Total)
  /\ harvest \in Seq(0 .. Total - 1)

IInv == PageInv /\ DriverInv

------------------------------------------------------------------------------

\* Two boundaries are a batch apart.
LEMMA Gap ==
  ASSUME NEW x \in Boundaries, NEW y \in Boundaries, x < y
  PROVE  x + Batch <= y
<1>1. PICK a \in Nat : x = a * Batch
  BY DEF Boundaries
<1>2. PICK b \in Nat : y = b * Batch
  BY DEF Boundaries
<1>3. Batch \in Nat \ {0}
  BY FeedAssumption
<1>4. ASSUME b <= a PROVE FALSE
  <2>1. b * Batch <= a * Batch
    BY <1>3, <1>4
  <2> QED
    BY <1>1, <1>2, <2>1
<1>5. (a + 1) * Batch <= b * Batch
  BY <1>3, <1>4
<1>6. (a + 1) * Batch = x + Batch
  BY <1>1, <1>3
<1> QED
  BY <1>2, <1>5, <1>6

\* The one after a boundary is a boundary.
LEMMA NextBoundary ==
  ASSUME NEW x \in Boundaries
  PROVE  x + Batch \in Boundaries
<1>1. PICK a \in Nat : x = a * Batch
  BY DEF Boundaries
<1>2. x + Batch = (a + 1) * Batch
  BY <1>1, FeedAssumption
<1> QED
  BY <1>2 DEF Boundaries

\* The feed starts and ends at a boundary.
LEMMA Ends == 0 \in Boundaries /\ Total \in Boundaries
<1>1. 0 = 0 * Batch
  BY FeedAssumption
<1>2. Total \div Batch \in Nat /\ Total = (Total \div Batch) * Batch
  BY FeedAssumption
<1> QED
  BY <1>1, <1>2 DEF Boundaries

\* What the server answers at a batch boundary: the next batch, or nothing at the end.
LEMMA ServedBatch ==
  ASSUME NEW o \in 0 .. Total, o \in Boundaries
  PROVE  Served(o) = [i \in 1 .. (IF o < Total THEN Batch ELSE 0) |-> o + i - 1]
<1>1. o < Total => o + Batch <= Total
  BY Gap, Ends, FeedAssumption
<1> QED
  BY <1>1, FeedAssumption DEF Served

\* Appending it to the first o items gives the first o + Batch.
LEMMA Extend ==
  ASSUME NEW o \in Nat, NEW n \in Nat
  PROVE  /\ Prefix(o) \o [i \in 1 .. n |-> o + i - 1] = Prefix(o + n)
         /\ Len(Prefix(o)) = o
<1> DEFINE s == [i \in 1 .. n |-> o + i - 1]
<1>1. Prefix(o) \in Seq(Int) /\ s \in Seq(Int) /\ Len(Prefix(o)) = o /\ Len(s) = n
  BY DEF Prefix
<1>2. Prefix(o) \o s \in Seq(Int) /\ Len(Prefix(o) \o s) = o + n
  BY <1>1
<1>3. \A i \in 1 .. o + n : (Prefix(o) \o s)[i] = i - 1
  BY <1>1 DEF Prefix
<1>4. Prefix(o + n) \in Seq(Int) /\ Len(Prefix(o + n)) = o + n
  BY DEF Prefix
<1>5. \A i \in 1 .. o + n : Prefix(o + n)[i] = i - 1
  BY DEF Prefix
<1>6. \A i \in 1 .. o + n : (Prefix(o) \o s)[i] = Prefix(o + n)[i]
  BY <1>3, <1>5
<1>7. Prefix(o) \o s = Prefix(o + n)
  <2> HIDE DEF s
  <2> QED
    BY <1>2, <1>4, <1>6, SeqEqual
<1> QED
  BY <1>1, <1>7

------------------------------------------------------------------------------

\* The page starts with its first fetch in flight and the driver before its first count.
THEOREM InitIInv == Init => IInv
<1> SUFFICES ASSUME Init PROVE IInv
  OBVIOUS
<1>1. Prefix(0) = <<>>
  BY DEF Prefix
<1>2. <<>> \in Seq(0 .. Total - 1)
  OBVIOUS
<1>3. PageInv
  <2>1. offset \in 0 .. Total /\ offset \in Boundaries
    BY Ends, FeedAssumption DEF Init
  <2>2. items = Prefix(offset)
    BY <1>1 DEF Init
  <2>3. /\ loading \in BOOLEAN /\ broken \in BOOLEAN
        /\ request \in {offset, NoRequest}
        /\ request = offset => loading = TRUE
        /\ loading = TRUE /\ broken = FALSE => request = offset
    BY DEF Init
  <2> QED
    BY <2>1, <2>2, <2>3 DEF PageInv
<1>4. DriverInv
  BY <1>2, Ends, FeedAssumption DEF Init, DriverInv, NoRequest
<1> QED
  BY <1>3, <1>4 DEF IInv

\* One step per action of the page and of the driver.
THEOREM StepIInv == IInv /\ [Next]_vars => IInv'
<1> SUFFICES ASSUME IInv, [Next]_vars PROVE IInv'
  OBVIOUS
<1> USE FeedAssumption DEF IInv, PageInv, DriverInv, NoRequest
<1>0. Len(items) = offset
  BY Extend
<1>1. CASE Count
  BY <1>0, <1>1 DEF Count, pageVars
<1>2. CASE Click
  <2>1. CASE loading
    BY <1>0, <1>2, <2>1 DEF Click, LoadMore, pageVars
  <2>2. CASE ~loading
    <3>1. PageInv'
      BY <1>2, <2>2 DEF Click, LoadMore
    <3>2. DriverInv'
      BY <1>2, <2>2 DEF Click, LoadMore
    <3> QED
      BY <3>1, <3>2
  <2> QED
    BY <2>1, <2>2
<1>3. CASE Waited
  <2>1. current + Batch \in 0 .. offset /\ current + Batch \in Boundaries
    BY <1>0, <1>3, NextBoundary DEF Waited
  <2> QED
    BY <2>1, <1>3 DEF Waited, pageVars
<1>4. CASE Harvest
  <2>1. current = Total /\ offset = Total
    BY <1>4 DEF Harvest
  <2>2. Prefix(Total) \in Seq(0 .. Total - 1)
    BY DEF Prefix
  <2>3. PageInv'
    BY <1>4 DEF Harvest, pageVars
  <2>4. DriverInv'
    BY <2>1, <2>2, <1>4 DEF Harvest, pageVars
  <2> QED
    BY <2>3, <2>4
<1>5. CASE TimesOut
  BY <1>5 DEF TimesOut, pageVars
<1>6. CASE Arrives
  <2> DEFINE n == IF offset < Total THEN Batch ELSE 0
  <2>1. request = offset
    BY <1>6 DEF Arrives
  <2>2. Served(request) = [i \in 1 .. n |-> offset + i - 1] /\ Len(Served(request)) = n
    BY <2>1, ServedBatch
  <2>3. offset' = offset + n /\ items' = Prefix(offset + n)
    <3>1. offset \in Nat /\ n \in Nat /\ items = Prefix(offset)
      OBVIOUS
    <3>2. Prefix(offset) \o [i \in 1 .. n |-> offset + i - 1] = Prefix(offset + n)
      BY <3>1, Extend
    <3> HIDE DEF n
    <3> QED
      BY <1>6, <2>2, <3>1, <3>2 DEF Arrives
  <2>4. offset + n \in 0 .. Total /\ offset + n \in Boundaries
    BY Gap, Ends, NextBoundary
  <2>5. driver = "wait" => offset + n >= current + Batch
    <3>1. CASE current < offset
      BY <3>1, Gap
    <3>2. CASE current = offset
      BY <3>2
    <3> QED
      BY <3>1, <3>2
  <2> HIDE DEF n
  <2>6. PageInv'
    <3>1. offset' \in 0 .. Total /\ offset' \in Boundaries /\ items' = Prefix(offset')
      BY <2>3, <2>4
    <3>2. loading' = FALSE /\ request' = NoRequest /\ broken' = broken
      BY <1>6 DEF Arrives
    <3>3. broken' \in BOOLEAN /\ request' # offset'
      BY <3>1, <3>2
    <3> QED
      BY <3>1, <3>2, <3>3
  <2>7. n \in Nat
    BY DEF n
  <2>8. DriverInv'
    BY <2>3, <2>4, <2>5, <2>7, <1>6 DEF Arrives, driverVars
  <2> QED
    BY <2>6, <2>8
<1>7. CASE Rejected
  BY <1>7 DEF Rejected, driverVars
<1>8. CASE Scroll
  BY <1>8 DEF Scroll, LoadMore, pageVars, driverVars
<1>9. CASE UNCHANGED vars
  BY <1>9 DEF vars, pageVars, driverVars
<1> QED
  BY <1>1, <1>2, <1>3, <1>4, <1>5, <1>6, <1>7, <1>8, <1>9 DEF Next, Driver

\* The invariant the others follow from, for feeds and batches of every size.
THEOREM Invariance == SafetySpec => []IInv
BY InitIInv, StepIInv, PTL DEF SafetySpec

\* The page and the driver keep their types.
THEOREM TypeCorrect == SafetySpec => []TypeOK
<1>1. IInv => TypeOK
  <2> SUFFICES ASSUME IInv PROVE TypeOK
    OBVIOUS
  <2>1. Prefix(offset) \in Seq(0 .. Total - 1)
    BY FeedAssumption DEF Prefix, IInv, PageInv
  <2> QED
    BY <2>1, FeedAssumption DEF IInv, PageInv, DriverInv, TypeOK, NoRequest
<1> QED
  BY <1>1, Invariance, PTL

\* The harvest is the whole feed, in order, and the driver's count is its length.
THEOREM HarvestCorrect == SafetySpec => []HarvestIsFeed
<1>1. IInv => HarvestIsFeed
  BY Extend, FeedAssumption DEF IInv, DriverInv, HarvestIsFeed, Prefix
<1> QED
  BY <1>1, Invariance, PTL

\* The driver waits only for what is there or on its way.
THEOREM WaitsAreServed == SafetySpec => []NoStall
<1>1. IInv => NoStall
  BY Extend, FeedAssumption DEF IInv, PageInv, DriverInv, NoStall
<1> QED
  BY <1>1, Invariance, PTL

==============================================================================
