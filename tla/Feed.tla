-------------------------------- MODULE Feed ---------------------------------
(***************************************************************************)
(* The infinite-scroll task of the browsers battle: the driver's loop      *)
(* (harness/drive.js), the page's loadMore (public/feed.html) with its two *)
(* event listeners, and the server's /feed/items (server.js).              *)
(*                                                                         *)
(* The driver runs outside the page: each of its three calls per turn, the *)
(* click, the wait and the harvest, is a step of its own, and the page's   *)
(* tasks (a click handler, a scroll handler, the continuation of a fetch)  *)
(* run one at a time in between.                                           *)
(***************************************************************************)
EXTENDS Integers, Sequences

CONSTANTS
  Total,   \* FEED_TOTAL: how many items the server has
  Batch,   \* the page's `limit`, and the driver's stride
  Cap,     \* the largest limit the server honours
  Target   \* inputs.target_count

ASSUME FeedAssumption ==
  /\ Total \in Nat \ {0}
  /\ Batch \in Nat \ {0}
  /\ Cap \in Nat /\ Batch <= Cap
  /\ Total % Batch = 0
  /\ Target = Total

VARIABLES
  driver,    \* where the driver is
  current,   \* what it takes the number of items to be
  items,     \* the li elements, by data-id
  offset,    \* the page's offset
  loading,   \* the page's loading flag
  request,   \* the offset of the fetch in flight; NoRequest without one
  broken,    \* a fetch was rejected
  harvest    \* the texts the driver read

pageVars == <<items, offset, loading, request, broken>>
driverVars == <<driver, current, harvest>>
vars == <<pageVars, driverVars>>

NoRequest == -1

Init ==
  /\ driver = "count"
  /\ current = 0
  /\ items = <<>>
  /\ offset = 0
  /\ loading = TRUE
  /\ request = 0
  /\ broken = FALSE
  /\ harvest = <<>>

------------------------------------------------------------------------------
(* The page                                                                *)

\* loadMore up to its first await: a call while a batch is loading is dropped.
LoadMore ==
  IF loading
  THEN UNCHANGED pageVars
  ELSE /\ loading' = TRUE
       /\ request' = offset
       /\ UNCHANGED <<items, offset, broken>>

\* Mutant: the server answers one item too many.
MutServed(o) ==
  LET limit == IF Batch <= Cap THEN Batch ELSE Cap
      end   == IF o + limit < Total THEN o + limit ELSE Total
  IN  [i \in 1 .. (IF end > o THEN end - o + 1 ELSE 0) |-> o + i - 1]

\* Mutant: the last item is never served.
MutServedShort(o) ==
  LET limit == IF Batch <= Cap THEN Batch ELSE Cap
      end   == IF o + limit < Total - 1 THEN o + limit ELSE Total - 1
  IN  [i \in 1 .. (IF end > o THEN end - o ELSE 0) |-> o + i - 1]

\* GET /feed/items: the items from the offset on, at most `limit` and none past Total.
Served(o) ==
  LET limit == IF Batch <= Cap THEN Batch ELSE Cap
      end   == IF o + limit < Total THEN o + limit ELSE Total
  IN  [i \in 1 .. (IF end > o THEN end - o ELSE 0) |-> o + i - 1]

\* Mutant: the offset is that of the last item received, not of the next one.
MutArrives ==
  /\ request # NoRequest
  /\ items' = items \o Served(request)
  /\ offset' = offset + Len(Served(request)) - 1
  /\ loading' = FALSE
  /\ request' = NoRequest
  /\ UNCHANGED <<broken, driverVars>>

\* The continuation of the fetch: one task, so the list, the offset and the flag change
\* together.
Arrives ==
  /\ request # NoRequest
  /\ items' = items \o Served(request)
  /\ offset' = offset + Len(Served(request))
  /\ loading' = FALSE
  /\ request' = NoRequest
  /\ UNCHANGED <<broken, driverVars>>

\* A rejected fetch leaves the flag set for good.
Rejected ==
  /\ request # NoRequest
  /\ request' = NoRequest
  /\ broken' = TRUE
  /\ UNCHANGED <<items, offset, loading, driverVars>>

\* The scroll listener near the bottom of the page; a click scrolls the button into view.
Scroll ==
  /\ LoadMore
  /\ UNCHANGED driverVars

------------------------------------------------------------------------------
(* The driver                                                              *)

\* The initial count: the first batch may or may not have arrived.
Count ==
  /\ driver = "count"
  /\ current' = Len(items)
  /\ driver' = "loop"
  /\ UNCHANGED <<pageVars, harvest>>

Click ==
  /\ driver = "loop"
  /\ current < Target
  /\ LoadMore
  /\ driver' = "wait"
  /\ UNCHANGED <<current, harvest>>

\* Mutant: the wait asks for one item more.
MutWaited ==
  /\ driver = "wait"
  /\ Len(items) > current + Batch
  /\ current' = current + Batch
  /\ driver' = "loop"
  /\ UNCHANGED <<pageVars, harvest>>

\* waitForFunction: at least `next` items; then current = next, however many there are.
Waited ==
  /\ driver = "wait"
  /\ Len(items) >= current + Batch
  /\ current' = current + Batch
  /\ driver' = "loop"
  /\ UNCHANGED <<pageVars, harvest>>

\* Playwright's own timeout throws, and so does main: the run fails.
TimesOut ==
  /\ driver = "wait"
  /\ driver' = "failed"
  /\ UNCHANGED <<pageVars, current, harvest>>

\* $$eval over the list once the loop is left.
Harvest ==
  /\ driver = "loop"
  /\ current >= Target
  /\ harvest' = items
  /\ driver' = "done"
  /\ UNCHANGED <<pageVars, current>>

Driver == Count \/ Click \/ Waited \/ Harvest

Next == Driver \/ TimesOut \/ Arrives \/ Rejected \/ Scroll

SafetySpec == Init /\ [][Next]_vars

\* The driver runs on, and the server answers.
Spec == SafetySpec /\ WF_vars(Driver) /\ WF_vars(Arrives)

------------------------------------------------------------------------------
(* Properties                                                              *)

\* The page and the driver keep their types.
TypeOK ==
  /\ driver \in {"count", "loop", "wait", "done", "failed"}
  /\ current \in 0 .. Total
  /\ items \in Seq(0 .. Total - 1)
  /\ offset \in 0 .. Total
  /\ loading \in BOOLEAN
  /\ request \in 0 .. Total \cup {NoRequest}
  /\ broken \in BOOLEAN
  /\ harvest \in Seq(0 .. Total - 1)

\* Whatever clicks were dropped and scrolls slipped in, the harvest is the whole feed,
\* each item once and in order, and `count` is its length: the driver's own counter, which
\* it never reads back from the page, is right at the end.
HarvestIsFeed ==
  driver = "done" =>
    /\ harvest = [i \in 1 .. Total |-> i - 1]
    /\ current = Len(harvest)

\* A wait is always for something that is there or on its way: a dropped click was dropped
\* for a batch that will satisfy the wait.  Only a rejected fetch can stall the driver.
NoStall ==
  driver = "wait" /\ ~broken => Len(items) >= current + Batch \/ request # NoRequest

\* The loop ends, unless a fetch is rejected.
HarvestEnds == <>(driver \in {"done", "failed"} \/ broken)

==============================================================================
