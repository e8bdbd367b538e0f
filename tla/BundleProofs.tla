----------------------------- MODULE BundleProofs ------------------------------
(***************************************************************************)
(* The results directory and the bundle packaged from it, for any number   *)
(* of cells, rounds, commits and packagings.                               *)
(***************************************************************************)
EXTENDS Bundle, WellFoundedInduction, TLAPS

\* A whole result.json lies beside the complete logs of its round: what run_battle
\* promises to a reader of the directory it is not rewriting.
WholeIsComplete ==
  result.kind = "whole" /\ ~halfWiped =>
    result.round # 0 /\ \A c \in 1 .. Cells : logs[c] = result.round

\* A round that fills the directory began by emptying it, and counts from one.
DirectoryInv ==
  /\ phase # "quiet" => round # 0
  /\ phase = "fill" => result = NoResult
  /\ phase = "write" => result = TornResult /\ \A c \in 1 .. Cells : logs[c] = round
  /\ WholeIsComplete

\* The packager writes the bundle of a result that names a commit, member by member.
PackerInv ==
  /\ packer \in {"open"} \cup Writing => loaded.commit # Nil
  /\ packer \in Writing => bundle.stream = "torn"
  /\ bundle.stream # "none" => bundle.meta.commit # Nil
  /\ reader \in {"extract", "accepted"} => claim.meta.commit # Nil

\* While nothing touches the directory, what has been read and written is the result there.
Faithful ==
  /\ packer = "idle" => ~settled
  /\ settled /\ packer \in Packing => ~halfWiped
  /\ settled /\ packer \in {"open"} \cup Writing => loaded = result /\ result.kind = "whole"
  /\ settled /\ packer \in Writing => bundle.meta = loaded
  /\ settled /\ packer = "result" => bundle.result = NoResult
  /\ settled /\ packer \in {"list", "runs"} => bundle.result = loaded
  /\ settled /\ packer \in {"result", "list"} => \A c \in 1 .. Cells : bundle.logs[c] = 0
  /\ settled /\ packer = "runs" =>
       \A c \in 1 .. Cells :
         bundle.logs[c] \in {loaded.round} \cup (IF c \in todo THEN {0} ELSE {})

\* A bundle whose packaging has ended holds one round, as far as it got.
OneRound ==
  settled /\ packer \notin Packing /\ bundle.result.kind = "whole" =>
    /\ bundle.meta = bundle.result
    /\ \A c \in 1 .. Cells :
         bundle.logs[c] \in {bundle.meta.round} \cup (IF packer = "done" THEN {} ELSE {0})

\* The reader holds what the bundle said, until the bundle is rewritten.
ReaderInv ==
  /\ fresh /\ reader \in {"extract", "accepted"} => claim.meta = bundle.meta
  /\ fresh /\ reader = "accepted" => claim.result = bundle.result /\ bundle.result.kind = "whole"

------------------------------------------------------------------------------
(* The next log                                                            *)

\* A set of numbers that is not empty has a least member.
LEMMA LeastExists ==
  ASSUME NEW S, S \subseteq Nat, S # {}
  PROVE  \E x \in S : \A y \in S : x <= y
PROOF
  <1> DEFINE R == OpToRel(<, Nat)
  <1>1. IsWellFoundedOn(R, Nat)
    BY NatLessThanWellFounded
  <1>2. \A a, b \in Nat : a < b => <<a, b>> \in R
    BY DEF OpToRel
  <1> HIDE DEF R
  <1>3. PICK x \in S : \A y \in S : ~ (<<y, x>> \in R)
    BY <1>1, WFMin
  <1>4. \A y \in S : ~ (y < x)
    BY <1>2, <1>3
  <1> QED
    BY <1>4

\* AddRun takes the next log from those it has listed.
LEMMA MinIsMember ==
  ASSUME NEW S, S \subseteq Nat, S # {}
  PROVE  Min(S) \in S
PROOF
  BY LeastExists DEF Min

------------------------------------------------------------------------------
(* Types                                                                   *)

LEMMA EmptyRecords == NoResult \in Records /\ TornResult \in Records
PROOF
  BY ResultsAssumption DEF NoResult, TornResult, Records

Bundles == [stream : {"none", "torn", "closed"}, meta : Records, result : Records,
            logs : [1 .. Cells -> 0 .. MaxRounds]]

\* A bundle in which no log is, yet.
LEMMA EmptyBundles ==
  ASSUME NEW s \in {"none", "torn", "closed"}, NEW r \in Records
  PROVE  /\ NoBundle \in Bundles
         /\ [NoBundle EXCEPT !.stream = s, !.meta = r] \in Bundles
PROOF
  <1>1. [c \in 1 .. Cells |-> 0] \in [1 .. Cells -> 0 .. MaxRounds]
    BY ResultsAssumption
  <1>2. NoBundle \in Bundles
    BY <1>1, EmptyRecords DEF NoBundle, Bundles
  <1> QED
    BY <1>2 DEF Bundles

LEMMA TypeInit == BundleInit => TypeOK
PROOF
  <1> SUFFICES ASSUME BundleInit
               PROVE  TypeOK
    OBVIOUS
  <1>1. bundle \in Bundles
    BY EmptyBundles, EmptyRecords DEF BundleInit
  <1>2. logs \in [1 .. Cells -> 0 .. MaxRounds]
    BY ResultsAssumption DEF BundleInit, Init
  <1>3. claim \in [meta : Records, result : Records] /\ reader = "idle" /\ fresh = FALSE
    BY EmptyRecords DEF BundleInit, NoClaim
  <1>4. round \in 0 .. MaxRounds /\ phase = "quiet" /\ result \in Records /\ halfWiped = FALSE
    BY ResultsAssumption, EmptyRecords DEF BundleInit, Init
  <1>5. /\ packer = "idle" /\ packages \in 0 .. MaxPackages /\ loaded \in Records
        /\ todo = {} /\ settled = FALSE
    BY PackagesAssumption, EmptyRecords DEF BundleInit
  <1> QED
    BY <1>1, <1>2, <1>3, <1>4, <1>5 DEF TypeOK, Bundles

LEMMA TypeStep == TypeOK /\ [BundleNext]_vars => TypeOK'
PROOF
  <1> SUFFICES ASSUME TypeOK, [BundleNext]_vars
               PROVE  TypeOK'
    OBVIOUS
  <1> USE ResultsAssumption, PackagesAssumption
      DEF TypeOK, Packing, Writing, bundleVars, packerVars, readerVars, resultsVars, diskVars
  <1>1. CASE Rerun
    <2>1. settled' \in BOOLEAN /\ UNCHANGED <<packerVars, bundle, readerVars, fresh>>
      BY <1>1 DEF Rerun
    <2>2. CASE Begin
      BY <2>1, <2>2 DEF Begin
    <2>3. CASE WipeEntry
      <3>1. result' \in Records
        BY <2>3, EmptyRecords DEF WipeEntry
      <3>2. logs' \in [1 .. Cells -> 0 .. MaxRounds]
        <4>1. CASE UNCHANGED logs
          BY <4>1
        <4>2. CASE \E c \in 1 .. Cells : logs' = [logs EXCEPT ![c] = 0]
          BY <4>2
        <4> QED
          BY <2>3, <4>1, <4>2 DEF WipeEntry
      <3> QED
        BY <2>1, <2>3, <3>1, <3>2 DEF WipeEntry
    <2>4. CASE Wiped
      BY <2>1, <2>4 DEF Wiped
    <2>5. CASE AddLog
      BY <2>1, <2>5, SMTT(30) DEF AddLog
    <2>6. CASE OpenResult
      BY <2>1, <2>6, EmptyRecords DEF OpenResult
    <2>7. CASE WriteResult
      <3>1. result' \in Records /\ phase' = "quiet"
        BY <2>7 DEF WriteResult, Records
      <3>2. UNCHANGED <<round, logs, halfWiped>>
        BY <2>7 DEF WriteResult
      <3> QED
        BY <2>1, <3>1, <3>2
    <2>8. CASE EndEarly
      BY <2>1, <2>8 DEF EndEarly
    <2> QED
      BY <1>1, <2>2, <2>3, <2>4, <2>5, <2>6, <2>7, <2>8 DEF Rerun, Next
  <1>2. CASE StartPackaging
    BY <1>2 DEF StartPackaging
  <1>3. CASE Load
    <2>1. packer' \in {"open", "failed"} /\ settled' \in BOOLEAN
      BY <1>3 DEF Load
    <2>2. loaded' \in Records
      BY <1>3 DEF Load
    <2>3. UNCHANGED <<resultsVars, packages, todo, bundle, readerVars, fresh>>
      BY <1>3 DEF Load
    <2> QED
      BY <2>1, <2>2, <2>3
  <1>4. CASE OpenBundle
    <2>1. bundle' = [NoBundle EXCEPT !.stream = "torn", !.meta = loaded]
      BY <1>4 DEF OpenBundle, Rewrite
    <2>2. bundle' \in Bundles
      BY <2>1, EmptyBundles
    <2> QED
      BY <1>4, <2>2 DEF OpenBundle, Rewrite, Bundles
  <1>5. CASE AddResult
    BY <1>5 DEF AddResult, Rewrite, Abort
  <1>6. CASE ListRuns
    BY <1>6 DEF ListRuns
  <1>7. CASE AddRun
    <2>1. Min(todo) \in 1 .. Cells
      BY <1>7, MinIsMember DEF AddRun
    <2>2. [bundle.logs EXCEPT ![Min(todo)] = logs[Min(todo)]] \in [1 .. Cells -> 0 .. MaxRounds]
      BY <2>1
    <2>3. CASE logs[Min(todo)] = 0
      BY <1>7, <2>3 DEF AddRun, Rewrite, Abort
    <2>4. CASE logs[Min(todo)] # 0
      BY <1>7, <2>2, <2>4 DEF AddRun, Rewrite
    <2> QED
      BY <2>3, <2>4
  <1>8. CASE CloseBundle
    BY <1>8 DEF CloseBundle, Rewrite
  <1>9. CASE InterruptPackaging
    BY <1>9 DEF InterruptPackaging, Rewrite, Abort
  <1>10. CASE CrashPackaging
    BY <1>10 DEF CrashPackaging, Rewrite
  <1>11. CASE ReadMeta
    BY <1>11, EmptyRecords DEF ReadMeta, ReadTorn, Refused, NoClaim
  <1>12. CASE ReadResult
    BY <1>12 DEF ReadResult, ReadTorn, Refused
  <1>13. CASE UNCHANGED vars
    BY <1>13 DEF vars
  <1> QED
    BY <1>1, <1>2, <1>3, <1>4, <1>5, <1>6, <1>7, <1>8, <1>9, <1>10, <1>11, <1>12, <1>13
       DEF BundleNext, Package

\* Theorem: the directory, the packager, the bundle and the reader keep their types.
THEOREM TypesHold == BundleSpec => []TypeOK
PROOF
  BY TypeInit, TypeStep, PTL DEF BundleSpec

------------------------------------------------------------------------------
(* The directory                                                           *)

LEMMA DirectoryInit == Init => DirectoryInv
PROOF
  BY DEF Init, DirectoryInv, WholeIsComplete, NoResult

LEMMA DirectoryStep == TypeOK /\ DirectoryInv /\ [Next]_resultsVars => DirectoryInv'
PROOF
  <1> SUFFICES ASSUME TypeOK, DirectoryInv, [Next]_resultsVars
               PROVE  DirectoryInv'
    OBVIOUS
  <1> USE DEF DirectoryInv, WholeIsComplete, diskVars, NoResult, TornResult
  <1>1. CASE Begin
    BY <1>1 DEF Begin, TypeOK
  <1>2. CASE WipeEntry
    BY <1>2 DEF WipeEntry
  <1>3. CASE Wiped
    BY <1>3 DEF Wiped
  <1>4. CASE AddLog
    BY <1>4 DEF AddLog
  <1>5. CASE OpenResult
    BY <1>5 DEF OpenResult
  <1>6. CASE WriteResult
    BY <1>6 DEF WriteResult
  <1>7. CASE EndEarly
    BY <1>7 DEF EndEarly
  <1>8. CASE UNCHANGED resultsVars
    BY <1>8 DEF resultsVars
  <1> QED
    BY <1>1, <1>2, <1>3, <1>4, <1>5, <1>6, <1>7, <1>8 DEF Next

\* What the packager and the reader do leaves the directory as it is.
LEMMA OnlyRerunWrites == BundleNext => Rerun \/ UNCHANGED resultsVars
PROOF
  BY DEF BundleNext, Package, StartPackaging, Load, OpenBundle, AddResult, ListRuns, AddRun,
         CloseBundle, InterruptPackaging, CrashPackaging, ReadMeta, ReadResult

------------------------------------------------------------------------------
(* The bundle                                                              *)

LEMMA PackerStep == TypeOK /\ PackerInv /\ [BundleNext]_vars => PackerInv'
PROOF
  <1> SUFFICES ASSUME TypeOK, PackerInv, [BundleNext]_vars
               PROVE  PackerInv'
    OBVIOUS
  <1> USE DEF PackerInv, Packing, Writing, bundleVars, packerVars, readerVars, Rewrite, Abort,
              TypeOK
  <1>1. CASE Rerun
    BY <1>1 DEF Rerun
  <1>2. CASE StartPackaging
    BY <1>2 DEF StartPackaging
  <1>3. CASE Load
    BY <1>3 DEF Load
  <1>4. CASE OpenBundle
    BY <1>4 DEF OpenBundle, NoBundle
  <1>5. CASE AddResult
    BY <1>5 DEF AddResult
  <1>6. CASE ListRuns
    BY <1>6 DEF ListRuns
  <1>7. CASE AddRun
    BY <1>7 DEF AddRun
  <1>8. CASE CloseBundle
    BY <1>8 DEF CloseBundle
  <1>9. CASE InterruptPackaging
    BY <1>9 DEF InterruptPackaging
  <1>10. CASE CrashPackaging
    BY <1>10 DEF CrashPackaging
  <1>11. CASE ReadMeta
    BY <1>11 DEF ReadMeta, ReadTorn, Refused, NoClaim
  <1>12. CASE ReadResult
    BY <1>12 DEF ReadResult, ReadTorn, Refused
  <1>13. CASE UNCHANGED vars
    BY <1>13 DEF vars
  <1> QED
    BY <1>1, <1>2, <1>3, <1>4, <1>5, <1>6, <1>7, <1>8, <1>9, <1>10, <1>11, <1>12, <1>13
       DEF BundleNext, Package

\* Theorem: a claim that a reader accepts names a commit to clone, however many rounds and
\* packagings came between (package.py: the nil battle_commit is refused).
THEOREM CommitNamed == BundleSpec => []MetaNamesACommit
PROOF
  <1>1. BundleInit => PackerInv
    BY DEF BundleInit, PackerInv, Writing, NoBundle
  <1>2. PackerInv => MetaNamesACommit
    BY DEF PackerInv, MetaNamesACommit
  <1> QED
    BY TypesHold, PackerStep, <1>1, <1>2, PTL DEF BundleSpec

LEMMA FaithfulStep ==
  TypeOK /\ DirectoryInv /\ Faithful /\ [BundleNext]_vars => Faithful'
PROOF
  <1> SUFFICES ASSUME TypeOK, DirectoryInv, Faithful, [BundleNext]_vars
               PROVE  Faithful'
    OBVIOUS
  <1> USE DEF Faithful, Packing, Writing, bundleVars, packerVars, readerVars, Rewrite, Abort
  <1>1. CASE Rerun
    <2>1. CASE packer \in Packing /\ ~ UNCHANGED diskVars
      BY <1>1, <2>1 DEF Rerun
    <2>2. CASE packer \notin Packing
      BY <1>1, <2>2 DEF Rerun
    <2>3. CASE UNCHANGED diskVars
      <3>1. settled' => settled
        BY <1>1 DEF Rerun
      <3> QED
        BY <1>1, <2>3, <3>1 DEF Rerun, diskVars
    <2> QED
      BY <2>1, <2>2, <2>3
  <1>2. CASE StartPackaging
    BY <1>2 DEF StartPackaging, resultsVars, diskVars
  <1>3. CASE Load
    BY <1>3 DEF Load, resultsVars, diskVars
  <1>4. CASE OpenBundle
    BY <1>4 DEF OpenBundle, NoBundle, resultsVars, diskVars
  <1>5. CASE AddResult
    BY <1>5, EmptyRecords DEF AddResult, TypeOK, Records, NoResult, resultsVars, diskVars
  <1>6. CASE ListRuns
    BY <1>6 DEF ListRuns, DirectoryInv, WholeIsComplete, resultsVars, diskVars
  <1>7. CASE AddRun
    <2>1. Min(todo) \in 1 .. Cells /\ Min(todo) \in todo
      BY <1>7, MinIsMember DEF AddRun, TypeOK
    <2>2. CASE logs[Min(todo)] = 0
      BY <1>7, <2>2 DEF AddRun, resultsVars, diskVars
    <2>3. CASE logs[Min(todo)] # 0 /\ settled
      <3>1. logs[Min(todo)] = loaded.round
        BY <1>7, <2>1, <2>3 DEF AddRun, DirectoryInv, WholeIsComplete
      <3>2. \A c \in 1 .. Cells :
              bundle'.logs[c] = IF c = Min(todo) THEN loaded.round ELSE bundle.logs[c]
        <4>1. bundle'.logs = [bundle.logs EXCEPT ![Min(todo)] = loaded.round]
          BY <1>7, <2>1, <2>3, <3>1 DEF AddRun, TypeOK
        <4>2. bundle.logs \in [1 .. Cells -> 0 .. MaxRounds]
          BY DEF TypeOK
        <4> QED
          BY <2>1, <4>1, <4>2
      <3>3. /\ todo' = todo \ {Min(todo)}
            /\ bundle'.meta = bundle.meta
            /\ bundle'.result = bundle.result
            /\ UNCHANGED <<packer, loaded, settled, result, halfWiped>>
        BY <1>7, <2>3 DEF AddRun, TypeOK, resultsVars, diskVars
      <3>4. \A c \in 1 .. Cells :
              bundle'.logs[c] \in {loaded'.round} \cup (IF c \in todo' THEN {0} ELSE {})
        BY <1>7, <2>3, <3>2, <3>3 DEF AddRun
      <3> QED
        BY <1>7, <2>3, <3>3, <3>4 DEF AddRun
    <2>4. CASE ~settled
      BY <1>7, <2>4 DEF AddRun
    <2> QED
      BY <2>2, <2>3, <2>4 DEF TypeOK
  <1>8. CASE CloseBundle
    BY <1>8 DEF CloseBundle
  <1>9. CASE InterruptPackaging
    BY <1>9 DEF InterruptPackaging
  <1>10. CASE CrashPackaging
    BY <1>10 DEF CrashPackaging
  <1>11. CASE ReadMeta
    BY <1>11 DEF ReadMeta, resultsVars, diskVars
  <1>12. CASE ReadResult
    BY <1>12 DEF ReadResult, resultsVars, diskVars
  <1>13. CASE UNCHANGED vars
    BY <1>13 DEF vars, resultsVars, diskVars
  <1> QED
    BY <1>1, <1>2, <1>3, <1>4, <1>5, <1>6, <1>7, <1>8, <1>9, <1>10, <1>11, <1>12, <1>13
       DEF BundleNext, Package

\* What an exception leaves behind is one round too.
LEMMA AbortLeavesOneRound ==
  ASSUME TypeOK, Faithful, packer \in Writing, Abort, UNCHANGED settled
  PROVE  OneRound'
PROOF
  <1> USE DEF Faithful, OneRound, Packing, Writing
  <1>1. bundle' = [bundle EXCEPT !.stream = "closed"] /\ packer' = "failed"
    BY DEF Abort, Rewrite
  <1>2. /\ bundle'.meta = bundle.meta
        /\ bundle'.result = bundle.result
        /\ bundle'.logs = bundle.logs
    BY <1>1 DEF TypeOK
  <1>3. CASE packer = "result"
    BY <1>1, <1>2, <1>3 DEF NoResult
  <1>4. CASE packer = "list"
    BY <1>1, <1>2, <1>4
  <1>5. CASE packer = "runs"
    BY <1>1, <1>2, <1>5
  <1> QED
    BY <1>3, <1>4, <1>5

LEMMA OneRoundStep == TypeOK /\ Faithful /\ OneRound /\ [BundleNext]_vars => OneRound'
PROOF
  <1> SUFFICES ASSUME TypeOK, Faithful, OneRound, [BundleNext]_vars
               PROVE  OneRound'
    OBVIOUS
  <1> USE DEF OneRound, Faithful, Packing, Writing, bundleVars, packerVars, readerVars, Rewrite,
              Abort
  <1>1. CASE Rerun
    BY <1>1 DEF Rerun
  <1>2. CASE StartPackaging
    BY <1>2 DEF StartPackaging
  <1>3. CASE Load
    BY <1>3 DEF Load
  <1>4. CASE OpenBundle
    BY <1>4 DEF OpenBundle
  <1>5. CASE AddResult
    BY <1>5 DEF AddResult, TypeOK, NoResult
  <1>6. CASE ListRuns
    BY <1>6 DEF ListRuns
  <1>7. CASE AddRun
    BY <1>7 DEF AddRun, TypeOK
  <1>8. CASE CloseBundle
    BY <1>8 DEF CloseBundle, TypeOK
  <1>9. CASE InterruptPackaging
    BY <1>9, AbortLeavesOneRound DEF InterruptPackaging
  <1>10. CASE CrashPackaging
    BY <1>10 DEF CrashPackaging, TypeOK, NoResult
  <1>11. CASE ReadMeta
    BY <1>11 DEF ReadMeta
  <1>12. CASE ReadResult
    BY <1>12 DEF ReadResult
  <1>13. CASE UNCHANGED vars
    BY <1>13 DEF vars
  <1> QED
    BY <1>1, <1>2, <1>3, <1>4, <1>5, <1>6, <1>7, <1>8, <1>9, <1>10, <1>11, <1>12, <1>13
       DEF BundleNext, Package

LEMMA ReaderStep == TypeOK /\ ReaderInv /\ [BundleNext]_vars => ReaderInv'
PROOF
  <1> SUFFICES ASSUME TypeOK, ReaderInv, [BundleNext]_vars
               PROVE  ReaderInv'
    OBVIOUS
  <1> USE DEF ReaderInv, bundleVars, packerVars, readerVars, Rewrite, Abort
  <1>1. CASE Rerun
    BY <1>1 DEF Rerun
  <1>2. CASE Package
    BY <1>2 DEF Package, StartPackaging, Load, OpenBundle, AddResult, ListRuns, AddRun, CloseBundle
  <1>3. CASE InterruptPackaging \/ CrashPackaging
    BY <1>3 DEF InterruptPackaging, CrashPackaging
  <1>4. CASE ReadMeta
    BY <1>4 DEF ReadMeta, ReadTorn, Refused, NoClaim
  <1>5. CASE ReadResult
    BY <1>5 DEF ReadResult, ReadTorn, Refused, TypeOK
  <1>6. CASE UNCHANGED vars
    BY <1>6 DEF vars
  <1> QED
    BY <1>1, <1>2, <1>3, <1>4, <1>5, <1>6 DEF BundleNext

\* Theorem: what a reader accepts from a bundle packaged beside a directory no round touched
\* meanwhile is one round: run_battle wipes first and publishes last, and the packager
\* writes what it has checked before the logs it lists.
THEOREM ClaimsHold == BundleSpec => []ClaimIsOneRound
PROOF
  <1>1. BundleInit => DirectoryInv /\ Faithful /\ OneRound /\ ReaderInv
    BY DirectoryInit DEF BundleInit, Faithful, OneRound, ReaderInv, Packing, Writing
  <1>2. TypeOK /\ DirectoryInv /\ [BundleNext]_vars => DirectoryInv'
    <2>1. [BundleNext]_vars => [Next]_resultsVars
      BY OnlyRerunWrites DEF Rerun, vars
    <2> QED
      BY <2>1, DirectoryStep
  <1>3. OneRound /\ ReaderInv => ClaimIsOneRound
    BY DEF OneRound, ReaderInv, ClaimIsOneRound
  <1> QED
    BY TypesHold, <1>1, <1>2, <1>3, FaithfulStep, OneRoundStep, ReaderStep, PTL DEF BundleSpec

================================================================================
