------------------------------- MODULE Bundle --------------------------------
(***************************************************************************)
(* package_bundle and read_bundle_json (bench_kit/package.py) at work on   *)
(* one results directory and one bundle: the packager reads a directory    *)
(* that `bench run` may rewrite meanwhile (Results), and the reader, which *)
(* is verify_bundle, opens the bundle once for meta.json and once more,    *)
(* after the clone, for result.json.                                       *)
(***************************************************************************)
EXTENDS Results, FiniteSetsExt

CONSTANT MaxPackages   \* bound on the number of `bench package` invocations

ASSUME PackagesAssumption == MaxPackages \in Nat

VARIABLES
  packer,    \* where package_bundle is
  packages,  \* the invocations so far
  loaded,    \* the result it parsed and checked
  todo,      \* the logs it listed and has not added
  settled,   \* the directory was whole when the bundle's packaging began, and unchanged in it
  bundle,    \* the file at output_path
  reader,    \* where the reader is
  claim,     \* what it has read
  fresh      \* the bundle is the one it read meta.json from

packerVars == <<packer, packages, loaded, todo>>
readerVars == <<reader, claim>>
bundleVars == <<packerVars, settled, bundle, readerVars, fresh>>
vars == <<resultsVars, bundleVars>>

\* The members of the tar, and whether the gzip stream around them is complete.
NoBundle == [stream |-> "none", meta |-> NoResult, result |-> NoResult,
             logs |-> [c \in 1 .. Cells |-> 0]]
NoClaim == [meta |-> NoResult, result |-> NoResult]

Packing == {"load", "open", "result", "list", "runs"}
Writing == {"result", "list", "runs"}

BundleInit ==
  /\ Init
  /\ packer = "idle"
  /\ packages = 0
  /\ loaded = NoResult
  /\ todo = {}
  /\ settled = FALSE
  /\ bundle = NoBundle
  /\ reader = "idle"
  /\ claim = NoClaim
  /\ fresh = FALSE

------------------------------------------------------------------------------
(* The packager                                                            *)

Rewrite(b) == bundle' = b /\ fresh' = FALSE

StartPackaging ==
  /\ packer \notin Packing
  /\ packages < MaxPackages
  /\ packages' = packages + 1
  /\ packer' = "load"
  /\ settled' = ~halfWiped
  /\ UNCHANGED <<resultsVars, loaded, todo, bundle, readerVars, fresh>>

\* Mutant: the nil commit is not refused.
MutLoad ==
  /\ packer = "load"
  /\ \/ result.kind = "whole" /\ loaded' = result /\ packer' = "open" /\ UNCHANGED settled
     \/ packer' = "failed" /\ settled' = FALSE /\ UNCHANGED loaded
  /\ UNCHANGED <<resultsVars, packages, todo, bundle, readerVars, fresh>>

\* A missing, unreadable or invalid result, a nil commit, and a missing extra file raise
\* PackageError before the output is touched.
Load ==
  /\ packer = "load"
  /\ \/ result.kind = "whole" /\ result.commit # Nil /\ loaded' = result /\ packer' = "open" /\ UNCHANGED settled
     \/ packer' = "failed" /\ settled' = FALSE /\ UNCHANGED loaded
  /\ UNCHANGED <<resultsVars, packages, todo, bundle, readerVars, fresh>>

\* open("wb") truncates an earlier bundle; meta.json comes from the result parsed above.
OpenBundle ==
  /\ packer = "open"
  /\ Rewrite([NoBundle EXCEPT !.stream = "torn", !.meta = loaded])
  /\ packer' = "result"
  /\ UNCHANGED <<resultsVars, packages, loaded, todo, settled, readerVars>>

\* An exception inside the `with`: the gzip layer is closed as usual, so that what was
\* added so far makes a readable bundle.
Abort ==
  /\ Rewrite([bundle EXCEPT !.stream = "closed"])
  /\ packer' = "failed"
  /\ UNCHANGED todo

\* result.json is read a second time, as bytes.
AddResult ==
  /\ packer = "result"
  /\ IF result = NoResult
     THEN Abort
     ELSE /\ Rewrite([bundle EXCEPT !.result = result])
          /\ packer' = "list"
          /\ UNCHANGED todo
  /\ UNCHANGED <<resultsVars, packages, loaded, settled, readerVars>>

\* Mutant: the runs directory is listed with its files.
MutListRuns ==
  /\ packer = "list"
  /\ todo' = {c \in 0 .. Cells : c = 0 \/ logs[c] # 0}
  /\ packer' = "runs"
  /\ UNCHANGED <<resultsVars, packages, loaded, settled, bundle, readerVars, fresh>>

\* rglob lists the runs tree before any file of it is read.
ListRuns ==
  /\ packer = "list"
  /\ todo' = {c \in 1 .. Cells : logs[c] # 0}
  /\ packer' = "runs"
  /\ UNCHANGED <<resultsVars, packages, loaded, settled, bundle, readerVars, fresh>>

\* A file that has gone since raises FileNotFoundError.
AddRun ==
  /\ packer = "runs"
  /\ todo # {}
  /\ LET c == Min(todo)
     IN  IF logs[c] = 0
         THEN Abort
         ELSE /\ Rewrite([bundle EXCEPT !.logs[c] = logs[c]])
              /\ todo' = todo \ {c}
              /\ UNCHANGED packer
  /\ UNCHANGED <<resultsVars, packages, loaded, settled, readerVars>>

CloseBundle ==
  /\ packer = "runs"
  /\ todo = {}
  /\ Rewrite([bundle EXCEPT !.stream = "closed"])
  /\ packer' = "done"
  /\ UNCHANGED <<resultsVars, packages, loaded, todo, settled, readerVars>>

\* KeyboardInterrupt or an OSError.
InterruptPackaging ==
  /\ packer \in Packing
  /\ IF packer \in Writing
     THEN Abort /\ UNCHANGED settled
     ELSE packer' = "failed" /\ settled' = FALSE /\ UNCHANGED <<todo, bundle, fresh>>
  /\ UNCHANGED <<resultsVars, packages, loaded, readerVars>>

\* SIGKILL or power loss: the stream stays without its end, unless all that was missing is
\* the trailer, which no reader of the tar gets to.
CrashPackaging ==
  /\ packer \in Packing
  /\ packer' = "failed"
  /\ \/ UNCHANGED <<bundle, fresh>>
     \/ packer = "runs" /\ todo = {} /\ Rewrite([bundle EXCEPT !.stream = "closed"])
  /\ settled' = (settled /\ packer \in Writing)
  /\ UNCHANGED <<resultsVars, packages, loaded, todo, readerVars>>

------------------------------------------------------------------------------
(* The reader                                                              *)

\* gzip meets the end of the file before the end of the stream: EOFError, which no clause
\* of read_bundle_json catches; a stream of which nothing is on disk yet is an empty tar.
ReadTorn == bundle.stream = "torn" /\ reader' \in {"raw", "refused"} /\ UNCHANGED claim

\* A missing file or member, an OSError, bytes that are no JSON.
Refused == reader' = "refused" /\ UNCHANGED claim

ReadMeta ==
  /\ reader # "extract"
  /\ \/ /\ bundle.stream = "closed"
        /\ claim' = [NoClaim EXCEPT !.meta = bundle.meta]
        /\ reader' = "extract"
     \/ ReadTorn \/ Refused
  /\ fresh' = TRUE
  /\ UNCHANGED <<resultsVars, packerVars, settled, bundle>>

ReadResult ==
  /\ reader = "extract"
  /\ \/ /\ bundle.stream = "closed"
        /\ bundle.result.kind = "whole"
        /\ claim' = [claim EXCEPT !.result = bundle.result]
        /\ reader' = "accepted"
     \/ ReadTorn \/ Refused
  /\ UNCHANGED <<resultsVars, packerVars, settled, bundle, fresh>>

------------------------------------------------------------------------------

\* `bench run` goes on meanwhile.
Rerun ==
  /\ Next
  /\ settled' = (settled /\ (packer \in Packing => UNCHANGED diskVars))
  /\ UNCHANGED <<packerVars, bundle, readerVars, fresh>>

Package ==
  StartPackaging \/ Load \/ OpenBundle \/ AddResult \/ ListRuns \/ AddRun \/ CloseBundle

BundleNext ==
  \/ Rerun \/ Package \/ InterruptPackaging \/ CrashPackaging
  \/ ReadMeta \/ ReadResult

BundleSpec == BundleInit /\ [][BundleNext]_vars

------------------------------------------------------------------------------
(* Properties                                                              *)

Records == [kind : {"none", "torn", "whole"}, round : 0 .. MaxRounds, commit : Commits \cup {Nil}]

\* The variables of the directory, the packager and the reader keep their types.
TypeOK ==
  /\ round \in 0 .. MaxRounds
  /\ phase \in {"quiet", "wipe", "fill", "write"}
  /\ logs \in [1 .. Cells -> 0 .. MaxRounds]
  /\ result \in Records
  /\ halfWiped \in BOOLEAN
  /\ packer \in Packing \cup {"idle", "done", "failed"}
  /\ packages \in 0 .. MaxPackages
  /\ loaded \in Records
  /\ todo \subseteq 1 .. Cells
  /\ settled \in BOOLEAN
  /\ bundle \in [stream : {"none", "torn", "closed"}, meta : Records, result : Records,
                 logs : [1 .. Cells -> 0 .. MaxRounds]]
  /\ reader \in {"idle", "extract", "accepted", "refused", "raw"}
  /\ claim \in [meta : Records, result : Records]
  /\ fresh \in BOOLEAN

\* What the reader accepts from a bundle that was packaged beside a directory no round
\* touched meanwhile is one round: meta.json and result.json agree, no log is another
\* round's, and all are there if the packaging returned.  A packaging cut short leaves a
\* bundle that the reader accepts too, without its last logs.  It rests on the order in
\* which run_battle publishes and on the two reads of one file.
ClaimIsOneRound ==
  reader = "accepted" /\ packer \notin Packing /\ settled /\ fresh =>
    /\ claim.meta = claim.result
    /\ \A c \in 1 .. Cells :
         bundle.logs[c] \in {claim.meta.round} \cup (IF packer = "done" THEN {} ELSE {0})

\* A claim that a reader accepts names a commit to clone, whatever was going on in the
\* results directory and however the packaging ended (package.py: nil battle_commit).
MetaNamesACommit == reader = "accepted" => claim.meta.commit # Nil

\* read_bundle_json: "Every reasonable failure mode ... is converted into a PackageError so
\* callers (and therefore the CLI) never see a raw stdlib traceback".
ReaderNeverRaw == reader # "raw"

==============================================================================
