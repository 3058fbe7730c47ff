---------------------------- MODULE ScanTrigger ----------------------------
(***************************************************************************)
(* POST /scan/trigger beside the ingest service: the API uploads golden    *)
(* images into incoming/ over SFTP, each at a path of two fresh UUIDs.     *)
(* The server shows a file while it is being written, and ingest may fetch *)
(* it then; the upload ends with a stat of the path, which fails when      *)
(* ingest has moved the file away.  One file after the other or files of   *)
(* several requests at once: an upload concerns no path but its own.       *)
(***************************************************************************)
EXTENDS SftpIngest

CONSTANTS
  ScanPath,  \* the paths below incoming/ that the trigger writes to
  PartOf,    \* the content of a path while its upload is not complete
  WholeOf    \* the content of the golden image that is uploaded to a path

Scanned == {PartOf[p] : p \in ScanPath} \cup {WholeOf[p] : p \in ScanPath}

ASSUME ScanAssumption ==
  /\ ScanPath \subseteq Path
  /\ PartOf \in [ScanPath -> File]
  /\ WholeOf \in [ScanPath -> File]
  /\ \A p \in ScanPath :
       /\ PartOf[p] # WholeOf[p]
       /\ PartOf[p] \in Rewrites
       /\ {f \in File : PathOf[f] = p} = {PartOf[p], WholeOf[p]}
       /\ Verdict[WholeOf[p]] = "ok"
       /\ \A q \in Path \ {p} : NameOf[q] # NameOf[p] /\ DocOf[q] # DocOf[p]

VARIABLES
  upload,  \* how far the upload to each path is, or what was answered of it
  torn     \* history: the paths that ingest fetched before their upload was complete

scanVars == <<upload, torn>>

ScanTypeOK ==
  /\ TypeOK
  /\ upload \in [ScanPath -> {"none", "put", "confirm", "queued", "failed"}]
  /\ torn \in SUBSET ScanPath

ScanInit ==
  /\ Init
  /\ upload = [p \in ScanPath |-> "none"]
  /\ torn = {}

Becomes(p, status) == upload' = [upload EXCEPT ![p] = status]

\* The connection or a call of it fails: the exception is logged and the file is
\* answered as failed.
UploadFails(p) ==
  /\ Fault
  /\ Becomes(p, "failed")
  /\ UNCHANGED <<storeVars, ingestVars>>

\* connect, mkdir and the open of put.
StartUpload(p) ==
  /\ upload[p] = "none"
  /\ \/ VendorDrop(PartOf[p]) /\ Becomes(p, "put")
     \/ UploadFails(p)
  /\ UNCHANGED torn

\* put writes the rest through its open handle, wherever the file is by then.
WriteUpload(p) ==
  /\ upload[p] = "put"
  /\ \/ VendorRewrite(PartOf[p], WholeOf[p]) /\ Becomes(p, "confirm")
     \/ UploadFails(p)
  /\ UNCHANGED torn

\* put ends with a stat of remote_path and compares the size.
ConfirmUpload(p) ==
  /\ upload[p] = "confirm"
  /\ \/ /\ Becomes(p, IF loc[WholeOf[p]] = "incoming" THEN "queued" ELSE "failed")
        /\ UNCHANGED <<storeVars, ingestVars, faults>>
     \/ UploadFails(p)
  /\ UNCHANGED torn

FetchesPart(p) == phase = "fetch" /\ current = p /\ loc[PartOf[p]] = "incoming"

IngestStep ==
  /\ Ingest
  /\ torn' = torn \cup {p \in ScanPath : FetchesPart(p)}
  /\ UNCHANGED upload

ScanNext ==
  \/ IngestStep
  \/ \E f \in File \ Scanned : VendorDrop(f) /\ UNCHANGED scanVars
  \/ \E f, g \in File \ Scanned : VendorRewrite(f, g) /\ UNCHANGED scanVars
  \/ \E p \in ScanPath : StartUpload(p) \/ WriteUpload(p) \/ ConfirmUpload(p)
  \/ (Crash \/ Restart \/ WorkerPops) /\ UNCHANGED scanVars

scanAllVars == <<vars, scanVars>>

ScanSpec == ScanInit /\ [][ScanNext]_scanAllVars

(***************************************************************************)
(* The fairness of FairSpec.  An upload may hang: put has no timeout.      *)
(***************************************************************************)
ScanFairSpec ==
  /\ ScanSpec
  /\ WF_scanAllVars(IngestStep)
  /\ WF_scanAllVars(WorkerPops /\ UNCHANGED scanVars)

(***************************************************************************)
(* Properties.                                                             *)
(***************************************************************************)
\* A file that the trigger answers as queued gets its job while ingest runs, unless
\* ingest fetched it half written; its fresh UUIDs keep it from being stuck.
QueuedIsIngested ==
  \A p \in ScanPath :
    upload[p] = "queued" ~> JobOf(p) \in Delivered \/ p \in torn \/ ~Running

-----------------------------------------------------------------------------
(***************************************************************************)
(* Why an upload is not lost: what its progress says of the tree.          *)
(***************************************************************************)
\* Nobody but the trigger writes its paths: what is being written can be completed,
\* wherever it is, and a complete file stays in the tree.
UploadsSeen ==
  \A p \in ScanPath :
    /\ loc[WholeOf[p]] # "rewritten"
    /\ upload[p] = "none" => loc[PartOf[p]] = "absent"
    /\ upload[p] \in {"none", "put"} => loc[WholeOf[p]] = "absent"
    /\ upload[p] = "put" => loc[PartOf[p]] \in {"incoming", "processed", "quarantine"}
    /\ upload[p] \in {"confirm", "queued"} =>
         /\ loc[PartOf[p]] = "rewritten"
         /\ loc[WholeOf[p]] \in {"incoming", "processed", "quarantine"}

\* What ingest has not fetched too early it judges and stores as a whole.
WholeUnlessTorn ==
  \A p \in ScanPath \ torn :
    /\ loc[PartOf[p]] \in {"absent", "incoming", "rewritten"}
    /\ loc[WholeOf[p]] # "quarantine"
    /\ current = p => phase # "quarantine"
    /\ current = p /\ phase \in Holding => data = WholeOf[p]
    /\ loc[WholeOf[p]] = "processed" => JobOf(p) \in Delivered

ScanInv == IngestInv /\ TreeInv /\ ScanTypeOK /\ UploadsSeen /\ WholeUnlessTorn

\* A file that the trigger answers as queued waits in incoming/ or has its job, unless
\* ingest fetched it half written.
QueuedIsKept ==
  \A p \in ScanPath \ torn :
    upload[p] = "queued" =>
      \/ loc[WholeOf[p]] = "incoming"
      \/ loc[WholeOf[p]] = "processed" /\ JobOf(p) \in Delivered

=============================================================================
