----------------------------- MODULE SftpIngest -----------------------------
(***************************************************************************)
(* The sftp-ingest service (backend/sftp_ingest): one process that polls   *)
(* incoming/, and takes each file it listed through fetch, validation,     *)
(* upload, the document row, the queue and the move out of incoming/.      *)
(* Between any two remote calls the vendor may write, the process may die, *)
(* and every remote call may fail, with or without having had its effect.  *)
(***************************************************************************)
EXTENDS PipelineStores

CONSTANTS
  Verdict,    \* what validate_tiff says of a content: "ok", "invalid" or "raises"
  Rewrites,   \* the contents that their writer may replace by other bytes
  MaxQueue,   \* bound: no job is queued while this many are waiting
  NoPath      \* no file is being processed

\* stop_after_attempt(3) of the three retry decorators.
MaxAttempts == 3

ASSUME IngestAssumption ==
  /\ Verdict \in [File -> {"ok", "invalid", "raises"}]
  /\ Rewrites \in SUBSET File
  /\ MaxQueue \in Nat
  /\ NoPath \notin Path

VARIABLES
  phase,    \* the remote call the process is about to make
  listing,  \* the files of the last listing that are still to be processed
  current,  \* remote_path of process_remote_file
  data,     \* the bytes it fetched, once they are validated
  attempt   \* failed attempts of the current retried call

ingestVars == <<phase, listing, current, data, attempt>>
vars == <<storeVars, ingestVars, faults>>

Phase == {"stopped", "boot", "list", "next", "fetch", "upload", "row",
          "enqueue", "processed", "quarantine", "sleep"}

Running == phase # "stopped"

\* The phases of process_remote_file before and after it holds validated bytes.
Opening == {"fetch", "quarantine"}

Holding == {"upload", "row", "enqueue", "processed"}

IngestTypeOK ==
  /\ phase \in Phase
  /\ listing \in SUBSET Path
  /\ current \in IF phase \in Opening \cup Holding THEN Path ELSE {NoPath}
  /\ data \in IF phase \in Holding THEN File ELSE {NoFile}
  /\ attempt \in 0 .. MaxAttempts - 1

TypeOK == StoresTypeOK /\ IngestTypeOK

Init ==
  /\ StoresInit
  /\ phase = "boot"
  /\ listing = {}
  /\ current = NoPath
  /\ data = NoFile
  /\ attempt = 0

-----------------------------------------------------------------------------
(***************************************************************************)
(* The vendor.                                                             *)
(***************************************************************************)
At(p) == {f \in File : loc[f] = "incoming" /\ PathOf[f] = p}

VendorDrop(f) ==
  /\ loc[f] = "absent"
  /\ At(PathOf[f]) = {}
  /\ loc' = [loc EXCEPT ![f] = "incoming"]
  /\ UNCHANGED <<blobs, docRow, batches, docCount, queue, popped, ingestVars, faults>>

\* A writer that overwrites a file, or still has it open after it was moved:
\* content g takes the place of content f.
VendorRewrite(f, g) ==
  /\ f \in Rewrites
  /\ loc[f] \in {"incoming", "processed", "quarantine"}
  /\ loc[g] = "absent"
  /\ PathOf[f] = PathOf[g]
  /\ loc' = [loc EXCEPT ![f] = "rewritten", ![g] = loc[f]]
  /\ UNCHANGED <<blobs, docRow, batches, docCount, queue, popped, ingestVars, faults>>

-----------------------------------------------------------------------------
(***************************************************************************)
(* How a step of the process ends.  An exception of process_remote_file is *)
(* logged by poll_once, which goes on to the next file of its listing.     *)
(***************************************************************************)
NextFileFrom(files) ==
  /\ phase' = "next"
  /\ listing' = files
  /\ current' = NoPath
  /\ data' = NoFile
  /\ attempt' = 0

FileDone == NextFileFrom(listing)

Advance(next) ==
  /\ phase' = next
  /\ attempt' = 0
  /\ UNCHANGED <<listing, current, data>>

\* Mutant of AttemptFailed: one attempt too many.
AttemptFailedOffByOne ==
  \/ /\ attempt < MaxAttempts
     /\ attempt' = attempt + 1
     /\ UNCHANGED <<phase, listing, current, data>>
  \/ /\ attempt = MaxAttempts
     /\ FileDone

AttemptFailed ==
  \/ /\ attempt + 1 < MaxAttempts
     /\ attempt' = attempt + 1
     /\ UNCHANGED <<phase, listing, current, data>>
  \/ /\ attempt + 1 = MaxAttempts
     /\ FileDone

Stop ==
  /\ phase' = "stopped"
  /\ listing' = {}
  /\ current' = NoPath
  /\ data' = NoFile
  /\ attempt' = 0

-----------------------------------------------------------------------------
(***************************************************************************)
(* run_forever and poll_once.  An exception of ensure_buckets, of          *)
(* list_incoming or of write_heartbeat is caught nowhere: it ends the      *)
(* process, which no restart policy brings back.                           *)
(***************************************************************************)
EnsureBuckets ==
  /\ phase = "boot"
  /\ \/ /\ Advance("list")
        /\ UNCHANGED faults
     \/ /\ Fault
        /\ Stop
  /\ UNCHANGED storeVars

ListIncoming ==
  /\ phase = "list"
  /\ \/ /\ NextFileFrom({PathOf[f] : f \in {g \in File : loc[g] = "incoming"}})
        /\ UNCHANGED faults
     \/ /\ Fault
        /\ Stop
  /\ UNCHANGED storeVars

StartFile ==
  /\ phase = "next"
  /\ \E p \in listing :
       /\ listing' = listing \ {p}
       /\ current' = p
  /\ phase' = "fetch"
  /\ UNCHANGED <<data, attempt, faults, storeVars>>

EndPoll ==
  /\ phase = "next"
  /\ listing = {}
  /\ \/ /\ Advance("sleep")
        /\ UNCHANGED faults
     \/ /\ Fault
        /\ Stop
  /\ UNCHANGED storeVars

\* Mutant of Wake: incoming/ is listed once, not in every poll.
WakeWithoutListing ==
  /\ phase = "sleep"
  /\ Advance("next")
  /\ UNCHANGED <<faults, storeVars>>

Wake ==
  /\ phase = "sleep"
  /\ Advance("list")
  /\ UNCHANGED <<faults, storeVars>>

-----------------------------------------------------------------------------
(***************************************************************************)
(* process_remote_file.                                                    *)
(***************************************************************************)
\* Mutant of FetchAndValidate: any exception leads to quarantine.
QuarantineOnAnyError ==
  /\ phase = "fetch"
  /\ \/ \E f \in At(current) :
          /\ \/ /\ Verdict[f] = "ok"
                /\ phase' = "upload"
                /\ data' = f
                /\ UNCHANGED <<listing, current, attempt>>
             \/ /\ Verdict[f] # "ok"
                /\ Advance("quarantine")
          /\ UNCHANGED faults
     \/ /\ Fault
        /\ Advance("quarantine")
  /\ UNCHANGED storeVars

\* sftp.fetch, then validate_tiff on the bytes: only a FileValidationError
\* leads to quarantine, any other exception of PIL ends the file's turn.
FetchAndValidate ==
  /\ phase = "fetch"
  /\ \/ \E f \in At(current) :
          /\ \/ /\ Verdict[f] = "ok"
                /\ phase' = "upload"
                /\ data' = f
                /\ UNCHANGED <<listing, current, attempt>>
             \/ /\ Verdict[f] = "invalid"
                /\ Advance("quarantine")
             \/ /\ Verdict[f] = "raises"
                /\ FileDone
          /\ UNCHANGED faults
     \/ /\ At(current) = {}
        /\ FileDone
        /\ UNCHANGED faults
     \/ /\ Fault
        /\ FileDone
  /\ UNCHANGED storeVars

\* Mutant of PutObject: the upload reads the file once more.
PutRefetched == \E f \in At(current) : blobs' = [blobs EXCEPT ![KeyOf[current]] = f]

PutObject == blobs' = [blobs EXCEPT ![KeyOf[current]] = data]

\* Mutant of UploadWithRetry: a failed upload is logged and passed over.
UploadFailurePassedOver ==
  /\ phase = "upload"
  /\ (PutObject /\ UNCHANGED faults) \/ (Fault /\ UNCHANGED blobs)
  /\ Advance("row")
  /\ UNCHANGED <<loc, docRow, batches, docCount, queue, popped>>

UploadWithRetry ==
  /\ phase = "upload"
  /\ \/ /\ PutObject
        /\ Advance("row")
        /\ UNCHANGED faults
     \/ /\ Fault
        /\ PutObject \/ UNCHANGED blobs
        /\ AttemptFailed
  /\ UNCHANGED <<loc, docRow, batches, docCount, queue, popped>>

EnsureDocumentRow ==
  /\ phase = "row"
  /\ \/ /\ EnsureForIngest(current)
        /\ \/ /\ Advance("enqueue")
              /\ UNCHANGED faults
           \/ /\ Fault
              /\ AttemptFailed
     \/ /\ DocumentOfOtherBatch(current)
        /\ AttemptFailed
        /\ UNCHANGED <<docRow, batches, docCount, faults>>
     \/ /\ Fault
        /\ AttemptFailed
        /\ UNCHANGED <<docRow, batches, docCount>>
  /\ UNCHANGED <<loc, blobs, queue, popped>>

PushJob ==
  /\ Len(queue) < MaxQueue
  /\ queue' = Append(queue, JobOf(current))

\* Mutant of EnqueueWithRetry: a failed push is logged and passed over.
PushFailurePassedOver ==
  /\ phase = "enqueue"
  /\ (PushJob /\ UNCHANGED faults) \/ (Fault /\ UNCHANGED queue)
  /\ Advance("processed")
  /\ UNCHANGED <<loc, blobs, docRow, batches, docCount, popped>>

\* Mutant of EnqueueWithRetry: a payload that was queued before is not queued again.
EnqueueOnlyOnce ==
  /\ phase = "enqueue"
  /\ IF JobOf(current) \in Delivered THEN UNCHANGED queue ELSE PushJob
  /\ Advance("processed")
  /\ UNCHANGED <<loc, blobs, docRow, batches, docCount, popped, faults>>

EnqueueWithRetry ==
  /\ phase = "enqueue"
  /\ \/ /\ PushJob
        /\ Advance("processed")
        /\ UNCHANGED faults
     \/ /\ Fault
        /\ PushJob \/ UNCHANGED queue
        /\ AttemptFailed
  /\ UNCHANGED <<loc, blobs, docRow, batches, docCount, popped>>

\* SFTPClient._move_sync keeps only the basename, and the server refuses to
\* rename onto a file that exists.  Whatever happens the file's turn is over.
NameTaken(dir) ==
  \E f \in File : loc[f] = dir /\ NameOf[PathOf[f]] = NameOf[current]

\* Mutant of Rename: the move is started and not awaited.
RenameNotAwaited(dir) == ~NameTaken(dir) /\ UNCHANGED loc

Rename(dir) ==
  /\ ~NameTaken(dir)
  /\ \E f \in At(current) : loc' = [loc EXCEPT ![f] = dir]

Move(dir) ==
  /\ phase = dir
  /\ \/ /\ Rename(dir)
        /\ UNCHANGED faults
     \/ /\ NameTaken(dir) \/ At(current) = {}
        /\ UNCHANGED <<loc, faults>>
     \/ /\ Fault
        /\ UNCHANGED loc
  /\ FileDone
  /\ UNCHANGED <<blobs, docRow, batches, docCount, queue, popped>>

MoveToProcessed == Move("processed")

MoveToQuarantine == Move("quarantine")

-----------------------------------------------------------------------------
(***************************************************************************)
(* The container: it may be killed between any two steps, and an operator  *)
(* may start it again.                                                     *)
(***************************************************************************)
Crash ==
  /\ Running
  /\ Fault
  /\ Stop
  /\ UNCHANGED storeVars

Restart ==
  /\ ~Running
  /\ Advance("boot")
  /\ UNCHANGED <<faults, storeVars>>

Ingest ==
  \/ EnsureBuckets
  \/ ListIncoming
  \/ StartFile
  \/ EndPoll
  \/ Wake
  \/ FetchAndValidate
  \/ UploadWithRetry
  \/ EnsureDocumentRow
  \/ EnqueueWithRetry
  \/ MoveToProcessed
  \/ MoveToQuarantine

Vendor ==
  \/ \E f \in File : VendorDrop(f)
  \/ \E f, g \in File : VendorRewrite(f, g)

IngestNext == Ingest \/ Vendor \/ Crash \/ Restart

\* The worker, seen from here: something takes jobs off the queue.
WorkerPops ==
  /\ queue # <<>>
  /\ queue' = Tail(queue)
  /\ popped' = popped \cup {Head(queue)}
  /\ UNCHANGED <<loc, blobs, docRow, batches, docCount, ingestVars, faults>>

Next == IngestNext \/ WorkerPops

Spec == Init /\ [][Next]_vars

(***************************************************************************)
(* The event loop runs as long as the process lives, and the worker keeps  *)
(* taking jobs.  Nothing makes the vendor drop a file, the process crash,  *)
(* or an operator restart it.                                              *)
(***************************************************************************)
FairSpec == Spec /\ WF_vars(Ingest) /\ WF_vars(WorkerPops)

-----------------------------------------------------------------------------
(***************************************************************************)
(* Properties.                                                             *)
(***************************************************************************)
\* Every job that reaches Redis finds what the worker needs: an object under its
\* blob_key and a committed documents row of its batch, whichever call was
\* retried, reported lost or cut off by a crash (processor.py:82-84).
JobBacked == \A j \in Delivered : blobs[j.key] # NoFile /\ RowOf(j)

\* document_count is the number of documents rows of the batch and no batch row is
\* left without documents, although ensure_document_row is retried after commits
\* whose answer was lost (document_repo.py:35-46).
CountMatches ==
  \A b \in Batch :
    LET docs == {d \in Doc : docRow[d] # NoRow /\ docRow[d].batch = b}
    IN  /\ docCount[b] = Cardinality(docs)
        /\ b \in batches <=> docs # {}

\* An object of the documents bucket holds bytes that validate_tiff accepted, from
\* a file of that key: what was validated is what is uploaded, however often the
\* vendor replaces the file in between (processor.py:74-82).
BlobsValidated ==
  \A k \in Key : blobs[k] # NoFile =>
    Verdict[blobs[k]] = "ok" /\ KeyOf[PathOf[blobs[k]]] = k

\* An uploaded object is never forgotten: until its document row and its job
\* exist, the file it came from is still in incoming/, where the next poll finds it.
NoOrphanBlob ==
  \A k \in Key : blobs[k] # NoFile =>
    LET f == blobs[k] IN
      \/ loc[f] = "incoming"
      \/ JobOf(PathOf[f]) \in Delivered /\ RowOf(JobOf(PathOf[f]))

\* "Files are only moved to processed/ after successful MinIO upload and Redis
\* enqueueing" (DECISIONS.md:58): a content that enters processed/ from incoming/
\* is at that moment the stored object, with its row and its job.
MovedAfterSuccess(f) ==
  LET j == JobOf(PathOf[f]) IN blobs[j.key] = f /\ RowOf(j) /\ j \in Delivered

MoveOnSuccess ==
  [][\A f \in File :
       loc[f] = "incoming" /\ loc'[f] = "processed" => MovedAfterSuccess(f)]_vars

\* A file can be stuck for good: its basename is taken in the directory it should go
\* to, or its document belongs to another batch.
Destination(f) == IF Verdict[f] = "ok" THEN "processed" ELSE "quarantine"

Stuck(f) ==
  \/ \E g \in File : loc[g] = Destination(f) /\ NameOf[PathOf[g]] = NameOf[PathOf[f]]
  \/ DocumentOfOtherBatch(PathOf[f])

\* While the service runs, a dropped file that validation can judge and that is
\* not stuck leaves incoming/: a failure only delays it to a later poll.
EventuallySettled ==
  \A f \in File :
    loc[f] = "incoming" /\ Verdict[f] # "raises"
      ~> loc[f] # "incoming" \/ ~Running \/ Stuck(f)

\* While the service runs, the jobs it hands over come to an end: once every file
\* has left incoming/ or is refused before the queue, no job is enqueued again.
EnqueuesStop == <>[][Len(queue') <= Len(queue)]_queue

(***************************************************************************)
(* Why they hold.                                                          *)
(***************************************************************************)
\* The bytes in hand are those of the current file, and validation accepted them.
HoldsValid == phase \in Holding => Verdict[data] = "ok" /\ PathOf[data] = current

\* Each call finds the effects of the calls before it.
CallsDone ==
  /\ phase \in {"row", "enqueue", "processed"} => blobs[KeyOf[current]] = data
  /\ phase \in {"enqueue", "processed"} => RowOf(JobOf(current))
  /\ phase = "processed" => JobOf(current) \in Delivered

\* The inductive invariant behind JobBacked and BlobsValidated.
IngestInv == TypeOK /\ HoldsValid /\ CallsDone /\ JobBacked /\ BlobsValidated

\* A path of incoming/ holds one file: a drop finds it free, a rewrite takes its place.
OneFileAtPath ==
  \A f, g \in File :
    loc[f] = "incoming" /\ loc[g] = "incoming" /\ PathOf[f] = PathOf[g] => f = g

\* The writer of a content has it still in incoming/, or has replaced it.
Unsettled(f) == loc[f] \in {"incoming", "rewritten"}

\* What the tree, the objects and the file in hand say of each other, whoever rewrites
\* what: nothing is stored before it was dropped, the bytes in hand were not moved yet,
\* and the file on its way to quarantine/ was not stored.
TreeInv ==
  /\ OneFileAtPath
  /\ \A k \in Key : blobs[k] # NoFile => loc[blobs[k]] # "absent"
  /\ phase \in Holding => Unsettled(data)
  /\ phase = "quarantine" => \A f \in At(current), k \in Key : blobs[k] # f

\* As long as no acceptable content is replaced.
AcceptableStays == \A f \in File : loc[f] = "rewritten" => Verdict[f] # "ok"

\* As long as only contents are replaced that validation cannot judge: the file on its
\* way to quarantine/ is the one that was rejected, and what was moved stays as it is.
SettledRightly ==
  /\ \A f \in File :
       /\ loc[f] = "processed" => Verdict[f] = "ok"
       /\ loc[f] = "quarantine" => Verdict[f] = "invalid"
  /\ phase = "quarantine" =>
       At(current) # {} /\ \A f \in At(current) : Verdict[f] = "invalid"

(***************************************************************************)
(* The service implements the lifecycle that ADR-M3-02 promises, as far as *)
(* the queue: predictions are the worker's business.                       *)
(***************************************************************************)
StoredKeys == {k \in Key : blobs[k] # NoFile}

CommittedRows == {r \in Batch \X Doc : docRow[r[2]] # NoRow /\ docRow[r[2]].batch = r[1]}

RequestedPaths == {p \in Path : JobOf(p) \in Delivered}

FilesIn(dir) == {f \in File : loc[f] = dir}

Acceptable == {f \in File : Verdict[f] = "ok"}

Lifecycle == INSTANCE DocumentLifecycle WITH
  stored <- StoredKeys,
  rows <- CommittedRows,
  requested <- RequestedPaths,
  predicted <- {},
  accepted <- FilesIn("processed"),
  rejected <- FilesIn("quarantine")

\* Every behaviour of the ingest service, with its faults and crashes, is a
\* behaviour of the lifecycle: the effects of a step are seen in the promised order.
ImplementsLifecycle == Lifecycle!LifecycleSpec

=============================================================================
