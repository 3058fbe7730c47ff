--------------------------- MODULE ClassifyWorker ---------------------------
(***************************************************************************)
(* The worker service (backend/worker): one RQ worker that takes the jobs  *)
(* of the queue in order and runs classify_job in a forked work horse.  A  *)
(* run reads the document, classifies it, stores the overlay and records   *)
(* the prediction; each of these is a remote call that may fail, and the   *)
(* horse or the whole worker may die between two of them.                  *)
(***************************************************************************)
EXTENDS PipelineStores

CONSTANTS
  Decodes,       \* whether PIL decodes the pixels of a content that it can open
  NoPrediction,  \* no predictions row is committed
  NoJob          \* the worker is not running a job

\* stop_after_attempt(3) of the Retrying block of classify_job.
JobAttempts == 3

\* What a predictions row holds, as far as its provenance goes: the content its
\* label was computed from, and its overlay_url.  The overlay of a job is stored
\* under the batch and document of its key.
Prediction == [content : File, overlay : Key]

ASSUME WorkerAssumption ==
  /\ Decodes \in [File -> BOOLEAN]
  /\ NoPrediction \notin Prediction
  /\ NoJob \notin Job

VARIABLES
  wphase,       \* the remote call the worker is about to make
  job,          \* payload of the job it runs
  bytes,        \* image_bytes
  tries,        \* failed attempts of the job's Retrying block
  entries,      \* batch_state entries of audit_log that this run has committed
  registry,     \* the RQ registry that the last run of each payload is in
  overlays,     \* the overlays bucket: the content each PNG was rendered from
  predictions   \* the table predictions, unique on (batch_id, document_id)

workerVars == <<wphase, job, bytes, tries, entries, registry, overlays, predictions>>

WorkerPhase == {"stopped", "idle", "get", "predict", "overlay", "record", "finish"}

WorkerTypeOK ==
  /\ wphase \in WorkerPhase
  /\ job \in Job \cup {NoJob}
  /\ bytes \in File \cup {NoFile}
  /\ tries \in 0 .. JobAttempts - 1
  /\ entries \in 0 .. JobAttempts
  /\ registry \in [Job -> {"none", "started", "finished", "failed"}]
  /\ overlays \in [Key -> File \cup {NoFile}]
  /\ predictions \in [Batch \X Doc -> Prediction \cup {NoPrediction}]

WorkerInit ==
  /\ wphase = "idle"
  /\ job = NoJob
  /\ bytes = NoFile
  /\ tries = 0
  /\ entries = 0
  /\ registry = [j \in Job |-> "none"]
  /\ overlays = [k \in Key |-> NoFile]
  /\ predictions = [r \in Batch \X Doc |-> NoPrediction]

Working == wphase \notin {"stopped", "idle"}

-----------------------------------------------------------------------------
(***************************************************************************)
(* How a run goes on.                                                      *)
(***************************************************************************)
Proceed(next) ==
  /\ wphase' = next
  /\ UNCHANGED <<job, tries, registry>>

LeaveJob(next) ==
  /\ wphase' = next
  /\ job' = NoJob
  /\ bytes' = NoFile
  /\ tries' = 0

\* Mutant of JobFails: the exception is swallowed and RQ sees a run that returned.
FailureSwallowed ==
  /\ LeaveJob("idle")
  /\ registry' = [registry EXCEPT ![job] = "finished"]

\* The job raises: the horse reports it and RQ moves it to the failed registry.
\* enqueue gives the job no Retry, so nothing puts it back.
JobFails ==
  /\ LeaveJob("idle")
  /\ registry' = [registry EXCEPT ![job] = "failed"]

\* An OSError, ConnectionError or TimeoutError starts the next attempt, from the
\* fetch; any other exception, and the third failure, leave classify_job.
AttemptRaises ==
  \/ /\ tries + 1 < JobAttempts
     /\ tries' = tries + 1
     /\ wphase' = "get"
     /\ bytes' = NoFile
     /\ UNCHANGED <<job, registry>>
  \/ JobFails

-----------------------------------------------------------------------------
(***************************************************************************)
(* The RQ worker loop.                                                     *)
(***************************************************************************)
StartJob ==
  /\ wphase = "idle"
  /\ queue # <<>>
  /\ queue' = Tail(queue)
  /\ popped' = popped \cup {Head(queue)}
  /\ wphase' = "get"
  /\ job' = Head(queue)
  /\ registry' = [registry EXCEPT ![Head(queue)] = "started"]
  /\ UNCHANGED <<loc, blobs, docRow, batches, docCount, faults>>
  /\ entries' = 0
  /\ UNCHANGED <<bytes, tries, overlays, predictions>>

\* Only a run that returned reaches the finished registry.
FinishJob ==
  /\ wphase = "finish"
  /\ LeaveJob("idle")
  /\ registry' = [registry EXCEPT ![job] = "finished"]
  /\ UNCHANGED <<entries, overlays, predictions, storeVars, faults>>

\* Mutant of AbandonJob: no worker runs the maintenance.
NoMaintenance(j) == j \in {} /\ UNCHANGED workerVars

\* A job that a dead worker left in the started registry: maintenance of a later
\* worker finds that it is abandoned and moves it to the failed registry.
AbandonJob(j) ==
  /\ wphase # "stopped"
  /\ registry[j] = "started"
  /\ job # j
  /\ registry' = [registry EXCEPT ![j] = "failed"]
  /\ UNCHANGED <<wphase, job, bytes, tries, entries, overlays, predictions>>
  /\ UNCHANGED <<storeVars, faults>>

-----------------------------------------------------------------------------
(***************************************************************************)
(* classify_job.                                                           *)
(***************************************************************************)
FetchDocument ==
  /\ wphase = "get"
  /\ \/ /\ blobs[job.key] # NoFile
        /\ bytes' = blobs[job.key]
        /\ Proceed("predict")
        /\ UNCHANGED faults
     \/ /\ blobs[job.key] = NoFile
        /\ JobFails
        /\ UNCHANGED faults
     \/ /\ Fault
        /\ AttemptRaises
  /\ UNCHANGED <<entries, overlays, predictions, storeVars>>

\* predict_topk and render_overlay work on the bytes at hand.  Pixels that PIL
\* cannot decode raise an OSError, on every attempt.
PredictTopK ==
  /\ wphase = "predict"
  /\ \/ /\ Decodes[bytes]
        /\ Proceed("overlay")
        /\ UNCHANGED bytes
     \/ /\ ~Decodes[bytes]
        /\ AttemptRaises
  /\ UNCHANGED <<entries, overlays, predictions, storeVars, faults>>

PutOverlay == overlays' = [overlays EXCEPT ![job.key] = bytes]

\* Mutant of UploadOverlay: a failed upload is passed over.
OverlayIfPossible ==
  /\ wphase = "overlay"
  /\ (PutOverlay /\ UNCHANGED faults) \/ (Fault /\ UNCHANGED overlays)
  /\ Proceed("record")
  /\ UNCHANGED <<bytes, entries, predictions, storeVars>>

UploadOverlay ==
  /\ wphase = "overlay"
  /\ \/ /\ PutOverlay
        /\ Proceed("record")
        /\ UNCHANGED <<bytes, faults>>
     \/ /\ Fault
        /\ PutOverlay \/ UNCHANGED overlays
        /\ AttemptRaises
  /\ UNCHANGED <<entries, predictions, storeVars>>

\* Mutant of Upsert: ON CONFLICT DO NOTHING.
InsertKeepsFirst ==
  /\ predictions' = IF predictions[<<job.batch, job.doc>>] = NoPrediction
                    THEN [predictions EXCEPT ![<<job.batch, job.doc>>] =
                            [content |-> bytes, overlay |-> job.key]]
                    ELSE predictions
  /\ entries' = entries + 1

\* The transaction of WorkerPredictionService: create_idempotent and the audit
\* entry commit together.  create_idempotent checks that the document exists, not
\* that it belongs to the batch of the job.
Upsert ==
  /\ predictions' = [predictions EXCEPT ![<<job.batch, job.doc>>] =
                       [content |-> bytes, overlay |-> job.key]]
  /\ entries' = entries + 1

\* Mutant of RecordPrediction: a commit whose answer is lost is tried again.
LostCommitRetried ==
  /\ wphase = "record"
  /\ docRow[job.doc] # NoRow
  /\ Upsert
  /\ \/ /\ Proceed("finish")
        /\ UNCHANGED <<bytes, faults>>
     \/ /\ Fault
        /\ AttemptRaises
  /\ UNCHANGED <<overlays, storeVars>>

\* A failure before the commit may be an OSError and be retried; a connection
\* that breaks during the commit is reported by the driver as a database error,
\* which is not.
RecordPrediction ==
  /\ wphase = "record"
  /\ \/ /\ docRow[job.doc] # NoRow
        /\ Upsert
        /\ \/ /\ Proceed("finish")
              /\ UNCHANGED <<bytes, faults>>
           \/ /\ Fault
              /\ JobFails
     \/ /\ docRow[job.doc] = NoRow
        /\ JobFails
        /\ UNCHANGED <<entries, predictions, faults>>
     \/ /\ Fault
        /\ AttemptRaises
        /\ UNCHANGED <<entries, predictions>>
  /\ UNCHANGED <<overlays, storeVars>>

-----------------------------------------------------------------------------
(***************************************************************************)
(* Deaths.  The horse is killed (out of memory, timeout): the worker that  *)
(* forked it moves the job to the failed registry.  The container dies:    *)
(* nobody does.                                                            *)
(***************************************************************************)
HorseDies ==
  /\ Working
  /\ Fault
  /\ JobFails
  /\ UNCHANGED <<entries, overlays, predictions, storeVars>>

WorkerCrash ==
  /\ wphase # "stopped"
  /\ Fault
  /\ LeaveJob("stopped")
  /\ UNCHANGED <<entries, registry, overlays, predictions, storeVars>>

WorkerRestart ==
  /\ wphase = "stopped"
  /\ wphase' = "idle"
  /\ UNCHANGED <<job, bytes, tries, entries, registry, overlays, predictions>>
  /\ UNCHANGED <<storeVars, faults>>

Work ==
  \/ StartJob
  \/ FetchDocument
  \/ PredictTopK
  \/ UploadOverlay
  \/ RecordPrediction
  \/ FinishJob
  \/ \E j \in Job : AbandonJob(j)

WorkerNext == Work \/ HorseDies \/ WorkerCrash \/ WorkerRestart

=============================================================================
