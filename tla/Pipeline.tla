------------------------------ MODULE Pipeline ------------------------------
(***************************************************************************)
(* The document pipeline: the ingest service and the worker, each at its   *)
(* own pace, over the shared stores.  docker-compose runs one container of *)
(* each.                                                                   *)
(***************************************************************************)
EXTENDS SftpIngest, ClassifyWorker

pipelineVars == <<vars, workerVars>>

PipelineInit == Init /\ WorkerInit

IngestSide == IngestNext /\ UNCHANGED workerVars

WorkerSide == WorkerNext /\ UNCHANGED ingestVars

PipelineNext == IngestSide \/ WorkerSide

PipelineSpec == PipelineInit /\ [][PipelineNext]_pipelineVars

(***************************************************************************)
(* Both processes run while they live.  Drops, deaths and restarts are up  *)
(* to the environment.                                                     *)
(***************************************************************************)
FairPipelineSpec ==
  /\ PipelineSpec
  /\ WF_pipelineVars(Ingest /\ UNCHANGED workerVars)
  /\ WF_pipelineVars(Work /\ UNCHANGED ingestVars)

PipelineTypeOK == TypeOK /\ WorkerTypeOK

-----------------------------------------------------------------------------
(***************************************************************************)
(* Properties.                                                             *)
(***************************************************************************)
\* A job of document d that is waiting or running, or whose last run failed.
JobPending(d) ==
  \E j \in Job :
    /\ j.doc = d
    /\ j \in Queued \/ registry[j] \in {"started", "failed"}

\* A predictions row belongs to a committed document of that batch, its label was
\* computed from bytes that validation accepted, and the overlay it names exists
\* (handler.py:121-158): create_idempotent alone does not check the batch.
PredictionBacked ==
  \A b \in Batch, d \in Doc : predictions[<<b, d>>] # NoPrediction =>
    LET p == predictions[<<b, d>>] IN
      /\ docRow[d] # NoRow /\ docRow[d].batch = b
      /\ Verdict[p.content] = "ok" /\ Decodes[p.content]
      /\ overlays[p.overlay] # NoFile

\* A prediction that was not computed from the document's stored object is never
\* the last word: the file that replaced the object is still to be processed, or a
\* job of the document waits, runs, or is in the failed registry for a human; or
\* else its writer took that file away before it was processed.
StalePredictionHasCause ==
  \A b \in Batch, d \in Doc :
    /\ predictions[<<b, d>>] # NoPrediction
    /\ blobs[docRow[d].key] # predictions[<<b, d>>].content
    => JobPending(d) \/ loc[blobs[docRow[d].key]] \in {"incoming", "rewritten"}

\* The overlay shown with a prediction was rendered from the bytes the prediction
\* was computed from, unless a job of the document is running or has failed since.
OverlayMatchesPrediction ==
  \A b \in Batch, d \in Doc :
    /\ predictions[<<b, d>>] # NoPrediction
    /\ overlays[predictions[<<b, d>>].overlay] # predictions[<<b, d>>].content
    => JobPending(d)

\* One run of a job commits at most one prediction and one audit entry: what is
\* retried after a failure is never a transaction that took effect.
AuditedOncePerRun == entries <= 1

\* A finished job has left its document with a prediction.
FinishedHasPrediction ==
  \A j \in Job : registry[j] = "finished" => predictions[<<j.batch, j.doc>>] # NoPrediction

\* A job in Redis does not wait forever: while the worker lives, it is taken, and
\* its run ends in the finished or the failed registry.
JobsEnd ==
  \A j \in Job :
    j \in Queued \/ registry[j] = "started"
      ~> registry[j] \in {"finished", "failed"} \/ wphase = "stopped"

\* End to end: a good document that reaches incoming/ gets a prediction, unless a
\* service stops, the document belongs to another batch, or its job is in the failed
\* registry.  A file that cannot be moved is classified all the same.
DocumentsClassified ==
  \A f \in File :
    loc[f] = "incoming" /\ Verdict[f] = "ok"
      ~> LET j == JobOf(PathOf[f]) IN
           \/ predictions[<<j.batch, j.doc>>] # NoPrediction
           \/ registry[j] = "failed"
           \/ DocumentOfOtherBatch(PathOf[f])
           \/ ~Running
           \/ wphase = "stopped"

(***************************************************************************)
(* Why they hold.                                                          *)
(***************************************************************************)
\* The worker has the bytes of the document in hand.
HasBytes == wphase \in {"predict", "overlay", "record"}

\* The job it runs was handed over by ingest, and RQ has it in the started registry.
RunsDelivered == Working => job \in Delivered /\ registry[job] = "started"

\* The bytes it works on passed validation, and decode once they are classified.
BytesValid ==
  /\ HasBytes => bytes \in File /\ Verdict[bytes] = "ok"
  /\ wphase \in {"overlay", "record"} => Decodes[bytes]

\* The overlay is stored before the prediction, and the prediction before the end.
RunDone ==
  /\ wphase = "record" => overlays[job.key] = bytes
  /\ wphase = "finish" =>
       LET p == predictions[<<job.batch, job.doc>>]
       IN  p # NoPrediction /\ p.overlay = job.key /\ overlays[job.key] = p.content

\* No entry is written before the one transaction at the end of a run.
EntriesCounted == wphase \in {"get", "predict", "overlay", "record"} => entries = 0

\* Jobs, rows and predictions have the keys of paths, so a key tells the document.
JobsKeyed == \A j \in Delivered : \E p \in Path : j = JobOf(p)

RowsKeyed ==
  \A d \in Doc : docRow[d] # NoRow =>
    /\ \E p \in Path : DocOf[p] = d /\ KeyOf[p] = docRow[d].key
    /\ blobs[docRow[d].key] # NoFile

PredictionsKeyed ==
  \A b \in Batch, d \in Doc : predictions[<<b, d>>] # NoPrediction =>
    \E p \in Path : DocOf[p] = d /\ KeyOf[p] = predictions[<<b, d>>].overlay

RunInv ==
  /\ WorkerTypeOK
  /\ RunsDelivered
  /\ BytesValid
  /\ RunDone
  /\ EntriesCounted
  /\ AuditedOncePerRun
  /\ JobsKeyed
  /\ PredictionsKeyed
  /\ PredictionBacked
  /\ FinishedHasPrediction
  /\ OverlayMatchesPrediction

\* No job of d waits: the one that runs, or the last that ran, has the last word.
NoneQueued(d) == \A i \in 1 .. Len(queue) : queue[i].doc # d

RunsFor(d) == Working /\ job.doc = d

\* The last job of d that waits is of the stored object.
LastJobKeyed(d) ==
  \A i \in 1 .. Len(queue) :
    queue[i].doc = d /\ (\A m \in i + 1 .. Len(queue) : queue[m].doc # d)
      => queue[i].key = docRow[d].key

\* The last job of d runs, and it classifies the stored object.
LastRunKeyed(d) ==
  NoneQueued(d) /\ RunsFor(d) =>
    /\ job.key = docRow[d].key
    /\ HasBytes => bytes = blobs[docRow[d].key]
    /\ wphase = "finish" => predictions[<<job.batch, d>>].content = blobs[docRow[d].key]

\* The jobs of d are through: one of them failed, or the stored object is classified.
LastRunSettled(d) ==
  NoneQueued(d) /\ ~RunsFor(d) =>
    \/ JobPending(d)
    \/ \A b \in Batch : predictions[<<b, d>>] # NoPrediction =>
         predictions[<<b, d>>].content = blobs[docRow[d].key]

LastWord(d) == LastJobKeyed(d) /\ LastRunKeyed(d) /\ LastRunSettled(d)

\* Behind StalePredictionHasCause: the queue is first in, first out, and ingest stores
\* an object before it queues the job of that object.
FreshInv ==
  /\ RowsKeyed
  /\ phase \in {"enqueue", "processed"} => docRow[DocOf[current]].key = KeyOf[current]
  /\ phase = "processed" => LastWord(DocOf[current])
  /\ \A d \in Doc : docRow[d] # NoRow => Unsettled(blobs[docRow[d].key]) \/ LastWord(d)

(***************************************************************************)
(* The two services together implement the whole lifecycle.                *)
(***************************************************************************)
PredictedRows == {r \in Batch \X Doc : predictions[r] # NoPrediction}

FullLifecycle == INSTANCE DocumentLifecycle WITH
  stored <- StoredKeys,
  rows <- CommittedRows,
  requested <- RequestedPaths,
  predicted <- PredictedRows,
  accepted <- FilesIn("processed"),
  rejected <- FilesIn("quarantine")

\* A prediction appears only for a document that was stored, registered and
\* requested before, whatever dies in between, and none of it is ever taken back.
ImplementsFullLifecycle == FullLifecycle!LifecycleSpec

=============================================================================
