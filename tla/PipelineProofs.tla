---------------------------- MODULE PipelineProofs ----------------------------
(***************************************************************************)
(* Proofs about the ingest service and the worker together, for every SFTP *)
(* tree, every queue bound, every number of faults, and any files that     *)
(* writers replace.                                                        *)
(***************************************************************************)
EXTENDS Pipeline, SftpIngestLifecycleProofs

PipelineInv == IngestInv /\ RunInv

-----------------------------------------------------------------------------
(***************************************************************************)
(* What one service sees of a step of the other.                           *)
(***************************************************************************)
\* The worker's pop is the one that SftpIngest leaves to its environment.
LEMMA StartJobPops ==
  ASSUME StartJob, UNCHANGED ingestVars
  PROVE  WorkerPops
  BY DEF StartJob, WorkerPops

\* Every other step of the worker leaves the stores it shares alone.
LEMMA WorkerStepStores ==
  ASSUME WorkerNext
  PROVE  \/ StartJob
         \/ UNCHANGED storeVars /\ (Fault \/ UNCHANGED faults)
  BY DEF WorkerNext, Work, FetchDocument, PredictTopK, UploadOverlay, RecordPrediction,
         FinishJob, AbandonJob, HorseDies, WorkerCrash, WorkerRestart

\* Counting a fault changes nothing that ingest relies on.
LEMMA FaultKeepsIngest ==
  ASSUME IngestInv, UNCHANGED <<storeVars, ingestVars>>, Fault \/ UNCHANGED faults
  PROVE  IngestInv'
<1>1. TypeOK'
  BY StoresAssumption
  DEF IngestInv, TypeOK, StoresTypeOK, IngestTypeOK, storeVars, ingestVars, Fault
<1>2. HoldsValid' /\ CallsDone' /\ JobBacked' /\ BlobsValidated'
  BY AllKept DEF storeVars, ingestVars
<1> QED
  BY <1>1, <1>2 DEF IngestInv

\* The invariant of the ingest service holds beside the worker as well.
LEMMA NextIngestInvKept == IngestInv /\ [PipelineNext]_pipelineVars => IngestInv'
<1> SUFFICES ASSUME IngestInv, [PipelineNext]_pipelineVars
             PROVE  IngestInv'
  OBVIOUS
<1>1. CASE IngestSide
  BY <1>1, NextIngestInv DEF IngestSide, Next
<1>2. CASE WorkerSide /\ StartJob
  BY <1>2, StartJobPops, NextIngestInv DEF WorkerSide, Next
<1>3. CASE WorkerSide /\ ~StartJob
  BY <1>3, WorkerStepStores, FaultKeepsIngest DEF WorkerSide
<1>4. CASE UNCHANGED pipelineVars
  BY <1>4, NextIngestInv DEF pipelineVars
<1> QED
  BY <1>1, <1>2, <1>3, <1>4 DEF PipelineNext

\* What the worker sees of a step of ingest: no row is taken away or moved to another
\* batch, and at most one job is added, of a path.
LEMMA IngestStepSeen ==
  ASSUME IngestInv, IngestNext
  PROVE  /\ \A d \in Doc : docRow[d] # NoRow =>
              docRow'[d] # NoRow /\ docRow'[d].batch = docRow[d].batch
         /\ Delivered \subseteq Delivered'
         /\ Queued \subseteq Queued'
         /\ \A j \in Delivered' \ Delivered : \E p \in Path : j = JobOf(p)
         /\ UNCHANGED popped
<1>t. TypeOK /\ StoresTypeOK /\ queue \in Seq(Job)
  BY DEF IngestInv, TypeOK, StoresTypeOK
<1>1. CASE UNCHANGED <<docRow, queue, popped>>
  BY <1>1 DEF Delivered, Queued
<1>2. CASE EnsureDocumentRow
  <2>1. current \in Path
    BY <1>2 DEF EnsureDocumentRow, IngestInv, TypeOK, IngestTypeOK, Holding
  <2>2. CASE UNCHANGED docRow
    BY <1>1, <1>2, <2>2 DEF EnsureDocumentRow
  <2>3. CASE EnsureForIngest(current)
    <3>1. /\ DocOf[current] \in Doc /\ BatchOf[current] \in Batch /\ KeyOf[current] \in Key
          /\ docRow \in [Doc -> [batch : Batch, key : Key] \cup {NoRow}]
          /\ docRow' = [docRow EXCEPT ![DocOf[current]] =
                          [batch |-> BatchOf[current], key |-> KeyOf[current]]]
          /\ docRow[DocOf[current]] # NoRow =>
               docRow[DocOf[current]].batch = BatchOf[current]
      BY <1>t, <2>1, <2>3, StoresAssumption
      DEF StoresTypeOK, EnsureForIngest, DocumentOfOtherBatch
    <3>2. docRow'[DocOf[current]] # NoRow /\ docRow'[DocOf[current]].batch = BatchOf[current]
      BY <3>1, StoresAssumption
    <3>3. \A d \in Doc : docRow[d] # NoRow =>
            docRow'[d] # NoRow /\ docRow'[d].batch = docRow[d].batch
      BY <3>1, <3>2
    <3> QED
      BY <1>2, <3>3 DEF EnsureDocumentRow, Delivered, Queued
  <2> QED
    BY <1>2, <2>2, <2>3 DEF EnsureDocumentRow
<1>3. CASE EnqueueWithRetry
  <2>1. UNCHANGED <<docRow, popped>>
    BY <1>3 DEF EnqueueWithRetry
  <2>2. CASE UNCHANGED queue
    BY <1>1, <2>1, <2>2
  <2>3. CASE PushJob
    <3>1. PICK p \in Path : p = current
      BY <1>3 DEF EnqueueWithRetry, IngestInv, TypeOK, IngestTypeOK, Holding
    <3>2. queue' = Append(queue, JobOf(p)) /\ JobOf(p) \in Job
      BY <2>3, <3>1, JobOfType DEF PushJob
    <3>3. Queued' = Queued \cup {JobOf(p)}
      BY <1>t, <3>2, AppendQueued DEF Queued
    <3> QED
      BY <2>1, <3>3 DEF Delivered
  <2> QED
    BY <1>3, <2>2, <2>3 DEF EnqueueWithRetry
<1>4. EnsureDocumentRow \/ EnqueueWithRetry \/ UNCHANGED <<docRow, queue, popped>>
  BY DEF IngestNext, Ingest, Vendor, VendorDrop, VendorRewrite, EnsureBuckets,
         ListIncoming, StartFile, EndPoll, Wake, FetchAndValidate, UploadWithRetry,
         MoveToProcessed, MoveToQuarantine, Move, Crash, Restart, storeVars
<1> QED
  BY <1>1, <1>2, <1>3, <1>4

-----------------------------------------------------------------------------
(***************************************************************************)
(* The run in hand and its types.                                          *)
(***************************************************************************)
\* Every job ever delivered is a payload, and so is the one that runs.
LEMMA DeliveredType ==
  ASSUME TypeOK
  PROVE  Delivered \subseteq Job /\ Queued \subseteq Job
  BY DEF TypeOK, StoresTypeOK, Delivered, Queued

\* The job that runs has its fields, its row and its object.
LEMMA RunBacked ==
  ASSUME PipelineInv, Working
  PROVE  /\ job \in Job /\ job.batch \in Batch /\ job.doc \in Doc /\ job.key \in Key
         /\ docRow[job.doc] # NoRow /\ docRow[job.doc].batch = job.batch
         /\ blobs[job.key] \in File
         /\ registry[job] = "started"
<1>1. job \in Delivered /\ registry[job] = "started"
  BY DEF PipelineInv, RunInv, RunsDelivered
<1>2. job \in Job
  BY <1>1, DeliveredType DEF PipelineInv, IngestInv
<1>3. blobs[job.key] # NoFile /\ RowOf(job)
  BY <1>1 DEF PipelineInv, IngestInv, JobBacked
<1>4. blobs \in [Key -> File \cup {NoFile}]
  BY DEF PipelineInv, IngestInv, TypeOK, StoresTypeOK
<1> QED
  BY <1>1, <1>2, <1>3, <1>4 DEF Job, RowOf

\* A run that raises keeps the worker's types, whichever attempt it was.
LEMMA AttemptRaisesType ==
  ASSUME WorkerTypeOK, Working, job \in Job, AttemptRaises
  PROVE  /\ wphase' \in WorkerPhase
         /\ job' \in Job \cup {NoJob}
         /\ bytes' \in File \cup {NoFile}
         /\ tries' \in 0 .. JobAttempts - 1
         /\ registry' \in [Job -> {"none", "started", "finished", "failed"}]
  BY DEF WorkerTypeOK, AttemptRaises, JobFails, LeaveJob, JobAttempts, WorkerPhase

\* The worker's variables have their types at the start.
LEMMA InitWorkerType == WorkerInit => WorkerTypeOK
  BY DEF WorkerInit, WorkerTypeOK, WorkerPhase, JobAttempts

\* The transaction of a run writes a row of the table.
LEMMA UpsertType ==
  ASSUME WorkerTypeOK, job \in Job, bytes \in File, entries = 0, Upsert
  PROVE  /\ entries' = 1
         /\ predictions' \in [Batch \X Doc -> Prediction \cup {NoPrediction}]
<1>1. <<job.batch, job.doc>> \in Batch \X Doc /\ job.key \in Key
  BY DEF Job
<1>2. [content |-> bytes, overlay |-> job.key] \in Prediction
  BY <1>1 DEF Prediction
<1> QED
  BY <1>1, <1>2 DEF WorkerTypeOK, Upsert

\* Every step of the worker keeps its types.
LEMMA WorkerStepType ==
  ASSUME PipelineInv, WorkerNext
  PROVE  WorkerTypeOK'
<1> USE DEF WorkerTypeOK, WorkerPhase, JobAttempts, LeaveJob
<1>t. /\ WorkerTypeOK
      /\ HasBytes => bytes \in File
      /\ EntriesCounted
  BY DEF PipelineInv, RunInv, BytesValid
<1>1. CASE StartJob
  <2>1. queue \in Seq(Job) /\ queue # <<>>
    BY <1>1 DEF StartJob, PipelineInv, IngestInv, TypeOK, StoresTypeOK
  <2>2. Head(queue) \in Job
    BY <2>1
  <2> QED
    BY <1>1, <1>t, <2>2 DEF StartJob
<1>2. CASE FetchDocument
  <2>1. job \in Job /\ blobs[job.key] \in File /\ Working
    BY <1>2, RunBacked DEF FetchDocument, Working
  <2> QED
    BY <1>2, <1>t, <2>1, AttemptRaisesType DEF FetchDocument, Proceed, JobFails
<1>3. CASE PredictTopK
  <2>1. job \in Job /\ Working
    BY <1>3, RunBacked DEF PredictTopK, Working
  <2> QED
    BY <1>3, <1>t, <2>1, AttemptRaisesType DEF PredictTopK, Proceed
<1>4. CASE UploadOverlay
  <2>1. job \in Job /\ job.key \in Key /\ Working
    BY <1>4, RunBacked DEF UploadOverlay, Working
  <2>2. overlays' \in [Key -> File \cup {NoFile}]
    BY <1>4, <1>t, <2>1 DEF UploadOverlay, PutOverlay
  <2> QED
    BY <1>4, <1>t, <2>1, <2>2, AttemptRaisesType DEF UploadOverlay, Proceed
<1>5. CASE RecordPrediction
  <2>1. job \in Job /\ Working /\ bytes \in File /\ entries = 0
    BY <1>5, <1>t, RunBacked DEF RecordPrediction, Working, HasBytes, EntriesCounted
  <2>2. /\ entries' \in 0 .. 3
        /\ predictions' \in [Batch \X Doc -> Prediction \cup {NoPrediction}]
    BY <1>5, <1>t, <2>1, UpsertType DEF RecordPrediction
  <2>3. /\ wphase' \in WorkerPhase
        /\ job' \in Job \cup {NoJob}
        /\ bytes' \in File \cup {NoFile}
        /\ tries' \in 0 .. JobAttempts - 1
        /\ registry' \in [Job -> {"none", "started", "finished", "failed"}]
    BY <1>5, <1>t, <2>1, AttemptRaisesType DEF RecordPrediction, Proceed, JobFails
  <2>4. overlays' = overlays
    BY <1>5 DEF RecordPrediction
  <2> QED
    BY <1>t, <2>2, <2>3, <2>4
<1>6. CASE FinishJob \/ HorseDies \/ WorkerCrash \/ WorkerRestart
  BY <1>6, <1>t DEF FinishJob, HorseDies, JobFails, WorkerCrash, WorkerRestart
<1>7. CASE \E j \in Job : AbandonJob(j)
  BY <1>7, <1>t DEF AbandonJob
<1> QED
  BY <1>1, <1>2, <1>3, <1>4, <1>5, <1>6, <1>7 DEF WorkerNext, Work

-----------------------------------------------------------------------------
(***************************************************************************)
(* RunInv: what one step of either service keeps.                          *)
(***************************************************************************)
\* A worker that runs nothing has nothing to be right about.
LEMMA RunOver ==
  ASSUME wphase' \in {"idle", "stopped"}
  PROVE  RunsDelivered' /\ BytesValid' /\ RunDone' /\ EntriesCounted'
  BY DEF RunsDelivered, BytesValid, RunDone, EntriesCounted, Working, HasBytes

\* What was recorded stays true while nothing is recorded, as long as no job finishes
\* and no pending job is forgotten.
LEMMA ResultsKept ==
  ASSUME RunInv, UNCHANGED <<docRow, overlays, predictions>>,
         \A j \in Job : registry'[j] = "finished" => registry[j] = "finished",
         \A d \in Doc : JobPending(d) => JobPending(d)'
  PROVE  PredictionsKeyed' /\ PredictionBacked' /\ FinishedHasPrediction'
           /\ OverlayMatchesPrediction'
<1>1. PredictionsKeyed' /\ PredictionBacked'
  BY DEF RunInv, PredictionsKeyed, PredictionBacked
<1>2. FinishedHasPrediction'
  BY DEF RunInv, FinishedHasPrediction
<1>3. OverlayMatchesPrediction'
  BY DEF RunInv, OverlayMatchesPrediction
<1> QED
  BY <1>1, <1>2, <1>3

\* A failed run leaves its job in the failed registry, where it is pending for a human.
LEMMA FailedIsPending ==
  ASSUME WorkerTypeOK, job \in Job, UNCHANGED queue,
         registry' = [registry EXCEPT ![job] = "failed"]
  PROVE  /\ \A d \in Doc : JobPending(d) => JobPending(d)'
         /\ \A j \in Job : registry'[j] = "finished" => registry[j] = "finished"
<1>1. \A j \in Job : j # job => registry'[j] = registry[j]
  BY DEF WorkerTypeOK
<1>2. registry'[job] = "failed"
  BY DEF WorkerTypeOK
<1>3. Queued' = Queued
  BY DEF Queued
<1> QED
  BY <1>1, <1>2, <1>3 DEF JobPending

\* A run that ends without a result keeps what is known.
LEMMA RunEnds ==
  ASSUME PipelineInv, Working, WorkerTypeOK', wphase' \in {"idle", "stopped"},
         UNCHANGED <<entries, overlays, predictions>>, UNCHANGED storeVars,
         registry' = [registry EXCEPT ![job] = "failed"] \/ UNCHANGED registry
  PROVE  RunInv'
<1>1. job \in Job /\ WorkerTypeOK
  BY RunBacked DEF PipelineInv, RunInv
<1>2. Delivered' = Delivered /\ Queued' = Queued
  BY DEF storeVars, Delivered, Queued
<1>3. JobsKeyed' /\ AuditedOncePerRun'
  BY <1>2 DEF PipelineInv, RunInv, JobsKeyed, AuditedOncePerRun
<1>4. /\ \A d \in Doc : JobPending(d) => JobPending(d)'
      /\ \A j \in Job : registry'[j] = "finished" => registry[j] = "finished"
  BY <1>1, <1>2, FailedIsPending DEF storeVars, JobPending
<1>5. PredictionsKeyed' /\ PredictionBacked' /\ FinishedHasPrediction'
        /\ OverlayMatchesPrediction'
  BY <1>4, ResultsKept DEF PipelineInv, storeVars
<1> QED
  BY <1>3, <1>5, RunOver DEF RunInv

\* A run whose attempt fails starts over or fails, and keeps what is known.
LEMMA RunRaises ==
  ASSUME PipelineInv, Working, WorkerTypeOK', wphase # "finish", AttemptRaises,
         UNCHANGED <<entries, overlays, predictions>>, UNCHANGED storeVars
  PROVE  RunInv'
<1>1. CASE JobFails
  BY <1>1, RunEnds DEF JobFails, LeaveJob
<1>2. CASE wphase' = "get" /\ UNCHANGED <<job, registry>>
  <2>1. Delivered' = Delivered /\ Queued' = Queued
    BY DEF storeVars, Delivered, Queued
  <2>2. RunsDelivered' /\ EntriesCounted'
    BY <1>2, <2>1
    DEF PipelineInv, RunInv, RunsDelivered, EntriesCounted, Working, WorkerTypeOK, WorkerPhase
  <2>3. BytesValid' /\ RunDone'
    BY <1>2 DEF BytesValid, RunDone, HasBytes
  <2>4. JobsKeyed' /\ AuditedOncePerRun'
    BY <2>1 DEF PipelineInv, RunInv, JobsKeyed, AuditedOncePerRun
  <2>5. \A d \in Doc : JobPending(d) => JobPending(d)'
    BY <1>2, <2>1 DEF JobPending
  <2>6. PredictionsKeyed' /\ PredictionBacked' /\ FinishedHasPrediction'
          /\ OverlayMatchesPrediction'
    BY <1>2, <2>5, ResultsKept DEF PipelineInv, storeVars
  <2> QED
    BY <2>2, <2>3, <2>4, <2>6 DEF RunInv
<1> QED
  BY <1>1, <1>2 DEF AttemptRaises

\* A call that succeeds takes the run to its next phase and leaves the rest alone.
LEMMA RunProceeds ==
  ASSUME PipelineInv, Working, WorkerTypeOK', NEW next, Proceed(next), next \in WorkerPhase,
         UNCHANGED <<entries, predictions>>, UNCHANGED storeVars,
         next \in {"predict", "overlay", "record"}, wphase # "finish",
         BytesValid', RunDone', OverlayMatchesPrediction',
         \A k \in Key : overlays[k] # NoFile => overlays'[k] # NoFile
  PROVE  RunInv'
<1>1. Delivered' = Delivered /\ Queued' = Queued
  BY DEF storeVars, Delivered, Queued
<1>2. RunsDelivered' /\ EntriesCounted'
  BY <1>1
  DEF PipelineInv, RunInv, RunsDelivered, EntriesCounted, Working, Proceed, WorkerTypeOK, WorkerPhase
<1>3. JobsKeyed' /\ AuditedOncePerRun' /\ FinishedHasPrediction' /\ PredictionsKeyed'
  BY <1>1
  DEF PipelineInv, RunInv, JobsKeyed, AuditedOncePerRun, FinishedHasPrediction,
      PredictionsKeyed, Proceed
<1>4. PredictionBacked'
  <2> SUFFICES ASSUME NEW b \in Batch, NEW d \in Doc, predictions[<<b, d>>] # NoPrediction
               PROVE  overlays'[predictions[<<b, d>>].overlay] # NoFile
    BY DEF PipelineInv, RunInv, PredictionBacked, storeVars
  <2>1. predictions[<<b, d>>] \in Prediction
    BY DEF PipelineInv, RunInv, WorkerTypeOK
  <2>2. predictions[<<b, d>>].overlay \in Key
    BY <2>1 DEF Prediction
  <2> QED
    BY <2>2 DEF PipelineInv, RunInv, PredictionBacked
<1> QED
  BY <1>2, <1>3, <1>4 DEF RunInv


\* A step of ingest leaves every part of what the worker has done in place.
LEMMA IngestKeepsRun ==
  ASSUME PipelineInv, IngestNext, UNCHANGED workerVars
  PROVE  RunInv'
<1> USE DEF workerVars
<1>1. RunInv /\ IngestInv
  BY DEF PipelineInv
<1>2. /\ \A d \in Doc : docRow[d] # NoRow =>
           docRow'[d] # NoRow /\ docRow'[d].batch = docRow[d].batch
      /\ Delivered \subseteq Delivered'
      /\ Queued \subseteq Queued'
      /\ \A j \in Delivered' \ Delivered : \E p \in Path : j = JobOf(p)
  BY <1>1, IngestStepSeen
<1>3. WorkerTypeOK' /\ AuditedOncePerRun' /\ EntriesCounted'
  BY <1>1 DEF RunInv, WorkerTypeOK, AuditedOncePerRun, EntriesCounted
<1>4. RunsDelivered' /\ JobsKeyed'
  BY <1>1, <1>2 DEF RunInv, RunsDelivered, JobsKeyed, Working
<1>5. BytesValid' /\ RunDone'
  BY <1>1 DEF RunInv, BytesValid, RunDone, HasBytes
<1>6. PredictionsKeyed' /\ FinishedHasPrediction'
  BY <1>1 DEF RunInv, PredictionsKeyed, FinishedHasPrediction
<1>7. PredictionBacked'
  BY <1>1, <1>2 DEF RunInv, PredictionBacked
<1>8. \A d \in Doc : JobPending(d) => JobPending(d)'
  BY <1>2 DEF JobPending
<1>9. OverlayMatchesPrediction'
  BY <1>1, <1>8 DEF RunInv, OverlayMatchesPrediction
<1> QED
  BY <1>3, <1>4, <1>5, <1>6, <1>7, <1>9 DEF RunInv

\* The worker takes a job: it stays pending, as the run that is started.
LEMMA StartJobKeepsRun ==
  ASSUME PipelineInv, StartJob, UNCHANGED ingestVars
  PROVE  RunInv'
<1>1. queue \in Seq(Job) /\ queue # <<>> /\ queue' = Tail(queue)
      /\ Head(queue) \in Job /\ registry \in [Job -> {"none", "started", "finished", "failed"}]
  BY DEF StartJob, PipelineInv, IngestInv, TypeOK, StoresTypeOK, RunInv, WorkerTypeOK
<1>2. Delivered' = Delivered
  BY StartJobPops, PopDelivers DEF PipelineInv, IngestInv
<1>3. Queued = Queued' \cup {Head(queue)}
  BY <1>1, TailQueued DEF Queued
<1>4. registry'[Head(queue)] = "started" /\ \A j \in Job : j # Head(queue) => registry'[j] = registry[j]
  BY <1>1 DEF StartJob
<1>5. WorkerTypeOK'
  BY WorkerStepType DEF WorkerNext, Work
<1>6. RunsDelivered' /\ JobsKeyed'
  BY <1>2, <1>3, <1>4 DEF StartJob, RunsDelivered, PipelineInv, RunInv, JobsKeyed, Delivered
<1>7. BytesValid' /\ RunDone' /\ EntriesCounted' /\ AuditedOncePerRun'
  BY DEF StartJob, BytesValid, RunDone, EntriesCounted, AuditedOncePerRun, HasBytes
<1>8. \A d \in Doc : JobPending(d) => JobPending(d)'
  BY <1>1, <1>3, <1>4 DEF JobPending
<1>9. \A j \in Job : registry'[j] = "finished" => registry[j] = "finished"
  BY <1>4
<1>10. PredictionsKeyed' /\ PredictionBacked' /\ FinishedHasPrediction'
         /\ OverlayMatchesPrediction'
  BY <1>8, <1>9, ResultsKept DEF PipelineInv, StartJob
<1> QED
  BY <1>5, <1>6, <1>7, <1>10 DEF RunInv

\* The fetch brings bytes that ingest had validated.
LEMMA FetchDocumentKeepsRun ==
  ASSUME PipelineInv, FetchDocument
  PROVE  RunInv'
<1>1. /\ Working /\ wphase # "finish" /\ WorkerTypeOK'
      /\ job.key \in Key /\ blobs[job.key] \in File /\ Verdict[blobs[job.key]] = "ok"
  <2>1. Working /\ wphase # "finish" /\ WorkerTypeOK'
    BY WorkerStepType DEF FetchDocument, Working, WorkerNext, Work
  <2>2. job.key \in Key /\ blobs[job.key] \in File
    BY <2>1, RunBacked
  <2> QED
    BY <2>1, <2>2, StoresAssumption DEF PipelineInv, IngestInv, BlobsValidated
<1>2. CASE AttemptRaises
  BY <1>1, <1>2, RunRaises DEF FetchDocument
<1>3. CASE bytes' = blobs[job.key] /\ Proceed("predict")
  <2>1. BytesValid' /\ RunDone'
    BY <1>1, <1>3 DEF Proceed, BytesValid, RunDone, HasBytes
  <2>2. OverlayMatchesPrediction' /\ UNCHANGED <<entries, overlays, predictions>>
        /\ UNCHANGED storeVars
    BY <1>3
    DEF FetchDocument, Proceed, PipelineInv, RunInv, OverlayMatchesPrediction, JobPending,
        Queued, storeVars
  <2> QED
    BY <1>1, <1>3, <2>1, <2>2, RunProceeds DEF WorkerPhase
<1> QED
  BY <1>1, <1>2, <1>3 DEF FetchDocument, AttemptRaises

\* Only pixels that decode are classified.
LEMMA PredictTopKKeepsRun ==
  ASSUME PipelineInv, PredictTopK
  PROVE  RunInv'
<1>1. Working /\ wphase # "finish" /\ WorkerTypeOK'
  BY WorkerStepType DEF PredictTopK, Working, WorkerNext, Work
<1>2. CASE AttemptRaises
  BY <1>1, <1>2, RunRaises DEF PredictTopK
<1>3. CASE Decodes[bytes] /\ Proceed("overlay") /\ UNCHANGED bytes
  <2>1. BytesValid' /\ RunDone'
    BY <1>3
    DEF PredictTopK, Proceed, PipelineInv, RunInv, BytesValid, RunDone, HasBytes
  <2>2. OverlayMatchesPrediction' /\ UNCHANGED <<entries, overlays, predictions>>
        /\ UNCHANGED storeVars
    BY <1>3
    DEF PredictTopK, Proceed, PipelineInv, RunInv, OverlayMatchesPrediction, JobPending,
        Queued, storeVars
  <2> QED
    BY <1>1, <1>3, <2>1, <2>2, RunProceeds DEF WorkerPhase
<1> QED
  BY <1>2, <1>3 DEF PredictTopK

\* An overlay is replaced only for the document whose job runs.
LEMMA PutOverlayKeeps ==
  ASSUME PipelineInv, Working, HasBytes, PutOverlay, UNCHANGED predictions
  PROVE  /\ \A k \in Key : overlays[k] # NoFile => overlays'[k] # NoFile
         /\ overlays'[job.key] = bytes
         /\ \A b \in Batch, d \in Doc :
              predictions[<<b, d>>] # NoPrediction /\ d # job.doc
                => overlays'[predictions[<<b, d>>].overlay] = overlays[predictions[<<b, d>>].overlay]
<1>1. /\ job \in Job /\ job.key \in Key /\ bytes \in File
      /\ overlays \in [Key -> File \cup {NoFile}]
  BY RunBacked DEF PipelineInv, RunInv, BytesValid, WorkerTypeOK
<1>2. PICK p \in Path : job = JobOf(p)
  BY DEF PipelineInv, RunInv, RunsDelivered, JobsKeyed
<1>3. KeyOf[p] = job.key /\ DocOf[p] = job.doc
  BY <1>2 DEF JobOf
<1>4. \A k \in Key : k # job.key => overlays'[k] = overlays[k]
  BY <1>1 DEF PutOverlay
<1>5. overlays'[job.key] = bytes /\ bytes # NoFile
  BY <1>1, StoresAssumption DEF PutOverlay
<1>6. ASSUME NEW b \in Batch, NEW d \in Doc, predictions[<<b, d>>] # NoPrediction, d # job.doc
      PROVE  overlays'[predictions[<<b, d>>].overlay] = overlays[predictions[<<b, d>>].overlay]
  <2>1. PICK q \in Path : DocOf[q] = d /\ KeyOf[q] = predictions[<<b, d>>].overlay
    BY <1>6 DEF PipelineInv, RunInv, PredictionsKeyed
  <2>2. KeyOf[q] # job.key
    BY <1>3, <1>6, <2>1, StoresAssumption
  <2>3. KeyOf[q] \in Key
    BY StoresAssumption
  <2> QED
    BY <1>4, <2>1, <2>2, <2>3
<1> QED
  BY <1>4, <1>5, <1>6

\* Then the overlays of the other documents still show what they were predicted from.
LEMMA OverlaysMatch ==
  ASSUME OverlayMatchesPrediction, UNCHANGED predictions,
         \A b \in Batch, d \in Doc :
           predictions[<<b, d>>] # NoPrediction /\ d # job.doc
             => overlays'[predictions[<<b, d>>].overlay] = overlays[predictions[<<b, d>>].overlay],
         \A d \in Doc : JobPending(d) => JobPending(d)',
         \A d \in Doc : d = job.doc => JobPending(d)'
  PROVE  OverlayMatchesPrediction'
<1> SUFFICES ASSUME NEW b \in Batch, NEW d \in Doc,
                    predictions[<<b, d>>] # NoPrediction,
                    overlays'[predictions[<<b, d>>].overlay] # predictions[<<b, d>>].content
             PROVE  JobPending(d)'
  BY DEF OverlayMatchesPrediction
<1>1. CASE d = job.doc
  BY <1>1
<1>2. CASE d # job.doc
  BY <1>2 DEF OverlayMatchesPrediction
<1> QED
  BY <1>1, <1>2

\* While the overlay of a document is replaced, a job of the document runs.
LEMMA UploadOverlayKeepsRun ==
  ASSUME PipelineInv, UploadOverlay
  PROVE  RunInv'
<1>1. Working /\ HasBytes /\ wphase # "finish" /\ WorkerTypeOK'
  BY WorkerStepType DEF UploadOverlay, Working, WorkerNext, Work, HasBytes
<1>2. CASE UNCHANGED overlays /\ AttemptRaises
  BY <1>1, <1>2, RunRaises DEF UploadOverlay
<1>3. CASE PutOverlay
  <2>1. /\ UNCHANGED <<entries, predictions>> /\ UNCHANGED storeVars
        /\ \A k \in Key : overlays[k] # NoFile => overlays'[k] # NoFile
        /\ overlays'[job.key] = bytes
        /\ \A b \in Batch, d \in Doc :
             predictions[<<b, d>>] # NoPrediction /\ d # job.doc
               => overlays'[predictions[<<b, d>>].overlay] = overlays[predictions[<<b, d>>].overlay]
    BY <1>1, <1>3, PutOverlayKeeps DEF UploadOverlay
  <2>2. job \in Job /\ registry[job] = "started"
    BY <1>1, RunBacked
  <2>3. Queued' = Queued
    BY <2>1 DEF storeVars, Queued
  <2>4. CASE Proceed("record") /\ UNCHANGED bytes
    <3>1. BytesValid' /\ RunDone'
      BY <1>1, <2>1, <2>4
      DEF UploadOverlay, Proceed, PipelineInv, RunInv, BytesValid, RunDone, HasBytes
    <3>2. \A d \in Doc : d = job.doc => JobPending(d)'
      BY <2>2, <2>4 DEF JobPending, Proceed
    <3>3. \A d \in Doc : JobPending(d) => JobPending(d)'
      BY <2>3, <2>4 DEF JobPending, Proceed
    <3>4. OverlayMatchesPrediction'
      BY <2>1, <3>2, <3>3, OverlaysMatch DEF PipelineInv, RunInv
    <3> QED
      BY <1>1, <2>1, <2>4, <3>1, <3>4, RunProceeds DEF WorkerPhase
  <2>5. CASE AttemptRaises
    <3>1. /\ \A j \in Job : registry'[j] = "finished" => registry[j] = "finished"
          /\ \A d \in Doc : JobPending(d) => JobPending(d)'
          /\ registry'[job] \in {"started", "failed"}
      BY <2>1, <2>2, <2>3, <2>5, FailedIsPending
      DEF AttemptRaises, JobFails, storeVars, JobPending, PipelineInv, RunInv, WorkerTypeOK
    <3>2. \A d \in Doc : d = job.doc => JobPending(d)'
      BY <2>2, <3>1 DEF JobPending
    <3>3. OverlayMatchesPrediction'
      BY <2>1, <3>1, <3>2, OverlaysMatch DEF PipelineInv, RunInv
    <3>4. FinishedHasPrediction' /\ PredictionsKeyed'
      BY <2>1, <3>1 DEF PipelineInv, RunInv, FinishedHasPrediction, PredictionsKeyed
    <3>5. PredictionBacked'
      <4> SUFFICES ASSUME NEW b \in Batch, NEW d \in Doc, predictions[<<b, d>>] # NoPrediction
                   PROVE  overlays'[predictions[<<b, d>>].overlay] # NoFile
        BY <2>1 DEF PipelineInv, RunInv, PredictionBacked, storeVars
      <4>1. predictions[<<b, d>>] \in Prediction
        BY DEF PipelineInv, RunInv, WorkerTypeOK
      <4> QED
        BY <2>1, <4>1 DEF Prediction, PipelineInv, RunInv, PredictionBacked
    <3>6. Delivered' = Delivered
      BY <2>1 DEF storeVars, Delivered, Queued
    <3>7. RunsDelivered' /\ EntriesCounted' /\ AuditedOncePerRun' /\ JobsKeyed'
      <4>1. CASE JobFails
        BY <2>1, <3>6, <4>1, RunOver
        DEF JobFails, LeaveJob, PipelineInv, RunInv, AuditedOncePerRun, JobsKeyed
      <4>2. CASE wphase' = "get" /\ UNCHANGED <<job, registry>>
        BY <1>1, <2>1, <3>6, <4>2
        DEF PipelineInv, RunInv, RunsDelivered, EntriesCounted, AuditedOncePerRun, JobsKeyed,
            Working, HasBytes
      <4> QED
        BY <2>5, <4>1, <4>2 DEF AttemptRaises
    <3>8. BytesValid' /\ RunDone'
      BY <2>5 DEF AttemptRaises, JobFails, LeaveJob, BytesValid, RunDone, HasBytes
    <3> QED
      BY <1>1, <3>3, <3>4, <3>5, <3>7, <3>8 DEF RunInv
  <2> QED
    BY <1>3, <2>4, <2>5 DEF UploadOverlay
<1> QED
  BY <1>2, <1>3 DEF UploadOverlay


\* The transaction writes the row of the job's document, and touches no other.
LEMMA UpsertWrites ==
  ASSUME PipelineInv, wphase = "record", Upsert
  PROVE  LET r == <<job.batch, job.doc>> IN
         /\ predictions'[r] = [content |-> bytes, overlay |-> job.key]
         /\ predictions'[r] # NoPrediction
         /\ \A q \in Batch \X Doc : q # r => predictions'[q] = predictions[q]
         /\ r \in Batch \X Doc
<1>1. /\ job.batch \in Batch /\ job.doc \in Doc /\ job.key \in Key
      /\ bytes \in File
      /\ predictions \in [Batch \X Doc -> Prediction \cup {NoPrediction}]
  BY RunBacked DEF PipelineInv, RunInv, BytesValid, WorkerTypeOK, Working, HasBytes
<1>2. [content |-> bytes, overlay |-> job.key] \in Prediction
  BY <1>1 DEF Prediction
<1> QED
  BY <1>1, <1>2, WorkerAssumption DEF Upsert

\* What the transaction recorded is true of the run that recorded it, however it ends.
LEMMA UpsertKeepsRun ==
  ASSUME PipelineInv, wphase = "record", Upsert, WorkerTypeOK',
         UNCHANGED overlays, UNCHANGED storeVars,
         \A j \in Job : registry'[j] = "finished" => registry[j] = "finished",
         \A d \in Doc : JobPending(d) => JobPending(d)'
  PROVE  /\ PredictionsKeyed' /\ PredictionBacked' /\ FinishedHasPrediction'
         /\ OverlayMatchesPrediction' /\ JobsKeyed' /\ AuditedOncePerRun'
<1> DEFINE r == <<job.batch, job.doc>>
<1>1. /\ predictions'[r] = [content |-> bytes, overlay |-> job.key]
      /\ predictions'[r] # NoPrediction
      /\ \A b \in Batch, d \in Doc : <<b, d>> # r => predictions'[<<b, d>>] = predictions[<<b, d>>]
  BY UpsertWrites
<1>2. /\ job \in Job /\ job.doc \in Doc /\ job.key \in Key
      /\ docRow[job.doc] # NoRow /\ docRow[job.doc].batch = job.batch
      /\ bytes \in File /\ Verdict[bytes] = "ok" /\ Decodes[bytes]
      /\ overlays[job.key] = bytes /\ bytes # NoFile
      /\ entries = 0
  BY RunBacked, StoresAssumption
  DEF PipelineInv, RunInv, BytesValid, RunDone, EntriesCounted, Working, HasBytes
<1>3. PICK p \in Path : DocOf[p] = job.doc /\ KeyOf[p] = job.key
  BY DEF PipelineInv, RunInv, RunsDelivered, JobsKeyed, JobOf, Working
<1>4. UNCHANGED <<docRow, queue, popped>>
  BY DEF storeVars
<1>5. PredictionsKeyed'
  <2> SUFFICES ASSUME NEW b \in Batch, NEW d \in Doc, predictions'[<<b, d>>] # NoPrediction
               PROVE  \E q \in Path : DocOf[q] = d /\ KeyOf[q] = predictions'[<<b, d>>].overlay
    BY DEF PredictionsKeyed
  <2>1. CASE <<b, d>> = r
    BY <1>1, <1>3, <2>1
  <2>2. CASE <<b, d>> # r
    BY <1>1, <2>2 DEF PipelineInv, RunInv, PredictionsKeyed
  <2> QED
    BY <2>1, <2>2
<1>6. PredictionBacked'
  <2> SUFFICES ASSUME NEW b \in Batch, NEW d \in Doc, predictions'[<<b, d>>] # NoPrediction
               PROVE  LET q == predictions'[<<b, d>>] IN
                        /\ docRow[d] # NoRow /\ docRow[d].batch = b
                        /\ Verdict[q.content] = "ok" /\ Decodes[q.content]
                        /\ overlays[q.overlay] # NoFile
    BY <1>4 DEF PredictionBacked
  <2>1. CASE <<b, d>> = r
    BY <1>1, <1>2, <2>1
  <2>2. CASE <<b, d>> # r
    BY <1>1, <2>2 DEF PipelineInv, RunInv, PredictionBacked
  <2> QED
    BY <2>1, <2>2
<1>7. FinishedHasPrediction'
  <2> SUFFICES ASSUME NEW j \in Job, registry'[j] = "finished"
               PROVE  predictions'[<<j.batch, j.doc>>] # NoPrediction
    BY DEF FinishedHasPrediction
  <2>1. predictions[<<j.batch, j.doc>>] # NoPrediction /\ j.batch \in Batch /\ j.doc \in Doc
    BY DEF PipelineInv, RunInv, FinishedHasPrediction, Job
  <2> QED
    BY <1>1, <2>1
<1>8. OverlayMatchesPrediction'
  <2> SUFFICES ASSUME NEW b \in Batch, NEW d \in Doc, predictions'[<<b, d>>] # NoPrediction,
                      overlays[predictions'[<<b, d>>].overlay] # predictions'[<<b, d>>].content
               PROVE  JobPending(d)'
    BY DEF OverlayMatchesPrediction
  <2>1. <<b, d>> # r
    BY <1>1, <1>2
  <2> QED
    BY <1>1, <2>1 DEF PipelineInv, RunInv, OverlayMatchesPrediction
<1>9. JobsKeyed'
  BY <1>4 DEF PipelineInv, RunInv, JobsKeyed, Delivered, Queued
<1>10. AuditedOncePerRun'
  BY <1>2 DEF Upsert, AuditedOncePerRun
<1> QED
  BY <1>5, <1>6, <1>7, <1>8, <1>9, <1>10

\* The one transaction of a run, and the ways it fails.
LEMMA RecordPredictionKeepsRun ==
  ASSUME PipelineInv, RecordPrediction
  PROVE  RunInv'
<1>1. /\ Working /\ wphase = "record" /\ WorkerTypeOK'
      /\ UNCHANGED overlays /\ UNCHANGED storeVars
  BY WorkerStepType DEF RecordPrediction, Working, WorkerNext, Work
<1>2. job \in Job /\ docRow[job.doc] # NoRow /\ WorkerTypeOK
  BY <1>1, RunBacked DEF PipelineInv, RunInv
<1>3. CASE Upsert /\ Proceed("finish") /\ UNCHANGED bytes
  <2>1. /\ \A j \in Job : registry'[j] = "finished" => registry[j] = "finished"
        /\ \A d \in Doc : JobPending(d) => JobPending(d)'
    BY <1>1, <1>3 DEF Proceed, JobPending, storeVars, Queued
  <2>2. PredictionsKeyed' /\ PredictionBacked' /\ FinishedHasPrediction'
        /\ OverlayMatchesPrediction' /\ JobsKeyed' /\ AuditedOncePerRun'
    BY <1>1, <1>3, <2>1, UpsertKeepsRun
  <2>3. RunsDelivered' /\ EntriesCounted' /\ BytesValid'
    BY <1>1, <1>3
    DEF Proceed, PipelineInv, RunInv, RunsDelivered, EntriesCounted, BytesValid, HasBytes,
        Working, storeVars, Delivered, Queued
  <2>4. RunDone'
    <3>1. /\ predictions'[<<job.batch, job.doc>>] = [content |-> bytes, overlay |-> job.key]
          /\ predictions'[<<job.batch, job.doc>>] # NoPrediction
      BY <1>1, <1>3, UpsertWrites
    <3> QED
      BY <1>1, <1>3, <3>1 DEF Proceed, PipelineInv, RunInv, RunDone
  <2> QED
    BY <1>1, <2>2, <2>3, <2>4 DEF RunInv
<1>4. CASE Upsert /\ JobFails
  <2>1. /\ \A j \in Job : registry'[j] = "finished" => registry[j] = "finished"
        /\ \A d \in Doc : JobPending(d) => JobPending(d)'
    BY <1>1, <1>2, <1>4, FailedIsPending DEF JobFails, storeVars
  <2>2. PredictionsKeyed' /\ PredictionBacked' /\ FinishedHasPrediction'
        /\ OverlayMatchesPrediction' /\ JobsKeyed' /\ AuditedOncePerRun'
    BY <1>1, <1>4, <2>1, UpsertKeepsRun
  <2>3. RunsDelivered' /\ EntriesCounted' /\ BytesValid' /\ RunDone'
    BY <1>4, RunOver DEF JobFails, LeaveJob
  <2> QED
    BY <1>1, <2>2, <2>3 DEF RunInv
<1>5. CASE AttemptRaises /\ UNCHANGED <<entries, predictions>>
  BY <1>1, <1>5, RunRaises
<1> QED
  BY <1>2, <1>3, <1>4, <1>5 DEF RecordPrediction

\* The run that ends has recorded the prediction and the overlay it was made with, so
\* its job need not be pending for their sake.
LEMMA FinishJobKeepsRun ==
  ASSUME PipelineInv, FinishJob
  PROVE  RunInv'
<1>1. /\ Working /\ wphase = "finish" /\ WorkerTypeOK' /\ wphase' = "idle"
      /\ UNCHANGED <<entries, overlays, predictions>> /\ UNCHANGED storeVars
      /\ registry' = [registry EXCEPT ![job] = "finished"]
  BY WorkerStepType DEF FinishJob, LeaveJob, Working, WorkerNext, Work
<1>2. /\ job \in Job /\ job.batch \in Batch /\ job.doc \in Doc
      /\ docRow[job.doc].batch = job.batch
      /\ registry \in [Job -> {"none", "started", "finished", "failed"}]
  BY <1>1, RunBacked DEF PipelineInv, RunInv, WorkerTypeOK
<1>3. LET p == predictions[<<job.batch, job.doc>>]
      IN  p # NoPrediction /\ p.overlay = job.key /\ overlays[job.key] = p.content
  BY <1>1 DEF PipelineInv, RunInv, RunDone
<1>4. Delivered' = Delivered /\ Queued' = Queued
  BY <1>1 DEF storeVars, Delivered, Queued
<1>5. \A j \in Job : j # job => registry'[j] = registry[j]
  BY <1>1, <1>2
<1>6. PredictionsKeyed' /\ PredictionBacked' /\ JobsKeyed' /\ AuditedOncePerRun'
  BY <1>1, <1>4
  DEF PipelineInv, RunInv, PredictionsKeyed, PredictionBacked, JobsKeyed, AuditedOncePerRun,
      storeVars
<1>7. FinishedHasPrediction'
  BY <1>1, <1>3, <1>5 DEF PipelineInv, RunInv, FinishedHasPrediction
<1>8. OverlayMatchesPrediction'
  <2> SUFFICES ASSUME NEW b \in Batch, NEW d \in Doc, predictions[<<b, d>>] # NoPrediction,
                      overlays[predictions[<<b, d>>].overlay] # predictions[<<b, d>>].content
               PROVE  JobPending(d)'
    BY <1>1 DEF OverlayMatchesPrediction
  <2>1. docRow[d].batch = b
    BY DEF PipelineInv, RunInv, PredictionBacked
  <2>2. d # job.doc
    BY <1>2, <1>3, <2>1
  <2>3. JobPending(d)
    BY DEF PipelineInv, RunInv, OverlayMatchesPrediction
  <2> QED
    BY <1>4, <1>5, <2>2, <2>3 DEF JobPending
<1> QED
  BY <1>1, <1>6, <1>7, <1>8, RunOver DEF RunInv

\* Maintenance touches no job that runs, and what it moves stays pending for a human.
LEMMA AbandonJobKeepsRun ==
  ASSUME PipelineInv, NEW j \in Job, AbandonJob(j)
  PROVE  RunInv'
<1>1. /\ WorkerTypeOK' /\ WorkerTypeOK
      /\ registry' = [registry EXCEPT ![j] = "failed"] /\ job # j
      /\ UNCHANGED <<wphase, job, bytes, entries, overlays, predictions>> /\ UNCHANGED storeVars
  BY WorkerStepType DEF AbandonJob, WorkerNext, Work, PipelineInv, RunInv
<1>2. Delivered' = Delivered /\ Queued' = Queued
  BY <1>1 DEF storeVars, Delivered, Queued
<1>3. registry'[j] = "failed" /\ \A i \in Job : i # j => registry'[i] = registry[i]
  BY <1>1 DEF WorkerTypeOK
<1>4. RunsDelivered' /\ JobsKeyed' /\ EntriesCounted' /\ AuditedOncePerRun' /\ BytesValid' /\ RunDone'
  <2>1. Working => job \in Job
    BY RunBacked
  <2> QED
    BY <1>1, <1>2, <1>3, <2>1
    DEF PipelineInv, RunInv, RunsDelivered, JobsKeyed, EntriesCounted, AuditedOncePerRun,
        BytesValid, RunDone, Working, HasBytes
<1>5. \A d \in Doc : JobPending(d) => JobPending(d)'
  BY <1>2, <1>3 DEF JobPending
<1>6. PredictionsKeyed' /\ PredictionBacked' /\ FinishedHasPrediction'
        /\ OverlayMatchesPrediction'
  BY <1>1, <1>3, <1>5, ResultsKept DEF PipelineInv, storeVars
<1> QED
  BY <1>1, <1>4, <1>6 DEF RunInv

\* Deaths and the restart of the worker's container.
LEMMA DeathsKeepRun ==
  ASSUME PipelineInv, HorseDies \/ WorkerCrash \/ WorkerRestart
  PROVE  RunInv'
<1>1. WorkerTypeOK'
  BY WorkerStepType DEF WorkerNext
<1>2. CASE HorseDies
  BY <1>1, <1>2, RunEnds DEF HorseDies, JobFails, LeaveJob
<1>3. CASE WorkerCrash /\ Working
  BY <1>1, <1>3, RunEnds DEF WorkerCrash, LeaveJob
<1>4. CASE (WorkerCrash /\ ~Working) \/ WorkerRestart
  <2>1. /\ wphase' \in {"idle", "stopped"}
        /\ UNCHANGED <<entries, registry, overlays, predictions>> /\ UNCHANGED storeVars
    BY <1>4 DEF WorkerCrash, WorkerRestart, LeaveJob
  <2>2. \A d \in Doc : JobPending(d) => JobPending(d)'
    BY <2>1 DEF JobPending, storeVars, Queued
  <2>3. PredictionsKeyed' /\ PredictionBacked' /\ FinishedHasPrediction'
          /\ OverlayMatchesPrediction'
    BY <2>1, <2>2, ResultsKept DEF PipelineInv, storeVars
  <2>4. JobsKeyed' /\ AuditedOncePerRun'
    BY <2>1
    DEF PipelineInv, RunInv, JobsKeyed, AuditedOncePerRun, storeVars, Delivered, Queued
  <2> QED
    BY <1>1, <2>1, <2>3, <2>4, RunOver DEF RunInv
<1> QED
  BY <1>2, <1>3, <1>4

\* Before its first job the worker has recorded nothing.
LEMMA InitRunInv == Init /\ WorkerInit => RunInv
<1> SUFFICES ASSUME Init, WorkerInit
             PROVE  RunInv
  OBVIOUS
<1>1. WorkerTypeOK /\ wphase = "idle" /\ entries = 0
      /\ (\A b \in Batch, d \in Doc : predictions[<<b, d>>] = NoPrediction)
      /\ (\A j \in Job : registry[j] = "none")
  BY InitWorkerType DEF WorkerInit
<1>2. Delivered = {}
  BY DEF Init, StoresInit, Delivered, Queued
<1> QED
  BY <1>1, <1>2
  DEF RunInv, RunsDelivered, BytesValid, RunDone, EntriesCounted, AuditedOncePerRun, JobsKeyed,
      PredictionsKeyed, PredictionBacked, FinishedHasPrediction, OverlayMatchesPrediction,
      Working, HasBytes

\* PipelineInv is inductive: no step of either service breaks it.
LEMMA NextPipelineInv == PipelineInv /\ [PipelineNext]_pipelineVars => PipelineInv'
<1> SUFFICES ASSUME PipelineInv, [PipelineNext]_pipelineVars
             PROVE  RunInv'
  BY NextIngestInvKept DEF PipelineInv
<1>1. CASE IngestSide
  BY <1>1, IngestKeepsRun DEF IngestSide
<1>2. CASE WorkerSide
  BY <1>2, StartJobKeepsRun, FetchDocumentKeepsRun, PredictTopKKeepsRun,
     UploadOverlayKeepsRun, RecordPredictionKeepsRun, FinishJobKeepsRun, AbandonJobKeepsRun,
     DeathsKeepRun
  DEF WorkerSide, WorkerNext, Work
<1>3. CASE UNCHANGED pipelineVars
  <2>1. UNCHANGED <<vars, workerVars>> /\ UNCHANGED <<storeVars, workerVars>>
    BY <1>3 DEF pipelineVars, vars
  <2>2. \A d \in Doc : JobPending(d) => JobPending(d)'
    BY <2>1 DEF JobPending, storeVars, workerVars, Queued
  <2>3. PredictionsKeyed' /\ PredictionBacked' /\ FinishedHasPrediction'
          /\ OverlayMatchesPrediction'
    BY <2>1, <2>2, ResultsKept DEF PipelineInv, storeVars, workerVars
  <2>4. WorkerTypeOK' /\ RunsDelivered' /\ BytesValid' /\ RunDone' /\ EntriesCounted'
        /\ AuditedOncePerRun' /\ JobsKeyed'
    BY <2>1
    DEF PipelineInv, RunInv, WorkerTypeOK, RunsDelivered, BytesValid, RunDone, EntriesCounted,
        AuditedOncePerRun, JobsKeyed, Working, HasBytes, Delivered, Queued, storeVars, workerVars
  <2> QED
    BY <2>3, <2>4 DEF RunInv
<1> QED
  BY <1>1, <1>2, <1>3 DEF PipelineNext

\* And so it holds always.
THEOREM PipelineInvariant == PipelineSpec => []PipelineInv
<1>1. PipelineInit => PipelineInv
  BY InitIngestInv, InitRunInv DEF PipelineInit, PipelineInv
<1> QED
  BY <1>1, NextPipelineInv, PTL DEF PipelineSpec

\* Both services keep the types of their own variables and of the stores.
THEOREM PipelineTypeCorrect == PipelineSpec => []PipelineTypeOK
<1>1. PipelineInv => PipelineTypeOK
  BY DEF PipelineInv, IngestInv, RunInv, PipelineTypeOK
<1> QED
  BY <1>1, PipelineInvariant, PTL

\* What ingest promises of the stores it promises beside the worker: a job finds its
\* object and its row, and an object is of bytes that validation accepted.
THEOREM StoresBackedInPipeline == PipelineSpec => [](JobBacked /\ BlobsValidated)
<1>1. PipelineInv => JobBacked /\ BlobsValidated
  BY DEF PipelineInv, IngestInv
<1> QED
  BY <1>1, PipelineInvariant, PTL

\* A predictions row is of a registered document of its batch, of valid bytes, and has
\* its overlay.
THEOREM PredictionsAreBacked == PipelineSpec => []PredictionBacked
<1>1. PipelineInv => PredictionBacked
  BY DEF PipelineInv, RunInv
<1> QED
  BY <1>1, PipelineInvariant, PTL

\* The overlay is of the predicted bytes, or a job of the document is pending.
THEOREM OverlaysMatchPredictions == PipelineSpec => []OverlayMatchesPrediction
<1>1. PipelineInv => OverlayMatchesPrediction
  BY DEF PipelineInv, RunInv
<1> QED
  BY <1>1, PipelineInvariant, PTL

\* A job in the finished registry has its prediction.
THEOREM FinishedJobsPredicted == PipelineSpec => []FinishedHasPrediction
<1>1. PipelineInv => FinishedHasPrediction
  BY DEF PipelineInv, RunInv
<1> QED
  BY <1>1, PipelineInvariant, PTL

\* No run commits its transaction twice.
THEOREM RunsAuditedOnce == PipelineSpec => []AuditedOncePerRun
<1>1. PipelineInv => AuditedOncePerRun
  BY DEF PipelineInv, RunInv
<1> QED
  BY <1>1, PipelineInvariant, PTL


-----------------------------------------------------------------------------
(***************************************************************************)
(* FreshInv: who has the last word on a document.                          *)
(***************************************************************************)
\* TreeInv is about variables that the worker does not write.
LEMMA NextTreeInvKept == IngestInv /\ TreeInv /\ [PipelineNext]_pipelineVars => TreeInv'
<1> SUFFICES ASSUME IngestInv, TreeInv, [PipelineNext]_pipelineVars
             PROVE  TreeInv'
  OBVIOUS
<1>1. CASE IngestSide
  BY <1>1, NextTreeInv DEF IngestSide, Next
<1>2. CASE UNCHANGED <<loc, blobs, phase, current, data>>
  BY <1>2 DEF TreeInv, OneFileAtPath, Unsettled, At
<1>3. WorkerSide => UNCHANGED <<loc, blobs, phase, current, data>>
  <2>1. StartJob => UNCHANGED <<loc, blobs>>
    BY DEF StartJob
  <2> QED
    BY <2>1, WorkerStepStores DEF WorkerSide, storeVars, ingestVars
<1>4. UNCHANGED pipelineVars => UNCHANGED <<loc, blobs, phase, current, data>>
  BY DEF pipelineVars, vars, storeVars, ingestVars
<1> QED
  BY <1>1, <1>2, <1>3, <1>4 DEF PipelineNext

\* The last word on a document stays what it is while its row, its object, the queue
\* and the worker do.
LEMMA LastWordKept ==
  ASSUME NEW d \in Doc, LastWord(d), UNCHANGED workerVars, UNCHANGED queue,
         docRow'[d].key = docRow[d].key, blobs'[docRow[d].key] = blobs[docRow[d].key]
  PROVE  LastWord(d)'
<1> USE DEF workerVars
<1>1. LastJobKeyed(d)'
  BY DEF LastWord, LastJobKeyed
<1>2. NoneQueued(d)' = NoneQueued(d) /\ RunsFor(d)' = RunsFor(d)
  BY DEF NoneQueued, RunsFor, Working
<1>3. LastRunKeyed(d)'
  BY <1>2 DEF LastWord, LastRunKeyed, HasBytes
<1>4. JobPending(d)' = JobPending(d)
  BY DEF JobPending, Queued
<1>5. LastRunSettled(d)'
  BY <1>2, <1>4 DEF LastWord, LastRunSettled
<1> QED
  BY <1>1, <1>3, <1>5 DEF LastWord

\* A push gives the last word to the job it adds, and leaves other documents alone.
LEMMA PushLastWord ==
  ASSUME TypeOK, NEW d \in Doc, NEW p \in Path, queue' = Append(queue, JobOf(p)),
         UNCHANGED <<docRow, blobs, popped>>, UNCHANGED workerVars,
         IF d = DocOf[p] THEN docRow[d].key = KeyOf[p] ELSE LastWord(d)
  PROVE  LastWord(d)'
<1> USE DEF workerVars
<1>1. /\ queue \in Seq(Job) /\ JobOf(p) \in Job /\ Len(queue) \in Nat
      /\ JobOf(p).doc = DocOf[p] /\ JobOf(p).key = KeyOf[p]
  BY JobOfType DEF TypeOK, StoresTypeOK, JobOf
<1>2. /\ Len(queue') = Len(queue) + 1
      /\ queue'[Len(queue) + 1] = JobOf(p)
      /\ \A i \in 1 .. Len(queue) : queue'[i] = queue[i]
  BY <1>1
<1>3. CASE d = DocOf[p]
  <2>1. ~NoneQueued(d)'
    BY <1>1, <1>2, <1>3 DEF NoneQueued
  <2>2. LastJobKeyed(d)'
    <3> SUFFICES ASSUME NEW i \in 1 .. Len(queue) + 1,
                        \A m \in i + 1 .. Len(queue) + 1 : queue'[m].doc # d
                 PROVE  queue'[i].key = docRow[d].key
      BY <1>2 DEF LastJobKeyed
    <3>1. i = Len(queue) + 1
      BY <1>1, <1>2, <1>3
    <3> QED
      BY <1>1, <1>2, <1>3, <3>1
  <2> QED
    BY <2>1, <2>2 DEF LastWord, LastRunKeyed, LastRunSettled
<1>4. CASE d # DocOf[p]
  <2>1. NoneQueued(d)' = NoneQueued(d) /\ RunsFor(d)' = RunsFor(d)
    BY <1>1, <1>2, <1>4 DEF NoneQueued, RunsFor, Working
  <2>2. LastJobKeyed(d)'
    <3> SUFFICES ASSUME NEW i \in 1 .. Len(queue) + 1, queue'[i].doc = d,
                        \A m \in i + 1 .. Len(queue) + 1 : queue'[m].doc # d
                 PROVE  queue'[i].key = docRow[d].key
      BY <1>2 DEF LastJobKeyed
    <3>1. i \in 1 .. Len(queue)
      BY <1>1, <1>2, <1>4
    <3>2. \A m \in i + 1 .. Len(queue) : queue[m].doc # d
      BY <1>1, <1>2, <3>1
    <3> QED
      BY <1>2, <1>4, <3>1, <3>2 DEF LastWord, LastJobKeyed
  <2>3. LastRunKeyed(d)'
    BY <1>4, <2>1 DEF LastWord, LastRunKeyed, HasBytes
  <2>4. Queued \subseteq Queued'
    BY <1>1, AppendQueued DEF Queued
  <2>5. JobPending(d) => JobPending(d)'
    BY <2>4 DEF JobPending
  <2>6. LastRunSettled(d)'
    BY <1>4, <2>1, <2>5 DEF LastWord, LastRunSettled
  <2> QED
    BY <2>2, <2>3, <2>6 DEF LastWord
<1> QED
  BY <1>3, <1>4

\* What a worker's step does to the pending jobs: only the end of a run releases one.
LEMMA WorkerKeepsPending ==
  ASSUME PipelineInv, WorkerNext, ~StartJob, NEW d \in Doc, JobPending(d)
  PROVE  JobPending(d)' \/ (FinishJob /\ d = job.doc)
<1>1. Queued' = Queued
  BY WorkerStepStores DEF storeVars, Queued
<1>2. registry \in [Job -> {"none", "started", "finished", "failed"}]
  BY DEF PipelineInv, RunInv, WorkerTypeOK
<1>3. CASE UNCHANGED registry
  BY <1>1, <1>3 DEF JobPending
<1>4. ASSUME NEW j \in Job, registry' = [registry EXCEPT ![j] = "failed"]
      PROVE  JobPending(d)'
  BY <1>1, <1>2, <1>4 DEF JobPending
<1>5. CASE FinishJob
  <2>1. registry' = [registry EXCEPT ![job] = "finished"]
    BY <1>5 DEF FinishJob
  <2> QED
    BY <1>1, <1>2, <1>5, <2>1 DEF JobPending
<1>6. CASE Working /\ JobFails
  BY <1>4, <1>6, RunBacked DEF JobFails
<1>7. \/ UNCHANGED registry \/ FinishJob \/ (Working /\ JobFails)
      \/ \E j \in Job : registry' = [registry EXCEPT ![j] = "failed"]
  BY DEF WorkerNext, Work, FetchDocument, PredictTopK, UploadOverlay, RecordPrediction,
         AbandonJob, HorseDies, WorkerCrash, WorkerRestart, AttemptRaises, Proceed, Working
<1> QED
  BY <1>3, <1>4, <1>5, <1>6, <1>7

\* A run that ends without a result leaves the last word to its job, which failed or was
\* left in the started registry.
LEMMA RunEndsLastWord ==
  ASSUME PipelineInv, NEW d \in Doc, LastWord(d), UNCHANGED storeVars,
         wphase' \in {"idle", "stopped"},
         JobPending(d) => JobPending(d)',
         RunsFor(d) => JobPending(d)',
         ~RunsFor(d) => \A b \in Batch : predictions'[<<b, d>>] = predictions[<<b, d>>]
  PROVE  LastWord(d)'
<1>1. LastJobKeyed(d)' /\ NoneQueued(d)' = NoneQueued(d) /\ ~RunsFor(d)'
  BY DEF LastWord, LastJobKeyed, NoneQueued, RunsFor, Working, storeVars
<1>2. LastRunKeyed(d)'
  BY <1>1 DEF LastRunKeyed
<1>3. LastRunSettled(d)'
  BY <1>1 DEF LastWord, LastRunSettled, storeVars
<1> QED
  BY <1>1, <1>2, <1>3 DEF LastWord

\* A run that goes on keeps the last word, if it works on the stored bytes.
LEMMA RunGoesOnLastWord ==
  ASSUME PipelineInv, NEW d \in Doc, LastWord(d), UNCHANGED storeVars,
         Working, Working', UNCHANGED job,
         JobPending(d) => JobPending(d)',
         d # job.doc => \A b \in Batch : predictions'[<<b, d>>] = predictions[<<b, d>>],
         HasBytes' /\ job.doc = d => bytes' = blobs[job.key] \/ (HasBytes /\ bytes' = bytes),
         wphase' = "finish" /\ job.doc = d =>
           HasBytes /\ predictions'[<<job.batch, d>>].content = bytes
  PROVE  LastWord(d)'
<1>1. /\ LastJobKeyed(d)' /\ NoneQueued(d)' = NoneQueued(d)
      /\ RunsFor(d)' = RunsFor(d) /\ (RunsFor(d) <=> job.doc = d)
  BY DEF LastWord, LastJobKeyed, NoneQueued, RunsFor, storeVars
<1>2. LastRunKeyed(d)'
  BY <1>1 DEF LastWord, LastRunKeyed, storeVars
<1>3. LastRunSettled(d)'
  BY <1>1 DEF LastWord, LastRunSettled, storeVars
<1> QED
  BY <1>1, <1>2, <1>3 DEF LastWord

\* The worker takes the oldest job, so the last job of a document keeps the last word.
LEMMA StartJobLastWord ==
  ASSUME PipelineInv, StartJob, NEW d \in Doc, LastWord(d)
  PROVE  LastWord(d)'
<1>1. /\ queue \in Seq(Job) /\ queue # <<>> /\ queue' = Tail(queue)
      /\ job' = Head(queue) /\ Head(queue) \in Job /\ wphase = "idle" /\ wphase' = "get"
      /\ UNCHANGED <<docRow, blobs, predictions>>
  BY DEF StartJob, PipelineInv, IngestInv, TypeOK, StoresTypeOK
<1>2. /\ Len(queue) \in Nat \ {0} /\ Len(queue') = Len(queue) - 1
      /\ \A i \in 1 .. Len(queue) - 1 : queue'[i] = queue[i + 1]
      /\ job' = queue[1]
  BY <1>1
<1>3. LastJobKeyed(d)'
  <2> SUFFICES ASSUME NEW i \in 1 .. Len(queue) - 1, queue'[i].doc = d,
                      \A m \in i + 1 .. Len(queue) - 1 : queue'[m].doc # d
               PROVE  queue'[i].key = docRow[d].key
    BY <1>1, <1>2 DEF LastJobKeyed
  <2>1. i + 1 \in 1 .. Len(queue) /\ queue[i + 1].doc = d
    BY <1>2
  <2>2. ASSUME NEW m \in (i + 1) + 1 .. Len(queue)
        PROVE  queue[m].doc # d
    <3>1. m - 1 \in i + 1 .. Len(queue) - 1 /\ (m - 1) + 1 = m
      BY <1>2
    <3>2. m - 1 \in 1 .. Len(queue) - 1
      BY <1>2
    <3> QED
      BY <1>2, <3>1, <3>2
  <2>3. queue[i + 1].key = docRow[d].key
    BY <2>1, <2>2 DEF LastWord, LastJobKeyed
  <2> QED
    BY <1>2, <2>3
<1>4. NoneQueued(d)' => \A m \in 2 .. Len(queue) : queue[m].doc # d
  <2> SUFFICES ASSUME NoneQueued(d)', NEW m \in 2 .. Len(queue)
               PROVE  queue[m].doc # d
    OBVIOUS
  <2>1. m - 1 \in 1 .. Len(queue) - 1 /\ (m - 1) + 1 = m
    BY <1>2
  <2> QED
    BY <1>2, <2>1 DEF NoneQueued
<1>5. LastRunKeyed(d)'
  <2>1. NoneQueued(d)' /\ queue[1].doc = d => queue[1].key = docRow[d].key
    BY <1>2, <1>4 DEF LastWord, LastJobKeyed
  <2> QED
    BY <1>1, <1>2, <2>1 DEF LastRunKeyed, RunsFor, HasBytes
<1>6. LastRunSettled(d)'
  <2> SUFFICES ASSUME NoneQueued(d)', ~RunsFor(d)'
               PROVE  \/ JobPending(d)'
                      \/ \A b \in Batch : predictions[<<b, d>>] # NoPrediction =>
                           predictions[<<b, d>>].content = blobs[docRow[d].key]
    BY <1>1 DEF LastRunSettled
  <2>1. queue[1].doc # d
    BY <1>1, <1>2 DEF RunsFor, Working
  <2>2. NoneQueued(d)
    BY <1>2, <1>4, <2>1 DEF NoneQueued
  <2>3. ~RunsFor(d)
    BY <1>1 DEF RunsFor, Working
  <2>4. JobPending(d) => JobPending(d)'
    <3>1. Queued = Queued' \cup {Head(queue)}
      BY <1>1, TailQueued DEF Queued
    <3>2. registry' = [registry EXCEPT ![Head(queue)] = "started"]
          /\ registry \in [Job -> {"none", "started", "finished", "failed"}]
      BY DEF StartJob, PipelineInv, RunInv, WorkerTypeOK
    <3> QED
      BY <1>1, <3>1, <3>2 DEF JobPending
  <2> QED
    BY <2>2, <2>3, <2>4 DEF LastWord, LastRunSettled
<1> QED
  BY <1>3, <1>5, <1>6 DEF LastWord


\* A failed attempt starts over, or leaves the job in the failed registry.
LEMMA RaisesLastWord ==
  ASSUME PipelineInv, Working, NEW d \in Doc, LastWord(d), UNCHANGED storeVars,
         AttemptRaises, UNCHANGED predictions, JobPending(d) => JobPending(d)'
  PROVE  LastWord(d)'
<1>1. job \in Job /\ registry[job] = "started"
      /\ registry \in [Job -> {"none", "started", "finished", "failed"}]
  BY RunBacked DEF PipelineInv, RunInv, WorkerTypeOK
<1>2. CASE JobFails
  <2>1. registry'[job] = "failed" /\ wphase' = "idle"
    BY <1>1, <1>2 DEF JobFails, LeaveJob
  <2>2. RunsFor(d) => JobPending(d)'
    BY <1>1, <2>1 DEF RunsFor, JobPending
  <2> QED
    BY <2>1, <2>2, RunEndsLastWord
<1>3. CASE wphase' = "get" /\ UNCHANGED <<job, registry>>
  BY <1>3, RunGoesOnLastWord DEF Working, HasBytes
<1> QED
  BY <1>2, <1>3 DEF AttemptRaises

\* No step of the worker takes the last word from a document's last job: the run it
\* makes reads the stored object, and ends with a prediction of it or fails.
LEMMA WorkerLastWord ==
  ASSUME PipelineInv, WorkerNext, NEW d \in Doc, LastWord(d)
  PROVE  LastWord(d)'
<1>1. CASE StartJob
  BY <1>1, StartJobLastWord
<1>2. CASE ~StartJob
  <2>s. UNCHANGED storeVars
    BY <1>2, WorkerStepStores
  <2>p. JobPending(d) => JobPending(d)' \/ (FinishJob /\ d = job.doc)
    BY <1>2, WorkerKeepsPending
  <2>r. Working => /\ job \in Job /\ registry[job] = "started"
                   /\ job.batch \in Batch /\ job.doc \in Doc
                   /\ docRow[job.doc].batch = job.batch
    BY RunBacked
  <2>t. /\ registry \in [Job -> {"none", "started", "finished", "failed"}]
        /\ PredictionBacked
    BY DEF PipelineInv, RunInv, WorkerTypeOK
  <2>1. CASE FetchDocument
    <3>1. Working /\ UNCHANGED predictions /\ (JobPending(d) => JobPending(d)')
      BY <2>1, <2>p DEF FetchDocument, FinishJob, Working
    <3>2. CASE AttemptRaises
      BY <2>s, <3>1, <3>2, RaisesLastWord
    <3>3. CASE bytes' = blobs[job.key] /\ Proceed("predict")
      BY <2>s, <3>1, <3>3, RunGoesOnLastWord DEF Proceed, Working, HasBytes
    <3> QED
      BY <2>1, <3>2, <3>3 DEF FetchDocument, AttemptRaises
  <2>2. CASE PredictTopK \/ UploadOverlay
    <3>1. Working /\ HasBytes /\ UNCHANGED predictions /\ (JobPending(d) => JobPending(d)')
      BY <2>2, <2>p DEF PredictTopK, UploadOverlay, FinishJob, Working, HasBytes
    <3>2. CASE AttemptRaises
      BY <2>s, <3>1, <3>2, RaisesLastWord
    <3>3. CASE UNCHANGED bytes /\ (Proceed("overlay") \/ Proceed("record"))
      BY <2>s, <3>1, <3>3, RunGoesOnLastWord DEF Proceed, Working, HasBytes
    <3> QED
      BY <2>2, <3>2, <3>3 DEF PredictTopK, UploadOverlay
  <2>3. CASE RecordPrediction
    <3>1. /\ Working /\ HasBytes /\ wphase = "record"
          /\ (JobPending(d) => JobPending(d)')
      BY <2>3, <2>p DEF RecordPrediction, FinishJob, Working, HasBytes
    <3>2. CASE UNCHANGED predictions /\ AttemptRaises
      BY <2>s, <3>1, <3>2, RaisesLastWord
    <3>3. Upsert => /\ predictions'[<<job.batch, job.doc>>].content = bytes
                    /\ d # job.doc =>
                         \A b \in Batch : predictions'[<<b, d>>] = predictions[<<b, d>>]
      BY <3>1, UpsertWrites
    <3>4. CASE Upsert /\ Proceed("finish") /\ UNCHANGED bytes
      BY <2>s, <3>1, <3>3, <3>4, RunGoesOnLastWord DEF Proceed, Working, HasBytes
    <3>5. CASE Upsert /\ JobFails
      <4>1. registry'[job] = "failed" /\ wphase' = "idle"
        BY <2>r, <2>t, <3>1, <3>5 DEF JobFails, LeaveJob
      <4>2. RunsFor(d) => JobPending(d)'
        BY <2>r, <3>1, <4>1 DEF RunsFor, JobPending
      <4> QED
        BY <2>s, <3>1, <3>3, <3>5, <4>1, <4>2, RunEndsLastWord DEF RunsFor
    <3> QED
      BY <2>3, <3>2, <3>4, <3>5 DEF RecordPrediction, AttemptRaises
  <2>4. CASE FinishJob
    <3>1. /\ Working /\ wphase = "finish" /\ wphase' = "idle" /\ UNCHANGED predictions
          /\ registry' = [registry EXCEPT ![job] = "finished"]
      BY <2>4 DEF FinishJob, LeaveJob, Working
    <3>2. CASE d # job.doc
      BY <2>s, <2>p, <3>1, <3>2, RunEndsLastWord DEF RunsFor
    <3>3. CASE d = job.doc
      <4>1. RunsFor(d)
        BY <3>1, <3>3 DEF RunsFor
      <4>2. NoneQueued(d) => \A b \in Batch : predictions[<<b, d>>] # NoPrediction =>
                               predictions[<<b, d>>].content = blobs[docRow[d].key]
        <5> SUFFICES ASSUME NoneQueued(d), NEW b \in Batch, predictions[<<b, d>>] # NoPrediction
                     PROVE  predictions[<<b, d>>].content = blobs[docRow[d].key]
          OBVIOUS
        <5>1. b = job.batch
          BY <2>r, <2>t, <3>1, <3>3 DEF PredictionBacked
        <5> QED
          BY <3>1, <4>1, <5>1 DEF LastWord, LastRunKeyed
      <4>3. LastJobKeyed(d)' /\ NoneQueued(d)' = NoneQueued(d) /\ ~RunsFor(d)'
        BY <2>s, <3>1 DEF LastWord, LastJobKeyed, NoneQueued, RunsFor, Working, storeVars
      <4>4. LastRunKeyed(d)' /\ LastRunSettled(d)'
        BY <2>s, <3>1, <4>2, <4>3 DEF LastRunKeyed, LastRunSettled, storeVars
      <4> QED
        BY <4>3, <4>4 DEF LastWord
    <3> QED
      BY <3>2, <3>3
  <2>5. CASE \E j \in Job : AbandonJob(j)
    <3>1. /\ UNCHANGED <<wphase, job, bytes, predictions>>
          /\ (JobPending(d) => JobPending(d)')
      BY <2>5, <2>p DEF AbandonJob, FinishJob, LeaveJob
    <3>2. LastJobKeyed(d)' /\ NoneQueued(d)' = NoneQueued(d) /\ RunsFor(d)' = RunsFor(d)
      BY <2>s, <3>1 DEF LastWord, LastJobKeyed, NoneQueued, RunsFor, Working, storeVars
    <3>3. LastRunKeyed(d)'
      BY <2>s, <3>1, <3>2 DEF LastWord, LastRunKeyed, HasBytes, storeVars
    <3>4. LastRunSettled(d)'
      BY <2>s, <3>1, <3>2 DEF LastWord, LastRunSettled, storeVars
    <3> QED
      BY <3>2, <3>3, <3>4 DEF LastWord
  <2>6. CASE HorseDies
    <3>1. Working /\ JobFails /\ UNCHANGED predictions
      BY <2>6 DEF HorseDies
    <3>2. registry'[job] = "failed"
      BY <2>r, <2>t, <3>1 DEF JobFails
    <3>3. ~FinishJob
      BY <2>r, <2>t, <3>1, <3>2 DEF FinishJob
    <3> QED
      BY <2>s, <2>p, <3>1, <3>3, RaisesLastWord DEF AttemptRaises
  <2>7. CASE WorkerCrash \/ WorkerRestart
    <3>1. /\ wphase' \in {"idle", "stopped"} /\ UNCHANGED <<predictions, registry>>
      BY <2>7 DEF WorkerCrash, WorkerRestart, LeaveJob
    <3>2. JobPending(d) => JobPending(d)'
      BY <2>s, <3>1 DEF JobPending, Queued, storeVars
    <3>3. RunsFor(d) => JobPending(d)'
      BY <2>r, <3>1 DEF RunsFor, JobPending
    <3> QED
      BY <2>s, <3>1, <3>2, <3>3, RunEndsLastWord
  <2> QED
    BY <1>2, <2>1, <2>2, <2>3, <2>4, <2>5, <2>6, <2>7 DEF WorkerNext, Work
<1> QED
  BY <1>1, <1>2

\* The steps of ingest that change a row, an object or the queue; the others do not
\* bring a file to its push or its move.
LEMMA IngestSteps ==
  ASSUME IngestNext
  PROVE  \/ UploadWithRetry /\ PutObject
         \/ EnsureDocumentRow /\ EnsureForIngest(current)
         \/ EnqueueWithRetry /\ PushJob
         \/ /\ UNCHANGED <<docRow, blobs, queue>>
            /\ UNCHANGED <<phase, current>> \/ phase' \notin {"enqueue", "processed"}
<1>1. CASE UploadWithRetry /\ ~PutObject
  BY <1>1 DEF UploadWithRetry, AttemptFailed, FileDone, NextFileFrom
<1>2. CASE EnsureDocumentRow /\ ~EnsureForIngest(current)
  BY <1>2 DEF EnsureDocumentRow, AttemptFailed, FileDone, NextFileFrom
<1>3. CASE EnqueueWithRetry /\ ~PushJob
  BY <1>3 DEF EnqueueWithRetry, AttemptFailed, FileDone, NextFileFrom
<1>4. CASE EnsureBuckets \/ ListIncoming \/ StartFile \/ EndPoll \/ Wake
             \/ FetchAndValidate \/ Crash \/ Restart
  BY <1>4
  DEF EnsureBuckets, ListIncoming, StartFile, EndPoll, Wake, FetchAndValidate, Crash,
      Restart, Advance, NextFileFrom, FileDone, Stop, storeVars
<1>5. CASE MoveToProcessed \/ MoveToQuarantine
  BY <1>5 DEF MoveToProcessed, MoveToQuarantine, Move, FileDone, NextFileFrom
<1>6. CASE Vendor
  BY <1>6 DEF Vendor, VendorDrop, VendorRewrite, ingestVars
<1> QED
  BY <1>1, <1>2, <1>3, <1>4, <1>5, <1>6 DEF IngestNext, Ingest

\* A stored object's file leaves incoming/ when its document's job was pushed, and not
\* before: the move that takes it is that of the object's own turn.
LEMMA LeavesWithLastWord ==
  ASSUME IngestInv, TreeInv, FreshInv, [Next]_vars, NEW d \in Doc, docRow[d] # NoRow,
         Unsettled(blobs[docRow[d].key])
  PROVE  loc'[blobs[docRow[d].key]] \in {"incoming", "rewritten"} \/ LastWord(d)
<1> DEFINE k == docRow[d].key
           f == blobs[k]
<1>1. /\ TypeOK /\ k \in Key /\ f \in File /\ loc \in [File -> Location]
      /\ KeyOf[PathOf[f]] = k
  <2>1. TypeOK /\ StoresTypeOK /\ BlobsValidated /\ RowsKeyed
    BY DEF IngestInv, TypeOK, FreshInv
  <2>2. docRow[d] \in [batch : Batch, key : Key]
    BY <2>1 DEF StoresTypeOK
  <2>3. k \in Key /\ f # NoFile
    BY <2>1, <2>2 DEF RowsKeyed
  <2> QED
    BY <2>1, <2>3 DEF StoresTypeOK, BlobsValidated
<1>2. CASE UNCHANGED loc
  BY <1>2 DEF Unsettled
<1>3. ASSUME NEW g \in File, VendorDrop(g)
      PROVE  loc'[f] \in {"incoming", "rewritten"}
  BY <1>1, <1>3, DropSeen DEF Unsettled
<1>4. ASSUME NEW g \in File, NEW h \in File, VendorRewrite(g, h)
      PROVE  loc'[f] \in {"incoming", "rewritten"}
  <2>1. /\ loc[h] = "absent" /\ loc'[g] = "rewritten"
        /\ \A e \in File : e # g /\ e # h => loc'[e] = loc[e]
    BY <1>1, <1>4, RewriteSeen
  <2> QED
    BY <1>1, <2>1 DEF Unsettled
<1>5. ASSUME NEW dir \in {"processed", "quarantine"}, Move(dir), NEW g \in At(current),
             loc' = [loc EXCEPT ![g] = dir]
      PROVE  loc'[f] \in {"incoming", "rewritten"} \/ LastWord(d)
  <2>1. /\ phase = dir /\ g \in File /\ PathOf[g] = current
        /\ \A e \in File : e # g => loc'[e] = loc[e]
    BY <1>1, <1>5, MoveSeen
  <2>2. CASE f # g
    BY <1>1, <2>1, <2>2 DEF Unsettled
  <2>3. CASE f = g
    <3>1. phase = "processed"
      BY <1>1, <2>1, <2>3 DEF TreeInv
    <3>2. current \in Path /\ KeyOf[current] = k
      BY <1>1, <2>1, <2>3, StoresAssumption
    <3>3. PICK p \in Path : DocOf[p] = d /\ KeyOf[p] = k
      BY DEF FreshInv, RowsKeyed
    <3>4. DocOf[current] = d
      BY <3>2, <3>3, StoresAssumption
    <3> QED
      BY <3>1, <3>4 DEF FreshInv
  <2> QED
    BY <2>2, <2>3
<1> QED
  BY <1>2, <1>3, <1>4, <1>5, LocSteps


\* A step of ingest keeps FreshInv: what it stores is of a file still in incoming/, and
\* that file leaves incoming/ only after the push of its job.
LEMMA IngestKeepsFresh ==
  ASSUME IngestInv, TreeInv, FreshInv, IngestNext, UNCHANGED workerVars
  PROVE  FreshInv'
<1>t. /\ TypeOK /\ StoresTypeOK
      /\ phase \in Holding => /\ data \in File /\ current \in Path
                              /\ DocOf[current] \in Doc /\ KeyOf[current] \in Key
                              /\ Unsettled(data)
  BY StoresAssumption DEF IngestInv, TypeOK, IngestTypeOK, TreeInv
<1>k. \A d \in Doc : docRow[d] # NoRow => docRow[d].key \in Key
  BY <1>t DEF StoresTypeOK
<1>n. [Next]_vars
  BY DEF Next
<1>1. CASE UploadWithRetry /\ PutObject
  <2>1. /\ phase = "upload" /\ phase \in Holding
        /\ phase' \notin {"enqueue", "processed"}
        /\ UNCHANGED <<loc, docRow, queue>>
    BY <1>1 DEF UploadWithRetry, AttemptFailed, Advance, FileDone, NextFileFrom, Holding
  <2>2. /\ blobs' = [blobs EXCEPT ![KeyOf[current]] = data]
        /\ blobs \in [Key -> File \cup {NoFile}]
    BY <1>1, <1>t DEF PutObject, StoresTypeOK
  <2>3. RowsKeyed'
    BY <1>t, <1>k, <2>1, <2>2, StoresAssumption DEF FreshInv, RowsKeyed
  <2>4. ASSUME NEW d \in Doc, docRow[d] # NoRow
        PROVE  Unsettled(blobs[docRow[d].key])' \/ LastWord(d)'
    <3>1. CASE docRow[d].key = KeyOf[current]
      BY <1>t, <2>1, <2>2, <3>1 DEF Unsettled
    <3>2. CASE docRow[d].key # KeyOf[current]
      <4>1. blobs'[docRow[d].key] = blobs[docRow[d].key]
        BY <1>k, <2>2, <2>4, <3>2
      <4>2. LastWord(d) => LastWord(d)'
        BY <2>1, <4>1, LastWordKept
      <4> QED
        BY <2>1, <2>4, <4>1, <4>2 DEF FreshInv, Unsettled
    <3> QED
      BY <3>1, <3>2
  <2> QED
    BY <2>1, <2>3, <2>4 DEF FreshInv
<1>2. CASE EnsureDocumentRow /\ EnsureForIngest(current)
  <2>1. /\ phase = "row" /\ phase \in Holding
        /\ UNCHANGED <<loc, blobs, queue>>
        /\ phase' # "processed"
        /\ phase' = "enqueue" => current' = current
    BY <1>2 DEF EnsureDocumentRow, AttemptFailed, Advance, FileDone, NextFileFrom, Holding
  <2>2. /\ docRow' = [docRow EXCEPT ![DocOf[current]] =
                        [batch |-> BatchOf[current], key |-> KeyOf[current]]]
        /\ docRow \in [Doc -> [batch : Batch, key : Key] \cup {NoRow}]
    BY <1>2, <1>t DEF EnsureForIngest, StoresTypeOK
  <2>3. docRow'[DocOf[current]].key = KeyOf[current]
    BY <1>t, <2>1, <2>2
  <2>4. \A d \in Doc : d # DocOf[current] => docRow'[d] = docRow[d]
    BY <2>2
  <2>5. blobs[KeyOf[current]] = data /\ data # NoFile
    BY <1>t, <2>1, StoresAssumption DEF IngestInv, CallsDone
  <2>6. RowsKeyed'
    <3> SUFFICES ASSUME NEW d \in Doc, docRow'[d] # NoRow
                 PROVE  /\ \E p \in Path : DocOf[p] = d /\ KeyOf[p] = docRow'[d].key
                        /\ blobs[docRow'[d].key] # NoFile
      BY <2>1 DEF RowsKeyed
    <3>1. CASE d = DocOf[current]
      BY <1>t, <2>1, <2>3, <2>5, <3>1
    <3>2. CASE d # DocOf[current]
      BY <2>4, <3>2 DEF FreshInv, RowsKeyed
    <3> QED
      BY <3>1, <3>2
  <2>7. ASSUME NEW d \in Doc, docRow'[d] # NoRow
        PROVE  Unsettled(blobs[docRow[d].key])' \/ LastWord(d)'
    <3>1. CASE d = DocOf[current]
      BY <1>t, <2>1, <2>3, <2>5, <3>1 DEF Unsettled
    <3>2. CASE d # DocOf[current]
      <4>1. docRow'[d] = docRow[d]
        BY <2>4, <3>2
      <4>2. LastWord(d) => LastWord(d)'
        BY <2>1, <4>1, LastWordKept
      <4> QED
        BY <2>1, <2>7, <4>1, <4>2 DEF FreshInv, Unsettled
    <3> QED
      BY <3>1, <3>2
  <2> QED
    BY <2>1, <2>3, <2>6, <2>7 DEF FreshInv
<1>3. CASE EnqueueWithRetry /\ PushJob
  <2>1. /\ phase = "enqueue" /\ phase \in Holding
        /\ UNCHANGED <<loc, blobs, docRow, popped>>
        /\ phase' \in {"enqueue", "processed"} => current' = current
    BY <1>3 DEF EnqueueWithRetry, AttemptFailed, Advance, FileDone, NextFileFrom, Holding
  <2>2. PICK p \in Path : p = current
    BY <1>t, <2>1
  <2>3. /\ queue' = Append(queue, JobOf(p))
        /\ docRow[DocOf[p]].key = KeyOf[p]
    BY <1>3, <2>1, <2>2 DEF PushJob, FreshInv
  <2>4. \A d \in Doc : LastWord(d) \/ d = DocOf[p] => LastWord(d)'
    BY <1>t, <2>1, <2>2, <2>3, PushLastWord
  <2>5. LastWord(DocOf[p])' /\ DocOf[p] \in Doc
    BY <1>t, <2>1, <2>2, <2>4
  <2>6. RowsKeyed'
    BY <2>1 DEF FreshInv, RowsKeyed
  <2>7. /\ phase' \in {"enqueue", "processed"} => docRow'[DocOf[current']].key = KeyOf[current']
        /\ phase' = "processed" => LastWord(DocOf[current])'
    BY <2>1, <2>2, <2>3, <2>5
  <2>8. \A d \in Doc : docRow'[d] # NoRow => Unsettled(blobs[docRow[d].key])' \/ LastWord(d)'
    BY <2>1, <2>4 DEF FreshInv, Unsettled
  <2> QED
    BY <2>6, <2>7, <2>8 DEF FreshInv
<1>4. CASE /\ UNCHANGED <<docRow, blobs, queue>>
           /\ UNCHANGED <<phase, current>> \/ phase' \notin {"enqueue", "processed"}
  <2>1. RowsKeyed'
    BY <1>4 DEF FreshInv, RowsKeyed
  <2>2. \A d \in Doc : LastWord(d) => LastWord(d)'
    BY <1>4, LastWordKept
  <2>3. \A d \in Doc : docRow'[d] # NoRow => Unsettled(blobs[docRow[d].key])' \/ LastWord(d)'
    BY <1>4, <1>n, <2>2, LeavesWithLastWord DEF FreshInv, Unsettled
  <2>4. phase' \in {"enqueue", "processed"} => docRow'[DocOf[current']].key = KeyOf[current']
    BY <1>4 DEF FreshInv
  <2>5. phase' = "processed" => LastWord(DocOf[current])'
    <3> SUFFICES ASSUME phase' = "processed"
                 PROVE  LastWord(DocOf[current])'
      OBVIOUS
    <3>1. phase = "processed" /\ UNCHANGED current /\ LastWord(DocOf[current])
      BY <1>4 DEF FreshInv
    <3>2. PICK d \in Doc : d = DocOf[current]
      BY <1>t, <3>1 DEF Holding
    <3>3. LastWord(d)'
      BY <2>2, <3>1, <3>2
    <3> QED
      BY <3>1, <3>2, <3>3
  <2> QED
    BY <2>1, <2>3, <2>4, <2>5 DEF FreshInv
<1> QED
  BY <1>1, <1>2, <1>3, <1>4, IngestSteps

\* A step of the worker keeps FreshInv: it has no say but in who has the last word.
LEMMA WorkerKeepsFresh ==
  ASSUME PipelineInv, FreshInv, WorkerNext, UNCHANGED ingestVars
  PROVE  FreshInv'
<1>1. UNCHANGED <<loc, blobs, docRow, phase, current>>
  <2>1. StartJob => UNCHANGED <<loc, blobs, docRow>>
    BY DEF StartJob
  <2> QED
    BY <2>1, WorkerStepStores DEF storeVars, ingestVars
<1>2. \A d \in Doc : LastWord(d) => LastWord(d)'
  BY WorkerLastWord
<1>3. RowsKeyed' /\ (phase' \in {"enqueue", "processed"} => docRow'[DocOf[current']].key = KeyOf[current'])
  BY <1>1 DEF FreshInv, RowsKeyed
<1>4. phase' = "processed" => LastWord(DocOf[current])'
  <2> SUFFICES ASSUME phase = "processed"
               PROVE  LastWord(DocOf[current])'
    BY <1>1
  <2>1. PICK d \in Doc : d = DocOf[current]
    BY StoresAssumption DEF PipelineInv, IngestInv, TypeOK, IngestTypeOK, Holding
  <2>2. LastWord(d)'
    BY <1>2, <2>1 DEF FreshInv
  <2> QED
    BY <1>1, <2>1, <2>2
<1>5. \A d \in Doc : docRow'[d] # NoRow => Unsettled(blobs[docRow[d].key])' \/ LastWord(d)'
  BY <1>1, <1>2 DEF FreshInv, Unsettled
<1> QED
  BY <1>3, <1>4, <1>5 DEF FreshInv

\* FreshInv is inductive, given the invariants of the two services and of the tree.
LEMMA NextFreshInv ==
  PipelineInv /\ TreeInv /\ FreshInv /\ [PipelineNext]_pipelineVars => FreshInv'
<1> SUFFICES ASSUME PipelineInv, TreeInv, FreshInv, [PipelineNext]_pipelineVars
             PROVE  FreshInv'
  OBVIOUS
<1>1. CASE IngestSide
  BY <1>1, IngestKeepsFresh DEF IngestSide, PipelineInv
<1>2. CASE WorkerSide
  BY <1>2, WorkerKeepsFresh DEF WorkerSide
<1>3. CASE UNCHANGED pipelineVars
  <2>1. UNCHANGED <<loc, blobs, docRow, queue, phase, current>> /\ UNCHANGED workerVars
    BY <1>3 DEF pipelineVars, vars, storeVars, ingestVars
  <2>2. \A d \in Doc : LastWord(d) => LastWord(d)'
    BY <2>1, LastWordKept
  <2>3. RowsKeyed' /\ (phase' \in {"enqueue", "processed"} => docRow'[DocOf[current']].key = KeyOf[current'])
    BY <2>1 DEF FreshInv, RowsKeyed
  <2>4. phase' = "processed" => LastWord(DocOf[current])'
    <3> SUFFICES ASSUME phase = "processed"
                 PROVE  LastWord(DocOf[current])'
      BY <2>1
    <3>1. PICK d \in Doc : d = DocOf[current]
      BY StoresAssumption DEF PipelineInv, IngestInv, TypeOK, IngestTypeOK, Holding
    <3>2. LastWord(d)'
      BY <2>2, <3>1 DEF FreshInv
    <3> QED
      BY <2>1, <3>1, <3>2
  <2>5. \A d \in Doc : docRow'[d] # NoRow => Unsettled(blobs[docRow[d].key])' \/ LastWord(d)'
    BY <2>1, <2>2 DEF FreshInv, Unsettled
  <2> QED
    BY <2>3, <2>4, <2>5 DEF FreshInv
<1> QED
  BY <1>1, <1>2, <1>3 DEF PipelineNext

\* A prediction of other bytes than the stored ones has its cause.
LEMMA FreshImpliesCause ==
  ASSUME PipelineInv, FreshInv
  PROVE  StalePredictionHasCause
<1> SUFFICES ASSUME NEW b \in Batch, NEW d \in Doc, predictions[<<b, d>>] # NoPrediction,
                    blobs[docRow[d].key] # predictions[<<b, d>>].content,
                    ~Unsettled(blobs[docRow[d].key])
             PROVE  JobPending(d)
  BY DEF StalePredictionHasCause, Unsettled
<1>1. LastWord(d)
  BY DEF PipelineInv, RunInv, PredictionBacked, FreshInv
<1>2. CASE ~NoneQueued(d)
  <2>1. queue \in Seq(Job)
    BY DEF PipelineInv, IngestInv, TypeOK, StoresTypeOK
  <2>2. PICK i \in 1 .. Len(queue) : queue[i].doc = d
    BY <1>2 DEF NoneQueued
  <2>3. queue[i] \in Job
    BY <2>1
  <2> QED
    BY <2>2, <2>3 DEF JobPending, Queued
<1>3. CASE RunsFor(d)
  BY <1>3, RunBacked DEF RunsFor, JobPending
<1>4. CASE NoneQueued(d) /\ ~RunsFor(d)
  BY <1>1, <1>4 DEF LastWord, LastRunSettled
<1> QED
  BY <1>2, <1>3, <1>4

\* A prediction that was not computed from the stored object is never the last word,
\* whoever replaces which file: StalePredictionHasCause.
THEOREM StalePredictionsHaveCause == PipelineSpec => []StalePredictionHasCause
<1> DEFINE Inv == PipelineInv /\ TreeInv /\ FreshInv
<1>1. PipelineInit => Inv
  <2> SUFFICES ASSUME PipelineInit
               PROVE  Inv
    OBVIOUS
  <2>1. PipelineInv /\ TreeInv
    BY InitIngestInv, InitTreeInv, InitRunInv DEF PipelineInit, PipelineInv
  <2>2. FreshInv
    BY DEF PipelineInit, Init, StoresInit, FreshInv, RowsKeyed
  <2> QED
    BY <2>1, <2>2
<1>2. Inv /\ [PipelineNext]_pipelineVars => Inv'
  BY NextPipelineInv, NextTreeInvKept, NextFreshInv DEF PipelineInv
<1>3. Inv => StalePredictionHasCause
  BY FreshImpliesCause
<1> HIDE DEF Inv
<1> QED
  BY <1>1, <1>2, <1>3, PTL DEF PipelineSpec


-----------------------------------------------------------------------------
(***************************************************************************)
(* The two services implement the whole lifecycle.                         *)
(***************************************************************************)
\* What ingest does to the lifecycle it does beside the predictions as well.
LEMMA LiftLifecycle ==
  ASSUME [Lifecycle!LifecycleNext]_Lifecycle!lifecycleVars, UNCHANGED PredictedRows
  PROVE  [FullLifecycle!LifecycleNext]_FullLifecycle!lifecycleVars
<1>1. CASE UNCHANGED Lifecycle!lifecycleVars
  BY <1>1 DEF Lifecycle!lifecycleVars, FullLifecycle!lifecycleVars
<1>2. ASSUME NEW p \in Path, Lifecycle!Store(p)
      PROVE  FullLifecycle!LifecycleNext
  <2>1. FullLifecycle!Store(p)
    BY <1>2 DEF Lifecycle!Store, FullLifecycle!Store
  <2> QED
    BY <2>1 DEF FullLifecycle!LifecycleNext
<1>3. ASSUME NEW p \in Path, Lifecycle!Register(p)
      PROVE  FullLifecycle!LifecycleNext
  <2>1. FullLifecycle!Register(p)
    BY <1>3
    DEF Lifecycle!Register, FullLifecycle!Register, Lifecycle!RowAt, FullLifecycle!RowAt
  <2> QED
    BY <2>1 DEF FullLifecycle!LifecycleNext
<1>4. ASSUME NEW p \in Path, Lifecycle!Request(p)
      PROVE  FullLifecycle!LifecycleNext
  <2>1. FullLifecycle!Request(p)
    BY <1>4
    DEF Lifecycle!Request, FullLifecycle!Request, Lifecycle!RowAt, FullLifecycle!RowAt
  <2> QED
    BY <2>1 DEF FullLifecycle!LifecycleNext
<1>5. ASSUME NEW p \in Path, Lifecycle!Predict(p)
      PROVE  FALSE
  BY <1>5 DEF Lifecycle!Predict
<1>6. ASSUME NEW f \in File, Lifecycle!Accept(f)
      PROVE  FullLifecycle!LifecycleNext
  <2>1. FullLifecycle!Accept(f)
    BY <1>6 DEF Lifecycle!Accept, FullLifecycle!Accept
  <2> QED
    BY <2>1 DEF FullLifecycle!LifecycleNext
<1>7. ASSUME NEW f \in File, Lifecycle!Reject(f)
      PROVE  FullLifecycle!LifecycleNext
  <2>1. FullLifecycle!Reject(f)
    BY <1>7 DEF Lifecycle!Reject, FullLifecycle!Reject
  <2> QED
    BY <2>1 DEF FullLifecycle!LifecycleNext
<1> QED
  BY <1>1, <1>2, <1>3, <1>4, <1>5, <1>6, <1>7 DEF Lifecycle!LifecycleNext

\* The transaction of a run is the lifecycle's Predict: its job was requested.
LEMMA UpsertPredicts ==
  ASSUME PipelineInv, wphase = "record", Upsert, UNCHANGED storeVars
  PROVE  \E p \in Path : FullLifecycle!Predict(p)
<1>1. PICK p \in Path : job = JobOf(p)
  BY DEF PipelineInv, RunInv, RunsDelivered, JobsKeyed, Working
<1>2. p \in RequestedPaths /\ job.batch = BatchOf[p] /\ job.doc = DocOf[p]
  BY <1>1 DEF PipelineInv, RunInv, RunsDelivered, Working, RequestedPaths, JobOf
<1>3. LET r == <<BatchOf[p], DocOf[p]>> IN
        /\ predictions'[r] # NoPrediction /\ r \in Batch \X Doc
        /\ \A q \in Batch \X Doc : q # r => predictions'[q] = predictions[q]
  BY <1>2, UpsertWrites
<1>4. PredictedRows' = PredictedRows \cup {<<BatchOf[p], DocOf[p]>>}
  BY <1>3 DEF PredictedRows
<1>5. UNCHANGED <<StoredKeys, CommittedRows, RequestedPaths>>
      /\ UNCHANGED <<FilesIn("processed"), FilesIn("quarantine")>>
  BY StoresSeen, FilesSeen DEF storeVars
<1> QED
  BY <1>2, <1>4, <1>5 DEF FullLifecycle!Predict, FullLifecycle!RowAt

\* Every step of either service is a step of the lifecycle or changes nothing it sees.
LEMMA StepFullLifecycle ==
  ASSUME \A f \in Rewrites : Verdict[f] = "raises"
  PROVE  PipelineInv /\ SettledInv /\ [PipelineNext]_pipelineVars
           => [FullLifecycle!LifecycleNext]_FullLifecycle!lifecycleVars
<1> SUFFICES ASSUME PipelineInv, SettledInv, [PipelineNext]_pipelineVars
             PROVE  [FullLifecycle!LifecycleNext]_FullLifecycle!lifecycleVars
  OBVIOUS
<1>1. ASSUME [Next]_vars, UNCHANGED predictions
      PROVE  [FullLifecycle!LifecycleNext]_FullLifecycle!lifecycleVars
  <2>1. UNCHANGED PredictedRows
    BY <1>1 DEF PredictedRows
  <2> QED
    BY <1>1, <2>1, StepLifecycle, LiftLifecycle
<1>2. CASE IngestSide
  BY <1>1, <1>2 DEF IngestSide, Next, workerVars
<1>3. CASE WorkerSide /\ StartJob
  BY <1>1, <1>3, StartJobPops DEF WorkerSide, Next, StartJob
<1>4. CASE UNCHANGED pipelineVars
  BY <1>1, <1>4 DEF pipelineVars, workerVars
<1>5. CASE WorkerSide /\ ~StartJob
  <2>1. UNCHANGED storeVars
    BY <1>5, WorkerStepStores DEF WorkerSide
  <2>2. CASE UNCHANGED predictions
    <3>1. UNCHANGED PredictedRows
      BY <2>2 DEF PredictedRows
    <3> QED
      BY <2>1, <3>1, StoresSeen, FilesSeen DEF storeVars, FullLifecycle!lifecycleVars
  <2>3. CASE wphase = "record" /\ Upsert
    BY <2>1, <2>3, UpsertPredicts DEF FullLifecycle!LifecycleNext
  <2>4. UNCHANGED predictions \/ (wphase = "record" /\ Upsert)
    BY <1>5
    DEF WorkerSide, WorkerNext, Work, FetchDocument, PredictTopK, UploadOverlay,
        RecordPrediction, FinishJob, AbandonJob, HorseDies, WorkerCrash, WorkerRestart
  <2> QED
    BY <2>2, <2>3, <2>4
<1> QED
  BY <1>2, <1>3, <1>4, <1>5 DEF PipelineNext

\* SettledInv is about variables that the worker does not write, too.
LEMMA NextSettledInvKept ==
  ASSUME \A f \in Rewrites : Verdict[f] = "raises"
  PROVE  SettledInv /\ [PipelineNext]_pipelineVars => SettledInv'
<1> SUFFICES ASSUME SettledInv, [PipelineNext]_pipelineVars
             PROVE  SettledInv'
  OBVIOUS
<1>1. CASE IngestSide
  BY <1>1, SettledInvInductive DEF IngestSide, Next
<1>2. IngestInv' /\ TreeInv'
  BY NextIngestInvKept, NextTreeInvKept DEF SettledInv
<1>3. CASE UNCHANGED <<loc, phase, current>>
  BY <1>2, <1>3 DEF SettledInv, AcceptableStays, SettledRightly, At
<1>4. WorkerSide => UNCHANGED <<loc, phase, current>>
  <2>1. StartJob => UNCHANGED loc
    BY DEF StartJob
  <2> QED
    BY <2>1, WorkerStepStores DEF WorkerSide, storeVars, ingestVars
<1>5. UNCHANGED pipelineVars => UNCHANGED <<loc, phase, current>>
  BY DEF pipelineVars, vars, storeVars, ingestVars
<1> QED
  BY <1>1, <1>3, <1>4, <1>5 DEF PipelineNext

\* Every behaviour of the two services, whichever dies when, is a behaviour of the whole
\* lifecycle: ImplementsFullLifecycle.
THEOREM PipelineImplementsLifecycle ==
  ASSUME \A f \in Rewrites : Verdict[f] = "raises"
  PROVE  PipelineSpec => ImplementsFullLifecycle
<1> DEFINE Inv == PipelineInv /\ SettledInv
<1>1. PipelineInit => Inv
  BY InitIngestInv, InitRunInv, SettledInvInductive DEF PipelineInit, PipelineInv
<1>2. Inv /\ [PipelineNext]_pipelineVars => Inv'
  BY NextPipelineInv, NextSettledInvKept
<1>3. PipelineInit => FullLifecycle!LifecycleInit
  <2> SUFFICES ASSUME PipelineInit
               PROVE  FullLifecycle!LifecycleInit
    OBVIOUS
  <2>1. Lifecycle!LifecycleInit
    BY InitLifecycle DEF PipelineInit
  <2>2. PredictedRows = {}
    BY DEF PipelineInit, WorkerInit, PredictedRows
  <2> QED
    BY <2>1, <2>2 DEF Lifecycle!LifecycleInit, FullLifecycle!LifecycleInit
<1>4. Inv /\ [PipelineNext]_pipelineVars
        => [FullLifecycle!LifecycleNext]_FullLifecycle!lifecycleVars
  BY StepFullLifecycle
<1> HIDE DEF Inv
<1> QED
  BY <1>1, <1>2, <1>3, <1>4, PTL
  DEF PipelineSpec, ImplementsFullLifecycle, FullLifecycle!LifecycleSpec

=============================================================================
