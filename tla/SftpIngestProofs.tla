-------------------------- MODULE SftpIngestProofs --------------------------
(***************************************************************************)
(* Proofs about the ingest service, for every SFTP tree, every number of   *)
(* faults and every queue bound, and whether or not writers replace files. *)
(***************************************************************************)
EXTENDS SftpIngest, FiniteSetTheorems, SequenceTheorems, TLAPS

-----------------------------------------------------------------------------
(***************************************************************************)
(* The queue.                                                              *)
(***************************************************************************)
\* The jobs of a queue after a push are those before and the new one.
LEMMA AppendQueued ==
  ASSUME NEW S, NEW q \in Seq(S), NEW j \in S
  PROVE  {Append(q, j)[i] : i \in 1 .. Len(Append(q, j))}
           = {q[i] : i \in 1 .. Len(q)} \cup {j}
  OBVIOUS

\* A pop moves the head, and no other job, out of the queue.
LEMMA TailQueued ==
  ASSUME NEW S, NEW q \in Seq(S), q # <<>>
  PROVE  {q[i] : i \in 1 .. Len(q)}
           = {Tail(q)[i] : i \in 1 .. Len(Tail(q))} \cup {Head(q)}
  OBVIOUS

-----------------------------------------------------------------------------
(***************************************************************************)
(* Type correctness.                                                       *)
(***************************************************************************)
\* The payload built from a path is a job.
LEMMA JobOfType ==
  ASSUME NEW p \in Path
  PROVE  JobOf(p) \in Job
  BY StoresAssumption DEF JobOf, Job

\* The variables have their types at the start.
LEMMA InitTypeOK == Init => TypeOK
  BY StoresAssumption, IngestAssumption
  DEF Init, StoresInit, TypeOK, StoresTypeOK, IngestTypeOK, Location, Phase, MaxAttempts, Job, Opening, Holding

\* What a commit of ensure_for_ingest leaves in the tables.
LEMMA EnsureForIngestType ==
  ASSUME StoresTypeOK, NEW p \in Path, EnsureForIngest(p)
  PROVE  /\ docRow' \in [Doc -> [batch : Batch, key : Key] \cup {NoRow}]
         /\ batches' \in SUBSET Batch
         /\ docCount' \in [Batch -> Nat]
  BY StoresAssumption DEF StoresTypeOK, EnsureForIngest

\* Whichever way a file's turn or a call ends, the process is in a proper state.
LEMMA TurnType ==
  ASSUME TypeOK
  PROVE  /\ \A files \in SUBSET Path : NextFileFrom(files) => IngestTypeOK'
         /\ FileDone => IngestTypeOK'
         /\ \A next \in Phase :
              /\ next \in Opening <=> phase \in Opening
              /\ next \in Holding <=> phase \in Holding
              /\ Advance(next)
              => IngestTypeOK'
         /\ AttemptFailed => IngestTypeOK'
         /\ Stop => IngestTypeOK'
  BY DEF TypeOK, IngestTypeOK, NextFileFrom, FileDone, Advance, AttemptFailed, Stop,
         MaxAttempts, Phase, Opening, Holding

\* Every step keeps the types: the phases are those of process_remote_file, and no
\* call is ever tried a fourth time.
LEMMA NextTypeOK == TypeOK /\ [Next]_vars => TypeOK'
<1> SUFFICES ASSUME TypeOK, [Next]_vars
             PROVE  StoresTypeOK' /\ IngestTypeOK'
  BY DEF TypeOK
<1> USE StoresAssumption, IngestAssumption
    DEF TypeOK, storeVars, ingestVars, Opening, Holding
<1>a. /\ current \in Path \cup {NoPath}
      /\ phase \in Opening \cup Holding => current \in Path
      /\ phase \in Holding => data \in File
  BY DEF IngestTypeOK
<1>1. CASE EnsureBuckets
  <2>1. IngestTypeOK'
    BY <1>1, TurnType DEF EnsureBuckets, Phase
  <2>2. StoresTypeOK'
    BY <1>1 DEF EnsureBuckets, Fault, StoresTypeOK
  <2> QED
    BY <2>1, <2>2
<1>2. CASE ListIncoming
  <2>1. IngestTypeOK'
    BY <1>2, TurnType DEF ListIncoming, Phase
  <2>2. StoresTypeOK'
    BY <1>2 DEF ListIncoming, Fault, StoresTypeOK
  <2> QED
    BY <2>1, <2>2
<1>3. CASE StartFile
  BY <1>3 DEF StartFile, Phase, StoresTypeOK, IngestTypeOK
<1>4. CASE EndPoll
  <2>1. IngestTypeOK'
    BY <1>4, TurnType DEF EndPoll, Phase
  <2>2. StoresTypeOK'
    BY <1>4 DEF EndPoll, Fault, StoresTypeOK
  <2> QED
    BY <2>1, <2>2
<1>5. CASE Wake
  BY <1>5, TurnType DEF Wake, Phase, StoresTypeOK
<1>6. CASE FetchAndValidate
  <2>1. IngestTypeOK'
    <3>1. CASE UNCHANGED <<listing, current, attempt>> /\ phase' = "upload" /\ data' \in File
      BY <1>6, <3>1, <1>a DEF FetchAndValidate, Phase, IngestTypeOK
    <3>2. CASE Advance("quarantine") \/ FileDone
      BY <1>6, <3>2, TurnType DEF FetchAndValidate, Phase
    <3> QED
      BY <1>6, <3>1, <3>2 DEF FetchAndValidate, At
  <2>2. StoresTypeOK'
    BY <1>6 DEF FetchAndValidate, Fault, StoresTypeOK
  <2> QED
    BY <2>1, <2>2
<1>7. CASE UploadWithRetry
  <2>1. IngestTypeOK'
    BY <1>7, TurnType DEF UploadWithRetry, Phase
  <2>2. /\ current \in Path
        /\ data \in File
        /\ UNCHANGED <<loc, docRow, batches, docCount, queue, popped>>
        /\ PutObject \/ UNCHANGED blobs
        /\ Fault \/ UNCHANGED faults
    BY <1>7, <1>a DEF UploadWithRetry
  <2>3. blobs' \in [Key -> File \cup {NoFile}]
    BY <2>2 DEF PutObject, StoresTypeOK
  <2>4. StoresTypeOK'
    BY <2>2, <2>3 DEF Fault, StoresTypeOK
  <2> QED
    BY <2>1, <2>4
<1>8. CASE EnsureDocumentRow
  <2>1. IngestTypeOK'
    BY <1>8, TurnType DEF EnsureDocumentRow, Phase
  <2>2. /\ UNCHANGED <<loc, blobs, queue, popped>>
        /\ EnsureForIngest(current) \/ UNCHANGED <<docRow, batches, docCount>>
        /\ Fault \/ UNCHANGED faults
    BY <1>8 DEF EnsureDocumentRow
  <2>3. current \in Path
    BY <1>8, <1>a DEF EnsureDocumentRow
  <2>4. /\ docRow' \in [Doc -> [batch : Batch, key : Key] \cup {NoRow}]
        /\ batches' \in SUBSET Batch
        /\ docCount' \in [Batch -> Nat]
    <3>1. CASE EnsureForIngest(current)
      BY <2>3, <3>1, EnsureForIngestType
    <3>2. CASE UNCHANGED <<docRow, batches, docCount>>
      BY <3>2 DEF StoresTypeOK
    <3> QED
      BY <2>2, <3>1, <3>2
  <2>5. StoresTypeOK'
    BY <2>2, <2>4 DEF Fault, StoresTypeOK
  <2> QED
    BY <2>1, <2>5
<1>9. CASE EnqueueWithRetry
  <2>1. IngestTypeOK'
    BY <1>9, TurnType DEF EnqueueWithRetry, Phase
  <2>2. JobOf(current) \in Job
    BY <1>9, <1>a, JobOfType DEF EnqueueWithRetry
  <2>3. /\ UNCHANGED <<loc, blobs, docRow, batches, docCount, popped>>
        /\ queue' = Append(queue, JobOf(current)) \/ UNCHANGED queue
        /\ Fault \/ UNCHANGED faults
    BY <1>9 DEF EnqueueWithRetry, PushJob
  <2>4. queue' \in Seq(Job)
    <3>1. queue \in Seq(Job)
      BY DEF StoresTypeOK
    <3>2. Append(queue, JobOf(current)) \in Seq(Job)
      BY <2>2, <3>1, AppendProperties
    <3> QED
      BY <2>3, <3>1, <3>2
  <2>5. StoresTypeOK'
    BY <2>3, <2>4 DEF Fault, StoresTypeOK
  <2> QED
    BY <2>1, <2>5
<1>10. ASSUME NEW dir \in {"processed", "quarantine"}, Move(dir)
       PROVE  StoresTypeOK' /\ IngestTypeOK'
  <2>1. IngestTypeOK'
    BY <1>10, TurnType DEF Move
  <2>2. loc' \in [File -> Location]
    BY <1>10 DEF Move, Rename, Location, StoresTypeOK
  <2>3. StoresTypeOK'
    BY <1>10, <2>2 DEF Move, Fault, StoresTypeOK
  <2> QED
    BY <2>1, <2>3
<1>11. CASE MoveToProcessed \/ MoveToQuarantine
  BY <1>10, <1>11 DEF MoveToProcessed, MoveToQuarantine
<1>12. CASE Vendor
  BY <1>12 DEF Vendor, VendorDrop, VendorRewrite, Location, StoresTypeOK, IngestTypeOK
<1>13. CASE Crash
  BY <1>13, TurnType DEF Crash, Fault, StoresTypeOK
<1>14. CASE Restart
  BY <1>14, TurnType DEF Restart, Running, Phase, StoresTypeOK
<1>15. CASE WorkerPops
  BY <1>15 DEF WorkerPops, StoresTypeOK, IngestTypeOK
<1>16. CASE UNCHANGED vars
  BY <1>16 DEF vars, StoresTypeOK, IngestTypeOK
<1> QED
  BY <1>1, <1>2, <1>3, <1>4, <1>5, <1>6, <1>7, <1>8, <1>9, <1>11, <1>12, <1>13,
     <1>14, <1>15, <1>16
  DEF Next, IngestNext, Ingest

\* TypeOK holds in every state of the service.
THEOREM TypeCorrect == Spec => []TypeOK
  BY InitTypeOK, NextTypeOK, PTL DEF Spec

-----------------------------------------------------------------------------
(***************************************************************************)
(* Safety of the stores: IngestInv is inductive.                           *)
(***************************************************************************)
\* Once a file's turn is over the process holds nothing to be right about.
LEMMA TurnEnds ==
  ASSUME phase' \notin Holding
  PROVE  HoldsValid' /\ CallsDone'
  BY DEF HoldsValid, CallsDone, Holding

\* A call that has not had its effect leaves what is known before it.
LEMMA StoresKept ==
  ASSUME JobBacked, BlobsValidated, UNCHANGED <<blobs, docRow, queue, popped>>
  PROVE  JobBacked' /\ BlobsValidated'
  BY DEF JobBacked, BlobsValidated, RowOf, Delivered, Queued

\* A step that changes neither the stores nor the call in hand keeps the invariant.
LEMMA AllKept ==
  ASSUME IngestInv, UNCHANGED <<blobs, docRow, queue, popped, phase, current, data>>
  PROVE  HoldsValid' /\ CallsDone' /\ JobBacked' /\ BlobsValidated'
  BY StoresKept DEF IngestInv, HoldsValid, CallsDone, RowOf, Delivered, Queued

\* A failed attempt either keeps the call in hand, to be tried again, or drops it.
LEMMA AttemptFailedEnds ==
  ASSUME AttemptFailed
  PROVE  \/ UNCHANGED <<phase, current, data>>
         \/ phase' \notin Holding
  BY DEF AttemptFailed, FileDone, NextFileFrom, Holding

\* A put of the bytes in hand stores what validation accepted, and takes no object away.
LEMMA PutObjectSafe ==
  ASSUME IngestInv, phase \in Holding, PutObject, UNCHANGED <<docRow, queue, popped>>
  PROVE  /\ JobBacked' /\ BlobsValidated'
         /\ blobs'[KeyOf[current]] = data
<1>1. /\ current \in Path /\ data \in File /\ KeyOf[current] \in Key
      /\ blobs \in [Key -> File \cup {NoFile}]
      /\ Verdict[data] = "ok" /\ PathOf[data] = current
  BY StoresAssumption
  DEF IngestInv, TypeOK, IngestTypeOK, StoresTypeOK, HoldsValid
<1>2. blobs' = [blobs EXCEPT ![KeyOf[current]] = data]
  BY DEF PutObject
<1>3. BlobsValidated'
  BY <1>1, <1>2 DEF IngestInv, BlobsValidated
<1>4. \A k \in Key : blobs[k] # NoFile => blobs'[k] # NoFile
  BY <1>1, <1>2, StoresAssumption
<1>5. Delivered' = Delivered /\ Delivered \in SUBSET Job
  BY DEF Delivered, Queued, IngestInv, TypeOK, StoresTypeOK
<1>6. \A j \in Delivered : j.key \in Key
  BY <1>5 DEF Job
<1>7. JobBacked'
  BY <1>4, <1>5, <1>6 DEF IngestInv, JobBacked, RowOf
<1> QED
  BY <1>1, <1>2, <1>3, <1>7

\* ensure_for_ingest gives the document its row and takes no row from another job:
\* it refuses to move a document to another batch.
LEMMA EnsureKeepsRows ==
  ASSUME StoresTypeOK, NEW p \in Path, EnsureForIngest(p)
  PROVE  /\ \A j \in Job : RowOf(j) => RowOf(j)'
         /\ RowOf(JobOf(p))'
<1>1. /\ DocOf[p] \in Doc /\ BatchOf[p] \in Batch /\ KeyOf[p] \in Key
      /\ docRow \in [Doc -> [batch : Batch, key : Key] \cup {NoRow}]
      /\ docRow' = [docRow EXCEPT ![DocOf[p]] = [batch |-> BatchOf[p], key |-> KeyOf[p]]]
      /\ docRow[DocOf[p]] # NoRow => docRow[DocOf[p]].batch = BatchOf[p]
  BY StoresAssumption DEF StoresTypeOK, EnsureForIngest, DocumentOfOtherBatch
<1>2. docRow'[DocOf[p]] # NoRow /\ docRow'[DocOf[p]].batch = BatchOf[p]
  BY <1>1, StoresAssumption
<1>3. RowOf(JobOf(p))'
  BY <1>2 DEF RowOf, JobOf
<1>4. ASSUME NEW j \in Job, RowOf(j)
      PROVE  RowOf(j)'
  <2>1. CASE j.doc = DocOf[p]
    BY <1>1, <1>2, <1>4, <2>1 DEF RowOf
  <2>2. CASE j.doc # DocOf[p]
    BY <1>1, <1>4, <2>2 DEF RowOf, Job
  <2> QED
    BY <2>1, <2>2
<1> QED
  BY <1>3, <1>4

\* A push adds one job to those that were delivered; a pop adds and removes none.
LEMMA PushDelivers ==
  ASSUME TypeOK, NEW p \in Path, queue' = Append(queue, JobOf(p)), popped' = popped
  PROVE  Delivered' = Delivered \cup {JobOf(p)}
<1>1. queue \in Seq(Job) /\ JobOf(p) \in Job
  BY JobOfType DEF TypeOK, StoresTypeOK
<1>2. Queued' = Queued \cup {JobOf(p)}
  BY <1>1, AppendQueued DEF Queued
<1> QED
  BY <1>2 DEF Delivered

\* The worker's pop changes which jobs wait, not which were delivered.
LEMMA PopDelivers ==
  ASSUME TypeOK, WorkerPops
  PROVE  Delivered' = Delivered
<1>1. queue \in Seq(Job) /\ queue # <<>> /\ queue' = Tail(queue)
  BY DEF TypeOK, StoresTypeOK, WorkerPops
<1>2. Queued = Queued' \cup {Head(queue)}
  BY <1>1, TailQueued DEF Queued
<1>3. popped' = popped \cup {Head(queue)}
  BY DEF WorkerPops
<1> QED
  BY <1>2, <1>3 DEF Delivered

\* Nothing is stored, registered, queued or in hand at the start.
LEMMA InitIngestInv == Init => IngestInv
<1> SUFFICES ASSUME Init
             PROVE  IngestInv
  OBVIOUS
<1>1. TypeOK
  BY InitTypeOK
<1>2. HoldsValid /\ CallsDone
  BY DEF Init, HoldsValid, CallsDone, Holding
<1>3. Delivered = {} /\ \A k \in Key : blobs[k] = NoFile
  BY DEF Init, StoresInit, Delivered, Queued
<1> QED
  BY <1>1, <1>2, <1>3 DEF IngestInv, JobBacked, BlobsValidated

\* Each call of process_remote_file adds one effect and keeps those before it, and
\* nothing outside the process takes one away.
LEMMA NextIngestInv == IngestInv /\ [Next]_vars => IngestInv'
<1> SUFFICES ASSUME IngestInv, [Next]_vars
             PROVE  HoldsValid' /\ CallsDone' /\ JobBacked' /\ BlobsValidated'
  BY NextTypeOK DEF IngestInv
<1>t. TypeOK /\ TypeOK' /\ StoresTypeOK /\ IngestTypeOK
  BY NextTypeOK DEF IngestInv, TypeOK
<1>c. JobBacked /\ BlobsValidated
  BY DEF IngestInv
\* Steps that only move the process to a phase in which it holds nothing.
<1>1. ASSUME UNCHANGED storeVars, phase' \notin Holding
      PROVE  HoldsValid' /\ CallsDone' /\ JobBacked' /\ BlobsValidated'
  BY <1>1, <1>c, TurnEnds, StoresKept DEF storeVars
<1>2. CASE EnsureBuckets \/ ListIncoming \/ StartFile \/ EndPoll \/ Wake \/ Crash \/ Restart
  BY <1>1, <1>2
  DEF EnsureBuckets, ListIncoming, StartFile, EndPoll, Wake, Crash, Restart,
      Advance, NextFileFrom, Stop, Holding
<1>3. CASE FetchAndValidate
  <2>1. UNCHANGED storeVars
    BY <1>3 DEF FetchAndValidate
  <2>2. CASE phase' \notin Holding
    BY <1>1, <2>1, <2>2
  <2>3. CASE phase' = "upload" /\ UNCHANGED current /\ data' \in At(current) /\ Verdict[data'] = "ok"
    <3>1. HoldsValid' /\ CallsDone'
      BY <2>3 DEF HoldsValid, CallsDone, At
    <3>2. JobBacked' /\ BlobsValidated'
      BY <2>1, <1>c, StoresKept DEF storeVars
    <3> QED
      BY <3>1, <3>2
  <2> QED
    BY <1>3, <2>2, <2>3 DEF FetchAndValidate, FileDone, NextFileFrom, Advance, Holding
<1>4. CASE UploadWithRetry
  <2>1. phase = "upload" /\ phase \in Holding /\ UNCHANGED <<docRow, queue, popped>>
    BY <1>4 DEF UploadWithRetry, Holding
  <2>2. CASE PutObject /\ Advance("row")
    <3>1. JobBacked' /\ BlobsValidated' /\ blobs'[KeyOf[current]] = data
      BY <2>1, <2>2, PutObjectSafe
    <3>2. HoldsValid' /\ CallsDone'
      BY <2>1, <2>2, <3>1 DEF Advance, IngestInv, HoldsValid, CallsDone
    <3> QED
      BY <3>1, <3>2
  <2>3. CASE AttemptFailed /\ (PutObject \/ UNCHANGED blobs)
    <3>1. JobBacked' /\ BlobsValidated'
      BY <2>1, <2>3, <1>c, PutObjectSafe, StoresKept
    <3>2. CASE phase' \notin Holding
      BY <3>1, <3>2, TurnEnds
    <3>3. CASE UNCHANGED <<phase, current, data>>
      BY <2>1, <3>1, <3>3 DEF IngestInv, HoldsValid, CallsDone
    <3> QED
      BY <2>3, <3>2, <3>3, AttemptFailedEnds
  <2> QED
    BY <1>4, <2>2, <2>3 DEF UploadWithRetry
<1>5. CASE EnsureDocumentRow
  <2>1. phase = "row" /\ UNCHANGED <<blobs, queue, popped>>
    BY <1>5 DEF EnsureDocumentRow
  <2>2. current \in Path
    BY <1>t, <2>1 DEF IngestTypeOK, Holding
  <2>3. BlobsValidated'
    BY <2>1, <1>c DEF BlobsValidated
  <2>4. CASE UNCHANGED docRow /\ AttemptFailed
    <3>1. CASE phase' \notin Holding
      BY <2>1, <2>4, <3>1, <1>c, TurnEnds, StoresKept
    <3>2. CASE UNCHANGED <<phase, current, data>>
      BY <2>1, <2>4, <3>2, AllKept
    <3> QED
      BY <2>4, <3>1, <3>2, AttemptFailedEnds
  <2>5. CASE EnsureForIngest(current) /\ (Advance("enqueue") \/ AttemptFailed)
    <3> PICK p \in Path : p = current
      BY <2>2
    <3>1. (\A j \in Job : RowOf(j) => RowOf(j)') /\ RowOf(JobOf(p))'
      BY <1>t, <2>5, EnsureKeepsRows
    <3>2. Delivered' = Delivered /\ Delivered \in SUBSET Job
      BY <1>t, <2>1 DEF Delivered, Queued, StoresTypeOK
    <3>3. JobBacked'
      BY <1>c, <2>1, <3>1, <3>2 DEF JobBacked
    <3>4. CASE Advance("enqueue")
      <4>1. current' = p
        BY <3>4 DEF Advance
      <4>2. RowOf(JobOf(current))'
        BY <3>1, <4>1 DEF JobOf, RowOf
      <4>3. HoldsValid' /\ CallsDone'
        BY <2>1, <3>4, <4>2 DEF Advance, IngestInv, HoldsValid, CallsDone, Holding
      <4> QED
        BY <2>3, <3>3, <4>3
    <3>5. CASE AttemptFailed
      <4>1. CASE phase' \notin Holding
        BY <2>3, <3>3, <4>1, TurnEnds
      <4>2. CASE UNCHANGED <<phase, current, data>>
        BY <2>1, <2>3, <3>3, <4>2 DEF IngestInv, HoldsValid, CallsDone
      <4> QED
        BY <3>5, <4>1, <4>2, AttemptFailedEnds
    <3> QED
      BY <2>5, <3>4, <3>5
  <2> QED
    BY <1>5, <2>4, <2>5 DEF EnsureDocumentRow
<1>6. CASE EnqueueWithRetry
  <2>1. phase = "enqueue" /\ UNCHANGED <<blobs, docRow, popped>>
    BY <1>6 DEF EnqueueWithRetry
  <2>2. current \in Path /\ data \in File /\ blobs[KeyOf[current]] = data /\ RowOf(JobOf(current))
    BY <1>t, <2>1 DEF IngestTypeOK, Holding, IngestInv, CallsDone
  <2>3. BlobsValidated'
    BY <2>1, <1>c DEF BlobsValidated
  <2>4. ASSUME queue' = Append(queue, JobOf(current))
        PROVE  JobBacked' /\ Delivered' = Delivered \cup {JobOf(current)}
    <3>1. Delivered' = Delivered \cup {JobOf(current)}
      BY <1>t, <2>1, <2>2, <2>4, PushDelivers
    <3>2. JobOf(current).key = KeyOf[current]
      BY DEF JobOf
    <3>3. blobs[JobOf(current).key] # NoFile
      BY <2>2, <3>2, StoresAssumption
    <3> QED
      BY <1>c, <2>1, <2>2, <3>1, <3>3 DEF JobBacked, RowOf
  <2>5. CASE UNCHANGED queue /\ AttemptFailed
    <3>1. CASE phase' \notin Holding
      BY <2>1, <2>5, <3>1, <1>c, TurnEnds, StoresKept
    <3>2. CASE UNCHANGED <<phase, current, data>>
      BY <2>1, <2>5, <3>2, AllKept
    <3> QED
      BY <2>5, <3>1, <3>2, AttemptFailedEnds
  <2>6. CASE queue' = Append(queue, JobOf(current)) /\ Advance("processed")
    <3>1. HoldsValid'
      BY <2>1, <2>6 DEF Advance, IngestInv, HoldsValid, Holding
    <3>2. CallsDone'
      BY <2>1, <2>2, <2>4, <2>6 DEF Advance, CallsDone, RowOf, JobOf
    <3> QED
      BY <2>3, <2>4, <2>6, <3>1, <3>2
  <2>7. CASE queue' = Append(queue, JobOf(current)) /\ AttemptFailed
    <3>1. CASE phase' \notin Holding
      BY <2>3, <2>4, <2>7, <3>1, TurnEnds
    <3>2. CASE UNCHANGED <<phase, current, data>>
      BY <2>1, <2>2, <2>3, <2>4, <2>7, <3>2 DEF IngestInv, HoldsValid, CallsDone, RowOf
    <3> QED
      BY <2>7, <3>1, <3>2, AttemptFailedEnds
  <2> QED
    BY <1>6, <2>5, <2>6, <2>7 DEF EnqueueWithRetry, PushJob
<1>7. CASE MoveToProcessed \/ MoveToQuarantine
  <2>1. UNCHANGED <<blobs, docRow, queue, popped>> /\ phase' \notin Holding
    BY <1>7
    DEF MoveToProcessed, MoveToQuarantine, Move, FileDone, NextFileFrom, Holding
  <2> QED
    BY <2>1, <1>c, TurnEnds, StoresKept
<1>8. CASE Vendor \/ UNCHANGED vars
  <2>1. UNCHANGED <<blobs, docRow, queue, popped, phase, current, data>>
    BY <1>8 DEF Vendor, VendorDrop, VendorRewrite, ingestVars, storeVars, vars
  <2> QED
    BY <2>1, AllKept
<1>9. CASE WorkerPops
  <2>1. UNCHANGED <<blobs, docRow, phase, current, data>>
    BY <1>9 DEF WorkerPops, ingestVars
  <2>2. Delivered' = Delivered
    BY <1>9, <1>t, PopDelivers
  <2> QED
    BY <2>1, <2>2
    DEF IngestInv, HoldsValid, CallsDone, JobBacked, BlobsValidated, RowOf
<1> QED
  BY <1>2, <1>3, <1>4, <1>5, <1>6, <1>7, <1>8, <1>9 DEF Next, IngestNext, Ingest

\* Every job in Redis finds its object and its row, whatever fails, and whoever
\* replaces files meanwhile: JobBacked.
THEOREM JobsAreBacked == Spec => []JobBacked
<1>1. IngestInv => JobBacked
  BY DEF IngestInv
<1> QED
  BY <1>1, InitIngestInv, NextIngestInv, PTL DEF Spec

\* The documents bucket holds validated bytes of files of the right key, and nothing
\* else: BlobsValidated.
THEOREM BlobsAreValidated == Spec => []BlobsValidated
<1>1. IngestInv => BlobsValidated
  BY DEF IngestInv
<1> QED
  BY <1>1, InitIngestInv, NextIngestInv, PTL DEF Spec

-----------------------------------------------------------------------------
(***************************************************************************)
(* The document count of a batch.                                          *)
(***************************************************************************)
DocsOf(b) == {d \in Doc : docRow[d] # NoRow /\ docRow[d].batch = b}

\* The documents of a batch are finitely many, so they can be counted.
LEMMA DocsFinite ==
  ASSUME NEW b
  PROVE  IsFiniteSet(DocsOf(b))
  BY StoresAssumption, FS_Subset DEF DocsOf

\* A first commit for a document adds it to its batch, and to no other; a later one
\* finds it there.
LEMMA EnsureAddsDocument ==
  ASSUME StoresTypeOK, NEW p \in Path, EnsureForIngest(p), NEW b \in Batch
  PROVE  DocsOf(b)' = IF b = BatchOf[p] THEN DocsOf(b) \cup {DocOf[p]} ELSE DocsOf(b)
<1>1. /\ DocOf[p] \in Doc /\ BatchOf[p] \in Batch /\ KeyOf[p] \in Key
      /\ docRow \in [Doc -> [batch : Batch, key : Key] \cup {NoRow}]
      /\ docRow' = [docRow EXCEPT ![DocOf[p]] = [batch |-> BatchOf[p], key |-> KeyOf[p]]]
      /\ docRow[DocOf[p]] # NoRow => docRow[DocOf[p]].batch = BatchOf[p]
  BY StoresAssumption DEF StoresTypeOK, EnsureForIngest, DocumentOfOtherBatch
<1>2. docRow'[DocOf[p]] # NoRow /\ docRow'[DocOf[p]].batch = BatchOf[p]
  BY <1>1, StoresAssumption
<1>3. \A d \in Doc : d # DocOf[p] => docRow'[d] = docRow[d]
  BY <1>1
<1> QED
  BY <1>1, <1>2, <1>3 DEF DocsOf

\* A commit of ensure_for_ingest counts a document when, and only when, it is new.
LEMMA EnsureKeepsCount ==
  ASSUME StoresTypeOK, CountMatches, NEW p \in Path, EnsureForIngest(p)
  PROVE  CountMatches'
<1>1. /\ DocOf[p] \in Doc /\ BatchOf[p] \in Batch
      /\ docCount \in [Batch -> Nat]
      /\ batches' = batches \cup {BatchOf[p]}
  BY StoresAssumption DEF StoresTypeOK, EnsureForIngest
<1> SUFFICES ASSUME NEW b \in Batch
             PROVE  /\ docCount'[b] = Cardinality(DocsOf(b)')
                    /\ b \in batches' <=> DocsOf(b)' # {}
  BY DEF CountMatches, DocsOf
<1>2. docCount[b] = Cardinality(DocsOf(b)) /\ (b \in batches <=> DocsOf(b) # {})
  BY DEF CountMatches, DocsOf
<1>3. b \in batches' <=> DocsOf(b)' # {}
  BY <1>1, <1>2, EnsureAddsDocument
<1>4. CASE b # BatchOf[p]
  BY <1>1, <1>2, <1>3, <1>4, EnsureAddsDocument DEF EnsureForIngest
<1>5. CASE b = BatchOf[p] /\ docRow[DocOf[p]] = NoRow
  <2>1. DocOf[p] \notin DocsOf(b)
    BY <1>5 DEF DocsOf
  <2>2. Cardinality(DocsOf(b) \cup {DocOf[p]}) = Cardinality(DocsOf(b)) + 1
    BY <2>1, DocsFinite, FS_AddElement
  <2>3. docCount'[b] = docCount[b] + 1
    BY <1>1, <1>5 DEF EnsureForIngest
  <2> QED
    BY <1>2, <1>3, <1>5, <2>2, <2>3, EnsureAddsDocument
<1>6. CASE b = BatchOf[p] /\ docRow[DocOf[p]] # NoRow
  <2>1. DocOf[p] \in DocsOf(b)
    BY <1>1, <1>6 DEF DocsOf, EnsureForIngest, DocumentOfOtherBatch
  <2>2. DocsOf(b)' = DocsOf(b)
    BY <1>6, <2>1, EnsureAddsDocument
  <2>3. docCount'[b] = docCount[b]
    BY <1>6 DEF EnsureForIngest
  <2> QED
    BY <1>2, <1>3, <2>2, <2>3
<1> QED
  BY <1>4, <1>5, <1>6

\* Only ensure_for_ingest writes batches and documents, and it keeps the count right.
LEMMA NextCountMatches == TypeOK /\ CountMatches /\ [Next]_vars => CountMatches'
<1> SUFFICES ASSUME TypeOK, CountMatches, [Next]_vars
             PROVE  CountMatches'
  OBVIOUS
<1>1. CASE UNCHANGED <<docRow, batches, docCount>>
  BY <1>1 DEF CountMatches
<1>2. CASE EnsureDocumentRow
  <2>1. EnsureForIngest(current) \/ UNCHANGED <<docRow, batches, docCount>>
    BY <1>2 DEF EnsureDocumentRow
  <2>2. current \in Path
    BY <1>2 DEF EnsureDocumentRow, TypeOK, IngestTypeOK, Holding
  <2> QED
    BY <1>1, <2>1, <2>2, EnsureKeepsCount DEF TypeOK
<1>3. EnsureDocumentRow \/ UNCHANGED <<docRow, batches, docCount>>
  BY DEF Next, IngestNext, Ingest, Vendor, VendorDrop, VendorRewrite, EnsureBuckets,
         ListIncoming, StartFile, EndPoll, Wake, FetchAndValidate, UploadWithRetry,
         EnqueueWithRetry, MoveToProcessed, MoveToQuarantine, Move, Crash, Restart,
         WorkerPops, storeVars, vars
<1> QED
  BY <1>1, <1>2, <1>3

\* document_count is right whatever is retried after a lost answer: CountMatches.
THEOREM CountsMatch == Spec => []CountMatches
<1>1. Init => CountMatches
  <2> SUFFICES ASSUME Init, NEW b \in Batch
               PROVE  docCount[b] = Cardinality(DocsOf(b)) /\ (b \in batches <=> DocsOf(b) # {})
    BY DEF CountMatches, DocsOf
  <2>1. DocsOf(b) = {} /\ docCount[b] = 0 /\ batches = {}
    BY DEF Init, StoresInit, DocsOf
  <2> QED
    BY <2>1, FS_EmptySet
<1> QED
  BY <1>1, InitTypeOK, NextTypeOK, NextCountMatches, PTL DEF Spec


-----------------------------------------------------------------------------
(***************************************************************************)
(* The tree: TreeInv is inductive, given IngestInv, whoever replaces which *)
(* file.                                                                   *)
(***************************************************************************)
\* A content moves through the tree in four ways.
LEMMA LocSteps ==
  ASSUME [Next]_vars
  PROVE  \/ UNCHANGED loc
         \/ \E f \in File : VendorDrop(f)
         \/ \E f, g \in File : VendorRewrite(f, g)
         \/ \E dir \in {"processed", "quarantine"} :
              Move(dir) /\ \E f \in At(current) : loc' = [loc EXCEPT ![f] = dir]
<1>1. CASE MoveToProcessed \/ MoveToQuarantine
  BY <1>1 DEF MoveToProcessed, MoveToQuarantine, Move, Rename
<1>2. CASE Vendor
  BY <1>2 DEF Vendor
<1>3. MoveToProcessed \/ MoveToQuarantine \/ Vendor \/ UNCHANGED loc
  BY DEF Next, IngestNext, Ingest, EnsureBuckets, ListIncoming, StartFile, EndPoll,
         Wake, FetchAndValidate, UploadWithRetry, EnsureDocumentRow, EnqueueWithRetry,
         Crash, Restart, WorkerPops, storeVars, vars
<1> QED
  BY <1>1, <1>2, <1>3

\* A step of the vendor changes neither the process nor the stores behind the tree.
LEMMA DropSeen ==
  ASSUME TypeOK, NEW f \in File, VendorDrop(f)
  PROVE  /\ UNCHANGED <<blobs, docRow, queue, popped, phase, current, data>>
         /\ loc[f] = "absent" /\ loc'[f] = "incoming"
         /\ \A h \in File : h # f => loc'[h] = loc[h]
         /\ \A h \in File : loc[h] = "incoming" => PathOf[h] # PathOf[f]
  BY DEF TypeOK, StoresTypeOK, VendorDrop, ingestVars, At

\* Nor does a writer that puts one content in the place of another.
LEMMA RewriteSeen ==
  ASSUME TypeOK, NEW f \in File, NEW g \in File, VendorRewrite(f, g)
  PROVE  /\ UNCHANGED <<blobs, docRow, queue, popped, phase, current, data>>
         /\ f # g /\ loc[g] = "absent" /\ loc'[g] = loc[f] /\ loc'[f] = "rewritten"
         /\ loc[f] \in {"incoming", "processed", "quarantine"}
         /\ PathOf[f] = PathOf[g] /\ f \in Rewrites
         /\ \A h \in File : h # f /\ h # g => loc'[h] = loc[h]
  BY DEF TypeOK, StoresTypeOK, VendorRewrite, ingestVars

\* A move takes one file out of incoming/ and ends the turn of its path.
LEMMA MoveSeen ==
  ASSUME TypeOK, NEW dir \in {"processed", "quarantine"}, Move(dir), NEW f \in At(current),
         loc' = [loc EXCEPT ![f] = dir]
  PROVE  /\ UNCHANGED <<blobs, docRow, queue, popped>>
         /\ phase = dir /\ phase' = "next"
         /\ f \in File /\ loc[f] = "incoming" /\ PathOf[f] = current /\ loc'[f] = dir
         /\ \A h \in File : h # f => loc'[h] = loc[h]
  BY DEF TypeOK, StoresTypeOK, Move, FileDone, NextFileFrom, At

\* Whatever moves, two files never share a path of incoming/, and no content goes back
\* to where it was before its drop.
LEMMA LocStepTree ==
  ASSUME TypeOK, OneFileAtPath, [Next]_vars
  PROVE  OneFileAtPath' /\ \A f \in File : loc[f] # "absent" => loc'[f] # "absent"
<1>1. CASE UNCHANGED loc
  BY <1>1 DEF OneFileAtPath
<1>2. ASSUME NEW f \in File, VendorDrop(f)
      PROVE  OneFileAtPath' /\ \A h \in File : loc[h] # "absent" => loc'[h] # "absent"
  BY <1>2, DropSeen DEF OneFileAtPath
<1>3. ASSUME NEW f \in File, NEW g \in File, VendorRewrite(f, g)
      PROVE  OneFileAtPath' /\ \A h \in File : loc[h] # "absent" => loc'[h] # "absent"
  <2>1. /\ f # g /\ loc[g] = "absent" /\ loc'[g] = loc[f] /\ loc'[f] = "rewritten"
        /\ loc[f] \in {"incoming", "processed", "quarantine"}
        /\ PathOf[f] = PathOf[g]
        /\ \A h \in File : h # f /\ h # g => loc'[h] = loc[h]
    BY <1>3, RewriteSeen
  <2> QED
    BY <2>1 DEF OneFileAtPath
<1>4. ASSUME NEW dir \in {"processed", "quarantine"}, Move(dir), NEW f \in At(current),
             loc' = [loc EXCEPT ![f] = dir]
      PROVE  OneFileAtPath' /\ \A h \in File : loc[h] # "absent" => loc'[h] # "absent"
  BY <1>4, MoveSeen DEF OneFileAtPath
<1> QED
  BY <1>1, <1>2, <1>3, <1>4, LocSteps

\* The steps of the process, as far as TreeInv sees them.
LEMMA ProcessSteps ==
  ASSUME TypeOK, [Next]_vars, UNCHANGED loc
  PROVE  \/ UNCHANGED <<blobs, phase, current, data>>
         \/ UNCHANGED blobs /\ phase' \notin Holding \cup {"quarantine"}
         \/ UNCHANGED <<blobs, data, current>> /\ phase \in Holding /\ phase' \in Holding
         \/ FetchAndValidate
         \/ UploadWithRetry /\ PutObject
<1>1. CASE UploadWithRetry \/ EnsureDocumentRow \/ EnqueueWithRetry
  <2>1. phase \in Holding
    BY <1>1 DEF UploadWithRetry, EnsureDocumentRow, EnqueueWithRetry, Holding
  <2>a. UNCHANGED blobs \/ UploadWithRetry
    BY <1>1 DEF EnsureDocumentRow, EnqueueWithRetry
  <2>b. UploadWithRetry => UNCHANGED blobs \/ PutObject
    BY DEF UploadWithRetry
  <2>2. CASE AttemptFailed
    BY <2>1, <2>a, <2>b, <2>2 DEF AttemptFailed, FileDone, NextFileFrom, Holding
  <2>3. CASE \E next \in Holding : Advance(next)
    BY <2>1, <2>a, <2>b, <2>3 DEF Advance
  <2> QED
    BY <1>1, <2>2, <2>3
    DEF UploadWithRetry, EnsureDocumentRow, EnqueueWithRetry, Holding
<1>2. CASE EnsureBuckets \/ ListIncoming \/ StartFile \/ EndPoll \/ Wake \/ Crash \/ Restart
  BY <1>2
  DEF EnsureBuckets, ListIncoming, StartFile, EndPoll, Wake, Crash, Restart,
      Advance, NextFileFrom, Stop, Holding, storeVars
<1>3. CASE MoveToProcessed \/ MoveToQuarantine
  BY <1>3 DEF MoveToProcessed, MoveToQuarantine, Move, FileDone, NextFileFrom, Holding
<1>4. CASE Vendor \/ WorkerPops \/ UNCHANGED vars
  BY <1>4 DEF Vendor, VendorDrop, VendorRewrite, WorkerPops, ingestVars, storeVars, vars
<1> QED
  BY <1>1, <1>2, <1>3, <1>4 DEF Next, IngestNext, Ingest

\* No file is in the tree or in hand at the start.
LEMMA InitTreeInv == Init => TreeInv
  BY DEF Init, StoresInit, TreeInv, OneFileAtPath, Holding

\* Every step keeps it: the vendor finds a path free or takes a file's place, the fetch
\* reads the one file of a path, and the upload stores the bytes of that file.
LEMMA NextTreeInv == IngestInv /\ TreeInv /\ [Next]_vars => TreeInv'
<1> SUFFICES ASSUME IngestInv, TreeInv, [Next]_vars
             PROVE  TreeInv'
  OBVIOUS
<1>t. /\ TypeOK /\ StoresTypeOK /\ blobs \in [Key -> File \cup {NoFile}]
      /\ phase \in Holding => data \in File /\ current \in Path
      /\ BlobsValidated
  BY DEF IngestInv, TypeOK, StoresTypeOK, IngestTypeOK
<1>u. OneFileAtPath' /\ \A f \in File : loc[f] # "absent" => loc'[f] # "absent"
  BY <1>t, LocStepTree DEF TreeInv
<1>1. CASE UNCHANGED loc
  <2>1. CASE UNCHANGED <<blobs, phase, current, data>>
    BY <1>1, <2>1 DEF TreeInv, Unsettled, At, OneFileAtPath
  <2>2. CASE UNCHANGED blobs /\ phase' \notin Holding \cup {"quarantine"}
    BY <1>1, <1>u, <2>2 DEF TreeInv
  <2>3. CASE UNCHANGED <<blobs, data, current>> /\ phase \in Holding /\ phase' \in Holding
    BY <1>1, <1>u, <2>3 DEF TreeInv, Unsettled, Holding
  <2>4. CASE FetchAndValidate
    <3>1. UNCHANGED blobs
      BY <2>4 DEF FetchAndValidate, storeVars
    <3>2. CASE FileDone
      BY <1>1, <2>2, <3>1, <3>2 DEF FileDone, NextFileFrom, Holding
    <3>3. CASE phase' = "upload" /\ data' \in At(current)
      BY <1>1, <1>u, <3>1, <3>3 DEF TreeInv, Unsettled, At
    <3>4. CASE Advance("quarantine") /\ \E f \in At(current) : Verdict[f] = "invalid"
      <4>1. \A f \in At(current) : Verdict[f] = "invalid"
        BY <3>4 DEF TreeInv, OneFileAtPath, At
      <4>2. At(current)' = At(current)
        BY <1>1, <3>4 DEF At, Advance
      <4>3. \A f \in At(current), k \in Key : blobs[k] # f
        BY <1>t, <4>1, StoresAssumption DEF BlobsValidated, At
      <4> QED
        BY <1>1, <1>u, <3>1, <3>4, <4>2, <4>3 DEF TreeInv, Advance, Holding
    <3> QED
      BY <2>4, <3>2, <3>3, <3>4 DEF FetchAndValidate
  <2>5. CASE UploadWithRetry /\ PutObject
    <3>1. /\ phase \in Holding /\ data \in File /\ KeyOf[current] \in Key
          /\ blobs' = [blobs EXCEPT ![KeyOf[current]] = data]
          /\ Unsettled(data)
      BY <1>t, <2>5, StoresAssumption DEF UploadWithRetry, PutObject, Holding, TreeInv
    <3>2. \A k \in Key : blobs'[k] # NoFile => loc'[blobs'[k]] # "absent"
      BY <1>1, <1>t, <3>1 DEF Unsettled, TreeInv
    <3>3. (UNCHANGED data /\ phase' \in Holding) \/ phase' \notin Holding \cup {"quarantine"}
      BY <2>5, <3>1
      DEF UploadWithRetry, AttemptFailed, Advance, FileDone, NextFileFrom, Holding
    <3> QED
      BY <1>1, <1>u, <3>1, <3>2, <3>3 DEF TreeInv, Unsettled, Holding
  <2> QED
    BY <1>1, <1>t, <2>1, <2>2, <2>3, <2>4, <2>5, ProcessSteps
<1>2. ASSUME NEW f \in File, VendorDrop(f)
      PROVE  TreeInv'
  <2>1. /\ UNCHANGED <<blobs, phase, current, data>>
        /\ loc[f] = "absent" /\ loc'[f] = "incoming"
        /\ \A h \in File : h # f => loc'[h] = loc[h]
    BY <1>2, <1>t, DropSeen
  <2>2. phase' \in Holding => Unsettled(data)'
    BY <1>t, <2>1 DEF TreeInv, Unsettled
  <2>3. \A k \in Key : blobs[k] # f
    BY <1>t, <2>1, StoresAssumption DEF TreeInv
  <2>4. phase' = "quarantine" => \A h \in At(current)', k \in Key : blobs[k] # h
    BY <2>1, <2>3 DEF TreeInv, At
  <2>5. \A k \in Key : blobs'[k] # NoFile => loc'[blobs'[k]] # "absent"
    BY <1>t, <1>u, <2>1 DEF TreeInv
  <2> QED
    BY <1>u, <2>1, <2>2, <2>4, <2>5 DEF TreeInv
<1>3. ASSUME NEW f \in File, NEW g \in File, VendorRewrite(f, g)
      PROVE  TreeInv'
  <2>1. /\ UNCHANGED <<blobs, phase, current, data>>
        /\ f # g /\ loc[g] = "absent" /\ loc'[g] = loc[f] /\ loc'[f] = "rewritten"
        /\ PathOf[f] = PathOf[g]
        /\ \A h \in File : h # f /\ h # g => loc'[h] = loc[h]
    BY <1>3, <1>t, RewriteSeen
  <2>2. phase' \in Holding => Unsettled(data)'
    BY <1>t, <2>1 DEF TreeInv, Unsettled
  <2>3. \A k \in Key : blobs[k] # g
    BY <1>t, <2>1, StoresAssumption DEF TreeInv
  <2>4. phase' = "quarantine" => \A h \in At(current)', k \in Key : blobs[k] # h
    BY <2>1, <2>3 DEF TreeInv, At
  <2>5. \A k \in Key : blobs'[k] # NoFile => loc'[blobs'[k]] # "absent"
    BY <1>t, <1>u, <2>1 DEF TreeInv
  <2> QED
    BY <1>u, <2>1, <2>2, <2>4, <2>5 DEF TreeInv
<1>4. ASSUME NEW dir \in {"processed", "quarantine"}, Move(dir), NEW f \in At(current),
             loc' = [loc EXCEPT ![f] = dir]
      PROVE  TreeInv'
  <2>1. UNCHANGED blobs /\ phase' = "next"
    BY <1>4, <1>t, MoveSeen
  <2> QED
    BY <1>t, <1>u, <2>1 DEF TreeInv, Holding
<1> QED
  BY <1>1, <1>2, <1>3, <1>4, LocSteps

=============================================================================
