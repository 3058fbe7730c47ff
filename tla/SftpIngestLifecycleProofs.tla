---------------------- MODULE SftpIngestLifecycleProofs ----------------------
(***************************************************************************)
(* Proofs about where the ingest service moves a file.  If acceptable      *)
(* contents stay as they were dropped, "Move-on-Success" holds and no      *)
(* uploaded object is forgotten.  If only contents are replaced that       *)
(* validation cannot judge, as a TIFF that is still being written, then    *)
(* the service implements the lifecycle of DocumentLifecycle.              *)
(***************************************************************************)
EXTENDS SftpIngestProofs

-----------------------------------------------------------------------------
(***************************************************************************)
(* Acceptable contents that stay: what is in hand is in incoming/.         *)
(***************************************************************************)
\* Only contents that may be replaced are.
LEMMA NextAcceptableStays ==
  ASSUME \A f \in Rewrites : Verdict[f] # "ok"
  PROVE  TypeOK /\ AcceptableStays /\ [Next]_vars => AcceptableStays'
<1> SUFFICES ASSUME TypeOK, AcceptableStays, [Next]_vars
             PROVE  AcceptableStays'
  OBVIOUS
<1>1. CASE UNCHANGED loc
  BY <1>1 DEF AcceptableStays
<1>2. ASSUME NEW f \in File, VendorDrop(f)
      PROVE  AcceptableStays'
  BY <1>2, DropSeen DEF AcceptableStays
<1>3. ASSUME NEW f \in File, NEW g \in File, VendorRewrite(f, g)
      PROVE  AcceptableStays'
  <2>1. /\ f \in Rewrites /\ loc'[g] = loc[f] /\ loc[f] # "rewritten"
        /\ \A h \in File : h # f /\ h # g => loc'[h] = loc[h]
    BY <1>3, RewriteSeen
  <2> QED
    BY <2>1 DEF AcceptableStays
<1>4. ASSUME NEW dir \in {"processed", "quarantine"}, Move(dir), NEW f \in At(current),
             loc' = [loc EXCEPT ![f] = dir]
      PROVE  AcceptableStays'
  BY <1>4, MoveSeen DEF AcceptableStays
<1> QED
  BY <1>1, <1>2, <1>3, <1>4, LocSteps

\* The bytes in hand are those of the one file at the current path.
LEMMA HeldIsIncoming ==
  ASSUME IngestInv, TreeInv, AcceptableStays, phase \in Holding
  PROVE  /\ data \in File /\ current \in Path /\ PathOf[data] = current
         /\ Verdict[data] = "ok" /\ loc[data] = "incoming"
  BY DEF IngestInv, TypeOK, IngestTypeOK, HoldsValid, TreeInv, Unsettled, AcceptableStays

\* A move to processed/ takes the file whose bytes were stored, registered and queued.
LEMMA MovedIsDone ==
  ASSUME IngestInv, TreeInv, AcceptableStays, phase = "processed", NEW f \in At(current)
  PROVE  f = data /\ Verdict[f] = "ok" /\ MovedAfterSuccess(f)
<1>1. /\ data \in File /\ PathOf[data] = current
      /\ Verdict[data] = "ok" /\ loc[data] = "incoming"
  BY HeldIsIncoming DEF Holding
<1>2. /\ blobs[KeyOf[current]] = data /\ RowOf(JobOf(current))
      /\ JobOf(current) \in Delivered
  BY DEF IngestInv, CallsDone
<1>3. f = data
  BY <1>1 DEF At, TreeInv, OneFileAtPath
<1>4. JobOf(current).key = KeyOf[current]
  BY DEF JobOf
<1> QED
  BY <1>1, <1>2, <1>3, <1>4 DEF MovedAfterSuccess

\* Every step moves only files whose object, row and job are there.
LEMMA StepMoveOnSuccess ==
  ASSUME IngestInv, TreeInv, AcceptableStays, [Next]_vars,
         NEW f \in File, loc[f] = "incoming", loc'[f] = "processed"
  PROVE  MovedAfterSuccess(f)
<1>1. TypeOK
  BY DEF IngestInv
<1>2. ~ \E g \in File : VendorDrop(g)
  BY <1>1, DropSeen
<1>3. ASSUME NEW g \in File, NEW h \in File, VendorRewrite(g, h)
      PROVE  FALSE
  <2>1. /\ loc[h] = "absent" /\ loc'[g] = "rewritten"
        /\ \A e \in File : e # g /\ e # h => loc'[e] = loc[e]
    BY <1>1, <1>3, RewriteSeen
  <2> QED
    BY <2>1
<1>4. ASSUME NEW dir \in {"processed", "quarantine"}, Move(dir), NEW g \in At(current),
             loc' = [loc EXCEPT ![g] = dir]
      PROVE  MovedAfterSuccess(f)
  <2>1. /\ phase = dir /\ loc'[g] = dir
        /\ \A e \in File : e # g => loc'[e] = loc[e]
    BY <1>1, <1>4, MoveSeen
  <2>2. f = g /\ phase = "processed"
    BY <2>1
  <2> QED
    BY <2>2, MovedIsDone
<1> QED
  BY <1>2, <1>3, <1>4, LocSteps

\* Files are only moved to processed/ after their upload, their row and their job:
\* MoveOnSuccess, for every tree and every pattern of faults.
THEOREM MovesOnSuccess ==
  ASSUME \A f \in Rewrites : Verdict[f] # "ok"
  PROVE  Spec => MoveOnSuccess
<1>1. IngestInv /\ TreeInv /\ AcceptableStays /\ [Next]_vars
        => [\A f \in File : loc[f] = "incoming" /\ loc'[f] = "processed"
                              => MovedAfterSuccess(f)]_vars
  BY StepMoveOnSuccess
<1>2. IngestInv /\ TreeInv /\ AcceptableStays /\ [Next]_vars
        => IngestInv' /\ TreeInv' /\ AcceptableStays'
  BY NextIngestInv, NextTreeInv, NextAcceptableStays DEF IngestInv
<1>3. Init => IngestInv /\ TreeInv /\ AcceptableStays
  BY InitIngestInv, InitTreeInv DEF Init, StoresInit, AcceptableStays
<1> QED
  BY <1>1, <1>2, <1>3, PTL DEF Spec, MoveOnSuccess

-----------------------------------------------------------------------------
(***************************************************************************)
(* No uploaded object is forgotten.                                        *)
(***************************************************************************)
\* Jobs that were delivered and rows that were committed stay.
LEMMA RequestsStay ==
  ASSUME IngestInv, [Next]_vars
  PROVE  \A p \in Path :
           JobOf(p) \in Delivered /\ RowOf(JobOf(p))
             => JobOf(p) \in Delivered' /\ RowOf(JobOf(p))'
<1>t. TypeOK /\ StoresTypeOK
  BY DEF IngestInv, TypeOK
<1>1. CASE UNCHANGED <<docRow, queue, popped>>
  BY <1>1 DEF Delivered, Queued, RowOf, JobOf
<1>2. CASE EnsureDocumentRow
  <2>1. UNCHANGED <<queue, popped>> /\ (EnsureForIngest(current) \/ UNCHANGED docRow)
    BY <1>2 DEF EnsureDocumentRow
  <2>2. PICK p \in Path : p = current
    BY <1>2 DEF EnsureDocumentRow, IngestInv, TypeOK, IngestTypeOK, Holding
  <2>3. CASE UNCHANGED docRow
    BY <1>1, <2>1, <2>3
  <2>4. CASE EnsureForIngest(p)
    <3>1. \A j \in Job : RowOf(j) => RowOf(j)'
      BY <1>t, <2>4, EnsureKeepsRows
    <3>2. \A q \in Path : RowOf(JobOf(q)) => RowOf(JobOf(q))'
      BY <3>1, JobOfType DEF RowOf, JobOf
    <3> QED
      BY <2>1, <3>2 DEF Delivered, Queued
  <2> QED
    BY <2>1, <2>2, <2>3, <2>4
<1>3. CASE EnqueueWithRetry
  <2>1. UNCHANGED <<docRow, popped>> /\ (PushJob \/ UNCHANGED queue)
    BY <1>3 DEF EnqueueWithRetry
  <2>2. PICK p \in Path : p = current
    BY <1>3 DEF EnqueueWithRetry, IngestInv, TypeOK, IngestTypeOK, Holding
  <2>3. PushJob => Delivered' = Delivered \cup {JobOf(p)}
    BY <1>t, <2>1, <2>2, PushDelivers DEF PushJob
  <2>4. UNCHANGED queue => Delivered' = Delivered
    BY <2>1 DEF Delivered, Queued
  <2> QED
    BY <2>1, <2>3, <2>4 DEF RowOf, JobOf
<1>4. CASE WorkerPops
  <2>1. Delivered' = Delivered /\ UNCHANGED docRow
    BY <1>4, <1>t, PopDelivers DEF WorkerPops
  <2> QED
    BY <2>1 DEF RowOf, JobOf
<1>5. EnsureDocumentRow \/ EnqueueWithRetry \/ WorkerPops \/ UNCHANGED <<docRow, queue, popped>>
  BY DEF Next, IngestNext, Ingest, Vendor, VendorDrop, VendorRewrite, EnsureBuckets,
         ListIncoming, StartFile, EndPoll, Wake, FetchAndValidate, UploadWithRetry,
         MoveToProcessed, MoveToQuarantine, Move, Crash, Restart, storeVars, vars
<1> QED
  BY <1>1, <1>2, <1>3, <1>4, <1>5

\* Every step keeps a stored object's file in incoming/ or its job in the queue's history.
LEMMA NextNoOrphanBlob ==
  ASSUME IngestInv, TreeInv, AcceptableStays, AcceptableStays', NoOrphanBlob, [Next]_vars
  PROVE  NoOrphanBlob'
<1>t. /\ TypeOK /\ blobs \in [Key -> File \cup {NoFile}]
      /\ BlobsValidated
      /\ phase \in Holding => data \in File /\ current \in Path
  BY DEF IngestInv, TypeOK, StoresTypeOK, IngestTypeOK
<1> SUFFICES ASSUME NEW k \in Key, blobs'[k] # NoFile, NEW f, f = blobs'[k]
             PROVE  \/ loc'[f] = "incoming"
                    \/ JobOf(PathOf[f]) \in Delivered' /\ RowOf(JobOf(PathOf[f]))'
  BY DEF NoOrphanBlob, RowOf, JobOf
<1> DEFINE Requested == JobOf(PathOf[f]) \in Delivered /\ RowOf(JobOf(PathOf[f]))
<1>1. CASE UploadWithRetry /\ PutObject /\ k = KeyOf[current]
  <2>1. f = data /\ UNCHANGED loc
    BY <1>1, <1>t DEF UploadWithRetry, PutObject
  <2>2. loc[data] = "incoming"
    BY <1>1, HeldIsIncoming DEF UploadWithRetry, Holding
  <2> QED
    BY <2>1, <2>2
<1>2. CASE f = blobs[k]
  <2>1. f \in File /\ PathOf[f] \in Path /\ Verdict[f] = "ok" /\ KeyOf[PathOf[f]] = k
    BY <1>2, <1>t, StoresAssumption DEF BlobsValidated
  <2>2. CASE Requested
    BY <1>2, <2>1, <2>2, RequestsStay
  <2>3. CASE ~Requested
    <3>1. loc[f] = "incoming"
      BY <1>2, <2>3 DEF NoOrphanBlob
    <3>2. ASSUME NEW g \in File, VendorDrop(g)
          PROVE  loc'[f] = "incoming"
      BY <1>t, <2>1, <3>1, <3>2, DropSeen
    <3>3. ASSUME NEW g \in File, NEW h \in File, VendorRewrite(g, h)
          PROVE  loc'[f] = "incoming"
      <4>1. /\ loc[h] = "absent" /\ loc'[g] = "rewritten"
            /\ \A e \in File : e # g /\ e # h => loc'[e] = loc[e]
        BY <1>t, <3>3, RewriteSeen
      <4>2. f # g
        BY <2>1, <4>1 DEF AcceptableStays
      <4> QED
        BY <2>1, <3>1, <4>1, <4>2
    <3>4. ASSUME NEW dir \in {"processed", "quarantine"}, Move(dir), NEW g \in At(current),
                 loc' = [loc EXCEPT ![g] = dir]
          PROVE  loc'[f] = "incoming"
      <4>1. /\ phase = dir
            /\ \A e \in File : e # g => loc'[e] = loc[e]
        BY <1>t, <3>4, MoveSeen
      <4>2. f # g
        <5>1. CASE dir = "processed"
          BY <2>1, <2>3, <4>1, <5>1, MovedIsDone DEF MovedAfterSuccess
        <5>2. CASE dir = "quarantine"
          BY <1>2, <4>1, <5>2 DEF TreeInv
        <5> QED
          BY <5>1, <5>2
      <4> QED
        BY <2>1, <3>1, <4>1, <4>2
    <3> QED
      BY <1>2, <3>1, <3>2, <3>3, <3>4, LocSteps
  <2> QED
    BY <2>2, <2>3
<1>3. f = blobs[k] \/ (UploadWithRetry /\ PutObject /\ k = KeyOf[current])
  <2>1. UNCHANGED blobs \/ UploadWithRetry
    BY DEF Next, IngestNext, Ingest, Vendor, VendorDrop, VendorRewrite, EnsureBuckets,
           ListIncoming, StartFile, EndPoll, Wake, FetchAndValidate, EnsureDocumentRow,
           EnqueueWithRetry, MoveToProcessed, MoveToQuarantine, Move, Crash, Restart,
           WorkerPops, storeVars, vars
  <2>2. UploadWithRetry => UNCHANGED blobs \/ PutObject
    BY DEF UploadWithRetry
  <2>3. PutObject => k = KeyOf[current] \/ f = blobs[k]
    BY <1>t DEF PutObject
  <2> QED
    BY <2>1, <2>2, <2>3
<1> QED
  BY <1>1, <1>2, <1>3

\* Until its row and its job exist, an uploaded object has its file in incoming/, where
\* the next poll finds it: NoOrphanBlob.
THEOREM NoObjectForgotten ==
  ASSUME \A f \in Rewrites : Verdict[f] # "ok"
  PROVE  Spec => []NoOrphanBlob
<1> DEFINE Inv == IngestInv /\ TreeInv /\ AcceptableStays /\ NoOrphanBlob
<1>1. Inv /\ [Next]_vars => Inv'
  BY NextIngestInv, NextTreeInv, NextAcceptableStays, NextNoOrphanBlob DEF IngestInv
<1>2. Init => Inv
  <2>1. Init => \A k \in Key : blobs[k] = NoFile
    BY DEF Init, StoresInit
  <2> QED
    BY <2>1, InitIngestInv, InitTreeInv DEF Init, StoresInit, AcceptableStays, NoOrphanBlob
<1>3. Inv => NoOrphanBlob
  OBVIOUS
<1> HIDE DEF Inv
<1> QED
  BY <1>1, <1>2, <1>3, PTL DEF Spec

-----------------------------------------------------------------------------
(***************************************************************************)
(* Contents that are replaced only while validation cannot judge them.     *)
(***************************************************************************)
\* No file is settled and none is rejected at the start.
LEMMA InitSettledRightly == Init => SettledRightly
  BY DEF Init, StoresInit, SettledRightly

\* What was accepted or rejected, and the file on its way to quarantine/, stay as they are.
LEMMA NextSettledRightly ==
  ASSUME \A f \in Rewrites : Verdict[f] = "raises"
  PROVE  IngestInv /\ TreeInv /\ AcceptableStays /\ SettledRightly /\ [Next]_vars
           => SettledRightly'
<1> SUFFICES ASSUME IngestInv, TreeInv, AcceptableStays, SettledRightly, [Next]_vars
             PROVE  SettledRightly'
  OBVIOUS
<1>t. TypeOK
  BY DEF IngestInv
<1>1. CASE UNCHANGED loc
  <2>1. CASE UNCHANGED <<phase, current>>
    BY <1>1, <2>1 DEF SettledRightly, At
  <2>2. CASE phase' # "quarantine"
    BY <1>1, <2>2 DEF SettledRightly
  <2>3. CASE FetchAndValidate
    <3>1. CASE Advance("quarantine") /\ \E f \in At(current) : Verdict[f] = "invalid"
      <4>1. At(current) # {} /\ \A f \in At(current) : Verdict[f] = "invalid"
        BY <3>1 DEF TreeInv, OneFileAtPath, At
      <4>2. At(current)' = At(current)
        BY <1>1, <3>1 DEF At, Advance
      <4> QED
        BY <1>1, <4>1, <4>2 DEF SettledRightly
    <3> QED
      BY <2>2, <2>3, <3>1 DEF FetchAndValidate, FileDone, NextFileFrom
  <2>4. UploadWithRetry => phase' # "quarantine"
    BY DEF UploadWithRetry, AttemptFailed, Advance, FileDone, NextFileFrom
  <2> QED
    BY <1>1, <1>t, <2>1, <2>2, <2>3, <2>4, ProcessSteps DEF Holding
<1>2. ASSUME NEW f \in File, VendorDrop(f)
      PROVE  SettledRightly'
  <2>1. /\ UNCHANGED <<phase, current>>
        /\ loc[f] = "absent" /\ loc'[f] = "incoming"
        /\ \A h \in File : h # f => loc'[h] = loc[h]
        /\ \A h \in File : loc[h] = "incoming" => PathOf[h] # PathOf[f]
    BY <1>2, <1>t, DropSeen
  <2>2. phase = "quarantine" => At(current)' = At(current)
    BY <2>1 DEF At, SettledRightly
  <2> QED
    BY <2>1, <2>2 DEF SettledRightly
<1>3. ASSUME NEW f \in File, NEW g \in File, VendorRewrite(f, g)
      PROVE  SettledRightly'
  <2>1. /\ UNCHANGED <<phase, current>> /\ Verdict[f] = "raises"
        /\ loc[g] = "absent" /\ loc'[g] = loc[f] /\ loc'[f] = "rewritten"
        /\ loc[f] \in {"incoming", "processed", "quarantine"}
        /\ PathOf[f] = PathOf[g]
        /\ \A h \in File : h # f /\ h # g => loc'[h] = loc[h]
    BY <1>3, <1>t, RewriteSeen
  <2>2. loc[f] = "incoming"
    BY <2>1 DEF SettledRightly
  <2>3. phase = "quarantine" => PathOf[f] # current
    BY <2>1, <2>2 DEF SettledRightly, At
  <2>4. phase = "quarantine" => At(current)' = At(current)
    BY <2>1, <2>2, <2>3 DEF At
  <2> QED
    BY <2>1, <2>2, <2>4 DEF SettledRightly
<1>4. ASSUME NEW dir \in {"processed", "quarantine"}, Move(dir), NEW f \in At(current),
             loc' = [loc EXCEPT ![f] = dir]
      PROVE  SettledRightly'
  <2>1. /\ phase = dir /\ phase' = "next" /\ f \in File /\ loc'[f] = dir
        /\ \A h \in File : h # f => loc'[h] = loc[h]
    BY <1>4, <1>t, MoveSeen
  <2>2. IF dir = "processed" THEN Verdict[f] = "ok" ELSE Verdict[f] = "invalid"
    BY <2>1, MovedIsDone DEF SettledRightly
  <2> QED
    BY <2>1, <2>2 DEF SettledRightly
<1> QED
  BY <1>1, <1>2, <1>3, <1>4, LocSteps

\* The invariant under which every step is one of the lifecycle.
SettledInv == IngestInv /\ TreeInv /\ AcceptableStays /\ SettledRightly

\* It holds at the start, and every step keeps it.
LEMMA SettledInvInductive ==
  ASSUME \A f \in Rewrites : Verdict[f] = "raises"
  PROVE  /\ Init => SettledInv
         /\ SettledInv /\ [Next]_vars => SettledInv'
<1>1. Init => SettledInv
  BY InitIngestInv, InitTreeInv, InitSettledRightly
  DEF Init, StoresInit, AcceptableStays, SettledInv
<1>2. SettledInv /\ [Next]_vars => SettledInv'
  BY NextIngestInv, NextTreeInv, NextAcceptableStays, NextSettledRightly
  DEF IngestInv, SettledInv
<1> QED
  BY <1>1, <1>2

-----------------------------------------------------------------------------
(***************************************************************************)
(* The service implements the lifecycle: each step of it stores an object, *)
(* registers a document, requests its classification, accepts or rejects a *)
(* file, or changes nothing that the lifecycle sees.                       *)
(***************************************************************************)
\* The service starts where the lifecycle starts.
LEMMA InitLifecycle == Init => Lifecycle!LifecycleInit
<1> SUFFICES ASSUME Init
             PROVE  Lifecycle!LifecycleInit
  OBVIOUS
<1>1. Delivered = {}
  BY DEF Init, StoresInit, Delivered, Queued
<1>2. StoredKeys = {} /\ FilesIn("processed") = {} /\ FilesIn("quarantine") = {}
  BY DEF Init, StoresInit, StoredKeys, FilesIn
<1>3. RequestedPaths = {}
  BY <1>1 DEF RequestedPaths
<1>4. CommittedRows = {}
  BY DEF Init, StoresInit, CommittedRows
<1> QED
  BY <1>2, <1>3, <1>4 DEF Lifecycle!LifecycleInit

\* What the lifecycle sees depends on these variables alone.
LEMMA StoresSeen ==
  ASSUME UNCHANGED <<blobs, docRow, queue, popped>>
  PROVE  UNCHANGED <<StoredKeys, CommittedRows, RequestedPaths>>
  BY DEF StoredKeys, CommittedRows, RequestedPaths, Delivered, Queued

\* The files that are settled depend on loc alone.
LEMMA FilesSeen ==
  ASSUME UNCHANGED loc
  PROVE  UNCHANGED <<FilesIn("processed"), FilesIn("quarantine")>>
  BY DEF FilesIn

\* An upload is the lifecycle's Store, or a stutter when the key had an object.
LEMMA PutStores ==
  ASSUME IngestInv, phase \in Holding, PutObject, UNCHANGED <<loc, docRow, queue, popped>>
  PROVE  Lifecycle!Store(current)
<1>1. /\ KeyOf[current] \in Key /\ data \in File
      /\ blobs \in [Key -> File \cup {NoFile}]
      /\ blobs' = [blobs EXCEPT ![KeyOf[current]] = data]
  BY StoresAssumption
  DEF IngestInv, TypeOK, IngestTypeOK, StoresTypeOK, PutObject
<1>2. StoredKeys' = StoredKeys \cup {KeyOf[current]}
  BY <1>1, StoresAssumption DEF StoredKeys
<1>3. UNCHANGED <<CommittedRows, RequestedPaths>>
  BY DEF CommittedRows, RequestedPaths, Delivered, Queued
<1> QED
  BY <1>2, <1>3, FilesSeen DEF Lifecycle!Store

\* A commit of ensure_for_ingest is the lifecycle's Register.
LEMMA EnsureRegisters ==
  ASSUME IngestInv, phase = "row", EnsureForIngest(current),
         UNCHANGED <<loc, blobs, queue, popped>>
  PROVE  Lifecycle!Register(current)
<1> PICK p \in Path : p = current
  BY DEF IngestInv, TypeOK, IngestTypeOK, Holding
<1>1. /\ DocOf[p] \in Doc /\ BatchOf[p] \in Batch /\ KeyOf[p] \in Key
      /\ docRow \in [Doc -> [batch : Batch, key : Key] \cup {NoRow}]
      /\ docRow' = [docRow EXCEPT ![DocOf[p]] = [batch |-> BatchOf[p], key |-> KeyOf[p]]]
      /\ docRow[DocOf[p]] # NoRow => docRow[DocOf[p]].batch = BatchOf[p]
  BY StoresAssumption
  DEF IngestInv, TypeOK, StoresTypeOK, EnsureForIngest, DocumentOfOtherBatch
<1>2. blobs[KeyOf[p]] # NoFile
  BY StoresAssumption DEF IngestInv, CallsDone, TypeOK, IngestTypeOK, Holding
<1>3. KeyOf[p] \in StoredKeys
  BY <1>1, <1>2 DEF StoredKeys
<1>4. \A b \in Batch : <<b, DocOf[p]>> \in CommittedRows => b = BatchOf[p]
  BY <1>1 DEF CommittedRows
<1>5. docRow'[DocOf[p]] # NoRow /\ docRow'[DocOf[p]].batch = BatchOf[p]
  BY <1>1, StoresAssumption
<1>6. CommittedRows' = CommittedRows \cup {<<BatchOf[p], DocOf[p]>>}
  <2>1. ASSUME NEW b \in Batch, NEW d \in Doc
        PROVE  <<b, d>> \in CommittedRows'
                 <=> <<b, d>> \in CommittedRows \cup {<<BatchOf[p], DocOf[p]>>}
    <3>1. CASE d = DocOf[p]
      BY <1>4, <1>5, <3>1 DEF CommittedRows
    <3>2. CASE d # DocOf[p]
      BY <1>1, <3>2 DEF CommittedRows
    <3> QED
      BY <3>1, <3>2
  <2>2. CommittedRows \subseteq Batch \X Doc /\ CommittedRows' \subseteq Batch \X Doc
    BY DEF CommittedRows
  <2>3. <<BatchOf[p], DocOf[p]>> \in Batch \X Doc
    BY <1>1
  <2> QED
    BY <2>1, <2>2, <2>3
<1>7. UNCHANGED <<StoredKeys, RequestedPaths>>
  BY DEF StoredKeys, RequestedPaths, Delivered, Queued
<1> QED
  BY <1>3, <1>4, <1>6, <1>7, FilesSeen DEF Lifecycle!Register, Lifecycle!RowAt

\* A push is the lifecycle's Request: the object and the row are there before it.
LEMMA PushRequests ==
  ASSUME IngestInv, phase = "enqueue", PushJob, UNCHANGED <<loc, blobs, docRow, popped>>
  PROVE  Lifecycle!Request(current)
<1> PICK p \in Path : p = current
  BY DEF IngestInv, TypeOK, IngestTypeOK, Holding
<1>1. /\ TypeOK
      /\ blobs[KeyOf[p]] = data /\ data \in File /\ RowOf(JobOf(p))
      /\ queue' = Append(queue, JobOf(p))
  BY DEF IngestInv, CallsDone, TypeOK, IngestTypeOK, Holding, PushJob
<1>2. KeyOf[p] \in StoredKeys
  BY <1>1, StoresAssumption DEF StoredKeys
<1>3. <<BatchOf[p], DocOf[p]>> \in CommittedRows
  BY <1>1, StoresAssumption DEF CommittedRows, RowOf, JobOf
<1>4. Delivered' = Delivered \cup {JobOf(p)}
  BY <1>1, PushDelivers
<1>5. \A q \in Path : JobOf(q) = JobOf(p) <=> KeyOf[q] = KeyOf[p]
  BY StoresAssumption DEF JobOf
<1>6. RequestedPaths' = RequestedPaths \cup {q \in Path : KeyOf[q] = KeyOf[p]}
  BY <1>4, <1>5 DEF RequestedPaths
<1>7. UNCHANGED <<StoredKeys, CommittedRows>>
  BY DEF StoredKeys, CommittedRows
<1> QED
  BY <1>2, <1>3, <1>6, <1>7, FilesSeen DEF Lifecycle!Request, Lifecycle!RowAt

\* A move of a file at its turn accepts it or rejects it, as validation said.
LEMMA MoveSettles ==
  ASSUME SettledInv, NEW dir \in {"processed", "quarantine"}, phase = dir,
         NEW f \in At(current), loc' = [loc EXCEPT ![f] = dir],
         UNCHANGED <<blobs, docRow, queue, popped>>
  PROVE  Lifecycle!Accept(f) \/ Lifecycle!Reject(f)
<1>1. f \in File /\ loc[f] = "incoming" /\ PathOf[f] = current /\ loc \in [File -> Location]
  BY DEF At, SettledInv, IngestInv, TypeOK, StoresTypeOK
<1>2. UNCHANGED <<StoredKeys, CommittedRows, RequestedPaths>>
  BY StoresSeen
<1>3. CASE dir = "processed"
  <2>1. f = data /\ Verdict[f] = "ok" /\ MovedAfterSuccess(f)
    BY <1>3, MovedIsDone DEF SettledInv
  <2>2. f \in Acceptable
    BY <1>1, <2>1 DEF Acceptable
  <2>3. PathOf[f] \in RequestedPaths
    BY <1>1, <2>1, StoresAssumption DEF RequestedPaths, MovedAfterSuccess
  <2>4. /\ FilesIn("processed")' = FilesIn("processed") \cup {f}
        /\ FilesIn("quarantine")' = FilesIn("quarantine")
    BY <1>1, <1>3 DEF FilesIn
  <2> QED
    BY <1>2, <2>2, <2>3, <2>4 DEF Lifecycle!Accept
<1>4. CASE dir = "quarantine"
  <2>1. f \notin Acceptable
    BY <1>4 DEF SettledInv, SettledRightly, Acceptable
  <2>2. /\ FilesIn("quarantine")' = FilesIn("quarantine") \cup {f}
        /\ FilesIn("processed")' = FilesIn("processed")
    BY <1>1, <1>4 DEF FilesIn
  <2> QED
    BY <1>2, <2>1, <2>2 DEF Lifecycle!Reject
<1> QED
  BY <1>3, <1>4

\* Every step of the service is a step of the lifecycle or changes nothing it sees.
LEMMA StepLifecycle ==
  ASSUME \A f \in Rewrites : Verdict[f] = "raises"
  PROVE  SettledInv /\ [Next]_vars
           => [Lifecycle!LifecycleNext]_Lifecycle!lifecycleVars
<1> SUFFICES ASSUME SettledInv, [Next]_vars
             PROVE  \/ Lifecycle!LifecycleNext
                    \/ UNCHANGED Lifecycle!lifecycleVars
  OBVIOUS
<1>t. /\ IngestInv /\ TypeOK /\ loc \in [File -> Location]
      /\ phase \in Holding => current \in Path
  BY DEF SettledInv, IngestInv, TypeOK, StoresTypeOK, IngestTypeOK
<1>1. ASSUME UNCHANGED <<loc, blobs, docRow, queue, popped>>
      PROVE  UNCHANGED Lifecycle!lifecycleVars
  BY <1>1, StoresSeen, FilesSeen DEF Lifecycle!lifecycleVars
<1>2. CASE UploadWithRetry
  <2>1. phase \in Holding /\ UNCHANGED <<loc, docRow, queue, popped>>
    BY <1>2 DEF UploadWithRetry, Holding
  <2>2. CASE PutObject
    BY <1>t, <2>1, <2>2, PutStores DEF Lifecycle!LifecycleNext
  <2>3. CASE UNCHANGED blobs
    BY <1>1, <2>1, <2>3
  <2> QED
    BY <1>2, <2>2, <2>3 DEF UploadWithRetry
<1>3. CASE EnsureDocumentRow
  <2>1. phase = "row" /\ phase \in Holding /\ UNCHANGED <<loc, blobs, queue, popped>>
    BY <1>3 DEF EnsureDocumentRow, Holding
  <2>2. CASE EnsureForIngest(current)
    BY <1>t, <2>1, <2>2, EnsureRegisters DEF Lifecycle!LifecycleNext
  <2>3. CASE UNCHANGED docRow
    BY <1>1, <2>1, <2>3
  <2> QED
    BY <1>3, <2>2, <2>3 DEF EnsureDocumentRow
<1>4. CASE EnqueueWithRetry
  <2>1. phase = "enqueue" /\ phase \in Holding /\ UNCHANGED <<loc, blobs, docRow, popped>>
    BY <1>4 DEF EnqueueWithRetry, Holding
  <2>2. CASE PushJob
    BY <1>t, <2>1, <2>2, PushRequests DEF Lifecycle!LifecycleNext
  <2>3. CASE UNCHANGED queue
    BY <1>1, <2>1, <2>3
  <2> QED
    BY <1>4, <2>2, <2>3 DEF EnqueueWithRetry
<1>5. ASSUME NEW dir \in {"processed", "quarantine"}, Move(dir)
      PROVE  Lifecycle!LifecycleNext \/ UNCHANGED Lifecycle!lifecycleVars
  <2>1. phase = dir /\ UNCHANGED <<blobs, docRow, queue, popped>>
    BY <1>5 DEF Move
  <2>2. UNCHANGED loc \/ \E f \in At(current) : loc' = [loc EXCEPT ![f] = dir]
    BY <1>5 DEF Move, Rename
  <2>3. CASE UNCHANGED loc
    BY <1>1, <2>1, <2>3
  <2>4. ASSUME NEW f \in At(current), loc' = [loc EXCEPT ![f] = dir]
        PROVE  Lifecycle!LifecycleNext
    BY <2>1, <2>4, MoveSettles DEF At, Lifecycle!LifecycleNext
  <2> QED
    BY <2>2, <2>3, <2>4
<1>6. CASE Vendor
  <2>1. ASSUME NEW f \in File, VendorDrop(f)
        PROVE  UNCHANGED Lifecycle!lifecycleVars
    <3>1. UNCHANGED <<FilesIn("processed"), FilesIn("quarantine")>>
      BY <1>t, <2>1, DropSeen DEF FilesIn
    <3> QED
      BY <1>t, <2>1, <3>1, DropSeen, StoresSeen DEF Lifecycle!lifecycleVars
  <2>2. ASSUME NEW f \in File, NEW g \in File, VendorRewrite(f, g)
        PROVE  UNCHANGED Lifecycle!lifecycleVars
    <3>1. /\ UNCHANGED <<blobs, docRow, queue, popped>> /\ f \in Rewrites
          /\ loc[g] = "absent" /\ loc'[g] = loc[f] /\ loc'[f] = "rewritten"
          /\ loc[f] \in {"incoming", "processed", "quarantine"}
          /\ \A h \in File : h # f /\ h # g => loc'[h] = loc[h]
      BY <1>t, <2>2, RewriteSeen
    <3>2. loc[f] = "incoming"
      BY <3>1 DEF SettledInv, SettledRightly
    <3>3. UNCHANGED <<FilesIn("processed"), FilesIn("quarantine")>>
      BY <3>1, <3>2 DEF FilesIn
    <3> QED
      BY <3>1, <3>3, StoresSeen DEF Lifecycle!lifecycleVars
  <2> QED
    BY <1>6, <2>1, <2>2 DEF Vendor
<1>7. CASE WorkerPops
  <2>1. UNCHANGED <<loc, blobs, docRow>> /\ Delivered' = Delivered
    BY <1>7, <1>t, PopDelivers DEF WorkerPops
  <2>2. UNCHANGED <<StoredKeys, CommittedRows, RequestedPaths>>
    BY <2>1 DEF StoredKeys, CommittedRows, RequestedPaths
  <2> QED
    BY <2>1, <2>2, FilesSeen DEF Lifecycle!lifecycleVars
<1>8. \/ UploadWithRetry \/ EnsureDocumentRow \/ EnqueueWithRetry
      \/ MoveToProcessed \/ MoveToQuarantine \/ Vendor \/ WorkerPops
      \/ UNCHANGED <<loc, blobs, docRow, queue, popped>>
  BY DEF Next, IngestNext, Ingest, EnsureBuckets, ListIncoming, StartFile, EndPoll,
         Wake, FetchAndValidate, Crash, Restart, storeVars, vars
<1> QED
  BY <1>1, <1>2, <1>3, <1>4, <1>5, <1>6, <1>7, <1>8 DEF MoveToProcessed, MoveToQuarantine

\* Every behaviour of the service, with its faults, retries and crashes, is a
\* behaviour of the lifecycle: ImplementsLifecycle.
THEOREM IngestImplementsLifecycle ==
  ASSUME \A f \in Rewrites : Verdict[f] = "raises"
  PROVE  Spec => ImplementsLifecycle
<1>1. (SettledInv /\ [Next]_vars => SettledInv') /\ (Init => SettledInv)
  BY SettledInvInductive
<1> QED
  BY <1>1, InitLifecycle, StepLifecycle, PTL
  DEF Spec, ImplementsLifecycle, Lifecycle!LifecycleSpec

=============================================================================
