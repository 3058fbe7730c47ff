-------------------------- MODULE ScanTriggerProofs --------------------------
(***************************************************************************)
(* Proofs about the scan trigger beside the ingest service, for every set  *)
(* of paths it uploads to and whatever the vendor does at other paths: the *)
(* ingest service keeps its promises beside it, and no upload is lost that *)
(* ingest did not fetch half written.                                      *)
(***************************************************************************)
EXTENDS ScanTrigger, SftpIngestProofs

-----------------------------------------------------------------------------
(***************************************************************************)
(* The steps of the trigger, seen by the ingest service.                   *)
(***************************************************************************)
\* The two contents of an uploaded path are its own.
LEMMA ScanPaths ==
  ASSUME NEW p \in ScanPath
  PROVE  /\ p \in Path
         /\ PartOf[p] \in File /\ WholeOf[p] \in File
         /\ PathOf[PartOf[p]] = p /\ PathOf[WholeOf[p]] = p
         /\ PartOf[p] # WholeOf[p]
         /\ Verdict[WholeOf[p]] = "ok"
         /\ \A f \in File : PathOf[f] = p => f \in {PartOf[p], WholeOf[p]}
<1>1. {f \in File : PathOf[f] = p} = {PartOf[p], WholeOf[p]}
  BY ScanAssumption
<1>2. p \in Path /\ PartOf[p] # WholeOf[p] /\ Verdict[WholeOf[p]] = "ok"
  BY ScanAssumption
<1> QED
  BY <1>1, <1>2

\* A failed upload that left nothing behind, as the stores see it.
NothingUploaded == UNCHANGED <<storeVars, ingestVars>> /\ (Fault \/ UNCHANGED faults)

\* What the trigger writes the vendor could write: only a failure is no step of the
\* ingest service's environment, and it changes nothing but the count of faults.
LEMMA ScanIsIngest ==
  ASSUME [ScanNext]_scanAllVars
  PROVE  [Next]_vars \/ NothingUploaded
<1>1. CASE IngestStep
  BY <1>1 DEF IngestStep, Next, IngestNext
<1>2. ASSUME NEW f \in File \ Scanned, VendorDrop(f)
      PROVE  [Next]_vars
  BY <1>2 DEF Next, IngestNext, Vendor
<1>3. ASSUME NEW f \in File \ Scanned, NEW g \in File \ Scanned, VendorRewrite(f, g)
      PROVE  [Next]_vars
  BY <1>3 DEF Next, IngestNext, Vendor
<1>4. ASSUME NEW p \in ScanPath, StartUpload(p)
      PROVE  [Next]_vars \/ NothingUploaded
  BY <1>4, ScanPaths
  DEF StartUpload, UploadFails, NothingUploaded, Next, IngestNext, Vendor
<1>5. ASSUME NEW p \in ScanPath, WriteUpload(p)
      PROVE  [Next]_vars \/ NothingUploaded
  BY <1>5, ScanPaths
  DEF WriteUpload, UploadFails, NothingUploaded, Next, IngestNext, Vendor
<1>6. ASSUME NEW p \in ScanPath, ConfirmUpload(p)
      PROVE  NothingUploaded
  BY <1>6 DEF ConfirmUpload, UploadFails, NothingUploaded
<1>7. CASE (Crash \/ Restart \/ WorkerPops) /\ UNCHANGED scanVars
  BY <1>7 DEF Next, IngestNext
<1>8. CASE UNCHANGED scanAllVars
  BY <1>8 DEF scanAllVars
<1> QED
  BY <1>1, <1>2, <1>3, <1>4, <1>5, <1>6, <1>7, <1>8 DEF ScanNext

\* So the invariants of the ingest service hold beside the trigger.
LEMMA ScanKeepsIngest ==
  ASSUME IngestInv, TreeInv, [ScanNext]_scanAllVars
  PROVE  IngestInv' /\ TreeInv'
<1>1. CASE [Next]_vars
  BY <1>1, NextIngestInv, NextTreeInv
<1>2. CASE NothingUploaded
  <2>1. /\ UNCHANGED <<loc, blobs, docRow, batches, docCount, queue, popped>>
        /\ UNCHANGED <<phase, listing, current, data, attempt>>
    BY <1>2 DEF NothingUploaded, storeVars, ingestVars
  <2>2. HoldsValid' /\ CallsDone' /\ JobBacked' /\ BlobsValidated'
    BY <2>1, AllKept
  <2>3. faults' \in 0 .. MaxFaults
    BY <1>2, StoresAssumption DEF NothingUploaded, Fault, IngestInv, TypeOK, StoresTypeOK
  <2>4. TypeOK'
    BY <2>1, <2>3 DEF IngestInv, TypeOK, StoresTypeOK, IngestTypeOK
  <2>5. TreeInv'
    BY <2>1 DEF TreeInv, OneFileAtPath, Unsettled, At
  <2> QED
    BY <2>2, <2>4, <2>5 DEF IngestInv
<1> QED
  BY <1>1, <1>2, ScanIsIngest

\* The progress of an upload and the history of early fetches have their types.
LEMMA ScanTypeStep ==
  ASSUME ScanTypeOK, [ScanNext]_scanAllVars
  PROVE  upload' \in [ScanPath -> {"none", "put", "confirm", "queued", "failed"}]
         /\ torn' \in SUBSET ScanPath
<1> USE DEF ScanTypeOK
<1>1. CASE IngestStep
  BY <1>1 DEF IngestStep
<1>2. ASSUME NEW p \in ScanPath, StartUpload(p) \/ WriteUpload(p) \/ ConfirmUpload(p)
      PROVE  /\ UNCHANGED torn
             /\ \E status \in {"put", "confirm", "queued", "failed"} : Becomes(p, status)
  BY <1>2 DEF StartUpload, WriteUpload, ConfirmUpload, UploadFails
<1>3. CASE UNCHANGED scanVars
  BY <1>3 DEF scanVars
<1> QED
  BY <1>1, <1>2, <1>3 DEF ScanNext, scanAllVars, scanVars, Becomes

-----------------------------------------------------------------------------
(***************************************************************************)
(* The files of one upload.                                                *)
(***************************************************************************)
\* The two contents of p stay where they are, and so does its upload.
Untouched(p) == UNCHANGED <<loc[PartOf[p]], loc[WholeOf[p]], upload[p]>>

\* What ingest, the vendor and the trigger do to the files of one upload.
LEMMA UploadSteps ==
  ASSUME ScanTypeOK, [ScanNext]_scanAllVars, NEW p \in ScanPath
  PROVE  \/ Untouched(p)
         \/ /\ upload[p] = "none" /\ upload'[p] = "put"
            /\ loc'[PartOf[p]] = "incoming" /\ loc'[WholeOf[p]] = loc[WholeOf[p]]
         \/ /\ upload[p] = "put" /\ upload'[p] = "confirm"
            /\ loc'[PartOf[p]] = "rewritten" /\ loc'[WholeOf[p]] = loc[PartOf[p]]
         \/ /\ upload[p] = "confirm" /\ loc[WholeOf[p]] = "incoming"
            /\ upload'[p] = "queued" /\ UNCHANGED loc
         \/ upload'[p] = "failed" /\ UNCHANGED loc
         \/ \E dir \in {"processed", "quarantine"}, f \in File :
              /\ phase = dir /\ current = p /\ PathOf[f] = p /\ loc[f] = "incoming"
              /\ UNCHANGED upload
              /\ loc' = [loc EXCEPT ![f] = dir]
<1>t. /\ loc \in [File -> Location] /\ TypeOK
      /\ upload \in [ScanPath -> {"none", "put", "confirm", "queued", "failed"}]
  BY DEF ScanTypeOK, TypeOK, StoresTypeOK
<1>p. /\ PartOf[p] \in File /\ WholeOf[p] \in File /\ PartOf[p] # WholeOf[p]
      /\ PathOf[PartOf[p]] = p /\ PathOf[WholeOf[p]] = p
      /\ PartOf[p] \in Scanned /\ WholeOf[p] \in Scanned
  BY ScanPaths DEF Scanned
<1>1. CASE IngestStep
  <2>1. UNCHANGED upload
    BY <1>1 DEF IngestStep
  <2>2. CASE UNCHANGED loc
    BY <2>1, <2>2 DEF Untouched
  <2>3. CASE MoveToProcessed \/ MoveToQuarantine
    <3>1. PICK dir \in {"processed", "quarantine"} : Move(dir)
      BY <2>3 DEF MoveToProcessed, MoveToQuarantine
    <3>2. UNCHANGED loc \/ \E f \in At(current) : loc' = [loc EXCEPT ![f] = dir]
      BY <3>1 DEF Move, Rename
    <3>3. ASSUME NEW f \in At(current), loc' = [loc EXCEPT ![f] = dir]
          PROVE  \/ Untouched(p)
                 \/ phase = dir /\ current = p /\ PathOf[f] = p /\ loc[f] = "incoming" /\ f \in File
      <4>1. /\ phase = dir /\ f \in File /\ loc[f] = "incoming" /\ PathOf[f] = current
            /\ \A h \in File : h # f => loc'[h] = loc[h]
        BY <1>t, <3>1, <3>3, MoveSeen
      <4>2. CASE current = p
        BY <4>1, <4>2
      <4>3. CASE current # p
        BY <1>p, <2>1, <4>1, <4>3 DEF Untouched
      <4> QED
        BY <4>2, <4>3
    <3> QED
      BY <2>1, <2>2, <3>2, <3>3
  <2> QED
    BY <1>1, <2>2, <2>3
    DEF IngestStep, Ingest, EnsureBuckets, ListIncoming, StartFile, EndPoll, Wake,
        FetchAndValidate, UploadWithRetry, EnsureDocumentRow, EnqueueWithRetry, storeVars
<1>2. ASSUME NEW f \in File \ Scanned, VendorDrop(f), UNCHANGED scanVars
      PROVE  Untouched(p)
  BY <1>t, <1>p, <1>2, DropSeen DEF scanVars, Untouched
<1>3. ASSUME NEW f \in File \ Scanned, NEW g \in File \ Scanned, VendorRewrite(f, g),
             UNCHANGED scanVars
      PROVE  Untouched(p)
  BY <1>t, <1>p, <1>3, RewriteSeen DEF scanVars, Untouched
\* An upload to another path, with other contents.
<1>o. ASSUME NEW q \in ScanPath, q # p
      PROVE  /\ PartOf[q] \in File /\ WholeOf[q] \in File
             /\ PartOf[q] \notin {PartOf[p], WholeOf[p]}
             /\ WholeOf[q] \notin {PartOf[p], WholeOf[p]}
             /\ \A status : Becomes(q, status) => upload'[p] = upload[p]
  BY <1>t, <1>p, <1>o, ScanPaths DEF Becomes
<1>b. \A status : Becomes(p, status) => upload'[p] = status
  BY <1>t DEF Becomes
<1>4. ASSUME NEW q \in ScanPath, UploadFails(q)
      PROVE  Untouched(p) \/ (upload'[p] = "failed" /\ UNCHANGED loc)
  <2>1. UNCHANGED loc /\ Becomes(q, "failed")
    BY <1>4 DEF UploadFails, storeVars
  <2> QED
    BY <1>o, <1>b, <2>1 DEF Untouched
<1>5. ASSUME NEW q \in ScanPath, upload[q] = "none", VendorDrop(PartOf[q]), Becomes(q, "put")
      PROVE  \/ Untouched(p)
             \/ /\ upload[p] = "none" /\ upload'[p] = "put"
                /\ loc'[PartOf[p]] = "incoming" /\ loc'[WholeOf[p]] = loc[WholeOf[p]]
  <2>1. /\ PartOf[q] \in File /\ loc'[PartOf[q]] = "incoming"
        /\ \A h \in File : h # PartOf[q] => loc'[h] = loc[h]
    BY <1>t, <1>5, ScanPaths, DropSeen
  <2>2. CASE q = p
    BY <1>p, <1>b, <1>5, <2>1, <2>2
  <2>3. CASE q # p
    BY <1>p, <1>o, <1>5, <2>1, <2>3 DEF Untouched
  <2> QED
    BY <2>2, <2>3
<1>6. ASSUME NEW q \in ScanPath, upload[q] = "put", VendorRewrite(PartOf[q], WholeOf[q]),
             Becomes(q, "confirm")
      PROVE  \/ Untouched(p)
             \/ /\ upload[p] = "put" /\ upload'[p] = "confirm"
                /\ loc'[PartOf[p]] = "rewritten" /\ loc'[WholeOf[p]] = loc[PartOf[p]]
  <2>1. /\ loc'[WholeOf[q]] = loc[PartOf[q]] /\ loc'[PartOf[q]] = "rewritten"
        /\ \A h \in File : h # PartOf[q] /\ h # WholeOf[q] => loc'[h] = loc[h]
    BY <1>t, <1>6, ScanPaths, RewriteSeen
  <2>2. CASE q = p
    BY <1>b, <1>6, <2>1, <2>2
  <2>3. CASE q # p
    BY <1>p, <1>o, <1>6, <2>1, <2>3 DEF Untouched
  <2> QED
    BY <2>2, <2>3
<1>7. ASSUME NEW q \in ScanPath, ConfirmUpload(q), ~UploadFails(q)
      PROVE  \/ Untouched(p)
             \/ /\ upload[p] = "confirm" /\ loc[WholeOf[p]] = "incoming"
                /\ upload'[p] = "queued" /\ UNCHANGED loc
             \/ upload'[p] = "failed" /\ UNCHANGED loc
  <2>1. /\ upload[q] = "confirm" /\ UNCHANGED loc
        /\ Becomes(q, IF loc[WholeOf[q]] = "incoming" THEN "queued" ELSE "failed")
    BY <1>7 DEF ConfirmUpload, storeVars
  <2>2. CASE q = p
    <3>1. upload'[p] = IF loc[WholeOf[p]] = "incoming" THEN "queued" ELSE "failed"
      BY <1>b, <2>1, <2>2
    <3> QED
      BY <2>1, <2>2, <3>1
  <2>3. CASE q # p
    BY <1>o, <2>1, <2>3 DEF Untouched
  <2> QED
    BY <2>2, <2>3
<1>8. CASE (Crash \/ Restart \/ WorkerPops) /\ UNCHANGED scanVars
  BY <1>8 DEF Crash, Restart, WorkerPops, storeVars, scanVars, Untouched
<1>9. CASE UNCHANGED scanAllVars
  BY <1>9 DEF scanAllVars, vars, storeVars, scanVars, Untouched
<1>10. ASSUME NEW q \in ScanPath, StartUpload(q) \/ WriteUpload(q) \/ ConfirmUpload(q)
       PROVE  \/ UploadFails(q)
              \/ upload[q] = "none" /\ VendorDrop(PartOf[q]) /\ Becomes(q, "put")
              \/ upload[q] = "put" /\ VendorRewrite(PartOf[q], WholeOf[q]) /\ Becomes(q, "confirm")
              \/ ConfirmUpload(q) /\ ~UploadFails(q)
  BY <1>10 DEF StartUpload, WriteUpload
<1>11. ASSUME NEW q \in ScanPath, StartUpload(q) \/ WriteUpload(q) \/ ConfirmUpload(q)
       PROVE  \/ Untouched(p)
              \/ /\ upload[p] = "none" /\ upload'[p] = "put"
                 /\ loc'[PartOf[p]] = "incoming" /\ loc'[WholeOf[p]] = loc[WholeOf[p]]
              \/ /\ upload[p] = "put" /\ upload'[p] = "confirm"
                 /\ loc'[PartOf[p]] = "rewritten" /\ loc'[WholeOf[p]] = loc[PartOf[p]]
              \/ /\ upload[p] = "confirm" /\ loc[WholeOf[p]] = "incoming"
                 /\ upload'[p] = "queued" /\ UNCHANGED loc
              \/ upload'[p] = "failed" /\ UNCHANGED loc
  BY <1>4, <1>5, <1>6, <1>7, <1>10, <1>11
<1> QED
  BY <1>1, <1>2, <1>3, <1>8, <1>9, <1>11 DEF ScanNext

\* Nobody takes a file of the upload away but ingest, and the trigger writes in order.
LEMMA UploadsSeenStep ==
  ASSUME ScanTypeOK, UploadsSeen, [ScanNext]_scanAllVars
  PROVE  UploadsSeen'
<1> SUFFICES ASSUME NEW p \in ScanPath
    PROVE  /\ loc'[WholeOf[p]] # "rewritten"
           /\ upload'[p] = "none" => loc'[PartOf[p]] = "absent"
           /\ upload'[p] \in {"none", "put"} => loc'[WholeOf[p]] = "absent"
           /\ upload'[p] = "put" => loc'[PartOf[p]] \in {"incoming", "processed", "quarantine"}
           /\ upload'[p] \in {"confirm", "queued"} =>
                /\ loc'[PartOf[p]] = "rewritten"
                /\ loc'[WholeOf[p]] \in {"incoming", "processed", "quarantine"}
  BY DEF UploadsSeen
<1>t. loc \in [File -> Location] /\ PartOf[p] \in File /\ WholeOf[p] \in File
  BY ScanPaths DEF ScanTypeOK, TypeOK, StoresTypeOK
<1>1. CASE Untouched(p)
  BY <1>1 DEF UploadsSeen, Untouched
<1>2. CASE /\ upload[p] = "none" /\ upload'[p] = "put"
           /\ loc'[PartOf[p]] = "incoming" /\ loc'[WholeOf[p]] = loc[WholeOf[p]]
  BY <1>2 DEF UploadsSeen
<1>3. CASE /\ upload[p] = "put" /\ upload'[p] = "confirm"
           /\ loc'[PartOf[p]] = "rewritten" /\ loc'[WholeOf[p]] = loc[PartOf[p]]
  BY <1>3 DEF UploadsSeen
<1>4. CASE /\ upload[p] = "confirm" /\ loc[WholeOf[p]] = "incoming"
           /\ upload'[p] = "queued" /\ UNCHANGED loc
  BY <1>4 DEF UploadsSeen
<1>5. CASE upload'[p] = "failed" /\ UNCHANGED loc
  BY <1>5 DEF UploadsSeen
<1>6. ASSUME NEW dir \in {"processed", "quarantine"}, NEW f \in File,
             loc[f] = "incoming", UNCHANGED upload, loc' = [loc EXCEPT ![f] = dir]
      PROVE  /\ loc'[WholeOf[p]] # "rewritten"
             /\ upload'[p] = "none" => loc'[PartOf[p]] = "absent"
             /\ upload'[p] \in {"none", "put"} => loc'[WholeOf[p]] = "absent"
             /\ upload'[p] = "put" => loc'[PartOf[p]] \in {"incoming", "processed", "quarantine"}
             /\ upload'[p] \in {"confirm", "queued"} =>
                  /\ loc'[PartOf[p]] = "rewritten"
                  /\ loc'[WholeOf[p]] \in {"incoming", "processed", "quarantine"}
  <2>1. /\ loc'[f] = dir
        /\ \A h \in File : h # f => loc'[h] = loc[h]
    BY <1>t, <1>6
  <2> QED
    BY <1>t, <1>6, <2>1 DEF UploadsSeen
<1> QED
  BY <1>1, <1>2, <1>3, <1>4, <1>5, <1>6, UploadSteps


-----------------------------------------------------------------------------
(***************************************************************************)
(* What ingest does with an upload that it did not fetch half written.     *)
(***************************************************************************)
\* A job that was delivered stays delivered.
LEMMA DeliveredStays ==
  ASSUME TypeOK, [ScanNext]_scanAllVars
  PROVE  Delivered \subseteq Delivered'
<1>1. CASE UNCHANGED <<queue, popped>>
  BY <1>1 DEF Delivered, Queued
<1>2. CASE EnqueueWithRetry
  <2>1. current \in Path
    BY <1>2 DEF EnqueueWithRetry, TypeOK, IngestTypeOK, Holding
  <2>2. UNCHANGED popped /\ (queue' = Append(queue, JobOf(current)) \/ UNCHANGED queue)
    BY <1>2 DEF EnqueueWithRetry, PushJob
  <2> QED
    BY <1>1, <2>1, <2>2, PushDelivers
<1>3. CASE WorkerPops
  BY <1>3, PopDelivers
<1>4. EnqueueWithRetry \/ WorkerPops \/ UNCHANGED <<queue, popped>>
  <2>1. CASE NothingUploaded
    BY <2>1 DEF NothingUploaded, storeVars
  <2>2. CASE [Next]_vars
    BY <2>2
    DEF Next, IngestNext, Ingest, Vendor, VendorDrop, VendorRewrite, EnsureBuckets,
        ListIncoming, StartFile, EndPoll, Wake, FetchAndValidate, UploadWithRetry,
        EnsureDocumentRow, MoveToProcessed, MoveToQuarantine, Move, Crash, Restart,
        storeVars, vars
  <2> QED
    BY <2>1, <2>2, ScanIsIngest
<1> QED
  BY <1>1, <1>2, <1>3, <1>4

\* Only a fetch brings a file into hand or on its way to quarantine/.
LEMMA ScanProcessSteps ==
  ASSUME [ScanNext]_scanAllVars
  PROVE  \/ UNCHANGED <<phase, current, data>>
         \/ phase' \notin Holding \cup {"quarantine"}
         \/ UNCHANGED <<current, data>> /\ phase \in Holding /\ phase' \in Holding
         \/ IngestStep /\ FetchAndValidate
<1>1. CASE UploadWithRetry \/ EnsureDocumentRow \/ EnqueueWithRetry
  <2>1. phase \in Holding
    BY <1>1 DEF UploadWithRetry, EnsureDocumentRow, EnqueueWithRetry, Holding
  <2>2. CASE AttemptFailed
    BY <2>1, <2>2 DEF AttemptFailed, FileDone, NextFileFrom, Holding
  <2>3. CASE \E next \in Holding : Advance(next)
    BY <2>1, <2>3 DEF Advance
  <2> QED
    BY <1>1, <2>2, <2>3 DEF UploadWithRetry, EnsureDocumentRow, EnqueueWithRetry, Holding
<1>2. CASE EnsureBuckets \/ ListIncoming \/ StartFile \/ EndPoll \/ Wake \/ Crash \/ Restart
  BY <1>2
  DEF EnsureBuckets, ListIncoming, StartFile, EndPoll, Wake, Crash, Restart,
      Advance, NextFileFrom, Stop, Holding
<1>3. CASE MoveToProcessed \/ MoveToQuarantine
  BY <1>3 DEF MoveToProcessed, MoveToQuarantine, Move, FileDone, NextFileFrom, Holding
<1>4. CASE NothingUploaded
  BY <1>4 DEF NothingUploaded, ingestVars
<1>5. CASE Vendor \/ WorkerPops \/ UNCHANGED vars
  BY <1>5 DEF Vendor, VendorDrop, VendorRewrite, WorkerPops, ingestVars, vars
<1>6. ASSUME NEW p \in ScanPath, StartUpload(p) \/ WriteUpload(p) \/ ConfirmUpload(p)
      PROVE  UNCHANGED <<phase, current, data>>
  BY <1>6
  DEF StartUpload, WriteUpload, ConfirmUpload, UploadFails, VendorDrop, VendorRewrite,
      ingestVars
<1>7. CASE IngestStep
  BY <1>1, <1>2, <1>3, <1>7 DEF IngestStep, Ingest
<1>8. CASE (\E f \in File \ Scanned : VendorDrop(f)) \/ (\E f, g \in File \ Scanned : VendorRewrite(f, g))
  BY <1>8 DEF VendorDrop, VendorRewrite, ingestVars
<1>9. CASE UNCHANGED scanAllVars
  BY <1>9 DEF scanAllVars, vars, ingestVars
<1> QED
  BY <1>2, <1>5, <1>6, <1>7, <1>8, <1>9 DEF ScanNext

\* A fetch of an upload either finds it whole, and it is then in hand, or is
\* remembered as too early, or ends the turn.
LEMMA FetchSeen ==
  ASSUME TypeOK, UploadsSeen, IngestStep, FetchAndValidate, NEW p \in ScanPath, p \notin torn',
         current' = p
  PROVE  /\ phase' # "quarantine"
         /\ phase' \in Holding => data' = WholeOf[p]
<1>1. phase = "fetch" /\ (current = p => loc[PartOf[p]] # "incoming")
  BY DEF IngestStep, FetchesPart, FetchAndValidate
<1>2. CASE FileDone
  BY <1>2 DEF FileDone, NextFileFrom, Holding
<1>3. ASSUME NEW f \in At(current), current = p
      PROVE  f = WholeOf[p]
  BY <1>1, <1>3, ScanPaths DEF At
<1>4. CASE phase' = "upload" /\ UNCHANGED current /\ data' \in At(current)
  BY <1>3, <1>4
<1>5. CASE Advance("quarantine") /\ \E f \in At(current) : Verdict[f] = "invalid"
  <2>1. current = p
    BY <1>5 DEF Advance
  <2>2. Verdict[WholeOf[p]] = "ok"
    BY ScanPaths
  <2> QED
    BY <1>3, <1>5, <2>1, <2>2
<1> QED
  BY <1>2, <1>4, <1>5 DEF FetchAndValidate

\* The turn of an upload that was not fetched too early ends with the whole file in
\* processed/ and its job delivered.
LEMMA WholeUnlessTornStep ==
  ASSUME IngestInv, TreeInv, ScanTypeOK, UploadsSeen, WholeUnlessTorn, [ScanNext]_scanAllVars
  PROVE  WholeUnlessTorn'
<1> SUFFICES ASSUME NEW p \in ScanPath, p \notin torn'
    PROVE  /\ loc'[PartOf[p]] \in {"absent", "incoming", "rewritten"}
           /\ loc'[WholeOf[p]] # "quarantine"
           /\ current' = p => phase' # "quarantine"
           /\ current' = p /\ phase' \in Holding => data' = WholeOf[p]
           /\ loc'[WholeOf[p]] = "processed" => JobOf(p) \in Delivered'
  BY DEF WholeUnlessTorn, JobOf
<1>t. /\ TypeOK /\ loc \in [File -> Location]
      /\ PartOf[p] \in File /\ WholeOf[p] \in File /\ PartOf[p] # WholeOf[p]
      /\ \A f \in File : PathOf[f] = p => f \in {PartOf[p], WholeOf[p]}
      /\ PathOf[PartOf[p]] = p /\ PathOf[WholeOf[p]] = p
  BY ScanPaths DEF IngestInv, TypeOK, StoresTypeOK
<1>n. p \notin torn
  BY DEF ScanNext, IngestStep, StartUpload, WriteUpload, ConfirmUpload, scanVars, scanAllVars
<1>w. /\ loc[PartOf[p]] \in {"absent", "incoming", "rewritten"}
      /\ loc[WholeOf[p]] # "quarantine"
      /\ current = p => phase # "quarantine"
      /\ current = p /\ phase \in Holding => data = WholeOf[p]
      /\ loc[WholeOf[p]] = "processed" => JobOf(p) \in Delivered
  BY <1>n DEF WholeUnlessTorn
<1>d. Delivered \subseteq Delivered'
  BY <1>t, DeliveredStays
<1>1. /\ current' = p => phase' # "quarantine"
      /\ current' = p /\ phase' \in Holding => data' = WholeOf[p]
  <2>1. CASE UNCHANGED <<phase, current, data>>
    BY <1>w, <2>1
  <2>2. CASE phase' \notin Holding \cup {"quarantine"}
    BY <2>2
  <2>3. CASE UNCHANGED <<current, data>> /\ phase \in Holding /\ phase' \in Holding
    BY <1>w, <2>3 DEF Holding
  <2>4. CASE IngestStep /\ FetchAndValidate
    BY <1>t, <2>4, FetchSeen
  <2> QED
    BY <2>1, <2>2, <2>3, <2>4, ScanProcessSteps
<1>2. /\ loc'[PartOf[p]] \in {"absent", "incoming", "rewritten"}
      /\ loc'[WholeOf[p]] # "quarantine"
      /\ loc'[WholeOf[p]] = "processed" => JobOf(p) \in Delivered'
  <2>1. CASE Untouched(p)
    BY <1>d, <1>w, <2>1 DEF Untouched
  <2>2. CASE /\ upload[p] = "none" /\ upload'[p] = "put"
             /\ loc'[PartOf[p]] = "incoming" /\ loc'[WholeOf[p]] = loc[WholeOf[p]]
    BY <1>d, <1>w, <2>2
  <2>3. CASE /\ upload[p] = "put" /\ upload'[p] = "confirm"
             /\ loc'[PartOf[p]] = "rewritten" /\ loc'[WholeOf[p]] = loc[PartOf[p]]
    BY <1>w, <2>3
  <2>4. CASE UNCHANGED loc
    BY <1>d, <1>w, <2>4
  <2>5. ASSUME NEW dir \in {"processed", "quarantine"}, NEW f \in File,
               phase = dir, current = p, PathOf[f] = p, loc[f] = "incoming",
               loc' = [loc EXCEPT ![f] = dir]
        PROVE  /\ loc'[PartOf[p]] \in {"absent", "incoming", "rewritten"}
               /\ loc'[WholeOf[p]] # "quarantine"
               /\ loc'[WholeOf[p]] = "processed" => JobOf(p) \in Delivered'
    <3>1. phase = "processed" /\ dir = "processed" /\ phase \in Holding
      BY <1>w, <2>5 DEF Holding
    <3>2. data = WholeOf[p] /\ JobOf(p) \in Delivered
      BY <1>w, <2>5, <3>1 DEF IngestInv, CallsDone
    <3>3. loc[WholeOf[p]] = "incoming"
      BY <3>1, <3>2 DEF TreeInv, Unsettled, UploadsSeen
    <3>4. f = WholeOf[p]
      BY <1>t, <2>5, <3>3 DEF TreeInv, OneFileAtPath
    <3>5. loc'[WholeOf[p]] = "processed" /\ loc'[PartOf[p]] = loc[PartOf[p]]
      BY <1>t, <2>5, <3>1, <3>4
    <3> QED
      BY <1>d, <1>w, <3>2, <3>5
  <2> QED
    BY <2>1, <2>2, <2>3, <2>4, <2>5, UploadSteps
<1> QED
  BY <1>1, <1>2

-----------------------------------------------------------------------------
(***************************************************************************)
(* The theorems.                                                           *)
(***************************************************************************)
\* Nothing is uploaded, stored or in hand at the start.
LEMMA InitScanInv == ScanInit => ScanInv
<1> SUFFICES ASSUME ScanInit
             PROVE  ScanInv
  OBVIOUS
<1>1. IngestInv /\ TreeInv /\ TypeOK
  BY InitIngestInv, InitTreeInv, InitTypeOK DEF ScanInit
<1>2. ScanTypeOK
  BY <1>1 DEF ScanInit, ScanTypeOK
<1>3. ASSUME NEW p \in ScanPath
      PROVE  /\ loc[PartOf[p]] = "absent" /\ loc[WholeOf[p]] = "absent"
             /\ upload[p] = "none" /\ phase = "boot"
  BY <1>3, ScanPaths DEF ScanInit, Init, StoresInit
<1>4. UploadsSeen /\ WholeUnlessTorn
  BY <1>3 DEF UploadsSeen, WholeUnlessTorn, Holding
<1> QED
  BY <1>1, <1>2, <1>4 DEF ScanInv

\* ScanInv is inductive: what ingest keeps of its own, what the trigger has written,
\* and what ingest has done with it.
THEOREM ScanInvariant == ScanSpec => []ScanInv
<1>1. ScanInv /\ [ScanNext]_scanAllVars => ScanInv'
  <2> SUFFICES ASSUME ScanInv, [ScanNext]_scanAllVars
               PROVE  ScanInv'
    OBVIOUS
  <2>1. IngestInv' /\ TreeInv'
    BY ScanKeepsIngest DEF ScanInv
  <2>2. ScanTypeOK'
    BY <2>1, ScanTypeStep DEF ScanInv, ScanTypeOK, IngestInv
  <2>3. UploadsSeen' /\ WholeUnlessTorn'
    BY UploadsSeenStep, WholeUnlessTornStep DEF ScanInv
  <2> QED
    BY <2>1, <2>2, <2>3 DEF ScanInv
<1> QED
  BY <1>1, InitScanInv, PTL DEF ScanSpec

\* ScanTypeOK holds in every state of the service and the trigger.
THEOREM ScanTypeCorrect == ScanSpec => []ScanTypeOK
<1>1. ScanInv => ScanTypeOK
  BY DEF ScanInv
<1> QED
  BY <1>1, ScanInvariant, PTL

\* Beside the trigger too, every job finds its object and its row, and an object holds
\* what was validated: JobBacked and BlobsValidated, although uploads are visible
\* half written and a connection may fail at any call.
THEOREM StoresBackedBesideTrigger == ScanSpec => [](JobBacked /\ BlobsValidated)
<1>1. ScanInv => JobBacked /\ BlobsValidated
  BY DEF ScanInv, IngestInv
<1> QED
  BY <1>1, ScanInvariant, PTL

\* A file that the trigger answers as queued waits in incoming/ or has its job, unless
\* ingest fetched it half written: QueuedIsKept, the safety part of QueuedIsIngested.
THEOREM QueuedAreKept == ScanSpec => []QueuedIsKept
<1>1. ScanInv => QueuedIsKept
  BY DEF ScanInv, UploadsSeen, WholeUnlessTorn, QueuedIsKept
<1> QED
  BY <1>1, ScanInvariant, PTL

=============================================================================
