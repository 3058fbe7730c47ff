--------------------------- MODULE PipelineStores ---------------------------
(***************************************************************************)
(* The stores that the ingest service and the classification worker share: *)
(* the vendor's SFTP tree, the "documents" bucket of MinIO, the tables     *)
(* documents and batches of Postgres, and the RQ queue "classify" in       *)
(* Redis.  The processes communicate through them and through nothing else.*)
(***************************************************************************)
EXTENDS Naturals, Sequences, FiniteSets

CONSTANTS
  File,      \* the contents a file of the SFTP tree may have: one drop is one element
  Path,      \* the paths below incoming/
  Name,      \* the basenames of those paths
  Key,       \* blob keys: documents/{batch_id}/{document_id}.tif
  Batch,     \* batches.id
  Doc,       \* documents.id
  PathOf,    \* the path a content is dropped at
  NameOf,    \* posixpath.basename of a path
  KeyOf,     \* the blob key that validate_tiff builds from a path
  BatchOf,   \* the UUID that the parent directory of a path spells
  DocOf,     \* the UUID that the stem of a path spells
  NoFile,    \* no object is stored
  NoRow,     \* no row is committed
  MaxFaults  \* bound: failed remote calls and crashes in a behaviour

\* Two spellings of the same UUIDs give two paths and two keys of one document,
\* so KeyOf determines BatchOf and DocOf but not the reverse.
ASSUME StoresAssumption ==
  /\ PathOf \in [File -> Path]
  /\ NameOf \in [Path -> Name]
  /\ KeyOf \in [Path -> Key]
  /\ BatchOf \in [Path -> Batch]
  /\ DocOf \in [Path -> Doc]
  /\ \A p, q \in Path :
       KeyOf[p] = KeyOf[q] => BatchOf[p] = BatchOf[q] /\ DocOf[p] = DocOf[q]
  /\ NoFile \notin File
  /\ NoRow \notin [batch : Batch, key : Key]
  /\ IsFiniteSet(Doc)
  /\ MaxFaults \in Nat

VARIABLES
  loc,       \* where each content is on the SFTP server
  blobs,     \* the documents bucket: the content stored under each key
  docRow,    \* the table documents: batch_id and blob_key of each document
  batches,   \* the table batches: the ids that have a row
  docCount,  \* the table batches: document_count
  queue,     \* the jobs waiting in RQ, oldest first
  popped,    \* history: the jobs a worker has taken off the queue
  faults     \* faults so far

storeVars == <<loc, blobs, docRow, batches, docCount, queue, popped>>

(***************************************************************************)
(* A ClassifyJob payload.  Its request_id only labels log lines.           *)
(***************************************************************************)
Job == [batch : Batch, doc : Doc, key : Key]

JobOf(p) == [batch |-> BatchOf[p], doc |-> DocOf[p], key |-> KeyOf[p]]

Queued == {queue[i] : i \in 1 .. Len(queue)}

\* Every job that was ever handed to Redis.
Delivered == Queued \cup popped

(***************************************************************************)
(* "rewritten" is the content a file had before its writer replaced it,    *)
(* "absent" a content that is still to be dropped.                         *)
(***************************************************************************)
Location == {"absent", "incoming", "processed", "quarantine", "rewritten"}

StoresTypeOK ==
  /\ loc \in [File -> Location]
  /\ blobs \in [Key -> File \cup {NoFile}]
  /\ docRow \in [Doc -> [batch : Batch, key : Key] \cup {NoRow}]
  /\ batches \in SUBSET Batch
  /\ docCount \in [Batch -> Nat]
  /\ queue \in Seq(Job)
  /\ popped \in SUBSET Job
  /\ faults \in 0 .. MaxFaults

StoresInit ==
  /\ loc = [f \in File |-> "absent"]
  /\ blobs = [k \in Key |-> NoFile]
  /\ docRow = [d \in Doc |-> NoRow]
  /\ batches = {}
  /\ docCount = [b \in Batch |-> 0]
  /\ queue = <<>>
  /\ popped = {}
  /\ faults = 0

\* A remote call that fails, or a crash.
Fault ==
  /\ faults < MaxFaults
  /\ faults' = faults + 1

\* Mutant of DocumentOfOtherBatch: the batch of an existing row is not compared.
MismatchIgnored(p) == FALSE

(***************************************************************************)
(* DocumentRepository.ensure_for_ingest, as the one transaction it runs in.*)
(* Ingest is the only writer of documents and of batches, so its reads are *)
(* not stale when it commits.                                              *)
(***************************************************************************)
DocumentOfOtherBatch(p) ==
  docRow[DocOf[p]] # NoRow /\ docRow[DocOf[p]].batch # BatchOf[p]

\* Mutant of EnsureForIngest: every call counts, a repeated one too.
CountsEveryCall(p) ==
  /\ ~DocumentOfOtherBatch(p)
  /\ batches' = batches \cup {BatchOf[p]}
  /\ docCount' = [docCount EXCEPT ![BatchOf[p]] = @ + 1]
  /\ docRow' = [docRow EXCEPT ![DocOf[p]] = [batch |-> BatchOf[p], key |-> KeyOf[p]]]

EnsureForIngest(p) ==
  /\ ~DocumentOfOtherBatch(p)
  /\ batches' = batches \cup {BatchOf[p]}
  /\ docCount' = IF docRow[DocOf[p]] = NoRow
                 THEN [docCount EXCEPT ![BatchOf[p]] = @ + 1]
                 ELSE docCount
  /\ docRow' = [docRow EXCEPT ![DocOf[p]] = [batch |-> BatchOf[p], key |-> KeyOf[p]]]

\* A committed documents row says that j.doc is a document of j.batch.
RowOf(j) == docRow[j.doc] # NoRow /\ docRow[j.doc].batch = j.batch
=============================================================================
