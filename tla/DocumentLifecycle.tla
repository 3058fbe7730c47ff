-------------------------- MODULE DocumentLifecycle --------------------------
(***************************************************************************)
(* What the pipeline promises of a document, whatever process takes which  *)
(* step, dies or retries: a set of facts that only grows, each fact added  *)
(* once those it rests on are there.  ADR-M3-02 of DECISIONS.md calls it   *)
(* "Move-on-Success".                                                      *)
(***************************************************************************)
CONSTANTS
  File, Path, Key, Batch, Doc,
  PathOf, KeyOf, BatchOf, DocOf,
  Acceptable     \* the contents that validation accepts

VARIABLES
  stored,     \* the keys that have an object
  rows,       \* <<batch, document>> of each committed documents row
  requested,  \* the paths whose job was handed to the queue
  predicted,  \* <<batch, document>> of each committed predictions row
  accepted,   \* the contents that were moved to processed/
  rejected    \* the contents that were moved to quarantine/

lifecycleVars == <<stored, rows, requested, predicted, accepted, rejected>>

RowAt(p) == <<BatchOf[p], DocOf[p]>>

LifecycleInit ==
  /\ stored = {}
  /\ rows = {}
  /\ requested = {}
  /\ predicted = {}
  /\ accepted = {}
  /\ rejected = {}

Store(p) ==
  /\ stored' = stored \cup {KeyOf[p]}
  /\ UNCHANGED <<rows, requested, predicted, accepted, rejected>>

\* A document never changes its batch.
Register(p) ==
  /\ KeyOf[p] \in stored
  /\ \A b \in Batch : <<b, DocOf[p]>> \in rows => b = BatchOf[p]
  /\ rows' = rows \cup {RowAt(p)}
  /\ UNCHANGED <<stored, requested, predicted, accepted, rejected>>

\* Paths of one key ask for one job.
Request(p) ==
  /\ KeyOf[p] \in stored
  /\ RowAt(p) \in rows
  /\ requested' = requested \cup {q \in Path : KeyOf[q] = KeyOf[p]}
  /\ UNCHANGED <<stored, rows, predicted, accepted, rejected>>

Predict(p) ==
  /\ p \in requested
  /\ predicted' = predicted \cup {RowAt(p)}
  /\ UNCHANGED <<stored, rows, requested, accepted, rejected>>

Accept(f) ==
  /\ f \in Acceptable
  /\ PathOf[f] \in requested
  /\ accepted' = accepted \cup {f}
  /\ UNCHANGED <<stored, rows, requested, predicted, rejected>>

Reject(f) ==
  /\ f \notin Acceptable
  /\ rejected' = rejected \cup {f}
  /\ UNCHANGED <<stored, rows, requested, predicted, accepted>>

LifecycleNext ==
  \/ \E p \in Path : Store(p) \/ Register(p) \/ Request(p) \/ Predict(p)
  \/ \E f \in File : Accept(f) \/ Reject(f)

LifecycleSpec == LifecycleInit /\ [][LifecycleNext]_lifecycleVars

=============================================================================
