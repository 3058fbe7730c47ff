--------------------------- MODULE PredictionReview ---------------------------
(***************************************************************************)
(* The review of one prediction: reviewers and administrators relabel it,  *)
(* comment on it and rename its document, while the worker may record the  *)
(* result of another run of the document.  Each of these is a Postgres     *)
(* transaction at READ COMMITTED that also writes an audit entry; they     *)
(* meet at the row of the table predictions.  Rows do not interact.        *)
(***************************************************************************)
EXTENDS Naturals, TLC

CONSTANTS
  Req,       \* transactions that may be in progress at the same time
  Label,     \* the members of PredictionLabel
  Result,    \* the results the worker may record: label and confidence
  Comment,   \* comments
  Color,     \* comment colors
  DocName,   \* document names
  Blank,     \* a document name of white space only
  None,      \* SQL NULL
  NoRow,     \* the document has no prediction
  NoCall,    \* the slot serves no call
  NoEntry    \* the audit log is empty

\* top1_confidence, as far as it is below 0.7 or not.
Confidence == {"low", "high"}

Row == [label : Label, confidence : Confidence, comment : Comment \cup {None},
        color : Color \cup {None}, name : DocName \cup {None}]

Op == {"relabel", "add_comment", "rename_document", "record"}

\* What a call may set, field by field.
Changes(op) ==
  CASE op = "relabel" -> [label : Label]
    [] op = "add_comment" -> [comment : Comment \cup {None}, color : Color \cup {None}]
    [] op = "rename_document" -> [name : DocName \cup {None}]
    [] op = "record" -> Result

Call == UNION {[op : {op}, admin : BOOLEAN, set : Changes(op)] : op \in Op}

\* An audit entry: what its metadata says the value was before.
Entry == [op : Op, from : Label \cup DocName \cup {None}]

\* The calls that set what a call with this operation reports or depends on.
Rivals(op) ==
  CASE op = "relabel" -> {"relabel", "record"}
    [] op \in {"add_comment", "rename_document"} -> {op}
    [] OTHER -> {}

ASSUME ReviewAssumption ==
  /\ Result \subseteq [label : Label, confidence : Confidence]
  /\ Blank \notin DocName \cup {None}
  /\ None \notin Comment \cup Color \cup DocName
  /\ NoRow \notin Row
  /\ NoCall \notin Call
  /\ NoEntry \notin Entry

VARIABLES
  row,      \* the committed predictions row
  audit,    \* the audit entry that was committed last
  pc,       \* what each transaction does next
  call,     \* the call it serves
  before,   \* the label or the name in the row that the service read
  change,   \* the columns that its UPDATE sends
  passed    \* history: the rival calls committed since the service read the row

vars == <<row, audit, pc, call, before, change, passed>>

NoChange == [f \in {} |-> None]

TypeOK ==
  /\ row \in Row \cup {NoRow}
  /\ audit \in Entry \cup {NoEntry}
  /\ pc \in [Req -> {"idle", "load", "write", "commit"}]
  /\ DOMAIN call = Req /\ DOMAIN change = Req
  /\ \A r \in Req : IF pc[r] = "idle" THEN call[r] = NoCall ELSE call[r] \in Call
  /\ before \in [Req -> Label \cup DocName \cup {None}]
  /\ \A r \in Req : DOMAIN change[r] # {} =>
       /\ pc[r] \in {"write", "commit"}
       /\ \A f \in DOMAIN change[r] : change[r][f] = call[r].set[f]
  /\ passed \in [Req -> SUBSET Op]

Init ==
  /\ row = NoRow
  /\ audit = NoEntry
  /\ pc = [r \in Req |-> "idle"]
  /\ call = [r \in Req |-> NoCall]
  /\ before = [r \in Req |-> None]
  /\ change = [r \in Req |-> NoChange]
  /\ passed = [r \in Req |-> {}]

\* Request r waits for the lock of a transaction that wrote the row.
RowLocked(r) == \E q \in Req \ {r} : pc[q] = "commit" /\ DOMAIN change[q] # {}

End(r) ==
  /\ pc' = [pc EXCEPT ![r] = "idle"]
  /\ call' = [call EXCEPT ![r] = NoCall]
  /\ before' = [before EXCEPT ![r] = None]
  /\ change' = [change EXCEPT ![r] = NoChange]

-----------------------------------------------------------------------------
(***************************************************************************)
(* PATCH /predictions/{pid}/label, /comment and /name.  The policy gives   *)
(* the three operations to administrators and reviewers.                   *)
(***************************************************************************)
\* Mutant of Cleaned: the name is stripped only.
StrippedOnly(name) == name

\* rename_document strips the name and takes an empty one for none.
Cleaned(name) == IF name = Blank THEN None ELSE name

Relabel(label, admin) == [op |-> "relabel", admin |-> admin, set |-> [label |-> label]]

AddComment(comment, color) ==
  [op |-> "add_comment", admin |-> FALSE, set |-> [comment |-> comment, color |-> color]]

RenameDocument(name) ==
  [op |-> "rename_document", admin |-> FALSE, set |-> [name |-> Cleaned(name)]]

\* The bodies of the requests; the role of the caller matters to relabel only.
Requests ==
  {Relabel(l, admin) : l \in Label, admin \in BOOLEAN}
  \cup {AddComment(t, k) : t \in Comment \cup {None}, k \in Color \cup {None}}
  \cup {RenameDocument(n) : n \in DocName \cup {Blank, None}}

\* Mutant of Refused: the roles are swapped.
RefusesAdmins(c, prediction) ==
  c.op = "relabel" /\ c.admin /\ prediction.confidence = "high"

\* Reviewers may relabel a prediction of low confidence only.
Refused(c, prediction) ==
  c.op = "relabel" /\ ~c.admin /\ prediction.confidence = "high"

\* Mutant of Before: the audit entry is made from the updated row.
BeforeIsAfter(c, prediction) ==
  CASE c.op = "relabel" -> c.set.label
    [] c.op = "rename_document" -> c.set.name
    [] OTHER -> None

\* What metadata["from"] of the audit entry will say; add_comment has none.
Before(c, prediction) ==
  CASE c.op = "relabel" -> prediction.label
    [] c.op = "rename_document" -> prediction.name
    [] OTHER -> None

\* A request arrives and the service reads the row.  One that relabel refuses
\* changes nothing.
Begin(r) ==
  /\ pc[r] = "idle"
  /\ row # NoRow
  /\ \E c \in Requests :
       /\ ~Refused(c, row)
       /\ call' = [call EXCEPT ![r] = c]
       /\ before' = [before EXCEPT ![r] = Before(c, row)]
  /\ pc' = [pc EXCEPT ![r] = "load"]
  /\ UNCHANGED <<row, audit, change, passed>>

\* Mutant of Changed: the UPDATE names every column of the row.
WholeRow(c, prediction) == c.set @@ prediction

\* Mutant of Changed: a None in the request means that the column is left alone.
NoneMeansKeep(c, prediction) ==
  [f \in {g \in DOMAIN c.set : c.set[g] \notin {None, prediction[g]}} |-> c.set[f]]

\* The unit of work sends the columns whose value differs from the one it loaded.
Changed(c, prediction) ==
  [f \in {g \in DOMAIN c.set : c.set[g] # prediction[g]} |-> c.set[f]]

\* update_label, update_comment or update_name reads the row again (the object the
\* service's read made is gone: a session refers to it weakly) and assigns to it.
LoadRow(r) ==
  /\ pc[r] = "load"
  /\ pc' = [pc EXCEPT ![r] = "write"]
  /\ change' = [change EXCEPT ![r] = Changed(call[r], row)]
  /\ UNCHANGED <<row, audit, call, before, passed>>

\* The flush: without a changed column there is no UPDATE, and no lock.
WriteRow(r) ==
  /\ pc[r] = "write"
  /\ DOMAIN change[r] # {} => ~RowLocked(r)
  /\ pc' = [pc EXCEPT ![r] = "commit"]
  /\ UNCHANGED <<row, audit, call, before, change, passed>>

-----------------------------------------------------------------------------
(***************************************************************************)
(* The worker's record_prediction: one INSERT ... ON CONFLICT DO UPDATE,   *)
(* by one worker.                                                          *)
(***************************************************************************)
RecordResult(r) ==
  /\ pc[r] = "idle"
  /\ \A q \in Req : call[q] # NoCall => call[q].op # "record"
  /\ ~RowLocked(r)
  /\ \E result \in Result :
       /\ call' = [call EXCEPT ![r] = [op |-> "record", admin |-> FALSE, set |-> result]]
       /\ change' = [change EXCEPT ![r] = result]
  /\ pc' = [pc EXCEPT ![r] = "commit"]
  /\ UNCHANGED <<row, audit, before, passed>>

-----------------------------------------------------------------------------
\* The columns a first prediction leaves to the reviewers.
Unreviewed == [comment |-> None, color |-> None, name |-> None]

\* What setting these columns makes of the row.
Updated(prediction, columns) ==
  [f \in DOMAIN prediction \cup DOMAIN columns |->
     IF f \in DOMAIN columns THEN columns[f] ELSE prediction[f]]

\* What the service records about a change; only its old value is modelled.
Recorded(r) == [op |-> call[r].op, from |-> before[r]]

\* The audit entry is inserted and the transaction commits.
Commit(r) ==
  /\ pc[r] = "commit"
  /\ row' = Updated(IF row = NoRow THEN Unreviewed ELSE row, change[r])
  /\ audit' = Recorded(r)
  /\ passed' = [q \in Req |->
       IF q = r \/ pc[q] = "idle" THEN {}
       ELSE passed[q] \cup ({call[r].op} \cap Rivals(call[q].op))]
  /\ End(r)

\* The database or the connection fails, or the actor's row is gone.
Rollback(r) ==
  /\ pc[r] # "idle"
  /\ End(r)
  /\ passed' = [passed EXCEPT ![r] = {}]
  /\ UNCHANGED <<row, audit>>

Next ==
  \E r \in Req :
    \/ Begin(r)
    \/ LoadRow(r)
    \/ WriteRow(r)
    \/ RecordResult(r)
    \/ Commit(r)
    \/ Rollback(r)

Spec == Init /\ [][Next]_vars

-----------------------------------------------------------------------------
(***************************************************************************)
(* Properties.                                                             *)
(***************************************************************************)
\* Overlapping transactions do not undo one another: a commit leaves the columns its
\* call does not name as others committed them, although it loaded the row before
\* (prediction_repo.py:86-114; the upsert's set_ names no column of the reviewers).
OthersWorkKept ==
  [][\A r \in Req : Commit(r) /\ row # NoRow =>
       \A f \in DOMAIN row : f \notin DOMAIN call[r].set => row'[f] = row[f]]_vars

\* A reviewer's label lands on a prediction of high confidence only when the worker
\* recorded another result after relabel had read the row
\* (prediction_service.py:172-183).
ReviewerGuard ==
  [][\A r \in Req :
       /\ Commit(r)
       /\ call[r].op = "relabel" /\ ~call[r].admin
       /\ row.confidence = "high"
       => "record" \in passed[r]]_vars

\* A comment has the color it was given, unless another comment was committed while
\* it was under way (each UPDATE sends only the columns that changed).
CommentKeepsColor ==
  [][\A r \in Req :
       Commit(r) /\ call[r].op = "add_comment" =>
         \/ row'.comment = call[r].set.comment /\ row'.color = call[r].set.color
         \/ "add_comment" \in passed[r]]_vars

\* The audit log shows "before/after metadata"
\* (docs/reports/full_real_stack_demo_plan.md:201):
\* what an entry says the label or the name was is what its commit replaced, unless
\* another one of them was committed in between.
AuditSaysBefore ==
  [][\A r \in Req : Commit(r) =>
       /\ call[r].op = "relabel" =>
            audit'.from = row.label \/ passed[r] \cap {"relabel", "record"} # {}
       /\ call[r].op = "rename_document" =>
            audit'.from = row.name \/ "rename_document" \in passed[r]]_vars

-----------------------------------------------------------------------------
(***************************************************************************)
(* Why they hold: what a transaction under way may rely on, or which rival *)
(* of it has been committed.                                               *)
(***************************************************************************)
\* A transaction sends columns its call names, and all of them when it records a
\* result; the other calls are about a prediction that is there.
Underway ==
  \A r \in Req : pc[r] # "idle" =>
    /\ DOMAIN change[r] \subseteq DOMAIN call[r].set
    /\ IF call[r].op = "record"
       THEN pc[r] = "commit" /\ DOMAIN change[r] = DOMAIN call[r].set
       ELSE row # NoRow

\* A prediction that a reviewer is relabelling got a high confidence only since.
GuardHolds ==
  \A r \in Req :
    /\ pc[r] # "idle" /\ call[r].op = "relabel" /\ ~call[r].admin
    /\ row.confidence = "high"
    => "record" \in passed[r]

\* A column of a comment that an UPDATE leaves out has the value already.
CommentsHold ==
  \A r \in Req :
    /\ pc[r] \in {"write", "commit"} /\ call[r].op = "add_comment"
    /\ "add_comment" \notin passed[r]
    => \A f \in {"comment", "color"} :
         f \in DOMAIN change[r] \/ row[f] = call[r].set[f]

\* What was read for the audit entry is still in the row.
BeforeHolds ==
  \A r \in Req : pc[r] # "idle" =>
    /\ call[r].op = "relabel" =>
         before[r] = row.label \/ passed[r] \cap {"relabel", "record"} # {}
    /\ call[r].op = "rename_document" =>
         before[r] = row.name \/ "rename_document" \in passed[r]

ReviewInv == TypeOK /\ Underway /\ GuardHolds /\ CommentsHold /\ BeforeHolds

=============================================================================
