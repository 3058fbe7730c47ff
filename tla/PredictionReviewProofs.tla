----------------------- MODULE PredictionReviewProofs -----------------------
(***************************************************************************)
(* Proofs about the transactions that meet at a row of predictions, for    *)
(* any number of them and any values.  ReviewInv is inductive: what each   *)
(* of them read before it writes is still true, or a rival call has been   *)
(* committed, which the history variable passed keeps.                     *)
(***************************************************************************)
EXTENDS PredictionReview, TLAPS

-----------------------------------------------------------------------------
(***************************************************************************)
(* Calls, rows and what setting columns does to a row.                     *)
(***************************************************************************)
\* A call names an operation, the rights of its caller and the columns it sets.
LEMMA CallFields ==
  ASSUME NEW c \in Call
  PROVE  /\ c.op \in Op /\ c.admin \in BOOLEAN /\ c.set \in Changes(c.op)
  BY DEF Call

\* The columns that each operation sets, and their values.
LEMMA SetFields ==
  ASSUME NEW c \in Call
  PROVE  /\ c.op = "relabel" => DOMAIN c.set = {"label"} /\ c.set["label"] \in Label
         /\ c.op = "add_comment" =>
              /\ DOMAIN c.set = {"comment", "color"}
              /\ c.set["comment"] \in Comment \cup {None}
              /\ c.set["color"] \in Color \cup {None}
         /\ c.op = "rename_document" =>
              DOMAIN c.set = {"name"} /\ c.set["name"] \in DocName \cup {None}
         /\ c.op = "record" =>
              /\ DOMAIN c.set = {"label", "confidence"}
              /\ c.set["label"] \in Label /\ c.set["confidence"] \in Confidence
<1>1. CASE c.op = "relabel"
  <2>1. c.set \in [label : Label]
    BY <1>1, CallFields DEF Changes
  <2> QED
    BY <1>1, <2>1
<1>2. CASE c.op = "add_comment"
  <2>1. c.set \in [comment : Comment \cup {None}, color : Color \cup {None}]
    BY <1>2, CallFields DEF Changes
  <2> QED
    BY <1>2, <2>1
<1>3. CASE c.op = "rename_document"
  <2>1. c.set \in [name : DocName \cup {None}]
    BY <1>3, CallFields DEF Changes
  <2> QED
    BY <1>3, <2>1
<1>4. CASE c.op = "record"
  <2>1. c.set \in [label : Label, confidence : Confidence]
    BY <1>4, CallFields, ReviewAssumption DEF Changes
  <2> QED
    BY <1>4, <2>1
<1> QED
  BY <1>1, <1>2, <1>3, <1>4, CallFields DEF Op

Columns == {"label", "confidence", "comment", "color", "name"}

\* A row is a function of its columns.
LEMMA RowColumns ==
  /\ \A p \in Row :
       /\ DOMAIN p = Columns /\ p["label"] \in Label /\ p["confidence"] \in Confidence
       /\ p["comment"] \in Comment \cup {None} /\ p["color"] \in Color \cup {None}
       /\ p["name"] \in DocName \cup {None}
  /\ \A p : /\ DOMAIN p = Columns /\ p = [f \in Columns |-> p[f]]
            /\ p["label"] \in Label /\ p["confidence"] \in Confidence
            /\ p["comment"] \in Comment \cup {None} /\ p["color"] \in Color \cup {None}
            /\ p["name"] \in DocName \cup {None}
            => p \in Row
<1>1. ASSUME NEW p \in Row
      PROVE  /\ DOMAIN p = Columns /\ p["label"] \in Label /\ p["confidence"] \in Confidence
             /\ p["comment"] \in Comment \cup {None} /\ p["color"] \in Color \cup {None}
             /\ p["name"] \in DocName \cup {None}
  BY DEF Row, Columns
<1>2. ASSUME NEW p, DOMAIN p = Columns, p = [f \in Columns |-> p[f]],
             p["label"] \in Label, p["confidence"] \in Confidence,
             p["comment"] \in Comment \cup {None}, p["color"] \in Color \cup {None},
             p["name"] \in DocName \cup {None}
      PROVE  p \in Row
  BY <1>2 DEF Row, Columns
<1> QED
  BY <1>1, <1>2

\* A transaction that is under way serves a call; idle ones send nothing.
LEMMA Serves ==
  ASSUME ReviewInv, NEW r \in Req
  PROVE  /\ pc[r] # "idle" => call[r] \in Call
         /\ pc[r] = "idle" => call[r] = NoCall /\ DOMAIN change[r] = {}
         /\ pc[r] \in {"idle", "load", "write", "commit"}
         /\ \A f \in DOMAIN change[r] : change[r][f] = call[r].set[f]
         /\ pc[r] = "load" => DOMAIN change[r] = {}
  BY DEF ReviewInv, TypeOK

\* The row a commit leaves: complete, with the columns it sent and no other changed.
LEMMA CommitRow ==
  ASSUME ReviewInv, NEW r \in Req, Commit(r)
  PROVE  /\ row' \in Row /\ pc[r] = "commit" /\ call[r] \in Call
         /\ \A f \in DOMAIN change[r] : row'[f] = call[r].set[f]
         /\ row # NoRow => \A f \in Columns \ DOMAIN change[r] : row'[f] = row[f]
<1> DEFINE p == IF row = NoRow THEN Unreviewed ELSE row
           x == change[r]
           c == call[r]
<1>1. /\ c \in Call /\ pc[r] = "commit" /\ \A f \in DOMAIN x : x[f] = c.set[f]
      /\ DOMAIN x \subseteq DOMAIN c.set
      /\ c.op # "record" => row # NoRow
      /\ c.op = "record" => DOMAIN x = DOMAIN c.set
  BY Serves DEF Commit, ReviewInv, Underway
<1>2. row' = Updated(p, x)
  BY DEF Commit
<1>3. row # NoRow => row \in Row
  BY DEF ReviewInv, TypeOK
<1>4. row = NoRow => /\ DOMAIN p = {"comment", "color", "name"} /\ p["comment"] = None
                     /\ p["color"] = None /\ p["name"] = None
  BY DEF Unreviewed
<1>5. row # NoRow => p = row
  OBVIOUS
<1> HIDE DEF p, x, c
<1>6. /\ DOMAIN row' = DOMAIN p \cup DOMAIN x
      /\ \A f \in DOMAIN p \cup DOMAIN x : row'[f] = IF f \in DOMAIN x THEN x[f] ELSE p[f]
      /\ row' = [f \in DOMAIN p \cup DOMAIN x |-> row'[f]]
  BY <1>2 DEF Updated
<1>7. c.op \in Op
  BY <1>1, CallFields
<1>8. DOMAIN c.set \subseteq Columns
  BY <1>1, <1>7, SetFields DEF Op, Columns
<1>9. DOMAIN p \cup DOMAIN x = Columns
  <2>1. CASE row # NoRow
    BY <1>1, <1>3, <1>5, <1>8, <2>1, RowColumns
  <2>2. CASE row = NoRow
    <3>1. DOMAIN x = {"label", "confidence"}
      BY <1>1, <2>2, SetFields
    <3> QED
      BY <1>4, <2>2, <3>1 DEF Columns
  <2> QED
    BY <2>1, <2>2
<1>10. /\ "label" \in DOMAIN x => x["label"] \in Label
       /\ "confidence" \in DOMAIN x => x["confidence"] \in Confidence
       /\ "comment" \in DOMAIN x => x["comment"] \in Comment \cup {None}
       /\ "color" \in DOMAIN x => x["color"] \in Color \cup {None}
       /\ "name" \in DOMAIN x => x["name"] \in DocName \cup {None}
  BY <1>1, <1>7, SetFields DEF Op
<1>11. /\ "label" \notin DOMAIN x => p["label"] \in Label
       /\ "confidence" \notin DOMAIN x => p["confidence"] \in Confidence
       /\ p["comment"] \in Comment \cup {None} /\ p["color"] \in Color \cup {None}
       /\ p["name"] \in DocName \cup {None}
  <2>1. CASE row # NoRow
    BY <1>3, <1>5, <2>1, RowColumns
  <2>2. CASE row = NoRow
    <3>1. DOMAIN x = {"label", "confidence"}
      BY <1>1, <2>2, SetFields
    <3> QED
      BY <1>4, <2>2, <3>1
  <2> QED
    BY <2>1, <2>2
<1>12. /\ row'["label"] \in Label /\ row'["confidence"] \in Confidence
       /\ row'["comment"] \in Comment \cup {None} /\ row'["color"] \in Color \cup {None}
       /\ row'["name"] \in DocName \cup {None}
  BY <1>6, <1>9, <1>10, <1>11 DEF Columns
<1>13. row' \in Row
  BY <1>6, <1>9, <1>12, RowColumns
<1> QED
  BY <1>1, <1>5, <1>6, <1>9, <1>13 DEF x, c

-----------------------------------------------------------------------------
(***************************************************************************)
(* Steps of one transaction that leave the row as it is.                   *)
(***************************************************************************)
\* The others stay as they are.
Only(r) ==
  \A q \in Req : q # r =>
    /\ pc'[q] = pc[q] /\ call'[q] = call[q] /\ before'[q] = before[q]
    /\ change'[q] = change[q] /\ passed'[q] = passed[q]

\* The invariant holds after a step that keeps the row and does to one transaction
\* what is given here.
LEMMA OneTransaction ==
  ASSUME ReviewInv, NEW r \in Req, Only(r), row' = row, TypeOK',
         pc'[r] # "idle" =>
           /\ call'[r].op # "record" => row # NoRow
           /\ call'[r].op = "record" => pc'[r] = "commit"
                                        /\ DOMAIN change'[r] = DOMAIN call'[r].set
           /\ DOMAIN change'[r] \subseteq DOMAIN call'[r].set
           /\ call'[r].op = "relabel" /\ ~call'[r].admin /\ row.confidence = "high"
              => "record" \in passed'[r]
           /\ call'[r].op = "relabel" =>
                before'[r] = row.label \/ passed'[r] \cap {"relabel", "record"} # {}
           /\ call'[r].op = "rename_document" =>
                before'[r] = row.name \/ "rename_document" \in passed'[r],
         /\ pc'[r] \in {"write", "commit"} /\ call'[r].op = "add_comment"
         /\ "add_comment" \notin passed'[r]
         => \A f \in {"comment", "color"} :
              f \in DOMAIN change'[r] \/ row[f] = call'[r].set[f]
  PROVE  ReviewInv'
<1>1. Underway'
  BY DEF ReviewInv, Underway, Only
<1>2. GuardHolds'
  BY DEF ReviewInv, GuardHolds, Only
<1>3. CommentsHold'
  BY DEF ReviewInv, CommentsHold, Only
<1>4. BeforeHolds'
  BY DEF ReviewInv, BeforeHolds, Only
<1> QED
  BY <1>1, <1>2, <1>3, <1>4 DEF ReviewInv

\* What clients ask for, as the service passes it on.
LEMMA RequestCalls ==
  ASSUME NEW c \in Requests
  PROVE  c \in Call /\ c.op # "record"
<1>1. ASSUME NEW l \in Label, NEW admin \in BOOLEAN, c = Relabel(l, admin)
      PROVE  c \in Call /\ c.op # "record"
  <2>1. c \in [op : {"relabel"}, admin : BOOLEAN, set : Changes("relabel")]
    BY <1>1 DEF Relabel, Changes
  <2> QED
    BY <1>1, <2>1 DEF Call, Op, Relabel
<1>2. ASSUME NEW t \in Comment \cup {None}, NEW k \in Color \cup {None}, c = AddComment(t, k)
      PROVE  c \in Call /\ c.op # "record"
  <2>1. c \in [op : {"add_comment"}, admin : BOOLEAN, set : Changes("add_comment")]
    BY <1>2 DEF AddComment, Changes
  <2> QED
    BY <1>2, <2>1 DEF Call, Op, AddComment
<1>3. ASSUME NEW n \in DocName \cup {Blank, None}, c = RenameDocument(n)
      PROVE  c \in Call /\ c.op # "record"
  <2>1. Cleaned(n) \in DocName \cup {None}
    BY DEF Cleaned
  <2>2. c \in [op : {"rename_document"}, admin : BOOLEAN, set : Changes("rename_document")]
    BY <1>3, <2>1 DEF RenameDocument, Changes
  <2> QED
    BY <1>3, <2>2 DEF Call, Op, RenameDocument
<1> QED
  <2>1. CASE c \in {Relabel(l, admin) : l \in Label, admin \in BOOLEAN}
    BY <1>1, <2>1
  <2>2. CASE c \in {AddComment(t, k) : t \in Comment \cup {None}, k \in Color \cup {None}}
    BY <1>2, <2>2
  <2>3. CASE c \in {RenameDocument(n) : n \in DocName \cup {Blank, None}}
    BY <1>3, <2>3
  <2> QED
    BY <2>1, <2>2, <2>3 DEF Requests

\* A record of a result is a call, too.
LEMMA RecordCall ==
  ASSUME NEW result \in Result
  PROVE  [op |-> "record", admin |-> FALSE, set |-> result] \in Call
<1>1. [op |-> "record", admin |-> FALSE, set |-> result]
        \in [op : {"record"}, admin : BOOLEAN, set : Changes("record")]
  BY DEF Changes
<1> QED
  BY <1>1 DEF Call, Op

\* What the service reads for its guard and its audit entry is the committed row.
LEMMA BeginKeeps ==
  ASSUME ReviewInv, NEW r \in Req, Begin(r)
  PROVE  ReviewInv'
<1>1. PICK c \in Requests :
        /\ ~Refused(c, row)
        /\ call' = [call EXCEPT ![r] = c]
        /\ before' = [before EXCEPT ![r] = Before(c, row)]
  BY DEF Begin
<1>2. c \in Call /\ c.op # "record" /\ c # NoCall
  BY RequestCalls, ReviewAssumption
<1>3. /\ row \in Row /\ row # NoRow /\ pc[r] = "idle" /\ UNCHANGED <<row, audit, change, passed>>
      /\ pc' = [pc EXCEPT ![r] = "load"]
  BY DEF Begin, ReviewInv, TypeOK
<1>4. Before(c, row) \in Label \cup DocName \cup {None}
  BY <1>3 DEF Before, Row
<1>5. /\ c.op = "relabel" => Before(c, row) = row.label
      /\ c.op = "rename_document" => Before(c, row) = row.name
  BY DEF Before
<1> HIDE DEF Call
<1>6. TypeOK'
  BY <1>1, <1>2, <1>3, <1>4 DEF ReviewInv, TypeOK
<1>7. /\ Only(r) /\ call'[r] = c /\ before'[r] = Before(c, row) /\ pc'[r] = "load"
      /\ DOMAIN change'[r] = {}
  <2>1. call'[r] = c
    BY <1>1, <1>2, <1>6, <1>3 DEF ReviewInv, TypeOK
  <2> QED
    BY <1>1, <1>3, <2>1 DEF ReviewInv, TypeOK, Only
<1> QED
  BY <1>1, <1>2, <1>3, <1>5, <1>6, <1>7, OneTransaction DEF Refused

\* What is loaded is the current row, so a column left out of the UPDATE has its value.
LEMMA LoadKeeps ==
  ASSUME ReviewInv, NEW r \in Req, LoadRow(r)
  PROVE  ReviewInv'
<1> DEFINE c == call[r]
           x == Changed(c, row)
<1>1. /\ pc[r] = "load" /\ c \in Call /\ pc' = [pc EXCEPT ![r] = "write"]
      /\ change' = [change EXCEPT ![r] = x] /\ UNCHANGED <<row, audit, call, before, passed>>
  BY Serves DEF LoadRow
<1>2. /\ c.op # "record" /\ row # NoRow
  BY <1>1 DEF ReviewInv, Underway
<1>3. /\ DOMAIN x = {g \in DOMAIN c.set : c.set[g] # row[g]}
      /\ \A f \in DOMAIN x : x[f] = c.set[f]
  BY DEF Changed
<1> HIDE DEF x
<1>4. Only(r) /\ pc'[r] = "write" /\ change'[r] = x
  BY <1>1 DEF ReviewInv, TypeOK, Only
<1>5. TypeOK'
  BY <1>1, <1>3 DEF ReviewInv, TypeOK
<1>6. c.op = "add_comment" => \A f \in {"comment", "color"} :
                                f \in DOMAIN x \/ row[f] = c.set[f]
  BY <1>1, <1>3, SetFields
<1>7. /\ c.op = "relabel" /\ ~c.admin /\ row.confidence = "high" => "record" \in passed[r]
      /\ c.op = "relabel" => before[r] = row.label \/ passed[r] \cap {"relabel", "record"} # {}
      /\ c.op = "rename_document" => before[r] = row.name \/ "rename_document" \in passed[r]
  BY <1>1 DEF ReviewInv, GuardHolds, BeforeHolds
<1>8. call'[r] = c /\ before'[r] = before[r] /\ passed'[r] = passed[r] /\ row' = row
  BY <1>1
<1> HIDE DEF c
<1> QED
  BY <1>2, <1>3, <1>4, <1>5, <1>6, <1>7, <1>8, OneTransaction

\* The UPDATE takes the lock and changes nothing that is committed.
LEMMA WriteKeeps ==
  ASSUME ReviewInv, NEW r \in Req, WriteRow(r)
  PROVE  ReviewInv'
<1>1. /\ pc[r] = "write" /\ pc' = [pc EXCEPT ![r] = "commit"]
      /\ UNCHANGED <<row, audit, call, before, change, passed>>
  BY DEF WriteRow
<1>2. Only(r) /\ pc'[r] = "commit"
  BY <1>1 DEF ReviewInv, TypeOK, Only
<1>3. TypeOK'
  BY <1>1 DEF ReviewInv, TypeOK
<1>4. Underway'
  BY <1>1, <1>2 DEF ReviewInv, Underway, Only
<1>5. GuardHolds'
  BY <1>1, <1>2 DEF ReviewInv, GuardHolds, Only
<1>6. CommentsHold'
  BY <1>1, <1>2 DEF ReviewInv, CommentsHold, Only
<1>7. BeforeHolds'
  BY <1>1, <1>2 DEF ReviewInv, BeforeHolds, Only
<1> QED
  BY <1>3, <1>4, <1>5, <1>6, <1>7 DEF ReviewInv

\* The worker's upsert sends every column it names.
LEMMA RecordKeeps ==
  ASSUME ReviewInv, NEW r \in Req, RecordResult(r)
  PROVE  ReviewInv'
<1>1. PICK result \in Result :
        /\ call' = [call EXCEPT ![r] = [op |-> "record", admin |-> FALSE, set |-> result]]
        /\ change' = [change EXCEPT ![r] = result]
  BY DEF RecordResult
<1> DEFINE c == [op |-> "record", admin |-> FALSE, set |-> result]
<1>2. c \in Call /\ c # NoCall /\ c.op = "record" /\ c.set = result
  BY RecordCall, ReviewAssumption
<1>3. /\ pc[r] = "idle" /\ pc' = [pc EXCEPT ![r] = "commit"]
      /\ UNCHANGED <<row, audit, before, passed>> /\ call' = [call EXCEPT ![r] = c]
  BY <1>1 DEF RecordResult
<1> HIDE DEF c
<1>4. /\ Only(r) /\ pc'[r] = "commit" /\ call'[r] = c /\ change'[r] = result
  BY <1>1, <1>3 DEF ReviewInv, TypeOK, Only
<1>5. TypeOK'
  <2>1. \A q \in Req : IF pc'[q] = "idle" THEN call'[q] = NoCall ELSE call'[q] \in Call
    BY <1>2, <1>4 DEF ReviewInv, TypeOK, Only
  <2>2. \A q \in Req : DOMAIN change'[q] # {} =>
          /\ pc'[q] \in {"write", "commit"}
          /\ \A f \in DOMAIN change'[q] : change'[q][f] = call'[q].set[f]
    BY <1>2, <1>4 DEF ReviewInv, TypeOK, Only
  <2> QED
    BY <1>1, <1>3, <2>1, <2>2 DEF ReviewInv, TypeOK
<1> QED
  BY <1>2, <1>3, <1>4, <1>5, OneTransaction

\* A transaction that ends sends nothing more.
LEMMA EndOnly ==
  ASSUME ReviewInv, NEW r \in Req, End(r)
  PROVE  /\ pc'[r] = "idle" /\ call'[r] = NoCall /\ DOMAIN change'[r] = {}
         /\ \A q \in Req : q # r =>
              pc'[q] = pc[q] /\ call'[q] = call[q] /\ before'[q] = before[q]
              /\ change'[q] = change[q]
         /\ DOMAIN call' = Req /\ DOMAIN change' = Req
         /\ pc' \in [Req -> {"idle", "load", "write", "commit"}]
         /\ before' \in [Req -> Label \cup DocName \cup {None}]
  BY DEF End, NoChange, ReviewInv, TypeOK

\* A transaction that is rolled back leaves no trace.
LEMMA RollbackKeeps ==
  ASSUME ReviewInv, NEW r \in Req, Rollback(r)
  PROVE  ReviewInv'
<1>1. /\ passed' = [passed EXCEPT ![r] = {}] /\ UNCHANGED <<row, audit>> /\ End(r)
  BY DEF Rollback
<1>2. Only(r) /\ pc'[r] = "idle"
  BY <1>1, EndOnly DEF Only, ReviewInv, TypeOK
<1>3. TypeOK'
  BY <1>1, EndOnly DEF ReviewInv, TypeOK
<1> QED
  BY <1>1, <1>2, <1>3, OneTransaction

-----------------------------------------------------------------------------
(***************************************************************************)
(* Commits.                                                                *)
(***************************************************************************)
\* Each column of a row that is there is changed by the calls that name it only.
LEMMA CommitTouches ==
  ASSUME ReviewInv, NEW r \in Req, Commit(r), row # NoRow
  PROVE  /\ row'["label"] # row["label"] => call[r].op \in {"relabel", "record"}
         /\ row'["confidence"] # row["confidence"] => call[r].op = "record"
         /\ row'["comment"] # row["comment"] => call[r].op = "add_comment"
         /\ row'["color"] # row["color"] => call[r].op = "add_comment"
         /\ row'["name"] # row["name"] => call[r].op = "rename_document"
<1>1. /\ call[r] \in Call /\ DOMAIN change[r] \subseteq DOMAIN call[r].set
      /\ \A f \in Columns \ DOMAIN change[r] : row'[f] = row[f]
  BY CommitRow DEF ReviewInv, Underway
<1>2. call[r].op \in Op
  BY <1>1, CallFields
<1> QED
  BY <1>1, <1>2, SetFields DEF Columns, Op

\* A commit changes the row under everyone else, and each of them remembers it.
LEMMA CommitKeeps ==
  ASSUME ReviewInv, NEW r \in Req, Commit(r)
  PROVE  ReviewInv'
<1> DEFINE op == call[r].op
<1>1. /\ row' \in Row /\ row' # NoRow /\ call[r] \in Call /\ op \in Op
  BY CommitRow, CallFields, ReviewAssumption
<1>2. /\ pc'[r] = "idle" /\ call'[r] = NoCall /\ DOMAIN change'[r] = {}
      /\ \A q \in Req : q # r =>
           pc'[q] = pc[q] /\ call'[q] = call[q] /\ before'[q] = before[q]
           /\ change'[q] = change[q]
      /\ DOMAIN call' = Req /\ DOMAIN change' = Req
      /\ pc' \in [Req -> {"idle", "load", "write", "commit"}]
      /\ before' \in [Req -> Label \cup DocName \cup {None}]
  BY EndOnly DEF Commit
<1>3. passed' = [q \in Req |->
        IF q = r \/ pc[q] = "idle" THEN {}
        ELSE passed[q] \cup ({op} \cap Rivals(call[q].op))]
  BY DEF Commit
<1>4. ASSUME NEW q \in Req, pc'[q] # "idle"
      PROVE  /\ q # r /\ pc'[q] = pc[q] /\ call'[q] = call[q] /\ before'[q] = before[q]
             /\ change'[q] = change[q] /\ call[q] \in Call
             /\ passed'[q] = passed[q] \cup ({op} \cap Rivals(call[q].op))
  BY <1>2, <1>3, <1>4, Serves
<1>5. TypeOK'
  <2>1. audit' \in Entry
    <3>1. before[r] \in Label \cup DocName \cup {None}
      BY DEF ReviewInv, TypeOK
    <3> QED
      BY <1>1, <3>1 DEF Commit, Recorded, Entry
  <2>2. passed' \in [Req -> SUBSET Op]
    BY <1>1, <1>3 DEF ReviewInv, TypeOK
  <2>3. \A q \in Req : IF pc'[q] = "idle" THEN call'[q] = NoCall ELSE call'[q] \in Call
    BY <1>2, <1>4 DEF ReviewInv, TypeOK
  <2>4. \A q \in Req : DOMAIN change'[q] # {} =>
          /\ pc'[q] \in {"write", "commit"}
          /\ \A f \in DOMAIN change'[q] : change'[q][f] = call'[q].set[f]
    BY <1>2, <1>4 DEF ReviewInv, TypeOK
  <2> QED
    BY <1>1, <1>2, <2>1, <2>2, <2>3, <2>4 DEF TypeOK
<1>6. Underway'
  BY <1>1, <1>4 DEF ReviewInv, Underway
<1> HIDE DEF op
<1>7. GuardHolds'
  <2> SUFFICES ASSUME NEW q \in Req, pc'[q] # "idle", call'[q].op = "relabel",
                      ~call'[q].admin, row'["confidence"] = "high"
               PROVE  "record" \in passed'[q]
    BY DEF GuardHolds
  <2>1. /\ call[q].op = "relabel" /\ ~call[q].admin /\ pc[q] # "idle" /\ row # NoRow
        /\ passed'[q] = passed[q] \cup ({op} \cap Rivals(call[q].op))
    BY <1>4 DEF ReviewInv, Underway
  <2>2. CASE row["confidence"] = "high"
    BY <2>1, <2>2 DEF ReviewInv, GuardHolds
  <2>3. CASE row["confidence"] # "high"
    <3>1. op = "record"
      BY <2>1, <2>3, CommitTouches DEF op
    <3>2. "record" \in Rivals(call[q].op)
      BY <2>1 DEF Rivals
    <3> QED
      BY <2>1, <3>1, <3>2
  <2> QED
    BY <2>2, <2>3
<1>8. CommentsHold'
  <2> SUFFICES ASSUME NEW q \in Req, pc'[q] \in {"write", "commit"},
                      call'[q].op = "add_comment", "add_comment" \notin passed'[q],
                      NEW f \in {"comment", "color"}
               PROVE  f \in DOMAIN change'[q] \/ row'[f] = call'[q].set[f]
    BY DEF CommentsHold
  <2>1. /\ call'[q] = call[q] /\ call[q].op = "add_comment" /\ pc[q] = pc'[q] /\ row # NoRow
        /\ change'[q] = change[q]
        /\ passed'[q] = passed[q] \cup ({op} \cap Rivals(call[q].op))
    BY <1>4 DEF ReviewInv, Underway
  <2>2. op # "add_comment"
    BY <2>1 DEF Rivals
  <2>3. row'[f] = row[f]
    BY <2>1, <2>2, CommitTouches DEF op
  <2> QED
    BY <2>1, <2>3 DEF ReviewInv, CommentsHold
<1>9. BeforeHolds'
  <2> SUFFICES ASSUME NEW q \in Req, pc'[q] # "idle"
               PROVE  /\ call'[q].op = "relabel" =>
                           \/ before'[q] = row'["label"]
                           \/ passed'[q] \cap {"relabel", "record"} # {}
                      /\ call'[q].op = "rename_document" =>
                           before'[q] = row'["name"] \/ "rename_document" \in passed'[q]
    BY DEF BeforeHolds
  <2>1. /\ call'[q] = call[q] /\ pc[q] = pc'[q] /\ before'[q] = before[q]
        /\ passed'[q] = passed[q] \cup ({op} \cap Rivals(call[q].op))
        /\ call[q].op # "record" => row # NoRow
    BY <1>4 DEF ReviewInv, Underway
  <2>2. CASE call[q].op = "relabel"
    <3>1. CASE row'["label"] = row["label"]
      BY <2>1, <2>2, <3>1 DEF ReviewInv, BeforeHolds
    <3>2. CASE row'["label"] # row["label"]
      <4>1. op \in {"relabel", "record"}
        BY <2>1, <2>2, <3>2, CommitTouches DEF op
      <4>2. Rivals(call[q].op) = {"relabel", "record"}
        BY <2>2 DEF Rivals
      <4> QED
        BY <2>1, <2>2, <4>1, <4>2
    <3> QED
      BY <3>1, <3>2
  <2>3. CASE call[q].op = "rename_document"
    <3>1. CASE row'["name"] = row["name"]
      BY <2>1, <2>3, <3>1 DEF ReviewInv, BeforeHolds
    <3>2. CASE row'["name"] # row["name"]
      <4>1. op = "rename_document"
        BY <2>1, <2>3, <3>2, CommitTouches DEF op
      <4>2. Rivals(call[q].op) = {call[q].op}
        BY <2>3 DEF Rivals
      <4> QED
        BY <2>1, <2>3, <4>1, <4>2
    <3> QED
      BY <3>1, <3>2
  <2> QED
    BY <2>1, <2>2, <2>3
<1> QED
  BY <1>5, <1>6, <1>7, <1>8, <1>9 DEF ReviewInv

-----------------------------------------------------------------------------
\* At first the document has no prediction and nobody asks for anything.
LEMMA InitReviewInv == Init => ReviewInv
<1> SUFFICES ASSUME Init PROVE ReviewInv
  OBVIOUS
<1>1. TypeOK
  BY DEF Init, TypeOK, NoChange
<1> QED
  BY <1>1 DEF Init, ReviewInv, Underway, GuardHolds, CommentsHold, BeforeHolds

\* Every step of every transaction keeps the invariant.
LEMMA NextReviewInv == ReviewInv /\ [Next]_vars => ReviewInv'
<1> SUFFICES ASSUME ReviewInv, [Next]_vars PROVE ReviewInv'
  OBVIOUS
<1>1. CASE UNCHANGED vars
  BY <1>1 DEF vars, ReviewInv, TypeOK, Underway, GuardHolds, CommentsHold, BeforeHolds
<1> QED
  BY <1>1, BeginKeeps, LoadKeeps, WriteKeeps, RecordKeeps, CommitKeeps, RollbackKeeps
     DEF Next

\* The inductive invariant holds throughout.
THEOREM ReviewInvariant == Spec => []ReviewInv
  BY InitReviewInv, NextReviewInv, PTL DEF Spec

\* Rows, calls and audit entries stay within their types: in particular the upsert and
\* the updates together never leave an incomplete row.
THEOREM ReviewTypeCorrect == Spec => []TypeOK
<1>1. ReviewInv => TypeOK
  BY DEF ReviewInv
<1> QED
  BY <1>1, ReviewInvariant, PTL

\* Overlapping transactions, however many, do not undo one another.
THEOREM OverlapsKeepWork == Spec => OthersWorkKept
<1>1. ReviewInv /\ [Next]_vars =>
        [\A r \in Req : Commit(r) /\ row # NoRow =>
           \A f \in DOMAIN row : f \notin DOMAIN call[r].set => row'[f] = row[f]]_vars
  <2> SUFFICES ASSUME ReviewInv, NEW r \in Req, Commit(r), row # NoRow,
                      NEW f \in DOMAIN row, f \notin DOMAIN call[r].set
               PROVE  row'[f] = row[f]
    OBVIOUS
  <2>1. DOMAIN row = Columns
    BY RowColumns DEF ReviewInv, TypeOK
  <2>2. DOMAIN change[r] \subseteq DOMAIN call[r].set
    BY DEF Commit, ReviewInv, Underway
  <2> QED
    BY <2>1, <2>2, CommitRow
<1> QED
  BY <1>1, ReviewInvariant, PTL DEF Spec, OthersWorkKept

\* A reviewer's label lands on a prediction of high confidence only if the worker
\* recorded another result meanwhile.
THEOREM ReviewersGuarded == Spec => ReviewerGuard
<1>1. ReviewInv /\ [Next]_vars =>
        [\A r \in Req :
           /\ Commit(r)
           /\ call[r].op = "relabel" /\ ~call[r].admin
           /\ row.confidence = "high"
           => "record" \in passed[r]]_vars
  BY DEF ReviewInv, GuardHolds, Commit
<1> QED
  BY <1>1, ReviewInvariant, PTL DEF Spec, ReviewerGuard

\* A comment has the color it was given unless another comment overlapped.
THEOREM CommentsKeepColors == Spec => CommentKeepsColor
<1>1. ReviewInv /\ [Next]_vars =>
        [\A r \in Req :
           Commit(r) /\ call[r].op = "add_comment" =>
             \/ row'.comment = call[r].set.comment /\ row'.color = call[r].set.color
             \/ "add_comment" \in passed[r]]_vars
  <2> SUFFICES ASSUME ReviewInv, NEW r \in Req, Commit(r), call[r].op = "add_comment",
                      "add_comment" \notin passed[r], NEW f \in {"comment", "color"}
               PROVE  row'[f] = call[r].set[f]
    OBVIOUS
  <2>1. pc[r] = "commit" /\ row # NoRow
    BY DEF Commit, ReviewInv, Underway
  <2>2. f \in DOMAIN change[r] \/ row[f] = call[r].set[f]
    BY <2>1 DEF ReviewInv, CommentsHold
  <2> QED
    BY <2>1, <2>2, CommitRow DEF Columns
<1> QED
  BY <1>1, ReviewInvariant, PTL DEF Spec, CommentKeepsColor

\* What an audit entry says a label or a name was is what its commit replaced, unless
\* another of them was committed in between.
THEOREM AuditsSayBefore == Spec => AuditSaysBefore
<1>1. ReviewInv /\ [Next]_vars =>
        [\A r \in Req : Commit(r) =>
           /\ call[r].op = "relabel" =>
                audit'.from = row.label \/ passed[r] \cap {"relabel", "record"} # {}
           /\ call[r].op = "rename_document" =>
                audit'.from = row.name \/ "rename_document" \in passed[r]]_vars
  <2> SUFFICES ASSUME ReviewInv, NEW r \in Req, Commit(r)
               PROVE  /\ call[r].op = "relabel" =>
                           audit'.from = row.label \/ passed[r] \cap {"relabel", "record"} # {}
                      /\ call[r].op = "rename_document" =>
                           audit'.from = row.name \/ "rename_document" \in passed[r]
    OBVIOUS
  <2>1. audit'.from = before[r] /\ pc[r] = "commit"
    BY DEF Commit, Recorded
  <2> QED
    BY <2>1 DEF ReviewInv, BeforeHolds
<1> QED
  BY <1>1, ReviewInvariant, PTL DEF Spec, AuditSaysBefore

=============================================================================
