--------------------------- MODULE UserAdminProofs ---------------------------
(***************************************************************************)
(* Proofs about concurrent requests on accounts, for any number of users   *)
(* and requests.  UserInv is inductive; it says what the locks, the index  *)
(* on the email and the foreign key of the audit log hold on to for each   *)
(* request, and when a check that was made without a lock may be outdated. *)
(***************************************************************************)
EXTENDS UserAdmin, TLAPS

-----------------------------------------------------------------------------
(***************************************************************************)
(* What a step does to each request.                                       *)
(***************************************************************************)
\* One request changes, the others stay as they are.
Only(r) ==
  \A q \in Req : q # r =>
    /\ pc'[q] = pc[q] /\ call'[q] = call[q]
    /\ wrote'[q] = wrote[q] /\ overtaken'[q] = overtaken[q]

\* A request in progress serves a call and an idle one holds nothing.
LEMMA CallsServed ==
  ASSUME UserInv, NEW r \in Req
  PROVE  /\ pc[r] # "idle" => call[r] \in Call
         /\ pc[r] = "idle" => ~wrote[r]
         /\ pc[r] \in {"idle", "auth", "guard", "read", "lock", "audit", "commit",
                       "email", "count", "insert"}
  BY DEF UserInv, TypeOK, Paths

\* A call names an operation, users and a role.
LEMMA CallFields ==
  ASSUME NEW c \in Call
  PROVE  /\ c.op \in {"register", "toggle_role", "delete_user"}
         /\ c.target \in User /\ c.actor \in User \cup {NoUser} /\ c.new \in Role
  BY DEF Call

\* The end of a request touches no other request and no account.
LEMMA EndOnly ==
  ASSUME UserInv, NEW r \in Req, End(r)
  PROVE  /\ role' = role /\ Only(r)
         /\ pc'[r] = "idle" /\ ~wrote'[r] /\ ~overtaken'[r] /\ TypeOK'
<1>1. /\ pc \in [Req -> {"idle", "auth", "guard", "read", "lock", "audit", "commit",
                         "email", "count", "insert"}]
      /\ call \in [Req -> Call \cup {NoCall}]
      /\ wrote \in [Req -> BOOLEAN]
      /\ overtaken \in [Req -> BOOLEAN]
  BY DEF UserInv, TypeOK
<1>2. Only(r) /\ pc'[r] = "idle" /\ ~wrote'[r] /\ ~overtaken'[r]
  BY <1>1 DEF End, Only
<1>3. TypeOK'
  BY <1>1 DEF End, UserInv, TypeOK
<1> QED
  BY <1>2, <1>3 DEF End

\* A request that goes on to its next step touches no other request and no account.
LEMMA GotoOnly ==
  ASSUME UserInv, NEW r \in Req, pc[r] # "idle",
         NEW next \in {"auth", "guard", "read", "lock", "audit", "commit",
                       "email", "count", "insert"},
         Goto(r, next)
  PROVE  /\ role' = role /\ Only(r) /\ pc'[r] = next /\ call'[r] = call[r]
         /\ wrote'[r] = wrote[r] /\ overtaken'[r] = overtaken[r] /\ TypeOK'
<1>1. pc \in [Req -> {"idle", "auth", "guard", "read", "lock", "audit", "commit",
                      "email", "count", "insert"}]
  BY DEF UserInv, TypeOK
<1>2. /\ Only(r) /\ pc'[r] = next /\ call'[r] = call[r]
      /\ wrote'[r] = wrote[r] /\ overtaken'[r] = overtaken[r]
  BY <1>1 DEF Goto, Only
<1>3. TypeOK'
  BY <1>1 DEF Goto, UserInv, TypeOK
<1> QED
  BY <1>2, <1>3 DEF Goto

\* An uncommitted write is remembered, and touches no other request.
LEMMA WriteOnly ==
  ASSUME UserInv, NEW r \in Req, pc[r] # "idle", NEW next \in {"audit", "commit"},
         pc' = [pc EXCEPT ![r] = next], wrote' = [wrote EXCEPT ![r] = TRUE],
         UNCHANGED <<role, call, overtaken>>
  PROVE  /\ role' = role /\ Only(r) /\ pc'[r] = next /\ call'[r] = call[r]
         /\ wrote'[r] /\ overtaken'[r] = overtaken[r] /\ TypeOK'
<1>1. /\ pc \in [Req -> {"idle", "auth", "guard", "read", "lock", "audit", "commit",
                         "email", "count", "insert"}]
      /\ wrote \in [Req -> BOOLEAN]
  BY DEF UserInv, TypeOK
<1>2. /\ Only(r) /\ pc'[r] = next /\ call'[r] = call[r]
      /\ wrote'[r] /\ overtaken'[r] = overtaken[r]
  BY <1>1 DEF Only
<1>3. TypeOK'
  BY <1>1 DEF UserInv, TypeOK
<1> QED
  BY <1>2, <1>3

-----------------------------------------------------------------------------
(***************************************************************************)
(* Steps that leave the table as it is.                                    *)
(***************************************************************************)
\* A request that ends lets go of what it held.
LEMMA EndKeeps ==
  ASSUME UserInv, NEW r \in Req, End(r)
  PROVE  UserInv'
<1>1. /\ role' = role /\ Only(r)
      /\ pc'[r] = "idle" /\ ~wrote'[r] /\ TypeOK'
  BY EndOnly
<1>2. Paths'
  BY <1>1 DEF UserInv, Paths, Only
<1>3. RowsHeld'
  BY <1>1 DEF UserInv, RowsHeld, Only, Live
<1>4. ActorsHeld'
  <2> SUFFICES ASSUME NEW q \in Req, pc'[q] = "commit", call'[q].op # "register"
               PROVE  /\ role'[call'[q].actor] \in Role
                      /\ \A s \in Req :
                           ~(/\ pc'[s] \in {"audit", "commit"} /\ wrote'[s]
                             /\ call'[s].op = "delete_user"
                             /\ call'[s].target = call'[q].actor)
    BY DEF ActorsHeld, Live, Deletes, InTransaction
  <2>1. q # r /\ call'[q] = call[q] /\ pc[q] = "commit"
    BY <1>1 DEF Only
  <2> QED
    BY <1>1, <2>1 DEF UserInv, ActorsHeld, Only, Live, Deletes, InTransaction
<1>5. EmailsHeld'
  BY <1>1 DEF UserInv, EmailsHeld, Only, EmailTaken, Live, Inserts
<1>6. EmailUnique'
  BY <1>1 DEF UserInv, EmailUnique, Live
<1>7. ChecksHold'
  BY <1>1 DEF UserInv, ChecksHold, Only, CurrentAdmins
<1> QED
  BY <1>1, <1>2, <1>3, <1>4, <1>5, <1>6, <1>7 DEF UserInv

\* A request goes on to a step of its operation; what it needs from then on is given.
LEMMA GotoKeeps ==
  ASSUME UserInv, NEW r \in Req, pc[r] # "idle",
         NEW next \in {"guard", "read", "lock", "audit", "commit", "count"},
         next \in Path(call[r].op), Goto(r, next),
         wrote[r] => next \in {"audit", "commit"},
         next = "commit" => /\ call[r].op # "register"
                            /\ Live(call[r].actor)
                            /\ \A q \in Req : ~Deletes(q, call[r].actor),
         pc[r] = "auth" => role[call[r].actor] = "admin"
  PROVE  UserInv'
<1>1. /\ role' = role /\ Only(r) /\ pc'[r] = next /\ call'[r] = call[r]
      /\ wrote'[r] = wrote[r] /\ overtaken'[r] = overtaken[r] /\ TypeOK'
  BY GotoOnly
<1>2. Paths'
  BY <1>1 DEF UserInv, Paths, Only
<1>3. RowsHeld'
  BY <1>1 DEF UserInv, RowsHeld, Only, Live
<1>4. \A s \in Req : pc'[s] \in {"audit", "commit"} /\ wrote'[s] =>
        pc[s] \in {"audit", "commit"} /\ wrote[s] /\ call'[s] = call[s]
  BY <1>1 DEF UserInv, Paths, Only
<1>5. ActorsHeld'
  <2> SUFFICES ASSUME NEW q \in Req, pc'[q] = "commit", call'[q].op # "register"
               PROVE  /\ role'[call'[q].actor] \in Role
                      /\ \A s \in Req :
                           ~(/\ pc'[s] \in {"audit", "commit"} /\ wrote'[s]
                             /\ call'[s].op = "delete_user"
                             /\ call'[s].target = call'[q].actor)
    BY DEF ActorsHeld, Live, Deletes, InTransaction
  <2>1. call'[q] = call[q] /\ call[q].op # "register"
    BY <1>1 DEF Only
  <2>2. Live(call[q].actor) /\ \A s \in Req : ~Deletes(s, call[q].actor)
    BY <1>1, <2>1 DEF Only, UserInv, ActorsHeld
  <2> QED
    BY <1>1, <1>4, <2>1, <2>2 DEF Live, Deletes, InTransaction
<1>6. EmailsHeld'
  BY <1>1 DEF UserInv, EmailsHeld, Only, EmailTaken, Live, Inserts
<1>7. EmailUnique'
  BY <1>1 DEF UserInv, EmailUnique, Live
<1>8. ChecksHold'
  BY <1>1 DEF UserInv, ChecksHold, Only, CurrentAdmins, Path
<1> QED
  BY <1>1, <1>2, <1>3, <1>5, <1>6, <1>7, <1>8 DEF UserInv

\* A call begins; a registration is of an account nobody else is busy with.
LEMMA BeginKeeps ==
  ASSUME UserInv, NEW r \in Req, NEW c \in Call, NEW first \in {"auth", "email"},
         Begin(r, c, first),
         c.op = "register" <=> first = "email",
         role[c.target] = "none" <=> c.op = "register",
         c.op # "register" => c.actor \in User /\ role[c.actor] # "none",
         c.op = "register" => \A q \in Req : pc[q] # "idle" => call[q].target # c.target
  PROVE  UserInv'
<1>0. pc[r] = "idle" /\ ~wrote[r] /\ role' = role
  BY CallsServed DEF Begin
<1>1. Only(r) /\ pc'[r] = first /\ call'[r] = c /\ ~wrote'[r]
  BY <1>0 DEF Begin, Only, UserInv, TypeOK
<1>2. TypeOK'
  <2>1. c # NoCall
    BY UserAdminAssumption DEF Call
  <2> QED
    BY <2>1 DEF Begin, UserInv, TypeOK
<1>3. Paths'
  BY <1>0, <1>1 DEF UserInv, Paths, Only, Path
<1>4. RowsHeld'
  <2>1. \A q \in Req : wrote'[q] => q # r /\ wrote[q]
    BY <1>0, <1>1 DEF Only
  <2>2. ASSUME NEW p \in Req, NEW q \in Req, pc'[p] # "idle", pc'[q] # "idle",
               call'[q].target = call'[p].target,
               (wrote'[p] /\ wrote'[q]) \/ call'[p].op = "register"
        PROVE  q = p
    <3>1. CASE p # r /\ q # r
      BY <1>1, <2>2, <3>1 DEF UserInv, RowsHeld, Only
    <3>2. CASE p = r /\ q # r
      BY <1>0, <1>1, <2>2, <3>2 DEF Only
    <3>3. CASE p # r /\ q = r
      <4>1. call[p].op = "register" /\ call[p].target = c.target /\ pc[p] # "idle"
        BY <1>0, <1>1, <2>2, <3>3 DEF Only
      <4>2. role[call[p].target] = "none"
        BY <4>1 DEF UserInv, Paths
      <4> QED
        BY <4>1, <4>2
    <3> QED
      BY <3>1, <3>2, <3>3
  <2>3. ASSUME NEW p \in Req, wrote'[p], call'[p].op # "register"
        PROVE  role'[call'[p].target] \in Role
    BY <1>0, <1>1, <2>1, <2>3 DEF UserInv, RowsHeld, Only, Live
  <2> QED
    BY <2>2, <2>3 DEF RowsHeld, Live
<1>5. ActorsHeld'
  <2> SUFFICES ASSUME NEW q \in Req, pc'[q] = "commit", call'[q].op # "register"
               PROVE  /\ role'[call'[q].actor] \in Role
                      /\ \A s \in Req :
                           ~(/\ pc'[s] \in {"audit", "commit"} /\ wrote'[s]
                             /\ call'[s].op = "delete_user"
                             /\ call'[s].target = call'[q].actor)
    BY DEF ActorsHeld, Live, Deletes, InTransaction
  <2>1. q # r /\ call'[q] = call[q] /\ pc[q] = "commit"
    BY <1>1 DEF Only
  <2> QED
    BY <1>0, <1>1, <2>1 DEF UserInv, ActorsHeld, Only, Live, Deletes, InTransaction
<1>6. EmailsHeld'
  BY <1>0, <1>1 DEF UserInv, EmailsHeld, Only, EmailTaken, Live, Inserts
<1>7. EmailUnique'
  BY <1>0 DEF UserInv, EmailUnique, Live
<1>8. ChecksHold'
  BY <1>0, <1>1 DEF UserInv, ChecksHold, Only, CurrentAdmins
<1> QED
  BY <1>2, <1>3, <1>4, <1>5, <1>6, <1>7, <1>8 DEF UserInv

-----------------------------------------------------------------------------
(***************************************************************************)
(* Writes, each once it has its lock.                                      *)
(***************************************************************************)
\* Whoever has written a row that is there holds a lock on it.
LEMMA WritersLock ==
  ASSUME UserInv, NEW q \in Req, wrote[q], role[call[q].target] # "none"
  PROVE  Updates(q, call[q].target) \/ Deletes(q, call[q].target)
<1>1. pc[q] \in {"audit", "commit"} /\ call[q] \in Call
  BY CallsServed DEF UserInv, Paths
<1>2. call[q].op \in {"toggle_role", "delete_user"}
  BY <1>1, CallFields DEF UserInv, Paths
<1> QED
  BY <1>1, <1>2 DEF Updates, Deletes, InTransaction

\* A request that updates or deletes a row waited for the locks of the others on it.
LEMMA WriteTargetKeeps ==
  ASSUME UserInv, NEW r \in Req, WriteTarget(r), Live(call[r].target),
         pc' = [pc EXCEPT ![r] = "audit"], wrote' = [wrote EXCEPT ![r] = TRUE],
         UNCHANGED <<role, call, overtaken>>
  PROVE  UserInv'
<1>1. /\ role' = role /\ Only(r) /\ pc'[r] = "audit" /\ call'[r] = call[r]
      /\ wrote'[r] /\ overtaken'[r] = overtaken[r] /\ TypeOK' /\ pc[r] = "lock"
  BY WriteOnly DEF WriteTarget
<1>2. /\ call[r].op # "register" /\ role[call[r].target] # "none" /\ call[r] \in Call
      /\ call[r].op \in {"toggle_role", "delete_user"}
  BY <1>1, CallsServed, CallFields DEF UserInv, Paths, Path
<1>3. /\ \A q \in Req : q # r => /\ ~Updates(q, call[r].target) /\ ~Deletes(q, call[r].target)
                                 /\ call[r].op = "delete_user" => ~SharesKey(q, call[r].target)
  BY <1>1 DEF WriteTarget, Waits, WaitsFor
<1>4. \A q \in Req : wrote[q] => q # r
  BY <1>1 DEF UserInv, Paths
<1>5. Paths'
  BY <1>1, <1>2 DEF UserInv, Paths, Only, Path
<1>6. RowsHeld'
  <2>1. \A q \in Req : wrote[q] => call[q].target # call[r].target
    BY <1>2, <1>3, <1>4, WritersLock
  <2>2. ASSUME NEW p \in Req, wrote'[p], call'[p].op # "register"
        PROVE  role'[call'[p].target] \in Role
    BY <1>1, <2>2 DEF UserInv, RowsHeld, Only, Live
  <2>3. ASSUME NEW p \in Req, NEW q \in Req, pc'[p] # "idle", pc'[q] # "idle",
               call'[q].target = call'[p].target,
               (wrote'[p] /\ wrote'[q]) \/ call'[p].op = "register"
        PROVE  q = p
    <3>1. call' = call /\ pc[p] # "idle" /\ pc[q] # "idle"
      BY <1>1, <2>3 DEF Only
    <3>2. CASE call[p].op = "register"
      BY <2>3, <3>1, <3>2 DEF UserInv, RowsHeld
    <3>3. CASE wrote'[p] /\ wrote'[q]
      BY <1>1, <2>1, <2>3, <3>1, <3>3 DEF UserInv, RowsHeld, Only
    <3> QED
      BY <2>3, <3>1, <3>2, <3>3
  <2> QED
    BY <2>2, <2>3 DEF RowsHeld, Live
<1>7. ActorsHeld'
  <2> SUFFICES ASSUME NEW q \in Req, pc'[q] = "commit", call'[q].op # "register"
               PROVE  /\ role'[call'[q].actor] \in Role
                      /\ \A s \in Req :
                           ~(/\ pc'[s] \in {"audit", "commit"} /\ wrote'[s]
                             /\ call'[s].op = "delete_user"
                             /\ call'[s].target = call'[q].actor)
    BY DEF ActorsHeld, Live, Deletes, InTransaction
  <2>1. q # r /\ call' = call /\ pc[q] = "commit"
    BY <1>1 DEF Only
  <2>2. Live(call[q].actor) /\ \A s \in Req : ~Deletes(s, call[q].actor)
    BY <2>1 DEF UserInv, ActorsHeld
  <2>3. ~(call[r].op = "delete_user" /\ call[r].target = call[q].actor)
    BY <1>3, <2>1 DEF SharesKey
  <2> QED
    BY <1>1, <2>1, <2>2, <2>3 DEF Only, Live, Deletes, InTransaction
<1>8. EmailsHeld'
  BY <1>1, <1>2 DEF UserInv, EmailsHeld, Only, EmailTaken, Live, Inserts
<1>9. EmailUnique'
  BY <1>1 DEF UserInv, EmailUnique, Live
<1>10. ChecksHold'
  BY <1>1, <1>2 DEF UserInv, ChecksHold, Only, CurrentAdmins
<1> QED
  BY <1>1, <1>5, <1>6, <1>7, <1>8, <1>9, <1>10 DEF UserInv

\* The index keeps the email of a new row from all other registrations.
LEMMA InsertKeeps ==
  ASSUME UserInv, NEW r \in Req, InsertUser(r), ~EmailTaken(EmailOf[call[r].target]),
         pc' = [pc EXCEPT ![r] = "commit"], wrote' = [wrote EXCEPT ![r] = TRUE],
         UNCHANGED <<role, call, overtaken>>
  PROVE  UserInv'
<1>1. /\ role' = role /\ Only(r) /\ pc'[r] = "commit" /\ call'[r] = call[r]
      /\ wrote'[r] /\ overtaken'[r] = overtaken[r] /\ TypeOK' /\ pc[r] = "insert"
      /\ call' = call
  BY WriteOnly DEF InsertUser
<1>2. call[r].op = "register" /\ ~wrote[r]
  BY <1>1 DEF UserInv, Paths, Path
<1>3. \A q \in Req : q # r => ~Inserts(q, EmailOf[call[r].target])
  BY <1>1 DEF InsertUser, Waits, WaitsFor, WritesEmail
<1>4. Paths'
  BY <1>1, <1>2 DEF UserInv, Paths, Only, Path
<1>5. RowsHeld'
  <2>1. ASSUME NEW p \in Req, wrote'[p], call'[p].op # "register"
        PROVE  role'[call'[p].target] \in Role
    BY <1>1, <1>2, <2>1 DEF UserInv, RowsHeld, Only, Live
  <2>2. ASSUME NEW p \in Req, NEW q \in Req, pc'[p] # "idle", pc'[q] # "idle",
               call'[q].target = call'[p].target,
               (wrote'[p] /\ wrote'[q]) \/ call'[p].op = "register"
        PROVE  q = p
    <3>1. pc[p] # "idle" /\ pc[q] # "idle"
      BY <1>1, <2>2 DEF Only
    <3>2. CASE call[p].op = "register" \/ call[q].op = "register"
      BY <1>1, <2>2, <3>1, <3>2 DEF UserInv, RowsHeld
    <3>3. CASE call[p].op # "register" /\ call[q].op # "register"
      BY <1>1, <1>2, <2>2, <3>1, <3>3 DEF UserInv, RowsHeld, Only
    <3> QED
      BY <3>2, <3>3
  <2> QED
    BY <2>1, <2>2 DEF RowsHeld, Live
<1>6. ActorsHeld'
  <2> SUFFICES ASSUME NEW q \in Req, pc'[q] = "commit", call'[q].op # "register"
               PROVE  /\ role'[call'[q].actor] \in Role
                      /\ \A s \in Req :
                           ~(/\ pc'[s] \in {"audit", "commit"} /\ wrote'[s]
                             /\ call'[s].op = "delete_user"
                             /\ call'[s].target = call'[q].actor)
    BY DEF ActorsHeld, Live, Deletes, InTransaction
  <2>1. q # r /\ pc[q] = "commit"
    BY <1>1, <1>2 DEF Only
  <2>2. Live(call[q].actor) /\ \A s \in Req : ~Deletes(s, call[q].actor)
    BY <1>1, <2>1 DEF UserInv, ActorsHeld
  <2> QED
    BY <1>1, <1>2, <2>1, <2>2 DEF Only, Live, Deletes, InTransaction
<1>7. EmailsHeld'
  <2> SUFFICES ASSUME NEW q \in Req, pc'[q] = "commit", call'[q].op = "register"
               PROVE  /\ ~EmailTaken(EmailOf[call[q].target])
                      /\ \A s \in Req :
                           /\ pc'[s] = "commit" /\ call[s].op = "register"
                           /\ EmailOf[call[s].target] = EmailOf[call[q].target]
                           => s = q
    BY <1>1 DEF EmailsHeld, Inserts, EmailTaken, Live
  <2>1. CASE q = r
    BY <1>1, <1>3, <2>1 DEF Inserts, Only, InsertUser
  <2>2. CASE q # r
    <3>1. Inserts(q, EmailOf[call[q].target])
      BY <1>1, <2>2 DEF Only, Inserts
    <3>2. EmailOf[call[q].target] # EmailOf[call[r].target]
      BY <1>3, <2>2, <3>1
    <3> QED
      BY <1>1, <2>2, <3>2 DEF UserInv, EmailsHeld, Only, Inserts
  <2> QED
    BY <2>1, <2>2
<1>8. EmailUnique'
  BY <1>1 DEF UserInv, EmailUnique, Live
<1>9. ChecksHold'
  BY <1>1, <1>2 DEF UserInv, ChecksHold, Only, CurrentAdmins
<1> QED
  BY <1>1, <1>4, <1>5, <1>6, <1>7, <1>8, <1>9 DEF UserInv

\* The role of a new account is what the count of the administrators then gives.
LEMMA CountKeeps ==
  ASSUME UserInv, NEW r \in Req, CountAdmins(r)
  PROVE  UserInv'
<1> DEFINE new == IF CurrentAdmins = {} THEN "admin" ELSE "reviewer"
           c == [call[r] EXCEPT !.new = new]
<1>1. pc[r] = "count" /\ call[r] \in Call /\ call[r].op = "register" /\ ~wrote[r]
  BY CallsServed, CallFields DEF CountAdmins, UserInv, Paths, Path
<1>2. /\ c \in Call /\ c.op = call[r].op /\ c.target = call[r].target
      /\ c.actor = call[r].actor /\ c.new = new
  <2>1. new \in Role
    BY DEF Role
  <2> HIDE DEF new
  <2> QED
    BY <1>1, <2>1 DEF Call
<1>3. call' = [call EXCEPT ![r] = c]
  BY DEF CountAdmins, UserInv, TypeOK
<1> HIDE DEF c, new
<1>4. /\ role' = role /\ Only(r) /\ pc'[r] = "insert" /\ call'[r] = c
      /\ wrote' = wrote /\ overtaken' = overtaken
  BY <1>3 DEF CountAdmins, UserInv, TypeOK, Only
<1>5. TypeOK'
  <2>1. c # NoCall
    BY <1>2, UserAdminAssumption DEF Call
  <2> QED
    BY <1>1, <1>2, <1>3, <2>1 DEF CountAdmins, UserInv, TypeOK
<1>6. Paths'
  BY <1>1, <1>2, <1>4 DEF UserInv, Paths, Only, Path
<1>7. RowsHeld'
  BY <1>1, <1>2, <1>4 DEF UserInv, RowsHeld, Only, Live
<1>8. ActorsHeld'
  <2> SUFFICES ASSUME NEW q \in Req, pc'[q] = "commit", call'[q].op # "register"
               PROVE  /\ role'[call'[q].actor] \in Role
                      /\ \A s \in Req :
                           ~(/\ pc'[s] \in {"audit", "commit"} /\ wrote'[s]
                             /\ call'[s].op = "delete_user"
                             /\ call'[s].target = call'[q].actor)
    BY DEF ActorsHeld, Live, Deletes, InTransaction
  <2>1. q # r /\ pc[q] = "commit" /\ call'[q] = call[q]
    BY <1>4 DEF Only
  <2>2. Live(call[q].actor) /\ \A s \in Req : ~Deletes(s, call[q].actor)
    BY <2>1 DEF UserInv, ActorsHeld
  <2> QED
    BY <1>1, <1>4, <2>1, <2>2 DEF Only, Live, Deletes, InTransaction
<1>9. EmailsHeld'
  BY <1>4 DEF UserInv, EmailsHeld, Only, EmailTaken, Live, Inserts
<1>10. EmailUnique'
  BY <1>4 DEF UserInv, EmailUnique, Live
<1>11. ChecksHold'
  <2>1. c.new = "admin" => CurrentAdmins = {}
    BY <1>2 DEF new
  <2>2. CurrentAdmins' = CurrentAdmins
    BY <1>4 DEF CurrentAdmins
  <2> QED
    BY <1>1, <1>2, <1>4, <2>1, <2>2 DEF UserInv, ChecksHold, Only
<1> QED
  BY <1>5, <1>6, <1>7, <1>8, <1>9, <1>10, <1>11 DEF UserInv

-----------------------------------------------------------------------------
(***************************************************************************)
(* Commits.                                                                *)
(***************************************************************************)
\* What a commit makes of the target's role.
RoleAfter(c) == IF c.op = "delete_user" THEN "deleted" ELSE c.new

\* A commit that wrote changes one account, and ends its request.
LEMMA CommitEffect ==
  ASSUME UserInv, NEW r \in Req, Commit(r)
  PROVE  /\ pc[r] = "commit" /\ call[r] \in Call
         /\ pc'[r] = "idle" /\ ~wrote'[r]
         /\ \A q \in Req : q # r =>
              /\ pc'[q] = pc[q] /\ call'[q] = call[q] /\ wrote'[q] = wrote[q]
              /\ pc[q] # "idle" =>
                   (overtaken'[q] <=>
                      overtaken[q] \/ (wrote[r] /\ Overtakes(call[r], call[q].op)))
         /\ \A u \in User :
              role'[u] = IF wrote[r] /\ u = call[r].target THEN RoleAfter(call[r]) ELSE role[u]
         /\ RoleAfter(call[r]) \in Role \cup {"deleted"}
         /\ TypeOK'
<1> DEFINE c == call[r]
<1>1. pc[r] = "commit" /\ c \in Call
  BY CallsServed DEF Commit
<1>2. c.target \in User /\ c.new \in Role
  BY <1>1, CallFields
<1>3. RoleAfter(c) \in Role \cup {"deleted"}
  BY <1>2 DEF RoleAfter
<1>4. role' = IF ~wrote[r] THEN role ELSE [role EXCEPT ![c.target] = RoleAfter(c)]
  BY DEF Commit, RoleAfter
<1>5. role \in [User -> Role \cup {"none", "deleted"}]
  BY DEF UserInv, TypeOK
<1> HIDE DEF c
<1>6. \A u \in User : role'[u] = IF wrote[r] /\ u = c.target THEN RoleAfter(c) ELSE role[u]
  BY <1>2, <1>4, <1>5
<1>7. role' \in [User -> Role \cup {"none", "deleted"}]
  BY <1>2, <1>3, <1>4, <1>5
<1>8. overtaken' = [q \in Req |->
        /\ q # r
        /\ pc[q] # "idle"
        /\ \/ overtaken[q]
           \/ wrote[r] /\ Overtakes(c, call[q].op)]
  BY DEF Commit, c
<1>9. overtaken' \in [Req -> BOOLEAN]
  BY <1>8
<1>10. /\ pc' = [pc EXCEPT ![r] = "idle"] /\ call' = [call EXCEPT ![r] = NoCall]
       /\ wrote' = [wrote EXCEPT ![r] = FALSE]
  BY DEF Commit
<1>11. TypeOK'
  BY <1>7, <1>9, <1>10 DEF UserInv, TypeOK
<1>12. pc'[r] = "idle" /\ ~wrote'[r]
  BY <1>10 DEF UserInv, TypeOK
<1>13. ASSUME NEW q \in Req, q # r
       PROVE  pc'[q] = pc[q] /\ call'[q] = call[q] /\ wrote'[q] = wrote[q]
  BY <1>10, <1>13 DEF UserInv, TypeOK
<1>14. ASSUME NEW q \in Req, q # r, pc[q] # "idle"
       PROVE  overtaken'[q] <=> overtaken[q] \/ (wrote[r] /\ Overtakes(c, call[q].op))
  BY <1>8, <1>14
<1> QED
  BY <1>1, <1>3, <1>6, <1>11, <1>12, <1>13, <1>14 DEF c

\* A commit leaves the others what they rely on.
LEMMA CommitKeeps ==
  ASSUME UserInv, NEW r \in Req, Commit(r)
  PROVE  UserInv'
<1> DEFINE c == call[r]
           t == c.target
<1>1. /\ pc[r] = "commit" /\ c \in Call
      /\ pc'[r] = "idle" /\ ~wrote'[r]
      /\ \A q \in Req : q # r =>
           /\ pc'[q] = pc[q] /\ call'[q] = call[q] /\ wrote'[q] = wrote[q]
           /\ pc[q] # "idle" =>
                (overtaken'[q] <=> overtaken[q] \/ (wrote[r] /\ Overtakes(c, call[q].op)))
      /\ \A u \in User : role'[u] = IF wrote[r] /\ u = t THEN RoleAfter(c) ELSE role[u]
      /\ RoleAfter(c) \in Role \cup {"deleted"}
      /\ TypeOK'
  BY CommitEffect, CallsServed DEF Commit
<1>2. /\ c.op \in {"register", "toggle_role", "delete_user"} /\ t \in User /\ c.new \in Role
      /\ c.op # "delete_user" => RoleAfter(c) = c.new
      /\ c.op = "delete_user" => RoleAfter(c) = "deleted"
  BY <1>1, CallFields DEF RoleAfter
<1>3. /\ c.op = "register" => role[t] = "none" /\ wrote[r]
      /\ wrote[r] /\ c.op # "register" => role[t] \in Role
  BY <1>1 DEF UserInv, Paths, RowsHeld, Live
<1>4. "none" \notin Role /\ "deleted" \notin Role
  BY DEF Role
<1> HIDE DEF c, t
<1>5. \A u \in User : /\ role[u] # "none" => role'[u] # "none"
                      /\ role'[u] \in Role => role[u] \in Role \/ (u = t /\ c.op = "register")
  BY <1>1, <1>2, <1>3, <1>4
<1>6. \A q \in Req : pc'[q] # "idle" =>
        /\ q # r /\ pc[q] = pc'[q] /\ call'[q] = call[q] /\ call[q] \in Call
        /\ call[q].target \in User
  BY <1>1, CallsServed, CallFields
<1>7. Paths'
  <2>1. ASSUME NEW q \in Req, pc'[q] # "idle"
        PROVE  (role'[call[q].target] = "none") <=> (call[q].op = "register")
    <3>1. /\ (role[call[q].target] = "none") <=> (call[q].op = "register")
      BY <1>6, <2>1 DEF UserInv, Paths
    <3>2. CASE call[q].op = "register"
      <4>1. call[q].target # t
        BY <1>1, <1>6, <2>1, <3>2 DEF UserInv, RowsHeld, t, c
      <4> QED
        BY <1>1, <1>6, <2>1, <3>1, <3>2, <4>1
    <3>3. CASE call[q].op # "register"
      BY <1>5, <1>6, <2>1, <3>1, <3>3
    <3> QED
      BY <3>2, <3>3
  <2>2. ASSUME NEW q \in Req
        PROVE  /\ wrote'[q] => pc'[q] \in {"audit", "commit"}
               /\ pc'[q] # "idle" =>
                    /\ pc'[q] \in Path(call'[q].op)
                    /\ call'[q].op = "register" /\ pc'[q] = "commit" => wrote'[q]
    BY <1>1, <1>6 DEF UserInv, Paths
  <2>3. ASSUME NEW q \in Req, pc'[q] # "idle", call'[q].op # "register"
        PROVE  call'[q].actor \in User /\ role'[call'[q].actor] # "none"
    BY <1>5, <1>6, <2>3 DEF UserInv, Paths
  <2> QED
    BY <1>6, <2>1, <2>2, <2>3 DEF Paths
<1>8. RowsHeld'
  <2>1. ASSUME NEW q \in Req, wrote'[q], call'[q].op # "register"
        PROVE  role'[call'[q].target] \in Role
    <3>1. q # r /\ wrote[q] /\ call'[q] = call[q] /\ pc[q] # "idle" /\ call[q].target \in User
      BY <1>1, <1>6, <2>1 DEF UserInv, Paths
    <3>2. role[call[q].target] \in Role
      BY <2>1, <3>1 DEF UserInv, RowsHeld, Live
    <3>3. wrote[r] => call[q].target # t
      BY <1>1, <3>1 DEF UserInv, RowsHeld, t, c
    <3> QED
      BY <1>1, <3>1, <3>2, <3>3
  <2>2. ASSUME NEW p \in Req, NEW q \in Req, pc'[p] # "idle", pc'[q] # "idle",
               call'[q].target = call'[p].target,
               (wrote'[p] /\ wrote'[q]) \/ call'[p].op = "register"
        PROVE  q = p
    BY <1>1, <1>6, <2>2 DEF UserInv, RowsHeld
  <2> QED
    BY <2>1, <2>2 DEF RowsHeld, Live
<1>9. ActorsHeld'
  <2> SUFFICES ASSUME NEW q \in Req, pc'[q] = "commit", call'[q].op # "register"
               PROVE  /\ role'[call'[q].actor] \in Role
                      /\ \A s \in Req :
                           ~(/\ pc'[s] \in {"audit", "commit"} /\ wrote'[s]
                             /\ call'[s].op = "delete_user"
                             /\ call'[s].target = call'[q].actor)
    BY DEF ActorsHeld, Live, Deletes, InTransaction
  <2>1. /\ q # r /\ pc[q] = "commit" /\ call'[q] = call[q] /\ call[q].actor \in User
    BY <1>6 DEF UserInv, Paths
  <2>2. role[call[q].actor] \in Role /\ \A s \in Req : ~Deletes(s, call[q].actor)
    BY <2>1 DEF UserInv, ActorsHeld, Live
  <2>3. wrote[r] /\ c.op = "delete_user" => call[q].actor # t
    BY <1>1, <2>2 DEF Deletes, InTransaction, t, c
  <2>4. role'[call[q].actor] \in Role
    BY <1>1, <1>2, <2>1, <2>2, <2>3
  <2> QED
    BY <1>1, <2>1, <2>2, <2>4 DEF Deletes, InTransaction
<1>10. EmailsHeld'
  <2> SUFFICES ASSUME NEW q \in Req, pc'[q] = "commit", call'[q].op = "register"
               PROVE  /\ \A u \in User :
                           role'[u] \in Role => EmailOf[u] # EmailOf[call[q].target]
                      /\ \A s \in Req :
                           /\ pc'[s] = "commit" /\ call'[s].op = "register"
                           /\ EmailOf[call'[s].target] = EmailOf[call[q].target]
                           => s = q
    BY <1>6 DEF EmailsHeld, Inserts, EmailTaken, Live
  <2>1. /\ q # r /\ pc[q] = "commit" /\ call[q].op = "register"
    BY <1>6
  <2>2. /\ \A u \in User : role[u] \in Role => EmailOf[u] # EmailOf[call[q].target]
        /\ \A s \in Req : Inserts(s, EmailOf[call[q].target]) => s = q
    BY <2>1 DEF UserInv, EmailsHeld, EmailTaken, Live
  <2>3. c.op = "register" => EmailOf[t] # EmailOf[call[q].target]
    BY <1>1, <2>1, <2>2 DEF Inserts, t, c
  <2> QED
    BY <1>5, <1>6, <2>2, <2>3 DEF Inserts
<1>11. EmailUnique'
  <2> SUFFICES ASSUME NEW u \in User, NEW v \in User, role'[u] \in Role, role'[v] \in Role,
                      EmailOf[u] = EmailOf[v]
               PROVE  u = v
    BY DEF EmailUnique, Live
  <2>1. c.op = "register" => \A x \in User : role[x] \in Role => EmailOf[x] # EmailOf[t]
    BY <1>1 DEF UserInv, EmailsHeld, EmailTaken, Live, t, c
  <2>2. role[u] \in Role /\ role[v] \in Role => u = v
    BY DEF UserInv, EmailUnique, Live
  <2> QED
    BY <1>5, <2>1, <2>2
<1>12. ChecksHold'
  <2>1. ASSUME NEW q \in Req, pc'[q] \in {"insert", "commit"}, call'[q].op = "register",
               call'[q].new = "admin", NEW u \in User, role'[u] = "admin"
        PROVE  overtaken'[q]
    <3>1. q # r /\ pc[q] = pc'[q] /\ pc[q] # "idle" /\ call'[q] = call[q]
      BY <1>6, <2>1
    <3>2. CASE CurrentAdmins # {}
      <4>1. overtaken[q]
        BY <2>1, <3>1, <3>2 DEF UserInv, ChecksHold
      <4> QED
        BY <1>1, <3>1, <4>1
    <3>3. CASE CurrentAdmins = {}
      <4>1. role[u] # "admin"
        BY <3>3 DEF CurrentAdmins
      <4>2. wrote[r] /\ u = t /\ RoleAfter(c) = "admin"
        BY <1>1, <2>1, <4>1
      <4>3. Overtakes(c, call[q].op)
        BY <1>2, <2>1, <3>1, <4>2 DEF Overtakes
      <4> QED
        BY <1>1, <3>1, <4>2, <4>3
    <3> QED
      BY <3>2, <3>3
  <2>2. ASSUME NEW q \in Req, pc'[q] \notin {"idle", "auth"}, call'[q].op = "delete_user",
               role'[call'[q].actor] \notin {"admin", "deleted"}
        PROVE  overtaken'[q]
    <3>1. /\ q # r /\ pc[q] = pc'[q] /\ pc[q] # "idle" /\ call'[q] = call[q]
          /\ call[q].actor \in User /\ role[call[q].actor] # "none"
      BY <1>6, <2>2 DEF UserInv, Paths
    <3>2. CASE role[call[q].actor] \notin {"admin", "deleted"}
      <4>1. overtaken[q]
        BY <2>2, <3>1, <3>2 DEF UserInv, ChecksHold
      <4> QED
        BY <1>1, <3>1, <4>1
    <3>3. CASE role[call[q].actor] \in {"admin", "deleted"}
      <4>1. wrote[r] /\ call[q].actor = t /\ RoleAfter(c) \notin {"admin", "deleted"}
        BY <1>1, <2>2, <3>1, <3>3
      <4>2. c.op = "toggle_role" /\ c.new # "admin"
        BY <1>2, <1>3, <3>1, <4>1
      <4>3. Overtakes(c, call[q].op)
        BY <2>2, <3>1, <4>2 DEF Overtakes
      <4> QED
        BY <1>1, <3>1, <4>1, <4>3
    <3> QED
      BY <3>2, <3>3
  <2> QED
    BY <2>1, <2>2 DEF ChecksHold, CurrentAdmins
<1> QED
  BY <1>1, <1>7, <1>8, <1>9, <1>10, <1>11, <1>12 DEF UserInv

-----------------------------------------------------------------------------
(***************************************************************************)
(* The inductive invariant.                                                *)
(***************************************************************************)
\* At first nobody asks for anything, and the administrators have different emails.
LEMMA InitUserInv == Init => UserInv
<1> SUFFICES ASSUME Init PROVE UserInv
  OBVIOUS
<1>1. /\ \A u \in User : role[u] = IF u \in Admins THEN "admin" ELSE "none"
      /\ \A r \in Req : pc[r] = "idle" /\ call[r] = NoCall /\ ~wrote[r]
  BY DEF Init
<1>2. TypeOK
  BY DEF Init, TypeOK, Role
<1>3. EmailUnique
  <2>1. \A u \in User : Live(u) => u \in Admins
    BY <1>1 DEF Live, Role
  <2> QED
    BY <2>1, UserAdminAssumption DEF EmailUnique
<1> QED
  BY <1>1, <1>2, <1>3 DEF UserInv, Paths, RowsHeld, ActorsHeld, EmailsHeld, ChecksHold

\* A call that begins is of an account that exists, or of one that nobody registers yet.
LEMMA BeginsKeep ==
  ASSUME UserInv, NEW r \in Req, BeginAdminCall(r) \/ BeginRegister(r)
  PROVE  UserInv'
<1>1. CASE BeginAdminCall(r)
  <2>1. PICK op \in Ops \ {"register"}, a \in User, t \in User, same \in BOOLEAN,
             new \in Given \cup {"reviewer"} :
          /\ role[a] # "none" /\ role[t] # "none"
          /\ Begin(r, [op |-> op, actor |-> a, target |-> t, same |-> same, new |-> new],
                   "auth")
    BY <1>1 DEF BeginAdminCall
  <2> DEFINE c == [op |-> op, actor |-> a, target |-> t, same |-> same, new |-> new]
  <2>2. op \in {"toggle_role", "delete_user"} /\ new \in Role
    BY <2>1, UserAdminAssumption DEF Role
  <2>3. c \in Call
    BY <2>1, <2>2 DEF Call
  <2>4. c.op # "register" /\ c.target = t /\ c.actor = a
    BY <2>2
  <2>5. Begin(r, c, "auth")
    BY <2>1
  <2> HIDE DEF c
  <2> QED
    BY <2>1, <2>3, <2>4, <2>5, BeginKeeps
<1>2. CASE BeginRegister(r)
  <2>1. PICK u \in User :
          /\ role[u] = "none"
          /\ \A q \in Req : pc[q] # "idle" => call[q].target # u
          /\ Begin(r, [op |-> "register", actor |-> NoUser, target |-> u,
                       same |-> FALSE, new |-> "reviewer"], "email")
    BY <1>2 DEF BeginRegister
  <2> DEFINE c == [op |-> "register", actor |-> NoUser, target |-> u,
                   same |-> FALSE, new |-> "reviewer"]
  <2>2. c \in Call
    BY <2>1 DEF Call, Role
  <2>3. c.op = "register" /\ c.target = u
    OBVIOUS
  <2>4. Begin(r, c, "email")
    BY <2>1
  <2> HIDE DEF c
  <2> QED
    BY <2>1, <2>2, <2>3, <2>4, BeginKeeps
<1> QED
  BY <1>1, <1>2

\* The steps of an administrator's call before it commits.
LEMMA AdminStepKeeps ==
  ASSUME UserInv, NEW r \in Req,
         Authenticate(r) \/ Guard(r) \/ ReadTarget(r) \/ WriteTarget(r) \/ InsertAudit(r)
  PROVE  UserInv'
<1>1. /\ pc[r] \in {"auth", "guard", "read", "lock", "audit"}
      /\ call[r].op # "register" /\ call[r] \in Call
      /\ wrote[r] => pc[r] = "audit"
  BY CallsServed DEF UserInv, Paths, Path, Authenticate, Guard, ReadTarget, WriteTarget,
                     InsertAudit
<1>2. CASE End(r)
  BY <1>2, EndKeeps
<1>3. CASE Authenticate(r) /\ role[call[r].actor] = "admin" /\ Goto(r, "guard")
  BY <1>1, <1>3, GotoKeeps DEF Authenticate, Path
<1>4. CASE Guard(r) /\ Goto(r, "read")
  BY <1>1, <1>4, GotoKeeps DEF Guard, Path
<1>5. CASE ReadTarget(r) /\ (Goto(r, "audit") \/ Goto(r, "lock"))
  BY <1>1, <1>5, GotoKeeps DEF ReadTarget, Path
<1>6. CASE /\ WriteTarget(r) /\ Live(call[r].target)
           /\ pc' = [pc EXCEPT ![r] = "audit"] /\ wrote' = [wrote EXCEPT ![r] = TRUE]
           /\ UNCHANGED <<role, call, overtaken>>
  BY <1>6, WriteTargetKeeps
<1>7. CASE WriteTarget(r) /\ Goto(r, "audit")
  BY <1>1, <1>7, GotoKeeps DEF WriteTarget, Path
<1>8. CASE /\ InsertAudit(r) /\ Live(call[r].actor) /\ ~Deletes(r, call[r].actor)
           /\ Goto(r, "commit")
  <2>1. pc[r] = "audit" /\ \A q \in Req : q # r => ~Deletes(q, call[r].actor)
    BY <1>8 DEF InsertAudit, Waits, WaitsFor
  <2> QED
    BY <1>1, <1>8, <2>1, GotoKeeps DEF Path
<1> QED
  BY <1>2, <1>3, <1>4, <1>5, <1>6, <1>7, <1>8
     DEF Authenticate, Guard, ReadTarget, WriteTarget, InsertAudit

\* The steps of a registration before it commits.
LEMMA RegisterStepKeeps ==
  ASSUME UserInv, NEW r \in Req, CheckEmail(r) \/ CountAdmins(r) \/ InsertUser(r)
  PROVE  UserInv'
<1>1. CASE End(r)
  BY <1>1, EndKeeps
<1>2. CASE CheckEmail(r) /\ Goto(r, "count")
  <2>1. pc[r] = "email" /\ call[r].op = "register" /\ ~wrote[r]
    BY <1>2 DEF CheckEmail, UserInv, Paths, Path
  <2> QED
    BY <1>2, <2>1, GotoKeeps DEF Path
<1>3. CASE /\ InsertUser(r) /\ ~EmailTaken(EmailOf[call[r].target])
           /\ pc' = [pc EXCEPT ![r] = "commit"] /\ wrote' = [wrote EXCEPT ![r] = TRUE]
           /\ UNCHANGED <<role, call, overtaken>>
  BY <1>3, InsertKeeps
<1> QED
  BY <1>1, <1>2, <1>3, CountKeeps DEF CheckEmail, InsertUser

\* Every step of every request keeps the invariant, whatever the others commit.
LEMMA NextUserInv == UserInv /\ [Next]_vars => UserInv'
<1> SUFFICES ASSUME UserInv, [Next]_vars PROVE UserInv'
  OBVIOUS
<1>1. CASE UNCHANGED vars
  BY <1>1 DEF vars, UserInv, TypeOK, Paths, RowsHeld, ActorsHeld, EmailsHeld, EmailUnique,
              ChecksHold, Live, Deletes, InTransaction, Inserts, EmailTaken, CurrentAdmins
<1>2. ASSUME NEW r \in Req, BeginAdminCall(r) \/ BeginRegister(r) \/ Step(r) \/ Rollback(r)
      PROVE  UserInv'
  <2>1. CASE BeginAdminCall(r) \/ BeginRegister(r)
    BY <2>1, BeginsKeep
  <2>2. CASE Rollback(r) \/ BreakDeadlock(r)
    BY <2>2, EndKeeps DEF Rollback, BreakDeadlock
  <2>3. CASE Authenticate(r) \/ Guard(r) \/ ReadTarget(r) \/ WriteTarget(r) \/ InsertAudit(r)
    BY <2>3, AdminStepKeeps
  <2>4. CASE CheckEmail(r) \/ CountAdmins(r) \/ InsertUser(r)
    BY <2>4, RegisterStepKeeps
  <2>5. CASE Commit(r)
    BY <2>5, CommitKeeps
  <2> QED
    BY <1>2, <2>1, <2>2, <2>3, <2>4, <2>5 DEF Step
<1> QED
  BY <1>1, <1>2 DEF Next

\* The inductive invariant holds throughout.
THEOREM UserInvariant == Spec => []UserInv
  BY InitUserInv, NextUserInv, PTL DEF Spec

-----------------------------------------------------------------------------
(***************************************************************************)
(* What the runs check, for every number of users and requests.            *)
(***************************************************************************)
\* The table, the requests and their calls stay within their types.
THEOREM UserTypeCorrect == Spec => []TypeOK
<1>1. UserInv => TypeOK
  BY DEF UserInv
<1> QED
  BY <1>1, UserInvariant, PTL

\* However registrations interleave, no two accounts have one email.
THEOREM EmailsAreUnique == Spec => []EmailUnique
<1>1. UserInv => EmailUnique
  BY DEF UserInv
<1> QED
  BY <1>1, UserInvariant, PTL

\* A request that changes an account commits for a user who is there then and after it.
THEOREM ActorsSurvive == Spec => ActorSurvivesCommit
<1>1. UserInv /\ [Next]_vars =>
        [\A r \in Req :
           Commit(r) /\ call[r].op # "register" =>
             Live(call[r].actor) /\ role'[call[r].actor] \in Role]_vars
  <2> SUFFICES ASSUME UserInv, NEW r \in Req, Commit(r), call[r].op # "register"
               PROVE  Live(call[r].actor) /\ role'[call[r].actor] \in Role
    OBVIOUS
  <2>1. pc[r] = "commit" /\ call[r] \in Call /\ call[r].actor \in User
    BY CallsServed DEF Commit, UserInv, Paths
  <2>2. Live(call[r].actor) /\ ~Deletes(r, call[r].actor)
    BY <2>1 DEF UserInv, ActorsHeld
  <2>3. CASE wrote[r] /\ call[r].actor = call[r].target
    <3>1. call[r].op # "delete_user"
      BY <2>1, <2>2, <2>3 DEF Deletes, InTransaction
    <3>2. role'[call[r].actor] = call[r].new
      BY <2>1, <2>3, <3>1, CommitEffect DEF RoleAfter
    <3> QED
      BY <2>1, <2>2, <3>2, CallFields
  <2>4. CASE ~(wrote[r] /\ call[r].actor = call[r].target)
    BY <2>1, <2>2, <2>4, CommitEffect DEF Live
  <2> QED
    BY <2>3, <2>4
<1> QED
  BY <1>1, UserInvariant, PTL DEF Spec, ActorSurvivesCommit

\* Deletions alone, however many at once, leave an administrator: one that takes the
\* last was overtaken by a role change.
THEOREM DeletionsKeepAdmin == Spec => DeletesKeepAdmin
<1>1. UserInv /\ [Next]_vars =>
        [\A r \in Req :
           Commit(r) /\ call[r].op = "delete_user" /\ CurrentAdmins # {} /\ CurrentAdmins' = {}
             => overtaken[r]]_vars
  <2> SUFFICES ASSUME UserInv, NEW r \in Req, Commit(r), call[r].op = "delete_user",
                      CurrentAdmins' = {}
               PROVE  overtaken[r]
    OBVIOUS
  <2>1. pc[r] = "commit" /\ call[r].actor \in User
    BY DEF Commit, UserInv, Paths
  <2>2. Live(call[r].actor) /\ ~Deletes(r, call[r].actor)
    BY <2>1 DEF UserInv, ActorsHeld
  <2>3. ~(wrote[r] /\ call[r].actor = call[r].target)
    BY <2>1, <2>2 DEF Deletes, InTransaction
  <2>4. role'[call[r].actor] = role[call[r].actor]
    BY <2>1, <2>3, CommitEffect
  <2>5. role[call[r].actor] # "admin" /\ role[call[r].actor] # "deleted"
    BY <2>1, <2>2, <2>4 DEF CurrentAdmins, Live, Role
  <2> QED
    BY <2>1, <2>5 DEF UserInv, ChecksHold
<1> QED
  BY <1>1, UserInvariant, PTL DEF Spec, DeletesKeepAdmin

\* A registration makes a further administrator only if another administrator was made
\* while it was in progress.
THEOREM FirstsRace == Spec => OnlyRacingFirsts
<1>1. UserInv /\ [Next]_vars =>
        [\A r \in Req :
           Commit(r) /\ call[r].op = "register" /\ call[r].new = "admin" /\ CurrentAdmins # {}
             => overtaken[r]]_vars
  BY DEF UserInv, ChecksHold, Commit
<1> QED
  BY <1>1, UserInvariant, PTL DEF Spec, OnlyRacingFirsts

=============================================================================
