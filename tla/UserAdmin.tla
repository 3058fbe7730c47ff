------------------------------ MODULE UserAdmin ------------------------------
(***************************************************************************)
(* Registration, role changes and deletion of users by concurrent requests *)
(* to the API.  A request is one Postgres transaction at READ COMMITTED:   *)
(* get_session commits it after the handler and rolls it back when the     *)
(* handler raises.  Each action below is what a request does between two   *)
(* points where it may see the commits of others, or wait for their locks. *)
(***************************************************************************)
EXTENDS Naturals, FiniteSets

CONSTANTS
  User,      \* users.id values; a new registration takes a fresh one
  Email,     \* users.email values
  EmailOf,   \* the email an id registers with
  Req,       \* requests that may be in progress at the same time
  Ops,       \* the operations clients call
  Given,     \* bound: the roles that role changes give
  Admins,    \* the users that are administrators at the start
  Respelled, \* whether clients may spell a user's id otherwise than str(UUID) does
  NoUser,    \* no user
  NoCall     \* the request slot serves no call

Role == {"admin", "reviewer", "auditor"}

ASSUME UserAdminAssumption ==
  /\ EmailOf \in [User -> Email]
  /\ Ops \subseteq {"register", "toggle_role", "delete_user"}
  /\ Given \subseteq Role
  /\ Admins \in SUBSET User
  /\ \A u, v \in Admins : EmailOf[u] = EmailOf[v] => u = v
  /\ Respelled \in BOOLEAN
  /\ NoUser \notin User
  /\ NoCall \notin [op : {"register", "toggle_role", "delete_user"},
                     actor : User \cup {NoUser}, target : User,
                     same : BOOLEAN, new : Role]

VARIABLES
  role,    \* the committed users table: "none" before, "deleted" after the row exists
  pc,      \* what each request does next
  call,    \* the call each request serves
  wrote,   \* whether its transaction has an uncommitted write of the target's row
  overtaken  \* history: whether a commit meanwhile took away what its checks had found

vars == <<role, pc, call, wrote, overtaken>>

\* same: whether the id in the URL is the string that str gives for the actor's id.
Call == [op : {"register", "toggle_role", "delete_user"},
         actor : User \cup {NoUser}, target : User, same : BOOLEAN, new : Role]

TypeOK ==
  /\ role \in [User -> Role \cup {"none", "deleted"}]
  /\ pc \in [Req -> {"idle", "auth", "guard", "read", "lock", "audit", "commit",
                     "email", "count", "insert"}]
  /\ call \in [Req -> Call \cup {NoCall}]
  /\ \A r \in Req : pc[r] = "idle" <=> call[r] = NoCall
  /\ wrote \in [Req -> BOOLEAN]
  /\ overtaken \in [Req -> BOOLEAN]

Init ==
  /\ role = [u \in User |-> IF u \in Admins THEN "admin" ELSE "none"]
  /\ pc = [r \in Req |-> "idle"]
  /\ call = [r \in Req |-> NoCall]
  /\ wrote = [r \in Req |-> FALSE]
  /\ overtaken = [r \in Req |-> FALSE]

Live(u) == role[u] \in Role

CurrentAdmins == {u \in User : role[u] = "admin"}

-----------------------------------------------------------------------------
(***************************************************************************)
(* Row locks.  UPDATE locks the target's row FOR NO KEY UPDATE and DELETE  *)
(* FOR UPDATE; inserting an audit entry locks the actor's row FOR KEY      *)
(* SHARE, to check its foreign key.  Locks last until the transaction ends.*)
(***************************************************************************)
InTransaction(r, op) == pc[r] \in {"audit", "commit"} /\ wrote[r] /\ call[r].op = op

Updates(r, u) == InTransaction(r, "toggle_role") /\ call[r].target = u

Deletes(r, u) == InTransaction(r, "delete_user") /\ call[r].target = u

SharesKey(r, u) ==
  pc[r] = "commit" /\ call[r].op # "register" /\ call[r].actor = u

\* A row of the unique index on users.email that is not committed yet.
Inserts(r, e) ==
  pc[r] = "commit" /\ call[r].op = "register" /\ EmailOf[call[r].target] = e

\* Where the unique index finds a version that another transaction made or is about
\* to end, it waits to learn whether the email is taken.
WritesEmail(r, e) ==
  \/ Inserts(r, e)
  \/ \E u \in User : EmailOf[u] = e /\ (Updates(r, u) \/ Deletes(r, u))

\* Request r waits for a lock that q holds.
WaitsFor(r, q) ==
  LET c == call[r] IN
    /\ r # q
    /\ \/ /\ pc[r] = "lock"
          /\ \/ Updates(q, c.target) \/ Deletes(q, c.target)
             \/ c.op = "delete_user" /\ SharesKey(q, c.target)
       \/ pc[r] = "audit" /\ Deletes(q, c.actor)
       \/ pc[r] = "insert" /\ WritesEmail(q, EmailOf[c.target])

Waits(r) == \E q \in Req : WaitsFor(r, q)

-----------------------------------------------------------------------------
(***************************************************************************)
(* How a request goes on.                                                  *)
(***************************************************************************)
Goto(r, next) ==
  /\ pc' = [pc EXCEPT ![r] = next]
  /\ UNCHANGED <<role, call, wrote, overtaken>>

\* The handler raises, or the request has nothing to commit.
End(r) ==
  /\ pc' = [pc EXCEPT ![r] = "idle"]
  /\ call' = [call EXCEPT ![r] = NoCall]
  /\ wrote' = [wrote EXCEPT ![r] = FALSE]
  /\ overtaken' = [overtaken EXCEPT ![r] = FALSE]
  /\ UNCHANGED role

Begin(r, c, first) ==
  /\ pc[r] = "idle"
  /\ pc' = [pc EXCEPT ![r] = first]
  /\ call' = [call EXCEPT ![r] = c]
  /\ UNCHANGED <<role, wrote, overtaken>>

-----------------------------------------------------------------------------
(***************************************************************************)
(* PATCH /users/{uid}/role and DELETE /users/{uid}.                        *)
(***************************************************************************)
\* Mutant of BeginAdminCall: the body takes any string for a role.
BeginUnvalidated(r) ==
  \E op \in Ops \ {"register"}, a, t \in {u \in User : role[u] # "none"} :
    Begin(r, [op |-> op, actor |-> a, target |-> t, same |-> a = t, new |-> "owner"], "auth")

BeginAdminCall(r) ==
  \E op \in Ops \ {"register"}, a, t \in {u \in User : role[u] # "none"},
     same \in BOOLEAN, new \in Given \cup {"reviewer"} :
    /\ same => a = t
    /\ a = t /\ ~same => Respelled
    /\ op = "delete_user" => new = "reviewer"  \* deletion takes no role
    /\ Begin(r, [op |-> op, actor |-> a, target |-> t, same |-> same, new |-> new],
             "auth")

\* get_current_user and require_role: the row of the token's user must exist, and
\* the policy gives toggle_role and delete_user to administrators only.
Authenticate(r) ==
  /\ pc[r] = "auth"
  /\ IF role[call[r].actor] = "admin" THEN Goto(r, "guard") ELSE End(r)

LastAdmin == Cardinality(CurrentAdmins) = 1

RefusesToggle(c) ==
  \/ ~Live(c.target)
  \/ c.same /\ c.new # "admin" /\ LastAdmin

RefusesDelete(c) ==
  \/ c.same
  \/ LastAdmin /\ (role[c.target] = "admin" \/ ~Live(c.target))

\* The guard of the service.  It reads the users table without locking it; actor.role
\* is what get_current_user read.
Guard(r) ==
  /\ pc[r] = "guard"
  /\ IF \/ call[r].op = "toggle_role" /\ RefusesToggle(call[r])
        \/ call[r].op = "delete_user" /\ RefusesDelete(call[r])
     THEN End(r)
     ELSE Goto(r, "read")

\* session.get of update_role or delete.  Assigning the role the row already has
\* emits no UPDATE.
ReadTarget(r) ==
  /\ pc[r] = "read"
  /\ LET c == call[r] IN
       CASE ~Live(c.target) -> End(r)
         [] c.op = "toggle_role" /\ role[c.target] = c.new -> Goto(r, "audit")
         [] OTHER -> Goto(r, "lock")

\* The UPDATE or DELETE statement, once it has the row lock.  A row that is gone by
\* then is an error for an UPDATE and only a warning for a DELETE.
WriteTarget(r) ==
  /\ pc[r] = "lock"
  /\ ~Waits(r)
  /\ IF Live(call[r].target)
     THEN /\ pc' = [pc EXCEPT ![r] = "audit"]
          /\ wrote' = [wrote EXCEPT ![r] = TRUE]
          /\ UNCHANGED <<role, call, overtaken>>
     ELSE IF call[r].op = "delete_user" THEN Goto(r, "audit") ELSE End(r)

\* Mutant of InsertAudit: the audit table has no foreign key to its actor.
AuditWithoutForeignKey(r) ==
  /\ pc[r] = "audit"
  /\ Goto(r, "commit")

\* The audit entry names the actor, so the actor's row must still be there, and the
\* transaction itself must not have deleted it.
InsertAudit(r) ==
  /\ pc[r] = "audit"
  /\ ~Waits(r)
  /\ IF Live(call[r].actor) /\ ~Deletes(r, call[r].actor)
     THEN Goto(r, "commit")
     ELSE End(r)

-----------------------------------------------------------------------------
(***************************************************************************)
(* POST /auth/register.                                                    *)
(***************************************************************************)
BeginRegister(r) ==
  \E u \in User :
    /\ "register" \in Ops
    /\ role[u] = "none"
    /\ \A q \in Req : pc[q] # "idle" => call[q].target # u
    /\ Begin(r, [op |-> "register", actor |-> NoUser, target |-> u,
                 same |-> FALSE, new |-> "reviewer"], "email")

EmailTaken(e) == \E u \in User : Live(u) /\ EmailOf[u] = e

CheckEmail(r) ==
  /\ pc[r] = "email"
  /\ IF EmailTaken(EmailOf[call[r].target]) THEN End(r) ELSE Goto(r, "count")

\* Mutant of CountAdmins: the comparison is off by one.
CountAdminsOffByOne(r) ==
  /\ pc[r] = "count"
  /\ pc' = [pc EXCEPT ![r] = "insert"]
  /\ call' = [call EXCEPT ![r].new =
                IF Cardinality(CurrentAdmins) <= 1 THEN "admin" ELSE "reviewer"]
  /\ UNCHANGED <<role, wrote, overtaken>>

CountAdmins(r) ==
  /\ pc[r] = "count"
  /\ pc' = [pc EXCEPT ![r] = "insert"]
  /\ call' = [call EXCEPT ![r].new = IF CurrentAdmins = {} THEN "admin" ELSE "reviewer"]
  /\ UNCHANGED <<role, wrote, overtaken>>

\* Mutant of InsertUser: the table has no unique index on the email.
InsertWithoutIndex(r) ==
  /\ pc[r] = "insert"
  /\ pc' = [pc EXCEPT ![r] = "commit"]
  /\ wrote' = [wrote EXCEPT ![r] = TRUE]
  /\ UNCHANGED <<role, call, overtaken>>

\* The INSERT waits for what others write under the same email, and fails when it is
\* taken then.
InsertUser(r) ==
  /\ pc[r] = "insert"
  /\ ~Waits(r)
  /\ IF EmailTaken(EmailOf[call[r].target])
     THEN End(r)
     ELSE /\ pc' = [pc EXCEPT ![r] = "commit"]
          /\ wrote' = [wrote EXCEPT ![r] = TRUE]
          /\ UNCHANGED <<role, call, overtaken>>

-----------------------------------------------------------------------------
\* A demotion may take from a deletion the administrators it counted, and a new
\* administrator comes after a registration that counted none.
Overtakes(c, op) ==
  \/ op = "delete_user" /\ c.op = "toggle_role" /\ c.new # "admin"
  \/ op = "register" /\ c.op # "delete_user" /\ c.new = "admin"

Commit(r) ==
  /\ pc[r] = "commit"
  /\ LET c == call[r] IN
       /\ role' = IF ~wrote[r] THEN role
                  ELSE [role EXCEPT ![c.target] =
                          IF c.op = "delete_user" THEN "deleted" ELSE c.new]
       /\ overtaken' = [q \in Req |->
            /\ q # r
            /\ pc[q] # "idle"
            /\ \/ overtaken[q]
               \/ wrote[r] /\ Overtakes(c, call[q].op)]
  /\ pc' = [pc EXCEPT ![r] = "idle"]
  /\ call' = [call EXCEPT ![r] = NoCall]
  /\ wrote' = [wrote EXCEPT ![r] = FALSE]

\* The database or the connection fails and the transaction rolls back.
Rollback(r) ==
  /\ pc[r] # "idle"
  /\ End(r)

\* Requests that all wait for one another, none of them for nothing.
Cycle(S) == S # {} /\ \A r \in S : \E q \in S : WaitsFor(r, q)

\* Mutant of BreakDeadlock: lock waits are not timed and no cycle is detected.
DeadlockUndetected(r) == r \in {} /\ End(r)

\* Postgres finds the deadlock and aborts one transaction of the cycle.
BreakDeadlock(r) ==
  /\ \E S \in SUBSET Req :
       r \in S /\ Cycle(S) /\ \A T \in SUBSET S : Cycle(T) => T = S
  /\ End(r)

Step(r) ==
  \/ Authenticate(r)
  \/ Guard(r)
  \/ ReadTarget(r)
  \/ WriteTarget(r)
  \/ InsertAudit(r)
  \/ CheckEmail(r)
  \/ CountAdmins(r)
  \/ InsertUser(r)
  \/ Commit(r)
  \/ BreakDeadlock(r)

Next == \E r \in Req : BeginAdminCall(r) \/ BeginRegister(r) \/ Step(r) \/ Rollback(r)

Spec == Init /\ [][Next]_vars

(***************************************************************************)
(* Every handler runs on once it has the lock it waits for, and the        *)
(* database detects deadlocks.  Nothing makes clients call or connections  *)
(* fail, and nothing keeps a lock from being taken over and over by others *)
(* before a request that waits for it.                                     *)
(***************************************************************************)
FairSpec == Spec /\ \A r \in Req : WF_vars(Step(r))

-----------------------------------------------------------------------------
(***************************************************************************)
(* Properties.                                                             *)
(***************************************************************************)
\* "Single-admin demotion guard ... to prevent accidental removal of the last
\* administrative account" (DECISIONS.md:45-46): once there is an administrator, no
\* commit leaves the users table without one.
AdminRemains == [][CurrentAdmins # {} => CurrentAdmins' # {}]_role

\* Deletions alone never leave the users table without an administrator, whoever
\* deletes whom at the same time and however the ids are spelled: a role change must
\* have been committed while the deletion was in progress (user_service.py:107-122).
DeletesKeepAdmin ==
  [][\A r \in Req :
       Commit(r) /\ call[r].op = "delete_user" /\ CurrentAdmins # {} /\ CurrentAdmins' = {}
         => overtaken[r]]_vars

\* A request that changes an account is committed for a user whose own account is
\* there then and afterwards: nobody deletes themselves under another spelling of
\* their id, and who is deleted meanwhile changes nothing (user_service.py:107,124).
ActorSurvivesCommit ==
  [][\A r \in Req :
       Commit(r) /\ call[r].op # "register" =>
         Live(call[r].actor) /\ role'[call[r].actor] \in Role]_vars

\* "The first registrant is automatically promoted to admin" (auth.py:32): another
\* registration makes an administrator beside the first only if that one was made
\* while it was in progress, after both had counted none.
OnlyRacingFirsts ==
  [][\A r \in Req :
       Commit(r) /\ call[r].op = "register" /\ call[r].new = "admin" /\ CurrentAdmins # {}
         => overtaken[r]]_vars

\* Concurrent registrations of one email leave one account
\* (auth.py:33-41 checks before it hashes the password; the index decides).
EmailUnique ==
  \A u, v \in User : Live(u) /\ Live(v) /\ EmailOf[u] = EmailOf[v] => u = v

\* Once clients stop calling, every request in progress comes to its end: the lock
\* waits resolve, because the database breaks the cycles that administrators who
\* delete each other produce.
RequestsEnd ==
  <>[][\A r \in Req : pc[r] = "idle" => pc'[r] = "idle"]_pc
    => <>[](\A r \in Req : pc[r] = "idle")

-----------------------------------------------------------------------------
(***************************************************************************)
(* Why they hold: what a request in progress may rely on, whatever the     *)
(* others commit meanwhile.                                                *)
(***************************************************************************)
Path(op) ==
  IF op = "register" THEN {"email", "count", "insert", "commit"}
  ELSE {"auth", "guard", "read", "lock", "audit", "commit"}

\* A request takes the steps of its operation, is about accounts that are, or are not
\* yet, in the table, and has written before it commits a registration.
Paths ==
  \A r \in Req :
    /\ wrote[r] => pc[r] \in {"audit", "commit"}
    /\ pc[r] # "idle" =>
         /\ pc[r] \in Path(call[r].op)
         /\ (role[call[r].target] = "none") <=> (call[r].op = "register")
         /\ call[r].op # "register" => call[r].actor \in User /\ role[call[r].actor] # "none"
         /\ call[r].op = "register" /\ pc[r] = "commit" => wrote[r]

\* The row a request has written is its own until it ends: nobody else wrote it, and
\* it is there unless the request inserts it.  A new account has one registration.
RowsHeld ==
  \A r \in Req :
    /\ wrote[r] /\ call[r].op # "register" => Live(call[r].target)
    /\ \A q \in Req :
         /\ pc[r] # "idle" /\ pc[q] # "idle" /\ call[q].target = call[r].target
         /\ (wrote[r] /\ wrote[q]) \/ call[r].op = "register"
         => q = r

\* Once its audit entry is inserted, the actor of a request stays.
ActorsHeld ==
  \A r \in Req :
    pc[r] = "commit" /\ call[r].op # "register" =>
      Live(call[r].actor) /\ \A q \in Req : ~Deletes(q, call[r].actor)

\* An uncommitted account keeps its email from all others.
EmailsHeld ==
  \A r \in Req :
    pc[r] = "commit" /\ call[r].op = "register" =>
      /\ ~EmailTaken(EmailOf[call[r].target])
      /\ \A q \in Req : Inserts(q, EmailOf[call[r].target]) => q = r

\* Where a request's check of the administrators no longer holds, it was overtaken.
ChecksHold ==
  \A r \in Req :
    /\ /\ pc[r] \in {"insert", "commit"} /\ call[r].op = "register"
       /\ call[r].new = "admin" /\ CurrentAdmins # {}
       => overtaken[r]
    /\ /\ pc[r] \notin {"idle", "auth"} /\ call[r].op = "delete_user"
       /\ role[call[r].actor] \notin {"admin", "deleted"}
       => overtaken[r]

UserInv ==
  TypeOK /\ Paths /\ RowsHeld /\ ActorsHeld /\ EmailsHeld /\ EmailUnique /\ ChecksHold

=============================================================================
