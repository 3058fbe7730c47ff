----------------------------- MODULE Deployment -----------------------------
(***************************************************************************)
(* How the stack comes up: "docker compose up" runs one container that     *)
(* seeds Vault and beside it one that migrates the database, and starts    *)
(* the API and the worker, which check what they need and otherwise exit,  *)
(* after the ones they depend on.  An operator stops Vault, restarts       *)
(* containers and downgrades the database meanwhile, and a serving API     *)
(* fills the tables that the migrations change.                            *)
(***************************************************************************)
EXTENDS Naturals, FiniteSets

CONSTANTS
  Images,    \* the model files that images of the worker may hold
  Used,      \* the audited operations that clients call
  Releases,  \* the revisions that the database volume may have at the start
  MaxOps     \* bound: actions of the operator and failures in a behaviour

\* The revision of the last migration, 0004_document_name.
Head == 4

(***************************************************************************)
(* What startup_checks.py looks at.  The threshold is 0.50.                *)
(***************************************************************************)
ModelFiles ==
  [weights : BOOLEAN, card : {"missing", "malformed", "read"},
   sha256 : {"absent", "differs", "matches"}, test_top1 : {"absent", "below", "reached"}]

StartupChecks(m) ==
  /\ m.weights
  /\ m.card = "read"
  /\ m.sha256 = "matches"
  /\ m.test_top1 = "reached"

(***************************************************************************)
(* What each migration adds: to the policies of casbin_rule, to the check  *)
(* constraint of audit_log.action, and to the columns of predictions.      *)
(***************************************************************************)
InitialPolicies ==
  {"admin"} \X {"invite_user", "toggle_role", "read_audit", "read_batch",
                "relabel_prediction"}
    \cup {"reviewer"} \X {"read_batch", "relabel_prediction"}
    \cup {"auditor"} \X {"read_batch", "read_audit"}

InitialActions == {"role_change", "relabel", "batch_state"}

PredictionComments ==
  [policies |-> {"admin"} \X {"delete_user", "add_comment", "trigger_scan"}
                  \cup {"reviewer"} \X {"add_comment", "trigger_scan"},
   actions |-> {"add_comment", "delete_user"},
   columns |-> {"comment"}]

PredictionLatency == [policies |-> {}, actions |-> {}, columns |-> {"latency_ms"}]

DocumentName ==
  [policies |-> {"admin", "reviewer"} \X {"rename_document"},
   actions |-> {"rename_document"},
   columns |-> {"document_name"}]

Migrations ==
  <<[policies |-> InitialPolicies, actions |-> InitialActions, columns |-> {}],
    PredictionComments, PredictionLatency, DocumentName>>

\* What a migration seeds, and what the schema has at a revision.
Seeded(r) == Migrations[r].policies

Actions(r) == UNION {Migrations[i].actions : i \in 1 .. r}

Columns(r) == UNION {Migrations[i].columns : i \in 1 .. r}

\* The migrations whose downgrade brings a narrower check constraint back.
Narrowing == {r \in 2 .. Head : Migrations[r].actions # {}}

\* policy.csv, which the fakes and the tests load.
PolicyCsv ==
  {"admin"} \X {"invite_user", "toggle_role", "delete_user", "read_audit", "read_batch",
                "relabel_prediction", "add_comment", "trigger_scan", "rename_document"}
    \cup {"reviewer"} \X {"read_batch", "relabel_prediction", "add_comment",
                          "trigger_scan", "rename_document"}
    \cup {"auditor"} \X {"read_batch", "read_audit"}

\* The column an operation of the API fills, and the object its policy names.
Fills(a) ==
  CASE a = "add_comment" -> {"comment"}
    [] a = "rename_document" -> {"document_name"}
    [] OTHER -> {}

Object(a) ==
  CASE a = "role_change" -> "toggle_role"
    [] a = "relabel" -> "relabel_prediction"
    [] OTHER -> a

ApiActions == Actions(Head) \ {"batch_state"}

ASSUME DeploymentAssumption ==
  /\ Images \subseteq ModelFiles
  /\ Used \subseteq ApiActions
  /\ Releases \subseteq 0 .. Head
  /\ MaxOps \in Nat

VARIABLES
  vault,     \* whether Vault runs
  secrets,   \* the paths it holds
  starting,  \* the containers that "docker compose up" is yet to start
  vaultInit, \* the one-shot container that seeds Vault
  seeded,    \* how many paths it has put so far
  migrate,   \* the one-shot container that migrates the database
  revision,  \* alembic_version of the database, 0 for none
  casbin,    \* whether the table casbin_rule exists
  policies,  \* its rows
  audit,     \* the actions of the entries of audit_log
  filled,    \* the columns some row of predictions has a value in
  api,       \* the container of the API
  policy,    \* the policies its enforcer has loaded
  worker,    \* the container of the worker
  behind,    \* history: the database was downgraded since it was last at the head
  ops        \* actions of the operator and failures so far

vaultVars == <<vault, secrets>>
composeVars == <<starting, vaultInit, seeded, migrate>>
dbVars == <<revision, casbin, policies, audit, filled, behind>>
apiVars == <<api, policy>>
vars == <<vaultVars, composeVars, dbVars, apiVars, worker, ops>>

\* What vault-init.sh puts, in its order.
Path == <<"jwt", "postgres", "minio", "sftp">>
Paths == {Path[i] : i \in 1 .. 4}

\* The vault container stands for itself and for vault-init, which follows it.
Services == {"vault", "migrate", "api", "worker"}

OneShot == {"absent", "running", "done", "failed"}

TypeOK ==
  /\ vault \in BOOLEAN
  /\ secrets \in SUBSET Paths /\ (~vault => secrets = {})
  /\ starting \in SUBSET Services
  /\ vaultInit \in OneShot
  /\ seeded \in 0 .. 4 /\ (vaultInit # "running" => seeded = 0)
  /\ migrate \in OneShot
  /\ revision \in 0 .. Head
  /\ casbin \in BOOLEAN
  /\ policies \in SUBSET PolicyCsv
  /\ audit \in SUBSET Actions(revision)
  /\ filled \in SUBSET Columns(revision)
  /\ api \in {"absent", "vault", "casbin", "serving", "exited"}
  /\ policy \in SUBSET PolicyCsv
  /\ worker \in {"absent", "working", "exited"}
  /\ behind \in BOOLEAN
  /\ ops \in 0 .. MaxOps

\* The containers are gone or were never made; the volume of the database may hold
\* what an earlier release migrated.
Init ==
  /\ vault = FALSE
  /\ secrets = {}
  /\ starting = {}
  /\ vaultInit = "absent"
  /\ seeded = 0
  /\ migrate = "absent"
  /\ revision \in Releases
  /\ casbin = (revision > 0)
  /\ policies = UNION {Seeded(r) : r \in 1 .. revision}
  /\ audit = {}
  /\ filled = {}
  /\ api = "absent"
  /\ policy = {}
  /\ worker = "absent"
  /\ behind = FALSE
  /\ ops = 0

Operator ==
  /\ ops < MaxOps
  /\ ops' = ops + 1

-----------------------------------------------------------------------------
(***************************************************************************)
(* Migrations.  Alembic runs a whole upgrade or downgrade in one           *)
(* transaction: a statement that fails leaves nothing of it behind.        *)
(***************************************************************************)
\* 0001 creates casbin_rule, so it fails for ever where the table exists already.
Blocked == revision = 0 /\ casbin

\* Mutant of UpgradeHead: policies are seeded only where there are none.
UpgradeSeedsOnce ==
  /\ ~Blocked
  /\ revision' = Head
  /\ casbin' = TRUE
  /\ policies' = IF policies = {} THEN UNION {Seeded(r) : r \in 1 .. Head} ELSE policies
  /\ behind' = FALSE
  /\ UNCHANGED <<audit, filled>>

UpgradeHead ==
  /\ ~Blocked
  /\ revision' = Head
  /\ casbin' = TRUE
  /\ policies' = policies \cup UNION {Seeded(r) : r \in revision + 1 .. Head}
  /\ behind' = FALSE
  /\ UNCHANGED <<audit, filled>>

\* Postgres refuses a check constraint that a row of the table violates.
Refused(target) ==
  \E r \in Narrowing \cap (target + 1 .. revision) : ~(audit \subseteq Actions(r - 1))

\* The downgrade of 0001 drops every table.
DropTables ==
  /\ audit' = {}
  /\ casbin' = FALSE
  /\ policies' = {}

\* Mutant of DowngradeTo: each statement commits on its own, so the columns that a
\* downgrade drops first are gone when its constraint is refused.
DowngradeInParts(target) ==
  /\ target < revision
  /\ filled' = filled \cap Columns(target)
  /\ revision' = IF Refused(target) THEN revision ELSE target
  /\ behind' = TRUE
  /\ IF revision' = 0 THEN DropTables ELSE UNCHANGED <<audit, casbin, policies>>

\* Mutant of DowngradeTo: the narrower constraint is not checked against the rows.
DowngradeUnchecked(target) ==
  /\ target < revision
  /\ revision' = target
  /\ behind' = TRUE
  /\ filled' = filled \cap Columns(target)
  /\ IF target = 0 THEN DropTables ELSE UNCHANGED <<audit, casbin, policies>>

\* The policies that a later migration seeded stay when it is taken back.
DowngradeTo(target) ==
  /\ target < revision
  /\ ~Refused(target)
  /\ revision' = target
  /\ behind' = TRUE
  /\ filled' = filled \cap Columns(target)
  /\ IF target = 0 THEN DropTables ELSE UNCHANGED <<audit, casbin, policies>>

-----------------------------------------------------------------------------
(***************************************************************************)
(* docker compose up starts each container when the ones it depends on are *)
(* as depends_on asks: vault-init after Vault, migrate after the database, *)
(* the worker after vault-init, the API after both.  One-shot containers   *)
(* run again with every "up", and run on when "up" has given up.           *)
(***************************************************************************)
ComposeUp ==
  /\ starting = {}
  /\ starting' = Services
  /\ UNCHANGED <<vaultVars, vaultInit, seeded, migrate, dbVars, apiVars, worker, ops>>

\* A vault-init that an earlier "up" started and that still runs is left alone.
StartVaultInit ==
  /\ "vault" \in starting
  /\ starting' = starting \ {"vault"}
  /\ vault' = TRUE
  /\ vaultInit' = "running"
  /\ UNCHANGED <<secrets, seeded, migrate, dbVars, apiVars, worker, ops>>

PutSecret ==
  /\ seeded' = seeded + 1
  /\ secrets' = secrets \cup {Path[seeded + 1]}
  /\ UNCHANGED vaultInit

EndVaultInit(state) ==
  /\ vaultInit' = state
  /\ seeded' = 0
  /\ UNCHANGED secrets

\* Mutant of VaultInit: the script ends before it puts the DSN.
VaultInitShort ==
  /\ vaultInit = "running"
  /\ \/ seeded = 1 /\ EndVaultInit("done")
     \/ seeded < 1 /\ vault /\ PutSecret
     \/ seeded < 1 /\ ~vault /\ EndVaultInit("failed")
  /\ UNCHANGED <<vault, starting, migrate, dbVars, apiVars, worker, ops>>

\* vault-init.sh puts one path after the other and stops at the first that fails.  It
\* does not see that Vault was restarted, and lost what it held, between two of them.
VaultInit ==
  /\ vaultInit = "running"
  /\ \/ seeded = 4 /\ EndVaultInit("done")
     \/ seeded < 4 /\ vault /\ PutSecret
     \/ seeded < 4 /\ ~vault /\ EndVaultInit("failed")
  /\ UNCHANGED <<vault, starting, migrate, dbVars, apiVars, worker, ops>>

StartMigrate ==
  /\ "migrate" \in starting
  /\ starting' = starting \ {"migrate"}
  /\ migrate' = "running"
  /\ UNCHANGED <<vaultVars, vaultInit, seeded, dbVars, apiVars, worker, ops>>

\* alembic upgrade head, to the end or to the error of a migration.
Migrate ==
  /\ migrate = "running"
  /\ \/ UpgradeHead /\ migrate' = "done"
     \/ Blocked /\ migrate' = "failed" /\ UNCHANGED dbVars
  /\ UNCHANGED <<vaultVars, starting, vaultInit, seeded, apiVars, worker, ops>>

\* service_completed_successfully, of the container that this "up" has started.
Completed(service, state) == service \notin starting /\ state = "done"

Failed(service, state) == service \notin starting /\ state = "failed"

\* Mutant of StartApi: the API does not wait for the migrations.
StartApiBeforeSchema ==
  /\ "api" \in starting
  /\ Completed("vault", vaultInit)
  /\ starting' = starting \ {"api"}
  /\ api' = IF api \in {"absent", "exited"} THEN "vault" ELSE api
  /\ UNCHANGED <<vaultVars, vaultInit, seeded, migrate, dbVars, policy, worker, ops>>

\* A container of the API that runs is left alone.
StartApi ==
  /\ "api" \in starting
  /\ Completed("vault", vaultInit)
  /\ Completed("migrate", migrate)
  /\ starting' = starting \ {"api"}
  /\ api' = IF api \in {"absent", "exited"} THEN "vault" ELSE api
  /\ UNCHANGED <<vaultVars, vaultInit, seeded, migrate, dbVars, policy, worker, ops>>

\* The module of the worker: its startup checks, then the two secrets it reads.
BootWorker ==
  \E m \in Images :
    worker' = IF StartupChecks(m) /\ {"minio", "postgres"} \subseteq secrets
              THEN "working" ELSE "exited"

\* The worker waits for vault-init and not for the migrations.
StartWorker ==
  /\ "worker" \in starting
  /\ Completed("vault", vaultInit)
  /\ starting' = starting \ {"worker"}
  /\ IF worker = "working" THEN UNCHANGED worker ELSE BootWorker
  /\ UNCHANGED <<vaultVars, vaultInit, seeded, migrate, dbVars, apiVars, ops>>

\* "up" starts nothing more once a container failed that others wait for.
GiveUp ==
  /\ starting # {}
  /\ Failed("vault", vaultInit) \/ Failed("migrate", migrate)
  /\ starting' = {}
  /\ UNCHANGED <<vaultVars, vaultInit, seeded, migrate, dbVars, apiVars, worker, ops>>

ComposeStep == StartVaultInit \/ StartMigrate \/ StartApi \/ StartWorker \/ GiveUp

-----------------------------------------------------------------------------
(***************************************************************************)
(* The API.                                                                *)
(***************************************************************************)
\* get_jwt_signing_key and get_postgres_dsn; anything wrong with them ends the
\* process.  Without MinIO or its credentials the API goes on without previews.
BootVault ==
  /\ api = "vault"
  /\ api' = IF {"jwt", "postgres"} \subseteq secrets THEN "casbin" ELSE "exited"
  /\ UNCHANGED <<vaultVars, composeVars, dbVars, policy, worker, ops>>

\* The adapter creates its table where there is none, the enforcer loads the rows,
\* and an empty policy ends the process.
BootCasbin ==
  /\ api = "casbin"
  /\ casbin' = TRUE
  /\ policy' = policies
  /\ api' = IF policies = {} THEN "exited" ELSE "serving"
  /\ UNCHANGED <<vaultVars, composeVars, revision, policies, audit, filled, behind, worker,
                 ops>>

Permitted(a) == \E who \in {"admin", "reviewer", "auditor"} : <<who, Object(a)>> \in policy

\* Every statement on predictions names the columns of the head; an entry of
\* audit_log satisfies the constraint there is.
SchemaAllows(a) ==
  /\ a \in Actions(revision)
  /\ a \in {"role_change", "delete_user"} \/ revision = Head

\* Mutant of Act: the audit entry is not of the same transaction and is lost.
ActUnaudited(a) ==
  /\ api = "serving"
  /\ Permitted(a)
  /\ SchemaAllows(a)
  /\ filled' = filled \cup Fills(a)
  /\ UNCHANGED <<vaultVars, composeVars, revision, casbin, policies, audit, behind, apiVars,
                 worker, ops>>

\* An audited operation; where the schema refuses it, it rolls back.
Act(a) ==
  /\ api = "serving"
  /\ Permitted(a)
  /\ SchemaAllows(a)
  /\ audit' = audit \cup {a}
  /\ filled' = filled \cup Fills(a)
  /\ UNCHANGED <<vaultVars, composeVars, revision, casbin, policies, behind, apiVars, worker,
                 ops>>

\* The worker records a prediction; on an older schema its job fails.
Record ==
  /\ worker = "working"
  /\ revision = Head
  /\ audit' = audit \cup {"batch_state"}
  /\ filled' = filled \cup {"latency_ms"}
  /\ UNCHANGED <<vaultVars, composeVars, revision, casbin, policies, behind, apiVars, worker,
                 ops>>

-----------------------------------------------------------------------------
(***************************************************************************)
(* The operator, and failures.                                             *)
(***************************************************************************)
\* "server -dev" keeps its secrets in memory.
StopVault ==
  /\ vault
  /\ Operator
  /\ vault' = FALSE
  /\ secrets' = {}
  /\ UNCHANGED <<composeVars, dbVars, apiVars, worker>>

StartVault ==
  /\ ~vault
  /\ Operator
  /\ vault' = TRUE
  /\ UNCHANGED <<secrets, composeVars, dbVars, apiVars, worker>>

\* docker compose restart api: a container there is, and nothing it depends on.
RestartApi ==
  /\ api # "absent"
  /\ Operator
  /\ api' = "vault"
  /\ UNCHANGED <<vaultVars, composeVars, dbVars, policy, worker>>

RestartWorker ==
  /\ worker # "absent"
  /\ Operator
  /\ BootWorker
  /\ UNCHANGED <<vaultVars, composeVars, dbVars, apiVars>>

\* The API is killed, or the database does not answer while it boots.
ApiDies ==
  /\ api \in {"vault", "casbin", "serving"}
  /\ Operator
  /\ api' = "exited"
  /\ UNCHANGED <<vaultVars, composeVars, dbVars, policy, worker>>

UpgradeByHand ==
  /\ Operator
  /\ UpgradeHead
  /\ UNCHANGED <<vaultVars, composeVars, apiVars, worker>>

Downgrade ==
  /\ Operator
  /\ \E target \in 0 .. Head : DowngradeTo(target)
  /\ UNCHANGED <<vaultVars, composeVars, apiVars, worker>>

Next ==
  \/ ComposeUp
  \/ ComposeStep
  \/ VaultInit
  \/ Migrate
  \/ BootVault
  \/ BootCasbin
  \/ \E a \in Used : Act(a)
  \/ Record
  \/ StopVault
  \/ StartVault
  \/ RestartApi
  \/ RestartWorker
  \/ ApiDies
  \/ UpgradeByHand
  \/ Downgrade

Spec == Init /\ [][Next]_vars

\* Compose and the containers it started go on with what they began.
FairSpec ==
  /\ Spec
  /\ WF_vars(ComposeStep)
  /\ WF_vars(VaultInit)
  /\ WF_vars(Migrate)
  /\ WF_vars(BootVault)
  /\ WF_vars(BootCasbin)

-----------------------------------------------------------------------------
(***************************************************************************)
(* Properties.                                                             *)
(***************************************************************************)
\* "Seed Casbin RBAC policies (mirrors policy.csv)" (0001_initial.py:177): the
\* migrations together give a database at the head the policies of the file that the
\* tests run with, from whatever release and after whatever downgrades.
PolicyMirrorsCsv == revision = Head => policies = PolicyCsv

\* A serving API, whose statements name the columns of the head, finds a database at
\* the head unless an operator downgraded it: starting and restarting it in any order
\* with vault-init and migrate never puts it before an older schema.
ServesHead == api = "serving" => revision = Head \/ behind

\* No downgrade drops a comment or a document name that somebody gave: its audit
\* entry makes the narrower constraint of the same transaction fail.
GivenOutlivesDowngrade ==
  [][\A c \in {"comment", "document_name"} : c \in filled => c \in filled']_filled

\* Whatever was stopped, restarted or downgraded before, the next "docker compose up"
\* brings the API up, unless an operator took back every migration and started the API
\* before the next one: then casbin_rule is there and 0001 cannot create it.
UpServes ==
  (starting = Services /\ ops = MaxOps) ~> api = "serving" \/ (Blocked /\ behind)

-----------------------------------------------------------------------------
(***************************************************************************)
(* Why they hold.                                                          *)
(***************************************************************************)
\* The policies of every migration that was run are there.
PoliciesSeeded == \A r \in 1 .. revision : Seeded(r) \subseteq policies

\* A migration that was done, and any API that compose made, had the head.
StartsAtHead == migrate = "done" \/ api # "absent" => revision = Head \/ behind

\* Whoever gave a comment or a name left an audit entry, which no downgrade removed
\* while the column is there.
GivenAudited ==
  /\ "comment" \in filled => "add_comment" \in audit
  /\ "document_name" \in filled => "rename_document" \in audit

DeploymentInv == TypeOK /\ PoliciesSeeded /\ StartsAtHead /\ GivenAudited

=============================================================================
