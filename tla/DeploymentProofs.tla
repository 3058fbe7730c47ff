-------------------------- MODULE DeploymentProofs --------------------------
(***************************************************************************)
(* Proofs about migrations and boots: what the database holds at the head, *)
(* when an API serves, and what a downgrade cannot take away.              *)
(***************************************************************************)
EXTENDS Deployment, TLAPS

-----------------------------------------------------------------------------
(***************************************************************************)
(* What the migrations add.                                                *)
(***************************************************************************)
\* The policies each migration inserts, one part of policy.csv each.
LEMMA SeededBy ==
  /\ Seeded(1) = {"admin"} \X {"invite_user", "toggle_role", "read_audit", "read_batch",
                               "relabel_prediction"}
                   \cup {"reviewer"} \X {"read_batch", "relabel_prediction"}
                   \cup {"auditor"} \X {"read_batch", "read_audit"}
  /\ Seeded(2) = {"admin"} \X {"delete_user", "add_comment", "trigger_scan"}
                   \cup {"reviewer"} \X {"add_comment", "trigger_scan"}
  /\ Seeded(3) = {}
  /\ Seeded(4) = {"admin", "reviewer"} \X {"rename_document"}
<1>1. /\ Migrations[1] =
           [policies |-> InitialPolicies, actions |-> InitialActions, columns |-> {}]
      /\ Migrations[2] = PredictionComments
      /\ Migrations[3] = PredictionLatency
      /\ Migrations[4] = DocumentName
  BY DEF Migrations
<1>2. Seeded(1) = InitialPolicies
  BY <1>1 DEF Seeded
<1>3. Seeded(2) = PredictionComments.policies
  BY <1>1 DEF Seeded
<1>4. Seeded(3) = PredictionLatency.policies
  BY <1>1 DEF Seeded
<1>5. Seeded(4) = DocumentName.policies
  BY <1>1 DEF Seeded
<1> QED
  BY <1>2, <1>3, <1>4, <1>5
     DEF InitialPolicies, PredictionComments, PredictionLatency, DocumentName

\* Together the migrations seed policy.csv.
LEMMA SeedsPolicyCsv ==
  /\ \A r \in 1 .. 4 : Seeded(r) \subseteq PolicyCsv
  /\ PolicyCsv \subseteq Seeded(1) \cup Seeded(2) \cup Seeded(3) \cup Seeded(4)
<1>1. Seeded(1) \subseteq PolicyCsv
  BY SeededBy DEF PolicyCsv
<1>2. Seeded(2) \subseteq PolicyCsv
  BY SeededBy DEF PolicyCsv
<1>3. Seeded(3) \subseteq PolicyCsv
  BY SeededBy
<1>4. Seeded(4) \subseteq PolicyCsv
  BY SeededBy DEF PolicyCsv
<1>5. PolicyCsv \subseteq Seeded(1) \cup Seeded(2) \cup Seeded(3) \cup Seeded(4)
  BY SeededBy DEF PolicyCsv
<1> QED
  BY <1>1, <1>2, <1>3, <1>4, <1>5

\* Running the migrations from wherever the database is completes its policies.
LEMMA UpgradeSeeds ==
  ASSUME DeploymentInv, UpgradeHead
  PROVE  /\ policies' = PolicyCsv
         /\ \A r \in 1 .. 4 : Seeded(r) \subseteq policies'
<1>1. revision \in 0 .. 4 /\ policies \subseteq PolicyCsv
  BY DEF DeploymentInv, TypeOK, Head
<1>2. policies' = policies \cup UNION {Seeded(r) : r \in revision + 1 .. 4}
  BY DEF UpgradeHead, Head
<1>3. ASSUME NEW r \in 1 .. 4
      PROVE  Seeded(r) \subseteq policies'
  <2>1. r \in 1 .. revision \/ r \in revision + 1 .. 4
    BY <1>1
  <2> QED
    BY <1>2, <2>1 DEF DeploymentInv, PoliciesSeeded
<1>4. \A r \in revision + 1 .. 4 : r \in 1 .. 4
  BY <1>1
<1>5. policies' \subseteq PolicyCsv
  BY <1>1, <1>2, <1>4, SeedsPolicyCsv
<1>6. 1 \in 1 .. 4 /\ 2 \in 1 .. 4 /\ 3 \in 1 .. 4 /\ 4 \in 1 .. 4
  OBVIOUS
<1> QED
  BY <1>3, <1>5, <1>6, SeedsPolicyCsv

\* What each migration adds to the constraint of audit_log and to predictions.
LEMMA MigrationAdds ==
  /\ Migrations[1].actions = {"role_change", "relabel", "batch_state"}
  /\ Migrations[2].actions = {"add_comment", "delete_user"}
  /\ Migrations[3].actions = {}
  /\ Migrations[4].actions = {"rename_document"}
  /\ Migrations[1].columns = {}
  /\ Migrations[2].columns = {"comment"}
  /\ Migrations[3].columns = {"latency_ms"}
  /\ Migrations[4].columns = {"document_name"}
  BY DEF Migrations, InitialActions, PredictionComments, PredictionLatency, DocumentName

\* The actions that the constraint of a revision allows.
LEMMA ActionsAt ==
  ASSUME NEW r \in 0 .. 4
  PROVE  \A a : a \in Actions(r) <=>
           \/ r >= 1 /\ a \in {"role_change", "relabel", "batch_state"}
           \/ r >= 2 /\ a \in {"add_comment", "delete_user"}
           \/ r >= 4 /\ a = "rename_document"
<1>1. \A a : a \in Actions(r) <=> \E i \in 1 .. r : a \in Migrations[i].actions
  BY DEF Actions
<1>2. \A i \in 1 .. r : i = 1 \/ i = 2 \/ i = 3 \/ i = 4
  OBVIOUS
<1>3. /\ r >= 1 => 1 \in 1 .. r
      /\ r >= 2 => 2 \in 1 .. r
      /\ r >= 4 => 4 \in 1 .. r
  OBVIOUS
<1> QED
  BY <1>1, <1>2, <1>3, MigrationAdds

\* The columns that a revision has.
LEMMA ColumnsAt ==
  ASSUME NEW r \in 0 .. 4
  PROVE  /\ Columns(r) \subseteq {"comment", "latency_ms", "document_name"}
         /\ "comment" \in Columns(r) <=> r >= 2
         /\ "latency_ms" \in Columns(r) <=> r >= 3
         /\ "document_name" \in Columns(r) <=> r >= 4
<1>1. \A c : c \in Columns(r) <=> \E i \in 1 .. r : c \in Migrations[i].columns
  BY DEF Columns
<1>2. \A i \in 1 .. r : i = 1 \/ i = 2 \/ i = 3 \/ i = 4
  OBVIOUS
<1>3. /\ r >= 2 => 2 \in 1 .. r
      /\ r >= 3 => 3 \in 1 .. r
      /\ r >= 4 => 4 \in 1 .. r
  OBVIOUS
<1> QED
  BY <1>1, <1>2, <1>3, MigrationAdds

\* The downgrades of 0002 and 0004 bring a narrower constraint back.
LEMMA NarrowingAre == Narrowing = {2, 4}
  BY MigrationAdds DEF Narrowing, Head

\* The constraints and columns grow with the revision.
LEMMA SchemaGrows ==
  ASSUME NEW r \in 0 .. 4, NEW t \in 0 .. 4, r <= t
  PROVE  Actions(r) \subseteq Actions(t) /\ Columns(r) \subseteq Columns(t)
  BY DEF Actions, Columns

\* A downgrade that is not refused leaves no entry the constraint it brings back forbids.
LEMMA DowngradeAllowed ==
  ASSUME NEW target \in 0 .. 4, DeploymentInv, DowngradeTo(target)
  PROVE  audit' \subseteq Actions(target)
<1>1. revision \in 0 .. 4 /\ audit \subseteq Actions(revision) /\ target < revision
  BY DEF DeploymentInv, TypeOK, Head, DowngradeTo
<1>2. ASSUME NEW r \in {2, 4}, target + 1 <= r, r <= revision
      PROVE  audit \subseteq Actions(r - 1)
  <2>1. r \in Narrowing \cap (target + 1 .. revision)
    BY <1>1, <1>2, NarrowingAre
  <2> QED
    BY <2>1 DEF DowngradeTo, Refused
<1>3. CASE target = 0
  BY <1>3 DEF DowngradeTo, DropTables
<1>4. CASE target # 0
  <2>1. audit' = audit
    BY <1>4 DEF DowngradeTo
  <2>2. CASE target = 1
    BY <1>1, <1>2, <2>1, <2>2
  <2>3. CASE target \in 2 .. 3
    <3>1. revision = 3 \/ revision = 4
      BY <1>1, <2>3
    <3>2. audit \subseteq Actions(3)
      BY <1>1, <1>2, <2>3, <3>1
    <3>3. Actions(3) \subseteq Actions(target)
      BY <2>3, ActionsAt
    <3> QED
      BY <2>1, <3>2, <3>3
  <2> QED
    BY <1>1, <1>4, <2>2, <2>3
<1> QED
  BY <1>3, <1>4

-----------------------------------------------------------------------------
\* The volume of an earlier release holds what its migrations seeded.
LEMMA InitDeploymentInv == Init => DeploymentInv
<1> SUFFICES ASSUME Init PROVE DeploymentInv
  OBVIOUS
<1>1. revision \in 0 .. 4 /\ policies = UNION {Seeded(r) : r \in 1 .. revision}
  BY DeploymentAssumption DEF Init, Head
<1>2. \A r \in 1 .. revision : r \in 1 .. 4
  BY <1>1
<1>3. policies \subseteq PolicyCsv
  BY <1>1, <1>2, SeedsPolicyCsv
<1>4. TypeOK
  <2>1. casbin \in BOOLEAN /\ vault \in BOOLEAN /\ behind \in BOOLEAN
    <3>1. casbin = (revision > 0) /\ vault = FALSE /\ behind = FALSE
      BY DEF Init
    <3>2. casbin \in BOOLEAN
      BY <3>1
    <3>3. vault \in BOOLEAN
      BY <3>1
    <3>4. behind \in BOOLEAN
      BY <3>1
    <3> QED
      BY <3>2, <3>3, <3>4
  <2>2. ops \in 0 .. MaxOps /\ secrets = {} /\ revision \in 0 .. Head
    BY <1>1, DeploymentAssumption DEF Init, Head
  <2> QED
    BY <1>3, <2>1, <2>2 DEF Init, TypeOK, OneShot
<1>5. PoliciesSeeded
  BY <1>1 DEF PoliciesSeeded
<1> QED
  BY <1>4, <1>5 DEF Init, DeploymentInv, StartsAtHead, GivenAudited

\* Steps of compose and of the processes that leave the database as it is.
LEMMA OutsideDatabase ==
  ASSUME DeploymentInv, TypeOK', UNCHANGED dbVars,
         migrate' = "done" \/ api' # "absent" => migrate = "done" \/ api # "absent"
  PROVE  DeploymentInv'
  BY DEF DeploymentInv, dbVars, PoliciesSeeded, StartsAtHead, GivenAudited

\* A worker that boots works or has exited.
LEMMA WorkerBoots == BootWorker => worker' \in {"working", "exited"}
  BY DEF BootWorker

\* An upgrade to the head runs every migration that is missing, from whatever revision.
LEMMA UpgradeKeeps ==
  ASSUME DeploymentInv, UpgradeHead,
         UNCHANGED <<vaultVars, starting, vaultInit, seeded, apiVars, worker>>,
         migrate' \in {migrate, "done"}, ops' \in 0 .. MaxOps
  PROVE  DeploymentInv'
<1>1. revision' = 4 /\ casbin' = TRUE /\ behind' = FALSE /\ UNCHANGED <<audit, filled>>
  BY DEF UpgradeHead, Head
<1>2. /\ revision \in 0 .. 4 /\ audit \subseteq Actions(revision)
      /\ filled \subseteq Columns(revision)
  BY DEF DeploymentInv, TypeOK, Head
<1>3. audit' \subseteq Actions(4) /\ filled' \subseteq Columns(4)
  BY <1>1, <1>2, SchemaGrows
<1>4. policies' \subseteq PolicyCsv
  BY UpgradeSeeds
<1>5. TypeOK'
  <2>1. casbin' \in BOOLEAN /\ behind' \in BOOLEAN
    BY <1>1, Zenon
  <2>2. /\ revision' \in 0 .. Head /\ revision' = 4
        /\ UNCHANGED <<vault, secrets, starting, vaultInit, seeded, api, policy, worker>>
    BY <1>1 DEF Head, apiVars, vaultVars
  <2> QED
    BY <1>3, <1>4, <2>1, <2>2 DEF DeploymentInv, TypeOK, OneShot
<1>6. PoliciesSeeded'
  BY <1>1, UpgradeSeeds DEF PoliciesSeeded
<1> QED
  BY <1>1, <1>5, <1>6 DEF DeploymentInv, StartsAtHead, GivenAudited, Head

\* A downgrade takes back whole migrations, and policies only with their table; it
\* fails where an audit entry stands against it, and then changes nothing.
LEMMA DowngradeKeeps ==
  ASSUME DeploymentInv, Downgrade
  PROVE  DeploymentInv'
<1>1. PICK target \in 0 .. 4 : DowngradeTo(target)
  BY DEF Downgrade, Head
<1>2. /\ target < revision /\ revision \in 0 .. 4 /\ revision' = target /\ behind' = TRUE
      /\ filled' = filled \cap Columns(target)
      /\ IF target = 0 THEN DropTables ELSE UNCHANGED <<audit, casbin, policies>>
  BY <1>1 DEF DowngradeTo, DeploymentInv, TypeOK, Head
<1>3. audit' \subseteq Actions(target)
  BY <1>1, DowngradeAllowed
<1>4. ops' \in 0 .. MaxOps /\ UNCHANGED <<vaultVars, composeVars, apiVars, worker>>
  BY DeploymentAssumption DEF Downgrade, Operator, DeploymentInv, TypeOK
<1>5. TypeOK'
  BY <1>2, <1>3, <1>4
     DEF DropTables, DeploymentInv, TypeOK, Head, vaultVars, composeVars, apiVars
<1>6. PoliciesSeeded'
  BY <1>2 DEF DropTables, DeploymentInv, PoliciesSeeded
<1>7. GivenAudited'
  <2>1. "comment" \notin Columns(0) /\ "document_name" \notin Columns(0)
    BY ColumnsAt
  <2> QED
    BY <1>2, <2>1 DEF DeploymentInv, GivenAudited
<1> QED
  BY <1>2, <1>5, <1>6, <1>7 DEF DeploymentInv, StartsAtHead

\* What the API fills, the schema has a column for, and it says so in the audit log.
LEMMA ActKeeps ==
  ASSUME DeploymentInv, NEW a \in Used, Act(a)
  PROVE  DeploymentInv'
<1>1. a \in ApiActions /\ a \in Actions(revision)
  BY DeploymentAssumption DEF Act, SchemaAllows
<1>2. Fills(a) \subseteq Columns(revision)
  <2>1. CASE a = "add_comment" \/ a = "rename_document"
    <3>1. revision = 4
      BY <2>1 DEF Act, SchemaAllows, Head
    <3>2. "comment" \in Columns(revision) /\ "document_name" \in Columns(revision)
      BY <3>1, ColumnsAt
    <3>3. Fills(a) \subseteq {"comment", "document_name"}
      BY DEF Fills
    <3> QED
      BY <3>2, <3>3
  <2>2. CASE a # "add_comment" /\ a # "rename_document"
    BY <2>2 DEF Fills
  <2> QED
    BY <2>1, <2>2
<1>3. TypeOK'
  BY <1>1, <1>2 DEF Act, DeploymentInv, TypeOK, vaultVars, composeVars, apiVars
<1>4. /\ "comment" \in Fills(a) => a = "add_comment"
      /\ "document_name" \in Fills(a) => a = "rename_document"
  BY DEF Fills
<1>5. GivenAudited'
  BY <1>4 DEF Act, DeploymentInv, GivenAudited
<1> QED
  BY <1>3, <1>5 DEF Act, DeploymentInv, PoliciesSeeded, StartsAtHead, vaultVars, apiVars

\* The worker's prediction leaves an audit entry and a latency, no comment and no name.
LEMMA RecordKeeps ==
  ASSUME DeploymentInv, Record
  PROVE  DeploymentInv'
<1>1. "batch_state" \in Actions(4) /\ "latency_ms" \in Columns(4)
  BY ActionsAt, ColumnsAt
<1>2. TypeOK'
  BY <1>1 DEF Record, DeploymentInv, TypeOK, Head, vaultVars, composeVars, apiVars
<1> QED
  BY <1>2 DEF Record, DeploymentInv, PoliciesSeeded, StartsAtHead, GivenAudited,
              vaultVars, apiVars

\* The enforcer's adapter changes nothing but the existence of its table.
LEMMA BootCasbinKeeps ==
  ASSUME DeploymentInv, BootCasbin
  PROVE  DeploymentInv'
<1>1. TypeOK'
  BY DEF BootCasbin, DeploymentInv, TypeOK, vaultVars, composeVars
<1> QED
  BY <1>1 DEF BootCasbin, DeploymentInv, PoliciesSeeded, StartsAtHead, GivenAudited

\* Every container, boot, migration and operator keeps the invariant.
LEMMA NextDeploymentInv == DeploymentInv /\ [Next]_vars => DeploymentInv'
<1> SUFFICES ASSUME DeploymentInv, [Next]_vars PROVE DeploymentInv'
  OBVIOUS
<1> USE DeploymentAssumption
<1>1. CASE UNCHANGED vars
  <2>1. TypeOK'
    BY <1>1 DEF vars, vaultVars, composeVars, dbVars, apiVars, DeploymentInv, TypeOK
  <2> QED
    BY <1>1, <2>1, OutsideDatabase DEF vars, composeVars, apiVars
<1>2. CASE ComposeUp
  <2>1. TypeOK'
    BY <1>2 DEF ComposeUp, vaultVars, dbVars, apiVars, DeploymentInv, TypeOK
  <2> QED
    BY <1>2, <2>1, OutsideDatabase DEF ComposeUp, apiVars
<1>3. CASE StartVaultInit
  <2>1. TypeOK'
    BY <1>3 DEF StartVaultInit, dbVars, apiVars, DeploymentInv, TypeOK, OneShot
  <2> QED
    BY <1>3, <2>1, OutsideDatabase DEF StartVaultInit, apiVars
<1>4. CASE VaultInit
  <2>1. /\ secrets' \in SUBSET Paths /\ (~vault => secrets' = {})
        /\ vaultInit' \in OneShot
        /\ seeded' \in 0 .. 4 /\ (vaultInit' # "running" => seeded' = 0)
    <3>1. CASE ~vault \/ ~(seeded < 4)
      BY <1>4, <3>1 DEF VaultInit, EndVaultInit, DeploymentInv, TypeOK, OneShot
    <3>2. CASE vault /\ seeded < 4
      <4>1. seeded + 1 \in 1 .. 4
        BY <3>2 DEF DeploymentInv, TypeOK
      <4>2. Path[seeded + 1] \in Paths
        BY <4>1 DEF Paths
      <4> QED
        BY <1>4, <3>2, <4>1, <4>2 DEF VaultInit, PutSecret, DeploymentInv, TypeOK, OneShot
    <3> QED
      BY <3>1, <3>2
  <2>2. UNCHANGED <<vault, starting, migrate, dbVars, apiVars, worker, ops>>
    BY <1>4 DEF VaultInit
  <2>3. TypeOK'
    BY <2>1, <2>2 DEF dbVars, apiVars, DeploymentInv, TypeOK
  <2> QED
    BY <2>2, <2>3, OutsideDatabase DEF apiVars
<1>5. CASE Migrate
  <2>1. CASE UpgradeHead /\ migrate' = "done"
    BY <1>5, <2>1, UpgradeKeeps DEF Migrate, DeploymentInv, TypeOK
  <2>2. CASE UNCHANGED dbVars /\ migrate' = "failed"
    <3>1. TypeOK'
      BY <1>5, <2>2 DEF Migrate, vaultVars, dbVars, apiVars, DeploymentInv, TypeOK, OneShot
    <3> QED
      BY <1>5, <2>2, <3>1, OutsideDatabase DEF Migrate, apiVars
  <2> QED
    BY <1>5, <2>1, <2>2 DEF Migrate
<1>6. CASE StartApi
  <2>1. TypeOK'
    BY <1>6 DEF StartApi, vaultVars, dbVars, DeploymentInv, TypeOK
  <2> QED
    BY <1>6, <2>1, OutsideDatabase DEF StartApi, Completed
<1>7. CASE StartWorker
  <2>1. TypeOK'
    BY <1>7, WorkerBoots DEF StartWorker, vaultVars, dbVars, apiVars, DeploymentInv, TypeOK
  <2> QED
    BY <1>7, <2>1, OutsideDatabase DEF StartWorker, apiVars
<1>13. CASE StartMigrate
  <2>1. TypeOK'
    BY <1>13 DEF StartMigrate, vaultVars, dbVars, apiVars, DeploymentInv, TypeOK, OneShot
  <2> QED
    BY <1>13, <2>1, OutsideDatabase DEF StartMigrate, apiVars
<1>14. CASE GiveUp
  <2>1. TypeOK'
    BY <1>14 DEF GiveUp, vaultVars, dbVars, apiVars, DeploymentInv, TypeOK
  <2> QED
    BY <1>14, <2>1, OutsideDatabase DEF GiveUp, apiVars
<1>8. CASE BootVault
  <2>1. TypeOK'
    BY <1>8 DEF BootVault, vaultVars, composeVars, dbVars, DeploymentInv, TypeOK
  <2> QED
    BY <1>8, <2>1, OutsideDatabase DEF BootVault, composeVars
<1>9. CASE StopVault \/ StartVault
  <2>1. TypeOK'
    <3>1. vault' \in BOOLEAN /\ (~vault' => secrets' = {}) /\ secrets' \in SUBSET Paths
      <4>1. (vault' = FALSE /\ secrets' = {}) \/ (vault' = TRUE /\ secrets' = secrets)
        BY <1>9 DEF StopVault, StartVault
      <4>2. secrets \in SUBSET Paths
        BY DEF DeploymentInv, TypeOK
      <4>3. CASE vault' = FALSE /\ secrets' = {}
        BY <4>3
      <4>4. CASE vault' = TRUE /\ secrets' = secrets
        BY <4>2, <4>4
      <4> QED
        BY <4>1, <4>3, <4>4
    <3>2. ops' \in 0 .. MaxOps /\ UNCHANGED <<composeVars, dbVars, apiVars, worker>>
      BY <1>9 DEF StopVault, StartVault, Operator, DeploymentInv, TypeOK
    <3> QED
      BY <3>1, <3>2 DEF composeVars, dbVars, apiVars, DeploymentInv, TypeOK
  <2> QED
    BY <1>9, <2>1, OutsideDatabase DEF StopVault, StartVault, composeVars, apiVars
<1>10. CASE RestartApi \/ ApiDies
  <2>1. TypeOK'
    BY <1>10 DEF RestartApi, ApiDies, Operator, vaultVars, composeVars, dbVars,
               DeploymentInv, TypeOK
  <2> QED
    BY <1>10, <2>1, OutsideDatabase DEF RestartApi, ApiDies, composeVars
<1>11. CASE RestartWorker
  <2>1. TypeOK'
    BY <1>11, WorkerBoots DEF RestartWorker, Operator, vaultVars, composeVars, dbVars, apiVars,
                              DeploymentInv, TypeOK
  <2> QED
    BY <1>11, <2>1, OutsideDatabase DEF RestartWorker, composeVars, apiVars
<1>12. CASE UpgradeByHand
  BY <1>12, UpgradeKeeps DEF UpgradeByHand, Operator, composeVars, DeploymentInv, TypeOK
<1> QED
  BY <1>1, <1>2, <1>3, <1>4, <1>5, <1>6, <1>7, <1>8, <1>9, <1>10, <1>11, <1>12, <1>13, <1>14,
     BootCasbinKeeps, ActKeeps, RecordKeeps, DowngradeKeeps DEF Next, ComposeStep

\* The inductive invariant holds throughout.
THEOREM DeploymentInvariant == Spec => []DeploymentInv
  BY InitDeploymentInv, NextDeploymentInv, PTL DEF Spec

-----------------------------------------------------------------------------
\* The deployment stays within its types; in particular no entry of the audit log
\* violates the check constraint of the revision the database is at.
THEOREM DeploymentTypeCorrect == Spec => []TypeOK
<1>1. DeploymentInv => TypeOK
  BY DEF DeploymentInv
<1> QED
  BY <1>1, DeploymentInvariant, PTL

\* From whatever release, and after any number of upgrades, downgrades and restarts, a
\* database at the head has the policies of policy.csv.
THEOREM MigrationsMirrorCsv == Spec => []PolicyMirrorsCsv
<1>1. DeploymentInv => PolicyMirrorsCsv
  <2> SUFFICES ASSUME DeploymentInv, revision = 4 PROVE policies = PolicyCsv
    BY DEF PolicyMirrorsCsv, Head
  <2>1. \A r \in 1 .. 4 : Seeded(r) \subseteq policies
    BY DEF DeploymentInv, PoliciesSeeded
  <2>2. 1 \in 1 .. 4 /\ 2 \in 1 .. 4 /\ 3 \in 1 .. 4 /\ 4 \in 1 .. 4
    OBVIOUS
  <2>3. policies \subseteq PolicyCsv
    BY DEF DeploymentInv, TypeOK
  <2> QED
    BY <2>1, <2>2, <2>3, SeedsPolicyCsv
<1> QED
  BY <1>1, DeploymentInvariant, PTL

\* However vault-init, the migrations and restarts interleave, an API serves before the
\* schema its statements name, unless the database was downgraded.
THEOREM ApiServesHead == Spec => []ServesHead
<1>1. DeploymentInv => ServesHead
  BY DEF DeploymentInv, StartsAtHead, ServesHead
<1> QED
  BY <1>1, DeploymentInvariant, PTL

\* No downgrade, and no other step, drops a comment or a name that somebody gave.
THEOREM CommentsOutliveDowngrades == Spec => GivenOutlivesDowngrade
<1>1. DeploymentInv /\ [Next]_vars =>
        [\A c \in {"comment", "document_name"} : c \in filled => c \in filled']_filled
  <2> SUFFICES ASSUME DeploymentInv, [Next]_vars,
                      NEW c \in {"comment", "document_name"}, c \in filled
               PROVE  c \in filled'
    OBVIOUS
  <2>1. CASE filled \subseteq filled'
    BY <2>1
  <2>2. CASE Downgrade
    <3>1. PICK target \in 0 .. 4 : DowngradeTo(target)
      BY <2>2 DEF Downgrade, Head
    <3>2. /\ target < revision /\ revision \in 0 .. 4 /\ filled' = filled \cap Columns(target)
          /\ c \in Columns(revision) /\ ~Refused(target)
      BY <3>1 DEF DowngradeTo, DeploymentInv, TypeOK, Head
    <3>3. CASE c = "comment"
      <4>1. revision >= 2
        BY <3>2, <3>3, ColumnsAt
      <4>2. "add_comment" \in audit /\ "add_comment" \notin Actions(1)
        BY <3>3, ActionsAt DEF DeploymentInv, GivenAudited
      <4>3. target >= 2
        <5>1. target + 1 <= 2 => 2 \in Narrowing \cap (target + 1 .. revision)
          BY <3>2, <4>1, NarrowingAre
        <5>2. 2 - 1 = 1
          OBVIOUS
        <5>3. ~(target + 1 <= 2)
          BY <3>2, <4>2, <5>1, <5>2 DEF Refused
        <5> QED
          BY <5>3
      <4> QED
        BY <3>2, <3>3, <4>3, ColumnsAt
    <3>4. CASE c = "document_name"
      <4>1. revision = 4
        BY <3>2, <3>4, ColumnsAt
      <4>2. "rename_document" \in audit /\ "rename_document" \notin Actions(3)
        BY <3>4, ActionsAt DEF DeploymentInv, GivenAudited
      <4>3. 4 \in Narrowing \cap (target + 1 .. revision) /\ 4 - 1 = 3
        BY <3>2, <4>1, NarrowingAre
      <4> QED
        BY <3>2, <4>2, <4>3 DEF Refused
    <3> QED
      BY <3>3, <3>4
  <2>3. Next => filled \subseteq filled' \/ Downgrade
    BY DEF Next, ComposeUp, ComposeStep, StartVaultInit, StartMigrate, StartApi,
           StartWorker, GiveUp, VaultInit, Migrate, BootVault, BootCasbin, Act, Record,
           StopVault, StartVault, RestartApi, RestartWorker, ApiDies, UpgradeByHand,
           UpgradeHead, dbVars
  <2> QED
    BY <2>1, <2>2, <2>3 DEF vars, dbVars
<1> QED
  BY <1>1, DeploymentInvariant, PTL DEF Spec, GivenOutlivesDowngrade

=============================================================================
