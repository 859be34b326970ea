----------------------------- MODULE MigrationDeploy -----------------------------
(***************************************************************************)
(* The deployment of .github/workflows/deploy.yml around the audit trail:  *)
(* the bot is stopped, scripts/deploy-migrations.ts carries the rows of    *)
(* before across the published migrations, and the bot is started again.   *)
(* A deployment may end before each step, and is then run anew.            *)
(*                                                                         *)
(* Each step of the script is one transaction.  A migration is none: its   *)
(* statements commit one by one, and it may be killed between any two.     *)
(* Checksums and HMACs match: nothing but this script and the bot writes   *)
(* to the database.                                                        *)
(***************************************************************************)
EXTENDS AuditTrail

CONSTANTS
    Legacy,   \* rows of the AuditLog of before
    Table,    \* populated tables that some migration rebuilds
    Staged,   \* LEGACY_STAGE_TABLES: the hardening fails on a row of one
    Rebuilt   \* Rebuilt[s]: tables whose rows are copied into a new_ table,
              \* dropped and renamed on the way on from s

Schema == {"legacy", "hardened", "enveloped", "final"}

ASSUME LegacyRowsAreEvents == Legacy \subseteq Event
ASSUME TablesAssumption ==
    /\ Staged \subseteq Table
    /\ Rebuilt \in [Schema -> SUBSET Table]

VARIABLES
    schema,    \* how far _prisma_migrations has got: before the hardening,
               \* past it, past the audit envelope, or at the end
    failed,    \* a migration of it was started and has not finished
    shipped,   \* the deployed files hold every script that this one imports
    deploy,    \* next step of the deployment, or the bot is up or down
    source,    \* rows in an AuditLog that has not the final form yet
    staged,    \* rows in _PurrmissionLegacyAuditStage
    controls,  \* that table exists
    anchors,   \* rows of the anchor table
    complete,  \* the manifest of the restore exists
    live,      \* tables that hold their rows
    parked,    \* tables whose rows are in their _purrmission_stage_ table
    copied     \* tables whose rows are in their new_ table alone

rowVars == <<source, staged, controls, anchors, complete>>
tableVars == <<live, parked, copied>>
databaseVars == <<schema, failed, shipped, rowVars, tableVars>>
deployVars == <<deploy, databaseVars>>
vars == <<auditVars, deployVars>>

Anchor == Legacy \X SUBSET Subject

DeployTypeOK ==
    /\ schema \in Schema /\ failed \in BOOLEAN /\ shipped \in BOOLEAN
    /\ deploy \in {"stageAudit", "stageTables", "migrate", "restoreTables",
                   "restoreAudit", "start", "up", "down"}
    /\ source \subseteq Legacy /\ staged \subseteq Legacy
    /\ controls \in BOOLEAN /\ complete \in BOOLEAN
    /\ anchors \subseteq Anchor
    /\ live \subseteq Table /\ parked \subseteq Table /\ copied \subseteq Table

\* A database of before the hardening, or of between it and the signed trail.
\* deploy.yml leaves legacy-audit-upgrade.ts out of what it ships; a copy of the
\* repository holds it.
Init ==
    /\ AuditInit
    /\ schema \in {"legacy", "hardened"} /\ failed = FALSE /\ shipped \in BOOLEAN
    /\ deploy = "down"
    /\ source = Legacy /\ staged = {} /\ controls = FALSE
    /\ anchors = {} /\ complete = FALSE
    /\ live = Table /\ parked = {} /\ copied = {}

GoTo(from, to) == deploy = from /\ deploy' = to

-------------------------------------------------------------------------------
(* The bot                                                                   *)

BotDoes(A) == deploy = "up" /\ A /\ UNCHANGED deployVars

BotRuns == BotDoes(TrailNext)

\* pm2 stop, and everything up to pnpm prisma:deploy
StopBot ==
    /\ GoTo("up", "down")
    /\ ProcessEnds
    /\ UNCHANGED databaseVars

StartDeploy ==
    /\ GoTo("down", "stageAudit")
    /\ UNCHANGED <<auditVars, databaseVars>>

StartBot ==
    /\ GoTo("start", "up")
    /\ UNCHANGED <<auditVars, databaseVars>>

-------------------------------------------------------------------------------
(* deployMigrations                                                          *)

\* verifyCompletedRestore
RestoreVerifies ==
    \A a \in anchors : /\ log[a[1]].status = "kept" /\ log[a[1]].verifies
                       /\ log[a[1]].mentions = a[2]

\* Node finds the modules, and runMigrationPreflight the tables it needs.
Preflight == shipped /\ copied \cap Staged = {}

\* Mutant: what an earlier deployment staged is overwritten.
StageAuditAnew ==
    /\ GoTo("stageAudit", "stageTables")
    /\ Preflight
    /\ complete => RestoreVerifies
    /\ IF complete \/ schema # "legacy"
       THEN UNCHANGED <<source, staged, controls>>
       ELSE staged' = source /\ source' = {} /\ controls' = TRUE
    /\ UNCHANGED <<auditVars, schema, failed, shipped, anchors, complete, tableVars>>

\* stageLegacyAuditLogs
StageAudit ==
    /\ GoTo("stageAudit", "stageTables")
    /\ Preflight
    /\ complete => RestoreVerifies
    /\ IF complete \/ schema # "legacy"
       THEN UNCHANGED <<source, staged, controls>>
       ELSE /\ source = {} \/ staged \in {{}, source}
            /\ staged' = staged \cup source
            /\ source' = {}
            /\ controls' = TRUE
    /\ UNCHANGED <<auditVars, schema, failed, shipped, anchors, complete, tableVars>>

HardeningApplied == schema # "legacy"


\* stageLegacyHardeningRows
StageTables ==
    /\ GoTo("stageTables", "migrate")
    /\ IF HardeningApplied
       THEN UNCHANGED tableVars
       ELSE /\ live \cap parked = {}
            /\ parked' = parked \cup (live \cap Staged)
            /\ live' = live \ Staged
            /\ UNCHANGED copied
    /\ UNCHANGED <<auditVars, schema, failed, shipped, rowVars>>

\* prisma migrate deploy applies what is missing, in order, unless a migration
\* of before has not finished.
Migrates(from, to) ==
    /\ deploy = "migrate" /\ ~failed
    /\ schema = from /\ schema' = to
    /\ UNCHANGED <<failed, shipped, deploy, tableVars>>

\* The hardening fails on any row of the log and of what is staged.
Harden ==
    /\ Migrates("legacy", "hardened")
    /\ source = {} /\ live \cap Staged = {}
    /\ UNCHANGED <<auditVars, rowVars>>

\* The envelope gives the rows it finds a key id that never verifies.
Envelope ==
    /\ Migrates("hardened", "enveloped")
    /\ \E rows \in [source -> {[NoRow EXCEPT !.status = "kept", !.mentions = mentions,
                                      !.verifies = FALSE] : mentions \in SUBSET Subject}] :
           Import(rows)
    /\ source' = {}
    /\ UNCHANGED <<staged, controls, anchors, complete>>

\* Target versions, custody consents and the life cycle of credentials
CutOver ==
    /\ Migrates("enveloped", "final")
    /\ UNCHANGED <<auditVars, rowVars>>

MigrateEnds ==
    /\ GoTo("migrate", "restoreTables")
    /\ ~failed /\ schema = "final"
    /\ UNCHANGED <<auditVars, databaseVars>>

\* A migration is killed between two of its statements, which may be those that
\* drop a table and rename its copy.  (Between two migrations: DeployDies.)
MigrateStops ==
    /\ GoTo("migrate", "down")
    /\ ~failed /\ schema # "final"
    /\ failed' = TRUE
    /\ \/ UNCHANGED <<live, copied>>
       \/ \E t \in live \cap Rebuilt[schema] : live' = live \ {t} /\ copied' = copied \cup {t}
    /\ Fault(call)
    /\ UNCHANGED <<log, schema, shipped, rowVars, parked>>

\* restoreLegacyHardeningRows
RestoreTables ==
    /\ GoTo("restoreTables", "restoreAudit")
    /\ parked # {} => HardeningApplied
    /\ live \cap parked = {}
    /\ live' = live \cup parked
    /\ parked' = {}
    /\ UNCHANGED <<auditVars, schema, failed, shipped, rowVars, copied>>

\* A row comes back as SECURITY evidence, signed with its createdAt as text.  It
\* verifies if that is how it is stored; Prisma stores it as a number.
Restorable ==
    {row \in Row : row.status = "kept" /\ row.class = "SECURITY" /\ row.createdAt = 0}

\* restoreLegacyAuditLogs
RestoreAudit ==
    /\ GoTo("restoreAudit", "start")
    /\ complete => RestoreVerifies
    /\ IF complete \/ ~controls
       THEN UNCHANGED <<auditVars, anchors, staged, complete>>
       ELSE /\ \E rows \in [staged -> Restorable] :
                   /\ Import(rows)
                   /\ anchors' = {<<e, rows[e].mentions>> : e \in staged}
            /\ complete' = TRUE
            /\ staged' = {}
    /\ UNCHANGED <<schema, failed, shipped, source, controls, tableVars>>

\* A step finds what it cannot do or will not touch, and throws; P3009 is the
\* refusal of Prisma to go on after a migration that has not finished.
Refuse ==
    /\ \/ deploy = "stageAudit" /\ ~Preflight
       \/ deploy \in {"stageAudit", "restoreAudit"} /\ complete /\ ~RestoreVerifies
       \/ deploy = "migrate" /\ failed
    /\ deploy' = "down"
    /\ UNCHANGED <<auditVars, databaseVars>>

\* A step throws for another reason, or the process is killed.
DeployDies ==
    /\ deploy \notin {"up", "down"}
    /\ deploy' = "down"
    /\ Fault(call)
    /\ UNCHANGED <<log, databaseVars>>

-------------------------------------------------------------------------------
DeployStep ==
    \/ StartDeploy \/ StageAudit \/ StageTables
    \/ Harden \/ Envelope \/ CutOver \/ MigrateEnds
    \/ RestoreTables \/ RestoreAudit \/ StartBot \/ Refuse

Next ==
    \/ BotRuns \/ StopBot
    \/ DeployStep
    \/ MigrateStops \/ DeployDies

Spec == Init /\ [][Next]_vars

\* index.ts: maintenance runs at start and every 15 minutes.  A deployment that
\* failed is run again.
FairSpec ==
    /\ Spec
    /\ WF_vars(DeployStep)
    /\ \A r \in Run : WF_vars(BotDoes(StartRun(r))) /\ WF_vars(BotDoes(RunStep(r)))

-------------------------------------------------------------------------------
(* Properties                                                                *)

Restored == {e \in Legacy : log[e].status = "kept" /\ log[e].class = "SECURITY"}

\* audit-migration-safety.md: wherever a deployment or one of its migrations
\* stops and however often it is run again, each row of before is in one place.
\* So are the tables: each is itself, in its stage, or what a migration that was
\* killed has not renamed yet.
NothingIsLost ==
    /\ source \cup staged \cup Restored = Legacy
    /\ source \cap staged = {} /\ (source \cup staged) \cap Restored = {}
    /\ live \cup parked \cup copied = Table
    /\ live \cap parked = {} /\ (live \cup parked) \cap copied = {}

\* The bot only runs when all of it is back, and what was anchored stays: later
\* a row loses at most the subjects that were pseudonymised.
EvidenceStands ==
    /\ deploy = "up" => source \cup staged \cup parked \cup copied = {}
    /\ complete => \A e \in Legacy : \E a \in anchors :
           a[1] = e /\ log[e].status = "kept" /\ log[e].mentions \subseteq a[2]


\* While deployments succeed and every event verifies, the events past their
\* retention are deleted again and again.
RetentionHappens ==
    []<>(deploy = "up") /\ [](\A e \in Event : log[e].verifies) =>
        []<>(Expired(now) = {})
===============================================================================
