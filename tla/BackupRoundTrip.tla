----------------------------- MODULE BackupRoundTrip -----------------------------
(***************************************************************************)
(* The verified backup of scripts/backup-db.ts: runVerifiedOffsiteRoundTrip *)
(* snapshots the database, encrypts it into a package, copies that to the  *)
(* offsite directory, reads it back, restores it in isolation, and removes *)
(* packages beyond the retention.  Every deployment starts one, rotate-keys *)
(* starts one and an operator may: they run in processes of their own,     *)
(* meet in the offsite directory, and end anywhere.                        *)
(*                                                                         *)
(* The offsite directory, its clock and the .env file survive a run.  What *)
(* parsePackage, the authentication tag, the digest and verifySqlite tell  *)
(* apart is whether a file is the package that was made.  AES-GCM and      *)
(* SHA-256 are taken to do their work.                                     *)
(***************************************************************************)
EXTENDS Integers, FiniteSets

CONSTANTS
    Run,            \* processes that run a round trip
    Package,        \* packages, numbered in the order of their names; randomUUID
                    \* never makes one twice
    Key,            \* ids of backup keys
    MinimumCopies,  \* BACKUP_MIN_RECOVERY_COPIES
    Retention,      \* BACKUP_RETENTION_DAYS, in ticks
    MaximumAge,     \* BACKUP_MAX_AGE_MINUTES, in ticks
    Patience,       \* ticks within which a run ends, or is ended
    Horizon,        \* bound: the clock stops there
    None            \* no package, no key

ASSUME CopiesAreKept == MinimumCopies \in Nat \ {0}
ASSUME RetentionIsPositive == Retention \in Nat \ {0}
ASSUME RunsAreShort == Patience \in Nat /\ 2 * Patience <= Retention
ASSUME PackagesAreOrdered == Package \subseteq Nat /\ IsFiniteSet(Package)
ASSUME AgeIsPositive == MaximumAge \in Nat \ {0}
ASSUME HorizonIsNumber == Horizon \in Nat
ASSUME NoneIsNone == None \notin Package \cup Key

VARIABLES
    now,       \* the clock of the host
    database,  \* its file exists
    ring,      \* ids in BACKUP_ENCRYPTION_KEYS_JSON
    active,    \* BACKUP_ACTIVE_KEY_ID
    offsite,   \* each package: status, key and time of its file
    run        \* each process: where it is and what it has read

vars == <<now, database, ring, active, offsite, run>>

File == [status : {"none", "partial", "whole", "damaged", "removed"},
         key : Key \cup {None}, mtime : Nat]

Frame == [pc : {"idle", "create", "upload", "copying", "verify", "list", "judge",
                "remove", "done"},
          ring : SUBSET Key, key : Key \cup {None}, package : Package \cup {None},
          created : Nat, began : Nat,
          listed : SUBSET Package, seen : [Package -> Nat],
          valid : SUBSET Package, doomed : SUBSET Package]

TypeOK ==
    /\ now \in Nat
    /\ database \in BOOLEAN
    /\ ring \subseteq Key /\ active \in Key
    /\ offsite \in [Package -> File]
    /\ run \in [Run -> Frame]

NoFile == [status |-> "none", key |-> None, mtime |-> 0]

Nothing == [p \in Package |-> 0]

Idle == [pc |-> "idle", ring |-> {}, key |-> None, package |-> None,
         created |-> 0, began |-> 0, listed |-> {}, seen |-> Nothing, valid |-> {},
         doomed |-> {}]

Exists(p) == offsite[p].status \notin {"none", "removed"}

Init ==
    /\ now = 0
    /\ database \in BOOLEAN
    /\ \E k \in Key : ring = {k} /\ active = k
    /\ offsite = [p \in Package |-> NoFile]
    /\ run = [h \in Run |-> Idle]

At(h, pc) == run[h].pc = pc

\* Some fields of the frame of h are set anew.
Becomes(h, frame) == run' = [run EXCEPT ![h] = frame]

UnderWay(h) == run[h].pc \notin {"idle", "done"}

-------------------------------------------------------------------------------
(* createEncryptedBackup                                                     *)

\* parseBackupKeyRing throws on an empty ring.
IsUsable(keys) == keys # {}

\* The environment is loaded once.  Without a database there is nothing to do
\* (FRESH_DATABASE), and without the active key in the ring the run refuses.
Start(h) ==
    /\ ~UnderWay(h)
    /\ database
    /\ IsUsable(ring) /\ active \in ring
    /\ Becomes(h, [Idle EXCEPT !.pc = "create", !.ring = ring, !.key = active,
                               !.began = now])
    /\ UNCHANGED <<now, database, ring, active, offsite>>

\* VACUUM INTO is one read transaction while the bot writes; the package made
\* of it in the workspace of the run is dated and named by a fresh id.
CreateEncryptedBackup(h) ==
    /\ At(h, "create")
    /\ \E p \in Package :
          /\ offsite[p].status = "none"
          /\ \A g \in Run : run[g].package # p
          /\ Becomes(h, [run[h] EXCEPT !.pc = "upload", !.package = p, !.created = now])
    /\ UNCHANGED <<now, database, ring, active, offsite>>

-------------------------------------------------------------------------------
(* copyFileDurably                                                           *)

WriteFile(p, status, h) ==
    offsite' = [offsite EXCEPT ![p] =
        [status |-> status, key |-> run[h].key, mtime |-> now]]

\* The copy is written under its final name, which ends in .purrbackup.
BeginUpload(h) ==
    /\ At(h, "upload")
    /\ Becomes(h, [run[h] EXCEPT !.pc = "copying"])
    /\ WriteFile(run[h].package, "partial", h)
    /\ UNCHANGED <<now, database, ring, active>>

\* The mount may have stored something else than was written.
EndUpload(h) ==
    /\ At(h, "copying")
    /\ Becomes(h, [run[h] EXCEPT !.pc = "verify"])
    /\ \E status \in {"whole", "damaged"} : WriteFile(run[h].package, status, h)
    /\ UNCHANGED <<now, database, ring, active>>

-------------------------------------------------------------------------------
(* verifyAndRestoreEncryptedBackup                                           *)

\* parsePackage takes nothing but a package, and a cut or altered one fails it,
\* its authentication tag, its digest or verifySqlite.
IsIntact(p) == offsite[p].status = "whole"

\* It decrypts under the ring, is what its manifest says, and restores.
Restores(p, keys) ==
    /\ IsIntact(p)
    /\ offsite[p].key \in keys

IsFresh(h) == now - run[h].created \in 0..MaximumAge

\* Mutant: the package in the workspace is restored, not the downloaded one.
RestoresLocally(h) == IsFresh(h)

RestoresDownload(h) == Restores(run[h].package, run[h].ring) /\ IsFresh(h)

Verify(h) ==
    /\ At(h, "verify")
    /\ RestoresDownload(h)
    /\ Becomes(h, [run[h] EXCEPT !.pc = "list", !.created = 0])
    /\ UNCHANGED <<now, database, ring, active, offsite>>

-------------------------------------------------------------------------------
(* enforceBackupRetention                                                    *)

\* readdirSync and statSync of each file, whole or not
List(h) ==
    /\ At(h, "list")
    /\ Becomes(h, [run[h] EXCEPT !.pc = "judge", !.listed = {p \in Package : Exists(p)},
                                  !.seen = [p \in Package |-> offsite[p].mtime]])
    /\ UNCHANGED <<now, database, ring, active, offsite>>

\* Mutant: any file with the suffix counts.
IsAnyCopy(h, p) == Exists(p)

\* isValidRecoveryCopy restores each file as it is when its turn comes.
IsValidRecoveryCopy(h, p) == Restores(p, run[h].ring)

Judge(h) ==
    /\ At(h, "judge")
    /\ \E p \in run[h].listed :
          Becomes(h, [run[h] EXCEPT !.listed = @ \ {p},
                                     !.valid = IF IsValidRecoveryCopy(h, p) THEN @ \cup {p} ELSE @])
    /\ UNCHANGED <<now, database, ring, active, offsite>>

\* Valid copies are sorted from newest to oldest.  The sort is stable: files of
\* the same time keep the order of readdirSync, which is that of their names.
IsNewer(h, q, p) ==
    \/ run[h].seen[q] > run[h].seen[p]
    \/ run[h].seen[q] = run[h].seen[p] /\ q < p

\* Those beyond the minimum ...
IsBeyondMinimum(h, p) ==
    Cardinality({q \in run[h].valid : IsNewer(h, q, p)}) >= MinimumCopies

\* ... and older than the cutoff are removed.
IsExpired(h, p) == run[h].seen[p] < now - Retention

Select(h) ==
    /\ At(h, "judge")
    /\ run[h].listed = {}
    /\ Becomes(h, [run[h] EXCEPT !.pc = "remove", !.seen = Nothing, !.valid = {},
                                  !.doomed = {p \in run[h].valid :
                                                IsBeyondMinimum(h, p) /\ IsExpired(h, p)}])
    /\ UNCHANGED <<now, database, ring, active, offsite>>

\* unlinkSync throws on a file that another run has removed.
Remove(h) ==
    /\ At(h, "remove")
    /\ \E p \in run[h].doomed :
          /\ Exists(p)
          /\ Becomes(h, [run[h] EXCEPT !.doomed = @ \ {p}])
          /\ offsite' = [offsite EXCEPT ![p] = [NoFile EXCEPT !.status = "removed"]]
    /\ UNCHANGED <<now, database, ring, active>>

Succeed(h) ==
    /\ At(h, "remove")
    /\ run[h].doomed = {}
    /\ Becomes(h, [Idle EXCEPT !.pc = "done"])
    /\ UNCHANGED <<now, database, ring, active, offsite>>

\* A check fails, a call throws, the process dies or the session is ended: the
\* workspace goes and what is offsite stays, a partial copy included.
Fail(h) ==
    /\ UnderWay(h)
    /\ Becomes(h, Idle)
    /\ UNCHANGED <<now, database, ring, active, offsite>>

-------------------------------------------------------------------------------
(* The bot, the operator and time                                            *)

\* The first migration of a deployment makes the file.
MakeDatabase ==
    /\ ~database
    /\ database' = TRUE
    /\ UNCHANGED <<now, ring, active, offsite, run>>

\* docs/operations/verified-backup-restore.md, "Key rotation": a key is added,
AddKey ==
    /\ \E k \in Key \ ring : ring' = ring \cup {k}
    /\ UNCHANGED <<now, database, active, offsite, run>>

\* then made the active one,
SwitchKey ==
    /\ \E k \in ring \ {active} : active' = k
    /\ UNCHANGED <<now, database, ring, offsite, run>>

\* and the old one leaves the ring once no retained manifest names it, nor will:
\* the operator lets a run that was started with it end.
RetireKey ==
    /\ \E k \in ring :
          /\ \A p \in Package : Exists(p) => offsite[p].key # k
          /\ \A h \in Run : UnderWay(h) => run[h].key # k
          /\ ring' = ring \ {k}
    /\ UNCHANGED <<now, database, active, offsite, run>>

Tick ==
    /\ now < Horizon
    /\ \A h \in Run : UnderWay(h) => now - run[h].began < Patience
    /\ now' = now + 1
    /\ UNCHANGED <<database, ring, active, offsite, run>>

RunStep(h) ==
    \/ Start(h) \/ CreateEncryptedBackup(h) \/ BeginUpload(h) \/ EndUpload(h)
    \/ Verify(h) \/ List(h) \/ Judge(h) \/ Select(h) \/ Remove(h) \/ Succeed(h) \/ Fail(h)

Next ==
    \/ \E h \in Run : RunStep(h)
    \/ MakeDatabase \/ AddKey \/ SwitchKey \/ RetireKey \/ Tick

Spec == Init /\ [][Next]_vars

-------------------------------------------------------------------------------
(* Properties                                                                *)

\* What the operator can restore with the keys of the .env file.
Recoverable == {p \in Package : Restores(p, ring)}

\* enforceBackupRetention: a removal leaves the minimum of packages that can be
\* restored today, whatever runs overlap, die half-way through a copy or hold an
\* older key ring, and whatever the mount has damaged.
CopiesSuffice ==
    [][(\E p \in Package : Exists(p) /\ offsite'[p].status = "removed")
          => Cardinality(Recoverable') >= MinimumCopies]_vars

\* runVerifiedOffsiteRoundTrip: a run that reports success has left its package
\* offsite, and it can be restored with the keys of the .env file as it is then.
SuccessIsRecoverable ==
    [][\A h \in Run : run[h].pc # "done" /\ run'[h].pc = "done" =>
          run[h].package \in Recoverable']_vars

===============================================================================
