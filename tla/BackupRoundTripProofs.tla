------------------------- MODULE BackupRoundTripProofs -------------------------
(***************************************************************************)
(* Proofs about BackupRoundTrip.  A run that reports success has left a    *)
(* package that can be restored: nobody but a run writes the file of its   *)
(* package, the file is younger than the retention while the run lasts, so *)
(* no other run removes it, and the operator retires no key that a file or *)
(* a run names.  And a removal leaves enough: what is removed has enough   *)
(* intact packages ahead of it in the one order that all runs agree on,    *)
(* and whoever removes one of those leaves enough that are ahead of both.  *)
(***************************************************************************)
EXTENDS BackupRoundTrip, FiniteSetTheorems, TLAPS

-------------------------------------------------------------------------------
(* The inductive invariant                                                   *)

\* Every key that a file names, or a run writes with, is in the ring.
KeysAreHeld ==
    /\ \A p \in Package : Exists(p) => offsite[p].key \in ring
    /\ \A h \in Run : UnderWay(h) => run[h].key \in ring

OwnersDiffer ==
    \A g, h \in Run : run[g].package # None /\ run[g].package = run[h].package => g = h

\* What has become of the package of a run, where it stands.
FileOf(h) ==
    /\ run[h].pc \in {"idle", "create", "done"} => run[h].package = None
    /\ run[h].pc \notin {"idle", "create", "done"} => run[h].package \in Package
    /\ run[h].pc = "upload" => offsite[run[h].package].status = "none"
    /\ run[h].pc \in {"copying", "verify", "list", "judge", "remove"} =>
          /\ Exists(run[h].package)
          /\ offsite[run[h].package].mtime >= run[h].began
    /\ run[h].pc \in {"list", "judge", "remove"} => offsite[run[h].package].status = "whole"

FilesAreOwn == \A h \in Run : FileOf(h)

RunsAreYoung ==
    \A h \in Run : UnderWay(h) => run[h].began <= now /\ now <= run[h].began + Patience

\* A run knows of files that have been made, and only while it judges them.
ListsAreOfFiles ==
    \A h \in Run :
        /\ \A p \in run[h].listed \cup run[h].valid \cup run[h].doomed :
              offsite[p].status # "none"
        /\ run[h].pc # "judge" => run[h].listed = {} /\ run[h].valid = {}

\* The package of a run under way is seen as young as it is, and not removed.
OwnIsSafe ==
    \A g, h \in Run :
        /\ run[h].package \in run[g].listed \cup run[g].valid =>
              run[g].seen[run[h].package] >= run[h].began
        /\ run[h].package \notin run[g].doomed

IInv == /\ TypeOK /\ KeysAreHeld /\ OwnersDiffer /\ FilesAreOwn /\ RunsAreYoung
        /\ ListsAreOfFiles /\ OwnIsSafe

-------------------------------------------------------------------------------
(* It holds                                                                  *)

USE DEF At, Becomes, IsIntact

LEMMA Initially == Init => IInv
  BY NoneIsNone, RunsAreShort DEF Init, IInv, TypeOK, KeysAreHeld, OwnersDiffer, FilesAreOwn,
     FileOf,
     RunsAreYoung, ListsAreOfFiles, OwnIsSafe, Idle, NoFile, Nothing, Frame, File, Exists,
     UnderWay

LEMMA StartStays ==
    ASSUME IInv, NEW h \in Run, Start(h)
    PROVE  IInv'
<1> USE NoneIsNone, RunsAreShort DEF Start
<1>1. TypeOK'
  <2>1. run[h] \in Frame
    BY DEF IInv, TypeOK
  <2>2. run'[h] \in Frame
    <3>1. active \in Key /\ ring \in SUBSET Key /\ now \in Nat
      BY DEF IInv, TypeOK
    <3>2. run'[h] = [pc |-> "create", ring |-> ring, key |-> active, package |-> None,
                     created |-> 0, began |-> now, listed |-> {}, seen |-> Nothing,
                     valid |-> {}, doomed |-> {}]
      BY DEF IInv, TypeOK, Idle
    <3>3. Nothing \in [Package -> Nat]
      BY DEF Nothing
    <3> HIDE DEF Start
    <3> QED
      BY <3>1, <3>2, <3>3 DEF Frame
  <2>3. run' \in [Run -> Frame]
    BY <2>2 DEF IInv, TypeOK
  <2>4. offsite' \in [Package -> File]
    BY <2>1 DEF IInv, TypeOK, Frame, File, NoFile
  <2> QED
    BY <2>3, <2>4 DEF IInv, TypeOK
<1>2. KeysAreHeld'
  BY DEF IInv, TypeOK, Frame, File, Idle, NoFile, Exists, UnderWay, KeysAreHeld, FilesAreOwn,
     FileOf
<1>3. OwnersDiffer'
  BY DEF IInv, TypeOK, Frame, Idle, OwnersDiffer
<1>4. FilesAreOwn'
  BY DEF IInv, TypeOK, Frame, File, Idle, NoFile, Exists, UnderWay, OwnersDiffer, FilesAreOwn,
     FileOf, OwnIsSafe, RunsAreYoung
<1>5. RunsAreYoung'
  BY DEF IInv, TypeOK, Frame, Idle, UnderWay, RunsAreYoung
<1>6. ListsAreOfFiles'
  BY DEF IInv, TypeOK, Frame, File, Idle, NoFile, Exists, ListsAreOfFiles
<1>7. OwnIsSafe'
  BY DEF IInv, TypeOK, Frame, File, Idle, NoFile, Exists, UnderWay, FilesAreOwn, FileOf,
     RunsAreYoung, ListsAreOfFiles, OwnIsSafe
<1> QED
  BY <1>1, <1>2, <1>3, <1>4, <1>5, <1>6, <1>7 DEF IInv

LEMMA CreateEncryptedBackupStays ==
    ASSUME IInv, NEW h \in Run, CreateEncryptedBackup(h)
    PROVE  IInv'
<1> USE NoneIsNone, RunsAreShort DEF CreateEncryptedBackup
<1>1. TypeOK'
  <2>1. run[h] \in Frame
    BY DEF IInv, TypeOK
  <2>2. run'[h] \in Frame
    <3>1. PICK p \in Package :
             run'[h] = [run[h] EXCEPT !.pc = "upload", !.package = p, !.created = now]
      BY DEF IInv, TypeOK
    <3>2. now \in Nat
      BY DEF IInv, TypeOK
    <3> HIDE DEF CreateEncryptedBackup
    <3> QED
      BY <2>1, <3>1, <3>2 DEF Frame
  <2>3. run' \in [Run -> Frame]
    BY <2>2 DEF IInv, TypeOK
  <2>4. offsite' \in [Package -> File]
    BY <2>1 DEF IInv, TypeOK, Frame, File, NoFile
  <2> QED
    BY <2>3, <2>4 DEF IInv, TypeOK
<1>2. KeysAreHeld'
  BY DEF IInv, TypeOK, Frame, File, Idle, NoFile, Exists, UnderWay, KeysAreHeld, FilesAreOwn,
     FileOf
<1>3. OwnersDiffer'
  BY DEF IInv, TypeOK, Frame, Idle, OwnersDiffer
<1>4. FilesAreOwn'
  BY DEF IInv, TypeOK, Frame, File, Idle, NoFile, Exists, UnderWay, OwnersDiffer, FilesAreOwn,
     FileOf, OwnIsSafe, RunsAreYoung
<1>5. RunsAreYoung'
  BY DEF IInv, TypeOK, Frame, Idle, UnderWay, RunsAreYoung
<1>6. ListsAreOfFiles'
  BY DEF IInv, TypeOK, Frame, File, Idle, NoFile, Exists, ListsAreOfFiles
<1>7. OwnIsSafe'
  BY DEF IInv, TypeOK, Frame, File, Idle, NoFile, Exists, UnderWay, FilesAreOwn, FileOf,
     RunsAreYoung, ListsAreOfFiles, OwnIsSafe
<1> QED
  BY <1>1, <1>2, <1>3, <1>4, <1>5, <1>6, <1>7 DEF IInv

LEMMA BeginUploadStays ==
    ASSUME IInv, NEW h \in Run, BeginUpload(h)
    PROVE  IInv'
<1> USE NoneIsNone, RunsAreShort DEF BeginUpload, WriteFile
<1>1. TypeOK'
  <2>1. run[h] \in Frame
    BY DEF IInv, TypeOK
  <2>2. run'[h] \in Frame
    BY <2>1 DEF IInv, TypeOK, Frame, Idle, Nothing
  <2>3. run' \in [Run -> Frame]
    BY <2>2 DEF IInv, TypeOK
  <2>4. offsite' \in [Package -> File]
    BY <2>1 DEF IInv, TypeOK, Frame, File, NoFile
  <2> QED
    BY <2>3, <2>4 DEF IInv, TypeOK
<1>2. KeysAreHeld'
  BY DEF IInv, TypeOK, Frame, File, Idle, NoFile, Exists, UnderWay, KeysAreHeld, FilesAreOwn,
     FileOf
<1>3. OwnersDiffer'
  BY DEF IInv, TypeOK, Frame, Idle, OwnersDiffer
<1>4. FilesAreOwn'
  BY DEF IInv, TypeOK, Frame, File, Idle, NoFile, Exists, UnderWay, OwnersDiffer, FilesAreOwn,
     FileOf, OwnIsSafe, RunsAreYoung
<1>5. RunsAreYoung'
  BY DEF IInv, TypeOK, Frame, Idle, UnderWay, RunsAreYoung
<1>6. ListsAreOfFiles'
  BY DEF IInv, TypeOK, Frame, File, Idle, NoFile, Exists, ListsAreOfFiles
<1>7. OwnIsSafe'
  BY DEF IInv, TypeOK, Frame, File, Idle, NoFile, Exists, UnderWay, FilesAreOwn, FileOf,
     RunsAreYoung, ListsAreOfFiles, OwnIsSafe
<1> QED
  BY <1>1, <1>2, <1>3, <1>4, <1>5, <1>6, <1>7 DEF IInv

LEMMA EndUploadStays ==
    ASSUME IInv, NEW h \in Run, EndUpload(h)
    PROVE  IInv'
<1> USE NoneIsNone, RunsAreShort DEF EndUpload, WriteFile
<1>1. TypeOK'
  <2>1. run[h] \in Frame
    BY DEF IInv, TypeOK
  <2>2. run'[h] \in Frame
    BY <2>1 DEF IInv, TypeOK, Frame, Idle, Nothing
  <2>3. run' \in [Run -> Frame]
    BY <2>2 DEF IInv, TypeOK
  <2>4. offsite' \in [Package -> File]
    <3>1. run[h].key \in Key \cup {None} /\ now \in Nat
      BY <2>1 DEF IInv, TypeOK, Frame
    <3>2. \A s \in {"whole", "damaged"} :
             [status |-> s, key |-> run[h].key, mtime |-> now] \in File
      BY <3>1 DEF File
    <3> QED
      BY <3>2 DEF IInv, TypeOK
  <2> QED
    BY <2>3, <2>4 DEF IInv, TypeOK
<1>2. KeysAreHeld'
  BY DEF IInv, TypeOK, Frame, File, Idle, NoFile, Exists, UnderWay, KeysAreHeld, FilesAreOwn,
     FileOf
<1>3. OwnersDiffer'
  BY DEF IInv, TypeOK, Frame, Idle, OwnersDiffer
<1>4. FilesAreOwn'
  BY DEF IInv, TypeOK, Frame, File, Idle, NoFile, Exists, UnderWay, OwnersDiffer, FilesAreOwn,
     FileOf, OwnIsSafe, RunsAreYoung
<1>5. RunsAreYoung'
  BY DEF IInv, TypeOK, Frame, Idle, UnderWay, RunsAreYoung
<1>6. ListsAreOfFiles'
  BY DEF IInv, TypeOK, Frame, File, Idle, NoFile, Exists, ListsAreOfFiles
<1>7. OwnIsSafe'
  BY DEF IInv, TypeOK, Frame, File, Idle, NoFile, Exists, UnderWay, FilesAreOwn, FileOf,
     RunsAreYoung, ListsAreOfFiles, OwnIsSafe
<1> QED
  BY <1>1, <1>2, <1>3, <1>4, <1>5, <1>6, <1>7 DEF IInv

LEMMA VerifyStays ==
    ASSUME IInv, NEW h \in Run, Verify(h)
    PROVE  IInv'
<1> USE NoneIsNone, RunsAreShort DEF Verify
<1>1. TypeOK'
  <2>1. run[h] \in Frame
    BY DEF IInv, TypeOK
  <2>2. run'[h] \in Frame
    BY <2>1 DEF IInv, TypeOK, Frame, Idle, Nothing
  <2>3. run' \in [Run -> Frame]
    BY <2>2 DEF IInv, TypeOK
  <2>4. offsite' \in [Package -> File]
    BY <2>1 DEF IInv, TypeOK, Frame, File, NoFile
  <2> QED
    BY <2>3, <2>4 DEF IInv, TypeOK
<1>2. KeysAreHeld'
  BY DEF IInv, TypeOK, Frame, File, Idle, NoFile, Exists, UnderWay, KeysAreHeld, FilesAreOwn,
     FileOf
<1>3. OwnersDiffer'
  BY DEF IInv, TypeOK, Frame, Idle, OwnersDiffer
<1>4. FilesAreOwn'
  BY DEF IInv, RestoresDownload, Restores, TypeOK, Frame, File, Idle, NoFile, Exists, UnderWay,
     OwnersDiffer, FilesAreOwn, FileOf, OwnIsSafe, RunsAreYoung
<1>5. RunsAreYoung'
  BY DEF IInv, TypeOK, Frame, Idle, UnderWay, RunsAreYoung
<1>6. ListsAreOfFiles'
  BY DEF IInv, TypeOK, Frame, File, Idle, NoFile, Exists, ListsAreOfFiles
<1>7. OwnIsSafe'
  BY DEF IInv, TypeOK, Frame, File, Idle, NoFile, Exists, UnderWay, FilesAreOwn, FileOf,
     RunsAreYoung, ListsAreOfFiles, OwnIsSafe
<1> QED
  BY <1>1, <1>2, <1>3, <1>4, <1>5, <1>6, <1>7 DEF IInv

LEMMA ListStays ==
    ASSUME IInv, NEW h \in Run, List(h)
    PROVE  IInv'
<1> USE NoneIsNone, RunsAreShort DEF List
<1>1. TypeOK'
  <2>1. run[h] \in Frame
    BY DEF IInv, TypeOK
  <2>2. run'[h] \in Frame
    <3>1. {p \in Package : Exists(p)} \in SUBSET Package
      OBVIOUS
    <3>2. [p \in Package |-> offsite[p].mtime] \in [Package -> Nat]
      BY DEF IInv, TypeOK, File
    <3>3. run'[h] = [run[h] EXCEPT !.pc = "judge", !.listed = {p \in Package : Exists(p)},
                                   !.seen = [p \in Package |-> offsite[p].mtime]]
      BY DEF IInv, TypeOK
    <3> HIDE DEF List
    <3> QED
      BY <2>1, <3>1, <3>2, <3>3 DEF Frame
  <2>3. run' \in [Run -> Frame]
    BY <2>2 DEF IInv, TypeOK
  <2>4. offsite' \in [Package -> File]
    BY <2>1 DEF IInv, TypeOK, Frame, File, NoFile
  <2> QED
    BY <2>3, <2>4 DEF IInv, TypeOK
<1>2. KeysAreHeld'
  BY DEF IInv, TypeOK, Frame, File, Idle, NoFile, Exists, UnderWay, KeysAreHeld, FilesAreOwn,
     FileOf
<1>3. OwnersDiffer'
  BY DEF IInv, TypeOK, Frame, Idle, OwnersDiffer
<1>4. FilesAreOwn'
  BY DEF IInv, TypeOK, Frame, File, Idle, NoFile, Exists, UnderWay, OwnersDiffer, FilesAreOwn,
     FileOf, OwnIsSafe, RunsAreYoung
<1>5. RunsAreYoung'
  BY DEF IInv, TypeOK, Frame, Idle, UnderWay, RunsAreYoung
<1>6. ListsAreOfFiles'
  BY DEF IInv, TypeOK, Frame, File, Idle, NoFile, Exists, ListsAreOfFiles
<1>7. OwnIsSafe'
  BY DEF IInv, TypeOK, Frame, File, Idle, NoFile, Exists, UnderWay, FilesAreOwn, FileOf,
     RunsAreYoung, ListsAreOfFiles, OwnIsSafe
<1> QED
  BY <1>1, <1>2, <1>3, <1>4, <1>5, <1>6, <1>7 DEF IInv

LEMMA JudgeStays ==
    ASSUME IInv, NEW h \in Run, Judge(h)
    PROVE  IInv'
<1> USE NoneIsNone, RunsAreShort DEF Judge
<1>1. TypeOK'
  <2>1. run[h] \in Frame
    BY DEF IInv, TypeOK
  <2>2. run'[h] \in Frame
    <3>1. PICK p \in run[h].listed :
             run'[h] = [run[h] EXCEPT !.listed = @ \ {p},
                                      !.valid = IF IsValidRecoveryCopy(h, p)
                                                THEN @ \cup {p} ELSE @]
      BY DEF IInv, TypeOK
    <3>2. /\ run[h].listed \ {p} \in SUBSET Package
          /\ run[h].valid \cup {p} \in SUBSET Package
      BY <2>1 DEF Frame
    <3>3. \/ run'[h] = [run[h] EXCEPT !.listed = @ \ {p}, !.valid = @ \cup {p}]
          \/ run'[h] = [run[h] EXCEPT !.listed = @ \ {p}]
      BY <2>1, <3>1 DEF Frame
    <3> HIDE DEF Judge
    <3> QED
      BY <2>1, <3>2, <3>3 DEF Frame
  <2>3. run' \in [Run -> Frame]
    BY <2>2 DEF IInv, TypeOK
  <2>4. offsite' \in [Package -> File]
    BY <2>1 DEF IInv, TypeOK, Frame, File, NoFile
  <2> QED
    BY <2>3, <2>4 DEF IInv, TypeOK
<1>2. KeysAreHeld'
  BY DEF IInv, TypeOK, Frame, File, Idle, NoFile, Exists, UnderWay, KeysAreHeld, FilesAreOwn,
     FileOf
<1>3. OwnersDiffer'
  BY DEF IInv, TypeOK, Frame, Idle, OwnersDiffer
<1>4. FilesAreOwn'
  BY DEF IInv, TypeOK, Frame, File, Idle, NoFile, Exists, UnderWay, OwnersDiffer, FilesAreOwn,
     FileOf, OwnIsSafe, RunsAreYoung
<1>5. RunsAreYoung'
  BY DEF IInv, TypeOK, Frame, Idle, UnderWay, RunsAreYoung
<1>6. ListsAreOfFiles'
  BY DEF IInv, TypeOK, Frame, File, Idle, NoFile, Exists, ListsAreOfFiles
<1>7. OwnIsSafe'
  BY DEF IInv, TypeOK, Frame, File, Idle, NoFile, Exists, UnderWay, FilesAreOwn, FileOf,
     RunsAreYoung, ListsAreOfFiles, OwnIsSafe
<1> QED
  BY <1>1, <1>2, <1>3, <1>4, <1>5, <1>6, <1>7 DEF IInv

LEMMA SelectStays ==
    ASSUME IInv, NEW h \in Run, Select(h)
    PROVE  IInv'
<1> USE NoneIsNone, RunsAreShort DEF Select, IsExpired
<1>1. TypeOK'
  <2>1. run[h] \in Frame
    BY DEF IInv, TypeOK
  <2>2. run'[h] \in Frame
    <3>1. PICK gone \in SUBSET run[h].valid :
             run'[h] = [run[h] EXCEPT !.pc = "remove", !.seen = Nothing, !.valid = {},
                                      !.doomed = gone]
      BY DEF IInv, TypeOK
    <3>2. gone \in SUBSET Package /\ Nothing \in [Package -> Nat]
      BY <2>1 DEF Frame, Nothing
    <3> HIDE DEF Select, IsExpired
    <3> QED
      BY <2>1, <3>1, <3>2, ZenonT(60) DEF Frame
  <2>3. run' \in [Run -> Frame]
    BY <2>2 DEF IInv, TypeOK
  <2>4. offsite' \in [Package -> File]
    BY <2>1 DEF IInv, TypeOK, Frame, File, NoFile
  <2> QED
    BY <2>3, <2>4 DEF IInv, TypeOK
<1>2. KeysAreHeld'
  BY DEF IInv, TypeOK, Frame, File, Idle, NoFile, Exists, UnderWay, KeysAreHeld, FilesAreOwn,
     FileOf
<1>3. OwnersDiffer'
  BY DEF IInv, TypeOK, Frame, Idle, OwnersDiffer
<1>4. FilesAreOwn'
  BY DEF IInv, TypeOK, Frame, File, Idle, NoFile, Exists, UnderWay, OwnersDiffer, FilesAreOwn,
     FileOf, OwnIsSafe, RunsAreYoung
<1>5. RunsAreYoung'
  BY DEF IInv, TypeOK, Frame, Idle, UnderWay, RunsAreYoung
<1>6. ListsAreOfFiles'
  BY DEF IInv, TypeOK, Frame, File, Idle, NoFile, Exists, ListsAreOfFiles
<1>7. OwnIsSafe'
  <2>1. PICK gone \in SUBSET run[h].valid :
           /\ Becomes(h, [run[h] EXCEPT !.pc = "remove", !.seen = Nothing, !.valid = {},
                                        !.doomed = gone])
           /\ \A p \in gone : IsExpired(h, p)
    BY ZenonT(60)
  <2>2. run[h] \in Frame /\ now \in Nat
    BY DEF IInv, TypeOK
  <2>3. ASSUME NEW g \in Run
        PROVE  run[g].package \notin gone
    <3>1. SUFFICES ASSUME run[g].package \in gone
                   PROVE  FALSE
      OBVIOUS
    <3>2. run[h].seen[run[g].package] >= run[g].began
      BY <3>1 DEF IInv, OwnIsSafe
    <3>3. run[h].seen[run[g].package] < now - Retention
      BY <2>1, <3>1
    <3>4. run[g].package \in Package /\ UnderWay(g)
      BY <2>2, <3>1 DEF IInv, TypeOK, Frame, FilesAreOwn, FileOf, UnderWay
    <3>5. now <= run[g].began + Patience
      BY <3>4 DEF IInv, RunsAreYoung
    <3>6. run[h].seen[run[g].package] \in Nat /\ run[g].began \in Nat
      BY <2>2, <3>4 DEF IInv, TypeOK, Frame
    <3> QED
      BY <2>2, <3>2, <3>3, <3>5, <3>6, RetentionIsPositive
  <2>4. \A g \in Run :
           /\ run'[g].package = run[g].package /\ run'[g].began = run[g].began
           /\ g # h => run'[g] = run[g]
    BY <2>1, <2>2 DEF IInv, TypeOK, Frame
  <2>5. run[h].listed = {}
    OBVIOUS
  <2> HIDE DEF Select, IsExpired
  <2>6. run'[h].listed = run[h].listed /\ run'[h].valid = {} /\ run'[h].doomed = gone
    BY <2>1, <2>2 DEF IInv, TypeOK, Frame
  <2> QED
    BY <2>3, <2>4, <2>5, <2>6 DEF IInv, OwnIsSafe
<1> QED
  BY <1>1, <1>2, <1>3, <1>4, <1>5, <1>6, <1>7 DEF IInv

LEMMA RemoveStays ==
    ASSUME IInv, NEW h \in Run, Remove(h)
    PROVE  IInv'
<1> USE NoneIsNone, RunsAreShort DEF Remove
<1>1. TypeOK'
  <2>1. run[h] \in Frame
    BY DEF IInv, TypeOK
  <2>2. run'[h] \in Frame
    <3>1. PICK p \in run[h].doomed : run'[h] = [run[h] EXCEPT !.doomed = @ \ {p}]
      BY DEF IInv, TypeOK
    <3> HIDE DEF Remove
    <3> QED
      BY <2>1, <3>1 DEF Frame
  <2>3. run' \in [Run -> Frame]
    BY <2>2 DEF IInv, TypeOK
  <2>4. offsite' \in [Package -> File]
    BY <2>1 DEF IInv, TypeOK, Frame, File, NoFile
  <2> QED
    BY <2>3, <2>4 DEF IInv, TypeOK
<1>2. KeysAreHeld'
  BY DEF IInv, TypeOK, Frame, File, Idle, NoFile, Exists, UnderWay, KeysAreHeld, FilesAreOwn,
     FileOf
<1>3. OwnersDiffer'
  BY DEF IInv, TypeOK, Frame, Idle, OwnersDiffer
<1>4. FilesAreOwn'
  BY DEF IInv, TypeOK, Frame, File, Idle, NoFile, Exists, UnderWay, OwnersDiffer, FilesAreOwn,
     FileOf, OwnIsSafe, RunsAreYoung
<1>5. RunsAreYoung'
  BY DEF IInv, TypeOK, Frame, Idle, UnderWay, RunsAreYoung
<1>6. ListsAreOfFiles'
  BY DEF IInv, TypeOK, Frame, File, Idle, NoFile, Exists, ListsAreOfFiles
<1>7. OwnIsSafe'
  BY DEF IInv, TypeOK, Frame, File, Idle, NoFile, Exists, UnderWay, FilesAreOwn, FileOf,
     RunsAreYoung, ListsAreOfFiles, OwnIsSafe
<1> QED
  BY <1>1, <1>2, <1>3, <1>4, <1>5, <1>6, <1>7 DEF IInv

LEMMA SucceedStays ==
    ASSUME IInv, NEW h \in Run, Succeed(h)
    PROVE  IInv'
<1> USE NoneIsNone, RunsAreShort DEF Succeed
<1>1. TypeOK'
  <2>1. run[h] \in Frame
    BY DEF IInv, TypeOK
  <2>2. run'[h] \in Frame
    BY <2>1 DEF IInv, TypeOK, Frame, Idle, Nothing
  <2>3. run' \in [Run -> Frame]
    BY <2>2 DEF IInv, TypeOK
  <2>4. offsite' \in [Package -> File]
    BY <2>1 DEF IInv, TypeOK, Frame, File, NoFile
  <2> QED
    BY <2>3, <2>4 DEF IInv, TypeOK
<1>2. KeysAreHeld'
  BY DEF IInv, TypeOK, Frame, File, Idle, NoFile, Exists, UnderWay, KeysAreHeld, FilesAreOwn,
     FileOf
<1>3. OwnersDiffer'
  BY DEF IInv, TypeOK, Frame, Idle, OwnersDiffer
<1>4. FilesAreOwn'
  BY DEF IInv, TypeOK, Frame, File, Idle, NoFile, Exists, UnderWay, OwnersDiffer, FilesAreOwn,
     FileOf, OwnIsSafe, RunsAreYoung
<1>5. RunsAreYoung'
  BY DEF IInv, TypeOK, Frame, Idle, UnderWay, RunsAreYoung
<1>6. ListsAreOfFiles'
  BY DEF IInv, TypeOK, Frame, File, Idle, NoFile, Exists, ListsAreOfFiles
<1>7. OwnIsSafe'
  BY DEF IInv, TypeOK, Frame, File, Idle, NoFile, Exists, UnderWay, FilesAreOwn, FileOf,
     RunsAreYoung, ListsAreOfFiles, OwnIsSafe
<1> QED
  BY <1>1, <1>2, <1>3, <1>4, <1>5, <1>6, <1>7 DEF IInv

LEMMA FailStays ==
    ASSUME IInv, NEW h \in Run, Fail(h)
    PROVE  IInv'
<1> USE NoneIsNone, RunsAreShort DEF Fail
<1>1. TypeOK'
  <2>1. run[h] \in Frame
    BY DEF IInv, TypeOK
  <2>2. run'[h] \in Frame
    BY <2>1 DEF IInv, TypeOK, Frame, Idle, Nothing
  <2>3. run' \in [Run -> Frame]
    BY <2>2 DEF IInv, TypeOK
  <2>4. offsite' \in [Package -> File]
    BY <2>1 DEF IInv, TypeOK, Frame, File, NoFile
  <2> QED
    BY <2>3, <2>4 DEF IInv, TypeOK
<1>2. KeysAreHeld'
  BY DEF IInv, TypeOK, Frame, File, Idle, NoFile, Exists, UnderWay, KeysAreHeld, FilesAreOwn,
     FileOf
<1>3. OwnersDiffer'
  BY DEF IInv, TypeOK, Frame, Idle, OwnersDiffer
<1>4. FilesAreOwn'
  BY DEF IInv, TypeOK, Frame, File, Idle, NoFile, Exists, UnderWay, OwnersDiffer, FilesAreOwn,
     FileOf, OwnIsSafe, RunsAreYoung
<1>5. RunsAreYoung'
  BY DEF IInv, TypeOK, Frame, Idle, UnderWay, RunsAreYoung
<1>6. ListsAreOfFiles'
  BY DEF IInv, TypeOK, Frame, File, Idle, NoFile, Exists, ListsAreOfFiles
<1>7. OwnIsSafe'
  BY DEF IInv, TypeOK, Frame, File, Idle, NoFile, Exists, UnderWay, FilesAreOwn, FileOf,
     RunsAreYoung, ListsAreOfFiles, OwnIsSafe
<1> QED
  BY <1>1, <1>2, <1>3, <1>4, <1>5, <1>6, <1>7 DEF IInv

LEMMA MakeDatabaseStays ==
    ASSUME IInv, MakeDatabase
    PROVE  IInv'
  BY DEF MakeDatabase, IInv, TypeOK, KeysAreHeld, OwnersDiffer, FilesAreOwn, FileOf,
     RunsAreYoung, ListsAreOfFiles, OwnIsSafe, Exists, UnderWay, Frame

LEMMA AddKeyStays ==
    ASSUME IInv, AddKey
    PROVE  IInv'
  BY DEF AddKey, IInv, TypeOK, KeysAreHeld, OwnersDiffer, FilesAreOwn, FileOf, RunsAreYoung,
     ListsAreOfFiles, OwnIsSafe, Exists, UnderWay, Frame

LEMMA SwitchKeyStays ==
    ASSUME IInv, SwitchKey
    PROVE  IInv'
  BY DEF SwitchKey, IInv, TypeOK, KeysAreHeld, OwnersDiffer, FilesAreOwn, FileOf, RunsAreYoung,
     ListsAreOfFiles, OwnIsSafe, Exists, UnderWay, Frame

LEMMA RetireKeyStays ==
    ASSUME IInv, RetireKey
    PROVE  IInv'
  BY DEF RetireKey, IInv, TypeOK, KeysAreHeld, OwnersDiffer, FilesAreOwn, FileOf, RunsAreYoung,
     ListsAreOfFiles, OwnIsSafe, Exists, UnderWay, Frame

LEMMA TickStays ==
    ASSUME IInv, Tick
    PROVE  IInv'
<1> USE DEF Tick
<1>1. \A h \in Run : run[h].began \in Nat
  BY DEF IInv, TypeOK, Frame
<1>2. now \in Nat /\ now' = now + 1
  BY DEF IInv, TypeOK
<1>3. RunsAreYoung'
  BY <1>1, <1>2, RunsAreShort DEF IInv, RunsAreYoung, UnderWay
<1> QED
  BY <1>2, <1>3 DEF IInv, TypeOK, KeysAreHeld, OwnersDiffer, FilesAreOwn, FileOf,
     ListsAreOfFiles, OwnIsSafe, Exists, UnderWay

-------------------------------------------------------------------------------
(* What follows                                                              *)

LEMMA Inductive == IInv /\ [Next]_vars => IInv'
<1> SUFFICES ASSUME IInv, [Next]_vars
             PROVE  IInv'
  OBVIOUS
<1>1. CASE \E h \in Run : RunStep(h)
  BY <1>1, StartStays, CreateEncryptedBackupStays, BeginUploadStays, EndUploadStays,
     VerifyStays, ListStays, JudgeStays, SelectStays, RemoveStays, SucceedStays, FailStays
     DEF RunStep
<1>2. CASE MakeDatabase \/ AddKey \/ SwitchKey \/ RetireKey \/ Tick
  BY <1>2, MakeDatabaseStays, AddKeyStays, SwitchKeyStays, RetireKeyStays, TickStays
<1>3. CASE UNCHANGED vars
  BY <1>3 DEF vars, IInv, TypeOK, KeysAreHeld, OwnersDiffer, FilesAreOwn, FileOf,
     RunsAreYoung, ListsAreOfFiles, OwnIsSafe, Exists, UnderWay
<1> QED
  BY <1>1, <1>2, <1>3 DEF Next

LEMMA Invariance == Spec => []IInv
  BY Initially, Inductive, PTL DEF Spec

\* Runs, files and the key ring are what the code makes of them.
THEOREM TypeIsCorrect == Spec => []TypeOK
<1>1. IInv => TypeOK
  BY DEF IInv
<1> QED
  BY <1>1, Invariance, PTL

\* The package of a run that has verified it stays offsite while the run lasts.
THEOREM SuccessLeavesACopy == Spec => SuccessIsRecoverable
<1>1. ASSUME IInv, [Next]_vars, NEW h \in Run, run[h].pc # "done", run'[h].pc = "done"
      PROVE  run[h].package \in Recoverable'
  <2>1. Succeed(h)
    <3>1. run \in [Run -> Frame] /\ run' # run
      BY <1>1 DEF IInv, TypeOK
    <3>2. PICK g \in Run : RunStep(g)
      BY <1>1, <3>1 DEF Next, vars, MakeDatabase, AddKey, SwitchKey, RetireKey, Tick
    <3>3. Start(g) \/ Fail(g) => run'[h].pc # "done"
      <4>1. Start(g) => run'[g].pc = "create"
        BY <3>1 DEF Start, Idle
      <4>2. Fail(g) => run'[g].pc = "idle"
        BY <3>1 DEF Fail, Idle
      <4>3. Start(g) \/ Fail(g) => g = h \/ run'[h] = run[h]
        BY <3>1 DEF Start, Fail
      <4> QED
        BY <1>1, <4>1, <4>2, <4>3
    <3>4. CreateEncryptedBackup(g) \/ BeginUpload(g) \/ EndUpload(g) => run'[h].pc # "done"
      BY <1>1, <3>1, ZenonT(60) DEF CreateEncryptedBackup, BeginUpload, EndUpload, Frame
    <3>5. Verify(g) \/ List(g) => run'[h].pc # "done"
      BY <1>1, <3>1, ZenonT(60) DEF Verify, List, Frame
    <3>6. Judge(g) => run'[h].pc # "done"
      BY <1>1, <3>1 DEF Judge, Frame
    <3>7. Select(g) \/ Remove(g) => run'[h].pc # "done"
      BY <1>1, <3>1, ZenonT(60) DEF Select, Remove, Frame
    <3>8. Succeed(g) => g = h
      BY <1>1, <3>1 DEF Succeed
    <3> QED
      BY <1>1, <3>2, <3>3, <3>4, <3>5, <3>6, <3>7, <3>8 DEF RunStep
  <2>2. run[h].package \in Package /\ offsite[run[h].package].status = "whole"
    BY <1>1, <2>1 DEF Succeed, IInv, FilesAreOwn, FileOf
  <2>3. offsite[run[h].package].key \in ring
    BY <1>1, <2>2 DEF IInv, KeysAreHeld, Exists
  <2> QED
    BY <2>1, <2>2, <2>3 DEF Succeed, Recoverable, Restores
<1>2. IInv /\ [Next]_vars =>
        [\A h \in Run : run[h].pc # "done" /\ run'[h].pc = "done" =>
            run[h].package \in Recoverable']_vars
  BY <1>1
<1> QED
  BY <1>2, Invariance, PTL DEF Spec, SuccessIsRecoverable


-------------------------------------------------------------------------------
(* What is removed leaves enough                                             *)

\* Intact packages that come before p as of time t, from newest to oldest.
Ahead(t, p) ==
    {q \in Package : /\ IsIntact(q)
                     /\ offsite[q].mtime > t \/ (offsite[q].mtime = t /\ q < p)}

IsCovered(t, p) == Cardinality(Ahead(t, p)) >= MinimumCopies

\* Files are of the past, and one that is being copied is cut short.
FilesArePast ==
    /\ \A p \in Package : offsite[p].mtime <= now
    /\ \A h \in Run : run[h].pc = "copying" => offsite[run[h].package].status = "partial"

\* A time that has been read may be out of date only for a file that was young then.
TimesAreRead ==
    \A h \in Run : \A p \in run[h].listed \cup run[h].valid :
        Exists(p) => /\ run[h].seen[p] <= offsite[p].mtime
                     /\ \/ run[h].seen[p] = offsite[p].mtime
                        \/ run[h].began <= run[h].seen[p] + Patience

\* What was judged valid is intact, or was removed by another run that kept enough.
JudgedIsCovered ==
    \A h \in Run : \A p \in run[h].valid :
        \/ IsIntact(p)
        \/ offsite[p].status = "removed" /\ IsCovered(run[h].seen[p], p)

DoomedIsCovered ==
    \A h \in Run : \A p \in run[h].doomed :
        Exists(p) => IsIntact(p) /\ IsCovered(offsite[p].mtime, p)

CInv == FilesArePast /\ TimesAreRead /\ JudgedIsCovered /\ DoomedIsCovered

LEMMA CoveredFromStart == Init => CInv
  BY DEF Init, CInv, FilesArePast, TimesAreRead, JudgedIsCovered, DoomedIsCovered, Idle, NoFile

\* What may become of a file in one step: nothing, its making, the end of its
\* copying, or its removal, when enough are ahead of it.
FilesTell ==
    \A p \in Package :
        \/ offsite'[p] = offsite[p]
        \/ offsite[p].status = "none" /\ offsite'[p].status = "partial"
        \/ /\ offsite[p].status = "partial" /\ offsite'[p].status \in {"whole", "damaged"}
           /\ offsite[p].mtime <= offsite'[p].mtime
           /\ \E o \in Run : UnderWay(o) /\ run[o].began <= offsite[p].mtime
        \/ /\ IsIntact(p) /\ IsCovered(offsite[p].mtime, p)
           /\ offsite'[p].status = "removed"
           /\ \A q \in Package \ {p} : offsite'[q] = offsite[q]

LEMMA StepsTellFiles == IInv /\ CInv /\ [Next]_vars => FilesTell
<1> SUFFICES ASSUME IInv, CInv, [Next]_vars, NEW p \in Package, offsite'[p] # offsite[p]
             PROVE  \/ offsite[p].status = "none" /\ offsite'[p].status = "partial"
                    \/ /\ offsite[p].status = "partial"
                       /\ offsite'[p].status \in {"whole", "damaged"}
                       /\ offsite[p].mtime <= offsite'[p].mtime
                       /\ \E o \in Run : UnderWay(o) /\ run[o].began <= offsite[p].mtime
                    \/ /\ IsIntact(p) /\ IsCovered(offsite[p].mtime, p)
                       /\ offsite'[p].status = "removed"
                       /\ \A q \in Package \ {p} : offsite'[q] = offsite[q]
  BY DEF FilesTell
<1>1. PICK h \in Run : BeginUpload(h) \/ EndUpload(h) \/ Remove(h)
  BY DEF Next, RunStep, vars, Start, CreateEncryptedBackup, Verify, List, Judge, Select, Succeed,
     Fail, MakeDatabase, AddKey, SwitchKey, RetireKey, Tick
<1>2. /\ offsite \in [Package -> File] /\ run[h] \in Frame /\ now \in Nat
      /\ FileOf(h)
  BY DEF IInv, TypeOK, FilesAreOwn
<1>3. CASE BeginUpload(h)
  <2>1. p = run[h].package /\ offsite[p].status = "none" /\ offsite'[p].status = "partial"
    BY <1>2, <1>3 DEF BeginUpload, WriteFile, FileOf
  <2>2. QED
    BY <2>1
<1>4. CASE EndUpload(h)
  <2>1. PICK status \in {"whole", "damaged"} : WriteFile(run[h].package, status, h)
    BY <1>4 DEF EndUpload
  <2>2. p = run[h].package /\ offsite'[p].status = status /\ offsite'[p].mtime = now
    BY <1>2, <2>1 DEF WriteFile
  <2>3. offsite[p].status = "partial" /\ offsite[p].mtime <= now
    BY <1>4, <2>2 DEF EndUpload, CInv, FilesArePast
  <2>4. UnderWay(h) /\ run[h].began <= offsite[p].mtime
    BY <1>2, <1>4, <2>2 DEF EndUpload, UnderWay, FileOf, File, Frame
  <2>5. QED
    BY <2>2, <2>3, <2>4
<1>5. CASE Remove(h)
  <2>1. PICK r \in run[h].doomed :
           /\ Exists(r)
           /\ offsite' = [offsite EXCEPT ![r] = [NoFile EXCEPT !.status = "removed"]]
    BY <1>5 DEF Remove
  <2>2. r = p /\ offsite'[p].status = "removed"
    BY <1>2, <2>1 DEF NoFile
  <2>3. IsIntact(p) /\ IsCovered(offsite[p].mtime, p)
    BY <2>1, <2>2 DEF CInv, DoomedIsCovered
  <2>4. QED
    BY <1>2, <2>1, <2>2, <2>3
<1>6. QED
  BY <1>1, <1>3, <1>4, <1>5

\* Enough ahead of a place in the order is enough ahead of what comes after it.
LEMMA CoverGrows ==
    ASSUME TypeOK, NEW t \in Nat, NEW p \in Package, IsCovered(t, p),
           NEW u \in Nat, NEW q \in Package, u < t \/ (u = t /\ p < q) \/ (u = t /\ p = q)
    PROVE  IsCovered(u, q)
<1>1. IsFiniteSet(Ahead(u, q)) /\ p \in Nat /\ q \in Nat
  BY PackagesAreOrdered, FS_Subset DEF Ahead
<1>2. Ahead(t, p) \subseteq Ahead(u, q)
  <2>1. SUFFICES ASSUME NEW x \in Ahead(t, p) PROVE x \in Ahead(u, q)
    OBVIOUS
  <2>2. /\ x \in Package /\ IsIntact(x)
        /\ offsite[x].mtime > t \/ (offsite[x].mtime = t /\ x < p)
    BY DEF Ahead
  <2>3. x \in Nat /\ offsite[x].mtime \in Nat
    BY <2>2, PackagesAreOrdered DEF TypeOK, File
  <2>4. offsite[x].mtime > u \/ (offsite[x].mtime = u /\ x < q)
    BY <1>1, <2>2, <2>3
  <2>5. QED
    BY <2>2, <2>4 DEF Ahead
<1>3. Cardinality(Ahead(t, p)) <= Cardinality(Ahead(u, q))
  BY <1>1, <1>2, FS_Subset
<1>4. Cardinality(Ahead(t, p)) \in Nat /\ Cardinality(Ahead(u, q)) \in Nat
  BY <1>1, <1>2, FS_Subset, FS_CardinalityType
<1>5. QED
  BY <1>3, <1>4, CopiesAreKept DEF IsCovered

\* No step leaves too few ahead of a place where there are enough: what it removes
\* has enough ahead of itself, and they are ahead of that place too.
LEMMA CoverLasts ==
    ASSUME TypeOK, TypeOK', FilesTell, NEW t \in Nat, NEW p \in Package, IsCovered(t, p)
    PROVE  IsCovered(t, p)'
<1>1. /\ offsite \in [Package -> File] /\ offsite' \in [Package -> File]
      /\ \A q \in Package : q \in Nat
  BY PackagesAreOrdered DEF TypeOK
<1>2. IsFiniteSet(Ahead(t, p)')
  BY PackagesAreOrdered, FS_Subset DEF Ahead
<1>3. CASE \A q \in Ahead(t, p) : offsite'[q] = offsite[q]
  <2>1. Ahead(t, p) \subseteq Ahead(t, p)'
    BY <1>3 DEF Ahead
  <2>2. /\ Cardinality(Ahead(t, p)) <= Cardinality(Ahead(t, p)')
        /\ Cardinality(Ahead(t, p)) \in Nat /\ Cardinality(Ahead(t, p)') \in Nat
    BY <1>2, <2>1, FS_Subset, FS_CardinalityType
  <2>3. QED
    BY <2>2, CopiesAreKept DEF IsCovered
<1>4. ASSUME NEW r \in Ahead(t, p), offsite'[r] # offsite[r] PROVE IsCovered(t, p)'
  <2>1. /\ r \in Package /\ IsIntact(r) /\ IsCovered(offsite[r].mtime, r)
        /\ offsite'[r].status = "removed"
        /\ \A q \in Package \ {r} : offsite'[q] = offsite[q]
    BY <1>4 DEF Ahead, FilesTell
  <2>2. offsite[r].mtime > t \/ (offsite[r].mtime = t /\ r < p)
    BY <1>4 DEF Ahead
  <2>3. offsite[r].mtime \in Nat /\ \A q \in Package : offsite[q].mtime \in Nat
    BY <1>1, <2>1 DEF File
  <2>4. r \notin Ahead(offsite[r].mtime, r)
    BY <1>1, <2>1, <2>3 DEF Ahead
  <2>5. Ahead(offsite[r].mtime, r) \subseteq Ahead(t, p)'
    BY <1>1, <2>1, <2>2, <2>3, <2>4 DEF Ahead
  <2>6. /\ Cardinality(Ahead(offsite[r].mtime, r)) <= Cardinality(Ahead(t, p)')
        /\ Cardinality(Ahead(offsite[r].mtime, r)) \in Nat
        /\ Cardinality(Ahead(t, p)') \in Nat
    BY <1>2, <2>5, FS_Subset, FS_CardinalityType
  <2>7. QED
    BY <2>1, <2>6, CopiesAreKept DEF IsCovered
<1>5. QED
  BY <1>3, <1>4


\* What a run may remember after one step: what it did, or less; what it reads; one
\* file that it has judged; or, of those judged, the ones that it removes.
FramesTell ==
    \A g \in Run :
        \/ /\ run'[g].listed = {} /\ run'[g].valid = {} /\ run'[g].doomed = {}
        \/ /\ run'[g].seen = run[g].seen /\ run'[g].began = run[g].began
           /\ run'[g].listed \subseteq run[g].listed
           /\ \A p \in run'[g].valid :
                 p \in run[g].valid \/ (p \in run[g].listed /\ IsIntact(p) /\ offsite' = offsite)
           /\ run'[g].doomed \subseteq run[g].doomed
        \/ /\ offsite' = offsite /\ run'[g].began = run[g].began
           /\ \A p \in Package : run'[g].seen[p] = offsite[p].mtime
           /\ run'[g].listed \subseteq Package
           /\ run'[g].valid = {} /\ run'[g].doomed \subseteq run[g].doomed
        \/ /\ offsite' = offsite /\ UnderWay(g)
           /\ run'[g].listed = {} /\ run'[g].valid = {}
           /\ \A p \in run'[g].doomed :
                 p \in run[g].valid /\ IsBeyondMinimum(g, p) /\ IsExpired(g, p)

LEMMA StepsTellFrames == IInv /\ [Next]_vars => FramesTell
<1> SUFFICES ASSUME IInv, [Next]_vars PROVE FramesTell
  OBVIOUS
<1>1. run \in [Run -> Frame] /\ \A h \in Run : run[h] \in Frame
  BY DEF IInv, TypeOK
<1>2. CASE run' = run
  BY <1>2 DEF FramesTell
<1>3. ASSUME NEW h \in Run, RunStep(h) PROVE FramesTell
  <2>1. \A g \in Run \ {h} : run'[g] = run[g]
    BY <1>1, <1>3 DEF RunStep, Start, CreateEncryptedBackup, BeginUpload, EndUpload, Verify, List,
       Judge, Select, Remove, Succeed, Fail
  <2>2. CASE Start(h) \/ Succeed(h) \/ Fail(h)
    <3>1. Idle.listed = {} /\ Idle.valid = {} /\ Idle.doomed = {}
      BY DEF Idle
    <3>2. CASE Start(h)
      <4>1. run'[h] = [Idle EXCEPT !.pc = "create", !.ring = ring, !.key = active, !.began = now]
        BY <1>1, <3>2 DEF Start
      <4>2. run'[h].listed = {} /\ run'[h].valid = {} /\ run'[h].doomed = {}
        BY <4>1 DEF Idle
      <4>3. QED
        BY <2>1, <4>2 DEF FramesTell
    <3>3. CASE Succeed(h)
      <4>1. run'[h] = [Idle EXCEPT !.pc = "done"]
        BY <1>1, <3>3 DEF Succeed
      <4>2. run'[h].listed = {} /\ run'[h].valid = {} /\ run'[h].doomed = {}
        BY <4>1 DEF Idle
      <4>3. QED
        BY <2>1, <4>2 DEF FramesTell
    <3>4. CASE Fail(h)
      BY <1>1, <2>1, <3>1, <3>4 DEF Fail, FramesTell
    <3>5. QED
      BY <2>2, <3>2, <3>3, <3>4
  <2>3. CASE CreateEncryptedBackup(h) \/ BeginUpload(h) \/ EndUpload(h) \/ Verify(h)
    <3>1. /\ run'[h].seen = run[h].seen /\ run'[h].began = run[h].began
          /\ run'[h].listed = run[h].listed /\ run'[h].valid = run[h].valid
          /\ run'[h].doomed = run[h].doomed
      <4>1. CASE CreateEncryptedBackup(h)
        <5>1. PICK p : run'[h] = [run[h] EXCEPT !.pc = "upload", !.package = p, !.created = now]
          BY <1>1, <4>1 DEF CreateEncryptedBackup
        <5>2. QED
          BY <1>1, <5>1 DEF Frame
      <4>2. CASE BeginUpload(h) \/ EndUpload(h)
        <5>1. PICK pc : run'[h] = [run[h] EXCEPT !.pc = pc]
          BY <1>1, <4>2 DEF BeginUpload, EndUpload
        <5>2. QED
          BY <1>1, <5>1 DEF Frame
      <4>3. CASE Verify(h)
        <5>1. run'[h] = [run[h] EXCEPT !.pc = "list", !.created = 0]
          BY <1>1, <4>3 DEF Verify
        <5>2. QED
          BY <1>1, <5>1 DEF Frame
      <4>4. QED
        BY <2>3, <4>1, <4>2, <4>3
    <3>2. QED
      BY <2>1, <3>1 DEF FramesTell
  <2>4. CASE Remove(h)
    <3>1. PICK p \in run[h].doomed : run'[h] = [run[h] EXCEPT !.doomed = @ \ {p}]
      BY <1>1, <2>4 DEF Remove
    <3>2. /\ run'[h].seen = run[h].seen /\ run'[h].began = run[h].began
          /\ run'[h].listed = run[h].listed /\ run'[h].valid = run[h].valid
          /\ run'[h].doomed \subseteq run[h].doomed
      BY <1>1, <3>1 DEF Frame
    <3>3. QED
      BY <2>1, <3>2 DEF FramesTell
  <2>5. CASE List(h)
    <3>1. run'[h] = [run[h] EXCEPT !.pc = "judge", !.listed = {p \in Package : Exists(p)},
                                   !.seen = [p \in Package |-> offsite[p].mtime]]
      BY <1>1, <2>5 DEF List
    <3>2. /\ run'[h].began = run[h].began /\ run'[h].valid = run[h].valid
          /\ run'[h].doomed = run[h].doomed /\ run'[h].listed \subseteq Package
          /\ \A p \in Package : run'[h].seen[p] = offsite[p].mtime
      BY <1>1, <3>1 DEF Frame
    <3>3. run[h].valid = {} /\ offsite' = offsite
      BY <2>5 DEF List, IInv, ListsAreOfFiles
    <3>4. QED
      BY <2>1, <3>2, <3>3 DEF FramesTell
  <2>6. CASE Judge(h)
    <3>1. PICK p \in run[h].listed :
             run'[h] = [run[h] EXCEPT !.listed = @ \ {p},
                                      !.valid = IF IsValidRecoveryCopy(h, p)
                                                THEN @ \cup {p} ELSE @]
      BY <1>1, <2>6 DEF Judge
    <3>2. PICK valid : valid = (IF IsValidRecoveryCopy(h, p)
                                THEN run[h].valid \cup {p} ELSE run[h].valid)
      OBVIOUS
    <3>3. run'[h] = [run[h] EXCEPT !.listed = @ \ {p}, !.valid = valid]
      BY <1>1, <3>1, <3>2 DEF Frame
    <3>4. /\ run'[h].seen = run[h].seen /\ run'[h].began = run[h].began
          /\ run'[h].listed = run[h].listed \ {p} /\ run'[h].valid = valid
          /\ run'[h].doomed = run[h].doomed
      BY <1>1, <3>3 DEF Frame
    <3>5. /\ offsite' = offsite
          /\ \A q \in valid : q \in run[h].valid \/ (q \in run[h].listed /\ IsIntact(q))
      BY <2>6, <3>2 DEF Judge, IsValidRecoveryCopy, Restores
    <3>6. QED
      BY <2>1, <3>4, <3>5 DEF FramesTell
  <2>7. CASE Select(h)
    <3>1. PICK gone : gone = {p \in run[h].valid : IsBeyondMinimum(h, p) /\ IsExpired(h, p)}
      OBVIOUS
    <3>2. run'[h] = [run[h] EXCEPT !.pc = "remove", !.seen = Nothing, !.valid = {},
                                   !.doomed = gone]
      BY <1>1, <2>7, <3>1 DEF Select
    <3>3. run[h].listed = {}
      BY <2>7 DEF Select
    <3>4. run'[h].listed = {} /\ run'[h].valid = {} /\ run'[h].doomed = gone
      BY <1>1, <3>2, <3>3, SMTT(30) DEF Frame
    <3>5. offsite' = offsite /\ UnderWay(h)
      BY <2>7 DEF Select, UnderWay
    <3>6. QED
      BY <2>1, <3>1, <3>4, <3>5 DEF FramesTell
  <2>8. QED
    BY <1>3, <2>2, <2>3, <2>4, <2>5, <2>6, <2>7 DEF RunStep
<1>4. QED
  BY <1>2, <1>3 DEF Next, vars, MakeDatabase, AddKey, SwitchKey, RetireKey, Tick

\* Whom a run finds beyond the minimum, and old enough, has enough ahead of it now,
\* whichever of those that were counted another run has removed since.
LEMMA SelectedIsCovered ==
    ASSUME IInv, CInv, NEW h \in Run, UnderWay(h), NEW p \in run[h].valid, Exists(p),
           IsBeyondMinimum(h, p), IsExpired(h, p)
    PROVE  IsIntact(p) /\ IsCovered(offsite[p].mtime, p)
<1> DEFINE Q == {q \in run[h].valid : IsNewer(h, q, p)}
           t == run[h].seen[p]
<1>1. /\ TypeOK /\ run[h] \in Frame /\ now \in Nat /\ run[h].valid \subseteq Package
      /\ \A q \in run[h].valid : q \in Nat /\ run[h].seen[q] \in Nat /\ offsite[q].mtime \in Nat
      /\ run[h].began \in Nat
  BY PackagesAreOrdered DEF IInv, TypeOK, Frame, File
<1>2. IsIntact(p)
  BY DEF CInv, JudgedIsCovered, Exists
<1>3. t = offsite[p].mtime
  <2>1. now <= run[h].began + Patience
    BY DEF IInv, RunsAreYoung
  <2>2. t + Retention < now
    BY <1>1, RetentionIsPositive DEF IsExpired
  <2>3. ~(run[h].began <= t + Patience)
    BY <1>1, <2>1, <2>2, RunsAreShort, RetentionIsPositive
  <2>4. QED
    BY <2>3 DEF CInv, TimesAreRead
<1>4. \A q \in Q : /\ q \in run[h].valid
                   /\ run[h].seen[q] > t \/ (run[h].seen[q] = t /\ q < p)
  BY DEF IsNewer
<1>5. Cardinality(Q) >= MinimumCopies
  BY DEF IsBeyondMinimum
<1> HIDE DEF Q, t
<1>6. CASE \A q \in Q : IsIntact(q)
  <2>1. \A q \in Q : q \in Ahead(t, p)
    <3> SUFFICES ASSUME NEW q \in Q PROVE q \in Ahead(t, p)
      OBVIOUS
    <3>1. Exists(q) /\ q \in run[h].valid
      BY <1>4, <1>6 DEF Exists
    <3>2. run[h].seen[q] <= offsite[q].mtime
      BY <3>1 DEF CInv, TimesAreRead
    <3>3. offsite[q].mtime > t \/ (offsite[q].mtime = t /\ q < p)
      <4>1. q \in Nat /\ run[h].seen[q] \in Nat /\ offsite[q].mtime \in Nat /\ t \in Nat
        BY <1>1, <1>3, <3>1
      <4>2. run[h].seen[q] > t \/ (run[h].seen[q] = t /\ q < p)
        BY <1>4
      <4>3. QED
        BY <3>2, <4>1, <4>2
    <3>4. QED
      BY <1>1, <1>6, <3>1, <3>3 DEF Ahead
  <2>2. IsFiniteSet(Ahead(t, p))
    BY PackagesAreOrdered, FS_Subset DEF Ahead
  <2>3. /\ Cardinality(Q) <= Cardinality(Ahead(t, p))
        /\ Cardinality(Q) \in Nat /\ Cardinality(Ahead(t, p)) \in Nat
    BY <2>1, <2>2, FS_Subset, FS_CardinalityType
  <2>4. QED
    BY <1>2, <1>3, <1>5, <2>3, CopiesAreKept DEF IsCovered
<1>7. ASSUME NEW q \in Q, ~IsIntact(q) PROVE IsCovered(t, p)
  <2>1. q \in run[h].valid /\ q \in Package /\ p \in Package /\ t \in Nat
    BY <1>1, <1>3, <1>4
  <2>2. IsCovered(run[h].seen[q], q)
    BY <1>7, <2>1 DEF CInv, JudgedIsCovered
  <2>3. t < run[h].seen[q] \/ (t = run[h].seen[q] /\ q < p)
    BY <1>1, <1>4, <1>7, <2>1
  <2>4. QED
    BY <1>1, <2>1, <2>2, <2>3, CoverGrows
<1>8. QED
  BY <1>2, <1>3, <1>6, <1>7

LEMMA CoverIsKept == IInv /\ CInv /\ [Next]_vars => CInv'
<1> SUFFICES ASSUME IInv, CInv, [Next]_vars PROVE CInv'
  OBVIOUS
<1>1. IInv' /\ TypeOK /\ TypeOK' /\ FilesTell /\ FramesTell
  BY Inductive, StepsTellFiles, StepsTellFrames DEF IInv
<1>2. /\ \A h \in Run : run[h] \in Frame /\ run'[h] \in Frame
      /\ \A p \in Package : offsite[p] \in File /\ offsite'[p] \in File
      /\ \A h \in Run, p \in Package : run[h].seen[p] \in Nat
      /\ \A p \in Package : offsite[p].mtime \in Nat
      /\ \A h \in Run : run[h].listed \cup run[h].valid \cup run[h].doomed \subseteq Package
      /\ now \in Nat
  BY <1>1 DEF TypeOK, Frame, File
<1>3. \A t \in Nat, p \in Package : IsCovered(t, p) => IsCovered(t, p)'
  BY <1>1, CoverLasts
<1>4. FilesArePast'
  <2>1. now' \in Nat /\ now <= now'
    <3>1. now' = now \/ now' = now + 1
      <4>1. \A h \in Run : RunStep(h) => now' = now
        BY DEF RunStep, Start, CreateEncryptedBackup, BeginUpload, EndUpload, Verify, List, Judge,
           Select, Remove, Succeed, Fail
      <4>2. QED
        BY <4>1 DEF Next, vars, MakeDatabase, AddKey, SwitchKey, RetireKey, Tick
    <3>2. QED
      BY <1>2, <3>1
  <2>2. ASSUME NEW p \in Package PROVE offsite'[p].mtime <= now'
    <3>1. CASE offsite'[p] = offsite[p]
      BY <1>2, <2>1, <3>1 DEF CInv, FilesArePast
    <3>2. CASE offsite'[p] # offsite[p]
      <4>1. PICK h \in Run : BeginUpload(h) \/ EndUpload(h) \/ Remove(h)
        BY <3>2 DEF Next, RunStep, vars, Start, CreateEncryptedBackup, Verify, List, Judge,
           Select, Succeed, Fail, MakeDatabase, AddKey, SwitchKey, RetireKey, Tick
      <4>2. offsite'[p].mtime = now \/ offsite'[p].mtime = 0
        BY <1>1, <3>2, <4>1 DEF TypeOK, BeginUpload, EndUpload, WriteFile, Remove, NoFile
      <4>3. QED
        BY <1>2, <2>1, <4>2
    <3>3. QED
      BY <3>1, <3>2
  <2>3. ASSUME NEW h \in Run, run'[h].pc = "copying"
        PROVE  offsite'[run'[h].package].status = "partial"
    <3>1. CASE BeginUpload(h)
      <4>1. run'[h] = [run[h] EXCEPT !.pc = "copying"] /\ WriteFile(run[h].package, "partial", h)
        BY <1>1, <3>1 DEF BeginUpload, TypeOK
      <4>2. run'[h].package = run[h].package /\ run[h].package \in Package
        BY <1>1, <1>2, <3>1, <4>1 DEF BeginUpload, IInv, FilesAreOwn, FileOf, Frame
      <4>3. QED
        BY <1>1, <4>1, <4>2 DEF WriteFile, TypeOK
    <3>2. CASE run'[h] = run[h]
      <4>1. run[h].package \in Package /\ offsite[run[h].package].status = "partial"
        BY <2>3, <3>2 DEF CInv, FilesArePast, IInv, FilesAreOwn, FileOf
      <4>2. offsite'[run'[h].package].status # "none"
        BY <1>1, <2>3 DEF IInv, FilesAreOwn, FileOf, Exists
      <4>3. offsite'[run'[h].package] # offsite[run[h].package] => EndUpload(h)
        <5>1. SUFFICES ASSUME offsite'[run[h].package] # offsite[run[h].package]
                       PROVE  EndUpload(h)
          BY <3>2
        <5>2. PICK g \in Run : BeginUpload(g) \/ EndUpload(g) \/ Remove(g)
          BY <5>1 DEF Next, RunStep, vars, Start, CreateEncryptedBackup, Verify, List, Judge,
             Select, Succeed, Fail, MakeDatabase, AddKey, SwitchKey, RetireKey, Tick
        <5>3. ~Remove(g)
          BY <1>1, <4>1, <5>1 DEF Remove, IInv, OwnIsSafe, TypeOK
        <5>4. run[g].package = run[h].package
          BY <1>1, <4>1, <5>1, <5>2, <5>3 DEF BeginUpload, EndUpload, WriteFile, TypeOK
        <5>5. g = h
          BY <4>1, <5>4, NoneIsNone DEF IInv, OwnersDiffer
        <5>6. ~BeginUpload(g)
          BY <2>3, <3>2, <5>5 DEF BeginUpload
        <5>7. QED
          BY <5>2, <5>3, <5>5, <5>6
      <4>4. ~EndUpload(h)
        BY <1>1, <2>3 DEF EndUpload, TypeOK, Frame
      <4>5. QED
        BY <3>2, <4>1, <4>3, <4>4
    <3>3. QED
      <4>1. CASE \E g \in Run \ {h} : RunStep(g)
        BY <1>1, <3>2, <4>1 DEF TypeOK, RunStep, Start, CreateEncryptedBackup, BeginUpload,
           EndUpload, Verify, List, Judge, Select, Remove, Succeed, Fail
      <4>2. CASE RunStep(h)
        <5>0. \A f : Becomes(h, f) => run'[h] = f
          BY <1>1 DEF TypeOK
        <5>1. Start(h) \/ Succeed(h) \/ Fail(h) => run'[h].pc \in {"create", "done", "idle"}
          <6>1. Fail(h) => run'[h].pc = "idle"
            <7>1. Idle.pc = "idle"
              BY DEF Idle
            <7>2. QED
              BY <1>1, <7>1 DEF TypeOK, Fail
          <6>2. Succeed(h) => run'[h].pc = "done"
            BY <5>0 DEF Succeed, Idle
          <6>3. Start(h) => run'[h].pc = "create"
            BY <5>0 DEF Start, Idle
          <6>4. QED
            BY <6>1, <6>2, <6>3
        <5>2. CreateEncryptedBackup(h) => run'[h].pc = "upload"
          BY <1>1, <1>2 DEF TypeOK, CreateEncryptedBackup, Frame
        <5>3. EndUpload(h) \/ Verify(h) \/ List(h) => run'[h].pc \in {"verify", "list", "judge"}
          <6>1. EndUpload(h) => run'[h].pc = "verify"
            BY <1>2, <5>0, ZenonT(60) DEF EndUpload, Frame
          <6>2. Verify(h) => run'[h].pc = "list"
            BY <1>2, <5>0, ZenonT(60) DEF Verify, Frame
          <6>3. List(h) => run'[h].pc = "judge"
            BY <1>2, <5>0, ZenonT(60) DEF List, Frame
          <6>4. QED
            BY <6>1, <6>2, <6>3
        <5>4. Judge(h) => run'[h].pc = "judge"
          BY <1>1, <1>2 DEF TypeOK, Judge, Frame
        <5>5. Select(h) \/ Remove(h) => run'[h].pc = "remove"
          <6>1. Select(h) => run'[h].pc = "remove"
            <7>1. PICK gone :
                    gone = {p \in run[h].valid : IsBeyondMinimum(h, p) /\ IsExpired(h, p)}
              OBVIOUS
            <7>2. Select(h) => run'[h] = [run[h] EXCEPT !.pc = "remove", !.seen = Nothing,
                                                        !.valid = {}, !.doomed = gone]
              BY <1>1, <7>1 DEF TypeOK, Select
            <7>3. QED
              BY <1>2, <7>2 DEF Frame
          <6>2. Remove(h) => run'[h].pc = "remove"
            BY <1>1, <1>2 DEF TypeOK, Remove, Frame
          <6>3. QED
            BY <6>1, <6>2
        <5>6. QED
          BY <2>3, <3>1, <4>2, <5>1, <5>2, <5>3, <5>4, <5>5 DEF RunStep
      <4>3. CASE run' = run
        BY <3>2, <4>3
      <4>4. QED
        BY <4>1, <4>2, <4>3 DEF Next, vars, MakeDatabase, AddKey, SwitchKey, RetireKey, Tick
  <2>4. QED
    BY <2>2, <2>3 DEF FilesArePast
<1>5. TimesAreRead'
  <2> SUFFICES ASSUME NEW g \in Run, NEW p \in run'[g].listed \cup run'[g].valid, Exists(p)'
               PROVE  /\ run'[g].seen[p] <= offsite'[p].mtime
                      /\ \/ run'[g].seen[p] = offsite'[p].mtime
                         \/ run'[g].began <= run'[g].seen[p] + Patience
    BY DEF TimesAreRead
  <2>1. CASE /\ offsite' = offsite /\ \A q \in Package : run'[g].seen[q] = offsite[q].mtime
             /\ run'[g].listed \subseteq Package /\ run'[g].valid = {}
    BY <1>2, <2>1
  <2>2. CASE /\ run'[g].seen = run[g].seen /\ run'[g].began = run[g].began
             /\ p \in run[g].listed \cup run[g].valid
    <3>1. p \in Package /\ offsite[p].status # "none"
      BY <1>2, <2>2 DEF IInv, ListsAreOfFiles
    <3>2. CASE offsite'[p] = offsite[p]
      BY <2>2, <3>1, <3>2 DEF CInv, TimesAreRead, Exists
    <3>3. CASE offsite'[p] # offsite[p]
      <4>1. /\ offsite[p].status = "partial" /\ offsite[p].mtime <= offsite'[p].mtime
            /\ \E o \in Run : UnderWay(o) /\ run[o].began <= offsite[p].mtime
        BY <1>1, <3>1, <3>3 DEF FilesTell, Exists
      <4>2. PICK o \in Run : UnderWay(o) /\ run[o].began <= offsite[p].mtime
        BY <4>1
      <4>3. /\ run[g].seen[p] <= offsite[p].mtime
            /\ \/ run[g].seen[p] = offsite[p].mtime
               \/ run[g].began <= run[g].seen[p] + Patience
        BY <2>2, <4>1 DEF CInv, TimesAreRead, Exists
      <4>4. now <= run[o].began + Patience
        BY <4>2 DEF IInv, RunsAreYoung
      <4>5. UnderWay(g) /\ run[g].began <= now
        <5>1. run[g].pc = "judge"
          BY <2>2 DEF IInv, ListsAreOfFiles
        <5>2. QED
          BY <5>1 DEF IInv, RunsAreYoung, UnderWay
      <4>6. run[g].began <= run[g].seen[p] + Patience
        <5>1. run[g].began \in Nat /\ run[o].began \in Nat
          BY <1>2 DEF Frame
        <5>2. QED
          BY <1>2, <3>1, <4>2, <4>3, <4>4, <4>5, <5>1, RunsAreShort
      <4>7. offsite'[p].mtime \in Nat
        BY <1>2, <3>1 DEF File
      <4>8. QED
        BY <1>2, <2>2, <3>1, <4>1, <4>3, <4>6, <4>7
    <3>4. QED
      BY <3>2, <3>3
  <2>3. QED
    BY <1>1, <2>1, <2>2 DEF FramesTell
<1>6. JudgedIsCovered'
  <2> SUFFICES ASSUME NEW g \in Run, NEW p \in run'[g].valid
               PROVE  \/ IsIntact(p)'
                      \/ offsite'[p].status = "removed" /\ IsCovered(run[g].seen[p], p)'
    BY DEF JudgedIsCovered
  <2>1. run'[g].seen = run[g].seen
    <3>1. run'[g].valid # {}
      OBVIOUS
    <3>2. QED
      BY <1>1, <3>1 DEF FramesTell
  <2>2. CASE p \in run[g].valid
    <3>1. p \in Package /\ run[g].seen[p] \in Nat /\ offsite[p].status # "none"
      BY <1>2, <2>2 DEF IInv, ListsAreOfFiles
    <3>t. PICK t \in Nat : t = run[g].seen[p]
      BY <3>1
    <3>2. IsCovered(t, p) => IsCovered(t, p)'
      BY <1>3, <3>1
    <3>a. IsCovered(t, p)' => IsCovered(run[g].seen[p], p)'
      BY <2>1, <3>t DEF IsCovered, Ahead
    <3>3. IsIntact(p) \/ (offsite[p].status = "removed" /\ IsCovered(t, p))
      BY <2>2, <3>t DEF CInv, JudgedIsCovered
    <3>4. CASE offsite'[p] = offsite[p]
      BY <3>2, <3>a, <3>3, <3>4
    <3>5. CASE offsite'[p] # offsite[p]
      <4>1. /\ IsIntact(p) /\ IsCovered(offsite[p].mtime, p) /\ offsite'[p].status = "removed"
        BY <1>1, <3>1, <3>3, <3>5 DEF FilesTell
      <4>2. t <= offsite[p].mtime
        BY <2>2, <3>t, <4>1 DEF CInv, TimesAreRead, Exists
      <4>3. IsCovered(t, p)
        BY <1>1, <1>2, <3>1, <4>1, <4>2, CoverGrows
      <4>4. QED
        BY <3>2, <3>a, <4>1, <4>3
    <3>6. QED
      BY <3>4, <3>5
  <2>3. CASE IsIntact(p) /\ offsite' = offsite
    BY <2>3
  <2>4. QED
    BY <1>1, <2>2, <2>3 DEF FramesTell
<1>7. DoomedIsCovered'
  <2> SUFFICES ASSUME NEW g \in Run, NEW p \in run'[g].doomed, Exists(p)'
               PROVE  IsIntact(p)' /\ IsCovered(offsite[p].mtime, p)'
    BY DEF DoomedIsCovered
  <2>1. p \in Package /\ offsite'[p].status # "none" /\ offsite'[p].status # "removed"
    BY <1>2, <1>1 DEF Exists, TypeOK, Frame
  <2>2. ASSUME IsIntact(p), IsCovered(offsite[p].mtime, p), offsite'[p] = offsite[p]
        PROVE  IsIntact(p)' /\ IsCovered(offsite[p].mtime, p)'
    <3>t. PICK t \in Nat : t = offsite[p].mtime
      BY <1>2, <2>1
    <3>1. IsCovered(t, p)'
      BY <1>3, <2>1, <2>2, <3>t
    <3>2. QED
      BY <2>2, <3>t, <3>1 DEF IsCovered, Ahead
  <2>3. CASE p \in run[g].doomed
    <3>1. offsite[p].status # "none"
      BY <2>3 DEF IInv, ListsAreOfFiles
    <3>2. Exists(p)
      BY <1>1, <2>1, <3>1 DEF FilesTell, Exists
    <3>3. IsIntact(p) /\ IsCovered(offsite[p].mtime, p)
      BY <2>3, <3>2 DEF CInv, DoomedIsCovered
    <3>4. offsite'[p] = offsite[p]
      BY <1>1, <2>1, <3>3 DEF FilesTell
    <3>5. QED
      BY <2>2, <3>3, <3>4
  <2>4. CASE /\ offsite' = offsite /\ UnderWay(g) /\ p \in run[g].valid
             /\ IsBeyondMinimum(g, p) /\ IsExpired(g, p)
    <3>1. Exists(p)
      BY <2>1, <2>4 DEF Exists
    <3>2. IsIntact(p) /\ IsCovered(offsite[p].mtime, p)
      BY <2>4, <3>1, SelectedIsCovered
    <3>3. QED
      BY <2>2, <2>4, <3>2
  <2>5. QED
    BY <1>1, <2>3, <2>4 DEF FramesTell
<1>8. QED
  BY <1>4, <1>5, <1>6, <1>7 DEF CInv

LEMMA CoverInvariance == Spec => []CInv
  BY CoveredFromStart, CoverIsKept, Invariance, PTL DEF Spec

\* Whatever runs overlap, die in a copy or hold an older key ring, and whatever
\* the mount has damaged: after a removal by enforceBackupRetention as many
\* packages as must be kept can be restored with the keys of the .env file.
THEOREM RetentionLeavesEnough == Spec => CopiesSuffice
<1>1. ASSUME IInv, CInv, [Next]_vars,
             NEW p \in Package, Exists(p), offsite'[p].status = "removed"
      PROVE  Cardinality(Recoverable') >= MinimumCopies
  <2>1. IInv' /\ TypeOK' /\ FilesTell /\ offsite[p].mtime \in Nat
    BY <1>1, Inductive, StepsTellFiles DEF IInv, TypeOK, File
  <2>2. IsCovered(offsite[p].mtime, p)
    BY <1>1, <2>1 DEF FilesTell, Exists
  <2>3. PICK t \in Nat : t = offsite[p].mtime
    BY <2>1
  <2>4. IsCovered(t, p)'
    BY <1>1, <2>1, <2>2, <2>3, CoverLasts DEF IInv
  <2>5. Ahead(t, p)' \subseteq Recoverable'
    BY <2>1 DEF Ahead, Recoverable, Restores, IInv, KeysAreHeld, Exists
  <2>6. IsFiniteSet(Recoverable')
    BY PackagesAreOrdered, FS_Subset DEF Recoverable
  <2>7. /\ Cardinality(Ahead(t, p)') <= Cardinality(Recoverable')
        /\ Cardinality(Ahead(t, p)') \in Nat /\ Cardinality(Recoverable') \in Nat
    BY <2>5, <2>6, FS_Subset, FS_CardinalityType
  <2>8. QED
    BY <2>4, <2>7, CopiesAreKept DEF IsCovered
<1>2. IInv /\ CInv /\ [Next]_vars =>
        [(\E p \in Package : Exists(p) /\ offsite'[p].status = "removed")
           => Cardinality(Recoverable') >= MinimumCopies]_vars
  BY <1>1
<1> QED
  BY <1>2, Invariance, CoverInvariance, PTL DEF Spec, CopiesSuffice

===============================================================================
