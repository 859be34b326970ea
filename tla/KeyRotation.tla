------------------------------ MODULE KeyRotation ------------------------------
(***************************************************************************)
(* scripts/rotate-keys.ts beside the running bot: rotateEncryptedModel     *)
(* pages through the ResourceField rows, re-encrypts each value that it    *)
(* read with the page and verifies it; then DEPLOY.md has the operator     *)
(* enter the new key and restart the bot.  TOTP accounts go through the    *)
(* same function first and are left out, as is the backup before it.       *)
(***************************************************************************)
EXTENDS SecretAccess

CONSTANT BatchSize  \* rows of a page

ASSUME BatchSizeAssumption == BatchSize \in Nat \ {0}
ASSUME TableIsFinite == IsFiniteSet(Resource) /\ IsFiniteSet(Name)

VARIABLES
    rot,        \* the run of the script
    disturbed   \* history: the bot has written fields since the run began

vars == <<secretVars, rot, disturbed>>

Rotation == [pc : {"idle", "page", "row", "verify", "succeeded", "failed"},
             total : Nat, skip : Nat, page : SUBSET Row, failed : BOOLEAN]
NoRun == [pc |-> "idle", total |-> 0, skip |-> 0, page |-> {}, failed |-> FALSE]

TypeOK ==
    /\ SecretTypeOK
    /\ rot \in Rotation
    /\ disturbed \in BOOLEAN

Init == SecretInit /\ rot = NoRun /\ disturbed = FALSE

Table == {field[r][n] : r \in Resource, n \in Name} \ {NoRow}
Ids == {row.id : row \in Table}
IsRunning == rot.pc \in {"page", "row", "verify"}

-------------------------------------------------------------------------------
(* The script                                                                *)

\* count() once, before the first page.
StartRun ==
    /\ rot.pc \in {"idle", "failed"} /\ botKey = "old"
    /\ rot' = [NoRun EXCEPT !.pc = "page", !.total = Cardinality(Ids)]
    /\ disturbed' = FALSE
    /\ UNCHANGED secretVars

\* findMany(take, skip) by id, which says nothing of the order of creation.
Page ==
    {row \in Table : LET before == Cardinality({i \in Ids : i < row.id})
                     IN  before >= rot.skip /\ before < rot.skip + BatchSize}

ReadPage ==
    /\ rot.pc = "page" /\ rot.skip < rot.total
    /\ rot' = [rot EXCEPT !.pc = "row", !.page = Page]
    /\ UNCHANGED <<secretVars, disturbed>>

\* Mutant: the next page begins one row late.
TurnPageLate ==
    /\ rot.pc = "row" /\ rot.page = {}
    /\ rot' = [rot EXCEPT !.pc = "page", !.skip = @ + BatchSize + 1]
    /\ UNCHANGED <<secretVars, disturbed>>

TurnPage ==
    /\ rot.pc = "row" /\ rot.page = {}
    /\ rot' = [rot EXCEPT !.pc = "page", !.skip = @ + BatchSize]
    /\ UNCHANGED <<secretVars, disturbed>>

\* The row of the page that is handled, as it was read.
IsNext(row) == row \in rot.page /\ \A o \in rot.page : row.id <= o.id

Done(row, failed) ==
    rot' = [rot EXCEPT !.pc = "row", !.page = @ \ {row}, !.failed = @ \/ failed]

\* What cannot be decrypted with the old key and looks encrypted is a failure.
Refuse(row) ==
    /\ rot.pc = "row" /\ IsNext(row) /\ row.key = "new"
    /\ Done(row, TRUE)
    /\ UNCHANGED <<secretVars, disturbed>>

\* A row that is rewritten from what the page said of it.
Rewritten(row, now) == [now EXCEPT !.value = row.value, !.key = "new"]

\* update by id, whatever the row has become since; its version stays.
Rotate(row) ==
    /\ rot.pc = "row" /\ IsNext(row) /\ row.key # "new"
    /\ IF \E now \in Table : now.id = row.id
       THEN /\ field' = [r \in Resource |-> [n \in Name |->
                           IF field[r][n].id = row.id THEN Rewritten(row, field[r][n])
                           ELSE field[r][n]]]
            /\ rot' = [rot EXCEPT !.pc = "verify"]
       ELSE Done(row, TRUE) /\ UNCHANGED field
    /\ UNCHANGED <<policyVars, policy, version, drawn, botKey, call, disturbed>>

Verify(row) ==
    /\ rot.pc = "verify" /\ IsNext(row)
    /\ Done(row, ~\E now \in Table : /\ now.id = row.id
                                     /\ now.key = "new" /\ now.value = row.value)
    /\ UNCHANGED <<secretVars, disturbed>>

FinishRun ==
    /\ rot.pc = "page" /\ rot.skip >= rot.total
    /\ rot' = [rot EXCEPT !.pc = IF rot.failed THEN "failed" ELSE "succeeded"]
    /\ UNCHANGED <<secretVars, disturbed>>

\* The script dies; what it has written stays.
Die ==
    /\ IsRunning
    /\ rot' = NoRun
    /\ UNCHANGED <<secretVars, disturbed>>

\* The operator enters the new key and restarts the bot, which ends its calls.
RestartBot ==
    /\ rot.pc = "succeeded"
    /\ botKey' = "new"
    /\ call' = [k \in Call |-> Idle]
    /\ rot' = NoRun
    /\ UNCHANGED <<policyVars, policy, version, field, drawn, disturbed>>

RunStep ==
    \/ StartRun \/ ReadPage \/ TurnPage \/ FinishRun \/ Die \/ RestartBot
    \/ \E row \in rot.page : Refuse(row) \/ Rotate(row) \/ Verify(row)

\* The bot takes no notice of the script.
BotStep ==
    /\ SecretNext
    /\ disturbed' = (disturbed \/ (rot.pc # "idle" /\ field' # field))
    /\ UNCHANGED rot

Next == BotStep \/ RunStep
Spec == Init /\ [][Next]_vars

-------------------------------------------------------------------------------
(* Properties                                                                *)

\* A run that reports success, and whose rows the bot has left alone until the
\* operator restarts it, leaves every value under the new key.
RotationIsComplete ==
    rot.pc = "succeeded" /\ ~disturbed => \A row \in Table : row.key = "new"

\* An approval is bound to versions, so nothing that matters to it may change
\* under them: neither the value of a field without the version of its row, nor
\* who may use or approve the use of the resource without the version of the
\* policy.  A run of rotate-keys that the bot writes beside may put an old value
\* under a new version, and is excepted.
VersionsTellChanges ==
    [][\A r \in Resource :
         /\ \A n \in Name :
              field'[r][n].value # field[r][n].value
                => TargetVersion(r, n)' # TargetVersion(r, n) \/ disturbed
         /\ Authority(r)' # Authority(r) => PolicyVersion(r)' # PolicyVersion(r)]_vars
===============================================================================
