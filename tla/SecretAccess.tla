----------------------------- MODULE SecretAccess -----------------------------
(***************************************************************************)
(* Secrets of resources and the operations that decide who may use them:   *)
(* ProjectService of domain/project.ts, createResource, addGuardian,       *)
(* removeGuardian, createField, deleteField, revealField and setSecrets of *)
(* domain/services.ts, and the routes that call them.                      *)
(*                                                                         *)
(* A handler decides, looks at what is stored and writes in a transaction  *)
(* of its own, each an await; between any two other handlers run.  What    *)
(* neither changes nor ends (project, environment, resource) is read       *)
(* without a step.  setSecrets looks for existing fields with a client     *)
(* that is not its transaction's: SQLite admits one writer, so only what   *)
(* it looks at before its first write, the first key, can be out of date.  *)
(***************************************************************************)
EXTENDS AccessPolicy, FiniteSetsExt, Functions

CONSTANTS
    Name,         \* names of fields
    Value,        \* values of fields
    RowId,        \* ids that ResourceField rows draw at random
    Principal,    \* the authenticated principals that requests come from
    Call,         \* requests that may be handled at the same time
    MaxVersion    \* bound: how often the version of a resource or project is drawn

ASSUME RowIdAssumption == RowId \subseteq Nat /\ None \notin RowId

VARIABLES
    policy,    \* policy[p]: policyVersion of the project
    version,   \* version[r]: version of the resource, 0 while it does not exist
    field,     \* field[r][n]: the ResourceField row
    drawn,     \* ids that rows have or had
    botKey,    \* the ENCRYPTION_KEY that the bot runs with
    call       \* call[k]: what a handler has read so far

secretVars == <<policyVars, policy, version, field, drawn, botKey, call>>

Operation == {"put", "create", "delete", "reveal"}
CipherKey == {"old", "new", "plain"}
Row == [id : RowId, value : Value, version : Nat, key : CipherKey]
NoRow == [id |-> None, value |-> None, version |-> 0, key |-> "plain"]

Token(u, s) == [type |-> "PAWTHY_TOKEN", subject |-> u, scopes |-> s,
                bound |-> "ACCOUNT", target |-> u]

ASSUME PrincipalAssumption ==
    \A p \in Principal :
        /\ p.subject \in User
        /\ \/ p = DiscordPrincipal(p.subject)
           \/ p = Token(p.subject, p.scopes) /\ p.scopes \subseteq Capability

NoPrincipal == [type |-> None, subject |-> None, scopes |-> None, bound |-> None,
                target |-> None]

\* row is what the handler found under the name; rightful is history: the
\* caller had the right to the operation at some moment since the call began.
Frame == [pc : {"idle", "asked", "admitted", "decided", "looked"},
          op : Operation \cup {None},
          principal : Principal \cup {NoPrincipal}, resource : Resource \cup {None},
          project : Project \cup {None}, name : Name \cup {None},
          rest : SUBSET Name, value : Value \cup {None},
          row : Row \cup {NoRow}, rightful : BOOLEAN]
Idle == [pc |-> "idle", op |-> None, principal |-> NoPrincipal, resource |-> None,
         project |-> None, name |-> None, rest |-> {}, value |-> None,
         row |-> NoRow, rightful |-> FALSE]

SecretTypeOK ==
    /\ PolicyTypeOK
    /\ policy \in [Project -> Nat]
    /\ version \in [Resource -> Nat]
    /\ field \in [Resource -> [Name -> Row \cup {NoRow}]]
    /\ drawn \subseteq RowId
    /\ botKey \in {"old", "new"}
    /\ call \in [Call -> Frame]

Exists(r) == version[r] > 0
IsStored(r, n) == field[r][n].id # None

\* A database without resources, or one that the hardening migration found:
\* guardian rows of then may say OWNER for anybody, and a value may be stored
\* without encryption.
SecretInit ==
    /\ owner \in [Project -> User \cup {None}]
    /\ member = [p \in Project |-> [u \in User |-> None]]
    /\ home \in [Resource -> {p \in Project : owner[p] # None} \cup {None}]
    /\ version \in [Resource -> {0, 1}]
    /\ \A r \in Resource : Exists(r) <=> IsLinked(r)
    /\ guardian \in [Resource -> [User -> {"OWNER", None}]]
    /\ \A r \in Resource : ~Exists(r) => \A u \in User : guardian[r][u] = None
    /\ policy \in [Project -> {0, 1}]
    /\ \A p \in Project : policy[p] = 0 <=> owner[p] = None
    /\ drawn \in {{}} \cup {{i} : i \in RowId}
    /\ \E r \in Resource, n \in Name, v \in Value, k \in {"old", "plain"} :
          /\ drawn # {} => Exists(r)
          /\ field = [s \in Resource |-> [m \in Name |->
                        IF s = r /\ m = n /\ drawn # {}
                        THEN [id |-> CHOOSE i \in drawn : TRUE, value |-> v,
                              version |-> 1, key |-> k]
                        ELSE NoRow]]
    /\ botKey = "old"
    /\ call = [k \in Call |-> Idle]

-------------------------------------------------------------------------------
(* Rights                                                                    *)

\* The role summary of rbac-dashboard-knowledgebase.md, section 6.2: owners and
\* writers of a project write the secrets of its resources, readers read them;
\* a standalone resource has its owner alone.
HasRight(op, r, u) ==
    IF IsLinked(r)
    THEN \/ HomeOwner(r) = u \/ member[home[r]][u] = "WRITER"
         \/ op = "reveal" /\ member[home[r]][u] = "READER"
    ELSE guardian[r][u] = "OWNER"

Rights == {a \in Operation \X Resource \X User : HasRight(a[1], a[2], a[3])}

\* Remembers in every call the rights that its caller has after this step.
CallsAfterChange ==
    call' = [k \in Call |->
               [call[k] EXCEPT !.rightful =
                  @ \/ <<call[k].op, call[k].resource, call[k].principal.subject>> \in Rights']]

-------------------------------------------------------------------------------
(* Projects, environments, members and guardians                             *)

CreateProject(p, u) ==
    /\ owner[p] = None
    /\ owner' = [owner EXCEPT ![p] = u]
    /\ policy' = [policy EXCEPT ![p] = 1]
    /\ UNCHANGED <<member, home, guardian, version, field, drawn, botKey, call>>

\* createResource: by the owner of p for an environment, or standalone (p = None).
CreateResource(r, p, u) ==
    /\ ~Exists(r)
    /\ p # None => owner[p] = u
    /\ home' = [home EXCEPT ![r] = p]
    /\ guardian' = [guardian EXCEPT ![r][u] = "OWNER"]
    /\ version' = [version EXCEPT ![r] = 1]
    /\ UNCHANGED <<owner, member, policy, field, drawn, botKey, call>>

\* addMember by the owner: a row that is there gets the new role.
AddMember(p, u, ro) ==
    /\ owner[p] # None /\ policy[p] < MaxVersion
    /\ member' = [member EXCEPT ![p][u] = ro]
    /\ policy' = [policy EXCEPT ![p] = @ + 1]
    /\ UNCHANGED <<owner, home, guardian, version, field, drawn, botKey>>
    /\ CallsAfterChange

\* Mutant: policyVersion is drawn anew only where roles are given.
RemoveMemberQuietly(p, u) ==
    /\ member[p][u] # None
    /\ member' = [member EXCEPT ![p][u] = None]
    /\ UNCHANGED <<owner, home, guardian, policy, version, field, drawn, botKey>>
    /\ CallsAfterChange

\* removeMember by the owner: without a row only the audit log changes.
RemoveMember(p, u) ==
    /\ member[p][u] # None /\ policy[p] < MaxVersion
    /\ member' = [member EXCEPT ![p][u] = None]
    /\ policy' = [policy EXCEPT ![p] = @ + 1]
    /\ UNCHANGED <<owner, home, guardian, version, field, drawn, botKey>>
    /\ CallsAfterChange

NewVersion(r) ==
    /\ version[r] < MaxVersion
    /\ version' = [version EXCEPT ![r] = @ + 1]

SetGuardian(r, u, ro) ==
    /\ guardian' = [guardian EXCEPT ![r][u] = ro]
    /\ NewVersion(r)
    /\ UNCHANGED <<owner, member, home, policy, field, drawn, botKey>>
    /\ CallsAfterChange

\* addGuardian by an effective owner; the unique index refuses a second row.
AddGuardian(r, u) ==
    /\ Exists(r) /\ guardian[r][u] = None
    /\ \E actor \in User : IsEffectiveOwner(r, actor)
    /\ SetGuardian(r, u, "GUARDIAN")

\* removeGuardian by an effective owner.  A call that found the row before
\* another call removed it removes nothing and draws the version all the same.
RemoveGuardian(r, u) ==
    /\ Exists(r) /\ guardian[r][u] # "OWNER"
    /\ \E actor \in User : IsEffectiveOwner(r, actor)
    /\ SetGuardian(r, u, None)

-------------------------------------------------------------------------------
(* The decision                                                              *)

\* A request over HTTP or a Discord command: PUT and GET are HTTP only, PUT
\* names the project and has a batch of values.
Request ==
    {q \in [op : Operation, principal : Principal, resource : Resource,
            project : Project \cup {None}, name : Name, rest : SUBSET Name,
            value : Value \cup {None}] :
        /\ q.op \in {"put", "reveal"} => q.principal.type = "PAWTHY_TOKEN"
        /\ q.op = "put" <=> q.project # None
        /\ q.op # "put" => q.rest = {}
        /\ q.name \notin q.rest
        /\ q.op \in {"put", "create"} <=> q.value # None}

Ask(k, q) ==
    /\ call[k].pc = "idle" /\ Exists(q.resource)
    /\ call' = [call EXCEPT ![k] =
                  [pc |-> "asked", op |-> q.op, principal |-> q.principal,
                   resource |-> q.resource, project |-> q.project, name |-> q.name,
                   rest |-> q.rest, value |-> q.value, row |-> NoRow,
                   rightful |-> HasRight(q.op, q.resource, q.principal.subject)]]
    /\ UNCHANGED <<policyVars, policy, version, field, drawn, botKey>>

\* Mutant: the environment is found by its id alone.
EnvironmentOfAny(prj, r) == IsLinked(r)

\* getEnvironmentById(projectId, envId).
EnvironmentOf(prj, r) == IsLinked(r) /\ home[r] = prj

NeededCapability(op) ==
    CASE op = "create" -> "secret.write" [] op = "delete" -> "secret.delete"
      [] op = "reveal" -> "secret.value.read"

IsAdmitted(f) ==
    IF f.op = "put"
    THEN HasWriteAccess(f.project, f.principal.subject) /\ EnvironmentOf(f.project, f.resource)
    ELSE HasCapability(f.principal, NeededCapability(f.op), ForSecret(f.resource, f.name))

GoTo(k, pc) == call' = [call EXCEPT ![k].pc = pc]
End(k) == call' = [call EXCEPT ![k] = Idle]

\* The route's decision, read in one or two awaits of which one can change.
Decide(k) ==
    /\ call[k].pc = "asked"
    /\ IF IsAdmitted(call[k]) THEN GoTo(k, "admitted") ELSE End(k)
    /\ UNCHANGED <<policyVars, policy, version, field, drawn, botKey>>

-------------------------------------------------------------------------------
(* Reveal                                                                    *)

\* revealField decides again and records SECRET_REVEAL before it reads the value.
DecideAgain(k) ==
    /\ call[k].pc = "admitted" /\ call[k].op = "reveal"
    /\ IF IsAdmitted(call[k]) THEN GoTo(k, "decided") ELSE End(k)
    /\ UNCHANGED <<policyVars, policy, version, field, drawn, botKey>>

-------------------------------------------------------------------------------
(* Changes of secrets                                                        *)

\* A row under another key throws where it is read.
IsReadable(row) == row.id = None \/ row.key = botKey

\* The last await of a handler that reads, the first of one that writes.
Look(k) ==
    LET row == field[call[k].resource][call[k].name]
    IN  /\ \/ call[k].pc = "decided"
           \/ call[k].pc = "admitted" /\ call[k].op # "reveal"
        /\ \/ /\ IsReadable(row)
              /\ CASE call[k].op = "create" -> row = NoRow
                   [] call[k].op = "delete" -> row # NoRow
                   [] OTHER -> call[k].op = "put"
              /\ call' = [call EXCEPT ![k].pc = "looked", ![k].row = row]
           \/ /\ ~IsReadable(row) \/ call[k].op = "reveal"
                   \/ (call[k].op = "create" /\ row # NoRow)
                   \/ (call[k].op = "delete" /\ row = NoRow)
              /\ End(k)
        /\ UNCHANGED <<policyVars, policy, version, field, drawn, botKey>>

\* A handler that throws, or whose transaction does, has changed nothing.
Throw(k) ==
    /\ call[k].pc # "idle"
    /\ End(k)
    /\ UNCHANGED <<policyVars, policy, version, field, drawn, botKey>>

Stored(k, id) ==
    [id |-> id, value |-> call[k].value, version |-> version[call[k].resource] + 1,
     key |-> botKey]

\* createField: the unique index refuses a second row.
CommitCreate(k, id) ==
    LET r == call[k].resource
    IN  /\ call[k].pc = "looked" /\ call[k].op = "create"
        /\ ~IsStored(r, call[k].name) /\ id \notin drawn
        /\ field' = [field EXCEPT ![r][call[k].name] = Stored(k, id)]
        /\ drawn' = drawn \cup {id}
        /\ NewVersion(r)
        /\ End(k)
        /\ UNCHANGED <<policyVars, policy, botKey>>

\* deleteField: by the id that was found.  Without such a row only the audit
\* log changes.
CommitDelete(k) ==
    LET r == call[k].resource
        n == call[k].name
    IN  /\ call[k].pc = "looked" /\ call[k].op = "delete"
        /\ IF field[r][n].id = call[k].row.id
           THEN field' = [field EXCEPT ![r][n] = NoRow] /\ NewVersion(r)
           ELSE UNCHANGED <<field, version>>
        /\ End(k)
        /\ UNCHANGED <<policyVars, policy, drawn, botKey>>

\* setSecrets: the whole batch or nothing.  The first key must still be as it
\* was found: an update needs the row, a create the lack of one.
CommitPut(k, ids) ==
    LET r == call[k].resource
        names == {call[k].name} \cup call[k].rest
        new == {n \in names : ~IsStored(r, n)}
    IN  /\ call[k].pc = "looked" /\ call[k].op = "put"
        /\ field[r][call[k].name].id = call[k].row.id
        /\ \A n \in call[k].rest : IsReadable(field[r][n])
        /\ ids \in [new -> RowId \ drawn] /\ IsInjective(ids)
        /\ field' = [field EXCEPT ![r] = [n \in Name |->
                        IF n \in new THEN Stored(k, ids[n])
                        ELSE IF n \in names THEN Stored(k, @[n].id)
                        ELSE @[n]]]
        /\ drawn' = drawn \cup {ids[n] : n \in new}
        /\ NewVersion(r)
        /\ End(k)
        /\ UNCHANGED <<policyVars, policy, botKey>>

-------------------------------------------------------------------------------
(* The component                                                             *)

PolicyStep ==
    \/ \E p \in Project, u \in User : CreateProject(p, u) \/ RemoveMember(p, u)
    \/ \E r \in Resource, p \in Project \cup {None}, u \in User : CreateResource(r, p, u)
    \/ \E p \in Project, u \in User, ro \in MemberRole : AddMember(p, u, ro)
    \/ \E r \in Resource, u \in User : AddGuardian(r, u) \/ RemoveGuardian(r, u)

CallStep(k) ==
    \/ \E q \in Request : Ask(k, q)
    \/ Decide(k) \/ DecideAgain(k) \/ Look(k) \/ Throw(k)
    \/ \E id \in RowId : CommitCreate(k, id)
    \/ CommitDelete(k)
    \/ \E new \in SUBSET Name : \E ids \in [new -> RowId] : CommitPut(k, ids)

SecretNext == PolicyStep \/ \E k \in Call : CallStep(k)

-------------------------------------------------------------------------------
(* Properties                                                                *)

\* Beyond its decision a call of setSecrets, createField, deleteField or
\* revealField works for somebody who had the right to it, on the resource it
\* works on, at some moment since the call began: a removal that comes late may
\* be outrun, but a role in one project never opens the environment of another.
AccessWasAuthorised ==
    \A k \in Call : call[k].pc \notin {"idle", "asked"} => call[k].rightful

\* What resolveTargetVersions binds an approval to: the version of the field
\* and the version of the policy.
TargetVersion(r, n) == field[r][n].version
PolicyVersion(r) == IF IsLinked(r) THEN <<policy[home[r]], version[r]>> ELSE <<version[r]>>

\* Who may do what with a resource.
Authority(r) ==
    [u \in User |-> <<HasRight("put", r, u), HasRight("reveal", r, u),
                      IsEffectiveOwner(r, u), IsEffectiveGuardian(r, u)>>]
===============================================================================
