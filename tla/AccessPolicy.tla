----------------------------- MODULE AccessPolicy -----------------------------
(***************************************************************************)
(* Who may do what: domain/policy.ts over the rows of projects, members,   *)
(* environments and guardians.                                             *)
(*                                                                         *)
(* An environment is created together with its resource and neither is     *)
(* deleted, so an environment is known by its resource.  hasCapability is  *)
(* over the rows of one moment.  The code reads the member row before the  *)
(* guardian row, which is the same where a capability rests on one of them *)
(* that can change, as those do that the routes of SecretAccess ask for.   *)
(* Those of the lists rest on both: MetadataPages reads them apart.        *)
(***************************************************************************)
EXTENDS Integers, FiniteSets

CONSTANTS
    User,      \* Discord users
    Project,   \* ids of projects
    Resource,  \* ids of resources
    None       \* no user, project, resource or record

MemberRole == {"READER", "WRITER"}
GuardianRole == {"OWNER", "GUARDIAN"}

ASSUME NoneIsNothing ==
    None \notin User \cup Project \cup Resource \cup MemberRole \cup GuardianRole

VARIABLES
    owner,     \* owner[p]: the owner of the project, None while it does not exist
    member,    \* member[p][u]: the role of the ProjectMember row
    home,      \* home[r]: the project of the resource's environment
    guardian   \* guardian[r][u]: the role of the Guardian row

policyVars == <<owner, member, home, guardian>>

PolicyTypeOK ==
    /\ owner \in [Project -> User \cup {None}]
    /\ member \in [Project -> [User -> MemberRole \cup {None}]]
    /\ home \in [Resource -> Project \cup {None}]
    /\ guardian \in [Resource -> [User -> GuardianRole \cup {None}]]

\* An environment belongs to a project.
HomesExist == \A r \in Resource : home[r] # None => owner[home[r]] # None

IsLinked(r) == home[r] # None
HomeOwner(r) == owner[home[r]]

-------------------------------------------------------------------------------
(* Guardians                                                                 *)

GuardianRows(r) ==
    {[user |-> u, role |-> guardian[r][u]] : u \in {v \in User : guardian[r][v] # None}}

\* Mutant: a stale OWNER row of a linked resource keeps its force.
EffectiveGuardiansWithStale(r) ==
    IF ~IsLinked(r) THEN GuardianRows(r)
    ELSE {g \in GuardianRows(r) : g.user # HomeOwner(r)}
           \cup {[user |-> HomeOwner(r), role |-> "OWNER"]}

\* The owner of the project is the owner of a linked resource, whatever its
\* guardian rows say.
EffectiveGuardians(r) ==
    IF ~IsLinked(r) THEN GuardianRows(r)
    ELSE {g \in GuardianRows(r) : g.role = "GUARDIAN" /\ g.user # HomeOwner(r)}
           \cup {[user |-> HomeOwner(r), role |-> "OWNER"]}

IsEffectiveGuardian(r, u) ==
    IF IsLinked(r) THEN HomeOwner(r) = u \/ guardian[r][u] = "GUARDIAN"
    ELSE guardian[r][u] # None

IsEffectiveOwner(r, u) ==
    IF IsLinked(r) THEN HomeOwner(r) = u ELSE guardian[r][u] = "OWNER"

OwnedResources(u) == {r \in Resource : IsLinked(r) /\ HomeOwner(r) = u}
GuardedResources(u) ==
    OwnedResources(u) \cup
    {r \in Resource :
        \/ guardian[r][u] = "GUARDIAN"
        \/ guardian[r][u] = "OWNER" /\ (IsLinked(r) => HomeOwner(r) = u)}

-------------------------------------------------------------------------------
(* Capabilities                                                              *)

ViewProject == {"project.view", "project.members.view", "environment.view"}
ManageProject ==
    {"project.update", "project.delete", "project.transfer", "project.members.manage",
     "environment.create", "environment.delete", "audit.full.read"}
EditProject == {"environment.update", "audit.operational.read"}
ReadSecret == {"secret.metadata.read", "secret.value.read", "totp.metadata.read"}
WriteSecret == {"secret.write", "secret.delete"}
ManageResource ==
    {"resource.policy.manage", "resource.delete", "resource.api-key.list",
     "resource.api-key.mint", "resource.api-key.rotate", "resource.api-key.revoke",
     "totp.code.read", "totp.link.manage", "guardian.view", "guardian.manage"}
ViewQueue == {"guardian.context.read", "request.queue.view", "audit.queue.read"}
OwnRequest == {"request.view-own", "request.cancel-own"}
OwnAccount == {"totp.metadata.read", "totp.recovery.read", "totp.account.manage"}
Create == {"project.create", "resource.create", "request.create"}
Special == {"resource.view", "request.decide", "grant.consume", "audit.own.read",
            "audit.export", "token.manage-own"}

Capability ==
    ViewProject \cup ManageProject \cup EditProject \cup ReadSecret \cup WriteSecret
    \cup ManageResource \cup ViewQueue \cup OwnRequest \cup OwnAccount \cup Create
    \cup Special

\* What a role gives.  PendingGuardian and NamedRequester are a guardian and a
\* requester of the request in the context, which asks for the very secret in
\* it; CodeOwner and Custodian own the account in the context, which names no
\* resource or one that is linked to the account and to be unlinked.
Gives ==
    [ProjectOwner |-> ViewProject \cup ManageProject \cup EditProject,
     ResourceOwner |-> {"resource.view", "request.decide"} \cup ReadSecret
                         \cup WriteSecret \cup ManageResource \cup ViewQueue,
     Writer |-> ViewProject \cup EditProject \cup {"resource.view"} \cup ReadSecret
                  \cup WriteSecret,
     Reader |-> ViewProject \cup {"resource.view"} \cup ReadSecret,
     Guardian |-> {"resource.view", "request.decide"} \cup ViewQueue,
     PendingGuardian |-> {"secret.metadata.read"},
     Requester |-> {"resource.view"} \cup OwnRequest,
     NamedRequester |-> {"secret.metadata.read"},
     AccountOwner |-> OwnAccount,
     CodeOwner |-> {"totp.code.read"},
     Custodian |-> {"totp.link.manage"},
     Subject |-> {"audit.own.read"},
     Anyone |-> Create \cup {"token.manage-own"}]

\* A context with the records its ids were found under: request has resource,
\* requester, secret and pending; account has owner and the resource it is
\* linked to; grant has the requester, the resource and whether it is usable
\* for the operation.  environment names an environment by its resource.  An id
\* under which no record is found denies; no context has one.
NoContext == [project |-> None, environment |-> None, resource |-> None, secret |-> None,
              request |-> None, account |-> None, grant |-> None, subject |-> None,
              unlink |-> FALSE]
ForSecret(r, n) == [NoContext EXCEPT !.resource = r, !.secret = n]

Named(c) ==
    ({c.environment, c.resource} \ {None})
      \cup (IF c.request = None THEN {} ELSE {c.request.resource})

\* Whatever names a resource names the same, and the project is its home.
Coherent(c) ==
    /\ \A r, s \in Named(c) : r = s
    /\ c.environment # None => c.project # None
    /\ c.project # None => \A r \in Named(c) : home[r] = c.project

ProjectOf(c) ==
    IF c.project = None /\ Named(c) # {} THEN home[CHOOSE r \in Named(c) : TRUE]
    ELSE c.project

ProjectRoles(p, u) ==
    IF p = None THEN {}
    ELSE IF owner[p] = u THEN {"ProjectOwner", "ResourceOwner"}
    ELSE CASE member[p][u] = "WRITER" -> {"Writer"}
           [] member[p][u] = "READER" -> {"Reader"}
           [] OTHER -> {}

AsksForSecret(c) == c.request # None /\ c.request.secret # None /\ c.request.secret = c.secret

GuardianRoles(c, u) ==
    IF \E r \in Named(c) : guardian[r][u] = "GUARDIAN"
    THEN {"Guardian"} \cup
         (IF AsksForSecret(c) /\ c.request.pending THEN {"PendingGuardian"} ELSE {})
    ELSE IF ProjectOf(c) = None /\ \E r \in Named(c) : guardian[r][u] = "OWNER"
    THEN {"ResourceOwner"}
    ELSE {}

RequestRoles(c, u) ==
    IF c.request = None \/ c.request.requester # u THEN {}
    ELSE {"Requester"} \cup (IF AsksForSecret(c) THEN {"NamedRequester"} ELSE {})

AccountRoles(c, u) ==
    IF c.account = None \/ c.account.owner # u THEN {}
    ELSE {"AccountOwner"}
      \cup (IF c.resource = None THEN {"CodeOwner"} ELSE {})
      \cup (IF c.unlink /\ c.resource # None /\ c.account.linked = c.resource
            THEN {"Custodian"} ELSE {})

Roles(c, u) ==
    ProjectRoles(ProjectOf(c), u) \cup GuardianRoles(c, u) \cup RequestRoles(c, u)
      \cup AccountRoles(c, u)
      \cup {"Anyone"} \cup (IF c.subject = u THEN {"Subject"} ELSE {})

\* Nobody decides their own request, a decision needs a request, tokens are
\* managed by their own subject, and only the owner of the project exports.
Forbidden(cap, c, u) ==
    \/ cap = "request.decide" /\ (c.request = None \/ c.request.requester = u)
    \/ cap = "token.manage-own" /\ c.subject \notin {None, u}
    \/ cap = "audit.export" /\ "ProjectOwner" \notin Roles(c, u)

\* The read capabilities one of which an export of this target needs.
ExportNeeds(c) ==
    IF c.grant # None \/ c.request # None \/ (c.resource # None /\ c.secret # None)
    THEN {"audit.queue.read"}
    ELSE IF c.account # None THEN {}
    ELSE IF c.resource # None THEN {"audit.queue.read"}
    ELSE IF c.project # None THEN {"audit.full.read", "audit.operational.read"}
    ELSE IF c.subject # None THEN {"audit.own.read"}
    ELSE {}

UserPrincipal == {"DISCORD_USER", "PAWTHY_TOKEN"}

\* A record without scopes (None) of a user is not limited by them.
InScope(p, cap) == IF p.scopes = None THEN p.type \in UserPrincipal ELSE cap \in p.scopes

Needs(p, cap, c) ==
    IF cap = "audit.export" THEN {read \in ExportNeeds(c) : InScope(p, read)} ELSE {cap}

RolesGive(p, cap, c) ==
    /\ ~Forbidden(cap, c, p.subject)
    /\ \E ro \in Roles(c, p.subject) : Gives[ro] \cap Needs(p, cap, c) # {}

GrantCovers(p, c) ==
    /\ c.grant # None
    /\ c.grant.usable /\ c.grant.requester = p.subject
    /\ c.grant.resource \in Named(c)

\* A principal has a type, a subject, scopes and the kind and id of what it is
\* bound to, if it is a service.
DiscordPrincipal(u) == [type |-> "DISCORD_USER", subject |-> u, scopes |-> None,
                        bound |-> None, target |-> None]

IsAboutSubject(c) == c = [NoContext EXCEPT !.subject = c.subject] /\ c.subject # None

IsBound(p, c) ==
    CASE p.bound = "RESOURCE" -> p.target \in Named(c)
      [] p.bound = "ENVIRONMENT" -> /\ p.target \in Named(c) /\ IsLinked(p.target)
                                    /\ c.environment # None \/ c.project = None
      [] p.bound = "PROJECT" -> p.target = ProjectOf(c)
      [] p.bound = "ACCOUNT" -> IsAboutSubject(c) /\ p.target = c.subject
                                  /\ p.target = p.subject
      [] OTHER -> FALSE

ServiceHas(p, cap, c) ==
    \/ Coherent(c) /\ IsBound(p, c)
    \/ p.bound = None /\ cap = "audit.export" /\ IsAboutSubject(c) /\ c.subject = p.subject

KeyHas(p, cap, c) ==
    /\ Coherent(c)
    /\ \/ cap = "request.create" /\ p.subject \in Named(c)
       \/ cap = "audit.own.read" /\ p.subject = c.subject
       \/ cap = "grant.consume" /\ GrantCovers(p, c)

UserHas(p, cap, c) ==
    /\ Coherent(c)
    /\ RolesGive(p, cap, c) \/ (cap = "grant.consume" /\ GrantCovers(p, c))

HasCapability(p, cap, c) ==
    /\ InScope(p, cap)
    /\ CASE p.type = "SERVICE" -> ServiceHas(p, cap, c)
         [] p.type = "RESOURCE_API_KEY" -> KeyHas(p, cap, c)
         [] p.type \in UserPrincipal -> UserHas(p, cap, c)

-------------------------------------------------------------------------------
(* Roles asked for without hasCapability                                     *)

\* The test of PUT .../secrets.  The scopes of the token play no part in it.
HasWriteAccess(p, u) == owner[p] = u \/ member[p][u] = "WRITER"

-------------------------------------------------------------------------------
(* Properties                                                                *)

\* The ways in which the program asks whether somebody is an owner, a guardian
\* or a writer agree: isEffectiveOwner (adding and removing guardians),
\* getEffectiveGuardians (whom a request notifies), isEffectiveGuardian,
\* getGuardedResourcesForUser (what Discord offers), the write test of PUT
\* .../secrets and hasCapability.  A row says OWNER for somebody who does not
\* own the project of the resource: none of them may believe it.
AuthoritiesAgree ==
    \A r \in Resource, u \in User :
        LET may(cap) ==
                HasCapability(DiscordPrincipal(u), cap, [NoContext EXCEPT !.resource = r])
        IN  /\ IsEffectiveOwner(r, u)
                 <=> [user |-> u, role |-> "OWNER"] \in EffectiveGuardians(r)
            /\ IsEffectiveOwner(r, u) <=> may("guardian.manage")
            /\ IsEffectiveGuardian(r, u) <=> \E g \in EffectiveGuardians(r) : g.user = u
            /\ IsEffectiveGuardian(r, u) <=> r \in GuardedResources(u)
            /\ IsEffectiveGuardian(r, u) <=> may("request.queue.view")
            /\ IsLinked(r) => (HasWriteAccess(home[r], u) <=> may("secret.write"))
===============================================================================
