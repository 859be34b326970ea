---------------------------- MODULE MetadataPages ----------------------------
(***************************************************************************)
(* Lists of metadata: MetadataQueryService of domain/metadata_queries.ts   *)
(* over RepositoryMetadataSource of domain/metadata_persistence.ts, beside *)
(* the handlers that change roles, secrets and approval requests.          *)
(*                                                                         *)
(* A client walks the pages of a list by their cursors.  The service reads *)
(* a batch of candidates, checks each against the rows once more, asks the *)
(* policy about each in turn and reads the next batch until it has a page. *)
(* A read of rows that change (members, guardians, secrets and the status  *)
(* of a request) is a step of its own.  A read of rows that only come      *)
(* (projects, environments, resources, guardians that say OWNER, requests  *)
(* but for their status) is taken together with one next to it, and so are *)
(* the queries of one Promise.all.  TOTP accounts and the filter are left  *)
(* out, and so is what of a record is only shown.                          *)
(***************************************************************************)
EXTENDS SecretAccess

CONSTANTS
    RequestId,  \* ids of approval requests, in the order of their creation
    Rank,       \* Rank[x]: the place of a project, resource or name in text order
    Reader,     \* principals that list
    PageLimit   \* limit of a query

ASSUME RequestIdAssumption ==
    RequestId \subseteq Nat /\ IsFiniteSet(RequestId) /\ None \notin RequestId
ASSUME TablesAreFinite == IsFiniteSet(Project) /\ IsFiniteSet(Resource) /\ IsFiniteSet(Name)
ASSUME RankAssumption ==
    /\ Rank \in [Project \cup Resource \cup Name -> Nat]
    /\ \A x, y \in DOMAIN Rank : Rank[x] = Rank[y] => x = y
ASSUME ReaderAssumption == Reader \subseteq {DiscordPrincipal(u) : u \in User}
ASSUME PageLimitAssumption == PageLimit \in Nat \ {0}

VARIABLES
    request,   \* request[q]: the ApprovalRequest row
    query      \* the walk of one client

listVars == <<secretVars, request, query>>

Kind == {"PROJECT", "ENVIRONMENT", "RESOURCE", "SECRET", "APPROVAL_REQUEST"}

RequestAction == {"secret.value.read", "resource.view"}

\* key is None for a request of the resource itself, and for the legacy request
\* of all its secrets at once, which resolveTargetVersions still accepts.
RequestRow ==
    [resource : Resource, requester : User, action : RequestAction,
     key : Name \cup {None}, version : Nat, pending : BOOLEAN]
NoRequest == [resource |-> None, requester |-> None, action |-> None, key |-> None,
              version |-> 0, pending |-> FALSE]

\* A record: its id, its place in the order of the list, and what it says of
\* where it belongs and of the request it was found by.
Id == Project \cup Resource \cup RowId \cup RequestId
Place == Nat \X Nat

ASSUME NoneIsNoPlace == None \notin Place

Record == [id : Id, at : Place, project : Project \cup {None},
           resource : Resource \cup {None}, name : Name \cup {None},
           version : Nat, by : RequestId \cup {None}]

\* What can show a record to somebody: the rows of the project, of the guardian
\* or of the request.
Way == {"project", "guardian", "request"}

\* within, broad, own and queued hold what the reads of a batch have found: the
\* resources of the environments of the client's projects, the secrets of those
\* that are open to them, their own requests, and the resources they guard.  batch
\* holds the candidates that are left, found those that were allowed; short: the
\* source returned fewer than it was asked for; pending: the policy has read the
\* request of a candidate as PENDING.  History: items, the ids of the last page;
\* listed, those of all pages; count, how many items the pages had; steady, what the
\* client was promised, and on which ground, at every moment since the walk began;
\* open, the requests that were pending and seen, what the client could see at some
\* moment since it asked for a page.
Walk == [pc : {"idle", "projects", "secrets", "own", "guardians", "fetch", "verify",
               "authorize", "guardian", "paged", "done", "failed"},
         kind : Kind \cup {None}, principal : Reader \cup {NoPrincipal},
         cursor : Place \cup {None}, within : SUBSET Resource, broad : SUBSET Record,
         own : SUBSET RequestId, queued : SUBSET Resource, batch : SUBSET Record,
         short : BOOLEAN, pending : BOOLEAN, found : SUBSET Record, items : SUBSET Id,
         listed : SUBSET Id, count : Nat,
         steady : SUBSET (Id \X Way \X (RequestId \cup {None})),
         open : SUBSET RequestId, seen : SUBSET Id]
NoWalk == [pc |-> "idle", kind |-> None, principal |-> NoPrincipal, cursor |-> None,
           within |-> {}, broad |-> {}, own |-> {}, queued |-> {}, batch |-> {},
           short |-> FALSE, pending |-> FALSE, found |-> {}, items |-> {}, listed |-> {},
           count |-> 0, steady |-> {}, open |-> {}, seen |-> {}]

ListTypeOK ==
    /\ SecretTypeOK
    /\ request \in [RequestId -> RequestRow \cup {NoRequest}]
    /\ query \in Walk

Made(q) == request[q] # NoRequest
AsksFor(q, r, n) ==
    /\ request[q].resource = r /\ request[q].key = n
    /\ request[q].action = "secret.value.read"
IsFor(q, r, n) == AsksFor(q, r, n) /\ request[q].version = TargetVersion(r, n)

\* The tables of before may hold a legacy request.
ListInit ==
    /\ SecretInit
    /\ request \in [RequestId -> {NoRequest} \cup
                      [resource : {r \in Resource : Exists(r)}, requester : User,
                       action : {"secret.value.read"}, key : {None}, version : {1},
                       pending : {TRUE}]]
    /\ \A q \in RequestId : Made(q) => \A o \in RequestId : q <= o
    /\ query = NoWalk

-------------------------------------------------------------------------------
(* Candidates                                                                *)

ProjectsOf(u) == {p \in Project : owner[p] = u \/ member[p][u] # None}
EnvironmentsOf(u) == {r \in Resource : IsLinked(r) /\ home[r] \in ProjectsOf(u)}
GuardedBy(u) == {r \in Resource : guardian[r][u] # None}
RequestsBy(u) == {q \in RequestId : request[q].requester = u}

\* The resources whose requests are the queue of a user: of the projects that
\* they own and of every guardian row of theirs, one that says OWNER and is stale too.
QueuedFor(u) == OwnedResources(u) \cup GuardedBy(u)
QueueOf(resources) == {q \in RequestId : Made(q) /\ request[q].resource \in resources}

Newest(ids) == IF ids = {} THEN None ELSE Max(ids)

\* The request that a resource is listed by: the last of the user's own.
RequestForResource(u, r) == Newest({q \in RequestsBy(u) : request[q].resource = r})

\* The request that a secret is listed by: the last that asks for it, those of
\* the queue after the user's own.
RequestForSecret(own, queue, r, n) ==
    LET asking == {q \in own \cup queue : IsFor(q, r, n)}
    IN  Newest(IF asking \subseteq own THEN asking ELSE asking \ own)

\* Order is by name, then by id.  An environment's record is of its resource.
RecordOf(id, at, r) ==
    [id |-> id, at |-> at, project |-> IF r = None THEN None ELSE home[r], resource |-> r,
     name |-> None, version |-> 0, by |-> None]

ProjectRecord(p) == [RecordOf(p, <<Rank[p], 0>>, None) EXCEPT !.project = p]
EnvironmentRecord(r) == RecordOf(r, <<Rank[r], 0>>, r)
ResourceRecord(r, q) == [RecordOf(r, <<Rank[r], 0>>, r) EXCEPT !.by = q]
SecretRecord(r, n, q) ==
    [RecordOf(field[r][n].id, <<Rank[n], field[r][n].id>>, r)
        EXCEPT !.name = n, !.version = field[r][n].version, !.by = q]
RequestRecord(q) ==
    [RecordOf(q, <<q, 0>>, request[q].resource)
        EXCEPT !.name = request[q].key, !.version = request[q].version, !.by = q]

\* The secrets of the resources that are open to a user: environments of their
\* projects, and those whose guardian row says OWNER.
BroadSecrets(u, within) ==
    {SecretRecord(s[1], s[2], None) : s \in
        {f \in Resource \X Name :
            IsStored(f[1], f[2]) /\ (f[1] \in within \/ guardian[f[1]][u] = "OWNER")}}

RequestedSecrets(own, queue) ==
    {SecretRecord(s[1], s[2], RequestForSecret(own, queue, s[1], s[2])) : s \in
        {f \in Resource \X Name :
            IsStored(f[1], f[2]) /\ \E q \in own \cup queue : IsFor(q, f[1], f[2])}}

\* Of two records with one id the later stays.
Overridden(records, later) ==
    {x \in records : \A y \in later : y.id # x.id} \cup later

\* The last read of each list, and what it makes of those before it.
Candidates(walk) ==
    LET u == walk.principal.subject
        queue == QueueOf(walk.queued)
    IN  CASE walk.kind = "PROJECT" -> {ProjectRecord(p) : p \in ProjectsOf(u)}
          [] walk.kind = "ENVIRONMENT" -> {EnvironmentRecord(r) : r \in EnvironmentsOf(u)}
          [] walk.kind = "RESOURCE" ->
                {ResourceRecord(r, RequestForResource(u, r)) : r \in
                    walk.within \cup walk.queued \cup {request[q].resource : q \in RequestsBy(u)}}
          [] walk.kind = "SECRET" -> Overridden(walk.broad, RequestedSecrets(walk.own, queue))
          [] walk.kind = "APPROVAL_REQUEST" -> {RequestRecord(q) : q \in walk.own \cup queue}

\* requestRecord has no record for a request of all the secrets of a resource.
HasRecord(q) == request[q].action = "secret.value.read" => request[q].key # None

\* compareTuple.
Precedes(a, b) == a[1] < b[1] \/ (a[1] = b[1] /\ a[2] < b[2])
First(records, k) ==
    {x \in records : Cardinality({y \in records : Precedes(y.at, x.at)}) < k}
Last(records) == CHOOSE x \in records : \A y \in records : ~Precedes(x.at, y.at)

\* page: sorts, leaves what the cursor has passed, takes as many as asked for.
PageOf(records, cursor, k) ==
    First({x \in records : cursor = None \/ Precedes(cursor, x.at)}, k)

\* Mutant: the source is asked for no more than the page holds.
ReturnedForPage(walk) ==
    {x \in PageOf(Candidates(walk), walk.cursor, PageLimit) :
        walk.kind = "APPROVAL_REQUEST" => HasRecord(x.id)}

\* What the source returns: listRequestCandidates makes records of its page.
Returned(walk) ==
    {x \in PageOf(Candidates(walk), walk.cursor, PageLimit + 1) :
        walk.kind = "APPROVAL_REQUEST" => HasRecord(x.id)}

-------------------------------------------------------------------------------
(* The policy                                                                *)

\* Any of these lists a record; the summary of the others is only shown.
PrimaryCapabilities ==
    [PROJECT |-> {"project.view"}, ENVIRONMENT |-> {"environment.view"},
     RESOURCE |-> {"resource.view"}, SECRET |-> {"secret.metadata.read"},
     APPROVAL_REQUEST |-> {"request.view-own", "request.queue.view"}]

RequestContext ==
    [resource : Resource, requester : User, secret : Name \cup {None}, pending : BOOLEAN]

ASSUME NoneIsNoRequest == None \notin RequestContext

IsPending(q) == q # None /\ request[q].pending

InContext(q, pending) ==
    IF q = None THEN None
    ELSE [resource |-> request[q].resource, requester |-> request[q].requester,
          secret |-> IF request[q].action = "secret.value.read" THEN request[q].key ELSE None,
          pending |-> pending]

\* The context of a record, with the status of its request as the policy read it.
ContextOf(kind, x, pending) ==
    LET within == [NoContext EXCEPT !.project = x.project,
                      !.environment = IF x.project = None THEN None ELSE x.resource]
    IN  CASE kind \in {"PROJECT", "ENVIRONMENT"} -> within
          [] kind = "SECRET" -> [within EXCEPT !.resource = x.resource, !.secret = x.name,
                                               !.request = InContext(x.by, pending)]
          [] OTHER -> [within EXCEPT !.resource = x.resource, !.request = InContext(x.by, pending)]

RolesBy(way, c, u) ==
    CASE way = "project" -> ProjectRoles(ProjectOf(c), u)
      [] way = "guardian" -> GuardianRoles(c, u)
      [] way = "request" -> RequestRoles(c, u)

\* hasCapability of one of the primary capabilities, by the rows of one way.
Shows(kind, x, way, pending, u) ==
    LET context == ContextOf(kind, x, pending)
    IN  /\ Coherent(context)
        /\ \E cap \in PrimaryCapabilities[kind], ro \in RolesBy(way, context, u) :
              cap \in Gives[ro]

Allows(kind, p, x, pending) ==
    \E cap \in PrimaryCapabilities[kind] : HasCapability(p, cap, ContextOf(kind, x, pending))

-------------------------------------------------------------------------------
(* What a list is of                                                         *)

\* Every record of the table, with every request that the policy takes for one of
\* it: one for a version of before, too.
Everything(kind) ==
    LET requests == {q \in RequestId : Made(q)}
    IN  CASE kind = "PROJECT" -> {ProjectRecord(p) : p \in {o \in Project : owner[o] # None}}
          [] kind = "ENVIRONMENT" -> {EnvironmentRecord(r) : r \in {e \in Resource : IsLinked(e)}}
          [] kind = "RESOURCE" ->
                UNION {{ResourceRecord(r, q) :
                          q \in {None} \cup {o \in requests : request[o].resource = r}} :
                       r \in {e \in Resource : Exists(e)}}
          [] kind = "SECRET" ->
                UNION {{SecretRecord(s[1], s[2], q) :
                          q \in {None} \cup {o \in requests : AsksFor(o, s[1], s[2])}} :
                       s \in {f \in Resource \X Name : IsStored(f[1], f[2])}}
          [] kind = "APPROVAL_REQUEST" -> {RequestRecord(q) : q \in requests}

\* A request counts as pending if it is one of open.
Visible(kind, p, open) == {x.id : x \in {e \in Everything(kind) : Allows(kind, p, e, e.by \in open)}}

Pending == {q \in RequestId : request[q].pending}

\* The list has a secret by one request of its version only: by the user's own
\* while the queue of the resource is not theirs, by that of somebody else while
\* it is the last.
IsListedBy(q, x, way, u) ==
    /\ IsFor(q, x.resource, x.name)
    /\ CASE way = "project" -> TRUE
         [] way = "guardian" ->
               /\ q \notin RequestsBy(u)
               /\ \A o \in RequestId \ RequestsBy(u) : IsFor(o, x.resource, x.name) => o <= q
         [] way = "request" -> x.resource \notin QueuedFor(u)

IsGround(kind, x, way, u) ==
    /\ Shows(kind, x, way, IsPending(x.by), u)
    /\ kind = "SECRET" /\ x.by # None => IsListedBy(x.by, x, way, u)

\* What is promised is a record and the ground on which it is shown: which rows
\* do, and which request.  The list of requests has a gap: a request without a
\* record ends it where it stands.
Promised(kind, p) ==
    IF kind = "APPROVAL_REQUEST" /\ \E q \in RequestId : Made(q) /\ ~HasRecord(q) THEN {}
    ELSE {<<g[1].id, g[2], g[1].by>> : g \in
             {e \in Everything(kind) \X Way : IsGround(kind, e[1], e[2], p.subject)}}

Shown ==
    [open \in SUBSET RequestId |->
       [kind \in Kind |-> [p \in Reader |-> Visible(kind, p, open)]]]
PromisedTo == [kind \in Kind |-> [p \in Reader |-> Promised(kind, p)]]

\* Remembers what the rows after this step show and promise to the client.
QueryAfterChange ==
    query' = IF query.pc = "idle" \/ UNCHANGED <<policyVars, version, field, request>> THEN query
             ELSE [query EXCEPT !.steady = @ \cap PromisedTo'[query.kind][query.principal],
                                !.open = @ \cup Pending',
                                !.seen = @ \cup Shown'[query.open \cup Pending']
                                                       [query.kind][query.principal]]

-------------------------------------------------------------------------------
(* Requests                                                                  *)

\* createApprovalRequest, whole: ApprovalLifecycle has its steps.
CreateRequest(q, r, u, action, key) ==
    /\ ~Made(q) /\ \A o \in RequestId : Made(o) => o < q
    /\ Exists(r)
    /\ key # None => action = "secret.value.read" /\ IsStored(r, key)
    /\ \A o \in RequestId :
          ~(request[o].pending /\ request[o].resource = r /\ request[o].requester = u
              /\ request[o].action = action /\ request[o].key = key)
    /\ EffectiveGuardians(r) # {}
    /\ request' = [request EXCEPT ![q] =
                     [resource |-> r, requester |-> u, action |-> action, key |-> key,
                      version |-> IF key = None THEN version[r] ELSE TargetVersion(r, key),
                      pending |-> TRUE]]
    /\ UNCHANGED secretVars
    /\ QueryAfterChange

\* A decision or an expiry.
EndRequest(q) ==
    /\ request[q].pending
    /\ request' = [request EXCEPT ![q].pending = FALSE]
    /\ UNCHANGED secretVars
    /\ QueryAfterChange

-------------------------------------------------------------------------------
(* The service                                                               *)

FirstRead(kind) ==
    CASE kind \in {"RESOURCE", "SECRET"} -> "projects"
      [] kind = "APPROVAL_REQUEST" -> "own"
      [] OTHER -> "fetch"

\* A page is asked for without a cursor, or with the one of the page before.
AskForList(kind, p) ==
    /\ query.pc = "idle"
    /\ query' = [NoWalk EXCEPT !.pc = FirstRead(kind), !.kind = kind, !.principal = p,
                               !.steady = Promised(kind, p), !.open = Pending,
                               !.seen = Visible(kind, p, Pending)]
    /\ UNCHANGED <<secretVars, request>>

AskForNext ==
    /\ query.pc = "paged"
    /\ query' = [query EXCEPT !.pc = FirstRead(query.kind), !.found = {}, !.items = {},
                              !.open = Pending,
                              !.seen = Visible(query.kind, query.principal, Pending)]
    /\ UNCHANGED <<secretVars, request>>

\* projectsForMember: the memberships, then the environments of the projects.
ReadProjects ==
    /\ query.pc = "projects"
    /\ query' = [query EXCEPT !.pc = IF query.kind = "SECRET" THEN "secrets" ELSE "guardians",
                              !.within = EnvironmentsOf(query.principal.subject)]
    /\ UNCHANGED <<secretVars, request>>

ReadSecrets ==
    /\ query.pc = "secrets"
    /\ query' = [query EXCEPT !.pc = "own", !.within = {},
                              !.broad = BroadSecrets(query.principal.subject, query.within)]
    /\ UNCHANGED <<secretVars, request>>

ReadOwnRequests ==
    /\ query.pc = "own"
    /\ query' = [query EXCEPT !.pc = "guardians", !.own = RequestsBy(query.principal.subject)]
    /\ UNCHANGED <<secretVars, request>>

\* A list of resources has those of the user's projects already.
ReadGuardians ==
    /\ query.pc = "guardians"
    /\ LET u == query.principal.subject
       IN  query' = [query EXCEPT !.pc = "fetch",
                                  !.queued = IF query.kind = "RESOURCE" THEN GuardedBy(u)
                                             ELSE QueuedFor(u)]
    /\ UNCHANGED <<secretVars, request>>

\* The next batch begins after the last record of this one.
Fetch ==
    /\ query.pc = "fetch"
    /\ LET batch == Returned(query)
       IN  query' = [query EXCEPT !.pc = "verify", !.batch = batch,
                                  !.within = {}, !.broad = {}, !.own = {}, !.queued = {},
                                  !.short = Cardinality(batch) <= PageLimit,
                                  !.cursor = IF batch = {} THEN @ ELSE Last(batch).at]
    /\ UNCHANGED <<secretVars, request>>

\* RepositoryRelationshipVerifier: only a secret can have changed or gone.
IsConfirmed(x) ==
    query.kind = "SECRET" =>
        /\ field[x.resource][x.name].id = x.id
        /\ field[x.resource][x.name].version = x.version

VerifyBatch ==
    /\ query.pc = "verify"
    /\ query' = [query EXCEPT !.pc = IF \A x \in query.batch : IsConfirmed(x)
                                     THEN "authorize" ELSE "failed"]
    /\ UNCHANGED <<secretVars, request>>

IsFirst(x) == First(query.batch, 1) = {x}

\* The policy reads the request and the member row of a record, and what they do
\* not allow is left to the guardian row.  Taken apart, the first two would allow
\* the same: a request ends once, and its status matters to the guardian row only.
Authorize(x) ==
    /\ query.pc = "authorize" /\ IsFirst(x)
    /\ LET isPending == IsPending(x.by)
       IN  IF \E way \in {"project", "request"} :
                 Shows(query.kind, x, way, isPending, query.principal.subject)
           THEN query' = [query EXCEPT !.batch = @ \ {x}, !.found = @ \cup {x}]
           ELSE query' = [query EXCEPT !.pc = "guardian", !.pending = isPending]
    /\ UNCHANGED <<secretVars, request>>

\* Mutant: every candidate of the source is listed.
IsGuardianAsFound(x) == TRUE

IsGuardian(x) ==
    Shows(query.kind, x, "guardian", query.pending, query.principal.subject)

\* One record after the other, each an await.
AuthorizeGuardian(x) ==
    /\ query.pc = "guardian" /\ IsFirst(x)
    /\ query' = [query EXCEPT
                   !.pc = "authorize", !.pending = FALSE, !.batch = @ \ {x},
                   !.found = IF IsGuardian(x) THEN @ \cup {x} ELSE @]
    /\ UNCHANGED <<secretVars, request>>

IsEnough == query.short \/ Cardinality(query.found) > PageLimit

FetchMore ==
    /\ query.pc = "authorize" /\ query.batch = {} /\ ~IsEnough
    /\ query' = [query EXCEPT !.pc = FirstRead(query.kind)]
    /\ UNCHANGED <<secretVars, request>>

NextCursor == Last(First(query.found, PageLimit)).at

\* paginate: the page, and a cursor if more was found than it holds.
Answer ==
    /\ query.pc = "authorize" /\ query.batch = {} /\ IsEnough
    /\ LET ids == {x.id : x \in First(query.found, PageLimit)}
           isLast == Cardinality(query.found) <= PageLimit
       IN  query' = [query EXCEPT
                       !.pc = IF isLast THEN "done" ELSE "paged",
                       !.cursor = IF isLast THEN None ELSE NextCursor,
                       !.found = {}, !.items = ids, !.listed = @ \cup ids,
                       !.count = @ + Cardinality(ids)]
    /\ UNCHANGED <<secretVars, request>>

-------------------------------------------------------------------------------
(* The component                                                             *)

Others ==
    \/ SecretNext /\ UNCHANGED request /\ QueryAfterChange
    \/ \E q \in RequestId : EndRequest(q)
    \/ \E q \in RequestId, r \in Resource, u \in User,
          action \in RequestAction, key \in Name \cup {None} : CreateRequest(q, r, u, action, key)

Service ==
    \/ \E kind \in Kind, p \in Reader : AskForList(kind, p)
    \/ AskForNext \/ ReadProjects \/ ReadSecrets \/ ReadOwnRequests \/ ReadGuardians
    \/ Fetch \/ VerifyBatch \/ FetchMore \/ Answer
    \/ \E x \in query.batch : Authorize(x) \/ AuthorizeGuardian(x)

ListNext == Others \/ Service
ListSpec == ListInit /\ [][ListNext]_listVars

-------------------------------------------------------------------------------
(* Properties                                                                *)

\* rbac-dashboard-knowledgebase.md:516: a list has every object that its reader
\* may see.  Whoever has walked it to the end has been shown, and once only,
\* whatever was there for them all along on one and the same ground, wherever the
\* pages end, whatever else comes or goes, and however much of what is read has to
\* be left out.
WalkIsComplete ==
    query.pc = "done" =>
        /\ \A ground \in query.steady : ground[1] \in query.listed
        /\ query.count = Cardinality(query.listed)

\* The source offers more than the policy allows (stale OWNER rows, resources
\* of decided requests): no page shows what is there and what its reader has had
\* no right to see at any moment since asking for it.
ListedWasVisible ==
    query.pc \in {"paged", "done"} =>
        \A x \in Everything(query.kind) : x.id \in query.items => x.id \in query.seen
==============================================================================
