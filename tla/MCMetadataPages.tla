---------------------------- MODULE MCMetadataPages ----------------------------
EXTENDS MetadataPages, TLC

CONSTANTS ann, bob, p1, p2, r1, r2, n1, n2, n3, MaxChanges

Places == (p1 :> 1 @@ p2 :> 2 @@ r1 :> 3 @@ r2 :> 4 @@ n1 :> 5 @@ n2 :> 6 @@ n3 :> 7)
Owners == {Token(ann, {"secret.delete"})}
Readers == {DiscordPrincipal(bob)}

NoRequests == \A q \in RequestId : ~Made(q)
NoGuardians == \A r \in Resource : guardian[r][bob] = None
NoMembers == \A p \in Project : member[p][bob] = None
AreIdle == \A k \in Call : call[k].pc = "idle"
Changes ==
    policy[p1] + policy[p2] - 2
      + version[r1] + version[r2] - Cardinality({r \in Resource : Exists(r)})
      + Cardinality({q \in RequestId : Made(q)})

\* The secrets: n3, or all after a put of them, and without n1 or n3 after a delete.
\* The ids of rows only order rows of one name.
SecretsAreFew ==
    /\ \E i \in RowId \cup {0} : drawn = {j \in RowId : j <= i}
    /\ \A n, m \in Name :
          field[r1][n].version = field[r1][m].version /\ IsStored(r1, n) /\ Rank[n] < Rank[m]
            => field[r1][m].id = 1 \/ field[r1][n].id < field[r1][m].id
    /\ \A n \in Name : field[r1][n].version = 1 => n = n3 /\ field[r1][n].key = "old"
    /\ \A k \in Call :
          \/ AreIdle
          \/ call[k].op = "put" /\ call[k].name = n1 /\ call[k].rest \in {{}, {n2, n3}}
          \/ call[k].op = "delete" /\ call[k].name \in {n1, n3}

\* ann owns what bob lists: two projects with a resource each, or one resource
\* with secrets and requests.  A role is a role to a list.
Bounded ==
    /\ owner = [p \in Project |-> ann]
    /\ \A r \in Resource : guardian[r][ann] = None
    /\ \A p \in Project : member[p][ann] = None /\ member[p][bob] # "WRITER"
    /\ home[r1] = p1 /\ home[r2] # p1
    /\ drawn # {} \/ ~NoRequests => ~Exists(r2) /\ policy[p2] = 1
    /\ guardian[r2][bob] = "OWNER" => ~IsLinked(r2)
    /\ Changes <= MaxChanges
    /\ SecretsAreFew
    /\ \A q \in RequestId : request[q].key \in {None, n3}
    /\ Made(2) => Made(1)

\* Each list is walked beside changes of what it reads.  It reads nothing of a
\* call but what the last step writes.
ReadsWhatChanges ==
    /\ query'.kind \in {"PROJECT", "ENVIRONMENT"} => (NoRequests /\ NoGuardians)' /\ Exists(r2)'
    /\ query'.kind = "APPROVAL_REQUEST" => NoMembers' /\ drawn' \subseteq {1}
    /\ query'.kind \in {"PROJECT", "ENVIRONMENT", "RESOURCE"} => drawn' = {}
    /\ query'.kind \notin {None, "SECRET"} => AreIdle' /\ Pending' = {q \in RequestId : Made(q)}'
    /\ query'.kind = "SECRET" => \A q \in RequestId : Made(q)' => request'[q].key = n3

\* No step is tried that a bound would leave out.
MCNext ==
    \/ AreIdle /\ Service
    \/ AreIdle /\ Changes < MaxChanges /\ Others
    \/ AreIdle /\ \E q \in RequestId : EndRequest(q)
    \/ ~AreIdle /\ (\E k \in Call : CallStep(k)) /\ UNCHANGED request /\ QueryAfterChange

MCSpec == ListInit /\ [][MCNext]_listVars
================================================================================
