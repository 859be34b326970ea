-------------------------- MODULE CredentialLifecycle --------------------------
(***************************************************************************)
(* Credentials and their use: validateToken, rotateOwnCredential and       *)
(* revokeOwnCredential of domain/auth.ts; verifyApiKey, mintApiKey,        *)
(* mintServiceCredential, rotateApiKey and revokeApiKey of                 *)
(* domain/services.ts; the Credential rows and the HMAC key ring of        *)
(* domain/crypto.ts.                                                       *)
(*                                                                         *)
(* A row is found by the digest of the presented text under one key, so a  *)
(* digest is known by its key.  Digests are separated by purpose: lookups  *)
(* under another purpose than the credential's find nothing and are left   *)
(* out.  Every lookup is an await of its own, the last one is followed by  *)
(* the decision without a pause, and a decision to accept is written by a  *)
(* transaction of its own.  Authority over a resource does not change, so  *)
(* what the owner's operations read before their transaction is no step.   *)
(***************************************************************************)
EXTENDS RateLimiter, Sequences

CONSTANTS
    Id,       \* ids that Credential rows may draw
    Type,     \* types of credentials that are issued
    Subject,  \* users and resources that credentials stand for
    Key,      \* HMAC keys
    Ring,     \* key rings of an environment, in the order they are tried:
              \* the active key first
    Handler,  \* requests that may be handled at the same time
    None      \* no row

ASSUME HandlersAreFinite == IsFiniteSet(Handler) /\ Handler # {}
ASSUME RingsAssumption == Ring \subseteq Seq(Key) \ {<<>>}
ASSUME TypesAssumption ==
    Type \subseteq {"PAWTHY_TOKEN", "SERVICE_CREDENTIAL", "RESOURCE_API_KEY"}
ASSUME NoneIsNoId == None \notin Id

VARIABLES
    ring,      \* the key ring the process was started with
    cred,      \* cred[i]: the Credential row i
    call,      \* call[h]: what a request has read so far
    failures   \* history: failures[c], failed validations since the last refill

credVars == <<ring, cred, call, failures>>
vars == <<credVars, limiterVars>>

OfResource == {"SERVICE_CREDENTIAL", "RESOURCE_API_KEY"}

\* status is revokedAt and revokedReason; replaces is the history of a rotation.
Row == [status : {"absent", "live", "rotated", "subject-revoked", "owner-revoked"},
        type : Type \cup {None}, subject : Subject \cup {None}, key : Key \cup {None},
        expired : BOOLEAN, replaces : Id \cup {None}]
NoRow == [status |-> "absent", type |-> None, subject |-> None,
          key |-> None, expired |-> FALSE, replaces |-> None]

\* The two doors: the hook of the HTTP routes takes tokens of the CLI, the
\* route that creates requests takes API keys.  None takes the third type.
Door == {"PAWTHY_TOKEN", "RESOURCE_API_KEY"}

\* dead and raced are history: whether the presented credential was unusable
\* when the request arrived, and whether another request re-keyed it since.
Frame == [pc : {"idle", "lookup", "accepted", "authenticated", "rejected"},
          client : LimiterKey \cup {None}, wants : Door \cup {None},
          token : Id \cup {None}, next : Nat,
          row : Row, dead : BOOLEAN, raced : BOOLEAN]
Idle == [pc |-> "idle", client |-> None, wants |-> None, token |-> None,
         next |-> 1, row |-> NoRow, dead |-> FALSE, raced |-> FALSE]

TypeOK ==
    /\ LimiterTypeOK
    /\ ring \in Ring
    /\ cred \in [Id -> Row]
    /\ call \in [Handler -> Frame]
    /\ failures \in [LimiterKey -> Nat]

Init ==
    /\ LimiterInit
    /\ ring \in Ring
    /\ cred = [i \in Id |-> NoRow]
    /\ call = [h \in Handler |-> Idle]
    /\ failures = [c \in LimiterKey |-> 0]

Exists(i) == cred[i].status # "absent"
Usable(row) == row.status = "live" /\ ~row.expired
UsableId(i) == Usable(cred[i])

-------------------------------------------------------------------------------
(* Validation                                                                *)

\* A request with a credential, or with text that is none (token = None).  A
\* limited client is answered at once, which changes nothing but the trail.
Present(h, c, wants, token) ==
    /\ call[h].pc = "idle"
    /\ ~IsLimited(c)
    /\ token \in Id => Exists(token)
    /\ call' = [call EXCEPT ![h] =
                   [Idle EXCEPT !.pc = "lookup", !.client = c, !.wants = wants,
                      !.token = token, !.dead = token \in Id /\ ~UsableId(token)]]
    /\ UNCHANGED <<ring, cred, failures, limiterVars>>

\* Mutant: only the active key is tried.
FoundUnderActive(h) ==
    /\ call[h].token \in Id
    /\ cred[call[h].token].key = ring[1]

Found(h) ==
    /\ call[h].token \in Id
    /\ cred[call[h].token].key = ring[call[h].next]

\* Mutant: revokedAt is not looked at.
AcceptableThoughRevoked(h) ==
    LET row == cred[call[h].token]
    IN  row.type = call[h].wants /\ ~row.expired

Acceptable(h) ==
    LET row == cred[call[h].token]
    IN  row.type = call[h].wants /\ Usable(row)

\* Under this key there is no row, and there are keys left to try.
LookupNext(h) ==
    /\ call[h].pc = "lookup"
    /\ call[h].next < Len(ring)
    /\ ~Found(h)
    /\ call' = [call EXCEPT ![h].next = @ + 1]
    /\ UNCHANGED <<ring, cred, failures, limiterVars>>

LookupAccepts(h) ==
    /\ call[h].pc = "lookup"
    /\ Found(h)
    /\ Acceptable(h)
    /\ call' = [call EXCEPT ![h].pc = "accepted", ![h].row = cred[call[h].token]]
    /\ UNCHANGED <<ring, cred, failures, limiterVars>>

\* Mutant: the failure is not counted.
RejectUncounted(h) ==
    /\ call' = [call EXCEPT ![h].pc = "rejected"]
    /\ failures' = [failures EXCEPT ![call[h].client] = @ + 1]
    /\ UNCHANGED <<ring, cred, limiterVars>>

\* A failure takes a token, if there is one left, only now.
Reject(h) ==
    LET c == call[h].client
        refilled == buckets[c] = NoBucket \/ Stale(buckets[c], windowMs)
    IN  /\ call' = [call EXCEPT ![h].pc = "rejected"]
        /\ Check(c)
        /\ failures' = [failures EXCEPT ![c] = IF refilled THEN 1 ELSE @ + 1]
        /\ UNCHANGED <<ring, cred>>

LookupRejects(h) ==
    /\ call[h].pc = "lookup"
    /\ IF Found(h) THEN ~Acceptable(h) ELSE call[h].next = Len(ring)
    /\ Reject(h)

\* Mutant: the transaction writes back the row that was read.
WriteUseOfRow(h) ==
    cred' = [cred EXCEPT ![call[h].token] = [call[h].row EXCEPT !.key = ring[1]]]

\* updateDigest, where the row was found under a key that is not the active
\* one, and updateLastUsed; the row's other columns are left alone.
WriteUse(h) ==
    cred' = [cred EXCEPT ![call[h].token].key =
                IF call[h].row.key = ring[1] THEN @ ELSE ring[1]]

Rekeys(h) == call[h].row.key # ring[1]

CommitUse(h) ==
    /\ call[h].pc = "accepted"
    /\ WriteUse(h)
    /\ call' = [g \in Handler |->
                   IF g = h THEN [call[g] EXCEPT !.pc = "authenticated"]
                   ELSE IF call[g].pc = "lookup" /\ call[g].token = call[h].token /\ Rekeys(h)
                        THEN [call[g] EXCEPT !.raced = TRUE]
                        ELSE call[g]]
    /\ UNCHANGED <<ring, failures, limiterVars>>

\* The request ends; its credential may have been revoked while it ran.
Answer(h) ==
    /\ call[h].pc \in {"authenticated", "rejected"}
    /\ call' = [call EXCEPT ![h] = Idle]
    /\ UNCHANGED <<ring, cred, failures, limiterVars>>

-------------------------------------------------------------------------------
(* Issue, rotation and revocation                                            *)

\* exchangeCodeForToken, createResource, mintApiKey, mintServiceCredential.  The
\* version of the resource, which operations on keys draw anew, is left out:
\* nothing here reads it.
Issue(i, type, s, expired) ==
    /\ ~Exists(i)
    /\ cred' = [cred EXCEPT ![i] = [NoRow EXCEPT !.status = "live", !.type = type,
                   !.subject = s, !.key = ring[1], !.expired = expired]]
    /\ UNCHANGED <<ring, call, failures, limiterVars>>

\* Mutant: revokedAt is not looked at, so a credential is rotated twice.
MayRotateAgain(i) == Exists(i)

MayRotate(i) == cred[i].status = "live"

\* The replacement has the same subject, scopes, target and expiry.
Replace(i, j) ==
    /\ MayRotate(i)
    /\ ~Exists(j)
    /\ cred' = [cred EXCEPT ![i].status = "rotated",
                            ![j] = [cred[i] EXCEPT !.status = "live",
                                       !.key = ring[1], !.replaces = i]]

\* The subject compared is the one of the principal, not of a live credential.
OwnedBy(h, i) ==
    /\ call[h].pc = "authenticated"
    /\ call[h].row.type = "PAWTHY_TOKEN"
    /\ cred[i].type = "PAWTHY_TOKEN"
    /\ cred[i].subject = call[h].row.subject

RotateOwn(h, i, j) ==
    /\ OwnedBy(h, i)
    /\ Replace(i, j)
    /\ call' = [call EXCEPT ![h] = Idle]
    /\ UNCHANGED <<ring, failures, limiterVars>>

RevokeOwn(h, i) ==
    /\ Exists(i)
    /\ OwnedBy(h, i)
    /\ cred' = [cred EXCEPT ![i].status = IF @ = "live" THEN "subject-revoked" ELSE @]
    /\ call' = [call EXCEPT ![h] = Idle]
    /\ UNCHANGED <<ring, failures, limiterVars>>

RotateApiKey(i, j) ==
    /\ cred[i].type \in OfResource
    /\ Replace(i, j)
    /\ UNCHANGED <<ring, call, failures, limiterVars>>

\* Also a credential that is revoked is revoked once more, for another reason.
RevokeApiKey(i) ==
    /\ Exists(i)
    /\ cred[i].type \in OfResource
    /\ cred' = [cred EXCEPT ![i].status = "owner-revoked"]
    /\ UNCHANGED <<ring, call, failures, limiterVars>>

-------------------------------------------------------------------------------
(* Time, restart                                                             *)

Expire(i) ==
    /\ Exists(i) /\ ~cred[i].expired
    /\ cred' = [cred EXCEPT ![i].expired = TRUE]
    /\ UNCHANGED <<ring, call, failures, limiterVars>>

\* The process restarts, with the key ring of its new environment.
Restart(newRing) ==
    /\ ring' = newRing
    /\ call' = [h \in Handler |-> Idle]
    /\ failures' = [c \in LimiterKey |-> 0]
    /\ Forget
    /\ UNCHANGED cred

Next ==
    \/ \E h \in Handler :
        \/ \E c \in LimiterKey, wants \in Door, token \in Id \cup {None} :
               Present(h, c, wants, token)
        \/ LookupNext(h)
        \/ LookupAccepts(h)
        \/ LookupRejects(h)
        \/ CommitUse(h)
        \/ Answer(h)
        \/ \E i \in Id : RevokeOwn(h, i) \/ \E j \in Id : RotateOwn(h, i, j)
    \/ \E i \in Id :
        \/ \E type \in Type, s \in Subject, expired \in BOOLEAN : Issue(i, type, s, expired)
        \/ \E j \in Id : RotateApiKey(i, j)
        \/ RevokeApiKey(i)
        \/ Expire(i)
    \/ (Cleanup \/ Tick) /\ UNCHANGED credVars
    \/ \E newRing \in Ring : Restart(newRing)

Spec == Init /\ [][Next]_vars

-------------------------------------------------------------------------------
(* Properties                                                                *)

\* A request acts only with a credential that was live when the request
\* arrived, though row, key ring and revocations change under it.
AuthenticatedWasLive ==
    \A h \in Handler : call[h].pc \in {"accepted", "authenticated"} => ~call[h].dead

\* A use that was decided before a revocation and is written after it does not
\* bring the credential back; nothing does.
RevocationIsFinal ==
    [][\A i \in Id : Exists(i) /\ cred[i].status # "live" =>
           Exists(i)' /\ cred'[i].status # "live"]_vars

\* However rotations by subjects and owners meet, a credential is replaced at
\* most once and is dead then: a lineage has one usable credential.
ReplacedOnceAndDead ==
    \A i, j \in Id : cred[j].replaces = i =>
        /\ cred[i].status \notin {"absent", "live"}
        /\ \A k \in Id : cred[k].replaces = i => k = j

\* A usable credential under a key of the ring is turned away only if another
\* request re-keyed it between two lookups of this one.
RejectedWasRaced ==
    \A h \in Handler :
        /\ call[h].pc = "rejected"
        /\ call[h].token \in Id
        /\ UsableId(call[h].token)
        /\ cred[call[h].token].type = call[h].wants
        /\ \E n \in DOMAIN ring : ring[n] = cred[call[h].token].key
        => call[h].raced

\* The limiter is asked before the lookups and charged after them: between
\* two refills a client fails maxRequests times, and once more for every
\* other request that was under way when the last token went.
FailuresAreBounded ==
    \A c \in LimiterKey : failures[c] <= maxRequests + Cardinality(Handler) - 1
===============================================================================
