---------------------- MODULE CredentialLifecycleProofs ----------------------
(***************************************************************************)
(* Proofs about CredentialLifecycle and its RateLimiter for any ids, keys, *)
(* key rings, clients and handlers, any size of the buckets and any        *)
(* window.                                                                 *)
(***************************************************************************)
EXTENDS CredentialLifecycle, FiniteSetTheorems, TLAPS

\* What a request that was let in rests on.
AcceptedInv ==
    \A h \in Handler : call[h].pc \in {"accepted", "authenticated"} =>
        /\ call[h].token \in Id
        /\ call[h].row.status = "live"
        /\ ~call[h].dead
        /\ Exists(call[h].token)

\* A lookup that began with an unusable credential still has one; it was made
\* by a client and is about to try a key of the ring.
LookupInv ==
    \A h \in Handler :
        /\ call[h].pc = "lookup" =>
             call[h].client \in LimiterKey /\ call[h].next \in 1..Len(ring)
        /\ call[h].pc = "lookup" /\ call[h].token \in Id =>
             /\ Exists(call[h].token)
             /\ call[h].dead => ~UsableId(call[h].token)

\* The key an accepted request found its row under is in the ring, and the
\* row stays under a key of the ring.
KeyInv ==
    \A h \in Handler : call[h].pc = "accepted" =>
        \E n \in DOMAIN ring : ring[n] = cred[call[h].token].key

\* The keys a lookup has tried: all of them once it is rejected.
Tried(h, n) == n < call[h].next \/ call[h].pc = "rejected"

Unlucky(h) ==
    /\ call[h].pc \in {"lookup", "rejected"}
    /\ call[h].token \in Id
    /\ ~call[h].raced
    /\ UsableId(call[h].token)
    /\ cred[call[h].token].type = call[h].wants

\* A lookup that nobody raced did not miss its row under a key it has tried.
TriedInv ==
    \A h \in Handler : Unlucky(h) =>
        \A n \in DOMAIN ring : Tried(h, n) => ring[n] # cred[call[h].token].key

\* The requests of client c that will be decided without another probe.
InFlight(c) == {h \in Handler : call[h].pc = "lookup" /\ call[h].client = c}

Failing(c) ==
    /\ failures[c] <= maxRequests + Cardinality(Handler) - 1
    /\ buckets[c] # NoBucket /\ buckets[c].tokens > 0 =>
         failures[c] + buckets[c].tokens = maxRequests
    /\ buckets[c] # NoBucket /\ buckets[c].tokens = 0 /\ ~Stale(buckets[c], windowMs) =>
         failures[c] + Cardinality(InFlight(c)) <= maxRequests + Cardinality(Handler) - 1

FailingInv == \A c \in LimiterKey : Failing(c)

SubjectInv == \A i \in Id : Exists(i) => cred[i].subject \in Subject

\* Whatever a request presents, there is a row of it.
TokenInv == \A h \in Handler : call[h].token \in Id => Exists(call[h].token)

IInv == TypeOK /\ SubjectInv /\ TokenInv /\ AcceptedInv /\ LookupInv /\ KeyInv /\ TriedInv
        /\ ReplacedOnceAndDead /\ FailingInv

USE DEF Exists, Usable, UsableId

LEMMA LimiterTypes ==
    ASSUME TypeOK
    PROVE  /\ maxRequests \in Nat \ {0} /\ windowMs \in Nat \ {0} /\ MaxTime \in Nat
           /\ now \in Nat /\ now <= MaxTime
           /\ \A c \in LimiterKey : Current(c) \in Bucket
           /\ \A c \in LimiterKey : Current(c) # NoBucket
           /\ \A c \in LimiterKey : Current(c).lastRefill <= now
BY LimiterAssumption DEF TypeOK, LimiterTypeOK, Current, Refill, Full, Bucket, NoBucket, Time

LEMMA CheckTypes ==
    ASSUME TypeOK, NEW c \in LimiterKey, Check(c)
    PROVE  LimiterTypeOK'
<1>0. PICK b \in Bucket : b = Current(c) /\ b.lastRefill <= now
  BY LimiterTypes
<1>a. b.tokens >= 1 => [b EXCEPT !.tokens = @ - 1] \in Bucket
  BY LimiterTypes DEF Bucket
<1>1. buckets' \in [LimiterKey -> Bucket \cup {NoBucket}]
  <2>1. CASE IsLimited(c)
    BY <1>0, <2>1 DEF TypeOK, LimiterTypeOK, Check
  <2>2. CASE ~IsLimited(c)
    <3>1. b.tokens >= 1
      BY <1>0, <2>2, LimiterTypes DEF IsLimited, Bucket
    <3> QED
      BY <1>0, <1>a, <2>2, <3>1 DEF TypeOK, LimiterTypeOK, Check
  <2> QED
    BY <2>1, <2>2
<1>2. passed' \in [LimiterKey -> [Until -> Nat]]
  BY LimiterTypes DEF TypeOK, LimiterTypeOK, Check, Until
<1>3. \A k \in LimiterKey : buckets'[k] # NoBucket => buckets'[k].lastRefill <= now'
  BY LimiterTypes DEF TypeOK, LimiterTypeOK, Check, IsLimited, Bucket
<1> QED
  BY <1>1, <1>2, <1>3 DEF Check, LimiterTypeOK, TypeOK

\* The edits of rows and frames that the actions make.
LEMMA RowEdits ==
    ASSUME NEW r \in Row, NEW k \in Key, NEW i \in Id
    PROVE  /\ [r EXCEPT !.status = "live", !.key = k, !.replaces = i] \in Row
           /\ [r EXCEPT !.key = k] \in Row
           /\ [r EXCEPT !.key = r.key] \in Row
           /\ [r EXCEPT !.status = "rotated"] \in Row
           /\ [r EXCEPT !.status = "owner-revoked"] \in Row
           /\ [r EXCEPT !.status = IF @ = "live" THEN "subject-revoked" ELSE @] \in Row
           /\ [r EXCEPT !.expired = TRUE] \in Row
BY DEF Row

LEMMA NewRow ==
    ASSUME NEW type \in Type, NEW s \in Subject, NEW k \in Key, NEW expired \in BOOLEAN
    PROVE  [NoRow EXCEPT !.status = "live", !.type = type, !.subject = s, !.key = k,
                         !.expired = expired] \in Row
BY DEF Row, NoRow

LEMMA FrameEdits ==
    ASSUME NEW f \in Frame, NEW r \in Row
    PROVE  /\ [f EXCEPT !.next = @ + 1] \in Frame
           /\ [f EXCEPT !.pc = "rejected"] \in Frame
           /\ [f EXCEPT !.pc = "authenticated"] \in Frame
           /\ [f EXCEPT !.raced = TRUE] \in Frame
           /\ [f EXCEPT !.pc = "accepted", !.row = r] \in Frame
<1>1. [f EXCEPT !.next = @ + 1] \in Frame
  BY DEF Frame
<1>2. [f EXCEPT !.pc = "rejected"] \in Frame /\ [f EXCEPT !.pc = "authenticated"] \in Frame
  BY DEF Frame
<1>3. [f EXCEPT !.raced = TRUE] \in Frame
  BY DEF Frame
<1>4. [f EXCEPT !.pc = "accepted", !.row = r] \in Frame
  BY DEF Frame
<1> QED
  BY <1>1, <1>2, <1>3, <1>4

LEMMA NewFrame ==
    ASSUME NEW c \in LimiterKey, NEW wants \in Door, NEW token \in Id \cup {None},
           NEW dead \in BOOLEAN
    PROVE  [Idle EXCEPT !.pc = "lookup", !.client = c, !.wants = wants,
                        !.token = token, !.dead = dead] \in Frame
BY DEF Frame, Idle, NoRow, Row

LEMMA Blanks == NoRow \in Row /\ Idle \in Frame
BY DEF NoRow, Row, Idle, Frame

LEMMA InitIInv == Init => IInv
<1> SUFFICES ASSUME Init PROVE IInv
  OBVIOUS
<1>1. TypeOK
  BY LimiterAssumption, Blanks
  DEF Init, LimiterInit, TypeOK, LimiterTypeOK, NoPasses, Time, Until
<1>2. SubjectInv /\ TokenInv /\ AcceptedInv /\ LookupInv /\ KeyInv /\ TriedInv
  BY NoneIsNoId DEF Init, NoRow, Idle, SubjectInv, TokenInv, AcceptedInv, LookupInv, KeyInv, TriedInv, Unlucky
<1>3. ReplacedOnceAndDead
  BY NoneIsNoId DEF Init, NoRow, ReplacedOnceAndDead
<1>4. FailingInv
  BY LimiterAssumption, HandlersAreFinite, FS_EmptySet, FS_CardinalityType
  DEF Init, LimiterInit, FailingInv, Failing
<1> QED
  BY <1>1, <1>2, <1>3, <1>4 DEF IInv

-------------------------------------------------------------------------------
(* Types                                                                     *)

LEMMA LimiterKept ==
    ASSUME LimiterTypeOK, UNCHANGED limiterVars PROVE LimiterTypeOK'
BY DEF LimiterTypeOK, limiterVars

\* A step that changes the frame of one request alone, and nothing else.
LEMMA FrameStep ==
    ASSUME TypeOK, NEW h \in Handler, NEW f \in Frame, call' = [call EXCEPT ![h] = f]
    PROVE  call' \in [Handler -> Frame]
BY DEF TypeOK

LEMMA ReplaceTypes ==
    ASSUME TypeOK, NEW i \in Id, NEW j \in Id, Replace(i, j)
    PROVE  cred' \in [Id -> Row]
<1>1. ring[1] \in Key
  BY RingsAssumption DEF TypeOK
<1>2. cred \in [Id -> Row] /\ cred[i] \in Row
  BY DEF TypeOK
<1> DEFINE r == [cred[i] EXCEPT !.status = "live", !.key = ring[1], !.replaces = i]
<1> DEFINE q == [cred[i] EXCEPT !.status = "rotated"]
<1>3. r \in Row /\ q \in Row
  BY <1>1, <1>2, RowEdits
<1>4. cred' = [[cred EXCEPT ![i] = q] EXCEPT ![j] = r]
  BY DEF Replace
<1> HIDE DEF r, q
<1> QED
  BY <1>2, <1>3, <1>4

LEMMA TypeStep == TypeOK /\ LookupInv /\ SubjectInv /\ [Next]_vars => TypeOK'
<1> SUFFICES ASSUME TypeOK, LookupInv, SubjectInv, [Next]_vars PROVE TypeOK'
  OBVIOUS
<1>k. ring[1] \in Key /\ ring \in Ring
  BY RingsAssumption DEF TypeOK
<1>r. /\ \A h \in Handler : call[h] \in Frame
      /\ \A i \in Id : cred[i] \in Row
  BY DEF TypeOK
<1>n. NoRow \in Row /\ Idle \in Frame
  BY Blanks
<1>1. ASSUME NEW h \in Handler, NEW c \in LimiterKey, NEW wants \in Door,
             NEW token \in Id \cup {None}, Present(h, c, wants, token)
      PROVE  TypeOK'
  <2>1. PICK d \in BOOLEAN : d = (token \in Id /\ ~UsableId(token))
    OBVIOUS
  <2> DEFINE f == [Idle EXCEPT !.pc = "lookup", !.client = c, !.wants = wants,
                               !.token = token, !.dead = d]
  <2>2. call' = [call EXCEPT ![h] = f]
    BY <1>1, <2>1 DEF Present
  <2>3. f \in Frame
    BY NewFrame
  <2> HIDE DEF f
  <2>4. call' \in [Handler -> Frame]
    BY <2>2, <2>3, FrameStep
  <2> QED
    BY <1>1, <2>4, LimiterKept DEF Present, TypeOK
<1>2. ASSUME NEW h \in Handler, LookupNext(h) PROVE TypeOK'
  <2> DEFINE f == [call[h] EXCEPT !.next = @ + 1]
  <2>1. f \in Frame
    BY <1>r, <1>n, FrameEdits
  <2>2. call' = [call EXCEPT ![h] = f]
    BY <1>2 DEF LookupNext
  <2> HIDE DEF f
  <2>3. call' \in [Handler -> Frame]
    BY <2>1, <2>2, FrameStep
  <2> QED
    BY <1>2, <2>3, LimiterKept DEF LookupNext, TypeOK
<1>3. ASSUME NEW h \in Handler, LookupAccepts(h) PROVE TypeOK'
  <2>1. PICK r \in Row : r = cred[call[h].token]
    BY <1>3, <1>r DEF LookupAccepts, Found
  <2> DEFINE f == [call[h] EXCEPT !.pc = "accepted", !.row = r]
  <2>2. f \in Frame
    BY <1>r, FrameEdits
  <2>3. call' = [call EXCEPT ![h] = f]
    BY <1>3, <2>1 DEF LookupAccepts, TypeOK
  <2> HIDE DEF f
  <2>4. call' \in [Handler -> Frame]
    BY <2>2, <2>3, FrameStep
  <2> QED
    BY <1>3, <2>4, LimiterKept DEF LookupAccepts, TypeOK
<1>4. ASSUME NEW h \in Handler, LookupRejects(h) PROVE TypeOK'
  <2>1. PICK c \in LimiterKey : c = call[h].client
    BY <1>4 DEF LookupRejects, LookupInv
  <2>2. LimiterTypeOK'
    BY <1>4, <2>1, CheckTypes DEF LookupRejects, Reject
  <2>3. failures' \in [LimiterKey -> Nat]
    <3>1. failures[c] \in Nat
      BY DEF TypeOK
    <3>2. \/ failures' = [failures EXCEPT ![c] = 1]
          \/ failures' = [failures EXCEPT ![c] = failures[c] + 1]
      BY <1>4, <2>1 DEF LookupRejects, Reject
    <3> QED
      BY <3>1, <3>2 DEF TypeOK
  <2> DEFINE f == [call[h] EXCEPT !.pc = "rejected"]
  <2>4. f \in Frame
    BY <1>r, <1>n, FrameEdits
  <2>5. call' = [call EXCEPT ![h] = f]
    BY <1>4 DEF LookupRejects, Reject
  <2> HIDE DEF f
  <2>6. call' \in [Handler -> Frame]
    BY <2>4, <2>5, FrameStep
  <2> QED
    BY <1>4, <2>2, <2>3, <2>6 DEF LookupRejects, Reject, TypeOK
<1>5. ASSUME NEW h \in Handler, CommitUse(h) PROVE TypeOK'
  <2> DEFINE i == call[h].token
  <2> DEFINE k == IF call[h].row.key = ring[1] THEN cred[i].key ELSE ring[1]
  <2>0. cred' = [cred EXCEPT ![i] = [cred[i] EXCEPT !.key = k]]
    BY <1>5 DEF CommitUse, WriteUse, TypeOK
  <2>1. cred' \in [Id -> Row]
    <3>1. CASE i \in Id
      <4>1. [cred[i] EXCEPT !.key = k] \in Row
        BY <1>k, <1>r, <3>1, RowEdits
      <4> QED
        BY <2>0, <4>1 DEF TypeOK
    <3>2. CASE i \notin Id
      BY <2>0, <3>2 DEF TypeOK
    <3> QED
      BY <3>1, <3>2
  <2>2. \A g \in Handler : [call[g] EXCEPT !.pc = "authenticated"] \in Frame
                         /\ [call[g] EXCEPT !.raced = TRUE] \in Frame
    BY <1>r, <1>n, FrameEdits
  <2>3. call' \in [Handler -> Frame]
    BY <1>5, <1>r, <2>2 DEF CommitUse
  <2> QED
    BY <1>5, <2>1, <2>3, LimiterKept DEF CommitUse, TypeOK
<1>6. ASSUME NEW h \in Handler, Answer(h) PROVE TypeOK'
  BY <1>6, <1>n, LimiterKept DEF Answer, TypeOK
<1>7. ASSUME NEW h \in Handler, NEW i \in Id, RevokeOwn(h, i) PROVE TypeOK'
  <2> DEFINE r == [cred[i] EXCEPT !.status = IF @ = "live" THEN "subject-revoked" ELSE @]
  <2>1. r \in Row
    BY <1>r, <1>k, RowEdits
  <2>2. cred' = [cred EXCEPT ![i] = r]
    BY <1>7 DEF RevokeOwn
  <2> HIDE DEF r
  <2>3. cred' \in [Id -> Row]
    BY <2>1, <2>2 DEF TypeOK
  <2> QED
    BY <1>7, <1>n, <2>3, LimiterKept DEF RevokeOwn, TypeOK
<1>8. ASSUME NEW h \in Handler, NEW i \in Id, NEW j \in Id, RotateOwn(h, i, j) PROVE TypeOK'
  <2>1. cred' \in [Id -> Row]
    BY <1>8, ReplaceTypes DEF RotateOwn
  <2> QED
    BY <1>8, <1>n, <2>1, LimiterKept DEF RotateOwn, TypeOK
<1>9. ASSUME NEW i \in Id, NEW type \in Type, NEW s \in Subject, NEW expired \in BOOLEAN,
             Issue(i, type, s, expired) PROVE TypeOK'
  <2> DEFINE r == [NoRow EXCEPT !.status = "live", !.type = type, !.subject = s,
                                !.key = ring[1], !.expired = expired]
  <2>0. r \in Row
    BY <1>k, NewRow
  <2>1. cred' \in [Id -> Row]
    BY <1>9, <2>0 DEF Issue, TypeOK
  <2> QED
    BY <1>9, <2>1, LimiterKept DEF Issue, TypeOK
<1>10. ASSUME NEW i \in Id, NEW j \in Id, RotateApiKey(i, j) PROVE TypeOK'
  <2>1. cred' \in [Id -> Row]
    BY <1>10, ReplaceTypes DEF RotateApiKey
  <2> QED
    BY <1>10, <2>1, LimiterKept DEF RotateApiKey, TypeOK
<1>11. ASSUME NEW i \in Id, RevokeApiKey(i) PROVE TypeOK'
  <2> DEFINE r == [cred[i] EXCEPT !.status = "owner-revoked"]
  <2>2. r \in Row
    BY <1>r, <1>k, RowEdits
  <2>3. cred' = [cred EXCEPT ![i] = r]
    BY <1>11 DEF RevokeApiKey
  <2> HIDE DEF r
  <2>4. cred' \in [Id -> Row]
    BY <2>2, <2>3 DEF TypeOK
  <2> QED
    BY <1>11, <2>4, LimiterKept DEF RevokeApiKey, TypeOK
<1>12. ASSUME NEW i \in Id, Expire(i) PROVE TypeOK'
  <2> DEFINE r == [cred[i] EXCEPT !.expired = TRUE]
  <2>1. r \in Row
    BY <1>r, <1>k, RowEdits
  <2>2. cred' = [cred EXCEPT ![i] = r]
    BY <1>12 DEF Expire
  <2> HIDE DEF r
  <2>3. cred' \in [Id -> Row]
    BY <2>1, <2>2 DEF TypeOK
  <2> QED
    BY <1>12, <2>3, LimiterKept DEF Expire, TypeOK
<1>13. CASE Cleanup /\ UNCHANGED credVars
  <2>1. LimiterTypeOK'
    BY <1>13 DEF Cleanup, LimiterTypeOK, TypeOK
  <2> QED
    BY <1>13, <2>1 DEF credVars, TypeOK
<1>14. CASE Tick /\ UNCHANGED credVars
  <2>1. LimiterTypeOK'
    BY <1>14, LimiterTypes DEF Tick, LimiterTypeOK, TypeOK, Time, Bucket
  <2> QED
    BY <1>14, <2>1 DEF credVars, TypeOK
<1>15. ASSUME NEW newRing \in Ring, Restart(newRing) PROVE TypeOK'
  <2>1. LimiterTypeOK'
    BY <1>15 DEF Restart, Forget, NoPasses, LimiterTypeOK, TypeOK
  <2> QED
    BY <1>15, <2>1, <1>n DEF Restart, TypeOK
<1>16. CASE UNCHANGED vars
  BY <1>16, LimiterKept DEF vars, credVars, TypeOK
<1> QED
  BY <1>1, <1>2, <1>3, <1>4, <1>5, <1>6, <1>7, <1>8, <1>9, <1>10, <1>11, <1>12,
     <1>13, <1>14, <1>15, <1>16 DEF Next

-------------------------------------------------------------------------------
(* What no step does to a row                                                *)

RowKept(i) ==
    Exists(i) =>
        /\ Exists(i)'
        /\ cred'[i].type = cred[i].type
        /\ cred'[i].subject = cred[i].subject
        /\ cred'[i].replaces = cred[i].replaces
        /\ cred[i].status # "live" => cred'[i].status # "live"
        /\ cred[i].expired => cred'[i].expired

LEMMA ReplaceKeeps ==
    ASSUME TypeOK, NEW i \in Id, NEW j \in Id, Replace(i, j), NEW k \in Id
    PROVE  RowKept(k)
<1>1. cred[k] \in Row /\ cred[i] \in Row /\ cred \in [Id -> Row]
  BY DEF TypeOK
<1>2. CASE k = j
  BY <1>2 DEF Replace, RowKept
<1>3. CASE k # j /\ k # i
  BY <1>1, <1>3 DEF Replace, RowKept
<1>4. CASE k # j /\ k = i
  <2>1. cred'[k] = [cred[k] EXCEPT !.status = "rotated"]
    BY <1>1, <1>4 DEF Replace
  <2> QED
    BY <1>1, <2>1 DEF RowKept, Row
<1> QED
  BY <1>2, <1>3, <1>4

LEMMA RowsAreKept ==
    ASSUME TypeOK, [Next]_vars, NEW k \in Id
    PROVE  RowKept(k)
<1>t. cred[k] \in Row /\ cred \in [Id -> Row]
  BY DEF TypeOK
<1>1. CASE cred' = cred
  BY <1>1 DEF RowKept
<1>2. ASSUME NEW h \in Handler, CommitUse(h) PROVE RowKept(k)
  BY <1>2, <1>t DEF CommitUse, WriteUse, RowKept
<1>3. ASSUME NEW h \in Handler, NEW i \in Id, RevokeOwn(h, i) PROVE RowKept(k)
  BY <1>3, <1>t DEF RevokeOwn, RowKept
<1>4. ASSUME NEW h \in Handler, NEW i \in Id, NEW j \in Id, RotateOwn(h, i, j) PROVE RowKept(k)
  BY <1>4, ReplaceKeeps DEF RotateOwn
<1>5. ASSUME NEW i \in Id, NEW type \in Type, NEW s \in Subject, NEW expired \in BOOLEAN,
             Issue(i, type, s, expired) PROVE RowKept(k)
  BY <1>5, <1>t DEF Issue, RowKept
<1>6. ASSUME NEW i \in Id, NEW j \in Id, RotateApiKey(i, j) PROVE RowKept(k)
  BY <1>6, ReplaceKeeps DEF RotateApiKey
<1>7. ASSUME NEW i \in Id, RevokeApiKey(i) PROVE RowKept(k)
  BY <1>7, <1>t DEF RevokeApiKey, RowKept
<1>8. ASSUME NEW i \in Id, Expire(i) PROVE RowKept(k)
  BY <1>8, <1>t DEF Expire, RowKept
<1> QED
  BY <1>1, <1>2, <1>3, <1>4, <1>5, <1>6, <1>7, <1>8
  DEF Next, Present, LookupNext, LookupAccepts, LookupRejects, Reject, Answer,
      Restart, credVars, vars

\* The key of a row changes only in the hands of a request that found the row
\* under another key than the active one.
LEMMA KeysAreKept ==
    ASSUME TypeOK, [Next]_vars, NEW k \in Id, Exists(k)
    PROVE  \/ cred'[k].key = cred[k].key
           \/ \E g \in Handler : CommitUse(g) /\ call[g].token = k /\ Rekeys(g)
<1>t. cred[k] \in Row /\ cred \in [Id -> Row]
  BY DEF TypeOK
<1>r. ASSUME NEW i \in Id, NEW j \in Id, Replace(i, j) PROVE cred'[k].key = cred[k].key
  <2>1. k # j
    BY <1>r DEF Replace
  <2>2. CASE k # i
    BY <1>t, <1>r, <2>1, <2>2 DEF Replace
  <2>3. CASE k = i
    <3>1. cred'[k] = [cred[k] EXCEPT !.status = "rotated"]
      BY <1>t, <1>r, <2>1, <2>3 DEF Replace
    <3> QED
      BY <1>t, <3>1 DEF Row
  <2> QED
    BY <2>2, <2>3
<1>1. CASE cred' = cred
  BY <1>1
<1>2. ASSUME NEW h \in Handler, CommitUse(h)
      PROVE  \/ cred'[k].key = cred[k].key
             \/ call[h].token = k /\ Rekeys(h)
  BY <1>2, <1>t DEF CommitUse, WriteUse, Rekeys
<1>3. ASSUME NEW h \in Handler, NEW i \in Id, RevokeOwn(h, i) PROVE cred'[k].key = cred[k].key
  BY <1>3, <1>t DEF RevokeOwn
<1>4. ASSUME NEW h \in Handler, NEW i \in Id, NEW j \in Id, RotateOwn(h, i, j)
      PROVE  cred'[k].key = cred[k].key
  BY <1>4, <1>r DEF RotateOwn
<1>5. ASSUME NEW i \in Id, NEW type \in Type, NEW s \in Subject, NEW expired \in BOOLEAN,
             Issue(i, type, s, expired) PROVE cred'[k].key = cred[k].key
  BY <1>5, <1>t DEF Issue
<1>6. ASSUME NEW i \in Id, NEW j \in Id, RotateApiKey(i, j) PROVE cred'[k].key = cred[k].key
  BY <1>6, <1>r DEF RotateApiKey
<1>7. ASSUME NEW i \in Id, RevokeApiKey(i) PROVE cred'[k].key = cred[k].key
  BY <1>7, <1>t DEF RevokeApiKey
<1>8. ASSUME NEW i \in Id, Expire(i) PROVE cred'[k].key = cred[k].key
  BY <1>8, <1>t DEF Expire
<1> QED
  BY <1>1, <1>2, <1>3, <1>4, <1>5, <1>6, <1>7, <1>8
  DEF Next, Present, LookupNext, LookupAccepts, LookupRejects, Reject, Answer,
      Restart, credVars, vars

\* What a step does to the frame of a request, and that the ring changes only
\* where every request ends.
Presented(h) ==
    \E c \in LimiterKey, wants \in Door, token \in Id \cup {None} : Present(h, c, wants, token)

FrameCase(h) ==
    \/ call'[h] = call[h]
    \/ call'[h] = Idle
    \/ Presented(h)
    \/ LookupNext(h) \/ LookupAccepts(h) \/ LookupRejects(h) \/ CommitUse(h)
    \/ call[h].pc = "lookup" /\ call'[h] = [call[h] EXCEPT !.raced = TRUE]

LEMMA FrameCases ==
    ASSUME TypeOK, [Next]_vars, NEW h \in Handler
    PROVE  FrameCase(h) /\ (ring' = ring \/ \A g \in Handler : call'[g] = Idle)
<1>t. call \in [Handler -> Frame]
  BY DEF TypeOK
<1>1. CASE UNCHANGED <<call, ring>>
  BY <1>1 DEF FrameCase
<1>2. ASSUME NEW g \in Handler, NEW c \in LimiterKey, NEW wants \in Door,
             NEW token \in Id \cup {None}, Present(g, c, wants, token)
      PROVE  FrameCase(h) /\ ring' = ring
  <2>1. g = h => Presented(h)
    BY <1>2 DEF Presented
  <2>2. g # h => call'[h] = call[h]
    BY <1>2, <1>t DEF Present
  <2> QED
    BY <1>2, <2>1, <2>2 DEF FrameCase, Present
<1>3. ASSUME NEW g \in Handler, LookupNext(g) \/ LookupAccepts(g) \/ LookupRejects(g)
      PROVE  FrameCase(h) /\ ring' = ring
  <2>1. g # h => call'[h] = call[h]
    BY <1>3, <1>t DEF LookupNext, LookupAccepts, LookupRejects, Reject
  <2> QED
    BY <1>3, <2>1 DEF FrameCase, LookupNext, LookupAccepts, LookupRejects, Reject
<1>4. ASSUME NEW g \in Handler, CommitUse(g) PROVE FrameCase(h) /\ ring' = ring
  <2>1. CASE g = h
    BY <1>4, <2>1 DEF FrameCase, CommitUse
  <2>2. CASE g # h
    BY <1>4, <2>2, <1>t DEF FrameCase, CommitUse
  <2> QED
    BY <2>1, <2>2
<1>5. ASSUME NEW g \in Handler, Answer(g) PROVE FrameCase(h) /\ ring' = ring
  BY <1>5, <1>t DEF FrameCase, Answer
<1>6. ASSUME NEW g \in Handler, NEW i \in Id, RevokeOwn(g, i) PROVE FrameCase(h) /\ ring' = ring
  BY <1>6, <1>t DEF FrameCase, RevokeOwn
<1>7. ASSUME NEW g \in Handler, NEW i \in Id, NEW j \in Id, RotateOwn(g, i, j)
      PROVE  FrameCase(h) /\ ring' = ring
  BY <1>7, <1>t DEF FrameCase, RotateOwn
<1>8. ASSUME NEW newRing \in Ring, Restart(newRing)
      PROVE  FrameCase(h) /\ \A g \in Handler : call'[g] = Idle
  BY <1>8 DEF FrameCase, Restart
<1> QED
  BY <1>1, <1>2, <1>3, <1>4, <1>5, <1>6, <1>7, <1>8
  DEF Next, Issue, RotateApiKey, RevokeApiKey, Expire, credVars, vars

-------------------------------------------------------------------------------
(* The invariant is kept                                                     *)

LEMMA SubjectStep == TypeOK /\ SubjectInv /\ [Next]_vars => SubjectInv'
<1> SUFFICES ASSUME TypeOK, SubjectInv, [Next]_vars, NEW k \in Id, Exists(k)'
             PROVE  cred'[k].subject \in Subject
  BY DEF SubjectInv
<1>1. CASE Exists(k)
  BY <1>1, RowsAreKept DEF RowKept, SubjectInv
<1>2. CASE ~Exists(k)
  <2>t. cred[k] \in Row /\ cred \in [Id -> Row]
    BY DEF TypeOK
  <2>0. ASSUME NEW i \in Id, NEW j \in Id, Replace(i, j) PROVE cred'[k].subject \in Subject
    <3>1. PICK r \in Row : r = cred[i] /\ r.subject \in Subject /\ r.status = "live"
      BY <2>0 DEF Replace, MayRotate, SubjectInv, TypeOK
    <3>2. k = j
      BY <1>2, <2>0, <2>t, <3>1 DEF Replace
    <3> QED
      BY <2>0, <2>t, <3>1, <3>2 DEF Replace, Row
  <2>1. ASSUME NEW i \in Id, NEW type \in Type, NEW s \in Subject, NEW expired \in BOOLEAN,
               Issue(i, type, s, expired) PROVE cred'[k].subject \in Subject
    BY <1>2, <2>1, <2>t DEF Issue, NoRow
  <2>2. ASSUME NEW h \in Handler, CommitUse(h) PROVE FALSE
    BY <1>2, <2>2, <2>t DEF CommitUse, WriteUse
  <2>3. ASSUME NEW h \in Handler, NEW i \in Id, RevokeOwn(h, i) PROVE FALSE
    BY <1>2, <2>3, <2>t DEF RevokeOwn
  <2>4. ASSUME NEW i \in Id, RevokeApiKey(i) \/ Expire(i) PROVE FALSE
    BY <1>2, <2>4, <2>t DEF RevokeApiKey, Expire
  <2> QED
    BY <1>2, <2>0, <2>1, <2>2, <2>3, <2>4
    DEF Next, Present, LookupNext, LookupAccepts, LookupRejects, Reject, Answer,
        RotateOwn, RotateApiKey, Restart, credVars, vars
<1> QED
  BY <1>1, <1>2

\* A rotation takes a live credential that nothing replaced, and a new id.
LEMMA ReplaceStep ==
    ASSUME TypeOK, ReplacedOnceAndDead, NEW i \in Id, NEW j \in Id, Replace(i, j)
    PROVE  ReplacedOnceAndDead'
<1>t. cred[i] \in Row /\ cred[j] \in Row /\ cred \in [Id -> Row]
  BY DEF TypeOK
<1>0. i # j
  BY DEF Replace, MayRotate
<1>1. cred'[j].replaces = i
  BY <1>t, <1>0 DEF Replace, Row
<1>2. cred'[i].replaces = cred[i].replaces /\ cred'[i].status = "rotated"
  <2>1. cred'[i] = [cred[i] EXCEPT !.status = "rotated"]
    BY <1>t, <1>0 DEF Replace
  <2> QED
    BY <1>t, <2>1 DEF Row
<1>3. \A k \in Id : k # j => cred'[k].replaces = cred[k].replaces
  BY <1>t, <1>0, <1>2 DEF Replace
<1>4. \A k \in Id : k # j /\ k # i => cred'[k] = cred[k]
  BY <1>t, <1>0 DEF Replace
<1>5. \A k \in Id : cred[k].replaces # i /\ cred[k].replaces # j
  BY DEF Replace, MayRotate, ReplacedOnceAndDead
<1> SUFFICES ASSUME NEW a \in Id, NEW b \in Id, cred'[b].replaces = a
             PROVE  /\ cred'[a].status \notin {"absent", "live"}
                    /\ \A k \in Id : cred'[k].replaces = a => k = b
  BY DEF ReplacedOnceAndDead
<1>6. CASE b = j
  BY <1>1, <1>2, <1>3, <1>5, <1>6
<1>7. CASE b # j
  <2>1. cred[b].replaces = a /\ a # i /\ a # j
    BY <1>3, <1>5, <1>7
  <2> QED
    BY <2>1, <1>1, <1>3, <1>4, <1>7 DEF ReplacedOnceAndDead
<1> QED
  BY <1>6, <1>7

LEMMA ReplacedStep == TypeOK /\ ReplacedOnceAndDead /\ [Next]_vars => ReplacedOnceAndDead'
<1> SUFFICES ASSUME TypeOK, ReplacedOnceAndDead, [Next]_vars PROVE ReplacedOnceAndDead'
  OBVIOUS
<1>t. cred \in [Id -> Row]
  BY DEF TypeOK
<1>1. ASSUME \A k \in Id : cred'[k].replaces = cred[k].replaces PROVE ReplacedOnceAndDead'
  <2> SUFFICES ASSUME NEW a \in Id, NEW b \in Id, cred'[b].replaces = a
               PROVE  /\ cred'[a].status \notin {"absent", "live"}
                      /\ \A k \in Id : cred'[k].replaces = a => k = b
    BY DEF ReplacedOnceAndDead
  <2>1. cred[a].status \notin {"absent", "live"} /\ \A k \in Id : cred[k].replaces = a => k = b
    BY <1>1 DEF ReplacedOnceAndDead
  <2>2. cred'[a].status \notin {"absent", "live"}
    BY <2>1, RowsAreKept DEF RowKept
  <2> QED
    BY <1>1, <2>1, <2>2
<1>2. ASSUME NEW i \in Id, NEW type \in Type, NEW s \in Subject, NEW expired \in BOOLEAN,
             Issue(i, type, s, expired) PROVE ReplacedOnceAndDead'
  <2>1. \A k \in Id : k # i => cred'[k] = cred[k]
    BY <1>2, <1>t DEF Issue
  <2>2. cred'[i].replaces = None
    BY <1>2, <1>t DEF Issue, NoRow
  <2>3. \A k \in Id : cred[k].replaces # i
    BY <1>2 DEF Issue, ReplacedOnceAndDead
  <2> SUFFICES ASSUME NEW a \in Id, NEW b \in Id, cred'[b].replaces = a
               PROVE  /\ cred'[a].status \notin {"absent", "live"}
                      /\ \A k \in Id : cred'[k].replaces = a => k = b
    BY DEF ReplacedOnceAndDead
  <2>4. b # i
    BY <2>2, NoneIsNoId
  <2>5. a # i /\ cred[b].replaces = a
    BY <2>1, <2>3, <2>4
  <2> QED
    BY <2>1, <2>2, <2>5, NoneIsNoId DEF ReplacedOnceAndDead
<1>3. ASSUME NEW h \in Handler, CommitUse(h) PROVE ReplacedOnceAndDead'
  BY <1>1, <1>3, <1>t DEF CommitUse, WriteUse
<1>4. ASSUME NEW h \in Handler, NEW i \in Id, RevokeOwn(h, i) PROVE ReplacedOnceAndDead'
  BY <1>1, <1>4, <1>t DEF RevokeOwn
<1>5. ASSUME NEW i \in Id, RevokeApiKey(i) \/ Expire(i) PROVE ReplacedOnceAndDead'
  <2> SUFFICES ASSUME NEW k \in Id PROVE cred'[k].replaces = cred[k].replaces
    BY <1>1
  <2>1. CASE RevokeApiKey(i)
    BY <2>1, <1>t DEF RevokeApiKey
  <2>2. CASE Expire(i)
    BY <2>2, <1>t DEF Expire
  <2> QED
    BY <1>5, <2>1, <2>2
<1>6. CASE UNCHANGED cred
  BY <1>1, <1>6
<1> QED
  BY <1>2, <1>3, <1>4, <1>5, <1>6, ReplaceStep
  DEF Next, Present, LookupNext, LookupAccepts, LookupRejects, Reject, Answer,
      RotateOwn, RotateApiKey, Restart, credVars, vars

LEMMA AcceptedStep ==
    TypeOK /\ AcceptedInv /\ LookupInv /\ [Next]_vars => AcceptedInv'
<1> SUFFICES ASSUME TypeOK, AcceptedInv, LookupInv, [Next]_vars, NEW h \in Handler,
                    call'[h].pc \in {"accepted", "authenticated"}
             PROVE  /\ call'[h].token \in Id
                    /\ call'[h].row.status = "live"
                    /\ ~call'[h].dead
                    /\ cred'[call'[h].token].status # "absent"
  BY DEF AcceptedInv
<1>t. call \in [Handler -> Frame] /\ call[h] \in Frame
  BY DEF TypeOK
<1>1. CASE call'[h] = call[h] \/ CommitUse(h)
  <2>1. /\ call[h].pc \in {"accepted", "authenticated"}
        /\ call'[h].token = call[h].token /\ call'[h].row = call[h].row
        /\ call'[h].dead = call[h].dead
    BY <1>1, <1>t DEF CommitUse, Frame
  <2>2. cred'[call[h].token].status # "absent"
    BY <2>1, RowsAreKept DEF AcceptedInv, RowKept
  <2> QED
    BY <2>1, <2>2 DEF AcceptedInv
<1>2. CASE LookupAccepts(h)
  <2>1. /\ call[h].pc = "lookup" /\ call[h].token \in Id /\ Usable(cred[call[h].token])
        /\ cred' = cred
    BY <1>2 DEF LookupAccepts, Found, Acceptable
  <2>2. /\ call'[h].token = call[h].token /\ call'[h].row = cred[call[h].token]
        /\ call'[h].dead = call[h].dead
    BY <1>2, <1>t DEF LookupAccepts, Frame
  <2> QED
    BY <2>1, <2>2 DEF LookupInv
<1>3. CASE call'[h] = Idle
  BY <1>3 DEF Idle
<1>4. CASE Presented(h)
  BY <1>4, <1>t DEF Presented, Present, Idle
<1>5. CASE LookupNext(h) \/ LookupRejects(h)
  BY <1>5, <1>t DEF LookupNext, LookupRejects, Reject, Frame
<1>6. CASE call[h].pc = "lookup" /\ call'[h] = [call[h] EXCEPT !.raced = TRUE]
  BY <1>6, <1>t DEF Frame
<1> QED
  BY <1>1, <1>2, <1>3, <1>4, <1>5, <1>6, FrameCases DEF FrameCase

LEMMA LookupStep == TypeOK /\ LookupInv /\ [Next]_vars => LookupInv'
<1> SUFFICES ASSUME TypeOK, LookupInv, [Next]_vars, NEW h \in Handler,
                    call'[h].pc = "lookup"
             PROVE  /\ call'[h].client \in LimiterKey /\ call'[h].next \in 1..Len(ring')
                    /\ call'[h].token \in Id =>
                         /\ cred'[call'[h].token].status # "absent"
                         /\ call'[h].dead => ~Usable(cred'[call'[h].token])
  BY DEF LookupInv
<1>t. call \in [Handler -> Frame] /\ call[h] \in Frame
  BY DEF TypeOK
<1>1. ASSUME call[h].pc = "lookup", call'[h].token = call[h].token,
             call'[h].client = call[h].client, call'[h].dead = call[h].dead
      PROVE  /\ call'[h].client \in LimiterKey
             /\ call'[h].token \in Id =>
                  /\ cred'[call'[h].token].status # "absent"
                  /\ call'[h].dead => ~Usable(cred'[call'[h].token])
  BY <1>1, RowsAreKept DEF LookupInv, RowKept
<1>r. /\ call'[h] # Idle /\ ring' = ring
      /\ Len(ring) \in Nat \ {0}
  BY FrameCases, RingsAssumption DEF Idle, TypeOK
<1>2. CASE Presented(h)
  <2>1. PICK c \in LimiterKey, wants \in Door, token \in Id \cup {None} :
            Present(h, c, wants, token)
    BY <1>2 DEF Presented
  <2>2. PICK d \in BOOLEAN : d = (token \in Id /\ ~UsableId(token))
    OBVIOUS
  <2>3. /\ call'[h].client = c /\ call'[h].token = token /\ call'[h].dead = d
        /\ call'[h].next = 1
        /\ cred' = cred /\ (token \in Id => Exists(token))
    BY <1>t, <2>1, <2>2 DEF Present, Idle
  <2>4. call'[h].next \in 1..Len(ring)
    BY <1>r, <2>3
  <2>5. call'[h].dead => ~Usable(cred'[call'[h].token])
    BY <2>2, <2>3
  <2> QED
    BY <1>r, <2>1, <2>3, <2>4, <2>5
<1>3. CASE call'[h] = call[h]
  BY <1>1, <1>3, <1>r DEF LookupInv
<1>4. CASE LookupNext(h)
  <2>1. /\ call[h].pc = "lookup" /\ call'[h].token = call[h].token
        /\ call'[h].client = call[h].client /\ call'[h].dead = call[h].dead
        /\ call[h].next < Len(ring) /\ call'[h].next = call[h].next + 1
    BY <1>4, <1>t DEF LookupNext, Frame
  <2>2. call[h].next \in Nat /\ call[h].next >= 1
    BY <2>1 DEF LookupInv
  <2> QED
    BY <1>1, <1>r, <2>1, <2>2
<1>7. CASE call[h].pc = "lookup" /\ call'[h] = [call[h] EXCEPT !.raced = TRUE]
  <2>1. /\ call'[h].token = call[h].token /\ call'[h].next = call[h].next
        /\ call'[h].client = call[h].client /\ call'[h].dead = call[h].dead
    BY <1>7, <1>t DEF Frame
  <2> QED
    BY <1>1, <1>7, <1>r, <2>1 DEF LookupInv
<1>5. CASE call'[h] = Idle
  BY <1>5 DEF Idle
<1>6. CASE LookupAccepts(h) \/ LookupRejects(h) \/ CommitUse(h)
  BY <1>6, <1>t DEF LookupAccepts, LookupRejects, Reject, CommitUse, Frame
<1> QED
  BY <1>2, <1>3, <1>4, <1>5, <1>6, <1>7, FrameCases DEF FrameCase

LEMMA KeyStep == TypeOK /\ AcceptedInv /\ LookupInv /\ KeyInv /\ [Next]_vars => KeyInv'
<1> SUFFICES ASSUME TypeOK, AcceptedInv, LookupInv, KeyInv, [Next]_vars,
                    NEW h \in Handler, call'[h].pc = "accepted"
             PROVE  \E n \in DOMAIN ring' : ring'[n] = cred'[call'[h].token].key
  BY DEF KeyInv
<1>t. call \in [Handler -> Frame] /\ call[h] \in Frame
  BY DEF TypeOK
<1>r. /\ ring' = ring
      /\ 1 \in DOMAIN ring /\ DOMAIN ring = 1..Len(ring)
  BY FrameCases, RingsAssumption DEF Idle, TypeOK
<1>1. CASE call'[h] = call[h]
  <2>1. PICK k \in Id : k = call[h].token
    BY <1>1 DEF AcceptedInv
  <2>2. Exists(k) /\ \E n \in DOMAIN ring : ring[n] = cred[k].key
    BY <1>1, <2>1 DEF AcceptedInv, KeyInv
  <2>3. CASE cred'[k].key = cred[k].key
    BY <1>1, <1>r, <2>1, <2>2, <2>3
  <2>4. ASSUME NEW g \in Handler, CommitUse(g), call[g].token = k, Rekeys(g)
        PROVE  cred'[k].key = ring[1]
    <3>1. cred[k] \in Row /\ cred \in [Id -> Row]
      BY DEF TypeOK
    <3> QED
      BY <2>4, <3>1 DEF CommitUse, WriteUse, Rekeys, Row
  <2> QED
    BY <1>1, <1>r, <2>1, <2>2, <2>3, <2>4, KeysAreKept
<1>2. CASE LookupAccepts(h)
  <2>1. /\ call'[h].token = call[h].token /\ cred' = cred /\ call[h].pc = "lookup"
        /\ cred[call[h].token].key = ring[call[h].next]
    BY <1>2, <1>t DEF LookupAccepts, Found, Frame
  <2> QED
    BY <1>r, <2>1 DEF LookupInv
<1>3. CASE call'[h] = Idle
  BY <1>3 DEF Idle
<1>5. CASE Presented(h)
  BY <1>5, <1>t DEF Idle, Presented, Present
<1>4. CASE LookupNext(h) \/ LookupRejects(h) \/ CommitUse(h)
           \/ (call[h].pc = "lookup" /\ call'[h] = [call[h] EXCEPT !.raced = TRUE])
  BY <1>4, <1>t DEF LookupNext, LookupRejects, Reject, CommitUse, Frame
<1> QED
  BY <1>1, <1>2, <1>3, <1>4, <1>5, FrameCases DEF FrameCase

LEMMA TokenStep == TypeOK /\ TokenInv /\ [Next]_vars => TokenInv'
<1> SUFFICES ASSUME TypeOK, TokenInv, [Next]_vars, NEW h \in Handler, call'[h].token \in Id
             PROVE  cred'[call'[h].token].status # "absent"
  BY DEF TokenInv
<1>t. call \in [Handler -> Frame] /\ call[h] \in Frame
  BY DEF TypeOK
<1>1. CASE Presented(h)
  <2>1. PICK c \in LimiterKey, wants \in Door, token \in Id \cup {None} :
            Present(h, c, wants, token)
    BY <1>1 DEF Presented
  <2>2. PICK d \in BOOLEAN : d = (token \in Id /\ ~UsableId(token))
    OBVIOUS
  <2>3. call'[h].token = token /\ cred' = cred
    BY <1>t, <2>1, <2>2 DEF Present, Idle
  <2> QED
    BY <2>1, <2>3 DEF Present
<1>2. CASE call'[h].token = call[h].token
  BY <1>2, RowsAreKept DEF TokenInv, RowKept
<1>3. CASE call'[h] = call[h]
           \/ (call[h].pc = "lookup" /\ call'[h] = [call[h] EXCEPT !.raced = TRUE])
  BY <1>2, <1>3, <1>t DEF Frame
<1>4. CASE call'[h] = Idle
  BY <1>4, NoneIsNoId DEF Idle
<1>5. CASE LookupNext(h) \/ LookupAccepts(h) \/ LookupRejects(h) \/ CommitUse(h)
  BY <1>2, <1>5, <1>t DEF LookupNext, LookupAccepts, LookupRejects, Reject, CommitUse, Frame
<1> QED
  BY <1>1, <1>3, <1>4, <1>5, FrameCases DEF FrameCase

\* While a request keeps its frame, the keys it has tried in vain stay in vain
\* unless it was raced.
LEMMA TriedKept ==
    ASSUME TypeOK, AcceptedInv, TokenInv, KeyInv, TriedInv, [Next]_vars,
           NEW h \in Handler, call'[h] = call[h], ring' = ring,
           NEW k \in Id, k = call[h].token,
           call[h].pc \in {"lookup", "rejected"}, ~call[h].raced,
           Usable(cred'[k]), cred'[k].type = call[h].wants,
           NEW n \in DOMAIN ring, Tried(h, n)
    PROVE  ring[n] # cred'[k].key
<1>t. call \in [Handler -> Frame] /\ cred \in [Id -> Row] /\ cred[k] \in Row
  BY DEF TypeOK
<1>1. Unlucky(h) /\ Exists(k)
  BY RowsAreKept DEF Unlucky, TokenInv, RowKept
<1>2. ring[n] # cred[k].key
  BY <1>1 DEF TriedInv
<1>3. ASSUME NEW g \in Handler, CommitUse(g), call[g].token = k, Rekeys(g) PROVE FALSE
  <2>1. g # h /\ call[g].pc = "accepted"
    BY <1>3 DEF CommitUse
  <2>2. CASE call[h].pc = "lookup"
    <3>1. call'[h] = [call[h] EXCEPT !.raced = TRUE]
      BY <1>3, <2>1, <2>2 DEF CommitUse
    <3> QED
      BY <3>1, <1>t DEF Frame
  <2>3. CASE call[h].pc = "rejected"
    <3>1. PICK m \in DOMAIN ring : ring[m] = cred[k].key
      BY <1>3, <2>1 DEF KeyInv
    <3> QED
      BY <1>1, <2>3, <3>1 DEF TriedInv, Tried
  <2> QED
    BY <2>2, <2>3
<1> QED
  BY <1>1, <1>2, <1>3, KeysAreKept

LEMMA TriedStep ==
    TypeOK /\ AcceptedInv /\ LookupInv /\ TokenInv /\ KeyInv /\ TriedInv /\ [Next]_vars
        => TriedInv'
<1> SUFFICES ASSUME TypeOK, AcceptedInv, LookupInv, TokenInv, KeyInv, TriedInv, [Next]_vars,
                    NEW h \in Handler,
                    call'[h].pc \in {"lookup", "rejected"}, call'[h].token \in Id,
                    ~call'[h].raced, Usable(cred'[call'[h].token]),
                    cred'[call'[h].token].type = call'[h].wants,
                    NEW n \in DOMAIN ring',
                    n < call'[h].next \/ call'[h].pc = "rejected"
             PROVE  ring'[n] # cred'[call'[h].token].key
  BY DEF TriedInv, Unlucky, Tried
<1>t. call \in [Handler -> Frame] /\ call[h] \in Frame
  BY DEF TypeOK
<1>r. /\ call'[h] # Idle /\ ring' = ring
      /\ Len(ring) \in Nat \ {0} /\ DOMAIN ring = 1..Len(ring)
  BY FrameCases, RingsAssumption DEF Idle, TypeOK
<1>n. n \in Nat /\ n >= 1 /\ n <= Len(ring)
  BY <1>r
<1>1. CASE call'[h] = call[h]
  BY <1>1, <1>r, TriedKept DEF Tried
<1>2. CASE Presented(h)
  <2>1. call'[h].next = 1 /\ call'[h].pc = "lookup"
    BY <1>2, <1>t DEF Presented, Present, Idle
  <2> QED
    BY <2>1, <1>n
<1>3. CASE LookupNext(h)
  <2>1. /\ call[h].pc = "lookup" /\ call'[h].pc = "lookup" /\ cred' = cred
        /\ call'[h].token = call[h].token /\ call'[h].wants = call[h].wants
        /\ call'[h].raced = call[h].raced /\ call'[h].next = call[h].next + 1
        /\ ~Found(h)
    BY <1>3, <1>t DEF LookupNext, Frame
  <2>2. call[h].next \in Nat
    BY <1>t DEF Frame
  <2>3. Unlucky(h)
    BY <2>1 DEF Unlucky
  <2>4. CASE n < call[h].next
    BY <1>r, <2>1, <2>3, <2>4 DEF TriedInv, Tried
  <2>5. CASE n = call[h].next
    BY <1>r, <2>1, <2>5 DEF Found
  <2> QED
    BY <1>n, <2>1, <2>2, <2>4, <2>5
<1>4. CASE LookupRejects(h)
  <2>1. /\ call[h].pc = "lookup" /\ cred' = cred
        /\ call'[h].token = call[h].token /\ call'[h].wants = call[h].wants
        /\ call'[h].raced = call[h].raced /\ call'[h].next = call[h].next
    BY <1>4, <1>t DEF LookupRejects, Reject, Frame
  <2>2. Acceptable(h)
    BY <2>1 DEF Acceptable
  <2>3. ~Found(h) /\ call[h].next = Len(ring)
    BY <1>4, <2>2 DEF LookupRejects
  <2>4. Unlucky(h)
    BY <2>1 DEF Unlucky
  <2>5. CASE n < call[h].next
    BY <1>r, <2>1, <2>4, <2>5 DEF TriedInv, Tried
  <2>6. CASE n = call[h].next
    BY <1>r, <2>1, <2>3, <2>6 DEF Found
  <2> QED
    BY <1>n, <2>3, <2>5, <2>6
<1>5. CASE LookupAccepts(h) \/ CommitUse(h)
           \/ (call[h].pc = "lookup" /\ call'[h] = [call[h] EXCEPT !.raced = TRUE])
  BY <1>5, <1>t DEF LookupAccepts, CommitUse, Frame
<1> QED
  BY <1>1, <1>2, <1>3, <1>4, <1>5, <1>r, FrameCases DEF FrameCase

\* The requests in flight, before and after a step.
LEMMA InFlightIsFinite ==
    ASSUME NEW c
    PROVE  /\ IsFiniteSet(InFlight(c)) /\ Cardinality(InFlight(c)) \in Nat
           /\ Cardinality(Handler) \in Nat /\ Cardinality(Handler) >= 1
           /\ Cardinality(InFlight(c)) <= Cardinality(Handler)
<1>1. InFlight(c) \subseteq Handler
  BY DEF InFlight
<1>2. Cardinality(Handler) # 0
  BY HandlersAreFinite, FS_EmptySet
<1> QED
  BY <1>1, <1>2, HandlersAreFinite, FS_Subset, FS_CardinalityType

\* Only a request that presents a credential joins them.
LEMMA InFlightShrinks ==
    ASSUME TypeOK, [Next]_vars, NEW c,
           \A h \in Handler : call'[h].pc = "lookup" /\ call'[h].client = c =>
                                 call[h].pc # "idle"
    PROVE  /\ InFlight(c)' \subseteq InFlight(c)
           /\ Cardinality(InFlight(c)') \in Nat
           /\ Cardinality(InFlight(c)') <= Cardinality(InFlight(c))
<1>1. ASSUME NEW h \in Handler, call'[h].pc = "lookup", call'[h].client = c
      PROVE  call[h].pc = "lookup" /\ call[h].client = c
  <2>t. call \in [Handler -> Frame] /\ call[h] \in Frame
    BY DEF TypeOK
  <2>1. CASE call'[h] = call[h]
    BY <1>1, <2>1
  <2>2. CASE call'[h] = Idle
    BY <1>1, <2>2 DEF Idle
  <2>3. CASE LookupNext(h) \/ (call[h].pc = "lookup" /\ call'[h] = [call[h] EXCEPT !.raced = TRUE])
    BY <1>1, <2>3, <2>t DEF LookupNext, Frame
  <2>4. CASE LookupAccepts(h) \/ LookupRejects(h) \/ CommitUse(h)
    BY <1>1, <2>4, <2>t DEF LookupAccepts, LookupRejects, Reject, CommitUse, Frame
  <2> QED
    BY <1>1, <2>1, <2>2, <2>3, <2>4, FrameCases DEF FrameCase, Presented, Present
<1>2. InFlight(c)' \subseteq InFlight(c)
  BY <1>1 DEF InFlight
<1>3. IsFiniteSet(InFlight(c)) /\ Cardinality(InFlight(c)) \in Nat
  BY InFlightIsFinite
<1>4. \A T \in SUBSET InFlight(c) :
          Cardinality(T) \in Nat /\ Cardinality(T) <= Cardinality(InFlight(c))
  BY <1>3, FS_Subset, FS_CardinalityType
<1> QED
  BY <1>2, <1>4

\* Where neither bucket, failures nor clock change and nobody joins.
LEMMA FailingKept ==
    ASSUME TypeOK, FailingInv, [Next]_vars, NEW c \in LimiterKey,
           buckets'[c] = buckets[c], failures'[c] = failures[c], now <= now', now' \in Nat,
           \A h \in Handler : call'[h].pc = "lookup" /\ call'[h].client = c =>
                                 call[h].pc # "idle"
    PROVE  Failing(c)'
<1>1. Failing(c)
  BY DEF FailingInv
<1>2. now \in Nat /\ windowMs \in Nat /\ failures[c] \in Nat /\ maxRequests \in Nat
  BY LimiterTypes DEF TypeOK
<1>3. buckets[c] # NoBucket => buckets[c].lastRefill \in Nat
  BY DEF TypeOK, LimiterTypeOK, Bucket, Time
<1>4. (buckets[c] # NoBucket /\ ~Stale(buckets[c], windowMs)') => ~Stale(buckets[c], windowMs)
  BY <1>2, <1>3 DEF Stale
<1>5. /\ Cardinality(InFlight(c)') <= Cardinality(InFlight(c))
      /\ Cardinality(InFlight(c)') \in Nat
      /\ Cardinality(InFlight(c)) \in Nat /\ Cardinality(Handler) \in Nat
  BY InFlightShrinks, InFlightIsFinite
<1> QED
  BY <1>1, <1>2, <1>4, <1>5 DEF Failing, Stale

\* A failure is counted, and either takes a token or is one of those that were
\* under way when the last one went.
LEMMA FailingCounted ==
    ASSUME TypeOK, FailingInv, LookupInv, [Next]_vars, NEW h \in Handler, LookupRejects(h),
           NEW c \in LimiterKey, c = call[h].client
    PROVE  Failing(c)'
<1> DEFINE H == Cardinality(Handler)
<1> DEFINE A == InFlight(c)
<1> DEFINE B == InFlight(c)'
<1>t. call \in [Handler -> Frame] /\ call[h] \in Frame
  BY DEF TypeOK
<1>1. /\ call[h].pc = "lookup" /\ Check(c) /\ call' = [call EXCEPT ![h].pc = "rejected"]
      /\ failures' = [failures EXCEPT ![c] =
             IF buckets[c] = NoBucket \/ Stale(buckets[c], windowMs) THEN 1 ELSE @ + 1]
  BY DEF LookupRejects, Reject
<1>2. B \subseteq A \ {h} /\ h \in A
  BY <1>1, <1>t DEF InFlight, Frame
<1>3. IsFiniteSet(A) /\ Cardinality(A) \in Nat /\ H \in Nat /\ H >= 1 /\ Cardinality(A) <= H
  BY InFlightIsFinite
<1>4. Cardinality(A \ {h}) = Cardinality(A) - 1 /\ IsFiniteSet(A \ {h})
  BY <1>2, <1>3, FS_RemoveElement
<1>5. Cardinality(B) \in Nat /\ Cardinality(B) <= Cardinality(A) - 1
  <2>1. \A T \in SUBSET (A \ {h}) :
            Cardinality(T) \in Nat /\ Cardinality(T) <= Cardinality(A \ {h})
    BY <1>4, FS_Subset, FS_CardinalityType
  <2> QED
    BY <1>2, <1>4, <2>1
<1> HIDE DEF A, B, H
<1>6. PICK b \in Bucket : b = Current(c)
  BY LimiterTypes
<1>7. /\ maxRequests \in Nat /\ maxRequests >= 1 /\ failures[c] \in Nat
      /\ b.tokens \in Nat /\ b # NoBucket
  BY <1>6, LimiterTypes DEF TypeOK, Bucket
<1>8. Failing(c)
  BY DEF FailingInv
<1> SUFFICES /\ failures'[c] <= maxRequests + H - 1
             /\ buckets'[c] # NoBucket /\ buckets'[c].tokens > 0 =>
                  failures'[c] + buckets'[c].tokens = maxRequests
             /\ buckets'[c] # NoBucket /\ buckets'[c].tokens = 0 =>
                  failures'[c] + Cardinality(B) <= maxRequests + H - 1
  BY DEF Failing, H, B
<1>9. CASE buckets[c] = NoBucket \/ Stale(buckets[c], windowMs)
  <2>1. b.tokens = maxRequests
    BY <1>6, <1>9 DEF Current, Refill, Full
  <2>2. buckets'[c].tokens = maxRequests - 1 /\ failures'[c] = 1
    BY <1>1, <1>6, <1>7, <1>9, <2>1 DEF Check, IsLimited, Bucket, TypeOK, LimiterTypeOK
  <2> QED
    BY <1>3, <1>5, <1>7, <2>2
<1>10. CASE buckets[c] # NoBucket /\ ~Stale(buckets[c], windowMs)
  <2>1. b = buckets[c] /\ failures'[c] = failures[c] + 1
    BY <1>1, <1>6, <1>10 DEF Current, Refill, TypeOK
  <2>2. CASE b.tokens >= 1
    <3>1. buckets'[c].tokens = b.tokens - 1
      BY <1>1, <1>6, <1>7, <2>2 DEF Check, IsLimited, Bucket, TypeOK, LimiterTypeOK
    <3>2. failures[c] + b.tokens = maxRequests
      BY <1>7, <1>8, <1>10, <2>1, <2>2 DEF Failing
    <3> QED
      BY <1>3, <1>5, <1>7, <2>1, <2>2, <3>1, <3>2
  <2>3. CASE b.tokens = 0
    <3>1. buckets'[c] = b
      BY <1>1, <1>6, <1>7, <2>3 DEF Check, IsLimited, TypeOK, LimiterTypeOK
    <3>2. failures[c] + Cardinality(A) <= maxRequests + H - 1
      BY <1>8, <1>10, <2>1, <2>3 DEF Failing, A, H
    <3> QED
      BY <1>3, <1>5, <1>7, <2>1, <2>3, <3>1, <3>2
  <2> QED
    BY <1>7, <2>2, <2>3
<1> QED
  BY <1>9, <1>10

LEMMA FailingStep == TypeOK /\ LookupInv /\ FailingInv /\ [Next]_vars => FailingInv'
<1> SUFFICES ASSUME TypeOK, LookupInv, FailingInv, [Next]_vars, NEW c \in LimiterKey
             PROVE  Failing(c)'
  BY DEF FailingInv
<1>t. /\ call \in [Handler -> Frame] /\ buckets \in [LimiterKey -> Bucket \cup {NoBucket}]
      /\ failures \in [LimiterKey -> Nat] /\ now \in Nat /\ maxRequests \in Nat \ {0}
  BY LimiterTypes DEF TypeOK, LimiterTypeOK
<1>f. Failing(c)
  BY DEF FailingInv
<1>h. Cardinality(Handler) \in Nat /\ Cardinality(Handler) >= 1
  BY InFlightIsFinite
<1>1. ASSUME NEW h \in Handler, LookupRejects(h) PROVE Failing(c)'
  <2>1. CASE call[h].client = c
    BY <1>1, <2>1, FailingCounted
  <2>2. CASE call[h].client # c
    <3>1. PICK d \in LimiterKey : d = call[h].client
      BY <1>1 DEF LookupRejects, LookupInv
    <3>2. /\ buckets'[c] = buckets[c] /\ failures'[c] = failures[c] /\ now' = now
          /\ call' = [call EXCEPT ![h].pc = "rejected"]
      BY <1>1, <1>t, <2>2, <3>1 DEF LookupRejects, Reject, Check
    <3>3. \A g \in Handler : call'[g].pc = "lookup" => call[g].pc # "idle"
      BY <1>t, <3>2 DEF Frame
    <3> QED
      BY <1>t, <3>2, <3>3, FailingKept
  <2> QED
    BY <2>1, <2>2
<1>2. ASSUME NEW h \in Handler, NEW d \in LimiterKey, NEW wants \in Door,
             NEW token \in Id \cup {None}, Present(h, d, wants, token)
      PROVE  Failing(c)'
  <2>1. buckets' = buckets /\ failures' = failures /\ now' = now
    BY <1>2 DEF Present, limiterVars
  <2>2. call'[h].client = d
    BY <1>2, <1>t DEF Present, Idle
  <2>3. \A g \in Handler : g # h => call'[g] = call[g]
    BY <1>2, <1>t DEF Present
  <2>4. CASE d # c
    <3>1. \A g \in Handler : call'[g].pc = "lookup" /\ call'[g].client = c => call[g].pc # "idle"
      BY <2>2, <2>3, <2>4
    <3> QED
      BY <1>t, <2>1, <3>1, FailingKept
  <2>5. CASE d = c
    <3>1. ~IsLimited(c)
      BY <1>2, <2>5 DEF Present
    <3>2. ~(buckets[c] # NoBucket /\ buckets[c].tokens = 0 /\ ~Stale(buckets[c], windowMs))
      BY <3>1 DEF IsLimited, Current, Refill
    <3> QED
      BY <1>f, <2>1, <3>2 DEF Failing, Stale
  <2> QED
    BY <2>4, <2>5
<1>3. CASE Cleanup /\ UNCHANGED credVars
  <2>1. CASE buckets'[c] = buckets[c]
    BY <1>t, <1>3, <2>1, FailingKept DEF Cleanup, credVars
  <2>2. CASE buckets'[c] = NoBucket
    BY <1>f, <1>3, <2>2 DEF Failing, credVars
  <2> QED
    BY <1>t, <1>3, <2>1, <2>2 DEF Cleanup
<1>4. CASE Tick /\ UNCHANGED credVars
  BY <1>t, <1>4, FailingKept DEF Tick, credVars
<1>5. ASSUME NEW newRing \in Ring, Restart(newRing) PROVE Failing(c)'
  BY <1>t, <1>5, <1>h DEF Restart, Forget, Failing
<1>6. ASSUME UNCHANGED <<failures, limiterVars>>,
             \A h \in Handler : call'[h].pc = "lookup" => call[h].pc # "idle"
      PROVE  Failing(c)'
  BY <1>t, <1>6, FailingKept DEF limiterVars
<1>7. ASSUME NEW h \in Handler, LookupNext(h) \/ LookupAccepts(h) \/ CommitUse(h) \/ Answer(h)
      PROVE  Failing(c)'
  <2>1. \A g \in Handler : call'[g].pc = "lookup" => call[g].pc # "idle"
    <3>1. CASE LookupNext(h)
      BY <3>1, <1>t DEF LookupNext, Frame
    <3>2. CASE LookupAccepts(h)
      BY <3>2, <1>t DEF LookupAccepts, Frame
    <3>3. CASE CommitUse(h)
      <4> SUFFICES ASSUME NEW g \in Handler, call'[g].pc = "lookup" PROVE call[g].pc # "idle"
        OBVIOUS
      <4>1. CASE g = h
        BY <3>3, <4>1 DEF CommitUse
      <4>2. CASE g # h
        BY <3>3, <4>2, <1>t DEF CommitUse
      <4> QED
        BY <4>1, <4>2
    <3>4. CASE Answer(h)
      BY <3>4, <1>t DEF Answer, Idle
    <3> QED
      BY <1>7, <3>1, <3>2, <3>3, <3>4
  <2> QED
    BY <1>6, <1>7, <2>1 DEF LookupNext, LookupAccepts, CommitUse, Answer
<1>8. ASSUME NEW h \in Handler, NEW i \in Id,
             RevokeOwn(h, i) \/ \E j \in Id : RotateOwn(h, i, j)
      PROVE  Failing(c)'
  BY <1>6, <1>8, <1>t DEF RevokeOwn, RotateOwn, Idle
<1>9. ASSUME UNCHANGED <<call, failures, limiterVars>> PROVE Failing(c)'
  BY <1>6, <1>9
<1> QED
  BY <1>1, <1>2, <1>3, <1>4, <1>5, <1>7, <1>8, <1>9
  DEF Next, Issue, RotateApiKey, RevokeApiKey, Expire, vars, credVars

-------------------------------------------------------------------------------
(* Theorems                                                                  *)

THEOREM Invariance == Spec => []IInv
<1>1. IInv /\ [Next]_vars => IInv'
  BY TypeStep, SubjectStep, TokenStep, AcceptedStep, LookupStep, KeyStep, TriedStep,
     ReplacedStep, FailingStep DEF IInv
<1> QED
  BY InitIInv, <1>1, PTL DEF Spec

\* The type invariant, for any constants (rows, frames, key ring, buckets).
THEOREM TypeCorrect == Spec => []TypeOK
BY Invariance, PTL DEF IInv

\* validateToken and verifyApiKey let nobody in whose credential was dead when
\* the request arrived.
THEOREM LetInWithLiveCredential == Spec => []AuthenticatedWasLive
<1>1. IInv => AuthenticatedWasLive
  BY DEF IInv, AcceptedInv, AuthenticatedWasLive
<1> QED
  BY <1>1, Invariance, PTL

\* rotateOwnCredential and rotateApiKey keep one usable credential a lineage.
THEOREM OneReplacement == Spec => []ReplacedOnceAndDead
BY Invariance, PTL DEF IInv

\* Only a re-keying by another request turns a live credential away.
THEOREM RejectionNeedsRace == Spec => []RejectedWasRaced
<1>1. IInv => RejectedWasRaced
  BY DEF IInv, TriedInv, Unlucky, Tried, RejectedWasRaced
<1> QED
  BY <1>1, Invariance, PTL

\* isLimited before and check after the lookups bound the failed validations.
THEOREM FailureBound == Spec => []FailuresAreBounded
<1>1. IInv => FailuresAreBounded
  BY DEF IInv, FailingInv, Failing, FailuresAreBounded
<1> QED
  BY <1>1, Invariance, PTL

\* No step of any operation brings a revoked credential back.
THEOREM RevokedForGood == Spec => RevocationIsFinal
<1>1. IInv /\ [Next]_vars =>
          [\A i \in Id : Exists(i) /\ cred[i].status # "live" =>
               Exists(i)' /\ cred'[i].status # "live"]_vars
  BY RowsAreKept DEF IInv, RowKept
<1> QED
  BY <1>1, Invariance, PTL DEF Spec, RevocationIsFinal

\* The cleanup timer of the limiter is invisible to its callers.
THEOREM CleanupUnseen == Spec => CleanupIsInvisible
<1>1. IInv /\ [Next]_vars =>
          [Cleanup => \A k \in LimiterKey : Current(k).tokens' = Current(k).tokens]_limiterVars
  <2> SUFFICES ASSUME IInv, Cleanup, NEW k \in LimiterKey
               PROVE  Current(k).tokens' = Current(k).tokens
    OBVIOUS
  <2>t. /\ buckets \in [LimiterKey -> Bucket \cup {NoBucket}]
        /\ now \in Nat /\ windowMs \in Nat
    BY LimiterTypes DEF IInv, TypeOK, LimiterTypeOK
  <2>1. CASE buckets'[k] = buckets[k]
    BY <2>1 DEF Cleanup, Current, Refill, Full, Stale
  <2>2. CASE buckets[k] # NoBucket /\ Stale(buckets[k], 2 * windowMs) /\ buckets'[k] = NoBucket
    <3>1. buckets[k].lastRefill \in Nat
      BY <2>t, <2>2 DEF Bucket, Time
    <3>2. Stale(buckets[k], windowMs)
      BY <2>t, <2>2, <3>1 DEF Stale
    <3>3. Current(k) = Full
      BY <2>2, <3>2 DEF Current, Refill
    <3>4. Current(k)' = Full'
      BY <2>2 DEF Current
    <3> QED
      BY <3>3, <3>4 DEF Full, Cleanup
  <2> QED
    BY <2>t, <2>1, <2>2 DEF Cleanup
<1> QED
  BY <1>1, Invariance, PTL DEF Spec, CleanupIsInvisible

-------------------------------------------------------------------------------
(* The spans of the limiter.  The calls let through since a bucket was       *)
(* filled are the tokens gone from it; it can be filled again only when none *)
(* of them is left in the window, so a window meets two fillings at most.    *)

\* The counts grow with time up to now, and say nothing of later.
CountsGrow(k) ==
    /\ \A s, t \in Until : s <= t => passed[k][s] <= passed[k][t]
    /\ \A t \in Until : t > now => passed[k][t] = passed[k][now + 1]

\* What was let through since the bucket was filled left it, and nothing was
\* after its window; the window before it was filled saw one bucket at most.
FilledBucket(k) ==
    LET b == buckets[k] IN
    b # NoBucket =>
        /\ passed[k][now + 1] + b.tokens <= passed[k][b.lastRefill] + maxRequests
        /\ Stale(b, windowMs) =>
               passed[k][now + 1] = passed[k][b.lastRefill + windowMs + 1]
        /\ \A s \in Time :
               s <= b.lastRefill /\ b.lastRefill <= s + windowMs =>
                   passed[k][b.lastRefill] <= passed[k][s] + maxRequests

\* A bucket that was dropped had let nothing through for a window.
DroppedBucket(k) ==
    buckets[k] = NoBucket =>
        \A s \in Time : s <= now /\ now <= s + windowMs =>
            passed[k][now + 1] = passed[k][s]

SpansOf(k) ==
    \A s, t \in Time : s <= t /\ t <= now /\ t <= s + windowMs =>
        passed[k][t + 1] <= passed[k][s] + 2 * maxRequests

SpanInv ==
    \A k \in LimiterKey : CountsGrow(k) /\ FilledBucket(k) /\ DroppedBucket(k) /\ SpansOf(k)

LEMMA SpanInit == LimiterInit => SpanInv
BY LimiterAssumption
DEF LimiterInit, SpanInv, CountsGrow, FilledBucket, DroppedBucket, SpansOf, NoPasses, Until, Time

LEMMA LimiterNumbers ==
    ASSUME LimiterTypeOK, NEW k \in LimiterKey
    PROVE  /\ maxRequests \in Nat /\ maxRequests > 0 /\ windowMs \in Nat /\ MaxTime \in Nat
           /\ now \in Nat /\ now <= MaxTime
           /\ \A t \in Until : passed[k][t] \in Nat
           /\ buckets[k] # NoBucket =>
                  /\ buckets[k] \in Bucket
                  /\ buckets[k].tokens \in Nat /\ buckets[k].tokens <= maxRequests
                  /\ buckets[k].lastRefill \in Nat /\ buckets[k].lastRefill <= now
BY LimiterAssumption DEF LimiterTypeOK, Bucket, Time

\* The bucket that check works on is as good as a stored one: filling a bucket
\* keeps what is known of it.
CurrentHolds(k, b) ==
    /\ b \in Bucket
    /\ b.tokens \in Nat
    /\ b.lastRefill \in Nat /\ b.lastRefill <= now /\ now <= b.lastRefill + windowMs
    /\ passed[k][now + 1] + b.tokens <= passed[k][b.lastRefill] + maxRequests
    /\ \A s \in Time :
           s <= b.lastRefill /\ b.lastRefill <= s + windowMs =>
               passed[k][b.lastRefill] <= passed[k][s] + maxRequests

LEMMA CurrentIsFilled ==
    ASSUME LimiterTypeOK, SpanInv, NEW k \in LimiterKey
    PROVE  CurrentHolds(k, Current(k))
<1>n. /\ maxRequests \in Nat /\ maxRequests > 0 /\ windowMs \in Nat /\ MaxTime \in Nat
      /\ now \in Nat /\ now <= MaxTime
      /\ \A t \in Until : passed[k][t] \in Nat
  BY LimiterNumbers
<1>f. /\ Full \in Bucket /\ Full.tokens = maxRequests /\ Full.lastRefill = now
      /\ now \in Until /\ now + 1 \in Until /\ now \in Time
  BY <1>n DEF Full, Bucket, Time, Until
<1>g. CountsGrow(k) /\ FilledBucket(k) /\ DroppedBucket(k)
  BY DEF SpanInv
<1>t. \A s \in Time : s \in Until /\ s \in Nat
  BY <1>n DEF Time, Until
<1>1. ASSUME buckets[k] = NoBucket PROVE CurrentHolds(k, Full)
  <2>1. \A s \in Time : s <= now /\ now <= s + windowMs => passed[k][now + 1] = passed[k][s]
    BY <1>1, <1>g DEF DroppedBucket
  <2>2. passed[k][now + 1] = passed[k][now]
    BY <2>1, <1>f, <1>n
  <2> QED
    BY <2>1, <2>2, <1>f, <1>n, <1>t DEF CurrentHolds
<1>2. ASSUME buckets[k] # NoBucket, Stale(buckets[k], windowMs) PROVE CurrentHolds(k, Full)
  <2> DEFINE r == buckets[k].lastRefill
  <2>1. r \in Nat /\ now > r + windowMs
    BY <1>2, LimiterNumbers DEF Stale
  <2>2. /\ passed[k][now + 1] = passed[k][r + windowMs + 1]
        /\ passed[k][now + 1] <= passed[k][r] + maxRequests
    BY <1>2, <1>g, <1>n, LimiterNumbers, <2>1, <1>f DEF FilledBucket, Until
  <2>3. r \in Until /\ r + windowMs + 1 \in Until /\ r + windowMs + 1 <= now
    BY <2>1, <1>n DEF Until
  <2>4. \A s, t \in Until : s <= t => passed[k][s] <= passed[k][t]
    BY <1>g DEF CountsGrow
  <2>5. passed[k][now + 1] = passed[k][now]
    <3>0. now <= now + 1
      BY <1>n
    <3> HIDE DEF r
    <3>1. passed[k][r + windowMs + 1] <= passed[k][now] /\ passed[k][now] <= passed[k][now + 1]
      BY <2>3, <2>4, <1>f, <3>0, Zenon
    <3>2. passed[k][now] \in Nat /\ passed[k][now + 1] \in Nat
      BY <1>f, <1>n
    <3> QED
      BY <3>1, <3>2, <2>2
  <2>6. \A s \in Time : s <= now /\ now <= s + windowMs =>
            passed[k][now] <= passed[k][s] + maxRequests
    <3> SUFFICES ASSUME NEW s \in Time, s <= now, now <= s + windowMs
                 PROVE  passed[k][now] <= passed[k][s] + maxRequests
      OBVIOUS
    <3>1. r <= s
      BY <2>1, <1>n, <1>t
    <3>2. passed[k][r] <= passed[k][s]
      BY <3>1, <2>3, <2>4, <1>t
    <3>3. /\ passed[k][r] \in Nat /\ passed[k][s] \in Nat
          /\ passed[k][now] \in Nat /\ passed[k][now + 1] \in Nat
      BY <2>3, <1>n, <1>t, <1>f
    <3> QED
      BY <3>2, <3>3, <2>2, <2>5, <1>n
  <2> QED
    BY <2>5, <2>6, <1>f, <1>n DEF CurrentHolds
<1>3. ASSUME buckets[k] # NoBucket, ~Stale(buckets[k], windowMs)
      PROVE  CurrentHolds(k, buckets[k])
  BY <1>3, <1>g, <1>n, LimiterNumbers DEF FilledBucket, CurrentHolds, Stale
<1> QED
  BY <1>1, <1>2, <1>3 DEF Current, Refill

LEMMA SpanCheck ==
    ASSUME LimiterTypeOK, SpanInv, NEW c \in LimiterKey, Check(c)
    PROVE  SpanInv'
<1> DEFINE b == Current(c)
<1>c. CurrentHolds(c, b)
  BY CurrentIsFilled
<1>n. /\ maxRequests \in Nat /\ maxRequests > 0 /\ windowMs \in Nat /\ MaxTime \in Nat
      /\ now \in Nat /\ now <= MaxTime /\ now' = now
  BY LimiterNumbers DEF Check
<1>t. /\ \A s \in Time : s \in Until /\ s \in Nat /\ s + 1 \in Until
      /\ now \in Until /\ now + 1 \in Until
      /\ \A s \in Until : s \in Nat
  BY <1>n DEF Time, Until
<1>1. ASSUME NEW k \in LimiterKey, k # c
      PROVE  (CountsGrow(k) /\ FilledBucket(k) /\ DroppedBucket(k) /\ SpansOf(k))'
  <2>1. buckets'[k] = buckets[k] /\ passed'[k] = passed[k]
    BY <1>1 DEF Check, LimiterTypeOK
  <2> QED
    BY <2>1, <1>n DEF SpanInv, CountsGrow, FilledBucket, DroppedBucket, SpansOf, Stale
<1>g. CountsGrow(c) /\ SpansOf(c) /\ \A t \in Until : passed[c][t] \in Nat
  BY LimiterNumbers DEF SpanInv
<1>f. b.tokens \in Nat /\ b.lastRefill \in Time /\ b # NoBucket /\ b.lastRefill \in Nat
  BY <1>c, <1>n DEF CurrentHolds, Bucket, NoBucket, Time
<1>2. ASSUME IsLimited(c)
      PROVE  (CountsGrow(c) /\ FilledBucket(c) /\ DroppedBucket(c) /\ SpansOf(c))'
  <2>1. buckets'[c] = b /\ passed' = passed
    BY <1>2 DEF Check, LimiterTypeOK
  <2> HIDE DEF b
  <2>2. CountsGrow(c)' /\ SpansOf(c)'
    BY <2>1, <1>n, <1>g DEF CountsGrow, SpansOf
  <2>3. DroppedBucket(c)'
    BY <2>1, <1>f DEF DroppedBucket
  <2>4. FilledBucket(c)'
    BY <2>1, <1>f, <1>c, <1>n DEF FilledBucket, CurrentHolds, Stale
  <2> QED
    BY <2>2, <2>3, <2>4
<1>3. ASSUME ~IsLimited(c)
      PROVE  (CountsGrow(c) /\ FilledBucket(c) /\ DroppedBucket(c) /\ SpansOf(c))'
  <2>1. /\ b.tokens >= 1
        /\ buckets'[c] = [b EXCEPT !.tokens = @ - 1]
        /\ passed'[c] = [t \in Until |-> IF t > now THEN passed[c][t] + 1 ELSE passed[c][t]]
    BY <1>3, <1>f DEF Check, LimiterTypeOK, IsLimited
  <2>2. \A t \in Until : passed'[c][t] = IF t > now THEN passed[c][t] + 1 ELSE passed[c][t]
    BY <2>1
  <2>3. /\ buckets'[c].tokens = b.tokens - 1
        /\ buckets'[c].lastRefill = b.lastRefill
        /\ buckets'[c] # NoBucket
    BY <2>1, <1>c, <1>f, <1>n DEF CurrentHolds, Bucket, NoBucket, Time
  <2>b. /\ b.lastRefill <= now /\ now <= b.lastRefill + windowMs
        /\ passed[c][now + 1] + b.tokens <= passed[c][b.lastRefill] + maxRequests
        /\ \A s \in Time :
               s <= b.lastRefill /\ b.lastRefill <= s + windowMs =>
                   passed[c][b.lastRefill] <= passed[c][s] + maxRequests
    BY <1>c DEF CurrentHolds
  <2> HIDE DEF b
  <2>4. CountsGrow(c)'
    <3>1. \A s, t \in Until : s <= t => passed'[c][s] <= passed'[c][t]
      <4> SUFFICES ASSUME NEW s \in Until, NEW t \in Until, s <= t
                   PROVE  passed'[c][s] <= passed'[c][t]
        OBVIOUS
      <4>1. /\ s \in Nat /\ t \in Nat /\ passed[c][s] \in Nat /\ passed[c][t] \in Nat
            /\ passed[c][s] <= passed[c][t]
        BY <1>g, <1>t DEF CountsGrow
      <4>2. /\ passed'[c][s] = IF s > now THEN passed[c][s] + 1 ELSE passed[c][s]
            /\ passed'[c][t] = IF t > now THEN passed[c][t] + 1 ELSE passed[c][t]
        BY <2>2
      <4> QED
        BY <4>1, <4>2, <1>n
    <3>2. \A t \in Until : t > now => passed'[c][t] = passed'[c][now + 1]
      BY <2>2, <1>n, <1>g, <1>t DEF CountsGrow
    <3> QED
      BY <3>1, <3>2, <1>n DEF CountsGrow
  <2>5. DroppedBucket(c)'
    BY <2>3 DEF DroppedBucket
  <2>6. /\ passed'[c][now + 1] = passed[c][now + 1] + 1
        /\ \A s \in Until : s <= now => passed'[c][s] = passed[c][s]
        /\ passed'[c][b.lastRefill] = passed[c][b.lastRefill]
    <3>1. b.lastRefill \in Until /\ ~(b.lastRefill > now) /\ now + 1 > now
      BY <2>b, <1>n, <1>t, <1>f
    <3>2. \A s \in Until : s <= now => ~(s > now)
      BY <1>n, <1>t
    <3> QED
      BY <3>1, <3>2, <2>2, <1>t
  <2>7. FilledBucket(c)'
    <3>1. passed'[c][now + 1] + buckets'[c].tokens <= passed'[c][b.lastRefill] + maxRequests
      BY <2>3, <2>6, <2>b, <1>n, <1>t, <1>f, <1>g
    <3>2. ~(now > b.lastRefill + windowMs)
      BY <2>b, <1>n, <1>f
    <3>3. \A s \in Time : s <= b.lastRefill /\ b.lastRefill <= s + windowMs =>
              passed'[c][b.lastRefill] <= passed'[c][s] + maxRequests
      BY <2>6, <2>b, <1>n, <1>t, <1>f
    <3> QED
      BY <3>1, <3>2, <3>3, <2>3, <1>n DEF FilledBucket, Stale
  <2>8. SpansOf(c)'
    <3> SUFFICES ASSUME NEW s \in Time, NEW t \in Time, s <= t, t <= now, t <= s + windowMs
                 PROVE  passed'[c][t + 1] <= passed'[c][s] + 2 * maxRequests
      BY <1>n DEF SpansOf
    <3>0. s \in Until /\ s \in Nat /\ t \in Nat /\ t + 1 \in Until /\ passed'[c][s] = passed[c][s]
      BY <2>6, <1>t, <1>n
    <3>1. CASE t < now
      <4>1. passed'[c][t + 1] = passed[c][t + 1]
        BY <3>0, <3>1, <2>6, <1>n
      <4> QED
        BY <3>0, <4>1, <1>g DEF SpansOf
    <3>2. CASE t = now /\ s >= b.lastRefill
      <4>1. passed[c][b.lastRefill] <= passed[c][s]
        BY <3>0, <3>2, <1>f, <1>t, <1>g DEF CountsGrow
      <4> QED
        BY <3>0, <3>2, <4>1, <2>6, <2>b, <2>1, <1>n, <1>t, <1>f, <1>g
    <3>3. CASE t = now /\ s < b.lastRefill
      <4>1. passed[c][b.lastRefill] <= passed[c][s] + maxRequests
        BY <3>0, <3>3, <2>b, <1>n, <1>f
      <4> QED
        BY <3>0, <3>3, <4>1, <2>6, <2>b, <2>1, <1>n, <1>t, <1>f, <1>g
    <3> QED
      BY <3>0, <3>1, <3>2, <3>3, <1>n, <1>f
  <2> QED
    BY <2>4, <2>5, <2>7, <2>8
<1> QED
  BY <1>1, <1>2, <1>3 DEF SpanInv

LEMMA SpanTick == ASSUME LimiterTypeOK, SpanInv, Tick PROVE SpanInv'
<1> SUFFICES ASSUME NEW k \in LimiterKey
             PROVE  (CountsGrow(k) /\ FilledBucket(k) /\ DroppedBucket(k) /\ SpansOf(k))'
  BY DEF SpanInv
<1>n. /\ maxRequests \in Nat /\ maxRequests > 0 /\ windowMs \in Nat /\ MaxTime \in Nat
      /\ now \in Nat /\ now < MaxTime /\ now' = now + 1
      /\ buckets' = buckets /\ passed' = passed
      /\ \A t \in Until : passed[k][t] \in Nat
  BY LimiterNumbers DEF Tick
<1>t. /\ \A s \in Time : s \in Until /\ s \in Nat /\ s + 1 \in Until
      /\ now \in Until /\ now + 1 \in Until /\ now + 2 \in Until /\ now \in Time
      /\ \A s \in Until : s \in Nat
  BY <1>n DEF Time, Until
<1>g. CountsGrow(k) /\ FilledBucket(k) /\ DroppedBucket(k) /\ SpansOf(k)
  BY DEF SpanInv
<1>1. passed[k][now + 2] = passed[k][now + 1] /\ now' + 1 = now + 2
  BY <1>n, <1>t, <1>g DEF CountsGrow
<1>2. CountsGrow(k)'
  BY <1>1, <1>n, <1>t, <1>g DEF CountsGrow
<1>3. FilledBucket(k)'
  <2>0. CASE buckets[k] = NoBucket
    BY <2>0, <1>n DEF FilledBucket
  <2>1. CASE buckets[k] # NoBucket
    <3>1. buckets[k].lastRefill \in Nat /\ buckets[k].lastRefill <= now
      BY <2>1, LimiterNumbers
    <3>2. now + 1 > buckets[k].lastRefill + windowMs =>
              passed[k][now + 2] = passed[k][buckets[k].lastRefill + windowMs + 1]
      <4> SUFFICES ASSUME now + 1 > buckets[k].lastRefill + windowMs
                   PROVE  passed[k][now + 2] = passed[k][buckets[k].lastRefill + windowMs + 1]
        OBVIOUS
      <4>1. CASE now > buckets[k].lastRefill + windowMs
        BY <4>1, <2>1, <1>1, <1>g DEF FilledBucket, Stale
      <4>2. CASE now = buckets[k].lastRefill + windowMs
        BY <4>2, <1>1
      <4> QED
        BY <4>1, <4>2, <3>1, <1>n
    <3> QED
      BY <3>2, <2>1, <1>1, <1>n, <1>g DEF FilledBucket, Stale
  <2> QED
    BY <2>0, <2>1
<1>4. DroppedBucket(k)'
  <2> SUFFICES ASSUME buckets[k] = NoBucket, NEW s \in Time, s <= now + 1, now + 1 <= s + windowMs
               PROVE  passed[k][now + 2] = passed[k][s]
    BY <1>n, <1>1 DEF DroppedBucket
  <2>1. CASE s = now + 1
    BY <2>1, <1>1
  <2>2. CASE s <= now
    BY <2>2, <1>1, <1>n, <1>t, <1>g DEF DroppedBucket
  <2> QED
    BY <2>1, <2>2, <1>n, <1>t
<1>5. SpansOf(k)'
  <2> SUFFICES ASSUME NEW s \in Time, NEW t \in Time, s <= t, t <= now + 1, t <= s + windowMs
               PROVE  passed[k][t + 1] <= passed[k][s] + 2 * maxRequests
    BY <1>n DEF SpansOf
  <2>1. CASE t <= now
    BY <2>1, <1>g DEF SpansOf
  <2>2. CASE t = now + 1 /\ s <= now
    <3>1. passed[k][now + 1] <= passed[k][s] + 2 * maxRequests
      BY <2>2, <1>n, <1>t, <1>g DEF SpansOf
    <3> QED
      BY <3>1, <2>2, <1>1, <1>n
  <2>3. CASE t = now + 1 /\ s = now + 1
    BY <2>3, <1>1, <1>n, <1>t
  <2>4. s \in Nat /\ t \in Nat
    BY <1>t
  <2>5. t <= now \/ (t = now + 1 /\ s <= now) \/ (t = now + 1 /\ s = now + 1)
    BY <2>4, <1>n
  <2> QED
    BY <2>1, <2>2, <2>3, <2>5
<1> QED
  BY <1>2, <1>3, <1>4, <1>5

LEMMA SpanCleanup == ASSUME LimiterTypeOK, SpanInv, Cleanup PROVE SpanInv'
<1> SUFFICES ASSUME NEW k \in LimiterKey
             PROVE  (CountsGrow(k) /\ FilledBucket(k) /\ DroppedBucket(k) /\ SpansOf(k))'
  BY DEF SpanInv
<1>n. /\ maxRequests \in Nat /\ windowMs \in Nat /\ MaxTime \in Nat
      /\ now \in Nat /\ now <= MaxTime /\ now' = now /\ passed' = passed
      /\ \A t \in Until : passed[k][t] \in Nat
  BY LimiterNumbers DEF Cleanup
<1>g. CountsGrow(k) /\ FilledBucket(k) /\ DroppedBucket(k) /\ SpansOf(k)
  BY DEF SpanInv
<1>1. CountsGrow(k)' /\ SpansOf(k)'
  BY <1>n, <1>g DEF CountsGrow, SpansOf
<1>2. CASE buckets'[k] = buckets[k]
  BY <1>1, <1>2, <1>n, <1>g DEF FilledBucket, DroppedBucket, Stale
<1>3. CASE buckets[k] # NoBucket /\ Stale(buckets[k], 2 * windowMs) /\ buckets'[k] = NoBucket
  <2> DEFINE r == buckets[k].lastRefill
  <2>1. r \in Nat /\ now > r + 2 * windowMs
    BY <1>3, LimiterNumbers DEF Stale
  <2>2. passed[k][now + 1] = passed[k][r + windowMs + 1]
    BY <1>3, <2>1, <1>n, <1>g DEF FilledBucket, Stale
  <2>3. \A s \in Time : s <= now /\ now <= s + windowMs => passed[k][now + 1] = passed[k][s]
    <3> SUFFICES ASSUME NEW s \in Time, s <= now, now <= s + windowMs
                 PROVE  passed[k][now + 1] = passed[k][s]
      OBVIOUS
    <3>1. /\ s \in Nat /\ r + windowMs + 1 <= s
          /\ s \in Until /\ now + 1 \in Until /\ r + windowMs + 1 \in Until
      BY <2>1, <1>n DEF Time, Until
    <3>2. /\ passed[k][r + windowMs + 1] <= passed[k][s]
          /\ passed[k][s] <= passed[k][now + 1]
          /\ passed[k][s] \in Nat /\ passed[k][now + 1] \in Nat
      <4>1. s <= now + 1
        BY <3>1, <1>n
      <4> QED
        BY <3>1, <4>1, <1>n, <1>g DEF CountsGrow
    <3> QED
      BY <3>2, <2>2
  <2> QED
    BY <1>1, <1>3, <1>n, <2>3 DEF FilledBucket, DroppedBucket
<1> QED
  BY <1>2, <1>3 DEF Cleanup, LimiterTypeOK

LEMMA SpanForget == ASSUME LimiterTypeOK, Forget PROVE SpanInv'
BY LimiterNumbers, LimiterAssumption
DEF Forget, LimiterTypeOK, SpanInv, CountsGrow, FilledBucket, DroppedBucket, SpansOf, NoPasses,
    Until, Time

\* What a request or an operator does is a step of the limiter or none of it.
LEMMA LimiterSteps == TypeOK /\ LookupInv /\ [Next]_vars => [LimiterNext]_limiterVars
<1> SUFFICES ASSUME TypeOK, LookupInv, [Next]_vars PROVE [LimiterNext]_limiterVars
  OBVIOUS
<1>1. ASSUME NEW h \in Handler, LookupRejects(h) PROVE \E c \in LimiterKey : Check(c)
  BY <1>1 DEF LookupRejects, Reject, LookupInv
<1>2. ASSUME NEW newRing \in Ring, Restart(newRing) PROVE Forget
  BY <1>2 DEF Restart
<1> QED
  BY <1>1, <1>2
  DEF Next, vars, LimiterNext, Present, LookupNext, LookupAccepts, CommitUse, Answer,
      RevokeOwn, RotateOwn, Issue, RotateApiKey, RevokeApiKey, Expire

LEMMA SpanStep == IInv /\ SpanInv /\ [Next]_vars => SpanInv'
<1> SUFFICES ASSUME IInv, SpanInv, [Next]_vars PROVE SpanInv'
  OBVIOUS
<1>1. LimiterTypeOK
  BY DEF IInv, TypeOK
<1>2. CASE UNCHANGED limiterVars
  BY <1>2
  DEF limiterVars, SpanInv, CountsGrow, FilledBucket, DroppedBucket, SpansOf, Stale
<1> QED
  BY <1>1, <1>2, LimiterSteps, SpanCheck, SpanCleanup, SpanTick, SpanForget DEF IInv, LimiterNext

\* check and its cleanup timer let twice maxRequests calls through in any
\* span of a window's length, for any size of the bucket and of the window.
THEOREM SpansAreBounded == Spec => []SpanIsBounded
<1>1. IInv /\ SpanInv => SpanIsBounded
  <2> SUFFICES ASSUME IInv, SpanInv, NEW k \in LimiterKey, NEW t \in Time, t + windowMs <= now
               PROVE  PassedIn(k, t, t + windowMs) <= 2 * maxRequests
    BY DEF SpanIsBounded
  <2>1. LimiterTypeOK /\ SpansOf(k)
    BY DEF IInv, TypeOK, SpanInv
  <2>2. /\ t \in Nat /\ windowMs \in Nat /\ t + windowMs \in Time /\ maxRequests \in Nat
        /\ passed[k][t] \in Nat /\ passed[k][t + windowMs + 1] \in Nat
    BY <2>1, LimiterNumbers DEF Time, Until
  <2>3. passed[k][t + windowMs + 1] <= passed[k][t] + 2 * maxRequests
    BY <2>1, <2>2 DEF SpansOf
  <2> QED
    BY <2>2, <2>3 DEF PassedIn
<1>2. Init => SpanInv
  BY SpanInit DEF Init
<1> QED
  BY <1>1, <1>2, SpanStep, Invariance, PTL DEF Spec

===============================================================================
