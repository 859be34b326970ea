-------------------------- MODULE SecretAccessProofs ---------------------------
(***************************************************************************)
(* Proofs about AccessPolicy and SecretAccess, and about KeyRotation and   *)
(* MetadataPages, which extend them with the script and with the lists.    *)
(***************************************************************************)
EXTENDS KeyRotation, MetadataPages, FiniteSetTheorems, TLAPS

-------------------------------------------------------------------------------
(* The policy                                                                *)

\* A project, resource or user is not None.
LEMMA Nothing ==
    /\ \A u \in User : u # None
    /\ \A p \in Project : p # None
    /\ \A r \in Resource : r # None
    /\ \A ro \in MemberRole \cup GuardianRole : ro # None
  BY NoneIsNothing

\* The roles that give what the program asks for about a resource.
LEMMA WhatRolesGive ==
    ASSUME NEW ro \in DOMAIN Gives
    PROVE  /\ "secret.write" \in Gives[ro] <=> ro \in {"ResourceOwner", "Writer"}
           /\ "secret.delete" \in Gives[ro] <=> ro \in {"ResourceOwner", "Writer"}
           /\ "secret.value.read" \in Gives[ro] <=> ro \in {"ResourceOwner", "Writer", "Reader"}
           /\ "guardian.manage" \in Gives[ro] <=> ro = "ResourceOwner"
           /\ "request.queue.view" \in Gives[ro] <=> ro \in {"ResourceOwner", "Guardian"}
  BY DEF Gives, ViewProject, ManageProject, EditProject, ReadSecret, WriteSecret,
         ManageResource, ViewQueue, OwnRequest, OwnAccount, Create

\* A context that names a resource and at most a secret of it.
IsAbout(c, r) ==
    /\ c.resource = r /\ c.project = None /\ c.environment = None
    /\ c.request = None /\ c.account = None /\ c.subject = None

\* The roles of a user in a context that names a resource, or a secret of it.
LEMMA RolesAtResource ==
    ASSUME PolicyTypeOK, NEW r \in Resource, NEW u \in User, NEW c, IsAbout(c, r)
    PROVE  /\ Coherent(c) /\ Named(c) = {r}
           /\ Roles(c, u) \subseteq DOMAIN Gives
           /\ "ResourceOwner" \in Roles(c, u) <=> IsEffectiveOwner(r, u)
           /\ "Guardian" \in Roles(c, u) <=> guardian[r][u] = "GUARDIAN"
           /\ "Writer" \in Roles(c, u) <=>
                IsLinked(r) /\ HomeOwner(r) # u /\ member[home[r]][u] = "WRITER"
           /\ "Reader" \in Roles(c, u) <=>
                IsLinked(r) /\ HomeOwner(r) # u /\ member[home[r]][u] = "READER"
<1>1. /\ c.resource = r /\ c.project = None /\ c.environment = None
      /\ c.request = None /\ c.account = None /\ c.subject = None
  BY DEF IsAbout
<1>2. r # None /\ u # None
  BY Nothing
<1>3. Named(c) = {r} /\ Coherent(c)
  BY <1>1, <1>2 DEF Named, Coherent
<1>4. ProjectOf(c) = home[r]
  BY <1>1, <1>2, <1>3 DEF ProjectOf
<1>5. RequestRoles(c, u) = {} /\ AccountRoles(c, u) = {} /\ ~AsksForSecret(c)
  BY <1>1 DEF RequestRoles, AccountRoles, AsksForSecret
<1>6. GuardianRoles(c, u) =
        IF guardian[r][u] = "GUARDIAN" THEN {"Guardian"}
        ELSE IF home[r] = None /\ guardian[r][u] = "OWNER" THEN {"ResourceOwner"} ELSE {}
  BY <1>3, <1>4, <1>5 DEF GuardianRoles
<1>7. ProjectRoles(home[r], u) =
        IF home[r] = None THEN {}
        ELSE IF owner[home[r]] = u THEN {"ProjectOwner", "ResourceOwner"}
        ELSE IF member[home[r]][u] = "WRITER" THEN {"Writer"}
        ELSE IF member[home[r]][u] = "READER" THEN {"Reader"} ELSE {}
  BY DEF ProjectRoles
<1>8. Roles(c, u) = ProjectRoles(home[r], u) \cup GuardianRoles(c, u) \cup {"Anyone"}
  BY <1>1, <1>2, <1>4, <1>5 DEF Roles
<1>9. Roles(c, u) \subseteq DOMAIN Gives
  BY <1>6, <1>7, <1>8 DEF Gives
<1>10. QED
  BY <1>3, <1>6, <1>7, <1>8, <1>9 DEF IsEffectiveOwner, IsLinked, HomeOwner

\* What hasCapability comes to for a user and what the program asks for about a
\* resource.
LEMMA CapabilityAtResource ==
    ASSUME NEW p, p.subject \in User, p.type \in UserPrincipal, NEW r \in Resource,
           PolicyTypeOK, NEW c, IsAbout(c, r),
           NEW cap \in {"secret.write", "secret.delete", "secret.value.read",
                        "guardian.manage", "request.queue.view"}
    PROVE  HasCapability(p, cap, c) <=>
             InScope(p, cap) /\ \E ro \in Roles(c, p.subject) : cap \in Gives[ro]
<1>1. Coherent(c)
  BY RolesAtResource
<1>2. ~Forbidden(cap, c, p.subject) /\ Needs(p, cap, c) = {cap}
  BY DEF Forbidden, Needs
<1>3. UserHas(p, cap, c) <=> \E ro \in Roles(c, p.subject) : cap \in Gives[ro]
  BY <1>1, <1>2 DEF UserHas, RolesGive
<1>4. HasCapability(p, cap, c) <=> InScope(p, cap) /\ UserHas(p, cap, c)
  BY DEF HasCapability, UserPrincipal
<1>5. QED
  BY <1>3, <1>4

\* Whatever the rows say, the ways of asking for authority agree.
LEMMA AuthoritiesAgreeAlways == ASSUME PolicyTypeOK PROVE AuthoritiesAgree
<1> SUFFICES ASSUME NEW r \in Resource, NEW u \in User
             PROVE  LET may(cap) == HasCapability(DiscordPrincipal(u), cap,
                                                  [NoContext EXCEPT !.resource = r])
                    IN  /\ IsEffectiveOwner(r, u)
                             <=> [user |-> u, role |-> "OWNER"] \in EffectiveGuardians(r)
                        /\ IsEffectiveOwner(r, u) <=> may("guardian.manage")
                        /\ IsEffectiveGuardian(r, u) <=>
                             \E g \in EffectiveGuardians(r) : g.user = u
                        /\ IsEffectiveGuardian(r, u) <=> r \in GuardedResources(u)
                        /\ IsEffectiveGuardian(r, u) <=> may("request.queue.view")
                        /\ IsLinked(r) => (HasWriteAccess(home[r], u) <=> may("secret.write"))
  BY DEF AuthoritiesAgree
<1> DEFINE c == [NoContext EXCEPT !.resource = r]
           p == DiscordPrincipal(u)
<1>1. IsAbout(c, r)
  BY DEF IsAbout, NoContext
<1>2. p.subject = u /\ p.type \in UserPrincipal /\ \A cap : InScope(p, cap)
  BY DEF DiscordPrincipal, UserPrincipal, InScope
<1>3. \A cap \in {"secret.write", "guardian.manage", "request.queue.view"} :
        HasCapability(p, cap, c) <=> \E ro \in Roles(c, u) : cap \in Gives[ro]
  BY <1>1, <1>2, CapabilityAtResource
<1>4. /\ Roles(c, u) \subseteq DOMAIN Gives
      /\ "ResourceOwner" \in Roles(c, u) <=> IsEffectiveOwner(r, u)
      /\ "Guardian" \in Roles(c, u) <=> guardian[r][u] = "GUARDIAN"
      /\ "Writer" \in Roles(c, u) <=>
            IsLinked(r) /\ HomeOwner(r) # u /\ member[home[r]][u] = "WRITER"
  BY <1>1, RolesAtResource
<1>5. /\ HasCapability(p, "guardian.manage", c) <=> "ResourceOwner" \in Roles(c, u)
      /\ HasCapability(p, "request.queue.view", c) <=>
            Roles(c, u) \cap {"ResourceOwner", "Guardian"} # {}
      /\ HasCapability(p, "secret.write", c) <=>
            Roles(c, u) \cap {"ResourceOwner", "Writer"} # {}
  BY <1>3, <1>4, WhatRolesGive
<1> HIDE DEF c, p
<1>6. IsEffectiveGuardian(r, u) <=> IsEffectiveOwner(r, u) \/ guardian[r][u] = "GUARDIAN"
  BY Nothing DEF IsEffectiveGuardian, IsEffectiveOwner, PolicyTypeOK, GuardianRole
<1>7. ASSUME NEW x, NEW y
      PROVE  [user |-> x, role |-> y] \in EffectiveGuardians(r) <=>
               IF IsLinked(r) THEN \/ x = HomeOwner(r) /\ y = "OWNER"
                                   \/ /\ x \in User /\ x # HomeOwner(r)
                                      /\ y = guardian[r][x] /\ y = "GUARDIAN"
               ELSE x \in User /\ y = guardian[r][x] /\ y # None
  BY Nothing DEF EffectiveGuardians, GuardianRows, GuardianRole
<1>8. IsEffectiveOwner(r, u) <=> [user |-> u, role |-> "OWNER"] \in EffectiveGuardians(r)
  BY <1>7, Nothing DEF IsEffectiveOwner, GuardianRole
<1>9. IsEffectiveGuardian(r, u) <=> \E g \in EffectiveGuardians(r) : g.user = u
  <2>1. \A g \in EffectiveGuardians(r) : g = [user |-> g.user, role |-> g.role]
    BY DEF EffectiveGuardians, GuardianRows
  <2>2. (\E g \in EffectiveGuardians(r) : g.user = u) <=>
          \E y : [user |-> u, role |-> y] \in EffectiveGuardians(r)
    BY <2>1
  <2>3. (\E y : [user |-> u, role |-> y] \in EffectiveGuardians(r)) <=>
          IF IsLinked(r) THEN u = HomeOwner(r) \/ guardian[r][u] = "GUARDIAN"
          ELSE guardian[r][u] # None
    BY <1>7
  <2>4. QED
    BY <2>2, <2>3 DEF IsEffectiveGuardian
<1>10. IsEffectiveGuardian(r, u) <=> r \in GuardedResources(u)
  BY <1>6 DEF IsEffectiveOwner, GuardedResources, OwnedResources
<1>11. IsLinked(r) =>
         (HasWriteAccess(home[r], u) <=>
            IsEffectiveOwner(r, u) \/ member[home[r]][u] = "WRITER")
  BY DEF HasWriteAccess, IsEffectiveOwner, HomeOwner
<1>12. QED
  BY <1>4, <1>5, <1>6, <1>8, <1>9, <1>10, <1>11 DEF c, p, IsEffectiveOwner

-------------------------------------------------------------------------------
(* Secrets: the invariant                                                    *)

\* A stored row has a version that its resource had after it was created.
RowsAreVersioned ==
    \A r \in Resource, n \in Name :
        IF IsStored(r, n) THEN field[r][n].version \in 1..version[r]
        ELSE field[r][n] = NoRow

\* Each row has an id of its own.
IdsAreOwn ==
    /\ \A r \in Resource, n \in Name : IsStored(r, n) => field[r][n].id \in drawn
    /\ \A r, s \in Resource, n, m \in Name :
          IsStored(r, n) /\ field[r][n].id = field[s][m].id => r = s /\ n = m

\* What a call knows; it is rightful as soon as its caller has the right.
IsSound(k) ==
    /\ call[k].op \in Operation /\ call[k].principal \in Principal
    /\ call[k].resource \in Resource /\ Exists(call[k].resource)
    /\ call[k].name \in Name
    /\ call[k].op = "put" => call[k].project \in Project
    /\ call[k].op \in {"put", "create"} => call[k].value \in Value
    /\ HasRight(call[k].op, call[k].resource, call[k].principal.subject) => call[k].rightful
    /\ call[k].pc # "asked" => call[k].rightful

CallsAreSound == \A k \in Call : call[k].pc # "idle" => IsSound(k)

SecretInv ==
    SecretTypeOK /\ HomesExist /\ RowsAreVersioned /\ IdsAreOwn /\ CallsAreSound

\* The invariant of the secrets holds at the start.
LEMMA SecretInitially == SecretInit => SecretInv
<1> SUFFICES ASSUME SecretInit PROVE SecretInv
  OBVIOUS
<1>1. PICK r1 \in Resource, n1 \in Name, v1 \in Value, k1 \in {"old", "plain"} :
        /\ drawn # {} => Exists(r1)
        /\ field = [s \in Resource |-> [m \in Name |->
                     IF s = r1 /\ m = n1 /\ drawn # {}
                     THEN [id |-> CHOOSE i \in drawn : TRUE, value |-> v1,
                           version |-> 1, key |-> k1]
                     ELSE NoRow]]
  BY DEF SecretInit
<1>2. drawn \subseteq RowId /\ (drawn # {} => (CHOOSE i \in drawn : TRUE) \in drawn)
  BY DEF SecretInit
<1> DEFINE id == CHOOSE i \in drawn : TRUE
<1> HIDE DEF id
<1>3. \A s \in Resource, m \in Name :
        field[s][m] = IF s = r1 /\ m = n1 /\ drawn # {}
                      THEN [id |-> id, value |-> v1, version |-> 1, key |-> k1] ELSE NoRow
  BY <1>1 DEF id
<1>4. field \in [Resource -> [Name -> Row \cup {NoRow}]]
  <2>1. drawn # {} => [id |-> id, value |-> v1, version |-> 1, key |-> k1] \in Row
    BY <1>2 DEF id, Row, CipherKey
  <2>2. QED
    BY <1>1, <1>3, <2>1 DEF id
<1>5. SecretTypeOK
  <2>1. PolicyTypeOK
    BY DEF SecretInit, PolicyTypeOK, GuardianRole
  <2>2. Idle \in Frame
    BY DEF Idle, Frame
  <2>3. QED
    <3>1. version \in [Resource -> Nat] /\ policy \in [Project -> Nat]
      <4>1. version \in [Resource -> {0, 1}] /\ policy \in [Project -> {0, 1}]
        BY DEF SecretInit
      <4>2. QED
        BY <4>1
    <3>2. botKey \in {"old", "new"} /\ call \in [Call -> Frame]
      BY <2>2 DEF SecretInit
    <3>3. QED
      BY <1>2, <1>4, <2>1, <3>1, <3>2 DEF SecretTypeOK
<1>6. HomesExist
  BY DEF SecretInit, HomesExist
<1>7. drawn # {} => version[r1] = 1
  BY <1>1 DEF SecretInit, Exists
<1>8. RowsAreVersioned /\ IdsAreOwn
  <2>1. \A s \in Resource, m \in Name :
          IF s = r1 /\ m = n1 /\ drawn # {}
          THEN field[s][m].id = id /\ field[s][m].version = 1 ELSE field[s][m] = NoRow
    BY <1>3
  <2>2. drawn # {} => id \in drawn /\ id # None
    BY <1>2, RowIdAssumption DEF id
  <2>3. \A s \in Resource, m \in Name :
          IsStored(s, m) <=> s = r1 /\ m = n1 /\ drawn # {}
    BY <2>1, <2>2 DEF IsStored, NoRow
  <2>4. RowsAreVersioned
    BY <1>7, <2>1, <2>3 DEF RowsAreVersioned
  <2>5. IdsAreOwn
    BY <2>1, <2>2, <2>3 DEF IdsAreOwn, NoRow
  <2>6. QED
    BY <2>4, <2>5
<1>9. CallsAreSound
  BY DEF SecretInit, CallsAreSound, Idle
<1>10. QED
  BY <1>5, <1>6, <1>8, <1>9 DEF SecretInv

-------------------------------------------------------------------------------
(* Secrets: steps that change rights                                         *)

\* A step that remembers rights keeps the calls as they are otherwise.
LEMMA CallsRemember ==
    ASSUME SecretTypeOK, CallsAreSound, CallsAfterChange,
           \A r \in Resource : Exists(r) => Exists(r)'
    PROVE  call' \in [Call -> Frame] /\ CallsAreSound'
<1> DEFINE right(k) == <<call[k].op, call[k].resource, call[k].principal.subject>> \in Rights'
<1>1. \A k \in Call : call[k] \in Frame
  BY DEF SecretTypeOK
<1>2. ASSUME NEW k \in Call
      PROVE  /\ call[k].rightful \/ right(k) => call'[k] = [call[k] EXCEPT !.rightful = TRUE]
             /\ ~(call[k].rightful \/ right(k)) =>
                  call'[k] = [call[k] EXCEPT !.rightful = FALSE]
  <2>1. call'[k] = [call[k] EXCEPT !.rightful = call[k].rightful \/ right(k)]
    BY <1>1 DEF CallsAfterChange, Frame
  <2> HIDE DEF right
  <2>2. CASE call[k].rightful \/ right(k)
    <3>1. (call[k].rightful \/ right(k)) = TRUE
      BY <2>2
    <3>2. QED
      BY <2>1, <2>2, <3>1
  <2>3. CASE ~(call[k].rightful \/ right(k))
    <3>1. (call[k].rightful \/ right(k)) = FALSE
      BY <2>3
    <3>2. QED
      BY <2>1, <2>3, <3>1
  <2>4. QED
    BY <2>2, <2>3
<1>3. ASSUME NEW k \in Call
      PROVE  /\ call'[k] \in Frame
             /\ call'[k].pc = call[k].pc /\ call'[k].op = call[k].op
             /\ call'[k].principal = call[k].principal
             /\ call'[k].resource = call[k].resource /\ call'[k].project = call[k].project
             /\ call'[k].name = call[k].name /\ call'[k].value = call[k].value
             /\ call[k].rightful \/ right(k) => call'[k].rightful
  <2> HIDE DEF right
  <2>1. CASE call[k].rightful \/ right(k)
    <3>1. call'[k] = [call[k] EXCEPT !.rightful = TRUE] /\ call[k] \in Frame
      BY <1>1, <1>2, <2>1
    <3>2. call'[k] \in Frame
      BY <3>1 DEF Frame
    <3>3. /\ call'[k].rightful = TRUE
          /\ call'[k].pc = call[k].pc /\ call'[k].op = call[k].op
          /\ call'[k].principal = call[k].principal
          /\ call'[k].resource = call[k].resource /\ call'[k].project = call[k].project
          /\ call'[k].name = call[k].name /\ call'[k].value = call[k].value
      BY <3>1 DEF Frame
    <3>4. QED
      BY <2>1, <3>2, <3>3
  <2>2. CASE ~(call[k].rightful \/ right(k))
    <3>1. call'[k] = [call[k] EXCEPT !.rightful = FALSE] /\ call[k] \in Frame
      BY <1>1, <1>2, <2>2
    <3>2. call'[k] \in Frame
      BY <3>1 DEF Frame
    <3>3. /\ call'[k].rightful = FALSE
          /\ call'[k].pc = call[k].pc /\ call'[k].op = call[k].op
          /\ call'[k].principal = call[k].principal
          /\ call'[k].resource = call[k].resource /\ call'[k].project = call[k].project
          /\ call'[k].name = call[k].name /\ call'[k].value = call[k].value
      BY <3>1 DEF Frame
    <3>4. QED
      BY <2>2, <3>2, <3>3
  <2>3. QED
    BY <2>1, <2>2
<1>4. call' \in [Call -> Frame]
  BY <1>3, Zenon DEF CallsAfterChange
<1>5. ASSUME NEW k \in Call, call'[k].pc # "idle"
      PROVE  IsSound(k)'
  <2>1. IsSound(k) /\ call[k].principal.subject \in User
    BY <1>3, <1>5, PrincipalAssumption DEF CallsAreSound, IsSound
  <2>2. ASSUME NEW op \in Operation, NEW r \in Resource, NEW u \in User, HasRight(op, r, u)',
               op = call[k].op, r = call[k].resource, u = call[k].principal.subject
        PROVE  right(k)
    BY <2>2 DEF Rights
  <2> HIDE DEF right
  <2>3. HasRight(call[k].op, call[k].resource, call[k].principal.subject)' => right(k)
    BY <1>3, <2>1, <2>2 DEF IsSound
  <2>4. QED
    BY <1>3, <2>1, <2>3 DEF IsSound
<1>6. QED
  BY <1>4, <1>5 DEF CallsAreSound

\* A step that leaves the calls alone gives nobody a right at a resource there is.
LEMMA CallsUntouched ==
    ASSUME SecretTypeOK, CallsAreSound, UNCHANGED call,
           \A r \in Resource : Exists(r) => Exists(r)',
           \A op \in Operation, r \in Resource, u \in User :
              Exists(r) /\ HasRight(op, r, u)' => HasRight(op, r, u)
    PROVE  call' \in [Call -> Frame] /\ CallsAreSound'
<1>1. call' \in [Call -> Frame]
  BY DEF SecretTypeOK
<1>2. ASSUME NEW k \in Call, call'[k].pc # "idle"
      PROVE  IsSound(k)'
  <2>1. IsSound(k) /\ call[k].principal.subject \in User
    BY <1>2, PrincipalAssumption DEF CallsAreSound, IsSound
  <2>2. HasRight(call[k].op, call[k].resource, call[k].principal.subject)'
          => HasRight(call[k].op, call[k].resource, call[k].principal.subject)
    BY <2>1 DEF IsSound
  <2>3. QED
    BY <2>1, <2>2 DEF IsSound
<1>3. QED
  BY <1>1, <1>2 DEF CallsAreSound

\* The rows are kept and versions only grow.
LEMMA RowsUntouched ==
    ASSUME SecretTypeOK, RowsAreVersioned, IdsAreOwn, UNCHANGED <<field, drawn>>,
           version' \in [Resource -> Nat], \A r \in Resource : version[r] <= version'[r]
    PROVE  RowsAreVersioned' /\ IdsAreOwn'
<1>1. RowsAreVersioned'
  <2>1. \A r \in Resource : version[r] \in Nat /\ version'[r] \in Nat
    BY DEF SecretTypeOK
  <2>2. QED
    BY <2>1 DEF RowsAreVersioned, IsStored
<1>2. IdsAreOwn'
  BY DEF IdsAreOwn, IsStored
<1>3. QED
  BY <1>1, <1>2

\* A resource that draws a version has the next one, every other the one it had.
LEMMA NewVersionGrows ==
    ASSUME SecretTypeOK, NEW r \in Resource, NewVersion(r)
    PROVE  /\ version' \in [Resource -> Nat] /\ version'[r] = version[r] + 1
           /\ \A s \in Resource : version[s] <= version'[s] /\ (Exists(s) => Exists(s)')
  BY DEF SecretTypeOK, NewVersion, Exists

\* The projects that members come and go in, and the guardians.
LEMMA PolicyStepKeeps == SecretInv /\ PolicyStep => SecretInv'
<1> SUFFICES ASSUME SecretInv, PolicyStep PROVE SecretInv'
  OBVIOUS
<1>1. /\ SecretTypeOK /\ HomesExist /\ RowsAreVersioned /\ IdsAreOwn /\ CallsAreSound
      /\ PolicyTypeOK
  BY DEF SecretInv, SecretTypeOK
<1>2. ASSUME NEW p \in Project, NEW u \in User, CreateProject(p, u)
      PROVE  SecretInv'
  <2>1. owner[p] = None /\ owner' = [owner EXCEPT ![p] = u]
        /\ policy' = [policy EXCEPT ![p] = 1]
        /\ UNCHANGED <<member, home, guardian, version, field, drawn, botKey, call>>
    BY <1>2 DEF CreateProject
  <2>2. PolicyTypeOK' /\ HomesExist'
    BY <1>1, <2>1, Nothing DEF PolicyTypeOK, HomesExist
  <2>3. \A op \in Operation, r \in Resource, v \in User :
           HasRight(op, r, v)' => HasRight(op, r, v)
    BY <1>1, <2>1 DEF HasRight, IsLinked, HomeOwner, HomesExist, PolicyTypeOK
  <2>4. \A r \in Resource : version'[r] = version[r] /\ (Exists(r) => Exists(r)')
    BY <2>1 DEF Exists
  <2>5. call' \in [Call -> Frame] /\ CallsAreSound'
    BY <1>1, <2>1, <2>3, <2>4, CallsUntouched
  <2>6. RowsAreVersioned' /\ IdsAreOwn'
    BY <1>1, <2>1, <2>4, RowsUntouched DEF SecretTypeOK
  <2>7. SecretTypeOK'
    BY <1>1, <2>1, <2>2, <2>5 DEF SecretTypeOK
  <2>8. QED
    BY <2>2, <2>5, <2>6, <2>7 DEF SecretInv
<1>3. ASSUME NEW p \in Project, NEW u \in User, NEW ro \in MemberRole \cup {None},
             member' = [member EXCEPT ![p][u] = ro], policy' = [policy EXCEPT ![p] = @ + 1],
             UNCHANGED <<owner, home, guardian, version, field, drawn, botKey>>,
             CallsAfterChange
      PROVE  SecretInv'
  <2>1. PolicyTypeOK' /\ HomesExist'
    BY <1>1, <1>3 DEF PolicyTypeOK, HomesExist
  <2>2. \A r \in Resource : version'[r] = version[r] /\ (Exists(r) => Exists(r)')
    BY <1>3 DEF Exists
  <2>3. call' \in [Call -> Frame] /\ CallsAreSound'
    BY <1>1, <1>3, <2>2, CallsRemember
  <2>4. RowsAreVersioned' /\ IdsAreOwn'
    BY <1>1, <1>3, <2>2, RowsUntouched DEF SecretTypeOK
  <2>5. SecretTypeOK'
    BY <1>1, <1>3, <2>1, <2>3 DEF SecretTypeOK
  <2>6. QED
    BY <2>1, <2>3, <2>4, <2>5 DEF SecretInv
<1>4. ASSUME NEW r \in Resource, NEW p \in Project \cup {None}, NEW u \in User,
             CreateResource(r, p, u)
      PROVE  SecretInv'
  <2>1. /\ ~Exists(r) /\ (p # None => owner[p] = u)
        /\ home' = [home EXCEPT ![r] = p]
        /\ guardian' = [guardian EXCEPT ![r][u] = "OWNER"]
        /\ version' = [version EXCEPT ![r] = 1]
        /\ UNCHANGED <<owner, member, policy, field, drawn, botKey, call>>
    BY <1>4 DEF CreateResource
  <2>2. PolicyTypeOK' /\ HomesExist'
    BY <1>1, <2>1, Nothing DEF PolicyTypeOK, HomesExist, GuardianRole
  <2>3. \A op \in Operation, s \in Resource, v \in User :
           Exists(s) /\ HasRight(op, s, v)' => HasRight(op, s, v)
    BY <1>1, <2>1 DEF HasRight, IsLinked, HomeOwner, PolicyTypeOK
  <2>4. /\ version' \in [Resource -> Nat]
        /\ \A s \in Resource : version[s] <= version'[s] /\ (Exists(s) => Exists(s)')
    BY <1>1, <2>1 DEF Exists, SecretTypeOK
  <2>5. call' \in [Call -> Frame] /\ CallsAreSound'
    BY <1>1, <2>1, <2>3, <2>4, CallsUntouched
  <2>6. RowsAreVersioned' /\ IdsAreOwn'
    BY <1>1, <2>1, <2>4, RowsUntouched
  <2>7. SecretTypeOK'
    BY <1>1, <2>1, <2>2, <2>4, <2>5 DEF SecretTypeOK
  <2>8. QED
    BY <2>2, <2>5, <2>6, <2>7 DEF SecretInv
<1>5. ASSUME NEW r \in Resource, NEW u \in User, NEW ro \in GuardianRole \cup {None},
             SetGuardian(r, u, ro)
      PROVE  SecretInv'
  <2>1. /\ guardian' = [guardian EXCEPT ![r][u] = ro] /\ NewVersion(r) /\ CallsAfterChange
        /\ UNCHANGED <<owner, member, home, policy, field, drawn, botKey>>
    BY <1>5 DEF SetGuardian
  <2>2. PolicyTypeOK' /\ HomesExist'
    BY <1>1, <2>1 DEF PolicyTypeOK, HomesExist
  <2>3. /\ version' \in [Resource -> Nat]
        /\ \A s \in Resource : version[s] <= version'[s] /\ (Exists(s) => Exists(s)')
    BY <1>1, <2>1, NewVersionGrows
  <2>4. call' \in [Call -> Frame] /\ CallsAreSound'
    BY <1>1, <2>1, <2>3, CallsRemember
  <2>5. RowsAreVersioned' /\ IdsAreOwn'
    BY <1>1, <2>1, <2>3, RowsUntouched
  <2>6. SecretTypeOK'
    BY <1>1, <2>1, <2>2, <2>3, <2>4 DEF SecretTypeOK
  <2>7. QED
    BY <2>2, <2>4, <2>5, <2>6 DEF SecretInv
<1>6. QED
  <2>1. ASSUME NEW p \in Project, NEW u \in User, RemoveMember(p, u) PROVE SecretInv'
    BY <1>3, <2>1 DEF RemoveMember
  <2>2. ASSUME NEW p \in Project, NEW u \in User, NEW ro \in MemberRole, AddMember(p, u, ro)
        PROVE  SecretInv'
    BY <1>3, <2>2 DEF AddMember
  <2>3. ASSUME NEW r \in Resource, NEW u \in User, AddGuardian(r, u) \/ RemoveGuardian(r, u)
        PROVE  SecretInv'
    BY <1>5, <2>3 DEF AddGuardian, RemoveGuardian, GuardianRole
  <2>4. QED
    BY <1>2, <1>4, <2>1, <2>2, <2>3 DEF PolicyStep

-------------------------------------------------------------------------------
(* Secrets: steps of calls                                                   *)

\* Whoever is admitted has the right at that moment.
LEMMA AdmittedHasRight ==
    ASSUME PolicyTypeOK, NEW k \in Call, IsSound(k), IsAdmitted(call[k])
    PROVE  HasRight(call[k].op, call[k].resource, call[k].principal.subject)
<1> DEFINE op == call[k].op
           r == call[k].resource
           p == call[k].principal
           u == p.subject
<1>1. /\ op \in Operation /\ r \in Resource /\ p \in Principal /\ u \in User
      /\ op = "put" => call[k].project \in Project
  BY PrincipalAssumption DEF IsSound
<1>2. p.type \in UserPrincipal
  BY <1>1, PrincipalAssumption DEF DiscordPrincipal, Token, UserPrincipal
<1>3. CASE op = "put"
  <2>1. HasWriteAccess(call[k].project, u) /\ IsLinked(r) /\ home[r] = call[k].project
    BY <1>3 DEF IsAdmitted, EnvironmentOf
  <2>2. QED
    BY <1>1, <1>3, <2>1 DEF HasWriteAccess, HasRight, HomeOwner
<1>4. CASE op # "put"
  <2> DEFINE cap == NeededCapability(op)
             c == ForSecret(r, call[k].name)
  <2>1. IsAbout(c, r)
    BY DEF IsAbout, ForSecret, NoContext
  <2>2. /\ op \in {"create", "delete"} => cap \in {"secret.write", "secret.delete"}
        /\ op = "reveal" => cap = "secret.value.read"
        /\ op \in {"create", "delete", "reveal"}
    BY <1>1, <1>4 DEF NeededCapability, Operation
  <2>3. HasCapability(p, cap, c)
    BY <1>4 DEF IsAdmitted
  <2> HIDE DEF c, cap
  <2>4. \E ro \in Roles(c, u) : cap \in Gives[ro]
    BY <1>1, <1>2, <2>1, <2>2, <2>3, CapabilityAtResource
  <2>5. /\ Roles(c, u) \subseteq DOMAIN Gives
        /\ "ResourceOwner" \in Roles(c, u) <=> IsEffectiveOwner(r, u)
        /\ "Writer" \in Roles(c, u) <=>
              IsLinked(r) /\ HomeOwner(r) # u /\ member[home[r]][u] = "WRITER"
        /\ "Reader" \in Roles(c, u) <=>
              IsLinked(r) /\ HomeOwner(r) # u /\ member[home[r]][u] = "READER"
    BY <1>1, <2>1, RolesAtResource
  <2>6. PICK ro \in Roles(c, u) : cap \in Gives[ro]
    BY <2>4
  <2>7. ro \in {"ResourceOwner", "Writer", "Reader"} /\ (ro = "Reader" => op = "reveal")
    BY <2>2, <2>5, <2>6, WhatRolesGive
  <2>8. QED
    BY <2>2, <2>5, <2>6, <2>7 DEF HasRight, IsEffectiveOwner
<1>5. QED
  BY <1>3, <1>4

\* A step of one call that changes no role.
LEMMA OneCallMoves ==
    ASSUME SecretTypeOK, CallsAreSound, NEW k \in Call, NEW f \in Frame,
           call' = [call EXCEPT ![k] = f], UNCHANGED policyVars,
           \A r \in Resource : Exists(r) => Exists(r)',
           f.pc # "idle" => IsSound(k)'
    PROVE  call' \in [Call -> Frame] /\ CallsAreSound'
<1>1. call' \in [Call -> Frame]
  BY DEF SecretTypeOK
<1>2. ASSUME NEW l \in Call, l # k, call'[l].pc # "idle"
      PROVE  IsSound(l)'
  <2>1. call'[l] = call[l] /\ IsSound(l)
    BY <1>2 DEF SecretTypeOK, CallsAreSound
  <2>2. HasRight(call[l].op, call[l].resource, call[l].principal.subject)'
          => HasRight(call[l].op, call[l].resource, call[l].principal.subject)
    BY <2>1 DEF HasRight, IsLinked, HomeOwner, policyVars
  <2>3. QED
    BY <2>1, <2>2 DEF IsSound
<1>3. call'[k] = f
  BY DEF SecretTypeOK
<1>4. QED
  BY <1>1, <1>2, <1>3 DEF CallsAreSound

\* A step of one call that changes nothing but the call.
LEMMA OnlyTheCall ==
    ASSUME SecretInv, NEW k \in Call, NEW f \in Frame, call' = [call EXCEPT ![k] = f],
           UNCHANGED <<policyVars, policy, version, field, drawn, botKey>>,
           f.pc # "idle" => IsSound(k)'
    PROVE  SecretInv'
<1>1. /\ SecretTypeOK /\ HomesExist /\ RowsAreVersioned /\ IdsAreOwn /\ CallsAreSound
  BY DEF SecretInv
<1>2. call' \in [Call -> Frame] /\ CallsAreSound'
  BY <1>1, OneCallMoves DEF Exists
<1>3. SecretTypeOK'
  BY <1>1, <1>2 DEF SecretTypeOK, PolicyTypeOK, policyVars
<1>4. HomesExist' /\ RowsAreVersioned' /\ IdsAreOwn'
  BY <1>1 DEF HomesExist, policyVars, RowsAreVersioned, IdsAreOwn, IsStored
<1>5. QED
  BY <1>2, <1>3, <1>4 DEF SecretInv

\* A call that is not under way is a frame.
LEMMA IdleIsFrame == Idle \in Frame /\ Idle.pc = "idle"
  BY DEF Idle, Frame

\* A route that is asked keeps the invariant.
LEMMA AskKeeps == \A k \in Call, q \in Request : SecretInv /\ Ask(k, q) => SecretInv'
<1> SUFFICES ASSUME SecretInv, NEW k \in Call, NEW q \in Request, Ask(k, q)
             PROVE  SecretInv'
  OBVIOUS
<1> DEFINE f(b) == [pc |-> "asked", op |-> q.op, principal |-> q.principal,
                    resource |-> q.resource, project |-> q.project, name |-> q.name,
                    rest |-> q.rest, value |-> q.value, row |-> NoRow, rightful |-> b]
<1>1. /\ q.op \in Operation /\ q.principal \in Principal /\ q.resource \in Resource
      /\ q.project \in Project \cup {None} /\ q.name \in Name /\ q.rest \in SUBSET Name
      /\ q.value \in Value \cup {None} /\ (q.op = "put" => q.project # None)
      /\ q.op \in {"put", "create"} => q.value # None
  BY DEF Request
<1>2. PICK b \in {TRUE, FALSE} : HasRight(q.op, q.resource, q.principal.subject) = b
  <2>1. CASE HasRight(q.op, q.resource, q.principal.subject)
    <3>1. HasRight(q.op, q.resource, q.principal.subject) = TRUE
      BY <2>1 DEF HasRight
    <3>2. QED
      BY <3>1
  <2>2. CASE ~HasRight(q.op, q.resource, q.principal.subject)
    <3>1. HasRight(q.op, q.resource, q.principal.subject) = FALSE
      BY <2>2 DEF HasRight
    <3>2. QED
      BY <3>1
  <2>3. QED
    BY <2>1, <2>2
<1>3. f(b) \in Frame
  BY <1>1 DEF Frame
<1>4. /\ call' = [call EXCEPT ![k] = f(b)] /\ Exists(q.resource)
      /\ UNCHANGED <<policyVars, policy, version, field, drawn, botKey>>
  BY <1>2 DEF Ask
<1>5. IsSound(k)'
  <2>1. call'[k] = f(b)
    BY <1>4 DEF SecretInv, SecretTypeOK
  <2>2. HasRight(q.op, q.resource, q.principal.subject)'
          => HasRight(q.op, q.resource, q.principal.subject)
    BY <1>4 DEF HasRight, IsLinked, HomeOwner, policyVars
  <2>3. Exists(q.resource)'
    BY <1>4 DEF Exists
  <2>4. QED
    BY <1>1, <1>2, <2>1, <2>2, <2>3 DEF IsSound
<1>6. QED
  BY <1>3, <1>4, <1>5, OnlyTheCall

\* Only the progress of a call, and what it found.
LEMMA DecisionsKeep ==
    ASSUME SecretInv, NEW k \in Call, Decide(k) \/ DecideAgain(k) \/ Look(k) \/ Throw(k)
    PROVE  SecretInv'
<1> DEFINE g(pc) == [call[k] EXCEPT !.pc = pc]
           h(row) == [call[k] EXCEPT !.pc = "looked", !.row = row]
<1>1. call \in [Call -> Frame] /\ PolicyTypeOK /\ CallsAreSound
  BY DEF SecretInv, SecretTypeOK
<1>2. UNCHANGED <<policyVars, policy, version, field, drawn, botKey>>
  BY DEF Decide, DecideAgain, Look, Throw
<1>3. CASE End(k)
  BY <1>2, <1>3, OnlyTheCall, IdleIsFrame DEF End
<1>4. ASSUME NEW pc \in {"admitted", "decided"}, GoTo(k, pc), IsAdmitted(call[k]),
             call[k].pc # "idle"
      PROVE  SecretInv'
  <2>1. IsSound(k)
    BY <1>1, <1>4 DEF CallsAreSound
  <2>2. call[k].rightful
    BY <1>1, <1>4, <2>1, AdmittedHasRight DEF IsSound
  <2>3. g(pc) \in Frame /\ g(pc).pc # "idle"
    BY <1>1 DEF Frame
  <2>4. call' = [call EXCEPT ![k] = g(pc)] /\ call'[k] = g(pc)
    BY <1>1, <1>4 DEF GoTo
  <2>5. IsSound(k)'
    <3>1. /\ call'[k].op = call[k].op /\ call'[k].principal = call[k].principal
          /\ call'[k].resource = call[k].resource /\ call'[k].project = call[k].project
          /\ call'[k].name = call[k].name /\ call'[k].value = call[k].value
          /\ call'[k].rightful = call[k].rightful
      BY <1>1, <2>4 DEF Frame
    <3>2. QED
      BY <1>2, <2>1, <2>2, <3>1 DEF IsSound, Exists
  <2> HIDE DEF g
  <2>6. QED
    BY <1>2, <2>3, <2>4, <2>5, OnlyTheCall
<1>5. ASSUME call' = [call EXCEPT ![k].pc = "looked", ![k].row =
                         field[call[k].resource][call[k].name]],
             call[k].pc \notin {"idle", "asked"}
      PROVE  SecretInv'
  <2> DEFINE row == field[call[k].resource][call[k].name]
  <2>1. IsSound(k)
    BY <1>1, <1>5 DEF CallsAreSound
  <2>2. row \in Row \cup {NoRow}
    BY <2>1 DEF IsSound, SecretInv, SecretTypeOK
  <2> HIDE DEF row
  <2>3. h(row) \in Frame /\ h(row).pc # "idle"
    BY <1>1, <2>2, ZenonT(60) DEF Frame
  <2>4. call' = [call EXCEPT ![k] = h(row)] /\ call'[k] = h(row)
    BY <1>1, <1>5 DEF row
  <2>5. IsSound(k)'
    <3>1. /\ call'[k].op = call[k].op /\ call'[k].principal = call[k].principal
          /\ call'[k].resource = call[k].resource /\ call'[k].project = call[k].project
          /\ call'[k].name = call[k].name /\ call'[k].value = call[k].value
          /\ call'[k].rightful = call[k].rightful
      BY <1>1, <2>4 DEF Frame
    <3>2. call[k].rightful
      BY <1>5, <2>1 DEF IsSound
    <3>3. QED
      BY <1>2, <2>1, <3>1, <3>2 DEF IsSound, Exists
  <2> HIDE DEF h
  <2>6. QED
    BY <1>2, <2>3, <2>4, <2>5, OnlyTheCall
<1>6. QED
  <2>1. CASE Decide(k)
    BY <1>3, <1>4, <2>1 DEF Decide
  <2>2. CASE DecideAgain(k)
    BY <1>3, <1>4, <2>2 DEF DecideAgain
  <2>3. CASE Look(k)
    BY <1>3, <1>5, <2>3 DEF Look
  <2>4. CASE Throw(k)
    BY <1>3, <2>4 DEF Throw
  <2>5. QED
    BY <2>1, <2>2, <2>3, <2>4

\* A transaction that writes rows under a new version of their resource.
LEMMA RowsWritten ==
    ASSUME SecretInv, NEW k \in Call, call[k].pc # "idle", End(k),
           NewVersion(call[k].resource), UNCHANGED <<policyVars, policy, botKey>>,
           field' \in [Resource -> [Name -> Row \cup {NoRow}]], drawn' \subseteq RowId,
           RowsAreVersioned', IdsAreOwn'
    PROVE  SecretInv'
<1>1. SecretTypeOK /\ HomesExist /\ CallsAreSound /\ call[k].resource \in Resource
  BY DEF SecretInv, CallsAreSound, IsSound
<1>2. /\ version' \in [Resource -> Nat]
      /\ \A s \in Resource : version[s] <= version'[s] /\ (Exists(s) => Exists(s)')
  BY <1>1, NewVersionGrows
<1>3. call' \in [Call -> Frame] /\ CallsAreSound'
  BY <1>1, <1>2, IdleIsFrame, OneCallMoves DEF End
<1>4. SecretTypeOK'
  BY <1>1, <1>2, <1>3 DEF SecretTypeOK, PolicyTypeOK, policyVars
<1>5. HomesExist'
  BY <1>1 DEF HomesExist, policyVars
<1>6. QED
  BY <1>3, <1>4, <1>5 DEF SecretInv

\* A row that changes has another version.
RowsTell ==
    \A r \in Resource, n \in Name :
        field'[r][n] # field[r][n] => field'[r][n].version # field[r][n].version

\* Rows of the names W are written, those that are not there under new ids.
LEMMA WritesKeep ==
    ASSUME SecretInv, NEW k \in Call, call[k].pc = "looked",
           call[k].op \in {"put", "create"},
           NEW r, r = call[k].resource, NEW W \in SUBSET Name, NEW i \in [W -> RowId],
           \A n \in W : IF IsStored(r, n) THEN i[n] = field[r][n].id ELSE i[n] \notin drawn,
           \A n, m \in W : i[n] = i[m] => n = m,
           field' = [field EXCEPT ![r] =
                        [n \in Name |-> IF n \in W THEN Stored(k, i[n]) ELSE field[r][n]]],
           drawn' = drawn \cup {i[n] : n \in W},
           NewVersion(r), End(k), UNCHANGED <<policyVars, policy, botKey>>
    PROVE  SecretInv' /\ RowsTell
<1>1. /\ SecretTypeOK /\ RowsAreVersioned /\ IdsAreOwn /\ IsSound(k)
      /\ r \in Resource /\ call[k].value \in Value
  BY DEF SecretInv, CallsAreSound, IsSound
<1>2. /\ version' \in [Resource -> Nat] /\ version'[r] = version[r] + 1
      /\ \A s \in Resource : version[s] <= version'[s] /\ version[s] \in Nat
  BY <1>1, NewVersionGrows DEF SecretTypeOK
<1>3. /\ \A n \in W : /\ field'[r][n] = Stored(k, i[n])
                      /\ field'[r][n].id = i[n] /\ field'[r][n].version = version[r] + 1
      /\ \A s \in Resource, n \in Name : s # r \/ n \notin W => field'[s][n] = field[s][n]
  BY <1>1 DEF SecretTypeOK, Stored
<1>13. \A n \in W : i[n] \in RowId /\ i[n] # None /\ i[n] \in drawn'
  BY RowIdAssumption
<1>4. \A n \in W : Stored(k, i[n]) \in Row
  BY <1>1, <1>2 DEF Stored, Row, CipherKey, SecretTypeOK
<1>5. field' \in [Resource -> [Name -> Row \cup {NoRow}]]
  BY <1>1, <1>4 DEF SecretTypeOK
<1>6. \A s \in Resource, n \in Name :
         IsStored(s, n)' <=> (s = r /\ n \in W) \/ IsStored(s, n)
  <2> SUFFICES ASSUME NEW s \in Resource, NEW n \in Name
               PROVE  field'[s][n].id # None <=> (s = r /\ n \in W) \/ field[s][n].id # None
    BY DEF IsStored
  <2>1. CASE s = r /\ n \in W
    <3>1. field'[r][n].id = i[n]
      BY <1>3, <2>1
    <3>2. field'[r][n].id # None
      BY <1>13, <2>1, <3>1
    <3>3. field'[s][n].id # None
      BY <2>1, <3>2
    <3>4. QED
      BY <2>1, <3>3
  <2>2. CASE ~(s = r /\ n \in W)
    <3>1. field'[s][n] = field[s][n]
      BY <1>3, <2>2
    <3>2. QED
      BY <2>2, <3>1
  <2>3. QED
    BY <2>1, <2>2
<1>7. RowsAreVersioned'
  <2> SUFFICES ASSUME NEW s \in Resource, NEW n \in Name
               PROVE  IF IsStored(s, n)' THEN field'[s][n].version \in 1..version'[s]
                      ELSE field'[s][n] = NoRow
    BY DEF RowsAreVersioned
  <2>1. CASE s = r /\ n \in W
    <3>1. version'[s] \in Nat /\ version'[s] >= 1 /\ version'[s] = version[r] + 1
      BY <1>1, <1>2, <2>1
    <3>2. field'[s][n].version = version'[s]
      BY <1>3, <2>1, <3>1
    <3>3. IsStored(s, n)'
      BY <1>6, <2>1
    <3>4. QED
      BY <3>1, <3>2, <3>3
  <2>2. CASE ~(s = r /\ n \in W)
    <3>1. IF IsStored(s, n) THEN field[s][n].version \in 1..version[s]
          ELSE field[s][n] = NoRow
      BY <1>1 DEF RowsAreVersioned
    <3>2. field'[s][n] = field[s][n] /\ (IsStored(s, n)' <=> IsStored(s, n))
      BY <1>3, <1>6, <2>2
    <3>3. version[s] \in Nat /\ version'[s] \in Nat /\ version[s] <= version'[s]
      BY <1>2
    <3>4. QED
      BY <3>1, <3>2, <3>3
  <2>3. QED
    BY <2>1, <2>2
<1>8. IdsAreOwn'
  <2>1. ASSUME NEW s \in Resource, NEW n \in Name, IsStored(s, n)'
        PROVE  field'[s][n].id \in drawn'
    <3>1. CASE s = r /\ n \in W
      BY <1>3, <1>13, <3>1, ZenonT(60)
    <3>2. CASE ~(s = r /\ n \in W)
      BY <1>1, <1>3, <1>6, <2>1, <3>2 DEF IdsAreOwn
    <3>3. QED
      BY <3>1, <3>2
  <2>2. ASSUME NEW s \in Resource, NEW n \in Name, NEW t \in Resource, NEW m \in Name,
               IsStored(s, n)', field'[s][n].id = field'[t][m].id
        PROVE  s = t /\ n = m
    <3>1. IsStored(t, m)'
      BY <2>2 DEF IsStored
    <3>2. ASSUME NEW x \in Name, x \in W, IsStored(r, x)
          PROVE  field'[r][x].id = field[r][x].id
      BY <1>3, <3>2
    <3>3. ASSUME NEW x \in Name, x \in W, ~IsStored(r, x)
          PROVE  field'[r][x].id \notin drawn
      BY <1>3, <3>3
    <3>4. ASSUME NEW a \in Resource, NEW x \in Name, IsStored(a, x)
          PROVE  field'[a][x].id = field[a][x].id /\ field[a][x].id \in drawn
      BY <1>1, <1>3, <3>2, <3>4 DEF IdsAreOwn
    <3>5. CASE IsStored(s, n) /\ IsStored(t, m)
      BY <1>1, <2>2, <3>4, <3>5 DEF IdsAreOwn
    <3>6. CASE ~IsStored(s, n) /\ IsStored(t, m)
      BY <1>6, <2>2, <3>3, <3>4, <3>6
    <3>7. CASE IsStored(s, n) /\ ~IsStored(t, m)
      BY <1>6, <2>2, <3>1, <3>3, <3>4, <3>7
    <3>8. CASE ~IsStored(s, n) /\ ~IsStored(t, m)
      <4>1. s = r /\ n \in W /\ t = r /\ m \in W
        BY <1>6, <2>2, <3>1, <3>8
      <4>2. i[n] = i[m]
        BY <1>3, <2>2, <4>1
      <4>3. QED
        BY <4>1, <4>2
    <3>9. QED
      BY <3>5, <3>6, <3>7, <3>8
  <2>3. QED
    BY <2>1, <2>2 DEF IdsAreOwn
<1>9. drawn' \subseteq RowId
  BY <1>1 DEF SecretTypeOK
<1>10. SecretInv'
  BY <1>5, <1>7, <1>8, <1>9, RowsWritten
<1>11. RowsTell
  <2> SUFFICES ASSUME NEW s \in Resource, NEW n \in Name, field'[s][n] # field[s][n]
               PROVE  field'[s][n].version # field[s][n].version
    BY DEF RowsTell
  <2>1. s = r /\ n \in W
    BY <1>3
  <2>2. field[r][n].version \in 0..version[r]
    BY <1>1, <1>2 DEF RowsAreVersioned, NoRow
  <2>3. QED
    BY <1>2, <1>3, <2>1, <2>2, SMTT(30)
<1>12. QED
  BY <1>10, <1>11

\* So does the creation of a resource.
LEMMA CreateKeeps ==
    ASSUME SecretInv, NEW k \in Call, NEW id \in RowId, CommitCreate(k, id)
    PROVE  SecretInv' /\ RowsTell
<1> DEFINE r == call[k].resource
           W == {call[k].name}
           i == [n \in W |-> id]
<1>1. SecretTypeOK /\ IsSound(k) /\ call[k].pc = "looked" /\ call[k].op = "create"
  BY DEF CommitCreate, SecretInv, CallsAreSound
<1>2. r \in Resource /\ call[k].name \in Name
  BY <1>1 DEF IsSound
<1>3. W \in SUBSET Name /\ i \in [W -> RowId]
  BY <1>2
<1>4. /\ \A n \in W : IF IsStored(r, n) THEN i[n] = field[r][n].id ELSE i[n] \notin drawn
      /\ \A n, m \in W : i[n] = i[m] => n = m
  BY DEF CommitCreate
<1>5. field' = [field EXCEPT ![r][call[k].name] = Stored(k, id)]
  BY DEF CommitCreate
<1>6. field' = [field EXCEPT ![r] =
                  [n \in Name |-> IF n \in W THEN Stored(k, i[n]) ELSE field[r][n]]]
  BY <1>1, <1>2, <1>5 DEF SecretTypeOK
<1>7. drawn' = drawn \cup {i[n] : n \in W}
  BY DEF CommitCreate
<1>8. NewVersion(r) /\ End(k) /\ UNCHANGED <<policyVars, policy, botKey>>
  BY DEF CommitCreate
<1> HIDE DEF r, W, i
<1>9. r = call[k].resource
  BY DEF r
<1>10. QED
  BY <1>1, <1>3, <1>4, <1>6, <1>7, <1>8, <1>9, WritesKeep

\* So does a secret that is set.
LEMMA PutKeeps ==
    ASSUME SecretInv, NEW k \in Call, NEW new \in SUBSET Name, NEW ids \in [new -> RowId],
           CommitPut(k, ids)
    PROVE  SecretInv' /\ RowsTell
<1> DEFINE r == call[k].resource
           W == {call[k].name} \cup call[k].rest
           N == {n \in W : ~IsStored(r, n)}
           i == [n \in W |-> IF n \in N THEN ids[n] ELSE field[r][n].id]
<1>1. SecretTypeOK /\ IdsAreOwn /\ IsSound(k) /\ call[k].pc = "looked" /\ call[k].op = "put"
  BY DEF CommitPut, SecretInv, CallsAreSound
<1>2. r \in Resource /\ call[k].name \in Name /\ W \in SUBSET Name
  BY <1>1 DEF IsSound, SecretTypeOK, Frame
<1>3. ids \in [N -> RowId \ drawn] /\ IsInjective(ids)
  BY DEF CommitPut
<1>4. \A n \in W \ N : field[r][n].id \in RowId /\ field[r][n].id \in drawn
  BY <1>1, <1>2 DEF IdsAreOwn, SecretTypeOK
<1>5. i \in [W -> RowId]
  BY <1>3, <1>4
<1>6. \A n \in W : IF IsStored(r, n) THEN i[n] = field[r][n].id ELSE i[n] \notin drawn
  BY <1>3
<1>7. ASSUME NEW n \in W, NEW m \in W, i[n] = i[m]
      PROVE  n = m
  <2>1. CASE n \in N /\ m \in N
    BY <1>3, <1>7, <2>1 DEF IsInjective
  <2>2. CASE n \notin N /\ m \notin N
    BY <1>1, <1>2, <1>7, <2>2 DEF IdsAreOwn
  <2>3. CASE n \in N <=> m \notin N
    BY <1>3, <1>4, <1>7, <2>3
  <2>4. QED
    BY <2>1, <2>2, <2>3
<1>8. field' = [field EXCEPT ![r] =
                  [n \in Name |-> IF n \in W THEN Stored(k, i[n]) ELSE field[r][n]]]
  <2>1. field' = [field EXCEPT ![r] = [n \in Name |->
                        IF n \in N THEN Stored(k, ids[n])
                        ELSE IF n \in W THEN Stored(k, field[r][n].id)
                        ELSE field[r][n]]]
    BY <1>1, <1>2 DEF CommitPut, SecretTypeOK
  <2>2. \A n \in Name : (IF n \in N THEN Stored(k, ids[n])
                         ELSE IF n \in W THEN Stored(k, field[r][n].id) ELSE field[r][n])
                        = IF n \in W THEN Stored(k, i[n]) ELSE field[r][n]
    OBVIOUS
  <2>3. QED
    BY <2>1, <2>2
<1>9. drawn' = drawn \cup {i[n] : n \in W}
  <2>1. drawn' = drawn \cup {ids[n] : n \in N}
    BY DEF CommitPut
  <2>2. \A n \in W : n \in N => i[n] = ids[n]
    OBVIOUS
  <2>3. \A n \in W : n \notin N => i[n] \in drawn
    BY <1>4
  <2>4. N \subseteq W
    OBVIOUS
  <2> HIDE DEF N, i
  <2>5. QED
    BY <2>1, <2>2, <2>3, <2>4
<1>10. NewVersion(r) /\ End(k) /\ UNCHANGED <<policyVars, policy, botKey>>
  BY DEF CommitPut
<1>11. \A n, m \in W : i[n] = i[m] => n = m
  BY <1>7
<1> HIDE DEF r, W, N, i
<1>12. r = call[k].resource
  BY DEF r
<1>13. call[k].pc = "looked" /\ call[k].op \in {"put", "create"} /\ W \in SUBSET Name
  BY <1>1, <1>2
<1>14. QED
  BY <1>5, <1>6, <1>8, <1>9, <1>10, <1>11, <1>12, <1>13, WritesKeep, SMTT(30)

\* So does a secret that is deleted.
LEMMA DeleteKeeps ==
    ASSUME SecretInv, NEW k \in Call, CommitDelete(k)
    PROVE  SecretInv' /\ RowsTell
<1> DEFINE r == call[k].resource
           n == call[k].name
<1>1. /\ SecretTypeOK /\ RowsAreVersioned /\ IdsAreOwn /\ IsSound(k)
      /\ HomesExist /\ CallsAreSound
      /\ call[k].pc = "looked" /\ call[k].op = "delete"
  BY DEF CommitDelete, SecretInv, CallsAreSound
<1>2. r \in Resource /\ n \in Name /\ End(k) /\ UNCHANGED <<policyVars, policy, drawn, botKey>>
  BY <1>1 DEF IsSound, CommitDelete
<1>3. CASE field[r][n].id = call[k].row.id
  <2>1. field' = [field EXCEPT ![r][n] = NoRow] /\ NewVersion(r)
    BY <1>3 DEF CommitDelete
  <2>2. \A s \in Resource, m \in Name :
           field'[s][m] = IF s = r /\ m = n THEN NoRow ELSE field[s][m]
    BY <1>1, <1>2, <2>1 DEF SecretTypeOK
  <2>3. field' \in [Resource -> [Name -> Row \cup {NoRow}]] /\ drawn' \subseteq RowId
    BY <1>1, <1>2, <2>1 DEF SecretTypeOK
  <2>4. /\ version' \in [Resource -> Nat]
        /\ \A s \in Resource : version[s] <= version'[s] /\ version[s] \in Nat
    BY <1>1, <1>2, <2>1, NewVersionGrows DEF SecretTypeOK
  <2>5. \A s \in Resource, m \in Name :
           IsStored(s, m)' => IsStored(s, m) /\ field'[s][m] = field[s][m]
    BY <2>2 DEF IsStored, NoRow
  <2>6. RowsAreVersioned'
    <3> SUFFICES ASSUME NEW s \in Resource, NEW m \in Name
                 PROVE  IF IsStored(s, m)' THEN field'[s][m].version \in 1..version'[s]
                        ELSE field'[s][m] = NoRow
      BY DEF RowsAreVersioned
    <3>1. IF IsStored(s, m) THEN field[s][m].version \in 1..version[s]
          ELSE field[s][m] = NoRow
      BY <1>1 DEF RowsAreVersioned
    <3>2. CASE IsStored(s, m)'
      BY <2>4, <2>5, <3>1, <3>2
    <3>3. CASE ~IsStored(s, m)'
      BY <2>2, <3>1, <3>3 DEF IsStored
    <3>4. QED
      BY <3>2, <3>3
  <2>7. IdsAreOwn'
    <3>1. \A s \in Resource, m \in Name : IsStored(s, m)' => field'[s][m].id \in drawn'
      BY <1>1, <1>2, <2>5 DEF IdsAreOwn
    <3>2. ASSUME NEW s \in Resource, NEW m \in Name, NEW t \in Resource, NEW o \in Name,
                 IsStored(s, m)', field'[s][m].id = field'[t][o].id
          PROVE  s = t /\ m = o
      <4>1. IsStored(t, o)'
        BY <3>2 DEF IsStored
      <4>2. QED
        BY <1>1, <2>5, <3>2, <4>1 DEF IdsAreOwn
    <3>3. QED
      BY <3>1, <3>2 DEF IdsAreOwn
  <2>8. SecretInv'
    BY <1>1, <1>2, <2>1, <2>3, <2>6, <2>7, RowsWritten
  <2>9. RowsTell
    <3>1. IF IsStored(r, n) THEN field[r][n].version \in 1..version[r]
          ELSE field[r][n] = NoRow
      BY <1>1, <1>2 DEF RowsAreVersioned
    <3>2. field[r][n].version # 0 \/ field[r][n] = NoRow
      BY <1>2, <2>4, <3>1
    <3>3. QED
      BY <2>2, <3>2 DEF RowsTell, NoRow
  <2>10. QED
    BY <2>8, <2>9
<1>4. CASE field[r][n].id # call[k].row.id
  <2>1. UNCHANGED <<field, version>>
    BY <1>4 DEF CommitDelete
  <2>2. SecretInv'
    BY <1>2, <2>1, IdleIsFrame, OnlyTheCall DEF End
  <2>3. QED
    BY <2>1, <2>2 DEF RowsTell
<1>5. QED
  BY <1>3, <1>4

\* The steps of the bot preserve the invariant, and no row changes under its version.
LEMMA BotKeeps == SecretInv /\ SecretNext => SecretInv' /\ RowsTell
<1> SUFFICES ASSUME SecretInv, SecretNext PROVE SecretInv' /\ RowsTell
  OBVIOUS
<1>1. CASE PolicyStep
  <2>1. UNCHANGED field
    BY <1>1 DEF PolicyStep, CreateProject, CreateResource, AddMember, RemoveMember,
                AddGuardian, RemoveGuardian, SetGuardian
  <2>2. QED
    BY <1>1, <2>1, PolicyStepKeeps DEF RowsTell
<1>2. ASSUME NEW k \in Call, CallStep(k) PROVE SecretInv' /\ RowsTell
  <2>1. ASSUME NEW q \in Request, Ask(k, q) PROVE SecretInv' /\ RowsTell
    BY <2>1, AskKeeps DEF Ask, RowsTell
  <2>2. CASE Decide(k) \/ DecideAgain(k) \/ Look(k) \/ Throw(k)
    <3>1. UNCHANGED field
      BY <2>2 DEF Decide, DecideAgain, Look, Throw
    <3>2. QED
      BY <2>2, <3>1, DecisionsKeep DEF RowsTell
  <2>3. QED
    BY <1>2, <2>1, <2>2, CreateKeeps, PutKeeps, DeleteKeeps DEF CallStep
<1>3. QED
  BY <1>1, <1>2 DEF SecretNext

-------------------------------------------------------------------------------
(* The rotation: types and the secrets                                       *)

\* The table has finitely many rows.
LEMMA IdsAreFinite == IsFiniteSet(Ids) /\ Cardinality(Ids) \in Nat
<1> DEFINE S == Resource \X Name
           f == [a \in S |-> field[a[1]][a[2]].id]
           T == {f[a] : a \in S}
<1>1. IsFiniteSet(S)
  BY TableIsFinite, FS_Product
<1>2. f \in Surjection(S, T)
  <2>1. f \in [S -> T]
    OBVIOUS
  <2>2. \A t \in T : \E a \in S : f[a] = t
    OBVIOUS
  <2> HIDE DEF f, T, S
  <2>3. QED
    BY <2>1, <2>2 DEF Surjection
<1>3. IsFiniteSet(T)
  <2> HIDE DEF f, T, S
  <2>1. QED
    BY <1>1, <1>2, FS_Surjection
<1>4. Ids \subseteq T
  <2> SUFFICES ASSUME NEW row \in Table PROVE row.id \in T
    BY DEF Ids
  <2>1. PICK r \in Resource, n \in Name : row = field[r][n]
    BY DEF Table
  <2>2. <<r, n>> \in S /\ f[<<r, n>>] = row.id
    BY <2>1
  <2> HIDE DEF f, S
  <2>3. QED
    BY <2>2
<1> HIDE DEF T
<1>5. QED
  BY <1>3, <1>4, FS_Subset, FS_CardinalityType

\* What is not NoRow is a row of the table, and it is stored.
LEMMA TableRows ==
    ASSUME SecretInv
    PROVE  /\ Table \subseteq Row
           /\ \A row \in Table : row.id \in RowId /\ row.id # None /\ row.id \in Nat
           /\ \A r \in Resource, n \in Name :
                 IsStored(r, n) <=> field[r][n] \in Table
<1>1. SecretTypeOK /\ RowsAreVersioned
  BY DEF SecretInv
<1>2. \A r \in Resource, n \in Name : field[r][n] \in Row \cup {NoRow}
  BY <1>1 DEF SecretTypeOK
<1>3. Table \subseteq Row
  BY <1>2 DEF Table
<1>4. \A row \in Row : row.id \in RowId
  BY DEF Row
<1>5. \A r \in Resource, n \in Name : IsStored(r, n) <=> field[r][n] \in Table
  BY <1>1 DEF Table, RowsAreVersioned, IsStored, NoRow
<1>6. QED
  BY <1>3, <1>4, <1>5, RowIdAssumption

\* One row is rewritten from what the page said of it.
LEMMA RotateKeeps ==
    ASSUME SecretInv, NEW row \in Row,
           field' = [r \in Resource |-> [n \in Name |->
                        IF field[r][n].id = row.id THEN Rewritten(row, field[r][n])
                        ELSE field[r][n]]],
           UNCHANGED <<policyVars, policy, version, drawn, botKey, call>>
    PROVE  SecretInv'
<1>1. /\ SecretTypeOK /\ HomesExist /\ RowsAreVersioned /\ IdsAreOwn /\ CallsAreSound
  BY DEF SecretInv
<1>2. row.id \in RowId /\ row.id # None /\ row.value \in Value
  BY RowIdAssumption DEF Row
<1>3. \A r \in Resource, n \in Name :
         /\ field[r][n].id = row.id => field[r][n] \in Row
         /\ field'[r][n] = IF field[r][n].id = row.id THEN Rewritten(row, field[r][n])
                           ELSE field[r][n]
  BY <1>1, <1>2 DEF SecretTypeOK, NoRow
<1>4. \A now \in Row : /\ Rewritten(row, now) \in Row
                       /\ Rewritten(row, now).id = now.id
                       /\ Rewritten(row, now).version = now.version
  BY <1>2 DEF Row, Rewritten, CipherKey
<1>5. \A r \in Resource, n \in Name :
         /\ field'[r][n].id = field[r][n].id
         /\ field'[r][n].version = field[r][n].version
         /\ field'[r][n] # field[r][n] => IsStored(r, n)
         /\ IsStored(r, n)' <=> IsStored(r, n)
  BY <1>2, <1>3, <1>4 DEF IsStored
<1>6. field' \in [Resource -> [Name -> Row \cup {NoRow}]]
  <2>1. \A r \in Resource, n \in Name :
           (IF field[r][n].id = row.id THEN Rewritten(row, field[r][n]) ELSE field[r][n])
             \in Row \cup {NoRow}
    BY <1>1, <1>3, <1>4 DEF SecretTypeOK
  <2>2. QED
    BY <2>1
<1>7. SecretTypeOK'
  BY <1>1, <1>6 DEF SecretTypeOK, PolicyTypeOK, policyVars
<1>8. RowsAreVersioned'
  <2> SUFFICES ASSUME NEW r \in Resource, NEW n \in Name
               PROVE  IF IsStored(r, n)' THEN field'[r][n].version \in 1..version'[r]
                      ELSE field'[r][n] = NoRow
    BY DEF RowsAreVersioned
  <2>1. IF IsStored(r, n) THEN field[r][n].version \in 1..version[r]
        ELSE field[r][n] = NoRow
    BY <1>1 DEF RowsAreVersioned
  <2>2. version' = version
    OBVIOUS
  <2>3. CASE IsStored(r, n)
    BY <1>5, <2>1, <2>2, <2>3
  <2>4. CASE ~IsStored(r, n)
    BY <1>5, <2>1, <2>2, <2>4
  <2>5. QED
    BY <2>3, <2>4
<1>9. IdsAreOwn'
  BY <1>1, <1>5 DEF IdsAreOwn
<1>10. CallsAreSound'
  <2>1. \A k \in Call : IsSound(k) => IsSound(k)'
    BY DEF IsSound, Exists, HasRight, IsLinked, HomeOwner, policyVars
  <2>2. QED
    BY <1>1, <2>1 DEF CallsAreSound
<1>11. QED
  BY <1>1, <1>7, <1>8, <1>9, <1>10 DEF SecretInv, HomesExist, policyVars

\* What does not touch the secrets preserves what is known of them.
LEMMA SecretsStutter == SecretInv /\ UNCHANGED secretVars => SecretInv'
<1> SUFFICES ASSUME SecretInv, UNCHANGED secretVars PROVE SecretInv'
  OBVIOUS
<1>1. UNCHANGED <<owner, member, home, guardian, policy, version, field, drawn, botKey, call>>
  BY DEF secretVars, policyVars
<1>2. SecretTypeOK'
  BY <1>1 DEF SecretInv, SecretTypeOK, PolicyTypeOK
<1>3. HomesExist'
  BY <1>1 DEF SecretInv, HomesExist
<1>4. RowsAreVersioned'
  BY <1>1 DEF SecretInv, RowsAreVersioned, IsStored
<1>5. IdsAreOwn'
  BY <1>1 DEF SecretInv, IdsAreOwn, IsStored
<1>6. CallsAreSound'
  <2>1. \A k \in Call : IsSound(k) => IsSound(k)'
    BY <1>1 DEF IsSound, Exists, HasRight, IsLinked, HomeOwner
  <2>2. QED
    BY <1>1, <2>1 DEF SecretInv, CallsAreSound
<1>7. QED
  BY <1>2, <1>3, <1>4, <1>5, <1>6 DEF SecretInv

\* The bot restarts with another key and without calls.
LEMMA RestartKeeps ==
    ASSUME SecretInv, botKey' = "new", call' = [k \in Call |-> Idle],
           UNCHANGED <<policyVars, policy, version, field, drawn>>
    PROVE  SecretInv'
<1>1. UNCHANGED <<owner, member, home, guardian, policy, version, field, drawn>>
  BY DEF policyVars
<1>2. call' \in [Call -> Frame] /\ CallsAreSound'
  BY IdleIsFrame DEF CallsAreSound
<1>3. SecretTypeOK'
  BY <1>1, <1>2 DEF SecretInv, SecretTypeOK, PolicyTypeOK
<1>4. HomesExist'
  BY <1>1 DEF SecretInv, HomesExist
<1>5. RowsAreVersioned'
  BY <1>1 DEF SecretInv, RowsAreVersioned, IsStored
<1>6. IdsAreOwn'
  BY <1>1 DEF SecretInv, IdsAreOwn, IsStored
<1>7. QED
  BY <1>2, <1>3, <1>4, <1>5, <1>6 DEF SecretInv

-------------------------------------------------------------------------------
(* The rotation: the invariant                                               *)

Before(row) == Cardinality({i \in Ids : i < row.id})

\* The ranks that the run has begun with.
Reached == IF rot.pc \in {"row", "verify"} THEN rot.skip + BatchSize ELSE rot.skip

\* What the page says of a row is what its value is.
PageIsTrue ==
    \A row \in rot.page, r \in Resource, n \in Name :
        field[r][n].id = row.id => field[r][n].value = row.value

\* What the run has begun with is under the new key or still on the page.
DoneSoFar ==
    /\ rot.total = Cardinality(Ids)
    /\ \A row \in Table : Before(row) < Reached =>
          row.key = "new" \/ \E o \in rot.page : o.id = row.id

RunInv ==
    /\ rot \in Rotation /\ disturbed \in BOOLEAN
    /\ rot.pc \notin {"row", "verify"} => rot.page = {}
    /\ rot.pc = "succeeded" => ~rot.failed /\ rot.skip >= rot.total
    /\ ~disturbed => PageIsTrue
    /\ rot.pc \notin {"idle", "failed"} /\ ~disturbed /\ ~rot.failed => DoneSoFar

Inv == SecretInv /\ RunInv

\* The invariant with what every call is promised holds at the start.
LEMMA Initially == Init => Inv
<1> SUFFICES ASSUME Init PROVE Inv
  OBVIOUS
<1>1. SecretInv /\ rot = NoRun /\ disturbed = FALSE
  BY SecretInitially DEF Init
<1>2. NoRun \in Rotation
  <2>1. {} \in SUBSET Row /\ 0 \in Nat /\ FALSE \in BOOLEAN
    OBVIOUS
  <2> HIDE DEF Row
  <2>2. QED
    BY <2>1 DEF NoRun, Rotation
<1>3. QED
  BY <1>1, <1>2 DEF Inv, RunInv, PageIsTrue, NoRun

\* As long as the rows stay, so do their ids and their order.
LEMMA TableStays ==
    ASSUME UNCHANGED field
    PROVE  Table' = Table /\ Ids' = Ids /\ \A row : Before(row)' = Before(row)
<1>1. Table' = Table
  BY DEF Table
<1>2. Ids' = Ids
  BY <1>1 DEF Ids
<1>3. QED
  BY <1>1, <1>2 DEF Before

\* The bot's steps: a field that changes during a run is noticed.
LEMMA BotLeavesRun == Inv /\ BotStep => RunInv'
<1> SUFFICES ASSUME Inv, BotStep PROVE RunInv'
  OBVIOUS
<1>1. RunInv /\ rot' = rot /\ disturbed' = (disturbed \/ (rot.pc # "idle" /\ field' # field))
  BY DEF Inv, BotStep
<1>2. disturbed' \in BOOLEAN
  BY <1>1
<1>3. CASE rot.pc = "idle"
  BY <1>1, <1>2, <1>3 DEF RunInv, PageIsTrue
<1>4. CASE rot.pc # "idle" /\ field' # field
  BY <1>1, <1>2, <1>4 DEF RunInv
<1>5. CASE field' = field
  <2>1. disturbed' <=> disturbed
    BY <1>1, <1>5
  <2>2. Reached' = Reached /\ (PageIsTrue => PageIsTrue')
    BY <1>1, <1>5 DEF Reached, PageIsTrue
  <2>3. DoneSoFar => DoneSoFar'
    BY <1>1, <1>5, <2>2, TableStays DEF DoneSoFar
  <2>4. QED
    BY <1>1, <1>2, <2>1, <2>2, <2>3 DEF RunInv
<1>6. QED
  BY <1>3, <1>4, <1>5

\* A row of the page is done: nothing is known any more of a run that failed.
LEMMA DoneFails ==
    ASSUME RunInv, NEW row,
           rot' = [rot EXCEPT !.pc = "row", !.page = @ \ {row}, !.failed = TRUE],
           UNCHANGED <<field, disturbed>>
    PROVE  RunInv'
<1>1. /\ rot' \in Rotation /\ rot'.pc = "row" /\ rot'.failed
      /\ rot'.page = rot.page \ {row}
  <2>1. rot \in Rotation
    BY DEF RunInv
  <2> HIDE DEF Row
  <2>2. QED
    BY <2>1 DEF Rotation
<1>2. QED
  BY <1>1 DEF RunInv, PageIsTrue

\* A row of the page is done and under the new key.
LEMMA DoneWell ==
    ASSUME Inv, NEW row \in rot.page, rot.pc = "verify",
           rot' = [rot EXCEPT !.pc = "row", !.page = @ \ {row}],
           \E now \in Table : now.id = row.id /\ now.key = "new",
           UNCHANGED <<field, disturbed>>
    PROVE  RunInv'
<1>1. RunInv /\ SecretInv /\ rot \in Rotation /\ IdsAreOwn
  BY DEF Inv, RunInv, SecretInv
<1>2. /\ rot' \in Rotation /\ rot'.pc = "row" /\ rot'.page = rot.page \ {row}
      /\ rot'.failed = rot.failed /\ rot'.skip = rot.skip /\ rot'.total = rot.total
  BY <1>1 DEF Rotation
<1>3. Reached' = Reached
  BY <1>2 DEF Reached
<1>4. \A now \in Table : now.id = row.id => now.key = "new"
  <2>1. \A a, b \in Table : a.id = b.id => a = b
    BY <1>1, TableRows DEF Table, IdsAreOwn
  <2>2. QED
    BY <2>1
<1>5. DoneSoFar => DoneSoFar'
  <2> SUFFICES ASSUME DoneSoFar PROVE DoneSoFar'
    OBVIOUS
  <2>1. ASSUME NEW a \in Table, Before(a) < Reached
        PROVE  a.key = "new" \/ \E o \in rot'.page : o.id = a.id
    BY <1>2, <1>4, <2>1 DEF DoneSoFar
  <2>2. rot'.total = Cardinality(Ids)
    BY <1>2 DEF DoneSoFar
  <2>3. QED
    BY <1>3, <2>1, <2>2, TableStays DEF DoneSoFar
<1>6. PageIsTrue => PageIsTrue'
  BY <1>2 DEF PageIsTrue
<1>7. QED
  BY <1>1, <1>2, <1>5, <1>6 DEF RunInv

\* Pages are turned until all ranks are reached.
LEMMA PagesKeep ==
    ASSUME Inv, StartRun \/ ReadPage \/ TurnPage \/ FinishRun \/ Die
    PROVE  RunInv'
<1>1. RunInv /\ SecretInv /\ rot \in Rotation /\ UNCHANGED field
      /\ rot.skip \in Nat /\ rot.total \in Nat /\ rot.failed \in BOOLEAN
  BY DEF Inv, RunInv, Rotation, StartRun, ReadPage, TurnPage, FinishRun, Die, secretVars
<1>2. NoRun \in Rotation
  <2>1. {} \in SUBSET Row /\ 0 \in Nat /\ FALSE \in BOOLEAN
    OBVIOUS
  <2> HIDE DEF Row
  <2>2. QED
    BY <2>1 DEF NoRun, Rotation
<1>3. CASE StartRun
  <2>1. rot' = [NoRun EXCEPT !.pc = "page", !.total = Cardinality(Ids)] /\ disturbed' = FALSE
    BY <1>3 DEF StartRun
  <2>2. /\ rot' \in Rotation /\ rot'.pc = "page" /\ rot'.page = {} /\ rot'.skip = 0
        /\ rot'.total = Cardinality(Ids)
    <3>1. Cardinality(Ids) \in Nat
      BY IdsAreFinite
    <3> HIDE DEF Row
    <3>2. QED
      BY <1>2, <2>1, <3>1 DEF Rotation, NoRun
  <2>3. \A row : Before(row) \in Nat
    BY IdsAreFinite, FS_Subset, FS_CardinalityType DEF Before
  <2>4. DoneSoFar'
    BY <1>1, <2>2, <2>3, TableStays DEF DoneSoFar, Reached
  <2>5. QED
    BY <2>1, <2>2, <2>4 DEF RunInv, PageIsTrue
<1>4. CASE ReadPage
  <2>1. rot' = [rot EXCEPT !.pc = "row", !.page = Page] /\ disturbed' = disturbed
        /\ rot.pc = "page"
    BY <1>4 DEF ReadPage
  <2>2. Page \in SUBSET Row /\ Page \subseteq Table
    BY <1>1, TableRows DEF Page
  <2>3. /\ rot' \in Rotation /\ rot'.pc = "row" /\ rot'.page = Page
        /\ rot'.failed = rot.failed /\ rot'.skip = rot.skip /\ rot'.total = rot.total
    BY <1>1, <2>1, <2>2 DEF Rotation
  <2>4. PageIsTrue'
    <3> SUFFICES ASSUME NEW row \in Page, NEW r \in Resource, NEW n \in Name,
                        field[r][n].id = row.id
                 PROVE  field[r][n].value = row.value
      BY <1>1, <2>3 DEF PageIsTrue
    <3>1. PICK s \in Resource, m \in Name : row = field[s][m]
      BY <2>2 DEF Table
    <3>2. row.id # None
      BY <1>1, <2>2, TableRows
    <3>3. r = s /\ n = m
      BY <1>1, <3>1, <3>2 DEF SecretInv, IdsAreOwn, IsStored
    <3>4. QED
      BY <3>1, <3>3
  <2>5. ASSUME DoneSoFar PROVE DoneSoFar'
    <3>1. ASSUME NEW row \in Table, Before(row) < rot.skip + BatchSize
          PROVE  row.key = "new" \/ \E o \in Page : o.id = row.id
      <4>1. CASE Before(row) < rot.skip
        BY <2>1, <2>5, <3>1, <4>1, <1>1 DEF DoneSoFar, Reached, RunInv
      <4>2. CASE ~(Before(row) < rot.skip)
        <5>1. Before(row) \in Nat
          BY IdsAreFinite, FS_Subset, FS_CardinalityType DEF Before
        <5>2. row \in Page
          BY <1>1, <3>1, <4>2, <5>1 DEF Page, Before
        <5>3. QED
          BY <5>2
      <4>3. QED
        BY <4>1, <4>2
    <3>2. Reached' = rot.skip + BatchSize
      BY <2>3 DEF Reached
    <3>3. rot'.total = Cardinality(Ids)
      BY <2>3, <2>5 DEF DoneSoFar
    <3>4. QED
      BY <1>1, <2>3, <3>1, <3>2, <3>3, TableStays DEF DoneSoFar
  <2>6. QED
    BY <1>1, <2>1, <2>3, <2>4, <2>5 DEF RunInv
<1>5. CASE TurnPage
  <2>1. rot' = [rot EXCEPT !.pc = "page", !.skip = @ + BatchSize] /\ disturbed' = disturbed
        /\ rot.pc = "row" /\ rot.page = {}
    BY <1>5 DEF TurnPage
  <2>2. /\ rot' \in Rotation /\ rot'.pc = "page" /\ rot'.page = {}
        /\ rot'.failed = rot.failed /\ rot'.skip = rot.skip + BatchSize
        /\ rot'.total = rot.total
    <3>1. rot.skip + BatchSize \in Nat
      BY <1>1, BatchSizeAssumption
    <3> HIDE DEF Row
    <3>2. QED
      BY <1>1, <2>1, <3>1 DEF Rotation
  <2>3. Reached' = Reached
    BY <2>1, <2>2 DEF Reached
  <2>4. DoneSoFar => DoneSoFar'
    BY <1>1, <2>1, <2>2, <2>3, TableStays DEF DoneSoFar
  <2>5. QED
    BY <1>1, <2>1, <2>2, <2>4 DEF RunInv, PageIsTrue
<1>6. CASE FinishRun
  <2>1. rot' = [rot EXCEPT !.pc = IF rot.failed THEN "failed" ELSE "succeeded"]
        /\ disturbed' = disturbed /\ rot.pc = "page" /\ rot.skip >= rot.total
    BY <1>6 DEF FinishRun
  <2>2. /\ rot' \in Rotation /\ rot'.pc = IF rot.failed THEN "failed" ELSE "succeeded"
        /\ rot'.page = rot.page /\ rot'.failed = rot.failed /\ rot'.skip = rot.skip
        /\ rot'.total = rot.total
    BY <1>1, <2>1 DEF Rotation
  <2>3. Reached' = Reached
    BY <2>1, <2>2 DEF Reached
  <2>4. DoneSoFar => DoneSoFar'
    BY <1>1, <2>2, <2>3, TableStays DEF DoneSoFar
  <2>5. QED
    BY <1>1, <2>1, <2>2, <2>4 DEF RunInv, PageIsTrue
<1>7. CASE Die
  <2>1. rot' = NoRun /\ disturbed' = disturbed
    BY <1>7 DEF Die
  <2>2. QED
    BY <1>1, <1>2, <2>1 DEF RunInv, PageIsTrue, NoRun
<1>8. QED
  BY <1>3, <1>4, <1>5, <1>6, <1>7

\* A row of the page is rewritten under the new key.
LEMMA RotateTells ==
    ASSUME Inv, NEW row \in rot.page, rot.pc = "row",
           field' = [r \in Resource |-> [n \in Name |->
                        IF field[r][n].id = row.id THEN Rewritten(row, field[r][n])
                        ELSE field[r][n]]],
           \E now \in Table : now.id = row.id,
           rot' = [rot EXCEPT !.pc = "verify"], UNCHANGED disturbed
    PROVE  RunInv'
<1>1. RunInv /\ SecretInv /\ SecretTypeOK /\ rot \in Rotation /\ row \in Row
  BY DEF Inv, RunInv, SecretInv, Rotation
<1>2. /\ rot' \in Rotation /\ rot'.pc = "verify" /\ rot'.page = rot.page
      /\ rot'.failed = rot.failed /\ rot'.skip = rot.skip /\ rot'.total = rot.total
  <2> HIDE DEF Row
  <2>1. QED
    BY <1>1 DEF Rotation
<1>3. row.id \in RowId /\ row.id # None /\ row.value \in Value
  BY <1>1, RowIdAssumption DEF Row
<1>4. \A now \in Row : /\ Rewritten(row, now).id = now.id
                       /\ Rewritten(row, now).value = row.value
                       /\ Rewritten(row, now).key = "new"
  BY <1>3 DEF Row, Rewritten, CipherKey
<1>5. \A r \in Resource, n \in Name :
         /\ field[r][n].id = row.id => field[r][n] \in Row
         /\ field'[r][n] = IF field[r][n].id = row.id THEN Rewritten(row, field[r][n])
                           ELSE field[r][n]
  BY <1>1, <1>3 DEF SecretTypeOK, NoRow
<1>6. \A r \in Resource, n \in Name :
         /\ field'[r][n].id = field[r][n].id
         /\ field[r][n].id = row.id => field'[r][n].value = row.value
                                         /\ field'[r][n].key = "new"
         /\ field[r][n].id # row.id => field'[r][n] = field[r][n]
  BY <1>4, <1>5
<1>7. \A r \in Resource, n \in Name : field[r][n] \in Table <=> field'[r][n] \in Table'
  <2>1. \A r \in Resource, n \in Name : field[r][n] = NoRow <=> field'[r][n] = NoRow
    BY <1>3, <1>6 DEF NoRow
  <2>2. QED
    BY <2>1 DEF Table
<1>8. Ids' = Ids
  <2>1. \A r \in Resource, n \in Name : field[r][n] \in Table => field[r][n].id \in Ids'
    BY <1>6, <1>7 DEF Ids
  <2>2. \A r \in Resource, n \in Name : field'[r][n] \in Table' => field'[r][n].id \in Ids
    BY <1>6, <1>7 DEF Ids
  <2>3. ASSUME NEW i \in Ids PROVE i \in Ids'
    <3>1. PICK row1 \in Table : i = row1.id
      BY DEF Ids
    <3>2. PICK r \in Resource, n \in Name : row1 = field[r][n]
      BY <3>1 DEF Table
    <3>3. QED
      BY <2>1, <3>1, <3>2
  <2>4. ASSUME NEW i \in Ids' PROVE i \in Ids
    <3>1. PICK row1 \in Table' : i = row1.id
      BY DEF Ids
    <3>2. PICK r \in Resource, n \in Name : row1 = field'[r][n]
      BY <3>1 DEF Table
    <3>3. QED
      BY <2>2, <3>1, <3>2
  <2>5. QED
    BY <2>3, <2>4
<1>9. Reached' = Reached
  BY <1>2 DEF Reached
<1>10. DoneSoFar => DoneSoFar'
  <2> SUFFICES ASSUME DoneSoFar PROVE DoneSoFar'
    OBVIOUS
  <2>1. ASSUME NEW a \in Table', Before(a)' < Reached'
        PROVE  a.key = "new" \/ \E o \in rot.page : o.id = a.id
    <3>1. PICK r \in Resource, n \in Name : a = field'[r][n]
      BY <2>1 DEF Table
    <3>2. field[r][n] \in Table /\ field[r][n].id = a.id
      BY <1>6, <1>7, <2>1, <3>1
    <3>3. Before(a)' = Before(field[r][n])
      BY <1>8, <3>2 DEF Before
    <3>4. field[r][n].key = "new" \/ \E o \in rot.page : o.id = a.id
      BY <1>9, <2>1, <3>2, <3>3 DEF DoneSoFar
    <3>5. field[r][n].key = "new" => a.key = "new"
      BY <1>6, <3>1
    <3>6. QED
      BY <3>4, <3>5
  <2>2. rot'.total = Cardinality(Ids)'
    BY <1>2, <1>8 DEF DoneSoFar
  <2>3. QED
    BY <1>2, <2>1, <2>2 DEF DoneSoFar
<1>11. PageIsTrue => PageIsTrue'
  <2> SUFFICES ASSUME PageIsTrue, NEW a \in rot.page, NEW r \in Resource, NEW n \in Name,
                      field'[r][n].id = a.id
               PROVE  field'[r][n].value = a.value
    BY <1>2 DEF PageIsTrue
  <2>1. field[r][n].id = a.id /\ field[r][n].value = a.value
    BY <1>6 DEF PageIsTrue
  <2>2. CASE field[r][n].id = row.id
    <3>1. field[r][n].value = row.value
      BY <2>2 DEF PageIsTrue
    <3>2. QED
      BY <1>6, <2>1, <2>2, <3>1
  <2>3. CASE field[r][n].id # row.id
    BY <1>6, <2>1, <2>3
  <2>4. QED
    BY <2>2, <2>3
<1>12. QED
  BY <1>1, <1>2, <1>10, <1>11 DEF RunInv

\* What every step of the system preserves.
LEMMA InvIsInductive == Inv /\ [Next]_vars => Inv'
<1> SUFFICES ASSUME Inv, [Next]_vars PROVE Inv'
  OBVIOUS
<1>1. RunInv /\ SecretInv /\ rot \in Rotation /\ rot.page \subseteq Row
      /\ rot.failed \in BOOLEAN
  BY DEF Inv, RunInv, Rotation
<1>2. CASE BotStep
  BY <1>1, <1>2, BotKeeps, BotLeavesRun DEF BotStep, Inv
<1>3. CASE StartRun \/ ReadPage \/ TurnPage \/ FinishRun \/ Die
  <2>1. UNCHANGED secretVars
    BY <1>3 DEF StartRun, ReadPage, TurnPage, FinishRun, Die
  <2>2. QED
    BY <1>1, <1>3, <2>1, SecretsStutter, PagesKeep DEF Inv
<1>4. CASE RestartBot
  <2>1. SecretInv'
    BY <1>1, <1>4, RestartKeeps DEF RestartBot
  <2>2. rot' = NoRun /\ disturbed' = disturbed /\ field' = field
    BY <1>4 DEF RestartBot
  <2>3. NoRun \in Rotation
    <3>1. {} \in SUBSET Row /\ 0 \in Nat /\ FALSE \in BOOLEAN
      OBVIOUS
    <3> HIDE DEF Row
    <3>2. QED
      BY <3>1 DEF NoRun, Rotation
  <2>4. RunInv'
    BY <1>1, <2>2, <2>3 DEF RunInv, PageIsTrue, NoRun
  <2>5. QED
    BY <2>1, <2>4 DEF Inv
<1>5. ASSUME NEW row \in rot.page, Refuse(row) PROVE Inv'
  <2>1. UNCHANGED secretVars /\ UNCHANGED <<field, disturbed>>
    BY <1>5 DEF Refuse, secretVars
  <2>2. rot' = [rot EXCEPT !.pc = "row", !.page = @ \ {row}, !.failed = TRUE]
    <3>1. (rot.failed \/ TRUE) = TRUE
      OBVIOUS
    <3>2. QED
      BY <1>5, <3>1 DEF Refuse, Done
  <2>3. RunInv'
    BY <1>1, <2>1, <2>2, DoneFails
  <2>4. QED
    BY <1>1, <2>1, <2>3, SecretsStutter DEF Inv
<1>6. ASSUME NEW row \in rot.page, Rotate(row) PROVE Inv'
  <2>1. rot.pc = "row" /\ UNCHANGED <<policyVars, policy, version, drawn, botKey, call, disturbed>>
    BY <1>6 DEF Rotate
  <2>2. CASE \E now \in Table : now.id = row.id
    <3>1. field' = [r \in Resource |-> [n \in Name |->
                        IF field[r][n].id = row.id THEN Rewritten(row, field[r][n])
                        ELSE field[r][n]]]
          /\ rot' = [rot EXCEPT !.pc = "verify"]
      BY <1>6, <2>2 DEF Rotate
    <3>2. SecretInv'
      BY <1>1, <2>1, <3>1, RotateKeeps
    <3>3. RunInv'
      BY <1>1, <2>1, <2>2, <3>1, RotateTells
    <3>4. QED
      BY <3>2, <3>3 DEF Inv
  <2>3. CASE ~\E now \in Table : now.id = row.id
    <3>1. UNCHANGED secretVars /\ UNCHANGED <<field, disturbed>>
      BY <1>6, <2>1, <2>3 DEF Rotate, secretVars
    <3>2. rot' = [rot EXCEPT !.pc = "row", !.page = @ \ {row}, !.failed = TRUE]
      <4>1. (rot.failed \/ TRUE) = TRUE
        OBVIOUS
      <4>2. QED
        BY <1>6, <2>3, <4>1 DEF Rotate, Done
    <3>3. RunInv'
      BY <1>1, <3>1, <3>2, DoneFails
    <3>4. QED
      BY <1>1, <3>1, <3>3, SecretsStutter DEF Inv
  <2>4. QED
    BY <2>2, <2>3
<1>7. ASSUME NEW row \in rot.page, Verify(row) PROVE Inv'
  <2> DEFINE well == \E now \in Table : /\ now.id = row.id
                                        /\ now.key = "new" /\ now.value = row.value
  <2>1. UNCHANGED secretVars /\ UNCHANGED <<field, disturbed>> /\ rot.pc = "verify"
        /\ Done(row, ~well)
    BY <1>7 DEF Verify, secretVars
  <2>2. SecretInv'
    BY <1>1, <2>1, SecretsStutter
  <2>3. CASE well
    <3>1. \E now \in Table : now.id = row.id /\ now.key = "new"
      BY <2>3
    <3>2. rot' = [rot EXCEPT !.pc = "row", !.page = @ \ {row}, !.failed = @ \/ ~well]
      BY <2>1 DEF Done
    <3> HIDE DEF well, Row
    <3>3. (rot.failed \/ ~well) = rot.failed
      BY <1>1, <2>3
    <3>4. rot' = [rot EXCEPT !.pc = "row", !.page = @ \ {row}]
      <4>1. rot' = [rot EXCEPT !.pc = "row", !.page = @ \ {row}, !.failed = rot.failed]
        BY <3>2, <3>3
      <4>2. QED
        BY <1>1, <4>1 DEF Rotation
    <3>5. RunInv'
      BY <2>1, <3>1, <3>4, DoneWell
    <3>6. QED
      BY <2>2, <3>5 DEF Inv
  <2>4. CASE ~well
    <3> HIDE DEF well
    <3>1. (rot.failed \/ ~well) = TRUE
      BY <2>4
    <3>2. rot' = [rot EXCEPT !.pc = "row", !.page = @ \ {row}, !.failed = @ \/ ~well]
      BY <2>1 DEF Done
    <3>3. rot' = [rot EXCEPT !.pc = "row", !.page = @ \ {row}, !.failed = TRUE]
      BY <3>1, <3>2
    <3>4. RunInv'
      BY <1>1, <2>1, <3>3, DoneFails
    <3>5. QED
      BY <2>2, <3>4 DEF Inv
  <2>5. QED
    BY <2>3, <2>4
<1>8. CASE UNCHANGED vars
  <2>1. UNCHANGED secretVars /\ UNCHANGED <<rot, disturbed, field>>
    BY <1>8 DEF vars, secretVars
  <2>2. RunInv'
    BY <1>1, <2>1, TableStays DEF RunInv, PageIsTrue, DoneSoFar, Reached
  <2>3. QED
    BY <1>1, <2>1, <2>2, SecretsStutter DEF Inv
<1>9. QED
  BY <1>2, <1>3, <1>4, <1>5, <1>6, <1>7, <1>8 DEF Next, RunStep

-------------------------------------------------------------------------------
(* The rotation: theorems                                                    *)

\* Whatever the bot, its callers and the script do, each variable keeps its type.
THEOREM TypeCorrect == Spec => []TypeOK
<1>1. Inv => TypeOK
  BY DEF Inv, SecretInv, RunInv, TypeOK
<1>2. QED
  BY <1>1, Initially, InvIsInductive, PTL DEF Spec

\* In every state the ways in which domain/policy.ts, services.ts and server.ts
\* ask for an owner, a guardian or a writer give the same answer.
THEOREM AuthoritiesAlwaysAgree == Spec => []AuthoritiesAgree
<1>1. Inv => AuthoritiesAgree
  BY AuthoritiesAgreeAlways DEF Inv, SecretInv, SecretTypeOK
<1>2. QED
  BY <1>1, Initially, InvIsInductive, PTL DEF Spec

\* A handler that went past its decision works for somebody who had the right
\* to it at some moment since the call began.
THEOREM AccessIsAuthorised == Spec => []AccessWasAuthorised
<1>1. Inv => AccessWasAuthorised
  BY DEF Inv, SecretInv, CallsAreSound, IsSound, AccessWasAuthorised
<1>2. QED
  BY <1>1, Initially, InvIsInductive, PTL DEF Spec

\* A run of rotate-keys that reports success, and beside which the bot wrote
\* nothing, has left no value under the old key or without one.
THEOREM RotationCompletes == Spec => []RotationIsComplete
<1>1. Inv => RotationIsComplete
  <2> SUFFICES ASSUME Inv, rot.pc = "succeeded", ~disturbed, NEW row \in Table
               PROVE  row.key = "new"
    BY DEF RotationIsComplete
  <2>1. DoneSoFar /\ rot.page = {} /\ rot.skip >= rot.total
    BY DEF Inv, RunInv
  <2>2. row.id \in Ids /\ row.id \in Nat
    BY TableRows DEF Ids, Inv
  <2>3. Before(row) < Cardinality(Ids) /\ Before(row) \in Nat
    <3> DEFINE T == {i \in Ids : i < row.id}
    <3>1. T \in SUBSET Ids /\ T # Ids
      BY <2>2
    <3> HIDE DEF T
    <3>2. /\ Cardinality(T) <= Cardinality(Ids) /\ Cardinality(T) \in Nat
          /\ Cardinality(T) # Cardinality(Ids)
      BY <3>1, IdsAreFinite, FS_Subset, FS_CardinalityType
    <3>3. Cardinality(T) < Cardinality(Ids)
      BY <3>2, IdsAreFinite
    <3>4. QED
      BY <3>2, <3>3 DEF Before, T
  <2>4. Before(row) < Reached
    BY <2>1, <2>3, IdsAreFinite DEF Reached, DoneSoFar, Inv, RunInv, Rotation
  <2>5. QED
    BY <2>1, <2>4 DEF DoneSoFar
<1>2. QED
  BY <1>1, Initially, InvIsInductive, PTL DEF Spec

\* The values a step changes, and the version or the disturbed run beside them.
ValuesTell ==
    \A r \in Resource, n \in Name :
        field'[r][n].value # field[r][n].value
          => TargetVersion(r, n)' # TargetVersion(r, n) \/ disturbed

\* A step that changes a value gives it a new version.
LEMMA StepsTellValues == Inv /\ Next => ValuesTell
<1> SUFFICES ASSUME Inv, Next PROVE ValuesTell
  OBVIOUS
<1>1. CASE SecretNext
  <2>1. RowsTell
    BY <1>1, BotKeeps DEF Inv
  <2>2. QED
    BY <2>1 DEF RowsTell, ValuesTell, TargetVersion
<1>2. CASE UNCHANGED field
  BY <1>2 DEF ValuesTell
<1>3. ASSUME NEW row \in rot.page, Rotate(row), field' # field
      PROVE  ValuesTell
  <2>1. field' = [r \in Resource |-> [n \in Name |->
                        IF field[r][n].id = row.id THEN Rewritten(row, field[r][n])
                        ELSE field[r][n]]]
    BY <1>3 DEF Rotate
  <2>2. SecretTypeOK /\ row \in Row /\ (~disturbed => PageIsTrue)
    BY DEF Inv, SecretInv, RunInv, Rotation
  <2>3. row.id # None
    BY <2>2, RowIdAssumption DEF Row
  <2> SUFFICES ASSUME ~disturbed, NEW r \in Resource, NEW n \in Name
               PROVE  field'[r][n].value = field[r][n].value
    BY DEF ValuesTell
  <2>4. CASE field[r][n].id = row.id
    <3>1. field[r][n].value = row.value
      BY <2>2, <2>4 DEF PageIsTrue
    <3>2. field[r][n] \in Row
      BY <2>2, <2>3, <2>4 DEF SecretTypeOK, NoRow
    <3>3. Rewritten(row, field[r][n]).value = row.value
      BY <3>2 DEF Row, Rewritten
    <3>4. QED
      BY <2>1, <2>4, <3>1, <3>3
  <2>5. CASE field[r][n].id # row.id
    BY <2>1, <2>5
  <2>6. QED
    BY <2>4, <2>5
<1>4. QED
  BY <1>1, <1>2, <1>3
     DEF Next, BotStep, RunStep, StartRun, ReadPage, TurnPage, FinishRun, Die, RestartBot,
         Refuse, Verify, secretVars

\* Who may do what changes under no version of the policy.
RightsTell ==
    \A r \in Resource : Authority(r)' # Authority(r) => PolicyVersion(r)' # PolicyVersion(r)

\* The rights at a resource rest on its home, the owner and the members of that
\* and its own guardians.
LEMMA SameRows ==
    ASSUME NEW r \in Resource, home'[r] = home[r], guardian'[r] = guardian[r],
           home[r] # None => owner'[home[r]] = owner[home[r]]
                               /\ member'[home[r]] = member[home[r]]
    PROVE  Authority(r)' = Authority(r)
<1>1. \A op : \A u \in User : HasRight(op, r, u)' <=> HasRight(op, r, u)
  BY DEF HasRight, IsLinked, HomeOwner
<1>2. \A u \in User : /\ IsEffectiveOwner(r, u)' <=> IsEffectiveOwner(r, u)
                      /\ IsEffectiveGuardian(r, u)' <=> IsEffectiveGuardian(r, u)
  BY DEF IsEffectiveOwner, IsEffectiveGuardian, IsLinked, HomeOwner
<1>3. \A u \in User : /\ (HasRight("put", r, u)') = HasRight("put", r, u)
                      /\ (HasRight("reveal", r, u)') = HasRight("reveal", r, u)
                      /\ (IsEffectiveOwner(r, u)') = IsEffectiveOwner(r, u)
                      /\ (IsEffectiveGuardian(r, u)') = IsEffectiveGuardian(r, u)
  BY <1>1, <1>2 DEF HasRight, IsEffectiveOwner, IsEffectiveGuardian
<1>4. QED
  BY <1>3 DEF Authority

\* A member comes, goes or gets another role.
LEMMA MembersTell ==
    ASSUME SecretTypeOK, HomesExist, NEW p \in Project,
           policy' = [policy EXCEPT ![p] = @ + 1],
           \A q \in Project : q # p => member'[q] = member[q],
           UNCHANGED <<owner, home, guardian, version>>
    PROVE  RightsTell
<1> SUFFICES ASSUME NEW r \in Resource, Authority(r)' # Authority(r)
             PROVE  PolicyVersion(r)' # PolicyVersion(r)
  BY DEF RightsTell
<1>1. home[r] = p
  <2>1. home[r] \in Project \cup {None}
    BY DEF SecretTypeOK, PolicyTypeOK
  <2>2. QED
    BY <2>1, SameRows
<1>2. home[r] # None
  BY <1>1, Nothing
<1>3. policy[p] \in Nat /\ policy'[p] = policy[p] + 1
  BY DEF SecretTypeOK
<1>4. QED
  BY <1>1, <1>2, <1>3 DEF PolicyVersion, IsLinked

\* A step under a new version of a resource that touches the policy of no other.
LEMMA ResourceTells ==
    ASSUME SecretTypeOK, NEW r \in Resource, version'[r] # version[r],
           UNCHANGED <<owner, member, policy>>,
           \A s \in Resource : s # r => home'[s] = home[s] /\ guardian'[s] = guardian[s]
    PROVE  RightsTell
<1> SUFFICES ASSUME NEW s \in Resource, Authority(s)' # Authority(s)
             PROVE  PolicyVersion(s)' # PolicyVersion(s)
  BY DEF RightsTell
<1>1. s = r
  BY SameRows
<1>2. QED
  BY <1>1 DEF PolicyVersion

\* A step that changes who has a right gives the resource a new version.
LEMMA StepsTellRights == Inv /\ Next => RightsTell
<1> SUFFICES ASSUME Inv, Next PROVE RightsTell
  OBVIOUS
<1>1. SecretTypeOK /\ HomesExist
  BY DEF Inv, SecretInv
<1>2. CASE UNCHANGED policyVars
  BY <1>2, SameRows DEF RightsTell, policyVars
<1>3. ASSUME NEW p \in Project, NEW u \in User, CreateProject(p, u)
      PROVE  RightsTell
  <2>1. \A r \in Resource : home[r] # p
    BY <1>1, <1>3, Nothing DEF HomesExist, CreateProject
  <2>2. \A q \in Project : q # p => owner'[q] = owner[q]
    BY <1>1, <1>3 DEF CreateProject, SecretTypeOK, PolicyTypeOK
  <2>3. \A r \in Resource : home[r] # None => owner'[home[r]] = owner[home[r]]
    BY <1>1, <2>1, <2>2 DEF SecretTypeOK, PolicyTypeOK
  <2>4. UNCHANGED <<member, home, guardian>>
    BY <1>3 DEF CreateProject
  <2>5. QED
    BY <2>3, <2>4, SameRows DEF RightsTell
<1>4. ASSUME NEW r \in Resource, NEW p \in Project \cup {None}, NEW u \in User,
             CreateResource(r, p, u)
      PROVE  RightsTell
  <2>1. version'[r] = 1 /\ version[r] = 0
    BY <1>1, <1>4 DEF CreateResource, Exists, SecretTypeOK
  <2>2. \A s \in Resource : s # r => home'[s] = home[s] /\ guardian'[s] = guardian[s]
    BY <1>1, <1>4 DEF CreateResource, SecretTypeOK, PolicyTypeOK
  <2>3. QED
    BY <1>1, <1>4, <2>1, <2>2, ResourceTells DEF CreateResource
<1>5. ASSUME NEW p \in Project, NEW u \in User, RemoveMember(p, u)
      PROVE  RightsTell
  BY <1>1, <1>5, MembersTell DEF RemoveMember, SecretTypeOK, PolicyTypeOK
<1>6. ASSUME NEW p \in Project, NEW u \in User, NEW ro \in MemberRole, AddMember(p, u, ro)
      PROVE  RightsTell
  BY <1>1, <1>6, MembersTell DEF AddMember, SecretTypeOK, PolicyTypeOK
<1>7. ASSUME NEW r \in Resource, NEW u \in User, AddGuardian(r, u) \/ RemoveGuardian(r, u)
      PROVE  RightsTell
  <2>1. PICK ro : SetGuardian(r, u, ro)
    BY <1>7 DEF AddGuardian, RemoveGuardian
  <2>2. version'[r] # version[r]
    BY <1>1, <2>1, NewVersionGrows DEF SetGuardian, SecretTypeOK
  <2>3. \A s \in Resource : s # r => home'[s] = home[s] /\ guardian'[s] = guardian[s]
    BY <1>1, <2>1 DEF SetGuardian, SecretTypeOK, PolicyTypeOK
  <2>4. QED
    BY <1>1, <2>1, <2>2, <2>3, ResourceTells DEF SetGuardian
<1>8. CASE BotStep /\ ~PolicyStep
  <2>1. UNCHANGED policyVars
    BY <1>8, ZenonT(60) DEF BotStep, SecretNext, CallStep, Ask, Decide, DecideAgain, Look, Throw,
                CommitCreate, CommitDelete, CommitPut
  <2>2. QED
    BY <1>2, <2>1
<1>9. CASE RunStep
  <2>1. UNCHANGED policyVars
    BY <1>9 DEF RunStep, StartRun, ReadPage, TurnPage, FinishRun, Die, RestartBot,
                Refuse, Rotate, Verify, secretVars
  <2>2. QED
    BY <1>2, <2>1
<1>10. QED
  BY <1>3, <1>4, <1>5, <1>6, <1>7, <1>8, <1>9 DEF Next, PolicyStep

\* No value changes under the version of its field, and nobody's right to a
\* resource under the version of its policy, except that a run of rotate-keys
\* which the bot wrote beside may put a value back.
THEOREM VersionsAlwaysTell == Spec => VersionsTellChanges
<1>1. Inv /\ [Next]_vars =>
        [\A r \in Resource :
           /\ \A n \in Name :
                field'[r][n].value # field[r][n].value
                  => TargetVersion(r, n)' # TargetVersion(r, n) \/ disturbed
           /\ Authority(r)' # Authority(r) => PolicyVersion(r)' # PolicyVersion(r)]_vars
  BY StepsTellValues, StepsTellRights DEF ValuesTell, RightsTell
<1>2. QED
  BY <1>1, Initially, InvIsInductive, PTL DEF Spec, VersionsTellChanges

-------------------------------------------------------------------------------
(* The lists: what a record of a secret is shown for                         *)

\* A finite set of numbers has a largest one, which Newest chooses.
LEMMA LargestNatural ==
    ASSUME NEW S \in SUBSET Nat, IsFiniteSet(S), S # {}
    PROVE  \E m \in S : \A x \in S : m >= x
<1> DEFINE HasLargest(U) == \E m \in U : \A x \in U : m >= x
           Bad == {U \in SUBSET S : U # {} /\ ~HasLargest(U)}
<1> SUFFICES ASSUME Bad # {} PROVE FALSE
  OBVIOUS
<1>1. PICK U \in Bad : \A V \in Bad : <<V, U>> \notin StrictSubsetOrdering(S)
  <2>1. Bad \subseteq SUBSET S
    OBVIOUS
  <2> HIDE DEF Bad
  <2>2. QED
    <3>1. FiniteSubsetsOf(S) = SUBSET S
      BY FS_FiniteSubsetsOfFinite
    <3>2. IsWellFoundedOn(StrictSubsetOrdering(S), SUBSET S)
      BY <3>1, FS_StrictSubsetOrderingWellFounded
    <3>3. QED
      BY <2>1, <3>2, WFMin
<1>2. PICK x \in U : TRUE
  BY <1>1
<1> DEFINE V == U \ {x}
<1>3. V \notin Bad
  <2>1. <<V, U>> \in StrictSubsetOrdering(S)
    BY <1>2 DEF StrictSubsetOrdering
  <2>2. QED
    BY <1>1, <2>1
<1>4. U \subseteq Nat
  OBVIOUS
<1>5. CASE V = {}
  <2>1. \A y \in U : x >= y
    BY <1>4, <1>5
  <2>2. QED
    BY <2>1
<1>6. CASE V # {}
  <2>1. PICK m \in V : \A y \in V : m >= y
    BY <1>3, <1>6
  <2>2. CASE m >= x
    BY <1>4, <2>1, <2>2
  <2>3. CASE ~(m >= x)
    <3>1. \A y \in U : x >= y
      BY <1>4, <2>1, <2>3
    <3>2. QED
      BY <3>1
  <2>4. QED
    BY <2>2, <2>3
<1>7. QED
  BY <1>5, <1>6

\* The newest of some requests is one of them, that of none is None.
LEMMA NewestIsOne ==
    ASSUME NEW ids \in SUBSET RequestId
    PROVE  Newest(ids) = None \/ Newest(ids) \in ids
<1>1. CASE ids = {}
  BY <1>1 DEF Newest
<1>2. CASE ids # {}
  <2>1. ids \in SUBSET Nat /\ IsFiniteSet(ids)
    BY RequestIdAssumption, FS_Subset
  <2>2. \E m \in ids : \A x \in ids : m >= x
    BY <1>2, <2>1, LargestNatural
  <2>3. QED
    BY <1>2, <2>2 DEF Newest, Max
<1>3. QED
  BY <1>1, <1>2

\* The roles that list a secret.
LEMMA SecretGives ==
    ASSUME NEW ro \in DOMAIN Gives
    PROVE  "secret.metadata.read" \in Gives[ro] <=>
             ro \in {"ResourceOwner", "Writer", "Reader", "PendingGuardian", "NamedRequester"}
  BY DEF Gives, ViewProject, ManageProject, EditProject, ReadSecret, WriteSecret,
         ManageResource, ViewQueue, OwnRequest, OwnAccount, Create

-------------------------------------------------------------------------------
(* The lists: whom a record is shown to                                      *)

\* What the rows of the tables say of each other.
Tables ==
    /\ request \in [RequestId -> RequestRow \cup {NoRequest}]
    /\ \A q \in RequestId : Made(q) => Exists(request[q].resource)
    /\ \A p \in Project, u \in User : member[p][u] # None => owner[p] # None
    /\ \A r \in Resource : IsLinked(r) => Exists(r)
    /\ \A r \in Resource, u \in User : guardian[r][u] # None => Exists(r)

\* A record that names a resource, and the request it was found by.
IsRecordAt(x, r) ==
    /\ x.resource = r /\ x.project = home[r]
    /\ x.by = None \/ (x.by \in RequestId /\ Made(x.by) /\ request[x.by].resource = r)

\* The request that a record was found by asks for the very secret.
AsksForIt(x) ==
    /\ x.by # None /\ request[x.by].action = "secret.value.read"
    /\ request[x.by].key # None /\ request[x.by].key = x.name

\* The rows of each way, for a record of a list of this kind.
InProject(kind, r, u) ==
    /\ IsLinked(r)
    /\ HomeOwner(r) = u \/ (kind # "APPROVAL_REQUEST" /\ member[home[r]][u] # None)
AsGuardian(kind, x, pending, u) ==
    \/ ~IsLinked(x.resource) /\ guardian[x.resource][u] = "OWNER"
    \/ /\ guardian[x.resource][u] = "GUARDIAN"
       /\ kind = "SECRET" => AsksForIt(x) /\ pending
AsRequester(kind, x, u) ==
    /\ x.by # None /\ request[x.by].requester = u
    /\ kind = "SECRET" => AsksForIt(x)

ByResource == {"RESOURCE", "SECRET", "APPROVAL_REQUEST"}

\* The roles that list a project, environment, resource or request.
LEMMA ListGives ==
    ASSUME NEW ro \in DOMAIN Gives
    PROVE  /\ "project.view" \in Gives[ro] <=> ro \in {"ProjectOwner", "Writer", "Reader"}
           /\ "environment.view" \in Gives[ro] <=> ro \in {"ProjectOwner", "Writer", "Reader"}
           /\ "resource.view" \in Gives[ro] <=>
                ro \in {"ResourceOwner", "Writer", "Reader", "Guardian", "Requester"}
           /\ "request.view-own" \in Gives[ro] <=> ro = "Requester"
           /\ "request.queue.view" \in Gives[ro] <=> ro \in {"ResourceOwner", "Guardian"}
  BY DEF Gives, ViewProject, ManageProject, EditProject, ReadSecret, WriteSecret,
         ManageResource, ViewQueue, OwnRequest, OwnAccount, Create

\* The roles that the rows of each way can give.
LEMMA RolesGiveSomething ==
    \A c, u : /\ ProjectRoles(ProjectOf(c), u)
                   \subseteq {"ProjectOwner", "ResourceOwner", "Writer", "Reader"}
              /\ GuardianRoles(c, u) \subseteq {"Guardian", "PendingGuardian", "ResourceOwner"}
              /\ RequestRoles(c, u) \subseteq {"Requester", "NamedRequester"}
              /\ AccountRoles(c, u) \subseteq {"AccountOwner", "CodeOwner", "Custodian"}
<1> SUFFICES ASSUME NEW c, NEW u
             PROVE  /\ ProjectRoles(ProjectOf(c), u)
                         \subseteq {"ProjectOwner", "ResourceOwner", "Writer", "Reader"}
                    /\ GuardianRoles(c, u) \subseteq {"Guardian", "PendingGuardian", "ResourceOwner"}
                    /\ RequestRoles(c, u) \subseteq {"Requester", "NamedRequester"}
                    /\ AccountRoles(c, u) \subseteq {"AccountOwner", "CodeOwner", "Custodian"}
  OBVIOUS
<1>1. ProjectRoles(ProjectOf(c), u) \subseteq {"ProjectOwner", "ResourceOwner", "Writer", "Reader"}
  BY DEF ProjectRoles
<1>2. GuardianRoles(c, u) \subseteq {"Guardian", "PendingGuardian", "ResourceOwner"}
  BY DEF GuardianRoles
<1>3. RequestRoles(c, u) \subseteq {"Requester", "NamedRequester"}
  BY DEF RequestRoles
<1>4. AccountRoles(c, u) \subseteq {"AccountOwner", "CodeOwner", "Custodian"}
  BY DEF AccountRoles
<1>5. QED
  BY <1>1, <1>2, <1>3, <1>4

\* The policy allows a record if the rows of one way show it.
LEMMA AllowedIsShown ==
    ASSUME NEW u \in User, NEW kind \in Kind, NEW x, NEW pending
    PROVE  Allows(kind, DiscordPrincipal(u), x, pending) <=>
             \E way \in Way : Shows(kind, x, way, pending, u)
<1> DEFINE c == ContextOf(kind, x, pending)
           p == DiscordPrincipal(u)
<1>1. p.type = "DISCORD_USER" /\ p.subject = u /\ p.scopes = None
  BY DEF DiscordPrincipal
<1>2. c.account = None /\ c.subject = None
  BY DEF ContextOf, NoContext, Kind
<1>3. \A cap \in PrimaryCapabilities[kind] :
         cap \in {"project.view", "environment.view", "resource.view", "secret.metadata.read",
                  "request.view-own", "request.queue.view"}
  BY DEF Kind, PrimaryCapabilities
<1>4. Allows(kind, p, x, pending) <=>
        \E cap \in PrimaryCapabilities[kind] : HasCapability(p, cap, c)
  BY DEF Allows
<1>5. \A way : Shows(kind, x, way, pending, u) <=>
                 /\ Coherent(c)
                 /\ \E cap \in PrimaryCapabilities[kind] :
                       \E ro \in RolesBy(way, c, u) : cap \in Gives[ro]
  BY DEF Shows
<1> HIDE DEF c, p
<1>6. Roles(c, u) = ProjectRoles(ProjectOf(c), u) \cup GuardianRoles(c, u)
                      \cup RequestRoles(c, u) \cup {"Anyone"}
  <2>1. u # None
    BY Nothing
  <2>2. AccountRoles(c, u) = {}
    BY <1>2 DEF AccountRoles
  <2>3. QED
    BY <1>2, <2>1, <2>2 DEF Roles
<1>7. \A cap \in PrimaryCapabilities[kind] :
         HasCapability(p, cap, c) <=>
            Coherent(c) /\ \E ro \in Roles(c, u) : cap \in Gives[ro]
  <2> SUFFICES ASSUME NEW cap \in PrimaryCapabilities[kind]
               PROVE  HasCapability(p, cap, c) <=>
                        Coherent(c) /\ \E ro \in Roles(c, u) : cap \in Gives[ro]
    OBVIOUS
  <2>1. ~Forbidden(cap, c, u) /\ Needs(p, cap, c) = {cap} /\ cap # "grant.consume"
    BY <1>3 DEF Forbidden, Needs
  <2>2. HasCapability(p, cap, c) <=> UserHas(p, cap, c)
    BY <1>1 DEF HasCapability, InScope, UserPrincipal
  <2>3. QED
    BY <1>1, <2>1, <2>2 DEF UserHas, RolesGive
<1>8. \A cap \in PrimaryCapabilities[kind] : cap \notin Gives["Anyone"]
  BY <1>3 DEF Gives, Create
<1>9. (\E way \in Way : Shows(kind, x, way, pending, u)) <=>
        /\ Coherent(c)
        /\ \E cap \in PrimaryCapabilities[kind] :
              \E ro \in Roles(c, u) \ {"Anyone"} : cap \in Gives[ro]
  <2>1. /\ RolesBy("project", c, u) = ProjectRoles(ProjectOf(c), u)
        /\ RolesBy("guardian", c, u) = GuardianRoles(c, u)
        /\ RolesBy("request", c, u) = RequestRoles(c, u)
    BY DEF RolesBy
  <2>2. \A ro : ro \in Roles(c, u) \ {"Anyone"} <=> \E way \in Way : ro \in RolesBy(way, c, u)
    <3>1. "Anyone" \notin ProjectRoles(ProjectOf(c), u) \cup GuardianRoles(c, u)
                            \cup RequestRoles(c, u)
      BY RolesGiveSomething
    <3>2. QED
      BY <1>6, <2>1, <3>1 DEF Way
  <2>3. QED
    BY <1>5, <2>2
<1>10. QED
  BY <1>4, <1>7, <1>8, <1>9 DEF p

\* A context that is made of a record of a resource.
LEMMA RolesAtRecord ==
    ASSUME PolicyTypeOK, Tables, NEW kind \in ByResource, NEW u \in User, NEW r \in Resource,
           NEW x, IsRecordAt(x, r), NEW pending \in BOOLEAN, NEW c, c = ContextOf(kind, x, pending)
    PROVE  /\ Coherent(c) /\ ProjectOf(c) = home[r]
           /\ "Guardian" \in GuardianRoles(c, u) <=> guardian[r][u] = "GUARDIAN"
           /\ "ResourceOwner" \in GuardianRoles(c, u) <=> home[r] = None /\ guardian[r][u] = "OWNER"
           /\ kind = "SECRET" =>
                 ("PendingGuardian" \in GuardianRoles(c, u) <=>
                    guardian[r][u] = "GUARDIAN" /\ AsksForIt(x) /\ pending)
           /\ "Requester" \in RequestRoles(c, u) <=> x.by # None /\ request[x.by].requester = u
           /\ kind = "SECRET" =>
                 ("NamedRequester" \in RequestRoles(c, u) <=>
                    /\ x.by # None /\ request[x.by].requester = u
                    /\ AsksForIt(x))
<1> DEFINE q == InContext(x.by, pending)
<1>1. /\ c.resource = r /\ c.project = home[r] /\ c.request = q
      /\ c.environment = IF home[r] = None THEN None ELSE r
      /\ kind = "SECRET" => c.secret = x.name
  BY DEF ContextOf, NoContext, ByResource, IsRecordAt
<1>2. r # None /\ u # None
  BY Nothing
<1>3. x.by = None => q = None
  BY DEF InContext
<1>4. x.by # None => /\ q \in RequestContext /\ q.resource = r /\ q.pending = pending
                     /\ q.requester = request[x.by].requester
                     /\ q.secret = IF request[x.by].action = "secret.value.read"
                                   THEN request[x.by].key ELSE None
  <2> SUFFICES ASSUME x.by # None PROVE <1>4!2
    OBVIOUS
  <2>1. request[x.by] \in RequestRow /\ request[x.by].resource = r
    BY DEF IsRecordAt, Tables, Made
  <2>2. QED
    BY <2>1 DEF InContext, RequestContext, RequestRow
<1> HIDE DEF q
<1>5. q # None <=> x.by # None
  BY <1>3, <1>4, NoneIsNoRequest
<1>6. Named(c) = {r}
  <2>1. {c.environment, c.resource} \ {None} = {r}
    BY <1>1, <1>2
  <2>2. q # None => {q.resource} = {r}
    BY <1>4, <1>5
  <2>3. QED
    BY <1>1, <2>1, <2>2 DEF Named
<1>7. Coherent(c) /\ ProjectOf(c) = home[r]
  <2>1. Coherent(c)
    BY <1>1, <1>6 DEF Coherent
  <2>2. (CHOOSE s \in Named(c) : TRUE) = r
    BY <1>6
  <2>3. QED
    BY <1>1, <1>6, <2>1, <2>2 DEF ProjectOf
<1>8. kind = "SECRET" => (AsksForSecret(c) <=> AsksForIt(x))
  BY <1>1, <1>4, <1>5 DEF AsksForSecret, AsksForIt
<1>9. AsksForSecret(c) => c.request.pending = pending
  BY <1>1, <1>4, <1>5 DEF AsksForSecret
<1>10. /\ "Guardian" \in GuardianRoles(c, u) <=> guardian[r][u] = "GUARDIAN"
       /\ "ResourceOwner" \in GuardianRoles(c, u) <=> home[r] = None /\ guardian[r][u] = "OWNER"
       /\ "PendingGuardian" \in GuardianRoles(c, u) <=>
            guardian[r][u] = "GUARDIAN" /\ AsksForSecret(c) /\ pending
  BY <1>6, <1>7, <1>9 DEF GuardianRoles
<1>11. /\ "Requester" \in RequestRoles(c, u) <=> x.by # None /\ request[x.by].requester = u
       /\ "NamedRequester" \in RequestRoles(c, u) <=>
            x.by # None /\ request[x.by].requester = u /\ AsksForSecret(c)
  BY <1>1, <1>4, <1>5 DEF RequestRoles
<1>12. QED
  BY <1>7, <1>8, <1>10, <1>11

\* Which rows of each way show a record of a resource.
LEMMA WhatShows ==
    ASSUME PolicyTypeOK, Tables, NEW kind \in ByResource, NEW u \in User, NEW r \in Resource,
           NEW x, IsRecordAt(x, r), NEW pending \in BOOLEAN
    PROVE  /\ Shows(kind, x, "project", pending, u) <=> InProject(kind, r, u)
           /\ Shows(kind, x, "guardian", pending, u) <=> AsGuardian(kind, x, pending, u)
           /\ Shows(kind, x, "request", pending, u) <=> AsRequester(kind, x, u)
<1>1. PICK c : c = ContextOf(kind, x, pending)
  OBVIOUS
<1>2. /\ Coherent(c) /\ ProjectOf(c) = home[r]
      /\ "Guardian" \in GuardianRoles(c, u) <=> guardian[r][u] = "GUARDIAN"
      /\ "ResourceOwner" \in GuardianRoles(c, u) <=> home[r] = None /\ guardian[r][u] = "OWNER"
      /\ kind = "SECRET" =>
            ("PendingGuardian" \in GuardianRoles(c, u) <=>
               guardian[r][u] = "GUARDIAN" /\ AsksForIt(x) /\ pending)
      /\ "Requester" \in RequestRoles(c, u) <=> x.by # None /\ request[x.by].requester = u
      /\ kind = "SECRET" =>
            ("NamedRequester" \in RequestRoles(c, u) <=>
               /\ x.by # None /\ request[x.by].requester = u
               /\ AsksForIt(x))
  BY <1>1, RolesAtRecord
<1>3. /\ RolesBy("project", c, u) = ProjectRoles(home[r], u)
      /\ RolesBy("guardian", c, u) = GuardianRoles(c, u)
      /\ RolesBy("request", c, u) = RequestRoles(c, u)
  BY <1>2 DEF RolesBy
<1>4. \A way : Shows(kind, x, way, pending, u) <=>
                 \E cap \in PrimaryCapabilities[kind] :
                    \E ro \in RolesBy(way, c, u) : cap \in Gives[ro]
  BY <1>1, <1>2 DEF Shows
<1> DEFINE Showing == {ro \in DOMAIN Gives : \E cap \in PrimaryCapabilities[kind] : cap \in Gives[ro]}
<1>5. /\ kind = "RESOURCE" =>
            Showing = {"ResourceOwner", "Writer", "Reader", "Guardian", "Requester"}
      /\ kind = "SECRET" =>
            Showing = {"ResourceOwner", "Writer", "Reader", "PendingGuardian", "NamedRequester"}
      /\ kind = "APPROVAL_REQUEST" => Showing = {"ResourceOwner", "Guardian", "Requester"}
  <2>1. CASE kind = "RESOURCE"
    <3>1. PrimaryCapabilities[kind] = {"resource.view"}
      BY <2>1 DEF PrimaryCapabilities
    <3>2. {"ResourceOwner", "Writer", "Reader", "Guardian", "Requester"} \subseteq DOMAIN Gives
      BY DEF Gives
    <3>3. QED
      BY <2>1, <3>1, <3>2, ListGives
  <2>2. CASE kind = "SECRET"
    <3>1. PrimaryCapabilities[kind] = {"secret.metadata.read"}
      BY <2>2 DEF PrimaryCapabilities
    <3>2. {"ResourceOwner", "Writer", "Reader", "PendingGuardian", "NamedRequester"}
            \subseteq DOMAIN Gives
      BY DEF Gives
    <3>3. QED
      BY <2>2, <3>1, <3>2, SecretGives
  <2>3. CASE kind = "APPROVAL_REQUEST"
    <3>1. PrimaryCapabilities[kind] = {"request.view-own", "request.queue.view"}
      BY <2>3 DEF PrimaryCapabilities
    <3>2. {"ResourceOwner", "Guardian", "Requester"} \subseteq DOMAIN Gives
      BY DEF Gives
    <3>3. QED
      BY <2>3, <3>1, <3>2, ListGives
  <2>4. QED
    BY <2>1, <2>2, <2>3
<1>6. /\ ProjectRoles(home[r], u) \subseteq {"ProjectOwner", "ResourceOwner", "Writer", "Reader"}
      /\ GuardianRoles(c, u) \subseteq {"Guardian", "PendingGuardian", "ResourceOwner"}
      /\ RequestRoles(c, u) \subseteq {"Requester", "NamedRequester"}
  BY <1>2, RolesGiveSomething
<1>7. {"ProjectOwner", "ResourceOwner", "Writer", "Reader", "Guardian", "PendingGuardian",
       "Requester", "NamedRequester"} \subseteq DOMAIN Gives
  BY DEF Gives
<1>8. \A way \in Way : Shows(kind, x, way, pending, u) <=>
                          \E ro \in RolesBy(way, c, u) : ro \in Showing
  BY <1>3, <1>4, <1>6, <1>7 DEF Way
<1> HIDE DEF Showing
<1>9. /\ "ResourceOwner" \in ProjectRoles(home[r], u) <=> IsLinked(r) /\ HomeOwner(r) = u
      /\ "Writer" \in ProjectRoles(home[r], u) \/ "Reader" \in ProjectRoles(home[r], u) <=>
           IsLinked(r) /\ HomeOwner(r) # u /\ member[home[r]][u] # None
  <2>1. home[r] # None => member[home[r]][u] \in {"WRITER", "READER", None}
    BY DEF PolicyTypeOK, MemberRole
  <2>2. ProjectRoles(home[r], u) =
          IF home[r] = None THEN {}
          ELSE IF owner[home[r]] = u THEN {"ProjectOwner", "ResourceOwner"}
          ELSE IF member[home[r]][u] = "WRITER" THEN {"Writer"}
          ELSE IF member[home[r]][u] = "READER" THEN {"Reader"} ELSE {}
    BY DEF ProjectRoles
  <2>3. QED
    BY <2>1, <2>2, Nothing DEF IsLinked, HomeOwner, MemberRole
<1>10. Shows(kind, x, "project", pending, u) <=> InProject(kind, r, u)
  BY <1>3, <1>5, <1>6, <1>8, <1>9 DEF InProject, Way, ByResource
<1>11. Shows(kind, x, "guardian", pending, u) <=> AsGuardian(kind, x, pending, u)
  <2>1. x.resource = r
    BY DEF IsRecordAt
  <2>2. Shows(kind, x, "guardian", pending, u) <=>
          \E ro \in {"Guardian", "PendingGuardian", "ResourceOwner"} :
             ro \in GuardianRoles(c, u) /\ ro \in Showing
    BY <1>3, <1>6, <1>8 DEF Way
  <2>3. QED
    BY <1>2, <1>5, <2>1, <2>2 DEF AsGuardian, IsLinked, ByResource
<1>12. Shows(kind, x, "request", pending, u) <=> AsRequester(kind, x, u)
  <2>1. Shows(kind, x, "request", pending, u) <=>
          \E ro \in {"Requester", "NamedRequester"} :
             ro \in RequestRoles(c, u) /\ ro \in Showing
    BY <1>3, <1>6, <1>8 DEF Way
  <2>2. QED
    BY <1>2, <1>5, <2>1 DEF AsRequester, ByResource
<1>13. QED
  BY <1>10, <1>11, <1>12

\* Projects and environments are shown to the owner and the members.
LEMMA WhatShowsProject ==
    ASSUME PolicyTypeOK, NEW u \in User, NEW kind \in {"PROJECT", "ENVIRONMENT"}, NEW x,
           NEW p \in Project, x.project = p, NEW way \in Way, NEW pending,
           Shows(kind, x, way, pending, u)
    PROVE  way = "project" /\ (owner[p] = u \/ member[p][u] # None)
<1>1. PICK c : c = ContextOf(kind, x, pending)
  OBVIOUS
<1>2. c.project = p /\ c.request = None
  BY <1>1 DEF ContextOf, NoContext
<1>3. ProjectOf(c) = p
  BY <1>2, Nothing DEF ProjectOf
<1>4. PICK ro \in RolesBy(way, c, u) :
         "project.view" \in Gives[ro] \/ "environment.view" \in Gives[ro]
  BY <1>1 DEF Shows, PrimaryCapabilities
<1>5. /\ RolesBy("project", c, u) = ProjectRoles(p, u)
      /\ RolesBy("guardian", c, u) = GuardianRoles(c, u)
      /\ RolesBy("request", c, u) = RequestRoles(c, u)
  BY <1>3 DEF RolesBy
<1>6. ro \in {"ProjectOwner", "ResourceOwner", "Writer", "Reader", "Guardian", "PendingGuardian",
              "Requester", "NamedRequester"}
  BY <1>3, <1>5, RolesGiveSomething DEF Way
<1>7. ro \in DOMAIN Gives
  BY <1>6 DEF Gives
<1>8. ro \in {"ProjectOwner", "Writer", "Reader"}
  BY <1>4, <1>7, ListGives
<1>9. way = "project" /\ ro \in ProjectRoles(p, u)
  BY <1>5, <1>8, RolesGiveSomething DEF Way
<1>10. QED
  BY <1>8, <1>9, Nothing DEF ProjectRoles, PolicyTypeOK, MemberRole

\* Its rows show it whatever the policy has read of a request.
LEMMA ProjectsHaveNoRequest ==
    ASSUME NEW kind \in {"PROJECT", "ENVIRONMENT"}
    PROVE  \A x, way, a, b, u : Shows(kind, x, way, a, u) <=> Shows(kind, x, way, b, u)
<1>1. \A x, a, b : ContextOf(kind, x, a) = ContextOf(kind, x, b)
  BY DEF ContextOf
<1>2. QED
  BY <1>1 DEF Shows

-------------------------------------------------------------------------------
(* The lists: the invariant                                                  *)

\* A row had this id and no row has it any more.
Gone(i) == i \in drawn /\ \A r \in Resource, n \in Name : field[r][n].id # i

\* The candidate was a row, and is what its request asks for.
IsSecretCandidate(x) ==
    /\ x.resource \in Resource /\ x.name \in Name /\ Exists(x.resource)
    /\ x.project = home[x.resource] /\ x.id \in drawn /\ x.at = <<Rank[x.name], x.id>>
    /\ \A s \in Resource, m \in Name :
          field[s][m].id = x.id => s = x.resource /\ m = x.name
    /\ x.by # None => x.by \in RequestId /\ Made(x.by) /\ AsksFor(x.by, x.resource, x.name)

IsCandidate(x) ==
    IF query.kind = "SECRET" THEN IsSecretCandidate(x) ELSE x \in Everything(query.kind)

WasSeen(i) == i \in query.seen \/ (query.kind = "SECRET" /\ Gone(i))

Reading == {"projects", "secrets", "own", "guardians", "fetch"}
Phase == Reading \cup {"idle", "verify", "authorize", "guardian", "paged", "done", "failed"}
Bare == Reading \cup {"idle", "paged", "done"}

\* The fields of the walk, with what is known of each by itself.
IsWalk ==
    query \in [pc : Phase, kind : Kind \cup {None}, principal : Reader \cup {NoPrincipal},
               cursor : {query.cursor}, within : {query.within}, broad : {query.broad},
               own : {query.own}, queued : {query.queued}, batch : {query.batch},
               short : {query.short}, pending : BOOLEAN, found : {query.found},
               items : {query.items}, listed : {query.listed}, count : {query.count},
               steady : {query.steady}, open : SUBSET RequestId, seen : {query.seen}]

\* What the reads of a batch have found, which may be out of date.
FoundIsSound ==
    /\ query.within \cup query.queued \subseteq {r \in Resource : Exists(r)}
    /\ query.own \subseteq RequestsBy(query.principal.subject)
    /\ \A x \in query.broad : IsSecretCandidate(x) /\ x.by = None
    /\ query.pc \notin {"own", "guardians", "fetch"} => query.broad = {}
    /\ query.pc = "projects" => query.kind \in {"RESOURCE", "SECRET"}
    /\ query.pc = "secrets" => query.kind = "SECRET"
    /\ query.pc = "own" => query.kind \in {"SECRET", "APPROVAL_REQUEST"}

\* Whom a candidate is shown now it was, or its row is gone.
WalkIsSound ==
    /\ query.kind \in Kind /\ query.principal \in Reader
    /\ Pending \subseteq query.open
    /\ Visible(query.kind, query.principal, query.open) \subseteq query.seen
    /\ \A x \in query.batch : IsCandidate(x)
    /\ \A x \in query.found : WasSeen(x.id)
    /\ \A i \in query.items : WasSeen(i)
    /\ FoundIsSound
    /\ query.pc = "guardian" =>
          \A x \in query.batch : IsFirst(x) /\ query.pending => x.by \in query.open

QueryInv ==
    /\ IsWalk
    /\ query.pc # "idle" => WalkIsSound
    /\ query.pc \in Bare => query.batch = {}

ListInv == SecretInv /\ Tables /\ QueryInv

\* The invariant of the lists holds at the start.
LEMMA ListInitially == ListInit => ListInv
<1> SUFFICES ASSUME ListInit PROVE ListInv
  OBVIOUS
<1>1. SecretInv
  BY SecretInitially DEF ListInit
<1>2. QueryInv
  BY DEF ListInit, QueryInv, IsWalk, NoWalk, Phase, Bare, Reading
<1>3. Tables
  <2>1. request \in [RequestId -> RequestRow \cup {NoRequest}]
    <3>1. [resource : {r \in Resource : Exists(r)}, requester : User,
           action : {"secret.value.read"}, key : {None}, version : {1},
           pending : {TRUE}] \subseteq RequestRow
      <4> SUFFICES ASSUME NEW row \in [resource : {r \in Resource : Exists(r)}, requester : User,
                                       action : {"secret.value.read"}, key : {None},
                                       version : {1}, pending : {TRUE}]
                   PROVE  row \in RequestRow
        OBVIOUS
      <4>1. /\ row.resource \in Resource /\ row.requester \in User
            /\ row = [resource |-> row.resource, requester |-> row.requester,
                      action |-> "secret.value.read", key |-> None, version |-> 1,
                      pending |-> TRUE]
        OBVIOUS
      <4>2. 1 \in Nat /\ "secret.value.read" \in RequestAction /\ TRUE \in BOOLEAN
        BY DEF RequestAction
      <4>3. QED
        BY <4>1, <4>2 DEF RequestRow
    <3>2. QED
      BY <3>1 DEF ListInit
  <2>2. \A q \in RequestId : Made(q) => Exists(request[q].resource)
    BY DEF ListInit, Made
  <2>3. /\ \A p \in Project, u \in User : member[p][u] = None
        /\ \A r \in Resource : IsLinked(r) => Exists(r)
        /\ \A r \in Resource, u \in User : guardian[r][u] # None => Exists(r)
    BY DEF ListInit, SecretInit
  <2>4. QED
    BY <2>1, <2>2, <2>3 DEF Tables
<1>4. QED
  BY <1>1, <1>2, <1>3 DEF ListInv

-------------------------------------------------------------------------------
(* The lists: what is visible rests on the rows                              *)

\* While the rows of the policy stay it allows the same.
LEMMA CapabilitiesStay ==
    ASSUME UNCHANGED policyVars
    PROVE  \A p, cap, c : p.type = "DISCORD_USER" =>
               (HasCapability(p, cap, c)' <=> HasCapability(p, cap, c))
<1>1. UNCHANGED <<owner, member, home, guardian>>
  BY DEF policyVars
<1>2. \A c : Coherent(c)' <=> Coherent(c)
  BY <1>1 DEF Coherent
<1>3. \A c : ProjectOf(c)' = ProjectOf(c)
  BY <1>1 DEF ProjectOf
<1>4. \A p, u : ProjectRoles(p, u)' = ProjectRoles(p, u)
  BY <1>1 DEF ProjectRoles
<1>5. \A c, u : GuardianRoles(c, u)' = GuardianRoles(c, u)
  BY <1>1, <1>3 DEF GuardianRoles
<1>6. \A c, u : Roles(c, u)' = Roles(c, u)
  BY <1>3, <1>4, <1>5 DEF Roles
<1>7. \A p, cap, c : RolesGive(p, cap, c)' <=> RolesGive(p, cap, c)
  BY <1>6 DEF RolesGive, Forbidden
<1>8. \A p, cap, c : UserHas(p, cap, c)' <=> UserHas(p, cap, c)
  BY <1>2, <1>7 DEF UserHas
<1>9. \A p, cap, c : p.type = "DISCORD_USER" =>
         (HasCapability(p, cap, c) <=> InScope(p, cap) /\ UserHas(p, cap, c))
  BY DEF HasCapability, UserPrincipal
<1>10. \A p, cap, c : p.type = "DISCORD_USER" =>
         (HasCapability(p, cap, c)' <=> InScope(p, cap) /\ UserHas(p, cap, c)')
  BY DEF HasCapability, UserPrincipal
<1>11. QED
  BY <1>8, <1>9, <1>10

\* While the rows stay the lists have the same records.
LEMMA RecordsStay ==
    ASSUME UNCHANGED <<policyVars, version, field, request>>
    PROVE  \A kind :
              /\ \A x, b : \A p \in Reader : Allows(kind, p, x, b)' <=> Allows(kind, p, x, b)
              /\ Everything(kind)' = Everything(kind)
<1>0. \A p \in Reader : p.type = "DISCORD_USER"
  BY ReaderAssumption DEF DiscordPrincipal
<1>1. UNCHANGED <<owner, member, home, guardian, version, field, request>>
  BY DEF policyVars
<1>2. \A kind, x, b : ContextOf(kind, x, b)' = ContextOf(kind, x, b)
  BY <1>1 DEF ContextOf, InContext
<1>3. \A kind, x, b : \A p \in Reader : Allows(kind, p, x, b)' <=> Allows(kind, p, x, b)
  BY <1>0, <1>2, CapabilitiesStay DEF Allows
<1>4. \A kind : Everything(kind)' = Everything(kind)
  BY <1>1
  DEF Everything, Made, ProjectRecord, EnvironmentRecord, ResourceRecord, SecretRecord,
      RequestRecord, RecordOf, AsksFor, IsStored, IsLinked, Exists
<1>5. QED
  BY <1>3, <1>4

\* And their readers see the same.
LEMMA VisibleStays ==
    ASSUME UNCHANGED <<policyVars, version, field, request>>
    PROVE  /\ \A kind, open : \A p \in Reader : Visible(kind, p, open)' = Visible(kind, p, open)
           /\ Pending' = Pending
<1>1. \A kind, open : \A p \in Reader : Visible(kind, p, open)' = Visible(kind, p, open)
  BY RecordsStay DEF Visible
<1>2. QED
  BY <1>1 DEF Pending

\* A secret that is stored is a record of its list without a request, too.
LEMMA StoredIsRecord ==
    ASSUME NEW r \in Resource, NEW n \in Name, IsStored(r, n),
           NEW q \in {None} \cup {o \in RequestId : Made(o) /\ AsksFor(o, r, n)}
    PROVE  SecretRecord(r, n, q) \in Everything("SECRET")
<1> DEFINE S == {f \in Resource \X Name : IsStored(f[1], f[2])}
           R(s) == {SecretRecord(s[1], s[2], o) :
                      o \in {None} \cup {a \in {b \in RequestId : Made(b)} :
                                          AsksFor(a, s[1], s[2])}}
<1>1. Everything("SECRET") = UNION {R(s) : s \in S}
  BY DEF Everything
<1>2. <<r, n>> \in S /\ SecretRecord(r, n, q) \in R(<<r, n>>)
  OBVIOUS
<1> HIDE DEF S, R
<1>3. QED
  BY <1>1, <1>2

\* The fields of the record of a secret.
LEMMA SecretFields ==
    ASSUME NEW r, NEW n, NEW q
    PROVE  /\ SecretRecord(r, n, q).id = field[r][n].id
           /\ SecretRecord(r, n, q).at = <<Rank[n], field[r][n].id>>
           /\ SecretRecord(r, n, q).resource = r
           /\ SecretRecord(r, n, q).name = n
           /\ SecretRecord(r, n, q).by = q
           /\ r # None => SecretRecord(r, n, q).project = home[r]
  BY DEF SecretRecord, RecordOf

-------------------------------------------------------------------------------
(* The lists: what the others do                                             *)

\* Rows that are there keep what a record says of them; ids are not drawn twice.
RowsLast ==
    /\ \A p \in Project : owner[p] # None => owner'[p] = owner[p]
    /\ \A r \in Resource : Exists(r) => Exists(r)' /\ home'[r] = home[r]
    /\ \A r \in Resource, u \in User :
          Exists(r) /\ guardian[r][u] = "OWNER" => guardian'[r][u] = "OWNER"
    /\ drawn \subseteq drawn'
    /\ \A r \in Resource, n \in Name :
          field'[r][n].id = field[r][n].id \/ field'[r][n].id \notin drawn

RequestsLast ==
    \A q \in RequestId : Made(q) =>
        /\ Made(q)'
        /\ request'[q].resource = request[q].resource
        /\ request'[q].requester = request[q].requester
        /\ request'[q].action = request[q].action
        /\ request'[q].key = request[q].key
        /\ request'[q].version = request[q].version
        /\ request'[q].pending => request[q].pending

\* The rows of the policy after a step on them.
PolicyTables ==
    /\ \A p \in Project, u \in User : member[p][u] # None => owner[p] # None
    /\ \A r \in Resource : IsLinked(r) => Exists(r)
    /\ \A r \in Resource, u \in User : guardian[r][u] # None => Exists(r)

\* A change of membership, guardians or links leaves rows as RowsLast says.
LEMMA PolicyStepLasts == SecretInv /\ Tables /\ PolicyStep => RowsLast /\ PolicyTables'
<1> SUFFICES ASSUME SecretInv, Tables, PolicyStep PROVE RowsLast /\ PolicyTables'
  OBVIOUS
<1>1. SecretTypeOK /\ PolicyTypeOK /\ HomesExist /\ PolicyTables
  BY DEF SecretInv, SecretTypeOK, Tables, PolicyTables
<1>2. ASSUME NEW p \in Project, NEW u \in User, CreateProject(p, u)
      PROVE  RowsLast /\ PolicyTables'
  BY <1>1, <1>2, Nothing
  DEF CreateProject, RowsLast, PolicyTables, PolicyTypeOK, IsLinked, Exists
<1>3. ASSUME NEW r \in Resource, NEW p \in Project \cup {None}, NEW u \in User,
             CreateResource(r, p, u)
      PROVE  RowsLast /\ PolicyTables'
  <2>1. \A s \in Resource : Exists(s)' <=> Exists(s) \/ s = r
    BY <1>1, <1>3 DEF CreateResource, Exists, SecretTypeOK
  <2>2. \A s \in Resource : s # r => home'[s] = home[s] /\ guardian'[s] = guardian[s]
    BY <1>1, <1>3 DEF CreateResource, PolicyTypeOK
  <2>3. ~Exists(r) /\ UNCHANGED <<owner, member, drawn, field>>
    BY <1>3 DEF CreateResource
  <2>4. RowsLast
    BY <2>1, <2>2, <2>3 DEF RowsLast
  <2>5. PolicyTables'
    BY <1>1, <2>1, <2>2, <2>3 DEF PolicyTables, IsLinked
  <2>6. QED
    BY <2>4, <2>5
<1>4. ASSUME NEW p \in Project, NEW u \in User, RemoveMember(p, u)
      PROVE  RowsLast /\ PolicyTables'
  BY <1>1, <1>4 DEF RemoveMember, RowsLast, PolicyTables, PolicyTypeOK, IsLinked, Exists
<1>5. ASSUME NEW p \in Project, NEW u \in User, NEW ro \in MemberRole, AddMember(p, u, ro)
      PROVE  RowsLast /\ PolicyTables'
  BY <1>1, <1>5 DEF AddMember, RowsLast, PolicyTables, PolicyTypeOK, IsLinked, Exists
<1>6. ASSUME NEW r \in Resource, NEW u \in User, AddGuardian(r, u) \/ RemoveGuardian(r, u)
      PROVE  RowsLast /\ PolicyTables'
  <2>1. PICK ro : SetGuardian(r, u, ro) /\ Exists(r) /\ guardian[r][u] # "OWNER"
    BY <1>1, <1>6, Nothing DEF AddGuardian, RemoveGuardian, GuardianRole
  <2>2. \A s \in Resource : Exists(s) => Exists(s)'
    BY <1>1, <2>1, NewVersionGrows DEF SetGuardian
  <2>3. \A s \in Resource, v \in User :
           guardian'[s][v] = IF s = r /\ v = u THEN ro ELSE guardian[s][v]
    BY <1>1, <2>1 DEF SetGuardian, PolicyTypeOK
  <2>4. UNCHANGED <<owner, member, home, drawn, field>>
    BY <2>1 DEF SetGuardian
  <2>5. RowsLast
    BY <2>1, <2>2, <2>3, <2>4 DEF RowsLast
  <2>6. PolicyTables'
    BY <1>1, <2>1, <2>2, <2>3, <2>4 DEF PolicyTables, IsLinked
  <2>7. QED
    BY <2>5, <2>6
<1>7. QED
  BY <1>2, <1>3, <1>4, <1>5, <1>6 DEF PolicyStep

\* So does a step of a handler of secrets.
LEMMA CallStepLasts ==
    ASSUME SecretInv, Tables, NEW k \in Call, CallStep(k)
    PROVE  RowsLast /\ PolicyTables'
<1>1. SecretTypeOK /\ PolicyTables /\ RowIdAssumption
  BY RowIdAssumption DEF SecretInv, Tables, PolicyTables
<1>2. UNCHANGED <<owner, member, home, guardian>>
  BY DEF CallStep, Ask, Decide, DecideAgain, Look, Throw, CommitCreate, CommitDelete,
         CommitPut, policyVars
<1>s. call[k].pc = "looked" => call[k].resource \in Resource
  BY DEF SecretInv, CallsAreSound, IsSound
<1>3. \A s \in Resource : Exists(s) => Exists(s)'
  <2>1. \A r \in Resource : NewVersion(r) => \A s \in Resource : Exists(s) => Exists(s)'
    BY <1>1, NewVersionGrows
  <2>2. UNCHANGED version \/ (call[k].pc = "looked" /\ NewVersion(call[k].resource))
    BY DEF CallStep, Ask, Decide, DecideAgain, Look, Throw, CommitCreate, CommitDelete,
           CommitPut
  <2>3. QED
    BY <1>s, <2>1, <2>2 DEF Exists
<1>4. /\ drawn \subseteq drawn'
      /\ \A r \in Resource, n \in Name :
            field'[r][n].id = field[r][n].id \/ field'[r][n].id \notin drawn
  <2>1. CASE UNCHANGED <<field, drawn>>
    BY <2>1
  <2>2. ASSUME NEW i \in RowId, CommitCreate(k, i)
        PROVE  <1>4!:
    BY <1>1, <1>s, <2>2 DEF CommitCreate, SecretTypeOK, Stored
  <2>3. CASE CommitDelete(k)
    <3>1. UNCHANGED drawn /\ None \notin drawn
      BY <1>1, <2>3 DEF CommitDelete, SecretTypeOK
    <3>2. CASE UNCHANGED field
      BY <3>1, <3>2
    <3>3. CASE field' = [field EXCEPT ![call[k].resource][call[k].name] = NoRow]
      BY <1>1, <3>1, <3>3 DEF SecretTypeOK, NoRow
    <3>4. QED
      BY <2>3, <3>2, <3>3 DEF CommitDelete
  <2>4. ASSUME NEW new \in SUBSET Name, NEW ids \in [new -> RowId], CommitPut(k, ids)
        PROVE  <1>4!:
    <3> DEFINE r == call[k].resource
               names == {call[k].name} \cup call[k].rest
               fresh == {n \in names : ~IsStored(r, n)}
    <3>1. /\ ids \in [fresh -> RowId \ drawn]
          /\ field' = [field EXCEPT ![r] = [n \in Name |->
                          IF n \in fresh THEN Stored(k, ids[n])
                          ELSE IF n \in names THEN Stored(k, @[n].id)
                          ELSE @[n]]]
          /\ drawn \subseteq drawn' /\ r \in Resource
      BY <2>4, <1>s DEF CommitPut
    <3> HIDE DEF r, names, fresh
    <3>2. \A s \in Resource, n \in Name :
             \/ field'[s][n] = field[s][n]
             \/ s = r /\ n \in fresh /\ field'[s][n] = Stored(k, ids[n])
             \/ s = r /\ field'[s][n] = Stored(k, field[s][n].id)
      BY <1>1, <3>1 DEF SecretTypeOK
    <3>3. \A n \in fresh : Stored(k, ids[n]).id \notin drawn
      BY <3>1 DEF Stored
    <3>4. \A s, n : Stored(k, field[s][n].id).id = field[s][n].id
      BY DEF Stored
    <3>5. QED
      BY <3>1, <3>2, <3>3, <3>4
  <2>5. QED
    BY <2>1, <2>2, <2>3, <2>4
    DEF CallStep, Ask, Decide, DecideAgain, Look, Throw
<1>5. PolicyTables'
  BY <1>1, <1>2, <1>3 DEF PolicyTables, IsLinked
<1>6. QED
  BY <1>2, <1>3, <1>4, <1>5 DEF RowsLast

\* The rows and requests after any step of the others.
LEMMA OthersLast ==
    ASSUME SecretInv, Tables, Others
    PROVE  SecretInv' /\ Tables' /\ RowsLast /\ RequestsLast /\ QueryAfterChange
<1>1. CASE SecretNext /\ UNCHANGED request /\ QueryAfterChange
  <2>1. SecretInv' /\ RowsLast /\ PolicyTables'
    BY <1>1, BotKeeps, PolicyStepLasts, CallStepLasts DEF SecretNext
  <2>2. \A q \in RequestId : Made(q) => request[q].resource \in Resource
    BY DEF Tables, Made, RequestRow
  <2>3. Tables'
    BY <1>1, <2>1, <2>2 DEF Tables, PolicyTables, RowsLast, Made
  <2>4. RequestsLast
    BY <1>1 DEF RequestsLast, Made
  <2>5. QED
    BY <1>1, <2>1, <2>3, <2>4
<1>u. UNCHANGED secretVars => SecretInv' /\ RowsLast /\ PolicyTables'
  <2> SUFFICES ASSUME UNCHANGED secretVars PROVE SecretInv' /\ RowsLast /\ PolicyTables'
    OBVIOUS
  <2>1. SecretInv'
    BY SecretsStutter
  <2>2. UNCHANGED <<owner, member, home, guardian, version, field, drawn>>
    BY DEF secretVars, policyVars
  <2>3. QED
    BY <2>1, <2>2 DEF RowsLast, PolicyTables, Tables, Exists, IsLinked
<1>2. ASSUME NEW q \in RequestId, EndRequest(q)
      PROVE  SecretInv' /\ Tables' /\ RowsLast /\ RequestsLast /\ QueryAfterChange
  <2>1. /\ request' = [request EXCEPT ![q].pending = FALSE]
        /\ UNCHANGED secretVars /\ QueryAfterChange /\ request[q].pending
    BY <1>2 DEF EndRequest
  <2>2. Made(q) /\ request[q] \in RequestRow
    BY <2>1 DEF Tables, Made, NoRequest
  <2>3. UNCHANGED version
    BY <2>1 DEF secretVars
  <2> DEFINE row == [request[q] EXCEPT !.pending = FALSE]
  <2>4. /\ row \in RequestRow /\ row # NoRequest
        /\ row.resource = request[q].resource /\ row.requester = request[q].requester
        /\ row.action = request[q].action /\ row.key = request[q].key
        /\ row.version = request[q].version /\ row.pending = FALSE
    BY <2>2, Nothing DEF RequestRow, NoRequest
  <2>5. request' = [request EXCEPT ![q] = row]
    BY <2>1 DEF Tables
  <2> HIDE DEF row
  <2>6. RequestsLast
    BY <2>2, <2>4, <2>5 DEF RequestsLast, Made, Tables
  <2>7. Tables'
    <3>1. request' \in [RequestId -> RequestRow \cup {NoRequest}]
      BY <2>4, <2>5 DEF Tables
    <3>2. \A o \in RequestId : (Made(o) => Exists(request[o].resource))'
      BY <2>2, <2>3, <2>4, <2>5 DEF Tables, Made, Exists
    <3>3. QED
      BY <1>u, <2>1, <3>1, <3>2 DEF Tables, PolicyTables
  <2>8. QED
    BY <1>u, <2>1, <2>6, <2>7
<1>3. ASSUME NEW q \in RequestId, NEW r \in Resource, NEW u \in User,
             NEW action \in RequestAction, NEW key \in Name \cup {None},
             CreateRequest(q, r, u, action, key)
      PROVE  SecretInv' /\ Tables' /\ RowsLast /\ RequestsLast /\ QueryAfterChange
  <2>1. PICK v \in Nat :
          request' = [request EXCEPT ![q] = [resource |-> r, requester |-> u,
                         action |-> action, key |-> key, version |-> v, pending |-> TRUE]]
    <3>1. version[r] \in Nat
      BY DEF SecretInv, SecretTypeOK
    <3>2. key # None => TargetVersion(r, key) \in Nat
      BY DEF SecretInv, SecretTypeOK, TargetVersion, Row, NoRow
    <3>3. QED
      BY <1>3, <3>1, <3>2 DEF CreateRequest
  <2>2. ~Made(q) /\ UNCHANGED secretVars /\ QueryAfterChange /\ Exists(r)
    BY <1>3 DEF CreateRequest
  <2>3. UNCHANGED version
    BY <2>2 DEF secretVars
  <2> DEFINE row == [resource |-> r, requester |-> u, action |-> action, key |-> key,
                     version |-> v, pending |-> TRUE]
  <2>4. row \in RequestRow /\ row.resource = r
    BY DEF RequestRow
  <2> HIDE DEF row
  <2>5. request' = [request EXCEPT ![q] = row]
    BY <2>1 DEF row
  <2>6. RequestsLast
    BY <2>2, <2>5 DEF RequestsLast, Made, Tables
  <2>7. Tables'
    <3>1. request' \in [RequestId -> RequestRow \cup {NoRequest}]
      BY <2>4, <2>5 DEF Tables
    <3>2. \A o \in RequestId : (Made(o) => Exists(request[o].resource))'
      BY <2>2, <2>3, <2>4, <2>5 DEF Tables, Made, Exists
    <3>3. QED
      BY <1>u, <2>2, <3>1, <3>2 DEF Tables, PolicyTables
  <2>8. QED
    BY <1>u, <2>2, <2>6, <2>7
<1>4. QED
  BY <1>1, <1>2, <1>3 DEF Others

-------------------------------------------------------------------------------
(* The lists: what the client was shown stays shown                          *)

\* A record of a list other than that of the secrets stays in it.
LEMMA RecordsLast ==
    ASSUME Tables, RowsLast, RequestsLast, NEW kind \in Kind \ {"SECRET"},
           NEW x \in Everything(kind)
    PROVE  x \in Everything(kind)'
<1>1. CASE kind = "PROJECT"
  <2>1. PICK p \in Project : owner[p] # None /\ x = ProjectRecord(p)
    BY <1>1 DEF Everything
  <2>2. owner'[p] # None /\ x = ProjectRecord(p)'
    BY <2>1 DEF RowsLast, ProjectRecord, RecordOf
  <2>3. QED
    BY <1>1, <2>2 DEF Everything
<1>2. CASE kind = "ENVIRONMENT"
  <2>1. PICK r \in Resource : IsLinked(r) /\ x = EnvironmentRecord(r)
    BY <1>2 DEF Everything
  <2>2. home'[r] = home[r]
    BY <2>1 DEF RowsLast, Tables
  <2>3. IsLinked(r)' /\ x = EnvironmentRecord(r)'
    BY <2>1, <2>2 DEF EnvironmentRecord, RecordOf, IsLinked
  <2>4. QED
    BY <1>2, <2>3 DEF Everything
<1>3. CASE kind = "RESOURCE"
  <2>1. PICK r \in Resource : Exists(r) /\
           \E q \in {None} \cup {o \in RequestId : Made(o) /\ request[o].resource = r} :
              x = ResourceRecord(r, q)
    BY <1>3 DEF Everything
  <2>a. PICK q \in {None} \cup {o \in RequestId : Made(o) /\ request[o].resource = r} :
          x = ResourceRecord(r, q)
    BY <2>1
  <2>2. /\ Exists(r)' /\ home'[r] = home[r]
        /\ q \in {None} \cup {o \in RequestId : Made(o)' /\ request'[o].resource = r}
    BY <2>1 DEF RowsLast, RequestsLast
  <2>3. x = ResourceRecord(r, q)'
    BY <2>a, <2>2 DEF ResourceRecord, RecordOf
  <2>4. QED
    BY <1>3, <2>2, <2>3 DEF Everything
<1>4. CASE kind = "APPROVAL_REQUEST"
  <2>1. PICK q \in RequestId : Made(q) /\ x = RequestRecord(q)
    BY <1>4 DEF Everything
  <2>2. request[q].resource \in Resource /\ Exists(request[q].resource)
    BY <2>1 DEF Tables, Made, RequestRow
  <2>3. home'[request[q].resource] = home[request[q].resource]
    BY <2>2 DEF RowsLast
  <2>4. /\ Made(q)' /\ request'[q].resource = request[q].resource
        /\ request'[q].key = request[q].key /\ request'[q].version = request[q].version
    BY <2>1 DEF RequestsLast
  <2>5. x = RequestRecord(q)'
    BY <2>1, <2>3, <2>4 DEF RequestRecord, RecordOf
  <2>6. QED
    BY <1>4, <2>4, <2>5 DEF Everything
<1>5. QED
  BY <1>1, <1>2, <1>3, <1>4 DEF Kind

\* So does what is known of a candidate, and whatever was shown.
LEMMA ShownLasts ==
    ASSUME SecretInv, Tables, RowsLast, RequestsLast, query'.kind = query.kind,
           query.seen \subseteq query'.seen, query.kind \in Kind
    PROVE  /\ \A x : IsSecretCandidate(x) => IsSecretCandidate(x)'
           /\ \A x : IsCandidate(x) => IsCandidate(x)'
           /\ \A i : WasSeen(i) => WasSeen(i)'
<1>1. \A r \in Resource, n \in Name : \A i \in drawn :
         field'[r][n].id = i => field[r][n].id = i
  BY DEF RowsLast
<1>2. \A i : Gone(i) => Gone(i)'
  BY <1>1 DEF Gone, RowsLast
<1>3. \A x : IsSecretCandidate(x) => IsSecretCandidate(x)'
  <2> SUFFICES ASSUME NEW x, IsSecretCandidate(x) PROVE IsSecretCandidate(x)'
    OBVIOUS
  <2>1. /\ x.resource \in Resource /\ x.name \in Name /\ Exists(x.resource)
        /\ x.project = home[x.resource] /\ x.id \in drawn /\ x.at = <<Rank[x.name], x.id>>
        /\ x.by # None =>
              x.by \in RequestId /\ Made(x.by) /\ AsksFor(x.by, x.resource, x.name)
    BY DEF IsSecretCandidate
  <2>2. /\ Exists(x.resource)' /\ home'[x.resource] = home[x.resource] /\ x.id \in drawn'
        /\ x.by # None => Made(x.by)' /\ AsksFor(x.by, x.resource, x.name)'
    BY <2>1 DEF RowsLast, RequestsLast, AsksFor
  <2>3. \A s \in Resource, m \in Name :
           field'[s][m].id = x.id => s = x.resource /\ m = x.name
    BY <1>1, <2>1 DEF IsSecretCandidate
  <2>4. QED
    BY <2>1, <2>2, <2>3 DEF IsSecretCandidate
<1>4. QED
  BY <1>2, <1>3, RecordsLast DEF IsCandidate, WasSeen

-------------------------------------------------------------------------------
(* The lists: what a walk keeps                                              *)

\* Where i may stand in the order of a list: the place of its record, or for the
\* id of a secret that is gone, any place with the id.
IsPlace(kind, i, a) ==
    /\ a \in Place
    /\ IF kind = "SECRET"
       THEN /\ i \in drawn /\ a[2] = i
            /\ \A r \in Resource, n \in Name : field[r][n].id = i => a[1] = Rank[n]
       ELSE a = <<IF kind = "APPROVAL_REQUEST" THEN i ELSE Rank[i], 0>>

IsAhead(a) == query.cursor = None \/ Precedes(query.cursor, a)
IsPassed(a) == query.cursor \in Place /\ ~Precedes(query.cursor, a)

\* The candidate is shown on the ground of what was promised: by the same request,
\* by rows that ask for none, or as the reader's own request.
IsOwnRequest(x) == AsRequester(query.kind, x, query.principal.subject)
Carries(x, g) ==
    \/ x.by = g[3]
    \/ g[2] = "project"
    \/ /\ g[2] = "guardian"
       /\ query.kind # "SECRET" \/ guardian[x.resource][query.principal.subject] = "OWNER"
    \/ IsOwnRequest(x)

\* A promised record is listed or on its way to the page, found by what carries
\* its ground, or ahead of the cursor.
IsKept(g) ==
    \/ g[1] \in query.listed
    \/ \E x \in query.found : x.id = g[1]
    \/ \E x \in query.batch : x.id = g[1] /\ Carries(x, g)
    \/ /\ query.pc \in Reading \cup {"paged"} \/ ~query.short
       /\ \E a \in Place : IsPlace(query.kind, g[1], a) /\ IsAhead(a)

\* What the reads of a batch have found of it, each read the rows of its way.
ResourceIsFound(g) ==
    /\ query.pc \in {"guardians", "fetch"} /\ g[2] = "project" => g[1] \in query.within
    /\ query.pc = "fetch" /\ g[2] = "guardian" => g[1] \in query.queued

SecretIsFound(g) ==
    /\ query.pc = "secrets" /\ g[2] = "project" =>
          \A r \in Resource, n \in Name : field[r][n].id = g[1] => r \in query.within
    /\ /\ query.pc \in {"own", "guardians", "fetch"}
       /\ g[2] = "project" \/ (g[2] = "guardian" /\ g[3] = None)
       => \E b \in query.broad : b.id = g[1]
    /\ query.pc \in {"guardians", "fetch"} /\ g[2] = "request" => g[3] \in query.own
    /\ query.pc = "fetch" /\ g[2] = "guardian" /\ g[3] # None =>
          request[g[3]].resource \in query.queued
    /\ query.pc = "fetch" /\ g[2] = "request" => request[g[3]].resource \notin query.queued

RequestIsFound(g) ==
    /\ query.pc \in {"guardians", "fetch"} /\ g[2] = "request" => g[3] \in query.own
    /\ query.pc = "fetch" /\ g[2] # "request" => request[g[3]].resource \in query.queued

FoundSoFar(g) ==
    /\ query.kind = "RESOURCE" => ResourceIsFound(g)
    /\ query.kind = "SECRET" => SecretIsFound(g)
    /\ query.kind = "APPROVAL_REQUEST" => RequestIsFound(g)

\* What the policy has left to the guardian row.
LeftToGuardian(x) ==
    /\ ~IsOwnRequest(x)
    /\ IsPending(x.by) => query.pending
    /\ \A g \in query.steady : g[1] = x.id => g[2] # "project"

OnTheWay == query.found \cup query.batch

PagesAreOrdered ==
    /\ query.cursor \in Place \cup {None}
    /\ \A x \in OnTheWay :
          /\ IsPlace(query.kind, x.id, x.at) /\ IsPassed(x.at)
          /\ x.id \notin query.listed
    /\ \A i \in query.listed : \E a \in Place :
          /\ IsPlace(query.kind, i, a) /\ IsPassed(a)
          /\ \A x \in OnTheWay : Precedes(a, x.at)
          /\ \A x \in query.broad : x.id = i => x.at = a

PageInv ==
    query.pc \notin {"idle", "failed"} =>
        /\ query.steady \subseteq Promised(query.kind, query.principal)
        /\ IsFiniteSet(query.found) /\ IsFiniteSet(query.batch) /\ IsFiniteSet(query.listed)
        /\ IsFiniteSet(query.broad)
        /\ query.count = Cardinality(query.listed)
        /\ query.pc = "paged" => query.found = {}
        /\ \A g \in query.steady : FoundSoFar(g)
        /\ query.pc = "guardian" => \A x \in query.batch : IsFirst(x) => LeftToGuardian(x)
        /\ IF query.pc = "done" THEN \A g \in query.steady : g[1] \in query.listed
           ELSE PagesAreOrdered /\ \A g \in query.steady : IsKept(g)

-------------------------------------------------------------------------------
(* The lists: records in their order                                         *)

\* Records that have a place.
ArePlaced(S) == \A x \in S : x.at \in Place

\* compareTuple is a strict total order of places.
LEMMA PlacesAreOrdered ==
    /\ \A a \in Place : ~Precedes(a, a)
    /\ \A a, b \in Place : a = b \/ Precedes(a, b) \/ Precedes(b, a)
    /\ \A a, b \in Place : ~(Precedes(a, b) /\ Precedes(b, a))
    /\ \A a, b, c \in Place : Precedes(a, b) /\ Precedes(b, c) => Precedes(a, c)
    /\ \A a, b, c \in Place : ~Precedes(a, b) /\ Precedes(a, c) => Precedes(b, c)
    /\ \A a, b, c \in Place : Precedes(a, b) /\ ~Precedes(c, b) => Precedes(a, c)
  BY DEF Place, Precedes

\* Of finitely many records one is the first.
LEMMA SomeIsFirst ==
    ASSUME NEW S, IsFiniteSet(S), S # {}, ArePlaced(S)
    PROVE  \E x \in S : \A y \in S : ~Precedes(y.at, x.at)
<1> DEFINE HasFirst(U) == \E x \in U : \A y \in U : ~Precedes(y.at, x.at)
           Bad == {U \in SUBSET S : U # {} /\ ~HasFirst(U)}
<1> SUFFICES ASSUME Bad # {} PROVE FALSE
  OBVIOUS
<1>1. PICK U \in Bad : \A V \in Bad : <<V, U>> \notin StrictSubsetOrdering(S)
  <2>1. Bad \subseteq SUBSET S
    OBVIOUS
  <2> HIDE DEF Bad
  <2>2. FiniteSubsetsOf(S) = SUBSET S
    BY FS_FiniteSubsetsOfFinite
  <2>3. IsWellFoundedOn(StrictSubsetOrdering(S), SUBSET S)
    BY <2>2, FS_StrictSubsetOrderingWellFounded
  <2>4. QED
    BY <2>1, <2>3, WFMin
<1>2. PICK x \in U : TRUE
  BY <1>1
<1> DEFINE V == {y \in U : Precedes(y.at, x.at)}
<1>3. \A y \in U : y.at \in Place
  BY DEF ArePlaced
<1>4. x \notin V /\ V \in SUBSET U
  BY <1>2, <1>3, PlacesAreOrdered
<1>5. V \notin Bad
  <2>1. <<V, U>> \in StrictSubsetOrdering(S)
    BY <1>2, <1>4 DEF StrictSubsetOrdering
  <2>2. QED
    BY <1>1, <2>1
<1>6. V # {}
  BY <1>2
<1>7. PICK m \in V : \A y \in V : ~Precedes(y.at, m.at)
  BY <1>4, <1>5, <1>6
<1>8. ASSUME NEW y \in U, Precedes(y.at, m.at) PROVE FALSE
  <2>1. Precedes(y.at, x.at)
    BY <1>2, <1>3, <1>7, <1>8, PlacesAreOrdered
  <2>2. QED
    BY <1>7, <1>8, <2>1
<1>9. QED
  BY <1>7, <1>8

\* And one is the last.
LEMMA SomeIsLast ==
    ASSUME NEW S, IsFiniteSet(S), S # {}, ArePlaced(S)
    PROVE  \E x \in S : \A y \in S : ~Precedes(x.at, y.at)
<1> DEFINE HasLast(U) == \E x \in U : \A y \in U : ~Precedes(x.at, y.at)
           Bad == {U \in SUBSET S : U # {} /\ ~HasLast(U)}
<1> SUFFICES ASSUME Bad # {} PROVE FALSE
  OBVIOUS
<1>1. PICK U \in Bad : \A V \in Bad : <<V, U>> \notin StrictSubsetOrdering(S)
  <2>1. Bad \subseteq SUBSET S
    OBVIOUS
  <2> HIDE DEF Bad
  <2>2. FiniteSubsetsOf(S) = SUBSET S
    BY FS_FiniteSubsetsOfFinite
  <2>3. IsWellFoundedOn(StrictSubsetOrdering(S), SUBSET S)
    BY <2>2, FS_StrictSubsetOrderingWellFounded
  <2>4. QED
    BY <2>1, <2>3, WFMin
<1>2. PICK x \in U : TRUE
  BY <1>1
<1> DEFINE V == {y \in U : Precedes(x.at, y.at)}
<1>3. \A y \in U : y.at \in Place
  BY DEF ArePlaced
<1>4. x \notin V /\ V \in SUBSET U
  BY <1>2, <1>3, PlacesAreOrdered
<1>5. V \notin Bad
  <2>1. <<V, U>> \in StrictSubsetOrdering(S)
    BY <1>2, <1>4 DEF StrictSubsetOrdering
  <2>2. QED
    BY <1>1, <2>1
<1>6. V # {}
  BY <1>2
<1>7. PICK m \in V : \A y \in V : ~Precedes(m.at, y.at)
  BY <1>4, <1>5, <1>6
<1>8. ASSUME NEW y \in U, Precedes(m.at, y.at) PROVE FALSE
  <2>1. Precedes(x.at, y.at)
    BY <1>2, <1>3, <1>7, <1>8, PlacesAreOrdered
  <2>2. QED
    BY <1>7, <1>8, <2>1
<1>9. QED
  BY <1>7, <1>8

\* Last chooses a record that none comes after.
LEMMA LastIsLast ==
    ASSUME NEW S, IsFiniteSet(S), S # {}, ArePlaced(S)
    PROVE  /\ Last(S) \in S /\ Last(S).at \in Place
           /\ \A y \in S : ~Precedes(Last(S).at, y.at)
  BY SomeIsLast DEF Last, ArePlaced

\* What First takes of records, and what it leaves behind them.
LEMMA FirstComeFirst ==
    ASSUME NEW S, IsFiniteSet(S), ArePlaced(S), NEW k \in Nat \ {0}
    PROVE  /\ First(S, k) \subseteq S /\ IsFiniteSet(First(S, k))
           /\ \A x \in S \ First(S, k), y \in First(S, k) : Precedes(y.at, x.at)
           /\ S # {} => First(S, k) # {}
           /\ Cardinality(First(S, k)) < k => First(S, k) = S
           /\ Cardinality(S) <= k => First(S, k) = S
<1> DEFINE before(x) == {y \in S : Precedes(y.at, x.at)}
<1>1. \A x \in S : x.at \in Place
  BY DEF ArePlaced
<1>2. First(S, k) = {x \in S : Cardinality(before(x)) < k}
  BY DEF First
<1>3. \A x \in S : IsFiniteSet(before(x)) /\ Cardinality(before(x)) \in Nat
  BY FS_Subset, FS_CardinalityType
<1>4. First(S, k) \subseteq S /\ IsFiniteSet(First(S, k))
  BY <1>2, FS_Subset
<1>5. ASSUME NEW x \in S \ First(S, k), NEW y \in First(S, k), ~Precedes(y.at, x.at)
      PROVE  FALSE
  <2>1. before(x) \in SUBSET before(y)
    BY <1>1, <1>4, <1>5, PlacesAreOrdered
  <2>2. Cardinality(before(x)) <= Cardinality(before(y))
    BY <1>3, <1>4, <2>1, FS_Subset
  <2>3. Cardinality(before(y)) < k /\ ~(Cardinality(before(x)) < k) /\ y \in S /\ x \in S
    BY <1>2
  <2> HIDE DEF before
  <2>4. QED
    BY <1>3, <2>2, <2>3
<1>6. ASSUME NEW T \in SUBSET S, T # {}, T \cap First(S, k) = {}
      PROVE  \E x \in T : before(x) \in SUBSET (S \ T) /\ ~(Cardinality(before(x)) < k)
  <2>1. IsFiniteSet(T) /\ ArePlaced(T)
    BY FS_Subset DEF ArePlaced
  <2>2. PICK x \in T : \A y \in T : ~Precedes(y.at, x.at)
    BY <1>6, <2>1, SomeIsFirst
  <2>3. QED
    BY <1>2, <1>6, <2>2
<1>7. Cardinality(First(S, k)) < k => First(S, k) = S
  <2> SUFFICES ASSUME First(S, k) # S, Cardinality(First(S, k)) < k PROVE FALSE
    OBVIOUS
  <2> DEFINE T == S \ First(S, k)
  <2>a. T \in SUBSET S /\ T # {} /\ T \cap First(S, k) = {} /\ S \ T \subseteq First(S, k)
    BY <1>4
  <2> HIDE DEF T
  <2>1. PICK x \in T : before(x) \in SUBSET (S \ T) /\ ~(Cardinality(before(x)) < k)
    BY <1>6, <2>a
  <2>2. before(x) \in SUBSET First(S, k) /\ x \in S
    BY <2>1, <2>a
  <2>3. Cardinality(before(x)) <= Cardinality(First(S, k))
    BY <1>4, <2>2, FS_Subset
  <2>4. Cardinality(First(S, k)) \in Nat /\ Cardinality(before(x)) \in Nat
    BY <1>3, <1>4, <2>2, FS_CardinalityType
  <2> HIDE DEF before
  <2>5. QED
    BY <2>1, <2>3, <2>4
<1>8. S # {} => First(S, k) # {}
  <2>1. First(S, k) = {} => Cardinality(First(S, k)) < k
    BY FS_EmptySet
  <2>2. QED
    BY <1>7, <2>1
<1>9. Cardinality(S) <= k => First(S, k) = S
  <2> SUFFICES ASSUME Cardinality(S) <= k, NEW x \in S PROVE x \in First(S, k)
    BY <1>4
  <2>1. x \notin before(x)
    BY <1>1, PlacesAreOrdered
  <2>2. before(x) \in SUBSET (S \ {x})
    BY <2>1
  <2>3. /\ IsFiniteSet(S \ {x}) /\ Cardinality(S \ {x}) = Cardinality(S) - 1
        /\ Cardinality(S) \in Nat
    BY FS_RemoveElement, FS_CardinalityType
  <2>4. Cardinality(before(x)) <= Cardinality(S \ {x})
    BY <2>2, <2>3, FS_Subset
  <2>5. Cardinality(before(x)) < k
    <3> HIDE DEF before
    <3>1. QED
      BY <1>3, <2>3, <2>4
  <2>6. QED
    BY <1>2, <2>5
<1>10. QED
  BY <1>4, <1>5, <1>7, <1>8, <1>9

-------------------------------------------------------------------------------
(* The lists: what the records of a list are                                 *)

\* The fields of the records of each list.
LEMMA RecordFields ==
    /\ \A p : /\ ProjectRecord(p).id = p /\ ProjectRecord(p).at = <<Rank[p], 0>>
              /\ ProjectRecord(p).project = p /\ ProjectRecord(p).resource = None
              /\ ProjectRecord(p).by = None
    /\ \A r : /\ EnvironmentRecord(r).id = r /\ EnvironmentRecord(r).at = <<Rank[r], 0>>
              /\ EnvironmentRecord(r).by = None /\ EnvironmentRecord(r).resource = r
              /\ r # None => EnvironmentRecord(r).project = home[r]
    /\ \A r, q : /\ ResourceRecord(r, q).id = r /\ ResourceRecord(r, q).at = <<Rank[r], 0>>
                 /\ ResourceRecord(r, q).by = q /\ ResourceRecord(r, q).resource = r
                 /\ r # None => ResourceRecord(r, q).project = home[r]
    /\ \A r, n, q : SecretRecord(r, n, q).at = <<Rank[n], field[r][n].id>>
    /\ \A q : /\ RequestRecord(q).id = q /\ RequestRecord(q).at = <<q, 0>>
              /\ RequestRecord(q).by = q /\ RequestRecord(q).resource = request[q].resource
              /\ request[q].resource # None =>
                    RequestRecord(q).project = home[request[q].resource]
  BY DEF ProjectRecord, EnvironmentRecord, ResourceRecord, SecretRecord, RequestRecord, RecordOf

\* Whoever made a request exists, and so do it and its resource.
LEMMA RequestsExist ==
    ASSUME Tables
    PROVE  /\ \A q \in RequestId : Made(q) =>
                 request[q].resource \in Resource /\ Exists(request[q].resource)
           /\ \A u \in User : \A q \in RequestsBy(u) : q \in RequestId /\ Made(q)
           /\ \A S : \A q \in QueueOf(S) : q \in RequestId /\ Made(q)
<1>1. \A u \in User : \A q \in RequestsBy(u) : q \in RequestId /\ Made(q)
  BY Nothing DEF RequestsBy, Made, NoRequest
<1>2. \A S : \A q \in QueueOf(S) : q \in RequestId /\ Made(q)
  BY DEF QueueOf
<1>3. \A q \in RequestId : Made(q) => request[q].resource \in Resource
  BY DEF Tables, Made, RequestRow
<1>4. QED
  BY <1>1, <1>2, <1>3 DEF Tables

\* The newest of requests has the largest id.
LEMMA NewestIsLargest ==
    ASSUME NEW ids \in SUBSET RequestId, ids # {}
    PROVE  /\ Newest(ids) \in ids
           /\ \A q \in ids : q <= Newest(ids)
<1>1. ids \in SUBSET Nat /\ IsFiniteSet(ids)
  BY RequestIdAssumption, FS_Subset
<1>2. \E m \in ids : \A x \in ids : m >= x
  BY <1>1, LargestNatural
<1>3. PICK m : m = Newest(ids)
  OBVIOUS
<1>4. m \in ids /\ \A x \in ids : m >= x
  BY <1>2, <1>3 DEF Newest, Max
<1>5. QED
  BY <1>1, <1>3, <1>4

\* A record has one place in the list, and a row one record but for the request
\* it was found by.
LEMMA ListedHaveOnePlace ==
    ASSUME SecretInv, Tables, NEW kind \in Kind, NEW e \in Everything(kind)
    PROVE  /\ IsPlace(kind, e.id, e.at)
           /\ \A a : IsPlace(kind, e.id, a) => a = e.at
<1>1. SecretTypeOK /\ IdsAreOwn
  BY DEF SecretInv
<1>2. \A x \in Project \cup Resource \cup Name : Rank[x] \in Nat
  BY RankAssumption
<1>3. CASE kind \in {"PROJECT", "ENVIRONMENT", "RESOURCE"}
  <2>1. e.at = <<Rank[e.id], 0>> /\ e.id \in Project \cup Resource
    BY <1>3, RecordFields DEF Everything
  <2>2. QED
    BY <1>2, <1>3, <2>1 DEF IsPlace, Place
<1>4. CASE kind = "APPROVAL_REQUEST"
  <2>1. e.at = <<e.id, 0>> /\ e.id \in RequestId
    BY <1>4, RecordFields DEF Everything
  <2>2. \A a : IsPlace(kind, e.id, a) <=> a \in Place /\ a = <<e.id, 0>>
    BY <1>4 DEF IsPlace
  <2>3. e.id \in Nat
    BY <2>1, RequestIdAssumption
  <2>4. e.at \in Place
    BY <2>1, <2>3 DEF Place
  <2>5. QED
    BY <2>1, <2>2, <2>4
<1>5. CASE kind = "SECRET"
  <2>1. PICK r \in Resource, n \in Name : IsStored(r, n) /\ \E q : e = SecretRecord(r, n, q)
    BY <1>5 DEF Everything
  <2>2. e.id = field[r][n].id /\ e.at = <<Rank[n], e.id>>
    BY <2>1, SecretFields, RecordFields
  <2>3. e.id \in drawn /\ e.id \in Nat
    BY <1>1, <2>1, <2>2, RowIdAssumption DEF IdsAreOwn, SecretTypeOK
  <2>4. \A s \in Resource, m \in Name : field[s][m].id = e.id => s = r /\ m = n
    BY <1>1, <2>1, <2>2 DEF IdsAreOwn
  <2>5. e.at \in Place
    BY <1>2, <2>2, <2>3 DEF Place
  <2>6. IsPlace(kind, e.id, e.at)
    BY <1>5, <2>2, <2>3, <2>4, <2>5 DEF IsPlace
  <2>7. ASSUME NEW a, IsPlace(kind, e.id, a) PROVE a = e.at
    <3>1. a \in Place /\ a[2] = e.id /\ a[1] = Rank[n]
      BY <1>5, <2>2, <2>7 DEF IsPlace
    <3>2. QED
      BY <2>2, <3>1 DEF Place
  <2>8. QED
    BY <2>6, <2>7
<1>6. QED
  BY <1>3, <1>4, <1>5 DEF Kind

\* The image of a finite set is finite, the functions being those that make records.
LEMMA ImageIsFinite ==
    ASSUME NEW S, IsFiniteSet(S), NEW f, DOMAIN f = S
    PROVE  IsFiniteSet({f[x] : x \in S})
<1> DEFINE T == {f[x] : x \in S}
           g == [x \in S |-> f[x]]
<1>1. g \in Surjection(S, T)
  BY DEF Surjection
<1>2. QED
  BY <1>1, FS_Surjection

\* A record that is somewhere in the list stays there.
LEMMA PlacesLast ==
    ASSUME RowsLast, NEW kind, NEW i, NEW a, IsPlace(kind, i, a)
    PROVE  IsPlace(kind, i, a)'
<1>1. CASE kind = "SECRET"
  <2>1. i \in drawn /\ i \in drawn'
    BY <1>1 DEF IsPlace, RowsLast
  <2>2. \A r \in Resource, n \in Name : field'[r][n].id = i => field[r][n].id = i
    BY <2>1 DEF RowsLast
  <2>3. QED
    BY <1>1, <2>1, <2>2 DEF IsPlace
<1>2. CASE kind # "SECRET"
  BY <1>2 DEF IsPlace
<1>3. QED
  BY <1>1, <1>2

-------------------------------------------------------------------------------
(* The lists: candidates are records of the list                             *)

\* The record of a secret that is stored is a sound candidate.
LEMMA StoredIsCandidate ==
    ASSUME SecretInv, Tables, NEW r \in Resource, NEW n \in Name, IsStored(r, n),
           NEW q \in {None} \cup {o \in RequestId : Made(o) /\ AsksFor(o, r, n)}
    PROVE  IsSecretCandidate(SecretRecord(r, n, q))
<1>1. IdsAreOwn /\ SecretTypeOK
  BY DEF SecretInv
<1>2. Exists(r)
  <2>1. version[r] \in Nat /\ field[r][n].version \in 1..version[r]
    BY DEF SecretInv, RowsAreVersioned, SecretTypeOK
  <2>2. QED
    BY <2>1 DEF Exists
<1>3. PICK x : x = SecretRecord(r, n, q)
  OBVIOUS
<1>4. /\ x.id = field[r][n].id /\ x.at = <<Rank[n], x.id>> /\ x.resource = r
      /\ x.name = n /\ x.by = q /\ x.project = home[r]
  BY <1>3, SecretFields, Nothing
<1>5. /\ x.id \in drawn
      /\ \A s \in Resource, m \in Name : field[s][m].id = x.id => s = r /\ m = n
  BY <1>1, <1>4 DEF IdsAreOwn
<1>6. QED
  BY <1>2, <1>3, <1>4, <1>5 DEF IsSecretCandidate

\* Without a request a secret is listed by none, otherwise by one that asks for it.
LEMMA RequestForSecretAsks ==
    ASSUME NEW own \in SUBSET RequestId, NEW queue \in SUBSET RequestId, NEW r, NEW n
    PROVE  \/ RequestForSecret(own, queue, r, n) = None
           \/ /\ RequestForSecret(own, queue, r, n) \in own \cup queue
              /\ IsFor(RequestForSecret(own, queue, r, n), r, n)
<1> DEFINE asking == {q \in own \cup queue : IsFor(q, r, n)}
<1>1. asking \in SUBSET RequestId /\ asking \ own \in SUBSET RequestId
  OBVIOUS
<1>2. /\ Newest(asking) = None \/ Newest(asking) \in asking
      /\ Newest(asking \ own) = None \/ Newest(asking \ own) \in asking \ own
  BY <1>1, NewestIsOne
<1>3. \/ RequestForSecret(own, queue, r, n) = Newest(asking)
      \/ RequestForSecret(own, queue, r, n) = Newest(asking \ own)
  BY DEF RequestForSecret
<1>4. QED
  BY <1>2, <1>3

\* What is found by requests is stored, and listed by the last of them.
LEMMA RequestedAreListed ==
    ASSUME Tables, NEW u \in User, NEW own \in SUBSET RequestsBy(u), NEW S,
           NEW x \in RequestedSecrets(own, QueueOf(S))
    PROVE  \E r \in Resource, n \in Name :
              /\ IsStored(r, n)
              /\ \E q \in {None} \cup {o \in RequestId : Made(o) /\ AsksFor(o, r, n)} :
                    /\ x = SecretRecord(r, n, q)
                    /\ q = RequestForSecret(own, QueueOf(S), r, n)
<1> DEFINE queue == QueueOf(S)
<1>1. /\ own \in SUBSET RequestId /\ queue \in SUBSET RequestId
      /\ \A q \in own \cup queue : Made(q)
  BY RequestsExist
<1> HIDE DEF queue
<1>2. PICK f \in Resource \X Name :
        IsStored(f[1], f[2])
          /\ x = SecretRecord(f[1], f[2], RequestForSecret(own, queue, f[1], f[2]))
  BY DEF RequestedSecrets, queue
<1>3. PICK r \in Resource, n \in Name : r = f[1] /\ n = f[2]
  BY <1>2
<1>4. PICK q : q = RequestForSecret(own, queue, r, n)
  OBVIOUS
<1>5. q \in {None} \cup {o \in RequestId : Made(o) /\ AsksFor(o, r, n)}
  BY <1>1, <1>4, RequestForSecretAsks DEF IsFor
<1>6. QED
  BY <1>2, <1>3, <1>4, <1>5 DEF queue

\* What is read of a list is in it, but for what a read before has found.
LEMMA CandidatesAreListed ==
    ASSUME ListInv, query.pc = "fetch", NEW x \in Candidates(query)
    PROVE  \/ x \in Everything(query.kind)
           \/ query.kind = "SECRET" /\ x \in query.broad
<1> DEFINE u == query.principal.subject
<1>1. /\ SecretInv /\ Tables /\ query.kind \in Kind /\ query.principal = DiscordPrincipal(u)
      /\ u \in User /\ FoundIsSound
  BY ReaderAssumption DEF ListInv, QueryInv, WalkIsSound, DiscordPrincipal
<1>u. u = query.principal.subject
  OBVIOUS
<1> HIDE DEF u
<1>2. CASE query.kind = "PROJECT"
  <2>1. PICK p \in ProjectsOf(u) : x = ProjectRecord(p)
    BY <1>2, <1>u DEF Candidates
  <2>2. p \in Project /\ owner[p] # None
    BY <1>1, <2>1, Nothing DEF ProjectsOf, Tables
  <2>3. QED
    BY <1>2, <2>1, <2>2 DEF Everything
<1>3. CASE query.kind = "ENVIRONMENT"
  <2>1. PICK r \in EnvironmentsOf(u) : x = EnvironmentRecord(r)
    BY <1>3, <1>u DEF Candidates
  <2>2. QED
    BY <1>3, <2>1 DEF Everything, EnvironmentsOf
<1>4. CASE query.kind = "RESOURCE"
  <2>1. PICK r \in query.within \cup query.queued \cup {request[q].resource : q \in RequestsBy(u)} :
          x = ResourceRecord(r, RequestForResource(u, r))
    BY <1>4, <1>u DEF Candidates
  <2>2. r \in Resource /\ Exists(r)
    BY <1>1, <2>1, RequestsExist DEF FoundIsSound
  <2>3. RequestForResource(u, r) \in
          {None} \cup {q \in RequestId : Made(q) /\ request[q].resource = r}
    <3> DEFINE ids == {q \in RequestsBy(u) : request[q].resource = r}
    <3>1. ids \in SUBSET RequestId /\ \A q \in ids : Made(q) /\ request[q].resource = r
      BY <1>1, RequestsExist
    <3>2. Newest(ids) = None \/ Newest(ids) \in ids
      BY <3>1, NewestIsOne
    <3>3. QED
      BY <3>1, <3>2 DEF RequestForResource
  <2>4. QED
    BY <1>4, <2>1, <2>2, <2>3 DEF Everything
<1>5. CASE query.kind = "APPROVAL_REQUEST"
  <2>1. PICK q \in query.own \cup QueueOf(query.queued) : x = RequestRecord(q)
    BY <1>5 DEF Candidates
  <2>2. q \in RequestId /\ Made(q)
    BY <1>1, <1>u, <2>1, RequestsExist DEF FoundIsSound
  <2>3. QED
    BY <1>5, <2>1, <2>2 DEF Everything
<1>6. CASE query.kind = "SECRET"
  <2>1. x \in query.broad \/ x \in RequestedSecrets(query.own, QueueOf(query.queued))
    BY <1>6 DEF Candidates, Overridden
  <2>2. ASSUME x \in RequestedSecrets(query.own, QueueOf(query.queued))
        PROVE  x \in Everything("SECRET")
    BY <1>1, <1>u, <2>2, RequestedAreListed, StoredIsRecord DEF FoundIsSound
  <2>3. QED
    BY <1>6, <2>1, <2>2
<1>7. QED
  BY <1>1, <1>2, <1>3, <1>4, <1>5, <1>6 DEF Kind

\* What is stored, as a record of the list of secrets.
LEMMA ListedAreStored ==
    ASSUME NEW x \in Everything("SECRET")
    PROVE  \E r \in Resource, n \in Name :
              /\ IsStored(r, n)
              /\ \E q \in {None} \cup {o \in RequestId : Made(o) /\ AsksFor(o, r, n)} :
                    x = SecretRecord(r, n, q)
  BY DEF Everything

\* A candidate has its place, and no other while its row is there or it was read.
LEMMA CandidatesArePlaced ==
    ASSUME ListInv, query.pc = "fetch", NEW x \in Candidates(query)
    PROVE  /\ IsCandidate(x)
           /\ IsPlace(query.kind, x.id, x.at)
           /\ \/ \A a : IsPlace(query.kind, x.id, a) => a = x.at
              \/ x \in query.broad
<1>1. SecretInv /\ Tables /\ query.kind \in Kind /\ FoundIsSound
  BY DEF ListInv, QueryInv, WalkIsSound
<1>2. CASE x \in Everything(query.kind)
  <2>1. /\ IsPlace(query.kind, x.id, x.at)
        /\ \A a : IsPlace(query.kind, x.id, a) => a = x.at
    BY <1>1, <1>2, ListedHaveOnePlace
  <2>2. query.kind = "SECRET" => IsSecretCandidate(x)
    BY <1>1, <1>2, ListedAreStored, StoredIsCandidate
  <2>3. QED
    BY <1>2, <2>1, <2>2 DEF IsCandidate
<1>3. CASE query.kind = "SECRET" /\ x \in query.broad
  <2>1. IsSecretCandidate(x)
    BY <1>1, <1>3 DEF FoundIsSound
  <2>2. IsPlace("SECRET", x.id, x.at)
    <3>1. x.name \in Name /\ x.id \in drawn /\ x.at = <<Rank[x.name], x.id>>
      BY <2>1 DEF IsSecretCandidate
    <3>2. Rank[x.name] \in Nat /\ x.id \in Nat
      BY <1>1, <3>1, RankAssumption, RowIdAssumption DEF SecretInv, SecretTypeOK
    <3>3. x.at \in Place /\ x.at[1] = Rank[x.name] /\ x.at[2] = x.id
      BY <3>1, <3>2 DEF Place
    <3>4. \A r \in Resource, n \in Name : field[r][n].id = x.id => n = x.name
      BY <2>1 DEF IsSecretCandidate
    <3>5. QED
      BY <3>1, <3>3, <3>4 DEF IsPlace
  <2>3. QED
    BY <1>3, <2>1, <2>2 DEF IsCandidate
<1>4. QED
  BY <1>2, <1>3, CandidatesAreListed

\* They are finitely many.
LEMMA CandidatesAreFinite ==
    ASSUME ListInv, query.pc = "fetch", IsFiniteSet(query.broad)
    PROVE  IsFiniteSet(Candidates(query))
<1> DEFINE u == query.principal.subject
<1>1. /\ Tables /\ query.kind \in Kind /\ u \in User /\ FoundIsSound
  BY ReaderAssumption DEF ListInv, QueryInv, WalkIsSound, DiscordPrincipal
<1>2. CASE query.kind = "PROJECT"
  <2> DEFINE f == [p \in ProjectsOf(u) |-> ProjectRecord(p)]
  <2>1. IsFiniteSet(ProjectsOf(u))
    BY TablesAreFinite, FS_Subset DEF ProjectsOf
  <2>2. IsFiniteSet({f[p] : p \in ProjectsOf(u)})
    BY <2>1, ImageIsFinite
  <2>3. QED
    BY <1>2, <2>2 DEF Candidates
<1>3. CASE query.kind = "ENVIRONMENT"
  <2> DEFINE f == [r \in EnvironmentsOf(u) |-> EnvironmentRecord(r)]
  <2>1. IsFiniteSet(EnvironmentsOf(u))
    BY TablesAreFinite, FS_Subset DEF EnvironmentsOf
  <2>2. IsFiniteSet({f[r] : r \in EnvironmentsOf(u)})
    BY <2>1, ImageIsFinite
  <2>3. QED
    BY <1>3, <2>2 DEF Candidates
<1>4. CASE query.kind = "RESOURCE"
  <2> DEFINE S == query.within \cup query.queued \cup {request[q].resource : q \in RequestsBy(u)}
             f == [r \in S |-> ResourceRecord(r, RequestForResource(u, r))]
  <2>1. S \in SUBSET Resource
    BY <1>1, RequestsExist DEF FoundIsSound
  <2>2. IsFiniteSet(S)
    BY <2>1, TablesAreFinite, FS_Subset
  <2>3. Candidates(query) = {f[r] : r \in S} /\ DOMAIN f = S
    BY <1>4 DEF Candidates
  <2> HIDE DEF S, f
  <2>4. IsFiniteSet({f[r] : r \in S})
    BY <2>2, <2>3, ImageIsFinite
  <2>5. QED
    BY <2>3, <2>4
<1>5. CASE query.kind = "SECRET"
  <2> DEFINE queue == QueueOf(query.queued)
             S == {f \in Resource \X Name :
                     IsStored(f[1], f[2]) /\ \E q \in query.own \cup queue : IsFor(q, f[1], f[2])}
             f == [s \in S |-> SecretRecord(s[1], s[2], RequestForSecret(query.own, queue, s[1], s[2]))]
  <2>1. IsFiniteSet(S)
    BY TablesAreFinite, FS_Product, FS_Subset
  <2>2. DOMAIN f = S
    OBVIOUS
  <2>3. RequestedSecrets(query.own, queue) = {f[s] : s \in S}
    BY DEF RequestedSecrets
  <2> HIDE DEF S, f
  <2>a. IsFiniteSet({f[s] : s \in S})
    BY <2>1, <2>2, ImageIsFinite
  <2>4. Candidates(query) \in SUBSET (query.broad \cup RequestedSecrets(query.own, queue))
    BY <1>5 DEF Candidates, Overridden
  <2>5. IsFiniteSet(query.broad \cup RequestedSecrets(query.own, queue))
    BY <2>3, <2>a, FS_Union
  <2>6. QED
    BY <2>4, <2>5, FS_Subset
<1>6. CASE query.kind = "APPROVAL_REQUEST"
  <2> DEFINE S == query.own \cup QueueOf(query.queued)
             f == [q \in S |-> RequestRecord(q)]
  <2>1. S \in SUBSET RequestId
    BY <1>1, RequestsExist DEF FoundIsSound
  <2>2. IsFiniteSet(S)
    BY <2>1, RequestIdAssumption, FS_Subset
  <2>3. IsFiniteSet({f[q] : q \in S})
    BY <2>2, ImageIsFinite
  <2>4. QED
    BY <1>6, <2>3 DEF Candidates
<1>7. QED
  BY <1>1, <1>2, <1>3, <1>4, <1>5, <1>6 DEF Kind

-------------------------------------------------------------------------------
(* The lists: what is promised is read and shown                             *)

\* What is promised is a record with the way that shows it.
LEMMA PromisedIsShown ==
    ASSUME NEW u \in User, NEW kind \in Kind, NEW g \in Promised(kind, DiscordPrincipal(u))
    PROVE  /\ \E e \in Everything(kind), way \in Way :
                 g = <<e.id, way, e.by>> /\ IsGround(kind, e, way, u)
           /\ kind = "APPROVAL_REQUEST" => \A q \in RequestId : Made(q) => HasRecord(q)
<1>1. DiscordPrincipal(u).subject = u
  BY DEF DiscordPrincipal
<1>2. /\ kind = "APPROVAL_REQUEST" => \A q \in RequestId : Made(q) => HasRecord(q)
      /\ g \in {<<f[1].id, f[2], f[1].by>> : f \in
                   {o \in Everything(kind) \X Way : IsGround(kind, o[1], o[2], u)}}
  BY <1>1 DEF Promised
<1>3. PICK f \in Everything(kind) \X Way :
        IsGround(kind, f[1], f[2], u) /\ g = <<f[1].id, f[2], f[1].by>>
  BY <1>2
<1>4. QED
  BY <1>2, <1>3

\* Where the records of a list are.
LEMMA ListedAtResource ==
    ASSUME Tables, NEW kind \in ByResource, NEW e \in Everything(kind)
    PROVE  \E r \in Resource :
              /\ IsRecordAt(e, r)
              /\ kind = "RESOURCE" => e.id = r
              /\ kind = "SECRET" => \E n \in Name :
                    /\ IsStored(r, n) /\ e.id = field[r][n].id /\ e.name = n
                    /\ e.by # None => AsksFor(e.by, r, n)
              /\ kind = "APPROVAL_REQUEST" =>
                    /\ e.id \in RequestId /\ Made(e.id) /\ e.by = e.id
                    /\ e = RequestRecord(e.id)
<1>1. CASE kind = "RESOURCE"
  <2>1. PICK r \in Resource : \E q \in {None} \cup {o \in RequestId : Made(o) /\ request[o].resource = r} :
           e = ResourceRecord(r, q)
    BY <1>1 DEF Everything
  <2>2. IsRecordAt(e, r) /\ e.id = r
    BY <2>1, RecordFields, Nothing DEF IsRecordAt
  <2>3. QED
    BY <1>1, <2>2
<1>2. CASE kind = "SECRET"
  <2>1. PICK r \in Resource, n \in Name :
           /\ IsStored(r, n)
           /\ \E q \in {None} \cup {o \in RequestId : Made(o) /\ AsksFor(o, r, n)} :
                 e = SecretRecord(r, n, q)
    BY <1>2, ListedAreStored
  <2>2. /\ IsRecordAt(e, r) /\ e.id = field[r][n].id /\ e.name = n
        /\ e.by # None => AsksFor(e.by, r, n)
    BY <2>1, SecretFields, Nothing DEF IsRecordAt, AsksFor
  <2>3. QED
    BY <1>2, <2>1, <2>2
<1>3. CASE kind = "APPROVAL_REQUEST"
  <2>1. PICK q \in RequestId : Made(q) /\ e = RequestRecord(q)
    BY <1>3 DEF Everything
  <2>2. request[q].resource \in Resource
    BY <2>1, RequestsExist
  <2>3. e.id = q /\ e.by = q /\ IsRecordAt(e, request[q].resource)
    BY <2>1, <2>2, RecordFields, Nothing DEF IsRecordAt
  <2>4. QED
    BY <1>3, <2>1, <2>2, <2>3
<1>4. QED
  BY <1>1, <1>2, <1>3 DEF ByResource

\* A candidate is of a resource.
LEMMA CandidateAtResource ==
    ASSUME ListInv, query.kind \in ByResource, NEW x, IsCandidate(x)
    PROVE  /\ \E r \in Resource : IsRecordAt(x, r)
           /\ query.kind = "RESOURCE" => x.id = x.resource
<1>1. CASE query.kind = "SECRET"
  <2>1. IsSecretCandidate(x)
    BY <1>1 DEF IsCandidate
  <2>2. IsRecordAt(x, x.resource) /\ x.resource \in Resource
    BY <2>1 DEF IsSecretCandidate, IsRecordAt, AsksFor
  <2>3. QED
    BY <1>1, <2>2
<1>2. CASE query.kind # "SECRET"
  <2>1. Tables /\ x \in Everything(query.kind)
    BY <1>2 DEF ListInv, IsCandidate
  <2>2. PICK r \in Resource : IsRecordAt(x, r) /\ (query.kind = "RESOURCE" => x.id = r)
    BY <2>1, ListedAtResource
  <2>3. QED
    BY <2>2 DEF IsRecordAt
<1>3. QED
  BY <1>1, <1>2

\* Two records of one id are of one resource, and of one secret or request.
LEMMA OneIdIsOneRecord ==
    ASSUME ListInv, query.kind \in ByResource, NEW x, IsCandidate(x),
           NEW e \in Everything(query.kind), e.id = x.id
    PROVE  /\ e.resource = x.resource
           /\ query.kind = "SECRET" => e.name = x.name
           /\ query.kind = "APPROVAL_REQUEST" => e = x
<1>1. Tables
  BY DEF ListInv
<1>2. PICK r \in Resource :
         /\ IsRecordAt(e, r)
         /\ query.kind = "RESOURCE" => e.id = r
         /\ query.kind = "SECRET" => \E n \in Name :
               IsStored(r, n) /\ e.id = field[r][n].id /\ e.name = n
         /\ query.kind = "APPROVAL_REQUEST" => e = RequestRecord(e.id)
  BY <1>1, ListedAtResource
<1>3. e.resource = r
  BY <1>2 DEF IsRecordAt
<1>4. CASE query.kind = "SECRET"
  <2>1. IsSecretCandidate(x)
    BY <1>4 DEF IsCandidate
  <2>2. QED
    BY <1>2, <1>3, <1>4, <2>1 DEF IsSecretCandidate
<1>5. CASE query.kind = "RESOURCE"
  BY <1>2, <1>3, <1>5, CandidateAtResource
<1>6. CASE query.kind = "APPROVAL_REQUEST"
  <2>1. x \in Everything(query.kind)
    BY <1>6 DEF IsCandidate
  <2>2. x = RequestRecord(x.id)
    BY <1>1, <1>6, <2>1, ListedAtResource DEF ByResource
  <2>3. QED
    BY <1>2, <1>6, <2>2
<1>7. QED
  BY <1>4, <1>5, <1>6 DEF ByResource

\* A candidate that carries the ground of what is promised is shown by its way, or
\* as the reader's own request.
LEMMA PromisedIsCarried ==
    ASSUME ListInv, query.pc # "idle", NEW x, IsCandidate(x),
           NEW pending \in BOOLEAN, IsPending(x.by) => pending
    PROVE  /\ IsOwnRequest(x) =>
                 Shows(query.kind, x, "request", pending, query.principal.subject)
           /\ \A g \in Promised(query.kind, query.principal) : g[1] = x.id =>
                 /\ g[2] = "project" =>
                       Shows(query.kind, x, "project", pending, query.principal.subject)
                 /\ Carries(x, g) =>
                       \/ g[2] = "project" \/ IsOwnRequest(x)
                       \/ Shows(query.kind, x, "guardian", pending, query.principal.subject)
<1> DEFINE u == query.principal.subject
<1>1. /\ SecretInv /\ PolicyTypeOK /\ Tables
      /\ query.kind \in Kind /\ query.principal = DiscordPrincipal(u) /\ u \in User
  BY ReaderAssumption DEF ListInv, QueryInv, WalkIsSound, SecretInv, SecretTypeOK, DiscordPrincipal
<1>u. u = query.principal.subject
  OBVIOUS
<1> HIDE DEF u
<1>2. CASE query.kind \in {"PROJECT", "ENVIRONMENT"}
  <2>0. x \in Everything(query.kind)
    BY <1>2 DEF IsCandidate
  <2>1. x.by = None
    BY <1>2, <2>0, RecordFields DEF Everything
  <2>2. ~IsOwnRequest(x)
    BY <2>1 DEF IsOwnRequest, AsRequester
  <2>3. ASSUME NEW g \in Promised(query.kind, query.principal), g[1] = x.id
        PROVE  g[2] = "project" /\ Shows(query.kind, x, "project", pending, u)
    <3>1. PICK e \in Everything(query.kind), way \in Way :
             g = <<e.id, way, e.by>> /\ IsGround(query.kind, e, way, u)
      BY <1>1, PromisedIsShown
    <3>2. e.id = x.id
      BY <2>3, <3>1
    <3>3. PICK p \in Project : x.project = p /\ x = e
      <4>1. CASE query.kind = "PROJECT"
        BY <2>0, <3>2, <4>1, RecordFields DEF Everything
      <4>2. CASE query.kind = "ENVIRONMENT"
        <5>1. PICK r \in Resource : IsLinked(r) /\ x = EnvironmentRecord(r)
          BY <2>0, <4>2 DEF Everything
        <5>2. home[r] \in Project
          BY <1>1, <5>1 DEF PolicyTypeOK, IsLinked
        <5>3. x.project = home[r] /\ x = e
          BY <3>2, <4>2, <5>1, RecordFields, Nothing DEF Everything
        <5>4. QED
          BY <5>2, <5>3
      <4>3. QED
        BY <1>2, <4>1, <4>2
    <3>4. Shows(query.kind, x, way, IsPending(x.by), u)
      BY <3>1, <3>3 DEF IsGround
    <3>5. way = "project"
      BY <1>1, <1>2, <3>3, <3>4, WhatShowsProject
    <3>6. QED
      BY <1>2, <3>1, <3>4, <3>5, ProjectsHaveNoRequest
  <2>4. QED
    BY <1>u, <2>2, <2>3
<1>3. CASE query.kind \in ByResource
  <2>1. PICK r \in Resource : IsRecordAt(x, r)
    BY <1>3, CandidateAtResource
  <2>2. x.resource = r
    BY <2>1 DEF IsRecordAt
  <2>3. /\ Shows(query.kind, x, "project", pending, u) <=> InProject(query.kind, r, u)
        /\ Shows(query.kind, x, "guardian", pending, u) <=> AsGuardian(query.kind, x, pending, u)
        /\ Shows(query.kind, x, "request", pending, u) <=> AsRequester(query.kind, x, u)
    BY <1>1, <1>3, <2>1, WhatShows
  <2>4. IsOwnRequest(x) <=> AsRequester(query.kind, x, u)
    BY <1>u DEF IsOwnRequest
  <2>5. ASSUME NEW g \in Promised(query.kind, query.principal), g[1] = x.id
        PROVE  /\ g[2] = "project" => Shows(query.kind, x, "project", pending, u)
               /\ Carries(x, g) =>
                    \/ g[2] = "project" \/ IsOwnRequest(x)
                    \/ Shows(query.kind, x, "guardian", pending, u)
    <3>1. PICK e \in Everything(query.kind), way \in Way :
             g = <<e.id, way, e.by>> /\ IsGround(query.kind, e, way, u)
      BY <1>1, PromisedIsShown
    <3>2. /\ e.id = x.id /\ g[2] = way /\ g[3] = e.by
          /\ Shows(query.kind, e, way, IsPending(e.by), u)
      BY <2>5, <3>1 DEF IsGround
    <3>3. /\ e.resource = r
          /\ query.kind = "SECRET" => e.name = x.name
      BY <1>3, <2>2, <3>2, OneIdIsOneRecord
    <3>4. IsRecordAt(e, r)
      BY <1>1, <1>3, <3>3, ListedAtResource DEF IsRecordAt
    <3>5. PICK was \in BOOLEAN : was <=> IsPending(e.by)
      OBVIOUS
    <3>6. Shows(query.kind, e, way, was, u)
      <4>1. IsPending(e.by) \in BOOLEAN
        BY DEF IsPending
      <4>2. was = IsPending(e.by)
        BY <3>5, <4>1
      <4>3. QED
        BY <3>2, <4>2
    <3>7. /\ way = "project" => InProject(query.kind, r, u)
          /\ way = "guardian" => AsGuardian(query.kind, e, was, u)
          /\ way = "request" => AsRequester(query.kind, e, u)
      BY <1>1, <1>3, <3>4, <3>6, WhatShows
    <3>8. g[2] = "project" => Shows(query.kind, x, "project", pending, u)
      BY <2>3, <3>2, <3>7
    <3>9. query.kind = "SECRET" /\ x.by = e.by /\ AsksForIt(e) => AsksForIt(x)
      BY <3>3 DEF AsksForIt
    <3>10. ASSUME Carries(x, g), way # "project", ~IsOwnRequest(x)
           PROVE  Shows(query.kind, x, "guardian", pending, u)
      <4>1. \/ x.by = e.by
            \/ /\ way = "guardian"
               /\ query.kind # "SECRET" \/ guardian[r][u] = "OWNER"
        BY <1>u, <2>2, <3>2, <3>10 DEF Carries
      <4>2. way = "guardian"
        BY <2>4, <3>7, <3>9, <3>10, <4>1 DEF AsRequester, Way
      <4>3. AsGuardian(query.kind, e, was, u)
        BY <3>7, <4>2
      <4>4. AsGuardian(query.kind, x, pending, u)
        BY <2>2, <3>3, <3>5, <3>9, <4>1, <4>3 DEF AsGuardian
      <4>5. QED
        BY <2>3, <4>4
    <3>11. QED
      BY <3>2, <3>8, <3>10
  <2>6. QED
    BY <1>u, <2>3, <2>4, <2>5
<1>4. QED
  BY <1>1, <1>2, <1>3 DEF Kind, ByResource

\* The last request for a secret, as the source finds it.
LEMMA RequestForSecretIsNewest ==
    ASSUME NEW own \in SUBSET RequestId, NEW queue \in SUBSET RequestId, NEW r, NEW n,
           NEW m, m = RequestForSecret(own, queue, r, n)
    PROVE  /\ (\E q \in (own \cup queue) \ own : IsFor(q, r, n)) =>
                 /\ m \in queue \ own /\ IsFor(m, r, n)
                 /\ \A q \in (own \cup queue) \ own : IsFor(q, r, n) => q <= m
           /\ (\A q \in queue : IsFor(q, r, n) => q \in own) =>
                 ((\E q \in own : IsFor(q, r, n)) => m \in own /\ IsFor(m, r, n))
<1> DEFINE asking == {q \in own \cup queue : IsFor(q, r, n)}
<1>1. asking \in SUBSET RequestId /\ asking \ own \in SUBSET RequestId
  OBVIOUS
<1>2. m = Newest(IF asking \subseteq own THEN asking ELSE asking \ own)
  BY DEF RequestForSecret
<1>3. ASSUME \E q \in (own \cup queue) \ own : IsFor(q, r, n)
      PROVE  /\ m \in queue \ own /\ IsFor(m, r, n)
             /\ \A q \in (own \cup queue) \ own : IsFor(q, r, n) => q <= m
  <2>1. asking \ own # {} /\ m = Newest(asking \ own)
    BY <1>2, <1>3
  <2> HIDE DEF asking
  <2>2. m \in asking \ own /\ \A q \in asking \ own : q <= m
    BY <1>1, <2>1, NewestIsLargest
  <2>3. QED
    BY <2>2 DEF asking
<1>4. ASSUME \A q \in queue : IsFor(q, r, n) => q \in own, \E q \in own : IsFor(q, r, n)
      PROVE  m \in own /\ IsFor(m, r, n)
  <2>1. asking # {} /\ asking \subseteq own /\ m = Newest(asking)
    BY <1>2, <1>4
  <2> HIDE DEF asking
  <2>2. m \in asking
    BY <1>1, <2>1, NewestIsLargest
  <2>3. QED
    BY <2>1, <2>2 DEF asking
<1>5. QED
  BY <1>3, <1>4

\* When a batch is read the reads before it have found all that is promised.
LEMMA SecretsAreFound ==
    ASSUME ListInv, query.pc = "fetch", query.kind = "SECRET",
           NEW g \in Promised(query.kind, query.principal), FoundSoFar(g)
    PROVE  \E x \in Candidates(query) : x.id = g[1] /\ Carries(x, g)
<1> DEFINE u == query.principal.subject
           queue == QueueOf(query.queued)
           own == query.own
<1>1. /\ SecretInv /\ PolicyTypeOK /\ Tables /\ FoundIsSound
      /\ query.principal = DiscordPrincipal(u) /\ u \in User
  BY ReaderAssumption DEF ListInv, QueryInv, WalkIsSound, SecretInv, SecretTypeOK, DiscordPrincipal
<1>2. /\ query.kind \in Kind /\ query.kind \in ByResource /\ SecretIsFound(g)
  BY DEF Kind, ByResource, FoundSoFar
<1>3. /\ own \in SUBSET RequestsBy(u) /\ own \in SUBSET RequestId /\ queue \in SUBSET RequestId
  BY <1>1, RequestsExist DEF FoundIsSound
<1>4. /\ Candidates(query) = Overridden(query.broad, RequestedSecrets(own, queue))
      /\ \A q \in RequestId : Made(q) /\ request[q].resource \in query.queued => q \in queue
      /\ \A q \in queue : request[q].resource \in query.queued
  BY DEF Candidates, QueueOf
<1>u. u = query.principal.subject /\ own = query.own
  OBVIOUS
<1> HIDE DEF u, queue, own
<1>5. PICK e \in Everything(query.kind), way \in Way :
         g = <<e.id, way, e.by>> /\ IsGround(query.kind, e, way, u)
  BY <1>1, <1>2, PromisedIsShown
<1>6. g[1] = e.id /\ g[2] = way /\ g[3] = e.by
  BY <1>5
<1>7. PICK r \in Resource : IsRecordAt(e, r) /\ \E n \in Name :
         /\ IsStored(r, n) /\ e.id = field[r][n].id /\ e.name = n
         /\ e.by # None => AsksFor(e.by, r, n)
  BY <1>1, <1>2, ListedAtResource
<1>8. PICK n \in Name : IsStored(r, n) /\ e.id = field[r][n].id /\ e.name = n
  BY <1>7
<1>9. e.resource = r /\ (e.by # None => e.by \in RequestId /\ Made(e.by) /\ request[e.by].resource = r)
  BY <1>7 DEF IsRecordAt
<1>10. PICK was \in BOOLEAN : was = IsPending(e.by)
  <2>1. IsPending(e.by) \in BOOLEAN
    BY DEF IsPending
  <2>2. QED
    BY <2>1
<1>11. /\ way = "guardian" => AsGuardian("SECRET", e, was, u)
       /\ way = "request" => AsRequester("SECRET", e, u)
       /\ e.by # None => IsListedBy(e.by, e, way, u)
  <2>1. Shows("SECRET", e, way, was, u) /\ (e.by # None => IsListedBy(e.by, e, way, u))
    BY <1>5, <1>10 DEF IsGround
  <2>2. QED
    BY <1>1, <1>2, <1>7, <2>1, WhatShows
<1>12. CASE way = "project" \/ (way = "guardian" /\ e.by = None)
  <2>1. PICK b \in query.broad : b.id = g[1]
    BY <1>2, <1>6, <1>12 DEF SecretIsFound
  <2>2. PICK x \in Candidates(query) : x.id = g[1]
    BY <1>4, <2>1 DEF Overridden
  <2>3. x.resource = r
    BY <1>2, <1>6, <1>9, <2>2, CandidatesArePlaced, OneIdIsOneRecord
  <2>4. way = "guardian" => guardian[r][u] = "OWNER"
    BY <1>9, <1>11, <1>12 DEF AsGuardian, AsksForIt
  <2>5. Carries(x, g)
    BY <1>6, <1>12, <1>u, <2>3, <2>4 DEF Carries
  <2>6. QED
    BY <2>2, <2>5
<1>13. ASSUME e.by # None, way \in {"guardian", "request"}
       PROVE  \E x \in Candidates(query) : x.id = g[1] /\ Carries(x, g)
  <2>1. e.by \in RequestId /\ IsFor(e.by, r, n) /\ request[e.by].resource = r
    BY <1>8, <1>9, <1>11, <1>13 DEF IsListedBy
  <2>2. PICK m : m = RequestForSecret(own, queue, r, n)
    OBVIOUS
  <2>3. PICK x : x = SecretRecord(r, n, m)
    OBVIOUS
  <2>4. x.id = g[1] /\ x.by = m /\ x.resource = r /\ x.name = n
    BY <1>6, <1>8, <2>3, SecretFields
  <2>5. ASSUME \E q \in own \cup queue : IsFor(q, r, n) PROVE x \in Candidates(query)
    <3>1. <<r, n>> \in {f \in Resource \X Name :
             IsStored(f[1], f[2]) /\ \E q \in own \cup queue : IsFor(q, f[1], f[2])}
      BY <1>8, <2>5
    <3>2. x \in RequestedSecrets(own, queue)
      BY <2>2, <2>3, <3>1 DEF RequestedSecrets
    <3>3. QED
      BY <1>4, <3>2 DEF Overridden
  <2>6. ASSUME m \in RequestsBy(u), IsFor(m, r, n), AsksForIt(e)
        PROVE  Carries(x, g)
    <3>1. m # None /\ request[m].requester = u
      BY <2>6, RequestIdAssumption DEF RequestsBy
    <3>2. n # None
      BY <1>8, <2>6 DEF AsksForIt
    <3>3. AsksForIt(x)
      BY <2>4, <2>6, <3>1, <3>2 DEF AsksForIt, IsFor, AsksFor
    <3>4. QED
      BY <1>2, <1>u, <2>4, <3>1, <3>3 DEF Carries, IsOwnRequest, AsRequester
  <2>7. CASE way = "guardian"
    <3>1. /\ e.by \notin RequestsBy(u)
          /\ \A o \in RequestId \ RequestsBy(u) : IsFor(o, r, n) => o <= e.by
      BY <1>8, <1>9, <1>11, <1>13, <2>7 DEF IsListedBy
    <3>2. e.by \in queue \ own
      <4>1. request[e.by].resource \in query.queued
        BY <1>2, <1>6, <1>13, <2>7 DEF SecretIsFound
      <4>2. QED
        BY <1>3, <1>4, <1>9, <1>13, <3>1, <4>1
    <3>3. /\ m \in queue \ own /\ IsFor(m, r, n) /\ e.by <= m
      BY <1>3, <2>1, <2>2, <3>2, RequestForSecretIsNewest
    <3>4. ASSUME m \in RequestsBy(u) PROVE Carries(x, g)
      <4>1. CASE guardian[r][u] = "OWNER"
        BY <1>6, <1>u, <2>4, <2>7, <4>1 DEF Carries
      <4>2. CASE guardian[r][u] # "OWNER"
        <5>1. AsksForIt(e)
          BY <1>9, <1>11, <2>7, <4>2 DEF AsGuardian
        <5>2. QED
          BY <2>6, <3>3, <3>4, <5>1
      <4>3. QED
        BY <4>1, <4>2
    <3>5. ASSUME m \notin RequestsBy(u) PROVE Carries(x, g)
      <4>1. m <= e.by /\ m \in Nat /\ e.by \in Nat
        BY <1>3, <2>1, <3>1, <3>3, <3>5, RequestIdAssumption
      <4>2. x.by = g[3]
        BY <1>6, <2>4, <3>3, <4>1
      <4>3. QED
        BY <4>2 DEF Carries
    <3>6. QED
      BY <2>1, <2>4, <2>5, <3>2, <3>4, <3>5
  <2>8. CASE way = "request"
    <3>1. e.by \in own /\ r \notin query.queued
      BY <1>2, <1>6, <1>u, <2>1, <2>8 DEF SecretIsFound
    <3>2. \A q \in queue : IsFor(q, r, n) => q \in own
      BY <1>4, <3>1 DEF IsFor, AsksFor
    <3>3. m \in own /\ IsFor(m, r, n)
      BY <1>3, <2>1, <2>2, <3>1, <3>2, RequestForSecretIsNewest
    <3>4. AsksForIt(e)
      BY <1>11, <2>8 DEF AsRequester
    <3>5. QED
      BY <1>3, <2>1, <2>4, <2>5, <2>6, <3>1, <3>3, <3>4
  <2>9. QED
    BY <1>13, <2>7, <2>8
<1>14. way = "request" => e.by # None
  BY <1>11 DEF AsRequester
<1>15. QED
  BY <1>12, <1>13, <1>14 DEF Way

\* So for every list: the candidates have whatever is promised, with its ground.
LEMMA GroundsFindCandidates ==
    ASSUME ListInv, query.pc = "fetch",
           NEW g \in Promised(query.kind, query.principal), FoundSoFar(g)
    PROVE  \E x \in Candidates(query) : x.id = g[1] /\ Carries(x, g)
<1> DEFINE u == query.principal.subject
<1>1. /\ SecretInv /\ PolicyTypeOK /\ Tables /\ FoundIsSound
      /\ query.kind \in Kind /\ query.principal = DiscordPrincipal(u) /\ u \in User
  BY ReaderAssumption DEF ListInv, QueryInv, WalkIsSound, SecretInv, SecretTypeOK, DiscordPrincipal
<1>u. u = query.principal.subject
  OBVIOUS
<1> HIDE DEF u
<1>2. PICK e \in Everything(query.kind), way \in Way :
         g = <<e.id, way, e.by>> /\ IsGround(query.kind, e, way, u)
  BY <1>1, PromisedIsShown
<1>3. /\ g[1] = e.id /\ g[2] = way /\ g[3] = e.by
      /\ Shows(query.kind, e, way, IsPending(e.by), u)
  BY <1>2 DEF IsGround
<1>4. CASE query.kind = "PROJECT"
  <2>1. PICK p \in Project : e = ProjectRecord(p)
    BY <1>4 DEF Everything
  <2>2. e.project = p
    BY <2>1, RecordFields
  <2>3. way = "project" /\ p \in ProjectsOf(u)
    BY <1>1, <1>3, <1>4, <2>2, WhatShowsProject DEF ProjectsOf
  <2>4. e \in Candidates(query)
    BY <1>4, <1>u, <2>1, <2>3 DEF Candidates
  <2>5. QED
    BY <1>3, <2>3, <2>4 DEF Carries
<1>5. CASE query.kind = "ENVIRONMENT"
  <2>1. PICK r \in Resource : IsLinked(r) /\ e = EnvironmentRecord(r)
    BY <1>5 DEF Everything
  <2>2. e.project = home[r] /\ home[r] \in Project
    BY <1>1, <2>1, RecordFields, Nothing DEF PolicyTypeOK, IsLinked
  <2>3. way = "project" /\ r \in EnvironmentsOf(u)
    BY <1>1, <1>3, <1>5, <2>1, <2>2, WhatShowsProject DEF EnvironmentsOf, ProjectsOf
  <2>4. e \in Candidates(query)
    BY <1>5, <1>u, <2>1, <2>3 DEF Candidates
  <2>5. QED
    BY <1>3, <2>3, <2>4 DEF Carries
<1>6. CASE query.kind = "RESOURCE"
  <2>0. query.kind \in ByResource
    BY <1>6 DEF ByResource
  <2>1. PICK r \in Resource : IsRecordAt(e, r) /\ e.id = r
    BY <1>1, <1>6, <2>0, ListedAtResource
  <2>2. PICK x : x = ResourceRecord(r, RequestForResource(u, r))
    OBVIOUS
  <2>3. x.id = r /\ x.by = RequestForResource(u, r)
    BY <2>2, RecordFields
  <2>4. PICK was \in BOOLEAN : was = IsPending(e.by)
    <3>1. IsPending(e.by) \in BOOLEAN
      BY DEF IsPending
    <3>2. QED
      BY <3>1
  <2>5. way = "request" => e.by \in RequestsBy(u) /\ request[e.by].resource = r
    <3>1. way = "request" => AsRequester(query.kind, e, u)
      BY <1>1, <1>3, <2>0, <2>1, <2>4, WhatShows
    <3>2. QED
      BY <2>1, <3>1 DEF AsRequester, IsRecordAt, RequestsBy
  <2>6. way = "request" => /\ x.by \in RequestsBy(u)
    <3> DEFINE ids == {q \in RequestsBy(u) : request[q].resource = r}
    <3>1. ids \in SUBSET RequestId
      BY <1>1, RequestsExist
    <3>2. way = "request" => ids # {}
      BY <2>5
    <3>3. x.by = Newest(ids)
      BY <2>3 DEF RequestForResource
    <3> HIDE DEF ids
    <3>4. way = "request" => x.by \in ids
      BY <3>1, <3>2, <3>3, NewestIsLargest
    <3>5. QED
      BY <3>4 DEF ids
  <2>7. r \in query.within \cup query.queued \cup {request[q].resource : q \in RequestsBy(u)}
    BY <1>3, <1>6, <2>1, <2>5 DEF FoundSoFar, ResourceIsFound, Way
  <2>8. x \in Candidates(query)
    BY <1>6, <1>u, <2>2, <2>7 DEF Candidates
  <2>9. way = "request" => IsOwnRequest(x)
    BY <1>6, <1>u, <2>6, RequestIdAssumption DEF IsOwnRequest, AsRequester, RequestsBy
  <2>10. Carries(x, g)
    BY <1>3, <1>6, <2>9 DEF Carries, Way
  <2>11. QED
    BY <1>3, <2>1, <2>3, <2>8, <2>10
<1>7. CASE query.kind = "APPROVAL_REQUEST"
  <2>1. e.id \in RequestId /\ Made(e.id) /\ e.by = e.id /\ e = RequestRecord(e.id)
    BY <1>1, <1>7, ListedAtResource DEF ByResource
  <2>2. e.id \in query.own \cup QueueOf(query.queued)
    BY <1>3, <1>7, <2>1 DEF FoundSoFar, RequestIsFound, QueueOf, Way
  <2>3. e \in Candidates(query)
    BY <1>7, <2>1, <2>2 DEF Candidates
  <2>4. QED
    BY <1>3, <2>3 DEF Carries
<1>8. QED
  BY <1>1, <1>4, <1>5, <1>6, <1>7, SecretsAreFound DEF Kind

-------------------------------------------------------------------------------
(* The lists: what is promised rests on the rows                             *)

\* While the rows stay each way shows the same.
LEMMA RolesStay ==
    ASSUME UNCHANGED <<policyVars, request>>
    PROVE  \A kind, x, b, u : \A way \in Way :
              Shows(kind, x, way, b, u)' <=> Shows(kind, x, way, b, u)
<1>1. UNCHANGED <<owner, member, home, guardian, request>>
  BY DEF policyVars
<1>2. \A c : Coherent(c)' <=> Coherent(c)
  BY <1>1 DEF Coherent
<1>3. \A c : ProjectOf(c)' = ProjectOf(c)
  BY <1>1 DEF ProjectOf
<1>4. \A p, u : ProjectRoles(p, u)' = ProjectRoles(p, u)
  BY <1>1 DEF ProjectRoles
<1>5. \A c, u : GuardianRoles(c, u)' = GuardianRoles(c, u)
  BY <1>1, <1>3 DEF GuardianRoles
<1>6. \A kind, x, b : ContextOf(kind, x, b)' = ContextOf(kind, x, b)
  BY <1>1 DEF ContextOf, InContext
<1>7. \A c, u : \A way \in Way : RolesBy(way, c, u)' = RolesBy(way, c, u)
  <2> SUFFICES ASSUME NEW c, NEW u, NEW way \in Way
               PROVE  RolesBy(way, c, u)' = RolesBy(way, c, u)
    OBVIOUS
  <2>1. PICK p : p = ProjectOf(c) /\ p = ProjectOf(c)'
    BY <1>3
  <2>2. ProjectRoles(ProjectOf(c), u)' = ProjectRoles(p, u)'
    BY <2>1 DEF ProjectRoles
  <2>3. QED
    BY <1>4, <1>5, <2>1, <2>2 DEF RolesBy, Way
<1>8. QED
  BY <1>2, <1>6, <1>7 DEF Shows

\* And the same is promised.
LEMMA PromisedStays ==
    ASSUME UNCHANGED <<policyVars, version, field, request>>
    PROVE  \A kind : \A p \in Reader : Promised(kind, p)' = Promised(kind, p)
<1>1. UNCHANGED <<owner, member, home, guardian, version, field, request>>
  BY DEF policyVars
<1>2. \A kind : Everything(kind)' = Everything(kind)
  BY RecordsStay
<1>3. \A kind, x, b, u : \A way \in Way :
         Shows(kind, x, way, b, u)' <=> Shows(kind, x, way, b, u)
  BY RolesStay
<1>4. \A q, r, n : IsFor(q, r, n)' <=> IsFor(q, r, n)
  BY <1>1 DEF IsFor, AsksFor, TargetVersion
<1>5. \A u : RequestsBy(u)' = RequestsBy(u) /\ QueuedFor(u)' = QueuedFor(u)
  BY <1>1 DEF RequestsBy, QueuedFor, GuardedBy, OwnedResources, IsLinked, HomeOwner
<1>6. ASSUME NEW q, NEW x, NEW u, NEW way \in Way
      PROVE  IsListedBy(q, x, way, u)' <=> IsListedBy(q, x, way, u)
  <2>1. CASE way = "project"
    BY <1>4, <2>1 DEF IsListedBy
  <2>2. CASE way = "guardian"
    BY <1>4, <1>5, <2>2 DEF IsListedBy
  <2>3. CASE way = "request"
    BY <1>4, <1>5, <2>3 DEF IsListedBy
  <2>4. QED
    BY <2>1, <2>2, <2>3 DEF Way
<1>7. \A kind, x, u : \A way \in Way : IsGround(kind, x, way, u)' <=> IsGround(kind, x, way, u)
  <2>1. \A q : IsPending(q)' = IsPending(q)
    BY <1>1 DEF IsPending
  <2> SUFFICES ASSUME NEW kind, NEW x, NEW u, NEW way \in Way
               PROVE  IsGround(kind, x, way, u)' <=> IsGround(kind, x, way, u)
    OBVIOUS
  <2>2. PICK b : b = IsPending(x.by) /\ b = IsPending(x.by)'
    BY <2>1
  <2>3. Shows(kind, x, way, IsPending(x.by), u)' <=> Shows(kind, x, way, b, u)'
    BY <2>2 DEF Shows, ContextOf, InContext
  <2>4. QED
    BY <1>3, <1>6, <2>2, <2>3 DEF IsGround
<1>8. ASSUME NEW kind, NEW p \in Reader PROVE Promised(kind, p)' = Promised(kind, p)
  <2> DEFINE S == {e \in Everything(kind) \X Way : IsGround(kind, e[1], e[2], p.subject)}
  <2>1. S' = S
    BY <1>2, <1>7
  <2>2. {<<g[1].id, g[2], g[1].by>> : g \in S}' = {<<g[1].id, g[2], g[1].by>> : g \in S}
    BY <2>1
  <2>3. (\E q \in RequestId : Made(q) /\ ~HasRecord(q))'
          <=> \E q \in RequestId : Made(q) /\ ~HasRecord(q)
    BY <1>1 DEF Made, HasRecord
  <2>4. QED
    BY <2>2, <2>3 DEF Promised
<1>9. QED
  BY <1>8

-------------------------------------------------------------------------------
(* The lists: the steps                                                      *)

\* Whom the policy shows a candidate, by a request that was pending since the page
\* was asked for, sees it or saw it, or its row is gone.
LEMMA AuthorizedWasSeen ==
    ASSUME ListInv, query.pc # "idle", NEW x, IsCandidate(x), NEW way \in Way,
           NEW pending \in BOOLEAN, pending => x.by \in query.open,
           Shows(query.kind, x, way, pending, query.principal.subject)
    PROVE  WasSeen(x.id)
<1> DEFINE u == query.principal.subject
<1>1. /\ SecretInv /\ SecretTypeOK /\ PolicyTypeOK /\ Tables /\ IdsAreOwn
      /\ query.kind \in Kind /\ query.principal = DiscordPrincipal(u) /\ u \in User
      /\ Visible(query.kind, query.principal, query.open) \subseteq query.seen
  BY ReaderAssumption
  DEF ListInv, QueryInv, WalkIsSound, SecretInv, SecretTypeOK, DiscordPrincipal
<1>u. u = query.principal.subject
  OBVIOUS
<1> HIDE DEF u
<1>b. (x.by \in query.open) \in BOOLEAN
  OBVIOUS
<1>2. PICK open \in BOOLEAN : open = (x.by \in query.open)
  BY <1>b, Zenon
<1>3. ASSUME NEW e \in Everything(query.kind), e.id = x.id, e.by = x.by,
             NEW w \in Way, Shows(query.kind, e, w, open, u)
      PROVE  x.id \in query.seen
  <2>1. Allows(query.kind, query.principal, e, open)
    BY <1>1, <1>3, AllowedIsShown
  <2>2. e.id \in Visible(query.kind, query.principal, query.open)
    BY <1>2, <1>3, <2>1 DEF Visible
  <2>3. QED
    BY <1>1, <1>3, <2>2
<1>4. CASE query.kind \in {"PROJECT", "ENVIRONMENT"}
  <2>1. x \in Everything(query.kind)
    BY <1>4 DEF IsCandidate
  <2>2. Shows(query.kind, x, way, open, u)
    BY <1>4, <1>u, ProjectsHaveNoRequest
  <2>3. QED
    BY <1>3, <2>1, <2>2 DEF WasSeen
<1>5. CASE query.kind \in ByResource
  <2>1. PICK r \in Resource : IsRecordAt(x, r)
    BY <1>5, CandidateAtResource
  <2>2. ASSUME NEW e, IsRecordAt(e, r), e.by = x.by,
               query.kind = "SECRET" => e.name = x.name
        PROVE  Shows(query.kind, e, way, open, u)
    <3>1. /\ way = "project" => InProject(query.kind, r, u)
          /\ way = "guardian" => AsGuardian(query.kind, x, pending, u)
          /\ way = "request" => AsRequester(query.kind, x, u)
      BY <1>1, <1>5, <1>u, <2>1, WhatShows
    <3>2. pending => open
      BY <1>2
    <3>3. x.resource = r /\ e.resource = r
      BY <2>1, <2>2 DEF IsRecordAt
    <3>4. query.kind = "SECRET" => (AsksForIt(e) <=> AsksForIt(x))
      BY <2>2 DEF AsksForIt
    <3>5. /\ AsGuardian(query.kind, x, pending, u) => AsGuardian(query.kind, e, open, u)
          /\ AsRequester(query.kind, x, u) => AsRequester(query.kind, e, u)
      BY <2>2, <3>2, <3>3, <3>4 DEF AsGuardian, AsRequester
    <3>6. QED
      BY <1>1, <1>5, <2>2, <3>1, <3>5, WhatShows DEF Way
  <2>3. CASE query.kind # "SECRET"
    <3>1. x \in Everything(query.kind)
      BY <2>3 DEF IsCandidate
    <3>2. QED
      BY <1>3, <2>1, <2>2, <2>3, <3>1 DEF WasSeen
  <2>4. CASE query.kind = "SECRET"
    <3>1. IsSecretCandidate(x)
      BY <2>4 DEF IsCandidate
    <3>2. PICK n \in Name : n = x.name
      BY <3>1 DEF IsSecretCandidate
    <3>3. /\ x.resource = r /\ x.id \in drawn
          /\ \A s \in Resource, m \in Name : field[s][m].id = x.id => s = r /\ m = n
          /\ x.by \in {None} \cup {o \in RequestId : Made(o) /\ AsksFor(o, r, n)}
      BY <2>1, <3>1, <3>2 DEF IsSecretCandidate, IsRecordAt
    <3>4. CASE field[r][n].id # x.id
      BY <2>4, <3>3, <3>4 DEF WasSeen, Gone
    <3>5. CASE field[r][n].id = x.id
      <4>1. IsStored(r, n)
        BY <1>1, <3>3, <3>5, RowIdAssumption DEF IsStored, SecretTypeOK
      <4>2. PICK e \in Everything("SECRET") : e = SecretRecord(r, n, x.by)
        BY <3>3, <4>1, StoredIsRecord
      <4>3. e.id = x.id /\ e.by = x.by /\ e.name = n /\ e.resource = r /\ e.project = home[r]
        BY <3>5, <4>2, SecretFields, Nothing
      <4>4. IsRecordAt(e, r)
        BY <2>1, <4>3 DEF IsRecordAt
      <4>5. QED
        BY <1>3, <2>2, <2>4, <3>2, <4>2, <4>3, <4>4 DEF WasSeen
    <3>6. QED
      BY <3>4, <3>5
  <2>5. QED
    BY <2>3, <2>4
<1>6. QED
  BY <1>1, <1>4, <1>5 DEF Kind, ByResource

\* What follows for the walk from the rows after a step, when it did not move
\* itself: what it remembers only grows.
LEMMA WalkStaysSound ==
    ASSUME ListInv, RowsLast, RequestsLast, query.pc # "idle",
           query'.pc = query.pc, query'.kind = query.kind, query'.principal = query.principal,
           query'.within = query.within, query'.broad = query.broad, query'.own = query.own,
           query'.queued = query.queued, query'.batch = query.batch,
           query'.pending = query.pending, query'.found = query.found,
           query'.items = query.items, query.open \subseteq query'.open,
           query.seen \subseteq query'.seen, Pending' \subseteq query'.open,
           \A k, p, open : k = query.kind /\ p = query.principal /\ open = query'.open =>
               Visible(k, p, open)' \subseteq query'.seen
    PROVE  WalkIsSound'
<1>1. SecretInv /\ Tables /\ WalkIsSound
  BY DEF ListInv, QueryInv
<1>2. /\ query.kind \in Kind /\ query.principal \in Reader
      /\ query'.kind \in Kind /\ query'.principal \in Reader
  BY <1>1 DEF WalkIsSound
<1>3. /\ \A x : IsSecretCandidate(x) => IsSecretCandidate(x)'
      /\ \A x : IsCandidate(x) => IsCandidate(x)'
      /\ \A i : WasSeen(i) => WasSeen(i)'
  BY <1>1, <1>2, ShownLasts
<1>4. PICK k, p, open : k = query'.kind /\ p = query'.principal /\ open = query'.open
  OBVIOUS
<1>5. Visible(query.kind, query.principal, query.open)' \subseteq query'.seen
  <2>1. Visible(k, p, open)' \subseteq query'.seen
    BY <1>4
  <2>2. Visible(query.kind, query.principal, query.open)' = Visible(k, p, open)'
    BY <1>4 DEF Visible
  <2>3. QED
    BY <2>1, <2>2
<1>6. FoundIsSound'
  <2>1. query'.within \cup query'.queued \subseteq {r \in Resource : Exists(r)'}
    BY <1>1 DEF WalkIsSound, FoundIsSound, RowsLast
  <2>2. query'.own \subseteq RequestsBy(query.principal.subject)'
    <3>1. query.principal.subject \in User
      BY <1>2, ReaderAssumption DEF DiscordPrincipal
    <3>2. \A q \in RequestsBy(query.principal.subject) :
             q \in RequestId /\ Made(q) /\ request[q].requester = query.principal.subject
      BY <1>1, <3>1, RequestsExist DEF RequestsBy
    <3>3. \A q \in RequestsBy(query.principal.subject) :
             request'[q].requester = query.principal.subject
      BY <3>2 DEF RequestsLast
    <3>4. query'.own \subseteq RequestsBy(query.principal.subject)
      BY <1>1 DEF WalkIsSound, FoundIsSound
    <3>5. QED
      BY <3>2, <3>3, <3>4 DEF RequestsBy
  <2>3. \A x \in query'.broad : IsSecretCandidate(x)' /\ x.by = None
    BY <1>1, <1>3 DEF WalkIsSound, FoundIsSound
  <2>4. /\ query'.pc \notin {"own", "guardians", "fetch"} => query'.broad = {}
        /\ query'.pc = "projects" => query'.kind \in {"RESOURCE", "SECRET"}
        /\ query'.pc = "secrets" => query'.kind = "SECRET"
        /\ query'.pc = "own" => query'.kind \in {"SECRET", "APPROVAL_REQUEST"}
    BY <1>1 DEF WalkIsSound, FoundIsSound
  <2>5. QED
    BY <2>1, <2>2, <2>3, <2>4 DEF FoundIsSound
<1>7. /\ \A x \in query'.batch : IsCandidate(x)'
      /\ \A x \in query'.found : WasSeen(x.id)'
      /\ \A i \in query'.items : WasSeen(i)'
  BY <1>1, <1>3 DEF WalkIsSound
<1>8. query'.pc = "guardian" =>
        \A x \in query'.batch : IsFirst(x)' /\ query'.pending => x.by \in query'.open
  BY <1>1 DEF WalkIsSound, IsFirst
<1>9. QED
  BY <1>2, <1>5, <1>6, <1>7, <1>8 DEF WalkIsSound

\* The handlers beside the lists keep the invariant.
LEMMA OthersKeepList == ListInv /\ Others => ListInv'
<1> SUFFICES ASSUME ListInv, Others PROVE ListInv'
  OBVIOUS
<1>1. SecretInv /\ Tables /\ QueryInv
  BY DEF ListInv
<1>2. SecretInv' /\ Tables' /\ RowsLast /\ RequestsLast /\ QueryAfterChange
  BY <1>1, OthersLast
<1>3. QueryInv'
  <2>1. CASE query.pc = "idle"
    <3>1. query' = query
      BY <1>2, <2>1 DEF QueryAfterChange
    <3>2. QED
      BY <1>1, <2>1, <3>1 DEF QueryInv, IsWalk
  <2>2. CASE query' = query /\ UNCHANGED <<policyVars, version, field, request>> /\ query.pc # "idle"
    <3>1. PICK k, p, open :
             /\ k \in Kind /\ p \in Reader
             /\ k = query.kind /\ p = query.principal /\ open = query.open
      BY <1>1, <2>2 DEF QueryInv, WalkIsSound
    <3>2. Visible(k, p, open)' = Visible(k, p, open) /\ Pending' = Pending
      BY <2>2, <3>1, VisibleStays
    <3>3. Visible(k, p, open) \subseteq query.seen /\ Pending \subseteq query.open
      BY <1>1, <2>2, <3>1 DEF QueryInv, WalkIsSound
    <3>4. WalkIsSound'
      BY <1>2, <2>2, <3>1, <3>2, <3>3, WalkStaysSound
    <3>5. QED
      BY <1>1, <2>2, <3>4 DEF QueryInv, IsWalk
  <2>3. CASE query.pc # "idle" /\ ~(query' = query /\ UNCHANGED <<policyVars, version, field, request>>)
    <3>1. PICK k \in Kind, p \in Reader : k = query.kind /\ p = query.principal
      BY <1>1, <2>3 DEF QueryInv, WalkIsSound
    <3>2. PICK open : open = query.open \cup Pending'
      OBVIOUS
    <3>3. open \in SUBSET RequestId /\ Pending' \subseteq open /\ query.open \subseteq open
      BY <1>1, <3>2 DEF QueryInv, IsWalk, Pending
    <3>4. Shown'[open][k][p] = Visible(k, p, open)'
      BY <3>3 DEF Shown
    <3>5. PICK steady, seen :
            /\ query' = [query EXCEPT !.steady = steady, !.open = open, !.seen = seen]
            /\ seen = query.seen \cup Shown'[open][k][p]
      BY <1>2, <2>3, <3>1, <3>2 DEF QueryAfterChange
    <3>6. /\ query'.pc = query.pc /\ query'.kind = query.kind
          /\ query'.principal = query.principal /\ query'.within = query.within
          /\ query'.broad = query.broad /\ query'.own = query.own
          /\ query'.queued = query.queued /\ query'.batch = query.batch
          /\ query'.pending = query.pending /\ query'.found = query.found
          /\ query'.items = query.items /\ query'.open = open /\ query'.seen = seen
          /\ IsWalk'
      BY <1>1, <3>3, <3>5 DEF QueryInv, IsWalk
    <3>7. query.seen \subseteq query'.seen /\ Visible(k, p, open)' \subseteq query'.seen
      BY <3>4, <3>5, <3>6
    <3>8. WalkIsSound'
      BY <1>2, <2>3, <3>1, <3>3, <3>6, <3>7, WalkStaysSound
    <3>9. QED
      BY <1>1, <3>6, <3>8 DEF QueryInv
  <2>4. QED
    BY <2>1, <2>2, <2>3
<1>4. QED
  BY <1>2, <1>3 DEF ListInv

\* A step of the service on the rows as they are keeps the invariant if what it
\* leaves in the walk is sound.
LEMMA ServiceStep ==
    ASSUME ListInv, UNCHANGED <<secretVars, request>>, query'.pc # "idle", IsWalk',
           query'.pc \in Bare => query'.batch = {},
           NEW k \in Kind, NEW p \in Reader, k = query'.kind, p = query'.principal,
           NEW open, open = query'.open,
           Pending \subseteq open, Visible(k, p, open) \subseteq query'.seen,
           \A x \in query'.batch : IF k = "SECRET" THEN IsSecretCandidate(x) ELSE x \in Everything(k),
           \A i \in {x.id : x \in query'.found} \cup query'.items :
               i \in query'.seen \/ (k = "SECRET" /\ Gone(i)),
           query'.within \cup query'.queued \subseteq {r \in Resource : Exists(r)},
           query'.own \subseteq RequestsBy(p.subject),
           \A x \in query'.broad : IsSecretCandidate(x) /\ x.by = None,
           query'.pc \notin {"own", "guardians", "fetch"} => query'.broad = {},
           query'.pc = "projects" => k \in {"RESOURCE", "SECRET"},
           query'.pc = "secrets" => k = "SECRET",
           query'.pc = "own" => k \in {"SECRET", "APPROVAL_REQUEST"},
           query'.pc = "guardian" => \A x \in query'.batch :
               First(query'.batch, 1) = {x} /\ query'.pending => x.by \in open
    PROVE  ListInv'
<1>1. SecretInv /\ Tables
  BY DEF ListInv
<1>2. UNCHANGED <<policyVars, owner, member, home, guardian, version, field, drawn, request>>
  BY DEF secretVars, policyVars
<1>3. SecretInv' /\ Tables'
  BY <1>1, <1>2, SecretsStutter DEF Tables, Made, Exists, IsLinked
<1>4. /\ Visible(k, p, open)' = Visible(k, p, open) /\ Pending' = Pending
      /\ Everything(k)' = Everything(k)
  BY <1>2, VisibleStays, RecordsStay
<1>5. /\ \A i : Gone(i)' <=> Gone(i)
      /\ \A x : IsSecretCandidate(x)' <=> IsSecretCandidate(x)
  BY <1>2 DEF Gone, IsSecretCandidate, Exists, Made, AsksFor
<1>6. Visible(query.kind, query.principal, query.open)' \subseteq query'.seen
  <2>1. Visible(query.kind, query.principal, query.open)' = Visible(k, p, open)'
    BY DEF Visible
  <2>2. QED
    BY <1>4, <2>1
<1>7. /\ \A x \in query'.batch : IsCandidate(x)'
      /\ \A x \in query'.found : WasSeen(x.id)'
      /\ \A i \in query'.items : WasSeen(i)'
  <2>1. \A x : IsCandidate(x)' <=> IF k = "SECRET" THEN IsSecretCandidate(x)' ELSE x \in Everything(k)'
    BY DEF IsCandidate, Everything
  <2>2. \A i : WasSeen(i)' <=> i \in query'.seen \/ (k = "SECRET" /\ Gone(i)')
    BY DEF WasSeen
  <2>3. QED
    BY <1>4, <1>5, <2>1, <2>2
<1>8. FoundIsSound'
  <2>1. \A r : Exists(r)' <=> Exists(r)
    BY <1>2 DEF Exists
  <2>2. RequestsBy(query.principal.subject)' = RequestsBy(p.subject)
    BY <1>2 DEF RequestsBy
  <2>3. QED
    BY <1>5, <2>1, <2>2 DEF FoundIsSound
<1>9. query'.pc = "guardian" =>
        \A x \in query'.batch : IsFirst(x)' /\ query'.pending => x.by \in query'.open
  BY DEF IsFirst
<1>10. WalkIsSound'
  BY <1>4, <1>6, <1>7, <1>8, <1>9 DEF WalkIsSound
<1>11. QED
  BY <1>3, <1>10 DEF ListInv, QueryInv

\* The read that a batch begins with, by the list.
LEMMA FirstReadIsOne ==
    ASSUME NEW kind \in Kind
    PROVE  /\ FirstRead(kind) \in {"projects", "own", "fetch"}
           /\ FirstRead(kind) = "projects" => kind \in {"RESOURCE", "SECRET"}
           /\ FirstRead(kind) = "own" => kind = "APPROVAL_REQUEST"
           /\ FirstRead(kind) = "fetch" => kind \in {"PROJECT", "ENVIRONMENT"}
  BY DEF FirstRead, Kind

\* What is known of a walk that is under way, by the names of its parts.
LEMMA WalkUnderWay ==
    ASSUME ListInv, query.pc # "idle",
           NEW k, NEW p, NEW open, k = query.kind, p = query.principal, open = query.open
    PROVE  /\ k \in Kind /\ p \in Reader /\ open \in SUBSET RequestId
           /\ Pending \subseteq open /\ Visible(k, p, open) \subseteq query.seen
           /\ \A x \in query.batch : IF k = "SECRET" THEN IsSecretCandidate(x) ELSE x \in Everything(k)
           /\ \A i \in {x.id : x \in query.found} \cup query.items :
                 i \in query.seen \/ (k = "SECRET" /\ Gone(i))
           /\ query.within \cup query.queued \subseteq {r \in Resource : Exists(r)}
           /\ query.own \subseteq RequestsBy(p.subject)
           /\ \A x \in query.broad : IsSecretCandidate(x) /\ x.by = None
           /\ query.pc \notin {"own", "guardians", "fetch"} => query.broad = {}
           /\ query.pc = "projects" => k \in {"RESOURCE", "SECRET"}
           /\ query.pc = "secrets" => k = "SECRET"
           /\ query.pc = "own" => k \in {"SECRET", "APPROVAL_REQUEST"}
  BY DEF ListInv, QueryInv, WalkIsSound, FoundIsSound, IsWalk, WasSeen, IsCandidate

\* The service asks for a page.
LEMMA AskingKeepsList ==
    ASSUME ListInv,
           AskForNext \/ \E kind \in Kind, p \in Reader : AskForList(kind, p)
    PROVE  ListInv'
<1>1. CASE AskForNext
  <2>1. query.pc = "paged" /\ query.batch = {} /\ IsWalk
    BY <1>1 DEF AskForNext, ListInv, QueryInv, Bare
  <2>2. PICK k \in Kind, p \in Reader : k = query.kind /\ p = query.principal
    BY <2>1, WalkUnderWay
  <2>3. PICK open, seen, pc : open = Pending /\ seen = Visible(k, p, open) /\ pc = FirstRead(k)
    OBVIOUS
  <2>4. /\ query' = [query EXCEPT !.pc = pc, !.found = {}, !.items = {}, !.open = open,
                                  !.seen = seen]
        /\ UNCHANGED <<secretVars, request>>
    BY <1>1, <2>2, <2>3 DEF AskForNext
  <2>5. open \in SUBSET RequestId
    BY <2>3 DEF Pending
  <2>6. /\ pc \in {"projects", "own", "fetch"}
        /\ pc = "projects" => k \in {"RESOURCE", "SECRET"}
        /\ pc = "own" => k = "APPROVAL_REQUEST"
    BY <2>3, FirstReadIsOne
  <2>7. pc \in Phase
    BY <2>6 DEF Phase, Reading
  <2>8. /\ query'.pc = pc /\ query'.kind = k /\ query'.principal = p
        /\ query'.within = query.within /\ query'.broad = query.broad
        /\ query'.own = query.own /\ query'.queued = query.queued /\ query'.batch = {}
        /\ query'.found = {} /\ query'.items = {} /\ query'.open = open /\ query'.seen = seen
        /\ IsWalk'
    BY <2>1, <2>2, <2>4, <2>5, <2>7 DEF IsWalk
  <2>9. /\ query.within \cup query.queued \subseteq {r \in Resource : Exists(r)}
        /\ query.own \subseteq RequestsBy(p.subject)
        /\ query.broad = {}
    BY <2>1, <2>2, WalkUnderWay
  <2>10. QED
    BY <2>2, <2>3, <2>4, <2>6, <2>8, <2>9, ServiceStep
<1>2. ASSUME NEW k \in Kind, NEW p \in Reader, AskForList(k, p) PROVE ListInv'
  <2>1. PICK open, seen, pc : open = Pending /\ seen = Visible(k, p, open) /\ pc = FirstRead(k)
    OBVIOUS
  <2>2. PICK steady : query' = [NoWalk EXCEPT !.pc = pc, !.kind = k, !.principal = p,
                                  !.steady = steady, !.open = open, !.seen = seen]
    BY <1>2, <2>1 DEF AskForList
  <2>3. UNCHANGED <<secretVars, request>>
    BY <1>2 DEF AskForList
  <2>4. open \in SUBSET RequestId
    BY <2>1 DEF Pending
  <2>5. /\ pc \in {"projects", "own", "fetch"}
        /\ pc = "projects" => k \in {"RESOURCE", "SECRET"}
        /\ pc = "own" => k = "APPROVAL_REQUEST"
    BY <2>1, FirstReadIsOne
  <2>6. pc \in Phase
    BY <2>5 DEF Phase, Reading
  <2>7. /\ query'.pc = pc /\ query'.kind = k /\ query'.principal = p
        /\ query'.within = {} /\ query'.broad = {}
        /\ query'.own = {} /\ query'.queued = {} /\ query'.batch = {}
        /\ query'.found = {} /\ query'.items = {} /\ query'.open = open /\ query'.seen = seen
        /\ IsWalk'
    <3>1. query' = [pc |-> pc, kind |-> k, principal |-> p, cursor |-> None, within |-> {},
                    broad |-> {}, own |-> {}, queued |-> {}, batch |-> {}, short |-> FALSE,
                    pending |-> FALSE, found |-> {}, items |-> {}, listed |-> {}, count |-> 0,
                    steady |-> steady, open |-> open, seen |-> seen]
      BY <2>2 DEF NoWalk
    <3>2. IsWalk'
      BY <2>4, <2>6, <3>1 DEF IsWalk
    <3>3. QED
      BY <3>1, <3>2
  <2>8. QED
    BY <2>1, <2>3, <2>5, <2>7, ServiceStep
<1>3. QED
  BY <1>1, <1>2

\* A read of a batch leaves these in the walk.
Leaves(pc, within, broad, own, queued) ==
    query' = [query EXCEPT !.pc = pc, !.within = within, !.broad = broad,
                           !.own = own, !.queued = queued]

\* What the reads of a batch leave in a walk may be out of date, but it is sound.
LEMMA ReadIsSound ==
    ASSUME ListInv, UNCHANGED <<secretVars, request>>, query.batch = {},
           query.pc \in {"projects", "secrets", "own", "guardians"},
           NEW k \in Kind, k = query.kind, NEW p \in Reader, p = query.principal,
           NEW pc \in {"secrets", "own", "guardians", "fetch"},
           pc = "secrets" => k = "SECRET", pc = "own" => k \in {"SECRET", "APPROVAL_REQUEST"},
           NEW within, NEW broad, NEW own, NEW queued,
           within \cup queued \subseteq {r \in Resource : Exists(r)},
           own \subseteq RequestsBy(p.subject),
           \A x \in broad : IsSecretCandidate(x) /\ x.by = None,
           pc = "secrets" => broad = {},
           Leaves(pc, within, broad, own, queued)
    PROVE  ListInv'
<1>1. IsWalk /\ query.pc # "idle"
  BY DEF ListInv, QueryInv
<1>2. PICK open \in SUBSET RequestId : open = query.open
  BY <1>1, WalkUnderWay
<1>3. pc \in Phase
  BY DEF Phase, Reading
<1>4. /\ query'.pc = pc /\ query'.kind = k /\ query'.principal = p
      /\ query'.within = within /\ query'.broad = broad
      /\ query'.own = own /\ query'.queued = queued /\ query'.batch = {}
      /\ query'.found = query.found /\ query'.items = query.items
      /\ query'.open = open /\ query'.seen = query.seen
      /\ IsWalk'
  BY <1>1, <1>2, <1>3, ZenonT(60) DEF IsWalk, Leaves
<1>5. /\ Pending \subseteq open /\ Visible(k, p, open) \subseteq query.seen
      /\ \A i \in {x.id : x \in query.found} \cup query.items :
            i \in query.seen \/ (k = "SECRET" /\ Gone(i))
  BY <1>1, <1>2, WalkUnderWay
<1>6. QED
  BY <1>4, <1>5, ServiceStep

\* The reads of a batch.
LEMMA ReadingKeepsList ==
    ASSUME ListInv, ReadProjects \/ ReadSecrets \/ ReadOwnRequests \/ ReadGuardians
    PROVE  ListInv'
<1>1. query.pc \in {"projects", "secrets", "own", "guardians"} /\ UNCHANGED <<secretVars, request>>
  BY DEF ReadProjects, ReadSecrets, ReadOwnRequests, ReadGuardians
<1>2. query.batch = {} /\ IsWalk /\ SecretInv /\ Tables
  BY <1>1 DEF ListInv, QueryInv, Bare, Reading
<1>3. PICK k \in Kind, p \in Reader : k = query.kind /\ p = query.principal
  BY <1>1, WalkUnderWay
<1>4. PICK within, broad, own, queued : /\ within = query.within /\ broad = query.broad
                                        /\ own = query.own /\ queued = query.queued
  OBVIOUS
<1>5. /\ within \cup queued \subseteq {r \in Resource : Exists(r)}
      /\ own \subseteq RequestsBy(p.subject)
      /\ \A x \in broad : IsSecretCandidate(x) /\ x.by = None
      /\ query.pc \notin {"own", "guardians", "fetch"} => broad = {}
      /\ query.pc = "projects" => k \in {"RESOURCE", "SECRET"}
      /\ query.pc = "secrets" => k = "SECRET"
      /\ query.pc = "own" => k \in {"SECRET", "APPROVAL_REQUEST"}
  BY <1>1, <1>3, <1>4, WalkUnderWay
<1>6. PICK u \in User : u = p.subject
  BY ReaderAssumption DEF DiscordPrincipal
<1>7. CASE ReadProjects
  <2>1. PICK pc, now :
          /\ pc \in {"secrets", "guardians"}
          /\ pc = (IF k = "SECRET" THEN "secrets" ELSE "guardians")
          /\ now = EnvironmentsOf(u)
    OBVIOUS
  <2>2. Leaves(pc, now, broad, own, queued)
    BY <1>2, <1>3, <1>4, <1>6, <1>7, <2>1 DEF ReadProjects, IsWalk, Leaves
  <2>3. now \subseteq {r \in Resource : Exists(r)}
    BY <1>2, <2>1 DEF EnvironmentsOf, Tables
  <2>4. broad = {}
    BY <1>5, <1>7 DEF ReadProjects
  <2>5. QED
    BY <1>1, <1>2, <1>3, <1>5, <2>1, <2>2, <2>3, <2>4, ReadIsSound
<1>8. CASE ReadSecrets
  <2>1. PICK now : now = BroadSecrets(u, within)
    OBVIOUS
  <2>2. query.pc = "secrets" /\ Leaves("own", {}, now, own, queued)
    BY <1>2, <1>3, <1>4, <1>6, <1>8, <2>1 DEF ReadSecrets, IsWalk, Leaves
  <2>3. \A x \in now : IsSecretCandidate(x) /\ x.by = None
    <3> SUFFICES ASSUME NEW x \in now PROVE IsSecretCandidate(x) /\ x.by = None
      OBVIOUS
    <3>1. PICK r \in Resource, n \in Name : IsStored(r, n) /\ x = SecretRecord(r, n, None)
      BY <2>1 DEF BroadSecrets
    <3>2. QED
      BY <1>2, <3>1, SecretFields, StoredIsCandidate
  <2>4. QED
    BY <1>1, <1>2, <1>3, <1>5, <2>2, <2>3, ReadIsSound
<1>9. CASE ReadOwnRequests
  <2>1. PICK now : now = RequestsBy(u)
    OBVIOUS
  <2>2. Leaves("guardians", within, broad, now, queued)
    BY <1>2, <1>3, <1>4, <1>6, <1>9, <2>1 DEF ReadOwnRequests, IsWalk, Leaves
  <2>3. QED
    BY <1>1, <1>2, <1>3, <1>5, <1>6, <2>1, <2>2, ReadIsSound
<1>10. CASE ReadGuardians
  <2>1. PICK now : now = (IF k = "RESOURCE" THEN GuardedBy(u) ELSE QueuedFor(u))
    OBVIOUS
  <2>2. Leaves("fetch", within, broad, own, now)
    BY <1>2, <1>3, <1>4, <1>6, <1>10, <2>1 DEF ReadGuardians, IsWalk, Leaves
  <2>3. now \subseteq {r \in Resource : Exists(r)}
    BY <1>2, <2>1 DEF GuardedBy, QueuedFor, OwnedResources, Tables
  <2>4. QED
    BY <1>1, <1>2, <1>3, <1>5, <2>2, <2>3, ReadIsSound
<1>11. QED
  BY <1>7, <1>8, <1>9, <1>10

\* A step of the service that reads no rows, or those of a batch or of the policy.
LEMMA WalkGoesOn ==
    ASSUME ListInv, query.pc # "idle", UNCHANGED <<secretVars, request>>,
           query'.pc # "idle", IsWalk', query'.pc \in Bare => query'.batch = {},
           query'.kind = query.kind, query'.principal = query.principal,
           query'.open = query.open, query'.seen = query.seen, query'.broad = {},
           query'.within \subseteq query.within, query'.own \subseteq query.own,
           query'.queued \subseteq query.queued,
           \A x \in query'.batch : IsCandidate(x),
           \A x \in query'.found : WasSeen(x.id),
           \A i \in query'.items : WasSeen(i),
           query'.pc = "projects" => query.kind \in {"RESOURCE", "SECRET"},
           query'.pc = "secrets" => query.kind = "SECRET",
           query'.pc = "own" => query.kind \in {"SECRET", "APPROVAL_REQUEST"},
           query'.pc = "guardian" => \A x \in query'.batch :
               First(query'.batch, 1) = {x} /\ query'.pending => x.by \in query.open
    PROVE  ListInv'
<1>1. PICK k \in Kind, p \in Reader, open \in SUBSET RequestId :
        k = query.kind /\ p = query.principal /\ open = query.open
  BY WalkUnderWay
<1>2. /\ Pending \subseteq open /\ Visible(k, p, open) \subseteq query.seen
      /\ query.within \cup query.queued \subseteq {r \in Resource : Exists(r)}
      /\ query.own \subseteq RequestsBy(p.subject)
  BY <1>1, WalkUnderWay
<1>3. \A x \in query'.batch : IF k = "SECRET" THEN IsSecretCandidate(x) ELSE x \in Everything(k)
  BY <1>1 DEF IsCandidate
<1>4. \A i \in {x.id : x \in query'.found} \cup query'.items :
          i \in query'.seen \/ (k = "SECRET" /\ Gone(i))
  BY <1>1 DEF WasSeen
<1>5. /\ query'.within \cup query'.queued \subseteq {r \in Resource : Exists(r)}
      /\ query'.own \subseteq RequestsBy(p.subject)
  BY <1>2
<1>6. QED
  BY <1>1, <1>2, <1>3, <1>4, <1>5, ServiceStep

\* A batch is read and compared.
LEMMA BatchKeepsList ==
    ASSUME ListInv, Fetch \/ VerifyBatch
    PROVE  ListInv'
<1>1. query.pc \in {"fetch", "verify"} /\ UNCHANGED <<secretVars, request>>
  BY DEF Fetch, VerifyBatch
<1>2. IsWalk /\ WalkIsSound /\ FoundIsSound
  BY <1>1 DEF ListInv, QueryInv, WalkIsSound
<1>3. CASE Fetch
  <2> DEFINE all == Returned(query)
  <2>1. PICK batch, short, cursor :
          /\ batch = all /\ short = (Cardinality(all) <= PageLimit)
          /\ cursor = (IF all = {} THEN query.cursor ELSE Last(all).at)
    OBVIOUS
  <2>2. \A x \in batch : IsCandidate(x)
    <3>1. all \subseteq Candidates(query) /\ query.pc = "fetch"
      BY <1>3 DEF Returned, PageOf, First, Fetch
    <3>2. QED
      BY <2>1, <3>1, CandidatesArePlaced
  <2>3. query' = [query EXCEPT !.pc = "verify", !.batch = batch, !.within = {}, !.broad = {},
                     !.own = {}, !.queued = {}, !.short = short, !.cursor = cursor]
    BY <1>3, <2>1 DEF Fetch
  <2>4. /\ query'.pc = "verify" /\ query'.kind = query.kind
        /\ query'.principal = query.principal /\ query'.seen = query.seen
        /\ query'.open = query.open /\ query'.within = {} /\ query'.broad = {}
        /\ query'.own = {} /\ query'.queued = {}
        /\ query'.batch = batch /\ query'.found = query.found /\ query'.items = query.items
        /\ IsWalk'
    BY <1>2, <2>3, ZenonT(60) DEF IsWalk, Phase
  <2>5. "verify" \notin Bare
    BY DEF Bare, Reading
  <2>6. QED
    BY <1>1, <1>2, <2>2, <2>4, <2>5, WalkGoesOn DEF WalkIsSound
<1>4. CASE VerifyBatch
  <2>1. PICK pc \in {"authorize", "failed"} : query' = [query EXCEPT !.pc = pc]
    BY <1>4 DEF VerifyBatch
  <2>2. query.pc = "verify" /\ query.broad = {}
    BY <1>2, <1>4 DEF VerifyBatch, FoundIsSound
  <2>3. /\ query'.pc = pc /\ query'.kind = query.kind
        /\ query'.principal = query.principal /\ query'.seen = query.seen
        /\ query'.open = query.open /\ query'.within = query.within
        /\ query'.broad = query.broad /\ query'.own = query.own
        /\ query'.queued = query.queued /\ query'.batch = query.batch
        /\ query'.found = query.found /\ query'.items = query.items
        /\ IsWalk'
    BY <1>2, <2>1, ZenonT(60) DEF IsWalk, Phase
  <2>4. pc \notin Bare
    BY DEF Bare, Reading
  <2>5. QED
    BY <1>1, <1>2, <2>2, <2>3, <2>4, WalkGoesOn DEF WalkIsSound
<1>5. QED
  BY <1>3, <1>4

\* The policy reads the rows of a record.
LEMMA PolicyKeepsList ==
    ASSUME ListInv, NEW x \in query.batch, Authorize(x) \/ AuthorizeGuardian(x)
    PROVE  ListInv'
<1>1. query.pc \in {"authorize", "guardian"} /\ UNCHANGED <<secretVars, request>> /\ IsFirst(x)
  BY DEF Authorize, AuthorizeGuardian
<1>2. IsWalk /\ WalkIsSound /\ query.broad = {} /\ IsCandidate(x)
  BY <1>1 DEF ListInv, QueryInv, WalkIsSound, FoundIsSound
<1>3. "authorize" \notin Bare /\ "guardian" \notin Bare
  BY DEF Bare, Reading
<1>4. Pending \subseteq query.open
  BY <1>2 DEF WalkIsSound
<1>5. CASE Authorize(x)
  <2>0. IsPending(x.by) \in BOOLEAN
    BY DEF IsPending
  <2>1. PICK pending \in BOOLEAN : pending = IsPending(x.by)
    BY <2>0, Zenon
  <2>2. pending => x.by \in query.open
    <3>1. ASSUME pending PROVE x.by \in Pending
      <4>1. x.by \in RequestId
        <5>1. x.by # None
          BY <2>1, <3>1 DEF IsPending
        <5>2. CASE query.kind \in ByResource
          BY <1>2, <5>1, <5>2, CandidateAtResource DEF IsRecordAt
        <5>3. CASE query.kind \in {"PROJECT", "ENVIRONMENT"}
          <6>1. x \in Everything(query.kind)
            BY <1>2, <5>3 DEF IsCandidate
          <6>2. QED
            BY <5>1, <5>3, <6>1, RecordFields DEF Everything
        <5>4. QED
          BY <1>2, <5>2, <5>3 DEF WalkIsSound, Kind, ByResource
      <4>2. QED
        BY <2>1, <3>1, <4>1 DEF IsPending, Pending
    <3>2. QED
      BY <1>4, <3>1
  <2>3. ASSUME NEW way \in {"project", "request"},
               Shows(query.kind, x, way, pending, query.principal.subject)
        PROVE  ListInv'
    <3>1. WasSeen(x.id)
      BY <1>1, <1>2, <2>2, <2>3, AuthorizedWasSeen DEF Way
    <3>2. query' = [query EXCEPT !.batch = @ \ {x}, !.found = @ \cup {x}]
      BY <1>5, <2>1, <2>3 DEF Authorize
    <3>3. PICK batch, found : batch = query.batch \ {x} /\ found = query.found \cup {x}
      OBVIOUS
    <3>4. query.pc = "authorize" /\ query' = [query EXCEPT !.batch = batch, !.found = found]
      BY <1>5, <3>2, <3>3 DEF Authorize
    <3>5. /\ query'.pc = "authorize" /\ query'.kind = query.kind
          /\ query'.principal = query.principal /\ query'.seen = query.seen
          /\ query'.open = query.open /\ query'.within = query.within
          /\ query'.broad = query.broad /\ query'.own = query.own
          /\ query'.queued = query.queued /\ query'.batch = batch
          /\ query'.found = found /\ query'.items = query.items
          /\ IsWalk'
      BY <1>2, <3>4, ZenonT(60) DEF IsWalk
    <3>6. QED
      BY <1>1, <1>2, <1>3, <3>1, <3>3, <3>5, WalkGoesOn DEF WalkIsSound
  <2>4. CASE \A way \in {"project", "request"} :
               ~Shows(query.kind, x, way, pending, query.principal.subject)
    <3>1. query' = [query EXCEPT !.pc = "guardian", !.pending = pending]
      BY <1>5, <2>1, <2>4 DEF Authorize
    <3>2. /\ query'.pc = "guardian" /\ query'.kind = query.kind
          /\ query'.principal = query.principal /\ query'.seen = query.seen
          /\ query'.open = query.open /\ query'.within = query.within
          /\ query'.broad = query.broad /\ query'.own = query.own
          /\ query'.queued = query.queued /\ query'.batch = query.batch
          /\ query'.pending = pending
          /\ query'.found = query.found /\ query'.items = query.items
          /\ IsWalk'
      BY <1>2, <3>1, ZenonT(60) DEF IsWalk, Phase
    <3>3. \A y \in query.batch : First(query.batch, 1) = {y} => y = x
      BY <1>1 DEF IsFirst
    <3>4. QED
      BY <1>1, <1>2, <1>3, <2>2, <3>2, <3>3, WalkGoesOn DEF WalkIsSound
  <2>5. QED
    BY <2>3, <2>4
<1>6. CASE AuthorizeGuardian(x)
  <2>1. query.pc = "guardian" /\ (query.pending => x.by \in query.open)
    BY <1>2, <1>6 DEF AuthorizeGuardian, WalkIsSound
  <2>2. query.pending \in BOOLEAN
    BY <1>2 DEF IsWalk
  <2>3. IsGuardian(x) => WasSeen(x.id)
    BY <1>2, <2>1, <2>2, AuthorizedWasSeen DEF IsGuardian, Way
  <2>4. PICK batch, found : /\ batch = query.batch \ {x}
                            /\ found = (IF IsGuardian(x) THEN query.found \cup {x} ELSE query.found)
    OBVIOUS
  <2>5. query' = [query EXCEPT !.pc = "authorize", !.pending = FALSE, !.batch = batch,
                               !.found = found]
    BY <1>6, <2>4 DEF AuthorizeGuardian
  <2>6. /\ query'.pc = "authorize" /\ query'.kind = query.kind
        /\ query'.principal = query.principal /\ query'.seen = query.seen
        /\ query'.open = query.open /\ query'.within = query.within
        /\ query'.broad = query.broad /\ query'.own = query.own
        /\ query'.queued = query.queued /\ query'.batch = batch
        /\ query'.found = found /\ query'.items = query.items
        /\ IsWalk'
    BY <1>2, <2>5, ZenonT(60) DEF IsWalk, Phase
  <2>7. \A y \in found : WasSeen(y.id)
    BY <1>2, <2>3, <2>4 DEF WalkIsSound
  <2>8. QED
    BY <1>1, <1>2, <1>3, <2>4, <2>6, <2>7, WalkGoesOn DEF WalkIsSound
<1>7. QED
  BY <1>5, <1>6

\* The service reads on, or answers.
LEMMA AnsweringKeepsList ==
    ASSUME ListInv, FetchMore \/ Answer
    PROVE  ListInv'
<1>1. /\ query.pc = "authorize" /\ query.batch = {}
      /\ UNCHANGED <<secretVars, request>>
  BY DEF FetchMore, Answer
<1>2. IsWalk /\ WalkIsSound /\ query.broad = {}
  BY <1>1 DEF ListInv, QueryInv, WalkIsSound, FoundIsSound
<1>3. CASE FetchMore
  <2>1. PICK k, pc : k \in Kind /\ k = query.kind /\ pc = FirstRead(k)
    BY <1>2 DEF WalkIsSound
  <2>2. query' = [query EXCEPT !.pc = pc]
    BY <1>3, <2>1 DEF FetchMore
  <2>3. /\ pc \in {"projects", "own", "fetch"}
        /\ pc = "projects" => k \in {"RESOURCE", "SECRET"}
        /\ pc = "own" => k = "APPROVAL_REQUEST"
    BY <2>1, FirstReadIsOne
  <2>4. pc \in Phase
    BY <2>3 DEF Phase, Reading
  <2>5. /\ query'.pc = pc /\ query'.kind = query.kind
        /\ query'.principal = query.principal /\ query'.seen = query.seen
        /\ query'.open = query.open /\ query'.within = query.within
        /\ query'.broad = query.broad /\ query'.own = query.own
        /\ query'.queued = query.queued /\ query'.batch = query.batch
        /\ query'.found = query.found /\ query'.items = query.items
        /\ IsWalk'
    BY <1>2, <2>2, <2>4, ZenonT(60) DEF IsWalk
  <2>6. QED
    BY <1>1, <1>2, <2>1, <2>3, <2>5, WalkGoesOn DEF WalkIsSound
<1>4. CASE Answer
  <2> DEFINE ids == {x.id : x \in First(query.found, PageLimit)}
             isLast == Cardinality(query.found) <= PageLimit
  <2>1. query' = [query EXCEPT !.pc = IF isLast THEN "done" ELSE "paged",
                               !.cursor = IF isLast THEN None ELSE NextCursor,
                               !.found = {}, !.items = ids, !.listed = @ \cup ids,
                               !.count = @ + Cardinality(ids)]
    BY <1>4 DEF Answer
  <2>2. PICK pc, cursor, listed, count :
          /\ pc = (IF isLast THEN "done" ELSE "paged")
          /\ cursor = (IF isLast THEN None ELSE NextCursor)
          /\ listed = query.listed \cup ids /\ count = query.count + Cardinality(ids)
    OBVIOUS
  <2>3. /\ pc \in {"done", "paged"}
        /\ query' = [query EXCEPT !.pc = pc, !.cursor = cursor, !.found = {}, !.items = ids,
                         !.listed = listed, !.count = count]
    BY <2>1, <2>2
  <2>4. \A i \in ids : WasSeen(i)
    BY <1>2 DEF WalkIsSound, First
  <2> HIDE DEF ids, isLast
  <2>5. /\ query'.pc = pc /\ query'.kind = query.kind
        /\ query'.principal = query.principal /\ query'.seen = query.seen
        /\ query'.open = query.open /\ query'.within = query.within
        /\ query'.broad = query.broad /\ query'.own = query.own
        /\ query'.queued = query.queued /\ query'.batch = query.batch
        /\ query'.found = {} /\ query'.items = ids
        /\ IsWalk'
    BY <1>2, <2>3, ZenonT(60) DEF IsWalk, Phase
  <2>6. QED
    BY <1>1, <1>2, <2>3, <2>4, <2>5, WalkGoesOn DEF WalkIsSound
<1>5. QED
  BY <1>3, <1>4

\* Every step of the lists and of what runs beside them keeps the invariant.
LEMMA ListInvIsInductive == ListInv /\ [ListNext]_listVars => ListInv'
<1> SUFFICES ASSUME ListInv, [ListNext]_listVars PROVE ListInv'
  OBVIOUS
<1>1. CASE Others
  BY <1>1, OthersKeepList
<1>2. CASE Service
  BY <1>2, AskingKeepsList, ReadingKeepsList, BatchKeepsList, PolicyKeepsList,
     AnsweringKeepsList DEF Service
<1>3. CASE UNCHANGED listVars
  <2>1. UNCHANGED <<secretVars, request>> /\ query' = query
    BY <1>3 DEF listVars
  <2>2. UNCHANGED <<policyVars, owner, member, home, guardian, version, field, drawn, request>>
    BY <2>1 DEF secretVars, policyVars
  <2>3. SecretInv' /\ Tables'
    BY <2>1, <2>2, SecretsStutter DEF ListInv, Tables, Made, Exists, IsLinked
  <2>4. RowsLast /\ RequestsLast
    BY <2>2 DEF RowsLast, RequestsLast, Made, Exists
  <2>5. QueryInv'
    <3>1. ASSUME query.pc # "idle" PROVE WalkIsSound'
      <4>1. PICK k, p, open :
              /\ k \in Kind /\ p \in Reader
              /\ k = query.kind /\ p = query.principal /\ open = query.open
        BY <3>1, WalkUnderWay
      <4>2. Pending \subseteq open /\ Visible(k, p, open) \subseteq query.seen
        BY <3>1, <4>1, WalkUnderWay
      <4>3. Pending' = Pending /\ Visible(k, p, open)' = Visible(k, p, open)
        BY <2>2, <4>1, VisibleStays
      <4>4. \A l, o, v : l = query.kind /\ o = query.principal /\ v = query'.open =>
                Visible(l, o, v)' \subseteq query'.seen
        BY <2>1, <4>1, <4>2, <4>3
      <4>5. QED
        BY <2>1, <2>4, <3>1, <4>1, <4>2, <4>3, <4>4, WalkStaysSound
    <3>2. IsWalk'
      BY <2>1 DEF ListInv, QueryInv, IsWalk
    <3>3. QED
      BY <2>1, <3>1, <3>2 DEF ListInv, QueryInv
  <2>6. QED
    BY <2>3, <2>5 DEF ListInv
<1>4. QED
  BY <1>1, <1>2, <1>3 DEF ListNext

\* However roles, secrets and requests change between the reads of a page and those
\* of the policy, it shows nothing that is there and that its reader had no right to
\* see at any moment since asking for it.
THEOREM PagesShowTheVisible == ListSpec => []ListedWasVisible
<1>1. ListInv => ListedWasVisible
  <2> SUFFICES ASSUME ListInv, query.pc \in {"paged", "done"},
                      NEW x \in Everything(query.kind), x.id \in query.items
               PROVE  x.id \in query.seen
    BY DEF ListedWasVisible
  <2>1. WasSeen(x.id)
    BY DEF ListInv, QueryInv, WalkIsSound
  <2>2. CASE query.kind = "SECRET"
    <3>1. PICK r \in Resource, n \in Name : \E q : x = SecretRecord(r, n, q)
      BY <2>2, ListedAreStored
    <3>2. ~Gone(x.id)
      BY <3>1, SecretFields DEF Gone
    <3>3. QED
      BY <2>1, <3>2 DEF WasSeen
  <2>3. QED
    BY <2>1, <2>2 DEF WasSeen
<1>2. QED
  BY <1>1, ListInitially, ListInvIsInductive, PTL DEF ListSpec

-------------------------------------------------------------------------------
(* The lists: a walk leaves nothing out                                      *)

\* A candidate was found by no request or by one that was made.
LEMMA CandidateHasRequest ==
    ASSUME ListInv, query.pc # "idle", NEW x, IsCandidate(x)
    PROVE  x.by = None \/ (x.by \in RequestId /\ Made(x.by))
<1>1. query.kind \in Kind
  BY DEF ListInv, QueryInv, WalkIsSound
<1>2. CASE query.kind \in ByResource
  BY <1>2, CandidateAtResource DEF IsRecordAt
<1>3. CASE query.kind \in {"PROJECT", "ENVIRONMENT"}
  <2>1. x \in Everything(query.kind)
    BY <1>3 DEF IsCandidate
  <2>2. QED
    BY <1>3, <2>1, RecordFields DEF Everything
<1>4. QED
  BY <1>1, <1>2, <1>3 DEF Kind, ByResource

\* What a candidate carries it keeps, whatever happens to rows.
LEMMA CandidateStays ==
    ASSUME ListInv, query.pc # "idle", RowsLast, RequestsLast,
           query'.kind = query.kind, query'.principal = query.principal,
           NEW x, IsCandidate(x)
    PROVE  /\ IsOwnRequest(x)' <=> IsOwnRequest(x)
           /\ IsPending(x.by)' => IsPending(x.by)
           /\ \A g : Carries(x, g) => Carries(x, g)'
<1>1. x.by = None \/ (x.by \in RequestId /\ Made(x.by))
  BY CandidateHasRequest
<1>2. PICK u \in User : u = query.principal.subject
  BY ReaderAssumption DEF ListInv, QueryInv, WalkIsSound, DiscordPrincipal
<1>3. IsOwnRequest(x)' <=> IsOwnRequest(x)
  <2>1. CASE x.by = None
    BY <2>1 DEF IsOwnRequest, AsRequester
  <2>2. CASE x.by \in RequestId /\ Made(x.by)
    BY <2>2 DEF IsOwnRequest, AsRequester, AsksForIt, RequestsLast
  <2>3. QED
    BY <1>1, <2>1, <2>2
<1>4. IsPending(x.by)' => IsPending(x.by)
  BY <1>1 DEF IsPending, RequestsLast
<1>5. query.kind = "SECRET" /\ guardian[x.resource][u] = "OWNER" => guardian'[x.resource][u] = "OWNER"
  BY DEF IsCandidate, IsSecretCandidate, RowsLast
<1>6. ASSUME NEW g, Carries(x, g) PROVE Carries(x, g)'
  BY <1>2, <1>3, <1>5, <1>6 DEF Carries
<1>7. QED
  BY <1>3, <1>4, <1>6

\* The ground of what is promised: its way, and a request that was made.
LEMMA GroundsRest ==
    ASSUME ListInv, query.pc # "idle", NEW g \in Promised(query.kind, query.principal)
    PROVE  /\ \E e \in Everything(query.kind) :
                 g[1] = e.id /\ g[2] \in Way /\ g[3] = e.by
           /\ \E a \in Place : /\ IsPlace(query.kind, g[1], a)
                               /\ \A b : IsPlace(query.kind, g[1], b) => b = a
           /\ query.kind \in ByResource =>
                 g[3] = None \/ (g[3] \in RequestId /\ Made(g[3]))
           /\ query.kind \in ByResource /\ g[2] = "request" => g[3] # None
           /\ query.kind = "APPROVAL_REQUEST" => g[3] # None
           /\ query.kind = "SECRET" => g[1] \in drawn
<1>1. PICK u \in User : query.principal = DiscordPrincipal(u)
  BY ReaderAssumption DEF ListInv, QueryInv, WalkIsSound
<1>2. query.kind \in Kind /\ SecretInv /\ Tables /\ PolicyTypeOK
  BY DEF ListInv, QueryInv, WalkIsSound, SecretInv, SecretTypeOK
<1>3. PICK e \in Everything(query.kind), way \in Way :
         g = <<e.id, way, e.by>> /\ IsGround(query.kind, e, way, u)
  BY <1>1, <1>2, PromisedIsShown
<1>4. g[1] = e.id /\ g[2] = way /\ g[3] = e.by
  BY <1>3
<1>5. IsPlace(query.kind, e.id, e.at) /\ \A b : IsPlace(query.kind, e.id, b) => b = e.at
  BY <1>2, ListedHaveOnePlace
<1>6. e.at \in Place /\ (query.kind = "SECRET" => e.id \in drawn)
  BY <1>5 DEF IsPlace
<1>7. ASSUME query.kind \in ByResource
      PROVE  /\ e.by = None \/ (e.by \in RequestId /\ Made(e.by))
             /\ way = "request" => e.by # None
             /\ query.kind = "APPROVAL_REQUEST" => e.by # None
  <2>1. PICK r \in Resource :
          /\ IsRecordAt(e, r)
          /\ query.kind = "APPROVAL_REQUEST" => e.id \in RequestId /\ e.by = e.id
    BY <1>2, <1>7, ListedAtResource
  <2>2. PICK pending \in BOOLEAN : pending = IsPending(e.by)
    <3>1. IsPending(e.by) \in BOOLEAN
      BY DEF IsPending
    <3>2. QED
      BY <3>1, Zenon
  <2>3. Shows(query.kind, e, way, pending, u)
    BY <1>3, <2>2 DEF IsGround
  <2>4. way = "request" => AsRequester(query.kind, e, u)
    BY <1>2, <1>7, <2>1, <2>3, WhatShows
  <2>5. QED
    BY <2>1, <2>4, RequestIdAssumption DEF IsRecordAt, AsRequester
<1>8. \E a \in Place : /\ IsPlace(query.kind, g[1], a)
                      /\ \A b : IsPlace(query.kind, g[1], b) => b = a
  BY <1>4, <1>5, <1>6
<1>9. \E o \in Everything(query.kind) : g[1] = o.id /\ g[2] \in Way /\ g[3] = o.by
  BY <1>4
<1>10. QED
  BY <1>4, <1>6, <1>7, <1>8, <1>9 DEF ByResource

\* What the reads have found of it stays found.
LEMMA FoundStays ==
    ASSUME ListInv, query.pc # "idle", RowsLast, RequestsLast,
           query'.pc = query.pc, query'.kind = query.kind, query'.principal = query.principal,
           query'.within = query.within, query'.broad = query.broad, query'.own = query.own,
           query'.queued = query.queued,
           NEW g \in Promised(query.kind, query.principal), FoundSoFar(g)
    PROVE  FoundSoFar(g)'
<1>1. /\ query.kind \in ByResource => g[3] = None \/ (g[3] \in RequestId /\ Made(g[3]))
      /\ query.kind \in ByResource /\ g[2] = "request" => g[3] # None
      /\ query.kind = "APPROVAL_REQUEST" => g[3] # None
      /\ query.kind = "SECRET" => g[1] \in drawn
  BY GroundsRest
<1>2. query.kind \in ByResource /\ g[3] # None => request'[g[3]].resource = request[g[3]].resource
  BY <1>1 DEF RequestsLast
<1>3. query.kind = "RESOURCE" => ResourceIsFound(g)'
  BY DEF FoundSoFar, ResourceIsFound
<1>4. query.kind = "APPROVAL_REQUEST" => RequestIsFound(g)'
  BY <1>1, <1>2 DEF FoundSoFar, RequestIsFound, ByResource
<1>5. query.kind = "SECRET" => SecretIsFound(g)'
  <2> SUFFICES ASSUME query.kind = "SECRET" PROVE SecretIsFound(g)'
    OBVIOUS
  <2>1. SecretIsFound(g)
    BY DEF FoundSoFar
  <2>2. \A r \in Resource, n \in Name : field'[r][n].id = g[1] => field[r][n].id = g[1]
    BY <1>1 DEF RowsLast
  <2>3. /\ g[3] # None => request'[g[3]].resource = request[g[3]].resource
        /\ g[2] = "request" => g[3] # None
    BY <1>1, <1>2 DEF ByResource
  <2>4. QED
    BY <2>1, <2>2, <2>3 DEF SecretIsFound
<1>6. QED
  BY <1>3, <1>4, <1>5 DEF FoundSoFar

\* Steps after which the pages, the cursor and what is on its way are as before.
LEMMA PagesStay ==
    ASSUME ListInv, PageInv, RowsLast, RequestsLast, query.pc \notin {"idle", "failed"},
           query'.kind = query.kind, query'.principal = query.principal,
           query'.cursor = query.cursor, query'.within = query.within,
           query'.broad = query.broad, query'.own = query.own, query'.queued = query.queued,
           query'.batch = query.batch, query'.short = query.short,
           query'.pending = query.pending, query'.found = query.found,
           query'.listed = query.listed, query'.count = query.count,
           query'.steady \subseteq query.steady,
           \A k, p : k = query.kind /\ p = query.principal => query'.steady \subseteq Promised(k, p)',
           query'.pc = query.pc
              \/ (query.pc = "paged" /\ query'.pc = FirstRead(query.kind))
              \/ (query.pc = "verify" /\ query'.pc = "authorize")
              \/ (query.pc = "authorize" /\ query'.pc = FirstRead(query.kind) /\ ~query.short)
    PROVE  PageInv'
<1>1. PICK k \in Kind, p \in Reader :
         k = query.kind /\ k = query'.kind /\ p = query.principal /\ p = query'.principal
  BY DEF ListInv, QueryInv, WalkIsSound
<1>2. \A i, a : IsPlace(k, i, a) => IsPlace(k, i, a)'
  BY PlacesLast
<1>3. OnTheWay' = OnTheWay
  BY DEF OnTheWay
<1>4. \A a : /\ IsPassed(a)' <=> IsPassed(a)
             /\ IsAhead(a)' <=> IsAhead(a)
  BY DEF IsPassed, IsAhead
<1>5. query.steady \subseteq Promised(query.kind, query.principal)
  BY DEF PageInv
<1>6. /\ FirstRead(k) \in {"projects", "own", "fetch"}
      /\ FirstRead(k) = "projects" => k \in {"RESOURCE", "SECRET"}
      /\ FirstRead(k) = "own" => k = "APPROVAL_REQUEST"
      /\ FirstRead(k) = "fetch" => k \in {"PROJECT", "ENVIRONMENT"}
  BY FirstReadIsOne
<1>7. PagesAreOrdered => PagesAreOrdered'
  BY <1>1, <1>2, <1>3, <1>4 DEF PagesAreOrdered
<1>8. \A x \in query.batch : IsCandidate(x)
  BY DEF ListInv, QueryInv, WalkIsSound
<1>9. \A x \in query.batch :
         /\ IsOwnRequest(x)' <=> IsOwnRequest(x)
         /\ IsPending(x.by)' => IsPending(x.by)
         /\ \A g : Carries(x, g) => Carries(x, g)'
  BY <1>8, CandidateStays
<1>10. \A g : IsKept(g) => IsKept(g)'
  <2> SUFFICES ASSUME NEW g, IsKept(g) PROVE IsKept(g)'
    OBVIOUS
  <2>1. CASE g[1] \in query.listed \/ \E x \in query.found : x.id = g[1]
    BY <2>1 DEF IsKept
  <2>2. CASE \E x \in query.batch : x.id = g[1] /\ Carries(x, g)
    BY <1>9, <2>2 DEF IsKept
  <2>3. CASE /\ query.pc \in Reading \cup {"paged"} \/ ~query.short
             /\ \E a \in Place : IsPlace(k, g[1], a) /\ IsAhead(a)
    <3>1. query'.pc \in Reading \cup {"paged"} \/ ~query'.short
      BY <1>1, <1>6, <2>3 DEF Reading
    <3>2. \E a \in Place : IsPlace(k, g[1], a)' /\ IsAhead(a)'
      BY <1>2, <1>4, <2>3
    <3>3. QED
      BY <1>1, <3>1, <3>2 DEF IsKept
  <2>4. QED
    BY <1>1, <2>1, <2>2, <2>3 DEF IsKept
<1>11. \A g \in query'.steady : FoundSoFar(g)'
  <2> SUFFICES ASSUME NEW g \in query'.steady PROVE FoundSoFar(g)'
    OBVIOUS
  <2>1. CASE query'.pc = query.pc
    <3>1. g \in Promised(query.kind, query.principal) /\ FoundSoFar(g)
      BY <1>5 DEF PageInv
    <3>2. QED
      BY <2>1, <3>1, FoundStays
  <2>2. CASE query'.pc = FirstRead(k)
    BY <1>1, <1>6, <2>2 DEF FoundSoFar, ResourceIsFound, SecretIsFound, RequestIsFound
  <2>3. CASE query'.pc = "authorize"
    BY <2>3 DEF FoundSoFar, ResourceIsFound, SecretIsFound, RequestIsFound
  <2>4. QED
    BY <1>1, <2>1, <2>2, <2>3
<1>12. query'.pc = "guardian" => \A x \in query'.batch : IsFirst(x)' => LeftToGuardian(x)'
  <2> SUFFICES ASSUME query'.pc = "guardian", NEW x \in query'.batch, IsFirst(x)'
               PROVE  LeftToGuardian(x)'
    OBVIOUS
  <2>1. query.pc = "guardian" /\ x \in query.batch /\ IsFirst(x)
    BY <1>1, <1>6 DEF IsFirst
  <2>2. LeftToGuardian(x)
    BY <2>1 DEF PageInv
  <2>3. QED
    BY <1>9, <2>1, <2>2 DEF LeftToGuardian
<1>13. query'.steady \subseteq Promised(k, p)'
  BY <1>1
<1>14. query'.pc = "paged" => query'.found = {}
  BY <1>1, <1>6 DEF PageInv
<1>15. CASE query'.pc = "done"
  <2>1. query.pc = "done"
    BY <1>1, <1>6, <1>15
  <2>2. QED
    BY <1>1, <1>11, <1>12, <1>13, <1>15, <2>1 DEF PageInv
<1>16. CASE query'.pc # "done"
  <2>1. query.pc # "done"
    BY <1>16
  <2>2. PagesAreOrdered' /\ \A g \in query'.steady : IsKept(g)'
    BY <1>7, <1>10, <2>1 DEF PageInv
  <2>3. QED
    BY <1>1, <1>11, <1>12, <1>13, <1>14, <1>16, <2>2 DEF PageInv
<1>17. QED
  BY <1>15, <1>16

\* What changes beside a walk takes from what was promised and adds nothing.
LEMMA OthersKeepPages == ListInv /\ PageInv /\ Others => PageInv'
<1> SUFFICES ASSUME ListInv, PageInv, Others PROVE PageInv'
  OBVIOUS
<1>1. RowsLast /\ RequestsLast /\ QueryAfterChange
  BY OthersLast DEF ListInv
<1>2. IsWalk
  BY DEF ListInv, QueryInv
<1>3. CASE query.pc \in {"idle", "failed"}
  <2>1. query'.pc = query.pc
    BY <1>1, <1>2 DEF QueryAfterChange, IsWalk
  <2>2. QED
    BY <1>3, <2>1 DEF PageInv
<1>4. CASE query.pc \notin {"idle", "failed"}
  <2>1. PICK k \in Kind, p \in Reader : k = query.kind /\ p = query.principal
    BY <1>4 DEF ListInv, QueryInv, WalkIsSound
  <2>2. \/ query' = query /\ UNCHANGED <<policyVars, version, field, request>>
        \/ \E O, S : query' = [query EXCEPT !.steady = @ \cap Promised(k, p)',
                                            !.open = O, !.seen = S]
    <3>1. PromisedTo'[k][p] = Promised(k, p)'
      BY DEF PromisedTo
    <3>2. QED
      BY <1>1, <1>4, <2>1, <3>1 DEF QueryAfterChange
  <2>3. CASE query' = query /\ UNCHANGED <<policyVars, version, field, request>>
    <3>1. Promised(k, p)' = Promised(k, p)
      BY <2>3, PromisedStays
    <3>2. query.steady \subseteq Promised(k, p)
      BY <1>4, <2>1 DEF PageInv
    <3>3. QED
      BY <1>1, <1>4, <2>1, <2>3, <3>1, <3>2, PagesStay
  <2>4. ASSUME NEW O, NEW S,
               query' = [query EXCEPT !.steady = @ \cap Promised(k, p)', !.open = O, !.seen = S]
        PROVE  PageInv'
    <3>1. PICK steady : steady = query.steady \cap Promised(k, p)'
      OBVIOUS
    <3>2. query' = [query EXCEPT !.steady = steady, !.open = O, !.seen = S]
      BY <2>4, <3>1
    <3>3. /\ query'.kind = query.kind /\ query'.principal = query.principal
          /\ query'.cursor = query.cursor /\ query'.within = query.within
          /\ query'.broad = query.broad /\ query'.own = query.own
          /\ query'.queued = query.queued /\ query'.batch = query.batch
          /\ query'.short = query.short /\ query'.pending = query.pending
          /\ query'.found = query.found /\ query'.listed = query.listed
          /\ query'.count = query.count /\ query'.pc = query.pc
          /\ query'.steady = steady
      BY <1>2, <3>2, ZenonT(60) DEF IsWalk
    <3>4. steady \subseteq query.steady /\ steady \subseteq Promised(k, p)'
      BY <3>1
    <3>5. QED
      BY <1>1, <1>4, <2>1, <3>3, <3>4, PagesStay
  <2>5. QED
    BY <2>2, <2>3, <2>4
<1>5. QED
  BY <1>3, <1>4

\* The rows under a step of the service.
LEMMA ServiceKeepsRows ==
    ASSUME Service
    PROVE  /\ UNCHANGED <<secretVars, request>>
           /\ RowsLast /\ RequestsLast
           /\ \A kind : \A p \in Reader : Promised(kind, p)' = Promised(kind, p)
<1>1. UNCHANGED <<secretVars, request>>
  BY DEF Service, AskForList, AskForNext, ReadProjects, ReadSecrets, ReadOwnRequests,
         ReadGuardians, Fetch, VerifyBatch, Authorize, AuthorizeGuardian, FetchMore, Answer
<1>2. UNCHANGED <<policyVars, owner, member, home, guardian, version, field, drawn, request>>
  BY <1>1 DEF secretVars, policyVars
<1>3. RowsLast /\ RequestsLast
  BY <1>2 DEF RowsLast, RequestsLast, Exists, Made
<1>4. QED
  BY <1>1, <1>2, <1>3, PromisedStays

\* Steps of the service that begin to read, or compare a batch.
LEMMA QuietStepsKeepPages ==
    ASSUME ListInv, PageInv, AskForNext \/ VerifyBatch \/ FetchMore PROVE PageInv'
<1>1. /\ RowsLast /\ RequestsLast
      /\ \A kind : \A p \in Reader : Promised(kind, p)' = Promised(kind, p)
  BY ServiceKeepsRows DEF Service
<1>2. query.pc \in {"paged", "verify", "authorize"}
  BY DEF AskForNext, VerifyBatch, FetchMore
<1>3. PICK k \in Kind, p \in Reader : k = query.kind /\ p = query.principal
  BY <1>2 DEF ListInv, QueryInv, WalkIsSound
<1>4. query.steady \subseteq Promised(k, p)'
  BY <1>1, <1>2, <1>3 DEF PageInv
<1>5. IsWalk
  BY DEF ListInv, QueryInv
<1>6. CASE AskForNext
  <2>1. query.pc = "paged" /\ query.found = {}
    BY <1>6 DEF AskForNext, PageInv
  <2>2. PICK pc, open, seen :
          /\ pc = FirstRead(k)
          /\ query' = [query EXCEPT !.pc = pc, !.found = {}, !.items = {}, !.open = open,
                                    !.seen = seen]
    BY <1>3, <1>6 DEF AskForNext
  <2>3. /\ query'.kind = query.kind /\ query'.principal = query.principal
        /\ query'.cursor = query.cursor /\ query'.within = query.within
        /\ query'.broad = query.broad /\ query'.own = query.own
        /\ query'.queued = query.queued /\ query'.batch = query.batch
        /\ query'.short = query.short /\ query'.pending = query.pending
        /\ query'.found = query.found /\ query'.listed = query.listed
        /\ query'.count = query.count /\ query'.steady = query.steady /\ query'.pc = pc
    BY <1>5, <2>1, <2>2, ZenonT(60) DEF IsWalk
  <2>4. QED
    BY <1>1, <1>3, <1>4, <2>1, <2>2, <2>3, PagesStay
<1>7. CASE VerifyBatch
  <2>1. PICK pc \in {"authorize", "failed"} : query' = [query EXCEPT !.pc = pc]
    BY <1>7 DEF VerifyBatch
  <2>2. /\ query'.kind = query.kind /\ query'.principal = query.principal
        /\ query'.cursor = query.cursor /\ query'.within = query.within
        /\ query'.broad = query.broad /\ query'.own = query.own
        /\ query'.queued = query.queued /\ query'.batch = query.batch
        /\ query'.short = query.short /\ query'.pending = query.pending
        /\ query'.found = query.found /\ query'.listed = query.listed
        /\ query'.count = query.count /\ query'.steady = query.steady /\ query'.pc = pc
    BY <1>5, <2>1, ZenonT(60) DEF IsWalk
  <2>3. CASE pc = "failed"
    BY <2>2, <2>3 DEF PageInv
  <2>4. CASE pc = "authorize"
    <3>1. query.pc = "verify"
      BY <1>7 DEF VerifyBatch
    <3>2. QED
      BY <1>1, <1>3, <1>4, <2>2, <2>4, <3>1, PagesStay
  <2>5. QED
    BY <2>3, <2>4
<1>8. CASE FetchMore
  <2>1. PICK pc : pc = FirstRead(k)
    OBVIOUS
  <2>2. query.pc = "authorize" /\ ~query.short /\ query' = [query EXCEPT !.pc = pc]
    BY <1>3, <1>8, <2>1 DEF FetchMore, IsEnough
  <2>3. /\ query'.kind = query.kind /\ query'.principal = query.principal
        /\ query'.cursor = query.cursor /\ query'.within = query.within
        /\ query'.broad = query.broad /\ query'.own = query.own
        /\ query'.queued = query.queued /\ query'.batch = query.batch
        /\ query'.short = query.short /\ query'.pending = query.pending
        /\ query'.found = query.found /\ query'.listed = query.listed
        /\ query'.count = query.count /\ query'.steady = query.steady /\ query'.pc = pc
    BY <1>5, <2>2, ZenonT(60) DEF IsWalk
  <2>4. QED
    BY <1>1, <1>3, <1>4, <2>1, <2>2, <2>3, PagesStay
<1>9. QED
  BY <1>6, <1>7, <1>8

\* Before the first page all that is promised is ahead.
LEMMA FirstPageKeepsAll ==
    ASSUME ListInv, NEW kind \in Kind, NEW p \in Reader, AskForList(kind, p) PROVE PageInv'
<1>1. /\ RowsLast /\ Promised(kind, p)' = Promised(kind, p)
      /\ SecretInv /\ Tables
  BY ServiceKeepsRows DEF Service, ListInv
<1>2. PICK pc, steady, open, seen :
        /\ pc = FirstRead(kind) /\ steady = Promised(kind, p)
        /\ query' = [NoWalk EXCEPT !.pc = pc, !.kind = kind, !.principal = p,
                       !.steady = steady, !.open = open, !.seen = seen]
  BY DEF AskForList
<1>3. /\ query'.pc = pc /\ query'.kind = kind /\ query'.principal = p
      /\ query'.cursor = None /\ query'.batch = {} /\ query'.found = {} /\ query'.broad = {}
      /\ query'.listed = {} /\ query'.count = 0 /\ query'.steady = steady
  BY <1>2 DEF NoWalk
<1>4. PICK u \in User : p = DiscordPrincipal(u)
  BY ReaderAssumption
<1>5. /\ pc \in {"projects", "own", "fetch"}
      /\ pc = "projects" => kind \in {"RESOURCE", "SECRET"}
      /\ pc = "own" => kind = "APPROVAL_REQUEST"
      /\ pc = "fetch" => kind \in {"PROJECT", "ENVIRONMENT"}
  BY <1>2, FirstReadIsOne
<1>6. \A g \in steady : \E a \in Place : IsPlace(kind, g[1], a)'
  <2> SUFFICES ASSUME NEW g \in steady PROVE \E a \in Place : IsPlace(kind, g[1], a)'
    OBVIOUS
  <2>1. PICK e \in Everything(kind), way \in Way : g = <<e.id, way, e.by>>
    BY <1>2, <1>4, PromisedIsShown
  <2>2. IsPlace(kind, e.id, e.at)
    BY <1>1, ListedHaveOnePlace
  <2>3. g[1] = e.id /\ e.at \in Place
    BY <2>1, <2>2 DEF IsPlace
  <2>4. IsPlace(kind, e.id, e.at)'
    BY <1>1, <2>2, PlacesLast
  <2>5. QED
    BY <2>3, <2>4
<1>7. \A g \in steady : IsKept(g)'
  <2>1. pc \in Reading
    BY <1>5 DEF Reading
  <2>2. QED
    BY <1>3, <1>6, <2>1 DEF IsKept, IsAhead
<1>8. PagesAreOrdered'
  BY <1>3 DEF PagesAreOrdered, OnTheWay
<1>9. query'.steady \subseteq Promised(kind, p)'
  BY <1>1, <1>2, <1>3
<1>10. \A g \in steady : FoundSoFar(g)'
  BY <1>3, <1>5 DEF FoundSoFar, ResourceIsFound, SecretIsFound, RequestIsFound
<1>11. QED
  BY <1>3, <1>5, <1>7, <1>8, <1>9, <1>10, FS_EmptySet DEF PageInv

\* The rows that what is promised rests on, which each read of a batch finds.
LEMMA GroundAtResource ==
    ASSUME ListInv, query.pc # "idle", query.kind \in ByResource,
           NEW u, u = query.principal.subject,
           NEW g \in Promised(query.kind, query.principal)
    PROVE  \E r \in Resource :
             /\ query.kind = "RESOURCE" => g[1] = r
             /\ query.kind = "SECRET" =>
                   \E n \in Name : /\ IsStored(r, n) /\ field[r][n].id = g[1]
                                   /\ \A s \in Resource, m \in Name :
                                         field[s][m].id = g[1] => s = r /\ m = n
             /\ g[3] # None => request[g[3]].resource = r
             /\ g[2] = "project" => r \in EnvironmentsOf(u)
             /\ g[2] = "project" /\ query.kind = "APPROVAL_REQUEST" => r \in OwnedResources(u)
             /\ g[2] = "guardian" => r \in GuardedBy(u)
             /\ g[2] = "guardian" /\ query.kind = "SECRET" /\ g[3] = None => guardian[r][u] = "OWNER"
             /\ g[2] = "request" => g[3] \in RequestsBy(u)
             /\ g[2] = "request" /\ query.kind = "SECRET" => r \notin QueuedFor(u)
<1>1. /\ SecretInv /\ PolicyTypeOK /\ Tables
      /\ query.kind \in Kind /\ query.principal = DiscordPrincipal(u) /\ u \in User
  BY ReaderAssumption DEF ListInv, QueryInv, WalkIsSound, SecretInv, SecretTypeOK, DiscordPrincipal
<1>2. PICK e \in Everything(query.kind), way \in Way :
         g = <<e.id, way, e.by>> /\ IsGround(query.kind, e, way, u)
  BY <1>1, PromisedIsShown
<1>3. g[1] = e.id /\ g[2] = way /\ g[3] = e.by
  BY <1>2
<1>4. PICK r \in Resource :
         /\ IsRecordAt(e, r)
         /\ query.kind = "RESOURCE" => e.id = r
         /\ query.kind = "SECRET" => \E n \in Name :
               /\ IsStored(r, n) /\ e.id = field[r][n].id /\ e.name = n
               /\ e.by # None => AsksFor(e.by, r, n)
         /\ query.kind = "APPROVAL_REQUEST" => e.by = e.id
  BY <1>1, ListedAtResource
<1>5. PICK pending \in BOOLEAN : pending = IsPending(e.by)
  <2>1. IsPending(e.by) \in BOOLEAN
    BY DEF IsPending
  <2>2. QED
    BY <2>1, Zenon
<1>6. Shows(query.kind, e, way, pending, u)
  BY <1>2, <1>5 DEF IsGround
<1>7. /\ way = "project" => InProject(query.kind, r, u)
      /\ way = "guardian" => AsGuardian(query.kind, e, pending, u)
      /\ way = "request" => AsRequester(query.kind, e, u)
  BY <1>1, <1>4, <1>6, WhatShows
<1>8. /\ e.resource = r
      /\ e.by # None => e.by \in RequestId /\ request[e.by].resource = r
  BY <1>4 DEF IsRecordAt
<1>9. ASSUME query.kind = "SECRET"
      PROVE  \E n \in Name : /\ IsStored(r, n) /\ field[r][n].id = e.id
                             /\ \A s \in Resource, m \in Name :
                                   field[s][m].id = e.id => s = r /\ m = n
  <2>1. PICK n \in Name : IsStored(r, n) /\ e.id = field[r][n].id
    BY <1>4, <1>9
  <2>2. IsSecretCandidate(SecretRecord(r, n, None))
    BY <1>1, <2>1, StoredIsCandidate
  <2>3. \A s \in Resource, m \in Name : field[s][m].id = field[r][n].id => s = r /\ m = n
    BY <2>2, SecretFields DEF IsSecretCandidate
  <2>4. QED
    BY <2>1, <2>3
<1>10. way = "project" => /\ r \in EnvironmentsOf(u)
                          /\ query.kind = "APPROVAL_REQUEST" => r \in OwnedResources(u)
  <2>1. IsLinked(r) => home[r] \in Project
    BY <1>1 DEF PolicyTypeOK, IsLinked
  <2>2. QED
    BY <1>7, <2>1 DEF InProject, EnvironmentsOf, ProjectsOf, OwnedResources, HomeOwner
<1>11. way = "guardian" => /\ r \in GuardedBy(u)
                           /\ query.kind = "SECRET" /\ e.by = None => guardian[r][u] = "OWNER"
  <2>1. "OWNER" # None /\ "GUARDIAN" # None
    BY NoneIsNothing DEF GuardianRole
  <2>2. QED
    BY <1>7, <1>8, <2>1 DEF AsGuardian, AsksForIt, GuardedBy
<1>12. way = "request" => e.by \in RequestsBy(u)
  BY <1>7, <1>8 DEF AsRequester, RequestsBy
<1>13. way = "request" /\ query.kind = "SECRET" => r \notin QueuedFor(u)
  <2>1. way = "request" => e.by # None
    BY <1>7 DEF AsRequester
  <2>2. QED
    BY <1>2, <1>8, <2>1 DEF IsGround, IsListedBy
<1>14. QED
  BY <1>3, <1>4, <1>8, <1>9, <1>10, <1>11, <1>12, <1>13

\* What the reads of a batch leave keeps the walk if each of them has found what
\* was promised.
LEMMA ReadKeepsWalk ==
    ASSUME ListInv, PageInv, Service,
           query.pc \in {"projects", "secrets", "own", "guardians"},
           NEW pc \in {"secrets", "own", "guardians", "fetch"},
           NEW within, NEW broad, NEW own, NEW queued,
           Leaves(pc, within, broad, own, queued), IsFiniteSet(broad),
           broad = query.broad \/ \A x \in broad : \A a : IsPlace(query.kind, x.id, a) => a = x.at,
           \A g \in query.steady : FoundSoFar(g)'
    PROVE  PageInv'
<1>1. /\ RowsLast /\ RequestsLast
      /\ \A kind : \A p \in Reader : Promised(kind, p)' = Promised(kind, p)
  BY ServiceKeepsRows
<1>2. PICK k \in Kind, p \in Reader : k = query.kind /\ p = query.principal
  BY DEF ListInv, QueryInv, WalkIsSound
<1>3. query.batch = {} /\ IsWalk
  BY DEF ListInv, QueryInv, Bare, Reading
<1>4. /\ query'.kind = k /\ query'.principal = p
      /\ query'.cursor = query.cursor /\ query'.broad = broad
      /\ query'.batch = {} /\ query'.short = query.short /\ query'.found = query.found
      /\ query'.listed = query.listed /\ query'.count = query.count
      /\ query'.steady = query.steady /\ query'.pc = pc
  BY <1>2, <1>3, ZenonT(60) DEF IsWalk, Leaves
<1>5. \A i, a : IsPlace(k, i, a) => IsPlace(k, i, a)'
  BY <1>1, PlacesLast
<1>6. \A a : /\ IsPassed(a)' <=> IsPassed(a)
             /\ IsAhead(a)' <=> IsAhead(a)
  BY <1>4 DEF IsPassed, IsAhead
<1>7. PagesAreOrdered /\ \A g \in query.steady : IsKept(g)
  BY DEF PageInv
<1>8. PagesAreOrdered'
  <2>1. OnTheWay' = OnTheWay
    BY <1>3, <1>4 DEF OnTheWay
  <2>2. ASSUME NEW i \in query.listed
        PROVE  \E a \in Place : /\ IsPlace(k, i, a)' /\ IsPassed(a)'
                                /\ \A x \in OnTheWay : Precedes(a, x.at)
                                /\ \A x \in broad : x.id = i => x.at = a
    <3>1. PICK a \in Place : /\ IsPlace(k, i, a) /\ IsPassed(a)
                             /\ \A x \in OnTheWay : Precedes(a, x.at)
                             /\ \A x \in query.broad : x.id = i => x.at = a
      BY <1>2, <1>7 DEF PagesAreOrdered
    <3>2. \A x \in broad : x.id = i => x.at = a
      BY <1>2, <3>1
    <3>3. QED
      BY <1>5, <1>6, <3>1, <3>2
  <2>3. \A x \in OnTheWay : /\ IsPlace(k, x.id, x.at)' /\ IsPassed(x.at)'
                            /\ x.id \notin query.listed
    BY <1>2, <1>5, <1>6, <1>7 DEF PagesAreOrdered
  <2>4. query.cursor \in Place \cup {None}
    BY <1>7 DEF PagesAreOrdered
  <2>5. QED
    BY <1>4, <2>1, <2>2, <2>3, <2>4 DEF PagesAreOrdered
<1>9. \A g \in query.steady : IsKept(g)'
  <2> SUFFICES ASSUME NEW g \in query.steady PROVE IsKept(g)'
    OBVIOUS
  <2>1. pc \in Reading
    BY DEF Reading
  <2>2. CASE g[1] \in query.listed \/ \E x \in query.found : x.id = g[1]
    BY <1>4, <2>2 DEF IsKept
  <2>3. CASE \E a \in Place : IsPlace(k, g[1], a) /\ IsAhead(a)
    BY <1>4, <1>5, <1>6, <2>1, <2>3 DEF IsKept
  <2>4. QED
    BY <1>2, <1>3, <1>7, <2>2, <2>3 DEF IsKept
<1>10. query'.steady \subseteq Promised(k, p)'
  BY <1>1, <1>2, <1>4 DEF PageInv
<1>11. IsFiniteSet(query'.found) /\ IsFiniteSet(query'.batch) /\ IsFiniteSet(query'.listed)
       /\ IsFiniteSet(query'.broad) /\ query'.count = Cardinality(query'.listed)
  BY <1>4, FS_EmptySet DEF PageInv
<1>12. QED
  BY <1>4, <1>8, <1>9, <1>10, <1>11 DEF PageInv

\* Each read of a batch finds what was promised by the rows that it reads.
LEMMA ReadsKeepPages ==
    ASSUME ListInv, PageInv, ReadProjects \/ ReadSecrets \/ ReadOwnRequests \/ ReadGuardians
    PROVE  PageInv'
<1>1. query.pc \in {"projects", "secrets", "own", "guardians"} /\ Service
  BY DEF ReadProjects, ReadSecrets, ReadOwnRequests, ReadGuardians, Service
<1>2. UNCHANGED <<field, guardian, request>>
  BY <1>1, ServiceKeepsRows DEF secretVars, policyVars
<1>3. IsWalk /\ SecretInv /\ Tables
  BY DEF ListInv, QueryInv
<1>4. PICK k \in Kind, u \in User : k = query.kind /\ u = query.principal.subject
  BY <1>1, ReaderAssumption DEF ListInv, QueryInv, WalkIsSound, DiscordPrincipal
<1>5. PICK within, broad, own, queued : /\ within = query.within /\ broad = query.broad
                                        /\ own = query.own /\ queued = query.queued
  OBVIOUS
<1>6. /\ IsFiniteSet(broad)
      /\ \A g \in query.steady : FoundSoFar(g)
      /\ query.steady \subseteq Promised(query.kind, query.principal)
  BY <1>1, <1>5 DEF PageInv
<1>7. ASSUME NEW pc, NEW w, NEW b, NEW o, NEW q, Leaves(pc, w, b, o, q)
      PROVE  /\ query'.pc = pc /\ query'.kind = k /\ query'.within = w /\ query'.broad = b
             /\ query'.own = o /\ query'.queued = q
  BY <1>3, <1>4, <1>7, ZenonT(60) DEF IsWalk, Leaves
<1>8. CASE ReadProjects
  <2>1. PICK pc, now :
          /\ pc \in {"secrets", "guardians"}
          /\ pc = (IF k = "SECRET" THEN "secrets" ELSE "guardians")
          /\ now = EnvironmentsOf(u)
    OBVIOUS
  <2>2. Leaves(pc, now, broad, own, queued)
    BY <1>3, <1>4, <1>5, <1>8, <2>1 DEF ReadProjects, IsWalk, Leaves
  <2>3. query.kind \in {"RESOURCE", "SECRET"}
    BY <1>8 DEF ReadProjects, ListInv, QueryInv, WalkIsSound, FoundIsSound
  <2>4. query'.pc = pc /\ query'.kind = k /\ query'.within = now
    BY <1>7, <2>2
  <2>5. \A g \in query.steady : FoundSoFar(g)'
    <3> SUFFICES ASSUME NEW g \in query.steady PROVE FoundSoFar(g)'
      OBVIOUS
    <3>1. PICK r \in Resource :
             /\ query.kind = "RESOURCE" => g[1] = r
             /\ query.kind = "SECRET" =>
                   \A s \in Resource, m \in Name : field[s][m].id = g[1] => s = r
             /\ g[2] = "project" => r \in EnvironmentsOf(u)
      BY <1>1, <1>4, <1>6, <2>3, GroundAtResource DEF ByResource
    <3>2. k = "RESOURCE" => ResourceIsFound(g)'
      BY <1>4, <2>1, <2>4, <3>1 DEF ResourceIsFound
    <3>3. k = "SECRET" => SecretIsFound(g)'
      BY <1>2, <1>4, <2>1, <2>4, <3>1 DEF SecretIsFound
    <3>4. QED
      BY <1>4, <2>3, <2>4, <3>2, <3>3 DEF FoundSoFar
  <2>6. QED
    BY <1>1, <1>5, <1>6, <2>1, <2>2, <2>5, ReadKeepsWalk
<1>9. CASE ReadSecrets
  <2>1. PICK now : now = BroadSecrets(u, within)
    OBVIOUS
  <2>2. query.pc = "secrets" /\ Leaves("own", {}, now, own, queued)
    BY <1>3, <1>4, <1>5, <1>9, <2>1 DEF ReadSecrets, IsWalk, Leaves
  <2>3. query.kind = "SECRET" /\ k = "SECRET"
    BY <1>4, <2>2 DEF ListInv, QueryInv, WalkIsSound, FoundIsSound
  <2>4. /\ query'.pc = "own" /\ query'.kind = k /\ query'.broad = now
    BY <1>7, <2>2
  <2>5. \A g \in query.steady : FoundSoFar(g)'
    <3> SUFFICES ASSUME NEW g \in query.steady PROVE FoundSoFar(g)'
      OBVIOUS
    <3>1. PICK r \in Resource :
             /\ query.kind = "SECRET" =>
                   \E n \in Name : IsStored(r, n) /\ field[r][n].id = g[1]
             /\ g[2] = "guardian" /\ query.kind = "SECRET" /\ g[3] = None => guardian[r][u] = "OWNER"
      BY <1>1, <1>4, <1>6, <2>3, GroundAtResource DEF ByResource
    <3>2. PICK n \in Name : IsStored(r, n) /\ field[r][n].id = g[1]
      BY <2>3, <3>1
    <3>3. g[2] = "project" => r \in within
      BY <1>5, <1>6, <2>2, <2>3, <3>2 DEF FoundSoFar, SecretIsFound
    <3>4. ASSUME g[2] = "project" \/ (g[2] = "guardian" /\ g[3] = None)
          PROVE  \E b \in now : b.id = g[1]
      <4>1. <<r, n>> \in {f \in Resource \X Name :
                 IsStored(f[1], f[2]) /\ (f[1] \in within \/ guardian[f[1]][u] = "OWNER")}
        BY <2>3, <3>1, <3>2, <3>3, <3>4
      <4>2. SecretRecord(r, n, None) \in now
        BY <2>1, <4>1 DEF BroadSecrets
      <4>3. QED
        BY <3>2, <4>2, SecretFields
    <3>5. SecretIsFound(g)'
      BY <2>4, <3>4 DEF SecretIsFound
    <3>6. QED
      BY <2>3, <2>4, <3>5 DEF FoundSoFar
  <2>6. \A x \in now : \A a : IsPlace(query.kind, x.id, a) => a = x.at
    <3> SUFFICES ASSUME NEW x \in now PROVE \A a : IsPlace(query.kind, x.id, a) => a = x.at
      OBVIOUS
    <3>1. PICK r \in Resource, n \in Name : IsStored(r, n) /\ x = SecretRecord(r, n, None)
      BY <2>1 DEF BroadSecrets
    <3>2. x \in Everything("SECRET")
      BY <3>1, StoredIsRecord
    <3>3. QED
      BY <1>3, <2>3, <3>2, ListedHaveOnePlace DEF Kind
  <2>7. IsFiniteSet(now)
    <3> DEFINE S == {f \in Resource \X Name :
                       IsStored(f[1], f[2]) /\ (f[1] \in within \/ guardian[f[1]][u] = "OWNER")}
               f == [s \in S |-> SecretRecord(s[1], s[2], None)]
    <3>1. IsFiniteSet(S)
      BY TablesAreFinite, FS_Product, FS_Subset
    <3>2. now = {f[s] : s \in S} /\ DOMAIN f = S
      BY <2>1 DEF BroadSecrets
    <3> HIDE DEF S, f
    <3>3. QED
      BY <3>1, <3>2, ImageIsFinite
  <2>8. QED
    BY <1>1, <2>2, <2>5, <2>6, <2>7, ReadKeepsWalk
<1>10. CASE ReadOwnRequests
  <2>1. PICK now : now = RequestsBy(u)
    OBVIOUS
  <2>2. query.pc = "own" /\ Leaves("guardians", within, broad, now, queued)
    BY <1>3, <1>4, <1>5, <1>10, <2>1 DEF ReadOwnRequests, IsWalk, Leaves
  <2>3. query.kind \in {"SECRET", "APPROVAL_REQUEST"}
    BY <2>2 DEF ListInv, QueryInv, WalkIsSound, FoundIsSound
  <2>4. /\ query'.pc = "guardians" /\ query'.kind = k /\ query'.broad = broad /\ query'.own = now
    BY <1>7, <2>2
  <2>5. \A g \in query.steady : FoundSoFar(g)'
    <3> SUFFICES ASSUME NEW g \in query.steady PROVE FoundSoFar(g)'
      OBVIOUS
    <3>1. g[2] = "request" => g[3] \in now
      BY <1>1, <1>4, <1>6, <2>1, <2>3, GroundAtResource DEF ByResource
    <3>2. query.kind = "SECRET" =>
            (g[2] = "project" \/ (g[2] = "guardian" /\ g[3] = None) => \E b \in broad : b.id = g[1])
      BY <1>5, <1>6, <2>2 DEF FoundSoFar, SecretIsFound
    <3>3. k = "SECRET" => SecretIsFound(g)'
      BY <1>4, <2>4, <3>1, <3>2 DEF SecretIsFound
    <3>4. k = "APPROVAL_REQUEST" => RequestIsFound(g)'
      BY <2>4, <3>1 DEF RequestIsFound
    <3>5. QED
      BY <1>4, <2>3, <2>4, <3>3, <3>4 DEF FoundSoFar
  <2>6. QED
    BY <1>1, <1>5, <1>6, <2>2, <2>5, ReadKeepsWalk
<1>11. CASE ReadGuardians
  <2>1. PICK now : now = (IF k = "RESOURCE" THEN GuardedBy(u) ELSE QueuedFor(u))
    OBVIOUS
  <2>2. query.pc = "guardians" /\ Leaves("fetch", within, broad, own, now)
    BY <1>3, <1>4, <1>5, <1>11, <2>1 DEF ReadGuardians, IsWalk, Leaves
  <2>3. /\ query'.pc = "fetch" /\ query'.kind = k /\ query'.within = within
        /\ query'.broad = broad /\ query'.own = own /\ query'.queued = now
    BY <1>7, <2>2
  <2>4. \A g \in query.steady : FoundSoFar(g)'
    <3> SUFFICES ASSUME NEW g \in query.steady PROVE FoundSoFar(g)'
      OBVIOUS
    <3>1. FoundSoFar(g)
      BY <1>6
    <3>2. ASSUME query.kind \in ByResource
          PROVE  /\ query.kind = "RESOURCE" /\ g[2] = "guardian" => g[1] \in now
                 /\ query.kind = "SECRET" /\ g[2] = "guardian" /\ g[3] # None =>
                       request[g[3]].resource \in now
                 /\ query.kind = "SECRET" /\ g[2] = "request" => request[g[3]].resource \notin now
                 /\ query.kind = "APPROVAL_REQUEST" /\ g[2] # "request" =>
                       request[g[3]].resource \in now
      <4>1. PICK r \in Resource :
               /\ query.kind = "RESOURCE" => g[1] = r
               /\ g[3] # None => request[g[3]].resource = r
               /\ g[2] = "project" /\ query.kind = "APPROVAL_REQUEST" => r \in OwnedResources(u)
               /\ g[2] = "guardian" => r \in GuardedBy(u)
               /\ g[2] = "request" /\ query.kind = "SECRET" => r \notin QueuedFor(u)
        BY <1>1, <1>4, <1>6, <3>2, GroundAtResource
      <4>2. /\ g[2] = "request" => g[3] # None
            /\ query.kind = "APPROVAL_REQUEST" => g[3] # None
            /\ g[2] \in Way
        BY <1>1, <1>6, <3>2, GroundsRest
      <4>3. QED
        BY <1>4, <2>1, <4>1, <4>2 DEF QueuedFor, Way
    <3>3. k = "RESOURCE" => ResourceIsFound(g)'
      BY <1>4, <1>5, <2>2, <2>3, <3>1, <3>2 DEF FoundSoFar, ResourceIsFound, ByResource
    <3>4. k = "SECRET" => SecretIsFound(g)'
      BY <1>2, <1>4, <1>5, <2>2, <2>3, <3>1, <3>2 DEF FoundSoFar, SecretIsFound, ByResource
    <3>5. k = "APPROVAL_REQUEST" => RequestIsFound(g)'
      BY <1>2, <1>4, <1>5, <2>2, <2>3, <3>1, <3>2 DEF FoundSoFar, RequestIsFound, ByResource
    <3>6. QED
      BY <2>3, <3>3, <3>4, <3>5 DEF FoundSoFar
  <2>5. QED
    BY <1>1, <1>5, <1>6, <2>2, <2>4, ReadKeepsWalk
<1>12. QED
  BY <1>8, <1>9, <1>10, <1>11

\* A batch: records ahead of the cursor, and if anything is promised all of them
\* or the first of them.
LEMMA BatchIsAhead ==
    ASSUME ListInv, PageInv, query.pc = "fetch", NEW B, B = Returned(query)
    PROVE  /\ IsFiniteSet(B) /\ ArePlaced(B)
           /\ \A x \in B : /\ IsAhead(x.at) /\ IsPlace(query.kind, x.id, x.at)
                           /\ \/ \A a : IsPlace(query.kind, x.id, a) => a = x.at
                              \/ x \in query.broad
           /\ B # {} => /\ Last(B) \in B /\ Last(B).at \in Place
                        /\ \A y \in B : ~Precedes(Last(B).at, y.at)
           /\ \A g \in query.steady : \A a \in Place :
                 IsPlace(query.kind, g[1], a) /\ IsAhead(a) =>
                    \/ \E x \in B : x.id = g[1] /\ Carries(x, g)
                    \/ /\ ~(Cardinality(B) <= PageLimit)
                       /\ B # {} /\ Precedes(Last(B).at, a)
<1> DEFINE R == {x \in Candidates(query) : IsAhead(x.at)}
           K == PageLimit + 1
<1>1. /\ query.kind \in Kind /\ Tables /\ FoundIsSound
      /\ query.steady \subseteq Promised(query.kind, query.principal)
      /\ IsFiniteSet(query.broad) /\ \A g \in query.steady : FoundSoFar(g)
  BY DEF ListInv, QueryInv, WalkIsSound, PageInv
<1>2. PICK u \in User : query.principal = DiscordPrincipal(u)
  BY ReaderAssumption DEF ListInv, QueryInv, WalkIsSound
<1>3. PageLimit \in Nat \ {0} /\ K \in Nat \ {0}
  BY PageLimitAssumption
<1>4. B \subseteq First(R, K) /\ (query.kind # "APPROVAL_REQUEST" => B = First(R, K))
  BY DEF Returned, PageOf, IsAhead
<1>5. query.steady # {} => B = First(R, K)
  <2> SUFFICES ASSUME query.steady # {}, query.kind = "APPROVAL_REQUEST"
               PROVE  B = First(R, K)
    BY <1>4
  <2>1. \A q \in RequestId : Made(q) => HasRecord(q)
    <3>1. PICK g : g \in Promised(query.kind, query.principal)
      BY <1>1
    <3>2. QED
      BY <1>1, <1>2, <3>1, PromisedIsShown
  <2>2. \A x \in R : HasRecord(x.id)
    <3> SUFFICES ASSUME NEW x \in Candidates(query) PROVE HasRecord(x.id)
      OBVIOUS
    <3>1. PICK q \in query.own \cup QueueOf(query.queued) : x = RequestRecord(q)
      BY DEF Candidates
    <3>2. query.own \subseteq RequestsBy(u)
      BY <1>1, <1>2 DEF FoundIsSound, DiscordPrincipal
    <3>3. q \in RequestId /\ Made(q)
      BY <1>1, <3>1, <3>2, RequestsExist
    <3>4. QED
      BY <2>1, <3>1, <3>3, RecordFields
  <2>3. First(R, K) \subseteq R
    BY DEF First
  <2>4. B = {x \in First(R, K) : HasRecord(x.id)}
    BY DEF Returned, PageOf, IsAhead
  <2> HIDE DEF R, K
  <2>5. QED
    BY <2>2, <2>3, <2>4
<1>6. R \subseteq Candidates(query) /\ \A x \in R : IsAhead(x.at)
  OBVIOUS
<1>7. \A x \in Candidates(query) :
         /\ IsPlace(query.kind, x.id, x.at) /\ x.at \in Place
         /\ \/ \A a : IsPlace(query.kind, x.id, a) => a = x.at
            \/ x \in query.broad
  <2> SUFFICES ASSUME NEW x \in Candidates(query)
               PROVE  /\ IsPlace(query.kind, x.id, x.at) /\ x.at \in Place
                      /\ \/ \A a : IsPlace(query.kind, x.id, a) => a = x.at
                         \/ x \in query.broad
    OBVIOUS
  <2>1. IsPlace(query.kind, x.id, x.at)
    BY CandidatesArePlaced
  <2>2. \/ \A a : IsPlace(query.kind, x.id, a) => a = x.at
        \/ x \in query.broad
    BY CandidatesArePlaced
  <2>3. QED
    BY <2>1, <2>2 DEF IsPlace
<1>8. IsFiniteSet(R) /\ ArePlaced(R)
  <2>1. IsFiniteSet(Candidates(query))
    BY <1>1, CandidatesAreFinite
  <2>2. IsFiniteSet(R)
    BY <2>1, FS_Subset
  <2>3. QED
    BY <1>6, <1>7, <2>2 DEF ArePlaced
<1>9. \A x \in Candidates(query) : IsAhead(x.at) => x \in R
  OBVIOUS
<1> HIDE DEF R, K
<1>10. /\ First(R, K) \subseteq R /\ IsFiniteSet(First(R, K))
       /\ \A x \in R \ First(R, K), y \in First(R, K) : Precedes(y.at, x.at)
       /\ Cardinality(First(R, K)) < K => First(R, K) = R
  BY <1>3, <1>8, FirstComeFirst
<1>11. IsFiniteSet(B) /\ ArePlaced(B) /\ B \subseteq R
  BY <1>4, <1>8, <1>10, FS_Subset DEF ArePlaced
<1>12. B # {} => /\ Last(B) \in B /\ Last(B).at \in Place
                 /\ \A y \in B : ~Precedes(Last(B).at, y.at)
  BY <1>11, LastIsLast
<1>13. ASSUME NEW g \in query.steady, NEW a \in Place, IsPlace(query.kind, g[1], a), IsAhead(a)
       PROVE  \/ \E x \in B : x.id = g[1] /\ Carries(x, g)
              \/ /\ ~(Cardinality(B) <= PageLimit)
                 /\ B # {} /\ Precedes(Last(B).at, a)
  <2>1. PICK x \in Candidates(query) : x.id = g[1] /\ Carries(x, g)
    BY <1>1, GroundsFindCandidates
  <2>2. x.at = a
    <3>1. PICK b \in Place : \A o : IsPlace(query.kind, g[1], o) => o = b
      BY <1>1, GroundsRest
    <3>2. IsPlace(query.kind, g[1], x.at)
      BY <1>7, <2>1
    <3>3. QED
      BY <1>13, <3>1, <3>2
  <2>3. x \in R
    BY <1>9, <1>13, <2>2
  <2>4. B = First(R, K)
    BY <1>5
  <2>5. CASE x \in B
    BY <2>1, <2>5
  <2>6. CASE x \notin B
    <3>1. ~(Cardinality(B) < K) /\ Cardinality(B) \in Nat
      BY <1>10, <1>11, <2>3, <2>4, <2>6, FS_CardinalityType
    <3>2. ~(Cardinality(B) <= PageLimit)
      BY <1>3, <3>1 DEF K
    <3>3. B # {}
      BY <1>3, <3>2, FS_EmptySet
    <3>4. Precedes(Last(B).at, a)
      BY <1>10, <1>12, <2>2, <2>3, <2>4, <2>6, <3>3
    <3>5. QED
      BY <3>2, <3>3, <3>4
  <2>7. QED
    BY <2>5, <2>6
<1>14. \A x \in B : /\ IsAhead(x.at) /\ IsPlace(query.kind, x.id, x.at)
                    /\ \/ \A a : IsPlace(query.kind, x.id, a) => a = x.at
                       \/ x \in query.broad
  <2> SUFFICES ASSUME NEW x \in B
               PROVE  /\ IsAhead(x.at) /\ IsPlace(query.kind, x.id, x.at)
                      /\ \/ \A a : IsPlace(query.kind, x.id, a) => a = x.at
                         \/ x \in query.broad
    OBVIOUS
  <2>1. x \in R /\ x \in Candidates(query)
    BY <1>6, <1>11
  <2>2. QED
    BY <1>6, <1>7, <2>1
<1>15. QED
  BY <1>11, <1>12, <1>13, <1>14

\* A batch goes on where the last one ended.
LEMMA FetchKeepsPages ==
    ASSUME ListInv, PageInv, Fetch PROVE PageInv'
<1>1. /\ RowsLast /\ RequestsLast
      /\ \A kind : \A p \in Reader : Promised(kind, p)' = Promised(kind, p)
  BY ServiceKeepsRows DEF Service
<1>2. query.pc = "fetch" /\ query.batch = {} /\ IsWalk
  BY DEF Fetch, ListInv, QueryInv, Bare, Reading
<1>3. PICK k \in Kind, p \in Reader : k = query.kind /\ p = query.principal
  BY <1>2 DEF ListInv, QueryInv, WalkIsSound
<1>4. PICK B : B = Returned(query)
  OBVIOUS
<1>5. /\ IsFiniteSet(B) /\ ArePlaced(B)
      /\ \A x \in B : /\ IsAhead(x.at) /\ IsPlace(k, x.id, x.at)
                      /\ \/ \A a : IsPlace(k, x.id, a) => a = x.at
                         \/ x \in query.broad
      /\ B # {} => /\ Last(B) \in B /\ Last(B).at \in Place
                   /\ \A y \in B : ~Precedes(Last(B).at, y.at)
  BY <1>2, <1>3, <1>4, BatchIsAhead
<1>6. \A g \in query.steady : \A a \in Place :
         IsPlace(k, g[1], a) /\ IsAhead(a) =>
            \/ \E x \in B : x.id = g[1] /\ Carries(x, g)
            \/ /\ ~(Cardinality(B) <= PageLimit)
               /\ B # {} /\ Precedes(Last(B).at, a)
  BY <1>2, <1>3, <1>4, BatchIsAhead
<1>7. PICK short, c : /\ short = (Cardinality(B) <= PageLimit)
                      /\ c = (IF B = {} THEN query.cursor ELSE Last(B).at)
  OBVIOUS
<1>8. query' = [query EXCEPT !.pc = "verify", !.batch = B, !.within = {}, !.broad = {},
                   !.own = {}, !.queued = {}, !.short = short, !.cursor = c]
  BY <1>4, <1>7 DEF Fetch
<1>9. /\ query'.pc = "verify" /\ query'.kind = k /\ query'.principal = p
      /\ query'.cursor = c /\ query'.batch = B /\ query'.short = short
      /\ query'.broad = {} /\ query'.found = query.found /\ query'.listed = query.listed
      /\ query'.count = query.count /\ query'.steady = query.steady
  BY <1>2, <1>3, <1>8, ZenonT(60) DEF IsWalk
<1>10. PagesAreOrdered /\ \A g \in query.steady : IsKept(g)
  BY <1>2 DEF PageInv
<1>11. /\ query.cursor \in Place \cup {None}
       /\ \A x \in query.found : /\ IsPlace(k, x.id, x.at) /\ IsPassed(x.at)
                                 /\ x.id \notin query.listed
       /\ \A i \in query.listed : \E a \in Place :
             /\ IsPlace(k, i, a) /\ IsPassed(a)
             /\ \A x \in query.found : Precedes(a, x.at)
             /\ \A x \in query.broad : x.id = i => x.at = a
  BY <1>2, <1>3, <1>10 DEF PagesAreOrdered, OnTheWay
<1>12. \A i, a : IsPlace(k, i, a) => IsPlace(k, i, a)' /\ a \in Place
  BY <1>1, PlacesLast DEF IsPlace
<1>13. c \in Place \cup {None} /\ (B # {} => c \in Place)
  BY <1>5, <1>7, <1>11
<1>14. \A a \in Place : IsPassed(a) => IsPassed(a)'
  <2> SUFFICES ASSUME NEW a \in Place, IsPassed(a) PROVE c \in Place /\ ~Precedes(c, a)
    BY <1>9 DEF IsPassed
  <2>1. query.cursor \in Place /\ ~Precedes(query.cursor, a)
    BY DEF IsPassed
  <2>2. CASE B = {}
    BY <1>7, <2>1, <2>2
  <2>3. CASE B # {}
    <3>1. c \in Place /\ Precedes(query.cursor, c)
      BY <1>5, <1>7, <2>1, <2>3, NoneIsNoPlace DEF IsAhead
    <3>2. QED
      BY <2>1, <3>1, PlacesAreOrdered
  <2>4. QED
    BY <2>2, <2>3
<1>15. \A x \in B : IsPassed(x.at)'
  BY <1>5, <1>7, <1>9 DEF IsPassed
<1>16. \A i \in query.listed : \E a \in Place :
          /\ IsPlace(k, i, a) /\ IsPassed(a)
          /\ \A x \in query.found \cup B : Precedes(a, x.at)
          /\ \A x \in query.broad : x.id = i => x.at = a
  <2> SUFFICES ASSUME NEW i \in query.listed
               PROVE  \E a \in Place :
                         /\ IsPlace(k, i, a) /\ IsPassed(a)
                         /\ \A x \in query.found \cup B : Precedes(a, x.at)
                         /\ \A x \in query.broad : x.id = i => x.at = a
    OBVIOUS
  <2>1. PICK a \in Place : /\ IsPlace(k, i, a) /\ IsPassed(a)
                           /\ \A x \in query.found : Precedes(a, x.at)
                           /\ \A x \in query.broad : x.id = i => x.at = a
    BY <1>11
  <2>2. query.cursor \in Place /\ ~Precedes(query.cursor, a)
    BY <2>1 DEF IsPassed
  <2>3. \A x \in B : x.at \in Place /\ Precedes(query.cursor, x.at)
    BY <1>5, <2>2, NoneIsNoPlace DEF IsAhead, ArePlaced
  <2>4. \A x \in B : Precedes(a, x.at)
    BY <2>2, <2>3, PlacesAreOrdered
  <2>5. QED
    BY <2>1, <2>4
<1>17. \A x \in B : x.id \notin query.listed
  <2> SUFFICES ASSUME NEW x \in B, x.id \in query.listed PROVE FALSE
    OBVIOUS
  <2>1. PICK a \in Place : /\ IsPlace(k, x.id, a) /\ Precedes(a, x.at)
                           /\ x \in query.broad => x.at = a
    BY <1>16
  <2>2. a = x.at
    BY <1>5, <2>1
  <2>3. QED
    BY <2>1, <2>2, PlacesAreOrdered
<1>18. PagesAreOrdered'
  <2>1. OnTheWay' = query.found \cup B
    BY <1>9 DEF OnTheWay
  <2>2. \A x \in query.found \cup B : IsPlace(k, x.id, x.at) /\ x.at \in Place
    BY <1>5, <1>11, <1>12
  <2>3. \A x \in query.found \cup B :
           IsPlace(k, x.id, x.at)' /\ IsPassed(x.at)' /\ x.id \notin query.listed
    BY <1>11, <1>12, <1>14, <1>15, <1>17, <2>2
  <2>4. \A i \in query.listed : \E a \in Place :
           /\ IsPlace(k, i, a)' /\ IsPassed(a)'
           /\ \A x \in query.found \cup B : Precedes(a, x.at)
    BY <1>12, <1>14, <1>16
  <2>5. QED
    BY <1>9, <1>13, <2>1, <2>3, <2>4 DEF PagesAreOrdered
<1>19. \A x \in B : IsCandidate(x)
  <2>1. B \subseteq Candidates(query)
    BY <1>4 DEF Returned, PageOf, First
  <2>2. QED
    BY <1>2, <2>1, CandidatesArePlaced
<1>20. \A g \in query.steady : IsKept(g)'
  <2> SUFFICES ASSUME NEW g \in query.steady PROVE IsKept(g)'
    OBVIOUS
  <2>1. IsKept(g)
    BY <1>10
  <2>2. CASE g[1] \in query.listed \/ \E x \in query.found : x.id = g[1]
    BY <1>9, <2>2 DEF IsKept
  <2>3. ASSUME NEW a \in Place, IsPlace(k, g[1], a), IsAhead(a) PROVE IsKept(g)'
    <3>1. ASSUME NEW x \in B, x.id = g[1], Carries(x, g) PROVE IsKept(g)'
      <4>1. Carries(x, g)'
        BY <1>1, <1>2, <1>3, <1>9, <1>19, <3>1, CandidateStays
      <4>2. QED
        BY <1>9, <3>1, <4>1 DEF IsKept
    <3>2. CASE ~(Cardinality(B) <= PageLimit) /\ B # {} /\ Precedes(Last(B).at, a)
      <4>1. ~short /\ c = Last(B).at
        BY <1>7, <3>2
      <4>2. IsPlace(k, g[1], a)' /\ IsAhead(a)' /\ ~query'.short
        BY <1>9, <1>12, <2>3, <3>2, <4>1 DEF IsAhead
      <4>3. QED
        BY <1>9, <4>2 DEF IsKept
    <3>3. QED
      BY <1>6, <2>3, <3>1, <3>2
  <2>4. QED
    BY <1>2, <1>3, <2>1, <2>2, <2>3 DEF IsKept
<1>21. query'.steady \subseteq Promised(k, p)'
  BY <1>1, <1>2, <1>3, <1>9 DEF PageInv
<1>22. \A g \in query.steady : FoundSoFar(g)'
  BY <1>9 DEF FoundSoFar, ResourceIsFound, SecretIsFound, RequestIsFound
<1>23. QED
  BY <1>2, <1>5, <1>9, <1>18, <1>20, <1>21, <1>22, FS_EmptySet DEF PageInv

\* The policy leaves these in the walk.
Decides(pc, pending, batch, found) ==
    query' = [query EXCEPT !.pc = pc, !.pending = pending, !.batch = batch, !.found = found]

\* A decision keeps the walk if what it leaves out of the page is promised to nobody.
LEMMA DecisionKeepsWalk ==
    ASSUME ListInv, PageInv, Service, query.pc \in {"authorize", "guardian"},
           NEW x \in query.batch, NEW pc \in {"authorize", "guardian"}, NEW pending,
           NEW batch \in {query.batch, query.batch \ {x}},
           NEW found \in {query.found, query.found \cup {x}},
           Decides(pc, pending, batch, found),
           \/ x \in batch \/ x \in found
           \/ \A g \in query.steady : ~(g[1] = x.id /\ Carries(x, g)),
           pc = "guardian" => \A y \in batch : IsFirst(y)' => LeftToGuardian(y)'
    PROVE  PageInv'
<1>1. /\ RowsLast /\ RequestsLast
      /\ \A kind : \A p \in Reader : Promised(kind, p)' = Promised(kind, p)
  BY ServiceKeepsRows
<1>2. PICK k \in Kind, p \in Reader : k = query.kind /\ p = query.principal
  BY DEF ListInv, QueryInv, WalkIsSound
<1>3. IsWalk /\ \A y \in query.batch : IsCandidate(y)
  BY DEF ListInv, QueryInv, WalkIsSound
<1>4. /\ query'.pc = pc /\ query'.kind = k /\ query'.principal = p
      /\ query'.cursor = query.cursor /\ query'.broad = query.broad
      /\ query'.batch = batch /\ query'.short = query.short
      /\ query'.found = found /\ query'.listed = query.listed
      /\ query'.count = query.count /\ query'.steady = query.steady
  BY <1>2, <1>3, ZenonT(60) DEF IsWalk, Decides
<1>5. /\ IsFiniteSet(query.found) /\ IsFiniteSet(query.batch) /\ IsFiniteSet(query.listed)
      /\ IsFiniteSet(query.broad)
      /\ query.count = Cardinality(query.listed) /\ PagesAreOrdered
      /\ query.steady \subseteq Promised(k, p)
      /\ \A g \in query.steady : IsKept(g)
  BY <1>2 DEF PageInv
<1>6. IsFiniteSet(found) /\ IsFiniteSet(batch)
  <2>1. IsFiniteSet(query.found \cup {x}) /\ IsFiniteSet(query.batch \ {x})
    BY <1>5, FS_AddElement, FS_RemoveElement
  <2>2. QED
    BY <1>5, <2>1
<1>7. \A i, a : IsPlace(k, i, a) => IsPlace(k, i, a)'
  BY <1>1, PlacesLast
<1>8. \A a : /\ IsPassed(a)' <=> IsPassed(a)
             /\ IsAhead(a)' <=> IsAhead(a)
  BY <1>4 DEF IsPassed, IsAhead
<1>9. OnTheWay' \subseteq OnTheWay
  BY <1>4 DEF OnTheWay
<1>10. PagesAreOrdered'
  BY <1>2, <1>4, <1>5, <1>7, <1>8, <1>9 DEF PagesAreOrdered
<1>11. \A y \in query.batch : \A g : Carries(y, g) => Carries(y, g)'
  BY <1>1, <1>2, <1>3, <1>4, CandidateStays
<1>12. \A g \in query.steady : IsKept(g)'
  <2> SUFFICES ASSUME NEW g \in query.steady PROVE IsKept(g)'
    OBVIOUS
  <2>1. CASE g[1] \in query.listed \/ \E y \in query.found : y.id = g[1]
    BY <1>4, <2>1 DEF IsKept
  <2>2. ASSUME NEW y \in query.batch, y.id = g[1], Carries(y, g) PROVE IsKept(g)'
    <3>1. CASE y \in batch
      BY <1>4, <1>11, <2>2, <3>1 DEF IsKept
    <3>2. CASE y \notin batch
      <4>1. y = x /\ x \notin batch
        BY <3>2
      <4>2. x \in found
        BY <2>2, <4>1
      <4>3. QED
        BY <1>4, <2>2, <4>1, <4>2 DEF IsKept
    <3>3. QED
      BY <3>1, <3>2
  <2>3. CASE ~query.short /\ \E a \in Place : IsPlace(k, g[1], a) /\ IsAhead(a)
    BY <1>4, <1>7, <1>8, <2>3 DEF IsKept
  <2>4. QED
    BY <1>2, <1>5, <2>1, <2>2, <2>3 DEF IsKept, Reading
<1>13. query'.steady \subseteq Promised(k, p)'
  BY <1>1, <1>2, <1>4, <1>5
<1>14. \A g \in query.steady : FoundSoFar(g)'
  BY <1>4 DEF FoundSoFar, ResourceIsFound, SecretIsFound, RequestIsFound
<1>15. QED
  BY <1>4, <1>5, <1>6, <1>10, <1>12, <1>13, <1>14 DEF PageInv

\* What the rows of the project and of the request do not show is left to the
\* guardian row, and was promised by no other.
LEMMA AuthorizeKeepsPages ==
    ASSUME ListInv, PageInv, NEW x \in query.batch, Authorize(x) PROVE PageInv'
<1>1. query.pc = "authorize" /\ Service /\ IsFirst(x)
  BY DEF Authorize, Service
<1>2. IsWalk /\ IsCandidate(x) /\ query.steady \subseteq Promised(query.kind, query.principal)
  BY <1>1 DEF ListInv, QueryInv, WalkIsSound, PageInv
<1>3. IsPending(x.by) \in BOOLEAN
  BY DEF IsPending
<1>4. PICK pending \in BOOLEAN : pending = IsPending(x.by)
  BY <1>3, Zenon
<1>5. PICK batch, found : batch = query.batch \ {x} /\ found = query.found \cup {x}
  OBVIOUS
<1>6. CASE \E way \in {"project", "request"} :
             Shows(query.kind, x, way, pending, query.principal.subject)
  <2>1. query' = [query EXCEPT !.batch = batch, !.found = found]
    BY <1>4, <1>5, <1>6 DEF Authorize
  <2>2. Decides("authorize", query.pending, batch, found)
    BY <1>1, <1>2, <2>1 DEF IsWalk, Decides
  <2>3. x \in found
    BY <1>5
  <2>4. QED
    BY <1>1, <1>5, <2>2, <2>3, DecisionKeepsWalk
<1>7. CASE \A way \in {"project", "request"} :
             ~Shows(query.kind, x, way, pending, query.principal.subject)
  <2>1. query' = [query EXCEPT !.pc = "guardian", !.pending = pending]
    BY <1>4, <1>7 DEF Authorize
  <2>2. Decides("guardian", pending, query.batch, query.found)
    BY <1>2, <2>1 DEF IsWalk, Decides
  <2>3. /\ query'.batch = query.batch /\ query'.pending = pending
        /\ query'.kind = query.kind /\ query'.principal = query.principal
        /\ query'.steady = query.steady
    BY <1>2, <2>1, ZenonT(60) DEF IsWalk
  <2>4. LeftToGuardian(x)'
    <3>1. RowsLast /\ RequestsLast
      BY <1>1, ServiceKeepsRows
    <3>2. (IsOwnRequest(x)' <=> IsOwnRequest(x)) /\ (IsPending(x.by)' => IsPending(x.by))
      BY <1>1, <1>2, <2>3, <3>1, CandidateStays
    <3>3. /\ IsOwnRequest(x) =>
                Shows(query.kind, x, "request", pending, query.principal.subject)
          /\ \A g \in query.steady : g[1] = x.id /\ g[2] = "project" =>
                Shows(query.kind, x, "project", pending, query.principal.subject)
      BY <1>1, <1>2, <1>4, PromisedIsCarried
    <3>4. QED
      BY <1>4, <1>7, <2>3, <3>2, <3>3 DEF LeftToGuardian
  <2>5. \A y \in query.batch : IsFirst(y)' => y = x
    BY <1>1, <2>3 DEF IsFirst
  <2>6. QED
    BY <1>1, <2>2, <2>4, <2>5, DecisionKeepsWalk
<1>8. QED
  BY <1>6, <1>7

\* What the guardian row does not show either is promised to nobody.
LEMMA AuthorizeGuardianKeepsPages ==
    ASSUME ListInv, PageInv, NEW x \in query.batch, AuthorizeGuardian(x) PROVE PageInv'
<1>1. query.pc = "guardian" /\ Service /\ IsFirst(x)
  BY DEF AuthorizeGuardian, Service
<1>2. /\ IsWalk /\ IsCandidate(x) /\ LeftToGuardian(x)
      /\ query.steady \subseteq Promised(query.kind, query.principal)
  BY <1>1 DEF ListInv, QueryInv, WalkIsSound, PageInv
<1>3. PICK batch, found : /\ batch = query.batch \ {x}
                          /\ found = (IF IsGuardian(x) THEN query.found \cup {x} ELSE query.found)
  OBVIOUS
<1>4. Decides("authorize", FALSE, batch, found)
  BY <1>3 DEF AuthorizeGuardian, Decides
<1>5. query.pending \in BOOLEAN
  BY <1>2 DEF IsWalk
<1>6. ASSUME NEW g \in query.steady, g[1] = x.id, Carries(x, g) PROVE IsGuardian(x)
  <2>1. \/ g[2] = "project" \/ IsOwnRequest(x)
        \/ Shows(query.kind, x, "guardian", query.pending, query.principal.subject)
    <3>1. IsPending(x.by) => query.pending
      BY <1>2 DEF LeftToGuardian
    <3>2. QED
      BY <1>1, <1>2, <1>5, <1>6, <3>1, PromisedIsCarried
  <2>2. QED
    BY <1>2, <1>6, <2>1 DEF LeftToGuardian, IsGuardian
<1>7. \/ x \in found
      \/ \A g \in query.steady : ~(g[1] = x.id /\ Carries(x, g))
  BY <1>3, <1>6
<1>8. QED
  BY <1>1, <1>3, <1>4, <1>7, DecisionKeepsWalk

\* A page has the first of what was found; the rest is ahead of its cursor.
LEMMA AnswerKeepsPages ==
    ASSUME ListInv, PageInv, Answer PROVE PageInv'
<1> DEFINE P == First(query.found, PageLimit)
           ids == {x.id : x \in P}
           isLast == Cardinality(query.found) <= PageLimit
<1>1. RowsLast /\ \A kind : \A p \in Reader : Promised(kind, p)' = Promised(kind, p)
  BY ServiceKeepsRows DEF Service
<1>2. query.pc = "authorize" /\ query.batch = {} /\ IsEnough /\ IsWalk
  BY DEF Answer, ListInv, QueryInv
<1>3. PICK k \in Kind, p \in Reader : k = query.kind /\ p = query.principal
  BY <1>2 DEF ListInv, QueryInv, WalkIsSound
<1>4. /\ IsFiniteSet(query.found) /\ IsFiniteSet(query.listed)
      /\ query.count = Cardinality(query.listed)
      /\ query.steady \subseteq Promised(k, p)
      /\ \A g \in query.steady : IsKept(g)
      /\ \A x \in query.found : /\ IsPlace(k, x.id, x.at) /\ IsPassed(x.at)
                                /\ x.id \notin query.listed
      /\ \A i \in query.listed : \E a \in Place :
            /\ IsPlace(k, i, a) /\ IsPassed(a)
            /\ \A x \in query.found : Precedes(a, x.at)
  BY <1>2, <1>3 DEF PageInv, PagesAreOrdered, OnTheWay
<1>e. query.broad = {}
  BY <1>2 DEF ListInv, QueryInv, WalkIsSound, FoundIsSound
<1>5. PICK pc : pc = (IF isLast THEN "done" ELSE "paged")
  OBVIOUS
<1>6. PICK c : c = (IF isLast THEN None ELSE Last(P).at)
  OBVIOUS
<1>7. PICK count : count = query.count + Cardinality(ids)
  OBVIOUS
<1>8. PICK listed : listed = query.listed \cup ids
  OBVIOUS
<1>9. query' = [query EXCEPT !.pc = pc, !.cursor = c, !.found = {}, !.items = ids,
                             !.listed = listed, !.count = count]
  BY <1>5, <1>6, <1>7, <1>8 DEF Answer, NextCursor
<1>10. PICK items : items = ids
  OBVIOUS
<1>11. /\ query'.pc = pc /\ query'.kind = k /\ query'.principal = p
       /\ query'.cursor = c /\ query'.batch = {} /\ query'.short = query.short
       /\ query'.broad = {} /\ query'.found = {} /\ query'.listed = listed
       /\ query'.count = count /\ query'.steady = query.steady
  <2>1. query' = [query EXCEPT !.pc = pc, !.cursor = c, !.found = {}, !.items = items,
                               !.listed = listed, !.count = count]
    BY <1>9, <1>10
  <2> HIDE DEF P, ids, isLast
  <2>2. QED
    BY <1>2, <1>3, <1>e, <2>1, ZenonT(60) DEF IsWalk
<1>12. ArePlaced(query.found) /\ PageLimit \in Nat \ {0}
  BY <1>4, PageLimitAssumption DEF ArePlaced, IsPlace
<1>13. /\ P \subseteq query.found /\ IsFiniteSet(P)
       /\ \A x \in query.found \ P, y \in P : Precedes(y.at, x.at)
       /\ query.found # {} => P # {}
       /\ isLast => P = query.found
  BY <1>4, <1>12, FirstComeFirst
<1>14. ids = {x.id : x \in P}
  OBVIOUS
<1>15. isLast <=> Cardinality(query.found) <= PageLimit
  OBVIOUS
<1> HIDE DEF P, ids, isLast
<1>16. Cardinality(query.found) \in Nat
  BY <1>4, FS_CardinalityType
<1>17. IsFiniteSet(ids)
  <2> DEFINE f == [x \in P |-> x.id]
  <2>1. IsFiniteSet({f[x] : x \in P})
    BY <1>13, ImageIsFinite
  <2>2. {f[x] : x \in P} = ids
    BY <1>14
  <2>3. QED
    BY <2>1, <2>2
<1>18. IsFiniteSet(listed) /\ count = Cardinality(listed)
  <2>1. ids \cap query.listed = {}
    BY <1>4, <1>13, <1>14
  <2>2. /\ IsFiniteSet(listed)
        /\ Cardinality(listed)
             = Cardinality(query.listed) + Cardinality(ids) - Cardinality(query.listed \cap ids)
    BY <1>4, <1>8, <1>17, FS_Union
  <2>3. Cardinality(query.listed \cap ids) = 0
    <3>1. query.listed \cap ids = {}
      BY <2>1
    <3>2. QED
      BY <3>1, FS_EmptySet
  <2>4. Cardinality(query.listed) \in Nat /\ Cardinality(ids) \in Nat
    BY <1>4, <1>17, FS_CardinalityType
  <2>5. QED
    BY <1>4, <1>7, <2>2, <2>3, <2>4
<1>19. query'.steady \subseteq Promised(k, p)'
  BY <1>1, <1>3, <1>4, <1>11
<1>f. pc \in {"done", "paged"}
  BY <1>5
<1>g. \A g \in query.steady : FoundSoFar(g)'
  BY <1>11, <1>f DEF FoundSoFar, ResourceIsFound, SecretIsFound, RequestIsFound
<1>20. CASE isLast
  <2>1. query.short
    BY <1>2, <1>15, <1>16, <1>20, <1>12 DEF IsEnough
  <2>2. \A g \in query.steady : g[1] \in listed
    BY <1>2, <1>4, <1>8, <1>13, <1>14, <1>20, <2>1 DEF IsKept, Reading
  <2>3. QED
    BY <1>5, <1>11, <1>18, <1>19, <1>20, <1>g, <2>2, FS_EmptySet DEF PageInv
<1>21. CASE ~isLast
  <2>1. query.found # {}
    BY <1>12, <1>15, <1>21, FS_EmptySet
  <2>2. P # {} /\ ArePlaced(P)
    BY <1>12, <1>13, <2>1 DEF ArePlaced
  <2>3. Last(P) \in P /\ Last(P).at \in Place /\ \A y \in P : ~Precedes(Last(P).at, y.at)
    BY <1>13, <2>2, LastIsLast
  <2>4. pc = "paged" /\ c = Last(P).at /\ c \in Place
    BY <1>5, <1>6, <1>21, <2>3
  <2>5. \A i, a : IsPlace(k, i, a) => IsPlace(k, i, a)' /\ a \in Place
    BY <1>1, PlacesLast DEF IsPlace
  <2>6. /\ \A a : IsPassed(a)' <=> ~Precedes(c, a)
        /\ \A a : Precedes(c, a) => IsAhead(a)'
    BY <1>11, <2>4 DEF IsPassed, IsAhead
  <2>7. \A i \in listed : \E a \in Place : IsPlace(k, i, a)' /\ IsPassed(a)'
    <3> SUFFICES ASSUME NEW i \in listed
                 PROVE  \E a \in Place : IsPlace(k, i, a)' /\ IsPassed(a)'
      OBVIOUS
    <3>1. CASE i \in query.listed
      <4>1. PICK a \in Place : IsPlace(k, i, a) /\ \A x \in query.found : Precedes(a, x.at)
        BY <1>4, <3>1
      <4>2. ~Precedes(c, a)
        BY <1>13, <2>3, <2>4, <4>1, PlacesAreOrdered
      <4>3. QED
        BY <2>5, <2>6, <4>1, <4>2
    <3>2. CASE i \in ids
      <4>1. PICK x \in P : x.id = i
        BY <1>14, <3>2
      <4>2. IsPlace(k, i, x.at) /\ ~Precedes(c, x.at)
        BY <1>4, <1>13, <2>3, <2>4, <4>1
      <4>3. QED
        BY <2>5, <2>6, <4>2
    <3>3. QED
      BY <1>8, <3>1, <3>2
  <2>8. PagesAreOrdered'
    BY <1>11, <2>4, <2>7 DEF PagesAreOrdered, OnTheWay
  <2>9. \A g \in query.steady : IsKept(g)'
    <3> SUFFICES ASSUME NEW g \in query.steady PROVE IsKept(g)'
      OBVIOUS
    <3>1. CASE g[1] \in listed
      BY <1>11, <3>1 DEF IsKept
    <3>2. ASSUME NEW a \in Place, IsPlace(k, g[1], a), Precedes(c, a) PROVE IsKept(g)'
      BY <1>11, <2>4, <2>5, <2>6, <3>2 DEF IsKept
    <3>3. ASSUME NEW x \in query.found, x.id = g[1] PROVE IsKept(g)'
      <4>1. CASE x \in P
        BY <1>8, <1>14, <3>1, <3>3, <4>1
      <4>2. CASE x \notin P
        <5>1. Precedes(c, x.at) /\ IsPlace(k, g[1], x.at) /\ x.at \in Place
          BY <1>4, <1>13, <2>3, <2>4, <2>5, <3>3, <4>2
        <5>2. QED
          BY <3>2, <5>1
      <4>3. QED
        BY <4>1, <4>2
    <3>4. ASSUME NEW a \in Place, IsPlace(k, g[1], a), IsAhead(a) PROVE IsKept(g)'
      <4>1. query.cursor \in Place /\ ~Precedes(query.cursor, c)
        BY <1>4, <1>13, <2>3, <2>4 DEF IsPassed
      <4>2. Precedes(query.cursor, a)
        BY <3>4, <4>1, NoneIsNoPlace DEF IsAhead
      <4>3. Precedes(c, a)
        BY <2>4, <3>4, <4>1, <4>2, PlacesAreOrdered
      <4>4. QED
        BY <3>2, <3>4, <4>3
    <3>5. IsKept(g)
      BY <1>4
    <3>6. CASE g[1] \in query.listed
      BY <1>8, <3>1, <3>6
    <3>7. QED
      BY <1>2, <1>3, <3>3, <3>4, <3>5, <3>6 DEF IsKept, Reading
  <2>10. QED
    BY <1>11, <1>18, <1>19, <1>g, <2>4, <2>8, <2>9, FS_EmptySet DEF PageInv
<1>22. QED
  BY <1>20, <1>21

\* Every step keeps what a walk is promised.
LEMMA PageInvIsInductive == ListInv /\ PageInv /\ [ListNext]_listVars => PageInv'
<1> SUFFICES ASSUME ListInv, PageInv, [ListNext]_listVars PROVE PageInv'
  OBVIOUS
<1>1. CASE Others
  BY <1>1, OthersKeepPages
<1>2. CASE Service
  BY <1>2, FirstPageKeepsAll, QuietStepsKeepPages, ReadsKeepPages, FetchKeepsPages,
     AuthorizeKeepsPages, AuthorizeGuardianKeepsPages, AnswerKeepsPages DEF Service
<1>3. CASE UNCHANGED listVars
  <2>1. UNCHANGED <<secretVars, request>> /\ query' = query
    BY <1>3 DEF listVars
  <2>2. UNCHANGED <<policyVars, owner, member, home, guardian, version, field, drawn, request>>
    BY <2>1 DEF secretVars, policyVars
  <2>3. RowsLast /\ RequestsLast
    BY <2>2 DEF RowsLast, RequestsLast, Exists, Made
  <2>4. CASE query.pc \in {"idle", "failed"}
    BY <2>1, <2>4 DEF PageInv
  <2>5. CASE query.pc \notin {"idle", "failed"}
    <3>1. PICK k \in Kind, p \in Reader : k = query.kind /\ p = query.principal
      BY <2>5 DEF ListInv, QueryInv, WalkIsSound
    <3>2. Promised(k, p)' = Promised(k, p)
      BY <2>2, PromisedStays
    <3>3. query.steady \subseteq Promised(k, p)
      BY <2>5, <3>1 DEF PageInv
    <3>4. QED
      BY <2>1, <2>3, <2>5, <3>1, <3>2, <3>3, PagesStay
  <2>6. QED
    BY <2>4, <2>5
<1>4. QED
  BY <1>1, <1>2, <1>3 DEF ListNext

\* Whoever walks a list to its end, while roles, secrets and requests change
\* between any two reads of a batch and of the policy, is shown once and only once
\* whatever was there for them all along on one and the same ground.
THEOREM WalksAreComplete == ListSpec => []WalkIsComplete
<1>1. ListInit => PageInv
  BY DEF ListInit, NoWalk, PageInv
<1>2. ListInv /\ PageInv => WalkIsComplete
  BY DEF PageInv, WalkIsComplete
<1>3. QED
  BY <1>1, <1>2, ListInitially, ListInvIsInductive, PageInvIsInductive, PTL DEF ListSpec
=============================================================================
