--------------------------- MODULE TotpCustodyProofs ---------------------------
(***************************************************************************)
(* Proofs about TotpCustody for every set of resources, accounts, users,   *)
(* consents and handlers, any owners and custodians, and any bound on the  *)
(* versions.                                                               *)
(***************************************************************************)
EXTENDS TotpCustody, TLAPS

\* What a handler has read names real rows, and the envelope it holds is one
\* a custodian consented to, also when the link is gone in the meantime.
ReadIsFounded(k) ==
    /\ call[k].pc # "idle" => call[k].resource \in Resource
    /\ call[k].pc = "consent" => call[k].account \in Account
    /\ call[k].pc \in {"reveal", "current"} =>
         /\ call[k].account \in Account
         /\ call[k].envelope \in Consent
         /\ Consented(call[k].envelope, call[k].resource, call[k].account)
    /\ call[k].pc = "current" =>
         consents[call[k].envelope].version = call[k].version

ReadsAreFounded == \A k \in Call : ReadIsFounded(k)

IInv ==
    /\ TypeOK
    /\ ReadsAreFounded
    /\ LinkRestsOnConsent
    /\ RevealedWasConsented
    /\ DelegationsWerePermitted

\* A spent consent is never written again.
SpentIsKept == \A c \in Consent : consents[c].status = "used" => consents'[c] = consents[c]

USE DEF ConsentRow, Link, Unlinked, Frame, Code, Delegation, NoConsent, Idle, Finish

LEMMA InitIInv == Init => IInv
<1> SUFFICES ASSUME Init PROVE IInv
  OBVIOUS
<1>1. TypeOK
  BY VersionAssumption DEF Init, TypeOK
<1>2. ReadsAreFounded
  BY DEF Init, ReadsAreFounded, ReadIsFounded
<1>3. LinkRestsOnConsent
  BY DEF Init, LinkRestsOnConsent
<1>4. RevealedWasConsented /\ DelegationsWerePermitted
  BY DEF Init, RevealedWasConsented, DelegationsWerePermitted
<1> QED
  BY <1>1, <1>2, <1>3, <1>4 DEF IInv

-------------------------------------------------------------------------------
(* What the parts of the invariant depend on                                 *)

LEMMA ConsentedKept ==
    ASSUME SpentIsKept, NEW c \in Consent, NEW r, NEW a, Consented(c, r, a)
    PROVE  Consented(c, r, a)' /\ consents'[c] = consents[c]
BY DEF SpentIsKept, Consented

LEMMA ReadKept ==
    ASSUME SpentIsKept, NEW k \in Call, ReadIsFounded(k), call'[k] = call[k]
    PROVE  ReadIsFounded(k)'
<1>1. CASE call[k].pc \in {"reveal", "current"}
  <2>1. /\ Consented(call[k].envelope, call[k].resource, call[k].account)'
        /\ consents'[call[k].envelope] = consents[call[k].envelope]
    <3>1. call[k].envelope \in Consent
      BY <1>1 DEF ReadIsFounded
    <3>2. Consented(call[k].envelope, call[k].resource, call[k].account)
      BY <1>1 DEF ReadIsFounded
    <3> QED
      BY <3>1, <3>2 DEF SpentIsKept, Consented
  <2> QED
    BY <1>1, <2>1 DEF ReadIsFounded, Consented
<1>2. CASE call[k].pc \notin {"reveal", "current"}
  BY <1>2 DEF ReadIsFounded
<1> QED
  BY <1>1, <1>2

LEMMA LinksKept ==
    ASSUME TypeOK, LinkRestsOnConsent, SpentIsKept,
           \A r \in Resource : link'[r] = link[r] \/ link'[r].account = None
    PROVE  LinkRestsOnConsent'
<1> SUFFICES ASSUME NEW r \in Resource, link'[r].account # None
             PROVE  /\ Consented(link[r].envelope, r, link[r].account)'
                    /\ link'[r].linkVersion = link'[r].envelope
  BY DEF LinkRestsOnConsent
<1>1. link'[r] = link[r] /\ link[r].account # None
  OBVIOUS
<1>2. link[r].envelope \in Consent
  BY <1>1 DEF TypeOK
<1>3. Consented(link[r].envelope, r, link[r].account) /\ link[r].linkVersion = link[r].envelope
  BY <1>1 DEF LinkRestsOnConsent
<1> QED
  BY <1>1, <1>2, <1>3 DEF SpentIsKept, Consented

LEMMA RevealedKept ==
    ASSUME RevealedWasConsented, SpentIsKept, UNCHANGED revealed
    PROVE  RevealedWasConsented'
BY DEF RevealedWasConsented, SpentIsKept, Consented

LEMMA DelegatedKept ==
    ASSUME TypeOK, DelegationsWerePermitted, SpentIsKept, UNCHANGED delegated
    PROVE  DelegationsWerePermitted'
<1> SUFFICES ASSUME NEW d \in delegated
             PROVE  /\ Consented(d.linkVersion, d.resource, d.account)'
                    /\ consents'[d.linkVersion].version = d.version
                    /\ consents'[d.linkVersion].delegable
  BY DEF DelegationsWerePermitted
<1>1. d.linkVersion \in Consent
  BY DEF TypeOK
<1> QED
  BY <1>1 DEF DelegationsWerePermitted, SpentIsKept, Consented

\* A step that leaves consents, links and history alone and moves one handler.
LEMMA HandlerStep ==
    ASSUME IInv, NEW k \in Call, NEW f \in Frame,
           call' = [call EXCEPT ![k] = f], ReadIsFounded(k)',
           UNCHANGED <<version, consents, link, delegated, revealed>>
    PROVE  IInv'
<1>1. TypeOK'
  BY DEF IInv, TypeOK
<1>2. SpentIsKept
  BY DEF SpentIsKept
<1>3. ReadsAreFounded'
  BY <1>2, ReadKept DEF IInv, TypeOK, ReadsAreFounded
<1>4. LinkRestsOnConsent'
  BY <1>2, LinksKept DEF IInv
<1> QED
  BY <1>1, <1>2, <1>3, <1>4, RevealedKept, DelegatedKept DEF IInv

-------------------------------------------------------------------------------
(* One lemma per action                                                      *)

\* An update outdates consents and links; it touches no row of theirs.
LEMMA VersionStep ==
    ASSUME IInv, version' \in [Account -> 0..MaxVersion],
           UNCHANGED <<consents, link, call, delegated, revealed>>
    PROVE  IInv'
<1>1. TypeOK'
  BY DEF IInv, TypeOK
<1>2. SpentIsKept
  BY DEF SpentIsKept
<1>3. ReadsAreFounded'
  BY DEF IInv, ReadsAreFounded, ReadIsFounded, Consented
<1>4. LinkRestsOnConsent'
  BY <1>2, LinksKept DEF IInv
<1> QED
  BY <1>1, <1>2, <1>3, <1>4, RevealedKept, DelegatedKept DEF IInv

LEMMA AccountIInv ==
    ASSUME IInv, NEW a \in Account, CreateAccount(a) \/ UpdateAccount(a)
    PROVE  IInv'
<1>1. version' \in [Account -> 0..MaxVersion]
  <2>1. CASE CreateAccount(a)
    BY <2>1, VersionAssumption DEF IInv, TypeOK, CreateAccount
  <2>2. CASE UpdateAccount(a)
    <3>1. version[a] + 1 \in 0..MaxVersion
      BY <2>2, VersionAssumption DEF IInv, TypeOK, UpdateAccount
    <3> QED
      BY <2>2, <3>1 DEF IInv, TypeOK, UpdateAccount
  <2> QED
    BY <2>1, <2>2
<1> QED
  BY <1>1, VersionStep DEF CreateAccount, UpdateAccount

LEMMA VersionIsNat ==
    ASSUME TypeOK, NEW a \in Account
    PROVE  version[a] \in Nat
BY VersionAssumption DEF TypeOK

LEMMA ReadForConsentIInv ==
    ASSUME IInv, NEW k \in Call, NEW a \in Account, NEW r \in Resource,
           ReadForConsent(k, a, r)
    PROVE  IInv'
<1> DEFINE f == [Idle EXCEPT !.pc = "consent", !.user = Custodian[a], !.account = a,
                             !.resource = r, !.version = version[a]]
<1>1. f \in Frame
  BY VersionIsNat, CustodyAssumption DEF IInv
<1>2. call' = [call EXCEPT ![k] = f]
  BY DEF ReadForConsent
<1>3. ReadIsFounded(k)'
  BY <1>2 DEF IInv, TypeOK, ReadIsFounded
<1> QED
  BY <1>1, <1>2, <1>3, HandlerStep DEF ReadForConsent

\* A step that writes one unspent consent and ends at most one handler.
LEMMA ConsentStep ==
    ASSUME IInv, NEW c \in Consent, NEW row \in ConsentRow, consents[c].status # "used",
           consents' = [consents EXCEPT ![c] = row],
           call' = call \/ \E k \in Call : call' = [call EXCEPT ![k] = Idle],
           UNCHANGED <<version, link, delegated, revealed>>
    PROVE  IInv'
<1>1. TypeOK'
  <2>1. consents' \in [Consent -> ConsentRow]
    BY DEF IInv, TypeOK
  <2>2. call' \in [Call -> Frame]
    <3>1. Idle \in Frame
      OBVIOUS
    <3> QED
      BY <3>1 DEF IInv, TypeOK
  <2> QED
    BY <2>1, <2>2 DEF IInv, TypeOK
<1>2. SpentIsKept
  BY DEF IInv, TypeOK, SpentIsKept
<1>3. ReadsAreFounded'
  <2> SUFFICES ASSUME NEW k \in Call PROVE ReadIsFounded(k)'
    BY DEF ReadsAreFounded
  <2>1. call'[k] = call[k] \/ call'[k] = Idle
    BY DEF IInv, TypeOK
  <2>2. CASE call'[k] = call[k]
    BY <1>2, <2>2, ReadKept DEF IInv, ReadsAreFounded
  <2>3. CASE call'[k] = Idle
    BY <2>3 DEF ReadIsFounded
  <2> QED
    BY <2>1, <2>2, <2>3
<1>4. LinkRestsOnConsent'
  BY <1>2, LinksKept DEF IInv
<1> QED
  BY <1>1, <1>2, <1>3, <1>4, RevealedKept, DelegatedKept DEF IInv

LEMMA CommitConsentIInv ==
    ASSUME IInv, NEW k \in Call, NEW c \in Consent, NEW d \in BOOLEAN,
           CommitConsent(k, c, d)
    PROVE  IInv'
<1> DEFINE row == [status |-> "open", account |-> call[k].account,
                   resource |-> call[k].resource,
                   version |-> call[k].version, delegable |-> d]
<1>1. call[k] \in Frame
  BY DEF IInv, TypeOK
<1>2. row \in ConsentRow
  BY <1>1
<1>3. consents' = [consents EXCEPT ![c] = row] /\ consents[c].status # "used"
  BY DEF CommitConsent
<1>4. call' = call \/ \E j \in Call : call' = [call EXCEPT ![j] = Idle]
  BY DEF CommitConsent
<1>5. UNCHANGED <<version, link, delegated, revealed>>
  BY DEF CommitConsent
<1> HIDE DEF row
<1> QED
  BY <1>2, <1>3, <1>4, <1>5, ConsentStep

LEMMA LapseIInv ==
    ASSUME IInv, NEW c \in Consent, Lapse(c)
    PROVE  IInv'
<1> DEFINE row == [consents[c] EXCEPT !.status = "lapsed"]
<1>1. row \in ConsentRow
  BY DEF IInv, TypeOK
<1>2. consents' = [consents EXCEPT ![c] = row]
  BY DEF Lapse
<1> QED
  BY <1>1, <1>2, ConsentStep DEF Lapse

LEMMA LinkAccountIInv ==
    ASSUME IInv, NEW r \in Resource, NEW a \in Account, NEW c \in Consent,
           LinkAccount(r, a, c)
    PROVE  IInv'
<1>1. TypeOK'
  BY DEF IInv, TypeOK, LinkAccount
<1>2. SpentIsKept
  BY DEF IInv, TypeOK, SpentIsKept, LinkAccount, Usable
<1>3. ReadsAreFounded'
  BY <1>2, ReadKept DEF IInv, ReadsAreFounded, LinkAccount
<1>4. LinkRestsOnConsent'
  <2> SUFFICES ASSUME NEW q \in Resource, link'[q].account # None
               PROVE  /\ Consented(link[q].envelope, q, link[q].account)'
                      /\ link'[q].linkVersion = link'[q].envelope
    BY DEF LinkRestsOnConsent
  <2>1. CASE q = r
    <3>1. link'[r] = [account |-> a, envelope |-> c, linkVersion |-> c]
      BY DEF IInv, TypeOK, LinkAccount
    <3>2. /\ consents'[c].status = "used"
          /\ consents'[c].account = a
          /\ consents'[c].resource = r
      BY DEF IInv, TypeOK, LinkAccount, Usable
    <3> QED
      BY <2>1, <3>1, <3>2 DEF Consented
  <2>2. CASE q # r
    <3>1. link'[q] = link[q] /\ link[q].account # None
      BY <2>2 DEF IInv, TypeOK, LinkAccount
    <3>2. link[q].envelope \in Consent
      BY <3>1 DEF IInv, TypeOK
    <3> QED
      BY <1>2, <3>1, <3>2 DEF IInv, LinkRestsOnConsent, SpentIsKept, Consented
  <2> QED
    BY <2>1, <2>2
<1>5. UNCHANGED <<revealed, delegated>>
  BY DEF LinkAccount
<1> QED
  BY <1>1, <1>2, <1>3, <1>4, <1>5, RevealedKept, DelegatedKept DEF IInv

LEMMA ReadForUnlinkIInv ==
    ASSUME IInv, NEW k \in Call, NEW u \in User, NEW r \in Resource,
           ReadForUnlink(k, u, r)
    PROVE  IInv'
<1> DEFINE f == [Idle EXCEPT !.pc = "unlink", !.user = u, !.resource = r,
                             !.account = link[r].account]
<1>1. f \in Frame
  <2>1. link[r].account \in Account \cup {None}
    BY DEF IInv, TypeOK
  <2> QED
    BY <2>1
<1>2. call' = [call EXCEPT ![k] = f]
  BY DEF ReadForUnlink
<1>3. ReadIsFounded(k)'
  BY <1>2 DEF IInv, TypeOK, ReadIsFounded
<1> QED
  BY <1>1, <1>2, <1>3, HandlerStep DEF ReadForUnlink

LEMMA CommitUnlinkIInv ==
    ASSUME IInv, NEW k \in Call, CommitUnlink(k)
    PROVE  IInv'
<1>1. TypeOK'
  BY DEF IInv, TypeOK, CommitUnlink
<1>2. SpentIsKept
  BY DEF SpentIsKept, CommitUnlink
<1>3. ReadsAreFounded'
  <2> SUFFICES ASSUME NEW j \in Call PROVE ReadIsFounded(j)'
    BY DEF ReadsAreFounded
  <2>1. CASE j = k
    BY <2>1 DEF IInv, TypeOK, CommitUnlink, ReadIsFounded
  <2>2. CASE j # k
    BY <1>2, <2>2, ReadKept DEF IInv, TypeOK, ReadsAreFounded, CommitUnlink
  <2> QED
    BY <2>1, <2>2
<1>4. LinkRestsOnConsent'
  <2>1. \A r \in Resource : link'[r] = link[r] \/ link'[r].account = None
    BY DEF IInv, TypeOK, CommitUnlink
  <2> QED
    BY <1>2, <2>1, LinksKept DEF IInv
<1>5. UNCHANGED <<revealed, delegated>>
  BY DEF CommitUnlink
<1> QED
  BY <1>1, <1>2, <1>3, <1>4, <1>5, RevealedKept, DelegatedKept DEF IInv

\* The authority that the owner reads is the custodian's, as long as it stands.
LEMMA ReadForRevealIInv ==
    ASSUME IInv, NEW k \in Call, NEW r \in Resource, ReadForReveal(k, r)
    PROVE  IInv'
<1> DEFINE f == [Idle EXCEPT !.pc = "reveal", !.user = Owner[r], !.resource = r,
                             !.account = link[r].account, !.envelope = link[r].envelope,
                             !.linkVersion = link[r].linkVersion]
<1>1. link[r].account \in Account /\ link[r].envelope \in Consent
      /\ link[r].linkVersion \in Consent
  BY DEF IInv, TypeOK, ReadForReveal
<1>2. f \in Frame
  BY <1>1, CustodyAssumption
<1>3. call' = [call EXCEPT ![k] = f]
  BY DEF ReadForReveal
<1>4. Consented(link[r].envelope, r, link[r].account)
  BY DEF IInv, LinkRestsOnConsent, ReadForReveal
<1>5. ReadIsFounded(k)'
  <2>1. call'[k] = f
    BY <1>3 DEF IInv, TypeOK
  <2>2. UNCHANGED consents
    BY DEF ReadForReveal
  <2> QED
    BY <1>1, <1>4, <2>1, <2>2 DEF ReadIsFounded, Consented
<1>6. UNCHANGED <<version, consents, link, delegated, revealed>>
  BY DEF ReadForReveal
<1> HIDE DEF f
<1> QED
  BY <1>2, <1>3, <1>5, <1>6, HandlerStep

LEMMA FinishIInv ==
    ASSUME IInv, NEW k \in Call, Finish(k),
           UNCHANGED <<version, consents, link, delegated, revealed>>
    PROVE  IInv'
<1>1. Idle \in Frame
  OBVIOUS
<1>2. ReadIsFounded(k)'
  BY DEF IInv, TypeOK, ReadIsFounded
<1> QED
  BY <1>1, <1>2, HandlerStep

LEMMA CheckRevealIInv ==
    ASSUME IInv, NEW k \in Call, CheckReveal(k)
    PROVE  IInv'
<1> DEFINE g == IsCurrent(call[k].envelope, call[k].linkVersion,
                          call[k].resource, call[k].account)
           f == [call[k] EXCEPT !.pc = "current", !.version = version[call[k].account]]
<1>1. CASE g
  <2>1. /\ call[k] \in Frame /\ call[k].pc = "reveal"
        /\ call[k].account \in Account /\ ReadIsFounded(k)
    BY DEF IInv, TypeOK, ReadsAreFounded, ReadIsFounded, CheckReveal
  <2>2. f \in Frame
    BY <2>1, VersionIsNat DEF IInv
  <2>3. call' = [call EXCEPT ![k] = f]
    BY <1>1 DEF CheckReveal
  <2>4. ReadIsFounded(k)'
    <3>1. call'[k] = f
      BY <2>3 DEF IInv, TypeOK
    <3>2. UNCHANGED consents
      BY DEF CheckReveal
    <3>3. consents[call[k].envelope].version = version[call[k].account]
      BY <1>1 DEF IsCurrent
    <3> QED
      BY <2>1, <3>1, <3>2, <3>3 DEF ReadIsFounded, Consented
  <2>5. UNCHANGED <<version, consents, link, delegated, revealed>>
    BY DEF CheckReveal
  <2> HIDE DEF f
  <2> QED
    BY <2>2, <2>3, <2>4, <2>5, HandlerStep
<1>2. CASE ~ g
  <2>1. Finish(k) /\ UNCHANGED <<version, consents, link, delegated, revealed>>
    BY <1>2 DEF CheckReveal
  <2> QED
    BY <2>1, FinishIInv
<1> QED
  BY <1>1, <1>2

\* The version loaded is the one the envelope was checked against.
LEMMA RevealIInv ==
    ASSUME IInv, NEW k \in Call, Reveal(k)
    PROVE  IInv'
<1> DEFINE x == [resource |-> call[k].resource, account |-> call[k].account,
                 version |-> version[call[k].account]]
<1>1. /\ call[k].resource \in Resource /\ call[k].account \in Account
      /\ call[k].envelope \in Consent
      /\ Consented(call[k].envelope, call[k].resource, call[k].account)
      /\ consents[call[k].envelope].version = version[call[k].account]
  BY DEF IInv, ReadsAreFounded, ReadIsFounded, Reveal
<1>2. TypeOK'
  <2>1. x \in Code
    BY <1>1, VersionIsNat DEF IInv
  <2>2. Idle \in Frame
    OBVIOUS
  <2> QED
    BY <2>1, <2>2 DEF IInv, TypeOK, Reveal
<1>3. SpentIsKept
  BY DEF SpentIsKept, Reveal
<1>4. ReadsAreFounded'
  <2> SUFFICES ASSUME NEW j \in Call PROVE ReadIsFounded(j)'
    BY DEF ReadsAreFounded
  <2>1. CASE j = k
    BY <2>1 DEF IInv, TypeOK, Reveal, ReadIsFounded
  <2>2. CASE j # k
    BY <1>3, <2>2, ReadKept DEF IInv, TypeOK, ReadsAreFounded, Reveal
  <2> QED
    BY <2>1, <2>2
<1>5. LinkRestsOnConsent' /\ DelegationsWerePermitted'
  BY <1>3, LinksKept, DelegatedKept DEF IInv, Reveal
<1>6. RevealedWasConsented'
  <2>1. revealed' = revealed \cup {x} /\ consents' = consents
    BY DEF Reveal
  <2> QED
    BY <1>1, <2>1 DEF IInv, RevealedWasConsented, Consented
<1> QED
  BY <1>2, <1>4, <1>5, <1>6 DEF IInv

LEMMA DelegateIInv ==
    ASSUME IInv, NEW r \in Resource, Delegate(r)
    PROVE  IInv'
<1> DEFINE d == [resource |-> r, account |-> link[r].account,
                 version |-> version[link[r].account],
                 linkVersion |-> link[r].linkVersion]
<1>1. /\ link[r].account \in Account /\ link[r].linkVersion \in Consent
      /\ link[r].envelope = link[r].linkVersion
      /\ Consented(link[r].linkVersion, r, link[r].account)
  BY DEF IInv, TypeOK, LinkRestsOnConsent, Delegate
<1>2. TypeOK'
  <2>1. d \in Delegation
    BY <1>1, VersionIsNat DEF IInv
  <2> QED
    BY <2>1 DEF IInv, TypeOK, Delegate
<1>3. SpentIsKept
  BY DEF SpentIsKept, Delegate
<1>4. ReadsAreFounded'
  BY <1>3, ReadKept DEF IInv, ReadsAreFounded, Delegate
<1>5. LinkRestsOnConsent' /\ RevealedWasConsented'
  BY <1>3, LinksKept, RevealedKept DEF IInv, Delegate
<1>6. DelegationsWerePermitted'
  <2>1. delegated' = delegated \cup {d} /\ consents' = consents
    BY DEF Delegate
  <2>2. /\ consents[link[r].linkVersion].version = version[link[r].account]
        /\ consents[link[r].linkVersion].delegable
    BY <1>1 DEF Delegate, IsCurrent
  <2> QED
    BY <1>1, <2>1, <2>2 DEF IInv, DelegationsWerePermitted, Consented
<1> QED
  BY <1>2, <1>4, <1>5, <1>6 DEF IInv

-------------------------------------------------------------------------------
(* The theorems                                                              *)

LEMMA NextIInv == IInv /\ [Next]_vars => IInv'
<1> SUFFICES ASSUME IInv, [Next]_vars PROVE IInv'
  OBVIOUS
<1>1. ASSUME NEW a \in Account, CreateAccount(a) \/ UpdateAccount(a) PROVE IInv'
  BY <1>1, AccountIInv
<1>2. ASSUME NEW k \in Call, NEW a \in Account, NEW r \in Resource, ReadForConsent(k, a, r)
      PROVE  IInv'
  BY <1>2, ReadForConsentIInv
<1>3. ASSUME NEW k \in Call, NEW c \in Consent, NEW d \in BOOLEAN, CommitConsent(k, c, d)
      PROVE  IInv'
  BY <1>3, CommitConsentIInv
<1>4. ASSUME NEW c \in Consent, Lapse(c) PROVE IInv'
  BY <1>4, LapseIInv
<1>5. ASSUME NEW r \in Resource, NEW a \in Account, NEW c \in Consent, LinkAccount(r, a, c)
      PROVE  IInv'
  BY <1>5, LinkAccountIInv
<1>6. ASSUME NEW k \in Call, NEW u \in User, NEW r \in Resource, ReadForUnlink(k, u, r)
      PROVE  IInv'
  BY <1>6, ReadForUnlinkIInv
<1>7. ASSUME NEW r \in Resource, Delegate(r) PROVE IInv'
  BY <1>7, DelegateIInv
<1>8. ASSUME NEW k \in Call, NEW r \in Resource, ReadForReveal(k, r) PROVE IInv'
  BY <1>8, ReadForRevealIInv
<1>9. ASSUME NEW k \in Call, CommitUnlink(k) PROVE IInv'
  BY <1>9, CommitUnlinkIInv
<1>10. ASSUME NEW k \in Call, CheckReveal(k) PROVE IInv'
  BY <1>10, CheckRevealIInv
<1>11. ASSUME NEW k \in Call, Reveal(k) PROVE IInv'
  BY <1>11, RevealIInv
<1>12. ASSUME NEW k \in Call, RefuseReveal(k) \/ Abort(k) PROVE IInv'
  BY <1>12, FinishIInv DEF RefuseReveal, Abort
<1>13. CASE UNCHANGED vars
  <2>1. /\ call' = call
        /\ UNCHANGED <<version, consents, link, call, delegated, revealed>>
    BY <1>13 DEF vars
  <2> QED
    BY <2>1, VersionStep DEF IInv, TypeOK
<1> QED
  BY <1>1, <1>2, <1>3, <1>4, <1>5, <1>6, <1>7, <1>8, <1>9, <1>10, <1>11, <1>12,
     <1>13 DEF Next

LEMMA IInvAlways == Spec => []IInv
BY InitIInv, NextIInv, PTL DEF Spec

\* Every value a handler or a row holds is of its type.
THEOREM TypeCorrect == Spec => []TypeOK
BY IInvAlways, PTL DEF IInv

\* Whatever is linked is what its custodian consented to link, and the consent
\* is spent (linkTOTPAccount, unlinkTOTPAccount).
THEOREM LinksRestOnConsents == Spec => []LinkRestsOnConsent
BY IInvAlways, PTL DEF IInv

\* No interleaving of updates, unlinks, relinks and reveals gives out a code of
\* a version nobody consented to share (revealTOTPCode).
THEOREM RevealsAreConsented == Spec => []RevealedWasConsented
BY IInvAlways, PTL DEF IInv

\* Every delegation consent rests on a link consent that allows delegation.
THEOREM DelegationsArePermitted == Spec => []DelegationsWerePermitted
BY IInvAlways, PTL DEF IInv

\* A consent makes at most one link in its life (useLinkConsent).
THEOREM ConsentsLinkOnce == Spec => ConsentLinksOnce
<1> DEFINE Once ==
      \A c \in Consent :
          /\ (\E r \in Resource : link'[r].envelope = c /\ link[r].envelope # c) =>
                 consents[c].status = "open" /\ consents'[c].status = "used"
          /\ consents[c].status \in {"used", "lapsed"} => consents'[c] = consents[c]
<1>1. ASSUME IInv, Next PROVE Once
  <2>1. ASSUME NEW r \in Resource, NEW a \in Account, NEW c \in Consent,
               LinkAccount(r, a, c)
        PROVE  Once
    <3>1. consents' = [consents EXCEPT ![c].status = "used"] /\ consents[c].status = "open"
      BY <2>1 DEF LinkAccount, Usable
    <3>2. \A q \in Resource : link'[q] = link[q] \/ link'[q].envelope = c
      BY <1>1, <2>1 DEF IInv, TypeOK, LinkAccount
    <3>3. consents'[c].status = "used"
          /\ \A e \in Consent \ {c} : consents'[e] = consents[e]
      BY <1>1, <3>1 DEF IInv, TypeOK
    <3> QED
      BY <3>1, <3>2, <3>3
  <2>2. ASSUME NEW k \in Call, CommitUnlink(k) PROVE Once
    <3>1. \A q \in Resource : link'[q] = link[q] \/ link'[q].envelope = None
      BY <1>1, <2>2 DEF IInv, TypeOK, CommitUnlink
    <3>2. consents' = consents
      BY <2>2 DEF CommitUnlink
    <3> QED
      BY <3>1, <3>2, NoneAssumption
  <2>3. ASSUME NEW k \in Call, NEW c \in Consent, NEW d \in BOOLEAN, CommitConsent(k, c, d)
        PROVE  Once
    BY <1>1, <2>3 DEF IInv, TypeOK, CommitConsent
  <2>4. ASSUME NEW c \in Consent, Lapse(c) PROVE Once
    BY <1>1, <2>4 DEF IInv, TypeOK, Lapse
  <2>5. ASSUME UNCHANGED <<consents, link>> PROVE Once
    BY <2>5
  <2> QED
    BY <1>1, <2>1, <2>2, <2>3, <2>4, <2>5
    DEF Next, CreateAccount, UpdateAccount, ReadForConsent, ReadForUnlink, Delegate,
        ReadForReveal, CheckReveal, Reveal, RefuseReveal, Abort
<1>2. IInv /\ [Next]_vars => [Once]_vars
  BY <1>1
<1> QED
  BY <1>2, IInvAlways, PTL DEF Spec, ConsentLinksOnce
===============================================================================
