------------------------------ MODULE TotpCustody ------------------------------
(***************************************************************************)
(* Shared one-time-password accounts: linkTOTPAccount, unlinkTOTPAccount,  *)
(* createTOTPLinkConsent, createTOTPDelegationConsent, createTOTPAccount,  *)
(* updateTOTPAccount, updateTOTPBackupKey and revealTOTPCode of            *)
(* domain/services.ts with the repositories they write through.            *)
(*                                                                         *)
(* The custodian of an account and the owner of a resource never change.   *)
(* A custodian consents that one account, in one version, is linked to one *)
(* resource; the resource's owner links with that consent and then reveals *)
(* codes.  A version is drawn anew by every update of the account: here a  *)
(* counter, 0 before the account is created.  The linkPolicyVersion of a   *)
(* consent is drawn with it, so the consent stands for its own version.    *)
(***************************************************************************)
EXTENDS Naturals

CONSTANTS
    Resource,    \* resources
    Account,     \* TOTP accounts
    User,        \* Discord users
    Owner,       \* Owner[r]: the user who owns resource r
    Custodian,   \* Custodian[a]: ownerDiscordUserId of account a
    Consent,     \* ids that TOTPLinkConsent rows may draw
    Call,        \* handlers that may run at the same time
    None,        \* a null column
    MaxVersion   \* bound of the model: versions an account goes through

ASSUME CustodyAssumption ==
    /\ Owner \in [Resource -> User]
    /\ Custodian \in [Account -> User]
ASSUME NoneAssumption ==
    None \notin Resource /\ None \notin Account /\ None \notin Consent /\ None \notin User
ASSUME VersionAssumption == MaxVersion \in Nat

VARIABLES
    version,    \* version[a] of the TOTPAccount row
    consents,   \* TOTPLinkConsent rows
    link,       \* link[r]: the three TOTP columns of the Resource row
    call,       \* call[k]: what a handler has read so far
    delegated,  \* TOTPDelegationConsent rows
    revealed    \* history: the codes given out, by resource and version

vars == <<version, consents, link, call, delegated, revealed>>

ConsentRow == [status : {"absent", "open", "lapsed", "used"},
               account : Account \cup {None}, resource : Resource \cup {None},
               version : Nat, delegable : BOOLEAN]

\* An envelope is known by the consent it was made of; after an unlink the
\* link version is one no envelope has.
Unlinked == [account |-> None, envelope |-> None, linkVersion |-> None]
Link == [account : Account, envelope : Consent, linkVersion : Consent] \cup {Unlinked}

Frame == [pc : {"idle", "consent", "unlink", "reveal", "current"},
          user : User \cup {None}, resource : Resource \cup {None},
          account : Account \cup {None}, envelope : Consent \cup {None},
          linkVersion : Consent \cup {None}, version : Nat]

Code == [resource : Resource, account : Account, version : Nat]

Delegation == [resource : Resource, account : Account, version : Nat,
               linkVersion : Consent]

TypeOK ==
    /\ version \in [Account -> 0..MaxVersion]
    /\ consents \in [Consent -> ConsentRow]
    /\ link \in [Resource -> Link]
    /\ call \in [Call -> Frame]
    /\ delegated \subseteq Delegation
    /\ revealed \subseteq Code

NoConsent == [status |-> "absent", account |-> None, resource |-> None,
              version |-> 0, delegable |-> FALSE]
Idle == [pc |-> "idle", user |-> None, resource |-> None, account |-> None,
         envelope |-> None, linkVersion |-> None, version |-> 0]

Init ==
    /\ version = [a \in Account |-> 0]
    /\ consents = [c \in Consent |-> NoConsent]
    /\ link = [r \in Resource |-> Unlinked]
    /\ call = [k \in Call |-> Idle]
    /\ delegated = {}
    /\ revealed = {}

Created(a) == version[a] > 0
Finish(k) == call' = [call EXCEPT ![k] = Idle]

-------------------------------------------------------------------------------
(* Accounts                                                                  *)

CreateAccount(a) ==
    /\ ~Created(a)
    /\ 1 <= MaxVersion
    /\ version' = [version EXCEPT ![a] = 1]
    /\ UNCHANGED <<consents, link, call, delegated, revealed>>

\* updateTOTPAccount and updateTOTPBackupKey; the owner they check is static.
UpdateAccount(a) ==
    /\ Created(a)
    /\ version[a] < MaxVersion
    /\ version' = [version EXCEPT ![a] = @ + 1]
    /\ UNCHANGED <<consents, link, call, delegated, revealed>>

-------------------------------------------------------------------------------
(* Link consents                                                             *)

\* The custodian consents; the version is read before the transaction.
ReadForConsent(k, a, r) ==
    /\ call[k].pc = "idle"
    /\ Created(a)
    /\ call' = [call EXCEPT ![k] = [Idle EXCEPT !.pc = "consent",
                   !.user = Custodian[a], !.account = a, !.resource = r,
                   !.version = version[a]]]
    /\ UNCHANGED <<version, consents, link, delegated, revealed>>

CommitConsent(k, c, delegable) ==
    /\ call[k].pc = "consent"
    /\ consents[c].status = "absent"
    /\ consents' = [consents EXCEPT ![c] =
                       [status |-> "open", account |-> call[k].account,
                        resource |-> call[k].resource,
                        version |-> call[k].version, delegable |-> delegable]]
    /\ Finish(k)
    /\ UNCHANGED <<version, link, delegated, revealed>>

\* expiresAt passes.
Lapse(c) ==
    /\ consents[c].status = "open"
    /\ consents' = [consents EXCEPT ![c].status = "lapsed"]
    /\ UNCHANGED <<version, link, call, delegated, revealed>>

-------------------------------------------------------------------------------
(* Link and unlink                                                           *)

\* Mutant: usedAt and expiresAt are not looked at, neither by the check nor
\* by the update of the consent.
UsableAgain(c, a, r) ==
    /\ consents[c].status # "absent"
    /\ consents[c].account = a
    /\ consents[c].resource = r
    /\ consents[c].version = version[a]

\* Mutant: the consent's resource is not compared.
UsableAnywhere(c, a, r) ==
    /\ consents[c].status = "open"
    /\ consents[c].account = a
    /\ consents[c].version = version[a]

Usable(c, a, r) ==
    /\ consents[c].status = "open"
    /\ consents[c].account = a
    /\ consents[c].resource = r
    /\ consents[c].version = version[a]

\* One transaction of the resource's owner, who is the initiator every
\* consent for the resource names.  totpAccountId is unique.
LinkAccount(r, a, c) ==
    /\ link[r].account = None
    /\ Usable(c, a, r)
    /\ \A q \in Resource : link[q].account # a
    /\ consents' = [consents EXCEPT ![c].status = "used"]
    /\ link' = [link EXCEPT ![r] = [account |-> a, envelope |-> c, linkVersion |-> c]]
    /\ UNCHANGED <<version, call, delegated, revealed>>

MayUnlink(u, r) ==
    /\ link[r].account # None
    /\ \/ u = Owner[r]
       \/ u = Custodian[link[r].account]

\* The authority is checked before the transaction.
ReadForUnlink(k, u, r) ==
    /\ call[k].pc = "idle"
    /\ MayUnlink(u, r)
    /\ call' = [call EXCEPT ![k] = [Idle EXCEPT !.pc = "unlink", !.user = u,
                   !.resource = r, !.account = link[r].account]]
    /\ UNCHANGED <<version, consents, link, delegated, revealed>>

\* The transaction clears whatever the row links now.
CommitUnlink(k) ==
    /\ call[k].pc = "unlink"
    /\ link' = [link EXCEPT ![call[k].resource] = Unlinked]
    /\ Finish(k)
    /\ UNCHANGED <<version, consents, delegated, revealed>>

-------------------------------------------------------------------------------
(* Codes                                                                     *)

\* The envelope has the fields of the consent, which are never written again.
\* A version is a UUID: one that is equal is also the same account's.
IsCurrent(envelope, linkVersion, r, a) ==
    /\ envelope # None
    /\ consents[envelope].resource = r
    /\ consents[envelope].account = a
    /\ consents[envelope].version = version[a]
    /\ envelope = linkVersion

\* Mutant: the delegation policy of the link is not consulted.
DelegateAnyway(r) ==
    /\ link[r].account # None
    /\ IsCurrent(link[r].envelope, link[r].linkVersion, r, link[r].account)
    /\ delegated' = delegated \cup
           {[resource |-> r, account |-> link[r].account,
             version |-> version[link[r].account], linkVersion |-> link[r].linkVersion]}
    /\ UNCHANGED <<version, consents, link, call, revealed>>

\* createTOTPDelegationConsent, one transaction of the custodian.
Delegate(r) ==
    /\ link[r].account # None
    /\ IsCurrent(link[r].envelope, link[r].linkVersion, r, link[r].account)
    /\ consents[link[r].envelope].delegable
    /\ delegated' = delegated \cup
           {[resource |-> r, account |-> link[r].account,
             version |-> version[link[r].account], linkVersion |-> link[r].linkVersion]}
    /\ UNCHANGED <<version, consents, link, call, revealed>>

\* revealTOTPCode of the owner reads the resource ...
ReadForReveal(k, r) ==
    /\ call[k].pc = "idle"
    /\ link[r].account # None
    /\ call' = [call EXCEPT ![k] = [Idle EXCEPT !.pc = "reveal", !.user = Owner[r],
                   !.resource = r, !.account = link[r].account,
                   !.envelope = link[r].envelope, !.linkVersion = link[r].linkVersion]]
    /\ UNCHANGED <<version, consents, link, delegated, revealed>>

\* ... then the account's metadata, and compares the two ...
CheckReveal(k) ==
    /\ call[k].pc = "reveal"
    /\ call' = [call EXCEPT ![k] =
                   IF IsCurrent(call[k].envelope, call[k].linkVersion,
                                call[k].resource, call[k].account)
                   THEN [call[k] EXCEPT !.pc = "current",
                                        !.version = version[call[k].account]]
                   ELSE Idle]
    /\ UNCHANGED <<version, consents, link, delegated, revealed>>

\* Mutant: what is loaded is not compared with what was authorized.
RevealLatest(k) ==
    /\ call[k].pc = "current"
    /\ revealed' = revealed \cup {[resource |-> call[k].resource,
                                   account |-> call[k].account,
                                   version |-> version[call[k].account]]}
    /\ Finish(k)
    /\ UNCHANGED <<version, consents, link, delegated>>

\* ... and loads the account itself, which must be the one it authorized.
Reveal(k) ==
    /\ call[k].pc = "current"
    /\ version[call[k].account] = call[k].version
    /\ revealed' = revealed \cup {[resource |-> call[k].resource,
                                   account |-> call[k].account,
                                   version |-> version[call[k].account]]}
    /\ Finish(k)
    /\ UNCHANGED <<version, consents, link, delegated>>

RefuseReveal(k) ==
    /\ call[k].pc = "current"
    /\ version[call[k].account] # call[k].version
    /\ Finish(k)
    /\ UNCHANGED <<version, consents, link, delegated, revealed>>

\* A handler fails or its client goes away before its transaction.
Abort(k) ==
    /\ call[k].pc # "idle"
    /\ Finish(k)
    /\ UNCHANGED <<version, consents, link, delegated, revealed>>

Next ==
    \/ \E a \in Account : CreateAccount(a) \/ UpdateAccount(a)
    \/ \E k \in Call, a \in Account, r \in Resource : ReadForConsent(k, a, r)
    \/ \E k \in Call, c \in Consent, d \in BOOLEAN : CommitConsent(k, c, d)
    \/ \E c \in Consent : Lapse(c)
    \/ \E r \in Resource, a \in Account, c \in Consent : LinkAccount(r, a, c)
    \/ \E k \in Call, u \in User, r \in Resource : ReadForUnlink(k, u, r)
    \/ \E r \in Resource : Delegate(r)
    \/ \E k \in Call, r \in Resource : ReadForReveal(k, r)
    \/ \E k \in Call : CommitUnlink(k) \/ CheckReveal(k) \/ Reveal(k)
                       \/ RefuseReveal(k) \/ Abort(k)

Spec == Init /\ [][Next]_vars

-------------------------------------------------------------------------------
(* Properties                                                                *)

Consented(c, r, a) ==
    /\ consents[c].status = "used"
    /\ consents[c].account = a
    /\ consents[c].resource = r

\* What a resource links is what a custodian consented to link to it, and the
\* consent is spent: the row and its envelope never come apart, whatever
\* unlinks and relinks overlap (linkTOTPAccount, unlinkTOTPAccount).
LinkRestsOnConsent ==
    \A r \in Resource : link[r].account # None =>
        /\ Consented(link[r].envelope, r, link[r].account)
        /\ link[r].linkVersion = link[r].envelope

\* A consent makes one link in its life: it is open before that step, spent
\* after it and never usable again, also after an unlink (useLinkConsent).
ConsentLinksOnce ==
    [][\A c \in Consent :
          /\ (\E r \in Resource : link'[r].envelope = c /\ link[r].envelope # c) =>
                 consents[c].status = "open" /\ consents'[c].status = "used"
          /\ consents[c].status \in {"used", "lapsed"} => consents'[c] = consents[c]]_vars

\* A code is given out only of an account in the very version its custodian
\* consented to share with that resource, although revealTOTPCode reads the
\* link, the metadata and the account in three steps.
RevealedWasConsented ==
    \A x \in revealed : \E c \in Consent :
        /\ Consented(c, x.resource, x.account)
        /\ consents[c].version = x.version

\* A delegation consent rests on a link consent for the same account, version
\* and resource whose policy allows delegation (createTOTPDelegationConsent).
DelegationsWerePermitted ==
    \A d \in delegated :
        /\ Consented(d.linkVersion, d.resource, d.account)
        /\ consents[d.linkVersion].version = d.version
        /\ consents[d.linkVersion].delegable

\* "Either the resource owner or account owner may later unlink it": a link
\* is removed by one of the two that are parties to it.  The code authorizes
\* against the account that was linked before the transaction.
UnlinkedByParty ==
    [][\A k \in Call : CommitUnlink(k) /\ link[call[k].resource].account # None =>
          MayUnlink(call[k].user, call[k].resource)]_vars
===============================================================================
