----------------------------- MODULE MCKeyRotation -----------------------------
EXTENDS KeyRotation, TLC

CONSTANTS ann, bob, p1, p2, r1

\* The scopes that exchangeCodeForToken gives its tokens (auth.ts:49), and
\* those of the token in system_api.test.ts:69, whose reveals are admitted.
Minted == {"project.view", "environment.view", "resource.view", "request.create"}
BobsPrincipals ==
    {DiscordPrincipal(bob), Token(bob, Minted),
     Token(bob, {"secret.value.read", "secret.write"})}

\* Names and values are only compared.
NamesAndValues == Permutations(Name) \cup Permutations(Value)

\* Two projects of two owners, a resource of the first or of nobody's and three
\* changes of version.  The requests are bob's: what ann owns herself she may
\* always use.  Scopes play no part in PUT, so its token has the usual ones.
TwoOwners ==
    /\ owner[p1] = ann
    /\ owner[p2] \in {bob, None}
    /\ owner[p2] = None => policy[p1] = 1 /\ version[r1] < 2
    /\ policy[p1] + version[r1] < 6
    /\ home[r1] # p2 /\ member[p1][ann] = None /\ member[p2] = [u \in User |-> None]
    /\ guardian[r1][ann] # "GUARDIAN"
    /\ \A k \in Call : call[k].op = "put" => call[k].principal.scopes = Minted

\* A run of rotate-keys reads no roles: it is watched before any change.
RolesRest == rot'.pc # "idle" => policy[p1] = 1 /\ UNCHANGED policyVars
================================================================================
