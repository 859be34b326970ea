----------------------- MODULE MCCredentialLifecycle -----------------------
(* CredentialLifecycle on small sets.  The clock runs while there is no row  *)
(* yet and every request presents text that is no credential; a third row is *)
(* explored where it belongs to the lineage of the first and no request has  *)
(* failed.                                                                   *)
EXTENDS CredentialLifecycle, TLC

RingDef == {s \in UNION {[1..n -> Key] : n \in 1..Cardinality(Key)} :
               \A m, n \in DOMAIN s : s[m] = s[n] => m = n}

Symmetry == Permutations(Handler) \cup Permutations(Id) \cup Permutations(Key)

Rows == {i \in Id : Exists(i)}
Bounded ==
    /\ now > 0 => Rows = {}
    /\ Cardinality(Rows) > 2 =>
           /\ Cardinality({i \in Rows : cred[i].replaces = None}) = 1
           /\ \A c \in LimiterKey : failures[c] = 0
=============================================================================
