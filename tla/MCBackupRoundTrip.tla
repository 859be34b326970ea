-------------------------- MODULE MCBackupRoundTrip --------------------------
(* BackupRoundTrip on four packages of two processes that overlap, of which *)
(* two must be kept.                                                        *)
EXTENDS BackupRoundTrip, TLC

Symmetric == Permutations(Run) \cup Permutations(Key)

\* Names come in their order, as far as the times in them differ.  One file at most
\* is damaged or left half-written; runs overlap once there are two packages that
\* can grow old; and keys change while one of them runs at most.
Narrowed ==
    /\ \A p, q \in Package : p < q /\ (\E h \in Run : run'[h].package = q /\ At(h, "create"))
          => (\E h \in Run : run[h].package = p) \/ offsite[p].status # "none"
    /\ Cardinality({p \in Package : /\ offsite'[p].status \in {"partial", "damaged"}
                                    /\ \A h \in Run : run'[h].package # p}) <= 1
    /\ (\A h \in Run : UnderWay(h)')
          => Cardinality({p \in Package : Restores(p, Key)' /\ offsite'[p].mtime = 0}) >= 2
    /\ (\A h \in Run : UnderWay(h)) => ring' = ring /\ active' = active
==============================================================================
