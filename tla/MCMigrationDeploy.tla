--------------------------- MODULE MCMigrationDeploy ---------------------------
(* MigrationDeploy with one row of before, which names ann.  Three rows are   *)
(* explored where nothing fails, two where something does.                    *)
EXTENDS MigrationDeploy

CONSTANTS ann, resource, request, outbox

\* Resource is staged and rebuilt by the life cycle of credentials; the hardening
\* rebuilds ApprovalRequest, the envelope OutboxEvent.
RebuiltDef == [legacy |-> {request}, hardened |-> {outbox}, enveloped |-> {resource},
               final |-> {}]

WrittenDef == {<<"OPERATIONAL", {ann}>>, <<"SECURITY", {}>>}

\* Ids are drawn in ascending order, which for equal times is that of the log.
Narrowed ==
    LET Drawn == {e \in Event : log[e].status # "absent"}
        Drawn2 == {e \in Event : log'[e].status # "absent"} IN
    /\ faults' > 0 => Cardinality(Drawn2) <= 2
    /\ \A e \in Drawn2 \ Drawn : IF e \in Legacy THEN log'[e].mentions = {ann}
                                 ELSE \A f \in Drawn : f < e
================================================================================
