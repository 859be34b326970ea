---------------------------- MODULE MCOutboxWorker ----------------------------
(* OutboxWorker with the model values of the MCOutbox*.cfg files.             *)
EXTENDS OutboxWorker

\* Only LoadTargets reads which destinations are registered: it is enough that
\* they change right before it, or while the worker sleeps.
ChangesMatter == enabled' # enabled => worker.pc \in {"idle", "load"}
===============================================================================
