------------------------- MODULE MCApprovalLifecycle -------------------------
EXTENDS ApprovalLifecycle, TLC

\* Handlers and request ids are interchangeable.
HandlerSymmetry == Permutations(Call) \cup Permutations(Request)
===============================================================================
