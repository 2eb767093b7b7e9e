--------------------------- MODULE MCApprovalStore ---------------------------
(* Model-checking instance of ApprovalStore.                               *)
EXTENDS ApprovalStore, TLC

Ids == Permutations(Runs) \cup Permutations(Approvals) \cup Permutations(Devices)
=============================================================================
