-------------------------- MODULE MCPayrollRequests --------------------------
(* Small instances of PayrollRequests for TLC. *)
EXTENDS PayrollRequests, TLC

Symmetry == Permutations(Run) \cup Permutations(Payment) \cup Permutations(Request)
=============================================================================
