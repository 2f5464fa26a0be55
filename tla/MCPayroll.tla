------------------------------ MODULE MCPayroll ------------------------------
(* Small instances of Payroll for TLC. *)
EXTENDS Payroll, TLC

Symmetry == Permutations(Run) \cup Permutations(Payment)
=============================================================================
