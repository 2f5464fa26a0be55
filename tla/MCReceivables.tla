---------------------------- MODULE MCReceivables ----------------------------
(* Small instances of Receivables for TLC. *)
EXTENDS Receivables, TLC

Symmetry == Permutations(Invoice) \cup Permutations(Payment)
              \cup Permutations(Deposit) \cup Permutations(Entry)
=============================================================================
