----------------------------- MODULE MCBankSync -----------------------------
(* Small instances of BankSync for TLC. *)
EXTENDS BankSync

\* Bound: nothing follows a sync without an account once an account is linked.
Bounded == linked = {} \/ state[None] = NoState
=============================================================================
