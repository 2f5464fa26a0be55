------------------------------ MODULE Requests ------------------------------
(***************************************************************************)
(* What the modules of the handlers without a lock share.  A request loads  *)
(* rows, decides, and writes; READ COMMITTED shows each of its statements   *)
(* the rows committed by then, and nothing of it is seen by others before   *)
(* its commit.  A module keeps what a request in progress has read; the     *)
(* rows it writes change in the step that commits them.                     *)
(***************************************************************************)
EXTENDS Naturals, FiniteSets

CONSTANTS
  Request,     \* requests in progress at one time
  Invoice,
  Payment,
  Amount,      \* amounts, of one currency
  None         \* SQL NULL

ASSUME InvoiceAssumption == IsFiniteSet(Invoice) /\ None \notin Invoice

Idle == [op |-> "idle"]

\* What a flush leaves of a row: SQLAlchemy writes the columns that differ from the row it
\* loaded, and the others stay as they are by now.
Flushed(loaded, new, now) ==
  [c \in DOMAIN now |-> IF new[c] # loaded[c] THEN new[c] ELSE now[c]]

\* n / d, rounded as Decimal.quantize does with ROUND_HALF_UP; amounts are in cents.
HalfUp(n, d) == (2 * n + d) \div (2 * d)
=============================================================================
