----------------------------- MODULE LedgerLines -----------------------------
(***************************************************************************)
(* The lines of the ledger's entries and their value in SGD: issue, receipt *)
(* and reversal of invoices in three currencies, and FX conversions, which  *)
(* sell at the average rate a wallet carries.  Which entry may be posted    *)
(* when requests overlap is in Receivables and ReceivableRequests; here a   *)
(* request runs alone, and its entry counts for what it holds.              *)
(*                                                                         *)
(* Amounts are cents.  A rate is the number of its quanta, RateScale to 1;  *)
(* so amount times rate counts quanta of a cent.  A line's amount is debit  *)
(* minus credit.  Left out: dates (the books are read as of the last one),  *)
(* entries typed in by hand, and the entries without rates of one currency, *)
(* which count at rate 1 and cancel out.                                    *)
(***************************************************************************)
EXTENDS Requests, Integers, FiniteSetsExt, Bags

CONSTANTS
  Sum,           \* amounts of invoices and conversions
  Rate,          \* rates other than that of the SGD
  RateScale,     \* quanta of a rate to 1; 10^6 in journal_lines
  MaxEntries     \* bound on the entries of the journal

ASSUME SumAssumption == RateScale \in Nat \ {0} /\ Sum \subseteq Nat \ {0}
ASSUME RateAssumption == Rate \subseteq Nat \ {0} /\ MaxEntries \in Nat

VARIABLES
  journal,     \* journal_entries with their lines, a bag
  mapped       \* the receivable account mapped at present

bookVars == <<journal, mapped>>

-----------------------------------------------------------------------------
(* Rows *)

Currency == {"SGD", "USD", "USDC"}

\* A stablecoin is valued, and settles an invoice, as the currency it is pegged to.
RateCurrency(c) == IF c = "USDC" THEN "USD" ELSE c

Receivable == {"receivable", "new receivable"}
LedgerAccount == Receivable \cup {"wallet", "revenue", "gst", "fx"}

LineRow == [account : LedgerAccount, currency : Currency, amount : Int \ {0}, rate : Int]

BookEntry ==
  [kind : {"issue", "receipt", "reversal", "conversion"}, invoice : Invoice \cup {None},
   confirmed : BOOLEAN, lines : SUBSET LineRow]

Entries == BagToSet(journal)

LedgerLinesTypeOK ==
  /\ IsABag(journal) /\ Entries \subseteq BookEntry
  /\ mapped \in Receivable

LedgerLinesInit ==
  /\ journal = EmptyBag
  /\ mapped = "receivable"

-----------------------------------------------------------------------------
(* Values *)

\* Decimal.quantize with ROUND_HALF_UP rounds halves away from zero.
Quantized(n, d) == IF n < 0 THEN -HalfUp(-n, d) ELSE HalfUp(n, d)

\* q_sgd: a value in SGD, to cents.
ToCents(value) == Quantized(value, RateScale)

\* The sum of what f maps its arguments to.
SumOf(f) == MapThenSumSet(LAMBDA x : f[x], DOMAIN f)

Native(lines) == SumOf([l \in lines |-> l.amount])
Value(lines) == SumOf([l \in lines |-> l.amount * l.rate])
CurrenciesOf(lines) == {l.currency : l \in lines}

Row(account, c, amount, rate) ==
  [account |-> account, currency |-> c, amount |-> amount, rate |-> rate]
SgdRow(account, amount) == Row(account, "SGD", amount, RateScale)

\* resolve_fx_rate_to_sgd: the rate given, or today's.
RatesOf(c) == IF c = "SGD" THEN {RateScale} ELSE Rate

\* check_balanced: in one currency exactly, in several within a cent of SGD.
Balanced(lines) ==
  /\ Cardinality(lines) >= 2
  /\ IF Cardinality(CurrenciesOf(lines)) = 1
     THEN Native(lines) = 0
     ELSE Value(lines) \in -RateScale .. RateScale

\* Revenue takes what rounding the total and the tax leaves.
IssueLines(total, tax, c, rate) ==
  LET gst == ToCents(tax * rate)
      revenue == ToCents(total * rate) - gst
  IN {Row(mapped, c, total, rate)}
       \cup {l \in {SgdRow("revenue", -revenue), SgdRow("gst", -gst)} : l.amount # 0}

\* Mutant: a difference of one cent is not worth a line.
DifferenceAboveCent(value) ==
  IF ToCents(value) \in {-1, 0, 1} THEN {} ELSE {SgdRow("fx", -ToCents(value))}

\* fx_difference_line: a gain is credited, a loss debited.
Difference(value) == IF ToCents(value) = 0 THEN {} ELSE {SgdRow("fx", -ToCents(value))}

\* Mutant: the receivable account is looked up anew.
ReceiptAsMapped(due, c, rate) ==
  {Row("wallet", c, due.amount, rate), Row(mapped, due.currency, -due.amount, due.rate)}
    \cup Difference(due.amount * (rate - due.rate))

\* build_receipt_lines: the receivable is credited as it was debited at issue.
ReceiptLines(due, c, rate) ==
  {Row("wallet", c, due.amount, rate), Row(due.account, due.currency, -due.amount, due.rate)}
    \cup Difference(due.amount * (rate - due.rate))

Reversed(lines) == {[l EXCEPT !.amount = -@] : l \in lines}

WalletLines(e, c) == {l \in e.lines : l.account = "wallet" /\ l.currency = c}

\* carrying_rate_to_sgd of the wallet in currency c, over its confirmed entries.
CarryingRate(c) ==
  LET carried == {e \in Entries : e.confirmed /\ WalletLines(e, c) # {}}
      native == SumOf([e \in carried |-> journal[e] * Native(WalletLines(e, c))])
      sgd == SumOf([e \in carried |-> journal[e] * Value(WalletLines(e, c))])
  IN IF native <= 0 THEN None ELSE Quantized(sgd, native)

-----------------------------------------------------------------------------
(* Entries *)

EntriesOf(kind, i) == {e \in Entries : e.kind = kind /\ e.invoice = i}

\* See OpenItem: raised, and neither settled nor reversed.
OpenInvoice(i) ==
  EntriesOf("issue", i) # {} /\ EntriesOf("receipt", i) = {} /\ EntriesOf("reversal", i) = {}

\* receivable_line: the debit of the issue entry.
ReceivableLine(i) ==
  CHOOSE l \in (CHOOSE e \in EntriesOf("issue", i) : TRUE).lines : l.amount > 0

\* create_journal_entry.
Book(kind, i, confirmed, lines) ==
  /\ BagCardinality(journal) < MaxEntries
  /\ journal' = journal (+) SetToBag({[kind |-> kind, invoice |-> i,
                                       confirmed |-> confirmed, lines |-> lines]})
  /\ UNCHANGED mapped

BookIssue(i) ==
  /\ EntriesOf("issue", i) = {}
  /\ \E c \in Currency, total \in Sum, tax \in {0} \cup Sum, rate \in Rate \cup {RateScale} :
       LET lines == IssueLines(total, tax, c, rate) IN
       /\ tax <= total /\ rate \in RatesOf(c)
       /\ Balanced(lines)
       /\ Book("issue", i, TRUE, lines)

\* A crypto receipt, confirmed, or the settlement by a bank deposit: of the amount due.
BookReceipt(i) ==
  /\ OpenInvoice(i)
  /\ \E c \in Currency, rate \in Rate \cup {RateScale}, confirmed \in BOOLEAN :
       LET lines == ReceiptLines(ReceivableLine(i), c, rate) IN
       /\ RateCurrency(c) = RateCurrency(ReceivableLine(i).currency) /\ rate \in RatesOf(c)
       /\ Balanced(lines)
       /\ Book("receipt", i, confirmed, lines)

BookReversal(i) ==
  /\ OpenInvoice(i)
  /\ \E e \in EntriesOf("issue", i) : Book("reversal", i, TRUE, Reversed(e.lines))

\* What the currency bought cost is its rate; the stored one is rounded.
BookPurchase ==
  \E c \in Currency \ {"SGD"}, sold, bought \in Sum :
    Book("conversion", None, TRUE,
         {Row("wallet", c, bought, Quantized(sold * RateScale, bought)),
          SgdRow("wallet", -sold)})

\* Sold at the rate carried, with the difference to what was received as gain or loss; a
\* wallet that carries none sells at the rate of the conversion.
BookSale ==
  \E c \in Currency \ {"SGD"}, sold, bought \in Sum :
    LET rate == CarryingRate(c) IN
    Book("conversion", None, TRUE,
         {SgdRow("wallet", bought)} \cup
           IF rate = None THEN {Row("wallet", c, -sold, Quantized(bought * RateScale, sold))}
           ELSE {Row("wallet", c, -sold, rate)}
                  \cup Difference(bought * RateScale - sold * rate))

ConfirmBook(e) ==
  /\ ~e.confirmed
  /\ journal' = (journal (-) SetToBag({e})) (+) SetToBag({[e EXCEPT !.confirmed = TRUE]})
  /\ UNCHANGED mapped

DeleteBook(e) ==
  /\ ~e.confirmed
  /\ journal' = journal (-) SetToBag({e})
  /\ UNCHANGED mapped

MapReceivable ==
  /\ mapped' \in Receivable \ {mapped}
  /\ UNCHANGED journal

LedgerLinesNext ==
  \/ \E i \in Invoice : BookIssue(i) \/ BookReceipt(i) \/ BookReversal(i)
  \/ BookPurchase \/ BookSale
  \/ \E e \in Entries : ConfirmBook(e) \/ DeleteBook(e)
  \/ MapReceivable

LedgerLinesSpec == LedgerLinesInit /\ [][LedgerLinesNext]_bookVars

-----------------------------------------------------------------------------
(* Properties *)

SumOver(entries, F(_)) == SumOf([e \in entries |-> journal[e] * F(e.lines)])

InSeveralCurrencies(lines) == IF Cardinality(CurrenciesOf(lines)) > 1 THEN 1 ELSE 0

\* What the rounding of its rate may leave of a conversion's balance, beyond that cent: half a
\* quantum for each cent of foreign currency, and so nothing up to 20,000 units of it.
BeyondCent(lines) ==
  LET foreign == (CHOOSE l \in lines : l.currency # "SGD").amount
      half == (IF foreign < 0 THEN -foreign ELSE foreign) \div 2
  IN IF (\A l \in lines : l.account \notin Receivable) /\ half > RateScale
     THEN half - RateScale ELSE 0

\* The trial balance, with and without the unconfirmed entries, is off by no more than
\* get_trial_balance allows for is_balanced, a cent for each entry of several currencies
\* (although a receipt in the invoice's own foreign currency is off by a fraction of a cent,
\* too, and not counted), and by what large conversions leave: without one beyond 20,000
\* units, is_balanced is true.
TrialBalances ==
  \A entries \in {Entries, {e \in Entries : e.confirmed}} :
    LET tolerance == RateScale * SumOver(entries, InSeveralCurrencies)
                       + SumOver(entries, BeyondCent)
    IN SumOver(entries, Value) \in -tolerance .. tolerance

\* Every receivable account holds the open invoices raised on it, in their currency and at
\* the rate they were issued at, and nothing else: whatever a receipt's currency and rate are,
\* and though another account is mapped meanwhile.
ReceivablesAreOpenItems ==
  \A account \in Receivable, c \in Currency :
    LET booked(lines) == {l \in lines : l.account = account /\ l.currency = c}
        native(lines) == Native(booked(lines))
        sgd(lines) == Value(booked(lines))
        open == {i \in Invoice : OpenInvoice(i)}
        due(F(_)) == SumOf([i \in open |-> F({ReceivableLine(i)})])
    IN /\ SumOver(Entries, native) = due(native)
       /\ SumOver(Entries, sgd) = due(sgd)
=============================================================================
