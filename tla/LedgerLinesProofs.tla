-------------------------- MODULE LedgerLinesProofs --------------------------
(***************************************************************************)
(* Proofs about the ledger, for any invoices, amounts, rates and number of  *)
(* entries: the trial balance is off by no more than is allowed and large   *)
(* conversions lose, and the receivable accounts hold the open invoices.    *)
(* Both are sums over the whole journal; they are those of its groups, one  *)
(* per invoice, and the invariant says what a group is: nothing, an issue   *)
(* entry, or an issue entry and the one that clears it, each within half a  *)
(* cent of balance.                                                         *)
(***************************************************************************)
EXTENDS LedgerLines, Sums

-----------------------------------------------------------------------------
(* Sums *)

\* The model's sum is one of those in Sums.
LEMMA SumIsTotal ==
  ASSUME NEW f, IsFiniteSet(DOMAIN f)
  PROVE  SumOf(f) = Total(f, DOMAIN f)
<1> DEFINE S == DOMAIN f
           F(iter) == iter = [s \in SUBSET S |->
                         IF s = {} THEN 0
                         ELSE f[CHOOSE x \in s : TRUE] + iter[s \ {CHOOSE x \in s : TRUE}]]
           fold == CHOOSE iter : F(iter)
<1>1. SumOf(f) = fold[S]
  BY DEF SumOf, MapThenSumSet, MapThenFoldSet
<1>2. ASSUME NEW iter PROVE F(iter) <=> IsFold(iter, f, S)
  BY DEF IsFold, First
<1>3. IsFold(fold, f, S)
  <2> HIDE DEF F
  <2>1. \E iter : F(iter)
    BY <1>2, FoldExists
  <2>2. F(fold)
    BY <2>1
  <2> QED
    BY <1>2, <2>2
<1> HIDE DEF fold
<1> QED
  BY <1>1, <1>3, FoldValue

-----------------------------------------------------------------------------
(* Rounding *)

\* What is rounded half up is the nearest whole number.
LEMMA HalfUpBracket ==
  ASSUME NEW n \in Nat, NEW d \in Nat \ {0}
  PROVE  /\ HalfUp(n, d) \in Nat
         /\ 2 * (d * HalfUp(n, d)) <= 2 * n + d
         /\ 2 * n < 2 * (d * HalfUp(n, d)) + d
<1> DEFINE q == HalfUp(n, d)
<1>1. q = (2 * n + d) \div (2 * d) /\ 2 * n + d \in Nat /\ 2 * d \in Nat \ {0}
  BY DEF HalfUp
<1>2. ASSUME NEW a \in Nat, NEW b \in Nat \ {0}
      PROVE  a \div b \in Nat /\ b * (a \div b) <= a /\ a < b * (a \div b) + b
  OBVIOUS
<1> HIDE DEF q
<1>3. q \in Nat /\ (2 * d) * q <= 2 * n + d /\ 2 * n + d < (2 * d) * q + 2 * d
  BY <1>1, <1>2
<1>4. (2 * d) * q = 2 * (d * q) /\ d * q \in Nat
  BY <1>3
<1>5. q \in Nat /\ 2 * (d * q) <= 2 * n + d /\ 2 * n < 2 * (d * q) + d
  BY <1>3, <1>4
<1> QED
  BY <1>5 DEF q

\* Rounding moves a value by half a unit at most.
LEMMA QuantizedNear ==
  ASSUME NEW n \in Int, NEW d \in Nat \ {0}
  PROVE  /\ Quantized(n, d) \in Int
         /\ 2 * (n - d * Quantized(n, d)) \in -d .. d
<1>1. CASE n < 0
  <2> DEFINE q == HalfUp(-n, d)
  <2>1. -n \in Nat /\ Quantized(n, d) = -q
    BY <1>1 DEF Quantized
  <2>2. q \in Nat /\ 2 * (d * q) <= 2 * (-n) + d /\ 2 * (-n) < 2 * (d * q) + d
    BY <2>1, HalfUpBracket
  <2> HIDE DEF q
  <2>3. d * (-q) = -(d * q) /\ d * q \in Int
    BY <2>2
  <2>4. 2 * (n - d * (-q)) \in -d .. d /\ -q \in Int
    BY <2>2, <2>3
  <2> QED
    BY <2>1, <2>4
<1>2. CASE n >= 0
  <2> DEFINE q == HalfUp(n, d)
  <2>1. n \in Nat /\ Quantized(n, d) = q
    BY <1>2 DEF Quantized
  <2>2. q \in Nat /\ 2 * (d * q) <= 2 * n + d /\ 2 * n < 2 * (d * q) + d
    BY <2>1, HalfUpBracket
  <2> HIDE DEF q
  <2>3. d * q \in Int
    BY <2>2
  <2>4. 2 * (n - d * q) \in -d .. d /\ q \in Int
    BY <2>2, <2>3
  <2> QED
    BY <2>1, <2>4
<1> QED
  BY <1>1, <1>2

\* A value without fractions of a cent is kept.
LEMMA QuantizedExact ==
  ASSUME NEW n \in Int, NEW d \in Nat \ {0}
  PROVE  Quantized(n * d, d) = n
<1> DEFINE q == Quantized(n * d, d)
<1>1. n * d \in Int
  OBVIOUS
<1>2. q \in Int /\ 2 * (n * d - d * q) \in -d .. d
  BY <1>1, QuantizedNear
<1> HIDE DEF q
<1>3. n * d - d * q = d * (n - q) /\ d * (n - q) \in Int
  BY <1>2
<1>4. ASSUME NEW m \in Int, 2 * (d * m) \in -d .. d PROVE m = 0
  <2>1. CASE m >= 1
    <3>1. d * m \in Int /\ d * m >= d
      BY <2>1
    <3> QED
      BY <1>4, <3>1
  <2>2. CASE m <= -1
    <3>1. d * m \in Int /\ d * m <= -d
      BY <2>2
    <3> QED
      BY <1>4, <3>1
  <2> QED
    BY <2>1, <2>2
<1>5. n - q = 0
  BY <1>2, <1>3, <1>4
<1>6. q = n
  BY <1>2, <1>5
<1> QED
  BY <1>6 DEF q

\* Rounding keeps the order, so a tax rounds to no more than its total.
LEMMA QuantizedMonotone ==
  ASSUME NEW m \in Nat, NEW n \in Nat, m <= n, NEW d \in Nat \ {0}
  PROVE  Quantized(m, d) \in Nat /\ Quantized(n, d) \in Nat
           /\ Quantized(m, d) <= Quantized(n, d)
<1> DEFINE p == HalfUp(m, d)
           q == HalfUp(n, d)
<1>1. Quantized(m, d) = p /\ Quantized(n, d) = q
  BY DEF Quantized
<1>2. /\ p \in Nat /\ 2 * (d * p) <= 2 * m + d
      /\ q \in Nat /\ 2 * n < 2 * (d * q) + d
  BY HalfUpBracket
<1> HIDE DEF p, q
<1>3. ASSUME p > q PROVE FALSE
  <2>1. d * p >= d * (q + 1)
    BY <1>2, <1>3
  <2>2. d * (q + 1) = d * q + d /\ d * q \in Nat /\ d * p \in Nat
    BY <1>2
  <2> QED
    BY <1>2, <2>1, <2>2
<1> QED
  BY <1>1, <1>2, <1>3

-----------------------------------------------------------------------------
(* Lines and their value *)

\* The value of lines and their sum are totals over them.
LEMMA ValueIsTotal ==
  ASSUME NEW lines, IsFiniteSet(lines)
  PROVE  /\ Value(lines) = Total([l \in lines |-> l.amount * l.rate], lines)
         /\ Native(lines) = Total([l \in lines |-> l.amount], lines)
<1>1. /\ DOMAIN [l \in lines |-> l.amount * l.rate] = lines
      /\ DOMAIN [l \in lines |-> l.amount] = lines
  OBVIOUS
<1> QED
  BY <1>1, SumIsTotal DEF Value, Native

\* Of one line.
LEMMA LineSingle ==
  ASSUME NEW l, l.amount \in Int, l.rate \in Int
  PROVE  Value({l}) = l.amount * l.rate /\ Native({l}) = l.amount
<1> DEFINE f == [k \in {l} |-> k.amount * k.rate]
           g == [k \in {l} |-> k.amount]
<1>1. f[l] = l.amount * l.rate /\ f[l] \in Int /\ g[l] = l.amount /\ g[l] \in Int
  OBVIOUS
<1>2. Value({l}) = Total(f, {l}) /\ Native({l}) = Total(g, {l})
  BY FS_Singleton, ValueIsTotal
<1> HIDE DEF f, g
<1> QED
  BY <1>1, <1>2, TotalSingle

\* Of none.
LEMMA LineNone == Value({}) = 0 /\ Native({}) = 0
BY FS_EmptySet, ValueIsTotal, TotalEmpty

\* Three lines, of which the last two are left out when they are for nothing.
LEMMA ValueTriple ==
  ASSUME NEW k, NEW l, NEW m, k # l, k # m, l # m,
         k.amount \in Int, k.rate \in Int, l.amount \in Int, l.rate \in Int,
         m.amount \in Int, m.rate \in Int,
         NEW lines, lines = {k} \cup {x \in {l, m} : x.amount # 0}
  PROVE  /\ IsFiniteSet(lines)
         /\ Value(lines) = k.amount * k.rate + l.amount * l.rate + m.amount * m.rate
<1> DEFINE T == {l, m} \cup {k}
           f == [x \in T |-> x.amount * x.rate]
           g == [x \in lines |-> x.amount * x.rate]
<1>1. /\ f[k] = k.amount * k.rate /\ f[k] \in Int
      /\ f[l] = l.amount * l.rate /\ f[l] \in Int
      /\ f[m] = m.amount * m.rate /\ f[m] \in Int
  OBVIOUS
<1>2. IsFiniteSet({m}) /\ IsFiniteSet({l, m}) /\ {l, m} = {m} \cup {l}
  <2>1. IsFiniteSet({m}) /\ {l, m} = {m} \cup {l}
    BY FS_Singleton
  <2> QED
    BY <2>1, FS_AddElement
<1>3. IsFiniteSet(T) /\ lines \in SUBSET T
  BY <1>2, FS_AddElement
<1>4. \A x \in lines : f[x] \in Int /\ f[x] = g[x]
  OBVIOUS
<1>5. \A x \in T \ lines : f[x] = 0
  OBVIOUS
<1>6. IsFiniteSet(lines)
  <2> HIDE DEF T
  <2> QED
    BY <1>3, FS_Subset
<1>7. Value(lines) = Total(g, lines)
  BY <1>6, ValueIsTotal
<1> HIDE DEF f, g
<1>8. Total(f, T) = f[k] + Total(f, {l, m}) /\ Total(f, {l, m}) = f[l] + f[m]
  BY <1>1, <1>2, TotalAdd, TotalPair
<1> HIDE DEF T
<1>9. Total(f, T) = Total(f, lines)
  BY <1>3, <1>4, <1>5, TotalPart
<1>10. Total(f, lines) = Total(g, lines)
  BY <1>4, <1>6, TotalEqual
<1>11. Value(lines) = k.amount * k.rate + l.amount * l.rate + m.amount * m.rate
  BY <1>1, <1>7, <1>8, <1>9, <1>10
<1> QED
  BY <1>6, <1>11

\* Two lines of different currencies make an entry of several.
LEMMA SeveralCurrencies ==
  ASSUME NEW lines, IsFiniteSet(lines), NEW k \in lines, NEW l \in lines, k.currency # l.currency
  PROVE  InSeveralCurrencies(lines) = 1
<1> DEFINE two == {k.currency, l.currency}
           all == CurrenciesOf(lines)
<1>1. all = {x.currency : x \in lines} /\ IsFiniteSet(all)
  <2> DEFINE f == [x \in lines |-> x.currency]
  <2>1. f \in Surjection(lines, all)
    BY DEF CurrenciesOf, Surjection
  <2> HIDE DEF f
  <2>2. IsFiniteSet(all)
    BY <2>1, FS_Surjection
  <2> QED
    BY <2>2 DEF CurrenciesOf
<1>2. two \subseteq all
  BY <1>1
<1>3. Cardinality({l.currency}) = 1 /\ IsFiniteSet({l.currency})
  BY FS_Singleton
<1>4. two = {l.currency} \cup {k.currency} /\ k.currency \notin {l.currency}
  OBVIOUS
<1>5. Cardinality(two) = 2
  <2>1. Cardinality({l.currency} \cup {k.currency}) = Cardinality({l.currency}) + 1
    BY <1>3, <1>4, FS_AddElement
  <2> QED
    BY <1>3, <1>4, <2>1
<1> HIDE DEF two, all
<1>6. Cardinality(two) <= Cardinality(all) /\ Cardinality(all) \in Nat
  BY <1>1, <1>2, FS_Subset, FS_CardinalityType
<1>7. Cardinality(all) > 1
  BY <1>5, <1>6
<1> QED
  BY <1>7 DEF InSeveralCurrencies, all

-----------------------------------------------------------------------------
(* What an entry does to the receivables and to the balance *)

\* A receivable: the rate of the SGD is 1.
DueRow ==
  {l \in LineRow : l.account \in Receivable /\ l.amount > 0
                     /\ (l.currency = "SGD" => l.rate = RateScale)}

Negated(l) == Row(l.account, l.currency, -l.amount, l.rate)

\* A receivable with its revenue and GST, as IssueLines has them.
Posted(l, revenue, gst) ==
  {l} \cup {k \in {SgdRow("revenue", revenue), SgdRow("gst", gst)} : k.amount # 0}

\* An issue entry is out of balance by half a cent at most, and not at all in SGD.
WithinHalf(lines, c) ==
  /\ Value(lines) \in Int
  /\ 2 * Value(lines) \in -RateScale .. RateScale
  /\ c = "SGD" => Value(lines) = 0

OnReceivable(lines) == {l \in lines : l.account \in Receivable}

\* A conversion is out of balance by a cent at most, and by what is beyond it.
WithinLarge(lines) ==
  /\ Value(lines) \in Int /\ BeyondCent(lines) \in Nat
  /\ Value(lines) \in -(RateScale + BeyondCent(lines)) .. RateScale + BeyondCent(lines)

\* The lines that raise the receivable due, that clear it, and those of a conversion.
Raises(lines, due) ==
  /\ due \in DueRow
  /\ \E revenue, gst \in Nat :
       /\ revenue + gst = ToCents(due.amount * due.rate)
       /\ revenue # 0 \/ gst # 0
       /\ lines = Posted(due, -revenue, -gst)

Clears(lines, due) ==
  /\ lines \subseteq LineRow /\ IsFiniteSet(lines)
  /\ OnReceivable(lines) = {Negated(due)}
  /\ WithinHalf(lines, due.currency)

Moves(lines) ==
  /\ lines \subseteq LineRow /\ IsFiniteSet(lines)
  /\ OnReceivable(lines) = {}
  /\ InSeveralCurrencies(lines) = 1
  /\ WithinLarge(lines)

\* The columns of a row.
LEMMA RowIs ==
  ASSUME NEW account, NEW c, NEW amount, NEW rate
  PROVE  /\ Row(account, c, amount, rate).account = account
         /\ Row(account, c, amount, rate).currency = c
         /\ Row(account, c, amount, rate).amount = amount
         /\ Row(account, c, amount, rate).rate = rate
         /\ account \in LedgerAccount /\ c \in Currency /\ amount \in Int \ {0} /\ rate \in Int
              => Row(account, c, amount, rate) \in LineRow
BY DEF Row, LineRow

\* The columns of a receivable line.
LEMMA DueRowIs ==
  ASSUME NEW due \in DueRow
  PROVE  /\ due \in LineRow /\ due.account \in Receivable /\ due.currency \in Currency
         /\ due.amount \in Nat \ {0} /\ due.rate \in Int
         /\ due.currency = "SGD" => due.rate = RateScale
         /\ due = Row(due.account, due.currency, due.amount, due.rate)
<1>1. due \in LineRow
  BY DEF DueRow
<1>2. due = Row(due.account, due.currency, due.amount, due.rate)
  BY <1>1 DEF LineRow, Row
<1>3. due.currency \in Currency /\ due.amount \in Int /\ due.rate \in Int
  BY <1>1 DEF LineRow
<1> QED
  BY <1>1, <1>2, <1>3 DEF DueRow

\* The value of a receivable's lines, and the currencies.
LEMMA PostedValue ==
  ASSUME NEW due \in LineRow, due.account \in Receivable, NEW x \in Int, NEW y \in Int
  PROVE  /\ Posted(due, x, y) \subseteq LineRow /\ IsFiniteSet(Posted(due, x, y))
         /\ OnReceivable(Posted(due, x, y)) = {due}
         /\ Value(Posted(due, x, y)) = due.amount * due.rate + (x + y) * RateScale
         /\ (x # 0 \/ y # 0) /\ due.currency # "SGD" => InSeveralCurrencies(Posted(due, x, y)) = 1
<1> DEFINE k == SgdRow("revenue", x)
           l == SgdRow("gst", y)
           lines == Posted(due, x, y)
<1>1. /\ k.amount = x /\ k.rate = RateScale /\ k.account = "revenue" /\ k.currency = "SGD"
      /\ l.amount = y /\ l.rate = RateScale /\ l.account = "gst" /\ l.currency = "SGD"
      /\ x # 0 => k \in LineRow
      /\ y # 0 => l \in LineRow
  BY RowIs, SumAssumption DEF SgdRow, LedgerAccount, Currency
<1>2. lines = {due} \cup {m \in {k, l} : m.amount # 0}
  BY DEF Posted
<1> HIDE DEF k, l, lines
<1>3. due # k /\ due # l /\ k # l
  BY <1>1 DEF Receivable
<1>4. lines \subseteq LineRow
  BY <1>1, <1>2
<1>5. OnReceivable(lines) = {due}
  BY <1>1, <1>2 DEF OnReceivable, Receivable
<1>6. due.amount \in Int /\ due.rate \in Int
  BY DEF LineRow
<1>7. IsFiniteSet(lines)
        /\ Value(lines) = due.amount * due.rate + x * RateScale + y * RateScale
  <2>1. RateScale \in Int
    BY SumAssumption
  <2>2. IsFiniteSet(lines) /\ Value(lines) = due.amount * due.rate + k.amount * k.rate
                                               + l.amount * l.rate
    <3>1. k.amount \in Int /\ k.rate \in Int /\ l.amount \in Int /\ l.rate \in Int
      BY <1>1, <2>1
    <3> QED
      BY <1>2, <1>3, <1>6, <3>1, ValueTriple
  <2> QED
    BY <1>1, <2>2
<1>8. Value(lines) = due.amount * due.rate + (x + y) * RateScale
  <2>1. due.amount * due.rate \in Int /\ RateScale \in Int
    BY <1>6, SumAssumption
  <2> QED
    BY <1>7, <2>1
<1>9. ASSUME x # 0 \/ y # 0, due.currency # "SGD" PROVE InSeveralCurrencies(lines) = 1
  <2>1. due \in lines /\ \E m \in lines : m.currency # due.currency
    BY <1>1, <1>2, <1>9
  <2> QED
    BY <1>7, <2>1, SeveralCurrencies
<1> QED
  BY <1>4, <1>5, <1>7, <1>8, <1>9 DEF lines

\* What raises a receivable holds no other, and is out of balance by half a cent at most.
LEMMA RaisesFacts ==
  ASSUME NEW lines, NEW due, Raises(lines, due)
  PROVE  /\ due \in DueRow /\ due \in lines
         /\ lines \subseteq LineRow /\ IsFiniteSet(lines)
         /\ OnReceivable(lines) = {due}
         /\ WithinHalf(lines, due.currency)
         /\ due.currency # "SGD" => InSeveralCurrencies(lines) = 1
         /\ (CHOOSE l \in lines : l.amount > 0) = due
<1> DEFINE v == due.amount * due.rate
           q == ToCents(v)
<1>1. PICK revenue \in Nat, gst \in Nat :
        /\ revenue + gst = q /\ (revenue # 0 \/ gst # 0)
        /\ lines = Posted(due, -revenue, -gst)
  BY DEF Raises
<1>2. /\ due \in DueRow /\ due \in LineRow /\ due.account \in Receivable
      /\ due.amount \in Nat \ {0} /\ due.rate \in Int
      /\ due.currency = "SGD" => due.rate = RateScale
  BY DueRowIs DEF Raises
<1>3. v \in Int /\ RateScale \in Nat \ {0}
  BY <1>2, SumAssumption
<1>4. /\ lines \subseteq LineRow /\ IsFiniteSet(lines)
      /\ OnReceivable(lines) = {due}
      /\ Value(lines) = v + (-revenue + -gst) * RateScale
      /\ due.currency # "SGD" => InSeveralCurrencies(lines) = 1
  <2>1. -revenue \in Int /\ -gst \in Int /\ (-revenue # 0 \/ -gst # 0)
    BY <1>1
  <2> QED
    BY <1>1, <1>2, <2>1, PostedValue
<1>5. due.currency = "SGD" => v = due.amount * RateScale
  BY <1>2
<1> HIDE DEF v
<1>6. q \in Int /\ 2 * (v - RateScale * q) \in -RateScale .. RateScale
  BY <1>3, QuantizedNear DEF ToCents
<1>7. ASSUME due.currency = "SGD" PROVE q = due.amount
  BY <1>2, <1>3, <1>5, <1>7, QuantizedExact DEF ToCents
<1> HIDE DEF q
<1>8. Value(lines) = v - RateScale * q
  <2>1. -revenue + -gst = -q
    BY <1>1
  <2>2. (-q) * RateScale = -(RateScale * q) /\ RateScale * q \in Int
    BY <1>3, <1>6
  <2> QED
    BY <1>3, <1>4, <2>1, <2>2
<1>9. RateScale * q \in Int
  BY <1>3, <1>6
<1>10. due.currency = "SGD" => v - RateScale * q = 0
  BY <1>2, <1>3, <1>5, <1>7
<1>11. WithinHalf(lines, due.currency)
  BY <1>3, <1>6, <1>8, <1>9, <1>10 DEF WithinHalf
<1>12. due \in lines /\ \A l \in lines : l.amount > 0 => l = due
  <2>1. SgdRow("revenue", -revenue).amount = -revenue /\ SgdRow("gst", -gst).amount = -gst
    BY RowIs DEF SgdRow
  <2> QED
    BY <1>1, <2>1 DEF Posted
<1>13. (CHOOSE l \in lines : l.amount > 0) = due
  BY <1>2, <1>12
<1> QED
  BY <1>2, <1>4, <1>11, <1>12, <1>13

\* build_invoice_issue_lines raises the total on the account mapped.
LEMMA IssueRaises ==
  ASSUME mapped \in Receivable, NEW c \in Currency, NEW total \in Sum, NEW tax \in {0} \cup Sum,
         NEW rate \in RatesOf(c), tax <= total, Balanced(IssueLines(total, tax, c, rate))
  PROVE  Raises(IssueLines(total, tax, c, rate), Row(mapped, c, total, rate))
<1> DEFINE due == Row(mapped, c, total, rate)
           gst == ToCents(tax * rate)
           revenue == ToCents(total * rate) - gst
           lines == IssueLines(total, tax, c, rate)
<1>1. /\ total \in Nat \ {0} /\ tax \in Nat /\ rate \in Nat /\ RateScale \in Nat \ {0}
      /\ c = "SGD" => rate = RateScale
  <2>1. Sum \subseteq Nat \ {0} /\ {0} \cup Sum \subseteq Nat /\ Rate \subseteq Nat
          /\ RateScale \in Nat \ {0}
    BY SumAssumption, RateAssumption
  <2> QED
    BY <2>1 DEF RatesOf
<1>2. tax * rate \in Nat /\ total * rate \in Nat /\ tax * rate <= total * rate
  BY <1>1
<1>3. gst \in Nat /\ revenue \in Nat
  <2>1. gst \in Nat /\ ToCents(total * rate) \in Nat /\ gst <= ToCents(total * rate)
    BY <1>1, <1>2, QuantizedMonotone DEF ToCents
  <2> QED
    BY <2>1
<1>4. lines = Posted(due, -revenue, -gst)
  BY DEF IssueLines, Posted
<1>5. /\ due.amount = total /\ due.rate = rate /\ due.account = mapped /\ due.currency = c
      /\ due \in LineRow
  BY <1>1, RowIs DEF LedgerAccount
<1>6. due \in DueRow
  BY <1>1, <1>5 DEF DueRow
<1>7. revenue + gst = ToCents(due.amount * due.rate)
  <2>1. ToCents(total * rate) \in Int /\ gst \in Int
    BY <1>1, <1>2, <1>3, QuantizedNear DEF ToCents
  <2> HIDE DEF gst
  <2> QED
    BY <1>5, <2>1
<1>8. ASSUME revenue = 0, gst = 0 PROVE FALSE
  <2>1. SgdRow("revenue", -revenue).amount = 0 /\ SgdRow("gst", -gst).amount = 0
    BY <1>8, RowIs DEF SgdRow
  <2>2. lines = {due}
    BY <1>4, <2>1 DEF Posted
  <2>3. Cardinality({due}) = 1
    BY FS_Singleton
  <2> HIDE DEF lines, due
  <2> QED
    BY <2>2, <2>3 DEF Balanced, lines
<1> HIDE DEF due, gst, revenue, lines
<1>9. Raises(lines, due)
  BY <1>3, <1>4, <1>6, <1>7, <1>8 DEF Raises
<1> QED
  BY <1>9 DEF lines, due

\* The columns of the line that clears a receivable.
LEMMA NegatedIs ==
  ASSUME NEW due \in DueRow
  PROVE  /\ Negated(due) \in LineRow
         /\ Negated(due).account = due.account /\ Negated(due).currency = due.currency
         /\ Negated(due).amount = -due.amount /\ Negated(due).rate = due.rate
<1>1. /\ due.account \in LedgerAccount /\ due.currency \in Currency
      /\ due.amount \in Nat \ {0} /\ due.rate \in Int
  BY DueRowIs DEF LedgerAccount
<1>2. -due.amount \in Int \ {0}
  BY <1>1
<1> QED
  BY <1>1, <1>2, RowIs DEF Negated

\* reverse_journal_entry clears the receivable it was raised by.
LEMMA ReversalClears ==
  ASSUME NEW lines, NEW due, Raises(lines, due)
  PROVE  Clears(Reversed(lines), due)
<1>1. PICK revenue \in Nat, gst \in Nat : lines = Posted(due, -revenue, -gst)
  BY DEF Raises
<1>2. /\ due \in DueRow /\ IsFiniteSet(lines) /\ WithinHalf(lines, due.currency)
      /\ Value(lines) = due.amount * due.rate + (-revenue + -gst) * RateScale
  <2>1. due \in DueRow /\ IsFiniteSet(lines) /\ WithinHalf(lines, due.currency)
    BY RaisesFacts
  <2>2. due \in LineRow /\ due.account \in Receivable /\ -revenue \in Int /\ -gst \in Int
    BY <2>1, DueRowIs
  <2> QED
    BY <1>1, <2>1, <2>2, PostedValue
<1>3. ASSUME NEW account, NEW c, NEW n \in Int, NEW rate
      PROVE  [Row(account, c, n, rate) EXCEPT !.amount = -@] = Row(account, c, -n, rate)
  BY DEF Row
<1>4. [due EXCEPT !.amount = -@] = Negated(due)
  <2>1. due = Row(due.account, due.currency, due.amount, due.rate) /\ due.amount \in Int
    BY <1>2, DueRowIs
  <2> QED
    BY <1>3, <2>1 DEF Negated
<1> DEFINE k == SgdRow("revenue", -revenue)
           l == SgdRow("gst", -gst)
           x == SgdRow("revenue", revenue)
           y == SgdRow("gst", gst)
<1>5. [k EXCEPT !.amount = -@] = x /\ [l EXCEPT !.amount = -@] = y
        /\ k.amount = -revenue /\ l.amount = -gst /\ x.amount = revenue /\ y.amount = gst
  <2>1. -(-revenue) = revenue /\ -(-gst) = gst /\ -revenue \in Int /\ -gst \in Int
    OBVIOUS
  <2>2. ASSUME NEW account, NEW n \in Nat
        PROVE  /\ [SgdRow(account, -n) EXCEPT !.amount = -@] = SgdRow(account, n)
               /\ SgdRow(account, -n).amount = -n /\ SgdRow(account, n).amount = n
    <3>1. -(-n) = n /\ -n \in Int
      OBVIOUS
    <3>2. [Row(account, "SGD", -n, RateScale) EXCEPT !.amount = -@]
            = Row(account, "SGD", -(-n), RateScale)
      BY <1>3, <3>1
    <3> QED
      BY <3>1, <3>2, RowIs DEF SgdRow
  <2> QED
    BY <2>2
<1>6. lines = {due} \cup {m \in {k, l} : m.amount # 0}
        /\ Posted(Negated(due), revenue, gst) = {Negated(due)} \cup {m \in {x, y} : m.amount # 0}
  BY <1>1 DEF Posted
<1> HIDE DEF k, l, x, y
<1>7. Reversed(lines) = Posted(Negated(due), revenue, gst)
  <2>1. (k.amount # 0 <=> x.amount # 0) /\ (l.amount # 0 <=> y.amount # 0)
    BY <1>5
  <2> QED
    BY <1>4, <1>5, <1>6, <2>1 DEF Reversed
<1> DEFINE reversed == Reversed(lines)
<1>8. /\ reversed \subseteq LineRow /\ IsFiniteSet(reversed)
      /\ OnReceivable(reversed) = {Negated(due)}
      /\ Value(reversed) = (-due.amount) * due.rate + (revenue + gst) * RateScale
  <2>1. Negated(due) \in LineRow /\ Negated(due).account \in Receivable
          /\ Negated(due).amount = -due.amount /\ Negated(due).rate = due.rate
    BY <1>2, NegatedIs, DueRowIs
  <2> QED
    BY <1>7, <2>1, PostedValue
<1> HIDE DEF reversed
<1>9. Value(reversed) = -Value(lines)
  <2>1. ASSUME NEW a \in Int, NEW b \in Int, NEW m \in Int, NEW n \in Int, NEW s \in Int
        PROVE  (-a) * b + (m + n) * s = -(a * b + (-m + -n) * s)
    OBVIOUS
  <2>2. due.amount \in Int /\ due.rate \in Int /\ RateScale \in Int
    BY <1>2, DueRowIs, SumAssumption
  <2> QED
    BY <1>2, <1>8, <2>1, <2>2
<1>10. WithinHalf(reversed, due.currency)
  BY <1>2, <1>9, SumAssumption DEF WithinHalf
<1> QED
  BY <1>8, <1>10 DEF Clears, reversed

\* build_receipt_lines clears the receivable, whatever the rate.
LEMMA ReceiptClears ==
  ASSUME NEW due \in DueRow, NEW c \in Currency, NEW rate \in RatesOf(c),
         RateCurrency(c) = RateCurrency(due.currency)
  PROVE  Clears(ReceiptLines(due, c, rate), due)
<1> DEFINE k == Row("wallet", c, due.amount, rate)
           l == Negated(due)
           v == due.amount * (rate - due.rate)
           q == ToCents(v)
           m == SgdRow("fx", -q)
           lines == ReceiptLines(due, c, rate)
<1>1. /\ due.account \in Receivable /\ due.currency \in Currency /\ due.amount \in Nat \ {0}
      /\ due.rate \in Int /\ (due.currency = "SGD" => due.rate = RateScale)
  BY DueRowIs
<1>2. RateScale \in Nat \ {0} /\ rate \in Int /\ (c = "SGD" => rate = RateScale)
  <2>1. Rate \subseteq Nat /\ RateScale \in Nat \ {0}
    BY SumAssumption, RateAssumption
  <2> QED
    BY <2>1 DEF RatesOf
<1>3. v \in Int
  BY <1>1, <1>2
<1>4. due.currency = "SGD" => v = 0
  <2>1. due.currency = "SGD" => c = "SGD"
    BY DEF RateCurrency, Currency
  <2> QED
    BY <1>1, <1>2, <2>1
<1>5. /\ k.account = "wallet" /\ k.amount = due.amount /\ k.rate = rate
      /\ m.account = "fx" /\ m.amount = -q /\ m.rate = RateScale
      /\ l \in LineRow /\ l.account = due.account /\ l.amount = -due.amount /\ l.rate = due.rate
  BY RowIs, NegatedIs DEF SgdRow
<1>6. lines = {k} \cup {x \in {l, m} : x.amount # 0}
  <2>1. ReceiptLines(due, c, rate) = {k, l} \cup Difference(v)
    BY DEF ReceiptLines, Negated
  <2>2. Difference(v) = IF q = 0 THEN {} ELSE {m}
    BY DEF Difference
  <2>3. q \in Int
    BY <1>2, <1>3, QuantizedNear DEF ToCents
  <2> HIDE DEF k, l, m, v, q
  <2> QED
    BY <1>1, <1>5, <2>1, <2>2, <2>3
<1>7. /\ k \in LineRow
      /\ q \in Int
      /\ m.amount # 0 => m \in LineRow
  <2>1. q \in Int
    BY <1>2, <1>3, QuantizedNear DEF ToCents
  <2>2. k \in LineRow
    BY <1>1, <1>2, RowIs DEF LedgerAccount
  <2> HIDE DEF q
  <2> QED
    BY <1>2, <1>5, <2>1, <2>2, RowIs DEF SgdRow, LedgerAccount, Currency
<1>8. 2 * (v - RateScale * q) \in -RateScale .. RateScale
  BY <1>2, <1>3, QuantizedNear DEF ToCents
<1>9. v = 0 => q = 0
  <2>1. 0 * RateScale = 0
    BY <1>2
  <2>2. Quantized(0, RateScale) = 0
    BY <1>2, <2>1, QuantizedExact
  <2> QED
    BY <2>2 DEF ToCents
<1>10. v = due.amount * rate - due.amount * due.rate
         /\ due.amount * rate \in Int /\ due.amount * due.rate \in Int
  BY <1>1, <1>2
<1> HIDE DEF k, l, m, v, q, lines
<1>11. k # l /\ k # m /\ l # m
  BY <1>1, <1>5 DEF Receivable
<1>12. IsFiniteSet(lines)
         /\ Value(lines) = k.amount * k.rate + l.amount * l.rate + m.amount * m.rate
  <2>1. /\ k.amount \in Int /\ k.rate \in Int /\ l.amount \in Int /\ l.rate \in Int
        /\ m.amount \in Int /\ m.rate \in Int
    BY <1>1, <1>2, <1>5, <1>7
  <2> QED
    BY <1>6, <1>11, <2>1, ValueTriple
<1>13. Value(lines) = v - RateScale * q
  <2>1. (-due.amount) * due.rate = -(due.amount * due.rate) /\ (-q) * RateScale = -(RateScale * q)
    BY <1>1, <1>2, <1>7
  <2>2. RateScale * q \in Int
    BY <1>2, <1>7
  <2> QED
    BY <1>5, <1>10, <1>12, <2>1, <2>2
<1>14. WithinHalf(lines, due.currency)
  <2>1. RateScale * q \in Int /\ (v = 0 => v - RateScale * q = 0)
    BY <1>2, <1>7, <1>9
  <2> QED
    BY <1>3, <1>4, <1>8, <1>13, <2>1 DEF WithinHalf
<1>15. lines \subseteq LineRow /\ OnReceivable(lines) = {l}
  <2>1. l.amount # 0 /\ l.account \in Receivable
    BY <1>1, <1>5
  <2>2. k.account \notin Receivable /\ m.account \notin Receivable
    BY <1>5 DEF Receivable
  <2>3. lines \subseteq LineRow
    BY <1>5, <1>6, <1>7
  <2>4. OnReceivable(lines) = {l}
    BY <1>6, <2>1, <2>2 DEF OnReceivable
  <2> QED
    BY <2>3, <2>4
<1> QED
  BY <1>12, <1>14, <1>15 DEF Clears, lines, l

\* Two lines.
LEMMA ValueTwo ==
  ASSUME NEW k, NEW l, k # l, k.amount \in Int, k.rate \in Int, l.amount \in Int, l.rate \in Int
  PROVE  IsFiniteSet({k, l}) /\ Value({k, l}) = k.amount * k.rate + l.amount * l.rate
<1> DEFINE f == [x \in {k, l} |-> x.amount * x.rate]
<1>1. /\ f[k] = k.amount * k.rate /\ f[k] \in Int
      /\ f[l] = l.amount * l.rate /\ f[l] \in Int
  OBVIOUS
<1>2. IsFiniteSet({k, l})
  <2>1. IsFiniteSet({l}) /\ {k, l} = {l} \cup {k}
    BY FS_Singleton
  <2> QED
    BY <2>1, FS_AddElement
<1>3. Value({k, l}) = Total(f, {k, l})
  BY <1>2, ValueIsTotal
<1> HIDE DEF f
<1> QED
  BY <1>1, <1>2, <1>3, TotalPair

\* What half an amount may leave of the balance, and what half a cent may.
LEMMA ConversionWithin ==
  ASSUME NEW lines, OnReceivable(lines) = {}, NEW l \in lines, l.currency # "SGD",
         \A x \in lines : x.currency # "SGD" => x = l,
         NEW n \in Nat, l.amount \in {n, -n},
         NEW v \in Int, Value(lines) = v, 2 * v \in -n .. n \/ 2 * v \in -RateScale .. RateScale
  PROVE  WithinLarge(lines)
<1> DEFINE beyond == BeyondCent(lines)
<1>1. RateScale \in Nat \ {0} /\ n \in Nat /\ v \in Int
  BY SumAssumption
<1>2. \A x \in lines : x.account \notin Receivable
  BY DEF OnReceivable
<1>3. (CHOOSE x \in lines : x.currency # "SGD") = l
  OBVIOUS
<1>4. (IF l.amount < 0 THEN -l.amount ELSE l.amount) = n
  BY <1>1
<1>5. beyond = IF n \div 2 > RateScale THEN (n \div 2) - RateScale ELSE 0
  BY <1>2, <1>3, <1>4 DEF BeyondCent
<1> DEFINE h == n \div 2
<1>6. h \in Nat /\ n < 2 * h + 2
  BY <1>1
<1> HIDE DEF beyond
<1>7. beyond = IF h > RateScale THEN h - RateScale ELSE 0
  BY <1>5
<1> HIDE DEF h
<1>8. beyond \in Nat /\ h <= RateScale + beyond
  BY <1>1, <1>6, <1>7
<1>9. v \in -(RateScale + beyond) .. RateScale + beyond
  <2>1. CASE 2 * v \in -n .. n
    <3>1. v \in -h .. h
      BY <1>1, <1>6, <2>1
    <3> QED
      BY <1>1, <1>6, <1>8, <3>1
  <2>2. CASE 2 * v \in -RateScale .. RateScale
    BY <1>1, <1>8, <2>2
  <2> QED
    BY <2>1, <2>2
<1> QED
  BY <1>1, <1>8, <1>9 DEF WithinLarge, beyond

\* fx_conversion: a purchase is worth what it cost, to the rounding of its rate.
LEMMA PurchaseMoves ==
  ASSUME NEW c \in Currency \ {"SGD"}, NEW sold \in Sum, NEW bought \in Sum
  PROVE  Moves({Row("wallet", c, bought, Quantized(sold * RateScale, bought)),
                SgdRow("wallet", -sold)})
<1> DEFINE rate == Quantized(sold * RateScale, bought)
           k == Row("wallet", c, bought, rate)
           l == SgdRow("wallet", -sold)
<1>1. sold \in Nat \ {0} /\ bought \in Nat \ {0} /\ RateScale \in Nat \ {0}
  BY SumAssumption
<1>2. sold * RateScale \in Int
  BY <1>1
<1>3. rate \in Int /\ 2 * (sold * RateScale - bought * rate) \in -bought .. bought
  BY <1>1, <1>2, QuantizedNear
<1> HIDE DEF rate
<1>4. -sold \in Int \ {0} /\ bought \in Int \ {0} /\ RateScale \in Int
  BY <1>1
<1>5. /\ k.account = "wallet" /\ k.currency = c /\ k.amount = bought /\ k.rate = rate
      /\ k \in LineRow
  BY <1>3, <1>4, RowIs DEF LedgerAccount
<1>6. /\ l.account = "wallet" /\ l.currency = "SGD" /\ l.amount = -sold /\ l.rate = RateScale
      /\ l \in LineRow
  BY <1>4, RowIs DEF SgdRow, LedgerAccount, Currency
<1> HIDE DEF k, l
<1> DEFINE lines == {k, l}
<1>7. k # l
  BY <1>5, <1>6
<1>8. IsFiniteSet(lines) /\ Value(lines) = bought * rate + (-sold) * RateScale
  <2>1. IsFiniteSet({k, l}) /\ Value({k, l}) = k.amount * k.rate + l.amount * l.rate
    BY <1>3, <1>4, <1>5, <1>6, <1>7, ValueTwo
  <2> QED
    BY <1>5, <1>6, <2>1
<1>9. lines \subseteq LineRow /\ OnReceivable(lines) = {}
  BY <1>5, <1>6 DEF OnReceivable, Receivable
<1>10. k \in lines /\ l \in lines /\ k.currency # l.currency
  BY <1>5, <1>6
<1> HIDE DEF lines
<1>11. InSeveralCurrencies(lines) = 1
  BY <1>8, <1>10, SeveralCurrencies
<1>12. WithinLarge(lines)
  <2> DEFINE v == sold * RateScale - bought * rate
  <2>1. v \in Int /\ Value(lines) = -v
    BY <1>1, <1>3, <1>8
  <2> HIDE DEF v
  <2>2. 2 * v \in -bought .. bought
    BY <1>3 DEF v
  <2>3. -v \in Int /\ 2 * (-v) \in -bought .. bought /\ bought \in Nat
    BY <1>1, <2>1, <2>2
  <2>4. \A x \in lines : x.currency # "SGD" => x = k
    BY <1>6 DEF lines
  <2> QED
    BY <1>5, <1>9, <1>10, <2>1, <2>3, <2>4, ConversionWithin
<1> QED
  BY <1>8, <1>9, <1>11, <1>12 DEF Moves, lines, k, l, rate

\* A sale at any rate, with the difference, or at that of the conversion.
LEMMA SaleMoves ==
  ASSUME NEW c \in Currency \ {"SGD"}, NEW sold \in Sum, NEW bought \in Sum, NEW rate \in Int
  PROVE  /\ Moves({SgdRow("wallet", bought)} \cup
                    {Row("wallet", c, -sold, Quantized(bought * RateScale, sold))})
         /\ Moves({SgdRow("wallet", bought)} \cup
                    ({Row("wallet", c, -sold, rate)}
                       \cup Difference(bought * RateScale - sold * rate)))
<1>1. sold \in Nat \ {0} /\ bought \in Nat \ {0} /\ RateScale \in Nat \ {0}
  BY SumAssumption
<1>2. -sold \in Int \ {0} /\ bought \in Int \ {0} /\ RateScale \in Int
  BY <1>1
<1> DEFINE k == SgdRow("wallet", bought)
<1>3. /\ k.account = "wallet" /\ k.currency = "SGD" /\ k.amount = bought /\ k.rate = RateScale
      /\ k \in LineRow
  BY <1>2, RowIs DEF SgdRow, LedgerAccount, Currency
<1> HIDE DEF k
<1>4. ASSUME NEW r \in Int, NEW l, l = Row("wallet", c, -sold, r)
      PROVE  /\ l.account = "wallet" /\ l.currency = c /\ l.amount = -sold /\ l.rate = r
             /\ l \in LineRow /\ k # l /\ (-sold) * r = -(sold * r) /\ sold * r \in Int
  <2>1. /\ l.account = "wallet" /\ l.currency = c /\ l.amount = -sold /\ l.rate = r
        /\ l \in LineRow
    BY <1>2, <1>4, RowIs DEF LedgerAccount
  <2>2. k # l
    BY <1>3, <2>1
  <2>3. (-sold) * r = -(sold * r) /\ sold * r \in Int
    BY <1>1
  <2> QED
    BY <2>1, <2>2, <2>3
<1>5. Moves({k, Row("wallet", c, -sold, Quantized(bought * RateScale, sold))})
  <2> DEFINE r == Quantized(bought * RateScale, sold)
             l == Row("wallet", c, -sold, r)
             lines == {k, l}
             v == bought * RateScale - sold * r
  <2>1. bought * RateScale \in Int
    BY <1>1
  <2>2. r \in Int /\ 2 * v \in -sold .. sold
    BY <1>1, <2>1, QuantizedNear
  <2> HIDE DEF r
  <2>3. /\ l.account = "wallet" /\ l.currency = c /\ l.amount = -sold /\ l.rate = r
        /\ l \in LineRow /\ k # l /\ (-sold) * r = -(sold * r) /\ sold * r \in Int
    BY <1>4, <2>2
  <2> HIDE DEF l
  <2>4. IsFiniteSet(lines) /\ Value(lines) = k.amount * k.rate + l.amount * l.rate
    BY <1>2, <1>3, <2>2, <2>3, ValueTwo
  <2>5. lines \subseteq LineRow /\ OnReceivable(lines) = {}
    BY <1>3, <2>3 DEF OnReceivable, Receivable
  <2>6. k \in lines /\ l \in lines /\ k.currency # l.currency
    BY <1>3, <2>3
  <2>7. Value(lines) = v /\ v \in Int
    BY <1>3, <2>1, <2>3, <2>4
  <2> HIDE DEF lines, v
  <2>8. InSeveralCurrencies(lines) = 1
    BY <2>4, <2>6, SeveralCurrencies
  <2>9. WithinLarge(lines)
    <3>1. \A x \in lines : x.currency # "SGD" => x = l
      BY <1>3 DEF lines
    <3>2. 2 * v \in -sold .. sold /\ sold \in Nat /\ l.amount \in {sold, -sold}
      BY <1>1, <2>2, <2>3 DEF v
    <3> QED
      BY <2>3, <2>5, <2>6, <2>7, <3>1, <3>2, ConversionWithin
  <2> QED
    BY <2>4, <2>5, <2>8, <2>9 DEF Moves, lines, l, r
<1>6. Moves({k} \cup ({Row("wallet", c, -sold, rate)}
                         \cup Difference(bought * RateScale - sold * rate)))
  <2> DEFINE l == Row("wallet", c, -sold, rate)
             v == bought * RateScale - sold * rate
             q == ToCents(v)
             m == SgdRow("fx", -q)
             lines == {k} \cup ({l} \cup Difference(v))
  <2>1. /\ l.account = "wallet" /\ l.currency = c /\ l.amount = -sold /\ l.rate = rate
        /\ l \in LineRow /\ k # l /\ (-sold) * rate = -(sold * rate) /\ sold * rate \in Int
    BY <1>4
  <2>2. v \in Int /\ bought * RateScale \in Int
    BY <1>1, <2>1
  <2>3. Difference(v) = IF q = 0 THEN {} ELSE {m}
    BY DEF Difference
  <2>4. v = bought * RateScale - sold * rate
    OBVIOUS
  <2> HIDE DEF l, v
  <2>5. q \in Int /\ 2 * (v - RateScale * q) \in -RateScale .. RateScale
    BY <1>1, <2>2, QuantizedNear DEF ToCents
  <2> HIDE DEF q
  <2>6. /\ m.account = "fx" /\ m.currency = "SGD" /\ m.amount = -q /\ m.rate = RateScale
        /\ q # 0 => m \in LineRow
    <3>1. q # 0 => -q \in Int \ {0}
      BY <2>5
    <3> QED
      BY <1>2, <3>1, RowIs DEF SgdRow, LedgerAccount, Currency
  <2> HIDE DEF m
  <2>7. k # m /\ l # m /\ -q \in Int /\ (q = 0 <=> m.amount = 0)
    BY <1>3, <2>1, <2>5, <2>6
  <2>8. lines = {k} \cup {x \in {l, m} : x.amount # 0}
    BY <1>2, <2>1, <2>3, <2>7
  <2>9. lines \subseteq LineRow /\ OnReceivable(lines) = {}
    BY <1>3, <2>1, <2>3, <2>6 DEF OnReceivable, Receivable
  <2>10. k \in lines /\ l \in lines /\ k.currency # l.currency
    BY <1>3, <2>1
  <2> HIDE DEF lines
  <2>11. IsFiniteSet(lines)
           /\ Value(lines) = k.amount * k.rate + l.amount * l.rate + m.amount * m.rate
    <3>1. /\ k.amount \in Int /\ k.rate \in Int /\ l.amount \in Int /\ l.rate \in Int
          /\ m.amount \in Int /\ m.rate \in Int
      BY <1>2, <1>3, <2>1, <2>6, <2>7
    <3> QED
      BY <2>1, <2>7, <2>8, <3>1, ValueTriple
  <2>12. Value(lines) = v - RateScale * q /\ RateScale * q \in Int
    <3>1. (-q) * RateScale = -(RateScale * q) /\ RateScale * q \in Int
      BY <1>2, <2>5
    <3> QED
      BY <1>3, <2>1, <2>2, <2>4, <2>6, <2>11, <3>1
  <2>13. InSeveralCurrencies(lines) = 1
    BY <2>10, <2>11, SeveralCurrencies
  <2>14. WithinLarge(lines)
    <3> DEFINE w == v - RateScale * q
    <3>1. w \in Int /\ Value(lines) = w /\ 2 * w \in -RateScale .. RateScale
      BY <2>2, <2>5, <2>12
    <3>2. \A x \in lines : x.currency # "SGD" => x = l
      BY <1>3, <2>6, <2>8
    <3>3. sold \in Nat /\ l.amount \in {sold, -sold}
      BY <1>1, <2>1
    <3> HIDE DEF w
    <3> QED
      BY <2>1, <2>9, <2>10, <3>1, <3>2, <3>3, ConversionWithin
  <2> QED
    BY <2>9, <2>11, <2>13, <2>14 DEF Moves, lines, l, v
<1> QED
  BY <1>5, <1>6 DEF k

-----------------------------------------------------------------------------
(* The entries of the journal *)

DueOf(lines) == CHOOSE l \in lines : l.amount > 0

\* Entry e clears what the issue entry d raised.
Closes(e, d) == d.kind = "issue" /\ d.invoice = e.invoice /\ Clears(e.lines, DueOf(d.lines))

Sound(e, all) ==
  \/ /\ e.kind = "issue" /\ e.invoice \in Invoice /\ e.confirmed
     /\ Raises(e.lines, DueOf(e.lines))
  \/ /\ e.kind \in {"receipt", "reversal"} /\ (e.kind = "reversal" => e.confirmed)
     /\ e.invoice \in Invoice
     /\ \E d \in all : Closes(e, d)
  \/ /\ e.kind = "conversion" /\ e.invoice = None /\ e.confirmed
     /\ Moves(e.lines)

\* An invoice has one issue entry at most, and one that clears it.
OneOfEach(all) ==
  \A e, d \in all :
    e.invoice = d.invoice /\ e.invoice \in Invoice /\ (e.kind = "issue" <=> d.kind = "issue")
      => e = d

Coherent(all) ==
  /\ IsFiniteSet(all) /\ all \subseteq BookEntry
  /\ \A e \in all : Sound(e, all)
  /\ OneOfEach(all)

\* Only the entries of conversions can be equal.
Kept(books) ==
  /\ IsABag(books)
  /\ Coherent(DOMAIN books)
  /\ \A e \in DOMAIN books : e.invoice \in Invoice => books[e] = 1

BInv == Kept(journal) /\ mapped \in Receivable

\* A sound entry of its own kind for its invoice can join the others.
LEMMA CoherentAdd ==
  ASSUME NEW all, Coherent(all), NEW n \in BookEntry, Sound(n, all \cup {n}),
         n.invoice \in Invoice => \A e \in all :
           e.invoice = n.invoice => ~(e.kind = "issue" <=> n.kind = "issue")
  PROVE  Coherent(all \cup {n})
<1>1. IsFiniteSet(all \cup {n}) /\ all \cup {n} \subseteq BookEntry
  BY FS_AddElement DEF Coherent
<1>2. \A e \in all : Sound(e, all \cup {n})
  BY DEF Coherent, Sound
<1>3. OneOfEach(all \cup {n})
  BY DEF Coherent, OneOfEach
<1> QED
  BY <1>1, <1>2, <1>3 DEF Coherent

\* An unconfirmed entry is a receipt, and no entry rests on it.
LEMMA CoherentRemove ==
  ASSUME NEW all, Coherent(all), NEW e \in all, ~e.confirmed
  PROVE  /\ Coherent(all \ {e})
         /\ e.kind = "receipt" /\ e.invoice \in Invoice
         /\ \E d \in all \ {e} : Closes(e, d)
<1>1. Sound(e, all)
  BY DEF Coherent
<1>2. e.kind = "receipt" /\ e.invoice \in Invoice /\ \E d \in all : Closes(e, d)
  BY <1>1 DEF Sound
<1>3. \A x \in all : (\E d \in all : Closes(x, d)) => \E d \in all \ {e} : Closes(x, d)
  BY <1>2 DEF Closes
<1>4. \A x \in all \ {e} : Sound(x, all \ {e})
  <2> SUFFICES ASSUME NEW x \in all \ {e} PROVE Sound(x, all \ {e})
    OBVIOUS
  <2>1. Sound(x, all)
    BY DEF Coherent
  <2> QED
    BY <1>3, <2>1 DEF Sound
<1>5. IsFiniteSet(all \ {e}) /\ all \ {e} \subseteq BookEntry /\ OneOfEach(all \ {e})
  <2>1. IsFiniteSet(all \ {e})
    BY FS_Subset DEF Coherent
  <2> QED
    BY <2>1 DEF Coherent, OneOfEach
<1>6. \E d \in all \ {e} : Closes(e, d)
  BY <1>2, <1>3
<1> QED
  BY <1>2, <1>4, <1>5, <1>6 DEF Coherent

-----------------------------------------------------------------------------
(* Bags *)

With(books, e) == books (+) SetToBag({e})
Without(books, e) == books (-) SetToBag({e})

\* A bag with one more copy.
LEMMA WithIs ==
  ASSUME NEW B, IsABag(B), NEW n
  PROVE  /\ IsABag(With(B, n)) /\ DOMAIN With(B, n) = DOMAIN B \cup {n}
         /\ \A e \in DOMAIN B : e # n => With(B, n)[e] = B[e]
         /\ n \notin DOMAIN B => With(B, n)[n] = 1
<1> DEFINE C == With(B, n)
<1>1. DOMAIN SetToBag({n}) = {n} /\ SetToBag({n})[n] = 1
  BY DEF SetToBag
<1>2. C = [e \in DOMAIN B \cup {n} |-> (IF e \in DOMAIN B THEN B[e] ELSE 0)
                                          + (IF e \in {n} THEN SetToBag({n})[e] ELSE 0)]
  BY <1>1 DEF With, (+)
<1> HIDE DEF C
<1>3. \A e \in DOMAIN B : B[e] \in Nat /\ B[e] > 0
  BY DEF IsABag
<1>4. DOMAIN C = DOMAIN B \cup {n}
  BY <1>2
<1>5. ASSUME NEW e \in DOMAIN C
      PROVE  /\ C[e] \in Nat /\ C[e] > 0
             /\ e \in DOMAIN B /\ e # n => C[e] = B[e]
             /\ e \notin DOMAIN B => C[e] = 1
  <2>1. C[e] = (IF e \in DOMAIN B THEN B[e] ELSE 0) + (IF e \in {n} THEN 1 ELSE 0)
    BY <1>1, <1>2, <1>4
  <2>2. e \in DOMAIN B \/ e = n
    BY <1>4
  <2> QED
    BY <1>3, <2>1, <2>2
<1>6. IsABag(C)
  BY <1>2, <1>5 DEF IsABag
<1> QED
  BY <1>4, <1>5, <1>6 DEF C

\* A bag without the only copy of an element.
LEMMA WithoutIs ==
  ASSUME NEW B, IsABag(B), NEW n \in DOMAIN B, B[n] = 1, NEW C, C = Without(B, n)
  PROVE  /\ IsABag(C) /\ DOMAIN C = DOMAIN B \ {n}
         /\ \A e \in DOMAIN C : C[e] = B[e]
<1>1. DOMAIN SetToBag({n}) = {n} /\ SetToBag({n})[n] = 1
  BY DEF SetToBag
<1> DEFINE D == [e \in DOMAIN B |-> IF e \in DOMAIN SetToBag({n}) THEN B[e] - SetToBag({n})[e]
                                                                ELSE B[e]]
<1>2. C = [e \in {d \in DOMAIN D : D[d] > 0} |-> D[e]]
  BY DEF Without, (-)
<1>3. D[n] = 0 /\ DOMAIN D = DOMAIN B
  BY <1>1
<1>4. \A e \in DOMAIN B : e # n => D[e] = B[e]
  BY <1>1
<1>5. \A e \in DOMAIN B : B[e] \in Nat /\ B[e] > 0
  BY DEF IsABag
<1> HIDE DEF D
<1>6. {d \in DOMAIN D : D[d] > 0} = DOMAIN B \ {n}
  BY <1>3, <1>4, <1>5
<1>7. C = [e \in DOMAIN B \ {n} |-> D[e]]
  BY <1>2, <1>6
<1>8. DOMAIN C = DOMAIN B \ {n} /\ \A e \in DOMAIN C : C[e] = B[e]
  BY <1>4, <1>7
<1> QED
  BY <1>5, <1>7, <1>8 DEF IsABag

\* The bag keeps the invariant with a sound entry more.
LEMMA KeptAdd ==
  ASSUME NEW books, Kept(books), NEW n \in BookEntry, Sound(n, DOMAIN books \cup {n}),
         n.invoice \in Invoice => \A e \in DOMAIN books :
           e.invoice = n.invoice => ~(e.kind = "issue" <=> n.kind = "issue")
  PROVE  Kept(With(books, n))
<1> DEFINE added == With(books, n)
<1>1. IsABag(books) /\ Coherent(DOMAIN books)
        /\ \A e \in DOMAIN books : e.invoice \in Invoice => books[e] = 1
  BY DEF Kept
<1>2. /\ IsABag(added) /\ DOMAIN added = DOMAIN books \cup {n}
      /\ \A e \in DOMAIN books : e # n => added[e] = books[e]
      /\ n \notin DOMAIN books => added[n] = 1
  BY <1>1, WithIs
<1> HIDE DEF added
<1>3. Coherent(DOMAIN added)
  BY <1>1, <1>2, CoherentAdd
<1>4. n.invoice \in Invoice => n \notin DOMAIN books
  OBVIOUS
<1>5. \A e \in DOMAIN added : e.invoice \in Invoice => added[e] = 1
  BY <1>1, <1>2, <1>4
<1> QED
  BY <1>2, <1>3, <1>5 DEF Kept, added

\* The bag keeps the invariant without an unconfirmed entry.
LEMMA KeptTake ==
  ASSUME NEW books, Kept(books), NEW e \in DOMAIN books, ~e.confirmed,
         NEW taken, taken = Without(books, e)
  PROVE  /\ Kept(taken) /\ DOMAIN taken = DOMAIN books \ {e}
         /\ e \in BookEntry /\ e.kind = "receipt" /\ e.invoice \in Invoice
         /\ \E d \in DOMAIN taken : Closes(e, d)
         /\ \A d \in DOMAIN taken :
              d.invoice = e.invoice => ~(d.kind = "issue" <=> e.kind = "issue")
<1>1. IsABag(books) /\ Coherent(DOMAIN books)
        /\ \A d \in DOMAIN books : d.invoice \in Invoice => books[d] = 1
  BY DEF Kept
<1>2. /\ Coherent(DOMAIN books \ {e}) /\ e.kind = "receipt" /\ e.invoice \in Invoice
      /\ \E d \in DOMAIN books \ {e} : Closes(e, d)
  BY <1>1, CoherentRemove
<1>3. /\ IsABag(taken) /\ DOMAIN taken = DOMAIN books \ {e}
      /\ \A d \in DOMAIN taken : taken[d] = books[d]
  BY <1>1, <1>2, WithoutIs
<1>4. Kept(taken)
  BY <1>1, <1>2, <1>3 DEF Kept
<1>5. e \in BookEntry /\ \A d \in DOMAIN taken :
        d.invoice = e.invoice => ~(d.kind = "issue" <=> e.kind = "issue")
  BY <1>1, <1>2, <1>3 DEF Coherent, OneOfEach
<1> QED
  BY <1>2, <1>3, <1>4, <1>5

-----------------------------------------------------------------------------
(* The invariant is inductive *)

\* create_journal_entry with a sound entry keeps the invariant.
LEMMA BookKeeps ==
  ASSUME BInv,
         NEW n, n \in BookEntry, Sound(n, Entries \cup {n}),
         n.invoice \in Invoice => \A e \in Entries :
           e.invoice = n.invoice => ~(e.kind = "issue" <=> n.kind = "issue"),
         journal' = With(journal, n), mapped' = mapped
  PROVE  BInv'
<1>1. Kept(journal) /\ mapped \in Receivable
  BY DEF BInv
<1>2. Kept(journal')
  BY <1>1, KeptAdd DEF Entries, BagToSet
<1> QED
  BY <1>1, <1>2 DEF BInv

\* A wallet's carrying rate is NULL or a number.
LEMMA CarriedIsInt ==
  ASSUME BInv, NEW c, CarryingRate(c) # None
  PROVE  CarryingRate(c) \in Int
<1> DEFINE carried == {e \in Entries : e.confirmed /\ WalletLines(e, c) # {}}
           f == [e \in carried |-> journal[e] * Native(WalletLines(e, c))]
           g == [e \in carried |-> journal[e] * Value(WalletLines(e, c))]
<1>1. /\ IsFiniteSet(Entries) /\ \A e \in Entries : e \in BookEntry /\ IsFiniteSet(e.lines)
      /\ \A e \in Entries : journal[e] \in Nat
  <2>1. Coherent(Entries) /\ IsABag(journal)
    BY DEF BInv, Kept, Entries, BagToSet
  <2>2. ASSUME NEW e \in Entries PROVE e \in BookEntry /\ IsFiniteSet(e.lines)
    <3>1. Sound(e, Entries) /\ e \in BookEntry
      BY <2>1 DEF Coherent
    <3> QED
      BY <3>1, RaisesFacts DEF Sound, Closes, Clears, Moves
  <2>3. \A e \in Entries : journal[e] \in Nat
    BY <2>1 DEF IsABag, Entries, BagToSet
  <2> QED
    BY <2>1, <2>2, <2>3 DEF Coherent
<1>2. ASSUME NEW e \in Entries
      PROVE  Native(WalletLines(e, c)) \in Int /\ Value(WalletLines(e, c)) \in Int
  <2> DEFINE lines == WalletLines(e, c)
             h == [l \in lines |-> l.amount]
             k == [l \in lines |-> l.amount * l.rate]
  <2>1. lines \subseteq e.lines
    BY DEF WalletLines
  <2>2. e.lines \subseteq LineRow /\ IsFiniteSet(e.lines)
    BY <1>1 DEF BookEntry
  <2> HIDE DEF lines
  <2>3. IsFiniteSet(lines)
    BY <2>1, <2>2, FS_Subset
  <2>4. \A l \in lines : h[l] \in Int /\ k[l] \in Int
    BY <2>1, <2>2 DEF LineRow
  <2>5. Value(lines) = Total(k, lines) /\ Native(lines) = Total(h, lines)
    BY <2>3, ValueIsTotal
  <2> HIDE DEF h, k
  <2> QED
    BY <2>3, <2>4, <2>5, TotalInt DEF lines
<1>3. IsFiniteSet(carried)
  BY <1>1, FS_Subset
<1>4. DOMAIN f = carried /\ DOMAIN g = carried
  OBVIOUS
<1>5. \A e \in carried : f[e] \in Int /\ g[e] \in Int
  BY <1>1, <1>2
<1>6. CarryingRate(c) = IF SumOf(f) <= 0 THEN None ELSE Quantized(SumOf(g), SumOf(f))
  BY DEF CarryingRate
<1> HIDE DEF f, g, carried
<1>7. SumOf(f) \in Int /\ SumOf(g) \in Int
  BY <1>3, <1>4, <1>5, SumIsTotal, TotalInt
<1>8. SumOf(f) \in Nat \ {0} /\ CarryingRate(c) = Quantized(SumOf(g), SumOf(f))
  BY <1>6, <1>7
<1> QED
  BY <1>7, <1>8, QuantizedNear

\* What is known of an invoice that is open: its issue entry, and no other.
LEMMA OpenFacts ==
  ASSUME BInv, NEW i \in Invoice, OpenInvoice(i)
  PROVE  \E d \in Entries :
           /\ d.kind = "issue" /\ d.invoice = i /\ Raises(d.lines, DueOf(d.lines))
           /\ ReceivableLine(i) = DueOf(d.lines)
           /\ \A e \in Entries : e.invoice = i => e = d
<1> DEFINE d == CHOOSE e \in EntriesOf("issue", i) : TRUE
<1>1. d \in EntriesOf("issue", i)
  BY DEF OpenInvoice
<1>2. ReceivableLine(i) = DueOf(d.lines)
  BY DEF ReceivableLine, DueOf
<1> HIDE DEF d
<1>3. d \in Entries /\ d.kind = "issue" /\ d.invoice = i
  BY <1>1 DEF EntriesOf
<1>4. Coherent(Entries)
  BY DEF BInv, Kept, Entries, BagToSet
<1>5. Raises(d.lines, DueOf(d.lines))
  <2>1. Sound(d, Entries)
    BY <1>3, <1>4 DEF Coherent
  <2> QED
    BY <1>3, <2>1 DEF Sound
<1>6. ASSUME NEW e \in Entries, e.invoice = i PROVE e = d
  <2>1. Sound(e, Entries) /\ OneOfEach(Entries)
    BY <1>4 DEF Coherent
  <2>2. e.kind # "receipt" /\ e.kind # "reversal"
    BY <1>6 DEF OpenInvoice, EntriesOf
  <2>3. e.kind = "issue"
    BY <1>6, <2>1, <2>2, InvoiceAssumption DEF Sound
  <2> QED
    BY <1>3, <1>6, <2>1, <2>3 DEF OneOfEach
<1> QED
  BY <1>2, <1>3, <1>5, <1>6

\* Issue keeps the invariant.
LEMMA IssueKeeps ==
  ASSUME BInv, NEW i \in Invoice, BookIssue(i)
  PROVE  BInv'
<1>1. PICK c \in Currency, total \in Sum, tax \in {0} \cup Sum, rate \in Rate \cup {RateScale} :
        /\ tax <= total /\ rate \in RatesOf(c)
        /\ Balanced(IssueLines(total, tax, c, rate))
        /\ Book("issue", i, TRUE, IssueLines(total, tax, c, rate))
  BY DEF BookIssue
<1> DEFINE lines == IssueLines(total, tax, c, rate)
           due == Row(mapped, c, total, rate)
           n == [kind |-> "issue", invoice |-> i, confirmed |-> TRUE, lines |-> lines]
<1>2. Raises(lines, due)
  <2>1. mapped \in Receivable
    BY DEF BInv
  <2> QED
    BY <1>1, <2>1, IssueRaises
<1>3. journal' = With(journal, n) /\ mapped' = mapped
  BY <1>1 DEF Book, With
<1>4. /\ n.kind = "issue" /\ n.invoice = i /\ n.confirmed /\ n.lines = lines
  OBVIOUS
<1> HIDE DEF lines, due
<1>5. lines \subseteq LineRow /\ DueOf(lines) = due
  BY <1>2, RaisesFacts DEF DueOf
<1>6. n \in BookEntry
  BY <1>5 DEF BookEntry
<1> HIDE DEF n
<1>7. Sound(n, Entries \cup {n})
  BY <1>2, <1>4, <1>5 DEF Sound
<1>8. \A e \in Entries : e.invoice = n.invoice => e.kind # "issue"
  BY <1>4 DEF BookIssue, EntriesOf
<1>9. \A e \in Entries : e.invoice = n.invoice => ~(e.kind = "issue" <=> n.kind = "issue")
  BY <1>4, <1>8
<1> QED
  BY <1>3, <1>6, <1>7, <1>9, BookKeeps

\* The entries that clear an open invoice, by receipt or reversal.
LEMMA ClearingKeeps ==
  ASSUME BInv, NEW i \in Invoice, OpenInvoice(i),
         NEW kind \in {"receipt", "reversal"}, NEW confirmed \in BOOLEAN,
         kind = "reversal" => confirmed,
         NEW lines, Clears(lines, ReceivableLine(i)), Book(kind, i, confirmed, lines)
  PROVE  BInv'
<1> DEFINE n == [kind |-> kind, invoice |-> i, confirmed |-> confirmed, lines |-> lines]
<1>1. journal' = With(journal, n) /\ mapped' = mapped
  BY DEF Book, With
<1>2. n.kind = kind /\ n.invoice = i /\ n.confirmed = confirmed /\ n.lines = lines
  OBVIOUS
<1>3. n \in BookEntry
  BY DEF BookEntry, Clears
<1> HIDE DEF n
<1>4. PICK d \in Entries :
        /\ d.kind = "issue" /\ d.invoice = i /\ ReceivableLine(i) = DueOf(d.lines)
        /\ \A e \in Entries : e.invoice = i => e = d
  BY OpenFacts
<1>5. Closes(n, d)
  BY <1>2, <1>4 DEF Closes
<1>6. Sound(n, Entries \cup {n})
  BY <1>2, <1>4, <1>5 DEF Sound
<1>7. \A e \in Entries : e.invoice = n.invoice => ~(e.kind = "issue" <=> n.kind = "issue")
  BY <1>2, <1>4
<1> QED
  BY <1>1, <1>3, <1>6, <1>7, BookKeeps

\* A receipt keeps the invariant.
LEMMA ReceiptKeeps ==
  ASSUME BInv, NEW i \in Invoice, BookReceipt(i)
  PROVE  BInv'
<1>1. PICK c \in Currency, rate \in Rate \cup {RateScale}, confirmed \in BOOLEAN :
        /\ RateCurrency(c) = RateCurrency(ReceivableLine(i).currency) /\ rate \in RatesOf(c)
        /\ Book("receipt", i, confirmed, ReceiptLines(ReceivableLine(i), c, rate))
  BY DEF BookReceipt
<1>2. OpenInvoice(i)
  BY DEF BookReceipt
<1>3. ReceivableLine(i) \in DueRow
  BY <1>2, OpenFacts, RaisesFacts
<1>4. Clears(ReceiptLines(ReceivableLine(i), c, rate), ReceivableLine(i))
  BY <1>1, <1>3, ReceiptClears
<1> QED
  BY <1>1, <1>2, <1>4, ClearingKeeps

\* A reversal keeps the invariant.
LEMMA ReversalKeeps ==
  ASSUME BInv, NEW i \in Invoice, BookReversal(i)
  PROVE  BInv'
<1>1. PICK e \in EntriesOf("issue", i) : Book("reversal", i, TRUE, Reversed(e.lines))
  BY DEF BookReversal
<1>2. OpenInvoice(i)
  BY DEF BookReversal
<1>3. PICK d \in Entries :
        /\ Raises(d.lines, DueOf(d.lines)) /\ ReceivableLine(i) = DueOf(d.lines)
        /\ \A x \in Entries : x.invoice = i => x = d
  BY <1>2, OpenFacts
<1>4. e = d
  BY <1>1, <1>3 DEF EntriesOf
<1>5. Clears(Reversed(e.lines), ReceivableLine(i))
  BY <1>3, <1>4, ReversalClears
<1> QED
  BY <1>1, <1>2, <1>5, ClearingKeeps

\* A conversion keeps the invariant.
LEMMA ConversionKeeps ==
  ASSUME BInv, NEW lines, Moves(lines), Book("conversion", None, TRUE, lines)
  PROVE  BInv'
<1> DEFINE n == [kind |-> "conversion", invoice |-> None, confirmed |-> TRUE, lines |-> lines]
<1>1. journal' = With(journal, n) /\ mapped' = mapped
  BY DEF Book, With
<1>2. n.kind = "conversion" /\ n.invoice = None /\ n.confirmed /\ n.lines = lines
  OBVIOUS
<1>3. n \in BookEntry
  BY DEF BookEntry, Moves
<1> HIDE DEF n
<1>4. Sound(n, Entries \cup {n})
  BY <1>2 DEF Sound
<1>5. n.invoice \notin Invoice
  BY <1>2, InvoiceAssumption
<1> QED
  BY <1>1, <1>3, <1>4, <1>5, BookKeeps

\* A sale keeps the invariant, at whatever rate the wallet carries.
LEMMA SaleKeeps ==
  ASSUME BInv, BookSale
  PROVE  BInv'
<1> DEFINE Lines(c, sold, bought) ==
             {SgdRow("wallet", bought)} \cup
               IF CarryingRate(c) = None
               THEN {Row("wallet", c, -sold, Quantized(bought * RateScale, sold))}
               ELSE {Row("wallet", c, -sold, CarryingRate(c))}
                      \cup Difference(bought * RateScale - sold * CarryingRate(c))
<1>1. PICK c \in Currency \ {"SGD"}, sold \in Sum, bought \in Sum :
        Book("conversion", None, TRUE, Lines(c, sold, bought))
  BY DEF BookSale
<1>2. CASE CarryingRate(c) = None
  <2>1. Moves({SgdRow("wallet", bought)} \cup
                {Row("wallet", c, -sold, Quantized(bought * RateScale, sold))})
    <3>1. RateScale \in Int
      BY SumAssumption
    <3> QED
      BY <3>1, SaleMoves
  <2>2. Moves(Lines(c, sold, bought))
    BY <1>2, <2>1
  <2> HIDE DEF Lines
  <2> QED
    BY <1>1, <2>2, ConversionKeeps
<1>3. CASE CarryingRate(c) # None
  <2> DEFINE rate == CarryingRate(c)
  <2>1. rate \in Int
    BY <1>3, CarriedIsInt
  <2>2. Lines(c, sold, bought) =
          {SgdRow("wallet", bought)} \cup
            ({Row("wallet", c, -sold, rate)} \cup Difference(bought * RateScale - sold * rate))
    BY <1>3
  <2> HIDE DEF Lines, rate
  <2>3. Moves({SgdRow("wallet", bought)} \cup
                ({Row("wallet", c, -sold, rate)}
                   \cup Difference(bought * RateScale - sold * rate)))
    BY <2>1, SaleMoves
  <2>4. Moves(Lines(c, sold, bought))
    BY <2>2, <2>3
  <2> QED
    BY <1>1, <2>4, ConversionKeeps
<1> QED
  BY <1>2, <1>3

\* Confirming or deleting an unconfirmed entry keeps the invariant.
LEMMA ConfirmKeeps ==
  ASSUME BInv, NEW e \in Entries, ConfirmBook(e) \/ DeleteBook(e)
  PROVE  BInv'
<1> DEFINE taken == Without(journal, e)
           n == [e EXCEPT !.confirmed = TRUE]
<1>1. ~e.confirmed /\ mapped' = mapped /\ Kept(journal) /\ mapped \in Receivable
        /\ e \in DOMAIN journal
  BY DEF ConfirmBook, DeleteBook, BInv, Entries, BagToSet
<1>2. journal' = With(taken, n) \/ journal' = taken
  BY DEF ConfirmBook, DeleteBook, With, Without
<1>3. /\ Kept(taken) /\ DOMAIN taken = DOMAIN journal \ {e}
      /\ e \in BookEntry /\ e.kind = "receipt" /\ e.invoice \in Invoice
      /\ \E d \in DOMAIN taken : Closes(e, d)
      /\ \A d \in DOMAIN taken :
           d.invoice = e.invoice => ~(d.kind = "issue" <=> e.kind = "issue")
  BY <1>1, KeptTake
<1> HIDE DEF taken
<1>4. n \in BookEntry
  BY <1>3 DEF BookEntry
<1>5. n.kind = "receipt" /\ n.invoice = e.invoice /\ n.lines = e.lines
  BY <1>3 DEF BookEntry
<1> HIDE DEF n
<1>6. Sound(n, DOMAIN taken \cup {n})
  BY <1>3, <1>5 DEF Sound, Closes
<1>7. \A d \in DOMAIN taken :
        d.invoice = n.invoice => ~(d.kind = "issue" <=> n.kind = "issue")
  BY <1>3, <1>5
<1>8. Kept(With(taken, n))
  BY <1>3, <1>4, <1>6, <1>7, KeptAdd
<1> QED
  BY <1>1, <1>2, <1>3, <1>8 DEF BInv

\* The invariant holds.
LEMMA BInvHolds == LedgerLinesSpec => []BInv
<1>1. LedgerLinesInit => BInv
  <2> SUFFICES ASSUME LedgerLinesInit PROVE BInv
    OBVIOUS
  <2>1. DOMAIN journal = {} /\ mapped \in Receivable
    BY DEF LedgerLinesInit, EmptyBag, SetToBag, Receivable
  <2>2. IsABag(journal)
    BY DEF LedgerLinesInit, EmptyBag, SetToBag, IsABag
  <2>3. Coherent(DOMAIN journal)
    BY <2>1, FS_EmptySet DEF Coherent, OneOfEach
  <2> QED
    BY <2>1, <2>2, <2>3 DEF BInv, Kept
<1>2. BInv /\ [LedgerLinesNext]_bookVars => BInv'
  <2> SUFFICES ASSUME BInv, [LedgerLinesNext]_bookVars PROVE BInv'
    OBVIOUS
  <2>1. ASSUME NEW i \in Invoice, BookIssue(i) \/ BookReceipt(i) \/ BookReversal(i) PROVE BInv'
    BY <2>1, IssueKeeps, ReceiptKeeps, ReversalKeeps
  <2>2. ASSUME BookPurchase PROVE BInv'
    BY <2>2, PurchaseMoves, ConversionKeeps DEF BookPurchase
  <2>3. ASSUME BookSale PROVE BInv'
    BY <2>3, SaleKeeps
  <2>4. ASSUME NEW e \in Entries, ConfirmBook(e) \/ DeleteBook(e) PROVE BInv'
    BY <2>4, ConfirmKeeps
  <2>5. ASSUME MapReceivable PROVE BInv'
    BY <2>5 DEF MapReceivable, BInv
  <2>6. ASSUME UNCHANGED bookVars PROVE BInv'
    BY <2>6 DEF bookVars, BInv
  <2> QED
    BY <2>1, <2>2, <2>3, <2>4, <2>5, <2>6 DEF LedgerLinesNext
<1> QED
  BY <1>1, <1>2, PTL DEF LedgerLinesSpec

\* Every entry is one of the four, each line on an account of the ledger and for an amount.
THEOREM LedgerLinesTyped == LedgerLinesSpec => []LedgerLinesTypeOK
<1>1. BInv => LedgerLinesTypeOK
  BY DEF BInv, Kept, Coherent, LedgerLinesTypeOK, Entries, BagToSet
<1> QED
  BY <1>1, BInvHolds, PTL

-----------------------------------------------------------------------------
(* The entries of one invoice *)

\* An entry counts once or not at all.
LEMMA SeveralIsBit ==
  ASSUME NEW lines PROVE InSeveralCurrencies(lines) \in {0, 1}
BY DEF InSeveralCurrencies

\* What an entry of the journal is.
LEMMA CoherentKinds ==
  ASSUME NEW all, Coherent(all), NEW e \in all
  PROVE  \/ e.kind = "issue" /\ e.invoice \in Invoice /\ Raises(e.lines, DueOf(e.lines))
         \/ /\ e.kind # "issue" /\ e.invoice \in Invoice
            /\ \E d \in all : Closes(e, d)
         \/ e.kind = "conversion" /\ e.invoice = None /\ Moves(e.lines)
<1>1. Sound(e, all)
  BY DEF Coherent
<1> QED
  BY <1>1 DEF Sound

\* An issue entry is confirmed, so the confirmed entries are coherent, too.
LEMMA CoherentConfirmed ==
  ASSUME NEW all, Coherent(all), NEW part, part = {e \in all : e.confirmed}
  PROVE  Coherent(part)
<1>1. IsFiniteSet(part) /\ part \subseteq BookEntry /\ OneOfEach(part)
  <2>1. IsFiniteSet(part)
    BY FS_Subset DEF Coherent
  <2> QED
    BY <2>1 DEF Coherent, OneOfEach
<1>2. ASSUME NEW e \in part PROVE Sound(e, part)
  <2>1. Sound(e, all) /\ e \in all
    BY DEF Coherent
  <2>2. ASSUME NEW d \in all, Closes(e, d) PROVE d \in part
    <3>1. Sound(d, all)
      BY DEF Coherent
    <3> QED
      BY <2>2, <3>1 DEF Sound, Closes
  <2> QED
    BY <2>1, <2>2 DEF Sound
<1> QED
  BY <1>1, <1>2 DEF Coherent

\* The issue entry, and the one that clears it.
LEMMA EntriesOfInvoice ==
  ASSUME NEW all, Coherent(all), NEW i \in Invoice,
         NEW own, own = {e \in all : e.invoice = i}, own # {}
  PROVE  \E d \in own :
           /\ d.kind = "issue" /\ Raises(d.lines, DueOf(d.lines))
           /\ own = {d} \/ \E e \in own : e # d /\ e.kind # "issue" /\ Closes(e, d) /\ own = {d, e}
<1>1. ASSUME NEW e \in own
      PROVE  \E d \in own : d.kind = "issue" /\ (e.kind # "issue" => Closes(e, d))
  <2>1. e \in all /\ e.invoice = i /\ e.invoice # None
    BY InvoiceAssumption
  <2>2. CASE e.kind = "issue"
    BY <2>2
  <2>3. CASE e.kind # "issue" /\ \E d \in all : Closes(e, d)
    BY <2>1, <2>3 DEF Closes
  <2> QED
    BY <2>1, <2>2, <2>3, CoherentKinds
<1>2. PICK d \in own : d.kind = "issue"
  BY <1>1
<1>3. Raises(d.lines, DueOf(d.lines))
  BY <1>2, CoherentKinds, InvoiceAssumption
<1>4. \A e, x \in own : (e.kind = "issue" <=> x.kind = "issue") => e = x
  BY DEF Coherent, OneOfEach
<1>5. CASE \A e \in own : e = d
  BY <1>2, <1>3, <1>5
<1>6. ASSUME NEW e \in own, e # d
      PROVE  e.kind # "issue" /\ Closes(e, d) /\ own = {d, e}
  <2>1. e.kind # "issue"
    BY <1>2, <1>4, <1>6
  <2>2. Closes(e, d)
    BY <1>1, <1>2, <1>4, <2>1
  <2>3. own = {d, e}
    BY <1>2, <1>4, <2>1
  <2> QED
    BY <2>1, <2>2, <2>3
<1> QED
  BY <1>2, <1>3, <1>5, <1>6

-----------------------------------------------------------------------------
(* The trial balance *)

\* What the balance allows for an entry, and its value or the negative of that.
Tolerance(lines) == RateScale * InSeveralCurrencies(lines) + BeyondCent(lines)
Slack(n, lines, s) == n * Tolerance(lines) + s * (n * Value(lines))

\* An entry with a receivable is not large.
LEMMA ToleranceOf ==
  ASSUME NEW lines
  PROVE  /\ OnReceivable(lines) # {} =>
              /\ BeyondCent(lines) = 0
              /\ Tolerance(lines) = RateScale * InSeveralCurrencies(lines)
         /\ Moves(lines) =>
              /\ Tolerance(lines) = RateScale + BeyondCent(lines)
              /\ Tolerance(lines) \in Nat
<1>1. ASSUME OnReceivable(lines) # {} PROVE BeyondCent(lines) = 0
  <2>1. \E l \in lines : l.account \in Receivable
    BY <1>1 DEF OnReceivable
  <2> QED
    BY <2>1 DEF BeyondCent
<1>2. InSeveralCurrencies(lines) \in {0, 1} /\ RateScale \in Nat
  BY SumAssumption, SeveralIsBit
<1>3. ASSUME OnReceivable(lines) # {}
      PROVE  Tolerance(lines) = RateScale * InSeveralCurrencies(lines)
  BY <1>1, <1>2, <1>3 DEF Tolerance
<1>4. ASSUME Moves(lines)
      PROVE  Tolerance(lines) = RateScale + BeyondCent(lines) /\ Tolerance(lines) \in Nat
  BY <1>2, <1>4 DEF Tolerance, Moves, WithinLarge
<1> QED
  BY <1>1, <1>3, <1>4

\* An entry of one foreign currency lacks half a cent at most, one of several has half to spare.
LEMMA SlackOfOne ==
  ASSUME NEW lines, NEW c, WithinHalf(lines, c), OnReceivable(lines) # {}, NEW s \in {1, -1}
  PROVE  /\ Slack(1, lines, s) \in Int
         /\ 2 * Slack(1, lines, s) >= -RateScale
         /\ c = "SGD" => Slack(1, lines, s) >= 0
         /\ InSeveralCurrencies(lines) = 1 => 2 * Slack(1, lines, s) >= RateScale
<1>1. RateScale \in Nat /\ Value(lines) \in Int /\ 2 * Value(lines) \in -RateScale .. RateScale
        /\ (c = "SGD" => Value(lines) = 0)
  BY SumAssumption DEF WithinHalf
<1>2. InSeveralCurrencies(lines) \in {0, 1}
  BY SeveralIsBit
<1> DEFINE v == Value(lines)
           b == InSeveralCurrencies(lines)
<1>3. Slack(1, lines, s) = 1 * (RateScale * b) + s * (1 * v)
  BY ToleranceOf DEF Slack
<1> HIDE DEF v, b
<1>4. v \in Int /\ b \in {0, 1} /\ 2 * v \in -RateScale .. RateScale /\ (c = "SGD" => v = 0)
  BY <1>1, <1>2 DEF v, b
<1>5. s * (1 * v) = v \/ s * (1 * v) = -v
  BY <1>4
<1>6. (b = 0 => 1 * (RateScale * b) = 0) /\ (b = 1 => 1 * (RateScale * b) = RateScale)
  BY <1>1
<1> QED
  BY <1>1, <1>3, <1>4, <1>5, <1>6 DEF b

\* A conversion lacks nothing.
LEMMA SlackOfConversion ==
  ASSUME NEW lines, Moves(lines), NEW n \in Nat, NEW s \in {1, -1}
  PROVE  Slack(n, lines, s) \in Nat
<1> DEFINE v == Value(lines)
           b == Tolerance(lines)
<1>1. v \in Int /\ v \in -b .. b /\ b \in Nat /\ Slack(n, lines, s) = n * b + s * (n * v)
  BY ToleranceOf DEF Moves, WithinLarge, Slack
<1> HIDE DEF v, b, Slack
<1>2. b + s * v \in Nat
  BY <1>1
<1>3. n * b + s * (n * v) = n * (b + s * v)
  BY <1>1
<1>4. n * (b + s * v) \in Nat
  <2> DEFINE m == b + s * v
  <2>1. m \in Nat
    BY <1>2
  <2> HIDE DEF m
  <2>2. n * m \in Nat
    BY <2>1
  <2> QED
    BY <2>2 DEF m
<1> QED
  BY <1>1, <1>3, <1>4

\* An entry of an invoice has a receivable, and is within half a cent of balance.
LEMMA InvoiceEntryWithin ==
  ASSUME NEW all, Coherent(all), NEW e \in all
  PROVE  \/ Moves(e.lines) /\ e.invoice = None
         \/ OnReceivable(e.lines) # {} /\ \E c : WithinHalf(e.lines, c)
<1>1. ASSUME NEW due, Raises(e.lines, due)
      PROVE  OnReceivable(e.lines) # {} /\ \E c : WithinHalf(e.lines, c)
  <2>1. OnReceivable(e.lines) = {due} /\ WithinHalf(e.lines, due.currency)
    BY <1>1, RaisesFacts
  <2> QED
    BY <2>1
<1>2. ASSUME NEW d \in all, Closes(e, d)
      PROVE  OnReceivable(e.lines) # {} /\ \E c : WithinHalf(e.lines, c)
  BY <1>2 DEF Closes, Clears
<1> QED
  BY <1>1, <1>2, CoherentKinds

\* The entries of an invoice make up for each other, and a conversion for itself.
LEMMA SlackOfAll ==
  ASSUME NEW all, Coherent(all), NEW s \in {1, -1},
         NEW n, \A e \in all : n[e] \in Nat /\ (e.invoice \in Invoice => n[e] = 1),
         NEW h, \A e \in all : h[e] = Slack(n[e], e.lines, s)
  PROVE  /\ Total(h, all) \in Nat
         /\ \A e \in all : h[e] \in Int
<1> DEFINE S == Invoice \cup {None}
           k == [e \in all |-> e.invoice]
           Own(i) == {e \in all : k[e] = i}
           sums == [i \in S |-> Total(h, Own(i))]
<1>1. IsFiniteSet(all) /\ IsFiniteSet(S)
  BY FS_AddElement, InvoiceAssumption DEF Coherent
<1>2. \A e \in all : k[e] \in S /\ k[e] = e.invoice
  BY CoherentKinds
<1>3. ASSUME NEW e \in all PROVE h[e] \in Int /\ (e.invoice = None => h[e] \in Nat)
  <2>1. CASE e.invoice \in Invoice
    <3>1. n[e] = 1 /\ e.invoice # None
      BY <2>1, InvoiceAssumption
    <3>2. OnReceivable(e.lines) # {} /\ \E c : WithinHalf(e.lines, c)
      BY <3>1, InvoiceEntryWithin
    <3> QED
      BY <3>1, <3>2, SlackOfOne
  <2>2. CASE e.invoice = None
    <3>1. Moves(e.lines) /\ n[e] \in Nat
      BY <2>2, CoherentKinds, InvoiceAssumption
    <3>2. h[e] \in Nat
      BY <3>1, SlackOfConversion
    <3> QED
      BY <3>2
  <2> QED
    BY <2>1, <2>2, CoherentKinds
<1>4. ASSUME NEW i \in S PROVE sums[i] \in Nat
  <2>1. sums[i] = Total(h, Own(i)) /\ IsFiniteSet(Own(i))
    BY <1>1, FS_Subset
  <2>2. Own(i) = {e \in all : e.invoice = i}
    BY <1>2
  <2> HIDE DEF S, k, sums
  <2>3. CASE i = None
    <3>1. \A e \in Own(i) : h[e] \in Nat
      BY <1>3, <2>2, <2>3
    <3> HIDE DEF Own
    <3> QED
      BY <2>1, <3>1, TotalNat
  <2>4. CASE i \in Invoice /\ Own(i) = {}
    <3> HIDE DEF Own
    <3> QED
      BY <2>1, <2>4, TotalEmpty
  <2>5. CASE i \in Invoice /\ Own(i) # {}
    <3>1. PICK d \in Own(i) :
            /\ d.kind = "issue" /\ Raises(d.lines, DueOf(d.lines))
            /\ Own(i) = {d} \/ \E e \in Own(i) : e # d /\ Closes(e, d) /\ Own(i) = {d, e}
      <4> HIDE DEF Own
      <4> QED
        BY <2>2, <2>5, EntriesOfInvoice
    <3> DEFINE c == DueOf(d.lines).currency
    <3>2. d \in all /\ h[d] = Slack(1, d.lines, s) /\ h[d] \in Int
      BY <1>3, <2>2, <2>5
    <3>3. /\ WithinHalf(d.lines, c) /\ OnReceivable(d.lines) # {}
          /\ c # "SGD" => InSeveralCurrencies(d.lines) = 1
      BY <3>1, RaisesFacts
    <3> HIDE DEF c
    <3>4. (c = "SGD" => h[d] >= 0) /\ (c # "SGD" => 2 * h[d] >= RateScale)
      BY <3>2, <3>3, SlackOfOne
    <3>5. h[d] \in Nat /\ RateScale \in Nat
      <4>1. RateScale \in Nat
        BY SumAssumption
      <4> QED
        BY <3>2, <3>4, <4>1
    <3>6. CASE Own(i) = {d}
      <4>1. Total(h, {d}) = h[d]
        BY <3>2, TotalSingle
      <4> HIDE DEF Own
      <4> QED
        BY <2>1, <3>5, <3>6, <4>1
    <3>7. ASSUME NEW e \in Own(i), e # d, Closes(e, d), Own(i) = {d, e}
          PROVE  sums[i] \in Nat
      <4>1. e \in all /\ h[e] = Slack(1, e.lines, s) /\ h[e] \in Int
        BY <1>3, <2>2, <2>5
      <4>2. WithinHalf(e.lines, c) /\ OnReceivable(e.lines) # {}
        BY <3>7 DEF Closes, Clears, c
      <4>3. (c = "SGD" => h[e] >= 0) /\ 2 * h[e] >= -RateScale
        BY <4>1, <4>2, SlackOfOne
      <4>4. h[d] + h[e] \in Nat
        BY <3>4, <3>5, <4>1, <4>3
      <4>5. Total(h, {d, e}) = h[d] + h[e]
        <5>1. d # e
          BY <3>7
        <5> QED
          BY <3>2, <4>1, <5>1, TotalPair
      <4> HIDE DEF Own
      <4>6. sums[i] = h[d] + h[e]
        BY <2>1, <3>7, <4>5
      <4> QED
        BY <4>4, <4>6
    <3> QED
      BY <3>1, <3>6, <3>7
  <2> QED
    BY <2>3, <2>4, <2>5 DEF S
<1>5. \A e \in all : h[e] \in Int
  BY <1>3
<1>6. Total(h, all) = Total(sums, S)
  <2>1. sums = [i \in S |-> Total(h, {e \in all : k[e] = i})]
    OBVIOUS
  <2> HIDE DEF S, k, sums
  <2> QED
    BY <1>1, <1>2, <1>5, <2>1, TotalFibers
<1> HIDE DEF S, k, sums
<1>7. Total(sums, S) \in Nat
  BY <1>1, <1>4, TotalNat
<1> QED
  BY <1>5, <1>6, <1>7

\* What the invariant says of the entries.
LEMMA KeptEntries ==
  ASSUME BInv
  PROVE  /\ Coherent(Entries)
         /\ \A e \in Entries : /\ journal[e] \in Nat
                               /\ e.invoice \in Invoice => journal[e] = 1
BY DEF BInv, Kept, IsABag, Entries, BagToSet

\* The value of an entry is a number, and so is what it may miss.
LEMMA ValueIsInt ==
  ASSUME NEW all, Coherent(all), NEW e \in all
  PROVE  Value(e.lines) \in Int /\ BeyondCent(e.lines) \in Nat
<1>1. ASSUME Moves(e.lines) PROVE Value(e.lines) \in Int /\ BeyondCent(e.lines) \in Nat
  BY <1>1 DEF Moves, WithinLarge
<1>2. ASSUME NEW c, WithinHalf(e.lines, c), OnReceivable(e.lines) # {}
      PROVE  Value(e.lines) \in Int /\ BeyondCent(e.lines) \in Nat
  BY <1>2, ToleranceOf DEF WithinHalf
<1> QED
  BY <1>1, <1>2, InvoiceEntryWithin

\* The balance of entries of which none rests on one left out.
LEMMA BalanceOfPart ==
  ASSUME BInv, NEW part, part \subseteq Entries, Coherent(part),
         NEW tolerance, tolerance = RateScale * SumOver(part, InSeveralCurrencies)
                                      + SumOver(part, BeyondCent)
  PROVE  SumOver(part, Value) \in -tolerance .. tolerance
<1> DEFINE f == [e \in part |-> journal[e] * InSeveralCurrencies(e.lines)]
           b == [e \in part |-> journal[e] * BeyondCent(e.lines)]
           g == [e \in part |-> journal[e] * Value(e.lines)]
           a == [e \in part |-> journal[e] * Tolerance(e.lines)]
<1>1. /\ IsFiniteSet(part) /\ RateScale \in Int
      /\ \A e \in part : journal[e] \in Nat /\ (e.invoice \in Invoice => journal[e] = 1)
  BY KeptEntries, SumAssumption DEF Coherent
<1>2. \A e \in part : /\ InSeveralCurrencies(e.lines) \in {0, 1}
                      /\ Value(e.lines) \in Int /\ BeyondCent(e.lines) \in Nat
  BY SeveralIsBit, ValueIsInt
<1>3. \A e \in part : f[e] \in Int /\ b[e] \in Int /\ g[e] \in Int
  BY <1>1, <1>2
<1>4. \A e \in part : a[e] \in Int /\ a[e] = RateScale * f[e] + b[e]
  <2> SUFFICES ASSUME NEW e \in part PROVE a[e] \in Int /\ a[e] = RateScale * f[e] + b[e]
    OBVIOUS
  <2> DEFINE bit == InSeveralCurrencies(e.lines)
             beyond == BeyondCent(e.lines)
             n == journal[e]
  <2>1. a[e] = n * (RateScale * bit + beyond) /\ f[e] = n * bit /\ b[e] = n * beyond
    BY DEF Tolerance
  <2>2. n \in Int /\ bit \in {0, 1} /\ beyond \in Int
    BY <1>1, <1>2
  <2> HIDE DEF a, f, b, n, bit, beyond
  <2>3. n * (RateScale * bit + beyond) = RateScale * (n * bit) + n * beyond
    BY <1>1, <2>2
  <2>4. n * (RateScale * bit + beyond) \in Int
    BY <1>1, <2>2
  <2> QED
    BY <2>1, <2>3, <2>4
<1>5. /\ SumOver(part, Value) = SumOf(g) /\ DOMAIN g = part
      /\ SumOver(part, InSeveralCurrencies) = SumOf(f) /\ DOMAIN f = part
      /\ SumOver(part, BeyondCent) = SumOf(b) /\ DOMAIN b = part
  BY DEF SumOver
<1>6. ASSUME NEW s \in {1, -1} PROVE Total(a, part) + s * Total(g, part) \in Nat
  <2> DEFINE slack == [e \in part |-> Slack(journal[e], e.lines, s)]
  <2>1. \A e \in part : slack[e] = Slack(journal[e], e.lines, s)
    OBVIOUS
  <2>2. \A e \in part : slack[e] = s * g[e] + a[e]
    <3> SUFFICES ASSUME NEW e \in part PROVE slack[e] = s * g[e] + a[e]
      OBVIOUS
    <3>1. slack[e] = a[e] + s * g[e]
      BY DEF Slack
    <3>2. a[e] \in Int /\ s * g[e] \in Int
      BY <1>3, <1>4
    <3> HIDE DEF slack, a, g
    <3> QED
      BY <3>1, <3>2
  <2> HIDE DEF g, a, slack
  <2>3. Total(slack, part) = s * Total(g, part) + Total(a, part)
    <3>1. s \in Int /\ IsFiniteSet(part)
      BY <1>1
    <3>2. \A e \in part : g[e] \in Int /\ a[e] \in Int /\ slack[e] = s * g[e] + a[e]
      BY <1>3, <1>4, <2>2
    <3> QED
      BY <3>1, <3>2, TotalLinear
  <2>4. Total(slack, part) \in Nat
    BY <1>1, <2>1, SlackOfAll
  <2>5. Total(g, part) \in Int /\ Total(a, part) \in Int
    BY <1>1, <1>3, <1>4, TotalInt
  <2>6. s * Total(g, part) \in Int
    BY <2>5
  <2> QED
    BY <2>3, <2>4, <2>5, <2>6
<1> HIDE DEF f, b, g, a
<1>7. SumOf(f) = Total(f, part) /\ SumOf(b) = Total(b, part) /\ SumOf(g) = Total(g, part)
  BY <1>1, <1>5, SumIsTotal
<1>8. tolerance = Total(a, part)
  <2>1. Total(a, part) = RateScale * Total(f, part) + Total(b, part)
    BY <1>1, <1>3, <1>4, TotalLinear
  <2> QED
    BY <1>5, <1>7, <2>1
<1>9. Total(g, part) \in -tolerance .. tolerance
  <2> DEFINE v == Total(g, part)
  <2>1. v \in Int /\ tolerance \in Int
    BY <1>1, <1>3, <1>4, <1>8, TotalInt
  <2>2. tolerance + 1 * v \in Nat /\ tolerance + (-1) * v \in Nat
    BY <1>6, <1>8
  <2> HIDE DEF v
  <2>3. v \in -tolerance .. tolerance
    BY <2>1, <2>2
  <2> QED
    BY <2>3 DEF v
<1> QED
  BY <1>5, <1>7, <1>9

\* The trial balance, with and without the unconfirmed receipts, is off by a cent for each entry
\* of several currencies at most, as get_trial_balance allows, and by what large conversions
\* leave to the rounding of their rate: the half cents of the entries of one foreign currency
\* are not counted, since an invoice's issue entry pays for the one that clears it.
THEOREM TrialBalancesHold == LedgerLinesSpec => []TrialBalances
<1>1. BInv => TrialBalances
  <2> SUFFICES ASSUME BInv PROVE TrialBalances
    OBVIOUS
  <2>1. Coherent(Entries)
    BY KeptEntries
  <2>2. Coherent({e \in Entries : e.confirmed})
    BY <2>1, CoherentConfirmed
  <2>3. ASSUME NEW part, part \subseteq Entries, Coherent(part)
        PROVE  LET tolerance == RateScale * SumOver(part, InSeveralCurrencies)
                                  + SumOver(part, BeyondCent)
               IN SumOver(part, Value) \in -tolerance .. tolerance
    BY <2>3, BalanceOfPart
  <2> QED
    BY <2>1, <2>2, <2>3 DEF TrialBalances
<1> QED
  BY <1>1, BInvHolds, PTL

-----------------------------------------------------------------------------
(* The receivable accounts *)

OnAccount(lines, account, c) == {l \in lines : l.account = account /\ l.currency = c}

\* What an entry has on a receivable account is that of its receivable line.
LEMMA OnAccountOf ==
  ASSUME NEW lines, NEW account \in Receivable, NEW c, NEW due \in DueRow
  PROVE  /\ OnReceivable(lines) = {due} =>
              OnAccount(lines, account, c) = OnAccount({due}, account, c)
         /\ OnReceivable(lines) = {Negated(due)} =>
              /\ Native(OnAccount(lines, account, c)) = -Native(OnAccount({due}, account, c))
              /\ Value(OnAccount(lines, account, c)) = -Value(OnAccount({due}, account, c))
         /\ Native(OnAccount({due}, account, c)) \in Int
         /\ Value(OnAccount({due}, account, c)) \in Int
<1> DEFINE neg == Negated(due)
           here == due.account = account /\ due.currency = c
<1>1. ASSUME NEW l, OnReceivable(lines) = {l}
      PROVE  OnAccount(lines, account, c)
               = IF l.account = account /\ l.currency = c THEN {l} ELSE {}
  BY <1>1 DEF OnReceivable, OnAccount
<1>2. ASSUME NEW l
      PROVE  OnAccount({l}, account, c) = IF l.account = account /\ l.currency = c THEN {l} ELSE {}
  BY DEF OnAccount
<1>3. /\ due.amount \in Int /\ due.rate \in Int /\ due.amount * due.rate \in Int
      /\ neg.account = due.account /\ neg.currency = due.currency
      /\ neg.amount = -due.amount /\ neg.rate = due.rate
      /\ (-due.amount) * due.rate = -(due.amount * due.rate)
  <2>1. due.amount \in Int /\ due.rate \in Int
    BY DueRowIs
  <2> QED
    BY <2>1, NegatedIs
<1> HIDE DEF neg
<1>4. /\ Value({due}) = due.amount * due.rate /\ Native({due}) = due.amount
      /\ Value({neg}) = -(due.amount * due.rate) /\ Native({neg}) = -due.amount
  <2>1. neg.amount \in Int /\ neg.rate \in Int
    BY <1>3
  <2>2. Value({neg}) = neg.amount * neg.rate /\ Native({neg}) = neg.amount
    BY <2>1, LineSingle
  <2> QED
    BY <1>3, <2>2, LineSingle
<1>5. ASSUME OnReceivable(lines) = {due}
      PROVE  OnAccount(lines, account, c) = OnAccount({due}, account, c)
  BY <1>1, <1>2, <1>5
<1>6. OnAccount({due}, account, c) = IF here THEN {due} ELSE {}
  BY <1>2
<1>7. ASSUME OnReceivable(lines) = {neg}
      PROVE  OnAccount(lines, account, c) = IF here THEN {neg} ELSE {}
  BY <1>1, <1>3, <1>7
<1> HIDE DEF here
<1>8. ASSUME OnReceivable(lines) = {neg}
      PROVE  /\ Native(OnAccount(lines, account, c)) = -Native(OnAccount({due}, account, c))
             /\ Value(OnAccount(lines, account, c)) = -Value(OnAccount({due}, account, c))
  <2>1. CASE here
    BY <1>3, <1>4, <1>6, <1>7, <1>8, <2>1
  <2>2. CASE ~here
    BY <1>6, <1>7, <1>8, <2>2, LineNone
  <2> QED
    BY <2>1, <2>2
<1>9. Native(OnAccount({due}, account, c)) \in Int /\ Value(OnAccount({due}, account, c)) \in Int
  <2>1. CASE here
    BY <1>3, <1>4, <1>6, <2>1
  <2>2. CASE ~here
    BY <1>6, <2>2, LineNone
  <2> QED
    BY <2>1, <2>2
<1> QED
  BY <1>5, <1>8, <1>9 DEF neg

\* Amounts u of the entries: none of a conversion, and opposite ones of the entry that raises a
\* receivable and the one that clears it.
CancelOut(u) ==
  /\ \A e \in Entries : u[e] \in Int /\ (e.invoice = None => u[e] = 0)
  /\ \A e, d \in Entries : d.kind = "issue" /\ Raises(d.lines, DueOf(d.lines)) /\ Closes(e, d)
       => u[e] = -u[d]

\* Amounts v of the invoices, which for the open ones are those of their issue entries.
AreOfIssue(v, u) ==
  \A i \in Invoice : \A d \in Entries :
    OpenInvoice(i) /\ d.invoice = i /\ d.kind = "issue" => v[i] = u[d]

\* The entries of all invoices come to what those of the open ones do.
LEMMA SumOfOpen ==
  ASSUME BInv, NEW u, NEW v, CancelOut(u), AreOfIssue(v, u),
         NEW open, open = {i \in Invoice : OpenInvoice(i)}
  PROVE  Total(u, Entries) = Total(v, open)
<1> DEFINE S == Invoice \cup {None}
           k == [e \in Entries |-> e.invoice]
           Own(i) == {e \in Entries : k[e] = i}
           sums == [i \in S |-> Total(u, Own(i))]
<1>1. Coherent(Entries) /\ IsFiniteSet(Entries) /\ IsFiniteSet(S) /\ open \in SUBSET S
        /\ IsFiniteSet(open)
  <2>1. Coherent(Entries)
    BY KeptEntries
  <2>2. IsFiniteSet(S) /\ IsFiniteSet(open)
    BY FS_AddElement, FS_Subset, InvoiceAssumption
  <2> QED
    BY <2>1, <2>2 DEF Coherent
<1>2. \A e \in Entries : k[e] \in S /\ k[e] = e.invoice
  BY <1>1, CoherentKinds
<1>3. ASSUME NEW x, u[x] \in Int PROVE Total(u, {x}) = u[x]
  BY <1>3, TotalSingle
<1>4. ASSUME NEW i \in S
      PROVE  \/ i \in open /\ sums[i] \in Int /\ sums[i] = v[i]
             \/ i \notin open /\ sums[i] = 0
  <2>1. sums[i] = Total(u, Own(i)) /\ IsFiniteSet(Own(i))
    BY <1>1, FS_Subset
  <2>2. Own(i) = {e \in Entries : e.invoice = i}
    BY <1>2
  <2>3. i \in open <=> i \in Invoice /\ OpenInvoice(i)
    OBVIOUS
  <2> HIDE DEF S, k, sums
  <2>4. CASE i = None
    <3>1. \A e \in Own(i) : u[e] = 0
      BY <2>2, <2>4 DEF CancelOut
    <3>2. i \notin open
      BY <2>3, <2>4, InvoiceAssumption
    <3> HIDE DEF Own
    <3> QED
      BY <2>1, <3>1, <3>2, TotalZero
  <2>5. CASE i \in Invoice /\ Own(i) = {}
    <3>1. i \notin open
      BY <2>2, <2>3, <2>5 DEF OpenInvoice, EntriesOf
    <3> HIDE DEF Own
    <3> QED
      BY <2>1, <2>5, <3>1, TotalEmpty
  <2>6. CASE i \in Invoice /\ Own(i) # {}
    <3>1. PICK d \in Own(i) :
            /\ d.kind = "issue" /\ Raises(d.lines, DueOf(d.lines))
            /\ Own(i) = {d} \/ \E e \in Own(i) : e # d /\ e.kind # "issue" /\ Closes(e, d)
                                                   /\ Own(i) = {d, e}
      <4> HIDE DEF Own
      <4> QED
        BY <1>1, <2>2, <2>6, EntriesOfInvoice
    <3>2. d \in Entries /\ d.invoice = i /\ u[d] \in Int
      BY <2>2 DEF CancelOut
    <3>3. Total(u, {d}) = u[d]
      BY <1>3, <3>2
    <3>4. CASE Own(i) = {d}
      <4>1. \A e \in Entries : e.invoice = i => e = d
        BY <2>2, <3>4
      <4>2. OpenInvoice(i)
        BY <3>1, <3>2, <4>1 DEF OpenInvoice, EntriesOf
      <4>3. v[i] = u[d] /\ i \in open
        BY <2>3, <2>6, <3>1, <3>2, <4>2 DEF AreOfIssue
      <4> HIDE DEF Own
      <4> QED
        BY <2>1, <3>2, <3>3, <3>4, <4>3
    <3>5. ASSUME NEW e \in Own(i), e # d, e.kind # "issue", Closes(e, d), Own(i) = {d, e}
          PROVE  i \notin open /\ sums[i] = 0
      <4>1. e \in Entries /\ e.invoice = i /\ u[e] \in Int
        BY <2>2 DEF CancelOut
      <4>2. u[e] = -u[d]
        BY <3>1, <3>2, <3>5, <4>1 DEF CancelOut
      <4>3. e.kind \in {"receipt", "reversal"}
        <5>1. Sound(e, Entries)
          BY <1>1, <4>1 DEF Coherent
        <5> QED
          BY <2>6, <3>5, <4>1, <5>1, InvoiceAssumption DEF Sound
      <4>4. i \notin open
        BY <2>3, <4>1, <4>3 DEF OpenInvoice, EntriesOf
      <4>5. Total(u, {d, e}) = u[d] + u[e]
        <5>1. d # e
          BY <3>5
        <5> QED
          BY <3>2, <4>1, <5>1, TotalPair
      <4> HIDE DEF Own
      <4>6. sums[i] = u[d] + u[e]
        BY <2>1, <3>5, <4>5
      <4> QED
        BY <3>2, <4>2, <4>4, <4>6
    <3> QED
      BY <3>1, <3>4, <3>5
  <2> QED
    BY <2>4, <2>5, <2>6 DEF S
<1>5. Total(u, Entries) = Total(sums, S)
  <2>1. sums = [i \in S |-> Total(u, {e \in Entries : k[e] = i})]
    OBVIOUS
  <2>2. \A e \in Entries : u[e] \in Int
    BY DEF CancelOut
  <2> HIDE DEF S, k, sums
  <2> QED
    BY <1>1, <1>2, <2>1, <2>2, TotalFibers
<1> HIDE DEF S, k, sums
<1>6. Total(sums, S) = Total(sums, open)
  <2>1. (\A i \in open : sums[i] \in Int) /\ \A i \in S \ open : sums[i] = 0
    BY <1>1, <1>4
  <2> QED
    BY <1>1, <2>1, TotalPart
<1>7. Total(sums, open) = Total(v, open)
  <2>1. \A i \in open : sums[i] = v[i]
    BY <1>1, <1>4
  <2> QED
    BY <1>1, <2>1, TotalEqual
<1> QED
  BY <1>5, <1>6, <1>7

\* A receivable account in one currency: amounts, and values in SGD.
LEMMA AccountIsOpen ==
  ASSUME BInv, NEW account \in Receivable, NEW c \in Currency,
         NEW open, open = {i \in Invoice : OpenInvoice(i)}
  PROVE  /\ SumOf([e \in Entries |-> journal[e] * Native(OnAccount(e.lines, account, c))])
              = SumOf([i \in open |-> Native(OnAccount({ReceivableLine(i)}, account, c))])
         /\ SumOf([e \in Entries |-> journal[e] * Value(OnAccount(e.lines, account, c))])
              = SumOf([i \in open |-> Value(OnAccount({ReceivableLine(i)}, account, c))])
<1> DEFINE N(lines) == Native(OnAccount(lines, account, c))
           V(lines) == Value(OnAccount(lines, account, c))
           n == [e \in Entries |-> journal[e] * N(e.lines)]
           v == [e \in Entries |-> journal[e] * V(e.lines)]
           nOpen == [i \in open |-> N({ReceivableLine(i)})]
           vOpen == [i \in open |-> V({ReceivableLine(i)})]
<1>1. /\ Coherent(Entries) /\ IsFiniteSet(Entries) /\ IsFiniteSet(open)
      /\ \A e \in Entries : journal[e] \in Nat /\ (e.invoice \in Invoice => journal[e] = 1)
  <2>1. IsFiniteSet(open)
    BY FS_Subset, InvoiceAssumption
  <2> QED
    BY <2>1, KeptEntries DEF Coherent
<1>2. ASSUME NEW lines, Moves(lines) PROVE N(lines) = 0 /\ V(lines) = 0
  <2>1. OnAccount(lines, account, c) = {}
    BY <1>2 DEF Moves, OnReceivable, OnAccount
  <2> QED
    BY <2>1, LineNone
<1>3. ASSUME NEW lines, NEW due, Raises(lines, due)
      PROVE  /\ N(lines) = N({due}) /\ V(lines) = V({due})
             /\ N({due}) \in Int /\ V({due}) \in Int /\ due \in DueRow
  <2>1. due \in DueRow /\ OnReceivable(lines) = {due}
    BY <1>3, RaisesFacts
  <2> QED
    BY <2>1, OnAccountOf
<1>4. ASSUME NEW lines, NEW due \in DueRow, Clears(lines, due)
      PROVE  N(lines) = -N({due}) /\ V(lines) = -V({due})
  <2>1. OnReceivable(lines) = {Negated(due)}
    BY <1>4 DEF Clears
  <2> QED
    BY <2>1, OnAccountOf
<1>5. ASSUME NEW e \in Entries
      PROVE  n[e] = journal[e] * N(e.lines) /\ v[e] = journal[e] * V(e.lines)
  OBVIOUS
<1>6. ASSUME NEW i \in open
      PROVE  nOpen[i] = N({ReceivableLine(i)}) /\ vOpen[i] = V({ReceivableLine(i)})
  OBVIOUS
<1>7. DOMAIN n = Entries /\ DOMAIN v = Entries /\ DOMAIN nOpen = open /\ DOMAIN vOpen = open
  OBVIOUS
<1> HIDE DEF N, V, n, v, nOpen, vOpen
<1>8. ASSUME NEW e \in Entries, NEW d \in Entries, d.kind = "issue", Raises(d.lines, DueOf(d.lines)),
             Closes(e, d)
      PROVE  /\ N(e.lines) = -N(d.lines) /\ V(e.lines) = -V(d.lines)
             /\ N(d.lines) \in Int /\ V(d.lines) \in Int
  <2>1. DueOf(d.lines) \in DueRow /\ Clears(e.lines, DueOf(d.lines))
    BY <1>3, <1>8 DEF Closes
  <2>2. N(e.lines) = -N({DueOf(d.lines)}) /\ V(e.lines) = -V({DueOf(d.lines)})
    BY <1>4, <2>1
  <2>3. /\ N(d.lines) = N({DueOf(d.lines)}) /\ V(d.lines) = V({DueOf(d.lines)})
        /\ N({DueOf(d.lines)}) \in Int /\ V({DueOf(d.lines)}) \in Int
    BY <1>3, <1>8
  <2> QED
    BY <2>2, <2>3
<1>9. ASSUME NEW d \in Entries, d.kind = "issue"
      PROVE  d.invoice \in Invoice /\ journal[d] = 1 /\ Raises(d.lines, DueOf(d.lines))
  <2>1. Sound(d, Entries)
    BY <1>1 DEF Coherent
  <2> QED
    BY <1>1, <1>9, <2>1 DEF Sound
<1>10. ASSUME NEW e \in Entries
       PROVE  /\ N(e.lines) \in Int /\ V(e.lines) \in Int
              /\ e.invoice = None => N(e.lines) = 0 /\ V(e.lines) = 0
  <2>1. CASE Moves(e.lines)
    BY <1>2, <2>1
  <2>2. CASE e.invoice \in Invoice /\ Raises(e.lines, DueOf(e.lines))
    BY <1>3, <2>2, InvoiceAssumption
  <2>3. CASE e.invoice \in Invoice /\ \E d \in Entries : Closes(e, d)
    <3>1. PICK d \in Entries : Closes(e, d)
      BY <2>3
    <3>2. d.kind = "issue" /\ Raises(d.lines, DueOf(d.lines))
      BY <1>9, <3>1 DEF Closes
    <3>3. N(e.lines) \in Int /\ V(e.lines) \in Int
      BY <1>8, <3>1, <3>2
    <3> QED
      BY <2>3, <3>3, InvoiceAssumption
  <2> QED
    BY <1>1, <2>1, <2>2, <2>3, CoherentKinds
<1>11. \A e \in Entries : /\ n[e] \in Int /\ (e.invoice = None => n[e] = 0)
                          /\ v[e] \in Int /\ (e.invoice = None => v[e] = 0)
  <2> SUFFICES ASSUME NEW e \in Entries
               PROVE  /\ n[e] \in Int /\ (e.invoice = None => n[e] = 0)
                      /\ v[e] \in Int /\ (e.invoice = None => v[e] = 0)
    OBVIOUS
  <2>1. ASSUME NEW j \in Nat, NEW x \in Int PROVE j * x \in Int /\ (x = 0 => j * x = 0)
    OBVIOUS
  <2> QED
    BY <1>1, <1>5, <1>10, <2>1
<1>12. \A e, d \in Entries : d.kind = "issue" /\ Raises(d.lines, DueOf(d.lines)) /\ Closes(e, d)
         => n[e] = -n[d] /\ v[e] = -v[d]
  <2> SUFFICES ASSUME NEW e \in Entries, NEW d \in Entries, d.kind = "issue",
                      Raises(d.lines, DueOf(d.lines)), Closes(e, d)
               PROVE  n[e] = -n[d] /\ v[e] = -v[d]
    OBVIOUS
  <2>1. journal[d] = 1 /\ journal[e] = 1
    BY <1>1, <1>9 DEF Closes
  <2> QED
    BY <1>5, <1>8, <2>1
<1>13. \A i \in Invoice : \A d \in Entries :
         OpenInvoice(i) /\ d.invoice = i /\ d.kind = "issue" => nOpen[i] = n[d] /\ vOpen[i] = v[d]
  <2> SUFFICES ASSUME NEW i \in Invoice, NEW d \in Entries, OpenInvoice(i), d.invoice = i,
                      d.kind = "issue"
               PROVE  nOpen[i] = n[d] /\ vOpen[i] = v[d]
    OBVIOUS
  <2>1. ReceivableLine(i) = DueOf(d.lines)
    BY OpenFacts
  <2>2. journal[d] = 1 /\ Raises(d.lines, DueOf(d.lines)) /\ i \in open
    BY <1>9
  <2>3. N(d.lines) = N({ReceivableLine(i)}) /\ V(d.lines) = V({ReceivableLine(i)})
    BY <1>3, <2>1, <2>2
  <2>4. N(d.lines) \in Int /\ V(d.lines) \in Int
    BY <1>10
  <2> QED
    BY <1>5, <1>6, <2>2, <2>3, <2>4
<1>14. Total(n, Entries) = Total(nOpen, open) /\ Total(v, Entries) = Total(vOpen, open)
  <2>1. CancelOut(n) /\ CancelOut(v)
    BY <1>11, <1>12 DEF CancelOut
  <2>2. AreOfIssue(nOpen, n) /\ AreOfIssue(vOpen, v)
    BY <1>13 DEF AreOfIssue
  <2> QED
    BY <2>1, <2>2, SumOfOpen
<1>15. SumOf(n) = SumOf(nOpen) /\ SumOf(v) = SumOf(vOpen)
  BY <1>1, <1>7, <1>14, SumIsTotal
<1> QED
  BY <1>15 DEF n, v, nOpen, vOpen, N, V

\* Every receivable account holds the open invoices raised on it, at the rates of their issue,
\* and nothing else.
THEOREM ReceivablesAreOpenItemsHold == LedgerLinesSpec => []ReceivablesAreOpenItems
<1>1. BInv => ReceivablesAreOpenItems
  BY AccountIsOpen DEF ReceivablesAreOpenItems, SumOver, OnAccount
<1> QED
  BY <1>1, BInvHolds, PTL
=============================================================================
