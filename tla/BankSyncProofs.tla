--------------------------- MODULE BankSyncProofs ---------------------------
(***************************************************************************)
(* Proofs about BankSync, for any accounts, any number of runs at a time    *)
(* and either provider.                                                     *)
(***************************************************************************)
EXTENDS BankSync, TLAPS

USE SyncNullAssumption, SyncKeepAssumption, SyncBoundAssumption

-----------------------------------------------------------------------------
(* Types *)

Visiting == {"insert", "fetch", "store", "flush"}

\* A run that visits a target does not skip it, and counts one failure more at most.
FewFailures == \A r \in Run : run[r].pc \in Visiting => run[r].seen.failures < MaxFailures

\* Where a page follows there is a page number for it.
MorePages == \A r \in Run : run[r].pc \in {"store", "flush"} /\ run[r].more => run[r].cursor < MaxTx

Typed == SyncTypeOK /\ FewFailures /\ MorePages

LEMMA NoRunTyped == NoRun \in RunRow /\ NoRun.pc = "idle"
BY DEF NoRun, RunRow, NoState, SyncState, NoWrite, Write, Target, Time, Page

LEMMA TypedInitial == SyncInit => Typed
<1> SUFFICES ASSUME SyncInit PROVE Typed
  OBVIOUS
<1>1. NoState \in SyncState
  BY DEF NoState, SyncState, Time, Page
<1> QED
  BY <1>1, NoRunTyped DEF SyncInit, Typed, SyncTypeOK, FewFailures, MorePages, Visiting, Target

LEMMA PageTyped ==
  ASSUME NEW since \in Time \cup {None}, NEW cursor \in {0} \cup Page
  PROVE  /\ PageAsked(since, cursor) \in Page
         /\ ListedAfter(since) \in Time
BY DEF PageAsked, ListedAfter, Time, Page

LEMMA NextTyped ==
  ASSUME Typed, NEW r \in Run
  PROVE  NextTarget(r) \in RunRow
BY NoRunTyped DEF Typed, SyncTypeOK, NextTarget, NoRun, RunRow

LEMMA FlushTyped ==
  ASSUME Typed, NEW r \in Run, run[r].pc = "flush"
  PROVE  Flushed(r) \in Write
<1>1. run[r] \in RunRow
  BY DEF Typed, SyncTypeOK
<1>2. run[r].seen \in SyncState /\ run[r].write[run[r].at] \in Write
  BY <1>1 DEF RunRow
<1>3. CursorAfter(r) \in {0} \cup Page
  BY <1>1 DEF CursorAfter, Typed, MorePages, RunRow, Page
<1>4. Len(born) \in Time
  BY DEF Typed, SyncTypeOK, Time
<1>5. SetIf(0, run[r].seen.failures) \in {Keep} \cup 0 .. MaxFailures
  BY DEF SetIf
<1>6. [run[r].write[run[r].at] EXCEPT !.cursor = CursorAfter(r),
            !.cursorSince = IF run[r].seen.cursor = 0 THEN run[r].seen.since
                            ELSE run[r].seen.cursorSince] \in Write
  BY <1>2, <1>3 DEF Write, SyncState
<1> DEFINE paged == IF CursorAfter(r) = Column(run[r].write[run[r].at].cursor, run[r].seen.cursor)
                    THEN run[r].write[run[r].at]
                    ELSE [run[r].write[run[r].at] EXCEPT !.cursor = CursorAfter(r),
                            !.cursorSince = IF run[r].seen.cursor = 0 THEN run[r].seen.since
                                            ELSE run[r].seen.cursorSince]
<1>7. paged \in Write
  BY <1>2, <1>6
<1>8. [paged EXCEPT !.since = Len(born), !.failures = SetIf(0, run[r].seen.failures)] \in Write
  BY <1>4, <1>5, <1>7 DEF Write
<1>9. Flushed(r) = IF run[r].more THEN paged
                   ELSE [paged EXCEPT !.since = Len(born), !.failures = SetIf(0, run[r].seen.failures)]
  BY DEF Flushed
<1> QED
  BY <1>7, <1>8, <1>9

LEMMA ApplyTyped ==
  ASSUME NEW row \in SyncState, NEW w \in Write
  PROVE  Apply(row, w) \in SyncState
BY DEF Apply, Column, SyncState, Write

-----------------------------------------------------------------------------
(* What the steps make of a run's row *)

WithPage(row, p, t, n) ==
  [row EXCEPT !.pc = IF t <= n THEN "store" ELSE "flush", !.cursor = p,
              !.page = IF t <= n THEN t ELSE 0, !.more = t < n, !.upTo = n]
AtTarget(row, pc, x, seen) ==
  [row EXCEPT !.pc = pc, !.at = x, !.seen = seen, !.cursor = seen.cursor]
WithWrite(row, x, w) == [row EXCEPT !.write[x] = w]
WithNew(row, new) == [row EXCEPT !.pc = "flush", !.new = new, !.page = 0]
AtPage(row, p) == [row EXCEPT !.pc = "fetch", !.cursor = p, !.more = FALSE, !.upTo = 0]

LEMMA WithPageRow ==
  ASSUME NEW row \in RunRow, NEW p \in Page, NEW n \in Time, NEW t \in Nat \ {0}
  PROVE  LET next == WithPage(row, p, t, n) IN
         /\ next \in RunRow
         /\ next.pc = IF t <= n THEN "store" ELSE "flush"
         /\ next.cursor = p /\ next.page = IF t <= n THEN t ELSE 0
         /\ (next.more <=> t < n) /\ next.upTo = n
         /\ next.todo = row.todo /\ next.at = row.at /\ next.seen = row.seen
         /\ next.write = row.write /\ next.new = row.new
<1> DEFINE page == IF t <= n THEN t ELSE 0
           pc == IF t <= n THEN "store" ELSE "flush"
           more == t < n
           next == [row EXCEPT !.pc = pc, !.cursor = p, !.page = page, !.more = more, !.upTo = n]
<1>1. page \in {0} \cup Page /\ pc \in {"store", "flush"} /\ more \in BOOLEAN
  BY DEF Time, Page
<1>2. WithPage(row, p, t, n) = next
  BY DEF WithPage
<1> HIDE DEF page, pc, more
<1>3. /\ next \in RunRow
      /\ next.pc = pc /\ next.cursor = p /\ next.page = page /\ next.more = more /\ next.upTo = n
      /\ next.todo = row.todo /\ next.at = row.at /\ next.seen = row.seen
      /\ next.write = row.write /\ next.new = row.new
  BY <1>1 DEF RunRow
<1> HIDE DEF next
<1> QED
  BY <1>2, <1>3 DEF pc, page, more

LEMMA AtTargetRow ==
  ASSUME NEW row \in RunRow, NEW pc \in {"insert", "fetch"}, NEW x \in Target, NEW seen \in SyncState
  PROVE  LET next == AtTarget(row, pc, x, seen) IN
         /\ next \in RunRow
         /\ next.pc = pc /\ next.at = x /\ next.seen = seen /\ next.cursor = seen.cursor
         /\ next.todo = row.todo /\ next.write = row.write /\ next.new = row.new
BY DEF RunRow, SyncState, AtTarget

LEMMA WithWriteRow ==
  ASSUME NEW row \in RunRow, NEW x \in Target, NEW w \in Write
  PROVE  LET next == WithWrite(row, x, w) IN
         /\ next \in RunRow
         /\ next.write = [row.write EXCEPT ![x] = w]
         /\ next.pc = row.pc /\ next.todo = row.todo /\ next.at = row.at /\ next.seen = row.seen
         /\ next.cursor = row.cursor /\ next.more = row.more /\ next.new = row.new
BY DEF RunRow, WithWrite

LEMMA WithNewRow ==
  ASSUME NEW row \in RunRow, NEW new \in [1 .. MaxTx -> Target \cup {Keep}]
  PROVE  LET next == WithNew(row, new) IN
         /\ next \in RunRow
         /\ next.pc = "flush" /\ next.new = new
         /\ next.todo = row.todo /\ next.at = row.at /\ next.seen = row.seen /\ next.cursor = row.cursor
         /\ next.more = row.more /\ next.upTo = row.upTo /\ next.write = row.write
BY DEF RunRow, WithNew

LEMMA AtPageRow ==
  ASSUME NEW row \in RunRow, NEW p \in Page
  PROVE  LET next == AtPage(row, p) IN
         /\ next \in RunRow
         /\ next.pc = "fetch" /\ next.cursor = p
         /\ next.todo = row.todo /\ next.at = row.at /\ next.seen = row.seen
         /\ next.write = row.write /\ next.new = row.new
<1>1. 0 \in Time
  BY DEF Time
<1> QED
  BY <1>1 DEF RunRow, AtPage

LEMMA NextTargetRow ==
  ASSUME Typed, NEW r \in Run
  PROVE  /\ NextTarget(r) \in RunRow
         /\ NextTarget(r).pc = "pick" /\ NextTarget(r).todo = run[r].todo \ {run[r].at}
         /\ NextTarget(r).write = run[r].write /\ NextTarget(r).new = run[r].new
BY NextTyped DEF NextTarget, NoRun

-----------------------------------------------------------------------------
(* The steps of a run *)

\* Only r's row changes.
OnlyRun(r) ==
  /\ run' \in [Run -> RunRow] /\ \A s \in Run \ {r} : run'[s] = run[s]
  /\ UNCHANGED <<born, linked, state, stored>>

LEMMA OneRow ==
  ASSUME Typed, NEW r \in Run, NEW row \in RunRow, run' = [run EXCEPT ![r] = row],
         UNCHANGED <<born, linked, state, stored>>
  PROVE  OnlyRun(r) /\ run'[r] = row
BY DEF Typed, SyncTypeOK, OnlyRun

LEMMA RunTyped ==
  ASSUME Typed, NEW r \in Run
  PROVE  /\ run[r] \in RunRow
         /\ run[r].todo \subseteq Target /\ run[r].at \in Target /\ run[r].seen \in SyncState
         /\ run[r].seen.failures \in 0 .. MaxFailures
         /\ run[r].cursor \in {0} \cup Page /\ run[r].write \in [Target -> Write]
         /\ run[r].new \in [1 .. MaxTx -> Target \cup {Keep}]
         /\ Len(born) \in Time
BY DEF Typed, SyncTypeOK, RunRow, SyncState, Time

LEMMA StartStep ==
  ASSUME Typed, NEW r \in Run, Start(r)
  PROVE  /\ OnlyRun(r) /\ run[r].pc = "idle" /\ run'[r].pc = "pick"
         /\ run'[r].todo \subseteq Target
         /\ run'[r].write = run[r].write /\ run'[r].new = run[r].new
<1> DEFINE row == [run[r] EXCEPT !.pc = "pick", !.todo = IF linked = {} THEN {None} ELSE linked]
<1>1. (IF linked = {} THEN {None} ELSE linked) \in SUBSET Target
  BY DEF Typed, SyncTypeOK, Target
<1>2. /\ row \in RunRow /\ row.pc = "pick" /\ row.todo \subseteq Target
      /\ row.write = run[r].write /\ row.new = run[r].new
  BY <1>1, RunTyped DEF RunRow
<1>3. run' = [run EXCEPT ![r] = row]
  BY RunTyped DEF Start, RunRow, Typed, SyncTypeOK
<1> HIDE DEF row
<1> QED
  BY <1>2, <1>3, OneRow DEF Start

\* The next target is skipped after too many failures, or visited.
LEMMA PickStep ==
  ASSUME Typed, NEW r \in Run, Pick(r)
  PROVE  /\ OnlyRun(r) /\ run[r].pc = "pick"
         /\ run'[r].write = run[r].write /\ run'[r].new = run[r].new
         /\ \E x \in run[r].todo :
              \/ run'[r].pc = "pick" /\ run'[r].todo = run[r].todo \ {x}
              \/ /\ run'[r].pc = IF state[x].rows = 0 THEN "insert" ELSE "fetch"
                 /\ run'[r].todo = run[r].todo /\ run'[r].at = x /\ run'[r].seen = state[x]
                 /\ run'[r].cursor = state[x].cursor /\ state[x].failures < MaxFailures
<1>1. PICK x \in run[r].todo :
        run' = [run EXCEPT
          ![r] = IF TooManyFailures(x)
                 THEN [@ EXCEPT !.todo = run[r].todo \ {x}]
                 ELSE [@ EXCEPT !.pc = IF state[x].rows = 0 THEN "insert" ELSE "fetch",
                                !.at = x, !.seen = state[x],
                                !.cursor = state[x].cursor]]
  BY DEF Pick
<1>2. x \in run[r].todo /\ x \in Target /\ state[x] \in SyncState
  BY RunTyped DEF Typed, SyncTypeOK
<1>3. CASE TooManyFailures(x)
  <2> DEFINE row == [run[r] EXCEPT !.todo = run[r].todo \ {x}]
  <2>1. run[r].todo \ {x} \in SUBSET Target
    BY RunTyped
  <2>2. /\ row \in RunRow /\ row.pc = run[r].pc /\ row.todo = run[r].todo \ {x}
        /\ row.write = run[r].write /\ row.new = run[r].new
    BY <2>1, RunTyped DEF RunRow
  <2>3. run' = [run EXCEPT ![r] = row]
    BY <1>1, <1>3
  <2> HIDE DEF row
  <2> QED
    BY <1>2, <2>2, <2>3, OneRow DEF Pick
<1>4. CASE ~TooManyFailures(x)
  <2> DEFINE pc == IF state[x].rows = 0 THEN "insert" ELSE "fetch"
             row == AtTarget(run[r], pc, x, state[x])
  <2>1. run' = [run EXCEPT ![r] = row]
    BY <1>1, <1>4 DEF AtTarget
  <2>2. state[x].failures < MaxFailures
    BY <1>2, <1>4 DEF TooManyFailures, SyncState
  <2> HIDE DEF row
  <2>3. /\ row \in RunRow /\ row.pc = pc /\ row.at = x /\ row.seen = state[x]
        /\ row.cursor = state[x].cursor /\ row.todo = run[r].todo
        /\ row.write = run[r].write /\ row.new = run[r].new
    BY <1>2, RunTyped, AtTargetRow DEF row
  <2>4. OnlyRun(r) /\ run'[r] = row /\ run[r].pc = "pick"
    BY <2>1, <2>3, OneRow DEF Pick
  <2> QED
    BY <1>2, <2>2, <2>3, <2>4
<1> QED
  BY <1>3, <1>4

LEMMA InsertStep ==
  ASSUME Typed, NEW r \in Run, InsertState(r)
  PROVE  /\ OnlyRun(r) /\ run[r].pc = "insert" /\ run'[r].pc = "fetch"
         /\ run'[r].write = [run[r].write EXCEPT ![run[r].at] = [run[r].write[run[r].at] EXCEPT !.insert = TRUE]]
         /\ run'[r].todo = run[r].todo /\ run'[r].at = run[r].at /\ run'[r].seen = run[r].seen
         /\ run'[r].cursor = run[r].cursor /\ run'[r].new = run[r].new
<1> DEFINE w == [run[r].write[run[r].at] EXCEPT !.insert = TRUE]
           row == [WithWrite(run[r], run[r].at, w) EXCEPT !.pc = "fetch"]
<1>1. w \in Write
  <2>1. run[r].write[run[r].at] \in Write
    BY RunTyped
  <2> QED
    BY <2>1 DEF Write
<1>2. run' = [run EXCEPT ![r] = row]
  BY RunTyped DEF InsertState, WithWrite, RunRow, Typed, SyncTypeOK
<1> HIDE DEF w, row
<1>3. WithWrite(run[r], run[r].at, w) \in RunRow
  BY <1>1, RunTyped, WithWriteRow
<1>4. /\ row \in RunRow /\ row.pc = "fetch"
      /\ row.write = WithWrite(run[r], run[r].at, w).write
      /\ row.todo = WithWrite(run[r], run[r].at, w).todo
      /\ row.at = WithWrite(run[r], run[r].at, w).at
      /\ row.seen = WithWrite(run[r], run[r].at, w).seen
      /\ row.cursor = WithWrite(run[r], run[r].at, w).cursor
      /\ row.new = WithWrite(run[r], run[r].at, w).new
  BY <1>3 DEF row, RunRow
<1>5. OnlyRun(r) /\ run'[r] = row /\ run[r].pc = "insert"
  BY <1>2, <1>4, OneRow DEF InsertState
<1> QED
  BY <1>1, <1>4, <1>5, RunTyped, WithWriteRow DEF w

LEMMA FetchStep ==
  ASSUME Typed, NEW r \in Run, Fetch(r)
  PROVE  LET p == PageAsked(run[r].seen.since, run[r].cursor)
             t == ListedAfter(run[r].seen.since) + p
         IN
         /\ OnlyRun(r) /\ run[r].pc = "fetch" /\ run'[r].pc = IF t <= Len(born) THEN "store" ELSE "flush"
         /\ p \in Page /\ ListedAfter(run[r].seen.since) \in Time
         /\ run'[r].cursor = p /\ run'[r].page = IF t <= Len(born) THEN t ELSE 0
         /\ (run'[r].more <=> t < Len(born)) /\ run'[r].upTo = Len(born)
         /\ run'[r].todo = run[r].todo /\ run'[r].at = run[r].at /\ run'[r].seen = run[r].seen
         /\ run'[r].write = run[r].write /\ run'[r].new = run[r].new
<1> DEFINE p == PageAsked(run[r].seen.since, run[r].cursor)
           t == ListedAfter(run[r].seen.since) + p
           row == WithPage(run[r], p, t, Len(born))
<1>1. p \in Page /\ ListedAfter(run[r].seen.since) \in Time
  BY RunTyped, PageTyped DEF SyncState
<1>2. t \in Nat \ {0}
  BY <1>1 DEF Time, Page
<1>3. run' = [run EXCEPT ![r] = row]
  BY DEF Fetch, WithPage
<1>4. run[r].pc = "fetch" /\ UNCHANGED <<born, linked, state, stored>>
  BY DEF Fetch
<1> HIDE DEF row, p, t
<1>5. /\ row \in RunRow
      /\ row.pc = IF t <= Len(born) THEN "store" ELSE "flush"
      /\ row.cursor = p /\ row.page = IF t <= Len(born) THEN t ELSE 0
      /\ (row.more <=> t < Len(born)) /\ row.upTo = Len(born)
      /\ row.todo = run[r].todo /\ row.at = run[r].at /\ row.seen = run[r].seen
      /\ row.write = run[r].write /\ row.new = run[r].new
  BY <1>1, <1>2, RunTyped, WithPageRow DEF row
<1>6. OnlyRun(r) /\ run'[r] = row
  BY <1>3, <1>4, <1>5, OneRow
<1> QED
  BY <1>1, <1>4, <1>5, <1>6 DEF p, t

LEMMA StoreStep ==
  ASSUME Typed, NEW r \in Run, StorePage(r)
  PROVE  /\ OnlyRun(r) /\ run[r].pc = "store" /\ run'[r].pc = "flush" /\ run'[r].new = Insert(r)
         /\ run'[r].todo = run[r].todo /\ run'[r].at = run[r].at /\ run'[r].seen = run[r].seen
         /\ run'[r].cursor = run[r].cursor /\ run'[r].more = run[r].more
         /\ run'[r].upTo = run[r].upTo /\ run'[r].write = run[r].write
<1> DEFINE row == WithNew(run[r], Insert(r))
<1>1. Insert(r) \in [1 .. MaxTx -> Target \cup {Keep}]
  BY RunTyped DEF Insert
<1>2. run' = [run EXCEPT ![r] = row]
  BY DEF StorePage, WithNew
<1> HIDE DEF row
<1>3. /\ row \in RunRow /\ row.pc = "flush" /\ row.new = Insert(r)
      /\ row.todo = run[r].todo /\ row.at = run[r].at /\ row.seen = run[r].seen
      /\ row.cursor = run[r].cursor /\ row.more = run[r].more
      /\ row.upTo = run[r].upTo /\ row.write = run[r].write
  BY <1>1, RunTyped, WithNewRow DEF row
<1> QED
  BY <1>2, <1>3, OneRow DEF StorePage

\* After a page that is not the last.
LEMMA PageStep ==
  ASSUME Typed, NEW r \in Run, FlushPage(r), run[r].more
  PROVE  /\ OnlyRun(r) /\ run[r].pc = "flush" /\ run'[r].pc = "fetch"
         /\ run'[r].cursor = run[r].cursor + 1
         /\ run'[r].write = [run[r].write EXCEPT ![run[r].at] = Flushed(r)]
         /\ run'[r].todo = run[r].todo /\ run'[r].at = run[r].at /\ run'[r].seen = run[r].seen
         /\ run'[r].new = run[r].new
<1> DEFINE paged == AtPage(run[r], run[r].cursor + 1)
           row == WithWrite(paged, run[r].at, Flushed(r))
<1>1. run' = [run EXCEPT ![r] = row]
  BY DEF FlushPage, WithWrite, AtPage
<1> HIDE DEF paged, row
<1>2. run[r].cursor + 1 \in Page
  BY RunTyped DEF FlushPage, Typed, MorePages, Page
<1>3. /\ paged \in RunRow /\ paged.pc = "fetch" /\ paged.cursor = run[r].cursor + 1
      /\ paged.todo = run[r].todo /\ paged.at = run[r].at /\ paged.seen = run[r].seen
      /\ paged.write = run[r].write /\ paged.new = run[r].new
  BY <1>2, RunTyped, AtPageRow DEF paged
<1>4. Flushed(r) \in Write
  BY FlushTyped DEF FlushPage
<1>5. /\ row \in RunRow /\ row.write = [paged.write EXCEPT ![run[r].at] = Flushed(r)]
      /\ row.pc = paged.pc /\ row.todo = paged.todo /\ row.at = paged.at /\ row.seen = paged.seen
      /\ row.cursor = paged.cursor /\ row.new = paged.new
  BY <1>3, <1>4, RunTyped, WithWriteRow DEF row
<1>6. OnlyRun(r) /\ run'[r] = row /\ run[r].pc = "flush"
  BY <1>1, <1>5, OneRow DEF FlushPage
<1> QED
  BY <1>3, <1>5, <1>6

\* r leaves its target with w written to it.
Leaves(r, w) ==
  /\ OnlyRun(r) /\ run'[r].pc = "pick" /\ run'[r].todo = run[r].todo \ {run[r].at}
  /\ run'[r].write = [run[r].write EXCEPT ![run[r].at] = w] /\ run'[r].new = run[r].new

LEMMA LeaveStep ==
  ASSUME Typed, NEW r \in Run, NEW w \in Write, UNCHANGED <<born, linked, state, stored>>,
         run' = [run EXCEPT ![r] = WithWrite(NextTarget(r), run[r].at, w)]
  PROVE  Leaves(r, w)
<1> DEFINE row == WithWrite(NextTarget(r), run[r].at, w)
<1>1. run' = [run EXCEPT ![r] = row]
  OBVIOUS
<1> HIDE DEF row
<1>2. /\ row \in RunRow /\ row.write = [NextTarget(r).write EXCEPT ![run[r].at] = w]
      /\ row.pc = NextTarget(r).pc /\ row.todo = NextTarget(r).todo /\ row.new = NextTarget(r).new
  BY NextTargetRow, RunTyped, WithWriteRow DEF row
<1>3. OnlyRun(r) /\ run'[r] = row
  BY <1>1, <1>2, OneRow
<1> QED
  BY <1>2, <1>3, NextTargetRow DEF Leaves

LEMMA LastPageStep ==
  ASSUME Typed, NEW r \in Run, FlushPage(r), ~run[r].more
  PROVE  Leaves(r, Flushed(r)) /\ run[r].pc = "flush"
<1>1. Flushed(r) \in Write
  BY FlushTyped DEF FlushPage
<1>2. run' = [run EXCEPT ![r] = WithWrite(NextTarget(r), run[r].at, Flushed(r))]
  BY DEF FlushPage, WithWrite
<1> QED
  BY <1>1, <1>2, LeaveStep DEF FlushPage

FailedWrite(r) == [run[r].write[run[r].at] EXCEPT !.failures = run[r].seen.failures + 1]

LEMMA FailStep ==
  ASSUME Typed, NEW r \in Run, ProviderFails(r)
  PROVE  Leaves(r, FailedWrite(r)) /\ run[r].pc = "fetch"
<1>1. run[r].seen.failures + 1 \in 0 .. MaxFailures
  BY RunTyped DEF ProviderFails, Typed, FewFailures, Visiting
<1>2. FailedWrite(r) \in Write
  BY <1>1, RunTyped DEF FailedWrite, Write
<1>3. run' = [run EXCEPT ![r] = WithWrite(NextTarget(r), run[r].at, FailedWrite(r))]
  <2>1. run' = [run EXCEPT ![r] = [NextTarget(r) EXCEPT !.write[run[r].at].failures
                                                          = run[r].seen.failures + 1]]
    BY DEF ProviderFails
  <2>2. [NextTarget(r) EXCEPT !.write[run[r].at].failures = run[r].seen.failures + 1]
          = WithWrite(NextTarget(r), run[r].at, FailedWrite(r))
    BY DEF NextTarget, NoRun, WithWrite, FailedWrite
  <2> QED
    BY <2>1, <2>2
<1> QED
  BY <1>2, <1>3, LeaveStep DEF ProviderFails

\* A run ends, whatever ends it.
LEMMA EndStep ==
  ASSUME Typed, NEW r \in Run, Raise(r) \/ Deadlocked(r) \/ Crash(r)
  PROVE  OnlyRun(r) /\ run'[r] = NoRun
BY NoRunTyped, OneRow DEF Raise, Deadlocked, Crash, Rollback

LEMMA RowTyped ==
  ASSUME Typed, NEW r \in Run, OnlyRun(r),
         run'[r].pc \in Visiting => run'[r].seen.failures < MaxFailures,
         run'[r].pc \in {"store", "flush"} /\ run'[r].more => run'[r].cursor < MaxTx
  PROVE  Typed'
BY DEF Typed, SyncTypeOK, FewFailures, MorePages, OnlyRun

LEMMA CommitStep ==
  ASSUME Typed, NEW r \in Run, Commit(r)
  PROVE  /\ Typed' /\ run[r].pc = "pick" /\ run[r].todo = {} /\ run'[r] = NoRun
         /\ \A s \in Run \ {r} : run'[s] = run[s]
         /\ \A x \in Target : state'[x] = Apply(state[x], run[r].write[x])
         /\ \A t \in 1 .. MaxTx :
              stored'[t] = IF run[r].new[t] = Keep THEN stored[t] ELSE run[r].new[t]
         /\ UNCHANGED <<born, linked>>
<1>1. \A x \in Target : Apply(state[x], run[r].write[x]) \in SyncState
  BY RunTyped, ApplyTyped DEF Typed, SyncTypeOK
<1>2. state' \in [Target -> SyncState]
  BY <1>1 DEF Commit
<1>3. stored' \in [1 .. MaxTx -> Target \cup {Keep}]
  BY RunTyped DEF Commit, Typed, SyncTypeOK
<1>4. run' \in [Run -> RunRow] /\ FewFailures' /\ MorePages'
  BY NoRunTyped DEF Commit, Typed, SyncTypeOK, FewFailures, MorePages, Visiting
<1>5. Typed'
  BY <1>2, <1>3, <1>4 DEF Commit, Typed, SyncTypeOK
<1> QED
  BY <1>5 DEF Commit, Typed, SyncTypeOK

LEMMA BirthStep ==
  ASSUME Typed, Birth
  PROVE  /\ Typed' /\ Len(born') = Len(born) + 1
         /\ \A t \in 1 .. Len(born) : born'[t] = born[t]
         /\ UNCHANGED <<linked, state, stored, run>>
<1>1. PICK a \in Account : born' = Append(born, a)
  BY DEF Birth
<1>2. born' \in Seq(Account) /\ Len(born') = Len(born) + 1 /\ \A t \in 1 .. Len(born) : born'[t] = born[t]
  BY <1>1 DEF Typed, SyncTypeOK
<1>3. Len(born') <= MaxTx
  BY <1>2 DEF Birth, Typed, SyncTypeOK
<1> QED
  BY <1>2, <1>3 DEF Birth, Typed, SyncTypeOK, FewFailures, MorePages

LEMMA TypedStep == Typed /\ [SyncNext]_syncVars => Typed'
<1> SUFFICES ASSUME Typed, [SyncNext]_syncVars PROVE Typed'
  OBVIOUS
<1>1. ASSUME NEW r \in Run, Start(r) PROVE Typed'
  BY <1>1, StartStep, RowTyped DEF Visiting
<1>2. ASSUME NEW r \in Run, Pick(r) PROVE Typed'
  <2>1. run'[r].pc \in Visiting => run'[r].seen.failures < MaxFailures
    BY <1>2, PickStep DEF Visiting
  <2> QED
    BY <1>2, <2>1, PickStep, RowTyped
<1>3. ASSUME NEW r \in Run, InsertState(r) PROVE Typed'
  <2>1. run'[r].seen.failures < MaxFailures
    BY <1>3, InsertStep DEF Typed, FewFailures, Visiting
  <2> QED
    BY <1>3, <2>1, InsertStep, RowTyped
<1>4. ASSUME NEW r \in Run, Fetch(r) PROVE Typed'
  <2>1. run'[r].seen.failures < MaxFailures
    BY <1>4, FetchStep DEF Typed, FewFailures, Visiting
  <2>2. run'[r].more => run'[r].cursor < MaxTx
    BY <1>4, FetchStep, RunTyped DEF Time, Page
  <2> QED
    BY <1>4, <2>1, <2>2, FetchStep, RowTyped
<1>5. ASSUME NEW r \in Run, StorePage(r) PROVE Typed'
  <2>1. run'[r].seen.failures < MaxFailures /\ (run'[r].more => run'[r].cursor < MaxTx)
    BY <1>5, StoreStep DEF Typed, FewFailures, MorePages, Visiting
  <2> QED
    BY <1>5, <2>1, StoreStep, RowTyped
<1>6. ASSUME NEW r \in Run, FlushPage(r) PROVE Typed'
  <2>1. CASE run[r].more
    <3>1. run'[r].seen.failures < MaxFailures
      BY <1>6, <2>1, PageStep DEF Typed, FewFailures, Visiting
    <3> QED
      BY <1>6, <2>1, <3>1, PageStep, RowTyped
  <2>2. CASE ~run[r].more
    BY <1>6, <2>2, LastPageStep, RowTyped DEF Leaves, Visiting
  <2> QED
    BY <2>1, <2>2
<1>7. ASSUME NEW r \in Run, ProviderFails(r) PROVE Typed'
  BY <1>7, FailStep, RowTyped DEF Leaves, Visiting
<1>8. ASSUME NEW r \in Run, Commit(r) PROVE Typed'
  BY <1>8, CommitStep
<1>9. ASSUME NEW r \in Run, Raise(r) \/ Deadlocked(r) \/ Crash(r) PROVE Typed'
  BY <1>9, EndStep, NoRunTyped, RowTyped DEF Visiting
<1>10. CASE Birth
  BY <1>10, BirthStep
<1>11. CASE LinkAccount
  BY <1>11 DEF LinkAccount, Typed, SyncTypeOK, FewFailures, MorePages
<1>12. CASE UNCHANGED syncVars
  BY <1>12 DEF syncVars, Typed, SyncTypeOK, FewFailures, MorePages
<1> QED
  BY <1>1, <1>2, <1>3, <1>4, <1>5, <1>6, <1>7, <1>8, <1>9, <1>10, <1>11, <1>12
     DEF SyncNext, Work

\* SyncTypeOK holds in every reachable state: the fields of a run, a page number among them,
\* stay in their ranges, and failures at or below their limit.
THEOREM SyncTypeCorrect == SyncSpec => []SyncTypeOK
<1>1. Typed /\ [SyncNext]_syncVars => Typed'
  BY TypedStep
<1>2. Typed => SyncTypeOK
  BY DEF Typed
<1> QED
  BY TypedInitial, <1>1, <1>2, PTL DEF SyncSpec

-----------------------------------------------------------------------------
(* One state row, one writer *)

Working == {"fetch", "store", "flush"}

\* What a run has written to an account it is at, or has yet to visit.
RunWrites(row) ==
  /\ row.pc = "idle" => row = NoRun
  /\ row.pc \in Visiting => row.at \in row.todo
  /\ row.pc = "insert" => row.write[row.at] = NoWrite
  /\ row.pc \in Working => row.write[row.at].since = Keep /\ row.write[row.at].failures = Keep
  /\ \A x \in row.todo : row.pc = "pick" \/ x # row.at => row.write[x] = NoWrite

Writes(row, a) == row.write[a] # NoWrite \/ (row.pc \in Working /\ row.at = a)

\* An inserted row is the first, and nobody works on a row that is not there yet.
AccountRows(a) ==
  /\ state[a].rows <= 1
  /\ \A r \in Run :
       IF run[r].write[a].insert
       THEN state[a].rows = 0 /\ \A s \in Run \ {r} : ~run[s].write[a].insert
       ELSE Writes(run[r], a) => state[a].rows = 1
  /\ \A r, s \in Run : run[r].write[a] # NoWrite /\ run[s].write[a] # NoWrite => r = s

Exclusive == Typed /\ (\A r \in Run : RunWrites(run[r])) /\ \A a \in Account : AccountRows(a)

LEMMA NoWriteSets == ~NoWrite.insert /\ NoWrite.since = Keep /\ NoWrite.cursor = Keep /\ NoWrite.failures = Keep
BY DEF NoWrite

LEMMA NoRunWrites == RunWrites(NoRun) /\ \A a \in Account : NoRun.write[a] = NoWrite /\ ~Writes(NoRun, a)
BY DEF RunWrites, Writes, NoRun, NoWrite, Visiting, Working, Target

LEMMA ExclusiveInitial == SyncInit => Exclusive
<1> SUFFICES ASSUME SyncInit PROVE Exclusive
  OBVIOUS
<1>1. \A r \in Run : run[r] = NoRun
  BY DEF SyncInit
<1>2. \A a \in Account : state[a].rows = 0
  BY DEF SyncInit, NoState, Target
<1>3. ~NoWrite.insert
  BY DEF NoWrite
<1> QED
  BY <1>1, <1>2, <1>3, NoRunWrites, TypedInitial DEF Exclusive, AccountRows

\* A step of a run: what it comes to write, it may write.
LEMMA RowExclusive ==
  ASSUME Exclusive, Typed', NEW r \in Run, OnlyRun(r), RunWrites(run'[r]),
         \A a \in Account :
           /\ run'[r].write[a].insert =>
                \/ run[r].write[a].insert
                \/ state[a].rows = 0 /\ \A s \in Others(r) : ~run[s].write[a].insert
           /\ Writes(run'[r], a) /\ ~run'[r].write[a].insert => state[a].rows = 1
           /\ run'[r].write[a] # NoWrite =>
                run[r].write[a] # NoWrite \/ \A s \in Others(r) : run[s].write[a] = NoWrite
  PROVE  Exclusive'
<1>1. \A s \in Run \ {r} : run'[s] = run[s]
  BY DEF OnlyRun
<1>2. \A s \in Run : RunWrites(run'[s])
  BY <1>1 DEF Exclusive
<1>3. ASSUME NEW a \in Account PROVE AccountRows(a)'
  <2>1. AccountRows(a)
    BY DEF Exclusive
  <2>2. ASSUME NEW s \in Run
        PROVE  IF run'[s].write[a].insert
               THEN state[a].rows = 0 /\ \A q \in Run \ {s} : ~run'[q].write[a].insert
               ELSE Writes(run'[s], a) => state[a].rows = 1
    <3>1. CASE s = r
      BY <1>1, <2>1, <3>1 DEF AccountRows, Others
    <3>2. CASE s # r
      BY <1>1, <2>1, <3>2 DEF AccountRows, Others
    <3> QED
      BY <3>1, <3>2
  <2>3. \A s, q \in Run : run'[s].write[a] # NoWrite /\ run'[q].write[a] # NoWrite => s = q
    BY <1>1, <2>1 DEF AccountRows, Others
  <2> QED
    BY <2>1, <2>2, <2>3 DEF AccountRows, Writes, OnlyRun
<1> QED
  BY <1>2, <1>3 DEF Exclusive

\* What a page's flush leaves of the run's write.
LEMMA FlushKeeps ==
  ASSUME Exclusive, NEW r \in Run, run[r].pc = "flush"
  PROVE  /\ Flushed(r).insert <=> run[r].write[run[r].at].insert
         /\ run[r].more => Flushed(r).since = Keep /\ Flushed(r).failures = Keep
<1>1. run[r].write[run[r].at] \in Write
  BY RunTyped DEF Exclusive
<1>2. run[r].write[run[r].at].since = Keep /\ run[r].write[run[r].at].failures = Keep
  BY DEF Exclusive, RunWrites, Working
<1> DEFINE paged == IF CursorAfter(r) = Column(run[r].write[run[r].at].cursor, run[r].seen.cursor)
                    THEN run[r].write[run[r].at]
                    ELSE [run[r].write[run[r].at] EXCEPT !.cursor = CursorAfter(r),
                            !.cursorSince = IF run[r].seen.cursor = 0 THEN run[r].seen.since
                                            ELSE run[r].seen.cursorSince]
<1>3. Flushed(r) = IF run[r].more THEN paged
                   ELSE [paged EXCEPT !.since = Len(born), !.failures = SetIf(0, run[r].seen.failures)]
  BY DEF Flushed
<1>4. /\ paged.insert = run[r].write[run[r].at].insert
      /\ paged.since = Keep /\ paged.failures = Keep /\ "insert" \in DOMAIN paged
  BY <1>1, <1>2 DEF Write
<1>5. [paged EXCEPT !.since = Len(born), !.failures = SetIf(0, run[r].seen.failures)].insert = paged.insert
  BY <1>4
<1> QED
  BY <1>3, <1>4, <1>5

LEMMA InsertedWrite == \A w \in Write : w.insert => w # NoWrite
BY DEF NoWrite

\* The facts of one run that a step starts from.
LEMMA RunExclusive ==
  ASSUME Exclusive, NEW r \in Run
  PROVE  /\ Typed /\ RunWrites(run[r])
         /\ \A a \in Account :
              /\ run[r].write[a] \in Write
              /\ Writes(run[r], a) /\ ~run[r].write[a].insert => state[a].rows = 1
              /\ state[a].rows \in {0, 1}
<1>1. Typed /\ RunWrites(run[r]) /\ \A a \in Account : AccountRows(a)
  BY DEF Exclusive
<1>2. \A a \in Account : run[r].write[a] \in Write /\ state[a].rows \in Nat
  BY <1>1, RunTyped DEF Typed, SyncTypeOK, SyncState, Target
<1> QED
  BY <1>1, <1>2 DEF AccountRows

\* A run that leaves its target with w written to it.
LEMMA LeaveExclusive ==
  ASSUME Exclusive, Typed', NEW r \in Run, NEW w, Leaves(r, w), run[r].pc \in Working,
         w.insert <=> run[r].write[run[r].at].insert,
         w # run[r].write[run[r].at] => RowFree(r, run[r].at)
  PROVE  Exclusive'
<1>1. /\ Typed /\ RunWrites(run[r]) /\ OnlyRun(r)
      /\ run[r].write \in [Target -> Write] /\ run[r].todo \subseteq Target
  BY RunExclusive, RunTyped DEF Leaves
<1>2. /\ run'[r].write[run[r].at] = w
      /\ \A x \in Target \ {run[r].at} : run'[r].write[x] = run[r].write[x]
  BY <1>1, RunTyped DEF Leaves
<1>3. RunWrites(run'[r])
  BY <1>1, <1>2 DEF RunWrites, Leaves, Visiting, Working
<1>4. ASSUME NEW a \in Account
      PROVE  /\ run'[r].write[a].insert => run[r].write[a].insert
             /\ Writes(run'[r], a) /\ ~run'[r].write[a].insert => state[a].rows = 1
             /\ run'[r].write[a] # NoWrite =>
                  run[r].write[a] # NoWrite \/ \A s \in Others(r) : run[s].write[a] = NoWrite
  <2>1. a \in Target
    BY DEF Target
  <2>2. CASE a = run[r].at
    BY <1>2, <2>2, RunExclusive, InsertedWrite DEF Writes, RowFree
  <2>3. CASE a # run[r].at
    BY <1>2, <2>1, <2>3, RunExclusive DEF Writes, Leaves, Working
  <2> QED
    BY <2>2, <2>3
<1> QED
  BY <1>1, <1>3, <1>4, RowExclusive

LEMMA ExclusiveStep == Exclusive /\ [SyncNext]_syncVars => Exclusive'
<1> SUFFICES ASSUME Exclusive, [SyncNext]_syncVars PROVE Exclusive'
  OBVIOUS
<1>0. Typed /\ Typed'
  BY TypedStep DEF Exclusive
<1>1. ASSUME NEW r \in Run, Start(r) PROVE Exclusive'
  <2>1. \A x \in Target : run[r].write[x] = NoWrite
    BY <1>0, <1>1, StartStep, RunExclusive DEF RunWrites, NoRun
  <2>2. RunWrites(run'[r]) /\ \A a \in Account : ~Writes(run'[r], a)
    BY <1>0, <1>1, <2>1, StartStep DEF RunWrites, Writes, Visiting, Working, Target
  <2> QED
    BY <1>0, <1>1, <2>1, <2>2, StartStep, RowExclusive DEF Writes, Target, NoWrite
<1>2. ASSUME NEW r \in Run, Pick(r) PROVE Exclusive'
  <2>1. RunWrites(run'[r])
    <3>1. /\ run[r].pc = "pick" /\ run'[r].write = run[r].write
          /\ \A x \in run[r].todo : run[r].write[x] = NoWrite
      BY <1>0, <1>2, PickStep, RunExclusive DEF RunWrites
    <3>2. PICK x \in run[r].todo :
            \/ run'[r].pc = "pick" /\ run'[r].todo = run[r].todo \ {x}
            \/ run'[r].pc \in {"insert", "fetch"} /\ run'[r].todo = run[r].todo /\ run'[r].at = x
      BY <1>0, <1>2, PickStep
    <3> QED
      BY <3>1, <3>2, NoWriteSets DEF RunWrites, Visiting, Working
  <2>2. \A a \in Account : Writes(run'[r], a) /\ ~run'[r].write[a].insert => state[a].rows = 1
    BY <1>0, <1>2, PickStep, RunExclusive DEF Writes, Working
  <2> QED
    BY <1>0, <1>2, <2>1, <2>2, PickStep, RowExclusive
<1>3. ASSUME NEW r \in Run, InsertState(r) PROVE Exclusive'
  <2>1. /\ OnlyRun(r) /\ run[r].write \in [Target -> Write] /\ run[r].at \in Target
        /\ run[r].write[run[r].at] = NoWrite /\ run[r].pc = "insert" /\ run'[r].pc = "fetch"
        /\ run'[r].todo = run[r].todo /\ run'[r].at = run[r].at /\ run[r].todo \subseteq Target
    BY <1>0, <1>3, InsertStep, RunTyped, RunExclusive DEF RunWrites
  <2>2. /\ run'[r].write[run[r].at] = [NoWrite EXCEPT !.insert = TRUE]
        /\ \A x \in Target \ {run[r].at} : run'[r].write[x] = run[r].write[x]
    BY <1>0, <1>3, <2>1, InsertStep
  <2>3. [NoWrite EXCEPT !.insert = TRUE].insert /\ [NoWrite EXCEPT !.insert = TRUE].since = Keep
        /\ [NoWrite EXCEPT !.insert = TRUE].failures = Keep
    BY DEF NoWrite
  <2>4. RunWrites(run'[r])
    BY <2>1, <2>2, <2>3, RunExclusive DEF RunWrites, Visiting, Working
  <2>5. ASSUME NEW a \in Account
        PROVE  /\ run'[r].write[a].insert =>
                    \/ run[r].write[a].insert
                    \/ state[a].rows = 0 /\ \A s \in Others(r) : ~run[s].write[a].insert
               /\ Writes(run'[r], a) /\ ~run'[r].write[a].insert => state[a].rows = 1
               /\ run'[r].write[a] # NoWrite =>
                    run[r].write[a] # NoWrite \/ \A s \in Others(r) : run[s].write[a] = NoWrite
    <3>1. a \in Target /\ a # None /\ AccountRows(a)
      BY DEF Target, Exclusive
    <3>2. CASE a = run[r].at
      <4>1. state[a].rows = 0 /\ \A s \in Others(r) : ~run[s].write[a].insert
        BY <1>3, <3>1, <3>2 DEF InsertState
      <4>2. \A s \in Others(r) : run[s].write[a] = NoWrite
        BY <3>1, <4>1 DEF AccountRows, Writes, Others
      <4> QED
        BY <2>2, <2>3, <3>2, <4>1, <4>2
    <3>3. CASE a # run[r].at
      BY <2>1, <2>2, <3>1, <3>3, RunExclusive DEF Writes, Working
    <3> QED
      BY <3>2, <3>3
  <2> QED
    BY <1>0, <2>1, <2>4, <2>5, RowExclusive
<1>4. ASSUME NEW r \in Run, Fetch(r) \/ StorePage(r) PROVE Exclusive'
  <2>1. /\ OnlyRun(r) /\ run[r].pc \in Working /\ run'[r].pc \in Working
        /\ run'[r].todo = run[r].todo /\ run'[r].at = run[r].at /\ run'[r].write = run[r].write
    BY <1>0, <1>4, FetchStep, StoreStep DEF Working
  <2>2. RunWrites(run'[r])
    BY <2>1, RunExclusive DEF RunWrites, Visiting, Working
  <2>3. \A a \in Account : Writes(run'[r], a) /\ ~run'[r].write[a].insert => state[a].rows = 1
    BY <2>1, RunExclusive DEF Writes
  <2> QED
    BY <1>0, <2>1, <2>2, <2>3, RowExclusive
<1>5. ASSUME NEW r \in Run, FlushPage(r) PROVE Exclusive'
  <2>0. /\ Flushed(r) # run[r].write[run[r].at] => RowFree(r, run[r].at)
        /\ run[r].pc = "flush" /\ run[r].pc \in Working
    BY <1>5 DEF FlushPage, FlushFree, Working
  <2>1. CASE run[r].more
    <3>1. /\ OnlyRun(r) /\ run[r].write \in [Target -> Write] /\ run[r].at \in Target
          /\ run'[r].pc = "fetch" /\ run'[r].todo = run[r].todo /\ run'[r].at = run[r].at
          /\ run'[r].write = [run[r].write EXCEPT ![run[r].at] = Flushed(r)]
      BY <1>0, <1>5, <2>1, PageStep, RunTyped
    <3>2. /\ run'[r].write[run[r].at] = Flushed(r)
          /\ \A x \in Target \ {run[r].at} : run'[r].write[x] = run[r].write[x]
      BY <3>1
    <3>3. RunWrites(run'[r])
      BY <1>0, <2>0, <2>1, <3>1, <3>2, FlushKeeps, RunTyped, RunExclusive
         DEF RunWrites, Visiting, Working
    <3>4. ASSUME NEW a \in Account
          PROVE  /\ run'[r].write[a].insert => run[r].write[a].insert
                 /\ Writes(run'[r], a) /\ ~run'[r].write[a].insert => state[a].rows = 1
                 /\ run'[r].write[a] # NoWrite =>
                      run[r].write[a] # NoWrite \/ \A s \in Others(r) : run[s].write[a] = NoWrite
      <4>1. a \in Target
        BY DEF Target
      <4>2. CASE a = run[r].at
        BY <2>0, <3>2, <4>2, FlushKeeps, RunExclusive, InsertedWrite DEF Writes, RowFree
      <4>3. CASE a # run[r].at
        BY <3>1, <3>2, <4>1, <4>3, RunExclusive DEF Writes
      <4> QED
        BY <4>2, <4>3
    <3> QED
      BY <1>0, <3>1, <3>3, <3>4, RowExclusive
  <2>2. CASE ~run[r].more
    BY <1>0, <1>5, <2>0, <2>2, LastPageStep, FlushKeeps, LeaveExclusive
  <2> QED
    BY <2>1, <2>2
<1>6. ASSUME NEW r \in Run, ProviderFails(r) PROVE Exclusive'
  <2>1. RowFree(r, run[r].at) /\ run[r].pc \in Working
    BY <1>6 DEF ProviderFails, Working
  <2>2. FailedWrite(r).insert <=> run[r].write[run[r].at].insert
    <3>1. run[r].write[run[r].at] \in Write
      BY <1>0, RunTyped
    <3> QED
      BY <3>1 DEF FailedWrite, Write
  <2> QED
    BY <1>0, <1>6, <2>1, <2>2, FailStep, LeaveExclusive
<1>7. ASSUME NEW r \in Run, Commit(r) PROVE Exclusive'
  <2>1. \A s \in Run : RunWrites(run'[s])
    BY <1>0, <1>7, CommitStep, NoRunWrites DEF Exclusive
  <2>2. ASSUME NEW a \in Account PROVE AccountRows(a)'
    <3>1. AccountRows(a) /\ state[a].rows \in {0, 1}
      BY <1>7, RunExclusive DEF Exclusive
    <3>2. state'[a].rows = state[a].rows + IF run[r].write[a].insert THEN 1 ELSE 0
      <4>1. state'[a] = Apply(state[a], run[r].write[a])
        BY <1>0, <1>7, CommitStep DEF Target
      <4> QED
        BY <4>1 DEF Apply
    <3>3. ~run'[r].write[a].insert /\ run'[r].write[a] = NoWrite /\ ~Writes(run'[r], a)
      BY <1>0, <1>7, CommitStep, NoRunWrites, NoWriteSets
    <3>4. \A s \in Run \ {r} : run'[s] = run[s]
      BY <1>0, <1>7, CommitStep
    <3>5. state'[a].rows <= 1
      BY <3>1, <3>2 DEF AccountRows
    <3>6. ASSUME NEW s \in Run
          PROVE  IF run'[s].write[a].insert
                 THEN state'[a].rows = 0 /\ \A q \in Run \ {s} : ~run'[q].write[a].insert
                 ELSE Writes(run'[s], a) => state'[a].rows = 1
      <4>1. CASE s = r
        BY <3>3, <4>1
      <4>2. CASE s # r
        BY <3>1, <3>2, <3>3, <3>4, <4>2 DEF AccountRows
      <4> QED
        BY <4>1, <4>2
    <3>7. \A s, q \in Run : run'[s].write[a] # NoWrite /\ run'[q].write[a] # NoWrite => s = q
      BY <3>1, <3>3, <3>4 DEF AccountRows
    <3> QED
      BY <3>5, <3>6, <3>7 DEF AccountRows, Writes
  <2> QED
    BY <1>0, <2>1, <2>2 DEF Exclusive
<1>8. ASSUME NEW r \in Run, Raise(r) \/ Deadlocked(r) \/ Crash(r) PROVE Exclusive'
  <2>1. OnlyRun(r) /\ run'[r] = NoRun
    BY <1>0, <1>8, EndStep
  <2> QED
    BY <1>0, <2>1, NoRunWrites, NoWriteSets, RowExclusive
<1>9. CASE Birth \/ LinkAccount \/ UNCHANGED syncVars
  <2>1. UNCHANGED <<state, run>>
    BY <1>9 DEF Birth, LinkAccount, syncVars
  <2> QED
    BY <1>0, <2>1 DEF Exclusive, AccountRows, RunWrites, Writes
<1> QED
  BY <1>1, <1>2, <1>3, <1>4, <1>5, <1>6, <1>7, <1>8, <1>9 DEF SyncNext, Work

\* OneStatePerAccount: a run works on an account's state row only when it is there or the
\* run has inserted it, and nobody inserts a second one, however many runs there are at a time.
THEOREM OneStatePerAccountHolds == SyncSpec => []OneStatePerAccount
<1>1. Exclusive /\ [SyncNext]_syncVars => Exclusive'
  BY ExclusiveStep
<1>2. Exclusive => OneStatePerAccount
  BY DEF Exclusive, AccountRows, OneStatePerAccount
<1> QED
  BY ExclusiveInitial, <1>1, <1>2, PTL DEF SyncSpec

-----------------------------------------------------------------------------
(* What a page number stands for *)

Num(since) == IF since = None THEN -1 ELSE since

\* The transactions on the pages before c of the list from a start time.
Before(since, c) == {t \in 1 .. MaxTx : ListedAfter(since) < t /\ t < ListedAfter(since) + c}

Held(st, new, t) == st[t] # Keep \/ new[t] # Keep

\* The pages before c are full, and account a's transactions on them are stored, or new.
Covers(b, st, new, a, since, c) ==
  \A t \in Before(since, c) : t <= Len(b) /\ (b[t] = a => Held(st, new, t))

Nothing == [t \in 1 .. MaxTx |-> Keep]

\* A saved page number was counted from a time not after last_synced_at; if it was that time,
\* the pages before it are stored.
StateGood(b, st, a, row) ==
  /\ Num(row.since) <= Len(b)
  /\ row.cursor # 0 /\ ~Aspire =>
       Num(row.cursorSince) < Len(b) /\ Num(row.cursorSince) <= Num(row.since)
  /\ row.cursor # 0 /\ (Aspire \/ row.cursorSince = row.since) =>
       Covers(b, st, Nothing, a, row.cursorSince, row.cursor)

\* A run's write makes such a state of the state there is, old.
WriteGood(b, st, new, a, old, w) ==
  /\ w.cursor \notin {Keep, 0} =>
       /\ w.since = Keep /\ w.cursorSince # Keep
       /\ ~Aspire => Num(w.cursorSince) < Len(b) /\ Num(w.cursorSince) <= Num(old.since)
       /\ Aspire \/ w.cursorSince = old.since => Covers(b, st, new, a, w.cursorSince, w.cursor)
  /\ w.since # Keep =>
       /\ Num(old.since) <= w.since /\ w.since <= Len(b)
       /\ ~Aspire /\ old.cursor # 0 /\ w.cursor = Keep => Num(old.cursorSince) < w.since
  /\ w.cursor = Keep => w.cursorSince = Keep

\* The run skips pages: the page number it loaded was counted from another start time.
Skips(row) == ~Aspire /\ row.seen.cursor # 0 /\ row.seen.cursorSince # row.seen.since

\* The pages before the one the run is at.
Fetching(b, st, row) ==
  row.pc \in {"insert", "fetch"} /\ ~Skips(row) =>
    Covers(b, st, row.new, row.at, row.seen.since, PageAsked(row.seen.since, row.cursor))

Storing(b, st, row) ==
  row.pc = "store" =>
    /\ row.page = ListedAfter(row.seen.since) + row.cursor /\ row.cursor # 0
    /\ row.page <= row.upTo /\ row.upTo <= Len(b)
    /\ row.more <=> row.page < row.upTo
    /\ ~Skips(row) => Covers(b, st, row.new, row.at, row.seen.since, row.cursor)

\* After the last page, everything that was listed.
Flushing(b, st, row) ==
  row.pc = "flush" =>
    /\ row.upTo <= Len(b) /\ row.cursor # 0
    /\ row.more =>
         /\ ListedAfter(row.seen.since) + row.cursor < row.upTo
         /\ ~Skips(row) => Covers(b, st, row.new, row.at, row.seen.since, row.cursor + 1)
    /\ ~row.more /\ ~Skips(row) =>
         \A t \in 1 .. row.upTo :
           ListedAfter(row.seen.since) < t /\ b[t] = row.at => Held(st, row.new, t)

VisitGood(b, st, old, row) ==
  row.pc \in Visiting /\ row.at \in Account =>
    /\ Num(row.seen.since) <= Num(old.since)
    /\ StateGood(b, st, row.at, row.seen)
    /\ Fetching(b, st, row) /\ Storing(b, st, row) /\ Flushing(b, st, row)

StatesGood == \A a \in Account : StateGood(born, stored, a, state[a])
WritesGood == \A r \in Run, a \in Account :
  WriteGood(born, stored, run[r].new, a, state[a], run[r].write[a])
VisitsGood == \A r \in Run : VisitGood(born, stored, state[run[r].at], run[r])

Counted == Exclusive /\ StatesGood /\ WritesGood /\ VisitsGood

-----------------------------------------------------------------------------
(* The provider and the table only grow *)

Grown(b, c) ==
  /\ b \in Seq(Account) /\ c \in Seq(Account) /\ Len(b) <= Len(c)
  /\ \A t \in 1 .. Len(b) : c[t] = b[t]

Kept(st, new, st2, new2) == \A t \in 1 .. MaxTx : Held(st, new, t) => Held(st2, new2, t)

LEMMA CoversGrows ==
  ASSUME NEW b, NEW b2, Grown(b, b2), NEW st, NEW new, NEW st2, NEW new2, Kept(st, new, st2, new2),
         NEW a, NEW since, NEW c, Covers(b, st, new, a, since, c)
  PROVE  Covers(b2, st2, new2, a, since, c)
BY DEF Covers, Before, Grown, Kept

LEMMA CoversNothing == \A b, st, new, a, since : since \in Time \cup {None} => Covers(b, st, new, a, since, 1)
<1> SUFFICES ASSUME NEW since \in Time \cup {None} PROVE Before(since, 1) = {}
  BY DEF Covers
<1>1. ListedAfter(since) \in Time
  BY DEF ListedAfter, Time
<1> QED
  BY <1>1 DEF Before, Time

\* Where a list begins is all that counts.
LEMMA CoversSame ==
  ASSUME NEW since, NEW other, Aspire \/ since = other,
         NEW b, NEW st, NEW new, NEW a, NEW c, Covers(b, st, new, a, since, c)
  PROVE  Covers(b, st, new, a, other, c)
BY DEF Covers, Before, ListedAfter

LEMMA StateGrows ==
  ASSUME NEW b, NEW b2, Grown(b, b2), NEW st, NEW st2, Kept(st, Nothing, st2, Nothing),
         NEW a \in Account, NEW row \in SyncState, StateGood(b, st, a, row)
  PROVE  StateGood(b2, st2, a, row)
<1>1. Num(row.since) \in Int /\ Num(row.cursorSince) \in Int /\ Len(b) \in Nat /\ Len(b2) \in Nat /\ Len(b) <= Len(b2)
  BY DEF Num, SyncState, Time, Grown
<1>2. Covers(b, st, Nothing, a, row.cursorSince, row.cursor)
        => Covers(b2, st2, Nothing, a, row.cursorSince, row.cursor)
  BY CoversGrows
<1> QED
  BY <1>1, <1>2 DEF StateGood

LEMMA WriteGrows ==
  ASSUME NEW b, NEW b2, Grown(b, b2), NEW st, NEW new, NEW st2, NEW new2, Kept(st, new, st2, new2),
         NEW a \in Account, NEW old \in SyncState, NEW w \in Write, WriteGood(b, st, new, a, old, w)
  PROVE  WriteGood(b2, st2, new2, a, old, w)
<1>1. /\ Len(b) \in Nat /\ Len(b2) \in Nat /\ Len(b) <= Len(b2)
      /\ w.cursorSince # Keep => Num(w.cursorSince) \in Int
      /\ w.since # Keep => w.since \in Int
  BY DEF Num, Write, Time, Grown
<1>2. Covers(b, st, new, a, w.cursorSince, w.cursor) => Covers(b2, st2, new2, a, w.cursorSince, w.cursor)
  BY CoversGrows
<1> QED
  BY <1>1, <1>2 DEF WriteGood

LEMMA VisitGrows ==
  ASSUME NEW b, NEW b2, Grown(b, b2), NEW st, NEW st2, NEW row \in RunRow,
         Kept(st, Nothing, st2, Nothing), Kept(st, row.new, st2, row.new),
         NEW old \in SyncState, NEW old2 \in SyncState, Num(old.since) <= Num(old2.since),
         VisitGood(b, st, old, row)
  PROVE  VisitGood(b2, st2, old2, row)
<1> SUFFICES ASSUME row.pc \in Visiting, row.at \in Account PROVE VisitGood(b2, st2, old2, row)
  BY DEF VisitGood
<1>1. /\ Len(b) \in Nat /\ Len(b2) \in Nat /\ Len(b) <= Len(b2)
      /\ row.seen \in SyncState /\ row.upTo \in Nat /\ row.upTo <= MaxTx
  BY DEF RunRow, Time, Grown
<1>2. Num(row.seen.since) \in Int /\ Num(old.since) \in Int /\ Num(old2.since) \in Int
  BY <1>1 DEF Num, SyncState, Time
<1>3. Num(row.seen.since) <= Num(old2.since)
  BY <1>2 DEF VisitGood
<1>4. StateGood(b2, st2, row.at, row.seen)
  BY <1>1, StateGrows DEF VisitGood
<1>5. \A c : Covers(b, st, row.new, row.at, row.seen.since, c)
               => Covers(b2, st2, row.new, row.at, row.seen.since, c)
  BY CoversGrows
<1>6. Fetching(b2, st2, row)
  BY <1>5 DEF VisitGood, Fetching
<1>7. Storing(b2, st2, row)
  BY <1>1, <1>5 DEF VisitGood, Storing
<1>8. Flushing(b2, st2, row)
  <2>1. row.pc = "flush" => row.upTo <= Len(b)
    BY DEF VisitGood, Flushing
  <2>2. ASSUME row.pc = "flush", ~row.more, ~Skips(row), NEW t \in 1 .. row.upTo,
               ListedAfter(row.seen.since) < t, b2[t] = row.at
        PROVE  Held(st2, row.new, t)
    <3>1. t \in 1 .. Len(b) /\ t \in 1 .. MaxTx
      BY <1>1, <2>1, <2>2
    <3>2. b[t] = row.at
      BY <2>2, <3>1 DEF Grown
    <3> QED
      BY <2>2, <3>1, <3>2 DEF VisitGood, Flushing, Kept
  <2> QED
    BY <1>1, <1>5, <2>1, <2>2 DEF VisitGood, Flushing
<1> QED
  BY <1>3, <1>4, <1>6, <1>7, <1>8 DEF VisitGood

-----------------------------------------------------------------------------
(* Every step keeps the counting right *)

LEMMA NoWriteGood ==
  ASSUME NEW b, NEW st, NEW new, NEW a, NEW old
  PROVE  WriteGood(b, st, new, a, old, NoWrite)
BY DEF WriteGood, NoWrite

LEMMA CountedInitial == SyncInit => Counted
<1> SUFFICES ASSUME SyncInit PROVE Counted
  OBVIOUS
<1>1. Exclusive /\ Typed
  BY ExclusiveInitial, TypedInitial
<1>2. ASSUME NEW a \in Account PROVE StateGood(born, stored, a, state[a])
  <2>1. Len(born) = 0 /\ state[a] = NoState
    BY DEF SyncInit, Target
  <2> QED
    BY <2>1 DEF StateGood, NoState, Num
<1>3. ASSUME NEW r \in Run, NEW a \in Account
      PROVE  WriteGood(born, stored, run[r].new, a, state[a], run[r].write[a])
  BY NoRunWrites, NoWriteGood DEF SyncInit
<1>4. \A r \in Run : run[r].pc = "idle"
  BY NoRunTyped DEF SyncInit
<1> QED
  BY <1>1, <1>2, <1>3, <1>4 DEF Counted, StatesGood, WritesGood, VisitsGood, VisitGood, Visiting

\* What a step of run r has to show.
LEMMA RunCounted ==
  ASSUME Counted, Exclusive', NEW r \in Run, OnlyRun(r),
         \A a \in Account : WriteGood(born, stored, run'[r].new, a, state[a], run'[r].write[a]),
         VisitGood(born, stored, state[run'[r].at], run'[r])
  PROVE  Counted'
BY DEF Counted, OnlyRun, StatesGood, WritesGood, VisitsGood

\* A run that is not at an account has nothing to show for its visit.
LEMMA NoVisit ==
  ASSUME NEW row, row.pc \notin Visiting
  PROVE  \A b, st, old : VisitGood(b, st, old, row)
BY DEF VisitGood

LEMMA CountedTypes ==
  ASSUME Counted, NEW r \in Run
  PROVE  /\ Typed /\ Exclusive /\ born \in Seq(Account) /\ Len(born) \in Nat /\ Len(born) <= MaxTx
         /\ run[r] \in RunRow /\ run[r].seen \in SyncState /\ run[r].at \in Target
         /\ run[r].new \in [1 .. MaxTx -> Target \cup {Keep}]
         /\ run[r].cursor \in {0} \cup Page
         /\ \A a \in Account :
              /\ state[a] \in SyncState /\ run[r].write[a] \in Write
              /\ StateGood(born, stored, a, state[a])
              /\ WriteGood(born, stored, run[r].new, a, state[a], run[r].write[a])
         /\ VisitGood(born, stored, state[run[r].at], run[r])
<1>1. Typed /\ Exclusive
  BY DEF Counted, Exclusive
<1> QED
  BY <1>1, RunTyped, RunExclusive
     DEF Counted, StatesGood, WritesGood, VisitsGood, Typed, SyncTypeOK, Target

\* The numbers of times.
LEMMA NumTyped ==
  \A since \in Time \cup {None} :
    /\ Num(since) \in Int /\ ListedAfter(since) \in Nat
    /\ \A other \in Time \cup {None} : Num(since) = Num(other) => since = other
    /\ Num(since) <= ListedAfter(since) \/ Aspire
BY DEF Num, ListedAfter, Time

LEMMA PickCounted ==
  ASSUME Counted, Exclusive', NEW r \in Run, Pick(r)
  PROVE  Counted'
<1>1. Typed
  BY CountedTypes
<1>2. /\ OnlyRun(r) /\ run[r].pc = "pick" /\ run'[r].write = run[r].write /\ run'[r].new = run[r].new
  BY <1>1, PickStep
<1>3. \A a \in Account : WriteGood(born, stored, run'[r].new, a, state[a], run'[r].write[a])
  BY <1>2, CountedTypes
<1>4. VisitGood(born, stored, state[run'[r].at], run'[r])
  <2>1. PICK x \in run[r].todo :
          \/ run'[r].pc = "pick"
          \/ /\ run'[r].pc \in {"insert", "fetch"} /\ run'[r].at = x /\ run'[r].seen = state[x]
             /\ run'[r].cursor = state[x].cursor
    BY <1>1, PickStep
  <2>2. CASE run'[r].pc \in {"insert", "fetch"} /\ run'[r].at \in Account
    <3> DEFINE a == run'[r].at
               seen == state[a]
    <3>1. run'[r].seen = seen /\ run'[r].cursor = seen.cursor /\ seen \in SyncState
          /\ StateGood(born, stored, a, seen)
      BY <2>1, <2>2, CountedTypes
    <3>2. seen.since \in Time \cup {None} /\ seen.cursorSince \in Time \cup {None} /\ Num(seen.since) \in Int
      BY <3>1, NumTyped DEF SyncState
    <3>3. Kept(stored, Nothing, stored, run'[r].new) /\ Grown(born, born)
      BY CountedTypes DEF Kept, Held, Nothing, Grown
    <3>4. ASSUME ~Skips(run'[r])
          PROVE  Covers(born, stored, run'[r].new, a, seen.since, PageAsked(seen.since, seen.cursor))
      <4>1. CASE seen.cursor = 0 \/ (Aspire /\ seen.since = None)
        BY <3>2, <4>1, CoversNothing DEF PageAsked
      <4>2. CASE ~(seen.cursor = 0 \/ (Aspire /\ seen.since = None))
        <5>1. Aspire \/ seen.cursorSince = seen.since
          BY <3>1, <3>4, <4>2 DEF Skips
        <5>2. Covers(born, stored, Nothing, a, seen.cursorSince, seen.cursor)
          BY <3>1, <4>2, <5>1 DEF StateGood
        <5>3. Covers(born, stored, Nothing, a, seen.since, seen.cursor)
          BY <5>1, <5>2, CoversSame
        <5>4. Covers(born, stored, run'[r].new, a, seen.since, seen.cursor)
          BY <3>3, <5>3, CoversGrows
        <5> QED
          BY <4>2, <5>4 DEF PageAsked
      <4> QED
        BY <4>1, <4>2
    <3>5. Fetching(born, stored, run'[r])
      BY <3>1, <3>4 DEF Fetching
    <3>6. Storing(born, stored, run'[r]) /\ Flushing(born, stored, run'[r])
      BY <2>2 DEF Storing, Flushing
    <3> QED
      BY <3>1, <3>2, <3>5, <3>6 DEF VisitGood
  <2> QED
    BY <2>1, <2>2, NoVisit DEF VisitGood, Visiting
<1> QED
  BY <1>2, <1>3, <1>4, RunCounted

LEMMA InsertCounted ==
  ASSUME Counted, Exclusive', NEW r \in Run, InsertState(r)
  PROVE  Counted'
<1>1. /\ Typed /\ RunWrites(run[r]) /\ VisitGood(born, stored, state[run[r].at], run[r])
      /\ run[r].write \in [Target -> Write] /\ run[r].at \in Target
  BY CountedTypes, RunExclusive, RunTyped
<1>2. /\ OnlyRun(r) /\ run[r].pc = "insert" /\ run'[r].pc = "fetch"
      /\ run'[r].write = [run[r].write EXCEPT ![run[r].at] = [run[r].write[run[r].at] EXCEPT !.insert = TRUE]]
      /\ run'[r].at = run[r].at /\ run'[r].seen = run[r].seen
      /\ run'[r].cursor = run[r].cursor /\ run'[r].new = run[r].new
  BY <1>1, InsertStep
<1>3. ASSUME NEW a \in Account
      PROVE  WriteGood(born, stored, run'[r].new, a, state[a], run'[r].write[a])
  <2>1. a \in Target
    BY DEF Target
  <2>2. CASE a = run[r].at
    <3>1. run[r].write[a] = NoWrite
      BY <1>1, <1>2, <2>2 DEF RunWrites
    <3>2. run'[r].write[a] = [NoWrite EXCEPT !.insert = TRUE]
      BY <1>1, <1>2, <2>2, <3>1
    <3> QED
      BY <3>2 DEF WriteGood, NoWrite
  <2>3. CASE a # run[r].at
    <3>1. run'[r].write[a] = run[r].write[a]
      BY <1>1, <1>2, <2>1, <2>3
    <3> QED
      BY <1>2, <3>1, CountedTypes
  <2> QED
    BY <2>2, <2>3
<1>4. VisitGood(born, stored, state[run'[r].at], run'[r])
  BY <1>1, <1>2 DEF VisitGood, Visiting, Fetching, Storing, Flushing, Skips
<1> QED
  BY <1>2, <1>3, <1>4, RunCounted

LEMMA FetchCounted ==
  ASSUME Counted, Exclusive', NEW r \in Run, Fetch(r)
  PROVE  Counted'
<1> DEFINE since == run[r].seen.since
           p == PageAsked(since, run[r].cursor)
           t == ListedAfter(since) + p
<1>1. Typed /\ VisitGood(born, stored, state[run[r].at], run[r]) /\ Len(born) \in Nat
      /\ since \in Time \cup {None} /\ Len(born) <= MaxTx
  BY CountedTypes DEF SyncState
<1>2. /\ OnlyRun(r) /\ run[r].pc = "fetch" /\ run'[r].pc = IF t <= Len(born) THEN "store" ELSE "flush"
      /\ p \in Page /\ ListedAfter(since) \in Time
      /\ run'[r].cursor = p /\ run'[r].page = IF t <= Len(born) THEN t ELSE 0
      /\ (run'[r].more <=> t < Len(born)) /\ run'[r].upTo = Len(born)
      /\ run'[r].at = run[r].at /\ run'[r].seen = run[r].seen
      /\ run'[r].write = run[r].write /\ run'[r].new = run[r].new
  BY <1>1, FetchStep
<1>3. \A a \in Account : WriteGood(born, stored, run'[r].new, a, state[a], run'[r].write[a])
  BY <1>2, CountedTypes
<1>4. ASSUME run[r].at \in Account PROVE VisitGood(born, stored, state[run'[r].at], run'[r])
  <2> HIDE DEF p
  <2>1. /\ Num(since) <= Num(state[run[r].at].since)
        /\ StateGood(born, stored, run[r].at, run[r].seen)
        /\ ~Skips(run[r]) => Covers(born, stored, run[r].new, run[r].at, since, p)
    BY <1>1, <1>2, <1>4 DEF VisitGood, Visiting, Fetching, p
  <2>2. Skips(run'[r]) <=> Skips(run[r])
    BY <1>2 DEF Skips
  <2>3. CASE t <= Len(born)
    <3>1. run'[r].pc = "store" /\ run'[r].page = t
      BY <1>2, <2>3
    <3>2. Storing(born, stored, run'[r])
      BY <1>1, <1>2, <2>1, <2>2, <2>3, <3>1 DEF Storing, Time, Page
    <3>3. Fetching(born, stored, run'[r]) /\ Flushing(born, stored, run'[r])
      BY <3>1 DEF Fetching, Flushing
    <3> QED
      BY <1>2, <2>1, <3>2, <3>3 DEF VisitGood
  <2>4. CASE ~(t <= Len(born))
    <3>1. run'[r].pc = "flush" /\ ~run'[r].more /\ Len(born) < t
      BY <1>1, <1>2, <2>4 DEF Time, Page
    <3>2. ASSUME ~Skips(run[r]), NEW u \in 1 .. Len(born), ListedAfter(since) < u, born[u] = run[r].at
          PROVE  Held(stored, run[r].new, u)
      <4>1. u \in Before(since, p)
        BY <1>1, <1>2, <3>1, <3>2 DEF Before, Time, Page
      <4> QED
        BY <2>1, <3>2, <4>1 DEF Covers
    <3>3. Flushing(born, stored, run'[r])
      BY <1>1, <1>2, <2>2, <3>1, <3>2 DEF Flushing, Page
    <3>4. Fetching(born, stored, run'[r]) /\ Storing(born, stored, run'[r])
      BY <3>1 DEF Fetching, Storing
    <3> QED
      BY <1>2, <2>1, <3>3, <3>4 DEF VisitGood
  <2> QED
    BY <2>3, <2>4
<1>5. VisitGood(born, stored, state[run'[r].at], run'[r])
  BY <1>2, <1>4 DEF VisitGood
<1> QED
  BY <1>2, <1>3, <1>5, RunCounted

LEMMA StoreCounted ==
  ASSUME Counted, Exclusive', NEW r \in Run, StorePage(r)
  PROVE  Counted'
<1> DEFINE since == run[r].seen.since
           base == ListedAfter(since)
           c == run[r].cursor
           t == run[r].page
<1>1. /\ Typed /\ VisitGood(born, stored, state[run[r].at], run[r]) /\ born \in Seq(Account)
      /\ Len(born) \in Nat /\ Len(born) <= MaxTx /\ run[r].at \in Target
      /\ run[r].new \in [1 .. MaxTx -> Target \cup {Keep}]
      /\ base \in Nat /\ c \in Nat /\ t \in Nat /\ run[r].upTo \in Nat
  <2>1. run[r].page \in Nat /\ run[r].upTo \in Nat /\ run[r].cursor \in Nat /\ since \in Time \cup {None}
    BY CountedTypes DEF RunRow, SyncState, Time, Page
  <2> QED
    BY <2>1, CountedTypes, NumTyped
<1>2. /\ OnlyRun(r) /\ run[r].pc = "store" /\ run'[r].pc = "flush" /\ run'[r].new = Insert(r)
      /\ run'[r].at = run[r].at /\ run'[r].seen = run[r].seen
      /\ run'[r].cursor = c /\ run'[r].more = run[r].more
      /\ run'[r].upTo = run[r].upTo /\ run'[r].write = run[r].write
  BY <1>1, StoreStep
<1>3. /\ \A u \in 1 .. MaxTx : Held(stored, run[r].new, u) => Held(stored, Insert(r), u)
      /\ t \in 1 .. MaxTx /\ Taken(run[r].at, t) => Held(stored, Insert(r), t)
  BY <1>1 DEF Insert, Held, Target
<1>4. Kept(stored, run[r].new, stored, Insert(r)) /\ Grown(born, born)
  BY <1>1, <1>3 DEF Kept, Grown
<1>5. \A a \in Account : WriteGood(born, stored, run'[r].new, a, state[a], run'[r].write[a])
  BY <1>2, <1>4, CountedTypes, WriteGrows
<1>6. ASSUME run[r].at \in Account PROVE VisitGood(born, stored, state[run'[r].at], run'[r])
  <2>1. /\ Num(since) <= Num(state[run[r].at].since)
        /\ StateGood(born, stored, run[r].at, run[r].seen)
        /\ t = base + c /\ c # 0 /\ t <= run[r].upTo /\ run[r].upTo <= Len(born)
        /\ run[r].more <=> t < run[r].upTo
        /\ ~Skips(run[r]) => Covers(born, stored, run[r].new, run[r].at, since, c)
    BY <1>1, <1>2, <1>6 DEF VisitGood, Visiting, Storing
  <2>2. Skips(run'[r]) <=> Skips(run[r])
    BY <1>2 DEF Skips
  <2>4. t \in 1 .. MaxTx /\ t <= Len(born)
    BY <1>1, <2>1
  <2>5. ASSUME ~Skips(run[r]), NEW u \in 1 .. MaxTx, base < u, u <= t
        PROVE  u <= Len(born) /\ (born[u] = run[r].at => Held(stored, Insert(r), u))
    <3>1. CASE u = t
      BY <1>3, <2>4, <3>1 DEF Taken
    <3>2. CASE u # t
      <4>1. u \in Before(since, c)
        BY <1>1, <2>1, <2>5, <3>2 DEF Before
      <4> QED
        BY <1>3, <2>1, <2>5, <4>1 DEF Covers
    <3> QED
      BY <3>1, <3>2
  <2>6. ~Skips(run[r]) => Covers(born, stored, Insert(r), run[r].at, since, c + 1)
    BY <1>1, <2>1, <2>5 DEF Covers, Before
  <2>7. ~run[r].more => t = run[r].upTo
    BY <1>1, <2>1
  <2>8. Flushing(born, stored, run'[r])
    <3>1. run'[r].upTo <= Len(born) /\ run'[r].cursor # 0
      BY <1>2, <2>1
    <3>2. run'[r].more => base + c < run'[r].upTo
      BY <1>2, <2>1
    <3>3. ASSUME ~run'[r].more, ~Skips(run'[r]), NEW u \in 1 .. run'[r].upTo, base < u, born[u] = run'[r].at
          PROVE  Held(stored, run'[r].new, u)
      <4>1. u \in 1 .. MaxTx /\ u <= t
        BY <1>1, <1>2, <2>1, <2>7, <3>3
      <4> QED
        BY <1>2, <2>2, <2>5, <3>3, <4>1
    <3> QED
      BY <1>2, <2>2, <2>6, <3>1, <3>2, <3>3 DEF Flushing
  <2>9. Fetching(born, stored, run'[r]) /\ Storing(born, stored, run'[r])
    BY <1>2 DEF Fetching, Storing
  <2> QED
    BY <1>2, <2>1, <2>8, <2>9 DEF VisitGood
<1>7. VisitGood(born, stored, state[run'[r].at], run'[r])
  BY <1>2, <1>6 DEF VisitGood
<1> QED
  BY <1>2, <1>5, <1>7, RunCounted

\* A page number and the time it is counted from, as a flush writes them.
Paged(r) ==
  IF CursorAfter(r) = Column(run[r].write[run[r].at].cursor, run[r].seen.cursor)
  THEN run[r].write[run[r].at]
  ELSE [run[r].write[run[r].at] EXCEPT !.cursor = CursorAfter(r),
          !.cursorSince = IF run[r].seen.cursor = 0 THEN run[r].seen.since
                          ELSE run[r].seen.cursorSince]

LEMMA FlushedFields ==
  ASSUME Counted, NEW r \in Run, run[r].pc = "flush"
  PROVE  LET old == run[r].write[run[r].at]
             seen == run[r].seen
             since == IF seen.cursor = 0 THEN seen.since ELSE seen.cursorSince
         IN
         /\ \/ /\ CursorAfter(r) = Column(old.cursor, seen.cursor)
               /\ Flushed(r).cursor = old.cursor /\ Flushed(r).cursorSince = old.cursorSince
            \/ Flushed(r).cursor = CursorAfter(r) /\ Flushed(r).cursorSince = since
         /\ old.since = Keep /\ Flushed(r).since = IF run[r].more THEN Keep ELSE Len(born)
<1>1. run[r].write[run[r].at] \in Write /\ run[r].write[run[r].at].since = Keep
  BY CountedTypes, RunTyped, RunExclusive DEF RunWrites, Working
<1>2. Flushed(r) = IF run[r].more THEN Paged(r)
                   ELSE [Paged(r) EXCEPT !.since = Len(born), !.failures = SetIf(0, run[r].seen.failures)]
  BY DEF Flushed, Paged
<1>3. /\ Paged(r).since = Keep /\ {"since", "cursor", "cursorSince"} \subseteq DOMAIN Paged(r)
      /\ \/ /\ CursorAfter(r) = Column(run[r].write[run[r].at].cursor, run[r].seen.cursor)
            /\ Paged(r) = run[r].write[run[r].at]
         \/ /\ Paged(r).cursor = CursorAfter(r)
            /\ Paged(r).cursorSince = IF run[r].seen.cursor = 0 THEN run[r].seen.since
                                      ELSE run[r].seen.cursorSince
  BY <1>1 DEF Paged, Write
<1>4. /\ Flushed(r).cursor = Paged(r).cursor /\ Flushed(r).cursorSince = Paged(r).cursorSince
      /\ Flushed(r).since = IF run[r].more THEN Keep ELSE Len(born)
  BY <1>2, <1>3
<1> QED
  BY <1>1, <1>3, <1>4

LEMMA PageCounted ==
  ASSUME Counted, Exclusive', NEW r \in Run, FlushPage(r), run[r].more
  PROVE  Counted'
<1> DEFINE seen == run[r].seen
           base == ListedAfter(seen.since)
           c == run[r].cursor
           since == IF seen.cursor = 0 THEN seen.since ELSE seen.cursorSince
<1>1. /\ Typed /\ VisitGood(born, stored, state[run[r].at], run[r])
      /\ Len(born) \in Nat /\ seen \in SyncState /\ c \in Nat /\ base \in Nat
      /\ run[r].upTo \in Nat /\ run[r].write \in [Target -> Write] /\ run[r].at \in Target
      /\ seen.since \in Time \cup {None} /\ seen.cursorSince \in Time \cup {None}
  <2>1. run[r].upTo \in Nat /\ run[r].cursor \in Nat /\ seen.since \in Time \cup {None}
        /\ seen.cursorSince \in Time \cup {None}
    BY CountedTypes DEF RunRow, SyncState, Time, Page
  <2> QED
    BY <2>1, CountedTypes, NumTyped, RunTyped
<1>2. /\ OnlyRun(r) /\ run[r].pc = "flush" /\ run'[r].pc = "fetch" /\ run'[r].cursor = c + 1
      /\ run'[r].write = [run[r].write EXCEPT ![run[r].at] = Flushed(r)]
      /\ run'[r].at = run[r].at /\ run'[r].seen = seen /\ run'[r].new = run[r].new
  BY <1>1, PageStep
<1>3. ASSUME run[r].at \in Account
      PROVE  /\ Num(seen.since) <= Num(state[run[r].at].since)
             /\ StateGood(born, stored, run[r].at, seen)
             /\ base + c < Len(born) /\ c # 0
             /\ ~Skips(run[r]) => Covers(born, stored, run[r].new, run[r].at, seen.since, c + 1)
  BY <1>1, <1>2, <1>3 DEF VisitGood, Visiting, Flushing
<1>4. ASSUME run[r].at \in Account
      PROVE  WriteGood(born, stored, run[r].new, run[r].at, state[run[r].at], Flushed(r))
  <2> DEFINE a == run[r].at
             old == state[a]
             w == Flushed(r)
  <2>1. WriteGood(born, stored, run[r].new, a, old, run[r].write[a]) /\ old \in SyncState
    BY <1>4, CountedTypes
  <2>2. CursorAfter(r) = c + 1 /\ c + 1 \notin {Keep, 0}
    <3>1. c < MaxTx
      BY <1>1, <1>2 DEF Typed, MorePages
    <3>2. Keep # c + 1
      BY <1>1, <3>1
    <3> QED
      BY <1>1, <3>2 DEF CursorAfter
  <2>3. CASE w.cursor = run[r].write[a].cursor /\ w.cursorSince = run[r].write[a].cursorSince
    <3>1. w.since = Keep /\ run[r].write[a].since = Keep
      BY <1>2, FlushedFields
    <3> QED
      BY <2>1, <2>3, <3>1 DEF WriteGood
  <2>4. CASE w.cursor = c + 1 /\ w.cursorSince = since
    <3>1. w.since = Keep
      BY <1>2, FlushedFields
    <3>2. w.cursorSince # Keep
      BY <1>1, <2>4 DEF Time
    <3>3. Num(seen.since) \in Int /\ Num(seen.cursorSince) \in Int /\ Num(old.since) \in Int
          /\ old.since \in Time \cup {None}
      BY <1>1, <2>1, NumTyped DEF SyncState
    <3>4. ~Aspire => Num(since) < Len(born) /\ Num(since) <= Num(old.since)
      <4>1. CASE seen.cursor = 0
        BY <1>1, <1>3, <1>4, <3>3, <4>1, NumTyped
      <4>2. CASE seen.cursor # 0
        BY <1>3, <1>4, <3>3, <4>2 DEF StateGood
      <4> QED
        BY <4>1, <4>2
    <3>5. ASSUME Aspire \/ since = old.since
          PROVE  Covers(born, stored, run[r].new, a, since, c + 1)
      <4>1. ~Skips(run[r]) /\ (Aspire \/ since = seen.since)
        <5>1. CASE Aspire \/ seen.cursor = 0
          BY <5>1 DEF Skips
        <5>2. CASE ~Aspire /\ seen.cursor # 0
          <6>1. Num(seen.cursorSince) <= Num(seen.since) /\ Num(seen.since) <= Num(old.since)
            BY <1>3, <1>4, <5>2 DEF StateGood
          <6>2. seen.cursorSince = old.since
            BY <3>5, <5>2
          <6>3. Num(seen.since) = Num(seen.cursorSince)
            BY <3>3, <6>1, <6>2
          <6>4. seen.since = seen.cursorSince
            BY <1>1, <6>3, NumTyped
          <6> QED
            BY <5>2, <6>4 DEF Skips
        <5> QED
          BY <5>1, <5>2
      <4>2. Covers(born, stored, run[r].new, a, seen.since, c + 1)
        BY <1>3, <1>4, <4>1
      <4> QED
        BY <4>1, <4>2, CoversSame
    <3> QED
      BY <2>2, <2>4, <3>1, <3>2, <3>4, <3>5 DEF WriteGood
  <2> QED
    BY <1>2, <2>2, <2>3, <2>4, FlushedFields
<1>5. ASSUME NEW a \in Account
      PROVE  WriteGood(born, stored, run'[r].new, a, state[a], run'[r].write[a])
  <2>1. a \in Target
    BY DEF Target
  <2>2. CASE a = run[r].at
    BY <1>1, <1>2, <1>4, <2>2
  <2>3. CASE a # run[r].at
    <3>1. run'[r].write[a] = run[r].write[a]
      BY <1>1, <1>2, <2>1, <2>3
    <3> QED
      BY <1>2, <3>1, CountedTypes
  <2> QED
    BY <2>2, <2>3
<1>6. VisitGood(born, stored, state[run'[r].at], run'[r])
  <2>1. CASE run[r].at \in Account
    <3>1. Skips(run'[r]) <=> Skips(run[r])
      BY <1>2 DEF Skips
    <3>2. PageAsked(seen.since, c + 1) \in {1, c + 1}
      BY DEF PageAsked
    <3>3. Fetching(born, stored, run'[r])
      BY <1>1, <1>2, <1>3, <2>1, <3>1, <3>2, CoversNothing DEF Fetching
    <3>4. Storing(born, stored, run'[r]) /\ Flushing(born, stored, run'[r])
      BY <1>2 DEF Storing, Flushing
    <3> QED
      BY <1>2, <1>3, <2>1, <3>3, <3>4 DEF VisitGood
  <2>2. CASE run[r].at \notin Account
    BY <1>2, <2>2 DEF VisitGood
  <2> QED
    BY <2>1, <2>2
<1> QED
  BY <1>2, <1>5, <1>6, RunCounted

LEMMA LastPageCounted ==
  ASSUME Counted, Exclusive', NEW r \in Run, FlushPage(r), ~run[r].more
  PROVE  Counted'
<1>1. /\ Typed /\ run[r].write \in [Target -> Write] /\ run[r].at \in Target /\ Len(born) \in Nat
  BY CountedTypes, RunTyped
<1>2. /\ Leaves(r, Flushed(r)) /\ run[r].pc = "flush"
  BY <1>1, LastPageStep
<1>3. ASSUME run[r].at \in Account
      PROVE  WriteGood(born, stored, run[r].new, run[r].at, state[run[r].at], Flushed(r))
  <2> DEFINE old == state[run[r].at]
             own == run[r].write[run[r].at]
             w == Flushed(r)
  <2>1. /\ WriteGood(born, stored, run[r].new, run[r].at, old, own)
        /\ old \in SyncState /\ StateGood(born, stored, run[r].at, old)
    BY <1>3, CountedTypes
  <2>2. CursorAfter(r) = 0 /\ w.since = Len(born) /\ Keep # 0 /\ Keep # Len(born)
    <3>1. Len(born) \in 0 .. MaxTx
      BY CountedTypes
    <3> QED
      BY <1>2, <3>1, FlushedFields DEF CursorAfter
  <2>3. w.cursor \in {Keep, 0} /\ (w.cursor = Keep => w.cursorSince = Keep)
    <3>1. CASE w.cursor = own.cursor /\ w.cursorSince = own.cursorSince /\ 0 = Column(own.cursor, run[r].seen.cursor)
      BY <2>1, <3>1 DEF Column, WriteGood
    <3>2. CASE w.cursor = 0
      BY <2>2, <3>2
    <3> QED
      BY <1>2, <2>2, <3>1, <3>2, FlushedFields
  <2>4. /\ Num(old.since) <= Len(born)
        /\ ~Aspire /\ old.cursor # 0 => Num(old.cursorSince) < Len(born)
    BY <2>1 DEF StateGood
  <2> QED
    BY <1>1, <2>2, <2>3, <2>4 DEF WriteGood
<1>4. ASSUME NEW a \in Account
      PROVE  WriteGood(born, stored, run'[r].new, a, state[a], run'[r].write[a])
  <2>1. a \in Target
    BY DEF Target
  <2>2. CASE a = run[r].at
    BY <1>1, <1>2, <1>3, <2>2 DEF Leaves
  <2>3. CASE a # run[r].at
    <3>1. run'[r].write[a] = run[r].write[a] /\ run'[r].new = run[r].new
      BY <1>1, <1>2, <2>1, <2>3 DEF Leaves
    <3> QED
      BY <3>1, CountedTypes
  <2> QED
    BY <2>2, <2>3
<1> QED
  BY <1>2, <1>4, NoVisit, RunCounted DEF Leaves, Visiting

LEMMA FailCounted ==
  ASSUME Counted, Exclusive', NEW r \in Run, ProviderFails(r)
  PROVE  Counted'
<1>1. /\ Typed /\ run[r].write \in [Target -> Write] /\ run[r].at \in Target
  BY CountedTypes, RunTyped
<1>2. /\ Leaves(r, FailedWrite(r)) /\ run[r].pc = "fetch"
  BY <1>1, FailStep
<1>3. /\ FailedWrite(r).since = run[r].write[run[r].at].since
      /\ FailedWrite(r).cursor = run[r].write[run[r].at].cursor
      /\ FailedWrite(r).cursorSince = run[r].write[run[r].at].cursorSince
  <2>1. run[r].write[run[r].at] \in Write
    BY <1>1
  <2> QED
    BY <2>1 DEF FailedWrite, Write
<1>4. ASSUME NEW a \in Account
      PROVE  WriteGood(born, stored, run'[r].new, a, state[a], run'[r].write[a])
  <2>1. a \in Target /\ WriteGood(born, stored, run[r].new, a, state[a], run[r].write[a])
    BY CountedTypes DEF Target
  <2>2. run'[r].new = run[r].new
    BY <1>2 DEF Leaves
  <2>3. CASE a = run[r].at
    <3>1. run'[r].write[a] = FailedWrite(r)
      BY <1>1, <1>2, <2>3 DEF Leaves
    <3> QED
      BY <1>3, <2>1, <2>2, <2>3, <3>1 DEF WriteGood
  <2>4. CASE a # run[r].at
    <3>1. run'[r].write[a] = run[r].write[a]
      BY <1>1, <1>2, <2>1, <2>4 DEF Leaves
    <3> QED
      BY <2>1, <2>2, <3>1
  <2> QED
    BY <2>3, <2>4
<1> QED
  BY <1>2, <1>4, NoVisit, RunCounted DEF Leaves, Visiting

\* A good write of a good state makes a good state of what is stored with it.
LEMMA ApplyGood ==
  ASSUME NEW b \in Seq(Account), Len(b) <= MaxTx, NEW st, NEW new, NEW st2,
         Kept(st, new, st2, Nothing), Kept(st, Nothing, st2, Nothing),
         NEW a \in Account, NEW old \in SyncState, StateGood(b, st, a, old),
         NEW w \in Write, WriteGood(b, st, new, a, old, w)
  PROVE  StateGood(b, st2, a, Apply(old, w)) /\ Num(old.since) <= Num(Apply(old, w).since)
<1> DEFINE row == Apply(old, w)
<1>1. /\ row.since = Column(w.since, old.since)
      /\ row.cursor = Column(w.cursor, old.cursor)
      /\ row.cursorSince = Column(w.cursorSince, old.cursorSince)
  BY DEF Apply
<1> HIDE DEF row
<1>2. /\ Num(old.since) \in Int /\ Num(old.cursorSince) \in Int /\ Len(b) \in Nat
      /\ w.since # Keep => w.since \in Nat /\ Num(w.since) = w.since
      /\ old.since \in Time \cup {None} /\ old.cursorSince \in Time \cup {None}
  BY NumTyped DEF SyncState, Write, Num, Time
<1>3. StateGood(b, st2, a, old)
  <2>1. Grown(b, b)
    BY DEF Grown
  <2> QED
    BY <2>1, StateGrows
<1>4. Num(row.since) <= Len(b) /\ Num(old.since) <= Num(row.since)
  <2>1. CASE w.since = Keep
    BY <1>1, <1>2, <2>1 DEF Column, StateGood
  <2>2. CASE w.since # Keep
    BY <1>1, <1>2, <2>2 DEF Column, WriteGood
  <2> QED
    BY <2>1, <2>2
<1>5. CASE w.cursor \notin {Keep, 0}
  <2>1. row.since = old.since /\ row.cursor = w.cursor /\ row.cursorSince = w.cursorSince
    BY <1>1, <1>5 DEF Column, WriteGood
  <2>2. ASSUME Aspire \/ w.cursorSince = old.since
        PROVE  Covers(b, st2, Nothing, a, w.cursorSince, w.cursor)
    <3>1. Covers(b, st, new, a, w.cursorSince, w.cursor)
      BY <1>5, <2>2 DEF WriteGood
    <3>2. Grown(b, b)
      BY DEF Grown
    <3> QED
      BY <3>1, <3>2, CoversGrows
  <2>3. ~Aspire => Num(w.cursorSince) < Len(b) /\ Num(w.cursorSince) <= Num(old.since)
    BY <1>5 DEF WriteGood
  <2> QED
    BY <1>4, <2>1, <2>2, <2>3 DEF StateGood, row
<1>6. CASE w.cursor = 0
  <2>1. row.cursor = 0
    BY <1>1, <1>6 DEF Column
  <2> QED
    BY <1>4, <2>1 DEF StateGood, row
<1>7. CASE w.cursor = Keep
  <2>1. row.cursor = old.cursor /\ row.cursorSince = old.cursorSince
    BY <1>1, <1>7 DEF Column, WriteGood
  <2>2. CASE w.since = Keep
    <3>1. row.since = old.since
      BY <1>1, <2>2 DEF Column
    <3> QED
      BY <1>3, <1>4, <2>1, <3>1 DEF StateGood, row
  <2>3. CASE w.since # Keep
    <3>1. row.since = w.since
      BY <1>1, <2>3 DEF Column
    <3>2. row.cursor # 0 /\ ~Aspire => Num(old.cursorSince) < w.since /\ w.since <= Len(b)
      BY <1>7, <2>1, <2>3 DEF WriteGood
    <3>3. row.cursor # 0 /\ ~Aspire => row.cursorSince # row.since
      BY <1>2, <2>1, <2>3, <3>1, <3>2
    <3>4. row.cursor # 0 /\ Aspire => Covers(b, st2, Nothing, a, row.cursorSince, row.cursor)
      BY <1>3, <2>1 DEF StateGood
    <3> QED
      BY <1>2, <1>4, <2>1, <2>3, <3>1, <3>2, <3>3, <3>4 DEF StateGood, row
  <2> QED
    BY <2>2, <2>3
<1> QED
  BY <1>5, <1>6, <1>7

LEMMA CommitCounted ==
  ASSUME Counted, Exclusive', NEW r \in Run, Commit(r)
  PROVE  Counted'
<1>1. /\ Typed /\ Typed' /\ born \in Seq(Account) /\ Len(born) <= MaxTx
  BY CommitStep, CountedTypes
<1>2. /\ run'[r] = NoRun /\ \A s \in Run \ {r} : run'[s] = run[s]
      /\ \A x \in Target : state'[x] = Apply(state[x], run[r].write[x])
      /\ \A t \in 1 .. MaxTx : stored'[t] = IF run[r].new[t] = Keep THEN stored[t] ELSE run[r].new[t]
      /\ born' = born
  BY <1>1, CommitStep
<1>3. /\ Kept(stored, run[r].new, stored', Nothing) /\ Grown(born, born)
      /\ \A new : Kept(stored, new, stored', new)
  BY <1>1, <1>2 DEF Kept, Held, Nothing, Grown
<1>4. ASSUME NEW a \in Account
      PROVE  /\ StateGood(born, stored', a, state'[a]) /\ Num(state[a].since) <= Num(state'[a].since)
             /\ state'[a] \in SyncState
  <2>1. state'[a] = Apply(state[a], run[r].write[a]) /\ state[a] \in SyncState /\ run[r].write[a] \in Write
    BY <1>2, CountedTypes DEF Target
  <2> QED
    BY <1>1, <1>3, <2>1, CountedTypes, ApplyGood, ApplyTyped
<1>5. ASSUME NEW s \in Run, NEW a \in Account
      PROVE  WriteGood(born, stored', run'[s].new, a, state'[a], run'[s].write[a])
  <2>1. CASE s = r
    BY <1>2, <2>1, NoRunWrites, NoWriteGood
  <2>2. CASE s # r /\ run[s].write[a] = NoWrite
    BY <1>2, <2>2, NoWriteGood
  <2>3. CASE s # r /\ run[s].write[a] # NoWrite
    <3>1. run[r].write[a] = NoWrite
      BY <2>3, CountedTypes DEF Exclusive, AccountRows
    <3>2. state'[a] = Apply(state[a], NoWrite) /\ state[a] \in SyncState
      BY <1>2, <3>1, CountedTypes DEF Target
    <3>3. state'[a].since = state[a].since /\ state'[a].cursor = state[a].cursor
          /\ state'[a].cursorSince = state[a].cursorSince
      BY <3>2 DEF Apply, Column, NoWrite
    <3>4. WriteGood(born, stored', run[s].new, a, state[a], run[s].write[a])
      <4>1. /\ run[s].write[a] \in Write
            /\ WriteGood(born, stored, run[s].new, a, state[a], run[s].write[a])
            /\ Kept(stored, run[s].new, stored', run[s].new)
        BY <1>3, CountedTypes
      <4> QED
        BY <1>3, <3>2, <4>1, WriteGrows
    <3> QED
      BY <1>2, <2>3, <3>3, <3>4 DEF WriteGood
  <2> QED
    BY <2>1, <2>2, <2>3
<1>6. ASSUME NEW s \in Run
      PROVE  VisitGood(born, stored', state'[run'[s].at], run'[s])
  <2>1. CASE s = r
    BY <1>2, <2>1, NoRunTyped, NoVisit DEF Visiting
  <2>2. CASE s # r /\ run[s].at \in Account
    <3>1. run[s] \in RunRow /\ state[run[s].at] \in SyncState
          /\ VisitGood(born, stored, state[run[s].at], run[s])
          /\ state'[run[s].at] \in SyncState
          /\ Num(state[run[s].at].since) <= Num(state'[run[s].at].since)
          /\ Kept(stored, Nothing, stored', Nothing)
          /\ Kept(stored, run[s].new, stored', run[s].new)
      BY <1>3, <1>4, <2>2, CountedTypes
    <3>2. VisitGood(born, stored', state'[run[s].at], run[s])
      BY <1>3, <3>1, VisitGrows
    <3> QED
      BY <1>2, <2>2, <3>2
  <2>3. CASE s # r /\ run[s].at \notin Account
    BY <1>2, <2>3 DEF VisitGood
  <2> QED
    BY <2>1, <2>2, <2>3
<1> QED
  BY <1>2, <1>4, <1>5, <1>6 DEF Counted, StatesGood, WritesGood, VisitsGood

LEMMA BirthCounted ==
  ASSUME Counted, Exclusive', Birth
  PROVE  Counted'
<1>1. Typed
  BY DEF Counted, Exclusive
<1>2. /\ Grown(born, born') /\ UNCHANGED <<state, stored, run>>
      /\ \A new : Kept(stored, new, stored, new)
  BY <1>1, BirthStep DEF Typed, SyncTypeOK, Grown, Kept
<1>3. ASSUME NEW a \in Account PROVE StateGood(born', stored, a, state[a])
  <2>1. state[a] \in SyncState
    BY <1>1 DEF Typed, SyncTypeOK, Target
  <2> QED
    BY <1>2, <2>1, StateGrows DEF Counted, StatesGood
<1>4. ASSUME NEW s \in Run, NEW a \in Account
      PROVE  WriteGood(born', stored, run[s].new, a, state[a], run[s].write[a])
  <2>1. /\ state[a] \in SyncState /\ run[s].write[a] \in Write
        /\ WriteGood(born, stored, run[s].new, a, state[a], run[s].write[a])
        /\ Kept(stored, run[s].new, stored, run[s].new)
    BY <1>2, CountedTypes
  <2> QED
    BY <1>2, <2>1, WriteGrows
<1>5. ASSUME NEW s \in Run
      PROVE  VisitGood(born', stored, state[run[s].at], run[s])
  <2>1. CASE run[s].at \in Account
    <3>1. /\ run[s] \in RunRow /\ state[run[s].at] \in SyncState
          /\ Num(state[run[s].at].since) <= Num(state[run[s].at].since)
          /\ VisitGood(born, stored, state[run[s].at], run[s])
          /\ Kept(stored, Nothing, stored, Nothing) /\ Kept(stored, run[s].new, stored, run[s].new)
      BY <1>2, <2>1, CountedTypes, NumTyped DEF SyncState
    <3> QED
      BY <1>2, <3>1, VisitGrows
  <2>2. CASE run[s].at \notin Account
    BY <2>2 DEF VisitGood
  <2> QED
    BY <2>1, <2>2
<1> QED
  BY <1>2, <1>3, <1>4, <1>5 DEF Counted, StatesGood, WritesGood, VisitsGood

LEMMA CountedStep == Counted /\ [SyncNext]_syncVars => Counted'
<1> SUFFICES ASSUME Counted, [SyncNext]_syncVars PROVE Counted'
  OBVIOUS
<1>0. Typed /\ Exclusive'
  BY ExclusiveStep DEF Counted, Exclusive
<1>1. ASSUME NEW r \in Run, Start(r) PROVE Counted'
  <2>1. /\ OnlyRun(r) /\ run'[r].pc = "pick" /\ run'[r].write = run[r].write /\ run'[r].new = run[r].new
    BY <1>0, <1>1, StartStep
  <2> QED
    BY <1>0, <2>1, CountedTypes, NoVisit, RunCounted DEF Visiting
<1>2. ASSUME NEW r \in Run, Pick(r) PROVE Counted'
  BY <1>0, <1>2, PickCounted
<1>3. ASSUME NEW r \in Run, InsertState(r) PROVE Counted'
  BY <1>0, <1>3, InsertCounted
<1>4. ASSUME NEW r \in Run, Fetch(r) PROVE Counted'
  BY <1>0, <1>4, FetchCounted
<1>5. ASSUME NEW r \in Run, StorePage(r) PROVE Counted'
  BY <1>0, <1>5, StoreCounted
<1>6. ASSUME NEW r \in Run, FlushPage(r) PROVE Counted'
  BY <1>0, <1>6, PageCounted, LastPageCounted
<1>7. ASSUME NEW r \in Run, ProviderFails(r) PROVE Counted'
  BY <1>0, <1>7, FailCounted
<1>8. ASSUME NEW r \in Run, Commit(r) PROVE Counted'
  BY <1>0, <1>8, CommitCounted
<1>9. ASSUME NEW r \in Run, Raise(r) \/ Deadlocked(r) \/ Crash(r) PROVE Counted'
  <2>1. OnlyRun(r) /\ run'[r] = NoRun
    BY <1>0, <1>9, EndStep
  <2>2. \A a \in Account : WriteGood(born, stored, run'[r].new, a, state[a], run'[r].write[a])
    BY <2>1, NoRunWrites, NoWriteGood
  <2> QED
    BY <1>0, <2>1, <2>2, NoRunTyped, NoVisit, RunCounted DEF Visiting
<1>10. CASE Birth
  BY <1>0, <1>10, BirthCounted
<1>11. CASE LinkAccount \/ UNCHANGED syncVars
  <2>1. UNCHANGED <<born, state, stored, run>>
    BY <1>11 DEF LinkAccount, syncVars
  <2> QED
    BY <1>0, <2>1 DEF Counted, StatesGood, WritesGood, VisitsGood
<1> QED
  BY <1>1, <1>2, <1>3, <1>4, <1>5, <1>6, <1>7, <1>8, <1>9, <1>10, <1>11 DEF SyncNext, Work

\* Only the flush after the last page moves a last_synced_at.
LEMMA SinceMoved ==
  ASSUME Counted, [SyncNext]_syncVars, NEW r \in Run, NEW a \in Account,
         run[r].write[a].since = Keep, run'[r].write[a].since # Keep
  PROVE  FlushPage(r) /\ ~run[r].more /\ run[r].at = a
<1>1. Typed /\ run[r].write \in [Target -> Write] /\ run[r].at \in Target /\ a \in Target
  BY CountedTypes, RunTyped DEF Target
<1>2. ASSUME NEW s \in Run, OnlyRun(s) PROVE s = r
  BY <1>2 DEF OnlyRun
<1>3. ASSUME NEW s \in Run, Start(s) \/ Pick(s) \/ Fetch(s) \/ StorePage(s) PROVE FALSE
  <2>1. OnlyRun(s) /\ run'[s].write = run[s].write
    BY <1>1, <1>3, StartStep, PickStep, FetchStep, StoreStep
  <2> QED
    BY <1>2, <2>1
<1>4. ASSUME NEW s \in Run, InsertState(s) PROVE FALSE
  <2>1. /\ s = r
        /\ run'[r].write = [run[r].write EXCEPT ![run[r].at] = [run[r].write[run[r].at] EXCEPT !.insert = TRUE]]
    BY <1>1, <1>2, <1>4, InsertStep
  <2>2. [run[r].write[run[r].at] EXCEPT !.insert = TRUE].since = run[r].write[run[r].at].since
    <3>1. run[r].write[run[r].at] \in Write
      BY <1>1
    <3> QED
      BY <3>1 DEF Write
  <2> QED
    BY <1>1, <2>1, <2>2
<1>5. ASSUME NEW s \in Run, FlushPage(s) PROVE s = r /\ ~run[r].more /\ run[r].at = a
  <2>1. CASE run[s].more
    <3>1. /\ s = r /\ run[r].pc = "flush"
          /\ run'[r].write = [run[r].write EXCEPT ![run[r].at] = Flushed(r)]
      BY <1>1, <1>2, <1>5, <2>1, PageStep
    <3>2. Flushed(r).since = Keep
      BY <2>1, <3>1, FlushedFields
    <3> QED
      BY <1>1, <3>1, <3>2
  <2>2. CASE ~run[s].more
    <3>1. s = r /\ run'[r].write = [run[r].write EXCEPT ![run[r].at] = Flushed(r)]
      BY <1>1, <1>2, <1>5, <2>2, LastPageStep DEF Leaves
    <3> QED
      BY <1>1, <2>2, <3>1
  <2> QED
    BY <2>1, <2>2
<1>6. ASSUME NEW s \in Run, ProviderFails(s) PROVE FALSE
  <2>1. s = r /\ run'[r].write = [run[r].write EXCEPT ![run[r].at] = FailedWrite(r)]
    BY <1>1, <1>2, <1>6, FailStep DEF Leaves
  <2>2. FailedWrite(r).since = run[r].write[run[r].at].since
    <3>1. run[r].write[run[r].at] \in Write
      BY <1>1
    <3> QED
      BY <3>1 DEF FailedWrite, Write
  <2> QED
    BY <1>1, <2>1, <2>2
<1>7. ASSUME NEW s \in Run, Commit(s) \/ Raise(s) \/ Deadlocked(s) \/ Crash(s) PROVE FALSE
  <2>1. run'[s] = NoRun /\ \A q \in Run \ {s} : run'[q] = run[q]
    BY <1>1, <1>7, CommitStep, EndStep DEF OnlyRun
  <2> QED
    BY <2>1, NoRunWrites, NoWriteSets
<1>8. CASE Birth \/ LinkAccount \/ UNCHANGED syncVars
  BY <1>8 DEF Birth, LinkAccount, syncVars
<1> QED
  BY <1>3, <1>4, <1>5, <1>6, <1>7, <1>8 DEF SyncNext, Work

\* SinceCoversStored: when a run moves an account's last_synced_at, every transaction of the
\* account that it may pass by from now on is stored, however the runs before it ended.
THEOREM SinceCoversStoredHolds == SyncSpec => SinceCoversStored
<1> DEFINE Covered ==
      \A r \in Run, a \in Account :
        run[r].write[a].since = Keep /\ run'[r].write[a].since # Keep =>
          \A t \in 1 .. Len(born) :
            born[t] = a /\ stored[t] = Keep /\ run'[r].new[t] = Keep =>
              LET seen == run[r].seen IN
              \/ t > run[r].upTo
              \/ seen.since # None /\ t <= seen.since
              \/ seen.cursor # 0 /\ seen.cursorSince # seen.since
<1>1. Counted /\ [SyncNext]_syncVars => Covered
  <2> SUFFICES ASSUME Counted, [SyncNext]_syncVars, NEW r \in Run, NEW a \in Account,
                      run[r].write[a].since = Keep, run'[r].write[a].since # Keep,
                      NEW t \in 1 .. Len(born),
                      born[t] = a, stored[t] = Keep, run'[r].new[t] = Keep
               PROVE  LET seen == run[r].seen IN
                      \/ t > run[r].upTo
                      \/ seen.since # None /\ t <= seen.since
                      \/ seen.cursor # 0 /\ seen.cursorSince # seen.since
    OBVIOUS
  <2>1. FlushPage(r) /\ ~run[r].more /\ run[r].at = a
    BY SinceMoved
  <2>2. run[r].pc = "flush" /\ run'[r].new = run[r].new
    BY <2>1, CountedTypes, LastPageStep DEF Leaves
  <2>3. ~Held(stored, run[r].new, t)
    BY <2>2 DEF Held
  <2>4. run[r].upTo \in Nat /\ run[r].seen.since \in Time \cup {None} /\ ListedAfter(run[r].seen.since) \in Nat
    <3>1. run[r].upTo \in Nat /\ run[r].seen.since \in Time \cup {None}
      BY CountedTypes DEF RunRow, SyncState, Time
    <3> QED
      BY <3>1, NumTyped
  <2>5. Flushing(born, stored, run[r])
    BY <2>1, <2>2, CountedTypes DEF VisitGood, Visiting
  <2>6. CASE Skips(run[r])
    BY <2>6 DEF Skips
  <2>7. CASE ~Skips(run[r]) /\ t <= run[r].upTo
    <3>1. t <= ListedAfter(run[r].seen.since)
      BY <2>1, <2>2, <2>3, <2>4, <2>5, <2>7 DEF Flushing
    <3>2. run[r].seen.since # None /\ t <= run[r].seen.since
      BY <2>4, <3>1 DEF ListedAfter
    <3> QED
      BY <3>2
  <2> QED
    BY <2>4, <2>6, <2>7
<1>2. Counted /\ [SyncNext]_syncVars => Counted'
  BY CountedStep
<1>3. Counted /\ [SyncNext]_syncVars => [Covered]_syncVars
  BY <1>1
<1> QED
  BY CountedInitial, <1>2, <1>3, PTL DEF SyncSpec, SinceCoversStored

=============================================================================
