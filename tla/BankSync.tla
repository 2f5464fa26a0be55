------------------------------- MODULE BankSync -------------------------------
(***************************************************************************)
(* The transaction sync of a bank provider: the scheduled job and a sync    *)
(* triggered by hand, each one database transaction over all accounts that  *)
(* are linked to the provider.  What a run inserts and what it writes to    *)
(* the sync state is its own until it commits; a second writer of the same  *)
(* row or the same (source, source_tx_id) waits for it.                     *)
(*                                                                         *)
(* The provider lists the transactions born at it oldest first, one to a    *)
(* page, from a start time on.  A time is the number of transactions born   *)
(* by then.  A ledger account has one currency, and no two linked accounts  *)
(* share one: a currency is named by its account.                           *)
(***************************************************************************)
EXTENDS Integers, Sequences, FiniteSets

CONSTANTS
  Account,
  Run,           \* "the scheduled job", "by hand": one of each at a time
  None,          \* SQL NULL, and the sync without a linked account
  Keep,          \* a column an UPDATE does not set
  Aspire,        \* TRUE: Aspire, FALSE: Airwallex
  MaxFailures,   \* _MAX_CONSECUTIVE_FAILURES
  MaxTx          \* bound on the transactions born

ASSUME SyncNullAssumption == None \notin Account \cup 0 .. MaxTx
ASSUME SyncKeepAssumption == Keep \notin Account \cup {None} \cup 0 .. MaxTx
ASSUME SyncBoundAssumption == MaxFailures \in Nat \ {0} /\ MaxTx \in Nat \ {0} /\ Aspire \in BOOLEAN

VARIABLES
  born,      \* the provider's transactions: the currency of each, in order of time
  linked,    \* accounts with statement_source = provider
  state,     \* integration_sync_states, per account and for none
  stored,    \* bank_transactions: transaction |-> its account_id
  run        \* runs in progress

syncVars == <<born, linked, state, stored, run>>

-----------------------------------------------------------------------------
(* Rows; cursor 0 and since None are NULL *)

Target == Account \cup {None}
Time == 0 .. MaxTx
Page == 1 .. MaxTx

\* rows: how many rows there are; the unique constraint lets NULL account_ids repeat.
\* cursorSince is no column: it records the start time the saved page was counted from,
\* which a run that continues at a saved page hands on with the pages after it.
SyncState ==
  [rows : Nat, since : Time \cup {None}, cursor : {0} \cup Page,
   failures : 0 .. MaxFailures, cursorSince : Time \cup {None}]

NoState == [rows |-> 0, since |-> None, cursor |-> 0, failures |-> 0, cursorSince |-> None]

\* What a run's UPDATEs of a row set; Keep: the column is not set.
Write ==
  [insert : BOOLEAN, since : Time \cup {Keep}, cursor : {0, Keep} \cup Page,
   failures : {Keep} \cup 0 .. MaxFailures, cursorSince : Time \cup {None, Keep}]

NoWrite == [insert |-> FALSE, since |-> Keep, cursor |-> Keep, failures |-> Keep,
            cursorSince |-> Keep]

SetIf(new, old) == IF new = old THEN Keep ELSE new

Column(new, old) == IF new = Keep THEN old ELSE new

Apply(row, w) ==
  [rows |-> row.rows + IF w.insert THEN 1 ELSE 0,
   since |-> Column(w.since, row.since),
   cursor |-> Column(w.cursor, row.cursor),
   failures |-> Column(w.failures, row.failures),
   cursorSince |-> Column(w.cursorSince, row.cursorSince)]

\* at, seen: the target and its sync state as loaded; page: the page being stored, 0 for an empty one;
\* more: whether another follows; upTo: what had been born when it was listed.
RunRow ==
  [pc : {"idle", "pick", "insert", "fetch", "store", "flush"}, todo : SUBSET Target, at : Target,
   seen : SyncState, cursor : {0} \cup Page, page : {0} \cup Page,
   more : BOOLEAN, upTo : Time, write : [Target -> Write],
   new : [1 .. MaxTx -> Target \cup {Keep}]]

NoRun ==
  [pc |-> "idle", todo |-> {}, at |-> None, seen |-> NoState,
   cursor |-> 0, page |-> 0, more |-> FALSE, upTo |-> 0,
   write |-> [x \in Target |-> NoWrite], new |-> [t \in 1 .. MaxTx |-> Keep]]

SyncTypeOK ==
  /\ born \in Seq(Account) /\ Len(born) <= MaxTx
  /\ linked \subseteq Account
  /\ state \in [Target -> SyncState]
  /\ stored \in [1 .. MaxTx -> Target \cup {Keep}]
  /\ run \in [Run -> RunRow]

SyncInit ==
  /\ born = <<>>
  /\ linked = {}
  /\ state = [x \in Target |-> NoState]
  /\ stored = [t \in 1 .. MaxTx |-> Keep]
  /\ run = [r \in Run |-> NoRun]

-----------------------------------------------------------------------------
(* The provider *)

Birth ==
  /\ Len(born) < MaxTx
  /\ \E a \in Account : born' = Append(born, a)
  /\ UNCHANGED <<linked, state, stored, run>>

\* Airwallex lists from the last sync on; Aspire moves it back by _SYNC_OVERLAP, seven days,
\* which here is before everything.
ListedAfter(since) == IF since = None \/ Aspire THEN 0 ELSE since

\* Mutant: Aspire's rule for every provider.
PageWithoutSince(since, cursor) == IF cursor = 0 \/ since = None THEN 1 ELSE cursor

\* Without a last sync, Aspire starts again at the first page, whatever the cursor says.
PageAsked(since, cursor) ==
  IF cursor = 0 \/ (Aspire /\ since = None) THEN 1 ELSE cursor

-----------------------------------------------------------------------------
(* A run *)

Others(r) == Run \ {r}
\* A row the run has inserted itself is its own.
RowFree(r, x) == run[r].write[x].insert \/ \A s \in Others(r) : run[s].write[x] = NoWrite
KeyFree(r, t) == \A s \in Others(r) : run[s].new[t] = Keep

NextTarget(r) ==
  [NoRun EXCEPT !.pc = "pick", !.todo = run[r].todo \ {run[r].at},
                !.write = run[r].write, !.new = run[r].new]

\* Mutant: one failure more is allowed.
TooManyPlusOne(x) == state[x].failures > MaxFailures

\* Nothing but a sync that succeeds resets the count.
TooManyFailures(x) == state[x].failures >= MaxFailures

\* The linked accounts, or the sync without one.
Start(r) ==
  /\ run[r].pc = "idle"
  /\ run' = [run EXCEPT ![r].pc = "pick",
                        ![r].todo = IF linked = {} THEN {None} ELSE linked]
  /\ UNCHANGED <<born, linked, state, stored>>

\* An account with too many failures in a row is skipped.
Pick(r) ==
  /\ run[r].pc = "pick"
  /\ \E x \in run[r].todo :
       /\ state[x].rows <= 1
       /\ run' = [run EXCEPT
            ![r] = IF TooManyFailures(x)
                   THEN [@ EXCEPT !.todo = run[r].todo \ {x}]
                   ELSE [@ EXCEPT !.pc = IF state[x].rows = 0 THEN "insert" ELSE "fetch",
                                  !.at = x, !.seen = state[x],
                                  !.cursor = state[x].cursor]]
  /\ UNCHANGED <<born, linked, state, stored>>

\* Mutant: without the unique constraint.
InsertAnyState(r) ==
  /\ run[r].pc = "insert"
  /\ run' = [run EXCEPT ![r].pc = "fetch", ![r].write[run[r].at].insert = TRUE]
  /\ UNCHANGED <<born, linked, state, stored>>

\* The state row is inserted; for an account, after the other run's insert of it is decided.
InsertState(r) ==
  LET x == run[r].at IN
  /\ run[r].pc = "insert"
  /\ x # None => state[x].rows = 0 /\ \A s \in Others(r) : ~run[s].write[x].insert
  /\ run' = [run EXCEPT ![r].pc = "fetch", ![r].write[x].insert = TRUE]
  /\ UNCHANGED <<born, linked, state, stored>>

Fetch(r) ==
  LET since == run[r].seen.since
      p == PageAsked(since, run[r].cursor)
      t == ListedAfter(since) + p
  IN
  /\ run[r].pc = "fetch"
  /\ run' = [run EXCEPT ![r].pc = IF t <= Len(born) THEN "store" ELSE "flush",
                        ![r].cursor = p,
                        ![r].page = IF t <= Len(born) THEN t ELSE 0,
                        ![r].more = t < Len(born), ![r].upTo = Len(born)]
  /\ UNCHANGED <<born, linked, state, stored>>

\* A page's transaction is taken if its currency is the account's.
Taken(x, t) == t # 0 /\ (x = None \/ born[t] = x)

\* ON CONFLICT DO NOTHING.
Insert(r) ==
  LET t == run[r].page IN
  IF Taken(run[r].at, t) /\ stored[t] = Keep /\ run[r].new[t] = Keep
  THEN [run[r].new EXCEPT ![t] = run[r].at] ELSE run[r].new

\* Mutant: the cursor runs ahead of the page that is stored.
CursorAhead(r) == IF run[r].more THEN run[r].cursor + 2 ELSE 0

CursorAfter(r) == IF run[r].more THEN run[r].cursor + 1 ELSE 0

StorePage(r) ==
  /\ run[r].pc = "store"
  /\ Taken(run[r].at, run[r].page) => KeyFree(r, run[r].page)
  /\ run' = [run EXCEPT ![r].pc = "flush", ![r].new = Insert(r), ![r].page = 0]
  /\ UNCHANGED <<born, linked, state, stored>>

\* What the run has written to its row after this page: a flush sets the cursor if it is
\* not what the run loaded or wrote last.  After the last page last_synced_at becomes the
\* time it is then, and the failures 0.
Flushed(r) ==
  LET seen == run[r].seen
      old == run[r].write[run[r].at]
      next == CursorAfter(r)
      paged == IF next = Column(old.cursor, seen.cursor) THEN old
               ELSE [old EXCEPT !.cursor = next,
                                !.cursorSince = IF seen.cursor = 0 THEN seen.since
                                                ELSE seen.cursorSince]
  IN IF run[r].more THEN paged
     ELSE [paged EXCEPT !.since = Len(born), !.failures = SetIf(0, seen.failures)]

\* A flush that sets something takes the row's lock.
FlushFree(r) == Flushed(r) # run[r].write[run[r].at] => RowFree(r, run[r].at)

FlushPage(r) ==
  /\ run[r].pc = "flush"
  /\ FlushFree(r)
  /\ run' = [run EXCEPT
       ![r] = IF run[r].more
              THEN [@ EXCEPT !.pc = "fetch", !.cursor = run[r].cursor + 1, !.more = FALSE, !.upTo = 0,
                             !.write[run[r].at] = Flushed(r)]
              ELSE [NextTarget(r) EXCEPT !.write[run[r].at] = Flushed(r)]]
  /\ UNCHANGED <<born, linked, state, stored>>

\* The provider's API fails: the pages before stay, and the next account follows.
ProviderFails(r) ==
  LET x == run[r].at IN
  /\ run[r].pc = "fetch"
  /\ RowFree(r, x)
  /\ run' = [run EXCEPT
       ![r] = [NextTarget(r) EXCEPT !.write[x].failures = run[r].seen.failures + 1]]
  /\ UNCHANGED <<born, linked, state, stored>>

Commit(r) ==
  /\ run[r].pc = "pick" /\ run[r].todo = {}
  /\ state' = [x \in Target |-> Apply(state[x], run[r].write[x])]
  /\ stored' = [t \in 1 .. MaxTx |-> IF run[r].new[t] = Keep THEN stored[t] ELSE run[r].new[t]]
  /\ run' = [run EXCEPT ![r] = NoRun]
  /\ UNCHANGED <<born, linked>>

Rollback(r) ==
  /\ run' = [run EXCEPT ![r] = NoRun]
  /\ UNCHANGED <<born, linked, state, stored>>

\* Two rows of one state, or a row another run has inserted meanwhile: the run raises.
Raise(r) ==
  /\ \/ run[r].pc = "pick" /\ \E x \in run[r].todo : state[x].rows > 1
     \/ run[r].pc = "insert" /\ run[r].at # None /\ state[run[r].at].rows > 0
  /\ Rollback(r)

\* Two runs that wait for each other: PostgreSQL ends one of them.
WaitsFor(r, s) ==
  \/ run[r].pc = "flush" /\ ~FlushFree(r)
  \/ run[r].pc = "store" /\ Taken(run[r].at, run[r].page) /\ run[s].new[run[r].page] # Keep
  \/ run[r].pc = "insert" /\ run[r].at # None /\ run[s].write[run[r].at].insert

Deadlocked(r) ==
  /\ \E s \in Others(r) : WaitsFor(r, s) /\ WaitsFor(s, r)
  /\ Rollback(r)

\* The server stops, or the client of a sync by hand goes away.
Crash(r) == run[r].pc # "idle" /\ Rollback(r)

\* An account's statement_source is set to the provider.
LinkAccount ==
  /\ \E a \in Account \ linked : linked' = linked \cup {a}
  /\ UNCHANGED <<born, state, stored, run>>

Work(r) ==
  Pick(r) \/ InsertState(r) \/ Fetch(r) \/ StorePage(r) \/ FlushPage(r) \/ Commit(r)
    \/ Raise(r) \/ Deadlocked(r)

SyncNext ==
  \/ \E r \in Run : Start(r) \/ Work(r) \/ ProviderFails(r) \/ Crash(r)
  \/ Birth
  \/ LinkAccount

SyncSpec == SyncInit /\ [][SyncNext]_syncVars

\* The event loop runs every task, the provider answers or times out, and PostgreSQL grants
\* a lock that is free and ends deadlocks.
SyncFairness == \A r \in Run : SF_syncVars(Work(r))

FairSyncSpec == SyncSpec /\ SyncFairness

-----------------------------------------------------------------------------
(* Properties *)

\* However runs overlap, an account keeps one sync state row, and so can be synced at all.
OneStatePerAccount == \A a \in Account : state[a].rows <= 1

\* When a run moves an account's last_synced_at, it has every transaction of the account up
\* to then, except those born after the last page was listed, those the time passed by
\* before, and those it skipped by a page number that was counted from another start time.
SinceCoversStored ==
  [][\A r \in Run, a \in Account :
       run[r].write[a].since = Keep /\ run'[r].write[a].since # Keep =>
         \A t \in 1 .. Len(born) :
           born[t] = a /\ stored[t] = Keep /\ run'[r].new[t] = Keep =>
             LET seen == run[r].seen IN
             \/ t > run[r].upTo
             \/ seen.since # None /\ t <= seen.since
             \/ seen.cursor # 0 /\ seen.cursorSince # seen.since]_syncVars

\* A sync that was started ends, and with it the locks it holds.
SyncEnds == \A r \in Run : run[r].pc # "idle" ~> run[r].pc = "idle"
=============================================================================
