-------------------------------- MODULE Archive --------------------------------
(* The bar archive: a backfill (marketdata/backfill.py and the CLI's         *)
(* yfinance source) fetches bars symbol by symbol and appends them to one    *)
(* Parquet file a month (storage/parquet_store.py); the backtest's runner,   *)
(* another process, reads them back.  Appending rewrites the whole file.     *)
EXTENDS Integers, FiniteSets, Bags, SequencesExt, FiniteSetsExt

CONSTANTS
  Symbols,
  MonthLength,     \* bars in a month
  MaxNow,          \* the last bar time: bound of the model
  Concurrency,     \* fetches at once: BackfillJob's semaphore; 1 for yfinance
  Torn,            \* a file that was being written when its writer died
  MaxJobs          \* bound of the model

ASSUME ArchiveAssumption ==
  /\ IsFiniteSet(Symbols) /\ MonthLength \in Nat \ {0} /\ MaxNow \in Nat
  /\ Concurrency \in Nat \ {0} /\ MaxJobs \in Nat

VARIABLES
  now,         \* the time of the bar that is not over yet
  file,        \* file[s][m]: a bag of rows, EmptyBag if there is none, or Torn
  task,        \* task[s]: where the job is with s
  batch,       \* batch[s]: the rows still to be appended, month by month
  table,       \* table[s]: what is written over the month's file
  result,      \* the job's result: bars written, by symbol
  jobs,        \* backfills started
  stored,      \* history: rows the files have gained in this job, by symbol
  given        \* history: given[s][m], the rows appended to a file so far

archiveVars == <<now, file, task, batch, table, result, jobs, stored, given>>

BarTimes    == 0 .. MaxNow
MonthOf(t) == t \div MonthLength
Months   == {MonthOf(t) : t \in BarTimes}

ArchiveInit ==
  /\ now = 0
  /\ file = [s \in Symbols |-> [m \in Months |-> EmptyBag]]
  /\ task = [s \in Symbols |-> "done"]
  /\ batch = [s \in Symbols |-> <<>>]
  /\ table = [s \in Symbols |-> EmptyBag]
  /\ result = [s \in Symbols |-> 0]
  /\ jobs = 0
  /\ stored = [s \in Symbols |-> 0]
  /\ given = [s \in Symbols |-> [m \in Months |-> EmptyBag]]

Advance ==
  /\ now < MaxNow
  /\ now' = now + 1
  /\ UNCHANGED <<file, task, batch, table, result, jobs, stored, given>>

StartJob ==
  /\ jobs < MaxJobs
  /\ \A s \in Symbols : task[s] = "done"
  /\ jobs' = jobs + 1
  /\ task' = [s \in Symbols |-> "queued"]
  /\ result' = [s \in Symbols |-> 0]
  /\ stored' = [s \in Symbols |-> 0]
  /\ UNCHANGED <<now, file, batch, table, given>>

(* The loop does not yield between a symbol's months: nobody else runs while *)
(* one is writing.                                                           *)
Writing == \E s \in Symbols : task[s] \in {"writing", "truncated"}

Fetch(s) ==
  /\ task[s] = "queued" /\ ~Writing
  /\ Cardinality({u \in Symbols : task[u] = "fetching"}) < Concurrency
  /\ task' = [task EXCEPT ![s] = "fetching"]
  /\ UNCHANGED <<now, file, batch, table, result, jobs, stored, given>>

FetchFails(s) ==
  /\ task[s] = "fetching" /\ ~Writing
  /\ task' = [task EXCEPT ![s] = "done"]
  /\ UNCHANGED <<now, file, batch, table, result, jobs, stored, given>>

(* The bars from some day to now, the last of them unfinished, without the   *)
(* rows that do not parse; by_month groups them by the month of their UTC    *)
(* time.  (Only the first may be missing, so no month between is empty.)     *)
Parsed(from, bad) == (from .. now) \ bad

Row(t) == [ts |-> t, over |-> t < now]
ByMonth(T) ==
  LET rows(m) == SetToBag({Row(t) : t \in {u \in T : MonthOf(u) = m}})
      first   == MonthOf(Min(T))
      count   == IF T = {} THEN 0 ELSE MonthOf(Max(T)) - first + 1
  IN  [k \in 1 .. count |-> [month |-> first + k - 1, rows |-> rows(first + k - 1)]]

Fetched(s, from, bad) ==
  /\ task[s] = "fetching" /\ ~Writing
  /\ task' = [task EXCEPT ![s] = "writing"]
  /\ batch' = [batch EXCEPT ![s] = ByMonth(Parsed(from, bad))]
  /\ UNCHANGED <<now, file, table, result, jobs, stored, given>>

(* (OnlyNew, AllRows and UpToMonth are mistakes the properties are tested    *)
(* against; nothing else uses them.)                                         *)
OnlyNew(old, new) == new
Merged(old, new)  == old (+) new

RowCount(bag) == SumFunction(bag)

AllRows(s) == RowCount(table[s])
Count(s)   == RowCount(Head(batch[s]).rows)

(* _append_rows reads the month's file, which raises on a torn one; opening  *)
(* it for writing then empties it, and the old rows come back with the new.  *)
OpenMonth(s) ==
  LET b == Head(batch[s])
  IN  /\ task[s] = "writing" /\ batch[s] # <<>>
      /\ file[s][b.month] # Torn
      /\ task' = [task EXCEPT ![s] = "truncated"]
      /\ table' = [table EXCEPT ![s] = Merged(file[s][b.month], b.rows)]
      /\ stored' = [stored EXCEPT ![s] = @ - RowCount(file[s][b.month])]
      /\ file' = [file EXCEPT ![s][b.month] = Torn]
      /\ UNCHANGED <<now, batch, result, jobs, given>>

WriteMonth(s) ==
  LET b == Head(batch[s])
  IN  /\ task[s] = "truncated"
      /\ file' = [file EXCEPT ![s][b.month] = table[s]]
      /\ given' = [given EXCEPT ![s][b.month] = @ (+) b.rows]
      /\ stored' = [stored EXCEPT ![s] = @ + RowCount(table[s])]
      /\ result' = [result EXCEPT ![s] = @ + Count(s)]
      /\ batch' = [batch EXCEPT ![s] = Tail(@)]
      /\ table' = [table EXCEPT ![s] = EmptyBag]
      /\ task' = [task EXCEPT ![s] = "writing"]
      /\ UNCHANGED <<now, jobs>>

EndSymbol(s) ==
  /\ task[s] = "writing" /\ batch[s] = <<>>
  /\ task' = [task EXCEPT ![s] = "done"]
  /\ UNCHANGED <<now, file, batch, table, result, jobs, stored, given>>

(* The table the command ends with.                                          *)
Total == SumFunctionOnSet(result, Symbols)

(* Without credentials, a connection or its library a job ends before its    *)
(* first fetch.  What raises while writing (a torn file, a full disk) is not *)
(* caught per symbol: the job ends there, as in a crash, the other symbols   *)
(* with it, and nothing is reported.                                         *)
JobDies ==
  /\ \E s \in Symbols : task[s] # "done"
  /\ task' = [s \in Symbols |-> "done"]
  /\ batch' = [s \in Symbols |-> <<>>]
  /\ table' = [s \in Symbols |-> EmptyBag]
  /\ result' = [s \in Symbols |-> 0] /\ stored' = [s \in Symbols |-> 0]
  /\ UNCHANGED <<now, file, jobs, given>>

(* What a backtest reads, at any moment: read_bars opens the files of the    *)
(* months from start's to end's, raises if one is torn, and keeps the rows   *)
(* in [start, end).                                                          *)
UpToMonth(from, until) == MonthOf(from) .. MonthOf(until) - 1
Opened(from, until) == MonthOf(from) .. MonthOf(until)
InRange(rows, from, until) ==
  {r \in BagToSet(rows) : from <= r.ts /\ r.ts < until}

(* The lists f[x], one after the other.                                      *)
Listed(f, S) == FoldFunctionOnSet(LAMBDA x, y : y \o x, <<>>, f, S)

(* The bars of one file's rows, each as often as it is stored; those of a    *)
(* symbol, file after file.                                                  *)
Loaded(s, m, from, until) ==
  Listed([r \in BagToSet(file[s][m]) |->
            [k \in 1 .. file[s][m][r] |-> [of |-> s, row |-> r]]],
         InRange(file[s][m], from, until))

ReadBars(s, from, until) ==
  Listed([m \in Months |-> Loaded(s, m, from, until)],
         Opened(from, until) \cap Months)

(* BacktestRunner.run: the bars of every symbol in one list, by time; a      *)
(* stable sort.                                                              *)
Place(bars, n) ==
  Cardinality({m \in DOMAIN bars :
    \/ bars[m].row.ts < bars[n].row.ts
    \/ bars[m].row.ts = bars[n].row.ts /\ m <= n})
ByTime(bars) ==
  [k \in DOMAIN bars |-> bars[CHOOSE n \in DOMAIN bars : Place(bars, n) = k]]

Load(from, until) ==
  ByTime(Listed([s \in Symbols |-> ReadBars(s, from, until)], Symbols))

ArchiveNext ==
  \/ Advance
  \/ StartJob
  \/ \E s \in Symbols :
       \/ Fetch(s)
       \/ FetchFails(s)
       \/ \E from \in 0 .. now : \E bad \in {{}, {from}} : Fetched(s, from, bad)
       \/ OpenMonth(s)
       \/ WriteMonth(s)
       \/ EndSymbol(s)
  \/ JobDies

ArchiveSpec == ArchiveInit /\ [][ArchiveNext]_archiveVars

---------------------------------------------------------------------------
(* What the job reports is what it appended, symbol by symbol and in all: a  *)
(* month that was not written is not counted, nor one counted twice.         *)
ReportIsStored ==
  /\ \A s \in Symbols : task[s] = "done" => result[s] = stored[s]
  /\ (\A s \in Symbols : task[s] = "done") =>
       Total = SumFunctionOnSet(stored, Symbols)

(* Nothing stored is lost but with its whole file: a file holds every row    *)
(* any job appended to it, unless a writer is, or died, in the middle.       *)
RowsAreKept ==
  \A s \in Symbols, m \in Months :
    file[s][m] # Torn => file[s][m] = given[s][m]

Copies(r, rows) == IF r \in DOMAIN rows THEN rows[r] ELSE 0

(* A backtest gets every stored bar of its range and no other, as often as   *)
(* backfills stored it, wherever the months divide the range, and all of     *)
(* them in order of time.                                                    *)
LoadIsTheRange ==
  \A from, until \in BarTimes :
    from < until /\ (\A s \in Symbols, m \in Months : file[s][m] # Torn) =>
      LET L == Load(from, until)
          seen(s, r) == Cardinality({n \in DOMAIN L : L[n].of = s /\ L[n].row = r})
      IN  /\ \A n \in 2 .. Len(L) : L[n - 1].row.ts <= L[n].row.ts
          /\ \A s \in Symbols, r \in [ts : BarTimes, over : BOOLEAN] :
               seen(s, r) = IF from <= r.ts /\ r.ts < until
                            THEN Copies(r, file[s][MonthOf(r.ts)]) ELSE 0
===============================================================================
