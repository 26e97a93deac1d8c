------------------------------ MODULE DailyRun ------------------------------
(***************************************************************************)
(* run_daily of src/application/runners/simulation.py: the stages of the   *)
(* day of every account, each of them a few commits, with daily_runs as    *)
(* the memory that lets a run be started again.                            *)
(*                                                                         *)
(*   1    sync: the bars the day cannot do without, then the others        *)
(*   2    execution of the bundles that target the day                     *)
(*   2.5  high watermarks, 2.6 equity snapshot                             *)
(*   3    exit bundles (private to the account), entry bundles (shared by  *)
(*        all accounts), and the plan of the next execution                *)
(*   4    the day is marked COMPLETED                                      *)
(*                                                                         *)
(* One run-daily works at a time (file lock).  It may crash after any      *)
(* commit, wait for data, or fail; `simulation reset`, `market backfill`,  *)
(* `trade record-fill`, `reject-signal` and `un-reject-signal` take no     *)
(* lock and come in at any point.  Which orders of a plan trade is left    *)
(* open here: Execution has that part.                                     *)
(***************************************************************************)
EXTENDS Integers, Sequences, SequencesExt, FiniteSets

CONSTANTS Accounts,
          LastDay,        \* trading days are 1 .. LastDay
          ExitStrategies, \* sequence of the strategies with an exit section
          Pipeline,       \* entry strategies of each account, a sequence
          AutoExecute,    \* accounts that run without --no-auto-execute
          Symbols, INDEX,
          Universe,       \* symbols each account's strategies look at
          FixedUniverse,  \* the symbols of the settings
          Opening,        \* buckets each account holds at first
          Picks,          \* <<day, strategy, symbol>>: the entry rule fires
          Stops,          \* <<day, symbol>>: the close triggers the exit rule
          Late,           \* <<day, symbol>>: the source delivers this bar late
          ManualTrades,   \* <<account, side, bucket>> the operator may record
          MaxEvents       \* bound: crashes, exceptions, resets, fills and rejections

Days    == 1 .. LastDay
Buckets == ToSet(ExitStrategies) \X Symbols

ASSUME DaysAssumption == LastDay \in Nat \ {0}
ASSUME UniverseAssumption == Universe \in [Accounts -> SUBSET Symbols] /\ INDEX \notin Symbols
ASSUME StrategiesAssumption ==
         ExitStrategies \in Seq(STRING) /\ Pipeline \in [Accounts -> Seq(STRING)]
ASSUME AccountsAssumption == "all" \notin Accounts /\ Opening \in [Accounts -> SUBSET Buckets]

VARIABLES today,
          source,    \* bars the market data provider can deliver
          bars,      \* market_bars
          runs,      \* daily_runs: a row or NoRun for each day and account
          bundles,   \* signal_bundles with their signal_items
          held,      \* buckets of each account with open lots
          fills,     \* fills, by account, day, side and bucket
          marks,     \* position_high_watermarks
          snaps,     \* equity_snapshots: the buckets valued
          intents,   \* order_intents: the signal items planned for an account and day
          rejected,  \* signal_items with user_override = 'REJECTED'
          restored,  \* those that once were (history)
          proc,      \* the run-daily that holds the lock
          events,    \* how many of these there were
          raced      \* a reset came in while run-daily was at work

vars == << today, source, bars, runs, bundles, held, fills, marks, snaps, intents,
           rejected, restored, proc, events, raced >>

facts == << held, fills >>
overrides == << rejected, restored >>
outputs == << bundles, marks, snaps, intents >>

NoRun == [ status |-> "NONE" ]

Row(status, market, exec, sig) ==
  [ status |-> status, market |-> market, exec |-> exec, sig |-> sig ]

NewRow == Row("STARTED", "PENDING", "PENDING", "PENDING")

idle == [ pc |-> "idle", todo |-> << >> ]

Init ==
  /\ today = 1
  /\ source = (Days \X (Symbols \cup {INDEX})) \ Late
  /\ bars = {}
  /\ runs = [ k \in Days \X Accounts |-> NoRun ]
  /\ bundles = {}
  /\ held = Opening
  /\ fills = {}
  /\ marks = {}
  /\ snaps = [ k \in Days \X Accounts |-> {} ]
  /\ intents = [ k \in (2 .. LastDay + 1) \X Accounts |-> {} ]
  /\ rejected = {}
  /\ restored = {}
  /\ proc = idle
  /\ events = 0
  /\ raced = FALSE

-----------------------------------------------------------------------------
(* What the stages compute. *)

HeldSymbols(a) == { b[2] : b \in held[a] }

\* _get_valuation_universe: strategy symbols, open positions, symbols of fills.
Valuation(a) ==
  Universe[a] \cup UNION { HeldSymbols(o) : o \in Accounts } \cup { f.bucket[2] : f \in fills }

Stored(d) == { s \in Symbols \cup {INDEX} : << d, s >> \in bars }

\* A bundle of signals made on day d for the next one; its owner is the
\* account of an exit bundle and "all" for an entry bundle.
Bundle(d, strategy, owner, symbols) ==
  [ day |-> d, strategy |-> strategy, owner |-> owner, symbols |-> symbols ]

\* mutant: the id of an exit bundle without the account
IdWithoutAccount(b, c) ==
  b.day = c.day /\ b.strategy = c.strategy /\ (b.owner = "all" <=> c.owner = "all")

SameId(b, c) == b.day = c.day /\ b.strategy = c.strategy /\ b.owner = c.owner

\* The symbols of a strategy's positions that the close of the day stops out.
StoppedOut(d, a, s) == { b[2] : b \in { c \in held[a] : c[1] = s /\ << d, c[2] >> \in Stops } }

\* generate_exit_bundles, in the order of the strategy ids; a strategy without
\* a signal has no bundle.
ExitBundles(d, a) ==
  [ i \in DOMAIN ExitStrategies |->
      Bundle(d, ExitStrategies[i], a, StoppedOut(d, a, ExitStrategies[i])) ]

NoSignal(b) == b.owner # "all" /\ b.symbols = {}

\* Entry rules of the account's pipeline: a symbol the account holds in the
\* strategy's bucket gives no signal, one without a bar of the day is invisible.
EntrySignals(d, a, s) ==
  { y \in Universe[a] \cap Stored(d) : << d, s, y >> \in Picks /\ << s, y >> \notin held[a] }

EntryBundles(d, a) ==
  [ i \in DOMAIN Pipeline[a] |->
      Bundle(d, Pipeline[a][i], "all", EntrySignals(d, a, Pipeline[a][i])) ]

\* A row of signal_items, and the bucket it is about.
Item(b, y) == << b.day, b.strategy, b.owner, y >>

Bucket(i) == << i[2], i[4] >>

SignalsOf(bs) == UNION { { Item(b, y) : y \in b.symbols } : b \in bs }

\* _find_bundles_for_execution: the shared bundles and those of the account.
Visible(a, d) == { b \in bundles : b.day + 1 = d /\ b.owner \in {"all", a} }

InPipeline(a, s) == s \in ToSet(Pipeline[a])

\* The entry gate of _load_bundle_row; exits always pass it.
Gated(a, d) == { i \in SignalsOf(Visible(a, d)) : i[3] = "all" => InPipeline(a, i[2]) }

\* _load_bundle_row skips the items an operator has rejected.
Loaded(a, d) == Gated(a, d) \ rejected

\* The orders of a plan: whole buckets are sold; a symbol sold is not bought,
\* nor a bucket that is held.
Sells(a, d) == { Bucket(i) : i \in { j \in Loaded(a, d) : j[3] = a } } \cap held[a]

Buys(a, d) ==
  { e \in { Bucket(i) : i \in { j \in Loaded(a, d) : j[3] = "all" } } \ held[a] :
      e[2] \notin { x[2] : x \in Sells(a, d) } }

-----------------------------------------------------------------------------
(* daily_runs. *)

d0 == proc.day
a0 == proc.account

Key == << d0, a0 >>

\* _upsert_run writes the row whether it is there or not; a sub-status UPDATE
\* finds no row when a reset has removed it.
Upsert(row) == runs' = [ runs EXCEPT ![Key] = row ]

Update(field) ==
  runs' = IF runs[Key] = NoRun THEN runs ELSE [ runs EXCEPT ![Key][field] = "COMPLETED" ]

\* _get_or_create_run, with the row as the process keeps it in run_record.
Refreshed == IF runs[Key] = NoRun THEN NewRow ELSE runs[Key]

At(pc) == proc.pc = pc

Goto(pc) == proc' = [ proc EXCEPT !.pc = pc ]

-----------------------------------------------------------------------------
(* Stage 1. *)

Synced(row) == row.market = "COMPLETED"

\* mutant: a day that waits is taken for a finished one
OnlyStarted(row) == row.status \in {"NONE", "STARTED"}

Startable(row) == row.status # "COMPLETED"

\* run-daily takes the lock and finds or creates the row; a COMPLETED day is
\* left alone.
StartRun(d, a) ==
  /\ At("idle")
  /\ d <= today
  /\ Startable(runs[<< d, a >>])
  /\ LET row == IF runs[<< d, a >>] = NoRun THEN NewRow ELSE runs[<< d, a >>]
     IN /\ runs' = [ runs EXCEPT ![<< d, a >>] =
                       IF Synced(row) THEN row ELSE [ row EXCEPT !.status = "STARTED" ] ]
        /\ proc' = [ pc |-> IF Synced(row) THEN "synced" ELSE "sync", day |-> d,
                     account |-> a, rec |-> row, todo |-> << >> ]
  /\ UNCHANGED << today, source, bars, outputs, facts, overrides, events, raced >>

Critical == HeldSymbols(a0) \cup {INDEX}

Available == { s \in Symbols \cup {INDEX} : << d0, s >> \in source }

SyncDone ==
  /\ At("sync")
  /\ Critical \subseteq Available
  /\ bars' = bars \cup ({d0} \X ((Critical \cup Valuation(a0)) \cap Available))
  /\ Update("market")
  /\ Goto("synced")
  /\ UNCHANGED << today, source, outputs, facts, overrides, events, raced >>

\* The first critical symbol without data ends the sync; those fetched before
\* it are stored.
SyncWaits ==
  /\ At("sync")
  /\ ~ Critical \subseteq Available
  /\ \E got \in SUBSET (Critical \cap Available) : bars' = bars \cup ({d0} \X got)
  /\ Upsert(Row("WAITING", "PENDING", proc.rec.exec, proc.rec.sig))
  /\ proc' = idle
  /\ UNCHANGED << today, source, outputs, facts, overrides, events, raced >>

\* The record is read again, and made again if a reset has removed it.
Refresh ==
  /\ At("synced")
  /\ runs' = [ runs EXCEPT ![Key] = Refreshed ]
  /\ proc' = [ proc EXCEPT !.rec = Refreshed,
                           !.pc = IF Refreshed.exec = "COMPLETED" THEN "executed"
                                  ELSE IF a0 \in AutoExecute THEN "plan" ELSE "mark" ]
  /\ UNCHANGED << today, source, bars, outputs, facts, overrides, events, raced >>

-----------------------------------------------------------------------------
(* Stage 2. *)

\* Every order planned has its bar; what trades is some of the sells and some
\* of the buys (limits, cash, locked symbols).
PlanExecution ==
  /\ At("plan")
  /\ { x[2] : x \in Sells(a0, d0) } \subseteq Stored(d0)
  /\ \E e \in SUBSET { x \in Buys(a0, d0) : x[2] \in Stored(d0) } :
       \E s \in SUBSET Sells(a0, d0) :
         proc' = [ proc EXCEPT !.pc = "book",
                               !.todo = SetToSeq({"SELL"} \X s) \o SetToSeq({"BUY"} \X e) ]
  /\ UNCHANGED << today, source, bars, runs, outputs, facts, overrides, events, raced >>

\* A planned order without its bar makes the whole batch wait.
ExecutionWaits ==
  /\ At("plan")
  /\ ~ { x[2] : x \in Sells(a0, d0) \cup Buys(a0, d0) } \subseteq Stored(d0)
  /\ Upsert(Row("WAITING", "COMPLETED", "PENDING", proc.rec.sig))
  /\ proc' = idle
  /\ UNCHANGED << today, source, bars, outputs, facts, overrides, events, raced >>

Fill(a, d, side, bucket, by) ==
  [ account |-> a, day |-> d, side |-> side, bucket |-> bucket, by |-> by ]

NextFill == Fill(a0, d0, Head(proc.todo)[1], Head(proc.todo)[2], "engine")

\* The bucket of a SELL was emptied by the operator since the plan.
Unsellable(f) == f.side = "SELL" /\ f \notin fills /\ f.bucket \notin held[f.account]

\* One fill; its execution key makes a second one of the day a no-op.
Book ==
  /\ At("book") /\ proc.todo # << >>
  /\ ~ Unsellable(NextFill)
  /\ IF NextFill \in fills THEN UNCHANGED facts
     ELSE /\ fills' = fills \cup {NextFill}
          /\ held' = [ held EXCEPT ![a0] = IF NextFill.side = "BUY"
                                          THEN @ \cup {NextFill.bucket}
                                          ELSE @ \ {NextFill.bucket} ]
  /\ proc' = [ proc EXCEPT !.todo = Tail(@) ]
  /\ UNCHANGED << today, source, bars, runs, outputs, overrides, events, raced >>

\* The exception handler writes the record as it was last read.
Fail == Upsert([ proc.rec EXCEPT !.status = "FAILED" ])

\* SELL_WITHOUT_POSITION
BookFails ==
  /\ At("book") /\ proc.todo # << >>
  /\ Unsellable(NextFill)
  /\ Fail
  /\ proc' = idle
  /\ UNCHANGED << today, source, bars, outputs, facts, overrides, events, raced >>

MarkExecuted ==
  /\ At("mark") \/ (At("book") /\ proc.todo = << >>)
  /\ Update("exec")
  /\ Goto("executed")
  /\ UNCHANGED << today, source, bars, outputs, facts, overrides, events, raced >>

\* mutant: the record is not read again after the execution
StaleRecord ==
  /\ At("executed")
  /\ runs' = [ runs EXCEPT ![Key] = Refreshed ]
  /\ marks' = marks \cup { << d0, a0, b >> : b \in { c \in held[a0] : c[2] \in Stored(d0) } }
  /\ snaps' = [ snaps EXCEPT ![Key] = held[a0] ]
  /\ Goto(IF Refreshed.sig = "COMPLETED" THEN "finish" ELSE "generate")
  /\ UNCHANGED << today, source, bars, bundles, intents, facts, overrides, events, raced >>

\* The record is read again; 2.5 and 2.6 write what the fills of the day left.
Measure ==
  /\ At("executed")
  /\ runs' = [ runs EXCEPT ![Key] = Refreshed ]
  /\ marks' = marks \cup { << d0, a0, b >> : b \in { c \in held[a0] : c[2] \in Stored(d0) } }
  /\ snaps' = [ snaps EXCEPT ![Key] = held[a0] ]
  /\ proc' = [ proc EXCEPT !.rec = Refreshed,
                           !.pc = IF Refreshed.sig = "COMPLETED" THEN "finish" ELSE "generate" ]
  /\ UNCHANGED << today, source, bars, bundles, intents, facts, overrides, events, raced >>

-----------------------------------------------------------------------------
(* Stages 3 and 4. *)

\* A bar without which the exits cannot be judged.
BarMissing == INDEX \notin Stored(d0) \/ ~ (HeldSymbols(a0) \cap Universe[a0]) \subseteq Stored(d0)

GenerateFails ==
  /\ At("generate")
  /\ BarMissing
  /\ Fail
  /\ proc' = idle
  /\ UNCHANGED << today, source, bars, outputs, facts, overrides, events, raced >>

GenerateExits ==
  /\ At("generate")
  /\ ~ BarMissing
  /\ proc' = [ proc EXCEPT !.pc = "exits", !.todo = ExitBundles(d0, a0) ]
  /\ UNCHANGED << today, source, bars, runs, outputs, facts, overrides, events, raced >>

GenerateEntries ==
  /\ At("exits") /\ proc.todo = << >>
  /\ proc' = [ proc EXCEPT !.pc = "entries", !.todo = EntryBundles(d0, a0) ]
  /\ UNCHANGED << today, source, bars, runs, outputs, facts, overrides, events, raced >>

\* _save_bundle: a bundle with this id is left untouched.
SaveBundle ==
  /\ At("exits") \/ At("entries")
  /\ proc.todo # << >>
  /\ bundles' = IF NoSignal(Head(proc.todo)) \/ \E b \in bundles : SameId(b, Head(proc.todo))
                THEN bundles
                ELSE bundles \cup {Head(proc.todo)}
  /\ proc' = [ proc EXCEPT !.todo = Tail(@) ]
  /\ UNCHANGED << today, source, bars, runs, marks, snaps, intents, facts, overrides, events, raced >>

\* mutant: the plan of the next execution skips the entry gate
PlanUngated ==
  /\ At("entries") /\ proc.todo = << >>
  /\ intents' = [ intents EXCEPT ![<< d0 + 1, a0 >>] =
                    SignalsOf(Visible(a0, d0 + 1)) \ rejected ]
  /\ Goto("signalled")
  /\ UNCHANGED << today, source, bars, runs, bundles, marks, snaps, facts, overrides, events, raced >>

\* _persist_next_execution_intents: planned or blocked, every signal the next
\* execution will load has its intent.
PlanNext ==
  /\ At("entries") /\ proc.todo = << >>
  /\ intents' = [ intents EXCEPT ![<< d0 + 1, a0 >>] = Loaded(a0, d0 + 1) ]
  /\ Goto("signalled")
  /\ UNCHANGED << today, source, bars, runs, bundles, marks, snaps, facts, overrides, events, raced >>

MarkSignals ==
  /\ At("signalled")
  /\ Update("sig")
  /\ Goto("finish")
  /\ UNCHANGED << today, source, bars, outputs, facts, overrides, events, raced >>

Finish ==
  /\ At("finish")
  /\ Upsert(Row("COMPLETED", "COMPLETED", "COMPLETED", "COMPLETED"))
  /\ proc' = idle
  /\ UNCHANGED << today, source, bars, outputs, facts, overrides, events, raced >>

-----------------------------------------------------------------------------
(* Around run-daily. *)

Crash ==
  /\ ~ At("idle") /\ events < MaxEvents
  /\ events' = events + 1
  /\ proc' = idle
  /\ UNCHANGED << today, source, bars, runs, outputs, facts, overrides, raced >>

\* An exception: data provider, strategy, database.
Fails ==
  /\ ~ At("idle") /\ events < MaxEvents
  /\ events' = events + 1
  /\ Fail
  /\ proc' = idle
  /\ UNCHANGED << today, source, bars, outputs, facts, overrides, raced >>

\* simulation reset: refused when any account has a fill of that day; otherwise
\* the bundles made on the day, what was rejected of them, and the rows of all
\* accounts are gone.
Reset(d) ==
  /\ events < MaxEvents /\ d <= today
  /\ \A f \in fills : f.day # d
  /\ events' = events + 1
  /\ bundles' = { b \in bundles : b.day # d }
  /\ rejected' = { i \in rejected : i[1] # d }
  /\ restored' = { i \in restored : i[1] # d }
  /\ runs' = [ k \in Days \X Accounts |-> IF k[1] = d THEN NoRun ELSE runs[k] ]
  /\ raced' = (raced \/ ~ At("idle"))
  /\ UNCHANGED << today, source, bars, marks, snaps, intents, facts, proc >>

\* trade record-fill
RecordFill(t) ==
  /\ events < MaxEvents
  /\ t.side = "SELL" <=> t.bucket \in held[t.account]
  /\ events' = events + 1
  /\ fills' = fills \cup {Fill(t.account, today, t.side, t.bucket, "operator")}
  /\ held' = [ held EXCEPT ![t.account] =
                 IF t.side = "BUY" THEN @ \cup {t.bucket} ELSE @ \ {t.bucket} ]
  /\ UNCHANGED << today, source, bars, runs, outputs, overrides, proc, raced >>

\* The signal_id of an item does not tell the account of an exit.
SameSignal(i, j) ==
  i[1] = j[1] /\ Bucket(i) = Bucket(j) /\ (i[3] = "all" <=> j[3] = "all")

Namesakes(i) == { j \in SignalsOf(bundles) : SameSignal(i, j) }

\* trade reject-signal: one row with the signal_id is looked at, all are set.
RejectSignal(i) ==
  /\ events < MaxEvents
  /\ i \notin rejected
  /\ events' = events + 1
  /\ rejected' = rejected \cup Namesakes(i)
  /\ UNCHANGED << today, source, bars, runs, outputs, restored, facts, proc, raced >>

\* trade un-reject-signal
UnRejectSignal(i) ==
  /\ i \in rejected
  /\ rejected' = rejected \ Namesakes(i)
  /\ restored' = restored \cup Namesakes(i)
  /\ UNCHANGED << today, source, bars, runs, outputs, facts, proc, events, raced >>

\* market backfill: the symbols of the settings and the indices, missing symbols skipped.
Backfill(d) ==
  /\ d <= today
  /\ bars' = bars \cup { k \in source : k[1] = d /\ k[2] \in FixedUniverse \cup {INDEX} }
  /\ bars' # bars
  /\ UNCHANGED << today, source, runs, outputs, facts, proc, overrides, events, raced >>

SourceDelivers ==
  /\ \E k \in Late \ source : k[1] <= today /\ source' = source \cup {k}
  /\ UNCHANGED << today, bars, runs, outputs, facts, proc, overrides, events, raced >>

NextDay ==
  /\ today < LastDay
  /\ today' = today + 1
  /\ UNCHANGED << source, bars, runs, outputs, facts, proc, overrides, events, raced >>

Step ==
  \/ SyncDone \/ SyncWaits \/ Refresh
  \/ PlanExecution \/ ExecutionWaits \/ Book \/ BookFails \/ MarkExecuted \/ Measure
  \/ GenerateFails \/ GenerateExits \/ GenerateEntries \/ SaveBundle \/ PlanNext
  \/ MarkSignals \/ Finish

Next ==
  \/ \E d \in Days, a \in Accounts : StartRun(d, a)
  \/ Step
  \/ Crash \/ Fails
  \/ \E d \in Days : Reset(d) \/ Backfill(d)
  \/ \E t \in ManualTrades : RecordFill(t)
  \/ \E i \in SignalsOf(bundles) : RejectSignal(i) \/ UnRejectSignal(i)
  \/ SourceDelivers
  \/ NextDay

\* A run that was started goes on.  That one is started, that a day comes and that
\* the source delivers are left to the properties that need it.
Fairness == WF_vars(Step)

Spec == Init /\ [][Next]_vars /\ Fairness

-----------------------------------------------------------------------------
(* Properties. *)

Rows == { k \in Days \X Accounts : runs[k] # NoRun }

Completed(k, field) == k \in Rows /\ runs[k][field] = "COMPLETED"

TypeOK ==
  /\ today \in Days
  /\ bars \subseteq source /\ source \subseteq Days \X (Symbols \cup {INDEX})
  /\ \A k \in Rows :
       /\ runs[k].status \in {"STARTED", "WAITING", "FAILED", "COMPLETED"}
       /\ {runs[k].market, runs[k].exec, runs[k].sig} \subseteq {"PENDING", "COMPLETED"}
  /\ \A b \in bundles : b.day \in Days /\ b.owner \in {"all"} \cup Accounts
  /\ \A b, c \in bundles : SameId(b, c) => b = c
  /\ held \in [Accounts -> SUBSET Buckets]
  /\ \A k \in DOMAIN snaps : snaps[k] \subseteq Buckets
  /\ \A k \in DOMAIN intents : \A i \in intents[k] : Bucket(i) \in Buckets
  /\ rejected \cup restored \subseteq SignalsOf(bundles)
  /\ raced \in BOOLEAN

\* The step takes back the mark that keeps a rerun from executing the day again.
Unmarks(k) ==
  Completed(k, "exec") /\ ~ raced' /\ runs'[k] # NoRun /\ ~ Completed(k, "exec")'

\* That mark is never taken back by a later failure or wait of the same day,
\* only by a reset; but for an exception before the record is read again.
ExecutionStaysMarked ==
  [][ \A k \in Rows : ~ (At("executed") /\ runs'[k].status = "FAILED") => ~ Unmarks(k) ]_vars

\* The position is the one the account opened with.
Untraded(a, bucket) == \A f \in fills : ~ (f.account = a /\ f.bucket = bucket)

\* The stopped positions of the account have their SELL in a bundle of its own.
ExitsSaved(d, a) ==
  \A b \in held[a] : << d, b[2] >> \in Stops /\ Untraded(a, b)
                     => << d, b[1], a, b[2] >> \in SignalsOf(bundles)

\* Every entry strategy of the account's pipeline has its bundle.
EntriesSaved(d, a) ==
  \A s \in ToSet(Pipeline[a]) : \E b \in bundles : SameId(b, Bundle(d, s, "all", {}))

\* When the signals of a day are marked, every position of the account that the
\* close stopped out has its SELL in a bundle of this account, whichever account
\* ran first and however often the run was cut off, and every entry strategy of
\* its pipeline has its bundle.  A position traded since the exits were judged
\* is not meant.
SignalsComplete ==
  [][ \A k \in Rows : ~ Completed(k, "sig") /\ Completed(k, "sig")' /\ ~ raced'
        => ExitsSaved(k[1], k[2]) /\ EntriesSaved(k[1], k[2]) ]_vars

\* The planned items that still count: the dashboard marks those rejected since.
Shown(a, d) == intents[<< d, a >>] \ rejected

\* What the plan of the next execution shows is what its loader will find: every
\* signal shown is loaded, and every signal loaded is shown but for those that
\* the operator rejected and then restored, whatever the other account adds to
\* the shared bundles later and whenever signals are rejected.
IntentsMatchLoader ==
  \A k \in Rows : Completed(k, "status") /\ ~ raced =>
    /\ Shown(k[2], k[1] + 1) \subseteq Loaded(k[2], k[1] + 1)
    /\ Loaded(k[2], k[1] + 1) \ Shown(k[2], k[1] + 1) \subseteq restored

Done(k) == runs[k].status = "COMPLETED"

\* Nothing holds the day up: the source has the bars of the index and of the
\* positions, and when the sync is marked, the bars of the positions and of the
\* orders are in the database.
Unblocked(d, a) ==
  /\ d <= today
  /\ {d} \X (HeldSymbols(a) \cup {INDEX}) \subseteq source
  /\ Completed(<< d, a >>, "market") =>
       HeldSymbols(a) \cup { x[2] : x \in Sells(a, d) \cup Buys(a, d) } \subseteq Stored(d)

\* A day that is started again and again, and that nothing holds up for ever, is
\* completed in the end and stays so, through waits, crashes, exceptions, resets,
\* rejections and fills of the operator.
EventuallyCompleted ==
  \A k \in Days \X Accounts :
    SF_vars(StartRun(k[1], k[2])) /\ <>[] Unblocked(k[1], k[2]) => <>[] Done(k)
=============================================================================
