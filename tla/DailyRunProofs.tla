--------------------------- MODULE DailyRunProofs ---------------------------
(***************************************************************************)
(* Proofs about the stages of the day: the mark of the execution is taken  *)
(* back by nothing but a reset, the marked signals of a day are complete,  *)
(* and the orders shown for the next execution are those its loader finds, *)
(* but for signals an operator rejected and restored.                      *)
(***************************************************************************)
EXTENDS DailyRun, SequenceTheorems, TLAPS

(* The rows and the process. *)

Marks == {"PENDING", "COMPLETED"}

RunRows == [ status : {"STARTED", "WAITING", "FAILED", "COMPLETED"},
             market : Marks, exec : Marks, sig : Marks ]

Table == [Days \X Accounts -> RunRows \cup {NoRun}]

Stages == {"sync", "synced", "plan", "book", "mark", "executed", "generate", "exits",
           "entries", "signalled", "finish"}

\* The orders still to be booked are of no interest here.
Works ==
  /\ proc = [ pc |-> proc.pc, day |-> proc.day, account |-> proc.account,
              rec |-> proc.rec, todo |-> proc.todo ]
  /\ proc.pc \in Stages
  /\ proc.day \in Days /\ proc.account \in Accounts /\ proc.rec \in RunRows

RowsInv ==
  /\ runs \in Table
  /\ intents = [ k \in (2 .. LastDay + 1) \X Accounts |-> intents[k] ]
  /\ raced \in BOOLEAN
  /\ \/ proc = idle
     \/ Works

\* The row as run-daily knows it: unless a reset came in between it is there, it
\* says of the execution what the record says (but for the moment after the
\* execution is marked), and no more of the signals than the row itself.
RecordInv ==
  ~ raced /\ ~ At("idle") =>
    /\ runs[Key] # NoRun
    /\ ~ At("executed") => proc.rec.exec = runs[Key].exec
    /\ proc.rec.sig = "COMPLETED" => runs[Key].sig = "COMPLETED"
    /\ At("plan") => proc.rec.exec # "COMPLETED"
    /\ proc.pc \in {"generate", "exits", "entries", "signalled"}
         => runs[Key].sig # "COMPLETED"
    /\ At("finish") => runs[Key].sig = "COMPLETED"

(* The bundles. *)

BundleOf(b) == b = Bundle(b.day, b.strategy, b.owner, b.symbols)

\* The bundle has every position of its account and strategy that the close
\* stopped out and nobody traded since.
Judges(b) ==
  b.owner # "all" =>
    \A c \in held[b.owner] :
      c[1] = b.strategy /\ << b.day, c[2] >> \in Stops /\ Untraded(b.owner, c)
        => c[2] \in b.symbols

\* What the process has still to save.
TodoInv ==
  proc.pc \in {"exits", "entries"} =>
    /\ proc.todo \in Seq(ToSet(proc.todo))
    /\ \A i \in 1 .. Len(proc.todo) :
         LET b == proc.todo[i]
         IN /\ BundleOf(b) /\ b.day = d0 /\ Judges(b)
            /\ b.owner = IF At("exits") THEN a0 ELSE "all"

BundlesInv ==
  /\ \A b \in bundles : BundleOf(b) /\ b.day \in Days /\ Judges(b)
                        /\ b.owner \in Accounts \cup {"all"}
  /\ \A a \in Accounts : \A b \in held[a] : Untraded(a, b) => b \in Opening[a]
  /\ held = [ a \in Accounts |-> held[a] ]

\* A strategy of the pipeline has its bundle, or is still to have it.
Waiting(s, owner) == \E i \in 1 .. Len(proc.todo) : SameId(proc.todo[i], Bundle(d0, s, owner, {}))

Saved(d, s, owner) == \E b \in bundles : SameId(b, Bundle(d, s, owner, {}))

Stopped(d, a, s) ==
  \E c \in held[a] : c[1] = s /\ << d, c[2] >> \in Stops /\ Untraded(a, c)

ProgressInv ==
  /\ proc.pc \in {"exits", "entries", "signalled"} =>
       \A s \in ToSet(ExitStrategies) : Stopped(d0, a0, s)
         => Saved(d0, s, a0) \/ (At("exits") /\ Waiting(s, a0))
  /\ proc.pc \in {"entries", "signalled"} =>
       \A s \in ToSet(Pipeline[a0]) :
         Saved(d0, s, "all") \/ (At("entries") /\ Waiting(s, "all"))

(* The plan of the next execution. *)

\* The signals of the day are marked, or all that is missing is the mark.
Signalled(k) == Completed(k, "sig") \/ (At("signalled") /\ k = Key)

Overridden == rejected \cup restored

\* What passes the gate has its intent, unless the operator had rejected it.
Planned(k) ==
  /\ EntriesSaved(k[1], k[2])
  /\ intents[<< k[1] + 1, k[2] >>] \subseteq Gated(k[2], k[1] + 1)
  /\ Gated(k[2], k[1] + 1) \subseteq intents[<< k[1] + 1, k[2] >>] \cup Overridden

PlanInv == \A k \in Days \X Accounts : Signalled(k) => Planned(k)

DoneInv == \A k \in Rows : Completed(k, "status") => Completed(k, "sig")

Inv ==
  /\ RowsInv /\ RecordInv /\ TodoInv /\ BundlesInv
  /\ DoneInv
  /\ ~ raced => ProgressInv /\ PlanInv
(* Facts about rows and the process. *)

LEMMA RowsHold ==
  /\ \A row \in RunRows : row # NoRun /\ row.exec \in Marks /\ row.sig \in Marks
  /\ \A row \in RunRows, field \in {"market", "exec", "sig"} :
       [row EXCEPT ![field] = "COMPLETED"] \in RunRows
  /\ \A row \in RunRows, s \in {"STARTED", "WAITING", "FAILED"} :
       /\ [row EXCEPT !.status = s] \in RunRows
       /\ [row EXCEPT !.status = s].status = s
       /\ [row EXCEPT !.status = s].exec = row.exec
       /\ [row EXCEPT !.status = s].sig = row.sig
  /\ \A s \in {"STARTED", "WAITING", "FAILED", "COMPLETED"}, m, e, g \in Marks :
       Row(s, m, e, g) \in RunRows
  /\ NewRow \in RunRows
<1>1. \A row \in RunRows : row # NoRun /\ row.exec \in Marks /\ row.sig \in Marks
  BY DEF RunRows, NoRun
<1>2. \A row \in RunRows, field \in {"market", "exec", "sig"} :
        [row EXCEPT ![field] = "COMPLETED"] \in RunRows
  BY DEF RunRows, Marks
<1>3. \A row \in RunRows, s \in {"STARTED", "WAITING", "FAILED"} :
        /\ [row EXCEPT !.status = s] \in RunRows
        /\ [row EXCEPT !.status = s].status = s
        /\ [row EXCEPT !.status = s].exec = row.exec
        /\ [row EXCEPT !.status = s].sig = row.sig
  BY DEF RunRows, Marks
<1>4. \A s \in {"STARTED", "WAITING", "FAILED", "COMPLETED"}, m, e, g \in Marks :
        Row(s, m, e, g) \in RunRows
  BY DEF RunRows, Marks, Row
<1>5. NewRow \in RunRows
  BY DEF NewRow, Row, RunRows, Marks
<1> QED BY <1>1, <1>2, <1>3, <1>4, <1>5

LEMMA AtWork ==
  ASSUME Works
  PROVE  /\ Key \in Days \X Accounts /\ d0 \in Days /\ a0 \in Accounts
         /\ proc.rec \in RunRows /\ ~ At("idle") /\ proc # idle
BY DEF Works, Key, d0, a0, At, Stages, idle

LEMMA IdleOrAtWork == ASSUME RowsInv, ~ At("idle") PROVE Works
BY DEF RowsInv, At, idle

LEMMA RefreshedRow == ASSUME RowsInv, Works PROVE Refreshed \in RunRows
BY AtWork, RowsHold DEF RowsInv, Refreshed, Table

\* The process goes on with the day and account it works for.
Worker(pc, rec, todo) ==
  [ pc |-> pc, day |-> d0, account |-> a0, rec |-> rec, todo |-> todo ]

LEMMA Moved ==
  ASSUME Works, NEW pc \in Stages, NEW rec, NEW todo, proc' = Worker(pc, rec, todo)
  PROVE  /\ Key' = Key /\ d0' = d0 /\ a0' = a0
         /\ proc'.pc = pc /\ proc'.rec = rec /\ proc'.todo = todo
         /\ rec \in RunRows => Works'
BY DEF Works, Worker, Key, d0, a0

\* Where each action finds the process and where it leaves it.
LEMMA ProcMoves ==
  ASSUME RowsInv
  PROVE  /\ SyncDone => Works /\ At("sync") /\ proc' = Worker("synced", proc.rec, proc.todo)
         /\ Refresh => Works /\
              proc' = Worker(IF Refreshed.exec = "COMPLETED" THEN "executed"
                             ELSE IF a0 \in AutoExecute THEN "plan" ELSE "mark",
                             Refreshed, proc.todo)
         /\ PlanExecution => Works /\ At("plan") /\
              \E todo : proc' = Worker("book", proc.rec, todo)
         /\ Book => Works /\ At("book") /\ proc' = Worker("book", proc.rec, Tail(proc.todo))
         /\ MarkExecuted => Works /\ proc.pc \in {"mark", "book"} /\
              proc' = Worker("executed", proc.rec, proc.todo)
         /\ Measure => Works /\
              proc' = Worker(IF Refreshed.sig = "COMPLETED" THEN "finish" ELSE "generate",
                             Refreshed, proc.todo)
         /\ GenerateExits => Works /\ At("generate") /\
              proc' = Worker("exits", proc.rec, ExitBundles(d0, a0))
         /\ GenerateEntries => Works /\ At("exits") /\ proc.todo = << >> /\
              proc' = Worker("entries", proc.rec, EntryBundles(d0, a0))
         /\ SaveBundle => Works /\ proc.pc \in {"exits", "entries"} /\ proc.todo # << >> /\
              proc' = Worker(proc.pc, proc.rec, Tail(proc.todo))
         /\ PlanNext => Works /\ At("entries") /\ proc.todo = << >> /\
              proc' = Worker("signalled", proc.rec, proc.todo)
         /\ MarkSignals => Works /\ At("signalled") /\
              proc' = Worker("finish", proc.rec, proc.todo)
         /\ SyncWaits \/ ExecutionWaits \/ BookFails \/ GenerateFails \/ Finish \/ Crash \/ Fails
              => Works /\ proc' = idle
<1>1. SyncDone \/ Refresh \/ PlanExecution \/ Book \/ MarkExecuted \/ Measure \/ GenerateExits
        \/ GenerateEntries \/ SaveBundle \/ PlanNext \/ MarkSignals \/ SyncWaits
        \/ ExecutionWaits \/ BookFails \/ GenerateFails \/ Finish \/ Crash \/ Fails
        => ~ At("idle")
  BY DEF At, SyncDone, Refresh, PlanExecution, Book, MarkExecuted, Measure, GenerateExits,
     GenerateEntries, SaveBundle, PlanNext, MarkSignals, SyncWaits, ExecutionWaits, BookFails,
     GenerateFails, Finish, Crash, Fails
<1>2. ASSUME Works, SyncDone
      PROVE  Works /\ At("sync") /\ proc' = Worker("synced", proc.rec, proc.todo)
  BY <1>2 DEF SyncDone, At, Works, Worker, d0, a0, Goto
<1>3. ASSUME Works, Refresh
      PROVE  Works /\
        proc' = Worker(IF Refreshed.exec = "COMPLETED" THEN "executed"
        ELSE IF a0 \in AutoExecute THEN "plan" ELSE "mark",
        Refreshed, proc.todo)
  BY <1>3 DEF Refresh, At, Works, Worker, d0, a0
<1>4. ASSUME Works, PlanExecution
      PROVE  Works /\ At("plan") /\
        \E todo : proc' = Worker("book", proc.rec, todo)
  BY <1>4 DEF PlanExecution, At, Works, Worker, d0, a0
<1>5. ASSUME Works, Book
      PROVE  Works /\ At("book") /\ proc' = Worker("book", proc.rec, Tail(proc.todo))
  BY <1>5 DEF Book, At, Works, Worker, d0, a0
<1>6. ASSUME Works, MarkExecuted
      PROVE  Works /\ proc.pc \in {"mark", "book"} /\
        proc' = Worker("executed", proc.rec, proc.todo)
  BY <1>6 DEF MarkExecuted, At, Works, Worker, d0, a0, Goto
<1>7. ASSUME Works, Measure
      PROVE  Works /\
        proc' = Worker(IF Refreshed.sig = "COMPLETED" THEN "finish" ELSE "generate",
        Refreshed, proc.todo)
  BY <1>7 DEF Measure, At, Works, Worker, d0, a0
<1>8. ASSUME Works, GenerateExits
      PROVE  Works /\ At("generate") /\
        proc' = Worker("exits", proc.rec, ExitBundles(d0, a0))
  BY <1>8 DEF GenerateExits, At, Works, Worker, d0, a0
<1>9. ASSUME Works, GenerateEntries
      PROVE  Works /\ At("exits") /\ proc.todo = << >> /\
        proc' = Worker("entries", proc.rec, EntryBundles(d0, a0))
  BY <1>9 DEF GenerateEntries, At, Works, Worker, d0, a0
<1>10. ASSUME Works, SaveBundle
      PROVE  Works /\ proc.pc \in {"exits", "entries"} /\ proc.todo # << >> /\
        proc' = Worker(proc.pc, proc.rec, Tail(proc.todo))
  BY <1>10 DEF SaveBundle, At, Works, Worker, d0, a0
<1>11. ASSUME Works, PlanNext
      PROVE  Works /\ At("entries") /\ proc.todo = << >> /\
        proc' = Worker("signalled", proc.rec, proc.todo)
  BY <1>11 DEF PlanNext, At, Works, Worker, d0, a0, Goto
<1>12. ASSUME Works, MarkSignals
      PROVE  Works /\ At("signalled") /\
        proc' = Worker("finish", proc.rec, proc.todo)
  BY <1>12 DEF MarkSignals, At, Works, Worker, d0, a0, Goto
<1>13. ASSUME SyncWaits \/ ExecutionWaits \/ BookFails \/ GenerateFails \/ Finish \/ Crash \/ Fails
       PROVE  proc' = idle
  BY <1>13 DEF SyncWaits, ExecutionWaits, BookFails, GenerateFails, Finish, Crash, Fails
<1> QED BY <1>13, <1>1, IdleOrAtWork, <1>2, <1>3, <1>4, <1>5, <1>6, <1>7, <1>8, <1>9, <1>10,
   <1>11, <1>12

\* A step is one of these, or leaves alone what is told here.
LEMMA StepCases ==
  ASSUME [Next]_vars
  PROVE  \/ \E d \in Days, a \in Accounts : StartRun(d, a)
         \/ SyncDone \/ Refresh \/ PlanExecution \/ Book \/ MarkExecuted \/ Measure
         \/ GenerateExits \/ GenerateEntries \/ SaveBundle \/ PlanNext \/ MarkSignals
         \/ SyncWaits \/ ExecutionWaits \/ BookFails \/ GenerateFails \/ Finish \/ Crash \/ Fails
         \/ \E d \in Days : Reset(d)
         \/ /\ UNCHANGED << proc, runs, bundles, intents, raced >>
            /\ Overridden \subseteq Overridden'
BY DEF Next, Step, vars, outputs, overrides, Overridden, RecordFill, RejectSignal, UnRejectSignal,
       Backfill, SourceDelivers, NextDay

(* What a step does to a row. *)

\* Found, or made again when a reset had removed it.
Opened(k) ==
  runs'[k] = IF runs[k] = NoRun THEN NewRow ELSE [runs[k] EXCEPT !.status = "STARTED"]

\* A sub-status is set in a row that is there.
Marked(k) ==
  /\ Works /\ k = Key /\ runs[k] \in RunRows
  /\ \E field \in {"market", "exec", "sig"} :
       /\ runs'[k] = [runs[k] EXCEPT ![field] = "COMPLETED"]
       /\ field = "sig" => At("signalled")

\* Rewritten from the record by a process that waits or fails.
Closed(k) ==
  /\ Works /\ k = Key
  /\ runs'[k] \in RunRows /\ runs'[k].status \in {"WAITING", "FAILED"}
  /\ runs'[k].exec = proc.rec.exec \/ At("plan")
  /\ runs'[k].sig = proc.rec.sig
  /\ At("executed") => runs'[k].status = "FAILED"

Finished(k) ==
  Works /\ k = Key /\ At("finish")
  /\ runs'[k] = Row("COMPLETED", "COMPLETED", "COMPLETED", "COMPLETED")

LEMMA Written ==
  ASSUME RowsInv, NEW key \in Days \X Accounts, NEW row \in RunRows,
         runs' = [runs EXCEPT ![key] = row]
  PROVE  /\ runs' \in Table /\ runs'[key] = row
         /\ \A k \in Days \X Accounts : k # key => runs'[k] = runs[k]
BY DEF RowsInv, Table

LEMMA Updated ==
  ASSUME RowsInv, Works, NEW field \in {"market", "exec", "sig"}, Update(field)
  PROVE  /\ runs' \in Table
         /\ \A k \in Days \X Accounts : k # Key => runs'[k] = runs[k]
         /\ \/ runs[Key] = NoRun /\ runs'[Key] = NoRun
            \/ runs[Key] \in RunRows /\ runs'[Key] \in RunRows
               /\ runs'[Key] = [runs[Key] EXCEPT ![field] = "COMPLETED"]
<1>1. CASE runs[Key] = NoRun
  BY <1>1 DEF Update, RowsInv
<1>2. CASE runs[Key] # NoRun
  <2>1. runs[Key] \in RunRows
    BY <1>2, AtWork DEF RowsInv, Table
  <2>2. [runs[Key] EXCEPT ![field] = "COMPLETED"] \in RunRows
    BY <2>1 DEF RunRows, Marks
  <2>3. runs' = [runs EXCEPT ![Key] = [runs[Key] EXCEPT ![field] = "COMPLETED"]]
    BY <1>2 DEF Update
  <2> QED BY <2>1, <2>2, <2>3, AtWork, Written
<1> QED BY <1>1, <1>2

LEMMA RowMoves ==
  ASSUME RowsInv, [Next]_vars
  PROVE  /\ runs' \in Table
         /\ \A k \in Days \X Accounts :
              \/ runs'[k] = runs[k] \/ runs'[k] = NoRun
              \/ (runs[k] = NoRun \/ runs[k].status # "COMPLETED") /\ Opened(k)
              \/ Marked(k) \/ Closed(k) \/ Finished(k)
<1> DEFINE Moves == /\ runs' \in Table
                    /\ \A k \in Days \X Accounts :
                         \/ runs'[k] = runs[k] \/ runs'[k] = NoRun
                         \/ (runs[k] = NoRun \/ runs[k].status # "COMPLETED") /\ Opened(k)
                         \/ Marked(k) \/ Closed(k) \/ Finished(k)
<1>1. ASSUME NEW d \in Days, NEW a \in Accounts, StartRun(d, a) PROVE Moves
  <2> DEFINE old == runs[<< d, a >>]
             row == IF old = NoRun THEN NewRow ELSE old
             new == IF Synced(row) THEN row ELSE [ row EXCEPT !.status = "STARTED" ]
  <2>1. row \in RunRows /\ (old # NoRun => old \in RunRows)
    BY RowsHold DEF RowsInv, Table
  <2>2. runs' = [ runs EXCEPT ![<< d, a >>] = new ]
    BY <1>1 DEF StartRun
  <2>3. new \in RunRows
    BY <2>1, RowsHold
  <2>4. \/ new = old
        \/ new = IF old = NoRun THEN NewRow ELSE [old EXCEPT !.status = "STARTED"]
    BY DEF NewRow, Row
  <2>5. old = NoRun \/ old.status # "COMPLETED"
    BY <1>1 DEF StartRun, Startable
  <2> HIDE DEF new
  <2>6. runs' \in Table /\ runs'[<< d, a >>] = new
        /\ \A k \in Days \X Accounts : k # << d, a >> => runs'[k] = runs[k]
    BY <2>2, <2>3, Written
  <2> QED BY <2>4, <2>5, <2>6 DEF Opened
<1>2. ASSUME Works, NEW field \in {"market", "exec", "sig"}, Update(field),
             field = "sig" => At("signalled")
      PROVE  Moves
  BY <1>2, Updated DEF Marked
<1>3. CASE SyncDone \/ MarkExecuted \/ MarkSignals
  BY <1>2, <1>3, ProcMoves DEF SyncDone, MarkExecuted, MarkSignals
<1>4. ASSUME Works, runs' = [ runs EXCEPT ![Key] = Refreshed ] PROVE Moves
  <2>1. /\ runs' \in Table /\ runs'[Key] = Refreshed
        /\ \A k \in Days \X Accounts : k # Key => runs'[k] = runs[k]
    BY <1>4, AtWork, RefreshedRow, Written
  <2> QED BY <2>1 DEF Refreshed, Opened
<1>5. CASE Refresh \/ Measure
  BY <1>4, <1>5, ProcMoves DEF Refresh, Measure
<1>6. ASSUME Works, NEW row \in RunRows, Upsert(row),
             row.status \in {"WAITING", "FAILED"}, row.sig = proc.rec.sig,
             row.exec = proc.rec.exec \/ At("plan"),
             At("executed") => row.status = "FAILED"
      PROVE  Moves
  <2>1. /\ runs' \in Table /\ runs'[Key] = row
        /\ \A k \in Days \X Accounts : k # Key => runs'[k] = runs[k]
    BY <1>6, AtWork, Written DEF Upsert
  <2> QED BY <1>6, <2>1 DEF Closed
<1>7. CASE SyncWaits
  <2>1. Works /\ Upsert(Row("WAITING", "PENDING", proc.rec.exec, proc.rec.sig)) /\ At("sync")
    BY <1>7, ProcMoves DEF SyncWaits
  <2>2. Row("WAITING", "PENDING", proc.rec.exec, proc.rec.sig) \in RunRows
    BY <2>1, AtWork, RowsHold DEF Marks
  <2> QED BY <1>6, <2>1, <2>2 DEF Row, At
<1>8. CASE ExecutionWaits
  <2>1. Works /\ Upsert(Row("WAITING", "COMPLETED", "PENDING", proc.rec.sig)) /\ At("plan")
    BY <1>8, ProcMoves DEF ExecutionWaits
  <2>2. Row("WAITING", "COMPLETED", "PENDING", proc.rec.sig) \in RunRows
    BY <2>1, AtWork, RowsHold DEF Marks
  <2> QED BY <1>6, <2>1, <2>2 DEF Row, At
<1>9. CASE BookFails \/ GenerateFails \/ Fails
  <2>1. Works /\ Upsert([ proc.rec EXCEPT !.status = "FAILED" ])
    BY <1>9, ProcMoves DEF BookFails, GenerateFails, Fails, Fail
  <2> QED BY <1>6, <2>1, AtWork, RowsHold
<1>10. CASE Finish
  <2>1. Works /\ At("finish")
        /\ runs' = [ runs EXCEPT ![Key] =
                       Row("COMPLETED", "COMPLETED", "COMPLETED", "COMPLETED") ]
    BY <1>10, ProcMoves DEF Finish, Upsert
  <2>2. Row("COMPLETED", "COMPLETED", "COMPLETED", "COMPLETED") \in RunRows
    BY RowsHold DEF Marks
  <2> QED BY <2>1, <2>2, AtWork, Written DEF Finished
<1>11. ASSUME NEW d \in Days, Reset(d) PROVE Moves
  BY <1>11 DEF Reset, RowsInv, Table
<1>12. CASE UNCHANGED runs
  BY <1>12 DEF RowsInv
<1> QED
  BY <1>1, <1>3, <1>5, <1>7, <1>8, <1>9, <1>10, <1>11, <1>12, StepCases
  DEF PlanExecution, Book, GenerateExits, GenerateEntries, SaveBundle, PlanNext, Crash

LEMMA RowsStep == ASSUME RowsInv, [Next]_vars PROVE RowsInv'
<1>1. raced' \in BOOLEAN
  BY StepCases
  DEF RowsInv, StartRun, SyncDone, SyncWaits, Refresh, PlanExecution, ExecutionWaits, Book,
      BookFails, MarkExecuted, Measure, GenerateFails, GenerateExits, GenerateEntries,
      SaveBundle, PlanNext, MarkSignals, Finish, Crash, Fails, Reset
<1>2. intents' = [ k \in (2 .. LastDay + 1) \X Accounts |-> intents'[k] ]
  <2>1. CASE PlanNext
    BY <2>1 DEF PlanNext, RowsInv
  <2>2. CASE UNCHANGED intents
    BY <2>2 DEF RowsInv
  <2> QED BY <2>1, <2>2, StepCases
    DEF outputs, StartRun, SyncDone, SyncWaits, Refresh, PlanExecution, ExecutionWaits, Book,
        BookFails, MarkExecuted, Measure, GenerateFails, GenerateExits, GenerateEntries,
        SaveBundle, MarkSignals, Finish, Crash, Fails, Reset
<1>3. proc' = idle \/ Works'
  <2>1. ASSUME NEW d \in Days, NEW a \in Accounts, StartRun(d, a) PROVE Works'
    <3> DEFINE row == IF runs[<< d, a >>] = NoRun THEN NewRow ELSE runs[<< d, a >>]
    <3>1. row \in RunRows
      BY RowsHold DEF RowsInv, Table
    <3>2. proc' = [ pc |-> IF Synced(row) THEN "synced" ELSE "sync", day |-> d,
                    account |-> a, rec |-> row, todo |-> << >> ]
      BY <2>1 DEF StartRun
    <3> HIDE DEF row
    <3> QED BY <3>1, <3>2 DEF Works, Stages
  <2>2. ASSUME Works, NEW pc \in Stages, NEW rec \in RunRows, NEW todo,
               proc' = Worker(pc, rec, todo)
        PROVE  Works'
    BY <2>2, Moved
  <2>3. CASE Refresh \/ Measure
    BY <2>2, <2>3, ProcMoves, RefreshedRow DEF Stages
  <2>4. CASE SyncDone \/ PlanExecution \/ Book \/ MarkExecuted \/ GenerateExits
             \/ GenerateEntries \/ PlanNext \/ MarkSignals
    BY <2>2, <2>4, ProcMoves, AtWork DEF Stages
  <2>5. CASE SaveBundle
    BY <2>2, <2>5, ProcMoves, AtWork DEF Stages
  <2>6. CASE UNCHANGED proc
    BY <2>6 DEF RowsInv, Works
  <2> QED BY <2>1, <2>3, <2>4, <2>5, <2>6, ProcMoves, StepCases DEF Reset
<1> QED BY <1>1, <1>2, <1>3, RowMoves DEF RowsInv

LEMMA RacedStays == ASSUME RowsInv, [Next]_vars, ~ raced' PROVE ~ raced
BY StepCases
DEF RowsInv, StartRun, SyncDone, SyncWaits, Refresh, PlanExecution, ExecutionWaits, Book,
    BookFails, MarkExecuted, Measure, GenerateFails, GenerateExits, GenerateEntries, SaveBundle,
    PlanNext, MarkSignals, Finish, Crash, Fails, Reset

(* The record and the row. *)

LEMMA RecordHolds ==
  ASSUME Works, NEW pc \in Stages, NEW rec, NEW todo, proc' = Worker(pc, rec, todo),
         ~ raced' =>
           /\ runs'[Key] # NoRun
           /\ pc # "executed" => rec.exec = runs'[Key].exec
           /\ rec.sig = "COMPLETED" => runs'[Key].sig = "COMPLETED"
           /\ pc = "plan" => rec.exec # "COMPLETED"
           /\ pc \in {"generate", "exits", "entries", "signalled"}
                => runs'[Key].sig # "COMPLETED"
           /\ pc = "finish" => runs'[Key].sig = "COMPLETED"
  PROVE  RecordInv'
BY Moved DEF RecordInv, At

\* What the process finds when it goes on.
LEMMA RecordFound ==
  ASSUME RowsInv, RecordInv, Works, ~ raced
  PROVE  /\ runs[Key] \in RunRows
         /\ ~ At("executed") => proc.rec.exec = runs[Key].exec
         /\ proc.rec.sig = "COMPLETED" => runs[Key].sig = "COMPLETED"
         /\ At("plan") => proc.rec.exec # "COMPLETED"
         /\ proc.pc \in {"generate", "exits", "entries", "signalled"}
              => runs[Key].sig # "COMPLETED"
         /\ At("finish") => runs[Key].sig = "COMPLETED"
BY AtWork DEF RecordInv, RowsInv, Table

LEMMA FieldSet ==
  ASSUME NEW row \in RunRows, NEW field \in {"market", "exec", "sig"}
  PROVE  /\ [row EXCEPT ![field] = "COMPLETED"][field] = "COMPLETED"
         /\ field # "exec" => [row EXCEPT ![field] = "COMPLETED"].exec = row.exec
         /\ field # "sig" => [row EXCEPT ![field] = "COMPLETED"].sig = row.sig
         /\ [row EXCEPT ![field] = "COMPLETED"].status = row.status
<1>1. DOMAIN row = {"status", "market", "exec", "sig"}
  BY DEF RunRows
<1> QED BY <1>1

LEMMA RecordStep == ASSUME RowsInv, RecordInv, [Next]_vars PROVE RecordInv'
<1>1. ASSUME NEW d \in Days, NEW a \in Accounts, StartRun(d, a) PROVE RecordInv'
  <2> DEFINE row == IF runs[<< d, a >>] = NoRun THEN NewRow ELSE runs[<< d, a >>]
             new == IF Synced(row) THEN row ELSE [ row EXCEPT !.status = "STARTED" ]
  <2>1. row \in RunRows
    BY RowsHold DEF RowsInv, Table
  <2>2. /\ proc' = [ pc |-> IF Synced(row) THEN "synced" ELSE "sync", day |-> d,
                     account |-> a, rec |-> row, todo |-> << >> ]
        /\ runs' = [ runs EXCEPT ![<< d, a >>] = new ]
    BY <1>1 DEF StartRun
  <2>3. new \in RunRows /\ new.exec = row.exec /\ new.sig = row.sig
    BY <2>1, RowsHold
  <2> HIDE DEF row, new
  <2>4. runs'[<< d, a >>] = new
    BY <2>2, <2>3, Written
  <2>5. Key' = << d, a >> /\ proc'.rec = row /\ proc'.pc \in {"synced", "sync"}
    BY <2>2 DEF Key, d0, a0
  <2> QED BY <2>3, <2>4, <2>5, RowsHold DEF RecordInv, At
<1>2. CASE SyncDone
  <2>1. Works /\ Update("market") /\ raced' = raced /\ At("sync")
        /\ proc' = Worker("synced", proc.rec, proc.todo)
    BY <1>2, ProcMoves DEF SyncDone
  <2>2. ASSUME ~ raced
        PROVE  runs[Key] \in RunRows /\ runs'[Key] \in RunRows
               /\ runs'[Key].exec = runs[Key].exec /\ runs'[Key].sig = runs[Key].sig
    <3>1. runs[Key] \in RunRows
      BY <2>1, <2>2, RecordFound
    <3>2. runs'[Key] \in RunRows /\ runs'[Key] = [runs[Key] EXCEPT !["market"] = "COMPLETED"]
      BY <2>1, <3>1, Updated, RowsHold
    <3> QED BY <3>1, <3>2 DEF RunRows
  <2> QED BY <2>1, <2>2, RecordFound, RecordHolds, RowsHold DEF Stages, At
<1>3. CASE MarkExecuted
  <2>1. Works /\ Update("exec") /\ raced' = raced /\ proc.pc \in {"mark", "book"}
        /\ proc' = Worker("executed", proc.rec, proc.todo)
    BY <1>3, ProcMoves DEF MarkExecuted
  <2>2. ASSUME ~ raced
        PROVE  runs[Key] \in RunRows /\ runs'[Key] \in RunRows
               /\ runs'[Key].sig = runs[Key].sig
    <3>1. runs[Key] \in RunRows
      BY <2>1, <2>2, RecordFound
    <3>2. runs'[Key] \in RunRows /\ runs'[Key] = [runs[Key] EXCEPT !["exec"] = "COMPLETED"]
      BY <2>1, <3>1, Updated, RowsHold
    <3> QED BY <3>1, <3>2 DEF RunRows
  <2> QED BY <2>1, <2>2, RecordFound, RecordHolds, RowsHold DEF Stages, At
<1>4. CASE MarkSignals
  <2>1. Works /\ Update("sig") /\ raced' = raced /\ At("signalled")
        /\ proc' = Worker("finish", proc.rec, proc.todo)
    BY <1>4, ProcMoves DEF MarkSignals
  <2>2. ASSUME ~ raced
        PROVE  runs[Key] \in RunRows /\ runs'[Key] \in RunRows
               /\ runs'[Key].exec = runs[Key].exec /\ runs'[Key].sig = "COMPLETED"
    <3>1. runs[Key] \in RunRows
      BY <2>1, <2>2, RecordFound
    <3>2. runs'[Key] \in RunRows /\ runs'[Key] = [runs[Key] EXCEPT !["sig"] = "COMPLETED"]
      BY <2>1, <3>1, Updated, RowsHold
    <3> QED BY <3>1, <3>2 DEF RunRows
  <2> QED BY <2>1, <2>2, RecordFound, RecordHolds, RowsHold DEF Stages, At
<1>5. CASE Refresh \/ Measure
  <2>1. Works /\ runs' = [ runs EXCEPT ![Key] = Refreshed ]
    BY <1>5, ProcMoves DEF Refresh, Measure
  <2>2. Refreshed \in RunRows /\ runs'[Key] = Refreshed
    BY <2>1, AtWork, RefreshedRow, Written
  <2> QED BY <1>5, <2>2, ProcMoves, RecordHolds, RowsHold DEF Stages
<1>6. CASE PlanExecution \/ Book \/ GenerateExits \/ GenerateEntries \/ SaveBundle \/ PlanNext
  <2>1. UNCHANGED << raced, runs >>
    BY <1>6 DEF PlanExecution, Book, GenerateExits, GenerateEntries, SaveBundle, PlanNext
  <2> QED BY <1>6, <2>1, ProcMoves, RecordFound, RecordHolds, RowsHold DEF Stages, At
<1>7. ASSUME NEW d \in Days, Reset(d) PROVE RecordInv'
  BY <1>7 DEF Reset, RecordInv, At
<1>8. CASE UNCHANGED << raced, runs, proc >>
  BY <1>8 DEF RecordInv, At, Key, d0, a0
<1>9. CASE proc' = idle
  BY <1>9 DEF idle, RecordInv, At
<1> QED
  BY <1>1, <1>2, <1>3, <1>4, <1>5, <1>6, <1>7, <1>8, <1>9, ProcMoves, StepCases

\* A completed day has its signals marked.
LEMMA DoneStep == ASSUME RowsInv, DoneInv, [Next]_vars PROVE DoneInv'
<1> SUFFICES ASSUME NEW k \in Days \X Accounts, runs'[k] # NoRun,
                    runs'[k].status = "COMPLETED"
             PROVE  runs'[k].sig = "COMPLETED"
  BY DEF DoneInv, Rows, Completed
<1>1. runs[k] \in RunRows /\ runs[k].status = "COMPLETED" => runs[k].sig = "COMPLETED"
  BY RowsHold DEF DoneInv, Rows, Completed
<1>2. runs[k] = NoRun \/ runs[k] \in RunRows
  BY DEF RowsInv, Table
<1>3. CASE runs'[k] = runs[k]
  BY <1>1, <1>2, <1>3
<1>4. CASE Opened(k)
  BY <1>2, <1>4, RowsHold DEF Opened, NewRow, Row
<1>5. CASE Marked(k)
  BY <1>1, <1>5, FieldSet DEF Marked
<1>6. CASE Closed(k) \/ Finished(k)
  BY <1>6 DEF Closed, Finished, Row
<1> QED BY <1>3, <1>4, <1>5, <1>6, RowMoves

\* Nothing but an exception before the record is read again, or a reset, takes
\* back the mark of the execution.
LEMMA MarkStays ==
  ASSUME RowsInv, RecordInv, [Next]_vars, NEW k \in Rows,
         ~ (At("executed") /\ runs'[k].status = "FAILED")
  PROVE  ~ Unmarks(k)
<1> SUFFICES ASSUME runs[k].exec = "COMPLETED", ~ raced', runs'[k] # NoRun
             PROVE  runs'[k].exec = "COMPLETED"
  BY DEF Unmarks, Completed, Rows
<1>1. k \in Days \X Accounts /\ runs[k] \in RunRows
  BY DEF Rows, RowsInv, Table
<1>2. ~ raced
  BY RacedStays
<1>3. CASE Opened(k)
  BY <1>1, <1>3, RowsHold DEF Opened
<1>4. CASE Marked(k)
  BY <1>1, <1>4, FieldSet DEF Marked
<1>5. CASE Closed(k)
  <2>1. ~ At("executed") /\ proc.rec.exec = runs[k].exec
    BY <1>2, <1>5, RecordFound DEF Closed
  <2> QED BY <1>2, <1>5, <2>1, RecordFound DEF Closed
<1>6. CASE Finished(k)
  BY <1>6 DEF Finished, Row
<1> QED BY <1>1, <1>3, <1>4, <1>5, <1>6, RowMoves, RowsHold DEF Rows

\* The mark of the signals is new only when it was all that was missing.
LEMMA SigMarked ==
  ASSUME RowsInv, RecordInv, [Next]_vars, NEW k \in Rows', ~ raced',
         runs'[k].sig = "COMPLETED"
  PROVE  Signalled(k)
<1>1. k \in Days \X Accounts /\ runs'[k] # NoRun /\ ~ raced
  BY RacedStays DEF Rows
<1>2. runs[k] = NoRun \/ runs[k] \in RunRows
  BY <1>1 DEF RowsInv, Table
<1>3. ASSUME runs[k] \in RunRows, runs[k].sig = "COMPLETED" PROVE Signalled(k)
  BY <1>1, <1>3, RowsHold DEF Signalled, Completed, Rows
<1>4. CASE runs'[k] = runs[k]
  BY <1>1, <1>2, <1>3, <1>4
<1>5. CASE Opened(k)
  BY <1>2, <1>3, <1>5, RowsHold DEF Opened, NewRow, Row
<1>6. CASE Marked(k)
  BY <1>3, <1>6, FieldSet DEF Marked, Signalled
<1>7. CASE Closed(k) \/ Finished(k)
  BY <1>1, <1>3, <1>7, RecordFound DEF Closed, Finished
<1> QED BY <1>1, <1>4, <1>5, <1>6, <1>7, RowMoves


LEMMA OwnSeq == ASSUME NEW S, NEW s \in Seq(S) PROVE s \in Seq(ToSet(s))
<1>1. DOMAIN s = 1 .. Len(s) /\ Len(s) \in Nat /\ s \in [1 .. Len(s) -> S]
  BY LenProperties
<1>2. s \in [1 .. Len(s) -> ToSet(s)]
  BY <1>1 DEF ToSet
<1> QED BY <1>1, <1>2, SeqDef

LEMMA OneFillShrinks ==
  ASSUME BundlesInv, NEW f, fills' = fills \cup {f},
         held' = [ held EXCEPT ![f.account] = IF f.side = "BUY" THEN @ \cup {f.bucket}
                                              ELSE @ \ {f.bucket} ]
  PROVE  /\ held' = [ a \in Accounts |-> held'[a] ]
         /\ \A a \in Accounts : \A c \in held'[a] :
              Untraded(a, c)' => c \in held[a] /\ Untraded(a, c)
<1>1. held' = [ a \in Accounts |-> held'[a] ]
  BY DEF BundlesInv
<1>2. ASSUME NEW a \in Accounts, NEW c \in held'[a], Untraded(a, c)'
      PROVE  c \in held[a] /\ Untraded(a, c)
  <2>1. \A g \in fills \cup {f} : ~ (g.account = a /\ g.bucket = c)
    BY <1>2 DEF Untraded
  <2>2. Untraded(a, c) /\ (f.account = a => f.bucket # c)
    BY <2>1 DEF Untraded
  <2>3. c \in held[a]
    BY <1>2, <2>2 DEF BundlesInv
  <2> QED BY <2>2, <2>3
<1> QED BY <1>1, <1>2

LEMMA HeldShrinks ==
  ASSUME BundlesInv, [Next]_vars
  PROVE  /\ held' = [ a \in Accounts |-> held'[a] ]
         /\ \A a \in Accounts : \A c \in held'[a] :
              Untraded(a, c)' => c \in held[a] /\ Untraded(a, c)
<1> USE DEF BundlesInv
<1>1. CASE Book
  <2>1. CASE NextFill \in fills
    BY <1>1, <2>1 DEF Book, facts, Untraded
  <2>2. CASE NextFill \notin fills
    <3>1. /\ fills' = fills \cup {NextFill}
          /\ held' = [ held EXCEPT ![a0] = IF NextFill.side = "BUY"
                                          THEN @ \cup {NextFill.bucket}
                                          ELSE @ \ {NextFill.bucket} ]
      BY <1>1, <2>2 DEF Book
    <3>2. NextFill.account = a0
      BY DEF NextFill, Fill
    <3> QED BY <3>1, <3>2, OneFillShrinks
  <2> QED BY <2>1, <2>2
<1>2. ASSUME NEW t \in ManualTrades, RecordFill(t)
      PROVE  /\ held' = [ a \in Accounts |-> held'[a] ]
             /\ \A a \in Accounts : \A c \in held'[a] :
                  Untraded(a, c)' => c \in held[a] /\ Untraded(a, c)
  <2> DEFINE f == Fill(t.account, today, t.side, t.bucket, "operator")
  <2>1. /\ fills' = fills \cup {f}
        /\ held' = [ held EXCEPT ![t.account] = IF t.side = "BUY" THEN @ \cup {t.bucket}
                                                ELSE @ \ {t.bucket} ]
    BY <1>2 DEF RecordFill
  <2>2. f.account = t.account /\ f.side = t.side /\ f.bucket = t.bucket
    BY DEF Fill
  <2> HIDE DEF f
  <2> QED BY <2>1, <2>2, OneFillShrinks
<1>3. CASE UNCHANGED << held, fills >>
  BY <1>3 DEF Untraded
<1> QED
  BY <1>1, <1>2, <1>3
  DEF Next, Step, vars, facts, StartRun, SyncDone, SyncWaits, Refresh, PlanExecution,
      ExecutionWaits, BookFails, MarkExecuted, Measure, GenerateFails, GenerateExits,
      GenerateEntries, SaveBundle, PlanNext, MarkSignals, Finish, Crash, Fails, Reset,
      RejectSignal, UnRejectSignal, Backfill, SourceDelivers, NextDay

LEMMA JudgesStays ==
  ASSUME BundlesInv, [Next]_vars, NEW b, b.owner \in Accounts \cup {"all"}, Judges(b)
  PROVE  Judges(b)'
BY HeldShrinks, AccountsAssumption DEF Judges

LEMMA FirstIsDue ==
  ASSUME RowsInv, TodoInv, proc.pc \in {"exits", "entries"}, proc.todo # << >>
  PROVE  LET b == Head(proc.todo)
         IN /\ BundleOf(b) /\ b.day = d0 /\ Judges(b)
            /\ b.owner = IF At("exits") THEN a0 ELSE "all"
<1>1. 1 \in 1 .. Len(proc.todo) /\ Head(proc.todo) = proc.todo[1]
  BY DEF TodoInv
<1> QED BY <1>1 DEF TodoInv

LEMMA BundlesStep == ASSUME RowsInv, TodoInv, BundlesInv, [Next]_vars PROVE BundlesInv'
<1>1. /\ held' = [ a \in Accounts |-> held'[a] ]
      /\ \A a \in Accounts : \A b \in held'[a] : Untraded(a, b)' => b \in Opening[a]
  BY HeldShrinks DEF BundlesInv
<1>2. \A b \in bundles : (BundleOf(b) /\ b.day \in Days /\ Judges(b))'
                         /\ b.owner \in Accounts \cup {"all"}
  BY JudgesStays DEF BundlesInv, BundleOf, Bundle
<1>3. CASE SaveBundle
  <2>1. Works /\ proc.pc \in {"exits", "entries"} /\ proc.todo # << >>
    BY <1>3 DEF SaveBundle, At, RowsInv, idle
  <2>p. PICK b : b = Head(proc.todo)
    OBVIOUS
  <2>2. BundleOf(b) /\ b.day \in Days /\ Judges(b) /\ b.owner \in Accounts \cup {"all"}
    BY <2>1, <2>p, FirstIsDue, AtWork
  <2>3. bundles' \subseteq bundles \cup {b}
    BY <1>3, <2>p DEF SaveBundle
  <2>4. Judges(b)'
    BY <2>2, JudgesStays
  <2>5. BundleOf(b)'
    BY <2>2 DEF BundleOf, Bundle
  <2> QED BY <1>1, <1>2, <2>2, <2>3, <2>4, <2>5 DEF BundlesInv
<1>4. CASE bundles' \subseteq bundles
  BY <1>1, <1>2, <1>4 DEF BundlesInv, BundleOf, Bundle
<1> QED
  BY <1>3, <1>4, StepCases
  DEF outputs, StartRun, SyncDone, SyncWaits, Refresh, PlanExecution, ExecutionWaits, Book,
      BookFails, MarkExecuted, Measure, GenerateFails, GenerateExits, GenerateEntries, PlanNext,
      MarkSignals, Finish, Crash, Fails, Reset

LEMMA ExitsDue ==
  ASSUME NEW d, NEW a, NEW s, s = ExitBundles(d, a)
  PROVE  /\ s \in Seq(ToSet(s)) /\ Len(s) = Len(ExitStrategies) /\ Len(s) \in Nat
         /\ \A i \in 1 .. Len(s) :
              s[i] = Bundle(d, ExitStrategies[i], a, StoppedOut(d, a, ExitStrategies[i]))
<1> DEFINE n == Len(ExitStrategies)
<1>1. n \in Nat /\ s = [ i \in 1 .. n |-> Bundle(d, ExitStrategies[i], a,
                                               StoppedOut(d, a, ExitStrategies[i])) ]
  BY StrategiesAssumption, LenProperties DEF ExitBundles
<1>2. s \in [1 .. n -> ToSet(s)]
  BY <1>1 DEF ToSet
<1> HIDE DEF n
<1>3. s \in Seq(ToSet(s)) /\ Len(s) = n
  BY <1>1, <1>2, SeqDef
<1> QED BY <1>1, <1>3 DEF n

LEMMA EntriesDue ==
  ASSUME NEW d, NEW a \in Accounts, NEW s, s = EntryBundles(d, a)
  PROVE  /\ s \in Seq(ToSet(s)) /\ Len(s) = Len(Pipeline[a]) /\ Len(s) \in Nat
         /\ \A i \in 1 .. Len(s) :
              s[i] = Bundle(d, Pipeline[a][i], "all", EntrySignals(d, a, Pipeline[a][i]))
<1> DEFINE n == Len(Pipeline[a])
<1>1. n \in Nat /\ s = [ i \in 1 .. n |-> Bundle(d, Pipeline[a][i], "all",
                                               EntrySignals(d, a, Pipeline[a][i])) ]
  BY StrategiesAssumption, LenProperties DEF EntryBundles
<1>2. s \in [1 .. n -> ToSet(s)]
  BY <1>1 DEF ToSet
<1> HIDE DEF n
<1>3. s \in Seq(ToSet(s)) /\ Len(s) = n
  BY <1>1, <1>2, SeqDef
<1> QED BY <1>1, <1>3 DEF n

LEMMA RestDue ==
  ASSUME NEW S, NEW q \in Seq(S), q # << >>
  PROVE  /\ Tail(q) \in Seq(ToSet(Tail(q)))
         /\ \A i \in 1 .. Len(Tail(q)) : i + 1 \in 1 .. Len(q) /\ Tail(q)[i] = q[i + 1]
<1> DEFINE t == Tail(q)
<1>1. t \in Seq(S) /\ Len(t) = Len(q) - 1 /\ Len(q) \in Nat
  BY HeadTailProperties, LenProperties
<1>2. \A i \in 1 .. Len(t) : t[i] = q[i + 1]
  BY <1>1, HeadTailProperties
<1>3. t \in Seq(ToSet(t))
  BY <1>1, OwnSeq
<1> HIDE DEF t
<1>4. \A i \in 1 .. Len(t) : i + 1 \in 1 .. Len(q)
  BY <1>1
<1> QED BY <1>2, <1>3, <1>4 DEF t

LEMMA BundleIs ==
  \A d, s, o, y : LET b == Bundle(d, s, o, y)
                  IN /\ b.day = d /\ b.strategy = s /\ b.owner = o /\ b.symbols = y
                     /\ BundleOf(b)
BY DEF Bundle, BundleOf

LEMMA TodoStep == ASSUME RowsInv, TodoInv, BundlesInv, [Next]_vars PROVE TodoInv'
<1>1. CASE GenerateExits
  <2>1. PICK s : s = ExitBundles(d0, a0)
    OBVIOUS
  <2>2. Works /\ d0' = d0 /\ a0' = a0 /\ proc'.pc = "exits" /\ proc'.todo = s
    BY <1>1, <2>1, ProcMoves, Moved DEF Stages
  <2>3. \A i \in 1 .. Len(s) :
          s[i] = Bundle(d0, ExitStrategies[i], a0, StoppedOut(d0, a0, ExitStrategies[i]))
    BY <2>1, ExitsDue
  <2>4. ASSUME NEW i \in 1 .. Len(s)
        PROVE  BundleOf(s[i])' /\ s[i].day = d0 /\ s[i].owner = a0 /\ Judges(s[i])'
    <3>1. /\ BundleOf(s[i]) /\ s[i].day = d0 /\ s[i].owner = a0
          /\ s[i].strategy = ExitStrategies[i]
          /\ s[i].symbols = StoppedOut(d0, a0, ExitStrategies[i])
      BY <2>3, BundleIs
    <3>2. Judges(s[i])
      BY <3>1 DEF Judges, StoppedOut
    <3>3. s[i].owner \in Accounts \cup {"all"}
      BY <2>2, <3>1, AtWork
    <3>4. Judges(s[i])'
      BY <3>2, <3>3, JudgesStays
    <3> QED BY <3>1, <3>4 DEF BundleOf, Bundle
  <2> QED BY <2>1, <2>2, <2>4, ExitsDue DEF TodoInv, At
<1>2. CASE GenerateEntries
  <2>1. PICK s : s = EntryBundles(d0, a0)
    OBVIOUS
  <2>2. Works /\ d0' = d0 /\ a0 \in Accounts /\ proc'.pc = "entries" /\ proc'.todo = s
    BY <1>2, <2>1, ProcMoves, Moved, AtWork DEF Stages
  <2>3. \A i \in 1 .. Len(s) : BundleOf(s[i]) /\ s[i].day = d0 /\ s[i].owner = "all"
    BY <2>1, <2>2, EntriesDue, BundleIs
  <2>4. \A i \in 1 .. Len(s) : (BundleOf(s[i]) /\ Judges(s[i]))'
    BY <2>3 DEF BundleOf, Bundle, Judges
  <2> QED BY <2>1, <2>2, <2>3, <2>4, EntriesDue DEF TodoInv, At
<1>3. CASE SaveBundle
  <2>1. PICK s : s = Tail(proc.todo)
    OBVIOUS
  <2>2. /\ Works /\ d0' = d0 /\ a0' = a0 /\ proc'.pc = proc.pc /\ proc'.todo = s
        /\ proc.pc \in {"exits", "entries"} /\ proc.todo # << >>
    BY <1>3, <2>1, ProcMoves, Moved DEF Stages
  <2>3. s \in Seq(ToSet(s))
        /\ \A i \in 1 .. Len(s) : i + 1 \in 1 .. Len(proc.todo) /\ s[i] = proc.todo[i + 1]
    <3>1. PICK q : q = proc.todo
      OBVIOUS
    <3>2. q \in Seq(ToSet(q)) /\ q # << >> /\ s = Tail(q)
      BY <2>1, <2>2, <3>1 DEF TodoInv
    <3>3. PICK S : S = ToSet(q)
      OBVIOUS
    <3>4. q \in Seq(S)
      BY <3>2, <3>3
    <3>5. /\ s \in Seq(ToSet(s))
          /\ \A i \in 1 .. Len(s) : i + 1 \in 1 .. Len(q) /\ s[i] = q[i + 1]
      <4>1. PICK r : r = Tail(q)
        OBVIOUS
      <4>2. /\ r \in Seq(ToSet(r))
            /\ \A i \in 1 .. Len(r) : i + 1 \in 1 .. Len(q) /\ r[i] = q[i + 1]
        BY <3>2, <3>4, <4>1, RestDue
      <4> QED BY <3>2, <4>1, <4>2
    <3> QED BY <3>1, <3>5
  <2>4. \A i \in 1 .. Len(s) :
          /\ BundleOf(s[i]) /\ s[i].day = d0 /\ Judges(s[i])
          /\ s[i].owner = IF At("exits") THEN a0 ELSE "all"
    BY <2>2, <2>3 DEF TodoInv
  <2>5. ASSUME NEW i \in 1 .. Len(s) PROVE (BundleOf(s[i]) /\ Judges(s[i]))'
    <3>1. s[i].owner \in Accounts \cup {"all"}
      BY <2>2, <2>4, AtWork
    <3> QED BY <2>4, <3>1, JudgesStays DEF BundleOf, Bundle
  <2> QED BY <2>2, <2>3, <2>4, <2>5 DEF TodoInv, At
<1>4. CASE UNCHANGED proc
  <2> SUFFICES ASSUME proc.pc \in {"exits", "entries"} PROVE TodoInv'
    BY <1>4 DEF TodoInv
  <2>1. Works
    BY IdleOrAtWork DEF At
  <2>p. PICK s : s = proc.todo
    OBVIOUS
  <2>2. /\ s \in Seq(ToSet(s))
        /\ \A i \in 1 .. Len(s) :
             /\ BundleOf(s[i]) /\ s[i].day = d0 /\ Judges(s[i])
             /\ s[i].owner = IF At("exits") THEN a0 ELSE "all"
    BY <2>p DEF TodoInv
  <2>3. ASSUME NEW i \in 1 .. Len(s) PROVE Judges(s[i])'
    <3>1. Judges(s[i]) /\ s[i].owner \in Accounts \cup {"all"}
      BY <2>1, <2>2, AtWork
    <3> QED BY <3>1, JudgesStays
  <2>4. \A i \in 1 .. Len(s) : BundleOf(s[i])'
    BY <2>2 DEF BundleOf, Bundle
  <2> QED BY <1>4, <2>p, <2>2, <2>3, <2>4 DEF TodoInv, At, d0, a0
<1>5. CASE proc'.pc \notin {"exits", "entries"}
  BY <1>5 DEF TodoInv
<1>6. ASSUME NEW d \in Days, NEW a \in Accounts, StartRun(d, a)
      PROVE  proc'.pc \notin {"exits", "entries"}
  BY <1>6 DEF StartRun
<1>7. ASSUME SyncDone \/ Refresh \/ PlanExecution \/ Book \/ MarkExecuted \/ Measure
             \/ PlanNext \/ MarkSignals
      PROVE  proc'.pc \notin {"exits", "entries"}
  BY <1>7, ProcMoves DEF Worker
<1>8. ASSUME proc' = idle PROVE proc'.pc \notin {"exits", "entries"}
  BY <1>8 DEF idle
<1> QED
  BY <1>1, <1>2, <1>3, <1>4, <1>5, <1>6, <1>7, <1>8, ProcMoves, StepCases
  DEF Reset

\* A bundle that was due is there after it was saved, unless it had no signal.
LEMMA SavedNow ==
  ASSUME RowsInv, TodoInv, SaveBundle, NEW b, b = Head(proc.todo)
  PROVE  /\ bundles \subseteq bundles'
         /\ NoSignal(b) \/ \E c \in bundles' : SameId(c, b)
         /\ \A c \in bundles' : c \in bundles
               \/ (c = b /\ ~ \E e \in bundles : SameId(e, b))
<1>1. bundles' = IF NoSignal(b) \/ \E e \in bundles : SameId(e, b) THEN bundles
                 ELSE bundles \cup {b}
  BY DEF SaveBundle
<1>2. SameId(b, b)
  BY DEF SameId
<1> QED BY <1>1, <1>2

LEMMA ProgressStep ==
  ASSUME RowsInv, RecordInv, TodoInv, BundlesInv, ProgressInv, [Next]_vars, ~ raced'
  PROVE  ProgressInv'
<1>0. \A d \in Days, a \in Accounts : \A s : Stopped(d, a, s)' => Stopped(d, a, s)
  BY HeldShrinks DEF Stopped
<1>1. CASE GenerateExits
  <2>0. Works
    BY <1>1, ProcMoves
  <2>1. proc' = Worker("exits", proc.rec, ExitBundles(d0, a0)) /\ d0' = d0 /\ a0' = a0
    BY <1>1, <2>0 DEF GenerateExits, Works, Worker, d0, a0
  <2>2. ASSUME NEW s \in ToSet(ExitStrategies) PROVE Waiting(s, a0)'
    <3>1. PICK i \in 1 .. Len(ExitStrategies) : ExitStrategies[i] = s
      BY StrategiesAssumption, LenProperties DEF ToSet
    <3>2. PICK todo : todo = ExitBundles(d0, a0)
      OBVIOUS
    <3>3. /\ todo = [ j \in 1 .. Len(ExitStrategies) |->
                        Bundle(d0, ExitStrategies[j], a0, StoppedOut(d0, a0, ExitStrategies[j])) ]
          /\ Len(ExitStrategies) \in Nat
      BY <3>2, StrategiesAssumption, LenProperties DEF ExitBundles
    <3>4. Len(todo) = Len(ExitStrategies)
      <4>1. PICK n \in Nat : n = Len(ExitStrategies)
        BY <3>3
      <4>2. DOMAIN todo = 1 .. n
        BY <3>3, <4>1
      <4> QED BY <4>1, <4>2
    <3>5. SameId(todo[i], Bundle(d0, s, a0, {}))
      BY <3>1, <3>3, BundleIs DEF SameId
    <3>6. proc'.todo = todo
      BY <2>1, <3>2 DEF Worker
    <3> QED BY <2>1, <3>4, <3>5, <3>6 DEF Waiting, SameId, Bundle
  <2>3. proc'.pc = "exits"
    BY <2>1 DEF Worker
  <2> QED BY <2>1, <2>2, <2>3 DEF ProgressInv, At
<1>2. CASE GenerateEntries
  <2>0. Works
    BY <1>2, ProcMoves
  <2>1. proc' = Worker("entries", proc.rec, EntryBundles(d0, a0)) /\ d0' = d0 /\ a0' = a0
        /\ bundles' = bundles /\ At("exits") /\ proc.todo = << >>
    BY <1>2, <2>0 DEF GenerateEntries, Works, Worker, d0, a0, outputs
  <2>2. ASSUME NEW s \in ToSet(Pipeline[a0]) PROVE Waiting(s, "all")'
    <3>0. Pipeline[a0] \in Seq(STRING)
      BY <2>0, AtWork, StrategiesAssumption
    <3>1. PICK i \in 1 .. Len(Pipeline[a0]) : Pipeline[a0][i] = s
      BY <3>0, LenProperties DEF ToSet
    <3>2. PICK todo : todo = EntryBundles(d0, a0)
      OBVIOUS
    <3>3. /\ todo = [ j \in 1 .. Len(Pipeline[a0]) |->
                        Bundle(d0, Pipeline[a0][j], "all",
                               EntrySignals(d0, a0, Pipeline[a0][j])) ]
          /\ Len(Pipeline[a0]) \in Nat
      BY <3>0, <3>2, LenProperties DEF EntryBundles
    <3>4. Len(todo) = Len(Pipeline[a0])
      BY <3>3
    <3>5. SameId(todo[i], Bundle(d0, s, "all", {}))
      BY <3>1, <3>3, BundleIs DEF SameId
    <3>6. proc'.todo = todo
      BY <2>1, <3>2 DEF Worker
    <3> QED BY <2>1, <3>1, <3>4, <3>5, <3>6 DEF Waiting, SameId, Bundle
  <2>3. proc'.pc = "entries"
    BY <2>1 DEF Worker
  <2>4. \A s \in ToSet(ExitStrategies) : Stopped(d0, a0, s) => Saved(d0, s, a0)
    BY <2>1 DEF ProgressInv, Waiting, At
  <2>5. \A s \in ToSet(ExitStrategies) : Stopped(d0, a0, s)' => Saved(d0, s, a0)'
    BY <1>0, <2>0, <2>1, <2>4, AtWork DEF Saved, SameId, Bundle
  <2> QED BY <2>1, <2>2, <2>3, <2>5 DEF ProgressInv, At, Stopped, Saved
<1>3. CASE SaveBundle
  <2>0. Works
    BY <1>3, ProcMoves
  <2>1. proc' = Worker(proc.pc, proc.rec, Tail(proc.todo)) /\ d0' = d0 /\ a0' = a0
        /\ proc.pc \in {"exits", "entries"} /\ proc.todo # << >>
    BY <1>3, <2>0 DEF SaveBundle, At, Works, Worker, d0, a0
  <2>2. PICK b : b = Head(proc.todo)
    OBVIOUS
  <2>3. /\ bundles \subseteq bundles'
        /\ NoSignal(b) \/ \E c \in bundles' : SameId(c, b)
    BY <1>3, <2>2, SavedNow
  <2>4. b.day = d0 /\ Judges(b) /\ b.owner = IF At("exits") THEN a0 ELSE "all"
    BY <2>1, <2>2, FirstIsDue
  <2>5. ASSUME NEW s, NEW owner, SameId(b, Bundle(d0, s, owner, {})),
               At("exits") => owner = a0 /\ Stopped(d0, a0, s)
        PROVE  Saved(d0, s, owner)'
    <3>1. b.strategy = s /\ b.owner = owner
      BY <2>5, BundleIs DEF SameId
    <3>2. ~ NoSignal(b)
      BY <2>0, <2>1, <2>4, <2>5, <3>1, AtWork, AccountsAssumption
      DEF NoSignal, Judges, Stopped, At
    <3>3. PICK c \in bundles' : SameId(c, b)
      BY <2>3, <3>2
    <3> QED BY <2>1, <2>4, <3>1, <3>3 DEF Saved, SameId, Bundle
  <2>6. ASSUME NEW s, NEW owner, Waiting(s, owner),
               At("exits") => owner = a0 /\ Stopped(d0, a0, s)
        PROVE  Saved(d0, s, owner)' \/ Waiting(s, owner)'
    <3>1. PICK i \in 1 .. Len(proc.todo) : SameId(proc.todo[i], Bundle(d0, s, owner, {}))
      BY <2>6 DEF Waiting
    <3>2. proc.todo \in Seq(ToSet(proc.todo))
      BY <2>1 DEF TodoInv
    <3>3. CASE i = 1
      <4>1. proc.todo[i] = b
        BY <2>1, <2>2, <3>2, <3>3, HeadTailProperties
      <4> QED BY <2>5, <2>6, <3>1, <4>1
    <3>4. CASE i # 1
      <4>1. PICK t : t = Tail(proc.todo)
        OBVIOUS
      <4>2. i - 1 \in 1 .. Len(t) /\ t[i - 1] = proc.todo[i]
        <5> DEFINE S == ToSet(proc.todo)
                   q == proc.todo
        <5>1. q \in Seq(S) /\ q # << >> /\ i \in 1 .. Len(q) /\ t = Tail(q)
          BY <2>1, <3>2, <4>1
        <5> HIDE DEF S, q
        <5>2. Len(t) = Len(q) - 1 /\ Len(q) \in Nat
          BY <5>1, HeadTailProperties, LenProperties
        <5>3. i - 1 \in 1 .. Len(t)
          BY <3>4, <5>1, <5>2
        <5>4. t[i - 1] = q[(i - 1) + 1]
          BY <5>1, <5>2, <5>3, HeadTailProperties
        <5> QED BY <5>1, <5>3, <5>4 DEF q
      <4>3. proc'.todo = t
        BY <2>1, <4>1 DEF Worker
      <4>4. SameId(t[i - 1], Bundle(d0, s, owner, {}))
        BY <3>1, <4>2
      <4> QED BY <2>1, <4>2, <4>3, <4>4 DEF Waiting, SameId, Bundle
    <3> QED BY <3>3, <3>4
  <2>7. \A s, owner : Saved(d0, s, owner) => Saved(d0, s, owner)'
    BY <2>1, <2>3 DEF Saved, SameId, Bundle
  <2>8. proc'.pc = proc.pc
    BY <2>1 DEF Worker
  <2>9. ASSUME NEW s \in ToSet(ExitStrategies), Stopped(d0, a0, s)'
        PROVE  Saved(d0, s, a0)' \/ (At("exits") /\ Waiting(s, a0))'
    <3>1. Stopped(d0, a0, s)
      BY <1>0, <2>0, <2>1, <2>9, AtWork
    <3>2. Saved(d0, s, a0) \/ (At("exits") /\ Waiting(s, a0))
      BY <2>1, <3>1 DEF ProgressInv
    <3> QED BY <2>1, <2>6, <2>7, <2>8, <3>1, <3>2 DEF At, Saved, Waiting
  <2>10. ASSUME proc.pc = "entries", NEW s \in ToSet(Pipeline[a0])
         PROVE  Saved(d0, s, "all")' \/ (At("entries") /\ Waiting(s, "all"))'
    <3>1. Saved(d0, s, "all") \/ Waiting(s, "all")
      BY <2>10 DEF ProgressInv
    <3> QED BY <2>6, <2>7, <2>8, <2>10, <3>1 DEF At
  <2> QED BY <2>1, <2>8, <2>9, <2>10 DEF ProgressInv
<1>4. CASE PlanNext
  <2>0. Works
    BY <1>4, ProcMoves
  <2>1. proc' = Worker("signalled", proc.rec, proc.todo) /\ d0' = d0 /\ a0' = a0
        /\ bundles' = bundles /\ At("entries") /\ proc.todo = << >>
    BY <1>4, <2>0 DEF PlanNext, Works, Worker, d0, a0, Goto
  <2>2. proc'.pc = "signalled"
    BY <2>1 DEF Worker
  <2>3. /\ \A s \in ToSet(ExitStrategies) : Stopped(d0, a0, s) => Saved(d0, s, a0)
        /\ \A s \in ToSet(Pipeline[a0]) : Saved(d0, s, "all")
    BY <2>1 DEF ProgressInv, Waiting, At
  <2>4. \A s \in ToSet(ExitStrategies) : Stopped(d0, a0, s)' => Saved(d0, s, a0)'
    BY <1>0, <2>0, <2>1, <2>3, AtWork DEF Saved, SameId, Bundle
  <2>5. \A s \in ToSet(Pipeline[a0]) : Saved(d0, s, "all")'
    BY <2>1, <2>3 DEF Saved, SameId, Bundle
  <2> QED BY <2>1, <2>2, <2>4, <2>5 DEF ProgressInv, At, Stopped, Saved
<1>5. CASE UNCHANGED << proc, bundles >>
  <2> SUFFICES ASSUME proc.pc \in {"exits", "entries", "signalled"} PROVE ProgressInv'
    BY <1>5 DEF ProgressInv
  <2>0. Works
    BY DEF RowsInv, idle
  <2>1. d0' = d0 /\ a0' = a0
    BY <1>5 DEF d0, a0
  <2>2. \A s : Stopped(d0, a0, s)' => Stopped(d0, a0, s)
    BY <1>0, <2>0, <2>1, AtWork
  <2>3. \A s, owner : (Saved(d0, s, owner)' <=> Saved(d0, s, owner))
                      /\ (Waiting(s, owner)' <=> Waiting(s, owner))
    BY <1>5, <2>1 DEF Saved, Waiting, SameId, Bundle
  <2> QED BY <1>5, <2>1, <2>2, <2>3 DEF ProgressInv, At
<1>6. CASE proc'.pc \notin {"exits", "entries", "signalled"}
  BY <1>6 DEF ProgressInv
<1>7. ASSUME NEW d \in Days, Reset(d) PROVE proc'.pc \notin {"exits", "entries", "signalled"}
  BY <1>7 DEF Reset, At
<1>8. ASSUME NEW d \in Days, NEW a \in Accounts, StartRun(d, a)
      PROVE  proc'.pc \notin {"exits", "entries", "signalled"}
  BY <1>8 DEF StartRun
<1>9. ASSUME SyncDone \/ Refresh \/ PlanExecution \/ Book \/ MarkExecuted \/ Measure
             \/ MarkSignals
      PROVE  proc'.pc \notin {"exits", "entries", "signalled"}
  BY <1>9, ProcMoves DEF Worker
<1>10. ASSUME proc' = idle PROVE proc'.pc \notin {"exits", "entries", "signalled"}
  BY <1>10 DEF idle
<1> QED
  BY <1>1, <1>2, <1>3, <1>4, <1>5, <1>6, <1>7, <1>8, <1>9, <1>10, ProcMoves, StepCases
  DEF outputs, SyncWaits, ExecutionWaits, BookFails, GenerateFails, Finish, Crash, Fails

\* An item passes the gate when a bundle the account sees has it.
LEMMA GateIs ==
  ASSUME NEW a, NEW e, NEW x
  PROVE  x \in Gated(a, e) <=>
           \E b \in Visible(a, e) : (b.owner = "all" => InPipeline(a, b.strategy))
              /\ \E y \in b.symbols : x = << b.day, b.strategy, b.owner, y >>
BY DEF Gated, SignalsOf, Item

\* What passes the gate of an account depends on its own exit bundles and on the
\* entry bundles of its pipeline only.
LEMMA GateUnmoved ==
  ASSUME NEW a, NEW e,
         Visible(a, e) \subseteq Visible(a, e)',
         \A b \in Visible(a, e)' : b \in Visible(a, e)
                                  \/ (b.owner = "all" /\ ~ InPipeline(a, b.strategy))
  PROVE  Gated(a, e)' = Gated(a, e)
<1>1. ASSUME NEW x
      PROVE  x \in Gated(a, e)' <=> x \in Gated(a, e)
  <2>1. x \in Gated(a, e)' <=>
          \E b \in Visible(a, e)' : (b.owner = "all" => InPipeline(a, b.strategy))
             /\ \E y \in b.symbols : x = << b.day, b.strategy, b.owner, y >>
    BY DEF Gated, SignalsOf, Item, InPipeline
  <2> QED BY <2>1, GateIs
<1> QED BY <1>1

LEMMA PlanStep ==
  ASSUME RowsInv, RecordInv, TodoInv, BundlesInv, ProgressInv, PlanInv, [Next]_vars, ~ raced'
  PROVE  PlanInv'
<1> SUFFICES ASSUME NEW k \in Days \X Accounts, Signalled(k)'
             PROVE  Planned(k)'
  BY DEF PlanInv
<1>d. k[1] \in Nat /\ k[1] \in Days /\ k[2] \in Accounts /\ k = << k[1], k[2] >>
      /\ << k[1] + 1, k[2] >> \in (2 .. LastDay + 1) \X Accounts
  BY DaysAssumption DEF Days
<1>m. Completed(k, "sig")' => Signalled(k)
  BY SigMarked DEF Completed
<1>1. ASSUME Signalled(k), intents' = intents, bundles' = bundles, Overridden \subseteq Overridden'
      PROVE  Planned(k)'
  <2>1. Planned(k)
    BY <1>1 DEF PlanInv
  <2>2. Gated(k[2], k[1] + 1)' = Gated(k[2], k[1] + 1)
    BY <1>1 DEF Gated, SignalsOf, Visible, InPipeline
  <2> QED BY <1>1, <2>1, <2>2 DEF Planned, EntriesSaved, SameId, Bundle
<1>2. CASE PlanNext
  <2>0. Works
    BY <1>2, ProcMoves
  <2>1. /\ bundles' = bundles /\ runs' = runs /\ At("entries") /\ proc.todo = << >>
        /\ intents' = [ intents EXCEPT ![<< d0 + 1, a0 >>] = Loaded(a0, d0 + 1) ]
        /\ Key' = Key /\ rejected' = rejected /\ restored' = restored
    BY <1>2, <2>0 DEF PlanNext, Works, Key, d0, a0, Goto, overrides
  <2>2. Gated(k[2], k[1] + 1)' = Gated(k[2], k[1] + 1) /\ Overridden' = Overridden
    BY <2>1 DEF Gated, SignalsOf, Visible, InPipeline, Overridden
  <2>3. CASE k = Key
    <3>1. k[1] = d0 /\ k[2] = a0
      BY <2>3 DEF Key
    <3>2. intents'[<< k[1] + 1, k[2] >>] = Gated(k[2], k[1] + 1) \ rejected
      BY <1>d, <2>1, <3>1 DEF RowsInv, Loaded
    <3>3. \A s \in ToSet(Pipeline[a0]) : Saved(d0, s, "all")
      BY <2>1 DEF ProgressInv, Waiting, At
    <3>4. EntriesSaved(k[1], k[2])'
      BY <2>1, <3>1, <3>3 DEF EntriesSaved, Saved, SameId, Bundle
    <3> QED BY <2>2, <3>2, <3>4 DEF Planned, Overridden
  <2>4. CASE k # Key
    <3>1. Signalled(k)
      BY <1>m, <2>1, <2>4 DEF Signalled
    <3>2. Planned(k)
      BY <3>1 DEF PlanInv
    <3>3. d0 \in Nat /\ << k[1] + 1, k[2] >> # << d0 + 1, a0 >>
      BY <1>d, <2>0, <2>4, AtWork DEF Key, Days
    <3>4. intents'[<< k[1] + 1, k[2] >>] = intents[<< k[1] + 1, k[2] >>]
      BY <1>d, <2>1, <3>3 DEF RowsInv
    <3> QED BY <2>1, <2>2, <3>2, <3>4 DEF Planned, EntriesSaved, SameId, Bundle
  <2> QED BY <2>3, <2>4
<1>3. CASE SaveBundle
  <2>0. Works
    BY <1>3, ProcMoves
  <2>1. /\ runs' = runs /\ intents' = intents /\ raced' = raced /\ Key' = Key
        /\ proc'.pc = proc.pc /\ proc.pc \in {"exits", "entries"} /\ proc.todo # << >>
        /\ Overridden' = Overridden
    BY <1>3, <2>0 DEF SaveBundle, Works, Key, d0, a0, At, overrides, Overridden
  <2>2. Signalled(k) /\ k # Key
    <3>1. runs[Key].sig # "COMPLETED"
      BY <2>0, <2>1, RecordFound
    <3>2. Completed(k, "sig")
      BY <2>1 DEF Signalled, At, Completed, Rows
    <3> QED BY <3>1, <3>2 DEF Signalled, Completed
  <2>3. Planned(k)
    BY <2>2 DEF PlanInv
  <2>4. PICK b : b = Head(proc.todo)
    OBVIOUS
  <2>5. /\ bundles \subseteq bundles'
        /\ \A c \in bundles' : c \in bundles \/ (c = b /\ ~ \E e \in bundles : SameId(e, b))
    BY <1>3, <2>4, SavedNow
  <2>6. b.day = d0 /\ d0 \in Nat /\ b.owner = IF At("exits") THEN a0 ELSE "all"
    BY <2>0, <2>1, <2>4, FirstIsDue, AtWork DEF Days
  <2>7. ASSUME NEW c \in Visible(k[2], k[1] + 1)'
        PROVE  c \in Visible(k[2], k[1] + 1)
               \/ (c.owner = "all" /\ ~ InPipeline(k[2], c.strategy))
    <3>1. c \in bundles' /\ c.day + 1 = k[1] + 1 /\ c.owner \in {"all", k[2]}
      BY <2>7 DEF Visible
    <3>2. CASE c \in bundles
      BY <3>1, <3>2 DEF Visible
    <3>3. CASE c = b /\ ~ \E e \in bundles : SameId(e, b)
      <4>1. d0 = k[1]
        BY <1>d, <2>6, <3>1, <3>3
      <4>2. a0 # k[2]
        BY <1>d, <2>2, <4>1 DEF Key
      <4>3. b.owner = "all"
        BY <2>6, <3>1, <3>3, <4>2
      <4>4. ~ InPipeline(k[2], b.strategy)
        BY <2>3, <2>6, <3>3, <4>1, <4>3, BundleIs DEF InPipeline, Planned, EntriesSaved, SameId
      <4> QED BY <3>3, <4>3, <4>4
    <3> QED BY <2>5, <3>1, <3>2, <3>3
  <2>8. Visible(k[2], k[1] + 1) \subseteq Visible(k[2], k[1] + 1)'
    BY <2>5 DEF Visible
  <2>9. Gated(k[2], k[1] + 1)' = Gated(k[2], k[1] + 1)
    BY <2>7, <2>8, GateUnmoved
  <2> QED BY <2>1, <2>3, <2>5, <2>9 DEF Planned, EntriesSaved, SameId, Bundle
<1>4. ASSUME NEW d \in Days, Reset(d) PROVE Planned(k)'
  <2>1. /\ runs' = [ j \in Days \X Accounts |-> IF j[1] = d THEN NoRun ELSE runs[j] ]
        /\ bundles' = { b \in bundles : b.day # d } /\ intents' = intents /\ proc' = proc
        /\ rejected' = { i \in rejected : i[1] # d } /\ restored' = { i \in restored : i[1] # d }
        /\ At("idle")
    BY <1>4 DEF Reset, outputs
  <2>2. Completed(k, "sig")'
    BY <2>1 DEF Signalled, At
  <2>3. k[1] # d /\ Signalled(k)
    BY <1>m, <2>1, <2>2 DEF Completed, Rows
  <2>4. Planned(k)
    BY <2>3 DEF PlanInv
  <2>5. \A b \in bundles : b.day \in Nat
    BY DEF BundlesInv, Days
  <2>6. Visible(k[2], k[1] + 1)' = Visible(k[2], k[1] + 1)
    BY <1>d, <2>1, <2>3, <2>5 DEF Visible
  <2>7. Gated(k[2], k[1] + 1)' = Gated(k[2], k[1] + 1)
    BY <2>6, GateUnmoved
  <2>8. EntriesSaved(k[1], k[2])'
    BY <2>1, <2>3, <2>4 DEF Planned, EntriesSaved, SameId, Bundle
  <2>9. ASSUME NEW i \in Gated(k[2], k[1] + 1) PROVE i[1] = k[1]
    <3>1. PICK b \in Visible(k[2], k[1] + 1) :
            \E y \in b.symbols : i = << b.day, b.strategy, b.owner, y >>
      BY <2>9, GateIs
    <3>2. b.day \in Nat /\ b.day + 1 = k[1] + 1
      BY <2>5, <3>1 DEF Visible
    <3> QED BY <1>d, <3>1, <3>2
  <2>10. Gated(k[2], k[1] + 1) \subseteq intents[<< k[1] + 1, k[2] >>] \cup Overridden'
    BY <2>1, <2>3, <2>4, <2>9 DEF Planned, Overridden
  <2> QED BY <2>1, <2>4, <2>7, <2>8, <2>10 DEF Planned
<1>5. ASSUME UNCHANGED proc PROVE Signalled(k)
  BY <1>5, <1>m DEF Signalled, At, Key, d0, a0
<1>6. ASSUME proc'.pc # "signalled" PROVE Signalled(k)
  BY <1>6, <1>m DEF Signalled, At
<1>7. ASSUME SyncDone \/ Refresh \/ PlanExecution \/ Book \/ MarkExecuted \/ Measure
             \/ MarkSignals \/ GenerateExits \/ GenerateEntries
      PROVE  proc'.pc # "signalled"
  BY <1>7, ProcMoves DEF Worker
<1>8. ASSUME NEW d \in Days, NEW a \in Accounts, StartRun(d, a)
      PROVE  proc'.pc # "signalled" /\ UNCHANGED << intents, bundles, overrides >>
  BY <1>8 DEF StartRun, outputs
<1>9. ASSUME proc' = idle PROVE proc'.pc # "signalled"
  BY <1>9 DEF idle
<1>10. ASSUME UNCHANGED overrides PROVE Overridden \subseteq Overridden'
  BY <1>10 DEF overrides, Overridden
<1> QED
  BY <1>1, <1>2, <1>3, <1>4, <1>5, <1>6, <1>7, <1>8, <1>9, <1>10, ProcMoves, StepCases
  DEF outputs, SyncDone, SyncWaits, Refresh, PlanExecution, ExecutionWaits, Book, BookFails,
      MarkExecuted, Measure, GenerateFails, GenerateExits, GenerateEntries, MarkSignals, Finish,
      Crash, Fails

LEMMA InitInv == Init => Inv
<1> SUFFICES ASSUME Init PROVE Inv OBVIOUS
<1>1. RowsInv
  BY DEF Init, RowsInv, Table, NoRun
<1>2. RecordInv /\ TodoInv /\ ProgressInv
  BY DEF Init, idle, RecordInv, TodoInv, ProgressInv, At
<1>3. BundlesInv
  BY AccountsAssumption DEF Init, BundlesInv
<1>4. DoneInv /\ PlanInv
  <2>1. \A k \in Days \X Accounts : runs[k] = NoRun
    BY DEF Init
  <2>2. ~ At("signalled")
    BY DEF Init, idle, At
  <2> QED BY <2>1, <2>2 DEF DoneInv, PlanInv, Rows, Completed, Signalled
<1> QED BY <1>1, <1>2, <1>3, <1>4 DEF Inv

LEMMA InvStep == ASSUME Inv, [Next]_vars PROVE Inv'
<1>1. RowsInv' /\ RecordInv' /\ TodoInv' /\ BundlesInv' /\ DoneInv'
  BY RowsStep, RecordStep, TodoStep, BundlesStep, DoneStep DEF Inv
<1>2. ASSUME ~ raced' PROVE ProgressInv' /\ PlanInv'
  BY <1>2, RacedStays, ProgressStep, PlanStep DEF Inv
<1> QED BY <1>1, <1>2 DEF Inv

THEOREM Invariance == Spec => []Inv
<1>1. Inv /\ [Next]_vars => Inv'
  BY InvStep
<1> QED BY <1>1, InitInv, PTL DEF Spec

\* What the plan of the next execution shows of a completed day is what its
\* loader will find, but for signals rejected and restored (IntentsMatchLoader),
\* for every set of accounts, strategies and days, whatever the runs of the other
\* accounts save and the operator rejects later.
THEOREM ShownIsLoaded == Spec => []IntentsMatchLoader
<1>1. Inv => IntentsMatchLoader
  <2> SUFFICES ASSUME Inv, NEW k \in Rows, Completed(k, "status"), ~ raced
               PROVE  /\ Shown(k[2], k[1] + 1) \subseteq Loaded(k[2], k[1] + 1)
                      /\ Loaded(k[2], k[1] + 1) \ Shown(k[2], k[1] + 1) \subseteq restored
    BY DEF IntentsMatchLoader
  <2>1. Signalled(k) /\ k \in Days \X Accounts
    BY DEF Inv, DoneInv, Signalled, Rows
  <2>2. Planned(k)
    BY <2>1 DEF Inv, PlanInv
  <2> QED BY <2>2 DEF Planned, Shown, Loaded, Overridden
<1> QED BY <1>1, Invariance, PTL

\* The mark that keeps a rerun from executing the day again is taken back by
\* nothing but a reset (ExecutionStaysMarked), but for an exception that comes
\* before the record is read again.
THEOREM ExecutionMarkStays == Spec => ExecutionStaysMarked
<1>1. Inv /\ [Next]_vars =>
        [ \A k \in Rows : ~ (At("executed") /\ runs'[k].status = "FAILED") => ~ Unmarks(k) ]_vars
  BY MarkStays DEF Inv
<1> QED BY <1>1, Invariance, PTL DEF Spec, ExecutionStaysMarked

\* When the signals of a day are marked, every stopped position of the account
\* has its SELL and every strategy of its pipeline its bundle (SignalsComplete),
\* wherever earlier runs of the day were cut off.
THEOREM MarkedSignalsComplete == Spec => SignalsComplete
<1>1. ASSUME Inv, [Next]_vars, NEW k \in Rows, ~ Completed(k, "sig"), Completed(k, "sig")',
             ~ raced'
      PROVE  ExitsSaved(k[1], k[2]) /\ EntriesSaved(k[1], k[2])
  <2>1. At("signalled") /\ k = Key
    BY <1>1, SigMarked DEF Inv, Completed, Signalled
  <2>2. ~ raced /\ Works
    BY <1>1, <2>1, RacedStays DEF Inv, RowsInv, At, idle
  <2>3. k[1] = d0 /\ k[2] = a0 /\ d0 \in Nat /\ a0 \in Accounts
    BY <2>1, <2>2, AtWork DEF Key, Days
  <2>4. EntriesSaved(d0, a0)
    BY <1>1, <2>1, <2>2 DEF Inv, ProgressInv, At, EntriesSaved, Saved
  <2>5. ASSUME NEW b \in held[a0], << d0, b[2] >> \in Stops, Untraded(a0, b)
        PROVE  << d0, b[1], a0, b[2] >> \in SignalsOf(bundles)
    <3>1. b \in Buckets
      BY <1>1, <2>3, <2>5, AccountsAssumption DEF Inv, BundlesInv
    <3>2. b[1] \in ToSet(ExitStrategies) /\ b = << b[1], b[2] >>
      BY <3>1 DEF Buckets
    <3>3. Stopped(d0, a0, b[1])
      BY <2>5 DEF Stopped
    <3>4. Saved(d0, b[1], a0)
      BY <1>1, <2>1, <2>2, <3>2, <3>3 DEF Inv, ProgressInv, At
    <3>5. PICK c \in bundles : c.day = d0 /\ c.strategy = b[1] /\ c.owner = a0
      BY <3>4, BundleIs DEF Saved, SameId
    <3>6. b[2] \in c.symbols
      BY <1>1, <2>3, <2>5, <3>5, AccountsAssumption DEF Inv, BundlesInv, Judges
    <3> QED BY <3>5, <3>6 DEF SignalsOf, Item
  <2> QED BY <2>3, <2>4, <2>5 DEF ExitsSaved
<1>2. Inv /\ [Next]_vars =>
        [ \A k \in Rows : ~ Completed(k, "sig") /\ Completed(k, "sig")' /\ ~ raced'
            => ExitsSaved(k[1], k[2]) /\ EntriesSaved(k[1], k[2]) ]_vars
  BY <1>1
<1> QED BY <1>2, Invariance, PTL DEF Spec, SignalsComplete
=============================================================================
