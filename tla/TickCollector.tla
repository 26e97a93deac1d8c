--------------------------- MODULE TickCollector ---------------------------
(***************************************************************************)
(* ShioajiTickCollector and the one-off command that runs it: the threads  *)
(* of the SDK that call back, the bounded queue, the worker that writes    *)
(* the raw files and renews subscriptions, and the main thread that starts *)
(* and stops.  The threads share everything; only the SDK subscriptions    *)
(* are behind a lock, so what runs under it is one step here.              *)
(*                                                                         *)
(* An event is data of a subscribed topic, data that others subscribed     *)
(* (Foreign), or a transport event.  What a raw file is, and how one       *)
(* append may fail, is in RawJournal; here an append writes or raises.     *)
(***************************************************************************)
EXTENDS Integers, Sequences, FiniteSets

CONSTANTS Topics,        \* (symbol, lot, quote type) to subscribe
          Callers,       \* threads on which the SDK calls back
          Capacity,      \* queue_capacity
          Retries,       \* attempts to renew subscriptions
          Codes,         \* transport events the SDK may send
          MaxEvents, MaxFaults, MaxStops   \* bounds

ASSUME CapacityAssumption == Capacity \in Nat \ {0}

\* Every event is one number and one kind, and the kinds are distinct.
ASSUME EventsAssumption ==
  MaxEvents \in Nat /\ Codes \cap { "data", "foreign", "unreadable", "malformed" } = {}

VARIABLES state,         \* self.state
          stop,          \* stop_requested
          fatal,         \* _fatal
          counted,       \* counters that are not zero
          active,        \* self.active
          streaming,     \* topics the SDK streams
          lease,         \* who holds collector_lease
          queue,
          transport,     \* QuoteTransportAudit
          epoch,         \* suffix of session_id, 0 for none
          seq,
          main, worker, caller,   \* where the threads are
          raw,           \* records written, with the session and number they got
          smoke,         \* smoke_status of the command
          used           \* events delivered, faults and stops so far

vars == << state, stop, fatal, counted, active, streaming, lease, queue, transport, epoch,
           seq, main, worker, caller, raw, smoke, used >>

flags == << state, stop, fatal, counted >>
topics == << active, streaming >>
files == << epoch, seq, raw >>

Kinds == { "data", "foreign", "unreadable", "malformed" } \cup Codes
Events == [ id : 1 .. MaxEvents, kind : Kinds ]
IsData(e) == e.kind \in { "data", "foreign" }

NoItem == [ id |-> 0, kind |-> "none" ]

LossKeys == { "queue_dropped", "transport_event_dropped", "raw_write_error", "worker_crashed",
              "worker_stop_timeout", "resubscribe_failed", "transport_audit_error",
              "callback_snapshot_error" }

DegradingKeys == { "queue_dropped", "raw_write_error", "sink_error", "unsubscribe_error" }

Init ==
  /\ state = "DISABLED" /\ stop = FALSE /\ fatal = FALSE /\ counted = {}
  /\ active = {} /\ streaming = {} /\ lease = "none"
  /\ queue = << >>
  /\ transport = [ verified |-> FALSE, unresolved |-> FALSE, gaps |-> 0,
                   required |-> FALSE, down |-> FALSE ]
  /\ epoch = 0 /\ seq = 0 /\ raw = << >>
  /\ main = [ pc |-> "idle", todo |-> {} ]
  /\ worker = [ pc |-> "none", item |-> NoItem, todo |-> {}, failed |-> {}, attempt |-> 0 ]
  /\ caller = [ c \in Callers |-> NoItem ]
  /\ smoke = "none"
  /\ used = [ event |-> 0, fault |-> 0, stop |-> 0 ]

Alive == worker.pc \notin { "none", "exited" }

Fault == used.fault < MaxFaults /\ used' = [ used EXCEPT !.fault = @ + 1 ]

Count(key) == counted' = counted \cup { key }

\* health(): what the state is reported as, and whether data was lost.
Health ==
  IF fatal THEN "FAILED"
  ELSE IF state # "HEALTHY" THEN state
  ELSE IF counted \cap DegradingKeys # {} \/ transport.unresolved
          \/ "transport_event_dropped" \in counted THEN "DEGRADED"
  ELSE IF ~transport.verified THEN "UNVERIFIED"
  ELSE "HEALTHY"

LossDetected == fatal \/ counted \cap LossKeys # {}

----------------------------------------------------------------------------
(* SDK threads: _on_tick, _on_bidask and _on_quote_event read the flag and  *)
(* the state first, and put later.                                         *)

Registered == main.pc \notin { "idle", "exited" }

Refuses == stop \/ state \in { "CLOSED", "FAILED" }

Deliver(c) ==
  /\ Registered /\ caller[c] = NoItem /\ used.event < MaxEvents
  /\ used' = [ used EXCEPT !.event = @ + 1 ]
  /\ \E kind \in Kinds :
       /\ kind = "data" => streaming # {}
       /\ IF Refuses
          THEN UNCHANGED caller
          ELSE caller' = [ caller EXCEPT ![c] = [ id |-> used.event + 1, kind |-> kind ] ]
  /\ UNCHANGED << flags, topics, lease, queue, transport, files, main, worker, smoke >>

Return(c) == caller' = [ caller EXCEPT ![c] = NoItem ]

OnUnreadable(c) ==
  /\ caller[c].kind = "unreadable"
  /\ Count("callback_snapshot_error") /\ state' = "DEGRADED"
  /\ UNCHANGED << queue >>

OnMalformed(c) ==
  /\ caller[c].kind = "malformed"
  /\ Count("malformed_transport_event") /\ state' = "DEGRADED"
  /\ UNCHANGED << queue >>

MayPut == Len(queue) < Capacity

PutNowait(c) ==
  /\ caller[c].kind \in { "data", "foreign" } \cup Codes
  /\ MayPut
  /\ queue' = Append(queue, caller[c])
  /\ UNCHANGED << state, counted >>

PutFull(c) ==
  /\ caller[c].kind \in { "data", "foreign" } \cup Codes
  /\ ~MayPut
  /\ IF IsData(caller[c])
     THEN Count("queue_dropped") /\ UNCHANGED state
     ELSE Count("transport_event_dropped") /\ state' = "DEGRADED"
  /\ UNCHANGED queue

Callback(c) ==
  /\ caller[c] # NoItem
  /\ OnUnreadable(c) \/ OnMalformed(c) \/ PutNowait(c) \/ PutFull(c)
  /\ Return(c)
  /\ UNCHANGED << stop, fatal, topics, lease, transport, files, main, worker, smoke, used >>

----------------------------------------------------------------------------
(* Subscriptions, under _quote_lock.                                        *)

\* _unsubscribe_all: a topic whose unsubscribe fails stays active.
UnsubscribeAll ==
  \E failed \in SUBSET active :
    /\ active' = failed
    /\ streaming' = streaming \ (active \ failed)
    /\ IF failed = {}
       THEN UNCHANGED << state, counted, used >>
       ELSE /\ Fault /\ Count("unsubscribe_error")
            /\ state' = IF state = "FAILED" THEN state ELSE "DEGRADED"

----------------------------------------------------------------------------
(* The worker.                                                             *)

Take ==
  /\ worker.pc = "loop" /\ queue # << >>
  /\ worker' = [ worker EXCEPT !.pc = "busy", !.item = Head(queue) ]
  /\ queue' = Tail(queue)
  /\ UNCHANGED << flags, topics, lease, transport, files, main, caller, smoke, used >>

\* Mutant: the worker does not drain the queue.
StopOnly == stop

Done == stop /\ queue = << >>

\* while not stop_requested or not queue.empty()
WorkerExits ==
  /\ worker.pc = "loop" /\ Done
  /\ worker' = [ worker EXCEPT !.pc = "exited" ]
  /\ UNCHANGED << flags, topics, lease, queue, transport, files, main, caller, smoke, used >>

Loop == worker' = [ worker EXCEPT !.pc = "loop", !.item = NoItem ]

OutsideScope ==
  /\ worker.pc = "busy" /\ worker.item.kind = "foreign"
  /\ Loop
  /\ UNCHANGED << flags, topics, lease, queue, transport, files, main, caller, smoke, used >>

\* Raw first; the sink may raise after the record is safe.
RawWritten ==
  /\ worker.pc = "busy" /\ worker.item.kind = "data"
  /\ raw' = Append(raw, [ event |-> worker.item, session |-> epoch, seq |-> seq,
                          gaps |-> transport.gaps ])
  /\ seq' = seq + 1
  /\ \/ UNCHANGED << state, counted, used >>
     \/ Fault /\ Count("sink_error") /\ state' = "DEGRADED"
  /\ Loop
  /\ UNCHANGED << stop, fatal, topics, lease, queue, transport, epoch, main, caller, smoke >>

\* A record that cannot be written; the files are well.
RawRejected ==
  /\ worker.pc = "busy" /\ worker.item.kind = "data"
  /\ Fault /\ Count("raw_write_error") /\ state' = "DEGRADED"
  /\ Loop
  /\ UNCHANGED << stop, fatal, topics, lease, queue, transport, files, main, caller, smoke >>

\* OSError or ArchiveBusyError: the disk is full, or the file is archived or locked.
RawFails ==
  /\ worker.pc = "busy" /\ worker.item.kind = "data"
  /\ Fault /\ Count("raw_write_error") /\ state' = "DEGRADED"
  /\ stop' = TRUE
  /\ worker' = [ worker EXCEPT !.pc = "drop", !.item = NoItem ]
  /\ UNCHANGED << fatal, topics, lease, queue, transport, files, main, caller, smoke >>

\* The handler of the worker for what nobody caught.
WorkerCrashes ==
  /\ worker.pc \in { "busy", "recover" }
  /\ Fault /\ Count("worker_crashed") /\ fatal' = TRUE /\ state' = "FAILED"
  /\ stop' = TRUE
  /\ worker' = [ worker EXCEPT !.pc = "die", !.item = NoItem ]
  /\ UNCHANGED << topics, lease, queue, transport, files, main, caller, smoke >>

\* _unsubscribe_all on the worker, after which it drains the queue, or is gone.
WorkerUnsubscribes ==
  /\ worker.pc \in { "drop", "die" }
  /\ UnsubscribeAll
  /\ worker' = [ worker EXCEPT !.pc = IF @ = "die" THEN "exited" ELSE "loop" ]
  /\ UNCHANGED << stop, fatal, lease, queue, transport, files, main, caller, smoke >>

\* Mutant: a reconnection without a disconnect is in the old epoch.
SameGap == transport.gaps

\* A lone "reconnected" tells of a gap of its own.
ReconnectedGap == IF transport.required THEN transport.gaps ELSE transport.gaps + 1

\* QuoteTransportAudit.apply; "down" stands for 1, 2, 4, 5, 12, 17 and 19.
Applied(code) ==
  CASE code = "up" ->
         [ transport EXCEPT !.down = FALSE, !.verified = ~transport.unresolved /\ ~transport.required ]
    [] code = "down" ->
         [ transport EXCEPT !.down = TRUE, !.verified = FALSE, !.unresolved = TRUE, !.required = TRUE,
                            !.gaps = IF ~transport.required /\ ~transport.down THEN @ + 1 ELSE @ ]
    [] OTHER ->
         [ transport EXCEPT !.down = FALSE, !.verified = FALSE, !.unresolved = TRUE, !.required = TRUE,
                            !.gaps = ReconnectedGap ]

\* _handle_transport_event; the record of the event may fail after the change.
HandleTransport ==
  /\ worker.pc = "busy" /\ worker.item.kind \in Codes
  /\ transport' = Applied(worker.item.kind)
  /\ \/ /\ Fault /\ Count("transport_audit_error") /\ state' = "DEGRADED"
        /\ Loop
     \/ /\ UNCHANGED << counted, used >>
        /\ state' = IF worker.item.kind = "down" THEN "DEGRADED" ELSE state
        /\ IF worker.item.kind = "reconnected" /\ ~stop
           THEN worker' = [ worker EXCEPT !.pc = "recover", !.todo = active, !.failed = {},
                                          !.attempt = 1 ]
           ELSE Loop
  /\ UNCHANGED << stop, fatal, topics, lease, queue, files, main, caller, smoke >>

\* Mutant: a stop does not keep the worker from subscribing.
AlwaysAccepted == TRUE

SubscriptionAccepted == ~stop

\* _subscribe for one topic: refused once stop is requested.
Resubscribe ==
  /\ worker.pc = "recover"
  /\ \E t \in worker.todo :
       \/ /\ SubscriptionAccepted
          /\ streaming' = streaming \cup { t }
          /\ worker' = [ worker EXCEPT !.todo = @ \ { t } ]
          /\ UNCHANGED << counted, used >>
       \/ /\ IF SubscriptionAccepted THEN Fault ELSE UNCHANGED used
          /\ worker' = [ worker EXCEPT !.todo = @ \ { t }, !.failed = @ \cup { t } ]
          /\ Count("resubscribe_error") /\ UNCHANGED streaming
  /\ UNCHANGED << state, stop, fatal, active, lease, queue, transport, files, main, caller, smoke >>

NextAttempt ==
  /\ worker.pc = "recover" /\ worker.todo = {}
  /\ worker.failed # {} /\ ~stop /\ worker.attempt < Retries
  /\ worker' = [ worker EXCEPT !.todo = worker.failed, !.failed = {}, !.attempt = @ + 1 ]
  /\ UNCHANGED << flags, topics, lease, queue, transport, files, main, caller, smoke, used >>

\* transport.recovered(ok), and a session of its own for what comes now.
Recovered ==
  /\ worker.pc = "recover" /\ worker.todo = {}
  /\ worker.failed = {} /\ ~stop
  /\ transport' = [ transport EXCEPT !.required = FALSE, !.verified = TRUE, !.down = FALSE ]
  /\ epoch' = transport.gaps
  /\ Count("resubscribe_success") /\ state' = "DEGRADED"
  /\ Loop
  /\ UNCHANGED << stop, fatal, topics, lease, queue, seq, raw, main, caller, smoke, used >>

NotRecovered ==
  /\ worker.pc = "recover" /\ worker.todo = {}
  /\ stop \/ (worker.failed # {} /\ worker.attempt = Retries)
  /\ transport' = [ transport EXCEPT !.required = TRUE, !.verified = FALSE, !.down = FALSE ]
  /\ Count("resubscribe_failed") /\ state' = "FAILED" /\ fatal' = TRUE
  /\ stop' = TRUE
  /\ worker' = [ worker EXCEPT !.pc = "drop", !.item = NoItem ]
  /\ UNCHANGED << topics, lease, queue, files, main, caller, smoke, used >>

Worker ==
  \/ Take \/ WorkerExits \/ OutsideScope \/ RawWritten \/ RawRejected \/ RawFails
  \/ WorkerCrashes \/ WorkerUnsubscribes \/ HandleTransport
  \/ Resubscribe \/ NextAttempt \/ Recovered \/ NotRecovered

----------------------------------------------------------------------------
(* The main thread: start(), the duration of the smoke, stop(), the checks. *)

Start ==
  /\ main.pc = "idle"
  /\ IF lease = "none"
     THEN /\ lease' = "collector" /\ state' = "CONNECTING"
          /\ main' = [ pc |-> "subscribe", todo |-> Topics ]
     ELSE /\ state' = "FAILED"        \* ArchiveBusyError
          /\ main' = [ pc |-> "stop", todo |-> {} ]
          /\ UNCHANGED lease
  /\ smoke' = IF lease = "none" THEN smoke ELSE "fail"
  /\ UNCHANGED << stop, fatal, counted, topics, queue, transport, files, worker, caller, used >>

Subscribe ==
  /\ main.pc = "subscribe"
  /\ \E t \in main.todo :
       /\ main' = [ main EXCEPT !.todo = @ \ { t } ]
       /\ active' = active \cup { t } /\ streaming' = streaming \cup { t }
  /\ UNCHANGED << flags, lease, queue, transport, files, worker, caller, smoke, used >>

\* The SDK refuses a topic: start() takes back the others and raises.
StartFails ==
  /\ main.pc = "subscribe" /\ main.todo # {}
  /\ Fault
  /\ \E failed \in SUBSET active :
       /\ active' = failed /\ streaming' = failed
       /\ IF failed = {} THEN UNCHANGED counted ELSE Count("unsubscribe_error")
       /\ lease' = IF failed = {} THEN "none" ELSE lease
  /\ state' = "FAILED" /\ smoke' = "fail"
  /\ main' = [ pc |-> "stop", todo |-> {} ]
  /\ UNCHANGED << stop, fatal, queue, transport, files, worker, caller >>

GoLive ==
  /\ main.pc = "subscribe" /\ main.todo = {}
  /\ stop' = FALSE /\ state' = "HEALTHY"
  /\ worker' = [ worker EXCEPT !.pc = "loop" ]
  /\ main' = [ main EXCEPT !.pc = "stop" ]
  /\ UNCHANGED << fatal, counted, topics, lease, queue, transport, files, caller, smoke, used >>

\* stop() may be called again, for what the first call could not release.
StopRequested ==
  /\ main.pc = "stop" \/ (main.pc = "stopped" /\ used.stop < MaxStops)
  /\ stop' = TRUE
  /\ used' = [ used EXCEPT !.stop = @ + 1 ]
  /\ main' = [ main EXCEPT !.pc = "unsubscribe" ]
  /\ UNCHANGED << state, fatal, counted, topics, lease, queue, transport, files, worker, caller,
                  smoke >>

StopUnsubscribes ==
  /\ main.pc = "unsubscribe"
  /\ UnsubscribeAll
  /\ main' = [ main EXCEPT !.pc = "join" ]
  /\ UNCHANGED << stop, fatal, lease, queue, transport, files, worker, caller, smoke >>

Joined ==
  /\ main.pc = "join" /\ ~Alive
  /\ main' = [ main EXCEPT !.pc = "close" ]
  /\ worker' = [ worker EXCEPT !.pc = "none" ]
  /\ lease' = IF lease = "collector" /\ active = {} THEN "none" ELSE lease
  /\ UNCHANGED << flags, topics, queue, transport, files, caller, smoke, used >>

JoinTimesOut ==
  /\ main.pc = "join" /\ Alive
  /\ Fault /\ Count("worker_stop_timeout") /\ fatal' = TRUE
  /\ main' = [ main EXCEPT !.pc = "close" ]
  /\ UNCHANGED << state, stop, topics, lease, queue, transport, files, worker, caller, smoke >>

Troubled == Health \in { "FAILED", "DEGRADED" }

\* Mutant: only a failure keeps the collector from being closed.
ClosableUnlessFailed == Health # "FAILED"

Closable == ~Troubled

\* stop() looks at health() first, and writes the state without a lock: what a
\* late callback reports in between is overwritten.
LookAtHealth ==
  /\ main.pc = "close"
  /\ main' = [ main EXCEPT !.pc = IF Closable THEN "closing" ELSE "stopped" ]
  /\ UNCHANGED << flags, topics, lease, queue, transport, files, worker, caller, smoke, used >>

Close ==
  /\ main.pc = "closing"
  /\ state' = "CLOSED"
  /\ main' = [ main EXCEPT !.pc = "stopped" ]
  /\ UNCHANGED << stop, fatal, counted, topics, lease, queue, transport, files, worker, caller,
                  smoke, used >>

\* Mutant: what is left in the queue is not looked at.
CheckedButQueue == Health = "CLOSED" /\ active = {} /\ ~LossDetected /\ raw # << >>

\* The smoke_checks of the command.
Checked ==
  /\ Health = "CLOSED" /\ active = {} /\ queue = << >>
  /\ ~LossDetected /\ raw # << >>

Report ==
  /\ main.pc = "stopped"
  /\ smoke' = IF smoke = "none" /\ Checked THEN "pass" ELSE "fail"
  /\ main' = [ main EXCEPT !.pc = "reported" ]
  /\ UNCHANGED << flags, topics, lease, queue, transport, files, worker, caller, used >>

\* The process ends: daemon threads, subscriptions and file locks end with it.
Exit ==
  /\ main.pc = "reported"
  /\ main' = [ main EXCEPT !.pc = "exited" ]
  /\ worker' = [ worker EXCEPT !.pc = "none", !.item = NoItem ]
  /\ active' = {} /\ streaming' = {}
  /\ caller' = [ c \in Callers |-> NoItem ]
  /\ lease' = IF lease = "collector" THEN "none" ELSE lease
  /\ UNCHANGED << flags, queue, transport, files, smoke, used >>

Main ==
  \/ Start \/ Subscribe \/ StartFails \/ GoLive \/ StopRequested \/ StopUnsubscribes
  \/ Joined \/ JoinTimesOut \/ LookAtHealth \/ Close \/ Report \/ Exit

\* intraday-maintain holds the same lease while it compresses.
Maintenance ==
  /\ \/ lease = "none" /\ lease' = "maintenance"
     \/ lease = "maintenance" /\ lease' = "none"
  /\ UNCHANGED << flags, topics, queue, transport, files, main, worker, caller, smoke, used >>

Next ==
  \/ \E c \in Callers : Deliver(c) \/ Callback(c)
  \/ Worker \/ Main \/ Maintenance

\* Threads are scheduled; the SDK owes nothing, and the duration ends.
Fairness ==
  /\ WF_vars(Worker) /\ WF_vars(Main)
  /\ \A c \in Callers : WF_vars(Callback(c))

Spec == Init /\ [][Next]_vars /\ Fairness
----------------------------------------------------------------------------
(* Properties.                                                             *)

Audits ==
  [ verified : BOOLEAN, unresolved : BOOLEAN, gaps : Nat, required : BOOLEAN, down : BOOLEAN ]

Records == [ event : Events, session : Nat, seq : Nat, gaps : Nat ]

Mains ==
  [ pc : { "idle", "subscribe", "stop", "unsubscribe", "join", "close", "closing", "stopped",
           "reported", "exited" },
    todo : SUBSET Topics ]

Workers ==
  [ pc : { "none", "loop", "busy", "recover", "drop", "die", "exited" },
    item : Events \cup { NoItem },
    todo : SUBSET Topics, failed : SUBSET Topics, attempt : Nat ]

Used == [ event : 0 .. MaxEvents, fault : Nat, stop : Nat ]

\* Types of the variables (no claim beyond that).
TypeOK ==
  /\ state \in { "DISABLED", "CONNECTING", "HEALTHY", "DEGRADED", "FAILED", "CLOSED" }
  /\ stop \in BOOLEAN /\ fatal \in BOOLEAN
  /\ active \in SUBSET Topics /\ streaming \in SUBSET Topics
  /\ lease \in { "none", "collector", "maintenance" }
  /\ queue \in Seq(Events) /\ Len(queue) <= Capacity
  /\ transport \in Audits /\ epoch \in Nat /\ seq \in Nat /\ raw \in Seq(Records)
  /\ main \in Mains /\ worker \in Workers /\ caller \in [ Callers -> Events \cup { NoItem } ]
  /\ smoke \in { "none", "pass", "fail" }
  /\ used \in Used

\* _release_lease, called by start() and stop(): once the lease is free for
\* maintenance or another collector, no topic streams and no worker is left that
\* may write, whatever failed, timed out or was renewed on the way.
LeaseCoversStreams == lease # "collector" => streaming = {} /\ ~Alive

\* _handle_transport_event: data taken before a reconnection was handled and data
\* taken after it are in different sessions.
RenewalOpensSession ==
  [][transport.required /\ ~transport'.required => \A i \in DOMAIN raw : raw[i].session < epoch']_vars

\* What a late callback counts when it reports trouble.
LateKeys == { "queue_dropped", "transport_event_dropped", "callback_snapshot_error",
              "malformed_transport_event" }

\* The report is lost between the two halves of the end of stop(); a counter has it.
Overwritten == main.pc = "closing" /\ counted \cap LateKeys # {}

\* health() and stop(): a collector that has reported trouble is never reported
\* closed or healthy again, whichever thread writes the state last; but for what a
\* late callback reports while stop() writes CLOSED, which a counter then tells.
TroubleIsKept ==
  [][Troubled /\ main.pc # "subscribe" => Troubled' \/ Overwritten]_vars

\* _worker_loop drains the queue after a stop: what was put while the worker was
\* at work is settled, unless the session is reported as failed.
QueuedIsSettled ==
  \A i \in 1 .. MaxEvents :
    (Alive /\ \E k \in DOMAIN queue : queue[k].id = i)
      ~> (fatal \/ \A k \in DOMAIN queue : queue[k].id # i)

\* Taken from the SDK and not settled: the event the worker has, and the queue.
Pending == IF worker.item = NoItem THEN queue ELSE << worker.item >> \o queue

Kept == [ i \in DOMAIN raw |-> raw[i].event ]

\* The promise of the collector and of its smoke_checks (Capture): no event that
\* was taken vanishes, and PASS_CAPTURE_ONLY means that none was lost.
Promise ==
  INSTANCE Capture WITH
    Foreign <- { e \in Events : e.kind # "data" },
    pending <- Pending,
    kept <- Kept,
    lost <- LossDetected,
    passed <- smoke = "pass"

KeepsPromise == Promise!Spec
=============================================================================
