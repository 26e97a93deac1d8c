------------------------- MODULE TickCollectorProofs -------------------------
(***************************************************************************)
(* TickCollector's safety properties for every number of topics, callers,  *)
(* events, retries and faults, and every capacity of the queue.            *)
(***************************************************************************)
EXTENDS TickCollector, SequenceTheorems, TLAPS

Idle == main.pc \in { "idle", "subscribe" }

\* Where the threads may be together, and what they may know of each other.
ThreadsInv ==
  /\ Idle => worker.pc = "none" /\ smoke # "pass"
  /\ main.pc = "idle" => /\ active = {} /\ state = "DISABLED" /\ ~fatal
                          /\ \A c \in Callers : caller[c] = NoItem
  /\ main.pc = "subscribe" => lease = "collector"
  /\ main.pc \in { "unsubscribe", "join", "close", "closing", "stopped", "reported" } => stop
  /\ main.pc \in { "close", "closing", "stopped", "reported" } => fatal \/ ~Alive
  /\ smoke = "pass" => main.pc \in { "reported", "exited" }
  /\ worker.pc \in { "busy", "recover" } <=> worker.item # NoItem

\* A worker that renews has a reconnection to settle, and renews only topics that
\* are still active, unless a stop keeps it from subscribing.
RenewalInv ==
  worker.pc = "recover" =>
    /\ worker.item.kind \in Codes /\ transport.required
    /\ ~stop => worker.todo \cup worker.failed \subseteq active

\* The lease is held while a topic is active or the worker lives.
LeaseInv ==
  /\ streaming \subseteq active
  /\ active # {} \/ Alive => lease = "collector"

\* A gap without a session of its own is a required renewal.
SessionInv ==
  /\ epoch <= transport.gaps
  /\ transport.required => epoch < transport.gaps
  /\ transport.down => transport.required
  /\ \A i \in DOMAIN raw : raw[i].session <= epoch

\* When stop() is about to write CLOSED nothing was wrong, and only a late callback
\* can have reported since that something is.
ClosingInv == main.pc = "closing" => ~fatal /\ (Troubled => counted \cap LateKeys # {})

Inv == TypeOK /\ ThreadsInv /\ RenewalInv /\ LeaseInv /\ SessionInv /\ ClosingInv

LEMMA NoItemIsNoEvent == NoItem \notin Events
BY DEF NoItem, Events

----------------------------------------------------------------------------
(* The inductive invariant.                                                *)

LEMMA Inits == Init => Inv
<1> SUFFICES ASSUME Init PROVE Inv
  OBVIOUS
<1> USE DEF Init
<1>1. transport \in Audits /\ main \in Mains /\ worker \in Workers
  BY DEF Audits, Mains, Workers
<1>2. used \in Used /\ caller \in [ Callers -> Events \cup { NoItem } ]
  BY EventsAssumption DEF Used
<1>3. queue \in Seq(Events) /\ Len(queue) <= Capacity /\ raw \in Seq(Records)
  BY CapacityAssumption
<1> HIDE DEF Init
<1>4. TypeOK
  BY <1>1, <1>2, <1>3 DEF Init, TypeOK
<1>5. ThreadsInv /\ RenewalInv /\ LeaseInv /\ SessionInv /\ ClosingInv
  BY DEF Init, ThreadsInv, RenewalInv, LeaseInv, SessionInv, ClosingInv, Idle, Alive
<1> QED BY <1>4, <1>5 DEF Inv

LEMMA TypeStep == ASSUME TypeOK, [Next]_vars PROVE TypeOK'
<1> USE CapacityAssumption, EventsAssumption DEF TypeOK
<1>1. ASSUME NEW c \in Callers, Deliver(c) PROVE TypeOK'
  <2>1. used' \in Used /\ used.event + 1 \in 1 .. MaxEvents
    BY <1>1 DEF Deliver, Used
  <2>2. PICK kind \in Kinds :
          caller' \in { caller, [ caller EXCEPT ![c] = [ id |-> used.event + 1, kind |-> kind ] ] }
    BY <1>1 DEF Deliver
  <2>3. [ id |-> used.event + 1, kind |-> kind ] \in Events
    BY <2>1 DEF Events
  <2>4. caller' \in [ Callers -> Events \cup { NoItem } ]
    BY <2>2, <2>3
  <2> QED BY <1>1, <2>1, <2>4 DEF Deliver, flags, topics, files
<1>2. ASSUME NEW c \in Callers, Callback(c) PROVE TypeOK'
  <2>1. queue' \in Seq(Events) /\ Len(queue') <= Capacity
    <3>1. CASE queue' = queue
      BY <3>1
    <3>2. CASE PutNowait(c)
      <4>1. caller[c] \in Events /\ Len(queue) < Capacity /\ queue' = Append(queue, caller[c])
        BY <1>2, <3>2 DEF Callback, PutNowait, MayPut
      <4> QED BY <4>1, AppendProperties
    <3> QED BY <1>2, <3>1, <3>2 DEF Callback, OnUnreadable, OnMalformed, PutFull
  <2>2. caller' \in [ Callers -> Events \cup { NoItem } ]
    BY <1>2 DEF Callback, topics, files, Return, OnUnreadable, Count, OnMalformed,
         PutNowait, MayPut, PutFull, IsData
  <2> QED BY <1>2, <2>1, <2>2 DEF Callback, topics, files, Return, OnUnreadable, Count,
       OnMalformed, PutNowait, MayPut, PutFull, IsData
<1>3. CASE Take
  <2>1. Head(queue) \in Events /\ queue' \in Seq(Events) /\ Len(queue') <= Capacity
    BY <1>3 DEF Take
  <2>2. worker' \in Workers
    BY <1>3, <2>1 DEF Take, Workers
  <2> QED BY <1>3, <2>1, <2>2 DEF Take, flags, topics, files
<1>4. CASE WorkerExits
  <2>1. worker' \in Workers
    BY <1>4 DEF WorkerExits, flags, topics, files, Done, Workers
  <2> QED BY <1>4, <2>1 DEF WorkerExits, flags, topics, files, Done
<1>5. CASE OutsideScope
  <2>1. worker' \in Workers
    BY <1>5 DEF OutsideScope, flags, topics, files, Loop, Workers
  <2> QED BY <1>5, <2>1 DEF OutsideScope, flags, topics, files, Loop
<1>6. CASE RawWritten
  <2>1. worker' \in Workers
    BY <1>6 DEF RawWritten, Loop, Workers
  <2>2. used' = used \/ Fault
    BY <1>6 DEF RawWritten
  <2>3. used' \in Used
    BY <2>2 DEF Fault, Used
  <2>4. worker.item \in Events
    BY <1>6 DEF RawWritten, Workers, NoItem
  <2>5. [ event |-> worker.item, session |-> epoch, seq |-> seq, gaps |-> transport.gaps ] \in Records
    BY <2>4 DEF Records, Audits
  <2>6. raw' \in Seq(Records)
    BY <1>6, <2>5 DEF RawWritten
  <2> QED BY <1>6, <2>1, <2>3, <2>6 DEF RawWritten, topics, Fault, Count
<1>7. CASE RawRejected
  <2>1. worker' \in Workers
    BY <1>7 DEF RawRejected, topics, files, Fault, Count, Loop, Workers
  <2>2. used' \in Used
    BY <1>7 DEF RawRejected, topics, files, Fault, Count, Loop, Used
  <2> QED BY <1>7, <2>1, <2>2 DEF RawRejected, topics, files, Fault, Count, Loop
<1>8. CASE RawFails
  <2>1. worker' \in Workers
    BY <1>8 DEF RawFails, topics, files, Fault, Count, Workers
  <2>2. used' \in Used
    BY <1>8 DEF RawFails, topics, files, Fault, Count, Used
  <2> QED BY <1>8, <2>1, <2>2 DEF RawFails, topics, files, Fault, Count
<1>9. CASE WorkerCrashes
  <2>1. worker' \in Workers
    BY <1>9 DEF WorkerCrashes, topics, files, Fault, Count, Workers
  <2>2. used' \in Used
    BY <1>9 DEF WorkerCrashes, topics, files, Fault, Count, Used
  <2> QED BY <1>9, <2>1, <2>2 DEF WorkerCrashes, topics, files, Fault, Count
<1>10. CASE WorkerUnsubscribes
  <2>1. worker' \in Workers
    BY <1>10 DEF WorkerUnsubscribes, files, UnsubscribeAll, Fault, Count, Workers
  <2>2. used' \in Used
    BY <1>10 DEF WorkerUnsubscribes, files, UnsubscribeAll, Fault, Count, Used
  <2> QED BY <1>10, <2>1, <2>2 DEF WorkerUnsubscribes, files, UnsubscribeAll, Fault,
       Count
<1>11. CASE HandleTransport
  <2>1. used' \in Used
    BY <1>11 DEF HandleTransport, Fault, Used
  <2>2. transport' \in Audits
    <3>1. transport.gaps + 1 \in Nat /\ ReconnectedGap \in Nat
      BY DEF Audits, ReconnectedGap
    <3>2. Applied(worker.item.kind) \in Audits
      BY <3>1 DEF Applied, Audits
    <3> QED BY <1>11, <3>2 DEF HandleTransport
  <2>3. worker' \in Workers
    <3>1. CASE worker' = [ worker EXCEPT !.pc = "loop", !.item = NoItem ]
      BY <3>1 DEF Workers
    <3>2. CASE worker' = [ worker EXCEPT !.pc = "recover", !.todo = active, !.failed = {},
                                         !.attempt = 1 ]
      BY <3>2 DEF Workers
    <3> QED BY <1>11, <3>1, <3>2 DEF HandleTransport, Loop
  <2> QED BY <1>11, <2>1, <2>2, <2>3 DEF HandleTransport, topics, files, Fault, Count
<1>12. CASE Resubscribe
  <2>1. worker' \in Workers
    <3>1. PICK t \in worker.todo :
            worker' \in { [ worker EXCEPT !.todo = @ \ { t } ],
                         [ worker EXCEPT !.todo = @ \ { t }, !.failed = @ \cup { t } ] }
      BY <1>12 DEF Resubscribe
    <3>2. worker.todo \ { t } \in SUBSET Topics /\ worker.failed \cup { t } \in SUBSET Topics
      BY DEF Workers
    <3> QED BY <3>1, <3>2 DEF Workers
  <2>2. used' \in Used
    BY <1>12 DEF Resubscribe, Fault, Used
  <2>3. worker.todo \subseteq Topics
    BY DEF Workers
  <2> QED BY <1>12, <2>1, <2>2, <2>3 DEF Resubscribe, files
<1>13. CASE NextAttempt
  <2>1. worker.failed \in SUBSET Topics /\ worker.attempt + 1 \in Nat
    BY DEF Workers
  <2>2. worker' \in Workers
    BY <1>13, <2>1 DEF NextAttempt, Workers
  <2> QED BY <1>13, <2>2 DEF NextAttempt, flags, topics, files
<1>14. CASE Recovered
  <2>1. worker' \in Workers
    BY <1>14 DEF Recovered, topics, files, Count, Loop, Workers
  <2>2. transport' \in Audits
    BY <1>14 DEF Recovered, topics, files, Count, Loop, Audits
  <2>3. epoch' \in Nat
    BY <1>14 DEF Recovered, Audits
  <2> QED BY <1>14, <2>1, <2>2, <2>3 DEF Recovered, topics, files, Count, Loop
<1>15. CASE NotRecovered
  <2>1. worker' \in Workers
    BY <1>15 DEF NotRecovered, topics, files, Count, Workers
  <2>2. transport' \in Audits
    BY <1>15 DEF NotRecovered, topics, files, Count, Audits
  <2> QED BY <1>15, <2>1, <2>2 DEF NotRecovered, topics, files, Count
<1>16. CASE Start
  <2>1. main' \in Mains
    BY <1>16 DEF Start, topics, files, Mains
  <2> QED BY <1>16, <2>1 DEF Start, topics, files
<1>17. CASE Subscribe
  <2>1. main' \in Mains /\ main.todo \subseteq Topics
    BY <1>17 DEF Subscribe, Mains
  <2> QED BY <1>17, <2>1 DEF Subscribe, flags, files
<1>18. CASE StartFails
  <2>1. main' \in Mains
    BY <1>18 DEF StartFails, files, Fault, Count, Mains
  <2>2. used' \in Used
    BY <1>18 DEF StartFails, Fault, Used
  <2> QED BY <1>18, <2>1, <2>2 DEF StartFails, files, Fault, Count
<1>19. CASE GoLive
  <2>1. main' \in Mains
    BY <1>19 DEF GoLive, topics, files, Mains
  <2>2. worker' \in Workers
    BY <1>19 DEF GoLive, topics, files, Workers
  <2> QED BY <1>19, <2>1, <2>2 DEF GoLive, topics, files
<1>20. CASE StopRequested
  <2>1. main' \in Mains
    BY <1>20 DEF StopRequested, topics, files, Mains
  <2>2. used' \in Used
    BY <1>20 DEF StopRequested, topics, files, Used
  <2> QED BY <1>20, <2>1, <2>2 DEF StopRequested, topics, files
<1>21. CASE StopUnsubscribes
  <2>1. main' \in Mains
    BY <1>21 DEF StopUnsubscribes, files, UnsubscribeAll, Fault, Count, Mains
  <2>2. used' \in Used
    BY <1>21 DEF StopUnsubscribes, files, UnsubscribeAll, Fault, Count, Used
  <2> QED BY <1>21, <2>1, <2>2 DEF StopUnsubscribes, files, UnsubscribeAll, Fault, Count
<1>22. CASE Joined
  <2>1. main' \in Mains
    BY <1>22 DEF Joined, flags, topics, files, Mains
  <2>2. worker' \in Workers
    BY <1>22 DEF Joined, flags, topics, files, Workers
  <2> QED BY <1>22, <2>1, <2>2 DEF Joined, flags, topics, files
<1>23. CASE JoinTimesOut
  <2>1. main' \in Mains
    BY <1>23 DEF JoinTimesOut, topics, files, Fault, Count, Mains
  <2>2. used' \in Used
    BY <1>23 DEF JoinTimesOut, topics, files, Fault, Count, Used
  <2> QED BY <1>23, <2>1, <2>2 DEF JoinTimesOut, topics, files, Fault, Count
<1>24. CASE Close
  <2>1. main' \in Mains
    BY <1>24 DEF Close, topics, files, Mains
  <2> QED BY <1>24, <2>1 DEF Close, topics, files
<1>25. CASE Report
  <2>1. main' \in Mains
    BY <1>25 DEF Report, flags, topics, files, Mains
  <2> QED BY <1>25, <2>1 DEF Report, flags, topics, files
<1>26. CASE Exit
  <2>1. main' \in Mains
    BY <1>26 DEF Exit, flags, topics, files, Mains
  <2>2. worker' \in Workers
    BY <1>26 DEF Exit, flags, topics, files, Workers
  <2>3. caller' \in [ Callers -> Events \cup { NoItem } ]
    BY <1>26 DEF Exit, flags, topics, files
  <2> QED BY <1>26, <2>1, <2>2, <2>3 DEF Exit, flags, topics, files
<1>27. CASE Maintenance
  BY <1>27 DEF Maintenance, flags, topics, files
<1>28. CASE UNCHANGED vars
  BY <1>28 DEF vars
<1>29. CASE LookAtHealth
  <2>1. main' \in Mains
    BY <1>29 DEF LookAtHealth, flags, topics, files, Mains
  <2> QED BY <1>29, <2>1 DEF LookAtHealth, flags, topics, files
<1> QED BY <1>1, <1>2, <1>3, <1>4, <1>5, <1>6, <1>7, <1>8, <1>9, <1>10, <1>11, <1>12,
     <1>13, <1>14, <1>15, <1>16, <1>17, <1>18, <1>19, <1>20, <1>21, <1>22, <1>23, <1>24,
     <1>25, <1>26, <1>27, <1>28, <1>29 DEF Next, Worker, Main

LEMMA ThreadsStep == ASSUME Inv, [Next]_vars PROVE ThreadsInv'
<1> USE EventsAssumption DEF Inv, TypeOK, ThreadsInv, Idle, Alive, Workers, Mains
<1>1. ASSUME NEW c \in Callers, Deliver(c) PROVE ThreadsInv'
  BY <1>1 DEF Deliver, flags, topics, files, Registered, Refuses
<1>2. ASSUME NEW c \in Callers, Callback(c) PROVE ThreadsInv'
  BY <1>2 DEF Callback, topics, files, Return, OnUnreadable, Count, OnMalformed,
       PutNowait, MayPut, PutFull, IsData
<1>3. CASE Take
  <2>1. Head(queue) \in Events
    BY <1>3 DEF Take
  <2> QED BY <1>3, <2>1, NoItemIsNoEvent DEF Take, flags, topics, files
<1>4. CASE WorkerExits
  BY <1>4 DEF WorkerExits, flags, topics, files, Done
<1>5. CASE OutsideScope
  BY <1>5 DEF OutsideScope, flags, topics, files, Loop
<1>6. CASE RawWritten
  BY <1>6 DEF RawWritten, topics, files, Fault, Count, Loop
<1>7. CASE RawRejected
  BY <1>7 DEF RawRejected, topics, files, Fault, Count, Loop
<1>8. CASE RawFails
  BY <1>8 DEF RawFails, topics, files, Fault, Count
<1>9. CASE WorkerCrashes
  BY <1>9 DEF WorkerCrashes, topics, files, Fault, Count
<1>10. CASE WorkerUnsubscribes
  BY <1>10 DEF WorkerUnsubscribes, files, UnsubscribeAll, Fault, Count
<1>11. CASE HandleTransport
  BY <1>11 DEF HandleTransport, topics, files, Fault, Count, Loop, Applied,
       ReconnectedGap
<1>12. CASE Resubscribe
  BY <1>12 DEF Resubscribe, files, Fault, Count, SubscriptionAccepted
<1>13. CASE NextAttempt
  BY <1>13 DEF NextAttempt, flags, topics, files
<1>14. CASE Recovered
  BY <1>14 DEF Recovered, topics, files, Count, Loop
<1>15. CASE NotRecovered
  BY <1>15 DEF NotRecovered, topics, files, Count
<1>16. CASE Start
  BY <1>16 DEF Start, topics, files
<1>17. CASE Subscribe
  BY <1>17 DEF Subscribe, flags, topics, files
<1>18. CASE StartFails
  BY <1>18 DEF StartFails, files, Fault, Count
<1>19. CASE GoLive
  BY <1>19 DEF GoLive, topics, files
<1>20. CASE StopRequested
  BY <1>20 DEF StopRequested, topics, files
<1>21. CASE StopUnsubscribes
  BY <1>21 DEF StopUnsubscribes, files, UnsubscribeAll, Fault, Count
<1>22. CASE Joined
  BY <1>22 DEF Joined, flags, topics, files
<1>23. CASE JoinTimesOut
  BY <1>23 DEF JoinTimesOut, topics, files, Fault, Count
<1>24. CASE Close
  BY <1>24 DEF Close, topics, files
<1>25. CASE Report
  BY <1>25 DEF Report, flags, topics, files
<1>26. CASE Exit
  BY <1>26 DEF Exit, flags, topics, files
<1>27. CASE Maintenance
  BY <1>27 DEF Maintenance, flags, topics, files
<1>28. CASE UNCHANGED vars
  BY <1>28 DEF vars
<1>29. CASE LookAtHealth
  BY <1>29 DEF LookAtHealth, flags, topics, files
<1> QED BY <1>1, <1>2, <1>3, <1>4, <1>5, <1>6, <1>7, <1>8, <1>9, <1>10, <1>11, <1>12,
     <1>13, <1>14, <1>15, <1>16, <1>17, <1>18, <1>19, <1>20, <1>21, <1>22, <1>23, <1>24,
     <1>25, <1>26, <1>27, <1>28, <1>29 DEF Next, Worker, Main

LEMMA RenewalStep == ASSUME Inv, [Next]_vars PROVE RenewalInv'
<1> USE DEF Inv, TypeOK, ThreadsInv, RenewalInv, Idle, Workers, Audits
<1>1. ASSUME NEW c \in Callers, Deliver(c) PROVE RenewalInv'
  BY <1>1 DEF Deliver, flags, topics, files, Registered, Refuses
<1>2. ASSUME NEW c \in Callers, Callback(c) PROVE RenewalInv'
  BY <1>2 DEF Callback, topics, files, Return, OnUnreadable, Count, OnMalformed,
       PutNowait, MayPut, PutFull, IsData
<1>3. CASE Take
  BY <1>3 DEF Take, flags, topics, files
<1>4. CASE WorkerExits
  BY <1>4 DEF WorkerExits, flags, topics, files, Done
<1>5. CASE OutsideScope
  BY <1>5 DEF OutsideScope, flags, topics, files, Loop
<1>6. CASE RawWritten
  BY <1>6 DEF RawWritten, topics, files, Fault, Count, Loop
<1>7. CASE RawRejected
  BY <1>7 DEF RawRejected, topics, files, Fault, Count, Loop
<1>8. CASE RawFails
  BY <1>8 DEF RawFails, topics, files, Fault, Count
<1>9. CASE WorkerCrashes
  BY <1>9 DEF WorkerCrashes, topics, files, Fault, Count
<1>10. CASE WorkerUnsubscribes
  BY <1>10 DEF WorkerUnsubscribes, files, UnsubscribeAll, Fault, Count
<1>11. CASE HandleTransport
  BY <1>11 DEF HandleTransport, topics, files, Fault, Count, Loop, Applied,
       ReconnectedGap
<1>12. CASE Resubscribe
  <2>1. PICK t \in worker.todo :
          worker' \in { [ worker EXCEPT !.todo = @ \ { t } ],
                       [ worker EXCEPT !.todo = @ \ { t }, !.failed = @ \cup { t } ] }
    BY <1>12 DEF Resubscribe
  <2>2. /\ worker'.pc = "recover" /\ worker'.item = worker.item
        /\ worker'.todo \cup worker'.failed \subseteq worker.todo \cup worker.failed
    <3>1. CASE worker' = [ worker EXCEPT !.todo = @ \ { t } ]
      BY <1>12, <3>1 DEF Resubscribe
    <3>2. CASE worker' = [ worker EXCEPT !.todo = @ \ { t }, !.failed = @ \cup { t } ]
      BY <1>12, <3>2 DEF Resubscribe
    <3> QED BY <2>1, <3>1, <3>2
  <2> QED BY <1>12, <2>2 DEF Resubscribe
<1>13. CASE NextAttempt
  BY <1>13 DEF NextAttempt, flags, topics, files
<1>14. CASE Recovered
  BY <1>14 DEF Recovered, topics, files, Count, Loop
<1>15. CASE NotRecovered
  BY <1>15 DEF NotRecovered, topics, files, Count
<1>16. CASE Start
  BY <1>16 DEF Start, topics, files
<1>17. CASE Subscribe
  BY <1>17 DEF Subscribe, flags, topics, files
<1>18. CASE StartFails
  BY <1>18 DEF StartFails, files, Fault, Count
<1>19. CASE GoLive
  BY <1>19 DEF GoLive, topics, files
<1>20. CASE StopRequested
  BY <1>20 DEF StopRequested, topics, files
<1>21. CASE StopUnsubscribes
  BY <1>21 DEF StopUnsubscribes, files, UnsubscribeAll, Fault, Count
<1>22. CASE Joined
  BY <1>22 DEF Joined, flags, topics, files
<1>23. CASE JoinTimesOut
  BY <1>23 DEF JoinTimesOut, topics, files, Fault, Count
<1>24. CASE Close
  BY <1>24 DEF Close, topics, files
<1>25. CASE Report
  BY <1>25 DEF Report, flags, topics, files
<1>26. CASE Exit
  BY <1>26 DEF Exit, flags, topics, files
<1>27. CASE Maintenance
  BY <1>27 DEF Maintenance, flags, topics, files
<1>28. CASE UNCHANGED vars
  BY <1>28 DEF vars
<1>29. CASE LookAtHealth
  BY <1>29 DEF LookAtHealth, flags, topics, files
<1> QED BY <1>1, <1>2, <1>3, <1>4, <1>5, <1>6, <1>7, <1>8, <1>9, <1>10, <1>11, <1>12,
     <1>13, <1>14, <1>15, <1>16, <1>17, <1>18, <1>19, <1>20, <1>21, <1>22, <1>23, <1>24,
     <1>25, <1>26, <1>27, <1>28, <1>29 DEF Next, Worker, Main

LEMMA LeaseStep == ASSUME Inv, [Next]_vars PROVE LeaseInv'
<1> USE DEF Inv, TypeOK, ThreadsInv, RenewalInv, LeaseInv, Idle, Alive, Workers
<1>1. ASSUME NEW c \in Callers, Deliver(c) PROVE LeaseInv'
  BY <1>1 DEF Deliver, flags, topics, files, Registered, Refuses
<1>2. ASSUME NEW c \in Callers, Callback(c) PROVE LeaseInv'
  BY <1>2 DEF Callback, topics, files, Return, OnUnreadable, Count, OnMalformed,
       PutNowait, MayPut, PutFull, IsData
<1>3. CASE Take
  BY <1>3 DEF Take, flags, topics, files
<1>4. CASE WorkerExits
  BY <1>4 DEF WorkerExits, flags, topics, files, Done
<1>5. CASE OutsideScope
  BY <1>5 DEF OutsideScope, flags, topics, files, Loop
<1>6. CASE RawWritten
  BY <1>6 DEF RawWritten, topics, files, Fault, Count, Loop
<1>7. CASE RawRejected
  BY <1>7 DEF RawRejected, topics, files, Fault, Count, Loop
<1>8. CASE RawFails
  BY <1>8 DEF RawFails, topics, files, Fault, Count
<1>9. CASE WorkerCrashes
  BY <1>9 DEF WorkerCrashes, topics, files, Fault, Count
<1>10. CASE WorkerUnsubscribes
  BY <1>10 DEF WorkerUnsubscribes, files, UnsubscribeAll, Fault, Count
<1>11. CASE HandleTransport
  BY <1>11 DEF HandleTransport, topics, files, Fault, Count, Loop, Applied,
       ReconnectedGap
<1>12. CASE Resubscribe
  BY <1>12 DEF Resubscribe, files, Fault, Count, SubscriptionAccepted
<1>13. CASE NextAttempt
  BY <1>13 DEF NextAttempt, flags, topics, files
<1>14. CASE Recovered
  BY <1>14 DEF Recovered, topics, files, Count, Loop
<1>15. CASE NotRecovered
  BY <1>15 DEF NotRecovered, topics, files, Count
<1>16. CASE Start
  BY <1>16 DEF Start, topics, files
<1>17. CASE Subscribe
  BY <1>17 DEF Subscribe, flags, topics, files
<1>18. CASE StartFails
  BY <1>18 DEF StartFails, files, Fault, Count
<1>19. CASE GoLive
  BY <1>19 DEF GoLive, topics, files
<1>20. CASE StopRequested
  BY <1>20 DEF StopRequested, topics, files
<1>21. CASE StopUnsubscribes
  BY <1>21 DEF StopUnsubscribes, files, UnsubscribeAll, Fault, Count
<1>22. CASE Joined
  BY <1>22 DEF Joined, flags, topics, files
<1>23. CASE JoinTimesOut
  BY <1>23 DEF JoinTimesOut, topics, files, Fault, Count
<1>24. CASE Close
  BY <1>24 DEF Close, topics, files
<1>25. CASE Report
  BY <1>25 DEF Report, flags, topics, files
<1>26. CASE Exit
  BY <1>26 DEF Exit, flags, topics, files
<1>27. CASE Maintenance
  BY <1>27 DEF Maintenance, flags, topics, files
<1>28. CASE UNCHANGED vars
  BY <1>28 DEF vars
<1>29. CASE LookAtHealth
  BY <1>29 DEF LookAtHealth, flags, topics, files
<1> QED BY <1>1, <1>2, <1>3, <1>4, <1>5, <1>6, <1>7, <1>8, <1>9, <1>10, <1>11, <1>12,
     <1>13, <1>14, <1>15, <1>16, <1>17, <1>18, <1>19, <1>20, <1>21, <1>22, <1>23, <1>24,
     <1>25, <1>26, <1>27, <1>28, <1>29 DEF Next, Worker, Main

LEMMA SessionStep == ASSUME Inv, [Next]_vars PROVE SessionInv'
<1> USE DEF Inv, TypeOK, RenewalInv, SessionInv, Audits
<1>1. ASSUME NEW c \in Callers, Deliver(c) PROVE SessionInv'
  BY <1>1 DEF Deliver, flags, topics, files, Registered, Refuses
<1>2. ASSUME NEW c \in Callers, Callback(c) PROVE SessionInv'
  BY <1>2 DEF Callback, topics, files, Return, OnUnreadable, Count, OnMalformed,
       PutNowait, MayPut, PutFull, IsData
<1>3. CASE Take
  BY <1>3 DEF Take, flags, topics, files
<1>4. CASE WorkerExits
  BY <1>4 DEF WorkerExits, flags, topics, files, Done
<1>5. CASE OutsideScope
  BY <1>5 DEF OutsideScope, flags, topics, files, Loop
<1>6. CASE RawWritten
  BY <1>6 DEF RawWritten, topics, files, Fault, Count, Loop
<1>7. CASE RawRejected
  BY <1>7 DEF RawRejected, topics, files, Fault, Count, Loop
<1>8. CASE RawFails
  BY <1>8 DEF RawFails, topics, files, Fault, Count
<1>9. CASE WorkerCrashes
  BY <1>9 DEF WorkerCrashes, topics, files, Fault, Count
<1>10. CASE WorkerUnsubscribes
  BY <1>10 DEF WorkerUnsubscribes, files, UnsubscribeAll, Fault, Count
<1>11. CASE HandleTransport
  BY <1>11 DEF HandleTransport, topics, files, Fault, Count, Loop, Applied,
       ReconnectedGap
<1>12. CASE Resubscribe
  BY <1>12 DEF Resubscribe, files, Fault, Count, SubscriptionAccepted
<1>13. CASE NextAttempt
  BY <1>13 DEF NextAttempt, flags, topics, files
<1>14. CASE Recovered
  <2>1. \A i \in DOMAIN raw : raw[i] \in Records
    OBVIOUS
  <2>2. \A i \in DOMAIN raw : raw[i].session \in Nat
    BY <2>1 DEF Records
  <2>3. transport' = [ transport EXCEPT !.required = FALSE, !.verified = TRUE, !.down = FALSE ]
    BY <1>14 DEF Recovered
  <2>4. transport'.gaps = transport.gaps /\ ~transport'.required /\ ~transport'.down
    BY <2>3
  <2> QED BY <1>14, <2>2, <2>4 DEF Recovered
<1>15. CASE NotRecovered
  BY <1>15 DEF NotRecovered, topics, files, Count
<1>16. CASE Start
  BY <1>16 DEF Start, topics, files
<1>17. CASE Subscribe
  BY <1>17 DEF Subscribe, flags, topics, files
<1>18. CASE StartFails
  BY <1>18 DEF StartFails, files, Fault, Count
<1>19. CASE GoLive
  BY <1>19 DEF GoLive, topics, files
<1>20. CASE StopRequested
  BY <1>20 DEF StopRequested, topics, files
<1>21. CASE StopUnsubscribes
  BY <1>21 DEF StopUnsubscribes, files, UnsubscribeAll, Fault, Count
<1>22. CASE Joined
  BY <1>22 DEF Joined, flags, topics, files
<1>23. CASE JoinTimesOut
  BY <1>23 DEF JoinTimesOut, topics, files, Fault, Count
<1>24. CASE Close
  BY <1>24 DEF Close, topics, files
<1>25. CASE Report
  BY <1>25 DEF Report, flags, topics, files
<1>26. CASE Exit
  BY <1>26 DEF Exit, flags, topics, files
<1>27. CASE Maintenance
  BY <1>27 DEF Maintenance, flags, topics, files
<1>28. CASE UNCHANGED vars
  BY <1>28 DEF vars
<1>29. CASE LookAtHealth
  BY <1>29 DEF LookAtHealth, flags, topics, files
<1> QED BY <1>1, <1>2, <1>3, <1>4, <1>5, <1>6, <1>7, <1>8, <1>9, <1>10, <1>11, <1>12,
     <1>13, <1>14, <1>15, <1>16, <1>17, <1>18, <1>19, <1>20, <1>21, <1>22, <1>23, <1>24,
     <1>25, <1>26, <1>27, <1>28, <1>29 DEF Next, Worker, Main

\* Only a callback moves while stop() is about to write CLOSED.
LEMMA ClosingStep == ASSUME Inv, [Next]_vars PROVE ClosingInv'
<1> USE DEF Inv, TypeOK, ThreadsInv, ClosingInv, Idle, Alive, Mains, Audits
<1> SUFFICES ASSUME main'.pc = "closing" PROVE ClosingInv'
  BY DEF ClosingInv
<1>1. CASE LookAtHealth
  BY <1>1 DEF LookAtHealth, flags, topics, files, Closable, Troubled, Health
<1>2. ASSUME NEW c \in Callers, Deliver(c) PROVE ClosingInv'
  BY <1>2 DEF Deliver, flags, topics, files, Troubled, Health
<1>3. ASSUME NEW c \in Callers, Callback(c) PROVE ClosingInv'
  <2>1. main.pc = "closing" /\ UNCHANGED << main, fatal, transport >> /\ ~fatal
    BY <1>3 DEF Callback
  <2>2. CASE counted' \cap LateKeys # {}
    BY <2>1, <2>2
  <2>3. CASE PutNowait(c)
    BY <2>1, <2>3 DEF PutNowait, Troubled, Health
  <2>4. OnUnreadable(c) \/ OnMalformed(c) \/ PutFull(c) => counted' \cap LateKeys # {}
    BY DEF OnUnreadable, OnMalformed, PutFull, Count, LateKeys
  <2> QED BY <1>3, <2>2, <2>3, <2>4 DEF Callback
<1>4. CASE Maintenance
  BY <1>4 DEF Maintenance, flags, topics, files, Troubled, Health
<1>5. CASE UNCHANGED vars
  BY <1>5 DEF vars, Troubled, Health
<1>6. ~Worker
  <2>1. main'.pc = "closing" /\ Worker => main.pc = "closing"
    BY DEF Worker, Take, WorkerExits, OutsideScope, RawWritten, RawRejected, RawFails,
           WorkerCrashes, WorkerUnsubscribes, HandleTransport, Resubscribe, NextAttempt,
           Recovered, NotRecovered
  <2>2. main.pc = "closing" => worker.pc \in { "none", "exited" }
    OBVIOUS
  <2> QED BY <2>1, <2>2 DEF Worker, Take, WorkerExits, OutsideScope, RawWritten, RawRejected,
           RawFails, WorkerCrashes, WorkerUnsubscribes, HandleTransport, Resubscribe,
           NextAttempt, Recovered, NotRecovered
<1>7. Main => LookAtHealth
  BY DEF Main, Start, Subscribe, StartFails, GoLive, StopRequested, StopUnsubscribes, Joined,
         JoinTimesOut, Close, Report, Exit
<1> QED BY <1>1, <1>2, <1>3, <1>4, <1>5, <1>6, <1>7 DEF Next

LEMMA Invariance == Spec => []Inv
<1>1. Init => Inv
  BY Inits
<1>2. Inv /\ [Next]_vars => Inv'
  BY TypeStep, ThreadsStep, RenewalStep, LeaseStep, SessionStep, ClosingStep DEF Inv
<1> QED BY <1>1, <1>2, PTL DEF Spec

\* The variables keep their types.
THEOREM TypesHold == Spec => []TypeOK
<1>1. Inv => TypeOK
  BY DEF Inv
<1> QED BY <1>1, Invariance, PTL

\* _release_lease: a free lease means that nothing streams and no worker lives.
THEOREM LeaseIsSafe == Spec => []LeaseCoversStreams
<1>1. Inv => LeaseCoversStreams
  BY DEF Inv, LeaseInv, LeaseCoversStreams, TypeOK
<1> QED BY <1>1, Invariance, PTL

----------------------------------------------------------------------------
(* What a step may not do.                                                 *)

LEMMA TroubleStep ==
  ASSUME Inv, Inv', [Next]_vars, Troubled, main.pc # "subscribe"
  PROVE  Troubled' \/ Overwritten
<1> USE EventsAssumption DEF Inv, TypeOK, ThreadsInv, Idle, Audits, Troubled, Health, DegradingKeys
<1>1. ASSUME NEW c \in Callers, Deliver(c) PROVE Troubled'
  BY <1>1 DEF Deliver, flags, topics, files, Registered, Refuses
<1>2. ASSUME NEW c \in Callers, Callback(c) PROVE Troubled'
  BY <1>2 DEF Callback, topics, files, Return, OnUnreadable, Count, OnMalformed,
       PutNowait, MayPut, PutFull, IsData
<1>3. CASE Take
  BY <1>3 DEF Take, flags, topics, files
<1>4. CASE WorkerExits
  BY <1>4 DEF WorkerExits, flags, topics, files, Done
<1>5. CASE OutsideScope
  BY <1>5 DEF OutsideScope, flags, topics, files, Loop
<1>6. CASE RawWritten
  BY <1>6 DEF RawWritten, topics, files, Fault, Count, Loop
<1>7. CASE RawRejected
  BY <1>7 DEF RawRejected, topics, files, Fault, Count, Loop
<1>8. CASE RawFails
  BY <1>8 DEF RawFails, topics, files, Fault, Count
<1>9. CASE WorkerCrashes
  BY <1>9 DEF WorkerCrashes, topics, files, Fault, Count
<1>10. CASE WorkerUnsubscribes
  BY <1>10 DEF WorkerUnsubscribes, files, UnsubscribeAll, Fault, Count
<1>11. CASE HandleTransport
  BY <1>11 DEF HandleTransport, topics, files, Fault, Count, Loop, Applied,
       ReconnectedGap
<1>12. CASE Resubscribe
  BY <1>12 DEF Resubscribe, files, Fault, Count, SubscriptionAccepted
<1>13. CASE NextAttempt
  BY <1>13 DEF NextAttempt, flags, topics, files
<1>14. CASE Recovered
  BY <1>14 DEF Recovered, topics, files, Count, Loop
<1>15. CASE NotRecovered
  BY <1>15 DEF NotRecovered, topics, files, Count
<1>16. CASE Start
  BY <1>16 DEF Start, topics, files
<1>17. CASE Subscribe
  BY <1>17 DEF Subscribe, flags, topics, files
<1>18. CASE StartFails
  BY <1>18 DEF StartFails, files, Fault, Count
<1>19. CASE GoLive
  BY <1>19 DEF GoLive, topics, files
<1>20. CASE StopRequested
  BY <1>20 DEF StopRequested, topics, files
<1>21. CASE StopUnsubscribes
  BY <1>21 DEF StopUnsubscribes, files, UnsubscribeAll, Fault, Count
<1>22. CASE Joined
  BY <1>22 DEF Joined, flags, topics, files
<1>23. CASE JoinTimesOut
  BY <1>23 DEF JoinTimesOut, topics, files, Fault, Count
<1>24. CASE Close
  BY <1>24 DEF Close, topics, files, ClosingInv, Overwritten
<1>25. CASE Report
  BY <1>25 DEF Report, flags, topics, files
<1>26. CASE Exit
  BY <1>26 DEF Exit, flags, topics, files
<1>27. CASE Maintenance
  BY <1>27 DEF Maintenance, flags, topics, files
<1>28. CASE UNCHANGED vars
  BY <1>28 DEF vars, Health
<1>29. CASE LookAtHealth
  BY <1>29 DEF LookAtHealth, flags, topics, files, Closable
<1> QED BY <1>1, <1>2, <1>3, <1>4, <1>5, <1>6, <1>7, <1>8, <1>9, <1>10, <1>11, <1>12,
     <1>13, <1>14, <1>15, <1>16, <1>17, <1>18, <1>19, <1>20, <1>21, <1>22, <1>23, <1>24,
     <1>25, <1>26, <1>27, <1>28, <1>29 DEF Next, Worker, Main

\* health() and stop(): trouble that was reported is not taken back, but for what a
\* late callback reports while stop() writes CLOSED.
THEOREM TroubleStays == Spec => TroubleIsKept
<1>1. Inv /\ Inv' /\ [Next]_vars => [Troubled /\ main.pc # "subscribe" => Troubled' \/ Overwritten]_vars
  BY TroubleStep
<1> QED BY <1>1, Invariance, PTL DEF Spec, TroubleIsKept

LEMMA RenewedStep ==
  ASSUME Inv, [Next]_vars, transport.required, ~transport'.required
  PROVE  \A i \in DOMAIN raw : raw[i].session < epoch'
<1>1. CASE Recovered
  <2>1. \A i \in DOMAIN raw : raw[i] \in Records
    BY DEF Inv, TypeOK
  <2>2. \A i \in DOMAIN raw : raw[i].session \in Nat
    BY <2>1 DEF Records
  <2>3. epoch' = transport.gaps /\ epoch \in Nat /\ transport.gaps \in Nat
    BY <1>1 DEF Recovered, Inv, TypeOK, Audits
  <2> QED BY <2>2, <2>3 DEF Inv, SessionInv
<1>2. CASE HandleTransport
  <2>1. Applied(worker.item.kind).required
    BY DEF Applied, Inv, TypeOK, Audits
  <2> QED BY <1>2, <2>1 DEF HandleTransport
<1>3. CASE NotRecovered
  BY <1>3 DEF NotRecovered, Inv, TypeOK, Audits
<1>4. CASE UNCHANGED transport
  BY <1>4
<1>5. Next => Recovered \/ HandleTransport \/ NotRecovered \/ UNCHANGED transport
  BY DEF Next, Worker, Main, Deliver, Callback, Take, WorkerExits, OutsideScope, RawWritten,
         RawRejected, RawFails, WorkerCrashes, WorkerUnsubscribes, Resubscribe, NextAttempt,
         Start, Subscribe, StartFails, GoLive, StopRequested, StopUnsubscribes, Joined,
         JoinTimesOut, LookAtHealth, Close, Report, Exit, Maintenance, flags, topics, files
<1> QED BY <1>1, <1>2, <1>3, <1>4, <1>5 DEF vars

\* _handle_transport_event: a renewal opens a session that no record has.
THEOREM RenewalsOpenSessions == Spec => RenewalOpensSession
<1>1. Inv /\ [Next]_vars =>
        [transport.required /\ ~transport'.required => \A i \in DOMAIN raw : raw[i].session < epoch']_vars
  BY RenewedStep
<1> QED BY <1>1, Invariance, PTL DEF Spec, RenewalOpensSession

----------------------------------------------------------------------------
(* The refinement of Capture: every step settles, takes or loses an event, *)
(* passes the smoke test, or is a stutter of what Capture sees.            *)

\* What a step does that Capture does not see.
Quiet == UNCHANGED << Pending, Kept, LossDetected, smoke = "pass" >>

LEMMA QuietSteps ==
  ASSUME Inv, Inv',
         \/ \E c \in Callers : Deliver(c) \/ (Callback(c) /\ OnMalformed(c))
         \/ Take \/ WorkerExits \/ WorkerUnsubscribes \/ NextAttempt \/ Start
         \/ Resubscribe \/ Subscribe \/ StartFails \/ GoLive \/ StopRequested
         \/ StopUnsubscribes \/ Joined \/ LookAtHealth \/ Close \/ Maintenance
         \/ UNCHANGED vars
  PROVE  Quiet
<1> USE DEF Inv, TypeOK, ThreadsInv, Idle, Quiet, Pending, Kept, LossDetected, Workers,
     Mains
<1>1. ASSUME NEW c \in Callers, Deliver(c) PROVE Quiet
  BY <1>1 DEF Deliver, flags, files
<1>2. ASSUME NEW c \in Callers, Callback(c), OnMalformed(c) PROVE Quiet
  BY <1>2 DEF Callback, OnMalformed, Count, files, LossKeys
<1>3. CASE Take
  BY <1>3 DEF Take, flags, topics, files, LossKeys
<1>4. CASE WorkerExits
  BY <1>4 DEF WorkerExits, flags, topics, files, Done, LossKeys
<1>5. CASE WorkerUnsubscribes
  BY <1>5 DEF WorkerUnsubscribes, files, UnsubscribeAll, Fault, Count, LossKeys, flags
<1>6. CASE NextAttempt
  BY <1>6 DEF NextAttempt, flags, topics, files, LossKeys
<1>7. CASE Start
  BY <1>7 DEF Start, topics, files, LossKeys, flags
<1>8. CASE Resubscribe
  BY <1>8 DEF Resubscribe, files, Fault, Count, SubscriptionAccepted, LossKeys, flags
<1>9. CASE Subscribe
  BY <1>9 DEF Subscribe, flags, topics, files, LossKeys
<1>10. CASE StartFails
  BY <1>10 DEF StartFails, files, Fault, Count, LossKeys, flags
<1>11. CASE GoLive
  BY <1>11 DEF GoLive, topics, files, LossKeys, flags
<1>12. CASE StopRequested
  BY <1>12 DEF StopRequested, topics, files, LossKeys, flags
<1>13. CASE StopUnsubscribes
  BY <1>13 DEF StopUnsubscribes, files, UnsubscribeAll, Fault, Count, LossKeys, flags
<1>14. CASE Joined
  BY <1>14 DEF Joined, flags, topics, files, LossKeys
<1>15. CASE Close
  BY <1>15 DEF Close, topics, files, LossKeys, flags
<1>16. CASE Maintenance
  BY <1>16 DEF Maintenance, flags, topics, files, LossKeys
<1>17. CASE UNCHANGED vars
  BY <1>17 DEF vars
<1>18. CASE LookAtHealth
  BY <1>18 DEF LookAtHealth, flags, topics, files
<1> QED BY <1>1, <1>2, <1>3, <1>4, <1>5, <1>6, <1>7, <1>8, <1>9, <1>10, <1>11, <1>12,
     <1>13, <1>14, <1>15, <1>16, <1>17, <1>18

\* The worker has settled the event it had.
Settled == worker.item \in Events /\ worker'.item = NoItem /\ UNCHANGED queue

LEMMA SettledIsHead ==
  ASSUME Inv, Settled
  PROVE  Pending # << >> /\ Head(Pending) = worker.item /\ Pending' = Tail(Pending)
<1>1. NoItem \notin Events
  BY DEF Events, NoItem
<1>2. queue \in Seq(Events) /\ worker.item \in Events
  BY DEF Inv, TypeOK, Settled
<1>3. Pending = << worker.item >> \o queue /\ Pending' = queue
  BY <1>1 DEF Settled, Pending
<1>4. << worker.item >> \o queue # << >> /\ Head(<< worker.item >> \o queue) = worker.item
  BY <1>2
<1>5. Tail(<< worker.item >> \o queue) = queue
  BY <1>2
<1> QED BY <1>3, <1>4, <1>5

\* An event is lost: while it is settled, or before it is taken.
LEMMA Loses ==
  ASSUME Inv, Settled \/ UNCHANGED Pending, LossDetected', UNCHANGED << raw, smoke = "pass" >>
  PROVE  Promise!Lose
<1>1. UNCHANGED Kept
  BY DEF Kept
<1> QED BY <1>1, SettledIsHead DEF Promise!Lose, Promise!Settle

\* A transport event, or an event of another's topic, has been handled.
LEMMA Ignores ==
  ASSUME Inv, Settled, worker.item.kind # "data", UNCHANGED << raw, LossDetected, smoke = "pass" >>
  PROVE  Promise!Ignore
<1>1. UNCHANGED Kept
  BY DEF Kept
<1> QED BY <1>1, SettledIsHead DEF Promise!Ignore, Promise!Settle, Settled

LEMMA WorkerHasEvent ==
  ASSUME Inv, worker.pc \in { "busy", "recover" }
  PROVE  worker.item \in Events
BY DEF Inv, TypeOK, ThreadsInv, Workers, NoItem

LEMMA LoopForgets ==
  ASSUME Inv, Loop
  PROVE  worker'.item = NoItem
BY DEF Inv, TypeOK, Loop, Workers

LEMMA CallbackRefines ==
  ASSUME Inv, NEW c \in Callers, Callback(c)
  PROVE  Promise!Take \/ Promise!Lose \/ Quiet
<1>1. UNCHANGED << worker, raw, smoke, fatal >>
  BY DEF Callback, files
<1>2. CASE OnUnreadable(c) \/ PutFull(c)
  <2>1. LossDetected' /\ UNCHANGED queue
    BY <1>1, <1>2 DEF OnUnreadable, PutFull, Count, LossDetected, LossKeys
  <2> QED BY <1>1, <2>1, Loses DEF Pending
<1>3. CASE OnMalformed(c)
  BY <1>1, <1>3 DEF OnMalformed, Count, Quiet, LossDetected, LossKeys, Pending, Kept
<1>4. CASE PutNowait(c)
  <2>1. caller[c] \in Events /\ queue \in Seq(Events) /\ queue' = Append(queue, caller[c])
    BY <1>4 DEF PutNowait, Callback, Inv, TypeOK
  <2>2. Pending' = Append(Pending, caller[c])
    BY <1>1, <2>1 DEF Pending, Inv, TypeOK, Workers
  <2>3. UNCHANGED << Kept, LossDetected, smoke = "pass" >>
    BY <1>1, <1>4 DEF PutNowait, Kept, LossDetected
  <2> QED BY <2>1, <2>2, <2>3 DEF Promise!Take
<1> QED BY <1>2, <1>3, <1>4 DEF Callback

LEMMA RawWrittenRefines ==
  ASSUME Inv, RawWritten
  PROVE  Promise!Keep
<1>1. worker.item \in Events /\ Settled
  BY WorkerHasEvent, LoopForgets DEF RawWritten, Settled
<1> DEFINE record == [ event |-> worker.item, session |-> epoch, seq |-> seq,
                       gaps |-> transport.gaps ]
<1>2. raw \in Seq(Records) /\ raw' = Append(raw, record) /\ record.event = worker.item
  BY DEF RawWritten, Inv, TypeOK
<1> HIDE DEF record
<1>3. Kept' = Append(Kept, worker.item)
  BY <1>2 DEF Kept
<1>4. UNCHANGED << LossDetected, smoke = "pass" >>
  BY DEF RawWritten, Count, LossDetected, LossKeys
<1> QED BY <1>1, <1>3, <1>4, SettledIsHead DEF Promise!Keep, Promise!Settle

LEMMA FailureRefines ==
  ASSUME Inv, RawRejected \/ RawFails \/ WorkerCrashes \/ NotRecovered
  PROVE  Promise!Lose
<1>1. Settled
  <2>1. worker.item \in Events
    BY WorkerHasEvent DEF RawRejected, RawFails, WorkerCrashes, NotRecovered
  <2>2. worker'.item = NoItem
    BY LoopForgets DEF RawRejected, RawFails, WorkerCrashes, NotRecovered, Inv, TypeOK, Workers
  <2> QED BY <2>1, <2>2 DEF RawRejected, RawFails, WorkerCrashes, NotRecovered, Settled
<1>2. LossDetected'
  BY DEF RawRejected, RawFails, WorkerCrashes, NotRecovered, Count, LossDetected, LossKeys
<1>3. UNCHANGED << raw, smoke >>
  BY DEF RawRejected, RawFails, WorkerCrashes, NotRecovered, files
<1> QED BY <1>1, <1>2, <1>3, Loses

LEMMA TransportRefines ==
  ASSUME Inv, HandleTransport
  PROVE  Promise!Lose \/ Promise!Ignore \/ Quiet
<1>1. worker.item \in Events /\ worker.item.kind # "data"
  BY WorkerHasEvent, EventsAssumption DEF HandleTransport
<1>2. UNCHANGED << queue, raw, smoke, fatal >>
  BY DEF HandleTransport, files
<1>3. CASE Count("transport_audit_error") /\ Loop
  BY <1>1, <1>2, <1>3, Loses, LoopForgets DEF Settled, Count, LossDetected, LossKeys
<1>4. CASE Loop /\ UNCHANGED counted
  BY <1>1, <1>2, <1>4, Ignores, LoopForgets DEF Settled, LossDetected
<1>5. CASE /\ worker' = [ worker EXCEPT !.pc = "recover", !.todo = active, !.failed = {},
                                       !.attempt = 1 ]
           /\ UNCHANGED counted
  BY <1>2, <1>5 DEF Quiet, Pending, Kept, LossDetected, Inv, TypeOK, Workers
<1> QED BY <1>3, <1>4, <1>5 DEF HandleTransport

LEMMA RecoveredRefines ==
  ASSUME Inv, Recovered
  PROVE  Promise!Ignore
<1>1. worker.item \in Events /\ worker.item.kind # "data"
  BY WorkerHasEvent, EventsAssumption DEF Recovered, Inv, RenewalInv
<1>2. UNCHANGED << raw, LossDetected, smoke >>
  BY DEF Recovered, Count, LossDetected, LossKeys
<1> QED BY <1>1, <1>2, Ignores, LoopForgets DEF Recovered, Settled

LEMMA ReportRefines ==
  ASSUME Inv, Report
  PROVE  Promise!Pass \/ Quiet
<1>1. UNCHANGED << Pending, Kept, LossDetected >> /\ smoke # "pass"
  BY DEF Report, Pending, Kept, LossDetected, flags, files, Inv, ThreadsInv
<1>2. CASE smoke' = "pass"
  <2>1. Checked /\ ~LossDetected /\ queue = << >> /\ raw # << >> /\ raw \in Seq(Records)
    BY <1>2 DEF Report, Checked, Inv, TypeOK
  <2>2. worker.item = NoItem
    BY <2>1 DEF Report, LossDetected, Inv, ThreadsInv, Alive
  <2>3. Kept # << >>
    BY <2>1 DEF Kept
  <2> QED BY <1>1, <1>2, <2>1, <2>2, <2>3 DEF Promise!Pass, Pending
<1>3. CASE smoke' # "pass"
  BY <1>1, <1>3 DEF Quiet
<1> QED BY <1>2, <1>3

\* The process ends with an event in hand only when a join timed out.
LEMMA ExitRefines ==
  ASSUME Inv, Exit
  PROVE  Promise!Lose \/ Quiet
<1>1. UNCHANGED << queue, raw, smoke, LossDetected >> /\ worker'.item = NoItem
  BY DEF Exit, LossDetected, flags, files, Inv, TypeOK, Workers
<1>2. CASE worker.item = NoItem
  BY <1>1, <1>2 DEF Quiet, Pending, Kept
<1>3. CASE worker.item # NoItem
  <2>1. LossDetected /\ Settled
    BY <1>1, <1>3 DEF Exit, LossDetected, Settled, Inv, TypeOK, ThreadsInv, Alive, Workers
  <2> QED BY <1>1, <2>1, Loses
<1> QED BY <1>2, <1>3

LEMMA JoinTimesOutRefines ==
  ASSUME Inv, JoinTimesOut
  PROVE  Promise!Lose
<1>1. UNCHANGED << Pending, raw, smoke >> /\ LossDetected'
  BY DEF JoinTimesOut, Pending, files, LossDetected
<1> QED BY <1>1, Loses

LEMMA RefineStep ==
  ASSUME Inv, Inv', [Next]_vars
  PROVE  [Promise!Next]_(Promise!vars)
<1>1. Quiet => UNCHANGED Promise!vars
  BY DEF Quiet, Promise!vars
<1>2. ASSUME NEW c \in Callers, Deliver(c) \/ Callback(c)
      PROVE  Promise!Next \/ Quiet
  BY <1>2, QuietSteps, CallbackRefines DEF Promise!Next
<1>3. CASE Worker
  <2>1. CASE OutsideScope
    <3>1. Settled /\ worker.item.kind # "data" /\ UNCHANGED << raw, LossDetected, smoke >>
      BY <2>1, WorkerHasEvent, LoopForgets
         DEF OutsideScope, Settled, LossDetected, flags, files
    <3> QED BY <3>1, Ignores DEF Promise!Next
  <2>2. CASE RawWritten
    BY <2>2, RawWrittenRefines DEF Promise!Next
  <2>3. CASE RawRejected \/ RawFails \/ WorkerCrashes \/ NotRecovered
    BY <2>3, FailureRefines DEF Promise!Next
  <2>4. CASE HandleTransport
    BY <1>1, <2>4, TransportRefines DEF Promise!Next
  <2>5. CASE Recovered
    BY <2>5, RecoveredRefines DEF Promise!Next
  <2>6. CASE Take \/ WorkerExits \/ WorkerUnsubscribes \/ Resubscribe \/ NextAttempt
    BY <1>1, <2>6, QuietSteps
  <2> QED BY <1>3, <2>1, <2>2, <2>3, <2>4, <2>5, <2>6 DEF Worker
<1>4. CASE Main
  <2>1. CASE Report
    BY <1>1, <2>1, ReportRefines DEF Promise!Next
  <2>2. CASE Exit
    BY <1>1, <2>2, ExitRefines DEF Promise!Next
  <2>3. CASE JoinTimesOut
    BY <2>3, JoinTimesOutRefines DEF Promise!Next
  <2>4. CASE \/ Start \/ Subscribe \/ StartFails \/ GoLive \/ StopRequested \/ StopUnsubscribes
             \/ Joined \/ LookAtHealth \/ Close
    BY <1>1, <2>4, QuietSteps
  <2> QED BY <1>4, <2>1, <2>2, <2>3, <2>4 DEF Main
<1>5. CASE Maintenance \/ UNCHANGED vars
  BY <1>1, <1>5, QuietSteps
<1> QED BY <1>1, <1>2, <1>3, <1>4, <1>5 DEF Next

\* ShioajiTickCollector and its smoke_checks implement Capture: an event that was
\* taken is kept, or the session knows that one was lost, and it passes only then.
THEOREM PromiseIsKept == Spec => KeepsPromise
<1>1. Init => Promise!Init
  BY DEF Init, Promise!Init, Pending, Kept, LossDetected, NoItem, LossKeys
<1>2. Inv /\ Inv' /\ [Next]_vars => [Promise!Next]_(Promise!vars)
  BY RefineStep
<1> QED BY <1>1, <1>2, Invariance, PTL DEF Spec, KeepsPromise, Promise!Spec
==============================================================================
