-------------------------- MODULE ObservationsProofs --------------------------
(***************************************************************************)
(* What Observations announces of a plan is confirmed by the ticks before  *)
(* it, for every plan, every feed of books and ticks, and every delay; and *)
(* what it takes for a book is one, whatever levels are sent.              *)
(***************************************************************************)
EXTENDS Observations, SequenceTheorems, FiniteSetTheorems, WellFoundedInduction, TLAPS

\* The ticks at or over the zone after tick k of the run r.
Over(r, k) == { i \in (k + 1)..Len(r) : r[i].px >= High }

\* The ticks of a run are usable, in order and without a gap.
RunInv ==
  /\ Sound(1)
  /\ run # << >> => healthy /\ last = run[Len(run)].at

\* What a machine that is testing remembers of the run.
SupportInv ==
  support.state = "TESTING" => \E k \in DOMAIN run :
    /\ run[k].at = support.since /\ run[k].px \in Low..High
    /\ \A i \in k..Len(run) : run[i].px >= Low
    /\ Cardinality(Over(run, k)) = support.count

BreakoutInv ==
  breakout.state = "TESTING" => \E k \in DOMAIN run :
    /\ run[k].at = breakout.since
    /\ \A i \in k..Len(run) : run[i].px > Resistance
    /\ Len(run) - k + 1 = breakout.count

Inv == TypeOK /\ RunInv /\ SupportInv /\ BreakoutInv /\ EventsAreConfirmed

----------------------------------------------------------------------------
(* A tick that is evaluated.                                               *)

\* The step, with the tick it takes.
Evaluated(px, at) ==
  /\ px \in Prices /\ at \in Nat /\ clock' \in Nat
  /\ Conclusive(at, clock') /\ Evaluate(px, at)
  /\ last' = at /\ UNCHANGED << session, healthy, book >>

LEMMA RunGrows ==
  ASSUME Inv, NEW px, NEW at, Evaluated(px, at)
  PROVE  /\ run' \in Seq(Ticks) /\ Len(run') = Len(run) + 1
         /\ \A i \in 1..Len(run) : run'[i] = run[i]
         /\ run'[Len(run')].px = px /\ run'[Len(run')].at = at
         /\ run'[Len(run')].received = clock'
         /\ run'[Len(run')].book = book /\ run'[Len(run')].session = session
         /\ Len(run) \in Nat /\ Len(run') \in DOMAIN run' /\ DOMAIN run \subseteq DOMAIN run'
         /\ DOMAIN run = 1..Len(run) /\ DOMAIN run' = 1..Len(run')
<1> DEFINE r == [ px |-> px, at |-> at, received |-> clock', book |-> book, session |-> session ]
<1>1. r \in Ticks /\ r.px = px /\ r.at = at /\ r.received = clock' /\ r.book = book
      /\ r.session = session
  BY DEF Evaluated, Ticks, Inv, TypeOK
<1>2. run \in Seq(Ticks) /\ run' = Append(run, r)
  BY DEF Evaluated, Evaluate, Inv, TypeOK
<1> HIDE DEF r
<1> QED BY <1>1, <1>2, AppendProperties

LEMMA RunStaysSound ==
  ASSUME Inv, NEW px, NEW at, Evaluated(px, at)
  PROVE  RunInv'
<1>1. healthy /\ UsableBook(at) /\ clock' - book.at <= MaxBookAge /\ InOrder(at)
  BY DEF Evaluated, Conclusive, FreshBook
<1>2. run # << >> => last = run[Len(run)].at /\ last \in Nat
  <2>1. run # << >> => run[Len(run)] \in Ticks
    BY ElementOfSeq DEF Inv, TypeOK
  <2> QED BY <2>1 DEF Inv, RunInv, Ticks
<1>3. ASSUME NEW i \in 1..Len(run')
      PROVE  /\ run'[i].book # NoBook /\ run'[i].book.session = run'[i].session
             /\ run'[i].book.at <= run'[i].at /\ run'[i].received - run'[i].book.at <= MaxBookAge
             /\ i > 1 => run'[i].at >= run'[i - 1].at /\ run'[i].at - run'[i - 1].at <= MaxTickGap
  <2>1. CASE i = Len(run')
    <3>1. i > 1 => run # << >> /\ run'[i - 1] = run[Len(run)]
      BY <2>1, RunGrows
    <3> QED BY <1>1, <1>2, <2>1, <3>1, RunGrows DEF UsableBook, InOrder, Never
  <2>2. CASE i # Len(run')
    <3>1. i \in 1..Len(run) /\ run'[i] = run[i] /\ (i > 1 => run'[i - 1] = run[i - 1])
      BY <2>2, RunGrows
    <3> QED BY <3>1 DEF Inv, RunInv, Sound
  <2> QED BY <2>1, <2>2
<1>4. Sound(1)'
  BY <1>3 DEF Sound
<1> QED BY <1>1, <1>4, RunGrows DEF Evaluated, RunInv

\* A tick at or over the zone is one more of them, any other is not.
LEMMA OverGrows ==
  ASSUME Inv, NEW px, NEW at, Evaluated(px, at), NEW k \in DOMAIN run
  PROVE  /\ Cardinality(Over(run, k)) \in Nat
         /\ Cardinality(Over(run', k)) = Cardinality(Over(run, k)) + (IF px >= High THEN 1 ELSE 0)
<1>1. IsFiniteSet(Over(run, k)) /\ Len(run') \notin Over(run, k)
  <2>1. Over(run, k) \subseteq 1..Len(run)
    BY RunGrows DEF Over
  <2>2. IsFiniteSet(1..Len(run))
    BY RunGrows, FS_Interval
  <2> QED BY <2>1, <2>2, FS_Subset, RunGrows
<1>2. Over(run', k) = IF px >= High THEN Over(run, k) \cup { Len(run') } ELSE Over(run, k)
  BY RunGrows DEF Over
<1>3. Cardinality(Over(run, k)) \in Nat
  BY <1>1, FS_CardinalityType
<1>4. Cardinality(Over(run, k) \cup { Len(run') }) = Cardinality(Over(run, k)) + 1
  BY <1>1, FS_AddElement
<1> QED BY <1>2, <1>3, <1>4

\* What the support machine does with the tick.
LEMMA SupportMoves ==
  ASSUME Inv, NEW px, NEW at, Evaluated(px, at)
  PROVE  /\ support'.state = "TESTING" =>
              \/ px \in Low..High /\ support'.since = at /\ support'.count = 0
              \/ /\ support.state = "TESTING" /\ px >= Low /\ support'.since = support.since
                 /\ support'.count = support.count + (IF px >= High THEN 1 ELSE 0)
         /\ SupportStep(px, at).event = "SUPPORT_HELD" =>
              support.state = "TESTING" /\ px >= High /\ Confirmed(support.count + 1, support.since, at)
<1>1. px \in Int /\ support' = SupportStep(px, at).next
  BY FeedAssumption DEF Evaluated, Evaluate
<1> QED BY <1>1, PlanAssumption DEF SupportStep, Inv, TypeOK, Machines

LEMMA BreakoutMoves ==
  ASSUME Inv, NEW px, NEW at, Evaluated(px, at)
  PROVE  /\ breakout'.state = "TESTING" =>
              /\ px > Resistance
              /\ \/ breakout'.since = at /\ breakout'.count = 1
                 \/ /\ breakout.state = "TESTING" /\ breakout'.since = breakout.since
                    /\ breakout'.count = breakout.count + 1
         /\ BreakoutStep(px, at).event = "BREAKOUT_OBSERVED" =>
              /\ breakout.state = "TESTING" /\ px > Resistance
              /\ Confirmed(breakout.count + 1, breakout.since, at)
<1>1. px \in Int /\ breakout' = BreakoutStep(px, at).next
  BY FeedAssumption DEF Evaluated, Evaluate
<1> QED BY <1>1, PlanAssumption DEF BreakoutStep, Inv, TypeOK, Machines, Idle

LEMMA WhatIsAnnounced ==
  ASSUME NEW px, NEW at, Evaluated(px, at)
  PROVE  /\ Announced("SUPPORT_HELD")' => SupportStep(px, at).event = "SUPPORT_HELD"
         /\ Announced("BREAKOUT_OBSERVED")' => BreakoutStep(px, at).event = "BREAKOUT_OBSERVED"
<1>1. out' = { << e, "OBSERVED" >> : e \in { SupportStep(px, at).event,
                                           BreakoutStep(px, at).event } \ { "none" } }
  BY DEF Evaluated, Evaluate
<1>2. SupportStep(px, at).event \in { "SUPPORT_TESTED", "SUPPORT_BROKEN", "SUPPORT_HELD", "none" }
  BY DEF SupportStep
<1>3. BreakoutStep(px, at).event \in { "BREAKOUT_OBSERVED", "BREAKOUT_RETESTED", "none" }
  BY DEF BreakoutStep
<1> QED BY <1>1, <1>2, <1>3 DEF Announced
\* The ticks that the machines of before had seen, and the new one.
LEMMA SupportFollows ==
  ASSUME Inv, NEW px, NEW at, Evaluated(px, at), support.state = "TESTING", px >= Low
  PROVE  \E k \in DOMAIN run' :
            /\ run'[k].at = support.since /\ run'[k].px \in Low..High
            /\ \A i \in k..Len(run') : run'[i].px >= Low
            /\ Cardinality(Over(run', k)) = support.count + (IF px >= High THEN 1 ELSE 0)
<1>1. PICK k \in DOMAIN run :
        /\ run[k].at = support.since /\ run[k].px \in Low..High
        /\ \A i \in k..Len(run) : run[i].px >= Low
        /\ Cardinality(Over(run, k)) = support.count
  BY DEF Inv, SupportInv
<1>2. \A i \in k..Len(run') : run'[i].px >= Low
  BY <1>1, RunGrows
<1>3. k \in DOMAIN run' /\ run'[k] = run[k]
  BY RunGrows
<1>4. Cardinality(Over(run', k)) = support.count + (IF px >= High THEN 1 ELSE 0)
  BY <1>1, OverGrows
<1> QED BY <1>1, <1>2, <1>3, <1>4

LEMMA BreakoutFollows ==
  ASSUME Inv, NEW px, NEW at, Evaluated(px, at), breakout.state = "TESTING", px > Resistance
  PROVE  \E k \in DOMAIN run' :
            /\ run'[k].at = breakout.since
            /\ \A i \in k..Len(run') : run'[i].px > Resistance
            /\ Len(run') - k + 1 = breakout.count + 1
<1>1. PICK k \in DOMAIN run :
        /\ run[k].at = breakout.since
        /\ \A i \in k..Len(run) : run[i].px > Resistance
        /\ Len(run) - k + 1 = breakout.count
  BY DEF Inv, BreakoutInv
<1>2. \A i \in k..Len(run') : run'[i].px > Resistance
  <2>1. PICK n \in Nat : n = Len(run) /\ Len(run') = n + 1 /\ k \in 1..n
    BY RunGrows
  <2>2. run'[n + 1].px > Resistance /\ \A i \in 1..n : run'[i] = run[i]
    BY <2>1, RunGrows
  <2> QED BY <1>1, <2>1, <2>2
<1>3. k \in DOMAIN run' /\ run'[k] = run[k]
  BY RunGrows
<1>4. Len(run') - k + 1 = breakout.count + 1
  <2>1. k \in Int /\ Len(run) \in Int /\ Len(run') = Len(run) + 1
    BY RunGrows
  <2> QED BY <1>1, <2>1
<1> QED BY <1>1, <1>2, <1>3, <1>4

LEMMA SupportKeeps ==
  ASSUME Inv, NEW px, NEW at, Evaluated(px, at)
  PROVE  SupportInv'
<1> SUFFICES ASSUME support'.state = "TESTING"
             PROVE  \E k \in DOMAIN run' :
                      /\ run'[k].at = support'.since /\ run'[k].px \in Low..High
                      /\ \A i \in k..Len(run') : run'[i].px >= Low
                      /\ Cardinality(Over(run', k)) = support'.count
  BY DEF SupportInv, Over
<1>1. CASE px \in Low..High /\ support'.since = at /\ support'.count = 0
  <2>1. Over(run', Len(run')) = {}
    BY RunGrows DEF Over
  <2>2. \A i \in Len(run')..Len(run') : run'[i].px >= Low
    BY <1>1, RunGrows, PlanAssumption
  <2> QED BY <1>1, <2>1, <2>2, RunGrows, FS_EmptySet
<1>2. CASE /\ support.state = "TESTING" /\ px >= Low /\ support'.since = support.since
           /\ support'.count = support.count + (IF px >= High THEN 1 ELSE 0)
  BY <1>2, SupportFollows
<1> QED BY <1>1, <1>2, SupportMoves

LEMMA BreakoutKeeps ==
  ASSUME Inv, NEW px, NEW at, Evaluated(px, at)
  PROVE  BreakoutInv'
<1> SUFFICES ASSUME breakout'.state = "TESTING"
             PROVE  \E k \in DOMAIN run' :
                      /\ run'[k].at = breakout'.since
                      /\ \A i \in k..Len(run') : run'[i].px > Resistance
                      /\ Len(run') - k + 1 = breakout'.count
  BY DEF BreakoutInv
<1>1. CASE px > Resistance /\ breakout'.since = at /\ breakout'.count = 1
  <2>1. \A i \in Len(run')..Len(run') : run'[i].px > Resistance
    BY <1>1, RunGrows
  <2> QED BY <1>1, <2>1, RunGrows
<1>2. CASE /\ px > Resistance /\ breakout.state = "TESTING" /\ breakout'.since = breakout.since
           /\ breakout'.count = breakout.count + 1
  BY <1>2, BreakoutFollows
<1> QED BY <1>1, <1>2, BreakoutMoves

LEMMA EventsFollow ==
  ASSUME Inv, NEW px, NEW at, Evaluated(px, at)
  PROVE  EventsAreConfirmed'
<1>1. RunInv' /\ healthy' /\ run'[Len(run')].at = at
  BY RunStaysSound, RunGrows DEF Evaluated, Conclusive
<1>2. \A k \in DOMAIN run' : Sound(k)'
  <2>1. RunInv' => \A k \in Nat \ { 0 } : Sound(k)'
    BY DEF RunInv, Sound
  <2> QED BY <1>1, <2>1, RunGrows
<1>3. ASSUME Announced("SUPPORT_HELD")'
      PROVE  \E k \in DOMAIN run' :
               /\ run'[k].px \in Low..High
               /\ \A i \in k..Len(run') : run'[i].px >= Low
               /\ Cardinality(Over(run', k)) >= MinTicks
               /\ run'[Len(run')].at - run'[k].at >= MinSeconds
  <2>1. /\ support.state = "TESTING" /\ px >= High
        /\ Confirmed(support.count + 1, support.since, at)
    BY <1>3, WhatIsAnnounced, SupportMoves
  <2>2. px >= Low
    BY <2>1, PlanAssumption, FeedAssumption DEF Evaluated
  <2> QED BY <1>1, <2>1, <2>2, SupportFollows DEF Confirmed
<1>4. ASSUME Announced("BREAKOUT_OBSERVED")'
      PROVE  \E k \in DOMAIN run' :
               /\ \A i \in k..Len(run') : run'[i].px > Resistance
               /\ Len(run') - k + 1 >= MinTicks
               /\ run'[Len(run')].at - run'[k].at >= MinSeconds
  <2>1. /\ breakout.state = "TESTING" /\ px > Resistance
        /\ Confirmed(breakout.count + 1, breakout.since, at)
    BY <1>4, WhatIsAnnounced, BreakoutMoves
  <2> QED BY <1>1, <2>1, BreakoutFollows DEF Confirmed
<1> QED BY <1>1, <1>2, <1>3, <1>4 DEF EventsAreConfirmed, Over

----------------------------------------------------------------------------
(* The other steps.                                                        *)

LEMMA TickCases ==
  ASSUME Inv, ReceiveTick
  PROVE  /\ clock' \in Nat /\ items' \in 0..MaxItems /\ ticked' = TRUE
         /\ UNCHANGED << session, healthy, book >>
         /\ \/ UNCHANGED << last, support, breakout, run >> /\ out' = {}
            \/ Inconclusive /\ last' \in Nat
            \/ \E px \in Prices, at \in Nat : Evaluated(px, at)
<1>1. PICK pause \in Pauses, delay \in Delays, px \in Prices :
        TickReceived(px, clock + pause - delay, clock + pause)
  BY DEF ReceiveTick
<1>2. PICK at : at = clock + pause - delay
  OBVIOUS
<1>3. TickReceived(px, at, clock + pause)
  BY <1>1, <1>2
<1>4. /\ clock' = clock + pause /\ at >= 0 /\ UNCHANGED << session, healthy, book >>
      /\ ticked' = TRUE /\ More
  BY <1>3 DEF TickReceived
<1>5. \/ UNCHANGED << last, support, breakout, run >> /\ out' = {}
      \/ last' = at /\ Inconclusive
      \/ last' = at /\ Conclusive(at, clock + pause) /\ Evaluate(px, at)
  BY <1>3 DEF TickReceived
<1>6. Conclusive(at, clock + pause) => Conclusive(at, clock')
  BY <1>4
<1>7. clock' \in Nat /\ at \in Nat /\ items' \in 0..MaxItems
  BY <1>2, <1>4, FeedAssumption DEF More, Inv, TypeOK
<1> QED BY <1>4, <1>5, <1>6, <1>7 DEF Evaluated

LEMMA MachineTypes ==
  ASSUME Inv, NEW px, NEW at, Evaluated(px, at)
  PROVE  /\ support' \in Machines({ "NOT_TESTED", "TESTING", "HELD", "BROKEN" })
         /\ breakout' \in Machines({ "NOT_OBSERVED", "TESTING", "OBSERVED", "RETESTED" })
<1>1. at \in Nat /\ support.count + 1 \in Nat /\ breakout.count + 1 \in Nat
  BY DEF Evaluated, Inv, TypeOK, Machines
<1>2. support' \in { [ state |-> "TESTING", since |-> at, count |-> 0 ],
                     [ support EXCEPT !.state = "BROKEN" ],
                     [ support EXCEPT !.state = "HELD", !.count = support.count + 1 ],
                     [ support EXCEPT !.count = support.count + 1 ],
                     [ support EXCEPT !.state = support.state ] }
  BY DEF Evaluated, Evaluate, SupportStep
<1>3. breakout' \in { [ state |-> "TESTING", since |-> at, count |-> 1 ], Idle("NOT_OBSERVED"),
                      [ breakout EXCEPT !.state = "OBSERVED", !.count = breakout.count + 1 ],
                      [ breakout EXCEPT !.count = breakout.count + 1 ],
                      [ breakout EXCEPT !.state = "RETESTED" ], breakout }
  BY DEF Evaluated, Evaluate, BreakoutStep
<1>4. support' \in Machines({ "NOT_TESTED", "TESTING", "HELD", "BROKEN" })
  <2>1. support \in Machines({ "NOT_TESTED", "TESTING", "HELD", "BROKEN" })
    BY DEF Inv, TypeOK
  <2>2. /\ [ support EXCEPT !.state = "BROKEN" ] \in Machines({ "NOT_TESTED", "TESTING", "HELD", "BROKEN" })
        /\ [ support EXCEPT !.count = support.count + 1 ]
             \in Machines({ "NOT_TESTED", "TESTING", "HELD", "BROKEN" })
        /\ [ support EXCEPT !.state = support.state ] = support
    BY <1>1, <2>1 DEF Machines
  <2>3. [ support EXCEPT !.state = "HELD", !.count = support.count + 1 ]
             \in Machines({ "NOT_TESTED", "TESTING", "HELD", "BROKEN" })
    BY <1>1, <2>1 DEF Machines
  <2>4. [ state |-> "TESTING", since |-> at, count |-> 0 ]
             \in Machines({ "NOT_TESTED", "TESTING", "HELD", "BROKEN" })
    BY <1>1 DEF Machines
  <2> QED BY <1>2, <2>1, <2>2, <2>3, <2>4
<1>5. breakout' \in Machines({ "NOT_OBSERVED", "TESTING", "OBSERVED", "RETESTED" })
  <2>1. breakout \in Machines({ "NOT_OBSERVED", "TESTING", "OBSERVED", "RETESTED" })
    BY DEF Inv, TypeOK
  <2>2. /\ [ breakout EXCEPT !.state = "RETESTED" ]
             \in Machines({ "NOT_OBSERVED", "TESTING", "OBSERVED", "RETESTED" })
        /\ [ breakout EXCEPT !.count = breakout.count + 1 ]
             \in Machines({ "NOT_OBSERVED", "TESTING", "OBSERVED", "RETESTED" })
    BY <1>1, <2>1 DEF Machines
  <2>3. [ breakout EXCEPT !.state = "OBSERVED", !.count = breakout.count + 1 ]
             \in Machines({ "NOT_OBSERVED", "TESTING", "OBSERVED", "RETESTED" })
    BY <1>1, <2>1 DEF Machines
  <2>4. /\ [ state |-> "TESTING", since |-> at, count |-> 1 ]
             \in Machines({ "NOT_OBSERVED", "TESTING", "OBSERVED", "RETESTED" })
        /\ Idle("NOT_OBSERVED") \in Machines({ "NOT_OBSERVED", "TESTING", "OBSERVED", "RETESTED" })
    BY <1>1 DEF Machines, Idle
  <2> QED BY <1>3, <2>1, <2>2, <2>3, <2>4
<1> QED BY <1>4, <1>5

LEMMA InconclusiveKeeps ==
  ASSUME Inv, Inconclusive
  PROVE  /\ support' \in Machines({ "NOT_TESTED", "TESTING", "HELD", "BROKEN" })
         /\ breakout' \in Machines({ "NOT_OBSERVED", "TESTING", "OBSERVED", "RETESTED" })
         /\ run' \in Seq(Ticks)
         /\ RunInv' /\ SupportInv' /\ BreakoutInv' /\ EventsAreConfirmed'
<1>1. run' = << >> /\ support'.state # "TESTING" /\ breakout'.state # "TESTING"
  BY DEF Inconclusive, Restarted, Idle, Inv, TypeOK, Machines
<1>2. /\ support' \in Machines({ "NOT_TESTED", "TESTING", "HELD", "BROKEN" })
      /\ breakout' \in Machines({ "NOT_OBSERVED", "TESTING", "OBSERVED", "RETESTED" })
  BY DEF Inconclusive, Restarted, Idle, Inv, TypeOK, Machines
<1>3. RunInv'
  BY <1>1 DEF RunInv, Sound
<1>4. EventsAreConfirmed'
  BY DEF Inconclusive, EventsAreConfirmed, Announced
<1> QED BY <1>1, <1>2, <1>3, <1>4 DEF SupportInv, BreakoutInv

\* No tick was evaluated.
LEMMA NothingNew ==
  ASSUME Inv, UNCHANGED << support, breakout, run, healthy >>, UNCHANGED last,
         (~Announced("SUPPORT_HELD")' /\ ~Announced("BREAKOUT_OBSERVED")') \/ UNCHANGED out
  PROVE  RunInv' /\ SupportInv' /\ BreakoutInv' /\ EventsAreConfirmed'
<1>1. RunInv' /\ SupportInv' /\ BreakoutInv'
  BY DEF Inv, RunInv, Sound, SupportInv, BreakoutInv, Over
<1>2. EventsAreConfirmed'
  BY DEF Inv, EventsAreConfirmed, Sound, Announced
<1> QED BY <1>1, <1>2

LEMMA Step == ASSUME Inv, [Next]_vars PROVE Inv'
<1>1. CASE Renew \/ UNCHANGED vars
  <2>1. UNCHANGED << support, breakout, run, healthy, last, out >>
    BY <1>1 DEF Renew, vars
  <2>2. TypeOK'
    BY <1>1 DEF Renew, vars, Inv, TypeOK
  <2> QED BY <2>1, <2>2, NothingNew DEF Inv
<1>2. CASE ReceiveBook
  <2>1. PICK pause \in Pauses, age \in BookAges, payload \in Payloads :
          /\ More /\ clock' = clock + pause /\ ticked' = FALSE /\ age <= clock'
          /\ book' \in { book, [ at |-> clock' - age, session |-> session ] }
          /\ out' = {} \/ out' = BookEvents(payload, age)
          /\ UNCHANGED << session, healthy, last, support, breakout, run >>
    BY <1>2 DEF ReceiveBook
  <2>2. clock' \in Nat /\ clock' - age \in Nat
    BY <2>1, FeedAssumption DEF Inv, TypeOK
  <2>3. book' \in Books
    BY <2>1, <2>2 DEF Books, Inv, TypeOK
  <2>4. items' \in 0..MaxItems
    BY <2>1, FeedAssumption DEF More, Inv, TypeOK
  <2>5. TypeOK'
    BY <2>1, <2>2, <2>3, <2>4 DEF Inv, TypeOK
  <2>6. ~Announced("SUPPORT_HELD")' /\ ~Announced("BREAKOUT_OBSERVED")'
    BY <2>1 DEF BookEvents, Announced
  <2> QED BY <2>1, <2>5, <2>6, NothingNew DEF Inv
<1>3. CASE ReceiveTick
  <2>1. CASE UNCHANGED << last, support, breakout, run >> /\ out' = {}
    <3>1. TypeOK'
      BY <1>3, <2>1, TickCases DEF Inv, TypeOK
    <3>2. ~Announced("SUPPORT_HELD")' /\ ~Announced("BREAKOUT_OBSERVED")'
      BY <2>1 DEF Announced
    <3> QED BY <1>3, <2>1, <3>1, <3>2, TickCases, NothingNew DEF Inv
  <2>2. CASE Inconclusive /\ last' \in Nat
    <3>1. TypeOK'
      BY <1>3, <2>2, TickCases, InconclusiveKeeps DEF Inv, TypeOK
    <3> QED BY <2>2, <3>1, InconclusiveKeeps DEF Inv
  <2>3. ASSUME NEW px \in Prices, NEW at \in Nat, Evaluated(px, at) PROVE Inv'
    <3>1. TypeOK'
      BY <1>3, <2>3, TickCases, MachineTypes, RunGrows DEF Evaluated, Inv, TypeOK
    <3> QED BY <2>3, <3>1, RunStaysSound, SupportKeeps, BreakoutKeeps, EventsFollow DEF Inv
  <2> QED BY <1>3, <2>1, <2>2, <2>3, TickCases
<1> QED BY <1>1, <1>2, <1>3 DEF Next

LEMMA Inits == Init => Inv
<1> SUFFICES ASSUME Init PROVE Inv
  OBVIOUS
<1>1. book \in Books /\ run \in Seq(Ticks)
  BY DEF Init, NoBook, Never, Books
<1>2. /\ support \in Machines({ "NOT_TESTED", "TESTING", "HELD", "BROKEN" })
      /\ breakout \in Machines({ "NOT_OBSERVED", "TESTING", "OBSERVED", "RETESTED" })
  BY DEF Init, Idle, Machines
<1>3. ticked \in BOOLEAN /\ healthy \in BOOLEAN
  BY Zenon DEF Init
<1>4. clock \in Nat /\ session \in 1..2 /\ last \in Nat \cup { Never } /\ items \in 0..MaxItems
  BY FeedAssumption DEF Init
<1>5. TypeOK
  BY <1>1, <1>2, <1>3, <1>4 DEF TypeOK
<1>6. RunInv /\ SupportInv /\ BreakoutInv /\ EventsAreConfirmed
  BY DEF Init, Idle, RunInv, Sound, SupportInv, BreakoutInv, EventsAreConfirmed, Announced
<1> QED BY <1>5, <1>6 DEF Inv

LEMMA Invariance == Spec => []Inv
BY Inits, Step, PTL DEF Spec

\* The variables keep their types.
THEOREM TypesHold == Spec => []TypeOK
<1>1. Inv => TypeOK
  BY DEF Inv
<1> QED BY <1>1, Invariance, PTL

\* replay_observations: no level is announced as held or broken out of without the
\* ticks, the books and the time that confirm it.
THEOREM AnnouncedIsConfirmed == Spec => []EventsAreConfirmed
<1>1. Inv => EventsAreConfirmed
  BY DEF Inv
<1> QED BY <1>1, Invariance, PTL

----------------------------------------------------------------------------
(* Numbers. *)

\* A set of numbers that is not empty has a least member: induction over finite
\* sets, as the theorem of the library on strict subsets states it.
LEMMA Least == \A T \in SUBSET Nat : T # {} => \E n \in T : \A m \in T : n <= m
<1> SUFFICES ASSUME NEW T \in SUBSET Nat, T # {}
             PROVE  \E n \in T : \A m \in T : n <= m
  OBVIOUS
<1> DEFINE F == { 1 .. n : n \in T }
           R == StrictSubsetOrdering(Nat)
<1>1. IsWellFoundedOn(R, FiniteSubsetsOf(Nat))
  BY FS_StrictSubsetOrderingWellFounded
<1>2. F \subseteq FiniteSubsetsOf(Nat) /\ F # {}
  <2>1. \A n \in T : IsFiniteSet(1 .. n)
    BY FS_Interval
  <2>2. \A n \in T : 1 .. n \in FiniteSubsetsOf(Nat)
    BY <2>1 DEF FiniteSubsetsOf
  <2> QED BY <2>2
<1>3. \E x \in F : \A y \in F : ~ (<<y, x>> \in R)
  <2> HIDE DEF F, R
  <2> QED BY <1>1, <1>2, WFMin
<1>4. PICK n \in T : \A y \in F : ~ (<<y, 1 .. n>> \in R)
  BY <1>3
<1>5. ASSUME NEW m \in T PROVE n <= m
  <2>1. ~ (<<1 .. m, 1 .. n>> \in R)
    BY <1>4
  <2>2. CASE m < n
    <3>1. 1 .. m \subseteq 1 .. n /\ 1 .. m # 1 .. n
      <4>1. n \in 1 .. n /\ n \notin 1 .. m
        BY <2>2
      <4> QED BY <2>2, <4>1
    <3> QED BY <3>1, <2>1 DEF StrictSubsetOrdering
  <2> QED BY <2>2
<1> QED BY <1>5

\* What holds of 0 and, with any number up to n, of the one after it, holds of
\* all numbers up to n.
LEMMA Upwards ==
  ASSUME NEW n \in Nat, NEW T, 0 \in T, \A i \in 1 .. n : i - 1 \in T => i \in T
  PROVE  0 .. n \subseteq T
<1> DEFINE B == (0 .. n) \ T
<1>1. ASSUME B # {} PROVE FALSE
  <2>1. PICK i \in B : \A j \in B : i <= j
    <3>1. B \in SUBSET Nat
      OBVIOUS
    <3> HIDE DEF B
    <3> QED BY <1>1, <3>1, Least
  <2>2. i \in 1 .. n /\ i \notin T
    BY <2>1
  <2>3. i - 1 \in 0 .. n /\ ~ (i - 1 \in B)
    BY <2>1, <2>2
  <2> QED BY <2>2, <2>3
<1> QED BY <1>1

----------------------------------------------------------------------------
(* The checks of a payload. *)

Quotes == [ price : Int, volume : Int ]

\* When no check gives a reason, none of them hits.
LEMMA NoneHits ==
  ASSUME NEW n \in Nat, NEW checks, DOMAIN checks = 1 .. n, FirstReason(checks) = Fine,
         \A i \in 1 .. n : checks[i][1] => checks[i][2] # Fine
  PROVE  \A i \in 1 .. n : ~ checks[i][1]
<1> DEFINE hits == { i \in DOMAIN checks : checks[i][1] }
<1>1. ASSUME hits # {} PROVE FALSE
  <2>1. hits \in SUBSET Nat
    OBVIOUS
  <2>2. \E x \in hits : \A y \in hits : x <= y
    <3> HIDE DEF hits
    <3> QED BY <1>1, <2>1, Least
  <2>3. Min(hits) \in hits
    <3> HIDE DEF hits
    <3> QED BY <2>2 DEF Min
  <2>4. FirstReason(checks) = checks[Min(hits)][2]
    BY <1>1 DEF FirstReason
  <2> QED BY <2>3, <2>4
<1> QED BY <1>1

\* On a side whose levels give no reason none is behind a hole, and those that are
\* there are readable.
LEMMA LevelsFine ==
  ASSUME NEW levels \in Seq(Quotes), LevelReason(levels) = Fine
  PROVE  \A j \in 1 .. Len(levels) : ~ Detached(levels, j) /\ ~ Unreadable(levels[j])
<1>1. PICK n : n = Len(levels)
  OBVIOUS
<1>2. n \in Nat
  BY <1>1, LenProperties
<1> DEFINE checks == [ k \in 1 .. (2 * n) |->
             LET j == (k + 1) \div 2
             IN  IF k % 2 = 1 THEN << Detached(levels, j), "noncontiguous_levels" >>
                              ELSE << Unreadable(levels[j]), "needs_review" >> ]
<1>3. FirstReason(checks) = Fine
  BY <1>1 DEF LevelReason
<1>4. 2 * n \in Nat /\ DOMAIN checks = 1 .. (2 * n)
  BY <1>2
<1>5. \A k \in 1 .. (2 * n) : checks[k][2] # Fine
  BY DEF Fine
<1>6. ASSUME NEW j \in 1 .. n
      PROVE  /\ 2 * j - 1 \in 1 .. (2 * n) /\ checks[2 * j - 1][1] = Detached(levels, j)
             /\ 2 * j \in 1 .. (2 * n) /\ checks[2 * j][1] = Unreadable(levels[j])
  <2>1. /\ 2 * j - 1 \in 1 .. (2 * n) /\ 2 * j \in 1 .. (2 * n)
        /\ ((2 * j - 1) + 1) \div 2 = j /\ (2 * j - 1) % 2 = 1
        /\ (2 * j + 1) \div 2 = j /\ (2 * j) % 2 # 1
    BY <1>2
  <2> QED BY <2>1
<1> HIDE DEF checks
<1>7. \A k \in 1 .. (2 * n) : ~ checks[k][1]
  BY <1>3, <1>4, <1>5, NoneHits
<1> QED BY <1>1, <1>6, <1>7

\* The first m levels are quotes, the others are missing.
Prefix(levels, n, m) ==
  /\ n = Len(levels) /\ n \in Nat /\ m \in 0 .. n /\ DOMAIN levels = 1 .. n
  /\ \A i \in 1 .. n : levels[i] \in Quotes /\ (Missing(levels[i]) <=> i > m)

\* Without a quote behind a hole, the quotes are a prefix of the levels.
LEMMA QuotesFirst ==
  ASSUME NEW levels \in Seq(Quotes), \A j \in 1 .. Len(levels) : ~ Detached(levels, j)
  PROVE  \E n, m : Prefix(levels, n, m)
<1>1. PICK n : n = Len(levels)
  OBVIOUS
<1>2. n \in Nat /\ DOMAIN levels = 1 .. n /\ \A i \in 1 .. n : levels[i] \in Quotes
  BY <1>1, LenProperties, ElementOfSeq
<1>3. \A i, j \in 1 .. n : i < j /\ Missing(levels[i]) => Missing(levels[j])
  <2>1. ASSUME NEW i \in 1 .. n, NEW j \in 1 .. n, i < j, Missing(levels[i])
        PROVE  Missing(levels[j])
    <3>1. ~ Detached(levels, j) /\ i \in 1 .. (j - 1)
      BY <1>1, <1>2, <2>1
    <3> QED BY <2>1, <3>1 DEF Detached
  <2> QED BY <2>1
<1> DEFINE H == { i \in 1 .. n : Missing(levels[i]) }
<1>4. CASE H = {}
  <2>1. n \in 0 .. n /\ \A i \in 1 .. n : levels[i] \in Quotes /\ (Missing(levels[i]) <=> i > n)
    BY <1>2, <1>4
  <2>2. Prefix(levels, n, n)
    BY <1>1, <1>2, <2>1 DEF Prefix
  <2> QED BY <2>2
<1>5. CASE H # {}
  <2>1. PICK k \in H : \A i \in H : k <= i
    <3>1. H \in SUBSET Nat
      OBVIOUS
    <3> HIDE DEF H
    <3> QED BY <1>5, <3>1, Least
  <2>2. k \in 1 .. n /\ Missing(levels[k]) /\ \A i \in 1 .. n : Missing(levels[i]) => k <= i
    BY <2>1
  <2>3. \A i \in 1 .. n : Missing(levels[i]) <=> i > k - 1
    BY <1>3, <2>2
  <2>4. k - 1 \in 0 .. n
    BY <1>2, <2>2
  <2>5. Prefix(levels, n, k - 1)
    BY <1>1, <1>2, <2>3, <2>4 DEF Prefix
  <2> QED BY <2>5
<1> QED BY <1>4, <1>5

\* The quotes of such a side are its first levels.
LEMMA QuotedIs ==
  ASSUME NEW levels \in Seq(Quotes), NEW n, NEW m, Prefix(levels, n, m)
  PROVE  Quoted(levels) = [ i \in 1 .. m |-> levels[i] ]
<1>1. /\ n = Len(levels) /\ n \in Nat /\ m \in 0 .. n /\ DOMAIN levels = 1 .. n
      /\ \A i \in 1 .. n : levels[i] \in Quotes /\ (Missing(levels[i]) <=> i > m)
  BY DEF Prefix
<1> DEFINE S == { l \in Range(levels) : ~Missing(l) }
           first(i) == [ k \in 1 .. (IF i <= m THEN i ELSE m) |-> levels[k] ]
           kept[i \in 0 .. Len(levels)] ==
             IF i = 0 THEN << >>
             ELSE IF levels[i] \in S THEN Append(kept[i - 1], levels[i]) ELSE kept[i - 1]
           g == [ i \in 0 .. n |-> first(i) ]
<1>2. \A i \in 1 .. n : levels[i] \in S <=> i <= m
  BY <1>1 DEF Range
<1>3. \A i \in 0 .. n : g[i] = first(i)
  OBVIOUS
<1>4. g[0] = << >>
  <2>1. 0 \in 0 .. n /\ 0 <= m /\ 1 .. 0 = {}
    BY <1>1
  <2>2. first(0) = [ k \in 1 .. 0 |-> levels[k] ]
    BY <2>1
  <2>3. first(0) = << >>
    BY <2>1, <2>2
  <2> QED BY <1>3, <2>1, <2>3
<1>5. ASSUME NEW i \in 1 .. n
      PROVE  g[i] = IF levels[i] \in S THEN Append(g[i - 1], levels[i]) ELSE g[i - 1]
  <2>1. i - 1 \in 0 .. n /\ i \in 0 .. n /\ i \in Nat /\ i - 1 \in Nat
    BY <1>1
  <2>2. g[i] = first(i) /\ g[i - 1] = first(i - 1)
    BY <1>3, <2>1
  <2>3. CASE i <= m
    <3>1. PICK a, x : a = [ k \in 1 .. (i - 1) |-> levels[k] ] /\ x = levels[i]
      OBVIOUS
    <3>2. x \in Quotes /\ \A k \in 1 .. (i - 1) : levels[k] \in Quotes
      BY <1>1, <2>1, <2>3, <3>1
    <3>3. a \in Seq(Quotes) /\ Len(a) = i - 1
      <4>1. a \in [1 .. (i - 1) -> Quotes]
        BY <3>1, <3>2
      <4>2. a \in UNION { [1 .. k -> Quotes] : k \in Nat }
        BY <2>1, <4>1
      <4>3. a \in Seq(Quotes) /\ DOMAIN a = 1 .. (i - 1)
        BY <3>1, <4>2, SeqDef
      <4> QED BY <2>1, <4>3, LenProperties
    <3>4. PICK b : b = Append(a, x)
      OBVIOUS
    <3>5. /\ b \in Seq(Quotes) /\ Len(b) = i /\ b[i] = x
          /\ \A k \in 1 .. (i - 1) : b[k] = a[k]
      BY <2>1, <3>2, <3>3, <3>4, AppendProperties
    <3>6. DOMAIN b = 1 .. i
      BY <3>5, LenProperties
    <3>7. \A k \in 1 .. i : b[k] = levels[k]
      BY <3>1, <3>5
    <3>8. b = [ k \in DOMAIN b |-> b[k] ]
      BY <3>5, <3>6, SeqDef
    <3>9. b = [ k \in 1 .. i |-> levels[k] ]
      BY <3>6, <3>7, <3>8
    <3>10. first(i) = [ k \in 1 .. i |-> levels[k] ] /\ first(i - 1) = a
      BY <1>1, <2>1, <2>3, <3>1
    <3> QED BY <1>2, <2>2, <2>3, <3>1, <3>4, <3>9, <3>10
  <2>4. CASE ~ (i <= m)
    <3>1. first(i) = first(i - 1)
      BY <1>1, <2>1, <2>4
    <3> QED BY <1>2, <2>2, <2>4, <3>1
  <2> QED BY <2>3, <2>4
<1>6. g = [ i \in 0 .. n |-> IF i = 0 THEN << >>
              ELSE IF levels[i] \in S THEN Append(g[i - 1], levels[i]) ELSE g[i - 1] ]
  <2>1. \A i \in 0 .. n : g[i] = IF i = 0 THEN << >>
              ELSE IF levels[i] \in S THEN Append(g[i - 1], levels[i]) ELSE g[i - 1]
    <3>1. \A i \in 0 .. n : i = 0 \/ i \in 1 .. n
      BY <1>1
    <3>2. ASSUME NEW i \in 1 .. n PROVE i # 0
      OBVIOUS
    <3> HIDE DEF g, S
    <3> QED BY <1>4, <1>5, <3>1, <3>2
  <2>2. g = [ i \in 0 .. n |-> g[i] ]
    OBVIOUS
  <2> HIDE DEF g, S
  <2> QED BY <2>1, <2>2
<1>7. kept = [ i \in 0 .. n |-> IF i = 0 THEN << >>
              ELSE IF levels[i] \in S THEN Append(kept[i - 1], levels[i]) ELSE kept[i - 1] ]
  <2> HIDE DEF g, S
  <2> QED BY <1>1, <1>6
<1>8. Quoted(levels) = kept[n]
  BY <1>1 DEF Quoted, Only
<1> HIDE DEF kept, g, S
<1>9. kept[0] = << >> /\ \A i \in 1 .. n :
         kept[i] = IF levels[i] \in S THEN Append(kept[i - 1], levels[i]) ELSE kept[i - 1]
  <2>1. PICK e : e = << >>
    OBVIOUS
  <2>2. kept = [ i \in 0 .. n |-> IF i = 0 THEN e
               ELSE IF levels[i] \in S THEN Append(kept[i - 1], levels[i]) ELSE kept[i - 1] ]
    BY <1>7, <2>1
  <2>3. 0 \in 0 .. n /\ \A i \in 1 .. n : i \in 0 .. n /\ i # 0
    BY <1>1
  <2>4. kept[0] = e
    BY <2>2, <2>3
  <2>5. \A i \in 1 .. n :
          kept[i] = IF levels[i] \in S THEN Append(kept[i - 1], levels[i]) ELSE kept[i - 1]
    BY <2>2, <2>3
  <2> QED BY <2>1, <2>4, <2>5
<1> DEFINE T == { i \in 0 .. n : kept[i] = g[i] }
<1>10. 0 \in T /\ \A i \in 1 .. n : i - 1 \in T => i \in T
  BY <1>1, <1>4, <1>5, <1>9
<1>11. 0 .. n \subseteq T
  <2> HIDE DEF T
  <2> QED BY <1>1, <1>10, Upwards
<1>12. kept[n] = g[n] /\ g[n] = first(n)
  <2>1. n \in 0 .. n
    BY <1>1
  <2> QED BY <1>3, <1>11, <2>1
<1>13. first(n) = [ i \in 1 .. m |-> levels[i] ]
  BY <1>1
<1> QED BY <1>8, <1>12, <1>13

\* Neighbours in order are all in order.
LEMMA SortedAll ==
  ASSUME NEW m \in Nat, NEW price \in [1 .. m -> Int],
         \A i \in 1 .. (m - 1) : price[i] < price[i + 1]
  PROVE  \A i, j \in 1 .. m : i < j => price[i] < price[j]
<1>1. ASSUME NEW i \in 1 .. m PROVE \A j \in 1 .. m : i < j => price[i] < price[j]
  <2> DEFINE T == { j \in 0 .. m : i < j => price[i] < price[j] }
  <2>1. 0 \in T
    OBVIOUS
  <2>2. ASSUME NEW j \in 1 .. m, j - 1 \in T PROVE j \in T
    <3>1. CASE i < j - 1
      <4>1. j - 1 \in 1 .. (m - 1) /\ j - 1 \in 1 .. m /\ (j - 1) + 1 = j
        BY <3>1
      <4>2. price[i] < price[j - 1] /\ price[j - 1] < price[j]
        BY <2>2, <3>1, <4>1
      <4>3. price[i] \in Int /\ price[j - 1] \in Int /\ price[j] \in Int
        BY <4>1
      <4> QED BY <4>2, <4>3
    <3>2. CASE i = j - 1
      <4>1. i \in 1 .. (m - 1) /\ i + 1 = j
        BY <3>2
      <4> QED BY <4>1
    <3>3. CASE i > j - 1
      BY <3>3
    <3> QED BY <3>1, <3>2, <3>3
  <2>3. 0 .. m \subseteq T
    <3> HIDE DEF T
    <3> QED BY <2>1, <2>2, Upwards
  <2> QED BY <2>3
<1> QED BY <1>1

\* A share of a whole, in basis points.
LEMMA ShareOf ==
  ASSUME NEW b \in Nat, NEW t \in Nat, b <= t, t > 0
  PROVE  (b * 10000) \div t \in 0 .. 10000
<1>1. PICK x, q : x = b * 10000 /\ q = x \div t
  OBVIOUS
<1>2. x \in Nat /\ q \in Int /\ x >= 0 /\ x <= 10000 * t
  BY <1>1
<1>3. t * q <= x /\ x < t * (q + 1)
  BY <1>1, <1>2
<1>4. q >= 0
  BY <1>2, <1>3
<1>5. q <= 10000
  BY <1>2, <1>3
<1> QED BY <1>1, <1>2, <1>4, <1>5

Sums(g, s, k) ==
  g \in [0 .. k -> Nat] /\ g[0] = 0 /\ \A i \in 1 .. k : g[i] = g[i - 1] + s[i]

\* The sum of numbers that are not negative is none that is.
LEMMA TallyNat == ASSUME NEW s \in Seq(Nat) PROVE Tally(s) \in Nat
<1> DEFINE n == Len(s)
           sum[i \in 0 .. Len(s)] == IF i = 0 THEN 0 ELSE sum[i - 1] + s[i]
           T == { k \in 0 .. n : \E g : Sums(g, s, k) }
<1>1. n \in Nat /\ \A i \in 1 .. n : s[i] \in Nat
  BY LenProperties, ElementOfSeq
<1>2. 0 \in T
  <2>1. Sums([ i \in 0 .. 0 |-> 0 ], s, 0)
    BY DEF Sums
  <2> HIDE DEF n
  <2> QED BY <1>1, <2>1
<1>3. ASSUME NEW k \in 1 .. n, k - 1 \in T PROVE k \in T
  <2>1. PICK g : Sums(g, s, k - 1)
    BY <1>3
  <2>2. /\ g \in [0 .. k - 1 -> Nat] /\ g[0] = 0
        /\ \A i \in 1 .. k - 1 : g[i] = g[i - 1] + s[i]
    BY <2>1 DEF Sums
  <2>3. k \in Nat /\ k >= 1 /\ k - 1 \in 0 .. k - 1 /\ g[k - 1] \in Nat /\ s[k] \in Nat
    BY <1>1, <2>2
  <2> DEFINE h == [ i \in 0 .. k |-> IF i = k THEN g[k - 1] + s[k] ELSE g[i] ]
  <2>4. h \in [0 .. k -> Nat]
    BY <2>2, <2>3
  <2>5. (\A i \in 0 .. k - 1 : h[i] = g[i]) /\ h[k] = g[k - 1] + s[k]
    BY <2>3
  <2> HIDE DEF h
  <2>6. ASSUME NEW i \in 1 .. k PROVE h[i] = h[i - 1] + s[i]
    <3>1. CASE i = k
      BY <2>3, <2>5, <3>1
    <3>2. CASE i # k
      <4>1. i \in 1 .. k - 1 /\ i \in 0 .. k - 1 /\ i - 1 \in 0 .. k - 1
        BY <2>3, <3>2
      <4> QED BY <2>2, <2>5, <4>1
    <3> QED BY <3>1, <3>2
  <2>7. h[0] = 0
    BY <2>2, <2>3, <2>5
  <2>8. Sums(h, s, k)
    BY <2>4, <2>6, <2>7 DEF Sums
  <2> HIDE DEF n
  <2> QED BY <1>1, <2>8
<1>4. n \in T
  <2>1. 0 .. n \subseteq T
    <3> HIDE DEF T, n
    <3> QED BY <1>1, <1>2, <1>3, Upwards
  <2> QED BY <1>1, <2>1
<1>5. PICK g : g \in [0 .. n -> Nat] /\ g[0] = 0 /\ \A i \in 1 .. n : g[i] = g[i - 1] + s[i]
  BY <1>4 DEF Sums
<1>6. g = [ i \in 0 .. n |-> IF i = 0 THEN 0 ELSE g[i - 1] + s[i] ]
  BY <1>1, <1>5
<1>7. sum = [ i \in 0 .. n |-> IF i = 0 THEN 0 ELSE sum[i - 1] + s[i] ]
  BY <1>6
<1>8. Tally(s) = sum[n]
  BY DEF Tally
<1> HIDE DEF sum, n, T
<1>9. sum[0] = 0 /\ \A i \in 1 .. n : sum[i] = sum[i - 1] + s[i]
  BY <1>1, <1>7
<1> DEFINE N == { i \in 0 .. n : sum[i] \in Nat }
<1>10. 0 \in N
  BY <1>1, <1>9
<1>11. ASSUME NEW i \in 1 .. n, i - 1 \in N PROVE i \in N
  <2>1. PICK x, y : x = sum[i - 1] /\ y = s[i]
    OBVIOUS
  <2>2. x \in Nat /\ y \in Nat /\ i \in 0 .. n /\ sum[i] = x + y
    BY <1>1, <1>9, <1>11, <2>1
  <2>3. x + y \in Nat
    BY <2>2
  <2> QED BY <2>2, <2>3
<1>12. 0 .. n \subseteq N
  <2> HIDE DEF N
  <2> QED BY <1>1, <1>10, <1>11, Upwards
<1>13. n \in 0 .. n
  BY <1>1
<1> QED BY <1>8, <1>12, <1>13

\* A side that is fine: its quotes are its first levels, each worse than the
\* one before.
SideIs(levels, descending, n, m) ==
  /\ Prefix(levels, n, m)
  /\ \A i \in 1 .. m : levels[i].price \in Nat \ {0} /\ levels[i].volume \in Nat
  /\ \A i, j \in 1 .. m : i < j =>
       IF descending THEN levels[i].price > levels[j].price
                     ELSE levels[i].price < levels[j].price

\* A side without a reason is one.
LEMMA SideFine ==
  ASSUME NEW levels \in Seq(Quotes), NEW descending \in BOOLEAN,
         SideReason(levels, descending) = Fine
  PROVE  \E n, m : SideIs(levels, descending, n, m)
<1> DEFINE q == Quoted(levels)
           checks == <<
             << ~IsInjective([ i \in DOMAIN q |-> q[i].price ]), "duplicate_level_price" >>,
             << ~SortedLevels(q, descending), "unsorted_levels" >> >>
<1>1. LevelReason(levels) = Fine /\ FirstReason(checks) = Fine
  <2>1. Fine # "side_length"
    BY DEF Fine
  <2> QED BY <2>1 DEF SideReason
<1>2. PICK n, m : Prefix(levels, n, m)
  <2>1. \A j \in 1 .. Len(levels) : ~ Detached(levels, j)
    BY <1>1, LevelsFine
  <2> QED BY <2>1, QuotesFirst
<1>3. /\ n = Len(levels) /\ n \in Nat /\ m \in 0 .. n /\ DOMAIN levels = 1 .. n
      /\ \A i \in 1 .. n : levels[i] \in Quotes /\ (Missing(levels[i]) <=> i > m)
  BY <1>2 DEF Prefix
<1>4. SortedLevels(q, descending)
  <2>1. DOMAIN checks = 1 .. 2 /\ 2 \in Nat
    OBVIOUS
  <2>2. checks[1][2] # Fine /\ checks[2][2] # Fine
    BY DEF Fine
  <2>3. \A i \in 1 .. 2 : i = 1 \/ i = 2
    OBVIOUS
  <2>4. checks[2][1] = ~SortedLevels(q, descending)
    OBVIOUS
  <2> HIDE DEF checks, q
  <2>5. \A i \in 1 .. 2 : ~ checks[i][1]
    BY <1>1, <2>1, <2>2, <2>3, NoneHits
  <2>6. 2 \in 1 .. 2
    OBVIOUS
  <2> QED BY <2>4, <2>5, <2>6
<1>5. q = [ i \in 1 .. m |-> levels[i] ]
  BY <1>2, QuotedIs
<1>6. Len(q) = m
  <2>1. m \in Nat /\ q \in [1 .. m -> Quotes]
    BY <1>3, <1>5
  <2> HIDE DEF q
  <2>2. q \in UNION { [1 .. k -> Quotes] : k \in Nat }
    BY <2>1
  <2>3. q \in Seq(Quotes) /\ DOMAIN q = 1 .. m
    BY <2>1, <2>2, SeqDef
  <2> QED BY <2>1, <2>3, LenProperties
<1>7. \A i \in 1 .. m : levels[i].price \in Nat \ {0} /\ levels[i].volume \in Nat
  <2>1. ASSUME NEW i \in 1 .. m
        PROVE  levels[i].price \in Nat \ {0} /\ levels[i].volume \in Nat
    <3>1. i \in 1 .. n /\ levels[i] \in Quotes /\ ~ Missing(levels[i])
      BY <1>3
    <3>2. ~ Unreadable(levels[i])
      BY <1>1, <1>3, <3>1, LevelsFine
    <3>3. levels[i].price \in Int /\ levels[i].volume \in Int
      BY <3>1 DEF Quotes
    <3> QED BY <3>1, <3>2, <3>3 DEF Unreadable
  <2> QED BY <2>1
<1>8. \A i \in 1 .. (m - 1) : /\ i \in 1 .. m /\ i + 1 \in 1 .. m
                              /\ q[i] = levels[i] /\ q[i + 1] = levels[i + 1]
  BY <1>3, <1>5
<1> HIDE DEF q
<1>9. \A i \in 1 .. (m - 1) : IF descending THEN levels[i].price > levels[i + 1].price
                                            ELSE levels[i].price < levels[i + 1].price
  BY <1>4, <1>6, <1>8 DEF SortedLevels
<1>10. \A i, j \in 1 .. m : i < j => IF descending THEN levels[i].price > levels[j].price
                                                   ELSE levels[i].price < levels[j].price
  <2>1. CASE descending
    <3> DEFINE p == [ i \in 1 .. m |-> 0 - levels[i].price ]
    <3>1. \A i \in 1 .. m : p[i] = 0 - levels[i].price /\ levels[i].price \in Nat
      BY <1>7
    <3>2. m \in Nat /\ p \in [1 .. m -> Int]
      BY <1>3, <3>1
    <3> HIDE DEF p
    <3>3. \A i \in 1 .. (m - 1) : p[i] < p[i + 1]
      BY <1>8, <1>9, <2>1, <3>1
    <3>4. \A i, j \in 1 .. m : i < j => p[i] < p[j]
      BY <3>2, <3>3, SortedAll
    <3> QED BY <2>1, <3>1, <3>4
  <2>2. CASE ~ descending
    <3> DEFINE p == [ i \in 1 .. m |-> levels[i].price ]
    <3>1. \A i \in 1 .. m : p[i] = levels[i].price /\ levels[i].price \in Nat
      BY <1>7
    <3>2. m \in Nat /\ p \in [1 .. m -> Int]
      BY <1>3, <3>1
    <3> HIDE DEF p
    <3>3. \A i \in 1 .. (m - 1) : p[i] < p[i + 1]
      BY <1>8, <1>9, <2>2, <3>1
    <3>4. \A i, j \in 1 .. m : i < j => p[i] < p[j]
      BY <3>2, <3>3, SortedAll
    <3> QED BY <2>2, <3>1, <3>4
  <2> QED BY <2>1, <2>2
<1>11. SideIs(levels, descending, n, m)
  BY <1>2, <1>7, <1>10 DEF SideIs
<1> QED BY <1>11

\* The visible volume of a side that is fine is a number, and it has a top
\* exactly when it has a quote.
LEMMA SideParts ==
  ASSUME NEW levels \in Seq(Quotes), NEW d, NEW n, NEW m, SideIs(levels, d, n, m), NEW lot
  PROVE  /\ Visible(levels, lot) \in Nat
         /\ Quoted(levels) # << >> <=> m # 0
         /\ m # 0 => Top(levels) = levels[1].price
<1>1. /\ n = Len(levels) /\ n \in Nat /\ m \in 0 .. n /\ DOMAIN levels = 1 .. n
      /\ \A i \in 1 .. m : levels[i].price \in Nat \ {0} /\ levels[i].volume \in Nat
  BY DEF SideIs, Prefix
<1>2. PICK q : q = Quoted(levels)
  OBVIOUS
<1>3. q = [ i \in 1 .. m |-> levels[i] ]
  BY <1>2, QuotedIs DEF SideIs
<1>4. PICK each : each = IF lot = "BOARD" THEN LotSize ELSE 1
  OBVIOUS
<1>5. each \in Nat
  BY <1>4, DepthAssumption
<1> DEFINE v == [ i \in DOMAIN q |-> q[i].volume * each ]
<1>6. v \in Seq(Nat)
  <2>1. DOMAIN q = 1 .. m /\ \A i \in 1 .. m : q[i].volume \in Nat
    BY <1>1, <1>3
  <2>2. \A i \in 1 .. m : q[i].volume * each \in Nat
    BY <1>5, <2>1
  <2>3. m \in Nat /\ v \in [1 .. m -> Nat]
    BY <1>1, <2>1, <2>2
  <2> HIDE DEF v
  <2>4. v \in UNION { [1 .. k -> Nat] : k \in Nat }
    BY <2>3
  <2> QED BY <2>4, SeqDef
<1>7. Visible(levels, lot) = Tally(v)
  BY <1>2, <1>4 DEF Visible
<1>8. Visible(levels, lot) \in Nat
  <2> HIDE DEF v
  <2> QED BY <1>6, <1>7, TallyNat
<1>9. q # << >> <=> m # 0
  <2>1. CASE m = 0
    <3>1. 1 .. m = {}
      BY <1>1, <2>1
    <3> QED BY <1>3, <2>1, <3>1
  <2>2. CASE m # 0
    <3>1. 1 \in 1 .. m /\ 1 \in DOMAIN q
      BY <1>1, <1>3, <2>2
    <3>2. DOMAIN << >> = {}
      OBVIOUS
    <3> QED BY <2>2, <3>1, <3>2
  <2> QED BY <2>1, <2>2
<1>10. m # 0 => Top(levels) = levels[1].price
  <2>1. m # 0 => 1 \in 1 .. m
    BY <1>1
  <2> QED BY <1>2, <1>3, <2>1 DEF Top
<1> QED BY <1>2, <1>8, <1>9, <1>10

\* They are the first levels of a side that is fine.
LEMMA RanksAre ==
  ASSUME NEW levels \in Seq(Quotes), NEW d, NEW n, NEW m, SideIs(levels, d, n, m)
  PROVE  Ranks(levels) = 1 .. m /\ Cardinality(Ranks(levels)) = m
<1>1. /\ n \in Nat /\ m \in 0 .. n /\ DOMAIN levels = 1 .. n
      /\ \A i \in 1 .. n : Missing(levels[i]) <=> i > m
  BY DEF SideIs, Prefix
<1>2. Ranks(levels) = 1 .. m
  BY <1>1 DEF Ranks, Missing
<1>3. m \in Nat /\ 1 \in Nat
  BY <1>1
<1>4. Cardinality(1 .. m) = m
  BY <1>3, FS_Interval
<1> QED BY <1>2, <1>4

\* A payload that no check refuses.
LEMMA BookFine ==
  ASSUME NEW payload, NEW recordLot, BookReason(payload, recordLot) = Fine
  PROVE  /\ SideReason(payload.bid, TRUE) = Fine /\ SideReason(payload.ask, FALSE) = Fine
         /\ ~ (BothSides(payload) /\ Top(payload.bid) >= Top(payload.ask))
<1> DEFINE bid == SideReason(payload.bid, TRUE)
           ask == SideReason(payload.ask, FALSE)
           checks == <<
             << payload.simtrade, "simtrade" >>,
             << payload.suspend, "suspend" >>,
             << payload.lot # recordLot, "lot_mismatch" >>,
             << bid # Fine, bid >>,
             << ask # Fine, ask >>,
             << BothSides(payload) /\ Top(payload.bid) >= Top(payload.ask), "crossed_book" >> >>
<1>1. FirstReason(checks) = Fine
  BY DEF BookReason
<1>2. DOMAIN checks = 1 .. 6 /\ 6 \in Nat
  OBVIOUS
<1>3. /\ checks[4][1] = (bid # Fine) /\ checks[4][2] = bid
      /\ checks[5][1] = (ask # Fine) /\ checks[5][2] = ask
      /\ checks[6][1] = (BothSides(payload) /\ Top(payload.bid) >= Top(payload.ask))
      /\ checks[1][2] = "simtrade" /\ checks[2][2] = "suspend" /\ checks[3][2] = "lot_mismatch"
      /\ checks[6][2] = "crossed_book"
  OBVIOUS
<1> HIDE DEF checks, bid, ask
<1>4. checks[4][1] => checks[4][2] # Fine
  BY <1>3
<1>5. checks[5][1] => checks[5][2] # Fine
  BY <1>3
<1>6. checks[1][2] # Fine /\ checks[2][2] # Fine /\ checks[3][2] # Fine /\ checks[6][2] # Fine
  BY <1>3 DEF Fine
<1>7. \A i \in 1 .. 6 : i = 1 \/ i = 2 \/ i = 3 \/ i = 4 \/ i = 5 \/ i = 6
  OBVIOUS
<1>8. \A i \in 1 .. 6 : checks[i][1] => checks[i][2] # Fine
  BY <1>4, <1>5, <1>6, <1>7
<1>9. \A i \in 1 .. 6 : ~ checks[i][1]
  BY <1>1, <1>2, <1>8, NoneHits
<1>10. 4 \in 1 .. 6 /\ 5 \in 1 .. 6 /\ 6 \in 1 .. 6
  OBVIOUS
<1>11. ~ (bid # Fine) /\ ~ (ask # Fine)
       /\ ~ (BothSides(payload) /\ Top(payload.bid) >= Top(payload.ask))
  BY <1>3, <1>9, <1>10
<1> QED BY <1>11 DEF bid, ask

\* A payload of any levels that is accepted is a book.
LEMMA AnyBook ==
  ASSUME NEW payload, payload.bid \in Seq(Quotes), payload.ask \in Seq(Quotes), NEW recordLot
  PROVE  IsBook(payload, recordLot)
<1>a. CASE ~ (BookReason(payload, recordLot) = Fine)
  BY <1>a DEF IsBook
<1>b. CASE BookReason(payload, recordLot) = Fine
  <2>1. PICK bid, ask, lot : bid = payload.bid /\ ask = payload.ask /\ lot = payload.lot
    OBVIOUS
  <2>2. /\ bid \in Seq(Quotes) /\ ask \in Seq(Quotes)
        /\ SideReason(bid, TRUE) = Fine /\ SideReason(ask, FALSE) = Fine
        /\ ~ (BothSides(payload) /\ Top(bid) >= Top(ask))
    BY <1>b, <2>1, BookFine
  <2>3. PICK n, m : SideIs(bid, TRUE, n, m)
    BY <2>2, SideFine
  <2>4. PICK k, l : SideIs(ask, FALSE, k, l)
    BY <2>2, SideFine
  <2>5. /\ m \in Nat /\ l \in Nat
        /\ \A i \in 1 .. m : bid[i].price \in Nat \ {0}
        /\ \A i \in 1 .. l : ask[i].price \in Nat \ {0}
        /\ \A i, j \in 1 .. m : i < j => bid[i].price > bid[j].price
        /\ \A i, j \in 1 .. l : i < j => ask[i].price < ask[j].price
    BY <2>3, <2>4 DEF SideIs, Prefix
  <2>6. /\ Ranks(bid) = 1 .. m /\ Cardinality(Ranks(bid)) = m
        /\ Ranks(ask) = 1 .. l /\ Cardinality(Ranks(ask)) = l
    BY <2>2, <2>3, <2>4, RanksAre
  <2>7. /\ Visible(bid, lot) \in Nat /\ Visible(ask, lot) \in Nat
        /\ Quoted(bid) # << >> <=> m # 0
        /\ Quoted(ask) # << >> <=> l # 0
        /\ m # 0 => Top(bid) = bid[1].price
        /\ l # 0 => Top(ask) = ask[1].price
    BY <2>2, <2>3, <2>4, SideParts
  <2>8. BothSides(payload) <=> m # 0 /\ l # 0
    BY <2>1, <2>7 DEF BothSides
  <2>9. ASSUME NEW i \in 1 .. m, NEW j \in 1 .. l PROVE bid[i].price < ask[j].price
    <3>1. m # 0 /\ l # 0 /\ 1 \in 1 .. m /\ 1 \in 1 .. l
      BY <2>5
    <3>2. ~ (bid[1].price >= ask[1].price)
      BY <2>2, <2>7, <2>8, <3>1
    <3>3. PICK a, b, c, d : a = bid[1].price /\ b = bid[i].price /\ c = ask[1].price /\ d = ask[j].price
      OBVIOUS
    <3>4. a \in Nat /\ b \in Nat /\ c \in Nat /\ d \in Nat
      BY <2>5, <3>1, <3>3
    <3>5. a >= b
      <4>1. CASE i = 1
        BY <3>3, <3>4, <4>1
      <4>2. CASE i # 1
        <5>1. 1 < i
          BY <4>2
        <5> QED BY <2>5, <3>1, <3>3, <3>4, <5>1
      <4> QED BY <4>1, <4>2
    <3>6. c <= d
      <4>1. CASE j = 1
        BY <3>3, <3>4, <4>1
      <4>2. CASE j # 1
        <5>1. 1 < j
          BY <4>2
        <5> QED BY <2>5, <3>1, <3>3, <3>4, <5>1
      <4> QED BY <4>1, <4>2
    <3>7. ~ (a >= c)
      BY <3>2, <3>3
    <3>8. b < d
      BY <3>4, <3>5, <3>6, <3>7
    <3> QED BY <3>3, <3>8
  <2>10. Imbalance(payload) \in (0 .. 10000) \cup { Unknown }
    <3>1. PICK b, t : b = Visible(bid, lot) /\ t = b + Visible(ask, lot)
      OBVIOUS
    <3>2. b \in Nat /\ t \in Nat /\ b <= t
      BY <2>7, <3>1
    <3>3. PICK r : r = (b * 10000) \div t
      OBVIOUS
    <3>4. Imbalance(payload) = IF t > 0 /\ Comparable(payload) THEN r ELSE Unknown
      BY <2>1, <3>1, <3>3 DEF Imbalance
    <3>5. t > 0 => r \in 0 .. 10000
      BY <3>2, <3>3, ShareOf
    <3> QED BY <3>4, <3>5
  <2>11. m = 0 \/ l = 0 => Spread(payload) = Unknown /\ Imbalance(payload) = Unknown
    BY <2>8 DEF Spread, Imbalance, Comparable
  <2>12. (1 .. m = {} => m = 0) /\ (1 .. l = {} => l = 0)
    <3>1. m # 0 => 1 \in 1 .. m
      BY <2>5
    <3>2. l # 0 => 1 \in 1 .. l
      BY <2>5
    <3> QED BY <3>1, <3>2
  <2>13. Contiguous(bid) /\ Contiguous(ask)
    BY <2>6 DEF Contiguous
  <2>14. Falling(bid)
    BY <2>5, <2>6 DEF Falling
  <2>15. Rising(ask)
    BY <2>5, <2>6 DEF Rising
  <2>16. Uncrossed(bid, ask)
    BY <2>6, <2>9 DEF Uncrossed
  <2>17. Ranks(bid) = {} \/ Ranks(ask) = {} =>
           Spread(payload) = Unknown /\ Imbalance(payload) = Unknown
    BY <2>6, <2>11, <2>12
  <2> QED BY <2>1, <2>10, <2>13, <2>14, <2>15, <2>16, <2>17 DEF IsBook
<1> QED BY <1>a, <1>b

\* Whatever levels are sent, what is accepted as a book is one: the quotes of a
\* side are its first levels, sorted, not crossed, and what is computed from a
\* side that is missing is unknown.
THEOREM AcceptedIsOne == Spec => []AcceptedIsBook
<1>1. ASSUME NEW payload \in Samples PROVE IsBook(payload, "BOARD")
  <2>1. payload.bid \in Seq(Quotes) /\ payload.ask \in Seq(Quotes)
    BY <1>1, SamplesAssumption DEF Quotes
  <2> QED BY <2>1, AnyBook
<1>2. AcceptedIsBook
  BY <1>1 DEF AcceptedIsBook
<1> QED BY <1>2, PTL
=============================================================================
