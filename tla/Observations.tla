---------------------------- MODULE Observations ----------------------------
(***************************************************************************)
(* replay_observations: the books and ticks of a day are taken in the order *)
(* in which they were received, a book before a tick of the same moment,   *)
(* and a plan of support and resistance levels that was known before is    *)
(* followed tick by tick.  A tick that is late, out of order, after a gap, *)
(* or without a fresh book of the same session is inconclusive: it ends a  *)
(* confirmation that is going on.                                          *)
(***************************************************************************)
EXTENDS QuoteBooks

CONSTANTS Payloads,      \* books the provider sends: [bid, ask, lot, simtrade, suspend]
          Samples,       \* more of them, to check the normalisation alone
          Prices,
          Low, High, Resistance,        \* the levels of the plan
          KnownAt, MinTicks, MinSeconds, MaxBookAge, MaxTickGap,
          Delays,        \* how long a tick may take to be received
          BookAges,      \* how old a book may be then: negative when a clock is ahead
          Pauses,        \* how long nothing may be received
          MaxItems       \* bound

ASSUME PlanAssumption ==
  /\ Low \in Int /\ High \in Int /\ Resistance \in Int
  /\ 0 < Low /\ Low <= High /\ 0 < Resistance
  /\ MinTicks \in Nat /\ MinSeconds \in Nat /\ MaxBookAge \in Nat /\ MaxTickGap \in Nat
  /\ MinTicks >= 2 /\ MinSeconds >= 1 /\ MaxBookAge >= 1 /\ MaxTickGap >= 1

\* Whole seconds; nothing is received before it is sent, and a clock may be ahead.
ASSUME FeedAssumption ==
  /\ Prices \subseteq Nat /\ KnownAt \in Nat /\ MaxItems \in Nat
  /\ Delays \subseteq Nat /\ BookAges \subseteq Int /\ Pauses \subseteq Nat

\* Whatever levels the provider sends: whole prices and volumes of either sign.
ASSUME SamplesAssumption ==
  LET levels == Seq([ price : Int, volume : Int ])
  IN  Samples \subseteq [ bid : levels, ask : levels, lot : STRING,
                          simtrade : BOOLEAN, suspend : BOOLEAN ]

VARIABLES clock,         \* received_at of the last item
          ticked,        \* a tick was taken at that moment
          session,       \* collector_session_id
          healthy,       \* data_health = "HEALTHY"
          book,          \* the last book of the symbol: [at, session], or NoBook
          last,          \* event time of the last tick, or Never
          support, breakout,     \* the two state machines: [state, since, count]
          out,           \* kind and status of the events of the last item
          items,
          run            \* auxiliary: ticks since the last inconclusive one, with their books

vars == << clock, ticked, session, healthy, book, last, support, breakout, out, items, run >>

Never == -1
NoBook == [ at |-> Never, session |-> 0 ]
Idle(state) == [ state |-> state, since |-> Never, count |-> 0 ]

Init ==
  /\ clock = 0 /\ ticked = FALSE /\ session = 1
  /\ healthy \in BOOLEAN
  /\ book = NoBook /\ last = Never
  /\ support = Idle("NOT_TESTED") /\ breakout = Idle("NOT_OBSERVED")
  /\ out = {} /\ items = 0 /\ run = << >>

More == items < MaxItems /\ items' = items + 1

\* The connection was lost: later items are of another session.
Renew ==
  /\ session = 1 /\ session' = 2
  /\ UNCHANGED << clock, ticked, healthy, book, last, support, breakout, out, items, run >>

----------------------------------------------------------------------------
(* observe_book.                                                            *)

BookEvents(payload, age) ==
  LET fresh == age >= -2 /\ age <= MaxBookAge /\ healthy
      status(known) == IF fresh /\ known THEN "OBSERVED" ELSE "INCONCLUSIVE"
  IN  { << "SPREAD_OBSERVED", status(Spread(payload) # Unknown) >>,
        << "BOOK_IMBALANCE_OBSERVED", status(Imbalance(payload) # Unknown) >> }

ReceiveBook ==
  \E pause \in Pauses, age \in BookAges, payload \in Payloads :
    /\ More
    /\ ticked => pause > 0
    /\ clock' = clock + pause /\ ticked' = FALSE
    /\ age <= clock'
    /\ IF BookReason(payload, "BOARD") = Fine
       THEN /\ book' = [ at |-> clock' - age, session |-> session ]
            /\ out' = BookEvents(payload, age)
       ELSE UNCHANGED book /\ out' = {}         \* refused
    /\ UNCHANGED << session, healthy, last, support, breakout, run >>

----------------------------------------------------------------------------
(* One tick of the symbol of the plan.                                      *)

\* Mutant: the age of the book is taken at the trade only.
FreshAtTrade(at, received) == at - book.at <= MaxBookAge

FreshBook(at, received) == at - book.at <= MaxBookAge /\ received - book.at <= MaxBookAge

InOrder(at) == last = Never \/ (at >= last /\ at - last <= MaxTickGap)

UsableBook(at) == book # NoBook /\ book.at <= at /\ book.session = session

Conclusive(at, received) ==
  /\ healthy
  /\ InOrder(at)
  /\ UsableBook(at) /\ FreshBook(at, received)
  /\ received - at <= MaxBookAge

\* Only a confirmation that is going on starts anew.
Restarted(machine, idle) ==
  IF machine.state = "TESTING" THEN Idle(idle)
  ELSE [ machine EXCEPT !.since = Never, !.count = 0 ]

Inconclusive ==
  /\ support' = Restarted(support, "NOT_TESTED")
  /\ breakout' = Restarted(breakout, "NOT_OBSERVED")
  /\ out' = { << "PRICE_LEVEL_CHECK", "INCONCLUSIVE" >> }
  /\ run' = << >>

Confirmed(count, since, at) == count >= MinTicks /\ at - since >= MinSeconds

\* The machine after a tick, and the event it gives rise to.
SupportStep(px, at) ==
  LET count == support.count + 1
      to(state, event) == [ next |-> [ support EXCEPT !.state = state ], event |-> event ]
  IN  CASE support.state = "NOT_TESTED" /\ Low <= px /\ px <= High ->
             [ next |-> [ state |-> "TESTING", since |-> at, count |-> 0 ],
               event |-> "SUPPORT_TESTED" ]
        [] support.state \in { "TESTING", "HELD" } /\ px < Low -> to("BROKEN", "SUPPORT_BROKEN")
        [] support.state = "TESTING" /\ px >= High ->
             IF Confirmed(count, support.since, at)
             THEN [ next |-> [ support EXCEPT !.state = "HELD", !.count = count ],
                    event |-> "SUPPORT_HELD" ]
             ELSE [ next |-> [ support EXCEPT !.count = count ], event |-> "none" ]
        [] OTHER -> to(support.state, "none")

BreakoutStep(px, at) ==
  LET count == breakout.count + 1
  IN  CASE breakout.state = "NOT_OBSERVED" /\ px > Resistance ->
             [ next |-> [ state |-> "TESTING", since |-> at, count |-> 1 ], event |-> "none" ]
        [] breakout.state = "TESTING" /\ px <= Resistance ->
             [ next |-> Idle("NOT_OBSERVED"), event |-> "none" ]
        [] breakout.state = "TESTING" /\ px > Resistance ->
             IF Confirmed(count, breakout.since, at)
             THEN [ next |-> [ breakout EXCEPT !.state = "OBSERVED", !.count = count ],
                    event |-> "BREAKOUT_OBSERVED" ]
             ELSE [ next |-> [ breakout EXCEPT !.count = count ], event |-> "none" ]
        [] breakout.state = "OBSERVED" /\ px <= Resistance ->
             [ next |-> [ breakout EXCEPT !.state = "RETESTED" ],
               event |-> "BREAKOUT_RETESTED" ]
        [] OTHER -> [ next |-> breakout, event |-> "none" ]

Evaluate(px, at) ==
  LET s == SupportStep(px, at)
      b == BreakoutStep(px, at)
  IN  /\ support' = s.next /\ breakout' = b.next
      /\ out' = { << e, "OBSERVED" >> : e \in { s.event, b.event } \ { "none" } }
      /\ run' = Append(run, [ px |-> px, at |-> at, received |-> clock',
                              book |-> book, session |-> session ])

TickReceived(px, at, received) ==
  /\ More
  /\ at >= 0
  /\ clock' = received /\ ticked' = TRUE
  /\ IF received < KnownAt \/ at < KnownAt
     THEN UNCHANGED << last, support, breakout, run >> /\ out' = {}
     ELSE /\ last' = at
          /\ IF Conclusive(at, received) THEN Evaluate(px, at) ELSE Inconclusive
  /\ UNCHANGED << session, healthy, book >>

ReceiveTick ==
  \E pause \in Pauses, delay \in Delays, px \in Prices :
    TickReceived(px, clock + pause - delay, clock + pause)

Next == Renew \/ ReceiveBook \/ ReceiveTick

Spec == Init /\ [][Next]_vars

----------------------------------------------------------------------------
(* What is checked.                                                         *)

Machines(states) == [ state : states, since : Nat \cup { Never }, count : Nat ]

Books == [ at : Nat \cup { Never }, session : 0..2 ]

Ticks == [ px : Prices, at : Nat, received : Nat, book : Books, session : 1..2 ]

\* Types of the variables (no claim beyond that).
TypeOK ==
  /\ clock \in Nat /\ ticked \in BOOLEAN /\ session \in 1..2 /\ healthy \in BOOLEAN
  /\ book \in Books /\ last \in Nat \cup { Never }
  /\ support \in Machines({ "NOT_TESTED", "TESTING", "HELD", "BROKEN" })
  /\ breakout \in Machines({ "NOT_OBSERVED", "TESTING", "OBSERVED", "RETESTED" })
  /\ items \in 0..MaxItems
  /\ run \in Seq(Ticks)

Announced(kind) == << kind, "OBSERVED" >> \in out

\* The ticks k..Len(run) have no gap in them and none used a book that a reader
\* of that moment did not have, or had for too long, or had from another session.
Sound(k) ==
  \A i \in k..Len(run) :
    /\ run[i].book # NoBook /\ run[i].book.session = run[i].session
    /\ run[i].book.at <= run[i].at /\ run[i].received - run[i].book.at <= MaxBookAge
    /\ i > k => run[i].at >= run[i - 1].at /\ run[i].at - run[i - 1].at <= MaxTickGap

\* Nothing is announced without its confirmation.  "Support held" is never said
\* before a tick in the support zone was followed, without an inconclusive tick
\* or one below the zone, by enough ticks at or over it and for long enough;
\* "breakout observed" never before enough ticks in a row, for long enough, were
\* over the resistance; each of these ticks against a fresh book.
EventsAreConfirmed ==
  /\ Announced("SUPPORT_HELD") => healthy /\ \E k \in DOMAIN run :
       /\ run[k].px \in Low..High /\ Sound(k)
       /\ \A i \in k..Len(run) : run[i].px >= Low
       /\ Cardinality({ i \in (k + 1)..Len(run) : run[i].px >= High }) >= MinTicks
       /\ run[Len(run)].at - run[k].at >= MinSeconds
  /\ Announced("BREAKOUT_OBSERVED") => healthy /\ \E k \in DOMAIN run :
       /\ Sound(k)
       /\ \A i \in k..Len(run) : run[i].px > Resistance
       /\ Len(run) - k + 1 >= MinTicks
       /\ run[Len(run)].at - run[k].at >= MinSeconds

\* Whatever levels are sent, what is accepted as a book is one (see QuoteBooks).
AcceptedIsBook == items = 0 => \A payload \in Samples : IsBook(payload, "BOARD")
=============================================================================
