------------------------------ MODULE Approvals ------------------------------
(***************************************************************************)
(* The approvals directory: approval activate and approval deactivate, run *)
(* from any number of terminals, and the daily run, which loads the active *)
(* manifests and reports a preflight status for each strategy.             *)
(*                                                                         *)
(* A command works on files, one call at a time, and may die after each.   *)
(* A file is an inode with a name: opening it for writing truncates the    *)
(* inode, the text is written when it is closed, and os.replace moves the  *)
(* name.  Every command uses the same temporary name for the active map.   *)
(* Days are trading days; a manifest is valid from From[a] to the day      *)
(* before Until[a].                                                        *)
(***************************************************************************)
EXTENDS Naturals, FiniteSets, Functions

CONSTANTS Strategies, Ids,      \* strategies, approval ids
          StrategyOf,           \* the strategy an approval is for
          From, Until,          \* its validity, in days
          Modes,                \* the execution modes it permits
          Revoked, Untrusted,   \* settings; digest or issuer refused
          Legacy,               \* what the legacy pointer names, or Nothing
          Nothing, Empty, Torn,
          Operators,            \* terminals
          Warning,              \* expiry_warning_sessions
          MaxCommands, MaxDay   \* bounds

\* What a map can hold: an approval for some of the strategies.
Entries == UNION { [ S -> Ids ] : S \in SUBSET Strategies }

ASSUME WarningAssumption == Warning \in Nat \ {0, 1}
ASSUME IdsAssumption ==
  /\ StrategyOf \in [ Ids -> Strategies ] /\ Legacy \in Ids \cup {Nothing}
  /\ From \in [ Ids -> Nat ] /\ Until \in [ Ids -> Nat ]
  /\ Modes \in [ Ids -> SUBSET { "backtest", "simulation" } ]
ASSUME FilesAssumption == IsFiniteSet(Operators) /\ Empty \notin Entries /\ Torn \notin Entries

VARIABLES manifests,   \* the files of the approvals directory
          inodes,      \* what the inodes of the map's directory hold
          mapAt, tmpAt,\* the inode active-approvals.json and its .tmp name, or 0
          command,     \* what each terminal is doing
          daily,       \* the daily run
          report,      \* its last preflight report
          day,
          used,        \* commands begun
          told,        \* the map that the finished commands describe
          overlapped   \* two commands were at work at once

files == << manifests, inodes, mapAt, tmpAt >>
ghosts == << told, overlapped >>
approvals == << manifests, inodes, mapAt, tmpAt, command, daily, report, day, used, told, overlapped >>

Inodes == 1 .. Cardinality(Operators) + 2
NoEntries == << >>
Idle == [ pc |-> "idle", what |-> "none", id |-> Nothing, strategy |-> Nothing,
          next |-> NoEntries, fd |-> 0 ]
Request(what, a, s) == [ pc |-> "begin", what |-> what, id |-> a, strategy |-> s,
                         next |-> NoEntries, fd |-> 0 ]
Resting == [ pc |-> "idle", entries |-> NoEntries, todo |-> {}, loaded |-> NoEntries ]

ApprovalsInit ==
  /\ manifests = [ a \in Ids |-> IF a = Legacy THEN "whole" ELSE "missing" ]
  /\ inodes = [ i \in Inodes |-> Empty ]
  /\ mapAt = 0 /\ tmpAt = 0
  /\ command = [ p \in Operators |-> Idle ]
  /\ daily = Resting
  /\ report = [ day |-> 0, status |-> NoEntries, loaded |-> NoEntries ]
  /\ day = 1 /\ used = 0
  /\ told = NoEntries /\ overlapped = FALSE

Readable(i) == inodes[i] \notin { Empty, Torn }

With(entries, s, a) == [ t \in DOMAIN entries \cup {s} |-> IF t = s THEN a ELSE entries[t] ]
Without(entries, s) == [ t \in DOMAIN entries \ {s} |-> entries[t] ]

----------------------------------------------------------------------------
(* The commands.  A command goes through its calls in this order.           *)

\* Mutant: the active entry is written before the manifest it names.
MapFirst == [ begin |-> "read", read |-> "open", open |-> "write", write |-> "replace",
              replace |-> "store", store |-> "fill", fill |-> "idle" ]

ActivateOrder == [ begin |-> "store", store |-> "fill", fill |-> "read", read |-> "open",
                   open |-> "write", write |-> "replace", replace |-> "idle" ]

DeactivateOrder == [ begin |-> "read", read |-> "open", open |-> "write",
                     write |-> "replace", replace |-> "idle" ]

After(c, pc) == IF c.what = "activate" THEN ActivateOrder[pc] ELSE DeactivateOrder[pc]

Step(p, c) == command' = [ command EXCEPT ![p] = [ c EXCEPT !.pc = After(c, c.pc) ] ]
Stop(p) == command' = [ command EXCEPT ![p] = Idle ]

Begin(p) ==
  /\ command[p].pc = "idle" /\ used < MaxCommands
  /\ used' = used + 1
  /\ overlapped' = (overlapped \/ \E q \in Operators : command[q].pc # "idle")
  /\ \/ \E a \in Ids :
          Step(p, Request("activate", a, StrategyOf[a]))
     \/ \E s \in Strategies :
          Step(p, Request("deactivate", Nothing, s))
  /\ UNCHANGED << files, daily, report, day, told >>

\* The manifest file is opened, which empties it, and written.
StoreManifest(p) ==
  /\ command[p].pc \in { "store", "fill" }
  /\ manifests' = [ manifests EXCEPT ![command[p].id] =
                      IF command[p].pc = "store" THEN "empty" ELSE "whole" ]
  /\ Step(p, command[p])
  /\ UNCHANGED << inodes, mapAt, tmpAt, daily, report, day, used, ghosts >>

Found == IF mapAt = 0 THEN NoEntries ELSE inodes[mapAt]

\* A map that does not parse raises; there is nothing to deactivate in a map
\* that is missing or has no entry, whatever the legacy pointer says.
ReadMap(p) ==
  LET c == command[p]
      readable == mapAt = 0 \/ Readable(mapAt)
  IN /\ c.pc = "read"
     /\ IF ~readable \/ (c.what = "deactivate" /\ c.strategy \notin DOMAIN Found)
        THEN Stop(p)
        ELSE Step(p, [ c EXCEPT !.next = IF c.what = "activate" THEN With(Found, c.strategy, c.id)
                                         ELSE Without(Found, c.strategy) ])
     /\ UNCHANGED << files, daily, report, day, used, ghosts >>

InUse == { mapAt, tmpAt } \cup { command[p].fd : p \in Operators }
Fresh == CHOOSE i \in Inodes : i \notin InUse

\* The name that is opened for writing.
\* Mutant: the map is written in place.
InPlace == mapAt

Target == tmpAt

OpenTemp(p) ==
  LET i == IF Target = 0 THEN Fresh ELSE Target
  IN /\ command[p].pc = "open"
     /\ inodes' = [ inodes EXCEPT ![i] = Empty ]
     /\ tmpAt' = IF Target = 0 THEN i ELSE tmpAt
     /\ Step(p, [ command[p] EXCEPT !.fd = i ])
     /\ UNCHANGED << manifests, mapAt, daily, report, day, used, ghosts >>

\* The text goes to the start of the inode: the rest of a longer text that
\* another command has written since stays behind it.
Overwritten(old, new) ==
  IF old = Empty THEN new
  ELSE IF old = Torn \/ Cardinality(DOMAIN old) > Cardinality(DOMAIN new) THEN Torn ELSE new

WriteTemp(p) ==
  LET c == command[p]
  IN /\ c.pc = "write"
     /\ inodes' = [ inodes EXCEPT ![c.fd] = Overwritten(@, c.next) ]
     /\ Step(p, [ c EXCEPT !.fd = 0 ])
     /\ UNCHANGED << manifests, mapAt, tmpAt, daily, report, day, used, ghosts >>

\* os.replace: it raises when another command has moved the name already.
ReplaceMap(p) ==
  LET c == command[p]
  IN /\ c.pc = "replace"
     /\ Step(p, c)
     /\ IF tmpAt = 0
        THEN UNCHANGED << mapAt, tmpAt, told >>
        ELSE /\ mapAt' = tmpAt /\ tmpAt' = 0
             /\ told' = IF c.what = "activate" THEN With(told, c.strategy, c.id)
                        ELSE Without(told, c.strategy)
     /\ UNCHANGED << manifests, inodes, daily, report, day, used, overlapped >>

Die(p) ==
  /\ command[p].pc # "idle"
  /\ Stop(p)
  /\ UNCHANGED << files, daily, report, day, used, ghosts >>

----------------------------------------------------------------------------
(* The daily run: load_active_manifests and get_preflight_status.           *)

\* The legacy pointer is read only while there is no map.
LegacyEntries == IF Legacy = Nothing THEN NoEntries ELSE With(NoEntries, StrategyOf[Legacy], Legacy)

LoadMap ==
  /\ daily.pc = "idle"
  /\ IF mapAt # 0 /\ ~Readable(mapAt)
     THEN UNCHANGED daily                      \* json raises: the run ends
     ELSE LET entries == IF mapAt = 0 THEN LegacyEntries ELSE Found
          IN daily' = [ pc |-> "load", entries |-> entries, todo |-> DOMAIN entries, loaded |-> NoEntries ]
  /\ UNCHANGED << files, command, report, day, used, ghosts >>

\* A manifest that is missing is left out, one that does not parse raises.
LoadManifest(s) ==
  /\ daily.pc = "load" /\ s \in daily.todo
  /\ LET a == daily.entries[s]
     IN daily' = CASE manifests[a] = "whole" -> [ daily EXCEPT !.todo = @ \ {s}, !.loaded = With(@, s, a) ]
                   [] manifests[a] = "missing" -> [ daily EXCEPT !.todo = @ \ {s} ]
                   [] OTHER -> Resting
  /\ UNCHANGED << files, command, report, day, used, ghosts >>

\* ManifestValidator.validate for a time on day d; the window is not looked
\* at when a backtest replays the past, and the mode comes last.
InWindow(a, d, mode) == mode # "backtest" => From[a] <= d /\ d < Until[a]

Refusal(a, d, mode) ==
  CASE a \in Untrusted -> "INVALID"
    [] a \notin Untrusted /\ a \in Revoked -> "REVOKED"
    [] a \notin Untrusted \cup Revoked /\ ~InWindow(a, d, mode) ->
         IF d < From[a] THEN "NOT_YET_VALID" ELSE "EXPIRED"
    [] a \notin Untrusted \cup Revoked /\ InWindow(a, d, mode) /\ mode \notin Modes[a] -> "INVALID"
    [] OTHER -> "NONE"

SessionsBetween(d, until) == (until - d) + 1

\* Mutant: a strategy is warned of only on the last day.
OnLastDay(a, d) == SessionsBetween(d, Until[a]) <= 1

ExpiresSoon(a, d) == SessionsBetween(d, Until[a]) <= Warning

Preflight(a, d) ==
  CASE a \in Revoked -> "REVOKED"
    [] a \notin Revoked /\ Refusal(a, d, "simulation") # "NONE" -> Refusal(a, d, "simulation")
    [] a \notin Revoked /\ Refusal(a, d, "simulation") = "NONE" ->
         IF ExpiresSoon(a, d) THEN "EXPIRING_SOON" ELSE "ACTIVE"

Report ==
  /\ daily.pc = "load" /\ daily.todo = {}
  /\ report' = [ day |-> day, loaded |-> daily.loaded,
                 status |-> [ s \in Strategies |->
                                IF s \in DOMAIN daily.loaded THEN Preflight(daily.loaded[s], day) ELSE "MISSING" ] ]
  /\ daily' = Resting
  /\ UNCHANGED << files, command, day, used, ghosts >>

NextDay ==
  /\ day < MaxDay /\ day' = day + 1
  /\ UNCHANGED << files, command, daily, report, used, ghosts >>

----------------------------------------------------------------------------

ApprovalsNext ==
  \/ \E p \in Operators : \/ Begin(p) \/ StoreManifest(p) \/ ReadMap(p)
                          \/ OpenTemp(p) \/ WriteTemp(p) \/ ReplaceMap(p) \/ Die(p)
  \/ LoadMap \/ (\E s \in Strategies : LoadManifest(s)) \/ Report
  \/ NextDay

ApprovalsSpec == ApprovalsInit /\ [][ApprovalsNext]_approvals

----------------------------------------------------------------------------
(* Properties.                                                              *)

\* As long as commands have been run one after the other, the active map is
\* whole and says what the commands that finished say, whatever step a
\* command died at (store.py:72, 89-93).
LastWordHolds ==
  ~overlapped =>
    /\ mapAt # 0 => Readable(mapAt)
    /\ Found = told

\* An active entry names a manifest that was stored before it, however
\* commands overlap and wherever they die (store.py:57-72): what the daily
\* run loads is never missing an approval that the map calls active.
ActiveIsStored ==
  mapAt # 0 /\ Readable(mapAt) =>
    \A s \in DOMAIN Found : manifests[Found[s]] # "missing" /\ StrategyOf[Found[s]] = s

\* A strategy that the evening's report calls ACTIVE is not refused the next
\* morning for its dates (runners/simulation.py:161-168, validator.py:43-54).
ActiveLastsUntilTheOpen ==
  day = report.day + 1 =>
    \A s \in DOMAIN report.loaded :
      report.status[s] = "ACTIVE" => Refusal(report.loaded[s], day, "simulation") = "NONE"
==============================================================================
