----------------------------- MODULE RawJournal -----------------------------
(***************************************************************************)
(* One raw file of one day and stream: append_raw of the collector's       *)
(* sessions, compress_raw as `intraday-compress` runs it (without the      *)
(* lease) and as `intraday-maintain` does (with it), and what the audit    *)
(* makes of the files.  The lease and the lock of the file are flocks: the *)
(* system releases them when a process dies.                               *)
(*                                                                         *)
(* A line is a record, or Broken: a record that was appended to a torn     *)
(* tail shares its line and parses no more.  A process may die at any      *)
(* step, and any step on the disk may raise.  Directory changes reach the  *)
(* disk in their order.                                                    *)
(***************************************************************************)
EXTENDS Integers, Sequences, FiniteSets

CONSTANTS Broken, Absent,
          MaxRecords, MaxSessions, MaxRuns, MaxFaults   \* bounds

ASSUME BoundsAssumption ==
  MaxRecords \in Nat /\ MaxSessions \in Nat /\ MaxRuns \in Nat /\ MaxFaults \in Nat

\* A broken line is no record, and no file is neither a file nor a number.
ASSUME LinesAssumption ==
  Broken \notin Nat /\ Absent \notin Nat /\ Absent \notin Seq(Nat \cup { Broken })

VARIABLES raw,         \* lines of the .jsonl file, or Absent
          torn,        \* its last line has no end
          temp,        \* the .gz.tmp file: the run that wrote it, or Absent
          archive,     \* lines of the .jsonl.gz file, or Absent
          manifest,    \* lines the manifest counts, or Absent
          lock,        \* who holds the flock of the file
          lease,       \* who holds collector_lease
          writer,      \* the session of the collector
          run,         \* the compression that is at work
          acked,       \* records whose append_raw has returned
          used         \* records, sessions, runs and faults so far

vars == << raw, torn, temp, archive, manifest, lock, lease, writer, run, acked, used >>

rawFile == << raw, torn >>
archiveFiles == << temp, archive, manifest >>

Nobody == "nobody"
Commands == { "compress", "maintain" }

Init ==
  /\ raw = Absent /\ torn = FALSE
  /\ temp = Absent /\ archive = Absent /\ manifest = Absent
  /\ lock = Nobody /\ lease = Nobody
  /\ writer = [ pc |-> "closed", record |-> 0 ]
  /\ run = [ pc |-> "none", command |-> "compress" ]
  /\ acked = << >>
  /\ used = [ record |-> 0, session |-> 0, run |-> 0, fault |-> 0 ]

Fault == used.fault < MaxFaults /\ used' = [ used EXCEPT !.fault = @ + 1 ]

Lines == IF raw = Absent THEN << >> ELSE raw

----------------------------------------------------------------------------
(* The collector: a session holds the lease, append_raw the lock.           *)

OpenSession ==
  /\ writer.pc = "closed" /\ lease = Nobody
  /\ used.session < MaxSessions
  /\ used' = [ used EXCEPT !.session = @ + 1 ]
  /\ lease' = "collector"
  /\ writer' = [ writer EXCEPT !.pc = "open" ]
  /\ UNCHANGED << rawFile, archiveFiles, lock, run, acked >>

CloseSession ==
  /\ writer.pc = "open"
  /\ writer' = [ writer EXCEPT !.pc = "closed" ]
  /\ lease' = Nobody
  /\ UNCHANGED << rawFile, archiveFiles, lock, run, acked, used >>

\* Mutant: a record may be appended to a file that is archived.
LockIsEnough == lock = Nobody

MayAppend == lock = Nobody /\ archive = Absent

BeginAppend ==
  /\ writer.pc = "open" /\ used.record < MaxRecords
  /\ used' = [ used EXCEPT !.record = @ + 1 ]
  /\ IF MayAppend
     THEN /\ lock' = "collector"
          /\ writer' = [ pc |-> "write", record |-> used.record + 1 ]
          /\ UNCHANGED lease
     ELSE /\ writer' = [ writer EXCEPT !.pc = "closed" ]    \* the collector stops
          /\ lease' = Nobody /\ UNCHANGED lock
  /\ UNCHANGED << rawFile, archiveFiles, run, acked >>

\* What is there when it ends: no line more (in a file that may be new), a part
\* of the line or the whole of it.
Written(part) ==
  CASE part = "none"  -> raw' \in { raw, Lines } /\ UNCHANGED torn
    [] part = "part"  -> /\ torn' = TRUE
                         /\ raw' = IF torn THEN [ raw EXCEPT ![Len(raw)] = Broken ]
                                   ELSE Append(Lines, Broken)
    [] OTHER          -> /\ torn' = FALSE
                         /\ raw' = IF torn THEN [ raw EXCEPT ![Len(raw)] = Broken ]
                                   ELSE Append(Lines, writer.record)

EndAppend ==
  /\ writer.pc = "write"
  /\ Written("whole")
  /\ acked' = Append(acked, writer.record)
  /\ lock' = Nobody
  /\ writer' = [ writer EXCEPT !.pc = "open" ]
  /\ UNCHANGED << archiveFiles, lease, run, used >>

\* The disk is full or fsync fails: the session ends without the acknowledgement.
AppendFails ==
  /\ writer.pc = "write" /\ Fault
  /\ \E part \in { "none", "part", "whole" } : Written(part)
  /\ lock' = Nobody /\ lease' = Nobody
  /\ writer' = [ writer EXCEPT !.pc = "closed" ]
  /\ UNCHANGED << archiveFiles, run, acked >>

WriterDies ==
  /\ writer.pc # "closed" /\ Fault
  /\ IF writer.pc = "write"
     THEN /\ \E part \in { "none", "part", "whole" } : Written(part)
          /\ lock' = Nobody
     ELSE UNCHANGED << rawFile, lock >>
  /\ lease' = Nobody
  /\ writer' = [ writer EXCEPT !.pc = "closed" ]
  /\ UNCHANGED << archiveFiles, run, acked >>

Writer ==
  \/ OpenSession \/ CloseSession \/ BeginAppend \/ EndAppend \/ AppendFails \/ WriterDies

----------------------------------------------------------------------------
(* compress_raw, under the lock of the file from its first check to its end. *)

Step(pc) == run' = [ run EXCEPT !.pc = pc ]

Release(pc) ==
  /\ Step(pc)
  /\ lock' = IF lock = "run" THEN Nobody ELSE lock
  /\ lease' = IF lease = "run" THEN Nobody ELSE lease

BeginRun(c) ==
  /\ run.pc = "none" /\ used.run < MaxRuns
  /\ used' = [ used EXCEPT !.run = @ + 1 ]
  /\ run' = [ pc |-> "check", command |-> c ]
  /\ IF c = "maintain"
     THEN lease = Nobody /\ lease' = "run"
     ELSE UNCHANGED lease
  /\ lock = Nobody /\ lock' = "run"
  /\ UNCHANGED << rawFile, archiveFiles, writer, acked >>

\* Mutant: the temporary file of a run that died is written over.
PublishedOnly == archive # Absent \/ manifest # Absent

\* What an earlier run has left, and is not to be overwritten.
Residue == archive # Absent \/ manifest # Absent \/ temp # Absent

Blocked ==
  /\ run.pc = "check"
  /\ Residue \/ raw = Absent
  /\ Release("none")
  /\ UNCHANGED << rawFile, archiveFiles, writer, acked, used >>

OpenTemp ==
  /\ run.pc = "check" /\ ~Residue /\ raw # Absent
  /\ temp' = used.run
  /\ Step("read")
  /\ UNCHANGED << rawFile, archive, manifest, lock, lease, writer, acked, used >>

Parses == ~torn /\ Broken \notin { raw[i] : i \in DOMAIN raw }

Verify ==
  /\ run.pc = "read" /\ Parses
  /\ Step("verified")
  /\ UNCHANGED << rawFile, archiveFiles, lock, lease, writer, acked, used >>

\* ValueError of a line; the finally clause removes the temporary file.
Unparsable ==
  /\ run.pc = "read" /\ ~Parses
  /\ temp' = Absent
  /\ Release("none")
  /\ UNCHANGED << rawFile, archive, manifest, writer, acked, used >>

PublishArchive ==
  /\ run.pc = "verified"
  /\ archive' = raw /\ temp' = Absent
  /\ Step("archived")
  /\ UNCHANGED << rawFile, manifest, lock, lease, writer, acked, used >>

PublishManifest ==
  /\ run.pc = "archived"
  /\ manifest' = Len(raw)
  /\ Step("published")
  /\ UNCHANGED << rawFile, temp, archive, lock, lease, writer, acked, used >>

\* Mutant: the raw file goes before the archive is there.
UnlinkAfter == "read"

UnlinkPoint == "published"

UnlinkRaw ==
  /\ run.pc = UnlinkPoint
  /\ raw' = Absent /\ torn' = FALSE
  /\ Release("none")
  /\ UNCHANGED << archiveFiles, writer, acked, used >>

\* An OSError of any step: the temporary file is removed, what is published stays.
RunFails ==
  /\ run.pc \in { "read", "verified", "archived", "published" } /\ Fault
  /\ temp' = Absent
  /\ Release("none")
  /\ UNCHANGED << rawFile, archive, manifest, writer, acked >>

RunDies ==
  /\ run.pc # "none" /\ Fault
  /\ Release("none")
  /\ UNCHANGED << rawFile, archiveFiles, writer, acked >>

Run ==
  \/ \E c \in Commands : BeginRun(c)
  \/ Blocked \/ OpenTemp \/ Verify \/ Unparsable \/ PublishArchive \/ PublishManifest
  \/ UnlinkRaw \/ RunFails \/ RunDies

Next == Writer \/ Run

Spec == Init /\ [][Next]_vars

----------------------------------------------------------------------------
(* audit_intraday_raw, for this file.                                       *)

\* The lines a replay reads.
Content == IF raw # Absent THEN raw ELSE IF archive # Absent THEN archive ELSE << >>

Status ==
  CASE raw # Absent /\ archive # Absent   -> "FAIL"
    [] raw # Absent /\ ~Parses            -> "FAIL"
    [] raw = Absent /\ archive = Absent   -> "INCOMPLETE"
    [] OTHER -> IF Content = << >> THEN "REVIEW" ELSE "PASS_RAW_ONLY"

----------------------------------------------------------------------------
(* What is checked.                                                         *)

Line == 1..MaxRecords \cup { Broken }

Writers == [ pc : { "closed", "open", "write" }, record : 0..MaxRecords ]

Runs ==
  [ pc : { "none", "check", "read", "verified", "archived", "published" }, command : Commands ]

Used ==
  [ record : 0..MaxRecords, session : 0..MaxSessions, run : 0..MaxRuns, fault : 0..MaxFaults ]

\* Types of the variables (no claim beyond that).
TypeOK ==
  /\ raw \in Seq(Line) \cup { Absent } /\ archive \in Seq(Line) \cup { Absent }
  /\ torn \in BOOLEAN
  /\ temp \in 1..MaxRuns \cup { Absent }
  /\ manifest \in Nat \cup { Absent }
  /\ writer \in Writers /\ run \in Runs /\ used \in Used
  /\ lock \in { Nobody, "collector", "run" } /\ lease \in { Nobody, "collector", "run" }
  /\ acked \in Seq(1..MaxRecords)

\* A record whose append_raw has returned is read back once, in its place in the
\* order, or the audit of the day fails: no crash, full disk or half-done
\* compression can make the audit pass, or report a missing file, over a loss.
AuditIsHonest ==
  Status # "FAIL" =>
     \E place \in [ DOMAIN acked -> DOMAIN Content ] :
        /\ \A i \in DOMAIN acked : Content[place[i]] = acked[i]
        /\ \A i, j \in DOMAIN acked : i < j => place[i] < place[j]
        /\ \A k \in DOMAIN Content, i \in DOMAIN acked :
             Content[k] = acked[i] => \E j \in DOMAIN acked : place[j] = k

\* Once the archive is published the lines of the day change no more: a later
\* session adds nothing, a later run replaces nothing, and the raw file goes
\* only when archive and manifest stand for all of it.
ArchiveSeals ==
  [][ /\ archive # Absent => archive' = archive /\ raw' \in { raw, Absent }
      /\ (raw # Absent /\ raw' = Absent) => archive = raw /\ manifest = Len(raw) ]_vars

\* docs/operations/shioaji-intraday-reliability.md:18, "Crash residue or partial
\* gzip blocks maintenance rather than being silently overwritten": the
\* temporary file of a run that died is left to the operator by every later run.
ResidueKept == [][ temp \notin { Absent, used.run } => temp' = temp ]_vars
=============================================================================
