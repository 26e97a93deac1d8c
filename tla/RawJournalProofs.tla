--------------------------- MODULE RawJournalProofs ---------------------------
(***************************************************************************)
(* RawJournal's properties for every number of records, sessions, runs and *)
(* faults: what the audit says of the records, and what is never changed.  *)
(***************************************************************************)
EXTENDS RawJournal, SequenceTheorems, TLAPS

Sorted(s) ==
  \A k, l \in DOMAIN s : k < l /\ s[k] # Broken /\ s[l] # Broken => s[k] < s[l]

UpTo(n, s) == \A k \in DOMAIN s : s[k] # Broken => s[k] <= n

Sound(s) == \A k \in DOMAIN s : s[k] # Broken

\* Every record that was acknowledged is a line of s.
Holds(s) == \A i \in DOMAIN acked : \E k \in DOMAIN s : s[k] = acked[i]

\* The last record a file may have.
Limit == IF writer.pc = "write" THEN used.record - 1 ELSE used.record

LocksInv ==
  /\ lock = "collector" <=> writer.pc = "write"
  /\ lock = "run" <=> run.pc # "none"
  /\ lease = "collector" <=> writer.pc # "closed"
  /\ run.pc # "none" => used.run # 0

WriterInv ==
  /\ writer.pc = "write" => /\ writer.record = used.record /\ used.record # 0
                            /\ archive = Absent
  /\ Sorted(acked) /\ UpTo(Limit, acked)

RawInv ==
  /\ raw # Absent => Sorted(raw) /\ UpTo(Limit, raw) /\ (Sound(raw) => Holds(raw))
  /\ torn => raw # Absent /\ raw # << >> /\ raw[Len(raw)] = Broken

ArchiveInv ==
  /\ archive # Absent => /\ Sorted(archive) /\ Sound(archive) /\ Holds(archive)
                         /\ raw \in { Absent, archive }
  /\ archive = Absent /\ raw = Absent => acked = << >>

\* What a run has established, and nobody undoes while it holds the lock.
RunInv ==
  /\ run.pc \in { "read", "verified" } =>
       raw # Absent /\ archive = Absent /\ temp = used.run
  /\ run.pc = "verified" => ~torn /\ Sound(raw)
  /\ run.pc \in { "archived", "published" } =>
       raw # Absent /\ archive = raw /\ temp = Absent
  /\ run.pc = "published" => manifest = Len(raw)

Inv == TypeOK /\ LocksInv /\ WriterInv /\ RawInv /\ ArchiveInv /\ RunInv

LEMMA BrokenIsNoRecord == Broken \notin 1..MaxRecords /\ Absent \notin Seq(Line)
<1>1. Line \subseteq Nat \cup { Broken }
  BY DEF Line
<1>2. ASSUME NEW s \in Seq(Line) PROVE s \in Seq(Nat \cup { Broken })
  BY <1>1, <1>2, SeqMonotonic
<1> QED BY <1>2, LinesAssumption

----------------------------------------------------------------------------
(* What an append leaves in the file.                                      *)

LEMMA WrittenCases ==
  ASSUME Inv, writer.pc = "write", NEW part \in { "none", "part", "whole" }, Written(part)
  PROVE  /\ \/ raw' \in { raw, Lines } /\ (torn' => torn) /\ (part = "whole" => torn /\ raw' = raw)
            \/ torn /\ raw' = raw /\ part = "part"
            \/ ~torn /\ raw' = Append(Lines, Broken) /\ part = "part"
            \/ ~torn /\ raw' = Append(Lines, writer.record) /\ ~torn' /\ part = "whole"
         /\ Lines \in Seq(Line)
<1>1. Lines \in Seq(Line)
  BY DEF Lines, Inv, TypeOK
<1>2. ASSUME torn PROVE [ raw EXCEPT ![Len(raw)] = Broken ] = raw
  <2>1. raw \in Seq(Line) /\ raw[Len(raw)] = Broken /\ Len(raw) \in DOMAIN raw
    BY <1>2 DEF Inv, TypeOK, RawInv
  <2> QED BY <2>1
<1>3. torn \in BOOLEAN
  BY DEF Inv, TypeOK
<1> QED BY <1>1, <1>2, <1>3 DEF Written

\* The file after an append, as the records that were acknowledged before it see it.
LEMMA WrittenFile ==
  ASSUME Inv, writer.pc = "write", NEW part \in { "none", "part", "whole" }, Written(part)
  PROVE  /\ raw' \in Seq(Line) \cup { Absent } /\ torn' \in BOOLEAN
         /\ raw' = Absent => raw = Absent
         /\ torn' => raw' # Absent /\ raw' # << >> /\ raw'[Len(raw')] = Broken
         /\ raw' # Absent => Sorted(raw') /\ UpTo(used.record, raw')
         /\ raw' # Absent /\ Sound(raw') => Holds(raw')
         /\ part = "whole" => /\ raw' # Absent
                              /\ Sound(raw') => \E k \in DOMAIN raw' : raw'[k] = writer.record
<1>1. /\ writer.record = used.record /\ writer.record \in 1..MaxRecords /\ writer.record \in Line
      /\ Broken \in Line
  BY DEF Inv, WriterInv, TypeOK, Writers, Used, Line
<1>2. Lines \in Seq(Line) /\ Sorted(Lines) /\ UpTo(used.record - 1, Lines)
  BY WrittenCases DEF Lines, Inv, RawInv, Sorted, UpTo, Limit
<1>3. Sound(Lines) => Holds(Lines)
  BY DEF Lines, Inv, RawInv, ArchiveInv, WriterInv, Holds
<1>4. \A k \in DOMAIN Lines : Lines[k] # Broken => Lines[k] \in Nat
  BY <1>2 DEF Line
<1>5. torn' \in BOOLEAN
  BY DEF Written, Inv, TypeOK
<1>6. CASE /\ raw' \in { raw, Lines } /\ (torn' => torn)
           /\ part = "whole" => torn /\ raw' = raw
  <2>1. torn' => torn
    BY <1>6
  <2>2. raw' # Absent => raw' = Lines
    BY <1>6 DEF Lines
  <2>3. raw' \in Seq(Line) \cup { Absent }
    BY <1>2, <2>2
  <2>4. torn => raw # Absent /\ raw # << >> /\ raw[Len(raw)] = Broken /\ raw' = raw /\ ~Sound(raw')
    BY <1>6 DEF Lines, Inv, RawInv, Sound, TypeOK
  <2>5. raw' # Absent => UpTo(used.record, raw')
    BY <1>2, <1>4, <2>2 DEF UpTo, Inv, TypeOK, Used
  <2>6. raw' = Absent => raw = Absent
    BY <1>2, <1>6, BrokenIsNoRecord
  <2> QED BY <1>2, <1>3, <1>5, <1>6, <2>1, <2>2, <2>3, <2>4, <2>5, <2>6
<1>7. ASSUME NEW x \in { Broken, writer.record }, ~torn, raw' = Append(Lines, x),
             torn' => x = Broken, part = "whole" => x = writer.record
      PROVE  /\ raw' \in Seq(Line) \cup { Absent } /\ raw' # Absent
             /\ torn' => raw' # Absent /\ raw' # << >> /\ raw'[Len(raw')] = Broken
             /\ raw' # Absent => Sorted(raw') /\ UpTo(used.record, raw')
             /\ raw' # Absent /\ Sound(raw') => Holds(raw')
             /\ part = "whole" => /\ raw' # Absent
                                  /\ Sound(raw') => \E k \in DOMAIN raw' : raw'[k] = writer.record
  <2>1. /\ raw' \in Seq(Line) /\ raw' # << >> /\ Len(raw') = Len(Lines) + 1
        /\ raw'[Len(Lines) + 1] = x /\ \A k \in DOMAIN Lines : raw'[k] = Lines[k]
        /\ DOMAIN raw' = DOMAIN Lines \cup { Len(Lines) + 1 }
    BY <1>1, <1>2, <1>7
  <2>2. raw' # Absent
    BY <2>1, BrokenIsNoRecord
  <2>3. Sorted(raw')
    BY <1>1, <1>2, <1>4, <2>1 DEF Sorted, UpTo
  <2>4. UpTo(used.record, raw')
    BY <1>1, <1>2, <1>4, <2>1 DEF UpTo
  <2>5. Sound(raw') => Holds(raw')
    BY <1>2, <1>3, <2>1 DEF Sound, Holds
  <2> QED BY <1>7, <2>1, <2>2, <2>3, <2>4, <2>5
<1> QED BY <1>1, <1>5, <1>6, <1>7, WrittenCases

----------------------------------------------------------------------------
(* The types and the locks.                                                *)

LEMMA TypeStep == ASSUME Inv, [Next]_vars PROVE TypeOK'
<1> USE BoundsAssumption DEF Inv, TypeOK
<1>1. CASE OpenSession
  <2>1. used.session + 1 \in 0..MaxSessions
    BY <1>1 DEF OpenSession, Used
  <2>2. used' \in Used
    BY <1>1, <2>1 DEF OpenSession, Used
  <2>3. writer' \in Writers
    BY <1>1 DEF OpenSession, Writers, Used
  <2> QED BY <1>1, <2>1, <2>2, <2>3 DEF OpenSession, rawFile, archiveFiles, Nobody
<1>2. CASE CloseSession
  <2>1. writer' \in Writers
    BY <1>2 DEF CloseSession, Writers, Used
  <2> QED BY <1>2, <2>1 DEF CloseSession, rawFile, archiveFiles, Nobody
<1>3. CASE BeginAppend
  <2>1. used.record + 1 \in 0..MaxRecords
    BY <1>3 DEF BeginAppend, Used
  <2>2. used' \in Used
    BY <1>3, <2>1 DEF BeginAppend, Used
  <2>3. writer' \in Writers
    BY <1>3 DEF BeginAppend, Writers, Used
  <2> QED BY <1>3, <2>1, <2>2, <2>3 DEF BeginAppend, rawFile, archiveFiles, Nobody
<1>4. CASE EndAppend
  <2>1. writer' \in Writers
    BY <1>4 DEF EndAppend, Writers, Used
  <2>2. acked' \in Seq(1..MaxRecords)
    BY <1>4 DEF EndAppend, Writers, WriterInv, Used
  <2> QED BY <1>4, <2>1, <2>2, WrittenFile DEF EndAppend, rawFile, archiveFiles, Nobody
<1>5. CASE AppendFails
  <2>1. used.fault + 1 \in 0..MaxFaults
    BY <1>5 DEF AppendFails, Used, Fault
  <2>2. used' \in Used
    BY <1>5, <2>1 DEF AppendFails, Used, Fault
  <2>3. writer' \in Writers
    BY <1>5 DEF AppendFails, Writers, Used
  <2> QED BY <1>5, <2>1, <2>2, <2>3, WrittenFile DEF AppendFails, rawFile, archiveFiles, Nobody,
     Fault
<1>6. CASE WriterDies
  <2>1. used.fault + 1 \in 0..MaxFaults
    BY <1>6 DEF WriterDies, Used, Fault
  <2>2. used' \in Used
    BY <1>6, <2>1 DEF WriterDies, Used, Fault
  <2>3. writer' \in Writers
    BY <1>6 DEF WriterDies, Writers, Used
  <2> QED BY <1>6, <2>1, <2>2, <2>3, WrittenFile DEF WriterDies, rawFile, archiveFiles, Nobody,
     Fault
<1>7. ASSUME NEW c \in Commands, BeginRun(c) PROVE TypeOK'
  <2>1. used.run + 1 \in 0..MaxRuns
    BY <1>7 DEF BeginRun, Used
  <2>2. used' \in Used
    BY <1>7, <2>1 DEF BeginRun, Used
  <2>3. run' \in Runs
    BY <1>7 DEF BeginRun, Runs, Step, Release, Commands
  <2> QED BY <1>7, <2>1, <2>2, <2>3 DEF BeginRun, rawFile, archiveFiles, Nobody
<1>8. CASE Blocked
  <2>1. run' \in Runs
    BY <1>8 DEF Blocked, Runs, Step, Release, Commands
  <2> QED BY <1>8, <2>1 DEF Blocked, rawFile, archiveFiles, Nobody, Release
<1>9. CASE OpenTemp
  <2>1. run' \in Runs
    BY <1>9 DEF OpenTemp, Runs, Step, Release, Commands
  <2>2. used.run \in 1..MaxRuns
    BY <1>9 DEF OpenTemp, LocksInv, Used
  <2> QED BY <1>9, <2>1, <2>2 DEF OpenTemp, rawFile, archiveFiles, Nobody
<1>10. CASE Verify
  <2>1. run' \in Runs
    BY <1>10 DEF Verify, Runs, Step, Release, Commands
  <2> QED BY <1>10, <2>1 DEF Verify, rawFile, archiveFiles, Nobody
<1>11. CASE Unparsable
  <2>1. run' \in Runs
    BY <1>11 DEF Unparsable, Runs, Step, Release, Commands
  <2> QED BY <1>11, <2>1 DEF Unparsable, rawFile, archiveFiles, Nobody, Release
<1>12. CASE PublishArchive
  <2>1. run' \in Runs
    BY <1>12 DEF PublishArchive, Runs, Step, Release, Commands
  <2> QED BY <1>12, <2>1 DEF PublishArchive, rawFile, archiveFiles, Nobody
<1>13. CASE PublishManifest
  <2>1. run' \in Runs
    BY <1>13 DEF PublishManifest, Runs, Step, Release, Commands
  <2>2. Len(raw) \in Nat
    BY <1>13 DEF PublishManifest, RunInv
  <2> QED BY <1>13, <2>1, <2>2 DEF PublishManifest, rawFile, archiveFiles, Nobody
<1>14. CASE UnlinkRaw
  <2>1. run' \in Runs
    BY <1>14 DEF UnlinkRaw, Runs, Step, Release, Commands
  <2> QED BY <1>14, <2>1 DEF UnlinkRaw, rawFile, archiveFiles, Nobody, Release
<1>15. CASE RunFails
  <2>1. used.fault + 1 \in 0..MaxFaults
    BY <1>15 DEF RunFails, Used, Fault
  <2>2. used' \in Used
    BY <1>15, <2>1 DEF RunFails, Used, Fault
  <2>3. run' \in Runs
    BY <1>15 DEF RunFails, Runs, Step, Release, Commands
  <2> QED BY <1>15, <2>1, <2>2, <2>3 DEF RunFails, rawFile, archiveFiles, Nobody, Release
<1>16. CASE RunDies
  <2>1. used.fault + 1 \in 0..MaxFaults
    BY <1>16 DEF RunDies, Used, Fault
  <2>2. used' \in Used
    BY <1>16, <2>1 DEF RunDies, Used, Fault
  <2>3. run' \in Runs
    BY <1>16 DEF RunDies, Runs, Step, Release, Commands
  <2> QED BY <1>16, <2>1, <2>2, <2>3 DEF RunDies, rawFile, archiveFiles, Nobody, Release
<1>17. CASE UNCHANGED vars
  BY <1>17 DEF vars
<1> QED BY <1>1, <1>2, <1>3, <1>4, <1>5, <1>6, <1>7, <1>8, <1>9, <1>10, <1>11, <1>12, <1>13,
   <1>14, <1>15, <1>16, <1>17 DEF Next, Writer, Run

LEMMA LocksStep == ASSUME Inv, [Next]_vars PROVE LocksInv'
<1> USE DEF Inv, TypeOK, LocksInv, Writers, Runs, Used, Nobody
<1>1. CASE OpenSession
  BY <1>1 DEF OpenSession
<1>2. CASE CloseSession
  BY <1>2 DEF CloseSession
<1>3. CASE BeginAppend
  BY <1>3 DEF BeginAppend, MayAppend
<1>4. CASE EndAppend
  BY <1>4 DEF EndAppend
<1>5. CASE AppendFails
  BY <1>5 DEF AppendFails, Fault
<1>6. CASE WriterDies
  BY <1>6 DEF WriterDies, Fault
<1>7. ASSUME NEW c \in Commands, BeginRun(c) PROVE LocksInv'
  BY <1>7 DEF BeginRun, Commands
<1>8. CASE Blocked
  BY <1>8 DEF Blocked, Release, Step
<1>9. CASE OpenTemp
  BY <1>9 DEF OpenTemp, Step, Residue
<1>10. CASE Verify
  BY <1>10 DEF Verify, Step
<1>11. CASE Unparsable
  BY <1>11 DEF Unparsable, Release, Step
<1>12. CASE PublishArchive
  BY <1>12 DEF PublishArchive, Step
<1>13. CASE PublishManifest
  BY <1>13 DEF PublishManifest, Step
<1>14. CASE UnlinkRaw
  BY <1>14 DEF UnlinkRaw, Release, UnlinkPoint, Step
<1>15. CASE RunFails
  BY <1>15 DEF RunFails, Release, Fault, Step
<1>16. CASE RunDies
  BY <1>16 DEF RunDies, Release, Fault, Step
<1>17. CASE UNCHANGED vars
  BY <1>17 DEF vars
<1> QED BY <1>1, <1>2, <1>3, <1>4, <1>5, <1>6, <1>7, <1>8, <1>9, <1>10, <1>11, <1>12, <1>13,
   <1>14, <1>15, <1>16, <1>17 DEF Next, Writer, Run

(***************************************************************************)
(* The collector's steps.                                                  *)
(***************************************************************************)

LEMMA UpToMore ==
  ASSUME NEW s \in Seq(Line), NEW n \in Nat, NEW m \in Nat, n <= m, UpTo(n, s)
  PROVE  UpTo(m, s)
<1>1. \A k \in DOMAIN s : s[k] # Broken => s[k] \in Nat
  BY DEF Line
<1> QED BY <1>1 DEF UpTo

LEMMA AckedAreLines ==
  ASSUME Inv
  PROVE  acked \in Seq(Line) /\ \A i \in DOMAIN acked : acked[i] \in 1..MaxRecords
<1>1. acked \in Seq(1..MaxRecords) /\ 1..MaxRecords \subseteq Line
  BY DEF Inv, TypeOK, Line
<1>2. \A i \in DOMAIN acked : acked[i] \in 1..MaxRecords
  BY <1>1, ElementOfSeq, LenProperties
<1> QED BY <1>1, <1>2, SeqMonotonic

LEMMA BeginAppendKeeps == ASSUME Inv, BeginAppend PROVE WriterInv' /\ RawInv' /\ ArchiveInv'
<1>1. Limit \in Nat /\ Limit' \in Nat /\ Limit <= Limit'
  BY DEF BeginAppend, MayAppend, Limit, Inv, TypeOK, Writers, Used
<1>2. UNCHANGED << raw, torn, archive, acked >>
  BY DEF BeginAppend, rawFile, archiveFiles
<1>3. WriterInv'
  <2>1. writer'.pc = "write" => writer'.record = used'.record /\ used'.record # 0 /\ archive' = Absent
    BY DEF BeginAppend, MayAppend, archiveFiles, Inv, TypeOK, Writers, Used
  <2>2. UpTo(Limit', acked)
    BY <1>1, AckedAreLines, UpToMore DEF Inv, WriterInv
  <2> QED BY <1>2, <2>1, <2>2 DEF Inv, WriterInv, Sorted, UpTo
<1>4. RawInv'
  <2>1. raw # Absent => UpTo(Limit', raw)
    BY <1>1, UpToMore DEF Inv, TypeOK, RawInv
  <2> QED BY <1>2, <2>1 DEF Inv, RawInv, Sorted, UpTo, Sound, Holds
<1>5. ArchiveInv'
  BY <1>2 DEF Inv, ArchiveInv, Sorted, Sound, Holds
<1> QED BY <1>3, <1>4, <1>5

LEMMA EndAppendKeeps == ASSUME Inv, EndAppend PROVE WriterInv' /\ RawInv' /\ ArchiveInv'
<1>1. /\ writer.pc = "write" /\ Written("whole") /\ writer.record = used.record /\ archive' = Absent
      /\ Limit = used.record - 1 /\ Limit' = used.record /\ writer'.pc = "open"
      /\ writer.record \in 1..MaxRecords
  BY DEF EndAppend, archiveFiles, Limit, Inv, WriterInv, TypeOK, Writers, Used
<1>2. /\ acked \in Seq(1..MaxRecords) /\ acked' = Append(acked, writer.record)
      /\ Len(acked') = Len(acked) + 1
      /\ DOMAIN acked' = DOMAIN acked \cup { Len(acked) + 1 }
      /\ acked'[Len(acked) + 1] = writer.record
      /\ \A i \in DOMAIN acked : acked'[i] = acked[i] /\ i < Len(acked) + 1
  BY <1>1 DEF EndAppend, Inv, TypeOK
<1>3. Sorted(acked') /\ UpTo(used.record, acked')
  <2>1. \A i \in DOMAIN acked : acked[i] \in Nat /\ acked[i] # Broken /\ acked[i] < writer.record
    <3>1. \A i \in DOMAIN acked : acked[i] \in 1..MaxRecords
      BY AckedAreLines
    <3>2. UpTo(used.record - 1, acked) /\ used.record \in Nat
      BY <1>1 DEF Inv, WriterInv
    <3> QED BY <1>1, <3>1, <3>2, BrokenIsNoRecord DEF UpTo
  <2> QED BY <1>1, <1>2, <2>1 DEF Inv, WriterInv, Sorted, UpTo
<1>4. WriterInv'
  BY <1>1, <1>3 DEF WriterInv, Sorted, UpTo, EndAppend
<1>5. /\ torn' => raw' # << >> /\ raw'[Len(raw')] = Broken
      /\ raw' # Absent /\ Sorted(raw') /\ UpTo(used.record, raw')
      /\ Sound(raw') => Holds(raw') /\ \E k \in DOMAIN raw' : raw'[k] = writer.record
  BY <1>1, WrittenFile
<1>6. RawInv'
  BY <1>1, <1>2, <1>5 DEF EndAppend, RawInv, Sorted, UpTo, Sound, Holds
<1>7. ArchiveInv'
  BY <1>1, <1>5 DEF ArchiveInv
<1> QED BY <1>4, <1>6, <1>7

LEMMA BrokenAppendKeeps ==
  ASSUME Inv, AppendFails \/ WriterDies
  PROVE  WriterInv' /\ RawInv' /\ ArchiveInv'
<1>1. /\ UNCHANGED << acked, archive >> /\ writer'.pc = "closed" /\ Limit' = used.record
      /\ used.record \in Nat /\ Limit \in Nat /\ Limit <= used.record
  BY DEF AppendFails, WriterDies, Fault, archiveFiles, Limit, Inv, TypeOK, WriterInv, Writers,
     Used
<1>2. WriterInv'
  <2>1. UpTo(used.record, acked)
    BY <1>1, AckedAreLines, UpToMore DEF Inv, WriterInv
  <2> QED BY <1>1, <2>1 DEF Inv, WriterInv, Sorted, UpTo
<1>3. CASE writer.pc = "write"
  <2>1. PICK part \in { "none", "part", "whole" } : Written(part)
    BY <1>3 DEF AppendFails, WriterDies
  <2>2. /\ raw' = Absent => raw = Absent
        /\ torn' => raw' # Absent /\ raw' # << >> /\ raw'[Len(raw')] = Broken
        /\ raw' # Absent => Sorted(raw') /\ UpTo(used.record, raw')
        /\ raw' # Absent /\ Sound(raw') => Holds(raw')
    BY <1>3, <2>1, WrittenFile
  <2>3. RawInv'
    BY <1>1, <2>2 DEF RawInv, Sorted, UpTo, Sound, Holds
  <2>4. ArchiveInv'
    BY <1>1, <1>3, <2>2 DEF Inv, WriterInv, ArchiveInv
  <2> QED BY <1>2, <2>3, <2>4
<1>4. CASE writer.pc # "write"
  <2>1. UNCHANGED << raw, torn >> /\ Limit' = Limit
    BY <1>1, <1>4 DEF AppendFails, WriterDies, rawFile, Limit
  <2> QED BY <1>1, <1>2, <2>1 DEF Inv, RawInv, ArchiveInv, Sorted, UpTo, Sound, Holds
<1> QED BY <1>3, <1>4

LEMMA WriterStep == ASSUME Inv, [Next]_vars PROVE WriterInv'
<1> USE DEF Inv, TypeOK, LocksInv, WriterInv, Writers, Runs, Used, Sorted, UpTo, Limit
<1>1. CASE OpenSession
  BY <1>1 DEF OpenSession, archiveFiles
<1>2. CASE CloseSession
  BY <1>2 DEF CloseSession, archiveFiles
<1>3. CASE BeginAppend
  BY <1>3, BeginAppendKeeps
<1>4. CASE EndAppend
  BY <1>4, EndAppendKeeps
<1>5. CASE AppendFails
  BY <1>5, BrokenAppendKeeps
<1>6. CASE WriterDies
  BY <1>6, BrokenAppendKeeps
<1>7. ASSUME NEW c \in Commands, BeginRun(c) PROVE WriterInv'
  BY <1>7 DEF BeginRun, Commands, archiveFiles
<1>8. CASE Blocked
  BY <1>8 DEF Blocked, Release, Step, archiveFiles
<1>9. CASE OpenTemp
  BY <1>9 DEF OpenTemp, Step, Residue, archiveFiles
<1>10. CASE Verify
  BY <1>10 DEF Verify, Step, archiveFiles
<1>11. CASE Unparsable
  BY <1>11 DEF Unparsable, Release, Step, archiveFiles
<1>12. CASE PublishArchive
  BY <1>12 DEF PublishArchive, Step, archiveFiles
<1>13. CASE PublishManifest
  BY <1>13 DEF PublishManifest, Step, archiveFiles
<1>14. CASE UnlinkRaw
  BY <1>14 DEF UnlinkRaw, Release, UnlinkPoint, Step, archiveFiles
<1>15. CASE RunFails
  BY <1>15 DEF RunFails, Release, Fault, Step, archiveFiles
<1>16. CASE RunDies
  BY <1>16 DEF RunDies, Release, Fault, Step, archiveFiles
<1>17. CASE UNCHANGED vars
  BY <1>17 DEF vars
<1> QED BY <1>1, <1>2, <1>3, <1>4, <1>5, <1>6, <1>7, <1>8, <1>9, <1>10, <1>11, <1>12, <1>13,
   <1>14, <1>15, <1>16, <1>17 DEF Next, Writer, Run

LEMMA RunStep == ASSUME Inv, [Next]_vars PROVE RunInv'
<1> USE DEF Inv, TypeOK, LocksInv, RunInv, Runs, Used, Sound, rawFile, archiveFiles
<1>1. CASE OpenSession
  BY <1>1 DEF OpenSession
<1>2. CASE CloseSession
  BY <1>2 DEF CloseSession
<1>3. CASE BeginAppend
  BY <1>3 DEF BeginAppend, MayAppend
<1>4. CASE EndAppend
  BY <1>4 DEF EndAppend
<1>5. CASE AppendFails
  BY <1>5 DEF AppendFails, Fault
<1>6. CASE WriterDies
  BY <1>6 DEF WriterDies, Fault
<1>7. ASSUME NEW c \in Commands, BeginRun(c) PROVE RunInv'
  BY <1>7 DEF BeginRun, Commands
<1>8. CASE Blocked
  BY <1>8 DEF Blocked, Release, Step
<1>9. CASE OpenTemp
  BY <1>9 DEF OpenTemp, Step, Residue
<1>10. CASE Verify
  BY <1>10 DEF Verify, Step, Parses
<1>11. CASE Unparsable
  BY <1>11 DEF Unparsable, Release, Step
<1>12. CASE PublishArchive
  BY <1>12 DEF PublishArchive, Step
<1>13. CASE PublishManifest
  BY <1>13 DEF PublishManifest, Step
<1>14. CASE UnlinkRaw
  BY <1>14 DEF UnlinkRaw, Release, UnlinkPoint, Step
<1>15. CASE RunFails
  BY <1>15 DEF RunFails, Release, Fault, Step
<1>16. CASE RunDies
  BY <1>16 DEF RunDies, Release, Fault, Step
<1>17. CASE UNCHANGED vars
  BY <1>17 DEF vars
<1> QED BY <1>1, <1>2, <1>3, <1>4, <1>5, <1>6, <1>7, <1>8, <1>9, <1>10, <1>11, <1>12, <1>13,
   <1>14, <1>15, <1>16, <1>17 DEF Next, Writer, Run

LEMMA RawStep == ASSUME Inv, [Next]_vars PROVE RawInv'
<1> USE DEF Inv, TypeOK, LocksInv, WriterInv, RawInv, Writers, Used, Limit, Sound, Holds,
   rawFile
<1>1. CASE OpenSession
  BY <1>1 DEF OpenSession, Sorted, UpTo
<1>2. CASE CloseSession
  BY <1>2 DEF CloseSession, Sorted, UpTo
<1>3. CASE BeginAppend
  BY <1>3, BeginAppendKeeps
<1>4. CASE EndAppend
  BY <1>4, EndAppendKeeps
<1>5. CASE AppendFails
  BY <1>5, BrokenAppendKeeps
<1>6. CASE WriterDies
  BY <1>6, BrokenAppendKeeps
<1>7. ASSUME NEW c \in Commands, BeginRun(c) PROVE RawInv'
  BY <1>7 DEF BeginRun, Commands, Sorted, UpTo
<1>8. CASE Blocked
  BY <1>8 DEF Blocked, Release, Step, Sorted, UpTo
<1>9. CASE OpenTemp
  BY <1>9 DEF OpenTemp, Step, Residue, Sorted, UpTo
<1>10. CASE Verify
  BY <1>10 DEF Verify, Step, Sorted, UpTo
<1>11. CASE Unparsable
  BY <1>11 DEF Unparsable, Release, Step, Sorted, UpTo
<1>12. CASE PublishArchive
  BY <1>12 DEF PublishArchive, Step, Sorted, UpTo
<1>13. CASE PublishManifest
  BY <1>13 DEF PublishManifest, Step, Sorted, UpTo
<1>14. CASE UnlinkRaw
  BY <1>14 DEF UnlinkRaw, Release, UnlinkPoint, Step, Sorted, UpTo
<1>15. CASE RunFails
  BY <1>15 DEF RunFails, Release, Fault, Step, Sorted, UpTo
<1>16. CASE RunDies
  BY <1>16 DEF RunDies, Release, Fault, Step, Sorted, UpTo
<1>17. CASE UNCHANGED vars
  BY <1>17 DEF vars, Sorted, UpTo
<1> QED BY <1>1, <1>2, <1>3, <1>4, <1>5, <1>6, <1>7, <1>8, <1>9, <1>10, <1>11, <1>12, <1>13,
   <1>14, <1>15, <1>16, <1>17 DEF Next, Writer, Run

LEMMA ArchiveStep == ASSUME Inv, [Next]_vars PROVE ArchiveInv'
<1> USE DEF Inv, TypeOK, LocksInv, WriterInv, RunInv, ArchiveInv, Sorted, Sound, Holds, rawFile,
            archiveFiles
<1>1. CASE OpenSession
  BY <1>1 DEF OpenSession
<1>2. CASE CloseSession
  BY <1>2 DEF CloseSession
<1>3. CASE BeginAppend
  BY <1>3, BeginAppendKeeps
<1>4. CASE EndAppend
  BY <1>4, EndAppendKeeps
<1>5. CASE AppendFails
  BY <1>5, BrokenAppendKeeps
<1>6. CASE WriterDies
  BY <1>6, BrokenAppendKeeps
<1>7. ASSUME NEW c \in Commands, BeginRun(c) PROVE ArchiveInv'
  BY <1>7 DEF BeginRun, Commands
<1>8. CASE Blocked
  BY <1>8 DEF Blocked, Release, Step
<1>9. CASE OpenTemp
  BY <1>9 DEF OpenTemp, Step, Residue
<1>10. CASE Verify
  BY <1>10 DEF Verify, Step
<1>11. CASE Unparsable
  BY <1>11 DEF Unparsable, Release, Step
<1>12. CASE PublishArchive
  BY <1>12 DEF PublishArchive, Step, RawInv
<1>13. CASE PublishManifest
  BY <1>13 DEF PublishManifest, Step
<1>14. CASE UnlinkRaw
  BY <1>14 DEF UnlinkRaw, Release, UnlinkPoint, Step
<1>15. CASE RunFails
  BY <1>15 DEF RunFails, Release, Fault, Step
<1>16. CASE RunDies
  BY <1>16 DEF RunDies, Release, Fault, Step
<1>17. CASE UNCHANGED vars
  BY <1>17 DEF vars
<1> QED BY <1>1, <1>2, <1>3, <1>4, <1>5, <1>6, <1>7, <1>8, <1>9, <1>10, <1>11, <1>12, <1>13,
   <1>14, <1>15, <1>16, <1>17 DEF Next, Writer, Run

----------------------------------------------------------------------------
(* The theorems.                                                           *)

LEMMA Inits == Init => Inv
<1> SUFFICES ASSUME Init PROVE Inv
  OBVIOUS
<1>1. writer \in Writers /\ run \in Runs /\ used \in Used
  BY BoundsAssumption DEF Init, Writers, Runs, Commands, Used
<1>2. TypeOK
  <2>1. acked \in Seq(1..MaxRecords)
    BY EmptySeq DEF Init
  <2> QED BY <1>1, <2>1 DEF Init, TypeOK, Nobody
<1>3. LocksInv /\ RunInv
  BY DEF Init, LocksInv, RunInv, Nobody
<1>4. WriterInv /\ RawInv /\ ArchiveInv
  BY DEF Init, WriterInv, RawInv, ArchiveInv, Sorted, UpTo
<1> QED BY <1>2, <1>3, <1>4 DEF Inv

LEMMA Invariance == Spec => []Inv
<1>1. Inv /\ [Next]_vars => Inv'
  BY TypeStep, LocksStep, WriterStep, RawStep, ArchiveStep, RunStep DEF Inv
<1> QED BY <1>1, Inits, PTL DEF Spec

\* The variables keep their types.
THEOREM TypesHold == Spec => []TypeOK
<1>1. Inv => TypeOK
  BY DEF Inv
<1> QED BY <1>1, Invariance, PTL

\* A file that has every acknowledged record, and its records in order, has each
\* of them once.
LEMMA PlacesInOrder ==
  ASSUME Inv, NEW s \in Seq(Line), Sorted(s), Sound(s), Holds(s)
  PROVE  \E place \in [ DOMAIN acked -> DOMAIN s ] :
            /\ \A i \in DOMAIN acked : s[place[i]] = acked[i]
            /\ \A i, j \in DOMAIN acked : i < j => place[i] < place[j]
            /\ \A k \in DOMAIN s, i \in DOMAIN acked :
                 s[k] = acked[i] => \E j \in DOMAIN acked : place[j] = k
<1> DEFINE place == [ i \in DOMAIN acked |-> CHOOSE k \in DOMAIN s : s[k] = acked[i] ]
<1>1. \A i \in DOMAIN acked : place[i] \in DOMAIN s /\ s[place[i]] = acked[i]
  BY DEF Holds
<1>2. place \in [ DOMAIN acked -> DOMAIN s ]
  BY <1>1
<1>3. DOMAIN s \subseteq Nat /\ DOMAIN acked \subseteq Nat
  BY AckedAreLines
<1>4. \A k \in DOMAIN s : s[k] \in Nat
  <2>1. \A k \in DOMAIN s : s[k] \in Line
    BY ElementOfSeq, LenProperties
  <2> QED BY <2>1 DEF Line, Sound
<1>5. \A i, j \in DOMAIN acked : i < j => acked[i] < acked[j]
  BY AckedAreLines, BrokenIsNoRecord DEF Inv, WriterInv, Sorted
<1> HIDE DEF place
<1>6. ASSUME NEW i \in DOMAIN acked, NEW j \in DOMAIN acked, i < j
      PROVE  place[i] < place[j]
  <2>1. s[place[i]] < s[place[j]] /\ s[place[i]] \in Nat /\ s[place[j]] \in Nat
    BY <1>1, <1>4, <1>5, <1>6
  <2>2. place[j] < place[i] => s[place[j]] < s[place[i]]
    BY <1>1 DEF Sorted, Sound
  <2>3. place[i] \in Nat /\ place[j] \in Nat /\ place[i] # place[j]
    BY <1>1, <1>3, <2>1
  <2> QED BY <2>1, <2>2, <2>3
<1>7. ASSUME NEW k \in DOMAIN s, NEW i \in DOMAIN acked, s[k] = acked[i]
      PROVE  place[i] = k
  <2>1. s[place[i]] = s[k] /\ s[k] \in Nat /\ place[i] \in Nat /\ k \in Nat
    BY <1>1, <1>3, <1>4, <1>7
  <2>2. /\ place[i] < k => s[place[i]] < s[k]
        /\ k < place[i] => s[k] < s[place[i]]
    BY <1>1 DEF Sorted, Sound
  <2> QED BY <2>1, <2>2
<1> QED BY <1>1, <1>2, <1>6, <1>7

\* audit_intraday_raw: unless it fails, every acknowledged record is read back once
\* and in its place, whatever died, tore a line or compressed on the way.
THEOREM AuditTellsTheTruth == Spec => []AuditIsHonest
<1>1. ASSUME Inv, Status # "FAIL"
      PROVE  Content \in Seq(Line) /\ Sorted(Content) /\ Sound(Content) /\ Holds(Content)
  <2>1. CASE raw # Absent
    <3>1. Parses /\ Content = raw
      BY <1>1, <2>1 DEF Status, Content
    <3>2. Sound(raw)
      BY <3>1 DEF Parses, Sound
    <3> QED BY <1>1, <2>1, <3>1, <3>2 DEF Inv, TypeOK, RawInv
  <2>2. CASE raw = Absent /\ archive # Absent
    BY <1>1, <2>2 DEF Content, Inv, TypeOK, ArchiveInv
  <2>3. CASE raw = Absent /\ archive = Absent
    <3>1. Content = << >> /\ acked = << >>
      BY <1>1, <2>3 DEF Content, Inv, ArchiveInv
    <3> QED BY <3>1 DEF Sorted, Sound, Holds
  <2> QED BY <2>1, <2>2, <2>3
<1>2. Inv => AuditIsHonest
  BY <1>1, PlacesInOrder DEF AuditIsHonest
<1> QED BY <1>2, Invariance, PTL

\* compress_raw: what is archived is changed by no later step of anybody.
THEOREM ArchivesAreSealed == Spec => ArchiveSeals
<1> DEFINE Sealed == /\ archive # Absent => archive' = archive /\ raw' \in { raw, Absent }
                     /\ (raw # Absent /\ raw' = Absent) => archive = raw /\ manifest = Len(raw)
<1>1. ASSUME Inv, Next PROVE Sealed
  <2>1. CASE OpenSession
    BY <1>1, <2>1 DEF OpenSession, Inv, LocksInv, WriterInv, RunInv, ArchiveInv, rawFile,
       archiveFiles
  <2>2. CASE CloseSession
    BY <1>1, <2>2 DEF CloseSession, Inv, LocksInv, WriterInv, RunInv, ArchiveInv, rawFile,
       archiveFiles
  <2>3. CASE BeginAppend
    BY <1>1, <2>3 DEF BeginAppend, MayAppend, Inv, LocksInv, WriterInv, RunInv, ArchiveInv,
       rawFile, archiveFiles
  <2>4. CASE EndAppend
    BY <1>1, <2>4, WrittenFile DEF EndAppend, Inv, LocksInv, WriterInv, RunInv, ArchiveInv,
       rawFile, archiveFiles
  <2>5. CASE AppendFails
    BY <1>1, <2>5, WrittenFile DEF AppendFails, Fault, Inv, LocksInv, WriterInv, RunInv,
       ArchiveInv, rawFile, archiveFiles
  <2>6. CASE WriterDies
    BY <1>1, <2>6, WrittenFile DEF WriterDies, Fault, Inv, LocksInv, WriterInv, RunInv,
       ArchiveInv, rawFile, archiveFiles
  <2>7. ASSUME NEW c \in Commands, BeginRun(c) PROVE Sealed
    BY <1>1, <2>7 DEF BeginRun, Commands, Inv, LocksInv, WriterInv, RunInv, ArchiveInv, rawFile,
       archiveFiles
  <2>8. CASE Blocked
    BY <1>1, <2>8 DEF Blocked, Release, Step, Inv, LocksInv, WriterInv, RunInv, ArchiveInv,
       rawFile, archiveFiles
  <2>9. CASE OpenTemp
    BY <1>1, <2>9 DEF OpenTemp, Step, Residue, Inv, LocksInv, WriterInv, RunInv, ArchiveInv,
       rawFile, archiveFiles
  <2>10. CASE Verify
    BY <1>1, <2>10 DEF Verify, Step, Inv, LocksInv, WriterInv, RunInv, ArchiveInv, rawFile,
       archiveFiles
  <2>11. CASE Unparsable
    BY <1>1, <2>11 DEF Unparsable, Release, Step, Inv, LocksInv, WriterInv, RunInv, ArchiveInv,
       rawFile, archiveFiles
  <2>12. CASE PublishArchive
    BY <1>1, <2>12 DEF PublishArchive, Step, Inv, LocksInv, WriterInv, RunInv, ArchiveInv,
       rawFile, archiveFiles
  <2>13. CASE PublishManifest
    BY <1>1, <2>13 DEF PublishManifest, Step, Inv, LocksInv, WriterInv, RunInv, ArchiveInv,
       rawFile, archiveFiles
  <2>14. CASE UnlinkRaw
    BY <1>1, <2>14 DEF UnlinkRaw, Release, UnlinkPoint, Step, Inv, LocksInv, WriterInv, RunInv,
       ArchiveInv, rawFile, archiveFiles
  <2>15. CASE RunFails
    BY <1>1, <2>15 DEF RunFails, Release, Fault, Step, Inv, LocksInv, WriterInv, RunInv,
       ArchiveInv, rawFile, archiveFiles
  <2>16. CASE RunDies
    BY <1>1, <2>16 DEF RunDies, Release, Fault, Step, Inv, LocksInv, WriterInv, RunInv,
       ArchiveInv, rawFile, archiveFiles
  <2> QED BY <1>1, <2>1, <2>2, <2>3, <2>4, <2>5, <2>6, <2>7, <2>8, <2>9, <2>10, <2>11, <2>12,
     <2>13, <2>14, <2>15, <2>16 DEF Next, Writer, Run
<1>2. Inv /\ [Next]_vars => [Sealed]_vars
  BY <1>1
<1> QED BY <1>2, Invariance, PTL DEF Spec, ArchiveSeals

\* Only the run that wrote a temporary file removes it or makes it an archive.
THEOREM ResidueStays == Spec => ResidueKept
<1> DEFINE Kept == temp \notin { Absent, used.run } => temp' = temp
<1>1. ASSUME Inv, Next PROVE Kept
  <2>1. CASE OpenSession
    BY <1>1, <2>1 DEF OpenSession, Inv, RunInv, archiveFiles
  <2>2. CASE CloseSession
    BY <1>1, <2>2 DEF CloseSession, Inv, RunInv, archiveFiles
  <2>3. CASE BeginAppend
    BY <1>1, <2>3 DEF BeginAppend, MayAppend, Inv, RunInv, archiveFiles
  <2>4. CASE EndAppend
    BY <1>1, <2>4 DEF EndAppend, Inv, RunInv, archiveFiles
  <2>5. CASE AppendFails
    BY <1>1, <2>5 DEF AppendFails, Fault, Inv, RunInv, archiveFiles
  <2>6. CASE WriterDies
    BY <1>1, <2>6 DEF WriterDies, Fault, Inv, RunInv, archiveFiles
  <2>7. ASSUME NEW c \in Commands, BeginRun(c) PROVE Kept
    BY <1>1, <2>7 DEF BeginRun, Commands, Inv, RunInv, archiveFiles
  <2>8. CASE Blocked
    BY <1>1, <2>8 DEF Blocked, Release, Step, Inv, RunInv, archiveFiles
  <2>9. CASE OpenTemp
    BY <1>1, <2>9 DEF OpenTemp, Step, Residue, Inv, RunInv, archiveFiles
  <2>10. CASE Verify
    BY <1>1, <2>10 DEF Verify, Step, Inv, RunInv, archiveFiles
  <2>11. CASE Unparsable
    BY <1>1, <2>11 DEF Unparsable, Release, Step, Inv, RunInv, archiveFiles
  <2>12. CASE PublishArchive
    BY <1>1, <2>12 DEF PublishArchive, Step, Inv, RunInv, archiveFiles
  <2>13. CASE PublishManifest
    BY <1>1, <2>13 DEF PublishManifest, Step, Inv, RunInv, archiveFiles
  <2>14. CASE UnlinkRaw
    BY <1>1, <2>14 DEF UnlinkRaw, Release, UnlinkPoint, Step, Inv, RunInv, archiveFiles
  <2>15. CASE RunFails
    BY <1>1, <2>15 DEF RunFails, Release, Fault, Step, Inv, RunInv, archiveFiles
  <2>16. CASE RunDies
    BY <1>1, <2>16 DEF RunDies, Release, Fault, Step, Inv, RunInv, archiveFiles
  <2> QED BY <1>1, <2>1, <2>2, <2>3, <2>4, <2>5, <2>6, <2>7, <2>8, <2>9, <2>10, <2>11, <2>12,
     <2>13, <2>14, <2>15, <2>16 DEF Next, Writer, Run
<1>2. Inv /\ [Next]_vars => [Kept]_vars
  BY <1>1
<1> QED BY <1>2, Invariance, PTL DEF Spec, ResidueKept
=============================================================================
