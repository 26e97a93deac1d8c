SPECIFICATION Spec
CONSTANTS
  Broken = Broken
  Absent = Absent
  MaxRecords = 4
  MaxSessions = 3
  MaxRuns = 3
  MaxFaults = 3
INVARIANTS
  AuditIsHonest
PROPERTIES
  ArchiveSeals
  ResidueKept
CHECK_DEADLOCK FALSE
