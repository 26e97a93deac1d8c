SPECIFICATION Spec
CONSTANTS
  s1 = s1
  s2 = s2
  s3 = s3
  r1 = r1
  r2 = r2
  liquid = liquid
  fixedlist = fixedlist
  None = None
  Open = Open
  Symbols = {s1, s2, s3}
  MonthOf <- MCMonthOf
  Order <- MCOrder
  Versions = {liquid, fixedlist}
  DiagnosticNames = {fixedlist}
  Fixed = {s1, s2}
  Windows <- MCWindows
  Table <- MCTable
  TopN = 1
  Lookback = 2
  MinSessions = 1
  MaxBuilds = 2
  MaxSeeds = 1
  Researchers = {r1, r2}
  Configs <- MCConfigs
  FamilyOf <- MCFamilyOf
  Active = {"breakout", "shadow"}
  Qualities = {1, 2}
  MaxRuns = 2
SYMMETRY Alike
INVARIANTS
  PointInTime
  VerdictsStand
  PassIsPointInTime
PROPERTIES
  TrialsNeverUnderstated
CHECK_DEADLOCK FALSE
