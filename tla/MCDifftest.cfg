SPECIFICATION Spec
CONSTANTS
  Procs = {0, 1, 2}
  Runners = {1, 2}
  Contents <- MCContents
  Kinds <- MCKinds
  Plans <- MCPlans
INVARIANTS
  NoFalseAlarm
  NothingMissed
  ReportAddsUp
  BuiltOnce
PROPERTIES
  ProgramEnds
