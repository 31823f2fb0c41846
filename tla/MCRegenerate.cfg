SPECIFICATION Spec
CONSTANTS
  Procs = {0}
  Runners = {1, 2}
  Contents <- MCContents
  Kinds <- MCKinds
  Scripts <- MCScripts
  Releases <- MCReleases
  Unrepresentable = {"collides"}
  OldCase = "old"
  JobCounts = {0, 2}
  MaxRuns = 2
  MaxExits = 1
INVARIANTS
  TypeOK
  CorpusIsTrue
  TrustedIffPassed
  RunnersAccounted
  EveryScriptRegenerated
PROPERTIES
  RunsEnd
