SPECIFICATION ParamSpec
CONSTANTS
  Streams <- MCStreams
  MaxDepth = 1
  MaxLen = 4
  MaxParams = 3
  Markers <- MCMarkers
  Variables <- MCVariables
  IntMax = 3
INVARIANTS
  TypeOK
  NeverPastIllegal
  DeferredIsCurrent
  DeferredIsReported
  ErrorAtFrontier
  StatementsTile
  OneNumberPerName
  OnePastTheHighest
PROPERTY
  ImplementsRunParser
