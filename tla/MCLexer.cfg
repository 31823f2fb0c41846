SPECIFICATION Spec
CONSTANTS
  IndexRange = 256
  Sources <- MCSources
  TokenKinds <- MCKinds
  Scan <- scan
  NextToken <- MCGetToken
INVARIANTS
  TypeOK
  TokensTile
  ResolvedAsStreamed
  CutsAtSemicolons
PROPERTIES
  ReadsAsSQLite
