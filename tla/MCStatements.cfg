SPECIFICATION Spec
CONSTANTS
  Alphabet <- StatementAlphabet
  UpdateDeleteLimit = TRUE
  MaxDepth = 1
  MaxRounds = 50
  MaxStack = 22
INVARIANTS
  NeverEndless
  SameVerdict
  SameTree
