SPECIFICATION Spec
CONSTANTS
  Alphabet <- TermAlphabet
  UpdateDeleteLimit = FALSE
  MaxDepth = 2
  MaxRounds = 50
  MaxStack = 40
INVARIANTS
  SameVerdict
  SameTree
