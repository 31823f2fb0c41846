SPECIFICATION Spec
CONSTANTS
  Alphabet <- KeywordStarAlphabet
  UpdateDeleteLimit = FALSE
  MaxDepth = 2
  MaxRounds = 50
  MaxStack = 40
INVARIANTS
  SameVerdict
