\* Every query of a few tokens over three classes, sorted by one key at most.
SPECIFICATION Spec
CONSTANTS
  c1 = c1
  c2 = c2
  c3 = c3
  NaN = NaN
  Class <- Classes
  Variable <- Variables
  attribute <- AttributeOf
  Literal <- Literals
  Rank <- RankOf
  Number <- NumberOf
  Function <- Functions
  Arity <- ArityOf
  MaxTokens = 5
  MaxKeys = 1
  MixedKeys = FALSE
INVARIANTS MeansWhatItSays AnswerExact
CHECK_DEADLOCK FALSE
