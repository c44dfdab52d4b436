\* Queries sorted by two attributes.
SPECIFICATION Spec
CONSTANTS
  c1 = c1
  c2 = c2
  c3 = c3
  NaN = NaN
  Class <- Classes
  Variable <- Variables
  attribute <- AttributeOf
  Literal <- NoLiterals
  Rank <- RankOf
  Number <- NumberOf
  Function <- Functions
  Arity <- ArityOf
  MaxTokens = 3
  MaxKeys = 2
  MixedKeys = FALSE
INVARIANTS AnswerExact
CHECK_DEADLOCK FALSE
