SPECIFICATION FairSpec
CONSTANTS
  Tasks = {t1, t2}
  MaxGen = 2
  MaxRetries = 1
  Limit = 1
  Nil = Nil
INVARIANTS
  AnswerCanCome
  FailedMeansGone
  FlagIsCurrent
PROPERTY
  EveryCallReturns
