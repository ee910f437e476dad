SPECIFICATION FairSpec
CONSTANTS
  None = None
  Blocks <- Both
  MaxCalls = 4
INVARIANTS TypeOK AstfInv AnswerInv SubscriberSurvives
PROPERTIES StartIsTrue FailIsTrue StopIsTrue ClearIsTrue WaitIsTrue CallsEnd
CHECK_DEADLOCK FALSE
