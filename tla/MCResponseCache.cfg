CONSTANTS
  Entity = {e1, e2}
  Value = {a, b}
  FirstValue = a
  Unread = Unread
  NoEntry = NoEntry
  Nobody = Nobody
  Client = {r1, r2}
  MaxRev = 2
SPECIFICATION FairSpec
INVARIANT AnswersAreCurrent
PROPERTY EveryoneIsAnswered
CHECK_DEADLOCK FALSE
