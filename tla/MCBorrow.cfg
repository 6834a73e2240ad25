SPECIFICATION BSpec
CONSTANTS
  Task = {t1, t2, t3}
  NoTask = NoTask
  MaxHeld = 2
INVARIANTS
  BooksBalance
  ExclusionUnlessOvertaken
  NoIdleStall
PROPERTIES
  TakenBack
CHECK_DEADLOCK FALSE
