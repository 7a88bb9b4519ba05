SPECIFICATION FairSpec
CONSTANTS
  Proc = {p1, p2}
  TTY_BUF_SIZE = 4
  video_num_columns = 3
  Message <- Strings
  Key <- Keys
  MaxBacklog = 0
  AfterRace = FALSE
INVARIANTS TypeOK WrittenIsShown EchoIsTheLine
PROPERTIES WriteReturns
CHECK_DEADLOCK FALSE
