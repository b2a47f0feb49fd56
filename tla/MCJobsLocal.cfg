SPECIFICATION FairSpec
CONSTANTS
  Jobs = {j1, j2}
  Owners = {o1}
  Waiters = {w1, w2}
  Limit = 1
INVARIANTS NoticeAccounted
PROPERTIES TeardownEnds
CHECK_DEADLOCK FALSE
