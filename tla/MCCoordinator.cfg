SPECIFICATION Spec
CONSTANTS
  Callers = {p1, p2}
  Lives = 2
  MaxLog = 2
  MaxCalls = 2
  MaxUpsets = 1
SYMMETRY CallerSymmetry
CHECK_DEADLOCK FALSE
INVARIANTS
  OwnerExact
  ReservationExact
  StoredWellFormed
  AnswersCover
