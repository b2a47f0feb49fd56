SPECIFICATION Spec
CONSTANTS
  MaxRounds = 1
  MaxOps = 3
  MaxPrompts = 2
  MaxUpsets = 1
INVARIANT
  ReplayAccepts
\* the goal done and everybody's calls made
CHECK_DEADLOCK FALSE
