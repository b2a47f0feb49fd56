SPECIFICATION Spec
CONSTANTS
  Asks = {a1, a2, a3}
  Installs = {a1, a2}
  AutoApprove = TRUE
  MaxSwitches = 1
INVARIANTS
  NeverRejects
\* every question answered, nothing left to do
CHECK_DEADLOCK FALSE
