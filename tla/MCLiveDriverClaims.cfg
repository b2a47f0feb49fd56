SPECIFICATION Spec
CONSTANTS
  Messages = {m1, m2}
  MaxSteps = 2
PROPERTY LiveDriverClaims
