SPECIFICATION Spec
CONSTANTS
  Messages = {m1, m2, m3}
  MaxSteps = 2
PROPERTY DisposedStaysParked
