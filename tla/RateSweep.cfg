SPECIFICATION Spec
CONSTANTS
  Client = {c1, c2}
  Cost = 3
  Rate = 1
  Burst = 2
  Second = 2
  SweepThreshold = 1
  SweepIdle = 1
  MaxTime = 6
SYMMETRY Clients

PROPERTY SweepForgetsIdle
