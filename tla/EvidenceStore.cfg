SPECIFICATION Spec
CONSTANTS
  Drivers = {d1, d2}
  Stops = {s1}
  Reviews = {r1}
  Missing = missing
  Torn = torn
  Squatted = {2}
  AllocationAttempts = 2
  MaxIterations = 2
  MaxSessions = 2
  MaxCommands = 1
  MaxClaims = 2
CHECK_DEADLOCK FALSE
SYMMETRY Interchangeable
INVARIANTS
  
  StopIsHeeded
  AcceptedWasAccepted

  
