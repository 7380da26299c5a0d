\* One press, and one answer of the core that is lost.
CONSTANTS
  Network = {legacy}
  Default = legacy
  Account = {alice}
  Mistyped = mistyped
  MaxPresses = 1
  MaxSwitches = 0
  MaxFaults = 1
  MaxPipe = 2
SPECIFICATION Spec
CHECK_DEADLOCK FALSE
INVARIANTS
  FailureIsOver
