\* Two presses, one switch of the network and two faults.
CONSTANTS
  Network = {legacy, v03}
  Default = legacy
  Account = {alice}
  Mistyped = mistyped
  MaxPresses = 2
  MaxSwitches = 1
  MaxFaults = 2
  MaxPipe = 2
SPECIFICATION FairSpec
CHECK_DEADLOCK FALSE
INVARIANTS
  OneJobPerPress
  RunsWhereShown
  PanelIsOfOwnPress
  UnprovenIsRefused
PROPERTIES
  EveryPressEnds
  KeepsPromise
