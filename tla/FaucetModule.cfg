\* Two threads, two jobs: everything but configure may overlap.
CONSTANTS
  a = a
  b = b
  Caller = {a, b}
  Key = {k}
  Calls <- TwoCallers
  ConfigureAlone = TRUE
  MaxJobs = 2
  MaxReads = 1
  MaxClients = 2
  MaxRetained = 2
SPECIFICATION Spec
INVARIANTS
  WorkersHoldClient
  OneDropPerKey
  SlotHasOneHolder
  NoThreadIsLost
  AcknowledgedIsRecorded
PROPERTIES
  SettledIsFinal
  KeepsPromise
