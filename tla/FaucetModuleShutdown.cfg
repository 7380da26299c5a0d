\* A shutdown that overlaps the poll of a drop.
CONSTANTS
  a = a
  b = b
  Caller = {a, b}
  Key = {k}
  Calls <- Polling
  ConfigureAlone = TRUE
  MaxJobs = 2
  MaxReads = 1
  MaxClients = 2
  MaxRetained = 2
SPECIFICATION Spec
INVARIANTS
  CallersHoldClient
