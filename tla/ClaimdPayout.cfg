\* One request id asked for by two racing calls, through every outcome of a send, with two faults.
CONSTANTS
  Request = {1}
  Recipient = {alice, bob}
  Ip = {ip}
  Handler = {h1, h2}
  Hash = {x1, x2}
  Prize = 1
  Reserves = {0, 1}
  Funds = 2
  PerRecipient = 2
  PerIp = 2
  PerHour = 2
  PerDay = 2
  Hour = 0
  Day = 1
  MaxTime = 0
  Second = 1
  MaxAttempts = 2
  MaxBalance = 1
  MaxFaults = 2
SPECIFICATION Spec
SYMMETRY Interchangeable
INVARIANTS
  PaidOnceUnlessLost
  IncludedIsProven
  FailureIsHonest
  AnswersOwnRow
PROPERTIES
  NeverResigned
  KeepsPromise
