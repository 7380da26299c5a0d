\* Three claims for one account by two racing calls, across the end of a window; a second is
\* two ticks.
CONSTANTS
  Request = {1, 2, 3}
  Recipient = {alice}
  Ip = {ip}
  Handler = {h1, h2}
  Hash = {}
  Prize = 1
  Reserves = {1}
  Funds = 3
  PerRecipient = 2
  PerIp = 2
  PerHour = 1
  PerDay = 2
  Hour = 0
  Day = 3
  MaxTime = 1
  Second = 2
  MaxAttempts = 1
  MaxBalance = 0
  MaxFaults = 0
SPECIFICATION Spec
SYMMETRY Interchangeable
INVARIANTS
  CapsHoldUpToRaces
  AdviceIsExact
