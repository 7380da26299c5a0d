\* Two claims that share the worker and the account, with one fault.
CONSTANTS
  Request = {1, 2}
  Recipient = {alice}
  Ip = {ip}
  Handler = {h}
  Hash = {x1, x2}
  Prize = 1
  Reserves = {1}
  Funds = 3
  PerRecipient = 2
  PerIp = 2
  PerHour = 2
  PerDay = 2
  Hour = 0
  Day = 1
  MaxTime = 0
  Second = 1
  MaxAttempts = 1
  MaxBalance = 0
  MaxFaults = 1
SPECIFICATION FairSpec
INVARIANTS
  OneAwaitsInclusion
  NoStrandedClaim
  FundsCoverTransfers
PROPERTIES
  ClaimsSettle
  AwakeWorkerSettlesAll
