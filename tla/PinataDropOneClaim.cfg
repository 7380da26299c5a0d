\* One drop with two retries.
CONSTANTS
  Call = {c}
  Key = {k}
  Account = {alice}
  MaxRecords = 2
  Hash = {x1, x2}
  Pool = 2
  MaxRetries = 2
  MaxBalance = 1
SPECIFICATION Spec
INVARIANTS
  AtMostOneClaim
