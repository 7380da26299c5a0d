\* Two calls, with one key or two, for one recipient.
CONSTANTS
  Call = {c1, c2}
  Key = {k1, k2}
  Account = {alice}
  MaxRecords = 2
  Hash = {x1, x2}
  Pool = 2
  MaxRetries = 1
  MaxBalance = 1
SPECIFICATION Spec
SYMMETRY Interchangeable
INVARIANTS
  OneUntoldCredit
  ReceiptIsProven
  FailureCreditsNothing
