\* Two calls, with one key or two, for one recipient or two.
CONSTANTS
  Call = {c1, c2}
  Key = {k1, k2}
  Account = {alice, bob}
  MaxRecords = 2
  Hash = {x1, x2}
  MaxMisses = 2
  MaxBalance = 1
SPECIFICATION Spec
SYMMETRY Interchangeable
INVARIANTS
  OneRunPerKey
  OneUntoldCredit
  ReceiptIsProven
  CancelledAskedNothing
  FailureIsFinal
