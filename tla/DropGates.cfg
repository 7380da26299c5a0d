\* Challenges that are easy, too hard and malformed; funds that cover no claim, one claim, and
\* one with another pending; and a balance the prize would overflow.
CONSTANTS
  Seed = {s1, s2}
  Difficulty = {3, 4, 33}
  MaxDifficulty = 3
  Prize = 2
  Pools = {1, 3, 5}
  Waiting = {0, 1}
  Reserve = 1
  Balances = {0, 3}
  MaxBalance = 4
  MaxRetries = 1
SPECIFICATION Spec
INVARIANTS
  StatusAgreesWithDrop
  GatesHeldAfterTheWork
