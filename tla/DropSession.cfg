\* Two calls, with one key or two; three candidates, two attempts.
\* It stops when every call was answered and every cancellation made.
CONSTANTS
  Call = {c1, c2}
  Key = {k1, k2}
  Account = {alice}
  MaxRecords = 2
  Phase <- Phases
  Size = 3
  MaxAttempts = 2
  Interval = 1
  Difficulty = {3, 4}
  MaxDifficulty = 3
SPECIFICATION FairSpec
INVARIANTS
  ChannelIsOwn
  SolveIsHonest
  SolveStops
PROPERTIES
  DropsEnd
CHECK_DEADLOCK FALSE
