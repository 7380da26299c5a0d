--------------------------- MODULE SolverConstants ---------------------------
(* The parameters of a solve (lez-faucet-ffi/src/solver.rs and SolverPolicy). *)
EXTENDS Integers

CONSTANTS
  Size,         \* number of candidates, 2^128: addition wraps at it
  MaxAttempts,  \* max_attempts
  Interval,     \* CANCEL_CHECK_INTERVAL
  Difficulty,   \* difficulties a challenge may have
  MaxDifficulty \* MAX_SUPPORTED_DIFFICULTY

ASSUME SizeAssumption       == Size \in Nat \ {0}
ASSUME AttemptsAssumption   == MaxAttempts \in Nat
ASSUME IntervalAssumption   == Interval \in Nat \ {0}
ASSUME DifficultyAssumption == Difficulty \subseteq Nat /\ MaxDifficulty \in Nat

=============================================================================
