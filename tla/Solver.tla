------------------------------- MODULE Solver -------------------------------
(***************************************************************************)
(* One solve of a Pinata challenge (lez-faucet-ffi/src/solver.rs): the     *)
(* task that waits under a deadline, the thread of the blocking pool that  *)
(* scans candidates, and the two flags that ask the thread to stop.        *)
(*                                                                         *)
(* SHA-256 is external: which candidates solve the challenge is chosen     *)
(* once, and a challenge of difficulty 0 is solved by all.  A blocking     *)
(* thread cannot be aborted; it looks at the flags once in Interval        *)
(* candidates.                                                             *)
(***************************************************************************)
EXTENDS SolverConstants

VARIABLES
  challenge,  \* its difficulty, and the candidates that solve it
  caller,     \* solve_with_deadline: where it is, and its answer
  worker,     \* the blocking thread
  active,     \* worker_active
  timedOut,   \* timed_out
  cancel,     \* what cancelled() returns
  asked,      \* history: cancelled() was true at some time
  late        \* history: candidates tried since timed_out was set

vars == <<challenge, caller, worker, active, timedOut, cancel, asked, late>>

-----------------------------------------------------------------------------
Candidate == 0..(Size - 1)
Error     == {"unsupported_difficulty", "internal_error", "cancelled", "attempt_limit", "timeout"}
Solved    == [solution : Candidate]
Answer    == Solved \cup [error : Error]

Unanswered == [error |-> "none"]
Refusal(e) == [error |-> e]

Unborn == [pc |-> "unborn", start |-> 0, attempt |-> 0, result |-> Unanswered]
Worker == [pc : {"unborn", "spawned", "poll", "hash", "exit", "gone"}, start : Candidate,
           attempt : Nat, result : Answer \cup {Unanswered}]

Challenges == {c \in [difficulty : Difficulty, solutions : SUBSET Candidate] :
                 c.difficulty = 0 => c.solutions = Candidate}

Ready == [pc |-> "ready", answer |-> Unanswered]

TypeOK ==
  /\ challenge \in Challenges
  /\ caller    \in [pc : {"ready", "select", "drain", "returned"},
                    answer : Answer \cup {Unanswered}]
  /\ worker    \in Worker
  /\ active    \in BOOLEAN
  /\ timedOut  \in BOOLEAN
  /\ cancel    \in BOOLEAN
  /\ asked     \in BOOLEAN
  /\ late      \in Nat

Fresh ==
  /\ caller   = Ready
  /\ worker   = Unborn
  /\ active   = FALSE
  /\ timedOut = FALSE
  /\ late     = 0

Init ==
  /\ challenge \in Challenges
  /\ Fresh
  /\ cancel \in BOOLEAN
  /\ asked = cancel

-----------------------------------------------------------------------------
(* The blocking thread. *)

\* start.wrapping_add(attempt)
CandidateOf(start, attempt) == (start + attempt) % Size

\* The thread ends with `result`; the guard has yet to run.
Exit(result) == worker' = [worker EXCEPT !.pc = "exit", !.result = result]

\* The pool finds a thread for the task, however late.
Start ==
  /\ worker.pc = "spawned"
  /\ active' = TRUE
  /\ IF MaxAttempts = 0
     THEN Exit(Refusal("internal_error"))
     ELSE \E start \in Candidate : worker' = [worker EXCEPT !.pc = "poll", !.start = start]
  /\ UNCHANGED <<challenge, caller, timedOut, cancel, asked, late>>

StopDue == worker.attempt % Interval = 0 /\ (timedOut \/ cancel)

Poll ==
  /\ worker.pc = "poll"
  /\ IF StopDue
     THEN Exit(Refusal("cancelled"))
     ELSE worker' = [worker EXCEPT !.pc = "hash"]
  /\ UNCHANGED <<challenge, caller, active, timedOut, cancel, asked, late>>

\* Mutant: attempts are not counted.
HashUncounted ==
  /\ worker.pc = "hash"
  /\ LET solution == CandidateOf(worker.start, worker.attempt) IN
     IF solution \in challenge.solutions
     THEN Exit([solution |-> solution])
     ELSE worker' = [worker EXCEPT !.pc = "poll"]
  /\ late' = IF timedOut THEN late + 1 ELSE late
  /\ UNCHANGED <<challenge, caller, active, timedOut, cancel, asked>>

Hash ==
  /\ worker.pc = "hash"
  /\ LET solution == CandidateOf(worker.start, worker.attempt) IN
     IF solution \in challenge.solutions
     THEN Exit([solution |-> solution])
     ELSE IF worker.attempt + 1 < MaxAttempts
     THEN worker' = [worker EXCEPT !.pc = "poll", !.attempt = @ + 1]
     ELSE Exit(Refusal("attempt_limit"))
  /\ late' = IF timedOut THEN late + 1 ELSE late
  /\ UNCHANGED <<challenge, caller, active, timedOut, cancel, asked>>

\* ActivityGuard runs, and the task is complete.
Leave ==
  /\ worker.pc = "exit"
  /\ active' = FALSE
  /\ worker' = [worker EXCEPT !.pc = "gone"]
  /\ UNCHANGED <<challenge, caller, timedOut, cancel, asked, late>>

Thread == Start \/ Poll \/ Hash \/ Leave

-----------------------------------------------------------------------------
(* solve_with_deadline. *)

Return(answer) == caller' = [caller EXCEPT !.pc = "returned", !.answer = answer]

Spawn ==
  /\ caller.pc = "ready"
  /\ IF challenge.difficulty > MaxDifficulty
     THEN Return(Refusal("unsupported_difficulty")) /\ UNCHANGED worker
     ELSE /\ caller' = [caller EXCEPT !.pc = "select"]
          /\ worker' = [worker EXCEPT !.pc = "spawned"]
  /\ UNCHANGED <<challenge, active, timedOut, cancel, asked, late>>

Finish ==
  /\ caller.pc = "select"
  /\ worker.pc = "gone"
  /\ Return(worker.result)
  /\ UNCHANGED <<challenge, worker, active, timedOut, cancel, asked, late>>

\* Mutant: the caller returns without waiting for the thread.
DeadlineAbandons ==
  /\ caller.pc = "select"
  /\ timedOut' = TRUE
  /\ Return(Refusal("timeout"))
  /\ UNCHANGED <<challenge, worker, active, cancel, asked, late>>

\* The sleep is over first, or both branches were ready and this one was taken.
Deadline ==
  /\ caller.pc = "select"
  /\ timedOut' = TRUE
  /\ caller' = [caller EXCEPT !.pc = "drain"]
  /\ UNCHANGED <<challenge, worker, active, cancel, asked, late>>

\* Mutant: the thread's own answer is passed on.
DrainAnswered ==
  /\ caller.pc = "drain"
  /\ worker.pc = "gone"
  /\ Return(worker.result)
  /\ UNCHANGED <<challenge, worker, active, timedOut, cancel, asked, late>>

\* Whatever the thread found, the answer is the timeout.
Drain ==
  /\ caller.pc = "drain"
  /\ worker.pc = "gone"
  /\ Return(Refusal("timeout"))
  /\ UNCHANGED <<challenge, worker, active, timedOut, cancel, asked, late>>

Task == Spawn \/ Finish \/ Drain

-----------------------------------------------------------------------------
\* The user asks this operation to stop, or an answer for another takes its place in the one
\* slot of the cancellation.
Signal ==
  /\ cancel' = ~cancel
  /\ asked' = (asked \/ cancel')
  /\ UNCHANGED <<challenge, caller, worker, active, timedOut, late>>

\* For the modules that solve more than once: the locals of another solve.
Begin(chosen) ==
  /\ challenge' = chosen
  /\ caller'    = Ready
  /\ worker'    = Unborn
  /\ active'    = FALSE
  /\ timedOut'  = FALSE
  /\ late'      = 0

Next == Task \/ Deadline \/ Thread \/ Signal

Spec == Init /\ [][Next]_vars

-----------------------------------------------------------------------------
\* "A timed-out solve must never leave a core spinning": when the call has returned, in
\* whatever way, there is no thread, and the flag says so.
NoSpinAfterReturn ==
  caller.pc = "returned" => worker.pc \in {"unborn", "gone"} /\ ~active

\* A thread that was told to stop tries at most one interval of candidates more.
StopsPromptly == late <= Interval

\* The answer `cancelled` is given to those who asked for it: the stop the deadline makes is
\* seen by the thread as the same stop, and is not reported as one.
CancelledWasAsked == caller.answer = Refusal("cancelled") => asked

\* The answers about the work are about the whole of it: the budget is spent only if none of
\* the candidates it covers, across the wrap, solves the challenge; and a solution is one.
Window == {(worker.start + i) % Size : i \in 0..(MaxAttempts - 1)}

AnswerIsEarned ==
  /\ caller.answer = Refusal("attempt_limit") => Window \cap challenge.solutions = {}
  /\ caller.answer \in Solved =>
       caller.answer.solution \in Window \cap challenge.solutions

=============================================================================
