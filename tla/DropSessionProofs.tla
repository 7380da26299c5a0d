-------------------------- MODULE DropSessionProofs --------------------------
(***************************************************************************)
(* What a drop shows of itself, and the solve it waits for, for every      *)
(* number of calls and every size of the search: the phase that is polled  *)
(* is the drop's own, its solve answers the truth, and no thread is left   *)
(* behind.                                                                 *)
(***************************************************************************)
EXTENDS DropSession, FaucetClientProofs

\* The phases a drop publishes, and where its call is when it is over.
SessionPhase == {"inspecting", "solving", "refreshing", "submitting"}
Ended        == {"record", "release", "done"}

\* The channel names the drop that holds the permit, or nobody; and a drop that has stored a
\* phase finds it there until it stores the next.
ChannelInv ==
  /\ publisher \in [Call -> [pending : BOOLEAN, last : SessionPhase \cup {NoPhase},
                             cleared : BOOLEAN]]
  /\ token \in Call \cup {NoCall} /\ reader \in Call \cup {NoCall}
  /\ \A c \in Call :
       /\ call[c].pc = "run" =>
            /\ ~publisher[c].cleared
            /\ publisher[c].last # NoPhase =>
                 phase = publisher[c].last /\ (publisher[c].pending \/ token = c)
       /\ call[c].pc \notin {"run"} \cup Ended => publisher[c] = Silent
       /\ publisher[c].pending => call[c].pc = "run" /\ publisher[c].last # NoPhase
  /\ token # NoCall =>
       /\ call[token].pc \in {"run", "record"} /\ ~publisher[token].cleared
       /\ publisher[token].last # NoPhase /\ phase = publisher[token].last
  /\ reader # NoCall =>
       call[reader].pc \in {"run"} \cup Ended /\ publisher[reader].last # NoPhase

\* The solver works for the drop that says it solves.
SolverRuns ==
  /\ solver \in Call \cup {NoCall}
  /\ solver = NoCall => S!Fresh
  /\ solver # NoCall => At(solver, "solving")

SolverTypes ==
  /\ caller \in [pc : {"ready", "select", "drain", "returned"},
                 answer : S!Answer \cup {S!Unanswered}]
  /\ worker \in S!Worker
  /\ active \in BOOLEAN /\ timedOut \in BOOLEAN /\ late \in Nat

\* The thread and the caller that waits for it: an answer other than the thread's own is given
\* without one, or after the deadline.
Together ==
  /\ caller.pc = "ready" => worker.pc = "unborn"
  /\ caller.pc \in {"select", "drain"} => worker.pc # "unborn"
  /\ caller.pc = "returned" => worker.pc \in {"unborn", "gone"}
  /\ active => worker.pc \in {"poll", "hash", "exit"}
  /\ caller.pc \in {"ready", "select"} => ~timedOut
  /\ caller.pc # "returned" => caller.answer = S!Unanswered
  /\ caller.pc = "returned" =>
       \/ caller.answer \in {S!Refusal("unsupported_difficulty"), S!Refusal("timeout")}
       \/ ~timedOut /\ worker.pc = "gone" /\ caller.answer = worker.result

\* What was tried since the deadline is no more than the thread has advanced in its interval.
Advanced == worker.attempt % Interval

LateInv ==
  /\ ~timedOut => late = 0
  /\ worker.pc = "hash" => late <= Advanced
  /\ worker.pc = "poll" => late <= IF Advanced = 0 THEN Interval ELSE Advanced
  /\ late <= Interval

\* The candidate of an attempt.
Tried(i) == S!CandidateOf(worker.start, i)

\* Every attempt made has failed; and a result is earned by the attempts it stands for.
WorkInv ==
  /\ worker.pc \in {"unborn", "spawned"} => worker.attempt = 0
  /\ worker.pc \in {"poll", "hash"} =>
       /\ worker.attempt < MaxAttempts
       /\ \A i \in 0..(worker.attempt - 1) : Tried(i) \notin challenge.solutions
  /\ worker.pc \in {"exit", "gone"} =>
       /\ worker.result = S!Refusal("attempt_limit") =>
            \A i \in 0..(MaxAttempts - 1) : Tried(i) \notin challenge.solutions
       /\ worker.result \in S!Solved =>
            /\ worker.result.solution \in challenge.solutions
            /\ \E i \in 0..(MaxAttempts - 1) : worker.result.solution = Tried(i)
       /\ worker.result = S!Refusal("cancelled") => timedOut \/ solver \in asked

SolverInv == SolverTypes /\ Together /\ LateInv /\ WorkInv

SessionInv == ClientInv /\ ChannelInv /\ SolverRuns /\ SolverInv

-----------------------------------------------------------------------------
(* The solve. *)

LEMMA AnswersDiffer ==
  ASSUME NEW e, NEW f, e # f
  PROVE  S!Refusal(e) # S!Refusal(f) /\ S!Refusal(e) \notin S!Solved
  <1>1. S!Refusal(e).error = e /\ S!Refusal(f).error = f
    BY DEF S!Refusal
  <1>2. ASSUME NEW x \in S!Solved
        PROVE  x # S!Refusal(e)
    <2>1. DOMAIN x = {"solution"}
      BY DEF S!Solved
    <2>2. DOMAIN S!Refusal(e) = {"error"}
      BY DEF S!Refusal
    <2>3. {"solution"} # {"error"}
      OBVIOUS
    <2>4. QED
      BY <2>1, <2>2, <2>3
  <1>3. QED
    BY <1>1, <1>2

LEMMA RefusalIs ==
  ASSUME NEW e \in S!Error
  PROVE  S!Refusal(e) \in S!Answer
  BY DEF S!Refusal, S!Answer

\* One attempt more advances the thread by one, or begins its next interval.
LEMMA AdvancesByOne ==
  ASSUME NEW a \in Nat
  PROVE  /\ a % Interval \in 0..(Interval - 1)
         /\ (a + 1) % Interval = IF (a % Interval) + 1 = Interval THEN 0 ELSE (a % Interval) + 1
  <1>1. Interval \in Nat /\ Interval > 0
    BY IntervalAssumption
  <1> DEFINE q == a \div Interval
             r == a % Interval
  <1>2. a = Interval * q + r /\ r \in 0..(Interval - 1) /\ q \in Nat
    BY <1>1
  <1> HIDE DEF q, r
  <1>3. CASE r + 1 = Interval
    <2>1. a + 1 = Interval * (q + 1)
      BY <1>1, <1>2, <1>3
    <2>2. (a + 1) % Interval = 0
      BY <1>1, <1>2, <2>1
    <2>3. QED
      BY <1>2, <1>3, <2>2 DEF r
  <1>4. CASE r + 1 # Interval
    <2>1. a + 1 = Interval * q + (r + 1) /\ r + 1 \in 0..(Interval - 1)
      BY <1>1, <1>2, <1>4
    <2>2. (a + 1) % Interval = r + 1
      BY <1>1, <1>2, <2>1
    <2>3. QED
      BY <1>2, <1>4, <2>2 DEF r
  <1>5. QED
    BY <1>3, <1>4

LEMMA FreshSolver ==
  ASSUME S!Fresh
  PROVE  SolverInv
  <1>1. SolverTypes
    <2>1. 0 \in S!Candidate
      BY SizeAssumption DEF S!Candidate
    <2>2. QED
      BY <2>1 DEF S!Fresh, S!Ready, S!Unborn, S!Unanswered, SolverTypes, S!Worker
  <1>2. Together
    BY DEF S!Fresh, S!Ready, S!Unborn, Together
  <1>3. LateInv
    BY IntervalAssumption DEF S!Fresh, S!Unborn, LateInv
  <1>4. WorkInv
    BY DEF S!Fresh, S!Unborn, WorkInv
  <1>5. QED
    BY <1>1, <1>2, <1>3, <1>4 DEF SolverInv

\* What a thread that ends leaves behind.
LEMMA ExitIs ==
  ASSUME worker \in S!Worker, NEW result \in S!Answer, S!Exit(result)
  PROVE  /\ worker' \in S!Worker
         /\ worker'.pc = "exit" /\ worker'.result = result
         /\ worker'.start = worker.start /\ worker'.attempt = worker.attempt
  BY DEF S!Exit, S!Worker

\* A thread that ends with what it has earned keeps the invariant.
LEMMA ExitStep ==
  ASSUME SolverInv, worker.pc \in {"spawned", "poll", "hash"}, NEW result \in S!Answer,
         S!Exit(result), UNCHANGED <<challenge, caller, timedOut, solver, asked>>,
         active' \in BOOLEAN, late' \in Nat, late' <= Interval, ~timedOut => late' = 0,
         result = S!Refusal("attempt_limit") =>
           \A i \in 0..(MaxAttempts - 1) : Tried(i) \notin challenge.solutions,
         result \in S!Solved =>
           /\ result.solution \in challenge.solutions
           /\ \E i \in 0..(MaxAttempts - 1) : result.solution = Tried(i),
         result = S!Refusal("cancelled") => timedOut \/ solver \in asked
  PROVE  SolverInv'
  <1>1. /\ worker' \in S!Worker /\ worker'.pc = "exit" /\ worker'.result = result
        /\ worker'.start = worker.start
    BY ExitIs DEF SolverInv, SolverTypes
  <1>2. SolverTypes'
    BY <1>1 DEF SolverInv, SolverTypes
  <1>3. Together'
    BY <1>1 DEF SolverInv, Together
  <1>4. LateInv'
    BY <1>1 DEF LateInv
  <1>5. \A i : Tried(i)' = Tried(i)
    BY <1>1 DEF Tried, S!CandidateOf
  <1>6. WorkInv'
    BY <1>1, <1>5 DEF WorkInv
  <1>7. QED
    BY <1>2, <1>3, <1>4, <1>6 DEF SolverInv

LEMMA StartStep ==
  ASSUME SolverInv, S!Start, UNCHANGED <<solver, asked>>
  PROVE  SolverInv'
  <1>1. /\ worker.pc = "spawned" /\ active' = TRUE
        /\ UNCHANGED <<challenge, caller, timedOut, late>>
    BY DEF S!Start
  <1>2. CASE S!Exit(S!Refusal("internal_error"))
    <2>1. S!Refusal("internal_error") \in S!Answer
      BY RefusalIs DEF S!Error
    <2>2. late' \in Nat /\ late' <= Interval /\ (~timedOut => late' = 0)
      BY <1>1 DEF SolverInv, SolverTypes, LateInv
    <2>3. /\ S!Refusal("internal_error") # S!Refusal("attempt_limit")
          /\ S!Refusal("internal_error") # S!Refusal("cancelled")
          /\ S!Refusal("internal_error") \notin S!Solved
      BY AnswersDiffer
    <2>4. QED
      BY <1>1, <1>2, <2>1, <2>2, <2>3, ExitStep
  <1>3. CASE /\ MaxAttempts # 0
             /\ \E start \in S!Candidate : worker' = [worker EXCEPT !.pc = "poll", !.start = start]
    <2>1. worker \in S!Worker /\ worker.attempt = 0
      BY <1>1 DEF SolverInv, SolverTypes, WorkInv
    <2>2. worker' \in S!Worker /\ worker'.pc = "poll" /\ worker'.attempt = 0
      BY <1>3, <2>1 DEF S!Worker
    <2>3. SolverTypes'
      BY <1>1, <2>2 DEF SolverInv, SolverTypes
    <2>4. Together'
      BY <1>1, <2>2 DEF SolverInv, Together
    <2>5. LateInv'
      <3>1. Advanced' = 0
        BY <2>2, IntervalAssumption DEF Advanced
      <3>2. QED
        BY <1>1, <2>2, <3>1 DEF SolverInv, SolverTypes, LateInv
    <2>6. WorkInv'
      BY <1>3, <2>2, AttemptsAssumption DEF WorkInv
    <2>7. QED
      BY <2>3, <2>4, <2>5, <2>6 DEF SolverInv
  <1>4. QED
    BY <1>2, <1>3 DEF S!Start

\* A stop is seen between two intervals; it is the caller's own unless the deadline made it.
LEMMA PollStep ==
  ASSUME SolverInv, S!Poll, UNCHANGED <<solver, asked>>, CancelAsked
  PROVE  SolverInv'
  <1>1. worker.pc = "poll" /\ UNCHANGED <<challenge, caller, active, timedOut, late>>
    BY DEF S!Poll
  <1>2. worker \in S!Worker /\ active \in BOOLEAN /\ late \in Nat
    BY DEF SolverInv, SolverTypes
  <1>3. CASE S!StopDue /\ S!Exit(S!Refusal("cancelled"))
    <2>1. S!Refusal("cancelled") \in S!Answer
      BY RefusalIs DEF S!Error
    <2>2. late' <= Interval /\ (~timedOut => late' = 0)
      BY <1>1 DEF SolverInv, LateInv
    <2>3. timedOut \/ solver \in asked
      BY <1>3 DEF S!StopDue, IsCancelled, CancelAsked
    <2>4. S!Refusal("cancelled") # S!Refusal("attempt_limit") /\ S!Refusal("cancelled") \notin S!Solved
      BY AnswersDiffer
    <2>5. QED
      BY <1>1, <1>2, <1>3, <2>1, <2>2, <2>3, <2>4, ExitStep
  <1>4. CASE ~S!StopDue /\ worker' = [worker EXCEPT !.pc = "hash"]
    <2>1. /\ worker' \in S!Worker /\ worker'.pc = "hash"
          /\ worker'.attempt = worker.attempt /\ worker'.start = worker.start
      BY <1>2, <1>4 DEF S!Worker
    <2>2. SolverTypes'
      BY <1>1, <2>1 DEF SolverInv, SolverTypes
    <2>3. Together'
      BY <1>1, <2>1 DEF SolverInv, Together
    <2>4. LateInv'
      <3>1. Advanced' = Advanced /\ Advanced \in Nat
        BY <1>2, <2>1, AdvancesByOne DEF Advanced, S!Worker
      <3>2. timedOut => Advanced # 0
        BY <1>4 DEF S!StopDue, Advanced
      <3>3. QED
        BY <1>1, <1>2, <2>1, <3>1, <3>2 DEF SolverInv, LateInv
    <2>5. WorkInv'
      <3>1. \A i : Tried(i)' = Tried(i)
        BY <2>1 DEF Tried, S!CandidateOf
      <3>2. QED
        BY <1>1, <2>1, <3>1 DEF SolverInv, WorkInv
    <2>6. QED
      BY <2>2, <2>3, <2>4, <2>5 DEF SolverInv
  <1>5. QED
    BY <1>3, <1>4 DEF S!Poll

\* An attempt: a solution ends the thread, and so does the last attempt.
LEMMA HashStep ==
  ASSUME SolverInv, S!Hash, UNCHANGED <<solver, asked>>
  PROVE  SolverInv'
  <1> DEFINE solution == S!CandidateOf(worker.start, worker.attempt)
  <1>1. /\ worker.pc = "hash" /\ UNCHANGED <<challenge, caller, active, timedOut>>
        /\ late' = IF timedOut THEN late + 1 ELSE late
    BY DEF S!Hash
  <1>2. /\ worker \in S!Worker /\ active \in BOOLEAN /\ late \in Nat
        /\ worker.attempt \in Nat /\ worker.start \in S!Candidate
    BY DEF SolverInv, SolverTypes, S!Worker
  <1>3. /\ worker.attempt < MaxAttempts /\ worker.attempt \in 0..(MaxAttempts - 1)
        /\ \A i \in 0..(worker.attempt - 1) : Tried(i) \notin challenge.solutions
    BY <1>1, <1>2, AttemptsAssumption DEF SolverInv, WorkInv
  <1>4. solution = Tried(worker.attempt)
    BY DEF Tried
  <1>5. solution \in S!Candidate
    BY <1>2, SizeAssumption DEF S!CandidateOf, S!Candidate
  <1> HIDE DEF solution
  <1>6. Advanced \in 0..(Interval - 1)
    BY <1>2, AdvancesByOne DEF Advanced
  <1>7. /\ late' \in Nat /\ (~timedOut => late' = 0) /\ late' <= Advanced + 1 /\ late' <= Interval
    BY <1>1, <1>2, <1>6, IntervalAssumption DEF SolverInv, LateInv
  <1>8. CASE solution \in challenge.solutions /\ S!Exit([solution |-> solution])
    <2> DEFINE found == [solution |-> solution]
    <2>1. found \in S!Solved /\ found.solution = solution
      BY <1>5 DEF S!Solved
    <2>2. found \in S!Answer /\ found # S!Refusal("attempt_limit") /\ found # S!Refusal("cancelled")
      BY <2>1, AnswersDiffer DEF S!Answer
    <2> HIDE DEF found
    <2>3. S!Exit(found)
      BY <1>8 DEF found
    <2>4. QED
      BY <1>1, <1>2, <1>3, <1>4, <1>7, <1>8, <2>1, <2>2, <2>3, ExitStep
  <1>9. ASSUME solution \notin challenge.solutions
        PROVE  \A i \in 0..worker.attempt : Tried(i) \notin challenge.solutions
    <2>1. \A i \in 0..worker.attempt : i \in 0..(worker.attempt - 1) \/ i = worker.attempt
      BY <1>2
    <2>2. QED
      BY <1>3, <1>4, <1>9, <2>1
  <1>10. CASE /\ solution \notin challenge.solutions /\ worker.attempt + 1 < MaxAttempts
              /\ worker' = [worker EXCEPT !.pc = "poll", !.attempt = @ + 1]
    <2>1. /\ worker' \in S!Worker /\ worker'.pc = "poll"
          /\ worker'.attempt = worker.attempt + 1 /\ worker'.start = worker.start
      <3> DEFINE next == worker.attempt + 1
      <3>1. next \in Nat
        BY <1>2
      <3>2. worker' = [worker EXCEPT !.pc = "poll", !.attempt = next]
        BY <1>10
      <3> HIDE DEF next
      <3>3. worker' \in S!Worker /\ worker'.pc = "poll" /\ worker'.attempt = next
              /\ worker'.start = worker.start
        BY <1>2, <3>1, <3>2 DEF S!Worker
      <3>4. QED
        BY <3>3 DEF next
    <2>2. SolverTypes'
      BY <1>1, <1>7, <2>1 DEF SolverInv, SolverTypes
    <2>3. Together'
      BY <1>1, <2>1 DEF SolverInv, Together
    <2>4. LateInv'
      <3>1. Advanced' = IF Advanced + 1 = Interval THEN 0 ELSE Advanced + 1
        BY <1>2, <2>1, AdvancesByOne DEF Advanced
      <3>2. QED
        BY <1>1, <1>6, <1>7, <2>1, <3>1 DEF LateInv
    <2>5. WorkInv'
      <3>1. \A i : Tried(i)' = Tried(i)
        BY <2>1 DEF Tried, S!CandidateOf
      <3>2. worker'.attempt - 1 = worker.attempt
        BY <1>2, <2>1
      <3>3. \A i \in 0..worker.attempt : Tried(i) \notin challenge.solutions
        BY <1>9, <1>10
      <3>4. QED
        BY <1>1, <1>10, <2>1, <3>1, <3>2, <3>3 DEF WorkInv
    <2>6. QED
      BY <2>2, <2>3, <2>4, <2>5 DEF SolverInv
  <1>11. CASE /\ solution \notin challenge.solutions /\ ~(worker.attempt + 1 < MaxAttempts)
              /\ S!Exit(S!Refusal("attempt_limit"))
    <2>1. S!Refusal("attempt_limit") \in S!Answer
      BY RefusalIs DEF S!Error
    <2>2. /\ S!Refusal("attempt_limit") # S!Refusal("cancelled")
          /\ S!Refusal("attempt_limit") \notin S!Solved
      BY AnswersDiffer
    <2>3. 0..(MaxAttempts - 1) = 0..worker.attempt
      BY <1>2, <1>3, <1>11, AttemptsAssumption
    <2>4. \A i \in 0..(MaxAttempts - 1) : Tried(i) \notin challenge.solutions
      BY <1>9, <1>11, <2>3
    <2>5. QED
      BY <1>1, <1>2, <1>7, <1>11, <2>1, <2>2, <2>4, ExitStep
  <1>12. QED
    BY <1>8, <1>10, <1>11 DEF S!Hash, solution

\* The thread leaves, its caller spawns it, answers, or gives it up.
LEMMA LeaveStep ==
  ASSUME SolverInv, S!Leave, UNCHANGED <<solver, asked>>
  PROVE  SolverInv'
  <1>1. /\ worker.pc = "exit" /\ active' = FALSE /\ worker' = [worker EXCEPT !.pc = "gone"]
        /\ UNCHANGED <<challenge, caller, timedOut, late>> /\ worker \in S!Worker
    BY DEF S!Leave, SolverInv, SolverTypes
  <1>2. /\ worker' \in S!Worker /\ worker'.pc = "gone" /\ worker'.result = worker.result
        /\ worker'.start = worker.start
    BY <1>1 DEF S!Worker
  <1>3. SolverTypes'
    BY <1>1, <1>2 DEF SolverInv, SolverTypes
  <1>4. Together'
    BY <1>1, <1>2 DEF SolverInv, Together
  <1>5. LateInv'
    BY <1>1, <1>2 DEF SolverInv, LateInv
  <1>6. WorkInv'
    <2>1. \A i : Tried(i)' = Tried(i)
      BY <1>2 DEF Tried, S!CandidateOf
    <2>2. QED
      BY <1>1, <1>2, <2>1 DEF SolverInv, WorkInv
  <1>7. QED
    BY <1>3, <1>4, <1>5, <1>6 DEF SolverInv

LEMMA SpawnStep ==
  ASSUME SolverInv, S!Spawn, UNCHANGED <<solver, asked>>
  PROVE  SolverInv'
  <1>1. /\ caller.pc = "ready" /\ worker.pc = "unborn" /\ ~timedOut /\ ~active /\ late = 0
        /\ caller.answer = S!Unanswered
        /\ UNCHANGED <<challenge, active, timedOut, late>>
    BY DEF S!Spawn, SolverInv, Together, LateInv
  <1>2. CASE S!Return(S!Refusal("unsupported_difficulty")) /\ UNCHANGED worker
    <2>1. S!Refusal("unsupported_difficulty") \in S!Answer
      BY RefusalIs DEF S!Error
    <2> DEFINE refusal == S!Refusal("unsupported_difficulty")
    <2>2. caller' = [caller EXCEPT !.pc = "returned", !.answer = refusal]
      BY <1>2 DEF S!Return
    <2> HIDE DEF refusal
    <2>3. SolverTypes' /\ caller'.pc = "returned" /\ caller'.answer = refusal
      BY <1>1, <1>2, <2>1, <2>2 DEF SolverInv, SolverTypes, refusal
    <2>4. Together'
      BY <1>1, <1>2, <2>3 DEF Together, refusal
    <2>5. LateInv' /\ WorkInv'
      BY <1>1, <1>2, IntervalAssumption DEF SolverInv, LateInv, WorkInv
    <2>6. QED
      BY <2>3, <2>4, <2>5 DEF SolverInv
  <1>3. CASE caller' = [caller EXCEPT !.pc = "select"] /\ worker' = [worker EXCEPT !.pc = "spawned"]
    <2>1. worker' \in S!Worker /\ worker'.pc = "spawned" /\ worker'.attempt = worker.attempt
      BY <1>3 DEF SolverInv, SolverTypes, S!Worker
    <2>2. /\ caller'.pc = "select" /\ caller'.answer = S!Unanswered
          /\ caller' \in [pc : {"ready", "select", "drain", "returned"},
                         answer : S!Answer \cup {S!Unanswered}]
      BY <1>1, <1>3 DEF SolverInv, SolverTypes
    <2>3. SolverTypes'
      BY <1>1, <2>1, <2>2 DEF SolverInv, SolverTypes
    <2>4. Together'
      BY <1>1, <2>1, <2>2 DEF Together
    <2>5. LateInv'
      BY <1>1, <2>1, IntervalAssumption DEF LateInv
    <2>6. WorkInv'
      BY <1>1, <2>1 DEF SolverInv, WorkInv
    <2>7. QED
      BY <2>3, <2>4, <2>5, <2>6 DEF SolverInv
  <1>4. QED
    BY <1>2, <1>3 DEF S!Spawn

\* The caller returns with an answer it may give.
LEMMA ReturnStep ==
  ASSUME SolverInv, worker.pc = "gone", NEW answer \in S!Answer \cup {S!Unanswered},
         S!Return(answer), UNCHANGED <<challenge, worker, active, timedOut, late, solver, asked>>,
         answer = S!Refusal("timeout") \/ (~timedOut /\ answer = worker.result)
  PROVE  SolverInv'
  <1>1. SolverTypes' /\ caller'.pc = "returned" /\ caller'.answer = answer
    BY DEF SolverInv, SolverTypes, S!Return
  <1>2. Together'
    BY <1>1 DEF SolverInv, Together
  <1>3. LateInv'
    BY DEF SolverInv, LateInv, Advanced
  <1>4. WorkInv'
    BY DEF SolverInv, WorkInv, Tried, S!CandidateOf
  <1>5. QED
    BY <1>1, <1>2, <1>3, <1>4 DEF SolverInv

LEMMA AnswerStep ==
  ASSUME SolverInv, S!Finish \/ S!Drain, UNCHANGED <<solver, asked>>
  PROVE  SolverInv'
  <1>1. CASE S!Finish
    <2>1. /\ worker.pc = "gone" /\ ~timedOut /\ S!Return(worker.result)
          /\ UNCHANGED <<challenge, worker, active, timedOut, late>>
      BY <1>1 DEF S!Finish, SolverInv, Together
    <2>2. worker.result \in S!Answer \cup {S!Unanswered}
      BY DEF SolverInv, SolverTypes, S!Worker
    <2>3. QED
      BY <2>1, <2>2, ReturnStep
  <1>2. CASE S!Drain
    <2>1. /\ worker.pc = "gone" /\ S!Return(S!Refusal("timeout"))
          /\ UNCHANGED <<challenge, worker, active, timedOut, late>>
      BY <1>2 DEF S!Drain
    <2>2. S!Refusal("timeout") \in S!Answer
      BY RefusalIs DEF S!Error
    <2>3. QED
      BY <2>1, <2>2, ReturnStep
  <1>3. QED
    BY <1>1, <1>2

LEMMA DeadlineStep ==
  ASSUME SolverInv, S!Deadline, UNCHANGED <<solver, asked>>
  PROVE  SolverInv'
  <1>1. /\ caller.pc = "select" /\ timedOut' = TRUE /\ caller' = [caller EXCEPT !.pc = "drain"]
        /\ UNCHANGED <<challenge, worker, active, late>>
    BY DEF S!Deadline
  <1>2. SolverTypes' /\ caller'.pc = "drain" /\ caller'.answer = caller.answer
    BY <1>1 DEF SolverInv, SolverTypes
  <1>3. Together'
    BY <1>1, <1>2 DEF SolverInv, Together
  <1>4. LateInv'
    BY <1>1 DEF SolverInv, LateInv, Advanced
  <1>5. WorkInv'
    BY <1>1 DEF SolverInv, WorkInv, Tried, S!CandidateOf
  <1>6. QED
    BY <1>2, <1>3, <1>4, <1>5 DEF SolverInv

LEMMA SolverSteps ==
  ASSUME SolverInv, CancelAsked, SolverStep
  PROVE  SolverInv'
  <1>1. UNCHANGED <<solver, asked>>
    BY DEF SolverStep, client
  <1>2. S!Spawn \/ S!Finish \/ S!Drain \/ S!Deadline \/ S!Start \/ S!Poll \/ S!Hash \/ S!Leave
    BY DEF SolverStep, S!Task, S!Thread
  <1>3. QED
    BY <1>1, <1>2, SpawnStep, AnswerStep, DeadlineStep, StartStep, PollStep, HashStep, LeaveStep

\* A solver that rests does not mind what else happens, more cancellations included.
LEMMA SolverRests ==
  ASSUME SolverInv, UNCHANGED <<solving, solver>>, asked \subseteq asked'
  PROVE  SolverInv'
  <1>1. UNCHANGED <<challenge, caller, worker, active, timedOut, late, solver>>
    BY DEF solving
  <1>2. SolverTypes' /\ Together'
    BY <1>1 DEF SolverInv, SolverTypes, Together
  <1>3. LateInv'
    BY <1>1 DEF SolverInv, LateInv, Advanced
  <1>4. WorkInv'
    BY <1>1 DEF SolverInv, WorkInv, Tried, S!CandidateOf
  <1>5. QED
    BY <1>2, <1>3, <1>4 DEF SolverInv

\* The answers of the solver, and the thread it leaves, are as SolveIsHonest and SolveStops have it.
LEMMA SolverKeepsItsWord ==
  ASSUME SolverInv
  PROVE  /\ S!CancelledWasAsked /\ S!AnswerIsEarned
         /\ S!NoSpinAfterReturn /\ S!StopsPromptly
  <1>1. S!NoSpinAfterReturn
    BY DEF SolverInv, Together, S!NoSpinAfterReturn
  <1>2. S!StopsPromptly
    BY DEF SolverInv, LateInv, S!StopsPromptly
  <1>3. /\ S!Refusal("unsupported_difficulty") # S!Refusal("cancelled")
        /\ S!Refusal("unsupported_difficulty") # S!Refusal("attempt_limit")
        /\ S!Refusal("timeout") # S!Refusal("cancelled")
        /\ S!Refusal("timeout") # S!Refusal("attempt_limit")
        /\ S!Refusal("none") # S!Refusal("cancelled") /\ S!Refusal("none") # S!Refusal("attempt_limit")
        /\ \A e \in {"none", "unsupported_difficulty", "timeout"} : S!Refusal(e) \notin S!Solved
    <2>1. \A e \in {"none", "unsupported_difficulty", "timeout"} :
            /\ S!Refusal(e) # S!Refusal("cancelled") /\ S!Refusal(e) # S!Refusal("attempt_limit")
            /\ S!Refusal(e) \notin S!Solved
      BY AnswersDiffer
    <2>2. QED
      BY <2>1
  <1>4. S!Unanswered = S!Refusal("none")
    BY DEF S!Unanswered, S!Refusal
  <1>5. ASSUME \/ caller.answer \in {S!Refusal("cancelled"), S!Refusal("attempt_limit")}
               \/ caller.answer \in S!Solved
        PROVE  ~timedOut /\ worker.pc = "gone" /\ caller.answer = worker.result
    BY <1>3, <1>4, <1>5 DEF SolverInv, Together
  <1>6. S!CancelledWasAsked
    BY <1>5 DEF SolverInv, WorkInv, S!CancelledWasAsked
  <1>7. S!Window = {Tried(i) : i \in 0..(MaxAttempts - 1)}
    BY DEF S!Window, Tried, S!CandidateOf
  <1>8. S!AnswerIsEarned
    BY <1>5, <1>7 DEF SolverInv, WorkInv, S!AnswerIsEarned
  <1>9. QED
    BY <1>1, <1>2, <1>6, <1>8

-----------------------------------------------------------------------------
(* The calls, and the permit that keeps the channel for one of them. *)

\* Where a step of request_drop may take the call that makes it.
LEMMA RequestMoves ==
  ASSUME ClientInv, NEW c \in Call, RequestDrop(c)
  PROVE  /\ asked \subseteq asked'
         /\ \A d \in Call \ {c} : call'[d] = call[d]
         /\ call'[c].pc = "run" => call[c].pc \in {"reserve", "run"}
         /\ call[c].pc = "run" => call'[c].pc = "run"
         /\ call[c].pc = "record" => call'[c] = call[c] \/ call'[c].pc = "release"
         /\ call[c].pc \in {"release", "done"} => call'[c].pc \in {"release", "done"}
  <1> DEFINE Goal == /\ asked \subseteq asked'
                     /\ \A d \in Call \ {c} : call'[d] = call[d]
                     /\ call'[c].pc = "run" => call[c].pc \in {"reserve", "run"}
                     /\ call[c].pc = "run" => call'[c].pc = "run"
                     /\ call[c].pc = "record" => call'[c] = call[c] \/ call'[c].pc = "release"
                     /\ call[c].pc \in {"release", "done"} => call'[c].pc \in {"release", "done"}
             Early == {"replay", "reconciled", "permit", "replay again", "reconciled again", "reserve"}
  <1>1. ClientTypeOK
    BY DEF ClientInv
  <1>2. ASSUME call[c].pc \in Early, UNCHANGED asked,
               (\E pc \in Pc \ {"run"} : Goto(c, pc)) \/ \E answer \in Answer : Leave(c, answer)
        PROVE  Goal
    <2>1. call[c] \in Begun
      BY <1>1, <1>2, BegunFacts
    <2>2. CASE \E pc \in Pc \ {"run"} : Goto(c, pc)
      <3>1. PICK pc \in Pc \ {"run"} : Goto(c, pc)
        BY <2>2
      <3>2. Moves(c, pc, call[c].ran, call[c].answer)
        BY <1>1, <1>2, <3>1, GotoMoves
      <3>3. QED
        BY <1>2, <3>2 DEF Moves
    <2>3. CASE \E answer \in Answer : Leave(c, answer)
      <3>1. PICK answer \in Answer : Leave(c, answer)
        BY <2>3
      <3>2. \E pc \in {"release", "done"} : Moves(c, pc, call[c].ran, answer)
        BY <1>1, <1>2, <3>1, LeaveMoves
      <3>3. QED
        BY <1>2, <3>2 DEF Moves
    <2>4. QED
      BY <1>2, <2>2, <2>3
  <1>3. CASE Begin(c)
    BY <1>1, <1>3 DEF Begin, ClientTypeOK, Unborn
  <1>4. CASE Replay(c)
    <2> DEFINE known == records[call[c].key]
    <2>1. call[c].pc \in Early /\ UNCHANGED asked
      BY <1>4 DEF Replay
    <2>2. known \in Record \cup {NoRecord}
      BY <1>1, <2>1, BegunFacts DEF ClientTypeOK
    <2>3. known # NoRecord => known.outcome \in Answer
      BY <2>2 DEF Record, Answer, Refusal
    <2>4. (\E pc \in Pc \ {"run"} : Goto(c, pc)) \/ \E answer \in Answer : Leave(c, answer)
      BY <1>4, <2>3 DEF Replay, Pc, Answer, Refusal
    <2>5. QED
      BY <1>2, <2>1, <2>4
  <1>5. CASE EnsureReconciled(c)
    BY <1>2, <1>5 DEF EnsureReconciled, Pc, Answer, Refusal
  <1>6. CASE Acquire(c)
    BY <1>2, <1>6 DEF Acquire, Pc, Answer, Refusal
  <1>7. CASE Reserve(c)
    <2>1. CASE Leave(c, "job_limit_reached")
      BY <1>2, <1>7, <2>1 DEF Reserve, Answer, Refusal
    <2>2. CASE call' = [call EXCEPT ![c].pc = "run", ![c].ran = TRUE]
      BY <1>1, <1>7, <2>2 DEF Reserve, ClientTypeOK
    <2>3. QED
      BY <1>7, <2>1, <2>2 DEF Reserve
  <1>8. CASE RecordOutcome(c) \/ Release(c)
    <2>1. PICK pc \in {"release", "done"} :
            /\ Goto(c, pc) /\ call[c].pc \in {"record", "release"} /\ UNCHANGED asked
            /\ call[c].pc = "record" => pc = "release"
      BY <1>8 DEF RecordOutcome, Release
    <2>2. Moves(c, pc, call[c].ran, call[c].answer)
      BY <1>1, <2>1, GotoMoves DEF Pc
    <2>3. QED
      BY <2>1, <2>2 DEF Moves
  <1>9. CASE Cancel(c)
    BY <1>9 DEF Cancel
  <1>10. QED
    BY <1>3, <1>4, <1>5, <1>6, <1>7, <1>8, <1>9 DEF RequestDrop

\* Where a step may take any call, as the channel minds.
CallsMove ==
  \A d \in Call :
    /\ call'[d].pc = "run" => call[d].pc \in {"reserve", "run"}
    /\ call[d].pc \in {"run"} \cup Ended => call'[d].pc \in {"run"} \cup Ended
    /\ call[d].pc = "run" => call'[d].pc = "run" \/ (call'[d].pc = "record" /\ ~publisher[d].pending)
    /\ call[d].pc = "record" /\ ~publisher[d].cleared => call'[d].pc = "record"

\* The channel is left alone, by a call that has cleared it before it goes on.
LEMMA ChannelRests ==
  ASSUME ChannelInv, CallsMove, UNCHANGED channel
  PROVE  ChannelInv'
  <1>1. UNCHANGED <<token, phase, publisher, reader>>
    BY DEF channel
  <1>2. ASSUME NEW d \in Call
        PROVE  /\ call'[d].pc = "run" =>
                    /\ ~publisher[d].cleared
                    /\ publisher[d].last # NoPhase =>
                         phase = publisher[d].last /\ (publisher[d].pending \/ token = d)
               /\ call'[d].pc \notin {"run"} \cup Ended => publisher[d] = Silent
               /\ publisher[d].pending => call'[d].pc = "run" /\ publisher[d].last # NoPhase
    BY DEF ChannelInv, CallsMove, Silent, Ended
  <1>3. token # NoCall => call'[token].pc \in {"run", "record"}
    BY DEF ChannelInv, CallsMove
  <1>4. reader # NoCall => call'[reader].pc \in {"run"} \cup Ended
    BY DEF ChannelInv, CallsMove
  <1>5. QED
    BY <1>1, <1>2, <1>3, <1>4 DEF ChannelInv

\* A drop stores its phase, and then its token; it is the only one that may.
LEMMA StoreStep ==
  ASSUME ClientInv, ChannelInv, NEW c \in Call, NEW p \in SessionPhase, Store(c, p)
  PROVE  ChannelInv'
  <1>1. call[c].pc = "run" /\ UNCHANGED <<call, reader>>
    BY DEF Store, client
  <1>2. \A d \in Call : call[d].pc \in {"run", "record"} => d = c
    BY <1>1 DEF ClientInv, OneHolder, Holds
  <1>3. token # NoCall => token = c
    BY <1>2 DEF ChannelInv
  <1>4. /\ publisher[c] \in [pending : BOOLEAN, last : SessionPhase \cup {NoPhase},
                             cleared : BOOLEAN]
        /\ ~publisher[c].cleared
    BY <1>1 DEF ChannelInv
  <1>5. c # NoCall /\ p # NoPhase
    BY TokenAssumption DEF SessionPhase, NoPhase
  <1>6. ASSUME publisher' \in [Call -> [pending : BOOLEAN, last : SessionPhase \cup {NoPhase},
                                        cleared : BOOLEAN]],
               \A d \in Call \ {c} : publisher'[d] = publisher[d],
               publisher'[c].last = p, ~publisher'[c].cleared, phase' = p,
               token' \in {token, c}, publisher'[c].pending \/ token' = c
        PROVE  ChannelInv'
    <2>1. ASSUME NEW d \in Call
          PROVE  /\ call[d].pc = "run" =>
                      /\ ~publisher'[d].cleared
                      /\ publisher'[d].last # NoPhase =>
                           phase' = publisher'[d].last /\ (publisher'[d].pending \/ token' = d)
                 /\ call[d].pc \notin {"run"} \cup Ended => publisher'[d] = Silent
                 /\ publisher'[d].pending => call[d].pc = "run" /\ publisher'[d].last # NoPhase
      <3>1. CASE d = c
        BY <1>1, <1>5, <1>6, <3>1 DEF Ended
      <3>2. CASE d # c
        BY <1>2, <1>6, <3>2 DEF ChannelInv, Ended
      <3>3. QED
        BY <3>1, <3>2
    <2>2. token' # NoCall => token' = c
      BY <1>3, <1>6
    <2>3. token' \in Call \cup {NoCall}
      BY <1>6 DEF ChannelInv
    <2>4. reader # NoCall => publisher'[reader].last # NoPhase
      BY <1>5, <1>6 DEF ChannelInv
    <2>5. QED
      BY <1>1, <1>5, <1>6, <2>1, <2>2, <2>3, <2>4 DEF ChannelInv
  <1>7. CASE /\ phase' = p /\ UNCHANGED token
             /\ publisher' = [publisher EXCEPT ![c].pending = TRUE, ![c].last = p]
    <2>1. publisher' \in [Call -> [pending : BOOLEAN, last : SessionPhase \cup {NoPhase},
                                   cleared : BOOLEAN]]
      BY <1>4, <1>7 DEF ChannelInv
    <2>2. /\ publisher'[c].last = p /\ publisher'[c].pending /\ ~publisher'[c].cleared
          /\ \A d \in Call \ {c} : publisher'[d] = publisher[d]
      BY <1>4, <1>7 DEF ChannelInv
    <2>3. QED
      BY <1>6, <1>7, <2>1, <2>2
  <1>8. CASE /\ publisher[c].pending /\ publisher[c].last = p /\ token' = c /\ UNCHANGED phase
             /\ publisher' = [publisher EXCEPT ![c].pending = FALSE]
    <2>1. phase = p
      BY <1>1, <1>5, <1>8 DEF ChannelInv
    <2>2. publisher' \in [Call -> [pending : BOOLEAN, last : SessionPhase \cup {NoPhase},
                                   cleared : BOOLEAN]]
      BY <1>4, <1>8 DEF ChannelInv
    <2>3. /\ publisher'[c].last = p /\ ~publisher'[c].cleared
          /\ \A d \in Call \ {c} : publisher'[d] = publisher[d]
      BY <1>4, <1>8 DEF ChannelInv
    <2>4. QED
      BY <1>6, <1>8, <2>1, <2>2, <2>3
  <1>9. QED
    BY <1>7, <1>8 DEF Store

\* A drop that is over takes its name off the channel, if it is there.
LEMMA ClearStep ==
  ASSUME ChannelInv, NEW c \in Call, Clear(c)
  PROVE  ChannelInv'
  <1>1. /\ call[c].pc = "record" /\ UNCHANGED <<call, phase, reader>>
        /\ token' = IF token = c THEN NoCall ELSE token
        /\ publisher' = [publisher EXCEPT ![c].cleared = TRUE]
    BY DEF Clear, client
  <1>2. /\ publisher' \in [Call -> [pending : BOOLEAN, last : SessionPhase \cup {NoPhase},
                                    cleared : BOOLEAN]]
        /\ publisher'[c].last = publisher[c].last /\ publisher'[c].pending = publisher[c].pending
        /\ \A d \in Call \ {c} : publisher'[d] = publisher[d]
    <2>1. publisher \in [Call -> [pending : BOOLEAN, last : SessionPhase \cup {NoPhase},
                                  cleared : BOOLEAN]]
      BY DEF ChannelInv
    <2>2. publisher[c] \in [pending : BOOLEAN, last : SessionPhase \cup {NoPhase}, cleared : BOOLEAN]
      BY <2>1
    <2>3. /\ [publisher[c] EXCEPT !.cleared = TRUE] \in
                [pending : BOOLEAN, last : SessionPhase \cup {NoPhase}, cleared : BOOLEAN]
          /\ [publisher[c] EXCEPT !.cleared = TRUE].last = publisher[c].last
          /\ [publisher[c] EXCEPT !.cleared = TRUE].pending = publisher[c].pending
      BY <2>2
    <2>4. QED
      BY <1>1, <2>1, <2>3
  <1>3. ASSUME NEW d \in Call
        PROVE  /\ call[d].pc = "run" =>
                    /\ ~publisher'[d].cleared
                    /\ publisher'[d].last # NoPhase =>
                         phase = publisher'[d].last /\ (publisher'[d].pending \/ token' = d)
               /\ call[d].pc \notin {"run"} \cup Ended => publisher'[d] = Silent
               /\ publisher'[d].pending => call[d].pc = "run" /\ publisher'[d].last # NoPhase
    <2>1. CASE d = c
      BY <1>1, <1>2, <2>1 DEF ChannelInv, Ended
    <2>2. CASE d # c
      BY <1>1, <1>2, <2>2, TokenAssumption DEF ChannelInv
    <2>3. QED
      BY <2>1, <2>2
  <1>4. token' # NoCall => token' = token /\ token # c
    BY <1>1
  <1>5. QED
    BY <1>1, <1>2, <1>3, <1>4 DEF ChannelInv

\* A poll takes the token that is stored, which names a drop that has stored a phase.
LEMMA PollChannel ==
  ASSUME ChannelInv, LoadPhase \/ \E c \in Call : LoadToken(c)
  PROVE  ChannelInv'
  <1>1. UNCHANGED <<call, token, phase, publisher>> /\ reader' \in {NoCall, token}
    BY DEF LoadPhase, LoadToken, client
  <1>2. QED
    BY <1>1 DEF ChannelInv, Ended

-----------------------------------------------------------------------------
(* The session. *)

\* How a drop goes on from what its solver answered: cancelled only if it was asked to stop.
LEMMA EndSolveIs ==
  ASSUME SessionInv, NEW c \in Call, EndSolve(c)
  PROVE  \/ Store(c, "refreshing")
         \/ /\ UNCHANGED channel
            /\ \E outcome \in Outcome : (outcome = "cancelled" => c \in asked) /\ Finish(c, outcome)
  <1>1. solver = c /\ caller.pc = "returned"
    BY DEF EndSolve
  <1>2. CASE caller.answer \in S!Solved /\ Store(c, "refreshing")
    BY <1>2
  <1>3. CASE /\ caller.answer \notin S!Solved /\ caller.answer.error = "cancelled"
             /\ Finish(c, "cancelled") /\ UNCHANGED channel
    <2>1. caller.answer \in S!Answer \cup {S!Unanswered}
      BY DEF SessionInv, SolverInv, SolverTypes
    <2>2. caller.answer = S!Refusal("cancelled")
      BY <1>3, <2>1 DEF S!Answer, S!Unanswered, S!Refusal
    <2>3. c \in asked
      BY <1>1, <2>2, SolverKeepsItsWord DEF SessionInv, S!CancelledWasAsked
    <2>4. QED
      BY <1>3, <2>3 DEF Outcome
  <1>4. CASE Finish(c, "failed") /\ UNCHANGED channel
    BY <1>4 DEF Outcome
  <1>5. CASE IsCancelled(c) /\ Finish(c, "cancelled") /\ UNCHANGED channel
    <2>1. c \in asked
      BY <1>5, TokenAssumption DEF SessionInv, ClientInv, CancelAsked, IsCancelled
    <2>2. QED
      BY <1>5, <2>1 DEF Outcome
  <1>6. QED
    BY <1>2, <1>3, <1>4, <1>5 DEF EndSolve

\* Every step of the session is one of request_drop, the end of a drop, or none of its client's.
LEMMA ClientSteps ==
  ASSUME SessionInv, [Next]_vars
  PROVE  ClientNext
  <1>1. CASE UNCHANGED vars
    BY <1>1 DEF vars, ClientNext
  <1>2. CASE SolverStep \/ Poll
    BY <1>2 DEF SolverStep, Poll, LoadPhase, LoadToken, ClientNext
  <1>3. ASSUME NEW c \in Call, Request(c)
        PROVE  ClientNext
    <2>1. CASE RequestDrop(c)
      BY <2>1 DEF ClientNext
    <2>2. CASE Clear(c) \/ Publish(c) \/ BeginSolve(c)
      BY <2>2 DEF Clear, Publish, Store, BeginSolve, ClientNext
    <2>3. CASE EndSolve(c)
      <3>1. CASE Store(c, "refreshing")
        BY <3>1 DEF Store, ClientNext
      <3>2. CASE \E outcome \in Outcome : (outcome = "cancelled" => c \in asked) /\ Finish(c, outcome)
        BY <2>3, <3>2 DEF EndSolve, At, EndsDrop, ClientNext
      <3>3. QED
        BY <2>3, <3>1, <3>2, EndSolveIs
    <2>4. CASE EndDrop(c)
      <3>1. call[c].pc = "run"
        BY <2>4 DEF EndDrop, At
      <3>2. \E outcome \in Outcome : (outcome = "cancelled" => IsCancelled(c)) /\ Finish(c, outcome)
        BY <2>4 DEF EndDrop, Outcome
      <3>3. QED
        BY <3>1, <3>2 DEF EndsDrop, ClientNext
    <2>5. QED
      BY <1>3, <2>1, <2>2, <2>3, <2>4 DEF Request
  <1>4. QED
    BY <1>1, <1>2, <1>3 DEF Next

\* While a drop solves, only its own solver has a step to make for it.
LEMMA SolvesAlone ==
  ASSUME SessionInv, NEW c \in Call, call[c].pc = "run", solver # NoCall
  PROVE  /\ c = solver /\ publisher[c].last = "solving" /\ ~publisher[c].pending
         /\ token = c /\ phase = "solving" /\ dropActive
  <1>1. solver \in Call /\ At(solver, "solving")
    BY DEF SessionInv, SolverRuns
  <1>2. c = solver /\ dropActive
    BY <1>1 DEF At, SessionInv, ClientInv, OneHolder, Holds
  <1>3. publisher[c].last # NoPhase
    BY <1>1, <1>2 DEF At, NoPhase
  <1>4. QED
    BY <1>1, <1>2, <1>3 DEF At, SessionInv, ChannelInv

LEMMA SessionInvInit == Init => SessionInv
  <1> SUFFICES ASSUME Init PROVE SessionInv
    OBVIOUS
  <1>1. ClientInv
    BY ClientInvInit DEF Init
  <1>2. ChannelInv
    BY DEF Init, ClientInit, ChannelInit, ChannelInv, Silent, Unborn, Ended, SessionPhase, NoPhase
  <1>3. SolverRuns
    BY DEF Init, SolverRuns
  <1>4. SolverInv
    BY FreshSolver DEF Init
  <1>5. QED
    BY <1>1, <1>2, <1>3, <1>4 DEF SessionInv

\* The solver has made way for another, or for none.
LEMMA FreshIsFit == S!Fresh => SolverInv
  BY FreshSolver

LEMMA FreshIsFitNext == S!Fresh' => SolverInv'
  BY FreshIsFit, PTL

LEMMA BeginsFresh ==
  ASSUME NEW chosen, S!Begin(chosen)
  PROVE  S!Fresh' /\ SolverInv'
  <1>1. S!Fresh'
    BY DEF S!Begin, S!Fresh, S!Ready, S!Unborn, S!Unanswered
  <1>2. QED
    BY <1>1, FreshIsFitNext

-----------------------------------------------------------------------------
LEMMA FinishMovesOn ==
  ASSUME ClientInv, NEW c \in Call, call[c].pc = "run", ~publisher[c].pending,
         NEW outcome \in Outcome, Finish(c, outcome)
  PROVE  CallsMove /\ UNCHANGED asked
  <1>1. Moves(c, "record", call[c].ran, outcome)
    BY FinishMoves DEF ClientInv
  <1>2. UNCHANGED asked
    BY DEF Finish
  <1>3. QED
    BY <1>1, <1>2 DEF Moves, CallsMove, Ended

\* A step of request_drop outside the drop leaves the drop that runs where it is.
LEMMA RequestSession ==
  ASSUME SessionInv, NEW c \in Call, RequestDrop(c), Call_(c), UNCHANGED <<solving, solver>>
  PROVE  ChannelInv' /\ SolverRuns' /\ SolverInv'
  <1>1. UNCHANGED channel /\ (call[c].pc = "record" => publisher[c].cleared \/ call'[c] = call[c])
    BY DEF Call_
  <1>2. CallsMove
    <2>1. ClientInv /\ ChannelInv
      BY DEF SessionInv
    <2>2. call[c].pc = "record" => call'[c].pc \in {"record", "release"}
      BY <2>1, RequestMoves
    <2>3. ASSUME NEW d \in Call
          PROVE  /\ call'[d].pc = "run" => call[d].pc \in {"reserve", "run"}
                 /\ call[d].pc \in {"run"} \cup Ended => call'[d].pc \in {"run"} \cup Ended
                 /\ call[d].pc = "run" =>
                      call'[d].pc = "run" \/ (call'[d].pc = "record" /\ ~publisher[d].pending)
                 /\ call[d].pc = "record" /\ ~publisher[d].cleared => call'[d].pc = "record"
      <3>1. CASE d = c
        BY <1>1, <2>1, <2>2, <3>1, RequestMoves DEF Ended
      <3>2. CASE d # c
        BY <2>1, <3>2, RequestMoves DEF Ended
      <3>3. QED
        BY <3>1, <3>2
    <2>4. QED
      BY <2>3 DEF CallsMove
  <1>3. ChannelInv'
    BY <1>1, <1>2, ChannelRests DEF SessionInv
  <1>4. SolverRuns'
    <2>1. solver # NoCall => call'[solver].pc = "run"
      BY RequestMoves DEF SessionInv, SolverRuns, At
    <2>2. S!Fresh' = S!Fresh
      BY DEF solving, S!Fresh
    <2>3. QED
      BY <1>1, <2>1, <2>2 DEF SessionInv, SolverRuns, At, channel
  <1>5. SolverInv'
    BY RequestMoves, SolverRests DEF SessionInv
  <1>6. QED
    BY <1>3, <1>4, <1>5

\* The drop that publishes is not one that solves.
LEMMA PublishSession ==
  ASSUME SessionInv, NEW c \in Call, Publish(c)
  PROVE  ChannelInv' /\ SolverRuns' /\ SolverInv'
  <1>1. UNCHANGED <<solving, solver>>
    BY DEF Publish
  <1>2. PICK p \in SessionPhase : Store(c, p)
    BY DEF Publish, SessionInv, ChannelInv, SessionPhase
  <1>3. ChannelInv'
    BY <1>2, StoreStep DEF SessionInv
  <1>4. call[c].pc = "run" /\ UNCHANGED asked
    BY <1>2 DEF Store, client
  <1>5. solver = NoCall
    BY <1>4, SolvesAlone DEF Publish, At, NoPhase
  <1>6. SolverRuns'
    BY <1>1, <1>5 DEF SessionInv, SolverRuns, S!Fresh, solving
  <1>7. SolverInv'
    BY <1>1, <1>4, SolverRests DEF SessionInv
  <1>8. QED
    BY <1>3, <1>6, <1>7

LEMMA ClearSession ==
  ASSUME SessionInv, NEW c \in Call, Clear(c), UNCHANGED <<solving, solver>>
  PROVE  ChannelInv' /\ SolverRuns' /\ SolverInv'
  <1>1. ChannelInv'
    BY ClearStep DEF SessionInv
  <1>2. call[c].pc = "record" /\ UNCHANGED <<call, asked>>
    BY DEF Clear, client
  <1>3. solver # NoCall => solver # c /\ publisher'[solver] = publisher[solver]
    BY <1>2 DEF Clear, SessionInv, SolverRuns, At, ChannelInv
  <1>4. SolverRuns'
    BY <1>2, <1>3 DEF SessionInv, SolverRuns, At, S!Fresh, solving
  <1>5. SolverInv'
    BY <1>2, SolverRests DEF SessionInv
  <1>6. QED
    BY <1>1, <1>4, <1>5

LEMMA BeginSolveSession ==
  ASSUME SessionInv, NEW c \in Call, BeginSolve(c)
  PROVE  ChannelInv' /\ SolverRuns' /\ SolverInv'
  <1>1. /\ At(c, "solving") /\ solver' = c /\ UNCHANGED <<client, channel>>
        /\ \E chosen \in S!Challenges : S!Begin(chosen)
    BY DEF BeginSolve
  <1>2. SolverInv'
    BY <1>1, BeginsFresh
  <1>3. ChannelInv'
    BY <1>1, ChannelRests DEF SessionInv, CallsMove, client, ChannelInv
  <1>4. c # NoCall
    BY TokenAssumption
  <1>5. SolverRuns'
    BY <1>1, <1>4 DEF SolverRuns, At, client, channel
  <1>6. QED
    BY <1>2, <1>3, <1>5

\* The solve is over: the drop goes on, or ends.
LEMMA EndSolveSession ==
  ASSUME SessionInv, NEW c \in Call, EndSolve(c)
  PROVE  ChannelInv' /\ SolverRuns' /\ SolverInv'
  <1>1. At(c, "solving") /\ solver' = NoCall /\ S!Begin(NoChallenge)
    BY DEF EndSolve
  <1>2. SolverRuns' /\ SolverInv'
    BY <1>1, BeginsFresh DEF SolverRuns
  <1>3. ChannelInv'
    <2>1. CASE Store(c, "refreshing")
      BY <2>1, StoreStep DEF SessionInv, SessionPhase
    <2>2. CASE UNCHANGED channel /\ \E outcome \in Outcome : Finish(c, outcome)
      BY <1>1, <2>2, FinishMovesOn, ChannelRests DEF At, SessionInv
    <2>3. QED
      BY <2>1, <2>2, EndSolveIs
  <1>4. QED
    BY <1>2, <1>3

LEMMA EndDropSession ==
  ASSUME SessionInv, NEW c \in Call, EndDrop(c)
  PROVE  ChannelInv' /\ SolverRuns' /\ SolverInv'
  <1>1. /\ call[c].pc = "run" /\ ~publisher[c].pending
        /\ publisher[c].last \in {"inspecting", "refreshing", "submitting"}
        /\ UNCHANGED <<channel, solving, solver>>
        /\ \E outcome \in Outcome : Finish(c, outcome)
    BY DEF EndDrop, At, Outcome
  <1>2. CallsMove /\ UNCHANGED asked
    BY <1>1, FinishMovesOn DEF SessionInv
  <1>3. ChannelInv'
    BY <1>1, <1>2, ChannelRests DEF SessionInv
  <1>4. solver = NoCall
    BY <1>1, SolvesAlone
  <1>5. SolverRuns'
    BY <1>1, <1>4 DEF SessionInv, SolverRuns, S!Fresh, solving
  <1>6. SolverInv'
    BY <1>1, <1>2, SolverRests DEF SessionInv
  <1>7. QED
    BY <1>3, <1>5, <1>6

\* Steps that leave the calls alone.
LEMMA OtherSession ==
  ASSUME SessionInv, SolverStep \/ Poll \/ UNCHANGED vars
  PROVE  ChannelInv' /\ SolverRuns' /\ SolverInv'
  <1>1. CASE SolverStep
    <2>1. solver # NoCall /\ UNCHANGED <<client, channel, solver>>
      BY <1>1 DEF SolverStep
    <2>2. ChannelInv'
      BY <2>1, ChannelRests DEF SessionInv, CallsMove, client, ChannelInv
    <2>3. SolverRuns'
      BY <2>1 DEF SessionInv, SolverRuns, At, client, channel
    <2>4. SolverInv'
      BY <1>1, SolverSteps DEF SessionInv, ClientInv
    <2>5. QED
      BY <2>2, <2>3, <2>4
  <1>2. CASE Poll
    <2>1. UNCHANGED <<client, publisher, solving, solver>>
      BY <1>2 DEF Poll, LoadPhase, LoadToken
    <2>2. ChannelInv'
      BY <1>2, PollChannel DEF Poll, SessionInv
    <2>3. SolverRuns'
      BY <2>1 DEF SessionInv, SolverRuns, At, client, S!Fresh, solving
    <2>4. SolverInv'
      BY <2>1, SolverRests DEF SessionInv, client
    <2>5. QED
      BY <2>2, <2>3, <2>4
  <1>3. CASE UNCHANGED vars
    <2>1. UNCHANGED <<client, channel, solving, solver>>
      BY <1>3 DEF vars
    <2>2. ChannelInv'
      BY <2>1, ChannelRests DEF SessionInv, CallsMove, client, ChannelInv
    <2>3. SolverRuns'
      BY <2>1 DEF SessionInv, SolverRuns, At, client, channel, S!Fresh, solving
    <2>4. SolverInv'
      BY <2>1, SolverRests DEF SessionInv, client
    <2>5. QED
      BY <2>2, <2>3, <2>4
  <1>4. QED
    BY <1>1, <1>2, <1>3

LEMMA SessionInvNext == SessionInv /\ [Next]_vars => SessionInv'
  <1> SUFFICES ASSUME SessionInv, [Next]_vars PROVE SessionInv'
    OBVIOUS
  <1>1. ClientInv'
    BY ClientSteps, ClientInvNext DEF SessionInv
  <1>2. ChannelInv' /\ SolverRuns' /\ SolverInv'
    <2>1. ASSUME NEW c \in Call, Request(c)
          PROVE  ChannelInv' /\ SolverRuns' /\ SolverInv'
      BY <2>1, RequestSession, ClearSession, PublishSession, BeginSolveSession, EndSolveSession,
         EndDropSession DEF Request
    <2>2. QED
      BY <2>1, OtherSession DEF Next
  <1>3. QED
    BY <1>1, <1>2 DEF SessionInv

\* PhaseChannel: a poll of a drop that runs is answered with the phase that drop last stored, the
\* channel names no drop that has ended, and keeps the token of the one that runs, however the
\* loads, the stores and the guards interleave.
THEOREM ChannelNamesItsDrop == Spec => []ChannelIsOwn
  <1>1. SessionInv => ChannelIsOwn
    BY DEF SessionInv, ChannelInv, ChannelIsOwn, ChannelIsOfLiveDrop, ChannelShowsLiveDrop,
           PollOfLiveIsOwn, Ended
  <1>2. QED
    BY <1>1, SessionInvInit, SessionInvNext, PTL DEF Spec

\* solve_with_deadline and request_drop: cancelled is answered only to a drop that was asked to
\* stop, the attempt limit only when no candidate of the budget solves, a solution is one.
THEOREM SolveAnswersTheTruth == Spec => []SolveIsHonest
  <1>1. SessionInv => SolveIsHonest
    BY SolverKeepsItsWord, ClientInvScopesCancel DEF SessionInv, SolveIsHonest
  <1>2. QED
    BY <1>1, SessionInvInit, SessionInvNext, PTL DEF Spec

\* The blocking thread of a solve is gone when its call has returned, tries no more than an
\* interval after the deadline, and runs only for the drop that holds the permit and is seen to
\* be solving.
THEOREM NoSolveOutlivesItsDrop == Spec => []SolveStops
  <1>1. ASSUME SessionInv
        PROVE  SpinIsAccountedFor
    <2>1. SUFFICES ASSUME active
                   PROVE  /\ dropActive /\ call[solver].pc = "run"
                          /\ token = solver /\ phase = "solving"
      BY DEF SpinIsAccountedFor
    <2>2. solver # NoCall
      BY <1>1, <2>1 DEF SessionInv, SolverRuns, S!Fresh
    <2>3. solver \in Call /\ call[solver].pc = "run"
      BY <1>1, <2>2 DEF SessionInv, SolverRuns, At
    <2>4. QED
      BY <1>1, <2>2, <2>3, SolvesAlone
  <1>2. SessionInv => SolveStops
    BY <1>1, SolverKeepsItsWord DEF SessionInv, SolveStops
  <1>3. QED
    BY <1>2, SessionInvInit, SessionInvNext, PTL DEF Spec

=============================================================================
