---------------------------- MODULE DropSession ----------------------------
(***************************************************************************)
(* A drop as its own process sees it: the permit and the records of        *)
(* FaucetClient, the phase it publishes, and the thread that solves for    *)
(* it (client.rs, request_drop and run_pinata_drop).                       *)
(*                                                                         *)
(* What the network answers is in PinataDrop; here a step of the drop may  *)
(* succeed or fail.  A drop solves once.                                   *)
(***************************************************************************)
EXTENDS PhaseChannel, SolverConstants

VARIABLES
  challenge, caller, worker, active, timedOut, late,  \* of the solver
  solver                                              \* the call it last solved for

solving == <<challenge, caller, worker, active, timedOut, late>>
vars    == <<client, channel, solving, solver>>

\* The solver polls the cancellation for the call it solves for.
S == INSTANCE Solver WITH
  cancel <- solver # NoCall /\ IsCancelled(solver),
  asked  <- solver \in asked

-----------------------------------------------------------------------------
\* Between two solves the challenge is of no matter.
NoChallenge == CHOOSE c \in S!Challenges : TRUE

TypeOK ==
  /\ ClientTypeOK
  /\ ChannelTypeOK
  /\ S!TypeOK
  /\ solver \in Call \cup {NoCall}

Init ==
  /\ ClientInit
  /\ ChannelInit
  /\ challenge = NoChallenge
  /\ S!Fresh
  /\ solver    = NoCall

-----------------------------------------------------------------------------
(* The drop of call c. *)

\* Where it is: the phase it published last, once both stores are done.
At(c, p) == call[c].pc = "run" /\ publisher[c].last = p /\ ~publisher[c].pending

\* `at`: a phase is published before its step is taken.
Publish(c) ==
  /\ \/ publisher[c].pending        /\ Store(c, publisher[c].last)
     \/ publisher[c].last = NoPhase /\ Store(c, "inspecting")
     \/ At(c, "inspecting")         /\ Store(c, "solving")
     \/ At(c, "refreshing")         /\ Store(c, "submitting")
  /\ UNCHANGED <<solving, solver>>

\* solve_with_deadline is called with the challenge that was read.
BeginSolve(c) ==
  /\ At(c, "solving")
  /\ solver = NoCall
  /\ solver' = c
  /\ \E chosen \in S!Challenges : S!Begin(chosen)
  /\ UNCHANGED <<client, channel>>

SolverStep ==
  /\ solver # NoCall
  /\ UNCHANGED <<client, channel, solver>>
  /\ S!Task \/ S!Deadline \/ S!Thread

\* The drop goes on with what its solver answered; one that was cancelled ends here.
EndSolve(c) ==
  /\ At(c, "solving")
  /\ solver = c
  /\ caller.pc = "returned"
  /\ solver' = NoCall
  /\ S!Begin(NoChallenge)
  /\ IF caller.answer \in S!Solved
     THEN \/ Store(c, "refreshing")
          \/ IsCancelled(c) /\ Finish(c, "cancelled") /\ UNCHANGED channel
     ELSE /\ Finish(c, IF caller.answer.error = "cancelled" THEN "cancelled" ELSE "failed")
          /\ UNCHANGED channel

\* The drop ends before it solves, or before or after it submits.  It asks for the cancellation
\* until it submits, and not from there on.
EndDrop(c) ==
  /\ \/ /\ At(c, "inspecting") \/ At(c, "refreshing")
        /\ Finish(c, "failed") \/ (IsCancelled(c) /\ Finish(c, "cancelled"))
     \/ At(c, "submitting") /\ \E outcome \in Outcome \ {"cancelled"} : Finish(c, outcome)
  /\ UNCHANGED <<channel, solving, solver>>

Request(c) ==
  \/ /\ RequestDrop(c)
     /\ Call_(c)
     /\ UNCHANGED <<solving, solver>>
  \/ Clear(c) /\ UNCHANGED <<solving, solver>>
  \/ Publish(c)
  \/ BeginSolve(c)
  \/ EndSolve(c)
  \/ EndDrop(c)

Poll ==
  /\ LoadPhase \/ \E c \in Call : LoadToken(c)
  /\ UNCHANGED <<solving, solver>>

Next == SolverStep \/ Poll \/ \E c \in Call : Request(c)

Spec == Init /\ [][Next]_vars

\* Threads run, and the deadline of a solve comes if nothing else ends it.
Progress(c) ==
  \/ /\ Replay(c) \/ EnsureReconciled(c) \/ Acquire(c) \/ Reserve(c) \/ RecordOutcome(c)
        \/ Release(c)
     /\ Call_(c)
     /\ UNCHANGED <<solving, solver>>
  \/ Clear(c) /\ UNCHANGED <<solving, solver>>
  \/ Publish(c)
  \/ BeginSolve(c)
  \/ EndSolve(c)
  \/ EndDrop(c)

FairSpec ==
  /\ Spec
  /\ \A c \in Call : WF_vars(Progress(c))
  /\ WF_vars(SolverStep)

-----------------------------------------------------------------------------
\* The phase a poll is answered with is of the drop it asked about, as long as that drop runs;
\* the channel names no drop that has ended, and no phase of another beside it; and no drop that
\* runs loses it to the guard of one that ended.
ChannelIsOwn == ChannelIsOfLiveDrop /\ ChannelShowsLiveDrop /\ PollOfLiveIsOwn

\* What a solve and its drop answer is true: cancelled only if this drop was asked to stop;
\* out of attempts only when no candidate of the budget was a solution; solved by a solution.
SolveIsHonest == CancelIsScoped /\ S!CancelledWasAsked /\ S!AnswerIsEarned

\* A thread that burns a core does so for the drop that holds the permit, and a poll says so:
\* the next drop is admitted only when the last one's thread is gone.
SpinIsAccountedFor ==
  active => /\ dropActive
            /\ call[solver].pc = "run"
            /\ token = solver /\ phase = "solving"

\* "A timed-out solve must never leave a core spinning": no thread outlives its call, one that
\* was told to stop does so within an interval, and none runs for a drop that is over.
SolveStops == S!NoSpinAfterReturn /\ S!StopsPromptly /\ SpinIsAccountedFor

\* Every request_drop returns: the solve ends, and the permit of one that ran is given back.
DropsEnd == \A c \in Call : call[c] # Unborn ~> call[c].pc = "done"

=============================================================================
