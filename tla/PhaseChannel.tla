---------------------------- MODULE PhaseChannel ----------------------------
(***************************************************************************)
(* The live phase of a drop (client.rs, PhaseChannel): the thread that     *)
(* runs the drop publishes where it is in two atomics, and other threads   *)
(* poll them with two loads, without a lock.                               *)
(*                                                                         *)
(* That two atomics are enough rests on the permit of FaucetClient, which  *)
(* this module extends: the thread that publishes holds it.  Which phases  *)
(* a drop goes through is in DropSession.                                  *)
(***************************************************************************)
EXTENDS FaucetClient

CONSTANT Phase  \* DropPhase

NoPhase == "nophase"

ASSUME PhaseAssumption == NoPhase \notin Phase

VARIABLES
  token,      \* the operation that is reported, or NoCall
  phase,      \* where it has got to
  publisher,  \* what each call has done with the channel
  reader      \* a poll of lez_faucet_current_phase between its two loads: of which call

channel == <<token, phase, publisher, reader>>

-----------------------------------------------------------------------------
Silent == [pending |-> FALSE, last |-> NoPhase, cleared |-> FALSE]

ChannelTypeOK ==
  /\ token     \in Call \cup {NoCall}
  /\ phase     \in Phase \cup {NoPhase}
  /\ publisher \in [Call -> [pending : BOOLEAN, last : Phase \cup {NoPhase}, cleared : BOOLEAN]]
  /\ reader    \in Call \cup {NoCall}

ChannelInit ==
  /\ token     = NoCall
  /\ phase     = NoPhase
  /\ publisher = [c \in Call |-> Silent]
  /\ reader    = NoCall

-----------------------------------------------------------------------------
(* The thread of the drop. *)

\* Mutant: the token is stored first.
StoreTokenFirst(c, p) ==
  /\ call[c].pc = "run"
  /\ \/ /\ ~publisher[c].pending
        /\ token' = c
        /\ publisher' = [publisher EXCEPT ![c].pending = TRUE, ![c].last = p]
        /\ UNCHANGED phase
     \/ /\ publisher[c].pending /\ publisher[c].last = p
        /\ phase' = p
        /\ publisher' = [publisher EXCEPT ![c].pending = FALSE]
        /\ UNCHANGED token
  /\ UNCHANGED <<client, reader>>

\* publish: the phase is stored, and then the token.
Store(c, p) ==
  /\ call[c].pc = "run"
  /\ \/ /\ ~publisher[c].pending
        /\ phase' = p
        /\ publisher' = [publisher EXCEPT ![c].pending = TRUE, ![c].last = p]
        /\ UNCHANGED token
     \/ /\ publisher[c].pending /\ publisher[c].last = p
        /\ token' = c
        /\ publisher' = [publisher EXCEPT ![c].pending = FALSE]
        /\ UNCHANGED phase
  /\ UNCHANGED <<client, reader>>

\* PhaseGuard, when run_pinata_drop or run_claim_api_drop returns: before its outcome is
\* recorded and the permit released.
Clear(c) ==
  /\ call[c].pc = "record"
  /\ ~publisher[c].cleared
  /\ token' = IF token = c THEN NoCall ELSE token
  /\ publisher' = [publisher EXCEPT ![c].cleared = TRUE]
  /\ UNCHANGED <<client, phase, reader>>

\* What the call does outside the drop, and the cancellations.
Call_(c) ==
  /\ call[c].pc = "record" => publisher[c].cleared \/ call'[c] = call[c]
  /\ UNCHANGED channel

-----------------------------------------------------------------------------
(* A thread that polls. *)

\* current, the first load.  Of any other token than the stored one the answer is no phase.
LoadToken(c) ==
  /\ reader = NoCall
  /\ token = c
  /\ reader' = c
  /\ UNCHANGED <<client, token, phase, publisher>>

\* current, the second load: the answer is `phase`.
LoadPhase ==
  /\ reader # NoCall
  /\ reader' = NoCall
  /\ UNCHANGED <<client, token, phase, publisher>>

-----------------------------------------------------------------------------
\* The channel never names an operation beside a phase of another, and names none that has
\* ended: the next drop can publish only when its predecessor has cleared the channel.
ChannelIsOfLiveDrop ==
  token # NoCall =>
    /\ call[token].pc \in {"run", "record"}
    /\ phase = publisher[token].last

\* A drop that runs and has published is not silenced: the guard of another never clears the
\* channel it has written.
ChannelShowsLiveDrop ==
  \A c \in Call :
    call[c].pc = "run" /\ publisher[c].last # NoPhase /\ ~publisher[c].pending => token = c

\* A poll of an operation that is still running answers with the phase it last stored,
\* whatever came between the two loads.
PollOfLiveIsOwn ==
  reader # NoCall /\ call[reader].pc = "run" => phase = publisher[reader].last

=============================================================================
