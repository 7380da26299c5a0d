---------------------------- MODULE FaucetClient ----------------------------
(***************************************************************************)
(* lez_faucet_request_drop, around the drop itself: what FaucetClient      *)
(* (lez-faucet-ffi/src/client.rs) does so that a request key is run once,  *)
(* one drop is live at a time, and no recipient with an unproven claim is  *)
(* sent another.                                                           *)
(*                                                                         *)
(* The calls come from several threads.  Every lock and every access to an *)
(* atomic is a step.  What a drop does between Reserve and Record depends  *)
(* on the network and is in the modules that extend this one.              *)
(***************************************************************************)
EXTENDS Integers, FiniteSets

CONSTANTS
  Call,       \* calls of request_drop; each has an operation token of its own
  Key,        \* request keys
  Account,    \* recipients
  MaxRecords  \* MAX_IDEMPOTENCY_RECORDS

NoCall    == "nocall"
Prize     == 1
NoBalance == -1   \* could not be read

ASSUME TokenAssumption   == NoCall \notin Call
ASSUME RecordsAssumption == MaxRecords \in Nat

VARIABLES
  records,       \* idempotency: what is known of each key
  unreconciled,  \* accounts with a claim whose outcome was never proven
  dropActive,    \* drop_active, the permit
  cancelled,     \* Cancellation: the one token that is asked to stop
  asked,         \* history: the tokens cancel was called with
  call           \* the calls

client == <<records, unreconciled, dropActive, cancelled, asked, call>>

-----------------------------------------------------------------------------
Outcome == {"credited", "failed", "cancelled", "unknown"}
Refusal == {"in_progress", "conflict", "recipient_unreconciled", "job_limit_reached"}

NoRecord == [outcome |-> "unused"]
Record   == [account : Account, outcome : Outcome \cup {"in_progress"}]

\* `ran` tells the call that ran its key's drop from those that were answered for it.
Unborn == [pc |-> "unborn"]
Begun  ==
  [pc : {"replay", "reconciled", "permit", "replay again", "reconciled again", "reserve", "run",
         "record", "release", "done"},
   key : Key, account : Account, ran : BOOLEAN, answer : Outcome \cup Refusal \cup {"none"}]

ClientTypeOK ==
  /\ records      \in [Key -> Record \cup {NoRecord}]
  /\ unreconciled \in SUBSET Account
  /\ dropActive   \in BOOLEAN
  /\ cancelled    \in Call \cup {NoCall}
  /\ asked        \in SUBSET Call
  /\ call         \in [Call -> Begun \cup {Unborn}]

ClientInit ==
  /\ records      = [k \in Key |-> NoRecord]
  /\ unreconciled = {}
  /\ dropActive   = FALSE
  /\ cancelled    = NoCall
  /\ asked        = {}
  /\ call         = [c \in Call |-> Unborn]

Born == {c \in Call : call[c] # Unborn}
Ran  == {c \in Born : call[c].ran}

Goto(c, pc) == call' = [call EXCEPT ![c].pc = pc]

\* The call is answered; if it holds the permit it gives it back.
Leave(c, answer) ==
  call' = [call EXCEPT ![c].answer = answer,
             ![c].pc = IF @ \in {"replay again", "reconciled again", "reserve"}
                       THEN "release" ELSE "done"]

IsCancelled(c) == cancelled = c

-----------------------------------------------------------------------------
(* request_drop, with a valid key and address. *)

Begin(c) ==
  /\ call[c] = Unborn
  /\ \E k \in Key, a \in Account :
       call' = [call EXCEPT ![c] = [pc |-> "replay", key |-> k, account |-> a, ran |-> FALSE,
                                    answer |-> "none"]]
  /\ UNCHANGED <<records, unreconciled, dropActive, cancelled, asked>>

Replay(c) ==
  /\ call[c].pc \in {"replay", "replay again"}
  /\ LET known == records[call[c].key] IN
     IF known = NoRecord
     THEN Goto(c, IF call[c].pc = "replay" THEN "reconciled" ELSE "reconciled again")
     ELSE Leave(c, IF known.account # call[c].account THEN "conflict" ELSE known.outcome)
  /\ UNCHANGED <<records, unreconciled, dropActive, cancelled, asked>>

EnsureReconciled(c) ==
  /\ call[c].pc \in {"reconciled", "reconciled again"}
  /\ IF call[c].account \in unreconciled
     THEN Leave(c, "recipient_unreconciled")
     ELSE Goto(c, IF call[c].pc = "reconciled" THEN "permit" ELSE "reserve")
  /\ UNCHANGED <<records, unreconciled, dropActive, cancelled, asked>>

\* Mutant: what was checked before the permit is not checked again under it.
AcquireUnchecked(c) ==
  /\ call[c].pc = "permit"
  /\ IF dropActive THEN Leave(c, "in_progress") ELSE Goto(c, "reserve")
  /\ dropActive' = TRUE
  /\ UNCHANGED <<records, unreconciled, cancelled, asked>>

Acquire(c) ==
  /\ call[c].pc = "permit"
  /\ IF dropActive THEN Leave(c, "in_progress") ELSE Goto(c, "replay again")
  /\ dropActive' = TRUE
  /\ UNCHANGED <<records, unreconciled, cancelled, asked>>

\* A full table refuses the key: to forget another would let that one run again.
Reserve(c) ==
  /\ call[c].pc = "reserve"
  /\ IF Cardinality({k \in Key : records[k] # NoRecord}) >= MaxRecords
     THEN Leave(c, "job_limit_reached") /\ UNCHANGED records
     ELSE /\ records' = [records EXCEPT ![call[c].key] =
                           [account |-> call[c].account, outcome |-> "in_progress"]]
          /\ call' = [call EXCEPT ![c].pc = "run", ![c].ran = TRUE]
  /\ UNCHANGED <<unreconciled, dropActive, cancelled, asked>>

\* Ends the drop itself; an unknown outcome marks the recipient.
Finish(c, outcome) ==
  /\ call' = [call EXCEPT ![c].pc = "record", ![c].answer = outcome]
  /\ unreconciled' = IF outcome = "unknown"
                     THEN unreconciled \cup {call[c].account} ELSE unreconciled
  /\ UNCHANGED <<records, dropActive, cancelled, asked>>

RecordOutcome(c) ==
  /\ call[c].pc = "record"
  /\ records' = [records EXCEPT ![call[c].key].outcome = call[c].answer]
  /\ Goto(c, "release")
  /\ UNCHANGED <<unreconciled, dropActive, cancelled, asked>>

Release(c) ==
  /\ call[c].pc = "release"
  /\ dropActive' = FALSE
  /\ Goto(c, "done")
  /\ UNCHANGED <<records, unreconciled, cancelled, asked>>

\* lez_faucet_cancel, from any thread and for any call, running or not.
Cancel(c) ==
  /\ c \notin asked
  /\ cancelled' = c
  /\ asked' = asked \cup {c}
  /\ UNCHANGED <<records, unreconciled, dropActive, call>>

RequestDrop(c) ==
  \/ Begin(c)
  \/ Replay(c)
  \/ EnsureReconciled(c)
  \/ Acquire(c)
  \/ Reserve(c)
  \/ RecordOutcome(c)
  \/ Release(c)
  \/ Cancel(c)

-----------------------------------------------------------------------------
(* What a round of observations of a submitted claim proves. *)

\* Mutant: the credit is taken for proof, whoever made it.
ClassifyByBalance(before, included, seen, rotated) ==
  IF seen \notin {NoBalance, before, before + Prize} THEN "unattributable"
  ELSE IF seen = before + Prize THEN "credited"
  ELSE IF included = "yes" THEN IF seen = NoBalance THEN "continue" ELSE "unattributable"
  ELSE IF included = "no" /\ seen = before /\ rotated = "yes" THEN "lost_race"
  ELSE "continue"

\* Mutant: a claim that is not on the chain when the challenge has moved has lost, whatever the
\* balance says.
ClassifyByRotation(before, included, seen, rotated) ==
  IF seen \notin {NoBalance, before, before + Prize} THEN "unattributable"
  ELSE IF included = "yes"
  THEN IF seen = before + Prize THEN "credited"
       ELSE IF seen = NoBalance THEN "continue" ELSE "unattributable"
  ELSE IF included = "no" /\ rotated = "yes" THEN "lost_race"
  ELSE "continue"

Classify(before, included, seen, rotated) ==
  IF seen \notin {NoBalance, before, before + Prize} THEN "unattributable"
  ELSE IF included = "yes"
  THEN IF seen = before + Prize THEN "credited"
       ELSE IF seen = NoBalance THEN "continue" ELSE "unattributable"
  ELSE IF included = "no" /\ seen = before /\ rotated = "yes" THEN "lost_race"
  ELSE "continue"

-----------------------------------------------------------------------------
\* A key is run once, and every call for that key and account that is given an outcome is
\* given the outcome of that run.
OneRunPerKey ==
  \A c \in Ran, d \in Born :
    /\ d \in Ran /\ call[d].key = call[c].key => d = c
    /\ /\ call[d].pc = "done"
       /\ call[d].answer \in Outcome
       /\ call[d].key = call[c].key
       => call[d].account = call[c].account /\ call[d].answer = call[c].answer

\* A drop ends as cancelled only if its own token was asked to stop: a late cancel of an
\* earlier call does not reach it.
CancelIsScoped == \A c \in Ran : call[c].answer = "cancelled" => c \in asked

=============================================================================
