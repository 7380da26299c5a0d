------------------------- MODULE FaucetClientProofs -------------------------
(***************************************************************************)
(* What request_drop guarantees about keys, permits and cancellations, for *)
(* every number of calls, keys and accounts, and whatever a drop does      *)
(* between Reserve and Record.                                             *)
(***************************************************************************)
EXTENDS FaucetClient, TLAPS

-----------------------------------------------------------------------------
(* What a step does to the calls. *)

\* A drop that runs ends, as cancelled only when its token is asked to stop, now or while it solved.
EndsDrop(c) ==
  /\ call[c].pc = "run"
  /\ \E outcome \in Outcome :
       (outcome = "cancelled" => IsCancelled(c) \/ c \in asked) /\ Finish(c, outcome)

ClientNext == (\E c \in Call : RequestDrop(c) \/ EndsDrop(c)) \/ UNCHANGED client

\* Call c is at pc, and has run and been answered as said; nothing else is different.
Moves(c, pc, ran, answer) ==
  /\ call' \in [Call -> Begun \cup {Unborn}]
  /\ call'[c] \in Begun
  /\ call'[c].pc = pc /\ call'[c].ran = ran /\ call'[c].answer = answer
  /\ call'[c].key = call[c].key /\ call'[c].account = call[c].account
  /\ \A d \in Call \ {c} : call'[d] = call[d]

Pc     == {"replay", "reconciled", "permit", "replay again", "reconciled again", "reserve", "run",
           "record", "release", "done"}
Answer == Outcome \cup Refusal \cup {"none"}

LEMMA BegunFacts ==
  ASSUME ClientTypeOK, NEW c \in Call, call[c].pc # "unborn"
  PROVE  /\ call[c] \in Begun /\ c \in Born
         /\ call[c].key \in Key /\ call[c].account \in Account /\ call[c].pc \in Pc
         /\ call[c].answer \in Answer /\ call[c].ran \in BOOLEAN
  <1>1. call[c] # Unborn
    BY DEF Unborn
  <1>2. call[c] \in Begun
    BY <1>1 DEF ClientTypeOK
  <1>3. c \in Born
    BY <1>1 DEF Born
  <1>4. QED
    BY <1>2, <1>3 DEF Begun, Pc, Answer

\* A call that was made has entered.
LEMMA BornFacts ==
  ASSUME ClientTypeOK, NEW c \in Born
  PROVE  c \in Call /\ call[c] \in Begun /\ call[c].pc # "unborn"
  <1>1. c \in Call /\ call[c] \in Begun
    BY DEF Born, ClientTypeOK
  <1>2. QED
    BY <1>1 DEF Begun

LEMMA RanFacts ==
  ASSUME ClientTypeOK, NEW c \in Ran
  PROVE  c \in Call /\ call[c] \in Begun /\ call[c].pc # "unborn"
  <1>1. c \in Born
    BY DEF Ran
  <1>2. QED
    BY <1>1, BornFacts

LEMMA GotoMoves ==
  ASSUME ClientTypeOK, NEW c \in Call, call[c].pc # "unborn", NEW pc \in Pc, Goto(c, pc)
  PROVE  Moves(c, pc, call[c].ran, call[c].answer)
  BY BegunFacts DEF ClientTypeOK, Goto, Moves, Begun, Pc

LEMMA LeaveMoves ==
  ASSUME ClientTypeOK, NEW c \in Call, call[c].pc # "unborn", NEW answer \in Answer, Leave(c, answer)
  PROVE  Moves(c, IF call[c].pc \in {"replay again", "reconciled again", "reserve"}
                  THEN "release" ELSE "done", call[c].ran, answer)
  BY BegunFacts DEF ClientTypeOK, Leave, Moves, Begun, Answer

LEMMA FinishMoves ==
  ASSUME ClientTypeOK, NEW c \in Call, call[c].pc # "unborn", NEW answer \in Outcome, Finish(c, answer)
  PROVE  Moves(c, "record", call[c].ran, answer)
  BY BegunFacts DEF ClientTypeOK, Finish, Moves, Begun

-----------------------------------------------------------------------------
(* The inductive invariant. *)

Holds(c) == call[c].pc \in {"replay again", "reconciled again", "reserve", "run", "record", "release"}

\* The permit has one holder, and the flag says that it has.
OneHolder == \A c \in Call : Holds(c) => dropActive /\ \A d \in Call : Holds(d) => d = c

\* What the table must say of the key of a call that knows its outcome.
Written(c, outcome) == records[call[c].key] = [account |-> call[c].account, outcome |-> outcome]

CallFits(c) ==
  /\ call[c].pc \in {"replay", "reconciled", "permit", "replay again", "reconciled again", "reserve"}
       => ~call[c].ran /\ call[c].answer = "none"
  /\ call[c].pc \in {"reconciled again", "reserve"} => records[call[c].key] = NoRecord
  /\ call[c].pc = "run" => call[c].ran /\ call[c].answer = "none"
  /\ call[c].pc = "record" => call[c].ran
  /\ call[c].ran /\ call[c].pc # "run" => call[c].answer \in Outcome
  /\ call[c].ran => Written(c, IF call[c].pc \in {"run", "record"} THEN "in_progress" ELSE call[c].answer)
  /\ ~call[c].ran /\ call[c].answer \in Outcome => Written(c, call[c].answer)
  /\ call[c].ran /\ call[c].answer = "cancelled" => c \in asked

CallsFit == \A c \in Born : CallFits(c)

RunOnce == \A c, d \in Ran : call[c].key = call[d].key => c = d

CancelAsked == cancelled # NoCall => cancelled \in asked

ClientInv ==
  /\ ClientTypeOK
  /\ OneHolder
  /\ CallsFit
  /\ RunOnce
  /\ CancelAsked

-----------------------------------------------------------------------------
(* Steps that leave the table alone. *)

LEMMA BornMoves ==
  ASSUME ClientTypeOK, NEW c \in Call, NEW pc \in Pc, NEW ran \in BOOLEAN, NEW answer, Moves(c, pc, ran, answer)
  PROVE  /\ c \in Born'
         /\ \A d \in Call \ {c} : d \in Born' <=> d \in Born
         /\ \A d \in Call \ {c} : Holds(d)' <=> Holds(d)
         /\ \A d \in Call \ {c} : d \in Ran' <=> d \in Ran
         /\ c \in Ran' <=> ran
  <1>1. c \in Born'
    <2>1. call'[c].pc \in Pc
      BY DEF Moves
    <2>2. Unborn.pc \notin Pc
      BY DEF Unborn, Pc
    <2>3. QED
      BY <2>1, <2>2 DEF Born
  <1>2. \A d \in Call \ {c} : call'[d] = call[d]
    BY DEF Moves
  <1>3. \A d \in Call \ {c} : d \in Born' <=> d \in Born
    BY <1>2 DEF Born
  <1>4. \A d \in Call \ {c} : Holds(d)' <=> Holds(d)
    BY <1>2 DEF Holds
  <1>5. \A d \in Call \ {c} : d \in Ran' <=> d \in Ran
    BY <1>2, <1>3 DEF Ran
  <1>6. call'[c].ran = ran
    BY DEF Moves
  <1>7. c \in Ran' <=> ran
    <2>1. c \in Ran' <=> call'[c].ran
      BY <1>1 DEF Ran
    <2>2. QED
      BY <1>6, <2>1
  <1>8. QED
    BY <1>1, <1>3, <1>4, <1>5, <1>7

\* A call moves to where its own conditions hold, and nobody but it takes or leaves the permit.
LEMMA QuietStep ==
  ASSUME ClientInv, NEW c \in Call, NEW pc \in Pc, NEW ran \in BOOLEAN, NEW answer,
         Moves(c, pc, ran, answer), UNCHANGED <<records, cancelled, asked>>,
         ran => c \in Ran,
         CallFits(c)', unreconciled' \in SUBSET Account, dropActive' \in BOOLEAN, OneHolder'
  PROVE  ClientInv'
  <1> USE DEF ClientInv
  <1>1. ClientTypeOK'
    BY DEF ClientTypeOK, Moves
  <1>2. CallsFit'
    <2>1. ASSUME NEW d \in Call \ {c}, d \in Born'
          PROVE  CallFits(d)'
      <3>1. CallFits(d) /\ call'[d] = call[d]
        BY <2>1, BornMoves DEF CallsFit, Moves
      <3>2. QED
        BY <3>1 DEF CallFits, Written
    <2>2. QED
      BY <2>1 DEF CallsFit, Born
  <1>3. RunOnce'
    <2>1. \A d \in Ran' : d \in Ran /\ call'[d].key = call[d].key
      BY BornMoves DEF Ran, Born, Moves
    <2>2. QED
      BY <2>1 DEF RunOnce
  <1>4. CancelAsked'
    BY DEF CancelAsked
  <1>5. QED
    BY <1>1, <1>2, <1>3, <1>4

\* The permit is where it was: nobody enters or leaves the section it guards.
LEMMA HolderStays ==
  ASSUME OneHolder, ClientTypeOK, NEW c \in Call, NEW pc \in Pc, NEW ran \in BOOLEAN, NEW answer,
         Moves(c, pc, ran, answer), Holds(c)' => Holds(c), UNCHANGED dropActive
  PROVE  OneHolder'
  BY BornMoves DEF OneHolder

-----------------------------------------------------------------------------
(* The actions. *)

\* Replay: a known key is answered from the table, and an unknown one is reserved only under
\* the permit, when it is still unknown.
LEMMA ReplayStep ==
  ASSUME ClientInv, NEW c \in Call, Replay(c)
  PROVE  ClientInv'
  <1>0. ClientTypeOK /\ OneHolder /\ CallsFit
    BY DEF ClientInv
  <1>1. call[c] \in Begun /\ c \in Born /\ CallFits(c) /\ call[c].ran \in BOOLEAN /\ call[c].key \in Key
    BY <1>0, BegunFacts DEF Replay, CallsFit
  <1>2. call[c].ran = FALSE /\ call[c].answer = "none"
    BY <1>1 DEF CallFits, Replay
  <1>6. /\ call[c].ran \in BOOLEAN
        /\ UNCHANGED <<records, cancelled, asked>>
        /\ unreconciled' \in SUBSET Account /\ dropActive' \in BOOLEAN
    BY <1>0, BegunFacts DEF Replay, ClientTypeOK
  <1> DEFINE known == records[call[c].key]
  <1>3. CASE known = NoRecord
    <2>1. PICK pc \in Pc : /\ pc = (IF call[c].pc = "replay" THEN "reconciled" ELSE "reconciled again")
                           /\ Goto(c, pc)
      BY <1>3 DEF Replay, Pc
    <2>2. Moves(c, pc, FALSE, "none")
      BY <1>2, <2>1, <1>0, GotoMoves DEF Replay
    <2>3. CallFits(c)'
      BY <1>2, <1>3, <2>1, <2>2 DEF CallFits, Moves, Written, Outcome, Replay
    <2>4. Holds(c)' => Holds(c)
      BY <2>1, <2>2 DEF Holds, Moves, Replay
    <2>5. OneHolder'
      BY <2>2, <2>4, <1>0, HolderStays DEF Replay
    <2>6. QED
      BY <1>2, <1>6, <2>2, <2>3, <2>5, QuietStep
  <1>4. CASE known # NoRecord
    <2>1. known \in Record
      BY <1>0, <1>1, <1>4 DEF ClientTypeOK
    <2>2. PICK answer \in Answer :
            /\ answer = (IF known.account # call[c].account THEN "conflict" ELSE known.outcome)
            /\ Leave(c, answer)
      BY <1>4, <2>1 DEF Replay, Answer, Record, Refusal, Outcome
    <2>3. PICK pc \in Pc : /\ pc = (IF call[c].pc \in {"replay again", "reconciled again", "reserve"}
                                    THEN "release" ELSE "done")
                           /\ Moves(c, pc, FALSE, answer)
      BY <1>2, <2>2, <1>0, LeaveMoves DEF Replay, Pc
    <2>4. answer \in Outcome => known = [account |-> call[c].account, outcome |-> answer]
      BY <2>1, <2>2 DEF Outcome, Record
    <2>5. CallFits(c)'
      BY <1>2, <2>3, <2>4 DEF CallFits, Moves, Written, Replay
    <2>6. Holds(c)' => Holds(c)
      BY <2>3 DEF Holds, Moves, Replay
    <2>7. OneHolder'
      BY <2>3, <2>6, <1>0, HolderStays DEF Replay
    <2>8. QED
      BY <1>2, <1>6, <2>3, <2>5, <2>7, QuietStep
  <1>5. QED
    BY <1>3, <1>4

LEMMA EnsureReconciledStep ==
  ASSUME ClientInv, NEW c \in Call, EnsureReconciled(c)
  PROVE  ClientInv'
  <1>0. ClientTypeOK /\ OneHolder /\ CallsFit
    BY DEF ClientInv
  <1>1. call[c] \in Begun /\ c \in Born /\ CallFits(c) /\ call[c].ran \in BOOLEAN
    BY <1>0, BegunFacts DEF EnsureReconciled, CallsFit
  <1>2. call[c].ran = FALSE /\ call[c].answer = "none"
    BY <1>1 DEF CallFits, EnsureReconciled
  <1>3. PICK pc \in Pc, answer \in {"none", "recipient_unreconciled"} :
          /\ Moves(c, pc, FALSE, answer)
          /\ \/ answer = "none" /\ pc = (IF call[c].pc = "reconciled" THEN "permit" ELSE "reserve")
             \/ /\ answer # "none"
                /\ pc = (IF call[c].pc = "reconciled" THEN "done" ELSE "release")
    <2>1. CASE call[c].account \in unreconciled
      <3>1. Leave(c, "recipient_unreconciled")
        BY <2>1 DEF EnsureReconciled
      <3>2. QED
        BY <1>2, <3>1, <1>0, LeaveMoves DEF EnsureReconciled, Pc, Answer, Refusal
    <2>2. CASE call[c].account \notin unreconciled
      <3>1. Goto(c, IF call[c].pc = "reconciled" THEN "permit" ELSE "reserve")
        BY <2>2 DEF EnsureReconciled
      <3>2. QED
        BY <1>2, <3>1, <1>0, GotoMoves DEF EnsureReconciled, Pc
    <2>3. QED
      BY <2>1, <2>2
  <1>4. CallFits(c)'
    BY <1>1, <1>2, <1>3 DEF CallFits, Moves, Written, EnsureReconciled, Outcome
  <1>5. Holds(c)' => Holds(c)
    BY <1>3 DEF Holds, Moves, EnsureReconciled
  <1>6. OneHolder'
    BY <1>3, <1>5, <1>0, HolderStays DEF EnsureReconciled
  <1>7. /\ call[c].ran \in BOOLEAN
        /\ UNCHANGED <<records, cancelled, asked>>
        /\ unreconciled' \in SUBSET Account /\ dropActive' \in BOOLEAN
    BY <1>0, BegunFacts DEF EnsureReconciled, ClientTypeOK
  <1>8. QED
    BY <1>2, <1>3, <1>4, <1>6, <1>7, QuietStep

LEMMA BeginStep ==
  ASSUME ClientInv, NEW c \in Call, Begin(c)
  PROVE  ClientInv'
  <1>0. ClientTypeOK /\ OneHolder /\ CallsFit /\ RunOnce /\ CancelAsked
    BY DEF ClientInv
  <1>1. PICK k \in Key, a \in Account :
          call' = [call EXCEPT ![c] = [pc |-> "replay", key |-> k, account |-> a, ran |-> FALSE,
                                       answer |-> "none"]]
    BY DEF Begin
  <1>2. /\ call'[c] = [pc |-> "replay", key |-> k, account |-> a, ran |-> FALSE, answer |-> "none"]
        /\ \A d \in Call \ {c} : call'[d] = call[d]
        /\ call[c] = Unborn
    BY <1>0, <1>1 DEF ClientTypeOK, Begin
  <1>3. ClientTypeOK'
    BY <1>0, <1>1 DEF ClientTypeOK, Begin, Begun
  <1>4. \A d \in Call : Holds(d)' => Holds(d)
    <2>1. ~Holds(c)'
      BY <1>2 DEF Holds
    <2>2. ASSUME NEW d \in Call \ {c}
          PROVE  Holds(d)' => Holds(d)
      BY <1>2, <2>2 DEF Holds
    <2>3. QED
      BY <2>1, <2>2
  <1>5. OneHolder'
    BY <1>0, <1>4 DEF OneHolder, Begin
  <1>6. CallsFit'
    <2>1. ASSUME NEW d \in Call \ {c}, d \in Born'
          PROVE  CallFits(d)'
      <3>1. d \in Born /\ call'[d] = call[d]
        BY <1>2, <2>1 DEF Born
      <3>2. QED
        BY <1>0, <3>1 DEF CallsFit, CallFits, Written, Begin
    <2>2. CallFits(c)'
      BY <1>2 DEF CallFits, Outcome
    <2>3. QED
      BY <2>1, <2>2 DEF CallsFit, Born
  <1>7. RunOnce'
    <2>1. \A d \in Ran' : d \in Ran /\ call'[d] = call[d]
      BY <1>2 DEF Ran, Born
    <2>2. QED
      BY <1>0, <2>1 DEF RunOnce
  <1>8. CancelAsked'
    BY <1>0 DEF CancelAsked, Begin
  <1>9. QED
    BY <1>3, <1>5, <1>6, <1>7, <1>8 DEF ClientInv

\* The permit is taken when nobody has it.
LEMMA AcquireStep ==
  ASSUME ClientInv, NEW c \in Call, Acquire(c)
  PROVE  ClientInv'
  <1>0. ClientTypeOK /\ OneHolder /\ CallsFit
    BY DEF ClientInv
  <1>1. call[c] \in Begun /\ c \in Born /\ CallFits(c) /\ call[c].ran \in BOOLEAN
    BY <1>0, BegunFacts DEF Acquire, CallsFit
  <1>2. call[c].ran = FALSE /\ call[c].answer = "none"
    BY <1>1 DEF CallFits, Acquire
  <1>3. /\ UNCHANGED <<records, cancelled, asked>>
        /\ unreconciled' \in SUBSET Account /\ dropActive' \in BOOLEAN
    BY <1>0 DEF Acquire, ClientTypeOK
  <1>4. CASE dropActive
    <2>1. Moves(c, "done", FALSE, "in_progress")
      BY <1>2, <1>4, <1>0, LeaveMoves DEF Acquire, Answer, Refusal
    <2>2. CallFits(c)'
      BY <1>2, <2>1 DEF CallFits, Moves, Outcome
    <2>3. dropActive' = dropActive /\ (Holds(c)' => Holds(c))
      BY <1>4, <1>0, <2>1 DEF Acquire, Moves, Holds, ClientTypeOK
    <2>4. OneHolder'
      BY <1>0, <2>1, <2>3, HolderStays DEF Pc
    <2>5. QED
      BY <1>3, <2>1, <2>2, <2>4, QuietStep DEF Pc
  <1>5. CASE ~dropActive
    <2>1. Moves(c, "replay again", FALSE, "none")
      BY <1>2, <1>5, <1>0, GotoMoves DEF Acquire, Pc
    <2>2. CallFits(c)'
      BY <1>2, <2>1 DEF CallFits, Moves, Outcome
    <2>3. \A d \in Call \ {c} : ~Holds(d)'
      BY <1>0, <1>5, <2>1, BornMoves DEF OneHolder, Pc
    <2>4. OneHolder'
      BY <2>3 DEF OneHolder, Acquire
    <2>5. QED
      BY <1>3, <2>1, <2>2, <2>4, QuietStep DEF Pc
  <1>6. QED
    BY <1>4, <1>5

\* The holder of the permit reserves a key that was still unknown under it, so nobody ran it.
LEMMA ReserveStep ==
  ASSUME ClientInv, NEW c \in Call, Reserve(c)
  PROVE  ClientInv'
  <1>0. ClientTypeOK /\ OneHolder /\ CallsFit /\ RunOnce /\ CancelAsked
    BY DEF ClientInv
  <1>1. /\ call[c] \in Begun /\ c \in Born /\ CallFits(c) /\ call[c].ran \in BOOLEAN
        /\ call[c].key \in Key /\ call[c].account \in Account
    BY <1>0, BegunFacts DEF Reserve, CallsFit
  <1>2. /\ call[c].ran = FALSE /\ call[c].answer = "none" /\ records[call[c].key] = NoRecord
        /\ Holds(c)
    BY <1>1 DEF CallFits, Reserve, Holds
  <1>3. /\ UNCHANGED <<cancelled, asked, dropActive>>
        /\ unreconciled' \in SUBSET Account /\ dropActive' \in BOOLEAN
    BY <1>0 DEF Reserve, ClientTypeOK
  <1>4. CASE Leave(c, "job_limit_reached") /\ UNCHANGED records
    <2>1. Moves(c, "release", FALSE, "job_limit_reached")
      BY <1>2, <1>4, <1>0, LeaveMoves DEF Reserve, Answer, Refusal
    <2>2. CallFits(c)'
      BY <1>2, <2>1 DEF CallFits, Moves, Outcome
    <2>3. OneHolder'
      BY <1>0, <1>2, <1>3, <2>1, HolderStays DEF Pc
    <2>4. QED
      BY <1>3, <1>4, <2>1, <2>2, <2>3, QuietStep DEF Pc
  <1>5. CASE /\ records' = [records EXCEPT ![call[c].key] =
                             [account |-> call[c].account, outcome |-> "in_progress"]]
             /\ call' = [call EXCEPT ![c].pc = "run", ![c].ran = TRUE]
    <2>1. Moves(c, "run", TRUE, "none")
      BY <1>0, <1>1, <1>2, <1>5 DEF Moves, ClientTypeOK, Begun
    <2>2. /\ records'[call[c].key] = [account |-> call[c].account, outcome |-> "in_progress"]
          /\ \A k \in Key \ {call[c].key} : records'[k] = records[k]
      BY <1>0, <1>1, <1>5 DEF ClientTypeOK
    <2>3. ClientTypeOK'
      BY <1>0, <1>1, <1>3, <1>5, <2>1 DEF ClientTypeOK, Moves, Record
    <2>4. OneHolder'
      BY <1>0, <1>2, <1>3, <2>1, HolderStays DEF Pc
    <2>5. ASSUME NEW d \in Born \ {c}, call[d].key = call[c].key
          PROVE  call[d].ran = FALSE /\ call[d].answer \notin Outcome
      <3>1. CallFits(d) /\ call[d] \in Begun
        BY <1>0, <2>5, BegunFacts DEF CallsFit, Born, ClientTypeOK
      <3>2. ASSUME NEW outcome, Written(d, outcome)
            PROVE  outcome = "unused"
        BY <1>2, <2>5, <3>2 DEF Written, NoRecord
      <3>3. ~call[d].ran
        BY <3>1, <3>2 DEF CallFits, Outcome
      <3>4. call[d].answer \notin Outcome
        BY <3>1, <3>2, <3>3 DEF CallFits, Outcome
      <3>5. QED
        BY <3>1, <3>3, <3>4 DEF Begun
    <2>6. CallsFit'
      <3>1. ASSUME NEW d \in Call \ {c}, d \in Born'
            PROVE  CallFits(d)'
        <4>1. d \in Born /\ call'[d] = call[d] /\ CallFits(d)
          BY <1>0, <2>1, <3>1 DEF CallsFit, Moves, Born
        <4>2. CASE call[d].key # call[c].key
          <5>1. call[d].key \in Key
            BY <1>0, <4>1, BornFacts, BegunFacts
          <5>2. records'[call[d].key] = records[call[d].key]
            BY <1>0, <2>2, <4>2, <5>1 DEF ClientTypeOK
          <5>3. QED
            BY <1>3, <4>1, <5>2 DEF CallFits, Written
        <4>3. CASE call[d].key = call[c].key
          <5>1. call[d].ran = FALSE /\ call[d].answer \notin Outcome
            BY <2>5, <4>1, <4>3
          <5>2. call[d].pc \notin {"reconciled again", "reserve"}
            BY <1>0, <1>2 DEF OneHolder, Holds
          <5>3. QED
            BY <4>1, <5>1, <5>2 DEF CallFits
        <4>4. QED
          BY <4>2, <4>3
      <3>2. CallFits(c)'
        BY <2>1, <2>2 DEF CallFits, Moves, Written, Outcome
      <3>3. QED
        BY <3>1, <3>2 DEF CallsFit, Born
    <2>7. RunOnce'
      <3>1. \A d \in Ran' \ {c} : d \in Ran /\ call'[d] = call[d]
        BY <2>1, BornMoves DEF Ran, Born, Moves
      <3>2. \A d \in Ran \ {c} : call[d].key # call[c].key
        BY <2>5 DEF Ran
      <3>3. call'[c].key = call[c].key
        BY <2>1 DEF Moves
      <3>4. QED
        BY <1>0, <3>1, <3>2, <3>3 DEF RunOnce
    <2>8. CancelAsked'
      BY <1>0, <1>3 DEF CancelAsked
    <2>9. QED
      BY <2>3, <2>4, <2>6, <2>7, <2>8 DEF ClientInv
  <1>6. QED
    BY <1>4, <1>5 DEF Reserve

LEMMA FinishStep ==
  ASSUME ClientInv, NEW c \in Call, EndsDrop(c)
  PROVE  ClientInv'
  <1>0. ClientTypeOK /\ OneHolder /\ CallsFit /\ CancelAsked
    BY DEF ClientInv
  <1>1. call[c] \in Begun /\ c \in Born /\ CallFits(c) /\ call[c].account \in Account
    BY <1>0, BegunFacts DEF EndsDrop, CallsFit
  <1>2. call[c].pc = "run" /\ call[c].ran = TRUE /\ c \in Ran /\ Written(c, "in_progress")
    BY <1>1 DEF EndsDrop, CallFits, Begun, Ran
  <1>3. PICK outcome \in Outcome :
          (outcome = "cancelled" => IsCancelled(c) \/ c \in asked) /\ Finish(c, outcome)
    BY DEF EndsDrop
  <1>4. Moves(c, "record", TRUE, outcome)
    BY <1>0, <1>2, <1>3, FinishMoves
  <1>5. /\ UNCHANGED <<records, cancelled, asked, dropActive>>
        /\ unreconciled' \in SUBSET Account /\ dropActive' \in BOOLEAN
    BY <1>0, <1>1, <1>3 DEF Finish, ClientTypeOK
  <1>6. CallFits(c)'
    <2>1. outcome = "cancelled" => c \in asked
      BY <1>0, <1>3, TokenAssumption DEF CancelAsked, IsCancelled
    <2>2. Written(c, "in_progress")'
      BY <1>2, <1>4, <1>5 DEF Written, Moves
    <2>3. call'[c].pc = "record" /\ call'[c].ran = TRUE /\ call'[c].answer = outcome
      BY <1>4 DEF Moves
    <2>4. QED
      BY <1>5, <2>1, <2>2, <2>3 DEF CallFits
  <1>7. OneHolder'
    <2>1. Holds(c)
      BY <1>2 DEF Holds
    <2>2. QED
      BY <1>0, <1>4, <1>5, <2>1, HolderStays DEF Pc, Outcome
  <1>8. QED
    BY <1>2, <1>4, <1>5, <1>6, <1>7, QuietStep DEF Pc

\* The outcome is written over the reservation, which no other call was answered from.
LEMMA RecordOutcomeStep ==
  ASSUME ClientInv, NEW c \in Call, RecordOutcome(c)
  PROVE  ClientInv'
  <1>0. ClientTypeOK /\ OneHolder /\ CallsFit /\ RunOnce /\ CancelAsked
    BY DEF ClientInv
  <1>1. /\ call[c] \in Begun /\ c \in Born /\ CallFits(c) /\ call[c].key \in Key
        /\ call[c].account \in Account
    BY <1>0, BegunFacts DEF RecordOutcome, CallsFit
  <1>2. /\ call[c].ran = TRUE /\ c \in Ran /\ call[c].answer \in Outcome /\ Holds(c)
        /\ Written(c, "in_progress") /\ (call[c].answer = "cancelled" => c \in asked)
    BY <1>1 DEF RecordOutcome, CallFits, Begun, Ran, Holds
  <1>3. Moves(c, "release", TRUE, call[c].answer)
    BY <1>0, <1>2, GotoMoves DEF RecordOutcome, Pc
  <1>4. UNCHANGED <<cancelled, asked, dropActive, unreconciled>>
    BY DEF RecordOutcome
  <1>5. /\ records'[call[c].key] = [account |-> call[c].account, outcome |-> call[c].answer]
        /\ \A k \in Key \ {call[c].key} : records'[k] = records[k]
        /\ records' \in [Key -> Record \cup {NoRecord}]
    <2>1. records[call[c].key] = [account |-> call[c].account, outcome |-> "in_progress"]
      BY <1>2 DEF Written
    <2>2. records' = [records EXCEPT ![call[c].key] =
                        [account |-> call[c].account, outcome |-> call[c].answer]]
      <3>1. [records[call[c].key] EXCEPT !.outcome = call[c].answer] =
              [account |-> call[c].account, outcome |-> call[c].answer]
        BY <2>1
      <3>2. records' = [records EXCEPT ![call[c].key] =
                          [records[call[c].key] EXCEPT !.outcome = call[c].answer]]
        BY DEF RecordOutcome
      <3>3. QED
        BY <3>1, <3>2
    <2>3. [account |-> call[c].account, outcome |-> call[c].answer] \in Record
      BY <1>1, <1>2 DEF Record
    <2>4. QED
      BY <1>0, <1>1, <2>2, <2>3 DEF ClientTypeOK
  <1>6. ClientTypeOK'
    BY <1>0, <1>3, <1>4, <1>5 DEF ClientTypeOK, Moves
  <1>7. OneHolder'
    BY <1>0, <1>2, <1>3, <1>4, HolderStays DEF Pc
  <1>8. CallsFit'
    <2>1. ASSUME NEW d \in Call \ {c}, d \in Born'
          PROVE  CallFits(d)'
      <3>1. d \in Born /\ call'[d] = call[d] /\ CallFits(d)
        BY <1>0, <1>3, <2>1 DEF CallsFit, Moves, Born
      <3>2. call[d].key \in Key
        BY <1>0, <3>1, BornFacts, BegunFacts
      <3>3. CASE call[d].key # call[c].key
        <4>1. records'[call[d].key] = records[call[d].key]
          BY <1>5, <3>2, <3>3
        <4>2. QED
          BY <1>4, <3>1, <4>1 DEF CallFits, Written
      <3>4. CASE call[d].key = call[c].key
        <4>1. ~call[d].ran
          BY <1>0, <1>2, <2>1, <3>1, <3>4 DEF RunOnce, Ran
        <4>2. call[d].answer \notin Outcome
          <5>1. ASSUME call[d].answer \in Outcome
                PROVE  FALSE
            <6>1. records[call[d].key] = [account |-> call[d].account, outcome |-> call[d].answer]
              BY <3>1, <4>1, <5>1 DEF CallFits, Written
            <6>2. records[call[d].key] = [account |-> call[c].account, outcome |-> "in_progress"]
              BY <1>2, <3>4 DEF Written
            <6>3. call[d].answer = "in_progress"
              BY <6>1, <6>2
            <6>4. QED
              BY <5>1, <6>3 DEF Outcome
          <5>2. QED
            BY <5>1
        <4>3. call[d].pc \notin {"reconciled again", "reserve"}
          BY <1>0, <1>2 DEF OneHolder, Holds
        <4>4. QED
          BY <3>1, <4>1, <4>2, <4>3 DEF CallFits
      <3>5. QED
        BY <3>3, <3>4
    <2>2. CallFits(c)'
      <3>1. Written(c, call[c].answer)'
        BY <1>3, <1>5 DEF Moves, Written
      <3>2. /\ call'[c].pc = "release" /\ call'[c].ran = TRUE
            /\ call'[c].answer = call[c].answer
        BY <1>3 DEF Moves
      <3>3. QED
        BY <1>2, <1>4, <3>1, <3>2 DEF CallFits, Written
    <2>3. QED
      BY <2>1, <2>2 DEF CallsFit, Born
  <1>9. RunOnce'
    <2>1. \A d \in Ran' : d \in Ran /\ call'[d].key = call[d].key
      BY <1>2, <1>3, BornMoves DEF Ran, Born, Moves
    <2>2. QED
      BY <1>0, <2>1 DEF RunOnce
  <1>10. CancelAsked'
    BY <1>0, <1>4 DEF CancelAsked
  <1>11. QED
    BY <1>6, <1>7, <1>8, <1>9, <1>10 DEF ClientInv

LEMMA ReleaseStep ==
  ASSUME ClientInv, NEW c \in Call, Release(c)
  PROVE  ClientInv'
  <1>0. ClientTypeOK /\ OneHolder /\ CallsFit
    BY DEF ClientInv
  <1>1. /\ call[c] \in Begun /\ c \in Born /\ CallFits(c) /\ call[c].ran \in BOOLEAN
        /\ call[c].answer \in Answer /\ call[c].pc = "release" /\ Holds(c)
    BY <1>0, BegunFacts DEF Release, CallsFit, Holds
  <1>2. /\ UNCHANGED <<records, cancelled, asked>> /\ dropActive' = FALSE
        /\ unreconciled' \in SUBSET Account /\ dropActive' \in BOOLEAN
    BY <1>0 DEF Release, ClientTypeOK
  <1>3. Moves(c, "done", call[c].ran, call[c].answer)
    BY <1>0, <1>1, GotoMoves DEF Release, Pc
  <1>4. CallFits(c)'
    BY <1>1, <1>2, <1>3 DEF CallFits, Moves, Written
  <1>5. \A d \in Call : ~Holds(d)'
    <2>1. ~Holds(c)'
      BY <1>3 DEF Holds, Moves
    <2>2. ASSUME NEW d \in Call \ {c}
          PROVE  ~Holds(d)'
      <3>1. call'[d] = call[d] /\ ~Holds(d)
        BY <1>0, <1>1, <1>3 DEF OneHolder, Moves
      <3>2. QED
        BY <3>1 DEF Holds
    <2>3. QED
      BY <2>1, <2>2
  <1>6. OneHolder'
    BY <1>5 DEF OneHolder
  <1>7. CASE call[c].ran = TRUE
    <2>1. c \in Ran
      BY <1>1, <1>7 DEF Ran
    <2>2. Moves(c, "done", TRUE, call[c].answer)
      BY <1>3, <1>7
    <2>3. QED
      BY <1>2, <1>4, <1>6, <2>1, <2>2, QuietStep DEF Pc
  <1>8. CASE call[c].ran = FALSE
    <2>1. Moves(c, "done", FALSE, call[c].answer)
      BY <1>3, <1>8
    <2>2. QED
      BY <1>2, <1>4, <1>6, <2>1, QuietStep DEF Pc
  <1>9. QED
    BY <1>1, <1>7, <1>8

LEMMA CancelStep ==
  ASSUME ClientInv, NEW c \in Call, Cancel(c)
  PROVE  ClientInv'
  <1>0. ClientTypeOK /\ OneHolder /\ CallsFit /\ RunOnce /\ CancelAsked
    BY DEF ClientInv
  <1>1. UNCHANGED <<records, unreconciled, dropActive, call>> /\ cancelled' = c
        /\ asked' = asked \cup {c}
    BY DEF Cancel
  <1>2. ClientTypeOK' /\ OneHolder'
    BY <1>0, <1>1 DEF ClientTypeOK, OneHolder, Holds
  <1>3. CallsFit'
    <2>1. ASSUME NEW d \in Born
          PROVE  CallFits(d)'
      BY <1>0, <1>1, <2>1 DEF CallsFit, CallFits, Written
    <2>2. QED
      BY <1>1, <2>1 DEF CallsFit, Born
  <1>4. RunOnce' /\ CancelAsked'
    BY <1>0, <1>1 DEF RunOnce, Ran, Born, CancelAsked
  <1>5. QED
    BY <1>2, <1>3, <1>4 DEF ClientInv

-----------------------------------------------------------------------------
LEMMA ClientInvInit == ClientInit => ClientInv
  <1> SUFFICES ASSUME ClientInit PROVE ClientInv
    OBVIOUS
  <1>1. ClientTypeOK
    BY DEF ClientInit, ClientTypeOK
  <1>2. Born = {} /\ (\A c \in Call : ~Holds(c))
    BY DEF ClientInit, Born, Holds, Unborn
  <1>3. OneHolder /\ CallsFit /\ RunOnce /\ CancelAsked
    BY <1>2 DEF OneHolder, CallsFit, RunOnce, Ran, CancelAsked, ClientInit
  <1>4. QED
    BY <1>1, <1>3 DEF ClientInv

LEMMA ClientInvNext == ClientInv /\ ClientNext => ClientInv'
  <1> SUFFICES ASSUME ClientInv, ClientNext PROVE ClientInv'
    OBVIOUS
  <1>1. CASE UNCHANGED client
    BY <1>1 DEF client, ClientInv, ClientTypeOK, OneHolder, Holds, CallsFit, CallFits, Written,
                RunOnce, Ran, Born, CancelAsked
  <1>2. ASSUME NEW c \in Call, RequestDrop(c)
        PROVE  ClientInv'
    BY <1>2, BeginStep, ReplayStep, EnsureReconciledStep, AcquireStep, ReserveStep,
       RecordOutcomeStep, ReleaseStep, CancelStep DEF RequestDrop
  <1>3. ASSUME NEW c \in Call, EndsDrop(c)
        PROVE  ClientInv'
    BY <1>3, FinishStep
  <1>4. QED
    BY <1>1, <1>2, <1>3 DEF ClientNext

LEMMA ClientInvRunsOnce == ClientInv => OneRunPerKey
  <1> SUFFICES ASSUME ClientInv, NEW c \in Ran, NEW d \in Born
               PROVE  /\ d \in Ran /\ call[d].key = call[c].key => d = c
                      /\ /\ call[d].pc = "done"
                         /\ call[d].answer \in Outcome
                         /\ call[d].key = call[c].key
                         => call[d].account = call[c].account /\ call[d].answer = call[c].answer
    BY DEF OneRunPerKey
  <1>1. CallFits(c) /\ CallFits(d) /\ RunOnce
    BY DEF ClientInv, CallsFit, Ran
  <1>2. d \in Ran /\ call[d].key = call[c].key => d = c
    BY <1>1 DEF RunOnce
  <1>3. ASSUME call[d].pc = "done", call[d].answer \in Outcome, call[d].key = call[c].key
        PROVE  call[d].account = call[c].account /\ call[d].answer = call[c].answer
    <2>1. Written(d, call[d].answer)
      BY <1>1, <1>3 DEF CallFits
    <2>2. Written(c, "in_progress") \/ Written(c, call[c].answer)
      BY <1>1 DEF CallFits, Ran
    <2>3. QED
      BY <1>3, <2>1, <2>2 DEF Written, Outcome
  <1>4. QED
    BY <1>2, <1>3

LEMMA ClientInvScopesCancel == ClientInv => CancelIsScoped
  <1> SUFFICES ASSUME ClientInv, NEW c \in Ran, call[c].answer = "cancelled"
               PROVE  c \in asked
    BY DEF CancelIsScoped
  <1> QED
    BY DEF ClientInv, CallsFit, CallFits, Ran

-----------------------------------------------------------------------------
(* Steps of request_drop around the drop. *)

\* A call keeps its key and its account; a drop, once begun, is not answered before it ends; and
\* it begins when its call has reserved the key.
RequestKeeps ==
  /\ \A d \in Born : /\ d \in Born'
                     /\ call'[d].key = call[d].key /\ call'[d].account = call[d].account
  /\ \A d \in Ran : /\ d \in Ran' /\ call'[d].answer = call[d].answer
                    /\ call'[d].pc = "run" <=> call[d].pc = "run"
  /\ \A d \in Ran' \ Ran : /\ call'[d].answer = "none" /\ call'[d].pc = "run"
                           /\ d \in Born /\ call[d].pc = "reserve"

LEMMA RequestKeepsRuns ==
  ASSUME ClientInv, NEW c \in Call, RequestDrop(c)
  PROVE  RequestKeeps
  <1>0. ClientTypeOK /\ CallsFit
    BY DEF ClientInv
  <1>1. ASSUME \A d \in Call \ {c} : call'[d] = call[d], c \notin Ran, c \notin Ran',
               c \in Born => /\ c \in Born'
                             /\ call'[c].key = call[c].key /\ call'[c].account = call[c].account
        PROVE  RequestKeeps
    BY <1>1 DEF RequestKeeps, Ran, Born
  <1>2. ASSUME call[c] \in Begun, call[c].ran = FALSE,
               (\E pc \in Pc : Goto(c, pc)) \/ (\E answer \in Answer : Leave(c, answer))
        PROVE  RequestKeeps
    <2>0. call[c].pc # "unborn"
      BY <1>2 DEF Begun
    <2>1. PICK pc \in Pc, answer \in Answer : Moves(c, pc, FALSE, answer)
      <3>1. ASSUME NEW pc \in Pc, Goto(c, pc)
            PROVE  Moves(c, pc, FALSE, call[c].answer) /\ call[c].answer \in Answer
        BY <1>0, <1>2, <2>0, <3>1, GotoMoves, BegunFacts
      <3>2. ASSUME NEW answer \in Answer, Leave(c, answer)
            PROVE  \E pc \in Pc : Moves(c, pc, FALSE, answer)
        BY <1>0, <1>2, <2>0, <3>2, LeaveMoves DEF Pc
      <3>3. QED
        BY <1>2, <3>1, <3>2
    <2>2. c \notin Ran /\ c \notin Ran' /\ c \in Born'
      BY <1>0, <1>2, <2>1, BornMoves DEF Ran
    <2>3. QED
      BY <1>1, <2>1, <2>2 DEF Moves
  <1>3. ASSUME call[c].pc \in {"replay", "replay again", "reconciled", "reconciled again", "permit",
                               "reserve"}
        PROVE  /\ call[c] \in Begun /\ call[c].ran = FALSE /\ call[c].answer = "none"
               /\ call[c].key \in Key /\ c \in Born
    <2>1. call[c] \in Begun /\ CallFits(c) /\ call[c].ran \in BOOLEAN /\ call[c].key \in Key /\ c \in Born
      BY <1>0, <1>3, BegunFacts DEF CallsFit
    <2>2. QED
      BY <1>3, <2>1 DEF CallFits
  <1>4. CASE Begin(c)
    <2>1. /\ call[c] = Unborn
          /\ \A d \in Call \ {c} : call'[d] = call[d]
          /\ call'[c].ran = FALSE
      BY <1>0, <1>4 DEF Begin, ClientTypeOK
    <2>2. c \notin Ran /\ c \notin Ran' /\ c \notin Born
      BY <2>1 DEF Ran, Born
    <2>3. QED
      BY <1>1, <2>1, <2>2
  <1>5. CASE Replay(c)
    <2>1. /\ call[c] \in Begun /\ call[c].ran = FALSE
          /\ records[call[c].key] \in Record \cup {NoRecord}
      BY <1>0, <1>3, <1>5 DEF Replay, ClientTypeOK
    <2>2. CASE records[call[c].key] = NoRecord
      <3>1. \E pc \in Pc : Goto(c, pc)
        BY <1>5, <2>2 DEF Replay, Pc
      <3>2. QED
        BY <1>2, <2>1, <3>1
    <2>3. CASE records[call[c].key] # NoRecord
      <3>1. \E answer \in Answer : Leave(c, answer)
        BY <1>5, <2>1, <2>3 DEF Replay, Answer, Record, Outcome, Refusal
      <3>2. QED
        BY <1>2, <2>1, <3>1
    <2>4. QED
      BY <2>2, <2>3
  <1>6. CASE EnsureReconciled(c)
    BY <1>2, <1>3, <1>6 DEF EnsureReconciled, Pc, Answer, Refusal
  <1>7. CASE Acquire(c)
    BY <1>2, <1>3, <1>7 DEF Acquire, Pc, Answer, Refusal
  <1>8. CASE Reserve(c)
    <2>1. call[c] \in Begun /\ call[c].ran = FALSE /\ call[c].answer = "none" /\ c \in Born
      BY <1>3, <1>8 DEF Reserve
    <2>2. CASE Leave(c, "job_limit_reached")
      BY <1>2, <2>1, <2>2 DEF Answer, Refusal
    <2>3. CASE call' = [call EXCEPT ![c].pc = "run", ![c].ran = TRUE]
      <3>1. Moves(c, "run", TRUE, "none")
        BY <1>0, <2>1, <2>3 DEF Moves, ClientTypeOK, Begun
      <3>2. c \notin Ran /\ c \in Ran' /\ c \in Born' /\ call[c].pc = "reserve"
        BY <1>0, <1>8, <2>1, <3>1, BornMoves DEF Ran, Pc, Reserve
      <3>3. \A d \in Call \ {c} : call'[d] = call[d]
        BY <3>1 DEF Moves
      <3>4. QED
        BY <2>1, <3>1, <3>2, <3>3 DEF RequestKeeps, Moves, Ran, Born
    <2>4. QED
      BY <1>8, <2>2, <2>3 DEF Reserve
  <1>9. CASE RecordOutcome(c) \/ Release(c)
    <2>0. call[c] \in Begun /\ call[c].ran \in BOOLEAN /\ c \in Born /\ call[c].answer \in Answer
      BY <1>0, <1>9, BegunFacts DEF RecordOutcome, Release
    <2>1. PICK pc \in Pc : Goto(c, pc) /\ pc # "run" /\ call[c].pc # "run" /\ call[c].pc # "unborn"
      BY <1>9 DEF RecordOutcome, Release, Pc
    <2>2. Moves(c, pc, call[c].ran, call[c].answer)
      BY <1>0, <2>1, GotoMoves
    <2>3. c \in Born' /\ (c \in Ran' <=> call[c].ran) /\ (c \in Ran <=> call[c].ran)
      BY <1>0, <2>0, <2>2, BornMoves DEF Ran
    <2>4. \A d \in Call \ {c} : call'[d] = call[d]
      BY <2>2 DEF Moves
    <2>5. QED
      BY <2>1, <2>2, <2>3, <2>4 DEF RequestKeeps, Moves, Ran, Born
  <1>10. CASE Cancel(c)
    BY <1>10 DEF Cancel, RequestKeeps, Ran, Born
  <1>11. QED
    BY <1>4, <1>5, <1>6, <1>7, <1>8, <1>9, <1>10 DEF RequestDrop

-----------------------------------------------------------------------------
(* An unknown outcome is the last of its recipient. *)

\* A call that reserves its key, or runs its drop, is for a recipient with no unproven claim.
Reconciled == \A c \in Born : call[c].pc \in {"reserve", "run"} => call[c].account \notin unreconciled

\* An unknown outcome marks its recipient, and a recipient is marked by one of them only.
UnknownIsAlone ==
  \A c \in Ran : call[c].answer = "unknown" =>
    /\ call[c].account \in unreconciled
    /\ \A d \in Ran : call[d].answer = "unknown" /\ call[d].account = call[c].account => d = c

\* The account that ensure_reconciled let pass under the permit stays unmarked: only the holder of
\* the permit ends a drop.
LEMMA ReconciledRequest ==
  ASSUME ClientInv, Reconciled, UnknownIsAlone, NEW c \in Call, RequestDrop(c)
  PROVE  Reconciled' /\ UnknownIsAlone'
  <1>0. ClientTypeOK
    BY DEF ClientInv
  <1>1. RequestKeeps
    BY RequestKeepsRuns
  <1>2. UNCHANGED unreconciled
    BY DEF RequestDrop, Begin, Replay, EnsureReconciled, Acquire, Reserve, RecordOutcome, Release,
           Cancel
  <1>3. UnknownIsAlone'
    <2>1. ASSUME NEW d \in Ran', call'[d].answer = "unknown"
          PROVE  d \in Ran /\ call[d].answer = "unknown" /\ call'[d].account = call[d].account
      BY <1>1, <2>1 DEF RequestKeeps, Ran
    <2>2. QED
      BY <1>2, <2>1 DEF UnknownIsAlone
  <1>4. \A d \in Call \ {c} : call'[d] = call[d]
    BY <1>0 DEF RequestDrop, Begin, Replay, EnsureReconciled, Acquire, Reserve, RecordOutcome, Release,
                Cancel, Goto, Leave, ClientTypeOK
  <1>5. ASSUME NEW d \in Born', call'[d].pc \in {"reserve", "run"}
        PROVE  call'[d].account \notin unreconciled
    <2>1. CASE d \in Born /\ call[d].pc \in {"reserve", "run"}
      BY <1>1, <2>1 DEF RequestKeeps, Reconciled
    <2>2. CASE d \notin Born
      <3>1. call[d] = Unborn /\ d \in Call /\ d = c
        <4>1. call[d] = Unborn /\ d \in Call
          BY <2>2 DEF Born
        <4>2. call'[d].pc # call[d].pc
          BY <1>5, <4>1 DEF Unborn
        <4>3. QED
          BY <1>4, <4>1, <4>2
      <3>2. call[c].pc = "unborn"
        BY <3>1 DEF Unborn
      <3>3. Begin(c) \/ Cancel(c)
        BY <3>2 DEF RequestDrop, Replay, EnsureReconciled, Acquire, Reserve, RecordOutcome, Release
      <3>4. call'[c].pc \notin {"reserve", "run"}
        BY <1>0, <3>2, <3>3 DEF Begin, Cancel, ClientTypeOK
      <3>5. QED
        BY <1>5, <3>1, <3>4
    <2>3. CASE d \in Born /\ call[d].pc \notin {"reserve", "run"}
      <3>1. d = c /\ EnsureReconciled(c)
        <4>1. d = c
          BY <1>4, <1>5, <2>3 DEF Born
        <4>2. ASSUME call[c] \in Begun, NEW pc \in Pc, Goto(c, pc)
              PROVE  call'[c].pc = pc
          BY <1>0, <4>2 DEF Goto, ClientTypeOK, Begun
        <4>3. ASSUME call[c] \in Begun, NEW answer, Leave(c, answer)
              PROVE  call'[c].pc \in {"release", "done"}
          BY <1>0, <4>3 DEF Leave, ClientTypeOK, Begun
        <4>4. call[c] \in Begun
          BY <1>0, <2>3, <4>1 DEF Born, ClientTypeOK
        <4>5. ~Begin(c) /\ ~Cancel(c) /\ ~Reserve(c)
          BY <1>5, <2>3, <4>1 DEF Begin, Cancel, Reserve, Born
        <4>6. ~Replay(c) /\ ~Acquire(c) /\ ~RecordOutcome(c) /\ ~Release(c)
          BY <1>5, <4>1, <4>2, <4>3, <4>4 DEF Replay, Acquire, RecordOutcome, Release, Pc
        <4>7. QED
          BY <4>1, <4>5, <4>6 DEF RequestDrop
      <3>2. CASE call[c].account \in unreconciled
        <4>1. Leave(c, "recipient_unreconciled") /\ call[c].pc # "unborn"
          BY <3>1, <3>2 DEF EnsureReconciled
        <4>2. call'[c].pc \in {"release", "done"}
          BY <1>0, <4>1, LeaveMoves DEF Moves, Answer, Refusal
        <4>3. QED
          BY <1>5, <3>1, <4>2
      <3>3. CASE call[c].account \notin unreconciled
        BY <1>1, <2>3, <3>1, <3>3 DEF RequestKeeps
      <3>4. QED
        BY <3>2, <3>3
    <2>4. QED
      BY <2>1, <2>2, <2>3
  <1>6. QED
    BY <1>2, <1>3, <1>5 DEF Reconciled

\* A drop that ends leaves alone the others, none of which is past the permit.
LEMMA ReconciledFinish ==
  ASSUME ClientInv, Reconciled, UnknownIsAlone, NEW c \in Call, call[c].pc = "run",
         NEW outcome \in Outcome, Finish(c, outcome)
  PROVE  Reconciled' /\ UnknownIsAlone'
  <1>0. ClientTypeOK /\ OneHolder /\ CallsFit
    BY DEF ClientInv
  <1>1. call[c] \in Begun /\ c \in Born /\ call[c].ran = TRUE /\ c \in Ran
    BY <1>0, BegunFacts DEF CallsFit, CallFits, Ran, Begun
  <1>2. Moves(c, "record", TRUE, outcome)
    BY <1>0, <1>1, FinishMoves
  <1>3. \A d \in Call \ {c} : /\ call'[d] = call[d]
                              /\ (d \in Born' <=> d \in Born) /\ (d \in Ran' <=> d \in Ran)
                              /\ call[d].pc \notin {"reserve", "run"}
    BY <1>0, <1>2, BornMoves DEF Moves, OneHolder, Holds, Pc, Outcome
  <1>4. call'[c].pc = "record" /\ call'[c].answer = outcome /\ call'[c].account = call[c].account
    BY <1>2 DEF Moves
  <1>5. Reconciled'
    BY <1>3, <1>4 DEF Reconciled, Born
  <1>6. unreconciled \subseteq unreconciled'
    BY DEF Finish
  <1>7. outcome = "unknown" => call[c].account \in unreconciled'
    BY DEF Finish
  <1>8. \A d \in Ran : call[d].answer = "unknown" => call[d].account # call[c].account
    BY <1>1 DEF Reconciled, UnknownIsAlone
  <1>9. \A d \in Ran' : d \in Ran /\ call'[d].account = call[d].account
    BY <1>1, <1>3, <1>4 DEF Ran, Born
  <1>10. \A d \in Ran' : d # c => call'[d].answer = call[d].answer
    BY <1>3 DEF Ran, Born
  <1>11. ASSUME NEW d \in Ran', call'[d].answer = "unknown"
         PROVE  /\ call'[d].account \in unreconciled'
                /\ \A e \in Ran' : call'[e].answer = "unknown" /\ call'[e].account = call'[d].account
                     => e = d
    BY <1>4, <1>6, <1>7, <1>8, <1>9, <1>10, <1>11 DEF UnknownIsAlone
  <1>12. QED
    BY <1>5, <1>11 DEF UnknownIsAlone

LEMMA ReconciledInit == ClientInit => Reconciled /\ UnknownIsAlone
  BY DEF ClientInit, Reconciled, UnknownIsAlone, Ran, Born

LEMMA ReconciledStutter ==
  Reconciled /\ UnknownIsAlone /\ UNCHANGED client => Reconciled' /\ UnknownIsAlone'
  BY DEF client, Reconciled, UnknownIsAlone, Ran, Born

\* Of the drops of one recipient, one at most runs or has an unknown outcome.
LEMMA RunsAlone ==
  ASSUME ClientInv, Reconciled, UnknownIsAlone, NEW c \in Ran, NEW d \in Ran,
         call[c].account = call[d].account,
         call[c].pc = "run" \/ call[c].answer = "unknown",
         call[d].pc = "run" \/ call[d].answer = "unknown"
  PROVE  c = d
  <1>1. ASSUME NEW e \in Ran, NEW g \in Ran, call[e].account = call[g].account,
               call[e].pc = "run", call[g].answer = "unknown"
        PROVE  FALSE
    BY <1>1 DEF Reconciled, UnknownIsAlone, Ran
  <1>2. CASE call[c].pc = "run" /\ call[d].pc = "run"
    BY <1>2 DEF ClientInv, OneHolder, Holds, Ran, Born
  <1>3. CASE call[c].answer = "unknown" /\ call[d].answer = "unknown"
    BY <1>3 DEF UnknownIsAlone
  <1>4. QED
    BY <1>1, <1>2, <1>3

=============================================================================
