----------------------------- MODULE PinataProofs -----------------------------
(***************************************************************************)
(* What a drop on a Pinata network guarantees, for every number of calls,  *)
(* keys, accounts, hashes, prizes and retries: a receipt is of a claim on  *)
(* the chain, a failure has paid nothing and never will, and a recipient   *)
(* is credited at most once without being told.                            *)
(***************************************************************************)
EXTENDS PinataDrop, FaucetClientProofs, FiniteSetTheorems

-----------------------------------------------------------------------------
(* The inductive invariant. *)

InFlight(c) == drop[c].at \in {"included", "balance", "challenge"}
HasSolved(c) == InFlight(c) \/ drop[c].at \in {"solve", "refresh", "reread", "submit"}

\* A claim that has not paid and cannot: it is discarded, or will be.
Dead(x) ==
  \/ tx[x].state = "discarded"
  \/ tx[x].state = "pending" /\ tx[x].challenge < challenge

\* A claim is for a challenge that the chain has shown.
TxFits(x) == tx[x] # NoTx => tx[x].challenge < Pool /\ tx[x].challenge <= challenge

\* A drop runs as long as its call, and what it has read was so when it read it.
LocalsFit(c) ==
  /\ call[c].pc = "run" <=> drop[c].at # "over"
  /\ drop[c].at \notin {"inspect", "over"} => drop[c].before \in Nat
  /\ HasSolved(c) => drop[c].solved < Pool /\ drop[c].solved <= challenge
  /\ InFlight(c) => /\ drop[c].hash \in Sent(c)
                    /\ tx[drop[c].hash].challenge = drop[c].solved
                    /\ drop[c].included = "yes" => tx[drop[c].hash].state = "indexed"
  /\ ~InFlight(c) => drop[c].included = "unread"
  /\ call[c].answer = "credited" => /\ drop[c].hash \in Sent(c)
                                    /\ tx[drop[c].hash].state = "indexed"

\* The claim that may still pay, or has: the last one, until the drop has come to an outcome.
MayPay(c, x) ==
  x = drop[c].hash /\ (InFlight(c) \/ call[c].answer \in {"credited", "unknown"})

\* Of a recipient that spends nothing: its balance shows the last claim's prize as soon as that is
\* paid, and every other claim of the drop is dead.
BalanceFits(c) ==
  /\ drop[c].at \notin {"inspect", "over"} => Recipient(c) >= drop[c].before
  /\ InFlight(c) /\ drop[c].hash \in Executed => Recipient(c) >= drop[c].before + Prize
  /\ drop[c].at = "challenge" /\ drop[c].hash \in Executed \ slipped =>
       drop[c].seen = NoBalance \/ drop[c].seen >= drop[c].before + Prize
  /\ \A x \in Sent(c) \ slipped : Dead(x) \/ MayPay(c, x)

DropFits(c) ==
  /\ c \notin Ran => drop[c] = NoDrop /\ Sent(c) = {}
  /\ c \in Ran => LocalsFit(c)
  /\ c \in Ran /\ call[c].account \notin spent => BalanceFits(c)

Inv ==
  /\ TypeOK
  /\ ClientInv
  /\ Reconciled /\ UnknownIsAlone
  /\ \A x \in Hash : TxFits(x)
  /\ \A c \in Call : DropFits(c)

-----------------------------------------------------------------------------
LEMMA NoDropIsDrop == NoDrop \in Drop
  BY ChainAssumption DEF NoDrop, Drop, NoBalance

LEMMA TxFacts ==
  ASSUME TypeOK, NEW x \in Hash
  PROVE  /\ tx[x] = NoTx <=> tx[x].state = "unused"
         /\ tx[x] = NoTx => tx[x].call = NoCall
         /\ tx[x] # NoTx => /\ tx[x] \in Tx /\ tx[x].call \in Call /\ tx[x].challenge \in 0..Pool
                            /\ tx[x].state \in {"pending", "executed", "indexed", "discarded"}
  <1>1. tx[x] \in Tx \cup {NoTx}
    BY DEF TypeOK
  <1>2. CASE tx[x] = NoTx
    BY <1>2 DEF NoTx
  <1>3. CASE tx[x] \in Tx
    <2>1. /\ tx[x].call \in Call /\ tx[x].challenge \in 0..Pool
          /\ tx[x].state \in {"pending", "executed", "indexed", "discarded"}
      BY <1>3 DEF Tx
    <2>2. tx[x].state # NoTx.state
      BY <2>1 DEF NoTx
    <2>3. QED
      BY <1>3, <2>1, <2>2 DEF NoTx
  <1>4. QED
    BY <1>1, <1>2, <1>3

\* What there is of a call whose drop runs.
LEMMA RunFacts ==
  ASSUME Inv, NEW c \in Call, call[c].pc = "run"
  PROVE  /\ c \in Ran /\ call[c].ran = TRUE /\ call[c].answer = "none"
         /\ call[c].account \in Account /\ Recipient(c) \in Nat
         /\ drop[c] \in Drop /\ drop[c].at # "over" /\ LocalsFit(c)
         /\ call[c].account \notin spent => BalanceFits(c)
  <1>0. TypeOK /\ ClientInv /\ ClientTypeOK /\ DropFits(c)
    BY DEF Inv, ClientInv
  <1>1. /\ call[c] \in Begun /\ c \in Born /\ CallFits(c) /\ call[c].ran \in BOOLEAN
        /\ call[c].account \in Account
    BY <1>0, BegunFacts DEF ClientInv, CallsFit
  <1>2. call[c].ran = TRUE /\ call[c].answer = "none"
    BY <1>1 DEF CallFits
  <1>3. c \in Ran
    BY <1>1, <1>2 DEF Ran
  <1>4. drop[c] \in Drop /\ Recipient(c) \in Nat
    BY <1>0, <1>1 DEF TypeOK, Recipient
  <1>5. QED
    BY <1>0, <1>1, <1>2, <1>3, <1>4 DEF DropFits, LocalsFit

LEMMA SentIsRan ==
  ASSUME Inv, NEW x \in Hash, tx[x] # NoTx
  PROVE  tx[x].call \in Ran /\ call[tx[x].call].account \in Account
  <1>1. tx[x].call \in Call /\ DropFits(tx[x].call)
    BY TxFacts DEF Inv
  <1> DEFINE c == tx[x].call
  <1>2. c \in Ran
    BY <1>1 DEF DropFits, Sent
  <1> HIDE DEF c
  <1>3. c \in Call /\ call[c].pc # "unborn"
    BY <1>2, RanFacts DEF Inv, ClientInv
  <1>4. call[c].account \in Account
    BY <1>3, BegunFacts DEF Inv, ClientInv
  <1>5. QED
    BY <1>2, <1>4 DEF c

-----------------------------------------------------------------------------
(* Steps of request_drop around the drop. *)

LEMMA RequestStep ==
  ASSUME Inv, NEW c \in Call, RequestDrop(c), UNCHANGED <<drop, chain>>
  PROVE  Inv'
  <1>0. /\ TypeOK /\ ClientInv /\ Reconciled /\ UnknownIsAlone /\ (\A x \in Hash : TxFits(x))
        /\ \A d \in Call : DropFits(d)
    BY DEF Inv
  <1>1. UNCHANGED <<drop, challenge, tx, balance, slipped, spent>>
    BY DEF chain
  <1>2. ClientInv'
    BY <1>0, ClientInvNext DEF ClientNext
  <1>3. TypeOK'
    BY <1>0, <1>1, <1>2 DEF TypeOK, ClientInv, Drop, Tx, NoTx
  <1>4. Reconciled' /\ UnknownIsAlone'
    BY <1>0, ReconciledRequest
  <1>5. RequestKeeps
    BY <1>0, RequestKeepsRuns
  <1>6. ASSUME NEW d \in Call
        PROVE  DropFits(d)'
    <2>1. CASE d \in Ran
      <3>1. /\ d \in Ran' /\ call'[d].account = call[d].account /\ call'[d].answer = call[d].answer
            /\ call'[d].pc = "run" <=> call[d].pc = "run"
        BY <1>5, <2>1 DEF RequestKeeps, Ran
      <3>2. LocalsFit(d)'
        BY <1>0, <1>1, <2>1, <3>1 DEF DropFits, LocalsFit, InFlight, HasSolved, Sent
      <3>3. call[d].account \notin spent => BalanceFits(d)'
        BY <1>0, <1>1, <2>1, <3>1 DEF DropFits, BalanceFits, InFlight, Sent, Executed, Recipient,
                                      Dead, MayPay
      <3>4. QED
        BY <1>1, <3>1, <3>2, <3>3 DEF DropFits
    <2>2. CASE d \notin Ran
      <3>1. drop[d] = NoDrop /\ Sent(d) = {}
        BY <1>0, <2>2 DEF DropFits
      <3>2. /\ drop'[d] = NoDrop /\ Sent(d)' = {} /\ drop'[d].at = "inspect"
            /\ drop'[d].included = "unread"
        BY <1>1, <3>1 DEF Sent, NoDrop
      <3>3. d \in Ran' => call'[d].answer = "none" /\ call'[d].pc = "run"
        BY <1>5, <2>2 DEF RequestKeeps
      <3>4. d \in Ran' => LocalsFit(d)' /\ BalanceFits(d)'
        BY <3>2, <3>3 DEF LocalsFit, BalanceFits, InFlight, HasSolved
      <3>5. QED
        BY <3>2, <3>4 DEF DropFits, NoDrop
    <2>3. QED
      BY <2>1, <2>2
  <1>7. QED
    BY <1>0, <1>1, <1>2, <1>3, <1>4, <1>6 DEF Inv, TxFits, NoTx

-----------------------------------------------------------------------------
(* Steps of a drop. *)

\* What a drop does to itself is nothing to the others.
LEMMA OthersFit ==
  ASSUME Inv, NEW c \in Call, NEW d \in Call \ {c}, UNCHANGED chain, drop'[d] = drop[d],
         call'[d] = call[d]
  PROVE  DropFits(d)'
  <1>1. DropFits(d) /\ UNCHANGED <<challenge, tx, balance, slipped, spent>>
    BY DEF Inv, chain
  <1>2. d \in Ran' <=> d \in Ran
    BY DEF Ran, Born
  <1>3. LocalsFit(d) => LocalsFit(d)'
    BY <1>1 DEF LocalsFit, InFlight, HasSolved, Sent
  <1>4. BalanceFits(d) => BalanceFits(d)'
    BY <1>1 DEF BalanceFits, InFlight, Sent, Executed, Recipient, Dead, MayPay
  <1>5. QED
    BY <1>1, <1>2, <1>3, <1>4 DEF DropFits, NoDrop, Sent

LEMMA DropMoves ==
  ASSUME Inv, NEW c \in Call, call[c].pc = "run", UNCHANGED <<client, chain>>,
         drop' \in [Call -> Drop], \A d \in Call \ {c} : drop'[d] = drop[d],
         LocalsFit(c)', call[c].account \notin spent => BalanceFits(c)'
  PROVE  Inv'
  <1>0. TypeOK /\ ClientInv /\ Reconciled /\ UnknownIsAlone /\ (\A x \in Hash : TxFits(x))
    BY DEF Inv
  <1>1. UNCHANGED <<challenge, tx, balance, slipped, spent, call>>
    BY DEF chain, client
  <1>2. ClientInv' /\ Reconciled' /\ UnknownIsAlone'
    BY <1>0, ClientInvNext, ReconciledStutter DEF ClientNext
  <1>3. TypeOK'
    BY <1>0, <1>1, <1>2 DEF TypeOK, ClientInv, Tx, NoTx
  <1>4. DropFits(c)'
    <2>1. c \in Ran'
      BY RunFacts, <1>1 DEF Ran, Born
    <2>2. QED
      BY <1>1, <2>1 DEF DropFits
  <1>5. \A d \in Call \ {c} : DropFits(d)'
    BY <1>1, OthersFit
  <1>6. QED
    BY <1>0, <1>1, <1>2, <1>3, <1>4, <1>5 DEF Inv, TxFits, NoTx

\* A drop that ends without a credit, and knows so, leaves only dead claims.
LEMMA DropEnds ==
  ASSUME Inv, NEW c \in Call, call[c].pc = "run", UNCHANGED chain, NEW outcome \in Outcome,
         End(c, outcome), outcome = "cancelled" => IsCancelled(c),
         outcome = "credited" => InFlight(c) /\ tx[drop[c].hash].state = "indexed",
         outcome \in {"failed", "cancelled"} /\ call[c].account \notin spent =>
           \A x \in Sent(c) \ slipped : Dead(x)
  PROVE  Inv'
  <1>0. TypeOK /\ ClientInv /\ Reconciled /\ UnknownIsAlone /\ (\A x \in Hash : TxFits(x))
    BY DEF Inv
  <1>1. UNCHANGED <<challenge, tx, balance, slipped, spent>>
    BY DEF chain
  <1>2. Finish(c, outcome)
    BY DEF End
  <1>3. ClientInv' /\ Reconciled' /\ UnknownIsAlone'
    <2>1. EndsDrop(c)
      BY <1>2 DEF EndsDrop
    <2>2. QED
      BY <1>0, <1>2, <2>1, ClientInvNext, ReconciledFinish DEF ClientNext
  <1>4. Moves(c, "record", TRUE, outcome)
    BY <1>0, <1>2, RunFacts, FinishMoves DEF ClientInv
  <1>5. /\ drop' \in [Call -> Drop] /\ \A d \in Call \ {c} : drop'[d] = drop[d]
        /\ drop'[c].at = "over" /\ drop'[c].hash = drop[c].hash /\ drop'[c].included = "unread"
    <2> DEFINE next == [NoDrop EXCEPT !.at = "over", !.hash = drop[c].hash]
    <2>1. drop[c] \in Drop /\ NoDrop \in Drop
      BY RunFacts, NoDropIsDrop
    <2>2. /\ next \in Drop /\ next.at = "over" /\ next.hash = drop[c].hash
          /\ next.included = "unread"
      BY <2>1 DEF NoDrop, Drop
    <2>3. drop' = [drop EXCEPT ![c] = next]
      BY DEF End
    <2> HIDE DEF next
    <2>4. QED
      BY <1>0, <2>2, <2>3 DEF TypeOK
  <1>6. TypeOK'
    BY <1>0, <1>1, <1>3, <1>5 DEF TypeOK, ClientInv, Tx, NoTx
  <1>7. /\ call'[c].pc = "record" /\ call'[c].answer = outcome
        /\ call'[c].account = call[c].account /\ c \in Ran'
    BY <1>0, <1>4, BornMoves DEF Moves, ClientInv, Pc
  <1>8. LocalsFit(c)'
    BY <1>1, <1>5, <1>7, RunFacts DEF LocalsFit, InFlight, HasSolved, Sent
  <1>9. ASSUME call[c].account \notin spent
        PROVE  BalanceFits(c)'
    <2>1. ASSUME NEW x \in Sent(c) \ slipped
          PROVE  Dead(x) \/ (x = drop[c].hash /\ outcome \in {"credited", "unknown"})
      BY <1>9, <2>1, RunFacts DEF BalanceFits, MayPay, Outcome
    <2>2. QED
      BY <1>1, <1>5, <1>7, <2>1 DEF BalanceFits, InFlight, Sent, Dead, MayPay
  <1>10. DropFits(c)'
    BY <1>1, <1>7, <1>8, <1>9 DEF DropFits
  <1>11. \A d \in Call \ {c} : DropFits(d)'
    BY <1>4, <1>5, OthersFit DEF Moves
  <1>12. QED
    BY <1>0, <1>1, <1>3, <1>6, <1>10, <1>11 DEF Inv, TxFits, NoTx

\* A drop submits again only when every claim it has submitted is dead.
LEMMA DropRetries ==
  ASSUME Inv, NEW c \in Call, call[c].pc = "run", UNCHANGED chain, NEW before \in Nat,
         NextAttempt(c, before),
         call[c].account \notin spent =>
           Recipient(c) >= before /\ \A x \in Sent(c) \ slipped : Dead(x)
  PROVE  Inv'
  <1>1. CASE End(c, "failed")
    BY <1>1, DropEnds DEF Outcome
  <1>2. ASSUME drop[c].attempt < MaxRetries, UNCHANGED client,
               drop' = [drop EXCEPT ![c] = [NoDrop EXCEPT !.at = "fetch", !.before = before,
                                                          !.attempt = drop[c].attempt + 1]]
        PROVE  Inv'
    <2>1. drop[c].attempt + 1 \in 0..MaxRetries
      <3>1. drop[c].attempt \in 0..MaxRetries
        BY RunFacts DEF Drop
      <3>2. QED
        BY <1>2, <3>1, ChainAssumption
    <2>2. /\ drop' \in [Call -> Drop] /\ \A d \in Call \ {c} : drop'[d] = drop[d]
          /\ drop'[c].at = "fetch" /\ drop'[c].before = before /\ drop'[c].included = "unread"
      <3> DEFINE next == [NoDrop EXCEPT !.at = "fetch", !.before = before,
                                        !.attempt = drop[c].attempt + 1]
      <3>1. /\ next \in Drop /\ next.at = "fetch" /\ next.before = before
            /\ next.included = "unread"
        BY <2>1, NoDropIsDrop DEF NoDrop, Drop
      <3>2. drop' = [drop EXCEPT ![c] = next]
        BY <1>2
      <3> HIDE DEF next
      <3>3. QED
        BY <3>1, <3>2 DEF Inv, TypeOK
    <2>3. UNCHANGED <<challenge, tx, balance, slipped, spent, call>>
      BY <1>2 DEF chain, client
    <2>4. LocalsFit(c)'
      BY <2>2, <2>3, RunFacts DEF LocalsFit, InFlight, HasSolved
    <2>5. call[c].account \notin spent => BalanceFits(c)'
      BY <2>2, <2>3 DEF BalanceFits, InFlight, Sent, Dead, Recipient
    <2>6. QED
      BY <1>2, <2>2, <2>4, <2>5, DropMoves
  <1>3. QED
    BY <1>1, <1>2 DEF NextAttempt

\* Before it has submitted, and after a claim was lost, all that a drop has sent is dead.
LEMMA NotInFlight ==
  ASSUME Inv, NEW c \in Call, call[c].pc = "run", ~InFlight(c), call[c].account \notin spent
  PROVE  \A x \in Sent(c) \ slipped : Dead(x)
  BY RunFacts DEF BalanceFits, MayPay

LEMMA InspectStep ==
  ASSUME Inv, NEW c \in Call, InspectRecipient(c)
  PROVE  Inv'
  <1>0. call[c].pc = "run" /\ drop[c].at = "inspect" /\ TypeOK
    BY DEF InspectRecipient, At, Inv
  <1>1. drop[c] \in Drop /\ Recipient(c) \in Nat
    BY <1>0, RunFacts
  <1> DEFINE next == [drop[c] EXCEPT !.at = "fetch", !.before = Recipient(c)]
  <1>2. /\ next \in Drop /\ next.at = "fetch" /\ next.before = Recipient(c)
        /\ next.included = drop[c].included
    BY <1>1 DEF Drop
  <1>3. drop' = [drop EXCEPT ![c] = next]
    BY DEF InspectRecipient
  <1> HIDE DEF next
  <1>4. /\ drop' \in [Call -> Drop] /\ \A d \in Call \ {c} : drop'[d] = drop[d]
        /\ drop'[c].at = "fetch" /\ drop'[c].before = Recipient(c)
        /\ drop'[c].included = drop[c].included
    BY <1>0, <1>2, <1>3 DEF TypeOK
  <1>5. UNCHANGED <<challenge, tx, balance, slipped, spent, call>>
    BY DEF InspectRecipient, chain, client
  <1>6. LocalsFit(c)'
    BY <1>0, <1>1, <1>4, <1>5, RunFacts DEF LocalsFit, InFlight, HasSolved
  <1>7. ASSUME call[c].account \notin spent
        PROVE  BalanceFits(c)'
    <2>1. ~InFlight(c)
      BY <1>0 DEF InFlight
    <2>2. \A x \in Sent(c) \ slipped : Dead(x)
      BY <1>0, <1>7, <2>1, NotInFlight
    <2>3. QED
      BY <1>1, <1>4, <1>5, <2>2 DEF BalanceFits, InFlight, Sent, Dead, Recipient
  <1>8. QED
    BY <1>0, <1>4, <1>6, <1>7, DropMoves DEF InspectRecipient

\* A step of a drop that is not in flight before or after it, and keeps the balance it has read.
LEMMA PreparesStep ==
  ASSUME Inv, NEW c \in Call, call[c].pc = "run", UNCHANGED <<client, chain>>,
         drop[c].at \in {"fetch", "solve", "refresh", "reread"},
         NEW next \in Drop, drop' = [drop EXCEPT ![c] = next],
         next.at \in {"solve", "refresh", "reread", "submit"}, next.before = drop[c].before,
         next.included = drop[c].included, next.solved < Pool /\ next.solved <= challenge
  PROVE  Inv'
  <1>1. drop' \in [Call -> Drop] /\ (\A d \in Call \ {c} : drop'[d] = drop[d]) /\ drop'[c] = next
    BY DEF Inv, TypeOK
  <1>2. UNCHANGED <<challenge, tx, balance, slipped, spent, call>>
    BY DEF chain, client
  <1>3. LocalsFit(c)'
    BY <1>1, <1>2, RunFacts DEF LocalsFit, InFlight, HasSolved
  <1>4. ASSUME call[c].account \notin spent
        PROVE  BalanceFits(c)'
    <2>1. \A x \in Sent(c) \ slipped : Dead(x)
      BY <1>4, NotInFlight DEF InFlight
    <2>2. Recipient(c) >= drop[c].before
      BY <1>4, RunFacts DEF BalanceFits
    <2>3. QED
      BY <1>1, <1>2, <2>1, <2>2 DEF BalanceFits, InFlight, Sent, Dead, Recipient
  <1>5. QED
    BY <1>1, <1>3, <1>4, DropMoves

LEMMA StopStep ==
  ASSUME Inv, NEW c \in Call, StopDrop(c) \/ FailDrop(c)
  PROVE  Inv'
  <1>1. call[c].pc = "run" /\ ~InFlight(c) /\ UNCHANGED chain
    BY DEF StopDrop, FailDrop, At, InFlight
  <1>2. call[c].account \notin spent => \A x \in Sent(c) \ slipped : Dead(x)
    BY <1>1, NotInFlight
  <1>3. \/ End(c, "cancelled") /\ IsCancelled(c)
        \/ End(c, "failed")
    BY DEF StopDrop, FailDrop, Stopped
  <1>4. QED
    BY <1>1, <1>2, <1>3, DropEnds DEF Outcome

LEMMA FetchStep ==
  ASSUME Inv, NEW c \in Call, FetchChallenge(c)
  PROVE  Inv'
  <1>0. /\ call[c].pc = "run" /\ drop[c].at = "fetch" /\ challenge < Pool /\ challenge \in 0..Pool
        /\ UNCHANGED <<client, chain>>
    BY DEF FetchChallenge, At, Inv, TypeOK
  <1>1. drop[c] \in Drop
    BY <1>0, RunFacts
  <1> DEFINE next == [drop[c] EXCEPT !.at = "solve", !.solved = challenge]
  <1>2. /\ next \in Drop /\ next.at = "solve" /\ next.before = drop[c].before
        /\ next.solved = challenge /\ next.included = drop[c].included
    BY <1>0, <1>1 DEF Drop
  <1>3. drop' = [drop EXCEPT ![c] = next]
    BY DEF FetchChallenge
  <1> HIDE DEF next
  <1>4. next.solved < Pool /\ next.solved <= challenge
    BY <1>0, <1>2, ChainAssumption
  <1>5. QED
    BY <1>0, <1>2, <1>3, <1>4, PreparesStep

\* Moving on without reading anything new.
LEMMA AdvanceStep ==
  ASSUME Inv, NEW c \in Call, call[c].pc = "run", UNCHANGED <<client, chain>>,
         drop[c].at \in {"solve", "refresh", "reread"},
         NEW at \in {"refresh", "reread", "submit"}, Move(c, at)
  PROVE  Inv'
  <1>1. drop[c] \in Drop /\ drop[c].solved < Pool /\ drop[c].solved <= challenge
    BY RunFacts DEF LocalsFit, HasSolved
  <1> DEFINE next == [drop[c] EXCEPT !.at = at]
  <1>2. /\ next \in Drop /\ next.at = at /\ next.before = drop[c].before
        /\ next.solved = drop[c].solved /\ next.included = drop[c].included
    BY <1>1 DEF Drop
  <1>3. drop' = [drop EXCEPT ![c] = next]
    BY DEF Move
  <1> HIDE DEF next
  <1>4. QED
    BY <1>1, <1>2, <1>3, PreparesStep

LEMMA SolveStep ==
  ASSUME Inv, NEW c \in Call, Solve(c)
  PROVE  Inv'
  <1>1. call[c].pc = "run" /\ drop[c].at = "solve" /\ ~InFlight(c) /\ UNCHANGED chain
    BY DEF Solve, At, InFlight
  <1>2. CASE Move(c, "refresh") /\ UNCHANGED client
    BY <1>1, <1>2, AdvanceStep
  <1>3. CASE IsCancelled(c) /\ End(c, "cancelled")
    BY <1>1, <1>3, NotInFlight, DropEnds DEF Outcome
  <1>4. QED
    BY <1>2, <1>3 DEF Solve

LEMMA RefreshStep ==
  ASSUME Inv, NEW c \in Call, RefreshChallenge(c)
  PROVE  Inv'
  <1>1. call[c].pc = "run" /\ drop[c].at = "refresh" /\ ~InFlight(c) /\ UNCHANGED chain
    BY DEF RefreshChallenge, At, InFlight
  <1>2. CASE Move(c, "reread") /\ UNCHANGED client
    BY <1>1, <1>2, AdvanceStep
  <1>3. CASE NextAttempt(c, drop[c].before)
    <2>1. drop[c].before \in Nat
      BY <1>1, RunFacts DEF LocalsFit
    <2>2. call[c].account \notin spent => Recipient(c) >= drop[c].before
      BY <1>1, RunFacts DEF BalanceFits
    <2>3. QED
      BY <1>1, <1>3, <2>1, <2>2, NotInFlight, DropRetries
  <1>4. QED
    BY <1>2, <1>3 DEF RefreshChallenge

LEMMA RereadStep ==
  ASSUME Inv, NEW c \in Call, RereadRecipient(c)
  PROVE  Inv'
  <1>1. call[c].pc = "run" /\ drop[c].at = "reread" /\ ~InFlight(c) /\ UNCHANGED chain
    BY DEF RereadRecipient, At, InFlight
  <1>2. CASE Move(c, "submit") /\ UNCHANGED client
    BY <1>1, <1>2, AdvanceStep
  <1>3. CASE NextAttempt(c, Recipient(c))
    <2>0. Recipient(c) \in Nat
      BY <1>1, RunFacts
    <2>1. Recipient(c) \in Nat /\ Recipient(c) >= Recipient(c)
      BY <2>0
    <2>2. QED
      BY <1>1, <1>3, <2>1, NotInFlight, DropRetries
  <1>4. QED
    BY <1>2, <1>3 DEF RereadRecipient

\* The new claim is for the challenge that was solved, and is the one that may pay.
LEMMA SubmitStep ==
  ASSUME Inv, NEW c \in Call, Submit(c)
  PROVE  Inv'
  <1>0. /\ TypeOK /\ ClientInv /\ Reconciled /\ UnknownIsAlone /\ (\A y \in Hash : TxFits(y))
        /\ (\A d \in Call : DropFits(d))
    BY DEF Inv
  <1>1. call[c].pc = "run" /\ drop[c].at = "submit" /\ ~InFlight(c)
    BY DEF Submit, At, InFlight
  <1>2. CASE End(c, "failed") /\ UNCHANGED tx
    <2>1. UNCHANGED chain
      BY <1>2 DEF Submit, chain
    <2>2. QED
      BY <1>1, <1>2, <2>1, NotInFlight, DropEnds DEF Outcome
  <1>3. ASSUME NEW x \in Hash, tx[x] = NoTx, UNCHANGED client,
               tx' = [tx EXCEPT ![x] = [state |-> "pending", call |-> c,
                                        challenge |-> drop[c].solved]],
               drop' = [drop EXCEPT ![c].at = "included", ![c].hash = x]
        PROVE  Inv'
    <2>1. /\ drop[c] \in Drop /\ drop[c].solved \in 0..Pool /\ drop[c].solved < Pool
          /\ drop[c].solved <= challenge /\ drop[c].before \in Nat /\ c \in Ran
          /\ drop[c].included = "unread"
      BY <1>1, RunFacts DEF LocalsFit, HasSolved, Drop
    <2> DEFINE next == [drop[c] EXCEPT !.at = "included", !.hash = x]
               new  == [state |-> "pending", call |-> c, challenge |-> drop[c].solved]
    <2>2. /\ next \in Drop /\ next.at = "included" /\ next.hash = x
          /\ next.before = drop[c].before /\ next.solved = drop[c].solved
          /\ next.included = drop[c].included
      BY <2>1 DEF Drop
    <2>3. /\ new \in Tx /\ new.state = "pending" /\ new.call = c /\ new # NoTx
          /\ new.challenge = drop[c].solved
      <3>1. new.state # NoTx.state
        BY DEF NoTx
      <3>2. QED
        BY <2>1, <3>1 DEF Tx
    <2>4. drop' = [drop EXCEPT ![c] = next] /\ tx' = [tx EXCEPT ![x] = new]
      BY <1>3
    <2> HIDE DEF next, new
    <2>5. /\ drop' \in [Call -> Drop] /\ drop'[c] = next
          /\ \A d \in Call \ {c} : drop'[d] = drop[d]
      BY <1>0, <2>2, <2>4 DEF TypeOK
    <2>6. /\ tx' \in [Hash -> Tx \cup {NoTx}] /\ tx'[x] = new
          /\ \A y \in Hash \ {x} : tx'[y] = tx[y]
      BY <1>0, <2>3, <2>4 DEF TypeOK
    <2>7. UNCHANGED <<challenge, balance, slipped, spent, call, Ran>>
      BY <1>3 DEF Submit, client, Ran, Born
    <2>8. TypeOK'
      BY <1>0, <1>3, <2>5, <2>6, <2>7 DEF TypeOK, ClientTypeOK, client, Record, NoRecord
    <2>9. ClientInv' /\ Reconciled' /\ UnknownIsAlone'
      BY <1>0, <1>3, ClientInvNext, ReconciledStutter DEF ClientNext
    <2>10. \A y \in Hash : TxFits(y)'
      BY <1>0, <2>1, <2>3, <2>6, <2>7 DEF TxFits, NoTx
    <2>11. /\ Sent(c)' = Sent(c) \cup {x} /\ x \notin Sent(c)
           /\ \A d \in Call \ {c} : Sent(d)' = Sent(d)
      <3>1. tx[x].call = NoCall /\ NoCall \notin Call
        BY <1>3, TokenAssumption DEF NoTx
      <3>2. QED
        BY <2>3, <2>6, <3>1 DEF Sent
    <2>12. \A y \in Hash \ {x} : (Dead(y) => Dead(y)') /\ (y \in Executed' <=> y \in Executed)
      BY <2>6, <2>7 DEF Dead, Executed
    <2>13. x \notin Executed' /\ x \notin Executed
      BY <1>3, <2>3, <2>6 DEF Executed, NoTx
    <2>14. DropFits(c)'
      <3>1. LocalsFit(c)'
        BY <1>1, <2>1, <2>2, <2>3, <2>5, <2>6, <2>7, <2>11, RunFacts
           DEF LocalsFit, InFlight, HasSolved
      <3>2. ASSUME call[c].account \notin spent
            PROVE  BalanceFits(c)'
        <4>1. \A y \in Sent(c) \ slipped : Dead(y)
          BY <1>1, <3>2, NotInFlight
        <4>2. Recipient(c) >= drop[c].before
          BY <1>1, <3>2, RunFacts DEF BalanceFits
        <4>3. \A y \in Sent(c) : y \in Hash \ {x}
          BY <2>11 DEF Sent
        <4>4. \A y \in Sent(c)' \ slipped' : Dead(y)' \/ MayPay(c, y)'
          BY <2>2, <2>5, <2>7, <2>11, <2>12, <4>1, <4>3 DEF MayPay, InFlight
        <4>5. QED
          BY <2>2, <2>5, <2>7, <2>13, <4>2, <4>4 DEF BalanceFits, Recipient
      <3>3. QED
        BY <2>1, <2>7, <3>1, <3>2 DEF DropFits
    <2>15. ASSUME NEW d \in Call \ {c}
           PROVE  DropFits(d)'
      <3>1. drop'[d] = drop[d] /\ Sent(d)' = Sent(d) /\ x \notin Sent(d)
        <4>1. x \notin Sent(d)
          BY <2>11, <2>3, <2>6 DEF Sent
        <4>2. QED
          BY <2>5, <2>11, <4>1
      <3>2. ASSUME LocalsFit(d)
            PROVE  LocalsFit(d)'
        BY <2>6, <2>7, <3>1, <3>2 DEF LocalsFit, InFlight, HasSolved, Sent
      <3>3. ASSUME LocalsFit(d), BalanceFits(d)
            PROVE  BalanceFits(d)'
        <4>1. \A y \in Sent(d) : y \in Hash \ {x}
          BY <3>1 DEF Sent
        <4>2. InFlight(d) => drop[d].hash \in Sent(d)
          BY <3>3 DEF LocalsFit
        <4>3. drop[d].at = "challenge" => InFlight(d)
          BY DEF InFlight
        <4>4. QED
          BY <2>7, <2>12, <3>1, <3>3, <4>1, <4>2, <4>3 DEF BalanceFits, InFlight, MayPay, Recipient
      <3>4. QED
        BY <1>0, <2>7, <3>1, <3>2, <3>3 DEF DropFits, NoDrop
    <2>16. QED
      BY <2>8, <2>9, <2>10, <2>14, <2>15 DEF Inv
  <1>4. QED
    BY <1>2, <1>3 DEF Submit

\* A read of a round: the claim is in flight before and after it.
LEMMA ReadStep ==
  ASSUME Inv, NEW c \in Call, call[c].pc = "run", UNCHANGED <<client, chain>>, InFlight(c),
         NEW next \in Drop, drop' = [drop EXCEPT ![c] = next],
         next.at \in {"included", "balance", "challenge"}, next.before = drop[c].before,
         next.solved = drop[c].solved, next.hash = drop[c].hash,
         next.included = "yes" => tx[drop[c].hash].state = "indexed",
         next.at = "challenge" => next.seen \in {NoBalance, Recipient(c)}
  PROVE  Inv'
  <1>1. drop' \in [Call -> Drop] /\ (\A d \in Call \ {c} : drop'[d] = drop[d]) /\ drop'[c] = next
    BY DEF Inv, TypeOK
  <1>2. UNCHANGED <<challenge, tx, balance, slipped, spent, call>>
    BY DEF chain, client
  <1>3. LocalsFit(c)'
    <2>1. /\ call[c].answer = "none" /\ drop[c].before \in Nat
          /\ drop[c].solved < Pool /\ drop[c].solved <= challenge
          /\ drop[c].hash \in Sent(c) /\ tx[drop[c].hash].challenge = drop[c].solved
      BY RunFacts DEF LocalsFit, InFlight, HasSolved
    <2>2. Sent(c)' = Sent(c)
      BY <1>2 DEF Sent
    <2>3. QED
      BY <1>1, <1>2, <2>1, <2>2 DEF LocalsFit, InFlight, HasSolved
  <1>4. ASSUME call[c].account \notin spent
        PROVE  BalanceFits(c)'
    <2>1. Recipient(c) >= drop[c].before
      BY <1>4, RunFacts DEF BalanceFits, InFlight
    <2>2. drop[c].hash \in Executed => Recipient(c) >= drop[c].before + Prize
      BY <1>4, RunFacts DEF BalanceFits
    <2>3. \A x \in Sent(c) \ slipped : Dead(x) \/ x = drop[c].hash
      BY <1>4, RunFacts DEF BalanceFits, MayPay
    <2>4. QED
      BY <1>1, <1>2, <2>1, <2>2, <2>3
         DEF BalanceFits, InFlight, Sent, Dead, Recipient, Executed, MayPay
  <1>5. QED
    BY <1>1, <1>3, <1>4, DropMoves

LEMMA ReadIncludedStep ==
  ASSUME Inv, NEW c \in Call, ReadIncluded(c)
  PROVE  Inv'
  <1>0. call[c].pc = "run" /\ InFlight(c) /\ UNCHANGED <<client, chain>>
    BY DEF ReadIncluded, At, InFlight
  <1>1. drop[c] \in Drop
    BY <1>0, RunFacts
  <1>2. PICK included \in {"unread", "yes", "no"} :
          /\ included = "yes" => tx[drop[c].hash].state = "indexed"
          /\ drop' = [drop EXCEPT ![c].at = "balance", ![c].included = included]
    BY DEF ReadIncluded
  <1> DEFINE next == [drop[c] EXCEPT !.at = "balance", !.included = included]
  <1>3. /\ next \in Drop /\ next.at = "balance" /\ next.before = drop[c].before
        /\ next.solved = drop[c].solved /\ next.hash = drop[c].hash /\ next.included = included
    BY <1>1 DEF Drop
  <1>4. drop' = [drop EXCEPT ![c] = next]
    BY <1>2
  <1> HIDE DEF next
  <1>5. QED
    BY <1>0, <1>2, <1>3, <1>4, ReadStep

LEMMA ReadBalanceStep ==
  ASSUME Inv, NEW c \in Call, ReadBalance(c)
  PROVE  Inv'
  <1>0. call[c].pc = "run" /\ InFlight(c) /\ UNCHANGED <<client, chain>>
    BY DEF ReadBalance, At, InFlight
  <1>1. drop[c] \in Drop /\ Recipient(c) \in Nat
    BY <1>0, RunFacts
  <1>2. PICK seen \in {NoBalance, Recipient(c)} :
          drop' = [drop EXCEPT ![c].at = "challenge", ![c].seen = seen]
    BY DEF ReadBalance
  <1> DEFINE next == [drop[c] EXCEPT !.at = "challenge", !.seen = seen]
  <1>3. /\ next \in Drop /\ next.at = "challenge" /\ next.before = drop[c].before
        /\ next.solved = drop[c].solved /\ next.hash = drop[c].hash
        /\ next.included = drop[c].included /\ next.seen = seen
    BY <1>1 DEF Drop
  <1>4. drop' = [drop EXCEPT ![c] = next]
    BY <1>2
  <1>5. drop[c].included = "yes" => tx[drop[c].hash].state = "indexed"
    BY <1>0, RunFacts DEF LocalsFit
  <1> HIDE DEF next
  <1>6. QED
    BY <1>0, <1>3, <1>4, <1>5, ReadStep

\* A round finds a race lost only when the prize was not on the balance after the claim's last
\* chance to pay, unless the claim slipped between the two reads.
LEMMA LostRaceIsDead ==
  ASSUME Inv, NEW c \in Call, call[c].pc = "run", drop[c].at = "challenge",
         call[c].account \notin spent, challenge # drop[c].solved,
         drop[c].included # "yes" => drop[c].seen = drop[c].before,
         drop[c].included # "yes"
  PROVE  \A x \in Sent(c) \ slipped : Dead(x)
  <1>1. InFlight(c)
    BY DEF InFlight
  <1>2. drop[c].before \in Nat /\ drop[c].seen = drop[c].before
    BY RunFacts DEF LocalsFit
  <1>3. drop[c].hash \notin Executed \ slipped
    <2>1. drop[c].hash \in Executed \ slipped =>
            drop[c].seen = NoBalance \/ drop[c].seen >= drop[c].before + Prize
      BY RunFacts DEF BalanceFits
    <2>2. QED
      BY <1>2, <2>1 DEF NoBalance, Prize
  <1>4. /\ drop[c].solved < challenge /\ tx[drop[c].hash].challenge = drop[c].solved
        /\ drop[c].hash \in Hash /\ tx[drop[c].hash].call = c
    <2>1. drop[c].solved <= challenge /\ drop[c].solved \in 0..Pool /\ challenge \in 0..Pool
      <3>1. drop[c] \in Drop /\ challenge \in 0..Pool
        BY RunFacts DEF Inv, TypeOK
      <3>2. drop[c].solved <= challenge
        BY <1>1, RunFacts DEF LocalsFit, HasSolved
      <3>3. QED
        BY <3>1, <3>2 DEF Drop
    <2>2. drop[c].hash \in Sent(c) /\ tx[drop[c].hash].challenge = drop[c].solved
      BY <1>1, RunFacts DEF LocalsFit
    <2>3. drop[c].solved < challenge
      BY <2>1, ChainAssumption
    <2>4. QED
      BY <2>2, <2>3 DEF Sent
  <1>5. ASSUME drop[c].hash \notin slipped
        PROVE  Dead(drop[c].hash)
    <2>1. tx[drop[c].hash].state \in {"pending", "discarded"}
      BY <1>3, <1>4, <1>5, TxFacts, TokenAssumption DEF Executed, Inv
    <2>2. QED
      BY <1>4, <2>1 DEF Dead
  <1>6. QED
    BY <1>5, RunFacts DEF BalanceFits, MayPay

LEMMA ReadChallengeStep ==
  ASSUME Inv, NEW c \in Call, ReadChallenge(c)
  PROVE  Inv'
  <1>0. call[c].pc = "run" /\ drop[c].at = "challenge" /\ InFlight(c) /\ UNCHANGED chain
    BY DEF ReadChallenge, At, InFlight
  <1>1. drop[c] \in Drop /\ drop[c].before \in Nat
    BY <1>0, RunFacts DEF LocalsFit, InFlight
  <1>2. PICK rotated \in {"unread", IF challenge = drop[c].solved THEN "no" ELSE "yes"} :
          LET decision == Classify(drop[c].before, drop[c].included, drop[c].seen, rotated) IN
          \/ decision = "credited" /\ End(c, "credited")
          \/ decision = "lost_race" /\ NextAttempt(c, drop[c].before)
          \/ decision = "unattributable" /\ End(c, "unknown")
          \/ /\ decision = "continue"
             /\ drop' = [drop EXCEPT ![c].at = "included", ![c].included = "unread",
                                     ![c].seen = NoBalance]
             /\ UNCHANGED client
          \/ decision = "continue" /\ End(c, "unknown")
    BY DEF ReadChallenge
  <1> DEFINE decision == Classify(drop[c].before, drop[c].included, drop[c].seen, rotated)
  <1>3. CASE decision = "credited" /\ End(c, "credited")
    <2>1. tx[drop[c].hash].state = "indexed"
      <3>1. drop[c].included = "yes"
        BY <1>3 DEF Classify
      <3>2. QED
        BY <1>0, <3>1, RunFacts DEF LocalsFit
    <2>2. QED
      BY <1>0, <1>3, <2>1, DropEnds DEF Outcome
  <1>4. CASE decision = "lost_race" /\ NextAttempt(c, drop[c].before)
    <2>1. drop[c].included # "yes" /\ drop[c].seen = drop[c].before /\ rotated = "yes"
      BY <1>4 DEF Classify
    <2>2. challenge # drop[c].solved
      BY <1>2, <2>1
    <2>3. ASSUME call[c].account \notin spent
          PROVE  Recipient(c) >= drop[c].before /\ \A x \in Sent(c) \ slipped : Dead(x)
      BY <1>0, <2>1, <2>2, <2>3, LostRaceIsDead, RunFacts DEF BalanceFits
    <2>4. QED
      BY <1>0, <1>1, <1>4, <2>3, DropRetries
  <1>5. CASE End(c, "unknown")
    BY <1>0, <1>5, DropEnds DEF Outcome
  <1>6. CASE /\ drop' = [drop EXCEPT ![c].at = "included", ![c].included = "unread",
                                     ![c].seen = NoBalance]
             /\ UNCHANGED client
    <2> DEFINE next == [drop[c] EXCEPT !.at = "included", !.included = "unread", !.seen = NoBalance]
    <2>1. /\ next \in Drop /\ next.at = "included" /\ next.before = drop[c].before
          /\ next.solved = drop[c].solved /\ next.hash = drop[c].hash /\ next.included = "unread"
      BY <1>1 DEF Drop
    <2>2. drop' = [drop EXCEPT ![c] = next]
      BY <1>6
    <2> HIDE DEF next
    <2>3. QED
      BY <1>0, <1>6, <2>1, <2>2, ReadStep
  <1>7. QED
    BY <1>2, <1>3, <1>4, <1>5, <1>6

LEMMA RunDropStep ==
  ASSUME Inv, NEW c \in Call, RunDrop(c)
  PROVE  Inv'
  BY InspectStep, StopStep, FetchStep, SolveStep, RefreshStep, RereadStep, SubmitStep,
     ReadIncludedStep, ReadBalanceStep, ReadChallengeStep DEF RunDrop

-----------------------------------------------------------------------------
(* Steps of the chain. *)

\* The challenge only moves on; a claim that is indexed, or dead, stays so; only a recipient that
\* spends loses balance; and a claim that pays is seen in the balance, at once.
ChainStep ==
  /\ UNCHANGED <<client, drop>>
  /\ challenge' \in 0..Pool /\ challenge <= challenge'
  /\ tx' \in [Hash -> Tx \cup {NoTx}]
  /\ balance' \in [Account -> Nat]
  /\ slipped' \in SUBSET Hash /\ slipped \subseteq slipped'
  /\ spent' \in SUBSET Account /\ spent \subseteq spent'
  /\ \A a \in Account \ spent' : balance'[a] >= balance[a]
  /\ \A x \in Hash : /\ tx'[x] = NoTx <=> tx[x] = NoTx
                     /\ tx'[x].call = tx[x].call
                     /\ tx[x] # NoTx => tx'[x].challenge = tx[x].challenge
                     /\ tx[x].state = "indexed" => tx'[x].state = "indexed"
                     /\ Dead(x) => Dead(x)'
  /\ \A x \in Executed' \ Executed : LET c == tx[x].call IN
       /\ call[c].account \notin spent' =>
            balance'[call[c].account] >= balance[call[c].account] + Prize
       /\ At(c, "challenge") => x \in slipped'

LEMMA ChainStepKeeps ==
  ASSUME Inv, ChainStep
  PROVE  Inv'
  <1>0. /\ TypeOK /\ ClientInv /\ Reconciled /\ UnknownIsAlone /\ (\A x \in Hash : TxFits(x))
        /\ \A d \in Call : DropFits(d)
    BY DEF Inv
  <1>1. UNCHANGED <<drop, call, Ran>>
    BY DEF ChainStep, client, Ran, Born
  <1>2. ClientInv' /\ Reconciled' /\ UnknownIsAlone'
    BY <1>0, ClientInvNext, ReconciledStutter DEF ClientNext, ChainStep
  <1>3. TypeOK'
    BY <1>0, <1>2 DEF TypeOK, ChainStep, ClientInv, Drop
  <1>4. challenge \in Nat /\ challenge' \in Nat /\ Pool \in Nat /\ challenge <= challenge'
    BY <1>0, ChainAssumption DEF TypeOK, ChainStep
  <1>5. ASSUME NEW x \in Hash
        PROVE  TxFits(x)'
    <2>1. tx[x] # NoTx => tx[x].challenge \in 0..Pool
      BY <1>0, TxFacts
    <2>2. QED
      BY <1>0, <1>4, <2>1 DEF ChainStep, TxFits, NoTx
  <1>6. \A c \in Call : Sent(c)' = Sent(c)
    BY DEF ChainStep, Sent
  <1>7. ASSUME NEW c \in Ran
        PROVE  LocalsFit(c)'
    <2>1. c \in Call /\ LocalsFit(c) /\ drop[c].solved \in 0..Pool
      BY <1>0 DEF DropFits, Ran, Born, TypeOK, Drop
    <2>2. ASSUME NEW x \in Sent(c)
          PROVE  /\ x \in Hash /\ tx'[x].challenge = tx[x].challenge
                 /\ tx[x].state = "indexed" => tx'[x].state = "indexed"
      <3>1. x \in Hash /\ tx[x] # NoTx
        BY <2>1, TokenAssumption DEF Sent, NoTx
      <3>2. QED
        BY <3>1 DEF ChainStep
    <2>3. HasSolved(c) => drop[c].solved < Pool /\ drop[c].solved <= challenge'
      BY <1>4, <2>1 DEF LocalsFit
    <2>4. QED
      BY <1>1, <1>6, <2>1, <2>2, <2>3 DEF LocalsFit, InFlight, HasSolved
  <1>8. ASSUME NEW c \in Ran, call[c].account \notin spent'
        PROVE  BalanceFits(c)'
    <2>1. /\ c \in Call /\ call[c].account \notin spent /\ BalanceFits(c) /\ LocalsFit(c)
          /\ drop[c] \in Drop /\ call[c].account \in Account
      <3>1. c \in Call /\ call[c] # Unborn /\ drop[c] \in Drop
        BY <1>0 DEF Ran, Born, TypeOK
      <3>2. call[c].account \in Account
        BY <1>0, <3>1 DEF ClientInv, ClientTypeOK, Begun
      <3>3. call[c].account \notin spent
        BY <1>8 DEF ChainStep
      <3>4. QED
        BY <1>0, <3>1, <3>2, <3>3 DEF DropFits
    <2>2. /\ Recipient(c) \in Nat /\ Recipient(c)' \in Nat /\ Recipient(c)' >= Recipient(c)
          /\ Recipient(c)' = balance'[call[c].account]
      BY <1>0, <1>1, <1>8, <2>1 DEF ChainStep, TypeOK, Recipient
    <2>3. drop[c].at \notin {"inspect", "over"} =>
            drop[c].before \in Nat /\ Recipient(c)' >= drop[c].before
      BY <2>1, <2>2 DEF BalanceFits, LocalsFit
    <2>4. ASSUME InFlight(c), drop[c].hash \in Executed'
          PROVE  Recipient(c)' >= drop[c].before + Prize
      <3>1. /\ drop[c].before \in Nat /\ drop[c].hash \in Hash /\ tx[drop[c].hash].call = c
            /\ Recipient(c) >= drop[c].before
        BY <2>1, <2>4 DEF LocalsFit, InFlight, Sent, BalanceFits
      <3>2. CASE drop[c].hash \in Executed
        BY <2>1, <2>2, <2>4, <3>1, <3>2 DEF BalanceFits, Prize
      <3>3. CASE drop[c].hash \notin Executed
        <4>1. Recipient(c)' >= Recipient(c) + Prize
          BY <1>8, <2>2, <2>4, <3>1, <3>3 DEF ChainStep, Recipient
        <4>2. QED
          BY <2>2, <3>1, <4>1 DEF Prize
      <3>4. QED
        BY <3>2, <3>3
    <2>5. ASSUME drop[c].at = "challenge", drop[c].hash \in Executed' \ slipped'
          PROVE  drop[c].seen = NoBalance \/ drop[c].seen >= drop[c].before + Prize
      <3>1. InFlight(c) /\ call[c].pc = "run"
        BY <2>1, <2>5 DEF InFlight, LocalsFit
      <3>2. drop[c].hash \in Hash /\ tx[drop[c].hash].call = c
        BY <2>1, <3>1 DEF LocalsFit, Sent
      <3>3. drop[c].hash \in Executed \ slipped
        BY <2>5, <3>1, <3>2 DEF ChainStep, At
      <3>4. QED
        BY <2>1, <2>5, <3>3 DEF BalanceFits
    <2>6. ASSUME NEW x \in Sent(c) \ slipped'
          PROVE  Dead(x)' \/ MayPay(c, x)'
      <3>1. x \in Hash /\ x \in Sent(c) \ slipped
        BY <2>6 DEF ChainStep, Sent
      <3>2. QED
        BY <1>1, <2>1, <3>1 DEF ChainStep, BalanceFits, MayPay, InFlight
    <2>7. InFlight(c)' <=> InFlight(c)
      BY <1>1 DEF InFlight
    <2>8. Sent(c)' = Sent(c)
      BY <1>6, <2>1
    <2>9. QED
      BY <1>1, <2>3, <2>4, <2>5, <2>6, <2>7, <2>8 DEF BalanceFits
  <1>9. \A c \in Call : DropFits(c)'
    BY <1>0, <1>1, <1>6, <1>7, <1>8 DEF DropFits, NoDrop
  <1>10. QED
    BY <1>2, <1>3, <1>5, <1>9 DEF Inv

\* A step that touches one claim, which stays what it was but for its state.
LEMMA TxChanges ==
  ASSUME TypeOK, NEW x \in Hash, tx[x] # NoTx,
         NEW state \in {"executed", "indexed", "discarded"}, tx' = [tx EXCEPT ![x].state = state]
  PROVE  /\ tx' \in [Hash -> Tx \cup {NoTx}]
         /\ tx'[x] # NoTx /\ tx'[x].state = state
         /\ tx'[x].call = tx[x].call /\ tx'[x].challenge = tx[x].challenge
         /\ \A y \in Hash \ {x} : tx'[y] = tx[y]
  <1> DEFINE next == [tx[x] EXCEPT !.state = state]
  <1>1. tx[x] \in Tx
    BY TxFacts
  <1>2. /\ next \in Tx /\ next.state = state /\ next.call = tx[x].call
        /\ next.challenge = tx[x].challenge
    BY <1>1 DEF Tx
  <1>3. next # NoTx
    <2>1. next.state # NoTx.state
      BY <1>2 DEF NoTx
    <2>2. QED
      BY <2>1
  <1>4. tx' = [tx EXCEPT ![x] = next]
    OBVIOUS
  <1> HIDE DEF next
  <1>5. QED
    BY <1>2, <1>3, <1>4 DEF TypeOK

\* A claim that pays moves the challenge on, and the balance of the call that sent it.
LEMMA ExecutePays ==
  ASSUME Inv, NEW x \in Hash, Execute(x), tx[x].challenge = challenge
  PROVE  ChainStep
  <1>0. TypeOK /\ TxFits(x) /\ tx[x].state = "pending"
    BY DEF Inv, Execute
  <1> DEFINE c == tx[x].call
             a == call[c].account
  <1>1. /\ tx[x] # NoTx /\ c \in Call /\ a \in Account /\ challenge < Pool
        /\ tx[x].challenge \in 0..Pool
    BY <1>0, TxFacts, SentIsRan DEF TxFits
  <1>2. /\ tx' = [tx EXCEPT ![x].state = "executed"] /\ challenge' = challenge + 1
        /\ balance' = [balance EXCEPT ![a] = @ + Prize]
        /\ slipped' = (IF At(c, "challenge") THEN slipped \cup {x} ELSE slipped)
        /\ UNCHANGED <<client, drop, spent>>
    BY DEF Execute
  <1>3. /\ tx' \in [Hash -> Tx \cup {NoTx}]
        /\ tx'[x] # NoTx /\ tx'[x].state = "executed"
        /\ tx'[x].call = tx[x].call /\ tx'[x].challenge = tx[x].challenge
        /\ \A y \in Hash \ {x} : tx'[y] = tx[y]
    BY <1>0, <1>1, <1>2, TxChanges
  <1>4. /\ challenge \in 0..Pool /\ challenge' \in 0..Pool /\ challenge <= challenge'
        /\ challenge < challenge' /\ Pool \in Nat
    BY <1>0, <1>1, <1>2, ChainAssumption DEF TypeOK
  <1>5. /\ balance' \in [Account -> Nat] /\ balance'[a] = balance[a] + Prize
        /\ \A b \in Account : balance'[b] >= balance[b]
    <2>1. balance[a] + Prize \in Nat /\ \A b \in Account : balance[b] \in Nat
      BY <1>0, <1>1 DEF TypeOK, Prize
    <2>2. /\ balance' \in [Account -> Nat] /\ balance'[a] = balance[a] + Prize
          /\ \A b \in Account \ {a} : balance'[b] = balance[b]
      BY <1>0, <1>1, <1>2, <2>1 DEF TypeOK
    <2>3. QED
      BY <2>1, <2>2 DEF Prize
  <1>6. slipped' \in SUBSET Hash /\ slipped \subseteq slipped'
    BY <1>0, <1>2 DEF TypeOK
  <1>7. ASSUME NEW y \in Hash
        PROVE  /\ tx'[y] = NoTx <=> tx[y] = NoTx
               /\ tx'[y].call = tx[y].call
               /\ tx[y] # NoTx => tx'[y].challenge = tx[y].challenge
               /\ tx[y].state = "indexed" => tx'[y].state = "indexed"
               /\ Dead(y) => Dead(y)'
    <2>1. CASE y = x
      <3>1. ~Dead(x)
        BY <1>0, <1>4 DEF Dead
      <3>2. QED
        BY <1>0, <1>1, <1>3, <2>1, <3>1
    <2>2. CASE y # x
      <3>1. ASSUME tx[y].state = "pending"
            PROVE  tx[y].challenge \in 0..Pool
        BY <1>0, <3>1, TxFacts
      <3>2. Dead(y) => Dead(y)'
        BY <1>3, <1>4, <2>2, <3>1 DEF Dead
      <3>3. QED
        BY <1>3, <2>2, <3>2
    <2>3. QED
      BY <2>1, <2>2
  <1>8. Executed' \ Executed = {x}
    BY <1>0, <1>3 DEF Executed
  <1>9. /\ balance'[a] >= balance[a] + Prize
        /\ At(c, "challenge") => x \in slipped'
    <2>1. balance[a] \in Nat
      BY <1>0, <1>1 DEF TypeOK
    <2>2. QED
      BY <1>2, <1>5, <2>1 DEF Prize
  <1>10. spent' = spent /\ spent \in SUBSET Account
    BY <1>0, <1>2 DEF TypeOK
  <1>11. UNCHANGED <<client, drop>>
    BY <1>2
  <1> HIDE DEF c, a
  <1>12. \A y \in Executed' \ Executed :
           /\ call[tx[y].call].account \notin spent' =>
                balance'[call[tx[y].call].account] >= balance[call[tx[y].call].account] + Prize
           /\ At(tx[y].call, "challenge") => y \in slipped'
    BY <1>8, <1>9 DEF c, a
  <1>13. QED
    BY <1>3, <1>4, <1>5, <1>6, <1>7, <1>10, <1>11, <1>12 DEF ChainStep

\* A step that pays nobody: it may find a claim discarded, index it, or move the challenge on.
LEMMA QuietChainStep ==
  ASSUME Inv, UNCHANGED <<client, drop, balance, slipped, spent>>,
         challenge' \in 0..Pool, challenge <= challenge',
         tx' \in [Hash -> Tx \cup {NoTx}],
         \A y \in Hash : /\ tx'[y] = NoTx <=> tx[y] = NoTx
                         /\ tx'[y].call = tx[y].call
                         /\ tx[y] # NoTx => tx'[y].challenge = tx[y].challenge
                         /\ \/ tx'[y].state = tx[y].state
                            \/ tx[y].state = "pending" /\ tx'[y].state = "discarded"
                            \/ tx[y].state = "executed" /\ tx'[y].state = "indexed"
  PROVE  ChainStep
  <1>0. TypeOK /\ challenge \in Nat /\ challenge' \in Nat
    BY ChainAssumption DEF Inv, TypeOK
  <1>1. Executed' \ Executed = {}
    BY DEF Executed
  <1>2. ASSUME NEW y \in Hash
        PROVE  /\ tx[y].state = "indexed" => tx'[y].state = "indexed"
               /\ Dead(y) => Dead(y)'
    <2>1. ASSUME tx[y].state = "pending"
          PROVE  tx[y].challenge \in 0..Pool /\ tx[y] # NoTx
      BY <1>0, <2>1, TxFacts
    <2>2. QED
      BY <1>0, <2>1, ChainAssumption DEF Dead
  <1>3. \A a \in Account : balance'[a] >= balance[a]
    <2>1. \A a \in Account : balance[a] \in Nat
      BY <1>0 DEF TypeOK
    <2>2. QED
      BY <2>1
  <1>4. /\ balance' \in [Account -> Nat] /\ slipped' \in SUBSET Hash /\ slipped \subseteq slipped'
        /\ spent' \in SUBSET Account /\ spent \subseteq spent'
    BY <1>0 DEF TypeOK
  <1>5. QED
    BY <1>1, <1>2, <1>3, <1>4 DEF ChainStep

LEMMA ClaimSteps ==
  ASSUME Inv, NEW x \in Hash, Execute(x) \/ Index(x)
  PROVE  ChainStep
  <1>0. TypeOK /\ challenge \in 0..Pool /\ challenge <= challenge
    BY ChainAssumption DEF Inv, TypeOK
  <1>1. CASE Execute(x) /\ tx[x].challenge = challenge
    BY <1>1, ExecutePays
  <1>2. ASSUME NEW state \in {"indexed", "discarded"}, tx' = [tx EXCEPT ![x].state = state],
               \/ tx[x].state = "pending" /\ state = "discarded"
               \/ tx[x].state = "executed" /\ state = "indexed",
               UNCHANGED <<client, drop, challenge, balance, slipped, spent>>
        PROVE  ChainStep
    <2>1. tx[x] # NoTx
      BY <1>2 DEF NoTx
    <2>2. /\ tx' \in [Hash -> Tx \cup {NoTx}]
          /\ tx'[x] # NoTx /\ tx'[x].state = state
          /\ tx'[x].call = tx[x].call /\ tx'[x].challenge = tx[x].challenge
          /\ \A y \in Hash \ {x} : tx'[y] = tx[y]
      BY <1>0, <1>2, <2>1, TxChanges
    <2>3. QED
      BY <1>0, <1>2, <2>1, <2>2, QuietChainStep
  <1>3. CASE Execute(x) /\ tx[x].challenge # challenge
    <2>1. /\ tx' = [tx EXCEPT ![x].state = "discarded"] /\ tx[x].state = "pending"
          /\ UNCHANGED <<client, drop, challenge, balance, slipped, spent>>
      BY <1>3 DEF Execute
    <2>2. QED
      BY <1>2, <2>1
  <1>4. CASE Index(x)
    BY <1>2, <1>4 DEF Index
  <1>5. QED
    BY <1>1, <1>3, <1>4

LEMMA OtherClaimStep ==
  ASSUME Inv, OtherClaim
  PROVE  ChainStep
  <1>1. challenge' \in 0..Pool /\ challenge <= challenge'
    BY ChainAssumption DEF OtherClaim, Inv, TypeOK
  <1>2. UNCHANGED <<client, drop, tx, balance, slipped, spent>> /\ tx \in [Hash -> Tx \cup {NoTx}]
    BY DEF OtherClaim, Inv, TypeOK
  <1>3. QED
    BY <1>1, <1>2, QuietChainStep

LEMMA TransferStep ==
  ASSUME Inv, NEW a \in Account, Transfer(a)
  PROVE  ChainStep
  <1>0. TypeOK /\ challenge \in 0..Pool /\ challenge <= challenge
    BY ChainAssumption DEF Inv, TypeOK
  <1>1. UNCHANGED <<client, drop, challenge, tx, slipped>>
    BY DEF Transfer
  <1>2. /\ balance' \in [Account -> Nat] /\ spent' \in SUBSET Account /\ spent \subseteq spent'
        /\ \A b \in Account \ spent' : balance'[b] >= balance[b]
    <2>0. \A b \in Account : balance[b] \in Nat
      BY <1>0 DEF TypeOK
    <2>1. CASE balance' = [balance EXCEPT ![a] = @ + 1] /\ UNCHANGED spent
      <3>1. /\ balance' \in [Account -> Nat] /\ balance'[a] = balance[a] + 1
            /\ \A b \in Account \ {a} : balance'[b] = balance[b]
        BY <1>0, <2>0, <2>1 DEF TypeOK
      <3>2. QED
        BY <1>0, <2>0, <2>1, <3>1 DEF TypeOK
    <2>2. CASE balance[a] > 0 /\ balance' = [balance EXCEPT ![a] = @ - 1] /\ spent' = spent \cup {a}
      <3>1. balance[a] - 1 \in Nat
        BY <2>0, <2>2
      <3>2. /\ balance' \in [Account -> Nat]
            /\ \A b \in Account \ {a} : balance'[b] = balance[b]
        BY <1>0, <2>2, <3>1 DEF TypeOK
      <3>3. QED
        BY <1>0, <2>0, <2>2, <3>2 DEF TypeOK
    <2>3. QED
      BY <2>1, <2>2 DEF Transfer
  <1>3. UNCHANGED Executed /\ (\A x \in Hash : Dead(x) => Dead(x)')
    BY <1>1 DEF Executed, Dead
  <1>4. tx' \in [Hash -> Tx \cup {NoTx}] /\ slipped' \in SUBSET Hash
    BY <1>0, <1>1 DEF TypeOK
  <1>5. QED
    BY <1>0, <1>1, <1>2, <1>3, <1>4 DEF ChainStep

-----------------------------------------------------------------------------
LEMMA InvInit == Init => Inv
  <1> SUFFICES ASSUME Init PROVE Inv
    OBVIOUS
  <1>1. ClientInv /\ Reconciled /\ UnknownIsAlone
    BY ClientInvInit, ReconciledInit DEF Init
  <1>2. TypeOK
    BY <1>1, NoDropIsDrop, ChainAssumption DEF Init, TypeOK, ClientInv
  <1>3. ASSUME NEW c \in Call
        PROVE  DropFits(c)
    <2>1. c \notin Ran
      BY DEF Init, ClientInit, Ran, Born
    <2>2. Sent(c) = {}
      BY TokenAssumption DEF Init, Sent, NoTx
    <2>3. QED
      BY <2>1, <2>2 DEF Init, DropFits
  <1>4. \A x \in Hash : TxFits(x)
    BY DEF Init, TxFits
  <1>5. QED
    BY <1>1, <1>2, <1>3, <1>4 DEF Inv

LEMMA InvNext == Inv /\ [Next]_vars => Inv'
  <1> SUFFICES ASSUME Inv, [Next]_vars PROVE Inv'
    OBVIOUS
  <1>1. ASSUME NEW c \in Call, RequestDrop(c), UNCHANGED <<drop, chain>>
        PROVE  Inv'
    BY <1>1, RequestStep
  <1>2. ASSUME NEW c \in Call, RunDrop(c)
        PROVE  Inv'
    BY <1>2, RunDropStep
  <1>3. ASSUME NEW x \in Hash, Execute(x) \/ Index(x)
        PROVE  Inv'
    BY <1>3, ClaimSteps, ChainStepKeeps
  <1>4. CASE OtherClaim
    BY <1>4, OtherClaimStep, ChainStepKeeps
  <1>5. ASSUME NEW a \in Account, Transfer(a)
        PROVE  Inv'
    BY <1>5, TransferStep, ChainStepKeeps
  <1>6. CASE UNCHANGED vars
    <2>1. UNCHANGED <<client, drop, challenge, tx, balance, slipped, spent>>
      BY <1>6 DEF vars, chain
    <2>2. challenge \in 0..Pool /\ challenge <= challenge /\ tx \in [Hash -> Tx \cup {NoTx}]
      BY ChainAssumption DEF Inv, TypeOK
    <2>3. ChainStep
      BY <2>1, <2>2, QuietChainStep
    <2>4. QED
      BY <2>3, ChainStepKeeps
  <1>7. QED
    BY <1>1, <1>2, <1>3, <1>4, <1>5, <1>6 DEF Next

LEMMA Invariance == Spec => []Inv
  BY InvInit, InvNext, PTL DEF Spec

\* Every value has its type: records, calls, drops, claims, the challenge and the balances.
THEOREM TypeCorrectness == Spec => []TypeOK
  <1>1. Inv => TypeOK
    BY DEF Inv
  <1>2. QED
    BY <1>1, Invariance, PTL

\* What has run, was not found dead, and is not among the claims that slipped, is the last claim
\* of its drop, in flight or with an outcome that allows for it.
LEMMA LiveClaimMayPay ==
  ASSUME Inv, NEW c \in Ran, call[c].account \notin spent, NEW x \in (Executed \cap Sent(c)) \ slipped
  PROVE  x = drop[c].hash /\ (InFlight(c) \/ call[c].answer \in {"credited", "unknown"})
  <1>1. BalanceFits(c)
    BY DEF Inv, DropFits, Ran, Born
  <1>2. ~Dead(x)
    BY DEF Dead, Executed
  <1>3. QED
    BY <1>1, <1>2 DEF BalanceFits, MayPay

\* reconcile reports a credit only for a claim of the call that it read from the chain, and, for a
\* recipient that spends nothing, only for the one claim of the call that paid.
THEOREM ReceiptsAreProven == Spec => []ReceiptIsProven
  <1>1. ASSUME Inv, NEW c \in Ran, call[c].answer = "credited"
        PROVE  /\ drop[c].hash \in Sent(c)
               /\ tx[drop[c].hash].state = "indexed"
               /\ call[c].account \notin spent => (Executed \cap Sent(c)) \ slipped \subseteq {drop[c].hash}
    <2>1. LocalsFit(c)
      BY <1>1 DEF Inv, DropFits, Ran, Born
    <2>2. QED
      BY <1>1, <2>1, LiveClaimMayPay DEF LocalsFit
  <1>2. Inv => ReceiptIsProven
    BY <1>1 DEF ReceiptIsProven
  <1>3. QED
    BY <1>2, Invariance, PTL

\* Whenever run_pinata_drop ends as failed or cancelled, every claim it sent that did not slip has
\* paid nothing and cannot pay any more.
THEOREM FailuresCreditNothing == Spec => []FailureCreditsNothing
  <1>1. ASSUME Inv, NEW c \in Ran, call[c].answer \in {"failed", "cancelled"},
               call[c].account \notin spent, NEW x \in Sent(c) \ slipped
        PROVE  Dead(x)
    <2>1. LocalsFit(c) /\ BalanceFits(c) /\ CallFits(c)
      BY <1>1 DEF Inv, DropFits, ClientInv, CallsFit, Ran, Born
    <2>2. drop[c].at = "over"
      BY <1>1, <2>1 DEF LocalsFit, CallFits
    <2>3. QED
      BY <1>1, <2>1, <2>2 DEF BalanceFits, MayPay, InFlight
  <1>2. Inv => FailureCreditsNothing
    BY <1>1 DEF FailureCreditsNothing, Dead
  <1>3. QED
    BY <1>2, Invariance, PTL

\* A recipient that spends nothing is credited at most once by drops that did not report it: only
\* one drop is in flight, and not for a recipient with an unknown outcome, which has one at most.
THEOREM UntoldCreditIsOne == Spec => []OneUntoldCredit
  <1>1. ASSUME Inv, NEW a \in Account \ spent
        PROVE  Cardinality({x \in Executed \ slipped :
                              /\ call[tx[x].call].account = a
                              /\ call[tx[x].call].answer # "credited"}) <= 1
    <2> DEFINE Untold == {x \in Executed \ slipped : /\ call[tx[x].call].account = a
                                                     /\ call[tx[x].call].answer # "credited"}
    <2>0. TypeOK /\ ClientInv /\ Reconciled /\ UnknownIsAlone
      BY <1>1 DEF Inv
    <2>1. ASSUME NEW x \in Untold
          PROVE  /\ x \in Hash /\ tx[x].call \in Ran /\ call[tx[x].call].account = a
                 /\ x = drop[tx[x].call].hash
                 /\ call[tx[x].call].pc = "run" \/ call[tx[x].call].answer = "unknown"
      <3>1. x \in Hash /\ tx[x] # NoTx
        BY DEF Executed, NoTx
      <3>2. tx[x].call \in Ran /\ x \in Sent(tx[x].call)
        BY <1>1, <3>1, SentIsRan DEF Sent
      <3>3. /\ x = drop[tx[x].call].hash
            /\ InFlight(tx[x].call) \/ call[tx[x].call].answer = "unknown"
        BY <1>1, <3>2, LiveClaimMayPay
      <3>4. InFlight(tx[x].call) => call[tx[x].call].pc = "run"
        BY <1>1, <3>2 DEF Inv, DropFits, LocalsFit, InFlight, Ran, Born
      <3>5. QED
        BY <3>1, <3>2, <3>3, <3>4
    <2>2. ASSUME NEW x \in Untold, NEW y \in Untold
          PROVE  x = y
      <3> DEFINE c == tx[x].call
                 d == tx[y].call
      <3>1. /\ c \in Ran /\ call[c].account = a /\ x = drop[c].hash
            /\ call[c].pc = "run" \/ call[c].answer = "unknown"
            /\ d \in Ran /\ call[d].account = a /\ y = drop[d].hash
            /\ call[d].pc = "run" \/ call[d].answer = "unknown"
        BY <2>1
      <3> HIDE DEF c, d, Untold
      <3>2. c = d
        BY <2>0, <3>1, RunsAlone
      <3>3. QED
        BY <3>1, <3>2
    <2> HIDE DEF Untold
    <2>3. Untold = {} \/ \E x \in Untold : Untold = {x}
      BY <2>2
    <2>4. Cardinality(Untold) \in {0, 1}
      BY <2>3, FS_EmptySet, FS_Singleton
    <2>5. Cardinality(Untold) <= 1
      BY <2>4
    <2>6. QED
      BY <2>5 DEF Untold
  <1>2. Inv => OneUntoldCredit
    BY <1>1 DEF OneUntoldCredit
  <1>3. QED
    BY <1>2, Invariance, PTL

=============================================================================
