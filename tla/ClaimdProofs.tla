---------------------------- MODULE ClaimdProofs ----------------------------
(*****************************************************************************)
(* Proofs about Claimd, for every set of requests, accounts, handlers and    *)
(* hashes, every prize, limit and bound: the inductive invariant of the      *)
(* ledger and its transfers; that the service keeps ClaimPromise, and what   *)
(* follows for its rows and its handlers (Effect says what one step does to  *)
(* the claims and their transfers; each theorem is proved from it alone);    *)
(* and what the service holds down: that one transfer is on its way, that    *)
(* its funds cover it, that no limit is exceeded by more than the calls      *)
(* that race, and that the advice to those it refuses is exact.              *)
(*****************************************************************************)
EXTENDS ClaimdIntake, FiniteSetTheorems, TLAPS

LEMMA InitInvariant == Init => IInv
  <1> SUFFICES ASSUME Init PROVE IInv
    OBVIOUS
  <1>1. TypeOK
    BY RequestAssumption, FundsAssumption
    DEF Init, TypeOK, Balance, NoRow, NoTx, NoCall, Idle, Worker, Unread, NoRequest, NoHash
  <1>2. Recorded = {} /\ \A r \in Request : Sent(r) = {}
    BY RequestAssumption DEF Init, Recorded, NoRow, Sent, NoTx, NoRequest
  <1>3. QED
    BY <1>1, <1>2 DEF Init, IInv, WorkerOnRow, RowsFitTransfers, TransfersAccounted,
       PaidOnceUnlessLost, IncludedIsProven, Idle, NoHash

-----------------------------------------------------------------------------
(* Rows and calls. *)

LEMMA RowFacts ==
  ASSUME TypeOK, NEW r \in Recorded
  PROVE  /\ r \in Request
         /\ ledger[r] \in Row
         /\ ledger[r].recipient \in Recipient
  BY DEF TypeOK, Recorded, Row, NoRow

LEMMA NoRowFacts ==
  ASSUME TypeOK, NEW r \in Request
  PROVE  (ledger[r] = NoRow) <=> r \notin Recorded
  BY DEF TypeOK, Recorded, Row, NoRow, Status

LEMMA QueuedIsRow ==
  ASSUME NEW a \in Recipient, NEW i \in Ip, NEW n \in Nat
  PROVE  Queued(a, i, n) \in Row
  BY DEF Queued, Row, Status, Balance, Unread

LEMMA CallFacts ==
  ASSUME TypeOK, NEW h \in Handler, handler[h].pc \in {"limits", "hot", "funds", "insert"}
  PROVE  handler[h] \in Call
  BY DEF TypeOK, Call, Answered, NoCall

LEMMA InsertedFacts ==
  ASSUME TypeOK, NEW h \in Handler, handler[h].pc = "inserted"
  PROVE  handler[h].request \in Request /\ handler[h].recipient \in Recipient
  BY DEF TypeOK, Call, Answered, NoCall

LEMMA RefuseType ==
  ASSUME TypeOK, NEW h \in Handler, Refuse(h)
  PROVE  handler' \in [Handler -> Call \cup Answered \cup {NoCall}]
  BY DEF TypeOK, Refuse

LEMMA AnswerType ==
  ASSUME TypeOK, NEW h \in Handler, NEW r \in Request, NEW a \in Recipient, Answer(h, r, a)
  PROVE  handler' \in [Handler -> Call \cup Answered \cup {NoCall}]
  BY DEF TypeOK, Answer, Answered

\* The handlers that only read leave every part of the invariant but the types alone.
LEMMA ReadingCalls ==
  ASSUME IInv, NEW h \in Handler,
         Post(h) \/ CheckLimits(h) \/ ReadHot(h) \/ CheckFunds(h) \/ ReadBack(h) \/ Abandon(h)
  PROVE  TypeOK' /\ UNCHANGED <<ledger, tx, lost, worker>>
  <1> USE DEF IInv
  <1>1. CASE Post(h)
    <2>1. PICK r \in Request, a \in Recipient, i \in Ip :
             \/ handler' = [handler EXCEPT ![h] =
                  [pc |-> "limits", request |-> r, recipient |-> a, ip |-> i, now |-> 0,
                   hot |-> Unread]]
             \/ Refuse(h)
             \/ Answer(h, r, a)
      BY <1>1 DEF Post
    <2>2. handler' \in [Handler -> Call \cup Answered \cup {NoCall}]
      BY <2>1, RefuseType, AnswerType DEF TypeOK, Call, Balance
    <2>3. QED
      BY <1>1, <2>2 DEF Post, chain, TypeOK
  <1>2. CASE CheckLimits(h)
    <2>1. handler[h] \in Call
      BY <1>2, CallFacts DEF CheckLimits
    <2>2. handler' \in [Handler -> Call \cup Answered \cup {NoCall}]
      BY <1>2, <2>1, RefuseType DEF CheckLimits, TypeOK, Call
    <2>3. QED
      BY <1>2, <2>2 DEF CheckLimits, chain, TypeOK
  <1>3. CASE ReadHot(h)
    <2>1. handler[h] \in Call
      BY <1>3, CallFacts DEF ReadHot
    <2>2. handler' \in [Handler -> Call \cup Answered \cup {NoCall}] /\ cache' \in Balance
      BY <1>3, <2>1, RefuseType DEF ReadHot, TypeOK, Call, Balance
    <2>3. QED
      BY <1>3, <2>2 DEF ReadHot, chain, TypeOK
  <1>4. CASE CheckFunds(h)
    <2>1. handler[h] \in Call
      BY <1>4, CallFacts DEF CheckFunds
    <2>2. handler' \in [Handler -> Call \cup Answered \cup {NoCall}]
      BY <1>4, <2>1, RefuseType DEF CheckFunds, TypeOK, Call
    <2>3. QED
      BY <1>4, <2>2 DEF CheckFunds, chain, TypeOK
  <1>5. CASE Abandon(h)
    BY <1>5, RefuseType DEF Abandon, chain, TypeOK
  <1>6. CASE ReadBack(h)
    <2>1. handler[h].request \in Request /\ handler[h].recipient \in Recipient
      BY <1>6, InsertedFacts DEF ReadBack
    <2>2. handler' \in [Handler -> Call \cup Answered \cup {NoCall}]
      BY <1>6, <2>1, RefuseType, AnswerType DEF ReadBack
    <2>3. permit' \in BOOLEAN /\ unheard' \in SUBSET Request
      BY <1>6, <2>1 DEF ReadBack, TypeOK
    <2>4. QED
      BY <1>6, <2>2, <2>3 DEF ReadBack, chain, TypeOK
  <1>7. QED
    BY <1>1, <1>2, <1>3, <1>4, <1>5, <1>6

\* A step that touches neither rows, transfers nor the worker can only disturb the types.
LEMMA ReadingStep ==
  ASSUME IInv, TypeOK', UNCHANGED <<ledger, tx, lost, worker>>
  PROVE  IInv'
  BY DEF IInv, WorkerOnRow, RowsFitTransfers, TransfersAccounted, PaidOnceUnlessLost,
     IncludedIsProven, Recorded, Sent

LEMMA InsertStep ==
  ASSUME IInv, NEW h \in Handler, Insert(h)
  PROVE  IInv'
  <1> DEFINE r == handler[h].request
  <1> USE DEF IInv
  <1>1. handler[h] \in Call /\ r \in Request
    BY CallFacts DEF Insert, Call
  <1>2. handler' \in [Handler -> Call \cup Answered \cup {NoCall}]
    <2>1. Inserted(h) => handler' \in [Handler -> Call \cup Answered \cup {NoCall}]
      BY <1>1 DEF Inserted, TypeOK, Call, Answered
    <2>2. QED
      BY <1>1, <2>1, RefuseType, AnswerType DEF Insert, Call
  <1>3. CASE ledger[r] # NoRow
    <2>1. UNCHANGED <<ledger, tx, lost, worker>> /\ TypeOK'
      BY <1>2, <1>3 DEF Insert, chain, TypeOK
    <2>2. QED
      BY <2>1, ReadingStep
  <1>4. CASE ledger[r] = NoRow
    <2> DEFINE row == Queued(handler[h].recipient, handler[h].ip, handler[h].now)
    <2>1. row \in Row
      BY <1>1, QueuedIsRow DEF Call
    <2>2. ledger' = [ledger EXCEPT ![r] = row] /\ UNCHANGED <<tx, lost, worker>> /\ TypeOK'
      BY <1>1, <1>2, <1>4, <2>1 DEF Insert, Inserted, chain, TypeOK
    <2>3. r \notin Recorded /\ Sent(r) \ lost = {}
      BY <1>1, <1>4, NoRowFacts DEF TransfersAccounted
    <2>4. /\ Recorded' = Recorded \cup {r}
          /\ \A q \in Recorded : ledger'[q] = ledger[q] /\ q \in Request
          /\ ledger'[r] = row /\ row.status = "queued" /\ row.hash = NoHash
          /\ \A q \in Request : Sent(q)' = Sent(q)
      BY <1>1, <2>2, <2>3 DEF Recorded, Sent, TypeOK, Queued
    <2>5. WorkerOnRow'
      BY <2>2, <2>3, <2>4 DEF WorkerOnRow, TypeOK, Worker
    <2>6. RowsFitTransfers'
      BY <2>2, <2>4 DEF RowsFitTransfers
    <2>7. TransfersAccounted'
      BY <2>2, <2>3, <2>4 DEF TransfersAccounted
    <2>8. PaidOnceUnlessLost' /\ IncludedIsProven'
      BY <2>2, <2>4 DEF PaidOnceUnlessLost, IncludedIsProven
    <2>9. QED
      BY <2>2, <2>5, <2>6, <2>7, <2>8
  <1>5. QED
    BY <1>3, <1>4

-----------------------------------------------------------------------------
(* The worker. *)

\* Failing the row at hand is sound with an unknown outcome at any point, and with any other
\* code before there is a transfer that is not lost.
LEMMA FailStep ==
  ASSUME IInv, NEW code \in ErrorCode, NEW after \in Balance, Fail(code, after),
         worker.pc \in {"fund", "before", "sending", "poll", "after"},
         UNCHANGED <<tx, hot, balance, handler, cache, permit, unheard, clock, faults>>,
         lost' = lost \/ lost' = lost \cup Unwritten,
         \/ code = "outcome_unknown"
         \/ /\ worker.pc \in {"fund", "before", "sending"}
            /\ worker.hash = NoHash \/ lost' = lost \cup Unwritten
  PROVE  IInv'
  <1> DEFINE r == worker.request
  <1> USE DEF IInv
  <1>1. r \in Recorded /\ ledger[r] \in Row /\ r \in Request
    BY RowFacts DEF WorkerOnRow
  <1>2. Unwritten \subseteq Sent(r)
    BY DEF Unwritten, WorkerOnRow
  <1>3. /\ worker' = Idle
        /\ ledger' = [ledger EXCEPT ![r].status = "failed", ![r].error = code,
                        ![r].after = IF after = Unread THEN @ ELSE after]
    BY DEF Fail, MarkFailed
  <1>4. /\ ledger'[r].status = "failed" /\ ledger'[r].error = code
        /\ ledger'[r].hash = ledger[r].hash
        /\ ledger'[r] \in Row
        /\ \A q \in Request \ {r} : ledger'[q] = ledger[q]
    BY <1>1, <1>3 DEF TypeOK, Row, Status
  <1>5. TypeOK'
    <2>1. ledger' \in [Request -> Row \cup {NoRow}]
      BY <1>3, <1>4 DEF TypeOK
    <2>2. lost' \in SUBSET Hash
      BY <1>2 DEF TypeOK, Sent
    <2>3. worker' \in Worker
      BY <1>3 DEF Idle, Worker
    <2>4. QED
      BY <2>1, <2>2, <2>3 DEF TypeOK
  <1>6. Recorded' = Recorded /\ \A q \in Request : Sent(q)' = Sent(q)
    BY <1>1, <1>4 DEF Recorded, Sent
  <1>7. WorkerOnRow'
    BY <1>3 DEF WorkerOnRow, Idle
  <1>8. RowsFitTransfers'
    <2>1. \A q \in Recorded : ledger[q].hash # NoHash => ledger[q].hash \notin lost'
      <3>1. CASE worker.hash = NoHash
        BY <3>1 DEF RowsFitTransfers, Unwritten
      <3>2. CASE worker.hash # NoHash
        BY <1>2, <3>2 DEF RowsFitTransfers, WorkerOnRow, Unwritten, Sent
      <3>3. QED
        BY <3>1, <3>2
    <2>2. ledger[r].hash # NoHash => code = "outcome_unknown"
      BY DEF RowsFitTransfers, WorkerOnRow
    <2>3. QED
      BY <1>1, <1>4, <1>6, <2>1, <2>2 DEF RowsFitTransfers, Recorded
  <1>9. TransfersAccounted'
    <2>1. \A x \in lost' : tx'[x] # NoTx
      <3>1. \A x \in Sent(r) : tx[x] # NoTx
        BY <1>1, RequestAssumption DEF Sent, NoTx
      <3>2. lost' \subseteq lost \cup Sent(r)
        BY <1>2
      <3>3. QED
        BY <3>1, <3>2 DEF TransfersAccounted
    <2>2. ASSUME NEW q \in Request, NEW x \in (Sent(q) \ lost)' PROVE
            /\ q \in Recorded
            /\ \/ ledger'[q].hash = x
               \/ /\ ledger'[q].hash = NoHash
                  /\ ledger'[q].status = "failed"
                  /\ ledger'[q].error = "outcome_unknown"
      <3>1. x \in Sent(q) \ lost
        BY <1>6, <2>2
      <3>2. q \in Recorded /\ (ledger[q].hash = x \/ worker.hash = x \/
              (ledger[q].hash = NoHash /\ ledger[q].status = "failed"
                 /\ ledger[q].error = "outcome_unknown"))
        BY <3>1 DEF TransfersAccounted
      <3>3. CASE q # r
        <4>1. worker.hash # x
          BY <3>1, <3>3, HashAssumption DEF WorkerOnRow, Sent
        <4>2. QED
          BY <1>4, <3>2, <3>3, <4>1
      <3>4. CASE q = r
        <4>1. ledger[r].status # "failed"
          BY DEF WorkerOnRow
        <4>2. CASE worker.hash = x
          <5>1. x \notin lost' /\ x # NoHash
            BY <2>2, HashAssumption DEF Sent
          <5>2. code = "outcome_unknown" /\ ledger[r].hash = NoHash
            BY <4>2, <5>1 DEF Unwritten, WorkerOnRow, RowsFitTransfers
          <5>3. QED
            BY <1>4, <3>2, <3>4, <5>2
        <4>3. QED
          BY <1>4, <3>2, <3>4, <4>1, <4>2
      <3>5. QED
        BY <3>3, <3>4
    <2>3. QED
      BY <1>6, <2>1, <2>2 DEF TransfersAccounted
  <1>10. PaidOnceUnlessLost'
    BY <1>6 DEF PaidOnceUnlessLost
  <1>11. IncludedIsProven'
    BY <1>1, <1>4, <1>6 DEF IncludedIsProven, Recorded
  <1>12. QED
    BY <1>5, <1>7, <1>8, <1>9, <1>10, <1>11

\* Steps that move the worker between rows and calls and write nothing.
LEMMA WorkerMoves ==
  ASSUME IInv, UNCHANGED <<ledger, tx, lost, hot, balance, handler, cache, clock, faults>>,
         permit' \in BOOLEAN, unheard' \in SUBSET Request,
         worker' \in Worker, worker'.hash = NoHash,
         worker.hash = NoHash, WorkerOnRow'
  PROVE  IInv'
  <1> USE DEF IInv
  <1>1. TypeOK'
    BY DEF TypeOK
  <1>2. Recorded' = Recorded /\ \A q \in Request : Sent(q)' = Sent(q)
    BY DEF Recorded, Sent
  <1>3. RowsFitTransfers' /\ PaidOnceUnlessLost' /\ IncludedIsProven'
    BY <1>2 DEF RowsFitTransfers, PaidOnceUnlessLost, IncludedIsProven, Recorded
  <1>4. TransfersAccounted'
    BY <1>2, HashAssumption DEF TransfersAccounted, Sent
  <1>5. QED
    BY <1>1, <1>3, <1>4

LEMMA TakeNextStep ==
  ASSUME IInv, TakeNext
  PROVE  IInv'
  <1> USE DEF IInv
  <1>1. worker.hash = NoHash
    BY DEF TakeNext, WorkerOnRow
  <1>2. CASE worker' = [Idle EXCEPT !.pc = "waiting"] /\ UNCHANGED ledger
    <2>1. worker' \in Worker /\ worker'.hash = NoHash /\ worker'.pc = "waiting"
      BY <1>2 DEF Idle, Worker
    <2>2. WorkerOnRow'
      BY <2>1 DEF WorkerOnRow
    <2>3. QED
      BY <1>1, <1>2, <2>1, <2>2, WorkerMoves DEF TakeNext, chain, TypeOK
  <1>3. ASSUME NEW r \in Request, IsNext(r),
               IF ledger[r].status = "submitted" /\ ledger[r].hash = NoHash
               THEN /\ MarkFailed(r, "internal_error", Unread)
                    /\ worker' = Idle
               ELSE /\ worker' = [Idle EXCEPT !.request = r,
                                    !.pc = IF ledger[r].hash = NoHash THEN "fund" ELSE "poll"]
                    /\ UNCHANGED ledger
        PROVE  IInv'
    <2>1. r \in Recorded /\ ledger[r].status \in {"queued", "submitted"}
      BY <1>3, RowFacts DEF IsNext, Pending, IsTerminal, Row, Status
    <2>2. ~(ledger[r].status = "submitted" /\ ledger[r].hash = NoHash)
      BY <2>1 DEF RowsFitTransfers
    <2>3. /\ UNCHANGED ledger
          /\ worker' = [Idle EXCEPT !.request = r,
                          !.pc = IF ledger[r].hash = NoHash THEN "fund" ELSE "poll"]
      BY <1>3, <2>2
    <2>4. /\ worker' \in Worker /\ worker'.hash = NoHash /\ worker'.request = r
          /\ worker'.pc = IF ledger[r].hash = NoHash THEN "fund" ELSE "poll"
      BY <2>3 DEF Idle, Worker
    <2>5. WorkerOnRow'
      BY <2>1, <2>2, <2>3, <2>4 DEF WorkerOnRow, RowsFitTransfers, Recorded
    <2>6. QED
      BY <1>1, <2>3, <2>4, <2>5, WorkerMoves DEF TakeNext, chain, TypeOK
  <1>4. QED
    BY <1>2, <1>3 DEF TakeNext

LEMMA WakeStep ==
  ASSUME IInv, Wake
  PROVE  IInv'
  <1> USE DEF IInv
  <1>1. worker.hash = NoHash
    BY DEF Wake, WorkerOnRow
  <1>2. worker' \in Worker /\ worker'.hash = NoHash /\ worker'.pc = "idle"
    BY DEF Wake, Idle, Worker
  <1>3. WorkerOnRow'
    BY <1>2 DEF WorkerOnRow
  <1>4. QED
    BY <1>1, <1>2, <1>3, WorkerMoves DEF Wake, chain

LEMMA ReadFundsStep ==
  ASSUME IInv, ReadFunds
  PROVE  IInv'
  <1> USE DEF IInv
  <1>1. worker.hash = NoHash
    BY DEF ReadFunds, WorkerOnRow
  <1>2. ASSUME NEW code \in {"internal_error", "hot_balance_low"}, Fail(code, Unread)
        PROVE  IInv'
    <2>1. code \in ErrorCode /\ Unread \in Balance
      BY DEF ErrorCode, Balance
    <2>2. QED
      BY <1>1, <1>2, <2>1, FailStep DEF ReadFunds, chain
  <1>3. CASE worker' = [worker EXCEPT !.pc = "before"] /\ UNCHANGED ledger
    <2>1. /\ worker' \in Worker /\ worker'.hash = NoHash /\ worker'.pc = "before"
          /\ worker'.request = worker.request
      BY <1>1, <1>3 DEF TypeOK, Worker
    <2>2. WorkerOnRow'
      BY <1>3, <2>1 DEF WorkerOnRow, ReadFunds, Recorded
    <2>3. QED
      BY <1>1, <1>3, <2>1, <2>2, WorkerMoves DEF ReadFunds, chain, TypeOK
  <1>4. QED
    BY <1>2, <1>3 DEF ReadFunds

LEMMA ReadBeforeStep ==
  ASSUME IInv, ReadBefore
  PROVE  IInv'
  <1> DEFINE r == worker.request
  <1> USE DEF IInv
  <1>1. worker.hash = NoHash /\ r \in Recorded /\ ledger[r].status = "queued"
    BY DEF ReadBefore, WorkerOnRow
  <1>2. ledger[r] \in Row /\ r \in Request /\ balance[ledger[r].recipient] \in Nat
    BY <1>1, RowFacts DEF TypeOK
  <1>3. CASE Fail("internal_error", Unread)
    <2>1. "internal_error" \in ErrorCode /\ Unread \in Balance
      BY DEF ErrorCode, Balance
    <2>2. QED
      BY <1>1, <1>3, <2>1, FailStep DEF ReadBefore, chain
  <1>4. CASE /\ ledger' = [ledger EXCEPT ![r].before = balance[ledger[r].recipient]]
             /\ worker' = [worker EXCEPT !.pc = "send", !.attempt = 1]
    <2>1. /\ ledger'[r] \in Row /\ ledger'[r].status = "queued"
          /\ ledger'[r].hash = ledger[r].hash
          /\ \A q \in Request \ {r} : ledger'[q] = ledger[q]
      BY <1>1, <1>2, <1>4 DEF TypeOK, Row, Balance
    <2>2. /\ worker' \in Worker /\ worker'.hash = NoHash /\ worker'.pc = "send"
          /\ worker'.request = r
      BY <1>1, <1>4 DEF TypeOK, Worker
    <2>3. ledger' \in [Request -> Row \cup {NoRow}]
      BY <1>4, <2>1 DEF TypeOK
    <2>4. UNCHANGED <<tx, lost, hot, balance, handler, cache, permit, unheard, clock, faults>>
      BY DEF ReadBefore, chain
    <2>5. TypeOK'
      BY <2>2, <2>3, <2>4 DEF TypeOK
    <2>6. Recorded' = Recorded /\ \A q \in Request : Sent(q)' = Sent(q)
      BY <1>1, <1>2, <2>1, <2>4 DEF Recorded, Sent
    <2>7. WorkerOnRow'
      BY <1>1, <2>1, <2>2, <2>6 DEF WorkerOnRow
    <2>8. RowsFitTransfers'
      BY <1>1, <2>1, <2>4, <2>6 DEF RowsFitTransfers, Recorded
    <2>9. TransfersAccounted'
      BY <1>1, <2>1, <2>4, <2>6, HashAssumption DEF TransfersAccounted, Sent
    <2>10. PaidOnceUnlessLost' /\ IncludedIsProven'
      BY <1>1, <2>1, <2>4, <2>6 DEF PaidOnceUnlessLost, IncludedIsProven, Recorded
    <2>11. QED
      BY <2>5, <2>7, <2>8, <2>9, <2>10
  <1>5. QED
    BY <1>3, <1>4 DEF ReadBefore

LEMMA SendStep ==
  ASSUME IInv, Send
  PROVE  IInv'
  <1> USE DEF IInv
  <1>1. PICK r \in Recorded : worker.request = r /\ worker.hash = NoHash
                                /\ ledger[r].status = "queued"
    BY DEF Send, WorkerOnRow
  <1>2. r \in Request /\ r # NoRequest
    BY RequestAssumption DEF Recorded
  <1>3. CASE worker' = [worker EXCEPT !.pc = "sending", !.hash = NoHash] /\ UNCHANGED tx
    <2>1. /\ worker' \in Worker /\ worker'.hash = NoHash /\ worker'.pc = "sending"
          /\ worker'.request = r
      BY <1>1, <1>3 DEF TypeOK, Worker
    <2>2. WorkerOnRow'
      BY <1>1, <2>1 DEF WorkerOnRow, Send, Recorded
    <2>3. QED
      BY <1>1, <1>3, <2>1, <2>2, WorkerMoves DEF Send, TypeOK
  <1>4. ASSUME NEW x \in Hash, tx[x] = NoTx,
               tx' = [tx EXCEPT ![x] = [state |-> "pending", request |-> r]],
               worker' = [worker EXCEPT !.pc = "sending", !.hash = x]
        PROVE  IInv'
    <2>1. UNCHANGED <<ledger, lost, hot, balance, handler, cache, permit, unheard, clock, faults>>
      BY DEF Send
    <2>2. /\ worker' \in Worker /\ worker'.hash = x /\ worker'.pc = "sending"
          /\ worker'.request = r
      BY <1>1, <1>4 DEF TypeOK, Worker
    <2>3. tx' \in [Hash -> Tx \cup {NoTx}]
      BY <1>2, <1>4 DEF TypeOK, Tx
    <2>4. TypeOK'
      BY <2>1, <2>2, <2>3 DEF TypeOK
    <2>5. x \notin lost /\ \A q \in Request : x \notin Sent(q)
      BY <1>4, RequestAssumption DEF TransfersAccounted, Sent, NoTx
    <2>6. /\ Recorded' = Recorded
          /\ Sent(r)' = Sent(r) \cup {x}
          /\ \A q \in Request \ {r} : Sent(q)' = Sent(q)
          /\ \A y \in Hash \ {x} : tx'[y] = tx[y]
          /\ tx'[x] # NoTx
      BY <1>2, <1>4, <2>1, <2>5 DEF Recorded, Sent, TypeOK, NoTx
    <2>7. Sent(r) \ lost = {}
      BY <1>1, <1>2, HashAssumption DEF TransfersAccounted, RowsFitTransfers, Sent
    <2>8. WorkerOnRow'
      BY <1>1, <1>2, <2>1, <2>2, <2>5, <2>6 DEF WorkerOnRow
    <2>9. RowsFitTransfers'
      <3>1. \A q \in Recorded : (Sent(q) \ lost) \subseteq (Sent(q) \ lost)'
        BY <2>1, <2>6 DEF Recorded
      <3>2. QED
        BY <2>1, <2>6, <3>1 DEF RowsFitTransfers
    <2>10. TransfersAccounted'
      <3>1. \A y \in lost' : tx'[y] # NoTx
        BY <2>1, <2>5, <2>6 DEF TransfersAccounted, TypeOK
      <3>2. ASSUME NEW q \in Request, NEW y \in (Sent(q) \ lost)'
            PROVE  /\ q \in Recorded'
                   /\ \/ ledger'[q].hash = y
                      \/ worker'.hash = y
                      \/ /\ ledger'[q].hash = NoHash
                         /\ ledger'[q].status = "failed"
                         /\ ledger'[q].error = "outcome_unknown"
        <4>1. CASE q = r
          BY <1>1, <2>1, <2>2, <2>6, <2>7, <3>2, <4>1
        <4>2. CASE q # r
          BY <1>1, <2>1, <2>6, <3>2, <4>2, HashAssumption DEF TransfersAccounted, Sent
        <4>3. QED
          BY <4>1, <4>2
      <3>3. QED
        BY <3>1, <3>2 DEF TransfersAccounted
    <2>11. PaidOnceUnlessLost'
      <3>1. (Sent(r) \ lost)' \subseteq {x}
        BY <2>1, <2>6, <2>7
      <3>2. \A q \in Request \ {r} : (Sent(q) \ lost)' = Sent(q) \ lost
        BY <2>1, <2>6
      <3>3. QED
        BY <3>1, <3>2 DEF PaidOnceUnlessLost
    <2>12. IncludedIsProven'
      <3>1. \A q \in Recorded : ledger[q].status = "included" => ledger[q].hash # x
        BY <2>5 DEF IncludedIsProven, Recorded
      <3>2. QED
        BY <1>2, <2>1, <2>6, <3>1 DEF IncludedIsProven, Recorded, Sent
    <2>13. QED
      BY <2>4, <2>8, <2>9, <2>10, <2>11, <2>12
  <1>5. QED
    BY <1>1, <1>3, <1>4 DEF Send

LEMMA SendOkStep ==
  ASSUME IInv, SendOk
  PROVE  IInv'
  <1> USE DEF IInv
  <1>1. PICK r \in Recorded : /\ worker.request = r
                              /\ ledger[r].status = "queued" /\ ledger[r].hash = NoHash
    BY DEF SendOk, WorkerOnRow, RowsFitTransfers
  <1>2. PICK x \in Hash : worker.hash = x /\ x \in Sent(r) \ lost
    BY <1>1 DEF SendOk, WorkerOnRow, Sent
  <1>3. r \in Request /\ ledger[r] \in Row
    BY RowFacts
  <1>4. /\ ledger' = [ledger EXCEPT ![r].status = "submitted", ![r].hash = x]
        /\ worker' = [worker EXCEPT !.pc = "poll", !.hash = NoHash, !.attempt = 0]
        /\ UNCHANGED <<tx, lost, hot, balance, handler, cache, permit, unheard, clock, faults>>
    BY <1>1, <1>2 DEF SendOk, chain
  <1>5. /\ ledger'[r] \in Row /\ ledger'[r].status = "submitted" /\ ledger'[r].hash = x
        /\ \A q \in Request \ {r} : ledger'[q] = ledger[q]
    BY <1>3, <1>4 DEF TypeOK, Row, Status
  <1>6. /\ worker' \in Worker /\ worker'.hash = NoHash /\ worker'.pc = "poll"
        /\ worker'.request = r
    BY <1>1, <1>4 DEF TypeOK, Worker
  <1>7. ledger' \in [Request -> Row \cup {NoRow}]
    BY <1>4, <1>5 DEF TypeOK
  <1>8. TypeOK'
    BY <1>4, <1>6, <1>7 DEF TypeOK
  <1>9. Recorded' = Recorded /\ \A q \in Request : Sent(q)' = Sent(q)
    BY <1>3, <1>4, <1>5 DEF Recorded, Sent
  <1>10. WorkerOnRow'
    BY <1>5, <1>6, <1>9 DEF WorkerOnRow
  <1>11. RowsFitTransfers'
    <2>1. lost' = lost /\ x # NoHash
      BY <1>2, <1>4, HashAssumption
    <2>2. ASSUME NEW q \in Recorded \ {r}
          PROVE  ledger'[q] = ledger[q] /\ Sent(q)' = Sent(q)
      BY <1>5, <1>9, <2>2 DEF Recorded
    <2>3. x \in (Sent(r) \ lost)'
      BY <1>2, <1>3, <1>9, <2>1
    <2>4. QED
      BY <1>5, <1>9, <2>1, <2>2, <2>3 DEF RowsFitTransfers
  <1>12. TransfersAccounted'
    <2>1. \A q \in Request \ {r} : x \notin Sent(q)
      BY <1>2 DEF Sent
    <2>2. Sent(r) \ lost = {x}
      BY <1>2, <1>3 DEF PaidOnceUnlessLost
    <2>3. ASSUME NEW q \in Request, NEW y \in (Sent(q) \ lost)'
          PROVE  /\ q \in Recorded'
                 /\ \/ ledger'[q].hash = y
                    \/ worker'.hash = y
                    \/ /\ ledger'[q].hash = NoHash
                       /\ ledger'[q].status = "failed"
                       /\ ledger'[q].error = "outcome_unknown"
      <3>1. y \in Sent(q) \ lost
        BY <1>4, <1>9, <2>3
      <3>2. CASE q = r
        BY <1>5, <1>9, <2>2, <3>1, <3>2
      <3>3. CASE q # r
        BY <1>2, <1>5, <1>9, <2>1, <3>1, <3>3 DEF TransfersAccounted
      <3>4. QED
        BY <3>2, <3>3
    <2>4. QED
      BY <1>4, <2>3 DEF TransfersAccounted
  <1>13. PaidOnceUnlessLost'
    BY <1>4, <1>9 DEF PaidOnceUnlessLost
  <1>14. IncludedIsProven'
    BY <1>3, <1>4, <1>5, <1>9 DEF IncludedIsProven, Recorded
  <1>15. QED
    BY <1>8, <1>10, <1>11, <1>12, <1>13, <1>14

\* Forgetting what the worker has in hand is sound once it counts as lost.
LEMMA ForgetStep ==
  ASSUME IInv, UNCHANGED <<ledger, tx>>, TypeOK',
         lost' = lost \cup Unwritten, worker'.hash = NoHash, WorkerOnRow'
  PROVE  IInv'
  <1> USE DEF IInv
  <1>1. Recorded' = Recorded /\ \A q \in Request : Sent(q)' = Sent(q)
    BY DEF Recorded, Sent
  <1>2. CASE worker.hash = NoHash
    <2>1. lost' = lost
      BY <1>2 DEF Unwritten
    <2>2. RowsFitTransfers' /\ PaidOnceUnlessLost' /\ IncludedIsProven'
      BY <1>1, <2>1 DEF RowsFitTransfers, PaidOnceUnlessLost, IncludedIsProven, Recorded
    <2>3. TransfersAccounted'
      BY <1>1, <1>2, <2>1, HashAssumption DEF TransfersAccounted, Sent
    <2>4. QED
      BY <2>2, <2>3
  <1>3. CASE worker.hash # NoHash
    <2>1. PICK r \in Recorded : /\ worker.request = r
                                /\ ledger[r].hash = NoHash
                                /\ worker.hash \in Sent(r) \ lost
      BY <1>3 DEF WorkerOnRow, RowsFitTransfers
    <2>2. lost' = lost \cup {worker.hash} /\ r \in Request
      BY <1>3, <2>1 DEF Unwritten, Recorded
    <2>3. \A q \in Request \ {r} : worker.hash \notin Sent(q)
      BY <2>1 DEF Sent
    <2>4. RowsFitTransfers'
      BY <1>1, <2>1, <2>2, <2>3 DEF RowsFitTransfers, Recorded
    <2>5. tx[worker.hash] # NoTx
      BY <2>1, <2>2, RequestAssumption DEF Sent, NoTx
    <2>6. TransfersAccounted'
      BY <1>1, <2>2, <2>5 DEF TransfersAccounted
    <2>7. PaidOnceUnlessLost' /\ IncludedIsProven'
      BY <1>1, <2>2 DEF PaidOnceUnlessLost, IncludedIsProven, Recorded
    <2>8. QED
      BY <2>4, <2>6, <2>7
  <1>4. QED
    BY <1>2, <1>3

LEMMA SendRpcStep ==
  ASSUME IInv, SendRpc
  PROVE  IInv'
  <1> USE DEF IInv
  <1>1. CASE Fail("internal_error", Unread)
    <2>1. "internal_error" \in ErrorCode /\ Unread \in Balance
      BY DEF ErrorCode, Balance
    <2>2. QED
      BY <1>1, <2>1, FailStep DEF SendRpc, chain
  <1>2. CASE /\ worker' = [worker EXCEPT !.pc = "send", !.hash = NoHash, !.attempt = @ + 1]
             /\ UNCHANGED ledger
    <2>1. /\ worker' \in Worker /\ worker'.hash = NoHash /\ worker'.pc = "send"
          /\ worker'.request = worker.request
      <3>1. worker.attempt + 1 \in Nat /\ worker \in Worker
        BY DEF TypeOK, Worker
      <3>2. worker' = [worker EXCEPT !.pc = "send", !.hash = NoHash,
                                     !.attempt = worker.attempt + 1]
        BY <1>2
      <3>3. QED
        BY <3>1, <3>2 DEF Worker
    <2>2. WorkerOnRow'
      BY <1>2, <2>1 DEF WorkerOnRow, SendRpc, Recorded
    <2>3. lost' = lost \cup Unwritten /\ lost' \in SUBSET Hash
      BY DEF SendRpc, TypeOK, Worker, Unwritten
    <2>4. TypeOK'
      BY <1>2, <2>1, <2>3 DEF TypeOK, SendRpc, chain
    <2>5. QED
      BY <1>2, <2>1, <2>2, <2>3, <2>4, ForgetStep DEF SendRpc, chain
  <1>3. QED
    BY <1>1, <1>2 DEF SendRpc

LEMMA SendRefusedStep ==
  ASSUME IInv, SendRefused
  PROVE  IInv'
  <1>1. PICK code \in {"hot_balance_low", "submission_rejected"} : Fail(code, Unread)
    BY DEF SendRefused
  <1>2. code \in ErrorCode /\ Unread \in Balance
    BY DEF ErrorCode, Balance
  <1>3. QED
    BY <1>1, <1>2, FailStep DEF SendRefused, chain

LEMMA UnknownStep ==
  ASSUME IInv, SendUnknown \/ PollDeadline
  PROVE  IInv'
  <1>1. "outcome_unknown" \in ErrorCode /\ Unread \in Balance
    BY DEF ErrorCode, Balance
  <1>2. QED
    BY <1>1, FailStep DEF SendUnknown, PollDeadline, chain

LEMMA PollIncludedStep ==
  ASSUME IInv, PollIncluded
  PROVE  IInv'
  <1> USE DEF IInv
  <1>1. worker.hash = NoHash
    BY DEF PollIncluded, WorkerOnRow
  <1>2. /\ worker' \in Worker /\ worker'.hash = NoHash /\ worker'.pc = "after"
        /\ worker'.request = worker.request
    BY <1>1 DEF PollIncluded, TypeOK, Worker
  <1>3. WorkerOnRow'
    BY <1>2 DEF WorkerOnRow, PollIncluded, chain, Recorded
  <1>4. QED
    BY <1>1, <1>2, <1>3, WorkerMoves DEF PollIncluded, chain, TypeOK

LEMMA ReadAfterStep ==
  ASSUME IInv, ReadAfter
  PROVE  IInv'
  <1> USE DEF IInv
  <1>1. PICK r \in Recorded : /\ worker.request = r
                              /\ ledger[r].status = "submitted" /\ ledger[r].hash # NoHash
                              /\ tx[ledger[r].hash].state = "included"
    BY DEF ReadAfter, WorkerOnRow, RowsFitTransfers
  <1>2. r \in Request /\ ledger[r] \in Row /\ ledger[r].recipient \in Recipient
    BY RowFacts
  <1> DEFINE after == balance[ledger[r].recipient]
  <1>3. after \in Nat /\ worker.hash = NoHash
    BY <1>2 DEF ReadAfter, TypeOK, WorkerOnRow
  <1>4. ASSUME NEW read \in {Unread, after}, Fail("outcome_unknown", read)
        PROVE  IInv'
    <2>1. "outcome_unknown" \in ErrorCode /\ read \in Balance
      BY <1>3, <1>4 DEF ErrorCode, Balance
    <2>2. QED
      BY <1>4, <2>1, FailStep DEF ReadAfter, chain
  <1>5. CASE /\ ledger[r].before # Unread /\ after = ledger[r].before + Prize
             /\ ledger' = [ledger EXCEPT ![r].status = "included", ![r].after = after,
                                         ![r].error = "none"]
             /\ worker' = Idle
    <2>1. /\ ledger'[r] \in Row /\ ledger'[r].status = "included"
          /\ ledger'[r].hash = ledger[r].hash
          /\ ledger'[r].after = ledger'[r].before + Prize
          /\ \A q \in Request \ {r} : ledger'[q] = ledger[q]
      BY <1>2, <1>3, <1>5 DEF TypeOK, Row, Status, Balance
    <2>2. /\ UNCHANGED <<tx, lost, hot, balance, handler, cache, permit, unheard, clock, faults>>
          /\ worker' \in Worker /\ worker'.hash = NoHash /\ worker'.pc = "idle"
      BY <1>5 DEF ReadAfter, chain, Idle, Worker
    <2>3. ledger' \in [Request -> Row \cup {NoRow}]
      BY <1>5, <2>1 DEF TypeOK
    <2>4. TypeOK'
      BY <2>2, <2>3 DEF TypeOK
    <2>5. Recorded' = Recorded /\ \A q \in Request : Sent(q)' = Sent(q)
      BY <1>2, <2>1, <2>2 DEF Recorded, Sent
    <2>6. WorkerOnRow'
      BY <2>2 DEF WorkerOnRow
    <2>7. RowsFitTransfers'
      BY <1>1, <2>1, <2>2, <2>5 DEF RowsFitTransfers, Recorded
    <2>8. TransfersAccounted'
      BY <1>1, <1>3, <2>1, <2>2, <2>5, HashAssumption DEF TransfersAccounted, Sent
    <2>9. PaidOnceUnlessLost'
      BY <2>2, <2>5 DEF PaidOnceUnlessLost
    <2>10. IncludedIsProven'
      <3>1. ledger[r].hash \in Sent(r)
        BY <1>1 DEF RowsFitTransfers
      <3>2. QED
        BY <1>1, <2>1, <2>2, <2>5, <3>1 DEF IncludedIsProven, Recorded
    <2>11. QED
      BY <2>4, <2>6, <2>7, <2>8, <2>9, <2>10
  <1>6. QED
    BY <1>1, <1>4, <1>5 DEF ReadAfter

LEMMA PayoutStep ==
  ASSUME IInv, Payout
  PROVE  IInv'
  BY TakeNextStep, WakeStep, ReadFundsStep, ReadBeforeStep, SendStep, SendOkStep, SendRpcStep,
     SendRefusedStep, UnknownStep, PollIncludedStep, ReadAfterStep DEF Payout

-----------------------------------------------------------------------------
(* Faults and the world. *)

LEMMA FaultStep ==
  ASSUME IInv, LedgerError \/ Restart
  PROVE  IInv'
  <1> USE DEF IInv
  <1>1. /\ UNCHANGED <<ledger, tx>> /\ lost' = lost \cup Unwritten
        /\ worker' \in Worker /\ worker'.hash = NoHash /\ worker'.pc = "idle"
    BY DEF LedgerError, Restart, chain, Idle, Worker
  <1>2. lost' \in SUBSET Hash
    BY <1>1 DEF TypeOK, Worker, Unwritten
  <1>3. TypeOK'
    <2>1. handler' \in [Handler -> Call \cup Answered \cup {NoCall}]
      BY DEF LedgerError, Restart, TypeOK
    <2>2. cache' \in Balance /\ permit' \in BOOLEAN /\ unheard' \in SUBSET Request
      BY DEF LedgerError, Restart, TypeOK, Balance
    <2>3. faults' \in Nat
      BY DEF LedgerError, Restart, TypeOK
    <2>4. UNCHANGED <<hot, balance, clock>>
      BY DEF LedgerError, Restart, chain
    <2>5. QED
      BY <1>1, <1>2, <2>1, <2>2, <2>3, <2>4 DEF TypeOK
  <1>4. WorkerOnRow'
    BY <1>1 DEF WorkerOnRow
  <1>5. QED
    BY <1>1, <1>3, <1>4, ForgetStep

\* A transfer that is still pending may end either way.
LEMMA TransferEnds ==
  ASSUME IInv, NEW x \in Hash, NEW end \in {"included", "dropped"}, tx[x].state = "pending",
         tx' = [tx EXCEPT ![x].state = end], UNCHANGED <<ledger, lost, worker>>, TypeOK'
  PROVE  IInv'
  <1> USE DEF IInv
  <1>1. /\ tx[x] \in Tx
        /\ tx'[x].state = end /\ tx'[x].request = tx[x].request
        /\ \A y \in Hash \ {x} : tx'[y] = tx[y]
    BY DEF TypeOK, Tx, NoTx
  <1>2. Recorded' = Recorded /\ \A q \in Request : Sent(q)' = Sent(q)
    BY <1>1 DEF Recorded, Sent
  <1>3. tx'[x] # NoTx
    BY <1>1, RequestAssumption DEF Tx, NoTx
  <1>4. \A y \in Hash : tx[y].state = "included" => tx'[y].state = "included"
    BY <1>1
  <1>5. WorkerOnRow'
    BY <1>2, <1>4 DEF WorkerOnRow, RowsFitTransfers, Sent, Recorded
  <1>6. RowsFitTransfers'
    BY <1>2 DEF RowsFitTransfers, Recorded
  <1>7. TransfersAccounted'
    BY <1>1, <1>2, <1>3 DEF TransfersAccounted, TypeOK
  <1>8. PaidOnceUnlessLost'
    BY <1>2 DEF PaidOnceUnlessLost
  <1>9. IncludedIsProven'
    BY <1>2, <1>4 DEF IncludedIsProven, Recorded, Sent
  <1>10. QED
    BY <1>5, <1>6, <1>7, <1>8, <1>9

LEMMA IncludeStep ==
  ASSUME IInv, NEW x \in Hash, Include(x)
  PROVE  IInv'
  <1> USE DEF IInv
  <1>1. tx[x] \in Tx /\ tx[x].request \in Request
    BY DEF TypeOK, Tx, NoTx, Include
  <1>2. tx' \in [Hash -> Tx \cup {NoTx}]
    BY <1>1 DEF TypeOK, Tx, Include
  <1>3. hot' \in Nat
    BY PrizeAssumption, ReservesAssumption DEF TypeOK, Include
  <1>4. balance' \in [Recipient -> Nat]
    <2>1. PICK a : balance' = [balance EXCEPT ![a] = balance[a] + Prize]
      BY DEF Include
    <2>2. CASE a \in Recipient
      BY <2>1, <2>2, PrizeAssumption DEF TypeOK
    <2>3. CASE a \notin Recipient
      BY <2>1, <2>3 DEF TypeOK
    <2>4. QED
      BY <2>2, <2>3
  <1>5. TypeOK'
    BY <1>2, <1>3, <1>4 DEF TypeOK, Include
  <1>6. QED
    BY <1>5, TransferEnds DEF Include

LEMMA DropStep ==
  ASSUME IInv, NEW x \in Hash, Drop(x)
  PROVE  IInv'
  <1> USE DEF IInv
  <1>1. tx[x] \in Tx
    BY DEF TypeOK, Tx, NoTx, Drop
  <1>2. tx' \in [Hash -> Tx \cup {NoTx}]
    BY <1>1 DEF TypeOK, Tx, Drop
  <1>3. TypeOK'
    BY <1>2 DEF TypeOK, Drop
  <1>4. QED
    BY <1>3, TransferEnds DEF Drop

LEMMA OutsideStep ==
  ASSUME IInv, NEW a \in Recipient, Outside(a)
  PROVE  IInv'
  <1> USE DEF IInv
  <1>1. balance' \in [Recipient -> Nat]
    BY DEF TypeOK, Outside
  <1>2. TypeOK' /\ UNCHANGED <<ledger, tx, lost, worker>>
    BY <1>1 DEF TypeOK, Outside
  <1>3. QED
    BY <1>2, ReadingStep

LEMMA CacheStep ==
  ASSUME IInv, ServeStatus \/ Tick
  PROVE  IInv'
  <1>1. TypeOK' /\ UNCHANGED <<ledger, tx, lost, worker>>
    BY DEF IInv, TypeOK, ServeStatus, Tick, chain, Balance
  <1>2. QED
    BY <1>1, ReadingStep

LEMMA HandleStep ==
  ASSUME IInv, NEW h \in Handler, Handle(h)
  PROVE  IInv'
  BY ReadingCalls, ReadingStep, InsertStep DEF Handle

LEMMA NextInvariant ==
  ASSUME IInv, [Next]_vars
  PROVE  IInv'
  <1>1. CASE Payout
    BY <1>1, PayoutStep
  <1>2. CASE World
    BY <1>2, FaultStep, IncludeStep, DropStep, OutsideStep, CacheStep DEF World
  <1>3. CASE \E h \in Handler : Handle(h)
    BY <1>3, HandleStep
  <1>4. CASE UNCHANGED vars
    <2>1. TypeOK' /\ UNCHANGED <<ledger, tx, lost, worker>>
      BY <1>4 DEF IInv, TypeOK, vars
    <2>2. QED
      BY <2>1, ReadingStep
  <1>5. QED
    BY <1>1, <1>2, <1>3, <1>4 DEF Next

-----------------------------------------------------------------------------
(* The theorems. *)

\* The inductive invariant holds of the service whatever its handlers, its worker, the
\* sequencer and the faults do.
THEOREM Invariance == Spec => []IInv
  BY InitInvariant, NextInvariant, PTL DEF Spec

\* The state of the service keeps its types: rows, transfers, handlers and worker.
THEOREM TypeCorrectness == Spec => []TypeOK
  <1>1. IInv => TypeOK
    BY DEF IInv
  <1>2. QED
    BY <1>1, Invariance, PTL

\* Of two transfers for one request id, one was lost between the send and its record: no
\* retry, restart, late poll or racing handler pays a claim again.
THEOREM PaymentIsSingle == Spec => []PaidOnceUnlessLost
  <1>1. IInv => PaidOnceUnlessLost
    BY DEF IInv
  <1>2. QED
    BY <1>1, Invariance, PTL

\* A claim reported `included` has its own transfer in a block and the prize on the account.
THEOREM InclusionIsProven == Spec => []IncludedIsProven
  <1>1. IInv => IncludedIsProven
    BY DEF IInv
  <1>2. QED
    BY <1>1, Invariance, PTL

\* A claim failed with a code that tells the client that nothing was sent has no transfer
\* but lost ones.
THEOREM FailureHonesty == Spec => []FailureIsHonest
  <1>1. IInv => FailureIsHonest
    <2> SUFFICES ASSUME IInv, NEW r \in Recorded, ledger[r].status = "failed",
                        ledger[r].error # "outcome_unknown", NEW x \in Sent(r) \ lost
                 PROVE  FALSE
      BY DEF FailureIsHonest
    <2> USE DEF IInv
    <2>1. ledger[r].hash = NoHash
      BY DEF RowsFitTransfers
    <2>2. x # NoHash /\ r \in Request
      BY HashAssumption DEF Sent, Recorded
    <2>3. worker.hash = x
      BY <2>1, <2>2 DEF TransfersAccounted
    <2>4. worker.request = r
      BY <2>2, <2>3 DEF WorkerOnRow, Sent
    <2>5. QED
      BY <2>2, <2>3, <2>4 DEF WorkerOnRow
  <1>2. QED
    BY <1>1, Invariance, PTL

-----------------------------------------------------------------------------
(* What a step does. *)

SameRow(q) ==
  /\ Sent(q)' = Sent(q)
  /\ \/ ledger'[q] = ledger[q]
     \/ q \in Recorded /\ \E b \in Balance : ledger'[q] = [ledger[q] EXCEPT !.before = b]

Others(r) == \A q \in Request \ {r} : ledger'[q] = ledger[q] /\ Sent(q)' = Sent(q)

Accepts(r) ==
  /\ ledger[r] = NoRow /\ Sent(r)' = Sent(r)
  /\ \E a \in Recipient, i \in Ip, n \in Nat : ledger'[r] = Queued(a, i, n)

Pays(r) ==
  /\ r \in Recorded /\ ledger[r].status = "queued" /\ ledger[r].hash = NoHash
  /\ ledger'[r] = ledger[r]
  /\ \E x \in Hash : (\A q \in Request : x \notin Sent(q)) /\ Sent(r)' = Sent(r) \cup {x}

Acknowledges(r) ==
  /\ r \in Recorded /\ ledger[r].status = "queued" /\ ledger[r].hash = NoHash
  /\ Sent(r)' = Sent(r)
  /\ \E x \in Sent(r) : ledger'[r] = [ledger[r] EXCEPT !.status = "submitted", !.hash = x]

Confirms(r) ==
  /\ r \in Recorded /\ ledger[r].status = "submitted" /\ Sent(r)' = Sent(r)
  /\ \E b \in Balance : ledger'[r] = [ledger[r] EXCEPT !.status = "included", !.after = b,
                                                       !.error = "none"]

GivesUp(r) ==
  /\ r \in Recorded /\ ledger[r].status \in {"queued", "submitted"} /\ Sent(r)' = Sent(r)
  /\ \E code \in ErrorCode, b \in Balance :
       /\ ledger[r].hash # NoHash => code = "outcome_unknown"
       /\ ledger'[r] = [ledger[r] EXCEPT !.status = "failed", !.error = code, !.after = b]

\* Any step but that of a call that records its claim.
Settles ==
  \/ \A q \in Request : SameRow(q)
  \/ \E r \in Request : Others(r) /\ (Pays(r) \/ Acknowledges(r) \/ Confirms(r) \/ GivesUp(r))

Effect == Settles \/ \E r \in Request : Others(r) /\ Accepts(r)

LEMMA StillEffect ==
  ASSUME UNCHANGED <<ledger, tx>>
  PROVE  Settles
  BY DEF Settles, SameRow, Sent

LEMMA RowWritten ==
  ASSUME TypeOK, NEW r \in Request, NEW row, ledger' = [ledger EXCEPT ![r] = row], UNCHANGED tx
  PROVE  ledger'[r] = row /\ Others(r) /\ Sent(r)' = Sent(r)
  <1>1. \A q : Sent(q)' = Sent(q)
    BY DEF Sent
  <1>2. ledger'[r] = row /\ \A q \in Request \ {r} : ledger'[q] = ledger[q]
    BY DEF TypeOK
  <1>3. QED
    BY <1>1, <1>2 DEF Others

LEMMA FailEffect ==
  ASSUME IInv, NEW code \in ErrorCode, NEW after \in Balance, Fail(code, after), UNCHANGED tx,
         worker.pc \in {"fund", "before", "sending", "poll", "after"},
         worker.pc \in {"poll", "after"} => code = "outcome_unknown"
  PROVE  Settles
  <1> USE DEF IInv
  <1>1. PICK r \in Request : r = worker.request /\ r \in Recorded /\ ledger[r] \in Row
    BY RowFacts DEF WorkerOnRow
  <1> DEFINE b == IF after = Unread THEN ledger[r].after ELSE after
  <1>2. b \in Balance
    BY <1>1 DEF Row
  <1>3. PICK row : /\ row = [ledger[r] EXCEPT !.status = "failed", !.error = code, !.after = b]
                   /\ ledger' = [ledger EXCEPT ![r] = row]
    BY <1>1 DEF Fail, MarkFailed, TypeOK
  <1> HIDE DEF b
  <1>4. ledger'[r] = row /\ Others(r) /\ Sent(r)' = Sent(r)
    BY <1>3, RowWritten
  <1>6. ledger[r].status \in {"queued", "submitted"}
    BY <1>1 DEF WorkerOnRow
  <1>7. ledger[r].hash # NoHash => code = "outcome_unknown"
    BY <1>1 DEF WorkerOnRow, RowsFitTransfers
  <1>8. GivesUp(r)
    BY <1>1, <1>2, <1>3, <1>4, <1>6, <1>7 DEF GivesUp
  <1>9. QED
    BY <1>4, <1>8 DEF Settles

LEMMA InsertEffect ==
  ASSUME IInv, NEW h \in Handler, Insert(h)
  PROVE  Effect
  <1>1. PICK r \in Request : r = handler[h].request /\ handler[h] \in Call
    BY CallFacts DEF Insert, Call, IInv
  <1>2. CASE ledger[r] # NoRow
    BY <1>1, <1>2, StillEffect DEF Insert, chain, Effect
  <1>3. CASE ledger[r] = NoRow
    <2>1. PICK row : /\ row = Queued(handler[h].recipient, handler[h].ip, handler[h].now)
                     /\ ledger' = [ledger EXCEPT ![r] = row]
      BY <1>1, <1>3 DEF Insert, Inserted
    <2>2. ledger'[r] = row /\ Others(r) /\ Sent(r)' = Sent(r)
      BY <2>1, RowWritten DEF IInv, Insert, chain
    <2>3. Accepts(r)
      BY <1>1, <1>3, <2>1, <2>2 DEF Accepts, Call
    <2>4. QED
      BY <2>2, <2>3 DEF Effect
  <1>4. QED
    BY <1>2, <1>3

LEMMA ReadBeforeEffect ==
  ASSUME IInv, ReadBefore
  PROVE  Settles
  <1> USE DEF IInv
  <1>1. CASE Fail("internal_error", Unread)
    BY <1>1, FailEffect DEF ReadBefore, chain, ErrorCode, Balance
  <1>2. CASE ledger' = [ledger EXCEPT ![worker.request].before =
                          balance[ledger[worker.request].recipient]]
    <2>1. PICK r \in Request : r = worker.request /\ r \in Recorded
                               /\ ledger[r].recipient \in Recipient
      BY RowFacts DEF WorkerOnRow, ReadBefore
    <2>2. balance[ledger[r].recipient] \in Balance
      BY <2>1 DEF TypeOK, Balance
    <2>3. /\ ledger'[r] = [ledger[r] EXCEPT !.before = balance[ledger[r].recipient]]
          /\ \A q \in Request \ {r} : ledger'[q] = ledger[q]
      BY <1>2, <2>1 DEF TypeOK
    <2>4. \A q \in Request : Sent(q)' = Sent(q)
      BY DEF ReadBefore, chain, Sent
    <2>5. QED
      BY <2>1, <2>2, <2>3, <2>4 DEF Settles, SameRow
  <1>3. QED
    BY <1>1, <1>2 DEF ReadBefore

LEMMA SendEffect ==
  ASSUME IInv, Send
  PROVE  Settles
  <1> USE DEF IInv
  <1>1. CASE UNCHANGED tx
    BY <1>1, StillEffect DEF Send
  <1>2. ASSUME NEW x \in Hash, tx[x] = NoTx,
               tx' = [tx EXCEPT ![x] = [state |-> "pending", request |-> worker.request]]
        PROVE  Settles
    <2>1. PICK r \in Request : r = worker.request /\ r \in Recorded /\ ledger[r].status = "queued"
      BY RowFacts DEF WorkerOnRow, Send
    <2>2. ledger[r].hash = NoHash
      BY <2>1 DEF RowsFitTransfers
    <2>3. \A q \in Request : x \notin Sent(q)
      BY <1>2, RequestAssumption DEF Sent, NoTx
    <2>4. Sent(r)' = Sent(r) \cup {x} /\ \A q \in Request \ {r} : Sent(q)' = Sent(q)
      <3>1. /\ tx'[x].request = r
            /\ \A y \in Hash \ {x} : tx'[y] = tx[y]
        BY <1>2, <2>1 DEF TypeOK
      <3>2. Sent(r)' = Sent(r) \cup {x}
        BY <3>1 DEF Sent
      <3>3. ASSUME NEW q \in Request \ {r} PROVE Sent(q)' = Sent(q)
        BY <2>3, <3>1 DEF Sent
      <3>4. QED
        BY <3>2, <3>3
    <2>5. Pays(r) /\ Others(r)
      BY <2>1, <2>2, <2>3, <2>4 DEF Pays, Others, Send
    <2>6. QED
      BY <2>1, <2>5 DEF Settles
  <1>3. QED
    BY <1>1, <1>2 DEF Send

LEMMA SendOkEffect ==
  ASSUME IInv, SendOk
  PROVE  Settles
  <1> USE DEF IInv
  <1>1. PICK r \in Request : r = worker.request /\ r \in Recorded /\ ledger[r].status = "queued"
    BY RowFacts DEF WorkerOnRow, SendOk
  <1>2. ledger[r].hash = NoHash /\ worker.hash \in Sent(r)
    BY <1>1 DEF RowsFitTransfers, WorkerOnRow, SendOk
  <1>3. PICK row : /\ row = [ledger[r] EXCEPT !.status = "submitted", !.hash = worker.hash]
                   /\ ledger' = [ledger EXCEPT ![r] = row]
    BY <1>1 DEF SendOk, TypeOK
  <1>4. ledger'[r] = row /\ Others(r) /\ Sent(r)' = Sent(r)
    BY <1>3, RowWritten DEF SendOk, chain
  <1>5. Acknowledges(r)
    BY <1>1, <1>2, <1>3, <1>4 DEF Acknowledges
  <1>6. QED
    BY <1>4, <1>5 DEF Settles

LEMMA ReadAfterEffect ==
  ASSUME IInv, ReadAfter
  PROVE  Settles
  <1> USE DEF IInv
  <1>1. PICK r \in Request :
          /\ r = worker.request /\ r \in Recorded /\ ledger[r].status = "submitted"
          /\ ledger[r].recipient \in Recipient
    BY RowFacts DEF WorkerOnRow, ReadAfter
  <1> DEFINE after == balance[ledger[r].recipient]
  <1>2. after \in Balance /\ Unread \in Balance /\ "outcome_unknown" \in ErrorCode
    BY <1>1 DEF TypeOK, Balance, ErrorCode
  <1>3. CASE Fail("outcome_unknown", Unread) \/ Fail("outcome_unknown", after)
    BY <1>2, <1>3, FailEffect DEF ReadAfter, chain
  <1>4. CASE ledger' = [ledger EXCEPT ![r].status = "included", ![r].after = after,
                                      ![r].error = "none"]
    <2>1. PICK row : /\ row = [ledger[r] EXCEPT !.status = "included", !.after = after,
                                                !.error = "none"]
                     /\ ledger' = [ledger EXCEPT ![r] = row]
      BY <1>1, <1>4 DEF TypeOK
    <2>2. ledger'[r] = row /\ Others(r) /\ Sent(r)' = Sent(r)
      BY <2>1, RowWritten DEF ReadAfter, chain
    <2> HIDE DEF after
    <2>3. Confirms(r)
      BY <1>1, <1>2, <2>1, <2>2 DEF Confirms
    <2>4. QED
      BY <2>2, <2>3 DEF Settles
  <1>5. QED
    BY <1>1, <1>3, <1>4 DEF ReadAfter

\* The transfers of a claim are those that were sent for it, in a block or not.
LEMMA ChainEffect ==
  ASSUME IInv, NEW x \in Hash, Include(x) \/ Drop(x)
  PROVE  Settles
  <1>1. UNCHANGED ledger /\ tx[x].state = "pending"
    BY DEF Include, Drop
  <1>2. PICK s : tx' = [tx EXCEPT ![x].state = s]
    BY DEF Include, Drop
  <1>3. tx[x] \in Tx
    BY <1>1 DEF IInv, TypeOK, NoTx
  <1>4. \A y \in Hash : tx'[y].request = tx[y].request
    BY <1>2, <1>3 DEF IInv, TypeOK, Tx
  <1>5. \A q \in Request : Sent(q)' = Sent(q)
    BY <1>4 DEF Sent
  <1>6. QED
    BY <1>1, <1>5 DEF Settles, SameRow

\* A row without a hash is never found submitted, so taking up a claim writes nothing.
LEMMA TakeNextReads ==
  ASSUME IInv, TakeNext
  PROVE  UNCHANGED <<ledger, tx>>
  <1>1. ASSUME NEW r \in Request, IsNext(r), ledger[r].status = "submitted",
               ledger[r].hash = NoHash
        PROVE  FALSE
    BY <1>1 DEF IsNext, Pending, IInv, RowsFitTransfers
  <1>2. QED
    BY <1>1 DEF TakeNext, chain

LEMMA PayoutEffect ==
  ASSUME IInv, Payout
  PROVE  Settles
  <1> USE DEF chain
  <1>1. CASE TakeNext
    BY <1>1, TakeNextReads, StillEffect
  <1>2. CASE Wake \/ PollIncluded
    BY <1>2, StillEffect DEF Wake, PollIncluded
  <1>3. CASE ReadFunds
    <2>1. UNCHANGED ledger \/ Fail("internal_error", Unread) \/ Fail("hot_balance_low", Unread)
      BY <1>3 DEF ReadFunds
    <2>2. QED
      BY <1>3, <2>1, FailEffect, StillEffect DEF ReadFunds, ErrorCode, Balance
  <1>4. CASE ReadBefore
    BY <1>4, ReadBeforeEffect
  <1>5. CASE Send
    BY <1>5, SendEffect
  <1>6. CASE SendOk
    BY <1>6, SendOkEffect
  <1>7. CASE SendRpc
    <2>1. UNCHANGED ledger \/ Fail("internal_error", Unread)
      BY <1>7 DEF SendRpc
    <2>2. QED
      BY <1>7, <2>1, FailEffect, StillEffect DEF SendRpc, ErrorCode, Balance
  <1>8. CASE SendRefused \/ SendUnknown
    <2>1. PICK code \in ErrorCode : Fail(code, Unread)
      BY <1>8 DEF SendRefused, SendUnknown, ErrorCode
    <2>2. QED
      BY <1>8, <2>1, FailEffect DEF SendRefused, SendUnknown, Balance
  <1>9. CASE PollDeadline
    BY <1>9, FailEffect DEF PollDeadline, ErrorCode, Balance
  <1>10. CASE ReadAfter
    BY <1>10, ReadAfterEffect
  <1>11. QED
    BY <1>1, <1>2, <1>3, <1>4, <1>5, <1>6, <1>7, <1>8, <1>9, <1>10 DEF Payout

LEMMA WorldEffect ==
  ASSUME IInv, World
  PROVE  Settles
  <1>1. CASE ServeStatus \/ LedgerError \/ Restart \/ Tick \/ \E a \in Recipient : Outside(a)
    BY <1>1, StillEffect DEF ServeStatus, LedgerError, Restart, Tick, Outside, chain
  <1>2. CASE \E x \in Hash : Include(x) \/ Drop(x)
    BY <1>2, ChainEffect
  <1>3. QED
    BY <1>1, <1>2 DEF World

LEMMA NextEffect ==
  ASSUME IInv, [Next]_vars
  PROVE  Effect
  <1>1. CASE Payout \/ World
    BY <1>1, PayoutEffect, WorldEffect DEF Effect
  <1>2. ASSUME NEW h \in Handler, Handle(h) PROVE Effect
    <2>1. CASE Insert(h)
      BY <2>1, InsertEffect
    <2>2. CASE ~Insert(h)
      BY <1>2, <2>2, ReadingCalls, StillEffect DEF Handle, Effect
    <2>3. QED
      BY <2>1, <2>2
  <1>3. CASE UNCHANGED vars
    BY <1>3, StillEffect DEF vars, Effect
  <1>4. QED
    BY <1>1, <1>2, <1>3 DEF Next

-----------------------------------------------------------------------------
(* What follows for the rows. *)

LEMMA RowKeepsHash ==
  ASSUME IInv, Effect, NEW r \in Recorded, ledger[r].hash # NoHash
  PROVE  ledger'[r].hash = ledger[r].hash /\ Sent(r)' = Sent(r)
  <1>1. r \in Request /\ ledger[r] \in Row /\ ledger[r] # NoRow
    BY RowFacts, NoRowFacts DEF IInv
  <1>2. CASE SameRow(r)
    BY <1>1, <1>2 DEF SameRow, Row
  <1>3. ASSUME NEW q \in Request, Others(q),
               Accepts(q) \/ Pays(q) \/ Acknowledges(q) \/ Confirms(q) \/ GivesUp(q)
        PROVE  ledger'[r].hash = ledger[r].hash /\ Sent(r)' = Sent(r)
    <2>1. CASE q # r
      BY <1>1, <1>3, <2>1 DEF Others
    <2>2. CASE q = r /\ (Accepts(q) \/ Pays(q) \/ Acknowledges(q))
      BY <1>1, <2>2 DEF Accepts, Pays, Acknowledges
    <2>3. CASE q = r /\ Confirms(q)
      BY <1>1, <2>3 DEF Confirms, Row
    <2>4. CASE q = r /\ GivesUp(q)
      BY <1>1, <2>4 DEF GivesUp, Row
    <2>5. QED
      BY <1>3, <2>1, <2>2, <2>3, <2>4
  <1>4. QED
    BY <1>1, <1>2, <1>3 DEF Effect, Settles

\* Once a row names its transfer nothing is signed for it again, whichever restart, ledger
\* error or late row made the worker take it up anew.
THEOREM NothingIsResigned == Spec => NeverResigned
  <1>1. ASSUME IInv, [Next]_vars
        PROVE  [\A r \in Recorded : ledger[r].hash # NoHash =>
                 /\ ledger'[r].hash = ledger[r].hash
                 /\ {x \in Hash : tx'[x].request = r} = Sent(r)]_vars
    BY <1>1, NextEffect, RowKeepsHash DEF Sent
  <1>2. QED
    BY <1>1, Invariance, PTL DEF Spec, NeverResigned

\* A row stays, and with it its recipient.
LEMMA RowStays ==
  ASSUME IInv, Effect, NEW r \in Recorded
  PROVE  r \in Recorded' /\ ledger'[r].recipient = ledger[r].recipient
  <1>1. r \in Request /\ ledger[r] \in Row /\ ledger[r] # NoRow
    BY RowFacts, NoRowFacts DEF IInv
  <1>2. ledger[r].status # "none"
    BY DEF Recorded
  <1>3. CASE SameRow(r)
    BY <1>1, <1>2, <1>3 DEF SameRow, Row, Recorded
  <1>4. ASSUME NEW q \in Request, Others(q),
               Accepts(q) \/ Pays(q) \/ Acknowledges(q) \/ Confirms(q) \/ GivesUp(q)
        PROVE  r \in Recorded' /\ ledger'[r].recipient = ledger[r].recipient
    <2>1. CASE q # r
      BY <1>1, <1>2, <1>4, <2>1 DEF Others, Recorded
    <2>2. CASE q = r /\ (Accepts(q) \/ Pays(q))
      BY <1>1, <1>2, <2>2 DEF Accepts, Pays, Recorded
    <2>3. CASE q = r /\ Acknowledges(q)
      BY <1>1, <2>3 DEF Acknowledges, Row, Recorded
    <2>4. CASE q = r /\ Confirms(q)
      BY <1>1, <2>4 DEF Confirms, Row, Recorded
    <2>5. CASE q = r /\ GivesUp(q)
      BY <1>1, <2>5 DEF GivesUp, Row, Recorded
    <2>6. QED
      BY <1>4, <2>1, <2>2, <2>3, <2>4, <2>5
  <1>5. QED
    BY <1>1, <1>3, <1>4 DEF Effect, Settles

\* One handler's call, before or after a step: that it inserted its row is what its answer
\* rests on.
OwnRow(h) ==
  handler[h].pc \in {"inserted", "answered"} =>
    /\ handler[h].request \in Recorded
    /\ ledger[handler[h].request].recipient = handler[h].recipient

AllOwn == \A h \in Handler : OwnRow(h)

LEMMA OwnRowStays ==
  ASSUME IInv, Effect, NEW h \in Handler, OwnRow(h), handler'[h] = handler[h]
  PROVE  OwnRow(h)'
  <1>1. CASE handler[h].pc \in {"inserted", "answered"}
    <2>1. PICK r \in Recorded :
            r = handler[h].request /\ ledger[r].recipient = handler[h].recipient
      BY <1>1 DEF OwnRow
    <2>2. r \in Recorded' /\ ledger'[r].recipient = ledger[r].recipient
      BY RowStays
    <2>3. QED
      BY <2>1, <2>2 DEF OwnRow
  <1>2. QED
    BY <1>1 DEF OwnRow

LEMMA HandleAnswers ==
  ASSUME IInv, \A k \in Handler : OwnRow(k), NEW h \in Handler, Handle(h)
  PROVE  \A k \in Handler : OwnRow(k)'
  <1>1. Effect
    BY NextEffect DEF Next
  <1>2. \A k \in Handler \ {h} : handler'[k] = handler[k]
    BY DEF Handle, Post, CheckLimits, ReadHot, CheckFunds, Insert, Inserted, ReadBack, Abandon,
       Refuse, Answer, IInv, TypeOK
  <1>3. ASSUME NEW k \in Handler \ {h} PROVE OwnRow(k)'
    <2>1. k \in Handler /\ OwnRow(k) /\ handler'[k] = handler[k]
      BY <1>2
    <2>2. QED
      BY <1>1, <2>1, OwnRowStays
  <1>4. ASSUME handler'[h].pc \notin {"inserted", "answered"} PROVE OwnRow(h)'
    BY <1>4 DEF OwnRow
  <1>5. ASSUME NEW r \in Recorded, NEW a, ledger[r].recipient = a, Answer(h, r, a)
        PROVE  OwnRow(h)'
    <2>1. handler'[h].request = r /\ handler'[h].recipient = a
      BY <1>5 DEF Answer, IInv, TypeOK
    <2>2. r \in Recorded' /\ ledger'[r].recipient = a
      BY <1>1, <1>5, RowStays
    <2>3. QED
      BY <2>1, <2>2 DEF OwnRow
  <1>6. ASSUME handler'[h].pc \in {"inserted", "answered"} PROVE OwnRow(h)'
    <2>1. ~Refuse(h)
      BY <1>6 DEF Refuse, NoCall, IInv, TypeOK
    <2>2. CASE Post(h)
      <3>1. PICK r \in Request, a \in Recipient :
              Answer(h, r, a) /\ ledger[r] # NoRow /\ ledger[r].recipient = a
        BY <1>6, <2>1, <2>2 DEF Post, IInv, TypeOK
      <3>2. QED
        BY <1>5, <3>1, NoRowFacts DEF IInv
    <2>3. CASE CheckLimits(h)
      BY <1>6, <2>1, <2>3, CallFacts DEF CheckLimits, Call, IInv, TypeOK
    <2>4. CASE ReadHot(h) \/ CheckFunds(h)
      BY <1>6, <2>1, <2>4, CallFacts DEF ReadHot, CheckFunds, Call, IInv, TypeOK
    <2>5. CASE Insert(h)
      <3>1. PICK r \in Request, a \in Recipient :
              r = handler[h].request /\ a = handler[h].recipient
        BY <2>5, CallFacts DEF Insert, Call, IInv
      <3>2. CASE ledger[r] = NoRow
        <4>1. PICK i, n : ledger' = [ledger EXCEPT ![r] = Queued(a, i, n)]
          BY <2>5, <3>1, <3>2 DEF Insert, Inserted
        <4>2. ledger'[r] = Queued(a, i, n)
          BY <4>1 DEF IInv, TypeOK
        <4>3. handler'[h].request = r /\ handler'[h].recipient = a
          BY <2>5, <3>1, <3>2 DEF Insert, Inserted, IInv, TypeOK
        <4>4. QED
          BY <4>2, <4>3 DEF OwnRow, Recorded, Queued
      <3>3. CASE ledger[r] # NoRow
        <4>1. ledger[r].recipient = a /\ Answer(h, r, a)
          BY <2>1, <2>5, <3>1, <3>3 DEF Insert
        <4>2. QED
          BY <1>5, <3>3, <4>1, NoRowFacts DEF IInv
      <3>4. QED
        BY <3>2, <3>3
    <2>6. CASE ReadBack(h)
      <3>1. PICK r \in Recorded : /\ r = handler[h].request
                                 /\ ledger[r].recipient = handler[h].recipient
        BY <2>6 DEF ReadBack, OwnRow
      <3>2. Answer(h, r, handler[h].recipient)
        BY <2>1, <2>6, <3>1 DEF ReadBack
      <3>3. QED
        BY <1>5, <3>1, <3>2
    <2>7. CASE Abandon(h)
      BY <2>1, <2>7 DEF Abandon
    <2>8. QED
      BY <2>2, <2>3, <2>4, <2>5, <2>6, <2>7 DEF Handle
  <1>7. QED
    BY <1>3, <1>4, <1>6

\* Of two calls that race to insert one request id, the loser is answered with the winner's
\* row, and only if it asked for the same recipient; and the answer stays true.
THEOREM AnswersAreOwn == Spec => []AnswersOwnRow
  <1>1. Init => AllOwn
    BY DEF Init, AllOwn, OwnRow, NoCall
  <1>2. ASSUME IInv, AllOwn, [Next]_vars
        PROVE  AllOwn'
    <2>1. CASE \E h \in Handler : Handle(h)
      BY <1>2, <2>1, HandleAnswers DEF AllOwn
    <2>2. CASE Restart
      BY <2>2 DEF Restart, AllOwn, OwnRow, NoCall
    <2>3. CASE UNCHANGED handler
      BY <1>2, <2>3, NextEffect, OwnRowStays DEF AllOwn
    <2>4. Payout \/ World \/ UNCHANGED vars => Restart \/ UNCHANGED handler
      BY DEF Payout, World, TakeNext, Wake, ReadFunds, ReadBefore, Send, SendOk, SendRpc,
         SendRefused, SendUnknown, PollIncluded, PollDeadline, ReadAfter, ServeStatus,
         LedgerError, Include, Drop, Outside, Tick, vars
    <2>5. QED
      BY <1>2, <2>1, <2>2, <2>3, <2>4 DEF Next
  <1>3. AllOwn => AnswersOwnRow
    BY DEF AllOwn, OwnRow, AnswersOwnRow
  <1>4. QED
    BY <1>1, <1>2, <1>3, Invariance, PTL DEF Spec

-----------------------------------------------------------------------------
(* The worker and the claims that wait for it. *)

\* The claims the worker may sleep over: none but the unheard, and those whose handlers are
\* about to tell it.
Announced(r) ==
  \/ r \in unheard
  \/ \E h \in Handler : handler[h].pc = "inserted" /\ handler[h].request = r

AllAnnounced == worker.pc = "waiting" /\ ~permit => \A r \in Pending : Announced(r)

\* The worker goes to sleep over an empty queue alone.
LEMMA FallsAsleep ==
  ASSUME IInv, Payout, worker'.pc = "waiting"
  PROVE  Pending' = {}
  <1>1. CASE TakeNext
    <2>1. ASSUME NEW r \in Request, IsNext(r) PROVE FALSE
      <3>1. Pending # {}
        BY <2>1 DEF IsNext
      <3>2. \/ worker' = Idle
            \/ \E q \in Request, at \in {"fund", "poll"} :
                 worker' = [Idle EXCEPT !.request = q, !.pc = at]
        BY <1>1, <3>1 DEF TakeNext
      <3>3. ASSUME NEW q \in Request, NEW at \in {"fund", "poll"},
                   worker' = [Idle EXCEPT !.request = q, !.pc = at]
            PROVE  worker'.pc # "waiting"
        BY <3>3 DEF Idle
      <3>4. CASE worker' = Idle
        BY <3>4 DEF Idle
      <3>5. QED
        BY <3>2, <3>3, <3>4
    <2>2. QED
      BY <1>1, <2>1 DEF TakeNext, Pending, Recorded
  <1>2. CASE Wake \/ ReadFunds \/ ReadBefore \/ Send \/ SendOk \/ SendRpc \/ SendRefused
               \/ SendUnknown \/ PollIncluded \/ PollDeadline \/ ReadAfter
    <2>1. worker \in Worker /\ Idle.pc = "idle"
      BY DEF IInv, TypeOK, Idle
    <2>2. QED
      BY <1>2, <2>1 DEF Wake, ReadFunds, ReadBefore, Send, SendOk, SendRpc, SendRefused,
         SendUnknown, PollIncluded, PollDeadline, ReadAfter, Fail, Worker
  <1>3. QED
    BY <1>1, <1>2 DEF Payout

\* A handler's step while the worker sleeps: what it inserts it still holds, and what it lets
\* go of unsaid is unheard.
LEMMA HandleAnnounces ==
  ASSUME IInv, NEW h \in Handler, Handle(h), worker.pc = "waiting", ~permit',
         \A r \in Pending : Announced(r)
  PROVE  \A r \in Pending' : Announced(r)'
  <1>1. \A k \in Handler \ {h} : handler'[k] = handler[k]
    BY DEF Handle, Post, CheckLimits, ReadHot, CheckFunds, Insert, Inserted, ReadBack, Abandon,
       Refuse, Answer, IInv, TypeOK
  <1>2. CASE handler[h].pc # "inserted" /\ UNCHANGED <<ledger, unheard>>
    BY <1>1, <1>2 DEF Announced, Pending, Recorded
  <1>3. CASE Insert(h) /\ ledger[handler[h].request] = NoRow
    <2>1. PICK r \in Request : r = handler[h].request /\ handler[h] \in Call
      BY <1>3, CallFacts DEF Insert, Call, IInv
    <2>2. PICK row : ledger' = [ledger EXCEPT ![r] = row]
      BY <1>3, <2>1 DEF Insert, Inserted
    <2>3. handler'[h].pc = "inserted" /\ handler'[h].request = r
      BY <1>3, <2>1 DEF Insert, Inserted, IInv, TypeOK
    <2>4. \A q \in Pending' \ {r} : q \in Pending
      BY <2>2 DEF Pending, Recorded, IInv, TypeOK
    <2>5. UNCHANGED unheard /\ handler[h].pc # "inserted"
      BY <1>3 DEF Insert
    <2>6. QED
      BY <1>1, <2>3, <2>4, <2>5 DEF Announced
  <1>4. CASE ReadBack(h)
    <2>1. unheard' = unheard \cup {handler[h].request} /\ UNCHANGED ledger
      BY <1>4 DEF ReadBack
    <2>2. QED
      BY <1>1, <2>1 DEF Announced, Pending, Recorded
  <1>5. Insert(h) => \/ ledger[handler[h].request] = NoRow
                     \/ handler[h].pc # "inserted" /\ UNCHANGED <<ledger, unheard>>
    BY DEF Insert
  <1>6. Post(h) \/ CheckLimits(h) \/ ReadHot(h) \/ CheckFunds(h) \/ Abandon(h)
          => handler[h].pc # "inserted" /\ UNCHANGED <<ledger, unheard>>
    BY DEF Post, Free, CheckLimits, ReadHot, CheckFunds, Abandon
  <1>7. QED
    BY <1>2, <1>3, <1>4, <1>5, <1>6 DEF Handle

\* A claim recorded between the worker's empty query and its wait leaves a permit once its row
\* is read back, and no other step takes that permit away: the worker sleeps over no claim but
\* one whose row could not be read back.
THEOREM NoClaimIsStranded == Spec => []NoStrandedClaim
  <1>1. Init => AllAnnounced
    BY DEF Init, AllAnnounced, Idle
  <1>2. ASSUME IInv, AllAnnounced, [Next]_vars, worker'.pc = "waiting", ~permit'
        PROVE  \A r \in Pending' : Announced(r)'
    <2>1. CASE Payout
      BY <1>2, <2>1, FallsAsleep
    <2>2. CASE UNCHANGED <<ledger, worker, permit, handler, unheard>>
      BY <1>2, <2>2 DEF AllAnnounced, Announced, Pending, Recorded
    <2>3. CASE World
      <3>1. LedgerError \/ Restart => worker'.pc # "waiting"
        BY DEF LedgerError, Restart, Idle
      <3>2. QED
        BY <1>2, <2>2, <2>3, <3>1 DEF World, ServeStatus, Include, Drop, Outside, Tick, chain
    <2>4. ASSUME NEW h \in Handler, Handle(h) PROVE \A r \in Pending' : Announced(r)'
      <3>1. UNCHANGED worker /\ (permit => permit')
        BY <2>4 DEF Handle, Post, CheckLimits, ReadHot, CheckFunds, Insert, ReadBack, Abandon
      <3>2. QED
        BY <1>2, <2>4, <3>1, HandleAnnounces DEF AllAnnounced
    <2>5. CASE UNCHANGED vars
      BY <2>2, <2>5 DEF vars
    <2>6. QED
      BY <1>2, <2>1, <2>3, <2>4, <2>5 DEF Next
  <1>3. ASSUME IInv, AllAnnounced, [Next]_vars PROVE AllAnnounced'
    BY <1>2, <1>3 DEF AllAnnounced
  <1>4. AllAnnounced => NoStrandedClaim
    BY DEF AllAnnounced, NoStrandedClaim, Announced
  <1>5. QED
    BY <1>1, <1>3, <1>4, Invariance, PTL DEF Spec

-----------------------------------------------------------------------------
(* The refinement. *)

\* Only a claim that failed has an error.
ErrorsFit == \A r \in Recorded : ledger[r].status # "failed" => ledger[r].error = "none"

LEMMA ErrorsStayFit ==
  ASSUME IInv, ErrorsFit, Effect
  PROVE  ErrorsFit'
  <1> SUFFICES ASSUME NEW r \in Recorded', ledger'[r].status # "failed"
               PROVE  ledger'[r].error = "none"
    BY DEF ErrorsFit
  <1>1. r \in Request
    BY DEF Recorded
  <1>2. r \in Recorded => ledger[r] \in Row
    BY RowFacts DEF IInv
  <1>3. CASE SameRow(r) \/ ledger'[r] = ledger[r]
    BY <1>1, <1>2, <1>3 DEF SameRow, ErrorsFit, Recorded, Row
  <1>4. CASE Accepts(r)
    BY <1>4 DEF Accepts, Queued
  <1>5. CASE Pays(r) \/ Acknowledges(r) \/ Confirms(r)
    BY <1>2, <1>5 DEF Pays, Acknowledges, Confirms, ErrorsFit, Row
  <1>6. CASE GivesUp(r)
    BY <1>2, <1>6 DEF GivesUp, Row
  <1>7. QED
    BY <1>1, <1>3, <1>4, <1>5, <1>6 DEF Effect, Settles, Others

LEMMA ShownElsewhere ==
  ASSUME NEW r \in Request, Others(r), NEW q \in Request \ {r}
  PROVE  Shown(q)' = Shown(q) /\ Sent(q)' = Sent(q)
  BY DEF Others, Shown, Recorded

LEMMA ShownSame ==
  ASSUME IInv, NEW q \in Request, SameRow(q)
  PROVE  Shown(q)' = Shown(q) /\ Sent(q)' = Sent(q)
  <1>1. CASE ledger'[q] = ledger[q]
    BY <1>1 DEF SameRow, Shown, Recorded
  <1>2. ASSUME q \in Recorded, NEW b \in Balance, ledger'[q] = [ledger[q] EXCEPT !.before = b]
        PROVE  Shown(q)' = Shown(q)
    <2>1. ledger[q] \in Row
      BY <1>2, RowFacts DEF IInv
    <2>2. q \in Recorded'
      BY <1>2, <2>1 DEF Row, Recorded
    <2>3. QED
      BY <1>2, <2>1, <2>2 DEF Row, Shown
  <1>3. QED
    BY <1>1, <1>2 DEF SameRow

\* What each kind of step shows.
LEMMA ShownChanges ==
  ASSUME IInv, ErrorsFit, NEW r \in Request
  PROVE  /\ Accepts(r) =>
              /\ Shown(r) = [status |-> "none"] /\ Sent(r)' = Sent(r)
              /\ \E a \in Recipient : Shown(r)' = [status |-> "queued", recipient |-> a,
                                                   hash |-> NoHash, error |-> "none"]
         /\ Pays(r) => Shown(r)' = Shown(r) /\ Shown(r).status = "queued"
         /\ Acknowledges(r) =>
              /\ Shown(r).status = "queued"
              /\ \E x \in Sent(r) :
                   Shown(r)' = Promise!Claim("submitted", Shown(r).recipient, x, Shown(r).error)
         /\ Confirms(r) =>
              /\ Shown(r).status = "submitted"
              /\ Shown(r)' = [Shown(r) EXCEPT !.status = "included"]
         /\ GivesUp(r) =>
              /\ Shown(r).status \in {"queued", "submitted"}
              /\ \E error \in {"refused", "unknown"} :
                   /\ Shown(r).hash # NoHash => error = "unknown"
                   /\ Shown(r)' = Promise!Claim("failed", Shown(r).recipient, Shown(r).hash, error)
  <1>1. r \in Recorded => ledger[r] \in Row
    BY RowFacts DEF IInv
  <1>2. ASSUME Accepts(r)
        PROVE  /\ Shown(r) = [status |-> "none"] /\ Sent(r)' = Sent(r)
               /\ \E a \in Recipient : Shown(r)' = [status |-> "queued", recipient |-> a,
                                                    hash |-> NoHash, error |-> "none"]
    <2>1. PICK a \in Recipient, i \in Ip, n \in Nat : ledger'[r] = Queued(a, i, n)
      BY <1>2 DEF Accepts
    <2>2. r \notin Recorded /\ r \in Recorded'
      BY <1>2, <2>1 DEF Accepts, Recorded, NoRow, Queued
    <2>3. QED
      BY <1>2, <2>1, <2>2 DEF Accepts, Shown, ShownError, NoRow, Queued
  <1>3. Pays(r) => Shown(r)' = Shown(r) /\ Shown(r).status = "queued"
    BY DEF Pays, Shown, Recorded
  <1>4. ASSUME Acknowledges(r)
        PROVE  /\ Shown(r).status = "queued"
               /\ \E x \in Sent(r) :
                    Shown(r)' = Promise!Claim("submitted", Shown(r).recipient, x, Shown(r).error)
    <2>1. PICK x \in Sent(r) :
            ledger'[r] = [ledger[r] EXCEPT !.status = "submitted", !.hash = x]
      BY <1>4 DEF Acknowledges
    <2>2. r \in Recorded /\ r \in Recorded' /\ ledger[r].status = "queued"
      BY <1>1, <1>4, <2>1 DEF Acknowledges, Recorded, Row
    <2>3. /\ ledger'[r].status = "submitted" /\ ledger'[r].hash = x
          /\ ledger'[r].recipient = ledger[r].recipient /\ ledger'[r].error = ledger[r].error
      BY <1>1, <2>1, <2>2 DEF Row
    <2>4. Shown(r)' = Promise!Claim("submitted", Shown(r).recipient, x, Shown(r).error)
      BY <2>2, <2>3 DEF Shown, Promise!Claim
    <2>5. QED
      BY <2>2, <2>4 DEF Shown
  <1>5. ASSUME Confirms(r)
        PROVE  /\ Shown(r).status = "submitted"
               /\ Shown(r)' = [Shown(r) EXCEPT !.status = "included"]
    <2>1. PICK b \in Balance :
            ledger'[r] = [ledger[r] EXCEPT !.status = "included", !.after = b, !.error = "none"]
      BY <1>5 DEF Confirms
    <2>2. /\ r \in Recorded /\ r \in Recorded'
          /\ ledger[r].status = "submitted" /\ ledger[r].error = "none"
      BY <1>1, <1>5, <2>1 DEF Confirms, Recorded, Row, ErrorsFit
    <2>3. QED
      BY <1>1, <2>1, <2>2 DEF Shown, Row
  <1>6. ASSUME GivesUp(r)
        PROVE  /\ Shown(r).status \in {"queued", "submitted"}
               /\ \E error \in {"refused", "unknown"} :
                    /\ Shown(r).hash # NoHash => error = "unknown"
                    /\ Shown(r)' = Promise!Claim("failed", Shown(r).recipient, Shown(r).hash, error)
    <2>1. PICK code \in ErrorCode, b \in Balance :
            /\ ledger[r].hash # NoHash => code = "outcome_unknown"
            /\ ledger'[r] = [ledger[r] EXCEPT !.status = "failed", !.error = code, !.after = b]
      BY <1>6 DEF GivesUp
    <2>2. r \in Recorded /\ r \in Recorded' /\ ledger[r].status \in {"queued", "submitted"}
      BY <1>1, <1>6, <2>1 DEF GivesUp, Recorded, Row
    <2>3. /\ ledger'[r].status = "failed" /\ ledger'[r].error = code
          /\ ledger'[r].recipient = ledger[r].recipient /\ ledger'[r].hash = ledger[r].hash
      BY <1>1, <2>1, <2>2 DEF Row
    <2>4. Shown(r)' = Promise!Claim("failed", Shown(r).recipient, Shown(r).hash, ShownError(code))
      BY <2>2, <2>3 DEF Shown, ShownError, Promise!Claim
    <2>5. ShownError(code) \in {"refused", "unknown"}
      BY DEF ShownError, ErrorCode
    <2>6. Shown(r).hash # NoHash => ShownError(code) = "unknown"
      BY <2>1, <2>2 DEF Shown, ShownError
    <2>7. QED
      BY <2>2, <2>4, <2>5, <2>6 DEF Shown
  <1>7. QED
    BY <1>2, <1>3, <1>4, <1>5, <1>6

LEMMA PromiseStep ==
  ASSUME IInv, ErrorsFit, Effect
  PROVE  [Promise!Next]_<<[r \in Request |-> Shown(r)], [r \in Request |-> Sent(r)]>>
  <1> DEFINE claim == [r \in Request |-> Shown(r)]
             sent  == [r \in Request |-> Sent(r)]
  <1>1. CASE \A q \in Request : SameRow(q)
    BY <1>1, ShownSame
  <1>2. ASSUME NEW r \in Request, Others(r),
               Accepts(r) \/ Pays(r) \/ Acknowledges(r) \/ Confirms(r) \/ GivesUp(r)
        PROVE  Promise!Next
    <2>1. \A q \in Request \ {r} : Shown(q)' = Shown(q) /\ Sent(q)' = Sent(q)
      BY <1>2, ShownElsewhere
    <2>2. claim' = [claim EXCEPT ![r] = Shown(r)'] /\ sent' = [sent EXCEPT ![r] = Sent(r)']
      BY <2>1
    <2>3. CASE Accepts(r)
      <3>1. Shown(r) = [status |-> "none"] /\ Sent(r)' = Sent(r)
        BY <2>3, ShownChanges
      <3>2. PICK a \in Recipient :
              Shown(r)' = [status |-> "queued", recipient |-> a, hash |-> NoHash, error |-> "none"]
        BY <2>3, ShownChanges
      <3>3. sent' = sent
        BY <2>1, <3>1
      <3>4. Promise!Accept(r)
        BY <2>2, <3>1, <3>2, <3>3 DEF Promise!Accept, Promise!NoClaim, Promise!Claim
      <3>5. QED
        BY <3>4 DEF Promise!Next
    <2>4. CASE Pays(r)
      <3>1. PICK x \in Hash :
              (\A q \in Request : x \notin Sent(q)) /\ Sent(r)' = Sent(r) \cup {x}
        BY <2>4 DEF Pays
      <3>2. Shown(r)' = Shown(r) /\ Shown(r).status = "queued"
        BY <2>4, ShownChanges
      <3>3. claim' = claim
        BY <2>1, <3>2
      <3>4. sent' = [sent EXCEPT ![r] = @ \cup {x}]
        BY <2>2, <3>1
      <3>5. Promise!Pay(r)
        BY <3>1, <3>2, <3>3, <3>4 DEF Promise!Pay
      <3>6. QED
        BY <3>5 DEF Promise!Next
    <2>5. CASE Acknowledges(r)
      <3>1. PICK x \in Sent(r) :
              Shown(r)' = Promise!Claim("submitted", Shown(r).recipient, x, Shown(r).error)
        BY <2>5, ShownChanges
      <3>2. Shown(r).status = "queued" /\ Sent(r)' = Sent(r)
        BY <2>5, ShownChanges DEF Acknowledges
      <3>3. sent' = sent
        BY <2>1, <3>2
      <3>4. claim' = [claim EXCEPT ![r] = Promise!Claim("submitted", @.recipient, x, @.error)]
        BY <2>2, <3>1
      <3>5. Promise!Acknowledge(r)
        BY <3>1, <3>2, <3>3, <3>4 DEF Promise!Acknowledge
      <3>6. QED
        BY <3>5 DEF Promise!Next
    <2>6. CASE Confirms(r)
      <3>1. Shown(r).status = "submitted" /\ Shown(r)' = [Shown(r) EXCEPT !.status = "included"]
        BY <2>6, ShownChanges
      <3>2. sent' = sent
        BY <2>1, <2>6 DEF Confirms
      <3>3. claim' = [claim EXCEPT ![r].status = "included"]
        BY <2>2, <3>1
      <3>4. Promise!Confirm(r)
        BY <3>1, <3>2, <3>3 DEF Promise!Confirm
      <3>5. QED
        BY <3>4 DEF Promise!Next
    <2>7. CASE GivesUp(r)
      <3>1. PICK error \in {"refused", "unknown"} :
              /\ Shown(r).hash # NoHash => error = "unknown"
              /\ Shown(r)' = Promise!Claim("failed", Shown(r).recipient, Shown(r).hash, error)
        BY <2>7, ShownChanges
      <3>2. Shown(r).status \in {"queued", "submitted"} /\ Sent(r)' = Sent(r)
        BY <2>7, ShownChanges DEF GivesUp
      <3>3. sent' = sent
        BY <2>1, <3>2
      <3>4. claim' = [claim EXCEPT ![r] = Promise!Claim("failed", @.recipient, @.hash, error)]
        BY <2>2, <3>1
      <3>5. Promise!GiveUp(r)
        BY <3>1, <3>2, <3>3, <3>4 DEF Promise!GiveUp
      <3>6. QED
        BY <3>5 DEF Promise!Next
    <2>8. QED
      BY <1>2, <2>3, <2>4, <2>5, <2>6, <2>7
  <1>3. QED
    BY <1>1, <1>2 DEF Effect, Settles

\* The service, with its worker, its racing handlers, its deaths and its lost answers, does for
\* every client what ClaimPromise says: in particular a claim that names its transfer is never
\* paid for again, and its outcome stands.
THEOREM PromiseIsKept == Spec => KeepsPromise
  <1>1. Init => Promise!Init
    <2> SUFFICES ASSUME Init PROVE Promise!Init
      OBVIOUS
    <2>1. \A r \in Request : Shown(r) = NoRow /\ Sent(r) = {}
      BY RequestAssumption DEF Init, Shown, Recorded, NoRow, Sent, NoTx, NoRequest
    <2>2. QED
      BY <2>1 DEF Promise!Init, Promise!NoClaim, NoRow
  <1>2. Init => ErrorsFit
    BY DEF Init, ErrorsFit, Recorded, NoRow
  <1>3. IInv /\ ErrorsFit /\ [Next]_vars => ErrorsFit'
    BY NextEffect, ErrorsStayFit
  <1>4. IInv /\ ErrorsFit /\ [Next]_vars
          => [Promise!Next]_<<[r \in Request |-> Shown(r)], [r \in Request |-> Sent(r)]>>
    BY NextEffect, PromiseStep
  <1>5. QED
    BY <1>1, <1>2, <1>3, <1>4, Invariance, PTL DEF Spec, KeepsPromise, Promise!Spec

-----------------------------------------------------------------------------
(* One transfer on its way. *)

Submitted == {r \in Recorded : ledger[r].status = "submitted"}

\* Until a fault the worker does not leave a submitted claim before it is settled.
SubmittedAtHand ==
  faults = 0 /\ Submitted # {} =>
    worker.pc \in {"poll", "after"} /\ Submitted = {worker.request}

\* The actions of the worker that take it neither into nor out of a poll.
LEMMA FailedRow ==
  ASSUME IInv, NEW code, NEW after, Fail(code, after),
         worker.pc \in {"fund", "before", "sending", "poll", "after"}
  PROVE  /\ worker.request \in Recorded /\ worker.request \notin Submitted'
         /\ ledger'[worker.request].status = "failed"
         /\ \A q \in Request \ {worker.request} : ledger'[q] = ledger[q]
  <1>1. worker.request \in Recorded /\ ledger[worker.request] \in Row
    BY RowFacts DEF IInv, WorkerOnRow
  <1>2. PICK row : /\ row.status = "failed"
                   /\ ledger' = [ledger EXCEPT ![worker.request] = row]
    <2>1. [ledger[worker.request] EXCEPT !.status = "failed", !.error = code,
             !.after = IF after = Unread THEN @ ELSE after].status = "failed"
      BY <1>1 DEF Row
    <2>2. QED
      BY <1>1, <2>1 DEF Fail, MarkFailed, IInv, TypeOK
  <1>3. QED
    BY <1>1, <1>2 DEF IInv, TypeOK, Recorded, Submitted

LEMMA FaultsGrow ==
  ASSUME IInv, [Next]_vars, faults' = 0
  PROVE  faults = 0 /\ ~LedgerError /\ ~Restart
  <1>1. faults \in Nat
    BY DEF IInv, TypeOK
  <1>2. ~LedgerError /\ ~Restart
    BY <1>1 DEF LedgerError, Restart
  <1>3. CASE Payout
    BY <1>2, <1>3 DEF Payout, TakeNext, Wake, ReadFunds, ReadBefore, Send, SendOk, SendRpc,
       SendRefused, SendUnknown, PollIncluded, PollDeadline, ReadAfter
  <1>4. CASE World
    BY <1>2, <1>4 DEF World, ServeStatus, Include, Drop, Outside, Tick
  <1>5. CASE \E h \in Handler : Handle(h)
    BY <1>2, <1>5 DEF Handle, Post, CheckLimits, ReadHot, CheckFunds, Insert, ReadBack, Abandon
  <1>6. QED
    BY <1>2, <1>3, <1>4, <1>5 DEF Next, vars

LEMMA PayoutSubmitted ==
  ASSUME IInv, SubmittedAtHand, Payout, faults' = 0, faults = 0
  PROVE  SubmittedAtHand'
  <1>1. Submitted = {} \/ (worker.pc \in {"poll", "after"} /\ Submitted = {worker.request})
    BY DEF SubmittedAtHand
  <1>2. worker \in Worker /\ \A r \in Recorded : r \in Request /\ ledger[r] \in Row
    BY RowFacts DEF IInv, TypeOK
  <1>3. ASSUME NEW code, NEW after, Fail(code, after),
               worker.pc \in {"fund", "before", "sending", "poll", "after"}
        PROVE  SubmittedAtHand'
    BY <1>1, <1>3, FailedRow DEF SubmittedAtHand, Submitted, Recorded
  <1>4. ASSUME UNCHANGED ledger, worker.pc \notin {"poll", "after"}
        PROVE  SubmittedAtHand'
    BY <1>1, <1>4 DEF SubmittedAtHand, Submitted, Recorded
  <1>5. CASE TakeNext
    BY <1>4, <1>5, TakeNextReads DEF TakeNext
  <1>6. CASE Wake \/ Send
    BY <1>4, <1>6 DEF Wake, Send
  <1>7. CASE ReadFunds
    <2>1. UNCHANGED ledger \/ Fail("internal_error", Unread) \/ Fail("hot_balance_low", Unread)
      BY <1>7 DEF ReadFunds
    <2>2. QED
      BY <1>3, <1>4, <1>7, <2>1 DEF ReadFunds
  <1>8. CASE ReadBefore
    <2>1. CASE Fail("internal_error", Unread)
      BY <1>3, <1>8, <2>1 DEF ReadBefore
    <2>2. ASSUME ~Fail("internal_error", Unread)
          PROVE  SubmittedAtHand'
      <3>1. worker.request \in Recorded /\ ledger[worker.request].status = "queued"
        BY <1>8 DEF ReadBefore, IInv, WorkerOnRow
      <3>2. PICK b : ledger' = [ledger EXCEPT ![worker.request].before = b]
        BY <1>8, <2>2 DEF ReadBefore
      <3>3. \A q \in Request : ledger'[q].status = ledger[q].status
        BY <1>2, <3>1, <3>2 DEF IInv, TypeOK, Row
      <3>4. Submitted' = {}
        BY <1>1, <1>8, <3>3 DEF Submitted, Recorded, ReadBefore
      <3>5. QED
        BY <3>4 DEF SubmittedAtHand
    <2>3. QED
      BY <2>1, <2>2
  <1>9. CASE SendOk
    <2>1. worker.request \in Recorded /\ ledger[worker.request].status = "queued"
      BY <1>9 DEF SendOk, IInv, WorkerOnRow
    <2>2. Submitted = {} /\ worker'.pc = "poll" /\ worker'.request = worker.request
      BY <1>1, <1>2, <1>9 DEF SendOk, Worker
    <2>3. /\ ledger'[worker.request].status = "submitted"
          /\ \A q \in Request \ {worker.request} : ledger'[q] = ledger[q]
      BY <1>2, <1>9, <2>1 DEF SendOk, IInv, TypeOK, Row
    <2>4. Submitted' = {worker.request}
      BY <1>2, <2>1, <2>2, <2>3 DEF Submitted, Recorded
    <2>5. QED
      BY <2>2, <2>4 DEF SubmittedAtHand
  <1>10. CASE SendRpc
    <2>1. UNCHANGED ledger \/ Fail("internal_error", Unread)
      BY <1>10 DEF SendRpc
    <2>2. QED
      BY <1>3, <1>4, <1>10, <2>1 DEF SendRpc
  <1>11. CASE SendRefused \/ SendUnknown \/ PollDeadline
    <2>1. \E code : Fail(code, Unread)
      BY <1>11 DEF SendRefused, SendUnknown, PollDeadline
    <2>2. QED
      BY <1>3, <1>11, <2>1 DEF SendRefused, SendUnknown, PollDeadline
  <1>12. CASE PollIncluded
    <2>1. worker'.pc = "after" /\ worker'.request = worker.request /\ UNCHANGED ledger
      BY <1>2, <1>12 DEF PollIncluded, Worker
    <2>2. QED
      BY <1>1, <2>1 DEF SubmittedAtHand, Submitted, Recorded
  <1>13. CASE ReadAfter
    <2>1. CASE \E after : Fail("outcome_unknown", after)
      BY <1>3, <1>13, <2>1 DEF ReadAfter
    <2>2. ASSUME ~ \E after : Fail("outcome_unknown", after)
          PROVE  SubmittedAtHand'
      <3>1. worker.request \in Recorded
        BY <1>13 DEF ReadAfter, IInv, WorkerOnRow
      <3>2. PICK after : ledger' = [ledger EXCEPT ![worker.request].status = "included",
                           ![worker.request].after = after, ![worker.request].error = "none"]
        BY <1>13, <2>2 DEF ReadAfter
      <3>3. /\ ledger'[worker.request].status = "included"
            /\ \A q \in Request \ {worker.request} : ledger'[q] = ledger[q]
        BY <1>2, <3>1, <3>2 DEF IInv, TypeOK, Row
      <3>4. Submitted' = {}
        BY <1>1, <3>3 DEF Submitted, Recorded
      <3>5. QED
        BY <3>4 DEF SubmittedAtHand
    <2>3. QED
      BY <2>1, <2>2
  <1>14. QED
    BY <1>5, <1>6, <1>7, <1>8, <1>9, <1>10, <1>11, <1>12, <1>13 DEF Payout

LEMMA SubmittedNext ==
  ASSUME IInv, SubmittedAtHand, [Next]_vars
  PROVE  SubmittedAtHand'
  <1> SUFFICES ASSUME faults' = 0 PROVE SubmittedAtHand'
    BY DEF SubmittedAtHand
  <1>1. faults = 0 /\ ~LedgerError /\ ~Restart
    BY FaultsGrow
  <1>2. ASSUME UNCHANGED <<ledger, worker>> PROVE SubmittedAtHand'
    BY <1>1, <1>2 DEF SubmittedAtHand, Submitted, Recorded
  <1>3. CASE Payout
    BY <1>1, <1>3, PayoutSubmitted
  <1>4. CASE World
    BY <1>1, <1>2, <1>4 DEF World, ServeStatus, Include, Drop, Outside, Tick, chain
  <1>5. ASSUME NEW h \in Handler, Handle(h) PROVE SubmittedAtHand'
    <2>1. CASE ~Insert(h)
      BY <1>2, <1>5, <2>1, ReadingCalls DEF Handle
    <2>2. CASE Insert(h)
      <3>1. CASE UNCHANGED ledger
        BY <1>2, <2>2, <3>1 DEF Insert
      <3>2. CASE ~UNCHANGED ledger
        <4>1. PICK r \in Request, row \in Row : /\ row.status = "queued" /\ ledger[r] = NoRow
                                               /\ ledger' = [ledger EXCEPT ![r] = row]
          BY <2>2, <3>2, CallFacts, QueuedIsRow DEF Insert, Inserted, Queued, Call, IInv
        <4>2. Submitted' = Submitted
          BY <4>1 DEF IInv, TypeOK, Submitted, Recorded, NoRow
        <4>3. QED
          BY <1>1, <2>2, <4>2 DEF Insert, SubmittedAtHand
      <3>3. QED
        BY <3>1, <3>2
    <2>3. QED
      BY <2>1, <2>2
  <1>6. CASE UNCHANGED vars
    BY <1>2, <1>6 DEF vars
  <1>7. QED
    BY <1>3, <1>4, <1>5, <1>6 DEF Next

\* One signer, one nonce: until a fault, at most one claim is submitted and not yet settled.
THEOREM OneTransferIsAwaited == Spec => []OneAwaitsInclusion
  <1>1. Init => SubmittedAtHand
    BY DEF Init, SubmittedAtHand, Submitted, Recorded, NoRow
  <1>2. IInv /\ SubmittedAtHand /\ [Next]_vars => SubmittedAtHand'
    BY SubmittedNext
  <1>3. SubmittedAtHand => OneAwaitsInclusion
    <2>1. SubmittedAtHand /\ faults = 0 => Submitted = {} \/ Submitted = {worker.request}
      BY DEF SubmittedAtHand
    <2>2. ASSUME NEW S, S = {} \/ S = {worker.request} PROVE Cardinality(S) <= 1
      <3>1. Cardinality({}) = 0
        BY FS_EmptySet
      <3>2. Cardinality({worker.request}) = 1
        BY FS_Singleton
      <3>3. QED
        BY <2>2, <3>1, <3>2
    <2>3. QED
      BY <2>1, <2>2 DEF OneAwaitsInclusion, Submitted
  <1>4. QED
    BY <1>1, <1>2, <1>3, Invariance, PTL DEF Spec

-----------------------------------------------------------------------------
(* The funds behind it. *)

Awaited == {x \in Hash : tx[x].state = "pending"}

\* From the worker's look at the balance to the end of the wait, some transfer is to be covered.
Committed ==
  \/ worker.pc \in {"before", "send"}
  \/ worker.pc = "sending" /\ worker.hash = NoHash
  \/ Awaited # {}

Covered == \E reserve \in Reserves : hot >= Prize + reserve

FundsAtHand == faults = 0 /\ Stray = {} /\ Committed => Covered

\* The transfer that awaits its inclusion is the one in the worker's hand.
LEMMA AwaitedAtHand ==
  ASSUME IInv, SubmittedAtHand, faults = 0, Stray = {}, NEW x \in Awaited
  PROVE  \/ worker.pc = "sending" /\ x = worker.hash
         \/ worker.pc = "poll" /\ x = ledger[worker.request].hash
  <1>1. PICK r \in Request : r = tx[x].request /\ x \in Hash /\ x \in Sent(r) /\ tx[x] # NoTx
    BY DEF Awaited, IInv, TypeOK, Tx, NoTx, Sent
  <1>2. x \notin lost /\ ledger[r].status # "failed"
    BY <1>1 DEF Stray
  <1>3. r \in Recorded /\ (ledger[r].hash = x \/ worker.hash = x)
    BY <1>1, <1>2 DEF IInv, TransfersAccounted
  <1>4. CASE worker.hash = x
    BY <1>1, <1>4, HashAssumption DEF IInv, WorkerOnRow
  <1>5. CASE ledger[r].hash = x
    <2>1. ledger[r] \in Row /\ x # NoHash
      BY <1>1, <1>3, RowFacts, HashAssumption DEF IInv
    <2>2. ledger[r].status \in {"queued", "submitted", "included", "failed"}
      BY <2>1 DEF Row, Status
    <2>3. ledger[r].status # "queued"
      BY <1>3, <1>5, <2>1 DEF IInv, RowsFitTransfers
    <2>4. ledger[r].status # "included"
      BY <1>3, <1>5 DEF IInv, IncludedIsProven, Awaited
    <2>5. r \in Submitted
      BY <1>2, <1>3, <2>2, <2>3, <2>4 DEF Submitted
    <2>6. worker.pc \in {"poll", "after"} /\ r = worker.request
      BY <2>5 DEF SubmittedAtHand
    <2>7. worker.pc # "after"
      BY <1>5, <2>6 DEF IInv, WorkerOnRow, Awaited
    <2>8. QED
      BY <1>5, <2>6, <2>7
  <1>6. QED
    BY <1>3, <1>4, <1>5

\* What was lost or given up stays so.
LEMMA LostStays ==
  ASSUME IInv, [Next]_vars
  PROVE  lost \subseteq lost'
  <1>1. CASE Payout
    BY <1>1 DEF Payout, TakeNext, Wake, ReadFunds, ReadBefore, Send, SendOk, SendRpc,
       SendRefused, SendUnknown, PollIncluded, PollDeadline, ReadAfter
  <1>2. CASE World
    BY <1>2 DEF World, ServeStatus, LedgerError, Restart, Include, Drop, Outside, Tick
  <1>3. CASE \E h \in Handler : Handle(h)
    BY <1>3 DEF Handle, Post, CheckLimits, ReadHot, CheckFunds, Insert, ReadBack, Abandon
  <1>4. QED
    BY <1>1, <1>2, <1>3 DEF Next, vars

LEMMA FailedStays ==
  ASSUME IInv, Effect, NEW r \in Request, ledger[r].status = "failed"
  PROVE  ledger'[r].status = "failed"
  <1>1. r \in Recorded /\ ledger[r] \in Row
    BY RowFacts DEF IInv, Recorded
  <1>2. CASE SameRow(r)
    BY <1>1, <1>2 DEF SameRow, Row
  <1>3. ASSUME NEW q \in Request, Others(q),
               Accepts(q) \/ Pays(q) \/ Acknowledges(q) \/ Confirms(q) \/ GivesUp(q)
        PROVE  ledger'[r].status = "failed"
    <2>1. ledger[q] = NoRow \/ ledger[q].status \in {"queued", "submitted"}
      BY <1>3 DEF Accepts, Pays, Acknowledges, Confirms, GivesUp
    <2>2. q # r
      BY <2>1 DEF NoRow
    <2>3. QED
      BY <1>3, <2>2 DEF Others
  <1>4. QED
    BY <1>2, <1>3 DEF Effect, Settles

LEMMA StrayStays ==
  ASSUME IInv, [Next]_vars
  PROVE  Stray \subseteq Stray'
  <1> SUFFICES ASSUME NEW x \in Stray PROVE x \in Stray'
    OBVIOUS
  <1>1. x \in Hash
    BY DEF Stray
  <1>2. CASE x \in lost
    BY <1>1, <1>2, LostStays DEF Stray
  <1>3. CASE tx[x] # NoTx /\ ledger[tx[x].request].status = "failed"
    <2>1. PICK r \in Request : r = tx[x].request
      BY <1>1, <1>3 DEF IInv, TypeOK, Tx
    <2>2. ledger'[r].status = "failed"
      BY <1>3, <2>1, NextEffect, FailedStays
    <2>3. x \in Sent(r)'
      <3>1. x \in Sent(r)
        BY <1>1, <2>1 DEF Sent
      <3>2. Sent(r) \subseteq Sent(r)'
        BY NextEffect DEF Effect, Settles, SameRow, Others, Accepts, Pays, Acknowledges, Confirms,
           GivesUp
      <3>3. QED
        BY <3>1, <3>2
    <2>4. tx'[x].request = r
      BY <2>3 DEF Sent
    <2>5. tx'[x] # NoTx
      BY <2>4, RequestAssumption DEF NoTx
    <2>6. QED
      BY <1>1, <2>2, <2>4, <2>5 DEF Stray
  <1>4. QED
    BY <1>2, <1>3 DEF Stray

\* A step that leaves the balance alone, and commits the worker to nothing new.
LEMMA StillCovered ==
  ASSUME IInv, FundsAtHand, [Next]_vars, UNCHANGED hot, Committed' => Committed
  PROVE  FundsAtHand'
  BY FaultsGrow, StrayStays DEF FundsAtHand, Covered

LEMMA PayoutFunds ==
  ASSUME IInv, SubmittedAtHand, FundsAtHand, Payout
  PROVE  FundsAtHand'
  <1> USE DEF chain
  <1>1. worker \in Worker /\ Worker = Worker'
    BY DEF IInv, TypeOK, Worker
  <1>2. ASSUME UNCHANGED <<tx, hot>>, worker'.pc \notin {"before", "send", "sending"}
        PROVE  FundsAtHand'
    BY <1>2, StillCovered DEF Next, Committed, Awaited
  <1>3. ASSUME NEW code, Fail(code, Unread), UNCHANGED <<tx, hot>> PROVE FundsAtHand'
    BY <1>2, <1>3 DEF Fail, Idle
  <1>4. CASE TakeNext
    <2>1. \/ worker' \in {Idle, [Idle EXCEPT !.pc = "waiting"]}
          \/ \E r, at : worker' = [Idle EXCEPT !.request = r, !.pc = at] /\ at \in {"fund", "poll"}
      BY <1>4 DEF TakeNext
    <2>2. worker'.pc \in {"idle", "waiting", "fund", "poll"}
      <3>1. Idle.pc = "idle" /\ [Idle EXCEPT !.pc = "waiting"].pc = "waiting"
        BY DEF Idle
      <3>2. \A r, at : [Idle EXCEPT !.request = r, !.pc = at].pc = at
        BY DEF Idle
      <3>3. CASE worker' \in {Idle, [Idle EXCEPT !.pc = "waiting"]}
        BY <3>1, <3>3
      <3>4. CASE \E r, at : worker' = [Idle EXCEPT !.request = r, !.pc = at] /\ at \in {"fund", "poll"}
        <4>1. PICK r, at : worker' = [Idle EXCEPT !.request = r, !.pc = at] /\ at \in {"fund", "poll"}
          BY <3>4
        <4>2. worker'.pc = at
          BY <3>2, <4>1
        <4>3. QED
          BY <4>1, <4>2
      <3>5. QED
        BY <2>1, <3>3, <3>4
    <2>3. QED
      BY <1>2, <1>4, <2>2 DEF TakeNext
  <1>5. CASE Wake \/ SendOk \/ PollIncluded \/ ReadAfter
    <2>1. worker'.pc \in {"idle", "poll", "after"}
      <3>1. \/ worker' = Idle
            \/ worker' = [worker EXCEPT !.pc = "poll", !.hash = NoHash, !.attempt = 0]
            \/ worker' = [worker EXCEPT !.pc = "after"]
        BY <1>5 DEF Wake, SendOk, PollIncluded, ReadAfter, Fail
      <3>2. Idle.pc = "idle"
        BY DEF Idle
      <3>3. [worker EXCEPT !.pc = "after"].pc = "after"
        BY <1>1 DEF Worker
      <3>4. [worker EXCEPT !.pc = "poll", !.hash = NoHash, !.attempt = 0].pc = "poll"
        BY <1>1 DEF Worker
      <3>5. QED
        BY <3>1, <3>2, <3>3, <3>4
    <2>2. QED
      BY <1>2, <1>5, <2>1 DEF Wake, SendOk, PollIncluded, ReadAfter
  <1>6. CASE SendRefused \/ SendUnknown \/ PollDeadline
    <2>1. \E code : Fail(code, Unread)
      BY <1>6 DEF SendRefused, SendUnknown, PollDeadline
    <2>2. QED
      BY <1>3, <1>6, <2>1 DEF SendRefused, SendUnknown, PollDeadline
  <1>7. CASE ReadFunds
    <2>1. CASE \E code : Fail(code, Unread)
      BY <1>3, <1>7, <2>1 DEF ReadFunds
    <2>2. ASSUME ~ \E code : Fail(code, Unread) PROVE Covered'
      <3>1. PICK reserve \in Reserves : ~(hot < Prize + reserve) /\ UNCHANGED hot
        BY <1>7, <2>2 DEF ReadFunds
      <3>2. hot \in Nat /\ Prize + reserve \in Nat
        BY PrizeAssumption, ReservesAssumption DEF IInv, TypeOK
      <3>3. QED
        BY <3>1, <3>2 DEF Covered
    <2>3. QED
      BY <2>1, <2>2 DEF FundsAtHand
  <1>8. CASE ReadBefore
    <2>1. Committed
      BY <1>8 DEF ReadBefore, Committed
    <2>2. QED
      BY <1>8, <2>1, StillCovered DEF ReadBefore, Next
  <1>9. CASE Send
    <2>1. Committed
      BY <1>9 DEF Send, Committed
    <2>2. QED
      BY <1>9, <2>1, StillCovered DEF Send, Next
  <1>10. CASE SendRpc
    <2>1. CASE worker.hash = NoHash
      <3>1. Committed
        BY <1>10, <2>1 DEF SendRpc, Committed
      <3>2. QED
        BY <1>10, <3>1, StillCovered DEF SendRpc, Next
    <2>2. CASE worker.hash # NoHash
      <3>1. worker.hash \in lost' /\ worker.hash \in Hash
        BY <1>1, <1>10, <2>2 DEF SendRpc, Unwritten, Worker
      <3>2. QED
        BY <3>1 DEF FundsAtHand, Stray
    <2>3. QED
      BY <2>1, <2>2
  <1>11. QED
    BY <1>4, <1>5, <1>6, <1>7, <1>8, <1>9, <1>10 DEF Payout

\* When the awaited transfer is included nothing else is on its way.
LEMMA ChainFunds ==
  ASSUME IInv, SubmittedAtHand, FundsAtHand, NEW x \in Hash, Include(x) \/ Drop(x)
  PROVE  FundsAtHand'
  <1>1. x \in Awaited /\ UNCHANGED <<faults, worker, ledger>>
    BY DEF Include, Drop, Awaited
  <1>2. Next
    BY DEF Next, World
  <1>3. PICK s \in {"included", "dropped"} : tx' = [tx EXCEPT ![x].state = s]
    BY DEF Include, Drop
  <1>4. tx[x] \in Tx
    BY <1>1 DEF Awaited, IInv, TypeOK, NoTx
  <1>5. Awaited' = Awaited \ {x}
    <2>1. tx'[x].state = s /\ \A y \in Hash \ {x} : tx'[y] = tx[y]
      BY <1>3, <1>4 DEF IInv, TypeOK, Tx
    <2>2. QED
      BY <2>1 DEF Awaited
  <1>6. SUFFICES ASSUME faults = 0, Stray = {}, Committed' PROVE FALSE
    BY <1>1, <1>2, FaultsGrow, StrayStays DEF FundsAtHand
  <1>7. \A y \in Awaited : \/ worker.pc = "sending" /\ y = worker.hash
                           \/ worker.pc = "poll" /\ y = ledger[worker.request].hash
    BY <1>6, AwaitedAtHand
  <1>8. Awaited' = {}
    BY <1>1, <1>5, <1>7
  <1>9. QED
    BY <1>1, <1>6, <1>7, <1>8, HashAssumption DEF Committed, Awaited

LEMMA FundsNext ==
  ASSUME IInv, SubmittedAtHand, FundsAtHand, [Next]_vars
  PROVE  FundsAtHand'
  <1>1. CASE Payout
    BY <1>1, PayoutFunds
  <1>2. CASE UNCHANGED <<tx, hot, worker>>
    BY <1>2, StillCovered DEF Committed, Awaited
  <1>3. CASE LedgerError \/ Restart
    BY <1>3, FaultsGrow DEF FundsAtHand
  <1>4. CASE World
    BY <1>2, <1>3, <1>4, ChainFunds DEF World, ServeStatus, Outside, Tick, chain
  <1>5. CASE \E h \in Handler : Handle(h)
    BY <1>2, <1>5 DEF Handle, Post, CheckLimits, ReadHot, CheckFunds, Insert, ReadBack, Abandon,
       chain
  <1>6. QED
    BY <1>1, <1>2, <1>4, <1>5 DEF Next, vars

LEMMA FundsSuffice ==
  ASSUME IInv, SubmittedAtHand, FundsAtHand
  PROVE  FundsCoverTransfers
  <1> SUFFICES ASSUME faults = 0, Stray = {}, Cardinality(Awaited) > 0
               PROVE  \E reserve \in Reserves : hot >= Prize * Cardinality(Awaited) + reserve
    BY DEF FundsCoverTransfers, Awaited
  <1>1. PICK x : Awaited = {} \/ Awaited = {x}
    <2>1. \A y \in Awaited : \/ worker.pc = "sending" /\ y = worker.hash
                             \/ worker.pc = "poll" /\ y = ledger[worker.request].hash
      BY AwaitedAtHand
    <2>2. \A y, z \in Awaited : y = z
      BY <2>1
    <2>3. CASE Awaited = {}
      BY <2>3
    <2>4. ASSUME NEW y \in Awaited PROVE Awaited = {y}
      BY <2>2
    <2>5. QED
      BY <2>3, <2>4
  <1>2. Awaited # {}
    BY FS_EmptySet
  <1>3. Cardinality(Awaited) = 1
    BY <1>1, <1>2, FS_Singleton
  <1>4. Covered
    BY <1>2 DEF FundsAtHand, Committed
  <1>5. QED
    BY <1>3, <1>4, PrizeAssumption DEF Covered

\* What the worker sends is covered, prize and fee, whatever the intake counted on: until a
\* fault, and as long as no transfer was lost or given up.
THEOREM TransfersAreCovered == Spec => []FundsCoverTransfers
  <1>1. Init => SubmittedAtHand /\ FundsAtHand
    BY DEF Init, SubmittedAtHand, Submitted, Recorded, NoRow, FundsAtHand, Committed, Awaited,
       Idle, NoTx
  <1>2. IInv /\ SubmittedAtHand /\ FundsAtHand /\ [Next]_vars => SubmittedAtHand' /\ FundsAtHand'
    BY SubmittedNext, FundsNext
  <1>3. IInv /\ SubmittedAtHand /\ FundsAtHand => FundsCoverTransfers
    BY FundsSuffice
  <1>4. QED
    BY <1>1, <1>2, <1>3, Invariance, PTL DEF Spec

-----------------------------------------------------------------------------
(* The limits, up to the calls that race. *)

\* A call that has passed the limits and is not answered yet.
Racing(h) == handler[h].pc \in {"hot", "funds", "insert"}

\* The claims of some recipients and addresses that a window counts, and the calls that would
\* add to them.
RowsOf(A, I, t, length) ==
  {r \in Recorded : /\ ledger[r].recipient \in A /\ ledger[r].ip \in I
                    /\ Counted(ledger[r]) /\ ledger[r].created \in (t - length)..t}

CallsOf(A, I, t, length) ==
  {h \in Handler : /\ Racing(h) /\ handler[h].recipient \in A /\ handler[h].ip \in I
                   /\ handler[h].now \in (t - length)..t}

\* The call that was the last to pass the limits found less than the limit recorded, and all
\* that has been recorded since was recorded by the others.
Bounded(A, I, length, limit) ==
  \A t \in Nat :
    Cardinality(RowsOf(A, I, t, length)) + Cardinality(CallsOf(A, I, t, length))
      <= limit + Cardinality(Handler) - 1

CapInv ==
  /\ IsFiniteSet(Recorded)
  /\ \A a \in Recipient : Bounded({a}, Ip, Day, PerRecipient)
  /\ \A i \in Ip : Bounded(Recipient, {i}, Day, PerIp)
  /\ Bounded(Recipient, Ip, Hour, PerHour)
  /\ Bounded(Recipient, Ip, Day, PerDay)

LEMMA FiniteParts ==
  ASSUME IsFiniteSet(Recorded), NEW A, NEW I, NEW t, NEW length
  PROVE  /\ IsFiniteSet(RowsOf(A, I, t, length))
         /\ Cardinality(RowsOf(A, I, t, length)) \in Nat
         /\ IsFiniteSet(CallsOf(A, I, t, length))
         /\ Cardinality(CallsOf(A, I, t, length)) \in Nat
         /\ Cardinality(CallsOf(A, I, t, length)) <= Cardinality(Handler)
         /\ Cardinality(Handler) \in Nat \ {0}
  <1>1. RowsOf(A, I, t, length) \subseteq Recorded /\ CallsOf(A, I, t, length) \subseteq Handler
    BY DEF RowsOf, CallsOf
  <1>2. Cardinality(Handler) \in Nat \ {0}
    BY HandlerAssumption, FS_CardinalityType, FS_EmptySet
  <1>3. QED
    BY <1>1, <1>2, HandlerAssumption, FS_Subset, FS_CardinalityType

\* What settles a claim adds none, and leaves what the limits look at.
LEMMA SettledRow ==
  ASSUME IInv, Settles, NEW r \in Recorded'
  PROVE  /\ r \in Recorded
         /\ ledger'[r].recipient = ledger[r].recipient
         /\ ledger'[r].ip = ledger[r].ip
         /\ ledger'[r].created = ledger[r].created
         /\ Counted(ledger'[r]) => Counted(ledger[r])
  <1>1. r \in Request /\ ledger'[r].status # "none"
    BY DEF Recorded
  <1>2. r \in Recorded => ledger[r] \in Row
    BY RowFacts DEF IInv
  <1>3. CASE ledger'[r] = ledger[r]
    BY <1>1, <1>3 DEF Recorded
  <1>4. CASE SameRow(r)
    BY <1>1, <1>2, <1>3, <1>4 DEF SameRow, Row, Counted
  <1>5. CASE Pays(r)
    BY <1>3, <1>5 DEF Pays
  <1>6. CASE Acknowledges(r)
    BY <1>2, <1>6 DEF Acknowledges, Row, Counted
  <1>7. CASE Confirms(r)
    BY <1>2, <1>7 DEF Confirms, Row, Counted
  <1>8. CASE GivesUp(r)
    BY <1>2, <1>8 DEF GivesUp, Row, Counted
  <1>9. QED
    BY <1>1, <1>3, <1>4, <1>5, <1>6, <1>7, <1>8 DEF Settles, Others

\* A handler that no step admits past the limits.
CallStays(h) ==
  Racing(h)' => /\ Racing(h)
                /\ handler'[h].recipient = handler[h].recipient
                /\ handler'[h].ip = handler[h].ip
                /\ handler'[h].now = handler[h].now

LEMMA QuietStep ==
  ASSUME IInv, Settles, \A h \in Handler : CallStays(h), IsFiniteSet(Recorded),
         NEW A, NEW I, NEW length \in Nat, NEW limit \in Nat, Bounded(A, I, length, limit)
  PROVE  IsFiniteSet(Recorded)' /\ Bounded(A, I, length, limit)'
  <1>1. IsFiniteSet(Recorded')
    BY SettledRow, FS_Subset
  <1>2. ASSUME NEW t \in Nat
        PROVE  /\ RowsOf(A, I, t, length)' \subseteq RowsOf(A, I, t, length)
               /\ CallsOf(A, I, t, length)' \subseteq CallsOf(A, I, t, length)
    <2>1. RowsOf(A, I, t, length)' \subseteq RowsOf(A, I, t, length)
      BY SettledRow DEF RowsOf
    <2>2. CallsOf(A, I, t, length)' \subseteq CallsOf(A, I, t, length)
      BY DEF CallsOf, CallStays
    <2>3. QED
      BY <2>1, <2>2
  <1>3. ASSUME NEW t \in Nat
        PROVE  Cardinality(RowsOf(A, I, t, length)') + Cardinality(CallsOf(A, I, t, length)')
                 <= limit + Cardinality(Handler) - 1
    <2>1. /\ Cardinality(RowsOf(A, I, t, length)') \in Nat
          /\ Cardinality(CallsOf(A, I, t, length)') \in Nat
          /\ Cardinality(RowsOf(A, I, t, length)') <= Cardinality(RowsOf(A, I, t, length))
          /\ Cardinality(CallsOf(A, I, t, length)') <= Cardinality(CallsOf(A, I, t, length))
      BY <1>2, FiniteParts, FS_Subset, FS_CardinalityType
    <2>2. Cardinality(RowsOf(A, I, t, length)) + Cardinality(CallsOf(A, I, t, length))
            <= limit + Cardinality(Handler) - 1
      BY DEF Bounded
    <2>3. QED
      BY <2>1, <2>2, FiniteParts
  <1>4. QED
    BY <1>1, <1>3 DEF Bounded

\* The claims a limit counts when it is checked.
RowsSince(A, I, since) ==
  {r \in Recorded : /\ ledger[r].recipient \in A /\ ledger[r].ip \in I
                    /\ Counted(ledger[r]) /\ ledger[r].created >= since}

\* A call passes the limits: it finds less than the limit, and the calls cannot be more than
\* the handlers.
LEMMA AdmitStep ==
  ASSUME IInv, NEW h \in Handler, CheckLimits(h), handler'[h].pc = "hot", IsFiniteSet(Recorded),
         NEW A, NEW I, NEW length \in Nat, NEW limit \in Nat, Bounded(A, I, length, limit),
         handler[h].recipient \in A /\ handler[h].ip \in I
           => Cardinality(RowsSince(A, I, clock - length)) < limit
  PROVE  IsFiniteSet(Recorded)' /\ Bounded(A, I, length, limit)'
  <1>1. UNCHANGED ledger /\ handler[h] \in Call /\ clock \in Nat
    BY CallFacts DEF CheckLimits, IInv, TypeOK
  <1>2. handler' = [handler EXCEPT ![h].pc = "hot", ![h].now = clock]
    BY DEF CheckLimits, Refuse, NoCall, IInv, TypeOK
  <1>3. /\ handler'[h].recipient = handler[h].recipient /\ handler'[h].ip = handler[h].ip
        /\ handler'[h].now = clock
        /\ \A k \in Handler \ {h} : handler'[k] = handler[k]
    BY <1>1, <1>2 DEF IInv, TypeOK, Call
  <1>4. Recorded' = Recorded /\ \A t : RowsOf(A, I, t, length)' = RowsOf(A, I, t, length)
    BY <1>1 DEF Recorded, RowsOf
  <1>5. ASSUME NEW t \in Nat
        PROVE  Cardinality(RowsOf(A, I, t, length)') + Cardinality(CallsOf(A, I, t, length)')
                 <= limit + Cardinality(Handler) - 1
    <2>1. CASE h \in CallsOf(A, I, t, length)'
      <3>1. /\ handler[h].recipient \in A /\ handler[h].ip \in I
            /\ clock \in (t - length)..t
        BY <1>3, <2>1 DEF CallsOf
      <3>2. RowsOf(A, I, t, length) \subseteq RowsSince(A, I, clock - length)
        <4>1. ASSUME NEW c \in (t - length)..t PROVE c >= clock - length
          BY <1>1, <3>1, <4>1
        <4>2. QED
          BY <4>1 DEF RowsOf, RowsSince
      <3>3. RowsSince(A, I, clock - length) \subseteq Recorded
        BY DEF RowsSince
      <3>4. /\ Cardinality(RowsSince(A, I, clock - length)) \in Nat
            /\ Cardinality(RowsOf(A, I, t, length))
                 <= Cardinality(RowsSince(A, I, clock - length))
        BY <3>2, <3>3, FS_Subset, FS_CardinalityType
      <3>5. CallsOf(A, I, t, length)' \subseteq Handler
        BY DEF CallsOf
      <3>6. /\ Cardinality(CallsOf(A, I, t, length)') \in Nat
            /\ Cardinality(CallsOf(A, I, t, length)') <= Cardinality(Handler)
        BY <3>5, HandlerAssumption, FS_Subset, FS_CardinalityType
      <3>7. QED
        BY <1>4, <3>1, <3>4, <3>6, FiniteParts
    <2>2. CASE h \notin CallsOf(A, I, t, length)'
      <3>1. CallsOf(A, I, t, length)' \subseteq CallsOf(A, I, t, length)
        BY <1>3, <2>2 DEF CallsOf, Racing
      <3>2. /\ Cardinality(CallsOf(A, I, t, length)') \in Nat
            /\ Cardinality(CallsOf(A, I, t, length)') <= Cardinality(CallsOf(A, I, t, length))
        BY <3>1, FiniteParts, FS_Subset, FS_CardinalityType
      <3>3. Cardinality(RowsOf(A, I, t, length)) + Cardinality(CallsOf(A, I, t, length))
              <= limit + Cardinality(Handler) - 1
        BY DEF Bounded
      <3>4. QED
        BY <1>4, <3>2, <3>3, FiniteParts
    <2>3. QED
      BY <2>1, <2>2
  <1>6. QED
    BY <1>4, <1>5 DEF Bounded

\* A call becomes the row it recorded.
LEMMA RecordStep ==
  ASSUME IInv, NEW h \in Handler, Insert(h), ~UNCHANGED ledger, IsFiniteSet(Recorded),
         NEW A, NEW I, NEW length \in Nat, NEW limit \in Nat, Bounded(A, I, length, limit)
  PROVE  IsFiniteSet(Recorded)' /\ Bounded(A, I, length, limit)'
  <1>1. PICK call \in Call : call = handler[h]
    BY CallFacts DEF Insert, IInv
  <1>2. PICK r \in Request :
          /\ r = call.request /\ ledger[r] = NoRow
          /\ ledger' = [ledger EXCEPT ![r] = Queued(call.recipient, call.ip, call.now)]
          /\ handler' = [handler EXCEPT ![h] = [pc |-> "inserted", request |-> r,
                                                recipient |-> call.recipient]]
    BY <1>1 DEF Insert, Inserted, Call
  <1>3. /\ ledger'[r] = Queued(call.recipient, call.ip, call.now)
        /\ \A q \in Request \ {r} : ledger'[q] = ledger[q]
    BY <1>2 DEF IInv, TypeOK
  <1>4. /\ ledger'[r].status = "queued" /\ Counted(ledger'[r])
        /\ ledger'[r].recipient = call.recipient /\ ledger'[r].ip = call.ip
        /\ ledger'[r].created = call.now
    BY <1>3 DEF Queued, Counted
  <1>5. r \notin Recorded /\ Recorded' = Recorded \cup {r}
    BY <1>2, <1>3, <1>4, NoRowFacts DEF Recorded, IInv
  <1>6. IsFiniteSet(Recorded')
    BY <1>5, FS_AddElement
  <1>7. ~Racing(h)' /\ Racing(h) /\ \A k \in Handler \ {h} : handler'[k] = handler[k]
    BY <1>2 DEF Racing, Insert, IInv, TypeOK
  <1>8. ASSUME NEW t \in Nat
        PROVE  Cardinality(RowsOf(A, I, t, length)') + Cardinality(CallsOf(A, I, t, length)')
                 <= limit + Cardinality(Handler) - 1
    <2>1. CallsOf(A, I, t, length)' = CallsOf(A, I, t, length) \ {h}
      BY <1>7 DEF CallsOf, Racing
    <2>2. Cardinality(RowsOf(A, I, t, length)) + Cardinality(CallsOf(A, I, t, length))
            <= limit + Cardinality(Handler) - 1
      BY DEF Bounded
    <2>3. CASE h \in CallsOf(A, I, t, length)
      <3>1. RowsOf(A, I, t, length)' = RowsOf(A, I, t, length) \cup {r}
        BY <1>1, <1>3, <1>4, <1>5, <2>3 DEF RowsOf, CallsOf, Recorded
      <3>2. r \notin RowsOf(A, I, t, length)
        BY <1>5 DEF RowsOf
      <3>3. Cardinality(RowsOf(A, I, t, length)') = Cardinality(RowsOf(A, I, t, length)) + 1
        BY <3>1, <3>2, FiniteParts, FS_AddElement
      <3>4. Cardinality(CallsOf(A, I, t, length)') = Cardinality(CallsOf(A, I, t, length)) - 1
        <4>1. IsFiniteSet(CallsOf(A, I, t, length))
          BY FiniteParts
        <4>2. Cardinality(CallsOf(A, I, t, length) \ {h}) = Cardinality(CallsOf(A, I, t, length)) - 1
          BY <2>3, <4>1, FS_RemoveElement
        <4>3. QED
          BY <2>1, <4>2
      <3>5. QED
        BY <2>2, <3>3, <3>4, FiniteParts
    <2>4. CASE h \notin CallsOf(A, I, t, length)
      <3>1. RowsOf(A, I, t, length)' = RowsOf(A, I, t, length)
        BY <1>1, <1>3, <1>4, <1>5, <1>7, <2>4 DEF RowsOf, CallsOf, Recorded
      <3>2. CallsOf(A, I, t, length)' = CallsOf(A, I, t, length)
        BY <2>1, <2>4
      <3>3. QED
        BY <2>2, <3>1, <3>2
    <2>5. QED
      BY <2>3, <2>4
  <1>9. QED
    BY <1>6, <1>8 DEF Bounded

\* The calls of a step: none comes to race but by passing the limits.
LEMMA HandleStays ==
  ASSUME IInv, NEW h \in Handler, Handle(h), ~(CheckLimits(h) /\ handler'[h].pc = "hot")
  PROVE  \A k \in Handler : CallStays(k)
  <1>1. \A k \in Handler \ {h} : handler'[k] = handler[k]
    BY DEF Handle, Post, CheckLimits, ReadHot, CheckFunds, Insert, Inserted, ReadBack, Abandon,
       Refuse, Answer, IInv, TypeOK
  <1> SUFFICES CallStays(h)
    BY <1>1 DEF CallStays, Racing
  <1>2. CASE Refuse(h)
    BY <1>2 DEF Refuse, NoCall, CallStays, Racing, IInv, TypeOK
  <1>3. ASSUME NEW r, NEW a, Answer(h, r, a) PROVE CallStays(h)
    BY <1>3 DEF Answer, CallStays, Racing, IInv, TypeOK
  <1>4. CASE Post(h)
    <2>1. \/ Refuse(h)
          \/ \E r, a : Answer(h, r, a)
          \/ \E r, a, i : handler' = [handler EXCEPT ![h] = [pc |-> "limits", request |-> r,
                            recipient |-> a, ip |-> i, now |-> 0, hot |-> Unread]]
      BY <1>4 DEF Post
    <2>2. ASSUME NEW r, NEW a, NEW i,
                 handler' = [handler EXCEPT ![h] = [pc |-> "limits", request |-> r,
                               recipient |-> a, ip |-> i, now |-> 0, hot |-> Unread]]
          PROVE  CallStays(h)
      <3>1. handler'[h].pc = "limits"
        BY <2>2 DEF IInv, TypeOK
      <3>2. ~Racing(h)'
        BY <3>1 DEF Racing
      <3>3. QED
        BY <3>2 DEF CallStays
    <2>3. QED
      BY <1>2, <1>3, <2>1, <2>2
  <1>5. CASE CheckLimits(h)
    <2>1. handler[h] \in Call
      BY <1>5, CallFacts DEF CheckLimits, IInv
    <2>2. [handler[h] EXCEPT !.pc = "hot", !.now = clock].pc = "hot"
      BY <2>1 DEF Call
    <2>3. Refuse(h)
      BY <1>5, <2>2 DEF CheckLimits, IInv, TypeOK
    <2>4. QED
      BY <1>2, <2>3
  <1>6. CASE ReadHot(h) \/ CheckFunds(h)
    <2>1. handler[h] \in Call /\ Racing(h)
      BY <1>6, CallFacts DEF ReadHot, CheckFunds, IInv, Racing
    <2>2. \/ Refuse(h)
          \/ \E b : handler' = [handler EXCEPT ![h].pc = "funds", ![h].hot = b]
          \/ handler' = [handler EXCEPT ![h].pc = "insert"]
      BY <1>6 DEF ReadHot, CheckFunds
    <2>3. ASSUME NEW b, handler' = [handler EXCEPT ![h].pc = "funds", ![h].hot = b]
          PROVE  CallStays(h)
      <3>1. handler'[h] = [handler[h] EXCEPT !.pc = "funds", !.hot = b]
        BY <2>3 DEF IInv, TypeOK
      <3>2. QED
        BY <2>1, <3>1 DEF CallStays, Call
    <2>4. CASE handler' = [handler EXCEPT ![h].pc = "insert"]
      <3>1. handler'[h] = [handler[h] EXCEPT !.pc = "insert"]
        BY <2>4 DEF IInv, TypeOK
      <3>2. QED
        BY <2>1, <3>1 DEF CallStays, Call
    <2>5. QED
      BY <1>2, <2>2, <2>3, <2>4
  <1>7. CASE Insert(h)
    <2>1. Refuse(h) \/ Inserted(h) \/ \E r, a : Answer(h, r, a)
      BY <1>7 DEF Insert
    <2>2. Inserted(h) => CallStays(h)
      BY DEF Inserted, CallStays, Racing, IInv, TypeOK
    <2>3. QED
      BY <1>2, <1>3, <2>1, <2>2
  <1>8. CASE Abandon(h)
    BY <1>2, <1>8 DEF Abandon
  <1>9. CASE ReadBack(h)
    BY <1>2, <1>3, <1>9 DEF ReadBack
  <1>10. QED
    BY <1>4, <1>5, <1>6, <1>7, <1>8, <1>9 DEF Handle

\* A call that passes the limits found less than each of them.
LEMMA AdmittedWithin ==
  ASSUME IInv, NEW h \in Handler, CheckLimits(h), handler'[h].pc = "hot"
  PROVE  /\ Cardinality(RowsSince({handler[h].recipient}, Ip, clock - Day)) < PerRecipient
         /\ Cardinality(RowsSince(Recipient, {handler[h].ip}, clock - Day)) < PerIp
         /\ Cardinality(RowsSince(Recipient, Ip, clock - Hour)) < PerHour
         /\ Cardinality(RowsSince(Recipient, Ip, clock - Day)) < PerDay
  <1>1. WithinLimits(handler[h].recipient, handler[h].ip, clock)
    BY DEF CheckLimits, Refuse, NoCall, IInv, TypeOK
  <1>2. \A r \in Recorded : ledger[r].recipient \in Recipient /\ ledger[r].ip \in Ip
    BY RowFacts DEF IInv, Row
  <1>3. \A a : RowsSince({a}, Ip, clock - Day) =
                 {r \in OfRecipient(a) : Counted(ledger[r]) /\ ledger[r].created >= clock - Day}
    BY <1>2 DEF RowsSince, OfRecipient
  <1>4. \A i : RowsSince(Recipient, {i}, clock - Day) =
                 {r \in OfIp(i) : Counted(ledger[r]) /\ ledger[r].created >= clock - Day}
    BY <1>2 DEF RowsSince, OfIp
  <1>5. \A length : RowsSince(Recipient, Ip, clock - length) =
                      {r \in Recorded : Counted(ledger[r]) /\ ledger[r].created >= clock - length}
    BY <1>2 DEF RowsSince
  <1>6. QED
    BY <1>1, <1>3, <1>4, <1>5 DEF WithinLimits, CountSince

\* What a step does to the rows and calls that the limits look at.
LEMMA StepKinds ==
  ASSUME IInv, [Next]_vars
  PROVE  \/ \E h \in Handler : CheckLimits(h) /\ handler'[h].pc = "hot"
         \/ \E h \in Handler : Insert(h) /\ ~UNCHANGED ledger
         \/ Settles /\ \A h \in Handler : CallStays(h)
  <1>1. ASSUME NEW h \in Handler, Handle(h), ~(CheckLimits(h) /\ handler'[h].pc = "hot"),
               ~(Insert(h) /\ ~UNCHANGED ledger)
        PROVE  Settles /\ \A k \in Handler : CallStays(k)
    <2>1. CASE Insert(h)
      <3>1. Settles
        BY <1>1, <2>1, StillEffect DEF Insert, chain
      <3>2. QED
        BY <1>1, <3>1, HandleStays
    <2>2. CASE ~Insert(h)
      <3>1. Settles
        BY <1>1, <2>2, ReadingCalls, StillEffect DEF Handle
      <3>2. QED
        BY <1>1, <3>1, HandleStays
    <2>3. QED
      BY <2>1, <2>2
  <1>2. CASE Payout \/ World \/ UNCHANGED vars
    <2>1. \A h \in Handler : CallStays(h)
      <3>1. CASE Restart
        BY <3>1 DEF Restart, CallStays, Racing, NoCall
      <3>2. CASE UNCHANGED handler
        BY <3>2 DEF CallStays, Racing
      <3>3. Payout \/ World \/ UNCHANGED vars => Restart \/ UNCHANGED handler
        BY DEF Payout, World, TakeNext, Wake, ReadFunds, ReadBefore, Send, SendOk, SendRpc,
           SendRefused, SendUnknown, PollIncluded, PollDeadline, ReadAfter, ServeStatus,
           LedgerError, Include, Drop, Outside, Tick, vars
      <3>4. QED
        BY <1>2, <3>1, <3>2, <3>3
    <2>2. Settles
      <3>1. CASE Payout
        BY <3>1, PayoutEffect
      <3>2. CASE World
        BY <3>2, WorldEffect
      <3>3. CASE UNCHANGED vars
        BY <3>3, StillEffect DEF vars
      <3>4. QED
        BY <1>2, <3>1, <3>2, <3>3
    <2>3. QED
      BY <2>1, <2>2
  <1>3. QED
    BY <1>1, <1>2 DEF Next

LEMMA CapInit ==
  ASSUME Init
  PROVE  CapInv
  <1>1. Recorded = {} /\ \A h \in Handler : ~Racing(h)
    BY DEF Init, Recorded, NoRow, Racing, NoCall
  <1>2. \A A, I, t, length : RowsOf(A, I, t, length) = {} /\ CallsOf(A, I, t, length) = {}
    BY <1>1 DEF RowsOf, CallsOf
  <1>3. Cardinality(Handler) \in Nat \ {0} /\ Cardinality({}) = 0 /\ IsFiniteSet({})
    BY HandlerAssumption, FS_CardinalityType, FS_EmptySet
  <1>4. ASSUME NEW A, NEW I, NEW length, NEW limit \in Nat PROVE Bounded(A, I, length, limit)
    <2>1. 0 + 0 <= limit + Cardinality(Handler) - 1
      BY <1>3
    <2>2. QED
      BY <1>2, <1>3, <2>1 DEF Bounded
  <1>5. QED
    BY <1>1, <1>3, <1>4, LimitsAssumption DEF CapInv

LEMMA CapNext ==
  ASSUME IInv, CapInv, [Next]_vars
  PROVE  CapInv'
  <1> USE WindowAssumption, LimitsAssumption
  <1>1. ASSUME NEW h \in Handler, CheckLimits(h), handler'[h].pc = "hot"
        PROVE  CapInv'
    <2>1. \A a \in Recipient : IsFiniteSet(Recorded)' /\ Bounded({a}, Ip, Day, PerRecipient)'
      BY <1>1, AdmittedWithin, AdmitStep DEF CapInv
    <2>2. \A i \in Ip : Bounded(Recipient, {i}, Day, PerIp)'
      BY <1>1, AdmittedWithin, AdmitStep DEF CapInv
    <2>3. /\ IsFiniteSet(Recorded)' /\ Bounded(Recipient, Ip, Hour, PerHour)'
          /\ Bounded(Recipient, Ip, Day, PerDay)'
      BY <1>1, AdmittedWithin, AdmitStep DEF CapInv
    <2>4. QED
      BY <2>1, <2>2, <2>3 DEF CapInv
  <1>2. ASSUME NEW h \in Handler, Insert(h), ~UNCHANGED ledger
        PROVE  CapInv'
    BY <1>2, RecordStep DEF CapInv
  <1>3. ASSUME Settles, \A h \in Handler : CallStays(h)
        PROVE  CapInv'
    BY <1>3, QuietStep DEF CapInv
  <1>4. QED
    BY <1>1, <1>2, <1>3, StepKinds

\* Every window holds at most the limit and one claim for each other handler: the calls that
\* race each other past check_limits are all that a limit can be exceeded by.
THEOREM LimitsHoldUpToRaces == Spec => []CapsHoldUpToRaces
  <1>1. Init => CapInv
    BY CapInit
  <1>2. IInv /\ CapInv /\ [Next]_vars => CapInv'
    BY CapNext
  <1>3. IInv /\ CapInv => CapsHoldUpToRaces
    <2> SUFFICES ASSUME IInv, CapInv PROVE CapsHoldUpToRaces
      OBVIOUS
    <2>1. \A r \in Recorded : ledger[r].recipient \in Recipient /\ ledger[r].ip \in Ip
      BY RowFacts DEF IInv, Row
    <2>2. ASSUME NEW A, NEW I, NEW length, NEW limit \in Nat, Bounded(A, I, length, limit),
                 NEW t \in Nat
          PROVE  Cardinality(RowsOf(A, I, t, length)) <= limit + (Cardinality(Handler) - 1)
      BY <2>2, FiniteParts DEF Bounded, CapInv
    <2>3. \A a, t, length : RowsOf({a}, Ip, t, length) =
            {r \in OfRecipient(a) : Counted(ledger[r]) /\ ledger[r].created \in (t - length)..t}
      BY <2>1 DEF RowsOf, OfRecipient
    <2>4. \A i, t, length : RowsOf(Recipient, {i}, t, length) =
            {r \in OfIp(i) : Counted(ledger[r]) /\ ledger[r].created \in (t - length)..t}
      BY <2>1 DEF RowsOf, OfIp
    <2>5. \A t, length : RowsOf(Recipient, Ip, t, length) =
            {r \in Recorded : Counted(ledger[r]) /\ ledger[r].created \in (t - length)..t}
      BY <2>1 DEF RowsOf
    <2>6. ASSUME NEW t \in 0..MaxTime
          PROVE  /\ \A a \in Recipient :
                      InWindow(OfRecipient(a), t, Day) <= PerRecipient + (Cardinality(Handler) - 1)
                 /\ \A i \in Ip :
                      InWindow(OfIp(i), t, Day) <= PerIp + (Cardinality(Handler) - 1)
                 /\ InWindow(Recorded, t, Hour) <= PerHour + (Cardinality(Handler) - 1)
                 /\ InWindow(Recorded, t, Day) <= PerDay + (Cardinality(Handler) - 1)
      <3>1. t \in Nat
        BY BoundsAssumption
      <3>2. ASSUME NEW a \in Recipient
            PROVE  InWindow(OfRecipient(a), t, Day) <= PerRecipient + (Cardinality(Handler) - 1)
        <4>1. Cardinality(RowsOf({a}, Ip, t, Day)) <= PerRecipient + (Cardinality(Handler) - 1)
          BY <2>2, <3>1, LimitsAssumption DEF CapInv
        <4>2. QED
          BY <2>3, <4>1 DEF InWindow
      <3>3. ASSUME NEW i \in Ip
            PROVE  InWindow(OfIp(i), t, Day) <= PerIp + (Cardinality(Handler) - 1)
        <4>1. Cardinality(RowsOf(Recipient, {i}, t, Day)) <= PerIp + (Cardinality(Handler) - 1)
          BY <2>2, <3>1, LimitsAssumption DEF CapInv
        <4>2. QED
          BY <2>4, <4>1 DEF InWindow
      <3>4. /\ Cardinality(RowsOf(Recipient, Ip, t, Hour)) <= PerHour + (Cardinality(Handler) - 1)
            /\ Cardinality(RowsOf(Recipient, Ip, t, Day)) <= PerDay + (Cardinality(Handler) - 1)
        BY <2>2, <3>1, LimitsAssumption DEF CapInv
      <3>5. QED
        BY <2>5, <3>2, <3>3, <3>4 DEF InWindow
    <2>7. QED
      BY <2>6 DEF CapsHoldUpToRaces
  <1>4. QED
    BY <1>1, <1>2, <1>3, Invariance, PTL DEF Spec

-----------------------------------------------------------------------------
(* What those are told that a limit refuses. *)

\* The time of a claim is past, however late it is inserted.
InThePast ==
  /\ \A r \in Recorded : ledger[r].created <= clock
  /\ \A h \in Handler : Racing(h) => handler[h].now <= clock

LEMMA ClockGrows ==
  ASSUME IInv, [Next]_vars
  PROVE  clock \in Nat /\ clock' \in Nat /\ clock <= clock'
  <1>1. clock \in Nat
    BY DEF IInv, TypeOK
  <1>2. clock' = clock \/ clock' = clock + 1
    <2>1. CASE Payout
      BY <2>1 DEF Payout, TakeNext, Wake, ReadFunds, ReadBefore, Send, SendOk, SendRpc,
         SendRefused, SendUnknown, PollIncluded, PollDeadline, ReadAfter
    <2>2. CASE World
      BY <2>2 DEF World, ServeStatus, LedgerError, Restart, Include, Drop, Outside, Tick
    <2>3. CASE \E h \in Handler : Handle(h)
      BY <2>3 DEF Handle, Post, CheckLimits, ReadHot, CheckFunds, Insert, ReadBack, Abandon
    <2>4. QED
      BY <2>1, <2>2, <2>3 DEF Next, vars
  <1>3. QED
    BY <1>1, <1>2

LEMMA PastNext ==
  ASSUME IInv, InThePast, [Next]_vars
  PROVE  InThePast'
  <1>1. clock \in Nat /\ clock' \in Nat /\ clock <= clock'
    BY ClockGrows
  <1>2. /\ \A r \in Recorded : ledger[r].created \in Nat
        /\ \A h \in Handler : Racing(h) => handler[h].now \in Nat
    BY RowFacts, CallFacts DEF IInv, Row, Racing, Call
  <1>3. ASSUME NEW h \in Handler, CheckLimits(h), handler'[h].pc = "hot"
        PROVE  InThePast'
    <2>1. UNCHANGED <<ledger, clock>> /\ handler[h] \in Call
      BY <1>3, CallFacts DEF CheckLimits, IInv
    <2>2. handler' = [handler EXCEPT ![h].pc = "hot", ![h].now = clock]
      BY <1>3 DEF CheckLimits, Refuse, NoCall, IInv, TypeOK
    <2>3. handler'[h].now = clock /\ \A k \in Handler \ {h} : handler'[k] = handler[k]
      BY <2>1, <2>2 DEF IInv, TypeOK, Call
    <2>4. QED
      BY <1>1, <2>1, <2>3 DEF InThePast, Racing, Recorded
  <1>4. ASSUME NEW h \in Handler, Insert(h), ~UNCHANGED ledger
        PROVE  InThePast'
    <2>1. handler[h] \in Call /\ Racing(h) /\ UNCHANGED clock
      BY <1>4, CallFacts DEF Insert, IInv, Racing
    <2>2. PICK r \in Request, row \in Row :
            /\ row.created = handler[h].now
            /\ ledger' = [ledger EXCEPT ![r] = row]
      BY <1>4, <2>1, QueuedIsRow DEF Insert, Inserted, Queued, Call
    <2>3. \A q \in Recorded' : \/ q \in Recorded /\ ledger'[q] = ledger[q]
                               \/ ledger'[q].created = handler[h].now
      BY <2>2 DEF IInv, TypeOK, Recorded
    <2>4. \A k \in Handler : CallStays(k)
      BY <1>4, HandleStays DEF Handle, Insert, CheckLimits
    <2>5. QED
      BY <2>1, <2>3, <2>4 DEF InThePast, CallStays
  <1>5. ASSUME Settles, \A h \in Handler : CallStays(h)
        PROVE  InThePast'
    <2>1. \A r \in Recorded' : r \in Recorded /\ ledger'[r].created = ledger[r].created
      BY <1>5, SettledRow
    <2>2. \A r \in Recorded' : ledger'[r].created <= clock'
      BY <1>1, <1>2, <2>1 DEF InThePast
    <2>3. \A h \in Handler : Racing(h)' => handler'[h].now <= clock'
      BY <1>1, <1>2, <1>5 DEF InThePast, CallStays
    <2>4. QED
      BY <2>2, <2>3 DEF InThePast
  <1>6. QED
    BY <1>3, <1>4, <1>5, StepKinds

\* Division, as the advice uses it.
LEMMA WholeParts ==
  ASSUME NEW n \in Nat, NEW d \in Nat \ {0}
  PROVE  /\ n \div d \in Nat /\ n % d \in 0..(d - 1)
         /\ n = d * (n \div d) + (n % d)
  <1>1. n \div d \in Int
    OBVIOUS
  <1>2. n % d \in 0..(d - 1)
    OBVIOUS
  <1>3. n = d * (n \div d) + (n % d)
    OBVIOUS
  <1>4. n \div d >= 0
    OBVIOUS
  <1>5. QED
    BY <1>1, <1>2, <1>3, <1>4

\* The smallest member of a set of numbers: of its initial segments, the least.
LEMMA LeastNumber ==
  ASSUME NEW S \in SUBSET Nat, S # {}
  PROVE  \E m \in S : \A n \in S : m <= n
  <1> DEFINE Below == {0..m : m \in S}
  <1>1. Below \subseteq FiniteSubsetsOf(Nat) /\ Below # {}
    <2>1. ASSUME NEW m \in S PROVE 0..m \in SUBSET Nat /\ IsFiniteSet(0..m)
      BY FS_Interval
    <2>2. QED
      BY <2>1 DEF FiniteSubsetsOf
  <1>2. PICK B \in Below : \A C \in Below : <<C, B>> \notin StrictSubsetOrdering(Nat)
    BY <1>1, FS_StrictSubsetOrderingWellFounded, WFMin
  <1>3. PICK m \in S : B = 0..m
    OBVIOUS
  <1>4. ASSUME NEW n \in S, n < m PROVE FALSE
    <2>1. 0..n \in Below /\ 0..n \subseteq 0..m /\ m \in 0..m /\ m \notin 0..n
      BY <1>4
    <2>2. 0..n \subseteq Nat /\ 0..m \subseteq Nat /\ 0..n # 0..m
      BY <2>1
    <2>3. <<0..n, 0..m>> \in StrictSubsetOrdering(Nat)
      BY <2>1, <2>2 DEF StrictSubsetOrdering
    <2>4. QED
      BY <1>2, <1>3, <2>1, <2>3
  <1>5. QED
    BY <1>4

\* What the retry header says of a limit is enough to wait, and a whole second less is not.
LEMMA RetryIsExact ==
  ASSUME NEW oldest \in Int, NEW window \in Nat, NEW now \in Nat, oldest >= now - window
  PROVE  LET advice == RetryAfter(oldest, window, now) IN
         /\ advice \in Nat \ {0}
         /\ now + Second * advice - window >= oldest
         /\ advice > 1 => now + Second * advice - Second - window < oldest
  <1>1. PICK until \in Nat : until = oldest + window - now
    OBVIOUS
  <1>2. PICK secs \in Nat, rest \in 0..(Second - 1) :
          secs = until \div Second /\ rest = until % Second /\ until = Second * secs + rest
    BY SecondAssumption, WholeParts
  <1>3. RetryAfter(oldest, window, now) =
          IF secs <= 0 THEN 1 ELSE IF rest > 0 THEN secs + 1 ELSE secs
    BY <1>1, <1>2 DEF RetryAfter
  <1>4. Second * secs \in Nat /\ Second * (secs + 1) = Second * secs + Second /\ Second * 1 = Second
    BY SecondAssumption
  <1>5. CASE secs <= 0
    <2>1. secs = 0 /\ Second * secs = 0
      BY <1>5, SecondAssumption
    <2>2. QED
      BY <1>1, <1>2, <1>3, <1>4, <2>1, SecondAssumption
  <1>6. CASE secs > 0 /\ rest > 0
    BY <1>1, <1>2, <1>3, <1>4, <1>6, SecondAssumption
  <1>7. CASE secs > 0 /\ rest = 0
    BY <1>1, <1>2, <1>3, <1>4, <1>7, SecondAssumption
  <1>8. QED
    BY <1>2, <1>5, <1>6, <1>7, SecondAssumption

\* A limit that is just reached: what it counts is a finite set of claims, the oldest of them
\* first.
LEMMA OldestIsCounted ==
  ASSUME IInv, InThePast, IsFiniteSet(Recorded), NEW scope \in SUBSET Recorded,
         NEW window \in Nat, CountSince(scope, clock - window) > 0
  PROVE  \E r \in scope :
           /\ Counted(ledger[r]) /\ ledger[r].created >= clock - window
           /\ ledger[r].created = OldestSince(scope, clock - window, clock)
           /\ \A q \in scope : Counted(ledger[q]) /\ ledger[q].created >= clock - window
                                 => ledger[q].created >= ledger[r].created
  <1> DEFINE S == {q \in scope : Counted(ledger[q]) /\ ledger[q].created >= clock - window}
             T == {ledger[r].created : r \in S}
  <1>1. \A q \in scope : ledger[q].created \in Nat /\ ledger[q].created <= clock
    BY RowFacts DEF IInv, Row, InThePast
  <1>2. S # {}
    BY FS_EmptySet DEF CountSince
  <1>3. T \in SUBSET Nat /\ T # {} /\ \A t \in T : t <= clock
    BY <1>1, <1>2
  <1>4. PICK m \in T : \A n \in T : m <= n
    <2> HIDE DEF T
    <2> QED BY <1>3, LeastNumber
  <1>5. PICK r \in S : m = ledger[r].created
    OBVIOUS
  <1>6. OldestSince(scope, clock - window, clock) = m
    <2>1. OldestSince(scope, clock - window, clock) = Min(T \cup {clock})
      BY DEF OldestSince
    <2>2. clock \in Nat
      BY DEF IInv, TypeOK
    <2> HIDE DEF T
    <2>3. m \in T \cup {clock} /\ \A n \in T \cup {clock} : m =< n
      BY <1>3, <1>4
    <2>4. T \cup {clock} \subseteq Nat
      BY <1>3, <2>2
    <2>5. \A n \in T \cup {clock} : (\A y \in T \cup {clock} : n =< y) => n = m
      BY <2>3, <2>4
    <2>6. QED
      BY <2>1, <2>3, <2>5 DEF Min
  <1>7. QED
    BY <1>4, <1>5, <1>6

LEMMA AdviceOfLimit ==
  ASSUME IInv, InThePast, IsFiniteSet(Recorded), NEW scope \in SUBSET Recorded,
         NEW window \in Nat, NEW allowed \in Nat \ {0},
         CountSince(scope, clock - window) = allowed,
         NEW advice, advice = RetryAfter(OldestSince(scope, clock - window, clock), window, clock)
  PROVE  /\ CountSince(scope, clock + Second * advice + 1 - window) < allowed
         /\ advice > 1
              => CountSince(scope, clock + Second * advice - Second + 1 - window) >= allowed
  <1>1. clock \in Nat /\ \A q \in scope : ledger[q].created \in Nat
    BY RowFacts DEF IInv, TypeOK, Row
  <1>2. PICK r \in scope :
          /\ Counted(ledger[r]) /\ ledger[r].created >= clock - window
          /\ ledger[r].created = OldestSince(scope, clock - window, clock)
          /\ \A q \in scope : Counted(ledger[q]) /\ ledger[q].created >= clock - window
                                => ledger[q].created >= ledger[r].created
    BY OldestIsCounted
  <1>3. PICK oldest \in Nat : oldest = ledger[r].created
    BY <1>1
  <1>4. /\ advice \in Nat \ {0}
        /\ clock + Second * advice - window >= oldest
        /\ advice > 1 => clock + Second * advice - Second - window < oldest
    BY <1>1, <1>2, <1>3, RetryIsExact
  <1>5. Second * advice \in Nat
    BY <1>4, SecondAssumption
  <1> DEFINE After(since) == {q \in scope : Counted(ledger[q]) /\ ledger[q].created >= since}
  <1>6. IsFiniteSet(scope) /\ \A since : IsFiniteSet(After(since))
    BY FS_Subset
  <1>7. /\ \A since : CountSince(scope, since) = Cardinality(After(since))
        /\ \A since : Cardinality(After(since)) \in Nat
    BY <1>6, FS_CardinalityType DEF CountSince
  <1>8. Cardinality(After(clock + Second * advice + 1 - window)) < allowed
    <2>1. PICK later \in Int : later = clock + Second * advice + 1 - window /\ later > oldest
      BY <1>1, <1>4, <1>5
    <2>2. After(later) \subseteq After(clock - window) \ {r}
      BY <1>1, <1>2, <1>3, <2>1
    <2>3. r \in After(clock - window)
      BY <1>2
    <2> HIDE DEF After
    <2>4. Cardinality(After(later)) <= Cardinality(After(clock - window) \ {r})
      BY <1>6, <2>2, FS_Subset, FS_RemoveElement
    <2>5. Cardinality(After(clock - window) \ {r}) = Cardinality(After(clock - window)) - 1
      BY <1>6, <2>3, FS_RemoveElement
    <2>6. QED
      BY <1>7, <2>1, <2>4, <2>5
  <1>9. ASSUME advice > 1
        PROVE  Cardinality(After(clock + Second * advice - Second + 1 - window)) >= allowed
    <2>1. PICK later \in Int : /\ later = clock + Second * advice - Second + 1 - window
                               /\ later <= oldest
      BY <1>1, <1>4, <1>5, <1>9, SecondAssumption
    <2>2. After(clock - window) \subseteq After(later)
      BY <1>1, <1>2, <1>3, <2>1
    <2> HIDE DEF After
    <2>3. Cardinality(After(clock - window)) <= Cardinality(After(later))
      BY <1>6, <2>2, FS_Subset
    <2>4. QED
      BY <1>7, <2>1, <2>3
  <1> HIDE DEF After
  <1>10. QED
    BY <1>7, <1>8, <1>9

LEMMA AdviceExact ==
  ASSUME IInv, CapInv, InThePast
  PROVE  AdviceIsExact
  <1> SUFFICES ASSUME NEW a \in Recipient, NEW i \in Ip, NEW limit \in Limits(a, i),
                      CountSince(limit.scope, clock - limit.window) = limit.allowed,
                      limit.allowed > 0
               PROVE  LET wait == Second * Advice(limit, clock) IN
                      /\ CountSince(limit.scope, clock + wait + 1 - limit.window) < limit.allowed
                      /\ Advice(limit, clock) > 1 =>
                           CountSince(limit.scope, clock + wait - Second + 1 - limit.window)
                             >= limit.allowed
    BY DEF AdviceIsExact
  <1>1. limit.scope \in SUBSET Recorded /\ limit.window \in Nat /\ limit.allowed \in Nat \ {0}
    BY WindowAssumption, LimitsAssumption DEF Limits, OfRecipient, OfIp
  <1>2. PICK advice : advice = Advice(limit, clock)
    OBVIOUS
  <1>3. advice =
          RetryAfter(OldestSince(limit.scope, clock - limit.window, clock), limit.window, clock)
    BY <1>2 DEF Advice
  <1>4. /\ CountSince(limit.scope, clock + Second * advice + 1 - limit.window) < limit.allowed
        /\ advice > 1 =>
             CountSince(limit.scope, clock + Second * advice - Second + 1 - limit.window)
               >= limit.allowed
    BY <1>1, <1>3, AdviceOfLimit DEF CapInv
  <1>5. QED
    BY <1>2, <1>4

\* The seconds of the Retry-After header are exact: when they are past the limit admits, and a
\* second earlier it does not yet.
THEOREM AdviceCanBeTrusted == Spec => []AdviceIsExact
  <1>1. Init => CapInv /\ InThePast
    <2>1. Init => InThePast
      BY DEF Init, InThePast, Recorded, NoRow, Racing, NoCall
    <2>2. QED
      BY <2>1, CapInit
  <1>2. IInv /\ CapInv /\ InThePast /\ [Next]_vars => CapInv' /\ InThePast'
    BY CapNext, PastNext
  <1>3. IInv /\ CapInv /\ InThePast => AdviceIsExact
    BY AdviceExact
  <1>4. QED
    BY <1>1, <1>2, <1>3, Invariance, PTL DEF Spec

=============================================================================
