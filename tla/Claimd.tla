------------------------------- MODULE Claimd -------------------------------
(***************************************************************************)
(* The hosted claim service (claimd/): the HTTP handlers that record       *)
(* claims, the SQLite ledger, the one payout worker, and what they see of  *)
(* the sequencer.                                                          *)
(*                                                                         *)
(* Every handler is a task that may be suspended at each of its awaits,    *)
(* and the runtime has several threads, so its calls on the ledger         *)
(* interleave with those of the other handlers and of the worker.  The     *)
(* process may die between any two steps: the ledger survives (WAL,        *)
(* synchronous = FULL), everything else starts afresh.                     *)
(***************************************************************************)
EXTENDS Integers, FiniteSets

CONSTANTS
  Request,      \* request ids; numbers, because rows are ordered by them
  Recipient,    \* canonical public account ids
  Ip,           \* salted hashes of client addresses
  Handler,      \* the POST /v1/claim calls that can be in flight at once
  Hash,         \* transaction hashes; each send that reaches the chain uses one
  Prize,        \* amount of one payout
  Reserves,     \* fee reserves the fee quotes (and the fallback quote) yield
  Funds,        \* hot balance when the service is first started
  PerRecipient, PerIp, PerHour, PerDay,   \* policy.rs, Limits
  Hour, Day,    \* lengths of the two rate-limit windows, in clock ticks
  MaxTime,      \* bound: the clock stops here
  Second,       \* clock ticks in a second, the unit of the advice to a refused caller
  MaxAttempts,  \* READ_ATTEMPTS: how often a send is tried
  MaxBalance,   \* bound: outsiders do not lift a recipient above this
  MaxFaults     \* bound: deaths of the process plus failed ledger writes

NoRequest == 0
NoHash    == "nohash"
Unread    == -1

ASSUME RequestAssumption  == Request \subseteq Nat \ {NoRequest}
ASSUME HandlerAssumption  == IsFiniteSet(Handler) /\ Handler # {}
ASSUME HashAssumption     == NoHash \notin Hash
ASSUME PrizeAssumption    == Prize \in Nat \ {0}
ASSUME ReservesAssumption == Reserves \subseteq Nat
ASSUME FundsAssumption    == Funds \in Nat
ASSUME AttemptsAssumption == MaxAttempts \in Nat \ {0}
ASSUME WindowAssumption   == Hour \in Nat /\ Day \in Nat /\ Hour <= Day
ASSUME SecondAssumption   == Second \in Nat \ {0}
ASSUME BoundsAssumption   == MaxTime \in Nat /\ MaxBalance \in Nat /\ MaxFaults \in Nat
ASSUME LimitsAssumption   == {PerRecipient, PerIp, PerHour, PerDay} \subseteq Nat

VARIABLES
  ledger,   \* the claims table: a row, or NoRow, for each request id
  tx,       \* the transfers the sequencer holds: state and, as history, the claim
  lost,     \* history: hashes the service was told, or should have been, and lost
  hot,      \* balance of the hot account
  balance,  \* balances of the recipients
  handler,  \* the POST handlers
  cache,    \* AppState.hot_cache: the last hot balance read, or Unread
  worker,   \* the payout worker
  permit,   \* the permit stored in the tokio Notify
  unheard,  \* history: claims recorded in the worker's sleep and without a word to it
  clock,    \* Utc::now()
  faults    \* history: deaths and failed ledger writes so far

chain == <<tx, hot, balance>>
vars  == <<ledger, tx, lost, hot, balance, handler, cache, worker, permit, unheard, clock, faults>>

-----------------------------------------------------------------------------
(* Values of the variables. *)

Status    == {"queued", "submitted", "included", "failed"}
ErrorCode == {"submission_rejected", "outcome_unknown", "hot_balance_low", "internal_error"}
Balance   == Nat \cup {Unread}

NoRow == [status |-> "none"]
Row   == [status : Status, recipient : Recipient, ip : Ip, hash : Hash \cup {NoHash},
          before : Balance, after : Balance, error : ErrorCode \cup {"none"}, created : Nat]

IsTerminal(row) == row.status \in {"included", "failed"}

NoTx == [state |-> "unused", request |-> NoRequest]
Tx   == [state : {"pending", "included", "dropped"}, request : Request]

\* A handler between its awaits; a call that has its row keeps what it asked for.
NoCall   == [pc |-> "idle"]
Answered == [pc : {"inserted", "answered"}, request : Request, recipient : Recipient]
Call     == [pc : {"limits", "hot", "funds", "insert"}, request : Request,
             recipient : Recipient, ip : Ip, now : Nat, hot : Balance]

\* hash is what the wallet thread put on the chain in the send that is under way.
Idle   == [pc |-> "idle", request |-> NoRequest, hash |-> NoHash, attempt |-> 0]
Worker == [pc : {"idle", "waiting", "fund", "before", "send", "sending", "poll", "after"},
           request : Request \cup {NoRequest}, hash : Hash \cup {NoHash}, attempt : Nat]

TypeOK ==
  /\ ledger  \in [Request -> Row \cup {NoRow}]
  /\ tx      \in [Hash -> Tx \cup {NoTx}]
  /\ lost    \in SUBSET Hash
  /\ hot     \in Nat
  /\ balance \in [Recipient -> Nat]
  /\ handler \in [Handler -> Call \cup Answered \cup {NoCall}]
  /\ cache   \in Balance
  /\ worker  \in Worker
  /\ permit  \in BOOLEAN
  /\ unheard \in SUBSET Request
  /\ clock   \in Nat
  /\ faults  \in Nat

Init ==
  /\ ledger  = [r \in Request |-> NoRow]
  /\ tx      = [x \in Hash |-> NoTx]
  /\ lost    = {}
  /\ hot     = Funds
  /\ balance = [a \in Recipient |-> 0]
  /\ handler = [h \in Handler |-> NoCall]
  /\ cache   = Unread
  /\ worker  = Idle
  /\ permit  = FALSE
  /\ unheard = {}
  /\ clock   = 0
  /\ faults  = 0

-----------------------------------------------------------------------------
(* The ledger's queries. *)

Recorded == {r \in Request : ledger[r].status # "none"}
Pending  == {r \in Recorded : ~IsTerminal(ledger[r])}

\* ORDER BY created_at ASC, request_id ASC
Older(r, q) ==
  \/ ledger[r].created < ledger[q].created
  \/ ledger[r].created = ledger[q].created /\ r < q

IsNext(r) == r \in Pending /\ \A q \in Pending \ {r} : Older(r, q)

Counted(row) == row.status # "failed" \/ row.hash # NoHash

CountSince(scope, since) ==
  Cardinality({r \in scope : Counted(ledger[r]) /\ ledger[r].created >= since})

OfRecipient(a) == {r \in Recorded : ledger[r].recipient = a}
OfIp(i)        == {r \in Recorded : ledger[r].ip = i}

\* Mutant: the limits are off by one.
WithinLimitsPlusOne(a, i, now) ==
  /\ CountSince(OfRecipient(a), now - Day) <= PerRecipient
  /\ CountSince(OfIp(i), now - Day) <= PerIp
  /\ CountSince(Recorded, now - Hour) <= PerHour
  /\ CountSince(Recorded, now - Day) <= PerDay

WithinLimits(a, i, now) ==
  /\ CountSince(OfRecipient(a), now - Day) < PerRecipient
  /\ CountSince(OfIp(i), now - Day) < PerIp
  /\ CountSince(Recorded, now - Hour) < PerHour
  /\ CountSince(Recorded, now - Day) < PerDay

Queued(a, i, now) ==
  [status |-> "queued", recipient |-> a, ip |-> i, hash |-> NoHash, before |-> Unread,
   after |-> Unread, error |-> "none", created |-> now]

-----------------------------------------------------------------------------
(* POST /v1/claim. *)

Free(h) == handler[h].pc \in {"idle", "answered"}

Answer(h, r, a) ==
  handler' = [handler EXCEPT ![h] = [pc |-> "answered", request |-> r, recipient |-> a]]

Refuse(h) == handler' = [handler EXCEPT ![h] = NoCall]

\* A valid request arrives.  A recorded request id is answered with its row, or refused for
\* another recipient; a new one is refused while the pause file exists.
Post(h) ==
  /\ Free(h)
  /\ \E r \in Request, a \in Recipient, i \in Ip :
       IF ledger[r] = NoRow
       THEN \/ handler' = [handler EXCEPT ![h] = [pc |-> "limits", request |-> r, recipient |-> a,
                                                  ip |-> i, now |-> 0, hot |-> Unread]]
            \/ Refuse(h)
       ELSE IF ledger[r].recipient = a THEN Answer(h, r, a) ELSE Refuse(h)
  /\ UNCHANGED <<ledger, chain, lost, cache, worker, permit, unheard, clock, faults>>

\* The time of the claim is taken here and is the row's created_at, however late it is
\* inserted.
CheckLimits(h) ==
  /\ handler[h].pc = "limits"
  /\ IF WithinLimits(handler[h].recipient, handler[h].ip, clock)
     THEN handler' = [handler EXCEPT ![h].pc = "hot", ![h].now = clock]
     ELSE Refuse(h)
  /\ UNCHANGED <<ledger, chain, lost, cache, worker, permit, unheard, clock, faults>>

ReadHot(h) ==
  /\ handler[h].pc = "hot"
  /\ \/ /\ cache # Unread
        /\ handler' = [handler EXCEPT ![h].pc = "funds", ![h].hot = cache]
        /\ UNCHANGED cache
     \/ /\ cache' = hot
        /\ handler' = [handler EXCEPT ![h].pc = "funds", ![h].hot = hot]
     \/ /\ Refuse(h)
        /\ UNCHANGED cache
  /\ UNCHANGED <<ledger, chain, lost, worker, permit, unheard, clock, faults>>

CheckFunds(h) ==
  /\ handler[h].pc = "funds"
  /\ \E reserve \in Reserves :
       IF handler[h].hot < Prize * (Cardinality(Pending) + 1) + reserve
       THEN Refuse(h)
       ELSE handler' = [handler EXCEPT ![h].pc = "insert"]
  /\ UNCHANGED <<ledger, chain, lost, cache, worker, permit, unheard, clock, faults>>

\* The INSERT of the call is done; what follows is a second query.
Inserted(h) ==
  LET call == handler[h] IN
  /\ ledger' = [ledger EXCEPT ![call.request] = Queued(call.recipient, call.ip, call.now)]
  /\ handler' = [handler EXCEPT ![h] = [pc |-> "inserted", request |-> call.request,
                                        recipient |-> call.recipient]]

\* Mutant: the loser of a race is answered without a look at whose row it is.
InsertAnyRecipient(h) ==
  /\ handler[h].pc = "insert"
  /\ \/ ledger[handler[h].request] = NoRow /\ Inserted(h)
     \/ /\ ledger[handler[h].request] # NoRow
        /\ Answer(h, handler[h].request, handler[h].recipient)
        /\ UNCHANGED ledger
  /\ UNCHANGED <<chain, lost, cache, worker, permit, unheard, clock, faults>>

\* request_id is the primary key: the loser of a race answers with the winner's row.
Insert(h) ==
  /\ handler[h].pc = "insert"
  /\ LET call == handler[h]
         row  == ledger[call.request]
     IN  IF row = NoRow
         THEN Inserted(h)
         ELSE /\ IF row.recipient = call.recipient
                 THEN Answer(h, call.request, call.recipient)
                 ELSE Refuse(h)
              /\ UNCHANGED ledger
  /\ UNCHANGED <<chain, lost, cache, worker, permit, unheard, clock, faults>>

\* Mutant: a recorded claim is not announced to the worker.
ReadBackSilently(h) ==
  /\ handler[h].pc = "inserted"
  /\ Answer(h, handler[h].request, handler[h].recipient)
  /\ UNCHANGED <<ledger, chain, lost, cache, worker, permit, unheard, clock, faults>>

\* insert_queued reads its row back, and the worker is notified.  A query that fails here is
\* taken for a lost race: the call finds its own row and answers with it, or fails again, and
\* the worker is not told in either case.
ReadBack(h) ==
  /\ handler[h].pc = "inserted"
  /\ LET call == handler[h] IN
     \/ /\ permit' = TRUE
        /\ Answer(h, call.request, call.recipient)
        /\ UNCHANGED unheard
     \/ /\ unheard' = IF worker.pc = "waiting" THEN unheard \cup {call.request} ELSE unheard
        /\ Answer(h, call.request, call.recipient) \/ Refuse(h)
        /\ UNCHANGED permit
  /\ UNCHANGED <<ledger, chain, lost, cache, worker, clock, faults>>

\* GET /v1/info and GET /healthz: they read the hot balance too, and leave it in the cache.
ServeStatus ==
  /\ cache' = hot
  /\ UNCHANGED <<ledger, chain, lost, handler, worker, permit, unheard, clock, faults>>

\* The client disconnects, which drops the handler at its await, or a query fails, the INSERT
\* among them.
Abandon(h) ==
  /\ handler[h].pc \in {"limits", "hot", "funds", "insert"}
  /\ Refuse(h)
  /\ UNCHANGED <<ledger, chain, lost, cache, worker, permit, unheard, clock, faults>>

Handle(h) ==
  \/ Post(h)
  \/ CheckLimits(h)
  \/ ReadHot(h)
  \/ CheckFunds(h)
  \/ Insert(h)
  \/ ReadBack(h)
  \/ Abandon(h)

-----------------------------------------------------------------------------
(* The payout worker. *)

MarkFailed(r, code, after) ==
  ledger' = [ledger EXCEPT ![r].status = "failed", ![r].error = code,
                           ![r].after = IF after = Unread THEN @ ELSE after]

\* Ends the claim that is being processed.
Fail(code, after) ==
  /\ MarkFailed(worker.request, code, after)
  /\ worker' = Idle

\* A transfer whose hash the worker has, or would have had, and has not written down.
Unwritten == IF worker.hash = NoHash THEN {} ELSE {worker.hash}

\* Mutant: what the row says of an earlier send is ignored.
TakeNextAnew ==
  /\ worker.pc = "idle"
  /\ \/ /\ Pending = {}
        /\ worker' = [Idle EXCEPT !.pc = "waiting"]
     \/ \E r \in Request : IsNext(r) /\ worker' = [Idle EXCEPT !.request = r, !.pc = "fund"]
  /\ UNCHANGED <<ledger, chain, lost, handler, cache, permit, unheard, clock, faults>>

\* run and the dispatch of process: a row with a hash is polled, never signed again.
TakeNext ==
  /\ worker.pc = "idle"
  /\ \/ /\ Pending = {}
        /\ worker' = [Idle EXCEPT !.pc = "waiting"]
        /\ UNCHANGED ledger
     \/ \E r \in Request :
          /\ IsNext(r)
          /\ IF ledger[r].status = "submitted" /\ ledger[r].hash = NoHash
             THEN /\ MarkFailed(r, "internal_error", Unread)
                  /\ worker' = Idle
             ELSE /\ worker' = [Idle EXCEPT !.request = r,
                                  !.pc = IF ledger[r].hash = NoHash THEN "fund" ELSE "poll"]
                  /\ UNCHANGED ledger
  /\ UNCHANGED <<chain, lost, handler, cache, permit, unheard, clock, faults>>

Wake ==
  /\ worker.pc = "waiting"
  /\ permit
  /\ permit' = FALSE
  /\ unheard' = {}
  /\ worker' = Idle
  /\ UNCHANGED <<ledger, chain, lost, handler, cache, clock, faults>>

\* Mutant: the worker trusts the intake, which looked at a balance from its cache.
ReadFundsTrusting ==
  /\ worker.pc = "fund"
  /\ \/ Fail("internal_error", Unread)
     \/ worker' = [worker EXCEPT !.pc = "before"] /\ UNCHANGED ledger
  /\ UNCHANGED <<chain, lost, handler, cache, permit, unheard, clock, faults>>

ReadFunds ==
  /\ worker.pc = "fund"
  /\ \/ Fail("internal_error", Unread)
     \/ \E reserve \in Reserves :
          IF hot < Prize + reserve
          THEN Fail("hot_balance_low", Unread)
          ELSE worker' = [worker EXCEPT !.pc = "before"] /\ UNCHANGED ledger
  /\ UNCHANGED <<chain, lost, handler, cache, permit, unheard, clock, faults>>

ReadBefore ==
  /\ worker.pc = "before"
  /\ \/ Fail("internal_error", Unread)
     \/ /\ ledger' = [ledger EXCEPT ![worker.request].before =
                        balance[ledger[worker.request].recipient]]
        /\ worker' = [worker EXCEPT !.pc = "send", !.attempt = 1]
  /\ UNCHANGED <<chain, lost, handler, cache, permit, unheard, clock, faults>>

\* chain.send hands the transfer to the wallet thread, which may or may not get it to the
\* sequencer before the call returns.
Send ==
  /\ worker.pc = "send"
  /\ \/ /\ worker' = [worker EXCEPT !.pc = "sending", !.hash = NoHash]
        /\ UNCHANGED tx
     \/ \E x \in Hash :
          /\ tx[x] = NoTx
          /\ tx' = [tx EXCEPT ![x] = [state |-> "pending", request |-> worker.request]]
          /\ worker' = [worker EXCEPT !.pc = "sending", !.hash = x]
  /\ UNCHANGED <<ledger, lost, hot, balance, handler, cache, permit, unheard, clock, faults>>

\* mark_submitted updates only a row that is still queued.
SendOk ==
  /\ worker.pc = "sending"
  /\ worker.hash # NoHash
  /\ IF ledger[worker.request].status = "queued"
     THEN ledger' = [ledger EXCEPT ![worker.request].status = "submitted",
                                   ![worker.request].hash = worker.hash]
     ELSE UNCHANGED ledger
  /\ worker' = [worker EXCEPT !.pc = "poll", !.hash = NoHash, !.attempt = 0]
  /\ UNCHANGED <<chain, lost, handler, cache, permit, unheard, clock, faults>>

\* Reported as a failed read and tried again.  The wallet's client also reports so a reply
\* it cannot decode, and then the transfer is on its way (lez.rs, map_client_err).
SendRpc ==
  /\ worker.pc = "sending"
  /\ IF worker.attempt < MaxAttempts
     THEN /\ worker' = [worker EXCEPT !.pc = "send", !.hash = NoHash, !.attempt = @ + 1]
          /\ UNCHANGED ledger
     ELSE Fail("internal_error", Unread)
  /\ lost' = lost \cup Unwritten
  /\ UNCHANGED <<chain, handler, cache, permit, unheard, clock, faults>>

SendRefused ==
  /\ worker.pc = "sending"
  /\ worker.hash = NoHash
  /\ \E code \in {"hot_balance_low", "submission_rejected"} : Fail(code, Unread)
  /\ UNCHANGED <<chain, lost, handler, cache, permit, unheard, clock, faults>>

\* Mutant: an unknown outcome is tried again like a failed read.
SendUnknownAgain ==
  /\ worker.pc = "sending"
  /\ worker' = [worker EXCEPT !.pc = "send", !.hash = NoHash]
  /\ UNCHANGED <<ledger, chain, lost, handler, cache, permit, unheard, clock, faults>>

SendUnknown ==
  /\ worker.pc = "sending"
  /\ Fail("outcome_unknown", Unread)
  /\ UNCHANGED <<chain, lost, handler, cache, permit, unheard, clock, faults>>

PollIncluded ==
  /\ worker.pc = "poll"
  /\ tx[ledger[worker.request].hash].state = "included"
  /\ worker' = [worker EXCEPT !.pc = "after"]
  /\ UNCHANGED <<ledger, chain, lost, handler, cache, permit, unheard, clock, faults>>

\* Mutant: an inclusion that is not seen in time is called a refusal.
PollDeadlineRefused ==
  /\ worker.pc = "poll"
  /\ Fail("submission_rejected", Unread)
  /\ UNCHANGED <<chain, lost, handler, cache, permit, unheard, clock, faults>>

\* Mutant: the claim is put back in the queue, to be sent again.
PollDeadlineRequeued ==
  /\ worker.pc = "poll"
  /\ ledger' = [ledger EXCEPT ![worker.request].status = "queued",
                              ![worker.request].hash = NoHash]
  /\ worker' = Idle
  /\ UNCHANGED <<chain, lost, handler, cache, permit, unheard, clock, faults>>

\* Mutant: the row is left as it is, to be polled again later.
PollDeadlineLeft ==
  /\ worker.pc = "poll"
  /\ worker' = Idle
  /\ UNCHANGED <<ledger, chain, lost, handler, cache, permit, unheard, clock, faults>>

\* Mutant: the poll ends at the deadline only when the sequencer no longer has the transfer.
PollDeadlineNever ==
  /\ worker.pc = "poll"
  /\ tx[ledger[worker.request].hash].state = "included"
  /\ Fail("outcome_unknown", Unread)
  /\ UNCHANGED <<chain, lost, handler, cache, permit, unheard, clock, faults>>

\* The last poll before the deadline failed or found nothing.
PollDeadline ==
  /\ worker.pc = "poll"
  /\ Fail("outcome_unknown", Unread)
  /\ UNCHANGED <<chain, lost, handler, cache, permit, unheard, clock, faults>>

\* Mutant: inclusion in a block is taken for proof of payment.
ReadAfterUnchecked ==
  /\ worker.pc = "after"
  /\ ledger' = [ledger EXCEPT ![worker.request].status = "included",
                              ![worker.request].error = "none",
                 ![worker.request].after = balance[ledger[worker.request].recipient]]
  /\ worker' = Idle
  /\ UNCHANGED <<chain, lost, handler, cache, permit, unheard, clock, faults>>

ReadAfter ==
  /\ worker.pc = "after"
  /\ LET row   == ledger[worker.request]
         after == balance[row.recipient]
     IN  \/ Fail("outcome_unknown", Unread)
         \/ IF row.before # Unread /\ after = row.before + Prize
            THEN /\ ledger' = [ledger EXCEPT ![worker.request].status = "included",
                                 ![worker.request].after = after,
                                 ![worker.request].error = "none"]
                 /\ worker' = Idle
            ELSE Fail("outcome_unknown", after)
  /\ UNCHANGED <<chain, lost, handler, cache, permit, unheard, clock, faults>>

Payout ==
  \/ TakeNext
  \/ Wake
  \/ ReadFunds
  \/ ReadBefore
  \/ Send
  \/ SendOk
  \/ SendRpc
  \/ SendRefused
  \/ SendUnknown
  \/ PollIncluded
  \/ PollDeadline
  \/ ReadAfter

-----------------------------------------------------------------------------
(* Faults, and the world outside. *)

\* A write of the worker fails: process returns the error and run starts over.
LedgerError ==
  /\ faults < MaxFaults
  /\ worker.pc \in {"fund", "before", "sending", "poll", "after"}
  /\ lost' = lost \cup Unwritten
  /\ worker' = Idle
  /\ faults' = faults + 1
  /\ UNCHANGED <<ledger, chain, handler, cache, permit, unheard, clock>>

\* Mutant: a worker that is started waits for a claim before it looks at the ledger.
RestartAsleep ==
  /\ faults < MaxFaults
  /\ lost' = lost \cup Unwritten
  /\ worker' = [Idle EXCEPT !.pc = "waiting"]
  /\ handler' = [h \in Handler |-> NoCall]
  /\ cache' = Unread
  /\ permit' = FALSE
  /\ unheard' = {}
  /\ faults' = faults + 1
  /\ UNCHANGED <<ledger, chain, clock>>

\* The process dies, or is stopped, and is started again.
Restart ==
  /\ faults < MaxFaults
  /\ lost' = lost \cup Unwritten
  /\ worker' = Idle
  /\ handler' = [h \in Handler |-> NoCall]
  /\ cache' = Unread
  /\ permit' = FALSE
  /\ unheard' = {}
  /\ faults' = faults + 1
  /\ UNCHANGED <<ledger, chain, clock>>

Include(x) ==
  /\ tx[x].state = "pending"
  /\ tx' = [tx EXCEPT ![x].state = "included"]
  /\ \E fee \in Reserves : hot >= Prize + fee /\ hot' = hot - (Prize + fee)
  /\ balance' = [balance EXCEPT ![ledger[tx[x].request].recipient] = @ + Prize]
  /\ UNCHANGED <<ledger, lost, handler, cache, worker, permit, unheard, clock, faults>>

Drop(x) ==
  /\ tx[x].state = "pending"
  /\ tx' = [tx EXCEPT ![x].state = "dropped"]
  /\ UNCHANGED <<ledger, lost, hot, balance, handler, cache, worker, permit, unheard, clock, faults>>

\* Somebody else pays the recipient, or the recipient spends.
Outside(a) ==
  /\ \/ balance[a] < MaxBalance /\ balance' = [balance EXCEPT ![a] = @ + 1]
     \/ balance[a] > 0 /\ balance' = [balance EXCEPT ![a] = @ - 1]
  /\ UNCHANGED <<ledger, tx, lost, hot, handler, cache, worker, permit, unheard, clock, faults>>

\* A tick outlasts the caches.
Tick ==
  /\ clock < MaxTime
  /\ clock' = clock + 1
  /\ cache' = Unread
  /\ UNCHANGED <<ledger, chain, lost, handler, worker, permit, unheard, faults>>

World ==
  \/ ServeStatus
  \/ LedgerError
  \/ Restart
  \/ \E x \in Hash : Include(x) \/ Drop(x)
  \/ \E a \in Recipient : Outside(a)
  \/ Tick

Next == Payout \/ World \/ \E h \in Handler : Handle(h)

Spec == Init /\ [][Next]_vars

\* Every call of the worker returns: the clients it uses have timeouts, and the loop that
\* polls has a deadline.  A handler that has inserted its row awaits nothing before it returns.
FairSpec == Spec /\ WF_vars(Payout) /\ \A h \in Handler : WF_vars(ReadBack(h))

-----------------------------------------------------------------------------
(* What the service must never do. *)

Sent(r) == {x \in Hash : tx[x].request = r}

\* A claim is paid at most once as far as the service can tell: of two transfers for one
\* request id, one was lost to a death of the process, a failed ledger write or an
\* undecodable reply between the send and its record.
PaidOnceUnlessLost ==
  \A r \in Request : \A x, y \in Sent(r) \ lost : x = y

\* A row that says `included` is proved by its own transfer: the hash is that of a transfer
\* sent for this claim, in a block, and the recipient's balance rose by the prize.
IncludedIsProven ==
  \A r \in Recorded : LET row == ledger[r] IN
    row.status = "included" =>
      /\ row.hash \in Sent(r)
      /\ tx[row.hash].state = "included"
      /\ row.after = row.before + Prize

\* A claim failed with any code but outcome_unknown moved nothing that was not lost: clients
\* tell their users so.
FailureIsHonest ==
  \A r \in Recorded :
    ledger[r].status = "failed" /\ ledger[r].error # "outcome_unknown"
      => Sent(r) \subseteq lost

\* A call is answered with a row only if it is the row of its own request and recipient,
\* whichever of several racing calls inserted it.
AnswersOwnRow ==
  \A h \in Handler : handler[h].pc = "answered" =>
    /\ handler[h].request \in Recorded
    /\ ledger[handler[h].request].recipient = handler[h].recipient

\* The worker sleeps over no claim but those whose handler could not read its own row back:
\* while it waits without a permit to wake it, every other claim the ledger owes is one whose
\* handler is about to store the permit.
NoStrandedClaim ==
  worker.pc = "waiting" /\ ~permit =>
    \A r \in Pending \ unheard :
      \E h \in Handler : handler[h].pc = "inserted" /\ handler[h].request = r

\* One signer, one nonce: until a fault, at most one transfer awaits its inclusion.
OneAwaitsInclusion ==
  faults = 0 => Cardinality({r \in Recorded : ledger[r].status = "submitted"}) <= 1

\* The intake counts on a hot balance that may be old, and on one fee for all that is pending.
\* Still what the worker sends is covered, prize and fee, until a fault and as long as no
\* transfer was lost or given up: it reads the balance again, and has one transfer on its way.
Stray == {x \in Hash : x \in lost \/ (tx[x] # NoTx /\ ledger[tx[x].request].status = "failed")}

FundsCoverTransfers ==
  LET awaited == Cardinality({x \in Hash : tx[x].state = "pending"}) IN
  faults = 0 /\ Stray = {} /\ awaited > 0 =>
    \E reserve \in Reserves : hot >= Prize * awaited + reserve

\* The calls that race each other past check_limits are all that a limit can be exceeded by:
\* every window holds at most the limit and one claim for each other handler.
InWindow(scope, t, length) ==
  Cardinality({r \in scope : Counted(ledger[r]) /\ ledger[r].created \in (t - length)..t})

CapsHoldUpToRaces ==
  LET racing == Cardinality(Handler) - 1 IN
  \A t \in 0..MaxTime :
    /\ \A a \in Recipient : InWindow(OfRecipient(a), t, Day) <= PerRecipient + racing
    /\ \A i \in Ip : InWindow(OfIp(i), t, Day) <= PerIp + racing
    /\ InWindow(Recorded, t, Hour) <= PerHour + racing
    /\ InWindow(Recorded, t, Day) <= PerDay + racing

\* A row that has a hash keeps it, and nothing is signed for it again.
NeverResigned ==
  [][\A r \in Recorded : ledger[r].hash # NoHash =>
       /\ ledger'[r].hash = ledger[r].hash
       /\ {x \in Hash : tx'[x].request = r} = Sent(r)]_vars

\* Every recorded claim comes to an end, unless the worker is not told of it.
ClaimsSettle ==
  \A r \in Request :
    ledger[r].status = "queued" ~> ledger[r].status \in {"included", "failed"} \/ r \in unheard

\* A claim the worker was not told of is late, not lost: it comes to an end like the others as
\* soon as the worker is up for any reason, another claim, a restart or work in hand.
AwakeWorkerSettlesAll ==
  \A r \in Request :
    ledger[r].status = "queued" /\ (permit \/ worker.pc # "waiting")
      ~> ledger[r].status \in {"included", "failed"}

-----------------------------------------------------------------------------
(* The inductive invariant behind the safety properties. *)

\* What the worker does at each point fits the row it works on, and a hash it has in hand is
\* that of a transfer for that row.
WorkerOnRow ==
  LET r == worker.request IN
  /\ worker.pc \in {"fund", "before", "send", "sending"}
       => r \in Recorded /\ ledger[r].status = "queued"
  /\ worker.pc \in {"poll", "after"} => r \in Recorded /\ ledger[r].status = "submitted"
  /\ worker.pc = "after" => tx[ledger[r].hash].state = "included"
  /\ worker.hash # NoHash => /\ worker.pc = "sending"
                             /\ worker.hash \in Sent(r) \ lost

\* A row has a hash from the moment it is submitted, and only its own; it fails with a hash
\* only by an unknown outcome.
RowsFitTransfers ==
  \A r \in Recorded : LET row == ledger[r] IN
    /\ row.status = "queued" => row.hash = NoHash
    /\ row.status \in {"submitted", "included"} => row.hash # NoHash
    /\ row.hash # NoHash => row.hash \in Sent(r) \ lost
    /\ row.status = "failed" /\ row.hash # NoHash => row.error = "outcome_unknown"

\* Every transfer is accounted for: lost, written down, in the worker's hand, or the one a
\* claim with an unknown outcome may have made.
TransfersAccounted ==
  /\ \A x \in lost : tx[x] # NoTx
  /\ \A r \in Request : \A x \in Sent(r) \ lost :
       /\ r \in Recorded
       /\ \/ ledger[r].hash = x
          \/ worker.hash = x
          \/ /\ ledger[r].hash = NoHash
             /\ ledger[r].status = "failed"
             /\ ledger[r].error = "outcome_unknown"

IInv ==
  /\ TypeOK
  /\ WorkerOnRow
  /\ RowsFitTransfers
  /\ TransfersAccounted
  /\ PaidOnceUnlessLost
  /\ IncludedIsProven

-----------------------------------------------------------------------------
(* The promise of the API, which the service keeps. *)

\* What the API shows of an error, to those who must know whether money moved.
ShownError(error) ==
  IF error = "none" THEN "none" ELSE IF error = "outcome_unknown" THEN "unknown" ELSE "refused"

Shown(r) ==
  IF r \in Recorded
  THEN [status |-> ledger[r].status, recipient |-> ledger[r].recipient,
        hash |-> ledger[r].hash, error |-> ShownError(ledger[r].error)]
  ELSE NoRow

Promise == INSTANCE ClaimPromise WITH
  claim <- [r \in Request |-> Shown(r)],
  sent  <- [r \in Request |-> Sent(r)]

KeepsPromise == Promise!Spec

=============================================================================
