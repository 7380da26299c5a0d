----------------------------- MODULE PinataDrop -----------------------------
(***************************************************************************)
(* A drop on a network with the Pinata faucet (client.rs, run_pinata_drop, *)
(* reconcile and classify): the client solves the challenge the chain      *)
(* shows, submits a claim, and reads the chain until it can tell what      *)
(* became of it.                                                           *)
(*                                                                         *)
(* The chain is external, and modelled from what classify's comment and    *)
(* its callers rely on: a claim is executed at most once; with the current *)
(* challenge it pays the prize and moves the challenge on, with any other  *)
(* it is discarded; its effect is visible no later than its hash; other    *)
(* claimants race the same challenge; and the recipient's account has a    *)
(* life of its own.                                                        *)
(***************************************************************************)
EXTENDS FaucetClient

CONSTANTS
  Hash,        \* transaction hashes; each submission uses one
  Pool,        \* prizes the faucet can pay before it is empty
  MaxRetries,  \* max_stale_challenge_retries
  MaxBalance   \* bound: others do not lift a recipient above this

ASSUME ChainAssumption == Pool \in Nat /\ MaxRetries \in Nat /\ MaxBalance \in Nat

VARIABLES
  drop,       \* the locals of run_pinata_drop and reconcile, for each call
  challenge,  \* the chain's challenge: the number of prizes paid
  tx,         \* the claims submitted: state and, as history, the call
  balance,    \* balances of the recipients
  slipped,    \* history: claims executed between the last two reads of a round of their drop
  spent       \* history: accounts that spent something

chain == <<challenge, tx, balance, slipped, spent>>
vars  == <<client, drop, chain>>

-----------------------------------------------------------------------------
NoTx == [state |-> "unused", call |-> NoCall]
Tx   == [state : {"pending", "executed", "indexed", "discarded"}, call : Call,
         challenge : 0..Pool]

NoDrop == [at |-> "inspect", attempt |-> 0, before |-> NoBalance, solved |-> 0, hash |-> "nohash",
           included |-> "unread", seen |-> NoBalance]
Drop   == [at : {"inspect", "fetch", "solve", "refresh", "reread", "submit", "included", "balance",
                 "challenge", "over"},
           attempt : 0..MaxRetries, before : Nat \cup {NoBalance}, solved : 0..Pool,
           hash : Hash \cup {"nohash"},
           included : {"yes", "no", "unread"}, seen : Nat \cup {NoBalance}]

TypeOK ==
  /\ ClientTypeOK
  /\ drop      \in [Call -> Drop]
  /\ challenge \in 0..Pool
  /\ tx        \in [Hash -> Tx \cup {NoTx}]
  /\ balance   \in [Account -> Nat]
  /\ slipped   \in SUBSET Hash
  /\ spent     \in SUBSET Account

Init ==
  /\ ClientInit
  /\ drop      = [c \in Call |-> NoDrop]
  /\ challenge = 0
  /\ tx        = [x \in Hash |-> NoTx]
  /\ balance   = [a \in Account |-> 0]
  /\ slipped   = {}
  /\ spent     = {}

-----------------------------------------------------------------------------
Sent(c)     == {x \in Hash : tx[x].call = c}
Executed    == {x \in Hash : tx[x].state \in {"executed", "indexed"}}
Recipient(c) == balance[call[c].account]

-----------------------------------------------------------------------------
(* The drop of call c. *)

At(c, at) == call[c].pc = "run" /\ drop[c].at = at
Move(c, at) == drop' = [drop EXCEPT ![c].at = at]

\* Of a drop that is over only its receipt matters.
End(c, outcome) ==
  /\ Finish(c, outcome)
  /\ drop' = [drop EXCEPT ![c] = [NoDrop EXCEPT !.at = "over", !.hash = drop[c].hash]]

NextAttempt(c, before) ==
  IF drop[c].attempt < MaxRetries
  THEN /\ drop' = [drop EXCEPT ![c] = [NoDrop EXCEPT !.at = "fetch", !.before = before,
                                                     !.attempt = drop[c].attempt + 1]]
       /\ UNCHANGED client
  ELSE End(c, "failed")

\* `stop`: a drop that has submitted is not cancelled.
Stopped(c) == IsCancelled(c) /\ Sent(c) = {}

StopDrop(c) ==
  /\ \E at \in {"inspect", "fetch", "solve", "refresh", "submit"} : At(c, at)
  /\ Stopped(c)
  /\ End(c, "cancelled")
  /\ UNCHANGED chain

\* A read fails, the account is not eligible, the pool is empty or the solver gives up.
FailDrop(c) ==
  /\ \E at \in {"inspect", "fetch", "solve", "refresh", "reread"} : At(c, at)
  /\ End(c, "failed")
  /\ UNCHANGED chain

InspectRecipient(c) ==
  /\ At(c, "inspect")
  /\ ~Stopped(c)
  /\ drop' = [drop EXCEPT ![c].at = "fetch", ![c].before = Recipient(c)]
  /\ UNCHANGED <<client, chain>>

FetchChallenge(c) ==
  /\ At(c, "fetch")
  /\ ~Stopped(c)
  /\ challenge < Pool
  /\ drop' = [drop EXCEPT ![c].at = "solve", ![c].solved = challenge]
  /\ UNCHANGED <<client, chain>>

\* The solver is told of a cancellation, and not whether anything was submitted before.
Solve(c) ==
  /\ At(c, "solve")
  /\ \/ Move(c, "refresh") /\ UNCHANGED client
     \/ IsCancelled(c) /\ End(c, "cancelled")
  /\ UNCHANGED chain

RefreshChallenge(c) ==
  /\ At(c, "refresh")
  /\ ~Stopped(c)
  /\ IF challenge = drop[c].solved
     THEN Move(c, "reread") /\ UNCHANGED client
     ELSE NextAttempt(c, drop[c].before)
  /\ UNCHANGED chain

RereadRecipient(c) ==
  /\ At(c, "reread")
  /\ IF Recipient(c) = drop[c].before
     THEN Move(c, "submit") /\ UNCHANGED client
     ELSE NextAttempt(c, Recipient(c))
  /\ UNCHANGED chain

\* Mutant: a submission that is not answered counts as refused.
SubmitOrFail(c) ==
  /\ At(c, "submit")
  /\ ~Stopped(c)
  /\ \/ End(c, "failed") /\ UNCHANGED tx
     \/ \E x \in Hash :
          /\ tx[x] = NoTx
          /\ tx' = [tx EXCEPT ![x] = [state |-> "pending", call |-> c,
                                      challenge |-> drop[c].solved]]
          /\ \/ drop' = [drop EXCEPT ![c].at = "included", ![c].hash = x] /\ UNCHANGED client
             \/ End(c, "failed")
  /\ UNCHANGED <<challenge, balance, slipped, spent>>

\* The sequencer refuses the claim, or it is on its way: an answer that is lost, or a claim
\* that never arrived, is reconciled like any other.
Submit(c) ==
  /\ At(c, "submit")
  /\ ~Stopped(c)
  /\ \/ End(c, "failed") /\ UNCHANGED tx
     \/ \E x \in Hash :
          /\ tx[x] = NoTx
          /\ tx' = [tx EXCEPT ![x] = [state |-> "pending", call |-> c,
                                      challenge |-> drop[c].solved]]
          /\ drop' = [drop EXCEPT ![c].at = "included", ![c].hash = x]
          /\ UNCHANGED client
  /\ UNCHANGED <<challenge, balance, slipped, spent>>

ReadIncluded(c) ==
  /\ At(c, "included")
  /\ \E included \in {"unread", IF tx[drop[c].hash].state = "indexed" THEN "yes" ELSE "no"} :
       drop' = [drop EXCEPT ![c].at = "balance", ![c].included = included]
  /\ UNCHANGED <<client, chain>>

ReadBalance(c) ==
  /\ At(c, "balance")
  /\ \E seen \in {NoBalance, Recipient(c)} :
       drop' = [drop EXCEPT ![c].at = "challenge", ![c].seen = seen]
  /\ UNCHANGED <<client, chain>>

\* The last read of a round, and what the round proves.  A round that proves nothing is
\* followed by another until the deadline.
ReadChallenge(c) ==
  /\ At(c, "challenge")
  /\ \E rotated \in {"unread", IF challenge = drop[c].solved THEN "no" ELSE "yes"} :
       LET decision == Classify(drop[c].before, drop[c].included, drop[c].seen, rotated) IN
       \/ decision = "credited" /\ End(c, "credited")
       \/ decision = "lost_race" /\ NextAttempt(c, drop[c].before)
       \/ decision = "unattributable" /\ End(c, "unknown")
       \/ /\ decision = "continue"
          /\ drop' = [drop EXCEPT ![c].at = "included", ![c].included = "unread",
                                  ![c].seen = NoBalance]
          /\ UNCHANGED client
       \/ decision = "continue" /\ End(c, "unknown")
  /\ UNCHANGED chain

RunDrop(c) ==
  \/ StopDrop(c)
  \/ FailDrop(c)
  \/ InspectRecipient(c)
  \/ FetchChallenge(c)
  \/ Solve(c)
  \/ RefreshChallenge(c)
  \/ RereadRecipient(c)
  \/ Submit(c)
  \/ ReadIncluded(c)
  \/ ReadBalance(c)
  \/ ReadChallenge(c)

-----------------------------------------------------------------------------
(* The chain. *)

\* A claim takes effect, or is discarded because its challenge is not the current one.
Execute(x) ==
  LET c == tx[x].call IN
  /\ tx[x].state = "pending"
  /\ IF tx[x].challenge = challenge
     THEN /\ tx' = [tx EXCEPT ![x].state = "executed"]
          /\ challenge' = challenge + 1
          /\ balance' = [balance EXCEPT ![call[c].account] = @ + Prize]
          /\ slipped' = IF At(c, "challenge") THEN slipped \cup {x} ELSE slipped
     ELSE /\ tx' = [tx EXCEPT ![x].state = "discarded"]
          /\ UNCHANGED <<challenge, balance, slipped>>
  /\ UNCHANGED <<client, drop, spent>>

\* The block is stored: the claim can be found by its hash.
Index(x) ==
  /\ tx[x].state = "executed"
  /\ tx' = [tx EXCEPT ![x].state = "indexed"]
  /\ UNCHANGED <<client, drop, challenge, balance, slipped, spent>>

\* Somebody else wins the challenge.
OtherClaim ==
  /\ challenge < Pool
  /\ challenge' = challenge + 1
  /\ UNCHANGED <<client, drop, tx, balance, slipped, spent>>

\* Somebody pays the recipient, or the recipient spends.
Transfer(a) ==
  /\ \/ balance[a] < MaxBalance /\ balance' = [balance EXCEPT ![a] = @ + 1] /\ UNCHANGED spent
     \/ /\ balance[a] > 0
        /\ balance' = [balance EXCEPT ![a] = @ - 1]
        /\ spent' = spent \cup {a}
  /\ UNCHANGED <<client, drop, challenge, tx, slipped>>

Next ==
  \/ \E c \in Call : (RequestDrop(c) /\ UNCHANGED <<drop, chain>>) \/ RunDrop(c)
  \/ \E x \in Hash : Execute(x) \/ Index(x)
  \/ OtherClaim
  \/ \E a \in Account : Transfer(a)

Spec == Init /\ [][Next]_vars

-----------------------------------------------------------------------------
\* A recipient that spends nothing is credited at most once by the drops it was not told had
\* credited it: a drop resubmits only a claim that can no longer pay, and a drop with an
\* unknown outcome is not followed by another.  The claims that slip between the balance and
\* the challenge of a round are the exception.
OneUntoldCredit ==
  \A a \in Account \ spent :
    Cardinality({x \in Executed \ slipped :
                   /\ call[tx[x].call].account = a
                   /\ call[tx[x].call].answer # "credited"}) <= 1

\* A receipt names a claim of the call's own that is on the chain, and the only one of it.
ReceiptIsProven ==
  \A c \in Ran : call[c].answer = "credited" =>
    /\ drop[c].hash \in Sent(c)
    /\ tx[drop[c].hash].state = "indexed"
    /\ call[c].account \notin spent => (Executed \cap Sent(c)) \ slipped \subseteq {drop[c].hash}

\* A drop that ends without a credit and without saying that the outcome is unknown has
\* credited nothing and never will.
FailureCreditsNothing ==
  \A c \in Ran : call[c].answer \in {"failed", "cancelled"} /\ call[c].account \notin spent =>
    \A x \in Sent(c) \ slipped :
      tx[x].state = "discarded" \/ (tx[x].state = "pending" /\ tx[x].challenge < challenge)

\* "At most one on-chain claim results from one (request_key, address) pair for the lifetime
\* of this process, whatever the caller does": here, for a recipient that spends nothing.
AtMostOneClaim ==
  \A c \in Ran : call[c].account \notin spent => Cardinality(Executed \cap Sent(c)) <= 1

=============================================================================
