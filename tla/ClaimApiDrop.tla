---------------------------- MODULE ClaimApiDrop ----------------------------
(***************************************************************************)
(* A drop on a network with a hosted claim service (client.rs,             *)
(* run_claim_api_drop and reconcile_claim_api; v03.rs, ClaimApi): the      *)
(* client posts one claim under its request key, asks the service for its  *)
(* hash, and proves the credit from its own reads of the chain.            *)
(*                                                                         *)
(* The service is ClaimPromise, which claimd is shown to implement.        *)
(* Requests and answers may be late or lost.                               *)
(***************************************************************************)
EXTENDS FaucetClient

CONSTANTS
  Hash,        \* transaction hashes
  MaxMisses,   \* NOT_RECORDED_CONFIRMATIONS
  MaxBalance   \* bound: others do not lift a recipient above this

NoHash == "nohash"

ASSUME HashAssumption   == NoHash \notin Hash
ASSUME MissesAssumption == MaxMisses \in Nat \ {0} /\ MaxBalance \in Nat

VARIABLES
  drop,      \* the locals of run_claim_api_drop and reconcile_claim_api, for each call
  post,      \* the POST of each call
  claim,     \* the service's claims
  sent,      \* the transfers it sent for each
  included,  \* the transfers that are on the chain
  balance,   \* balances of the recipients
  mistaken   \* history: keys whose drop failed although their POST was, or would be, recorded

world == <<post, claim, sent, included, balance>>
vars  == <<client, drop, world, mistaken>>

Service == INSTANCE ClaimPromise WITH Request <- Key, Recipient <- Account

-----------------------------------------------------------------------------
NoDrop == [at |-> "inspect", before |-> NoBalance, hash |-> NoHash, misses |-> 0,
           seen |-> "unread"]
Drop   == [at : {"inspect", "post", "asked", "status", "included", "balance", "over"},
           before : Nat \cup {NoBalance}, hash : Hash \cup {NoHash}, misses : 0..(MaxMisses - 1),
           seen : {"yes", "no", "unread"}]

Claim  == [status : {"queued", "submitted", "included", "failed"}, recipient : Account,
           hash : Hash \cup {NoHash}, error : {"none", "refused", "unknown"}]

TypeOK ==
  /\ ClientTypeOK
  /\ drop     \in [Call -> Drop]
  /\ post     \in [Call -> {"none", "on its way", "recorded", "refused"}]
  /\ claim    \in [Key -> Claim \cup {Service!NoClaim}]
  /\ sent     \in [Key -> SUBSET Hash]
  /\ included \in SUBSET Hash
  /\ balance  \in [Account -> Nat]
  /\ mistaken \in SUBSET Key

Init ==
  /\ ClientInit
  /\ Service!Init
  /\ drop     = [c \in Call |-> NoDrop]
  /\ post     = [c \in Call |-> "none"]
  /\ included = {}
  /\ balance  = [a \in Account |-> 0]
  /\ mistaken = {}

-----------------------------------------------------------------------------
(* The drop of call c. *)

At(c, at)    == call[c].pc = "run" /\ drop[c].at = at
Row(c)       == claim[call[c].key]
Recipient(c) == balance[call[c].account]

\* Of a drop that is over only its receipt matters.
End(c, outcome) ==
  /\ Finish(c, outcome)
  /\ drop' = [drop EXCEPT ![c] = [NoDrop EXCEPT !.at = "over", !.hash = drop[c].hash]]

\* The drop ends as failed whatever became of its POST.
Fail(c) ==
  /\ End(c, "failed")
  /\ mistaken' = IF post[c] \in {"on its way", "recorded"}
                 THEN mistaken \cup {call[c].key} ELSE mistaken

\* Mutant: the service may have been asked already.
StopDropLate(c) ==
  /\ \E at \in {"inspect", "post", "status"} : At(c, at)
  /\ IsCancelled(c)
  /\ End(c, "cancelled")
  /\ UNCHANGED <<world, mistaken>>

StopDrop(c) ==
  /\ \E at \in {"inspect", "post"} : At(c, at)
  /\ IsCancelled(c)
  /\ End(c, "cancelled")
  /\ UNCHANGED <<world, mistaken>>

\* The fingerprint or the balance cannot be read, or is wrong.
FailDrop(c) ==
  /\ At(c, "inspect")
  /\ End(c, "failed")
  /\ UNCHANGED <<world, mistaken>>

InspectRecipient(c) ==
  /\ At(c, "inspect")
  /\ ~IsCancelled(c)
  /\ drop' = [drop EXCEPT ![c].at = "post", ![c].before = Recipient(c)]
  /\ UNCHANGED <<client, world, mistaken>>

Submit(c) ==
  /\ At(c, "post")
  /\ ~IsCancelled(c)
  /\ drop' = [drop EXCEPT ![c].at = "asked"]
  /\ post' = [post EXCEPT ![c] = "on its way"]
  /\ UNCHANGED <<client, claim, sent, included, balance, mistaken>>

\* Mutant: a claim the service failed has moved nothing.
LearnFailure(c) ==
  IF Row(c).status = "failed"
  THEN End(c, "failed")
  ELSE /\ drop' = [drop EXCEPT ![c].at = "included", ![c].hash = Row(c).hash, ![c].misses = 0]
       /\ UNCHANGED client

\* What the service says of the claim.  Its hash is kept; a claim it failed before it had one
\* is over; and in every other case only the chain can prove the credit.
Learn(c) ==
  LET hash == IF drop[c].hash = NoHash THEN Row(c).hash ELSE drop[c].hash IN
  IF Row(c).status = "failed" /\ hash = NoHash
  THEN End(c, IF Row(c).error = "unknown" THEN "unknown" ELSE "failed")
  ELSE /\ drop' = [drop EXCEPT ![c].at = "included", ![c].hash = hash, ![c].misses = 0]
       /\ UNCHANGED client

PostLost(c) ==
  /\ At(c, "asked")
  /\ drop' = [drop EXCEPT ![c].at = "status"]
  /\ UNCHANGED <<client, world, mistaken>>

PostAnswered(c) ==
  /\ At(c, "asked")
  /\ post[c] = "recorded"
  /\ Learn(c)
  /\ UNCHANGED <<world, mistaken>>

\* A refusal, or an answer that is not what it should be.
PostRefused(c) ==
  /\ At(c, "asked")
  /\ post[c] \in {"recorded", "refused"}
  /\ Fail(c)
  /\ UNCHANGED world

\* An absence is believed when it is repeated, and no hash was ever seen.
Believed(c) == drop[c].hash = NoHash /\ drop[c].misses + 1 >= MaxMisses

\* GET /v1/claim/<key>.
AskStatus(c) ==
  /\ At(c, "status")
  /\ \/ /\ Row(c) # Service!NoClaim
        /\ Learn(c)
        /\ UNCHANGED mistaken
     \/ /\ Row(c) = Service!NoClaim
        /\ IF Believed(c)
           THEN Fail(c)
           ELSE /\ drop' = [drop EXCEPT ![c].at = "included", ![c].misses = @ + 1]
                /\ UNCHANGED <<client, mistaken>>
     \/ /\ drop' = [drop EXCEPT ![c].at = "included"]
        /\ UNCHANGED <<client, mistaken>>
  /\ UNCHANGED world

ReadIncluded(c) ==
  /\ At(c, "included")
  /\ \E seen \in {"unread"} \cup (IF drop[c].hash = NoHash THEN {}
                                  ELSE IF drop[c].hash \in included THEN {"yes"} ELSE {"no"}) :
       drop' = [drop EXCEPT ![c].at = "balance", ![c].seen = seen]
  /\ UNCHANGED <<client, world, mistaken>>

\* No challenge can prove a race lost here.  A round that proves nothing is followed by
\* another until the deadline.
ReadBalance(c) ==
  /\ At(c, "balance")
  /\ \E seen \in {NoBalance, Recipient(c)} :
       LET decision == Classify(drop[c].before, drop[c].seen, seen, "unread") IN
       \/ decision = "credited" /\ End(c, "credited")
       \/ decision = "unattributable" /\ End(c, "unknown")
       \/ /\ decision = "continue"
          /\ drop' = [drop EXCEPT ![c].at = "status", ![c].seen = "unread"]
          /\ UNCHANGED client
       \/ decision = "continue" /\ End(c, "unknown")
  /\ UNCHANGED <<world, mistaken>>

RunDrop(c) ==
  \/ StopDrop(c)
  \/ FailDrop(c)
  \/ InspectRecipient(c)
  \/ Submit(c)
  \/ PostAnswered(c)
  \/ PostRefused(c)
  \/ PostLost(c)
  \/ AskStatus(c)
  \/ ReadIncluded(c)
  \/ ReadBalance(c)

-----------------------------------------------------------------------------
(* The service and the chain. *)

\* The POST arrives, perhaps after the client has given up waiting for the answer.
Deliver(c) ==
  LET k == call[c].key IN
  /\ post[c] = "on its way"
  /\ \/ /\ Service!Accept(k)
        /\ claim'[k].recipient = call[c].account
        /\ post' = [post EXCEPT ![c] = "recorded"]
     \/ /\ post' = [post EXCEPT ![c] = "refused"]
        /\ UNCHANGED <<claim, sent>>
  /\ UNCHANGED <<client, drop, included, balance, mistaken>>

Serve(k) ==
  /\ Service!Pay(k) \/ Service!Acknowledge(k) \/ Service!Confirm(k) \/ Service!GiveUp(k)
  /\ UNCHANGED <<client, drop, post, included, balance, mistaken>>

Include(k) ==
  /\ \E x \in sent[k] \ included : included' = included \cup {x}
  /\ balance' = [balance EXCEPT ![claim[k].recipient] = @ + Prize]
  /\ UNCHANGED <<client, drop, post, claim, sent, mistaken>>

Transfer(a) ==
  /\ \/ balance[a] < MaxBalance /\ balance' = [balance EXCEPT ![a] = @ + 1]
     \/ balance[a] > 0 /\ balance' = [balance EXCEPT ![a] = @ - 1]
  /\ UNCHANGED <<client, drop, post, claim, sent, included, mistaken>>

Next ==
  \/ \E c \in Call : (RequestDrop(c) /\ UNCHANGED <<drop, world, mistaken>>)
                       \/ RunDrop(c) \/ Deliver(c)
  \/ \E k \in Key : Serve(k) \/ Include(k)
  \/ \E a \in Account : Transfer(a)

Spec == Init /\ [][Next]_vars

-----------------------------------------------------------------------------
\* The keys for which the service sent something and then reported that it had not.
Forgotten == {k \in Key : /\ claim[k] # Service!NoClaim
                          /\ claim[k].error = "refused"
                          /\ sent[k] # {}}

\* A recipient is sent a transfer by at most one of the drops that were not reported to it as
\* credited: an unknown outcome keeps it from asking again.  The exceptions are a drop that
\* failed while its POST was recorded or on its way, and a service that sent and forgot.
OneUntoldCredit ==
  \A a \in Account :
    Cardinality({c \in Ran : /\ call[c].account = a
                             /\ call[c].answer # "credited"
                             /\ call[c].key \notin mistaken \cup Forgotten
                             /\ sent[call[c].key] # {}}) <= 1

\* A receipt names a transfer that the service sent for this very key and that is on the chain.
ReceiptIsProven ==
  \A c \in Ran : call[c].answer = "credited" =>
    drop[c].hash \in sent[call[c].key] \cap included

\* A drop that ends as cancelled never asked the service for anything, whenever the
\* cancellation came.
CancelledAskedNothing ==
  \A c \in Ran : call[c].answer = "cancelled" => post[c] = "none" /\ Row(c) = Service!NoClaim

\* A drop that ends as failed has no claim that may still be sent for: the service has none, or
\* has given it up as not sent.  The exceptions are the drops whose POST was recorded, or was on
\* its way, without their knowing.
FailureIsFinal ==
  \A c \in Ran : call[c].answer = "failed" /\ call[c].key \notin mistaken =>
    Row(c) = Service!NoClaim \/ (Row(c).status = "failed" /\ Row(c).error = "refused")

=============================================================================
