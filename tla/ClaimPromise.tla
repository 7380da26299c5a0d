---------------------------- MODULE ClaimPromise ----------------------------
(***************************************************************************)
(* What the claim service promises its clients (claimd/README.md, "API"),  *)
(* with no worker, no handlers and no faults: a request id names one claim *)
(* for one recipient; money is sent only for a claim that is queued; a     *)
(* claim that names its transfer is never paid for again; and its outcome, *)
(* once given, stands.                                                     *)
(***************************************************************************)
CONSTANTS Request, Recipient, Hash, NoHash

VARIABLES
  claim,   \* what GET /v1/claim/<id> would answer for each request id
  sent     \* the transfers sent for each request id

NoClaim == [status |-> "none"]

Claim(status, recipient, hash, error) ==
  [status |-> status, recipient |-> recipient, hash |-> hash, error |-> error]

Init ==
  /\ claim = [r \in Request |-> NoClaim]
  /\ sent  = [r \in Request |-> {}]

Accept(r) ==
  /\ claim[r] = NoClaim
  /\ \E a \in Recipient :
       claim' = [claim EXCEPT ![r] = Claim("queued", a, NoHash, "none")]
  /\ UNCHANGED sent

Pay(r) ==
  /\ claim[r].status = "queued"
  /\ \E x \in Hash :
       /\ \A q \in Request : x \notin sent[q]
       /\ sent' = [sent EXCEPT ![r] = @ \cup {x}]
  /\ UNCHANGED claim

Acknowledge(r) ==
  /\ claim[r].status = "queued"
  /\ \E x \in sent[r] :
       claim' = [claim EXCEPT ![r] = Claim("submitted", @.recipient, x, @.error)]
  /\ UNCHANGED sent

Confirm(r) ==
  /\ claim[r].status = "submitted"
  /\ claim' = [claim EXCEPT ![r].status = "included"]
  /\ UNCHANGED sent

\* A claim that names its transfer is given up only with an unknown outcome.
GiveUp(r) ==
  /\ claim[r].status \in {"queued", "submitted"}
  /\ \E error \in {"refused", "unknown"} :
       /\ claim[r].hash # NoHash => error = "unknown"
       /\ claim' = [claim EXCEPT ![r] = Claim("failed", @.recipient, @.hash, error)]
  /\ UNCHANGED sent

Next == \E r \in Request : Accept(r) \/ Pay(r) \/ Acknowledge(r) \/ Confirm(r) \/ GiveUp(r)

Spec == Init /\ [][Next]_<<claim, sent>>

=============================================================================
