------------------------------ MODULE DropGates ------------------------------
(***************************************************************************)
(* The gates a drop passes before it sends anything, and the status and    *)
(* the inspection that tell the user beforehand whether it will (client.rs,*)
(* get_info, inspect_recipient, and run_pinata_drop and run_claim_api_drop *)
(* up to the submission; solver.rs, Challenge; v03.rs, ClaimApi).          *)
(*                                                                         *)
(* Each gate is a read of its own, and the network changes between reads.  *)
(* What becomes of a submission is in PinataDrop and ClaimApiDrop.         *)
(***************************************************************************)
EXTENDS Integers

CONSTANTS
  Seed,           \* the seeds of challenges
  Difficulty,     \* difficulties a challenge may declare
  MaxDifficulty,  \* MAX_SUPPORTED_DIFFICULTY
  Prize,          \* the prize of the network's row
  Pools,          \* balances of the pool, or of the service's hot account
  Balances,       \* balances of the recipient
  Waiting,        \* numbers of claims that wait at the service for their payout
  Reserve,        \* the service's fee reserve
  MaxBalance,     \* the largest balance, u128::MAX
  MaxRetries      \* max_stale_challenge_retries

ASSUME PrizeAssumption    == Prize \in Nat \ {0}
ASSUME BalanceAssumption  == /\ MaxBalance \in Nat /\ Balances \subseteq 0..MaxBalance
                             /\ Pools \subseteq Nat
ASSUME ServiceAssumption  == Waiting \subseteq Nat /\ Reserve \in Nat
ASSUME GateAssumption     == Difficulty \subseteq Nat /\ MaxDifficulty \in 0..32
ASSUME RetriesAssumption  == MaxRetries \in Nat

VARIABLES
  network,  \* the claim mechanism of the client's network
  world,    \* what the network would answer
  shown,    \* the status and the inspection the user last saw
  same,     \* history: nothing changed since they were read
  drop,     \* the drop's locals, and how it ended
  held      \* history: the gates that were open at some time since the work was done

vars == <<network, world, shown, same, drop, held>>

-----------------------------------------------------------------------------
(* The network. *)

\* The ids the network reports for its programs: this build's, or not (another, or none).
Programs  == {"expected", "other"}
Challenge == [seed : Seed, difficulty : Difficulty]
Account   == {[owner |-> "nobody", balance |-> 0]}
               \cup [owner : {"transfer", "other"}, balance : Balances]

\* Short: not the 33 bytes a challenge has.
Short   == [seed |-> "short", difficulty |-> 0]
Nothing == [seed |-> "nothing", difficulty |-> 0]

PinataAccount == [owned : BOOLEAN, data : Challenge \cup {Short}, pool : Pools]

\* A claim service as its handlers see it, through their caches: left is what the day's limit
\* still admits; limited, that another limit is reached, the recipient's, the address's or the
\* hour's; pending, the claims recorded and not settled.
Service ==
  [paused : BOOLEAN, prize : {Prize, Prize + 1}, left : {0, 1}, limited : BOOLEAN,
   pending : Waiting, pool : Pools]

World(n) ==
  [programs : Programs, account : Account,
   faucet : IF n = "pinata" THEN PinataAccount ELSE Service]

-----------------------------------------------------------------------------
(* The reads, and what each makes of the world. *)

\* A code, or `ok`.
VerifyFingerprint(w) == IF w.programs = "expected" THEN "ok" ELSE "program_fingerprint_mismatch"

\* Challenge::parse, and then pinata_state.
PinataState(w) ==
  IF ~w.faucet.owned THEN "pinata_wrong_owner"
  ELSE IF w.faucet.data = Short \/ w.faucet.data.difficulty > 32 THEN "invalid_challenge"
  ELSE "ok"

EnsureSupported(w) ==
  IF w.faucet.data.difficulty > MaxDifficulty THEN "unsupported_difficulty" ELSE "ok"

RequirePoolCanPay(w) == IF w.faucet.pool < Prize THEN "pool_depleted" ELSE "ok"

\* An account nobody has initialized, or that another program manages, is refused; on a network
\* with a claim service every account will do.
Inspect(w) ==
  IF network = "claim_api" THEN "ok"
  ELSE IF w.account.owner = "nobody" THEN "recipient_uninitialized"
  ELSE IF w.account.owner # "transfer" THEN "recipient_wrong_owner"
  ELSE "ok"

CanAccept(w) ==
  IF w.account.balance + Prize > MaxBalance THEN "recipient_balance_overflow" ELSE "ok"

\* The first code that is not `ok`.
First(codes) == IF \A i \in DOMAIN codes : codes[i] = "ok" THEN "ok"
                ELSE codes[CHOOSE i \in DOMAIN codes :
                       codes[i] # "ok" /\ \A j \in DOMAIN codes : j < i => codes[j] = "ok"]

\* Mutant: a pool that is not empty can pay.
PinataInfoNotEmpty(w) ==
  IF First(<<VerifyFingerprint(w), PinataState(w)>>) # "ok"
  THEN First(<<VerifyFingerprint(w), PinataState(w)>>)
  ELSE IF w.faucet.pool = 0 THEN "pool_depleted" ELSE EnsureSupported(w)

\* pinata_info: an error, or the reason that blocks a claim, or `ok`.
PinataInfo(w) ==
  IF First(<<VerifyFingerprint(w), PinataState(w)>>) # "ok"
  THEN First(<<VerifyFingerprint(w), PinataState(w)>>)
  ELSE First(<<RequirePoolCanPay(w), EnsureSupported(w)>>)

\* claimd's `claims_remaining` is 0: it counts neither what is pending nor the other limits.
NothingRemains(f) == f.left = 0 \/ f.pool < f.prize + Reserve

ClaimApiInfo(w) ==
  IF VerifyFingerprint(w) # "ok" THEN VerifyFingerprint(w)
  ELSE IF w.faucet.paused THEN "faucet_paused"
  ELSE IF w.faucet.prize # Prize THEN "prize_mismatch"
  ELSE IF NothingRemains(w.faucet) THEN "pool_depleted"
  ELSE RequirePoolCanPay(w)

GetInfo(w) == IF network = "pinata" THEN PinataInfo(w) ELSE ClaimApiInfo(w)

\* claimd's answer to a claim under a new key, in the client's codes (map_service_error calls
\* hot_balance_low pool_depleted): the funds have to cover what is pending as well.
ServiceAnswers(w) ==
  IF w.faucet.paused THEN "faucet_paused"
  ELSE IF w.faucet.limited \/ w.faucet.left = 0 THEN "rate_limited"
  ELSE IF w.faucet.pool < w.faucet.prize * (w.faucet.pending + 1) + Reserve THEN "pool_depleted"
  ELSE "ok"

-----------------------------------------------------------------------------
NoDrop == [at |-> "idle", attempt |-> 0, before |-> 0, solved |-> Nothing, end |-> "none"]

Code == {"program_fingerprint_mismatch", "pinata_wrong_owner", "invalid_challenge",
         "unsupported_difficulty", "pool_depleted", "recipient_uninitialized",
         "recipient_wrong_owner", "recipient_balance_overflow", "faucet_paused", "prize_mismatch",
         "rate_limited"}

TypeOK ==
  /\ network \in {"pinata", "claim_api"}
  /\ world   \in World(network)
  /\ shown   \in [info : Code \cup {"ok"}, recipient : Code \cup {"ok"}]
  /\ same    \in BOOLEAN
  /\ drop    \in [at : {"idle", "programs", "recipient", "fetch", "solve", "programs again",
                        "pinata again", "recipient again", "submit", "over"},
                  attempt : 0..MaxRetries, before : 0..MaxBalance,
                  solved : Challenge \cup {Nothing},
                  end : Code \cup {"none", "unreachable", "cancelled", "stale", "sent", "failed"}]
  /\ held    \subseteq {"programs", "faucet", "recipient"}

Init ==
  /\ network \in {"pinata", "claim_api"}
  /\ world   \in World(network)
  /\ shown   = [info |-> GetInfo(world), recipient |-> Inspect(world)]
  /\ same    = TRUE
  /\ drop    = NoDrop
  /\ held    = {}

\* The gates that are open for what the drop has in hand.
Open(w, d) ==
  {g \in {"programs", "faucet", "recipient"} :
     CASE g = "programs"  -> VerifyFingerprint(w) = "ok"
       [] g = "faucet"    -> \/ network = "claim_api"
                             \/ /\ PinataState(w) = "ok" /\ w.faucet.data = d.solved
                                /\ EnsureSupported(w) = "ok" /\ RequirePoolCanPay(w) = "ok"
       [] g = "recipient" -> Inspect(w) = "ok" /\ w.account.balance = d.before}

-----------------------------------------------------------------------------
(* The drop: one read a step. *)

End(code) == drop' = [NoDrop EXCEPT !.at = "over", !.end = code]

\* Goes on if the gate is open, with the locals changed as in `next`.
Pass(gate, next) ==
  /\ IF gate = "ok" THEN drop' = next ELSE End(gate)
  /\ UNCHANGED <<network, world, shown, same, held>>

Press ==
  /\ drop.at = "idle"
  /\ drop' = [NoDrop EXCEPT !.at = "programs"]
  /\ held' = {}
  /\ UNCHANGED <<network, world, shown, same>>

\* A read fails, or the user cancels before a step that looks at the cancellation.
Break ==
  /\ \/ /\ drop.at \in {"programs", "recipient", "fetch", "programs again", "pinata again",
                        "recipient again"}
        /\ End("unreachable")
     \/ /\ drop.at \in {"programs", "recipient", "fetch", "solve", "programs again", "submit"}
        /\ End("cancelled")
  /\ UNCHANGED <<network, world, shown, same, held>>

ReadPrograms ==
  /\ drop.at = "programs"
  /\ Pass(VerifyFingerprint(world), [drop EXCEPT !.at = "recipient"])

ReadRecipient ==
  /\ drop.at = "recipient"
  /\ Pass(First(<<Inspect(world), CanAccept(world)>>),
          [drop EXCEPT !.at = IF network = "pinata" THEN "fetch" ELSE "submit",
                       !.before = world.account.balance])

FetchChallenge ==
  /\ drop.at = "fetch"
  /\ LET gate == IF PinataState(world) # "ok" THEN PinataState(world)
                 ELSE First(<<EnsureSupported(world), RequirePoolCanPay(world)>>) IN
     Pass(gate, [drop EXCEPT !.at = "solve", !.solved = world.faucet.data])

\* From here on every gate has to be found open once more.
Solve ==
  /\ drop.at = "solve"
  /\ \/ drop' = [drop EXCEPT !.at = "programs again"] /\ held' = Open(world, drop)
     \/ End("failed") /\ UNCHANGED held
  /\ UNCHANGED <<network, world, shown, same>>

ReadProgramsAgain ==
  /\ drop.at = "programs again"
  /\ Pass(VerifyFingerprint(world), [drop EXCEPT !.at = "pinata again"])

\* What was solved or measured is stale: another attempt, if one is left.
Retry(before) ==
  IF drop.attempt < MaxRetries
  THEN drop' = [NoDrop EXCEPT !.at = "fetch", !.attempt = drop.attempt + 1, !.before = before]
  ELSE End("stale")

\* Mutant: the challenge is compared, and the pool is not looked at again.
ReadPinataAgainUnpaid ==
  /\ drop.at = "pinata again"
  /\ IF PinataState(world) # "ok" THEN End(PinataState(world))
     ELSE IF world.faucet.data # drop.solved THEN Retry(drop.before)
     ELSE drop' = [drop EXCEPT !.at = "recipient again"]
  /\ UNCHANGED <<network, world, shown, same, held>>

ReadPinataAgain ==
  /\ drop.at = "pinata again"
  /\ IF PinataState(world) # "ok" THEN End(PinataState(world))
     ELSE IF world.faucet.data # drop.solved THEN Retry(drop.before)
     ELSE IF RequirePoolCanPay(world) # "ok" THEN End(RequirePoolCanPay(world))
     ELSE drop' = [drop EXCEPT !.at = "recipient again"]
  /\ UNCHANGED <<network, world, shown, same, held>>

ReadRecipientAgain ==
  /\ drop.at = "recipient again"
  /\ IF Inspect(world) # "ok" THEN End(Inspect(world))
     ELSE IF world.account.balance = drop.before THEN drop' = [drop EXCEPT !.at = "submit"]
     ELSE IF CanAccept(world) # "ok" THEN End(CanAccept(world))
     ELSE Retry(world.account.balance)
  /\ UNCHANGED <<network, world, shown, same, held>>

\* The claim is sent, or the service refuses it, or it cannot be built or does not arrive.
Submit ==
  /\ drop.at = "submit"
  /\ \/ network = "pinata" /\ End("sent")
     \/ network = "claim_api" /\ End(IF ServiceAnswers(world) = "ok" THEN "sent"
                                     ELSE ServiceAnswers(world))
     \/ End("failed")
  /\ UNCHANGED <<network, world, shown, same, held>>

RunDrop ==
  \/ Press
  \/ Break
  \/ ReadPrograms
  \/ ReadRecipient
  \/ FetchChallenge
  \/ Solve
  \/ ReadProgramsAgain
  \/ ReadPinataAgain
  \/ ReadRecipientAgain
  \/ Submit

-----------------------------------------------------------------------------
\* get_info and inspect_recipient; the user is done with the last drop.
Look ==
  /\ shown' = [info |-> GetInfo(world), recipient |-> Inspect(world)]
  /\ same' = (drop.at \in {"idle", "over"})
  /\ drop' = IF drop.at = "over" THEN NoDrop ELSE drop
  /\ UNCHANGED <<network, world, held>>

\* The network changes, one thing at a time.
Change ==
  /\ \/ \E p \in Programs : world' = [world EXCEPT !.programs = p]
     \/ \E a \in Account : world' = [world EXCEPT !.account = a]
     \/ \E f \in IF network = "pinata" THEN PinataAccount ELSE Service :
          world' = [world EXCEPT !.faucet = f]
  /\ same' = FALSE
  /\ held' = IF drop.at \in {"programs again", "pinata again", "recipient again"}
             THEN held \cup Open(world', drop) ELSE held
  /\ UNCHANGED <<network, shown, drop>>

Next == RunDrop \/ Look \/ Change

Spec == Init /\ [][Next]_vars

-----------------------------------------------------------------------------
\* The refusals that the status of a claim service does not announce: a limit other than the
\* day's, and funds that cover a claim but not the pending ones before it.
Unannounced(code) ==
  /\ network = "claim_api"
  /\ \/ code = "rate_limited" /\ world.faucet.limited /\ world.faucet.left > 0
     \/ /\ code = "pool_depleted" /\ world.faucet.pending > 0
        /\ world.faucet.pool >= world.faucet.prize + Reserve

\* When nothing has changed since the user looked, a drop does what he was told: it is refused
\* at a gate only if the status or the inspection said so, and it sends only if neither did.
\* The exceptions are the refusals above, a balance too large for the prize, which the
\* inspection does not mind, and a service that pays another prize, which the drop does not.
StatusAgreesWithDrop ==
  same /\ drop.at = "over" =>
    /\ drop.end \in Code \ {"recipient_balance_overflow"} =>
         shown.info # "ok" \/ shown.recipient # "ok" \/ Unannounced(drop.end)
    /\ drop.end = "sent" => shown.info \in {"ok", "prize_mismatch"} /\ shown.recipient = "ok"

\* "Re-establish every gate immediately before submitting": each gate was open, for the
\* challenge that was solved and the balance the credit will be measured from, at some time
\* after the work was done, however the network changed meanwhile.
GatesHeldAfterTheWork ==
  network = "pinata" /\ drop.at = "submit" => held = {"programs", "faucet", "recipient"}

=============================================================================
