--------------------------- MODULE ClaimApiProofs ---------------------------
(***************************************************************************)
(* What a drop through the claim service guarantees, for every number of   *)
(* calls, keys, accounts and transfers: a key is run once, a cancelled     *)
(* drop asked for nothing, nothing comes of a failed one, a receipt is of  *)
(* a transfer for its key, and a recipient has at most one transfer that   *)
(* it was not told of.                                                     *)
(***************************************************************************)
EXTENDS ClaimApiDrop, FaucetClientProofs, FiniteSetTheorems

-----------------------------------------------------------------------------
(* The inductive invariant. *)

\* The service says that it sent nothing for the claim.
GivenUp(k) == claim[k].status = "failed" /\ claim[k].error = "refused"

\* What a call knows, and what it has asked for; and, of a drop that failed, why no transfer may
\* come of it.
DropFits(c) ==
  /\ c \notin Ran => drop[c] = NoDrop /\ post[c] = "none"
  /\ drop[c].at \in {"inspect", "post"} => post[c] = "none"
  /\ post[c] = "recorded" => claim[call[c].key] # Service!NoClaim
  /\ drop[c].hash = NoHash \/ drop[c].hash \in sent[call[c].key]
  /\ drop[c].seen = "yes" => drop[c].at = "balance" /\ drop[c].hash \in included
  /\ c \in Ran /\ call[c].answer = "cancelled" => post[c] = "none"
  /\ c \in Ran /\ call[c].answer = "credited" =>
       drop[c].hash # NoHash /\ drop[c].hash \in included
  /\ c \in Ran /\ call[c].answer = "failed" =>
       \/ call[c].key \in mistaken
       \/ post[c] \in {"none", "refused"}
       \/ GivenUp(call[c].key)

\* A claim was posted by a drop of its key; it has sent, and names, only transfers of its own.
ClaimFits(k) ==
  /\ claim[k] # Service!NoClaim =>
       /\ claim[k].hash = NoHash \/ claim[k].hash \in sent[k]
       /\ claim[k].status = "failed" => claim[k].error # "none"
       /\ \E c \in Ran : call[c].key = k /\ post[c] = "recorded"
  /\ sent[k] # {} => claim[k] # Service!NoClaim

Inv ==
  /\ TypeOK
  /\ ClientInv
  /\ Reconciled /\ UnknownIsAlone
  /\ \A c \in Call : DropFits(c)
  /\ \A k \in Key : ClaimFits(k)

-----------------------------------------------------------------------------
(* Steps of request_drop around the drop. *)

LEMMA RequestStep ==
  ASSUME Inv, NEW c \in Call, RequestDrop(c), UNCHANGED <<drop, world, mistaken>>
  PROVE  Inv'
  <1>0. TypeOK /\ ClientInv /\ (\A d \in Call : DropFits(d)) /\ (\A k \in Key : ClaimFits(k))
    BY DEF Inv
  <1>1. UNCHANGED <<drop, post, claim, sent, included, balance, mistaken>>
    BY DEF world
  <1>2. ClientInv'
    BY <1>0, ClientInvNext DEF ClientNext
  <1>3. TypeOK'
    BY <1>0, <1>1, <1>2 DEF TypeOK, ClientInv, Claim, Drop, Service!NoClaim
  <1>4. Reconciled' /\ UnknownIsAlone'
    BY <1>0, ReconciledRequest DEF Inv
  <1>5. ASSUME NEW d \in Call
        PROVE  DropFits(d)'
    <2>1. CASE d \in Ran
      <3>1. d \in Ran' /\ call'[d].key = call[d].key /\ call'[d].answer = call[d].answer
        BY <1>0, <2>1, RequestKeepsRuns DEF RequestKeeps, Ran
      <3>2. QED
        BY <1>0, <1>1, <2>1, <3>1 DEF DropFits, GivenUp
    <2>2. CASE d \notin Ran
      <3>1. drop[d] = NoDrop /\ post[d] = "none"
        BY <1>0, <2>2 DEF DropFits
      <3>2. d \in Ran' => call'[d].answer = "none"
        BY <1>0, <2>2, RequestKeepsRuns DEF RequestKeeps
      <3>3. QED
        BY <1>1, <3>1, <3>2 DEF DropFits, NoDrop
    <2>3. QED
      BY <2>1, <2>2
  <1>6. ASSUME NEW k \in Key
        PROVE  ClaimFits(k)'
    BY <1>0, <1>1, RequestKeepsRuns DEF RequestKeeps, Ran, ClaimFits, Service!NoClaim
  <1>7. QED
    BY <1>2, <1>3, <1>4, <1>5, <1>6 DEF Inv

-----------------------------------------------------------------------------
(* Steps of a drop. *)

\* What every step of RunDrop does.  The outcome it may come to is credited only with a
\* transfer seen on the chain, cancelled only when nothing was posted, and failed only when
\* nothing was recorded, or mistakenly, or when the service has given the claim up.
DropStep(c) ==
  /\ call[c].pc = "run"
  /\ UNCHANGED <<claim, sent, included, balance>>
  /\ mistaken' \in SUBSET Key /\ mistaken \subseteq mistaken'
  /\ drop' \in [Call -> Drop] /\ \A d \in Call \ {c} : drop'[d] = drop[d]
  /\ post' \in [Call -> {"none", "on its way", "recorded", "refused"}]
  /\ \A d \in Call \ {c} : post'[d] = post[d]
  /\ post'[c] = post[c] \/ (post[c] = "none" /\ post'[c] = "on its way")
  /\ drop'[c].at \in {"inspect", "post"} => post'[c] = "none"
  /\ \/ drop'[c].hash = drop[c].hash
     \/ Row(c) # Service!NoClaim /\ drop'[c].hash = Row(c).hash
  /\ drop'[c].seen = "yes" => drop'[c].at = "balance" /\ drop'[c].hash \in included
  /\ \/ UNCHANGED client
     \/ \E outcome \in Outcome :
          /\ Finish(c, outcome)
          /\ outcome = "cancelled" => IsCancelled(c) /\ post'[c] = "none"
          /\ outcome = "failed" => \/ call[c].key \in mistaken'
                                   \/ post'[c] \in {"none", "refused"}
                                   \/ GivenUp(call[c].key)
          /\ outcome = "credited" =>
               drop'[c].hash # NoHash /\ drop'[c].hash \in included

LEMMA DropStepKeeps ==
  ASSUME Inv, NEW c \in Call, DropStep(c)
  PROVE  Inv'
  <1>0. TypeOK /\ ClientInv /\ (\A d \in Call : DropFits(d)) /\ (\A k \in Key : ClaimFits(k))
    BY DEF Inv
  <1>1. call[c] \in Begun /\ call[c].ran = TRUE /\ c \in Ran /\ call[c].key \in Key
    <2>1. /\ call[c] \in Begun /\ CallFits(c) /\ call[c].ran \in BOOLEAN /\ c \in Born
          /\ call[c].key \in Key
      BY <1>0, BegunFacts DEF DropStep, ClientInv, CallsFit
    <2>2. call[c].ran = TRUE
      BY <2>1 DEF CallFits, DropStep
    <2>3. QED
      BY <2>1, <2>2 DEF Ran
  <1>2. ClientInv'
    <2>1. UNCHANGED client \/ EndsDrop(c)
      BY DEF DropStep, EndsDrop
    <2>2. QED
      BY <1>0, <2>1, ClientInvNext DEF ClientNext
  <1>3. /\ \A d \in Call : d \in Ran' <=> d \in Ran
        /\ \A d \in Call : call'[d].key = call[d].key
        /\ \A d \in Call \ {c} : call'[d] = call[d]
    <2>1. CASE UNCHANGED client
      BY <2>1 DEF client, Ran, Born
    <2>2. CASE \E outcome \in Outcome : Finish(c, outcome)
      <3>1. PICK outcome \in Outcome : Finish(c, outcome)
        BY <2>2
      <3>2. Moves(c, "record", TRUE, outcome)
        BY <1>0, <1>1, <3>1, FinishMoves DEF DropStep, ClientInv
      <3>3. c \in Ran' /\ \A d \in Call \ {c} : d \in Ran' <=> d \in Ran
        BY <1>0, <3>2, BornMoves DEF ClientInv, Pc
      <3>4. QED
        BY <1>1, <3>2, <3>3 DEF Moves
    <2>3. QED
      BY <2>1, <2>2 DEF DropStep
  <1>4. \/ call'[c].answer = call[c].answer
        \/ /\ call'[c].answer = "cancelled" => post'[c] = "none"
           /\ call'[c].answer = "credited" =>
                drop'[c].hash # NoHash /\ drop'[c].hash \in included
           /\ call'[c].answer = "failed" => \/ call[c].key \in mistaken'
                                            \/ post'[c] \in {"none", "refused"}
                                            \/ GivenUp(call[c].key)
    <2>1. CASE UNCHANGED client
      BY <2>1 DEF client
    <2>2. ASSUME NEW outcome \in Outcome, Finish(c, outcome)
          PROVE  call'[c].answer = outcome
      <3>1. Moves(c, "record", TRUE, outcome)
        BY <1>0, <1>1, <2>2, FinishMoves DEF DropStep, ClientInv
      <3>2. QED
        BY <3>1 DEF Moves
    <2>3. QED
      BY <2>1, <2>2 DEF DropStep
  <1>5. call[c].answer = "none"
    BY <1>0, <1>1 DEF ClientInv, CallsFit, CallFits, DropStep, Ran
  <1>6. TypeOK'
    <2>1. /\ UNCHANGED <<claim, sent, included, balance>>
          /\ mistaken' \in SUBSET Key /\ drop' \in [Call -> Drop]
          /\ post' \in [Call -> {"none", "on its way", "recorded", "refused"}]
      BY DEF DropStep
    <2>2. ClientTypeOK'
      BY <1>2 DEF ClientInv
    <2>3. QED
      BY <1>0, <2>1, <2>2 DEF TypeOK, Claim, Drop, Service!NoClaim
  <1>7. ASSUME NEW d \in Call
        PROVE  DropFits(d)'
    <2>1. CASE d # c
      <3>1. /\ drop'[d] = drop[d] /\ post'[d] = post[d] /\ call'[d] = call[d]
            /\ UNCHANGED <<sent, included>> /\ (d \in Ran' <=> d \in Ran)
        BY <1>3, <2>1 DEF DropStep
      <3>2. UNCHANGED claim /\ mistaken \subseteq mistaken'
        BY DEF DropStep
      <3>3. QED
        BY <1>0, <3>1, <3>2 DEF DropFits, NoDrop, Service!NoClaim, GivenUp
    <2>2. CASE d = c
      <3>1. drop'[c].hash = NoHash \/ drop'[c].hash \in sent[call[c].key]
        BY <1>0, <1>1 DEF DropFits, ClaimFits, DropStep, Row
      <3>2. post[c] = "recorded" => claim[call[c].key] # Service!NoClaim
        BY <1>0 DEF DropFits
      <3>3. UNCHANGED <<claim, sent, included>> /\ mistaken \subseteq mistaken'
        BY DEF DropStep
      <3>4. c \in Ran' /\ call'[c].key = call[c].key
        BY <1>1, <1>3
      <3>5. /\ drop'[c].at \in {"inspect", "post"} => post'[c] = "none"
            /\ drop'[c].seen = "yes" => drop'[c].at = "balance" /\ drop'[c].hash \in included
        BY DEF DropStep
      <3>6. post'[c] = "recorded" => post[c] = "recorded"
        BY DEF DropStep
      <3>7. /\ call'[c].answer = "cancelled" => post'[c] = "none"
            /\ call'[c].answer = "credited" => drop'[c].hash # NoHash /\ drop'[c].hash \in included
            /\ call'[c].answer = "failed" => \/ call[c].key \in mistaken'
                                             \/ post'[c] \in {"none", "refused"}
                                             \/ GivenUp(call[c].key)
        BY <1>4, <1>5
      <3>8. GivenUp(call[c].key) => GivenUp(call[c].key)'
        BY <3>3, <3>4 DEF GivenUp
      <3>9. DropFits(c)'
        BY <3>1, <3>2, <3>3, <3>4, <3>5, <3>6, <3>7, <3>8 DEF DropFits, Service!NoClaim
      <3>10. QED
        BY <2>2, <3>9
    <2>3. QED
      BY <2>1, <2>2
  <1>8. ASSUME NEW k \in Key
        PROVE  ClaimFits(k)'
    <2>1. \A d \in Ran : d \in Call /\ (post[d] = "recorded" => post'[d] = "recorded")
      BY <1>1 DEF DropStep, Ran, Born
    <2>2. QED
      <3>1. UNCHANGED <<claim, sent>>
        BY DEF DropStep
      <3>2. \A d \in Ran : d \in Ran' /\ call'[d].key = call[d].key
        BY <1>3, <2>1
      <3>3. QED
        BY <1>0, <2>1, <3>1, <3>2 DEF ClaimFits, Service!NoClaim
  <1>9. Reconciled' /\ UnknownIsAlone'
    BY <1>0, ReconciledStutter, ReconciledFinish DEF DropStep, Inv
  <1>10. QED
    BY <1>2, <1>6, <1>7, <1>8, <1>9 DEF Inv

LEMMA RunDropSteps ==
  ASSUME Inv, NEW c \in Call, RunDrop(c)
  PROVE  DropStep(c)
  <1>0. /\ drop \in [Call -> Drop] /\ claim \in [Key -> Claim \cup {Service!NoClaim}]
        /\ post \in [Call -> {"none", "on its way", "recorded", "refused"}]
        /\ balance \in [Account -> Nat] /\ mistaken \in SUBSET Key /\ DropFits(c)
    BY DEF Inv, TypeOK
  <1>1. call[c].pc = "run"
    BY DEF RunDrop, StopDrop, FailDrop, InspectRecipient, Submit, PostAnswered, PostRefused,
           PostLost, AskStatus, ReadIncluded, ReadBalance, At
  <1>2. call[c].key \in Key /\ call[c].account \in Account /\ Recipient(c) \in Nat
    BY <1>0, <1>1, BegunFacts DEF Inv, ClientInv, Recipient
  <1>3. drop[c] \in Drop /\ NoDrop \in Drop /\ 0 \in 0..(MaxMisses - 1)
    <2>1. 0 \in 0..(MaxMisses - 1)
      BY MissesAssumption
    <2>2. QED
      BY <1>0, <2>1 DEF Drop, NoDrop
  \* The drop ends; its hash stays.
  <1>4. ASSUME NEW outcome \in Outcome \ {"credited"}, End(c, outcome), UNCHANGED world,
               mistaken' \in SUBSET Key, mistaken \subseteq mistaken',
               outcome = "cancelled" => IsCancelled(c) /\ post[c] = "none",
               outcome = "failed" => \/ call[c].key \in mistaken'
                                     \/ post[c] \in {"none", "refused"}
                                     \/ GivenUp(call[c].key)
        PROVE  DropStep(c)
    <2>1. /\ drop' \in [Call -> Drop] /\ \A d \in Call \ {c} : drop'[d] = drop[d]
          /\ drop'[c].hash = drop[c].hash /\ drop'[c].at = "over" /\ drop'[c].seen = "unread"
      BY <1>0, <1>3, <1>4 DEF End, Drop, NoDrop
    <2>2. Finish(c, outcome)
      BY <1>4 DEF End
    <2>3. UNCHANGED <<post, claim, sent, included, balance>>
      BY <1>4 DEF world
    <2>4. QED
      BY <1>0, <1>1, <1>4, <2>1, <2>2, <2>3 DEF DropStep
  <1>5. ASSUME Fail(c), UNCHANGED world
        PROVE  DropStep(c)
    <2>1. /\ mistaken' \in SUBSET Key /\ mistaken \subseteq mistaken'
          /\ call[c].key \in mistaken' \/ post[c] \in {"none", "refused"}
      BY <1>0, <1>2, <1>5 DEF Fail
    <2>2. QED
      BY <1>4, <1>5, <2>1 DEF Fail, Outcome
  \* The drop goes on; nothing is asked for.
  <1> DEFINE GoesOn == /\ drop' \in [Call -> Drop]
                       /\ \A d \in Call \ {c} : drop'[d] = drop[d]
                       /\ UNCHANGED <<client, world, mistaken>>
  <1>6. ASSUME GoesOn,
               \/ drop'[c].hash = drop[c].hash
               \/ Row(c) # Service!NoClaim /\ drop'[c].hash = Row(c).hash,
               drop'[c].at \in {"inspect", "post"} => post[c] = "none",
               drop'[c].seen = "yes" => drop'[c].at = "balance" /\ drop'[c].hash \in included
        PROVE  DropStep(c)
    <2>1. UNCHANGED <<post, claim, sent, included, balance, mistaken>>
      BY <1>6 DEF world
    <2>2. QED
      BY <1>0, <1>1, <1>6, <2>1 DEF DropStep
  <1>7. CASE StopDrop(c)
    BY <1>0, <1>4, <1>7 DEF StopDrop, At, DropFits, Outcome
  <1>8. CASE FailDrop(c)
    BY <1>0, <1>4, <1>8 DEF FailDrop, At, DropFits, Outcome
  <1>9. CASE InspectRecipient(c)
    <2>1. /\ drop' \in [Call -> Drop] /\ \A d \in Call \ {c} : drop'[d] = drop[d]
          /\ drop'[c].hash = drop[c].hash /\ drop'[c].at = "post" /\ drop'[c].seen = drop[c].seen
      BY <1>0, <1>2, <1>3, <1>9 DEF InspectRecipient, Drop
    <2>2. post[c] = "none" /\ drop[c].seen # "yes"
      BY <1>0, <1>9 DEF InspectRecipient, At, DropFits
    <2>3. QED
      BY <1>6, <1>9, <2>1, <2>2 DEF InspectRecipient
  <1>10. CASE Submit(c)
    <2>1. /\ drop' \in [Call -> Drop] /\ (\A d \in Call \ {c} : drop'[d] = drop[d])
          /\ drop'[c].at = "asked" /\ drop'[c].hash = drop[c].hash /\ drop'[c].seen = drop[c].seen
      BY <1>0, <1>3, <1>10 DEF Submit, Drop
    <2>2. post[c] = "none" /\ drop[c].seen # "yes"
      BY <1>0, <1>10 DEF Submit, At, DropFits
    <2>3. /\ post' \in [Call -> {"none", "on its way", "recorded", "refused"}]
          /\ (\A d \in Call \ {c} : post'[d] = post[d]) /\ post'[c] = "on its way"
      BY <1>0, <1>10 DEF Submit
    <2>4. QED
      BY <1>0, <1>1, <1>10, <2>1, <2>2, <2>3 DEF DropStep, Submit
  <1>11. ASSUME Learn(c), At(c, "asked") \/ At(c, "status"), Row(c) # Service!NoClaim,
                UNCHANGED <<world, mistaken>>
         PROVE  DropStep(c)
    <2> DEFINE hash == IF drop[c].hash = NoHash THEN Row(c).hash ELSE drop[c].hash
    <2>1. hash \in Hash \cup {NoHash}
      BY <1>0, <1>2, <1>3, <1>11 DEF Row, Claim, Drop
    <2>2. CASE End(c, "unknown")
      BY <1>0, <1>4, <1>11, <2>2 DEF Outcome
    <2>3. CASE End(c, "failed") /\ Row(c).status = "failed" /\ Row(c).error # "unknown"
      <3>1. Row(c).error = "refused"
        <4>1. Row(c) \in Claim
          BY <1>0, <1>2, <1>11 DEF Row
        <4>2. Row(c).error # "none"
          BY <1>2, <1>11, <2>3 DEF Row, Inv, ClaimFits
        <4>3. QED
          BY <2>3, <4>1, <4>2 DEF Claim
      <3>2. QED
        BY <1>0, <1>4, <1>11, <2>3, <3>1 DEF Outcome, GivenUp, Row
    <2>4. CASE /\ drop' = [drop EXCEPT ![c].at = "included", ![c].hash = hash, ![c].misses = 0]
               /\ UNCHANGED client
      <3>1. /\ drop' \in [Call -> Drop] /\ \A d \in Call \ {c} : drop'[d] = drop[d]
            /\ drop'[c].hash = hash /\ drop'[c].at = "included" /\ drop'[c].seen = drop[c].seen
        BY <1>0, <1>3, <2>1, <2>4 DEF Drop
      <3>2. drop[c].seen # "yes"
        BY <1>0, <1>11 DEF At, DropFits
      <3>3. QED
        BY <1>6, <1>11, <2>4, <3>1, <3>2
    <2>5. QED
      BY <1>11, <2>2, <2>3, <2>4 DEF Learn
  <1>12. CASE PostAnswered(c)
    <2>1. Row(c) # Service!NoClaim
      BY <1>0, <1>12 DEF PostAnswered, DropFits, Row
    <2>2. QED
      BY <1>11, <1>12, <2>1 DEF PostAnswered
  <1>13. CASE PostRefused(c)
    BY <1>5, <1>13 DEF PostRefused
  <1>14. CASE PostLost(c)
    <2>1. /\ drop' \in [Call -> Drop] /\ \A d \in Call \ {c} : drop'[d] = drop[d]
          /\ drop'[c].hash = drop[c].hash /\ drop'[c].at = "status"
          /\ drop'[c].seen = drop[c].seen
      BY <1>0, <1>3, <1>14 DEF PostLost, Drop
    <2>2. drop[c].seen # "yes"
      BY <1>0, <1>14 DEF PostLost, At, DropFits
    <2>3. QED
      BY <1>6, <1>14, <2>1, <2>2 DEF PostLost
  <1>15. CASE AskStatus(c)
    <2>1. CASE Row(c) # Service!NoClaim /\ Learn(c) /\ UNCHANGED mistaken
      BY <1>11, <1>15, <2>1 DEF AskStatus
    <2>2. CASE Row(c) = Service!NoClaim /\ Believed(c) /\ Fail(c)
      BY <1>5, <1>15, <2>2 DEF AskStatus
    \* A call that saw the hash of its claim does not find the claim missing.
    <2>3. CASE /\ Row(c) = Service!NoClaim /\ ~Believed(c)
               /\ drop' = [drop EXCEPT ![c].at = "included", ![c].misses = @ + 1]
               /\ UNCHANGED <<client, mistaken>>
      <3>1. drop[c].hash = NoHash
        BY <1>0, <1>2, <2>3 DEF DropFits, Inv, ClaimFits, Row
      <3>2. drop[c].misses + 1 \in 0..(MaxMisses - 1)
        BY <1>3, <2>3, <3>1, MissesAssumption DEF Believed, Drop
      <3>3. /\ drop' \in [Call -> Drop] /\ \A d \in Call \ {c} : drop'[d] = drop[d]
            /\ drop'[c].hash = drop[c].hash /\ drop'[c].at = "included"
            /\ drop'[c].seen = drop[c].seen
        BY <1>0, <1>3, <2>3, <3>2 DEF Drop
      <3>4. drop[c].seen # "yes"
        BY <1>0, <1>15 DEF AskStatus, At, DropFits
      <3>5. QED
        BY <1>6, <1>15, <2>3, <3>3, <3>4 DEF AskStatus
    <2>4. CASE drop' = [drop EXCEPT ![c].at = "included"] /\ UNCHANGED <<client, mistaken>>
      <3>1. /\ drop' \in [Call -> Drop] /\ \A d \in Call \ {c} : drop'[d] = drop[d]
            /\ drop'[c].hash = drop[c].hash /\ drop'[c].at = "included"
            /\ drop'[c].seen = drop[c].seen
        BY <1>0, <1>3, <2>4 DEF Drop
      <3>2. drop[c].seen # "yes"
        BY <1>0, <1>15 DEF AskStatus, At, DropFits
      <3>3. QED
        BY <1>6, <1>15, <2>4, <3>1, <3>2 DEF AskStatus
    <2>5. QED
      BY <1>15, <2>1, <2>2, <2>3, <2>4 DEF AskStatus
  <1>16. CASE ReadIncluded(c)
    <2>1. PICK seen \in {"unread", "yes", "no"} :
            /\ seen = "yes" => drop[c].hash \in included
            /\ drop' = [drop EXCEPT ![c].at = "balance", ![c].seen = seen]
      BY <1>16 DEF ReadIncluded
    <2>2. /\ drop' \in [Call -> Drop] /\ \A d \in Call \ {c} : drop'[d] = drop[d]
          /\ drop'[c].hash = drop[c].hash /\ drop'[c].at = "balance" /\ drop'[c].seen = seen
      BY <1>0, <1>3, <2>1 DEF Drop
    <2>3. QED
      BY <1>6, <1>16, <2>1, <2>2 DEF ReadIncluded
  \* A credit is reported only in a round that saw the transfer on the chain.
  <1>17. CASE ReadBalance(c)
    <2>1. PICK seen : \/ /\ Classify(drop[c].before, drop[c].seen, seen, "unread") = "credited"
                         /\ End(c, "credited")
                      \/ End(c, "unknown")
                      \/ /\ drop' = [drop EXCEPT ![c].at = "status", ![c].seen = "unread"]
                         /\ UNCHANGED client
      BY <1>17 DEF ReadBalance
    <2>2. CASE /\ Classify(drop[c].before, drop[c].seen, seen, "unread") = "credited"
               /\ End(c, "credited")
      <3>1. drop[c].seen = "yes"
        BY <2>2 DEF Classify
      <3>2. drop[c].hash \in included /\ drop[c].hash # NoHash
        BY <1>0, <3>1, HashAssumption DEF DropFits, Inv, TypeOK
      <3>3. /\ drop' \in [Call -> Drop] /\ \A d \in Call \ {c} : drop'[d] = drop[d]
            /\ drop'[c].hash = drop[c].hash /\ drop'[c].at = "over" /\ drop'[c].seen = "unread"
        BY <1>0, <1>3, <2>2 DEF End, Drop, NoDrop
      <3>4. Finish(c, "credited")
        BY <2>2 DEF End
      <3>5. UNCHANGED <<post, claim, sent, included, balance, mistaken>>
        BY <1>17 DEF ReadBalance, world
      <3>6. QED
        BY <1>0, <1>1, <3>2, <3>3, <3>4, <3>5 DEF DropStep, Outcome
    <2>3. CASE End(c, "unknown")
      BY <1>0, <1>4, <1>17, <2>3 DEF ReadBalance, Outcome
    <2>4. CASE /\ drop' = [drop EXCEPT ![c].at = "status", ![c].seen = "unread"]
               /\ UNCHANGED client
      <3>1. /\ drop' \in [Call -> Drop] /\ \A d \in Call \ {c} : drop'[d] = drop[d]
            /\ drop'[c].hash = drop[c].hash /\ drop'[c].at = "status"
            /\ drop'[c].seen = "unread"
        BY <1>0, <1>3, <2>4 DEF Drop
      <3>2. QED
        BY <1>6, <1>17, <2>4, <3>1 DEF ReadBalance
    <2>5. QED
      BY <2>1, <2>2, <2>3, <2>4
  <1>18. QED
    BY <1>7, <1>8, <1>9, <1>10, <1>12, <1>13, <1>14, <1>15, <1>16, <1>17 DEF RunDrop

-----------------------------------------------------------------------------
(* Steps of the service and the chain. *)

\* Claims are added or advance, transfers are added to those sent and those on the chain, and
\* no call is touched but in its POST.
ServiceStep ==
  /\ UNCHANGED <<client, drop, mistaken>>
  /\ claim' \in [Key -> Claim \cup {Service!NoClaim}]
  /\ sent' \in [Key -> SUBSET Hash] /\ included' \in SUBSET Hash
  /\ balance' \in [Account -> Nat]
  /\ post' \in [Call -> {"none", "on its way", "recorded", "refused"}]
  /\ included \subseteq included' /\ \A k \in Key : sent[k] \subseteq sent'[k]
  /\ \A c \in Call : post'[c] = post[c] \/ post[c] = "on its way"
  /\ \A c \in Call : post[c] = "recorded" => post'[c] = "recorded"
  /\ \A c \in Call : post'[c] = "recorded" /\ post[c] # "recorded" => Row(c)' # Service!NoClaim
  /\ \A k \in Key : claim[k] # Service!NoClaim => claim'[k] # Service!NoClaim
  /\ \A k \in Key : GivenUp(k) => GivenUp(k)'
  /\ \A k \in Key : ClaimFits(k)'

LEMMA ServiceStepKeeps ==
  ASSUME Inv, ServiceStep
  PROVE  Inv'
  <1>0. TypeOK /\ ClientInv /\ (\A d \in Call : DropFits(d))
    BY DEF Inv
  <1>1. ClientInv'
    BY <1>0, ClientInvNext DEF ClientNext, ServiceStep
  <1>2. TypeOK'
    <2>1. ClientTypeOK'
      BY <1>1 DEF ClientInv
    <2>2. drop' \in [Call -> Drop] /\ mistaken' \in SUBSET Key
      BY <1>0 DEF TypeOK, ServiceStep
    <2>3. QED
      BY <2>1, <2>2 DEF TypeOK, ServiceStep, Claim, Drop, Service!NoClaim
  <1>3. UNCHANGED <<Ran, call>>
    BY DEF ServiceStep, client, Ran, Born
  <1>4. ASSUME NEW c \in Call
        PROVE  DropFits(c)'
    <2>1. c \notin Ran => drop[c] = NoDrop /\ post'[c] = "none"
      BY <1>0 DEF DropFits, ServiceStep
    <2>2. drop[c].at \in {"inspect", "post"} => post'[c] = "none"
      BY <1>0 DEF DropFits, ServiceStep
    <2>3. c \in Ran => call[c].key \in Key
      BY <1>0, BegunFacts DEF ClientInv, Ran, Born, ClientTypeOK, Begun
    <2>4. post'[c] = "recorded" => claim'[call[c].key] # Service!NoClaim
      <3>1. CASE post[c] = "recorded"
        <4>1. call[c].key \in Key
          BY <1>0, <2>3, <3>1 DEF DropFits
        <4>2. QED
          BY <1>0, <3>1, <4>1 DEF DropFits, ServiceStep
      <3>2. CASE post[c] # "recorded"
        BY <1>3, <3>2 DEF ServiceStep, Row
      <3>3. QED
        BY <3>1, <3>2
    <2>5. drop[c].hash = NoHash \/ drop[c].hash \in sent'[call[c].key]
      <3>1. CASE c \in Ran
        BY <1>0, <2>3, <3>1 DEF DropFits, ServiceStep
      <3>2. CASE c \notin Ran
        BY <1>0, <3>2 DEF DropFits, NoDrop
      <3>3. QED
        BY <3>1, <3>2
    <2>6. drop[c].seen = "yes" => drop[c].at = "balance" /\ drop[c].hash \in included'
      BY <1>0 DEF DropFits, ServiceStep
    <2>7. c \in Ran /\ call[c].answer = "cancelled" => post'[c] = "none"
      BY <1>0 DEF DropFits, ServiceStep
    <2>8. c \in Ran /\ call[c].answer = "credited" =>
            drop[c].hash # NoHash /\ drop[c].hash \in included'
      BY <1>0 DEF DropFits, ServiceStep
    <2>9. UNCHANGED drop
      BY DEF ServiceStep
    <2>10. c \in Ran /\ call[c].answer = "failed" =>
             \/ call[c].key \in mistaken' \/ post'[c] \in {"none", "refused"}
             \/ GivenUp(call[c].key)'
      BY <1>0, <1>3, <2>3 DEF DropFits, ServiceStep
    <2>11. QED
      BY <1>3, <2>1, <2>2, <2>4, <2>5, <2>6, <2>7, <2>8, <2>9, <2>10
         DEF DropFits, NoDrop, Service!NoClaim
  <1>5. Reconciled' /\ UnknownIsAlone'
    BY ReconciledStutter DEF Inv, ServiceStep
  <1>6. QED
    BY <1>1, <1>2, <1>4, <1>5 DEF Inv, ServiceStep

LEMMA DeliverSteps ==
  ASSUME Inv, NEW c \in Call, Deliver(c)
  PROVE  ServiceStep
  <1>0. TypeOK /\ DropFits(c) /\ (\A k \in Key : ClaimFits(k))
    BY DEF Inv
  <1> DEFINE k == call[c].key
  <1>1. c \in Ran /\ k \in Key
    <2>1. c \in Ran
      BY <1>0 DEF DropFits, Deliver
    <2>2. QED
      BY <2>1, BegunFacts DEF Inv, ClientInv, Ran, Born, ClientTypeOK, Begun
  <1>2. /\ post' \in [Call -> {"none", "on its way", "recorded", "refused"}]
        /\ \A d \in Call \ {c} : post'[d] = post[d]
        /\ post[c] = "on its way"
    BY <1>0 DEF TypeOK, Deliver
  <1>3. UNCHANGED <<Ran, call, sent>>
    BY DEF Deliver, client, Ran, Born, Service!Accept
  <1>4. CASE Service!Accept(k) /\ post' = [post EXCEPT ![c] = "recorded"]
    <2>1. PICK a \in Account :
            claim' = [claim EXCEPT ![k] = Service!Claim("queued", a, NoHash, "none")]
      BY <1>4 DEF Service!Accept
    <2>2. claim[k] = Service!NoClaim
      BY <1>4 DEF Service!Accept
    <2>3. /\ claim' \in [Key -> Claim \cup {Service!NoClaim}]
          /\ claim'[k].hash = NoHash /\ claim'[k] # Service!NoClaim
          /\ claim'[k].status = "queued"
          /\ \A q \in Key \ {k} : claim'[q] = claim[q]
      <3>1. Service!Claim("queued", a, NoHash, "none") \in Claim
        BY DEF Service!Claim, Claim
      <3>2. /\ Service!Claim("queued", a, NoHash, "none").hash = NoHash
            /\ Service!Claim("queued", a, NoHash, "none").status = "queued"
        BY DEF Service!Claim
      <3>3. Service!Claim("queued", a, NoHash, "none") # Service!NoClaim
        BY <3>2 DEF Service!NoClaim
      <3>4. QED
        BY <1>0, <1>1, <2>1, <3>1, <3>2, <3>3 DEF TypeOK
    <2>4. post'[c] = "recorded"
      BY <1>0, <1>4 DEF TypeOK
    <2>5. ASSUME NEW q \in Key
          PROVE  ClaimFits(q)'
      <3>1. CASE q = k
        BY <1>1, <1>3, <2>3, <2>4, <3>1 DEF ClaimFits, Service!NoClaim
      <3>2. CASE q # k
        <4>1. \A d \in Ran : d \in Call /\ (post[d] = "recorded" => post'[d] = "recorded")
          BY <1>2 DEF Ran, Born
        <4>2. QED
          BY <1>0, <1>3, <2>3, <3>2, <4>1 DEF ClaimFits, Service!NoClaim
      <3>3. QED
        BY <3>1, <3>2
    <2>6. Row(c)' # Service!NoClaim
      BY <1>3, <2>3 DEF Row
    <2>7. \A q \in Key : GivenUp(q) => GivenUp(q)'
      BY <2>2, <2>3 DEF GivenUp, Service!NoClaim
    <2>8. QED
      BY <1>0, <1>2, <1>3, <2>2, <2>3, <2>5, <2>6, <2>7 DEF ServiceStep, Deliver, TypeOK
  <1>5. CASE post' = [post EXCEPT ![c] = "refused"] /\ UNCHANGED <<claim, sent>>
    <2>1. post'[c] = "refused"
      BY <1>0, <1>5 DEF TypeOK
    <2>2. ASSUME NEW q \in Key
          PROVE  ClaimFits(q)'
      <3>1. \A d \in Ran : d \in Call /\ (post[d] = "recorded" => post'[d] = "recorded")
        BY <1>2 DEF Ran, Born
      <3>2. QED
        BY <1>0, <1>3, <1>5, <3>1 DEF ClaimFits, Service!NoClaim
    <2>3. QED
      BY <1>0, <1>2, <1>5, <2>1, <2>2 DEF ServiceStep, Deliver, TypeOK, GivenUp
  <1>6. QED
    BY <1>4, <1>5 DEF Deliver

LEMMA ServeSteps ==
  ASSUME Inv, NEW k \in Key, Serve(k)
  PROVE  ServiceStep
  <1>0. TypeOK /\ (\A q \in Key : ClaimFits(q))
    BY DEF Inv
  <1>1. UNCHANGED <<client, Ran, call, drop, post, included, balance, mistaken>>
    BY DEF Serve, client, Ran, Born
  <1>2. claim[k] \in Claim /\ claim[k] # Service!NoClaim
    <2>1. claim[k].status # Service!NoClaim.status
      BY DEF Serve, Service!Pay, Service!Acknowledge, Service!Confirm, Service!GiveUp,
             Service!NoClaim
    <2>2. QED
      BY <1>0, <2>1 DEF TypeOK
  <1>3. ASSUME NEW next \in Claim, next.hash = claim[k].hash \/ next.hash \in sent[k],
               next.status # "none", next.status = "failed" => next.error # "none",
               claim[k].status # "failed", UNCHANGED sent, claim' = [claim EXCEPT ![k] = next]
        PROVE  ServiceStep
    <2>1. /\ claim' \in [Key -> Claim \cup {Service!NoClaim}] /\ claim'[k] = next
          /\ \A q \in Key \ {k} : claim'[q] = claim[q]
      BY <1>0, <1>3 DEF TypeOK
    <2>2. next # Service!NoClaim
      <3>1. Service!NoClaim.status = "none"
        BY DEF Service!NoClaim
      <3>2. QED
        BY <1>3, <3>1
    <2>3. ASSUME NEW q \in Key
          PROVE  ClaimFits(q)'
      BY <1>0, <1>1, <1>2, <1>3, <2>1, <2>2 DEF ClaimFits, Service!NoClaim
    <2>4. \A q \in Key : GivenUp(q) => GivenUp(q)'
      BY <1>3, <2>1 DEF GivenUp
    <2>5. QED
      BY <1>0, <1>1, <1>3, <2>1, <2>2, <2>3, <2>4 DEF ServiceStep, TypeOK
  <1>4. CASE Service!Pay(k)
    <2>1. PICK x \in Hash : sent' = [sent EXCEPT ![k] = @ \cup {x}]
      BY <1>4 DEF Service!Pay
    <2>2. UNCHANGED claim
      BY <1>4 DEF Service!Pay
    <2>3. /\ sent' \in [Key -> SUBSET Hash] /\ sent'[k] = sent[k] \cup {x}
          /\ \A q \in Key \ {k} : sent'[q] = sent[q]
      BY <1>0, <2>1 DEF TypeOK
    <2>4. ASSUME NEW q \in Key
          PROVE  ClaimFits(q)'
      <3>1. CASE q = k
        BY <1>0, <1>1, <1>2, <2>2, <2>3, <3>1 DEF ClaimFits, Service!NoClaim
      <3>2. CASE q # k
        BY <1>0, <1>1, <2>2, <2>3, <3>2 DEF ClaimFits, Service!NoClaim
      <3>3. QED
        BY <3>1, <3>2
    <2>5. QED
      BY <1>0, <1>1, <2>2, <2>3, <2>4 DEF ServiceStep, TypeOK, GivenUp
  <1>5. CASE Service!Acknowledge(k)
    <2>1. PICK x \in sent[k] :
            claim' = [claim EXCEPT ![k] = Service!Claim("submitted", @.recipient, x, @.error)]
      BY <1>5 DEF Service!Acknowledge
    <2> DEFINE next == Service!Claim("submitted", claim[k].recipient, x, claim[k].error)
    <2>2. next \in Claim /\ next.hash = x /\ next.status = "submitted"
      BY <1>0, <1>2 DEF Service!Claim, Claim, TypeOK
    <2>3. claim' = [claim EXCEPT ![k] = next] /\ UNCHANGED sent /\ claim[k].status # "failed"
      BY <1>5, <2>1 DEF Service!Acknowledge
    <2> HIDE DEF next
    <2>4. QED
      BY <1>3, <2>2, <2>3
  <1>6. CASE Service!Confirm(k)
    <2> DEFINE next == [claim[k] EXCEPT !.status = "included"]
    <2>1. next \in Claim /\ next.hash = claim[k].hash /\ next.status = "included"
      BY <1>2 DEF Claim
    <2>2. claim' = [claim EXCEPT ![k] = next] /\ UNCHANGED sent /\ claim[k].status # "failed"
      BY <1>6 DEF Service!Confirm
    <2> HIDE DEF next
    <2>3. QED
      BY <1>3, <2>1, <2>2
  <1>7. CASE Service!GiveUp(k)
    <2>1. PICK error \in {"refused", "unknown"} :
            claim' = [claim EXCEPT ![k] = Service!Claim("failed", @.recipient, @.hash, error)]
      BY <1>7 DEF Service!GiveUp
    <2> DEFINE next == Service!Claim("failed", claim[k].recipient, claim[k].hash, error)
    <2>2. /\ next \in Claim /\ next.hash = claim[k].hash /\ next.status = "failed"
          /\ next.error # "none"
      BY <1>2 DEF Service!Claim, Claim
    <2>3. claim' = [claim EXCEPT ![k] = next] /\ UNCHANGED sent /\ claim[k].status # "failed"
      BY <1>7, <2>1 DEF Service!GiveUp
    <2> HIDE DEF next
    <2>4. QED
      BY <1>3, <2>2, <2>3
  <1>8. QED
    BY <1>4, <1>5, <1>6, <1>7 DEF Serve

LEMMA ChainSteps ==
  ASSUME Inv, (\E k \in Key : Include(k)) \/ (\E a \in Account : Transfer(a))
  PROVE  ServiceStep
  <1>0. TypeOK /\ (\A q \in Key : ClaimFits(q))
    BY DEF Inv
  <1>1. UNCHANGED <<client, Ran, call, drop, post, claim, sent, mistaken>>
    BY DEF Include, Transfer, client, Ran, Born
  <1>2. included \subseteq included' /\ included' \in SUBSET Hash
    BY <1>0 DEF Include, Transfer, TypeOK
  <1>3. balance' \in [Account -> Nat]
    <2>0. balance \in [Account -> Nat]
      BY <1>0 DEF TypeOK
    <2>1. CASE \E k \in Key : Include(k)
      <3>1. PICK k \in Key :
              balance' = [balance EXCEPT ![claim[k].recipient] = @ + Prize]
        BY <2>1 DEF Include
      <3>2. \A a \in Account : balance[a] + Prize \in Nat
        BY <2>0 DEF Prize
      <3>3. QED
        BY <2>0, <3>1, <3>2
    <2>2. CASE \E a \in Account : Transfer(a)
      <3>1. PICK a \in Account :
              \/ balance' = [balance EXCEPT ![a] = @ + 1]
              \/ balance[a] > 0 /\ balance' = [balance EXCEPT ![a] = @ - 1]
        BY <2>2 DEF Transfer
      <3>2. balance[a] + 1 \in Nat /\ (balance[a] > 0 => balance[a] - 1 \in Nat)
        BY <2>0
      <3>3. QED
        BY <2>0, <3>1, <3>2
    <2>3. QED
      BY <2>1, <2>2
  <1>4. ASSUME NEW q \in Key
        PROVE  ClaimFits(q)'
    BY <1>0, <1>1 DEF ClaimFits, Service!NoClaim
  <1>5. QED
    BY <1>0, <1>1, <1>2, <1>3, <1>4 DEF ServiceStep, TypeOK, GivenUp

-----------------------------------------------------------------------------
LEMMA InvInit == Init => Inv
  <1> SUFFICES ASSUME Init PROVE Inv
    OBVIOUS
  <1>1. ClientInv /\ Reconciled /\ UnknownIsAlone
    BY ClientInvInit, ReconciledInit DEF Init
  <1>2. TypeOK
    <2>1. 0 \in 0..(MaxMisses - 1)
      BY MissesAssumption
    <2>2. NoDrop \in Drop
      BY <2>1 DEF NoDrop, Drop
    <2>3. QED
      BY <1>1, <2>2 DEF Init, TypeOK, ClientInv, Service!Init
  <1>3. \A c \in Call : c \notin Ran
    BY DEF Init, ClientInit, Ran, Born
  <1>4. ASSUME NEW c \in Call
        PROVE  DropFits(c)
    BY <1>3 DEF Init, DropFits, NoDrop
  <1>5. ASSUME NEW k \in Key
        PROVE  ClaimFits(k)
    BY DEF Init, Service!Init, ClaimFits
  <1>6. QED
    BY <1>1, <1>2, <1>4, <1>5 DEF Inv

LEMMA InvNext == Inv /\ [Next]_vars => Inv'
  <1> SUFFICES ASSUME Inv, [Next]_vars PROVE Inv'
    OBVIOUS
  <1>1. ASSUME NEW c \in Call, RequestDrop(c), UNCHANGED <<drop, world, mistaken>>
        PROVE  Inv'
    BY <1>1, RequestStep
  <1>2. ASSUME NEW c \in Call, RunDrop(c)
        PROVE  Inv'
    BY <1>2, RunDropSteps, DropStepKeeps
  <1>3. ASSUME NEW c \in Call, Deliver(c)
        PROVE  Inv'
    BY <1>3, DeliverSteps, ServiceStepKeeps
  <1>4. ASSUME NEW k \in Key, Serve(k)
        PROVE  Inv'
    BY <1>4, ServeSteps, ServiceStepKeeps
  <1>5. CASE (\E k \in Key : Include(k)) \/ (\E a \in Account : Transfer(a))
    BY <1>5, ChainSteps, ServiceStepKeeps
  <1>6. CASE UNCHANGED vars
    <2>1. ServiceStep
      <3>1. UNCHANGED <<client, Ran, call, drop, post, claim, sent, included, balance, mistaken>>
        BY <1>6 DEF vars, client, world, Ran, Born
      <3>2. TypeOK /\ \A k \in Key : ClaimFits(k)
        BY DEF Inv
      <3>3. ASSUME NEW k \in Key
            PROVE  ClaimFits(k)'
        BY <3>1, <3>2 DEF ClaimFits, Service!NoClaim
      <3>4. QED
        BY <3>1, <3>2, <3>3 DEF ServiceStep, TypeOK, GivenUp
    <2>2. QED
      BY <2>1, ServiceStepKeeps
  <1>7. QED
    BY <1>1, <1>2, <1>3, <1>4, <1>5, <1>6 DEF Next

LEMMA Invariance == Spec => []Inv
  BY InvInit, InvNext, PTL DEF Spec

\* Every value has its type: records, permit, calls, drops, POSTs, claims and balances.
THEOREM TypeCorrectness == Spec => []TypeOK
  <1>1. Inv => TypeOK
    BY DEF Inv
  <1>2. QED
    BY <1>1, Invariance, PTL

\* request_drop runs a key at most once, and gives every call for it the outcome of that run.
THEOREM KeysRunOnce == Spec => []OneRunPerKey
  <1>1. Inv => OneRunPerKey
    BY ClientInvRunsOnce DEF Inv
  <1>2. QED
    BY <1>1, Invariance, PTL

\* The cancellation a drop sees is of its own token.
THEOREM CancellationIsScoped == Spec => []CancelIsScoped
  <1>1. Inv => CancelIsScoped
    BY ClientInvScopesCancel DEF Inv
  <1>2. QED
    BY <1>1, Invariance, PTL

\* reconcile_claim_api reports a credit only for a transfer of this key that is on the chain.
THEOREM ReceiptsAreProven == Spec => []ReceiptIsProven
  <1>1. Inv => ReceiptIsProven
    BY DEF Inv, DropFits, ReceiptIsProven, Ran, Born
  <1>2. QED
    BY <1>1, Invariance, PTL

\* The claim of a drop's key was posted by that drop, and by no other.
LEMMA ClaimIsOwn ==
  ASSUME Inv, NEW c \in Ran
  PROVE  /\ c \in Call /\ call[c].key \in Key /\ DropFits(c) /\ CallFits(c)
         /\ Row(c) # Service!NoClaim => post[c] = "recorded"
         /\ sent[call[c].key] # {} => Row(c) # Service!NoClaim
  <1>1. c \in Call /\ call[c].key \in Key /\ DropFits(c) /\ CallFits(c)
    BY BegunFacts DEF Inv, ClientInv, CallsFit, Ran, Born, ClientTypeOK, Begun
  <1>2. ASSUME Row(c) # Service!NoClaim
        PROVE  post[c] = "recorded"
    <2>1. PICK d \in Ran : call[d].key = call[c].key /\ post[d] = "recorded"
      BY <1>1, <1>2 DEF Inv, ClaimFits, Row
    <2>2. d = c
      BY <2>1 DEF Inv, ClientInv, RunOnce
    <2>3. QED
      BY <2>1, <2>2
  <1>3. sent[call[c].key] # {} => Row(c) # Service!NoClaim
    BY <1>1 DEF Inv, ClaimFits, Row
  <1>4. QED
    BY <1>1, <1>2, <1>3

LEMMA CancelledAsksNothing ==
  ASSUME Inv, NEW c \in Ran, call[c].answer = "cancelled"
  PROVE  post[c] = "none" /\ Row(c) = Service!NoClaim
  BY ClaimIsOwn DEF DropFits

LEMMA FailedIsOver ==
  ASSUME Inv, NEW c \in Ran, call[c].answer = "failed", call[c].key \notin mistaken
  PROVE  Row(c) = Service!NoClaim \/ (Row(c).status = "failed" /\ Row(c).error = "refused")
  BY ClaimIsOwn DEF DropFits, GivenUp, Row

\* run_claim_api_drop heeds a cancellation only before its POST, and no other call posts for
\* its key.
THEOREM CancelledDropsAskNothing == Spec => []CancelledAskedNothing
  <1>1. Inv => CancelledAskedNothing
    BY CancelledAsksNothing DEF CancelledAskedNothing
  <1>2. QED
    BY <1>1, Invariance, PTL

\* run_claim_api_drop ends as failed only when no transfer can be sent for its key any more, unless
\* its POST was recorded, or on its way, without its knowing.
THEOREM FailuresAreFinal == Spec => []FailureIsFinal
  <1>1. Inv => FailureIsFinal
    BY FailedIsOver DEF FailureIsFinal
  <1>2. QED
    BY <1>1, Invariance, PTL

\* A recipient is sent a transfer by at most one of the drops that did not report it: only one drop
\* runs, and not for a recipient with an unknown outcome, which has one at most.
THEOREM UntoldCreditIsOne == Spec => []OneUntoldCredit
  <1>1. ASSUME Inv, NEW a \in Account
        PROVE  Cardinality({c \in Ran : /\ call[c].account = a
                                        /\ call[c].answer # "credited"
                                        /\ call[c].key \notin mistaken \cup Forgotten
                                        /\ sent[call[c].key] # {}}) <= 1
    <2> DEFINE Untold == {c \in Ran : /\ call[c].account = a
                                      /\ call[c].answer # "credited"
                                      /\ call[c].key \notin mistaken \cup Forgotten
                                      /\ sent[call[c].key] # {}}
    <2>0. ClientInv /\ Reconciled /\ UnknownIsAlone
      BY <1>1 DEF Inv
    <2>1. ASSUME NEW c \in Untold
          PROVE  /\ c \in Ran /\ call[c].account = a
                 /\ call[c].pc = "run" \/ call[c].answer = "unknown"
      <3>1. /\ c \in Ran /\ call[c].key \in Key /\ Row(c) # Service!NoClaim /\ CallFits(c)
        BY <1>1, <2>1, ClaimIsOwn
      <3>2. call[c].pc = "run" \/ call[c].answer \in Outcome \ {"credited"}
        BY <2>1, <3>1 DEF CallFits, Ran
      <3>3. call[c].answer # "cancelled"
        BY <1>1, <3>1, CancelledAsksNothing
      <3>4. call[c].answer # "failed"
        BY <1>1, <2>1, <3>1, FailedIsOver DEF Forgotten, Row
      <3>5. QED
        BY <2>1, <3>1, <3>2, <3>3, <3>4 DEF Outcome
    <2> HIDE DEF Untold
    <2>2. ASSUME NEW c \in Untold, NEW d \in Untold
          PROVE  c = d
      <3>1. /\ c \in Ran /\ call[c].account = a
            /\ call[c].pc = "run" \/ call[c].answer = "unknown"
            /\ d \in Ran /\ call[d].account = a
            /\ call[d].pc = "run" \/ call[d].answer = "unknown"
        BY <2>1
      <3>2. QED
        BY <2>0, <3>1, RunsAlone
    <2>3. Untold = {} \/ \E c \in Untold : Untold = {c}
      BY <2>2
    <2>4. Cardinality(Untold) \in {0, 1}
      BY <2>3, FS_EmptySet, FS_Singleton
    <2>5. Cardinality(Untold) <= 1
      BY <2>4
    <2>6. QED
      BY <2>5 DEF Untold
  <1>2. Inv => OneUntoldCredit
    BY <1>1 DEF OneUntoldCredit
  <1>3. QED
    BY <1>2, Invariance, PTL

=============================================================================
