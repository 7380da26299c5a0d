-------------------------- MODULE DropGatesProofs --------------------------
(***************************************************************************)
(* The gates a Pinata drop finds open after its work, however the network  *)
(* changes between the reads; and the status and the inspection that tell  *)
(* beforehand what a drop will do, as long as it does not change.          *)
(***************************************************************************)
EXTENDS DropGates, TLAPS

Again == {"programs again", "pinata again", "recipient again"}

\* A drop has all its fields.
IsDrop(d) == d = [at |-> d.at, attempt |-> d.attempt, before |-> d.before, solved |-> d.solved,
                  end |-> d.end]

\* What is open while the drop looks again counts as held; each gate it has passed was open
\* then, and what it solved is not too hard.
GateInv ==
  /\ IsDrop(drop)
  /\ drop.at \in Again => Open(world, drop) \subseteq held
  /\ network = "pinata" =>
       /\ drop.at \in {"pinata again", "recipient again", "submit"} => "programs" \in held
       /\ drop.at \in {"recipient again", "submit"} => "faucet" \in held
       /\ drop.at = "submit" => "recipient" \in held
  /\ drop.at \in {"solve"} \cup Again => ~(drop.solved.difficulty > MaxDifficulty)
  /\ held \subseteq {"programs", "faucet", "recipient"}

-----------------------------------------------------------------------------
LEMMA OpenIs ==
  ASSUME NEW w, NEW d
  PROVE  /\ "programs" \in Open(w, d) <=> VerifyFingerprint(w) = "ok"
         /\ "faucet" \in Open(w, d) <=>
              \/ network = "claim_api"
              \/ /\ PinataState(w) = "ok" /\ w.faucet.data = d.solved
                 /\ EnsureSupported(w) = "ok" /\ RequirePoolCanPay(w) = "ok"
         /\ "recipient" \in Open(w, d) <=> Inspect(w) = "ok" /\ w.account.balance = d.before
         /\ Open(w, d) \subseteq {"programs", "faucet", "recipient"}
  BY DEF Open

\* First is `ok` only when every code is.
LEMMA FirstOfTwo ==
  ASSUME NEW a, NEW b, First(<<a, b>>) = "ok"
  PROVE  a = "ok" /\ b = "ok"
  <1> DEFINE codes == <<a, b>>
  <1>1. SUFFICES ASSUME ~(\A i \in DOMAIN codes : codes[i] = "ok") PROVE FALSE
    BY DEF First
  <1> DEFINE Fails(i) == codes[i] # "ok" /\ \A j \in DOMAIN codes : j < i => codes[j] = "ok"
  <1>2. \E i \in DOMAIN codes : Fails(i)
    <2>1. DOMAIN codes = {1, 2}
      OBVIOUS
    <2>2. Fails(1) \/ Fails(2)
      BY <1>1, <2>1
    <2>3. QED
      BY <2>1, <2>2
  <1> DEFINE i == CHOOSE i \in DOMAIN codes : Fails(i)
  <1>3. codes[i] # "ok"
    BY <1>2
  <1>4. First(codes) = codes[i]
    BY <1>1 DEF First
  <1>5. QED
    BY <1>3, <1>4

-----------------------------------------------------------------------------
LEMMA GateInvInit == Init => GateInv
  BY DEF Init, GateInv, IsDrop, NoDrop, Again

\* A drop that ends, or has to begin again, owes nothing.
LEMMA EndStep ==
  ASSUME GateInv, UNCHANGED <<network, held>>, IsDrop(drop'),
         drop'.at \in {"idle", "programs", "recipient", "fetch", "over"}
  PROVE  GateInv'
  BY DEF GateInv, Again

LEMMA EndIsOver ==
  ASSUME NEW code, End(code)
  PROVE  IsDrop(drop') /\ drop'.at = "over"
  BY DEF End, IsDrop, NoDrop

LEMMA RetryBegins ==
  ASSUME NEW before, Retry(before)
  PROVE  IsDrop(drop') /\ drop'.at \in {"fetch", "over"}
  BY EndIsOver DEF Retry, IsDrop, NoDrop

LEMMA FetchChallengeStep ==
  ASSUME GateInv, FetchChallenge
  PROVE  GateInv'
  <1> DEFINE gate == IF PinataState(world) # "ok" THEN PinataState(world)
                     ELSE First(<<EnsureSupported(world), RequirePoolCanPay(world)>>)
             next == [drop EXCEPT !.at = "solve", !.solved = world.faucet.data]
  <1>1. UNCHANGED <<network, world, held>>
    BY DEF FetchChallenge, Pass
  <1>2. CASE End(gate)
    BY <1>1, <1>2, EndIsOver, EndStep
  <1>3. CASE gate = "ok" /\ drop' = next
    <2>1. EnsureSupported(world) = "ok"
      BY <1>3, FirstOfTwo
    <2>2. ~(world.faucet.data.difficulty > MaxDifficulty)
      BY <2>1 DEF EnsureSupported
    <2>3. IsDrop(drop') /\ drop'.at = "solve" /\ drop'.solved = world.faucet.data
      BY <1>3 DEF IsDrop, GateInv
    <2>4. QED
      BY <1>1, <2>2, <2>3 DEF GateInv, Again
  <1>4. QED
    BY <1>2, <1>3 DEF FetchChallenge, Pass

\* The drop passes a gate it looks at again, and carries the same challenge and balance.
LEMMA PassAgain ==
  ASSUME GateInv, drop.at \in Again, NEW at \in {"pinata again", "recipient again", "submit"},
         drop' = [drop EXCEPT !.at = at], UNCHANGED <<network, world, held>>,
         network = "pinata" =>
           /\ "programs" \in held
           /\ at \in {"recipient again", "submit"} => "faucet" \in held
           /\ at = "submit" => "recipient" \in held
  PROVE  GateInv'
  <1>1. /\ IsDrop(drop') /\ drop'.at = at
        /\ drop'.solved = drop.solved /\ drop'.before = drop.before
    BY DEF IsDrop, GateInv
  <1>2. Open(world, drop') = Open(world, drop)
    BY <1>1 DEF Open
  <1>3. Open(world, drop)' = Open(world, drop)
    BY <1>1, <1>2 DEF Open, VerifyFingerprint, PinataState, EnsureSupported, RequirePoolCanPay,
                      Inspect
  <1>4. QED
    BY <1>1, <1>3 DEF GateInv, Again

LEMMA ReadPinataAgainStep ==
  ASSUME GateInv, ReadPinataAgain
  PROVE  GateInv'
  <1>1. UNCHANGED <<network, world, held>> /\ drop.at = "pinata again"
    BY DEF ReadPinataAgain
  <1>2. CASE (\E code : End(code)) \/ Retry(drop.before)
    BY <1>1, <1>2, EndIsOver, RetryBegins, EndStep
  <1>3. CASE /\ PinataState(world) = "ok" /\ world.faucet.data = drop.solved
             /\ RequirePoolCanPay(world) = "ok"
             /\ drop' = [drop EXCEPT !.at = "recipient again"]
    <2>1. EnsureSupported(world) = "ok"
      BY <1>1, <1>3 DEF GateInv, EnsureSupported, Again
    <2>2. "faucet" \in Open(world, drop)
      BY <1>3, <2>1, OpenIs
    <2>3. "faucet" \in held /\ (network = "pinata" => "programs" \in held)
      BY <1>1, <2>2 DEF GateInv, Again
    <2>4. QED
      BY <1>1, <1>3, <2>3, PassAgain DEF Again
  <1>4. QED
    BY <1>2, <1>3 DEF ReadPinataAgain

LEMMA ReadRecipientAgainStep ==
  ASSUME GateInv, ReadRecipientAgain
  PROVE  GateInv'
  <1>1. UNCHANGED <<network, world, held>> /\ drop.at = "recipient again"
    BY DEF ReadRecipientAgain
  <1>2. CASE (\E code : End(code)) \/ \E before : Retry(before)
    BY <1>1, <1>2, EndIsOver, RetryBegins, EndStep
  <1>3. CASE /\ Inspect(world) = "ok" /\ world.account.balance = drop.before
             /\ drop' = [drop EXCEPT !.at = "submit"]
    <2>1. "recipient" \in Open(world, drop)
      BY <1>3, OpenIs
    <2>2. "recipient" \in held /\ (network = "pinata" => "programs" \in held /\ "faucet" \in held)
      BY <1>1, <2>1 DEF GateInv, Again
    <2>3. QED
      BY <1>1, <1>3, <2>2, PassAgain DEF Again
  <1>4. QED
    BY <1>2, <1>3 DEF ReadRecipientAgain

LEMMA ReadProgramsAgainStep ==
  ASSUME GateInv, ReadProgramsAgain
  PROVE  GateInv'
  <1>1. UNCHANGED <<network, world, held>> /\ drop.at = "programs again"
    BY DEF ReadProgramsAgain, Pass
  <1>2. CASE \E code : End(code)
    BY <1>1, <1>2, EndIsOver, EndStep
  <1>3. CASE VerifyFingerprint(world) = "ok" /\ drop' = [drop EXCEPT !.at = "pinata again"]
    <2>1. "programs" \in held
      BY <1>1, <1>3, OpenIs DEF GateInv, Again
    <2>2. QED
      BY <1>1, <1>3, <2>1, PassAgain DEF Again
  <1>4. QED
    BY <1>2, <1>3 DEF ReadProgramsAgain, Pass

\* The work is done: what is open now is held from now on.
LEMMA SolveStep ==
  ASSUME GateInv, Solve
  PROVE  GateInv'
  <1>1. UNCHANGED <<network, world>> /\ drop.at = "solve"
    BY DEF Solve
  <1>2. CASE (\E code : End(code)) /\ UNCHANGED held
    BY <1>1, <1>2, EndIsOver, EndStep
  <1>3. CASE drop' = [drop EXCEPT !.at = "programs again"] /\ held' = Open(world, drop)
    <2>1. /\ IsDrop(drop') /\ drop'.at = "programs again"
          /\ drop'.solved = drop.solved /\ drop'.before = drop.before
      BY <1>3 DEF IsDrop, GateInv
    <2>2. Open(world, drop)' = Open(world, drop)
      BY <1>1, <2>1 DEF Open, VerifyFingerprint, PinataState, EnsureSupported, RequirePoolCanPay,
                        Inspect
    <2>3. QED
      BY <1>1, <1>3, <2>1, <2>2, OpenIs DEF GateInv, Again
  <1>4. QED
    BY <1>2, <1>3 DEF Solve

LEMMA ReadRecipientStep ==
  ASSUME GateInv, ReadRecipient
  PROVE  GateInv'
  <1>1. UNCHANGED <<network, world, held>> /\ drop.at = "recipient"
    BY DEF ReadRecipient, Pass
  <1>2. CASE \E code : End(code)
    BY <1>1, <1>2, EndIsOver, EndStep
  <1>3. CASE drop' = [drop EXCEPT !.at = IF network = "pinata" THEN "fetch" ELSE "submit",
                                  !.before = world.account.balance]
    <2>1. IsDrop(drop') /\ drop'.at = (IF network = "pinata" THEN "fetch" ELSE "submit")
      BY <1>3 DEF IsDrop, GateInv
    <2>2. QED
      BY <1>1, <2>1 DEF GateInv, Again
  <1>4. QED
    BY <1>2, <1>3 DEF ReadRecipient, Pass

LEMMA PlainSteps ==
  ASSUME GateInv, Press \/ Break \/ ReadPrograms \/ Submit
  PROVE  GateInv'
  <1>1. CASE Press
    BY <1>1 DEF Press, GateInv, IsDrop, NoDrop, Again
  <1>2. CASE Break
    <2>1. (\E code : End(code)) /\ UNCHANGED <<network, held>>
      BY <1>2 DEF Break
    <2>2. QED
      BY <2>1, EndIsOver, EndStep
  <1>3. CASE ReadPrograms
    <2>1. UNCHANGED <<network, held>>
      BY <1>3 DEF ReadPrograms, Pass
    <2>2. CASE \E code : End(code)
      BY <2>1, <2>2, EndIsOver, EndStep
    <2>3. CASE drop' = [drop EXCEPT !.at = "recipient"]
      <3>1. IsDrop(drop') /\ drop'.at = "recipient"
        BY <2>3 DEF IsDrop, GateInv
      <3>2. QED
        BY <2>1, <3>1, EndStep
    <2>4. QED
      BY <1>3, <2>2, <2>3 DEF ReadPrograms, Pass
  <1>4. CASE Submit
    <2>1. (\E code : End(code)) /\ UNCHANGED <<network, held>>
      BY <1>4 DEF Submit
    <2>2. QED
      BY <2>1, EndIsOver, EndStep
  <1>5. QED
    BY <1>1, <1>2, <1>3, <1>4

\* The user looks, or the network changes: what opens meanwhile is held as well.
LEMMA LookStep ==
  ASSUME GateInv, Look
  PROVE  GateInv'
  <1>1. UNCHANGED <<network, world, held>>
    BY DEF Look
  <1>2. CASE drop.at = "over"
    <2>1. drop' = NoDrop
      BY <1>2 DEF Look
    <2>2. QED
      BY <1>1, <2>1, EndStep DEF IsDrop, NoDrop
  <1>3. CASE drop.at # "over"
    <2>1. drop' = drop
      BY <1>3 DEF Look
    <2>2. Open(world, drop)' = Open(world, drop)
      BY <1>1, <2>1 DEF Open, VerifyFingerprint, PinataState, EnsureSupported, RequirePoolCanPay,
                        Inspect
    <2>3. QED
      BY <1>1, <2>1, <2>2 DEF GateInv, IsDrop, Again
  <1>4. QED
    BY <1>2, <1>3

LEMMA ChangeStep ==
  ASSUME GateInv, Change
  PROVE  GateInv'
  <1>1. UNCHANGED <<network, drop>>
    BY DEF Change
  <1>2. Open(world, drop)' = Open(world', drop)
    BY <1>1 DEF Open, VerifyFingerprint, PinataState, EnsureSupported, RequirePoolCanPay, Inspect
  <1>3. /\ held \subseteq held'
        /\ drop.at \in Again => Open(world', drop) \subseteq held'
        /\ held' \subseteq {"programs", "faucet", "recipient"}
    BY OpenIs DEF Change, Again, GateInv
  <1>4. QED
    BY <1>1, <1>2, <1>3 DEF GateInv, IsDrop, Again

LEMMA GateInvNext == GateInv /\ [Next]_vars => GateInv'
  <1> SUFFICES ASSUME GateInv, [Next]_vars PROVE GateInv'
    OBVIOUS
  <1>1. CASE UNCHANGED vars
    <2>1. Open(world, drop)' = Open(world, drop)
      BY <1>1 DEF vars, Open, VerifyFingerprint, PinataState, EnsureSupported, RequirePoolCanPay,
                  Inspect
    <2>2. QED
      BY <1>1, <2>1 DEF vars, GateInv, IsDrop, Again
  <1>2. CASE RunDrop
    BY <1>2, PlainSteps, ReadRecipientStep, FetchChallengeStep, SolveStep, ReadProgramsAgainStep,
       ReadPinataAgainStep, ReadRecipientAgainStep DEF RunDrop
  <1>3. QED
    BY <1>1, <1>2, LookStep, ChangeStep DEF Next

\* run_pinata_drop submits only when each gate was open at some time after the challenge was
\* solved, whatever the network did between its reads.
THEOREM GatesAreHeld == Spec => []GatesHeldAfterTheWork
  <1>1. GateInv => GatesHeldAfterTheWork
    BY DEF GateInv, GatesHeldAfterTheWork
  <1>2. QED
    BY <1>1, GateInvInit, GateInvNext, PTL DEF Spec

-----------------------------------------------------------------------------
(* What the user was shown before the drop, while nothing changes. *)

\* An end that does not contradict it.
Agrees(end) ==
  /\ end \in Code \ {"recipient_balance_overflow"} =>
       shown.info # "ok" \/ shown.recipient # "ok" \/ Unannounced(end)
  /\ end = "sent" => shown.info \in {"ok", "prize_mismatch"} /\ shown.recipient = "ok"

\* The gates behind the drop are still open, for the balance and the challenge it has in hand.
Found(w, d) ==
  /\ d.at \in {"recipient", "fetch", "solve", "submit"} \cup Again => VerifyFingerprint(w) = "ok"
  /\ d.at \in {"fetch", "solve", "submit"} \cup Again =>
       Inspect(w) = "ok" /\ CanAccept(w) = "ok" /\ d.before = w.account.balance
  /\ d.at \in {"solve"} \cup Again \/ (d.at = "submit" /\ network = "pinata") =>
       /\ PinataState(w) = "ok" /\ d.solved = w.faucet.data
       /\ EnsureSupported(w) = "ok" /\ RequirePoolCanPay(w) = "ok"

StatusInv ==
  /\ network \in {"pinata", "claim_api"}
  /\ world \in World(network)
  /\ IsDrop(drop)
  /\ drop.at \in {"fetch", "solve"} \cup Again => network = "pinata"
  /\ same => /\ shown = [info |-> GetInfo(world), recipient |-> Inspect(world)]
             /\ Found(world, drop)
             /\ drop.at = "over" => Agrees(drop.end)

-----------------------------------------------------------------------------
\* First is the first of two codes that is not `ok`.
LEMMA FirstIs ==
  ASSUME NEW a, NEW b
  PROVE  First(<<a, b>>) = IF a # "ok" THEN a ELSE b
  <1> DEFINE codes == <<a, b>>
             Fails(i) == codes[i] # "ok" /\ \A j \in DOMAIN codes : j < i => codes[j] = "ok"
             i == CHOOSE i \in DOMAIN codes : Fails(i)
  <1>1. DOMAIN codes = {1, 2} /\ codes[1] = a /\ codes[2] = b
    OBVIOUS
  <1>2. CASE a = "ok" /\ b = "ok"
    BY <1>1, <1>2 DEF First
  <1>3. CASE a # "ok" \/ b # "ok"
    <2>1. First(codes) = codes[i]
      BY <1>1, <1>3 DEF First
    <2>2. \E n \in DOMAIN codes : Fails(n)
      <3>1. Fails(1) \/ Fails(2)
        BY <1>1, <1>3
      <3>2. QED
        BY <1>1, <3>1
    <2>3. i \in DOMAIN codes /\ Fails(i)
      BY <2>2
    <2>4. i = IF a # "ok" THEN 1 ELSE 2
      BY <1>1, <1>3, <2>3
    <2> HIDE DEF codes, i
    <2>5. codes[i] = IF a # "ok" THEN a ELSE b
      BY <1>1, <2>4
    <2>6. QED
      BY <1>3, <2>1, <2>5 DEF codes
  <1>4. QED
    BY <1>2, <1>3

LEMMA TimesOneMore ==
  ASSUME NEW p \in Nat, NEW n \in Nat
  PROVE  /\ p * n \in Nat /\ p * (n + 1) \in Nat
         /\ p * (n + 1) = p * n + p
         /\ n = 0 => p * n = 0
  OBVIOUS

\* What the status of a claim service says of the answer the service would give.
LEMMA ServiceIs ==
  ASSUME world \in World(network), network = "claim_api", VerifyFingerprint(world) = "ok"
  PROVE  /\ ServiceAnswers(world) = "ok" => ClaimApiInfo(world) \in {"ok", "prize_mismatch"}
         /\ ServiceAnswers(world) # "ok" =>
              ClaimApiInfo(world) # "ok" \/ Unannounced(ServiceAnswers(world))
  <1>1. PICK f \in Service : f = world.faucet
    BY DEF World
  <1>2. /\ f.prize \in Nat \ {0} /\ f.pending \in Nat /\ f.pool \in Nat
        /\ f.left \in {0, 1} /\ Reserve \in Nat
    <2>1. /\ f.paused \in BOOLEAN /\ f.prize \in {Prize, Prize + 1} /\ f.left \in {0, 1}
          /\ f.limited \in BOOLEAN /\ f.pending \in Waiting /\ f.pool \in Pools
      BY DEF Service
    <2>2. f.prize \in Nat \ {0}
      BY <2>1, PrizeAssumption
    <2>3. QED
      BY <2>1, <2>2, BalanceAssumption, ServiceAssumption
  <1>3. PICK need \in Nat : need = f.prize * (f.pending + 1)
    BY <1>2, TimesOneMore
  <1>4. /\ need >= f.prize
        /\ f.pending = 0 => need = f.prize
        /\ ServiceAnswers(world) = IF f.paused THEN "faucet_paused"
                                   ELSE IF f.limited \/ f.left = 0 THEN "rate_limited"
                                   ELSE IF f.pool < need + Reserve THEN "pool_depleted"
                                   ELSE "ok"
    <2>1. need = f.prize * f.pending + f.prize /\ f.prize * f.pending \in Nat
      BY <1>2, <1>3, TimesOneMore
    <2>2. f.pending = 0 => f.prize * f.pending = 0
      BY <1>2, TimesOneMore
    <2>3. need >= f.prize /\ (f.pending = 0 => need = f.prize)
      BY <1>2, <2>1, <2>2
    <2>4. QED
      BY <1>1, <1>3, <2>3, Zenon DEF ServiceAnswers
  <1>5. ASSUME ServiceAnswers(world) = "ok"
        PROVE  ClaimApiInfo(world) \in {"ok", "prize_mismatch"}
    <2>1. ~(f.pool < need + Reserve) /\ f.left # 0 /\ ~f.paused
      BY <1>4, <1>5
    <2>2. ~NothingRemains(f) /\ f.pool >= f.prize
      BY <1>2, <1>4, <2>1 DEF NothingRemains
    <2>3. QED
      BY <1>1, <1>2, <2>1, <2>2 DEF ClaimApiInfo, RequirePoolCanPay, Service
  <1>6. ASSUME ServiceAnswers(world) # "ok", ClaimApiInfo(world) = "ok"
        PROVE  Unannounced(ServiceAnswers(world))
    <2>1. ~f.paused /\ ~NothingRemains(f)
      BY <1>1, <1>6 DEF ClaimApiInfo
    <2>2. f.left > 0 /\ f.pool >= f.prize + Reserve
      BY <1>2, <2>1 DEF NothingRemains
    <2>3. CASE f.limited
      BY <1>1, <1>4, <2>1, <2>2, <2>3 DEF Unannounced
    <2>4. CASE ~f.limited
      <3>1. ServiceAnswers(world) = "pool_depleted" /\ f.pool < need + Reserve
        BY <1>2, <1>4, <1>6, <2>1, <2>2, <2>4
      <3>2. f.pending > 0
        BY <1>2, <1>4, <2>2, <3>1
      <3>3. QED
        BY <1>1, <2>2, <3>1, <3>2 DEF Unannounced
    <2>5. QED
      BY <2>3, <2>4
  <1>7. QED
    BY <1>5, <1>6

\* What the status says of each gate.
LEMMA InfoIs ==
  ASSUME world \in World(network)
  PROVE
    /\ VerifyFingerprint(world) # "ok" => GetInfo(world) # "ok"
    /\ network = "pinata" =>
         /\ PinataState(world) # "ok" => GetInfo(world) # "ok"
         /\ EnsureSupported(world) # "ok" => GetInfo(world) # "ok"
         /\ RequirePoolCanPay(world) # "ok" => GetInfo(world) # "ok"
         /\ VerifyFingerprint(world) = "ok" /\ PinataState(world) = "ok"
              /\ EnsureSupported(world) = "ok" /\ RequirePoolCanPay(world) = "ok" =>
            GetInfo(world) = "ok"
    /\ network = "claim_api" /\ VerifyFingerprint(world) = "ok" =>
         /\ ServiceAnswers(world) = "ok" => GetInfo(world) \in {"ok", "prize_mismatch"}
         /\ ServiceAnswers(world) # "ok" =>
              GetInfo(world) # "ok" \/ Unannounced(ServiceAnswers(world))
  <1>1. First(<<VerifyFingerprint(world), PinataState(world)>>)
          = IF VerifyFingerprint(world) # "ok" THEN VerifyFingerprint(world)
            ELSE PinataState(world)
    BY FirstIs
  <1>2. First(<<RequirePoolCanPay(world), EnsureSupported(world)>>)
          = IF RequirePoolCanPay(world) # "ok" THEN RequirePoolCanPay(world)
            ELSE EnsureSupported(world)
    BY FirstIs
  <1>3. ASSUME network = "pinata"
        PROVE  GetInfo(world) = IF VerifyFingerprint(world) # "ok" THEN VerifyFingerprint(world)
                                ELSE IF PinataState(world) # "ok" THEN PinataState(world)
                                ELSE IF RequirePoolCanPay(world) # "ok"
                                     THEN RequirePoolCanPay(world)
                                ELSE EnsureSupported(world)
    BY <1>1, <1>2, <1>3 DEF GetInfo, PinataInfo
  <1>4. ASSUME network = "claim_api"
        PROVE  /\ VerifyFingerprint(world) # "ok" => GetInfo(world) # "ok"
               /\ VerifyFingerprint(world) = "ok" =>
                    /\ ServiceAnswers(world) = "ok" => GetInfo(world) \in {"ok", "prize_mismatch"}
                    /\ ServiceAnswers(world) # "ok" =>
                         GetInfo(world) # "ok" \/ Unannounced(ServiceAnswers(world))
    <2>1. GetInfo(world) = ClaimApiInfo(world)
      BY <1>4 DEF GetInfo
    <2>2. VerifyFingerprint(world) # "ok" => ClaimApiInfo(world) # "ok"
      BY DEF ClaimApiInfo
    <2>3. QED
      BY <1>4, <2>1, <2>2, ServiceIs
  <1>5. VerifyFingerprint(world) # "ok" => GetInfo(world) # "ok"
    <2>1. CASE network = "pinata"
      BY <1>3, <2>1
    <2>2. CASE network # "pinata"
      BY <2>2 DEF GetInfo, ClaimApiInfo
    <2>3. QED
      BY <2>1, <2>2
  <1>6. QED
    BY <1>3, <1>4, <1>5

\* As long as the network stays as it is, so do the answers to every read.
LEMMA ReadsStay ==
  ASSUME UNCHANGED <<network, world>>
  PROVE  GetInfo(world)' = GetInfo(world) /\ Inspect(world)' = Inspect(world)
  BY DEF GetInfo, PinataInfo, ClaimApiInfo, VerifyFingerprint, PinataState, EnsureSupported,
         RequirePoolCanPay, Inspect

-----------------------------------------------------------------------------
LEMMA StatusInvInit == Init => StatusInv
  BY DEF Init, StatusInv, IsDrop, NoDrop, Again, Found, Agrees, Code

\* The drop goes on past gates that were open.
LEMMA StatusGoesOn ==
  ASSUME StatusInv, UNCHANGED <<network, world, shown, same>>,
         NEW d, drop' = d, IsDrop(d), d.at # "over",
         d.at \in {"fetch", "solve"} \cup Again => network = "pinata",
         same => Found(world, d)
  PROVE  StatusInv'
  <1>1. Found(world, drop)' = Found(world, d)
    BY DEF Found, VerifyFingerprint, PinataState, EnsureSupported, RequirePoolCanPay, Inspect,
           CanAccept
  <1>2. QED
    BY <1>1, ReadsStay DEF StatusInv, IsDrop

\* The drop ends, and its end agrees with what was shown.
LEMMA StatusEnds ==
  ASSUME StatusInv, UNCHANGED <<network, world, shown, same>>,
         NEW code, End(code), same => Agrees(code)
  PROVE  StatusInv'
  <1>1. IsDrop(drop') /\ drop'.at = "over" /\ drop'.end = code
    BY DEF End, IsDrop, NoDrop
  <1>2. Found(world, drop)'
    BY <1>1 DEF Found, Again
  <1>3. same => Agrees(drop.end)'
    BY <1>1 DEF Agrees, Unannounced
  <1>4. QED
    BY <1>1, <1>2, <1>3, ReadsStay DEF StatusInv, IsDrop, Again

\* Once something has changed, nothing is owed to what was shown.
LEMMA StatusIsStale ==
  ASSUME StatusInv, UNCHANGED <<network, world, shown, same>>, NEW before, Retry(before),
         drop.at \in Again, ~same
  PROVE  StatusInv'
  <1>1. IsDrop(drop') /\ drop'.at \in {"fetch", "over"}
    BY RetryBegins
  <1>2. QED
    BY <1>1 DEF StatusInv, IsDrop, Again

\* A refusal the status or the inspection has announced.
LEMMA Announced ==
  ASSUME StatusInv, same, NEW code, GetInfo(world) # "ok" \/ Inspect(world) # "ok",
         code # "sent"
  PROVE  Agrees(code)
  BY DEF StatusInv, Agrees

\* An end that is no refusal says nothing about the gates.
LEMMA NoRefusal ==
  ASSUME NEW code \in {"unreachable", "cancelled", "stale", "failed", "recipient_balance_overflow"}
  PROVE  Agrees(code)
  BY DEF Agrees, Code

LEMMA CodesAre ==
  ASSUME NEW w
  PROVE  /\ VerifyFingerprint(w) # "sent" /\ PinataState(w) # "sent" /\ Inspect(w) # "sent"
         /\ EnsureSupported(w) # "sent" /\ RequirePoolCanPay(w) # "sent"
         /\ CanAccept(w) \in {"ok", "recipient_balance_overflow"}
  BY DEF VerifyFingerprint, PinataState, Inspect, EnsureSupported, RequirePoolCanPay, CanAccept

LEMMA StatusPress ==
  ASSUME StatusInv, Press
  PROVE  StatusInv'
  <1> DEFINE d == [NoDrop EXCEPT !.at = "programs"]
  <1>1. IsDrop(d) /\ d.at = "programs"
    BY DEF IsDrop, NoDrop
  <1>2. Found(world, d)
    BY <1>1 DEF Found, Again
  <1>3. drop' = d /\ UNCHANGED <<network, world, shown, same>>
    BY DEF Press
  <1> HIDE DEF d
  <1>4. QED
    BY <1>1, <1>2, <1>3, StatusGoesOn DEF Again

LEMMA StatusBreak ==
  ASSUME StatusInv, Break
  PROVE  StatusInv'
  <1>1. /\ End("unreachable") \/ End("cancelled")
        /\ UNCHANGED <<network, world, shown, same>>
    BY DEF Break
  <1>2. QED
    BY <1>1, NoRefusal, StatusEnds

LEMMA StatusReadPrograms ==
  ASSUME StatusInv, ReadPrograms
  PROVE  StatusInv'
  <1> DEFINE d == [drop EXCEPT !.at = "recipient"]
  <1>1. UNCHANGED <<network, world, shown, same>>
    BY DEF ReadPrograms, Pass
  <1>2. CASE VerifyFingerprint(world) = "ok" /\ drop' = d
    <2>1. IsDrop(d) /\ d.at = "recipient"
      BY DEF IsDrop, StatusInv
    <2>2. Found(world, d)
      BY <1>2, <2>1 DEF Found, Again
    <2> HIDE DEF d
    <2>3. QED
      BY <1>1, <1>2, <2>1, <2>2, StatusGoesOn DEF Again
  <1>3. CASE VerifyFingerprint(world) # "ok" /\ End(VerifyFingerprint(world))
    <2>1. same => Agrees(VerifyFingerprint(world))
      BY <1>3, InfoIs, CodesAre, Announced DEF StatusInv
    <2>2. QED
      BY <1>1, <1>3, <2>1, StatusEnds
  <1>4. QED
    BY <1>2, <1>3 DEF ReadPrograms, Pass

LEMMA StatusReadRecipient ==
  ASSUME StatusInv, ReadRecipient
  PROVE  StatusInv'
  <1> DEFINE at == IF network = "pinata" THEN "fetch" ELSE "submit"
             d == [drop EXCEPT !.at = at, !.before = world.account.balance]
             gate == First(<<Inspect(world), CanAccept(world)>>)
  <1>1. UNCHANGED <<network, world, shown, same>> /\ drop.at = "recipient"
    BY DEF ReadRecipient, Pass
  <1>2. gate = IF Inspect(world) # "ok" THEN Inspect(world) ELSE CanAccept(world)
    BY FirstIs
  <1>3. CASE gate = "ok" /\ drop' = d
    <2>1. IsDrop(drop') /\ drop'.at = at /\ drop'.before = world.account.balance
      BY <1>3 DEF IsDrop, StatusInv
    <2>2. Inspect(world) = "ok" /\ CanAccept(world) = "ok"
      BY <1>2, <1>3
    <2>3. same => VerifyFingerprint(world) = "ok"
      BY <1>1 DEF StatusInv, Found
    <2>4. same => Found(world, drop')
      BY <2>1, <2>2, <2>3 DEF Found, Again
    <2>5. drop'.at # "over" /\ (drop'.at \in {"fetch", "solve"} \cup Again => network = "pinata")
      BY <2>1 DEF Again
    <2>6. QED
      BY <1>1, <1>3, <2>1, <2>4, <2>5, StatusGoesOn
  <1>4. CASE gate # "ok" /\ End(gate)
    <2>1. same => Agrees(gate)
      <3>1. CASE Inspect(world) # "ok"
        BY <1>2, <3>1, CodesAre, Announced
      <3>2. CASE Inspect(world) = "ok"
        BY <1>2, <1>4, <3>2, CodesAre, NoRefusal
      <3>3. QED
        BY <3>1, <3>2
    <2> HIDE DEF gate
    <2>2. QED
      BY <1>1, <1>4, <2>1, StatusEnds
  <1>5. QED
    BY <1>3, <1>4 DEF ReadRecipient, Pass

LEMMA StatusFetchChallenge ==
  ASSUME StatusInv, FetchChallenge
  PROVE  StatusInv'
  <1> DEFINE gate == IF PinataState(world) # "ok" THEN PinataState(world)
                     ELSE First(<<EnsureSupported(world), RequirePoolCanPay(world)>>)
             d == [drop EXCEPT !.at = "solve", !.solved = world.faucet.data]
  <1>1. UNCHANGED <<network, world, shown, same>> /\ drop.at = "fetch"
    BY DEF FetchChallenge, Pass
  <1>2. First(<<EnsureSupported(world), RequirePoolCanPay(world)>>)
          = IF EnsureSupported(world) # "ok" THEN EnsureSupported(world)
            ELSE RequirePoolCanPay(world)
    BY FirstIs
  <1>3. network = "pinata"
    BY <1>1 DEF StatusInv
  <1>4. CASE gate = "ok" /\ drop' = d
    <2>1. /\ IsDrop(drop') /\ drop'.at = "solve"
          /\ drop'.solved = world.faucet.data /\ drop'.before = drop.before
      BY <1>4 DEF IsDrop, StatusInv
    <2>2. PinataState(world) = "ok" /\ EnsureSupported(world) = "ok"
            /\ RequirePoolCanPay(world) = "ok"
      BY <1>2, <1>4
    <2>3. same => /\ VerifyFingerprint(world) = "ok" /\ Inspect(world) = "ok"
                  /\ CanAccept(world) = "ok" /\ drop.before = world.account.balance
      BY <1>1 DEF StatusInv, Found
    <2>4. same => Found(world, drop')
      BY <2>1, <2>2, <2>3 DEF Found, Again
    <2>5. QED
      BY <1>1, <1>3, <1>4, <2>1, <2>4, StatusGoesOn
  <1>5. CASE gate # "ok" /\ End(gate)
    <2>1. GetInfo(world) # "ok" /\ gate # "sent"
      BY <1>2, <1>3, <1>5, InfoIs, CodesAre DEF StatusInv
    <2>2. same => Agrees(gate)
      BY <2>1, Announced
    <2> HIDE DEF gate
    <2>3. QED
      BY <1>1, <1>5, <2>2, StatusEnds
  <1>6. QED
    BY <1>4, <1>5 DEF FetchChallenge, Pass

\* The drop passes a gate once more, and carries the same challenge and balance.
LEMMA StatusPassAgain ==
  ASSUME StatusInv, drop.at \in {"solve"} \cup Again, NEW at \in Again \cup {"submit"},
         drop' = [drop EXCEPT !.at = at], UNCHANGED <<network, world, shown, same>>
  PROVE  StatusInv'
  <1> DEFINE d == [drop EXCEPT !.at = at]
  <1>1. /\ IsDrop(d) /\ d.at = at /\ d.solved = drop.solved /\ d.before = drop.before
    BY DEF IsDrop, StatusInv
  <1>2. same => Found(world, d)
    BY <1>1 DEF StatusInv, Found, Again
  <1>3. network = "pinata"
    BY DEF StatusInv, Again
  <1>4. d.at # "over"
    BY <1>1 DEF Again
  <1> HIDE DEF d
  <1>5. drop' = d
    BY DEF d
  <1>6. QED
    BY <1>1, <1>2, <1>3, <1>4, <1>5, StatusGoesOn

LEMMA StatusSolve ==
  ASSUME StatusInv, Solve
  PROVE  StatusInv'
  <1>1. UNCHANGED <<network, world, shown, same>> /\ drop.at = "solve"
    BY DEF Solve
  <1>2. CASE End("failed")
    BY <1>1, <1>2, NoRefusal, StatusEnds
  <1>3. CASE drop' = [drop EXCEPT !.at = "programs again"]
    BY <1>1, <1>3, StatusPassAgain DEF Again
  <1>4. QED
    BY <1>2, <1>3 DEF Solve

\* While nothing changes, the second look finds what the first one found.
LEMMA StatusReadAgain ==
  ASSUME StatusInv, ReadProgramsAgain \/ ReadPinataAgain \/ ReadRecipientAgain
  PROVE  StatusInv'
  <1>1. UNCHANGED <<network, world, shown, same>> /\ drop.at \in Again
    BY DEF ReadProgramsAgain, ReadPinataAgain, ReadRecipientAgain, Pass, Again
  <1>2. CASE \E at \in Again \cup {"submit"} : drop' = [drop EXCEPT !.at = at]
    BY <1>1, <1>2, StatusPassAgain
  <1>3. CASE ~same /\ \E code : End(code)
    BY <1>1, <1>3, StatusEnds
  <1>4. CASE ~same /\ \E before : Retry(before)
    BY <1>1, <1>4, StatusIsStale
  <1>5. same => /\ VerifyFingerprint(world) = "ok" /\ PinataState(world) = "ok"
                /\ RequirePoolCanPay(world) = "ok" /\ Inspect(world) = "ok"
                /\ world.faucet.data = drop.solved /\ world.account.balance = drop.before
    BY <1>1 DEF StatusInv, Found
  <1>6. CASE same
    BY <1>2, <1>5, <1>6 DEF ReadProgramsAgain, ReadPinataAgain, ReadRecipientAgain, Pass, Again
  <1>7. CASE ~same
    BY <1>2, <1>3, <1>4, <1>7 DEF ReadProgramsAgain, ReadPinataAgain, ReadRecipientAgain, Pass,
                                  Again
  <1>8. QED
    BY <1>6, <1>7

LEMMA StatusSubmit ==
  ASSUME StatusInv, Submit
  PROVE  StatusInv'
  <1>1. UNCHANGED <<network, world, shown, same>> /\ drop.at = "submit"
    BY DEF Submit
  <1>2. /\ world \in World(network)
        /\ same => /\ shown = [info |-> GetInfo(world), recipient |-> Inspect(world)]
                   /\ VerifyFingerprint(world) = "ok" /\ Inspect(world) = "ok"
                   /\ network = "pinata" =>
                        /\ PinataState(world) = "ok" /\ EnsureSupported(world) = "ok"
                        /\ RequirePoolCanPay(world) = "ok"
    BY <1>1 DEF StatusInv, Found
  <1>3. CASE network = "pinata" /\ End("sent")
    <2>1. same => Agrees("sent")
      BY <1>2, <1>3, InfoIs DEF Agrees, Code
    <2>2. QED
      BY <1>1, <1>3, <2>1, StatusEnds
  <1>4. CASE network = "claim_api" /\ ServiceAnswers(world) = "ok" /\ End("sent")
    <2>1. same => Agrees("sent")
      BY <1>2, <1>4, InfoIs DEF Agrees, Code
    <2>2. QED
      BY <1>1, <1>4, <2>1, StatusEnds
  <1>5. CASE network = "claim_api" /\ ServiceAnswers(world) # "ok" /\ End(ServiceAnswers(world))
    <2>1. ServiceAnswers(world) # "sent"
      BY DEF ServiceAnswers
    <2>2. same => Agrees(ServiceAnswers(world))
      BY <1>2, <1>5, <2>1, InfoIs DEF Agrees
    <2>3. QED
      BY <1>1, <1>5, <2>2, StatusEnds
  <1>6. CASE End("failed")
    BY <1>1, <1>6, NoRefusal, StatusEnds
  <1>7. QED
    BY <1>3, <1>4, <1>5, <1>6 DEF Submit

\* The user looks: what is shown is true, and holds of a drop that has not begun.
LEMMA StatusLook ==
  ASSUME StatusInv, Look
  PROVE  StatusInv'
  <1>1. UNCHANGED <<network, world>>
    BY DEF Look
  <1>2. shown' = [info |-> GetInfo(world)', recipient |-> Inspect(world)']
    BY <1>1, ReadsStay DEF Look
  <1>3. CASE drop.at \in {"idle", "over"}
    <2>1. IsDrop(drop') /\ drop'.at = "idle"
      BY <1>3 DEF Look, IsDrop, NoDrop, StatusInv
    <2>2. Found(world, drop)'
      BY <2>1 DEF Found, Again
    <2>3. QED
      BY <1>1, <1>2, <2>1, <2>2 DEF StatusInv, IsDrop, Again
  <1>4. CASE drop.at \notin {"idle", "over"}
    <2>1. ~same' /\ drop' = drop
      BY <1>4 DEF Look
    <2>2. QED
      BY <1>1, <2>1 DEF StatusInv, IsDrop, Again
  <1>5. QED
    BY <1>3, <1>4

LEMMA StatusInvNext == StatusInv /\ [Next]_vars => StatusInv'
  <1> SUFFICES ASSUME StatusInv, [Next]_vars PROVE StatusInv'
    OBVIOUS
  <1>1. CASE RunDrop
    BY <1>1, StatusPress, StatusBreak, StatusReadPrograms, StatusReadRecipient,
       StatusFetchChallenge, StatusSolve, StatusReadAgain, StatusSubmit DEF RunDrop
  <1>2. CASE Change
    <2>1. world' \in World(network)
      BY <1>2 DEF Change, StatusInv, World
    <2>2. QED
      BY <1>2, <2>1 DEF Change, StatusInv, IsDrop, Again
  <1>3. CASE UNCHANGED vars
    <2>1. UNCHANGED <<network, world, shown, same>> /\ drop' = drop
      BY <1>3 DEF vars
    <2>2. Found(world, drop)' = Found(world, drop) /\ Agrees(drop.end)' = Agrees(drop.end)
      BY <2>1 DEF Found, VerifyFingerprint, PinataState, EnsureSupported, RequirePoolCanPay,
                  Inspect, CanAccept, Agrees, Unannounced
    <2>3. QED
      BY <2>1, <2>2, ReadsStay DEF StatusInv, IsDrop, Again
  <1>4. QED
    BY <1>1, <1>2, <1>3, StatusLook DEF Next

\* run_drop refuses at a gate only what get_info or inspect_recipient refused, and sends only
\* what neither did, as long as the network stays as they saw it.
THEOREM StatusIsTrueOfDrop == Spec => []StatusAgreesWithDrop
  <1>1. StatusInv => StatusAgreesWithDrop
    BY DEF StatusInv, Agrees, StatusAgreesWithDrop
  <1>2. QED
    BY <1>1, StatusInvInit, StatusInvNext, PTL DEF Spec

=============================================================================
