# LEZ Faucet in TLA+

TLA+ models of the LEZ faucet, the TLC runs that check them on small instances, and TLAPS proofs
for every instance. Each definition is written from the source; `PROJECT.json` ("map") names the
lines each one stands for. Paths below are relative to the repository.

    tlasany Claimd.tla                                    # parse a module
    tlc -workers 2 -config ClaimdPayout.cfg MCClaimd      # check a run (PROJECT.json, "runs")
    tlapm ClaimdProofs.tla                                # check the proofs

## 1. The system

The app funds one public account on a testnet. The view (QML) talks to a backend (C++), which
calls the Basecamp core module (C++), which runs the Rust client on worker threads. On the legacy
network the client solves and submits a Piñata claim itself; on the v0.3 network it asks the hosted
service `claimd`, which pays from a hot account.

    FaucetView/FaucetFlow.js -> FaucetBackend -> LezFaucetModule -> FaucetClient -+-> sequencer (Piñata)
                                                                                  +-> claimd -> sequencer

| component | state | operations | interacts by | hard because | correct when |
|---|---|---|---|---|---|
| claimd: HTTP intake (`http.rs`) | cached hot balance and fee quote | `POST /v1/claim`, `GET /v1/claim/<id>`, `/v1/info`, `/healthz` | ledger calls, chain reads, `Notify` to the worker | handlers race between awaits; a client may vanish at any await; balances and counts of different ages | a request id has one row; a call is answered with its own row; limits hold up to the races; a refused caller is told when to come back; no recorded claim is left lying |
| claimd: ledger (`db.rs`) | table of claims | get, insert, count, pending, mark_* | SQLite, one connection | survives crashes; writes may fail | a terminal row is final |
| claimd: worker (`worker.rs`, `lez.rs`) | the row in hand | take the oldest row, check funds, send, record, poll, prove | ledger, chain, `Notify` | a send is not atomic with its record; retries; deadline against a late inclusion; restart anywhere | paid once; `included` is proven; a failure is honest; every claim ends |
| claimd: policy, configuration (`policy.rs`, `config.rs`, `main.rs`) | none | limits, reserve, retry advice, validation, start-up | constants of the above | rounding, inclusive windows, overflow | the advice is exact |
| FaucetClient (`lez-faucet-ffi/src/client.rs`) | idempotency records, unproven recipients, permit, cancellation token, phase channel | `request_drop`, `cancel`, `current_phase`, `get_info`, `inspect_recipient` | called from any thread through the C ABI; network reads that are not atomic | lost or late submissions; races with other claimants; cancellation against submission; the recipient's balance moves for other reasons; two atomics polled without a lock | one run per key; a receipt is proven; a failure credited nothing; a drop goes through every gate after its work; a poll tells no other drop's phase |
| claim API transport (`v03.rs`) | none | POST, GET, JSON-RPC | HTTP | which errors mean "not recorded" | only what the service said is believed |
| puzzle solver (`solver.rs`) | stop flags, activity flag, the blocking thread | solve under a deadline, scan with wrap-around | flags polled once in an interval | the thread cannot be aborted; deadline, solution and cancellation race | no thread outlives its solve; the answer is earned |
| C ABI (`lib.rs`) | the client behind a raw pointer | one function for each operation | called by the core module from several threads | the caller keeps the client alive | none of its own: the hazards are its caller's |
| addresses and networks (`address.rs`, `network.rs`) | tables | parse, look up | | three readers of an address disagree on what is one | only an account is funded |
| LezFaucetModule (`lez_faucet_module.cpp`) | jobs, tombstones of keys, drop slot, client handle, stopping flag, threads | configure, reads, requestDrop, cancel, jobStatus, jobResultAck, shutdown, destructor | one thread per job; the Rust handle is a raw pointer | several critical sections per operation; threads must be joined before the client is destroyed | no use of a destroyed client; one drop per key; no thread, slot or outcome lost |
| faucet-ui backend (`FaucetBackend.cpp`) | network in use, active job, copies of results | bootstrap, selectNetwork, requestDrop, jobStatus, cancelJob, acknowledgeJob | calls of the core whose answer may not come | the core may have acted when its answer is lost | one job for one press; the result is told until it was heard |
| faucet-ui view and flow (`FaucetView.qml`, `FaucetFlow.js`) | attempt and its key, job, stage, panel | press, poll, resend, cancel, acknowledge, switch, reload | asynchronous calls of the backend | answers that are late, lost or of another job; reload and closing in the middle | the panel tells what became of its own press; every press comes to an end |
| scripts, CI, packaging | tooling | | | | |

## 2. Modules

| module | models | lines it comes from |
|---|---|---|
| `Claimd` | intake, ledger, worker, restart, and the chain they see | `claimd/src/http.rs`, `db.rs`, `worker.rs`, `lez.rs`, `main.rs` |
| `ClaimdIntake` | `Claimd` with what it tells those its limits refuse: `Retry-After` | `http.rs`, `policy.rs`, `db.rs` |
| `ClaimPromise` | abstract: what the service promises | `claimd/README.md`, "API"; implemented by `Claimd` |
| `FaucetClient` | the frame of `request_drop`, shared by both kinds of drop; `classify` | `client.rs` |
| `PinataDrop` | `FaucetClient` with the Piñata drop and its chain | `client.rs` |
| `ClaimApiDrop` | `FaucetClient` with the claim-service drop against `ClaimPromise` | `client.rs`, `v03.rs` |
| `DropGates` | the gates of a drop, and the status and inspection that foretell them | `client.rs`, `solver.rs`, `v03.rs`, `network.rs` |
| `PhaseChannel` | `FaucetClient` with the phase channel and a thread that polls it | `client.rs` |
| `Solver`, `SolverConstants` | one solve: the task under its deadline, the blocking thread, the flags | `solver.rs` |
| `DropSession` | `PhaseChannel` composed with `Solver`: a drop as its own process sees it | `client.rs`, `solver.rs` |
| `FaucetModule` | the core module, its callers and workers | `lez_faucet_module.cpp` |
| `DropPromise` | abstract: what the core module promises of the drops it is asked for | `lez_faucet_module.cpp`; implemented by `FaucetModule`, and by the core of `FaucetUi` |
| `FaucetUi` | the view, the backend, and the core as the backend sees it | `FaucetView.qml`, `FaucetFlow.js`, `FaucetBackend.cpp`, `address.rs` |
| `MC...` | the instances: symmetry, the operations of each caller | |
| `ClaimdProofs`, `FaucetClientProofs`, `ClaimApiProofs`, `PinataProofs`, `DropGatesProofs`, `DropSessionProofs`, `FaucetModuleProofs`, `FaucetUiProofs` | theorems (section 4) | |

The levels are composed in three ways. `ClaimApiDrop` runs the client against an instance of
`ClaimPromise`, and `Claimd` is shown, by the run `payout` and by proof, to implement `ClaimPromise`;
so what the client is shown to conclude holds for the service as it is written, as far as the model of
either goes. `DropSession` runs the permit and records of `FaucetClient`, the channel of `PhaseChannel`
and an instance of `Solver` whose cancellation is the client's (`S == INSTANCE Solver WITH cancel <- ...`). `FaucetUi` takes each operation of the core as one step, and
`FaucetModule` takes it apart; both are shown, by the runs `ui` and `module` and by proof, to implement
`DropPromise`, so what the core is assumed to do of drops under the backend is what it does with its threads.

### Claimd, ClaimdIntake

A step is what happens between two awaits or two calls of the ledger. `Post`, `CheckLimits`, `ReadHot`,
`CheckFunds`, `Insert` and `ReadBack` are the handler of `POST /v1/claim` in the order of the code;
`Abandon` drops its future at an await, or ends it with a query that fails. `insert_queued` is two
queries, the INSERT and the read of the new row (`db.rs:180-187`), so `Insert` leaves the call at
`inserted`, and `ReadBack` stores the permit and answers; or its query fails, which the handler takes
for a lost race (`http.rs:410-415`): it finds its own row and answers, or fails again, and the worker is
told nothing. `unheard` is history: the claims recorded in this way while the worker slept. `TakeNext` to `ReadAfter` are the worker: `Send` puts the transfer on the chain,
and `SendOk`, `SendRpc`, `SendRefused` and `SendUnknown` are the four ways `chain.send` can return.
`worker.hash` is the hash that exists on the chain and not yet in the ledger. `LedgerError` is a
failed ledger call of the worker, `Restart` a death of the process, which keeps the ledger and
nothing else. `ServeStatus` is a reader of the status, who fills the cache of the hot balance that the
intake uses. `Include`, `Drop` and `Outside` are the chain; including a transfer costs
the prize and a fee, one of `Reserves`. `permit` is the permit of the tokio `Notify`; `cache` the cached hot
balance.

`ClaimdIntake` adds no step: it has the functions of the ledger and the clock that make up the advice to a
refused caller, and relates them to what the intake does at the time they name.

Abstractions: messages and `updated_at` are left out. The four counts of `check_limits` are one step,
in favour of the limits. A tick of the clock outlasts the cache. `LedgerError` stands for failed reads
as well. Nobody asks for a drop to the hot account itself. `lost` is history: the hashes that a death,
a failed write or an undecodable reply kept from the ledger.

### ClaimPromise

A request id names one claim; money is sent only for a queued claim; a claim that names its transfer
is not paid for again; `failed` with a hash always means `outcome_unknown`. It does *not* promise that
a claim is paid once: a queued claim may be paid again, which is what `Claimd` really does after a
crash (section 5).

### FaucetClient, PinataDrop, ClaimApiDrop

Each call of `request_drop` has a program counter: it begins, looks up its key and its recipient,
takes the permit, looks both up again, reserves the key, runs the drop, records the outcome and
releases the permit. Each lock or atomic is a step, so the calls interleave between them. The permit
is the flag `drop_active`; the token of cancellation is the call itself. `asked` and `ran` are history.

`PinataDrop` adds the drop: inspect, fetch, solve, refresh, reread, submit, then rounds of three reads
(inclusion, balance, challenge), each a step against a chain on which claims execute, blocks become
visible, other claimants win and the recipient's balance moves. The chain is external: a claim executes at
most once, with the challenge that is current, and its effect on accounts is visible no later than its
hash. `verify_fingerprint` is part of the reads it guards; `FailDrop` is any read or gate that fails;
the deadline may pass after any round. The prize is 1. Two history variables keep the exceptions of the
properties apart: `slipped` (`pinata_one_claim`, section 5) and `spent` (accounts that spent something:
a balance cannot tell a credit that was spent from none).

`ClaimApiDrop` adds the other drop: the fingerprint and the balance, the POST, then rounds of asking
for the status, inclusion and balance. A POST is on its way until it is delivered, which may be after
the client gave up waiting, or never. `mistaken` is history: keys whose drop ended as failed while
their POST was recorded or on its way. That happens in two ways the code cannot exclude: an answer of
another form than expected is treated like a refusal (`v03.rs:364`), and repeated absence is
taken for proof although nothing bounds how late a POST arrives (`client.rs:1412`). The properties
except these drops and say nothing of them.

### DropGates

`PinataDrop` lets any gate fail at any time. `DropGates` says what the gates are: programs of the
network, owner, form, difficulty and pool of the Piñata, owner and balance of the recipient, or the
service's pause, prize, limits and pool. What `/v1/info` shows (`NothingRemains`) and what `POST /v1/claim`
decides by (`ServiceAnswers`) are two functions of one state of the service: the status counts the day's
limit and the funds, the intake all four limits and the claims that wait to be paid as well. Each read is a step, `Change` alters the network
between any two, and `Look` is `get_info` with `inspect_recipient`. `world` is what the network would
answer, `drop` the locals of `run_pinata_drop` or `run_claim_api_drop` up to the submission. `held`
and `same` are history: the gates that were open at some time since the work was done, and whether
anything changed since the user looked.

### PhaseChannel, Solver, DropSession

`PhaseChannel` has `publish` (two stores), `clear` (a compare-exchange, by the guard that runs when the
drop's function returns) and `current` (two loads, with any steps between). `publisher` records what a
call has stored. `Call_` takes the steps of `FaucetClient`, which may not leave `record` before the
guard ran.

`Solver` has the task (`Spawn`, `Finish`, `Drain`), the deadline, and the blocking thread: it starts when
the pool finds a thread, polls the two flags once in `Interval` candidates, tries candidates from a random
start with wrap-around, and leaves through the activity guard. Which candidates solve the challenge is
chosen freely (SHA-256 is external); 2^128 is `Size`. `DropSession` solves once for each drop; in the code a
retry begins another solve with the same locals anew, after the first is over. A drop looks at its
cancellation before and after the solve and before it submits (`EndSolve`, `EndDrop`), and not from there on.

### FaucetModule

A step is one critical section of `m_jobsMutex`, or one access to an atomic outside of it; a call of
the Rust library is two steps, because the handle is loaded before the call and used during it.
A caller is a thread of the host; `call[c]` holds the locals of the operation it is in. A worker
thread goes from `start` through the library to `release`, `record` and `done`. `joining` is the set
of threads a caller took out of their jobs and joins before its next step. The JSON envelopes are reduced to
the outcome they carry. Whether the host may call configure during other calls is the
constant `ConfigureAlone`.

Abstractions: `stopping` and the client handle are loaded in one step where the code loads
them next to each other; the recipient of a key is left out, so a repeated key always matches. The
destructor (a shutdown without the re-arm) and a thread the system cannot create are not modelled.

### DropPromise

Of each request key: no drop yet, one that runs, one that was asked to stop, or how it ended; and the keys
whose result can still be had. A drop starts only for a new key and while no other runs; it ends once, as
cancelled only if it was asked to stop; its result is let go of only after it ended. In `FaucetModule` a
drop is what `jobStatus` shows of the job of its key (`ShownStatus`): it starts when its job enters the table,
not when its key or the slot is reserved, and it was asked to stop from the moment its job is flagged, or
its thread finds the module stopping and does not run. It does not promise that a refused request leaves no
trace: the key and the slot are reserved for a while, which `OneDropPerKey` and `SlotHasOneHolder` are about.

### FaucetUi

Calls of the view go through `pipe`: the backend serves them in order (`Serve`: one action for each
slot), and the view takes the answers (`TakeAnswer`). A call of the core is atomic here, because
`FaucetModule` is about what is inside it; its answer may be lost after it took effect
(`InvokeCore`), and so may a call of the view or its answer (`LoseAnswer`). `Reload` loads the view
anew, `Close` and `Reopen` close the window, which ends the client and keeps the jobs. A job is
named by the request key it was started for: one press mints one key. The reads (status of the
pool, inspection) appear only where they refuse a configure; `Text` has what the three readers of an
address tell apart: `isPlausibleAddressInput`, `boundedAddress` and `parse_public_address`. `press`
and `unheard` are history: what the user saw when he pressed, and which calls took effect without an
answer.

## 3. Runs

| run | instance | shows |
|---|---|---|
| `payout` | 1 request id, 2 racing handlers with 2 recipients, 2 hashes, 2 attempts, 2 faults | `PaidOnceUnlessLost`, `IncludedIsProven`, `FailureIsHonest`, `AnswersOwnRow`, `NeverResigned`, and `KeepsPromise` (the refinement of `ClaimPromise`) |
| `queue` | 2 requests, 1 handler, funds 3 with prize and fee 1, 1 fault, weak fairness of the worker | `OneAwaitsInclusion`, `NoStrandedClaim`, `FundsCoverTransfers`; `ClaimsSettle`: every recorded claim the worker can know of ends; `AwakeWorkerSettlesAll`: the others end when it is next awake |
| `limits` | 3 requests, 2 handlers, a limit of 1 that is raced for and one of 2, a window that ends | `CapsHoldUpToRaces`: a window exceeds its limit by at most the other handlers; `AdviceIsExact`: `Retry-After` names the second in which the limit next admits |
| `module` | 2 callers, 2 jobs, 1 key, 2 handles | `WorkersHoldClient`, `OneDropPerKey`, `SlotHasOneHolder`, `NoThreadIsLost`, `AcknowledgedIsRecorded`, `SettledIsFinal`, and `KeepsPromise` (the refinement of `DropPromise`) |
| `pinata` | 2 calls, 2 keys, 1 recipient, 2 submissions, 2 prizes, 1 retry | `OneUntoldCredit`, `ReceiptIsProven`, `FailureCreditsNothing` |
| `claim_api` | 2 calls, 2 keys, 2 recipients, 2 transfers | `OneRunPerKey`, `OneUntoldCredit`, `ReceiptIsProven`, `CancelledAskedNothing`, `FailureIsFinal` |
| `session` | 2 calls, 2 keys, 3 candidates, 2 attempts, the flags polled at each | `ChannelIsOwn`: no poll of a running drop tells another's phase, and no other clears it; `SolveIsHonest`; `SolveStops`: no thread outlives its solve and none spins unseen; `DropsEnd`: every call returns |
| `gates` | both mechanisms, 2 seeds, 3 difficulties, 3 pools, a claim that waits or none, 1 retry | `StatusAgreesWithDrop`: what the user was told is what the drop does, if nothing changed and but for the refusals a service does not announce; `GatesHeldAfterTheWork` |
| `ui` | 2 networks, 2 presses, 1 switch, 2 faults, 2 calls under way | `OneJobPerPress`, `RunsWhereShown`, `PanelIsOfOwnPress`, `UnprovenIsRefused`, `EveryPressEnds`, and `KeepsPromise` (of the core, `DropPromise`) |
| `pinata_one_claim`, `module_shutdown`, `ui_lost_answer` | the smallest that show it | the findings of section 5 |

Bounds, and why they are enough. Two handlers, callers or calls are what a race needs, and the
properties compare pairs. Two hashes let a claim be paid twice; a third payment needs the same two
steps again. Two faults are a fault during the recovery from a fault. `MaxAttempts` 2 has a last
attempt and one that is not. One retry (`MaxRetries`) leads through a lost race into a
second submission; the code has more. `MaxMisses` 2 tells repeated absence from a single one; the code
uses 3. `MaxBalance` 1 lets others pay and spend the amount of a prize, the only amount that can be
mistaken for one. `MaxRecords` is never reached with two keys; `MaxRetained` 2 is reached by the two
jobs. `MaxReads` and `MaxClients` bound the jobs that are reads and the handles made by configure.
In `queue` the funds pay for one claim with its fee and reserve, and not for two, so the check of the funds
is met with a balance that falls short. In `limits` nothing is paid (`Hash` is empty): it is about the
intake; a second is two ticks, so that advice in whole seconds has something to round. In `module` only
one caller configures and shuts down, and it does not configure while the other is inside (section 5);
with its one key two drops cannot meet, so that a drop starts alone is asked there of the slot
(`SlotHasOneHolder`), and of two keys by the proof of `CallersSeeOneDrop` and, for the core as one step, by
the run `ui`.
In `pinata` one recipient is enough for what the run asks; a repeated key for another recipient
("conflict") is met in `claim_api`. In `session` three candidates and two attempts have a search that
ends before the last candidate, one that wraps, and a budget that is spent; difficulty 4 is the first the
solver refuses. `gates` has, of each number a gate compares, a value on either side of it; its three pools cover
no claim, one claim with the reserve, and one with another that waits. In `ui` two
presses are one that meets what the other left behind, and two faults lose an answer during the
recovery from a lost one.

Symmetry is used where values are only compared (handlers, recipients, hashes, calls, keys), and
never in a run with a liveness property; request ids are ordered and callers have
different operations, so they are not symmetric.

Deadlock is checked except in `session`, `ui` and `ui_lost_answer`: there every call or press may be over, and
nothing is left to do within the bounds.

Fairness, and why the code justifies it:

- `queue` assumes `WF_vars(Payout)`. The worker is one tokio task that is always polled again: each
  network call it awaits has a timeout, each retry a limit, the poll for inclusion a deadline, and its
  wait for a notification is guarded by the permit. It assumes `WF_vars(ReadBack(h))` too: from its INSERT
  to its end a handler awaits nothing, so a client that vanishes cannot stop it. Nothing is assumed of the rest
  of a handler, or of the chain, which may drop every transfer.
- `session` assumes it of each call's own steps (`Progress`) and of the solver's (`SolverStep`): threads
  run, and the sleep of a deadline ends. It is assumed neither that a user cancels or polls nor that a
  new call begins. The permit is not waited for (a second drop is refused), so weak fairness suffices.
- `ui` assumes it of the end of a drop (`Settle`: every step of a drop has a deadline), of the backend
  (`Serve`), of the answers that were not lost (`TakeAnswer`) and of the two timers of the view
  (`Resend`, `PollCredit`). Faults are bounded, which stands for a channel that is not lost for ever.

Every property of a passing run has a mutant: a plausible bug in one mapped definition (a check that
is not repeated under the permit, a limit off by one, a notification forgotten) with which TLC finds the
property violated. They stand before the definitions they mutate.

## 4. Proofs

All are for every set of requests, keys, calls and hashes and every limit and bound, under the named
assumptions of the modules on their constants (`NoHash \notin Hash` and the like).

| module | theorem | states |
|---|---|---|
| `ClaimdProofs` | `Invariance` | `Spec => []IInv` |
| | `TypeCorrectness` | `Spec => []TypeOK` |
| | `PaymentIsSingle` | `Spec => []PaidOnceUnlessLost` |
| | `InclusionIsProven` | `Spec => []IncludedIsProven` |
| | `FailureHonesty` | `Spec => []FailureIsHonest` |
| | `NothingIsResigned` | `Spec => NeverResigned` |
| | `AnswersAreOwn` | `Spec => []AnswersOwnRow` |
| | `NoClaimIsStranded` | `Spec => []NoStrandedClaim` |
| | `PromiseIsKept` | `Spec => KeepsPromise`: `Claimd` implements `ClaimPromise` |
| | `OneTransferIsAwaited` | `Spec => []OneAwaitsInclusion` |
| | `TransfersAreCovered` | `Spec => []FundsCoverTransfers` |
| | `LimitsHoldUpToRaces` | `Spec => []CapsHoldUpToRaces` |
| | `AdviceCanBeTrusted` | `Spec => []AdviceIsExact` |
| `ClaimApiProofs` | `TypeCorrectness` | `Spec => []TypeOK` |
| | `KeysRunOnce` | `Spec => []OneRunPerKey` |
| | `CancellationIsScoped` | `Spec => []CancelIsScoped` |
| | `ReceiptsAreProven` | `Spec => []ReceiptIsProven` |
| | `CancelledDropsAskNothing` | `Spec => []CancelledAskedNothing` |
| | `FailuresAreFinal` | `Spec => []FailureIsFinal` |
| | `UntoldCreditIsOne` | `Spec => []OneUntoldCredit` |
| `PinataProofs` | `TypeCorrectness` | `Spec => []TypeOK` |
| | `ReceiptsAreProven` | `Spec => []ReceiptIsProven` |
| | `FailuresCreditNothing` | `Spec => []FailureCreditsNothing` |
| | `UntoldCreditIsOne` | `Spec => []OneUntoldCredit` |
| `DropGatesProofs` | `GatesAreHeld` | `Spec => []GatesHeldAfterTheWork` |
| | `StatusIsTrueOfDrop` | `Spec => []StatusAgreesWithDrop` |
| `DropSessionProofs` | `ChannelNamesItsDrop` | `Spec => []ChannelIsOwn` |
| | `SolveAnswersTheTruth` | `Spec => []SolveIsHonest` |
| | `NoSolveOutlivesItsDrop` | `Spec => []SolveStops` |
| `FaucetModuleProofs` | `ModuleTypes` | `Spec => []TypeOK` |
| | `KeysStartOneDrop` | `Spec => []OneDropPerKey` |
| | `NoWorkerIsLost` | `Spec => []NoThreadIsLost` |
| | `WhatSettledStays` | `Spec => SettledIsFinal` |
| | `ClientIsDestroyedOnce` | `Spec => []ClientDiesOnce`: the client in use is alive, and a client to be destroyed is in one caller's hands; whatever overlaps |
| | `OneDropHoldsSlot` | `Spec => []SlotHasOneHolder` |
| | `WhatWasAcknowledgedIsRecorded` | `Spec => []AcknowledgedIsRecorded` |
| | `CallersSeeOneDrop` | `Spec => KeepsPromise`: `FaucetModule` implements `DropPromise` |
| `FaucetUiProofs` | `TypeCorrectness` | `Spec => []TypeOK` |
| | `OnePressIsOneJob` | `Spec => []OneJobPerPress` |
| | `RequestsRunWhereShown` | `Spec => []RunsWhereShown` |
| | `PanelTellsOfOwnPress` | `Spec => []PanelIsOfOwnPress` |
| | `UnprovenStaysRefused` | `Spec => []UnprovenIsRefused` |
| | `CoreKeepsThePromise` | `Spec => KeepsPromise`: the core of `FaucetUi` implements `DropPromise` |

So every safety property and every refinement of a passing run but `WorkersHoldClient` is a theorem; the runs find out cheaply
whether it can be one. The type invariants, and `IInv` of `Claimd`, were checked by TLC before they were
proved and are left to the proofs since.

**Claimd.** None of its safety properties is inductive as it stands. That a claim is paid once depends on
the worker sending only for a queued row without a hash (`WorkerOnRow`), on a row having a hash
from the moment it is submitted (`RowsFitTransfers`), and on every transfer that was not lost being
written down, in the worker's hand, or the one of a claim with an unknown outcome
(`TransfersAccounted`). `IInv` is the conjunction of these with the type invariant and the two
properties. The proof has one lemma for each action (`InsertStep`, `SendStep`, `ForgetStep`, ...);
`NextInvariant` collects them, and the temporal step is left to PTL.

**The promise.** `Effect` says what a step of `Claimd` does to one row and its transfers: nothing a client
can see, or one of five changes (accept, pay, acknowledge, confirm, give up). Under `IInv` every action
is an `Effect`, and each `Effect` is a step of `ClaimPromise` or a stutter, which is the refinement;
that no row is signed again and that answers are of the caller's own row follow from `Effect` too.
`NoStrandedClaim` has an invariant of its own (`AllAnnounced`): while the worker waits without a permit, a
claim the ledger owes is unheard, or in the hands of a handler between its INSERT and its read; that an
answer is of the caller's own row has to be said of that handler as well (`AllOwn`).

**The worker and the funds.** Until a fault the worker does not leave a submitted claim before it is settled
(`SubmittedAtHand`), so one is submitted at a time, and the transfer that awaits its inclusion is the one
in the worker's hand. From its look at the balance to the end of that wait the balance covers a prize and
one of the reserves (`FundsAtHand`): nothing else of the service is paid meanwhile, and others who spend,
or transfers that were lost or given up (`Stray`), end it.

**The limits.** `CapInv` counts, for each window that ends at any time, the rows together with
the calls that passed the limits and have not inserted theirs. The call that was the last to pass found less
than the limit, and all that was added since belongs to the other handlers: hence `limit + Cardinality(Handler)
- 1`, and `HandlerAssumption`, that handlers are finitely many and at least one. A row that is inserted only
moves from the one count to the other. `AdviceIsExact` needs that no row is of the future (`InThePast`) and,
since a limit counts a finite set, that there is an oldest row in it; the rest is arithmetic of whole seconds.

**FaucetClient, ClaimApiDrop.** `FaucetClientProofs` proves `ClientInv` for any drop that only runs while
its call does and ends by `Finish`: the permit has one holder (`OneHolder`), which is why a key that was
looked up under it is still free when it is reserved; the record of a key says what the call that ran it
will answer (`CallFits`). `ClaimApiProofs` adds what a call has asked for and what the claims of the service
name (`DropFits`, `ClaimFits`): a cancelled drop has posted nothing itself, and, as keys run once, nobody
else has for its key; every hash a drop holds was sent for its own key. A failed drop posted nothing, was
refused, or knows its claim to be given up, unless its POST was recorded without its knowing (`mistaken`).

**Untold credit.** That an account is credited at most once by drops it was not told of is the same
argument for both kinds of drop, on `ClientInv`: a recipient has at most one unknown outcome
(`UnknownIsAlone`), because it is marked under the permit and refused from then on; and while a drop runs it
has the permit, so no other is in between.

**PinataDrop.** A claim is dead when it is discarded, or pending for a challenge the chain has left
(`Dead`), and stays so. `BalanceFits` says, of a recipient that spends nothing, that the balance shows the
prize as soon as the drop's last claim has run, and that every other claim of the drop is dead or has slipped
between two reads: so a round that finds the balance unchanged and the challenge moved on has found its claim
dead, and only then is another submitted. Every step of the chain is a `ChainStep`, which keeps what the
drops have read true; every step of a drop is nothing to the others.

**DropGates.** `held` is only written while the drop looks again. `GateInv` says that whatever is open then
is held, and that each gate the drop has passed since the work is. The difficulty of the challenge that was
solved must be part of it: it is not looked at a second time, and need not be, because the challenge is
compared. `StatusInv` says that as long as the network stays as the user saw it, what is shown is what the
status and the inspection would say now, and the gates behind the drop are still open for the balance and
the challenge it has in hand (`Found`): what a second look finds is then what the first one found.

**DropSession.** `ChannelInv` starts from the permit: the channel names the drop that holds it, or nobody, and a
drop that has stored a phase finds it there until it stores the next; the token and the phase are two
variables, so a poll may come between the two stores. `LateInv` bounds what a thread tries after its deadline:
no more than it has advanced in its interval, `worker.attempt % Interval`, as it polls the flags when that is
zero. `WorkInv` says that every attempt made has failed and what each result was earned by. The solver is
fresh unless a drop solves (`SolverRuns`), and what it answered is carried to the drop by `Together`.

**FaucetModule.** That a key starts one drop rests on the reservation: between `reserveRequestKey` and the
spawn of the worker the caller is in no lock, and other callers may reserve, abandon, acknowledge and
shut down. `Reserved` says that the caller who holds a key has a tombstone for it, is alone in holding
it, and that no drop has the key but the one he just started; with the fact that every drop has a
tombstone it is inductive. `CallerStep` and `WorkerStep` prove it for all the steps that make
and reserve nothing (most of them); `ReserveKeyStep`, `StartInsertStep`, `StartSpawnStep`,
`RememberRequestKeyStep` and `AbandonReservationStep` are the others. The slot is held by a caller from its
reservation until the thread is started (`HoldsSlot`), and by the worker from there until it has settled
(`RunsSlot`): at most one of all of these, and `dropActive` is set exactly when there is
one (`OneSlot`). That the tombstone has the outcome once the drop is acknowledged and
joined rests on `RecordInv`: a worker that is done has left the status of its job in the
tombstone of its key, which is still the tombstone of that job.

**The threads of the module.** `ThreadInv` says where a thread that runs can be joined from (`Held`), that a
job is out of the table or terminal only when its worker is past its last call (`JobFits`), and that
nobody but a shutdown waits for a thread that has not settled its job (`Joins`). Nearly all steps of the callers
leave the workers alone and join what they took (`QuietStep`); `InsertThreads`, `SpawnThreads` and
`WorkerThreads` are the others.

**The client of the module.** A caller who is about to destroy a client got it by an exchange of the handle:
so it is no longer the one in use, nobody else has it, and it was not destroyed before
(`ClientDiesOnce`, with the type invariant, is inductive). This holds for every overlap of configures and
shutdowns. That no *worker* is inside a client that is destroyed does not: `WorkersHoldClient` is checked for
one thread that configures and shuts down, and section 5 has what happens otherwise.

**The promise of the module.** A caller sees a drop as `ShownStatus` tells it, and `Told` is what `DropPromise`
knows: that of every key, and the keys in the table. Three facts carry the refinement. As a key has one drop
(`OneDropPerKey`), what is shown of a key is what its drop shows, and a step that changes one job tells of one
key at most (`OneDropTold`). A job is live until it is terminal, and one is at most (`OneIsLive`): a live drop has
the slot, by its caller until its thread is started and by its worker from there (`OneSlot`), so a shutdown,
which flags all that is live, stops one drop, and a drop that enters the table enters it alone. A job whose
thread is not there yet counts for the caller who is about to start it (`BornInv`). `Tells` is what a step may do to the record of one job: nothing, ask it to stop, or end it;
`EveryStepTold` goes through the steps.

**FaucetUi.** The properties relate the press, the backend and the core through calls and answers that are on
their way, so `UiInv` has to say what each of them still means when it arrives. `CallFits` does, for one call:
an answer to a request or a bootstrap is as the backend is now; a terminal status is the one the job
has; an acknowledgement is of a job that ended, and if it is not the view's job, neither core nor backend
has it any more (`Released`). `OrderInv` has the order of the queue: calls are served in turn, there is one
request, one bootstrap, and one acknowledgement that was heard; the last configure served set the network.
`CoreInv` has the order of the drops: one at a time, in the order of the presses, because only the key of the
last press is sent, and sent again. `ViewInv` says what the view that is trying, or follows a job, knows of the core;
`PressInv` and `PanelInv` contain the properties. The core does one of six things (`Swaps`, `Begins`,
`Asks`, `Forgets`, `Settles`, or nothing), each of which keeps what is known of a job (`Grows`); the
backend's side of every call is an `Effect` on it; and the view sends (`SendKeeps`) or takes
(`TakenKeeps`) a call and changes nothing else. TLC checked `UiInv` on the instance of `ui` first.
`CoreKeepsThePromise` needs of it that one drop is live at most (`CoreInv`), for the closing of the window, and
that a request is for a key of a press (`RequestIsOfPress`); each of the five things the core does is
one step of `DropPromise` (`BeginTold`, `AskTold`, `SettleTold`, `ForgetTold`, `CloseTold`), or nothing.

Only model-checked: liveness (`ClaimsSettle`, `AwakeWorkerSettlesAll`, `DropsEnd`, `EveryPressEnds`; the
prover has no fairness and no ENABLED), and `WorkersHoldClient`, which needs a host that behaves. The three findings of section 5 are counterexamples and need no proof.

## 5. Where code and documents differ

Shown by a run that expects a violation:

- `pinata_one_claim` (`AtMostOneClaim`), a bug. `client.rs:864-865`: "at most one on-chain claim results from one
  (request_key, address) pair". A round reads inclusion, balance and challenge one after the other
  (`:1207-1223`). The drop's own claim also moves the challenge: if it takes effect after the
  balance was read and before the challenge is, the round shows absent, unchanged and rotated, which
  is what a lost race looks like. The drop tries again and is paid again. With the claims that slip
  through this gap excepted, `OneUntoldCredit` holds.
- `module_shutdown` (`CallersHoldClient`). `lez_faucet_module.cpp:1336-1338`: "no thread is inside an FFI call, which is
  the precondition the caller needs before destroying the client handle". The workers are joined;
  another caller's thread that polls a phase or cancels is not. It needs a host that calls the module
  from two threads at once.
- `ui_lost_answer` (`FailureIsOver`), a bug. `FaucetBackend.cpp:285-287`: the decision after a missing id "is to re-call
  with the *same* request key: a missing id says nothing about whether the job started";
  `FaucetView.qml:373`: "a lost reply is not evidence that nothing happened". When it is the core's answer
  that is lost, the backend turns it into `internal_error` (`:259`, `:288`), and the view shows a failure
  for every error but `drop_in_progress` (`FaucetView.qml:394`) and forgets the key, while the
  job runs and may be paid.

Met while modelling; the properties are stated so that they hold, and except these cases:

- `claimd/README.md:48-49`: the same request id "never pays twice". The worker sends
  (`worker.rs:169`) and then records the hash (`:171`); a death or a failed write in between, or a reply
  that cannot be decoded (`lez.rs:158`), leaves a queued row whose transfer is on its way, and it is paid
  again. `PaidOnceUnlessLost` is what holds, and is proved.
- `claimd/README.md:99`: "One claim per recipient per 24 h." Counting (`http.rs:385`) and inserting
  (`:405`) are separate ledger calls; racing calls pass the count together. `CapsHoldUpToRaces` is what
  holds.
- `http.rs:411`: "Lost a race with an identical request". The branch is also taken when the INSERT succeeded
  and the read of the new row failed (`db.rs:186`): the handler finds its own row, answers 202 and returns
  before `notify_one` (`:429`), or fails at `:412`. The worker's wait has no timeout (`worker.rs:59`), so the
  claim lies there until another claim or a restart wakes it. `NoStrandedClaim` and `ClaimsSettle` except the
  claims in `unheard`; `AwakeWorkerSettlesAll` says that they are late, not lost.
- `http.rs:276-280` and `:385-403`: `claims_remaining` counts the day's limit and the funds above the
  reserve; the intake refuses by three more limits, and when the funds do not cover the claims that wait as
  well. One that waits on a low balance makes a status that says claimable and a claim that is refused, with
  nothing changed between them. `StatusAgreesWithDrop` excepts both (`Unannounced`).
- `client.rs:1645-1647`: "a stale solution is included and quietly does nothing". The comment on `classify`
  (`:451-453`) says the opposite, that a claim whose challenge has moved "can only fail validation from here, so
  it will be discarded". `PinataDrop` follows `classify`, by which the drop decides: such a claim is never
  included. If it were, a round that saw it would answer unknown and not lost (`:438-448`), which is the
  careful side, but a round that looked before it was in a block would still call it lost, and would be right that
  it credits nothing.
- `client.rs:1013`: once anything was submitted "no path may report a cancellation". The solver's
  closure looks at the token only (`:1065-1071`), so a cancellation during the second solve ends a
  drop that has submitted as cancelled. By then the earlier claim is known to have lost
  (`FailureCreditsNothing` covers cancelled drops), unless it slipped.
- `lez_faucet_module.cpp:903`: "every job is terminal, so no worker is inside the FFI". The check and
  the swap are separate critical sections; a job registered in between uses the client that is
  destroyed. It needs a host that configures during other calls, which `ConfigureAlone` excludes.
- `lez_faucet_module.cpp:1112-1113`: "every worker must be out of the FFI before the handle it is using is
  freed". The code expects overlapping shutdowns (`:1106-1111`), but of two only the first finds threads to
  join: the second goes on at once and destroys the client while the first still waits for a worker
  inside it. TLC finds it when `Calls` lets both callers shut down; in the run `module` one does. It needs a
  host that shuts down from two threads.
- `client.rs:246-250`: "never a phase attributed to a different operation". A reader that loaded the
  token of a drop which then ends is answered with the phase its successor has published.
  `PollOfLiveIsOwn` is what holds: of a drop that still runs.
- `client.rs:498`: the unproven submissions are "never removed for the life of the process". They live
  in the client, which a switch of the network replaces. `UnprovenIsRefused` is about one client.
- A configure whose answer is lost leaves the backend on the previous network and the core on the new one,
  and a press during a switch runs on the network the switch leads to: `RunsWhereShown` excepts both.
- An acknowledgement whose answer is lost leaves the view polling a job that is unknown, until it is
  reloaded: `EveryPressEnds` excepts it.
- The status shows `prize_mismatch`, which no gate of the drop looks at; a balance the prize would
  overflow is a gate of the drop, which the inspection does not show. `StatusAgreesWithDrop` excepts these too.
- A send with unknown outcome leaves a failed row without a hash, which counts against no limit
  (`db.rs:89`) although its transfer may arrive.

Hazards no property catches, because the code does what they say or the property excepts it; each has its
note in `PROJECT.json`: a second transfer after a failed ledger write while the first awaits its
inclusion (`worker.rs:55`); the entries of unproven recipients that a switch replaces (`client.rs:497`);
repeated absence taken for proof (`client.rs:1412`) and an answer that does not parse taken for a refusal
(`v03.rs:364`), both excepted as `mistaken`; a configure during other calls and overlapping shutdowns; lost
answers to an acknowledgement or a configure; and the age of the caches behind the status of the service.

## 6. Not modelled

- Parsing, formatting, URLs, JSON, base58 and the JSON-RPC transport: what a call may answer is
  modelled, how the bytes are read is not. For the same reason the strings and envelopes of the C ABI and its
  guard against panics.
- `fee_reserve` (`policy.rs:106`): the model has the set of reserves it may yield. Its sum of two products
  can exceed u128 only when the gas limit and the quoted base fee are both close to the largest u64.
- Blocks that are orphaned after they were read (a known trait of v0.2.2): the repository does not
  say what the sequencer does with their claims.
- A thread that the system cannot create (`lez_faucet_module.cpp:1200`): the exception leaves the module
  through its public call.
- A restart of the app: the client and the module persist nothing, so it is a fresh `Init`; closing the
  window, which keeps the process, is in `FaucetUi`.
- Layout and texts of the view, scripts, CI and packaging have no state of the running system.

## 7. What is left

In this order:

1. Liveness of `FaucetModule`: every job settles, every shutdown returns, under fairness of the
   threads; the destructor.
2. More of the contract between `FaucetUi` and `FaucetModule`: `DropPromise` has what becomes of drops, and not
   yet the codes a request or a configure is refused with, nor which client a drop runs with.
3. `fee_reserve` with its integer widths.
