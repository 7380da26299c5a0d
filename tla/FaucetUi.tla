------------------------------ MODULE FaucetUi ------------------------------
(***************************************************************************)
(* The application: the view (faucet-ui/src/qml/), the backend that serves *)
(* it (FaucetBackend.cpp), and the core module and its Rust client as the  *)
(* backend sees them.                                                      *)
(*                                                                         *)
(* The view asks the backend, which asks the core, and either answer may   *)
(* be lost; the calls of the view are served one by one, in order.  A job  *)
(* of the core is named by the request key it was started for.  The reads  *)
(* (pool status, inspection) appear only where they are in the way of a    *)
(* configure.                                                              *)
(***************************************************************************)
EXTENDS Integers, FiniteSets, Sequences

CONSTANTS
  Network,      \* rows of NETWORKS, and of network.rs
  Default,      \* DEFAULT_NETWORK
  Account,      \* accounts
  Mistyped,     \* what looks like an account id and is none
  MaxPresses,   \* bound: presses of the credit button
  MaxSwitches,  \* bound: presses of the network selector
  MaxFaults,    \* bound: lost answers, reloads of the view, and closings of the window
  MaxPipe       \* bound: calls of the view that are under way

Key  == 1..MaxPresses
None == 0     \* no request key, no job
Off  == "off"  \* no client is configured

ASSUME NetworkAssumption == Default \in Network /\ Off \notin Network
ASSUME AddressAssumption == Mistyped \notin Account
ASSUME UiBoundAssumption == {MaxPresses, MaxSwitches, MaxFaults, MaxPipe} \subseteq Nat

VARIABLES
  core,      \* the core module and its client
  backend,   \* FaucetBackend
  view,      \* the credit flow of FaucetView.qml
  pipe,      \* the calls of the view under way: to be served, or with an answer to be taken
  press,     \* history: what the user saw and typed at each press
  unheard,   \* history: calls that took effect and whose answer was lost: a configure or a
             \* request of the backend, an acknowledgement of the view
  spent      \* faults and switches so far

vars == <<core, backend, view, pipe, press, unheard, spent>>

-----------------------------------------------------------------------------
(* Addresses: three readers, of which the last is the authority. *)

\* public: bare, or after `Public/`.
Text == [public : BOOLEAN, id : Account \cup {Mistyped}]

\* isPlausibleAddressInput
Plausible(text) == text.public

\* boundedAddress: what the backend hands on is the bare id.
Bounded(text) == text.id

\* parse_public_address
IsAccount(id) == id \in Account

-----------------------------------------------------------------------------
Terminal == {"succeeded", "failed", "cancelled", "outcome_unknown"}
NoJob    == [status |-> "none"]
Job      == [status : {"running", "cancelling"} \cup Terminal, listed : BOOLEAN,
             id : Account \cup {Mistyped}, network : Network, client : Nat]

\* unproven: unreconciled, of the present client; client counts the clients.
Core    == [network : Network \cup {Off}, client : Nat, unproven : SUBSET Account,
            job : [Key -> Job \cup {NoJob}]]
Backend == [network : Network, configured : BOOLEAN, active : Key \cup {None}, cached : SUBSET Key]

FreshBackend == [network |-> Default, configured |-> FALSE, active |-> None, cached |-> {}]

\* shown: the panel, and the press it is about.
View ==
  [booted : {"no", "asked", "yes", "closed"}, network : Network,
   attempt : Key \cup {None}, text : Text, job : Key \cup {None},
   stage : {"", "sending", "running", "interrupted"}, polling : BOOLEAN, cancelRequested : BOOLEAN,
   shown : {"none", "receipt", "failure", "unknown", "stopped"}, of : Key \cup {None}]

AnyText   == CHOOSE t \in Text : Plausible(t)
FreshView ==
  [booted |-> "no", network |-> Default, attempt |-> None, text |-> AnyText, job |-> None,
   stage |-> "", polling |-> FALSE, cancelRequested |-> FALSE, shown |-> "none", of |-> None]

\* A call, and its answer once there is one: a code, the backend's properties, and the status
\* of the job it is about.
Ask(op, key, arg) ==
  [op |-> op, key |-> key, arg |-> arg, code |-> "pending", active |-> None, network |-> Default,
   status |-> "none"]
Send(call) == Append(pipe, call)

Codes == {"pending", "ok", "lost", "internal_error", "not_configured", "drop_in_progress",
          "idempotency_conflict", "unknown_job", "job_not_terminal"}

NoPress == [network |-> Off]

TypeOK ==
  /\ core    \in Core
  /\ backend \in Backend
  /\ view    \in View /\ (view.job # None <=> view.stage = "running")
  /\ Len(pipe) <= MaxPipe /\ \A i \in DOMAIN pipe : pipe[i].code \in Codes
  /\ press   \in [Key -> [network : Network, id : Account \cup {Mistyped}, switching : BOOLEAN]
                           \cup {NoPress}]
  /\ unheard \subseteq {"configure", "request", "ack"}
  /\ spent   \in [faults : 0..MaxFaults, switches : 0..MaxSwitches]

Init ==
  /\ core    = [network |-> Off, client |-> 0, unproven |-> {}, job |-> [k \in Key |-> NoJob]]
  /\ backend = FreshBackend
  /\ view    = FreshView
  /\ pipe    = <<>>
  /\ press   = [k \in Key |-> NoPress]
  /\ unheard = {}
  /\ spent   = [faults |-> 0, switches |-> 0]

Started == {k \in Key : core.job[k] # NoJob}
Live    == {k \in Started : core.job[k].status \notin Terminal}
Listed  == {k \in Started : core.job[k].listed}
Pressed == {k \in Key : press[k] # NoPress}

-----------------------------------------------------------------------------
(* The core's side of each call: what becomes of it, and the code it answers. *)

Refuses(code) == {[core |-> core, code |-> code]}
Does(after)   == {[core |-> after, code |-> "ok"]}

\* A read that is still live, or a drop, refuses it; otherwise the client is replaced, and what
\* the old one knew of unproven claims goes with it.
Configure(n) ==
  Refuses("drop_in_progress") \cup
  IF Live # {} THEN {}
  ELSE Does([core EXCEPT !.network = n, !.client = @ + 1, !.unproven = {}])

\* Mutant: the slot is not looked at.
RequestDropBeside(k, id) ==
  IF core.network = Off THEN Refuses("not_configured")
  ELSE IF k \in Started
  THEN Refuses(IF core.job[k].id = id THEN "ok" ELSE "idempotency_conflict")
  ELSE Does([core EXCEPT !.job[k] = [status |-> "running", listed |-> TRUE, id |-> id,
                                     network |-> core.network, client |-> core.client]])

\* A key that was used before is answered with its job, whatever has become of it.
RequestDrop(k, id) ==
  IF core.network = Off THEN Refuses("not_configured")
  ELSE IF k \in Started
  THEN Refuses(IF core.job[k].id = id THEN "ok" ELSE "idempotency_conflict")
  ELSE IF Live # {} THEN Refuses("drop_in_progress")
  ELSE Does([core EXCEPT !.job[k] = [status |-> "running", listed |-> TRUE, id |-> id,
                                     network |-> core.network, client |-> core.client]])

Cancel(k) ==
  IF k \notin Listed THEN Refuses("unknown_job")
  ELSE IF k \in Live THEN Does([core EXCEPT !.job[k].status = "cancelling"]) ELSE Does(core)

JobStatus(k) == Refuses(IF k \in Listed THEN "ok" ELSE "unknown_job")

JobResultAck(k) ==
  IF k \notin Listed THEN Refuses("unknown_job")
  ELSE IF k \in Live THEN Refuses("job_not_terminal")
  ELSE Does([core EXCEPT !.job[k].listed = FALSE])

\* Mutant: the recipient of an unproven claim is not marked.
SettleUnmarked(k) ==
  /\ k \in Live
  /\ \E outcome \in Terminal :
       /\ outcome = "cancelled" => core.job[k].status = "cancelling"
       /\ outcome \in {"succeeded", "outcome_unknown"} =>
            IsAccount(core.job[k].id) /\ core.job[k].id \notin core.unproven
       /\ core' = [core EXCEPT !.job[k].status = outcome]
  /\ UNCHANGED <<backend, view, pipe, press, unheard, spent>>

\* A drop ends: a text that is no account and a recipient with an unproven claim are refused.
Settle(k) ==
  /\ k \in Live
  /\ \E outcome \in Terminal :
       /\ outcome = "cancelled" => core.job[k].status = "cancelling"
       /\ outcome \in {"succeeded", "outcome_unknown"} =>
            IsAccount(core.job[k].id) /\ core.job[k].id \notin core.unproven
       /\ core' = [core EXCEPT !.job[k].status = outcome,
                     !.unproven = IF outcome = "outcome_unknown" THEN @ \cup {core.job[k].id} ELSE @]
  /\ UNCHANGED <<backend, view, pipe, press, unheard, spent>>

-----------------------------------------------------------------------------
(* The backend serves the first call nobody has served. *)

Pending   == {i \in DOMAIN pipe : pipe[i].code = "pending"}
Waiting   == CHOOSE i \in Pending : \A j \in Pending : i <= j
Serving(op) == Pending # {} /\ pipe[Waiting].op = op

\* invokeCore: an answer of the core that is lost is an internal_error, whatever the core did.
InvokeCore(outcomes) ==
  {[core |-> o.core, code |-> o.code, lost |-> FALSE] : o \in outcomes}
    \cup IF spent.faults = MaxFaults THEN {}
         ELSE {[core |-> c, code |-> "internal_error", lost |-> TRUE] :
                 c \in {core} \cup {o.core : o \in outcomes}}

\* The backend is `after` and answers; the core did what o says.
Answer(o, after, status) ==
  /\ core' = o.core
  /\ backend' = after
  /\ pipe' = [pipe EXCEPT ![Waiting] = [@ EXCEPT !.code = o.code, !.active = after.active,
                                               !.network = after.network, !.status = status]]
  /\ unheard' = IF o.lost /\ o.core # core
                THEN unheard \cup ({pipe[Waiting].op} \cap {"configure", "request"}) ELSE unheard
  /\ spent' = IF o.lost THEN [spent EXCEPT !.faults = @ + 1] ELSE spent
  /\ UNCHANGED <<view, press>>

\* The backend answers without asking the core.
Local(code, after, status) == Answer([core |-> core, code |-> code, lost |-> FALSE], after, status)

Bootstrap ==
  /\ Serving("bootstrap")
  /\ IF backend.configured
     THEN Local("ok", backend, "none")
     ELSE \E o \in InvokeCore(Configure(backend.network)) :
            Answer(o, [backend EXCEPT !.configured = (o.code = "ok")], "none")

\* Mutant: the network is shown before the core has agreed to it, and not taken back.
SelectNetworkShown ==
  /\ Serving("configure")
  /\ IF backend.active # None
     THEN Local("drop_in_progress", backend, "none")
     ELSE \E o \in InvokeCore(Configure(pipe[Waiting].arg)) :
            Answer(o, [backend EXCEPT !.network = pipe[Waiting].arg], "none")

\* The core is taken to have kept its client when it did not say that it swapped it.
SelectNetwork ==
  /\ Serving("configure")
  /\ IF backend.active # None
     THEN Local("drop_in_progress", backend, "none")
     ELSE \E o \in InvokeCore(Configure(pipe[Waiting].arg)) :
            Answer(o, IF o.code = "ok"
                      THEN [backend EXCEPT !.network = pipe[Waiting].arg, !.configured = TRUE]
                      ELSE backend, "none")

StartRequestDrop ==
  /\ Serving("request")
  /\ IF backend.active # None
     THEN Local("drop_in_progress", backend, "none")
     ELSE LET call == pipe[Waiting] IN
          \E o \in InvokeCore(RequestDrop(call.key, Bounded(call.arg))) :
            Answer(o, IF o.code = "ok" THEN [backend EXCEPT !.active = call.key] ELSE backend, "none")

CancelJob ==
  /\ Serving("cancel")
  /\ \E o \in InvokeCore(Cancel(pipe[Waiting].key)) : Answer(o, backend, "none")

\* A result the core has told is told again from the backend's copy, until it is acknowledged.
BackendJobStatus ==
  /\ Serving("status")
  /\ LET k == pipe[Waiting].key
         status == IF k \in Started THEN core.job[k].status ELSE "none" IN
     IF k \in backend.cached
     THEN Local("ok", backend, status)
     ELSE \E o \in InvokeCore(JobStatus(k)) :
            Answer(o, IF o.code = "ok" /\ status \in Terminal
                      THEN [backend EXCEPT !.cached = @ \cup {k}] ELSE backend, status)

\* Mutant: a result the core has released already cannot be acknowledged any more.
AcknowledgeJobOnce ==
  /\ Serving("ack")
  /\ LET k == pipe[Waiting].key IN
     \E o \in InvokeCore(JobResultAck(k)) :
       Answer(o, IF o.code # "ok" THEN backend
                 ELSE [backend EXCEPT !.cached = @ \ {k},
                         !.active = IF @ = k THEN None ELSE @], "none")

\* The copy is kept until the core has released its own, now or before.
AcknowledgeJob ==
  /\ Serving("ack")
  /\ LET k == pipe[Waiting].key IN
     \E o \in InvokeCore(JobResultAck(k)) :
       LET released == o.code = "ok" \/ (o.code = "unknown_job" /\ k \in backend.cached) IN
       Answer([o EXCEPT !.code = IF released THEN "ok" ELSE @],
              IF released THEN [backend EXCEPT !.cached = @ \ {k},
                                  !.active = IF @ = k THEN None ELSE @]
              ELSE backend, "none")

Serve ==
  \/ Bootstrap
  \/ SelectNetwork
  \/ StartRequestDrop
  \/ CancelJob
  \/ BackendJobStatus
  \/ AcknowledgeJob

-----------------------------------------------------------------------------
(* The view. *)

Room == Len(pipe) < MaxPipe
ViewStep(after) == view' = after /\ UNCHANGED <<core, backend, press, unheard, spent>>

BeginBootstrap ==
  /\ view.booted = "no" /\ Room
  /\ pipe' = Send(Ask("bootstrap", None, None))
  /\ ViewStep([view EXCEPT !.booted = "asked"])

\* selectNetwork, of a view that shows no request: the guard does not look at a switch that is
\* under way.
Switch(n) ==
  /\ view.booted = "yes" /\ view.stage = "" /\ n # view.network
  /\ spent.switches < MaxSwitches /\ Room
  /\ pipe' = Send(Ask("configure", None, n))
  /\ spent' = [spent EXCEPT !.switches = @ + 1]
  /\ UNCHANGED <<core, backend, view, press, unheard>>

Switching == \E i \in DOMAIN pipe : pipe[i].op = "configure"

\* requestCredit: the one place a key is minted.
Press(text) ==
  /\ view.booted = "yes" /\ view.stage = "" /\ Plausible(text)
  /\ Pressed # Key /\ Room
  /\ LET k == Cardinality(Pressed) + 1 IN
     /\ press' = [press EXCEPT ![k] = [network |-> view.network, id |-> text.id,
                                       switching |-> Switching]]
     /\ pipe' = Send(Ask("request", k, text))
     /\ view' = [view EXCEPT !.attempt = k, !.text = text, !.stage = "sending",
                   !.cancelRequested = FALSE, !.shown = "none", !.of = k]
  /\ UNCHANGED <<core, backend, unheard, spent>>

\* Mutant: what is sent again is sent under a new key.
ResendAnew ==
  /\ view.stage = "interrupted" /\ Room /\ view.attempt < MaxPresses
  /\ pipe' = Send(Ask("request", view.attempt + 1, view.text))
  /\ ViewStep([view EXCEPT !.stage = "sending", !.attempt = @ + 1])

\* The reconnect timer: the same attempt, under the same key.
Resend ==
  /\ view.stage = "interrupted" /\ Room
  /\ pipe' = Send(Ask("request", view.attempt, view.text))
  /\ ViewStep([view EXCEPT !.stage = "sending"])

\* The poll timer.
PollCredit ==
  /\ view.job # None /\ ~view.polling /\ Room
  /\ pipe' = Send(Ask("status", view.job, None))
  /\ ViewStep([view EXCEPT !.polling = TRUE])

CancelCreditRequest ==
  /\ view.job # None /\ ~view.cancelRequested /\ Room
  /\ pipe' = Send(Ask("cancel", view.job, None))
  /\ ViewStep([view EXCEPT !.cancelRequested = TRUE])

-----------------------------------------------------------------------------
(* The view takes the answer to its first call. *)

Answered(op) == pipe # <<>> /\ Head(pipe).op = op /\ Head(pipe).code # "pending"
Reply == Head(pipe)
Take(after) == pipe' = Tail(pipe) /\ ViewStep(after)

BootstrapAnswered ==
  /\ Answered("bootstrap")
  /\ Take(IF Reply.code # "ok" THEN view
          ELSE [view EXCEPT !.booted = "yes", !.network = Reply.network, !.job = Reply.active,
                            !.stage = IF Reply.active = None THEN "" ELSE "running"])

\* The selection is read back from the backend whatever the answer.
SelectAnswered ==
  /\ Answered("configure")
  /\ Take([view EXCEPT !.network = IF Reply.code = "lost" THEN backend.network ELSE Reply.network,
                       !.shown = IF Reply.code = "ok" THEN "none" ELSE @])

\* The request is over and its attempt forgotten.
Ended(shown) ==
  [view EXCEPT !.job = None, !.stage = "", !.attempt = None, !.text = AnyText, !.polling = FALSE,
               !.cancelRequested = FALSE, !.shown = shown]

\* Mutant: a request nothing was heard of has failed.
RequestLostFails ==
  /\ Answered("request")
  /\ Take(IF Reply.code = "ok" THEN [view EXCEPT !.job = Reply.key, !.stage = "running"]
          ELSE IF Reply.code = "drop_in_progress" /\ Reply.active # None
          THEN [view EXCEPT !.job = Reply.active, !.stage = "running"]
          ELSE [Ended("failure") EXCEPT !.polling = view.polling])

\* A request that was refused is over; one whose job is already there is followed; one nothing
\* was heard of is sent again.
RequestAnswered ==
  /\ Answered("request")
  /\ Take(IF Reply.code = "ok" THEN [view EXCEPT !.job = Reply.key, !.stage = "running"]
          ELSE IF Reply.code = "lost" THEN [view EXCEPT !.stage = "interrupted"]
          ELSE IF Reply.code = "drop_in_progress" /\ Reply.active # None
          THEN [view EXCEPT !.job = Reply.active, !.stage = "running"]
          ELSE [Ended("failure") EXCEPT !.polling = view.polling])

\* A result is acknowledged before it is shown; the key of a job that was rejoined is its own.
StatusAnswered ==
  /\ Answered("status")
  /\ LET mine == Reply.key = view.job
         heard == mine /\ Reply.code = "ok" IN
     /\ pipe' = IF heard /\ Reply.status \in Terminal
                THEN Append(Tail(pipe), Ask("ack", Reply.key, Reply.status))
                ELSE Tail(pipe)
     /\ ViewStep([view EXCEPT !.polling = FALSE,
                    !.attempt = IF heard /\ @ = None THEN Reply.key ELSE @,
                    !.cancelRequested = IF heard /\ Reply.status \notin Terminal
                                        THEN Reply.status = "cancelling" ELSE @,
                    !.of = IF heard /\ view.attempt = None THEN Reply.key ELSE @])

\* finishCredit, once the result of the job is acknowledged.  A success is shown as a receipt
\* only if it pays what the network in view pays.
AckAnswered ==
  /\ Answered("ack")
  /\ Take(IF Reply.code # "ok" THEN view
          ELSE Ended(CASE Reply.arg = "succeeded" ->
                            IF core.job[Reply.key].network = view.network THEN "receipt" ELSE "unknown"
                       [] Reply.arg = "outcome_unknown" -> "unknown"
                       [] Reply.arg = "cancelled"       -> "stopped"
                       [] Reply.arg = "failed"          -> "failure"))

CancelAnswered == Answered("cancel") /\ Take(view)

TakeAnswer ==
  \/ BootstrapAnswered
  \/ SelectAnswered
  \/ RequestAnswered
  \/ StatusAnswered
  \/ AckAnswered
  \/ CancelAnswered

-----------------------------------------------------------------------------
(* What goes wrong between the view and the backend. *)

Fault == spent.faults < MaxFaults /\ spent' = [spent EXCEPT !.faults = @ + 1]

\* A call is lost on its way, or its answer is.
LoseAnswer ==
  /\ Fault
  /\ \E i \in DOMAIN pipe :
       /\ pipe[i].code # "lost"
       /\ pipe' = [pipe EXCEPT ![i].code = "lost"]
       /\ unheard' = IF pipe[i].code = "ok" THEN unheard \cup ({pipe[i].op} \cap {"ack"}) ELSE unheard
  /\ UNCHANGED <<core, backend, view, press>>

\* The view is loaded anew.
Reload ==
  /\ view.booted # "closed"
  /\ Fault
  /\ view' = FreshView /\ pipe' = <<>>
  /\ UNCHANGED <<core, backend, press, unheard>>

\* The window closes: the backend shuts the core down, which asks what is live to stop and waits
\* for it.
Close ==
  /\ view.booted # "closed"
  /\ Fault
  /\ view' = [FreshView EXCEPT !.booted = "closed"] /\ pipe' = <<>>
  /\ core' = [core EXCEPT !.job = [k \in Key |-> IF k \in Live
                                                 THEN [core.job[k] EXCEPT !.status = "cancelling"]
                                                 ELSE core.job[k]]]
  /\ UNCHANGED <<backend, press, unheard>>

\* The client is destroyed, and the window is opened again; the core has kept its jobs and keys.
Reopen ==
  /\ view.booted = "closed" /\ Live = {}
  /\ core' = [core EXCEPT !.network = Off, !.unproven = {}]
  /\ backend' = FreshBackend
  /\ view' = FreshView
  /\ UNCHANGED <<pipe, press, unheard, spent>>

-----------------------------------------------------------------------------
Next ==
  \/ \E k \in Key : Settle(k)
  \/ Serve
  \/ BeginBootstrap
  \/ \E n \in Network : Switch(n)
  \/ \E text \in Text : Press(text)
  \/ Resend
  \/ PollCredit
  \/ CancelCreditRequest
  \/ TakeAnswer
  \/ LoseAnswer
  \/ Reload
  \/ Close
  \/ Reopen

Spec == Init /\ [][Next]_vars

\* A drop ends within its own deadlines, the backend serves its calls, answers that are not lost
\* arrive, and the timers run.
FairSpec ==
  /\ Spec
  /\ WF_vars(\E k \in Key : Settle(k))
  /\ WF_vars(Serve)
  /\ WF_vars(TakeAnswer)
  /\ WF_vars(Resend)
  /\ WF_vars(PollCredit)

-----------------------------------------------------------------------------
\* One press is one request, whatever is lost and however often it is sent again: no more jobs
\* than presses, and each for the account of its press.
OneJobPerPress ==
  /\ Started \subseteq Pressed
  /\ \A k \in Started : core.job[k].id = press[k].id

\* A request runs on the network the user saw when he pressed, unless he pressed while a switch
\* was under way, or the answer to a configure had been lost.
RunsWhereShown ==
  \A k \in Started :
    \/ core.job[k].network = press[k].network
    \/ press[k].switching
    \/ "configure" \in unheard

\* The panel tells how its own press ended.
PanelIsTrue(answers) ==
  LET status == IF view.of \in Started THEN core.job[view.of].status ELSE "none" IN
  /\ view.shown = "receipt" => status = "succeeded"
  /\ view.shown = "stopped" => status = "cancelled"
  /\ view.shown = "unknown" => status \in {"outcome_unknown", "succeeded"}
  /\ view.shown = "failure" => status \in {"none", "failed"} \/ answers \cap unheard # {}

\* What is shown of a request is what became of it, whichever jobs, windows and acknowledgements
\* came before, unless the core's answer to a request was lost.
PanelIsOfOwnPress == PanelIsTrue({"request"})

\* "a missing id says nothing about whether the job started": a failure is never shown for a
\* request that is running or was paid.
FailureIsOver == PanelIsTrue({})

\* No claim is sent to an account with an unproven one while the client that knows of it lives:
\* until the network is switched or the window closed.
UnprovenIsRefused ==
  \A j, k \in Started :
    /\ j < k
    /\ core.job[j].status = "outcome_unknown" /\ core.job[j].id = core.job[k].id
    /\ core.job[j].client = core.job[k].client
    => core.job[k].status \notin {"succeeded", "outcome_unknown"}

\* The core the backend is modelled with keeps the promise FaucetModule is shown to keep, thread
\* by thread: a drop per key, one at a time, that ends once and is let go of after it ended.
Promise == INSTANCE DropPromise WITH
  status <- [k \in Key |-> IF core.job[k].status = "cancelling" THEN "stopping"
                           ELSE core.job[k].status],
  listed <- Listed

KeepsPromise == Promise!Spec

\* Every request the view follows comes to an end it can show, unless the answer to an
\* acknowledgement was lost, after which the result is nowhere to be had.
EveryPressEnds ==
  view.stage # "" ~> view.stage = "" \/ "ack" \in unheard

=============================================================================
