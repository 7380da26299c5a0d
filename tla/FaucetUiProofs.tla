--------------------------- MODULE FaucetUiProofs ---------------------------
(***************************************************************************)
(* That one press is one request, that it runs where it was shown to, that *)
(* the panel tells how its own press ended, that an unproven claim is      *)
(* refused, and that the core implements DropPromise, for every number of  *)
(* presses, switches, faults and calls under way, and every set of         *)
(* networks and accounts.                                                  *)
(***************************************************************************)
EXTENDS FaucetUi, SequenceTheorems, FiniteSetTheorems, TLAPS

-----------------------------------------------------------------------------
(* The inductive invariant. *)

Ops    == {"bootstrap", "configure", "request", "cancel", "status", "ack"}
Arg    == Text \cup Network \cup Terminal \cup {None}
Status == {"none", "running", "cancelling"} \cup Terminal
Call   == [op : Ops, key : Key \cup {None}, arg : Arg, code : Codes, active : Key \cup {None},
           network : Network, status : Status]
Seen   == [network : Network, id : Account \cup {Mistyped}, switching : BOOLEAN]

Types ==
  /\ core \in Core /\ backend \in Backend /\ view \in View
  /\ pipe \in Seq(Call)
  /\ \A i \in DOMAIN pipe : pipe[i].op = "configure" => pipe[i].arg \in Network
  /\ press \in [Key -> Seen \cup {NoPress}]

\* One drop at a time, in the order of the presses; what the client remembers of it.
CoreInv ==
  /\ \A k \in Live : core.job[k].client = core.client
  /\ \A k \in Started : core.job[k].client <= core.client
  /\ \A j, k \in Started : j < k => j \notin Live
  /\ \A k \in Started :
       core.job[k].status = "outcome_unknown" /\ core.job[k].client = core.client =>
         core.job[k].id \in core.unproven \/ (core.network = Off /\ Live = {})
  /\ UnprovenIsRefused

PressInv ==
  /\ Pressed = 1..Cardinality(Pressed)
  /\ OneJobPerPress
  /\ RunsWhereShown
  /\ core.network \in {Off, backend.network} \/ "configure" \in unheard

\* The core has no result of k to give, and the backend no copy.
Released(k) == k \notin Listed /\ k \notin backend.cached

\* The request of the last press is on its way, or will be sent again.
Trying == view.stage \in {"sending", "interrupted"}

ViewInv ==
  /\ view.booted # "yes" => view = [FreshView EXCEPT !.booted = view.booted]
  /\ view.job # None <=> view.stage = "running"
  /\ view.stage = "" => view.attempt = None
  /\ view.booted = "yes" /\ view.stage = "" => backend.active = None
  /\ Trying =>
       /\ view.attempt \in Pressed /\ view.attempt = Cardinality(Pressed)
       /\ view.text.id = press[view.attempt].id /\ view.of = view.attempt
       /\ backend.active \in {None, view.attempt}
       /\ view.attempt \in Started => backend.active = view.attempt \/ "request" \in unheard
       /\ \/ view.attempt \in Started \/ press[view.attempt].switching \/ "configure" \in unheard
          \/ press[view.attempt].network = backend.network /\ ~Switching
  /\ view.stage = "running" =>
       /\ view.attempt \in {None, view.job} /\ (view.attempt = view.job => view.of = view.job)
       /\ backend.active \in {None, view.job}

PanelInv ==
  /\ view.shown # "none" => view.stage = ""
  /\ PanelIsOfOwnPress

Replied(call) == call.code \notin {"pending", "lost"}

\* What a call under way has to do with the view that made it, and its answer with the core and
\* the backend as they are now.
CallFits(call) ==
  /\ call.op = "bootstrap" =>
       /\ view.booted = "asked"
       /\ Replied(call) => call.network = backend.network /\ call.active = backend.active
  /\ call.op # "bootstrap" => view.booted = "yes"
  /\ call.op = "request" =>
       /\ view.stage = "sending" /\ call.key = view.attempt /\ call.arg = view.text
       /\ Replied(call) /\ call.code # "ok" => call.active = backend.active
       /\ Replied(call) /\ call.code \notin {"ok", "drop_in_progress"} => call.active = None
  /\ call.op = "status" =>
       /\ call.key \in Key
       /\ call.status \in Terminal =>
            call.key \in Started /\ core.job[call.key].status = call.status
  /\ call.op = "ack" =>
       /\ call.key \in Started /\ call.arg \in Terminal /\ core.job[call.key].status = call.arg
       /\ call.key = view.job => view.attempt = view.job
       /\ call.key = view.job \/ Released(call.key)
       /\ call.code = "ok" =>
            call.key = view.job /\ Released(call.key) /\ backend.active # call.key

PipeInv == \A i \in DOMAIN pipe : CallFits(pipe[i])

\* Calls are served in order; there is one request, one bootstrap and one acknowledgement that
\* will be taken for an answer; the last configure that was served set the network.
Single(op) == \A i, j \in DOMAIN pipe : pipe[i].op = op /\ pipe[j].op = op => i = j
OrderInv ==
  /\ \A i, j \in DOMAIN pipe :
       i < j /\ pipe[i].code = "pending" => pipe[j].code \in {"pending", "lost"}
  /\ Single("request") /\ Single("bootstrap")
  /\ \A i, j \in DOMAIN pipe :
       pipe[i].op = "ack" /\ pipe[j].op = "ack" /\ pipe[i].code = "ok" /\ pipe[j].code = "ok"
         => i = j
  /\ \A i \in DOMAIN pipe : pipe[i].op = "configure" /\ Replied(pipe[i]) =>
       \/ pipe[i].network = backend.network
       \/ \E j \in DOMAIN pipe : i < j /\ pipe[j].op = "configure"
  /\ view.booted = "yes" /\ ~Switching => view.network = backend.network

UiInv == Types /\ CoreInv /\ PressInv /\ ViewInv /\ PanelInv /\ PipeInv /\ OrderInv

-----------------------------------------------------------------------------
(* The calls under way. *)

LEMMA PipeFacts ==
  ASSUME Types
  PROVE  /\ Len(pipe) \in Nat /\ DOMAIN pipe = 1..Len(pipe)
         /\ \A i \in DOMAIN pipe : pipe[i] \in Call
         /\ (pipe = <<>> <=> Len(pipe) = 0)
  <1>1. pipe \in Seq(Call)
    BY DEF Types
  <1>2. Len(pipe) \in Nat /\ DOMAIN pipe = 1..Len(pipe)
    BY <1>1, LenProperties
  <1>3. \A i \in DOMAIN pipe : pipe[i] \in Call
    BY <1>1, <1>2, ElementOfSeq
  <1>4. pipe = <<>> <=> Len(pipe) = 0
    BY <1>1, EmptySeq
  <1>5. QED
    BY <1>2, <1>3, <1>4

LEMMA SendFacts ==
  ASSUME Types, NEW call \in Call, pipe' = Append(pipe, call)
  PROVE  /\ pipe' \in Seq(Call) /\ DOMAIN pipe' = 1..(Len(pipe) + 1)
         /\ \A i \in DOMAIN pipe : i \in DOMAIN pipe' /\ pipe'[i] = pipe[i]
         /\ pipe'[Len(pipe) + 1] = call
         /\ \A i \in DOMAIN pipe' : i \in DOMAIN pipe \/ i = Len(pipe) + 1
  <1>1. pipe \in Seq(Call) /\ Len(pipe) \in Nat /\ DOMAIN pipe = 1..Len(pipe)
    BY PipeFacts DEF Types
  <1>2. /\ pipe' \in Seq(Call) /\ Len(pipe') = Len(pipe) + 1
        /\ \A i \in 1..Len(pipe) : pipe'[i] = pipe[i]
        /\ pipe'[Len(pipe) + 1] = call
    BY <1>1, AppendProperties
  <1>3. DOMAIN pipe' = 1..(Len(pipe) + 1)
    BY <1>2, LenProperties
  <1>4. QED
    BY <1>1, <1>2, <1>3

LEMMA TakeFacts ==
  ASSUME Types, pipe # <<>>, pipe' = Tail(pipe)
  PROVE  /\ Head(pipe) = pipe[1] /\ 1 \in DOMAIN pipe /\ pipe[1] \in Call
         /\ pipe' \in Seq(Call) /\ DOMAIN pipe' = 1..(Len(pipe) - 1)
         /\ \A i \in DOMAIN pipe' : i + 1 \in DOMAIN pipe /\ i + 1 > 1 /\ pipe'[i] = pipe[i + 1]
         /\ \A i \in DOMAIN pipe \ {1} : i - 1 \in DOMAIN pipe'
  <1>1. pipe \in Seq(Call) /\ Len(pipe) \in Nat \ {0} /\ DOMAIN pipe = 1..Len(pipe)
    BY PipeFacts DEF Types
  <1>2. /\ pipe' \in Seq(Call) /\ Len(pipe') = Len(pipe) - 1
        /\ \A i \in 1..Len(pipe') : pipe'[i] = pipe[i + 1]
    BY <1>1, HeadTailProperties
  <1>3. DOMAIN pipe' = 1..(Len(pipe) - 1)
    BY <1>2, LenProperties
  <1>4. Head(pipe) = pipe[1]
    OBVIOUS
  <1>5. QED
    BY <1>1, <1>2, <1>3, <1>4, PipeFacts

LEMMA WaitingIsFirst ==
  ASSUME Types, Pending # {}
  PROVE  /\ Waiting \in DOMAIN pipe /\ pipe[Waiting].code = "pending"
         /\ \A j \in DOMAIN pipe : pipe[j].code = "pending" => Waiting <= j
  <1>1. Pending \subseteq Nat
    BY PipeFacts DEF Pending
  <1>2. \E i \in Pending : \A j \in Pending : i <= j
    <2>1. PICK i \in Pending : \A j \in Pending : ~(<<j, i>> \in OpToRel(<, Nat))
      BY <1>1, NatLessThanWellFounded, WFMin
    <2>2. \A j \in Pending : ~(j < i)
      BY <1>1, <2>1 DEF OpToRel
    <2>3. QED
      BY <1>1, <2>2
  <1>3. Waiting \in Pending /\ \A j \in Pending : Waiting <= j
    BY <1>2 DEF Waiting
  <1>4. QED
    BY <1>3 DEF Pending

-----------------------------------------------------------------------------
(* What a step does to the core. *)

Swapped(n)      == [core EXCEPT !.network = n, !.client = @ + 1, !.unproven = {}]
Begun(k, id)    == [core EXCEPT !.job[k] = [status |-> "running", listed |-> TRUE, id |-> id,
                                            network |-> core.network, client |-> core.client]]
Cancelling(k)   == [core EXCEPT !.job[k].status = "cancelling"]
Forgotten(k)    == [core EXCEPT !.job[k].listed = FALSE]

Swaps     == Live = {} /\ \E n \in Network : core' = Swapped(n)
Begins(k, id) ==
  core.network # Off /\ k \in Key \ Started /\ Live = {} /\ core' = Begun(k, id)
Asks      == \E k \in Live : core' = Cancelling(k)
Forgets   == \E k \in Listed \ Live : core' = Forgotten(k)
Settles   == \E k \in Live : Settle(k)

\* What is known of a job that was started stays known.
Grows ==
  \A k \in Started :
    /\ k \in Started'
    /\ core'.job[k].id = core.job[k].id
    /\ core'.job[k].network = core.job[k].network
    /\ core.job[k].status \in Terminal => core'.job[k].status = core.job[k].status
    /\ k \notin Listed => k \notin Listed'

CoreStays == core' \in Core /\ CoreInv' /\ Grows

LEMMA JobFacts ==
  ASSUME Types
  PROVE  /\ \A k \in Started : core.job[k] \in Job
         /\ \A k \in Key \ Started : core.job[k] = NoJob
         /\ Started \subseteq Key /\ Live \subseteq Started /\ Listed \subseteq Started
         /\ core.client \in Nat /\ core.unproven \subseteq Account
         /\ core.network \in Network \cup {Off}
         /\ core.job \in [Key -> Job \cup {NoJob}]
  BY DEF Types, Core, Started, Live, Listed

\* A job with a status that a job may have is a job.
LEMMA NoJobIsNone ==
  ASSUME NEW j \in Job
  PROVE  j # NoJob
  BY DEF Job, NoJob, Terminal

LEMMA SameCore ==
  ASSUME Types, CoreInv, core' = core
  PROVE  CoreStays
  BY DEF CoreStays, Types, CoreInv, Grows, Started, Live, Listed, UnprovenIsRefused

\* The status of one live job changes.
StatusOf(k, s) ==
  /\ core'.network = core.network /\ core'.client = core.client
  /\ core'.job = [core.job EXCEPT ![k].status = s]

LEMMA StatusFacts ==
  ASSUME Types, NEW k \in Live, NEW s \in {"running", "cancelling"} \cup Terminal, StatusOf(k, s)
  PROVE  /\ core'.job \in [Key -> Job \cup {NoJob}]
         /\ Started' = Started /\ Listed' = Listed
         /\ \A q \in Key \ {k} : core'.job[q] = core.job[q]
         /\ core'.job[k].status = s
         /\ core'.job[k].id = core.job[k].id /\ core'.job[k].client = core.job[k].client
         /\ core'.job[k].network = core.job[k].network
         /\ Live' = IF s \in Terminal THEN Live \ {k} ELSE Live
  <1> DEFINE next == [core.job[k] EXCEPT !.status = s]
  <1>1. k \in Key /\ core.job[k] \in Job /\ core.job \in [Key -> Job \cup {NoJob}]
    BY JobFacts
  <1>2. /\ next \in Job /\ next.status = s /\ next.id = core.job[k].id
        /\ next.client = core.job[k].client /\ next.network = core.job[k].network
        /\ next.listed = core.job[k].listed
    BY <1>1 DEF Job
  <1>3. next # NoJob
    BY <1>2, NoJobIsNone
  <1>4. core'.job = [core.job EXCEPT ![k] = next]
    BY DEF StatusOf
  <1> HIDE DEF next
  <1>5. /\ core'.job \in [Key -> Job \cup {NoJob}] /\ core'.job[k] = next
        /\ \A q \in Key \ {k} : core'.job[q] = core.job[q]
    BY <1>1, <1>2, <1>4
  <1>6. Started' = Started
    BY <1>1, <1>3, <1>5, NoJobIsNone DEF Started
  <1>7. Listed' = Listed
    BY <1>1, <1>2, <1>5, <1>6 DEF Listed, Started
  <1>8. Live' = IF s \in Terminal THEN Live \ {k} ELSE Live
    BY <1>1, <1>2, <1>5, <1>6 DEF Live, Started
  <1>9. QED
    BY <1>2, <1>5, <1>6, <1>7, <1>8

LEMMA StatusStays ==
  ASSUME Types, CoreInv, NEW k \in Live, NEW s \in {"running", "cancelling"} \cup Terminal,
         StatusOf(k, s), core' \in Core,
         core'.unproven = IF s = "outcome_unknown" THEN core.unproven \cup {core.job[k].id}
                          ELSE core.unproven,
         s \in {"succeeded", "outcome_unknown"} => core.job[k].id \notin core.unproven
  PROVE  CoreStays
  <1>1. Started \subseteq Key /\ k \in Started /\ core.job[k].status \notin Terminal
    BY JobFacts DEF Live
  <1>2. Grows
    BY <1>1, StatusFacts DEF Grows, Terminal
  <1>3. CoreInv!1' /\ CoreInv!2'
    <2>1. /\ Started' = Started /\ Live' \subseteq Live /\ core'.client = core.client
          /\ \A q \in Started : core'.job[q].client = core.job[q].client
      BY <1>1, StatusFacts DEF StatusOf
    <2>2. /\ \A q \in Live : core.job[q].client = core.client
          /\ \A q \in Started : core.job[q].client <= core.client
      BY DEF CoreInv
    <2>3. Live \subseteq Started
      BY DEF Live
    <2>4. \A q \in Live' : core'.job[q].client = core'.client
      BY <2>1, <2>2, <2>3
    <2>5. \A q \in Started' : core'.job[q].client <= core'.client
      BY <2>1, <2>2
    <2>6. QED
      BY <2>4, <2>5
  <1>4. CoreInv!3'
    BY <1>1, StatusFacts DEF CoreInv
  <1>5. \A q \in Started : core'.job[q].status = "outcome_unknown"
                             /\ core'.job[q].client = core.client =>
          core.job[q].id \in core'.unproven
    BY <1>1, StatusFacts DEF CoreInv
  <1>6. UnprovenIsRefused'
    <2> SUFFICES ASSUME NEW i \in Started, NEW j \in Started, i < j,
                        core'.job[i].status = "outcome_unknown",
                        core'.job[i].id = core'.job[j].id,
                        core'.job[i].client = core'.job[j].client
                 PROVE  core'.job[j].status \notin {"succeeded", "outcome_unknown"}
      BY StatusFacts DEF UnprovenIsRefused
    <2>1. i # k
      BY <1>1 DEF CoreInv
    <2>2. CASE j = k
      BY <1>1, <2>1, <2>2, StatusFacts DEF CoreInv, Terminal
    <2>3. CASE j # k
      BY <1>1, <2>1, <2>3, StatusFacts DEF CoreInv, UnprovenIsRefused
    <2>4. QED
      BY <2>2, <2>3
  <1>7. CoreInv!4'
    BY <1>1, <1>5, StatusFacts DEF StatusOf
  <1>8. CoreInv'
    BY <1>3, <1>4, <1>6, <1>7 DEF CoreInv
  <1>9. QED
    BY <1>2, <1>8 DEF CoreStays

LEMMA SettleStays ==
  ASSUME Types, CoreInv, NEW k \in Key, Settle(k)
  PROVE  CoreStays /\ Started' = Started
  <1>2. k \in Live /\ core.job[k] \in Job
    BY JobFacts DEF Settle
  <1>3. PICK outcome \in Terminal :
          /\ outcome \in {"succeeded", "outcome_unknown"} =>
               IsAccount(core.job[k].id) /\ core.job[k].id \notin core.unproven
          /\ core' = [core EXCEPT !.job[k].status = outcome,
                        !.unproven = IF outcome = "outcome_unknown"
                                     THEN @ \cup {core.job[k].id} ELSE @]
    BY DEF Settle
  <1>4. StatusOf(k, outcome)
    BY <1>3 DEF StatusOf, Types, Core
  <1>5. core'.unproven = IF outcome = "outcome_unknown" THEN core.unproven \cup {core.job[k].id}
                         ELSE core.unproven
    BY <1>3 DEF Types, Core
  <1>6. core' \in Core
    <2>1. core'.unproven \subseteq Account
      BY <1>3, <1>5, JobFacts DEF IsAccount
    <2>2. core'.job \in [Key -> Job \cup {NoJob}]
      BY <1>2, <1>4, StatusFacts
    <2>3. core' = [network |-> core.network, client |-> core.client, unproven |-> core'.unproven,
                   job |-> core'.job]
      BY <1>3 DEF Types, Core
    <2>4. QED
      BY <2>1, <2>2, <2>3, JobFacts DEF Core
  <1>7. QED
    BY <1>2, <1>3, <1>4, <1>5, <1>6, StatusStays, StatusFacts

LEMMA AskStays ==
  ASSUME Types, CoreInv, Asks
  PROVE  CoreStays /\ Started' = Started /\ core'.network = core.network
  <1>1. PICK k \in Live : core' = Cancelling(k)
    BY DEF Asks
  <1>2. StatusOf(k, "cancelling") /\ core'.unproven = core.unproven
    BY <1>1 DEF StatusOf, Cancelling, Types, Core
  <1>3. core' \in Core
    <2>1. core'.job \in [Key -> Job \cup {NoJob}]
      BY <1>2, StatusFacts
    <2>2. core' = [network |-> core.network, client |-> core.client, unproven |-> core.unproven,
                   job |-> core'.job]
      BY <1>1 DEF Cancelling, Types, Core
    <2>3. QED
      BY <2>1, <2>2, JobFacts DEF Core
  <1>4. QED
    BY <1>2, <1>3, StatusStays, StatusFacts DEF StatusOf

LEMMA ForgetStays ==
  ASSUME Types, CoreInv, NEW k \in Listed \ Live, core' = Forgotten(k)
  PROVE  /\ CoreStays /\ Started' = Started /\ core'.network = core.network
         /\ k \notin Listed'
  <1> DEFINE next == [core.job[k] EXCEPT !.listed = FALSE]
  <1>1. k \in Key /\ core.job[k] \in Job /\ core.job \in [Key -> Job \cup {NoJob}]
    BY JobFacts
  <1>2. /\ next \in Job /\ next.status = core.job[k].status /\ next.id = core.job[k].id
        /\ next.client = core.job[k].client /\ next.network = core.job[k].network
        /\ next.listed = FALSE
    BY <1>1 DEF Job
  <1>3. next # NoJob
    BY <1>2, NoJobIsNone
  <1>4. /\ core' = [core EXCEPT !.job = [core.job EXCEPT ![k] = next]]
    BY DEF Forgotten, Types, Core
  <1> HIDE DEF next
  <1>5. /\ core'.job = [core.job EXCEPT ![k] = next] /\ core'.network = core.network
        /\ core'.client = core.client /\ core'.unproven = core.unproven /\ core' \in Core
    <2>1. [core.job EXCEPT ![k] = next] \in [Key -> Job \cup {NoJob}]
      BY <1>1, <1>2
    <2>2. QED
      BY <1>4, <2>1 DEF Types, Core
  <1>6. core'.job[k] = next /\ \A q \in Key \ {k} : core'.job[q] = core.job[q]
    BY <1>1, <1>5
  <1>7. Started' = Started
    BY <1>1, <1>3, <1>6, NoJobIsNone DEF Started
  <1>8. \A q \in Key : /\ core'.job[q].status = core.job[q].status
                       /\ core'.job[q].id = core.job[q].id
                       /\ core'.job[q].client = core.job[q].client
                       /\ core'.job[q].network = core.job[q].network
    BY <1>2, <1>6
  <1>9. Live' = Live
    BY <1>7, <1>8, JobFacts DEF Live
  <1>10. Listed' \subseteq Listed /\ k \notin Listed'
    BY <1>2, <1>6, <1>7, JobFacts DEF Listed
  <1>11. CoreInv'
    BY <1>5, <1>7, <1>8, <1>9, JobFacts DEF CoreInv, UnprovenIsRefused
  <1>12. Grows
    BY <1>7, <1>8, <1>10, JobFacts DEF Grows
  <1>13. QED
    BY <1>5, <1>7, <1>10, <1>11, <1>12 DEF CoreStays

LEMMA SwapStays ==
  ASSUME Types, CoreInv, NEW n \in Network, Live = {}, core' = Swapped(n)
  PROVE  CoreStays /\ Started' = Started /\ core'.network = n /\ core' # core
  <1>1. /\ core'.job = core.job /\ core'.network = n /\ core'.client = core.client + 1
        /\ core'.unproven = {} /\ core' \in Core
    <2>1. core' = [network |-> n, client |-> core.client + 1, unproven |-> {}, job |-> core.job]
      BY DEF Swapped, Types, Core
    <2>2. core.client + 1 \in Nat
      BY JobFacts
    <2>3. QED
      BY <2>1, <2>2, JobFacts DEF Core
  <1>2. Started' = Started /\ Live' = Live /\ Listed' = Listed
    BY <1>1 DEF Started, Live, Listed
  <1>3. \A k \in Started : core.job[k].client \in Nat
    BY JobFacts DEF Job
  <1>4. CoreInv'
    BY <1>1, <1>2, <1>3, JobFacts DEF CoreInv, UnprovenIsRefused
  <1>5. Grows
    BY <1>1, <1>2 DEF Grows
  <1>6. core' # core
    BY <1>1, JobFacts
  <1>7. QED
    BY <1>1, <1>2, <1>4, <1>5, <1>6 DEF CoreStays

LEMMA BeginStays ==
  ASSUME Types, CoreInv, NEW k, NEW id \in Account \cup {Mistyped}, Begins(k, id),
         \A j \in Started : j < k
  PROVE  /\ CoreStays /\ Started' = Started \cup {k} /\ core'.network = core.network
         /\ core'.job[k].id = id /\ core'.job[k].network = core.network
         /\ \A q \in Key \ {k} : core'.job[q] = core.job[q]
  <1> DEFINE next == [status |-> "running", listed |-> TRUE, id |-> id,
                      network |-> core.network, client |-> core.client]
  <1>1. k \in Key \ Started /\ Live = {} /\ core.network \in Network
    BY JobFacts DEF Begins
  <1>2. next \in Job /\ next.status = "running" /\ next.id = id /\ next.client = core.client
        /\ next.network = core.network
    BY <1>1, JobFacts DEF Job
  <1>3. next # NoJob
    BY <1>2, NoJobIsNone
  <1>4. core' = [core EXCEPT !.job = [core.job EXCEPT ![k] = next]]
    BY DEF Begins, Begun, Types, Core
  <1> HIDE DEF next
  <1>5. /\ core'.job = [core.job EXCEPT ![k] = next] /\ core'.network = core.network
        /\ core'.client = core.client /\ core'.unproven = core.unproven /\ core' \in Core
    <2>1. [core.job EXCEPT ![k] = next] \in [Key -> Job \cup {NoJob}]
      BY <1>1, <1>2, JobFacts
    <2>2. QED
      BY <1>4, <2>1 DEF Types, Core
  <1>6. core'.job[k] = next /\ \A q \in Key \ {k} : core'.job[q] = core.job[q]
    BY <1>1, <1>5, JobFacts
  <1>7. Started' = Started \cup {k}
    BY <1>1, <1>3, <1>6, NoJobIsNone DEF Started
  <1>8. Live' = {k}
    BY <1>1, <1>2, <1>6, <1>7 DEF Live, Terminal, Started
  <1>9. Grows
    BY <1>1, <1>6, <1>7, JobFacts DEF Grows, Listed
  <1>10. CoreInv!1' /\ CoreInv!2'
    BY <1>1, <1>2, <1>5, <1>6, <1>7, <1>8, JobFacts DEF CoreInv
  <1>11. CoreInv!3'
    <2>1. k \in Int /\ ~(k < k) /\ \A j \in Started : j \in Int /\ j < k
      BY <1>1, JobFacts DEF Key
    <2>2. \A j \in Started : ~(k < j)
      BY <2>1
    <2>3. QED
      BY <1>7, <1>8, <2>1, <2>2
  <1>12. CoreInv!4'
    BY <1>1, <1>2, <1>5, <1>6, <1>7, JobFacts DEF CoreInv, Begins
  <1>13. UnprovenIsRefused'
    BY <1>1, <1>2, <1>6, <1>7, JobFacts DEF CoreInv, UnprovenIsRefused
  <1>14. QED
    BY <1>2, <1>5, <1>6, <1>7, <1>9, <1>10, <1>11, <1>12, <1>13 DEF CoreStays, CoreInv

LEMMA CloseStays ==
  ASSUME Types, CoreInv, Close
  PROVE  CoreStays /\ Started' = Started /\ core'.network = core.network
  <1> DEFINE next(k) == IF k \in Live THEN [core.job[k] EXCEPT !.status = "cancelling"]
                        ELSE core.job[k]
  <1>1. core' = [core EXCEPT !.job = [k \in Key |-> next(k)]]
    BY DEF Close
  <1>2. \A k \in Started : /\ next(k) \in Job /\ next(k).id = core.job[k].id
                           /\ next(k).client = core.job[k].client
                           /\ next(k).network = core.job[k].network
                           /\ next(k).listed = core.job[k].listed
    BY JobFacts DEF Job
  <1>3. /\ \A k \in Live : next(k).status = "cancelling"
        /\ \A k \in Key \ Live : next(k) = core.job[k]
    BY JobFacts DEF Job
  <1> HIDE DEF next
  <1>4. [k \in Key |-> next(k)] \in [Key -> Job \cup {NoJob}]
    BY <1>2, <1>3, JobFacts
  <1>5. /\ core'.job = [k \in Key |-> next(k)] /\ core'.network = core.network
        /\ core'.client = core.client /\ core'.unproven = core.unproven /\ core' \in Core
    BY <1>1, <1>4 DEF Types, Core
  <1>6. \A k \in Key : core'.job[k] = next(k)
    BY <1>5
  <1>7. Started' = Started
    BY <1>2, <1>3, <1>6, JobFacts, NoJobIsNone DEF Started
  <1>8. Live' = Live
    BY <1>3, <1>6, <1>7, JobFacts DEF Live, Terminal
  <1>9. Listed' = Listed
    BY <1>2, <1>6, <1>7, JobFacts DEF Listed
  <1>10. \A k \in Started \ Live : core'.job[k].status = core.job[k].status
    BY <1>3, <1>6, JobFacts
  <1>11. \A k \in Live : core'.job[k].status = "cancelling"
    BY <1>3, <1>6, JobFacts
  <1>12. Grows
    BY <1>2, <1>6, <1>7, <1>9, <1>10, JobFacts DEF Grows, Live
  <1>13. CoreInv'
    <2>1. CoreInv!1' /\ CoreInv!2' /\ CoreInv!3'
      BY <1>2, <1>5, <1>6, <1>7, <1>8, JobFacts DEF CoreInv
    <2>2. \A k \in Started : core'.job[k].status \in {"outcome_unknown", "succeeded"} =>
            core.job[k].status = core'.job[k].status
      BY <1>10, <1>11
    <2>3. \A k \in Started : /\ core'.job[k].id = core.job[k].id
                            /\ core'.job[k].client = core.job[k].client
      BY <1>2, <1>6, JobFacts
    <2>4. CoreInv!4'
      BY <1>5, <1>7, <1>8, <2>2, <2>3 DEF CoreInv
    <2>5. UnprovenIsRefused'
      BY <1>7, <2>2, <2>3 DEF CoreInv, UnprovenIsRefused
    <2>6. QED
      BY <2>1, <2>4, <2>5 DEF CoreInv
  <1>14. QED
    BY <1>5, <1>7, <1>12, <1>13 DEF CoreStays

LEMMA ReopenStays ==
  ASSUME Types, CoreInv, Reopen
  PROVE  CoreStays /\ Started' = Started /\ core'.network = Off
  <1>1. /\ core'.job = core.job /\ core'.network = Off /\ core'.client = core.client
        /\ core'.unproven = {} /\ core' \in Core /\ Live = {}
    BY DEF Reopen, Types, Core
  <1>2. Started' = Started /\ Live' = Live /\ Listed' = Listed
    BY <1>1 DEF Started, Live, Listed
  <1>3. CoreInv'
    BY <1>1, <1>2, JobFacts DEF CoreInv, UnprovenIsRefused
  <1>4. Grows
    BY <1>1, <1>2 DEF Grows
  <1>5. QED
    BY <1>1, <1>2, <1>3, <1>4 DEF CoreStays

-----------------------------------------------------------------------------
(* What the core answers. *)

LEMMA Invoked ==
  ASSUME NEW outcomes, NEW o \in InvokeCore(outcomes)
  PROVE  /\ o = [core |-> o.core, code |-> o.code, lost |-> o.lost]
         /\ \/ o.lost = FALSE /\ \E p \in outcomes : o.core = p.core /\ o.code = p.code
            \/ /\ o.lost = TRUE /\ o.code = "internal_error"
               /\ o.core = core \/ \E p \in outcomes : o.core = p.core
  <1>1. CASE \E p \in outcomes : o = [core |-> p.core, code |-> p.code, lost |-> FALSE]
    <2>1. PICK p \in outcomes : o = [core |-> p.core, code |-> p.code, lost |-> FALSE]
      BY <1>1
    <2>2. o.core = p.core /\ o.code = p.code /\ o.lost = FALSE
      BY <2>1
    <2>3. QED
      BY <2>1, <2>2
  <1>2. CASE \E c \in {core} \cup {p.core : p \in outcomes} :
               o = [core |-> c, code |-> "internal_error", lost |-> TRUE]
    <2>1. PICK c \in {core} \cup {p.core : p \in outcomes} :
            o = [core |-> c, code |-> "internal_error", lost |-> TRUE]
      BY <1>2
    <2>2. o.core = c /\ o.code = "internal_error" /\ o.lost = TRUE
      BY <2>1
    <2>3. QED
      BY <2>1, <2>2
  <1>3. QED
    BY <1>1, <1>2 DEF InvokeCore

Refused == Codes \ {"pending", "lost", "ok"}

LEMMA Outcomes ==
  /\ \A code : \A p \in Refuses(code) : p.core = core /\ p.code = code
  /\ \A after : \A p \in Does(after) : p.core = after /\ p.code = "ok"
  BY DEF Refuses, Does

LEMMA RefusedCodes ==
  /\ {"internal_error", "not_configured", "drop_in_progress", "idempotency_conflict",
      "unknown_job", "job_not_terminal"} = Refused
  /\ "ok" \notin Refused
  BY DEF Refused, Codes

LEMMA ConfigureAnswers ==
  ASSUME NEW n, NEW o \in InvokeCore(Configure(n))
  PROVE  \/ o.core = core /\ o.code \in Refused
         \/ /\ Live = {} /\ o.core = Swapped(n)
            /\ \/ o.code = "ok" /\ o.lost = FALSE
               \/ o.code \in Refused /\ o.lost = TRUE
  <1>1. \A p \in Configure(n) : \/ p.core = core /\ p.code = "drop_in_progress"
                                \/ Live = {} /\ p.core = Swapped(n) /\ p.code = "ok"
    BY Outcomes DEF Configure, Swapped
  <1>2. /\ o = [core |-> o.core, code |-> o.code, lost |-> o.lost]
        /\ \/ o.lost = FALSE /\ \E p \in Configure(n) : o.core = p.core /\ o.code = p.code
           \/ /\ o.lost = TRUE /\ o.code = "internal_error"
              /\ o.core = core \/ \E p \in Configure(n) : o.core = p.core
    BY Invoked
  <1>3. QED
    BY <1>1, <1>2, RefusedCodes

LEMMA RequestAnswers ==
  ASSUME NEW k \in Key, NEW id, NEW o \in InvokeCore(RequestDrop(k, id))
  PROVE  /\ o.code \in Refused \cup {"ok"} /\ o.lost \in BOOLEAN
         /\ \/ o.core = core /\ (o.code = "ok" => k \in Started)
            \/ /\ core.network # Off /\ k \in Key \ Started /\ Live = {} /\ o.core = Begun(k, id)
               /\ o.code = "ok" \/ o.lost = TRUE
  <1>1. \A p \in RequestDrop(k, id) :
          /\ p.code \in {"not_configured", "ok", "idempotency_conflict", "drop_in_progress"}
          /\ \/ p.core = core /\ (p.code = "ok" => k \in Started)
             \/ /\ core.network # Off /\ k \in Key \ Started /\ Live = {} /\ p.core = Begun(k, id)
                /\ p.code = "ok"
    BY Outcomes DEF RequestDrop, Begun
  <1>2. /\ o = [core |-> o.core, code |-> o.code, lost |-> o.lost]
        /\ \/ o.lost = FALSE /\ \E p \in RequestDrop(k, id) : o.core = p.core /\ o.code = p.code
           \/ /\ o.lost = TRUE /\ o.code = "internal_error"
              /\ o.core = core \/ \E p \in RequestDrop(k, id) : o.core = p.core
    BY Invoked
  <1>3. QED
    BY <1>1, <1>2, RefusedCodes

LEMMA CancelAnswers ==
  ASSUME NEW k, NEW o \in InvokeCore(Cancel(k))
  PROVE  /\ o.code \in Refused \cup {"ok"}
         /\ o.core = core \/ (k \in Live /\ o.core = Cancelling(k))
  <1>1. \A p \in Cancel(k) :
          /\ p.code \in {"unknown_job", "ok"}
          /\ p.core = core \/ (k \in Live /\ p.core = Cancelling(k))
    BY Outcomes DEF Cancel, Cancelling
  <1>2. /\ o = [core |-> o.core, code |-> o.code, lost |-> o.lost]
        /\ \/ o.lost = FALSE /\ \E p \in Cancel(k) : o.core = p.core /\ o.code = p.code
           \/ /\ o.lost = TRUE /\ o.code = "internal_error"
              /\ o.core = core \/ \E p \in Cancel(k) : o.core = p.core
    BY Invoked
  <1>3. QED
    BY <1>1, <1>2, RefusedCodes

LEMMA StatusAnswers ==
  ASSUME NEW k, NEW o \in InvokeCore(JobStatus(k))
  PROVE  o.code \in Refused \cup {"ok"} /\ o.core = core /\ (o.code = "ok" => k \in Listed)
  <1>1. \A p \in JobStatus(k) :
          p.code \in {"unknown_job", "ok"} /\ p.core = core /\ (p.code = "ok" => k \in Listed)
    BY Outcomes DEF JobStatus
  <1>2. /\ o = [core |-> o.core, code |-> o.code, lost |-> o.lost]
        /\ \/ o.lost = FALSE /\ \E p \in JobStatus(k) : o.core = p.core /\ o.code = p.code
           \/ /\ o.lost = TRUE /\ o.code = "internal_error"
              /\ o.core = core \/ \E p \in JobStatus(k) : o.core = p.core
    BY Invoked
  <1>3. QED
    BY <1>1, <1>2, RefusedCodes

LEMMA AckAnswers ==
  ASSUME NEW k, NEW o \in InvokeCore(JobResultAck(k))
  PROVE  /\ o = [core |-> o.core, code |-> o.code, lost |-> o.lost]
         /\ o.code \in Refused \cup {"ok"}
         /\ o.code = "unknown_job" => k \notin Listed
         /\ \/ o.core = core /\ o.code # "ok"
            \/ k \in Listed \ Live /\ o.core = Forgotten(k) /\ o.code # "unknown_job"
  <1>1. \A p \in JobResultAck(k) :
          /\ p.code \in {"unknown_job", "job_not_terminal", "ok"}
          /\ p.code = "unknown_job" => k \notin Listed
          /\ \/ p.core = core /\ p.code # "ok"
             \/ k \in Listed \ Live /\ p.core = Forgotten(k) /\ p.code = "ok"
    BY Outcomes DEF JobResultAck, Forgotten
  <1>2. /\ o = [core |-> o.core, code |-> o.code, lost |-> o.lost]
        /\ \/ o.lost = FALSE /\ \E p \in JobResultAck(k) : o.core = p.core /\ o.code = p.code
           \/ /\ o.lost = TRUE /\ o.code = "internal_error"
              /\ o.core = core \/ \E p \in JobResultAck(k) : o.core = p.core
    BY Invoked
  <1>3. QED
    BY <1>1, <1>2, RefusedCodes

\* The first call nobody had served, w, is served.
Served(w) ==
  /\ w \in DOMAIN pipe /\ pipe[w].code = "pending"
  /\ \A j \in DOMAIN pipe : pipe[j].code = "pending" => w <= j
  /\ DOMAIN pipe' = DOMAIN pipe
  /\ \A j \in DOMAIN pipe \ {w} : pipe'[j] = pipe[j]
  /\ pipe'[w].op = pipe[w].op /\ pipe'[w].key = pipe[w].key /\ pipe'[w].arg = pipe[w].arg
  /\ Replied(pipe'[w])
  /\ pipe'[w].active = backend'.active /\ pipe'[w].network = backend'.network
  /\ backend' \in Backend /\ pipe' \in Seq(Call)
  /\ UNCHANGED <<view, press>>
  /\ unheard \subseteq unheard'

LEMMA AnswerServes ==
  ASSUME Types, Pending # {}, NEW o, NEW after \in Backend, NEW status \in Status,
         o.code \in Refused \cup {"ok"}, Answer(o, after, status)
  PROVE  /\ Served(Waiting) /\ backend' = after /\ core' = o.core
         /\ pipe'[Waiting].code = o.code /\ pipe'[Waiting].status = status
         /\ o.lost /\ o.core # core /\ pipe[Waiting].op \in {"configure", "request"} =>
              pipe[Waiting].op \in unheard'
  <1> DEFINE w == Waiting
             next == [pipe[w] EXCEPT !.code = o.code, !.active = after.active,
                                     !.network = after.network, !.status = status]
  <1>1. /\ w \in DOMAIN pipe /\ pipe[w].code = "pending" /\ pipe[w] \in Call
        /\ \A j \in DOMAIN pipe : pipe[j].code = "pending" => w <= j
        /\ DOMAIN pipe = 1..Len(pipe)
    BY WaitingIsFirst, PipeFacts
  <1>2. after.active \in Key \cup {None} /\ after.network \in Network /\ o.code \in Codes
    BY DEF Backend, Refused, Codes
  <1>3. /\ next \in Call /\ next.op = pipe[w].op /\ next.key = pipe[w].key
        /\ next.arg = pipe[w].arg /\ next.code = o.code /\ next.status = status
        /\ next.active = after.active /\ next.network = after.network
    BY <1>1, <1>2 DEF Call
  <1>4. pipe' = [pipe EXCEPT ![w] = next]
    BY DEF Answer
  <1> HIDE DEF next, w
  <1>5. pipe' \in Seq(Call) /\ Len(pipe') = Len(pipe)
    BY <1>1, <1>3, <1>4, ExceptSeq DEF Types
  <1>6. DOMAIN pipe' = DOMAIN pipe
    BY <1>4
  <1>7. pipe'[w] = next /\ \A j \in DOMAIN pipe \ {w} : pipe'[j] = pipe[j]
    BY <1>1, <1>4
  <1>8. core' = o.core /\ backend' = after /\ UNCHANGED <<view, press>>
    BY DEF Answer
  <1>9. /\ unheard \subseteq unheard'
        /\ o.lost /\ o.core # core /\ pipe[w].op \in {"configure", "request"} =>
             pipe[w].op \in unheard'
    BY DEF Answer, w
  <1>10. Replied(next)
    BY <1>3 DEF Replied, Refused
  <1>11. Served(w) /\ pipe'[w].code = o.code /\ pipe'[w].status = status
    BY <1>1, <1>3, <1>5, <1>6, <1>7, <1>8, <1>9, <1>10 DEF Served
  <1>12. QED
    BY <1>8, <1>9, <1>11 DEF w

-----------------------------------------------------------------------------
(* What a step that adds no job and no press leaves as it is. *)

LEMMA PressStays ==
  ASSUME Types, PressInv, Grows, press' = press, Started' = Started, unheard \subseteq unheard',
         core'.network \in {Off, backend'.network} \/ "configure" \in unheard'
  PROVE  PressInv'
  <1>1. Pressed' = Pressed
    BY DEF Pressed
  <1>2. OneJobPerPress'
    BY <1>1 DEF PressInv, OneJobPerPress, Grows
  <1>3. RunsWhereShown'
    BY DEF PressInv, RunsWhereShown, Grows
  <1>4. Cardinality(Pressed)' = Cardinality(Pressed)
    BY <1>1
  <1>5. QED
    BY <1>1, <1>2, <1>3, <1>4 DEF PressInv

\* A panel whose job is known to have ended, or not to have begun, stays true.
LEMMA PanelStays ==
  ASSUME Types, PanelInv, Grows, view'.shown = view.shown, view'.of = view.of,
         view.shown # "none" => Started' = Started, unheard \subseteq unheard'
  PROVE  PanelIsOfOwnPress'
  <1> DEFINE status == IF view.of \in Started THEN core.job[view.of].status ELSE "none"
  <1>1. /\ view.shown = "receipt" => status = "succeeded"
        /\ view.shown = "stopped" => status = "cancelled"
        /\ view.shown = "unknown" => status \in {"outcome_unknown", "succeeded"}
        /\ view.shown = "failure" => status \in {"none", "failed"} \/ "request" \in unheard
    BY DEF PanelInv, PanelIsOfOwnPress, PanelIsTrue
  <1>2. CASE view.shown = "none"
    BY <1>2 DEF PanelIsOfOwnPress, PanelIsTrue
  <1>3. CASE view.shown # "none"
    <2>1. CASE view.of \in Started
      <3>1. core.job[view.of].status \in Terminal \cup {"running", "cancelling"}
        BY <2>1, JobFacts DEF Job
      <3>2. \/ core'.job[view.of].status = core.job[view.of].status
            \/ view.shown = "failure" /\ "request" \in unheard
            \/ view.shown \notin {"receipt", "stopped", "unknown", "failure"}
        BY <1>1, <2>1, <3>1 DEF Grows, Terminal
      <3>3. QED
        BY <1>1, <1>3, <2>1, <3>2 DEF PanelIsOfOwnPress, PanelIsTrue
    <2>2. CASE view.of \notin Started
      BY <1>1, <1>3, <2>2 DEF PanelIsOfOwnPress, PanelIsTrue
    <2>3. QED
      BY <2>1, <2>2
  <1>4. QED
    BY <1>2, <1>3

-----------------------------------------------------------------------------
(* A call is served. *)

\* What of the backend and of the jobs the call that is served may change.
Effect(w) ==
  /\ backend'.network = backend.network \/ pipe[w].op = "configure"
  /\ \/ backend'.active = backend.active
     \/ pipe[w].op = "request" /\ backend'.active = pipe[w].key
     \/ /\ pipe[w].op = "ack" /\ pipe[w].key = view.job
        /\ backend'.active \in {backend.active, None}
  /\ \A k \in Started : Released(k) => Released(k)'
  /\ \/ Started' = Started
     \/ pipe[w].op = "request" /\ Started' = Started \cup {pipe[w].key}
  /\ pipe[w].op = "request" =>
       /\ pipe[w].key \in Started' =>
            \/ backend'.active = pipe[w].key \/ "request" \in unheard'
       /\ pipe'[w].code \notin {"ok", "drop_in_progress"} => backend'.active = None
  /\ pipe[w].op = "status" /\ pipe'[w].status \in Terminal =>
       pipe[w].key \in Started /\ core.job[pipe[w].key].status = pipe'[w].status
  /\ pipe[w].op = "ack" /\ pipe'[w].code = "ok" =>
       \A k \in Started : k = pipe[w].key =>
         ~Released(k) /\ Released(k)' /\ backend'.active # k

LEMMA NoneIsNoKey == None \notin Key
  BY DEF None, Key

\* What is served at all belongs to the view as it is.
LEMMA ServedIsOfView ==
  ASSUME UiInv, NEW w, Served(w)
  PROVE  /\ pipe[w] \in Call /\ CallFits(pipe[w])
         /\ pipe[w].op \in {"request", "configure", "ack", "status", "cancel"} =>
              view.booted = "yes"
         /\ pipe[w].op = "bootstrap" => view.booted = "asked"
         /\ pipe[w].op = "request" =>
              /\ view.stage = "sending" /\ Trying /\ view.job = None
              /\ pipe[w].key = view.attempt /\ view.attempt \in Key
  <1>1. w \in DOMAIN pipe
    BY DEF Served
  <1>2. pipe[w] \in Call /\ CallFits(pipe[w])
    BY <1>1, PipeFacts DEF UiInv, PipeInv
  <1>3. pipe[w].op = "request" => /\ view.stage = "sending" /\ Trying /\ view.job = None
                                  /\ pipe[w].key = view.attempt /\ view.attempt \in Pressed
    BY <1>2 DEF CallFits, Trying, UiInv, ViewInv
  <1>4. QED
    BY <1>2, <1>3 DEF CallFits, Pressed

LEMMA ServedView ==
  ASSUME UiInv, NEW w, Served(w), Effect(w), Grows
  PROVE  ViewInv'
  <1>1. view' = view /\ press' = press /\ Pressed' = Pressed /\ unheard \subseteq unheard'
    BY DEF Served, Pressed
  <1>2. Switching' = Switching
    BY DEF Served, Switching
  <1>3. view.booted = "yes" /\ view.stage = "" => backend'.active = None
    BY ServedIsOfView DEF Effect, UiInv, ViewInv
  <1>4. ASSUME Trying
        PROVE  /\ backend'.active \in {None, view.attempt}
               /\ view.attempt \in Started' =>
                    backend'.active = view.attempt \/ "request" \in unheard'
               /\ \/ view.attempt \in Started' \/ press[view.attempt].switching
                  \/ "configure" \in unheard'
                  \/ press[view.attempt].network = backend'.network /\ ~Switching
    <2>1. view.job = None /\ view.attempt \in Key
      BY <1>4 DEF UiInv, ViewInv, Trying, Pressed
    <2>2. pipe[w].op = "ack" => pipe[w].key # view.job
      BY <2>1, ServedIsOfView, JobFacts, NoneIsNoKey DEF CallFits, UiInv
    <2>3. backend'.active \in {None, view.attempt}
      BY <1>4, <2>2, ServedIsOfView DEF Effect, UiInv, ViewInv
    <2>4. view.attempt \in Started' => backend'.active = view.attempt \/ "request" \in unheard'
      <3>1. CASE pipe[w].op = "request"
        BY <3>1, ServedIsOfView DEF Effect
      <3>2. CASE pipe[w].op # "request"
        BY <1>1, <1>4, <2>2, <3>2 DEF Effect, UiInv, ViewInv
      <3>3. QED
        BY <3>1, <3>2
    <2>5. pipe[w].op = "configure" => Switching
      BY DEF Served, Switching
    <2>6. Started \subseteq Started'
      BY DEF Grows
    <2>7. \/ view.attempt \in Started' \/ press[view.attempt].switching
          \/ "configure" \in unheard'
          \/ press[view.attempt].network = backend'.network /\ ~Switching
      BY <1>1, <1>4, <2>5, <2>6 DEF Effect, UiInv, ViewInv
    <2>8. QED
      BY <2>3, <2>4, <2>7
  <1>5. view.stage = "running" => backend'.active \in {None, view.job}
    BY ServedIsOfView DEF Effect, UiInv, ViewInv
  <1>6. Trying' = Trying /\ Cardinality(Pressed)' = Cardinality(Pressed)
    BY <1>1 DEF Trying
  <1>7. ViewInv
    BY DEF UiInv
  <1>8. QED
    BY <1>1, <1>2, <1>3, <1>4, <1>5, <1>6, <1>7 DEF ViewInv

LEMMA ServedPanel ==
  ASSUME UiInv, NEW w, Served(w), Effect(w), Grows
  PROVE  PanelInv'
  <1>1. view' = view /\ unheard \subseteq unheard'
    BY DEF Served
  <1>2. view.shown # "none" => Started' = Started
    BY ServedIsOfView DEF Effect, UiInv, PanelInv
  <1>3. PanelIsOfOwnPress'
    BY <1>1, <1>2, PanelStays DEF UiInv
  <1>4. QED
    BY <1>1, <1>3 DEF PanelInv, UiInv

LEMMA ServedPipe ==
  ASSUME UiInv, NEW w, Served(w), Effect(w), Grows
  PROVE  PipeInv'
  <1>1. view' = view /\ DOMAIN pipe' = DOMAIN pipe /\ w \in DOMAIN pipe
    BY DEF Served
  <1>2. ASSUME NEW i \in DOMAIN pipe
        PROVE  /\ CallFits(pipe[i]) /\ pipe[i] \in Call
               /\ pipe'[i].op = pipe[i].op /\ pipe'[i].key = pipe[i].key
               /\ pipe'[i].arg = pipe[i].arg
               /\ i # w => pipe'[i] = pipe[i]
    BY PipeFacts DEF Served, UiInv, PipeInv
  <1>3. ASSUME NEW i \in DOMAIN pipe, pipe[i].op = "bootstrap"
        PROVE  /\ view.booted = "asked"
               /\ Replied(pipe'[i]) =>
                    pipe'[i].network = backend'.network /\ pipe'[i].active = backend'.active
    <2>1. view.booted = "asked"
      BY <1>2, <1>3 DEF CallFits
    <2>2. pipe[w].op = "bootstrap"
      BY <1>1, <1>2, <2>1 DEF CallFits
    <2>3. CASE i = w
      BY <2>1, <2>3 DEF Served
    <2>4. CASE i # w
      <3>1. i = w
        BY <1>1, <1>3, <2>2 DEF UiInv, OrderInv, Single
      <3>2. QED
        BY <2>4, <3>1
    <2>5. QED
      BY <2>3, <2>4
  <1>4. ASSUME NEW i \in DOMAIN pipe, pipe[i].op = "request"
        PROVE  /\ view.stage = "sending" /\ pipe'[i].key = view.attempt /\ pipe'[i].arg = view.text
               /\ Replied(pipe'[i]) /\ pipe'[i].code # "ok" => pipe'[i].active = backend'.active
               /\ Replied(pipe'[i]) /\ pipe'[i].code \notin {"ok", "drop_in_progress"} =>
                    pipe'[i].active = None
    <2>1. view.stage = "sending" /\ pipe'[i].key = view.attempt /\ pipe'[i].arg = view.text
      BY <1>2, <1>4 DEF CallFits
    <2>2. CASE i = w
      BY <1>4, <2>1, <2>2 DEF Served, Effect
    <2>3. CASE i # w
      <3>1. pipe[w].op # "request"
        BY <1>1, <1>4, <2>3 DEF UiInv, OrderInv, Single
      <3>2. view.job = None
        BY <2>1 DEF UiInv, ViewInv
      <3>3. ~(pipe[w].op = "ack" /\ pipe[w].key = view.job)
        BY <1>1, <1>2, <3>2, JobFacts, NoneIsNoKey DEF CallFits, UiInv
      <3>4. backend'.active = backend.active
        BY <3>1, <3>3 DEF Effect
      <3>5. QED
        BY <1>2, <1>4, <2>1, <2>3, <3>4 DEF CallFits
    <2>4. QED
      BY <2>2, <2>3
  <1>5. ASSUME NEW i \in DOMAIN pipe, pipe[i].op = "status"
        PROVE  /\ pipe'[i].key \in Key
               /\ pipe'[i].status \in Terminal =>
                    /\ pipe'[i].key \in Started'
                    /\ core'.job[pipe'[i].key].status = pipe'[i].status
    <2>1. pipe'[i].key \in Key
      BY <1>2, <1>5 DEF CallFits
    <2>2. pipe'[i].status \in Terminal =>
            pipe[i].key \in Started /\ core.job[pipe[i].key].status = pipe'[i].status
      <3>1. CASE i = w
        BY <1>5, <3>1 DEF Effect
      <3>2. CASE i # w
        BY <1>2, <1>5, <3>2 DEF CallFits
      <3>3. QED
        BY <3>1, <3>2
    <2>3. QED
      BY <1>2, <2>1, <2>2 DEF Grows
  <1>6. ASSUME NEW i \in DOMAIN pipe, pipe[i].op = "ack"
        PROVE  /\ pipe'[i].key \in Started' /\ pipe'[i].arg \in Terminal
               /\ core'.job[pipe'[i].key].status = pipe'[i].arg
               /\ pipe'[i].key = view.job => view.attempt = view.job
               /\ pipe'[i].key = view.job \/ Released(pipe[i].key)'
               /\ pipe'[i].code = "ok" =>
                    /\ pipe'[i].key = view.job /\ Released(pipe[i].key)'
                    /\ backend'.active # pipe'[i].key
    <2>1. /\ pipe[i].key \in Started /\ pipe[i].arg \in Terminal
          /\ core.job[pipe[i].key].status = pipe[i].arg
          /\ pipe[i].key = view.job => view.attempt = view.job
          /\ pipe[i].key = view.job \/ Released(pipe[i].key)
          /\ pipe[i].code = "ok" =>
               pipe[i].key = view.job /\ Released(pipe[i].key) /\ backend.active # pipe[i].key
      BY <1>2, <1>6 DEF CallFits
    <2>2. Released(pipe[i].key) => Released(pipe[i].key)'
      <3>1. PICK k \in Started : k = pipe[i].key
        BY <2>1
      <3>2. Released(k) => Released(k)'
        BY DEF Effect
      <3>3. QED
        BY <1>2, <3>1, <3>2 DEF Released
    <2>3. CASE i = w
      <3>1. PICK k \in Started : k = pipe[i].key
        BY <2>1
      <3>2. pipe'[i].code = "ok" => ~Released(k) /\ Released(k)' /\ backend'.active # k
        BY <1>6, <2>3, <3>1 DEF Effect
      <3>3. Released(k)' => Released(pipe[i].key)'
        BY <1>2, <3>1 DEF Released
      <3>4. ~Released(k) => pipe[i].key = view.job
        BY <2>1, <3>1
      <3>5. QED
        BY <1>2, <2>1, <2>2, <3>1, <3>2, <3>3, <3>4 DEF Grows
    <2>4. CASE i # w
      <3>1. pipe[i].code = "ok" => backend'.active # pipe[i].key
        <4>1. SUFFICES ASSUME pipe[i].code = "ok"
                       PROVE  backend'.active # pipe[i].key
          OBVIOUS
        <4>2. pipe[i].key = view.job /\ view.job # None /\ backend.active # pipe[i].key
          BY <2>1, <4>1, JobFacts, NoneIsNoKey DEF UiInv
        <4>3. pipe[w].op # "request"
          BY <4>2, ServedIsOfView
        <4>4. QED
          BY <4>2, <4>3 DEF Effect
      <3>2. QED
        BY <1>2, <2>1, <2>2, <2>4, <3>1 DEF Grows
    <2>5. QED
      BY <2>3, <2>4
  <1>7. \A i \in DOMAIN pipe : pipe[i].op # "bootstrap" => view.booted = "yes"
    BY <1>2 DEF CallFits
  <1>8. ASSUME NEW i \in DOMAIN pipe
        PROVE  CallFits(pipe[i])'
    BY <1>1, <1>2, <1>3, <1>4, <1>5, <1>6, <1>7 DEF CallFits
  <1>9. QED
    BY <1>1, <1>8 DEF PipeInv

LEMMA ServedOrder ==
  ASSUME UiInv, NEW w, Served(w), Effect(w), Grows
  PROVE  OrderInv'
  <1>1. /\ view' = view /\ DOMAIN pipe' = DOMAIN pipe /\ w \in DOMAIN pipe
        /\ DOMAIN pipe \subseteq Nat
    BY PipeFacts DEF Served, UiInv
  <1>2. \A i \in DOMAIN pipe : /\ pipe'[i].op = pipe[i].op /\ pipe'[i].key = pipe[i].key
                               /\ i # w => pipe'[i] = pipe[i]
    BY DEF Served
  <1>3. pipe[w].code = "pending" /\ pipe'[w].code \notin {"pending", "lost"}
    BY DEF Served, Replied
  <1>4. OrderInv!1'
    <2> SUFFICES ASSUME NEW i \in DOMAIN pipe, NEW j \in DOMAIN pipe, i < j,
                        pipe'[i].code = "pending"
                 PROVE  pipe'[j].code \in {"pending", "lost"}
      BY <1>1
    <2>1. i # w /\ pipe[i].code = "pending"
      BY <1>2, <1>3
    <2>2. w <= i
      BY <2>1 DEF Served
    <2>3. j # w
      BY <1>1, <2>2
    <2>4. QED
      BY <1>2, <2>1, <2>3 DEF UiInv, OrderInv
  <1>5. Single("request")' /\ Single("bootstrap")'
    BY <1>1, <1>2 DEF UiInv, OrderInv, Single
  <1>6. OrderInv!3'
    <2> SUFFICES ASSUME NEW i \in DOMAIN pipe, NEW j \in DOMAIN pipe,
                        pipe[i].op = "ack", pipe[j].op = "ack",
                        pipe'[i].code = "ok", pipe'[j].code = "ok"
                 PROVE  i = j
      BY <1>1, <1>2
    <2>1. ASSUME NEW q \in DOMAIN pipe, q # w, pipe[q].op = "ack", pipe'[q].code = "ok",
                 pipe[w].op = "ack", pipe'[w].code = "ok"
          PROVE  FALSE
      <3>1. pipe[q].key = view.job /\ Released(pipe[q].key)
        BY <1>2, <2>1 DEF UiInv, PipeInv, CallFits
      <3>2. ~Released(pipe[w].key)
        <4>1. pipe[w].key \in Started
          BY <1>1, <2>1 DEF UiInv, PipeInv, CallFits
        <4>2. QED
          BY <2>1, <4>1 DEF Effect
      <3>3. pipe[w].key = view.job
        BY <1>1, <2>1, <3>2 DEF UiInv, PipeInv, CallFits
      <3>4. QED
        BY <3>1, <3>2, <3>3
    <2>2. CASE i = w \/ j = w
      BY <2>1, <2>2
    <2>3. CASE i # w /\ j # w
      BY <1>2, <2>3 DEF UiInv, OrderInv
    <2>4. QED
      BY <2>2, <2>3
  <1>7. OrderInv!4'
    <2> SUFFICES ASSUME NEW i \in DOMAIN pipe, pipe[i].op = "configure", Replied(pipe'[i])
                 PROVE  \/ pipe'[i].network = backend'.network
                        \/ \E j \in DOMAIN pipe : i < j /\ pipe[j].op = "configure"
      BY <1>1, <1>2
    <2>1. CASE i = w
      BY <2>1 DEF Served
    <2>2. CASE i # w /\ backend'.network = backend.network
      BY <1>2, <2>2 DEF UiInv, OrderInv
    <2>3. CASE i # w /\ pipe[w].op = "configure"
      <3>1. Replied(pipe[i])
        BY <1>2, <2>3
      <3>2. ~(w < i)
        BY <1>1, <1>3, <3>1 DEF UiInv, OrderInv, Replied
      <3>3. i < w
        BY <1>1, <2>3, <3>2
      <3>4. QED
        BY <1>1, <2>3, <3>3
    <2>4. QED
      BY <2>1, <2>2, <2>3 DEF Effect
  <1>8. OrderInv!5'
    <2>1. Switching' = Switching
      BY <1>1, <1>2 DEF Switching
    <2>2. ~Switching => backend'.network = backend.network
      BY <1>1 DEF Effect, Switching
    <2>3. QED
      BY <1>1, <2>1, <2>2 DEF UiInv, OrderInv
  <1>9. QED
    BY <1>4, <1>5, <1>6, <1>7, <1>8 DEF OrderInv

-----------------------------------------------------------------------------
(* Each of the calls is served so. *)

ServeKeeps == Served(Waiting) /\ Effect(Waiting) /\ CoreStays /\ PressInv'

\* A call that is neither a request nor about a job's result.
LEMMA PlainEffect ==
  ASSUME NEW w, Grows, Started' = Started, pipe[w].op \in {"bootstrap", "configure", "cancel"},
         backend'.active = backend.active, backend'.cached = backend.cached,
         backend'.network = backend.network \/ pipe[w].op = "configure"
  PROVE  Effect(w)
  <1>1. \A k \in Started : Released(k) => Released(k)'
    BY DEF Grows, Released
  <1>2. QED
    BY <1>1 DEF Effect

LEMMA BackendType ==
  ASSUME Types
  PROVE  /\ backend.network \in Network /\ backend.configured \in BOOLEAN
         /\ backend.active \in Key \cup {None} /\ backend.cached \subseteq Key
  BY DEF Types, Backend

\* The backend refuses by itself, or the core refuses, and nothing changes.
LEMMA RefusalKeeps ==
  ASSUME UiInv, Pending # {}, NEW o, o.code \in Refused, o.core = core,
         pipe[Waiting].op \in {"configure", "request"},
         pipe[Waiting].op = "request" =>
           backend.active = None \/ o.code = "drop_in_progress",
         Answer(o, backend, "none")
  PROVE  ServeKeeps
  <1>1. Types /\ CoreInv /\ PressInv
    BY DEF UiInv
  <1>2. /\ Served(Waiting) /\ backend' = backend /\ core' = core
        /\ pipe'[Waiting].code = o.code
    BY <1>1, AnswerServes, RefusedCodes DEF Types, Status
  <1>3. CoreStays /\ Started' = Started
    BY <1>1, <1>2, SameCore DEF Started
  <1>4. unheard \subseteq unheard' /\ press' = press
    BY <1>2 DEF Served
  <1>5. PressInv'
    BY <1>1, <1>2, <1>3, <1>4, PressStays DEF CoreStays, PressInv
  <1>6. Effect(Waiting)
    <2>1. \A k \in Started : Released(k) => Released(k)'
      BY <1>2, <1>3 DEF CoreStays, Grows, Released
    <2>2. pipe[Waiting].op = "request" =>
            /\ view.attempt = pipe[Waiting].key
            /\ view.attempt \in Started => backend.active = view.attempt \/ "request" \in unheard
      BY <1>2, ServedIsOfView DEF UiInv, ViewInv
    <2>3. QED
      BY <1>2, <1>3, <1>4, <2>1, <2>2 DEF Effect
  <1>7. QED
    BY <1>2, <1>3, <1>5, <1>6 DEF ServeKeeps

LEMMA ServeBootstrap ==
  ASSUME UiInv, Bootstrap
  PROVE  ServeKeeps
  <1>1. Types /\ CoreInv /\ PressInv /\ Pending # {} /\ pipe[Waiting].op = "bootstrap"
    BY DEF UiInv, Bootstrap, Serving
  <1>2. PICK o, after : /\ o.code \in Refused \cup {"ok"}
                        /\ \/ o.core = core
                           \/ Live = {} /\ o.core = Swapped(backend.network)
                        /\ after \in Backend /\ after.network = backend.network
                        /\ after.active = backend.active /\ after.cached = backend.cached
                        /\ Answer(o, after, "none")
    <2>1. CASE backend.configured
      <3> DEFINE o == [core |-> core, code |-> "ok", lost |-> FALSE]
      <3>1. Answer(o, backend, "none")
        BY <2>1 DEF Bootstrap, Local
      <3>2. o.code = "ok" /\ o.core = core
        OBVIOUS
      <3>3. backend \in Backend
        BY <1>1 DEF Types
      <3> HIDE DEF o
      <3>4. QED
        BY <3>1, <3>2, <3>3
    <2>2. CASE ~backend.configured
      <3>1. PICK o \in InvokeCore(Configure(backend.network)) :
              Answer(o, [backend EXCEPT !.configured = (o.code = "ok")], "none")
        BY <2>2 DEF Bootstrap
      <3> DEFINE said == o.code = "ok"
                 after == [backend EXCEPT !.configured = said]
      <3>2. said \in BOOLEAN
        OBVIOUS
      <3>3. Answer(o, after, "none")
        BY <3>1
      <3> HIDE DEF said
      <3>4. /\ after \in Backend /\ after.network = backend.network
            /\ after.active = backend.active /\ after.cached = backend.cached
        BY <1>1, <3>2 DEF Types, Backend
      <3> HIDE DEF after
      <3>5. o.code \in Refused \cup {"ok"}
            /\ (o.core = core \/ (Live = {} /\ o.core = Swapped(backend.network)))
        BY ConfigureAnswers
      <3>6. QED
        BY <3>3, <3>4, <3>5
    <2>3. QED
      BY <2>1, <2>2
  <1>3. /\ Served(Waiting) /\ backend' = after /\ core' = o.core
    BY <1>1, <1>2, AnswerServes DEF Status
  <1>4. CoreStays /\ Started' = Started /\ core'.network \in {core.network, backend.network}
    <2>1. CASE o.core = core
      BY <1>1, <1>3, <2>1, SameCore DEF Started
    <2>2. CASE Live = {} /\ o.core = Swapped(backend.network)
      BY <1>1, <1>3, <2>2, SwapStays, BackendType
    <2>3. QED
      BY <1>2, <2>1, <2>2
  <1>5. unheard \subseteq unheard' /\ press' = press
    BY <1>3 DEF Served
  <1>6. PressInv'
    BY <1>1, <1>2, <1>3, <1>4, <1>5, PressStays DEF CoreStays, PressInv
  <1>7. Effect(Waiting)
    BY <1>1, <1>2, <1>3, <1>4, PlainEffect DEF CoreStays
  <1>8. QED
    BY <1>3, <1>4, <1>6, <1>7 DEF ServeKeeps

LEMMA ServeConfigure ==
  ASSUME UiInv, SelectNetwork
  PROVE  ServeKeeps
  <1> DEFINE w == Waiting
             n == pipe[w].arg
  <1>1. Types /\ CoreInv /\ PressInv /\ Pending # {} /\ pipe[w].op = "configure"
    BY DEF UiInv, SelectNetwork, Serving
  <1>2. n \in Network
    BY <1>1, WaitingIsFirst DEF Types
  <1>3. CASE backend.active # None
    <2> DEFINE o == [core |-> core, code |-> "drop_in_progress", lost |-> FALSE]
    <2>1. Answer(o, backend, "none")
      BY <1>3 DEF SelectNetwork, Local
    <2>2. o.code \in Refused /\ o.core = core
      BY RefusedCodes
    <2> HIDE DEF o
    <2>3. QED
      BY <1>1, <2>1, <2>2, RefusalKeeps
  <1>4. CASE backend.active = None
    <2>1. PICK o \in InvokeCore(Configure(n)) :
            Answer(o, IF o.code = "ok"
                      THEN [backend EXCEPT !.network = n, !.configured = TRUE]
                      ELSE backend, "none")
      BY <1>4 DEF SelectNetwork
    <2>2. \/ o.core = core /\ o.code \in Refused
          \/ /\ Live = {} /\ o.core = Swapped(n)
             /\ \/ o.code = "ok" /\ o.lost = FALSE
                \/ o.code \in Refused /\ o.lost = TRUE
      BY ConfigureAnswers
    <2>3. CASE o.core = core /\ o.code \in Refused
      <3>1. Answer(o, backend, "none")
        BY <2>1, <2>3, RefusedCodes
      <3>2. QED
        BY <1>1, <2>3, <3>1, RefusalKeeps
    <2>4. CASE Live = {} /\ o.core = Swapped(n)
      <3> DEFINE after == IF o.code = "ok" THEN [backend EXCEPT !.network = n, !.configured = TRUE]
                          ELSE backend
      <3>1. /\ after \in Backend /\ after.active = backend.active /\ after.cached = backend.cached
            /\ o.code = "ok" => after.network = n
        BY <1>1, <1>2 DEF Types, Backend
      <3>2. Answer(o, after, "none")
        BY <2>1
      <3> HIDE DEF after, n
      <3>3. o.code \in Refused \cup {"ok"}
        BY <2>2
      <3>4. /\ Served(w) /\ backend' = after /\ core' = o.core
            /\ o.lost /\ o.core # core => "configure" \in unheard'
        BY <1>1, <3>1, <3>2, <3>3, AnswerServes DEF Status
      <3>5. CoreStays /\ Started' = Started /\ core'.network = n /\ core' # core
        BY <1>1, <1>2, <2>4, <3>4, SwapStays
      <3>6. unheard \subseteq unheard' /\ press' = press
        BY <3>4 DEF Served
      <3>7. core'.network = backend'.network \/ "configure" \in unheard'
        BY <2>2, <3>1, <3>4, <3>5, RefusedCodes, SameCore
      <3>8. PressInv'
        BY <1>1, <3>5, <3>6, <3>7, PressStays DEF CoreStays
      <3>9. Effect(w)
        BY <1>1, <3>1, <3>4, <3>5, PlainEffect DEF CoreStays
      <3>10. QED
        BY <3>4, <3>5, <3>8, <3>9 DEF ServeKeeps
    <2>5. QED
      BY <2>2, <2>3, <2>4
  <1>5. QED
    BY <1>3, <1>4

LEMMA RequestIsOfPress ==
  ASSUME UiInv, NEW w \in DOMAIN pipe, pipe[w].op = "request"
  PROVE  /\ pipe[w].key \in Pressed /\ pipe[w].key = Cardinality(Pressed)
         /\ Bounded(pipe[w].arg) = press[pipe[w].key].id
         /\ press[pipe[w].key] \in Seen /\ pipe[w].key \in Key
         /\ \/ pipe[w].key \in Started \/ press[pipe[w].key].switching \/ "configure" \in unheard
            \/ press[pipe[w].key].network = backend.network
  <1>1. view.stage = "sending" /\ pipe[w].key = view.attempt /\ pipe[w].arg = view.text
    BY DEF UiInv, PipeInv, CallFits
  <1>2. Trying
    BY <1>1 DEF Trying
  <1>3. view.attempt \in Pressed
    BY <1>2 DEF UiInv, ViewInv
  <1>4. press[view.attempt] \in Seen /\ view.attempt \in Key
    BY <1>3 DEF UiInv, Types, Pressed
  <1>5. QED
    BY <1>1, <1>2, <1>4 DEF UiInv, ViewInv, Bounded

LEMMA ServeRequest ==
  ASSUME UiInv, StartRequestDrop
  PROVE  ServeKeeps
  <1> DEFINE w == Waiting
             k == pipe[w].key
             id == Bounded(pipe[w].arg)
  <1>1. /\ Types /\ CoreInv /\ PressInv /\ Pending # {} /\ pipe[w].op = "request"
        /\ w \in DOMAIN pipe
    BY WaitingIsFirst DEF UiInv, StartRequestDrop, Serving
  <1>2. /\ k \in Pressed /\ k = Cardinality(Pressed) /\ id = press[k].id /\ k \in Key
        /\ press[k] \in Seen
        /\ k \in Started \/ press[k].switching \/ "configure" \in unheard
             \/ press[k].network = backend.network
    BY <1>1, RequestIsOfPress
  <1>3. CASE backend.active # None
    <2> DEFINE o == [core |-> core, code |-> "drop_in_progress", lost |-> FALSE]
    <2>1. Answer(o, backend, "none")
      BY <1>3 DEF StartRequestDrop, Local
    <2>2. o.code = "drop_in_progress" /\ o.core = core
      OBVIOUS
    <2> HIDE DEF o
    <2>3. QED
      BY <1>1, <2>1, <2>2, RefusalKeeps, RefusedCodes
  <1>4. CASE backend.active = None
    <2> DEFINE after(code) == IF code = "ok" THEN [backend EXCEPT !.active = k] ELSE backend
    <2>0. PICK o \in InvokeCore(RequestDrop(k, id)) :
            Answer(o, IF o.code = "ok" THEN [backend EXCEPT !.active = k] ELSE backend, "none")
      BY <1>4 DEF StartRequestDrop
    <2>1. Answer(o, after(o.code), "none")
      BY <2>0
    <2>2. /\ o.code \in Refused \cup {"ok"} /\ o.lost \in BOOLEAN
          /\ \/ o.core = core /\ (o.code = "ok" => k \in Started)
             \/ Begun(k, id) = o.core /\ core.network # Off /\ k \in Key \ Started /\ Live = {}
                /\ (o.code = "ok" \/ o.lost = TRUE)
      BY <1>2, RequestAnswers
    <2>3. /\ after(o.code) \in Backend /\ after(o.code).network = backend.network
          /\ after(o.code).cached = backend.cached
          /\ after(o.code).active = IF o.code = "ok" THEN k ELSE None
      BY <1>1, <1>2, <1>4 DEF Types, Backend
    <2> HIDE DEF after, k, id
    <2>4. /\ Served(w) /\ backend' = after(o.code) /\ core' = o.core /\ pipe'[w].code = o.code
          /\ o.lost /\ o.core # core => "request" \in unheard'
      BY <1>1, <2>1, <2>2, <2>3, AnswerServes DEF Status
    <2>5. unheard \subseteq unheard' /\ press' = press /\ k = pipe[w].key
      BY <2>4 DEF Served, k
    <2>6. CASE o.core = core /\ o.code # "ok"
      <3>1. Answer(o, backend, "none")
        BY <2>1, <2>6 DEF after
      <3>2. QED
        BY <1>1, <1>4, <2>2, <2>6, <3>1, RefusalKeeps
    <2>7. CASE o.core = core /\ o.code = "ok"
      <3>1. CoreStays /\ Started' = Started
        BY <1>1, <2>4, <2>7, SameCore DEF Started
      <3>2. PressInv'
        BY <1>1, <2>3, <2>4, <2>5, <2>7, <3>1, PressStays DEF CoreStays, PressInv
      <3>3. \A q \in Started : Released(q) => Released(q)'
        BY <2>3, <2>4, <3>1 DEF CoreStays, Grows, Released
      <3>4. Effect(w)
        BY <1>1, <2>3, <2>4, <2>5, <2>7, <3>1, <3>3 DEF Effect
      <3>5. QED
        BY <2>4, <3>1, <3>2, <3>4 DEF ServeKeeps
    <2>8. CASE Begun(k, id) = o.core /\ core.network # Off /\ k \in Key \ Started /\ Live = {}
               /\ (o.code = "ok" \/ o.lost = TRUE)
      <3>1. Begins(k, id)
        BY <2>4, <2>8 DEF Begins
      <3>2. \A j \in Started : j < k
        <4>1. Started \subseteq 1..k
          BY <1>1, <1>2 DEF PressInv, OneJobPerPress
        <4>2. QED
          BY <1>2, <2>8, <4>1 DEF Key
      <3>3. id \in Account \cup {Mistyped}
        BY <1>2 DEF Seen
      <3>4. /\ CoreStays /\ Started' = Started \cup {k} /\ core'.network = core.network
            /\ core'.job[k].id = id /\ core'.job[k].network = core.network
            /\ \A q \in Key \ {k} : core'.job[q] = core.job[q]
        BY <1>1, <3>1, <3>2, <3>3, BeginStays
      <3>5. o.code = "ok" \/ "request" \in unheard'
        <4>1. o.core # core
          BY <2>4, <2>8, <3>4 DEF Started
        <4>2. QED
          BY <2>4, <2>8, <4>1
      <3>6. \A q \in Started : Released(q) => Released(q)'
        BY <2>3, <2>4, <3>4 DEF CoreStays, Grows, Released
      <3>7. Effect(w)
        BY <1>1, <1>4, <2>3, <2>4, <2>5, <3>4, <3>5, <3>6 DEF Effect
      <3>8. PressInv'
        <4>1. Pressed' = Pressed /\ Cardinality(Pressed)' = Cardinality(Pressed)
          BY <2>5 DEF Pressed
        <4>2. OneJobPerPress'
          BY <1>1, <1>2, <2>5, <3>4, <4>1, JobFacts DEF OneJobPerPress, PressInv
        <4>3. core.network = backend.network \/ "configure" \in unheard
          BY <1>1, <2>8 DEF PressInv
        <4>4. \/ core'.job[k].network = press'[k].network \/ press'[k].switching
              \/ "configure" \in unheard'
          BY <1>2, <2>5, <2>8, <3>4, <4>3
        <4>5. \A q \in Started : \/ core'.job[q].network = press'[q].network
                                 \/ press'[q].switching \/ "configure" \in unheard'
          BY <1>1, <2>5, <2>8, <3>4, JobFacts DEF RunsWhereShown, PressInv
        <4>6. RunsWhereShown'
          BY <3>4, <4>4, <4>5 DEF RunsWhereShown
        <4>7. core'.network \in {Off, backend'.network} \/ "configure" \in unheard'
          BY <2>3, <2>4, <2>5, <3>4, <4>3
        <4>8. QED
          BY <1>1, <4>1, <4>2, <4>6, <4>7 DEF PressInv
      <3>9. QED
        BY <2>4, <3>4, <3>7, <3>8 DEF ServeKeeps
    <2>9. QED
      BY <2>2, <2>6, <2>7, <2>8
  <1>5. QED
    BY <1>3, <1>4

LEMMA ServeCancel ==
  ASSUME UiInv, CancelJob
  PROVE  ServeKeeps
  <1> DEFINE w == Waiting
  <1>1. Types /\ CoreInv /\ PressInv /\ Pending # {} /\ pipe[w].op = "cancel"
    BY DEF UiInv, CancelJob, Serving
  <1>2. PICK o \in InvokeCore(Cancel(pipe[w].key)) : Answer(o, backend, "none")
    BY DEF CancelJob
  <1>3. /\ o.code \in Refused \cup {"ok"}
        /\ o.core = core \/ (pipe[w].key \in Live /\ o.core = Cancelling(pipe[w].key))
    BY CancelAnswers
  <1>4. Served(w) /\ backend' = backend /\ core' = o.core
    BY <1>1, <1>2, <1>3, AnswerServes DEF Types, Status
  <1>5. CoreStays /\ Started' = Started /\ core'.network = core.network
    <2>1. CASE o.core = core
      BY <1>1, <1>4, <2>1, SameCore DEF Started
    <2>2. CASE pipe[w].key \in Live /\ o.core = Cancelling(pipe[w].key)
      BY <1>1, <1>4, <2>2, AskStays DEF Asks
    <2>3. QED
      BY <1>3, <2>1, <2>2
  <1>6. unheard \subseteq unheard' /\ press' = press
    BY <1>4 DEF Served
  <1>7. PressInv'
    BY <1>1, <1>4, <1>5, <1>6, PressStays DEF CoreStays, PressInv
  <1>8. Effect(w)
    BY <1>1, <1>4, <1>5, PlainEffect DEF CoreStays
  <1>9. QED
    BY <1>4, <1>5, <1>7, <1>8 DEF ServeKeeps

LEMMA ServeStatus ==
  ASSUME UiInv, BackendJobStatus
  PROVE  ServeKeeps
  <1> DEFINE w == Waiting
             k == pipe[w].key
             status == IF k \in Started THEN core.job[k].status ELSE "none"
  <1>1. /\ Types /\ CoreInv /\ PressInv /\ Pending # {} /\ pipe[w].op = "status"
        /\ w \in DOMAIN pipe
    BY WaitingIsFirst DEF UiInv, BackendJobStatus, Serving
  <1>2. k \in Key
    BY <1>1 DEF UiInv, PipeInv, CallFits
  <1>3. status \in Status /\ (status \in Terminal => k \in Started)
    BY <1>1, JobFacts DEF Status, Job, Terminal
  <1>4. PICK o, after : /\ o.code \in Refused \cup {"ok"} /\ o.core = core
                        /\ after \in Backend /\ after.network = backend.network
                        /\ after.active = backend.active
                        /\ \/ after.cached = backend.cached
                           \/ after.cached = backend.cached \cup {k} /\ k \in Listed
                        /\ Answer(o, after, status)
    <2>1. CASE k \in backend.cached
      <3> DEFINE o == [core |-> core, code |-> "ok", lost |-> FALSE]
      <3>1. Answer(o, backend, status)
        BY <2>1 DEF BackendJobStatus, Local
      <3>2. o.code = "ok" /\ o.core = core
        OBVIOUS
      <3>3. backend \in Backend
        BY <1>1 DEF Types
      <3> HIDE DEF o, status, k
      <3>4. QED
        BY <3>1, <3>2, <3>3
    <2>2. CASE k \notin backend.cached
      <3>1. PICK o \in InvokeCore(JobStatus(k)) :
              Answer(o, IF o.code = "ok" /\ status \in Terminal
                        THEN [backend EXCEPT !.cached = @ \cup {k}] ELSE backend, status)
        BY <2>2 DEF BackendJobStatus
      <3> HIDE DEF status
      <3> DEFINE after == IF o.code = "ok" /\ status \in Terminal
                          THEN [backend EXCEPT !.cached = @ \cup {k}] ELSE backend
      <3>2. o.code \in Refused \cup {"ok"} /\ o.core = core /\ (o.code = "ok" => k \in Listed)
        BY StatusAnswers
      <3> HIDE DEF k
      <3>3. /\ after \in Backend /\ after.network = backend.network
            /\ after.active = backend.active
            /\ \/ after.cached = backend.cached
               \/ after.cached = backend.cached \cup {k} /\ k \in Listed
        BY <1>1, <1>2, <3>2 DEF Types, Backend
      <3>4. Answer(o, after, status)
        BY <3>1
      <3> HIDE DEF after
      <3>5. QED
        BY <3>2, <3>3, <3>4
    <2>3. QED
      BY <2>1, <2>2
  <1> HIDE DEF status
  <1>5. Served(w) /\ backend' = after /\ core' = core /\ pipe'[w].status = status
    BY <1>1, <1>3, <1>4, AnswerServes
  <1>6. CoreStays /\ Started' = Started
    BY <1>1, <1>5, SameCore DEF Started
  <1>7. unheard \subseteq unheard' /\ press' = press
    BY <1>5 DEF Served
  <1>8. PressInv'
    BY <1>1, <1>4, <1>5, <1>6, <1>7, PressStays DEF CoreStays, PressInv
  <1>9. \A q \in Started : Released(q) => Released(q)'
    BY <1>4, <1>5, <1>6 DEF CoreStays, Grows, Released
  <1>10. Effect(w)
    BY <1>1, <1>3, <1>4, <1>5, <1>6, <1>9 DEF Effect, status
  <1>11. QED
    BY <1>5, <1>6, <1>8, <1>10 DEF ServeKeeps

LEMMA ServeAck ==
  ASSUME UiInv, AcknowledgeJob
  PROVE  ServeKeeps
  <1> DEFINE w == Waiting
  <1>1. /\ Types /\ CoreInv /\ PressInv /\ Pending # {} /\ pipe[w].op = "ack"
        /\ w \in DOMAIN pipe
    BY WaitingIsFirst DEF UiInv, AcknowledgeJob, Serving
  <1>2. PICK k \in Started : k = pipe[w].key /\ k \in Key /\ (k = view.job \/ Released(k))
    BY <1>1, JobFacts DEF UiInv, PipeInv, CallFits
  <1>3. PICK o \in InvokeCore(JobResultAck(k)) :
          LET released == o.code = "ok" \/ (o.code = "unknown_job" /\ k \in backend.cached) IN
          Answer([o EXCEPT !.code = IF released THEN "ok" ELSE @],
                 IF released THEN [backend EXCEPT !.cached = @ \ {k},
                                     !.active = IF @ = k THEN None ELSE @]
                 ELSE backend, "none")
    BY <1>2 DEF AcknowledgeJob
  <1>4. /\ o = [core |-> o.core, code |-> o.code, lost |-> o.lost]
        /\ o.code \in Refused \cup {"ok"}
        /\ o.code = "unknown_job" => k \notin Listed
        /\ \/ o.core = core /\ o.code # "ok"
           \/ k \in Listed \ Live /\ o.core = Forgotten(k) /\ o.code # "unknown_job"
    BY AckAnswers
  <1> DEFINE released == o.code = "ok" \/ (o.code = "unknown_job" /\ k \in backend.cached)
             said == [o EXCEPT !.code = IF released THEN "ok" ELSE @]
             after == IF released THEN [backend EXCEPT !.cached = @ \ {k},
                                          !.active = IF @ = k THEN None ELSE @]
                      ELSE backend
  <1>5. Answer(said, after, "none")
    BY <1>3
  <1>6. said.core = o.core /\ said.code = IF released THEN "ok" ELSE o.code
    BY <1>4
  <1>7. /\ after \in Backend /\ after.network = backend.network
        /\ ~released => after = backend
        /\ released => /\ after.cached = backend.cached \ {k}
                       /\ after.active = IF backend.active = k THEN None ELSE backend.active
    BY <1>1 DEF Types, Backend
  <1>8. released => ~Released(k)
    BY <1>4 DEF Released
  <1>9. said.code = "ok" => released
    BY <1>4, <1>6
  <1> HIDE DEF said, after
  <1>10. said.code \in Refused \cup {"ok"}
    BY <1>4, <1>6
  <1>11. /\ Served(w) /\ backend' = after /\ core' = o.core /\ pipe'[w].code = said.code
    BY <1>1, <1>5, <1>6, <1>7, <1>10, AnswerServes DEF Status
  <1>12. /\ CoreStays /\ Started' = Started /\ core'.network = core.network
         /\ released => k \notin Listed'
    <2>1. CASE o.core = core /\ o.code # "ok"
      <3>1. core' = core /\ CoreStays /\ Started' = Started
        BY <1>1, <1>11, <2>1, SameCore DEF Started
      <3>2. Listed' = Listed
        BY <3>1 DEF Listed
      <3>3. QED
        BY <1>4, <2>1, <3>1, <3>2
    <2>2. CASE k \in Listed \ Live /\ o.core = Forgotten(k)
      BY <1>1, <1>11, <2>2, ForgetStays
    <2>3. QED
      BY <1>4, <2>1, <2>2
  <1>13. unheard \subseteq unheard' /\ press' = press
    BY <1>11 DEF Served
  <1>14. PressInv'
    BY <1>1, <1>7, <1>11, <1>12, <1>13, PressStays DEF CoreStays, PressInv
  <1>15. backend'.cached \subseteq backend.cached /\ (released => k \notin backend'.cached)
    BY <1>7, <1>11
  <1>16. \A q \in Started : Released(q) => Released(q)'
    BY <1>12, <1>15 DEF CoreStays, Grows, Released
  <1>17. Effect(w)
    <2>1. CASE released
      <3>1. k = view.job /\ ~Released(k) /\ Released(k)' /\ backend'.active # k
        <4>1. backend'.active = IF backend.active = k THEN None ELSE backend.active
          BY <1>7, <1>11, <2>1
        <4>2. k # None
          BY <1>2, NoneIsNoKey
        <4>3. Released(k)'
          BY <1>12, <1>15, <2>1 DEF Released
        <4>4. QED
          BY <1>2, <1>8, <2>1, <4>1, <4>2, <4>3
      <3>2. QED
        BY <1>1, <1>2, <1>7, <1>11, <1>12, <1>13, <1>16, <2>1, <3>1 DEF Effect
    <2>2. CASE ~released
      BY <1>1, <1>7, <1>9, <1>11, <1>12, <1>13, <1>16, <2>2 DEF Effect
    <2>3. QED
      BY <2>1, <2>2
  <1>18. QED
    BY <1>11, <1>12, <1>14, <1>17 DEF ServeKeeps

LEMMA ServeInv ==
  ASSUME UiInv, Serve
  PROVE  UiInv'
  <1>1. ServeKeeps
    BY ServeBootstrap, ServeConfigure, ServeRequest, ServeCancel, ServeStatus, ServeAck DEF Serve
  <1>2. PICK w \in DOMAIN pipe : w = Waiting
    BY <1>1 DEF ServeKeeps, Served
  <1>3. Served(w) /\ Effect(w) /\ Grows
    BY <1>1, <1>2 DEF ServeKeeps, CoreStays
  <1>4. ViewInv' /\ PanelInv' /\ PipeInv' /\ OrderInv'
    BY <1>3, ServedView, ServedPanel, ServedPipe, ServedOrder
  <1>5. Types'
    <2>1. core' \in Core /\ backend' \in Backend /\ pipe' \in Seq(Call) /\ view' = view
          /\ press' = press /\ DOMAIN pipe' = DOMAIN pipe
      BY <1>1, <1>3 DEF ServeKeeps, CoreStays, Served
    <2>2. \A i \in DOMAIN pipe : pipe'[i].op = pipe[i].op /\ pipe'[i].arg = pipe[i].arg
      BY <1>3 DEF Served
    <2>3. QED
      BY <2>1, <2>2 DEF UiInv, Types
  <1>6. QED
    BY <1>1, <1>4, <1>5 DEF ServeKeeps, CoreStays, UiInv

-----------------------------------------------------------------------------
(* The view sends a call. *)

\* What a call has to do with the view is not changed by a step of the view.
LEMMA FitStays ==
  ASSUME NEW call, CallFits(call), core' = core, backend' = backend,
         view'.booted = view.booted,
         call.op = "request" => /\ view'.stage = "sending" /\ view'.attempt = view.attempt
                                /\ view'.text = view.text,
         call.op = "ack" =>
           /\ call.key = view'.job => view'.attempt = view'.job
           /\ call.key = view'.job \/ Released(call.key)
           /\ call.code = "ok" => call.key = view'.job
  PROVE  CallFits(call)'
  <1>1. Started' = Started /\ (Released(call.key)' <=> Released(call.key))
    BY DEF Started, Released, Listed
  <1>2. QED
    BY <1>1 DEF CallFits, Replied

LEMMA PipeOf ==
  ASSUME \A i \in DOMAIN pipe' : \E call : call = pipe'[i] /\ CallFits(call)'
  PROVE  PipeInv'
  <1> SUFFICES ASSUME NEW i \in DOMAIN pipe'
               PROVE  CallFits(pipe[i])'
    BY DEF PipeInv
  <1>1. PICK call : call = pipe'[i] /\ CallFits(call)'
    OBVIOUS
  <1>2. QED
    BY <1>1 DEF CallFits, Replied, Released

\* The view sends a call, and nothing else of it changes that the others depend on.
Sends(call) ==
  /\ call \in Call /\ call.code = "pending" /\ call.op \notin {"bootstrap", "ack"}
  /\ call.op = "configure" => call.arg \in Network
  /\ pipe' = Append(pipe, call)
  /\ UNCHANGED <<core, backend, unheard>>
  /\ view' \in View /\ view.booted = "yes" /\ view'.booted = "yes"
  /\ view'.job = view.job /\ view'.network = view.network
  /\ \/ view'.stage = view.stage /\ view'.attempt = view.attempt /\ view'.text = view.text
     \/ view.stage # "sending" /\ view.job = None
  /\ call.op = "request" => view.stage # "sending"

LEMMA SendKeeps ==
  ASSUME UiInv, NEW call, Sends(call), CallFits(call)',
         press' \in [Key -> Seen \cup {NoPress}]
  PROVE  Types' /\ CoreInv' /\ PipeInv' /\ OrderInv' /\ Grows /\ Started' = Started
  <1>1. Types /\ PipeInv /\ OrderInv /\ ViewInv /\ CoreInv /\ call \in Call
    BY DEF UiInv, Sends
  <1>2. /\ pipe' \in Seq(Call) /\ DOMAIN pipe' = 1..(Len(pipe) + 1)
        /\ \A i \in DOMAIN pipe : i \in DOMAIN pipe' /\ pipe'[i] = pipe[i]
        /\ pipe'[Len(pipe) + 1] = call
        /\ \A i \in DOMAIN pipe' : i \in DOMAIN pipe \/ i = Len(pipe) + 1
    BY <1>1, SendFacts DEF Sends
  <1>3. Len(pipe) \in Nat /\ DOMAIN pipe = 1..Len(pipe)
    BY <1>1, PipeFacts
  <1>4. core' = core /\ backend' = backend /\ unheard' = unheard
    BY DEF Sends
  <1>5. CoreStays /\ Started' = Started
    BY <1>1, <1>4, SameCore DEF Started
  <1>6. PipeInv'
    <2>1. ASSUME NEW i \in DOMAIN pipe
          PROVE  \E c : c = pipe'[i] /\ CallFits(c)'
      <3>1. PICK c : c = pipe[i]
        OBVIOUS
      <3>2. CallFits(c) /\ view'.booted = view.booted
        BY <1>1, <3>1 DEF PipeInv, Sends
      <3>3. c.op = "request" => /\ view'.stage = "sending" /\ view'.attempt = view.attempt
                                /\ view'.text = view.text
        BY <3>2 DEF CallFits, Sends
      <3>4. c.op = "ack" => /\ c.key = view'.job => view'.attempt = view'.job
                            /\ c.key = view'.job \/ Released(c.key)
                            /\ c.code = "ok" => c.key = view'.job
        BY <1>1, <3>2, JobFacts, NoneIsNoKey DEF CallFits, Sends
      <3>5. CallFits(c)'
        BY <1>4, <3>2, <3>3, <3>4, FitStays
      <3>6. QED
        BY <1>2, <3>1, <3>5
    <2>2. QED
      BY <1>2, <2>1, PipeOf
  <1>7. OrderInv!1'
    BY <1>1, <1>2, <1>3 DEF OrderInv, Sends
  <1>8. Single("request")' /\ Single("bootstrap")'
    <2>1. call.op = "request" => \A i \in DOMAIN pipe : pipe[i].op # "request"
      BY <1>1 DEF PipeInv, CallFits, Sends
    <2>2. call.op # "bootstrap"
      BY DEF Sends
    <2>3. QED
      BY <1>1, <1>2, <2>1, <2>2 DEF OrderInv, Single
  <1>9. OrderInv!3'
    <2>1. call.op # "ack"
      BY DEF Sends
    <2>2. QED
      BY <1>1, <1>2, <2>1 DEF OrderInv
  <1>10. OrderInv!4'
    <2> SUFFICES ASSUME NEW i \in DOMAIN pipe', pipe'[i].op = "configure", Replied(pipe'[i])
                 PROVE  \/ pipe'[i].network = backend'.network
                        \/ \E j \in DOMAIN pipe' : i < j /\ pipe'[j].op = "configure"
      BY DEF OrderInv
    <2>1. i \in DOMAIN pipe /\ pipe'[i] = pipe[i]
      BY <1>2 DEF Sends, Replied
    <2>2. CASE pipe[i].network = backend.network
      BY <1>4, <2>1, <2>2
    <2>3. CASE \E j \in DOMAIN pipe : i < j /\ pipe[j].op = "configure"
      BY <1>2, <2>1, <2>3
    <2>4. QED
      BY <1>1, <2>1, <2>2, <2>3 DEF OrderInv
  <1>11. OrderInv!5'
    <2>1. Switching => Switching'
      BY <1>2 DEF Switching
    <2>2. QED
      BY <1>1, <1>4, <2>1 DEF OrderInv, Sends
  <1>12. OrderInv'
    BY <1>7, <1>8, <1>9, <1>10, <1>11 DEF OrderInv
  <1>13. Types'
    <2>1. \A i \in DOMAIN pipe' : pipe'[i].op = "configure" => pipe'[i].arg \in Network
      BY <1>1, <1>2 DEF Types, Sends
    <2>2. QED
      BY <1>1, <1>2, <1>4, <2>1 DEF Types, Sends
  <1>14. QED
    BY <1>5, <1>6, <1>12, <1>13 DEF CoreStays

LEMMA AskFacts ==
  ASSUME NEW op \in Ops, NEW key \in Key \cup {None}, NEW arg \in Arg
  PROVE  /\ Ask(op, key, arg) \in Call
         /\ Ask(op, key, arg).op = op /\ Ask(op, key, arg).key = key
         /\ Ask(op, key, arg).arg = arg /\ Ask(op, key, arg).code = "pending"
         /\ Ask(op, key, arg).status = "none"
  BY NetworkAssumption DEF Ask, Call, Codes, Status

LEMMA FreshFacts ==
  /\ FreshView \in View /\ FreshView.booted = "no" /\ FreshView.stage = ""
  /\ FreshView.job = None /\ FreshView.attempt = None /\ FreshView.shown = "none"
  /\ AnyText \in Text
  <1>1. AnyText \in Text
    <2>1. [public |-> TRUE, id |-> Mistyped] \in Text
      BY DEF Text
    <2>2. Plausible([public |-> TRUE, id |-> Mistyped])
      BY DEF Plausible
    <2>3. \E t \in Text : Plausible(t)
      BY <2>1, <2>2
    <2>4. QED
      BY <2>3 DEF AnyText
  <1>2. QED
    BY <1>1, NetworkAssumption DEF FreshView, View

LEMMA ViewFacts ==
  ASSUME Types
  PROVE  /\ view.booted \in {"no", "asked", "yes", "closed"} /\ view.network \in Network
         /\ view.attempt \in Key \cup {None} /\ view.text \in Text
         /\ view.job \in Key \cup {None} /\ view.of \in Key \cup {None}
         /\ view.stage \in {"", "sending", "running", "interrupted"}
  BY DEF Types, View

\* A view that has not begun, or is closed, shows nothing.
LEMMA BlankView ==
  ASSUME Types, ViewInv, view.booted # "yes"
  PROVE  /\ view.stage = "" /\ view.job = None /\ view.attempt = None
         /\ view.shown = "none"
  BY FreshFacts DEF ViewInv, View

\* The view of a request that stays where it is.
LEMMA ViewStays ==
  ASSUME UiInv, view.booted = "yes", view'.booted = "yes", view'.job = view.job,
         view'.attempt = view.attempt, view'.text = view.text, view'.of = view.of,
         \/ view'.stage = view.stage
         \/ view.stage = "interrupted" /\ view'.stage = "sending"
         \/ view.stage = "sending" /\ view'.stage = "interrupted",
         UNCHANGED <<core, backend, press>>, unheard \subseteq unheard',
         Trying /\ ~Switching => ~Switching'
  PROVE  ViewInv'
  <1>1. Started' = Started /\ Pressed' = Pressed /\ Cardinality(Pressed)' = Cardinality(Pressed)
    BY DEF Started, Pressed
  <1>2. /\ Trying' <=> Trying
        /\ view'.stage = "" <=> view.stage = ""
        /\ view'.stage = "running" <=> view.stage = "running"
    BY DEF Trying
  <1>3. ViewInv
    BY DEF UiInv
  <1>4. QED
    BY <1>1, <1>2, <1>3 DEF ViewInv

LEMMA PressOfView ==
  ASSUME UiInv, UNCHANGED <<core, backend, press>>, unheard \subseteq unheard'
  PROVE  PressInv' /\ Grows /\ Started' = Started
  <1>1. Types /\ CoreInv /\ PressInv
    BY DEF UiInv
  <1>2. Grows /\ Started' = Started
    BY <1>1, SameCore DEF CoreStays, Started
  <1>3. PressInv'
    BY <1>1, <1>2, PressStays DEF PressInv
  <1>4. QED
    BY <1>2, <1>3

LEMMA SwitchKeeps ==
  ASSUME UiInv, NEW n \in Network, Switch(n)
  PROVE  UiInv'
  <1> DEFINE call == Ask("configure", None, n)
  <1>1. /\ call \in Call /\ call.op = "configure" /\ call.arg = n /\ call.code = "pending"
    BY AskFacts DEF Ops, Arg
  <1>2. /\ view.booted = "yes" /\ view.stage = "" /\ pipe' = Append(pipe, call)
        /\ UNCHANGED <<core, backend, view, press, unheard>>
    BY DEF Switch, Send
  <1> HIDE DEF call
  <1>3. Sends(call)
    BY <1>1, <1>2 DEF Sends, UiInv, Types
  <1>4. CallFits(call)'
    <2>1. PICK c : c = call
      OBVIOUS
    <2>2. QED
      BY <1>1, <1>2, <2>1 DEF CallFits
  <1>5. Types' /\ CoreInv' /\ PipeInv' /\ OrderInv' /\ Grows /\ Started' = Started
    BY <1>2, <1>3, <1>4, SendKeeps DEF UiInv, Types
  <1>6. ViewInv'
    BY <1>2, ViewStays DEF Trying
  <1>7. PanelInv'
    BY <1>2, <1>5, PanelStays DEF UiInv, PanelInv
  <1>8. PressInv'
    BY <1>2, PressOfView
  <1>9. QED
    BY <1>5, <1>6, <1>7, <1>8 DEF UiInv

\* A call of a request that the view follows, or is trying for.
LEMMA CallKeeps ==
  ASSUME UiInv, NEW call, Sends(call), CallFits(call)', press' = press,
         call.op # "configure",
         view'.attempt = view.attempt, view'.text = view.text, view'.of = view.of,
         view'.shown = view.shown, view.stage # "",
         view'.stage = view.stage \/ (view.stage = "interrupted" /\ view'.stage = "sending")
  PROVE  UiInv'
  <1>1. UNCHANGED <<core, backend, press>> /\ unheard' = unheard /\ view.booted = "yes"
        /\ view'.booted = "yes" /\ view'.job = view.job /\ pipe' = Append(pipe, call)
        /\ call \in Call
    BY DEF Sends
  <1>2. Types' /\ CoreInv' /\ PipeInv' /\ OrderInv' /\ Grows /\ Started' = Started
    BY <1>1, SendKeeps DEF UiInv, Types
  <1>3. Switching' = Switching
    <2>1. Types /\ call \in Call /\ pipe' = Append(pipe, call)
      BY <1>1 DEF UiInv
    <2>2. /\ \A i \in DOMAIN pipe : i \in DOMAIN pipe' /\ pipe'[i] = pipe[i]
          /\ pipe'[Len(pipe) + 1] = call
          /\ \A i \in DOMAIN pipe' : i \in DOMAIN pipe \/ i = Len(pipe) + 1
      BY <2>1, SendFacts
    <2>3. call.op # "configure"
      OBVIOUS
    <2>4. Switching' <=> Switching
      BY <2>2, <2>3 DEF Switching
    <2>5. QED
      BY <2>4
  <1>4. ViewInv'
    <2>1. \/ view'.stage = view.stage
          \/ view.stage = "interrupted" /\ view'.stage = "sending"
      OBVIOUS
    <2>2. unheard \subseteq unheard' /\ (Trying /\ ~Switching => ~Switching')
      BY <1>1, <1>3
    <2>3. QED
      BY <1>1, <2>1, <2>2, ViewStays
  <1>5. PanelInv'
    <2>1. view.shown = "none"
      BY DEF UiInv, PanelInv
    <2>2. PanelIsOfOwnPress'
      BY <1>1, <1>2, PanelStays DEF UiInv
    <2>3. QED
      BY <2>1, <2>2 DEF PanelInv
  <1>6. PressInv'
    BY <1>1, PressOfView
  <1>7. QED
    BY <1>2, <1>4, <1>5, <1>6 DEF UiInv

LEMMA ResendKeeps ==
  ASSUME UiInv, Resend
  PROVE  UiInv'
  <1>0. Types /\ ViewInv /\ view.stage = "interrupted"
    BY DEF UiInv, Resend
  <1>1. view \in View /\ view.attempt \in Key \cup {None} /\ view.text \in Text
        /\ view.stage = "interrupted" /\ view.booted = "yes" /\ view.job = None
    <2>1. view \in View
      BY <1>0 DEF Types
    <2>2. view.booted = "yes" /\ view.job = None
      BY <1>0, BlankView DEF ViewInv
    <2>3. QED
      BY <1>0, <2>1, <2>2, ViewFacts
  <1> PICK call : call = Ask("request", view.attempt, view.text)
    OBVIOUS
  <1>2. /\ call \in Call /\ call.op = "request" /\ call.key = view.attempt /\ call.arg = view.text
        /\ call.code = "pending"
    BY <1>1, AskFacts DEF Ops, Arg
  <1>3. /\ pipe' = Append(pipe, call) /\ view' = [view EXCEPT !.stage = "sending"]
        /\ UNCHANGED <<core, backend, press, unheard>>
    BY DEF Resend, Send, ViewStep
  <1>4. /\ view' \in View /\ view'.booted = view.booted /\ view'.job = view.job
        /\ view'.network = view.network /\ view'.attempt = view.attempt /\ view'.text = view.text
        /\ view'.of = view.of /\ view'.shown = view.shown /\ view'.stage = "sending"
    BY <1>1, <1>3 DEF View
  <1>5. Sends(call)
    BY <1>1, <1>2, <1>3, <1>4 DEF Sends
  <1>6. CallFits(call)'
    BY <1>1, <1>2, <1>4 DEF CallFits, Replied
  <1>7. QED
    BY <1>1, <1>2, <1>3, <1>4, <1>5, <1>6, CallKeeps

LEMMA PollKeeps ==
  ASSUME UiInv, PollCredit \/ CancelCreditRequest
  PROVE  UiInv'
  <1>0. Types /\ ViewInv /\ view.job # None
    BY DEF UiInv, PollCredit, CancelCreditRequest
  <1>1. view \in View /\ view.job \in Key /\ view.booted = "yes" /\ view.stage = "running"
    <2>1. view \in View /\ view.job \in Key
      BY <1>0, ViewFacts DEF Types
    <2>2. view.stage = "running"
      BY <1>0 DEF ViewInv
    <2>3. view.booted = "yes"
      BY <1>0, <2>2, BlankView
    <2>4. QED
      BY <2>1, <2>2, <2>3
  <1>2. PICK op \in {"status", "cancel"} :
          /\ pipe' = Append(pipe, Ask(op, view.job, None))
          /\ \/ view' = [view EXCEPT !.polling = TRUE]
             \/ view' = [view EXCEPT !.cancelRequested = TRUE]
          /\ UNCHANGED <<core, backend, press, unheard>>
    BY DEF PollCredit, CancelCreditRequest, Send, ViewStep
  <1>3. PICK call : call = Ask(op, view.job, None)
    OBVIOUS
  <1>4. /\ call \in Call /\ call.op = op /\ call.key = view.job /\ call.code = "pending"
        /\ call.status = "none"
    BY <1>1, <1>3, AskFacts DEF Ops, Arg
  <1>5. /\ view' \in View /\ view'.booted = view.booted /\ view'.job = view.job
        /\ view'.network = view.network /\ view'.attempt = view.attempt /\ view'.text = view.text
        /\ view'.of = view.of /\ view'.shown = view.shown /\ view'.stage = view.stage
    BY <1>1, <1>2 DEF View
  <1>6. Sends(call)
    BY <1>1, <1>2, <1>3, <1>4, <1>5 DEF Sends
  <1>7. CallFits(call)'
    BY <1>1, <1>4, <1>5 DEF CallFits, Replied, Terminal
  <1>8. QED
    BY <1>1, <1>2, <1>4, <1>5, <1>6, <1>7, CallKeeps

LEMMA PressedFacts ==
  ASSUME Types, PressInv
  PROVE  /\ Cardinality(Pressed) \in Nat /\ Pressed \subseteq Key
         /\ Pressed = 1..Cardinality(Pressed) /\ MaxPresses \in Nat
         /\ Pressed # Key => Cardinality(Pressed) + 1 \in Key
  <1>1. MaxPresses \in Nat /\ Pressed \subseteq Key /\ Pressed = 1..Cardinality(Pressed)
    BY UiBoundAssumption DEF Pressed, PressInv
  <1>2. IsFiniteSet(Key)
    BY <1>1, FS_Interval DEF Key
  <1>3. Cardinality(Pressed) \in Nat
    BY <1>1, <1>2, FS_Subset, FS_CardinalityType
  <1>4. ASSUME Pressed # Key
        PROVE  Cardinality(Pressed) + 1 \in Key
    <2> DEFINE n == Cardinality(Pressed)
    <2>1. n \in Nat /\ Pressed = 1..n
      BY <1>1, <1>3
    <2> HIDE DEF n
    <2>2. n <= MaxPresses
      BY <1>1, <2>1 DEF Key
    <2>3. n # MaxPresses
      BY <1>4, <2>1 DEF Key
    <2>4. n + 1 \in Key
      BY <1>1, <2>1, <2>2, <2>3 DEF Key
    <2>5. QED
      BY <2>4 DEF n
  <1>5. QED
    BY <1>1, <1>3, <1>4

LEMMA NextOf ==
  ASSUME NEW n \in Nat, NEW k, k = n + 1
  PROVE  k \in Int /\ ~(1 > k) /\ (1..n) \cup {k} = 1..k /\ k \notin 1..n /\ k - 1 + 1 = k
  OBVIOUS

LEMMA PressKeeps ==
  ASSUME UiInv, NEW text \in Text, Press(text)
  PROVE  UiInv'
  <1>1. Types /\ CoreInv /\ PressInv /\ ViewInv /\ OrderInv /\ view \in View
    BY DEF UiInv, Types
  <1>2. /\ view.booted = "yes" /\ view.stage = "" /\ Pressed # Key /\ view.job = None
        /\ backend.active = None
    BY <1>1 DEF Press, ViewInv
  <1>3. PICK n : n \in Nat /\ n = Cardinality(Pressed) /\ Pressed = 1..n /\ n + 1 \in Key
    BY <1>1, <1>2, PressedFacts
  <1>4. PICK k : k = n + 1 /\ k \in Key
    BY <1>3
  <1> DEFINE seen == [network |-> view.network, id |-> text.id, switching |-> Switching]
  <1>5. PICK call : call = Ask("request", k, text)
    OBVIOUS
  <1>6. /\ press' = [press EXCEPT ![k] = seen] /\ pipe' = Append(pipe, call)
        /\ view' = [view EXCEPT !.attempt = k, !.text = text, !.stage = "sending",
                      !.cancelRequested = FALSE, !.shown = "none", !.of = k]
        /\ UNCHANGED <<core, backend, unheard>>
    BY <1>3, <1>4, <1>5 DEF Press, Send
  <1>7. /\ call \in Call /\ call.op = "request" /\ call.key = k /\ call.arg = text
        /\ call.code = "pending"
    BY <1>4, <1>5, AskFacts DEF Ops, Arg
  <1>8. /\ view' \in View /\ view'.booted = "yes" /\ view'.job = None
        /\ view'.network = view.network /\ view'.attempt = k /\ view'.text = text
        /\ view'.stage = "sending" /\ view'.shown = "none" /\ view'.of = k
    BY <1>1, <1>2, <1>4, <1>6 DEF View
  <1>9. Switching \in BOOLEAN
    BY DEF Switching
  <1>10. seen \in Seen /\ seen.network = view.network /\ seen.id = text.id
    BY <1>1, <1>9, ViewFacts DEF Seen, Text
  <1>24. Switching => seen.switching
    <2>1. seen.switching = Switching
      OBVIOUS
    <2>2. QED
      BY <2>1, Zenon
  <1>11. seen # NoPress
    <2>1. seen.network \in Network
      BY <1>1, <1>10, ViewFacts
    <2>2. NoPress.network = Off
      BY DEF NoPress
    <2>3. QED
      BY <1>10, <2>1, <2>2, NetworkAssumption
  <1> HIDE DEF seen
  <1>12. /\ press' \in [Key -> Seen \cup {NoPress}] /\ press'[k] = seen
         /\ \A q \in Key \ {k} : press'[q] = press[q]
    BY <1>1, <1>4, <1>6, <1>10 DEF Types
  <1>13. Pressed' = Pressed \cup {k}
    BY <1>4, <1>11, <1>12 DEF Pressed
  <1>14. Pressed' = 1..k /\ Cardinality(Pressed)' = k
    <2>1. k \in Int /\ ~(1 > k) /\ (1..n) \cup {k} = 1..k /\ k - 1 + 1 = k
      BY <1>3, <1>4, NextOf
    <2>2. Pressed' = 1..k
      BY <1>3, <1>13, <2>1
    <2>3. Cardinality(1..k) = k - 1 + 1
      BY <2>1, FS_Interval
    <2>4. QED
      BY <2>1, <2>2, <2>3
  <1>15. k \notin Started /\ k \notin Pressed
    <2>1. k \notin 1..n
      BY <1>3, <1>4, NextOf
    <2>2. k \notin Pressed
      BY <1>3, <2>1
    <2>3. QED
      BY <1>1, <2>2 DEF PressInv, OneJobPerPress
  <1>16. Sends(call)
    BY <1>1, <1>2, <1>6, <1>7, <1>8 DEF Sends
  <1>17. CallFits(call)'
    BY <1>7, <1>8 DEF CallFits, Replied
  <1>18. Types' /\ CoreInv' /\ PipeInv' /\ OrderInv' /\ Grows /\ Started' = Started
    BY <1>12, <1>16, <1>17, SendKeeps
  <1>19. Switching' <=> Switching
    BY <1>1, <1>6, <1>7, SendFacts DEF Switching
  <1>20. ViewInv'
    <2>1. Trying' /\ view'.attempt \in Pressed' /\ view'.attempt = Cardinality(Pressed)'
      BY <1>8, <1>14, <1>13 DEF Trying
    <2>2. view'.text.id = press'[view'.attempt].id
      BY <1>8, <1>10, <1>12
    <2>3. press'[k].switching \/ (press'[k].network = backend'.network /\ ~Switching')
      <3>1. CASE Switching
        BY <1>12, <1>24, <3>1
      <3>2. CASE ~Switching
        BY <1>1, <1>2, <1>6, <1>10, <1>12, <1>19, <3>2 DEF OrderInv
      <3>3. QED
        BY <3>1, <3>2
    <2>4. backend'.active = None /\ view'.attempt \notin Started'
      <3>1. k \notin Started'
        BY <1>15, <1>18
      <3>2. QED
        BY <1>2, <1>6, <1>8, <3>1
    <2>5. QED
      BY <1>8, <2>1, <2>2, <2>3, <2>4 DEF ViewInv
  <1>21. PanelInv'
    BY <1>8 DEF PanelInv, PanelIsOfOwnPress, PanelIsTrue
  <1>22. PressInv'
    <2>1. \A q \in Started : q \in Pressed' /\ press'[q] = press[q] /\ core'.job[q] = core.job[q]
      BY <1>1, <1>6, <1>12, <1>13, <1>15, JobFacts DEF PressInv, OneJobPerPress
    <2>2. OneJobPerPress'
      BY <1>1, <1>18, <2>1 DEF PressInv, OneJobPerPress
    <2>3. RunsWhereShown'
      BY <1>1, <1>6, <1>18, <2>1 DEF PressInv, RunsWhereShown
    <2>4. QED
      BY <1>1, <1>6, <1>14, <2>2, <2>3 DEF PressInv
  <1>23. QED
    BY <1>18, <1>20, <1>21, <1>22 DEF UiInv

\* No call is under way for a view that has not begun, or is closed.
LEMMA NoCalls ==
  ASSUME UiInv, view.booted \in {"no", "closed"}
  PROVE  pipe = <<>> /\ DOMAIN pipe = {}
  <1>1. \A i \in DOMAIN pipe : FALSE
    BY DEF UiInv, PipeInv, CallFits
  <1>2. QED
    BY <1>1, PipeFacts DEF UiInv

\* A view that has not begun says nothing of the core.
LEMMA BlankKeeps ==
  ASSUME view' \in View, view'.booted \in {"no", "asked", "closed"},
         view' = [FreshView EXCEPT !.booted = view'.booted]
  PROVE  ViewInv' /\ PanelInv'
  <1>1. /\ view'.stage = "" /\ view'.job = None /\ view'.attempt = None /\ view'.shown = "none"
    BY FreshFacts DEF View
  <1>2. ViewInv'
    <2>1. FreshView' = FreshView
      BY DEF FreshView, AnyText, Text, Plausible
    <2>2. QED
      BY <1>1, <2>1 DEF ViewInv, Trying
  <1>3. QED
    BY <1>1, <1>2 DEF PanelInv, PanelIsOfOwnPress, PanelIsTrue

LEMMA BeginKeeps ==
  ASSUME UiInv, BeginBootstrap
  PROVE  UiInv'
  <1>1. Types /\ ViewInv /\ view.booted = "no" /\ CoreInv /\ PressInv
    BY DEF UiInv, BeginBootstrap
  <1>2. PICK call : call = Ask("bootstrap", None, None)
    OBVIOUS
  <1>3. call \in Call /\ call.op = "bootstrap" /\ call.code = "pending"
    BY <1>2, AskFacts DEF Ops, Arg
  <1>4. /\ pipe' = Append(pipe, call) /\ view' = [view EXCEPT !.booted = "asked"]
        /\ UNCHANGED <<core, backend, press, unheard>>
    BY <1>2 DEF BeginBootstrap, Send, ViewStep
  <1>5. /\ view' \in View /\ view'.booted = "asked"
        /\ view' = [FreshView EXCEPT !.booted = view'.booted]
    BY <1>1, <1>4, FreshFacts DEF ViewInv, View, Types
  <1>6. ViewInv' /\ PanelInv'
    BY <1>5, BlankKeeps
  <1>7. Len(pipe) = 0 /\ DOMAIN pipe = {}
    BY <1>1, NoCalls, PipeFacts
  <1>8. pipe' \in Seq(Call) /\ DOMAIN pipe' = {1} /\ pipe'[1] = call
    BY <1>1, <1>3, <1>4, <1>7, SendFacts
  <1>9. CallFits(call)'
    BY <1>3, <1>5 DEF CallFits, Replied
  <1>10. PipeInv'
    BY <1>8, <1>9, PipeOf
  <1>11. OrderInv'
    BY <1>3, <1>5, <1>8 DEF OrderInv, Single, Replied
  <1>12. PressInv' /\ CoreStays
    BY <1>1, <1>4, PressOfView, SameCore
  <1>13. Types'
    BY <1>1, <1>3, <1>4, <1>5, <1>8 DEF Types
  <1>14. QED
    BY <1>6, <1>10, <1>11, <1>12, <1>13 DEF UiInv, CoreStays

-----------------------------------------------------------------------------
(* The view takes the answer to its first call. *)

\* The rest of the calls, and the acknowledgement the view may send.
Rest(i) == i + 1 \in DOMAIN pipe /\ i + 1 > 1 /\ pipe'[i] = pipe[i + 1]
Sent(i) == pipe'[i].op = "ack" /\ pipe'[i].code = "pending" /\ \A j \in DOMAIN pipe' : j <= i
Taken ==
  /\ pipe # <<>>
  /\ \/ pipe' = Tail(pipe)
     \/ \E call \in Call :
          call.op = "ack" /\ call.code = "pending" /\ pipe' = Append(Tail(pipe), call)
  /\ view' \in View /\ UNCHANGED <<core, backend, press, unheard>>

LEMMA TakenFacts ==
  ASSUME Types, Taken
  PROVE  /\ Reply = pipe[1] /\ 1 \in DOMAIN pipe /\ pipe[1] \in Call
         /\ pipe' \in Seq(Call) /\ DOMAIN pipe' \subseteq Nat /\ DOMAIN pipe \subseteq Nat
         /\ \A i \in DOMAIN pipe' : Rest(i) \/ Sent(i)
         /\ \A i \in DOMAIN pipe \ {1} :
              i > 1 /\ i - 1 \in DOMAIN pipe' /\ pipe'[i - 1] = pipe[i]
  <1>1. PICK rest : rest = Tail(pipe)
    OBVIOUS
  <1>2. /\ pipe \in Seq(Call) /\ Len(pipe) \in Nat \ {0} /\ DOMAIN pipe = 1..Len(pipe)
        /\ \A i \in DOMAIN pipe : pipe[i] \in Call
    BY PipeFacts DEF Taken, Types
  <1>3. /\ rest \in Seq(Call) /\ Len(rest) = Len(pipe) - 1
        /\ \A i \in 1..Len(rest) : rest[i] = pipe[i + 1]
    BY <1>1, <1>2, HeadTailProperties DEF Taken
  <1>4. Reply = pipe[1] /\ 1 \in DOMAIN pipe /\ pipe[1] \in Call
    BY <1>2 DEF Reply
  <1>5. CASE pipe' = rest
    <2>1. DOMAIN pipe' = 1..(Len(pipe) - 1)
      BY <1>3, <1>5, LenProperties
    <2>2. QED
      BY <1>2, <1>3, <1>4, <1>5, <2>1 DEF Rest
  <1>6. CASE \E call \in Call :
               call.op = "ack" /\ call.code = "pending" /\ pipe' = Append(rest, call)
    <2>1. PICK call : call \in Call /\ call.op = "ack" /\ call.code = "pending"
                      /\ pipe' = Append(rest, call)
      BY <1>6
    <2>2. /\ pipe' \in Seq(Call) /\ Len(pipe') = Len(rest) + 1
          /\ \A i \in 1..Len(rest) : pipe'[i] = rest[i]
          /\ pipe'[Len(rest) + 1] = call
      BY <1>3, <2>1, AppendProperties
    <2>3. Len(pipe') = Len(pipe) /\ Len(rest) + 1 = Len(pipe)
      BY <1>2, <1>3, <2>2
    <2>4. DOMAIN pipe' = 1..Len(pipe)
      BY <2>2, <2>3, LenProperties
    <2>5. \A i \in 1..(Len(pipe) - 1) : pipe'[i] = pipe[i + 1]
      BY <1>2, <1>3, <2>2
    <2>6. \A i \in 1..(Len(pipe) - 1) : Rest(i)
      BY <1>2, <2>5 DEF Rest
    <2>7. Sent(Len(pipe))
      <3>1. pipe'[Len(pipe)] = call
        BY <2>2, <2>3
      <3>2. \A j \in DOMAIN pipe' : j <= Len(pipe)
        BY <1>2, <2>4
      <3>3. QED
        BY <2>1, <3>1, <3>2 DEF Sent
    <2>8. \A i \in DOMAIN pipe' : i \in 1..(Len(pipe) - 1) \/ i = Len(pipe)
      BY <1>2, <2>4
    <2>9. \A i \in DOMAIN pipe \ {1} :
            i > 1 /\ i - 1 \in DOMAIN pipe' /\ pipe'[i - 1] = pipe[i]
      BY <1>2, <2>4, <2>5
    <2>10. QED
      BY <1>2, <1>4, <2>2, <2>4, <2>6, <2>7, <2>8, <2>9
  <1>7. QED
    BY <1>1, <1>5, <1>6 DEF Taken

\* What taking an answer leaves as it is.
LEMMA TakenKeeps ==
  ASSUME UiInv, Taken
  PROVE  /\ Types' /\ CoreInv' /\ PressInv' /\ Grows /\ Started' = Started
         /\ OrderInv!1' /\ OrderInv!2' /\ OrderInv!3' /\ OrderInv!4'
  <1>1. Types /\ CoreInv /\ OrderInv
    BY DEF UiInv
  <1>2. /\ 1 \in DOMAIN pipe /\ pipe' \in Seq(Call)
        /\ DOMAIN pipe' \subseteq Nat /\ DOMAIN pipe \subseteq Nat
        /\ \A i \in DOMAIN pipe' : Rest(i) \/ Sent(i)
        /\ \A i \in DOMAIN pipe \ {1} :
             i > 1 /\ i - 1 \in DOMAIN pipe' /\ pipe'[i - 1] = pipe[i]
    BY <1>1, TakenFacts
  <1>3. core' = core /\ backend' = backend /\ press' = press /\ unheard' = unheard
        /\ view' \in View
    BY DEF Taken
  <1>4. PressInv' /\ CoreStays /\ Started' = Started
    BY <1>1, <1>3, PressOfView, SameCore
  <1>5. Types'
    <2>1. \A i \in DOMAIN pipe' : pipe'[i].op = "configure" => pipe'[i].arg \in Network
      BY <1>1, <1>2 DEF Types, Rest, Sent
    <2>2. QED
      BY <1>1, <1>2, <1>3, <2>1 DEF Types
  <1>6. OrderInv!1'
    <2> SUFFICES ASSUME NEW i \in DOMAIN pipe', NEW j \in DOMAIN pipe', i < j,
                        pipe'[i].code = "pending"
                 PROVE  pipe'[j].code \in {"pending", "lost"}
      OBVIOUS
    <2>1. i \in Nat /\ j \in Nat
      BY <1>2
    <2>2. Rest(i)
      BY <1>2, <2>1 DEF Sent
    <2>3. CASE Rest(j)
      BY <1>1, <2>1, <2>2, <2>3 DEF OrderInv, Rest
    <2>4. CASE Sent(j)
      BY <2>4 DEF Sent
    <2>5. QED
      BY <1>2, <2>3, <2>4
  <1>7. \A op : op # "ack" /\ Single(op) => Single(op)'
    <2> SUFFICES ASSUME NEW op, op # "ack", Single(op), NEW i \in DOMAIN pipe',
                        NEW j \in DOMAIN pipe', pipe'[i].op = op, pipe'[j].op = op
                 PROVE  i = j
      BY DEF Single
    <2>1. Rest(i) /\ Rest(j) /\ i \in Nat /\ j \in Nat
      BY <1>2 DEF Sent
    <2>2. i + 1 = j + 1
      BY <2>1 DEF Single, Rest
    <2>3. QED
      BY <2>1, <2>2
  <1>8. Single("request") /\ Single("bootstrap")
    BY <1>1 DEF OrderInv
  <1>9. Single("request")' /\ Single("bootstrap")'
    BY <1>7, <1>8
  <1>10. OrderInv!3'
    <2> SUFFICES ASSUME NEW i \in DOMAIN pipe', NEW j \in DOMAIN pipe', pipe'[i].op = "ack",
                        pipe'[j].op = "ack", pipe'[i].code = "ok", pipe'[j].code = "ok"
                 PROVE  i = j
      OBVIOUS
    <2>1. Rest(i) /\ Rest(j) /\ i \in Nat /\ j \in Nat
      BY <1>2 DEF Sent
    <2>2. i + 1 = j + 1
      BY <1>1, <2>1 DEF OrderInv, Rest
    <2>3. QED
      BY <2>1, <2>2
  <1>11. OrderInv!4'
    <2> SUFFICES ASSUME NEW i \in DOMAIN pipe', pipe'[i].op = "configure", Replied(pipe'[i])
                 PROVE  \/ pipe'[i].network = backend'.network
                        \/ \E j \in DOMAIN pipe' : i < j /\ pipe'[j].op = "configure"
      BY DEF Replied
    <2>1. Rest(i) /\ i \in Nat
      BY <1>2 DEF Sent
    <2>2. i + 1 \in DOMAIN pipe /\ pipe[i + 1] = pipe'[i]
      BY <2>1 DEF Rest
    <2>3. CASE pipe[i + 1].network = backend.network
      BY <1>3, <2>2, <2>3
    <2>4. CASE \E j \in DOMAIN pipe : i + 1 < j /\ pipe[j].op = "configure"
      <3>1. PICK j : j \in DOMAIN pipe /\ i + 1 < j /\ pipe[j].op = "configure"
        BY <2>4
      <3>2. j \in Nat /\ j # 1 /\ i < j - 1
        BY <1>2, <2>1, <3>1
      <3>3. j - 1 \in DOMAIN pipe' /\ pipe'[j - 1].op = "configure"
        BY <1>2, <3>1, <3>2
      <3>4. QED
        BY <3>2, <3>3
    <2>5. QED
      BY <1>1, <2>2, <2>3, <2>4 DEF OrderInv
  <1>12. QED
    BY <1>4, <1>5, <1>6, <1>9, <1>10, <1>11 DEF CoreStays

\* The rest of the calls fit the view that has taken its answer.
LEMMA TakenFit ==
  ASSUME UiInv, Taken, view'.booted = view.booted,
         \A i \in DOMAIN pipe \ {1} :
           pipe[i].op = "request" => /\ view'.stage = "sending" /\ view'.attempt = view.attempt
                                     /\ view'.text = view.text,
         \A i \in DOMAIN pipe \ {1} :
           pipe[i].op = "ack" =>
             /\ pipe[i].key = view'.job => view'.attempt = view'.job
             /\ pipe[i].key = view'.job \/ Released(pipe[i].key)
             /\ pipe[i].code = "ok" => pipe[i].key = view'.job,
         \A i \in DOMAIN pipe' : Rest(i) \/ \E call : call = pipe'[i] /\ CallFits(call)'
  PROVE  PipeInv'
  <1>1. Types /\ PipeInv
    BY DEF UiInv
  <1>2. DOMAIN pipe \subseteq Nat
    BY <1>1, TakenFacts
  <1>3. core' = core /\ backend' = backend
    BY DEF Taken
  <1>4. ASSUME NEW i \in DOMAIN pipe', Rest(i)
        PROVE  \E call : call = pipe'[i] /\ CallFits(call)'
    <2>1. PICK j : j = i + 1 /\ j \in DOMAIN pipe \ {1} /\ pipe'[i] = pipe[j]
      BY <1>2, <1>4 DEF Rest
    <2>2. PICK call : call = pipe[j]
      OBVIOUS
    <2>3. CallFits(call)
      BY <1>1, <2>1, <2>2 DEF PipeInv
    <2>4. call.op = "request" => /\ view'.stage = "sending" /\ view'.attempt = view.attempt
                                 /\ view'.text = view.text
      BY <2>1, <2>2
    <2>5. call.op = "ack" =>
            /\ call.key = view'.job => view'.attempt = view'.job
            /\ call.key = view'.job \/ Released(call.key)
            /\ call.code = "ok" => call.key = view'.job
      BY <2>1, <2>2
    <2>6. CallFits(call)'
      BY <1>3, <2>3, <2>4, <2>5, FitStays
    <2>7. QED
      BY <2>1, <2>2, <2>6
  <1>5. QED
    BY <1>4, PipeOf

\* Only the answer to a configure changes whether one is under way.
LEMMA SwitchingStays ==
  ASSUME Types, Taken, pipe[1].op # "configure"
  PROVE  Switching' <=> Switching
  <1>1. /\ \A i \in DOMAIN pipe' : Rest(i) \/ Sent(i)
        /\ \A i \in DOMAIN pipe \ {1} : i - 1 \in DOMAIN pipe' /\ pipe'[i - 1] = pipe[i]
    BY TakenFacts
  <1>2. Switching' => Switching
    BY <1>1 DEF Switching, Rest, Sent
  <1>3. Switching => Switching'
    BY <1>1 DEF Switching
  <1>4. QED
    BY <1>2, <1>3

\* The answer to anything but a bootstrap reaches the view that asked.
LEMMA ToTheView ==
  ASSUME UiInv, pipe # <<>>, pipe[1].op # "bootstrap"
  PROVE  /\ view.booted = "yes" /\ CallFits(pipe[1])
         /\ \A i \in DOMAIN pipe : CallFits(pipe[i])
  <1>1. 1 \in DOMAIN pipe
    BY PipeFacts DEF UiInv
  <1>2. QED
    BY <1>1 DEF UiInv, PipeInv, CallFits

LEMMA TailIsRest ==
  ASSUME Types, pipe # <<>>, pipe' = Tail(pipe)
  PROVE  \A i \in DOMAIN pipe' : Rest(i)
  BY TakeFacts DEF Rest

LEMMA RestOrLast ==
  ASSUME Types, pipe # <<>>, NEW call \in Call, pipe' = Append(Tail(pipe), call)
  PROVE  \A i \in DOMAIN pipe' : Rest(i) \/ pipe'[i] = call
  <1>1. PICK rest : rest = Tail(pipe)
    OBVIOUS
  <1>2. pipe \in Seq(Call) /\ Len(pipe) \in Nat \ {0} /\ DOMAIN pipe = 1..Len(pipe)
    BY PipeFacts DEF Types
  <1>3. /\ rest \in Seq(Call) /\ Len(rest) = Len(pipe) - 1
        /\ \A i \in 1..Len(rest) : rest[i] = pipe[i + 1]
    BY <1>1, <1>2, HeadTailProperties
  <1>4. /\ pipe' \in Seq(Call) /\ Len(pipe') = Len(rest) + 1
        /\ \A i \in 1..Len(rest) : pipe'[i] = rest[i]
        /\ pipe'[Len(rest) + 1] = call
    BY <1>1, <1>3, AppendProperties
  <1>5. Len(rest) + 1 = Len(pipe)
    BY <1>2, <1>3
  <1>6. DOMAIN pipe' = 1..Len(pipe)
    BY <1>4, <1>5, LenProperties
  <1>7. \A i \in 1..(Len(pipe) - 1) : Rest(i)
    BY <1>2, <1>3, <1>4 DEF Rest
  <1>8. \A i \in DOMAIN pipe' : i \in 1..(Len(pipe) - 1) \/ i = Len(pipe)
    BY <1>2, <1>6
  <1>9. QED
    BY <1>4, <1>5, <1>7, <1>8

\* What is left of an answer that changes nothing the view shows.
LEMMA TakenIdle ==
  ASSUME UiInv, pipe # <<>>, pipe[1].op \notin {"bootstrap", "configure"},
         pipe' = Tail(pipe), view' = view, UNCHANGED <<core, backend, press, unheard>>
  PROVE  UiInv'
  <1>1. Taken /\ Types /\ ViewInv /\ PanelInv /\ OrderInv
    BY DEF Taken, UiInv, Types
  <1>2. /\ Types' /\ CoreInv' /\ PressInv' /\ Grows /\ Started' = Started
        /\ OrderInv!1' /\ OrderInv!2' /\ OrderInv!3' /\ OrderInv!4'
    BY <1>1, TakenKeeps
  <1>3. view.booted = "yes" /\ \A i \in DOMAIN pipe : CallFits(pipe[i])
    BY ToTheView
  <1>4. Switching' <=> Switching
    BY <1>1, SwitchingStays
  <1>5. \A i \in DOMAIN pipe' : Rest(i)
    BY <1>1, TailIsRest
  <1>6. PipeInv'
    BY <1>1, <1>3, <1>5, TakenFit DEF CallFits
  <1>7. ViewInv'
    BY <1>3, <1>4, ViewStays
  <1>8. PanelInv'
    BY <1>1, <1>2, PanelStays DEF PanelInv
  <1>9. OrderInv!5'
    BY <1>1, <1>4 DEF OrderInv
  <1>10. QED
    BY <1>2, <1>6, <1>7, <1>8, <1>9 DEF UiInv, OrderInv

LEMMA CancelAnsweredKeeps ==
  ASSUME UiInv, CancelAnswered
  PROVE  UiInv'
  <1>1. /\ pipe # <<>> /\ Reply.op = "cancel" /\ pipe' = Tail(pipe) /\ view' = view
        /\ UNCHANGED <<core, backend, press, unheard>>
    BY DEF CancelAnswered, Answered, Take, ViewStep, Reply
  <1>2. Reply = pipe[1]
    BY DEF Reply
  <1>3. QED
    BY <1>1, <1>2, TakenIdle

LEMMA SelectAnsweredKeeps ==
  ASSUME UiInv, SelectAnswered
  PROVE  UiInv'
  <1>1. Types /\ ViewInv /\ PanelInv /\ OrderInv /\ view \in View
    BY DEF UiInv, Types
  <1>2. PICK r : r = pipe[1] /\ Reply = r
    BY DEF Reply
  <1>3. /\ pipe # <<>> /\ r.op = "configure" /\ r.code # "pending" /\ pipe' = Tail(pipe)
        /\ view' = [view EXCEPT
                      !.network = IF r.code = "lost" THEN backend.network ELSE r.network,
                      !.shown = IF r.code = "ok" THEN "none" ELSE @]
        /\ UNCHANGED <<core, backend, press, unheard>>
    BY <1>2 DEF SelectAnswered, Answered, Take, ViewStep, Reply
  <1>4. 1 \in DOMAIN pipe /\ r \in Call
    BY <1>1, <1>2, <1>3, PipeFacts
  <1>5. /\ view' \in View /\ view'.booted = view.booted /\ view'.job = view.job
        /\ view'.attempt = view.attempt /\ view'.text = view.text /\ view'.stage = view.stage
        /\ view'.of = view.of /\ view'.shown \in {view.shown, "none"}
        /\ view'.network = IF r.code = "lost" THEN backend.network ELSE r.network
    <2>1. r.network \in Network /\ backend.network \in Network
      BY <1>1, <1>4 DEF Call, Types, Backend
    <2>2. QED
      BY <1>1, <1>3, <2>1 DEF View
  <1>6. Taken
    BY <1>3, <1>5 DEF Taken
  <1>7. /\ Types' /\ CoreInv' /\ PressInv' /\ Grows /\ Started' = Started
        /\ OrderInv!1' /\ OrderInv!2' /\ OrderInv!3' /\ OrderInv!4'
    BY <1>6, TakenKeeps
  <1>8. view.booted = "yes" /\ \A i \in DOMAIN pipe : CallFits(pipe[i])
    BY <1>2, <1>3, ToTheView
  <1>9. Switching
    BY <1>2, <1>3, <1>4 DEF Switching
  <1>10. ViewInv'
    BY <1>3, <1>5, <1>8, <1>9, ViewStays
  <1>11. PanelInv'
    <2>1. CASE view'.shown = "none"
      BY <2>1 DEF PanelInv, PanelIsOfOwnPress, PanelIsTrue
    <2>2. CASE view'.shown = view.shown
      BY <1>1, <1>3, <1>5, <1>7, <2>2, PanelStays DEF PanelInv
    <2>3. QED
      BY <1>5, <2>1, <2>2
  <1>12. PipeInv'
    <2>1. \A i \in DOMAIN pipe' : Rest(i)
      BY <1>1, <1>3, TailIsRest
    <2>2. QED
      BY <1>5, <1>6, <1>8, <2>1, TakenFit DEF CallFits
  <1>13. OrderInv!5'
    <2> SUFFICES ASSUME ~Switching'
                 PROVE  view'.network = backend'.network
      OBVIOUS
    <2>1. CASE r.code = "lost"
      BY <1>3, <1>5, <2>1
    <2>2. CASE r.code # "lost"
      <3>1. \A j \in DOMAIN pipe \ {1} : pipe[j].op # "configure"
        BY <1>1, <1>6, TakenFacts DEF Switching
      <3>2. DOMAIN pipe \subseteq Nat
        BY <1>1, PipeFacts
      <3>3. r.network = backend.network
        BY <1>1, <1>2, <1>3, <1>4, <2>2, <3>1, <3>2 DEF OrderInv, Replied
      <3>4. QED
        BY <1>3, <1>5, <2>2, <3>3
    <2>3. QED
      BY <2>1, <2>2
  <1>14. QED
    BY <1>7, <1>10, <1>11, <1>12, <1>13 DEF UiInv, OrderInv

LEMMA BootstrapAnsweredKeeps ==
  ASSUME UiInv, BootstrapAnswered
  PROVE  UiInv'
  <1>1. Types /\ ViewInv /\ PanelInv /\ OrderInv /\ PipeInv /\ view \in View /\ backend \in Backend
    BY DEF UiInv, Types
  <1>2. PICK r : r = pipe[1] /\ Reply = r
    BY DEF Reply
  <1>3. /\ pipe # <<>> /\ r.op = "bootstrap" /\ r.code # "pending" /\ pipe' = Tail(pipe)
        /\ view' = IF r.code # "ok" THEN view
                   ELSE [view EXCEPT !.booted = "yes", !.network = r.network, !.job = r.active,
                           !.stage = IF r.active = None THEN "" ELSE "running"]
        /\ UNCHANGED <<core, backend, press, unheard>>
    BY <1>2 DEF BootstrapAnswered, Answered, Take, ViewStep, Reply
  <1>4. 1 \in DOMAIN pipe /\ r \in Call
    BY <1>1, <1>2, <1>3, PipeFacts
  <1>5. /\ view.booted = "asked"
        /\ r.code # "lost" => r.network = backend.network /\ r.active = backend.active
    BY <1>1, <1>2, <1>3, <1>4 DEF PipeInv, CallFits, Replied
  <1>6. view.stage = "" /\ view.job = None /\ view.attempt = None /\ view.shown = "none"
    BY <1>1, <1>5, BlankView
  <1>7. DOMAIN pipe = {1}
    BY <1>1, <1>2, <1>3, <1>4, <1>5 DEF PipeInv, CallFits, OrderInv, Single
  <1>8. DOMAIN pipe' = {}
    <2>1. /\ Len(pipe) \in Nat /\ 1..Len(pipe) = {1}
          /\ DOMAIN pipe' = 1..(Len(pipe) - 1)
      BY <1>1, <1>3, <1>7, PipeFacts, TakeFacts
    <2>2. 1 \in 1..Len(pipe) /\ Len(pipe) \in 1..Len(pipe)
      BY <2>1
    <2>3. Len(pipe) = 1
      BY <2>1, <2>2
    <2>4. QED
      BY <2>1, <2>3
  <1>9. PipeInv'
    BY <1>8 DEF PipeInv
  <1>10. backend.network \in Network /\ backend.active \in Key \cup {None}
    BY <1>1 DEF Backend
  <1>11. CASE r.code # "ok"
    <2>1. view' = view
      BY <1>3, <1>11
    <2>2. Taken
      BY <1>1, <1>3, <2>1 DEF Taken
    <2>3. /\ Types' /\ CoreInv' /\ PressInv' /\ Grows /\ Started' = Started
          /\ OrderInv!1' /\ OrderInv!2' /\ OrderInv!3' /\ OrderInv!4'
      BY <2>2, TakenKeeps
    <2>4. view' = [FreshView EXCEPT !.booted = view'.booted]
      BY <1>1, <1>5, <2>1 DEF ViewInv
    <2>5. ViewInv' /\ PanelInv'
      BY <1>1, <1>5, <2>1, <2>4, BlankKeeps
    <2>6. OrderInv!5'
      BY <1>5, <2>1
    <2>7. QED
      BY <1>9, <2>3, <2>5, <2>6 DEF UiInv, OrderInv
  <1>12. CASE r.code = "ok"
    <2>1. /\ view' \in View /\ view'.booted = "yes" /\ view'.network = backend.network
          /\ view'.job = backend.active /\ view'.attempt = None /\ view'.shown = "none"
          /\ view'.stage = IF backend.active = None THEN "" ELSE "running"
      BY <1>1, <1>3, <1>5, <1>6, <1>10, <1>12 DEF View
    <2>2. Taken
      BY <1>3, <2>1 DEF Taken
    <2>3. /\ Types' /\ CoreInv' /\ PressInv' /\ Grows /\ Started' = Started
          /\ OrderInv!1' /\ OrderInv!2' /\ OrderInv!3' /\ OrderInv!4'
      BY <2>2, TakenKeeps
    <2>4. ViewInv'
      <3>1. ~Trying'
        BY <2>1 DEF Trying
      <3>2. view'.job # None <=> view'.stage = "running"
        BY <2>1
      <3>6. backend'.active = backend.active
        BY <1>3
      <3>7. view'.stage = "" <=> backend.active = None
        BY <2>1
      <3>3. view'.stage = "" => backend'.active = None
        BY <3>6, <3>7
      <3>4. view'.stage = "running" =>
              /\ view'.attempt \in {None, view'.job}
              /\ view'.attempt # view'.job
              /\ backend'.active \in {None, view'.job}
        BY <2>1, <3>2, <3>6
      <3>5. QED
        BY <2>1, <3>1, <3>2, <3>3, <3>4 DEF ViewInv
    <2>5. PanelInv'
      BY <2>1 DEF PanelInv, PanelIsOfOwnPress, PanelIsTrue
    <2>6. OrderInv!5'
      BY <1>3, <2>1
    <2>7. QED
      BY <1>9, <2>3, <2>4, <2>5, <2>6 DEF UiInv, OrderInv
  <1>13. QED
    BY <1>11, <1>12

\* What the view knows of a request while it waits for the answer.
LEMMA RequestAtHand ==
  ASSUME UiInv, pipe # <<>>, pipe[1].op = "request"
  PROVE  /\ Types /\ view.booted = "yes" /\ view.stage = "sending" /\ Trying /\ view.job = None
         /\ view.attempt \in Key /\ view.attempt \in Pressed /\ view.of = view.attempt
         /\ pipe[1].key = view.attempt /\ pipe[1] \in Call
         /\ backend.active \in {None, view.attempt}
         /\ view.attempt \in Started => backend.active = view.attempt \/ "request" \in unheard
         /\ view.shown = "none"
         /\ Replied(pipe[1]) /\ pipe[1].code # "ok" => pipe[1].active = backend.active
         /\ Replied(pipe[1]) /\ pipe[1].code \notin {"ok", "drop_in_progress"} =>
              pipe[1].active = None
         /\ \A i \in DOMAIN pipe \ {1} : pipe[i].op # "request"
         /\ \A i \in DOMAIN pipe : pipe[i].op = "ack" =>
              pipe[i].key # None /\ Released(pipe[i].key) /\ pipe[i].code # "ok"
  <1>1. Types /\ ViewInv /\ PanelInv /\ OrderInv
    BY DEF UiInv
  <1>2. view.booted = "yes" /\ CallFits(pipe[1]) /\ \A i \in DOMAIN pipe : CallFits(pipe[i])
    BY ToTheView
  <1>3. 1 \in DOMAIN pipe /\ pipe[1] \in Call
    BY <1>1, PipeFacts
  <1>4. /\ view.stage = "sending" /\ pipe[1].key = view.attempt
        /\ Replied(pipe[1]) /\ pipe[1].code # "ok" => pipe[1].active = backend.active
        /\ Replied(pipe[1]) /\ pipe[1].code \notin {"ok", "drop_in_progress"} =>
             pipe[1].active = None
    BY <1>2 DEF CallFits
  <1>5. Trying /\ view.job = None /\ view.shown = "none"
    BY <1>1, <1>4 DEF Trying, ViewInv, PanelInv
  <1>6. /\ view.attempt \in Pressed /\ view.of = view.attempt
        /\ backend.active \in {None, view.attempt}
        /\ view.attempt \in Started => backend.active = view.attempt \/ "request" \in unheard
    BY <1>1, <1>5 DEF ViewInv
  <1>7. view.attempt \in Key
    BY <1>6 DEF Pressed
  <1>8. \A i \in DOMAIN pipe \ {1} : pipe[i].op # "request"
    BY <1>1, <1>3 DEF OrderInv, Single
  <1>9. \A i \in DOMAIN pipe : pipe[i].op = "ack" =>
          pipe[i].key # None /\ Released(pipe[i].key) /\ pipe[i].code # "ok"
    BY <1>1, <1>2, <1>5, JobFacts, NoneIsNoKey DEF CallFits
  <1>10. QED
    BY <1>1, <1>2, <1>3, <1>4, <1>5, <1>6, <1>7, <1>8, <1>9

LEMMA RequestAnsweredKeeps ==
  ASSUME UiInv, RequestAnswered
  PROVE  UiInv'
  <1>1. PICK r : r = pipe[1] /\ Reply = r
    BY DEF Reply
  <1>2. /\ pipe # <<>> /\ r.op = "request" /\ r.code # "pending" /\ pipe' = Tail(pipe)
        /\ UNCHANGED <<core, backend, press, unheard>>
        /\ view' = IF r.code = "ok" THEN [view EXCEPT !.job = r.key, !.stage = "running"]
                   ELSE IF r.code = "lost" THEN [view EXCEPT !.stage = "interrupted"]
                   ELSE IF r.code = "drop_in_progress" /\ r.active # None
                   THEN [view EXCEPT !.job = r.active, !.stage = "running"]
                   ELSE [Ended("failure") EXCEPT !.polling = view.polling]
    BY <1>1 DEF RequestAnswered, Answered, Take, ViewStep, Reply
  <1>3. /\ Types /\ view.booted = "yes" /\ view.stage = "sending" /\ Trying /\ view.job = None
        /\ view.attempt \in Key /\ view.attempt \in Pressed /\ view.of = view.attempt
        /\ r.key = view.attempt /\ r \in Call
        /\ backend.active \in {None, view.attempt}
        /\ view.attempt \in Started => backend.active = view.attempt \/ "request" \in unheard
        /\ view.shown = "none"
        /\ Replied(r) /\ r.code # "ok" => r.active = backend.active
        /\ Replied(r) /\ r.code \notin {"ok", "drop_in_progress"} => r.active = None
        /\ \A i \in DOMAIN pipe \ {1} : pipe[i].op # "request"
        /\ \A i \in DOMAIN pipe : pipe[i].op = "ack" =>
             pipe[i].key # None /\ Released(pipe[i].key) /\ pipe[i].code # "ok"
    BY <1>1, <1>2, RequestAtHand
  <1>4. view \in View /\ view.attempt # None /\ ViewInv /\ OrderInv
    BY <1>3, NoneIsNoKey DEF Types, UiInv
  <1>5. Started' = Started
    BY <1>2 DEF Started
  <1>6. \A i \in DOMAIN pipe' : Rest(i)
    BY <1>2, <1>3, TailIsRest
  <1>7. CASE view' = [view EXCEPT !.job = view.attempt, !.stage = "running"]
    <2>1. /\ view' \in View /\ view'.booted = "yes" /\ view'.job = view.attempt
          /\ view'.attempt = view.attempt /\ view'.of = view.of /\ view'.stage = "running"
          /\ view'.shown = "none" /\ view'.network = view.network
      BY <1>3, <1>4, <1>7 DEF View
    <2>2. Taken
      BY <1>2, <2>1 DEF Taken
    <2>3. ViewInv'
      BY <1>2, <1>3, <1>4, <2>1 DEF ViewInv, Trying
    <2>4. PanelInv'
      BY <2>1 DEF PanelInv, PanelIsOfOwnPress, PanelIsTrue
    <2>5. PipeInv'
      BY <1>3, <1>6, <2>1, <2>2, TakenFit
    <2>6. OrderInv!5'
      BY <1>1, <1>2, <1>3, <1>4, <2>1, <2>2, SwitchingStays DEF OrderInv
    <2>7. QED
      BY <2>2, <2>3, <2>4, <2>5, <2>6, TakenKeeps DEF UiInv, OrderInv
  <1>8. CASE view' = [view EXCEPT !.stage = "interrupted"]
    <2>1. /\ view' \in View /\ view'.booted = "yes" /\ view'.job = view.job
          /\ view'.attempt = view.attempt /\ view'.of = view.of /\ view'.stage = "interrupted"
          /\ view'.shown = "none" /\ view'.network = view.network /\ view'.text = view.text
      BY <1>3, <1>4, <1>8 DEF View
    <2>2. Taken
      BY <1>2, <2>1 DEF Taken
    <2>3. Switching' <=> Switching
      BY <1>1, <1>2, <1>3, <2>2, SwitchingStays
    <2>4. ViewInv'
      BY <1>2, <1>3, <2>1, <2>3, ViewStays
    <2>5. PanelInv'
      BY <2>1 DEF PanelInv, PanelIsOfOwnPress, PanelIsTrue
    <2>6. PipeInv'
      BY <1>3, <1>4, <1>6, <2>1, <2>2, NoneIsNoKey, TakenFit DEF CallFits, UiInv, PipeInv
    <2>7. OrderInv!5'
      BY <1>2, <1>3, <1>4, <2>1, <2>3 DEF OrderInv
    <2>8. QED
      BY <2>2, <2>4, <2>5, <2>6, <2>7, TakenKeeps DEF UiInv, OrderInv
  <1>9. CASE /\ view' = [Ended("failure") EXCEPT !.polling = view.polling]
             /\ backend.active = None
    <2>1. /\ view' \in View /\ view'.booted = "yes" /\ view'.job = None
          /\ view'.attempt = None /\ view'.of = view.of /\ view'.stage = ""
          /\ view'.shown = "failure" /\ view'.network = view.network
      BY <1>3, <1>4, <1>9, FreshFacts DEF View, Ended
    <2>2. Taken
      BY <1>2, <2>1 DEF Taken
    <2>3. ViewInv'
      BY <1>2, <1>9, <2>1 DEF ViewInv, Trying
    <2>4. PanelInv'
      <3>1. view.attempt \in Started => "request" \in unheard
        BY <1>3, <1>4, <1>9
      <3>4. unheard' = unheard /\ view'.of = view.attempt
        BY <1>2, <1>3, <2>1
      <3>2. view'.of \in Started' => {"request"} \cap unheard' # {}
        BY <1>5, <3>1, <3>4
      <3>3. QED
        BY <2>1, <3>2 DEF PanelInv, PanelIsOfOwnPress, PanelIsTrue
    <2>5. PipeInv'
      BY <1>3, <1>6, <2>1, <2>2, TakenFit
    <2>6. OrderInv!5'
      BY <1>1, <1>2, <1>3, <1>4, <2>1, <2>2, SwitchingStays DEF OrderInv
    <2>7. QED
      BY <2>2, <2>3, <2>4, <2>5, <2>6, TakenKeeps DEF UiInv, OrderInv
  <1>10. CASE r.code = "lost"
    BY <1>2, <1>8, <1>10
  <1>11. CASE r.code = "ok"
    BY <1>2, <1>3, <1>7, <1>11
  <1>12. CASE r.code \notin {"ok", "lost"}
    <2>1. Replied(r) /\ r.active = backend.active
      BY <1>2, <1>3, <1>12 DEF Replied
    <2>2. CASE r.code = "drop_in_progress" /\ r.active # None
      BY <1>2, <1>3, <1>7, <2>1, <2>2
    <2>3. CASE ~(r.code = "drop_in_progress" /\ r.active # None)
      <3>1. r.active = None
        BY <1>3, <1>12, <2>1, <2>3
      <3>2. view' = [Ended("failure") EXCEPT !.polling = view.polling]
        BY <1>2, <1>12, <2>3
      <3>3. QED
        BY <1>9, <2>1, <3>1, <3>2
    <2>4. QED
      BY <2>2, <2>3
  <1>13. QED
    BY <1>10, <1>11, <1>12

LEMMA StatusAnsweredKeeps ==
  ASSUME UiInv, StatusAnswered
  PROVE  UiInv'
  <1>1. Types /\ ViewInv /\ PanelInv /\ OrderInv /\ view \in View
    BY DEF UiInv, Types
  <1>2. PICK r : r = pipe[1] /\ Reply = r
    BY DEF Reply
  <1> DEFINE heard == r.key = view.job /\ r.code = "ok"
  <1>3. /\ pipe # <<>> /\ r.op = "status" /\ r.code # "pending"
        /\ UNCHANGED <<core, backend, press, unheard>>
    BY <1>2 DEF StatusAnswered, Answered, ViewStep, Reply
  <1>4. view' = [view EXCEPT !.polling = FALSE,
                   !.attempt = IF heard /\ @ = None THEN r.key ELSE @,
                   !.cancelRequested = IF heard /\ r.status \notin Terminal
                                       THEN r.status = "cancelling" ELSE @,
                   !.of = IF heard /\ view.attempt = None THEN r.key ELSE @]
    BY <1>2 DEF StatusAnswered, ViewStep, Reply
  <1>5. /\ heard /\ r.status \in Terminal =>
             pipe' = Append(Tail(pipe), Ask("ack", r.key, r.status))
        /\ ~(heard /\ r.status \in Terminal) => pipe' = Tail(pipe)
    BY <1>2 DEF StatusAnswered, Reply
  <1>6. 1 \in DOMAIN pipe /\ r \in Call
    BY <1>1, <1>2, <1>3, PipeFacts
  <1>7. view.booted = "yes" /\ \A i \in DOMAIN pipe : CallFits(pipe[i])
    BY <1>2, <1>3, ToTheView
  <1>8. /\ r.key \in Key
        /\ r.status \in Terminal => r.key \in Started /\ core.job[r.key].status = r.status
    BY <1>2, <1>3, <1>6, <1>7 DEF CallFits
  <1>9. heard => /\ view.job # None /\ view.stage = "running" /\ view.shown = "none"
                 /\ view.attempt = None \/ (view.attempt = view.job /\ view.of = view.job)
    BY <1>1, <1>8, NoneIsNoKey DEF ViewInv, PanelInv
  <1>10. heard \in BOOLEAN /\ (r.status = "cancelling") \in BOOLEAN
    OBVIOUS
  <1>11. /\ view' \in View /\ view'.booted = view.booted /\ view'.job = view.job
         /\ view'.text = view.text /\ view'.stage = view.stage
         /\ view'.shown = view.shown /\ view'.network = view.network
         /\ heard => view'.attempt = view.job /\ view'.of = view.job
         /\ ~heard => view'.attempt = view.attempt /\ view'.of = view.of
    <2>1. CASE heard
      <3>1. PICK a : a = (IF view.attempt = None THEN r.key ELSE view.attempt)
        OBVIOUS
      <3>2. PICK o : o = (IF view.attempt = None THEN r.key ELSE view.of)
        OBVIOUS
      <3>3. PICK c : c = (IF r.status \notin Terminal THEN r.status = "cancelling"
                          ELSE view.cancelRequested)
        OBVIOUS
      <3>4. a = view.job /\ o = view.job /\ a \in Key \cup {None} /\ o \in Key \cup {None}
        BY <1>8, <1>9, <2>1, <3>1, <3>2
      <3>5. c \in BOOLEAN
        <4>1. view.cancelRequested \in BOOLEAN
          BY <1>1 DEF View
        <4>2. QED
          BY <1>10, <3>3, <4>1, Zenon
      <3>6. view' = [view EXCEPT !.polling = FALSE, !.attempt = a, !.cancelRequested = c, !.of = o]
        BY <1>4, <2>1, <3>1, <3>2, <3>3, Zenon
      <3>7. QED
        BY <1>1, <2>1, <3>4, <3>5, <3>6 DEF View
    <2>2. CASE ~heard
      <3>1. view' = [view EXCEPT !.polling = FALSE]
        <4>1. view' = [view EXCEPT !.polling = FALSE, !.attempt = view.attempt,
                         !.cancelRequested = view.cancelRequested, !.of = view.of]
          BY <1>4, <2>2
        <4>2. QED
          BY <1>1, <4>1 DEF View
      <3>2. QED
        BY <1>1, <2>2, <3>1 DEF View
    <2>3. QED
      BY <2>1, <2>2
  <1> HIDE DEF heard
  <1>12. PICK call : call = Ask("ack", r.key, r.status)
    OBVIOUS
  <1>13. r.status \in Terminal =>
           call \in Call /\ call.op = "ack" /\ call.code = "pending" /\ call.key = r.key
             /\ call.arg = r.status
    BY <1>8, <1>12, AskFacts DEF Ops, Arg
  <1>14. Taken
    BY <1>3, <1>5, <1>11, <1>12, <1>13 DEF Taken
  <1>15. Switching' <=> Switching
    BY <1>1, <1>2, <1>3, <1>14, SwitchingStays
  <1>16. Started' = Started /\ core' = core /\ backend' = backend
    BY <1>3 DEF Started
  <1>17. ViewInv'
    <2>1. CASE ~heard
      BY <1>3, <1>7, <1>11, <1>15, <2>1, ViewStays
    <2>2. CASE heard
      BY <1>1, <1>7, <1>9, <1>11, <1>16, <2>2 DEF ViewInv, Trying
    <2>3. QED
      BY <2>1, <2>2
  <1>18. Grows
    BY <1>14, TakenKeeps
  <1>19. PanelInv'
    <2>1. CASE ~heard
      BY <1>1, <1>3, <1>11, <1>16, <1>18, <2>1, PanelStays DEF PanelInv
    <2>2. CASE heard
      BY <1>9, <1>11, <2>2 DEF PanelInv, PanelIsOfOwnPress, PanelIsTrue
    <2>3. QED
      BY <2>1, <2>2
  <1>20. \A i \in DOMAIN pipe :
           /\ pipe[i].op = "request" => /\ view'.stage = "sending" /\ view'.attempt = view.attempt
                                        /\ view'.text = view.text
           /\ pipe[i].op = "ack" =>
                /\ pipe[i].key = view'.job => view'.attempt = view'.job
                /\ pipe[i].key = view'.job \/ Released(pipe[i].key)
                /\ pipe[i].code = "ok" => pipe[i].key = view'.job
    BY <1>7, <1>9, <1>11 DEF CallFits
  <1>21. \A i \in DOMAIN pipe' : Rest(i) \/ \E c : c = pipe'[i] /\ CallFits(c)'
    <2>1. CASE ~(heard /\ r.status \in Terminal)
      BY <1>1, <1>3, <1>5, <2>1, TailIsRest
    <2>2. CASE heard /\ r.status \in Terminal
      <3>1. pipe' = Append(Tail(pipe), call)
        BY <1>5, <1>12, <2>2
      <3>2. CallFits(call)'
        <4>1. r.key = view.job
          BY <2>2 DEF heard
        <4>2. core'.job[r.key].status = r.status /\ r.key \in Started'
          BY <1>8, <1>16, <2>2
        <4>3. QED
          BY <1>7, <1>11, <1>13, <2>2, <4>1, <4>2 DEF CallFits
      <3>3. \A i \in DOMAIN pipe' : Rest(i) \/ pipe'[i] = call
        BY <1>1, <1>3, <1>13, <2>2, <3>1, RestOrLast
      <3>4. QED
        BY <3>2, <3>3
    <2>3. QED
      BY <2>1, <2>2
  <1>22. PipeInv'
    BY <1>11, <1>14, <1>20, <1>21, TakenFit
  <1>23. OrderInv!5'
    BY <1>1, <1>7, <1>11, <1>15, <1>16 DEF OrderInv
  <1>24. QED
    BY <1>14, <1>17, <1>19, <1>22, <1>23, TakenKeeps DEF UiInv, OrderInv

LEMMA AckAnsweredKeeps ==
  ASSUME UiInv, AckAnswered
  PROVE  UiInv'
  <1>1. Types /\ ViewInv /\ PanelInv /\ OrderInv /\ view \in View
    BY DEF UiInv, Types
  <1>2. PICK r : r = pipe[1] /\ Reply = r
    BY DEF Reply
  <1>3. /\ pipe # <<>> /\ r.op = "ack" /\ r.code # "pending" /\ pipe' = Tail(pipe)
        /\ UNCHANGED <<core, backend, press, unheard>>
    BY <1>2 DEF AckAnswered, Answered, ViewStep, Take, Reply
  <1>4. CASE r.code # "ok"
    <2>1. view' = view
      BY <1>2, <1>4 DEF AckAnswered, Take, ViewStep, Reply
    <2>2. QED
      BY <1>2, <1>3, <2>1, TakenIdle
  <1>5. CASE r.code = "ok"
    <2>1. 1 \in DOMAIN pipe /\ r \in Call
      BY <1>1, <1>2, <1>3, PipeFacts
    <2>2. view.booted = "yes" /\ CallFits(r) /\ \A i \in DOMAIN pipe : CallFits(pipe[i])
      BY <1>2, <1>3, ToTheView
    <2>3. /\ r.key \in Started /\ r.arg \in Terminal /\ core.job[r.key].status = r.arg
          /\ r.key = view.job /\ view.attempt = view.job /\ Released(r.key)
          /\ backend.active # r.key
      BY <1>3, <1>5, <2>2 DEF CallFits
    <2>4. r.key # None /\ view.stage = "running"
      BY <1>1, <2>3, JobFacts, NoneIsNoKey DEF ViewInv
    <2>5. view.of = view.job /\ backend.active = None
      BY <1>1, <2>3, <2>4 DEF ViewInv
    <2>6. PICK shown \in {"receipt", "unknown", "stopped", "failure"} :
            /\ view' = Ended(shown)
            /\ shown = "receipt" => r.arg = "succeeded"
            /\ shown = "unknown" => r.arg \in {"succeeded", "outcome_unknown"}
            /\ shown = "stopped" => r.arg = "cancelled"
            /\ shown = "failure" => r.arg = "failed"
      BY <1>2, <1>5, <2>3 DEF AckAnswered, Take, ViewStep, Reply, Terminal
    <2>7. /\ view' \in View /\ view'.booted = "yes" /\ view'.job = None
          /\ view'.attempt = None /\ view'.of = view.of /\ view'.stage = ""
          /\ view'.shown = shown /\ view'.network = view.network
      BY <1>1, <2>2, <2>6, FreshFacts DEF View, Ended
    <2>8. Taken
      BY <1>3, <2>7 DEF Taken
    <2>9. ViewInv'
      BY <1>3, <2>5, <2>7 DEF ViewInv, Trying
    <2>10. PanelInv'
      <3>1. view'.of \in Started' /\ core'.job[view'.of].status = r.arg
        BY <1>3, <2>3, <2>5, <2>7 DEF Started
      <3>2. QED
        BY <2>6, <2>7, <3>1 DEF PanelInv, PanelIsOfOwnPress, PanelIsTrue
    <2>11. \A i \in DOMAIN pipe \ {1} : pipe[i].op # "request"
      BY <2>2, <2>4 DEF CallFits
    <2>12. ASSUME NEW i \in DOMAIN pipe \ {1}, pipe[i].op = "ack"
           PROVE  pipe[i].key # None /\ Released(pipe[i].key) /\ pipe[i].code # "ok"
      <3>1. pipe[i].key # None
        BY <1>1, <2>2, <2>12, JobFacts, NoneIsNoKey DEF CallFits
      <3>2. Released(pipe[i].key)
        BY <2>2, <2>3, <2>12 DEF CallFits
      <3>3. pipe[i].code # "ok"
        BY <1>1, <1>2, <1>3, <1>5, <2>1, <2>12 DEF OrderInv
      <3>4. QED
        BY <3>1, <3>2, <3>3
    <2>13. PipeInv'
      <3>1. \A i \in DOMAIN pipe' : Rest(i)
        BY <1>1, <1>3, TailIsRest
      <3>2. QED
        BY <2>2, <2>7, <2>8, <2>11, <2>12, <3>1, TakenFit
    <2>14. OrderInv!5'
      BY <1>1, <1>2, <1>3, <2>2, <2>7, <2>8, SwitchingStays DEF OrderInv
    <2>15. QED
      BY <2>8, <2>9, <2>10, <2>13, <2>14, TakenKeeps DEF UiInv, OrderInv
  <1>6. QED
    BY <1>4, <1>5

LEMMA TakeAnswerKeeps ==
  ASSUME UiInv, TakeAnswer
  PROVE  UiInv'
  BY BootstrapAnsweredKeeps, SelectAnsweredKeeps, RequestAnsweredKeeps, StatusAnsweredKeeps,
     AckAnsweredKeeps, CancelAnsweredKeeps DEF TakeAnswer

-----------------------------------------------------------------------------
(* What goes wrong, and what the core does by itself. *)

\* The view of a step it has no part in.
LEMMA ViewSame ==
  ASSUME UiInv, view' = view, UNCHANGED <<core, backend, press>>, unheard \subseteq unheard',
         Switching' <=> Switching
  PROVE  ViewInv'
  <1>1. view \in View /\ ViewInv
    BY DEF UiInv, Types
  <1>2. CASE view.booted = "yes"
    BY <1>2, ViewStays
  <1>3. CASE view.booted # "yes"
    <2>1. view' = [FreshView EXCEPT !.booted = view'.booted]
      BY <1>1, <1>3 DEF ViewInv
    <2>2. view'.booted \in {"no", "asked", "closed"}
      BY <1>1, <1>3 DEF View
    <2>3. QED
      BY <1>1, <2>1, <2>2, BlankKeeps
  <1>4. QED
    BY <1>2, <1>3

LEMMA LoseKeeps ==
  ASSUME UiInv, LoseAnswer
  PROVE  UiInv'
  <1>1. Types /\ CoreInv /\ PanelInv /\ PipeInv /\ OrderInv
    BY DEF UiInv
  <1>2. PICK i \in DOMAIN pipe :
          /\ pipe' = [pipe EXCEPT ![i].code = "lost"]
          /\ unheard' = IF pipe[i].code = "ok" THEN unheard \cup ({pipe[i].op} \cap {"ack"})
                        ELSE unheard
    BY DEF LoseAnswer
  <1>3. /\ UNCHANGED <<core, backend, view, press>> /\ unheard \subseteq unheard'
        /\ i \in DOMAIN pipe
    BY <1>2 DEF LoseAnswer
  <1>4. pipe \in Seq(Call) /\ pipe[i] \in Call /\ DOMAIN pipe = 1..Len(pipe) /\ Len(pipe) \in Nat
    BY <1>1, <1>3, PipeFacts DEF Types
  <1>5. PICK call : call = [pipe[i] EXCEPT !.code = "lost"]
    OBVIOUS
  <1>6. /\ call \in Call /\ call.op = pipe[i].op /\ call.key = pipe[i].key
        /\ call.arg = pipe[i].arg /\ call.code = "lost" /\ call.status = pipe[i].status
    BY <1>4, <1>5 DEF Call, Codes
  <1>7. pipe' = [pipe EXCEPT ![i] = call]
    BY <1>2, <1>5
  <1>8. /\ pipe' \in Seq(Call) /\ DOMAIN pipe' = DOMAIN pipe /\ pipe'[i] = call
        /\ \A j \in DOMAIN pipe \ {i} : pipe'[j] = pipe[j]
    BY <1>3, <1>4, <1>6, <1>7, ExceptSeq
  <1>9. /\ \A j \in DOMAIN pipe : pipe'[j].op = pipe[j].op /\ pipe'[j].arg = pipe[j].arg
        /\ \A j \in DOMAIN pipe : pipe'[j].code = "lost" \/ pipe'[j] = pipe[j]
    BY <1>6, <1>8
  <1>10. Switching' <=> Switching
    BY <1>8, <1>9 DEF Switching
  <1>11. ViewInv'
    BY <1>3, <1>10, ViewSame
  <1>12. PressInv' /\ CoreStays /\ Started' = Started
    BY <1>1, <1>3, PressOfView, SameCore
  <1>13. PanelInv'
    BY <1>1, <1>3, <1>12, PanelStays DEF PanelInv, CoreStays
  <1>14. Types'
    BY <1>1, <1>3, <1>8, <1>9 DEF Types
  <1>15. PipeInv'
    <2>1. CallFits(call)'
      <3>1. PICK c : c = pipe[i] /\ CallFits(c)
        BY <1>1, <1>3 DEF PipeInv
      <3>2. Started' = Started /\ (Released(call.key)' <=> Released(call.key))
        BY <1>3 DEF Started, Released, Listed
      <3>3. QED
        BY <1>3, <1>6, <3>1, <3>2 DEF CallFits, Replied
    <2>2. ASSUME NEW j \in DOMAIN pipe \ {i}
          PROVE  \E c : c = pipe'[j] /\ CallFits(c)'
      <3>1. PICK c : c = pipe[j]
        OBVIOUS
      <3>2. CallFits(c)
        BY <1>1, <2>2, <3>1 DEF PipeInv
      <3>3. CallFits(c)'
        BY <1>3, <3>2, FitStays DEF CallFits
      <3>4. QED
        BY <1>8, <2>2, <3>1, <3>3
    <2>3. QED
      BY <1>8, <2>1, <2>2, PipeOf
  <1>16. OrderInv!1'
    BY <1>1, <1>8, <1>9 DEF OrderInv
  <1>17. Single("request")' /\ Single("bootstrap")'
    BY <1>1, <1>8, <1>9 DEF OrderInv, Single
  <1>18. OrderInv!3'
    BY <1>1, <1>8, <1>9 DEF OrderInv
  <1>19. OrderInv!4'
    BY <1>1, <1>3, <1>8, <1>9 DEF OrderInv, Replied
  <1>20. OrderInv!5'
    BY <1>1, <1>3, <1>10 DEF OrderInv
  <1>21. QED
    BY <1>11, <1>12, <1>13, <1>14, <1>15, <1>16, <1>17, <1>18, <1>19, <1>20
       DEF UiInv, OrderInv, CoreStays

\* A view that is loaded or closed has no call under way.
LEMMA EmptyKeeps ==
  ASSUME Types, core' \in Core, backend' \in Backend, press' = press, pipe' = <<>>,
         view' \in View, view'.booted \in {"no", "closed"}
  PROVE  Types' /\ PipeInv' /\ OrderInv'
  <1>1. pipe' \in Seq(Call) /\ DOMAIN pipe' = {}
    OBVIOUS
  <1>2. Types'
    BY <1>1 DEF Types
  <1>3. PipeInv'
    BY <1>1 DEF PipeInv
  <1>4. OrderInv'
    BY <1>1 DEF OrderInv, Single
  <1>5. QED
    BY <1>2, <1>3, <1>4

LEMMA FreshAgain ==
  ASSUME NEW booted \in {"no", "closed"}, view' = [FreshView EXCEPT !.booted = booted]
  PROVE  /\ view' \in View /\ view'.booted = booted
         /\ ViewInv' /\ PanelInv'
  <1>1. /\ view' \in View /\ view'.booted = booted
        /\ view' = [FreshView EXCEPT !.booted = view'.booted]
    BY FreshFacts DEF View
  <1>2. QED
    BY <1>1, BlankKeeps

LEMMA FreshIsFresh ==
  FreshView = [FreshView EXCEPT !.booted = "no"]
  BY FreshFacts DEF View

LEMMA ReloadKeeps ==
  ASSUME UiInv, Reload
  PROVE  UiInv'
  <1>1. Types /\ CoreInv
    BY DEF UiInv
  <1>2. /\ view' = [FreshView EXCEPT !.booted = "no"] /\ pipe' = <<>>
        /\ UNCHANGED <<core, backend, press, unheard>>
    BY FreshIsFresh DEF Reload
  <1>3. PressInv' /\ CoreStays
    BY <1>1, <1>2, PressOfView, SameCore
  <1>4. QED
    BY <1>1, <1>2, <1>3, FreshAgain, EmptyKeeps DEF UiInv, CoreStays, Types

LEMMA CloseKeeps ==
  ASSUME UiInv, Close
  PROVE  UiInv'
  <1>1. Types /\ CoreInv /\ PressInv
    BY DEF UiInv
  <1>2. /\ view' = [FreshView EXCEPT !.booted = "closed"] /\ pipe' = <<>>
        /\ UNCHANGED <<backend, press, unheard>>
    BY DEF Close
  <1>3. CoreStays /\ Started' = Started /\ core'.network = core.network
    BY <1>1, CloseStays
  <1>4. PressInv'
    BY <1>1, <1>2, <1>3, PressStays DEF CoreStays, PressInv
  <1>5. QED
    BY <1>1, <1>2, <1>3, <1>4, FreshAgain, EmptyKeeps DEF UiInv, CoreStays, Types

LEMMA ReopenKeeps ==
  ASSUME UiInv, Reopen
  PROVE  UiInv'
  <1>1. Types /\ CoreInv /\ PressInv
    BY DEF UiInv
  <1>2. /\ view' = [FreshView EXCEPT !.booted = "no"] /\ backend' = FreshBackend
        /\ UNCHANGED <<pipe, press, unheard>> /\ view.booted = "closed"
    BY FreshIsFresh DEF Reopen
  <1>3. pipe' = <<>>
    BY <1>2, NoCalls
  <1>4. CoreStays /\ Started' = Started /\ core'.network = Off
    BY <1>1, ReopenStays
  <1>5. PressInv'
    BY <1>1, <1>2, <1>4, PressStays DEF CoreStays
  <1>6. backend' \in Backend
    BY <1>2, NetworkAssumption DEF FreshBackend, Backend
  <1>7. QED
    BY <1>1, <1>2, <1>3, <1>4, <1>5, <1>6, FreshAgain, EmptyKeeps DEF UiInv, CoreStays

\* What a call knows of the core stays so while the core goes on.
LEMMA FitGrows ==
  ASSUME NEW call, CallFits(call), Grows, view' = view, backend' = backend
  PROVE  CallFits(call)'
  <1>1. call.op = "ack" => call.key \in Started /\ core.job[call.key].status \in Terminal
    BY DEF CallFits
  <1>2. call.op = "ack" /\ Released(call.key) => Released(call.key)'
    BY <1>1 DEF Released, Grows
  <1>3. QED
    BY <1>1, <1>2 DEF CallFits, Replied, Grows

LEMMA SettleKeeps ==
  ASSUME UiInv, NEW k \in Key, Settle(k)
  PROVE  UiInv'
  <1>1. Types /\ CoreInv /\ PressInv /\ ViewInv /\ PanelInv /\ PipeInv /\ OrderInv
    BY DEF UiInv
  <1>2. UNCHANGED <<backend, view, pipe, press, unheard>>
    BY DEF Settle
  <1>3. CoreStays /\ Started' = Started
    BY <1>1, SettleStays
  <1>4. core'.network = core.network
    BY <1>1 DEF Settle, Types, Core
  <1>5. PressInv'
    BY <1>1, <1>2, <1>3, <1>4, PressStays DEF CoreStays, PressInv
  <1>6. PanelInv'
    BY <1>1, <1>2, <1>3, PanelStays DEF CoreStays, PanelInv
  <1>7. ViewInv'
    BY <1>1, <1>2, <1>3 DEF ViewInv, Trying, Switching, Pressed, FreshView, AnyText, Text, Plausible
  <1>8. PipeInv'
    <2>1. ASSUME NEW i \in DOMAIN pipe
          PROVE  \E call : call = pipe[i] /\ CallFits(call)'
      <3>1. PICK call : call = pipe[i] /\ CallFits(call)
        BY <1>1, <2>1 DEF PipeInv
      <3>2. CallFits(call)'
        BY <1>2, <1>3, <3>1, FitGrows DEF CoreStays
      <3>3. QED
        BY <3>1, <3>2
    <2>2. QED
      BY <1>2, <2>1, PipeOf
  <1>9. OrderInv'
    BY <1>1, <1>2 DEF OrderInv, Single, Switching
  <1>10. Types'
    BY <1>1, <1>2, <1>3 DEF Types, CoreStays
  <1>11. QED
    BY <1>3, <1>5, <1>6, <1>7, <1>8, <1>9, <1>10 DEF UiInv, CoreStays

LEMMA StutterKeeps ==
  ASSUME UiInv, UNCHANGED vars
  PROVE  UiInv'
  <1>1. Types /\ CoreInv /\ PressInv /\ ViewInv /\ PanelInv /\ PipeInv /\ OrderInv
    BY DEF UiInv
  <1>2. UNCHANGED <<core, backend, view, pipe, press, unheard>>
    BY DEF vars
  <1>3. PressInv' /\ CoreStays /\ Started' = Started
    BY <1>1, <1>2, PressOfView, SameCore
  <1>4. PanelInv'
    BY <1>1, <1>2, <1>3, PanelStays DEF CoreStays, PanelInv
  <1>5. ViewInv'
    BY <1>2, ViewSame DEF Switching
  <1>6. PipeInv'
    <2>1. ASSUME NEW i \in DOMAIN pipe
          PROVE  \E call : call = pipe[i] /\ CallFits(call)'
      <3>1. PICK call : call = pipe[i] /\ CallFits(call)
        BY <1>1, <2>1 DEF PipeInv
      <3>2. CallFits(call)'
        BY <1>2, <1>3, <3>1, FitGrows DEF CoreStays
      <3>3. QED
        BY <3>1, <3>2
    <2>2. QED
      BY <1>2, <2>1, PipeOf
  <1>7. OrderInv'
    BY <1>1, <1>2 DEF OrderInv, Single, Switching
  <1>8. Types'
    BY <1>1, <1>2 DEF Types
  <1>9. QED
    BY <1>3, <1>4, <1>5, <1>6, <1>7, <1>8 DEF UiInv, CoreStays

-----------------------------------------------------------------------------
(* The theorems. *)

LEMMA InitInv ==
  ASSUME Init
  PROVE  UiInv
  <1>1. /\ core = [network |-> Off, client |-> 0, unproven |-> {}, job |-> [k \in Key |-> NoJob]]
        /\ backend = FreshBackend /\ view = FreshView /\ pipe = <<>>
        /\ press = [k \in Key |-> NoPress]
    BY DEF Init
  <1>2. Started = {} /\ Live = {} /\ Pressed = {} /\ core.network = Off
    BY <1>1 DEF Started, Live, Pressed
  <1>3. pipe \in Seq(Call) /\ DOMAIN pipe = {}
    BY <1>1
  <1>4. Types
    <2>1. core \in Core
      BY <1>1 DEF Core
    <2>2. backend \in Backend
      BY <1>1, NetworkAssumption DEF FreshBackend, Backend
    <2>3. view \in View
      BY <1>1, FreshFacts
    <2>4. press \in [Key -> Seen \cup {NoPress}]
      BY <1>1
    <2>5. QED
      BY <1>3, <2>1, <2>2, <2>3, <2>4 DEF Types
  <1>5. CoreInv
    BY <1>2 DEF CoreInv, UnprovenIsRefused
  <1>6. PressInv
    <2>1. Cardinality(Pressed) = 0
      BY <1>2, FS_EmptySet
    <2>2. Pressed = 1..Cardinality(Pressed)
      BY <1>2, <2>1
    <2>3. QED
      BY <1>2, <2>2 DEF PressInv, OneJobPerPress, RunsWhereShown
  <1>7. ViewInv
    BY <1>1, FreshFacts, FreshIsFresh DEF ViewInv, Trying
  <1>8. PanelInv
    BY <1>1, FreshFacts DEF PanelInv, PanelIsOfOwnPress, PanelIsTrue
  <1>9. PipeInv
    BY <1>3 DEF PipeInv
  <1>10. OrderInv
    BY <1>1, <1>3, FreshFacts DEF OrderInv, Single
  <1>11. QED
    BY <1>4, <1>5, <1>6, <1>7, <1>8, <1>9, <1>10 DEF UiInv

LEMMA NextInv ==
  ASSUME UiInv, Next
  PROVE  UiInv'
  BY ServeInv, TakeAnswerKeeps, SettleKeeps, BeginKeeps, SwitchKeeps, PressKeeps, ResendKeeps,
     PollKeeps, LoseKeeps, ReloadKeeps, CloseKeeps, ReopenKeeps DEF Next

\* The state every step keeps: one drop at a time in the order of the presses, one request on
\* its way, and every acknowledgement under way for a job that has ended.
THEOREM UiInvariant == Spec => []UiInv
  <1>1. Init => UiInv
    BY InitInv
  <1>2. UiInv /\ [Next]_vars => UiInv'
    BY NextInv, StutterKeeps
  <1>3. QED
    BY <1>1, <1>2, PTL DEF Spec

\* One press of the credit button is one job of the core, for the account that was typed:
\* requestCredit mints the key, and a request that is sent again carries it.
THEOREM OnePressIsOneJob == Spec => []OneJobPerPress
  <1>1. UiInv => OneJobPerPress
    BY DEF UiInv, PressInv
  <1>2. QED
    BY <1>1, UiInvariant, PTL

\* A drop runs on the network the view showed at the press, unless a switch was under way then
\* or the core's answer to a configure had been lost.
THEOREM RequestsRunWhereShown == Spec => []RunsWhereShown
  <1>1. UiInv => RunsWhereShown
    BY DEF UiInv, PressInv
  <1>2. QED
    BY <1>1, UiInvariant, PTL

\* What finishCredit and the refusal of a request show is what became of the job of that press,
\* unless the core's answer to a request was lost.
THEOREM PanelTellsOfOwnPress == Spec => []PanelIsOfOwnPress
  <1>1. UiInv => PanelIsOfOwnPress
    BY DEF UiInv, PanelInv
  <1>2. QED
    BY <1>1, UiInvariant, PTL

\* A client that knows of an unproven claim for an account pays it nothing more.
THEOREM UnprovenStaysRefused == Spec => []UnprovenIsRefused
  <1>1. UiInv => UnprovenIsRefused
    BY DEF UiInv, CoreInv
  <1>2. QED
    BY <1>1, UiInvariant, PTL

-----------------------------------------------------------------------------
(* Type correctness: what the bounds of the model count. *)

Counted ==
  /\ Len(pipe) <= MaxPipe
  /\ unheard \subseteq {"configure", "request", "ack"}
  /\ spent \in [faults : 0..MaxFaults, switches : 0..MaxSwitches]

LEMMA BoundFacts ==
  ASSUME Counted
  PROVE  /\ MaxPipe \in Nat /\ MaxFaults \in Nat /\ MaxSwitches \in Nat
         /\ spent.faults \in 0..MaxFaults /\ spent.switches \in 0..MaxSwitches
         /\ spent.faults # MaxFaults => [spent EXCEPT !.faults = @ + 1] \in
              [faults : 0..MaxFaults, switches : 0..MaxSwitches]
         /\ spent.switches < MaxSwitches => [spent EXCEPT !.switches = @ + 1] \in
              [faults : 0..MaxFaults, switches : 0..MaxSwitches]
  <1>1. /\ MaxPipe \in Nat /\ MaxFaults \in Nat /\ MaxSwitches \in Nat
        /\ spent.faults \in 0..MaxFaults /\ spent.switches \in 0..MaxSwitches
    BY UiBoundAssumption DEF Counted
  <1>2. ASSUME spent.faults # MaxFaults
        PROVE  [spent EXCEPT !.faults = @ + 1] \in
                 [faults : 0..MaxFaults, switches : 0..MaxSwitches]
    <2>1. spent.faults + 1 \in 0..MaxFaults
      BY <1>1, <1>2
    <2>2. QED
      BY <2>1 DEF Counted
  <1>3. ASSUME spent.switches < MaxSwitches
        PROVE  [spent EXCEPT !.switches = @ + 1] \in
                 [faults : 0..MaxFaults, switches : 0..MaxSwitches]
    <2>1. spent.switches + 1 \in 0..MaxSwitches
      BY <1>1, <1>3
    <2>2. QED
      BY <2>1 DEF Counted
  <1>4. QED
    BY <1>1, <1>2, <1>3

LEMMA ServeAnswers ==
  ASSUME Serve
  PROVE  \E o, after, status :
           Answer(o, after, status) /\ (o.lost => spent.faults # MaxFaults)
  <1>1. ASSUME NEW outcomes, NEW o \in InvokeCore(outcomes)
        PROVE  /\ o = [core |-> o.core, code |-> o.code, lost |-> o.lost]
               /\ o.lost => spent.faults # MaxFaults
    <2>1. o = [core |-> o.core, code |-> o.code, lost |-> o.lost]
      BY <1>1, Invoked
    <2>2. spent.faults # MaxFaults \/ o.lost = FALSE
      <3>1. CASE spent.faults = MaxFaults
        <4>1. PICK p : p \in outcomes /\ o = [core |-> p.core, code |-> p.code, lost |-> FALSE]
          BY <1>1, <3>1 DEF InvokeCore
        <4>2. QED
          BY <4>1
      <3>2. QED
        BY <3>1
    <2>3. o.lost => spent.faults # MaxFaults
      BY <2>2, Zenon
    <2>4. QED
      BY <2>1, <2>3
  <1>9. ASSUME NEW code, NEW after, NEW status, Local(code, after, status)
        PROVE  \E o, a, s : Answer(o, a, s) /\ (o.lost => spent.faults # MaxFaults)
    <2>1. PICK o : o = [core |-> core, code |-> code, lost |-> FALSE]
      OBVIOUS
    <2>2. Answer(o, after, status)
      BY <1>9, <2>1 DEF Local
    <2>3. o.lost = FALSE
      BY <2>1
    <2>4. o.lost => spent.faults # MaxFaults
      BY <2>3, Zenon
    <2>5. QED
      BY <2>2, <2>4
  <1>2. CASE Bootstrap
    BY <1>1, <1>2, <1>9, Zenon DEF Bootstrap
  <1>3. CASE SelectNetwork
    BY <1>1, <1>3, <1>9, Zenon DEF SelectNetwork
  <1>4. CASE StartRequestDrop
    BY <1>1, <1>4, <1>9, Zenon DEF StartRequestDrop
  <1>5. CASE CancelJob
    BY <1>1, <1>5 DEF CancelJob
  <1>6. CASE BackendJobStatus
    BY <1>1, <1>6, <1>9, Zenon DEF BackendJobStatus
  <1>7. CASE AcknowledgeJob
    <2>1. PICK o, code, after :
            /\ o \in InvokeCore(JobResultAck(pipe[Waiting].key))
            /\ Answer([o EXCEPT !.code = code], after, "none")
      BY <1>7 DEF AcknowledgeJob
    <2>2. [o EXCEPT !.code = code].lost = o.lost
      BY <1>1, <2>1
    <2>3. [o EXCEPT !.code = code].lost => spent.faults # MaxFaults
      BY <1>1, <2>1, <2>2
    <2>4. QED
      BY <2>1, <2>3
  <1>8. QED
    BY <1>2, <1>3, <1>4, <1>5, <1>6, <1>7 DEF Serve

LEMMA SendCounts ==
  ASSUME Types, Counted, NEW call, Room, pipe' = Send(call)
  PROVE  Len(pipe') <= MaxPipe
  <1>1. Len(pipe) \in Nat /\ MaxPipe \in Nat
    BY PipeFacts, BoundFacts
  <1>2. Len(pipe') = Len(pipe) + 1
    <2>1. pipe \in Seq(Call \cup {call})
      BY PipeFacts, IsASeq DEF Types
    <2>2. QED
      BY <2>1, AppendProperties DEF Send
  <1>3. QED
    BY <1>1, <1>2 DEF Room

LEMMA SameCount ==
  ASSUME Types, Types', Counted, DOMAIN pipe' = DOMAIN pipe
  PROVE  Len(pipe') <= MaxPipe
  <1>1. /\ Len(pipe) \in Nat /\ DOMAIN pipe = 1..Len(pipe)
        /\ Len(pipe') \in Nat /\ DOMAIN pipe' = 1..Len(pipe')
    BY LenProperties DEF Types
  <1>2. Len(pipe') = Len(pipe)
    BY <1>1
  <1>3. QED
    BY <1>2 DEF Counted

LEMMA TakeCounts ==
  ASSUME UiInv, Counted, TakeAnswer
  PROVE  Counted'
  <1>1. Types /\ pipe # <<>>
    BY DEF UiInv, TakeAnswer, BootstrapAnswered, SelectAnswered, RequestAnswered, StatusAnswered,
           AckAnswered, CancelAnswered, Answered
  <1>7. unheard' = unheard /\ spent' = spent
    BY DEF TakeAnswer, BootstrapAnswered, SelectAnswered, RequestAnswered, StatusAnswered,
           AckAnswered, CancelAnswered, Take, ViewStep
  <1>8. \/ pipe' = Tail(pipe)
        \/ \E call : pipe' = Append(Tail(pipe), call)
    BY DEF TakeAnswer, BootstrapAnswered, SelectAnswered, RequestAnswered, StatusAnswered,
           AckAnswered, CancelAnswered, Take
  <1>2. PICK rest : rest = Tail(pipe)
    OBVIOUS
  <1>3. /\ rest \in Seq(Call) /\ Len(rest) = Len(pipe) - 1 /\ Len(pipe) \in Nat
        /\ MaxPipe \in Nat /\ Len(pipe) <= MaxPipe
    <2>1. pipe \in Seq(Call) /\ Len(pipe) \in Nat
      BY <1>1, PipeFacts DEF Types
    <2>2. rest \in Seq(Call) /\ Len(rest) = Len(pipe) - 1
      BY <1>1, <1>2, <2>1, HeadTailProperties
    <2>3. MaxPipe \in Nat /\ Len(pipe) <= MaxPipe
      BY BoundFacts DEF Counted
    <2>4. QED
      BY <2>1, <2>2, <2>3
  <1>4. CASE pipe' = rest
    <2>1. Len(pipe') <= MaxPipe
      BY <1>3, <1>4
    <2>2. QED
      BY <1>7, <2>1 DEF Counted
  <1>5. CASE \E call : pipe' = Append(rest, call)
    <2>1. PICK call : pipe' = Append(rest, call)
      BY <1>5
    <2>2. Len(pipe') = Len(rest) + 1
      <3>1. rest \in Seq(Call \cup {call})
        BY <1>3
      <3>2. QED
        BY <2>1, <3>1, AppendProperties
    <2>3. Len(pipe') = Len(pipe)
      BY <1>3, <2>2
    <2>4. Len(pipe') <= MaxPipe
      BY <1>3, <2>3
    <2>5. QED
      BY <1>7, <2>4 DEF Counted
  <1>6. QED
    BY <1>2, <1>4, <1>5, <1>8

LEMMA NextCounts ==
  ASSUME UiInv, UiInv', Counted, Next
  PROVE  Counted'
  <1>1. Types /\ Types' /\ MaxPipe \in Nat /\ Counted
    BY BoundFacts DEF UiInv
  <1>2. CASE Serve
    <2>1. PICK o, after, status :
            Answer(o, after, status) /\ (o.lost => spent.faults # MaxFaults)
      BY <1>2, ServeAnswers
    <2>2. DOMAIN pipe' = DOMAIN pipe
      BY <2>1 DEF Answer
    <2>3. unheard' \subseteq {"configure", "request", "ack"}
      BY <2>1 DEF Answer, Counted
    <2>4. spent' \in [faults : 0..MaxFaults, switches : 0..MaxSwitches]
      BY <2>1, BoundFacts DEF Answer, Counted
    <2>5. QED
      BY <1>1, <2>2, <2>3, <2>4, SameCount DEF Counted
  <1>3. ASSUME NEW k \in Key, Settle(k)
        PROVE  Counted'
    BY <1>3 DEF Settle, Counted
  <1>4. CASE BeginBootstrap \/ Resend \/ PollCredit \/ CancelCreditRequest
             \/ \E text \in Text : Press(text)
    <2>1. Room /\ UNCHANGED <<unheard, spent>> /\ \E call : pipe' = Send(call)
      BY <1>4 DEF BeginBootstrap, Resend, PollCredit, CancelCreditRequest, Press, ViewStep
    <2>2. QED
      BY <1>1, <2>1, SendCounts DEF Counted
  <1>5. ASSUME NEW n \in Network, Switch(n)
        PROVE  Counted'
    <2>1. Len(pipe') <= MaxPipe
      BY <1>1, <1>5, SendCounts DEF Switch
    <2>2. QED
      BY <1>5, <2>1, BoundFacts DEF Switch, Counted
  <1>6. CASE TakeAnswer
    BY <1>6, TakeCounts
  <1>7. ASSUME Fault
        PROVE  spent' \in [faults : 0..MaxFaults, switches : 0..MaxSwitches]
    BY <1>7, BoundFacts DEF Fault
  <1>8. CASE LoseAnswer
    <2>1. DOMAIN pipe' = DOMAIN pipe /\ unheard' \subseteq {"configure", "request", "ack"}
      BY <1>8 DEF LoseAnswer, Counted
    <2>2. QED
      BY <1>1, <1>7, <1>8, <2>1, SameCount DEF LoseAnswer, Counted
  <1>9. CASE Reload \/ Close
    <2>1. Len(pipe') <= MaxPipe /\ Fault /\ unheard' = unheard
      BY <1>1, <1>9 DEF Reload, Close
    <2>2. QED
      BY <1>7, <2>1 DEF Counted
  <1>10. CASE Reopen
    BY <1>10 DEF Reopen, Counted
  <1>11. QED
    BY <1>2, <1>3, <1>4, <1>5, <1>6, <1>8, <1>9, <1>10 DEF Next

\* The core, the backend, the view and the calls between them keep their shape.
THEOREM TypeCorrectness == Spec => []TypeOK
  <1>1. Init => Counted
    BY UiBoundAssumption DEF Init, Counted
  <1>2. UiInv /\ UiInv' /\ Counted /\ [Next]_vars => Counted'
    <2>1. CASE UNCHANGED vars
      BY <2>1 DEF vars, Counted
    <2>2. QED
      BY <2>1, NextCounts
  <1>3. UiInv /\ Counted => TypeOK
    <2> SUFFICES ASSUME UiInv, Counted
                 PROVE  TypeOK
      OBVIOUS
    <2>1. \A i \in DOMAIN pipe : pipe[i].code \in Codes
      BY PipeFacts DEF UiInv, Call
    <2>2. view.job # None <=> view.stage = "running"
      BY DEF UiInv, ViewInv
    <2>3. QED
      BY <2>1, <2>2 DEF UiInv, Types, Counted, TypeOK, Seen
  <1>4. QED
    BY <1>1, <1>2, <1>3, UiInvariant, PTL DEF Spec

-----------------------------------------------------------------------------
(* The core the backend is modelled with keeps the core module's promise. *)

\* What has become of the drop of k, as DropPromise tells it.
ToldOf(k) == IF core.job[k].status = "cancelling" THEN "stopping" ELSE core.job[k].status
Told == <<[k \in Key |-> ToldOf(k)], Listed>>

LEMMA SameJobsTold ==
  ASSUME core'.job = core.job
  PROVE  [Promise!Next]_Told
  <1>1. Started' = Started
    BY DEF Started
  <1>2. Listed' = Listed
    BY <1>1 DEF Listed
  <1>3. [k \in Key |-> ToldOf(k)]' = [k \in Key |-> ToldOf(k)]
    BY DEF ToldOf
  <1>4. QED
    BY <1>2, <1>3 DEF Told

\* A job in its course tells of a drop that runs or was asked to stop.
LEMMA LiveTold ==
  ASSUME Types, NEW k \in Live
  PROVE  /\ k \in Key /\ core.job[k].status \in {"running", "cancelling"}
         /\ ToldOf(k) = IF core.job[k].status = "running" THEN "running" ELSE "stopping"
  <1>1. k \in Key /\ core.job[k] \in Job /\ core.job[k].status \notin Terminal
    BY JobFacts DEF Live
  <1>2. core.job[k].status \in {"running", "cancelling"}
    BY <1>1 DEF Job
  <1>3. QED
    BY <1>1, <1>2 DEF ToldOf

\* One live job is asked to stop, now or once more.
LEMMA AskTold ==
  ASSUME Types, NEW k \in Live, core'.job = [core.job EXCEPT ![k].status = "cancelling"],
         core'.network = core.network, core'.client = core.client
  PROVE  [Promise!Next]_Told
  <1> DEFINE status == [q \in Key |-> ToldOf(q)]
  <1>1. StatusOf(k, "cancelling")
    BY DEF StatusOf
  <1>2. /\ Listed' = Listed /\ core'.job[k].status = "cancelling"
        /\ \A q \in Key \ {k} : core'.job[q] = core.job[q]
    BY <1>1, StatusFacts
  <1>3. /\ k \in Key
        /\ ToldOf(k) = IF core.job[k].status = "running" THEN "running" ELSE "stopping"
    BY LiveTold
  <1>4. ToldOf(k)' = "stopping" /\ \A q \in Key \ {k} : ToldOf(q)' = ToldOf(q)
    BY <1>2 DEF ToldOf
  <1>5. status' = [status EXCEPT ![k] = "stopping"]
    BY <1>4
  <1>6. CASE core.job[k].status = "running"
    <2>1. status[k] = "running"
      BY <1>3, <1>6
    <2>2. Promise!Stop(k)
      BY <1>2, <1>5, <2>1 DEF Promise!Stop, ToldOf
    <2>3. QED
      BY <1>3, <2>2 DEF Promise!Next
  <1>7. CASE core.job[k].status # "running"
    <2>1. status[k] = "stopping"
      BY <1>3, <1>7
    <2>2. status' = status
      BY <1>3, <1>4, <2>1
    <2>3. QED
      BY <1>2, <2>2 DEF Told
  <1>8. QED
    BY <1>6, <1>7

LEMMA SettleTold ==
  ASSUME Types, NEW k \in Key, Settle(k)
  PROVE  [Promise!Next]_Told
  <1> DEFINE status == [q \in Key |-> ToldOf(q)]
  <1>1. PICK outcome \in Terminal :
          /\ outcome = "cancelled" => core.job[k].status = "cancelling"
          /\ core' = [core EXCEPT !.job[k].status = outcome,
                        !.unproven = IF outcome = "outcome_unknown"
                                     THEN @ \cup {core.job[k].id} ELSE @]
    BY DEF Settle
  <1>2. k \in Live /\ StatusOf(k, outcome)
    BY <1>1 DEF Settle, StatusOf, Types, Core
  <1>3. /\ Listed' = Listed /\ core'.job[k].status = outcome
        /\ \A q \in Key \ {k} : core'.job[q] = core.job[q]
    BY <1>2, StatusFacts
  <1>4. ToldOf(k) = IF core.job[k].status = "running" THEN "running" ELSE "stopping"
    BY <1>2, LiveTold
  <1>5. ToldOf(k)' = outcome /\ \A q \in Key \ {k} : ToldOf(q)' = ToldOf(q)
    BY <1>3 DEF ToldOf, Terminal
  <1>6. /\ status' = [status EXCEPT ![k] = outcome]
        /\ status[k] \in {"running", "stopping"}
        /\ outcome = "cancelled" => status[k] = "stopping"
    BY <1>1, <1>4, <1>5
  <1>7. Promise!End(k)
    BY <1>3, <1>6 DEF Promise!End, Promise!Terminal, Terminal, ToldOf
  <1>8. QED
    BY <1>7 DEF Promise!Next

\* A job begins: its key has none, and no other job is live.
LEMMA BeginTold ==
  ASSUME Types, NEW k \in Key \ Started, NEW id \in Account \cup {Mistyped}, Live = {},
         core.network # Off, core' = Begun(k, id)
  PROVE  [Promise!Next]_Told
  <1> DEFINE status == [q \in Key |-> ToldOf(q)]
             next == [status |-> "running", listed |-> TRUE, id |-> id,
                      network |-> core.network, client |-> core.client]
  <1>1. next \in Job /\ next.status = "running" /\ next.listed
    BY JobFacts DEF Job
  <1>2. next # NoJob
    BY <1>1, NoJobIsNone
  <1>3. core'.job = [core.job EXCEPT ![k] = next]
    BY DEF Begun, Types, Core
  <1> HIDE DEF next
  <1>4. core'.job[k] = next /\ \A q \in Key \ {k} : core'.job[q] = core.job[q]
    BY <1>3, JobFacts
  <1>5. Started' = Started \cup {k}
    BY <1>2, <1>4 DEF Started
  <1>6. Listed' = Listed \cup {k}
    BY <1>1, <1>4, <1>5, JobFacts DEF Listed
  <1>7. status[k] = "none"
    BY JobFacts DEF ToldOf, NoJob
  <1>8. status' = [status EXCEPT ![k] = "running"]
    <2>1. ToldOf(k)' = "running" /\ \A q \in Key \ {k} : ToldOf(q)' = ToldOf(q)
      BY <1>1, <1>4 DEF ToldOf
    <2>2. QED
      BY <2>1
  <1>9. {q \in Key : status[q] \in {"running", "stopping"}} = {}
    <2>1. ASSUME NEW q \in Key
          PROVE  ToldOf(q) \notin {"running", "stopping"}
      <3>1. CASE q \in Started
        BY <3>1 DEF Live, ToldOf, Terminal
      <3>2. CASE q \notin Started
        BY <2>1, <3>2, JobFacts DEF ToldOf, NoJob
      <3>3. QED
        BY <3>1, <3>2
    <2>2. QED
      BY <2>1
  <1>10. Promise!Start(k)
    BY <1>6, <1>7, <1>8, <1>9 DEF Promise!Start, Promise!Running, ToldOf
  <1>11. QED
    BY <1>10 DEF Promise!Next

\* The result of a job that is over is let go of.
LEMMA ForgetTold ==
  ASSUME Types, NEW k \in Listed \ Live, core' = Forgotten(k)
  PROVE  [Promise!Next]_Told
  <1> DEFINE status == [q \in Key |-> ToldOf(q)]
             next == [core.job[k] EXCEPT !.listed = FALSE]
  <1>1. k \in Key /\ core.job[k] \in Job /\ k \in Started /\ core.job[k].status \in Terminal
    BY JobFacts DEF Live
  <1>2. next \in Job /\ next.status = core.job[k].status /\ next.listed = FALSE
    BY <1>1 DEF Job
  <1>3. next # NoJob
    BY <1>2, NoJobIsNone
  <1>4. core'.job = [core.job EXCEPT ![k] = next]
    BY DEF Forgotten, Types, Core
  <1> HIDE DEF next
  <1>5. core'.job[k] = next /\ \A q \in Key \ {k} : core'.job[q] = core.job[q]
    BY <1>1, <1>4, JobFacts
  <1>6. Started' = Started
    BY <1>1, <1>3, <1>5 DEF Started
  <1>7. Listed' = Listed \ {k}
    BY <1>2, <1>5, <1>6, JobFacts DEF Listed
  <1>8. status' = status
    <2>1. \A q \in Key : ToldOf(q)' = ToldOf(q)
      BY <1>2, <1>5 DEF ToldOf
    <2>2. QED
      BY <2>1
  <1>9. status[k] \in Terminal
    BY <1>1 DEF ToldOf, Terminal
  <1>10. Promise!Release(k)
    BY <1>7, <1>8, <1>9 DEF Promise!Release, Promise!Terminal, Terminal, ToldOf
  <1>11. QED
    BY <1>1, <1>10 DEF Promise!Next

\* The window closes: whatever is live is asked to stop, and no more than one job is.
LEMMA CloseTold ==
  ASSUME Types, CoreInv, Close
  PROVE  [Promise!Next]_Told
  <1> DEFINE next(k) == IF k \in Live THEN [core.job[k] EXCEPT !.status = "cancelling"]
                        ELSE core.job[k]
  <1>1. /\ core'.job = [k \in Key |-> next(k)]
        /\ core'.network = core.network /\ core'.client = core.client
    BY DEF Close, Types, Core
  <1>2. Live \subseteq Key /\ core.job \in [Key -> Job \cup {NoJob}]
    BY JobFacts
  <1>3. CASE Live = {}
    <2>1. core'.job = core.job
      BY <1>1, <1>2, <1>3
    <2>2. QED
      BY <2>1, SameJobsTold
  <1>4. ASSUME NEW k \in Live
        PROVE  [Promise!Next]_Told
    <2>1. \A q \in Live : q = k
      BY JobFacts DEF CoreInv, Live, Key
    <2>2. core'.job = [core.job EXCEPT ![k].status = "cancelling"]
      BY <1>1, <1>2, <2>1
    <2>3. QED
      BY <1>1, <2>2, AskTold
  <1>5. QED
    BY <1>3, <1>4

LEMMA ServeTold ==
  ASSUME UiInv, Serve
  PROVE  [Promise!Next]_Told
  <1>0. Types /\ core \in Core
    BY DEF UiInv, Types
  <1>1. CASE core' = core
    BY <1>1, SameJobsTold
  <1>2. ASSUME NEW n, NEW o \in InvokeCore(Configure(n)), core' = o.core
        PROVE  [Promise!Next]_Told
    <2>1. core' = core \/ core' = Swapped(n)
      BY <1>2, ConfigureAnswers
    <2>2. core'.job = core.job
      BY <1>0, <2>1 DEF Swapped, Core
    <2>3. QED
      BY <2>2, SameJobsTold
  <1>3. CASE Bootstrap
    <2>1. core' = core \/ \E o \in InvokeCore(Configure(backend.network)) : core' = o.core
      BY <1>3 DEF Bootstrap, Local, Answer
    <2>2. QED
      BY <1>1, <1>2, <2>1
  <1>4. CASE SelectNetwork
    <2>1. core' = core \/ \E o \in InvokeCore(Configure(pipe[Waiting].arg)) : core' = o.core
      BY <1>4 DEF SelectNetwork, Local, Answer
    <2>2. QED
      BY <1>1, <1>2, <2>1
  <1>5. CASE StartRequestDrop
    <2> DEFINE k == pipe[Waiting].key
               id == Bounded(pipe[Waiting].arg)
    <2>1. Pending # {} /\ pipe[Waiting].op = "request"
      BY <1>5 DEF StartRequestDrop, Serving
    <2>2. k \in Key /\ id \in Account \cup {Mistyped}
      <3>1. Waiting \in DOMAIN pipe
        BY <1>0, <2>1, WaitingIsFirst
      <3>2. k \in Key /\ press[k] \in Seen /\ id = press[k].id
        BY <2>1, <3>1, RequestIsOfPress
      <3>3. QED
        BY <3>2 DEF Seen
    <2>3. core' = core \/ \E o \in InvokeCore(RequestDrop(k, id)) : core' = o.core
      BY <1>5 DEF StartRequestDrop, Local, Answer
    <2> HIDE DEF k, id
    <2>4. ASSUME NEW o \in InvokeCore(RequestDrop(k, id)), core' = o.core
          PROVE  [Promise!Next]_Told
      <3>1. \/ core' = core
            \/ /\ core.network # Off /\ k \in Key \ Started /\ Live = {}
               /\ core' = Begun(k, id)
        BY <2>2, <2>4, RequestAnswers
      <3>2. QED
        BY <1>0, <1>1, <2>2, <3>1, BeginTold
    <2>5. QED
      BY <1>1, <2>3, <2>4
  <1>6. CASE CancelJob
    <2>1. PICK k : \E o \in InvokeCore(Cancel(k)) : core' = o.core
      BY <1>6 DEF CancelJob, Answer
    <2>2. core' = core \/ (k \in Live /\ core' = Cancelling(k))
      BY <2>1, CancelAnswers
    <2>3. CASE k \in Live /\ core' = Cancelling(k)
      <3>1. /\ core'.job = [core.job EXCEPT ![k].status = "cancelling"]
            /\ core'.network = core.network /\ core'.client = core.client
        BY <1>0, <2>3 DEF Cancelling, Core
      <3>2. QED
        BY <1>0, <2>3, <3>1, AskTold
    <2>4. QED
      BY <1>1, <2>2, <2>3
  <1>7. CASE BackendJobStatus
    <2>1. core' = core \/ \E o \in InvokeCore(JobStatus(pipe[Waiting].key)) : core' = o.core
      BY <1>7 DEF BackendJobStatus, Local, Answer
    <2>2. QED
      BY <1>1, <2>1, StatusAnswers
  <1>8. CASE AcknowledgeJob
    <2>1. PICK k : \E o \in InvokeCore(JobResultAck(k)) :
                     \E code : core' = [o EXCEPT !.code = code].core
      BY <1>8 DEF AcknowledgeJob, Answer
    <2>2. PICK o \in InvokeCore(JobResultAck(k)) :
            \E code : core' = [o EXCEPT !.code = code].core
      BY <2>1
    <2>3. o = [core |-> o.core, code |-> o.code, lost |-> o.lost]
      BY AckAnswers
    <2>4. core' = o.core
      BY <2>2, <2>3
    <2>5. core' = core \/ (k \in Listed \ Live /\ core' = Forgotten(k))
      BY <2>4, AckAnswers
    <2>6. QED
      BY <1>0, <1>1, <2>5, ForgetTold
  <1>9. QED
    BY <1>3, <1>4, <1>5, <1>6, <1>7, <1>8 DEF Serve

LEMMA EveryStepTold ==
  ASSUME UiInv, [Next]_vars
  PROVE  [Promise!Next]_Told
  <1>0. Types /\ CoreInv
    BY DEF UiInv
  <1>1. CASE core' = core
    BY <1>1, SameJobsTold
  <1>2. ASSUME NEW k \in Key, Settle(k)
        PROVE  [Promise!Next]_Told
    BY <1>0, <1>2, SettleTold
  <1>3. CASE Serve
    BY <1>3, ServeTold
  <1>4. CASE Close
    BY <1>0, <1>4, CloseTold
  <1>5. CASE Reopen
    <2>1. core'.job = core.job
      BY <1>0, <1>5 DEF Reopen, Types, Core
    <2>2. QED
      BY <2>1, SameJobsTold
  <1>6. CASE \/ BeginBootstrap \/ Resend \/ PollCredit \/ CancelCreditRequest
             \/ \E n \in Network : Switch(n)
             \/ \E text \in Text : Press(text)
             \/ TakeAnswer \/ LoseAnswer \/ Reload
    <2>1. core' = core
      BY <1>6 DEF BeginBootstrap, Resend, PollCredit, CancelCreditRequest, Switch, Press, ViewStep,
                  TakeAnswer, BootstrapAnswered, SelectAnswered, RequestAnswered, StatusAnswered,
                  AckAnswered, CancelAnswered, Take, LoseAnswer, Reload
    <2>2. QED
      BY <1>1, <2>1
  <1>7. CASE UNCHANGED vars
    BY <1>1, <1>7 DEF vars
  <1>8. QED
    BY <1>2, <1>3, <1>4, <1>5, <1>6, <1>7 DEF Next

\* The core that FaucetBackend is modelled with makes the promise that FaucetModule keeps thread
\* by thread, whatever the view asks, loses and asks again, and whenever the window closes: a
\* request key starts one drop at most, that runs alone, ends once, and is let go of after it
\* ended.
THEOREM CoreKeepsThePromise == Spec => KeepsPromise
  <1>1. Init => Promise!Init
    <2> SUFFICES ASSUME Init PROVE Promise!Init
      OBVIOUS
    <2>1. \A k \in Key : core.job[k] = NoJob
      BY DEF Init
    <2>2. \A k \in Key : core.job[k].status = "none"
      BY <2>1 DEF NoJob
    <2>3. Listed = {}
      BY <2>1 DEF Listed, Started
    <2>4. QED
      BY <2>2, <2>3 DEF Promise!Init
  <1>2. UiInv /\ [Next]_vars
          => [Promise!Next]_<<[k \in Key |-> IF core.job[k].status = "cancelling" THEN "stopping"
                                             ELSE core.job[k].status], Listed>>
    BY EveryStepTold DEF Told, ToldOf
  <1>3. QED
    BY <1>1, <1>2, UiInvariant, PTL DEF Spec, KeepsPromise, Promise!Spec

=============================================================================
