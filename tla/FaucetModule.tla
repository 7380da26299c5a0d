---------------------------- MODULE FaucetModule ----------------------------
(***************************************************************************)
(* The Basecamp core module (faucet-module/): its table of jobs, the       *)
(* worker thread of each job, and the handle of the Rust client they call. *)
(*                                                                         *)
(* The host may enter the module on several threads.  Each critical        *)
(* section and each access to an atomic is a step; a call of the Rust      *)
(* library is two, entering it with the handle that was loaded and coming  *)
(* back.                                                                   *)
(***************************************************************************)
EXTENDS Integers, FiniteSets

CONSTANTS
  Caller,          \* threads of the host that call the module
  Key,             \* request keys
  Calls,           \* which operations each caller uses
  ConfigureAlone,  \* the host configures only while no other call is in progress
  MaxJobs,         \* bound: jobs started over the life of the module
  MaxReads,        \* bound: how many of them are reads
  MaxClients,      \* bound: handles made by configure
  MaxRetained      \* kMaxRetainedJobs

Operation == {"configure", "info", "drop", "cancel", "status", "ack", "shutdown"}
JobId     == 1..MaxJobs
Handle    == 1..MaxClients
Null      == 0      \* no handle, no job
NoKey     == "nokey"

ASSUME CallsAssumption  == Calls \in [Caller -> SUBSET Operation]
ASSUME KeyAssumption    == NoKey \notin Key
ASSUME ConfigAssumption == ConfigureAlone \in BOOLEAN
ASSUME BoundAssumption  == {MaxJobs, MaxReads, MaxClients, MaxRetained} \subseteq Nat

VARIABLES
  client,      \* m_client
  destroyed,   \* history: handles given to lez_faucet_client_destroy
  job,         \* every job ever made; those with `listed` are in m_jobs
  tombstone,   \* m_tombstones
  dropActive,  \* m_dropActive
  stopping,    \* m_stopping
  call         \* the threads of the host

vars == <<client, destroyed, job, tombstone, dropActive, stopping, call>>

-----------------------------------------------------------------------------
Terminal == {"succeeded", "failed", "cancelled", "outcome_unknown"}
Status   == {"queued", "running", "cancelling"} \cup Terminal

NoJob == [status |-> "none"]
Job ==
  [listed : BOOLEAN, key : Key \cup {NoKey}, status : Status, phase : {"none", "live", "final"},
   cancelRequested : BOOLEAN, workerFinished : BOOLEAN,
   joinable : BOOLEAN,                                 \* the thread is in Job::worker
   worker : {"unborn", "start", "drop", "load", "ffi", "unrun", "release", "record", "done"},
   handle : Handle \cup {Null}]                        \* what the worker loaded

NewJob(k) ==
  [listed |-> TRUE, key |-> k, status |-> "queued", phase |-> "none", cancelRequested |-> FALSE,
   workerFinished |-> FALSE, joinable |-> FALSE, worker |-> "unborn", handle |-> Null]

NoTombstone == [status |-> "none"]
Tombstone   == [status : {"queued"} \cup Terminal, job : JobId \cup {Null}]

Idle == [pc |-> "idle", key |-> NoKey, job |-> Null, handle |-> Null, joining |-> {}, seen |-> {}]
Call ==
  [pc : {"idle", "configure", "swap", "discard", "key", "slot", "start", "check", "insert", "spawn",
         "remember", "release", "abandon", "mark", "cancelling", "look", "polling", "phase",
         "ack", "acked", "flag", "quitting", "take", "exchange", "destroy", "rearm"},
   key : Key \cup {NoKey}, job : JobId \cup {Null}, handle : Handle \cup {Null},
   joining : SUBSET JobId,   \* threads it has taken and joins before its next step
   seen : SUBSET JobId]      \* the jobs a shutdown found

TypeOK ==
  /\ client     \in Handle \cup {Null}
  /\ destroyed  \in SUBSET Handle
  /\ job        \in [JobId -> Job \cup {NoJob}]
  /\ tombstone  \in [Key -> Tombstone \cup {NoTombstone}]
  /\ dropActive \in BOOLEAN
  /\ stopping   \in BOOLEAN
  /\ call       \in [Caller -> Call]

Init ==
  /\ client     = Null
  /\ destroyed  = {}
  /\ job        = [j \in JobId |-> NoJob]
  /\ tombstone  = [k \in Key |-> NoTombstone]
  /\ dropActive = FALSE
  /\ stopping   = FALSE
  /\ call       = [c \in Caller |-> Idle]

-----------------------------------------------------------------------------
Made    == {j \in JobId : job[j] # NoJob}
Listed  == {j \in Made : job[j].listed}
Settled == {j \in Made : job[j].status \in Terminal}
Drops   == {j \in Made : job[j].key # NoKey}

\* The handles made so far: the one in use, those in the hands of a caller, those gone.
Handles == (destroyed \cup {client} \cup {call[c].handle : c \in Caller}) \ {Null}

At(c, pc)   == call[c].pc = pc /\ \A j \in call[c].joining : job[j].worker = "done"
Goto(c, pc) == call' = [call EXCEPT ![c].pc = pc, ![c].joining = {}]
Return(c)   == call' = [call EXCEPT ![c] = Idle]

\* The threads in S are moved out of their jobs, to be joined by whoever took them.
Unhand(S) == [j \in JobId |-> IF j \in S THEN [job[j] EXCEPT !.joinable = FALSE] ELSE job[j]]

\* reapFinishedWorkers
Reapable == {j \in Listed : job[j].workerFinished /\ job[j].joinable}

\* A call enters the module, having reaped what has finished.
Enter(c, operation, pc, k, j) ==
  /\ call[c].pc = "idle"
  /\ operation \in Calls[c]
  /\ ConfigureAlone =>
       \A d \in Caller \ {c} :
         /\ call[d].pc \notin {"configure", "swap", "discard"}
         /\ operation = "configure" => call[d].pc = "idle"
  /\ call' = [call EXCEPT ![c] = [Idle EXCEPT !.pc = pc, !.key = k, !.job = j, !.joining = Reapable]]
  /\ job' = Unhand(Reapable)
  /\ UNCHANGED <<client, destroyed, tombstone, dropActive, stopping>>

-----------------------------------------------------------------------------
(* configure *)

Configure(c) == Enter(c, "configure", "configure", NoKey, Null)

ConfigureCheck(c) ==
  /\ At(c, "configure")
  /\ IF stopping \/ ~(Listed \subseteq Settled) THEN Return(c) ELSE Goto(c, "swap")
  /\ UNCHANGED <<client, destroyed, job, tombstone, dropActive, stopping>>

\* lez_faucet_client_new may refuse the url.
ConfigureSwap(c) ==
  /\ At(c, "swap")
  /\ \/ Return(c) /\ UNCHANGED client
     \/ /\ Handles # Handle
        /\ client' = CHOOSE h \in Handle \ Handles : TRUE
        /\ IF client = Null
           THEN Return(c)
           ELSE call' = [call EXCEPT ![c].pc = "discard", ![c].handle = client]
  /\ UNCHANGED <<destroyed, job, tombstone, dropActive, stopping>>

ConfigureDiscard(c) ==
  /\ At(c, "discard")
  /\ destroyed' = destroyed \cup {call[c].handle}
  /\ Return(c)
  /\ UNCHANGED <<client, job, tombstone, dropActive, stopping>>

-----------------------------------------------------------------------------
(* getFaucetInfo, inspectRecipient and requestDrop, up to the start of the worker *)

Info(c) == Cardinality(Made \ Drops) < MaxReads /\ Enter(c, "info", "check", NoKey, Null)
Drop(c) == \E k \in Key : Enter(c, "drop", "key", k, Null)

\* A key seen before is answered from its tombstone, or refused; a new one is reserved.
ReserveKey(c) ==
  /\ At(c, "key")
  /\ LET k == call[c].key IN
     IF ~stopping /\ client # Null /\ tombstone[k] = NoTombstone
     THEN /\ tombstone' = [tombstone EXCEPT ![k] = [status |-> "queued", job |-> Null]]
          /\ Goto(c, "slot")
     ELSE Return(c) /\ UNCHANGED tombstone
  /\ UNCHANGED <<client, destroyed, job, dropActive, stopping>>

ReserveDropSlot(c) ==
  /\ At(c, "slot")
  /\ dropActive' = TRUE
  /\ Goto(c, IF dropActive THEN "abandon" ELSE "start")
  /\ UNCHANGED <<client, destroyed, job, tombstone, stopping>>

\* startJob reaps once more.
StartReap(c) ==
  /\ At(c, "start")
  /\ call' = [call EXCEPT ![c].pc = "check", ![c].joining = Reapable]
  /\ job' = Unhand(Reapable)
  /\ UNCHANGED <<client, destroyed, tombstone, dropActive, stopping>>

\* Mutant: a drop that cannot start gives back its key only.
StartFailsKeepingSlot(c) == IF call[c].key = NoKey THEN Return(c) ELSE Goto(c, "abandon")

\* A drop that cannot start gives back its slot and its key.
StartFails(c) == IF call[c].key = NoKey THEN Return(c) ELSE Goto(c, "release")

StartCheck(c) ==
  /\ At(c, "check")
  /\ IF stopping \/ client = Null THEN StartFails(c) ELSE Goto(c, "insert")
  /\ UNCHANGED <<client, destroyed, job, tombstone, dropActive, stopping>>

\* The table may be full; so may the bound on jobs.
StartInsert(c) ==
  /\ At(c, "insert")
  /\ IF Cardinality(Listed) >= MaxRetained \/ Made = JobId
     THEN StartFails(c) /\ UNCHANGED job
     ELSE \E j \in JobId \ Made :
            /\ \A i \in JobId : i < j => i \in Made
            /\ job' = [job EXCEPT ![j] = NewJob(call[c].key)]
            /\ call' = [call EXCEPT ![c].pc = "spawn", ![c].job = j]
  /\ UNCHANGED <<client, destroyed, tombstone, dropActive, stopping>>

\* The job's mutex is held from before the thread starts until its handle is stored.
StartSpawn(c) ==
  /\ At(c, "spawn")
  /\ job' = [job EXCEPT ![call[c].job].worker = "start", ![call[c].job].joinable = TRUE]
  /\ IF call[c].key = NoKey THEN Return(c) ELSE Goto(c, "remember")
  /\ UNCHANGED <<client, destroyed, tombstone, dropActive, stopping>>

\* Mutant: the tombstone is written anew.
RememberAsQueued(c) ==
  /\ At(c, "remember")
  /\ tombstone' = [tombstone EXCEPT ![call[c].key] = [status |-> "queued", job |-> call[c].job]]
  /\ Return(c)
  /\ UNCHANGED <<client, destroyed, job, dropActive, stopping>>

RememberRequestKey(c) ==
  /\ At(c, "remember")
  /\ tombstone' = [tombstone EXCEPT ![call[c].key].job = call[c].job]
  /\ Return(c)
  /\ UNCHANGED <<client, destroyed, job, dropActive, stopping>>

ReleaseDropSlot(c) ==
  /\ At(c, "release")
  /\ dropActive' = FALSE
  /\ Goto(c, "abandon")
  /\ UNCHANGED <<client, destroyed, job, tombstone, stopping>>

AbandonReservation(c) ==
  /\ At(c, "abandon")
  /\ tombstone' = IF tombstone[call[c].key].job = Null
                  THEN [tombstone EXCEPT ![call[c].key] = NoTombstone]
                  ELSE tombstone
  /\ Return(c)
  /\ UNCHANGED <<client, destroyed, job, dropActive, stopping>>

-----------------------------------------------------------------------------
(* cancel, jobStatus and jobResultAck *)

Cancel(c)    == \E j \in Listed : Enter(c, "cancel", "mark", NoKey, j)
JobStatus(c) == \E j \in Listed : Enter(c, "status", "look", NoKey, j)
Ack(c)       == \E j \in Listed : Enter(c, "ack", "ack", NoKey, j)

\* Only a drop has an operation token to cancel.
CancelMark(c) ==
  /\ At(c, "mark")
  /\ LET j == call[c].job IN
     IF j \in Listed \ Settled
     THEN /\ job' = [job EXCEPT ![j].cancelRequested = TRUE, ![j].status = "cancelling"]
          /\ IF j \in Drops /\ client # Null
             THEN call' = [call EXCEPT ![c].pc = "cancelling", ![c].handle = client,
                                       ![c].joining = {}]
             ELSE Return(c)
     ELSE Return(c) /\ UNCHANGED job
  /\ UNCHANGED <<client, destroyed, tombstone, dropActive, stopping>>

CancelReturn(c) ==
  /\ At(c, "cancelling")
  /\ Return(c)
  /\ UNCHANGED <<client, destroyed, job, tombstone, dropActive, stopping>>

\* refreshJobPhase: only a live drop has a phase to poll.
StatusLook(c) ==
  /\ At(c, "look")
  /\ IF call[c].job \in (Listed \cap Drops) \ Settled /\ client # Null
     THEN call' = [call EXCEPT ![c].pc = "polling", ![c].handle = client, ![c].joining = {}]
     ELSE Return(c)
  /\ UNCHANGED <<client, destroyed, job, tombstone, dropActive, stopping>>

StatusPolled(c) ==
  /\ At(c, "polling")
  /\ Goto(c, "phase") \/ Return(c)
  /\ UNCHANGED <<client, destroyed, job, tombstone, dropActive, stopping>>

\* Mutant: the phase is written without another look at the job.
StatusPhaseStale(c) ==
  /\ At(c, "phase")
  /\ job' = [job EXCEPT ![call[c].job].phase = "live"]
  /\ Return(c)
  /\ UNCHANGED <<client, destroyed, tombstone, dropActive, stopping>>

StatusPhase(c) ==
  /\ At(c, "phase")
  /\ job' = IF call[c].job \in Settled THEN job ELSE [job EXCEPT ![call[c].job].phase = "live"]
  /\ Return(c)
  /\ UNCHANGED <<client, destroyed, tombstone, dropActive, stopping>>

\* Mutant: acknowledging a drop forgets its key.
AckForgetsKey(c) ==
  /\ At(c, "ack")
  /\ LET j == call[c].job IN
     IF j \in Listed \cap Settled
     THEN /\ job' = [job EXCEPT ![j].listed = FALSE, ![j].joinable = FALSE]
          /\ tombstone' = [k \in Key |-> IF job[j].key = k THEN NoTombstone ELSE tombstone[k]]
          /\ call' = [call EXCEPT ![c].pc = "acked",
                                  ![c].joining = IF job[j].joinable THEN {j} ELSE {}]
     ELSE Return(c) /\ UNCHANGED <<job, tombstone>>
  /\ UNCHANGED <<client, destroyed, dropActive, stopping>>

\* Mutant: the job is erased with its thread.
AckLeavesThread(c) ==
  /\ At(c, "ack")
  /\ LET j == call[c].job IN
     IF j \in Listed \cap Settled
     THEN job' = [job EXCEPT ![j].listed = FALSE] /\ Goto(c, "acked")
     ELSE Return(c) /\ UNCHANGED job
  /\ UNCHANGED <<client, destroyed, tombstone, dropActive, stopping>>

AckErase(c) ==
  /\ At(c, "ack")
  /\ LET j == call[c].job IN
     IF j \in Listed \cap Settled
     THEN /\ job' = [job EXCEPT ![j].listed = FALSE, ![j].joinable = FALSE]
          /\ IF job[j].joinable
             THEN call' = [call EXCEPT ![c].pc = "acked", ![c].joining = {j}]
             ELSE Return(c)
     ELSE Return(c) /\ UNCHANGED job
  /\ UNCHANGED <<client, destroyed, tombstone, dropActive, stopping>>

AckReturn(c) ==
  /\ At(c, "acked")
  /\ Return(c)
  /\ UNCHANGED <<client, destroyed, job, tombstone, dropActive, stopping>>

-----------------------------------------------------------------------------
(* shutdown *)

Shutdown(c) ==
  /\ call[c].pc = "idle"
  /\ "shutdown" \in Calls[c]
  /\ ConfigureAlone => \A d \in Caller : call[d].pc \notin {"configure", "swap", "discard"}
  /\ stopping' = TRUE
  /\ Goto(c, "flag")
  /\ UNCHANGED <<client, destroyed, job, tombstone, dropActive>>

\* joinAllWorkers, steps 2 and 3: the live jobs are flagged, and Rust is asked to give up the
\* drops among them.
ShutdownFlag(c) ==
  /\ At(c, "flag")
  /\ job' = [j \in JobId |-> IF j \in Listed \ Settled
                             THEN [job[j] EXCEPT !.cancelRequested = TRUE] ELSE job[j]]
  /\ call' = [call EXCEPT ![c].seen = Listed, ![c].handle = client,
                          ![c].pc = IF client = Null \/ Listed \cap Drops \subseteq Settled
                                    THEN "take" ELSE "quitting"]
  /\ UNCHANGED <<client, destroyed, tombstone, dropActive, stopping>>

ShutdownQuit(c) ==
  /\ At(c, "quitting")
  /\ Goto(c, "take")
  /\ UNCHANGED <<client, destroyed, job, tombstone, dropActive, stopping>>

\* Mutant: the live drops are asked to stop, and not waited for.
ShutdownTakeNone(c) ==
  /\ At(c, "take")
  /\ Goto(c, "exchange")
  /\ UNCHANGED <<client, destroyed, job, tombstone, dropActive, stopping>>

\* Step 4, and the join.
ShutdownTake(c) ==
  /\ At(c, "take")
  /\ LET taken == {j \in Made \cap call[c].seen : job[j].joinable} IN
     /\ job' = Unhand(taken)
     /\ call' = [call EXCEPT ![c].pc = "exchange", ![c].joining = taken, ![c].seen = {}]
  /\ UNCHANGED <<client, destroyed, tombstone, dropActive, stopping>>

ShutdownExchange(c) ==
  /\ At(c, "exchange")
  /\ client' = Null
  /\ call' = [call EXCEPT ![c].pc = IF client = Null THEN "rearm" ELSE "destroy",
                          ![c].handle = client, ![c].joining = {}]
  /\ UNCHANGED <<destroyed, job, tombstone, dropActive, stopping>>

ShutdownDestroy(c) ==
  /\ At(c, "destroy")
  /\ destroyed' = destroyed \cup {call[c].handle}
  /\ Goto(c, "rearm")
  /\ UNCHANGED <<client, job, tombstone, dropActive, stopping>>

ShutdownRearm(c) ==
  /\ At(c, "rearm")
  /\ stopping' = FALSE
  /\ Return(c)
  /\ UNCHANGED <<client, destroyed, job, tombstone, dropActive>>

-----------------------------------------------------------------------------
(* The worker thread of a job. *)

Worker(j, pc) == j \in Made /\ job[j].worker = pc

WorkerStart(j) ==
  /\ Worker(j, "start")
  /\ job' = IF job[j].cancelRequested \/ stopping
            THEN [job EXCEPT ![j].worker = "unrun"]
            ELSE [job EXCEPT ![j].status = "running",
                             ![j].worker = IF j \in Drops THEN "drop" ELSE "load"]
  /\ UNCHANGED <<client, destroyed, tombstone, dropActive, stopping, call>>

RunDrop(j) ==
  /\ Worker(j, "drop")
  /\ job' = [job EXCEPT ![j].worker = IF job[j].cancelRequested \/ stopping
                                     THEN "unrun" ELSE "load"]
  /\ UNCHANGED <<client, destroyed, tombstone, dropActive, stopping, call>>

RunFfiCall(j) ==
  /\ Worker(j, "load")
  /\ job' = [job EXCEPT ![j].worker = "ffi", ![j].handle = client]
  /\ UNCHANGED <<client, destroyed, tombstone, dropActive, stopping, call>>

\* Mutant: a drop comes back cancelled though nobody asked.
OutcomesUnasked(j) ==
  IF job[j].worker = "unrun" THEN {"cancelled"}
  ELSE IF job[j].handle = Null THEN {"failed"}
  ELSE {"succeeded", "failed"} \cup (IF j \in Drops THEN {"outcome_unknown", "cancelled"} ELSE {})

\* What a worker may come back with: without a client it only fails, and Rust answers
\* cancelled only to a drop it was asked to cancel.
Outcomes(j) ==
  IF job[j].worker = "unrun" THEN {"cancelled"}
  ELSE IF job[j].handle = Null THEN {"failed"}
  ELSE {"succeeded", "failed"}
         \cup (IF j \in Drops THEN {"outcome_unknown"} ELSE {})
         \cup (IF j \in Drops /\ job[j].cancelRequested THEN {"cancelled"} ELSE {})

SettleJob(j) ==
  /\ Worker(j, "unrun") \/ Worker(j, "ffi")
  /\ \E outcome \in Outcomes(j), phase \in {job[j].phase, "final"} :
       /\ phase = "final" => j \in Drops /\ job[j].handle # Null /\ outcome # "succeeded"
       /\ job' = [job EXCEPT ![j].status = outcome, ![j].phase = phase, ![j].handle = Null,
                             ![j].workerFinished = TRUE,
                             ![j].worker = IF j \in Drops THEN "release" ELSE "done"]
  /\ UNCHANGED <<client, destroyed, tombstone, dropActive, stopping, call>>

WorkerRelease(j) ==
  /\ Worker(j, "release")
  /\ dropActive' = FALSE
  /\ job' = [job EXCEPT ![j].worker = "record"]
  /\ UNCHANGED <<client, destroyed, tombstone, stopping, call>>

RecordTombstoneStatus(j) ==
  /\ Worker(j, "record")
  /\ tombstone' = [tombstone EXCEPT ![job[j].key].status = job[j].status]
  /\ job' = [job EXCEPT ![j].worker = "done"]
  /\ UNCHANGED <<client, destroyed, dropActive, stopping, call>>

-----------------------------------------------------------------------------
Begin(c) ==
  \/ Configure(c)
  \/ Info(c)
  \/ Drop(c)
  \/ Cancel(c)
  \/ JobStatus(c)
  \/ Ack(c)
  \/ Shutdown(c)

Continue(c) ==
  \/ ConfigureCheck(c)
  \/ ConfigureSwap(c)
  \/ ConfigureDiscard(c)
  \/ ReserveKey(c)
  \/ ReserveDropSlot(c)
  \/ StartReap(c)
  \/ StartCheck(c)
  \/ StartInsert(c)
  \/ StartSpawn(c)
  \/ RememberRequestKey(c)
  \/ ReleaseDropSlot(c)
  \/ AbandonReservation(c)
  \/ CancelMark(c)
  \/ CancelReturn(c)
  \/ StatusLook(c)
  \/ StatusPolled(c)
  \/ StatusPhase(c)
  \/ AckErase(c)
  \/ AckReturn(c)
  \/ ShutdownFlag(c)
  \/ ShutdownQuit(c)
  \/ ShutdownTake(c)
  \/ ShutdownExchange(c)
  \/ ShutdownDestroy(c)
  \/ ShutdownRearm(c)

Work(j) ==
  \/ WorkerStart(j)
  \/ RunDrop(j)
  \/ RunFfiCall(j)
  \/ SettleJob(j)
  \/ WorkerRelease(j)
  \/ RecordTombstoneStatus(j)

Next ==
  \/ \E c \in Caller : Begin(c) \/ Continue(c)
  \/ \E j \in JobId : Work(j)

Spec == Init /\ [][Next]_vars

-----------------------------------------------------------------------------
(* What the module promises about its drops. *)

\* A drop is asked to stop by a cancel, by a shutdown that flags it, or by finding the module
\* stopping.
ShownStatus(drop) ==
  IF drop.status \in Terminal THEN drop.status
  ELSE IF drop.cancelRequested \/ drop.worker = "unrun" THEN "stopping" ELSE "running"

Shown(k) ==
  IF \A j \in Drops : job[j].key # k THEN "none"
  ELSE ShownStatus(job[CHOOSE j \in Drops : job[j].key = k])

Promise == INSTANCE DropPromise WITH
  status <- [k \in Key |-> Shown(k)],
  listed <- {job[j].key : j \in Listed} \ {NoKey}

\* However the threads interleave, the callers of the module see one drop per key that starts
\* alone, ends once, and is cancelled only if somebody asked.
KeepsPromise == Promise!Spec

-----------------------------------------------------------------------------
(* What the module must never do. *)

\* A worker is never inside the Rust library with a client that was destroyed under it.
WorkersHoldClient ==
  \A j \in Made : job[j].worker = "ffi" => job[j].handle \notin destroyed

\* A request key starts one drop in the life of the module, whoever repeats it and whatever
\* was acknowledged, refused or shut down in between.
OneDropPerKey == \A i, j \in Drops : job[i].key = job[j].key => i = j

\* The drop slot has one holder while it is taken and none while it is free: no path loses it
\* or gives back somebody else's.
SlotHolders ==
  {j \in Drops : job[j].worker \notin {"unborn", "record", "done"}}
    \cup {c \in Caller : /\ call[c].pc \in {"start", "check", "insert", "spawn", "release"}
                         /\ call[c].key # NoKey}

SlotHasOneHolder == Cardinality(SlotHolders) = IF dropActive THEN 1 ELSE 0

\* Every thread can still be joined: its handle is in a job of the table, or somebody is
\* joining it.  A job that is freed with a joinable thread ends the host process.
NoThreadIsLost ==
  \A j \in Made :
    /\ job[j].joinable => job[j].listed
    /\ job[j].worker \notin {"unborn", "done"} =>
         job[j].joinable \/ \E c \in Caller : j \in call[c].joining

\* Once a drop was acknowledged and its thread joined, a repeated key is answered with the
\* drop's outcome.
AcknowledgedIsRecorded ==
  \A k \in Key :
    /\ tombstone[k] # NoTombstone
    /\ tombstone[k].job \in Made \ Listed
    /\ \A c \in Caller : tombstone[k].job \notin call[c].joining
    => tombstone[k].status = job[tombstone[k].job].status

\* A terminal status and its phase stay, whatever cancels, polls or shuts down late.
SettledIsFinal ==
  [][\A j \in Settled : /\ job'[j].status = job[j].status
                        /\ job'[j].phase = job[j].phase]_job

\* "After this loop no thread is inside an FFI call, which is the precondition the caller
\* needs before destroying the client handle."
CallersHoldClient ==
  \A c \in Caller :
    call[c].pc \in {"cancelling", "polling", "quitting"} => call[c].handle \notin destroyed

=============================================================================
