------------------------- MODULE FaucetModuleProofs -------------------------
(*****************************************************************************)
(* Proofs about the core module, for every number of threads, keys and       *)
(* jobs: a request key starts one drop in the life of the module; no thread  *)
(* is lost; what a drop ended with stays, and is recorded before its result  *)
(* can be released; a drop that is not settled has the slot for itself; no   *)
(* client is given back twice; and the module implements DropPromise.        *)
(*****************************************************************************)
EXTENDS FaucetModule, FiniteSetTheorems, TLAPS

-----------------------------------------------------------------------------
(* The inductive invariant. *)

Keyed == {"key", "slot", "remember", "release", "abandon"}
OfJob == {"mark", "cancelling", "look", "polling", "phase", "ack", "acked", "spawn", "remember"}
Began == {"spawn", "remember"}

\* The caller that made the reservation of its key, and has yet to give it up or fill it in.
Holding(c) ==
  /\ call[c].pc \in {"slot", "start", "check", "insert", "release", "abandon"} \cup Began
  /\ call[c].key # NoKey

CallFits(c) ==
  /\ call[c].pc \in Keyed => call[c].key # NoKey
  /\ call[c].pc \in OfJob => call[c].job \in Made
  /\ call[c].pc \in {"discard", "destroy"} => call[c].handle # Null

WorkerFits(j) ==
  job[j].worker \in {"release", "record"} => job[j].key # NoKey /\ job[j].status \in Terminal

\* Whoever holds a key has it reserved, alone, and no drop has it but the one he started.
Reserved ==
  \A c \in Caller : Holding(c) =>
    /\ tombstone[call[c].key] # NoTombstone
    /\ \A d \in Caller : Holding(d) /\ call[d].key = call[c].key => d = c
    /\ \A j \in Drops : job[j].key = call[c].key => call[c].pc \in Began /\ j = call[c].job

ModuleInv ==
  /\ TypeOK
  /\ \A c \in Caller : CallFits(c)
  /\ \A j \in Made : WorkerFits(j)
  /\ Reserved
  /\ \A j \in Drops : tombstone[job[j].key] # NoTombstone
  /\ OneDropPerKey

-----------------------------------------------------------------------------
(* Steps that make and reserve nothing. *)

\* No job is made or loses its key.
JobsKeep ==
  /\ job' \in [JobId -> Job \cup {NoJob}]
  /\ \A j \in JobId : job'[j] = NoJob <=> job[j] = NoJob
  /\ \A j \in Made : job'[j].key = job[j].key /\ WorkerFits(j)'

\* Caller c is at pc, with this key, job and handle; the others are where they were.
Moves(c, pc, k, j, h) ==
  /\ call' \in [Caller -> Call]
  /\ call'[c].pc = pc /\ call'[c].key = k /\ call'[c].job = j /\ call'[c].handle = h
  /\ \A d \in Caller \ {c} : call'[d] = call[d]

\* The variables a step leaves in their types, and the reservations it leaves in place.
RestKeeps ==
  /\ client' \in Handle \cup {Null} /\ destroyed' \in SUBSET Handle
  /\ dropActive' \in BOOLEAN /\ stopping' \in BOOLEAN
  /\ tombstone' \in [Key -> Tombstone \cup {NoTombstone}]
  /\ \A k \in Key : tombstone[k] # NoTombstone => tombstone'[k] # NoTombstone

LEMMA MadeIs ==
  ASSUME TypeOK, NEW j \in JobId
  PROVE  /\ j \in Made => job[j] \in Job /\ job[j].key \in Key \cup {NoKey}
         /\ job[j].status # "none" => j \in Made
  BY DEF TypeOK, Made, Job, NoJob

LEMMA JobIsMade == ASSUME NEW r \in Job PROVE r # NoJob
  <1>1. r.status # NoJob.status
    BY DEF Job, NoJob, Status, Terminal
  <1>2. QED
    BY <1>1

LEMMA DropsKeep ==
  ASSUME JobsKeep
  PROVE  /\ Made' = Made /\ Drops' = Drops
         /\ \A j \in Drops : job'[j].key = job[j].key
  BY DEF JobsKeep, Made, Drops

LEMMA CallerStep ==
  ASSUME ModuleInv, JobsKeep, RestKeeps, NEW c \in Caller, NEW pc, NEW k, NEW j, NEW h,
         Moves(c, pc, k, j, h),
         pc \in Keyed => k # NoKey, pc \in OfJob => j \in Made,
         pc \in {"discard", "destroy"} => h # Null,
         Holding(c)' => /\ Holding(c) /\ k = call[c].key
                        /\ call[c].pc \in Began => pc \in Began /\ j = call[c].job
  PROVE  ModuleInv'
  <1> USE DEF ModuleInv
  <1>1. Made' = Made /\ Drops' = Drops /\ \A i \in Drops : job'[i].key = job[i].key
    BY DropsKeep
  <1>2. TypeOK'
    BY DEF TypeOK, JobsKeep, RestKeeps, Moves
  <1>3. ASSUME NEW d \in Caller
        PROVE  CallFits(d)'
    <2>1. CASE d = c
      BY <1>1, <2>1 DEF CallFits, Moves, Keyed, OfJob
    <2>2. CASE d # c
      BY <1>1, <2>2 DEF CallFits, Moves, Keyed, OfJob
    <2>3. QED
      BY <2>1, <2>2
  <1>4. \A i \in Made' : WorkerFits(i)'
    BY <1>1 DEF JobsKeep
  <1>5. ASSUME NEW d \in Caller
        PROVE  Holding(d)' => /\ Holding(d) /\ call'[d].key = call[d].key
                              /\ call[d].pc \in Began =>
                                   call'[d].pc \in Began /\ call'[d].job = call[d].job
    <2>1. CASE d = c
      BY <2>1 DEF Moves
    <2>2. CASE d # c
      BY <2>2 DEF Moves, Holding
    <2>3. QED
      BY <2>1, <2>2
  <1>6. \A d \in Caller : Holding(d) => call[d].key \in Key
    BY DEF Holding, TypeOK, Call
  <1>7. Reserved'
    BY <1>1, <1>5, <1>6 DEF Reserved, RestKeeps
  <1>8. \A i \in Drops' : tombstone'[job'[i].key] # NoTombstone
    <2>1. \A i \in Drops : job[i].key \in Key
      BY MadeIs DEF Drops, Made
    <2>2. QED
      BY <1>1, <2>1 DEF RestKeeps
  <1>9. OneDropPerKey'
    BY <1>1 DEF OneDropPerKey
  <1>10. QED
    BY <1>2, <1>3, <1>4, <1>7, <1>8, <1>9 DEF NoTombstone

LEMMA WorkerStep ==
  ASSUME ModuleInv, JobsKeep, RestKeeps, UNCHANGED call
  PROVE  ModuleInv'
  <1> USE DEF ModuleInv
  <1>1. Made' = Made /\ Drops' = Drops /\ \A i \in Drops : job'[i].key = job[i].key
    BY DropsKeep
  <1>2. TypeOK'
    BY DEF TypeOK, JobsKeep, RestKeeps
  <1>3. \A d \in Caller : CallFits(d)'
    BY <1>1 DEF CallFits
  <1>4. \A i \in Made' : WorkerFits(i)'
    BY <1>1 DEF JobsKeep
  <1>5. \A d \in Caller : (Holding(d)' <=> Holding(d)) /\ (Holding(d) => call[d].key \in Key)
    BY DEF Holding, TypeOK, Call
  <1>6. Reserved'
    BY <1>1, <1>5 DEF Reserved, RestKeeps
  <1>7. \A i \in Drops' : tombstone'[job'[i].key] # NoTombstone
    <2>1. \A i \in Drops : job[i].key \in Key
      BY MadeIs DEF Drops, Made
    <2>2. QED
      BY <1>1, <2>1 DEF RestKeeps
  <1>8. OneDropPerKey'
    BY <1>1 DEF OneDropPerKey
  <1>9. QED
    BY <1>2, <1>3, <1>4, <1>6, <1>7, <1>8 DEF NoTombstone

-----------------------------------------------------------------------------
(* What the actions are made of. *)

Pcs == {"idle", "configure", "swap", "discard", "key", "slot", "start", "check", "insert", "spawn",
        "remember", "release", "abandon", "mark", "cancelling", "look", "polling", "phase",
        "ack", "acked", "flag", "quitting", "take", "exchange", "destroy", "rearm"}

LEMMA JobFields ==
  ASSUME NEW r \in Job
  PROVE  r = [listed |-> r.listed, key |-> r.key, status |-> r.status, phase |-> r.phase,
              cancelRequested |-> r.cancelRequested, workerFinished |-> r.workerFinished,
              joinable |-> r.joinable, worker |-> r.worker, handle |-> r.handle]
  BY DEF Job

LEMMA CallFields ==
  ASSUME NEW r \in Call
  PROVE  r = [pc |-> r.pc, key |-> r.key, job |-> r.job, handle |-> r.handle,
              joining |-> r.joining, seen |-> r.seen]
  BY DEF Call

LEMMA GotoMoves ==
  ASSUME TypeOK, NEW c \in Caller, NEW pc \in Pcs, Goto(c, pc)
  PROVE  Moves(c, pc, call[c].key, call[c].job, call[c].handle)
  <1> DEFINE next == [call[c] EXCEPT !.pc = pc, !.joining = {}]
  <1>1. call[c] \in Call /\ call \in [Caller -> Call]
    BY DEF TypeOK
  <1>2. Call = [pc : Pcs, key : Key \cup {NoKey}, job : JobId \cup {Null},
                handle : Handle \cup {Null}, joining : SUBSET JobId, seen : SUBSET JobId]
    BY DEF Call, Pcs
  <1>3. /\ next.pc = pc /\ next.key = call[c].key /\ next.job = call[c].job
        /\ next.handle = call[c].handle
    BY <1>1, <1>2
  <1>4. next \in Call
    BY <1>1, <1>2
  <1>5. call' = [call EXCEPT ![c] = next]
    BY <1>1, <1>2 DEF Goto
  <1> HIDE DEF next
  <1>6. QED
    BY <1>1, <1>3, <1>4, <1>5 DEF Moves

LEMMA ReturnMoves ==
  ASSUME TypeOK, NEW c \in Caller, Return(c)
  PROVE  Moves(c, "idle", NoKey, Null, Null)
  <1>1. Idle \in Call
    BY DEF Idle, Call
  <1>2. QED
    BY <1>1 DEF TypeOK, Return, Moves, Idle

LEMMA QuietJobs ==
  ASSUME ModuleInv, UNCHANGED job
  PROVE  JobsKeep
  <1>1. job' \in [JobId -> Job \cup {NoJob}]
    BY DEF ModuleInv, TypeOK
  <1>2. \A j \in Made : WorkerFits(j)'
    BY DEF ModuleInv, WorkerFits
  <1>3. QED
    BY <1>1, <1>2 DEF JobsKeep, Made, NoJob

LEMMA UnhandKeeps ==
  ASSUME ModuleInv, NEW S \in SUBSET Made, job' = Unhand(S)
  PROVE  JobsKeep
  <1>1. ASSUME NEW j \in JobId
        PROVE  /\ job'[j] \in Job \cup {NoJob} /\ (job'[j] = NoJob <=> job[j] = NoJob)
               /\ j \in Made => job'[j].key = job[j].key /\ WorkerFits(j)'
    <2>1. CASE j \in S
      <3>1. job[j] \in Job /\ job'[j] = [job[j] EXCEPT !.joinable = FALSE] /\ WorkerFits(j)
        BY <2>1, MadeIs DEF ModuleInv, Unhand
      <3>2. /\ job'[j] \in Job /\ job'[j].key = job[j].key /\ job'[j].worker = job[j].worker
            /\ job'[j].status = job[j].status
        BY <3>1 DEF Job
      <3>3. QED
        BY <3>1, <3>2, JobIsMade DEF WorkerFits
    <2>2. CASE j \notin S
      BY <2>2 DEF ModuleInv, TypeOK, Unhand, WorkerFits
    <2>3. QED
      BY <2>1, <2>2
  <1>2. DOMAIN job' = JobId /\ job' = [j \in JobId |-> job'[j]]
    BY DEF Unhand
  <1>3. QED
    BY <1>1, <1>2 DEF JobsKeep, Made

\* One job changes, but for its key, and fits where its worker goes.
LEMMA JobChanges ==
  ASSUME ModuleInv, NEW j \in Made, NEW next \in Job, job' = [job EXCEPT ![j] = next],
         next.key = job[j].key,
         next.worker \in {"release", "record"} => next.key # NoKey /\ next.status \in Terminal
  PROVE  JobsKeep
  <1>1. j \in JobId /\ job \in [JobId -> Job \cup {NoJob}]
    BY DEF Made, ModuleInv, TypeOK
  <1>2. job'[j] = next /\ (\A i \in JobId \ {j} : job'[i] = job[i]) /\ next # NoJob /\ job[j] # NoJob
    BY <1>1, JobIsMade DEF Made
  <1>3. job' \in [JobId -> Job \cup {NoJob}]
    BY <1>1
  <1>4. \A i \in Made : job'[i].key = job[i].key /\ WorkerFits(i)'
    <2>1. WorkerFits(j)' /\ job'[j].key = job[j].key
      BY <1>2 DEF WorkerFits
    <2>2. ASSUME NEW i \in Made \ {j}
          PROVE  job'[i].key = job[i].key /\ WorkerFits(i)'
      BY <1>2 DEF WorkerFits, Made, ModuleInv
    <2>3. QED
      BY <2>1, <2>2
  <1>5. QED
    BY <1>2, <1>3, <1>4 DEF JobsKeep

LEMMA RestIsQuiet ==
  ASSUME ModuleInv, UNCHANGED <<client, destroyed, tombstone, dropActive, stopping>>
  PROVE  RestKeeps
  BY DEF ModuleInv, TypeOK, RestKeeps

LEMMA EnterStep ==
  ASSUME ModuleInv, NEW c \in Caller, NEW operation,
         NEW pc \in {"configure", "check", "key", "mark", "look", "ack"},
         NEW k \in Key \cup {NoKey}, NEW j \in JobId \cup {Null}, Enter(c, operation, pc, k, j),
         pc = "key" <=> k # NoKey, pc \in {"mark", "look", "ack"} => j \in Made
  PROVE  ModuleInv'
  <1>1. Moves(c, pc, k, j, Null)
    <2>1. Reapable \in SUBSET JobId
      BY DEF Reapable, Listed, Made
    <2>2. [Idle EXCEPT !.pc = pc, !.key = k, !.job = j, !.joining = Reapable] \in Call
      BY <2>1 DEF Idle, Call
    <2>3. QED
      BY <2>2 DEF Enter, ModuleInv, TypeOK, Moves, Idle
  <1>2. JobsKeep
    <2>1. Reapable \in SUBSET Made
      BY DEF Reapable, Listed
    <2>2. QED
      BY <2>1, UnhandKeeps DEF Enter
  <1>3. RestKeeps
    BY RestIsQuiet DEF Enter
  <1>4. ~Holding(c)'
    BY <1>1 DEF Moves, Holding, Began
  <1>5. QED
    BY <1>1, <1>2, <1>3, <1>4, CallerStep DEF Keyed, OfJob

\* A caller returns, or goes where it needs no job and holds no key it did not hold.
LEMMA ReturnStep ==
  ASSUME ModuleInv, NEW c \in Caller, JobsKeep, RestKeeps, Return(c)
  PROVE  ModuleInv'
  <1>1. Moves(c, "idle", NoKey, Null, Null)
    BY ReturnMoves DEF ModuleInv
  <1>2. ~Holding(c)'
    BY <1>1 DEF Moves, Holding
  <1>3. QED
    BY <1>1, <1>2, CallerStep DEF Keyed, OfJob

LEMMA GotoStep ==
  ASSUME ModuleInv, NEW c \in Caller, JobsKeep, RestKeeps, NEW pc \in Pcs, Goto(c, pc),
         pc \in Keyed => call[c].key # NoKey, pc \in OfJob => call[c].job \in Made,
         pc \in {"discard", "destroy"} => call[c].handle # Null,
         Holding(c)' => Holding(c) /\ (call[c].pc \in Began => pc \in Began)
  PROVE  ModuleInv'
  <1>1. Moves(c, pc, call[c].key, call[c].job, call[c].handle)
    BY GotoMoves DEF ModuleInv
  <1>2. QED
    BY <1>1, CallerStep

-----------------------------------------------------------------------------
(* configure *)

LEMMA ConfigureSteps ==
  ASSUME ModuleInv, NEW c \in Caller,
         ConfigureCheck(c) \/ ConfigureSwap(c) \/ ConfigureDiscard(c)
  PROVE  ModuleInv'
  <1>0. TypeOK /\ CallFits(c)
    BY DEF ModuleInv
  <1>1. JobsKeep
    BY QuietJobs DEF ConfigureCheck, ConfigureSwap, ConfigureDiscard
  <1>2. CASE ConfigureCheck(c)
    <2>1. RestKeeps
      BY <1>2, RestIsQuiet DEF ConfigureCheck
    <2>2. CASE Return(c)
      BY <1>1, <2>1, <2>2, ReturnStep
    <2>3. CASE Goto(c, "swap")
      <3>1. ~Holding(c)'
        BY <1>0, <2>3, GotoMoves DEF Moves, Holding, Began, Pcs
      <3>2. QED
        BY <1>1, <2>1, <2>3, <3>1, GotoStep DEF Pcs, Keyed, OfJob
    <2>4. QED
      BY <1>2, <2>2, <2>3 DEF ConfigureCheck
  <1>3. CASE ConfigureSwap(c)
    <2>1. RestKeeps
      <3>1. client' \in Handle \cup {Null}
        <4>1. CASE Handles # Handle /\ client' = CHOOSE h \in Handle \ Handles : TRUE
          <5>1. Handles \subseteq Handle
            BY <1>0 DEF Handles, TypeOK, Call
          <5>2. \E h \in Handle \ Handles : TRUE
            BY <4>1, <5>1
          <5>3. QED
            BY <4>1, <5>2
        <4>2. CASE UNCHANGED client
          BY <1>0, <4>2 DEF TypeOK
        <4>3. QED
          BY <1>3, <4>1, <4>2 DEF ConfigureSwap
      <3>2. QED
        BY <1>0, <1>3, <3>1 DEF ConfigureSwap, RestKeeps, TypeOK
    <2>2. CASE Return(c)
      BY <1>1, <2>1, <2>2, ReturnStep
    <2>3. CASE client # Null /\ call' = [call EXCEPT ![c].pc = "discard", ![c].handle = client]
      <3>1. Moves(c, "discard", call[c].key, call[c].job, client)
        <4> DEFINE next == [call[c] EXCEPT !.pc = "discard", !.handle = client]
        <4>1. call[c] \in Call /\ call \in [Caller -> Call] /\ client \in Handle \cup {Null}
          BY <1>0 DEF TypeOK
        <4>2. /\ next \in Call /\ next.pc = "discard" /\ next.key = call[c].key
              /\ next.job = call[c].job /\ next.handle = client
          BY <4>1 DEF Call
        <4>3. call' = [call EXCEPT ![c] = next]
          BY <2>3, <4>1 DEF Call
        <4> HIDE DEF next
        <4>4. QED
          BY <4>1, <4>2, <4>3 DEF Moves
      <3>2. ~Holding(c)'
        BY <3>1 DEF Moves, Holding, Began
      <3>3. QED
        BY <1>1, <2>1, <2>3, <3>1, <3>2, CallerStep DEF Keyed, OfJob
    <2>4. QED
      BY <1>3, <2>2, <2>3 DEF ConfigureSwap
  <1>4. CASE ConfigureDiscard(c)
    <2>1. RestKeeps
      <3>1. call[c].handle \in Handle
        BY <1>0, <1>4 DEF ConfigureDiscard, At, CallFits, TypeOK, Call
      <3>2. QED
        BY <1>0, <1>4, <3>1 DEF ConfigureDiscard, RestKeeps, TypeOK
    <2>2. QED
      BY <1>1, <1>4, <2>1, ReturnStep DEF ConfigureDiscard
  <1>5. QED
    BY <1>2, <1>3, <1>4

-----------------------------------------------------------------------------
(* requestDrop *)

\* A key is reserved by one caller, and only when no drop has it.
LEMMA ReserveKeyStep ==
  ASSUME ModuleInv, NEW c \in Caller, ReserveKey(c)
  PROVE  ModuleInv'
  <1>0. TypeOK /\ CallFits(c) /\ Reserved /\ OneDropPerKey /\ (\A d \in Caller : CallFits(d))
    BY DEF ModuleInv
  <1>1. JobsKeep
    BY QuietJobs DEF ReserveKey
  <1>2. CASE Return(c) /\ UNCHANGED tombstone
    BY <1>1, <1>2, RestIsQuiet, ReturnStep DEF ReserveKey
  <1> DEFINE k == call[c].key
  <1>3. CASE /\ tombstone[k] = NoTombstone /\ Goto(c, "slot")
             /\ tombstone' = [tombstone EXCEPT ![k] = [status |-> "queued", job |-> Null]]
    <2>1. k \in Key /\ k # NoKey
      BY <1>0 DEF ReserveKey, At, CallFits, Keyed, TypeOK, Call
    <2>2. Moves(c, "slot", k, call[c].job, call[c].handle)
      BY <1>0, <1>3, GotoMoves DEF Pcs
    <2>3. /\ tombstone' \in [Key -> Tombstone \cup {NoTombstone}]
          /\ tombstone'[k] # NoTombstone
          /\ \A q \in Key \ {k} : tombstone'[q] = tombstone[q]
      <3>1. [status |-> "queued", job |-> Null] \in Tombstone
        BY DEF Tombstone
      <3>2. [status |-> "queued", job |-> Null].status # NoTombstone.status
        BY DEF NoTombstone
      <3>3. [status |-> "queued", job |-> Null] # NoTombstone
        BY <3>2
      <3>4. QED
        BY <1>0, <1>3, <2>1, <3>1, <3>3 DEF TypeOK
    <2>4. Made' = Made /\ Drops' = Drops /\ UNCHANGED job
      BY DEF ReserveKey, Made, Drops
    <2>5. TypeOK'
      BY <1>0, <2>2, <2>3 DEF TypeOK, Moves, ReserveKey
    <2>6. ASSUME NEW d \in Caller
          PROVE  CallFits(d)'
      BY <1>0, <2>1, <2>2, <2>4 DEF CallFits, Moves, Keyed, OfJob
    <2>7. \A j \in Made' : WorkerFits(j)'
      BY <1>1, <2>4 DEF JobsKeep
    <2>8. \A d \in Caller \ {c} : /\ Holding(d)' <=> Holding(d)
                                  /\ Holding(d) => call[d].key # k /\ call[d].key \in Key
      BY <1>0, <1>3, <2>2 DEF Holding, Moves, Reserved, TypeOK, Call
    <2>9. \A j \in Drops : job[j].key # k /\ job[j].key \in Key
      BY <1>3, MadeIs DEF ModuleInv, Drops, Made
    <2>10. Reserved'
      BY <1>0, <2>2, <2>3, <2>4, <2>8, <2>9 DEF Reserved, Moves, NoTombstone
    <2>11. \A j \in Drops' : tombstone'[job'[j].key] # NoTombstone
      BY <2>3, <2>4, <2>9 DEF ModuleInv
    <2>12. OneDropPerKey'
      BY <1>0, <2>4 DEF OneDropPerKey
    <2>13. QED
      BY <2>5, <2>6, <2>7, <2>10, <2>11, <2>12 DEF ModuleInv, NoTombstone
  <1>4. QED
    BY <1>2, <1>3 DEF ReserveKey

LEMMA ExceptMoves ==
  ASSUME TypeOK, NEW c \in Caller, NEW next \in Call, call' = [call EXCEPT ![c] = next]
  PROVE  Moves(c, next.pc, next.key, next.job, next.handle)
  BY DEF TypeOK, Moves

LEMMA SlotSteps ==
  ASSUME ModuleInv, NEW c \in Caller,
         ReserveDropSlot(c) \/ StartReap(c) \/ StartCheck(c) \/ ReleaseDropSlot(c)
  PROVE  ModuleInv'
  <1>0. TypeOK /\ CallFits(c)
    BY DEF ModuleInv
  <1>1. CASE ReserveDropSlot(c)
    <2>1. JobsKeep
      BY <1>1, QuietJobs DEF ReserveDropSlot
    <2>2. RestKeeps
      BY <1>0, <1>1 DEF ReserveDropSlot, RestKeeps, TypeOK
    <2>3. PICK pc \in {"abandon", "start"} : Goto(c, pc)
      BY <1>1 DEF ReserveDropSlot
    <2>4. Holding(c) /\ call[c].key # NoKey /\ call[c].pc \notin Began
      BY <1>0, <1>1 DEF ReserveDropSlot, At, CallFits, Keyed, Holding, Began
    <2>5. QED
      BY <2>1, <2>2, <2>3, <2>4, GotoStep DEF Pcs, Keyed, OfJob
  <1>2. CASE StartReap(c)
    <2>1. JobsKeep
      <3>1. Reapable \in SUBSET Made
        BY DEF Reapable, Listed
      <3>2. QED
        BY <1>2, <3>1, UnhandKeeps DEF StartReap
    <2>2. RestKeeps
      BY <1>2, RestIsQuiet DEF StartReap
    <2>3. Moves(c, "check", call[c].key, call[c].job, call[c].handle)
      <3> DEFINE next == [call[c] EXCEPT !.pc = "check", !.joining = Reapable]
      <3>1. call[c] \in Call /\ call \in [Caller -> Call] /\ Reapable \in SUBSET JobId
        BY <1>0 DEF TypeOK, Reapable, Listed, Made
      <3>2. /\ next \in Call /\ next.pc = "check" /\ next.key = call[c].key
            /\ next.job = call[c].job /\ next.handle = call[c].handle
        BY <3>1 DEF Call
      <3>3. call' = [call EXCEPT ![c] = next]
        BY <1>2, <3>1 DEF StartReap, Call
      <3> HIDE DEF next
      <3>4. QED
        BY <1>0, <3>2, <3>3, ExceptMoves
    <2>4. Holding(c)' => Holding(c) /\ call[c].pc \notin Began
      BY <1>2, <2>3 DEF StartReap, At, Moves, Holding, Began
    <2>5. QED
      BY <2>1, <2>2, <2>3, <2>4, CallerStep DEF Keyed, OfJob
  <1>3. CASE StartCheck(c)
    <2>1. JobsKeep /\ RestKeeps
      BY <1>3, QuietJobs, RestIsQuiet DEF StartCheck
    <2>2. CASE Return(c)
      BY <2>1, <2>2, ReturnStep
    <2>3. CASE \E pc \in {"release", "insert"} : Goto(c, pc) /\ (pc = "release" => call[c].key # NoKey)
      <3>1. PICK pc \in {"release", "insert"} : Goto(c, pc) /\ (pc = "release" => call[c].key # NoKey)
        BY <2>3
      <3>2. Moves(c, pc, call[c].key, call[c].job, call[c].handle)
        BY <1>0, <3>1, GotoMoves DEF Pcs
      <3>3. Holding(c)' => Holding(c) /\ call[c].pc \notin Began
        BY <1>3, <3>2 DEF StartCheck, At, Moves, Holding, Began
      <3>4. QED
        BY <2>1, <3>1, <3>3, GotoStep DEF Pcs, Keyed, OfJob
    <2>4. QED
      BY <1>3, <2>2, <2>3 DEF StartCheck, StartFails
  <1>4. CASE ReleaseDropSlot(c)
    <2>1. JobsKeep
      BY <1>4, QuietJobs DEF ReleaseDropSlot
    <2>2. RestKeeps
      BY <1>0, <1>4 DEF ReleaseDropSlot, RestKeeps, TypeOK
    <2>3. Holding(c) /\ call[c].key # NoKey /\ call[c].pc \notin Began
      BY <1>0, <1>4 DEF ReleaseDropSlot, At, CallFits, Keyed, Holding, Began
    <2>4. QED
      BY <1>4, <2>1, <2>2, <2>3, GotoStep DEF ReleaseDropSlot, Pcs, Keyed, OfJob
  <1>5. QED
    BY <1>1, <1>2, <1>3, <1>4

LEMMA NewJobIsQueued ==
  ASSUME NEW k \in Key \cup {NoKey}
  PROVE  /\ NewJob(k) \in Job /\ NewJob(k) # NoJob /\ NewJob(k).key = k
         /\ NewJob(k).worker = "unborn"
  <1>1. NewJob(k) \in Job /\ NewJob(k).key = k /\ NewJob(k).worker = "unborn"
    BY DEF NewJob, Job, Status
  <1>2. QED
    BY <1>1, JobIsMade

\* The holder of a key starts its drop; nobody else can, and none was started.
LEMMA StartInsertStep ==
  ASSUME ModuleInv, NEW c \in Caller, StartInsert(c)
  PROVE  ModuleInv'
  <1>0. TypeOK /\ CallFits(c) /\ Reserved /\ OneDropPerKey /\ (\A d \in Caller : CallFits(d))
    BY DEF ModuleInv
  <1>1. RestKeeps
    BY RestIsQuiet DEF StartInsert
  <1>2. call[c].pc = "insert" /\ call[c].key \in Key \cup {NoKey}
    BY <1>0 DEF StartInsert, At, TypeOK, Call
  <1> DEFINE k == call[c].key
  <1>3. CASE StartFails(c) /\ UNCHANGED job
    <2>1. JobsKeep
      BY <1>3, QuietJobs
    <2>2. CASE Return(c)
      BY <1>1, <2>1, <2>2, ReturnStep
    <2>3. CASE Goto(c, "release") /\ k # NoKey
      <3>1. Holding(c) /\ call[c].pc \notin Began
        BY <1>2, <2>3 DEF Holding, Began
      <3>2. QED
        BY <1>1, <2>1, <2>3, <3>1, GotoStep DEF Pcs, Keyed, OfJob
    <2>4. QED
      BY <1>3, <2>2, <2>3 DEF StartFails
  <1>4. ASSUME NEW j \in JobId \ Made, job' = [job EXCEPT ![j] = NewJob(k)],
               call' = [call EXCEPT ![c].pc = "spawn", ![c].job = j]
        PROVE  ModuleInv'
    <2>1. Moves(c, "spawn", k, j, call[c].handle)
      <3> DEFINE next == [call[c] EXCEPT !.pc = "spawn", !.job = j]
      <3>1. call[c] \in Call /\ call \in [Caller -> Call]
        BY <1>0 DEF TypeOK
      <3>2. /\ next \in Call /\ next.pc = "spawn" /\ next.key = k
            /\ next.job = j /\ next.handle = call[c].handle
        BY <3>1 DEF Call
      <3>3. call' = [call EXCEPT ![c] = next]
        BY <1>4, <3>1 DEF Call
      <3> HIDE DEF next
      <3>4. QED
        BY <1>0, <3>2, <3>3, ExceptMoves
    <2>2. /\ job' \in [JobId -> Job \cup {NoJob}] /\ job'[j] = NewJob(k)
          /\ \A i \in JobId \ {j} : job'[i] = job[i]
      BY <1>0, <1>2, <1>4, NewJobIsQueued DEF TypeOK
    <2>3. Made' = Made \cup {j} /\ Drops' = Drops \cup (IF k = NoKey THEN {} ELSE {j})
      <3>1. Made' = Made \cup {j}
        BY <1>2, <2>2, NewJobIsQueued DEF Made
      <3>2. job'[j].key = k /\ \A i \in Made : job'[i].key = job[i].key
        BY <1>2, <2>2, NewJobIsQueued DEF Made
      <3>3. QED
        BY <3>1, <3>2 DEF Drops
    <2>4. job'[j].key = k /\ (\A i \in Drops : job'[i].key = job[i].key /\ job[i].key \in Key)
      BY <1>0, <1>2, <2>2, MadeIs, NewJobIsQueued DEF Drops, Made
    <2>5. UNCHANGED tombstone
      BY DEF StartInsert
    <2>6. TypeOK'
      BY <1>1, <2>1, <2>2 DEF TypeOK, Moves, RestKeeps
    <2>7. ASSUME NEW d \in Caller
          PROVE  CallFits(d)'
      BY <1>0, <2>1, <2>3 DEF CallFits, Moves, Keyed, OfJob
    <2>8. ASSUME NEW i \in Made'
          PROVE  WorkerFits(i)'
      <3>1. CASE i = j
        BY <1>2, <2>2, <3>1, NewJobIsQueued DEF WorkerFits
      <3>2. CASE i # j
        BY <2>2, <2>3, <3>2 DEF WorkerFits, Made, ModuleInv
      <3>3. QED
        BY <3>1, <3>2
    <2>9. k # NoKey => Holding(c) /\ call[c].pc \notin Began
      BY <1>2 DEF Holding, Began
    <2>10. ASSUME NEW d \in Caller, Holding(d)'
           PROVE  /\ Holding(d) /\ call'[d].key = call[d].key /\ tombstone[call[d].key] # NoTombstone
                  /\ \A i \in Drops' : job'[i].key = call[d].key =>
                       call'[d].pc \in Began /\ i = call'[d].job
      <3>1. CASE d = c
        <4>1. Holding(c) /\ call'[c].pc = "spawn" /\ call'[c].job = j /\ call'[c].key = k
          BY <2>1, <2>9, <2>10, <3>1 DEF Moves, Holding
        <4>2. tombstone[k] # NoTombstone /\ \A i \in Drops : job[i].key # k
          BY <1>0, <2>9, <4>1 DEF Reserved, Holding
        <4>3. QED
          BY <2>3, <2>4, <3>1, <4>1, <4>2 DEF Began
      <3>2. CASE d # c
        <4>1. call'[d] = call[d] /\ Holding(d)
          BY <2>1, <2>10, <3>2 DEF Moves, Holding
        <4>2. k # NoKey => call[d].key # k
          BY <1>0, <2>9, <3>2, <4>1 DEF Reserved
        <4>3. QED
          BY <1>0, <2>3, <2>4, <4>1, <4>2 DEF Reserved
      <3>3. QED
        BY <3>1, <3>2
    <2>11. Reserved'
      BY <1>0, <2>5, <2>10 DEF Reserved, NoTombstone
    <2>12. \A i \in Drops' : tombstone'[job'[i].key] # NoTombstone
      BY <1>0, <2>3, <2>4, <2>5, <2>9 DEF ModuleInv, Reserved
    <2>13. OneDropPerKey'
      BY <1>0, <2>3, <2>4, <2>9 DEF OneDropPerKey, Reserved
    <2>14. QED
      BY <2>6, <2>7, <2>8, <2>11, <2>12, <2>13 DEF ModuleInv, NoTombstone
  <1>5. QED
    BY <1>3, <1>4 DEF StartInsert

LEMMA StartSpawnStep ==
  ASSUME ModuleInv, NEW c \in Caller, StartSpawn(c)
  PROVE  ModuleInv'
  <1>0. TypeOK /\ CallFits(c)
    BY DEF ModuleInv
  <1>1. RestKeeps
    BY RestIsQuiet DEF StartSpawn
  <1> DEFINE j == call[c].job
  <1>2. j \in Made /\ j \in JobId /\ job[j] \in Job
    BY <1>0, MadeIs DEF StartSpawn, At, CallFits, OfJob, Made
  <1>3. JobsKeep
    <2> DEFINE next == [job[j] EXCEPT !.worker = "start", !.joinable = TRUE]
    <2>1. next \in Job /\ next.key = job[j].key /\ next.worker = "start"
      BY <1>2 DEF Job
    <2>2. job' = [job EXCEPT ![j] = next]
      BY <1>0, <1>2 DEF StartSpawn, TypeOK, Job
    <2> HIDE DEF next
    <2>3. QED
      BY <1>2, <2>1, <2>2, JobChanges
  <1>4. CASE Return(c)
    BY <1>1, <1>3, <1>4, ReturnStep
  <1>5. CASE Goto(c, "remember") /\ call[c].key # NoKey
    <2>1. Holding(c)
      BY <1>5 DEF StartSpawn, At, Holding, Began
    <2>2. QED
      BY <1>1, <1>2, <1>3, <1>5, <2>1, GotoStep DEF Pcs, Began
  <1>6. QED
    BY <1>4, <1>5 DEF StartSpawn

LEMMA RememberRequestKeyStep ==
  ASSUME ModuleInv, NEW c \in Caller, RememberRequestKey(c)
  PROVE  ModuleInv'
  <1>0. TypeOK /\ CallFits(c) /\ Reserved
    BY DEF ModuleInv
  <1> DEFINE k == call[c].key
             j == call[c].job
             next == [tombstone[k] EXCEPT !.job = j]
  <1>1. k \in Key /\ k # NoKey /\ j \in JobId /\ Holding(c)
    BY <1>0 DEF RememberRequestKey, At, CallFits, Keyed, OfJob, TypeOK, Call, Holding, Began, Made
  <1>2. tombstone[k] \in Tombstone
    BY <1>0, <1>1 DEF Reserved, TypeOK
  <1>3. next \in Tombstone /\ next # NoTombstone
    <2>1. next \in Tombstone /\ next.status = tombstone[k].status
      BY <1>1, <1>2 DEF Tombstone
    <2>2. next.status # NoTombstone.status
      BY <2>1 DEF Tombstone, NoTombstone, Terminal
    <2>3. QED
      BY <2>1, <2>2
  <1>4. tombstone' = [tombstone EXCEPT ![k] = next]
    BY <1>0, <1>1, <1>2 DEF RememberRequestKey, TypeOK, Tombstone
  <1> HIDE DEF next
  <1>5. RestKeeps
    BY <1>0, <1>1, <1>3, <1>4 DEF RestKeeps, RememberRequestKey, TypeOK
  <1>6. JobsKeep
    BY QuietJobs DEF RememberRequestKey
  <1>7. QED
    BY <1>5, <1>6, ReturnStep DEF RememberRequestKey

\* A reservation is taken back by the one who made it, before it started a drop.
LEMMA AbandonReservationStep ==
  ASSUME ModuleInv, NEW c \in Caller, AbandonReservation(c)
  PROVE  ModuleInv'
  <1>0. TypeOK /\ CallFits(c) /\ Reserved /\ OneDropPerKey /\ (\A d \in Caller : CallFits(d))
    BY DEF ModuleInv
  <1> DEFINE k == call[c].key
  <1>1. JobsKeep /\ Made' = Made /\ Drops' = Drops /\ UNCHANGED job
    BY QuietJobs, DropsKeep DEF AbandonReservation
  <1>2. k \in Key /\ k # NoKey /\ Holding(c) /\ call[c].pc \notin Began
    BY <1>0 DEF AbandonReservation, At, CallFits, Keyed, TypeOK, Call, Holding, Began
  <1>3. Moves(c, "idle", NoKey, Null, Null)
    BY <1>0, ReturnMoves DEF AbandonReservation
  <1>4. /\ tombstone' \in [Key -> Tombstone \cup {NoTombstone}]
        /\ \A q \in Key \ {k} : tombstone'[q] = tombstone[q]
    BY <1>0, <1>2 DEF AbandonReservation, TypeOK
  <1>5. \A j \in Drops : job[j].key # k /\ job[j].key \in Key
    BY <1>0, <1>2, MadeIs DEF Reserved, Drops, Made
  <1>6. TypeOK'
    BY <1>0, <1>3, <1>4 DEF TypeOK, Moves, AbandonReservation
  <1>7. ASSUME NEW d \in Caller
        PROVE  CallFits(d)'
    BY <1>0, <1>1, <1>3 DEF CallFits, Moves, Keyed, OfJob
  <1>8. \A j \in Made' : WorkerFits(j)'
    BY <1>1 DEF JobsKeep
  <1>9. ASSUME NEW d \in Caller, Holding(d)'
        PROVE  /\ Holding(d) /\ call'[d] = call[d]
               /\ tombstone'[call[d].key] # NoTombstone
    <2>1. d # c
      BY <1>3, <1>9 DEF Moves, Holding, Began
    <2>2. Holding(d) /\ call'[d] = call[d] /\ call[d].key \in Key
      BY <1>0, <1>3, <1>9, <2>1 DEF Moves, Holding, TypeOK, Call
    <2>3. call[d].key # k
      BY <1>0, <1>2, <2>1, <2>2 DEF Reserved
    <2>4. QED
      BY <1>0, <1>4, <2>2, <2>3 DEF Reserved
  <1>10. Reserved'
    BY <1>0, <1>1, <1>9 DEF Reserved, NoTombstone
  <1>11. \A j \in Drops' : tombstone'[job'[j].key] # NoTombstone
    BY <1>1, <1>4, <1>5 DEF ModuleInv
  <1>12. OneDropPerKey'
    BY <1>0, <1>1 DEF OneDropPerKey
  <1>13. QED
    BY <1>6, <1>7, <1>8, <1>10, <1>11, <1>12 DEF ModuleInv, NoTombstone

-----------------------------------------------------------------------------
(* cancel, jobStatus and jobResultAck *)

LEMMA CancelSteps ==
  ASSUME ModuleInv, NEW c \in Caller, CancelMark(c) \/ CancelReturn(c)
  PROVE  ModuleInv'
  <1>0. TypeOK
    BY DEF ModuleInv
  <1>1. RestKeeps
    BY RestIsQuiet DEF CancelMark, CancelReturn
  <1> DEFINE j == call[c].job
  <1>2. JobsKeep
    <2>1. CASE UNCHANGED job
      BY <2>1, QuietJobs
    <2>2. CASE /\ j \in Listed \ Settled
               /\ job' = [job EXCEPT ![j].cancelRequested = TRUE, ![j].status = "cancelling"]
      <3> DEFINE next == [job[j] EXCEPT !.cancelRequested = TRUE, !.status = "cancelling"]
      <3>1. /\ j \in Made /\ j \in JobId /\ job[j] \in Job /\ WorkerFits(j)
            /\ job[j].status \notin Terminal
        BY <1>0, <2>2, MadeIs DEF Listed, Settled, Made, ModuleInv
      <3>2. next \in Job /\ next.key = job[j].key /\ next.worker = job[j].worker
        BY <3>1 DEF Job, Status
      <3>3. job' = [job EXCEPT ![j] = next]
        BY <1>0, <2>2, <3>1 DEF TypeOK, Job
      <3>4. next.worker \notin {"release", "record"}
        BY <3>1, <3>2 DEF WorkerFits
      <3> HIDE DEF next
      <3>5. QED
        BY <3>1, <3>2, <3>3, <3>4, JobChanges
    <2>3. QED
      BY <2>1, <2>2 DEF CancelMark, CancelReturn
  <1>3. CASE Return(c)
    BY <1>1, <1>2, <1>3, ReturnStep
  <1>4. CASE /\ j \in Made
             /\ call' = [call EXCEPT ![c].pc = "cancelling", ![c].handle = client, ![c].joining = {}]
    <2>1. Moves(c, "cancelling", call[c].key, j, client)
      <3> DEFINE next == [call[c] EXCEPT !.pc = "cancelling", !.handle = client, !.joining = {}]
      <3>1. call[c] \in Call /\ call \in [Caller -> Call] /\ client \in Handle \cup {Null}
        BY <1>0 DEF TypeOK
      <3>2. /\ next \in Call /\ next.pc = "cancelling" /\ next.key = call[c].key
            /\ next.job = j /\ next.handle = client
        BY <3>1 DEF Call
      <3>3. call' = [call EXCEPT ![c] = next]
        BY <1>4, <3>1 DEF Call
      <3> HIDE DEF next
      <3>4. QED
        BY <1>0, <3>2, <3>3, ExceptMoves
    <2>2. ~Holding(c)'
      BY <2>1 DEF Moves, Holding, Began
    <2>3. QED
      BY <1>1, <1>2, <1>4, <2>1, <2>2, CallerStep DEF Keyed
  <1>5. QED
    BY <1>3, <1>4 DEF CancelMark, CancelReturn, Listed

LEMMA StatusSteps ==
  ASSUME ModuleInv, NEW c \in Caller, StatusLook(c) \/ StatusPolled(c) \/ StatusPhase(c)
  PROVE  ModuleInv'
  <1>0. TypeOK /\ CallFits(c)
    BY DEF ModuleInv
  <1>1. RestKeeps
    BY RestIsQuiet DEF StatusLook, StatusPolled, StatusPhase
  <1> DEFINE j == call[c].job
  <1>2. CASE StatusLook(c)
    <2>1. JobsKeep
      BY <1>2, QuietJobs DEF StatusLook
    <2>2. CASE Return(c)
      BY <1>1, <2>1, <2>2, ReturnStep
    <2>3. CASE /\ j \in Made
               /\ call' = [call EXCEPT ![c].pc = "polling", ![c].handle = client, ![c].joining = {}]
      <3>1. Moves(c, "polling", call[c].key, j, client)
        <4> DEFINE next == [call[c] EXCEPT !.pc = "polling", !.handle = client, !.joining = {}]
        <4>1. call[c] \in Call /\ call \in [Caller -> Call] /\ client \in Handle \cup {Null}
          BY <1>0 DEF TypeOK
        <4>2. /\ next \in Call /\ next.pc = "polling" /\ next.key = call[c].key
              /\ next.job = j /\ next.handle = client
          BY <4>1 DEF Call
        <4>3. call' = [call EXCEPT ![c] = next]
          BY <2>3, <4>1 DEF Call
        <4> HIDE DEF next
        <4>4. QED
          BY <1>0, <4>2, <4>3, ExceptMoves
      <3>2. ~Holding(c)'
        BY <3>1 DEF Moves, Holding, Began
      <3>3. QED
        BY <1>1, <2>1, <2>3, <3>1, <3>2, CallerStep DEF Keyed
    <2>4. QED
      BY <1>2, <2>2, <2>3 DEF StatusLook, Listed
  <1>3. CASE StatusPolled(c)
    <2>1. JobsKeep
      BY <1>3, QuietJobs DEF StatusPolled
    <2>2. CASE Goto(c, "phase")
      <3>1. ~Holding(c)'
        BY <1>0, <2>2, GotoMoves DEF Moves, Holding, Began, Pcs
      <3>2. j \in Made
        BY <1>0, <1>3 DEF StatusPolled, At, CallFits, OfJob
      <3>3. QED
        BY <1>1, <2>1, <2>2, <3>1, <3>2, GotoStep DEF Pcs, Keyed
    <2>3. QED
      BY <1>1, <1>3, <2>1, <2>2, ReturnStep DEF StatusPolled
  <1>4. CASE StatusPhase(c)
    <2>1. j \in Made /\ j \in JobId /\ job[j] \in Job /\ WorkerFits(j)
      BY <1>0, <1>4, MadeIs DEF StatusPhase, At, CallFits, OfJob, Made, ModuleInv
    <2>2. CASE job' = job
      BY <1>1, <1>4, <2>2, QuietJobs, ReturnStep DEF StatusPhase
    <2>3. CASE job' = [job EXCEPT ![j].phase = "live"]
      <3> DEFINE next == [job[j] EXCEPT !.phase = "live"]
      <3>1. /\ next \in Job /\ next.key = job[j].key /\ next.worker = job[j].worker
            /\ next.status = job[j].status
        BY <2>1 DEF Job
      <3>2. job' = [job EXCEPT ![j] = next]
        BY <2>3
      <3> HIDE DEF next
      <3>3. JobsKeep
        BY <2>1, <3>1, <3>2, JobChanges DEF WorkerFits
      <3>4. QED
        BY <1>1, <1>4, <3>3, ReturnStep DEF StatusPhase
    <2>4. QED
      BY <1>4, <2>2, <2>3 DEF StatusPhase
  <1>5. QED
    BY <1>2, <1>3, <1>4

LEMMA AckSteps ==
  ASSUME ModuleInv, NEW c \in Caller, AckErase(c) \/ AckReturn(c)
  PROVE  ModuleInv'
  <1>0. TypeOK
    BY DEF ModuleInv
  <1>1. RestKeeps
    BY RestIsQuiet DEF AckErase, AckReturn
  <1> DEFINE j == call[c].job
  <1>2. JobsKeep
    <2>1. CASE UNCHANGED job
      BY <2>1, QuietJobs
    <2>2. CASE /\ j \in Listed
               /\ job' = [job EXCEPT ![j].listed = FALSE, ![j].joinable = FALSE]
      <3> DEFINE next == [job[j] EXCEPT !.listed = FALSE, !.joinable = FALSE]
      <3>1. j \in Made /\ j \in JobId /\ job[j] \in Job /\ WorkerFits(j)
        BY <1>0, <2>2, MadeIs DEF Listed, Made, ModuleInv
      <3>2. /\ next \in Job /\ next.key = job[j].key /\ next.worker = job[j].worker
            /\ next.status = job[j].status
        BY <3>1 DEF Job
      <3>3. job' = [job EXCEPT ![j] = next]
        BY <1>0, <2>2, <3>1 DEF TypeOK, Job
      <3> HIDE DEF next
      <3>4. QED
        BY <3>1, <3>2, <3>3, JobChanges DEF WorkerFits
    <2>3. QED
      BY <2>1, <2>2 DEF AckErase, AckReturn
  <1>3. CASE Return(c)
    BY <1>1, <1>2, <1>3, ReturnStep
  <1>4. CASE /\ j \in Made
             /\ call' = [call EXCEPT ![c].pc = "acked", ![c].joining = {j}]
    <2>1. Moves(c, "acked", call[c].key, j, call[c].handle)
      <3> DEFINE next == [call[c] EXCEPT !.pc = "acked", !.joining = {j}]
      <3>1. call[c] \in Call /\ call \in [Caller -> Call] /\ j \in JobId
        BY <1>0, <1>4 DEF TypeOK, Made
      <3>2. /\ next \in Call /\ next.pc = "acked" /\ next.key = call[c].key
            /\ next.job = j /\ next.handle = call[c].handle
        BY <3>1 DEF Call
      <3>3. call' = [call EXCEPT ![c] = next]
        BY <1>4, <3>1 DEF Call
      <3> HIDE DEF next
      <3>4. QED
        BY <1>0, <3>2, <3>3, ExceptMoves
    <2>2. ~Holding(c)'
      BY <2>1 DEF Moves, Holding, Began
    <2>3. QED
      BY <1>1, <1>2, <1>4, <2>1, <2>2, CallerStep DEF Keyed
  <1>5. QED
    BY <1>3, <1>4 DEF AckErase, AckReturn, Listed

-----------------------------------------------------------------------------
(* shutdown *)

\* A shutdown goes where no job and no key is needed.
LEMMA ShutdownMoves ==
  ASSUME ModuleInv, NEW c \in Caller, JobsKeep, RestKeeps,
         NEW pc \in {"flag", "quitting", "take", "exchange", "destroy", "rearm"},
         NEW next \in Call, call' = [call EXCEPT ![c] = next], next.pc = pc,
         pc = "destroy" => next.handle # Null
  PROVE  ModuleInv'
  <1>1. Moves(c, pc, next.key, next.job, next.handle)
    BY ExceptMoves DEF ModuleInv
  <1>2. ~Holding(c)'
    BY <1>1 DEF Moves, Holding, Began
  <1>3. QED
    BY <1>1, <1>2, CallerStep DEF Keyed, OfJob

LEMMA ShutdownGoes ==
  ASSUME ModuleInv, NEW c \in Caller, JobsKeep, RestKeeps,
         NEW pc \in {"flag", "take", "exchange", "rearm"}, Goto(c, pc)
  PROVE  ModuleInv'
  <1> DEFINE next == [call[c] EXCEPT !.pc = pc, !.joining = {}]
  <1>1. call[c] \in Call /\ call \in [Caller -> Call]
    BY DEF ModuleInv, TypeOK
  <1>2. next \in Call /\ next.pc = pc
    BY <1>1 DEF Call
  <1>3. call' = [call EXCEPT ![c] = next]
    BY <1>1 DEF Goto, Call
  <1> HIDE DEF next
  <1>4. QED
    BY <1>2, <1>3, ShutdownMoves

LEMMA ShutdownSteps ==
  ASSUME ModuleInv, NEW c \in Caller,
         \/ Shutdown(c) \/ ShutdownFlag(c) \/ ShutdownQuit(c) \/ ShutdownTake(c)
         \/ ShutdownExchange(c) \/ ShutdownDestroy(c) \/ ShutdownRearm(c)
  PROVE  ModuleInv'
  <1>0. TypeOK /\ CallFits(c) /\ call[c] \in Call /\ call \in [Caller -> Call]
    BY DEF ModuleInv, TypeOK
  <1>1. CASE Shutdown(c)
    <2>1. JobsKeep /\ RestKeeps
      BY <1>0, <1>1, QuietJobs DEF Shutdown, RestKeeps, TypeOK
    <2>2. QED
      BY <1>1, <2>1, ShutdownGoes DEF Shutdown
  <1>2. CASE ShutdownFlag(c)
    <2>1. RestKeeps
      BY <1>2, RestIsQuiet DEF ShutdownFlag
    <2>2. JobsKeep
      <3>1. ASSUME NEW j \in JobId
            PROVE  /\ job'[j] \in Job \cup {NoJob} /\ (job'[j] = NoJob <=> job[j] = NoJob)
                   /\ j \in Made => job'[j].key = job[j].key /\ WorkerFits(j)'
        <4>1. CASE j \in Listed \ Settled
          <5>1. /\ job[j] \in Job /\ job'[j] = [job[j] EXCEPT !.cancelRequested = TRUE]
                /\ WorkerFits(j) /\ j \in Made
            BY <1>0, <1>2, <4>1, MadeIs DEF ShutdownFlag, Listed, ModuleInv
          <5>2. /\ job'[j] \in Job /\ job'[j].key = job[j].key
                /\ job'[j].worker = job[j].worker /\ job'[j].status = job[j].status
            BY <5>1 DEF Job
          <5>3. QED
            BY <5>1, <5>2, JobIsMade DEF WorkerFits
        <4>2. CASE j \notin Listed \ Settled
          BY <1>0, <1>2, <4>2 DEF ShutdownFlag, ModuleInv, TypeOK, WorkerFits
        <4>3. QED
          BY <4>1, <4>2
      <3>2. job' = [j \in JobId |-> job'[j]]
        BY <1>2 DEF ShutdownFlag
      <3>3. QED
        BY <3>1, <3>2 DEF JobsKeep, Made
    <2>3. PICK pc \in {"take", "quitting"} :
            call' = [call EXCEPT ![c].seen = Listed, ![c].handle = client, ![c].pc = pc]
      BY <1>2 DEF ShutdownFlag
    <2> DEFINE next == [call[c] EXCEPT !.seen = Listed, !.handle = client, !.pc = pc]
    <2>4. next \in Call /\ next.pc = pc
      <3>1. Listed \in SUBSET JobId /\ client \in Handle \cup {Null}
        BY <1>0 DEF Listed, Made, TypeOK
      <3>2. QED
        BY <1>0, <3>1 DEF Call
    <2>5. call' = [call EXCEPT ![c] = next]
      BY <1>0, <2>3 DEF Call
    <2> HIDE DEF next
    <2>6. QED
      BY <2>1, <2>2, <2>4, <2>5, ShutdownMoves
  <1>3. CASE ShutdownQuit(c)
    BY <1>3, QuietJobs, RestIsQuiet, ShutdownGoes DEF ShutdownQuit
  <1>4. CASE ShutdownTake(c)
    <2> DEFINE taken == {j \in Made \cap call[c].seen : job[j].joinable}
               next  == [call[c] EXCEPT !.pc = "exchange", !.joining = taken, !.seen = {}]
    <2>1. RestKeeps
      BY <1>4, RestIsQuiet DEF ShutdownTake
    <2>2. taken \in SUBSET Made /\ taken \in SUBSET JobId
      BY DEF Made
    <2>3. JobsKeep
      BY <1>4, <2>2, UnhandKeeps DEF ShutdownTake
    <2>4. next \in Call /\ next.pc = "exchange"
      BY <1>0, <2>2 DEF Call
    <2>5. call' = [call EXCEPT ![c] = next]
      BY <1>0, <1>4 DEF ShutdownTake, Call
    <2> HIDE DEF next
    <2>6. QED
      BY <2>1, <2>3, <2>4, <2>5, ShutdownMoves
  <1>5. CASE ShutdownExchange(c)
    <2>1. JobsKeep
      BY <1>5, QuietJobs DEF ShutdownExchange
    <2>2. RestKeeps
      BY <1>0, <1>5 DEF ShutdownExchange, RestKeeps, TypeOK
    <2>3. PICK pc \in {"rearm", "destroy"} :
            /\ pc = "destroy" => client # Null
            /\ call' = [call EXCEPT ![c].pc = pc, ![c].handle = client, ![c].joining = {}]
      BY <1>5 DEF ShutdownExchange
    <2> DEFINE next == [call[c] EXCEPT !.pc = pc, !.handle = client, !.joining = {}]
    <2>4. next \in Call /\ next.pc = pc /\ next.handle = client
      <3>1. client \in Handle \cup {Null}
        BY <1>0 DEF TypeOK
      <3>2. QED
        BY <1>0, <3>1 DEF Call
    <2>5. call' = [call EXCEPT ![c] = next]
      BY <1>0, <2>3 DEF Call
    <2> HIDE DEF next
    <2>6. QED
      BY <2>1, <2>2, <2>3, <2>4, <2>5, ShutdownMoves
  <1>6. CASE ShutdownDestroy(c)
    <2>1. call[c].handle \in Handle
      BY <1>0, <1>6 DEF ShutdownDestroy, At, CallFits, Call
    <2>2. JobsKeep /\ RestKeeps
      BY <1>0, <1>6, <2>1, QuietJobs DEF ShutdownDestroy, RestKeeps, TypeOK
    <2>3. QED
      BY <1>6, <2>2, ShutdownGoes DEF ShutdownDestroy
  <1>7. CASE ShutdownRearm(c)
    <2>1. JobsKeep /\ RestKeeps
      BY <1>0, <1>7, QuietJobs DEF ShutdownRearm, RestKeeps, TypeOK
    <2>2. QED
      BY <1>7, <2>1, ReturnStep DEF ShutdownRearm
  <1>8. QED
    BY <1>1, <1>2, <1>3, <1>4, <1>5, <1>6, <1>7

-----------------------------------------------------------------------------
(* The workers. *)

\* A worker ends by writing the status of a drop to the tombstone its key has.
LEMMA WorkerSteps ==
  ASSUME ModuleInv, NEW j \in JobId, Work(j)
  PROVE  ModuleInv'
  <1>0. /\ TypeOK /\ j \in Made /\ job[j] \in Job /\ WorkerFits(j)
        /\ client \in Handle \cup {Null}
    <2>1. TypeOK /\ j \in Made
      BY DEF ModuleInv, Work, WorkerStart, RunDrop, RunFfiCall, SettleJob, WorkerRelease,
             RecordTombstoneStatus, Worker
    <2>2. QED
      BY <2>1, MadeIs DEF ModuleInv, TypeOK
  <1>1. CASE WorkerStart(j)
    <2>1. PICK next \in Job : /\ job' = [job EXCEPT ![j] = next] /\ next.key = job[j].key
                              /\ next.worker \notin {"release", "record"}
      <3> DEFINE unrun == [job[j] EXCEPT !.worker = "unrun"]
                 run(w) == [job[j] EXCEPT !.status = "running", !.worker = w]
      <3>1. CASE job' = [job EXCEPT ![j].worker = "unrun"]
        <4>1. unrun \in Job /\ unrun.key = job[j].key /\ unrun.worker = "unrun"
          BY <1>0 DEF Job
        <4>2. QED
          BY <3>1, <4>1
      <3>2. CASE job' = [job EXCEPT ![j].status = "running",
                                    ![j].worker = IF j \in Drops THEN "drop" ELSE "load"]
        <4>1. PICK w \in {"drop", "load"} :
                job' = [job EXCEPT ![j].status = "running", ![j].worker = w]
          BY <3>2
        <4>2. run(w) \in Job /\ run(w).key = job[j].key /\ run(w).worker = w
          BY <1>0 DEF Job, Status
        <4>3. job' = [job EXCEPT ![j] = run(w)]
          BY <1>0, <4>1 DEF TypeOK, Job, Made
        <4>4. QED
          BY <4>2, <4>3
      <3>3. QED
        BY <1>1, <3>1, <3>2 DEF WorkerStart
    <2>2. JobsKeep
      BY <1>0, <2>1, JobChanges
    <2>3. QED
      BY <1>1, <2>2, RestIsQuiet, WorkerStep DEF WorkerStart
  <1>2. CASE RunDrop(j)
    <2>1. PICK w \in {"unrun", "load"} : job' = [job EXCEPT ![j].worker = w]
      BY <1>2 DEF RunDrop
    <2> DEFINE next == [job[j] EXCEPT !.worker = w]
    <2>2. /\ next \in Job /\ next.key = job[j].key /\ next.worker = w
          /\ job' = [job EXCEPT ![j] = next]
      BY <1>0, <2>1 DEF Job
    <2> HIDE DEF next
    <2>3. JobsKeep
      BY <1>0, <2>2, JobChanges
    <2>4. QED
      BY <1>2, <2>3, RestIsQuiet, WorkerStep DEF RunDrop
  <1>3. CASE RunFfiCall(j)
    <2> DEFINE next == [job[j] EXCEPT !.worker = "ffi", !.handle = client]
    <2>1. next \in Job /\ next.key = job[j].key /\ next.worker = "ffi"
      BY <1>0 DEF Job
    <2>2. job' = [job EXCEPT ![j] = next]
      BY <1>0, <1>3 DEF RunFfiCall, TypeOK, Job, Made
    <2> HIDE DEF next
    <2>3. JobsKeep
      BY <1>0, <2>1, <2>2, JobChanges
    <2>4. QED
      BY <1>3, <2>3, RestIsQuiet, WorkerStep DEF RunFfiCall
  <1>4. CASE SettleJob(j)
    <2>1. PICK outcome \in Outcomes(j), phase \in {job[j].phase, "final"} :
            job' = [job EXCEPT ![j].status = outcome, ![j].phase = phase, ![j].handle = Null,
                               ![j].workerFinished = TRUE,
                               ![j].worker = IF j \in Drops THEN "release" ELSE "done"]
      BY <1>4 DEF SettleJob
    <2>2. outcome \in Terminal
      BY DEF Outcomes, Terminal
    <2>3. PICK w \in {"release", "done"} :
            /\ w = "release" => j \in Drops
            /\ job' = [job EXCEPT ![j].status = outcome, ![j].phase = phase, ![j].handle = Null,
                                  ![j].workerFinished = TRUE, ![j].worker = w]
      BY <2>1
    <2> DEFINE next == [job[j] EXCEPT !.status = outcome, !.phase = phase, !.handle = Null,
                                      !.workerFinished = TRUE, !.worker = w]
    <2>4. /\ next \in Job /\ next.key = job[j].key /\ next.worker = w
          /\ next.status = outcome
      BY <1>0, <2>2 DEF Job, Status
    <2>5. job' = [job EXCEPT ![j] = next]
      BY <1>0, <2>3 DEF TypeOK, Job, Made
    <2> HIDE DEF next
    <2>6. JobsKeep
      BY <1>0, <2>2, <2>3, <2>4, <2>5, JobChanges DEF Drops
    <2>7. QED
      BY <1>4, <2>6, RestIsQuiet, WorkerStep DEF SettleJob
  <1>5. CASE WorkerRelease(j)
    <2> DEFINE next == [job[j] EXCEPT !.worker = "record"]
    <2>1. /\ next \in Job /\ next.key = job[j].key /\ next.status = job[j].status
          /\ job' = [job EXCEPT ![j] = next]
      BY <1>0, <1>5 DEF WorkerRelease, Job
    <2>2. job[j].key # NoKey /\ job[j].status \in Terminal
      BY <1>0, <1>5 DEF WorkerFits, WorkerRelease, Worker
    <2> HIDE DEF next
    <2>3. JobsKeep
      BY <1>0, <2>1, <2>2, JobChanges
    <2>4. RestKeeps
      BY <1>0, <1>5 DEF WorkerRelease, RestKeeps, TypeOK
    <2>5. QED
      BY <1>5, <2>3, <2>4, WorkerStep DEF WorkerRelease
  <1>6. CASE RecordTombstoneStatus(j)
    <2> DEFINE next == [job[j] EXCEPT !.worker = "done"]
               k    == job[j].key
               told == [tombstone[k] EXCEPT !.status = job[j].status]
    <2>1. /\ next \in Job /\ next.key = job[j].key /\ next.worker = "done"
          /\ job' = [job EXCEPT ![j] = next]
      BY <1>0, <1>6 DEF RecordTombstoneStatus, Job
    <2>2. job[j].status \in Terminal /\ k \in Key /\ tombstone[k] \in Tombstone
      <3>1. k # NoKey /\ job[j].status \in Terminal
        BY <1>0, <1>6 DEF WorkerFits, RecordTombstoneStatus, Worker
      <3>2. k \in Key /\ j \in Drops
        BY <1>0, <3>1 DEF Job, Drops
      <3>3. QED
        BY <1>0, <3>1, <3>2 DEF ModuleInv, TypeOK
    <2>3. told \in Tombstone /\ told # NoTombstone
      <3>1. told \in Tombstone /\ told.status = job[j].status
        BY <2>2 DEF Tombstone
      <3>2. told.status # NoTombstone.status
        BY <2>2, <3>1 DEF NoTombstone, Terminal
      <3>3. QED
        BY <3>1, <3>2
    <2>4. tombstone' = [tombstone EXCEPT ![k] = told]
      BY <1>0, <1>6, <2>2 DEF RecordTombstoneStatus, TypeOK, Tombstone
    <2> HIDE DEF next, told
    <2>5. JobsKeep
      BY <1>0, <2>1, JobChanges
    <2>6. RestKeeps
      BY <1>0, <1>6, <2>2, <2>3, <2>4 DEF RecordTombstoneStatus, RestKeeps, TypeOK
    <2>7. QED
      BY <1>6, <2>5, <2>6, WorkerStep DEF RecordTombstoneStatus
  <1>7. QED
    BY <1>1, <1>2, <1>3, <1>4, <1>5, <1>6 DEF Work

-----------------------------------------------------------------------------
(* Every step. *)

LEMMA BeginSteps ==
  ASSUME ModuleInv, NEW c \in Caller, Begin(c)
  PROVE  ModuleInv'
  <1>1. Listed \subseteq JobId /\ Listed \subseteq Made
    BY DEF Listed, Made
  <1>2. CASE Configure(c)
    BY <1>2, EnterStep DEF Configure
  <1>3. CASE Info(c)
    BY <1>3, EnterStep DEF Info
  <1>4. CASE Drop(c)
    <2>1. PICK k \in Key : Enter(c, "drop", "key", k, Null)
      BY <1>4 DEF Drop
    <2>2. k # NoKey
      BY KeyAssumption
    <2>3. QED
      BY <2>1, <2>2, EnterStep
  <1>5. CASE Cancel(c)
    BY <1>1, <1>5, EnterStep DEF Cancel
  <1>6. CASE JobStatus(c)
    BY <1>1, <1>6, EnterStep DEF JobStatus
  <1>7. CASE Ack(c)
    BY <1>1, <1>7, EnterStep DEF Ack
  <1>8. CASE Shutdown(c)
    BY <1>8, ShutdownSteps
  <1>9. QED
    BY <1>2, <1>3, <1>4, <1>5, <1>6, <1>7, <1>8 DEF Begin

LEMMA ModuleInvInit == Init => ModuleInv
  <1> SUFFICES ASSUME Init PROVE ModuleInv
    OBVIOUS
  <1>1. Idle \in Call
    BY DEF Idle, Call
  <1>2. TypeOK
    BY <1>1 DEF Init, TypeOK
  <1>3. Made = {} /\ Drops = {}
    BY DEF Init, Made, Drops
  <1>4. \A c \in Caller : CallFits(c) /\ ~Holding(c)
    BY DEF Init, CallFits, Idle, Keyed, OfJob, Holding, Began
  <1>5. QED
    BY <1>2, <1>3, <1>4 DEF ModuleInv, Reserved, OneDropPerKey

LEMMA ModuleInvNext == ModuleInv /\ [Next]_vars => ModuleInv'
  <1> SUFFICES ASSUME ModuleInv, [Next]_vars PROVE ModuleInv'
    OBVIOUS
  <1>1. CASE UNCHANGED vars
    BY <1>1, QuietJobs, RestIsQuiet, WorkerStep DEF vars
  <1>2. ASSUME NEW c \in Caller, Begin(c) PROVE ModuleInv'
    BY <1>2, BeginSteps
  <1>3. ASSUME NEW c \in Caller, Continue(c) PROVE ModuleInv'
    BY <1>3, ConfigureSteps, ReserveKeyStep, SlotSteps, StartInsertStep, StartSpawnStep,
       RememberRequestKeyStep, AbandonReservationStep, CancelSteps, StatusSteps, AckSteps,
       ShutdownSteps DEF Continue
  <1>4. ASSUME NEW j \in JobId, Work(j) PROVE ModuleInv'
    BY <1>4, WorkerSteps
  <1>5. QED
    BY <1>1, <1>2, <1>3, <1>4 DEF Next

LEMMA ModuleInvariance == Spec => []ModuleInv
  BY ModuleInvInit, ModuleInvNext, PTL DEF Spec

\* The jobs, tombstones and calls keep their shape: no step writes to a job or a tombstone that
\* is not there.
THEOREM ModuleTypes == Spec => []TypeOK
  BY ModuleInvariance, PTL DEF ModuleInv

\* A request key starts one drop in the life of the module: whatever the calls of other threads
\* do between the reservation of a key (reserveRequestKey) and the start of its worker.
THEOREM KeysStartOneDrop == Spec => []OneDropPerKey
  BY ModuleInvariance, PTL DEF ModuleInv

-----------------------------------------------------------------------------
(* The threads. *)

\* The worker has settled its job.
Dead == {"release", "record", "done"}

JobFits(j) ==
  /\ job[j].status \in Terminal <=> job[j].worker \in Dead
  /\ job[j].workerFinished => job[j].worker \in Dead
  /\ job[j].joinable => job[j].listed
  /\ ~job[j].listed => job[j].status \in Terminal
  /\ job[j].worker = "unborn" => ~job[j].joinable

\* A thread that runs is in its job or in the hands of a caller.
Held(j) ==
  job[j].worker \notin {"unborn", "done"} =>
    job[j].joinable \/ \E c \in Caller : j \in call[c].joining

\* Only a shutdown waits for a thread that has not settled its job.
Joins(c) ==
  /\ call[c].pc = "idle" => call[c].joining = {}
  /\ call[c].pc = "spawn" =>
       /\ job[call[c].job].worker = "unborn"
       /\ \A d \in Caller : call[d].pc = "spawn" /\ call[d].job = call[c].job => d = c
  /\ \A j \in call[c].joining : j \in Made /\ (call[c].pc = "exchange" \/ job[j].worker \in Dead)

ThreadInv ==
  /\ \A j \in Made : JobFits(j) /\ Held(j)
  /\ \A c \in Caller : Joins(c)

Final == \A j \in Settled : job'[j].status = job[j].status /\ job'[j].phase = job[j].phase

-----------------------------------------------------------------------------
(* A caller's step that makes no job and starts no thread. *)

\* It leaves the worker of job j alone, and takes its thread only to join it.
KeepsThread(c, j) ==
  /\ job'[j].worker = job[j].worker /\ job'[j].workerFinished = job[j].workerFinished
  /\ job'[j].handle = job[j].handle /\ job'[j].key = job[j].key
  /\ job[j].status \in Terminal => job'[j].status = job[j].status /\ job'[j].phase = job[j].phase
  /\ job[j].status \notin Terminal => job'[j].status \notin Terminal
  /\ \/ job'[j].joinable = job[j].joinable /\ job'[j].listed = job[j].listed
     \/ /\ ~job'[j].joinable
        /\ job[j].joinable => j \in call'[c].joining
        /\ job'[j].listed = job[j].listed \/ job[j].status \in Terminal

\* Caller c is at pc with this handle, these threads to join and these jobs seen.
Steps(c, pc, h, js, sn) ==
  /\ call'[c].pc = pc /\ call'[c].handle = h /\ call'[c].joining = js /\ call'[c].seen = sn
  /\ \A d \in Caller \ {c} : call'[d] = call[d]

QuietStep(c) ==
  /\ Made' = Made /\ \A j \in Made : KeepsThread(c, j)
  /\ \A d \in Caller \ {c} : call'[d] = call[d]
  /\ call'[c].pc # "spawn" /\ (call'[c].pc = "idle" => call'[c].joining = {})
  /\ \A j \in call[c].joining : j \in call'[c].joining \/ job[j].worker = "done"
  /\ \A j \in call'[c].joining : j \in Made /\ (call'[c].pc = "exchange" \/ job[j].worker \in Dead)

LEMMA QuietThreads ==
  ASSUME ModuleInv, ThreadInv, NEW c \in Caller, QuietStep(c)
  PROVE  ThreadInv' /\ Final
  <1> USE DEF ThreadInv
  <1>1. ASSUME NEW j \in Made
        PROVE  JobFits(j)' /\ Held(j)'
    <2>1. JobFits(j)'
      BY DEF QuietStep, KeepsThread, JobFits
    <2>2. Held(j)'
      <3>1. CASE job[j].worker \in {"unborn", "done"}
        BY <3>1 DEF QuietStep, KeepsThread, Held
      <3>2. CASE job[j].worker \notin {"unborn", "done"} /\ job[j].joinable
        BY <3>2 DEF QuietStep, KeepsThread, Held
      <3>3. ASSUME job[j].worker \notin {"unborn", "done"}, NEW d \in Caller, j \in call[d].joining
            PROVE  Held(j)'
        BY <3>3 DEF QuietStep, Held
      <3>4. QED
        BY <3>1, <3>2, <3>3 DEF Held
    <2>3. QED
      BY <2>1, <2>2
  <1>2. ASSUME NEW d \in Caller
        PROVE  Joins(d)'
    <2>1. CASE d = c
      BY <2>1 DEF QuietStep, KeepsThread, Joins
    <2>2. CASE d # c
      <3>1. call'[d] = call[d] /\ Joins(d) /\ Made' = Made
        BY <2>2 DEF QuietStep
      <3>2. \A j \in Made : job'[j].worker = job[j].worker
        BY DEF QuietStep, KeepsThread
      <3>3. call[d].pc = "spawn" => call[d].job \in Made
        BY DEF ModuleInv, CallFits, OfJob
      <3>4. \A e \in Caller : call'[e].pc = "spawn" => call'[e] = call[e]
        BY DEF QuietStep
      <3>5. QED
        BY <3>1, <3>2, <3>3, <3>4 DEF Joins
    <2>3. QED
      BY <2>1, <2>2
  <1>3. Final
    BY DEF QuietStep, KeepsThread, Final, Settled
  <1>4. QED
    BY <1>1, <1>2, <1>3 DEF QuietStep

-----------------------------------------------------------------------------
(* What the actions are made of. *)

LEMMA GotoGoes ==
  ASSUME TypeOK, NEW c \in Caller, NEW pc, Goto(c, pc)
  PROVE  Steps(c, pc, call[c].handle, {}, call[c].seen)
  <1>1. call[c] \in Call /\ call \in [Caller -> Call]
    BY DEF TypeOK
  <1>2. QED
    BY <1>1 DEF Goto, Steps, Call

LEMMA ReturnGoes ==
  ASSUME TypeOK, NEW c \in Caller, Return(c)
  PROVE  Steps(c, "idle", Null, {}, {})
  BY DEF TypeOK, Return, Steps, Idle

\* Nothing is different of the jobs.
LEMMA JobsStill ==
  ASSUME ModuleInv, UNCHANGED job, NEW c \in Caller
  PROVE  Made' = Made /\ \A j \in Made : KeepsThread(c, j)
  BY DEF Made, NoJob, KeepsThread

\* One job changes.
LEMMA OneChanges ==
  ASSUME ModuleInv, NEW c \in Caller, NEW j \in Made, NEW next \in Job,
         job' = [job EXCEPT ![j] = next],
         next.worker = job[j].worker, next.workerFinished = job[j].workerFinished,
         next.handle = job[j].handle, next.key = job[j].key,
         job[j].status \in Terminal => next.status = job[j].status /\ next.phase = job[j].phase,
         job[j].status \notin Terminal => next.status \notin Terminal,
         \/ next.joinable = job[j].joinable /\ next.listed = job[j].listed
         \/ /\ ~next.joinable /\ (job[j].joinable => j \in call'[c].joining)
            /\ next.listed = job[j].listed \/ job[j].status \in Terminal
  PROVE  Made' = Made /\ \A i \in Made : KeepsThread(c, i)
  <1>1. j \in JobId /\ job \in [JobId -> Job \cup {NoJob}]
    BY DEF Made, ModuleInv, TypeOK
  <1>2. job'[j] = next /\ (\A i \in JobId \ {j} : job'[i] = job[i]) /\ next # NoJob /\ job[j] # NoJob
    BY <1>1, JobIsMade DEF Made
  <1>3. Made' = Made
    BY <1>1, <1>2 DEF Made, NoJob
  <1>4. KeepsThread(c, j)
    BY <1>2 DEF KeepsThread
  <1>5. ASSUME NEW i \in Made \ {j}
        PROVE  KeepsThread(c, i)
    <2>1. job'[i] = job[i]
      BY <1>2 DEF Made
    <2>2. QED
      BY <2>1 DEF KeepsThread
  <1>6. QED
    BY <1>3, <1>4, <1>5

\* The threads in S are taken out of their jobs, by c.
LEMMA UnhandKeepsThreads ==
  ASSUME ModuleInv, NEW c \in Caller, NEW S \in SUBSET Made, job' = Unhand(S),
         S \subseteq call'[c].joining
  PROVE  Made' = Made /\ \A j \in Made : KeepsThread(c, j)
  <1>1. Made' = Made
    BY UnhandKeeps DEF JobsKeep, Made
  <1>2. ASSUME NEW j \in S
        PROVE  KeepsThread(c, j)
    <2>1. j \in JobId /\ job[j] \in Job /\ job'[j] = [job[j] EXCEPT !.joinable = FALSE]
      BY MadeIs DEF ModuleInv, Unhand, Made
    <2>2. /\ job'[j].worker = job[j].worker /\ job'[j].workerFinished = job[j].workerFinished
          /\ job'[j].handle = job[j].handle /\ job'[j].status = job[j].status
          /\ job'[j].phase = job[j].phase /\ job'[j].listed = job[j].listed /\ ~job'[j].joinable
          /\ job'[j].key = job[j].key
      BY <2>1 DEF Job
    <2>3. QED
      BY <2>2 DEF KeepsThread
  <1>3. ASSUME NEW j \in Made \ S
        PROVE  KeepsThread(c, j)
    <2>1. job'[j] = job[j]
      BY DEF Unhand, Made
    <2>2. QED
      BY <2>1 DEF KeepsThread
  <1>4. QED
    BY <1>1, <1>2, <1>3

\* A caller that has joined what it took goes on.
LEMMA QuietCaller ==
  ASSUME ModuleInv, ThreadInv, NEW c \in Caller, NEW p, At(c, p),
         NEW pc, NEW h, NEW js, NEW sn, Steps(c, pc, h, js, sn),
         Made' = Made, \A j \in Made : KeepsThread(c, j),
         pc # "spawn", pc = "idle" => js = {},
         \A j \in js : j \in call[c].joining \/ (j \in Made /\ (pc = "exchange" \/ job[j].worker \in Dead))
  PROVE  QuietStep(c)
  <1>1. \A j \in call[c].joining : job[j].worker = "done" /\ j \in Made
    BY DEF At, ThreadInv, Joins
  <1>2. QED
    BY <1>1 DEF QuietStep, Steps, Dead

LEMMA ReapableIs ==
  ASSUME ThreadInv
  PROVE  Reapable \in SUBSET Made /\ \A j \in Reapable : job[j].worker \in Dead
  BY DEF Reapable, Listed, ThreadInv, JobFits

LEMMA EnterGoes ==
  ASSUME ModuleInv, ThreadInv, NEW c \in Caller, NEW operation, NEW pc, NEW k, NEW j,
         Enter(c, operation, pc, k, j), pc # "spawn", pc # "idle"
  PROVE  QuietStep(c) /\ Steps(c, pc, Null, Reapable, {})
  <1>1. Steps(c, pc, Null, Reapable, {})
    <2> DEFINE next == [Idle EXCEPT !.pc = pc, !.key = k, !.job = j, !.joining = Reapable]
    <2>1. /\ next.pc = pc /\ next.handle = Null /\ next.joining = Reapable /\ next.seen = {}
      BY DEF Idle
    <2>2. call' = [call EXCEPT ![c] = next] /\ call \in [Caller -> Call]
      BY DEF Enter, ModuleInv, TypeOK
    <2> HIDE DEF next
    <2>3. QED
      BY <2>1, <2>2 DEF Steps
  <1>2. Made' = Made /\ \A i \in Made : KeepsThread(c, i)
    BY <1>1, ReapableIs, UnhandKeepsThreads DEF Enter, Steps
  <1>3. call[c].joining = {}
    BY DEF Enter, ThreadInv, Joins
  <1>4. QED
    BY <1>1, <1>2, <1>3, ReapableIs DEF QuietStep, Steps

LEMMA ReturnQuiet ==
  ASSUME ModuleInv, ThreadInv, NEW c \in Caller, NEW p, At(c, p), Return(c),
         Made' = Made, \A j \in Made : KeepsThread(c, j)
  PROVE  QuietStep(c) /\ Steps(c, "idle", Null, {}, {})
  <1>1. Steps(c, "idle", Null, {}, {})
    BY ReturnGoes DEF ModuleInv
  <1>2. QED
    BY <1>1, QuietCaller

LEMMA GotoQuiet ==
  ASSUME ModuleInv, ThreadInv, NEW c \in Caller, NEW p, At(c, p), NEW pc, Goto(c, pc),
         pc \notin {"spawn", "idle"}, Made' = Made, \A j \in Made : KeepsThread(c, j)
  PROVE  QuietStep(c) /\ Steps(c, pc, call[c].handle, {}, call[c].seen)
  <1>1. Steps(c, pc, call[c].handle, {}, call[c].seen)
    BY GotoGoes DEF ModuleInv
  <1>2. QED
    BY <1>1, QuietCaller

-----------------------------------------------------------------------------
(* The steps of a call that neither configures nor shuts down. *)

Configuring == {"configure", "swap", "discard"}
Stopping    == {"flag", "quitting", "take", "exchange", "destroy", "rearm"}
Aside       == Pcs \ (Configuring \cup Stopping \cup {"idle"})

\* It goes on, or ends, and has the client, the flag and the handles be.
PlainStep(c) ==
  /\ QuietStep(c)
  /\ call[c].pc \in Aside /\ call'[c].pc \in Aside \cup {"idle"}
  /\ UNCHANGED <<client, destroyed, stopping>>

LEMMA DropPlain ==
  ASSUME ModuleInv, ThreadInv, NEW c \in Caller,
         \/ ReserveKey(c) \/ ReserveDropSlot(c) \/ StartReap(c) \/ StartCheck(c)
         \/ (StartInsert(c) /\ UNCHANGED job)
         \/ RememberRequestKey(c) \/ ReleaseDropSlot(c) \/ AbandonReservation(c)
  PROVE  PlainStep(c)
  <1>1. CASE ReserveKey(c)
    BY <1>1, JobsStill, ReturnQuiet, GotoQuiet
       DEF ReserveKey, PlainStep, Steps, At, Aside, Pcs, Configuring, Stopping
  <1>2. CASE ReserveDropSlot(c)
    BY <1>2, JobsStill, GotoQuiet
       DEF ReserveDropSlot, PlainStep, Steps, At, Aside, Pcs, Configuring, Stopping
  <1>3. CASE StartReap(c)
    <2>1. Steps(c, "check", call[c].handle, Reapable, call[c].seen)
      <3>1. call[c] \in Call /\ call \in [Caller -> Call]
        BY DEF ModuleInv, TypeOK
      <3>2. QED
        BY <1>3, <3>1 DEF StartReap, Steps, Call
    <2>2. Made' = Made /\ \A j \in Made : KeepsThread(c, j)
      BY <1>3, <2>1, ReapableIs, UnhandKeepsThreads DEF StartReap, Steps
    <2>3. QuietStep(c)
      BY <1>3, <2>1, <2>2, ReapableIs, QuietCaller DEF StartReap
    <2>4. QED
      BY <1>3, <2>1, <2>3
         DEF StartReap, PlainStep, Steps, At, Aside, Pcs, Configuring, Stopping
  <1>4. ASSUME StartFails(c), NEW p \in {"check", "insert"}, At(c, p),
               UNCHANGED <<client, destroyed, job, stopping>>
        PROVE  PlainStep(c)
    BY <1>4, JobsStill, ReturnQuiet, GotoQuiet
       DEF StartFails, PlainStep, Steps, At, Aside, Pcs, Configuring, Stopping
  <1>5. CASE StartCheck(c)
    <2>1. CASE StartFails(c)
      BY <1>4, <1>5, <2>1 DEF StartCheck
    <2>2. CASE Goto(c, "insert")
      BY <1>5, <2>2, JobsStill, GotoQuiet
         DEF StartCheck, PlainStep, Steps, At, Aside, Pcs, Configuring, Stopping
    <2>3. QED
      BY <1>5, <2>1, <2>2 DEF StartCheck
  <1>6. CASE StartInsert(c) /\ UNCHANGED job
    <2>1. StartFails(c)
      <3>1. ASSUME NEW j \in JobId \ Made, job' = [job EXCEPT ![j] = NewJob(call[c].key)]
            PROVE  FALSE
        <4>1. job'[j] = NewJob(call[c].key) /\ job[j] = NoJob
          BY <3>1 DEF ModuleInv, TypeOK, Made
        <4>2. NewJob(call[c].key).status # NoJob.status
          BY DEF NewJob, NoJob
        <4>3. QED
          BY <1>6, <4>1, <4>2
      <3>2. QED
        BY <1>6, <3>1 DEF StartInsert
    <2>2. QED
      BY <1>4, <1>6, <2>1 DEF StartInsert
  <1>7. CASE RememberRequestKey(c)
    BY <1>7, JobsStill, ReturnQuiet
       DEF RememberRequestKey, PlainStep, Steps, At, Aside, Pcs, Configuring, Stopping
  <1>8. CASE ReleaseDropSlot(c)
    BY <1>8, JobsStill, GotoQuiet
       DEF ReleaseDropSlot, PlainStep, Steps, At, Aside, Pcs, Configuring, Stopping
  <1>9. CASE AbandonReservation(c)
    BY <1>9, JobsStill, ReturnQuiet
       DEF AbandonReservation, PlainStep, Steps, At, Aside, Pcs, Configuring, Stopping
  <1>10. QED
    BY <1>1, <1>2, <1>3, <1>5, <1>6, <1>7, <1>8, <1>9

LEMMA CancelPlain ==
  ASSUME ModuleInv, ThreadInv, NEW c \in Caller, CancelMark(c) \/ CancelReturn(c)
  PROVE  PlainStep(c)
  <1> DEFINE j == call[c].job
  <1>1. CASE CancelReturn(c)
    BY <1>1, JobsStill, ReturnQuiet
       DEF CancelReturn, PlainStep, Steps, At, Aside, Pcs, Configuring, Stopping
  <1>2. CASE CancelMark(c)
    <2>1. Made' = Made /\ \A i \in Made : KeepsThread(c, i)
      <3>1. CASE UNCHANGED job
        BY <3>1, JobsStill
      <3>2. CASE /\ j \in Listed \ Settled
                 /\ job' = [job EXCEPT ![j].cancelRequested = TRUE, ![j].status = "cancelling"]
        <4> DEFINE next == [job[j] EXCEPT !.cancelRequested = TRUE, !.status = "cancelling"]
        <4>1. j \in Made /\ j \in JobId /\ job[j] \in Job /\ job[j].status \notin Terminal
          BY <3>2, MadeIs DEF Listed, Settled, Made, ModuleInv
        <4>2. /\ next \in Job /\ next.worker = job[j].worker /\ next.status = "cancelling"
              /\ next.workerFinished = job[j].workerFinished /\ next.handle = job[j].handle
              /\ next.joinable = job[j].joinable /\ next.listed = job[j].listed
              /\ next.key = job[j].key
          BY <4>1 DEF Job, Status
        <4>3. job' = [job EXCEPT ![j] = next]
          BY <3>2, <4>1 DEF ModuleInv, TypeOK, Job
        <4>4. "cancelling" \notin Terminal
          BY DEF Terminal
        <4> HIDE DEF next
        <4>5. QED
          BY <4>1, <4>2, <4>3, <4>4, OneChanges
      <3>3. QED
        BY <1>2, <3>1, <3>2 DEF CancelMark
    <2>2. CASE Return(c)
      BY <1>2, <2>1, <2>2, ReturnQuiet
         DEF CancelMark, PlainStep, Steps, At, Aside, Pcs, Configuring, Stopping
    <2>3. CASE call' = [call EXCEPT ![c].pc = "cancelling", ![c].handle = client, ![c].joining = {}]
      <3>1. Steps(c, "cancelling", client, {}, call[c].seen)
        <4>1. call[c] \in Call /\ call \in [Caller -> Call]
          BY DEF ModuleInv, TypeOK
        <4>2. QED
          BY <2>3, <4>1 DEF Steps, Call
      <3>2. QED
        BY <1>2, <2>1, <3>1, QuietCaller
           DEF CancelMark, PlainStep, Steps, At, Aside, Pcs, Configuring, Stopping
    <2>4. QED
      BY <1>2, <2>2, <2>3 DEF CancelMark
  <1>3. QED
    BY <1>1, <1>2

LEMMA StatusPlain ==
  ASSUME ModuleInv, ThreadInv, NEW c \in Caller, StatusLook(c) \/ StatusPolled(c) \/ StatusPhase(c)
  PROVE  PlainStep(c)
  <1> DEFINE j == call[c].job
  <1>1. CASE StatusLook(c)
    <2>1. CASE Return(c)
      BY <1>1, <2>1, JobsStill, ReturnQuiet
         DEF StatusLook, PlainStep, Steps, At, Aside, Pcs, Configuring, Stopping
    <2>2. CASE call' = [call EXCEPT ![c].pc = "polling", ![c].handle = client, ![c].joining = {}]
      <3>1. Steps(c, "polling", client, {}, call[c].seen)
        <4>1. call[c] \in Call /\ call \in [Caller -> Call]
          BY DEF ModuleInv, TypeOK
        <4>2. QED
          BY <2>2, <4>1 DEF Steps, Call
      <3>2. QED
        BY <1>1, <3>1, JobsStill, QuietCaller
           DEF StatusLook, PlainStep, Steps, At, Aside, Pcs, Configuring, Stopping
    <2>3. QED
      BY <1>1, <2>1, <2>2 DEF StatusLook
  <1>2. CASE StatusPolled(c)
    BY <1>2, JobsStill, ReturnQuiet, GotoQuiet
       DEF StatusPolled, PlainStep, Steps, At, Aside, Pcs, Configuring, Stopping
  <1>3. CASE StatusPhase(c)
    <2>1. Made' = Made /\ \A i \in Made : KeepsThread(c, i)
      <3>1. CASE UNCHANGED job
        BY <3>1, JobsStill
      <3>2. CASE j \notin Settled /\ job' = [job EXCEPT ![j].phase = "live"]
        <4> DEFINE next == [job[j] EXCEPT !.phase = "live"]
        <4>1. j \in Made
          BY <1>3 DEF StatusPhase, At, ModuleInv, CallFits, OfJob
        <4>2. j \in JobId /\ job[j] \in Job /\ job[j].status \notin Terminal
          BY <3>2, <4>1, MadeIs DEF Settled, Made, ModuleInv
        <4>3. /\ next \in Job /\ next.worker = job[j].worker /\ next.status = job[j].status
              /\ next.workerFinished = job[j].workerFinished /\ next.handle = job[j].handle
              /\ next.joinable = job[j].joinable /\ next.listed = job[j].listed
              /\ next.key = job[j].key
          BY <4>2 DEF Job
        <4>4. job' = [job EXCEPT ![j] = next]
          BY <3>2
        <4> HIDE DEF next
        <4>5. QED
          BY <4>1, <4>2, <4>3, <4>4, OneChanges
      <3>3. QED
        BY <1>3, <3>1, <3>2 DEF StatusPhase
    <2>2. QED
      BY <1>3, <2>1, ReturnQuiet
         DEF StatusPhase, PlainStep, Steps, At, Aside, Pcs, Configuring, Stopping
  <1>4. QED
    BY <1>1, <1>2, <1>3

LEMMA AckPlain ==
  ASSUME ModuleInv, ThreadInv, NEW c \in Caller, AckErase(c) \/ AckReturn(c)
  PROVE  PlainStep(c)
  <1> DEFINE j == call[c].job
  <1>1. CASE AckReturn(c)
    BY <1>1, JobsStill, ReturnQuiet
       DEF AckReturn, PlainStep, Steps, At, Aside, Pcs, Configuring, Stopping
  <1>2. CASE AckErase(c) /\ UNCHANGED job /\ Return(c)
    BY <1>2, JobsStill, ReturnQuiet
       DEF AckErase, PlainStep, Steps, At, Aside, Pcs, Configuring, Stopping
  <1>3. CASE /\ AckErase(c) /\ j \in Listed \cap Settled
             /\ job' = [job EXCEPT ![j].listed = FALSE, ![j].joinable = FALSE]
    <2> DEFINE next == [job[j] EXCEPT !.listed = FALSE, !.joinable = FALSE]
    <2>1. /\ j \in Made /\ j \in JobId /\ job[j] \in Job /\ job[j].status \in Terminal
          /\ job[j].worker \in Dead
      BY <1>3, MadeIs DEF Listed, Settled, Made, ModuleInv, ThreadInv, JobFits
    <2>2. /\ next \in Job /\ next.worker = job[j].worker /\ next.status = job[j].status
          /\ next.workerFinished = job[j].workerFinished /\ next.handle = job[j].handle
          /\ next.phase = job[j].phase /\ ~next.joinable /\ next.key = job[j].key
      BY <2>1 DEF Job
    <2>3. job' = [job EXCEPT ![j] = next]
      BY <1>3, <2>1 DEF ModuleInv, TypeOK, Job
    <2> HIDE DEF next
    <2>4. CASE job[j].joinable /\ call' = [call EXCEPT ![c].pc = "acked", ![c].joining = {j}]
      <3>1. Steps(c, "acked", call[c].handle, {j}, call[c].seen)
        <4>1. call[c] \in Call /\ call \in [Caller -> Call]
          BY DEF ModuleInv, TypeOK
        <4>2. QED
          BY <2>4, <4>1 DEF Steps, Call
      <3>2. Made' = Made /\ \A i \in Made : KeepsThread(c, i)
        BY <2>1, <2>2, <2>3, <3>1, OneChanges DEF Steps
      <3>3. QED
        BY <1>3, <2>1, <3>1, <3>2, QuietCaller
           DEF AckErase, PlainStep, Steps, At, Aside, Pcs, Configuring, Stopping
    <2>5. CASE ~job[j].joinable /\ Return(c)
      <3>1. Made' = Made /\ \A i \in Made : KeepsThread(c, i)
        BY <2>1, <2>2, <2>3, <2>5, OneChanges
      <3>2. QED
        BY <1>3, <2>5, <3>1, ReturnQuiet
           DEF AckErase, PlainStep, Steps, At, Aside, Pcs, Configuring, Stopping
    <2>6. QED
      BY <1>3, <2>4, <2>5 DEF AckErase
  <1>4. QED
    BY <1>1, <1>2, <1>3 DEF AckErase

-----------------------------------------------------------------------------
(* The steps of configure and of shutdown. *)

LEMMA ConfigureQuiet ==
  ASSUME ModuleInv, ThreadInv, NEW c \in Caller,
         ConfigureCheck(c) \/ ConfigureSwap(c) \/ ConfigureDiscard(c)
  PROVE  /\ QuietStep(c) /\ UNCHANGED stopping /\ call[c].pc \in Configuring
         /\ \/ call'[c].pc = "idle"
            \/ call'[c].pc = "swap" /\ Listed \subseteq Settled /\ ConfigureCheck(c)
            \/ call'[c].pc = "discard" /\ call'[c].handle = client /\ ConfigureSwap(c)
  <1>1. CASE ConfigureCheck(c)
    BY <1>1, JobsStill, ReturnQuiet, GotoQuiet DEF ConfigureCheck, Steps, At, Configuring
  <1>2. CASE ConfigureSwap(c)
    <2>1. CASE Return(c)
      BY <1>2, <2>1, JobsStill, ReturnQuiet DEF ConfigureSwap, Steps, At, Configuring
    <2>2. CASE call' = [call EXCEPT ![c].pc = "discard", ![c].handle = client]
      <3>1. Steps(c, "discard", client, call[c].joining, call[c].seen)
        <4>1. call[c] \in Call /\ call \in [Caller -> Call]
          BY DEF ModuleInv, TypeOK
        <4>2. QED
          BY <2>2, <4>1, CallFields DEF Steps
      <3>2. QED
        BY <1>2, <3>1, JobsStill, QuietCaller DEF ConfigureSwap, Steps, At, Configuring
    <2>3. QED
      BY <1>2, <2>1, <2>2 DEF ConfigureSwap
  <1>3. CASE ConfigureDiscard(c)
    BY <1>3, JobsStill, ReturnQuiet DEF ConfigureDiscard, Steps, At, Configuring
  <1>4. QED
    BY <1>1, <1>2, <1>3

LEMMA ShutdownFlagQuiet ==
  ASSUME ModuleInv, ThreadInv, NEW c \in Caller, ShutdownFlag(c)
  PROVE  /\ QuietStep(c) /\ call[c].pc \in Stopping
         /\ call'[c].pc \in {"take", "quitting"} /\ call'[c].seen = Listed
  <1> DEFINE pc == IF client = Null \/ Listed \cap Drops \subseteq Settled THEN "take" ELSE "quitting"
  <1>1. Steps(c, pc, client, call[c].joining, Listed)
    <2>1. call[c] \in Call /\ call \in [Caller -> Call]
      BY DEF ModuleInv, TypeOK
    <2>2. QED
      BY <2>1, CallFields DEF ShutdownFlag, Steps
  <1>2. \A j \in Made : job[j] \in Job /\ j \in JobId
    BY MadeIs DEF ModuleInv, Made
  <1>3. ASSUME NEW j \in Made
        PROVE  job'[j] = job[j] \/ job'[j] = [job[j] EXCEPT !.cancelRequested = TRUE]
    BY <1>2 DEF ShutdownFlag
  <1>4. ASSUME NEW j \in Made
        PROVE  KeepsThread(c, j)
    <2>1. /\ job'[j].worker = job[j].worker /\ job'[j].workerFinished = job[j].workerFinished
          /\ job'[j].handle = job[j].handle /\ job'[j].status = job[j].status
          /\ job'[j].phase = job[j].phase /\ job'[j].joinable = job[j].joinable
          /\ job'[j].listed = job[j].listed /\ job'[j].key = job[j].key
      <3>1. CASE job'[j] = job[j]
        BY <3>1
      <3>2. CASE job'[j] = [job[j] EXCEPT !.cancelRequested = TRUE]
        BY <1>2, <3>2, JobFields
      <3>3. QED
        BY <1>3, <3>1, <3>2
    <2>2. QED
      BY <2>1 DEF KeepsThread
  <1>5. Made' = Made
    <2>1. ASSUME NEW j \in Made
          PROVE  job'[j] # NoJob
      <3>1. CASE job'[j] = [job[j] EXCEPT !.cancelRequested = TRUE]
        <4>1. job'[j].status = job[j].status
          BY <1>2, <3>1, JobFields
        <4>2. QED
          BY <1>2, <4>1 DEF Job, NoJob, Status, Terminal
      <3>2. QED
        BY <1>2, <1>3, <3>1, JobIsMade
    <2>2. \A j \in JobId \ Made : job'[j] = job[j]
      BY DEF ShutdownFlag, Listed
    <2>3. QED
      BY <2>1, <2>2 DEF Made, NoJob
  <1>6. pc \in {"take", "quitting"}
    OBVIOUS
  <1> HIDE DEF pc
  <1>7. QED
    BY <1>1, <1>4, <1>5, <1>6, QuietCaller DEF ShutdownFlag, Steps, At, Stopping

LEMMA ShutdownTakeQuiet ==
  ASSUME ModuleInv, ThreadInv, NEW c \in Caller, ShutdownTake(c)
  PROVE  /\ QuietStep(c) /\ call[c].pc \in Stopping
         /\ call'[c].pc = "exchange"
         /\ call'[c].joining = {j \in Made \cap call[c].seen : job[j].joinable}
  <1> DEFINE taken == {j \in Made \cap call[c].seen : job[j].joinable}
  <1>1. Steps(c, "exchange", call[c].handle, taken, {})
    <2>1. call[c] \in Call /\ call \in [Caller -> Call]
      BY DEF ModuleInv, TypeOK
    <2>2. QED
      BY <2>1 DEF ShutdownTake, Steps, Call
  <1>2. Made' = Made /\ \A j \in Made : KeepsThread(c, j)
    BY <1>1, UnhandKeepsThreads DEF ShutdownTake, Steps
  <1>3. taken \subseteq Made
    OBVIOUS
  <1> HIDE DEF taken
  <1>4. QuietStep(c)
    BY <1>1, <1>2, <1>3, QuietCaller DEF ShutdownTake
  <1>5. QED
    BY <1>1, <1>4 DEF ShutdownTake, Steps, At, Stopping, taken

LEMMA ShutdownExchangeQuiet ==
  ASSUME ModuleInv, ThreadInv, NEW c \in Caller, ShutdownExchange(c)
  PROVE  /\ QuietStep(c) /\ call[c].pc \in Stopping
         /\ call'[c].pc \in {"rearm", "destroy"} /\ call'[c].handle = client
         /\ call'[c].pc = "destroy" => client # Null
  <1> DEFINE pc == IF client = Null THEN "rearm" ELSE "destroy"
  <1>1. Steps(c, pc, client, {}, call[c].seen)
    <2>1. call[c] \in Call /\ call \in [Caller -> Call]
      BY DEF ModuleInv, TypeOK
    <2>2. QED
      BY <2>1, CallFields DEF ShutdownExchange, Steps
  <1>2. pc \in {"rearm", "destroy"} /\ (pc = "destroy" => client # Null)
    OBVIOUS
  <1> HIDE DEF pc
  <1>3. QED
    BY <1>1, <1>2, JobsStill, QuietCaller DEF ShutdownExchange, Steps, At, Stopping

LEMMA ShutdownQuiet ==
  ASSUME ModuleInv, ThreadInv, NEW c \in Caller,
         ShutdownQuit(c) \/ ShutdownDestroy(c) \/ ShutdownRearm(c)
  PROVE  /\ QuietStep(c) /\ call[c].pc \in Stopping
         /\ \/ /\ ShutdownQuit(c) /\ call'[c].pc = "take" /\ call'[c].seen = call[c].seen
               /\ call[c].pc = "quitting"
            \/ ShutdownDestroy(c) /\ call'[c].pc = "rearm"
            \/ ShutdownRearm(c) /\ call'[c].pc = "idle"
  <1>1. CASE ShutdownQuit(c)
    BY <1>1, JobsStill, GotoQuiet DEF ShutdownQuit, Steps, At, Stopping
  <1>2. CASE ShutdownDestroy(c)
    BY <1>2, JobsStill, GotoQuiet DEF ShutdownDestroy, Steps, At, Stopping
  <1>3. CASE ShutdownRearm(c)
    BY <1>3, JobsStill, ReturnQuiet DEF ShutdownRearm, Steps, At, Stopping
  <1>4. QED
    BY <1>1, <1>2, <1>3

\* A call begins.
LEMMA BeginQuiet ==
  ASSUME ModuleInv, ThreadInv, NEW c \in Caller, Begin(c)
  PROVE  /\ QuietStep(c) /\ call[c].pc = "idle" /\ UNCHANGED <<client, destroyed>>
         /\ \/ call'[c].pc \in Aside /\ UNCHANGED stopping
            \/ call'[c].pc = "configure" /\ Configure(c) /\ UNCHANGED stopping
            \/ call'[c].pc = "flag" /\ Shutdown(c)
  <1>1. CASE Shutdown(c)
    <2>1. Steps(c, "flag", call[c].handle, {}, call[c].seen)
      BY <1>1, GotoGoes DEF Shutdown, ModuleInv
    <2>2. call[c].joining = {}
      BY <1>1 DEF Shutdown, ThreadInv, Joins
    <2>3. QED
      BY <1>1, <2>1, <2>2, JobsStill DEF Shutdown, QuietStep, Steps
  <1>2. CASE Configure(c)
    <2>1. Enter(c, "configure", "configure", NoKey, Null)
      BY <1>2 DEF Configure
    <2>2. QuietStep(c) /\ Steps(c, "configure", Null, Reapable, {})
      BY <2>1, EnterGoes
    <2>3. call[c].pc = "idle" /\ UNCHANGED <<client, destroyed, stopping>>
      BY <2>1 DEF Enter
    <2>4. QED
      BY <1>2, <2>2, <2>3 DEF Steps
  <1>3. ASSUME NEW operation, NEW pc \in {"check", "key", "mark", "look", "ack"}, NEW k, NEW j,
               Enter(c, operation, pc, k, j)
        PROVE  /\ QuietStep(c) /\ call[c].pc = "idle" /\ UNCHANGED <<client, destroyed, stopping>>
               /\ call'[c].pc \in Aside
    <2>1. QuietStep(c) /\ Steps(c, pc, Null, Reapable, {})
      BY <1>3, EnterGoes
    <2>2. call[c].pc = "idle" /\ UNCHANGED <<client, destroyed, stopping>>
      BY <1>3 DEF Enter
    <2>3. pc \in Aside
      BY <1>3 DEF Aside, Pcs, Configuring, Stopping
    <2>4. QED
      BY <2>1, <2>2, <2>3 DEF Steps
  <1>4. QED
    BY <1>1, <1>2, <1>3 DEF Begin, Info, Drop, Cancel, JobStatus, Ack

-----------------------------------------------------------------------------
(* A job is made, its thread starts. *)

\* A job that was just made has no thread yet, and c is the only one about to start it.
LEMMA InsertThreads ==
  ASSUME ModuleInv, ThreadInv, NEW c \in Caller, At(c, "insert"), NEW j \in JobId \ Made,
         job' = [job EXCEPT ![j] = NewJob(call[c].key)],
         call' = [call EXCEPT ![c].pc = "spawn", ![c].job = j]
  PROVE  /\ ThreadInv' /\ Final /\ Made' = Made \cup {j}
         /\ \A i \in Made : job'[i] = job[i]
         /\ job'[j].worker = "unborn" /\ call'[c].pc = "spawn"
         /\ \A d \in Caller \ {c} : call'[d] = call[d]
  <1>1. /\ call[c] \in Call /\ call \in [Caller -> Call] /\ call[c].key \in Key \cup {NoKey}
        /\ job \in [JobId -> Job \cup {NoJob}]
    BY DEF ModuleInv, TypeOK, Call
  <1>2. /\ call'[c].pc = "spawn" /\ call'[c].job = j /\ call'[c].joining = call[c].joining
        /\ \A d \in Caller \ {c} : call'[d] = call[d]
    BY <1>1 DEF Call
  <1>3. /\ job'[j] = NewJob(call[c].key) /\ job'[j] # NoJob
        /\ \A i \in JobId \ {j} : job'[i] = job[i]
    BY <1>1, NewJobIsQueued
  <1>4. /\ job'[j].worker = "unborn" /\ job'[j].status = "queued" /\ ~job'[j].joinable
        /\ ~job'[j].workerFinished /\ job'[j].listed
    BY <1>3 DEF NewJob
  <1>5. Made' = Made \cup {j} /\ \A i \in Made : job'[i] = job[i]
    BY <1>3 DEF Made
  <1>6. ASSUME NEW i \in Made'
        PROVE  JobFits(i)' /\ Held(i)'
    <2>1. CASE i = j
      BY <1>4, <2>1 DEF JobFits, Held, Terminal, Dead
    <2>2. CASE i # j
      <3>1. JobFits(i) /\ Held(i) /\ job'[i] = job[i]
        BY <1>5, <2>2 DEF ThreadInv
      <3>2. \A d \in Caller : call'[d].joining = call[d].joining
        BY <1>2
      <3>3. QED
        BY <3>1, <3>2 DEF JobFits, Held
    <2>3. QED
      BY <2>1, <2>2
  <1>7. ASSUME NEW d \in Caller
        PROVE  Joins(d)'
    <2>1. Joins(d) /\ \A e \in Caller : call[e].pc = "spawn" => call[e].job \in Made
      BY DEF ThreadInv, ModuleInv, CallFits, OfJob
    <2>2. CASE d = c
      <3>1. \A e \in Caller : call'[e].pc = "spawn" /\ call'[e].job = j => e = c
        BY <1>2, <2>1
      <3>2. \A i \in call[c].joining : i \in Made /\ job[i].worker \in Dead
        BY <2>1, <2>2 DEF Joins, At
      <3>3. \A i \in call'[c].joining : i \in Made' /\ job'[i].worker \in Dead
        BY <1>2, <1>5, <3>2
      <3>4. call'[c].pc = "spawn" /\ call'[c].job = j
        BY <1>2
      <3>5. Joins(c)'
        BY <1>4, <3>1, <3>3, <3>4 DEF Joins
      <3>6. QED
        BY <2>2, <3>5
    <2>3. CASE d # c
      <3>1. call'[d] = call[d]
        BY <1>2, <2>3
      <3>2. call[d].pc = "spawn" =>
              /\ job'[call[d].job].worker = "unborn"
              /\ \A e \in Caller : call'[e].pc = "spawn" /\ call'[e].job = call[d].job => e = d
        <4>1. ASSUME call[d].pc = "spawn"
              PROVE  job'[call[d].job].worker = "unborn" /\ call[d].job # j
          BY <1>5, <2>1, <4>1 DEF Joins
        <4>2. ASSUME call[d].pc = "spawn", NEW e \in Caller \ {c}, call[e].pc = "spawn",
                     call[e].job = call[d].job
              PROVE  e = d
          BY <2>1, <4>2 DEF Joins
        <4>3. ASSUME call[d].pc = "spawn", NEW e \in Caller, call'[e].pc = "spawn",
                     call'[e].job = call[d].job
              PROVE  e = d
          <5>1. e # c
            BY <1>2, <4>1, <4>3
          <5>2. call'[e] = call[e]
            BY <1>2, <5>1
          <5>3. QED
            BY <4>2, <4>3, <5>1, <5>2
        <4>4. QED
          BY <4>1, <4>3
      <3>3. \A i \in call'[d].joining : i \in Made' /\ (call'[d].pc = "exchange" \/ job'[i].worker \in Dead)
        BY <1>5, <2>1, <3>1 DEF Joins
      <3>4. call'[d].pc = "idle" => call'[d].joining = {}
        BY <2>1, <3>1 DEF Joins
      <3>5. QED
        BY <3>1, <3>2, <3>3, <3>4 DEF Joins
    <2>4. QED
      BY <2>2, <2>3
  <1>8. Final
    BY <1>5 DEF Final, Settled
  <1>9. QED
    BY <1>2, <1>4, <1>5, <1>6, <1>7, <1>8 DEF ThreadInv

\* The steps of a thread that runs, or starts: they change one job.
OneMoves(j, next) ==
  /\ job' = [job EXCEPT ![j] = next] /\ next \in Job
  /\ next.joinable => next.listed
  /\ next.listed = job[j].listed /\ next.key = job[j].key
  /\ next.status \in Terminal <=> next.worker \in Dead
  /\ next.workerFinished => next.worker \in Dead
  /\ next.worker # "unborn"
  /\ job[j].status \in Terminal => next.status = job[j].status /\ next.phase = job[j].phase

LEMMA OneMovesThreads ==
  ASSUME ModuleInv, ThreadInv, NEW j \in Made, NEW next, OneMoves(j, next),
         next.worker = "done" \/ next.joinable
           \/ (next.joinable = job[j].joinable /\ job[j].worker \notin {"unborn", "done"}),
         \A c \in Caller :
           /\ call'[c].pc = "idle" => call'[c].joining = {}
           /\ call'[c] = call[c] \/ (At(c, call[c].pc) /\ call'[c].pc # "spawn" /\ call'[c].joining = {}),
         \A c \in Caller : call'[c].pc = "spawn" => call'[c].job # j
  PROVE  /\ ThreadInv' /\ Final /\ Made' = Made /\ job'[j] = next
         /\ \A i \in Made \ {j} : job'[i] = job[i]
  <1>1. j \in JobId /\ job \in [JobId -> Job \cup {NoJob}]
    BY DEF Made, ModuleInv, TypeOK
  <1>2. job'[j] = next /\ (\A i \in JobId \ {j} : job'[i] = job[i]) /\ next # NoJob /\ job[j] # NoJob
    BY <1>1, JobIsMade DEF Made, OneMoves
  <1>3. Made' = Made
    BY <1>1, <1>2 DEF Made, NoJob
  <1>4. \A i \in Made \ {j} : job'[i] = job[i]
    BY <1>2 DEF Made
  <1>5. \A i \in Made : job[i].worker \in Dead => job'[i].worker \in Dead
    BY <1>2, <1>4 DEF ThreadInv, JobFits, OneMoves
  <1>6. \A i \in Made, c \in Caller :
          i \in call[c].joining => i \in call'[c].joining \/ job[i].worker = "done"
    BY DEF At
  <1>7. ASSUME NEW i \in Made
        PROVE  JobFits(i)' /\ Held(i)'
    <2>0. JobFits(i) /\ Held(i)
      BY DEF ThreadInv
    <2>1. CASE i = j
      <3>1. JobFits(j)'
        BY <1>2, <2>0, <2>1 DEF JobFits, OneMoves, Dead
      <3>2. Held(j)'
        <4>1. CASE next.worker = "done" \/ next.joinable
          BY <1>2, <4>1 DEF Held
        <4>2. CASE next.joinable = job[j].joinable /\ job[j].worker \notin {"unborn", "done"}
          BY <1>2, <1>6, <2>0, <2>1, <4>2 DEF Held
        <4>3. QED
          BY <4>1, <4>2
      <3>3. QED
        BY <2>1, <3>1, <3>2
    <2>2. CASE i # j
      BY <1>4, <1>6, <2>0, <2>2 DEF JobFits, Held
    <2>3. QED
      BY <2>1, <2>2
  <1>8. ASSUME NEW d \in Caller
        PROVE  Joins(d)'
    <2>0. Joins(d) /\ (call[d].pc = "spawn" => call[d].job \in Made)
      BY DEF ThreadInv, ModuleInv, CallFits, OfJob
    <2>1. \A e \in Caller : call'[e].pc = "spawn" => call'[e] = call[e]
      OBVIOUS
    <2>2. CASE call'[d] = call[d]
      <3>1. call[d].pc = "spawn" => job'[call[d].job].worker = "unborn"
        BY <1>4, <2>0, <2>2 DEF Joins
      <3>2. QED
        BY <1>3, <1>5, <2>0, <2>1, <2>2, <3>1 DEF Joins
    <2>3. CASE call'[d].pc # "spawn" /\ call'[d].joining = {}
      BY <2>3 DEF Joins
    <2>4. QED
      BY <2>2, <2>3
  <1>9. Final
    BY <1>2, <1>4 DEF Final, Settled, OneMoves
  <1>10. QED
    BY <1>2, <1>3, <1>4, <1>7, <1>8, <1>9 DEF ThreadInv

LEMMA SpawnThreads ==
  ASSUME ModuleInv, ThreadInv, NEW c \in Caller, StartSpawn(c)
  PROVE  /\ ThreadInv' /\ Final /\ Made' = Made
         /\ call[c].pc = "spawn" /\ call'[c].pc \in {"idle", "remember"}
         /\ \A d \in Caller \ {c} : call'[d] = call[d]
         /\ \A j \in Made : \/ job'[j].worker = job[j].worker /\ job'[j].handle = job[j].handle
                            \/ job'[j].worker = "start"
  <1> DEFINE j == call[c].job
             next == [job[j] EXCEPT !.worker = "start", !.joinable = TRUE]
  <1>1. j \in Made /\ j \in JobId /\ job[j] \in Job /\ job[j].worker = "unborn" /\ JobFits(j)
    BY MadeIs DEF StartSpawn, At, ModuleInv, CallFits, OfJob, Made, ThreadInv, Joins
  <1>2. /\ next \in Job /\ next.worker = "start" /\ next.joinable /\ next.listed = job[j].listed
        /\ next.status = job[j].status /\ next.workerFinished = job[j].workerFinished
        /\ next.phase = job[j].phase /\ next.key = job[j].key
    BY <1>1 DEF Job
  <1>3. job' = [job EXCEPT ![j] = next]
    BY <1>1 DEF StartSpawn, ModuleInv, TypeOK, Job
  <1> HIDE DEF next
  <1>4. OneMoves(j, next)
    BY <1>1, <1>2, <1>3 DEF OneMoves, JobFits, Dead
  <1>5. /\ call'[c].pc \in {"idle", "remember"} /\ call'[c].joining = {}
        /\ \A d \in Caller \ {c} : call'[d] = call[d]
    <2>1. CASE Return(c)
      BY <2>1, ReturnGoes DEF ModuleInv, Steps
    <2>2. CASE Goto(c, "remember")
      BY <2>2, GotoGoes DEF ModuleInv, Steps
    <2>3. QED
      BY <2>1, <2>2 DEF StartSpawn
  <1>6. call[c].pc = "spawn" /\ At(c, call[c].pc)
    BY DEF StartSpawn, At
  <1>7. \A d \in Caller : call'[d].pc = "spawn" => call'[d].job # j
    BY <1>5, <1>6 DEF ThreadInv, Joins
  <1>8. \A d \in Caller :
          /\ call'[d].pc = "idle" => call'[d].joining = {}
          /\ call'[d] = call[d] \/ (At(d, call[d].pc) /\ call'[d].pc # "spawn" /\ call'[d].joining = {})
    BY <1>5, <1>6 DEF ThreadInv, Joins
  <1>9. ThreadInv' /\ Final /\ Made' = Made /\ job'[j] = next
        /\ \A i \in Made \ {j} : job'[i] = job[i]
    BY <1>1, <1>2, <1>4, <1>7, <1>8, OneMovesThreads
  <1>10. QED
    BY <1>2, <1>5, <1>6, <1>9

\* The worker of job j moves, and nothing else but its own job changes of what the callers use.
WorkerMoves(j) ==
  /\ Made' = Made /\ j \in Made /\ UNCHANGED <<client, destroyed, stopping, call>>
  /\ job'[j].key = job[j].key /\ \A i \in Made \ {j} : job'[i] = job[i]

LEMMA WorkerThreads ==
  ASSUME ModuleInv, ThreadInv, NEW j \in JobId, Work(j)
  PROVE  ThreadInv' /\ Final /\ WorkerMoves(j)
  <1>0. /\ j \in Made /\ job[j] \in Job /\ JobFits(j) /\ WorkerFits(j)
        /\ job[j].worker \notin {"unborn", "done"} /\ TypeOK
    <2>1. TypeOK /\ j \in Made /\ job[j].worker \notin {"unborn", "done"}
      BY DEF ModuleInv, Work, WorkerStart, RunDrop, RunFfiCall, SettleJob, WorkerRelease,
             RecordTombstoneStatus, Worker
    <2>2. QED
      BY <2>1, MadeIs DEF ModuleInv, ThreadInv
  <1>1. UNCHANGED <<client, destroyed, stopping, call>>
    BY DEF Work, WorkerStart, RunDrop, RunFfiCall, SettleJob, WorkerRelease, RecordTombstoneStatus
  <1>2. /\ \A c \in Caller : call'[c].pc = "spawn" => call'[c].job # j
        /\ \A c \in Caller :
             /\ call'[c].pc = "idle" => call'[c].joining = {}
             /\ call'[c] = call[c] \/ (At(c, call[c].pc) /\ call'[c].pc # "spawn" /\ call'[c].joining = {})
    BY <1>0, <1>1 DEF ThreadInv, Joins
  <1>3. ASSUME NEW next, OneMoves(j, next), next.joinable = job[j].joinable
        PROVE  ThreadInv' /\ Final /\ WorkerMoves(j)
    <2>1. ThreadInv' /\ Final /\ Made' = Made /\ job'[j] = next
          /\ \A i \in Made \ {j} : job'[i] = job[i]
      <3>1. \/ next.worker = "done" \/ next.joinable
            \/ (next.joinable = job[j].joinable /\ job[j].worker \notin {"unborn", "done"})
        BY <1>0, <1>3
      <3>2. QED
        BY <1>0, <1>2, <1>3, <3>1, OneMovesThreads
    <2>2. QED
      BY <1>0, <1>1, <1>3, <2>1 DEF WorkerMoves, OneMoves
  <1>4. CASE WorkerStart(j)
    <2>1. job[j].worker = "start"
      BY <1>4 DEF WorkerStart, Worker
    <2>2. CASE job' = [job EXCEPT ![j].worker = "unrun"]
      <3> DEFINE next == [job[j] EXCEPT !.worker = "unrun"]
      <3>1. /\ next \in Job /\ next.worker = "unrun" /\ next.status = job[j].status
            /\ next.phase = job[j].phase /\ next.joinable = job[j].joinable
            /\ next.listed = job[j].listed /\ next.workerFinished = job[j].workerFinished
            /\ next.key = job[j].key
            /\ job' = [job EXCEPT ![j] = next]
        BY <1>0, <2>2 DEF Job
      <3> HIDE DEF next
      <3>2. OneMoves(j, next)
        BY <1>0, <2>1, <3>1 DEF OneMoves, JobFits, Dead
      <3>3. QED
        BY <1>3, <3>1, <3>2
    <2>3. CASE ~stopping /\ job' = [job EXCEPT ![j].status = "running",
                                    ![j].worker = IF j \in Drops THEN "drop" ELSE "load"]
      <3>1. PICK w \in {"drop", "load"} : job' = [job EXCEPT ![j].status = "running", ![j].worker = w]
        BY <2>3
      <3> DEFINE next == [job[j] EXCEPT !.status = "running", !.worker = w]
      <3>2. /\ next \in Job /\ next.worker = w /\ next.status = "running"
            /\ next.phase = job[j].phase /\ next.joinable = job[j].joinable
            /\ next.listed = job[j].listed /\ next.workerFinished = job[j].workerFinished
            /\ next.key = job[j].key
        BY <1>0 DEF Job, Status
      <3>3. job' = [job EXCEPT ![j] = next]
        BY <1>0, <3>1 DEF TypeOK, Job
      <3> HIDE DEF next
      <3>4. job[j].status \notin Terminal /\ "running" \notin Terminal
        BY <1>0, <2>1 DEF JobFits, Dead, Terminal
      <3>5. OneMoves(j, next)
        BY <1>0, <2>1, <3>2, <3>3, <3>4 DEF OneMoves, JobFits, Dead
      <3>6. QED
        BY <1>3, <3>2, <3>5
    <2>4. QED
      BY <1>4, <2>2, <2>3 DEF WorkerStart
  <1>5. CASE RunDrop(j)
    <2>1. PICK w \in {"unrun", "load"} : job' = [job EXCEPT ![j].worker = w]
      BY <1>5 DEF RunDrop
    <2> DEFINE next == [job[j] EXCEPT !.worker = w]
    <2>2. /\ next \in Job /\ next.worker = w /\ next.status = job[j].status
          /\ next.phase = job[j].phase /\ next.joinable = job[j].joinable
          /\ next.listed = job[j].listed /\ next.workerFinished = job[j].workerFinished
          /\ next.key = job[j].key
          /\ job' = [job EXCEPT ![j] = next]
      BY <1>0, <2>1 DEF Job
    <2> HIDE DEF next
    <2>3. job[j].worker = "drop"
      BY <1>5 DEF RunDrop, Worker
    <2>4. OneMoves(j, next)
      BY <1>0, <2>2, <2>3 DEF OneMoves, JobFits, Dead
    <2>5. QED
      BY <1>3, <2>2, <2>4
  <1>6. CASE RunFfiCall(j)
    <2> DEFINE next == [job[j] EXCEPT !.worker = "ffi", !.handle = client]
    <2>1. /\ next \in Job /\ next.worker = "ffi" /\ next.status = job[j].status
          /\ next.phase = job[j].phase /\ next.joinable = job[j].joinable
          /\ next.listed = job[j].listed /\ next.workerFinished = job[j].workerFinished
          /\ next.key = job[j].key
      BY <1>0 DEF Job, TypeOK
    <2>2. job' = [job EXCEPT ![j] = next]
      BY <1>0, <1>6 DEF RunFfiCall, TypeOK, Job
    <2> HIDE DEF next
    <2>3. job[j].worker = "load"
      BY <1>6 DEF RunFfiCall, Worker
    <2>4. OneMoves(j, next)
      BY <1>0, <2>1, <2>2, <2>3 DEF OneMoves, JobFits, Dead
    <2>5. QED
      BY <1>3, <2>1, <2>4
  <1>7. CASE SettleJob(j)
    <2>1. PICK outcome \in Outcomes(j), phase \in {job[j].phase, "final"}, w \in {"release", "done"} :
            job' = [job EXCEPT ![j].status = outcome, ![j].phase = phase, ![j].handle = Null,
                               ![j].workerFinished = TRUE, ![j].worker = w]
      BY <1>7 DEF SettleJob
    <2>2. outcome \in Terminal
      BY DEF Outcomes, Terminal
    <2> DEFINE next == [job[j] EXCEPT !.status = outcome, !.phase = phase, !.handle = Null,
                                      !.workerFinished = TRUE, !.worker = w]
    <2>3. /\ next \in Job /\ next.worker = w /\ next.status = outcome
          /\ next.joinable = job[j].joinable /\ next.listed = job[j].listed
          /\ next.key = job[j].key
      BY <1>0, <2>2 DEF Job, Status
    <2>4. job' = [job EXCEPT ![j] = next]
      BY <1>0, <2>1 DEF TypeOK, Job
    <2> HIDE DEF next
    <2>5. job[j].status \notin Terminal
      BY <1>0, <1>7 DEF SettleJob, Worker, JobFits, Dead
    <2>6. OneMoves(j, next)
      BY <1>0, <2>2, <2>3, <2>4, <2>5 DEF OneMoves, JobFits, Dead
    <2>7. QED
      BY <1>3, <2>3, <2>6
  <1>8. CASE WorkerRelease(j) \/ RecordTombstoneStatus(j)
    <2>1. PICK w \in {"record", "done"} : job' = [job EXCEPT ![j].worker = w]
      BY <1>8 DEF WorkerRelease, RecordTombstoneStatus
    <2> DEFINE next == [job[j] EXCEPT !.worker = w]
    <2>2. /\ next \in Job /\ next.worker = w /\ next.status = job[j].status
          /\ next.phase = job[j].phase /\ next.joinable = job[j].joinable
          /\ next.listed = job[j].listed /\ next.workerFinished = job[j].workerFinished
          /\ next.key = job[j].key
          /\ job' = [job EXCEPT ![j] = next]
      BY <1>0, <2>1 DEF Job
    <2> HIDE DEF next
    <2>3. job[j].worker \in Dead
      BY <1>8 DEF WorkerRelease, RecordTombstoneStatus, Worker, Dead
    <2>4. OneMoves(j, next)
      BY <1>0, <2>2, <2>3 DEF OneMoves, JobFits, Dead
    <2>5. QED
      BY <1>3, <2>2, <2>4
  <1>9. QED
    BY <1>4, <1>5, <1>6, <1>7, <1>8 DEF Work

-----------------------------------------------------------------------------
(* Every step. *)

LEMMA ThreadInvInit == Init => ThreadInv
  <1> SUFFICES ASSUME Init
               PROVE  ThreadInv
    OBVIOUS
  <1>1. Made = {}
    BY DEF Init, Made
  <1>2. \A c \in Caller : call[c].pc = "idle" /\ call[c].joining = {}
    BY DEF Init, Idle
  <1>3. QED
    BY <1>1, <1>2 DEF ThreadInv, Joins

LEMMA ThreadInvNext == ModuleInv /\ ThreadInv /\ [Next]_vars => ThreadInv' /\ Final
  <1> SUFFICES ASSUME ModuleInv, ThreadInv, [Next]_vars
               PROVE  ThreadInv' /\ Final
    OBVIOUS
  <1>1. ASSUME NEW c \in Caller, Begin(c)
        PROVE  ThreadInv' /\ Final
    BY <1>1, BeginQuiet, QuietThreads
  <1>2. ASSUME NEW c \in Caller, Continue(c)
        PROVE  ThreadInv' /\ Final
    <2>1. CASE \/ ReserveKey(c) \/ ReserveDropSlot(c) \/ StartReap(c) \/ StartCheck(c)
               \/ (StartInsert(c) /\ UNCHANGED job)
               \/ RememberRequestKey(c) \/ ReleaseDropSlot(c) \/ AbandonReservation(c)
      BY <2>1, DropPlain, QuietThreads DEF PlainStep
    <2>2. CASE CancelMark(c) \/ CancelReturn(c)
      BY <2>2, CancelPlain, QuietThreads DEF PlainStep
    <2>3. CASE StatusLook(c) \/ StatusPolled(c) \/ StatusPhase(c)
      BY <2>3, StatusPlain, QuietThreads DEF PlainStep
    <2>4. CASE AckErase(c) \/ AckReturn(c)
      BY <2>4, AckPlain, QuietThreads DEF PlainStep
    <2>5. CASE ConfigureCheck(c) \/ ConfigureSwap(c) \/ ConfigureDiscard(c)
      BY <2>5, ConfigureQuiet, QuietThreads
    <2>6. CASE ShutdownFlag(c) \/ ShutdownTake(c) \/ ShutdownExchange(c)
      BY <2>6, ShutdownFlagQuiet, ShutdownTakeQuiet, ShutdownExchangeQuiet, QuietThreads
    <2>7. CASE ShutdownQuit(c) \/ ShutdownDestroy(c) \/ ShutdownRearm(c)
      BY <2>7, ShutdownQuiet, QuietThreads
    <2>8. CASE StartSpawn(c)
      BY <2>8, SpawnThreads
    <2>9. CASE StartInsert(c)
      <3>1. CASE UNCHANGED job
        BY <2>1, <2>9, <3>1
      <3>2. ASSUME NEW j \in JobId \ Made, job' = [job EXCEPT ![j] = NewJob(call[c].key)],
                   call' = [call EXCEPT ![c].pc = "spawn", ![c].job = j]
            PROVE  ThreadInv' /\ Final
        BY <2>9, <3>2, InsertThreads DEF StartInsert
      <3>3. QED
        BY <2>9, <3>1, <3>2 DEF StartInsert
    <2>10. QED
      BY <1>2, <2>1, <2>2, <2>3, <2>4, <2>5, <2>6, <2>7, <2>8, <2>9 DEF Continue
  <1>3. ASSUME NEW j \in JobId, Work(j)
        PROVE  ThreadInv' /\ Final
    BY <1>3, WorkerThreads
  <1>4. CASE UNCHANGED vars
    BY <1>4 DEF vars, ThreadInv, JobFits, Held, Joins, At, Made, NoJob, Final
  <1>5. QED
    BY <1>1, <1>2, <1>3, <1>4 DEF Next

LEMMA ThreadInvariance == Spec => [](ModuleInv /\ ThreadInv)
  <1>1. ModuleInv /\ ThreadInv /\ [Next]_vars => (ModuleInv /\ ThreadInv)'
    BY ModuleInvNext, ThreadInvNext
  <1>2. QED
    BY ModuleInvInit, ThreadInvInit, <1>1, PTL DEF Spec

\* A worker's thread is in its job of the table, or somebody is joining it: acknowledging,
\* reaping and shutting down at the same time free no job with a joinable thread.
THEOREM NoWorkerIsLost == Spec => []NoThreadIsLost
  <1>1. ThreadInv => NoThreadIsLost
    BY DEF ThreadInv, JobFits, Held, NoThreadIsLost
  <1>2. QED
    BY <1>1, ThreadInvariance, PTL

\* The status and the phase a job ended with stay, whatever cancels, polls or shuts down late.
THEOREM WhatSettledStays == Spec => SettledIsFinal
  <1>1. ModuleInv /\ ThreadInv /\ [Next]_vars =>
          [\A j \in Settled : /\ job'[j].status = job[j].status
                              /\ job'[j].phase = job[j].phase]_job
    BY ThreadInvNext DEF Final
  <1>2. QED
    BY <1>1, ThreadInvariance, PTL DEF Spec, SettledIsFinal

-----------------------------------------------------------------------------
(* The client, and who destroys it. *)

\* The calls that hold a client they have taken out of use and are about to destroy.
Discarding(c) == call[c].pc \in {"discard", "destroy"}

\* The client in use is alive, and a client that is about to be destroyed is alive, out of use,
\* and in the hands of one call.
ClientDiesOnce ==
  /\ client \notin destroyed
  /\ \A c \in Caller : Discarding(c) => call[c].handle \in Handle \ (destroyed \cup {client})
  /\ \A c, d \in Caller :
       Discarding(c) /\ Discarding(d) /\ call[c].handle = call[d].handle => c = d

LEMMA HandlesAre ==
  ASSUME ModuleInv
  PROVE  /\ client \in Handle \cup {Null} /\ destroyed \subseteq Handle /\ Null \notin Handle
         /\ Handles \subseteq Handle /\ destroyed \subseteq Handles
         /\ client # Null => client \in Handles
  <1>1. /\ client \in Handle \cup {Null} /\ destroyed \subseteq Handle
        /\ \A c \in Caller : call[c].handle \in Handle \cup {Null}
    BY DEF ModuleInv, TypeOK, Call
  <1>2. Null \notin Handle
    BY DEF Null, Handle
  <1>3. QED
    BY <1>1, <1>2 DEF Handles

\* A step of c that takes no client out of use.
LEMMA ClientKept ==
  ASSUME ClientDiesOnce, NEW c \in Caller, \A d \in Caller \ {c} : call'[d] = call[d],
         UNCHANGED <<client, destroyed>>, call'[c].pc \notin {"discard", "destroy"}
  PROVE  ClientDiesOnce'
  BY DEF ClientDiesOnce, Discarding

\* A step of c that destroys the client it holds.
LEMMA ClientDestroyed ==
  ASSUME ClientDiesOnce, NEW c \in Caller, \A d \in Caller \ {c} : call'[d] = call[d],
         Discarding(c), client' = client, destroyed' = destroyed \cup {call[c].handle},
         call'[c].pc \notin {"discard", "destroy"}
  PROVE  ClientDiesOnce'
  <1>1. call[c].handle # client
    BY DEF ClientDiesOnce
  <1>2. ASSUME NEW d \in Caller, Discarding(d)'
        PROVE  /\ d # c /\ Discarding(d) /\ call'[d].handle = call[d].handle
               /\ call[d].handle # call[c].handle
    BY <1>2 DEF ClientDiesOnce, Discarding
  <1>3. QED
    BY <1>1, <1>2 DEF ClientDiesOnce

\* A step of c that takes the client out of use, to destroy it, and may put a new one there.
LEMMA ClientExchanged ==
  ASSUME ModuleInv, ClientDiesOnce, NEW c \in Caller, \A d \in Caller \ {c} : call'[d] = call[d],
         client' = Null \/ client' \in Handle \ Handles, destroyed' = destroyed,
         \/ call'[c].pc \notin {"discard", "destroy"}
         \/ client # Null /\ call'[c].handle = client
  PROVE  ClientDiesOnce'
  <1>1. client' \notin destroyed' /\ (client # Null => client # client')
    BY HandlesAre
  <1>2. ASSUME NEW d \in Caller, Discarding(d)
        PROVE  call[d].handle \in Handles
    BY <1>2, HandlesAre DEF ClientDiesOnce, Handles
  <1>3. ASSUME NEW d \in Caller \ {c}, Discarding(d)'
        PROVE  /\ Discarding(d) /\ call'[d].handle = call[d].handle
               /\ call'[d].handle \in Handle \ (destroyed \cup {client, client'})
    <2>1. d \in Caller /\ Discarding(d) /\ call'[d].handle = call[d].handle
      BY <1>3 DEF Discarding
    <2>2. call[d].handle \in Handle \ (destroyed \cup {client})
      BY <2>1 DEF ClientDiesOnce
    <2>3. call[d].handle # client'
      BY <1>2, <2>1, <2>2, HandlesAre
    <2>4. QED
      BY <2>1, <2>2, <2>3
  <1>4. ASSUME Discarding(c)'
        PROVE  call'[c].handle = client /\ client \in Handle \ (destroyed' \cup {client'})
    <2>1. client # Null /\ call'[c].handle = client
      BY <1>4 DEF Discarding
    <2>2. QED
      BY <1>1, <2>1, HandlesAre DEF ClientDiesOnce
  <1>5. \A d \in Caller : Discarding(d)' => call'[d].handle \in Handle \ (destroyed' \cup {client'})
    BY <1>3, <1>4
  <1>6. ASSUME NEW d \in Caller, NEW e \in Caller, Discarding(d)', Discarding(e)',
               call'[d].handle = call'[e].handle
        PROVE  d = e
    <2>1. CASE d # c /\ e # c
      BY <1>3, <1>6, <2>1 DEF ClientDiesOnce
    <2>2. CASE d = c /\ e # c
      BY <1>3, <1>4, <1>6, <2>2
    <2>3. CASE d # c /\ e = c
      BY <1>3, <1>4, <1>6, <2>3
    <2>4. QED
      BY <2>1, <2>2, <2>3
  <1>7. QED
    BY <1>1, <1>5, <1>6 DEF ClientDiesOnce

LEMMA ConfigureClient ==
  ASSUME ModuleInv, ThreadInv, ClientDiesOnce, NEW c \in Caller,
         ConfigureCheck(c) \/ ConfigureSwap(c) \/ ConfigureDiscard(c)
  PROVE  ClientDiesOnce'
  <1>1. \A d \in Caller \ {c} : call'[d] = call[d]
    BY ConfigureQuiet DEF QuietStep
  <1>2. Return(c) => call'[c].pc = "idle"
    BY ReturnGoes DEF ModuleInv, Steps
  <1>3. CASE ConfigureCheck(c)
    <2>1. call'[c].pc \in {"idle", "swap"}
      BY <1>2, <1>3, GotoGoes DEF ConfigureCheck, ModuleInv, Steps
    <2>2. QED
      BY <1>1, <1>3, <2>1, ClientKept DEF ConfigureCheck
  <1>4. CASE ConfigureSwap(c)
    <2>1. CASE Return(c) /\ UNCHANGED client
      BY <1>1, <1>2, <1>4, <2>1, ClientKept DEF ConfigureSwap
    <2>2. CASE /\ Handles # Handle
               /\ client' = CHOOSE h \in Handle \ Handles : TRUE
               /\ IF client = Null
                  THEN Return(c)
                  ELSE call' = [call EXCEPT ![c].pc = "discard", ![c].handle = client]
      <3>1. client' \in Handle \ Handles
        BY <2>2, HandlesAre
      <3>2. call[c] \in Call /\ call \in [Caller -> Call]
        BY DEF ModuleInv, TypeOK
      <3>3. \/ call'[c].pc = "idle"
            \/ client # Null /\ call'[c].handle = client
        BY <1>2, <2>2, <3>2 DEF Call
      <3>4. QED
        BY <1>1, <1>4, <3>1, <3>3, ClientExchanged DEF ConfigureSwap
    <2>3. QED
      BY <1>4, <2>1, <2>2 DEF ConfigureSwap
  <1>5. CASE ConfigureDiscard(c)
    BY <1>1, <1>2, <1>5, ClientDestroyed DEF ConfigureDiscard, At, Discarding
  <1>6. QED
    BY <1>3, <1>4, <1>5

LEMMA ShutdownClient ==
  ASSUME ModuleInv, ThreadInv, ClientDiesOnce, NEW c \in Caller,
         \/ ShutdownFlag(c) \/ ShutdownTake(c) \/ ShutdownExchange(c)
         \/ ShutdownQuit(c) \/ ShutdownDestroy(c) \/ ShutdownRearm(c)
  PROVE  ClientDiesOnce'
  <1>1. \A d \in Caller \ {c} : call'[d] = call[d]
    BY ShutdownFlagQuiet, ShutdownTakeQuiet, ShutdownExchangeQuiet, ShutdownQuiet DEF QuietStep
  <1>2. CASE ShutdownFlag(c) \/ ShutdownTake(c)
    BY <1>1, <1>2, ShutdownFlagQuiet, ShutdownTakeQuiet, ClientKept DEF ShutdownFlag, ShutdownTake
  <1>3. CASE ShutdownQuit(c) \/ ShutdownRearm(c)
    <2>1. call'[c].pc \in {"take", "idle"}
      BY <1>3, ShutdownQuiet DEF ShutdownQuit, ShutdownDestroy, ShutdownRearm, At
    <2>2. QED
      BY <1>1, <1>3, <2>1, ClientKept DEF ShutdownQuit, ShutdownRearm
  <1>4. CASE ShutdownExchange(c)
    <2>1. \/ call'[c].pc = "rearm"
          \/ client # Null /\ call'[c].handle = client
      BY <1>4, ShutdownExchangeQuiet
    <2>2. QED
      BY <1>1, <1>4, <2>1, ClientExchanged DEF ShutdownExchange
  <1>5. CASE ShutdownDestroy(c)
    <2>1. call'[c].pc = "rearm"
      BY <1>5, ShutdownQuiet DEF ShutdownQuit, ShutdownDestroy, ShutdownRearm, At
    <2>2. QED
      BY <1>1, <1>5, <2>1, ClientDestroyed DEF ShutdownDestroy, At, Discarding
  <1>6. QED
    BY <1>2, <1>3, <1>4, <1>5

LEMMA ClientNext ==
  ASSUME ModuleInv, ThreadInv, ClientDiesOnce, [Next]_vars
  PROVE  ClientDiesOnce'
  <1>1. ASSUME NEW c \in Caller, Begin(c)
        PROVE  ClientDiesOnce'
    <2>1. call'[c].pc \notin {"discard", "destroy"}
      BY <1>1, BeginQuiet DEF Aside, Configuring, Stopping
    <2>2. QED
      BY <1>1, <2>1, BeginQuiet, ClientKept DEF QuietStep
  <1>2. ASSUME NEW c \in Caller, PlainStep(c)
        PROVE  ClientDiesOnce'
    <2>1. call'[c].pc \notin {"discard", "destroy"}
      BY <1>2 DEF PlainStep, Aside, Configuring, Stopping
    <2>2. QED
      BY <1>2, <2>1, ClientKept DEF PlainStep, QuietStep
  <1>3. ASSUME NEW c \in Caller, StartInsert(c)
        PROVE  ClientDiesOnce'
    <2>1. CASE UNCHANGED job
      BY <1>2, <1>3, <2>1, DropPlain
    <2>2. CASE \E j \in JobId \ Made :
                 /\ job' = [job EXCEPT ![j] = NewJob(call[c].key)]
                 /\ call' = [call EXCEPT ![c].pc = "spawn", ![c].job = j]
      <3>1. call'[c].pc = "spawn" /\ \A d \in Caller \ {c} : call'[d] = call[d]
        BY <1>3, <2>2, InsertThreads DEF StartInsert
      <3>2. QED
        BY <1>3, <3>1, ClientKept DEF StartInsert
    <2>3. QED
      BY <1>3, <2>1, <2>2 DEF StartInsert
  <1>4. ASSUME NEW c \in Caller, StartSpawn(c)
        PROVE  ClientDiesOnce'
    BY <1>4, SpawnThreads, ClientKept DEF StartSpawn
  <1>5. ASSUME NEW c \in Caller, Continue(c)
        PROVE  ClientDiesOnce'
    <2>1. CASE \/ ReserveKey(c) \/ ReserveDropSlot(c) \/ StartReap(c) \/ StartCheck(c)
               \/ RememberRequestKey(c) \/ ReleaseDropSlot(c) \/ AbandonReservation(c)
      BY <1>2, <2>1, DropPlain
    <2>2. CASE CancelMark(c) \/ CancelReturn(c)
      BY <1>2, <2>2, CancelPlain
    <2>3. CASE StatusLook(c) \/ StatusPolled(c) \/ StatusPhase(c)
      BY <1>2, <2>3, StatusPlain
    <2>4. CASE AckErase(c) \/ AckReturn(c)
      BY <1>2, <2>4, AckPlain
    <2>5. CASE ConfigureCheck(c) \/ ConfigureSwap(c) \/ ConfigureDiscard(c)
      BY <2>5, ConfigureClient
    <2>6. CASE \/ ShutdownFlag(c) \/ ShutdownTake(c) \/ ShutdownExchange(c)
               \/ ShutdownQuit(c) \/ ShutdownDestroy(c) \/ ShutdownRearm(c)
      BY <2>6, ShutdownClient
    <2>7. QED
      BY <1>3, <1>4, <1>5, <2>1, <2>2, <2>3, <2>4, <2>5, <2>6 DEF Continue
  <1>6. CASE UNCHANGED <<client, destroyed, call>>
    BY <1>6 DEF ClientDiesOnce, Discarding
  <1>7. ASSUME NEW j \in JobId, Work(j)
        PROVE  ClientDiesOnce'
    BY <1>6, <1>7, WorkerThreads DEF WorkerMoves
  <1>8. QED
    BY <1>1, <1>5, <1>6, <1>7 DEF Next, vars

\* Whoever shuts down or configures while others do, the client in use is never one that was
\* destroyed, and no client is destroyed by two of them: the exchange of the handle decides.
THEOREM ClientIsDestroyedOnce == Spec => []ClientDiesOnce
  <1>1. Init => ClientDiesOnce
    BY DEF Init, Idle, ClientDiesOnce, Discarding
  <1>2. ModuleInv /\ ThreadInv /\ ClientDiesOnce /\ [Next]_vars => ClientDiesOnce'
    BY ClientNext
  <1>3. QED
    BY <1>1, <1>2, ThreadInvariance, PTL DEF Spec

-----------------------------------------------------------------------------
(* The drop slot, and the outcomes the tombstones keep. *)

\* A drop has the slot from its reservation until its thread runs, and its worker from there
\* until it has settled.
HoldsSlot(c) ==
  call[c].pc \in {"start", "check", "insert", "spawn", "release"} /\ call[c].key # NoKey

RunsSlot(j) == j \in Drops /\ job[j].worker \notin {"unborn", "record", "done"}

OneSlot ==
  /\ \A c, d \in Caller : HoldsSlot(c) /\ HoldsSlot(d) => c = d
  /\ \A i, j \in JobId : RunsSlot(i) /\ RunsSlot(j) => i = j
  /\ \A c \in Caller, j \in JobId : ~(HoldsSlot(c) /\ RunsSlot(j))
  /\ dropActive <=> (\E c \in Caller : HoldsSlot(c)) \/ \E j \in JobId : RunsSlot(j)

\* The job a caller has started is of its key; so is the job of a tombstone, and a drop that is
\* done has left its status there.
OwnJob(c) == call[c].pc \in Began => job[call[c].job].key = call[c].key

RecordInv ==
  /\ \A c \in Caller : OwnJob(c)
  /\ \A k \in Key : tombstone[k] # NoTombstone /\ tombstone[k].job # Null =>
       tombstone[k].job \in Made /\ job[tombstone[k].job].key = k
  /\ \A j \in Drops : job[j].worker = "done" => tombstone[job[j].key].status = job[j].status

\* A step of a caller that starts no thread leaves the workers in the slot.
LEMMA QuietSlot ==
  ASSUME NEW c \in Caller, QuietStep(c)
  PROVE  /\ Drops' = Drops /\ \A j \in JobId : RunsSlot(j)' <=> RunsSlot(j)
         /\ \A d \in Caller \ {c} : HoldsSlot(d)' <=> HoldsSlot(d)
  <1>1. Drops' = Drops /\ \A j \in Made : job'[j].worker = job[j].worker
    BY DEF QuietStep, KeepsThread, Drops
  <1>2. QED
    BY <1>1 DEF QuietStep, RunsSlot, HoldsSlot, Drops

LEMMA SlotKept ==
  ASSUME OneSlot, UNCHANGED dropActive, NEW c \in Caller, QuietStep(c),
         HoldsSlot(c)' <=> HoldsSlot(c)
  PROVE  OneSlot'
  <1>1. \A d \in Caller : HoldsSlot(d)' <=> HoldsSlot(d)
    BY QuietSlot
  <1>2. \A j \in JobId : RunsSlot(j)' <=> RunsSlot(j)
    BY QuietSlot
  <1>3. QED
    BY <1>1, <1>2 DEF OneSlot

\* It leaves the records as they are, as long as it leaves the tombstones.
LEMMA RecordKept ==
  ASSUME ModuleInv, ThreadInv, RecordInv, NEW c \in Caller, QuietStep(c), UNCHANGED tombstone,
         call'[c].pc \notin Began
  PROVE  RecordInv'
  <1>1. ASSUME NEW d \in Caller
        PROVE  OwnJob(d)'
    <2>1. CASE d = c
      BY <2>1 DEF OwnJob
    <2>2. CASE d # c
      <3>1. call'[d] = call[d] /\ OwnJob(d)
        BY <2>2 DEF QuietStep, RecordInv
      <3>2. call[d].pc \in Began => call[d].job \in Made
        BY DEF ModuleInv, CallFits, OfJob, Began
      <3>3. QED
        BY <3>1, <3>2 DEF OwnJob, QuietStep, KeepsThread
    <2>3. QED
      BY <2>1, <2>2
  <1>2. /\ Made' = Made /\ Drops' = Drops
        /\ \A j \in Made : job'[j].key = job[j].key /\ job'[j].worker = job[j].worker
    BY QuietSlot DEF QuietStep, KeepsThread
  <1>3. \A j \in Drops : j \in Made /\ (job[j].worker = "done" => job'[j].status = job[j].status)
    BY DEF Drops, ThreadInv, JobFits, Dead, QuietStep, KeepsThread
  <1>4. \A k \in Key : tombstone'[k] # NoTombstone' /\ tombstone'[k].job # Null =>
          tombstone'[k].job \in Made' /\ job'[tombstone'[k].job].key = k
    BY <1>2 DEF RecordInv, NoTombstone
  <1>5. \A j \in Drops' : job'[j].worker = "done" => tombstone'[job'[j].key].status = job'[j].status
    BY <1>2, <1>3 DEF RecordInv
  <1>6. QED
    BY <1>1, <1>4, <1>5 DEF RecordInv

\* Where a step of a call goes that neither has the slot nor is about to.
Outside(pc) == pc \notin {"key", "slot", "start", "check", "insert", "spawn", "remember", "release",
                          "abandon"}

LEMMA OutsideSteps ==
  ASSUME ModuleInv, ThreadInv, NEW c \in Caller,
         \/ CancelMark(c) \/ CancelReturn(c) \/ StatusLook(c) \/ StatusPolled(c) \/ StatusPhase(c)
         \/ AckErase(c) \/ AckReturn(c)
         \/ ConfigureCheck(c) \/ ConfigureSwap(c) \/ ConfigureDiscard(c)
         \/ ShutdownFlag(c) \/ ShutdownTake(c) \/ ShutdownExchange(c)
         \/ ShutdownQuit(c) \/ ShutdownDestroy(c) \/ ShutdownRearm(c)
  PROVE  /\ QuietStep(c) /\ Outside(call[c].pc) /\ Outside(call'[c].pc)
         /\ UNCHANGED <<dropActive, tombstone>>
  <1>0. call[c] \in Call /\ call \in [Caller -> Call]
    BY DEF ModuleInv, TypeOK
  <1>1. /\ Return(c) => call'[c].pc = "idle"
        /\ \A pc : Goto(c, pc) => call'[c].pc = pc
        /\ \A pc, h, js : call' = [call EXCEPT ![c].pc = pc, ![c].handle = h, ![c].joining = js]
                          => call'[c].pc = pc
        /\ \A pc, js : call' = [call EXCEPT ![c].pc = pc, ![c].joining = js] => call'[c].pc = pc
    <2>1. /\ Return(c) => call'[c].pc = "idle"
          /\ \A pc : Goto(c, pc) => call'[c].pc = pc
      BY ReturnGoes, GotoGoes DEF ModuleInv, Steps
    <2>2. ASSUME NEW pc, NEW h, NEW js,
                 call' = [call EXCEPT ![c].pc = pc, ![c].handle = h, ![c].joining = js]
          PROVE  call'[c].pc = pc
      BY <1>0, <2>2 DEF Call
    <2>3. ASSUME NEW pc, NEW js, call' = [call EXCEPT ![c].pc = pc, ![c].joining = js]
          PROVE  call'[c].pc = pc
      BY <1>0, <2>3 DEF Call
    <2>4. QED
      BY <2>1, <2>2, <2>3
  <1>2. CASE CancelMark(c) \/ CancelReturn(c)
    <2>1. QuietStep(c) /\ call[c].pc \in {"mark", "cancelling"} /\ UNCHANGED <<dropActive, tombstone>>
      BY <1>2, CancelPlain DEF CancelMark, CancelReturn, At, PlainStep
    <2>2. call'[c].pc \in {"idle", "cancelling"}
      <3>1. \/ Return(c)
            \/ call' = [call EXCEPT ![c].pc = "cancelling", ![c].handle = client, ![c].joining = {}]
        BY <1>2 DEF CancelMark, CancelReturn
      <3>2. QED
        BY <1>1, <3>1
    <2>3. QED
      BY <2>1, <2>2 DEF Outside
  <1>3. CASE StatusLook(c) \/ StatusPolled(c) \/ StatusPhase(c)
    <2>1. /\ QuietStep(c) /\ call[c].pc \in {"look", "polling", "phase"}
          /\ UNCHANGED <<dropActive, tombstone>>
      BY <1>3, StatusPlain DEF StatusLook, StatusPolled, StatusPhase, At, PlainStep
    <2>2. call'[c].pc \in {"idle", "polling", "phase"}
      BY <1>1, <1>3 DEF StatusLook, StatusPolled, StatusPhase
    <2>3. QED
      BY <2>1, <2>2 DEF Outside
  <1>4. CASE AckErase(c) \/ AckReturn(c)
    <2>1. QuietStep(c) /\ call[c].pc \in {"ack", "acked"} /\ UNCHANGED <<dropActive, tombstone>>
      BY <1>4, AckPlain DEF AckErase, AckReturn, At, PlainStep
    <2>2. call'[c].pc \in {"idle", "acked"}
      BY <1>1, <1>4 DEF AckErase, AckReturn
    <2>3. QED
      BY <2>1, <2>2 DEF Outside
  <1>5. CASE ConfigureCheck(c) \/ ConfigureSwap(c) \/ ConfigureDiscard(c)
    BY <1>5, ConfigureQuiet
       DEF ConfigureCheck, ConfigureSwap, ConfigureDiscard, Configuring, Outside
  <1>6. CASE ShutdownFlag(c) \/ ShutdownTake(c) \/ ShutdownExchange(c)
    BY <1>6, ShutdownFlagQuiet, ShutdownTakeQuiet, ShutdownExchangeQuiet
       DEF ShutdownFlag, ShutdownTake, ShutdownExchange, Stopping, Outside
  <1>7. CASE ShutdownQuit(c) \/ ShutdownDestroy(c) \/ ShutdownRearm(c)
    BY <1>7, ShutdownQuiet DEF ShutdownQuit, ShutdownDestroy, ShutdownRearm, Stopping, Outside
  <1>8. QED
    BY <1>2, <1>3, <1>4, <1>5, <1>6, <1>7

LEMMA BeginSlot ==
  ASSUME ModuleInv, ThreadInv, NEW c \in Caller, Begin(c)
  PROVE  /\ QuietStep(c) /\ ~HoldsSlot(c) /\ ~HoldsSlot(c)' /\ call'[c].pc \notin Began
         /\ UNCHANGED <<dropActive, tombstone>>
  <1>0. QuietStep(c) /\ call[c].pc = "idle"
    BY BeginQuiet
  <1>1. CASE Shutdown(c)
    <2>1. call'[c].pc = "flag"
      BY <1>1, GotoGoes DEF Shutdown, ModuleInv, Steps
    <2>2. QED
      BY <1>0, <1>1, <2>1 DEF Shutdown, HoldsSlot, Began
  <1>2. ASSUME NEW operation, NEW pc \in {"configure", "check", "key", "mark", "look", "ack"},
               NEW k, NEW j, Enter(c, operation, pc, k, j), pc = "check" => k = NoKey
        PROVE  ~HoldsSlot(c)' /\ call'[c].pc \notin Began /\ UNCHANGED <<dropActive, tombstone>>
    <2> DEFINE next == [Idle EXCEPT !.pc = pc, !.key = k, !.job = j, !.joining = Reapable]
    <2>1. next.pc = pc /\ next.key = k
      BY DEF Idle
    <2>2. call' = [call EXCEPT ![c] = next] /\ call \in [Caller -> Call]
      BY <1>2 DEF Enter, ModuleInv, TypeOK
    <2> HIDE DEF next
    <2>3. call'[c].pc = pc /\ call'[c].key = k
      BY <2>1, <2>2
    <2>4. QED
      BY <1>2, <2>3 DEF Enter, HoldsSlot, Began
  <1>3. CASE \/ Configure(c) \/ Info(c) \/ Drop(c) \/ Cancel(c) \/ JobStatus(c) \/ Ack(c)
    <2>1. ~HoldsSlot(c)
      BY <1>0 DEF HoldsSlot
    <2>2. QED
      BY <1>0, <1>2, <1>3, <2>1 DEF Configure, Info, Drop, Cancel, JobStatus, Ack
  <1>4. QED
    BY <1>1, <1>3 DEF Begin

LEMMA QuietSlotSteps ==
  ASSUME ModuleInv, ThreadInv, OneSlot, RecordInv, NEW c \in Caller,
         \/ Begin(c)
         \/ CancelMark(c) \/ CancelReturn(c) \/ StatusLook(c) \/ StatusPolled(c) \/ StatusPhase(c)
         \/ AckErase(c) \/ AckReturn(c)
         \/ ConfigureCheck(c) \/ ConfigureSwap(c) \/ ConfigureDiscard(c)
         \/ ShutdownFlag(c) \/ ShutdownTake(c) \/ ShutdownExchange(c)
         \/ ShutdownQuit(c) \/ ShutdownDestroy(c) \/ ShutdownRearm(c)
  PROVE  OneSlot' /\ RecordInv'
  <1>1. /\ QuietStep(c) /\ ~HoldsSlot(c) /\ ~HoldsSlot(c)' /\ call'[c].pc \notin Began
        /\ UNCHANGED <<dropActive, tombstone>>
    <2>1. CASE Begin(c)
      BY <2>1, BeginSlot
    <2>2. CASE ~Begin(c)
      BY <2>2, OutsideSteps DEF Outside, HoldsSlot, Began
    <2>3. QED
      BY <2>1, <2>2
  <1>2. QED
    BY <1>1, SlotKept, RecordKept

-----------------------------------------------------------------------------
(* The steps of a drop from its reservation to its thread. *)

\* The steps that take the slot, keep it, and give it back.
LEMMA CallerSlot ==
  ASSUME ModuleInv, ThreadInv, OneSlot, RecordInv, NEW c \in Caller,
         \/ ReserveDropSlot(c) \/ StartReap(c) \/ StartCheck(c)
         \/ (StartInsert(c) /\ UNCHANGED job) \/ ReleaseDropSlot(c)
  PROVE  OneSlot' /\ RecordInv'
  <1>1. PlainStep(c) /\ QuietStep(c) /\ UNCHANGED tombstone
    BY DropPlain DEF PlainStep, ReserveDropSlot, StartReap, StartCheck, StartInsert, ReleaseDropSlot
  <1>2. /\ Return(c) => call'[c].pc = "idle"
        /\ \A pc \in Pcs : Goto(c, pc) => call'[c].pc = pc /\ call'[c].key = call[c].key
    BY ReturnGoes, GotoMoves DEF ModuleInv, Steps, Moves
  <1>3. CallFits(c) /\ call[c] \in Call /\ call \in [Caller -> Call]
    BY DEF ModuleInv, TypeOK
  <1>4. CASE ReserveDropSlot(c)
    <2>1. call[c].pc = "slot" /\ call[c].key # NoKey /\ ~HoldsSlot(c) /\ dropActive'
      BY <1>3, <1>4 DEF ReserveDropSlot, At, CallFits, Keyed, HoldsSlot
    <2>2. CASE dropActive
      <3>1. call'[c].pc = "abandon"
        BY <1>2, <1>4, <2>2 DEF ReserveDropSlot, Pcs
      <3>2. ~HoldsSlot(c)' /\ UNCHANGED dropActive
        BY <1>4, <2>2, <3>1 DEF ReserveDropSlot, HoldsSlot
      <3>3. QED
        BY <1>1, <2>1, <3>1, <3>2, SlotKept, RecordKept DEF Began
    <2>3. CASE ~dropActive
      <3>1. call'[c].pc = "start" /\ call'[c].key = call[c].key
        BY <1>2, <1>4, <2>3 DEF ReserveDropSlot, Pcs
      <3>2. HoldsSlot(c)' /\ RecordInv'
        BY <1>1, <2>1, <3>1, RecordKept DEF HoldsSlot, Began
      <3>3. /\ \A d \in Caller \ {c} : ~HoldsSlot(d)'
            /\ \A j \in JobId : ~RunsSlot(j)'
        BY <1>1, <2>3, QuietSlot DEF OneSlot
      <3>4. QED
        BY <2>1, <3>2, <3>3 DEF OneSlot
    <2>4. QED
      BY <2>2, <2>3
  <1>5. CASE StartReap(c)
    <2>1. call[c].pc = "start" /\ call'[c].pc = "check" /\ call'[c].key = call[c].key
      BY <1>3, <1>5 DEF StartReap, At, Call
    <2>2. QED
      BY <1>1, <1>5, <2>1, SlotKept, RecordKept DEF StartReap, HoldsSlot, Began
  <1>6. CASE StartCheck(c) \/ (StartInsert(c) /\ UNCHANGED job)
    <2>1. call[c].pc \in {"check", "insert"} /\ UNCHANGED dropActive
      BY <1>6 DEF StartCheck, StartInsert, At
    <2>2. \/ call[c].key = NoKey /\ call'[c].pc = "idle"
          \/ call'[c].pc \in {"release", "insert"} /\ call'[c].key = call[c].key
      <3>1. StartFails(c) \/ Goto(c, "insert")
        <4>1. CASE StartCheck(c)
          BY <4>1 DEF StartCheck
        <4>2. CASE StartInsert(c) /\ UNCHANGED job
          <5>1. ASSUME NEW j \in JobId \ Made, job' = [job EXCEPT ![j] = NewJob(call[c].key)]
                PROVE  FALSE
            <6>1. job'[j] = NewJob(call[c].key) /\ job[j] = NoJob
              BY <5>1 DEF ModuleInv, TypeOK, Made
            <6>2. NewJob(call[c].key).status # NoJob.status
              BY DEF NewJob, NoJob
            <6>3. QED
              BY <4>2, <6>1, <6>2
          <5>2. QED
            BY <4>2, <5>1 DEF StartInsert
        <4>3. QED
          BY <1>6, <4>1, <4>2
      <3>2. QED
        BY <1>2, <3>1 DEF StartFails, Pcs
    <2>3. HoldsSlot(c)' <=> HoldsSlot(c)
      BY <2>1, <2>2 DEF HoldsSlot
    <2>4. call'[c].pc \notin Began
      BY <2>2 DEF Began
    <2>5. QED
      BY <1>1, <2>1, <2>3, <2>4, SlotKept, RecordKept
  <1>7. CASE ReleaseDropSlot(c)
    <2>1. HoldsSlot(c) /\ call'[c].pc = "abandon" /\ ~dropActive'
      BY <1>2, <1>3, <1>7 DEF ReleaseDropSlot, At, CallFits, Keyed, HoldsSlot, Pcs
    <2>2. ~HoldsSlot(c)'
      BY <2>1 DEF HoldsSlot
    <2>3. /\ \A d \in Caller \ {c} : ~HoldsSlot(d)'
          /\ \A j \in JobId : ~RunsSlot(j)'
      BY <1>1, <2>1, QuietSlot DEF OneSlot
    <2>4. RecordInv'
      BY <1>1, <2>1, RecordKept DEF Began
    <2>5. QED
      BY <2>1, <2>2, <2>3, <2>4 DEF OneSlot
  <1>8. QED
    BY <1>4, <1>5, <1>6, <1>7

\* A job that was just made has no thread: its caller has the slot.
LEMMA InsertSlot ==
  ASSUME ModuleInv, ThreadInv, OneSlot, RecordInv, NEW c \in Caller, StartInsert(c),
         NEW j \in JobId \ Made, job' = [job EXCEPT ![j] = NewJob(call[c].key)],
         call' = [call EXCEPT ![c].pc = "spawn", ![c].job = j]
  PROVE  OneSlot' /\ RecordInv'
  <1>1. /\ Made' = Made \cup {j} /\ (\A i \in Made : job'[i] = job[i])
        /\ job'[j].worker = "unborn" /\ \A d \in Caller \ {c} : call'[d] = call[d]
    BY InsertThreads DEF StartInsert
  <1>2. /\ call[c] \in Call /\ call \in [Caller -> Call] /\ call[c].key \in Key \cup {NoKey}
        /\ job \in [JobId -> Job \cup {NoJob}] /\ call[c].pc = "insert"
    BY DEF ModuleInv, TypeOK, Call, StartInsert, At
  <1>3. call'[c].pc = "spawn" /\ call'[c].job = j /\ call'[c].key = call[c].key
    BY <1>2 DEF Call
  <1>4. job'[j].key = call[c].key
    BY <1>2, NewJobIsQueued
  <1>5. UNCHANGED <<tombstone, dropActive>>
    BY DEF StartInsert
  <1>6. \A d \in Caller : HoldsSlot(d)' <=> HoldsSlot(d)
    BY <1>1, <1>2, <1>3 DEF HoldsSlot
  <1>7. \A i \in Drops' : i = j \/ i \in Drops
    BY <1>1 DEF Drops
  <1>8. Drops \subseteq Made /\ Drops \subseteq Drops'
    BY <1>1 DEF Drops
  <1>9. \A i \in JobId : RunsSlot(i)' <=> RunsSlot(i)
    BY <1>1, <1>7, <1>8 DEF RunsSlot
  <1>10. OneSlot'
    BY <1>5, <1>6, <1>9 DEF OneSlot
  <1>11. ASSUME NEW d \in Caller
         PROVE  OwnJob(d)'
    <2>1. CASE d = c
      BY <1>3, <1>4, <2>1 DEF OwnJob
    <2>2. CASE d # c
      <3>1. OwnJob(d) /\ call'[d] = call[d] /\ (call[d].pc \in Began => call[d].job \in Made)
        BY <1>1, <2>2 DEF RecordInv, ModuleInv, CallFits, OfJob, Began
      <3>2. QED
        BY <1>1, <3>1 DEF OwnJob
    <2>3. QED
      BY <2>1, <2>2
  <1>12. \A k \in Key : tombstone'[k] # NoTombstone' /\ tombstone'[k].job # Null =>
           tombstone'[k].job \in Made' /\ job'[tombstone'[k].job].key = k
    BY <1>1, <1>5 DEF RecordInv, NoTombstone
  <1>13. \A i \in Drops' : job'[i].worker = "done" => tombstone'[job'[i].key].status = job'[i].status
    BY <1>1, <1>5, <1>7, <1>8 DEF RecordInv
  <1>14. QED
    BY <1>10, <1>11, <1>12, <1>13 DEF RecordInv

\* The worker takes the slot over from the caller that started it.
LEMMA SpawnSlot ==
  ASSUME ModuleInv, ThreadInv, OneSlot, RecordInv, NEW c \in Caller, StartSpawn(c)
  PROVE  OneSlot' /\ RecordInv'
  <1>0. PICK j, k : j = call[c].job /\ k = call[c].key
    OBVIOUS
  <1> DEFINE next == [job[j] EXCEPT !.worker = "start", !.joinable = TRUE]
  <1>1. /\ Made' = Made /\ call[c].pc = "spawn" /\ call'[c].pc \in {"idle", "remember"}
        /\ \A d \in Caller \ {c} : call'[d] = call[d]
    BY SpawnThreads
  <1>2. /\ j \in Made /\ j \in JobId /\ job[j] \in Job /\ job[j].worker = "unborn" /\ job[j].key = k
        /\ job \in [JobId -> Job \cup {NoJob}]
    BY <1>0, <1>1, MadeIs
       DEF ModuleInv, TypeOK, CallFits, OfJob, Made, ThreadInv, Joins, RecordInv, OwnJob, Began
  <1>3. next.worker = "start" /\ next.key = k /\ next.status = job[j].status
    BY <1>2 DEF Job
  <1>4. job' = [job EXCEPT ![j] = next]
    BY <1>0, <1>2 DEF StartSpawn, Job
  <1> HIDE DEF next
  <1>5. /\ job'[j].worker = "start" /\ job'[j].key = k
        /\ \A i \in JobId \ {j} : job'[i] = job[i]
    BY <1>2, <1>3, <1>4
  <1>6. Drops' = Drops /\ (j \in Drops <=> k # NoKey) /\ Drops \subseteq JobId
    BY <1>1, <1>2, <1>5 DEF Drops, Made
  <1>7. UNCHANGED <<tombstone, dropActive>>
    BY DEF StartSpawn
  <1>8. /\ call'[c].pc = "remember" => call'[c].key = k /\ call'[c].job = j
        /\ k = NoKey => call'[c].pc = "idle"
    BY <1>0, <1>1, ReturnMoves, GotoMoves DEF StartSpawn, ModuleInv, Moves, Pcs
  <1>9. ~HoldsSlot(c)' /\ \A d \in Caller \ {c} : HoldsSlot(d)' <=> HoldsSlot(d)
    BY <1>1 DEF HoldsSlot
  <1>10. (HoldsSlot(c) <=> k # NoKey) /\ (RunsSlot(j)' <=> k # NoKey) /\ ~RunsSlot(j)
    BY <1>0, <1>1, <1>2, <1>5, <1>6 DEF HoldsSlot, RunsSlot
  <1>11. \A i \in JobId \ {j} : RunsSlot(i)' <=> RunsSlot(i)
    BY <1>5, <1>6 DEF RunsSlot
  <1>12. OneSlot'
    BY <1>2, <1>7, <1>9, <1>10, <1>11 DEF OneSlot
  <1>13. \A i \in Made : job'[i].key = job[i].key
    BY <1>2, <1>5 DEF Made
  <1>14. ASSUME NEW d \in Caller
         PROVE  OwnJob(d)'
    <2>1. CASE d = c
      BY <1>5, <1>8, <1>1, <2>1 DEF OwnJob, Began
    <2>2. CASE d # c
      <3>1. OwnJob(d) /\ call'[d] = call[d] /\ (call[d].pc \in Began => call[d].job \in Made)
        BY <1>1, <2>2 DEF RecordInv, ModuleInv, CallFits, OfJob, Began
      <3>2. QED
        BY <1>13, <3>1 DEF OwnJob
    <2>3. QED
      BY <2>1, <2>2
  <1>15. \A q \in Key : tombstone'[q] # NoTombstone' /\ tombstone'[q].job # Null =>
           tombstone'[q].job \in Made' /\ job'[tombstone'[q].job].key = q
    BY <1>1, <1>7, <1>13 DEF RecordInv, NoTombstone
  <1>16. \A i \in Drops' : job'[i].worker = "done" => tombstone'[job'[i].key].status = job'[i].status
    BY <1>5, <1>6, <1>7 DEF RecordInv
  <1>17. QED
    BY <1>12, <1>14, <1>15, <1>16 DEF RecordInv

\* The tombstone of a reserved key learns the job that was started for it.
LEMMA RememberSlot ==
  ASSUME ModuleInv, ThreadInv, OneSlot, RecordInv, NEW c \in Caller, RememberRequestKey(c)
  PROVE  OneSlot' /\ RecordInv'
  <1>0. PICK j, k : j = call[c].job /\ k = call[c].key
    OBVIOUS
  <1>1. PlainStep(c) /\ QuietStep(c) /\ UNCHANGED <<job, dropActive>>
    BY DropPlain DEF PlainStep, RememberRequestKey
  <1>2. call[c].pc = "remember" /\ call'[c].pc = "idle"
    BY ReturnGoes DEF RememberRequestKey, At, ModuleInv, Steps
  <1>3. /\ j \in Made /\ k \in Key /\ job[j].key = k /\ tombstone[k] \in Tombstone
        /\ tombstone \in [Key -> Tombstone \cup {NoTombstone}]
    BY <1>0, <1>2
       DEF ModuleInv, TypeOK, Call, CallFits, OfJob, Keyed, Reserved, Holding, Began, RecordInv, OwnJob
  <1>4. /\ tombstone'[k].job = j /\ tombstone'[k].status = tombstone[k].status
        /\ \A q \in Key \ {k} : tombstone'[q] = tombstone[q]
    BY <1>0, <1>3 DEF RememberRequestKey, Tombstone
  <1>5. OneSlot'
    BY <1>1, <1>2, SlotKept DEF HoldsSlot
  <1>6. Made' = Made /\ Drops' = Drops
    BY <1>1, QuietSlot DEF QuietStep
  <1>7. ASSUME NEW d \in Caller
        PROVE  OwnJob(d)'
    <2>1. CASE d = c
      BY <1>2, <2>1 DEF OwnJob, Began
    <2>2. CASE d # c
      BY <1>1, <2>2 DEF OwnJob, QuietStep, RecordInv
    <2>3. QED
      BY <2>1, <2>2
  <1>8. ASSUME NEW q \in Key, tombstone'[q] # NoTombstone', tombstone'[q].job # Null
        PROVE  tombstone'[q].job \in Made' /\ job'[tombstone'[q].job].key = q
    <2>1. CASE q = k
      BY <1>1, <1>3, <1>4, <1>6, <2>1
    <2>2. CASE q # k
      BY <1>1, <1>4, <1>6, <1>8, <2>2 DEF RecordInv, NoTombstone
    <2>3. QED
      BY <2>1, <2>2
  <1>9. \A i \in Drops : job[i].key \in Key
    BY MadeIs DEF ModuleInv, Drops, Made
  <1>10. \A i \in Drops' : job'[i].worker = "done" => tombstone'[job'[i].key].status = job'[i].status
    BY <1>1, <1>4, <1>6, <1>9 DEF RecordInv
  <1>11. QED
    BY <1>5, <1>7, <1>8, <1>10 DEF RecordInv

\* A key is reserved, or given back, while no drop has it.
LEMMA ReservationSlot ==
  ASSUME ModuleInv, ThreadInv, OneSlot, RecordInv, NEW c \in Caller,
         ReserveKey(c) \/ AbandonReservation(c)
  PROVE  OneSlot' /\ RecordInv'
  <1>0. PICK k : k = call[c].key
    OBVIOUS
  <1>1. PlainStep(c) /\ QuietStep(c) /\ UNCHANGED <<job, dropActive>>
    BY DropPlain DEF PlainStep, ReserveKey, AbandonReservation
  <1>2. call[c].pc \in {"key", "abandon"} /\ call'[c].pc \in {"idle", "slot"}
    BY ReturnGoes, GotoGoes DEF ReserveKey, AbandonReservation, At, ModuleInv, Steps
  <1>3. k \in Key /\ k # NoKey
    BY <1>0, <1>2 DEF ModuleInv, CallFits, Keyed, TypeOK, Call
  <1>4. OneSlot'
    BY <1>1, <1>2, SlotKept DEF HoldsSlot
  <1>5. CASE UNCHANGED tombstone
    BY <1>1, <1>2, <1>4, <1>5, RecordKept DEF Began
  <1>6. ASSUME NEW t, tombstone' = [tombstone EXCEPT ![k] = t],
               t = NoTombstone \/ t.job = Null, \A j \in Drops : job[j].key # k
        PROVE  RecordInv'
    <2>1. tombstone'[k] = t /\ \A q \in Key \ {k} : tombstone'[q] = tombstone[q]
      BY <1>3, <1>6 DEF ModuleInv, TypeOK
    <2>2. Made' = Made /\ Drops' = Drops
      BY <1>1, QuietSlot DEF QuietStep
    <2>3. ASSUME NEW d \in Caller
          PROVE  OwnJob(d)'
      <3>1. CASE d = c
        BY <1>2, <3>1 DEF OwnJob, Began
      <3>2. CASE d # c
        BY <1>1, <3>2 DEF OwnJob, QuietStep, RecordInv
      <3>3. QED
        BY <3>1, <3>2
    <2>4. ASSUME NEW q \in Key, tombstone'[q] # NoTombstone', tombstone'[q].job # Null
          PROVE  tombstone'[q].job \in Made' /\ job'[tombstone'[q].job].key = q
      <3>1. q # k
        BY <1>6, <2>1, <2>4 DEF NoTombstone
      <3>2. QED
        BY <1>1, <2>1, <2>2, <2>4, <3>1 DEF RecordInv, NoTombstone
    <2>5. \A i \in Drops : job[i].key \in Key
      BY MadeIs DEF ModuleInv, Drops, Made
    <2>6. \A i \in Drops' : job'[i].worker = "done" => tombstone'[job'[i].key].status = job'[i].status
      BY <1>1, <1>6, <2>1, <2>2, <2>5 DEF RecordInv
    <2>7. QED
      BY <2>3, <2>4, <2>6 DEF RecordInv
  <1>7. CASE ReserveKey(c) /\ tombstone' # tombstone
    <2>1. /\ tombstone[k] = NoTombstone
          /\ tombstone' = [tombstone EXCEPT ![k] = [status |-> "queued", job |-> Null]]
      BY <1>0, <1>7 DEF ReserveKey
    <2>2. \A j \in Drops : job[j].key # k
      BY <2>1 DEF ModuleInv
    <2>3. [status |-> "queued", job |-> Null].job = Null
      OBVIOUS
    <2>4. QED
      BY <1>4, <1>6, <2>1, <2>2, <2>3
  <1>8. CASE AbandonReservation(c) /\ tombstone' # tombstone
    <2>1. tombstone' = [tombstone EXCEPT ![k] = NoTombstone]
      BY <1>0, <1>8 DEF AbandonReservation
    <2>2. \A j \in Drops : job[j].key # k
      BY <1>0, <1>3, <1>8 DEF AbandonReservation, At, ModuleInv, Reserved, Holding, Began
    <2>3. QED
      BY <1>4, <1>6, <2>1, <2>2
  <1>9. QED
    BY <1>5, <1>7, <1>8

-----------------------------------------------------------------------------
(* The worker gives the slot back, then records its outcome. *)

\* What a worker's step does to the slot and the tombstones.
LEMMA WorkerEnds ==
  ASSUME ModuleInv, ThreadInv, NEW j \in JobId, Work(j)
  PROVE  /\ WorkerMoves(j) /\ job'[j].key = job[j].key
         /\ \/ /\ UNCHANGED <<dropActive, tombstone>>
               /\ job[j].worker \notin {"unborn", "record", "done"}
               /\ job'[j].worker \notin {"unborn", "record", "done"} \/ j \notin Drops
            \/ /\ WorkerRelease(j) /\ j \in Drops
               /\ job[j].worker = "release" /\ job'[j].worker = "record"
            \/ /\ RecordTombstoneStatus(j) /\ j \in Drops
               /\ job[j].worker = "record" /\ job'[j].worker = "done"
               /\ job'[j].status = job[j].status
  <1>0. j \in Made /\ job[j] \in Job /\ job \in [JobId -> Job \cup {NoJob}] /\ WorkerFits(j)
    <2>1. j \in Made
      BY DEF Work, WorkerStart, RunDrop, RunFfiCall, SettleJob, WorkerRelease,
             RecordTombstoneStatus, Worker
    <2>2. QED
      BY <2>1, MadeIs DEF ModuleInv, TypeOK
  <1>1. WorkerMoves(j)
    BY WorkerThreads
  <1>2. job'[j].key = job[j].key
    BY <1>1 DEF WorkerMoves
  <1>3. CASE WorkerStart(j)
    <2>1. CASE job' = [job EXCEPT ![j].worker = "unrun"]
      <3>1. job'[j].worker = "unrun"
        BY <1>0, <2>1 DEF Job
      <3>2. QED
        BY <1>1, <1>2, <1>3, <3>1 DEF WorkerStart, Worker
    <2>2. CASE job' = [job EXCEPT ![j].status = "running",
                                  ![j].worker = IF j \in Drops THEN "drop" ELSE "load"]
      <3>1. job'[j].worker \in {"drop", "load"}
        BY <1>0, <2>2 DEF Job
      <3>2. QED
        BY <1>1, <1>2, <1>3, <3>1 DEF WorkerStart, Worker
    <2>3. QED
      BY <1>3, <2>1, <2>2 DEF WorkerStart
  <1>4. CASE RunDrop(j)
    <2>1. job'[j].worker \in {"unrun", "load"}
      BY <1>0, <1>4 DEF RunDrop, Job
    <2>2. QED
      BY <1>1, <1>2, <1>4, <2>1 DEF RunDrop, Worker
  <1>5. CASE RunFfiCall(j)
    <2>1. job'[j].worker = "ffi"
      BY <1>0, <1>5 DEF RunFfiCall, Job
    <2>2. QED
      BY <1>1, <1>2, <1>5, <2>1 DEF RunFfiCall, Worker
  <1>6. CASE SettleJob(j)
    <2>1. PICK outcome, phase :
            job' = [job EXCEPT ![j].status = outcome, ![j].phase = phase, ![j].handle = Null,
                               ![j].workerFinished = TRUE,
                               ![j].worker = IF j \in Drops THEN "release" ELSE "done"]
      BY <1>6 DEF SettleJob
    <2>2. job'[j].worker = IF j \in Drops THEN "release" ELSE "done"
      BY <1>0, <2>1 DEF Job
    <2>3. QED
      BY <1>1, <1>2, <1>6, <2>2 DEF SettleJob, Worker
  <1>7. CASE WorkerRelease(j)
    <2>1. job[j].worker = "release" /\ job'[j].worker = "record"
      BY <1>0, <1>7 DEF WorkerRelease, Worker, Job
    <2>2. j \in Drops
      BY <1>0, <2>1 DEF WorkerFits, Drops
    <2>3. QED
      BY <1>1, <1>2, <1>7, <2>1, <2>2
  <1>8. CASE RecordTombstoneStatus(j)
    <2>1. /\ job[j].worker = "record" /\ job'[j].worker = "done"
          /\ job'[j].status = job[j].status
      BY <1>0, <1>8 DEF RecordTombstoneStatus, Worker, Job
    <2>2. j \in Drops
      BY <1>0, <2>1 DEF WorkerFits, Drops
    <2>3. QED
      BY <1>1, <1>2, <1>8, <2>1, <2>2
  <1>9. QED
    BY <1>3, <1>4, <1>5, <1>6, <1>7, <1>8 DEF Work

LEMMA WorkerSlot ==
  ASSUME ModuleInv, ThreadInv, OneSlot, RecordInv, NEW j \in JobId, Work(j)
  PROVE  OneSlot' /\ RecordInv'
  <1>1. /\ Made' = Made /\ j \in Made /\ UNCHANGED call /\ job'[j].key = job[j].key
        /\ \A i \in Made \ {j} : job'[i] = job[i]
    BY WorkerEnds DEF WorkerMoves
  <1>2. Drops' = Drops /\ Drops \subseteq Made /\ \A i \in Made : job'[i].key = job[i].key
    BY <1>1 DEF Drops
  <1>3. /\ \A i \in JobId \ {j} : RunsSlot(i)' <=> RunsSlot(i)
        /\ \A c \in Caller : HoldsSlot(c)' <=> HoldsSlot(c)
    BY <1>1, <1>2 DEF RunsSlot, HoldsSlot
  <1>4. \A d \in Caller : OwnJob(d)'
    BY <1>1, <1>2 DEF RecordInv, OwnJob, ModuleInv, CallFits, OfJob, Began
  <1>5. \A i \in Drops : job[i].key \in Key /\ tombstone[job[i].key] \in Tombstone
    BY MadeIs DEF ModuleInv, TypeOK, Drops, Made
  <1>6. \A i \in Made : job'[i].status = job[i].status \/ i \notin Settled
    BY WorkerThreads DEF Final
  <1>7. \A i \in Drops : job[i].worker = "done" => i \in Settled
    BY DEF ThreadInv, JobFits, Drops, Settled, Dead
  <1>8. CASE /\ UNCHANGED <<dropActive, tombstone>>
             /\ job[j].worker \notin {"unborn", "record", "done"}
             /\ job'[j].worker \notin {"unborn", "record", "done"} \/ j \notin Drops
    <2>1. RunsSlot(j)' <=> RunsSlot(j)
      BY <1>2, <1>8 DEF RunsSlot
    <2>2. OneSlot'
      BY <1>3, <1>8, <2>1 DEF OneSlot
    <2>3. \A k \in Key : tombstone'[k] # NoTombstone' /\ tombstone'[k].job # Null =>
            tombstone'[k].job \in Made' /\ job'[tombstone'[k].job].key = k
      BY <1>1, <1>2, <1>8 DEF RecordInv, NoTombstone
    <2>4. \A i \in Drops' : job'[i].worker = "done" => tombstone'[job'[i].key].status = job'[i].status
      BY <1>1, <1>2, <1>8 DEF RecordInv
    <2>5. QED
      BY <1>4, <2>2, <2>3, <2>4 DEF RecordInv
  <1>9. CASE /\ WorkerRelease(j) /\ j \in Drops
             /\ job[j].worker = "release" /\ job'[j].worker = "record"
    <2>1. ~dropActive' /\ UNCHANGED tombstone
      BY <1>9 DEF WorkerRelease
    <2>2. RunsSlot(j) /\ ~RunsSlot(j)'
      BY <1>9 DEF RunsSlot
    <2>3. OneSlot'
      BY <1>3, <2>1, <2>2 DEF OneSlot
    <2>4. \A k \in Key : tombstone'[k] # NoTombstone' /\ tombstone'[k].job # Null =>
            tombstone'[k].job \in Made' /\ job'[tombstone'[k].job].key = k
      BY <1>1, <1>2, <2>1 DEF RecordInv, NoTombstone
    <2>5. \A i \in Drops' : job'[i].worker = "done" => tombstone'[job'[i].key].status = job'[i].status
      BY <1>1, <1>2, <1>9, <2>1 DEF RecordInv
    <2>6. QED
      BY <1>4, <2>3, <2>4, <2>5 DEF RecordInv
  <1>10. CASE /\ RecordTombstoneStatus(j) /\ j \in Drops
              /\ job[j].worker = "record" /\ job'[j].worker = "done"
              /\ job'[j].status = job[j].status
    <2>0. PICK k \in Key : k = job[j].key
      BY <1>5, <1>10
    <2>1. /\ UNCHANGED dropActive
          /\ tombstone' = [tombstone EXCEPT ![k].status = job[j].status]
      BY <1>10, <2>0 DEF RecordTombstoneStatus
    <2>2. /\ tombstone'[k].status = job[j].status /\ tombstone'[k].job = tombstone[k].job
          /\ \A q \in Key \ {k} : tombstone'[q] = tombstone[q]
      BY <1>5, <1>10, <2>0, <2>1 DEF ModuleInv, TypeOK, Tombstone
    <2>3. ~RunsSlot(j) /\ ~RunsSlot(j)'
      BY <1>10 DEF RunsSlot
    <2>4. OneSlot'
      BY <1>3, <2>1, <2>3 DEF OneSlot
    <2>5. \A q \in Key : tombstone'[q] # NoTombstone' /\ tombstone'[q].job # Null =>
            tombstone'[q].job \in Made' /\ job'[tombstone'[q].job].key = q
      <3>1. tombstone[k] # NoTombstone
        BY <1>10, <2>0 DEF ModuleInv
      <3>2. \A q \in Key : tombstone'[q].job = tombstone[q].job
        BY <2>2
      <3>3. QED
        BY <1>1, <1>2, <2>2, <3>1, <3>2 DEF RecordInv, NoTombstone
    <2>6. ASSUME NEW i \in Drops, job'[i].worker = "done"
          PROVE  tombstone'[job[i].key].status = job'[i].status
      <3>1. CASE i = j
        BY <1>10, <2>0, <2>2, <3>1
      <3>2. CASE i # j
        <4>1. job[i].key # k
          BY <1>10, <2>0, <3>2 DEF ModuleInv, OneDropPerKey
        <4>2. job'[i] = job[i]
          BY <1>1, <1>2, <3>2
        <4>3. QED
          BY <1>5, <2>2, <2>6, <4>1, <4>2 DEF RecordInv
      <3>3. QED
        BY <3>1, <3>2
    <2>7. \A i \in Drops' : job'[i].worker = "done" => tombstone'[job'[i].key].status = job'[i].status
      BY <1>2, <2>6
    <2>8. QED
      BY <1>4, <2>4, <2>5, <2>7 DEF RecordInv
  <1>11. QED
    BY <1>8, <1>9, <1>10, WorkerEnds

-----------------------------------------------------------------------------
LEMMA SlotInvInit == Init => OneSlot /\ RecordInv
  <1> SUFFICES ASSUME Init
               PROVE  OneSlot /\ RecordInv
    OBVIOUS
  <1>1. Made = {} /\ Drops = {} /\ ~dropActive
    BY DEF Init, Made, Drops
  <1>2. \A c \in Caller : call[c].pc = "idle"
    BY DEF Init, Idle
  <1>3. \A k \in Key : tombstone[k] = NoTombstone
    BY DEF Init
  <1>4. QED
    BY <1>1, <1>2, <1>3 DEF OneSlot, RecordInv, HoldsSlot, RunsSlot, OwnJob, Began

LEMMA SlotInvNext ==
  ASSUME ModuleInv, ThreadInv, OneSlot, RecordInv, [Next]_vars
  PROVE  OneSlot' /\ RecordInv'
  <1>1. ASSUME NEW c \in Caller, Begin(c)
        PROVE  OneSlot' /\ RecordInv'
    BY <1>1, QuietSlotSteps
  <1>2. ASSUME NEW c \in Caller, Continue(c)
        PROVE  OneSlot' /\ RecordInv'
    <2>1. CASE \/ ReserveDropSlot(c) \/ StartReap(c) \/ StartCheck(c)
               \/ (StartInsert(c) /\ UNCHANGED job) \/ ReleaseDropSlot(c)
      BY <2>1, CallerSlot
    <2>2. CASE ReserveKey(c) \/ AbandonReservation(c)
      BY <2>2, ReservationSlot
    <2>3. CASE RememberRequestKey(c)
      BY <2>3, RememberSlot
    <2>4. CASE StartSpawn(c)
      BY <2>4, SpawnSlot
    <2>5. CASE StartInsert(c)
      <3>1. ASSUME NEW j \in JobId \ Made, job' = [job EXCEPT ![j] = NewJob(call[c].key)],
                   call' = [call EXCEPT ![c].pc = "spawn", ![c].job = j]
            PROVE  OneSlot' /\ RecordInv'
        BY <2>5, <3>1, InsertSlot
      <3>2. QED
        BY <2>1, <2>5, <3>1 DEF StartInsert
    <2>6. QED
      BY <1>2, <2>1, <2>2, <2>3, <2>4, <2>5, QuietSlotSteps DEF Continue
  <1>3. ASSUME NEW j \in JobId, Work(j)
        PROVE  OneSlot' /\ RecordInv'
    BY <1>3, WorkerSlot
  <1>4. CASE UNCHANGED vars
    BY <1>4 DEF vars, OneSlot, RecordInv, HoldsSlot, RunsSlot, OwnJob, Made, Drops, NoJob, NoTombstone
  <1>5. QED
    BY <1>1, <1>2, <1>3, <1>4 DEF Next

LEMMA SlotInvariance == Spec => [](ModuleInv /\ ThreadInv /\ OneSlot /\ RecordInv)
  <1>1. /\ ModuleInv /\ ThreadInv /\ OneSlot /\ RecordInv /\ [Next]_vars
           => (OneSlot /\ RecordInv)'
    BY SlotInvNext
  <1>2. QED
    BY SlotInvInit, ThreadInvariance, <1>1, PTL DEF Spec

\* While the drop slot is taken it has one holder, and none while it is free: the caller that
\* reserved it hands it to the worker, and no refusal, failed start or late worker loses it or
\* gives back somebody else's.
THEOREM OneDropHoldsSlot == Spec => []SlotHasOneHolder
  <1>1. ASSUME OneSlot
        PROVE  SlotHasOneHolder
    <2>1. \A x : x \in SlotHolders <=> \/ x \in JobId /\ RunsSlot(x)
                                       \/ x \in Caller /\ HoldsSlot(x)
      BY DEF SlotHolders, RunsSlot, HoldsSlot, Drops, Made
    <2>2. CASE dropActive
      <3>1. PICK x : SlotHolders = {x}
        <4>1. \/ \E c \in Caller : HoldsSlot(c) /\ c \in SlotHolders
              \/ \E j \in JobId : RunsSlot(j) /\ j \in SlotHolders
          BY <1>1, <2>1, <2>2 DEF OneSlot
        <4>2. ASSUME NEW c \in Caller, HoldsSlot(c)
              PROVE  SlotHolders = {c}
          BY <1>1, <2>1, <4>2 DEF OneSlot
        <4>3. ASSUME NEW j \in JobId, RunsSlot(j)
              PROVE  SlotHolders = {j}
          BY <1>1, <2>1, <4>3 DEF OneSlot
        <4>4. QED
          BY <4>1, <4>2, <4>3
      <3>2. QED
        BY <2>2, <3>1, FS_Singleton DEF SlotHasOneHolder
    <2>3. CASE ~dropActive
      <3>1. SlotHolders = {}
        BY <1>1, <2>1, <2>3 DEF OneSlot
      <3>2. QED
        BY <2>3, <3>1, FS_EmptySet DEF SlotHasOneHolder
    <2>4. QED
      BY <2>2, <2>3
  <1>2. QED
    BY <1>1, SlotInvariance, PTL

\* Once a drop was acknowledged and its thread joined, its key is answered with the drop's
\* outcome: the worker writes it before its thread can be joined, and no reservation or
\* abandonment of the key takes it away.
THEOREM WhatWasAcknowledgedIsRecorded == Spec => []AcknowledgedIsRecorded
  <1>1. ASSUME TypeOK, ThreadInv, RecordInv
        PROVE  AcknowledgedIsRecorded
    <2> SUFFICES ASSUME NEW k \in Key, tombstone[k] # NoTombstone,
                        tombstone[k].job \in Made \ Listed,
                        \A c \in Caller : tombstone[k].job \notin call[c].joining
                 PROVE  tombstone[k].status = job[tombstone[k].job].status
      BY DEF AcknowledgedIsRecorded
    <2>1. PICK j \in Made : j = tombstone[k].job
      OBVIOUS
    <2>2. j # Null /\ k # NoKey
      BY KeyAssumption DEF Made, JobId, Null
    <2>3. job[j].key = k /\ j \in Drops
      BY <1>1, <2>1, <2>2 DEF RecordInv, Drops
    <2>4. ~job[j].listed
      BY <2>1 DEF Listed
    <2>5. job[j].worker = "done"
      BY <1>1, <2>1, <2>4 DEF ThreadInv, JobFits, Held, Dead
    <2>6. QED
      BY <1>1, <2>1, <2>3, <2>5 DEF RecordInv
  <1>2. ModuleInv => TypeOK
    BY DEF ModuleInv
  <1>3. QED
    BY <1>1, <1>2, SlotInvariance, PTL

-----------------------------------------------------------------------------
(* What the callers of the module are promised. *)

Live == {j \in Drops : job[j].status \notin Terminal}

\* A job whose thread is not born yet is in the hands of the caller that made it.
BornInv ==
  \A j \in Made : job[j].worker = "unborn" =>
    \E c \in Caller : call[c].pc = "spawn" /\ call[c].job = j

DropInv == ModuleInv /\ ThreadInv /\ OneSlot /\ RecordInv /\ BornInv

\* A drop that has not ended is alone, and none is there while a caller is still on its way to
\* start one.
LEMMA OneIsLive ==
  ASSUME DropInv
  PROVE  /\ \A i, j \in Live : i = j
         /\ \A c \in Caller : HoldsSlot(c) /\ call[c].pc # "spawn" => Live = {}
  <1> USE DEF DropInv
  <1>1. ASSUME NEW j \in Live
        PROVE  \/ RunsSlot(j)
               \/ \E c \in Caller : HoldsSlot(c) /\ call[c].pc = "spawn" /\ call[c].job = j
    <2>1. j \in Made /\ j \in Drops /\ JobFits(j) /\ job[j].key # NoKey
      BY DEF Live, Drops, ThreadInv
    <2>2. CASE job[j].worker = "unborn"
      <3>1. PICK c \in Caller : call[c].pc = "spawn" /\ call[c].job = j
        BY <2>1, <2>2 DEF BornInv
      <3>2. call[c].key = job[j].key
        BY <3>1 DEF RecordInv, OwnJob, Began
      <3>3. QED
        BY <2>1, <3>1, <3>2 DEF HoldsSlot
    <2>3. CASE job[j].worker # "unborn"
      BY <2>1, <2>3 DEF Live, JobFits, Dead, RunsSlot
    <2>4. QED
      BY <2>2, <2>3
  <1>2. Live \subseteq JobId
    BY DEF Live, Drops, Made
  <1>3. QED
    BY <1>1, <1>2 DEF OneSlot

-----------------------------------------------------------------------------
(* What the callers see of one job. *)

LEMMA ShownFields ==
  ASSUME NEW r, NEW s, s.status = r.status, s.cancelRequested = r.cancelRequested,
         s.worker = r.worker \/ (s.worker # "unrun" /\ r.worker # "unrun")
  PROVE  ShownStatus(s) = ShownStatus(r)
  BY DEF ShownStatus

\* What a step may do to what is seen of a job: nothing, or stop it, or end it.
Tells(r, s) ==
  \/ ShownStatus(s) = ShownStatus(r)
  \/ ShownStatus(r) = "running" /\ ShownStatus(s) = "stopping"
  \/ /\ ShownStatus(r) \in {"running", "stopping"} /\ ShownStatus(s) \in Terminal
     /\ ShownStatus(s) = "cancelled" => ShownStatus(r) = "stopping"

LEMMA WorkerTells ==
  ASSUME ModuleInv, ThreadInv, NEW j \in JobId, Work(j)
  PROVE  /\ job'[j].worker # "unborn" /\ job'[j].listed = job[j].listed
         /\ Tells(job[j], job'[j])
  <1>0. /\ j \in Made /\ job[j] \in Job /\ JobFits(j) /\ job \in [JobId -> Job \cup {NoJob}]
    <2>1. j \in Made
      BY WorkerThreads DEF WorkerMoves
    <2>2. QED
      BY <2>1, MadeIs DEF ModuleInv, TypeOK, ThreadInv
  <1>1. CASE WorkerStart(j)
    <2>1. job[j].worker = "start" /\ job[j].status \notin Terminal
      BY <1>0, <1>1 DEF WorkerStart, Worker, JobFits, Dead
    <2>2. CASE job' = [job EXCEPT ![j].worker = "unrun"]
      <3>1. /\ job'[j].worker = "unrun" /\ job'[j].listed = job[j].listed
            /\ job'[j].status = job[j].status
        BY <1>0, <2>2 DEF Job
      <3>2. QED
        BY <2>1, <3>1 DEF Tells, ShownStatus
    <2>3. CASE /\ ~job[j].cancelRequested
               /\ job' = [job EXCEPT ![j].status = "running",
                                     ![j].worker = IF j \in Drops THEN "drop" ELSE "load"]
      <3>1. /\ job'[j].worker \in {"drop", "load"} /\ job'[j].listed = job[j].listed
            /\ job'[j].status = "running" /\ job'[j].cancelRequested = job[j].cancelRequested
        BY <1>0, <2>3 DEF Job
      <3>2. QED
        BY <2>1, <2>3, <3>1 DEF Tells, ShownStatus, Terminal
    <2>4. QED
      BY <1>1, <2>2, <2>3 DEF WorkerStart
  <1>2. CASE RunDrop(j)
    <2>1. job[j].worker = "drop" /\ job[j].status \notin Terminal
      BY <1>0, <1>2 DEF RunDrop, Worker, JobFits, Dead
    <2>2. /\ job'[j].worker \in {"unrun", "load"} /\ job'[j].listed = job[j].listed
          /\ job'[j].status = job[j].status /\ job'[j].cancelRequested = job[j].cancelRequested
      BY <1>0, <1>2 DEF RunDrop, Job
    <2>3. QED
      BY <2>1, <2>2 DEF Tells, ShownStatus
  <1>3. CASE RunFfiCall(j)
    <2>1. /\ job[j].worker = "load" /\ job'[j].worker = "ffi" /\ job'[j].listed = job[j].listed
          /\ job'[j].status = job[j].status /\ job'[j].cancelRequested = job[j].cancelRequested
      BY <1>0, <1>3 DEF RunFfiCall, Worker, Job
    <2>2. QED
      BY <2>1, ShownFields DEF Tells
  <1>4. CASE SettleJob(j)
    <2>1. PICK outcome \in Outcomes(j), phase \in {job[j].phase, "final"}, w \in {"release", "done"} :
            job' = [job EXCEPT ![j].status = outcome, ![j].phase = phase, ![j].handle = Null,
                               ![j].workerFinished = TRUE, ![j].worker = w]
      BY <1>4 DEF SettleJob
    <2>2. job'[j].worker = w /\ job'[j].listed = job[j].listed /\ job'[j].status = outcome
      BY <1>0, <2>1 DEF Job
    <2>3. /\ outcome \in Terminal
          /\ outcome = "cancelled" => job[j].worker = "unrun" \/ job[j].cancelRequested
      BY DEF Outcomes, Terminal
    <2>4. job[j].status \notin Terminal
      BY <1>0, <1>4 DEF SettleJob, Worker, JobFits, Dead
    <2>5. QED
      BY <2>2, <2>3, <2>4 DEF Tells, ShownStatus
  <1>5. CASE WorkerRelease(j) \/ RecordTombstoneStatus(j)
    <2>1. PICK w \in {"record", "done"} : job' = [job EXCEPT ![j].worker = w]
      BY <1>5 DEF WorkerRelease, RecordTombstoneStatus
    <2>2. /\ job'[j].worker = w /\ job'[j].listed = job[j].listed
          /\ job'[j].status = job[j].status /\ job'[j].cancelRequested = job[j].cancelRequested
      BY <1>0, <2>1 DEF Job
    <2>3. job[j].worker \in {"release", "record"}
      BY <1>5 DEF WorkerRelease, RecordTombstoneStatus, Worker
    <2>4. QED
      BY <2>2, <2>3, ShownFields DEF Tells
  <1>6. QED
    BY <1>1, <1>2, <1>3, <1>4, <1>5 DEF Work

-----------------------------------------------------------------------------
(* The caller of a job that is not born stays with it. *)

LEMMA QuietBorn ==
  ASSUME BornInv, NEW c \in Caller, QuietStep(c), call[c].pc # "spawn"
  PROVE  BornInv'
  <1>1. ASSUME NEW j \in Made, job'[j].worker = "unborn"
        PROVE  \E d \in Caller : call'[d].pc = "spawn" /\ call'[d].job = j
    <2>1. job[j].worker = "unborn"
      BY <1>1 DEF QuietStep, KeepsThread
    <2>2. PICK d \in Caller : call[d].pc = "spawn" /\ call[d].job = j
      BY <2>1 DEF BornInv
    <2>3. call'[d] = call[d]
      BY <2>2 DEF QuietStep
    <2>4. QED
      BY <2>2, <2>3
  <1>2. QED
    BY <1>1 DEF BornInv, QuietStep

LEMMA BornNext ==
  ASSUME DropInv, [Next]_vars
  PROVE  BornInv'
  <1> USE DEF DropInv
  <1>1. ASSUME NEW c \in Caller, Begin(c)
        PROVE  BornInv'
    BY <1>1, BeginQuiet, QuietBorn
  <1>2. ASSUME NEW c \in Caller, Continue(c)
        PROVE  BornInv'
    <2>1. CASE \/ ReserveKey(c) \/ ReserveDropSlot(c) \/ StartReap(c) \/ StartCheck(c)
               \/ (StartInsert(c) /\ UNCHANGED job)
               \/ RememberRequestKey(c) \/ ReleaseDropSlot(c) \/ AbandonReservation(c)
      <3>1. QuietStep(c)
        BY <2>1, DropPlain DEF PlainStep
      <3>2. call[c].pc # "spawn"
        BY <2>1 DEF ReserveKey, ReserveDropSlot, StartReap, StartCheck, StartInsert,
                    RememberRequestKey, ReleaseDropSlot, AbandonReservation, At
      <3>3. QED
        BY <3>1, <3>2, QuietBorn
    <2>2. CASE StartSpawn(c)
      <3>1. /\ Made' = Made /\ call[c].pc = "spawn"
            /\ \A d \in Caller \ {c} : call'[d] = call[d]
            /\ \A j \in Made : job'[j].worker = job[j].worker \/ job'[j].worker = "start"
        BY <2>2, SpawnThreads
      <3>2. PICK j : j = call[c].job
        OBVIOUS
      <3>3. job'[j].worker = "start"
        <4>1. j \in JobId /\ job[j] \in Job /\ job \in [JobId -> Job \cup {NoJob}]
          BY <3>1, <3>2, MadeIs DEF ModuleInv, TypeOK, CallFits, OfJob, Made
        <4>2. QED
          BY <2>2, <3>2, <4>1 DEF StartSpawn, Job
      <3>4. ASSUME NEW i \in Made, job'[i].worker = "unborn"
            PROVE  \E d \in Caller : call'[d].pc = "spawn" /\ call'[d].job = i
        <4>1. job[i].worker = "unborn" /\ i # j
          BY <3>1, <3>3, <3>4
        <4>2. PICK d \in Caller : call[d].pc = "spawn" /\ call[d].job = i
          BY <4>1 DEF BornInv
        <4>3. QED
          BY <3>1, <3>2, <4>1, <4>2
      <3>5. QED
        BY <3>1, <3>4 DEF BornInv
    <2>3. ASSUME StartInsert(c), NEW j \in JobId \ Made,
                 job' = [job EXCEPT ![j] = NewJob(call[c].key)],
                 call' = [call EXCEPT ![c].pc = "spawn", ![c].job = j]
          PROVE  BornInv'
      <3>1. /\ Made' = Made \cup {j} /\ (\A i \in Made : job'[i] = job[i])
            /\ \A d \in Caller \ {c} : call'[d] = call[d]
        BY <2>3, InsertThreads DEF StartInsert
      <3>2. call'[c].pc = "spawn" /\ call'[c].job = j /\ call[c].pc = "insert"
        <4>1. call[c].pc = "insert"
          BY <2>3 DEF StartInsert, At
        <4>2. call[c] \in Call /\ call \in [Caller -> Call]
          BY DEF ModuleInv, TypeOK
        <4>3. QED
          BY <2>3, <4>1, <4>2 DEF Call
      <3>3. ASSUME NEW i \in Made, job'[i].worker = "unborn"
            PROVE  \E d \in Caller : call'[d].pc = "spawn" /\ call'[d].job = i
        <4>1. PICK d \in Caller : call[d].pc = "spawn" /\ call[d].job = i
          BY <3>1, <3>3 DEF BornInv
        <4>2. QED
          BY <3>1, <3>2, <4>1
      <3>4. QED
        BY <3>1, <3>2, <3>3 DEF BornInv
    <2>4. CASE ~StartSpawn(c) /\ ~StartInsert(c)
      BY <1>2, <2>1, <2>4, OutsideSteps, QuietBorn DEF Continue, Outside
    <2>5. QED
      BY <2>1, <2>2, <2>3, <2>4 DEF StartInsert
  <1>3. ASSUME NEW j \in JobId, Work(j)
        PROVE  BornInv'
    <2>1. WorkerMoves(j) /\ job[j].worker # "unborn"
      BY <1>3, WorkerEnds
    <2>2. job'[j].worker # "unborn"
      BY <1>3, WorkerTells
    <2>3. QED
      BY <2>1, <2>2 DEF BornInv, WorkerMoves
  <1>4. CASE UNCHANGED vars
    BY <1>4 DEF vars, BornInv, Made, NoJob
  <1>5. QED
    BY <1>1, <1>2, <1>3, <1>4 DEF Next

-----------------------------------------------------------------------------
(* From what is seen of the jobs to what is told of the keys. *)

ListedKeys == {job[j].key : j \in Listed} \ {NoKey}

Told == <<[k \in Key |-> Shown(k)], {job[j].key : j \in Listed} \ {NoKey}>>

LEMMA ChosenDrop ==
  ASSUME NEW jobs, NEW D, NEW j \in D, \A i \in D : jobs[i].key = jobs[j].key => i = j
  PROVE  (CHOOSE i \in D : jobs[i].key = jobs[j].key) = j
  OBVIOUS

LEMMA ShownDrop ==
  ASSUME OneDropPerKey, NEW j \in Drops, NEW k, k = job[j].key
  PROVE  Shown(k) = ShownStatus(job[j])
  <1>1. (CHOOSE i \in Drops : job[i].key = k) = j
    BY ChosenDrop DEF OneDropPerKey
  <1>2. QED
    BY <1>1 DEF Shown

LEMMA ShownDropNext ==
  ASSUME OneDropPerKey', NEW j \in Drops', NEW CONSTANT k, k = job'[j].key
  PROVE  Shown(k)' = ShownStatus(job'[j])
  <1>1. (CHOOSE i \in Drops' : job'[i].key = k) = j
    BY ChosenDrop DEF OneDropPerKey
  <1>2. QED
    BY <1>1 DEF Shown

\* No key is told anything else of, but that of the drop j.
LEMMA OthersSame ==
  ASSUME OneDropPerKey, OneDropPerKey', Drops' = Drops, NEW j,
         \A i \in Drops : job'[i].key = job[i].key,
         \A i \in Drops \ {j} : ShownStatus(job'[i]) = ShownStatus(job[i]),
         NEW CONSTANT k \in Key, j \in Drops => job[j].key # k
  PROVE  Shown(k)' = Shown(k)
  <1>1. CASE \A i \in Drops : job[i].key # k
    BY <1>1 DEF Shown
  <1>2. CASE \E i \in Drops : job[i].key = k
    <2>1. PICK i \in Drops : job[i].key = k
      BY <1>2
    <2>2. i \in Drops' /\ job'[i].key = k /\ ShownStatus(job'[i]) = ShownStatus(job[i])
      BY <2>1
    <2>3. Shown(k) = ShownStatus(job[i])
      BY <2>1, ShownDrop
    <2>4. Shown(k)' = ShownStatus(job'[i])
      BY <2>2, ShownDropNext
    <2>5. QED
      BY <2>2, <2>3, <2>4
  <1>3. QED
    BY <1>1, <1>2

LEMMA NothingTold ==
  ASSUME \A k \in Key : Shown(k)' = Shown(k), ListedKeys' = ListedKeys
  PROVE  Told' = Told
  BY DEF Told, ListedKeys

\* One drop is stopped or ends.
LEMMA OneTold ==
  ASSUME NEW CONSTANT k \in Key, NEW r, NEW s, Tells(r, s), Shown(k) = ShownStatus(r),
         Shown(k)' = ShownStatus(s), \A q \in Key \ {k} : Shown(q)' = Shown(q),
         ListedKeys' = ListedKeys
  PROVE  [Promise!Next]_Told
  <1> DEFINE status == [q \in Key |-> Shown(q)]
  <1>1. status' = [status EXCEPT ![k] = ShownStatus(s)] /\ status[k] = ShownStatus(r)
    OBVIOUS
  <1>2. CASE ShownStatus(s) = ShownStatus(r)
    BY <1>2, NothingTold
  <1>3. CASE ShownStatus(r) = "running" /\ ShownStatus(s) = "stopping"
    <2>1. Promise!Stop(k)
      BY <1>1, <1>3 DEF Promise!Stop, ListedKeys
    <2>2. QED
      BY <2>1 DEF Promise!Next
  <1>4. CASE /\ ShownStatus(r) \in {"running", "stopping"} /\ ShownStatus(s) \in Terminal
             /\ ShownStatus(s) = "cancelled" => ShownStatus(r) = "stopping"
    <2>1. Promise!End(k)
      BY <1>1, <1>4 DEF Promise!End, Promise!Terminal, Terminal, ListedKeys
    <2>2. QED
      BY <2>1 DEF Promise!Next
  <1>5. QED
    BY <1>2, <1>3, <1>4 DEF Tells

\* A step that makes and releases no job, and stops or ends at most the drop j.
LEMMA OneDropTold ==
  ASSUME ModuleInv, ModuleInv', Made' = Made, NEW j,
         \A i \in Made : job'[i].key = job[i].key /\ job'[i].listed = job[i].listed,
         \A i \in Drops \ {j} : ShownStatus(job'[i]) = ShownStatus(job[i]),
         j \in Drops => Tells(job[j], job'[j])
  PROVE  [Promise!Next]_Told
  <1>1. Drops' = Drops /\ Listed' = Listed /\ ListedKeys' = ListedKeys
    <2>1. Drops' = Drops /\ Listed' = Listed /\ Listed \subseteq Made
      BY DEF Drops, Listed
    <2>2. QED
      BY <2>1 DEF ListedKeys
  <1>2. \A i \in Drops : job'[i].key = job[i].key /\ job[i].key \in Key
    BY MadeIs DEF ModuleInv, Drops, Made
  <1>3. OneDropPerKey /\ OneDropPerKey'
    BY DEF ModuleInv
  <1>4. CASE j \in Drops
    <2>1. PICK k \in Key : k = job[j].key
      BY <1>2, <1>4
    <2>2. Shown(k) = ShownStatus(job[j])
      BY <1>3, <1>4, <2>1, ShownDrop
    <2>3. Shown(k)' = ShownStatus(job'[j])
      BY <1>1, <1>2, <1>3, <1>4, <2>1, ShownDropNext
    <2>4. \A q \in Key \ {k} : Shown(q)' = Shown(q)
      BY <1>1, <1>2, <1>3, <1>4, <2>1, OthersSame
    <2>5. QED
      BY <1>1, <1>4, <2>2, <2>3, <2>4, OneTold
  <1>5. CASE j \notin Drops
    <2>1. \A q \in Key : Shown(q)' = Shown(q)
      BY <1>1, <1>2, <1>3, <1>5, OthersSame
    <2>2. QED
      BY <1>1, <2>1, NothingTold
  <1>6. QED
    BY <1>4, <1>5

-----------------------------------------------------------------------------
(* The steps of the callers. *)

LEMMA SameJobsTold ==
  ASSUME UNCHANGED job
  PROVE  [Promise!Next]_Told
  <1>1. Made' = Made /\ Drops' = Drops /\ Listed' = Listed
    BY DEF Made, Drops, Listed, NoJob
  <1>2. Told' = Told
    BY <1>1 DEF Told, Shown
  <1>3. QED
    BY <1>2

\* Taking a thread out of its job shows nothing.
LEMMA UnhandTold ==
  ASSUME ModuleInv, ModuleInv', NEW S \in SUBSET Made, job' = Unhand(S)
  PROVE  [Promise!Next]_Told
  <1>1. Made' = Made
    BY UnhandKeeps, DropsKeep
  <1>2. ASSUME NEW i \in Made
        PROVE  /\ job'[i].key = job[i].key /\ job'[i].listed = job[i].listed
               /\ ShownStatus(job'[i]) = ShownStatus(job[i])
    <2>1. i \in JobId /\ job[i] \in Job
      BY MadeIs DEF ModuleInv, Made
    <2>2. /\ job'[i].key = job[i].key /\ job'[i].listed = job[i].listed
          /\ job'[i].status = job[i].status /\ job'[i].worker = job[i].worker
          /\ job'[i].cancelRequested = job[i].cancelRequested
      <3>1. job'[i] = job[i] \/ job'[i] = [job[i] EXCEPT !.joinable = FALSE]
        BY <2>1 DEF Unhand
      <3>2. QED
        BY <2>1, <3>1 DEF Job
    <2>3. QED
      BY <2>2, ShownFields
  <1>3. Null \notin Drops
    BY DEF Drops, Made, JobId, Null
  <1>4. Drops \subseteq Made
    BY DEF Drops
  <1>5. QED
    BY <1>1, <1>2, <1>3, <1>4, OneDropTold

LEMMA ReapTold ==
  ASSUME ModuleInv, ModuleInv', job' = Unhand(Reapable)
  PROVE  [Promise!Next]_Told
  BY UnhandTold DEF Reapable, Listed

\* A cancel, the answer to a poll, and the start of a thread.
LEMMA OneJobTold ==
  ASSUME ModuleInv, ModuleInv', ThreadInv, RecordInv, NEW c \in Caller,
         CancelMark(c) \/ StatusPhase(c) \/ StartSpawn(c)
  PROVE  [Promise!Next]_Told
  <1>0. PICK j : j = call[c].job
    OBVIOUS
  <1>1. j \in Made /\ j \in JobId /\ job[j] \in Job /\ job \in [JobId -> Job \cup {NoJob}]
    <2>1. call[c].pc \in OfJob
      BY DEF CancelMark, StatusPhase, StartSpawn, At, OfJob
    <2>2. QED
      BY <1>0, <2>1, MadeIs DEF ModuleInv, CallFits, TypeOK, Made
  <1>2. ASSUME NEW next, next.status # "none", job' = [job EXCEPT ![j] = next],
               next.key = job[j].key, next.listed = job[j].listed, Tells(job[j], next)
        PROVE  [Promise!Next]_Told
    <2>1. job'[j] = next /\ \A i \in JobId \ {j} : job'[i] = job[i]
      BY <1>1, <1>2
    <2>2. next # NoJob
      BY <1>2 DEF NoJob
    <2>3. Made' = Made /\ Drops \subseteq JobId
      BY <1>1, <2>1, <2>2 DEF Made, Drops, NoJob
    <2>4. \A i \in Made : job'[i].key = job[i].key /\ job'[i].listed = job[i].listed
      BY <1>2, <2>1 DEF Made
    <2>5. \A i \in Drops \ {j} : ShownStatus(job'[i]) = ShownStatus(job[i])
      BY <2>1, <2>3
    <2>6. QED
      BY <1>2, <2>1, <2>3, <2>4, <2>5, OneDropTold
  <1>3. CASE UNCHANGED job
    BY <1>3, SameJobsTold
  <1>4. CASE CancelMark(c) /\ job' # job
    <2> DEFINE next == [job[j] EXCEPT !.cancelRequested = TRUE, !.status = "cancelling"]
    <2>1. /\ j \in Listed \ Settled
          /\ job' = [job EXCEPT ![j].cancelRequested = TRUE, ![j].status = "cancelling"]
      BY <1>0, <1>4 DEF CancelMark
    <2>2. job' = [job EXCEPT ![j] = next]
      BY <1>1, <2>1 DEF Job
    <2>3. /\ next.status = "cancelling" /\ next.cancelRequested
          /\ next.key = job[j].key /\ next.listed = job[j].listed
      BY <1>1 DEF Job
    <2> HIDE DEF next
    <2>4. Tells(job[j], next)
      BY <1>1, <2>1, <2>3 DEF Tells, ShownStatus, Settled, Terminal
    <2>5. QED
      BY <1>2, <2>2, <2>3, <2>4
  <1>5. CASE StatusPhase(c) /\ job' # job
    <2> DEFINE next == [job[j] EXCEPT !.phase = "live"]
    <2>1. job' = [job EXCEPT ![j] = next]
      BY <1>0, <1>1, <1>5 DEF StatusPhase
    <2>2. /\ next.status = job[j].status /\ next.cancelRequested = job[j].cancelRequested
          /\ next.worker = job[j].worker /\ next.key = job[j].key /\ next.listed = job[j].listed
      BY <1>1 DEF Job
    <2> HIDE DEF next
    <2>3. Tells(job[j], next)
      BY <2>2, ShownFields DEF Tells
    <2>4. job[j].status # "none"
      BY <1>1 DEF Job, Status, Terminal
    <2>5. QED
      BY <1>2, <2>1, <2>2, <2>3, <2>4
  <1>6. CASE StartSpawn(c)
    <2> DEFINE next == [job[j] EXCEPT !.worker = "start", !.joinable = TRUE]
    <2>1. job' = [job EXCEPT ![j] = next]
      BY <1>0, <1>1, <1>6 DEF StartSpawn, Job
    <2>2. /\ next.status = job[j].status /\ next.cancelRequested = job[j].cancelRequested
          /\ next.worker = "start" /\ next.key = job[j].key /\ next.listed = job[j].listed
      BY <1>1 DEF Job
    <2> HIDE DEF next
    <2>3. job[j].worker = "unborn"
      BY <1>0, <1>6 DEF StartSpawn, At, ThreadInv, Joins
    <2>4. Tells(job[j], next)
      BY <2>2, <2>3, ShownFields DEF Tells
    <2>5. job[j].status # "none"
      BY <1>1 DEF Job, Status, Terminal
    <2>6. QED
      BY <1>2, <2>1, <2>2, <2>4, <2>5
  <1>7. QED
    BY <1>3, <1>4, <1>5, <1>6

\* A shutdown flags whatever is live, and no more than one of it is a drop.
LEMMA FlagTold ==
  ASSUME DropInv, ModuleInv', NEW c \in Caller, ShutdownFlag(c)
  PROVE  [Promise!Next]_Told
  <1>1. Made' = Made
    BY ShutdownFlagQuiet DEF DropInv, QuietStep
  <1>2. ASSUME NEW i \in Made
        PROVE  /\ job'[i].key = job[i].key /\ job'[i].listed = job[i].listed
               /\ Tells(job[i], job'[i])
               /\ job[i].status \in Terminal => job'[i] = job[i]
    <2>1. job[i] \in Job /\ i \in JobId
      BY MadeIs DEF DropInv, ModuleInv, Made
    <2>2. CASE i \in Listed \ Settled
      <3>1. job'[i] = [job[i] EXCEPT !.cancelRequested = TRUE]
        BY <2>1, <2>2 DEF ShutdownFlag
      <3>2. /\ job'[i].key = job[i].key /\ job'[i].listed = job[i].listed
            /\ job'[i].status = job[i].status /\ job'[i].cancelRequested
        BY <2>1, <3>1, JobFields
      <3>3. job[i].status \notin Terminal
        BY <2>2 DEF Settled
      <3>4. QED
        BY <3>2, <3>3 DEF Tells, ShownStatus
    <2>3. CASE i \notin Listed \ Settled
      BY <2>1, <2>3 DEF ShutdownFlag, Tells
    <2>4. QED
      BY <2>2, <2>3
  <1>3. \A i, j \in Live : i = j
    BY OneIsLive
  <1>4. ModuleInv /\ Drops \subseteq Made
    BY DEF DropInv, Drops
  <1>5. CASE Live = {}
    <2>1. \A i \in Drops : ShownStatus(job'[i]) = ShownStatus(job[i])
      BY <1>2, <1>4, <1>5 DEF Live
    <2>2. Null \notin Drops
      BY DEF Drops, Made, JobId, Null
    <2>3. QED
      BY <1>1, <1>2, <1>4, <2>1, <2>2, OneDropTold
  <1>6. ASSUME NEW j \in Live
        PROVE  [Promise!Next]_Told
    <2>1. \A i \in Drops \ {j} : ShownStatus(job'[i]) = ShownStatus(job[i])
      BY <1>2, <1>3, <1>4 DEF Live
    <2>2. QED
      BY <1>1, <1>2, <1>4, <2>1, OneDropTold
  <1>7. QED
    BY <1>5, <1>6

\* The result of a job is let go of.
LEMMA AckTold ==
  ASSUME ModuleInv, ModuleInv', NEW c \in Caller, AckErase(c)
  PROVE  [Promise!Next]_Told
  <1>0. PICK j : j = call[c].job
    OBVIOUS
  <1>1. CASE UNCHANGED job
    BY <1>1, SameJobsTold
  <1>2. CASE job' # job
    <2>1. j \in Listed \cap Settled /\ job' = [job EXCEPT ![j].listed = FALSE, ![j].joinable = FALSE]
      BY <1>0, <1>2 DEF AckErase
    <2>2. /\ j \in Made /\ j \in JobId /\ job[j] \in Job /\ job \in [JobId -> Job \cup {NoJob}]
          /\ job[j].status \in Terminal
      BY <2>1, MadeIs DEF ModuleInv, TypeOK, Listed, Settled, Made
    <2>3. /\ ~job'[j].listed /\ job'[j].key = job[j].key /\ job'[j].status = job[j].status
          /\ job'[j].worker = job[j].worker /\ job'[j].cancelRequested = job[j].cancelRequested
      BY <2>1, <2>2 DEF Job
    <2>4. \A i \in JobId \ {j} : job'[i] = job[i]
      BY <2>1, <2>2
    <2>5. Made' = Made
      <3>1. job'[j] # NoJob
        BY <2>2, <2>3 DEF NoJob, Terminal
      <3>2. QED
        BY <2>2, <2>4, <3>1 DEF Made, NoJob
    <2>6. Drops' = Drops /\ Listed' = Listed \ {j} /\ Drops \subseteq Made /\ Listed \subseteq Made
      BY <2>3, <2>4, <2>5 DEF Drops, Listed, Made
    <2>7. \A i \in Made : job'[i].key = job[i].key /\ ShownStatus(job'[i]) = ShownStatus(job[i])
      BY <2>3, <2>4, ShownFields DEF Made
    <2>8. OneDropPerKey /\ OneDropPerKey'
      BY DEF ModuleInv
    <2>9. \A k \in Key : Shown(k)' = Shown(k)
      <3>1. Null \notin Drops
        BY DEF Drops, Made, JobId, Null
      <3>2. QED
        BY <2>6, <2>7, <2>8, <3>1, OthersSame
    <2>10. CASE j \notin Drops
      <3>1. job[j].key = NoKey
        BY <2>2, <2>10 DEF Drops
      <3>2. ListedKeys' = ListedKeys
        BY <2>6, <2>7, <3>1 DEF ListedKeys
      <3>3. QED
        BY <2>9, <3>2, NothingTold
    <2>11. CASE j \in Drops
      <3>1. PICK k \in Key : k = job[j].key
        BY <2>2, <2>11 DEF Drops, Job
      <3>2. Shown(k) \in Terminal
        BY <2>2, <2>8, <2>11, <3>1, ShownDrop DEF ShownStatus
      <3>3. \A i \in Listed \ {j} : job[i].key # k
        BY <2>2, <2>8, <2>11, <3>1, KeyAssumption DEF OneDropPerKey, Drops, Listed
      <3>4. k \in ListedKeys /\ ListedKeys' = ListedKeys \ {k}
        <4>1. k \in ListedKeys /\ j \in Listed
          BY <2>1, <3>1, KeyAssumption DEF ListedKeys
        <4>2. {job'[i].key : i \in Listed'} = {job[i].key : i \in Listed \ {j}}
          BY <2>6, <2>7
        <4>3. {job[i].key : i \in Listed \ {j}} = {job[i].key : i \in Listed} \ {k}
          BY <3>1, <3>3
        <4>4. QED
          BY <4>1, <4>2, <4>3 DEF ListedKeys
      <3>5. Promise!Release(k)
        BY <2>9, <3>2, <3>4 DEF Promise!Release, Promise!Terminal, Terminal, ListedKeys
      <3>6. QED
        BY <3>5 DEF Promise!Next
    <2>12. QED
      BY <2>10, <2>11
  <1>3. QED
    BY <1>1, <1>2

\* A drop starts: its key was reserved, so it is new; its caller has the slot, so it is alone.
LEMMA InsertTold ==
  ASSUME DropInv, ModuleInv', NEW c \in Caller, StartInsert(c)
  PROVE  [Promise!Next]_Told
  <1> USE DEF DropInv
  <1>1. CASE UNCHANGED job
    BY <1>1, SameJobsTold
  <1>2. ASSUME NEW j \in JobId \ Made, job' = [job EXCEPT ![j] = NewJob(call[c].key)],
               call' = [call EXCEPT ![c].pc = "spawn", ![c].job = j]
        PROVE  [Promise!Next]_Told
    <2>0. PICK k \in Key \cup {NoKey} : k = call[c].key
      BY DEF ModuleInv, TypeOK, Call
    <2>1. Made' = Made \cup {j} /\ \A i \in Made : job'[i] = job[i]
      BY <1>2, InsertThreads DEF StartInsert
    <2>2. /\ job'[j].key = k /\ job'[j].listed /\ job'[j].status = "queued"
          /\ job'[j].worker = "unborn" /\ ~job'[j].cancelRequested
      BY <1>2, <2>0 DEF NewJob, ModuleInv, TypeOK
    <2>3. /\ Listed' = Listed \cup {j}
          /\ Drops' = IF k = NoKey THEN Drops ELSE Drops \cup {j}
          /\ Drops \subseteq Made /\ Listed \subseteq Made
      BY <2>1, <2>2 DEF Drops, Listed
    <2>4. OneDropPerKey /\ OneDropPerKey'
      BY DEF ModuleInv
    <2>5. CASE k = NoKey
      <3>1. j \notin Drops /\ \A i \in Drops : job'[i] = job[i]
        BY <2>1, <2>3 DEF Made
      <3>2. \A q \in Key : Shown(q)' = Shown(q)
        BY <2>3, <2>4, <2>5, <3>1, OthersSame
      <3>3. ListedKeys' = ListedKeys
        BY <2>1, <2>2, <2>3, <2>5 DEF ListedKeys
      <3>4. QED
        BY <3>2, <3>3, NothingTold
    <2>6. CASE k # NoKey
      <3>0. PICK q \in Key : q = k
        BY <2>0, <2>6
      <3>1. HoldsSlot(c) /\ Holding(c) /\ call[c].pc = "insert"
        BY <2>0, <2>6 DEF StartInsert, At, HoldsSlot, Holding
      <3>2. Live = {}
        BY <3>1, OneIsLive
      <3>3. \A i \in Drops : job[i].key # q
        BY <2>0, <3>0, <3>1 DEF ModuleInv, Reserved, Began
      <3>4. Shown(q) = "none"
        BY <3>3 DEF Shown
      <3>5. Shown(q)' = "running"
        <4>1. j \in Drops' /\ q = job'[j].key
          BY <2>2, <2>3, <2>6, <3>0
        <4>2. Shown(q)' = ShownStatus(job'[j])
          BY <2>4, <4>1, ShownDropNext
        <4>3. QED
          BY <2>2, <4>2 DEF ShownStatus, Terminal
      <3>6. ASSUME NEW p \in Key, p # q
            PROVE  Shown(p)' = Shown(p) /\ Shown(p) \notin {"running", "stopping"}
        <4>1. CASE \A i \in Drops : job[i].key # p
          <5>1. \A i \in Drops' : job'[i].key # p
            BY <2>1, <2>2, <2>3, <3>0, <3>6, <4>1
          <5>2. QED
            BY <4>1, <5>1 DEF Shown
        <4>2. ASSUME NEW i \in Drops, job[i].key = p
              PROVE  Shown(p)' = Shown(p) /\ Shown(p) \notin {"running", "stopping"}
          <5>1. i \in Drops' /\ job'[i] = job[i] /\ job[i].status \in Terminal
            BY <2>1, <2>3, <3>2 DEF Live
          <5>2. Shown(p) = ShownStatus(job[i])
            BY <2>4, <4>2, ShownDrop
          <5>3. Shown(p)' = ShownStatus(job[i])
            BY <2>4, <4>2, <5>1, ShownDropNext
          <5>4. QED
            BY <5>1, <5>2, <5>3 DEF ShownStatus, Terminal
        <4>3. QED
          BY <4>1, <4>2
      <3>7. ListedKeys' = ListedKeys \cup {q}
        BY <2>1, <2>2, <2>3, <3>0, KeyAssumption DEF ListedKeys
      <3>8. Promise!Start(q)
        <4> DEFINE status == [p \in Key |-> Shown(p)]
        <4>1. status' = [status EXCEPT ![q] = "running"] /\ status[q] = "none"
          BY <3>4, <3>5, <3>6
        <4>2. {p \in Key : status[p] \in {"running", "stopping"}} = {}
          BY <3>4, <3>6
        <4>3. QED
          BY <3>7, <4>1, <4>2 DEF Promise!Start, Promise!Running, ListedKeys
      <3>9. QED
        BY <3>8 DEF Promise!Next
    <2>7. QED
      BY <2>5, <2>6
  <1>3. QED
    BY <1>1, <1>2 DEF StartInsert

LEMMA EveryStepTold ==
  ASSUME DropInv, [Next]_vars
  PROVE  [Promise!Next]_Told
  <1>0. ModuleInv /\ ModuleInv' /\ ThreadInv /\ RecordInv
    BY ModuleInvNext DEF DropInv
  <1>1. ASSUME NEW c \in Caller, Begin(c)
        PROVE  [Promise!Next]_Told
    <2>1. UNCHANGED job \/ job' = Unhand(Reapable)
      BY <1>1 DEF Begin, Configure, Info, Drop, Cancel, JobStatus, Ack, Shutdown, Enter
    <2>2. QED
      BY <1>0, <2>1, SameJobsTold, ReapTold
  <1>2. ASSUME NEW c \in Caller, Continue(c)
        PROVE  [Promise!Next]_Told
    <2>1. CASE UNCHANGED job
      BY <2>1, SameJobsTold
    <2>2. CASE StartReap(c)
      BY <1>0, <2>2, ReapTold DEF StartReap
    <2>3. CASE StartInsert(c)
      BY <1>0, <2>3, InsertTold
    <2>4. CASE CancelMark(c) \/ StatusPhase(c) \/ StartSpawn(c)
      BY <1>0, <2>4, OneJobTold
    <2>5. CASE AckErase(c)
      BY <1>0, <2>5, AckTold
    <2>6. CASE ShutdownFlag(c)
      BY <1>0, <2>6, FlagTold
    <2>7. CASE ShutdownTake(c)
      <3>1. \E S \in SUBSET Made : job' = Unhand(S)
        BY <2>7 DEF ShutdownTake
      <3>2. QED
        BY <1>0, <3>1, UnhandTold
    <2>8. QED
      BY <1>2, <2>1, <2>2, <2>3, <2>4, <2>5, <2>6, <2>7
         DEF Continue, ConfigureCheck, ConfigureSwap, ConfigureDiscard, ReserveKey, ReserveDropSlot,
             StartCheck, RememberRequestKey, ReleaseDropSlot, AbandonReservation, CancelReturn,
             StatusLook, StatusPolled, AckReturn, ShutdownQuit, ShutdownExchange, ShutdownDestroy,
             ShutdownRearm
  <1>3. ASSUME NEW j \in JobId, Work(j)
        PROVE  [Promise!Next]_Told
    <2>1. /\ Made' = Made /\ j \in Made /\ job'[j].key = job[j].key
          /\ \A i \in Made \ {j} : job'[i] = job[i]
      BY <1>0, <1>3, WorkerThreads DEF WorkerMoves
    <2>2. job'[j].listed = job[j].listed /\ Tells(job[j], job'[j])
      BY <1>0, <1>3, WorkerTells
    <2>3. \A i \in Made : job'[i].key = job[i].key /\ job'[i].listed = job[i].listed
      BY <2>1, <2>2
    <2>4. \A i \in Drops \ {j} : ShownStatus(job'[i]) = ShownStatus(job[i])
      BY <2>1 DEF Drops
    <2>5. QED
      BY <1>0, <2>1, <2>2, <2>3, <2>4, OneDropTold
  <1>4. CASE UNCHANGED vars
    BY <1>4, SameJobsTold DEF vars
  <1>5. QED
    BY <1>1, <1>2, <1>3, <1>4 DEF Next

\* The module, with its threads, its table, its slot and its shutdowns, does for its callers what
\* DropPromise says: of every key it starts one drop, and that alone; the drop ends once, as
\* cancelled only if it was asked to stop; and its result is let go of only once it has ended.
THEOREM CallersSeeOneDrop == Spec => KeepsPromise
  <1>1. Init => Promise!Init
    <2> SUFFICES ASSUME Init PROVE Promise!Init
      OBVIOUS
    <2>1. Made = {} /\ Drops = {} /\ Listed = {}
      BY DEF Init, Made, Drops, Listed
    <2>2. QED
      BY <2>1 DEF Promise!Init, Shown
  <1>2. Init => BornInv
    BY DEF Init, BornInv, Made
  <1>3. DropInv /\ [Next]_vars => BornInv'
    BY BornNext
  <1>4. DropInv /\ [Next]_vars
          => [Promise!Next]_<<[k \in Key |-> Shown(k)], {job[j].key : j \in Listed} \ {NoKey}>>
    BY EveryStepTold DEF Told
  <1>5. QED
    BY <1>1, <1>2, <1>3, <1>4, SlotInvariance, PTL DEF Spec, DropInv, KeepsPromise, Promise!Spec

=============================================================================
