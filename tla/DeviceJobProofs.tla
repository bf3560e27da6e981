--------------------------- MODULE DeviceJobProofs ---------------------------
(***************************************************************************)
(* What a job's callers rely on, for any set of clients, any contents of   *)
(* the job and any number of calls: how its status moves, what a cancel    *)
(* and a failed submission leave behind, what the destructor waits for,    *)
(* and that the job keeps the promise of JobPromise.                       *)
(***************************************************************************)
EXTENDS DeviceJob, TLAPS

(* Where a client is inside submit() after it closed the job.              *)
Preparing   == {"prepare", "enqueue", "catch"}
Storing     == {"storeError", "storeFailed"}
InSubmit(c) == pc[c] \in Preparing \union Storing

(* The members of the job and the task: a task exists only for a job whose *)
(* submission was handed to the executor, or that was retrieved; it was    *)
(* created once, from what the job still contains.                         *)
JobInv ==
  /\ retrieved => jobHandle = "none" /\ status # "CREATED" /\ ~submitting
  /\ jobHandle # "none" => status # "CREATED"
  /\ taskArn => task # "NONE" /\ status # "CREATED"
  /\ task # "NONE" => taskConfig = programs
  /\ created <= 1
  /\ jobHandle = "none" /\ ~retrieved =>
       created = 0 /\ task = "NONE" /\ ~taskArn
  /\ jobHandle = "pending" => request = programs

(* The submission worker acts on a pending submission, and until it calls  *)
(* CreateQuantumTask there is no task.                                     *)
WorkerInv ==
  /\ pc[Worker] # "idle" => jobHandle = "pending"
  /\ jobHandle = "pending" /\ pc[Worker] \in {"idle", "create"} =>
       created = 0 /\ task = "NONE"
  /\ pc[Worker] = "record" => task # "NONE"

(* One client at a time is inside submit(), and the job is closed and has  *)
(* the contents it copied until it leaves.                                 *)
SubmitInv ==
  /\ \A c \in Clients : InSubmit(c) =>
       /\ submitting /\ ~retrieved /\ jobHandle = "none"
       /\ snapshot[c] = programs
       /\ pc[c] \in Preparing => status = "CREATED"
       /\ pc[c] \in Storing => jobMutex = c
  /\ \A c, d \in Clients : InSubmit(c) /\ InSubmit(d) => c = d

(* Only a task that is known is polled, and its answer is a status.        *)
PollInv ==
  \A t \in Pollers :
    /\ pc[t] \in {"checkPoll", "checkUpdate"} => taskArn
    /\ pc[t] = "checkUpdate" =>
         seen[t] \in (Status \ {"CREATED"}) \union {"CANCELLING"}
    /\ pc[t] = "checkExit" => seen[t] \in Status

IInv == TypeOK /\ JobInv /\ WorkerInv /\ SubmitInv /\ PollInv

USE DeviceJobAssumption DEF Threads, Pollers

(* Braket's answer about an existing task is a status later than CREATED,  *)
(* or CANCELLING.                                                          *)
LEMMA AnswerIsStatus ==
  ASSUME NEW s \in TaskStatus, s # "NONE"
  PROVE  /\ QdmiStatus[s] \in (Status \ {"CREATED"}) \union {"CANCELLING"}
         /\ s # "CANCELLING" => QdmiStatus[s] \in Status \ {"CREATED"}
  BY DEF TaskStatus, QdmiStatus, Status

LEMMA InitInv == Init => IInv
  <1> SUFFICES ASSUME Init PROVE IInv
    OBVIOUS
  <1>1. /\ status \in Status /\ programs \in Configs \union {NoPrograms}
        /\ retrieved \in BOOLEAN /\ task \in TaskStatus
        /\ taskConfig \in Configs \union {NoPrograms} /\ created \in 0 .. 1
        /\ retrieved => status # "CREATED" /\ task # "NONE" /\ taskConfig = programs
        /\ ~retrieved => created = 0 /\ task = "NONE"
    <2>1. CASE retrieved = TRUE
      <3>1. /\ programs \in Configs /\ task \in TaskStatus \ {"NONE"}
            /\ taskConfig = programs /\ created = 1
            /\ status = IF task = "CANCELLING" THEN "SUBMITTED"
                        ELSE QdmiStatus[task]
        BY <2>1 DEF Init, InitJob
      <3>2. status \in Status \ {"CREATED"}
        BY <3>1, AnswerIsStatus DEF Status
      <3> QED
        BY <2>1, <3>1, <3>2
    <2>2. CASE retrieved = FALSE
      <3>1. /\ status = "CREATED" /\ programs \in Configs \union {NoPrograms}
            /\ task = "NONE" /\ taskConfig = NoPrograms /\ created = 0
        BY <2>2 DEF Init, InitJob
      <3>2. /\ status \in Status /\ task \in TaskStatus /\ created \in 0 .. 1
            /\ taskConfig \in Configs \union {NoPrograms}
        BY <3>1 DEF Status, TaskStatus
      <3> QED
        BY <2>2, <3>1, <3>2
    <2>3. retrieved = TRUE \/ retrieved = FALSE
      BY DEF Init, InitJob
    <2> QED
      BY <2>1, <2>2, <2>3
  <1>2. TypeOK
    <2>1. NoResult \in Result
      BY DEF NoResult, Result, Codes
    <2>2. /\ pc \in [Threads -> Labels]
          /\ op \in [Pollers -> AllOps \union {"prefetch"}]
          /\ snapshot \in [Clients -> Configs \union {NoPrograms}]
          /\ seen \in [Pollers -> Status \union {"CANCELLING", "none"}]
          /\ ret \in [Pollers -> Result]
      BY <2>1 DEF Init, Labels, AllOps
    <2>3. /\ submitting \in BOOLEAN /\ submissionStarted \in BOOLEAN
          /\ taskArn \in BOOLEAN /\ stopPrefetch \in BOOLEAN
      BY <1>1 DEF Init
    <2>4. /\ jobMutex \in Threads \union {Nobody}
          /\ statusMutex \in Pollers \union {Nobody}
          /\ prefetchMutex \in {Prefetch, Nobody}
          /\ prefetchQueue \in Nat /\ calls \in 0 .. MaxCalls /\ created \in Nat
          /\ request \in Configs \union {NoPrograms}
          /\ life \in {"live", "draining", "freed"}
          /\ submissionError \in ErrorCodes
          /\ jobHandle \in {"none", "pending", "ready"}
      BY <1>1 DEF Init, ErrorCodes
    <2> QED
      BY <1>1, <2>2, <2>3, <2>4 DEF TypeOK
  <1>3. JobInv
    BY <1>1 DEF Init, JobInv
  <1>4. WorkerInv /\ SubmitInv /\ PollInv
    BY <1>1 DEF Init, WorkerInv, SubmitInv, PollInv, InSubmit, Preparing, Storing
  <1> QED
    BY <1>2, <1>3, <1>4 DEF IInv

(* A step of a poller outside of submit() that changes none of the         *)
(* variables the invariant speaks of, and does not go on to poll.          *)
Watched == <<status, submitting, submissionStarted, programs, retrieved,
             taskArn, submissionError, jobHandle, jobMutex, request, task,
             taskConfig, created, snapshot, seen>>

QuietLabels ==
  Labels \ (Preparing \union Storing \union {"checkPoll", "checkUpdate", "checkExit"})

LEMMA QuietStep ==
  ASSUME IInv, NEW t \in Pollers, NEW l \in QuietLabels,
         pc' = [pc EXCEPT ![t] = l], UNCHANGED Watched
  PROVE  JobInv' /\ WorkerInv' /\ SubmitInv' /\ PollInv'
  <1>1. /\ pc'[Worker] = pc[Worker]
        /\ \A u \in Pollers : u # t => pc'[u] = pc[u]
        /\ pc'[t] = l
    BY DEF IInv, TypeOK
  <1>2. JobInv'
    BY DEF IInv, JobInv, Watched
  <1>3. WorkerInv'
    BY <1>1 DEF IInv, WorkerInv, Watched
  <1>4. SubmitInv'
    BY <1>1 DEF IInv, SubmitInv, InSubmit, QuietLabels, Watched
  <1>5. PollInv'
    BY <1>1 DEF IInv, PollInv, QuietLabels, Watched
  <1> QED
    BY <1>2, <1>3, <1>4, <1>5

(* Every step keeps every variable within its type.                        *)
LEMMA TypeStep == ASSUME IInv, Next PROVE TypeOK'
  <1> USE DEF IInv, TypeOK, Goto, Return, CheckReturns, jobVars, lockVars,
           restVars, keptVars, poolVars,
         taskVars, callVars, Labels, Result, Codes, ErrorCodes, NoResult
  <1>1. ASSUME NEW c \in Clients, Call(c) PROVE TypeOK'
    BY <1>1 DEF Call, AllOps
  <1>2. ASSUME NEW c \in Clients, Configure(c) PROVE TypeOK'
    BY <1>2 DEF Configure
  <1>3. ASSUME NEW c \in Clients, ConfigureRefused(c) PROVE TypeOK'
    BY <1>3 DEF ConfigureRefused
  <1>4. ASSUME NEW c \in Clients, SubmitRefused(c) PROVE TypeOK'
    BY <1>4 DEF SubmitRefused
  <1>5. ASSUME NEW c \in Clients, SubmitSnapshot(c) PROVE TypeOK'
    BY <1>5 DEF SubmitSnapshot, CanSubmit, Configurable
  <1>6. ASSUME NEW c \in Clients, SubmitPrepare(c) PROVE TypeOK'
    BY <1>6 DEF SubmitPrepare
  <1>7. ASSUME NEW c \in Clients, SubmitNoDestination(c) PROVE TypeOK'
    <2>1. submitting' \in BOOLEAN
      BY <1>7 DEF SubmitNoDestination
    <2> QED
      BY <1>7, <2>1 DEF SubmitNoDestination, Status
  <1>8. ASSUME NEW c \in Clients, SubmitEnqueue(c) PROVE TypeOK'
    BY <1>8 DEF SubmitEnqueue, Status
  <1>9. ASSUME NEW c \in Clients, SubmitRejected(c) PROVE TypeOK'
    BY <1>9 DEF SubmitRejected, Status
  <1>10. ASSUME NEW c \in Clients, SubmitCatch(c) PROVE TypeOK'
    BY <1>10 DEF SubmitCatch
  <1>11. ASSUME NEW c \in Clients, SubmitStoreError(c) PROVE TypeOK'
    BY <1>11 DEF SubmitStoreError
  <1>12. ASSUME NEW c \in Clients, SubmitStoreFailed(c) PROVE TypeOK'
    <2>1. submitting' \in BOOLEAN
      BY <1>12 DEF SubmitStoreFailed
    <2> QED
      BY <1>12, <2>1 DEF SubmitStoreFailed, Status
  <1>13. ASSUME NEW c \in Clients, WaitBegins(c) PROVE TypeOK'
    BY <1>13 DEF WaitBegins
  <1>14. ASSUME NEW c \in Clients, WaitError(c) PROVE TypeOK'
    BY <1>14 DEF WaitError
  <1>15. ASSUME NEW c \in Clients, WaitChecked(c) PROVE TypeOK'
    BY <1>15 DEF WaitChecked
  <1>16. ASSUME NEW c \in Clients, CancelQueued(c) PROVE TypeOK'
    <2>1. submitting' \in BOOLEAN
      BY <1>16 DEF CancelQueued
    <2> QED
      BY <1>16, <2>1 DEF CancelQueued, Status
  <1>17. ASSUME NEW c \in Clients, CancelNotQueued(c) PROVE TypeOK'
    BY <1>17 DEF CancelNotQueued
  <1>18. ASSUME NEW c \in Clients, Await(c) PROVE TypeOK'
    BY <1>18 DEF Await
  <1>19. ASSUME NEW c \in Clients, AwaitGet(c) PROVE TypeOK'
    BY <1>19 DEF AwaitGet
  <1>20. ASSUME NEW c \in Clients, AwaitError(c) PROVE TypeOK'
    BY <1>20 DEF AwaitError
  <1>21. ASSUME NEW c \in Clients, CancelUnsubmitted(c) PROVE TypeOK'
    BY <1>21 DEF CancelUnsubmitted, Status
  <1>22. ASSUME NEW c \in Clients, CancelState(c) PROVE TypeOK'
    BY <1>22 DEF CancelState
  <1>23. ASSUME NEW c \in Clients, CancelArn(c) PROVE TypeOK'
    BY <1>23 DEF CancelArn
  <1>24. ASSUME NEW c \in Clients, CancelRemote(c) PROVE TypeOK'
    BY <1>24 DEF CancelRemote, TaskStatus
  <1>25. ASSUME NEW c \in Clients, CancelRemoteFails(c) PROVE TypeOK'
    BY <1>25 DEF CancelRemoteFails
  <1>26. ASSUME NEW c \in Clients, FreeStops(c) PROVE TypeOK'
    BY <1>26 DEF FreeStops, RequestStop
  <1>27. ASSUME NEW c \in Clients, FreeWaits(c) PROVE TypeOK'
    BY <1>27 DEF FreeWaits
  <1>28. ASSUME NEW c \in Clients, FreeLocks(c) PROVE TypeOK'
    BY <1>28 DEF FreeLocks
  <1>29. ASSUME NEW t \in Pollers, CheckError(t) PROVE TypeOK'
    BY <1>29 DEF CheckError
  <1>30. ASSUME NEW t \in Pollers, CheckFailed(t) PROVE TypeOK'
    BY <1>30 DEF CheckFailed
  <1>31. ASSUME NEW t \in Pollers, CheckLock(t) PROVE TypeOK'
    BY <1>31 DEF CheckLock
  <1>32. ASSUME NEW t \in Pollers, CheckArn(t) PROVE TypeOK'
    BY <1>32 DEF CheckArn
  <1>33. ASSUME NEW t \in Pollers, CheckNoArn(t) PROVE TypeOK'
    BY <1>33 DEF CheckNoArn
  <1>34. ASSUME NEW t \in Pollers, CheckExit(t) PROVE TypeOK'
    BY <1>34 DEF CheckExit, PollInv
  <1>35. ASSUME NEW t \in Pollers, CheckPoll(t) PROVE TypeOK'
    BY AnswerIsStatus, <1>35 DEF CheckPoll, PollInv, JobInv
  <1>36. ASSUME NEW t \in Pollers, CheckPollFails(t) PROVE TypeOK'
    BY <1>36 DEF CheckPollFails
  <1>37. ASSUME NEW t \in Pollers, CheckUpdate(t) PROVE TypeOK'
    BY <1>37 DEF CheckUpdate, UpdatedStatus, PollInv, Status
  <1>38. ASSUME WorkerSkips PROVE TypeOK'
    BY <1>38 DEF WorkerSkips
  <1>39. ASSUME WorkerStarts PROVE TypeOK'
    BY <1>39 DEF WorkerStarts
  <1>40. ASSUME WorkerCreates PROVE TypeOK'
    BY <1>40 DEF WorkerCreates, TaskStatus
  <1>41. ASSUME WorkerRefused PROVE TypeOK'
    BY <1>41 DEF WorkerRefused
  <1>42. ASSUME WorkerRecords PROVE TypeOK'
    BY <1>42 DEF WorkerRecords
  <1>43. ASSUME WorkerStartsPrefetch PROVE TypeOK'
    BY <1>43 DEF WorkerStartsPrefetch, QueuePrefetch
  <1>44. ASSUME WorkerStoresError PROVE TypeOK'
    BY <1>44 DEF WorkerStoresError
  <1>45. ASSUME WorkerFinishes PROVE TypeOK'
    <2>1. submitting' \in BOOLEAN
      BY <1>45 DEF WorkerFinishes
    <2> QED
      BY <1>45, <2>1 DEF WorkerFinishes, FinalStatus, Status
  <1>46. ASSUME PrefetchStarts PROVE TypeOK'
    BY <1>46 DEF PrefetchStarts
  <1>47. ASSUME PrefetchDropped PROVE TypeOK'
    BY <1>47 DEF PrefetchDropped
  <1>48. ASSUME PrefetchChecked PROVE TypeOK'
    BY <1>48 DEF PrefetchChecked, PrefetchEnds
  <1>49. ASSUME PrefetchFetches PROVE TypeOK'
    BY <1>49 DEF PrefetchFetches, PrefetchEnds
  <1>50. ASSUME PrefetchRequeues PROVE TypeOK'
    BY <1>50 DEF PrefetchRequeues, QueuePrefetch, PrefetchEnds
  <1>51. ASSUME TaskAdvances PROVE TypeOK'
    BY <1>51 DEF TaskAdvances, NextTaskStatus, TaskStatus
  <1>52. ASSUME Quiescent PROVE TypeOK'
    BY <1>52 DEF Quiescent, vars
  <1> QED
    BY <1>1, <1>2, <1>3, <1>4, <1>5, <1>6, <1>7, <1>8, <1>9, <1>10, <1>11,
       <1>12, <1>13, <1>14, <1>15, <1>16, <1>17, <1>18, <1>19, <1>20, <1>21,
       <1>22, <1>23, <1>24, <1>25, <1>26, <1>27, <1>28, <1>29, <1>30, <1>31,
       <1>32, <1>33, <1>34, <1>35, <1>36, <1>37, <1>38, <1>39, <1>40, <1>41,
       <1>42, <1>43, <1>44, <1>45, <1>46, <1>47, <1>48, <1>49, <1>50, <1>51, <1>52
       DEF Next, ClientStep, SubmitStep, CheckStep, CancelStep, WorkerStep,
       PrefetchStep

(* The steps QuietStep speaks of.                                          *)
QuietClient(t) ==
  \/ Call(t) \/ ConfigureRefused(t) \/ SubmitRefused(t)
  \/ WaitBegins(t) \/ WaitError(t) \/ WaitChecked(t)
  \/ CancelNotQueued(t) \/ Await(t) \/ AwaitGet(t) \/ AwaitError(t)
  \/ CancelState(t) \/ CancelArn(t) \/ CancelRemoteFails(t)
  \/ FreeStops(t) \/ FreeWaits(t) \/ FreeLocks(t)
  \/ CheckError(t) \/ CheckFailed(t) \/ CheckPollFails(t)

QuietPrefetch ==
  PrefetchStarts \/ PrefetchChecked \/ PrefetchFetches \/ PrefetchRequeues

(* A quiet step moves one poller to a quiet label and changes nothing that  *)
(* is watched.                                                             *)
LEMMA QuietClientShape ==
  ASSUME IInv, NEW t \in Pollers, QuietClient(t)
  PROVE  (\E l \in QuietLabels : pc' = [pc EXCEPT ![t] = l]) /\ UNCHANGED Watched
  <1>1. \E l \in QuietLabels : pc' = [pc EXCEPT ![t] = l]
    <2> USE DEF Goto, Return, CheckReturns, QuietLabels, Labels, Preparing, Storing
    <2>1. CASE Call(t)
      BY <2>1 DEF Call, AllOps
    <2>2. CASE ConfigureRefused(t)
      BY <2>2 DEF ConfigureRefused
    <2>3. CASE SubmitRefused(t)
      BY <2>3 DEF SubmitRefused
    <2>4. CASE WaitBegins(t)
      BY <2>4 DEF WaitBegins
    <2>5. CASE WaitError(t)
      BY <2>5 DEF WaitError
    <2>6. CASE WaitChecked(t)
      BY <2>6 DEF WaitChecked
    <2>7. CASE CancelNotQueued(t)
      BY <2>7 DEF CancelNotQueued
    <2>8. CASE Await(t)
      BY <2>8 DEF Await
    <2>9. CASE AwaitGet(t)
      BY <2>9 DEF AwaitGet
    <2>10. CASE AwaitError(t)
      BY <2>10 DEF AwaitError
    <2>11. CASE CancelState(t)
      BY <2>11 DEF CancelState
    <2>12. CASE CancelArn(t)
      BY <2>12 DEF CancelArn
    <2>13. CASE CancelRemoteFails(t)
      BY <2>13 DEF CancelRemoteFails
    <2>14. CASE FreeStops(t)
      BY <2>14 DEF FreeStops
    <2>15. CASE FreeWaits(t)
      BY <2>15 DEF FreeWaits
    <2>16. CASE FreeLocks(t)
      BY <2>16 DEF FreeLocks
    <2>17. CASE CheckError(t)
      BY <2>17 DEF CheckError
    <2>18. CASE CheckFailed(t)
      <3> DEFINE l == IF op[t] = "check" THEN "idle" ELSE "checked"
      <3>1. l \in QuietLabels
        OBVIOUS
      <3>2. pc' = [pc EXCEPT ![t] = l]
        BY <2>18 DEF CheckFailed
      <3> QED
        BY <3>1, <3>2
    <2>19. CASE CheckPollFails(t)
      <3> DEFINE l == IF op[t] = "check" THEN "idle" ELSE "checked"
      <3>1. l \in QuietLabels
        OBVIOUS
      <3>2. pc' = [pc EXCEPT ![t] = l]
        BY <2>19 DEF CheckPollFails
      <3> QED
        BY <3>1, <3>2
    <2> QED
      BY <2>1, <2>2, <2>3, <2>4, <2>5, <2>6, <2>7, <2>8, <2>9, <2>10, <2>11,
         <2>12, <2>13, <2>14, <2>15, <2>16, <2>17, <2>18, <2>19 DEF QuietClient
  <1>2. UNCHANGED Watched
    BY DEF Watched, QuietClient, jobVars, lockVars,
           restVars, keptVars, poolVars, taskVars,
       callVars, Call, ConfigureRefused, SubmitRefused, WaitBegins, WaitError,
       WaitChecked, CancelNotQueued, Await, AwaitGet, AwaitError, CancelState,
       CancelArn, CancelRemoteFails, FreeStops, FreeWaits, FreeLocks, CheckError,
       CheckFailed, CheckPollFails, RequestStop
  <1> QED
    BY <1>1, <1>2

LEMMA QuietClientSteps ==
  ASSUME IInv, NEW t \in Pollers, QuietClient(t)
  PROVE  JobInv' /\ WorkerInv' /\ SubmitInv' /\ PollInv'
  <1> QED
    BY QuietClientShape, QuietStep

LEMMA QuietPrefetchShape ==
  ASSUME IInv, QuietPrefetch
  PROVE  (\E l \in QuietLabels : pc' = [pc EXCEPT ![Prefetch] = l]) /\ UNCHANGED Watched
  <1>1. \E l \in QuietLabels : pc' = [pc EXCEPT ![Prefetch] = l]
    <2> USE DEF Goto, QuietLabels, Labels, Preparing, Storing
    <2>1. CASE PrefetchStarts
      BY <2>1 DEF PrefetchStarts, PrefetchEnds
    <2>2. CASE PrefetchChecked
      BY <2>2 DEF PrefetchChecked, PrefetchEnds
    <2>3. CASE PrefetchFetches
      BY <2>3 DEF PrefetchFetches, PrefetchEnds
    <2>4. CASE PrefetchRequeues
      BY <2>4 DEF PrefetchRequeues, PrefetchEnds
    <2> QED
      BY <2>1, <2>2, <2>3, <2>4 DEF QuietPrefetch
  <1>2. UNCHANGED Watched
    BY DEF Watched, QuietPrefetch, jobVars, lockVars,
           restVars, keptVars, poolVars, taskVars,
       callVars, PrefetchStarts, PrefetchChecked, PrefetchFetches,
       PrefetchRequeues, PrefetchEnds, QueuePrefetch
  <1> QED
    BY <1>1, <1>2

LEMMA QuietPrefetchSteps ==
  ASSUME IInv, QuietPrefetch
  PROVE  JobInv' /\ WorkerInv' /\ SubmitInv' /\ PollInv'
  <1>1. Prefetch \in Pollers
    OBVIOUS
  <1> QED
    BY <1>1, QuietPrefetchShape, QuietStep

(* The steps that change what the invariant speaks of.                   *)
SubmitMove(c) ==
  \/ SubmitSnapshot(c)
  \/ SubmitPrepare(c)
  \/ SubmitNoDestination(c)
  \/ SubmitEnqueue(c)
  \/ SubmitRejected(c)
  \/ SubmitCatch(c)
  \/ SubmitStoreError(c)
  \/ SubmitStoreFailed(c)

LEMMA SubmitMoves ==
  ASSUME IInv, NEW c \in Clients, SubmitMove(c)
  PROVE  JobInv' /\ WorkerInv' /\ SubmitInv' /\ PollInv'
  <1> USE DEF IInv, TypeOK, Goto, Return, CheckReturns, jobVars, lockVars,
           restVars, keptVars, poolVars,
         taskVars, callVars, InSubmit, Preparing, Storing
  <1>1. CASE SubmitSnapshot(c)
    <2>1. JobInv'
      BY <1>1 DEF SubmitSnapshot, CanSubmit, Configurable, JobInv, WorkerInv,
         SubmitInv, PollInv
    <2>2. WorkerInv'
      BY <1>1 DEF SubmitSnapshot, CanSubmit, Configurable, JobInv, WorkerInv,
         SubmitInv, PollInv
    <2>3. SubmitInv'
      BY <1>1 DEF SubmitSnapshot, CanSubmit, Configurable, JobInv, WorkerInv,
         SubmitInv, PollInv
    <2>4. PollInv'
      BY <1>1 DEF SubmitSnapshot, CanSubmit, Configurable, JobInv, WorkerInv,
         SubmitInv, PollInv
    <2> QED
      BY <2>1, <2>2, <2>3, <2>4
  <1>2. CASE SubmitPrepare(c)
    <2>1. JobInv'
      BY <1>2 DEF SubmitPrepare, JobInv, WorkerInv, SubmitInv, PollInv
    <2>2. WorkerInv'
      BY <1>2 DEF SubmitPrepare, JobInv, WorkerInv, SubmitInv, PollInv
    <2>3. SubmitInv'
      BY <1>2 DEF SubmitPrepare, JobInv, WorkerInv, SubmitInv, PollInv
    <2>4. PollInv'
      BY <1>2 DEF SubmitPrepare, JobInv, WorkerInv, SubmitInv, PollInv
    <2> QED
      BY <2>1, <2>2, <2>3, <2>4
  <1>3. CASE SubmitNoDestination(c)
    <2>1. JobInv'
      BY <1>3 DEF SubmitNoDestination, JobInv, WorkerInv, SubmitInv, PollInv
    <2>2. WorkerInv'
      BY <1>3 DEF SubmitNoDestination, JobInv, WorkerInv, SubmitInv, PollInv
    <2>3. SubmitInv'
      BY <1>3 DEF SubmitNoDestination, JobInv, WorkerInv, SubmitInv, PollInv
    <2>4. PollInv'
      BY <1>3 DEF SubmitNoDestination, JobInv, WorkerInv, SubmitInv, PollInv
    <2> QED
      BY <2>1, <2>2, <2>3, <2>4
  <1>4. CASE SubmitEnqueue(c)
    <2>1. JobInv'
      BY <1>4 DEF SubmitEnqueue, JobInv, WorkerInv, SubmitInv, PollInv
    <2>2. WorkerInv'
      BY <1>4 DEF SubmitEnqueue, JobInv, WorkerInv, SubmitInv, PollInv
    <2>3. SubmitInv'
      BY <1>4 DEF SubmitEnqueue, JobInv, WorkerInv, SubmitInv, PollInv
    <2>4. PollInv'
      BY <1>4 DEF SubmitEnqueue, JobInv, WorkerInv, SubmitInv, PollInv
    <2> QED
      BY <2>1, <2>2, <2>3, <2>4
  <1>5. CASE SubmitRejected(c)
    <2>1. JobInv'
      BY <1>5 DEF SubmitRejected, JobInv, WorkerInv, SubmitInv, PollInv
    <2>2. WorkerInv'
      BY <1>5 DEF SubmitRejected, JobInv, WorkerInv, SubmitInv, PollInv
    <2>3. SubmitInv'
      BY <1>5 DEF SubmitRejected, JobInv, WorkerInv, SubmitInv, PollInv
    <2>4. PollInv'
      BY <1>5 DEF SubmitRejected, JobInv, WorkerInv, SubmitInv, PollInv
    <2> QED
      BY <2>1, <2>2, <2>3, <2>4
  <1>6. CASE SubmitCatch(c)
    <2>1. JobInv'
      BY <1>6 DEF SubmitCatch, JobInv, WorkerInv, SubmitInv, PollInv
    <2>2. WorkerInv'
      BY <1>6 DEF SubmitCatch, JobInv, WorkerInv, SubmitInv, PollInv
    <2>3. SubmitInv'
      BY <1>6 DEF SubmitCatch, JobInv, WorkerInv, SubmitInv, PollInv
    <2>4. PollInv'
      BY <1>6 DEF SubmitCatch, JobInv, WorkerInv, SubmitInv, PollInv
    <2> QED
      BY <2>1, <2>2, <2>3, <2>4
  <1>7. CASE SubmitStoreError(c)
    <2>1. JobInv'
      BY <1>7 DEF SubmitStoreError, JobInv, WorkerInv, SubmitInv, PollInv
    <2>2. WorkerInv'
      BY <1>7 DEF SubmitStoreError, JobInv, WorkerInv, SubmitInv, PollInv
    <2>3. SubmitInv'
      BY <1>7 DEF SubmitStoreError, JobInv, WorkerInv, SubmitInv, PollInv
    <2>4. PollInv'
      BY <1>7 DEF SubmitStoreError, JobInv, WorkerInv, SubmitInv, PollInv
    <2> QED
      BY <2>1, <2>2, <2>3, <2>4
  <1>8. CASE SubmitStoreFailed(c)
    <2>1. JobInv'
      BY <1>8 DEF SubmitStoreFailed, JobInv, WorkerInv, SubmitInv, PollInv
    <2>2. WorkerInv'
      BY <1>8 DEF SubmitStoreFailed, JobInv, WorkerInv, SubmitInv, PollInv
    <2>3. SubmitInv'
      BY <1>8 DEF SubmitStoreFailed, JobInv, WorkerInv, SubmitInv, PollInv
    <2>4. PollInv'
      BY <1>8 DEF SubmitStoreFailed, JobInv, WorkerInv, SubmitInv, PollInv
    <2> QED
      BY <2>1, <2>2, <2>3, <2>4
  <1> QED
    BY <1>1, <1>2, <1>3, <1>4, <1>5, <1>6, <1>7, <1>8 DEF SubmitMove

ClientMove(c) ==
  \/ Configure(c)
  \/ CancelQueued(c)
  \/ CancelUnsubmitted(c)
  \/ CancelRemote(c)

LEMMA ClientMoves ==
  ASSUME IInv, NEW c \in Clients, ClientMove(c)
  PROVE  JobInv' /\ WorkerInv' /\ SubmitInv' /\ PollInv'
  <1> USE DEF IInv, TypeOK, Goto, Return, CheckReturns, jobVars, lockVars,
           restVars, keptVars, poolVars,
         taskVars, callVars, InSubmit, Preparing, Storing
  <1>1. CASE Configure(c)
    <2>1. JobInv'
      BY <1>1 DEF Configure, Configurable, JobInv, WorkerInv, SubmitInv,
         PollInv
    <2>2. WorkerInv'
      BY <1>1 DEF Configure, Configurable, JobInv, WorkerInv, SubmitInv,
         PollInv
    <2>3. SubmitInv'
      BY <1>1 DEF Configure, Configurable, JobInv, WorkerInv, SubmitInv,
         PollInv
    <2>4. PollInv'
      BY <1>1 DEF Configure, Configurable, JobInv, WorkerInv, SubmitInv,
         PollInv
    <2> QED
      BY <2>1, <2>2, <2>3, <2>4
  <1>2. CASE CancelQueued(c)
    <2>1. JobInv'
      BY <1>2 DEF CancelQueued, Withdrawable, JobInv, WorkerInv, SubmitInv,
         PollInv
    <2>2. WorkerInv'
      BY <1>2 DEF CancelQueued, Withdrawable, JobInv, WorkerInv, SubmitInv,
         PollInv
    <2>3. SubmitInv'
      BY <1>2 DEF CancelQueued, Withdrawable, JobInv, WorkerInv, SubmitInv,
         PollInv
    <2>4. PollInv'
      BY <1>2 DEF CancelQueued, Withdrawable, JobInv, WorkerInv, SubmitInv,
         PollInv
    <2> QED
      BY <2>1, <2>2, <2>3, <2>4
  <1>3. CASE CancelUnsubmitted(c)
    <2>1. JobInv'
      BY <1>3 DEF CancelUnsubmitted, JobInv, WorkerInv, SubmitInv, PollInv
    <2>2. WorkerInv'
      BY <1>3 DEF CancelUnsubmitted, JobInv, WorkerInv, SubmitInv, PollInv
    <2>3. SubmitInv'
      BY <1>3 DEF CancelUnsubmitted, JobInv, WorkerInv, SubmitInv, PollInv
    <2>4. PollInv'
      BY <1>3 DEF CancelUnsubmitted, JobInv, WorkerInv, SubmitInv, PollInv
    <2> QED
      BY <2>1, <2>2, <2>3, <2>4
  <1>4. CASE CancelRemote(c)
    <2>1. JobInv'
      BY <1>4 DEF CancelRemote, Cancellable, JobInv, WorkerInv, SubmitInv,
         PollInv
    <2>2. WorkerInv'
      BY <1>4 DEF CancelRemote, Cancellable, JobInv, WorkerInv, SubmitInv,
         PollInv
    <2>3. SubmitInv'
      BY <1>4 DEF CancelRemote, Cancellable, JobInv, WorkerInv, SubmitInv,
         PollInv
    <2>4. PollInv'
      BY <1>4 DEF CancelRemote, Cancellable, JobInv, WorkerInv, SubmitInv,
         PollInv
    <2> QED
      BY <2>1, <2>2, <2>3, <2>4
  <1> QED
    BY <1>1, <1>2, <1>3, <1>4 DEF ClientMove

CheckMove(t) ==
  \/ CheckLock(t)
  \/ CheckArn(t)
  \/ CheckNoArn(t)
  \/ CheckExit(t)
  \/ CheckPoll(t)
  \/ CheckUpdate(t)

LEMMA CheckMoves ==
  ASSUME IInv, NEW t \in Pollers, CheckMove(t)
  PROVE  JobInv' /\ WorkerInv' /\ SubmitInv' /\ PollInv'
  <1> USE DEF IInv, TypeOK, Goto, Return, CheckReturns, jobVars, lockVars,
           restVars, keptVars, poolVars,
         taskVars, callVars, InSubmit, Preparing, Storing
  <1>1. CASE CheckLock(t)
    <2>1. JobInv'
      BY <1>1 DEF CheckLock, JobInv, WorkerInv, SubmitInv, PollInv
    <2>2. WorkerInv'
      BY <1>1 DEF CheckLock, JobInv, WorkerInv, SubmitInv, PollInv
    <2>3. SubmitInv'
      BY <1>1 DEF CheckLock, JobInv, WorkerInv, SubmitInv, PollInv
    <2>4. PollInv'
      BY <1>1 DEF CheckLock, JobInv, WorkerInv, SubmitInv, PollInv
    <2> QED
      BY <2>1, <2>2, <2>3, <2>4
  <1>2. CASE CheckArn(t)
    <2>1. JobInv'
      BY <1>2 DEF CheckArn, JobInv, WorkerInv, SubmitInv, PollInv
    <2>2. WorkerInv'
      BY <1>2 DEF CheckArn, JobInv, WorkerInv, SubmitInv, PollInv
    <2>3. SubmitInv'
      BY <1>2 DEF CheckArn, JobInv, WorkerInv, SubmitInv, PollInv
    <2>4. PollInv'
      BY <1>2 DEF CheckArn, JobInv, WorkerInv, SubmitInv, PollInv
    <2> QED
      BY <2>1, <2>2, <2>3, <2>4
  <1>3. CASE CheckNoArn(t)
    <2>1. JobInv'
      BY <1>3 DEF CheckNoArn, JobInv, WorkerInv, SubmitInv, PollInv
    <2>2. WorkerInv'
      BY <1>3 DEF CheckNoArn, JobInv, WorkerInv, SubmitInv, PollInv
    <2>3. SubmitInv'
      BY <1>3 DEF CheckNoArn, JobInv, WorkerInv, SubmitInv, PollInv
    <2>4. PollInv'
      BY <1>3 DEF CheckNoArn, JobInv, WorkerInv, SubmitInv, PollInv
    <2> QED
      BY <2>1, <2>2, <2>3, <2>4
  <1>4. CASE CheckExit(t)
    <2>1. JobInv'
      BY <1>4 DEF CheckExit, JobInv, WorkerInv, SubmitInv, PollInv
    <2>2. WorkerInv'
      BY <1>4 DEF CheckExit, JobInv, WorkerInv, SubmitInv, PollInv
    <2>3. SubmitInv'
      BY <1>4 DEF CheckExit, JobInv, WorkerInv, SubmitInv, PollInv
    <2>4. PollInv'
      BY <1>4 DEF CheckExit, JobInv, WorkerInv, SubmitInv, PollInv
    <2> QED
      BY <2>1, <2>2, <2>3, <2>4
  <1>5. CASE CheckPoll(t)
    <2>1. JobInv'
      BY AnswerIsStatus, <1>5 DEF CheckPoll, JobInv, WorkerInv, SubmitInv,
         PollInv
    <2>2. WorkerInv'
      BY AnswerIsStatus, <1>5 DEF CheckPoll, JobInv, WorkerInv, SubmitInv,
         PollInv
    <2>3. SubmitInv'
      BY AnswerIsStatus, <1>5 DEF CheckPoll, JobInv, WorkerInv, SubmitInv,
         PollInv
    <2>4. PollInv'
      BY AnswerIsStatus, <1>5 DEF CheckPoll, JobInv, WorkerInv, SubmitInv,
         PollInv
    <2> QED
      BY <2>1, <2>2, <2>3, <2>4
  <1>6. CASE CheckUpdate(t)
    <2>1. JobInv'
      BY <1>6 DEF CheckUpdate, UpdatedStatus, JobInv, WorkerInv, SubmitInv,
         PollInv
    <2>2. WorkerInv'
      BY <1>6 DEF CheckUpdate, UpdatedStatus, JobInv, WorkerInv, SubmitInv,
         PollInv
    <2>3. SubmitInv'
      BY <1>6 DEF CheckUpdate, UpdatedStatus, JobInv, WorkerInv, SubmitInv,
         PollInv
    <2>4. PollInv'
      BY <1>6 DEF CheckUpdate, UpdatedStatus, JobInv, WorkerInv, SubmitInv,
         PollInv
    <2> QED
      BY <2>1, <2>2, <2>3, <2>4
  <1> QED
    BY <1>1, <1>2, <1>3, <1>4, <1>5, <1>6 DEF CheckMove

WorkerMove ==
  \/ WorkerSkips
  \/ WorkerStarts
  \/ WorkerCreates
  \/ WorkerRefused
  \/ WorkerRecords
  \/ WorkerStartsPrefetch
  \/ WorkerStoresError
  \/ WorkerFinishes

LEMMA WorkerMoves ==
  ASSUME IInv, WorkerMove
  PROVE  JobInv' /\ WorkerInv' /\ SubmitInv' /\ PollInv'
  <1> USE DEF IInv, TypeOK, Goto, Return, CheckReturns, jobVars, lockVars,
           restVars, keptVars, poolVars,
         taskVars, callVars, InSubmit, Preparing, Storing
  <1>1. CASE WorkerSkips
    <2>1. JobInv'
      BY <1>1 DEF WorkerSkips, Withdrawn, JobInv, WorkerInv, SubmitInv, PollInv
    <2>2. WorkerInv'
      BY <1>1 DEF WorkerSkips, Withdrawn, JobInv, WorkerInv, SubmitInv, PollInv
    <2>3. SubmitInv'
      BY <1>1 DEF WorkerSkips, Withdrawn, JobInv, WorkerInv, SubmitInv, PollInv
    <2>4. PollInv'
      BY <1>1 DEF WorkerSkips, Withdrawn, JobInv, WorkerInv, SubmitInv, PollInv
    <2> QED
      BY <2>1, <2>2, <2>3, <2>4
  <1>2. CASE WorkerStarts
    <2>1. JobInv'
      BY <1>2 DEF WorkerStarts, Withdrawn, JobInv, WorkerInv, SubmitInv,
         PollInv
    <2>2. WorkerInv'
      BY <1>2 DEF WorkerStarts, Withdrawn, JobInv, WorkerInv, SubmitInv,
         PollInv
    <2>3. SubmitInv'
      BY <1>2 DEF WorkerStarts, Withdrawn, JobInv, WorkerInv, SubmitInv,
         PollInv
    <2>4. PollInv'
      BY <1>2 DEF WorkerStarts, Withdrawn, JobInv, WorkerInv, SubmitInv,
         PollInv
    <2> QED
      BY <2>1, <2>2, <2>3, <2>4
  <1>3. CASE WorkerCreates
    <2>1. JobInv'
      BY <1>3 DEF WorkerCreates, JobInv, WorkerInv, SubmitInv, PollInv
    <2>2. WorkerInv'
      BY <1>3 DEF WorkerCreates, JobInv, WorkerInv, SubmitInv, PollInv
    <2>3. SubmitInv'
      BY <1>3 DEF WorkerCreates, JobInv, WorkerInv, SubmitInv, PollInv
    <2>4. PollInv'
      BY <1>3 DEF WorkerCreates, JobInv, WorkerInv, SubmitInv, PollInv
    <2> QED
      BY <2>1, <2>2, <2>3, <2>4
  <1>4. CASE WorkerRefused
    <2>1. JobInv'
      BY <1>4 DEF WorkerRefused, JobInv, WorkerInv, SubmitInv, PollInv
    <2>2. WorkerInv'
      BY <1>4 DEF WorkerRefused, JobInv, WorkerInv, SubmitInv, PollInv
    <2>3. SubmitInv'
      BY <1>4 DEF WorkerRefused, JobInv, WorkerInv, SubmitInv, PollInv
    <2>4. PollInv'
      BY <1>4 DEF WorkerRefused, JobInv, WorkerInv, SubmitInv, PollInv
    <2> QED
      BY <2>1, <2>2, <2>3, <2>4
  <1>5. CASE WorkerRecords
    <2>1. JobInv'
      BY <1>5 DEF WorkerRecords, JobInv, WorkerInv, SubmitInv, PollInv
    <2>2. WorkerInv'
      BY <1>5 DEF WorkerRecords, JobInv, WorkerInv, SubmitInv, PollInv
    <2>3. SubmitInv'
      BY <1>5 DEF WorkerRecords, JobInv, WorkerInv, SubmitInv, PollInv
    <2>4. PollInv'
      BY <1>5 DEF WorkerRecords, JobInv, WorkerInv, SubmitInv, PollInv
    <2> QED
      BY <2>1, <2>2, <2>3, <2>4
  <1>6. CASE WorkerStartsPrefetch
    <2>1. JobInv'
      BY <1>6 DEF WorkerStartsPrefetch, QueuePrefetch, JobInv, WorkerInv,
         SubmitInv, PollInv
    <2>2. WorkerInv'
      BY <1>6 DEF WorkerStartsPrefetch, QueuePrefetch, JobInv, WorkerInv,
         SubmitInv, PollInv
    <2>3. SubmitInv'
      BY <1>6 DEF WorkerStartsPrefetch, QueuePrefetch, JobInv, WorkerInv,
         SubmitInv, PollInv
    <2>4. PollInv'
      BY <1>6 DEF WorkerStartsPrefetch, QueuePrefetch, JobInv, WorkerInv,
         SubmitInv, PollInv
    <2> QED
      BY <2>1, <2>2, <2>3, <2>4
  <1>7. CASE WorkerStoresError
    <2>1. JobInv'
      BY <1>7 DEF WorkerStoresError, JobInv, WorkerInv, SubmitInv, PollInv
    <2>2. WorkerInv'
      BY <1>7 DEF WorkerStoresError, JobInv, WorkerInv, SubmitInv, PollInv
    <2>3. SubmitInv'
      BY <1>7 DEF WorkerStoresError, JobInv, WorkerInv, SubmitInv, PollInv
    <2>4. PollInv'
      BY <1>7 DEF WorkerStoresError, JobInv, WorkerInv, SubmitInv, PollInv
    <2> QED
      BY <2>1, <2>2, <2>3, <2>4
  <1>8. CASE WorkerFinishes
    <2>1. JobInv'
      BY <1>8 DEF WorkerFinishes, FinalStatus, JobInv, WorkerInv, SubmitInv,
         PollInv
    <2>2. WorkerInv'
      BY <1>8 DEF WorkerFinishes, FinalStatus, JobInv, WorkerInv, SubmitInv,
         PollInv
    <2>3. SubmitInv'
      BY <1>8 DEF WorkerFinishes, FinalStatus, JobInv, WorkerInv, SubmitInv,
         PollInv
    <2>4. PollInv'
      BY <1>8 DEF WorkerFinishes, FinalStatus, JobInv, WorkerInv, SubmitInv,
         PollInv
    <2> QED
      BY <2>1, <2>2, <2>3, <2>4
  <1> QED
    BY <1>1, <1>2, <1>3, <1>4, <1>5, <1>6, <1>7, <1>8 DEF WorkerMove

OtherMove ==
  \/ PrefetchDropped
  \/ TaskAdvances
  \/ Quiescent

LEMMA OtherMoves ==
  ASSUME IInv, OtherMove
  PROVE  JobInv' /\ WorkerInv' /\ SubmitInv' /\ PollInv'
  <1> USE DEF IInv, TypeOK, Goto, Return, CheckReturns, jobVars, lockVars,
           restVars, keptVars, poolVars,
         taskVars, callVars, InSubmit, Preparing, Storing
  <1>1. CASE PrefetchDropped
    <2>1. JobInv'
      BY <1>1 DEF PrefetchDropped, JobInv, WorkerInv, SubmitInv, PollInv
    <2>2. WorkerInv'
      BY <1>1 DEF PrefetchDropped, JobInv, WorkerInv, SubmitInv, PollInv
    <2>3. SubmitInv'
      BY <1>1 DEF PrefetchDropped, JobInv, WorkerInv, SubmitInv, PollInv
    <2>4. PollInv'
      BY <1>1 DEF PrefetchDropped, JobInv, WorkerInv, SubmitInv, PollInv
    <2> QED
      BY <2>1, <2>2, <2>3, <2>4
  <1>2. CASE TaskAdvances
    <2>1. task # "NONE" /\ task' # "NONE"
      BY <1>2 DEF TaskAdvances, NextTaskStatus, TaskStatus
    <2>2. JobInv'
      BY <2>1, <1>2 DEF TaskAdvances, JobInv, WorkerInv, SubmitInv, PollInv
    <2>3. WorkerInv'
      BY <2>1, <1>2 DEF TaskAdvances, JobInv, WorkerInv, SubmitInv, PollInv
    <2>4. SubmitInv'
      BY <2>1, <1>2 DEF TaskAdvances, JobInv, WorkerInv, SubmitInv, PollInv
    <2>5. PollInv'
      BY <2>1, <1>2 DEF TaskAdvances, JobInv, WorkerInv, SubmitInv, PollInv
    <2> QED
      BY <2>1, <2>2, <2>3, <2>4, <2>5
  <1>3. CASE Quiescent
    <2>1. JobInv'
      BY <1>3 DEF Quiescent, vars, JobInv, WorkerInv, SubmitInv, PollInv
    <2>2. WorkerInv'
      BY <1>3 DEF Quiescent, vars, JobInv, WorkerInv, SubmitInv, PollInv
    <2>3. SubmitInv'
      BY <1>3 DEF Quiescent, vars, JobInv, WorkerInv, SubmitInv, PollInv
    <2>4. PollInv'
      BY <1>3 DEF Quiescent, vars, JobInv, WorkerInv, SubmitInv, PollInv
    <2> QED
      BY <2>1, <2>2, <2>3, <2>4
  <1> QED
    BY <1>1, <1>2, <1>3 DEF OtherMove

LEMMA NextInv == IInv /\ [Next]_vars => IInv'
  <1> SUFFICES ASSUME IInv, [Next]_vars PROVE IInv'
    OBVIOUS
  <1>1. CASE Next
    <2>1. TypeOK'
      BY <1>1, TypeStep
    <2>2. JobInv' /\ WorkerInv' /\ SubmitInv' /\ PollInv'
      <3>1. Prefetch \in Pollers /\ Clients \subseteq Pollers
        OBVIOUS
      <3>2. ASSUME NEW c \in Clients, Call(c) \/ ClientStep(c)
            PROVE  JobInv' /\ WorkerInv' /\ SubmitInv' /\ PollInv'
        <4>1. \/ QuietClient(c) \/ SubmitMove(c) \/ ClientMove(c)
              \/ CheckMove(c)
          BY <3>2 DEF QuietClient, SubmitMove, ClientMove, CheckMove, ClientStep,
             SubmitStep, CheckStep, CancelStep
        <4>2. CASE QuietClient(c)
          BY <3>1, <4>2, QuietClientSteps
        <4>3. CASE SubmitMove(c)
          BY <4>3, SubmitMoves
        <4>4. CASE ClientMove(c)
          BY <4>4, ClientMoves
        <4>5. CASE CheckMove(c)
          BY <3>1, <4>5, CheckMoves
        <4> QED
          BY <4>1, <4>2, <4>3, <4>4, <4>5
      <3>3. CASE WorkerStep
        BY <3>3, WorkerMoves DEF WorkerStep, WorkerMove
      <3>4. CASE PrefetchStep
        <4>1. \/ QuietClient(Prefetch) \/ QuietPrefetch \/ CheckMove(Prefetch)
              \/ OtherMove
          BY <3>4 DEF QuietClient, QuietPrefetch, CheckMove, OtherMove,
             PrefetchStep, CheckStep
        <4>2. CASE QuietClient(Prefetch) \/ QuietPrefetch
          BY <3>1, <4>2, QuietClientSteps, QuietPrefetchSteps
        <4>3. CASE CheckMove(Prefetch)
          BY <3>1, <4>3, CheckMoves
        <4>4. CASE OtherMove
          BY <4>4, OtherMoves
        <4> QED
          BY <4>1, <4>2, <4>3, <4>4
      <3>5. CASE TaskAdvances \/ Quiescent
        BY <3>5, OtherMoves DEF OtherMove
      <3> QED
        BY <1>1, <3>2, <3>3, <3>4, <3>5 DEF Next
    <2> QED
      BY <2>1, <2>2 DEF IInv
  <1>2. CASE UNCHANGED vars
    BY <1>2 DEF vars, jobVars, lockVars,
           restVars, keptVars, poolVars, taskVars, callVars, IInv,
       TypeOK, JobInv, WorkerInv, SubmitInv, PollInv, InSubmit
  <1> QED
    BY <1>1, <1>2

LEMMA Invariance == Spec => []IInv
  <1>1. Init => IInv
    BY InitInv
  <1>2. IInv /\ [Next]_vars => IInv'
    BY NextInv
  <1> QED
    BY <1>1, <1>2, PTL DEF Spec

(* Every variable keeps its type.                                          *)
THEOREM TypeCorrect == Spec => []TypeOK
  BY Invariance, PTL DEF IInv

(* However many clients submit, cancel and poll a job, it creates at most  *)
(* one QuantumTask.                                                        *)
THEOREM OneTask == Spec => []AtMostOneTask
  <1>1. IInv => AtMostOneTask
    BY DEF IInv, JobInv, AtMostOneTask
  <1> QED
    BY <1>1, Invariance, PTL

(* The task at Braket has the contents the job shows.                      *)
THEOREM TaskMatches == Spec => []TaskMatchesJob
  <1>1. IInv => TaskMatchesJob
    BY DEF IInv, JobInv, TaskMatchesJob
  <1> QED
    BY <1>1, Invariance, PTL

-----------------------------------------------------------------------------
(* Where a poller holds statusMutex_.                                      *)
Polling == {"checkArn", "checkNoArn", "checkExit", "checkPoll", "checkUpdate"}

(* The statuses a job may show whose task is in a given one.               *)
Reached == [k \in TaskStatus |->
  CASE k \in {"NONE", "CREATED"}         -> {"SUBMITTED"}
    [] k = "QUEUED"                      -> {"SUBMITTED", "QUEUED"}
    [] k \in {"RUNNING", "CANCELLING"}   -> Active
    [] OTHER                             -> Active \union {QdmiStatus[k]}]

(* The status of a job without a task ARN is settled by submit(), the      *)
(* worker and cancel() alone; one with an ARN only follows its task.       *)
StatusInv ==
  /\ ~taskArn => status \in {"CREATED", "SUBMITTED", "FAILED", "CANCELED"}
  /\ ~taskArn /\ status = "SUBMITTED" => submitting
  /\ ~taskArn /\ status = "CANCELED" => task = "NONE"
  /\ taskArn => status \in Reached[task]
  /\ ~submissionStarted /\ ~retrieved => task = "NONE"
  /\ jobHandle = "pending" /\ ~taskArn =>
       status \in IF submissionStarted THEN {"SUBMITTED"} ELSE {"SUBMITTED", "CANCELED"}
  /\ pc[Worker] # "idle" => submissionStarted
  /\ retrieved => taskArn
  /\ \A c \in Clients : pc[c] \in Storing => status \in {"CREATED", "SUBMITTED"}

(* A job that is submitted has programs, and a task has contents.          *)
ContentsInv ==
  /\ submitting \/ jobHandle # "none" \/ retrieved => programs \in Configs
  /\ task = "NONE" <=> taskConfig = NoPrograms

(* Polls exclude each other, and until a poll ends the task only moves on. *)
PollOrderInv ==
  \A t \in Pollers :
    /\ pc[t] \in Polling => statusMutex = t
    /\ pc[t] \in {"checkArn", "checkPoll", "checkUpdate"} /\ taskArn => status \notin Terminal
    /\ pc[t] = "checkUpdate" /\ seen[t] # "CANCELLING" =>
         seen[t] \in Reached[task] /\ Rank[status] <= Rank[seen[t]]

ErrorInv ==
  submissionError # "SUCCESS" => ~taskArn /\ (jobMutex = Nobody => status = "FAILED")

CancelLabels == {"idle", "cancel", "await", "awaitGet", "awaitError", "cancelState",
                 "cancelArn", "cancelRemote"}

CancelInv ==
  \A c \in Clients :
    /\ op[c] = "cancel" => pc[c] \in CancelLabels
    /\ op[c] = "cancel" /\ ret[c].code = "SUCCESS" =>
         \/ task = "NONE" /\ ~taskArn /\ status = "CANCELED"
         \/ task \notin Cancellable \union {"NONE"}
    /\ pc[c] \in {"cancelArn", "cancelRemote"} => taskArn

Freeing == {"free", "freeWait", "freeLock"}

FreeInv ==
  /\ pc[Prefetch] # "idle" => prefetchMutex = Prefetch
  /\ op[Prefetch] = "prefetch"
  /\ \A c \in Clients : pc[c] \in Freeing => life = "draining"
  /\ \A c \in Clients : pc[c] \in {"freeWait", "freeLock"} => stopPrefetch
  /\ \A c \in Clients : pc[c] = "freeLock" => jobHandle # "pending"
  /\ \A c, d \in Clients : pc[c] \in Freeing /\ pc[d] # "idle" => c = d
  /\ life = "draining" => \A c \in Clients : pc[c] \in Freeing \union {"idle"}
  /\ life = "freed" =>
       /\ \A c \in Clients : pc[c] = "idle"
       /\ stopPrefetch /\ jobHandle # "pending" /\ pc[Prefetch] = "idle"

SafetyInv ==
  /\ StatusInv /\ ContentsInv /\ PollOrderInv
  /\ ErrorInv /\ CancelInv /\ FreeInv

USE DeviceJobAssumption DEF Threads, Pollers

(* A job whose task moves on may show all it could show before.            *)
LEMMA ReachedGrows ==
  ASSUME NEW k \in TaskStatus, NEW l \in NextTaskStatus(k)
  PROVE  /\ k # "NONE" /\ l \in TaskStatus \ {"NONE"}
         /\ k \notin Cancellable \union {"NONE"} => l \notin Cancellable
         /\ Reached[k] \subseteq Reached[l]
  BY DEF NextTaskStatus, TaskStatus, Cancellable, Reached, Active

(* A cancel that Braket accepts takes no status from what a job may show.  *)
LEMMA ReachedByCancel ==
  ASSUME NEW k \in Cancellable
  PROVE  Reached[k] \subseteq Reached["CANCELLING"]
  BY DEF TaskStatus, Cancellable, Reached, Active

(* Whatever the worker finds, the job may still show SUBMITTED.            *)
LEMMA ReachedFirst ==
  ASSUME NEW k \in TaskStatus
  PROVE  "SUBMITTED" \in Reached[k]
  BY DEF Reached, Active

(* Braket's answer is the furthest of the statuses a job may show.         *)
LEMMA AnswerIsReached ==
  ASSUME NEW k \in TaskStatus, k # "NONE", QdmiStatus[k] # "CANCELLING"
  PROVE  /\ QdmiStatus[k] \in Reached[k]
         /\ \A s \in Reached[k] : Rank[s] <= Rank[QdmiStatus[k]]
  <1>1. /\ Rank["SUBMITTED"] = 1 /\ Rank["QUEUED"] = 2 /\ Rank["RUNNING"] = 3
        /\ \A s \in Terminal : Rank[s] = 4
    BY DEF Rank, Status, Terminal
  <1>2. QdmiStatus[k] \in Reached[k]
    BY DEF Reached, Active, QdmiStatus
  <1>3. CASE k \in {"CREATED", "QUEUED", "RUNNING"}
    BY <1>1, <1>2, <1>3 DEF Reached, Active, QdmiStatus
  <1>4. CASE k \in {"COMPLETED", "FAILED", "CANCELLED"}
    <2>1. QdmiStatus[k] \in Terminal
      BY <1>4 DEF QdmiStatus, Terminal
    <2>2. Reached[k] = Active \union {QdmiStatus[k]}
      BY <1>4 DEF Reached
    <2> QED
      BY <1>1, <1>2, <2>1, <2>2 DEF Active
  <1>5. k # "CANCELLING"
    BY DEF QdmiStatus
  <1> QED
    BY <1>3, <1>4, <1>5 DEF TaskStatus

(* Each step keeps the bounds of the status; the quiet ones touch nothing  *)
(* in it.                                                                  *)
LEMMA StatusKept == ASSUME IInv, SafetyInv, Next PROVE StatusInv'
  <1> USE DEF IInv, SafetyInv, TypeOK, StatusInv, Goto, Return, CheckReturns,
     jobVars, lockVars, restVars, keptVars, poolVars, taskVars, callVars
  <1>1. ASSUME NEW t \in Pollers, QuietClient(t) PROVE StatusInv'
    BY <1>1, QuietClientShape DEF Watched, QuietLabels
  <1>2. ASSUME QuietPrefetch PROVE StatusInv'
    BY <1>2, QuietPrefetchShape DEF Watched
  <1>3. ASSUME NEW c \in Clients, Configure(c) PROVE StatusInv'
    BY <1>3 DEF Configure, Configurable
  <1>4. ASSUME NEW c \in Clients, SubmitSnapshot(c) PROVE StatusInv'
    BY <1>4 DEF SubmitSnapshot, CanSubmit, Configurable
  <1>5. ASSUME NEW c \in Clients, SubmitPrepare(c) PROVE StatusInv'
    BY <1>5 DEF SubmitPrepare, Storing
  <1>6. ASSUME NEW c \in Clients, SubmitNoDestination(c) PROVE StatusInv'
    BY <1>6 DEF SubmitNoDestination, JobInv, SubmitInv, InSubmit, Preparing,
       Storing
  <1>7. ASSUME NEW c \in Clients, SubmitEnqueue(c) PROVE StatusInv'
    BY <1>7 DEF SubmitEnqueue, JobInv, SubmitInv, InSubmit, Preparing
  <1>8. ASSUME NEW c \in Clients, SubmitRejected(c) PROVE StatusInv'
    BY <1>8 DEF SubmitRejected, JobInv, SubmitInv, InSubmit, Preparing
  <1>9. ASSUME NEW c \in Clients, SubmitCatch(c) PROVE StatusInv'
    BY <1>9 DEF SubmitCatch, SubmitInv, InSubmit, Preparing
  <1>10. ASSUME NEW c \in Clients, SubmitStoreError(c) PROVE StatusInv'
    BY <1>10 DEF SubmitStoreError, Storing
  <1>11. ASSUME NEW c \in Clients, SubmitStoreFailed(c) PROVE StatusInv'
    BY <1>11 DEF SubmitStoreFailed, JobInv, SubmitInv, InSubmit, Storing
  <1>12. ASSUME NEW c \in Clients, CancelQueued(c) PROVE StatusInv'
    BY <1>12 DEF CancelQueued, Withdrawable, JobInv, SubmitInv, InSubmit,
       Storing
  <1>13. ASSUME NEW c \in Clients, CancelUnsubmitted(c) PROVE StatusInv'
    BY <1>13 DEF CancelUnsubmitted, JobInv, SubmitInv, InSubmit, Storing
  <1>14. ASSUME NEW c \in Clients, CancelRemote(c) PROVE StatusInv'
    BY <1>14, ReachedByCancel DEF CancelRemote, Cancellable, Storing
  <1>15. ASSUME NEW t \in Pollers, CheckLock(t) PROVE StatusInv'
    BY <1>15 DEF CheckLock, Storing
  <1>16. ASSUME NEW t \in Pollers, CheckArn(t) PROVE StatusInv'
    BY <1>16 DEF CheckArn, Storing
  <1>17. ASSUME NEW t \in Pollers, CheckNoArn(t) PROVE StatusInv'
    BY <1>17 DEF CheckNoArn, Storing
  <1>18. ASSUME NEW t \in Pollers, CheckExit(t) PROVE StatusInv'
    BY <1>18 DEF CheckExit, Storing
  <1>19. ASSUME NEW t \in Pollers, CheckPoll(t) PROVE StatusInv'
    BY <1>19, AnswerIsReached DEF CheckPoll, Storing
  <1>20. ASSUME NEW t \in Pollers, CheckUpdate(t) PROVE StatusInv'
    BY <1>20 DEF CheckUpdate, UpdatedStatus, SubmitInv, PollInv, PollOrderInv,
       InSubmit, Storing
  <1>21. ASSUME WorkerSkips PROVE StatusInv'
    BY <1>21 DEF WorkerSkips
  <1>22. ASSUME WorkerStarts PROVE StatusInv'
    BY <1>22 DEF WorkerStarts, Withdrawn
  <1>23. ASSUME WorkerCreates PROVE StatusInv'
    BY <1>23 DEF WorkerCreates, JobInv, WorkerInv
  <1>24. ASSUME WorkerRefused PROVE StatusInv'
    BY <1>24 DEF WorkerRefused
  <1>25. ASSUME WorkerRecords PROVE StatusInv'
    BY <1>25, ReachedFirst DEF WorkerRecords, WorkerInv
  <1>26. ASSUME WorkerStartsPrefetch PROVE StatusInv'
    BY <1>26 DEF WorkerStartsPrefetch
  <1>27. ASSUME WorkerStoresError PROVE StatusInv'
    BY <1>27 DEF WorkerStoresError
  <1>28. ASSUME WorkerFinishes PROVE StatusInv'
    BY <1>28 DEF WorkerFinishes, FinalStatus, WorkerInv, SubmitInv, InSubmit
  <1>29. ASSUME PrefetchDropped PROVE StatusInv'
    BY <1>29 DEF PrefetchDropped
  <1>30. ASSUME TaskAdvances PROVE StatusInv'
    BY <1>30, ReachedGrows DEF TaskAdvances
  <1>31. ASSUME Quiescent PROVE StatusInv'
    BY <1>31 DEF Quiescent, vars
  <1> QED
    BY <1>1, <1>2, <1>3, <1>4, <1>5, <1>6, <1>7, <1>8, <1>9, <1>10, <1>11,
       <1>12, <1>13, <1>14, <1>15, <1>16, <1>17, <1>18, <1>19, <1>20, <1>21,
       <1>22, <1>23, <1>24, <1>25, <1>26, <1>27, <1>28, <1>29, <1>30, <1>31 DEF
       Next, ClientStep, SubmitStep, CheckStep, CancelStep, WorkerStep,
       PrefetchStep, QuietClient, QuietPrefetch

(* Each step keeps that what is submitted, or sent, has contents.          *)
LEMMA ContentsKept == ASSUME IInv, SafetyInv, Next PROVE ContentsInv'
  <1> USE DEF IInv, SafetyInv, TypeOK, ContentsInv, Goto, Return, CheckReturns,
     jobVars, lockVars, restVars, keptVars, poolVars, taskVars, callVars
  <1>1. ASSUME NEW t \in Pollers, QuietClient(t) PROVE ContentsInv'
    BY <1>1, QuietClientShape DEF Watched
  <1>2. ASSUME QuietPrefetch PROVE ContentsInv'
    BY <1>2, QuietPrefetchShape DEF Watched
  <1>3. ASSUME NEW c \in Clients, Configure(c) PROVE ContentsInv'
    BY <1>3 DEF Configure
  <1>4. ASSUME NEW c \in Clients, SubmitSnapshot(c) PROVE ContentsInv'
    BY <1>4 DEF SubmitSnapshot, CanSubmit
  <1>5. ASSUME NEW c \in Clients, SubmitPrepare(c) PROVE ContentsInv'
    BY <1>5 DEF SubmitPrepare
  <1>6. ASSUME NEW c \in Clients, SubmitNoDestination(c) PROVE ContentsInv'
    BY <1>6 DEF SubmitNoDestination
  <1>7. ASSUME NEW c \in Clients, SubmitEnqueue(c) PROVE ContentsInv'
    BY <1>7 DEF SubmitEnqueue, SubmitInv, InSubmit, Preparing
  <1>8. ASSUME NEW c \in Clients, SubmitRejected(c) PROVE ContentsInv'
    BY <1>8 DEF SubmitRejected
  <1>9. ASSUME NEW c \in Clients, SubmitCatch(c) PROVE ContentsInv'
    BY <1>9 DEF SubmitCatch
  <1>10. ASSUME NEW c \in Clients, SubmitStoreError(c) PROVE ContentsInv'
    BY <1>10 DEF SubmitStoreError
  <1>11. ASSUME NEW c \in Clients, SubmitStoreFailed(c) PROVE ContentsInv'
    BY <1>11 DEF SubmitStoreFailed
  <1>12. ASSUME NEW c \in Clients, CancelQueued(c) PROVE ContentsInv'
    BY <1>12 DEF CancelQueued
  <1>13. ASSUME NEW c \in Clients, CancelUnsubmitted(c) PROVE ContentsInv'
    BY <1>13 DEF CancelUnsubmitted
  <1>14. ASSUME NEW c \in Clients, CancelRemote(c) PROVE ContentsInv'
    BY <1>14 DEF CancelRemote, Cancellable
  <1>15. ASSUME NEW t \in Pollers, CheckLock(t) PROVE ContentsInv'
    BY <1>15 DEF CheckLock
  <1>16. ASSUME NEW t \in Pollers, CheckArn(t) PROVE ContentsInv'
    BY <1>16 DEF CheckArn
  <1>17. ASSUME NEW t \in Pollers, CheckNoArn(t) PROVE ContentsInv'
    BY <1>17 DEF CheckNoArn
  <1>18. ASSUME NEW t \in Pollers, CheckExit(t) PROVE ContentsInv'
    BY <1>18 DEF CheckExit
  <1>19. ASSUME NEW t \in Pollers, CheckPoll(t) PROVE ContentsInv'
    BY <1>19 DEF CheckPoll
  <1>20. ASSUME NEW t \in Pollers, CheckUpdate(t) PROVE ContentsInv'
    BY <1>20 DEF CheckUpdate
  <1>21. ASSUME WorkerSkips PROVE ContentsInv'
    BY <1>21 DEF WorkerSkips
  <1>22. ASSUME WorkerStarts PROVE ContentsInv'
    BY <1>22 DEF WorkerStarts
  <1>23. ASSUME WorkerCreates PROVE ContentsInv'
    BY <1>23 DEF WorkerCreates, JobInv, WorkerInv
  <1>24. ASSUME WorkerRefused PROVE ContentsInv'
    BY <1>24 DEF WorkerRefused
  <1>25. ASSUME WorkerRecords PROVE ContentsInv'
    BY <1>25 DEF WorkerRecords
  <1>26. ASSUME WorkerStartsPrefetch PROVE ContentsInv'
    BY <1>26 DEF WorkerStartsPrefetch
  <1>27. ASSUME WorkerStoresError PROVE ContentsInv'
    BY <1>27 DEF WorkerStoresError
  <1>28. ASSUME WorkerFinishes PROVE ContentsInv'
    BY <1>28 DEF WorkerFinishes, WorkerInv
  <1>29. ASSUME PrefetchDropped PROVE ContentsInv'
    BY <1>29 DEF PrefetchDropped
  <1>30. ASSUME TaskAdvances PROVE ContentsInv'
    BY <1>30, ReachedGrows DEF TaskAdvances
  <1>31. ASSUME Quiescent PROVE ContentsInv'
    BY <1>31 DEF Quiescent, vars
  <1> QED
    BY <1>1, <1>2, <1>3, <1>4, <1>5, <1>6, <1>7, <1>8, <1>9, <1>10, <1>11,
       <1>12, <1>13, <1>14, <1>15, <1>16, <1>17, <1>18, <1>19, <1>20, <1>21,
       <1>22, <1>23, <1>24, <1>25, <1>26, <1>27, <1>28, <1>29, <1>30, <1>31 DEF
       Next, ClientStep, SubmitStep, CheckStep, CancelStep, WorkerStep,
       PrefetchStep, QuietClient, QuietPrefetch

(* Each step keeps that a submission which failed left no task ARN.        *)
LEMMA ErrorKept == ASSUME IInv, SafetyInv, Next PROVE ErrorInv'
  <1> USE DEF IInv, SafetyInv, TypeOK, ErrorInv, Goto, Return, CheckReturns,
     jobVars, lockVars, restVars, keptVars, poolVars, taskVars, callVars
  <1>1. ASSUME NEW t \in Pollers, QuietClient(t) PROVE ErrorInv'
    BY <1>1, QuietClientShape DEF Watched
  <1>2. ASSUME QuietPrefetch PROVE ErrorInv'
    BY <1>2, QuietPrefetchShape DEF Watched
  <1>3. ASSUME NEW c \in Clients, Configure(c) PROVE ErrorInv'
    BY <1>3 DEF Configure
  <1>4. ASSUME NEW c \in Clients, SubmitSnapshot(c) PROVE ErrorInv'
    BY <1>4 DEF SubmitSnapshot
  <1>5. ASSUME NEW c \in Clients, SubmitPrepare(c) PROVE ErrorInv'
    BY <1>5 DEF SubmitPrepare
  <1>6. ASSUME NEW c \in Clients, SubmitNoDestination(c) PROVE ErrorInv'
    BY <1>6 DEF SubmitNoDestination
  <1>7. ASSUME NEW c \in Clients, SubmitEnqueue(c) PROVE ErrorInv'
    BY <1>7 DEF SubmitEnqueue, SubmitInv, InSubmit, Preparing
  <1>8. ASSUME NEW c \in Clients, SubmitRejected(c) PROVE ErrorInv'
    BY <1>8 DEF SubmitRejected
  <1>9. ASSUME NEW c \in Clients, SubmitCatch(c) PROVE ErrorInv'
    BY <1>9 DEF SubmitCatch
  <1>10. ASSUME NEW c \in Clients, SubmitStoreError(c) PROVE ErrorInv'
    BY <1>10 DEF SubmitStoreError, JobInv, SubmitInv, InSubmit, Storing
  <1>11. ASSUME NEW c \in Clients, SubmitStoreFailed(c) PROVE ErrorInv'
    BY <1>11 DEF SubmitStoreFailed
  <1>12. ASSUME NEW c \in Clients, CancelQueued(c) PROVE ErrorInv'
    BY <1>12 DEF CancelQueued, Withdrawable
  <1>13. ASSUME NEW c \in Clients, CancelUnsubmitted(c) PROVE ErrorInv'
    BY <1>13 DEF CancelUnsubmitted
  <1>14. ASSUME NEW c \in Clients, CancelRemote(c) PROVE ErrorInv'
    BY <1>14 DEF CancelRemote
  <1>15. ASSUME NEW t \in Pollers, CheckLock(t) PROVE ErrorInv'
    BY <1>15 DEF CheckLock
  <1>16. ASSUME NEW t \in Pollers, CheckArn(t) PROVE ErrorInv'
    BY <1>16 DEF CheckArn
  <1>17. ASSUME NEW t \in Pollers, CheckNoArn(t) PROVE ErrorInv'
    BY <1>17 DEF CheckNoArn
  <1>18. ASSUME NEW t \in Pollers, CheckExit(t) PROVE ErrorInv'
    BY <1>18 DEF CheckExit
  <1>19. ASSUME NEW t \in Pollers, CheckPoll(t) PROVE ErrorInv'
    BY <1>19 DEF CheckPoll
  <1>20. ASSUME NEW t \in Pollers, CheckUpdate(t) PROVE ErrorInv'
    BY <1>20 DEF CheckUpdate, PollInv
  <1>21. ASSUME WorkerSkips PROVE ErrorInv'
    BY <1>21 DEF WorkerSkips
  <1>22. ASSUME WorkerStarts PROVE ErrorInv'
    BY <1>22 DEF WorkerStarts
  <1>23. ASSUME WorkerCreates PROVE ErrorInv'
    BY <1>23 DEF WorkerCreates
  <1>24. ASSUME WorkerRefused PROVE ErrorInv'
    BY <1>24 DEF WorkerRefused
  <1>25. ASSUME WorkerRecords PROVE ErrorInv'
    BY <1>25 DEF WorkerRecords, WorkerInv, StatusInv
  <1>26. ASSUME WorkerStartsPrefetch PROVE ErrorInv'
    BY <1>26 DEF WorkerStartsPrefetch
  <1>27. ASSUME WorkerStoresError PROVE ErrorInv'
    BY <1>27 DEF WorkerStoresError
  <1>28. ASSUME WorkerFinishes PROVE ErrorInv'
    BY <1>28 DEF WorkerFinishes, FinalStatus
  <1>29. ASSUME PrefetchDropped PROVE ErrorInv'
    BY <1>29 DEF PrefetchDropped
  <1>30. ASSUME TaskAdvances PROVE ErrorInv'
    BY <1>30 DEF TaskAdvances
  <1>31. ASSUME Quiescent PROVE ErrorInv'
    BY <1>31 DEF Quiescent, vars
  <1> QED
    BY <1>1, <1>2, <1>3, <1>4, <1>5, <1>6, <1>7, <1>8, <1>9, <1>10, <1>11,
       <1>12, <1>13, <1>14, <1>15, <1>16, <1>17, <1>18, <1>19, <1>20, <1>21,
       <1>22, <1>23, <1>24, <1>25, <1>26, <1>27, <1>28, <1>29, <1>30, <1>31 DEF
       Next, ClientStep, SubmitStep, CheckStep, CancelStep, WorkerStep,
       PrefetchStep, QuietClient, QuietPrefetch

(* Each step keeps the order of the polls and of their answers.            *)
LEMMA PollOrderKept == ASSUME IInv, SafetyInv, Next PROVE PollOrderInv'
  <1> USE DEF IInv, SafetyInv, TypeOK, PollOrderInv, Goto, Return,
     CheckReturns, jobVars, lockVars, restVars, keptVars, poolVars, taskVars,
     callVars
  <1>1. ASSUME NEW c \in Clients, Call(c) PROVE PollOrderInv'
    BY <1>1 DEF Call, AllOps, Polling
  <1>2. ASSUME NEW c \in Clients, Configure(c) PROVE PollOrderInv'
    BY <1>2 DEF Configure, Polling
  <1>3. ASSUME NEW c \in Clients, ConfigureRefused(c) PROVE PollOrderInv'
    BY <1>3 DEF ConfigureRefused, Polling
  <1>4. ASSUME NEW c \in Clients, SubmitRefused(c) PROVE PollOrderInv'
    BY <1>4 DEF SubmitRefused, Polling
  <1>5. ASSUME NEW c \in Clients, SubmitSnapshot(c) PROVE PollOrderInv'
    BY <1>5 DEF SubmitSnapshot, Polling
  <1>6. ASSUME NEW c \in Clients, SubmitPrepare(c) PROVE PollOrderInv'
    BY <1>6 DEF SubmitPrepare, Polling
  <1>7. ASSUME NEW c \in Clients, SubmitNoDestination(c) PROVE PollOrderInv'
    BY <1>7 DEF SubmitNoDestination, JobInv, SubmitInv, PollInv, InSubmit,
       Preparing, Polling
  <1>8. ASSUME NEW c \in Clients, SubmitEnqueue(c) PROVE PollOrderInv'
    BY <1>8 DEF SubmitEnqueue, JobInv, SubmitInv, PollInv, InSubmit, Preparing,
       Polling
  <1>9. ASSUME NEW c \in Clients, SubmitRejected(c) PROVE PollOrderInv'
    BY <1>9 DEF SubmitRejected, JobInv, SubmitInv, PollInv, InSubmit, Preparing,
       Polling
  <1>10. ASSUME NEW c \in Clients, SubmitCatch(c) PROVE PollOrderInv'
    BY <1>10 DEF SubmitCatch, Polling
  <1>11. ASSUME NEW c \in Clients, SubmitStoreError(c) PROVE PollOrderInv'
    BY <1>11 DEF SubmitStoreError, Polling
  <1>12. ASSUME NEW c \in Clients, SubmitStoreFailed(c) PROVE PollOrderInv'
    BY <1>12 DEF SubmitStoreFailed, JobInv, SubmitInv, PollInv, InSubmit,
       Storing, Polling
  <1>13. ASSUME NEW c \in Clients, WaitBegins(c) PROVE PollOrderInv'
    BY <1>13 DEF WaitBegins, Polling
  <1>14. ASSUME NEW c \in Clients, WaitError(c) PROVE PollOrderInv'
    BY <1>14 DEF WaitError, Polling
  <1>15. ASSUME NEW c \in Clients, WaitChecked(c) PROVE PollOrderInv'
    BY <1>15 DEF WaitChecked, Polling
  <1>16. ASSUME NEW c \in Clients, CancelQueued(c) PROVE PollOrderInv'
    BY <1>16 DEF CancelQueued, Withdrawable, JobInv, PollInv, StatusInv,
       Polling
  <1>17. ASSUME NEW c \in Clients, CancelNotQueued(c) PROVE PollOrderInv'
    BY <1>17 DEF CancelNotQueued, Polling
  <1>18. ASSUME NEW c \in Clients, Await(c) PROVE PollOrderInv'
    BY <1>18 DEF Await, Polling
  <1>19. ASSUME NEW c \in Clients, AwaitGet(c) PROVE PollOrderInv'
    BY <1>19 DEF AwaitGet, Polling
  <1>20. ASSUME NEW c \in Clients, AwaitError(c) PROVE PollOrderInv'
    BY <1>20 DEF AwaitError, Polling
  <1>21. ASSUME NEW c \in Clients, CancelUnsubmitted(c) PROVE PollOrderInv'
    BY <1>21 DEF CancelUnsubmitted, JobInv, PollInv, Polling
  <1>22. ASSUME NEW c \in Clients, CancelState(c) PROVE PollOrderInv'
    BY <1>22 DEF CancelState, Polling
  <1>23. ASSUME NEW c \in Clients, CancelArn(c) PROVE PollOrderInv'
    BY <1>23 DEF CancelArn, Polling
  <1>24. ASSUME NEW c \in Clients, CancelRemote(c) PROVE PollOrderInv'
    BY <1>24, ReachedByCancel DEF CancelRemote, Polling
  <1>25. ASSUME NEW c \in Clients, CancelRemoteFails(c) PROVE PollOrderInv'
    BY <1>25 DEF CancelRemoteFails, Polling
  <1>26. ASSUME NEW c \in Clients, FreeStops(c) PROVE PollOrderInv'
    BY <1>26 DEF FreeStops, Polling
  <1>27. ASSUME NEW c \in Clients, FreeWaits(c) PROVE PollOrderInv'
    BY <1>27 DEF FreeWaits, Polling
  <1>28. ASSUME NEW c \in Clients, FreeLocks(c) PROVE PollOrderInv'
    BY <1>28 DEF FreeLocks, Polling
  <1>29. ASSUME NEW t \in Pollers, CheckError(t) PROVE PollOrderInv'
    BY <1>29 DEF CheckError, Polling
  <1>30. ASSUME NEW t \in Pollers, CheckFailed(t) PROVE PollOrderInv'
    BY <1>30 DEF CheckFailed, Polling
  <1>31. ASSUME NEW t \in Pollers, CheckLock(t) PROVE PollOrderInv'
    BY <1>31 DEF CheckLock, PollAllowed
  <1>32. ASSUME NEW t \in Pollers, CheckArn(t) PROVE PollOrderInv'
    BY <1>32 DEF CheckArn, Polling
  <1>33. ASSUME NEW t \in Pollers, CheckNoArn(t) PROVE PollOrderInv'
    BY <1>33 DEF CheckNoArn, Polling
  <1>34. ASSUME NEW t \in Pollers, CheckExit(t) PROVE PollOrderInv'
    BY <1>34 DEF CheckExit, Polling
  <1>35. ASSUME NEW t \in Pollers, CheckPoll(t) PROVE PollOrderInv'
    BY <1>35, AnswerIsReached DEF CheckPoll, JobInv, PollInv, StatusInv,
       Polling
  <1>36. ASSUME NEW t \in Pollers, CheckPollFails(t) PROVE PollOrderInv'
    BY <1>36 DEF CheckPollFails, Polling
  <1>37. ASSUME NEW t \in Pollers, CheckUpdate(t) PROVE PollOrderInv'
    BY <1>37 DEF CheckUpdate, Polling
  <1>38. ASSUME WorkerSkips PROVE PollOrderInv'
    BY <1>38 DEF WorkerSkips
  <1>39. ASSUME WorkerStarts PROVE PollOrderInv'
    BY <1>39 DEF WorkerStarts
  <1>40. ASSUME WorkerCreates PROVE PollOrderInv'
    BY <1>40 DEF WorkerCreates, JobInv, WorkerInv, PollInv
  <1>41. ASSUME WorkerRefused PROVE PollOrderInv'
    BY <1>41 DEF WorkerRefused
  <1>42. ASSUME WorkerRecords PROVE PollOrderInv'
    BY <1>42, ReachedFirst DEF WorkerRecords, WorkerInv, StatusInv, Terminal
  <1>43. ASSUME WorkerStartsPrefetch PROVE PollOrderInv'
    BY <1>43 DEF WorkerStartsPrefetch
  <1>44. ASSUME WorkerStoresError PROVE PollOrderInv'
    BY <1>44 DEF WorkerStoresError
  <1>45. ASSUME WorkerFinishes PROVE PollOrderInv'
    BY <1>45 DEF WorkerFinishes, FinalStatus, PollInv
  <1>46. ASSUME PrefetchStarts PROVE PollOrderInv'
    BY <1>46 DEF PrefetchStarts, Polling
  <1>47. ASSUME PrefetchDropped PROVE PollOrderInv'
    BY <1>47 DEF PrefetchDropped
  <1>48. ASSUME PrefetchChecked PROVE PollOrderInv'
    BY <1>48 DEF PrefetchChecked, PrefetchEnds, Polling
  <1>49. ASSUME PrefetchFetches PROVE PollOrderInv'
    BY <1>49 DEF PrefetchFetches, PrefetchEnds, Polling
  <1>50. ASSUME PrefetchRequeues PROVE PollOrderInv'
    BY <1>50 DEF PrefetchRequeues, PrefetchEnds, Polling
  <1>51. ASSUME TaskAdvances PROVE PollOrderInv'
    BY <1>51, ReachedGrows DEF TaskAdvances
  <1>52. ASSUME Quiescent PROVE PollOrderInv'
    BY <1>52 DEF Quiescent, vars
  <1> QED
    BY <1>1, <1>2, <1>3, <1>4, <1>5, <1>6, <1>7, <1>8, <1>9, <1>10, <1>11,
       <1>12, <1>13, <1>14, <1>15, <1>16, <1>17, <1>18, <1>19, <1>20, <1>21,
       <1>22, <1>23, <1>24, <1>25, <1>26, <1>27, <1>28, <1>29, <1>30, <1>31,
       <1>32, <1>33, <1>34, <1>35, <1>36, <1>37, <1>38, <1>39, <1>40, <1>41,
       <1>42, <1>43, <1>44, <1>45, <1>46, <1>47, <1>48, <1>49, <1>50, <1>51,
       <1>52 DEF Next, ClientStep, SubmitStep, CheckStep, CancelStep,
       WorkerStep, PrefetchStep

(* Each step keeps what a cancel that succeeded has achieved.              *)
LEMMA CancelKept == ASSUME IInv, SafetyInv, Next PROVE CancelInv'
  <1> USE DEF IInv, SafetyInv, TypeOK, CancelInv, Goto, Return, CheckReturns,
     jobVars, lockVars, restVars, keptVars, poolVars, taskVars, callVars
  <1>1. ASSUME NEW c \in Clients, Call(c) PROVE CancelInv'
    BY <1>1 DEF Call, AllOps, CancelLabels, NoResult
  <1>2. ASSUME NEW c \in Clients, Configure(c) PROVE CancelInv'
    BY <1>2 DEF Configure, CancelLabels
  <1>3. ASSUME NEW c \in Clients, ConfigureRefused(c) PROVE CancelInv'
    BY <1>3 DEF ConfigureRefused, CancelLabels
  <1>4. ASSUME NEW c \in Clients, SubmitRefused(c) PROVE CancelInv'
    BY <1>4 DEF SubmitRefused, CancelLabels
  <1>5. ASSUME NEW c \in Clients, SubmitSnapshot(c) PROVE CancelInv'
    BY <1>5 DEF SubmitSnapshot, CancelLabels
  <1>6. ASSUME NEW c \in Clients, SubmitPrepare(c) PROVE CancelInv'
    BY <1>6 DEF SubmitPrepare, CancelLabels
  <1>7. ASSUME NEW c \in Clients, SubmitNoDestination(c) PROVE CancelInv'
    BY <1>7 DEF SubmitNoDestination, SubmitInv, InSubmit, Preparing,
       CancelLabels
  <1>8. ASSUME NEW c \in Clients, SubmitEnqueue(c) PROVE CancelInv'
    BY <1>8 DEF SubmitEnqueue, SubmitInv, InSubmit, Preparing, CancelLabels
  <1>9. ASSUME NEW c \in Clients, SubmitRejected(c) PROVE CancelInv'
    BY <1>9 DEF SubmitRejected, SubmitInv, InSubmit, Preparing, CancelLabels
  <1>10. ASSUME NEW c \in Clients, SubmitCatch(c) PROVE CancelInv'
    BY <1>10 DEF SubmitCatch, CancelLabels
  <1>11. ASSUME NEW c \in Clients, SubmitStoreError(c) PROVE CancelInv'
    BY <1>11 DEF SubmitStoreError, CancelLabels
  <1>12. ASSUME NEW c \in Clients, SubmitStoreFailed(c) PROVE CancelInv'
    BY <1>12 DEF SubmitStoreFailed, StatusInv, Storing, CancelLabels
  <1>13. ASSUME NEW c \in Clients, WaitBegins(c) PROVE CancelInv'
    BY <1>13 DEF WaitBegins, CancelLabels
  <1>14. ASSUME NEW c \in Clients, WaitError(c) PROVE CancelInv'
    BY <1>14 DEF WaitError, CancelLabels
  <1>15. ASSUME NEW c \in Clients, WaitChecked(c) PROVE CancelInv'
    BY <1>15 DEF WaitChecked, CancelLabels
  <1>16. ASSUME NEW c \in Clients, CancelQueued(c) PROVE CancelInv'
    BY <1>16 DEF CancelQueued, Withdrawable, JobInv, StatusInv, CancelLabels
  <1>17. ASSUME NEW c \in Clients, CancelNotQueued(c) PROVE CancelInv'
    BY <1>17 DEF CancelNotQueued, CancelLabels
  <1>18. ASSUME NEW c \in Clients, Await(c) PROVE CancelInv'
    BY <1>18 DEF Await, CancelLabels
  <1>19. ASSUME NEW c \in Clients, AwaitGet(c) PROVE CancelInv'
    BY <1>19 DEF AwaitGet, CancelLabels
  <1>20. ASSUME NEW c \in Clients, AwaitError(c) PROVE CancelInv'
    BY <1>20 DEF AwaitError, CancelLabels
  <1>21. ASSUME NEW c \in Clients, CancelUnsubmitted(c) PROVE CancelInv'
    BY <1>21 DEF CancelUnsubmitted, JobInv, CancelLabels
  <1>22. ASSUME NEW c \in Clients, CancelState(c) PROVE CancelInv'
    BY <1>22 DEF CancelState, StatusInv, CancelLabels, Active
  <1>23. ASSUME NEW c \in Clients, CancelArn(c) PROVE CancelInv'
    BY <1>23 DEF CancelArn, CancelLabels
  <1>24. ASSUME NEW c \in Clients, CancelRemote(c) PROVE CancelInv'
    BY <1>24 DEF CancelRemote, Cancellable, CancelLabels
  <1>25. ASSUME NEW c \in Clients, CancelRemoteFails(c) PROVE CancelInv'
    BY <1>25 DEF CancelRemoteFails, CancelLabels
  <1>26. ASSUME NEW c \in Clients, FreeStops(c) PROVE CancelInv'
    BY <1>26 DEF FreeStops, CancelLabels
  <1>27. ASSUME NEW c \in Clients, FreeWaits(c) PROVE CancelInv'
    BY <1>27 DEF FreeWaits, CancelLabels
  <1>28. ASSUME NEW c \in Clients, FreeLocks(c) PROVE CancelInv'
    BY <1>28 DEF FreeLocks, CancelLabels
  <1>29. ASSUME NEW t \in Pollers, CheckError(t) PROVE CancelInv'
    BY <1>29 DEF CheckError, CancelLabels
  <1>30. ASSUME NEW t \in Pollers, CheckFailed(t) PROVE CancelInv'
    BY <1>30 DEF CheckFailed, CancelLabels
  <1>31. ASSUME NEW t \in Pollers, CheckLock(t) PROVE CancelInv'
    BY <1>31 DEF CheckLock, CancelLabels
  <1>32. ASSUME NEW t \in Pollers, CheckArn(t) PROVE CancelInv'
    BY <1>32 DEF CheckArn, CancelLabels
  <1>33. ASSUME NEW t \in Pollers, CheckNoArn(t) PROVE CancelInv'
    BY <1>33 DEF CheckNoArn, CancelLabels
  <1>34. ASSUME NEW t \in Pollers, CheckExit(t) PROVE CancelInv'
    BY <1>34 DEF CheckExit, CancelLabels
  <1>35. ASSUME NEW t \in Pollers, CheckPoll(t) PROVE CancelInv'
    BY <1>35 DEF CheckPoll, CancelLabels
  <1>36. ASSUME NEW t \in Pollers, CheckPollFails(t) PROVE CancelInv'
    BY <1>36 DEF CheckPollFails, CancelLabels
  <1>37. ASSUME NEW t \in Pollers, CheckUpdate(t) PROVE CancelInv'
    BY <1>37 DEF CheckUpdate, PollInv, CancelLabels
  <1>38. ASSUME WorkerSkips PROVE CancelInv'
    BY <1>38 DEF WorkerSkips
  <1>39. ASSUME WorkerStarts PROVE CancelInv'
    BY <1>39 DEF WorkerStarts
  <1>40. ASSUME WorkerCreates PROVE CancelInv'
    BY <1>40 DEF WorkerCreates, WorkerInv, StatusInv
  <1>41. ASSUME WorkerRefused PROVE CancelInv'
    BY <1>41 DEF WorkerRefused
  <1>42. ASSUME WorkerRecords PROVE CancelInv'
    BY <1>42 DEF WorkerRecords, WorkerInv
  <1>43. ASSUME WorkerStartsPrefetch PROVE CancelInv'
    BY <1>43 DEF WorkerStartsPrefetch
  <1>44. ASSUME WorkerStoresError PROVE CancelInv'
    BY <1>44 DEF WorkerStoresError
  <1>45. ASSUME WorkerFinishes PROVE CancelInv'
    BY <1>45 DEF WorkerFinishes, WorkerInv, StatusInv
  <1>46. ASSUME PrefetchStarts PROVE CancelInv'
    BY <1>46 DEF PrefetchStarts
  <1>47. ASSUME PrefetchDropped PROVE CancelInv'
    BY <1>47 DEF PrefetchDropped
  <1>48. ASSUME PrefetchChecked PROVE CancelInv'
    BY <1>48 DEF PrefetchChecked, PrefetchEnds
  <1>49. ASSUME PrefetchFetches PROVE CancelInv'
    BY <1>49 DEF PrefetchFetches, PrefetchEnds
  <1>50. ASSUME PrefetchRequeues PROVE CancelInv'
    BY <1>50 DEF PrefetchRequeues, PrefetchEnds
  <1>51. ASSUME TaskAdvances PROVE CancelInv'
    BY <1>51, ReachedGrows DEF TaskAdvances
  <1>52. ASSUME Quiescent PROVE CancelInv'
    BY <1>52 DEF Quiescent, vars
  <1> QED
    BY <1>1, <1>2, <1>3, <1>4, <1>5, <1>6, <1>7, <1>8, <1>9, <1>10, <1>11,
       <1>12, <1>13, <1>14, <1>15, <1>16, <1>17, <1>18, <1>19, <1>20, <1>21,
       <1>22, <1>23, <1>24, <1>25, <1>26, <1>27, <1>28, <1>29, <1>30, <1>31,
       <1>32, <1>33, <1>34, <1>35, <1>36, <1>37, <1>38, <1>39, <1>40, <1>41,
       <1>42, <1>43, <1>44, <1>45, <1>46, <1>47, <1>48, <1>49, <1>50, <1>51,
       <1>52 DEF Next, ClientStep, SubmitStep, CheckStep, CancelStep,
       WorkerStep, PrefetchStep

(* Each step keeps what the destructor waited for.                         *)
LEMMA FreeKept == ASSUME IInv, SafetyInv, Next PROVE FreeInv'
  <1> USE DEF IInv, SafetyInv, TypeOK, FreeInv, Goto, Return, CheckReturns,
     jobVars, lockVars, restVars, keptVars, poolVars, taskVars, callVars
  <1>1. ASSUME NEW c \in Clients, Call(c) PROVE FreeInv'
    BY <1>1 DEF Call, AllOps, Freeing
  <1>2. ASSUME NEW c \in Clients, Configure(c) PROVE FreeInv'
    BY <1>2 DEF Configure, Freeing
  <1>3. ASSUME NEW c \in Clients, ConfigureRefused(c) PROVE FreeInv'
    BY <1>3 DEF ConfigureRefused, Freeing
  <1>4. ASSUME NEW c \in Clients, SubmitRefused(c) PROVE FreeInv'
    BY <1>4 DEF SubmitRefused, Freeing
  <1>5. ASSUME NEW c \in Clients, SubmitSnapshot(c) PROVE FreeInv'
    BY <1>5 DEF SubmitSnapshot, Freeing
  <1>6. ASSUME NEW c \in Clients, SubmitPrepare(c) PROVE FreeInv'
    BY <1>6 DEF SubmitPrepare, Freeing
  <1>7. ASSUME NEW c \in Clients, SubmitNoDestination(c) PROVE FreeInv'
    BY <1>7 DEF SubmitNoDestination, Freeing
  <1>8. ASSUME NEW c \in Clients, SubmitEnqueue(c) PROVE FreeInv'
    BY <1>8 DEF SubmitEnqueue, Freeing
  <1>9. ASSUME NEW c \in Clients, SubmitRejected(c) PROVE FreeInv'
    BY <1>9 DEF SubmitRejected, Freeing
  <1>10. ASSUME NEW c \in Clients, SubmitCatch(c) PROVE FreeInv'
    BY <1>10 DEF SubmitCatch, Freeing
  <1>11. ASSUME NEW c \in Clients, SubmitStoreError(c) PROVE FreeInv'
    BY <1>11 DEF SubmitStoreError, Freeing
  <1>12. ASSUME NEW c \in Clients, SubmitStoreFailed(c) PROVE FreeInv'
    BY <1>12 DEF SubmitStoreFailed, Freeing
  <1>13. ASSUME NEW c \in Clients, WaitBegins(c) PROVE FreeInv'
    BY <1>13 DEF WaitBegins, Freeing
  <1>14. ASSUME NEW c \in Clients, WaitError(c) PROVE FreeInv'
    BY <1>14 DEF WaitError, Freeing
  <1>15. ASSUME NEW c \in Clients, WaitChecked(c) PROVE FreeInv'
    BY <1>15 DEF WaitChecked, Freeing
  <1>16. ASSUME NEW c \in Clients, CancelQueued(c) PROVE FreeInv'
    BY <1>16 DEF CancelQueued, Freeing
  <1>17. ASSUME NEW c \in Clients, CancelNotQueued(c) PROVE FreeInv'
    BY <1>17 DEF CancelNotQueued, Freeing
  <1>18. ASSUME NEW c \in Clients, Await(c) PROVE FreeInv'
    BY <1>18 DEF Await, Freeing
  <1>19. ASSUME NEW c \in Clients, AwaitGet(c) PROVE FreeInv'
    BY <1>19 DEF AwaitGet, Freeing
  <1>20. ASSUME NEW c \in Clients, AwaitError(c) PROVE FreeInv'
    BY <1>20 DEF AwaitError, Freeing
  <1>21. ASSUME NEW c \in Clients, CancelUnsubmitted(c) PROVE FreeInv'
    BY <1>21 DEF CancelUnsubmitted, Freeing
  <1>22. ASSUME NEW c \in Clients, CancelState(c) PROVE FreeInv'
    BY <1>22 DEF CancelState, Freeing
  <1>23. ASSUME NEW c \in Clients, CancelArn(c) PROVE FreeInv'
    BY <1>23 DEF CancelArn, Freeing
  <1>24. ASSUME NEW c \in Clients, CancelRemote(c) PROVE FreeInv'
    BY <1>24 DEF CancelRemote, Freeing
  <1>25. ASSUME NEW c \in Clients, CancelRemoteFails(c) PROVE FreeInv'
    BY <1>25 DEF CancelRemoteFails, Freeing
  <1>26. ASSUME NEW c \in Clients, FreeStops(c) PROVE FreeInv'
    BY <1>26 DEF FreeStops, RequestStop, Freeing
  <1>27. ASSUME NEW c \in Clients, FreeWaits(c) PROVE FreeInv'
    BY <1>27 DEF FreeWaits, SubmissionDrained, Freeing
  <1>28. ASSUME NEW c \in Clients, FreeLocks(c) PROVE FreeInv'
    BY <1>28 DEF FreeLocks, Freeing
  <1>29. ASSUME NEW t \in Pollers, CheckError(t) PROVE FreeInv'
    BY <1>29 DEF CheckError, Freeing
  <1>30. ASSUME NEW t \in Pollers, CheckFailed(t) PROVE FreeInv'
    BY <1>30 DEF CheckFailed, Freeing
  <1>31. ASSUME NEW t \in Pollers, CheckLock(t) PROVE FreeInv'
    BY <1>31 DEF CheckLock, Freeing
  <1>32. ASSUME NEW t \in Pollers, CheckArn(t) PROVE FreeInv'
    BY <1>32 DEF CheckArn, Freeing
  <1>33. ASSUME NEW t \in Pollers, CheckNoArn(t) PROVE FreeInv'
    BY <1>33 DEF CheckNoArn, Freeing
  <1>34. ASSUME NEW t \in Pollers, CheckExit(t) PROVE FreeInv'
    BY <1>34 DEF CheckExit, Freeing
  <1>35. ASSUME NEW t \in Pollers, CheckPoll(t) PROVE FreeInv'
    BY <1>35 DEF CheckPoll, Freeing
  <1>36. ASSUME NEW t \in Pollers, CheckPollFails(t) PROVE FreeInv'
    BY <1>36 DEF CheckPollFails, Freeing
  <1>37. ASSUME NEW t \in Pollers, CheckUpdate(t) PROVE FreeInv'
    BY <1>37 DEF CheckUpdate, Freeing
  <1>38. ASSUME WorkerSkips PROVE FreeInv'
    BY <1>38 DEF WorkerSkips
  <1>39. ASSUME WorkerStarts PROVE FreeInv'
    BY <1>39 DEF WorkerStarts
  <1>40. ASSUME WorkerCreates PROVE FreeInv'
    BY <1>40 DEF WorkerCreates
  <1>41. ASSUME WorkerRefused PROVE FreeInv'
    BY <1>41 DEF WorkerRefused
  <1>42. ASSUME WorkerRecords PROVE FreeInv'
    BY <1>42 DEF WorkerRecords
  <1>43. ASSUME WorkerStartsPrefetch PROVE FreeInv'
    BY <1>43 DEF WorkerStartsPrefetch
  <1>44. ASSUME WorkerStoresError PROVE FreeInv'
    BY <1>44 DEF WorkerStoresError
  <1>45. ASSUME WorkerFinishes PROVE FreeInv'
    BY <1>45 DEF WorkerFinishes
  <1>46. ASSUME PrefetchStarts PROVE FreeInv'
    BY <1>46 DEF PrefetchStarts
  <1>47. ASSUME PrefetchDropped PROVE FreeInv'
    BY <1>47 DEF PrefetchDropped
  <1>48. ASSUME PrefetchChecked PROVE FreeInv'
    BY <1>48 DEF PrefetchChecked, PrefetchEnds
  <1>49. ASSUME PrefetchFetches PROVE FreeInv'
    BY <1>49 DEF PrefetchFetches, PrefetchEnds
  <1>50. ASSUME PrefetchRequeues PROVE FreeInv'
    BY <1>50 DEF PrefetchRequeues, PrefetchEnds
  <1>51. ASSUME TaskAdvances PROVE FreeInv'
    BY <1>51 DEF TaskAdvances
  <1>52. ASSUME Quiescent PROVE FreeInv'
    BY <1>52 DEF Quiescent, vars
  <1> QED
    BY <1>1, <1>2, <1>3, <1>4, <1>5, <1>6, <1>7, <1>8, <1>9, <1>10, <1>11,
       <1>12, <1>13, <1>14, <1>15, <1>16, <1>17, <1>18, <1>19, <1>20, <1>21,
       <1>22, <1>23, <1>24, <1>25, <1>26, <1>27, <1>28, <1>29, <1>30, <1>31,
       <1>32, <1>33, <1>34, <1>35, <1>36, <1>37, <1>38, <1>39, <1>40, <1>41,
       <1>42, <1>43, <1>44, <1>45, <1>46, <1>47, <1>48, <1>49, <1>50, <1>51,
       <1>52 DEF Next, ClientStep, SubmitStep, CheckStep, CancelStep,
       WorkerStep, PrefetchStep

(* A job just created, or retrieved with its task, satisfies all of it.    *)
LEMMA SafetyInit == Init => SafetyInv
  <1> SUFFICES ASSUME Init PROVE SafetyInv
    OBVIOUS
  <1>1. /\ taskArn = retrieved /\ ~submitting /\ ~submissionStarted
        /\ submissionError = "SUCCESS" /\ jobHandle = "none" /\ life = "live"
        /\ \A t \in Threads : pc[t] = "idle"
        /\ \A c \in Clients : op[c] = "check"
        /\ op[Prefetch] = "prefetch"
    BY DEF Init
  <1>2. /\ retrieved \in BOOLEAN
        /\ ~retrieved => /\ status = "CREATED" /\ task = "NONE"
                         /\ taskConfig = NoPrograms
        /\ retrieved => /\ programs \in Configs /\ taskConfig = programs
                        /\ task \in TaskStatus \ {"NONE"}
    BY DEF Init, InitJob
  <1>3. retrieved => status \in Reached[task]
    <2> SUFFICES ASSUME retrieved PROVE status \in Reached[task]
      OBVIOUS
    <2>1. status = IF task = "CANCELLING" THEN "SUBMITTED" ELSE QdmiStatus[task]
      BY DEF Init, InitJob
    <2>2. task # "CANCELLING" => QdmiStatus[task] # "CANCELLING"
      BY <1>2 DEF QdmiStatus
    <2> QED
      BY <1>2, <2>1, <2>2, ReachedFirst, AnswerIsReached
  <1>4. StatusInv
    BY <1>1, <1>2, <1>3 DEF StatusInv, Storing
  <1>5. ContentsInv
    BY <1>1, <1>2 DEF ContentsInv
  <1>6. PollOrderInv /\ ErrorInv
    BY <1>1 DEF PollOrderInv, Polling, ErrorInv
  <1>7. CancelInv /\ FreeInv
    BY <1>1 DEF CancelInv, FreeInv, Freeing
  <1> QED
    BY <1>4, <1>5, <1>6, <1>7 DEF SafetyInv

(* The parts together are inductive, relative to IInv.                     *)
LEMMA SafetyNext == IInv /\ SafetyInv /\ [Next]_vars => SafetyInv'
  <1> SUFFICES ASSUME IInv, SafetyInv, [Next]_vars PROVE SafetyInv'
    OBVIOUS
  <1>1. CASE Next
    BY <1>1, StatusKept, ContentsKept, ErrorKept, PollOrderKept, CancelKept,
       FreeKept DEF SafetyInv
  <1>2. CASE UNCHANGED vars
    BY <1>2 DEF vars, jobVars, lockVars, taskVars, callVars, SafetyInv,
       StatusInv, ContentsInv, PollOrderInv, ErrorInv, CancelInv, FreeInv
  <1> QED
    BY <1>1, <1>2

(* So both invariants hold in every state.                                 *)
LEMMA SafetyInvariance == Spec => [](IInv /\ SafetyInv)
  <1>1. Init => IInv /\ SafetyInv
    BY InitInv, SafetyInit
  <1>2. (IInv /\ SafetyInv) /\ [Next]_vars => (IInv /\ SafetyInv)'
    BY NextInv, SafetyNext
  <1> QED
    BY <1>1, <1>2, PTL DEF Spec

-----------------------------------------------------------------------------
(* The status DONE or CANCELED of a job is true of its task, whatever      *)
(* polls, cancellations and the end of the submission overlapped.          *)
THEOREM TerminalTrue == Spec => []TerminalStatusIsTrue
  <1>1. IInv /\ SafetyInv => TerminalStatusIsTrue
    <2> SUFFICES ASSUME IInv, SafetyInv PROVE TerminalStatusIsTrue
      OBVIOUS
    <2>1. CASE taskArn
      BY <2>1 DEF TerminalStatusIsTrue, IInv, TypeOK, SafetyInv, StatusInv,
         Reached, TaskStatus, Active, QdmiStatus
    <2>2. CASE ~taskArn
      BY <2>2 DEF TerminalStatusIsTrue, SafetyInv, StatusInv
    <2> QED
      BY <2>1, <2>2
  <1> QED
    BY <1>1, SafetyInvariance, PTL

(* A job with an error of its submission is FAILED and has no task ARN     *)
(* whenever no section is storing the two.                                 *)
THEOREM ErrorMeansFailed == Spec => []SubmissionErrorMeansFailed
  <1>1. SafetyInv => SubmissionErrorMeansFailed
    BY DEF SafetyInv, ErrorInv, SubmissionErrorMeansFailed
  <1> QED
    BY <1>1, SafetyInvariance, PTL

(* cancel() knows the task it is about to cancel.                          *)
THEOREM CancelKnows == Spec => []CancelKnowsTask
  <1>1. SafetyInv => CancelKnowsTask
    BY DEF SafetyInv, CancelInv, CancelKnowsTask
  <1> QED
    BY <1>1, SafetyInvariance, PTL

(* After a cancel() that succeeded, no task of the job can still run to    *)
(* its end uncanceled, for any number of concurrent calls.                 *)
THEOREM CancelEffective == Spec => []CancelTakesEffect
  <1>1. SafetyInv => CancelTakesEffect
    BY DEF SafetyInv, CancelInv, CancelTakesEffect, Cancellable
  <1> QED
    BY <1>1, SafetyInvariance, PTL

(* No worker uses the job after its destructor has returned.               *)
THEOREM FreedUnused == Spec => []NoUseAfterFree
  <1>1. IInv /\ SafetyInv => NoUseAfterFree
    BY DEF IInv, WorkerInv, SafetyInv, FreeInv, NoUseAfterFree
  <1> QED
    BY <1>1, SafetyInvariance, PTL

-----------------------------------------------------------------------------
(* A quiet step is none of a client inside submit().                        *)
LEMMA QuietClientFrom ==
  ASSUME NEW t \in Pollers, QuietClient(t)
  PROVE  ~InSubmit(t)
  BY DEF QuietClient, InSubmit, Preparing, Storing, Goto, Return, CheckReturns,
     Call, ConfigureRefused, SubmitRefused, WaitBegins, WaitError, WaitChecked, CancelNotQueued, Await, AwaitGet, AwaitError, CancelState, CancelArn, CancelRemoteFails, FreeStops, FreeWaits, FreeLocks, CheckError, CheckFailed, CheckPollFails

(* A submission canceled before a worker took it is no longer under way.   *)
UnderWayInv ==
  /\ SubmittingIsUnderWay
  /\ ~taskArn /\ status = "CANCELED" => ~submitting

(* Each step that takes a client out of submit() takes submitting_ back or  *)
(* leaves the submission to the executor.                                  *)
LEMMA UnderWayKept ==
  ASSUME IInv, UnderWayInv, Next PROVE UnderWayInv'
  <1> USE DEF UnderWayInv, SubmittingIsUnderWay, Goto, Return, CheckReturns, jobVars,
     lockVars, restVars, keptVars, poolVars, taskVars, callVars
  <1>0. pc \in [Threads -> Labels]
    BY DEF IInv, TypeOK
  <1>1. ASSUME NEW t \in Pollers, QuietClient(t) PROVE UnderWayInv'
    BY <1>0, <1>1, QuietClientShape, QuietClientFrom DEF Watched, InSubmit,
       Preparing, Storing
  <1>2. ASSUME QuietPrefetch PROVE UnderWayInv'
    BY <1>0, <1>2, QuietPrefetchShape DEF Watched
  <1>3. ASSUME NEW c \in Clients, Configure(c) PROVE UnderWayInv'
    BY <1>0, <1>3 DEF Configure
  <1>4. ASSUME NEW c \in Clients, SubmitSnapshot(c) PROVE UnderWayInv'
    BY <1>0, <1>4 DEF SubmitSnapshot, CanSubmit, Configurable
  <1>5. ASSUME NEW c \in Clients, SubmitPrepare(c) PROVE UnderWayInv'
    BY <1>0, <1>5 DEF SubmitPrepare
  <1>6. ASSUME NEW c \in Clients, SubmitNoDestination(c) PROVE UnderWayInv'
    BY <1>0, <1>6 DEF SubmitNoDestination
  <1>7. ASSUME NEW c \in Clients, SubmitEnqueue(c) PROVE UnderWayInv'
    BY <1>0, <1>7 DEF SubmitEnqueue
  <1>8. ASSUME NEW c \in Clients, SubmitRejected(c) PROVE UnderWayInv'
    BY <1>0, <1>8 DEF SubmitRejected
  <1>9. ASSUME NEW c \in Clients, SubmitCatch(c) PROVE UnderWayInv'
    BY <1>0, <1>9 DEF SubmitCatch
  <1>10. ASSUME NEW c \in Clients, SubmitStoreError(c) PROVE UnderWayInv'
    BY <1>0, <1>10 DEF SubmitStoreError
  <1>11. ASSUME NEW c \in Clients, SubmitStoreFailed(c) PROVE UnderWayInv'
    BY <1>0, <1>11 DEF SubmitStoreFailed
  <1>12. ASSUME NEW c \in Clients, CancelQueued(c) PROVE UnderWayInv'
    BY <1>0, <1>12 DEF CancelQueued
  <1>13. ASSUME NEW c \in Clients, CancelUnsubmitted(c) PROVE UnderWayInv'
    BY <1>0, <1>13 DEF CancelUnsubmitted
  <1>14. ASSUME NEW c \in Clients, CancelRemote(c) PROVE UnderWayInv'
    BY <1>0, <1>14 DEF CancelRemote
  <1>15. ASSUME NEW t \in Pollers, CheckLock(t) PROVE UnderWayInv'
    BY <1>0, <1>15 DEF CheckLock
  <1>16. ASSUME NEW t \in Pollers, CheckArn(t) PROVE UnderWayInv'
    BY <1>0, <1>16 DEF CheckArn
  <1>17. ASSUME NEW t \in Pollers, CheckNoArn(t) PROVE UnderWayInv'
    BY <1>0, <1>17 DEF CheckNoArn
  <1>18. ASSUME NEW t \in Pollers, CheckExit(t) PROVE UnderWayInv'
    BY <1>0, <1>18 DEF CheckExit
  <1>19. ASSUME NEW t \in Pollers, CheckPoll(t) PROVE UnderWayInv'
    BY <1>0, <1>19 DEF CheckPoll
  <1>20. ASSUME NEW t \in Pollers, CheckUpdate(t) PROVE UnderWayInv'
    BY <1>0, <1>20 DEF CheckUpdate, IInv, PollInv
  <1>21. ASSUME WorkerSkips PROVE UnderWayInv'
    BY <1>0, <1>21 DEF WorkerSkips, Withdrawn, IInv, JobInv, WorkerInv
  <1>22. ASSUME WorkerStarts PROVE UnderWayInv'
    BY <1>0, <1>22 DEF WorkerStarts
  <1>23. ASSUME WorkerCreates PROVE UnderWayInv'
    BY <1>0, <1>23 DEF WorkerCreates
  <1>24. ASSUME WorkerRefused PROVE UnderWayInv'
    BY <1>0, <1>24 DEF WorkerRefused
  <1>25. ASSUME WorkerRecords PROVE UnderWayInv'
    BY <1>0, <1>25 DEF WorkerRecords
  <1>26. ASSUME WorkerStartsPrefetch PROVE UnderWayInv'
    BY <1>0, <1>26 DEF WorkerStartsPrefetch
  <1>27. ASSUME WorkerStoresError PROVE UnderWayInv'
    BY <1>0, <1>27 DEF WorkerStoresError
  <1>28. ASSUME WorkerFinishes PROVE UnderWayInv'
    BY <1>0, <1>28 DEF WorkerFinishes
  <1>29. ASSUME PrefetchDropped PROVE UnderWayInv'
    BY <1>0, <1>29 DEF PrefetchDropped
  <1>30. ASSUME TaskAdvances PROVE UnderWayInv'
    BY <1>0, <1>30 DEF TaskAdvances
  <1>31. ASSUME Quiescent PROVE UnderWayInv'
    BY <1>0, <1>31 DEF Quiescent, vars
  <1> QED
    BY <1>1, <1>2, <1>3, <1>4, <1>5, <1>6, <1>7, <1>8, <1>9, <1>10, <1>11, <1>12, <1>13, <1>14, <1>15, <1>16, <1>17, <1>18, <1>19, <1>20, <1>21, <1>22, <1>23, <1>24, <1>25, <1>26, <1>27, <1>28, <1>29, <1>30, <1>31 DEF
       Next, ClientStep, SubmitStep, CheckStep, CancelStep, WorkerStep,
       PrefetchStep, QuietClient, QuietPrefetch

(* A job is never left closed by a submit() that failed or a submission    *)
(* that ended, however many clients call it.                               *)
THEOREM UnderWay == Spec => []SubmittingIsUnderWay
  <1>1. Init => UnderWayInv
    BY DEF Init, UnderWayInv, SubmittingIsUnderWay
  <1>2. IInv /\ UnderWayInv /\ [Next]_vars => UnderWayInv'
    BY UnderWayKept DEF UnderWayInv, SubmittingIsUnderWay, vars, jobVars
  <1>3. UnderWayInv => SubmittingIsUnderWay
    BY DEF UnderWayInv
  <1> QED
    BY <1>1, <1>2, <1>3, SafetyInvariance, PTL DEF Spec

-----------------------------------------------------------------------------
RankForward ==
  /\ Rank[status'] >= Rank[status]
  /\ status \in Terminal => status' = status

(* The ranks by which the statuses are ordered.                            *)
LEMMA RankValues ==
  /\ Rank["CREATED"] = 0 /\ Rank["SUBMITTED"] = 1 /\ Rank["QUEUED"] = 2
  /\ Rank["RUNNING"] = 3 /\ \A s \in Terminal : Rank[s] = 4
  BY DEF Rank, Status, Terminal

(* A step that changes the status of the job takes it forward.             *)
LEMMA StatusMoves ==
  ASSUME IInv, SafetyInv, Next, status' # status PROVE RankForward
  <1> USE DEF IInv, SafetyInv, TypeOK, StatusInv, Goto, Return, CheckReturns,
     jobVars, lockVars, restVars, keptVars, poolVars, taskVars, callVars
  <1>1. ASSUME NEW t \in Pollers, QuietClient(t) PROVE RankForward
    BY <1>1, QuietClientShape DEF Watched
  <1>2. ASSUME QuietPrefetch PROVE RankForward
    BY <1>2, QuietPrefetchShape DEF Watched
  <1>3. ASSUME NEW c \in Clients, Configure(c) PROVE RankForward
    BY <1>3 DEF Configure
  <1>4. ASSUME NEW c \in Clients, SubmitSnapshot(c) PROVE RankForward
    BY <1>4 DEF SubmitSnapshot
  <1>5. ASSUME NEW c \in Clients, SubmitPrepare(c) PROVE RankForward
    BY <1>5 DEF SubmitPrepare
  <1>6. ASSUME NEW c \in Clients, SubmitNoDestination(c) PROVE RankForward
    BY <1>6, RankValues DEF SubmitNoDestination, RankForward, Terminal,
       SubmitInv, InSubmit, Preparing
  <1>7. ASSUME NEW c \in Clients, SubmitEnqueue(c) PROVE RankForward
    BY <1>7, RankValues DEF SubmitEnqueue, RankForward, SubmitInv, InSubmit,
       Preparing
  <1>8. ASSUME NEW c \in Clients, SubmitRejected(c) PROVE RankForward
    BY <1>8, RankValues DEF SubmitRejected, RankForward, SubmitInv, InSubmit,
       Preparing
  <1>9. ASSUME NEW c \in Clients, SubmitCatch(c) PROVE RankForward
    BY <1>9 DEF SubmitCatch
  <1>10. ASSUME NEW c \in Clients, SubmitStoreError(c) PROVE RankForward
    BY <1>10 DEF SubmitStoreError
  <1>11. ASSUME NEW c \in Clients, SubmitStoreFailed(c) PROVE RankForward
    BY <1>11, RankValues DEF SubmitStoreFailed, RankForward, Terminal, Storing
  <1>12. ASSUME NEW c \in Clients, CancelQueued(c) PROVE RankForward
    BY <1>12, RankValues DEF CancelQueued, Withdrawable, RankForward, Terminal
  <1>13. ASSUME NEW c \in Clients, CancelUnsubmitted(c) PROVE RankForward
    BY <1>13, RankValues DEF CancelUnsubmitted, RankForward, Terminal
  <1>14. ASSUME NEW c \in Clients, CancelRemote(c) PROVE RankForward
    BY <1>14 DEF CancelRemote
  <1>15. ASSUME NEW t \in Pollers, CheckLock(t) PROVE RankForward
    BY <1>15 DEF CheckLock
  <1>16. ASSUME NEW t \in Pollers, CheckArn(t) PROVE RankForward
    BY <1>16 DEF CheckArn
  <1>17. ASSUME NEW t \in Pollers, CheckNoArn(t) PROVE RankForward
    BY <1>17 DEF CheckNoArn
  <1>18. ASSUME NEW t \in Pollers, CheckExit(t) PROVE RankForward
    BY <1>18 DEF CheckExit
  <1>19. ASSUME NEW t \in Pollers, CheckPoll(t) PROVE RankForward
    BY <1>19 DEF CheckPoll
  <1>20. ASSUME NEW t \in Pollers, CheckUpdate(t) PROVE RankForward
    BY <1>20, RankValues DEF CheckUpdate, UpdatedStatus, RankForward, PollInv,
       PollOrderInv
  <1>21. ASSUME WorkerSkips PROVE RankForward
    BY <1>21 DEF WorkerSkips
  <1>22. ASSUME WorkerStarts PROVE RankForward
    BY <1>22 DEF WorkerStarts
  <1>23. ASSUME WorkerCreates PROVE RankForward
    BY <1>23 DEF WorkerCreates
  <1>24. ASSUME WorkerRefused PROVE RankForward
    BY <1>24 DEF WorkerRefused
  <1>25. ASSUME WorkerRecords PROVE RankForward
    BY <1>25 DEF WorkerRecords
  <1>26. ASSUME WorkerStartsPrefetch PROVE RankForward
    BY <1>26 DEF WorkerStartsPrefetch
  <1>27. ASSUME WorkerStoresError PROVE RankForward
    BY <1>27 DEF WorkerStoresError
  <1>28. ASSUME WorkerFinishes PROVE RankForward
    BY <1>28, RankValues DEF WorkerFinishes, FinalStatus, RankForward,
       Terminal, WorkerInv
  <1>29. ASSUME PrefetchDropped PROVE RankForward
    BY <1>29 DEF PrefetchDropped
  <1>30. ASSUME TaskAdvances PROVE RankForward
    BY <1>30 DEF TaskAdvances
  <1>31. ASSUME Quiescent PROVE RankForward
    BY <1>31 DEF Quiescent, vars
  <1> QED
    BY <1>1, <1>2, <1>3, <1>4, <1>5, <1>6, <1>7, <1>8, <1>9, <1>10, <1>11,
       <1>12, <1>13, <1>14, <1>15, <1>16, <1>17, <1>18, <1>19, <1>20, <1>21,
       <1>22, <1>23, <1>24, <1>25, <1>26, <1>27, <1>28, <1>29, <1>30, <1>31 DEF
       Next, ClientStep, SubmitStep, CheckStep, CancelStep, WorkerStep,
       PrefetchStep, QuietClient, QuietPrefetch

(* No step of any thread takes the status of the job back, and a terminal  *)
(* status stays, however many threads poll, submit and cancel.             *)
THEOREM ForwardOnly == Spec => StatusForward
  <1>1. IInv /\ SafetyInv /\ [Next]_vars =>
          [/\ Rank[status'] >= Rank[status]
           /\ status \in Terminal => status' = status]_status
    BY StatusMoves DEF RankForward, vars, jobVars
  <1> QED
    BY <1>1, SafetyInvariance, PTL DEF Spec, StatusForward

-----------------------------------------------------------------------------
(* The promise of JobPromise, with the mapping of DeviceJob.               *)
PromiseStep == Promise!Next \/ UNCHANGED Promise!vars

(* The states a job starts in are those JobPromise starts in.              *)
LEMMA PromiseInit == Init => Promise!Init
  <1> SUFFICES ASSUME Init PROVE Promise!Init
    OBVIOUS
  <1>1. CASE retrieved = FALSE
    BY <1>1 DEF Init, InitJob, Promise!Init
  <1>2. CASE retrieved = TRUE
    <2>1. /\ programs \in Configs /\ task \in TaskStatus \ {"NONE"}
          /\ taskConfig = programs
          /\ status = IF task = "CANCELLING" THEN "SUBMITTED"
                      ELSE QdmiStatus[task]
      BY <1>2 DEF Init, InitJob
    <2>2. status \in {"SUBMITTED"} \union Promise!Later["SUBMITTED"]
      BY <2>1 DEF QdmiStatus, TaskStatus, Promise!Later
    <2>3. status # "CREATED"
      BY <2>1 DEF QdmiStatus
    <2> QED
      BY <2>1, <2>2, <2>3 DEF Promise!Init
  <1>3. retrieved = TRUE \/ retrieved = FALSE
    BY DEF Init, InitJob
  <1> QED
    BY <1>1, <1>2, <1>3

(* What a poll stores is later than what the job showed.                   *)
LEMMA LaterStatus ==
  ASSUME NEW r \in Active, NEW s \in Status, s # r, Rank[s] >= Rank[r]
  PROVE  r \in DOMAIN Promise!Later /\ s \in Promise!Later[r]
  BY RankValues DEF Active, Status, Promise!Later

(* A step of the job is a step of its promise, or none.                    *)
LEMMA PromiseMoves ==
  ASSUME IInv, SafetyInv, Next PROVE PromiseStep
  <1> USE DEF IInv, SafetyInv, TypeOK, PromiseStep, Promise!vars, Goto, Return,
     CheckReturns, jobVars, lockVars, restVars, keptVars, poolVars, taskVars,
     callVars
  <1>1. ASSUME NEW t \in Pollers, QuietClient(t) PROVE PromiseStep
    BY <1>1, QuietClientShape DEF Watched
  <1>2. ASSUME QuietPrefetch PROVE PromiseStep
    BY <1>2, QuietPrefetchShape DEF Watched
  <1>3. ASSUME NEW c \in Clients, Configure(c) PROVE PromiseStep
    BY <1>3 DEF Configure, Configurable, Promise!Next, Promise!Configure
  <1>4. ASSUME NEW c \in Clients, SubmitSnapshot(c) PROVE PromiseStep
    BY <1>4 DEF SubmitSnapshot, CanSubmit, Promise!Next, Promise!Close
  <1>5. ASSUME NEW c \in Clients, SubmitPrepare(c) PROVE PromiseStep
    BY <1>5 DEF SubmitPrepare
  <1>6. ASSUME NEW c \in Clients, SubmitNoDestination(c) PROVE PromiseStep
    BY <1>6 DEF SubmitNoDestination, Promise!Next, Promise!Fail, SubmitInv,
       InSubmit, Preparing
  <1>7. ASSUME NEW c \in Clients, SubmitEnqueue(c) PROVE PromiseStep
    BY <1>7 DEF SubmitEnqueue, Promise!Next, Promise!Submit, SubmitInv,
       InSubmit, Preparing
  <1>8. ASSUME NEW c \in Clients, SubmitRejected(c) PROVE PromiseStep
    BY <1>8 DEF SubmitRejected, Promise!Next, Promise!Submit, SubmitInv,
       InSubmit, Preparing
  <1>9. ASSUME NEW c \in Clients, SubmitCatch(c) PROVE PromiseStep
    BY <1>9 DEF SubmitCatch
  <1>10. ASSUME NEW c \in Clients, SubmitStoreError(c) PROVE PromiseStep
    BY <1>10 DEF SubmitStoreError
  <1>11. ASSUME NEW c \in Clients, SubmitStoreFailed(c) PROVE PromiseStep
    BY <1>11 DEF SubmitStoreFailed, Promise!Next, Promise!Fail, StatusInv,
       SubmitInv, InSubmit, Storing
  <1>12. ASSUME NEW c \in Clients, CancelQueued(c) PROVE PromiseStep
    BY <1>12 DEF CancelQueued, Withdrawable, Promise!Next, Promise!Withdraw,
       StatusInv, ContentsInv, JobInv
  <1>13. ASSUME NEW c \in Clients, CancelUnsubmitted(c) PROVE PromiseStep
    BY <1>13 DEF CancelUnsubmitted, Promise!Next, Promise!Discard
  <1>14. ASSUME NEW c \in Clients, CancelRemote(c) PROVE PromiseStep
    BY <1>14 DEF CancelRemote
  <1>15. ASSUME NEW t \in Pollers, CheckLock(t) PROVE PromiseStep
    BY <1>15 DEF CheckLock
  <1>16. ASSUME NEW t \in Pollers, CheckArn(t) PROVE PromiseStep
    BY <1>16 DEF CheckArn
  <1>17. ASSUME NEW t \in Pollers, CheckNoArn(t) PROVE PromiseStep
    BY <1>17 DEF CheckNoArn
  <1>18. ASSUME NEW t \in Pollers, CheckExit(t) PROVE PromiseStep
    BY <1>18 DEF CheckExit
  <1>19. ASSUME NEW t \in Pollers, CheckPoll(t) PROVE PromiseStep
    BY <1>19 DEF CheckPoll
  <1>20. ASSUME NEW t \in Pollers, CheckUpdate(t) PROVE PromiseStep
    <2>1. /\ taskArn /\ status # "CREATED" /\ status' # "CREATED"
          /\ UNCHANGED <<programs, submitting, taskConfig>>
      BY <1>20 DEF CheckUpdate, UpdatedStatus, PollInv, JobInv
    <2>2. CASE status' = status
      BY <2>1, <2>2
    <2>3. CASE status' # status
      <3>1. status' \in Status /\ status' # status /\ Rank[status'] >= Rank[status]
        BY <2>3, StatusMoves, TypeStep DEF RankForward
      <3>2. status \in Active
        BY <1>20, <2>1 DEF CheckUpdate, PollOrderInv, Status, Active, Terminal
      <3>3. taskConfig # NoPrograms
        BY <2>1 DEF JobInv, ContentsInv
      <3>4. Promise!Observe
        BY <2>1, <3>1, <3>2, <3>3, LaterStatus DEF Promise!Observe
      <3> QED
        BY <3>4 DEF Promise!Next
    <2> QED
      BY <2>2, <2>3
  <1>21. ASSUME WorkerSkips PROVE PromiseStep
    BY <1>21 DEF WorkerSkips
  <1>22. ASSUME WorkerStarts PROVE PromiseStep
    BY <1>22 DEF WorkerStarts
  <1>23. ASSUME WorkerCreates PROVE PromiseStep
    BY <1>23 DEF WorkerCreates, Promise!Next, Promise!Send, StatusInv,
       ContentsInv, JobInv, WorkerInv
  <1>24. ASSUME WorkerRefused PROVE PromiseStep
    BY <1>24 DEF WorkerRefused
  <1>25. ASSUME WorkerRecords PROVE PromiseStep
    BY <1>25 DEF WorkerRecords
  <1>26. ASSUME WorkerStartsPrefetch PROVE PromiseStep
    BY <1>26 DEF WorkerStartsPrefetch
  <1>27. ASSUME WorkerStoresError PROVE PromiseStep
    BY <1>27 DEF WorkerStoresError
  <1>28. ASSUME WorkerFinishes PROVE PromiseStep
    BY <1>28 DEF WorkerFinishes, FinalStatus, Promise!Next, Promise!Fail,
       StatusInv, JobInv, WorkerInv
  <1>29. ASSUME PrefetchDropped PROVE PromiseStep
    BY <1>29 DEF PrefetchDropped
  <1>30. ASSUME TaskAdvances PROVE PromiseStep
    BY <1>30 DEF TaskAdvances
  <1>31. ASSUME Quiescent PROVE PromiseStep
    BY <1>31 DEF Quiescent, vars
  <1> QED
    BY <1>1, <1>2, <1>3, <1>4, <1>5, <1>6, <1>7, <1>8, <1>9, <1>10, <1>11,
       <1>12, <1>13, <1>14, <1>15, <1>16, <1>17, <1>18, <1>19, <1>20, <1>21,
       <1>22, <1>23, <1>24, <1>25, <1>26, <1>27, <1>28, <1>29, <1>30, <1>31 DEF
       Next, ClientStep, SubmitStep, CheckStep, CancelStep, WorkerStep,
       PrefetchStep, QuietClient, QuietPrefetch

(* The job implements its promise: every step of the threads, the workers  *)
(* and Braket is a step of JobPromise or changes nothing it speaks of.     *)
THEOREM PromiseKept == Spec => KeepsPromise
  <1>1. Init => Promise!Init
    BY PromiseInit
  <1>2. IInv /\ SafetyInv /\ [Next]_vars => [Promise!Next]_Promise!vars
    <2> SUFFICES ASSUME IInv, SafetyInv, [Next]_vars
                 PROVE  PromiseStep
      BY DEF PromiseStep
    <2>1. CASE UNCHANGED vars
      BY <2>1 DEF vars, jobVars, taskVars, PromiseStep, Promise!vars
    <2> QED
      BY <2>1, PromiseMoves
  <1> QED
    BY <1>1, <1>2, SafetyInvariance, PTL DEF Spec, KeepsPromise, Promise!Spec
=============================================================================
