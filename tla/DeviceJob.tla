------------------------------ MODULE DeviceJob ------------------------------
(***************************************************************************)
(* One job object of a device session: its lifecycle from CREATED to a     *)
(* terminal status, as several client threads call it while a submission   *)
(* worker sends CreateQuantumTask and a prefetch worker polls the task.    *)
(*                                                                         *)
(* A step of a thread is one critical section of jobMutex_, one access to  *)
(* an atomic member made outside a lock, or one exchange with Braket.  A   *)
(* critical section in which another thread can see an intermediate value  *)
(* of an atomic member is split, and jobMutex records its holder.          *)
(*                                                                         *)
(* An operator whose name begins with Buggy is a wrong version of the one  *)
(* that follows it; no specification uses it.  It shows which property     *)
(* would notice that mistake in the code.                                  *)
(***************************************************************************)
EXTENDS Naturals

CONSTANTS
  Clients,      (* threads that call the job                               *)
  Worker,       (* the submission pool's thread that runs the submission   *)
  Prefetch,     (* the result pool's thread that runs the prefetch lambda  *)
  Nobody,       (* the holder of a free mutex                              *)
  Configs,      (* contents of a job: programs, shots, S3 URI, reservation *)
  NoPrograms,   (* a job without programs                                  *)
  Ops,          (* the operations the clients use                          *)
  MaxCalls      (* bound: the number of calls of all clients together      *)

AllOps ==
  {"configure", "submit", "check", "wait", "timedWait", "cancel", "free"}

ASSUME DeviceJobAssumption ==
  /\ {Worker, Prefetch, Nobody} \cap Clients = {}
  /\ Worker # Prefetch /\ Worker # Nobody /\ Prefetch # Nobody
  /\ NoPrograms \notin Configs
  /\ Ops \subseteq AllOps
  /\ MaxCalls \in Nat

Pollers == Clients \union {Prefetch}
Threads == Pollers \union {Worker}

(* QDMI_Job_Status, in the order of the comment on status_.                *)
Status   == {"CREATED", "SUBMITTED", "QUEUED", "RUNNING",
             "DONE", "FAILED", "CANCELED"}
Terminal == {"DONE", "FAILED", "CANCELED"}
Active   == {"SUBMITTED", "QUEUED", "RUNNING"}

(* QuantumTaskStatus of the remote task; "NONE" before CreateQuantumTask.  *)
TaskStatus   == {"NONE", "CREATED", "QUEUED", "RUNNING", "CANCELLING",
                 "COMPLETED", "FAILED", "CANCELLED"}
Cancellable  == {"CREATED", "QUEUED", "RUNNING"}

(* The QDMI status updateFromTask gives a task status; CANCELLING has none *)
(* and stands for itself.                                                  *)
BuggyEagerStatus == [s \in TaskStatus |->
  CASE s = "CREATED"                   -> "SUBMITTED"
    [] s = "COMPLETED"                 -> "DONE"
    [] s \in {"CANCELLING", "CANCELLED"} -> "CANCELED"
    [] OTHER                           -> s]

QdmiStatus == [s \in TaskStatus |->
  CASE s = "CREATED"   -> "SUBMITTED"
    [] s = "COMPLETED" -> "DONE"
    [] s = "CANCELLED" -> "CANCELED"
    [] OTHER           -> s]

(* Members of submissionError_ and codes a call returns.  SUBMISSION stands *)
(* for any code stored in submissionError_, SERVICE for the error of one    *)
(* GetQuantumTask, CancelQuantumTask, GetDevice or S3 request.              *)
ErrorCodes == {"SUCCESS", "SUBMISSION"}
Codes == ErrorCodes \union
         {"none", "SERVICE", "BADSTATE", "INVALIDARGUMENT", "TIMEOUT"}

VARIABLES
  (* members of the job *)
  status, submitting, submissionStarted, programs, retrieved, taskArn,
  submissionError, jobHandle, stopPrefetch,
  (* mutexes: the thread that holds each *)
  jobMutex, statusMutex, prefetchMutex,
  (* executors: the request a submission carries, prefetch lambdas queued *)
  request, prefetchQueue,
  (* the object: "live", "draining" in its destructor, "freed" *)
  life,
  (* Braket: the task, what it was created from, CreateQuantumTask accepted *)
  task, taskConfig, created,
  (* threads: control, operation, submit's snapshot, the status a check has *)
  (* read, what the last call returned, and calls made                      *)
  pc, op, snapshot, seen, ret, calls

jobVars    == <<status, submitting, submissionStarted, programs, retrieved,
                taskArn, submissionError, jobHandle, stopPrefetch>>
lockVars   == <<jobMutex, statusMutex, prefetchMutex>>
poolVars   == <<request, prefetchQueue>>
taskVars   == <<task, taskConfig, created>>
callVars   == <<op, snapshot, calls>>

(* Members that few steps change, and all that is not the job's own.       *)
keptVars == <<submissionStarted, programs, retrieved, taskArn, stopPrefetch>>
restVars == <<lockVars, poolVars, life, taskVars, callVars>>

vars == <<jobVars, lockVars, poolVars, life, taskVars, callVars, pc, seen, ret>>

Labels == {"idle",
  "configure", "submit", "prepare", "enqueue", "catch", "storeError",
  "storeFailed", "check", "checkFailed", "checkLock", "checkArn", "checkNoArn",
  "checkExit", "checkPoll", "checkUpdate", "checked", "wait", "waitError",
  "timedWait", "cancel", "await", "awaitGet", "awaitError", "cancelState",
  "cancelArn", "cancelRemote", "free", "freeWait", "freeLock",
  "create", "record", "startPrefetch", "finish", "finishStatus",
  "fetch", "delay"}

Result == [code : Codes, status : Status \union {"none"}]
NoResult == [code |-> "none", status |-> "none"]

-----------------------------------------------------------------------------
(* Control of a thread.                                                    *)

Goto(t, from, to) == pc[t] = from /\ pc' = [pc EXCEPT ![t] = to]

(* The call of client c ends with a code.                                  *)
Return(c, from, code) ==
  /\ Goto(c, from, "idle")
  /\ ret' = [ret EXCEPT ![c] = [code |-> code, status |-> "none"]]

(* The check a poller is in ends: check() returns to its caller, or to the *)
(* loop of wait() or of the prefetch lambda.                               *)
CheckReturns(t, from, code, s) ==
  /\ Goto(t, from, IF op[t] = "check" THEN "idle" ELSE "checked")
  /\ ret' = [ret EXCEPT ![t] = [code |-> code, status |-> s]]

(* Client c starts an operation.  Freeing a job that another thread is     *)
(* still using, or using it afterwards, is outside the QDMI contract.      *)
Call(c) ==
  /\ pc[c] = "idle" /\ life = "live" /\ calls < MaxCalls
  /\ \E o \in Ops :
       /\ o = "free" => \A d \in Clients : pc[d] = "idle"
       /\ op' = [op EXCEPT ![c] = o]
       /\ pc' = [pc EXCEPT ![c] = o]
       /\ life' = IF o = "free" THEN "draining" ELSE life
  /\ calls' = calls + 1
  /\ ret' = [ret EXCEPT ![c] = NoResult]
  /\ UNCHANGED <<jobVars, lockVars, poolVars, taskVars, snapshot, seen>>

-----------------------------------------------------------------------------
(* setPrograms and setParameter: only while the job is configurable.       *)

BuggyConfigurable == ~retrieved /\ status = "CREATED"

Configurable == ~retrieved /\ ~submitting /\ status = "CREATED"

Configure(c) ==
  /\ jobMutex = Nobody /\ Configurable
  /\ programs' \in Configs
  /\ Return(c, "configure", "SUCCESS")
  /\ UNCHANGED <<status, submitting, submissionStarted, retrieved, taskArn,
                 submissionError, jobHandle, stopPrefetch, restVars, seen>>

ConfigureRefused(c) ==
  /\ jobMutex = Nobody /\ ~Configurable
  /\ Return(c, "configure", "BADSTATE")
  /\ UNCHANGED <<jobVars, restVars, seen>>

-----------------------------------------------------------------------------
(* submit()                                                                *)

(* GetDevice fails before the job is touched, or the job cannot be         *)
(* submitted.                                                              *)
SubmitRefused(c) ==
  /\ \/ Return(c, "submit", "SERVICE")
     \/ jobMutex = Nobody /\ ~Configurable /\ Return(c, "submit", "BADSTATE")
     \/ /\ jobMutex = Nobody /\ Configurable /\ programs = NoPrograms
        /\ Return(c, "submit", "INVALIDARGUMENT")
  /\ UNCHANGED <<jobVars, restVars, seen>>

BuggyCanSubmit == ~retrieved /\ status = "CREATED" /\ programs # NoPrograms

CanSubmit == Configurable /\ programs # NoPrograms

(* The request is copied and the job closed to changes in one section.     *)
SubmitSnapshot(c) ==
  /\ Goto(c, "submit", "prepare")
  /\ jobMutex = Nobody /\ CanSubmit
  /\ submitting' = TRUE
  /\ snapshot' = [snapshot EXCEPT ![c] = programs]
  /\ UNCHANGED <<status, keptVars, submissionError, jobHandle, lockVars,
                 poolVars, life, taskVars, op, calls, seen, ret>>

(* The programs are adapted and the S3 destination resolved; an exception  *)
(* goes to submit's handler.                                               *)
SubmitPrepare(c) ==
  /\ Goto(c, "prepare", "enqueue") \/ Goto(c, "prepare", "catch")
  /\ UNCHANGED <<jobVars, restVars, seen, ret>>

BuggySubmitNoDestination(c) ==
  /\ Return(c, "prepare", "SERVICE")
  /\ jobMutex = Nobody
  /\ status' = "FAILED"
  /\ UNCHANGED <<submitting, keptVars, submissionError, jobHandle, restVars,
                 seen>>

(* No S3 destination: submissionError_ stays as it was.                    *)
SubmitNoDestination(c) ==
  /\ Return(c, "prepare", "SERVICE")
  /\ jobMutex = Nobody
  /\ submitting' = FALSE
  /\ status' = "FAILED"
  /\ UNCHANGED <<keptVars, submissionError, jobHandle, restVars, seen>>

(* The submission is handed to the executor.                               *)
SubmitEnqueue(c) ==
  /\ Return(c, "enqueue", "SUCCESS")
  /\ jobMutex = Nobody
  /\ jobHandle' = "pending"
  /\ status' = "SUBMITTED"
  /\ request' = snapshot[c]
  /\ UNCHANGED <<submitting, keptVars, submissionError, lockVars,
                 prefetchQueue, life, taskVars, callVars, seen>>

(* The executor rejects it: SUBMITTED has been stored, the handle is       *)
(* dropped, and the section goes on to store the error, then FAILED.       *)
SubmitRejected(c) ==
  /\ Goto(c, "enqueue", "storeError")
  /\ jobMutex = Nobody
  /\ jobMutex' = c
  /\ status' = "SUBMITTED"
  /\ UNCHANGED <<submitting, keptVars, submissionError, jobHandle, statusMutex,
                 prefetchMutex, poolVars, life, taskVars, callVars, seen, ret>>

(* submit's exception handler takes the lock.                              *)
SubmitCatch(c) ==
  /\ Goto(c, "catch", "storeError")
  /\ jobMutex = Nobody
  /\ jobMutex' = c
  /\ UNCHANGED <<jobVars, statusMutex, prefetchMutex, poolVars, life, taskVars,
                 callVars, seen, ret>>

SubmitStoreError(c) ==
  /\ Goto(c, "storeError", "storeFailed")
  /\ submissionError' = "SUBMISSION"
  /\ UNCHANGED <<status, submitting, keptVars, jobHandle, restVars, seen, ret>>

SubmitStoreFailed(c) ==
  /\ Return(c, "storeFailed", "SUBMISSION")
  /\ submitting' = FALSE
  /\ status' = "FAILED"
  /\ jobMutex' = Nobody
  /\ UNCHANGED <<keptVars, submissionError, jobHandle, statusMutex,
                 prefetchMutex, poolVars, life, taskVars, callVars, seen>>

-----------------------------------------------------------------------------
(* The submission lambda, run by a thread of the submission pool.          *)

BuggyWithdrawn == FALSE

(* A job canceled while it was queued is dropped; its future gets ready.   *)
Withdrawn == status = "CANCELED"

WorkerSkips ==
  /\ pc[Worker] = "idle" /\ jobHandle = "pending" /\ Withdrawn
  /\ jobMutex = Nobody
  /\ jobHandle' = "ready"
  /\ UNCHANGED <<status, submitting, keptVars, submissionError, restVars, pc,
                 seen, ret>>

WorkerStarts ==
  /\ Goto(Worker, "idle", "create")
  /\ jobHandle = "pending" /\ ~Withdrawn
  /\ jobMutex = Nobody
  /\ submissionStarted' = TRUE
  /\ UNCHANGED <<status, submitting, programs, retrieved, taskArn,
                 submissionError, jobHandle, stopPrefetch, restVars, seen,
                 ret>>

(* Braket accepts the request; the response may be lost on its way.        *)
WorkerCreates ==
  /\ Goto(Worker, "create", "record") \/ Goto(Worker, "create", "finish")
  /\ created' = created + 1
  /\ task' = "CREATED"
  /\ taskConfig' = request
  /\ UNCHANGED <<jobVars, lockVars, poolVars, life, callVars, seen, ret>>

WorkerRefused ==
  /\ Goto(Worker, "create", "finish")
  /\ UNCHANGED <<jobVars, restVars, seen, ret>>

WorkerRecords ==
  /\ Goto(Worker, "record", "startPrefetch")
  /\ jobMutex = Nobody
  /\ taskArn' = TRUE
  /\ UNCHANGED <<status, submitting, submissionStarted, programs, retrieved,
                 submissionError, jobHandle, stopPrefetch, restVars, seen,
                 ret>>

(* startPrefetch() queues a lambda unless the job is being destroyed; a    *)
(* rejection by the result executor is ignored.                            *)
QueuePrefetch ==
  \/ ~stopPrefetch /\ prefetchQueue' = prefetchQueue + 1
  \/ UNCHANGED prefetchQueue

WorkerStartsPrefetch ==
  /\ Goto(Worker, "startPrefetch", "finish")
  /\ QueuePrefetch
  /\ UNCHANGED <<jobVars, lockVars, request, life, taskVars, callVars, seen,
                 ret>>

(* The last section stores the error, then the status.  The request        *)
(* succeeded exactly when the ARN was recorded.                            *)
WorkerStoresError ==
  /\ Goto(Worker, "finish", "finishStatus")
  /\ jobMutex = Nobody
  /\ jobMutex' = Worker
  /\ submissionError' = IF taskArn THEN "SUCCESS" ELSE "SUBMISSION"
  /\ UNCHANGED <<status, submitting, keptVars, jobHandle, statusMutex,
                 prefetchMutex, poolVars, life, taskVars, callVars, seen, ret>>

BuggyFinalStatus == status

FinalStatus == IF taskArn THEN status ELSE "FAILED"

(* The lambda returns: the lock is released and the future gets ready.     *)
WorkerFinishes ==
  /\ Goto(Worker, "finishStatus", "idle")
  /\ jobMutex' = Nobody
  /\ status' = FinalStatus
  /\ submitting' = FALSE
  /\ jobHandle' = "ready"
  /\ UNCHANGED <<keptVars, submissionError, statusMutex, prefetchMutex,
                 poolVars, life, taskVars, callVars, seen, ret>>

-----------------------------------------------------------------------------
(* check(), by a client or from the prefetch lambda.                       *)

CheckError(t) ==
  /\ Goto(t, "check",
          IF submissionError = "SUCCESS" THEN "checkLock" ELSE "checkFailed")
  /\ UNCHANGED <<jobVars, restVars, seen, ret>>

CheckFailed(t) ==
  /\ CheckReturns(t, "checkFailed", submissionError, status)
  /\ UNCHANGED <<jobVars, restVars, seen>>

BuggyPollAllowed == TRUE

(* Polls are serialised by statusMutex_; a terminal status is final.       *)
PollAllowed == statusMutex = Nobody

CheckLock(t) ==
  /\ PollAllowed
  /\ statusMutex' = t
  /\ \/ /\ status \in Terminal
        /\ seen' = [seen EXCEPT ![t] = status]
        /\ Goto(t, "checkLock", "checkExit")
     \/ /\ status \notin Terminal
        /\ Goto(t, "checkLock", "checkArn")
        /\ UNCHANGED seen
  /\ UNCHANGED <<jobVars, jobMutex, prefetchMutex, poolVars, life, taskVars,
                 callVars, ret>>

CheckArn(t) ==
  /\ Goto(t, "checkArn", IF taskArn THEN "checkPoll" ELSE "checkNoArn")
  /\ jobMutex = Nobody
  /\ UNCHANGED <<jobVars, restVars, seen, ret>>

CheckNoArn(t) ==
  /\ Goto(t, "checkNoArn", "checkExit")
  /\ seen' = [seen EXCEPT ![t] = status]
  /\ UNCHANGED <<jobVars, restVars, ret>>

CheckExit(t) ==
  /\ CheckReturns(t, "checkExit", submissionError, seen[t])
  /\ seen' = [seen EXCEPT ![t] = "none"]
  /\ statusMutex' = Nobody
  /\ UNCHANGED <<jobVars, jobMutex, prefetchMutex, poolVars, life, taskVars,
                 callVars>>

(* GetQuantumTask answers with the task's status at that moment.           *)
CheckPoll(t) ==
  /\ Goto(t, "checkPoll", "checkUpdate")
  /\ seen' = [seen EXCEPT ![t] = QdmiStatus[task]]
  /\ UNCHANGED <<jobVars, restVars, ret>>

CheckPollFails(t) ==
  /\ CheckReturns(t, "checkPoll", "SERVICE", "none")
  /\ statusMutex' = Nobody
  /\ UNCHANGED <<jobVars, jobMutex, prefetchMutex, poolVars, life, taskVars,
                 callVars, seen>>

(* updateFromTask: CANCELLING leaves the last known status.                *)
UpdatedStatus(t) == IF seen[t] = "CANCELLING" THEN status ELSE seen[t]

CheckUpdate(t) ==
  /\ jobMutex = Nobody
  /\ status' = UpdatedStatus(t)
  /\ CheckReturns(t, "checkUpdate", "SUCCESS", status')
  /\ seen' = [seen EXCEPT ![t] = "none"]
  /\ statusMutex' = Nobody
  /\ UNCHANGED <<submitting, keptVars, submissionError, jobHandle, jobMutex,
                 prefetchMutex, poolVars, life, taskVars, callVars>>

-----------------------------------------------------------------------------
(* wait(timeout): "wait" is the call with timeout 0, which means forever.  *)

WaitBegins(c) ==
  /\ \E o \in {"wait", "timedWait"} :
       \/ status = "CREATED" /\ Return(c, o, "INVALIDARGUMENT")
       \/ status \in Terminal /\ Goto(c, o, "waitError") /\ UNCHANGED ret
       \/ status \in Active /\ Goto(c, o, "check") /\ UNCHANGED ret
  /\ UNCHANGED <<jobVars, restVars, seen>>

WaitError(c) ==
  /\ Return(c, "waitError", submissionError)
  /\ UNCHANGED <<jobVars, restVars, seen>>

BuggyWaitOver(c) ==
  ret[c].code # "SUCCESS" \/ ret[c].status \in {"DONE", "FAILED"}

WaitOver(c) == ret[c].code # "SUCCESS" \/ ret[c].status \in Terminal

(* The loop ends on an error, on a terminal status or on the timeout.      *)
WaitChecked(c) ==
  /\ \/ WaitOver(c) /\ Goto(c, "checked", "idle") /\ UNCHANGED ret
     \/ /\ ~WaitOver(c) /\ op[c] = "timedWait"
        /\ Return(c, "checked", "TIMEOUT")
     \/ /\ ~WaitOver(c)
        /\ Goto(c, "checked", "check")
        /\ ret' = [ret EXCEPT ![c] = NoResult]
  /\ UNCHANGED <<jobVars, restVars, seen>>

TimesOut(c) == WaitChecked(c) /\ ret'[c].code = "TIMEOUT"

-----------------------------------------------------------------------------
(* cancel()                                                                *)

BuggyWithdrawable == submitting /\ status = "SUBMITTED"

Withdrawable == submitting /\ ~submissionStarted /\ status = "SUBMITTED"

(* A submission that no worker has started is canceled without Braket.     *)
CancelQueued(c) ==
  /\ Return(c, "cancel", "SUCCESS")
  /\ jobMutex = Nobody /\ Withdrawable
  /\ status' = "CANCELED"
  /\ submitting' = FALSE
  /\ UNCHANGED <<keptVars, submissionError, jobHandle, restVars, seen>>

CancelNotQueued(c) ==
  /\ Goto(c, "cancel", "await")
  /\ jobMutex = Nobody /\ ~Withdrawable
  /\ UNCHANGED <<jobVars, restVars, seen, ret>>

(* awaitSubmission(): the future is copied under the lock and waited for   *)
(* outside of it.                                                          *)
Await(c) ==
  /\ jobMutex = Nobody
  /\ Goto(c, "await",
          IF status = "CANCELED" /\ ~submissionStarted THEN "cancelState"
          ELSE IF jobHandle = "none" THEN "awaitError" ELSE "awaitGet")
  /\ UNCHANGED <<jobVars, restVars, seen, ret>>

AwaitGet(c) ==
  /\ Goto(c, "awaitGet", "awaitError")
  /\ jobHandle = "ready"
  /\ UNCHANGED <<jobVars, restVars, seen, ret>>

AwaitError(c) ==
  /\ \/ /\ submissionError = "SUCCESS"
        /\ Goto(c, "awaitError", "cancelState")
        /\ UNCHANGED ret
     \/ submissionError # "SUCCESS" /\ Return(c, "awaitError", submissionError)
  /\ UNCHANGED <<jobVars, restVars, seen>>

(* A job that was never submitted is canceled for good.                    *)
CancelUnsubmitted(c) ==
  /\ Return(c, "cancelState", "SUCCESS")
  /\ jobMutex = Nobody /\ ~submitting /\ status = "CREATED"
  /\ status' = "CANCELED"
  /\ UNCHANGED <<submitting, keptVars, submissionError, jobHandle, restVars,
                 seen>>

BuggyCancelState(c) ==
  /\ jobMutex = Nobody
  /\ \/ status \in Terminal /\ Return(c, "cancelState", "INVALIDARGUMENT")
     \/ /\ status \in Active /\ Goto(c, "cancelState", "cancelArn")
        /\ UNCHANGED ret
  /\ UNCHANGED <<jobVars, restVars, seen>>

CancelState(c) ==
  /\ jobMutex = Nobody
  /\ \/ submitting /\ Return(c, "cancelState", "BADSTATE")
     \/ /\ ~submitting /\ status \in Terminal
        /\ Return(c, "cancelState", "INVALIDARGUMENT")
     \/ /\ ~submitting /\ status \in Active
        /\ Goto(c, "cancelState", "cancelArn")
        /\ UNCHANGED ret
  /\ UNCHANGED <<jobVars, restVars, seen>>

CancelArn(c) ==
  /\ jobMutex = Nobody
  /\ IF taskArn THEN Goto(c, "cancelArn", "cancelRemote") /\ UNCHANGED ret
                ELSE Return(c, "cancelArn", "BADSTATE")
  /\ UNCHANGED <<jobVars, restVars, seen>>

(* CancelQuantumTask: the job's status is left to later polls.             *)
CancelRemote(c) ==
  /\ Return(c, "cancelRemote", "SUCCESS")
  /\ task \in Cancellable
  /\ task' = "CANCELLING"
  /\ UNCHANGED <<jobVars, lockVars, poolVars, life, taskConfig, created,
                 callVars, seen>>

CancelRemoteFails(c) ==
  /\ Return(c, "cancelRemote", "SERVICE")
  /\ UNCHANGED <<jobVars, restVars, seen>>

-----------------------------------------------------------------------------
(* The prefetch lambda, run by a thread of the result pool.  Lambdas of    *)
(* one job exclude each other by prefetchMutex_; a lambda whose job is     *)
(* being destroyed returns without touching it.                            *)

PrefetchStarts ==
  /\ Goto(Prefetch, "idle", "check")
  /\ prefetchQueue > 0 /\ prefetchMutex = Nobody /\ ~stopPrefetch
  /\ prefetchQueue' = prefetchQueue - 1
  /\ prefetchMutex' = Prefetch
  /\ UNCHANGED <<jobVars, jobMutex, statusMutex, request, life, taskVars,
                 callVars, seen, ret>>

PrefetchDropped ==
  /\ prefetchQueue > 0 /\ prefetchMutex = Nobody /\ stopPrefetch
  /\ prefetchQueue' = prefetchQueue - 1
  /\ UNCHANGED <<jobVars, lockVars, request, life, taskVars, callVars, pc,
                 seen, ret>>

PrefetchEnds(from) ==
  /\ Goto(Prefetch, from, "idle")
  /\ prefetchMutex' = Nobody
  /\ ret' = [ret EXCEPT ![Prefetch] = NoResult]

(* Results are fetched once the task is DONE; for a set of programs also   *)
(* when it FAILED or was CANCELED, since some programs may have results.   *)
PrefetchChecked ==
  /\ \/ /\ ret[Prefetch].code # "SUCCESS"
        /\ PrefetchEnds("checked")
     \/ /\ ret[Prefetch].code = "SUCCESS"
        /\ ret[Prefetch].status \in {"FAILED", "CANCELED"}
        /\ PrefetchEnds("checked")
     \/ /\ ret[Prefetch].code = "SUCCESS"
        /\ Goto(Prefetch, "checked",
                IF ret[Prefetch].status \in Terminal THEN "fetch" ELSE "delay")
        /\ UNCHANGED <<prefetchMutex, ret>>
  /\ UNCHANGED <<jobVars, jobMutex, statusMutex, poolVars, life, taskVars,
                 callVars, seen>>

PrefetchFetches ==
  /\ PrefetchEnds("fetch")
  /\ UNCHANGED <<jobVars, jobMutex, statusMutex, poolVars, life, taskVars,
                 callVars, seen>>

(* After the poll delay, which a stop request cuts short, the lambda goes  *)
(* to the back of the queue.                                               *)
PrefetchRequeues ==
  /\ PrefetchEnds("delay")
  /\ jobMutex = Nobody
  /\ QueuePrefetch
  /\ UNCHANGED <<jobVars, jobMutex, statusMutex, request, life, taskVars,
                 callVars, seen>>

-----------------------------------------------------------------------------
(* ~Job, run by the client that frees the job.                             *)

RequestStop == stopPrefetch' = TRUE

FreeStops(c) ==
  /\ Goto(c, "free", "freeWait")
  /\ RequestStop
  /\ UNCHANGED <<status, submitting, submissionStarted, programs, retrieved,
                 taskArn, submissionError, jobHandle, restVars, seen, ret>>

BuggySubmissionDrained == TRUE

SubmissionDrained == jobHandle # "pending"

FreeWaits(c) ==
  /\ Goto(c, "freeWait", "freeLock")
  /\ SubmissionDrained
  /\ UNCHANGED <<jobVars, restVars, seen, ret>>

FreeLocks(c) ==
  /\ Return(c, "freeLock", "SUCCESS")
  /\ prefetchMutex = Nobody
  /\ life' = "freed"
  /\ UNCHANGED <<jobVars, lockVars, poolVars, taskVars, callVars, seen>>

-----------------------------------------------------------------------------
(* Braket runs the task.  The order of its statuses is the one the comment *)
(* in cancel() and the table in check() give.                              *)

NextTaskStatus(s) ==
  CASE s = "CREATED"    -> {"QUEUED", "FAILED"}
    [] s = "QUEUED"     -> {"RUNNING", "FAILED"}
    [] s = "RUNNING"    -> {"COMPLETED", "FAILED"}
    [] s = "CANCELLING" -> {"CANCELLED", "COMPLETED", "FAILED"}
    [] OTHER            -> {}

TaskAdvances ==
  /\ task' \in NextTaskStatus(task)
  /\ UNCHANGED <<jobVars, lockVars, poolVars, life, taskConfig, created,
                 callVars, pc, seen, ret>>

-----------------------------------------------------------------------------
(* Initially the job was made by createDeviceJob and perhaps given         *)
(* programs, or openDeviceJob retrieved it together with its task's status.*)

InitJob ==
  \/ /\ retrieved = FALSE
     /\ status = "CREATED"
     /\ programs \in Configs \union {NoPrograms}
     /\ task = "NONE" /\ taskConfig = NoPrograms /\ created = 0
  \/ /\ retrieved = TRUE
     /\ programs \in Configs
     /\ task \in TaskStatus \ {"NONE"} /\ taskConfig = programs /\ created = 1
     /\ status = IF task = "CANCELLING" THEN "SUBMITTED" ELSE QdmiStatus[task]

Init ==
  /\ InitJob
  /\ taskArn = retrieved
  /\ submitting = FALSE /\ submissionStarted = FALSE
  /\ submissionError = "SUCCESS" /\ jobHandle = "none" /\ stopPrefetch = FALSE
  /\ jobMutex = Nobody /\ statusMutex = Nobody /\ prefetchMutex = Nobody
  /\ request = NoPrograms /\ prefetchQueue = 0
  /\ life = "live"
  /\ pc = [t \in Threads |-> "idle"]
  /\ op = [t \in Pollers |-> IF t = Prefetch THEN "prefetch" ELSE "check"]
  /\ snapshot = [c \in Clients |-> NoPrograms]
  /\ seen = [t \in Pollers |-> "none"]
  /\ ret = [t \in Pollers |-> NoResult]
  /\ calls = 0

CheckStep(t) ==
  \/ CheckError(t) \/ CheckFailed(t) \/ CheckLock(t) \/ CheckArn(t)
  \/ CheckNoArn(t) \/ CheckExit(t) \/ CheckPoll(t) \/ CheckPollFails(t)
  \/ CheckUpdate(t)

SubmitStep(c) ==
  \/ SubmitRefused(c) \/ SubmitSnapshot(c) \/ SubmitPrepare(c)
  \/ SubmitNoDestination(c) \/ SubmitEnqueue(c) \/ SubmitRejected(c)
  \/ SubmitCatch(c) \/ SubmitStoreError(c) \/ SubmitStoreFailed(c)

CancelStep(c) ==
  \/ CancelQueued(c) \/ CancelNotQueued(c) \/ Await(c) \/ AwaitGet(c)
  \/ AwaitError(c) \/ CancelUnsubmitted(c) \/ CancelState(c) \/ CancelArn(c)
  \/ CancelRemote(c) \/ CancelRemoteFails(c)

ClientStep(c) ==
  \/ Configure(c) \/ ConfigureRefused(c)
  \/ SubmitStep(c)
  \/ CheckStep(c) \/ WaitBegins(c) \/ WaitError(c) \/ WaitChecked(c)
  \/ CancelStep(c)
  \/ FreeStops(c) \/ FreeWaits(c) \/ FreeLocks(c)

WorkerStep ==
  \/ WorkerSkips \/ WorkerStarts \/ WorkerCreates \/ WorkerRefused
  \/ WorkerRecords \/ WorkerStartsPrefetch \/ WorkerStoresError
  \/ WorkerFinishes

PrefetchStep ==
  \/ CheckStep(Prefetch)
  \/ PrefetchStarts \/ PrefetchDropped \/ PrefetchChecked \/ PrefetchFetches
  \/ PrefetchRequeues

(* Nothing is left to do: no call, no queued lambda, no running task.      *)
Quiescent ==
  /\ \A t \in Threads : pc[t] = "idle"
  /\ jobHandle # "pending" /\ prefetchQueue = 0
  /\ NextTaskStatus(task) = {}
  /\ calls = MaxCalls \/ life = "freed"
  /\ UNCHANGED vars

Next ==
  \/ \E c \in Clients : Call(c) \/ ClientStep(c)
  \/ WorkerStep \/ PrefetchStep \/ TaskAdvances
  \/ Quiescent

Spec == Init /\ [][Next]_vars

(* Threads that have begun an operation are scheduled; both pools run what *)
(* is queued, and Braket answers every request.  A thread that polls again *)
(* and again sleeps for 100 or 500 ms between two polls with statusMutex_  *)
(* free, so one that is blocked on it gets it in the end; and time passes, *)
(* so a wait with a limit that polls often enough finds it exceeded.       *)
ThreadFairness ==
  /\ \A c \in Clients : /\ WF_vars(ClientStep(c))
                         /\ SF_vars(CheckLock(c)) /\ SF_vars(TimesOut(c))
  /\ WF_vars(WorkerStep)
  /\ WF_vars(PrefetchStep)

(* There is no promise that Braket ever finishes the task.                 *)
FairSpec == Spec /\ ThreadFairness

-----------------------------------------------------------------------------
TypeOK ==
  /\ status \in Status
  /\ submitting \in BOOLEAN /\ submissionStarted \in BOOLEAN
  /\ retrieved \in BOOLEAN /\ taskArn \in BOOLEAN /\ stopPrefetch \in BOOLEAN
  /\ programs \in Configs \union {NoPrograms}
  /\ submissionError \in ErrorCodes
  /\ jobHandle \in {"none", "pending", "ready"}
  /\ jobMutex \in Threads \union {Nobody}
  /\ statusMutex \in Pollers \union {Nobody}
  /\ prefetchMutex \in {Prefetch, Nobody}
  /\ request \in Configs \union {NoPrograms}
  /\ prefetchQueue \in Nat
  /\ life \in {"live", "draining", "freed"}
  /\ task \in TaskStatus
  /\ taskConfig \in Configs \union {NoPrograms}
  /\ created \in Nat
  /\ pc \in [Threads -> Labels]
  /\ op \in [Pollers -> AllOps \union {"prefetch"}]
  /\ snapshot \in [Clients -> Configs \union {NoPrograms}]
  /\ seen \in [Pollers -> Status \union {"CANCELLING", "none"}]
  /\ ret \in [Pollers -> Result]
  /\ calls \in 0 .. MaxCalls

-----------------------------------------------------------------------------
(* The position of a status in the lifecycle the comment on status_ draws. *)
Rank == [s \in Status |->
  CASE s = "CREATED" -> 0 [] s = "SUBMITTED" -> 1 [] s = "QUEUED" -> 2
    [] s = "RUNNING" -> 3 [] OTHER -> 4]

(* A status never goes back, and a terminal status never changes: however  *)
(* many threads poll, no late answer of GetQuantumTask overwrites a newer  *)
(* one, and neither the worker nor cancel() overwrites what a poll stored. *)
StatusForward ==
  [][/\ Rank[status'] >= Rank[status]
     /\ status \in Terminal => status' = status]_status

(* One job creates at most one QuantumTask, however many threads submit.   *)
AtMostOneTask == created <= 1

(* What Braket runs is what the job shows: from the moment submit() copies *)
(* the request, no setter changes the programs, shots or destination.      *)
TaskMatchesJob == task # "NONE" => taskConfig = programs

(* A cancel() that returned SUCCESS took effect: the task never existed    *)
(* and never will, or Braket is canceling it or has finished it.           *)
CancelTakesEffect ==
  \A c \in Clients :
    (op[c] = "cancel" /\ ret[c].code = "SUCCESS") => task \notin Cancellable

(* A terminal status the job shows is the truth: DONE means the task       *)
(* completed; CANCELED means it was canceled by Braket or never created,   *)
(* not merely that a cancellation was requested.                           *)
TerminalStatusIsTrue ==
  /\ status = "DONE" => task = "COMPLETED"
  /\ status = "CANCELED" => task \in {"NONE", "CANCELLED"}

(* Outside of a section that is storing them, an error of the submission   *)
(* goes with FAILED and with the absence of a task ARN.                    *)
SubmissionErrorMeansFailed ==
  (submissionError # "SUCCESS" /\ jobMutex = Nobody) =>
    status = "FAILED" /\ ~taskArn

(* cancel() never gets to its last resort of a submitted job without ARN:  *)
(* awaitSubmission and the test of submitting_ before it leave only jobs   *)
(* whose task is known.                                                    *)
CancelKnowsTask ==
  \A c \in Clients : pc[c] = "cancelArn" => taskArn

(* submitting_ is set only while a thread is inside submit() or the        *)
(* submission is the executor's: a submit() that failed early, or a        *)
(* submission that was canceled or has ended, has reset it on every path,  *)
(* without which cancel() would refuse the job for ever.                   *)
SubmittingIsUnderWay ==
  submitting =>
    \/ jobHandle = "pending"
    \/ \E c \in Clients :
         pc[c] \in {"prepare", "enqueue", "catch", "storeError", "storeFailed"}

(* When the destructor returns, no worker is inside a lambda of the job,   *)
(* and a lambda still queued will return before it touches the job.        *)
NoUseAfterFree ==
  life = "freed" =>
    /\ pc[Worker] = "idle" /\ jobHandle # "pending"
    /\ pc[Prefetch] = "idle"
    /\ prefetchQueue > 0 => stopPrefetch

(* Every call ends, but an unlimited wait() only when Braket finishes the  *)
(* task: no thread stays blocked on a mutex or a future, and a wait does   *)
(* not miss the terminal status.                                           *)
CallsReturn ==
  \A c \in Clients :
    []<>(pc[c] = "idle" \/ (op[c] = "wait" /\ NextTaskStatus(task) # {}))

(* docs/usage.md says that failures of the submission appear through       *)
(* check() and wait() with status FAILED.                                  *)
FailureShowsFailed ==
  \A t \in Clients :
    (ret[t].code = "SUBMISSION" /\ op[t] = "check") =>
      ret[t].status = "FAILED"

(* The job keeps the promise of JobPromise: it is closed to changes while  *)
(* it is being submitted and ever after, and what has been sent is what    *)
(* Braket's task was created from.                                         *)
Promise == INSTANCE JobPromise WITH
  config <- programs,
  closed <- submitting \/ status # "CREATED",
  sent   <- taskConfig

KeepsPromise == Promise!Spec
=============================================================================
