----------------------------- MODULE SessionPools -----------------------------
(* The library, its sessions and the two executors of each session.         *)
(*                                                                          *)
(* One job is the subject of DeviceJob; here many jobs share what belongs   *)
(* to their session and what belongs to the process: the SDK and            *)
(* gAWSInitMutex, the session registry and sessionsMutex_, the job registry *)
(* and jobsMutex_, and two first-in first-out pools of PoolSize threads.    *)
(* A task at Braket may never finish.  What is asked of this code is that   *)
(* every call still returns, that no task keeps the others from being       *)
(* polled, and that nothing runs on an object that is gone.                 *)
(*                                                                          *)
(* The caller keeps the contract of the API: it does not use a job or a     *)
(* session after it began to free it, frees a session when no call on its   *)
(* jobs is in progress, and initializes the library first.  It may leave    *)
(* sessions and jobs to finalize.                                           *)
(*                                                                          *)
(* An operator whose name begins with Buggy is a wrong version of the one   *)
(* that follows it; no specification uses it.                               *)
EXTENDS Integers, Sequences, FiniteSets, FiniteSetsExt

CONSTANTS
  Sessions, Jobs,
  SessionOf,     \* the session a job is created in
  PoolSize       \* threads of one executor: 8 in the code

ASSUME PoolSizeAssumption == PoolSize \in Nat \ {0}
ASSUME SessionOfAssumption == SessionOf \in [Jobs -> Sessions]

VARIABLES
  library,       \* gAWSInitialized, and how far finalize() is
  session,       \* life of a session: sessions_, initialized_, sessionFree
  pools,         \* sessions whose executors exist
  job,           \* life of a job: jobs_, submit and freeDeviceJob
  stop,          \* jobs whose stopPrefetch_ was asked to stop
  canceled,      \* jobs canceled before their submission started
  submissions,   \* queue of submissionExecutor_
  submission,    \* where the submission of a job is; jobHandle_
  polls,         \* queue of resultExecutor_
  blocked,       \* workers that took a prefetch and wait for prefetchMutex_
  at,            \* where the prefetch is that holds the job's prefetchMutex_
  task,          \* the QuantumTask of a job
  outcome        \* how the prefetching of a job ended

callVars == <<library, session, pools, job, stop, canceled>>
workVars == <<submissions, submission, polls, blocked, at>>
vars == <<callVars, workVars, task, outcome>>

LibraryStates == {"down", "up", "finalizing", "clearing"}
SessionStates == {"none", "allocated", "initialized", "closing", "destroying", "gone"}
JobStates == {"none", "created", "opened", "submitting", "creating", "queueing",
              "submitted", "freeing", "destroying", "gone"}
SubmissionStates == {"none", "queued", "starting", "sending", "ending", "done"}
PrefetchPoints == {"none", "check", "fetch", "sleep", "again", "leaving"}

JobsOf(s) == {j \in Jobs : SessionOf[j] = s}

(* Calls on a job that must have returned before its session is freed.     *)
Quiet(s) == \A j \in JobsOf(s) :
              job[j] \notin {"submitting", "creating", "queueing",
                            "freeing", "destroying"}

(* Held by sessionFree and by clear() while they destroy what they erase.  *)
SessionsMutexFree ==
  library # "clearing" /\ \A s \in Sessions : session[s] # "destroying"

(* Held by freeDeviceJob while the destructor of the job waits, and by      *)
(* submit() while it creates the executors it did not find.                 *)
JobsMutexFree(s) == \A j \in JobsOf(s) : job[j] \notin {"creating", "destroying"}

Pending(j) == submission[j] \notin {"none", "done"}
Submitting(s) == {j \in JobsOf(s) : submission[j] \in {"starting", "sending", "ending"}}

Prefetching(s) == {j \in JobsOf(s) : at[j] # "none"}
BusyPrefetchers(s) ==
  Cardinality(Prefetching(s)) + MapThenSumSet(LAMBDA j : blocked[j], JobsOf(s))

Init ==
  /\ library = "down"
  /\ session = [s \in Sessions |-> "none"]
  /\ pools = {} /\ stop = {} /\ canceled = {}
  /\ job = [j \in Jobs |-> "none"]
  /\ submissions = [s \in Sessions |-> <<>>] /\ polls = [s \in Sessions |-> <<>>]
  /\ submission = [j \in Jobs |-> "none"]
  /\ blocked = [j \in Jobs |-> 0] /\ at = [j \in Jobs |-> "none"]
  /\ task = [j \in Jobs |-> "none"] /\ outcome = [j \in Jobs |-> "none"]

------------------------------------------------------------------------------
(* The library *)

Initialize ==
  /\ library = "down" /\ library' = "up"
  /\ UNCHANGED <<session, pools, job, stop, canceled, workVars, task, outcome>>

(* finalize() holds gAWSInitMutex from here until ShutdownAPI has run.      *)
Finalize ==
  /\ library = "up"
  /\ \A s \in Sessions : Quiet(s)
  /\ library' = "finalizing"
  /\ UNCHANGED <<session, pools, job, stop, canceled, workVars, task, outcome>>

(* Device::clear() gets sessionsMutex_.                                     *)
BeginClear ==
  /\ library = "finalizing" /\ SessionsMutexFree
  /\ library' = "clearing"
  /\ UNCHANGED <<session, pools, job, stop, canceled, workVars, task, outcome>>

BuggyCleared == TRUE
Cleared == \A s \in Sessions : session[s] \in {"none", "gone"}

(* sessions_ is empty: the SDK is shut down.                                *)
Shutdown ==
  /\ library = "clearing" /\ Cleared
  /\ library' = "down"
  /\ UNCHANGED <<session, pools, job, stop, canceled, workVars, task, outcome>>

------------------------------------------------------------------------------
(* Sessions *)

SetSession(s, from, to) == session[s] = from /\ session' = [session EXCEPT ![s] = to]

SessionAlloc(s) ==
  /\ library = "up" /\ SessionsMutexFree
  /\ SetSession(s, "none", "allocated")
  /\ UNCHANGED <<library, pools, job, stop, canceled, workVars, task, outcome>>

SessionInit(s) ==
  /\ library = "up"
  /\ SetSession(s, "allocated", "initialized")
  /\ UNCHANGED <<library, pools, job, stop, canceled, workVars, task, outcome>>

SessionFree(s) ==
  /\ library = "up" /\ Quiet(s)
  /\ \E from \in {"allocated", "initialized"} : SetSession(s, from, "closing")
  /\ UNCHANGED <<library, pools, job, stop, canceled, workVars, task, outcome>>

(* The destructor of a session first asks every job of it to stop.          *)
StopJobs(s) == stop \union {j \in JobsOf(s) : job[j] # "none"}

(* The session is erased under sessionsMutex_, by sessionFree or clear().   *)
BeginDestroy(s) ==
  /\ \/ SessionsMutexFree /\ session[s] = "closing"
     \/ /\ library = "clearing"
        /\ session[s] \in {"allocated", "initialized", "closing"}
        /\ \A r \in Sessions : session[r] # "destroying"
  /\ session' = [session EXCEPT ![s] = "destroying"]
  /\ stop' = StopJobs(s)
  /\ UNCHANGED <<library, pools, job, canceled, workVars, task, outcome>>

(* jobs_.clear() destroys one job after the other.                          *)
DestroyJobOf(s) ==
  /\ session[s] = "destroying" /\ JobsMutexFree(s)
  /\ \E j \in JobsOf(s) :
       /\ job[j] \in {"created", "opened", "submitted"}
       /\ job' = [job EXCEPT ![j] = "destroying"]
       /\ stop' = stop \union {j}
  /\ UNCHANGED <<library, session, pools, canceled, workVars, task, outcome>>

JobsCleared(s) == \A j \in JobsOf(s) : job[j] \in {"none", "gone"}

BuggyWorkersDone(s) == /\ Submitting(s) = {} /\ BusyPrefetchers(s) = 0
                       /\ \A j \in JobsOf(s) : task[j] # "running"
WorkersDone(s) == Submitting(s) = {} /\ BusyPrefetchers(s) = 0

(* The executors are destroyed with the session: each waits for what its    *)
(* threads run and drops what is still queued; the AWS clients go last.     *)
EndDestroy(s) ==
  /\ SetSession(s, "destroying", "gone")
  /\ JobsCleared(s)
  /\ WorkersDone(s)
  /\ pools' = pools \ {s}
  /\ submissions' = [submissions EXCEPT ![s] = <<>>]
  /\ polls' = [polls EXCEPT ![s] = <<>>]
  /\ UNCHANGED <<library, job, stop, canceled, submission, blocked, at, task, outcome>>

------------------------------------------------------------------------------
(* Jobs *)

SetJob(j, from, to) == job[j] = from /\ job' = [job EXCEPT ![j] = to]
InUse(j) == session[SessionOf[j]] = "initialized" /\ library = "up"

CreateDeviceJob(j) ==
  /\ InUse(j) /\ JobsMutexFree(SessionOf[j])
  /\ SetJob(j, "none", "created")
  /\ UNCHANGED <<library, session, pools, stop, canceled, workVars, task, outcome>>

(* A task that was submitted before: no submission, no prefetching.         *)
OpenDeviceJob(j) ==
  /\ InUse(j) /\ JobsMutexFree(SessionOf[j])
  /\ SetJob(j, "none", "opened")
  /\ UNCHANGED <<library, session, pools, stop, canceled, workVars, task, outcome>>

Submit(j) ==
  /\ InUse(j)
  /\ SetJob(j, "created", "submitting")
  /\ UNCHANGED <<library, session, pools, stop, canceled, workVars, task, outcome>>

BuggyFindPools(j) ==
  /\ SetJob(j, "submitting", IF SessionOf[j] \in pools THEN "queueing" ELSE "creating")
  /\ UNCHANGED <<library, session, pools, stop, canceled, workVars, task, outcome>>
(* submit() has jobsMutex_ and looks for the executors of the session.      *)
FindPools(j) ==
  /\ JobsMutexFree(SessionOf[j])
  /\ SetJob(j, "submitting", IF SessionOf[j] \in pools THEN "queueing" ELSE "creating")
  /\ UNCHANGED <<library, session, pools, stop, canceled, workVars, task, outcome>>

(* The first submission of a session creates both; an executor that was     *)
(* there would be destroyed, and what is queued in it dropped.              *)
CreatePools(j) ==
  /\ SetJob(j, "creating", "queueing")
  /\ pools' = pools \union {SessionOf[j]}
  /\ submissions' = [submissions EXCEPT ![SessionOf[j]] = <<>>]
  /\ polls' = [polls EXCEPT ![SessionOf[j]] = <<>>]
  /\ UNCHANGED <<library, session, stop, canceled, submission, blocked, at, task, outcome>>

Enqueue(j) ==
  /\ SetJob(j, "queueing", "submitted")
  /\ submission' = [submission EXCEPT ![j] = "queued"]
  /\ submissions' = [submissions EXCEPT ![SessionOf[j]] = Append(@, j)]
  /\ UNCHANGED <<library, session, pools, stop, canceled, polls, blocked, at, task, outcome>>

(* cancel() of a job whose submission waits in the queue needs no request.  *)
Cancel(j) ==
  /\ InUse(j) /\ job[j] = "submitted" /\ submission[j] \in {"queued", "starting"}
  /\ canceled' = canceled \union {j}
  /\ UNCHANGED <<library, session, pools, job, stop, workVars, task, outcome>>

FreeDeviceJob(j) ==
  /\ InUse(j)
  /\ \E from \in {"created", "opened", "submitted"} : SetJob(j, from, "freeing")
  /\ UNCHANGED <<library, session, pools, stop, canceled, workVars, task, outcome>>

(* freeDeviceJob has jobsMutex_ and erases the job: its destructor begins.  *)
EraseJob(j) ==
  /\ JobsMutexFree(SessionOf[j])
  /\ SetJob(j, "freeing", "destroying")
  /\ stop' = stop \union {j}
  /\ UNCHANGED <<library, session, pools, canceled, workVars, task, outcome>>

BuggyForgetPrefetch(j) == ~Pending(j)
BuggyAwaitTask(j) == ~Pending(j) /\ at[j] = "none" /\ task[j] # "running"
(* The destructor waits for the submission, then for prefetchMutex_.        *)
Drained(j) == ~Pending(j) /\ at[j] = "none"

JobDestroyed(j) ==
  /\ Drained(j)
  /\ SetJob(j, "destroying", "gone")
  /\ UNCHANGED <<library, session, pools, stop, canceled, workVars, task, outcome>>

------------------------------------------------------------------------------
(* The submission executor *)

SetSubmission(j, from, to) ==
  submission[j] = from /\ submission' = [submission EXCEPT ![j] = to]

TakeSubmission(s) ==
  /\ s \in pools /\ submissions[s] # <<>>
  /\ Cardinality(Submitting(s)) < PoolSize
  /\ SetSubmission(Head(submissions[s]), "queued", "starting")
  /\ submissions' = [submissions EXCEPT ![s] = Tail(@)]
  /\ UNCHANGED <<callVars, polls, blocked, at, task, outcome>>

(* Under jobMutex_: a canceled job is not submitted.                        *)
StartSubmission(j) ==
  /\ SetSubmission(j, "starting", IF j \in canceled THEN "done" ELSE "sending")
  /\ UNCHANGED <<callVars, submissions, polls, blocked, at, task, outcome>>

BuggyStartPrefetch(j) ==
  IF j \in stop THEN polls
  ELSE [polls EXCEPT ![SessionOf[j]] = <<j>> \o @]
(* startPrefetch() queues a prefetch behind everything that is queued.      *)
StartPrefetch(j) ==
  IF j \in stop THEN polls
  ELSE [polls EXCEPT ![SessionOf[j]] = Append(@, j)]

(* The answer to CreateQuantumTask: the task exists or was refused.         *)
Submitted(j) ==
  /\ SetSubmission(j, "sending", "ending")
  /\ \/ /\ task' = [task EXCEPT ![j] = "running"]
        /\ polls' = StartPrefetch(j)
     \/ UNCHANGED <<task, polls>>
  /\ UNCHANGED <<callVars, submissions, blocked, at, outcome>>

(* The last the worker does with the job is to make jobHandle_ ready.       *)
EndSubmission(j) ==
  /\ SetSubmission(j, "ending", "done")
  /\ UNCHANGED <<callVars, submissions, polls, blocked, at, task, outcome>>

------------------------------------------------------------------------------
(* The result executor *)

SetAt(j, from, to) == at[j] = from /\ at' = [at EXCEPT ![j] = to]

TakePrefetch(s) ==
  /\ s \in pools /\ polls[s] # <<>>
  /\ BusyPrefetchers(s) < PoolSize
  /\ blocked' = [blocked EXCEPT ![Head(polls[s])] = @ + 1]
  /\ polls' = [polls EXCEPT ![s] = Tail(@)]
  /\ UNCHANGED <<callVars, submissions, submission, at, task, outcome>>

(* The lambda locks prefetchMutex_, which it owns a share of, and leaves    *)
(* before it looks at the job when the job is to stop.                      *)
LockPrefetch(j) ==
  /\ blocked[j] > 0
  /\ blocked' = [blocked EXCEPT ![j] = @ - 1]
  /\ SetAt(j, "none", IF j \in stop THEN "leaving" ELSE "check")
  /\ UNCHANGED <<callVars, submissions, submission, polls, task, outcome>>

(* check() answers, or fails, which ends the prefetching of the job.        *)
Check(j) ==
  /\ \/ task[j] = "running" /\ SetAt(j, "check", "sleep") /\ UNCHANGED outcome
     \/ task[j] = "done" /\ SetAt(j, "check", "fetch") /\ UNCHANGED outcome
     \/ /\ task[j] = "failed" /\ SetAt(j, "check", "leaving")
        /\ outcome' = [outcome EXCEPT ![j] = "nothing"]
     \/ /\ SetAt(j, "check", "leaving")
        /\ outcome' = [outcome EXCEPT ![j] = "gaveUp"]
  /\ UNCHANGED <<callVars, submissions, submission, polls, blocked, task>>

Fetch(j) ==
  /\ SetAt(j, "fetch", "leaving")
  /\ outcome' = [outcome EXCEPT ![j] = "fetched"]
  /\ UNCHANGED <<callVars, submissions, submission, polls, blocked, task>>

(* 500 ms have passed, or the job is to stop.                               *)
Wake(j) ==
  /\ SetAt(j, "sleep", "again")
  /\ UNCHANGED <<callVars, submissions, submission, polls, blocked, task, outcome>>

(* The thread lets the other jobs poll before it polls this one again.      *)
Requeue(j) ==
  /\ SetAt(j, "again", "leaving")
  /\ polls' = StartPrefetch(j)
  /\ UNCHANGED <<callVars, submissions, submission, blocked, task, outcome>>

(* prefetchMutex_ is unlocked when the lambda returns.                      *)
Leave(j) ==
  /\ SetAt(j, "leaving", "none")
  /\ UNCHANGED <<callVars, submissions, submission, polls, blocked, task, outcome>>

------------------------------------------------------------------------------
(* Braket ends a task when it wants to, if ever.                            *)
TaskEnds(j) ==
  /\ task[j] = "running"
  /\ \E end \in {"done", "failed"} : task' = [task EXCEPT ![j] = end]
  /\ UNCHANGED <<callVars, workVars, outcome>>

(* Steps of calls that have begun and of the threads of the pools.          *)
LibraryStep == BeginClear \/ Shutdown
SessionStep(s) == BeginDestroy(s) \/ DestroyJobOf(s) \/ EndDestroy(s)
CallStep(j) == \/ FindPools(j) \/ CreatePools(j) \/ Enqueue(j)
               \/ EraseJob(j) \/ JobDestroyed(j)
SubmissionStep(j) == StartSubmission(j) \/ Submitted(j) \/ EndSubmission(j)
PrefetchStep(j) == \/ LockPrefetch(j) \/ Check(j) \/ Fetch(j)
                   \/ Wake(j) \/ Requeue(j) \/ Leave(j)

Next ==
  \/ Initialize \/ Finalize \/ LibraryStep
  \/ \E s \in Sessions : \/ SessionAlloc(s) \/ SessionInit(s) \/ SessionFree(s)
                         \/ SessionStep(s) \/ TakeSubmission(s) \/ TakePrefetch(s)
  \/ \E j \in Jobs : \/ CreateDeviceJob(j) \/ OpenDeviceJob(j) \/ Submit(j)
                     \/ Cancel(j) \/ FreeDeviceJob(j) \/ CallStep(j)
                     \/ SubmissionStep(j) \/ PrefetchStep(j) \/ TaskEnds(j)

Spec == Init /\ [][Next]_vars

(* Threads run, and Braket and S3 answer every request; that a task ends    *)
(* is not assumed.                                                          *)
Fairness ==
  /\ WF_vars(LibraryStep)
  /\ \A s \in Sessions : /\ WF_vars(SessionStep(s))
                         /\ WF_vars(TakeSubmission(s)) /\ WF_vars(TakePrefetch(s))
  /\ \A j \in Jobs : /\ WF_vars(CallStep(j)) /\ WF_vars(SubmissionStep(j))
                     /\ WF_vars(PrefetchStep(j))

FairSpec == Spec /\ Fairness
------------------------------------------------------------------------------
TypeOK ==
  /\ library \in LibraryStates
  /\ session \in [Sessions -> SessionStates] /\ job \in [Jobs -> JobStates]
  /\ pools \subseteq Sessions /\ stop \subseteq Jobs /\ canceled \subseteq Jobs
  /\ submissions \in [Sessions -> Seq(Jobs)] /\ polls \in [Sessions -> Seq(Jobs)]
  /\ submission \in [Jobs -> SubmissionStates]
  /\ blocked \in [Jobs -> Nat] /\ at \in [Jobs -> PrefetchPoints]
  /\ task \in [Jobs -> {"none", "running", "done", "failed"}]
  /\ outcome \in [Jobs -> {"none", "nothing", "gaveUp", "fetched"}]

(* Neither a submission nor a prefetch runs on a job that was destroyed,    *)
(* although lambdas that hold a pointer to it may still be queued or have   *)
(* been taken by a worker (~Job, the stop token and prefetchMutex_).        *)
WorkTouchesLiveJobs ==
  \A j \in Jobs :
    (Pending(j) \/ at[j] \in {"check", "fetch", "sleep", "again"}) => job[j] # "gone"

(* A request to AWS is made only while its session, with the AWS clients,   *)
(* exists and the SDK is initialized, even when sessions with work under    *)
(* way are left to finalize().                                              *)
RequestsHaveClients ==
  \A j \in Jobs :
    submission[j] = "sending" \/ at[j] \in {"check", "fetch"} =>
      library # "down" /\ session[SessionOf[j]] # "gone"

(* A submission that was accepted is run or waits in the session's executor *)
(* until a worker takes it, whichever job created the executors: one that   *)
(* was dropped would leave its job SUBMITTED and its destructor waiting for *)
(* ever (submit() looks for and creates them under jobsMutex_).             *)
SubmissionsAreKept ==
  \A j \in Jobs : submission[j] = "queued" =>
    /\ SessionOf[j] \in pools
    /\ \E i \in DOMAIN submissions[SessionOf[j]] : submissions[SessionOf[j]][i] = j

(* A task that has ended is noticed by its prefetch, though a thread sleeps *)
(* with each task that runs and those may be more than the threads.         *)
PrefetchIsFair ==
  \A j \in Jobs : task[j] \in {"done", "failed"} ~> outcome[j] # "none" \/ j \in stop

(* Submitting and freeing a job return, although one thread waits in the    *)
(* destructor of another job with jobsMutex_ locked.                        *)
JobCallsReturn ==
  \A j \in Jobs : /\ job[j] = "submitting" ~> job[j] = "submitted"
                 /\ job[j] = "freeing" ~> job[j] = "gone"

(* sessionFree and finalize return, whatever they find under way and        *)
(* although no task ever ends.                                              *)
ClosingReturns ==
  /\ \A s \in Sessions : session[s] = "closing" ~> session[s] = "gone"
  /\ library = "finalizing" ~> library = "down"
=============================================================================
