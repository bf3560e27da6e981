-------------------------- MODULE SessionPoolsProofs --------------------------
(* What SessionPools keeps for every number of sessions, jobs and threads:  *)
(* no work on a job that was destroyed, no request to AWS without a session *)
(* and an initialized SDK, and no accepted submission dropped.              *)
EXTENDS SessionPools, TLAPS

(* A destructor asks the job's prefetching to stop before it waits for it,  *)
(* and nothing withdraws the request.                                       *)
StopInv == \A j \in Jobs : job[j] \in {"destroying", "gone"} => j \in stop

Working(j) == at[j] \in {"check", "fetch", "sleep", "again"}

(* A submission under way is that of a job that was submitted and is there; *)
(* a prefetch that uses a job uses one that is there.                       *)
WorkInv ==
  \A j \in Jobs :
    /\ Pending(j) => job[j] \in {"submitted", "freeing", "destroying"}
    /\ Working(j) => job[j] \notin {"none", "gone"}

(* The result executor holds only prefetches of jobs that were created.     *)
QueueInv ==
  /\ \A s \in Sessions : \A i \in 1 .. Len(polls[s]) : job[polls[s][i]] # "none"
  /\ \A j \in Jobs : blocked[j] > 0 => job[j] # "none"

(* Jobs live in sessions, and sessions in an initialized library.           *)
OwnerInv ==
  /\ \A j \in Jobs :
       session[SessionOf[j]] \in {"none", "gone"} => job[j] \in {"none", "gone"}
  /\ library = "down" => \A s \in Sessions : session[s] \in {"none", "gone"}

(* A job that creates the executors of its session is alone in that and     *)
(* found none, so it replaces none; one that enqueues has them.             *)
PoolsInv ==
  /\ \A j, k \in Jobs :
       job[j] = "creating" /\ job[k] = "creating" /\ SessionOf[j] = SessionOf[k] => j = k
  /\ \A j \in Jobs : /\ job[j] = "creating" => SessionOf[j] \notin pools
                     /\ job[j] = "queueing" => SessionOf[j] \in pools

IInv == /\ TypeOK /\ StopInv /\ WorkInv /\ QueueInv /\ OwnerInv
        /\ PoolsInv /\ SubmissionsAreKept

(* The steps, by what they leave alone.                                     *)
SessionsChange ==
  \/ Initialize \/ Finalize \/ LibraryStep
  \/ \E s \in Sessions : SessionAlloc(s) \/ SessionInit(s) \/ SessionFree(s)
                           \/ BeginDestroy(s)

JobsChange ==
  \E j \in Jobs : CreateDeviceJob(j) \/ OpenDeviceJob(j) \/ Submit(j)
                    \/ FindPools(j) \/ Cancel(j) \/ FreeDeviceJob(j) \/ EraseJob(j)

WorkChanges ==
  \/ \E s \in Sessions : TakeSubmission(s) \/ TakePrefetch(s)
  \/ \E j \in Jobs : SubmissionStep(j) \/ PrefetchStep(j) \/ TaskEnds(j)

Ends ==
  \/ \E s \in Sessions : DestroyJobOf(s) \/ EndDestroy(s)
  \/ \E j \in Jobs : Enqueue(j) \/ JobDestroyed(j)

LEMMA NextSplits ==
  Next => \/ SessionsChange \/ JobsChange \/ WorkChanges \/ Ends
          \/ \E j \in Jobs : CreatePools(j)
  BY DEF Next, SessionsChange, JobsChange, WorkChanges, Ends, SessionStep, CallStep

(* A queue of jobs stays one when a job is appended.                        *)
LEMMA AppendTyped ==
  ASSUME NEW q \in [Sessions -> Seq(Jobs)], NEW s \in Sessions, NEW j \in Jobs
  PROVE  [q EXCEPT ![s] = Append(@, j)] \in [Sessions -> Seq(Jobs)]
<1>1. Append(q[s], j) \in Seq(Jobs)
  OBVIOUS
<1> QED
  BY <1>1

USE DEF LibraryStates, SessionStates, JobStates, SubmissionStates, PrefetchPoints

LEMMA InitIInv == Init => IInv
  BY SessionOfAssumption DEF Init, IInv, TypeOK, StopInv, WorkInv, QueueInv, OwnerInv,
    Pending, Working, PoolsInv, SubmissionsAreKept

(* Steps of the library and of sessions leave jobs and the work alone.      *)
LEMMA SessionsChangeIInv == IInv /\ SessionsChange => IInv'
<1> SUFFICES ASSUME IInv, SessionsChange PROVE IInv'
  OBVIOUS
<1> USE SessionOfAssumption
<1>1. UNCHANGED <<job, submissions, submission, polls, blocked, at, task, outcome>>
  BY DEF SessionsChange, LibraryStep, Initialize, Finalize, BeginClear, Shutdown,
    SessionAlloc, SessionInit, SessionFree, BeginDestroy, workVars
<1>2. library' \in LibraryStates
  BY DEF IInv, TypeOK, SessionsChange, LibraryStep, Initialize, Finalize, BeginClear,
    Shutdown, SessionAlloc, SessionInit, SessionFree, BeginDestroy
<1>7. \/ session' = session
      \/ \E s \in Sessions, to \in SessionStates : session' = [session EXCEPT ![s] = to]
  BY DEF SessionsChange, LibraryStep, Initialize, Finalize, BeginClear, Shutdown,
    SessionAlloc, SessionInit, SessionFree, BeginDestroy, SetSession
<1>8. session' \in [Sessions -> SessionStates]
  BY <1>7 DEF IInv, TypeOK
<1>3. UNCHANGED <<pools, canceled>> /\ stop \subseteq stop' /\ stop' \subseteq Jobs
  BY DEF IInv, TypeOK, SessionsChange, LibraryStep, Initialize, Finalize, BeginClear,
    Shutdown, SessionAlloc, SessionInit, SessionFree, BeginDestroy, StopJobs, JobsOf
<1>4. TypeOK'
  BY <1>1, <1>2, <1>3, <1>8 DEF IInv, TypeOK
<1>5. StopInv' /\ WorkInv' /\ QueueInv'
  BY <1>1, <1>3 DEF IInv, StopInv, WorkInv, QueueInv, Pending, Working
<1>9. PoolsInv' /\ SubmissionsAreKept'
  BY <1>1, <1>3 DEF IInv, PoolsInv, SubmissionsAreKept
<1>6. OwnerInv'
  BY <1>1 DEF IInv, TypeOK, OwnerInv, SessionsChange, LibraryStep, Initialize, Finalize,
    BeginClear, Shutdown, Cleared, SessionAlloc, SessionInit, SessionFree,
    BeginDestroy, SetSession
<1> QED
  BY <1>4, <1>5, <1>6, <1>9 DEF IInv

(* Calls on a job that nobody works for, or that leave it there.            *)
LEMMA JobsChangeIInv == IInv /\ JobsChange => IInv'
<1> SUFFICES ASSUME IInv, NEW j \in Jobs,
                    \/ CreateDeviceJob(j) \/ OpenDeviceJob(j) \/ Submit(j)
                    \/ FindPools(j) \/ Cancel(j) \/ FreeDeviceJob(j) \/ EraseJob(j)
             PROVE  IInv'
  BY DEF JobsChange
<1> USE SessionOfAssumption
<1> USE DEF CreateDeviceJob, OpenDeviceJob, Submit, FindPools, Cancel, FreeDeviceJob,
    EraseJob, SetJob, InUse
<1>1. UNCHANGED <<library, session, submissions, submission, polls, blocked, at, task, outcome>>
  BY DEF workVars
<1>2. job' \in [Jobs -> JobStates]
  <2>1. job \in [Jobs -> JobStates]
    BY DEF IInv, TypeOK
  <2>2. job' = job \/ \E to \in JobStates : job' = [job EXCEPT ![j] = to]
    OBVIOUS
  <2> HIDE DEF JobStates
  <2> QED
    BY <2>1, <2>2
<1>8. stop' \subseteq Jobs /\ pools' = pools /\ canceled' \subseteq Jobs
  BY DEF IInv, TypeOK
<1>9. TypeOK'
  BY <1>1, <1>2, <1>8 DEF IInv, TypeOK
<1>3. StopInv'
  BY <1>1 DEF IInv, TypeOK, StopInv
<1>4. WorkInv'
  BY <1>1 DEF IInv, TypeOK, WorkInv, Pending, Working
<1>5. \A k \in Jobs : job[k] # "none" => job'[k] # "none"
  BY DEF IInv, TypeOK
<1>6. QueueInv'
  <2>1. \A s \in Sessions : \A i \in 1 .. Len(polls[s]) : polls[s][i] \in Jobs
    BY DEF IInv, TypeOK
  <2> QED
    BY <1>1, <1>5, <2>1 DEF IInv, QueueInv
<1>7. OwnerInv'
  BY <1>1 DEF IInv, TypeOK, OwnerInv
<1>10. SubmissionsAreKept'
  BY <1>1, <1>8 DEF IInv, SubmissionsAreKept
<1>11. PoolsInv'
  <2>1. \A k \in Jobs \ {j} : job'[k] = job[k]
    BY DEF IInv, TypeOK
  <2>2. job'[j] = "creating" =>
          \/ job[j] = "creating"
          \/ /\ SessionOf[j] \notin pools
             /\ \A k \in Jobs : SessionOf[k] = SessionOf[j] => job[k] # "creating"
    BY DEF IInv, TypeOK, JobsMutexFree, JobsOf
  <2>3. job'[j] = "queueing" => job[j] = "queueing" \/ SessionOf[j] \in pools
    BY DEF IInv, TypeOK
  <2> QED
    BY <1>8, <2>1, <2>2, <2>3 DEF IInv, PoolsInv
<1> QED
  BY <1>9, <1>3, <1>4, <1>6, <1>7, <1>10, <1>11 DEF IInv

(* What the threads of the executors do leaves the jobs alone.              *)
LEMMA WorkChangesIInv == IInv /\ WorkChanges => IInv'
<1> SUFFICES ASSUME IInv, WorkChanges PROVE IInv'
  OBVIOUS
<1> USE SessionOfAssumption
<1>1. UNCHANGED callVars
  BY DEF WorkChanges, TakeSubmission, TakePrefetch, SubmissionStep, StartSubmission,
    Submitted, EndSubmission, PrefetchStep, LockPrefetch, Check, Fetch, Wake, Requeue,
    Leave, TaskEnds
<1>2. StopInv' /\ OwnerInv' /\ PoolsInv'
  BY <1>1 DEF IInv, StopInv, OwnerInv, PoolsInv, callVars
<1>3. CASE \E s \in Sessions : TakeSubmission(s)
  <2>1. PICK s \in Sessions : TakeSubmission(s)
    BY <1>3
  <2>2. Head(submissions[s]) \in Jobs /\ Tail(submissions[s]) \in Seq(Jobs)
    BY <2>1 DEF IInv, TypeOK, TakeSubmission
  <2>3. TypeOK'
    BY <1>1, <2>1, <2>2 DEF IInv, TypeOK, TakeSubmission, SetSubmission, callVars
  <2>4. WorkInv' /\ QueueInv'
    BY <1>1, <2>1, <2>2 DEF IInv, TypeOK, WorkInv, QueueInv, Pending, Working,
      TakeSubmission, SetSubmission, callVars
  <2>5. SubmissionsAreKept'
    <3> DEFINE q == submissions[s]
    <3> SUFFICES ASSUME NEW k \in Jobs, submission'[k] = "queued"
                 PROVE  /\ SessionOf[k] \in pools
                        /\ \E i \in DOMAIN submissions'[SessionOf[k]] :
                             submissions'[SessionOf[k]][i] = k
      BY <1>1 DEF SubmissionsAreKept, callVars
    <3>1. submission[k] = "queued" /\ k # Head(q)
      BY <2>1, <2>2 DEF IInv, TypeOK, TakeSubmission, SetSubmission
    <3>2. SessionOf[k] \in pools
      BY <3>1 DEF IInv, SubmissionsAreKept
    <3>3. PICK i \in DOMAIN submissions[SessionOf[k]] : submissions[SessionOf[k]][i] = k
      BY <3>1 DEF IInv, SubmissionsAreKept
    <3>4. submissions' = [submissions EXCEPT ![s] = Tail(q)]
      BY <2>1 DEF TakeSubmission
    <3>5. submissions \in [Sessions -> Seq(Jobs)]
      BY DEF IInv, TypeOK
    <3>6. CASE SessionOf[k] # s
      BY <3>2, <3>3, <3>4, <3>5, <3>6
    <3>7. CASE SessionOf[k] = s
      <4>1. q \in Seq(Jobs) /\ q # <<>> /\ i \in 1 .. Len(q) /\ q[i] = k
        BY <2>1, <3>3, <3>5, <3>7 DEF TakeSubmission
      <4>2. submissions'[s] = Tail(q)
        BY <3>4, <3>5
      <4> HIDE DEF q
      <4>3. i - 1 \in DOMAIN Tail(q) /\ Tail(q)[i - 1] = k
        BY <3>1, <4>1
      <4> QED
        BY <3>2, <3>7, <4>2, <4>3
    <3> QED
      BY <3>6, <3>7
  <2> QED
    BY <1>2, <2>3, <2>4, <2>5 DEF IInv
<1>4. CASE \E s \in Sessions : TakePrefetch(s)
  <2>1. PICK s \in Sessions : TakePrefetch(s)
    BY <1>4
  <2> DEFINE q == polls[s]
  <2>2. q \in Seq(Jobs) /\ q # <<>> /\ Head(q) \in Jobs /\ Tail(q) \in Seq(Jobs)
    BY <2>1 DEF IInv, TypeOK, TakePrefetch
  <2>3. job[Head(q)] # "none" /\ \A i \in 1 .. Len(Tail(q)) : job[Tail(q)[i]] # "none"
    <3>1. \A i \in 1 .. Len(q) : job[q[i]] # "none"
      BY DEF IInv, QueueInv
    <3>2. Head(q) = q[1] /\ 1 \in 1 .. Len(q)
      BY <2>2
    <3>3. \A i \in 1 .. Len(Tail(q)) : Tail(q)[i] = q[i + 1] /\ i + 1 \in 1 .. Len(q)
      BY <2>2
    <3> QED
      BY <3>1, <3>2, <3>3
  <2>4. TypeOK'
    <3>1. polls' \in [Sessions -> Seq(Jobs)]
      BY <2>1, <2>2 DEF IInv, TypeOK, TakePrefetch
    <3>2. blocked' \in [Jobs -> Nat]
      <4>1. blocked' = [blocked EXCEPT ![Head(q)] = blocked[Head(q)] + 1]
        BY <2>1 DEF TakePrefetch
      <4>2. blocked \in [Jobs -> Nat] /\ blocked[Head(q)] + 1 \in Nat
        BY <2>2 DEF IInv, TypeOK
      <4> HIDE DEF q
      <4> QED
        BY <4>1, <4>2
    <3> QED
      BY <1>1, <2>1, <3>1, <3>2 DEF IInv, TypeOK, TakePrefetch, callVars
  <2>5. WorkInv'
    BY <1>1, <2>1 DEF IInv, WorkInv, Pending, Working, TakePrefetch, callVars
  <2>6. \A r \in Sessions : polls'[r] = IF r = s THEN Tail(q) ELSE polls[r]
    BY <2>1 DEF IInv, TypeOK, TakePrefetch
  <2>7. \A k \in Jobs : blocked'[k] > 0 => blocked[k] > 0 \/ k = Head(q)
    BY <2>1, <2>2 DEF IInv, TypeOK, TakePrefetch
  <2>8. QueueInv'
    <3>1. \A r \in Sessions : \A i \in 1 .. Len(polls'[r]) : job[polls'[r][i]] # "none"
      <4> SUFFICES ASSUME NEW r \in Sessions, NEW i \in 1 .. Len(polls'[r])
                   PROVE  job[polls'[r][i]] # "none"
        OBVIOUS
      <4>1. CASE r = s
        BY <2>3, <2>6, <4>1
      <4>2. CASE r # s
        BY <2>6, <4>2 DEF IInv, QueueInv
      <4> QED
        BY <4>1, <4>2
    <3>2. \A k \in Jobs : blocked'[k] > 0 => job[k] # "none"
      BY <2>3, <2>7 DEF IInv, QueueInv
    <3> QED
      BY <1>1, <3>1, <3>2 DEF QueueInv, callVars
  <2>9. SubmissionsAreKept'
    BY <1>1, <2>1 DEF IInv, SubmissionsAreKept, TakePrefetch, callVars
  <2> QED
    BY <1>2, <2>4, <2>5, <2>8, <2>9 DEF IInv
<1>5. CASE \E j \in Jobs : SubmissionStep(j) \/ PrefetchStep(j) \/ TaskEnds(j)
  <2>1. PICK j \in Jobs : SubmissionStep(j) \/ PrefetchStep(j) \/ TaskEnds(j)
    BY <1>5
  <2>2. polls' = polls \/ (polls' = StartPrefetch(j) /\ job[j] # "none")
    BY <2>1 DEF IInv, TypeOK, WorkInv, Pending, Working, SubmissionStep, StartSubmission,
      Submitted, EndSubmission, SetSubmission, PrefetchStep, LockPrefetch, Check, Fetch,
      Wake, Requeue, Leave, SetAt, TaskEnds, workVars
  <2>3. polls' \in [Sessions -> Seq(Jobs)]
    <3>1. CASE polls' = StartPrefetch(j)
      <4>1. polls \in [Sessions -> Seq(Jobs)] /\ SessionOf[j] \in Sessions
        BY DEF IInv, TypeOK
      <4> QED
        BY <3>1, <4>1, AppendTyped DEF StartPrefetch
    <3> QED
      BY <2>2, <3>1 DEF IInv, TypeOK
  <2>4. /\ UNCHANGED submissions
        /\ submission' \in [Jobs -> SubmissionStates] /\ blocked' \in [Jobs -> Nat]
        /\ at' \in [Jobs -> PrefetchPoints]
        /\ task' \in [Jobs -> {"none", "running", "done", "failed"}]
        /\ outcome' \in [Jobs -> {"none", "nothing", "gaveUp", "fetched"}]
    <3>1. submission' \in [Jobs -> SubmissionStates]
      <4>1. \/ submission' = submission
            \/ \E to \in SubmissionStates : submission' = [submission EXCEPT ![j] = to]
        BY <2>1 DEF SubmissionStep, StartSubmission, Submitted, EndSubmission,
          SetSubmission, PrefetchStep, LockPrefetch, Check, Fetch, Wake, Requeue, Leave,
          SetAt, TaskEnds, workVars
      <4> QED
        BY <4>1 DEF IInv, TypeOK
    <3>2. blocked' \in [Jobs -> Nat]
      <4>1. \/ blocked' = blocked
            \/ blocked[j] > 0 /\ blocked' = [blocked EXCEPT ![j] = blocked[j] - 1]
        BY <2>1 DEF SubmissionStep, StartSubmission, Submitted, EndSubmission,
          PrefetchStep, LockPrefetch, Check, Fetch, Wake, Requeue, Leave, TaskEnds,
          workVars
      <4>2. blocked \in [Jobs -> Nat]
        BY DEF IInv, TypeOK
      <4>3. blocked[j] > 0 => blocked[j] - 1 \in Nat
        BY <4>2
      <4> QED
        BY <4>1, <4>2, <4>3
    <3>3. at' \in [Jobs -> PrefetchPoints]
      <4>1. \/ at' = at
            \/ \E to \in PrefetchPoints : at' = [at EXCEPT ![j] = to]
        BY <2>1 DEF SubmissionStep, StartSubmission, Submitted, EndSubmission,
          SetSubmission, PrefetchStep, LockPrefetch, Check, Fetch, Wake, Requeue, Leave,
          SetAt, TaskEnds, workVars
      <4> QED
        BY <4>1 DEF IInv, TypeOK
    <3>4. task' \in [Jobs -> {"none", "running", "done", "failed"}]
      <4>1. \/ task' = task
            \/ \E to \in {"none", "running", "done", "failed"} : task' = [task EXCEPT ![j] = to]
        BY <2>1 DEF SubmissionStep, StartSubmission, Submitted, EndSubmission,
          SetSubmission, PrefetchStep, LockPrefetch, Check, Fetch, Wake, Requeue, Leave,
          SetAt, TaskEnds, workVars
      <4> QED
        BY <4>1 DEF IInv, TypeOK
    <3>5. outcome' \in [Jobs -> {"none", "nothing", "gaveUp", "fetched"}]
      <4>1. \/ outcome' = outcome
            \/ \E to \in {"none", "nothing", "gaveUp", "fetched"} : outcome' = [outcome EXCEPT ![j] = to]
        BY <2>1 DEF SubmissionStep, StartSubmission, Submitted, EndSubmission,
          SetSubmission, PrefetchStep, LockPrefetch, Check, Fetch, Wake, Requeue, Leave,
          SetAt, TaskEnds, workVars
      <4> QED
        BY <4>1 DEF IInv, TypeOK
    <3>6. UNCHANGED submissions
      BY <2>1 DEF SubmissionStep, StartSubmission, Submitted, EndSubmission,
        SetSubmission, PrefetchStep, LockPrefetch, Check, Fetch, Wake, Requeue, Leave,
        SetAt, TaskEnds, workVars
    <3> QED
      BY <3>1, <3>2, <3>3, <3>4, <3>5, <3>6
  <2>5. TypeOK'
    BY <1>1, <2>3, <2>4 DEF IInv, TypeOK, callVars
  <2>6. \A k \in Jobs : /\ (Pending(k))' => Pending(k)
                        /\ (Working(k))' => Working(k) \/ (blocked[k] > 0 /\ k \notin stop)
                        /\ blocked'[k] > 0 => blocked[k] > 0
    BY <2>1 DEF IInv, TypeOK, Pending, Working, SubmissionStep, StartSubmission,
      Submitted, EndSubmission, SetSubmission, PrefetchStep, LockPrefetch, Check, Fetch,
      Wake, Requeue, Leave, SetAt, TaskEnds, workVars
  <2>7. WorkInv'
    BY <1>1, <2>6 DEF IInv, StopInv, WorkInv, QueueInv, callVars
  <2>8. \A s \in Sessions : \A i \in 1 .. Len(polls'[s]) : job[polls'[s][i]] # "none"
    <3> SUFFICES ASSUME NEW s \in Sessions, NEW i \in 1 .. Len(polls'[s])
                 PROVE  job[polls'[s][i]] # "none"
      OBVIOUS
    <3>1. CASE polls'[s] = polls[s]
      BY <3>1 DEF IInv, QueueInv
    <3>2. CASE polls'[s] = Append(polls[s], j) /\ job[j] # "none"
      <4>1. polls[s] \in Seq(Jobs)
        BY DEF IInv, TypeOK
      <4>2. (i \in 1 .. Len(polls[s]) /\ polls'[s][i] = polls[s][i]) \/ polls'[s][i] = j
        BY <3>2, <4>1
      <4> QED
        BY <3>2, <4>2 DEF IInv, QueueInv
    <3>3. polls \in [Sessions -> Seq(Jobs)]
      BY DEF IInv, TypeOK
    <3>4. \/ polls'[s] = polls[s]
          \/ polls'[s] = Append(polls[s], j) /\ job[j] # "none"
      BY <2>2, <3>3 DEF StartPrefetch
    <3> QED
      BY <3>1, <3>2, <3>4
  <2>9. QueueInv'
    BY <1>1, <2>6, <2>8 DEF IInv, QueueInv, callVars
  <2>10. \A k \in Jobs : submission'[k] = "queued" => submission[k] = "queued"
    BY <2>1 DEF IInv, TypeOK, SubmissionStep, StartSubmission, Submitted, EndSubmission,
      SetSubmission, PrefetchStep, LockPrefetch, Check, Fetch, Wake, Requeue, Leave,
      SetAt, TaskEnds, workVars
  <2>11. SubmissionsAreKept'
    BY <1>1, <2>4, <2>10 DEF IInv, SubmissionsAreKept, callVars
  <2> QED
    BY <1>2, <2>5, <2>7, <2>9, <2>11 DEF IInv
<1> QED
  BY <1>3, <1>4, <1>5 DEF WorkChanges

(* Enqueueing, and the destructors' steps.                                  *)
LEMMA EndsIInv == IInv /\ Ends => IInv'
<1> SUFFICES ASSUME IInv, Ends PROVE IInv'
  OBVIOUS
<1> USE SessionOfAssumption
<1>1. CASE \E s \in Sessions : DestroyJobOf(s)
  <2> USE <1>1 DEF DestroyJobOf, workVars
  <2>1. TypeOK' /\ StopInv'
    BY DEF IInv, TypeOK, StopInv, JobsOf
  <2>2. WorkInv'
    BY DEF IInv, TypeOK, WorkInv, Pending, Working, JobsOf
  <2>3. (\A k \in Jobs : job[k] # "none" => job'[k] # "none") /\ UNCHANGED <<polls, blocked>>
    BY DEF IInv, TypeOK, JobsOf
  <2>4. \A s \in Sessions : \A i \in 1 .. Len(polls[s]) : polls[s][i] \in Jobs
    BY DEF IInv, TypeOK
  <2>5. QueueInv'
    BY <2>3, <2>4 DEF IInv, QueueInv
  <2>6. OwnerInv'
    BY DEF IInv, TypeOK, OwnerInv, JobsOf
  <2>7. PoolsInv' /\ SubmissionsAreKept'
    BY DEF IInv, TypeOK, PoolsInv, SubmissionsAreKept, JobsOf
  <2> QED
    BY <2>1, <2>2, <2>5, <2>6, <2>7 DEF IInv
<1>2. CASE \E s \in Sessions : EndDestroy(s)
  <2>1. PICK s \in Sessions : EndDestroy(s)
    BY <1>2
  <2> USE <2>1 DEF EndDestroy, SetSession
  <2>2. TypeOK' /\ StopInv' /\ WorkInv'
    BY DEF IInv, TypeOK, StopInv, WorkInv, Pending, Working
  <2>3. QueueInv'
    BY DEF IInv, TypeOK, QueueInv
  <2>4. OwnerInv'
    BY DEF IInv, TypeOK, OwnerInv, JobsCleared, JobsOf
  <2>5. \A k \in Jobs : SessionOf[k] = s =>
          job[k] \in {"none", "gone"} /\ submission[k] # "queued"
    BY DEF IInv, WorkInv, Pending, JobsCleared, JobsOf
  <2>6. PoolsInv'
    BY <2>5 DEF IInv, PoolsInv
  <2>7. SubmissionsAreKept'
    BY <2>5 DEF IInv, TypeOK, SubmissionsAreKept
  <2> QED
    BY <2>2, <2>3, <2>4, <2>6, <2>7 DEF IInv
<1>3. CASE \E j \in Jobs : Enqueue(j) \/ JobDestroyed(j)
  <2>1. PICK j \in Jobs : Enqueue(j) \/ JobDestroyed(j)
    BY <1>3
  <2> USE <2>1 DEF Enqueue, JobDestroyed, SetJob, workVars
  <2>2. TypeOK'
    <3>1. job' \in [Jobs -> JobStates] /\ submission' \in [Jobs -> SubmissionStates]
      BY DEF IInv, TypeOK
    <3>2. submissions' \in [Sessions -> Seq(Jobs)]
      <4>1. \/ submissions' = submissions
            \/ submissions' = [submissions EXCEPT ![SessionOf[j]] = Append(@, j)]
        OBVIOUS
      <4>2. submissions \in [Sessions -> Seq(Jobs)] /\ SessionOf[j] \in Sessions
        BY DEF IInv, TypeOK
      <4>3. [submissions EXCEPT ![SessionOf[j]] = Append(@, j)] \in [Sessions -> Seq(Jobs)]
        BY <4>2, AppendTyped
      <4> QED
        BY <4>1, <4>2, <4>3
    <3>3. UNCHANGED <<library, session, pools, stop, canceled, polls, blocked, at, task,
                      outcome>>
      OBVIOUS
    <3>4. TypeOK
      BY DEF IInv
    <3> QED
      BY ONLY <3>1, <3>2, <3>3, <3>4 DEF TypeOK
  <2>8. StopInv'
    BY DEF IInv, TypeOK, StopInv
  <2>9. session' = session /\ library' = library
    OBVIOUS
  <2>10. job'[j] = "gone" \/ (job[j] \notin {"none", "gone"} /\ job'[j] = "submitted")
    BY DEF IInv, TypeOK
  <2>11. \A k \in Jobs \ {j} : job'[k] = job[k]
    BY DEF IInv, TypeOK
  <2>3. OwnerInv'
    BY <2>9, <2>10, <2>11 DEF IInv, OwnerInv
  <2>4. WorkInv'
    BY DEF IInv, TypeOK, WorkInv, Drained, Pending, Working
  <2>5. (\A k \in Jobs : job[k] # "none" => job'[k] # "none") /\ UNCHANGED <<polls, blocked>>
    BY DEF IInv, TypeOK
  <2>6. \A s \in Sessions : \A i \in 1 .. Len(polls[s]) : polls[s][i] \in Jobs
    BY DEF IInv, TypeOK
  <2>7. QueueInv'
    BY <2>5, <2>6 DEF IInv, QueueInv
  <2>12. PoolsInv'
    BY <2>10, <2>11 DEF IInv, PoolsInv
  <2>13. SubmissionsAreKept'
    <3>1. CASE JobDestroyed(j)
      BY <3>1 DEF IInv, SubmissionsAreKept
    <3>2. CASE Enqueue(j)
      <4>1. submissions \in [Sessions -> Seq(Jobs)] /\ SessionOf[j] \in pools
        BY <3>2 DEF IInv, TypeOK, PoolsInv
      <4>2. submissions' = [submissions EXCEPT ![SessionOf[j]] = Append(@, j)]
        BY <3>2
      <4>3. \A r \in Sessions : \A i \in DOMAIN submissions[r] :
              i \in DOMAIN submissions'[r] /\ submissions'[r][i] = submissions[r][i]
        <5> SUFFICES ASSUME NEW r \in Sessions, NEW i \in DOMAIN submissions[r]
                     PROVE  i \in DOMAIN submissions'[r]
                              /\ submissions'[r][i] = submissions[r][i]
          OBVIOUS
        <5>1. submissions[r] \in Seq(Jobs) /\ i \in 1 .. Len(submissions[r])
          BY <4>1
        <5>2. submissions'[r] = submissions[r] \/ submissions'[r] = Append(submissions[r], j)
          BY <4>1, <4>2
        <5> QED
          BY ONLY <5>1, <5>2
      <4>4. \E i \in DOMAIN submissions'[SessionOf[j]] : submissions'[SessionOf[j]][i] = j
        <5> DEFINE q == submissions[SessionOf[j]]
        <5>1. q \in Seq(Jobs) /\ submissions'[SessionOf[j]] = Append(q, j)
          BY <4>1, <4>2
        <5> HIDE DEF q
        <5>2. Len(q) + 1 \in DOMAIN Append(q, j) /\ Append(q, j)[Len(q) + 1] = j
          BY ONLY <5>1
        <5> QED
          BY ONLY <5>1, <5>2
      <4>5. \A k \in Jobs \ {j} : submission'[k] = submission[k]
        BY <3>2 DEF IInv, TypeOK
      <4>6. pools' = pools
        BY <3>2
      <4> QED
        BY <4>1, <4>3, <4>4, <4>5, <4>6 DEF IInv, SubmissionsAreKept
    <3> QED
      BY <2>1, <3>1, <3>2
  <2> QED
    BY <2>2, <2>3, <2>4, <2>7, <2>8, <2>12, <2>13 DEF IInv
<1> QED
  BY <1>1, <1>2, <1>3 DEF Ends

(* New executors replace none, and are empty.                               *)
LEMMA CreatePoolsIInv == IInv /\ (\E j \in Jobs : CreatePools(j)) => IInv'
<1> SUFFICES ASSUME IInv, NEW j \in Jobs, CreatePools(j) PROVE IInv'
  OBVIOUS
<1> USE SessionOfAssumption DEF CreatePools, SetJob
<1>1. /\ SessionOf[j] \in Sessions /\ SessionOf[j] \notin pools
      /\ submissions \in [Sessions -> Seq(Jobs)] /\ polls \in [Sessions -> Seq(Jobs)]
  BY DEF IInv, TypeOK, PoolsInv
<1>2. \A r \in Sessions \ {SessionOf[j]} :
        submissions'[r] = submissions[r] /\ polls'[r] = polls[r]
  BY <1>1
<1>3. polls'[SessionOf[j]] = <<>>
  BY <1>1
<1>4. job[j] = "creating" /\ job'[j] = "queueing" /\ \A k \in Jobs \ {j} : job'[k] = job[k]
  BY DEF IInv, TypeOK
<1>5. TypeOK' /\ StopInv'
  BY <1>1 DEF IInv, TypeOK, StopInv
<1>6. WorkInv'
  BY <1>4 DEF IInv, WorkInv, Pending, Working
<1>7. QueueInv'
  <2>1. \A r \in Sessions : \A i \in 1 .. Len(polls'[r]) :
          polls'[r] = polls[r] /\ polls[r][i] \in Jobs
    BY <1>1, <1>2, <1>3
  <2> QED
    BY <1>4, <2>1 DEF IInv, QueueInv
<1>8. OwnerInv'
  BY <1>4 DEF IInv, OwnerInv
<1>9. PoolsInv'
  BY <1>4 DEF IInv, PoolsInv
<1>10. SubmissionsAreKept'
  BY <1>1, <1>2 DEF IInv, SubmissionsAreKept
<1> QED
  BY <1>5, <1>6, <1>7, <1>8, <1>9, <1>10 DEF IInv

(* IInv is an invariant of the specification.                               *)
THEOREM Invariance == Spec => []IInv
<1>1. IInv /\ [Next]_vars => IInv'
  <2>1. IInv /\ UNCHANGED vars => IInv'
    BY DEF IInv, TypeOK, StopInv, WorkInv, QueueInv, OwnerInv, PoolsInv,
      SubmissionsAreKept, Pending, Working, vars, callVars, workVars
  <2> QED
    BY <2>1, NextSplits, SessionsChangeIInv, JobsChangeIInv, WorkChangesIInv, EndsIInv,
      CreatePoolsIInv
<1> QED
  BY <1>1, InitIInv, PTL DEF Spec

(* Every variable keeps its type: no queue holds anything but jobs.         *)
THEOREM TypeCorrect == Spec => []TypeOK
  BY Invariance, PTL DEF IInv

(* However many jobs and threads there are, nothing runs on a job after its *)
(* destructor (~Job waits for jobHandle_ and prefetchMutex_; lambdas left   *)
(* in the queue find the stop token set).                                   *)
THEOREM LiveJobs == Spec => []WorkTouchesLiveJobs
<1>1. IInv => WorkTouchesLiveJobs
  BY DEF IInv, WorkInv, WorkTouchesLiveJobs, Working
<1> QED
  BY <1>1, Invariance, PTL

(* However many jobs of a session are submitted first, no executor that     *)
(* holds a submission is replaced or destroyed (submit() creates executors  *)
(* under jobsMutex_; a session destroys its jobs first).                    *)
THEOREM SubmissionsKept == Spec => []SubmissionsAreKept
  BY Invariance, PTL DEF IInv

(* Every request to AWS finds its session's clients and the SDK (the        *)
(* destructor of a session destroys its jobs first, finalize its sessions). *)
THEOREM Clients == Spec => []RequestsHaveClients
<1>1. IInv => RequestsHaveClients
  BY SessionOfAssumption DEF IInv, TypeOK, WorkInv, OwnerInv, RequestsHaveClients,
    Pending, Working
<1> QED
  BY <1>1, Invariance, PTL
=============================================================================
