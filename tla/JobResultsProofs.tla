-------------------------- MODULE JobResultsProofs --------------------------
(***************************************************************************)
(* The safety properties of JobResults, for any number of clients,         *)
(* programs and calls, when nobody calls setPrograms during a fetch.       *)
(***************************************************************************)
EXTENDS JobResults, TLAPS

InFetch       == {"read", "metadata", "ready", "program"}
Held          == InFetch \union {"manifest"}
AfterManifest == {"ready", "program"}

(* A thread inside fetchResultManifest or after it holds resultsMutex_.    *)
LockInv == \A t \in Threads : pc[t] \in Held => resultsMutex = t

(* A call that has passed the index check has a program of the job, and    *)
(* asks for statuses only of a program set; so does the prefetch lambda    *)
(* when it reads a result.                                                 *)
CallInv ==
  /\ \A c \in Clients :
       /\ op[c] \in {"status", "result"}
       /\ pc[c] \notin {"idle", "check"} =>
            index[c] <= programs /\ (op[c] = "status" => programSet)
       /\ pc[c] # "done"
  /\ pc[Prefetch] \notin {"check", "lock"}
  /\ pc[Prefetch] = "program" => index[Prefetch] <= programs

(* A job that may still be configured has no results, and a job has an     *)
(* outcome only after its task was sent, polled and found ended.           *)
LifeInv ==
  /\ status = "CREATED" =>
       /\ outcome = Unknown /\ programStatuses = Unknown /\ fetched = {}
       /\ pc[Prefetch] = "idle" /\ \A c \in Clients : pc[c] \notin InFetch
  /\ stored => outcome # Unknown
  /\ outcome # Unknown =>
       status \in Terminal /\ (submissionStarted \/ retrieved)
  /\ (status = "CANCELED" /\ (submissionStarted \/ retrieved)) => located

(* What is cached is real, but for the provisional statuses of a canceled  *)
(* job, which end when there is a manifest.                                *)
CacheInv ==
  /\ manifest => stored
  /\ fetched # {} => manifest
  /\ \/ programStatuses \in {Unknown, outcome}
     \/ programStatuses = AllCanceled /\ status = "CANCELED" /\ ~manifest
  /\ \A i \in fetched : IF programSet THEN outcome[i] = "DONE"
                                       ELSE status = "DONE"

(* After fetchResultManifest has succeeded, the manifest is there and the  *)
(* statuses are the real ones, or every status is CANCELED for want of a   *)
(* manifest when the fetch began.                                          *)
ReadyInv ==
  \A t \in Threads :
    /\ pc[t] \in InFetch => HasResults
    /\ (pc[t] = "read" /\ status = "CANCELED") => located
    /\ pc[t] \in {"metadata", "program"} => manifest
    /\ pc[t] = "metadata" => programSet
    /\ pc[t] \in AfterManifest =>
         /\ programSet =>
              /\ DOMAIN programStatuses = 1 .. programs
              /\ manifest => programStatuses = outcome
         /\ ~manifest => programSet /\ programStatuses = AllCanceled
    /\ (pc[t] = "program" /\ programSet) => outcome[index[t]] = "DONE"

(* What a call saw when it began is still so, and its answer agrees.       *)
ToldInv ==
  /\ \A c \in Clients :
       /\ wasStored[c] => stored
       /\ (wasStored[c] /\ pc[c] \in AfterManifest) => manifest
       /\ (wasFetched[c] /\ op[c] = "result") =>
            /\ pc[c] \notin Held
            /\ pc[c] \in {"check", "lock"} => index[c] \in fetched
  /\ StatusesAreReal /\ FetchedIsServed

IInv == /\ TypeOK /\ LockInv /\ CallInv /\ LifeInv /\ CacheInv /\ ReadyInv
        /\ ToldInv

-----------------------------------------------------------------------------
(* The initial states satisfy the invariant.                               *)
LEMMA InitInv == Init => IInv
  <1> SUFFICES ASSUME Init PROVE IInv
    OBVIOUS
  <1> USE JobResultsAssumption
  <1>1. TypeOK
    <2>1. /\ status \in Status /\ retrieved \in BOOLEAN
          /\ located \in BOOLEAN /\ programSet \in BOOLEAN
      BY DEF Init, Status
    <2>2. programs \in 0 .. MaxPrograms
      BY DEF Init
    <2>3. op \in [Threads -> {"status", "result", "prefetch"}]
      BY DEF Init
    <2>4. ret \in [Threads -> Result]
      BY DEF Init, Result, Codes
    <2>5. index \in [Threads -> 1 .. MaxPrograms + 1]
      BY DEF Init
    <2>6. pc \in [Threads -> Labels]
      BY DEF Init, Labels
    <2>7. /\ submissionStarted \in BOOLEAN /\ manifest \in BOOLEAN
          /\ stored \in BOOLEAN /\ fetched \subseteq 1 .. programs
          /\ programStatuses = Unknown /\ outcome = Unknown
      BY DEF Init
    <2>8. /\ wasStored \in [Clients -> BOOLEAN]
          /\ wasFetched \in [Clients -> BOOLEAN]
          /\ resultsMutex \in Threads \union {Nobody}
      BY DEF Init
    <2>9. calls \in 0 .. MaxCalls
      BY DEF Init
    <2> QED
      BY <2>1, <2>2, <2>3, <2>4, <2>5, <2>6, <2>7, <2>8, <2>9 DEF TypeOK
  <1>2. LockInv /\ CallInv /\ LifeInv
    BY DEF Init, LockInv, Held, InFetch, CallInv, LifeInv, Threads
  <1>3. CacheInv /\ ReadyInv /\ ToldInv
    BY DEF Init, CacheInv, ReadyInv, AfterManifest, InFetch, ToldInv,
        StatusesAreReal, FetchedIsServed
  <1> QED
    BY <1>1, <1>2, <1>3 DEF IInv

(* Every step keeps it: one step of the proof per action, and under it one *)
(* per part of the invariant.                                              *)
LEMMA NextInv ==
  ASSUME ExclusiveConfigure, IInv, [Next]_vars
  PROVE  IInv'
  <1> USE JobResultsAssumption
  <1>1. TypeOK /\ LockInv /\ CallInv /\ LifeInv /\ CacheInv /\ ReadyInv
          /\ ToldInv
    BY DEF IInv
  <1>2. ASSUME Configure PROVE IInv'
    <2>1. TypeOK'
      BY <1>1, <1>2 DEF Configure, TypeOK, LifeInv, remoteVars, callVars
    <2>2. LockInv'
      BY <1>1, <1>2 DEF Configure, LockInv
    <2>3. CallInv'
      BY <1>1, <1>2 DEF Configure, CallInv, LifeInv, callVars
    <2>4. LifeInv'
      BY <1>1, <1>2 DEF Configure, LifeInv, remoteVars
    <2>5. CacheInv'
      BY <1>1, <1>2 DEF Configure, CacheInv, LifeInv
    <2>6. ReadyInv'
      BY <1>1, <1>2
      DEF Configure, ReadyInv, AfterManifest, InFetch, HasResults, Terminal
    <2>7. ToldInv'
      BY <1>1, <1>2
      DEF Configure, ToldInv, StatusesAreReal, FetchedIsServed, LifeInv,
          callVars
    <2> QED
      BY <2>1, <2>2, <2>3, <2>4, <2>5, <2>6, <2>7 DEF IInv
  <1>3. ASSUME Submit PROVE IInv'
    <2>1. TypeOK'
      BY <1>1, <1>3 DEF Submit, TypeOK, Status, cacheVars, remoteVars, callVars
    <2>2. LockInv'
      BY <1>1, <1>3 DEF Submit, LockInv
    <2>3. CallInv'
      BY <1>1, <1>3 DEF Submit, CallInv, callVars
    <2>4. LifeInv'
      BY <1>1, <1>3 DEF Submit, LifeInv, remoteVars
    <2>5. CacheInv'
      BY <1>1, <1>3 DEF Submit, CacheInv, LifeInv, cacheVars
    <2>6. ReadyInv'
      BY <1>1, <1>3
      DEF Submit, ReadyInv, AfterManifest, InFetch, HasResults, Terminal
    <2>7. ToldInv'
      BY <1>1, <1>3
      DEF Submit, ToldInv, StatusesAreReal, FetchedIsServed, LifeInv, callVars
    <2> QED
      BY <2>1, <2>2, <2>3, <2>4, <2>5, <2>6, <2>7 DEF IInv
  <1>4. ASSUME StartSubmission PROVE IInv'
    <2>1. TypeOK'
      BY <1>1, <1>4
      DEF StartSubmission, TypeOK, cacheVars, remoteVars, callVars
    <2>2. LockInv'
      BY <1>1, <1>4 DEF StartSubmission, LockInv
    <2>3. CallInv'
      BY <1>1, <1>4 DEF StartSubmission, CallInv, callVars
    <2>4. LifeInv'
      BY <1>1, <1>4 DEF StartSubmission, LifeInv, remoteVars
    <2>5. CacheInv'
      BY <1>1, <1>4 DEF StartSubmission, CacheInv, LifeInv, cacheVars
    <2>6. ReadyInv'
      BY <1>1, <1>4
      DEF StartSubmission, ReadyInv, AfterManifest, InFetch, HasResults,
          Terminal
    <2>7. ToldInv'
      BY <1>1, <1>4
      DEF StartSubmission, ToldInv, StatusesAreReal, FetchedIsServed, LifeInv,
          CacheInv, callVars
    <2> QED
      BY <2>1, <2>2, <2>3, <2>4, <2>5, <2>6, <2>7 DEF IInv
  <1>5. ASSUME SubmissionFails PROVE IInv'
    <2>1. TypeOK'
      BY <1>1, <1>5
      DEF SubmissionFails, TypeOK, Status, cacheVars, remoteVars, callVars
    <2>2. LockInv'
      BY <1>1, <1>5 DEF SubmissionFails, LockInv
    <2>3. CallInv'
      BY <1>1, <1>5 DEF SubmissionFails, CallInv, callVars
    <2>4. LifeInv'
      BY <1>1, <1>5 DEF SubmissionFails, LifeInv, Terminal, remoteVars
    <2>5. CacheInv'
      BY <1>1, <1>5 DEF SubmissionFails, CacheInv, LifeInv, Terminal, cacheVars
    <2>6. ReadyInv'
      BY <1>1, <1>5
      DEF SubmissionFails, ReadyInv, AfterManifest, InFetch, HasResults,
          Terminal
    <2>7. ToldInv'
      BY <1>1, <1>5
      DEF SubmissionFails, ToldInv, StatusesAreReal, FetchedIsServed, LifeInv,
          Terminal, CacheInv, callVars
    <2> QED
      BY <2>1, <2>2, <2>3, <2>4, <2>5, <2>6, <2>7 DEF IInv
  <1>6. ASSUME CancelLocal PROVE IInv'
    <2>1. TypeOK'
      BY <1>1, <1>6
      DEF CancelLocal, TypeOK, Status, cacheVars, remoteVars, callVars
    <2>2. LockInv'
      BY <1>1, <1>6 DEF CancelLocal, LockInv
    <2>3. CallInv'
      BY <1>1, <1>6 DEF CancelLocal, CallInv, callVars
    <2>4. LifeInv'
      BY <1>1, <1>6 DEF CancelLocal, LifeInv, remoteVars
    <2>5. CacheInv'
      BY <1>1, <1>6 DEF CancelLocal, CacheInv, LifeInv, cacheVars
    <2>6. ReadyInv'
      BY <1>1, <1>6
      DEF CancelLocal, ReadyInv, AfterManifest, InFetch, HasResults, Terminal
    <2>7. ToldInv'
      BY <1>1, <1>6
      DEF CancelLocal, ToldInv, StatusesAreReal, FetchedIsServed, LifeInv,
          CacheInv, callVars
    <2> QED
      BY <2>1, <2>2, <2>3, <2>4, <2>5, <2>6, <2>7 DEF IInv
  <1>7. ASSUME Poll PROVE IInv'
    <2>1. TypeOK'
      BY <1>1, <1>7 DEF Poll, TypeOK, cacheVars, remoteVars, callVars
    <2>2. LockInv'
      BY <1>1, <1>7 DEF Poll, LockInv
    <2>3. CallInv'
      BY <1>1, <1>7 DEF Poll, CallInv, callVars
    <2>4. LifeInv'
      BY <1>1, <1>7 DEF Poll, LifeInv, remoteVars
    <2>5. CacheInv'
      BY <1>1, <1>7 DEF Poll, CacheInv, LifeInv, Terminal, cacheVars
    <2>6. ReadyInv'
      BY <1>1, <1>7
      DEF Poll, ReadyInv, AfterManifest, InFetch, HasResults, Terminal
    <2>7. ToldInv'
      BY <1>1, <1>7
      DEF Poll, ToldInv, StatusesAreReal, FetchedIsServed, LifeInv, Terminal,
          CacheInv, callVars
    <2> QED
      BY <2>1, <2>2, <2>3, <2>4, <2>5, <2>6, <2>7 DEF IInv
  <1>8. ASSUME PollEnds PROVE IInv'
    <2>1. TypeOK'
      BY <1>1, <1>8 DEF PollEnds, TypeOK, Status, Terminal, cacheVars, callVars
    <2>2. LockInv'
      BY <1>1, <1>8 DEF PollEnds, LockInv
    <2>3. CallInv'
      BY <1>1, <1>8 DEF PollEnds, CallInv, callVars
    <2>4. LifeInv'
      BY <1>1, <1>8 DEF PollEnds, LifeInv, Terminal
    <2>5. CacheInv'
      BY <1>1, <1>8 DEF PollEnds, CacheInv, LifeInv, Terminal, cacheVars
    <2>6. ReadyInv'
      BY <1>1, <1>8
      DEF PollEnds, ReadyInv, AfterManifest, InFetch, HasResults, Terminal
    <2>7. ToldInv'
      BY <1>1, <1>8
      DEF PollEnds, ToldInv, StatusesAreReal, FetchedIsServed, LifeInv,
          Terminal, CacheInv, callVars
    <2> QED
      BY <2>1, <2>2, <2>3, <2>4, <2>5, <2>6, <2>7 DEF IInv
  <1>9. ASSUME StoreResults PROVE IInv'
    <2>1. TypeOK'
      BY <1>1, <1>9 DEF StoreResults, TypeOK, jobVars, cacheVars, callVars
    <2>2. LockInv'
      BY <1>1, <1>9 DEF StoreResults, LockInv
    <2>3. CallInv'
      BY <1>1, <1>9 DEF StoreResults, CallInv, jobVars, callVars
    <2>4. LifeInv'
      BY <1>1, <1>9 DEF StoreResults, LifeInv, jobVars
    <2>5. CacheInv'
      BY <1>1, <1>9 DEF StoreResults, CacheInv, AllCanceled, jobVars, cacheVars
    <2>6. ReadyInv'
      BY <1>1, <1>9
      DEF StoreResults, ReadyInv, HasResults, AllCanceled, jobVars, cacheVars
    <2>7. ToldInv'
      BY <1>1, <1>9
      DEF StoreResults, ToldInv, StatusesAreReal, FetchedIsServed, CacheInv,
          callVars
    <2> QED
      BY <2>1, <2>2, <2>3, <2>4, <2>5, <2>6, <2>7 DEF IInv
  <1>10. ASSUME NEW c \in Clients, Call(c) PROVE IInv'
    <2>1. TypeOK'
      <3>1. PICK o \in {"status", "result"}, i \in 1 .. MaxPrograms :
              op' = [op EXCEPT ![c] = o] /\ index' = [index EXCEPT ![c] = i]
        BY <1>10 DEF Call
      <3>2. calls' \in 0 .. MaxCalls
        BY <1>1, <1>10 DEF TypeOK, Call
      <3>3. ret' \in [Threads -> Result]
        BY <1>1, <1>10 DEF TypeOK, Call, Result, Codes
      <3>4. wasFetched' \in [Clients -> BOOLEAN]
        BY <1>1, <1>10 DEF TypeOK, Call
      <3>5. index' \in [Threads -> 1 .. MaxPrograms + 1]
        <4>1. index \in [Threads -> 1 .. MaxPrograms + 1]
          BY <1>1 DEF TypeOK
        <4>2. i \in 1 .. MaxPrograms + 1
          OBVIOUS
        <4> QED
          BY <3>1, <4>1, <4>2
      <3> QED
        BY <1>1, <1>10, <3>1, <3>2, <3>3, <3>4, <3>5
        DEF Call, Goto, TypeOK, Labels, jobVars, cacheVars, remoteVars
    <2>2. LockInv'
      BY <1>1, <1>10 DEF Call, Goto, LockInv, Held, InFetch
    <2>3. CallInv'
      BY <1>1, <1>10 DEF Call, Goto, CallInv, Threads, jobVars, TypeOK
    <2>4. LifeInv'
      BY <1>1, <1>10
      DEF Call, Goto, LifeInv, InFetch, jobVars, cacheVars, remoteVars
    <2>5. CacheInv'
      BY <1>1, <1>10
      DEF Call, CacheInv, AllCanceled, jobVars, cacheVars, remoteVars
    <2>6. ReadyInv'
      BY <1>1, <1>10
      DEF Call, Goto, ReadyInv, AfterManifest, InFetch, HasResults,
          AllCanceled, jobVars, cacheVars, remoteVars, TypeOK
    <2>7. ToldInv'
      <3>1. PICK o \in {"status", "result"}, i \in 1 .. MaxPrograms :
              op' = [op EXCEPT ![c] = o] /\ index' = [index EXCEPT ![c] = i]
        BY <1>10 DEF Call
      <3>2. /\ pc'[c] = "check" /\ index'[c] = i /\ op'[c] = o
            /\ wasStored'[c] = stored
            /\ wasFetched'[c] = (index'[c] \in fetched)
        BY <1>1, <1>10, <3>1 DEF Call, Goto, TypeOK, Threads
      <3>3. \A d \in Clients \ {c} :
              /\ pc'[d] = pc[d] /\ index'[d] = index[d] /\ op'[d] = op[d]
              /\ wasStored'[d] = wasStored[d] /\ wasFetched'[d] = wasFetched[d]
              /\ ret'[d] = ret[d]
        BY <1>1, <1>10, <3>1 DEF Call, Goto
      <3>4. /\ stored' = stored /\ fetched' = fetched /\ outcome' = outcome
            /\ manifest' = manifest
        BY <1>10 DEF Call, cacheVars, remoteVars
      <3> SUFFICES ASSUME NEW d \in Clients
                   PROVE  /\ wasStored'[d] => stored'
                          /\ (wasStored'[d] /\ pc'[d] \in AfterManifest) => manifest'
                          /\ (wasFetched'[d] /\ op'[d] = "result") =>
                               /\ pc'[d] \notin Held
                               /\ pc'[d] \in {"check", "lock"} =>
                                    index'[d] \in fetched'
                          /\ (pc'[d] = "idle" /\ op'[d] = "status"
                                /\ ret'[d].code = "SUCCESS" /\ wasStored'[d]) =>
                               ret'[d].status = outcome'[index'[d]]
                          /\ (pc'[d] = "idle" /\ op'[d] = "result"
                                /\ wasFetched'[d]) =>
                               ret'[d].code \in {"SUCCESS", "none"}
        BY DEF ToldInv, StatusesAreReal, FetchedIsServed
      <3>5. CASE d = c
        BY <3>2, <3>4, <3>5 DEF Held, InFetch, AfterManifest
      <3>6. CASE d # c
        BY <1>1, <3>3, <3>4, <3>6 DEF ToldInv, StatusesAreReal, FetchedIsServed
      <3> QED
        BY <3>5, <3>6
    <2> QED
      BY <2>1, <2>2, <2>3, <2>4, <2>5, <2>6, <2>7 DEF IInv
  <1>11. ASSUME NEW c \in Clients, CheckIndex(c) PROVE IInv'
    <2>1. TypeOK'
      <3>1. IndexError(c) \in Codes
        BY DEF IndexError, Codes
      <3>2. PICK code \in Codes :
              \/ ret' = ret
              \/ ret' = [ret EXCEPT ![c] = [code |-> code, status |-> "none"]]
        BY <1>11, <3>1 DEF CheckIndex, Return
      <3>3. ret' \in [Threads -> Result]
        BY <1>1, <3>2 DEF TypeOK, Result
      <3> QED
        BY <1>1, <1>11, <3>3
        DEF CheckIndex, Goto, Return, TypeOK, Threads, Labels, jobVars,
            cacheVars, remoteVars, callVars
    <2>2. LockInv'
      BY <1>1, <1>11
      DEF CheckIndex, Goto, Return, LockInv, Held, InFetch, TypeOK
    <2>3. CallInv'
      BY <1>1, <1>11
      DEF CheckIndex, Goto, Return, IndexError, CallInv, Threads, InFetch,
          jobVars, callVars, TypeOK
    <2>4. LifeInv'
      BY <1>1, <1>11
      DEF CheckIndex, Goto, Return, LifeInv, Threads, InFetch, jobVars,
          cacheVars, remoteVars, TypeOK
    <2>5. CacheInv'
      BY <1>1, <1>11
      DEF CheckIndex, CacheInv, AllCanceled, jobVars, cacheVars, remoteVars
    <2>6. ReadyInv'
      BY <1>1, <1>11
      DEF CheckIndex, Goto, Return, ReadyInv, AfterManifest, InFetch,
          HasResults, AllCanceled, jobVars, cacheVars, remoteVars, TypeOK
    <2>7. ToldInv'
      BY <1>1, <1>11
      DEF CheckIndex, Goto, Return, IndexError, ToldInv, StatusesAreReal,
          FetchedIsServed, Held, InFetch, Threads, LockInv, CallInv, LifeInv,
          Terminal, ReadyInv, AfterManifest, HasResults, ProgramStatus,
          cacheVars, remoteVars, callVars, TypeOK
    <2> QED
      BY <2>1, <2>2, <2>3, <2>4, <2>5, <2>6, <2>7 DEF IInv
  <1>12. ASSUME NEW c \in Clients, Lock(c) PROVE IInv'
    <2>1. TypeOK'
      BY <1>1, <1>12
      DEF Lock, Goto, TypeOK, Threads, Labels, jobVars, cacheVars, remoteVars,
          callVars
    <2>2. LockInv'
      BY <1>1, <1>12 DEF Lock, Goto, LockInv, Threads
    <2>3. CallInv'
      BY <1>1, <1>12 DEF Lock, Goto, CallInv, jobVars, callVars
    <2>4. LifeInv'
      BY <1>1, <1>12
      DEF Lock, Goto, LifeInv, InFetch, jobVars, cacheVars, remoteVars
    <2>5. CacheInv'
      BY <1>1, <1>12
      DEF Lock, CacheInv, AllCanceled, jobVars, cacheVars, remoteVars
    <2>6. ReadyInv'
      BY <1>1, <1>12
      DEF Lock, Goto, ReadyInv, AfterManifest, InFetch, Threads, LockInv, Held
    <2>7. ToldInv'
      BY <1>1, <1>12
      DEF Lock, Goto, Served, ToldInv, StatusesAreReal, FetchedIsServed,
          AfterManifest, cacheVars, remoteVars, callVars
    <2> QED
      BY <2>1, <2>2, <2>3, <2>4, <2>5, <2>6, <2>7 DEF IInv
  <1>13. ASSUME NEW c \in Clients, Serve(c) PROVE IInv'
    <2>1. TypeOK'
      BY <1>1, <1>13
      DEF Serve, Goto, Return, TypeOK, Threads, Labels, Codes, Result, jobVars,
          cacheVars, remoteVars, callVars
    <2>2. LockInv'
      BY <1>1, <1>13 DEF Serve, Goto, Return, LockInv, Held, InFetch
    <2>3. CallInv'
      BY <1>1, <1>13 DEF Serve, Goto, Return, CallInv, jobVars, callVars
    <2>4. LifeInv'
      BY <1>1, <1>13 DEF Serve, Served, LifeInv, jobVars, remoteVars
    <2>5. CacheInv'
      BY <1>1, <1>13
      DEF Serve, Served, CacheInv, jobVars, cacheVars, remoteVars
    <2>6. ReadyInv'
      BY <1>1, <1>13
      DEF Serve, Goto, Return, ReadyInv, AfterManifest, InFetch, Threads,
          LockInv, Held
    <2>7. ToldInv'
      BY <1>1, <1>13
      DEF Serve, Goto, Return, Served, ToldInv, StatusesAreReal,
          FetchedIsServed, Held, InFetch, CacheInv, cacheVars, remoteVars,
          callVars, TypeOK
    <2> QED
      BY <2>1, <2>2, <2>3, <2>4, <2>5, <2>6, <2>7 DEF IInv
  <1>14. ASSUME NEW c \in Clients, ReturnStatus(c) PROVE IInv'
    <2>1. TypeOK'
      <3>1. index[c] \in 1 .. programs /\ pc[c] = "ready" /\ programSet
        BY <1>1, <1>14
        DEF TypeOK, CallInv, ReturnStatus, Finish, Return, Goto, Threads
      <3>2. programStatuses[index[c]] \in ProgramStatus
        BY <1>1, <3>1
        DEF TypeOK, CacheInv, LifeInv, ReadyInv, AfterManifest, AllCanceled,
            ProgramStatus, Threads
      <3>3. ret' \in [Threads -> Result]
        BY <1>1, <1>14, <3>2
        DEF TypeOK, ReturnStatus, Finish, Return, Result, Codes
      <3> QED
        BY <1>1, <1>14, <3>3
        DEF ReturnStatus, Finish, Goto, Return, TypeOK, Labels, jobVars,
            cacheVars, remoteVars, callVars
    <2>2. LockInv'
      BY <1>1, <1>14
      DEF ReturnStatus, Goto, Return, Finish, LockInv, Held, InFetch, Threads,
          TypeOK
    <2>3. CallInv'
      BY <1>1, <1>14
      DEF ReturnStatus, Goto, Return, Finish, CallInv, jobVars, callVars
    <2>4. LifeInv'
      BY <1>1, <1>14
      DEF ReturnStatus, Goto, Return, Finish, LifeInv, InFetch, jobVars,
          remoteVars
    <2>5. CacheInv'
      BY <1>1, <1>14
      DEF ReturnStatus, CacheInv, AllCanceled, jobVars, cacheVars, remoteVars
    <2>6. ReadyInv'
      BY <1>1, <1>14
      DEF ReturnStatus, Goto, Return, Finish, ReadyInv, AfterManifest, InFetch,
          HasResults, AllCanceled, jobVars, cacheVars, remoteVars
    <2>7. ToldInv'
      BY <1>1, <1>14
      DEF ReturnStatus, Goto, Return, Finish, ToldInv, StatusesAreReal,
          FetchedIsServed, CallInv, ReadyInv, AfterManifest, cacheVars,
          remoteVars, callVars, TypeOK
    <2> QED
      BY <2>1, <2>2, <2>3, <2>4, <2>5, <2>6, <2>7 DEF IInv
  <1>15. ASSUME NEW c \in Clients, NoResult(c) PROVE IInv'
    <2>1. TypeOK'
      BY <1>1, <1>15
      DEF NoResult, Goto, Return, Finish, TypeOK, Threads, Labels, Codes,
          Result, jobVars, cacheVars, remoteVars, callVars
    <2>2. LockInv'
      BY <1>1, <1>15
      DEF NoResult, Goto, Return, Finish, LockInv, Held, InFetch, Threads,
          TypeOK
    <2>3. CallInv'
      BY <1>1, <1>15
      DEF NoResult, Goto, Return, Finish, CallInv, jobVars, callVars
    <2>4. LifeInv'
      BY <1>1, <1>15
      DEF NoResult, Goto, Return, Finish, LifeInv, InFetch, jobVars, remoteVars
    <2>5. CacheInv'
      BY <1>1, <1>15
      DEF NoResult, CacheInv, AllCanceled, jobVars, cacheVars, remoteVars
    <2>6. ReadyInv'
      BY <1>1, <1>15
      DEF NoResult, Goto, Return, Finish, ReadyInv, AfterManifest, InFetch,
          HasResults, AllCanceled, jobVars, cacheVars, remoteVars
    <2>7. ToldInv'
      BY <1>1, <1>15
      DEF NoResult, Goto, Return, Finish, ToldInv, StatusesAreReal,
          FetchedIsServed, Held, InFetch, AfterManifest, cacheVars, remoteVars,
          callVars
    <2> QED
      BY <2>1, <2>2, <2>3, <2>4, <2>5, <2>6, <2>7 DEF IInv
  <1>16. ASSUME NEW c \in Clients, ResultNeeded(c) PROVE IInv'
    <2>1. TypeOK'
      BY <1>1, <1>16
      DEF ResultNeeded, Goto, TypeOK, Threads, Labels, jobVars, cacheVars,
          remoteVars, callVars
    <2>2. LockInv'
      BY <1>1, <1>16 DEF ResultNeeded, Goto, LockInv, Held, InFetch
    <2>3. CallInv'
      BY <1>1, <1>16 DEF ResultNeeded, Goto, CallInv, jobVars, callVars
    <2>4. LifeInv'
      BY <1>1, <1>16
      DEF ResultNeeded, Goto, LifeInv, InFetch, jobVars, remoteVars
    <2>5. CacheInv'
      BY <1>1, <1>16
      DEF ResultNeeded, CacheInv, AllCanceled, jobVars, cacheVars, remoteVars
    <2>6. ReadyInv'
      BY <1>1, <1>16
      DEF ResultNeeded, Goto, Deliverable, ReadyInv, AfterManifest, InFetch,
          HasResults, AllCanceled, Threads, Held, CallInv, jobVars, cacheVars,
          remoteVars, TypeOK
    <2>7. ToldInv'
      BY <1>1, <1>16
      DEF ResultNeeded, Goto, ToldInv, StatusesAreReal, FetchedIsServed, Held,
          InFetch, AfterManifest, cacheVars, remoteVars, callVars
    <2> QED
      BY <2>1, <2>2, <2>3, <2>4, <2>5, <2>6, <2>7 DEF IInv
  <1>17. ASSUME NEW c \in Clients, FetchResult(c) PROVE IInv'
    <2>1. TypeOK'
      <3>1. index[c] \in 1 .. programs
        BY <1>1, <1>17
        DEF TypeOK, CallInv, FetchResult, Finish, Return, Goto, Threads
      <3>2. ret' \in [Threads -> Result]
        BY <1>1, <1>17 DEF TypeOK, FetchResult, Finish, Return, Result, Codes
      <3> QED
        BY <1>1, <1>17, <3>1, <3>2
        DEF FetchResult, Finish, Goto, Return, TypeOK, Threads, Labels,
            jobVars, remoteVars, callVars
    <2>2. LockInv'
      BY <1>1, <1>17
      DEF FetchResult, Goto, Return, Finish, LockInv, Held, InFetch, Threads,
          TypeOK
    <2>3. CallInv'
      BY <1>1, <1>17
      DEF FetchResult, Goto, Return, Finish, CallInv, jobVars, callVars
    <2>4. LifeInv'
      BY <1>1, <1>17
      DEF FetchResult, Goto, Return, Finish, LifeInv, Threads, CacheInv,
          ReadyInv, jobVars, remoteVars
    <2>5. CacheInv'
      BY <1>1, <1>17
      DEF FetchResult, Goto, Return, Finish, CacheInv, Threads, ReadyInv,
          InFetch, HasResults, jobVars, remoteVars
    <2>6. ReadyInv'
      BY <1>1, <1>17
      DEF FetchResult, Goto, Return, Finish, ReadyInv, AfterManifest, InFetch,
          HasResults, AllCanceled, jobVars, remoteVars
    <2>7. ToldInv'
      BY <1>1, <1>17
      DEF FetchResult, Goto, Return, Finish, ToldInv, StatusesAreReal,
          FetchedIsServed, Held, InFetch, Threads, ReadyInv, remoteVars,
          callVars
    <2> QED
      BY <2>1, <2>2, <2>3, <2>4, <2>5, <2>6, <2>7 DEF IInv
  <1>18. ASSUME NEW t \in Threads, NoResults(t) PROVE IInv'
    <2>1. TypeOK'
      BY <1>1, <1>18
      DEF NoResults, Goto, Return, Finish, TypeOK, Labels, Codes, Result,
          jobVars, cacheVars, remoteVars, callVars
    <2>2. LockInv'
      BY <1>1, <1>18
      DEF NoResults, Goto, Return, Finish, LockInv, Held, InFetch, TypeOK
    <2>3. CallInv'
      BY <1>1, <1>18
      DEF NoResults, Goto, Return, Finish, CallInv, jobVars, callVars
    <2>4. LifeInv'
      BY <1>1, <1>18
      DEF NoResults, Goto, Return, Finish, LifeInv, Threads, LockInv, Held,
          jobVars, cacheVars, remoteVars
    <2>5. CacheInv'
      BY <1>1, <1>18
      DEF NoResults, CacheInv, AllCanceled, jobVars, cacheVars, remoteVars
    <2>6. ReadyInv'
      BY <1>1, <1>18
      DEF NoResults, Goto, Return, Finish, ReadyInv, AfterManifest, InFetch
    <2>7. ToldInv'
      BY <1>1, <1>18
      DEF NoResults, Goto, Return, Finish, HasResults, ToldInv,
          StatusesAreReal, FetchedIsServed, Held, InFetch, Threads, LockInv,
          CallInv, LifeInv, CacheInv, AfterManifest, remoteVars, callVars
    <2> QED
      BY <2>1, <2>2, <2>3, <2>4, <2>5, <2>6, <2>7 DEF IInv
  <1>19. ASSUME NEW t \in Threads, StatusesOfUnsent(t) PROVE IInv'
    <2>1. TypeOK'
      BY <1>1, <1>19
      DEF StatusesOfUnsent, Goto, AllCanceled, TypeOK, ProgramStatus, Labels,
          jobVars, remoteVars, callVars
    <2>2. LockInv'
      BY <1>1, <1>19 DEF StatusesOfUnsent, Goto, LockInv, Held
    <2>3. CallInv'
      BY <1>1, <1>19 DEF StatusesOfUnsent, Goto, CallInv, jobVars, callVars
    <2>4. LifeInv'
      BY <1>1, <1>19
      DEF StatusesOfUnsent, NeverSent, LifeInv, jobVars, remoteVars
    <2>5. CacheInv'
      BY <1>1, <1>19
      DEF StatusesOfUnsent, NeverSent, AllCanceled, CacheInv, LifeInv, jobVars
    <2>6. ReadyInv'
      BY <1>1, <1>19
      DEF StatusesOfUnsent, Goto, HasResults, NeverSent, AllCanceled, ReadyInv,
          LifeInv, CacheInv, jobVars
    <2>7. ToldInv'
      BY <1>1, <1>19
      DEF StatusesOfUnsent, Goto, NeverSent, ToldInv, StatusesAreReal,
          FetchedIsServed, Held, LifeInv, callVars
    <2> QED
      BY <2>1, <2>2, <2>3, <2>4, <2>5, <2>6, <2>7 DEF IInv
  <1>20. ASSUME NEW t \in Threads, ManifestCached(t) PROVE IInv'
    <2>1. TypeOK'
      BY <1>1, <1>20
      DEF ManifestCached, Goto, TypeOK, Labels, jobVars, cacheVars, remoteVars,
          callVars
    <2>2. LockInv'
      BY <1>1, <1>20 DEF ManifestCached, Goto, NeedsMetadata, LockInv, Held
    <2>3. CallInv'
      BY <1>1, <1>20 DEF ManifestCached, Goto, CallInv, jobVars, callVars
    <2>4. LifeInv'
      BY <1>1, <1>20
      DEF ManifestCached, HasResults, NeedsMetadata, LifeInv, Terminal,
          jobVars, remoteVars
    <2>5. CacheInv'
      BY <1>1, <1>20
      DEF ManifestCached, CacheInv, jobVars, cacheVars, remoteVars
    <2>6. ReadyInv'
      BY <1>1, <1>20
      DEF ManifestCached, Goto, HasResults, NeedsMetadata, ReadyInv,
          AfterManifest, CacheInv, jobVars, cacheVars, remoteVars, TypeOK
    <2>7. ToldInv'
      BY <1>1, <1>20
      DEF ManifestCached, Goto, NeedsMetadata, ToldInv, StatusesAreReal,
          FetchedIsServed, Held, cacheVars, remoteVars, callVars
    <2> QED
      BY <2>1, <2>2, <2>3, <2>4, <2>5, <2>6, <2>7 DEF IInv
  <1>21. ASSUME NEW t \in Threads, ManifestNeeded(t) PROVE IInv'
    <2>1. TypeOK'
      BY <1>1, <1>21
      DEF ManifestNeeded, Goto, TypeOK, Labels, jobVars, cacheVars, remoteVars,
          callVars
    <2>2. LockInv'
      BY <1>1, <1>21 DEF ManifestNeeded, Goto, LockInv, Held
    <2>3. CallInv'
      BY <1>1, <1>21 DEF ManifestNeeded, Goto, CallInv, jobVars, callVars
    <2>4. LifeInv'
      BY <1>1, <1>21
      DEF ManifestNeeded, HasResults, LifeInv, Terminal, jobVars, remoteVars
    <2>5. CacheInv'
      BY <1>1, <1>21
      DEF ManifestNeeded, CacheInv, AllCanceled, jobVars, cacheVars, remoteVars
    <2>6. ReadyInv'
      BY <1>1, <1>21
      DEF ManifestNeeded, Goto, HasResults, NeverSent, ReadyInv, AfterManifest,
          InFetch, LockInv, Held, LifeInv, jobVars
    <2>7. ToldInv'
      BY <1>1, <1>21
      DEF ManifestNeeded, Goto, ToldInv, StatusesAreReal, FetchedIsServed,
          Held, CacheInv, AfterManifest, remoteVars, callVars
    <2> QED
      BY <2>1, <2>2, <2>3, <2>4, <2>5, <2>6, <2>7 DEF IInv
  <1>22. ASSUME NEW t \in Threads, ReadManifest(t) PROVE IInv'
    <2>1. TypeOK'
      BY <1>1, <1>22
      DEF ReadManifest, Goto, StatusesAfterManifest, TypeOK, Labels, jobVars,
          remoteVars, callVars
    <2>2. LockInv'
      BY <1>1, <1>22 DEF ReadManifest, Goto, LockInv, Held, InFetch
    <2>3. CallInv'
      BY <1>1, <1>22 DEF ReadManifest, Goto, CallInv, jobVars, callVars
    <2>4. LifeInv'
      BY <1>1, <1>22
      DEF ReadManifest, NeedsMetadata, LifeInv, jobVars, remoteVars
    <2>5. CacheInv'
      BY <1>1, <1>22
      DEF ReadManifest, StatusesAfterManifest, CacheInv, jobVars, remoteVars
    <2>6. ReadyInv'
      BY <1>1, <1>22
      DEF ReadManifest, Goto, NeedsMetadata, StatusesAfterManifest, ReadyInv,
          AfterManifest, InFetch, HasResults, LockInv, Held, CacheInv, jobVars,
          remoteVars, TypeOK
    <2>7. ToldInv'
      BY <1>1, <1>22
      DEF ReadManifest, Goto, ToldInv, StatusesAreReal, FetchedIsServed, Held,
          InFetch, remoteVars, callVars
    <2> QED
      BY <2>1, <2>2, <2>3, <2>4, <2>5, <2>6, <2>7 DEF IInv
  <1>23. ASSUME NEW t \in Threads, ManifestMissing(t) PROVE IInv'
    <2>1. TypeOK'
      BY <1>1, <1>23
      DEF ManifestMissing, Goto, AllCanceled, TypeOK, ProgramStatus, Labels,
          jobVars, remoteVars, callVars
    <2>2. LockInv'
      BY <1>1, <1>23 DEF ManifestMissing, Goto, LockInv, Held, InFetch
    <2>3. CallInv'
      BY <1>1, <1>23 DEF ManifestMissing, Goto, CallInv, jobVars, callVars
    <2>4. LifeInv'
      BY <1>1, <1>23 DEF ManifestMissing, LifeInv, jobVars, remoteVars
    <2>5. CacheInv'
      BY <1>1, <1>23 DEF ManifestMissing, AllCanceled, CacheInv, jobVars
    <2>6. ReadyInv'
      BY <1>1, <1>23
      DEF ManifestMissing, Goto, AllCanceled, ReadyInv, InFetch, HasResults,
          CacheInv, jobVars
    <2>7. ToldInv'
      BY <1>1, <1>23
      DEF ManifestMissing, Goto, ToldInv, StatusesAreReal, FetchedIsServed,
          Held, InFetch, callVars
    <2> QED
      BY <2>1, <2>2, <2>3, <2>4, <2>5, <2>6, <2>7 DEF IInv
  <1>24. ASSUME NEW t \in Threads, ReadFails(t) PROVE IInv'
    <2>1. TypeOK'
      BY <1>1, <1>24
      DEF ReadFails, Goto, Return, Finish, TypeOK, Threads, Status, Labels,
          Codes, Result, jobVars, cacheVars, remoteVars, callVars
    <2>2. LockInv'
      BY <1>1, <1>24
      DEF ReadFails, Goto, Return, Finish, LockInv, Held, InFetch, Threads,
          callVars, TypeOK
    <2>3. CallInv'
      BY <1>1, <1>24
      DEF ReadFails, Goto, Return, Finish, CallInv, Threads, LifeInv, jobVars,
          callVars, TypeOK
    <2>4. LifeInv'
      BY <1>1, <1>24
      DEF ReadFails, Goto, Return, Finish, LifeInv, Threads, InFetch, jobVars,
          remoteVars
    <2>5. CacheInv'
      BY <1>1, <1>24
      DEF ReadFails, CacheInv, AllCanceled, jobVars, cacheVars, remoteVars
    <2>6. ReadyInv'
      BY <1>1, <1>24
      DEF ReadFails, Goto, Return, Finish, ReadyInv, AfterManifest, InFetch,
          LockInv, Held, TypeOK
    <2>7. ToldInv'
      BY <1>1, <1>24
      DEF ReadFails, Goto, Return, Finish, ToldInv, StatusesAreReal,
          FetchedIsServed, Held, InFetch, Threads, LockInv, CallInv, LifeInv,
          Terminal, CacheInv, ReadyInv, AfterManifest, HasResults, AllCanceled,
          ProgramStatus, jobVars, cacheVars, remoteVars, callVars, TypeOK
    <2> QED
      BY <2>1, <2>2, <2>3, <2>4, <2>5, <2>6, <2>7 DEF IInv
  <1>25. ASSUME NEW t \in Threads, ReadMetadata(t) PROVE IInv'
    <2>1. TypeOK'
      BY <1>1, <1>25
      DEF ReadMetadata, Goto, TypeOK, Labels, jobVars, remoteVars, callVars
    <2>2. LockInv'
      BY <1>1, <1>25 DEF ReadMetadata, Goto, LockInv, Held, InFetch
    <2>3. CallInv'
      BY <1>1, <1>25 DEF ReadMetadata, Goto, CallInv, jobVars, callVars
    <2>4. LifeInv'
      BY <1>1, <1>25
      DEF ReadMetadata, Goto, LifeInv, CacheInv, ReadyInv, jobVars, remoteVars
    <2>5. CacheInv'
      BY <1>1, <1>25 DEF ReadMetadata, CacheInv, jobVars, remoteVars
    <2>6. ReadyInv'
      BY <1>1, <1>25
      DEF ReadMetadata, Goto, ReadyInv, HasResults, LifeInv, CacheInv, jobVars,
          remoteVars, TypeOK
    <2>7. ToldInv'
      BY <1>1, <1>25
      DEF ReadMetadata, Goto, ToldInv, StatusesAreReal, FetchedIsServed, Held,
          InFetch, ReadyInv, remoteVars, callVars
    <2> QED
      BY <2>1, <2>2, <2>3, <2>4, <2>5, <2>6, <2>7 DEF IInv
  <1>26. ASSUME PrefetchBegins PROVE IInv'
    <2>1. TypeOK'
      BY <1>1, <1>26
      DEF PrefetchBegins, Goto, TypeOK, Threads, Labels, jobVars, cacheVars,
          remoteVars, callVars
    <2>2. LockInv'
      BY <1>1, <1>26 DEF PrefetchBegins, Goto, LockInv, Threads
    <2>3. CallInv'
      BY <1>1, <1>26 DEF PrefetchBegins, Goto, CallInv, jobVars, callVars
    <2>4. LifeInv'
      BY <1>1, <1>26 DEF PrefetchBegins, LifeInv, jobVars, remoteVars
    <2>5. CacheInv'
      BY <1>1, <1>26
      DEF PrefetchBegins, CacheInv, AllCanceled, jobVars, cacheVars, remoteVars
    <2>6. ReadyInv'
      BY <1>1, <1>26
      DEF PrefetchBegins, Goto, ReadyInv, AfterManifest, InFetch, Threads,
          LockInv, Held
    <2>7. ToldInv'
      BY <1>1, <1>26
      DEF PrefetchBegins, Goto, ToldInv, StatusesAreReal, FetchedIsServed,
          cacheVars, remoteVars, callVars
    <2> QED
      BY <2>1, <2>2, <2>3, <2>4, <2>5, <2>6, <2>7 DEF IInv
  <1>27. ASSUME PrefetchReads PROVE IInv'
    <2>1. TypeOK'
      BY <1>1, <1>27
      DEF PrefetchReads, Goto, TypeOK, Threads, Labels, jobVars, cacheVars,
          remoteVars, callVars
    <2>2. LockInv'
      BY <1>1, <1>27 DEF PrefetchReads, Goto, LockInv, Held, InFetch
    <2>3. CallInv'
      BY <1>1, <1>27 DEF PrefetchReads, Goto, CallInv, jobVars, callVars
    <2>4. LifeInv'
      BY <1>1, <1>27 DEF PrefetchReads, Goto, LifeInv, jobVars, remoteVars
    <2>5. CacheInv'
      BY <1>1, <1>27
      DEF PrefetchReads, CacheInv, AllCanceled, jobVars, cacheVars, remoteVars
    <2>6. ReadyInv'
      BY <1>1, <1>27
      DEF PrefetchReads, Goto, Visits, Deliverable, ReadyInv, AfterManifest,
          InFetch, HasResults, AllCanceled, jobVars, cacheVars, remoteVars,
          TypeOK
    <2>7. ToldInv'
      BY <1>1, <1>27
      DEF PrefetchReads, Goto, ToldInv, StatusesAreReal, FetchedIsServed,
          cacheVars, remoteVars, callVars
    <2> QED
      BY <2>1, <2>2, <2>3, <2>4, <2>5, <2>6, <2>7 DEF IInv
  <1>28. ASSUME PrefetchSkips PROVE IInv'
    <2>1. TypeOK'
      BY <1>1, <1>28
      DEF PrefetchSkips, TypeOK, Threads, jobVars, cacheVars, remoteVars,
          callVars
    <2>2. LockInv'
      BY <1>1, <1>28 DEF PrefetchSkips, LockInv
    <2>3. CallInv'
      BY <1>1, <1>28 DEF PrefetchSkips, CallInv, jobVars, callVars
    <2>4. LifeInv'
      BY <1>1, <1>28 DEF PrefetchSkips, LifeInv, jobVars, remoteVars
    <2>5. CacheInv'
      BY <1>1, <1>28
      DEF PrefetchSkips, CacheInv, AllCanceled, jobVars, cacheVars, remoteVars
    <2>6. ReadyInv'
      BY <1>1, <1>28
      DEF PrefetchSkips, ReadyInv, HasResults, AllCanceled, jobVars, cacheVars,
          remoteVars
    <2>7. ToldInv'
      BY <1>1, <1>28
      DEF PrefetchSkips, ToldInv, StatusesAreReal, FetchedIsServed, cacheVars,
          remoteVars, callVars
    <2> QED
      BY <2>1, <2>2, <2>3, <2>4, <2>5, <2>6, <2>7 DEF IInv
  <1>29. ASSUME PrefetchStores PROVE IInv'
    <2>1. TypeOK'
      <3>1. index[Prefetch] \in 1 .. programs
        BY <1>1, <1>29 DEF TypeOK, CallInv, PrefetchStores, Goto, Threads
      <3>2. index'[Prefetch] \in 1 .. MaxPrograms + 1
        BY <1>1, <1>29, <3>1 DEF TypeOK, PrefetchStores
      <3>3. index' \in [Threads -> 1 .. MaxPrograms + 1]
        BY <1>1, <1>29, <3>2 DEF TypeOK, PrefetchStores, Threads
      <3> QED
        BY <1>1, <1>29, <3>1, <3>3
        DEF PrefetchStores, Goto, TypeOK, Threads, Labels, jobVars, remoteVars,
            callVars
    <2>2. LockInv'
      BY <1>1, <1>29 DEF PrefetchStores, Goto, LockInv, Held, InFetch
    <2>3. CallInv'
      BY <1>1, <1>29
      DEF PrefetchStores, Goto, CallInv, jobVars, callVars, TypeOK
    <2>4. LifeInv'
      BY <1>1, <1>29 DEF PrefetchStores, Goto, LifeInv, jobVars, remoteVars
    <2>5. CacheInv'
      BY <1>1, <1>29
      DEF PrefetchStores, Goto, CacheInv, Threads, ReadyInv, InFetch,
          HasResults, jobVars, remoteVars
    <2>6. ReadyInv'
      BY <1>1, <1>29
      DEF PrefetchStores, Goto, ReadyInv, AfterManifest, InFetch, HasResults,
          AllCanceled, jobVars, remoteVars, TypeOK
    <2>7. ToldInv'
      BY <1>1, <1>29
      DEF PrefetchStores, Goto, ToldInv, StatusesAreReal, FetchedIsServed,
          remoteVars, callVars
    <2> QED
      BY <2>1, <2>2, <2>3, <2>4, <2>5, <2>6, <2>7 DEF IInv
  <1>30. ASSUME PrefetchEnds PROVE IInv'
    <2>1. TypeOK'
      BY <1>1, <1>30
      DEF PrefetchEnds, Goto, Return, Finish, TypeOK, Threads, Labels, Codes,
          Result, jobVars, cacheVars, remoteVars, callVars
    <2>2. LockInv'
      BY <1>1, <1>30
      DEF PrefetchEnds, Goto, Return, Finish, LockInv, Held, InFetch, Threads,
          TypeOK
    <2>3. CallInv'
      BY <1>1, <1>30
      DEF PrefetchEnds, Goto, Return, Finish, CallInv, jobVars, callVars
    <2>4. LifeInv'
      BY <1>1, <1>30
      DEF PrefetchEnds, Goto, Return, Finish, LifeInv, jobVars, remoteVars
    <2>5. CacheInv'
      BY <1>1, <1>30
      DEF PrefetchEnds, CacheInv, AllCanceled, jobVars, cacheVars, remoteVars
    <2>6. ReadyInv'
      BY <1>1, <1>30
      DEF PrefetchEnds, Goto, Return, Finish, ReadyInv, AfterManifest, InFetch,
          HasResults, AllCanceled, jobVars, cacheVars, remoteVars
    <2>7. ToldInv'
      BY <1>1, <1>30
      DEF PrefetchEnds, Goto, Return, Finish, ToldInv, StatusesAreReal,
          FetchedIsServed, cacheVars, remoteVars, callVars
    <2> QED
      BY <2>1, <2>2, <2>3, <2>4, <2>5, <2>6, <2>7 DEF IInv
  <1>31. CASE UNCHANGED vars
    BY <1>31, <1>1
    DEF vars, jobVars, cacheVars, remoteVars, callVars, IInv, TypeOK, LockInv,
        CallInv, LifeInv, CacheInv, AllCanceled, ReadyInv, HasResults, ToldInv,
        StatusesAreReal, FetchedIsServed
  <1> QED
    BY <1>2, <1>3, <1>4, <1>5, <1>6, <1>7, <1>8, <1>9, <1>10, <1>11, <1>12,
       <1>13, <1>14, <1>15, <1>16, <1>17, <1>18, <1>19, <1>20, <1>21, <1>22,
       <1>23, <1>24, <1>25, <1>26, <1>27, <1>28, <1>29, <1>30, <1>31 DEF Next,
       JobStep, ClientStep, FetchStep, PrefetchStep, Threads

(* The invariant holds in every reachable state.                           *)
LEMMA Invariance ==
  ASSUME ExclusiveConfigure
  PROVE  Spec => []IInv
  <1>1. IInv /\ [Next]_vars => IInv'
    BY NextInv
  <1> QED
    BY InitInv, <1>1, PTL DEF Spec

-----------------------------------------------------------------------------
(* Every variable keeps its type: in particular a result is stored only    *)
(* for a program that exists.                                              *)
THEOREM TypeCorrect ==
  ASSUME ExclusiveConfigure
  PROVE  Spec => []TypeOK
  <1>1. IInv => TypeOK
    BY DEF IInv
  <1> QED
    BY <1>1, Invariance, PTL

(* After a successful fetch of the manifest every program has a status.    *)
THEOREM StatusForEach ==
  ASSUME ExclusiveConfigure
  PROVE  Spec => []StatusesComplete
  <1>1. IInv => StatusesComplete
    BY DEF IInv, ReadyInv, AfterManifest, StatusesComplete
  <1> QED
    BY <1>1, Invariance, PTL

(* Results are read only from a manifest, and only of programs that Braket *)
(* completed.                                                              *)
THEOREM RealResults ==
  ASSUME ExclusiveConfigure
  PROVE  Spec => []ResultsAreReal
  <1>1. IInv => ResultsAreReal
    BY DEF IInv, ReadyInv, CacheInv, ResultsAreReal
  <1> QED
    BY <1>1, Invariance, PTL

(* A status told after Braket stored the results is the real one.          *)
THEOREM RealStatuses ==
  ASSUME ExclusiveConfigure
  PROVE  Spec => []StatusesAreReal
  <1>1. IInv => StatusesAreReal
    BY DEF IInv, ToldInv
  <1> QED
    BY <1>1, Invariance, PTL

(* A result once fetched is served whatever happens to S3.                 *)
THEOREM ServedFromMemory ==
  ASSUME ExclusiveConfigure
  PROVE  Spec => []FetchedIsServed
  <1>1. IInv => FetchedIsServed
    BY DEF IInv, ToldInv
  <1> QED
    BY <1>1, Invariance, PTL

(* The statuses of a canceled job never fail for want of a directory.      *)
THEOREM CanceledTold ==
  ASSUME ExclusiveConfigure
  PROVE  Spec => []CanceledIsTold
  <1>1. IInv => CanceledIsTold
    BY DEF IInv, ReadyInv, CanceledIsTold
  <1> QED
    BY <1>1, Invariance, PTL
=============================================================================
