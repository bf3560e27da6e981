----------------------------- MODULE JobResults -----------------------------
(***************************************************************************)
(* The results of one job: the manifest, the status of each program and    *)
(* the result of each program, fetched from S3 by client calls and by the  *)
(* prefetch lambda, while the job is configured, submitted and finished.   *)
(*                                                                         *)
(* The lifecycle is that of DeviceJob with fewer steps: a submission is    *)
(* one step, and so is every poll that ends the job.  Everything in this   *)
(* module is done under resultsMutex_, but for the index check of a call   *)
(* and the lifecycle, which are sections of jobMutex_.  Programs are       *)
(* numbered from 1.                                                        *)
(*                                                                         *)
(* An operator whose name begins with Buggy is a wrong version of the one  *)
(* that follows it; no specification uses it.                              *)
(***************************************************************************)
EXTENDS Naturals

CONSTANTS
  Clients,             (* threads that call the job                        *)
  Prefetch,            (* the thread that runs the prefetch lambda         *)
  Nobody,              (* the holder of a free mutex                       *)
  MaxPrograms,         (* bound: the number of programs of the job         *)
  MaxCalls,            (* bound: the number of calls that fetch            *)
  ExclusiveConfigure   (* TRUE: nobody calls setPrograms during a fetch    *)

ASSUME JobResultsAssumption ==
  /\ Prefetch \notin Clients /\ Nobody \notin Clients \union {Prefetch}
  /\ MaxPrograms \in Nat \ {0} /\ MaxCalls \in Nat
  /\ ExclusiveConfigure \in BOOLEAN

Threads == Clients \union {Prefetch}

Status        == {"CREATED", "SUBMITTED", "DONE", "FAILED", "CANCELED"}
Terminal      == {"DONE", "FAILED", "CANCELED"}
ProgramStatus == {"DONE", "FAILED", "CANCELED"}

VARIABLES
  (* the job: status_, submissionStarted_, retrieved_, the number of        *)
  (* programs and of results, programSet_, and whether it knows its S3      *)
  (* directory                                                              *)
  status, submissionStarted, retrieved, programs, programSet, located,
  (* what has been fetched: resultManifest_, programStatuses_, and the      *)
  (* programs whose results_ entry is fetched                               *)
  manifest, programStatuses, fetched,
  resultsMutex,
  (* S3: whether results.json exists, and what it says of each program      *)
  stored, outcome,
  (* threads: control, operation, program, and what was true when the call  *)
  (* began: the manifest was stored, the result had been fetched            *)
  pc, op, index, wasStored, wasFetched, ret, calls

jobVars    == <<status, submissionStarted, retrieved, programs, programSet,
                located>>
cacheVars  == <<manifest, programStatuses, fetched>>
remoteVars == <<stored, outcome>>
callVars   == <<op, wasStored, wasFetched, calls>>
vars == <<jobVars, cacheVars, resultsMutex, remoteVars, callVars, pc, index,
          ret>>

Labels == {"idle", "check", "lock", "manifest", "read", "metadata", "ready",
           "program", "done"}
Codes  == {"none", "SUCCESS", "BADSTATE", "OUTOFRANGE", "NOTSUPPORTED",
           "SERVICE"}
Result == [code : Codes, status : ProgramStatus \union {"none"}]

Unknown     == <<>>

AllCanceled == [i \in 1 .. programs |-> "CANCELED"]

-----------------------------------------------------------------------------
(* The lifecycle, as far as results depend on it.                          *)

(* setPrograms: a new set of programs comes with as many empty results.    *)
Configure ==
  /\ status = "CREATED" /\ ~retrieved
  /\ ExclusiveConfigure => \A c \in Clients : pc[c] = "idle"
  /\ programs' \in 1 .. MaxPrograms
  /\ programSet' = (programs' > 1)
  /\ fetched' = {}
  /\ UNCHANGED <<status, submissionStarted, retrieved, located, manifest,
                 programStatuses, resultsMutex, remoteVars, callVars, pc, index,
                 ret>>

Submit ==
  /\ status = "CREATED" /\ programs > 0
  /\ status' = "SUBMITTED"
  /\ UNCHANGED <<submissionStarted, retrieved, programs, programSet, located,
                 cacheVars, resultsMutex, remoteVars, callVars, pc, index, ret>>

StartSubmission ==
  /\ status = "SUBMITTED" /\ ~retrieved /\ ~submissionStarted
  /\ submissionStarted' = TRUE
  /\ UNCHANGED <<status, retrieved, programs, programSet, located, cacheVars,
                 resultsMutex, remoteVars, callVars, pc, index, ret>>

(* The submission fails, before or after the worker began it.              *)
SubmissionFails ==
  /\ status = "SUBMITTED" /\ ~retrieved /\ ~located
  /\ status' = "FAILED"
  /\ UNCHANGED <<submissionStarted, retrieved, programs, programSet, located,
                 cacheVars, resultsMutex, remoteVars, callVars, pc, index, ret>>

(* cancel() of a job no worker has begun.                                  *)
CancelLocal ==
  /\ ~retrieved /\ ~submissionStarted /\ status \in {"CREATED", "SUBMITTED"}
  /\ status' = "CANCELED"
  /\ UNCHANGED <<submissionStarted, retrieved, programs, programSet, located,
                 cacheVars, resultsMutex, remoteVars, callVars, pc, index, ret>>

(* A poll finds the task running: it has the S3 directory of the results.  *)
Poll ==
  /\ status = "SUBMITTED" /\ (submissionStarted \/ retrieved)
  /\ located' = TRUE
  /\ UNCHANGED <<status, submissionStarted, retrieved, programs, programSet,
                 cacheVars, resultsMutex, remoteVars, callVars, pc, index, ret>>

(* A poll finds that the task has ended.                                   *)
PollEnds ==
  /\ status = "SUBMITTED" /\ (submissionStarted \/ retrieved)
  /\ status' \in Terminal
  /\ located' = TRUE
  /\ outcome' \in [1 .. programs -> ProgramStatus]
  /\ UNCHANGED <<submissionStarted, retrieved, programs, programSet, cacheVars,
                 resultsMutex, stored, callVars, pc, index, ret>>

(* Braket writes the results of a task that has ended, sooner or later; of *)
(* a canceled or failed task perhaps never.                                *)
StoreResults ==
  /\ outcome # Unknown /\ ~stored
  /\ stored' = TRUE
  /\ UNCHANGED <<jobVars, cacheVars, resultsMutex, outcome, callVars, pc, index,
                 ret>>

-----------------------------------------------------------------------------
(* getProgramStatus, getResults and the prefetch lambda's fetchResults.    *)

Goto(t, from, to) == pc[t] = from /\ pc' = [pc EXCEPT ![t] = to]

Return(t, from, code, s) ==
  /\ Goto(t, from, IF t = Prefetch THEN "done" ELSE "idle")
  /\ ret' = [ret EXCEPT ![t] = [code |-> code, status |-> s]]

(* The call ends and releases resultsMutex_.                               *)
Finish(t, from, code, s) == Return(t, from, code, s) /\ resultsMutex' = Nobody

Call(c) ==
  /\ Goto(c, "idle", "check")
  /\ calls < MaxCalls
  /\ calls' = calls + 1
  /\ op' \in {[op EXCEPT ![c] = o] : o \in {"status", "result"}}
  /\ index' \in {[index EXCEPT ![c] = i] : i \in 1 .. MaxPrograms}
  /\ wasStored' = [wasStored EXCEPT ![c] = stored]
  /\ wasFetched' = [wasFetched EXCEPT ![c] = index'[c] \in fetched]
  /\ ret' = [ret EXCEPT ![c] = [code |-> "none", status |-> "none"]]
  /\ UNCHANGED <<jobVars, cacheVars, resultsMutex, remoteVars>>

IndexError(c) ==
  IF op[c] = "status" /\ programs = 0 THEN "BADSTATE"
  ELSE IF index[c] > programs THEN "OUTOFRANGE"
  ELSE IF op[c] = "status" /\ ~programSet THEN "NOTSUPPORTED"
  ELSE "SUCCESS"

CheckIndex(c) ==
  /\ \/ IndexError(c) = "SUCCESS" /\ Goto(c, "check", "lock") /\ UNCHANGED ret
     \/ IndexError(c) # "SUCCESS" /\ Return(c, "check", IndexError(c), "none")
  /\ UNCHANGED <<jobVars, cacheVars, resultsMutex, remoteVars, callVars, index>>

(* The prefetch lambda has found the job ended; a job that was retrieved   *)
(* has none.                                                               *)
PrefetchBegins ==
  /\ Goto(Prefetch, "idle", "manifest")
  /\ ~retrieved /\ outcome # Unknown
  /\ status = "DONE" \/ programSet
  /\ resultsMutex = Nobody
  /\ resultsMutex' = Prefetch
  /\ UNCHANGED <<jobVars, cacheVars, remoteVars, callVars, index, ret>>

BuggyServed(c) == FALSE

(* A result that has been fetched is served from memory.                   *)
Served(c) == op[c] = "result" /\ index[c] \in fetched

Lock(c) ==
  /\ ~Served(c)
  /\ Goto(c, "lock", "manifest")
  /\ resultsMutex = Nobody
  /\ resultsMutex' = c
  /\ UNCHANGED <<jobVars, cacheVars, remoteVars, callVars, index, ret>>

Serve(c) ==
  /\ Served(c)
  /\ Return(c, "lock", "SUCCESS", "none")
  /\ resultsMutex = Nobody
  /\ UNCHANGED <<jobVars, cacheVars, resultsMutex, remoteVars, callVars, index>>

-----------------------------------------------------------------------------
(* fetchResultManifest                                                     *)

(* A set of programs has statuses even when the task failed.               *)
HasResults == status = "DONE" \/ (programSet /\ status \in Terminal)

BuggyNeverSent == FALSE

(* The job was canceled before any worker began to send it.                *)
NeverSent == status = "CANCELED" /\ ~retrieved /\ ~submissionStarted

(* The statuses come from the task metadata the manifest holds or names.   *)
NeedsMetadata(known, s) == programSet /\ s = Unknown

NoResults(t) ==
  /\ ~HasResults
  /\ Finish(t, "manifest", "BADSTATE", "none")
  /\ UNCHANGED <<jobVars, cacheVars, remoteVars, callVars, index>>

StatusesOfUnsent(t) ==
  /\ HasResults /\ NeverSent
  /\ Goto(t, "manifest", "ready")
  /\ programStatuses' = AllCanceled
  /\ UNCHANGED <<jobVars, manifest, fetched, resultsMutex, remoteVars, callVars,
                 index, ret>>

ManifestCached(t) ==
  /\ HasResults /\ ~NeverSent /\ manifest
  /\ Goto(t, "manifest",
          IF NeedsMetadata(TRUE, programStatuses) THEN "metadata" ELSE "ready")
  /\ UNCHANGED <<jobVars, cacheVars, resultsMutex, remoteVars, callVars, index,
                 ret>>

ManifestNeeded(t) ==
  /\ HasResults /\ ~NeverSent /\ ~manifest
  /\ Goto(t, "manifest", "read")
  /\ UNCHANGED <<jobVars, cacheVars, resultsMutex, remoteVars, callVars, index,
                 ret>>

BuggyStatusesAfterManifest == programStatuses

(* Provisional statuses of a canceled task give way to the manifest's.     *)
StatusesAfterManifest ==
  IF status = "CANCELED" THEN Unknown ELSE programStatuses

ReadManifest(t) ==
  /\ located /\ stored
  /\ Goto(t, "read", IF NeedsMetadata(FALSE, StatusesAfterManifest)
                     THEN "metadata" ELSE "ready")
  /\ manifest' = TRUE
  /\ programStatuses' = StatusesAfterManifest
  /\ UNCHANGED <<jobVars, fetched, resultsMutex, remoteVars, callVars, index,
                 ret>>

(* A canceled task may have no manifest: all its programs were canceled.   *)
ManifestMissing(t) ==
  /\ located /\ ~stored /\ status = "CANCELED"
  /\ Goto(t, "read", "ready")
  /\ programStatuses' = AllCanceled
  /\ UNCHANGED <<jobVars, manifest, fetched, resultsMutex, remoteVars, callVars,
                 index, ret>>

(* The S3 directory is not known, S3 fails, or an object is missing or     *)
(* malformed.                                                              *)
ReadFails(t) ==
  /\ \/ ~located /\ Finish(t, "read", "BADSTATE", "none")
     \/ /\ located
        /\ \E from \in {"read", "metadata", "program"} :
             Finish(t, from, "SERVICE", "none")
  /\ UNCHANGED <<jobVars, cacheVars, remoteVars, callVars, index>>

ReadMetadata(t) ==
  /\ Goto(t, "metadata", "ready")
  /\ programStatuses' = outcome
  /\ UNCHANGED <<jobVars, manifest, fetched, resultsMutex, remoteVars, callVars,
                 index, ret>>

-----------------------------------------------------------------------------
(* After the manifest: the status, or the result of one program.           *)

ReturnStatus(c) ==
  /\ op[c] = "status"
  /\ Finish(c, "ready", "SUCCESS", programStatuses[index[c]])
  /\ UNCHANGED <<jobVars, cacheVars, remoteVars, callVars, index>>

BuggyDeliverable(i) == TRUE

Deliverable(i) == programSet => programStatuses[i] = "DONE"

NoResult(c) ==
  /\ op[c] = "result"
  /\ Finish(c, "ready", "BADSTATE", "none")
  /\ ~Deliverable(index[c])
  /\ UNCHANGED <<jobVars, cacheVars, remoteVars, callVars, index>>

ResultNeeded(c) ==
  /\ op[c] = "result"
  /\ Goto(c, "ready", "program")
  /\ Deliverable(index[c])
  /\ UNCHANGED <<jobVars, cacheVars, resultsMutex, remoteVars, callVars, index,
                 ret>>

FetchResult(c) ==
  /\ op[c] = "result"
  /\ Finish(c, "program", "SUCCESS", "none")
  /\ fetched' = fetched \union {index[c]}
  /\ UNCHANGED <<jobVars, manifest, programStatuses, remoteVars, callVars,
                 index>>

(* The prefetch lambda visits the programs in order.                       *)
Visits(i) == Deliverable(i) /\ i \notin fetched

PrefetchReads ==
  /\ Goto(Prefetch, "ready", "program")
  /\ index[Prefetch] <= programs /\ Visits(index[Prefetch])
  /\ UNCHANGED <<jobVars, cacheVars, resultsMutex, remoteVars, callVars, index,
                 ret>>

PrefetchSkips ==
  /\ pc[Prefetch] = "ready"
  /\ index[Prefetch] <= programs /\ ~Visits(index[Prefetch])
  /\ index' = [index EXCEPT ![Prefetch] = @ + 1]
  /\ UNCHANGED <<jobVars, cacheVars, resultsMutex, remoteVars, callVars, pc,
                 ret>>

PrefetchStores ==
  /\ Goto(Prefetch, "program", "ready")
  /\ fetched' = fetched \union {index[Prefetch]}
  /\ index' = [index EXCEPT ![Prefetch] = @ + 1]
  /\ UNCHANGED <<jobVars, manifest, programStatuses, resultsMutex, remoteVars,
                 callVars, ret>>

PrefetchEnds ==
  /\ index[Prefetch] > programs
  /\ Finish(Prefetch, "ready", "SUCCESS", "none")
  /\ UNCHANGED <<jobVars, cacheVars, remoteVars, callVars, index>>

-----------------------------------------------------------------------------
(* createDeviceJob, or openDeviceJob with the programs of its task.        *)
Init ==
  /\ \/ /\ retrieved = FALSE /\ programs = 0 /\ programSet = FALSE
        /\ status = "CREATED"
     \/ /\ retrieved = TRUE /\ programs \in 1 .. MaxPrograms
        /\ programSet \in {b \in BOOLEAN : programs > 1 => b}
        /\ status = "SUBMITTED"
  /\ submissionStarted = FALSE /\ located = retrieved
  /\ manifest = FALSE /\ programStatuses = Unknown /\ fetched = {}
  /\ resultsMutex = Nobody
  /\ stored = FALSE /\ outcome = Unknown
  /\ pc = [t \in Threads |-> "idle"]
  /\ op = [t \in Threads |-> IF t = Prefetch THEN "prefetch" ELSE "status"]
  /\ index = [t \in Threads |-> 1]
  /\ wasStored = [c \in Clients |-> FALSE]
  /\ wasFetched = [c \in Clients |-> FALSE]
  /\ ret = [t \in Threads |-> [code |-> "none", status |-> "none"]]
  /\ calls = 0

JobStep ==
  \/ Configure \/ Submit \/ StartSubmission \/ SubmissionFails \/ CancelLocal
  \/ Poll \/ PollEnds \/ StoreResults

FetchStep(t) ==
  \/ NoResults(t) \/ StatusesOfUnsent(t) \/ ManifestCached(t)
  \/ ManifestNeeded(t) \/ ReadManifest(t) \/ ManifestMissing(t) \/ ReadFails(t)
  \/ ReadMetadata(t)

ClientStep(c) ==
  \/ CheckIndex(c) \/ Lock(c) \/ Serve(c) \/ FetchStep(c)
  \/ ReturnStatus(c) \/ NoResult(c) \/ ResultNeeded(c) \/ FetchResult(c)

PrefetchStep ==
  \/ PrefetchBegins \/ FetchStep(Prefetch)
  \/ PrefetchReads \/ PrefetchSkips \/ PrefetchStores \/ PrefetchEnds

Next ==
  \/ JobStep
  \/ \E c \in Clients : Call(c) \/ ClientStep(c)
  \/ PrefetchStep

Spec == Init /\ [][Next]_vars

-----------------------------------------------------------------------------
TypeOK ==
  /\ status \in Status
  /\ submissionStarted \in BOOLEAN /\ retrieved \in BOOLEAN
  /\ programs \in 0 .. MaxPrograms /\ programSet \in BOOLEAN
  /\ located \in BOOLEAN /\ manifest \in BOOLEAN /\ stored \in BOOLEAN
  /\ programStatuses \in {Unknown} \union [1 .. programs -> ProgramStatus]
  /\ outcome \in {Unknown} \union [1 .. programs -> ProgramStatus]
  /\ fetched \subseteq 1 .. programs
  /\ resultsMutex \in Threads \union {Nobody}
  /\ pc \in [Threads -> Labels]
  /\ op \in [Threads -> {"status", "result", "prefetch"}]
  /\ index \in [Threads -> 1 .. MaxPrograms + 1]
  /\ wasStored \in [Clients -> BOOLEAN]
  /\ wasFetched \in [Clients -> BOOLEAN]
  /\ ret \in [Threads -> Result]
  /\ calls \in 0 .. MaxCalls

(* When fetchResultManifest has succeeded there is a status for every      *)
(* program, whatever failed on the way or in earlier calls.                *)
StatusesComplete ==
  \A t \in Threads :
    (pc[t] \in {"ready", "program"} /\ programSet) =>
      DOMAIN programStatuses = 1 .. programs

(* A result is read only from a manifest that is there, and only of a      *)
(* program that Braket completed; a job never sent has none.               *)
ResultsAreReal ==
  /\ \A t \in Threads : pc[t] = "program" => manifest
  /\ \A i \in fetched : IF programSet THEN outcome[i] = "DONE"
                                       ELSE status = "DONE"

(* A status told by a call that began after Braket had stored the results  *)
(* is the program's real status: the provisional CANCELED of a task whose  *)
(* manifest was missing does not outlive the manifest.                     *)
StatusesAreReal ==
  \A c \in Clients :
    (pc[c] = "idle" /\ op[c] = "status" /\ ret[c].code = "SUCCESS"
       /\ wasStored[c]) =>
      ret[c].status = outcome[index[c]]

(* Results in memory stay available: once fetched, by a call or by the     *)
(* prefetch lambda, a result never depends on S3 again.                    *)
FetchedIsServed ==
  \A c \in Clients :
    (pc[c] = "idle" /\ op[c] = "result" /\ wasFetched[c]) =>
      ret[c].code \in {"SUCCESS", "none"}

(* The statuses of a canceled job never fail for want of an S3 directory:  *)
(* either the job was never sent and needs none, or the poll that found it *)
(* canceled has brought one.                                               *)
CanceledIsTold ==
  \A t \in Threads : (pc[t] = "read" /\ status = "CANCELED") => located

(* Device.hpp says that fetching results is thread safe: the program that  *)
(* getResults has checked exists when its result is looked up.             *)
IndexStaysValid ==
  \A c \in Clients :
    op[c] = "result" /\ pc[c] \notin {"idle", "check"} => index[c] <= programs
=============================================================================
