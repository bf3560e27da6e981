# Verification of the Amazon Braket QDMI device

TLA+ models of the C++ library in `src/` and `include/`, the TLC
configurations that check them and the proofs TLAPS checks.  File names below
are relative to the repository; `Device.cpp` is `src/Device.cpp`, `Device.hpp`
is `include/amazon-braket-qdmi-device/Device.hpp`.

## The system

The library implements the QDMI device interface on top of the AWS SDK.  A
process initializes it once, allocates *sessions* (one per device ARN and set
of credentials), and creates *jobs* in a session.  Any thread may call any of
them; each session also owns two pools of eight threads, one that submits
QuantumTasks and one that polls them and fetches their results ahead of use.

| Component | State | Operations | Interacts with |
|---|---|---|---|
| Library (`Device.cpp` 833-909, 2715-2795) | SDK initialized?, session registry, architecture cache by ARN | initialize, finalize, sessionAlloc, sessionFree, clear | sessions (owns them) |
| Session (`Device.cpp` 917-1474) | parameters, AWS clients, architecture with the handles given out, device status, queue length, default S3 destination, job registry, executors | init, setParameter, queries, createDeviceJob, openDeviceJob, freeDeviceJob | library cache; Braket, S3 and STS |
| Job lifecycle (1390-1466, 1681-1856, 1963-2352) | status, submitting, submissionStarted, programs and parameters, task ARN, submission error, future, stop source, three mutexes | setPrograms, setParameter, submit, check, wait, cancel, query, free; submission lambda; prefetch lambda | session's executors, GetQuantumTask, CreateQuantumTask, CancelQuantumTask |
| Job results (1858-1884, 2354-2687) | manifest, program statuses, results per program | getProgramStatus, getResults, prefetch's fetchResults | S3; status and programs of the lifecycle |
| Device status (495-679, `Queue.hpp`) | none (pure) | queue length, execution windows, QDMI status | session |
| Capability parser (`DeviceParser.cpp`) | none (pure) | sites, coupling map, operations, calibration | session |
| OpenQASM adaptation, measurement projection | none (pure) | rewriting one program, counting outcomes | submit, getResults |
| C API (2699-3173) | none but the SDK flag | null checks and forwarding | all |
| Python packages | none | locating the library, Qiskit and PennyLane adapters | C API |

### What is hard

* **Threads.**  Clients, the submission worker and the prefetch worker meet on
  `jobMutex_`, on `statusMutex_`, which lets one poll at a time ask Braket, on
  `prefetchMutex_`, which the destructor uses to drain the lambda, and on two
  atomic members that are read without a lock.
* **Order.**  Answers of Braket arrive at several pollers; an answer that is
  applied late must not undo a newer one.
* **Partial failure.**  A submission has five places to fail, before and after
  the job is closed to changes, on two threads; CreateQuantumTask may be
  accepted and its answer lost.
* **Cancellation** means something else in every phase: not submitted, being
  prepared, queued for the worker, being sent, known to Braket, finished.
* **Destruction** while a lambda is queued, running, sleeping between polls or
  about to queue itself again.
* **Shared threads.**  Each session has eight threads for submissions and eight
  for prefetches, for any number of jobs; a prefetch sleeps in its thread, and
  lambdas with a pointer to a job outlive the job in the queue.
* **Translation.**  Sites are renumbered by the parser and again by the
  adaptation of a program; the result is put together from qubits listed in
  any order; shots are multiplied and divided by the number of programs.
* **Caches**: an architecture whose handles must stay valid for the life of
  the session, an S3 destination, a results manifest that may not exist yet.

### What makes each component correct

* Job lifecycle: one task per job, made from what the job shows; a status that
  only advances and is true when terminal; a cancellation that takes effect; a
  destructor after which nothing touches the job; every call returns.
* Job results: statuses and results of a program are those of the same program
  at Braket, a provisional status gives way to the real one, a failed fetch
  leaves nothing half-stored.
* Architecture: handles given to the caller stay valid in the session;
  calibration data of a QPU is private to a session; a status query is never
  answered from before it began.
* S3 destination: an explicit URI wins, the default is resolved once.
* Pools and library: nothing runs on a job, a session or an SDK that is gone,
  no submission is lost with an executor, every call returns though tasks may never end, every ended task is noticed.
* Capabilities, programs and results: a site of a program is the provider's
  site of that name, limits are those of the document, and a classical slot
  holds the outcome of the qubit the client assigned to it.

`PROJECT.json` lists the hazards with their lines and the properties that
would notice each.

## Modules

| Module | What it is |
|---|---|
| `DeviceJob` | one job object: clients, submission worker, prefetch worker, Braket |
| `JobPromise` | what a job promises: configured freely, closed once, sent at most once and unaltered |
| `MCDeviceJob` | constants for TLC |
| `DeviceJobProofs` | the single task and its contents, status, cancellation, failure and destruction of a job, and the refinement of `JobPromise`: inductive invariants and theorems of `DeviceJob` |
| `JobResults` | the manifest, program statuses and results of one job, fetched by clients and the prefetch lambda |
| `JobResultsProofs` | inductive invariant and theorems of `JobResults` |
| `ArchitectureCache` | the architecture, status and queue length of one device ARN in several sessions |
| `ArchitectureCacheProofs` | inductive invariant and theorems of `ArchitectureCache` |
| `DeviceStatus` | queue length and QDMI status computed from one answer of GetDevice |
| `DeviceStatusProofs` | what an execution window means, inductive invariant and theorems of `DeviceStatus` |
| `SessionSetup` | parameters, region and default S3 destination of the sessions of an account |
| `SessionSetupProofs` | inductive invariant and theorems of `SessionSetup` |
| `SessionPools` | the library, its sessions and the executors many jobs share |
| `SessionPoolsProofs` | inductive invariant and theorems of `SessionPools` |
| `GateModel` | the capabilities document and what the parser makes of it (operators) |
| `OpenQasm` | programs as sequences of statements, their adaptation and the readout of a returned source (operators; extends `GateModel`) |
| `JobPrograms` | programs and shots of one job from setParameter to its results and to openDeviceJob (extends `OpenQasm`) |
| `JobProgramsProofs` | program set limits, opened jobs, indices of sites, fidelities and the adaptation of programs: theorems of `JobPrograms` and the operators below it |
| `JobReadoutProofs` | the type of `JobPrograms`, and that the bits read for a program are the ones its text asks for (extends `JobProgramsProofs`) |
| `MCJobResults`, `MCArchitectureCache`, `MCDeviceStatus`, `MCSessionSetup`, `MCSessionPools`, `MCJobPrograms` | constants for TLC |

An operator whose name begins with `Buggy` is a plausible wrong version of the
operator after it; each property is known to fail when one of them is put in
the place of the right one.

### DeviceJob

**State.**  `status`, `submitting`, `submissionStarted`, `retrieved`,
`submissionError`, `jobHandle`, `stopPrefetch` and the three mutexes are the
members of `Device.hpp` 404-440.  `programs` stands for everything the setters
change (programs, format, shots, S3 URI, reservation): one abstract value, as
the lifecycle never looks inside.  `taskArn` says whether the ARN is known.
`request` is the request the submission lambda carries, `prefetchQueue` the
number of prefetch lambdas in the result executor, `life` whether the object
is live, inside its destructor or gone.  `task`, `taskConfig` and `created` are
Braket's side: the task, what it was made from, and how often
CreateQuantumTask was accepted.  Each thread has a program counter `pc`, its
operation `op`, and what its last call returned, `ret`.

**Steps.**  A step is one critical section of `jobMutex_`, one access to an
atomic member outside of a lock, or one exchange with Braket.  Where another
thread can read an atomic member in the middle of a section, the section is
split and `jobMutex` records its holder (the last section of the worker,
2090-2099, and the handlers of `submit`, 2101-2120); elsewhere a section is one
step and the mutex need only be free.

| Code | Actions |
|---|---|
| `setPrograms`, `setParameter` 1717-1856 | `Configure`, `ConfigureRefused` |
| `submit` 1963-2121 | `SubmitRefused`, `SubmitSnapshot`, `SubmitPrepare`, `SubmitNoDestination`, `SubmitEnqueue`, `SubmitRejected`, `SubmitCatch`, `SubmitStoreError`, `SubmitStoreFailed` |
| submission lambda 2067-2099 | `WorkerSkips` ... `WorkerFinishes` |
| `check`, `updateFromTask` 2209-2328 | `CheckError` ... `CheckUpdate` |
| `wait` `Device.hpp` 459-497 | `WaitBegins`, `WaitError`, `WaitChecked` |
| `cancel`, `awaitSubmission` 1452-1466, 2123-2207 | `CancelQueued` ... `CancelRemoteFails` |
| `startPrefetch` 1400-1450 | `PrefetchStarts` ... `PrefetchRequeues` |
| `~Job` 1390-1398 | `FreeStops`, `FreeWaits`, `FreeLocks` |
| Braket (external) | `TaskAdvances` |

**Assumptions about what is outside.**  Braket's statuses advance in the order
the comments of `cancel` and the switch of `updateFromTask` suggest: CREATED,
QUEUED, RUNNING, then COMPLETED or FAILED; CANCELLING ends as CANCELLED,
COMPLETED or FAILED.  An answer of GetQuantumTask is current when it is made;
it may be stored late.  Freeing a job is exclusive, as QDMI requires: no other
call is in progress or begins afterwards.  Two steps are merged that no thread
can tell apart: the worker's future becomes ready together with the release of
`jobMutex_` at the end of its last section.

**Left out.**  Exceptions (out of memory) thrown inside the section at
2100-2113 after the executor accepted the lambda; the contents of programs and
results; the ID and QUEUEPOSITION queries.

`JobPromise` is the abstract specification; `DeviceJob` implements it under the
mapping `config <- programs`, `closed <- submitting \/ status # "CREATED"`,
`sent <- taskConfig` (property `KeepsPromise`).

### JobResults

**State.**  `manifest`, `programStatuses` and `fetched` are `resultManifest_`,
`programStatuses_` and the `fetched` flags of `results_`; `programs` is the
length of `programs_` and `results_`, `programSet` is `programSet_`, and
`located` says whether the job knows its S3 directory.  `stored` and `outcome`
are S3's and Braket's side: whether `results.json` exists, and the status it
gives each program.  `wasStored` and `wasFetched` remember what was true when
a call began, for the properties.

**Steps.**  A call checks its program index under `jobMutex_` (`CheckIndex`),
takes `resultsMutex_` (`Lock`, or `Serve` for a result in memory) and runs
fetchResultManifest, one action for each way through it: `NoResults`,
`StatusesOfUnsent`, `ManifestCached`, `ManifestNeeded`, then `ReadManifest`,
`ManifestMissing` or `ReadFails`, then `ReadMetadata`.  Each read of S3 may
fail.  `ReturnStatus`, `NoResult`, `ResultNeeded`, `FetchResult` and the
`Prefetch...` actions are what follows.  fetchResultsInternal repeats
fetchResultManifest for each program of a prefetch; under the mutex the
repetition changes nothing and is left out.  The lifecycle is `DeviceJob`'s
with fewer steps, one for each change of what results depend on.

**Assumptions.**  The answer that says a task has ended names its S3
directory.  `results.json` is written after the task has ended, never changes,
and agrees with the task's metadata.  With `ExclusiveConfigure` nobody calls
setPrograms while another thread fetches; without it a finding appears.

### ArchitectureCache

**State.**  `cached`, `status`, `queueLength` and `fetchMutex` are the members
of each session (`Device.hpp` 298-316), `deviceCache` the entry of the
process-wide `deviceCache_` for the ARN.  Every answer of GetDevice has a
number, and an architecture, a status or a queue length is the number of the
answer it was made from.  `handed` holds the architectures whose site or
operation handles a session has given out: `querySiteProperty` and
`queryOperationProperty` look a handle up in the session's architecture
(`Accepts`).

**Steps.**  `fetchDeviceArchitecture` (917-1068) is `FetchHit` or `FetchAsks`,
`GetDevice`, `StoreStatus`, and `StoreQueueLength` or `Publish`, with
`GetDeviceFails` and `ParseFails`; the query that called it goes on with one
of `ReturnArchitecture`, `ReturnQueueLength`, `ReturnUnsupported`, or
`Snapshot` and `ReturnStatus`.  Sessions are allocated and freed, and the
library is cleared, while no client uses them.  The section that writes the
process-wide cache and then the session's member holds
`cachedArchitectureMutex_`, so nobody reads the member between the two writes:
it is one step.

### DeviceStatus

One evaluation for one answer: `AddQueue`, `QueueUnknown`, `QueuesAdded` are
getTotalQueueLength; `SkipWindow`, `PassWindow`, `InWindow`, `WindowsSearched`
are getCurrentExecutionWindowAvailability; `ComputeStatus` is
getQDMIStatusForBraketDevice.  The text of numbers and times is abstracted to
what is parsed from it, None where parsing fails.  The reference against which
windows are checked (`Covers`) measures the time since a window's start on a
circle of seven days and does not split windows at midnight; the reference of
the queue length (`Sum`) is the sum over the integers.

### SessionSetup

**State.**  `deviceArn`, `region`, `initialized`, `destination` and
`destinationMutex` are the members of each session (`Device.hpp` 294-339),
`envArn`, `envRegion` and `envUri` the environment, which does not change;
an empty string and an unset variable are both `None`: setParameter accepts
the empty string too, and takes back what was set.  `bucket` is S3's side.
`chosen` and `threw` remember, for the properties, the region last passed to
setParameter, if it was not empty, and whether an init has ended with an exception.

**Steps.**  setParameter and init (1092-1223) are one step each, as nobody else
uses the session yet: `SetArn`, `SetRegion`, `SetupRefused`, `InitWithoutArn`,
`InitSucceeds`, `InitThrows`.  resolveS3Destination (1225-1302) is `UseUri`,
`BadUri` or `NoUri`, then `UseKnown`, or `BeginDefault`, `GetCallerIdentity`
and `BeginCreate` with the mutex held, ended by `UseDefault`, `BucketTaken` or
`RequestFails`.  The creation of a bucket takes time (`EndCreate`), in which
other sessions are refused for it, and goes on when its answer is lost.

**Assumptions.**  Nobody deletes the bucket; a refused CreateBucket is refused
before it can stand in another's way.  A job belongs to an initialized session
(1309, 1327), so the test for missing clients at 1247 never succeeds and is
left out.  The reservation ARN is left out: it is set like the region and only
read by submissions.

### SessionPools

**State.**  `library`, `session`, `job` are how far the lives of the SDK, of
each session and of each job have come; a state such as `destroying` also says
who holds `gAWSInitMutex`, `sessionsMutex_` or `jobsMutex_`.  `pools` are the
sessions whose executors exist (`submissionExecutor_`, `resultExecutor_`), `submissions` and `polls`
their queues, `submission` where the submission of a job is (`jobHandle_`),
`at` where the prefetch is that holds the job's `prefetchMutex_`, and `blocked`
how many threads wait for that mutex.  `stop` and `canceled` are the stop
source and the withdrawn submissions; `task` and `outcome` are Braket's task
and how prefetching ended.

**Steps.**  A call on one job is `DeviceJob`'s; here it is as many steps as the
other jobs and the pools can tell apart.  submit() looks for the executors
(`FindPools`) and creates those it did not find (`CreatePools`) under
`jobsMutex_`, in two steps, as two first submissions would replace each other's
executors without it.

| Code | Actions |
|---|---|
| `initialize`, `finalize` 2746-2795 | `Initialize`, `Finalize`, `BeginClear`, `Shutdown` |
| `sessionAlloc`, `init`, `sessionFree`, `clear` 833-862 | `SessionAlloc`, `SessionInit`, `SessionFree`, `BeginDestroy` |
| `~Session` 1381-1388 | `BeginDestroy`, `DestroyJobOf`, `EndDestroy` |
| `createDeviceJob`, `openDeviceJob`, `freeDeviceJob`, `~Job` | `CreateDeviceJob`, `OpenDeviceJob`, `FreeDeviceJob`, `EraseJob`, `JobDestroyed` |
| `submit`, `cancel` 1963-2132 | `Submit`, `FindPools`, `CreatePools`, `Enqueue`, `Cancel` |
| submission lambda 2067-2099 | `TakeSubmission`, `StartSubmission`, `Submitted`, `EndSubmission` |
| `startPrefetch` 1400-1450 | `TakePrefetch`, `LockPrefetch`, `Check`, `Fetch`, `Wake`, `Requeue`, `Leave` |
| Braket (external) | `TaskEnds` |

**Assumptions.**  The executors are the SDK's (external): `PoolSize` threads
take what is queued in order, and destroying one waits for what its threads
run and drops the rest.  The caller does not use a job or a session after it
began to free it, frees a session (or finalizes) when its calls on that
session's jobs have returned, and initializes the library once.

### GateModel, OpenQasm, JobPrograms

**Data.**  A capabilities document is a record whose field is None where the
JSON has no value or one of another type; site labels are strings with a
number (`Decimal`) and a place in the order of texts (`TextOrder`).  A program
is a sequence of statements, a reference to a qubit the element of a register,
`$` being the register of physical qubits.  `size_t` and `int64_t` are
`0 .. MaxSize` and `0 .. MaxInt64`, and products wrap.

**Operators.**  `GateModel` follows `GateModelCapabilityParser`:
`ParseSitesAndConnectivity` with the assignment of indices to labels,
`ParseOperations`, `OperationSites`, `ParseOperationFidelities`,
`ParseProgramSetLimits`, and `ParseProperties`, which calls them.  `OpenQasm`
has `IsNative` (nativeProgram), `AdaptProgram`, `SourceReadout` and
`ParseMeasurementResults` under the names they have in the code.

**Steps of `JobPrograms`.**  `SetPrograms`, `SetShots` (with supportsPrograms),
`Submit`, `Read` and `Reopen` (openDeviceJob) are calls; they do not overlap,
`DeviceJob` has what happens when they do.  The architecture is there from the
start, `ArchitectureCache` having its fetching.  `ServiceRuns` is Braket
(external): it reports the qubits that explicit measurements name, or all used
ones, in any order, with any outcome, and with or without the source.  One
shot of each program stands for all.

**Left out.**  The characters of tokens, comments and gate parameters; T1 and
T2 times and the number of parameters of an operation.

## Runs

| Run | Checks | Bounds |
|---|---|---|
| `job_safety` | eight safety properties, `StatusForward`, refinement of `JobPromise` (`KeepsPromise`) | 2 clients, 2 configurations, 3 calls, all operations but `wait` |
| `job_calls_return` | `CallsReturn` | 2 clients, 1 configuration, 2 calls of submit, check, wait, timed wait, cancel, free |
| `job_failure_status` | `FailureShowsFailed`, which fails | 2 clients, 1 configuration, 2 calls |
| `job_results` | `ResultsAreReal`, `StatusesAreReal`, `FetchedIsServed`, `CanceledIsTold` | 2 clients and the prefetch lambda, up to 2 programs, 3 calls, exclusive configuration |
| `job_results_index` | `IndexStaysValid`, which fails | as above with 1 call and free configuration |
| `architecture_cache` | `HandlesStayValid`, `CalibrationIsPrivate`, `CalibrationIsNew`, `AnswerIsFresh` | 2 sessions, 2 clients, 3 queries, QPU and simulator |
| `device_status` | `TotalIsExact`, `IdleIsFree`, `AvailabilityIsRight` | up to 3 queues of 6 lengths with few windows, every window alone and pairs of windows with few queues, `size_t` up to 7, threshold 3, days of 4 seconds, every moment of the week |
| `device_idle` | `IdleNeedsWindow`, which fails | as `device_status` |
| `session_setup` | `RegionIsRight`, `DestinationIsUsable`, `OneRequester`, `AnswerIsRight` | 2 sessions, 2 clients, 2 ARNs, 2 regions, 2 URIs, every environment, 3 setup calls, 3 submissions |
| `session_pools` | `SubmissionsAreKept`, `WorkTouchesLiveJobs`, `RequestsHaveClients`, `PrefetchIsFair`, `JobCallsReturn`, `ClosingReturns` | 1 session, 2 jobs, executors of 1 thread |
| `job_programs` | type, `SitesAreProgramIndices`, `FidelityIsTheDevices`, `LimitsRespected`, `ReopenedShotsAddUp`, `SitesKeepTheirRoles`, `FormIsTheDevices`, `ReadoutIsRight` | 11 devices of up to 4 sites, 65 programs and 3 lists of up to 3, shots 0, 1, 2, 3, 6, 8, `int64_t` up to 7 and `size_t` up to 15, 5 tasks of others |
| `job_programs_names` | `NamesDoNotMatter`, which fails | as above with one program and bit registers named c, q and verbatim |

The bounds: every race in this code is between two callers, or a caller and a
worker, so two clients show it; three calls are enough for submit, a second
operation that races it and a third that observes the outcome.  `MaxCalls`
bounds only the number of calls: the worker and the prefetch loop run as long
as they like.  Clients are interchangeable, and the safety run uses that
symmetry; the liveness runs do not.

In `job_results` three calls let one call fail after the manifest, a second
meet what it left, and a third observe; two programs are the fewest that can
differ in status.  The job really may end its life there, so deadlock is not
checked; nor in `DeviceStatus`, which stops when the status is computed.  In
`architecture_cache` three queries let one thread refresh while a second
fetches and a third result is looked at, with sessions that end and begin
between.  Days of four seconds have windows that start before, at and after
their end with moments on every side; the queue lengths include 0, the largest
`size_t`, and pairs whose sum is exactly the largest and one more.

In `session_setup` three setup calls let an init be refused for a missing ARN,
the ARN be set and the init repeated, or two sessions be initialized from the
environment; three submissions let one fail after the bucket was created, one
race another session and one use what is remembered.  Clients, sessions and
URIs are interchangeable.

In `session_pools` two jobs and one thread are the least in which a running
task can keep an ended one waiting, the destructor of one job the calls on
another, or the first submissions of two jobs could meet; the session is freed or left to finalize.  The safety properties also
hold with two threads (183,000 states), and are proved for any number.

In `job_programs` the devices are a simulator, computers with and without
physical qubits, verbatim boxes, a graph and program sets, and documents the
parser refuses; labels are numbers, texts, equal numbers (`01`) and numbers
beyond `size_t`.  The programs combine initializations, gates on sites with
gaps between them, and assignments in and out of order, repeated and missing.
The shots have products at, below and above both widths.  `Apart` keeps shots
and texts, which do not affect each other, from being varied together.

**Fairness.**  `ThreadFairness` is weak fairness of each client's steps (not of
beginning a call), of the worker and of the prefetch thread: the operating
system schedules runnable threads and every AWS request ends, since the SDK
has time limits.  A mutex that is free and wanted by two threads may be taken by
either, with one exception: a thread that polls in a loop sleeps for 100 or
500 ms between two polls with `statusMutex_` free (`Device.hpp` 495,
`Device.cpp` 1429-1436), so a thread blocked on it gets it in the end, which is
strong fairness of `CheckLock`.  Strong fairness of `TimesOut` says that time
passes.  No fairness of `TaskAdvances` is assumed: `CallsReturn` therefore does
not ask an unlimited `wait()` to return while the task can still go on, and
asks everything of every other call.  `SessionPools` likewise assumes that the
steps of calls that have begun and of the pools' threads are taken, and nothing
of the caller's next call or of `TaskEnds`.

**Findings.**  The runs that expect a violation each test a sentence of the
repository that the code does not keep:

* `docs/usage.md` line 45 says that submission failures appear through check
  and wait with status FAILED.  The error is stored before the status
  (2094-2097, 2108-2109, 2118-2119) and `check` reads the two without
  `jobMutex_` (2259-2261), so it can return the error together with SUBMITTED.
* `Device.hpp` line 58 says that fetching results is thread safe by
  `jobMutex_`.  The index is checked under `jobMutex_` (2607-2612) but used
  under `resultsMutex_` (2503), and setPrograms (1748-1749) may shrink
  `results_` in between.
* `docs/api.md` lines 9-10 say that an online device is idle only inside a
  public execution window.  A device whose windows cannot be read is idle at
  any time (618-639, 649-655).
* `docs/api.md` lines 91-92 say that register names do not affect the
  recognition of flat programs.  The adaptation declares its qubits as `q`
  (429) and keeps the name of the bit register (448), so a bit register `q` is
  declared twice; one named `verbatim` or `braket` is met
  again in the pragma that is added (454), where sourceReadout gives up
  (`DeviceParser.cpp` 113-131).

## Proofs

The theorems hold for every value of the constants: any number of clients,
sessions, jobs and calls, any documents and lists, any width of an integer.

**`DeviceJobProofs`** proves `TypeCorrect`; `OneTask`, a job creates at most one
QuantumTask; and `TaskMatches`, the task was made from what the job contains.
They follow from `IInv == TypeOK /\ JobInv /\ WorkerInv /\ SubmitInv /\
PollInv`.  None of the properties is inductive alone: that a second submission
is impossible needs that CREATED and not submitting is a state from which
nothing was sent (`JobInv`), that the worker is beyond its start only for a
pending submission (`WorkerInv`), that at most one client is between the
snapshot and the handover and its snapshot is the job's configuration
(`SubmitInv`), and that only a known task is polled (`PollInv`, which the type
of `status` needs).  The step lemma has one case per group of actions that
disturbs each conjunct; the others are handled by lemmas that say they leave
it alone.

Its second part continues from `IInv` with the other properties of
`job_safety`.  Its invariant `SafetyInv` has six parts, each kept by a lemma of
its own with one step per action:

* `StatusInv` bounds the status by the task: `Reached[k]` are the statuses a job
  with a known task at `k` may show, and `ReachedGrows` says that the task's
  progress only adds to them.  A job without a task ARN is settled by submit,
  the worker and cancel alone.
* `PollOrderInv`: polls exclude each other, and the answer a poll holds is at
  least as far as the status it will replace, although it was made before
  `jobMutex_` was taken again.  This is what makes a late answer harmless
  (`ForwardOnly`, an action property, and `TerminalTrue`).
* `ErrorInv`, `CancelInv`: what a failed submission and an accepted cancel leave
  behind (`ErrorMeansFailed`, `CancelKnows`, `CancelEffective`).
* `FreeInv`: what the destructor has waited for when it goes on (`FreedUnused`).
* `ContentsInv`: a job that is submitted has contents, and so has its task.

`UnderWay` (`SubmittingIsUnderWay`) has an invariant of its own: every step that
takes a client out of submit() resets `submitting_` or leaves the submission to
the executor, and a job canceled before a worker took it is no longer
submitting (`UnderWayInv`), so the worker that drops it has nothing to reset.

`PromiseKept` is the refinement of `JobPromise`.  `PromiseInit` maps the initial
states, and `PromiseMoves` each step of `DeviceJob` to a step of `JobPromise` or
a stutter: the snapshot of `submit` closes the job, the handover submits it, a
failure ends it, a cancel withdraws or discards it, the worker's
CreateQuantumTask sends, the update at the end of a poll observes, and all other
steps leave the four mapped variables alone.  `ContentsInv` is needed
there, as a task that was created must have been made from something.

**`JobResultsProofs`** proves type correctness, all properties of the run
`job_results` and `StatusesComplete` (each program of a set has a status when
the manifest has been fetched), assuming `ExclusiveConfigure`.  The invariant
says who is where while `resultsMutex_` is held (`LockInv`), that a checked index
stays valid (`CallInv`), that a job which can be configured has no results and
that an ended task was sent and located (`LifeInv`), that cached statuses are
real or provisional, the latter only without manifest (`CacheInv`), what a
thread may rely on after fetchResultManifest (`ReadyInv`), and what was true
when a call began (`ToldInv`).

**`ArchitectureCacheProofs`** proves type correctness, all properties of
`architecture_cache`, `FetchedIsFull`, and `PublishedOnce`, the step form of
`HandlesStayValid`: no step replaces or drops a complete architecture.  The invariant: the fetch lock is held
from the cache lookup to the publication (`LockInv`), queries work on open
sessions (`OpenInv`), a fetch that publishes found no complete architecture and
one that refreshes did (`FullInv`), numbers are of answers given (`AgeInv`), a
QPU's answer that may be published is nobody else's and newer than its session
(`PrivateInv`), and what a session stores only gets newer (`FreshInv`).

**`DeviceStatusProofs`** proves that the window test is what a window means
(`WindowMeaning`, by cases on the days between), and from it
`AvailabilityRight` and `IdleFree`, with loop invariants for the two loops.
`TotalExact` compares the checked additions of the queue lengths with the sum
over the integers, `Sum`, a recursive function.  That `Sum` satisfies its
equation (`SumEquation`) and grows (`SumGrows`) is proved by the least number
for which it would not (`LeastNumber`, from the well-foundedness of `<`): the
library's induction theorems, which take an operator as parameter, are not
needed.

**`SessionSetupProofs`** proves type correctness and the properties of
`session_setup`: a session not yet initialized has the region it was given or
the environment's (`SetupInv`), and the thread that sends requests holds the
mutex, has no explicit destination and found no remembered one (`RequestInv`).

**`SessionPoolsProofs`** proves `TypeCorrect`, `LiveJobs` (`WorkTouchesLiveJobs`),
`SubmissionsKept` (`SubmissionsAreKept`) and `Clients` (`RequestsHaveClients`).  Its invariant: a job in or after its
destructor has been asked to stop (`StopInv`), so a lambda that gets
`prefetchMutex_` late leaves at once; a submission under way is of a job that
was submitted and is there, and a prefetch that uses a job uses one that is
there (`WorkInv`); only created jobs are in the queue of prefetches
(`QueueInv`); a job that creates executors is alone in its session in that and
found none, and one that enqueues has them (`PoolsInv`); and jobs live in
sessions, which live in an initialized library (`OwnerInv`).  The executors' threads are never counted: the properties do not
depend on how many there are.

**`JobProgramsProofs`** has three arguments.

* Shots.  `AcceptedInv` says that the shots and programs of a job were accepted
  together, whichever was set last; with `TaskInv` and `OpenedInv` it gives
  `Limits` and `Reopened`.  `ProductIsSigned` shows that a product the test of
  supportsPrograms lets through fits `int64_t`, so that it does not wrap.
* Sites.  The document does not change, so these theorems are about the parser's
  operators, for every document.  `RanksAreDistinct` and `SortedListsLabels` show
  that the order of labels lists each of them once; `IndicesAreUnshared`, by the
  least number of labels for which it would fail, that the indices assigned one
  after the other are distinct and that labels of digits keep their number
  (`Unshared` is the invariant of the loop).  `ProgramIndices` and `Fidelities`
  follow, the latter by `EntryGives`: an entry is found for exactly the pairs it
  gives a value for.
* Adaptation, for every well-formed program and device.  `Of` and `Kept` select statements
  with the recursive function `Selected`; what holds for a selection is proved
  for its first statement and kept by each (`UpTo`): selecting from a
  concatenation is selecting from its parts (`SelectionConcat`), and selecting
  from a selection is selecting once (`SelectionTwice`).  An adapted native
  program has seven parts, of which two hold the uses of qubits
  (`NativeParts`), and these are the client's, renamed (`NativeUses`).  Renaming
  is one to one because the ranks of the sites are different
  (`RanksOfNumbers`, `ReferencesDiffer`); any other program loses its include
  statement and no use (`OtherUses`).  That gives `SitesKept`, and `FormKept`
  since each rank is below the width of the declared register and each site
  that is not measured gets a measurement (`AscendingListsAll`).  `SourcesInv`
  says that the task's sources are the adapted programs of the job, which
  needs that nothing is set once there is a task.

**`JobReadoutProofs`** proves `ReadoutIsRight`, which spans everything from the
client's text to the bitstring: renaming by the adaptation, the service's order
of the qubits, initializations and assignments that override each other, the
extra measurements of a device that wants all qubits measured.

* `ResultsInv` is the invariant: only a device whose document was parsed has a
  task, each result is a shot of the qubits its source requests in some order,
  and what was read is what parseMeasurementResults makes of it.
* A selection ends with the last statement it selects (`SelectionEnds`,
  `LastWhere`).  As the adaptation keeps the last initialization and all
  assignments in order, the last assignment to a slot becomes the last one in
  the source (`LastInitIsKept`, `LastAssignmentIsKept`), of the renamed qubit.
  What is declared before a statement is found by the same means
  (`BeforeRegister`), so every write of the source is to the register of bits
  (`WritesAreNamed`).
* A source that is not given up has a readout with the width of that register
  (`ReadoutHasWidth`, `AdaptedReadout`), an order of the measured qubits lists
  each of them (`OrdersListAll`), and since the renaming is one to one the
  column of a slot's qubit is the client's (`RoleIsTheOther`).  Together these
  are `ParsedReadout`, and `Projections` for every reachable state.
* When a source is not given up is a question of its own.  `Readouts` has
  `Readable` as its hypothesis, that what is submitted of the clients' programs
  can be projected: a client may write a program that cannot, an assignment
  beyond its register or two registers, and so may the adaptation when names
  clash (see the findings).  `MCJobPrograms` has TLC evaluate that the programs
  of `job_programs` meet it and those of `job_programs_names` do not.
* `SoundReadouts` needs no such hypothesis: it asks only of the client's text
  what `Sound` says.  For a flat native program it is enough that the register
  of bits is not called `q`, `$` or a word of the pragma.  The seven parts of
  the source come in a fixed order (`NativeLayers`), so that every statement
  finds declared what it refers to and nothing measured too early
  (`LayersBefore`); the rest is what nativeProgram has tested (`NativeSource`,
  `NativeStatements`), and no statement stops the readout (`NativeIsHeard`).  The
  theorem and the run `job_programs_names` together say which names matter.
  For another program it is enough that its own text can be projected: without
  the includes each statement has the same registers and measurements before it
  (`SelectionPlaced`), so it is judged as before (`SameVerdict`, `OtherIsHeard`).

`Types` is type correctness, with `ParsedBits` for the bits that are read.

**Assumptions.**  The named assumptions of each module, which TLC evaluates:
threads and special values are distinct and bounds not empty; numbers of shots
are `size_t`, Braket's numbers are integers; a client sets at least one program,
and a program is well-formed (`WellFormed`): a sequence of statements, gates and
measurements with references to elements of registers, numbered from 0, an
assignment with a slot and one reference, an initialization with bits, a register
of bits with a width; a readout is neither None nor Fatal;
a document has finitely many labels, which `TextOrder` orders, and its
`qubitCount` is a `size_t`; `std::to_string` writes a number as the label that
stands for it.

**Model-checked only.**  Liveness (`CallsReturn`, `PrefetchIsFair`,
`JobCallsReturn`, `ClosingReturns`): the prover has no rules for fairness and
ENABLED.  Four properties are refuted by TLC (findings).  Every other property
of a run is a theorem.

## Not modelled

* The wrappers of the C API: null checks and forwarding to the operations
  above.
* The Python packages: paths, a command line and adapters, without state.
* The QUEUEPOSITION and ID queries of a job.  The position is read in a second
  section after the poll (1902), when another poll may have replaced it; the
  answer is then newer or refused, and nothing is promised that this breaks.
* Initializing the library again after finalize, its log level and environment
  variable.
* T1 and T2 times, the number of parameters of operations, and the characters
  of programs.
* Exceptions for want of memory.

## Plan

Done: all modules above, their runs, and a theorem for every safety property
the runs check.  Left: the QUEUEPOSITION query and initializing the library
again after finalize.
