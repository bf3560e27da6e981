------------------------- MODULE ArchitectureCache -------------------------
(***************************************************************************)
(* The architecture of one device ARN: the copy each session keeps, the    *)
(* process-wide cache, and the status and queue length that are asked anew *)
(* for every query.  Several threads query several sessions of the ARN.    *)
(*                                                                         *)
(* Every answer of GetDevice may differ from the one before, so an answer  *)
(* is represented by its number.  An architecture object, a status and a   *)
(* queue length are represented by the number of the answer they were made *)
(* from; an architecture's number is thus its identity and the age of its  *)
(* calibration data, and stands for the site and operation handles in it.  *)
(*                                                                         *)
(* An operator whose name begins with Buggy is a wrong version of the one  *)
(* that follows it; no specification uses it.                              *)
(***************************************************************************)
EXTENDS Naturals

CONSTANTS
  Sessions,     (* sessions of the device ARN                              *)
  Clients,      (* threads that query them                                 *)
  Nobody,       (* the holder of a free mutex                              *)
  None,         (* a null architecture pointer                             *)
  Stub,         (* an identity stub: name, provider and device type        *)
  MaxCalls      (* bound: the number of calls of all clients together      *)

ASSUME ArchitectureCacheAssumption ==
  /\ Nobody \notin Clients
  /\ None \notin Nat /\ Stub \notin Nat /\ None # Stub
  /\ MaxCalls \in Nat

Kinds == {"QPU", "SIMULATOR"}

(* "static" asks for sites, operations or another property of the          *)
(* architecture, "limits" for the program set limits a job must obey.      *)
Queries   == {"static", "limits", "status", "queue"}
Refreshes == {"status", "queue"}

VARIABLES
  kind,          (* what the device is                                     *)
  deviceCache,   (* the process-wide cache's entry for the ARN             *)
  open,          (* the sessions that exist                                *)
  cached,        (* cachedArchitecture_ of each session                    *)
  status,        (* braketDeviceStatus_ of each session                    *)
  queueLength,   (* queueLength_ of each session                           *)
  fetchMutex,    (* who holds architectureFetchMutex_ of each session      *)
  answers,       (* answers GetDevice has given                            *)
  openedAt,      (* answers given before the session was opened            *)
  handed,        (* architectures whose handles a session has given out    *)
  pc, on, query, (* control of each client, its session and its query      *)
  answer,        (* the answer a client is working on                      *)
  began,         (* answers given before the client's query began          *)
  ret,           (* what the client's last query returned                  *)
  calls

sessionVars == <<open, cached, status, queueLength, openedAt, handed>>
callVars    == <<on, query, began, calls>>
vars == <<kind, deviceCache, sessionVars, fetchMutex, answers, callVars, pc,
          answer, ret>>

Labels == {"idle", "fetch", "get", "store", "queue", "publish", "snapshot",
           "load"}
Codes  == {"none", "SUCCESS", "SERVICE", "NOTSUPPORTED"}
Result == [code : Codes, value : Nat]

(* qubitsNum > 0                                                           *)
Full(architecture) == architecture \in Nat

-----------------------------------------------------------------------------
Goto(c, from, to) == pc[c] = from /\ pc' = [pc EXCEPT ![c] = to]

Return(c, from, code, value) ==
  /\ Goto(c, from, "idle")
  /\ ret' = [ret EXCEPT ![c] = [code |-> code, value |-> value]]

Release(c) == fetchMutex' = [fetchMutex EXCEPT ![on[c]] = Nobody]

(* fetchDeviceArchitecture fails and releases its lock.                    *)
Fail(c, from, code) == Return(c, from, code, 0) /\ Release(c)

(* queryDeviceProperty, or supportsPrograms called by a job's setter, on   *)
(* an open session.                                                        *)
Call(c) ==
  /\ Goto(c, "idle", "fetch")
  /\ calls < MaxCalls
  /\ on' \in {[on EXCEPT ![c] = s] : s \in open}
  /\ query' \in {[query EXCEPT ![c] = q] : q \in Queries}
  /\ began' = [began EXCEPT ![c] = answers]
  /\ ret' = [ret EXCEPT ![c] = [code |-> "none", value |-> 0]]
  /\ calls' = calls + 1
  /\ UNCHANGED <<kind, deviceCache, sessionVars, fetchMutex, answers, answer>>

-----------------------------------------------------------------------------
(* fetchDeviceArchitecture, under architectureFetchMutex_.                 *)

(* A session without a complete architecture adopts what the cache has.    *)
BuggyAdopted(s) == deviceCache

Adopted(s) == IF Full(cached[s]) THEN cached[s] ELSE deviceCache

Adopt(s) == cached' = [cached EXCEPT ![s] = Adopted(s)]

BuggyAnswerFromCache(c) == Full(Adopted(on[c]))

AnswerFromCache(c) == Full(Adopted(on[c])) /\ query[c] \notin Refreshes

FetchHit(c) ==
  /\ Goto(c, "fetch", "snapshot")
  /\ fetchMutex[on[c]] = Nobody
  /\ AnswerFromCache(c)
  /\ Adopt(on[c])
  /\ UNCHANGED <<kind, deviceCache, open, status, queueLength, openedAt, handed,
                 fetchMutex, answers, callVars, answer, ret>>

FetchAsks(c) ==
  /\ Goto(c, "fetch", "get")
  /\ fetchMutex[on[c]] = Nobody
  /\ ~AnswerFromCache(c)
  /\ Adopt(on[c])
  /\ fetchMutex' = [fetchMutex EXCEPT ![on[c]] = c]
  /\ UNCHANGED <<kind, deviceCache, open, status, queueLength, openedAt, handed,
                 answers, callVars, answer, ret>>

GetDevice(c) ==
  /\ Goto(c, "get", "store")
  /\ answers' = answers + 1
  /\ answer' = [answer EXCEPT ![c] = answers + 1]
  /\ UNCHANGED <<kind, deviceCache, sessionVars, fetchMutex, callVars, ret>>

(* GetDevice fails, or its device status has no QDMI status.               *)
GetDeviceFails(c) ==
  /\ Fail(c, "get", "SERVICE") \/ Fail(c, "store", "NOTSUPPORTED")
  /\ UNCHANGED <<kind, deviceCache, sessionVars, answers, callVars, answer>>

(* The status is stored before the capabilities are parsed.                *)
StoreStatus(c) ==
  /\ Goto(c, "store", IF Full(cached[on[c]]) THEN "queue" ELSE "publish")
  /\ status' = [status EXCEPT ![on[c]] = answer[c]]
  /\ UNCHANGED <<kind, deviceCache, open, cached, queueLength, openedAt, handed,
                 fetchMutex, answers, callVars, answer, ret>>

(* The end of a refresh.                                                   *)
StoreQueueLength(c) ==
  /\ Goto(c, "queue", "snapshot")
  /\ queueLength' = [queueLength EXCEPT ![on[c]] = answer[c]]
  /\ Release(c)
  /\ UNCHANGED <<kind, deviceCache, open, cached, status, openedAt, handed,
                 answers, callVars, answer, ret>>

ParseFails(c) ==
  /\ Fail(c, "publish", "NOTSUPPORTED")
  /\ UNCHANGED <<kind, deviceCache, sessionVars, answers, callVars, answer>>

BuggyCacheEntry(architecture) == architecture

(* A QPU leaves only its identity in the process-wide cache.               *)
CacheEntry(architecture) == IF kind = "QPU" THEN Stub ELSE architecture

Publish(c) ==
  /\ Goto(c, "publish", "snapshot")
  /\ deviceCache' = CacheEntry(answer[c])
  /\ cached' = [cached EXCEPT ![on[c]] = answer[c]]
  /\ queueLength' = [queueLength EXCEPT ![on[c]] = answer[c]]
  /\ Release(c)
  /\ UNCHANGED <<kind, open, status, openedAt, handed, answers, callVars,
                 answer, ret>>

-----------------------------------------------------------------------------
(* After a successful fetch the caller takes the architecture and the      *)
(* queue length in one section; the status is an atomic read after it.     *)

ReturnArchitecture(c) ==
  /\ query[c] \in {"static", "limits"}
  /\ Return(c, "snapshot", "SUCCESS", cached[on[c]])
  /\ handed' = IF query[c] = "static"
               THEN [handed EXCEPT ![on[c]] = @ \union {cached[on[c]]}]
               ELSE handed
  /\ UNCHANGED <<kind, deviceCache, open, cached, status, queueLength, openedAt,
                 fetchMutex, answers, callVars, answer>>

ReturnQueueLength(c) ==
  /\ query[c] = "queue"
  /\ Return(c, "snapshot", "SUCCESS", queueLength[on[c]])
  /\ UNCHANGED <<kind, deviceCache, sessionVars, fetchMutex, answers, callVars,
                 answer>>

(* The answer has no queue length, or the architecture no coupling map or  *)
(* program set limits.                                                     *)
ReturnUnsupported(c) ==
  /\ query[c] # "status"
  /\ Return(c, "snapshot", "NOTSUPPORTED", 0)
  /\ UNCHANGED <<kind, deviceCache, sessionVars, fetchMutex, answers, callVars,
                 answer>>

Snapshot(c) ==
  /\ query[c] = "status"
  /\ Goto(c, "snapshot", "load")
  /\ UNCHANGED <<kind, deviceCache, sessionVars, fetchMutex, answers, callVars,
                 answer, ret>>

ReturnStatus(c) ==
  /\ Return(c, "load", "SUCCESS", status[on[c]])
  /\ UNCHANGED <<kind, deviceCache, sessionVars, fetchMutex, answers, callVars,
                 answer>>

(* querySiteProperty and queryOperationProperty search only the session's  *)
(* own architecture for a handle; h is the architecture the handle is in.  *)
Accepts(s, h) == cached[s] = h

-----------------------------------------------------------------------------
(* Sessions come and go while no client is using them.                     *)

Unused(s) == \A c \in Clients : pc[c] = "idle" \/ on[c] # s

(* What a client got from session s is no longer looked at.                *)
Forget(S) ==
  ret' = [c \in Clients |->
            IF on[c] \in S THEN [code |-> "none", value |-> 0] ELSE ret[c]]

SessionFree(s) ==
  /\ s \in open /\ Unused(s)
  /\ open' = open \ {s}
  /\ handed' = [handed EXCEPT ![s] = {}]
  /\ Forget({s})
  /\ UNCHANGED <<kind, deviceCache, cached, status, queueLength, openedAt,
                 fetchMutex, answers, callVars, pc, answer>>

SessionAlloc(s) ==
  /\ s \notin open
  /\ open' = open \union {s}
  /\ cached' = [cached EXCEPT ![s] = None]
  /\ status' = [status EXCEPT ![s] = 0]
  /\ queueLength' = [queueLength EXCEPT ![s] = 0]
  /\ openedAt' = [openedAt EXCEPT ![s] = answers]
  /\ UNCHANGED <<kind, deviceCache, handed, fetchMutex, answers, callVars, pc,
                 answer, ret>>

(* finalize() frees the sessions left and empties the cache.               *)
Clear ==
  /\ \A s \in open : Unused(s)
  /\ open' = {}
  /\ deviceCache' = None
  /\ handed' = [s \in Sessions |-> {}]
  /\ Forget(open)
  /\ UNCHANGED <<kind, cached, status, queueLength, openedAt, fetchMutex,
                 answers, callVars, pc, answer>>

-----------------------------------------------------------------------------
Init ==
  /\ kind \in Kinds
  /\ deviceCache = None
  /\ open = {}
  /\ cached = [s \in Sessions |-> None]
  /\ status = [s \in Sessions |-> 0]
  /\ queueLength = [s \in Sessions |-> 0]
  /\ openedAt = [s \in Sessions |-> 0]
  /\ handed = [s \in Sessions |-> {}]
  /\ fetchMutex = [s \in Sessions |-> Nobody]
  /\ answers = 0
  /\ pc = [c \in Clients |-> "idle"]
  /\ on \in [Clients -> Sessions] /\ \A c, d \in Clients : on[c] = on[d]
  /\ query = [c \in Clients |-> "static"]
  /\ answer = [c \in Clients |-> 0]
  /\ began = [c \in Clients |-> 0]
  /\ ret = [c \in Clients |-> [code |-> "none", value |-> 0]]
  /\ calls = 0

FetchStep(c) ==
  \/ FetchHit(c) \/ FetchAsks(c) \/ GetDevice(c) \/ GetDeviceFails(c)
  \/ StoreStatus(c) \/ StoreQueueLength(c) \/ ParseFails(c) \/ Publish(c)

ClientStep(c) ==
  \/ FetchStep(c)
  \/ ReturnArchitecture(c) \/ ReturnQueueLength(c) \/ ReturnUnsupported(c)
  \/ Snapshot(c) \/ ReturnStatus(c)

Next ==
  \/ \E c \in Clients : Call(c) \/ ClientStep(c)
  \/ \E s \in Sessions : SessionFree(s) \/ SessionAlloc(s)
  \/ Clear

Spec == Init /\ [][Next]_vars

-----------------------------------------------------------------------------
Architectures == Nat \union {None, Stub}

TypeOK ==
  /\ kind \in Kinds
  /\ deviceCache \in Architectures
  /\ open \subseteq Sessions
  /\ cached \in [Sessions -> Architectures]
  /\ status \in [Sessions -> Nat]
  /\ queueLength \in [Sessions -> Nat]
  /\ openedAt \in [Sessions -> Nat]
  /\ handed \in [Sessions -> SUBSET Nat]
  /\ fetchMutex \in [Sessions -> Clients \union {Nobody}]
  /\ answers \in Nat
  /\ pc \in [Clients -> Labels]
  /\ on \in [Clients -> Sessions]
  /\ query \in [Clients -> Queries]
  /\ answer \in [Clients -> Nat]
  /\ began \in [Clients -> Nat]
  /\ ret \in [Clients -> Result]
  /\ calls \in 0 .. MaxCalls

(* A site or operation handle stays valid for as long as the session that  *)
(* gave it out: no query of it is refused, whatever other threads query or *)
(* refresh meanwhile.                                                      *)
HandlesStayValid == \A s \in open : \A h \in handed[s] : Accepts(s, h)

(* The calibration data of a QPU belongs to one session.                   *)
CalibrationIsPrivate ==
  kind = "QPU" =>
    \A s, t \in open : (s # t /\ Full(cached[s])) => cached[s] # cached[t]

(* Opening a new session yields a new calibration snapshot: a QPU's        *)
(* architecture was asked for after its session was opened.                *)
CalibrationIsNew ==
  kind = "QPU" => \A s \in open : Full(cached[s]) => cached[s] > openedAt[s]

(* A status or queue length is never older than the query it answers,      *)
(* though other threads store theirs in the same members.                  *)
AnswerIsFresh ==
  \A c \in Clients :
    (pc[c] = "idle" /\ query[c] \in Refreshes /\ ret[c].code = "SUCCESS") =>
      ret[c].value > began[c]

(* A successful fetch leaves a complete architecture, so what follows it   *)
(* may use it without a test.                                              *)
FetchedIsFull ==
  \A c \in Clients : pc[c] \in {"snapshot", "load"} => Full(cached[on[c]])

(* A session publishes its handles once: a complete architecture is never  *)
(* replaced while the session exists.                                      *)
PublishedOnce ==
  [][\A s \in open \intersect open' :
       Full(cached[s]) => cached'[s] = cached[s]]_vars
=============================================================================
