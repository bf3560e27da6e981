---------------------- MODULE ArchitectureCacheProofs ----------------------
(***************************************************************************)
(* The safety properties of ArchitectureCache, for any number of sessions, *)
(* clients and calls, from one inductive invariant.                        *)
(***************************************************************************)
EXTENDS ArchitectureCache, TLAPS

Locked   == {"get", "store", "queue", "publish"}
Answered == {"store", "queue", "publish"}
Pending  == {"store", "publish"}
Fetched  == {"snapshot", "load"}

(* A client inside fetchDeviceArchitecture holds its session's fetch lock. *)
LockInv == \A c \in Clients : pc[c] \in Locked => fetchMutex[on[c]] = c

(* A query works on a session that exists, and only such sessions have     *)
(* given out handles.                                                      *)
OpenInv ==
  /\ \A c \in Clients : pc[c] # "idle" => on[c] \in open
  /\ \A s \in Sessions \ open : handed[s] = {}

(* The holder of the lock knows whether its session has an architecture,   *)
(* and an architecture once there stays.                                   *)
FullInv ==
  /\ \A c \in Clients :
       /\ pc[c] \in Fetched \union {"queue"} => Full(cached[on[c]])
       /\ pc[c] = "publish" => ~Full(cached[on[c]])
  /\ HandlesStayValid

(* Numbers stored anywhere are of answers already given.                   *)
AgeInv ==
  /\ Full(deviceCache) => deviceCache <= answers
  /\ \A s \in Sessions :
       /\ status[s] <= answers /\ queueLength[s] <= answers
       /\ openedAt[s] <= answers
       /\ Full(cached[s]) => cached[s] <= answers
  /\ \A c \in Clients : answer[c] <= answers /\ began[c] <= answers

(* For a QPU: the cache has at most a stub, an answer that may yet be      *)
(* published is newer than the session and nobody else has it.             *)
PrivateInv ==
  kind = "QPU" =>
    /\ ~Full(deviceCache)
    /\ \A c \in Clients : pc[c] \in Pending =>
         /\ answer[c] > openedAt[on[c]]
         /\ \A s \in Sessions : cached[s] # answer[c]
         /\ \A d \in Clients \ {c} : pc[d] \in Pending => answer[d] # answer[c]
    /\ CalibrationIsPrivate /\ CalibrationIsNew

(* What a session stores only gets newer, and a refreshing query has an    *)
(* answer newer than itself once it stores one.                            *)
FreshInv ==
  /\ \A c \in Clients :
       /\ pc[c] \in Answered =>
            answer[c] > began[c] /\ answer[c] > queueLength[on[c]]
       /\ pc[c] = "store" => answer[c] > status[on[c]]
       /\ pc[c] \in {"queue", "publish"} => answer[c] = status[on[c]]
       /\ (pc[c] \in Fetched /\ query[c] \in Refreshes) =>
            status[on[c]] > began[c] /\ queueLength[on[c]] > began[c]
  /\ AnswerIsFresh

IInv == TypeOK /\ LockInv /\ OpenInv /\ FullInv /\ AgeInv /\ PrivateInv
             /\ FreshInv

-----------------------------------------------------------------------------
(* The initial states satisfy the invariant.                               *)
LEMMA InitInv == Init => IInv
  BY ArchitectureCacheAssumption
  DEF Init, IInv, TypeOK, LockInv, Locked, OpenInv, FullInv, Fetched, Full,
      HandlesStayValid, AgeInv, PrivateInv, Pending, CalibrationIsPrivate,
      CalibrationIsNew, FreshInv, Answered, AnswerIsFresh, Labels, Queries,
      Architectures, Result, Codes

(* Every step keeps it: one step of the proof per action, and under it one *)
(* per part of the invariant.                                              *)
LEMMA NextInv == IInv /\ [Next]_vars => IInv'
  <1> SUFFICES ASSUME IInv, [Next]_vars PROVE IInv'
    OBVIOUS
  <1> USE ArchitectureCacheAssumption
  <1>1. TypeOK /\ LockInv /\ OpenInv /\ FullInv /\ AgeInv /\ PrivateInv
          /\ FreshInv
    BY DEF IInv
  <1>2. ASSUME NEW c \in Clients, Call(c) PROVE IInv'
    <2>1. TypeOK'
      <3>1. PICK s \in open, q \in Queries :
              /\ on' = [on EXCEPT ![c] = s]
              /\ query' = [query EXCEPT ![c] = q]
        BY <1>2 DEF Call
      <3>2. calls' \in 0 .. MaxCalls
        BY <1>1, <1>2 DEF TypeOK, Call
      <3>3. ret' \in [Clients -> Result]
        BY <1>1, <1>2 DEF TypeOK, Call, Result, Codes
      <3> QED
        BY <1>1, <1>2, <3>1, <3>2, <3>3
        DEF Call, Goto, TypeOK, Labels, sessionVars
    <2>2. LockInv'
      BY <1>1, <1>2 DEF Call, Goto, LockInv, Locked, TypeOK
    <2>3. OpenInv'
      BY <1>1, <1>2 DEF Call, Goto, OpenInv, sessionVars, TypeOK
    <2>4. FullInv'
      BY <1>1, <1>2
      DEF Call, Goto, FullInv, Fetched, HandlesStayValid, Accepts, sessionVars,
          TypeOK
    <2>5. AgeInv'
      BY <1>1, <1>2 DEF Call, AgeInv, sessionVars, TypeOK
    <2>6. PrivateInv'
      BY <1>1, <1>2
      DEF Call, Goto, PrivateInv, Pending, CalibrationIsPrivate,
          CalibrationIsNew, sessionVars, TypeOK
    <2>7. FreshInv'
      BY <1>1, <1>2
      DEF Call, Goto, FreshInv, Answered, Fetched, AnswerIsFresh, sessionVars,
          TypeOK
    <2> QED
      BY <2>1, <2>2, <2>3, <2>4, <2>5, <2>6, <2>7 DEF IInv
  <1>3. ASSUME NEW c \in Clients, FetchHit(c) PROVE IInv'
    <2>1. TypeOK'
      BY <1>1, <1>3
      DEF FetchHit, Goto, Adopt, Adopted, TypeOK, Labels, callVars
    <2>2. LockInv'
      BY <1>1, <1>3 DEF FetchHit, Goto, LockInv, Locked, callVars
    <2>3. OpenInv'
      BY <1>1, <1>3 DEF FetchHit, Goto, OpenInv, callVars
    <2>4. FullInv'
      BY <1>1, <1>3
      DEF FetchHit, Goto, AnswerFromCache, Adopt, Adopted, FullInv, Full,
          HandlesStayValid, Accepts, LockInv, Locked, callVars, TypeOK
    <2>5. AgeInv'
      BY <1>1, <1>3 DEF FetchHit, Adopt, Adopted, AgeInv, callVars
    <2>6. PrivateInv'
      BY <1>1, <1>3
      DEF FetchHit, Goto, AnswerFromCache, Adopt, Adopted, PrivateInv, Pending,
          CalibrationIsPrivate, CalibrationIsNew, callVars
    <2>7. FreshInv'
      BY <1>1, <1>3
      DEF FetchHit, Goto, AnswerFromCache, FreshInv, Answered, AnswerIsFresh,
          callVars
    <2> QED
      BY <2>1, <2>2, <2>3, <2>4, <2>5, <2>6, <2>7 DEF IInv
  <1>4. ASSUME NEW c \in Clients, FetchAsks(c) PROVE IInv'
    <2>1. TypeOK'
      BY <1>1, <1>4
      DEF FetchAsks, Goto, Adopt, Adopted, TypeOK, Labels, callVars
    <2>2. LockInv'
      BY <1>1, <1>4 DEF FetchAsks, Goto, LockInv, callVars, TypeOK
    <2>3. OpenInv'
      BY <1>1, <1>4 DEF FetchAsks, Goto, OpenInv, callVars
    <2>4. FullInv'
      BY <1>1, <1>4
      DEF FetchAsks, Goto, Adopt, Adopted, FullInv, Fetched, Full,
          HandlesStayValid, Accepts, LockInv, Locked, callVars, TypeOK
    <2>5. AgeInv'
      BY <1>1, <1>4 DEF FetchAsks, Adopt, Adopted, AgeInv, callVars
    <2>6. PrivateInv'
      BY <1>1, <1>4
      DEF FetchAsks, Goto, Adopt, Adopted, PrivateInv, Pending, Full,
          CalibrationIsPrivate, CalibrationIsNew, callVars, TypeOK
    <2>7. FreshInv'
      BY <1>1, <1>4
      DEF FetchAsks, Goto, FreshInv, Answered, Fetched, AnswerIsFresh, callVars
    <2> QED
      BY <2>1, <2>2, <2>3, <2>4, <2>5, <2>6, <2>7 DEF IInv
  <1>5. ASSUME NEW c \in Clients, GetDevice(c) PROVE IInv'
    <2>1. TypeOK'
      BY <1>1, <1>5 DEF GetDevice, Goto, TypeOK, Labels, sessionVars, callVars
    <2>2. LockInv'
      BY <1>1, <1>5 DEF GetDevice, Goto, LockInv, Locked, callVars
    <2>3. OpenInv'
      BY <1>1, <1>5 DEF GetDevice, Goto, OpenInv, sessionVars, callVars
    <2>4. FullInv'
      BY <1>1, <1>5
      DEF GetDevice, Goto, FullInv, Fetched, HandlesStayValid, Accepts,
          sessionVars, callVars
    <2>5. AgeInv'
      BY <1>1, <1>5 DEF GetDevice, AgeInv, Full, sessionVars, callVars, TypeOK
    <2>6. PrivateInv'
      BY <1>1, <1>5
      DEF GetDevice, Goto, PrivateInv, Full, CalibrationIsPrivate,
          CalibrationIsNew, AgeInv, Locked, FullInv, sessionVars, callVars,
          TypeOK
    <2>7. FreshInv'
      BY <1>1, <1>5
      DEF GetDevice, Goto, FreshInv, Fetched, AnswerIsFresh, AgeInv,
          sessionVars, callVars, TypeOK
    <2> QED
      BY <2>1, <2>2, <2>3, <2>4, <2>5, <2>6, <2>7 DEF IInv
  <1>6. ASSUME NEW c \in Clients, GetDeviceFails(c) PROVE IInv'
    <2>1. TypeOK'
      <3>1. pc' \in [Clients -> Labels]
        BY <1>1, <1>6 DEF TypeOK, GetDeviceFails, Fail, Return, Goto, Labels
      <3>2. PICK code \in Codes :
              ret' = [ret EXCEPT ![c] = [code |-> code, value |-> 0]]
        BY <1>6 DEF GetDeviceFails, Fail, Return, Codes
      <3>3. fetchMutex' \in [Sessions -> Clients \union {Nobody}]
        BY <1>1, <1>6 DEF TypeOK, GetDeviceFails, Fail, Release
      <3> QED
        BY <1>1, <1>6, <3>1, <3>2, <3>3
        DEF GetDeviceFails, TypeOK, Result, sessionVars, callVars
    <2>2. LockInv'
      BY <1>1, <1>6
      DEF GetDeviceFails, Fail, Return, Goto, Release, LockInv, Locked,
          callVars, TypeOK
    <2>3. OpenInv'
      BY <1>1, <1>6
      DEF GetDeviceFails, Fail, Return, Goto, OpenInv, sessionVars, callVars,
          TypeOK
    <2>4. FullInv'
      BY <1>1, <1>6
      DEF GetDeviceFails, Fail, Return, Goto, FullInv, Fetched,
          HandlesStayValid, Accepts, sessionVars, callVars, TypeOK
    <2>5. AgeInv'
      BY <1>1, <1>6 DEF GetDeviceFails, AgeInv, sessionVars, callVars
    <2>6. PrivateInv'
      BY <1>1, <1>6
      DEF GetDeviceFails, Fail, Return, Goto, PrivateInv, Pending,
          CalibrationIsPrivate, CalibrationIsNew, sessionVars, callVars, TypeOK
    <2>7. FreshInv'
      BY <1>1, <1>6
      DEF GetDeviceFails, Fail, Return, Goto, FreshInv, Answered, Fetched,
          AnswerIsFresh, AgeInv, sessionVars, callVars, TypeOK
    <2> QED
      BY <2>1, <2>2, <2>3, <2>4, <2>5, <2>6, <2>7 DEF IInv
  <1>7. ASSUME NEW c \in Clients, StoreStatus(c) PROVE IInv'
    <2>1. TypeOK'
      BY <1>1, <1>7 DEF StoreStatus, Goto, TypeOK, Labels, callVars
    <2>2. LockInv'
      BY <1>1, <1>7 DEF StoreStatus, Goto, LockInv, Locked, callVars
    <2>3. OpenInv'
      BY <1>1, <1>7 DEF StoreStatus, Goto, OpenInv, callVars
    <2>4. FullInv'
      BY <1>1, <1>7
      DEF StoreStatus, Goto, FullInv, Fetched, HandlesStayValid, Accepts,
          callVars
    <2>5. AgeInv'
      BY <1>1, <1>7 DEF StoreStatus, AgeInv, callVars
    <2>6. PrivateInv'
      BY <1>1, <1>7
      DEF StoreStatus, Goto, PrivateInv, Pending, CalibrationIsPrivate,
          CalibrationIsNew, callVars
    <2>7. FreshInv'
      BY <1>1, <1>7
      DEF StoreStatus, Goto, FreshInv, Answered, Fetched, AnswerIsFresh,
          LockInv, Locked, callVars, TypeOK
    <2> QED
      BY <2>1, <2>2, <2>3, <2>4, <2>5, <2>6, <2>7 DEF IInv
  <1>8. ASSUME NEW c \in Clients, StoreQueueLength(c) PROVE IInv'
    <2>1. TypeOK'
      BY <1>1, <1>8
      DEF StoreQueueLength, Goto, Release, TypeOK, Labels, callVars
    <2>2. LockInv'
      BY <1>1, <1>8
      DEF StoreQueueLength, Goto, Release, LockInv, Locked, callVars, TypeOK
    <2>3. OpenInv'
      BY <1>1, <1>8 DEF StoreQueueLength, Goto, OpenInv, callVars
    <2>4. FullInv'
      BY <1>1, <1>8
      DEF StoreQueueLength, Goto, FullInv, HandlesStayValid, Accepts, callVars
    <2>5. AgeInv'
      BY <1>1, <1>8 DEF StoreQueueLength, AgeInv, callVars
    <2>6. PrivateInv'
      BY <1>1, <1>8
      DEF StoreQueueLength, Goto, PrivateInv, Pending, CalibrationIsPrivate,
          CalibrationIsNew, callVars
    <2>7. FreshInv'
      BY <1>1, <1>8
      DEF StoreQueueLength, Goto, FreshInv, Answered, AnswerIsFresh, LockInv,
          Locked, callVars, TypeOK
    <2> QED
      BY <2>1, <2>2, <2>3, <2>4, <2>5, <2>6, <2>7 DEF IInv
  <1>9. ASSUME NEW c \in Clients, ParseFails(c) PROVE IInv'
    <2>1. TypeOK'
      BY <1>1, <1>9
      DEF ParseFails, Fail, Return, Goto, Release, TypeOK, Labels, Result,
          Codes, sessionVars, callVars
    <2>2. LockInv'
      BY <1>1, <1>9
      DEF ParseFails, Fail, Return, Goto, Release, LockInv, Locked, callVars,
          TypeOK
    <2>3. OpenInv'
      BY <1>1, <1>9
      DEF ParseFails, Fail, Return, Goto, OpenInv, sessionVars, callVars
    <2>4. FullInv'
      BY <1>1, <1>9
      DEF ParseFails, Fail, Return, Goto, FullInv, Fetched, HandlesStayValid,
          Accepts, sessionVars, callVars
    <2>5. AgeInv'
      BY <1>1, <1>9 DEF ParseFails, AgeInv, sessionVars, callVars
    <2>6. PrivateInv'
      BY <1>1, <1>9
      DEF ParseFails, Fail, Return, Goto, PrivateInv, Pending,
          CalibrationIsPrivate, CalibrationIsNew, sessionVars, callVars
    <2>7. FreshInv'
      BY <1>1, <1>9
      DEF ParseFails, Fail, Return, Goto, FreshInv, Answered, Fetched,
          AnswerIsFresh, sessionVars, callVars, TypeOK
    <2> QED
      BY <2>1, <2>2, <2>3, <2>4, <2>5, <2>6, <2>7 DEF IInv
  <1>10. ASSUME NEW c \in Clients, Publish(c) PROVE IInv'
    <2>1. TypeOK'
      BY <1>1, <1>10
      DEF Publish, Goto, Release, CacheEntry, TypeOK, Labels, Architectures,
          callVars
    <2>2. LockInv'
      BY <1>1, <1>10
      DEF Publish, Goto, Release, LockInv, Locked, callVars, TypeOK
    <2>3. OpenInv'
      BY <1>1, <1>10 DEF Publish, Goto, OpenInv, callVars
    <2>4. FullInv'
      BY <1>1, <1>10
      DEF Publish, Goto, FullInv, Full, HandlesStayValid, Accepts, LockInv,
          Locked, callVars, TypeOK
    <2>5. AgeInv'
      BY <1>1, <1>10 DEF Publish, CacheEntry, AgeInv, Full, callVars
    <2>6. PrivateInv'
      BY <1>1, <1>10
      DEF Publish, Goto, CacheEntry, PrivateInv, Pending, Full,
          CalibrationIsPrivate, CalibrationIsNew, callVars, TypeOK
    <2>7. FreshInv'
      BY <1>1, <1>10
      DEF Publish, Goto, FreshInv, Answered, AnswerIsFresh, LockInv, Locked,
          callVars, TypeOK
    <2> QED
      BY <2>1, <2>2, <2>3, <2>4, <2>5, <2>6, <2>7 DEF IInv
  <1>11. ASSUME NEW c \in Clients, ReturnArchitecture(c) PROVE IInv'
    <2>1. TypeOK'
      <3>1. cached[on[c]] \in Nat
        BY <1>1, <1>11
        DEF ReturnArchitecture, Return, Goto, FullInv, Fetched, Full
      <3>2. ret' \in [Clients -> Result]
        BY <1>1, <1>11, <3>1
        DEF TypeOK, ReturnArchitecture, Return, Result, Codes
      <3>3. handed' \in [Sessions -> SUBSET Nat]
        BY <1>1, <1>11, <3>1 DEF TypeOK, ReturnArchitecture
      <3> QED
        BY <1>1, <1>11, <3>2, <3>3
        DEF ReturnArchitecture, Return, Goto, TypeOK, Labels, callVars
    <2>2. LockInv'
      BY <1>1, <1>11
      DEF ReturnArchitecture, Return, Goto, LockInv, Locked, callVars
    <2>3. OpenInv'
      BY <1>1, <1>11 DEF ReturnArchitecture, Return, Goto, OpenInv, callVars
    <2>4. FullInv'
      BY <1>1, <1>11
      DEF ReturnArchitecture, Return, Goto, FullInv, Fetched, HandlesStayValid,
          Accepts, callVars
    <2>5. AgeInv'
      BY <1>1, <1>11 DEF ReturnArchitecture, AgeInv, callVars
    <2>6. PrivateInv'
      BY <1>1, <1>11
      DEF ReturnArchitecture, Return, Goto, PrivateInv, Pending,
          CalibrationIsPrivate, CalibrationIsNew, callVars
    <2>7. FreshInv'
      BY <1>1, <1>11
      DEF ReturnArchitecture, Return, Goto, FreshInv, Answered, Refreshes,
          AnswerIsFresh, callVars
    <2> QED
      BY <2>1, <2>2, <2>3, <2>4, <2>5, <2>6, <2>7 DEF IInv
  <1>12. ASSUME NEW c \in Clients, ReturnQueueLength(c) PROVE IInv'
    <2>1. TypeOK'
      BY <1>1, <1>12
      DEF ReturnQueueLength, Return, Goto, TypeOK, Labels, Result, Codes,
          sessionVars, callVars
    <2>2. LockInv'
      BY <1>1, <1>12
      DEF ReturnQueueLength, Return, Goto, LockInv, Locked, callVars
    <2>3. OpenInv'
      BY <1>1, <1>12
      DEF ReturnQueueLength, Return, Goto, OpenInv, sessionVars, callVars
    <2>4. FullInv'
      BY <1>1, <1>12
      DEF ReturnQueueLength, Return, Goto, FullInv, Fetched, HandlesStayValid,
          Accepts, sessionVars, callVars
    <2>5. AgeInv'
      BY <1>1, <1>12 DEF ReturnQueueLength, AgeInv, sessionVars, callVars
    <2>6. PrivateInv'
      BY <1>1, <1>12
      DEF ReturnQueueLength, Return, Goto, PrivateInv, Pending,
          CalibrationIsPrivate, CalibrationIsNew, sessionVars, callVars
    <2>7. FreshInv'
      BY <1>1, <1>12
      DEF ReturnQueueLength, Return, Goto, FreshInv, Answered, Fetched,
          AnswerIsFresh, sessionVars, callVars, TypeOK
    <2> QED
      BY <2>1, <2>2, <2>3, <2>4, <2>5, <2>6, <2>7 DEF IInv
  <1>13. ASSUME NEW c \in Clients, ReturnUnsupported(c) PROVE IInv'
    <2>1. TypeOK'
      BY <1>1, <1>13
      DEF ReturnUnsupported, Return, Goto, TypeOK, Labels, Result, Codes,
          sessionVars, callVars
    <2>2. LockInv'
      BY <1>1, <1>13
      DEF ReturnUnsupported, Return, Goto, LockInv, Locked, callVars
    <2>3. OpenInv'
      BY <1>1, <1>13
      DEF ReturnUnsupported, Return, Goto, OpenInv, sessionVars, callVars
    <2>4. FullInv'
      BY <1>1, <1>13
      DEF ReturnUnsupported, Return, Goto, FullInv, Fetched, HandlesStayValid,
          Accepts, sessionVars, callVars
    <2>5. AgeInv'
      BY <1>1, <1>13 DEF ReturnUnsupported, AgeInv, sessionVars, callVars
    <2>6. PrivateInv'
      BY <1>1, <1>13
      DEF ReturnUnsupported, Return, Goto, PrivateInv, Pending,
          CalibrationIsPrivate, CalibrationIsNew, sessionVars, callVars
    <2>7. FreshInv'
      BY <1>1, <1>13
      DEF ReturnUnsupported, Return, Goto, FreshInv, Answered, Fetched,
          AnswerIsFresh, sessionVars, callVars, TypeOK
    <2> QED
      BY <2>1, <2>2, <2>3, <2>4, <2>5, <2>6, <2>7 DEF IInv
  <1>14. ASSUME NEW c \in Clients, Snapshot(c) PROVE IInv'
    <2>1. TypeOK'
      BY <1>1, <1>14 DEF Snapshot, Goto, TypeOK, Labels, sessionVars, callVars
    <2>2. LockInv'
      BY <1>1, <1>14 DEF Snapshot, Goto, LockInv, Locked, callVars
    <2>3. OpenInv'
      BY <1>1, <1>14 DEF Snapshot, Goto, OpenInv, sessionVars, callVars
    <2>4. FullInv'
      BY <1>1, <1>14
      DEF Snapshot, Goto, FullInv, Fetched, HandlesStayValid, Accepts,
          sessionVars, callVars
    <2>5. AgeInv'
      BY <1>1, <1>14 DEF Snapshot, AgeInv, sessionVars, callVars
    <2>6. PrivateInv'
      BY <1>1, <1>14
      DEF Snapshot, Goto, PrivateInv, Pending, CalibrationIsPrivate,
          CalibrationIsNew, sessionVars, callVars
    <2>7. FreshInv'
      BY <1>1, <1>14
      DEF Snapshot, Goto, FreshInv, Answered, Fetched, AnswerIsFresh,
          sessionVars, callVars
    <2> QED
      BY <2>1, <2>2, <2>3, <2>4, <2>5, <2>6, <2>7 DEF IInv
  <1>15. ASSUME NEW c \in Clients, ReturnStatus(c) PROVE IInv'
    <2>1. TypeOK'
      BY <1>1, <1>15
      DEF ReturnStatus, Return, Goto, TypeOK, Labels, Result, Codes,
          sessionVars, callVars
    <2>2. LockInv'
      BY <1>1, <1>15 DEF ReturnStatus, Return, Goto, LockInv, Locked, callVars
    <2>3. OpenInv'
      BY <1>1, <1>15
      DEF ReturnStatus, Return, Goto, OpenInv, sessionVars, callVars
    <2>4. FullInv'
      BY <1>1, <1>15
      DEF ReturnStatus, Return, Goto, FullInv, Fetched, HandlesStayValid,
          Accepts, sessionVars, callVars
    <2>5. AgeInv'
      BY <1>1, <1>15 DEF ReturnStatus, AgeInv, sessionVars, callVars
    <2>6. PrivateInv'
      BY <1>1, <1>15
      DEF ReturnStatus, Return, Goto, PrivateInv, Pending,
          CalibrationIsPrivate, CalibrationIsNew, sessionVars, callVars
    <2>7. FreshInv'
      BY <1>1, <1>15
      DEF ReturnStatus, Return, Goto, FreshInv, Answered, Fetched,
          AnswerIsFresh, sessionVars, callVars, TypeOK
    <2> QED
      BY <2>1, <2>2, <2>3, <2>4, <2>5, <2>6, <2>7 DEF IInv
  <1>16. ASSUME NEW s \in Sessions, SessionFree(s) PROVE IInv'
    <2>1. TypeOK'
      BY <1>1, <1>16 DEF SessionFree, Forget, TypeOK, Result, Codes, callVars
    <2>2. LockInv'
      BY <1>1, <1>16 DEF SessionFree, LockInv, callVars
    <2>3. OpenInv'
      BY <1>1, <1>16 DEF SessionFree, Unused, OpenInv, callVars, TypeOK
    <2>4. FullInv'
      BY <1>1, <1>16
      DEF SessionFree, FullInv, HandlesStayValid, Accepts, callVars
    <2>5. AgeInv'
      BY <1>1, <1>16 DEF SessionFree, AgeInv, callVars
    <2>6. PrivateInv'
      BY <1>1, <1>16
      DEF SessionFree, PrivateInv, CalibrationIsPrivate, CalibrationIsNew,
          callVars
    <2>7. FreshInv'
      BY <1>1, <1>16 DEF SessionFree, Forget, FreshInv, AnswerIsFresh, callVars
    <2> QED
      BY <2>1, <2>2, <2>3, <2>4, <2>5, <2>6, <2>7 DEF IInv
  <1>17. ASSUME NEW s \in Sessions, SessionAlloc(s) PROVE IInv'
    <2>1. TypeOK'
      BY <1>1, <1>17 DEF SessionAlloc, TypeOK, Architectures, callVars
    <2>2. LockInv'
      BY <1>1, <1>17 DEF SessionAlloc, LockInv, callVars
    <2>3. OpenInv'
      BY <1>1, <1>17 DEF SessionAlloc, OpenInv, callVars
    <2>4. FullInv'
      BY <1>1, <1>17
      DEF SessionAlloc, FullInv, Fetched, HandlesStayValid, Accepts, OpenInv,
          callVars
    <2>5. AgeInv'
      BY <1>1, <1>17 DEF SessionAlloc, AgeInv, Full, callVars, TypeOK
    <2>6. PrivateInv'
      BY <1>1, <1>17
      DEF SessionAlloc, PrivateInv, Pending, Full, CalibrationIsPrivate,
          CalibrationIsNew, OpenInv, callVars, TypeOK
    <2>7. FreshInv'
      BY <1>1, <1>17
      DEF SessionAlloc, FreshInv, Answered, Fetched, AnswerIsFresh, OpenInv,
          callVars
    <2> QED
      BY <2>1, <2>2, <2>3, <2>4, <2>5, <2>6, <2>7 DEF IInv
  <1>18. ASSUME Clear PROVE IInv'
    <2>1. TypeOK'
      BY <1>1, <1>18
      DEF Clear, Forget, TypeOK, Architectures, Result, Codes, callVars
    <2>2. LockInv'
      BY <1>1, <1>18 DEF Clear, LockInv, callVars
    <2>3. OpenInv'
      BY <1>1, <1>18 DEF Clear, Unused, OpenInv
    <2>4. FullInv'
      BY <1>1, <1>18
      DEF Clear, Unused, FullInv, Fetched, HandlesStayValid, OpenInv
    <2>5. AgeInv'
      BY <1>1, <1>18 DEF Clear, AgeInv, Full, callVars
    <2>6. PrivateInv'
      BY <1>1, <1>18
      DEF Clear, Unused, PrivateInv, Pending, Full, CalibrationIsPrivate,
          CalibrationIsNew, OpenInv
    <2>7. FreshInv'
      BY <1>1, <1>18 DEF Clear, Forget, FreshInv, AnswerIsFresh, callVars
    <2> QED
      BY <2>1, <2>2, <2>3, <2>4, <2>5, <2>6, <2>7 DEF IInv
  <1>19. CASE UNCHANGED vars
    BY <1>19
    DEF vars, sessionVars, callVars, IInv, TypeOK, LockInv, OpenInv, FullInv,
        HandlesStayValid, Accepts, AgeInv, PrivateInv, CalibrationIsPrivate,
        CalibrationIsNew, FreshInv, AnswerIsFresh
  <1> QED
    BY <1>2, <1>3, <1>4, <1>5, <1>6, <1>7, <1>8, <1>9, <1>10, <1>11, <1>12,
       <1>13, <1>14, <1>15, <1>16, <1>17, <1>18, <1>19 DEF Next, ClientStep,
       FetchStep

(* The invariant holds in every reachable state.                           *)
LEMMA Invariance == Spec => []IInv
  BY InitInv, NextInv, PTL DEF Spec

-----------------------------------------------------------------------------
(* Every variable keeps its type; in particular no handle is ever given    *)
(* out of a missing architecture or of an identity stub.                   *)
THEOREM TypeCorrect == Spec => []TypeOK
  <1>1. IInv => TypeOK
    BY DEF IInv
  <1> QED
    BY <1>1, Invariance, PTL

(* A handle stays valid as long as the session that gave it out, whatever  *)
(* the other threads and sessions do.                                      *)
THEOREM HandlesValid == Spec => []HandlesStayValid
  <1>1. IInv => HandlesStayValid
    BY DEF IInv, FullInv
  <1> QED
    BY <1>1, Invariance, PTL

(* The calibration data of a QPU belongs to one session: no two sessions   *)
(* hold the same answer.                                                   *)
THEOREM Calibration == Spec => []CalibrationIsPrivate
  <1>1. IInv => CalibrationIsPrivate
    BY DEF IInv, PrivateInv, CalibrationIsPrivate
  <1> QED
    BY <1>1, Invariance, PTL

(* The calibration data of a session are newer than the session.           *)
THEOREM CalibrationNew == Spec => []CalibrationIsNew
  <1>1. IInv => CalibrationIsNew
    BY DEF IInv, PrivateInv, CalibrationIsNew
  <1> QED
    BY <1>1, Invariance, PTL

(* A status or queue length is newer than the query it answers.            *)
THEOREM AnswersFresh == Spec => []AnswerIsFresh
  <1>1. IInv => AnswerIsFresh
    BY DEF IInv, FreshInv
  <1> QED
    BY <1>1, Invariance, PTL

(* What follows a successful fetch may use the architecture untested.      *)
THEOREM FetchedFull == Spec => []FetchedIsFull
  <1>1. IInv => FetchedIsFull
    BY DEF IInv, FullInv, FetchedIsFull, Fetched
  <1> QED
    BY <1>1, Invariance, PTL

(* A session never replaces an architecture it has published.              *)
THEOREM Published == Spec => PublishedOnce
  <1> DEFINE Kept == \A s \in open \intersect open' :
                       Full(cached[s]) => cached'[s] = cached[s]
  <1>1. IInv /\ [Next]_vars => [Kept]_vars
    <2> SUFFICES ASSUME IInv, [Next]_vars PROVE Kept
      OBVIOUS
    <2>1. ASSUME NEW c \in Clients, FetchHit(c) PROVE Kept
      BY <2>1 DEF FetchHit, Adopt, Adopted
    <2>2. ASSUME NEW c \in Clients, FetchAsks(c) PROVE Kept
      BY <2>2 DEF FetchAsks, Adopt, Adopted
    <2>3. ASSUME NEW c \in Clients, Publish(c) PROVE Kept
      BY <2>3 DEF IInv, FullInv, Publish, Goto
    <2>4. ASSUME NEW s \in Sessions, SessionAlloc(s) PROVE Kept
      BY <2>4 DEF SessionAlloc
    <2>5. CASE UNCHANGED cached
      BY <2>5
    <2> QED
      BY <2>1, <2>2, <2>3, <2>4, <2>5
      DEF Next, ClientStep, FetchStep, Call, GetDevice, GetDeviceFails,
          StoreStatus, StoreQueueLength, ParseFails, ReturnArchitecture,
          ReturnQueueLength, ReturnUnsupported, Snapshot, ReturnStatus,
          SessionFree, Clear, sessionVars, vars
  <1> QED
    BY <1>1, Invariance, PTL DEF Spec, PublishedOnce
=============================================================================
