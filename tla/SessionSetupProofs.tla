------------------------- MODULE SessionSetupProofs -------------------------
(***************************************************************************)
(* The safety properties of SessionSetup, for any number of sessions,      *)
(* clients, regions and calls, from one inductive invariant.               *)
(***************************************************************************)
EXTENDS SessionSetup, TLAPS

Requesting == {"identity", "create", "creating"}

(* Before its init succeeds a session's region is the one it was given, or *)
(* that of the environment, unless an init has ended with an exception;    *)
(* nothing is resolved for it.                                             *)
SetupInv ==
  /\ \A s \in Sessions :
       /\ ~initialized[s] /\ ~threw[s] =>
            IF chosen[s] # None THEN region[s] = chosen[s]
            ELSE region[s] \in {None, envRegion}
       /\ destination[s] # None => initialized[s]
  /\ \A c \in Clients : pc[c] # "idle" => initialized[on[c]]
  /\ RegionIsRight

(* The thread that sends requests holds its session's mutex and found no   *)
(* destination, neither explicit nor known.                                *)
RequestInv ==
  /\ \A c \in Clients :
       /\ pc[c] \in Requesting \union {"lock"} =>
            uri[c] = None /\ envUri = None
       /\ pc[c] \in Requesting =>
            destinationMutex[on[c]] = c /\ destination[on[c]] = None

IInv == TypeOK /\ SetupInv /\ RequestInv /\ DestinationIsUsable
             /\ AnswerIsRight

(* What every action of Setup does besides its own part.                   *)
SetupFrame ==
  /\ setups < MaxSetup
  /\ setups' = setups + 1
  /\ UNCHANGED <<env, destination, destinationMutex, bucket, threadVars,
                 calls>>

-----------------------------------------------------------------------------
(* The initial states satisfy the invariant.                               *)
LEMMA InitInv == Init => IInv
  BY SessionSetupAssumption
  DEF Init, IInv, TypeOK, SetupInv, RequestInv, DestinationIsUsable,
      AnswerIsRight, RegionIsRight, Requesting, Optional, Labels, Result,
      Failed, Errors

(* An initialized session's bucket has a name in Buckets.                  *)
LEMMA BucketNames ==
  ASSUME NEW s \in Sessions, region[s] \in Regions
  PROVE  BucketName(s) \in Buckets /\ BucketName(s) # None
  BY SessionSetupAssumption DEF BucketName, Buckets

(* Every step keeps it: one step of the proof per action, and under it one *)
(* per part of the invariant.                                              *)
LEMMA NextInv == IInv /\ [Next]_vars => IInv'
  <1> SUFFICES ASSUME IInv, [Next]_vars PROVE IInv'
    OBVIOUS
  <1> USE SessionSetupAssumption
  <1>1. TypeOK /\ SetupInv /\ RequestInv /\ DestinationIsUsable
          /\ AnswerIsRight
    BY DEF IInv
  <1>2. ASSUME NEW s \in Sessions, SetArn(s), SetupFrame PROVE IInv'
    <2>1. TypeOK'
      BY <1>1, <1>2 DEF SetArn, SetupFrame, TypeOK, Optional, env, threadVars
    <2>2. SetupInv'
      BY <1>1, <1>2
      DEF SetArn, SetupFrame, SetupInv, RegionIsRight, HasRightRegion, env,
          threadVars
    <2>3. RequestInv'
      BY <1>1, <1>2 DEF SetupFrame, RequestInv, env, threadVars
    <2>4. DestinationIsUsable'
      BY <1>1, <1>2 DEF SetArn, SetupFrame, DestinationIsUsable, BucketName
    <2>5. AnswerIsRight'
      BY <1>1, <1>2 DEF SetupFrame, AnswerIsRight, env, threadVars
    <2> QED
      BY <2>1, <2>2, <2>3, <2>4, <2>5 DEF IInv
  <1>3. ASSUME NEW s \in Sessions, SetRegion(s), SetupFrame PROVE IInv'
    <2>1. TypeOK'
      BY <1>1, <1>3
      DEF SetRegion, SetupFrame, TypeOK, Optional, env, threadVars
    <2>2. SetupInv'
      BY <1>1, <1>3
      DEF SetRegion, SetupFrame, SetupInv, RegionIsRight, HasRightRegion,
          TypeOK, env, threadVars
    <2>3. RequestInv'
      BY <1>1, <1>3 DEF SetupFrame, RequestInv, env, threadVars
    <2>4. DestinationIsUsable'
      BY <1>1, <1>3
      DEF SetRegion, SetupFrame, DestinationIsUsable, BucketName, SetupInv
    <2>5. AnswerIsRight'
      BY <1>1, <1>3 DEF SetupFrame, AnswerIsRight, env, threadVars
    <2> QED
      BY <2>1, <2>2, <2>3, <2>4, <2>5 DEF IInv
  <1>4. ASSUME NEW s \in Sessions, SetupRefused(s), SetupFrame PROVE IInv'
    <2>1. TypeOK'
      BY <1>1, <1>4
      DEF SetupRefused, SetupFrame, TypeOK, env, parameters, threadVars
    <2>2. SetupInv'
      BY <1>1, <1>4
      DEF SetupRefused, SetupFrame, SetupInv, RegionIsRight, HasRightRegion,
          env, parameters, threadVars
    <2>3. RequestInv'
      BY <1>1, <1>4 DEF SetupFrame, RequestInv, env, threadVars
    <2>4. DestinationIsUsable'
      BY <1>1, <1>4
      DEF SetupRefused, SetupFrame, DestinationIsUsable, BucketName, parameters
    <2>5. AnswerIsRight'
      BY <1>1, <1>4 DEF SetupFrame, AnswerIsRight, env, threadVars
    <2> QED
      BY <2>1, <2>2, <2>3, <2>4, <2>5 DEF IInv
  <1>5. ASSUME NEW s \in Sessions, InitWithoutArn(s), SetupFrame PROVE IInv'
    <2>1. TypeOK'
      BY <1>1, <1>5
      DEF InitWithoutArn, Fallback, SetupFrame, TypeOK, env, threadVars
    <2>2. SetupInv'
      BY <1>1, <1>5
      DEF InitWithoutArn, Fallback, SetupFrame, SetupInv, RegionIsRight,
          HasRightRegion, env, threadVars
    <2>3. RequestInv'
      BY <1>1, <1>5 DEF SetupFrame, RequestInv, env, threadVars
    <2>4. DestinationIsUsable'
      BY <1>1, <1>5
      DEF InitWithoutArn, SetupFrame, DestinationIsUsable, BucketName, SetupInv
    <2>5. AnswerIsRight'
      BY <1>1, <1>5 DEF SetupFrame, AnswerIsRight, env, threadVars
    <2> QED
      BY <2>1, <2>2, <2>3, <2>4, <2>5 DEF IInv
  <1>6. ASSUME NEW s \in Sessions, InitSucceeds(s), SetupFrame PROVE IInv'
    <2>1. TypeOK'
      BY <1>1, <1>6
      DEF InitSucceeds, ApplyParameters, EffectiveRegion, Fallback, SetupFrame,
          TypeOK, Optional, env, threadVars
    <2>2. SetupInv'
      BY <1>1, <1>6
      DEF InitSucceeds, ApplyParameters, EffectiveRegion, Fallback, SetupFrame,
          SetupInv, RegionIsRight, HasRightRegion, TypeOK, env, threadVars
    <2>3. RequestInv'
      BY <1>1, <1>6 DEF SetupFrame, RequestInv, env, threadVars
    <2>4. DestinationIsUsable'
      BY <1>1, <1>6
      DEF InitSucceeds, ApplyParameters, SetupFrame, DestinationIsUsable,
          BucketName, SetupInv
    <2>5. AnswerIsRight'
      BY <1>1, <1>6 DEF SetupFrame, AnswerIsRight, env, threadVars
    <2> QED
      BY <2>1, <2>2, <2>3, <2>4, <2>5 DEF IInv
  <1>7. ASSUME NEW s \in Sessions, InitThrows(s), SetupFrame PROVE IInv'
    <2>1. TypeOK'
      BY <1>1, <1>7
      DEF InitThrows, ApplyParameters, EffectiveRegion, Fallback, SetupFrame,
          TypeOK, Optional, env, threadVars
    <2>2. SetupInv'
      BY <1>1, <1>7
      DEF InitThrows, ApplyParameters, SetupFrame, SetupInv, RegionIsRight,
          HasRightRegion, TypeOK, env, threadVars
    <2>3. RequestInv'
      BY <1>1, <1>7 DEF SetupFrame, RequestInv, env, threadVars
    <2>4. DestinationIsUsable'
      BY <1>1, <1>7
      DEF InitThrows, ApplyParameters, SetupFrame, DestinationIsUsable,
          BucketName, SetupInv
    <2>5. AnswerIsRight'
      BY <1>1, <1>7 DEF SetupFrame, AnswerIsRight, env, threadVars
    <2> QED
      BY <2>1, <2>2, <2>3, <2>4, <2>5 DEF IInv
  <1>8. ASSUME NEW c \in Clients, Call(c) PROVE IInv'
    <2>1. TypeOK'
      BY <1>1, <1>8 DEF Call, Goto, TypeOK, Labels, env, parameters
    <2>2. SetupInv'
      BY <1>1, <1>8
      DEF Call, Goto, SetupInv, RegionIsRight, HasRightRegion, TypeOK, env,
          parameters
    <2>3. RequestInv'
      BY <1>1, <1>8 DEF Call, Goto, RequestInv, Requesting, env
    <2>4. DestinationIsUsable'
      BY <1>1, <1>8 DEF Call, DestinationIsUsable, BucketName, parameters
    <2>5. AnswerIsRight'
      BY <1>1, <1>8 DEF Call, Goto, AnswerIsRight, TypeOK, env
    <2> QED
      BY <2>1, <2>2, <2>3, <2>4, <2>5 DEF IInv
  <1>9. ASSUME NEW c \in Clients, UseUri(c) PROVE IInv'
    <2>1. TypeOK'
      BY <1>1, <1>9
      DEF UseUri, Return, Goto, Resolved, TypeOK, Labels, Result, env,
          parameters
    <2>2. SetupInv'
      BY <1>1, <1>9
      DEF UseUri, Return, Goto, SetupInv, RegionIsRight, HasRightRegion, env,
          parameters
    <2>3. RequestInv'
      BY <1>1, <1>9 DEF UseUri, Return, Goto, RequestInv, Requesting, env
    <2>4. DestinationIsUsable'
      BY <1>1, <1>9 DEF UseUri, DestinationIsUsable, BucketName, parameters
    <2>5. AnswerIsRight'
      BY <1>1, <1>9
      DEF UseUri, Return, Goto, Resolved, Explicit, Fallback, AnswerIsRight,
          TypeOK, env
    <2> QED
      BY <2>1, <2>2, <2>3, <2>4, <2>5 DEF IInv
  <1>10. ASSUME NEW c \in Clients, BadUri(c) PROVE IInv'
    <2>1. TypeOK'
      BY <1>1, <1>10
      DEF BadUri, Return, Goto, Failed, TypeOK, Labels, Result, Errors, env,
          parameters
    <2>2. SetupInv'
      BY <1>1, <1>10
      DEF BadUri, Return, Goto, SetupInv, RegionIsRight, HasRightRegion, env,
          parameters
    <2>3. RequestInv'
      BY <1>1, <1>10
      DEF BadUri, Return, Goto, Explicit, Fallback, RequestInv, Requesting,
          TypeOK, Optional
    <2>4. DestinationIsUsable'
      BY <1>1, <1>10 DEF BadUri, DestinationIsUsable, BucketName, parameters
    <2>5. AnswerIsRight'
      BY <1>1, <1>10
      DEF BadUri, Return, Goto, Failed, Explicit, Fallback, AnswerIsRight,
          TypeOK, Optional
    <2> QED
      BY <2>1, <2>2, <2>3, <2>4, <2>5 DEF IInv
  <1>11. ASSUME NEW c \in Clients, NoUri(c) PROVE IInv'
    <2>1. TypeOK'
      BY <1>1, <1>11 DEF NoUri, Goto, TypeOK, Labels, env, parameters
    <2>2. SetupInv'
      BY <1>1, <1>11
      DEF NoUri, Goto, SetupInv, RegionIsRight, HasRightRegion, env, parameters
    <2>3. RequestInv'
      BY <1>1, <1>11
      DEF NoUri, Goto, Explicit, Fallback, RequestInv, Requesting, env
    <2>4. DestinationIsUsable'
      BY <1>1, <1>11 DEF NoUri, DestinationIsUsable, BucketName, parameters
    <2>5. AnswerIsRight'
      BY <1>1, <1>11 DEF NoUri, Goto, AnswerIsRight, env
    <2> QED
      BY <2>1, <2>2, <2>3, <2>4, <2>5 DEF IInv
  <1>12. ASSUME NEW c \in Clients, UseKnown(c) PROVE IInv'
    <2>1. TypeOK'
      BY <1>1, <1>12
      DEF UseKnown, Return, Goto, Resolved, TypeOK, Optional, Labels, Result,
          env, parameters
    <2>2. SetupInv'
      BY <1>1, <1>12
      DEF UseKnown, Return, Goto, SetupInv, RegionIsRight, HasRightRegion, env,
          parameters
    <2>3. RequestInv'
      BY <1>1, <1>12 DEF UseKnown, Return, Goto, RequestInv, Requesting, env
    <2>4. DestinationIsUsable'
      BY <1>1, <1>12 DEF UseKnown, DestinationIsUsable, BucketName, parameters
    <2>5. AnswerIsRight'
      BY <1>1, <1>12
      DEF UseKnown, Return, Goto, Resolved, AnswerIsRight, TypeOK, RequestInv,
          env
    <2> QED
      BY <2>1, <2>2, <2>3, <2>4, <2>5 DEF IInv
  <1>13. ASSUME NEW c \in Clients, BeginDefault(c) PROVE IInv'
    <2>1. TypeOK'
      BY <1>1, <1>13
      DEF BeginDefault, Goto, TypeOK, Optional, Labels, env, parameters
    <2>2. SetupInv'
      BY <1>1, <1>13
      DEF BeginDefault, Goto, SetupInv, RegionIsRight, HasRightRegion, env,
          parameters
    <2>3. RequestInv'
      BY <1>1, <1>13 DEF BeginDefault, Goto, MutexFree, RequestInv, TypeOK, env
    <2>4. DestinationIsUsable'
      BY <1>1, <1>13
      DEF BeginDefault, DestinationIsUsable, BucketName, parameters
    <2>5. AnswerIsRight'
      BY <1>1, <1>13 DEF BeginDefault, Goto, AnswerIsRight, env
    <2> QED
      BY <2>1, <2>2, <2>3, <2>4, <2>5 DEF IInv
  <1>14. ASSUME NEW c \in Clients, GetCallerIdentity(c) PROVE IInv'
    <2>1. TypeOK'
      BY <1>1, <1>14
      DEF GetCallerIdentity, Goto, TypeOK, Labels, env, parameters
    <2>2. SetupInv'
      BY <1>1, <1>14
      DEF GetCallerIdentity, Goto, SetupInv, RegionIsRight, HasRightRegion,
          env, parameters
    <2>3. RequestInv'
      BY <1>1, <1>14 DEF GetCallerIdentity, Goto, RequestInv, Requesting, env
    <2>4. DestinationIsUsable'
      BY <1>1, <1>14
      DEF GetCallerIdentity, DestinationIsUsable, BucketName, parameters
    <2>5. AnswerIsRight'
      BY <1>1, <1>14 DEF GetCallerIdentity, Goto, AnswerIsRight, env
    <2> QED
      BY <2>1, <2>2, <2>3, <2>4, <2>5 DEF IInv
  <1>15. ASSUME NEW c \in Clients, RequestFails(c) PROVE IInv'
    <2>1. TypeOK'
      BY <1>1, <1>15
      DEF RequestFails, Return, Goto, Failed, Release, RequestErrors, TypeOK,
          Optional, Labels, Result, Errors, env, parameters
    <2>2. SetupInv'
      BY <1>1, <1>15
      DEF RequestFails, Return, Goto, SetupInv, RegionIsRight, HasRightRegion,
          env, parameters
    <2>3. RequestInv'
      BY <1>1, <1>15
      DEF RequestFails, Return, Goto, Release, RequestInv, Requesting, TypeOK,
          env
    <2>4. DestinationIsUsable'
      BY <1>1, <1>15
      DEF RequestFails, DestinationIsUsable, BucketName, parameters
    <2>5. AnswerIsRight'
      BY <1>1, <1>15
      DEF RequestFails, Return, Goto, Failed, RequestErrors, AnswerIsRight,
          TypeOK, env
    <2> QED
      BY <2>1, <2>2, <2>3, <2>4, <2>5 DEF IInv
  <1>16. ASSUME NEW c \in Clients, BeginCreate(c) PROVE IInv'
    <2>1. TypeOK'
      BY <1>1, <1>16
      DEF BeginCreate, Goto, BucketName, Buckets, TypeOK, Optional, Labels,
          Result, Errors, env, parameters, threadVars
    <2>2. SetupInv'
      BY <1>1, <1>16
      DEF BeginCreate, Goto, SetupInv, RegionIsRight, HasRightRegion, env,
          parameters
    <2>3. RequestInv'
      BY <1>1, <1>16 DEF BeginCreate, Goto, RequestInv, Requesting, env
    <2>4. DestinationIsUsable'
      BY <1>1, <1>16
      DEF BeginCreate, BucketName, DestinationIsUsable, parameters
    <2>5. AnswerIsRight'
      BY <1>1, <1>16 DEF BeginCreate, Goto, AnswerIsRight, env
    <2> QED
      BY <2>1, <2>2, <2>3, <2>4, <2>5 DEF IInv
  <1>17. ASSUME NEW c \in Clients, UseDefault(c) PROVE IInv'
    <2>1. TypeOK'
      <3>1. BucketName(on[c]) \in Buckets
        BY <1>1, <1>17, BucketNames DEF UseDefault, SetupInv, TypeOK
      <3>2. destination' \in [Sessions -> Optional(Buckets)]
        BY <1>1, <1>17, <3>1 DEF UseDefault, TypeOK, Optional
      <3>3. ret' \in [Clients -> Result]
        BY <1>1, <1>17, <3>1 DEF UseDefault, Return, Resolved, Result, TypeOK
      <3>4. destinationMutex' \in [Sessions -> Optional(Clients)]
        BY <1>1, <1>17 DEF UseDefault, Release, TypeOK, Optional
      <3> QED
        BY <1>1, <1>17, <3>2, <3>3, <3>4
        DEF UseDefault, Return, Goto, Labels, TypeOK, env, parameters
    <2>2. SetupInv'
      BY <1>1, <1>17
      DEF UseDefault, Return, Goto, SetupInv, RegionIsRight, HasRightRegion,
          env, parameters
    <2>3. RequestInv'
      BY <1>1, <1>17
      DEF UseDefault, Return, Goto, Release, RequestInv, Requesting, TypeOK,
          env
    <2>4. DestinationIsUsable'
      BY <1>1, <1>17
      DEF UseDefault, Accepted, BucketName, DestinationIsUsable, parameters
    <2>5. AnswerIsRight'
      <3>1. on[c] \in Sessions /\ BucketName(on[c]) # None
        BY <1>1, <1>17, BucketNames DEF UseDefault, SetupInv, TypeOK
      <3>2. destination[on[c]] = None /\ uri[c] = None /\ envUri = None
        BY <1>1, <1>17 DEF UseDefault, RequestInv, Requesting
      <3>3. /\ destination' = [destination EXCEPT ![on[c]] = BucketName(on[c])]
            /\ ret' = [ret EXCEPT ![c] = [code |-> "SUCCESS",
                                          place |-> BucketName(on[c])]]
            /\ pc' = [pc EXCEPT ![c] = "idle"]
            /\ UNCHANGED <<on, uri, envUri>>
        BY <1>17 DEF UseDefault, Return, Goto, Resolved, env
      <3> QED
        BY <1>1, <3>1, <3>2, <3>3 DEF AnswerIsRight, TypeOK
    <2> QED
      BY <2>1, <2>2, <2>3, <2>4, <2>5 DEF IInv
  <1>18. ASSUME NEW c \in Clients, BucketTaken(c) PROVE IInv'
    <2>1. TypeOK'
      BY <1>1, <1>18
      DEF BucketTaken, Return, Goto, Failed, Release, TypeOK, Optional, Labels,
          Result, Errors, env, parameters
    <2>2. SetupInv'
      BY <1>1, <1>18
      DEF BucketTaken, Return, Goto, SetupInv, RegionIsRight, HasRightRegion,
          env, parameters
    <2>3. RequestInv'
      BY <1>1, <1>18
      DEF BucketTaken, Return, Goto, Release, RequestInv, Requesting, TypeOK,
          env
    <2>4. DestinationIsUsable'
      BY <1>1, <1>18
      DEF BucketTaken, DestinationIsUsable, BucketName, parameters
    <2>5. AnswerIsRight'
      BY <1>1, <1>18
      DEF BucketTaken, Return, Goto, Failed, AnswerIsRight, TypeOK, env
    <2> QED
      BY <2>1, <2>2, <2>3, <2>4, <2>5 DEF IInv
  <1>19. ASSUME NEW b \in Buckets, EndCreate(b) PROVE IInv'
    <2>1. TypeOK'
      BY <1>1, <1>19 DEF EndCreate, TypeOK, env, parameters, threadVars
    <2>2. SetupInv'
      BY <1>1, <1>19
      DEF EndCreate, SetupInv, RegionIsRight, HasRightRegion, env, parameters,
          threadVars
    <2>3. RequestInv'
      BY <1>1, <1>19 DEF EndCreate, RequestInv, env, threadVars
    <2>4. DestinationIsUsable'
      BY <1>1, <1>19 DEF EndCreate, DestinationIsUsable, BucketName, parameters
    <2>5. AnswerIsRight'
      BY <1>1, <1>19 DEF EndCreate, AnswerIsRight, env, threadVars
    <2> QED
      BY <2>1, <2>2, <2>3, <2>4, <2>5 DEF IInv
  <1>20. CASE UNCHANGED vars
    BY <1>1, <1>20
    DEF vars, IInv, TypeOK, SetupInv, RegionIsRight, HasRightRegion,
        RequestInv, DestinationIsUsable, BucketName, AnswerIsRight, env,
        parameters, threadVars
  <1> QED
    BY <1>2, <1>3, <1>4, <1>5, <1>6, <1>7, <1>8, <1>9, <1>10, <1>11, <1>12,
       <1>13, <1>14, <1>15, <1>16, <1>17, <1>18, <1>19, <1>20 DEF Next, Setup,
       SetupFrame

(* The invariant holds in every reachable state.                           *)
LEMMA Invariance == Spec => []IInv
  BY InitInv, NextInv, PTL DEF Spec

-----------------------------------------------------------------------------
(* Every variable keeps its type; an initialized session has an ARN and a  *)
(* region, so that its bucket has a name.                                  *)
THEOREM TypeCorrect == Spec => []TypeOK
  <1>1. IInv => TypeOK
    BY DEF IInv
  <1> QED
    BY <1>1, Invariance, PTL

(* The region of an initialized session is the right one, whatever calls   *)
(* came before, unless an init of it has run out of memory.                *)
THEOREM RightRegion == Spec => []RegionIsRight
  <1>1. IInv => RegionIsRight
    BY DEF IInv, SetupInv
  <1> QED
    BY <1>1, Invariance, PTL

(* A remembered destination names a bucket of the session's own account    *)
(* that exists or is being created, however the requests failed before.    *)
THEOREM UsableDestination == Spec => []DestinationIsUsable
  <1>1. IInv => DestinationIsUsable
    BY DEF IInv
  <1> QED
    BY <1>1, Invariance, PTL

(* One thread of a session at a time asks STS and S3, and none once the    *)
(* destination is known.                                                   *)
THEOREM SingleRequester == Spec => []OneRequester
  <1>1. IInv => OneRequester
    BY DEF IInv, RequestInv, Requesting, OneRequester
  <1> QED
    BY <1>1, Invariance, PTL

(* A submission is told the job's destination, else the environment's,     *)
(* else the one default of its session.                                    *)
THEOREM RightAnswer == Spec => []AnswerIsRight
  <1>1. IInv => AnswerIsRight
    BY DEF IInv
  <1> QED
    BY <1>1, Invariance, PTL
=============================================================================
