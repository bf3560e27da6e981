---------------------------- MODULE SessionSetup ----------------------------
(***************************************************************************)
(* Sessions from their parameters to the place where Braket is told to put *)
(* results: setParameter and init, which settle the AWS region, and        *)
(* resolveS3Destination, which every submission calls.                     *)
(*                                                                         *)
(* A job or the environment may name a destination.  Otherwise a session   *)
(* uses one bucket for its region and account: under a mutex of its own it *)
(* asks STS for the account, has S3 create the bucket and remembers it.    *)
(* Sessions of one account and region share the bucket, not the mutex.     *)
(*                                                                         *)
(* An operator whose name begins with Buggy is a wrong version of the one  *)
(* that follows it; no specification uses it.                              *)
(***************************************************************************)
EXTENDS Naturals

CONSTANTS
  Clients,        (* threads that submit jobs                              *)
  Sessions,
  Arns,           (* device ARNs                                           *)
  Regions,        (* AWS regions                                           *)
  UsEast1,        (* the region of a device whose ARN names none           *)
  ArnRegion,      (* the region an ARN names, or None                      *)
  Account,        (* the AWS account of a session's credentials            *)
  Uris,           (* well-formed s3://bucket/prefix                        *)
  Malformed,      (* a value of the environment parseS3Uri refuses         *)
  None,           (* an absent value, the holder of a free mutex           *)
  MaxSetup,       (* bound: the calls of setParameter and init             *)
  MaxCalls        (* bound: the calls of resolveS3Destination              *)

ASSUME SessionSetupAssumption ==
  /\ UsEast1 \in Regions
  /\ ArnRegion \in [Arns -> Regions \union {None}]
  /\ None \notin Clients \union Arns \union Regions \union Uris \union
                   {Malformed}
  /\ Malformed \notin Uris
  /\ None \notin Regions \X {Account[s] : s \in Sessions}
  /\ MaxSetup \in Nat /\ MaxCalls \in Nat

Optional(S) == S \union {None}

(* A bucket and its name, amazon-braket-<region>-<account>.                *)
Buckets == Regions \X {Account[s] : s \in Sessions}

VARIABLES
  (* AMAZON_BRAKET_QDMI_..., AMZN_BRAKET_TASK_RESULTS_S3_URI: the process   *)
  (* environment, which does not change                                     *)
  envArn, envRegion, envUri,
  (* sessions: deviceArn_, region_, initialized_, defaultS3Destination_     *)
  (* and its mutex                                                          *)
  deviceArn, region, initialized, destination, destinationMutex,
  (* the region last passed to setParameter, None if it was empty, and      *)
  (* whether an init has ended with an exception                            *)
  chosen, threw,
  bucket,        (* S3: absent, creating, owned, or foreign (another's)    *)
  (* threads: control, session, jobS3Uri_, and what the last call returned  *)
  pc, on, uri, ret,
  setups, calls

env         == <<envArn, envRegion, envUri>>
parameters  == <<deviceArn, region, initialized, chosen, threw>>
threadVars  == <<pc, on, uri, ret>>
vars == <<env, parameters, destination, destinationMutex, bucket, threadVars,
          setups, calls>>

Labels == {"idle", "resolve", "lock", "identity", "create", "creating"}

Errors == {"INVALIDARGUMENT", "PERMISSIONDENIED", "NOTFOUND", "FATAL"}

Failed(error) == [code |-> error, place |-> None]
Resolved(d)   == [code |-> "SUCCESS", place |-> d]

Result == [code : Errors \union {"SUCCESS"},
           place : Uris \union Buckets \union {None}]

-----------------------------------------------------------------------------
(* Setting up a session.  Nobody else uses it yet.  The empty string is    *)
(* accepted as a value and is None: it takes back what was set before.     *)

SetArn(s) ==
  /\ ~initialized[s]
  /\ \E a \in Optional(Arns) : deviceArn' = [deviceArn EXCEPT ![s] = a]
  /\ UNCHANGED <<region, initialized, chosen, threw>>

SetRegion(s) ==
  /\ ~initialized[s]
  /\ \E r \in Optional(Regions) :
       /\ region' = [region EXCEPT ![s] = r]
       /\ chosen' = [chosen EXCEPT ![s] = r]
  /\ UNCHANGED <<deviceArn, initialized, threw>>

(* A session that is initialized refuses setParameter and init.            *)
SetupRefused(s) == initialized[s] /\ UNCHANGED parameters

Fallback(value, variable) == IF value = None THEN variable ELSE value

(* The region of a session that was given or found value for it: the ARN's *)
(* unless there is a value.                                                *)
BuggyEffectiveRegion(value, a) == Fallback(ArnRegion[a], UsEast1)

EffectiveRegion(value, a) ==
  Fallback(value, Fallback(ArnRegion[a], UsEast1))

InitWithoutArn(s) ==
  /\ ~initialized[s]
  /\ Fallback(deviceArn[s], envArn) = None
  /\ region' = [region EXCEPT ![s] = Fallback(@, envRegion)]
  /\ UNCHANGED <<deviceArn, initialized, chosen, threw>>

(* init up to the creation of the clients.                                 *)
ApplyParameters(s) ==
  LET a == Fallback(deviceArn[s], envArn)
  IN /\ ~initialized[s]
     /\ a # None
     /\ deviceArn' = [deviceArn EXCEPT ![s] = a]
     /\ region' = [region EXCEPT
                     ![s] = EffectiveRegion(Fallback(@, envRegion), a)]
     /\ UNCHANGED chosen

InitSucceeds(s) ==
  /\ ApplyParameters(s)
  /\ initialized' = [initialized EXCEPT ![s] = TRUE]
  /\ UNCHANGED threw

(* Out of memory while the clients are created: what is set stays set.     *)
InitThrows(s) ==
  /\ ApplyParameters(s)
  /\ threw' = [threw EXCEPT ![s] = TRUE]
  /\ UNCHANGED initialized

Setup ==
  /\ setups < MaxSetup
  /\ setups' = setups + 1
  /\ \E s \in Sessions :
       \/ SetArn(s) \/ SetRegion(s) \/ SetupRefused(s)
       \/ InitWithoutArn(s) \/ InitSucceeds(s) \/ InitThrows(s)
  /\ UNCHANGED <<env, destination, destinationMutex, bucket, threadVars,
                 calls>>

-----------------------------------------------------------------------------
(* resolveS3Destination.                                                   *)

Goto(c, label) == pc' = [pc EXCEPT ![c] = label]

Return(c, result) == Goto(c, "idle") /\ ret' = [ret EXCEPT ![c] = result]

Release(c) == destinationMutex' = [destinationMutex EXCEPT ![on[c]] = None]

(* A submission of a job, whose session is initialized: its clients exist. *)
Call(c) ==
  /\ pc[c] = "idle" /\ calls < MaxCalls
  /\ calls' = calls + 1
  /\ \E s \in Sessions, u \in Optional(Uris) :
       /\ initialized[s]
       /\ on'  = [on EXCEPT ![c] = s]
       /\ uri' = [uri EXCEPT ![c] = u]
  /\ Goto(c, "resolve")
  /\ UNCHANGED <<env, parameters, destination, destinationMutex, bucket, ret,
                 setups>>

(* The URI that overrides the default, if any.                             *)
BuggyExplicit(c) == Fallback(envUri, uri[c])

Explicit(c) == Fallback(uri[c], envUri)

UseUri(c) ==
  /\ pc[c] = "resolve" /\ Explicit(c) \in Uris
  /\ Return(c, Resolved(Explicit(c)))
  /\ UNCHANGED <<env, parameters, destination, destinationMutex, bucket, on,
                 uri, setups, calls>>

BadUri(c) ==
  /\ pc[c] = "resolve" /\ Explicit(c) = Malformed
  /\ Return(c, Failed("INVALIDARGUMENT"))
  /\ UNCHANGED <<env, parameters, destination, destinationMutex, bucket, on,
                 uri, setups, calls>>

NoUri(c) ==
  /\ pc[c] = "resolve" /\ Explicit(c) = None
  /\ Goto(c, "lock")
  /\ UNCHANGED <<env, parameters, destination, destinationMutex, bucket, on,
                 uri, ret, setups, calls>>

(* Whether c can take the mutex, which it holds during the requests.       *)
BuggyMutexFree(c) == TRUE

MutexFree(c) == destinationMutex[on[c]] = None

UseKnown(c) ==
  /\ pc[c] = "lock" /\ MutexFree(c)
  /\ destination[on[c]] # None
  /\ Return(c, Resolved(destination[on[c]]))
  /\ UNCHANGED <<env, parameters, destination, destinationMutex, bucket, on,
                 uri, setups, calls>>

BeginDefault(c) ==
  /\ pc[c] = "lock" /\ MutexFree(c)
  /\ destination[on[c]] = None
  /\ destinationMutex' = [destinationMutex EXCEPT ![on[c]] = c]
  /\ Goto(c, "identity")
  /\ UNCHANGED <<env, parameters, destination, bucket, on, uri, ret, setups,
                 calls>>

GetCallerIdentity(c) ==
  /\ pc[c] = "identity"
  /\ Goto(c, "create")
  /\ UNCHANGED <<env, parameters, destination, destinationMutex, bucket, on,
                 uri, ret, setups, calls>>

(* What the errors of STS and S3 become.                                   *)
RequestErrors(label) ==
  {"PERMISSIONDENIED", "FATAL"} \union
  (IF label = "identity" THEN {} ELSE {"NOTFOUND"})

(* STS refuses, fails or knows no account; S3 refuses; or S3's answer is   *)
(* lost, which does not stop the creation.                                 *)
RequestFails(c) ==
  /\ pc[c] \in {"identity", "create", "creating"}
  /\ \E error \in RequestErrors(pc[c]) : Return(c, Failed(error))
  /\ Release(c)
  /\ UNCHANGED <<env, parameters, destination, bucket, on, uri, setups, calls>>

BucketName(s) == <<region[s], Account[s]>>

(* CreateBucket begins the creation of a bucket that does not exist.       *)
BeginCreate(c) ==
  /\ pc[c] = "create"
  /\ bucket[BucketName(on[c])] = "absent"
  /\ bucket' = [bucket EXCEPT ![BucketName(on[c])] = "creating"]
  /\ Goto(c, "creating")
  /\ UNCHANGED <<env, parameters, destination, destinationMutex, on, uri, ret,
                 setups, calls>>

EndCreate(b) ==
  /\ bucket[b] = "creating"
  /\ bucket' = [bucket EXCEPT ![b] = "owned"]
  /\ UNCHANGED <<env, parameters, destination, destinationMutex, threadVars,
                 setups, calls>>

(* The states of the bucket for which CreateBucket answers what is as good *)
(* as success: created, BUCKET_ALREADY_OWNED_BY_YOU, or OperationAborted   *)
(* because another session's creation is in progress.                      *)
BuggyAccepted(label) == {"owned", "creating", "foreign"}

Accepted(label) ==
  IF label = "create" THEN {"owned", "creating"} ELSE {"owned"}

UseDefault(c) ==
  /\ pc[c] \in {"create", "creating"}
  /\ bucket[BucketName(on[c])] \in Accepted(pc[c])
  /\ destination' = [destination EXCEPT ![on[c]] = BucketName(on[c])]
  /\ Return(c, Resolved(BucketName(on[c])))
  /\ Release(c)
  /\ UNCHANGED <<env, parameters, bucket, on, uri, setups, calls>>

(* BUCKET_ALREADY_EXISTS: the name belongs to another account.             *)
BucketTaken(c) ==
  /\ pc[c] = "create"
  /\ bucket[BucketName(on[c])] = "foreign"
  /\ Return(c, Failed("PERMISSIONDENIED"))
  /\ Release(c)
  /\ UNCHANGED <<env, parameters, destination, bucket, on, uri, setups, calls>>

-----------------------------------------------------------------------------
Init ==
  /\ envArn \in Optional(Arns) /\ envRegion \in Optional(Regions)
  /\ envUri \in Optional(Uris \union {Malformed})
  /\ deviceArn   = [s \in Sessions |-> None]
  /\ region      = [s \in Sessions |-> None]
  /\ chosen      = [s \in Sessions |-> None]
  /\ initialized = [s \in Sessions |-> FALSE]
  /\ threw       = [s \in Sessions |-> FALSE]
  /\ destination      = [s \in Sessions |-> None]
  /\ destinationMutex = [s \in Sessions |-> None]
  /\ bucket \in [Buckets -> {"absent", "owned", "foreign"}]
  /\ pc  = [c \in Clients |-> "idle"]
  /\ \E s \in Sessions : on = [c \in Clients |-> s]
  /\ uri = [c \in Clients |-> None]
  /\ ret = [c \in Clients |-> Failed("INVALIDARGUMENT")]
  /\ setups = 0 /\ calls = 0

Next ==
  \/ Setup
  \/ \E c \in Clients :
       \/ Call(c)
       \/ UseUri(c) \/ BadUri(c) \/ NoUri(c)
       \/ UseKnown(c) \/ BeginDefault(c)
       \/ GetCallerIdentity(c) \/ RequestFails(c)
       \/ BeginCreate(c) \/ UseDefault(c) \/ BucketTaken(c)
  \/ \E b \in Buckets : EndCreate(b)

Spec == Init /\ [][Next]_vars

-----------------------------------------------------------------------------
(* Type invariant.  An initialized session has an ARN and a region.        *)
TypeOK ==
  /\ envArn \in Optional(Arns) /\ envRegion \in Optional(Regions)
  /\ envUri \in Optional(Uris \union {Malformed})
  /\ deviceArn \in [Sessions -> Optional(Arns)]
  /\ region \in [Sessions -> Optional(Regions)]
  /\ chosen \in [Sessions -> Optional(Regions)]
  /\ initialized \in [Sessions -> BOOLEAN] /\ threw \in [Sessions -> BOOLEAN]
  /\ \A s \in Sessions :
       initialized[s] => deviceArn[s] \in Arns /\ region[s] \in Regions
  /\ destination \in [Sessions -> Optional(Buckets)]
  /\ destinationMutex \in [Sessions -> Optional(Clients)]
  /\ bucket \in [Buckets -> {"absent", "creating", "owned", "foreign"}]
  /\ pc  \in [Clients -> Labels]
  /\ on  \in [Clients -> Sessions]
  /\ uri \in [Clients -> Optional(Uris)]
  /\ ret \in [Clients -> Result]
  /\ setups \in 0 .. MaxSetup /\ calls \in 0 .. MaxCalls

HasRightRegion(s) ==
  IF chosen[s] # None THEN region[s] = chosen[s]
  ELSE IF envRegion # None THEN region[s] = envRegion
  ELSE IF ArnRegion[deviceArn[s]] # None
       THEN region[s] = ArnRegion[deviceArn[s]]
  ELSE region[s] = UsEast1

(* The AWS clients of a session use the region set for it, else that of    *)
(* the environment, else that of the device, else us-east-1, however many  *)
(* calls of setParameter and init were refused before; but for a session   *)
(* whose init has run out of memory.                                       *)
RegionIsRight ==
  \A s \in Sessions : initialized[s] /\ ~threw[s] => HasRightRegion(s)

(* The destination a session remembers is its own region's and account's   *)
(* bucket, which exists or is on its way and is not another account's.     *)
DestinationIsUsable ==
  \A s \in Sessions : destination[s] # None =>
    /\ destination[s] = BucketName(s)
    /\ bucket[destination[s]] \in {"creating", "owned"}

(* However many jobs a session submits at once, one thread at a time asks  *)
(* STS and S3 for the default destination, and none once it is known.      *)
OneRequester ==
  \A c \in Clients : pc[c] \in {"identity", "create", "creating"} =>
    /\ destination[on[c]] = None
    /\ \A d \in Clients \ {c} :
         pc[d] \in {"identity", "create", "creating"} => on[d] # on[c]

(* A submission's results go where the job says, else where the            *)
(* environment says, else to the session's one default destination; and    *)
(* never to the default because the environment's value is malformed.      *)
AnswerIsRight ==
  \A c \in Clients : pc[c] = "idle" /\ ret[c].code = "SUCCESS" =>
    IF uri[c] # None THEN ret[c].place = uri[c]
    ELSE IF envUri # None THEN envUri \in Uris /\ ret[c].place = envUri
    ELSE destination[on[c]] # None /\ ret[c].place = destination[on[c]]
=============================================================================
