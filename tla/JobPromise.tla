----------------------------- MODULE JobPromise -----------------------------
(***************************************************************************)
(* What a device job promises the thread that owns it, without the         *)
(* threads, locks and queues that keep the promise: the job is changed     *)
(* freely until it is submitted, its request is sent to Braket at most     *)
(* once and as it was when it was submitted, and its status only moves     *)
(* forward, along what Braket reports about the task that was sent.        *)
(***************************************************************************)
CONSTANTS Configs, NoPrograms

VARIABLES
  config,   (* the contents of the job                                     *)
  closed,   (* the job has been submitted, canceled or retrieved           *)
  status,   (* the status the job shows                                    *)
  sent      (* the contents of the task at Braket, NoPrograms without one  *)

vars == <<config, closed, status, sent>>

Later ==
  [s \in {"SUBMITTED", "QUEUED", "RUNNING"} |->
     {"DONE", "FAILED", "CANCELED"} \union
     CASE s = "SUBMITTED" -> {"QUEUED", "RUNNING"}
       [] s = "QUEUED"    -> {"RUNNING"}
       [] OTHER           -> {}]

Init ==
  \/ /\ closed = FALSE /\ status = "CREATED" /\ sent = NoPrograms
     /\ config \in Configs \union {NoPrograms}
  \/ /\ closed = TRUE /\ config \in Configs /\ sent = config
     /\ status \in {"SUBMITTED"} \union Later["SUBMITTED"]

Configure ==
  /\ ~closed
  /\ config' \in Configs
  /\ UNCHANGED <<closed, status, sent>>

Close ==
  /\ ~closed /\ config # NoPrograms
  /\ closed' = TRUE
  /\ UNCHANGED <<config, status, sent>>

(* Canceled before it was submitted.                                       *)
Discard ==
  /\ ~closed
  /\ closed' = TRUE /\ status' = "CANCELED"
  /\ UNCHANGED <<config, sent>>

Submit ==
  /\ closed /\ status = "CREATED"
  /\ status' = "SUBMITTED"
  /\ UNCHANGED <<config, closed, sent>>

(* The submission fails, on this side or at Braket.                        *)
Fail ==
  /\ closed /\ status \in {"CREATED", "SUBMITTED"}
  /\ status' = "FAILED"
  /\ UNCHANGED <<config, closed, sent>>

(* Canceled while it waits to be sent.                                     *)
Withdraw ==
  /\ status = "SUBMITTED" /\ sent = NoPrograms
  /\ status' = "CANCELED"
  /\ UNCHANGED <<config, closed, sent>>

Send ==
  /\ status = "SUBMITTED" /\ sent = NoPrograms
  /\ sent' = config
  /\ UNCHANGED <<config, closed, status>>

(* What Braket reports about the task becomes the status.                  *)
Observe ==
  /\ sent # NoPrograms
  /\ status \in DOMAIN Later /\ status' \in Later[status]
  /\ UNCHANGED <<config, closed, sent>>

Next ==
  \/ Configure \/ Close \/ Discard \/ Submit \/ Fail \/ Withdraw \/ Send
  \/ Observe

Spec == Init /\ [][Next]_vars
=============================================================================
