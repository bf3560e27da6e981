---------------------------- MODULE DeviceStatus ----------------------------
(***************************************************************************)
(* The queue length and the QDMI status computed from one answer of        *)
(* GetDevice: the sum of its queues, the search of its execution windows   *)
(* for the current time, and the status that follows from both.            *)
(*                                                                         *)
(* A queue length is the number parsed from its text, or None if the text  *)
(* is no number of the width of size_t; a lower bound, written >n, counts  *)
(* as n.  An execution window is its day and two seconds of the day, or    *)
(* None if one of them is missing or unreadable.  Days are numbered from   *)
(* 0, Sunday.                                                              *)
(*                                                                         *)
(* An operator whose name begins with Buggy is a wrong version of the one  *)
(* that follows it; no specification uses it.                              *)
(***************************************************************************)
EXTENDS Integers, Sequences

CONSTANTS
  None,             (* an absent optional                                  *)
  MaxSize,          (* the largest size_t                                  *)
  BusyThreshold,    (* QUEUE_BUSY_THRESHOLD                                *)
  DayLength,        (* seconds of a day                                    *)
  Answers           (* the queue lengths and execution windows of answers  *)

Times  == 0 .. DayLength - 1
Days   == 0 .. 6
DayNames == <<"Sunday", "Monday", "Tuesday", "Wednesday", "Thursday", "Friday",
              "Saturday">>
ExecutionDays == {DayNames[i] : i \in 1 .. 7}
                   \union {"Everyday", "Weekdays", "Weekend", "unknown"}

Queues  == 0 .. MaxSize \union {None}
Windows == [day : ExecutionDays, start : Times, end : Times] \union {None}
Moments == [day : Days, second : Times]

BraketStatuses == {"ONLINE", "OFFLINE", "RETIRED", "NOT_SET"}
QdmiStatuses   == {"BUSY", "IDLE", "MAINTENANCE", "OFFLINE"}

ASSUME DeviceStatusAssumption ==
  /\ MaxSize \in Nat /\ BusyThreshold \in 0 .. MaxSize
  /\ DayLength \in Nat \ {0}
  /\ None \notin Int /\ None \notin QdmiStatuses
  /\ None \notin [day : ExecutionDays, start : Times, end : Times]
  /\ Answers \subseteq [queues : Seq(Queues), windows : Seq(Windows)]

VARIABLES
  braketStatus, queues, windows,   (* the answer                           *)
  reserved,                        (* the session has a reservation        *)
  now,                             (* the current day and second           *)
  pc, i,                           (* control, and the loops' index        *)
  total,                           (* the queue length: a number or None   *)
  anyWindowParsed,
  availability,                    (* of the device at the current time    *)
  status                           (* the QDMI status, None until then     *)

inputs == <<braketStatus, queues, windows, reserved, now>>
vars == <<inputs, pc, i, total, anyWindowParsed, availability, status>>

Labels == {"queues", "windows", "status", "done"}

-----------------------------------------------------------------------------
(* getTotalQueueLength                                                     *)

BuggyOverflows(sum, length) == FALSE

Overflows(sum, length) == length > MaxSize - sum

AddQueue ==
  /\ pc = "queues" /\ i <= Len(queues)
  /\ queues[i] # None /\ ~Overflows(total, queues[i])
  /\ total' = total + queues[i]
  /\ i' = i + 1
  /\ UNCHANGED <<inputs, pc, anyWindowParsed, availability, status>>

(* The search for a window begins, or a reserved session skips it.         *)
EndQueues(length) ==
  /\ total' = length
  /\ pc' = IF reserved THEN "status" ELSE "windows"
  /\ i' = 1
  /\ UNCHANGED <<inputs, anyWindowParsed, availability, status>>

QueueUnknown ==
  /\ pc = "queues" /\ i <= Len(queues)
  /\ IF queues[i] = None THEN TRUE ELSE Overflows(total, queues[i])
  /\ EndQueues(None)

QueuesAdded == pc = "queues" /\ i > Len(queues) /\ EndQueues(total)

-----------------------------------------------------------------------------
(* getCurrentExecutionWindowAvailability                                   *)

ExecutionDayMatches(executionDay, day) ==
  \/ executionDay = "Everyday"
  \/ executionDay = "Weekdays" /\ day \in 1 .. 5
  \/ executionDay = "Weekend" /\ day \in {0, 6}
  \/ executionDay = DayNames[day + 1]

BuggyIsTimeInExecutionWindow(w, t) ==
  IF w.start = w.end THEN ExecutionDayMatches(w.day, t.day)
  ELSE IF w.start < w.end
       THEN /\ ExecutionDayMatches(w.day, t.day)
            /\ t.second >= w.start /\ t.second <= w.end
       ELSE /\ ExecutionDayMatches(w.day, t.day)
            /\ t.second >= w.start \/ t.second <= w.end

(* A window that ends before it starts ends on the next day.               *)
IsTimeInExecutionWindow(w, t) ==
  IF w.start = w.end THEN ExecutionDayMatches(w.day, t.day)
  ELSE IF w.start < w.end
       THEN /\ ExecutionDayMatches(w.day, t.day)
            /\ t.second >= w.start /\ t.second <= w.end
       ELSE \/ ExecutionDayMatches(w.day, t.day) /\ t.second >= w.start
            \/ /\ ExecutionDayMatches(w.day, (t.day + 6) % 7)
               /\ t.second <= w.end

SkipWindow ==
  /\ pc = "windows" /\ i <= Len(windows)
  /\ windows[i] = None
  /\ i' = i + 1
  /\ UNCHANGED <<inputs, pc, total, anyWindowParsed, availability, status>>

PassWindow ==
  /\ pc = "windows" /\ i <= Len(windows)
  /\ windows[i] # None /\ ~IsTimeInExecutionWindow(windows[i], now)
  /\ anyWindowParsed' = TRUE
  /\ i' = i + 1
  /\ UNCHANGED <<inputs, pc, total, availability, status>>

InWindow ==
  /\ pc = "windows" /\ i <= Len(windows)
  /\ windows[i] # None /\ IsTimeInExecutionWindow(windows[i], now)
  /\ anyWindowParsed' = TRUE
  /\ availability' = "open"
  /\ pc' = "status"
  /\ UNCHANGED <<inputs, i, total, status>>

(* No window holds now; without a readable window nothing is known.        *)
WindowsSearched ==
  /\ pc = "windows" /\ i > Len(windows)
  /\ availability' = IF anyWindowParsed THEN "closed" ELSE "unknown"
  /\ pc' = "status"
  /\ UNCHANGED <<inputs, i, total, anyWindowParsed, status>>

-----------------------------------------------------------------------------
(* getQDMIStatusForBraketDevice, called with the queue length              *)

BuggyQueueLength == IF total = None THEN 0 ELSE total

(* An unknown queue length counts as a busy device's.                      *)
QueueLength == IF total = None THEN BusyThreshold ELSE total

OnlineStatus ==
  IF availability = "closed" \/ QueueLength >= BusyThreshold THEN "BUSY"
  ELSE "IDLE"

ComputeStatus ==
  /\ pc = "status"
  /\ status' = CASE braketStatus = "ONLINE"  -> OnlineStatus
                 [] braketStatus = "OFFLINE" -> "MAINTENANCE"
                 [] braketStatus = "RETIRED" -> "OFFLINE"
                 [] braketStatus = "NOT_SET" -> None
  /\ pc' = "done"
  /\ UNCHANGED <<inputs, i, total, anyWindowParsed, availability>>

Init ==
  /\ braketStatus \in BraketStatuses
  /\ \E a \in Answers : queues = a.queues /\ windows = a.windows
  /\ reserved \in BOOLEAN
  /\ now \in Moments
  /\ pc = "queues" /\ i = 1
  /\ total = 0 /\ anyWindowParsed = FALSE /\ availability = "unknown"
  /\ status = None

Next ==
  \/ AddQueue \/ QueueUnknown \/ QueuesAdded
  \/ SkipWindow \/ PassWindow \/ InWindow \/ WindowsSearched
  \/ ComputeStatus

Spec == Init /\ [][Next]_vars

-----------------------------------------------------------------------------
TypeOK ==
  /\ braketStatus \in BraketStatuses
  /\ queues \in Seq(Queues) /\ windows \in Seq(Windows)
  /\ reserved \in BOOLEAN
  /\ now \in Moments
  /\ pc \in Labels /\ i \in Nat \ {0}
  /\ total \in 0 .. MaxSize \union {None}
  /\ anyWindowParsed \in BOOLEAN
  /\ availability \in {"unknown", "open", "closed"}
  /\ status \in QdmiStatuses \union {None}

(* The exact sum of the first n queue lengths, all of them readable.       *)
Sum[n \in 0 .. Len(queues)] == IF n = 0 THEN 0 ELSE Sum[n - 1] + queues[n]

(* The queue length reported is the exact sum of all queues, and it is     *)
(* missing just when a queue is unreadable or the sum is no size_t:        *)
(* getTotalQueueLength never reports a part of a sum, or one modulo 2^64.  *)
TotalIsExact ==
  pc \in {"windows", "status", "done"} =>
    IF \E j \in 1 .. Len(queues) : queues[j] = None
    THEN total = None
    ELSE total = IF Sum[Len(queues)] > MaxSize THEN None ELSE Sum[Len(queues)]

(* What a window means: it is open on each day it is named for, from its   *)
(* start, for as many seconds as lead from its start to its end.  A moment *)
(* is inside if the time since such a start, counted over the days between *)
(* as on a circle of seven, is not longer; equal times are all day.        *)
Since(w, d, t) == ((t.day - d + 7) % 7) * DayLength + t.second - w.start

Duration(w) == IF w.end >= w.start THEN w.end - w.start
                                   ELSE w.end + DayLength - w.start

Covers(w, t) ==
  IF w.start = w.end THEN ExecutionDayMatches(w.day, t.day)
  ELSE \E d \in Days : /\ ExecutionDayMatches(w.day, d)
                       /\ Since(w, d, t) \in 0 .. Duration(w)

Readable == {j \in 1 .. Len(windows) : windows[j] # None}

(* The device is found available just when one of the windows that can be  *)
(* read holds the current time, over midnight and over the week's end.     *)
AvailabilityIsRight ==
  (pc \in {"status", "done"} /\ ~reserved) =>
    availability = IF Readable = {} THEN "unknown"
                   ELSE IF \E j \in Readable : Covers(windows[j], now)
                        THEN "open" ELSE "closed"

(* A device is reported idle only if it is online, each of its queues is   *)
(* known and below the threshold, and, for a session without reservation,  *)
(* some window holds the current time, or none can be read.                *)
IdleIsFree ==
  status = "IDLE" =>
    /\ braketStatus = "ONLINE"
    /\ \A j \in 1 .. Len(queues) :
         IF queues[j] = None THEN FALSE ELSE queues[j] < BusyThreshold
    /\ reserved \/ Readable = {} \/ \E j \in Readable : Covers(windows[j], now)

(* api.md says that an online device is reported as idle only when the     *)
(* current time is in a public execution window, reservations aside: here  *)
(* for a device that publishes windows.                                    *)
IdleNeedsWindow ==
  (status = "IDLE" /\ ~reserved /\ windows # <<>>) =>
    \E j \in Readable : Covers(windows[j], now)
=============================================================================
