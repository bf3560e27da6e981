------------------------- MODULE DeviceStatusProofs -------------------------
(***************************************************************************)
(* The search of the execution windows and the status that follows, for    *)
(* every list of queues and windows, every length of a day and threshold.  *)
(***************************************************************************)
EXTENDS DeviceStatus, WellFoundedInduction, TLAPS

RealWindows == [day : ExecutionDays, start : Times, end : Times]

(* What the code computes for one window is what a window means, also over *)
(* midnight and from Saturday to Sunday.                                   *)
LEMMA WindowMeaning ==
  ASSUME NEW w \in RealWindows, NEW t \in Moments
  PROVE  IsTimeInExecutionWindow(w, t) <=> Covers(w, t)
  <1> DEFINE Matches(d) == ExecutionDayMatches(w.day, d)
             today      == t.day
             yesterday  == (t.day + 6) % 7
             between(d) == (t.day - d + 7) % 7
  <1>1. /\ DayLength \in Nat /\ DayLength > 0
        /\ w.start \in 0 .. DayLength - 1 /\ w.end \in 0 .. DayLength - 1
        /\ t.day \in 0 .. 6 /\ t.second \in 0 .. DayLength - 1
    BY DeviceStatusAssumption
    DEF RealWindows, Times, Moments, Days
  <1>2. CASE w.start = w.end
    BY <1>2 DEF IsTimeInExecutionWindow, Covers
  <1>3. /\ today \in Days /\ yesterday \in Days
        /\ between(today) = 0 /\ between(yesterday) = 1
    BY <1>1 DEF Days
  <1>4. \A d \in Days : /\ between(d) \in 0 .. 6
                        /\ between(d) = 0 => d = today
                        /\ between(d) = 1 => d = yesterday
    <2> SUFFICES ASSUME NEW d \in 0 .. 6, NEW e \in 0 .. 6
                 PROVE  /\ (e - d + 7) % 7 \in 0 .. 6
                        /\ (e - d + 7) % 7 = 0 => d = e
                        /\ (e - d + 7) % 7 = 1 => d = (e + 6) % 7
      BY <1>1 DEF Days
    <2>1. \/ e >= d /\ (e - d + 7) % 7 = e - d
          \/ e < d /\ (e - d + 7) % 7 = e - d + 7
      OBVIOUS
    <2>2. (e + 6) % 7 = IF e = 0 THEN 6 ELSE e - 1
      OBVIOUS
    <2> QED
      BY <2>1, <2>2
  <1>5. \A d \in Days : between(d) > 1 => Since(w, d, t) > DayLength
    BY <1>1, <1>4 DEF Since
  <1>6. /\ Since(w, today, t) = t.second - w.start
        /\ Since(w, yesterday, t) = DayLength + t.second - w.start
    BY <1>1, <1>3 DEF Since
  <1>7. CASE w.start < w.end
    <2>1. Duration(w) = w.end - w.start
      BY <1>1, <1>7 DEF Duration
    <2>2. \A d \in Days : Since(w, d, t) \in 0 .. Duration(w) => d = today
      <3> SUFFICES ASSUME NEW d \in Days, Since(w, d, t) \in 0 .. Duration(w),
                          d # today
                   PROVE  FALSE
        OBVIOUS
      <3>1. CASE between(d) = 1
        BY <1>1, <1>4, <1>6, <1>7, <2>1, <3>1
      <3>2. CASE between(d) > 1
        BY <1>1, <1>5, <2>1, <3>2
      <3> QED
        BY <1>4, <3>1, <3>2
    <2>3. Since(w, today, t) \in 0 .. Duration(w)
            <=> t.second >= w.start /\ t.second <= w.end
      BY <1>1, <1>6, <2>1
    <2> QED
      BY <1>1, <1>3, <1>7, <2>2, <2>3 DEF IsTimeInExecutionWindow, Covers
  <1>8. CASE w.start > w.end
    <2>1. Duration(w) = w.end + DayLength - w.start
      BY <1>1, <1>8 DEF Duration
    <2>2. \A d \in Days : Since(w, d, t) \in 0 .. Duration(w) =>
                            d \in {today, yesterday}
      <3> SUFFICES ASSUME NEW d \in Days, Since(w, d, t) \in 0 .. Duration(w),
                          d \notin {today, yesterday}
                   PROVE  FALSE
        OBVIOUS
      <3>1. between(d) > 1
        BY <1>4
      <3> QED
        BY <1>1, <1>5, <1>8, <2>1, <3>1
    <2>3. Since(w, today, t) \in 0 .. Duration(w) <=> t.second >= w.start
      BY <1>1, <1>6, <1>8, <2>1
    <2>4. Since(w, yesterday, t) \in 0 .. Duration(w) <=> t.second <= w.end
      BY <1>1, <1>6, <1>8, <2>1
    <2> QED
      BY <1>1, <1>3, <1>8, <2>2, <2>3, <2>4
      DEF IsTimeInExecutionWindow, Covers
  <1> QED
    BY <1>1, <1>2, <1>7, <1>8

-----------------------------------------------------------------------------
(* While the queues are added the total is no smaller than any queue seen, *)
(* and so is a total that is known afterwards.                             *)
QueueInv ==
  /\ pc = "queues" =>
       /\ i <= Len(queues) + 1 /\ total # None
       /\ \A j \in 1 .. i - 1 : queues[j] # None /\ queues[j] <= total
  /\ (pc # "queues" /\ total # None) =>
       \A j \in 1 .. Len(queues) : queues[j] # None /\ queues[j] <= total

(* While the windows are searched none of those passed holds the time.     *)
WindowInv ==
  /\ pc = "queues" => ~anyWindowParsed
  /\ pc = "windows" =>
       /\ i <= Len(windows) + 1
       /\ anyWindowParsed <=> \E j \in Readable : j < i
       /\ \A j \in Readable : j < i => ~Covers(windows[j], now)
  /\ AvailabilityIsRight

StatusInv == (pc # "done" => status = None) /\ IdleIsFree

IInv == TypeOK /\ QueueInv /\ WindowInv /\ StatusInv

(* The initial states satisfy the invariant.                               *)
LEMMA InitInv == Init => IInv
  <1> SUFFICES ASSUME Init PROVE IInv
    OBVIOUS
  <1>1. queues \in Seq(Queues) /\ windows \in Seq(Windows)
    BY DeviceStatusAssumption DEF Init
  <1>2. TypeOK
    <2>1. total \in 0 .. MaxSize \union {None} /\ i \in Nat \ {0}
      BY DeviceStatusAssumption DEF Init
    <2> QED
      BY <1>1, <2>1 DEF Init, TypeOK, Labels
  <1>3. QueueInv
    BY <1>1, DeviceStatusAssumption DEF Init, QueueInv
  <1>4. WindowInv /\ StatusInv
    BY DeviceStatusAssumption
    DEF Init, WindowInv, AvailabilityIsRight, StatusInv, IdleIsFree,
        QdmiStatuses
  <1> QED
    BY <1>2, <1>3, <1>4 DEF IInv

(* Every step keeps it.                                                    *)
LEMMA NextInv == IInv /\ [Next]_vars => IInv'
  <1> SUFFICES ASSUME IInv, [Next]_vars PROVE IInv'
    OBVIOUS
  <1> USE DeviceStatusAssumption
  <1>1. TypeOK /\ QueueInv /\ WindowInv /\ StatusInv
    BY DEF IInv
  <1>2. /\ Len(queues) \in Nat /\ Len(windows) \in Nat
        /\ \A j \in 1 .. Len(queues) : queues[j] \in Queues
        /\ \A j \in 1 .. Len(windows) : windows[j] \in Windows
    BY <1>1 DEF TypeOK
  <1>3. ASSUME AddQueue PROVE IInv'
    <2>1. total \in 0 .. MaxSize /\ queues[i] \in 0 .. MaxSize
      BY <1>1, <1>2, <1>3 DEF TypeOK, QueueInv, AddQueue, Queues
    <2>2. total + queues[i] \in 0 .. MaxSize
      BY <1>3, <2>1 DEF AddQueue, Overflows
    <2>3. total' = total + queues[i]
      BY <1>3 DEF AddQueue
    <2>4. TypeOK'
      <3>1. i' \in Nat \ {0}
        BY <1>1, <1>3 DEF AddQueue, TypeOK
      <3>2. total' \in 0 .. MaxSize \union {None}
        BY <2>2, <2>3
      <3> QED
        BY <1>1, <1>3, <3>1, <3>2 DEF AddQueue, TypeOK, inputs
    <2>5. QueueInv'
      <3>1. pc' = "queues" /\ queues' = queues /\ i' = i + 1
        BY <1>3 DEF AddQueue, inputs
      <3>2. i + 1 <= Len(queues) + 1 /\ i \in Nat
        BY <1>1, <1>2, <1>3 DEF AddQueue, TypeOK
      <3>3. ASSUME NEW j \in 1 .. i
            PROVE  queues[j] # None /\ queues[j] <= total + queues[i]
        <4>1. CASE j = i
          BY <2>1, <4>1
        <4>2. CASE j # i
          <5>1. j \in 1 .. i - 1 /\ j \in 1 .. Len(queues)
            BY <3>2, <4>2, <1>2
          <5>2. queues[j] # None /\ queues[j] <= total /\ queues[j] \in Queues
            BY <1>1, <1>2, <1>3, <5>1 DEF QueueInv, AddQueue
          <5>3. queues[j] \in 0 .. MaxSize
            BY <5>2 DEF Queues
          <5> QED
            BY <2>1, <5>2, <5>3
        <4> QED
          BY <4>1, <4>2
      <3>4. total + queues[i] # None
        BY <2>2
      <3> QED
        BY <2>3, <3>1, <3>2, <3>3, <3>4 DEF QueueInv
    <2>6. WindowInv' /\ StatusInv'
      BY <1>1, <1>3
      DEF AddQueue, WindowInv, AvailabilityIsRight, StatusInv, IdleIsFree,
          Readable, inputs, QdmiStatuses
    <2> QED
      BY <2>4, <2>5, <2>6 DEF IInv
  <1>4. ASSUME NEW length, length \in {None, total}, EndQueues(length),
               pc = "queues", length = total => i > Len(queues)
        PROVE  IInv'
    <2>1. TypeOK'
      <3>1. total' \in 0 .. MaxSize \union {None}
        BY <1>1, <1>4 DEF EndQueues, TypeOK
      <3>2. pc' \in Labels /\ i' = 1
        BY <1>4 DEF EndQueues, Labels
      <3> QED
        BY <1>1, <1>4, <3>1, <3>2 DEF EndQueues, TypeOK, inputs
    <2>2. QueueInv'
      <3>1. pc' # "queues" /\ queues' = queues
        BY <1>4 DEF EndQueues, inputs
      <3>2. CASE total' = None
        BY <3>1, <3>2 DEF QueueInv
      <3>3. CASE total' = total /\ i > Len(queues)
        BY <1>1, <1>2, <1>4, <3>1, <3>3 DEF QueueInv, TypeOK
      <3> QED
        BY <1>4, <3>2, <3>3 DEF EndQueues
    <2>3. WindowInv' /\ StatusInv'
      BY <1>1, <1>2, <1>4
      DEF EndQueues, TypeOK, WindowInv, AvailabilityIsRight, StatusInv,
          IdleIsFree, Readable, inputs, QdmiStatuses
    <2> QED
      BY <2>1, <2>2, <2>3 DEF IInv
  <1>5. ASSUME QueueUnknown PROVE IInv'
    <2>1. total # None
      BY <1>1, <1>5 DEF QueueInv, QueueUnknown
    <2> QED
      BY <1>4, <1>5, <2>1 DEF QueueUnknown
  <1>6. ASSUME QueuesAdded PROVE IInv'
    BY <1>4, <1>6 DEF QueuesAdded
  <1>7. \A j \in Readable :
          IsTimeInExecutionWindow(windows[j], now) <=> Covers(windows[j], now)
    BY <1>1, <1>2, WindowMeaning
    DEF TypeOK, Readable, Windows, RealWindows
  <1>8. ASSUME SkipWindow \/ PassWindow PROVE IInv'
    <2>1. TypeOK' /\ QueueInv' /\ StatusInv'
      <3>1. i' \in Nat \ {0}
        BY <1>1, <1>8 DEF SkipWindow, PassWindow, TypeOK
      <3>2. TypeOK'
        BY <1>1, <1>8, <3>1 DEF SkipWindow, PassWindow, TypeOK, inputs
      <3> QED
        BY <1>1, <1>8, <3>2
        DEF SkipWindow, PassWindow, QueueInv, StatusInv, IdleIsFree, Readable,
            inputs, QdmiStatuses
    <2>2. WindowInv'
      BY <1>1, <1>2, <1>7, <1>8
      DEF SkipWindow, PassWindow, TypeOK, WindowInv, AvailabilityIsRight,
          Readable, inputs
    <2> QED
      BY <2>1, <2>2 DEF IInv
  <1>9. ASSUME InWindow PROVE IInv'
    <2>1. i \in Readable /\ Covers(windows[i], now)
      BY <1>1, <1>2, <1>7, <1>9 DEF InWindow, TypeOK, Readable
    <2>2. TypeOK' /\ QueueInv' /\ StatusInv'
      BY <1>1, <1>9
      DEF InWindow, TypeOK, QueueInv, StatusInv, IdleIsFree, Readable, Labels,
          inputs, QdmiStatuses
    <2>3. WindowInv'
      BY <1>1, <1>9, <2>1
      DEF InWindow, WindowInv, AvailabilityIsRight, Readable, inputs
    <2> QED
      BY <2>2, <2>3 DEF IInv
  <1>10. ASSUME WindowsSearched PROVE IInv'
    <2>1. \A j \in Readable : j < i
      BY <1>1, <1>2, <1>10 DEF WindowsSearched, TypeOK, Readable
    <2>2. TypeOK' /\ QueueInv' /\ StatusInv'
      BY <1>1, <1>10
      DEF WindowsSearched, TypeOK, QueueInv, StatusInv, IdleIsFree, Readable,
          Labels, inputs, QdmiStatuses
    <2>3. WindowInv'
      BY <1>1, <1>10, <2>1
      DEF WindowsSearched, WindowInv, AvailabilityIsRight, Readable, inputs
    <2> QED
      BY <2>2, <2>3 DEF IInv
  <1>11. ASSUME ComputeStatus PROVE IInv'
    <2>1. TypeOK'
      BY <1>1, <1>11
      DEF ComputeStatus, TypeOK, BraketStatuses, QdmiStatuses, OnlineStatus,
          Labels, inputs
    <2>2. QueueInv' /\ WindowInv'
      BY <1>1, <1>11
      DEF ComputeStatus, QueueInv, WindowInv, AvailabilityIsRight, Readable,
          inputs
    <2>3. StatusInv'
      <3> SUFFICES ASSUME status' = "IDLE" PROVE IdleIsFree'
        BY <1>11 DEF StatusInv, IdleIsFree, ComputeStatus
      <3>1. braketStatus = "ONLINE" /\ OnlineStatus = "IDLE"
        BY <1>1, <1>11
        DEF ComputeStatus, TypeOK, BraketStatuses, QdmiStatuses, OnlineStatus
      <3>2. availability # "closed" /\ ~(QueueLength >= BusyThreshold)
        BY <3>1 DEF OnlineStatus
      <3>3. total \in 0 .. MaxSize /\ total < BusyThreshold /\ total # None
        BY <1>1, <3>2 DEF QueueLength, TypeOK
      <3>4. \A j \in 1 .. Len(queues) :
              queues[j] # None /\ queues[j] < BusyThreshold
        BY <1>1, <1>2, <1>11, <3>3 DEF QueueInv, ComputeStatus, Queues
      <3>5. reserved \/ Readable = {}
              \/ \E j \in Readable : Covers(windows[j], now)
        BY <1>1, <1>11, <3>2 DEF WindowInv, AvailabilityIsRight, ComputeStatus
      <3> QED
        BY <1>11, <3>1, <3>4, <3>5
        DEF IdleIsFree, ComputeStatus, Readable, inputs
    <2> QED
      BY <2>1, <2>2, <2>3 DEF IInv
  <1>12. CASE UNCHANGED vars
    BY <1>1, <1>12
    DEF vars, inputs, IInv, TypeOK, QueueInv, WindowInv, AvailabilityIsRight,
        StatusInv, IdleIsFree, Readable
  <1> QED
    BY <1>3, <1>5, <1>6, <1>8, <1>9, <1>10, <1>11, <1>12 DEF Next

(* The invariant holds in every reachable state.                           *)
LEMMA Invariance == Spec => []IInv
  BY InitInv, NextInv, PTL DEF Spec

(* Every variable keeps its type: the sum never leaves the range of        *)
(* size_t.                                                                 *)
THEOREM TypeCorrect == Spec => []TypeOK
  <1>1. IInv => TypeOK
    BY DEF IInv
  <1> QED
    BY <1>1, Invariance, PTL

(* The device is found available just when a window holds the time.        *)
THEOREM AvailabilityRight == Spec => []AvailabilityIsRight
  <1>1. IInv => AvailabilityIsRight
    BY DEF IInv, WindowInv
  <1> QED
    BY <1>1, Invariance, PTL

(* A device reported idle is online, with short queues, in a window.       *)
THEOREM IdleFree == Spec => []IdleIsFree
  <1>1. IInv => IdleIsFree
    BY DEF IInv, StatusInv
  <1> QED
    BY <1>1, Invariance, PTL

-----------------------------------------------------------------------------
(* The sum of the queues.  Sum is a recursive function: that it satisfies  *)
(* its equation, and that it grows, are proved by the least number for     *)
(* which they fail.                                                        *)
LEMMA LeastNumber ==
  ASSUME NEW T, T \subseteq Nat, T # {}
  PROVE  \E n \in T : \A m \in T : n <= m
  <1>1. \E n \in T : \A m \in T : ~(<<m, n>> \in OpToRel(<, Nat))
    BY NatLessThanWellFounded, WFMin
  <1>2. \A n \in T, m \in T : m < n => <<m, n>> \in OpToRel(<, Nat)
    BY DEF OpToRel
  <1>3. \E n \in T : \A m \in T : ~(m < n)
    BY <1>1, <1>2, Zenon
  <1> QED
    BY <1>3

(* f has the sum of the first k elements of q at each k up to n.           *)
SumsTo(q, n, f) ==
  f = [k \in 0 .. n |-> IF k = 0 THEN 0 ELSE f[k - 1] + q[k]]

LEMMA SumExists ==
  ASSUME NEW q, NEW n \in Nat
  PROVE  \E f : SumsTo(q, n, f)
  <1> DEFINE T == {k \in 0 .. n : ~ \E f : SumsTo(q, k, f)}
  <1>1. SUFFICES ASSUME T # {} PROVE FALSE
    OBVIOUS
  <1>2. PICK k \in T : \A m \in T : k <= m
    <2>1. T \subseteq Nat
      OBVIOUS
    <2> QED
      BY <1>1, <2>1, LeastNumber
  <1>3. SumsTo(q, 0, [m \in 0 .. 0 |-> 0])
    BY DEF SumsTo
  <1>4. k # 0
    BY <1>3
  <1>5. k - 1 \in 0 .. n /\ k - 1 \notin T
    BY <1>2, <1>4
  <1>6. PICK f : SumsTo(q, k - 1, f)
    BY <1>5
  <1> DEFINE g == [m \in 0 .. k |-> IF m = k THEN f[k - 1] + q[k] ELSE f[m]]
  <1>7. SumsTo(q, k, g)
    <2>1. \A m \in 0 .. k - 1 : f[m] = IF m = 0 THEN 0 ELSE f[m - 1] + q[m]
      BY <1>6 DEF SumsTo
    <2>2. \A m \in 0 .. k : g[m] = IF m = 0 THEN 0 ELSE g[m - 1] + q[m]
      BY <1>4, <2>1
    <2> QED
      BY <2>2 DEF SumsTo
  <1> QED
    BY <1>7

LEMMA SumEquation ==
  ASSUME TypeOK
  PROVE  \A n \in 0 .. Len(queues) :
           Sum[n] = IF n = 0 THEN 0 ELSE Sum[n - 1] + queues[n]
  <1>1. Len(queues) \in Nat
    BY DEF TypeOK
  <1>2. \E f : SumsTo(queues, Len(queues), f)
    BY <1>1, SumExists
  <1>3. SumsTo(queues, Len(queues), Sum)
    BY <1>2 DEF SumsTo, Sum
  <1> QED
    BY <1>3 DEF SumsTo

LEMMA SumGrows ==
  ASSUME TypeOK, \A j \in 1 .. Len(queues) : queues[j] \in Nat
  PROVE  /\ \A n \in 0 .. Len(queues) : Sum[n] \in Nat
         /\ \A n \in 0 .. Len(queues) : Sum[n] <= Sum[Len(queues)]
  <1>1. Len(queues) \in Nat
    BY DEF TypeOK
  <1>2. ASSUME NEW n \in 0 .. Len(queues) PROVE Sum[n] \in Nat
    <2> DEFINE T == {m \in 0 .. Len(queues) : Sum[m] \notin Nat}
    <2>1. SUFFICES ASSUME T # {} PROVE FALSE
      BY <1>2
    <2>2. PICK m \in T : \A l \in T : m <= l
      <3>1. T \subseteq Nat
        OBVIOUS
      <3> QED
        BY <2>1, <3>1, LeastNumber
    <2>3. m # 0
      BY <1>1, <2>2, SumEquation
    <2>4. m - 1 \in 0 .. Len(queues) /\ m - 1 \notin T
      BY <1>1, <2>2, <2>3
    <2> QED
      BY <1>1, <2>2, <2>3, <2>4, SumEquation
  <1>3. ASSUME NEW n \in 0 .. Len(queues) PROVE Sum[n] <= Sum[Len(queues)]
    <2> DEFINE T == {m \in 0 .. Len(queues) : n <= m /\ ~(Sum[n] <= Sum[m])}
    <2>1. SUFFICES ASSUME T # {} PROVE FALSE
      BY <1>1, <1>3
    <2>2. PICK m \in T : \A l \in T : m <= l
      <3>1. T \subseteq Nat
        OBVIOUS
      <3> QED
        BY <2>1, <3>1, LeastNumber
    <2>3. m # n
      BY <1>2
    <2>4. m - 1 \in 0 .. Len(queues) /\ m - 1 \notin T /\ n <= m - 1
      BY <1>1, <2>2, <2>3
    <2>5. Sum[n] <= Sum[m - 1] /\ Sum[m] = Sum[m - 1] + queues[m]
      BY <1>1, <2>2, <2>4, SumEquation
    <2> QED
      BY <1>1, <1>2, <2>2, <2>4, <2>5
  <1> QED
    BY <1>2, <1>3

(* While the queues are added the total is the sum of those passed.        *)
TotalInv == (pc = "queues" => total = Sum[i - 1]) /\ TotalIsExact

LEMMA TotalInit == Init => TotalInv
  <1> SUFFICES ASSUME Init PROVE TotalInv
    OBVIOUS
  <1>1. TypeOK
    BY InitInv DEF IInv
  <1>2. 0 \in 0 .. Len(queues)
    BY <1>1 DEF TypeOK
  <1>3. Sum[0] = 0
    BY <1>1, <1>2, SumEquation
  <1> QED
    BY <1>3 DEF Init, TotalInv, TotalIsExact

LEMMA TotalNext == IInv /\ TotalInv /\ [Next]_vars => TotalInv'
  <1> SUFFICES ASSUME IInv, TotalInv, [Next]_vars PROVE TotalInv'
    OBVIOUS
  <1> USE DeviceStatusAssumption
  <1>1. TypeOK /\ QueueInv
    BY DEF IInv
  <1>2. /\ Len(queues) \in Nat /\ i \in Nat \ {0}
        /\ \A j \in 1 .. Len(queues) : queues[j] \in Queues
    BY <1>1 DEF TypeOK
  <1>3. queues' = queues
    BY DEF Next, AddQueue, QueueUnknown, QueuesAdded, EndQueues, SkipWindow,
       PassWindow, InWindow, WindowsSearched, ComputeStatus, inputs, vars
  <1>4. Sum' = Sum
    BY <1>3 DEF Sum
  <1>5. ASSUME AddQueue PROVE TotalInv'
    <2>1. i \in 0 .. Len(queues) /\ total' = total + queues[i] /\ i' = i + 1
          /\ pc = "queues" /\ pc' = "queues"
      BY <1>2, <1>5 DEF AddQueue
    <2>2. Sum[i] = Sum[i - 1] + queues[i]
      BY <1>1, <1>2, <2>1, SumEquation
    <2> QED
      BY <1>2, <1>4, <2>1, <2>2 DEF TotalInv, TotalIsExact
  <1>6. ASSUME QueueUnknown PROVE TotalInv'
    <2>1. pc' \in {"status", "windows"} /\ total' = None
      BY <1>6 DEF QueueUnknown, EndQueues
    <2>2. ASSUME \A j \in 1 .. Len(queues) : queues[j] # None
          PROVE  Sum[Len(queues)] > MaxSize
      <3>1. \A j \in 1 .. Len(queues) : queues[j] \in Nat
        BY <1>2, <2>2 DEF Queues
      <3>2. i \in 1 .. Len(queues) /\ total = Sum[i - 1]
        BY <1>2, <1>6 DEF QueueUnknown, TotalInv
      <3>3. Sum[i] = Sum[i - 1] + queues[i] /\ Sum[i] <= Sum[Len(queues)]
        BY <1>1, <1>2, <3>1, <3>2, SumEquation, SumGrows
      <3>4. Sum[i - 1] \in Nat /\ Sum[i] \in Nat /\ Sum[Len(queues)] \in Nat
        BY <1>1, <1>2, <3>1, <3>2, SumGrows
      <3>5. queues[i] > MaxSize - total
        BY <1>6, <2>2, <3>2 DEF QueueUnknown, Overflows
      <3> QED
        BY <3>1, <3>2, <3>3, <3>4, <3>5
    <2> QED
      BY <1>3, <1>4, <2>1, <2>2 DEF TotalInv, TotalIsExact
  <1>7. ASSUME QueuesAdded PROVE TotalInv'
    <2>1. i - 1 = Len(queues) /\ total' = total /\ pc = "queues"
          /\ pc' \in {"status", "windows"}
      BY <1>1, <1>2, <1>7 DEF QueuesAdded, EndQueues, QueueInv
    <2>2. \A j \in 1 .. Len(queues) : queues[j] # None
      BY <1>1, <2>1 DEF QueueInv
    <2>3. total = Sum[Len(queues)] /\ total \in 0 .. MaxSize
      BY <1>1, <2>1 DEF TotalInv, QueueInv, TypeOK
    <2> QED
      BY <1>3, <1>4, <2>1, <2>2, <2>3 DEF TotalInv, TotalIsExact
  <1>8. CASE pc # "queues" /\ pc' # "queues" /\ UNCHANGED total
    BY <1>3, <1>4, <1>8, <1>1 DEF TotalInv, TotalIsExact, TypeOK, Labels
  <1>9. CASE UNCHANGED vars
    BY <1>4, <1>9 DEF TotalInv, TotalIsExact, vars, inputs
  <1> QED
    BY <1>5, <1>6, <1>7, <1>8, <1>9 DEF Next, SkipWindow, PassWindow, InWindow,
       WindowsSearched, ComputeStatus

(* The queue length reported is the exact sum of all queues, or missing if *)
(* one is unreadable or the sum is no size_t.                              *)
THEOREM TotalExact == Spec => []TotalIsExact
  <1>1. Init => IInv /\ TotalInv
    BY InitInv, TotalInit
  <1>2. (IInv /\ TotalInv) /\ [Next]_vars => (IInv /\ TotalInv)'
    BY NextInv, TotalNext
  <1>3. TotalInv => TotalIsExact
    BY DEF TotalInv
  <1> QED
    BY <1>1, <1>2, <1>3, PTL DEF Spec
=============================================================================
