-------------------------- MODULE JobProgramsProofs --------------------------
(***************************************************************************)
(* The limits of program sets, the shots of tasks, the indices of sites,   *)
(* the fidelities of operations and the adaptation of programs, for all    *)
(* devices, programs, numbers of shots and widths of an integer.           *)
(***************************************************************************)
EXTENDS JobPrograms, FiniteSetTheorems, SequenceTheorems, WellFoundedInduction, TLAPS

(* The job's task is the request the job's shots and programs make.        *)
TaskInv ==
  task # None =>
    /\ programs # <<>>
    /\ task.shots = Wrap(shots * Len(programs))
    /\ task.programSet = (Len(programs) > 1)
    /\ task.programs = Len(programs)

(* Shots and programs, whichever was set last, were accepted together.     *)
AcceptedInv ==
  /\ shots \in 0 .. MaxSize
  /\ programs # <<>> => /\ Len(programs) \in Nat \ {0}
                        /\ SupportsPrograms(Len(programs), shots) = Success

(* An opened job divides the shots of its task.                            *)
OpenedInv ==
  opened # None =>
    /\ opened.from # None
    /\ opened.programs = IF opened.from.programSet THEN opened.from.programs ELSE 1
    /\ opened.shots = opened.from.shots \div opened.programs
    /\ opened.shots * opened.programs = opened.from.shots

ShotsInv ==
  /\ arch = ParseProperties(caps)
  /\ AcceptedInv
  /\ TaskInv
  /\ OpenedInv

-----------------------------------------------------------------------------
(* A number of shots and programs whose product is a signed integer.       *)
LEMMA ProductIsSigned ==
  ASSUME NEW count \in Nat \ {0}, NEW n \in Nat, ProductFits(count, n)
  PROVE  n * count \in 0 .. MaxInt64 /\ Wrap(n * count) = n * count
  <1> DEFINE most == MaxInt64 \div count
  <1>1. MaxInt64 \in Nat /\ MaxSize = 2 * MaxInt64 + 1
    BY MaxAssumption
  <1>2. most \in Nat /\ most * count <= MaxInt64
    BY <1>1
  <1>3. n <= most
    BY DEF ProductFits
  <1> HIDE DEF most
  <1>4. n * count <= most * count
    BY <1>2, <1>3
  <1>5. n * count \in 0 .. MaxInt64
    BY <1>1, <1>2, <1>4
  <1>6. \A k \in 0 .. MaxInt64 : k % (MaxSize + 1) = k
    BY <1>1
  <1> QED
    BY <1>5, <1>6 DEF Wrap

(* The architecture of a document that could be parsed has the limits of   *)
(* the document.                                                           *)
LEMMA ParsedLimits ==
  ASSUME NEW device, NEW a, a = ParseProperties(device),
         a \notin {Fatal, NotSupported}
  PROVE  /\ a.programSetLimits = ParseProgramSetLimits(device)
         /\ a.programSetLimits # Fatal
  BY DEF ParseProperties

(* What a set of limits says of the document it was parsed from.           *)
LEMMA LimitsAreTheDocuments ==
  ASSUME NEW device, NEW limits, limits = ParseProgramSetLimits(device),
         limits # Fatal, limits # None
  PROVE  LET set == device.programSets IN
         /\ set # None /\ "1" \in ToSet(set.versions)
         /\ limits.maximumExecutables = set.maximumExecutables
         /\ limits.maximumTotalShots = set.maximumTotalShots
         /\ limits.maximumTotalShots \in 0 .. MaxSize
         /\ limits.minimumTotalShots \in 0 .. MaxSize
         /\ set.minimumTotalShots # None => limits.minimumTotalShots = set.minimumTotalShots
         /\ device.shotsRange # None =>
              /\ limits.minimumShotsPerProgram = device.shotsRange[1]
              /\ limits.maximumShotsPerProgram = device.shotsRange[2]
  BY DEF ParseProgramSetLimits, InRange

(* A program set that is supported respects each limit of the document.    *)
LEMMA SupportedSet ==
  ASSUME NEW device, arch = ParseProperties(device),
         NEW count \in Nat \ {0}, NEW n \in Nat, count > 1,
         SupportsPrograms(count, n) = Success
  PROVE  LET set == device.programSets IN
         /\ "1" \in ToSet(set.versions)
         /\ count <= set.maximumExecutables
         /\ n * count <= set.maximumTotalShots
         /\ set.minimumTotalShots # None => n * count >= set.minimumTotalShots
         /\ device.shotsRange # None =>
              /\ n >= device.shotsRange[1]
              /\ device.shotsRange[2] # 0 => n <= device.shotsRange[2]
  <1> DEFINE limits == arch.programSetLimits
  <1>1. ProductFits(count, n)
    BY ValuesAssumption DEF SupportsPrograms
  <1>2. n * count \in 0 .. MaxInt64 /\ Wrap(n * count) = n * count
    BY <1>1, ProductIsSigned
  <1>3. Parsed /\ WithinLimits(limits, count, n)
    BY ValuesAssumption DEF SupportsPrograms, Parsed
  <1>4. limits = ParseProgramSetLimits(device) /\ limits # Fatal
    BY <1>3, ParsedLimits DEF Parsed
  <1>5. limits # None
    BY <1>3 DEF WithinLimits
  <1> HIDE DEF limits
  <1>6. n * count \in limits.minimumTotalShots .. limits.maximumTotalShots
    BY <1>2, <1>3 DEF WithinLimits
  <1>7. MaxInt64 \in Nat /\ MaxSize \in Nat
    BY MaxAssumption
  <1> QED
    BY <1>2, <1>3, <1>4, <1>5, <1>6, <1>7, LimitsAreTheDocuments DEF WithinLimits

(* Division of a task's shots among its programs leaves no remainder.      *)
LEMMA SharesAddUp ==
  ASSUME NEW total \in Int, NEW count \in Nat \ {0}, total % count = 0
  PROVE  (total \div count) * count = total
  OBVIOUS

(* The shares of a task that was made of equal shares are these.           *)
LEMMA ShareIsShots ==
  ASSUME NEW n \in Nat, NEW count \in Nat \ {0}
  PROVE  (n * count) \div count = n /\ (n * count) % count = 0
  OBVIOUS

-----------------------------------------------------------------------------
(* The number of shots and programs of a job are accepted together.        *)
LEMMA AcceptedProduct ==
  ASSUME AcceptedInv, programs # <<>>
  PROVE  /\ Len(programs) \in Nat \ {0} /\ shots \in Nat
         /\ shots * Len(programs) \in 0 .. MaxInt64
         /\ Wrap(shots * Len(programs)) = shots * Len(programs)
  <1>1. Len(programs) \in Nat \ {0} /\ shots \in Nat
    BY MaxAssumption DEF AcceptedInv
  <1>2. ProductFits(Len(programs), shots)
    BY ValuesAssumption DEF AcceptedInv, SupportsPrograms
  <1> QED
    BY <1>1, <1>2, ProductIsSigned

(* A new job has no programs, no task and a valid number of shots.         *)
LEMMA ShotsInit == Init => ShotsInv
  BY ShotsAssumption DEF Init, ShotsInv, AcceptedInv, TaskInv, OpenedInv

(* Every task that can be opened has numbers the division works on.        *)
LEMMA OpenedShares ==
  ASSUME ShotsInv, NEW t \in ForeignTasks \union ({task} \ {None}), Reopen(t)
  PROVE  OpenedInv'
  <1> DEFINE count == IF t.programSet THEN t.programs ELSE 1
  <1>1. t # None
    BY TasksAssumption
  <1>2. t.shots \in Int /\ t.programs \in Int
    <2>1. CASE t \in ForeignTasks
      BY <2>1, TasksAssumption
    <2>2. CASE t = task
      BY <1>1, <2>2, AcceptedProduct DEF ShotsInv, TaskInv
    <2> QED
      BY <2>1, <2>2
  <1>3. count \in Nat \ {0} /\ t.shots % count = 0
    BY <1>2 DEF Reopen, Divides
  <1>4. opened' = [shots |-> t.shots \div count, programs |-> count,
                   programSet |-> t.programSet, from |-> t]
    BY DEF Reopen
  <1>5. (t.shots \div count) * count = t.shots
    BY <1>2, <1>3, SharesAddUp
  <1> HIDE DEF count
  <1>6. opened'.shots * opened'.programs = opened'.from.shots
    BY <1>4, <1>5
  <1> QED
    BY <1>1, <1>4, <1>6 DEF OpenedInv, count

(* Each call keeps shots and programs accepted together.                   *)
LEMMA ShotsNext == ShotsInv /\ [Next]_vars => ShotsInv'
  <1> SUFFICES ASSUME ShotsInv, [Next]_vars PROVE ShotsInv'
    OBVIOUS
  <1> USE DEF ShotsInv
  <1>1. ASSUME NEW list \in ProgramLists, SetPrograms(list) PROVE ShotsInv'
    <2>1. AcceptedInv'
      BY <1>1, ProgramsAssumption DEF SetPrograms, SupportsPrograms, Parsed, AcceptedInv
    <2> QED
      BY <1>1, <2>1 DEF SetPrograms, TaskInv, OpenedInv
  <1>2. ASSUME NEW n \in ShotValues, SetShots(n) PROVE ShotsInv'
    <2>1. AcceptedInv'
      BY <1>2, ShotsAssumption DEF SetShots, SupportsPrograms, Parsed, AcceptedInv
    <2> QED
      BY <1>2, <2>1 DEF SetShots, TaskInv, OpenedInv
  <1>3. CASE Submit
    BY <1>3 DEF Submit, AcceptedInv, SupportsPrograms, Parsed, TaskInv, OpenedInv
  <1>4. CASE ServiceRuns
    BY <1>4 DEF ServiceRuns, AcceptedInv, SupportsPrograms, Parsed, TaskInv, OpenedInv
  <1>5. ASSUME NEW i \in DOMAIN results, Read(i) PROVE ShotsInv'
    BY <1>5 DEF Read, AcceptedInv, SupportsPrograms, Parsed, TaskInv, OpenedInv
  <1>6. ASSUME NEW t \in ForeignTasks \union ({task} \ {None}), Reopen(t)
        PROVE  ShotsInv'
    <2>1. OpenedInv'
      BY <1>6, OpenedShares
    <2> QED
      BY <1>6, <2>1 DEF Reopen, AcceptedInv, SupportsPrograms, Parsed, TaskInv
  <1>7. CASE UNCHANGED vars
    BY <1>7 DEF vars, AcceptedInv, SupportsPrograms, Parsed, TaskInv, OpenedInv
  <1> QED
    BY <1>1, <1>2, <1>3, <1>4, <1>5, <1>6, <1>7 DEF Next

(* The invariant of shots and programs in every reachable state.           *)
LEMMA ShotsInvariance == Spec => []ShotsInv
  BY ShotsInit, ShotsNext, PTL DEF Spec

-----------------------------------------------------------------------------
(* Whatever the order in which shots and programs are set, and however     *)
(* narrow an integer is, a submitted task has the shots of all its         *)
(* programs and is within every limit of the device's document.            *)
THEOREM Limits == Spec => []LimitsRespected
  <1>1. ShotsInv => LimitsRespected
    <2> SUFFICES ASSUME ShotsInv, task # None PROVE LimitsRespected
      BY DEF LimitsRespected
    <2>1. /\ programs # <<>>
          /\ task.shots = Wrap(shots * Len(programs))
          /\ task.programSet = (Len(programs) > 1)
          /\ task.programs = Len(programs)
      BY DEF ShotsInv, TaskInv
    <2>2. /\ Len(programs) \in Nat \ {0} /\ shots \in Nat
          /\ shots * Len(programs) \in 0 .. MaxInt64
          /\ task.shots = shots * Len(programs)
      BY <2>1, AcceptedProduct DEF ShotsInv
    <2>3. task.shots <= MaxInt64
      BY <2>2, MaxAssumption
    <2>4. CASE ~task.programSet
      BY <2>2, <2>3, <2>4 DEF LimitsRespected
    <2>5. CASE task.programSet
      BY <2>1, <2>2, <2>3, <2>5, SupportedSet DEF LimitsRespected, ShotsInv, AcceptedInv
    <2> QED
      BY <2>4, <2>5
  <1> QED
    BY <1>1, ShotsInvariance, PTL

(* The shots of an opened job add up to those of its task, and a job       *)
(* opened for the session's own task has the shots the client set.         *)
THEOREM Reopened == Spec => []ReopenedShotsAddUp
  <1>1. ShotsInv => ReopenedShotsAddUp
    <2> SUFFICES ASSUME ShotsInv, opened # None PROVE ReopenedShotsAddUp
      BY DEF ReopenedShotsAddUp
    <2>1. opened.shots * opened.programs = opened.from.shots
      BY DEF ShotsInv, OpenedInv
    <2>2. ASSUME opened.from = task
          PROVE  opened.shots = shots /\ opened.programs = Len(programs)
      <3>1. /\ programs # <<>>
            /\ task.shots = Wrap(shots * Len(programs))
            /\ task.programSet = (Len(programs) > 1)
            /\ task.programs = Len(programs)
        BY <2>2 DEF ShotsInv, OpenedInv, TaskInv
      <3>2. /\ Len(programs) \in Nat \ {0} /\ shots \in Nat
            /\ task.shots = shots * Len(programs)
        BY <3>1, AcceptedProduct DEF ShotsInv
      <3>3. opened.programs = Len(programs)
        <4>1. opened.programs = IF task.programSet THEN task.programs ELSE 1
          BY <2>2 DEF ShotsInv, OpenedInv
        <4>2. CASE Len(programs) > 1
          BY <3>1, <4>1, <4>2
        <4>3. CASE ~(Len(programs) > 1)
          <5>1. ~task.programSet
            BY <3>1, <4>3, Zenon
          <5>2. opened.programs = 1
            BY <4>1, <5>1, Zenon
          <5>3. Len(programs) = 1
            BY <3>2, <4>3
          <5> QED
            BY <5>2, <5>3
        <4> QED
          BY <4>2, <4>3
      <3> QED
        BY <2>2, <3>2, <3>3, ShareIsShots DEF ShotsInv, OpenedInv
    <2> QED
      BY <2>1, <2>2 DEF ReopenedShotsAddUp
  <1> QED
    BY <1>1, ShotsInvariance, PTL

-----------------------------------------------------------------------------
(* Sites.  A nonempty set of naturals has a least element: what the        *)
(* recursive functions below compute is proved by the least number for     *)
(* which it fails.                                                         *)
LEMMA LeastNumber ==
  ASSUME NEW T, T \subseteq Nat, T # {}
  PROVE  \E n \in T : \A m \in T : n <= m
  <1>1. \E n \in T : \A m \in T : ~(<<m, n>> \in OpToRel(<, Nat))
    BY NatLessThanWellFounded, WFMin
  <1>2. \A n \in T, m \in T : m < n => <<m, n>> \in OpToRel(<, Nat)
    BY DEF OpToRel
  <1>3. \E n \in T : \A m \in T : ~(m < n)
    BY <1>1, <1>2, Zenon
  <1> QED
    BY <1>3

(* Min of a nonempty set of naturals is its least element.                 *)
LEMMA MinIsLeast ==
  ASSUME NEW T, T \subseteq Nat, T # {}
  PROVE  Min(T) \in T /\ \A m \in T : Min(T) <= m
  BY LeastNumber DEF Min

(* Sets in order.  The relation R, a set of pairs, orders S strictly and   *)
(* totally.                                                                *)
IsOrdered(R, S) ==
  /\ \A x \in S : <<x, x>> \notin R
  /\ \A x, y \in S : x = y \/ <<x, y>> \in R \/ <<y, x>> \in R
  /\ \A x, y, z \in S : <<x, y>> \in R /\ <<y, z>> \in R => <<x, z>> \in R

(* The rank of an element: how many come before it.                        *)
Earlier(R, S, x) == {s \in S : <<s, x>> \in R}
Rank(R, S) == [x \in S |-> Cardinality(Earlier(R, S, x))]

(* An element is above those before it, and no two have the same rank.     *)
LEMMA RanksAreDistinct ==
  ASSUME NEW S, IsFiniteSet(S), NEW R, IsOrdered(R, S)
  PROVE  Rank(R, S) \in Injection(S, 0 .. Cardinality(S) - 1)
  <1> DEFINE B(x) == Earlier(R, S, x)
             rank == Rank(R, S)
  <1>1. Cardinality(S) \in Nat
    BY FS_CardinalityType
  <1>2. ASSUME NEW x \in S
        PROVE  /\ IsFiniteSet(B(x)) /\ Cardinality(B(x)) \in Nat
               /\ Cardinality(B(x)) \in 0 .. Cardinality(S) - 1
    <2>1. B(x) \in SUBSET S /\ x \notin B(x)
      BY DEF IsOrdered, Earlier
    <2> HIDE DEF B
    <2>2. /\ IsFiniteSet(B(x)) /\ Cardinality(B(x)) <= Cardinality(S)
          /\ Cardinality(S) = Cardinality(B(x)) => S = B(x)
      BY <2>1, FS_Subset
    <2>3. Cardinality(B(x)) \in Nat
      BY <2>2, FS_CardinalityType
    <2>4. S # B(x)
      BY <2>1
    <2> QED
      BY <1>1, <2>2, <2>3, <2>4
  <1>3. ASSUME NEW x \in S, NEW y \in S, <<x, y>> \in R
        PROVE  Cardinality(B(x)) < Cardinality(B(y))
    <2>1. B(x) \in SUBSET B(y) /\ x \notin B(x) /\ x \in B(y)
      BY <1>3 DEF IsOrdered, Earlier
    <2> HIDE DEF B
    <2>2. IsFiniteSet(B(y))
      BY <1>2
    <2>3. /\ Cardinality(B(x)) <= Cardinality(B(y))
          /\ Cardinality(B(y)) = Cardinality(B(x)) => B(y) = B(x)
      BY <2>1, <2>2, FS_Subset
    <2>4. Cardinality(B(x)) \in Nat /\ Cardinality(B(y)) \in Nat
      BY <1>2
    <2> QED
      BY <2>1, <2>3, <2>4
  <1>4. \A x \in S : rank[x] = Cardinality(B(x))
    BY DEF Rank
  <1> HIDE DEF B
  <1>5. ASSUME NEW x \in S, NEW y \in S, rank[x] = rank[y] PROVE x = y
    <2>1. x = y \/ <<x, y>> \in R \/ <<y, x>> \in R
      BY DEF IsOrdered
    <2>2. Cardinality(B(x)) \in Nat /\ Cardinality(B(x)) = Cardinality(B(y))
      BY <1>2, <1>4, <1>5
    <2>3. <<x, y>> \in R => Cardinality(B(x)) < Cardinality(B(y))
      BY <1>3
    <2>4. <<y, x>> \in R => Cardinality(B(y)) < Cardinality(B(x))
      BY <1>3
    <2> QED
      BY <2>1, <2>2, <2>3, <2>4
  <1>6. rank \in [S -> 0 .. Cardinality(S) - 1]
    BY <1>2 DEF Rank, B
  <1> QED
    BY <1>5, <1>6 DEF Injection, IsInjective

(* What lists the elements by rank lists each of them once.                *)
LEMMA ListedByRank ==
  ASSUME NEW S, IsFiniteSet(S), NEW R, IsOrdered(R, S), NEW f,
         \A i \in 1 .. Cardinality(S) : f[i] = CHOOSE x \in S : Rank(R, S)[x] = i - 1
  PROVE  /\ \A i \in 1 .. Cardinality(S) : f[i] \in S
         /\ \A x \in S : \E i \in 1 .. Cardinality(S) : f[i] = x
         /\ \A i, k \in 1 .. Cardinality(S) : f[i] = f[k] => i = k
  <1> DEFINE rank == Rank(R, S)
             count == Cardinality(S)
  <1>1. count \in Nat
    BY FS_CardinalityType
  <1>2. rank \in Injection(S, 0 .. count - 1)
    BY RanksAreDistinct
  <1> HIDE DEF count
  <1>3. IsFiniteSet(0 .. count - 1) /\ Cardinality(0 .. count - 1) = count
    <2>1. 0 \in Int /\ count - 1 \in Int
      BY <1>1
    <2>2. /\ IsFiniteSet(0 .. count - 1)
          /\ Cardinality(0 .. count - 1) = IF 0 > count - 1 THEN 0 ELSE count - 1 - 0 + 1
      BY <2>1, FS_Interval
    <2> QED
      BY <1>1, <2>2
  <1>4. rank \in Surjection(S, 0 .. count - 1)
    BY <1>2, <1>3, FS_Injection DEF count
  <1> HIDE DEF rank
  <1>5. ASSUME NEW i \in 1 .. count PROVE f[i] \in S /\ rank[f[i]] = i - 1
    <2>1. i - 1 \in 0 .. count - 1
      BY <1>1
    <2>2. \E x \in S : rank[x] = i - 1
      BY <1>4, <2>1 DEF Surjection
    <2>3. f[i] = CHOOSE x \in S : rank[x] = i - 1
      BY DEF rank, count
    <2> QED
      BY <2>2, <2>3
  <1>6. ASSUME NEW x \in S PROVE \E i \in 1 .. count : f[i] = x
    <2>1. rank[x] \in 0 .. count - 1
      BY <1>2 DEF Injection
    <2>2. rank[x] + 1 \in 1 .. count /\ (rank[x] + 1) - 1 = rank[x]
      BY <1>1, <2>1
    <2>3. rank[f[rank[x] + 1]] = rank[x] /\ f[rank[x] + 1] \in S
      BY <1>5, <2>2
    <2>4. f[rank[x] + 1] = x
      BY <1>2, <2>3 DEF Injection, IsInjective
    <2> QED
      BY <2>2, <2>4
  <1>7. ASSUME NEW i \in 1 .. count, NEW k \in 1 .. count, f[i] = f[k] PROVE i = k
    <2>1. rank[f[i]] = i - 1 /\ rank[f[k]] = k - 1
      BY <1>5
    <2> QED
      BY <1>1, <1>7, <2>1
  <1> QED
    BY <1>5, <1>6, <1>7 DEF count

(* Each label has a position of its own.                                   *)
LEMMA PositionIsItsOwn ==
  ASSUME NEW l \in ToSet(TextOrder)
  PROVE  /\ Position(l) \in Nat /\ Position(l) \in DOMAIN TextOrder
         /\ TextOrder[Position(l)] = l
  <1> DEFINE here == {i \in 1 .. Len(TextOrder) : TextOrder[i] = l}
  <1>1. here # {} /\ here \subseteq Nat
    BY TextOrderAssumption DEF ToSet
  <1>2. Position(l) = Min(here)
    BY <1>1 DEF Position, SelectInSeq
  <1>3. Min(here) \in here
    BY <1>1, MinIsLeast
  <1> QED
    BY <1>2, <1>3, TextOrderAssumption

(* The order of the labels is strict and total.                            *)
LEMMA LabelsAreOrdered ==
  ASSUME NEW labels, labels \subseteq ToSet(TextOrder)
  PROVE  /\ \A x \in labels : ~SiteNameLess(x, x)
         /\ \A x, y \in labels : x = y \/ SiteNameLess(x, y) \/ SiteNameLess(y, x)
         /\ \A x, y, z \in labels :
              SiteNameLess(x, y) /\ SiteNameLess(y, z) => SiteNameLess(x, z)
  <1>1. \A x \in labels : HasIndex(x) => Decimal[x] \in Nat
    BY DecimalAssumption DEF HasIndex, DecimalSiteIndex, IsDecimalSiteName
  <1>2. \A x \in labels : Position(x) \in Nat
    BY PositionIsItsOwn
  <1>3. \A x, y \in labels : Position(x) = Position(y) => x = y
    BY PositionIsItsOwn
  <1> DEFINE Below(x, y) ==
               \/ HasIndex(x) /\ HasIndex(y) /\ Decimal[x] < Decimal[y]
               \/ HasIndex(x) /\ ~HasIndex(y)
               \/ /\ HasIndex(x) <=> HasIndex(y)
                  /\ HasIndex(x) => Decimal[x] = Decimal[y]
                  /\ Position(x) < Position(y)
  <1>4. \A x, y : SiteNameLess(x, y) <=> Below(x, y)
    BY DEF SiteNameLess, HasIndex
  <1>5. ASSUME NEW x \in labels PROVE ~SiteNameLess(x, x)
    BY <1>1, <1>2, <1>4
  <1>6. ASSUME NEW x \in labels, NEW y \in labels
        PROVE  x = y \/ SiteNameLess(x, y) \/ SiteNameLess(y, x)
    <2>1. CASE HasIndex(x) /\ HasIndex(y)
      BY <1>1, <1>2, <1>3, <1>4, <2>1
    <2>2. CASE ~HasIndex(x) /\ ~HasIndex(y)
      BY <1>2, <1>3, <1>4, <2>2
    <2> QED
      BY <1>4, <2>1, <2>2
  <1>7. ASSUME NEW x \in labels, NEW y \in labels, NEW z \in labels,
               SiteNameLess(x, y), SiteNameLess(y, z)
        PROVE  SiteNameLess(x, z)
    <2>1. CASE HasIndex(y)
      <3>1. HasIndex(x)
        BY <1>4, <1>7, <2>1
      <3> QED
        BY <1>1, <1>2, <1>4, <1>7, <2>1, <3>1
    <2>2. CASE ~HasIndex(y)
      <3>1. ~HasIndex(z)
        BY <1>4, <1>7, <2>2
      <3> QED
        BY <1>1, <1>2, <1>4, <1>7, <2>2, <3>1
    <2> QED
      BY <2>1, <2>2
  <1> QED
    BY <1>5, <1>6, <1>7

(* Sorted lists each of the labels once.                                   *)
LEMMA SortedListsLabels ==
  ASSUME NEW labels, IsFiniteSet(labels), labels \subseteq ToSet(TextOrder)
  PROVE  /\ \A i \in 1 .. Cardinality(labels) : Sorted(labels)[i] \in labels
         /\ \A l \in labels : \E i \in 1 .. Cardinality(labels) : Sorted(labels)[i] = l
         /\ \A i, k \in 1 .. Cardinality(labels) :
              Sorted(labels)[i] = Sorted(labels)[k] => i = k
  <1> DEFINE R == {e \in labels \X labels : SiteNameLess(e[1], e[2])}
             f == Sorted(labels)
  <1>1. \A x, y \in labels : <<x, y>> \in R <=> SiteNameLess(x, y)
    OBVIOUS
  <1> HIDE DEF R
  <1>2. IsOrdered(R, labels)
    BY <1>1, LabelsAreOrdered DEF IsOrdered
  <1>3. \A x \in labels : Rank(R, labels)[x] = Cardinality({s \in labels : SiteNameLess(s, x)})
    <2> SUFFICES ASSUME NEW x \in labels
                 PROVE  Earlier(R, labels, x) = {s \in labels : SiteNameLess(s, x)}
      BY DEF Rank
    <2> QED
      BY <1>1 DEF Earlier
  <1>4. \A i \in 1 .. Cardinality(labels) :
          f[i] = CHOOSE x \in labels : Cardinality({s \in labels : SiteNameLess(s, x)}) = i - 1
    BY DEF Sorted, InOrder
  <1> HIDE DEF f
  <1>5. \A i \in 1 .. Cardinality(labels) :
          f[i] = CHOOSE x \in labels : Rank(R, labels)[x] = i - 1
    <2> SUFFICES ASSUME NEW i \in 1 .. Cardinality(labels)
                 PROVE  (CHOOSE x \in labels : Rank(R, labels)[x] = i - 1)
                          = CHOOSE x \in labels :
                              Cardinality({s \in labels : SiteNameLess(s, x)}) = i - 1
      BY <1>4
    <2> QED
      BY <1>3, Zenon
  <1>6. /\ \A i \in 1 .. Cardinality(labels) : f[i] \in labels
        /\ \A l \in labels : \E i \in 1 .. Cardinality(labels) : f[i] = l
        /\ \A i, k \in 1 .. Cardinality(labels) : f[i] = f[k] => i = k
    BY <1>2, <1>5, ListedByRank
  <1> QED
    BY <1>6 DEF f

(* f has what is assigned after each of the first n labels.                *)
Assigns(labels, n, f) ==
  f = [i \in 0 .. n |-> IF i = 0 THEN Unassigned(labels)
                        ELSE AssignIndex(f[i - 1], Sorted(labels)[i])]

(* There is such a function for every number of labels.                    *)
LEMMA AssignmentExists ==
  ASSUME NEW labels, NEW n \in Nat
  PROVE  \E f : Assigns(labels, n, f)
  <1> DEFINE T == {k \in 0 .. n : ~ \E f : Assigns(labels, k, f)}
  <1>1. SUFFICES ASSUME T # {} PROVE FALSE
    OBVIOUS
  <1>2. PICK k \in T : \A m \in T : k <= m
    <2>1. T \subseteq Nat
      OBVIOUS
    <2> QED
      BY <1>1, <2>1, LeastNumber
  <1>3. Assigns(labels, 0, [m \in 0 .. 0 |-> Unassigned(labels)])
    BY DEF Assigns
  <1>4. k # 0
    BY <1>3
  <1>5. k - 1 \in 0 .. n /\ k - 1 \notin T
    BY <1>2, <1>4
  <1>6. PICK f : Assigns(labels, k - 1, f)
    BY <1>5
  <1> DEFINE next == AssignIndex(f[k - 1], Sorted(labels)[k])
             g == [m \in 0 .. k |-> IF m = k THEN next ELSE f[m]]
  <1>7. Assigns(labels, k, g)
    <2>1. \A m \in 0 .. k - 1 :
            f[m] = IF m = 0 THEN Unassigned(labels)
                   ELSE AssignIndex(f[m - 1], Sorted(labels)[m])
      BY <1>6 DEF Assigns
    <2>2. \A m \in 0 .. k :
            g[m] = IF m = 0 THEN Unassigned(labels)
                   ELSE AssignIndex(g[m - 1], Sorted(labels)[m])
      BY <1>4, <2>1
    <2> QED
      BY <2>2 DEF Assigns
  <1> QED
    BY <1>7

(* So Assigned, which is recursive, satisfies its equation.                *)
LEMMA AssignmentEquation ==
  ASSUME NEW labels, Cardinality(labels) \in Nat
  PROVE  /\ Assigned(labels)[0] = Unassigned(labels)
         /\ \A i \in 1 .. Cardinality(labels) :
              Assigned(labels)[i]
                = AssignIndex(Assigned(labels)[i - 1], Sorted(labels)[i])
  <1>1. \E f : Assigns(labels, Cardinality(labels), f)
    BY AssignmentExists
  <1>2. Assigns(labels, Cardinality(labels), Assigned(labels))
    BY <1>1 DEF Assigns, Assigned
  <1>3. \A i \in 0 .. Cardinality(labels) :
          Assigned(labels)[i]
            = IF i = 0 THEN Unassigned(labels)
              ELSE AssignIndex(Assigned(labels)[i - 1], Sorted(labels)[i])
    BY <1>2 DEF Assigns
  <1> QED
    BY <1>3

(* What holds after any number of labels, as long as an index was found    *)
(* for each: a label of digits has its number, another one an index that   *)
(* is no label's number, and no two share one.                             *)
Unshared(labels, acc) ==
  /\ DOMAIN acc.id \subseteq labels
  /\ IsInjective(acc.id)
  /\ \A l \in DOMAIN acc.id :
       /\ acc.id[l] \in acc.taken
       /\ HasIndex(l) => acc.id[l] = Decimal[l]
       /\ ~HasIndex(l) => acc.id[l] \notin Reserved(labels)
  /\ Reserved(labels) \subseteq acc.taken
  /\ acc.next \in Nat

(* An index that is found for a label without a number is free.            *)
LEMMA NextIndexIsFree ==
  ASSUME NEW taken, NEW from \in Nat, NextIndex(taken, from) # None
  PROVE  NextIndex(taken, from) \in Nat /\ NextIndex(taken, from) \notin taken
  <1> DEFINE free == {n \in from .. MaxSize : n \notin taken}
  <1>1. free # {} /\ free \subseteq Nat /\ NextIndex(taken, from) = Min(free)
    BY MaxSizeAssumption DEF NextIndex
  <1>2. Min(free) \in free
    BY <1>1, MinIsLeast
  <1> QED
    BY <1>1, <1>2

(* One more label keeps the indices apart.                                 *)
LEMMA AssignIndexUnshared ==
  ASSUME NEW labels, DistinctNumbers(labels), NEW acc, Unshared(labels, acc),
         "failed" \in DOMAIN acc, NEW l \in labels, l \notin DOMAIN acc.id,
         ~AssignIndex(acc, l).failed
  PROVE  /\ Unshared(labels, AssignIndex(acc, l))
         /\ DOMAIN AssignIndex(acc, l).id = DOMAIN acc.id \union {l}
  <1> DEFINE n == IF HasIndex(l) THEN Decimal[l] ELSE NextIndex(acc.taken, acc.next)
             id == [x \in DOMAIN acc.id \union {l} |-> IF x = l THEN n ELSE acc.id[x]]
             next == [id |-> id, taken |-> acc.taken \union {n},
                      next |-> IF HasIndex(l) THEN acc.next ELSE n, failed |-> FALSE]
  <1>1. n # None /\ AssignIndex(acc, l) = next
    BY DEF AssignIndex
  <1>2. HasIndex(l) => n \in Reserved(labels)
    BY DEF Reserved
  <1>3. ~HasIndex(l) => n \in Nat /\ n \notin acc.taken
    BY <1>1, NextIndexIsFree DEF Unshared
  <1>4. \A x \in DOMAIN acc.id : acc.id[x] # n
    <2> SUFFICES ASSUME NEW x \in DOMAIN acc.id PROVE acc.id[x] # n
      OBVIOUS
    <2>1. CASE ~HasIndex(l)
      BY <1>3, <2>1 DEF Unshared
    <2>2. CASE HasIndex(l) /\ HasIndex(x)
      BY <2>2 DEF Unshared, DistinctNumbers
    <2>3. CASE HasIndex(l) /\ ~HasIndex(x)
      BY <1>2, <2>3 DEF Unshared
    <2> QED
      BY <2>1, <2>2, <2>3
  <1>5. IsInjective(id)
    BY <1>4 DEF Unshared, IsInjective
  <1>6. \A x \in DOMAIN id : /\ id[x] \in acc.taken \union {n}
                             /\ HasIndex(x) => id[x] = Decimal[x]
                             /\ ~HasIndex(x) => id[x] \notin Reserved(labels)
    BY <1>3 DEF Unshared
  <1>7. next.next \in Nat
    BY <1>3 DEF Unshared
  <1>8. Unshared(labels, next)
    BY <1>5, <1>6, <1>7 DEF Unshared
  <1> QED
    BY <1>1, <1>8

(* The index of each label, when there is one for all of them.             *)
LEMMA IndicesAreUnshared ==
  ASSUME NEW labels, IsFiniteSet(labels), labels \subseteq ToSet(TextOrder),
         DistinctNumbers(labels), ~AssignIndices(labels).failed
  PROVE  LET id == AssignIndices(labels).id IN
         /\ DOMAIN id = labels /\ IsInjective(id)
         /\ \A l \in labels : HasIndex(l) => id[l] = Decimal[l]
  <1> DEFINE count == Cardinality(labels)
             order == Sorted(labels)
             acc == Assigned(labels)
             Listed(i) == {order[k] : k \in 1 .. i}
             Right(i) == /\ "failed" \in DOMAIN acc[i]
                         /\ acc[i].failed \/ /\ Unshared(labels, acc[i])
                                             /\ DOMAIN acc[i].id = Listed(i)
  <1>1. count \in Nat
    BY FS_CardinalityType
  <1>2. /\ acc[0] = Unassigned(labels)
        /\ \A i \in 1 .. count : acc[i] = AssignIndex(acc[i - 1], order[i])
    BY <1>1, AssignmentEquation
  <1>3. /\ \A i \in 1 .. count : order[i] \in labels
        /\ \A l \in labels : \E i \in 1 .. count : order[i] = l
        /\ \A i, k \in 1 .. count : order[i] = order[k] => i = k
    BY SortedListsLabels
  <1> HIDE DEF acc, order, count
  <1>4. Right(0)
    BY <1>2 DEF Unassigned, Unshared, IsInjective
  <1>5. ASSUME NEW i \in 1 .. count, Right(i - 1) PROVE Right(i)
    <2>1. acc[i] = AssignIndex(acc[i - 1], order[i]) /\ order[i] \in labels
      BY <1>2, <1>3
    <2>2. "failed" \in DOMAIN acc[i]
      BY <1>5, <2>1 DEF AssignIndex
    <2>3. CASE ~acc[i].failed
      <3>1. ~acc[i - 1].failed
        BY <1>5, <2>1, <2>3 DEF AssignIndex
      <3>2. order[i] \notin Listed(i - 1)
        BY <1>1, <1>3
      <3>3. /\ Unshared(labels, acc[i])
            /\ DOMAIN acc[i].id = Listed(i - 1) \union {order[i]}
        BY <1>5, <2>1, <2>3, <3>1, <3>2, AssignIndexUnshared
      <3>4. Listed(i) = Listed(i - 1) \union {order[i]}
        BY <1>1
      <3> QED
        BY <2>2, <3>3, <3>4
    <2> QED
      BY <2>2, <2>3
  <1>6. \A i \in 0 .. count : Right(i)
    <2> DEFINE T == {i \in 0 .. count : ~Right(i)}
    <2> HIDE DEF Right
    <2>1. SUFFICES ASSUME T # {} PROVE FALSE
      OBVIOUS
    <2>2. PICK i \in T : \A k \in T : i <= k
      <3>1. T \subseteq Nat
        OBVIOUS
      <3> QED
        BY <2>1, <3>1, LeastNumber
    <2>3. i # 0
      BY <1>4, <2>2
    <2>4. i - 1 \in 0 .. count /\ i - 1 \notin T
      BY <1>1, <2>2, <2>3
    <2> QED
      BY <1>1, <1>5, <2>2, <2>3, <2>4
  <1>7. AssignIndices(labels) = acc[count]
    BY DEF AssignIndices, acc, count
  <1>8. Unshared(labels, acc[count]) /\ DOMAIN acc[count].id = Listed(count)
    BY <1>1, <1>6, <1>7
  <1>9. Listed(count) = labels
    BY <1>3
  <1> QED
    BY <1>7, <1>8, <1>9 DEF Unshared

(* The sites of a document that could be parsed.                           *)
RightSites(device, sites) ==
  /\ IsInjective(sites.id)
  /\ \A l \in DOMAIN sites.id : IsDecimalSiteName(l) => sites.id[l] = Decimal[l]
  /\ ~sites.fullyConnected =>
       LET graph == device.connectivity.graph IN
       \A a, b \in DOMAIN sites.id :
         <<sites.id[a], sites.id[b]>> \in sites.coupling
           <=> a \in DOMAIN graph /\ b \in ToSet(graph[a])

(* The sites of a connectivity graph.                                      *)
LEMMA GraphSitesAreRight ==
  ASSUME NEW graph, NEW count, IsFiniteSet(GraphLabels(graph)),
         GraphLabels(graph) \subseteq ToSet(TextOrder), GraphSites(graph, count) # Fatal,
         NEW device, device.connectivity.graph = graph
  PROVE  RightSites(device, GraphSites(graph, count))
  <1> DEFINE labels == GraphLabels(graph)
             id == AssignIndices(labels).id
             edges == UNION {{l} \X ToSet(graph[l]) : l \in DOMAIN graph}
             coupling == {<<id[e[1]], id[e[2]]>> : e \in edges}
             sites == [id |-> id, fullyConnected |-> FALSE, coupling |-> coupling]
  <1>1. /\ ~(\E l \in labels : IsDecimalSiteName(l) /\ ~HasIndex(l))
        /\ DistinctNumbers(labels) /\ ~AssignIndices(labels).failed
        /\ GraphSites(graph, count) = sites
    BY DEF GraphSites
  <1>2. /\ DOMAIN id = labels /\ IsInjective(id)
        /\ \A l \in labels : HasIndex(l) => id[l] = Decimal[l]
    BY <1>1, IndicesAreUnshared
  <1>3. \A a, b : <<a, b>> \in edges <=> a \in DOMAIN graph /\ b \in ToSet(graph[a])
    OBVIOUS
  <1>4. \A e \in edges : e = <<e[1], e[2]>> /\ e[1] \in labels /\ e[2] \in labels
    BY DEF GraphLabels
  <1> HIDE DEF id, edges, labels
  <1>5. ASSUME NEW a \in labels, NEW b \in labels
        PROVE  <<id[a], id[b]>> \in coupling <=> <<a, b>> \in edges
    <2>1. ASSUME NEW e \in edges, <<id[a], id[b]>> = <<id[e[1]], id[e[2]]>>
          PROVE  e = <<a, b>>
      <3>1. id[a] = id[e[1]] /\ id[b] = id[e[2]]
        BY <2>1
      <3>2. a = e[1] /\ b = e[2]
        BY <1>2, <1>4, <3>1 DEF IsInjective
      <3> QED
        BY <1>4, <3>2
    <2>2. ASSUME <<a, b>> \in edges PROVE <<id[a], id[b]>> \in coupling
      <3>1. <<id[a], id[b]>> = <<id[<<a, b>>[1]], id[<<a, b>>[2]]>>
        OBVIOUS
      <3> QED
        BY <2>2, <3>1
    <2> QED
      BY <2>1, <2>2
  <1> HIDE DEF coupling
  <1>6. RightSites(device, sites)
    BY <1>1, <1>2, <1>3, <1>5 DEF RightSites, labels
  <1> QED
    BY <1>1, <1>6

(* The sites of a device that is fully connected.                          *)
LEMMA NumberedSitesAreRight ==
  ASSUME NEW count \in Int, count <= MaxSize, NEW device
  PROVE  RightSites(device, NumberedSites(count))
  <1> DEFINE numbers == 0 .. count - 1
             id == NumberedSites(count).id
             Number(l) == CHOOSE n \in numbers : ToString(n) = l
  <1>1. /\ DOMAIN id = {ToString(n) : n \in numbers}
        /\ \A l \in DOMAIN id : id[l] = Number(l)
        /\ NumberedSites(count).fullyConnected
    BY DEF NumberedSites
  <1>2. \A l \in DOMAIN id : id[l] \in numbers /\ ToString(id[l]) = l
    <2> SUFFICES ASSUME NEW l \in DOMAIN id PROVE id[l] \in numbers /\ ToString(id[l]) = l
      OBVIOUS
    <2>1. \E n \in numbers : ToString(n) = l
      BY <1>1
    <2>2. Number(l) \in numbers /\ ToString(Number(l)) = l
      BY <2>1
    <2> QED
      BY <1>1, <2>2
  <1> HIDE DEF id
  <1>3. IsInjective(id)
    BY <1>2 DEF IsInjective
  <1>4. \A l \in DOMAIN id : IsDecimalSiteName(l) => id[l] = Decimal[l]
    <2> SUFFICES ASSUME NEW l \in DOMAIN id, IsDecimalSiteName(l) PROVE id[l] = Decimal[l]
      OBVIOUS
    <2>1. id[l] \in 0 .. MaxSize
      BY <1>2, MaxSizeAssumption
    <2> QED
      BY <1>2, <2>1, DecimalAssumption DEF IsDecimalSiteName
  <1> QED
    BY <1>1, <1>3, <1>4 DEF RightSites, id

(* Either way the sites are those of the document.                         *)
LEMMA ParsedSites ==
  ASSUME NEW device \in Devices, ParseSitesAndConnectivity(device) # Fatal
  PROVE  RightSites(device, ParseSitesAndConnectivity(device))
  <1>1. device.qubitCount \in Int /\ device.qubitCount <= MaxSize
    BY DevicesAssumption
  <1>2. CASE FullyConnected(device)
    <2>1. ParseSitesAndConnectivity(device) = NumberedSites(device.qubitCount)
      BY <1>2 DEF ParseSitesAndConnectivity
    <2> QED
      BY <1>1, <2>1, NumberedSitesAreRight
  <1>3. CASE ~FullyConnected(device)
    <2> DEFINE graph == device.connectivity.graph
    <2>1. device.connectivity # None
      BY <1>3 DEF FullyConnected, ParseSitesAndConnectivity
    <2>2. /\ graph # None
          /\ ParseSitesAndConnectivity(device) = GraphSites(graph, device.qubitCount)
      BY <1>3 DEF ParseSitesAndConnectivity
    <2>3. IsFiniteSet(GraphLabels(graph)) /\ GraphLabels(graph) \subseteq ToSet(TextOrder)
      BY <2>1, <2>2, DevicesAssumption
    <2> QED
      BY <2>2, <2>3, GraphSitesAreRight
  <1> QED
    BY <1>2, <1>3

(* What the architecture of a parsed document keeps of its sites.          *)
LEMMA ParsedArchitecture ==
  ASSUME NEW device \in Devices, NEW a, a = ParseProperties(device),
         a \notin {Fatal, NotSupported}
  PROVE  LET sites == ParseSitesAndConnectivity(device) IN
         /\ RightSites(device, sites)
         /\ a.sites = sites.id /\ a.fullyConnected = sites.fullyConnected
         /\ \A o \in a.native \union a.supported : a.sitesOf[o] = OperationSites(o, sites)
         /\ a.fidelities
              = ParseOperationFidelities(device, sites.id, a.native \union a.supported)
  <1> DEFINE sites == ParseSitesAndConnectivity(device)
             operations == ParseOperations(device)
             names == operations.native \union operations.supported
  <1>1. sites # Fatal
    BY DEF ParseProperties
  <1>2. RightSites(device, sites)
    BY <1>1, ParsedSites
  <1>3. /\ a.sites = sites.id /\ a.fullyConnected = sites.fullyConnected
        /\ a.native = operations.native /\ a.supported = operations.supported
        /\ a.sitesOf = [o \in names |-> OperationSites(o, sites)]
        /\ a.fidelities = ParseOperationFidelities(device, sites.id, names)
    BY DEF ParseProperties
  <1> HIDE DEF sites, operations
  <1> QED
    BY <1>2, <1>3 DEF sites

(* The device's document does not change.                                  *)
DeviceInv == caps \in Devices /\ arch = ParseProperties(caps)

(* No call replaces the document or what was made of it.                   *)
LEMMA DeviceInvariance == Spec => []DeviceInv
  <1>1. Init => DeviceInv
    BY DEF Init, DeviceInv
  <1>2. DeviceInv /\ [Next]_vars => DeviceInv'
    BY DEF DeviceInv, Next, SetPrograms, SetShots, Submit, ServiceRuns, Read, Reopen, vars
  <1> QED
    BY <1>1, <1>2, PTL DEF Spec

(* Whatever labels a document has, no two sites of the device are the same *)
(* site of a program, $3 of a program is the site the provider calls 3,    *)
(* and two-qubit operations apply to the pairs of the document's graph.    *)
THEOREM ProgramIndices == Spec => []SitesAreProgramIndices
  <1>1. DeviceInv => SitesAreProgramIndices
    <2> SUFFICES ASSUME DeviceInv, Parsed PROVE SitesAreProgramIndices
      BY DEF SitesAreProgramIndices
    <2> DEFINE sites == ParseSitesAndConnectivity(caps)
    <2>1. /\ RightSites(caps, sites)
          /\ arch.sites = sites.id /\ arch.fullyConnected = sites.fullyConnected
          /\ \A o \in arch.native \union arch.supported :
               arch.sitesOf[o] = OperationSites(o, sites)
      BY ParsedArchitecture DEF DeviceInv, Parsed
    <2> HIDE DEF sites
    <2>2. /\ IsInjective(arch.sites)
          /\ \A l \in DOMAIN arch.sites :
               IsDecimalSiteName(l) => arch.sites[l] = Decimal[l]
      BY <2>1 DEF RightSites
    <2>3. ASSUME NEW a \in DOMAIN arch.sites, NEW b \in DOMAIN arch.sites,
                 NEW o \in arch.native, Qubits(o) = 2, ~arch.fullyConnected
          PROVE  LET graph == caps.connectivity.graph IN
                 <<arch.sites[a], arch.sites[b]>> \in arch.sitesOf[o]
                   <=> a \in DOMAIN graph /\ b \in ToSet(graph[a])
      <3>1. arch.sitesOf[o] = OperationSites(o, sites)
        BY <2>1
      <3>2. OperationSites(o, sites) = sites.coupling
        BY <2>1, <2>3 DEF OperationSites
      <3> QED
        BY <2>1, <2>3, <3>1, <3>2 DEF RightSites
    <2> QED
      BY <2>2, <2>3 DEF SitesAreProgramIndices
  <1> QED
    BY <1>1, DeviceInvariance, PTL

(* An entry of the document gives the fidelity of an operation on a pair.  *)
Gives(e, g, a, b) ==
  /\ e.gate = g /\ e.value # None
  /\ \/ FidelityPair(e) = <<a, b>>
     \/ e.direction = None /\ FidelityPair(e) = <<b, a>>

(* An entry is looked up for exactly the pairs it gives a fidelity for.    *)
LEMMA EntryGives ==
  ASSUME NEW e, e.pair = <<e.pair[1], e.pair[2]>>, NEW ids, IsInjective(ids), NEW names,
         NEW g \in names, NEW a \in DOMAIN ids, NEW b \in DOMAIN ids
  PROVE  e.gate = g /\ <<ids[a], ids[b]>> \in FidelitySites(e, ids, names)
           <=> Gives(e, g, a, b)
  <1> DEFINE p == FidelityPair(e)[1]
             q == FidelityPair(e)[2]
             known == /\ e.gate \in names /\ e.value # None
                      /\ p \in DOMAIN ids /\ q \in DOMAIN ids
  <1>1. FidelityPair(e) = <<p, q>>
    BY DEF FidelityPair
  <1>2. FidelitySites(e, ids, names)
          = IF known THEN Directions(e, <<ids[p], ids[q]>>) ELSE {}
    BY DEF FidelitySites
  <1> HIDE DEF p, q
  <1>3. ASSUME e.gate = g, <<ids[a], ids[b]>> \in FidelitySites(e, ids, names)
        PROVE  Gives(e, g, a, b)
    <2>1. known /\ <<ids[a], ids[b]>> \in Directions(e, <<ids[p], ids[q]>>)
      BY <1>2, <1>3
    <2>2. \/ ids[a] = ids[p] /\ ids[b] = ids[q]
          \/ e.direction = None /\ ids[a] = ids[q] /\ ids[b] = ids[p]
      BY <2>1 DEF Directions
    <2>3. \/ a = p /\ b = q
          \/ e.direction = None /\ a = q /\ b = p
      BY <2>1, <2>2 DEF IsInjective
    <2> QED
      BY <1>1, <1>3, <2>1, <2>3 DEF Gives
  <1>4. ASSUME Gives(e, g, a, b)
        PROVE  e.gate = g /\ <<ids[a], ids[b]>> \in FidelitySites(e, ids, names)
    <2>1. \/ a = p /\ b = q
          \/ e.direction = None /\ a = q /\ b = p
      BY <1>1, <1>4 DEF Gives
    <2>2. known
      BY <1>4, <2>1 DEF Gives
    <2>3. <<ids[a], ids[b]>> \in Directions(e, <<ids[p], ids[q]>>)
      BY <2>1 DEF Directions
    <2> QED
      BY <1>2, <1>4, <2>2, <2>3 DEF Gives
  <1> QED
    BY <1>3, <1>4

(* A fidelity that is reported for an operation on two sites is one the    *)
(* document gives for them, and one that has a direction is never reported *)
(* for the other; what the document gives is reported.                     *)
THEOREM Fidelities == Spec => []FidelityIsTheDevices
  <1>1. DeviceInv => FidelityIsTheDevices
    <2> SUFFICES ASSUME DeviceInv, Parsed,
                        NEW a \in DOMAIN arch.sites, NEW b \in DOMAIN arch.sites,
                        NEW g \in arch.native \union arch.supported
                 PROVE  LET value == FidelityOf(arch, g, <<arch.sites[a], arch.sites[b]>>) IN
                        IF value = None
                        THEN ~\E e \in ToSet(caps.fidelities) : Gives(e, g, a, b)
                        ELSE \E e \in ToSet(caps.fidelities) :
                               Gives(e, g, a, b) /\ e.value = value
      BY DEF FidelityIsTheDevices, Gives
    <2> DEFINE given == caps.fidelities
               parsed == arch.fidelities
               pair == <<arch.sites[a], arch.sites[b]>>
               Fits(i) == parsed[i].gate = g /\ pair \in parsed[i].sites
               fitting == {i \in 1 .. Len(parsed) : Fits(i)}
               names == arch.native \union arch.supported
    <2>1. /\ parsed = ParseOperationFidelities(caps, arch.sites, names)
          /\ IsInjective(arch.sites)
      BY ParsedArchitecture DEF DeviceInv, Parsed, RightSites
    <2>2. /\ DOMAIN given = 1 .. Len(given)
          /\ \A i \in DOMAIN given : given[i].pair = <<given[i].pair[1], given[i].pair[2]>>
      BY DevicesAssumption DEF DeviceInv, ToSet
    <2>3. DOMAIN parsed = DOMAIN given /\ Len(parsed) = Len(given)
      BY <2>1, <2>2 DEF ParseOperationFidelities
    <2>4. \A i \in DOMAIN given : /\ parsed[i].value = given[i].value
                                  /\ Fits(i) <=> Gives(given[i], g, a, b)
      <3> SUFFICES ASSUME NEW i \in DOMAIN given
                   PROVE  /\ parsed[i].value = given[i].value
                          /\ Fits(i) <=> Gives(given[i], g, a, b)
        OBVIOUS
      <3>1. parsed[i] = [gate |-> given[i].gate, value |-> given[i].value,
                         sites |-> FidelitySites(given[i], arch.sites, names)]
        BY <2>1 DEF ParseOperationFidelities
      <3>2. g \in names /\ given[i].pair = <<given[i].pair[1], given[i].pair[2]>>
        BY <2>2
      <3> HIDE DEF given, parsed, names
      <3>3. given[i].gate = g /\ pair \in FidelitySites(given[i], arch.sites, names)
              <=> Gives(given[i], g, a, b)
        BY <2>1, <3>2, EntryGives
      <3> QED
        BY <3>1, <3>3
    <2>5. fitting # {} => Min(fitting) \in fitting
      <3>1. fitting \subseteq Nat
        OBVIOUS
      <3> HIDE DEF fitting
      <3> QED
        BY <3>1, MinIsLeast
    <2>6. FidelityOf(arch, g, pair)
            = IF fitting = {} THEN None ELSE parsed[Min(fitting)].value
      <3> DEFINE i == IF fitting # {} THEN Min(fitting) ELSE 0
      <3>1. FidelityOf(arch, g, pair) = IF i = 0 THEN None ELSE parsed[i].value
        BY DEF FidelityOf, SelectInSeq
      <3>2. fitting # {} => Min(fitting) # 0
        BY <2>5
      <3> HIDE DEF fitting
      <3> QED
        BY <3>1, <3>2
    <2> HIDE DEF given, parsed, pair, Fits
    <2>7. CASE fitting = {}
      BY <2>2, <2>3, <2>4, <2>6, <2>7 DEF ToSet, given, pair
    <2>8. CASE fitting # {}
      <3>1. Min(fitting) \in fitting
        BY <2>5, <2>8
      <3> DEFINE e == given[Min(fitting)]
      <3>2. e \in ToSet(given) /\ Gives(e, g, a, b) /\ parsed[Min(fitting)].value = e.value
        BY <2>2, <2>3, <2>4, <3>1 DEF ToSet
      <3>3. e.value # None
        BY <3>2 DEF Gives
      <3> QED
        BY <2>6, <2>8, <3>2, <3>3 DEF given, pair
    <2> QED
      BY <2>7, <2>8
  <1> QED
    BY <1>1, DeviceInvariance, PTL

-----------------------------------------------------------------------------
(* Selections.  What holds for the first statement and is kept by each     *)
(* holds after any number of them.                                         *)
LEMMA UpTo ==
  ASSUME NEW n \in Nat, NEW T, 0 \in T, \A k \in 1 .. n : k - 1 \in T => k \in T
  PROVE  \A k \in 0 .. n : k \in T
  <1> DEFINE F == {k \in 0 .. n : k \notin T}
  <1>1. SUFFICES ASSUME F # {} PROVE FALSE
    OBVIOUS
  <1>2. PICK k \in F : \A m \in F : k <= m
    <2>1. F \subseteq Nat
      OBVIOUS
    <2> QED
      BY <1>1, <2>1, LeastNumber
  <1>3. k \in 1 .. n /\ k - 1 \in 0 .. n /\ k - 1 \notin F
    BY <1>2
  <1> QED
    BY <1>2, <1>3

(* The function f selects the statements in S among the first n of p.      *)
SelectsTo(p, S, n, f) ==
  f = [k \in 0 .. n |-> IF k = 0 THEN <<>>
                        ELSE IF p[k] \in S THEN Append(f[k - 1], p[k]) ELSE f[k - 1]]

(* Selected satisfies its equation.                                        *)
LEMMA SelectedEquation ==
  ASSUME NEW p, NEW S, Len(p) \in Nat
  PROVE  /\ Selected(p, S)[0] = <<>>
         /\ \A n \in 1 .. Len(p) :
              Selected(p, S)[n] = IF p[n] \in S THEN Append(Selected(p, S)[n - 1], p[n])
                                  ELSE Selected(p, S)[n - 1]
  <1> DEFINE T == {k \in 0 .. Len(p) : \E f : SelectsTo(p, S, k, f)}
  <1>1. 0 \in T
    <2>1. SelectsTo(p, S, 0, [m \in 0 .. 0 |-> <<>>])
      BY DEF SelectsTo
    <2> QED
      BY <2>1
  <1>2. ASSUME NEW k \in 1 .. Len(p), k - 1 \in T PROVE k \in T
    <2>1. PICK f : SelectsTo(p, S, k - 1, f)
      BY <1>2
    <2> DEFINE next == IF p[k] \in S THEN Append(f[k - 1], p[k]) ELSE f[k - 1]
               g == [m \in 0 .. k |-> IF m = k THEN next ELSE f[m]]
    <2>2. \A m \in 0 .. k - 1 :
            f[m] = IF m = 0 THEN <<>>
                   ELSE IF p[m] \in S THEN Append(f[m - 1], p[m]) ELSE f[m - 1]
      BY <2>1 DEF SelectsTo
    <2>3. \A m \in 0 .. k :
            g[m] = IF m = 0 THEN <<>>
                   ELSE IF p[m] \in S THEN Append(g[m - 1], p[m]) ELSE g[m - 1]
      BY <2>2
    <2>4. SelectsTo(p, S, k, g)
      BY <2>3 DEF SelectsTo
    <2> QED
      BY <2>4
  <1>3. \E f : SelectsTo(p, S, Len(p), f)
    <2>1. \A k \in 1 .. Len(p) : k - 1 \in T => k \in T
      BY <1>2
    <2> HIDE DEF T
    <2>2. \A k \in 0 .. Len(p) : k \in T
      BY <1>1, <2>1, UpTo
    <2> USE DEF T
    <2> QED
      BY <2>2
  <1>4. SelectsTo(p, S, Len(p), Selected(p, S))
    BY <1>3 DEF SelectsTo, Selected
  <1>5. \A n \in 0 .. Len(p) :
          Selected(p, S)[n]
            = IF n = 0 THEN <<>>
              ELSE IF p[n] \in S THEN Append(Selected(p, S)[n - 1], p[n])
              ELSE Selected(p, S)[n - 1]
    BY <1>4 DEF SelectsTo
  <1> QED
    BY <1>5

(* What is selected is from both the program and the set.                  *)
LEMMA SelectedIsSeq ==
  ASSUME NEW X, NEW p \in Seq(X), NEW S
  PROVE  /\ \A n \in 0 .. Len(p) : Selected(p, S)[n] \in Seq(X \intersect S)
         /\ Selection(p, S) \in Seq(X \intersect S)
  <1> DEFINE Y == X \intersect S
             f == Selected(p, S)
             T == {n \in 0 .. Len(p) : f[n] \in Seq(Y)}
  <1>1. /\ Len(p) \in Nat /\ \A n \in 1 .. Len(p) : p[n] \in X
        /\ \A x : x \in Y <=> x \in X /\ x \in S
    OBVIOUS
  <1>2. f[0] = <<>> /\ \A n \in 1 .. Len(p) :
          f[n] = IF p[n] \in S THEN Append(f[n - 1], p[n]) ELSE f[n - 1]
    BY <1>1, SelectedEquation
  <1> HIDE DEF f, Y
  <1>3. 0 \in T
    <2>1. 0 \in 0 .. Len(p) /\ f[0] \in Seq(Y)
      BY <1>1, <1>2
    <2> QED
      BY <2>1, Zenon
  <1>4. ASSUME NEW k \in 1 .. Len(p), k - 1 \in T PROVE k \in T
    <2>1. f[k - 1] \in Seq(Y) /\ k \in 0 .. Len(p)
      BY <1>1, <1>4
    <2>2. f[k] = IF p[k] \in S THEN Append(f[k - 1], p[k]) ELSE f[k - 1]
      BY <1>2
    <2>3. p[k] \in S => Append(f[k - 1], p[k]) \in Seq(Y)
      BY <1>1, <2>1, AppendProperties
    <2>4. f[k] \in Seq(Y)
      BY <2>1, <2>2, <2>3, Zenon
    <2> QED
      BY <2>1, <2>4, Zenon
  <1>5. \A k \in 1 .. Len(p) : k - 1 \in T => k \in T
    BY <1>4
  <1> HIDE DEF T
  <1>6. \A n \in 0 .. Len(p) : n \in T
    BY <1>1, <1>3, <1>5, UpTo
  <1> QED
    BY <1>1, <1>6 DEF Selection, T, f, Y

(* Concatenation and Append by names the provers do not look into.         *)
Joined(a, b) == a \o b
Longer(a, x) == Append(a, x)

(* To append to the second of two sequences is to append to both.          *)
LEMMA AppendConcat ==
  ASSUME NEW X, NEW a \in Seq(X), NEW b \in Seq(X), NEW x \in X
  PROVE  Longer(Joined(a, b), x) = Joined(a, Longer(b, x))
  <1> DEFINE ab == a \o b
             bx == Append(b, x)
             l == Append(ab, x)
             r == a \o bx
  <1>1. /\ Len(a) \in Nat /\ Len(b) \in Nat
        /\ ab \in Seq(X) /\ Len(ab) = Len(a) + Len(b)
        /\ \A i \in 1 .. Len(a) + Len(b) :
             ab[i] = IF i <= Len(a) THEN a[i] ELSE b[i - Len(a)]
    BY ConcatProperties
  <1>2. /\ bx \in Seq(X) /\ Len(bx) = Len(b) + 1 /\ bx[Len(b) + 1] = x
        /\ \A i \in 1 .. Len(b) : bx[i] = b[i]
    BY AppendProperties
  <1> HIDE DEF ab, bx
  <1>3. /\ l \in Seq(X) /\ Len(l) = Len(ab) + 1 /\ l[Len(ab) + 1] = x
        /\ \A i \in 1 .. Len(ab) : l[i] = ab[i]
    BY <1>1, AppendProperties
  <1>4. /\ r \in Seq(X) /\ Len(r) = Len(a) + Len(bx)
        /\ \A i \in 1 .. Len(a) + Len(bx) :
             r[i] = IF i <= Len(a) THEN a[i] ELSE bx[i - Len(a)]
    BY <1>2, ConcatProperties
  <1> HIDE DEF l, r
  <1>5. ASSUME NEW i \in 1 .. Len(l) PROVE l[i] = r[i]
    <2>1. CASE i = Len(a) + Len(b) + 1
      BY <1>1, <1>2, <1>3, <1>4, <2>1
    <2>2. CASE i \in 1 .. Len(a) + Len(b)
      <3>1. l[i] = IF i <= Len(a) THEN a[i] ELSE b[i - Len(a)]
        BY <1>1, <1>3, <2>2
      <3>2. r[i] = IF i <= Len(a) THEN a[i] ELSE bx[i - Len(a)]
        BY <1>1, <1>2, <1>4, <2>2
      <3>3. ~(i <= Len(a)) => bx[i - Len(a)] = b[i - Len(a)]
        BY <1>1, <1>2, <2>2
      <3> QED
        BY <3>1, <3>2, <3>3
    <2>3. Len(l) = Len(a) + Len(b) + 1 /\ i \in Nat
      BY <1>1, <1>3
    <2>4. i = Len(a) + Len(b) + 1 \/ i \in 1 .. Len(a) + Len(b)
      BY <1>1, <2>3
    <2> QED
      BY <2>1, <2>2, <2>4
  <1>6. l = r
    BY <1>1, <1>2, <1>3, <1>4, <1>5, SeqEqual
  <1> QED
    BY <1>6 DEF Longer, Joined, l, r, ab, bx

(* Of two programs in a row, the selections in a row.                      *)
LEMMA SelectionConcat ==
  ASSUME NEW X, NEW p \in Seq(X), NEW q \in Seq(X), NEW S
  PROVE  Selection(p \o q, S) = Selection(p, S) \o Selection(q, S)
  <1> DEFINE pq == p \o q
             f == Selected(p, S)
             g == Selected(q, S)
             h == Selected(pq, S)
             T == {n \in 0 .. Len(p) : h[n] = f[n]}
             U == {n \in 0 .. Len(q) : h[Len(p) + n] = f[Len(p)] \o g[n]}
  <1>1. /\ Len(p) \in Nat /\ Len(q) \in Nat /\ Len(pq) = Len(p) + Len(q)
        /\ \A n \in 1 .. Len(p) : pq[n] = p[n]
        /\ \A n \in 1 .. Len(q) : pq[Len(p) + n] = q[n] /\ q[n] \in X
    OBVIOUS
  <1> HIDE DEF pq
  <1>2. f[0] = <<>> /\ \A n \in 1 .. Len(p) :
          f[n] = IF p[n] \in S THEN Append(f[n - 1], p[n]) ELSE f[n - 1]
    BY <1>1, SelectedEquation
  <1>3. g[0] = <<>> /\ \A n \in 1 .. Len(q) :
          g[n] = IF q[n] \in S THEN Append(g[n - 1], q[n]) ELSE g[n - 1]
    BY <1>1, SelectedEquation
  <1>4. h[0] = <<>> /\ \A n \in 1 .. Len(pq) :
          h[n] = IF pq[n] \in S THEN Append(h[n - 1], pq[n]) ELSE h[n - 1]
    BY <1>1, SelectedEquation
  <1>5. f[Len(p)] \in Seq(X) /\ \A n \in 0 .. Len(q) : g[n] \in Seq(X)
    <2>1. \A s \in Seq(X \intersect S) : s \in Seq(X)
      BY SeqMonotonic
    <2>2. Len(p) \in 0 .. Len(p)
      BY <1>1
    <2>3. /\ \A n \in 0 .. Len(p) : f[n] \in Seq(X \intersect S)
          /\ \A n \in 0 .. Len(q) : g[n] \in Seq(X \intersect S)
      BY SelectedIsSeq
    <2> QED
      BY <2>1, <2>2, <2>3, Zenon
  <1> HIDE DEF f, g, h
  <1>6. \A n \in 0 .. Len(p) : n \in T
    <2>1. 0 \in T
      BY <1>1, <1>2, <1>4
    <2>2. \A k \in 1 .. Len(p) : k - 1 \in T => k \in T
      BY <1>1, <1>2, <1>4
    <2> HIDE DEF T
    <2> QED
      BY <1>1, <2>1, <2>2, UpTo
  <1>7. \A n \in 0 .. Len(q) : n \in U
    <2>1. 0 \in U
      <3>1. h[Len(p)] = f[Len(p)] /\ g[0] = <<>> /\ f[Len(p)] \o <<>> = f[Len(p)]
        BY <1>1, <1>3, <1>5, <1>6, ConcatEmptySeq
      <3>2. 0 \in 0 .. Len(q) /\ h[Len(p) + 0] = f[Len(p)] \o g[0]
        BY <1>1, <3>1
      <3> QED
        BY <3>2, Zenon
    <2>2. ASSUME NEW k \in 1 .. Len(q), k - 1 \in U PROVE k \in U
      <3>1. /\ h[Len(p) + k] = IF q[k] \in S THEN Append(h[Len(p) + (k - 1)], q[k])
                               ELSE h[Len(p) + (k - 1)]
            /\ g[k] = IF q[k] \in S THEN Append(g[k - 1], q[k]) ELSE g[k - 1]
        BY <1>1, <1>3, <1>4
      <3>2. q[k] \in X /\ g[k - 1] \in Seq(X) /\ k \in 0 .. Len(q)
        BY <1>1, <1>5
      <3>3. h[Len(p) + (k - 1)] = f[Len(p)] \o g[k - 1]
        BY <2>2
      <3>4. Longer(Joined(f[Len(p)], g[k - 1]), q[k])
              = Joined(f[Len(p)], Longer(g[k - 1], q[k]))
        BY <1>5, <3>2, AppendConcat
      <3>5. h[Len(p) + k] = f[Len(p)] \o g[k]
        BY <3>1, <3>3, <3>4, Zenon DEF Longer, Joined
      <3> QED
        BY <3>2, <3>5
    <2>3. \A k \in 1 .. Len(q) : k - 1 \in U => k \in U
      BY <2>2
    <2> HIDE DEF U
    <2> QED
      BY <1>1, <2>1, <2>3, UpTo
  <1>8. h[Len(pq)] = f[Len(p)] \o g[Len(q)]
    <2>1. Len(q) \in 0 .. Len(q)
      BY <1>1
    <2>2. h[Len(p) + Len(q)] = f[Len(p)] \o g[Len(q)]
      BY <1>7, <2>1, Zenon
    <2> QED
      BY <1>1, <2>2
  <1> QED
    BY <1>8 DEF Selection, f, g, h, pq

(* What decides is which statements of the program are in the set.         *)
LEMMA SelectionAgrees ==
  ASSUME NEW X, NEW p \in Seq(X), NEW S, NEW R,
         \A s \in ToSet(p) : s \in S <=> s \in R
  PROVE  Selection(p, S) = Selection(p, R)
  <1> DEFINE f == Selected(p, S)
             g == Selected(p, R)
             T == {n \in 0 .. Len(p) : f[n] = g[n]}
  <1>1. Len(p) \in Nat /\ \A n \in 1 .. Len(p) : p[n] \in S <=> p[n] \in R
    BY DEF ToSet
  <1>2. f[0] = <<>> /\ \A n \in 1 .. Len(p) :
          f[n] = IF p[n] \in S THEN Append(f[n - 1], p[n]) ELSE f[n - 1]
    BY <1>1, SelectedEquation
  <1>3. g[0] = <<>> /\ \A n \in 1 .. Len(p) :
          g[n] = IF p[n] \in R THEN Append(g[n - 1], p[n]) ELSE g[n - 1]
    BY <1>1, SelectedEquation
  <1> HIDE DEF f, g
  <1>4. 0 \in T
    BY <1>1, <1>2, <1>3
  <1>5. \A k \in 1 .. Len(p) : k - 1 \in T => k \in T
    BY <1>1, <1>2, <1>3
  <1> HIDE DEF T
  <1>6. \A n \in 0 .. Len(p) : n \in T
    BY <1>1, <1>4, <1>5, UpTo
  <1> QED
    BY <1>1, <1>6 DEF Selection, T, f, g

(* All statements of a program, or none.                                   *)
LEMMA SelectionOfAll ==
  ASSUME NEW X, NEW p \in Seq(X), NEW S, \A s \in ToSet(p) : s \in S
  PROVE  Selection(p, S) = p
  <1> DEFINE f == Selected(p, S)
             T == {n \in 0 .. Len(p) : f[n] \in Seq(X) /\ Len(f[n]) = n
                                       /\ \A i \in 1 .. n : f[n][i] = p[i]}
  <1>1. Len(p) \in Nat /\ \A n \in 1 .. Len(p) : p[n] \in S /\ p[n] \in X
    BY DEF ToSet
  <1>2. f[0] = <<>> /\ \A n \in 1 .. Len(p) :
          f[n] = IF p[n] \in S THEN Append(f[n - 1], p[n]) ELSE f[n - 1]
    BY <1>1, SelectedEquation
  <1> HIDE DEF f
  <1>3. 0 \in T
    <2>1. /\ 0 \in 0 .. Len(p) /\ f[0] \in Seq(X) /\ Len(f[0]) = 0
          /\ \A i \in 1 .. 0 : f[0][i] = p[i]
      BY <1>1, <1>2
    <2> QED
      BY <2>1, Zenon
  <1>4. ASSUME NEW k \in 1 .. Len(p), k - 1 \in T PROVE k \in T
    <2>1. f[k] = Append(f[k - 1], p[k]) /\ p[k] \in X /\ k \in 0 .. Len(p)
      <3>1. f[k] = IF p[k] \in S THEN Append(f[k - 1], p[k]) ELSE f[k - 1]
        BY <1>2
      <3>2. p[k] \in S /\ p[k] \in X /\ k \in 0 .. Len(p)
        BY <1>1
      <3> QED
        BY <3>1, <3>2, Zenon
    <2>2. f[k - 1] \in Seq(X) /\ Len(f[k - 1]) = k - 1
          /\ \A i \in 1 .. k - 1 : f[k - 1][i] = p[i]
      BY <1>4
    <2>3. f[k] \in Seq(X) /\ Len(f[k]) = k /\ f[k][k] = p[k]
          /\ \A i \in 1 .. k - 1 : f[k][i] = p[i]
      BY <2>1, <2>2, AppendProperties
    <2>4. \A i \in 1 .. k : f[k][i] = p[i]
      BY <2>3
    <2> QED
      BY <2>1, <2>3, <2>4, Zenon
  <1>5. \A k \in 1 .. Len(p) : k - 1 \in T => k \in T
    BY <1>4
  <1>6. Len(p) \in T
    <2> HIDE DEF T
    <2>1. \A n \in 0 .. Len(p) : n \in T
      BY <1>1, <1>3, <1>5, UpTo
    <2> QED
      BY <1>1, <2>1
  <1>7. Selection(p, S) = f[Len(p)]
    BY DEF Selection, f
  <1> QED
    BY <1>6, <1>7, SeqEqual

(* Nothing is selected where nothing is in the set.                        *)
LEMMA SelectionOfNone ==
  ASSUME NEW X, NEW p \in Seq(X), NEW S, \A s \in ToSet(p) : s \notin S
  PROVE  Selection(p, S) = <<>>
  <1>1. Selection(p, S) \in Seq(X \intersect S) /\ Selection(p, {}) \in Seq(X \intersect {})
    BY SelectedIsSeq
  <1>2. Selection(p, S) = Selection(p, {})
    BY SelectionAgrees
  <1>3. X \intersect {} = {} /\ \A s \in Seq({}) : s = <<>>
    BY EmptySeq, ElementOfSeq
  <1> QED
    BY <1>1, <1>2, <1>3

(* To select from a selection is to select once.                           *)
LEMMA SelectionTwice ==
  ASSUME NEW X, NEW p \in Seq(X), NEW S, NEW R
  PROVE  Selection(Selection(p, S), R) = Selection(p, S \intersect R)
  <1> DEFINE f == Selected(p, S)
             g == Selected(p, S \intersect R)
             T == {n \in 0 .. Len(p) : Selection(f[n], R) = g[n]}
  <1>1. Len(p) \in Nat /\ \A n \in 1 .. Len(p) : p[n] \in X
    OBVIOUS
  <1>2. f[0] = <<>> /\ \A n \in 1 .. Len(p) :
          f[n] = IF p[n] \in S THEN Append(f[n - 1], p[n]) ELSE f[n - 1]
    BY <1>1, SelectedEquation
  <1>3. g[0] = <<>> /\ \A n \in 1 .. Len(p) :
          g[n] = IF p[n] \in S \intersect R THEN Append(g[n - 1], p[n]) ELSE g[n - 1]
    BY <1>1, SelectedEquation
  <1>4. /\ \A n \in 0 .. Len(p) : f[n] \in Seq(X) /\ g[n] \in Seq(X)
        /\ Selection(p, S) = f[Len(p)] /\ Selection(p, S \intersect R) = g[Len(p)]
    <2>1. /\ \A s \in Seq(X \intersect S) : s \in Seq(X)
          /\ \A s \in Seq(X \intersect (S \intersect R)) : s \in Seq(X)
      BY SeqMonotonic
    <2> QED
      BY <2>1, SelectedIsSeq DEF Selection
  <1> HIDE DEF f, g
  <1>5. 0 \in T
    <2>1. <<>> \in Seq(X) /\ \A s \in ToSet(<<>>) : s \notin R
      BY EmptySeq DEF ToSet
    <2>2. Selection(<<>>, R) = <<>>
      BY <2>1, SelectionOfNone
    <2> QED
      BY <1>1, <1>2, <1>3, <2>2
  <1>6. ASSUME NEW k \in 1 .. Len(p), k - 1 \in T PROVE k \in T
    <2>1. f[k - 1] \in Seq(X) /\ g[k - 1] \in Seq(X) /\ p[k] \in X
          /\ Selection(f[k - 1], R) = g[k - 1]
      BY <1>1, <1>4, <1>6
    <2>2. k \in 0 .. Len(p)
      BY <1>1
    <2>3. CASE p[k] \in S
      <3>1. f[k] = f[k - 1] \o <<p[k]>>
        BY <1>2, <2>1, <2>3, AppendIsConcat
      <3>2. <<p[k]>> \in Seq(X) /\ ToSet(<<p[k]>>) = {p[k]}
        BY <2>1 DEF ToSet
      <3>3. Selection(f[k], R) = g[k - 1] \o Selection(<<p[k]>>, R)
        <4>1. \A a, b \in Seq(X) :
                Selection(a \o b, R) = Selection(a, R) \o Selection(b, R)
          BY SelectionConcat
        <4> QED
          BY <2>1, <3>1, <3>2, <4>1, Zenon
      <3>4. CASE p[k] \in R
        <4>1. Selection(<<p[k]>>, R) = <<p[k]>>
          BY <3>2, <3>4, SelectionOfAll
        <4>2. g[k] = Append(g[k - 1], p[k])
          BY <1>3, <2>3, <3>4
        <4>3. Append(g[k - 1], p[k]) = g[k - 1] \o <<p[k]>>
          BY <2>1, AppendIsConcat
        <4> QED
          BY <2>2, <3>3, <4>1, <4>2, <4>3, Zenon
      <3>5. CASE p[k] \notin R
        <4>1. Selection(<<p[k]>>, R) = <<>>
          BY <3>2, <3>5, SelectionOfNone
        <4>2. g[k] = g[k - 1]
          BY <1>3, <3>5
        <4>3. g[k - 1] \o <<>> = g[k - 1]
          BY <2>1, ConcatEmptySeq
        <4> QED
          BY <2>2, <3>3, <4>1, <4>2, <4>3, Zenon
      <3> QED
        BY <3>4, <3>5
    <2>4. CASE p[k] \notin S
      BY <1>2, <1>3, <2>1, <2>4
    <2> QED
      BY <2>3, <2>4
  <1>7. \A k \in 1 .. Len(p) : k - 1 \in T => k \in T
    BY <1>6
  <1>8. Len(p) \in T
    <2> HIDE DEF T
    <2>1. \A n \in 0 .. Len(p) : n \in T
      BY <1>1, <1>5, <1>7, UpTo
    <2> QED
      BY <1>1, <2>1
  <1> QED
    BY <1>4, <1>8

-----------------------------------------------------------------------------
(* A sequence.                                                             *)
IsSeq(s) == s \in Seq(ToSet(s))

(* The elements of a sequence.                                             *)
LEMMA SeqFacts ==
  ASSUME NEW s, IsSeq(s)
  PROVE  /\ Len(s) \in Nat /\ DOMAIN s = 1 .. Len(s)
         /\ \A i \in DOMAIN s : s[i] \in ToSet(s)
         /\ \A x \in ToSet(s) : \E i \in DOMAIN s : x = s[i]
         /\ s \o <<>> = s /\ <<>> \o s = s
  <1>1. Len(s) \in Nat /\ DOMAIN s = 1 .. Len(s)
    BY LenProperties DEF IsSeq
  <1>2. s \o <<>> = s /\ <<>> \o s = s
    BY ConcatEmptySeq DEF IsSeq
  <1> QED
    BY <1>1, <1>2 DEF ToSet

(* A sequence over a set.                                                  *)
LEMMA IsSeqOf ==
  ASSUME NEW X, NEW s \in Seq(X)
  PROVE  IsSeq(s) /\ ToSet(s) \subseteq X
  <1>1. Len(s) \in Nat /\ DOMAIN s = 1 .. Len(s) /\ s \in [1 .. Len(s) -> X]
    BY LenProperties
  <1>2. s \in [1 .. Len(s) -> ToSet(s)]
    BY <1>1 DEF ToSet
  <1>3. s \in Seq(ToSet(s))
    BY <1>1, <1>2, SeqDef
  <1> QED
    BY <1>1, <1>3 DEF IsSeq, ToSet

(* What a concatenation consists of.                                       *)
LEMMA ConcatIsSeq ==
  ASSUME NEW x, NEW y, IsSeq(x), IsSeq(y)
  PROVE  IsSeq(x \o y) /\ ToSet(x \o y) = ToSet(x) \union ToSet(y)
  <1> DEFINE X == ToSet(x) \union ToSet(y)
             xy == x \o y
  <1>1. x \in Seq(X) /\ y \in Seq(X)
    BY SeqMonotonic DEF IsSeq
  <1>2. /\ xy \in Seq(X) /\ Len(xy) = Len(x) + Len(y)
        /\ \A i \in 1 .. Len(x) + Len(y) :
             xy[i] = IF i <= Len(x) THEN x[i] ELSE y[i - Len(x)]
    BY <1>1, ConcatProperties
  <1>3. IsSeq(xy) /\ ToSet(xy) \subseteq X
    BY <1>2, IsSeqOf
  <1>4. /\ Len(x) \in Nat /\ DOMAIN x = 1 .. Len(x)
        /\ Len(y) \in Nat /\ DOMAIN y = 1 .. Len(y)
        /\ DOMAIN xy = 1 .. Len(xy)
    BY <1>3, SeqFacts
  <1> HIDE DEF xy
  <1>5. ASSUME NEW i \in DOMAIN x PROVE i \in DOMAIN xy /\ xy[i] = x[i]
    BY <1>2, <1>4
  <1>6. ASSUME NEW i \in DOMAIN y
        PROVE  Len(x) + i \in DOMAIN xy /\ xy[Len(x) + i] = y[i]
    <2>1. Len(x) + i \in 1 .. Len(x) + Len(y) /\ ~(Len(x) + i <= Len(x))
          /\ (Len(x) + i) - Len(x) = i
      BY <1>4
    <2> QED
      BY <1>2, <1>4, <2>1
  <1>7. X \subseteq ToSet(xy)
    BY <1>5, <1>6 DEF ToSet
  <1> QED
    BY <1>3, <1>7 DEF xy

(* Where the elements of a concatenation are.                              *)
LEMMA ConcatElements ==
  ASSUME NEW x, NEW y, IsSeq(x), IsSeq(y)
  PROVE  /\ IsSeq(x \o y) /\ Len(x \o y) = Len(x) + Len(y)
         /\ \A i \in 1 .. Len(x) + Len(y) :
              (x \o y)[i] = IF i <= Len(x) THEN x[i] ELSE y[i - Len(x)]
  <1> DEFINE X == ToSet(x) \union ToSet(y)
  <1>1. x \in Seq(X) /\ y \in Seq(X)
    BY SeqMonotonic DEF IsSeq
  <1> QED
    BY <1>1, ConcatProperties, ConcatIsSeq

(* Where the statements of a kind are in a program made of two.            *)
LEMMA OfConcat ==
  ASSUME NEW x, NEW y, IsSeq(x), IsSeq(y), NEW kinds
  PROVE  Of(x \o y, kinds) = Of(x, kinds) \o Of(y, kinds)
  <1> DEFINE xy == x \o y
             X == ToSet(xy)
             S == {s \in X : s.kind \in kinds}
  <1>1. IsSeq(xy) /\ X = ToSet(x) \union ToSet(y)
    BY ConcatIsSeq
  <1>2. x \in Seq(X) /\ y \in Seq(X)
    BY <1>1, SeqMonotonic DEF IsSeq
  <1>3. Selection(x, S) = Of(x, kinds) /\ Selection(y, S) = Of(y, kinds)
    BY <1>1, <1>2, SelectionAgrees DEF Of
  <1>4. Selection(xy, S) = Selection(x, S) \o Selection(y, S)
    BY <1>2, SelectionConcat
  <1> QED
    BY <1>3, <1>4 DEF Of

(* The same for the gates.                                                 *)
LEMMA KeptConcat ==
  ASSUME NEW x, NEW y, IsSeq(x), IsSeq(y)
  PROVE  Kept(x \o y) = Kept(x) \o Kept(y)
  <1> DEFINE xy == x \o y
             X == ToSet(xy)
             S == {s \in X : s.kind = "gate" /\ s.op # "gphase"}
  <1>1. IsSeq(xy) /\ X = ToSet(x) \union ToSet(y)
    BY ConcatIsSeq
  <1>2. x \in Seq(X) /\ y \in Seq(X)
    BY <1>1, SeqMonotonic DEF IsSeq
  <1>3. Selection(x, S) = Kept(x) /\ Selection(y, S) = Kept(y)
    BY <1>1, <1>2, SelectionAgrees DEF Kept
  <1>4. Selection(xy, S) = Selection(x, S) \o Selection(y, S)
    BY <1>2, SelectionConcat
  <1> QED
    BY <1>3, <1>4 DEF Kept

(* What is selected from a program.                                        *)
LEMMA OfIsSeq ==
  ASSUME NEW p, IsSeq(p), NEW kinds
  PROVE  /\ IsSeq(Of(p, kinds)) /\ ToSet(Of(p, kinds)) \subseteq ToSet(p)
         /\ \A s \in ToSet(Of(p, kinds)) : s.kind \in kinds
  <1> DEFINE S == {s \in ToSet(p) : s.kind \in kinds}
  <1>1. Of(p, kinds) \in Seq(ToSet(p) \intersect S)
    BY SelectedIsSeq DEF Of, IsSeq
  <1> QED
    BY <1>1, IsSeqOf

(* The gates of a program.                                                 *)
LEMMA KeptIsSeq ==
  ASSUME NEW p, IsSeq(p)
  PROVE  /\ IsSeq(Kept(p)) /\ ToSet(Kept(p)) \subseteq ToSet(p)
         /\ \A s \in ToSet(Kept(p)) : s.kind = "gate" /\ s.op # "gphase"
  <1> DEFINE S == {s \in ToSet(p) : s.kind = "gate" /\ s.op # "gphase"}
  <1>1. Kept(p) \in Seq(ToSet(p) \intersect S)
    BY SelectedIsSeq DEF Kept, IsSeq
  <1> QED
    BY <1>1, IsSeqOf

(* Statements that are all of the kinds, or none.                          *)
LEMMA OfAll ==
  ASSUME NEW p, IsSeq(p), NEW kinds, \A s \in ToSet(p) : s.kind \in kinds
  PROVE  Of(p, kinds) = p
  BY SelectionOfAll DEF Of, IsSeq

LEMMA OfNone ==
  ASSUME NEW p, IsSeq(p), NEW kinds, \A s \in ToSet(p) : s.kind \notin kinds
  PROVE  Of(p, kinds) = <<>>
  BY SelectionOfNone DEF Of, IsSeq

LEMMA KeptAll ==
  ASSUME NEW p, IsSeq(p), \A s \in ToSet(p) : s.kind = "gate" /\ s.op # "gphase"
  PROVE  Kept(p) = p
  BY SelectionOfAll DEF Kept, IsSeq

LEMMA KeptNone ==
  ASSUME NEW p, IsSeq(p), \A s \in ToSet(p) : s.kind # "gate"
  PROVE  Kept(p) = <<>>
  BY SelectionOfNone DEF Kept, IsSeq

-----------------------------------------------------------------------------
(* Sets of sites.                                                          *)
LEMMA FiniteImage ==
  ASSUME NEW f, NEW S, IsFiniteSet(S), f \in [S -> {f[x] : x \in S}]
  PROVE  IsFiniteSet({f[x] : x \in S})
  <1>1. f \in Surjection(S, {f[x] : x \in S})
    BY DEF Surjection
  <1> QED
    BY <1>1, FS_Surjection

(* A sequence has finitely many elements.                                  *)
LEMMA FiniteToSet ==
  ASSUME NEW s, IsSeq(s)
  PROVE  IsFiniteSet(ToSet(s))
  <1>1. Len(s) \in Nat /\ s \in [1 .. Len(s) -> ToSet(s)] /\ DOMAIN s = 1 .. Len(s)
    BY LenProperties DEF IsSeq
  <1>2. IsFiniteSet(1 .. Len(s))
    BY <1>1, FS_Interval
  <1>3. s \in Surjection(1 .. Len(s), ToSet(s))
    BY <1>1 DEF Surjection, ToSet
  <1> QED
    BY <1>2, <1>3, FS_Surjection

(* A program refers to finitely many qubits.                               *)
LEMMA FiniteRefs ==
  ASSUME NEW p, IsSeq(p), \A s \in ToSet(p) : IsSeq(s.refs)
  PROVE  IsFiniteSet(RefsOf(p)) /\ IsFiniteSet({r.index : r \in RefsOf(p)})
  <1> DEFINE f == [s \in ToSet(p) |-> ToSet(s.refs)]
             R == RefsOf(p)
             g == [r \in R |-> r.index]
  <1>1. IsFiniteSet({f[s] : s \in ToSet(p)})
    BY FiniteToSet, FiniteImage
  <1>2. \A T \in {f[s] : s \in ToSet(p)} : IsFiniteSet(T)
    BY FiniteToSet
  <1>3. R = UNION {f[s] : s \in ToSet(p)}
    BY DEF RefsOf
  <1>4. IsFiniteSet(R)
    BY <1>1, <1>2, <1>3, FS_UNION
  <1> HIDE DEF R
  <1>5. IsFiniteSet({g[r] : r \in R})
    BY <1>4, FiniteImage
  <1>6. {g[r] : r \in R} = {r.index : r \in R}
    OBVIOUS
  <1> QED
    BY <1>4, <1>5, <1>6 DEF R

(* Numbers in ascending and in descending order.                           *)
Below(S) == {e \in S \X S : e[1] < e[2]}
Above(S) == {e \in S \X S : e[1] > e[2]}

LEMMA NumbersAreOrdered ==
  ASSUME NEW S, S \subseteq Nat
  PROVE  /\ IsOrdered(Below(S), S) /\ IsOrdered(Above(S), S)
         /\ \A x \in S : /\ Rank(Below(S), S)[x] = Cardinality({s \in S : s < x})
                         /\ Rank(Above(S), S)[x] = Cardinality({s \in S : s > x})
  <1>1. \A x, y \in S : /\ <<x, y>> \in Below(S) <=> x < y
                        /\ <<x, y>> \in Above(S) <=> y < x
    BY DEF Below, Above
  <1>2. \A x \in S : x \in Int
    OBVIOUS
  <1>3. IsOrdered(Below(S), S)
    BY <1>1, <1>2 DEF IsOrdered
  <1>4. IsOrdered(Above(S), S)
    BY <1>1, <1>2 DEF IsOrdered
  <1>5. ASSUME NEW x \in S PROVE Earlier(Below(S), S, x) = {s \in S : s < x}
    BY <1>1 DEF Earlier
  <1>6. ASSUME NEW x \in S PROVE Earlier(Above(S), S, x) = {s \in S : s > x}
    BY <1>1 DEF Earlier, Above
  <1> QED
    BY <1>3, <1>4, <1>5, <1>6 DEF Rank

(* The rank of a number in a finite set is its own and below the size of   *)
(* the set.                                                                *)
LEMMA RanksOfNumbers ==
  ASSUME NEW S, S \subseteq Nat, IsFiniteSet(S)
  PROVE  /\ \A x \in S : Cardinality({s \in S : s < x}) \in 0 .. Cardinality(S) - 1
         /\ \A x, y \in S :
              Cardinality({s \in S : s < x}) = Cardinality({s \in S : s < y}) => x = y
  <1> DEFINE rank == Rank(Below(S), S)
  <1>1. IsOrdered(Below(S), S) /\ \A x \in S : rank[x] = Cardinality({s \in S : s < x})
    BY NumbersAreOrdered
  <1>2. rank \in Injection(S, 0 .. Cardinality(S) - 1)
    BY <1>1, RanksAreDistinct
  <1> HIDE DEF rank
  <1>3. /\ \A x \in S : rank[x] \in 0 .. Cardinality(S) - 1
        /\ \A x, y \in S : rank[x] = rank[y] => x = y
    BY <1>2 DEF Injection, IsInjective
  <1> QED
    BY <1>1, <1>3

(* A program is a sequence.                                                *)
LEMMA ProgramIsSeq == \A p : WellFormed(p) => IsSeq(p)
  BY DEF WellFormed, IsSeq

(* The sites of a program are finitely many numbers.                       *)
LEMMA SitesAreNumbers ==
  ASSUME NEW p, WellFormed(p)
  PROVE  /\ Sites(p) \subseteq Nat /\ IsFiniteSet(Sites(p)) /\ Measured(p) \subseteq Sites(p)
         /\ \A s \in ToSet(Kept(p)) \union ToSet(Of(p, {"assign"})) :
              /\ s \in ToSet(p) /\ "refs" \in DOMAIN s /\ IsSeq(s.refs)
              /\ \A r \in ToSet(s.refs) :
                   r = [reg |-> r.reg, index |-> r.index] /\ r.index \in Sites(p)
  <1> DEFINE k == Kept(p)
             m == Of(p, {"assign"})
  <1>1. /\ IsSeq(k) /\ ToSet(k) \subseteq ToSet(p) /\ \A s \in ToSet(k) : s.kind = "gate"
        /\ IsSeq(m) /\ ToSet(m) \subseteq ToSet(p) /\ \A s \in ToSet(m) : s.kind \in {"assign"}
    BY KeptIsSeq, OfIsSeq, ProgramIsSeq
  <1>2. /\ Measured(p) = {r.index : r \in RefsOf(m)}
        /\ Sites(p) = {r.index : r \in RefsOf(k)} \union {r.index : r \in RefsOf(m)}
    BY DEF Sites, Measured
  <1> HIDE DEF k, m
  <1>3. \A s \in ToSet(k) \union ToSet(m) :
          /\ s \in ToSet(p) /\ "refs" \in DOMAIN s /\ IsSeq(s.refs)
          /\ \A r \in ToSet(s.refs) : r \in [reg : {r.reg}, index : Nat]
    BY <1>1 DEF WellFormed, WellFormedStatement, IsSeq
  <1>4. \A s \in ToSet(k) \union ToSet(m) : \A r \in ToSet(s.refs) :
          /\ r = [reg |-> r.reg, index |-> r.index] /\ r.index \in Nat
          /\ r.index \in Sites(p)
    BY <1>2, <1>3 DEF RefsOf
  <1>5. /\ IsFiniteSet({r.index : r \in RefsOf(k)})
        /\ IsFiniteSet({r.index : r \in RefsOf(m)})
    BY <1>1, <1>3, FiniteRefs
  <1>6. IsFiniteSet(Sites(p))
    BY <1>2, <1>5, FS_Union
  <1>7. Sites(p) \subseteq Nat
    BY <1>2, <1>4 DEF RefsOf
  <1> QED
    BY <1>2, <1>3, <1>4, <1>6, <1>7 DEF k, m

(* Different sites become different qubits.                                *)
LEMMA ReferencesDiffer ==
  ASSUME NEW p, WellFormed(p), NEW a, NEW x \in Sites(p), NEW y \in Sites(p),
         Reference(a, p, x) = Reference(a, p, y)
  PROVE  x = y
  <1>1. Sites(p) \subseteq Nat /\ IsFiniteSet(Sites(p))
    BY SitesAreNumbers
  <1>2. CASE a.supportPhysicalQubits
    BY <1>2 DEF Reference
  <1>3. CASE ~a.supportPhysicalQubits
    <2>1. Dense(p, x) = Dense(p, y)
      BY <1>3 DEF Reference
    <2> QED
      BY <1>1, <2>1, RanksOfNumbers DEF Dense
  <1> QED
    BY <1>2, <1>3

-----------------------------------------------------------------------------
(* A function of the numbers up to n is a sequence.                        *)
LEMMA FunctionIsSeq ==
  ASSUME NEW n \in Nat, NEW f, f = [i \in 1 .. n |-> f[i]]
  PROVE  IsSeq(f) /\ Len(f) = n /\ DOMAIN f = 1 .. n
  <1>1. DOMAIN f = 1 .. n
    OBVIOUS
  <1>2. f \in [1 .. n -> ToSet(f)]
    BY <1>1 DEF ToSet
  <1>3. f \in Seq(ToSet(f))
    BY <1>2, SeqDef
  <1>4. Len(f) \in Nat /\ DOMAIN f = 1 .. Len(f)
    BY <1>3, LenProperties
  <1>5. Len(f) = n
    BY <1>1, <1>4
  <1> QED
    BY <1>1, <1>3, <1>5 DEF IsSeq

(* A statement whose qubits are renamed is otherwise the same.             *)
LEMMA RenamedStatement ==
  ASSUME NEW s, "refs" \in DOMAIN s, IsSeq(s.refs), NEW a, NEW p,
         NEW t, t = [s EXCEPT !.refs = [k \in DOMAIN @ |-> Reference(a, p, @[k].index)]]
  PROVE  /\ t.kind = s.kind /\ t.op = s.op
         /\ t.refs = [k \in DOMAIN s.refs |-> Reference(a, p, s.refs[k].index)]
         /\ IsSeq(t.refs) /\ DOMAIN t.refs = DOMAIN s.refs
         /\ Bare(t) = Bare(s)
  <1> DEFINE refs == [k \in DOMAIN s.refs |-> Reference(a, p, s.refs[k].index)]
  <1>1. t = [s EXCEPT !.refs = refs]
    OBVIOUS
  <1>2. Len(s.refs) \in Nat /\ DOMAIN s.refs = 1 .. Len(s.refs)
    BY SeqFacts
  <1>3. IsSeq(refs) /\ Len(refs) = Len(s.refs) /\ DOMAIN refs = DOMAIN s.refs
    BY <1>2, FunctionIsSeq
  <1> HIDE DEF refs
  <1>4. t = [x \in DOMAIN s |-> IF x = "refs" THEN refs ELSE s[x]]
    BY <1>1
  <1>5. t.refs = refs /\ t.kind = s.kind /\ t.op = s.op
    BY <1>4
  <1>6. Bare(t) = Bare(s)
    BY <1>3, <1>4, <1>5 DEF Bare
  <1> QED
    BY <1>3, <1>5, <1>6 DEF refs

(* Statements with references.                                             *)
HaveRefs(st) == \A s \in ToSet(st) : "refs" \in DOMAIN s /\ IsSeq(s.refs)

(* The statement t is s with the qubits of the device.                     *)
RenamedAs(a, p, s, t) ==
  /\ t.kind = s.kind /\ t.op = s.op /\ Bare(t) = Bare(s)
  /\ t.refs = [k \in DOMAIN s.refs |-> Reference(a, p, s.refs[k].index)]

(* So are those of new, one by one.                                        *)
Renamed(a, p, st, new) ==
  /\ IsSeq(new) /\ DOMAIN new = DOMAIN st /\ Len(new) = Len(st)
  /\ \A i \in DOMAIN st : RenamedAs(a, p, st[i], new[i])

(* What Rewritten returns.                                                 *)
LEMMA RewrittenStatements ==
  ASSUME NEW st, IsSeq(st), HaveRefs(st), NEW a, NEW p
  PROVE  Renamed(a, p, st, Rewritten(a, p, st))
  <1> DEFINE new == Rewritten(a, p, st)
  <1>1. Len(st) \in Nat /\ DOMAIN st = 1 .. Len(st) /\ \A i \in DOMAIN st : st[i] \in ToSet(st)
    BY SeqFacts
  <1>2. DOMAIN new = DOMAIN st /\ new = [i \in DOMAIN st |-> new[i]]
    BY DEF Rewritten
  <1>3. \A i \in DOMAIN st :
          new[i] = [st[i] EXCEPT !.refs = [k \in DOMAIN @ |-> Reference(a, p, @[k].index)]]
    BY DEF Rewritten
  <1> HIDE DEF new
  <1>4. IsSeq(new) /\ Len(new) = Len(st)
    BY <1>1, <1>2, FunctionIsSeq
  <1>5. ASSUME NEW i \in DOMAIN st
        PROVE  RenamedAs(a, p, st[i], new[i])
    <2> DEFINE s == st[i]
               t == new[i]
    <2>1. t = [s EXCEPT !.refs = [k \in DOMAIN @ |-> Reference(a, p, @[k].index)]]
      BY <1>3
    <2>2. "refs" \in DOMAIN s /\ IsSeq(s.refs)
      BY <1>1 DEF HaveRefs
    <2> HIDE DEF s, t
    <2>3. RenamedAs(a, p, s, t)
      BY <2>1, <2>2, RenamedStatement DEF RenamedAs
    <2> QED
      BY <2>3 DEF s, t
  <1> QED
    BY <1>2, <1>4, <1>5 DEF Renamed, new

-----------------------------------------------------------------------------
(* A set of numbers in ascending and in descending order.                  *)
Ascending(S) == InOrder(S, <)
Descending(S) == InOrder(S, >)

(* Each lists the whole set.                                               *)
LEMMA AscendingListsAll ==
  ASSUME NEW S, S \subseteq Nat, IsFiniteSet(S)
  PROVE  IsSeq(Ascending(S)) /\ ToSet(Ascending(S)) = S
  <1> DEFINE f == Ascending(S)
             n == Cardinality(S)
             Rank0(x) == Cardinality({s \in S : s < x})
  <1>1. n \in Nat
    BY FS_CardinalityType
  <1>2. IsOrdered(Below(S), S) /\ \A x \in S : Rank(Below(S), S)[x] = Rank0(x)
    BY NumbersAreOrdered
  <1>3. f = [i \in 1 .. n |-> CHOOSE x \in S : Rank0(x) = i - 1]
    BY DEF Ascending, InOrder
  <1> HIDE DEF Rank0, f
  <1>4. f = [i \in 1 .. n |-> f[i]] /\ DOMAIN f = 1 .. n
    BY <1>3
  <1>5. \A i \in 1 .. n : f[i] = CHOOSE x \in S : Rank(Below(S), S)[x] = i - 1
    BY <1>2, <1>3
  <1>6. /\ \A i \in 1 .. n : f[i] \in S
        /\ \A x \in S : \E i \in 1 .. n : f[i] = x
    BY <1>2, <1>5, ListedByRank
  <1>7. IsSeq(f)
    BY <1>1, <1>4, FunctionIsSeq
  <1>8. ToSet(f) = S
    BY <1>4, <1>6 DEF ToSet
  <1> QED
    BY <1>7, <1>8 DEF f

LEMMA DescendingListsAll ==
  ASSUME NEW S, S \subseteq Nat, IsFiniteSet(S)
  PROVE  IsSeq(Descending(S)) /\ ToSet(Descending(S)) = S
  <1> DEFINE f == Descending(S)
             n == Cardinality(S)
             Rank0(x) == Cardinality({s \in S : s > x})
  <1>1. n \in Nat
    BY FS_CardinalityType
  <1>2. IsOrdered(Above(S), S) /\ \A x \in S : Rank(Above(S), S)[x] = Rank0(x)
    BY NumbersAreOrdered
  <1>3. f = [i \in 1 .. n |-> CHOOSE x \in S : Rank0(x) = i - 1]
    BY DEF Descending, InOrder
  <1> HIDE DEF Rank0, f
  <1>4. f = [i \in 1 .. n |-> f[i]] /\ DOMAIN f = 1 .. n
    BY <1>3
  <1>5. \A i \in 1 .. n : f[i] = CHOOSE x \in S : Rank(Above(S), S)[x] = i - 1
    BY <1>2, <1>3
  <1>6. /\ \A i \in 1 .. n : f[i] \in S
        /\ \A x \in S : \E i \in 1 .. n : f[i] = x
    BY <1>2, <1>5, ListedByRank
  <1>7. IsSeq(f)
    BY <1>1, <1>4, FunctionIsSeq
  <1>8. ToSet(f) = S
    BY <1>4, <1>6 DEF ToSet
  <1> QED
    BY <1>7, <1>8 DEF f

(* Sequences of no and of one element.                                     *)
LEMMA EmptyIsSeq == IsSeq(<<>>) /\ ToSet(<<>>) = {}
  BY EmptySeq DEF IsSeq, ToSet

LEMMA SingleIsSeq ==
  ASSUME NEW x
  PROVE  IsSeq(<<x>>) /\ ToSet(<<x>>) = {x}
  <1>1. <<x>> \in Seq({x}) /\ DOMAIN <<x>> = 1 .. 1 /\ <<x>>[1] = x
    OBVIOUS
  <1>2. ToSet(<<x>>) = {x}
    BY <1>1 DEF ToSet
  <1> QED
    BY <1>1, <1>2 DEF IsSeq

(* The uses in the parts of a program are the uses in the program.         *)
LEMMA PartsOfTwo ==
  ASSUME NEW x, NEW y, IsSeq(x), IsSeq(y)
  PROVE  /\ IsSeq(Joined(x, y)) /\ Kept(Joined(x, y)) = Joined(Kept(x), Kept(y))
         /\ \A K : Of(Joined(x, y), K) = Joined(Of(x, K), Of(y, K))
  <1>1. /\ IsSeq(x \o y) /\ Kept(x \o y) = Kept(x) \o Kept(y)
        /\ \A K : Of(x \o y, K) = Of(x, K) \o Of(y, K)
    BY ConcatIsSeq, KeptConcat, OfConcat
  <1> QED
    BY <1>1 DEF Joined

(* A program of seven parts, as adaptProgram writes it.                    *)
Seven(x1, x2, x3, x4, x5, x6, x7) ==
  Joined(Joined(Joined(Joined(Joined(Joined(x1, x2), x3), x4), x5), x6), x7)

(* Its statements of some kinds are those of its parts.                    *)
LEMMA PartsOfSeven ==
  ASSUME NEW x1, NEW x2, NEW x3, NEW x4, NEW x5, NEW x6, NEW x7,
         /\ IsSeq(x1) /\ IsSeq(x2) /\ IsSeq(x3) /\ IsSeq(x4)
         /\ IsSeq(x5) /\ IsSeq(x6) /\ IsSeq(x7)
  PROVE  /\ IsSeq(Seven(x1, x2, x3, x4, x5, x6, x7))
         /\ Kept(Seven(x1, x2, x3, x4, x5, x6, x7))
              = Seven(Kept(x1), Kept(x2), Kept(x3), Kept(x4), Kept(x5), Kept(x6), Kept(x7))
         /\ \A K : Of(Seven(x1, x2, x3, x4, x5, x6, x7), K)
                    = Seven(Of(x1, K), Of(x2, K), Of(x3, K), Of(x4, K),
                            Of(x5, K), Of(x6, K), Of(x7, K))
  <1> DEFINE y2 == Joined(x1, x2)
             y3 == Joined(y2, x3)
             y4 == Joined(y3, x4)
             y5 == Joined(y4, x5)
             y6 == Joined(y5, x6)
             y7 == Joined(y6, x7)
  <1>1. /\ IsSeq(y2) /\ Kept(y2) = Joined(Kept(x1), Kept(x2))
        /\ \A K : Of(y2, K) = Joined(Of(x1, K), Of(x2, K))
    BY PartsOfTwo
  <1> HIDE DEF y2
  <1>2. /\ IsSeq(y3) /\ Kept(y3) = Joined(Kept(y2), Kept(x3))
        /\ \A K : Of(y3, K) = Joined(Of(y2, K), Of(x3, K))
    BY <1>1, PartsOfTwo
  <1> HIDE DEF y3
  <1>3. /\ IsSeq(y4) /\ Kept(y4) = Joined(Kept(y3), Kept(x4))
        /\ \A K : Of(y4, K) = Joined(Of(y3, K), Of(x4, K))
    BY <1>2, PartsOfTwo
  <1> HIDE DEF y4
  <1>4. /\ IsSeq(y5) /\ Kept(y5) = Joined(Kept(y4), Kept(x5))
        /\ \A K : Of(y5, K) = Joined(Of(y4, K), Of(x5, K))
    BY <1>3, PartsOfTwo
  <1> HIDE DEF y5
  <1>5. /\ IsSeq(y6) /\ Kept(y6) = Joined(Kept(y5), Kept(x6))
        /\ \A K : Of(y6, K) = Joined(Of(y5, K), Of(x6, K))
    BY <1>4, PartsOfTwo
  <1> HIDE DEF y6
  <1>6. /\ IsSeq(y7) /\ Kept(y7) = Joined(Kept(y6), Kept(x7))
        /\ \A K : Of(y7, K) = Joined(Of(y6, K), Of(x7, K))
    BY <1>5, PartsOfTwo
  <1> HIDE DEF y7
  <1>7. ASSUME NEW K
        PROVE  Of(y7, K) = Seven(Of(x1, K), Of(x2, K), Of(x3, K), Of(x4, K),
                                 Of(x5, K), Of(x6, K), Of(x7, K))
    <2>1. /\ Of(y2, K) = Joined(Of(x1, K), Of(x2, K))
          /\ Of(y3, K) = Joined(Of(y2, K), Of(x3, K))
          /\ Of(y4, K) = Joined(Of(y3, K), Of(x4, K))
          /\ Of(y5, K) = Joined(Of(y4, K), Of(x5, K))
          /\ Of(y6, K) = Joined(Of(y5, K), Of(x6, K))
          /\ Of(y7, K) = Joined(Of(y6, K), Of(x7, K))
      BY <1>1, <1>2, <1>3, <1>4, <1>5, <1>6
    <2> QED
      BY <2>1, Zenon DEF Seven
  <1>8. Kept(y7) = Seven(Kept(x1), Kept(x2), Kept(x3), Kept(x4),
                         Kept(x5), Kept(x6), Kept(x7))
    BY <1>1, <1>2, <1>3, <1>4, <1>5, <1>6, Zenon DEF Seven
  <1>9. y7 = Seven(x1, x2, x3, x4, x5, x6, x7)
    BY Zenon DEF Seven, y2, y3, y4, y5, y6, y7
  <1> QED
    BY <1>6, <1>7, <1>8, <1>9, Zenon

(* What each part of an adapted program consists of.                       *)
LEMMA AdaptedParts ==
  ASSUME NEW p, WellFormed(p), NEW a
  PROVE  LET q == QubitRegister(a, p)
             i == Initialization(p)
             k == Rewritten(a, p, Kept(p))
             m == Rewritten(a, p, Of(p, {"assign"}))
             u == Supplement(a, p)
         IN /\ IsSeq(q) /\ \A s \in ToSet(q) : s.kind = "qubit"
            /\ IsSeq(i) /\ \A s \in ToSet(i) : s.kind = "init"
            /\ IsSeq(Verbatim(a)) /\ \A s \in ToSet(Verbatim(a)) : s.kind = "verbatim"
            /\ IsSeq(k) /\ \A s \in ToSet(k) : s.kind = "gate" /\ s.op # "gphase"
            /\ IsSeq(m) /\ \A s \in ToSet(m) : s.kind = "assign"
            /\ IsSeq(u) /\ \A s \in ToSet(u) : s.kind = "measure"
  <1> USE ProgramIsSeq
  <1>1. IsSeq(QubitRegister(a, p)) /\ \A s \in ToSet(QubitRegister(a, p)) : s.kind = "qubit"
    BY EmptyIsSeq, SingleIsSeq DEF QubitRegister
  <1>2. IsSeq(Initialization(p)) /\ \A s \in ToSet(Initialization(p)) : s.kind = "init"
    <2> DEFINE inits == Of(p, {"init"})
    <2>1. IsSeq(inits) /\ \A s \in ToSet(inits) : s.kind \in {"init"}
      BY OfIsSeq
    <2> HIDE DEF inits
    <2>2. ASSUME inits # <<>> PROVE Last(inits).kind = "init"
      <3>1. Len(inits) \in DOMAIN inits
        BY <2>1, <2>2, SeqFacts, EmptySeq DEF IsSeq
      <3> QED
        BY <2>1, <3>1, SeqFacts DEF Last
    <2>3. Initialization(p) = IF inits = <<>> THEN <<>> ELSE <<Last(inits)>>
      BY DEF Initialization, inits
    <2> QED
      BY <2>2, <2>3, EmptyIsSeq, SingleIsSeq
  <1>3. IsSeq(Verbatim(a)) /\ \A s \in ToSet(Verbatim(a)) : s.kind = "verbatim"
    BY EmptyIsSeq, SingleIsSeq DEF Verbatim
  <1>4. \A s \in ToSet(Kept(p)) \union ToSet(Of(p, {"assign"})) :
          "refs" \in DOMAIN s /\ IsSeq(s.refs)
    BY SitesAreNumbers
  <1>5. /\ IsSeq(Rewritten(a, p, Kept(p)))
        /\ \A s \in ToSet(Rewritten(a, p, Kept(p))) : s.kind = "gate" /\ s.op # "gphase"
    <2> DEFINE st == Kept(p)
               new == Rewritten(a, p, st)
    <2>1. IsSeq(st) /\ \A s \in ToSet(st) : s.kind = "gate" /\ s.op # "gphase"
      BY KeptIsSeq
    <2>2. HaveRefs(st)
      BY <1>4 DEF HaveRefs
    <2> HIDE DEF st
    <2>3. Renamed(a, p, st, new)
      BY <2>1, <2>2, RewrittenStatements
    <2> HIDE DEF new
    <2>4. IsSeq(new)
      BY <2>3 DEF Renamed
    <2>5. ASSUME NEW s \in ToSet(new) PROVE s.kind = "gate" /\ s.op # "gphase"
      <3>1. PICK i \in DOMAIN new : s = new[i]
        BY <2>4, SeqFacts
      <3>2. i \in DOMAIN st /\ s.kind = st[i].kind /\ s.op = st[i].op
        BY <2>3, <3>1 DEF Renamed, RenamedAs
      <3>3. st[i] \in ToSet(st)
        BY <2>1, <3>2, SeqFacts
      <3> QED
        BY <2>1, <3>2, <3>3
    <2> QED
      BY <2>4, <2>5 DEF st, new
  <1>6. /\ IsSeq(Rewritten(a, p, Of(p, {"assign"})))
        /\ \A s \in ToSet(Rewritten(a, p, Of(p, {"assign"}))) : s.kind = "assign"
    <2> DEFINE st == Of(p, {"assign"})
               new == Rewritten(a, p, st)
    <2>1. IsSeq(st) /\ \A s \in ToSet(st) : s.kind \in {"assign"}
      BY OfIsSeq
    <2>2. HaveRefs(st)
      BY <1>4 DEF HaveRefs
    <2> HIDE DEF st
    <2>3. Renamed(a, p, st, new)
      BY <2>1, <2>2, RewrittenStatements
    <2> HIDE DEF new
    <2>4. IsSeq(new)
      BY <2>3 DEF Renamed
    <2>5. ASSUME NEW s \in ToSet(new) PROVE s.kind = "assign"
      <3>1. PICK i \in DOMAIN new : s = new[i]
        BY <2>4, SeqFacts
      <3>2. i \in DOMAIN st /\ s.kind = st[i].kind /\ s.op = st[i].op
        BY <2>3, <3>1 DEF Renamed, RenamedAs
      <3>3. st[i] \in ToSet(st)
        BY <2>1, <3>2, SeqFacts
      <3> QED
        BY <2>1, <3>2, <3>3
    <2> QED
      BY <2>4, <2>5 DEF st, new
  <1>7. IsSeq(Supplement(a, p)) /\ \A s \in ToSet(Supplement(a, p)) : s.kind = "measure"
    <2> DEFINE rest == IF a.requiresAllQubitsMeasurement THEN Sites(p) \ Measured(p) ELSE {}
               sorted == Ascending(rest)
               u == Supplement(a, p)
    <2>1. rest \subseteq Nat /\ IsFiniteSet(rest)
      BY SitesAreNumbers, FS_Subset
    <2> HIDE DEF rest
    <2>2. IsSeq(sorted)
      BY <2>1, AscendingListsAll
    <2>3. u = [i \in DOMAIN sorted |->
                 [kind |-> "measure", refs |-> <<Reference(a, p, sorted[i])>>]]
      BY DEF Supplement, Ascending, rest
    <2> HIDE DEF sorted, u
    <2>4. Len(sorted) \in Nat /\ DOMAIN sorted = 1 .. Len(sorted)
      BY <2>2, SeqFacts
    <2>5. IsSeq(u) /\ DOMAIN u = DOMAIN sorted
      BY <2>3, <2>4, FunctionIsSeq
    <2> QED
      BY <2>3, <2>5, SeqFacts DEF u
  <1> QED
    BY <1>1, <1>2, <1>3, <1>5, <1>6, <1>7

(* Renaming one after the other is renaming both.                          *)
LEMMA RenamedConcat ==
  ASSUME NEW a, NEW p, NEW y, NEW z, NEW y1, NEW z1, IsSeq(y), IsSeq(z),
         Renamed(a, p, y, y1), Renamed(a, p, z, z1)
  PROVE  Renamed(a, p, Joined(y, z), Joined(y1, z1))
  <1> DEFINE yz == Joined(y, z)
             new == Joined(y1, z1)
             n == Len(y)
  <1>1. IsSeq(y1) /\ IsSeq(z1) /\ Len(y1) = n /\ Len(z1) = Len(z)
        /\ DOMAIN y1 = DOMAIN y /\ DOMAIN z1 = DOMAIN z
    BY DEF Renamed
  <1>2. n \in Nat /\ Len(z) \in Nat /\ DOMAIN y = 1 .. n /\ DOMAIN z = 1 .. Len(z)
    BY SeqFacts
  <1>3. /\ IsSeq(yz) /\ Len(yz) = n + Len(z)
        /\ \A i \in 1 .. n + Len(z) : yz[i] = IF i <= n THEN y[i] ELSE z[i - n]
    BY ConcatElements DEF Joined
  <1>4. /\ IsSeq(new) /\ Len(new) = n + Len(z)
        /\ \A i \in 1 .. n + Len(z) : new[i] = IF i <= n THEN y1[i] ELSE z1[i - n]
    BY <1>1, ConcatElements DEF Joined
  <1> HIDE DEF yz, new, n
  <1>5. DOMAIN yz = 1 .. n + Len(z) /\ DOMAIN new = 1 .. n + Len(z)
    BY <1>3, <1>4, SeqFacts
  <1>6. ASSUME NEW i \in DOMAIN yz PROVE RenamedAs(a, p, yz[i], new[i])
    <2>1. CASE i <= n
      <3>1. i \in DOMAIN y /\ yz[i] = y[i] /\ new[i] = y1[i]
        BY <1>2, <1>3, <1>4, <1>5, <2>1
      <3>2. RenamedAs(a, p, y[i], y1[i])
        BY <3>1 DEF Renamed
      <3> QED
        BY <3>1, <3>2
    <2>2. CASE ~(i <= n)
      <3>1. i - n \in DOMAIN z /\ yz[i] = z[i - n] /\ new[i] = z1[i - n]
        BY <1>2, <1>3, <1>4, <1>5, <2>2
      <3>2. RenamedAs(a, p, z[i - n], z1[i - n])
        BY <3>1 DEF Renamed
      <3> QED
        BY <3>1, <3>2
    <2> QED
      BY <2>1, <2>2
  <1>7. Renamed(a, p, yz, new)
    BY <1>3, <1>4, <1>5, <1>6 DEF Renamed
  <1> QED
    BY <1>7 DEF yz, new

-----------------------------------------------------------------------------
(* Parts without a statement of the kinds do not matter.                   *)
LEMMA OnlyOnePart ==
  ASSUME NEW k, IsSeq(k), NEW u, IsSeq(u)
  PROVE  /\ Seven(<<>>, <<>>, <<>>, <<>>, k, <<>>, <<>>) = k
         /\ Seven(<<>>, <<>>, <<>>, <<>>, <<>>, k, <<>>) = k
         /\ Seven(k, <<>>, <<>>, <<>>, <<>>, <<>>, <<>>) = k
         /\ Seven(<<>>, k, <<>>, <<>>, <<>>, <<>>, <<>>) = k
         /\ Seven(<<>>, <<>>, k, <<>>, <<>>, <<>>, <<>>) = k
         /\ Seven(<<>>, <<>>, <<>>, <<>>, <<>>, k, u) = Joined(k, u)
  <1>1. Joined(<<>>, <<>>) = <<>>
    BY EmptyIsSeq, SeqFacts DEF Joined
  <1>2. Joined(k, <<>>) = k /\ Joined(<<>>, k) = k
    BY SeqFacts DEF Joined
  <1> QED
    BY <1>1, <1>2, Zenon DEF Seven

(* Where the uses of qubits are in an adapted flat native program.         *)
LEMMA NativeParts ==
  ASSUME NEW p, WellFormed(p), NEW a, IsNative(p, a)
  PROVE  LET x == AdaptProgram(p, a) IN
         /\ Kept(x) = Rewritten(a, p, Kept(p))
         /\ Of(x, {"assign"}) = Rewritten(a, p, Of(p, {"assign"}))
         /\ Of(x, {"qubit"}) = QubitRegister(a, p)
         /\ Of(x, {"bit"}) = Of(p, {"bit"})
         /\ Of(x, {"init"}) = Initialization(p)
         /\ Of(x, {"assign", "measure"})
              = Joined(Rewritten(a, p, Of(p, {"assign"})), Supplement(a, p))
  <1> DEFINE q == QubitRegister(a, p)
             b == Of(p, {"bit"})
             i == Initialization(p)
             v == Verbatim(a)
             k == Rewritten(a, p, Kept(p))
             m == Rewritten(a, p, Of(p, {"assign"}))
             u == Supplement(a, p)
             x == Seven(q, b, i, v, k, m, u)
  <1>1. AdaptProgram(p, a) = x
    BY Zenon DEF AdaptProgram, Seven, Joined
  <1>2. /\ IsSeq(q) /\ \A s \in ToSet(q) : s.kind = "qubit"
        /\ IsSeq(i) /\ \A s \in ToSet(i) : s.kind = "init"
        /\ IsSeq(v) /\ \A s \in ToSet(v) : s.kind = "verbatim"
        /\ IsSeq(k) /\ \A s \in ToSet(k) : s.kind = "gate" /\ s.op # "gphase"
        /\ IsSeq(m) /\ \A s \in ToSet(m) : s.kind = "assign"
        /\ IsSeq(u) /\ \A s \in ToSet(u) : s.kind = "measure"
    BY AdaptedParts
  <1>3. IsSeq(b) /\ \A s \in ToSet(b) : s.kind = "bit"
    BY OfIsSeq, ProgramIsSeq
  <1> HIDE DEF q, b, i, v, k, m, u
  <1>4. IsSeq(q) /\ IsSeq(b) /\ IsSeq(i) /\ IsSeq(v) /\ IsSeq(k) /\ IsSeq(m) /\ IsSeq(u)
    BY <1>2, <1>3
  <1>5. /\ Kept(q) = <<>> /\ Kept(b) = <<>> /\ Kept(i) = <<>> /\ Kept(v) = <<>>
        /\ Kept(k) = k /\ Kept(m) = <<>> /\ Kept(u) = <<>>
    BY <1>2, <1>3, KeptAll, KeptNone
  <1>6. /\ Kept(x) = Seven(Kept(q), Kept(b), Kept(i), Kept(v), Kept(k), Kept(m), Kept(u))
        /\ \A K : Of(x, K) = Seven(Of(q, K), Of(b, K), Of(i, K), Of(v, K),
                                   Of(k, K), Of(m, K), Of(u, K))
    BY <1>4, PartsOfSeven
  <1>7. Kept(x) = k
    <2>1. Kept(x) = Seven(<<>>, <<>>, <<>>, <<>>, k, <<>>, <<>>)
      BY <1>5, <1>6, Zenon
    <2> QED
      BY <1>4, <2>1, OnlyOnePart
  <1>8. Of(x, {"assign"}) = m
    <2> DEFINE K == {"assign"}
    <2>1. /\ Of(q, K) = <<>> /\ Of(b, K) = <<>> /\ Of(i, K) = <<>> /\ Of(v, K) = <<>>
          /\ Of(k, K) = <<>> /\ Of(m, K) = m /\ Of(u, K) = <<>>
      BY <1>2, <1>3, OfAll, OfNone
    <2>2. Of(x, K) = Seven(<<>>, <<>>, <<>>, <<>>, <<>>, m, <<>>)
      BY <1>6, <2>1, Zenon
    <2> QED
      BY <1>4, <2>2, OnlyOnePart
  <1>9. Of(x, {"qubit"}) = q
    <2> DEFINE K == {"qubit"}
    <2>1. /\ Of(q, K) = q /\ Of(b, K) = <<>> /\ Of(i, K) = <<>> /\ Of(v, K) = <<>>
          /\ Of(k, K) = <<>> /\ Of(m, K) = <<>> /\ Of(u, K) = <<>>
      BY <1>2, <1>3, OfAll, OfNone
    <2>2. Of(x, K) = Seven(q, <<>>, <<>>, <<>>, <<>>, <<>>, <<>>)
      BY <1>6, <2>1, Zenon
    <2> QED
      BY <1>4, <2>2, OnlyOnePart
  <1>10. Of(x, {"assign", "measure"}) = Joined(m, u)
    <2> DEFINE K == {"assign", "measure"}
    <2>1. /\ Of(q, K) = <<>> /\ Of(b, K) = <<>> /\ Of(i, K) = <<>> /\ Of(v, K) = <<>>
          /\ Of(k, K) = <<>> /\ Of(m, K) = m /\ Of(u, K) = u
      BY <1>2, <1>3, OfAll, OfNone
    <2>2. Of(x, K) = Seven(<<>>, <<>>, <<>>, <<>>, <<>>, m, u)
      BY <1>6, <2>1, Zenon
    <2> QED
      BY <1>4, <2>2, OnlyOnePart
  <1>11. Of(x, {"bit"}) = b
    <2> DEFINE K == {"bit"}
    <2>1. /\ Of(q, K) = <<>> /\ Of(b, K) = b /\ Of(i, K) = <<>> /\ Of(v, K) = <<>>
          /\ Of(k, K) = <<>> /\ Of(m, K) = <<>> /\ Of(u, K) = <<>>
      BY <1>2, <1>3, OfAll, OfNone
    <2>2. Of(x, K) = Seven(<<>>, b, <<>>, <<>>, <<>>, <<>>, <<>>)
      BY <1>6, <2>1, Zenon
    <2> QED
      BY <1>4, <2>2, OnlyOnePart
  <1>12. Of(x, {"init"}) = i
    <2> DEFINE K == {"init"}
    <2>1. /\ Of(q, K) = <<>> /\ Of(b, K) = <<>> /\ Of(i, K) = i /\ Of(v, K) = <<>>
          /\ Of(k, K) = <<>> /\ Of(m, K) = <<>> /\ Of(u, K) = <<>>
      BY <1>2, <1>3, OfAll, OfNone
    <2>2. Of(x, K) = Seven(<<>>, <<>>, i, <<>>, <<>>, <<>>, <<>>)
      BY <1>6, <2>1, Zenon
    <2> QED
      BY <1>4, <2>2, OnlyOnePart
  <1> QED
    BY <1>1, <1>7, <1>8, <1>9, <1>10, <1>11, <1>12 DEF q, b, i, k, m, u

(* The sites of a flat native program are those of the device's register.  *)
LEMMA NativeReferences ==
  ASSUME NEW p, WellFormed(p), NEW a, IsNative(p, a)
  PROVE  \A s \in ToSet(Kept(p)) \union ToSet(Of(p, {"assign"})) :
           \A r \in ToSet(s.refs) : r.reg = "$"
  <1> DEFINE Site(s) == \A r \in ToSet(s.refs) : r.reg = "$"
  <1>1. ASSUME NEW s \in ToSet(p), s.kind = "assign" \/ (s.kind = "gate" /\ s.op # "gphase")
        PROVE  Site(s)
    <2>1. PICK i \in DOMAIN p : s = p[i]
      BY DEF ToSet
    <2>2. NativeStatement(a, Before(p, i), s)
      BY <2>1 DEF IsNative
    <2>3. KnownSites(a, s.refs)
      BY <1>1, <2>2 DEF NativeStatement
    <2> QED
      BY <2>3 DEF KnownSites, ToSet
  <1> HIDE DEF Site
  <1>2. \A s \in ToSet(Kept(p)) : Site(s)
    BY <1>1, KeptIsSeq, ProgramIsSeq
  <1>3. ASSUME NEW s \in ToSet(Of(p, {"assign"})) PROVE Site(s)
    <2>1. s \in ToSet(p) /\ s.kind \in {"assign"}
      BY OfIsSeq, ProgramIsSeq
    <2>2. s.kind = "assign"
      BY <2>1
    <2> QED
      BY <1>1, <2>1, <2>2
  <1> QED
    BY <1>2, <1>3 DEF Site

(* Its uses of qubits are renamed and otherwise kept.                      *)
LEMMA NativeUses ==
  ASSUME NEW p, WellFormed(p), NEW a, IsNative(p, a)
  PROVE  /\ Renamed(a, p, Uses(p), Uses(AdaptProgram(p, a)))
         /\ IsSeq(Uses(p))
         /\ \A s \in ToSet(Uses(p)) : \A r \in ToSet(s.refs) :
              r = [reg |-> "$", index |-> r.index] /\ r.index \in Sites(p)
  <1> DEFINE k == Kept(p)
             m == Of(p, {"assign"})
             x == AdaptProgram(p, a)
             k1 == Rewritten(a, p, k)
             m1 == Rewritten(a, p, m)
  <1>1. IsSeq(k) /\ IsSeq(m)
    BY KeptIsSeq, OfIsSeq, ProgramIsSeq
  <1>2. HaveRefs(k) /\ HaveRefs(m)
    BY SitesAreNumbers DEF HaveRefs
  <1>3. Kept(x) = k1 /\ Of(x, {"assign"}) = m1
    BY NativeParts
  <1>4. Uses(p) = Joined(k, m) /\ Uses(x) = Joined(k1, m1)
    BY <1>3 DEF Uses, Joined
  <1>5. \A s \in ToSet(k) \union ToSet(m) : \A r \in ToSet(s.refs) :
          r = [reg |-> r.reg, index |-> r.index] /\ r.index \in Sites(p) /\ r.reg = "$"
    BY SitesAreNumbers, NativeReferences
  <1> HIDE DEF k, m, x
  <1>6. Renamed(a, p, k, k1) /\ Renamed(a, p, m, m1)
    BY <1>1, <1>2, RewrittenStatements
  <1> HIDE DEF k1, m1
  <1>7. Renamed(a, p, Joined(k, m), Joined(k1, m1))
    BY <1>1, <1>6, RenamedConcat
  <1>8. IsSeq(Joined(k, m)) /\ ToSet(Joined(k, m)) = ToSet(k) \union ToSet(m)
    BY <1>1, ConcatIsSeq DEF Joined
  <1>9. \A s \in ToSet(Joined(k, m)) : \A r \in ToSet(s.refs) :
          r = [reg |-> "$", index |-> r.index] /\ r.index \in Sites(p)
    BY <1>5, <1>8
  <1> QED
    BY <1>4, <1>7, <1>8, <1>9 DEF x

(* Any other program is only stripped of its includes.                     *)
LEMMA OtherParts ==
  ASSUME NEW p, WellFormed(p), NEW a, ~IsNative(p, a)
  PROVE  LET x == AdaptProgram(p, a) IN
         /\ IsSeq(x) /\ ToSet(x) \subseteq ToSet(p) /\ Kept(x) = Kept(p)
         /\ \A K : "include" \notin K => Of(x, K) = Of(p, K)
  <1> DEFINE X == ToSet(p)
             S == {s \in X : s.kind # "include"}
             G == {s \in X : s.kind = "gate" /\ s.op # "gphase"}
             x == Selection(p, S)
  <1>1. AdaptProgram(p, a) = x
    BY DEF AdaptProgram
  <1>2. p \in Seq(X)
    BY DEF WellFormed
  <1>3. x \in Seq(X \intersect S)
    BY <1>2, SelectedIsSeq
  <1>4. IsSeq(x) /\ ToSet(x) \subseteq X
    BY <1>3, IsSeqOf
  <1>5. x \in Seq(X)
    BY <1>4, SeqMonotonic DEF IsSeq
  <1>6. Kept(x) = Kept(p)
    <2>1. Kept(x) = Selection(x, G)
      <3>1. Kept(x) = Selection(x, {s \in ToSet(x) : s.kind = "gate" /\ s.op # "gphase"})
        BY DEF Kept
      <3>2. \A s \in ToSet(x) :
              s \in {t \in ToSet(x) : t.kind = "gate" /\ t.op # "gphase"} <=> s \in G
        BY <1>4
      <3> HIDE DEF x, G
      <3> QED
        BY <1>5, <3>1, <3>2, SelectionAgrees
    <2>2. Selection(x, G) = Selection(p, S \intersect G)
      BY <1>2, SelectionTwice
    <2>3. Selection(p, S \intersect G) = Selection(p, G)
      <3>1. \A s \in ToSet(p) : s \in S \intersect G <=> s \in G
        OBVIOUS
      <3> HIDE DEF S, G
      <3> QED
        BY <1>2, <3>1, SelectionAgrees
    <2>4. Selection(p, G) = Kept(p)
      BY DEF Kept
    <2> QED
      BY <2>1, <2>2, <2>3, <2>4
  <1>7. ASSUME NEW K, "include" \notin K PROVE Of(x, K) = Of(p, K)
    <2> DEFINE M == {s \in X : s.kind \in K}
    <2>1. Of(x, K) = Selection(x, M)
      <3>1. Of(x, K) = Selection(x, {s \in ToSet(x) : s.kind \in K})
        BY DEF Of
      <3>2. \A s \in ToSet(x) : s \in {t \in ToSet(x) : t.kind \in K} <=> s \in M
        BY <1>4
      <3> HIDE DEF x, M
      <3> QED
        BY <1>5, <3>1, <3>2, SelectionAgrees
    <2>2. Selection(x, M) = Selection(p, S \intersect M)
      BY <1>2, SelectionTwice
    <2>3. Selection(p, S \intersect M) = Selection(p, M)
      <3>1. \A s \in ToSet(p) : s \in S \intersect M <=> s \in M
        BY <1>7
      <3> HIDE DEF S, M
      <3> QED
        BY <1>2, <3>1, SelectionAgrees
    <2>4. Selection(p, M) = Of(p, K)
      BY DEF Of
    <2> QED
      BY <2>1, <2>2, <2>3, <2>4
  <1> HIDE DEF x
  <1> QED
    BY <1>1, <1>4, <1>6, <1>7

(* It keeps its uses of qubits as they are.                                *)
LEMMA OtherUses ==
  ASSUME NEW p, WellFormed(p), NEW a, ~IsNative(p, a)
  PROVE  Uses(AdaptProgram(p, a)) = Uses(p)
  BY OtherParts DEF Uses

(* What SitesKeepTheirRoles says of a program and what became of it.       *)
RolesKept(p, x) ==
  /\ [k \in DOMAIN Uses(p) |-> Bare(Uses(p)[k])] = [k \in DOMAIN Uses(x) |-> Bare(Uses(x)[k])]
  /\ \A v, w \in Roles(p, x) : v[1] = w[1] <=> v[2] = w[2]

(* Adaptation keeps the roles of all sites, whatever the program.          *)
LEMMA AdaptationKeepsRoles ==
  ASSUME NEW p, WellFormed(p), NEW a
  PROVE  RolesKept(p, AdaptProgram(p, a))
  <1> DEFINE x == AdaptProgram(p, a)
             y == Uses(p)
             z == Uses(x)
  <1>1. Roles(p, x) = UNION {{<<y[k].refs[r], z[k].refs[r]>> : r \in DOMAIN y[k].refs} :
                               k \in DOMAIN y}
    BY DEF Roles
  <1>2. ASSUME NEW v \in Roles(p, x)
        PROVE  \E k \in DOMAIN y : \E r \in DOMAIN y[k].refs :
                 v[1] = y[k].refs[r] /\ v[2] = z[k].refs[r]
    BY <1>1
  <1>3. CASE ~IsNative(p, a)
    <2>1. z = y
      BY <1>3, OtherUses
    <2> HIDE DEF z, y
    <2>2. \A v \in Roles(p, x) : v[1] = v[2]
      BY <1>2, <2>1
    <2>3. \A v, w \in Roles(p, x) : v[1] = w[1] <=> v[2] = w[2]
      BY <2>2
    <2> QED
      BY <2>1, <2>3 DEF RolesKept, z, y
  <1>4. CASE IsNative(p, a)
    <2>1. /\ Renamed(a, p, y, z) /\ IsSeq(y)
          /\ \A s \in ToSet(y) : \A r \in ToSet(s.refs) :
               r = [reg |-> "$", index |-> r.index] /\ r.index \in Sites(p)
      BY <1>4, NativeUses
    <2> HIDE DEF z, y
    <2>2. DOMAIN z = DOMAIN y /\ \A k \in DOMAIN y : RenamedAs(a, p, y[k], z[k])
      BY <2>1 DEF Renamed
    <2>3. \A k \in DOMAIN y : Bare(z[k]) = Bare(y[k])
      BY <2>2 DEF RenamedAs
    <2>4. [k \in DOMAIN y |-> Bare(y[k])] = [k \in DOMAIN z |-> Bare(z[k])]
      BY <2>2, <2>3
    <2>5. ASSUME NEW v \in Roles(p, x)
          PROVE  \E n \in Sites(p) :
                   v[1] = [reg |-> "$", index |-> n] /\ v[2] = Reference(a, p, n)
      <3>1. PICK k \in DOMAIN y : \E r \in DOMAIN y[k].refs :
                 v[1] = y[k].refs[r] /\ v[2] = z[k].refs[r]
        BY <1>2
      <3>2. PICK r \in DOMAIN y[k].refs : v[1] = y[k].refs[r] /\ v[2] = z[k].refs[r]
        BY <3>1
      <3>3. y[k] \in ToSet(y) /\ v[1] \in ToSet(y[k].refs)
        BY <3>2 DEF ToSet
      <3>4. z[k].refs = [i \in DOMAIN y[k].refs |-> Reference(a, p, y[k].refs[i].index)]
        BY <2>2 DEF RenamedAs
      <3> QED
        BY <2>1, <3>2, <3>3, <3>4
    <2>6. ASSUME NEW v \in Roles(p, x), NEW w \in Roles(p, x)
          PROVE  v[1] = w[1] <=> v[2] = w[2]
      <3>1. PICK n \in Sites(p) :
                 v[1] = [reg |-> "$", index |-> n] /\ v[2] = Reference(a, p, n)
        BY <2>5
      <3>2. PICK m \in Sites(p) :
                 w[1] = [reg |-> "$", index |-> m] /\ w[2] = Reference(a, p, m)
        BY <2>5
      <3>3. Reference(a, p, n) = Reference(a, p, m) => n = m
        BY ReferencesDiffer
      <3>4. [reg |-> "$", index |-> n] = [reg |-> "$", index |-> m] => n = m
        <4>1. [reg |-> "$", index |-> n].index = n /\ [reg |-> "$", index |-> m].index = m
          OBVIOUS
        <4> QED
          BY <4>1
      <3> QED
        BY <3>1, <3>2, <3>3, <3>4
    <2> QED
      BY <2>4, <2>6 DEF RolesKept, y, z
  <1> QED
    BY <1>3, <1>4

(* What FormIsTheDevices says.                                             *)
HasForm(a, x) ==
  LET used == RefsOf(Uses(x)) IN
  /\ ~a.supportPhysicalQubits =>
       \A r \in used : r.reg = Register(x, "qubit") /\ r.index < Width(x, "qubit")
  /\ a.requiresAllQubitsMeasurement =>
       used \subseteq RefsOf(Of(x, {"assign", "measure"}))

(* The renamed references are those of the sites.                          *)
LEMMA RenamedRefs ==
  ASSUME NEW a, NEW p, NEW st, NEW new, IsSeq(st), Renamed(a, p, st, new)
  PROVE  RefsOf(new) = {Reference(a, p, r.index) : r \in RefsOf(st)}
  <1>1. /\ IsSeq(new) /\ DOMAIN new = DOMAIN st
        /\ \A i \in DOMAIN st : RenamedAs(a, p, st[i], new[i])
    BY DEF Renamed
  <1>2. ASSUME NEW t \in RefsOf(new) PROVE \E r \in RefsOf(st) : t = Reference(a, p, r.index)
    <2>1. PICK i \in DOMAIN st : t \in ToSet(new[i].refs)
      BY <1>1 DEF RefsOf, ToSet
    <2>2. new[i].refs = [k \in DOMAIN st[i].refs |-> Reference(a, p, st[i].refs[k].index)]
      BY <1>1 DEF RenamedAs
    <2>3. PICK k \in DOMAIN st[i].refs : t = Reference(a, p, st[i].refs[k].index)
      BY <2>1, <2>2 DEF ToSet
    <2>4. st[i].refs[k] \in RefsOf(st)
      BY DEF RefsOf, ToSet
    <2> QED
      BY <2>3, <2>4
  <1>3. ASSUME NEW r \in RefsOf(st) PROVE Reference(a, p, r.index) \in RefsOf(new)
    <2>1. PICK i \in DOMAIN st : r \in ToSet(st[i].refs)
      BY DEF RefsOf, ToSet
    <2>2. PICK k \in DOMAIN st[i].refs : r = st[i].refs[k]
      BY <2>1 DEF ToSet
    <2>3. new[i].refs = [j \in DOMAIN st[i].refs |-> Reference(a, p, st[i].refs[j].index)]
      BY <1>1 DEF RenamedAs
    <2>4. Reference(a, p, r.index) \in ToSet(new[i].refs)
      BY <2>2, <2>3 DEF ToSet
    <2>5. new[i] \in ToSet(new)
      BY <1>1 DEF ToSet
    <2> QED
      BY <2>4, <2>5 DEF RefsOf
  <1> QED
    BY <1>2, <1>3

(* An adapted flat native program has the form.                            *)
LEMMA AdaptationHasForm ==
  ASSUME NEW p, WellFormed(p), NEW a, IsNative(p, a)
  PROVE  HasForm(a, AdaptProgram(p, a))
  <1> DEFINE x == AdaptProgram(p, a)
             used == RefsOf(Uses(x))
             sites == Sites(p)
             m == Of(p, {"assign"})
             m1 == Rewritten(a, p, m)
             u == Supplement(a, p)
  <1>1. /\ Renamed(a, p, Uses(p), Uses(x)) /\ IsSeq(Uses(p))
        /\ \A s \in ToSet(Uses(p)) : \A r \in ToSet(s.refs) :
             r = [reg |-> "$", index |-> r.index] /\ r.index \in sites
    BY NativeUses
  <1>2. used = {Reference(a, p, r.index) : r \in RefsOf(Uses(p))}
    BY <1>1, RenamedRefs
  <1>3. \A r \in RefsOf(Uses(p)) : r.index \in sites
    BY <1>1 DEF RefsOf
  <1>4. \A r \in used : \E n \in sites : r = Reference(a, p, n)
    BY <1>2, <1>3
  <1>5. sites \subseteq Nat /\ IsFiniteSet(sites)
    BY SitesAreNumbers
  <1>6. /\ Of(x, {"qubit"}) = QubitRegister(a, p)
        /\ Of(x, {"assign", "measure"}) = Joined(m1, u)
    BY NativeParts
  <1> HIDE DEF x, used, sites
  <1>7. ASSUME ~a.supportPhysicalQubits, NEW r \in used
        PROVE  r.reg = Register(x, "qubit") /\ r.index < Width(x, "qubit")
    <2>1. PICK n \in sites : r = Reference(a, p, n)
      BY <1>4
    <2>2. r = [reg |-> "q", index |-> Dense(p, n)]
      BY <1>7, <2>1 DEF Reference
    <2>3. Dense(p, n) \in 0 .. Cardinality(sites) - 1 /\ Cardinality(sites) \in Nat
      BY <1>5, RanksOfNumbers, FS_CardinalityType DEF Dense, sites
    <2>4. QubitRegister(a, p)
            = <<[kind |-> "qubit", name |-> "q", width |-> Cardinality(sites)]>>
      BY <1>7, <2>1 DEF QubitRegister, sites
    <2>5. Of(x, {"qubit"}) # <<>> /\ Of(x, {"qubit"})[1].name = "q"
          /\ Of(x, {"qubit"})[1].width = Cardinality(sites)
      BY <1>6, <2>4
    <2>6. Register(x, "qubit") = "q" /\ Width(x, "qubit") = Cardinality(sites)
      BY <2>5 DEF Register, Width, Has
    <2> QED
      BY <2>2, <2>3, <2>6
  <1>8. ASSUME a.requiresAllQubitsMeasurement, NEW r \in used
        PROVE  r \in RefsOf(Joined(m1, u))
    <2>1. PICK n \in sites : r = Reference(a, p, n)
      BY <1>4
    <2>2. IsSeq(m) /\ HaveRefs(m)
      BY OfIsSeq, SitesAreNumbers, ProgramIsSeq DEF HaveRefs
    <2>3. Renamed(a, p, m, m1)
      BY <2>2, RewrittenStatements
    <2>4. IsSeq(m1) /\ IsSeq(u)
      BY AdaptedParts
    <2> HIDE DEF m1, u
    <2>5. RefsOf(Joined(m1, u)) = RefsOf(m1) \union RefsOf(u)
      <3>1. ToSet(Joined(m1, u)) = ToSet(m1) \union ToSet(u)
        BY <2>4, ConcatIsSeq DEF Joined
      <3> QED
        BY <3>1 DEF RefsOf
    <2>6. CASE n \in Measured(p)
      <3>1. Measured(p) = {t.index : t \in RefsOf(m)}
        BY DEF Measured
      <3>2. RefsOf(m1) = {Reference(a, p, t.index) : t \in RefsOf(m)}
        BY <2>2, <2>3, RenamedRefs
      <3> HIDE DEF m
      <3>3. r \in RefsOf(m1)
        BY <2>1, <2>6, <3>1, <3>2
      <3> QED
        BY <2>5, <3>3
    <2>7. CASE n \notin Measured(p)
      <3> DEFINE rest == sites \ Measured(p)
                 sorted == Ascending(rest)
      <3>1. rest \subseteq Nat /\ IsFiniteSet(rest)
        BY <1>5, FS_Subset
      <3>2. n \in rest
        BY <2>7
      <3>3. u = [i \in DOMAIN sorted |->
                   [kind |-> "measure", refs |-> <<Reference(a, p, sorted[i])>>]]
        BY <1>8 DEF Supplement, Ascending, u, sites
      <3> HIDE DEF rest
      <3>4. n \in ToSet(sorted)
        BY <3>1, <3>2, AscendingListsAll
      <3> HIDE DEF sorted
      <3>5. PICK i \in DOMAIN sorted : n = sorted[i]
        BY <3>4 DEF ToSet
      <3>6. u[i].refs = <<r>> /\ u[i] \in ToSet(u)
        BY <2>1, <3>3, <3>5 DEF ToSet
      <3>7. r \in ToSet(u[i].refs)
        BY <3>6, SingleIsSeq
      <3>8. r \in RefsOf(u)
        BY <3>6, <3>7 DEF RefsOf
      <3> QED
        BY <2>5, <3>8
    <2> QED
      BY <2>6, <2>7
  <1> QED
    BY <1>6, <1>7, <1>8 DEF HasForm, x, used

-----------------------------------------------------------------------------
(* The sources of a task are the adapted programs of its job.              *)
SourcesInv ==
  /\ programs = <<>> \/ programs \in ProgramLists
  /\ sources = IF task = None THEN <<>>
               ELSE [i \in DOMAIN programs |-> AdaptProgram(programs[i], arch)]

(* Each step keeps the sources of the task.                                *)
LEMMA SourcesNext == ShotsInv /\ SourcesInv /\ [Next]_vars => SourcesInv'
  <1> SUFFICES ASSUME ShotsInv, SourcesInv, [Next]_vars PROVE SourcesInv'
    OBVIOUS
  <1> USE DEF SourcesInv
  <1>1. ASSUME NEW list \in ProgramLists, SetPrograms(list) PROVE SourcesInv'
    BY <1>1 DEF SetPrograms
  <1>2. ASSUME NEW n \in ShotValues, SetShots(n) PROVE SourcesInv'
    BY <1>2 DEF SetShots
  <1>3. CASE Submit
    <2>1. Len(programs) \in Nat /\ shots \in Nat
      BY <1>3, MaxAssumption DEF Submit, ShotsInv, AcceptedInv
    <2>2. Wrap(shots * Len(programs)) \in Int
      BY <2>1, MaxAssumption DEF Wrap
    <2>3. task' \in [shots : Int, programSet : BOOLEAN, programs : Int, executables : Int]
      BY <1>3, <2>1, <2>2 DEF Submit
    <2>4. task' # None
      BY <2>3, TasksAssumption
    <2> QED
      BY <1>3, <2>4 DEF Submit
  <1>4. CASE ServiceRuns
    BY <1>4 DEF ServiceRuns
  <1>5. ASSUME NEW i \in DOMAIN results, Read(i) PROVE SourcesInv'
    BY <1>5 DEF Read
  <1>6. ASSUME NEW t \in ForeignTasks \union ({task} \ {None}), Reopen(t)
        PROVE  SourcesInv'
    BY <1>6 DEF Reopen
  <1>7. CASE UNCHANGED vars
    BY <1>7 DEF vars
  <1> QED
    BY <1>1, <1>2, <1>3, <1>4, <1>5, <1>6, <1>7 DEF Next

(* The sources of the task in every reachable state.                       *)
LEMMA SourcesInvariance == Spec => []SourcesInv
  <1>1. Init => SourcesInv
    BY DEF Init, SourcesInv
  <1> QED
    BY <1>1, SourcesNext, ShotsInvariance, PTL DEF Spec

(* A source is what became of a program of the client.                     *)
LEMMA SourcesAreAdapted ==
  ASSUME SourcesInv, NEW i \in DOMAIN sources
  PROVE  WellFormed(programs[i]) /\ sources[i] = AdaptProgram(programs[i], arch)
  <1>1. i \in DOMAIN programs /\ sources[i] = AdaptProgram(programs[i], arch)
    BY DEF SourcesInv
  <1>2. programs \in ProgramLists
    BY <1>1 DEF SourcesInv
  <1>3. programs[i] \in ToSet(programs)
    BY <1>1 DEF ToSet
  <1>4. WellFormed(programs[i])
    BY <1>2, <1>3, ProgramsAssumption
  <1> QED
    BY <1>1, <1>4

(* However a program is adapted to a device, it keeps the gates and        *)
(* measurements the client wrote, in order, with no two sites made one and *)
(* none made two.                                                          *)
THEOREM SitesKept == Spec => []SitesKeepTheirRoles
  <1>1. SourcesInv => SitesKeepTheirRoles
    <2> SUFFICES ASSUME SourcesInv, NEW i \in DOMAIN sources
                 PROVE  RolesKept(programs[i], sources[i])
      BY DEF SitesKeepTheirRoles, RolesKept
    <2> QED
      BY SourcesAreAdapted, AdaptationKeepsRoles
  <1> QED
    BY <1>1, SourcesInvariance, PTL

(* A flat native program is submitted in the form its device takes.        *)
THEOREM FormKept == Spec => []FormIsTheDevices
  <1>1. SourcesInv => FormIsTheDevices
    <2> SUFFICES ASSUME SourcesInv, NEW i \in DOMAIN sources, IsNative(programs[i], arch)
                 PROVE  HasForm(arch, sources[i])
      BY DEF FormIsTheDevices, HasForm
    <2> QED
      BY SourcesAreAdapted, AdaptationHasForm
  <1> QED
    BY <1>1, SourcesInvariance, PTL
=============================================================================
