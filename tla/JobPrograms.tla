----------------------------- MODULE JobPrograms -----------------------------
(* A job's programs from the client to the results: the number of shots and  *)
(* the programs are set, checked against the limits of the device, adapted   *)
(* and submitted as one task; the service runs it; its shots are read back,  *)
(* and the task is opened again as another job.  Calls do not overlap here;  *)
(* DeviceJob has their interleavings.                                        *)
(*                                                                           *)
(* An operator whose name begins with Buggy is a wrong version of the one    *)
(* that follows it; no specification uses it.                                *)
EXTENDS OpenQasm

CONSTANTS
  Devices,         \* capability documents of devices
  ProgramLists,    \* programs a client may set together
  DefaultShots,    \* the number of shots of a new job
  ShotValues,      \* numbers of shots a client may set
  ForeignTasks,    \* tasks other clients have created on the device
  MaxInt64,        \* numeric_limits<int64_t>::max()
  Success

VARIABLES
  caps,       \* the capabilities of the session's device
  arch,       \* what the library made of them
  shots,      \* shots_ of the job
  programs,   \* programs_ of the job
  task,       \* the task the service has for the job, None before that
  sources,    \* the sources of its programs
  results,    \* what the service has for each program of the task
  read,       \* the bitstring of each program that was read
  opened      \* the job opened for a task, None before that

vars == <<caps, arch, shots, programs, task, sources, results, read, opened>>

ASSUME MaxAssumption == MaxInt64 \in Nat /\ MaxSize = 2 * MaxInt64 + 1
(* A document is finite, and an entry of fidelities is for two labels.       *)
ASSUME DevicesAssumption ==
  \A d \in Devices :
    /\ d.qubitCount \in Int /\ d.qubitCount <= MaxSize
    /\ d.connectivity # None => LET graph == d.connectivity.graph IN
         graph # None => /\ IsFiniteSet(GraphLabels(graph))
                         /\ GraphLabels(graph) \subseteq ToSet(TextOrder)
    /\ DOMAIN d.fidelities = 1 .. Len(d.fidelities)
    /\ \A e \in ToSet(d.fidelities) : e.pair = <<e.pair[1], e.pair[2]>>
ASSUME ShotsAssumption == ShotValues \union {DefaultShots} \subseteq 0 .. MaxSize
(* A statement as OpenQasm describes them: gates and measurements refer to   *)
(* elements of registers.                                                    *)
WellFormedStatement(s) ==
  /\ s.kind \in {"gate", "assign", "measure"} =>
       /\ "refs" \in DOMAIN s /\ s.refs \in Seq(ToSet(s.refs))
       /\ \A r \in ToSet(s.refs) : r \in [reg : {r.reg}, index : Nat]
  /\ s.kind = "assign" => /\ {"name", "slot"} \subseteq DOMAIN s
                          /\ s.slot \in Nat /\ Len(s.refs) = 1
  /\ s.kind = "init" => s.bits \in Seq({0, 1})
  /\ s.kind = "bit" => s.width \in Nat
WellFormed(p) == p \in Seq(ToSet(p)) /\ \A s \in ToSet(p) : WellFormedStatement(s)
(* A client sets at least one program.                                       *)
ASSUME ProgramsAssumption ==
  \A list \in ProgramLists :
    list \in Seq(ToSet(list)) /\ Len(list) > 0 /\ \A p \in ToSet(list) : WellFormed(p)
ASSUME TasksAssumption ==
  /\ None \notin ForeignTasks
  /\ None \notin [shots : Int, programSet : BOOLEAN, programs : Int, executables : Int]
  /\ \A t \in ForeignTasks : t.shots \in Int /\ t.programs \in Int
ASSUME ValuesAssumption ==
  /\ Success \notin {Fatal, NotSupported} /\ "ok" \notin {None, Fatal}
  /\ None \notin Nat \union {Fatal, "$"}
(* Nor is a readout a special value.                                         *)
ASSUME ReadoutAssumption ==
  \A list \in ProgramLists : \A p \in ToSet(list) : \A s \in ToSet(p) :
    s.kind = "bit" =>
      {None, Fatal} \intersect
        [initial : Seq({0, 1}), sites : [0 .. s.width - 1 -> Nat \union {None}]] = {}

Wrap(n) == n % (MaxSize + 1)
Parsed == arch \notin {Fatal, NotSupported}

Init ==
  /\ caps \in Devices
  /\ arch = ParseProperties(caps)
  /\ shots = DefaultShots
  /\ programs = <<>>
  /\ task = None
  /\ sources = <<>>
  /\ results = <<>>
  /\ read = <<>>
  /\ opened = None

------------------------------------------------------------------------------
BuggyWithinLimits(limits, count, n) ==
  /\ limits # None
  /\ count <= limits.maximumExecutables
  /\ Wrap(n * count) \in limits.minimumTotalShots .. limits.maximumTotalShots
(* The limits of the task and of each of its programs.                       *)
WithinLimits(limits, count, n) ==
  /\ limits # None
  /\ count <= limits.maximumExecutables
  /\ Wrap(n * count) \in limits.minimumTotalShots .. limits.maximumTotalShots
  /\ n >= limits.minimumShotsPerProgram
  /\ limits.maximumShotsPerProgram # 0 => n <= limits.maximumShotsPerProgram

BuggyFits(count, n) == TRUE
(* The task's shots are a signed integer.                                    *)
ProductFits(count, n) == count <= MaxInt64 /\ n <= MaxInt64 \div count

SupportsPrograms(count, n) ==
  IF ~ProductFits(count, n) THEN NotSupported
  ELSE IF count = 1 THEN Success
  ELSE IF ~Parsed THEN arch
  ELSE IF WithinLimits(arch.programSetLimits, count, n) THEN Success
  ELSE NotSupported

SetPrograms(list) ==
  /\ task = None
  /\ SupportsPrograms(Len(list), shots) = Success
  /\ programs' = list
  /\ UNCHANGED <<caps, arch, shots, task, sources, results, read, opened>>

SetShots(n) ==
  /\ task = None
  /\ programs # <<>> => SupportsPrograms(Len(programs), n) = Success
  /\ shots' = n
  /\ UNCHANGED <<caps, arch, programs, task, sources, results, read, opened>>

(* The request of the task: one program, or a program set of several.        *)
Submit ==
  /\ task = None
  /\ programs # <<>>
  /\ Parsed
  /\ task' = [shots |-> Wrap(shots * Len(programs)), programSet |-> Len(programs) > 1,
              programs |-> Len(programs), executables |-> Len(programs)]
  /\ sources' = [i \in DOMAIN programs |-> AdaptProgram(programs[i], arch)]
  /\ results' = [i \in DOMAIN programs |-> None]
  /\ read' = [i \in DOMAIN programs |-> None]
  /\ UNCHANGED <<caps, arch, shots, programs, opened>>

------------------------------------------------------------------------------
(* What the service reports: the qubits that were measured, all used ones    *)
(* if no statement names any.                                                *)
Requested(p) ==
  LET measured == RefsOf(Of(p, {"assign", "measure"})) IN
  {r.index : r \in IF measured # {} THEN measured ELSE RefsOf(Of(p, {"gate"}))}

Orders(S) == {q \in [1 .. Cardinality(S) -> S] : IsInjective(q)}

(* A shot of the next program: its qubits in any order, with or without the  *)
(* source.                                                                   *)
ServiceRuns ==
  /\ None \in ToSet(results)
  /\ LET i == SelectInSeq(results, LAMBDA r : r = None)
         qubits == Requested(sources[i])
     IN \E order \in Orders(qubits), shot \in [1 .. Cardinality(qubits) -> {0, 1}],
           source \in {None, sources[i]} :
          results' = [results EXCEPT ![i] = [measuredQubits |-> order, shot |-> shot,
                                             source |-> source]]
  /\ UNCHANGED <<caps, arch, shots, programs, task, sources, read, opened>>

Read(i) ==
  /\ task # None /\ i \in DOMAIN results
  /\ results[i] # None /\ read[i] = None
  /\ read' = [read EXCEPT ![i] = ParseMeasurementResults(results[i], results[i].source)]
  /\ UNCHANGED <<caps, arch, shots, programs, task, sources, results, opened>>

BuggyDivides(t) == t.programs > 0 /\ t.programs = t.executables
Divides(t) ==
  t.programs > 0 /\ t.programs = t.executables /\ t.shots % t.programs = 0

(* openDeviceJob: the job's shots are those of one program.                  *)
Reopen(t) ==
  /\ opened = None
  /\ InRange(t.shots)
  /\ t.programSet => Divides(t)
  /\ LET count == IF t.programSet THEN t.programs ELSE 1 IN
     opened' = [shots |-> t.shots \div count, programs |-> count,
                programSet |-> t.programSet, from |-> t]
  /\ UNCHANGED <<caps, arch, shots, programs, task, sources, results, read>>

Next ==
  \/ \E list \in ProgramLists : SetPrograms(list)
  \/ \E n \in ShotValues : SetShots(n)
  \/ Submit
  \/ ServiceRuns
  \/ \E i \in DOMAIN results : Read(i)
  \/ \E t \in ForeignTasks \union ({task} \ {None}) : Reopen(t)

Spec == Init /\ [][Next]_vars

------------------------------------------------------------------------------
TypeOK ==
  /\ caps \in Devices
  /\ shots \in 0 .. MaxSize
  /\ programs \in ProgramLists \union {<<>>}
  /\ task # None => task.shots \in 0 .. MaxInt64 /\ task.programs = Len(programs)
  /\ \A i \in DOMAIN read : read[i] \in {None, Fatal} \/ Range(read[i]) \subseteq {0, 1}

(* No two sites of a device are the same site of a program, a label that is  *)
(* a number keeps it ($3 of a program is the site the provider calls 3), and *)
(* two-qubit operations apply to the indices of joined labels and no others  *)
(* (parseSitesAndConnectivity, populateOperationSites).                      *)
SitesAreProgramIndices ==
  Parsed =>
    /\ IsInjective(arch.sites)
    /\ \A l \in DOMAIN arch.sites : IsDecimalSiteName(l) => arch.sites[l] = Decimal[l]
    /\ \A a, b \in DOMAIN arch.sites, o \in arch.native :
         Qubits(o) = 2 /\ ~arch.fullyConnected =>
           LET graph == caps.connectivity.graph IN
           <<arch.sites[a], arch.sites[b]>> \in arch.sitesOf[o]
             <=> a \in DOMAIN graph /\ b \in ToSet(graph[a])

(* The fidelity of an operation on a pair of sites is one the document gives *)
(* for these two sites; one that has a direction is never reported for the   *)
(* other (parseOperationFidelities, and the lookup of queryOperationProperty).*)
FidelityIsTheDevices ==
  Parsed => \A a, b \in DOMAIN arch.sites, g \in arch.native \union arch.supported :
    LET value == FidelityOf(arch, g, <<arch.sites[a], arch.sites[b]>>)
        Given(e) == /\ e.gate = g /\ e.value # None
                    /\ \/ FidelityPair(e) = <<a, b>>
                       \/ e.direction = None /\ FidelityPair(e) = <<b, a>>
    IN IF value = None THEN ~\E e \in ToSet(caps.fidelities) : Given(e)
       ELSE \E e \in ToSet(caps.fidelities) : Given(e) /\ e.value = value

(* The task's shots are the shots of all programs, as a product that neither *)
(* wraps nor becomes negative, and a program set is within every limit of    *)
(* the device's document, in whatever order shots and programs were set; a   *)
(* range of shots that ends at 0 has no upper limit, as in supportsPrograms  *)
(* (setParameter, setPrograms, supportsPrograms, parseProperties).           *)
LimitsRespected ==
  task # None =>
    /\ task.shots = shots * Len(programs) /\ task.shots <= MaxInt64
    /\ task.programSet =>
         LET set == caps.programSets IN
         /\ "1" \in ToSet(set.versions)
         /\ task.programs <= set.maximumExecutables
         /\ task.shots <= set.maximumTotalShots
         /\ set.minimumTotalShots # None => task.shots >= set.minimumTotalShots
         /\ caps.shotsRange # None =>
              /\ shots >= caps.shotsRange[1]
              /\ caps.shotsRange[2] # 0 => shots <= caps.shotsRange[2]

(* A job opened for a task reports the shots of each of its programs: for    *)
(* the task of this session's job the number the client set, for any task a  *)
(* number that adds up to the task's shots (openDeviceJob).                  *)
ReopenedShotsAddUp ==
  opened # None =>
    /\ opened.shots * opened.programs = opened.from.shots
    /\ opened.from = task => opened.shots = shots /\ opened.programs = Len(programs)

(* Gates and measurements that the client wrote, in order.                   *)
Uses(p) == Kept(p) \o Of(p, {"assign"})

(* Each use of a qubit in the client's program, with what it became.         *)
Roles(p, a) ==
  UNION {{<<Uses(p)[k].refs[r], Uses(a)[k].refs[r]>> : r \in DOMAIN Uses(p)[k].refs} :
           k \in DOMAIN Uses(p)}

Bare(s) == [s EXCEPT !.refs = Len(@)]

(* Adaptation keeps every gate and measurement, in order, and renames the    *)
(* qubits one to one: no two sites become one, no site becomes two           *)
(* (nativeProgram, adaptProgram).                                            *)
SitesKeepTheirRoles ==
  \A i \in DOMAIN sources :
    LET p == programs[i]  a == sources[i] IN
    /\ [k \in DOMAIN Uses(p) |-> Bare(Uses(p)[k])]
         = [k \in DOMAIN Uses(a) |-> Bare(Uses(a)[k])]
    /\ \A x, y \in Roles(p, a) : x[1] = y[1] <=> x[2] = y[2]

(* A flat native program is submitted in the form its device takes: elements *)
(* of a declared register where there are no physical qubits, and every      *)
(* qubit measured where that is required (adaptProgram).                     *)
FormIsTheDevices ==
  \A i \in DOMAIN sources : IsNative(programs[i], arch) =>
    LET a == sources[i]
        used == RefsOf(Uses(a))
    IN /\ ~arch.supportPhysicalQubits =>
            \A r \in used : r.reg = Register(a, "qubit") /\ r.index < Width(a, "qubit")
       /\ arch.requiresAllQubitsMeasurement =>
            used \subseteq RefsOf(Of(a, {"assign", "measure"}))

(* One register of bits, declared before it is written, at most one of       *)
(* qubits, measured last: what has a bitstring of its own.                   *)
Terminal(p) ==
  /\ ~Has(p, {"foreign", "measure"})
  /\ Len(Of(p, {"bit"})) = 1 /\ Len(Of(p, {"qubit"})) <= 1
  /\ Of(p, {"bit", "init", "assign"})[1].kind = "bit"
  /\ \A s \in ToSet(p) : s.kind \in {"init", "assign"} => s.name = Register(p, "bit")
  /\ \A i, k \in DOMAIN p : i < k /\ p[i].kind = "assign" => p[k].kind = "assign"

(* What is submitted of these programs to these devices can be projected     *)
(* onto the register of bits.                                                *)
Readable(devices, lists) ==
  \A device \in devices, list \in lists :
    LET a == ParseProperties(device) IN
    a \notin {Fatal, NotSupported} =>
      \A p \in ToSet(list) :
        Terminal(p) => SourceReadout(AdaptProgram(p, a)) \notin {None, Fatal}

LastOf(p, kind, Test(_)) == SelectLastInSeq(p, LAMBDA s : s.kind = kind /\ Test(s))

(* A slot of the bit register is the outcome of the qubit whose measurement  *)
(* the client last assigned to it, else its initial bit.                     *)
RightBits(p, source, result) ==
  LET width == Width(p, "bit")
      init == LastOf(p, "init", LAMBDA s : TRUE)
      Outcome(ref) ==
        LET new == (CHOOSE x \in Roles(p, source) : x[1] = ref)[2] IN
        result.shot[Column(result.measuredQubits, new.index)]
      Bit(slot) ==
        LET k == LastOf(p, "assign", LAMBDA s : s.slot = slot) IN
        IF k # 0 THEN Outcome(p[k].refs[1])
        ELSE IF init # 0 THEN p[init].bits[width - slot] ELSE 0
  IN [n \in 1 .. width |-> Bit(width - n)]

(* From submission to result: the bits that are read for a program are the   *)
(* right ones, whatever the order in which the service lists the qubits      *)
(* (adaptProgram, sourceReadout, parseMeasurementResults).                   *)
ReadoutIsRight ==
  \A i \in DOMAIN read :
    read[i] # None /\ results[i].source # None /\ Terminal(programs[i]) =>
      read[i] = RightBits(programs[i], sources[i], results[i])

(* docs/api.md says that register names do not affect the recognition of     *)
(* flat programs: whatever its name, the register of bits is declared once   *)
(* and the returned source can be projected onto it.  adaptProgram adds a    *)
(* register called q and, around gates, the words of a pragma.               *)
NamesDoNotMatter ==
  \A i \in DOMAIN sources :
    LET a == sources[i] IN
    IsNative(programs[i], arch) /\ Has(a, {"bit"}) =>
      Register(a, "bit") # Register(a, "qubit") /\ SourceReadout(a) \notin {None, Fatal}
=============================================================================
