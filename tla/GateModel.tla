------------------------------ MODULE GateModel ------------------------------
(* GateModelCapabilityParser: what the library makes of the capabilities     *)
(* document of a device.  The document is a record: a field is None where    *)
(* the document has no value or one of another type.                         *)
(*                                                                           *)
(* Site labels are strings.  Decimal[l] is the number a label of digits      *)
(* stands for; other labels are not in its domain.                           *)
(*                                                                           *)
(* An operator whose name begins with Buggy is a wrong version of the one    *)
(* that follows it; no specification uses it.                                *)
EXTENDS Integers, Sequences, FiniteSets, FiniteSetsExt, SequencesExt, TLC

CONSTANTS
  Decimal,
  TextOrder,     \* all labels, by their characters
  MaxSize,       \* numeric_limits<size_t>::max()
  None, Fatal, NotSupported

ASSUME MaxSizeAssumption == MaxSize \in Nat
ASSUME DecimalAssumption ==
  /\ \A l \in DOMAIN Decimal : Decimal[l] \in Nat
  /\ \A n \in 0 .. MaxSize : ToString(n) \in DOMAIN Decimal => Decimal[ToString(n)] = n
ASSUME TextOrderAssumption == IsInjective(TextOrder) /\ DOMAIN TextOrder = 1 .. Len(TextOrder)

InRange(n) == n \in 0 .. MaxSize

------------------------------------------------------------------------------
(* Sites *)

IsDecimalSiteName(l) == l \in DOMAIN Decimal
DecimalSiteIndex(l) == IF IsDecimalSiteName(l) /\ InRange(Decimal[l]) THEN Decimal[l] ELSE None
HasIndex(l) == DecimalSiteIndex(l) # None
Position(l) == SelectInSeq(TextOrder, LAMBDA x : x = l)

SiteNameLess(l, r) ==
  \/ HasIndex(l) /\ HasIndex(r) /\ Decimal[l] < Decimal[r]
  \/ HasIndex(l) /\ ~HasIndex(r)
  \/ HasIndex(l) = HasIndex(r) /\ (HasIndex(l) => Decimal[l] = Decimal[r]) /\ Position(l) < Position(r)

(* The elements of S from the least one.                                     *)
InOrder(S, Less(_, _)) ==
  [i \in 1 .. Cardinality(S) |->
     CHOOSE x \in S : Cardinality({s \in S : Less(s, x)}) = i - 1]

Sorted(labels) == InOrder(labels, SiteNameLess)

GraphLabels(graph) == DOMAIN graph \union UNION {ToSet(graph[l]) : l \in DOMAIN graph}
Reserved(labels) == {Decimal[l] : l \in {x \in labels : HasIndex(x)}}

BuggyNextIndex(taken, from) == IF InRange(from) THEN from ELSE None
(* The first index from this one on that no site has.                        *)
NextIndex(taken, from) ==
  LET free == {n \in from .. MaxSize : n \notin taken} IN
  IF free = {} THEN None ELSE Min(free)

(* Labels that are no numbers get the smallest indices left, in order.       *)
AssignIndex(acc, l) ==
  LET n == IF HasIndex(l) THEN Decimal[l] ELSE NextIndex(acc.taken, acc.next) IN
  IF acc.failed \/ n = None THEN [acc EXCEPT !.failed = TRUE]
  ELSE [id |-> [x \in DOMAIN acc.id \union {l} |-> IF x = l THEN n ELSE acc.id[x]],
        taken |-> acc.taken \union {n}, next |-> IF HasIndex(l) THEN acc.next ELSE n,
        failed |-> FALSE]

Unassigned(labels) ==
  [id |-> <<>>, taken |-> Reserved(labels), next |-> 0, failed |-> FALSE]

(* After each of the labels in order.                                        *)
Assigned(labels) ==
  LET acc[i \in 0 .. Cardinality(labels)] ==
        IF i = 0 THEN Unassigned(labels) ELSE AssignIndex(acc[i - 1], Sorted(labels)[i])
  IN acc

AssignIndices(labels) == Assigned(labels)[Cardinality(labels)]

(* "1" and "01" would be the same site of a program.                         *)
DistinctNumbers(labels) ==
  \A l, r \in {x \in labels : HasIndex(x)} : l # r => Decimal[l] # Decimal[r]

(* The sites of a connectivity graph, with the index of each label.          *)
GraphSites(graph, qubitCount) ==
  LET labels == GraphLabels(graph)
      assigned == AssignIndices(labels)
  IN IF \/ Cardinality(labels) > qubitCount
        \/ \E l \in labels : IsDecimalSiteName(l) /\ ~HasIndex(l)
        \/ ~DistinctNumbers(labels)
        \/ assigned.failed
     THEN Fatal
     ELSE [id |-> assigned.id, fullyConnected |-> FALSE,
           coupling |-> {<<assigned.id[e[1]], assigned.id[e[2]]>> :
                           e \in UNION {{l} \X ToSet(graph[l]) : l \in DOMAIN graph}}]

(* Sites of a device without a graph are numbered.                           *)
NumberedSites(qubitCount) ==
  [id |-> [l \in {ToString(n) : n \in 0 .. qubitCount - 1} |->
             CHOOSE n \in 0 .. qubitCount - 1 : ToString(n) = l],
   fullyConnected |-> TRUE, coupling |-> {}]

FullyConnected(caps) ==
  IF caps.connectivity = None \/ caps.connectivity.fully = None
  THEN caps.type = "SIMULATOR"
  ELSE caps.connectivity.fully

ParseSitesAndConnectivity(caps) ==
  IF caps.connectivity = None /\ caps.type # "SIMULATOR" THEN Fatal
  ELSE IF FullyConnected(caps) THEN NumberedSites(caps.qubitCount)
  ELSE IF caps.connectivity.graph = None THEN Fatal
  ELSE GraphSites(caps.connectivity.graph, caps.qubitCount)

------------------------------------------------------------------------------
(* Operations *)

(* Numbers of qubits from the table of signatures.                           *)
Qubits(name) ==
  CASE name \in {"cc_prx", "gpi", "gpi2", "h", "i", "measure", "measure_ff", "phaseshift",
                 "prx", "rx", "ry", "rz", "s", "si", "t", "ti", "U", "v", "vi", "x", "y", "z"} -> 1
    [] name \in {"cnot", "cphaseshift", "cphaseshift00", "cphaseshift01", "cphaseshift10", "cv",
                 "cy", "cz", "ecr", "iswap", "ms", "pswap", "swap", "xx", "xy", "yy", "zz"} -> 2
    [] name \in {"ccnot", "cswap"} -> 3
    [] name = "gphase" -> 0
    [] OTHER -> None

ProgramName(name) ==
  CASE name = "GPI" -> "gpi" [] name = "GPI2" -> "gpi2" [] name = "ZZ" -> "zz" [] OTHER -> name

OperationNames(names) == {ProgramName(names[i]) : i \in DOMAIN names} \union {"measure"}

(* The two lists of operations; an operation of both is one object.          *)
ParseOperations(caps) ==
  IF caps.supported = None \/ (caps.type = "QPU" /\ caps.native = None) THEN Fatal
  ELSE [supported |-> OperationNames(caps.supported),
        native |-> OperationNames(IF caps.type = "QPU" THEN caps.native ELSE caps.supported)]

Triples(S) == {t \in S \X S \X S : t[1] # t[2] /\ t[1] # t[3] /\ t[2] # t[3]}

(* Site tuples an operation applies to; none are listed for a device that    *)
(* is fully connected.                                                       *)
OperationSites(name, sites) ==
  LET ids == Range(sites.id) IN
  IF sites.fullyConnected THEN {}
  ELSE CASE Qubits(name) = 1 -> {<<s>> : s \in ids}
         [] Qubits(name) = 2 -> sites.coupling
         [] Qubits(name) = 3 -> Triples(ids)
         [] OTHER -> {}

BuggyDirections(entry, pair) == {pair, <<pair[2], pair[1]>>}
(* A value without a direction holds for both.                               *)
Directions(entry, pair) ==
  IF entry.direction # None THEN {pair} ELSE {pair, <<pair[2], pair[1]>>}

FidelityPair(entry) ==
  IF entry.direction = None THEN entry.pair
  ELSE <<ToString(entry.direction[1]), ToString(entry.direction[2])>>

(* The pairs of sites an entry is for; none if it is skipped.                *)
FidelitySites(entry, ids, names) ==
  LET pair == FidelityPair(entry)
      known == /\ entry.gate \in names /\ entry.value # None
               /\ pair[1] \in DOMAIN ids /\ pair[2] \in DOMAIN ids
  IN IF known THEN Directions(entry, <<ids[pair[1]], ids[pair[2]]>>) ELSE {}

(* Entries of twoQubitProperties, in their order in the document.            *)
ParseOperationFidelities(caps, ids, names) ==
  [i \in DOMAIN caps.fidelities |->
     LET entry == caps.fidelities[i] IN
     [gate |-> entry.gate, value |-> entry.value, sites |-> FidelitySites(entry, ids, names)]]

------------------------------------------------------------------------------
(* Program sets *)

ValidShotsRange(range) ==
  Len(range) = 2 /\ range[1] # None /\ range[2] # None /\
  InRange(range[1]) /\ InRange(range[2]) /\ range[1] <= range[2]

(* Limits of version 1 of program sets, the only one supported.              *)
ParseProgramSetLimits(caps) ==
  LET set == caps.programSets
      least == IF set.minimumTotalShots = None THEN 0 ELSE set.minimumTotalShots
      range == IF caps.shotsRange = None THEN <<0, 0>> ELSE caps.shotsRange
  IN IF set = None THEN None
     ELSE IF None \in {set.versions, set.maximumExecutables, set.maximumTotalShots} THEN Fatal
     ELSE IF "1" \notin ToSet(set.versions) THEN None
     ELSE IF \/ ~InRange(set.maximumExecutables) \/ ~InRange(set.maximumTotalShots)
             \/ ~InRange(least) \/ ~ValidShotsRange(range) THEN Fatal
     ELSE [maximumExecutables |-> set.maximumExecutables,
           minimumTotalShots |-> least, maximumTotalShots |-> set.maximumTotalShots,
           minimumShotsPerProgram |-> range[1], maximumShotsPerProgram |-> range[2]]

------------------------------------------------------------------------------
ParseProperties(caps) ==
  LET sites == ParseSitesAndConnectivity(caps)
      operations == ParseOperations(caps)
      limits == ParseProgramSetLimits(caps)
  IN IF caps.type \notin {"QPU", "SIMULATOR"} THEN NotSupported
     ELSE IF caps.qubitCount <= 0 THEN Fatal
     ELSE IF Fatal \in {sites, operations, limits} THEN Fatal
     ELSE [type |-> caps.type, sites |-> sites.id, coupling |-> sites.coupling,
           fullyConnected |-> sites.fullyConnected,
           native |-> operations.native, supported |-> operations.supported,
           sitesOf |-> [o \in operations.native \union operations.supported |->
                          OperationSites(o, sites)],
           fidelities |-> ParseOperationFidelities(caps, sites.id,
                            operations.native \union operations.supported),
           supportPhysicalQubits |-> caps.supportPhysicalQubits,
           requiresAllQubitsMeasurement |-> caps.requiresAllQubitsMeasurement,
           supportVerbatim |-> caps.supportVerbatim,
           programSetLimits |-> limits]

(* The fidelity of an operation on a pair of sites: the first that fits.     *)
FidelityOf(arch, name, pair) ==
  LET i == SelectInSeq(arch.fidelities,
             LAMBDA f : f.gate = name /\ pair \in f.sites)
  IN IF i = 0 THEN None ELSE arch.fidelities[i].value
=============================================================================
