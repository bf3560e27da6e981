------------------------------ MODULE OpenQasm ------------------------------
(* What the library does with OpenQASM 3 programs: it adapts those that are  *)
(* flat and native to the device before they are submitted, and reads from   *)
(* the returned source how the measured qubits make up a bitstring.          *)
(*                                                                           *)
(* A program is a sequence of statements; each has a kind:                   *)
(*   "include"   of the standard gates                                       *)
(*   "bit", "qubit"  declaration of the register name with width elements    *)
(*   "init"      name = bits;                                                *)
(*   "gate"      op applied to refs; gphase has none                         *)
(*   "assign"    name[slot] = measure refs[1];                               *)
(*   "measure"   of refs, without a destination                              *)
(*   "verbatim"  the pragma and box around the gates that follow             *)
(*   "foreign"   control flow, a definition or a reset                       *)
(* A reference is an element of a register; "$" is the register of sites.    *)
(*                                                                           *)
(* An operator whose name begins with Buggy is a wrong version of the one    *)
(* that follows it; no specification uses it.                                *)
EXTENDS GateModel

(* The statements of p that are in S, in their order; after the first n.     *)
Selected(p, S) ==
  LET selected[n \in 0 .. Len(p)] ==
        IF n = 0 THEN <<>>
        ELSE IF p[n] \in S THEN Append(selected[n - 1], p[n]) ELSE selected[n - 1]
  IN selected
Selection(p, S) == Selected(p, S)[Len(p)]

Of(p, kinds) == Selection(p, {s \in ToSet(p) : s.kind \in kinds})
Has(p, kinds) == Of(p, kinds) # <<>>
Before(p, i) == SubSeq(p, 1, i - 1)
RefsOf(p) == UNION {ToSet(s.refs) : s \in ToSet(p)}

(* The name of the first register declared with this kind.                   *)
Register(p, kind) == IF Has(p, {kind}) THEN Of(p, {kind})[1].name ELSE None
Width(p, kind) == IF Has(p, {kind}) THEN Of(p, {kind})[1].width ELSE 0

(* The statement s writes to the bit register declared before it.            *)
Named(before, s) == Has(before, {"bit"}) /\ s.name = Register(before, "bit")

------------------------------------------------------------------------------
(* Adaptation *)

KnownSites(arch, refs) ==
  \A i \in DOMAIN refs : refs[i].reg = "$" /\ refs[i].index \in Range(arch.sites)

Kept(p) == Selection(p, {s \in ToSet(p) : s.kind = "gate" /\ s.op # "gphase"})

(* What nativeProgram accepts as the statement s that follows before.        *)
NativeStatement(arch, before, s) ==
  LET classical == Register(before, "bit") IN
  \/ s.kind = "include"
  \/ s.kind = "bit" /\ s.width > 0 /\ classical = None /\ Kept(before) = <<>>
  \/ /\ s.kind = "init" /\ Named(before, s) /\ Len(s.bits) = Width(before, "bit")
     /\ Kept(before) = <<>> /\ ~Has(before, {"assign"})
  \/ /\ s.kind = "assign" /\ Named(before, s) /\ s.slot < Width(before, "bit")
     /\ KnownSites(arch, s.refs)
  \/ /\ s.kind = "gate" /\ ~Has(before, {"assign"}) /\ s.op # classical
     /\ \/ s.op = "gphase"
        \/ /\ s.op \in {"barrier"} \union arch.native
           /\ s.refs # <<>> /\ KnownSites(arch, s.refs)

IsNative(p, arch) == \A i \in DOMAIN p : NativeStatement(arch, Before(p, i), p[i])

Measured(p) == {r.index : r \in RefsOf(Of(p, {"assign"}))}
Sites(p) == {r.index : r \in RefsOf(Kept(p))} \union Measured(p)

BuggyDense(p, site) == Cardinality({s \in Measured(p) : s < site})
(* The virtual index of a site.                                              *)
Dense(p, site) == Cardinality({s \in Sites(p) : s < site})

Reference(arch, p, site) ==
  IF arch.supportPhysicalQubits THEN [reg |-> "$", index |-> site]
  ELSE [reg |-> "q", index |-> Dense(p, site)]

Rewritten(arch, p, statements) ==
  [i \in DOMAIN statements |->
     [statements[i] EXCEPT !.refs =
        [k \in DOMAIN @ |-> Reference(arch, p, @[k].index)]]]

QubitRegister(arch, p) ==
  IF arch.supportPhysicalQubits \/ Sites(p) = {} THEN <<>>
  ELSE <<[kind |-> "qubit", name |-> "q", width |-> Cardinality(Sites(p))]>>

Initialization(p) ==
  LET inits == Of(p, {"init"}) IN IF inits = <<>> THEN <<>> ELSE <<Last(inits)>>

Verbatim(arch) ==
  IF arch.type = "QPU" /\ arch.supportPhysicalQubits /\ arch.supportVerbatim
  THEN <<[kind |-> "verbatim"]>> ELSE <<>>

BuggySupplement(arch, p) == <<>>
(* Measurements of the sites a program uses and does not measure, for a      *)
(* device that wants all measured.                                           *)
Supplement(arch, p) ==
  LET rest == IF arch.requiresAllQubitsMeasurement THEN Sites(p) \ Measured(p) ELSE {}
      sorted == InOrder(rest, <)
  IN [i \in DOMAIN sorted |-> [kind |-> "measure", refs |-> <<Reference(arch, p, sorted[i])>>]]

AdaptProgram(p, arch) ==
  IF ~IsNative(p, arch) THEN Selection(p, {s \in ToSet(p) : s.kind # "include"})
  ELSE QubitRegister(arch, p) \o Of(p, {"bit"}) \o Initialization(p) \o Verbatim(arch)
       \o Rewritten(arch, p, Kept(p)) \o Rewritten(arch, p, Of(p, {"assign"}))
       \o Supplement(arch, p)

------------------------------------------------------------------------------
(* Readout of a returned source *)

(* The words before the gates of a verbatim box; each is a token.            *)
PragmaWords == {"pragma", "braket", "verbatim", "box"}

(* sourceReadout at the statement s that follows before: it goes on, gives   *)
(* up on a projection (None) or rejects the source (Fatal).                  *)
Verdict(before, s) ==
  LET classical == Register(before, "bit")
      quantum == Register(before, "qubit")
      measured == Has(before, {"assign", "measure"})
      unknown == s.refs[1].reg \notin {"$", quantum}
      outside == \/ s.slot >= Width(before, "bit")
                 \/ s.refs[1].reg = quantum /\ s.refs[1].index >= Width(before, "qubit")
  IN CASE s.kind = "foreign" -> None
       [] s.kind = "measure" -> "ok"
       [] s.kind = "verbatim" /\ classical \in PragmaWords -> None
       [] s.kind \in {"bit", "qubit"} ->
            IF measured \/ Has(before, {s.kind}) THEN None
            ELSE IF s.width = 0 THEN Fatal ELSE "ok"
       [] s.kind = "init" /\ Named(before, s) ->
            IF measured \/ Len(s.bits) # Width(before, "bit") THEN Fatal ELSE "ok"
       [] s.kind = "assign" /\ Named(before, s) -> IF unknown \/ outside THEN Fatal ELSE "ok"
       [] s.kind = "gate" /\ ~measured /\ classical # None ->
            IF s.op = classical THEN None
            ELSE IF \E r \in ToSet(s.refs) : r.reg = classical THEN Fatal ELSE "ok"
       [] OTHER -> IF measured THEN None ELSE "ok"

Writes(p, kind) == {i \in DOMAIN p : p[i].kind = kind /\ Named(Before(p, i), p[i])}

(* A later statement overrides an earlier one.                               *)
Latest(S) == Max(S)

SourceReadout(p) ==
  LET stops == {i \in DOMAIN p : Verdict(Before(p, i), p[i]) # "ok"}
      width == Width(p, "bit")
      inits == Writes(p, "init")
      Assigns(slot) == {i \in Writes(p, "assign") : p[i].slot = slot}
  IN IF stops # {} THEN Verdict(Before(p, Min(stops)), p[Min(stops)])
     ELSE [initial |-> IF inits = {} THEN [i \in 1 .. width |-> 0] ELSE p[Latest(inits)].bits,
           sites |-> [slot \in 0 .. width - 1 |->
                        IF Assigns(slot) = {} THEN None
                        ELSE p[Latest(Assigns(slot))].refs[1].index]]

Column(qubits, site) == SelectInSeq(qubits, LAMBDA q : q = site)

BuggyProject(readout, qubits, shot) ==
  [i \in DOMAIN readout.initial |->
     LET site == readout.sites[i - 1] IN
     IF site = None THEN readout.initial[i] ELSE shot[Column(qubits, site)]]
(* The last slot comes first in a bitstring.                                 *)
Project(readout, qubits, shot) ==
  [i \in DOMAIN readout.initial |->
     LET site == readout.sites[Len(readout.initial) - i] IN
     IF site = None THEN readout.initial[i] ELSE shot[Column(qubits, site)]]

(* The bitstring of a shot; result lists the measured qubits and the value   *)
(* of each.                                                                  *)
ParseMeasurementResults(result, source) ==
  LET readout == IF source = None THEN None ELSE SourceReadout(source)
      qubits == result.measuredQubits
      sorted == InOrder(ToSet(qubits), >)
  IN IF \/ readout = Fatal \/ ~IsInjective(qubits) \/ Len(result.shot) # Len(qubits)
     THEN Fatal
     ELSE IF readout = None
     THEN [i \in DOMAIN sorted |-> result.shot[Column(qubits, sorted[i])]]
     ELSE IF ~(Range(readout.sites) \ {None} \subseteq ToSet(qubits)) THEN Fatal
     ELSE Project(readout, qubits, result.shot)
=============================================================================
