--------------------------- MODULE MCJobPrograms ---------------------------
(* Devices with few sites and programs of a few statements.                  *)
EXTENDS JobPrograms

MCDecimal == "0" :> 0 @@ "1" :> 1 @@ "01" :> 1 @@ "2" :> 2 @@ "3" :> 3 @@ "99" :> 99
MCTextOrder == <<"0", "01", "1", "2", "3", "99", "a", "b">>

Limits == [versions |-> <<"1", "2">>, maximumExecutables |-> 3,
           maximumTotalShots |-> 6, minimumTotalShots |-> 2]
Simulator ==
  [type |-> "SIMULATOR", qubitCount |-> 3, connectivity |-> None,
   supported |-> <<"h", "cz">>, native |-> None, fidelities |-> <<>>,
   programSets |-> Limits, shotsRange |-> <<1, 2>>,
   supportPhysicalQubits |-> FALSE, requiresAllQubitsMeasurement |-> TRUE,
   supportVerbatim |-> FALSE]

Fidelity(pair, value, direction) ==
  [pair |-> pair, gate |-> "cz", value |-> value, direction |-> direction]
Graph == "0" :> <<"3", "a">> @@ "3" :> <<"b", "0">>
Computer ==
  [Simulator EXCEPT
     !.type = "QPU", !.qubitCount = 4, !.native = <<"h", "cz">>,
     !.connectivity = [fully |-> None, graph |-> Graph],
     !.fidelities = <<Fidelity(<<"0", "3">>, 9, <<3, 0>>), Fidelity(<<"0", "a">>, 8, None),
                      Fidelity(<<"3", "b">>, None, None), Fidelity(<<"3", "b">>, 7, None)>>,
     !.programSets = [Limits EXCEPT !.maximumTotalShots = 7, !.minimumTotalShots = None],
     !.shotsRange = None,
     !.supportPhysicalQubits = TRUE, !.requiresAllQubitsMeasurement = FALSE,
     !.supportVerbatim = TRUE]
WithGraph(graph) == [Computer EXCEPT !.connectivity = [fully |-> FALSE, graph |-> graph]]

MCDevices ==
  {Simulator, Computer,
   [Computer EXCEPT !.supportVerbatim = FALSE, !.requiresAllQubitsMeasurement = TRUE,
                    !.supportPhysicalQubits = FALSE],
   [Computer EXCEPT !.connectivity = [fully |-> TRUE, graph |-> None], !.programSets = None],
   [Simulator EXCEPT !.programSets = [Limits EXCEPT !.versions = <<"2">>]],
   [Simulator EXCEPT !.shotsRange = <<2, 1>>], [Simulator EXCEPT !.shotsRange = <<0, 0>>],
   [Simulator EXCEPT !.type = "ANNEALER"],
   WithGraph("1" :> <<"01">>), WithGraph("0" :> <<"99">>),
   WithGraph("1" :> <<"a">> @@ "b" :> <<"1">>)}

Site(n) == [reg |-> "$", index |-> n]
Gate(op, refs) == [kind |-> "gate", op |-> op, refs |-> refs]
Bits(name, n) == <<[kind |-> "bit", name |-> name, width |-> n]>>
Start(name, bits) == <<[kind |-> "init", name |-> name, bits |-> bits]>>
Set(slot, ref) == [kind |-> "assign", name |-> "c", slot |-> slot, refs |-> <<ref>>]
Include == <<[kind |-> "include"]>>

Gates == {<<>>, <<Gate("h", <<Site(0)>>)>>,
          <<Gate("cz", <<Site(3), Site(0)>>), Gate("gphase", <<>>), Gate("h", <<Site(1)>>)>>,
          <<Gate("cz", <<Site(2), Site(1)>>)>>}
Readouts == {<<>>, <<Set(0, Site(0))>>, <<Set(1, Site(0)), Set(0, Site(1))>>,
             <<Set(0, Site(3)), Set(0, Site(0))>>, <<Set(1, Site(2))>>}
Starts == {<<>>, Start("c", <<1, 0>>), Start("c", <<0, 0>>) \o Start("c", <<1, 1>>)}
Flat == {Include \o Bits("c", 2) \o x[1] \o x[2] \o x[3] : x \in Starts \X Gates \X Readouts}

Element(n) == [reg |-> "r", index |-> n]
Virtual(rest) == <<[kind |-> "qubit", name |-> "r", width |-> 2]>> \o Bits("c", 2) \o rest
Others ==
  {Virtual(<<Gate("h", <<Element(1)>>), Set(1, Element(1)), Set(0, Element(0))>>),
   Virtual(<<Gate("h", <<Element(1)>>), [kind |-> "foreign"], Set(0, Element(0))>>),
   Virtual(<<Set(0, Element(1)), Gate("h", <<Element(1)>>)>>),
   Include \o <<Gate("h", <<Site(0)>>)>>,
   <<Gate("h", <<Site(0)>>)>> \o Bits("c", 1) \o <<Set(0, Site(0))>>}

Small == Bits("c", 1) \o <<Gate("h", <<Site(0)>>), Set(0, Site(0))>>
ShotLists == {<<Small>>, <<Small, Include \o Small>>, <<Small, Small, Small>>}
MCProgramLists == {<<p>> : p \in Flat \union Others} \union ShotLists

Renamed(name) == Bits(name, 1) \o <<Gate("h", <<Site(0)>>),
  [kind |-> "assign", name |-> name, slot |-> 0, refs |-> <<Site(0)>>]>>
RenamedLists == {<<Renamed(name)>> : name \in {"c", "q", "verbatim"}}

(* The hypothesis of the theorem Readouts, met by the programs of            *)
(* MCProgramLists and not by those of RenamedLists.                          *)
ASSUME ReadableAssumption ==
  /\ Readable(MCDevices, MCProgramLists)
  /\ ~Readable(MCDevices, RenamedLists)

Foreign(n, set, count, executables) ==
  [shots |-> n, programSet |-> set, programs |-> count, executables |-> executables]
MCForeignTasks ==
  {Foreign(5, FALSE, 0, 0), Foreign(6, TRUE, 2, 2), Foreign(5, TRUE, 2, 2),
   Foreign(6, TRUE, 2, 3), Foreign(4, TRUE, 0, 0)}

(* Shots and texts do not affect each other, nor does an opened job affect   *)
(* the results of the first: other numbers of shots are followed only with   *)
(* the lists of Small, and an opened job only before results come.           *)
Apart ==
  /\ shots # DefaultShots => programs \in ShotLists \union {<<>>}
  /\ opened # None => \A i \in DOMAIN results : results[i] = None
=============================================================================
