----------------------------- MODULE MCParsers -----------------------------
(***************************************************************************)
(* Small inputs for the three parsers.  A state is one input: a text read  *)
(* so far, one line longer with every step, or a switch whose two outputs  *)
(* the ibswinfo parsers read.                                              *)
(***************************************************************************)
EXTENDS PerfqueryParse, NetDiscoverParse, SwinfoParse

CONSTANTS MaxPerfLines, MaxNetLines, NoSwitch

VARIABLES perfLines, netLines, sw

vars == <<perfLines, netLines, sw>>

\* perfquery: two ports, a counter of words, one of packets, one that only -E
\* prints, and noise.
Details == {"PortLocalPhysicalErrors"}
Noise == [field |-> NotAPair, value |-> 0]
PerfLines ==
    [field : {"PortSelect"}, value : {"1", "2"}]
    \cup [field : {"PortXmitData", "SymbolErrorCounter"}, value : {7, 9, BadNumber}]
    \cup [field : Details, value : {7, BadNumber}]
    \cup {[field |-> "CounterSelect", value |-> 0], Noise}

\* ibnetdiscover: switch 1 with ports 1 and 2, HCA 2 on one of them.
NetLineOf(guid, port, speed, quoted, peer) ==
    [columns |-> "enough", type |-> IF guid = 1 THEN "SW" ELSE "CA", lid |-> 10 * guid,
     guid |-> guid, port |-> port, speed |-> speed, quoted |-> quoted, words |-> 2,
     name |-> IF guid = 1 THEN "switch" ELSE "hca", peer |-> peer]
Healthy ==
    {NetLineOf(1, 1, "EDR", TRUE, "hca"), NetLineOf(1, 2, "EDR", TRUE, "spine"),
     NetLineOf(2, 1, "EDR", TRUE, "switch"), NetLineOf(1, 2, "HDR", TRUE, NoPeer)}
Moved == {[NetLineOf(1, 1, "EDR", TRUE, "spine") EXCEPT !.lid = 11, !.name = "renamed"]}
Down == {NetLineOf(1, 2, "???", TRUE, NoPeer), NetLineOf(1, 1, "???", FALSE, NoPeer)}
Split == {NetLineOf(1, 1, "SDR", TRUE, NoPeer), NetLineOf(1, 1, "SDR", FALSE, NoPeer)}
Broken == {NetLineOf(1, 1, "ZDR", TRUE, "hca"), NetLineOf(2, 1, "EDR", FALSE, "switch")}
Short == {[NetLineOf(1, 1, "EDR", TRUE, "hca") EXCEPT !.columns = c] : c \in {"few", "five"}}
NetLines == Healthy \cup Moved \cup Down \cup Split \cup Broken \cup Short

\* ibswinfo: one fan and two power supplies; or one or two power supplies and,
\* before, between or after them, one whose number has two digits.
Psus(id) == [id : {id}, status : {"OK", "ERROR", Blank}, dc : {"OK", Blank},
             fan : {"ERROR", Blank}, power : {1, Garbled, Blank}]
WidePsus == [id : {"10"}, status : {"OK"}, dc : {"OK", Blank}, fan : {"ERROR"}, power : {1, Garbled}]
PlainPsu == [id |-> "1", status |-> "OK", dc |-> "OK", fan |-> Blank, power |-> 1]
Pairs == {<<psu0, psu1>> : psu0 \in Psus("0"), psu1 \in Psus("1")}
WideLast == {<<psu0, wide>> : psu0 \in Psus("0"), wide \in WidePsus}
WideFirst == {<<wide, psu1>> : wide \in WidePsus, psu1 \in Psus("1")}
WideBetween == {<<psu0, wide, PlainPsu>> : psu0 \in Psus("0"), wide \in WidePsus}
PsuLists == Pairs \cup WideLast \cup WideFirst \cup WideBetween
Fans == [id : {"1"}, rpm : {1, Garbled, Blank}]
ASSUME DigitsAssumption ==
    OneDigit \cap {"0", "1", "10"} = {"0", "1"} /\ NoPsu # "10"
Switches ==
    {[identity |-> "part", uptime |-> uptime, temp |-> temp, fanStatus |-> "OK",
      psus |-> psus, fans |-> <<fan>>] :
        uptime \in {5, Garbled}, temp \in {1, Garbled, Blank}, psus \in PsuLists, fan \in Fans}

Init == perfLines = <<>> /\ netLines = <<>> /\ sw = NoSwitch

ReadPerf ==
    /\ netLines = <<>> /\ sw = NoSwitch
    /\ Len(perfLines) < MaxPerfLines
    /\ \E l \in PerfLines : perfLines' = Append(perfLines, l)
    /\ UNCHANGED <<netLines, sw>>

ReadNet ==
    /\ perfLines = <<>> /\ sw = NoSwitch
    /\ Len(netLines) < MaxNetLines
    /\ \E l \in NetLines : netLines' = Append(netLines, l)
    /\ UNCHANGED <<perfLines, sw>>

PickSwitch ==
    /\ perfLines = <<>> /\ netLines = <<>> /\ sw = NoSwitch
    /\ sw' \in Switches
    /\ UNCHANGED <<perfLines, netLines>>

Next == ReadPerf \/ ReadNet \/ PickSwitch
Spec == Init /\ [][Next]_vars

\* Every perfquery text is attributed port by port.
PerfqueryAttributed == AttributedByPort(perfLines)

\* A scrape of one device, whose base output has the readings of perfLines that
\* -x prints and whose -E output has the others, sends no series twice.
Without(fields) ==
    [i \in DOMAIN perfLines |-> IF perfLines[i].field \in fields THEN Noise ELSE perfLines[i]]
PerfquerySentOnce == SentOnce(<<Without(Details), Without(Counters \ Details)>>)

\* Every topology that is published is exact, and complete.
NetExact == \A portState \in BOOLEAN : TopologyExact(portState, netLines)
NetComplete == \A portState \in BOOLEAN : NothingMissing(portState, netLines)

\* A line too short to show a link is skipped.
NetShortSkipped == ShortLinesSkipped(netLines)

\* The full output is read exactly; the short one agrees with it, and loses
\* nothing but what does not parse.
SwinfoExact == sw # NoSwitch /\ Numbered(sw) => FullExact(sw)
SwinfoWarmMatchesCold == sw # NoSwitch /\ Numbered(sw) => WarmMatchesCold(sw)
SwinfoWarmSpoilsOne == sw # NoSwitch /\ Numbered(sw) => WarmSpoilsOneReading(sw)

\* A power supply that the full output's parser does not recognize costs no more
\* than itself and the values of the one before it.
SwinfoContained == sw # NoSwitch => FullContained(sw)
=============================================================================
