-------------------------- MODULE NetDiscoverParse --------------------------
(***************************************************************************)
(* ibnetdiscoverParse (src/collectors/ibnetdiscover.go): the lines of      *)
(* `ibnetdiscover --ports` gathered into one record per GUID, switches and *)
(* HCAs apart.                                                             *)
(*                                                                         *)
(* A line is a record of what the code tells apart in it:                  *)
(*   columns  how many fields it has: "few" (under 5), "five", "enough"    *)
(*   type, lid, port, guid   its first columns                             *)
(*   speed    "???" for a port with no link, "SDR" and the other lane      *)
(*            rates, or a text that is none of them                        *)
(*   quoted   whether parseNames can extract the names                     *)
(*   words    how many words its own name has                              *)
(*   name, peer   the two names; peer is NoPeer on a line without uplink   *)
(* The peer's type, LID, port and GUID columns are one with its name.      *)
(***************************************************************************)
EXTENDS Integers, SequencesExt

CONSTANTS
    LaneRates,   \* the keys of laneRates
    NoPeer,
    NoName

NewDevice == [type |-> "", lid |-> 0, name |-> NoName, rate |-> "",
              uplinks |-> <<>>, switch |-> NoPeer, downPorts |-> <<>>]

NetStart == [outcome |-> "ok", devices |-> <<>>]

Known(st, guid) == IF guid \in DOMAIN st.devices THEN st.devices[guid] ELSE NewDevice

PutDevice(st, l, device) ==
    [outcome |-> st.outcome,
     devices |-> [g \in DOMAIN st.devices \cup {l.guid} |->
                    IF g = l.guid THEN device ELSE st.devices[g]]]

\* Re-joining the words of a quoted name leaves the line with one field for it.
Fields(l) ==
    IF l.peer # NoPeer THEN 15 ELSE IF l.quoted THEN 7 ELSE 6 + l.words

SplitMode(l) == l.speed = "SDR" /\ Fields(l) = 7

\* A name that cannot be extracted from a down port's line is benign.
DownLine(st, l) ==
    LET device == Known(st, l.guid)
    IN PutDevice(st, l,
         [type |-> l.type, lid |-> l.lid,
          name |-> IF l.quoted THEN l.name ELSE device.name,
          rate |-> device.rate, uplinks |-> device.uplinks, switch |-> device.switch,
          downPorts |-> Append(device.downPorts, l.port)])

Uplinks(uplinks, l) ==
    [p \in DOMAIN uplinks \cup {l.port} |->
       IF p = l.port THEN [peer |-> l.peer, rate |-> l.speed] ELSE uplinks[p]]

Linked(st, l, device) ==
    PutDevice(st, l,
      [type |-> l.type, lid |-> l.lid, name |-> l.name,
       rate |-> IF l.type = "CA" THEN l.speed ELSE device.rate,
       uplinks |-> IF l.peer = NoPeer THEN device.uplinks ELSE Uplinks(device.uplinks, l),
       switch |-> IF l.peer = NoPeer THEN device.switch ELSE l.peer,
       downPorts |-> device.downPorts])

\* mutant: the device starts over with every line of a link
LinkFresh(st, l) == Linked(st, l, NewDevice)
\* A line whose rate and names were parsed.
Link(st, l) == Linked(st, l, Known(st, l.guid))

\* parseRate and parseNames: either error ends the whole parse.
Parseable(l) == l.speed \in LaneRates /\ l.quoted

\* mutant: a line that cannot be parsed is skipped like the others
SkipUnparseable(st) == st
Abort(st) == [st EXCEPT !.outcome = "error"]

\* One iteration of the loop.  The guard lets a line of exactly five fields
\* through to items[5], which it does not have.
NetLine(portState, st, l) ==
    CASE st.outcome # "ok" -> st
      [] st.outcome = "ok" /\ l.columns = "few" -> st
      [] st.outcome = "ok" /\ l.columns = "five" -> [st EXCEPT !.outcome = "panic"]
      [] st.outcome = "ok" /\ l.columns = "enough" ->
           IF l.speed = "???" THEN IF portState THEN DownLine(st, l) ELSE st
           ELSE IF SplitMode(l) THEN st
           ELSE IF Parseable(l) THEN Link(st, l) ELSE Abort(st)

\* The devices of one type, in the order of their GUIDs.
OfType(devices, type) ==
    LET guids == {g \in DOMAIN devices : devices[g].type = type}
    IN CHOOSE list \in [1..Cardinality(guids) -> guids] :
         \A i, j \in DOMAIN list : i < j => list[i] < list[j]

\* The two slices and the devices their elements are; nothing but the outcome
\* when the parse ends early.
NetParsed(portState, lines) ==
    LET end == FoldLeft(LAMBDA st, l : NetLine(portState, st, l), NetStart, lines)
    IN [outcome |-> end.outcome,
        devices |-> IF end.outcome = "ok" THEN end.devices ELSE <<>>,
        switches |-> IF end.outcome = "ok" THEN OfType(end.devices, "SW") ELSE <<>>,
        hcas |-> IF end.outcome = "ok" THEN OfType(end.devices, "CA") ELSE <<>>]

-----------------------------------------------------------------------------
(* What the text says.                                                     *)

IsDown(portState, l) == portState /\ l.columns = "enough" /\ l.speed = "???"
IsLink(l) == l.columns = "enough" /\ l.speed # "???" /\ ~SplitMode(l)
IsLinked(l) == IsLink(l) /\ l.peer # NoPeer
Kept(portState, l) == IsDown(portState, l) \/ IsLink(l)

\* The lines the code keeps about a device.
KeptOf(portState, lines, g) ==
    {i \in DOMAIN lines : Kept(portState, lines[i]) /\ lines[i].guid = g}
NamedOf(portState, lines, g) == {i \in KeptOf(portState, lines, g) : lines[i].quoted}
DownOf(portState, lines, g) ==
    {i \in KeptOf(portState, lines, g) : IsDown(portState, lines[i])}
\* Those that give an HCA its rate, those of its links, and those of one link.
RatedOf(lines, g) ==
    {i \in DOMAIN lines : IsLink(lines[i]) /\ lines[i].type = "CA" /\ lines[i].guid = g}
LinkedOf(lines, g) == {i \in DOMAIN lines : IsLinked(lines[i]) /\ lines[i].guid = g}
LinksOf(lines, g, p) == {i \in LinkedOf(lines, g) : lines[i].port = p}

DeviceExact(portState, lines, g, device) ==
    LET last(of) == lines[Max(of)]
        kept == KeptOf(portState, lines, g)
        named == NamedOf(portState, lines, g)
        rated == RatedOf(lines, g)
        linked == LinkedOf(lines, g)
        down == DownOf(portState, lines, g)
    IN /\ device.type = last(kept).type /\ device.lid = last(kept).lid
       /\ device.name = IF named = {} THEN NoName ELSE last(named).name
       /\ device.rate = IF rated = {} THEN "" ELSE last(rated).speed
       /\ device.switch = IF linked = {} THEN NoPeer ELSE last(linked).peer
       /\ device.uplinks = [p \in {lines[i].port : i \in linked} |->
                              [peer |-> last(LinksOf(lines, g, p)).peer,
                               rate |-> last(LinksOf(lines, g, p)).speed]]
       /\ DOMAIN device.downPorts = 1..Cardinality(down)
       /\ \A i \in down :
            device.downPorts[Cardinality({j \in down : j <= i})] = lines[i].port

\* A topology is complete or it is not published: every port the text shows
\* linked is an uplink of its device with the last peer shown, every port it
\* shows down is a down port (only when port states are wanted), in the order
\* shown, the device's LID and type are the latest ones, its name is the last
\* one that could be extracted, and each switch and HCA is listed once, in its
\* list, in GUID order.
TopologyExact(portState, lines) ==
    LET parsed == NetParsed(portState, lines)
        guids == {lines[i].guid : i \in {j \in DOMAIN lines : Kept(portState, lines[j])}}
        lists == [SW |-> parsed.switches, CA |-> parsed.hcas]
    IN parsed.outcome = "ok" =>
        /\ DOMAIN parsed.devices = guids
        /\ \A g \in guids : DeviceExact(portState, lines, g, parsed.devices[g])
        /\ \A type \in {"SW", "CA"} :
             /\ ToSet(lists[type]) = {g \in guids : parsed.devices[g].type = type}
             /\ \A i, j \in DOMAIN lists[type] : i < j => lists[type][i] < lists[type][j]

\* One line of a link whose rate or name cannot be parsed voids the whole
\* topology, even when port states make the parser keep everything else: no
\* topology is ever published with a link silently missing.
NothingMissing(portState, lines) ==
    NetParsed(portState, lines).outcome = "ok" =>
        \A i \in DOMAIN lines : IsLink(lines[i]) => Parseable(lines[i])

\* The debug message of the first guard: "Skipping line that is not connected".
\* A line too short to show a link is skipped, and the other lines decide.
ShortLinesSkipped(lines) ==
    LET rest == SelectSeq(lines, LAMBDA l : l.columns = "enough")
    IN \A portState \in BOOLEAN : NetParsed(portState, lines) = NetParsed(portState, rest)
=============================================================================
