---------------------------- MODULE SwinfoParse ----------------------------
(***************************************************************************)
(* The two parsers of src/collectors/ibswinfo.go: parse_ibswinfo for the   *)
(* full output, in sections that dashed dividers separate, and             *)
(* parseIbswinfoVitals for the short one, with the merge of the cached     *)
(* fields the short output drops.                                          *)
(*                                                                         *)
(* A line is [key, id, value]: id is the number in the key of a PSU or fan *)
(* line.  The four identity lines (part number, serial number, PSID,       *)
(* firmware version) are one, "identity".  A reading is a number, Garbled  *)
(* (strconv.ParseFloat or time.Parse rejects it) or Blank.                 *)
(***************************************************************************)
EXTENDS Integers, SequencesExt

CONSTANTS NoReading,  \* math.NaN()
          Garbled, Blank,
          NoPsu,   \* psuID before the first PSU section: ""
          OneDigit \* the PSU numbers that parse_ibswinfo recognizes

IsNumber(v) == v \notin {Garbled, Blank}

ASSUME ReadingAssumption == Garbled # Blank /\ IsNumber(1)
ASSUME SlotAssumption == NoPsu \notin OneDigit

Psu(status, dc, fan, power) == [status |-> status, dc |-> dc, fan |-> fan, power |-> power]
NewPsu == Psu(Blank, Blank, Blank, NoReading)
NoPsus == [id \in {} |-> NewPsu]
WithPower(psu, power) == Psu(psu.status, psu.dc, psu.fan, power)

\* psus[id] = psu
Stored(psus, id, psu) ==
    [x \in DOMAIN psus \cup {id} |-> IF x = id THEN psu ELSE psus[x]]

OrNoReading(v) == IF v = Blank THEN NoReading ELSE v

\* Uptime starts as the zero of its type, the temperature as NoReading.
NoData == [failed |-> FALSE, identity |-> Blank, uptime |-> 0, temp |-> NoReading,
           fanStatus |-> Blank, psus |-> NoPsus, fans |-> <<>>]
\* Of a parse that failed nothing is published, whatever it had read.
Unparsed == [failed |-> TRUE, identity |-> Blank, uptime |-> 0, temp |-> NoReading,
             fanStatus |-> Blank, psus |-> NoPsus, fans |-> <<>>]

\* data, with the variables of parse_ibswinfo's loop.
During(data, psuID, dividers) == [data |-> data, psuID |-> psuID, dividers |-> dividers]
SwinfoStart == During(NoData, NoPsu, 0)
Stopped == During(Unparsed, NoPsu, 0)

-----------------------------------------------------------------------------
(* parse_ibswinfo.                                                         *)

\* The section the dividers put the line in.
InPsuSection(st) == st.dividers < 4

\* PSU([0-9]) status: a status line whose number has more digits is no status
\* line, and the lines after it are taken for the PSU before it.
IsStatus(l) == l.key = "PSU status" /\ l.id \in OneDigit
PsuIDAt(st, l) == IF IsStatus(l) THEN l.id ELSE st.psuID

\* mutant: a PSU keeps what an earlier line gave to the one before it
LoadPrevious(st, l) ==
    IF st.psuID \in DOMAIN st.data.psus THEN st.data.psus[st.psuID] ELSE NewPsu
\* The record the line is about: a new one for a PSU's non-blank status line,
\* the stored one for the lines that follow it.
LoadPsu(st, l) ==
    IF IsStatus(l) /\ l.value # Blank THEN NewPsu
    ELSE IF InPsuSection(st) /\ PsuIDAt(st, l) \in DOMAIN st.data.psus
      THEN st.data.psus[PsuIDAt(st, l)]
    ELSE NewPsu

\* What the line makes of a field that the lines with the given key set.
Given(l, key, old) == IF l.key = key THEN l.value ELSE old

\* The record after the line.
PsuAfter(st, l) ==
    LET psu == LoadPsu(st, l)
    IN Psu(IF IsStatus(l) /\ l.value # Blank THEN l.value ELSE psu.status,
           Given(l, "DC power", psu.dc),
           IF InPsuSection(st) THEN Given(l, "fan status", psu.fan) ELSE psu.fan,
           Given(l, "power (W)", psu.power))

\* mutant: lines before the first PSU are stored as well
PsusAfterAny(st, l) ==
    IF InPsuSection(st) THEN Stored(st.data.psus, PsuIDAt(st, l), PsuAfter(st, l))
    ELSE st.data.psus
\* Every line after a PSU's first one stores its record again.
PsusAfter(st, l) ==
    LET id == PsuIDAt(st, l)
    IN IF id # NoPsu /\ InPsuSection(st) THEN Stored(st.data.psus, id, PsuAfter(st, l))
       ELSE st.data.psus

\* Only a power, a temperature and a fan reading can fail the parse; a fan's
\* may be blank.
FailsParse(l) ==
    \/ l.key \in {"power (W)", "temperature (C)"} /\ ~IsNumber(l.value)
    \/ l.key = "fan rpm" /\ l.value = Garbled

DataAfter(st, l) ==
    [failed |-> FALSE,
     identity |-> Given(l, "identity", st.data.identity),
     uptime |-> Given(l, "uptime", st.data.uptime),
     temp |-> Given(l, "temperature (C)", st.data.temp),
     fanStatus |-> IF InPsuSection(st) THEN st.data.fanStatus
                   ELSE Given(l, "fan status", st.data.fanStatus),
     psus |-> PsusAfter(st, l),
     fans |-> IF l.key = "fan rpm"
                THEN Append(st.data.fans, [id |-> l.id, rpm |-> OrNoReading(l.value)])
                ELSE st.data.fans]

\* The parse ends at the first line that fails it; an uptime that does not parse
\* is skipped.
FullLine(st, l) ==
    IF st.data.failed THEN st
    ELSE IF FailsParse(l) THEN Stopped
    ELSE IF l.key = "divider" THEN During(st.data, st.psuID, st.dividers + 1)
    ELSE IF l.key = "uptime" /\ ~IsNumber(l.value) THEN st
    ELSE During(DataAfter(st, l), PsuIDAt(st, l), st.dividers)

ParseFull(lines) == FoldLeft(FullLine, SwinfoStart, lines).data

-----------------------------------------------------------------------------
(* parseIbswinfoVitals and the merge.                                      *)

\* mutant: what does not parse is zero
NumberOrZero(v, default) == IF IsNumber(v) THEN v ELSE 0
NumberOr(v, default) == IF IsNumber(v) THEN v ELSE default

\* A reading that does not parse leaves its default: the parse never fails.
VitalsLine(data, l) ==
    [failed |-> FALSE, identity |-> data.identity, fanStatus |-> data.fanStatus,
     uptime |-> IF l.key = "uptime" THEN NumberOr(l.value, data.uptime) ELSE data.uptime,
     temp |-> IF l.key = "temperature (C)" THEN NumberOr(l.value, data.temp) ELSE data.temp,
     psus |-> IF l.key = "power (W)"
                THEN Stored(data.psus, l.id, WithPower(NewPsu, NumberOr(l.value, NoReading)))
                ELSE data.psus,
     fans |-> IF l.key = "fan rpm"
                THEN Append(data.fans, [id |-> l.id, rpm |-> NumberOr(l.value, NoReading)])
                ELSE data.fans]

ParseVitals(lines) == FoldLeft(VitalsLine, NoData, lines)

\* ibswinfoCacheEntry, as a full execution stores it.
EntryOf(data) ==
    [identity |-> data.identity, fanStatus |-> data.fanStatus,
     psus |-> [id \in DOMAIN data.psus |-> WithPower(data.psus[id], NoReading)]]

\* mutant: the statuses are not restored
MergedNoStatus(data, entry) ==
    [data EXCEPT !.identity = entry.identity, !.fanStatus = entry.fanStatus]
\* A PSU the short output does not list is not restored; one the entry does
\* not know keeps blank statuses.
Merged(data, entry) ==
    [failed |-> data.failed, identity |-> entry.identity, uptime |-> data.uptime,
     temp |-> data.temp, fanStatus |-> entry.fanStatus, fans |-> data.fans,
     psus |-> [id \in DOMAIN data.psus |->
                 IF id \in DOMAIN entry.psus
                   THEN WithPower(entry.psus[id], data.psus[id].power)
                   ELSE data.psus[id]]]

-----------------------------------------------------------------------------
(* The switch behind the outputs.  A switch is a record with the fields of *)
(* NoData except failed; psus is a sequence of [id, status, dc, fan,       *)
(* power] in slot order.  The ibswinfo script is external: its layout is   *)
(* that of the files in src/collectors/testdata/ibswinfo.                  *)

Line(key, id, value) == [key |-> key, id |-> id, value |-> value]
Divider == Line("divider", NoPsu, Blank)

\* Lines of a PSU that is not powered are left out.
PsuLines(psu) ==
    <<Line("PSU status", psu.id, psu.status)>>
    \o (IF psu.dc = Blank THEN <<>> ELSE <<Line("DC power", NoPsu, psu.dc)>>)
    \o (IF psu.fan = Blank THEN <<>> ELSE <<Line("fan status", NoPsu, psu.fan)>>)
    \o (IF psu.power = Blank THEN <<>> ELSE <<Line("power (W)", NoPsu, psu.power)>>)

PsuSection(sw) == FlattenSeq([i \in DOMAIN sw.psus |-> PsuLines(sw.psus[i])])
FanSection(sw) == [i \in DOMAIN sw.fans |-> Line("fan rpm", sw.fans[i].id, sw.fans[i].rpm)]

FullOutput(sw) ==
    <<Line("identity", NoPsu, sw.identity), Divider, Line("uptime", NoPsu, sw.uptime), Divider>>
    \o PsuSection(sw) \o <<Divider>>
    \o (IF sw.temp = Blank THEN <<>> ELSE <<Line("temperature (C)", NoPsu, sw.temp)>>)
    \o <<Divider, Line("fan status", NoPsu, sw.fanStatus)>> \o FanSection(sw) \o <<Divider>>

VitalsOutput(sw) ==
    <<Line("uptime", NoPsu, sw.uptime)>>
    \o [i \in DOMAIN sw.psus |-> Line("power (W)", sw.psus[i].id, sw.psus[i].power)]
    \o <<Line("temperature (C)", NoPsu, sw.temp)>> \o FanSection(sw)

PsuOf(sw, id) == sw.psus[CHOOSE i \in DOMAIN sw.psus : sw.psus[i].id = id]

\* What should be published of the switch.
Published(sw) ==
    [failed |-> FALSE, identity |-> sw.identity, uptime |-> NumberOr(sw.uptime, 0),
     temp |-> OrNoReading(sw.temp), fanStatus |-> sw.fanStatus,
     psus |-> [id \in {sw.psus[i].id : i \in DOMAIN sw.psus} |->
                 WithPower(PsuOf(sw, id), OrNoReading(PsuOf(sw, id).power))],
     fans |-> [i \in DOMAIN sw.fans |->
                 [id |-> sw.fans[i].id, rpm |-> OrNoReading(sw.fans[i].rpm)]]]

Spoiled(sw) ==
    \/ sw.temp = Garbled
    \/ \E i \in DOMAIN sw.psus : sw.psus[i].power = Garbled
    \/ \E i \in DOMAIN sw.fans : sw.fans[i].rpm = Garbled

\* The PSU numbers have one digit.  parse_ibswinfo knows no others, where
\* parseIbswinfoVitals knows them all.
Numbered(sw) == \A i \in DOMAIN sw.psus : sw.psus[i].id \in OneDigit

\* The full output tells every status, reading and identity of the switch, each
\* of the PSU or fan it belongs to, whichever lines the script leaves out; a
\* reading that does not parse fails the whole switch instead of publishing it
\* in part.  Of a switch that is Numbered.
FullExact(sw) ==
    ParseFull(FullOutput(sw)) = IF Spoiled(sw) THEN Unparsed
                                ELSE Published(sw)

\* What a PSU number of more digits costs: that PSU is not published, and the one
\* before it may show its values; every other PSU is exact, and so is everything
\* else of the switch.
FullContained(sw) ==
    LET full == ParseFull(FullOutput(sw))
        exact == Published(sw)
    IN IF Spoiled(sw) THEN full = Unparsed
       ELSE /\ [full EXCEPT !.psus = NoPsus] = [exact EXCEPT !.psus = NoPsus]
            /\ DOMAIN full.psus = DOMAIN exact.psus \cap OneDigit
            /\ \A i \in DOMAIN sw.psus :
                 LET id == sw.psus[i].id
                 IN id \in OneDigit /\ (i + 1 \in DOMAIN sw.psus => sw.psus[i + 1].id \in OneDigit)
                      => full.psus[id] = exact.psus[id]

\* While nothing changes, a scrape with the short output publishes of the switch
\* exactly what the full scrape that filled the cache did: the two formats, their
\* two parsers and the merge agree.  Of a switch that is Numbered.
WarmMatchesCold(sw) ==
    LET cold == ParseFull(FullOutput(sw))
    IN ~cold.failed => Merged(ParseVitals(VitalsOutput(sw)), EntryOf(cold)) = cold

\* The switch with every reading but the uptime changed.
Reread(sw, Reading(_)) ==
    [identity |-> sw.identity, uptime |-> sw.uptime, fanStatus |-> sw.fanStatus,
     temp |-> Reading(sw.temp),
     psus |-> [i \in DOMAIN sw.psus |->
                 [id |-> sw.psus[i].id, status |-> sw.psus[i].status, dc |-> sw.psus[i].dc,
                  fan |-> sw.psus[i].fan, power |-> Reading(sw.psus[i].power)]],
     fans |-> [i \in DOMAIN sw.fans |->
                 [id |-> sw.fans[i].id, rpm |-> Reading(sw.fans[i].rpm)]]]
AllRead(sw) == Reread(sw, LAMBDA v : 1)
Degarbled(sw) == Reread(sw, LAMBDA v : IF v = Garbled THEN Blank ELSE v)

\* A reading garbled after the cache was filled costs a scrape that reading
\* alone: identity and statuses stay, and a garbled power stays with its PSU.
\* Of a switch that is Numbered.
WarmSpoilsOneReading(sw) ==
    Merged(ParseVitals(VitalsOutput(sw)), EntryOf(ParseFull(FullOutput(AllRead(sw)))))
        = Published(Degarbled(sw))
=============================================================================
