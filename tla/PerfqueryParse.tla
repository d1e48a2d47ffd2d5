--------------------------- MODULE PerfqueryParse ---------------------------
(***************************************************************************)
(* perfqueryParse (src/collectors/perfquery.go): the text perfquery prints *)
(* for the ports of one device, read line by line into one record of       *)
(* counters per port, keyed by the last PortSelect line.                   *)
(*                                                                         *)
(* A line is [field, value]: the two sides of its only colon.  A field is  *)
(* "PortSelect" (its value names a port), a counter (its value is a number *)
(* or BadNumber), or any other text.  Lines with no colon or with several  *)
(* have the field NotAPair.                                                *)
(***************************************************************************)
EXTENDS Integers, SequencesExt

CONSTANTS
    DataCounters,   \* PortXmitData, PortRcvData: counted in 4-byte words
    PlainCounters,  \* the other float64 fields of PerfQueryCounters
    NotAPair,
    NoPort,         \* the port before any PortSelect line: ""
    NaN,
    BadNumber       \* a value strconv.ParseFloat rejects

Counters == DataCounters \cup PlainCounters

ASSUME FieldsAssumption ==
    /\ Counters \cap {"PortSelect", NotAPair} = {}
    /\ NotAPair # "PortSelect"

\* initializeCounters: no counter has a value yet.
Initialized == [c \in Counters |-> NaN]

PerfqueryStart == [port |-> NoPort, counters |-> <<>>, errors |-> 0]

\* mutant: the lines that follow a PortSelect line start over
SelectedFresh(st, port) == Initialized
Selected(st, port) == IF port \in DOMAIN st.counters THEN st.counters[port] ELSE Initialized

Put(st, port, counter) ==
    [port |-> port,
     counters |-> [p \in DOMAIN st.counters \cup {port} |->
                     IF p = port THEN counter ELSE st.counters[p]],
     errors |-> st.errors]

Scaled(c, v) == IF c \in DataCounters THEN 4 * v ELSE v

\* One iteration of the loop.  A value that does not parse stores nothing: a
\* port whose only counter is bad gets no record.
PerfqueryLine(st, line) ==
    CASE line.field = "PortSelect" -> Put(st, line.value, Selected(st, line.value))
      [] line.field \in Counters /\ line.value = BadNumber -> [st EXCEPT !.errors = @ + 1]
      [] line.field \in Counters /\ line.value # BadNumber ->
           Put(st, st.port, [Selected(st, st.port) EXCEPT
                               ![line.field] = Scaled(line.field, line.value)])
      [] OTHER -> st

\* The returned slice, a function from ports here, and the number of errors.
PerfqueryParsed(lines) == FoldLeft(PerfqueryLine, PerfqueryStart, lines)

-----------------------------------------------------------------------------
(* Collect and emitPortCounters: the records of the base output and of the *)
(* per-port -E outputs of a device become series, all through one table.   *)

\* The table has one entry per counter, under a name of its own.
portCounterDefs == Counters

\* mutant: emits NaN for a counter the output did not give
emitAllCounters(port, counters) ==
    {[port |-> port, counter |-> c, value |-> counters[c]] : c \in portCounterDefs}
emitPortCounters(port, counters) ==
    {[port |-> port, counter |-> c, value |-> counters[c]] :
        c \in {d \in portCounterDefs : counters[d] # NaN}}

\* What Collect sends for one device, with the output each series came from.
Sent(outputs) ==
    UNION {LET parsed == PerfqueryParsed(outputs[i]).counters
           IN {<<i, s>> : s \in UNION {emitPortCounters(p, parsed[p]) : p \in DOMAIN parsed}} :
             i \in DOMAIN outputs}

-----------------------------------------------------------------------------
(* What the text says, by positions.                                       *)

Selects(lines, i) == lines[i].field = "PortSelect"
IsReading(lines, i) == lines[i].field \in Counters /\ lines[i].value # BadNumber

\* The port line i is about.
PortAt(lines, i) ==
    LET before == {j \in 1..i : Selects(lines, j)}
    IN IF before = {} THEN NoPort ELSE lines[Max(before)].value

\* The lines that read counter c of port p, and the value the last one gives.
Readings(lines, p, c) ==
    {i \in DOMAIN lines : lines[i].field = c /\ IsReading(lines, i) /\ PortAt(lines, i) = p}
LastReading(lines, p, c) ==
    LET at == Readings(lines, p, c)
    IN IF at = {} THEN NaN ELSE Scaled(c, lines[Max(at)].value)

PortsNamed(lines) ==
    {PortAt(lines, i) : i \in {j \in DOMAIN lines : Selects(lines, j) \/ IsReading(lines, j)}}

\* Every counter of every port has the last value the text gives for that port
\* and counter, whatever order the ports come in and however often one of them
\* is selected again; no port is lost or invented; and what does not parse is
\* counted once and spoils nothing else.
AttributedByPort(lines) ==
    LET parsed == PerfqueryParsed(lines)
    IN /\ parsed.counters =
            [p \in PortsNamed(lines) |-> [c \in Counters |-> LastReading(lines, p, c)]]
       /\ parsed.errors =
            Cardinality({i \in DOMAIN lines :
                            lines[i].field \in Counters /\ lines[i].value = BadNumber})

\* One series for each port a text names and each counter, read or not.
Said(lines) ==
    {[port |-> p, counter |-> c, value |-> LastReading(lines, p, c)] :
        p \in PortsNamed(lines), c \in Counters}

\* A registry that is sent one series twice answers the scrape with an error and
\* nothing else.  A port is in two outputs, so it is sent once only if each
\* output's record stays silent on the counters of the other; what is sent is
\* what some output says, and all of it.
SentOnce(outputs) ==
    LET sent == Sent(outputs)
        said == UNION {Said(outputs[i]) : i \in DOMAIN outputs}
    IN /\ \A a, b \in sent :
            a[2].port = b[2].port /\ a[2].counter = b[2].counter => a = b
       /\ {s[2] : s \in sent} = {s \in said : s.value # NaN}
=============================================================================
