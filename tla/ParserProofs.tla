---------------------------- MODULE ParserProofs ----------------------------
(***************************************************************************)
(* What the parsers read, for every text.  A parser folds one step over    *)
(* the lines, so LineFold gives it a run of states, one per line, and each *)
(* proof says what the state after i lines is: the claim about the text,   *)
(* cut at line i.                                                          *)
(***************************************************************************)
EXTENDS MCParsers, FoldTheorems, FiniteSetTheorems, TLAPS

-----------------------------------------------------------------------------
(* perfqueryParse.                                                         *)

Perf == INSTANCE LineFold WITH Start <- PerfqueryStart, Step <- PerfqueryLine

\* PerfqueryParsed folds perfqueryParse's loop body over the lines.
LEMMA PerfIsFold == \A lines : Perf!Read(lines) = PerfqueryParsed(lines)
BY DEF Perf!Read, PerfqueryParsed, Perf!FoldLeft, Perf!MapThenFoldSet, FoldLeft, MapThenFoldSet,
       Max, Perf!Max

\* What the first i lines say.
NamedTo(lines, i) ==
    {PortAt(lines, j) : j \in {k \in 1..i : Selects(lines, k) \/ IsReading(lines, k)}}
ReadTo(lines, i, p, c) ==
    {j \in 1..i : lines[j].field = c /\ IsReading(lines, j) /\ PortAt(lines, j) = p}
LastTo(lines, i, p, c) ==
    IF ReadTo(lines, i, p, c) = {} THEN NaN
    ELSE Scaled(c, lines[Max(ReadTo(lines, i, p, c))].value)
IsBad(lines, i) == lines[i].field \in Counters /\ lines[i].value = BadNumber
BadTo(lines, i) == {j \in 1..i : IsBad(lines, j)}
RecordTo(lines, i, p) == [c \in Counters |-> LastTo(lines, i, p, c)]
SaysTo(lines, i) ==
    [port |-> PortAt(lines, i),
     counters |-> [p \in NamedTo(lines, i) |-> RecordTo(lines, i, p)],
     errors |-> Cardinality(BadTo(lines, i))]

\* A PortSelect line names the port, and the other lines keep it.
LEMMA PortAtLine ==
    ASSUME NEW lines, NEW i \in Nat \ {0}
    PROVE  PortAt(lines, i) = IF Selects(lines, i) THEN lines[i].value ELSE PortAt(lines, i - 1)
<1> DEFINE T == {j \in 1..i : Selects(lines, j)}
           U == {j \in 1..(i - 1) : Selects(lines, j)}
<1>1. CASE Selects(lines, i)
  <2>1. T \in SUBSET (1..i) /\ i \in T /\ \A k \in T : k <= i
    BY <1>1
  <2>2. Max(T) = i
    BY <2>1, MaxIs
  <2> QED
    BY <1>1, <2>1, <2>2 DEF PortAt
<1>2. CASE ~Selects(lines, i)
  <2>1. T = U
    BY <1>2
  <2>2. PortAt(lines, i) = (IF T = {} THEN NoPort ELSE lines[Max(T)].value)
    BY DEF PortAt
  <2>3. PortAt(lines, i - 1) = (IF U = {} THEN NoPort ELSE lines[Max(U)].value)
    BY DEF PortAt
  <2> HIDE DEF T, U
  <2> QED
    BY <1>2, <2>1, <2>2, <2>3, Zenon
<1> QED
  BY <1>1, <1>2

\* The readings of the first i lines are those of the lines before and, if it
\* is one, the reading of line i.
LEMMA LastToLine ==
    ASSUME NEW lines, NEW i \in Nat \ {0}, NEW p, NEW c
    PROVE  LastTo(lines, i, p, c) =
             IF lines[i].field = c /\ IsReading(lines, i) /\ PortAt(lines, i) = p
             THEN Scaled(c, lines[i].value) ELSE LastTo(lines, i - 1, p, c)
<1> DEFINE T == ReadTo(lines, i, p, c)
           U == ReadTo(lines, i - 1, p, c)
           here == lines[i].field = c /\ IsReading(lines, i) /\ PortAt(lines, i) = p
<1>1. CASE here
  <2>1. T \in SUBSET (1..i) /\ i \in T /\ \A k \in T : k <= i
    BY <1>1 DEF ReadTo
  <2>2. Max(T) = i
    BY <2>1, MaxIs
  <2> QED
    BY <1>1, <2>1, <2>2 DEF LastTo
<1>2. CASE ~here
  <2>1. T = U
    BY <1>2 DEF ReadTo
  <2>2. LastTo(lines, i, p, c) = (IF T = {} THEN NaN ELSE Scaled(c, lines[Max(T)].value))
    BY DEF LastTo
  <2>3. LastTo(lines, i - 1, p, c) = (IF U = {} THEN NaN ELSE Scaled(c, lines[Max(U)].value))
    BY DEF LastTo
  <2> HIDE DEF T, U
  <2> QED
    BY <1>2, <2>1, <2>2, <2>3, Zenon
<1> QED
  BY <1>1, <1>2

\* The record a line starts from is what the lines before say of its port,
\* known or not.
LEMMA SelectedSays ==
    ASSUME NEW lines, NEW i \in Nat, NEW p
    PROVE  Selected(SaysTo(lines, i), p) = RecordTo(lines, i, p)
<1>1. CASE p \in NamedTo(lines, i)
  BY <1>1 DEF Selected, SaysTo
<1>2. CASE p \notin NamedTo(lines, i)
  <2>1. \A c : ReadTo(lines, i, p, c) = {}
    BY <1>2 DEF ReadTo, NamedTo
  <2>2. \A c : LastTo(lines, i, p, c) = NaN
    BY <2>1 DEF LastTo
  <2>3. RecordTo(lines, i, p) = Initialized
    BY <2>2 DEF RecordTo, Initialized
  <2>4. Selected(SaysTo(lines, i), p) = Initialized
    BY <1>2 DEF Selected, SaysTo
  <2> QED
    BY <2>3, <2>4
<1> QED
  BY <1>1, <1>2

\* The ports named, line by line.
LEMMA NamedToLine ==
    ASSUME NEW lines, NEW i \in Nat \ {0}
    PROVE  NamedTo(lines, i) =
             IF Selects(lines, i) \/ IsReading(lines, i)
             THEN NamedTo(lines, i - 1) \cup {PortAt(lines, i)} ELSE NamedTo(lines, i - 1)
<1>1. 1..i = 1..(i - 1) \cup {i}
  OBVIOUS
<1> QED
  BY <1>1, Zenon DEF NamedTo

\* The values that do not parse, line by line.
LEMMA BadToLine ==
    ASSUME NEW lines, NEW i \in Nat \ {0}
    PROVE  Cardinality(BadTo(lines, i)) =
             IF IsBad(lines, i) THEN Cardinality(BadTo(lines, i - 1)) + 1
             ELSE Cardinality(BadTo(lines, i - 1))
<1>1. IsFiniteSet(1..(i - 1))
  BY FS_Interval
<1>2. IsFiniteSet(BadTo(lines, i - 1)) /\ i \notin BadTo(lines, i - 1)
  <2>1. BadTo(lines, i - 1) \subseteq 1..(i - 1)
    BY DEF BadTo
  <2> QED
    BY <1>1, <2>1, FS_Subset
<1>3. BadTo(lines, i) =
        IF IsBad(lines, i) THEN BadTo(lines, i - 1) \cup {i} ELSE BadTo(lines, i - 1)
  BY DEF BadTo
<1>4. Cardinality(BadTo(lines, i - 1) \cup {i}) = Cardinality(BadTo(lines, i - 1)) + 1
  BY <1>2, FS_AddElement
<1> HIDE DEF BadTo
<1> QED
  BY <1>3, <1>4

\* Nothing is said before the first line.
LEMMA SaysNothing == ASSUME NEW lines PROVE SaysTo(lines, 0) = PerfqueryStart
<1>1. 1..0 = {}
  OBVIOUS
<1>2. PortAt(lines, 0) = NoPort /\ NamedTo(lines, 0) = {} /\ BadTo(lines, 0) = {}
  BY <1>1 DEF PortAt, NamedTo, BadTo
<1>3. Cardinality({}) = 0
  BY FS_EmptySet
<1>4. [p \in {} |-> RecordTo(lines, 0, p)] = <<>>
  OBVIOUS
<1> QED
  BY <1>2, <1>3, <1>4, Zenon DEF SaysTo, PerfqueryStart

\* What storing a record does to what the lines before said.
LEMMA PutSays ==
    ASSUME NEW lines, NEW k \in Nat, NEW q, NEW r
    PROVE  Put(SaysTo(lines, k), q, r) =
             [port |-> q,
              counters |-> [p \in NamedTo(lines, k) \cup {q} |->
                              IF p = q THEN r ELSE RecordTo(lines, k, p)],
              errors |-> Cardinality(BadTo(lines, k))]
<1> DEFINE before == [p \in NamedTo(lines, k) |-> RecordTo(lines, k, p)]
           after == [p \in NamedTo(lines, k) \cup {q} |-> IF p = q THEN r ELSE RecordTo(lines, k, p)]
<1>1. DOMAIN before = NamedTo(lines, k)
  OBVIOUS
<1>2. [p \in DOMAIN before \cup {q} |-> IF p = q THEN r ELSE before[p]] = after
  <2>1. \A p \in NamedTo(lines, k) : before[p] = RecordTo(lines, k, p)
    OBVIOUS
  <2> HIDE DEF before
  <2> QED
    BY <1>1, <2>1
<1>3. SaysTo(lines, k) = [port |-> PortAt(lines, k), counters |-> before,
                          errors |-> Cardinality(BadTo(lines, k))]
  BY DEF SaysTo
<1> HIDE DEF before, after
<1>4. Put(SaysTo(lines, k), q, r) =
        [port |-> q,
         counters |-> [p \in DOMAIN before \cup {q} |-> IF p = q THEN r ELSE before[p]],
         errors |-> Cardinality(BadTo(lines, k))]
  BY <1>3 DEF Put
<1>5. Put(SaysTo(lines, k), q, r) =
        [port |-> q, counters |-> after, errors |-> Cardinality(BadTo(lines, k))]
  BY <1>2, <1>4, Zenon
<1> QED
  BY <1>5 DEF after

\* One line takes what the lines before it say to what the lines up to it say.
LEMMA PerfStep ==
    ASSUME NEW lines, NEW i \in Nat \ {0}
    PROVE  PerfqueryLine(SaysTo(lines, i - 1), lines[i]) = SaysTo(lines, i)
<1> DEFINE line == lines[i]
           k == i - 1
           st == SaysTo(lines, k)
           c == line.field
<1>0. /\ k \in Nat
      /\ Selects(lines, i) <=> c = "PortSelect"
      /\ IsReading(lines, i) <=> c \in Counters /\ line.value # BadNumber
      /\ IsBad(lines, i) <=> c \in Counters /\ line.value = BadNumber
      /\ "PortSelect" \notin Counters
  BY FieldsAssumption DEF Selects, IsReading, IsBad
<1>1. /\ NamedTo(lines, i) = IF Selects(lines, i) \/ IsReading(lines, i)
                             THEN NamedTo(lines, k) \cup {PortAt(lines, i)} ELSE NamedTo(lines, k)
      /\ PortAt(lines, i) = IF Selects(lines, i) THEN line.value ELSE PortAt(lines, k)
      /\ Cardinality(BadTo(lines, i)) = IF IsBad(lines, i) THEN Cardinality(BadTo(lines, k)) + 1
                                        ELSE Cardinality(BadTo(lines, k))
  BY NamedToLine, PortAtLine, BadToLine
<1>2. ~IsReading(lines, i) => \A p : RecordTo(lines, i, p) = RecordTo(lines, k, p)
  BY LastToLine DEF RecordTo
<1>3. SaysTo(lines, i) = [port |-> PortAt(lines, i),
                          counters |-> [p \in NamedTo(lines, i) |-> RecordTo(lines, i, p)],
                          errors |-> Cardinality(BadTo(lines, i))]
  BY DEF SaysTo
<1>4. CASE Selects(lines, i)
  <2> DEFINE q == line.value
             r == RecordTo(lines, k, q)
  <2>1. PerfqueryLine(st, line) = Put(st, q, r)
    BY <1>0, <1>4, SelectedSays DEF PerfqueryLine
  <2>2. [p \in NamedTo(lines, k) \cup {q} |-> IF p = q THEN r ELSE RecordTo(lines, k, p)]
        = [p \in NamedTo(lines, i) |-> RecordTo(lines, i, p)]
    BY <1>0, <1>1, <1>2, <1>4
  <2>4. q = PortAt(lines, i) /\ Cardinality(BadTo(lines, k)) = Cardinality(BadTo(lines, i))
    BY <1>0, <1>1, <1>4
  <2> HIDE DEF q, r
  <2>3. Put(st, q, r) = [port |-> q,
                         counters |-> [p \in NamedTo(lines, k) \cup {q} |->
                                         IF p = q THEN r ELSE RecordTo(lines, k, p)],
                         errors |-> Cardinality(BadTo(lines, k))]
    BY <1>0, PutSays, ZenonT(60)
  <2> QED
    BY <1>3, <2>1, <2>2, <2>3, <2>4, Zenon
<1>5. CASE IsBad(lines, i)
  <2>1. PerfqueryLine(st, line) = [st EXCEPT !.errors = @ + 1]
    BY <1>0, <1>5 DEF PerfqueryLine
  <2>2. /\ PortAt(lines, i) = PortAt(lines, k) /\ NamedTo(lines, i) = NamedTo(lines, k)
        /\ Cardinality(BadTo(lines, i)) = Cardinality(BadTo(lines, k)) + 1
    BY <1>0, <1>1, <1>5
  <2>3. [p \in NamedTo(lines, i) |-> RecordTo(lines, i, p)]
        = [p \in NamedTo(lines, k) |-> RecordTo(lines, k, p)]
    BY <1>0, <1>2, <1>5, <2>2
  <2>4. [st EXCEPT !.errors = @ + 1] =
          [port |-> PortAt(lines, k),
           counters |-> [p \in NamedTo(lines, k) |-> RecordTo(lines, k, p)],
           errors |-> Cardinality(BadTo(lines, k)) + 1]
    <3>1. \A a, b, e : [[port |-> a, counters |-> b, errors |-> e] EXCEPT !.errors = @ + 1]
                       = [port |-> a, counters |-> b, errors |-> e + 1]
      OBVIOUS
    <3> QED
      BY <3>1, Zenon DEF SaysTo
  <2> QED
    BY <1>3, <2>1, <2>2, <2>3, <2>4, Zenon
<1>6. CASE IsReading(lines, i)
  <2> DEFINE q == PortAt(lines, k)
             r == [RecordTo(lines, k, q) EXCEPT ![c] = Scaled(c, line.value)]
  <2>1. st.port = q
    BY DEF SaysTo
  <2>2. PerfqueryLine(st, line) = Put(st, q, r)
    BY <1>0, <1>6, <2>1, SelectedSays DEF PerfqueryLine
  <2>3. PortAt(lines, i) = q /\ NamedTo(lines, i) = NamedTo(lines, k) \cup {q}
        /\ Cardinality(BadTo(lines, k)) = Cardinality(BadTo(lines, i))
    BY <1>0, <1>1, <1>6
  <2>4. RecordTo(lines, i, q) = r
    BY <1>0, <1>6, <2>3, LastToLine DEF RecordTo
  <2>5. \A p : p # q => RecordTo(lines, i, p) = RecordTo(lines, k, p)
    BY <2>3, LastToLine DEF RecordTo
  <2>6. Put(st, q, r) = [port |-> q,
                         counters |-> [p \in NamedTo(lines, k) \cup {q} |->
                                         IF p = q THEN r ELSE RecordTo(lines, k, p)],
                         errors |-> Cardinality(BadTo(lines, k))]
    BY <1>0, PutSays, ZenonT(60)
  <2> HIDE DEF r
  <2>7. [p \in NamedTo(lines, k) \cup {q} |-> IF p = q THEN r ELSE RecordTo(lines, k, p)]
        = [p \in NamedTo(lines, i) |-> RecordTo(lines, i, p)]
    BY <2>3, <2>4, <2>5
  <2> QED
    BY <1>3, <2>2, <2>3, <2>6, <2>7, Zenon
<1>7. CASE ~Selects(lines, i) /\ ~IsBad(lines, i) /\ ~IsReading(lines, i)
  <2>1. PerfqueryLine(st, line) = st
    BY <1>0, <1>7 DEF PerfqueryLine
  <2>2. /\ PortAt(lines, i) = PortAt(lines, k) /\ NamedTo(lines, i) = NamedTo(lines, k)
        /\ Cardinality(BadTo(lines, i)) = Cardinality(BadTo(lines, k))
    BY <1>1, <1>7
  <2>3. [p \in NamedTo(lines, i) |-> RecordTo(lines, i, p)]
        = [p \in NamedTo(lines, k) |-> RecordTo(lines, k, p)]
    BY <1>2, <1>7, <2>2
  <2>4. st = [port |-> PortAt(lines, k),
              counters |-> [p \in NamedTo(lines, k) |-> RecordTo(lines, k, p)],
              errors |-> Cardinality(BadTo(lines, k))]
    BY DEF SaysTo
  <2> QED
    BY <1>3, <2>1, <2>2, <2>3, <2>4, Zenon
<1> QED
  BY <1>4, <1>5, <1>6, <1>7

\* So the parse of a text is what the whole of it says.
LEMMA PerfqueryReads ==
    ASSUME NEW lines, NEW n \in Nat, DOMAIN lines = 1..n
    PROVE  PerfqueryParsed(lines) = SaysTo(lines, n)
<1>1. PICK run : Perf!IsRun(run, lines, n) /\ Perf!Read(lines) = run[n]
  BY Perf!ReadIsRun
<1> DEFINE N == {i \in Nat : i <= n => run[i] = SaysTo(lines, i)}
<1>2. 0 \in N
  BY <1>1, SaysNothing DEF Perf!IsRun
<1>3. ASSUME NEW k \in Nat, k \in N PROVE k + 1 \in N
  <2> SUFFICES ASSUME k + 1 <= n PROVE run[k + 1] = SaysTo(lines, k + 1)
    OBVIOUS
  <2>1. k + 1 \in 1..n /\ k + 1 \in Nat \ {0} /\ (k + 1) - 1 = k /\ run[k] = SaysTo(lines, k)
    BY <1>3
  <2>2. run[k + 1] = PerfqueryLine(run[k], lines[k + 1])
    BY <1>1, <2>1 DEF Perf!IsRun
  <2>3. PerfqueryLine(SaysTo(lines, k), lines[k + 1]) = SaysTo(lines, k + 1)
    BY <2>1, PerfStep
  <2> QED
    BY <2>1, <2>2, <2>3
<1>4. n \in N
  <2> HIDE DEF N
  <2> QED
    BY <1>2, <1>3, NatSetInduction
<1> QED
  BY <1>1, <1>4, PerfIsFold

\* Whatever text perfquery prints, of any length and with its ports in any
\* order, every counter of every port it names gets the last value the text
\* gives for it, no port is lost or invented, and every value that does not
\* parse is counted once and spoils nothing else (perfqueryParse).
THEOREM EveryTextIsAttributed ==
    \A n \in Nat : \A lines : DOMAIN lines = 1..n => AttributedByPort(lines)
<1> SUFFICES ASSUME NEW n \in Nat, NEW lines, DOMAIN lines = 1..n PROVE AttributedByPort(lines)
  OBVIOUS
<1>1. PerfqueryParsed(lines) = SaysTo(lines, n)
  BY PerfqueryReads
<1>2. NamedTo(lines, n) = PortsNamed(lines)
  BY Zenon DEF NamedTo, PortsNamed
<1>3. \A p, c : LastTo(lines, n, p, c) = LastReading(lines, p, c)
  <2>1. \A p, c : ReadTo(lines, n, p, c) = Readings(lines, p, c)
    BY Zenon DEF ReadTo, Readings
  <2> QED
    BY <2>1, Zenon DEF LastTo, LastReading
<1>4. [p \in NamedTo(lines, n) |-> RecordTo(lines, n, p)]
      = [p \in PortsNamed(lines) |-> [c \in Counters |-> LastReading(lines, p, c)]]
  BY <1>2, <1>3 DEF RecordTo
<1>5. BadTo(lines, n) = {i \in DOMAIN lines : lines[i].field \in Counters /\ lines[i].value = BadNumber}
  BY DEF BadTo, IsBad
<1>6. /\ SaysTo(lines, n).counters = [p \in NamedTo(lines, n) |-> RecordTo(lines, n, p)]
      /\ SaysTo(lines, n).errors = Cardinality(BadTo(lines, n))
  BY DEF SaysTo
<1> QED
  BY <1>1, <1>4, <1>5, <1>6, Zenon DEF AttributedByPort

\* The texts the runs read are finite sequences of lines.
Texts == perfLines \in Seq(PerfLines) /\ netLines \in Seq(NetLines)

\* The texts the runs read are made of their lines.
LEMMA TextsHold == Spec => []Texts
<1>1. Init => Texts
  BY DEF Init, Texts
<1>2. Texts /\ [Next]_vars => Texts'
  <2> SUFFICES ASSUME Texts, [Next]_vars PROVE Texts'
    OBVIOUS
  <2>1. CASE ReadPerf
    BY <2>1 DEF Texts, ReadPerf
  <2>2. CASE ReadNet
    BY <2>2 DEF Texts, ReadNet
  <2>3. CASE PickSwitch
    BY <2>3 DEF Texts, PickSwitch
  <2>4. CASE UNCHANGED vars
    BY <2>4 DEF Texts, vars
  <2> QED
    BY <2>1, <2>2, <2>3, <2>4 DEF Next
<1> QED
  BY <1>1, <1>2, PTL DEF Spec

\* The lines of a text are numbered from 1.
LEMMA SeqDomain == ASSUME NEW S, NEW lines \in Seq(S) PROVE Len(lines) \in Nat /\ DOMAIN lines = 1..Len(lines)
OBVIOUS

\* PerfqueryAttributed: perfqueryParse gives every reading of a text to the port it was read for.
THEOREM Attributed == Spec => []PerfqueryAttributed
<1>1. Texts => PerfqueryAttributed
  <2>1. Texts => Len(perfLines) \in Nat /\ DOMAIN perfLines = 1..Len(perfLines)
    BY SeqDomain DEF Texts
  <2> QED
    BY <2>1, EveryTextIsAttributed DEF PerfqueryAttributed
<1> QED
  BY <1>1, TextsHold, PTL

-----------------------------------------------------------------------------
(* Collect and emitPortCounters: the series of one device.                 *)

\* No counter of a port is read in two of the outputs.
ReadInOne(outputs) ==
    \A i, j \in DOMAIN outputs : i # j =>
        \A p, c : Readings(outputs[i], p, c) = {} \/ Readings(outputs[j], p, c) = {}

\* The series of one output: one for each counter it reads.
LEMMA EmittedSeries ==
    ASSUME NEW lines, AttributedByPort(lines)
    PROVE  LET parsed == PerfqueryParsed(lines).counters
           IN UNION {emitPortCounters(p, parsed[p]) : p \in DOMAIN parsed}
              = {s \in Said(lines) : s.value # NaN}
<1> DEFINE parsed == PerfqueryParsed(lines).counters
           at(p, c) == [port |-> p, counter |-> c, value |-> LastReading(lines, p, c)]
<1>1. parsed = [p \in PortsNamed(lines) |-> [c \in Counters |-> LastReading(lines, p, c)]]
  BY Zenon DEF AttributedByPort
<1>2. /\ DOMAIN parsed = PortsNamed(lines)
      /\ \A p \in PortsNamed(lines), c \in Counters : parsed[p][c] = LastReading(lines, p, c)
  BY <1>1
<1> HIDE DEF parsed
<1>3. \A p \in PortsNamed(lines) :
        emitPortCounters(p, parsed[p]) = {s \in {at(p, c) : c \in Counters} : s.value # NaN}
  BY <1>2 DEF emitPortCounters, portCounterDefs
<1>4. UNION {emitPortCounters(p, parsed[p]) : p \in DOMAIN parsed}
      = {s \in {at(p, c) : p \in PortsNamed(lines), c \in Counters} : s.value # NaN}
  BY <1>2, <1>3
<1> QED
  BY <1>4 DEF parsed, Said

\* A scrape of one device sends no series twice, and sends what some output says
\* and all of it, whatever its outputs are, if no counter of a port is read in
\* two of them (Collect, emitPortCounters).
THEOREM SentOnceIfReadOnce ==
    ASSUME NEW outputs, \A i \in DOMAIN outputs : \E n \in Nat : DOMAIN outputs[i] = 1..n,
           ReadInOne(outputs)
    PROVE  SentOnce(outputs)
<1> DEFINE D == DOMAIN outputs
           series(i) == {s \in Said(outputs[i]) : s.value # NaN}
           said == UNION {Said(outputs[i]) : i \in D}
           sent == Sent(outputs)
<1>1. \A i \in D : AttributedByPort(outputs[i])
  BY EveryTextIsAttributed
<1>2. \A x : x \in sent <=> \E i \in D : \E s \in series(i) : x = <<i, s>>
  <2> DEFINE parsed(i) == PerfqueryParsed(outputs[i]).counters
             emitted(i) == UNION {emitPortCounters(p, parsed(i)[p]) : p \in DOMAIN parsed(i)}
  <2>1. \A i \in D : emitted(i) = series(i)
    BY <1>1, EmittedSeries
  <2>2. sent = UNION {{<<i, s>> : s \in emitted(i)} : i \in D}
    BY DEF Sent
  <2> HIDE DEF said, series, sent
  <2>3. \A x : x \in sent <=> \E i \in D : \E s \in emitted(i) : x = <<i, s>>
    BY <2>2
  <2> QED
    BY <2>1, <2>3, Zenon
<1> HIDE DEF sent
<1>3. ASSUME NEW a \in sent, NEW b \in sent, a[2].port = b[2].port, a[2].counter = b[2].counter
      PROVE  a = b
  <2> DEFINE at(i, p, c) == [port |-> p, counter |-> c, value |-> LastReading(outputs[i], p, c)]
  <2>1. \A x \in sent : \E i \in D : \E p, c :
          x = <<i, at(i, p, c)>> /\ LastReading(outputs[i], p, c) # NaN
    BY <1>2 DEF Said
  <2>2. PICK i \in D : \E p, c : a = <<i, at(i, p, c)>> /\ LastReading(outputs[i], p, c) # NaN
    BY <2>1
  <2>3. PICK p, c : a = <<i, at(i, p, c)>> /\ LastReading(outputs[i], p, c) # NaN
    BY <2>2
  <2>5. PICK j \in D : \E q, d : b = <<j, at(j, q, d)>> /\ LastReading(outputs[j], q, d) # NaN
    BY <2>1
  <2>6. PICK q, d : b = <<j, at(j, q, d)>> /\ LastReading(outputs[j], q, d) # NaN
    BY <2>5
  <2>7. p = q /\ c = d
    BY <1>3, <2>3, <2>6
  <2>8. Readings(outputs[i], p, c) # {} /\ Readings(outputs[j], p, c) # {}
    BY <2>3, <2>6, <2>7 DEF LastReading
  <2>9. i = j
    BY <2>8 DEF ReadInOne
  <2> QED
    BY <2>3, <2>6, <2>7, <2>9
<1>4. {s[2] : s \in sent} = {s \in said : s.value # NaN}
  <2>1. \A s \in said : \E i \in D : s \in Said(outputs[i])
    OBVIOUS
  <2>2. \A i \in D : \A s \in Said(outputs[i]) : s \in said
    OBVIOUS
  <2> HIDE DEF said
  <2>3. ASSUME NEW x \in sent PROVE x[2] \in said /\ x[2].value # NaN
    <3>1. PICK i \in D : \E s \in series(i) : x = <<i, s>>
      BY <1>2
    <3>2. x[2] \in series(i)
      BY <3>1
    <3> QED
      BY <2>2, <3>2
  <2>4. ASSUME NEW s \in said, s.value # NaN PROVE \E x \in sent : s = x[2]
    <3>1. PICK i \in D : s \in series(i)
      BY <2>1, <2>4
    <3>2. <<i, s>> \in sent /\ <<i, s>>[2] = s
      BY <1>2, <3>1
    <3> QED
      BY <3>2
  <2> QED
    BY <2>3, <2>4
<1>5. \A a, b \in sent : a[2].port = b[2].port /\ a[2].counter = b[2].counter => a = b
  BY <1>3
<1> QED
  BY <1>4, <1>5, Zenon DEF SentOnce, sent

\* The outputs of the runs' device: -x and -E print no counter in common.
THEOREM PortSentOnce == Spec => []PerfquerySentOnce
<1> DEFINE base == Without(Details)
           details == Without(Counters \ Details)
           outputs == <<base, details>>
<1>1. ASSUME Texts PROVE PerfquerySentOnce
  <2>1. Len(perfLines) \in Nat /\ DOMAIN base = 1..Len(perfLines) /\ DOMAIN details = 1..Len(perfLines)
    BY <1>1, SeqDomain DEF Texts, Without
  <2>2. DOMAIN outputs = {1, 2} /\ outputs[1] = base /\ outputs[2] = details
    OBVIOUS
  <2>3. Noise.field \notin Counters
    BY FieldsAssumption DEF Noise
  <2>4. \A p : \A c \in Details : Readings(base, p, c) = {}
    BY <2>3 DEF Readings, IsReading, Without
  <2>5. \A p : \A c \in Counters \ Details : Readings(details, p, c) = {}
    BY <2>3 DEF Readings, IsReading, Without
  <2>6. \A p, lines : \A c : c \notin Counters => Readings(lines, p, c) = {}
    BY DEF Readings, IsReading
  <2> HIDE DEF base, details
  <2>7. ReadInOne(outputs)
    <3>1. \A p, c : Readings(base, p, c) = {} \/ Readings(details, p, c) = {}
      BY <2>4, <2>5, <2>6
    <3> QED
      BY <2>2, <3>1 DEF ReadInOne
  <2>8. \A i \in DOMAIN outputs : \E n \in Nat : DOMAIN outputs[i] = 1..n
    BY <2>1, <2>2
  <2>9. SentOnce(outputs)
    <3> HIDE DEF outputs
    <3> QED
      BY <2>7, <2>8, SentOnceIfReadOnce
  <2> QED
    BY <2>9 DEF PerfquerySentOnce, base, details
<1> QED
  BY <1>1, TextsHold, PTL

-----------------------------------------------------------------------------
(* Sets of lines, cut at line i.                                           *)

Upto(G, i) == {j \in G : j <= i}

\* What v gives for the last line of G up to i.
LastIn(G, i, v, default) == IF Upto(G, i) = {} THEN default ELSE v[Max(Upto(G, i))]

\* What is in a set of lines cut at i.
LEMMA UptoIn ==
    ASSUME NEW n \in Nat, NEW G \in SUBSET (1..n), NEW i \in Int
    PROVE  /\ \A j : j \in Upto(G, i) <=> j \in G /\ j \in 1..n /\ j <= i
           /\ \A j \in G : j \in 1..n
<1>1. \A j \in G : j \in 1..n
  OBVIOUS
<1> QED
  BY <1>1 DEF Upto

\* One line more: it is in the cut, as its last line, or it changes nothing.
LEMMA UptoLine ==
    ASSUME NEW n \in Nat, NEW G \in SUBSET (1..n), NEW i \in Nat \ {0}
    PROVE  /\ i \in G => /\ Upto(G, i) = Upto(G, i - 1) \cup {i}
                         /\ Max(Upto(G, i)) = i
           /\ i \notin G => Upto(G, i) = Upto(G, i - 1)
<1>1. /\ i \in Int /\ i - 1 \in Int
      /\ \A j : j \in Upto(G, i) <=> j \in G /\ j \in 1..n /\ j <= i
      /\ \A j : j \in Upto(G, i - 1) <=> j \in G /\ j \in 1..n /\ j <= i - 1
      /\ \A j \in G : j \in 1..n
  BY UptoIn
<1>2. i \in G => Upto(G, i) = Upto(G, i - 1) \cup {i}
  BY <1>1
<1>3. i \notin G => Upto(G, i) = Upto(G, i - 1)
  BY <1>1
<1>4. ASSUME i \in G PROVE Max(Upto(G, i)) = i
  <2> DEFINE T == Upto(G, i)
  <2>1. T \in SUBSET (1..n) /\ i \in T /\ \A k \in T : k <= i
    BY <1>1, <1>4
  <2> HIDE DEF T
  <2>2. Max(T) = i
    BY <2>1, MaxIs
  <2> QED
    BY <2>2 DEF T
<1> QED
  BY <1>2, <1>3, <1>4

\* A line of the set is the last one of it so far.
LEMMA LastInHere ==
    ASSUME NEW n \in Nat, NEW G \in SUBSET (1..n), NEW i \in Nat \ {0}, NEW v, NEW default, i \in G
    PROVE  LastIn(G, i, v, default) = v[i]
<1>1. Upto(G, i) = Upto(G, i - 1) \cup {i} /\ Max(Upto(G, i)) = i
  BY UptoLine
<1> QED
  BY <1>1 DEF LastIn

\* The cut at the end is the whole set, and at 0 nothing.
LEMMA UptoNone ==
    ASSUME NEW n \in Nat, NEW G \in SUBSET (1..n)
    PROVE  Upto(G, 0) = {} /\ Upto(G, n) = G
<1>1. /\ \A j : j \in Upto(G, 0) <=> j \in G /\ j \in 1..n /\ j <= 0
      /\ \A j : j \in Upto(G, n) <=> j \in G /\ j \in 1..n /\ j <= n
      /\ \A j \in G : j \in 1..n
  BY UptoIn
<1>2. \A j : j \notin Upto(G, 0)
  BY <1>1
<1>3. \A j : j \in Upto(G, n) <=> j \in G
  <2>1. \A j \in 1..n : j <= n
    OBVIOUS
  <2> QED
    BY <1>1, <2>1, Zenon
<1> QED
  BY <1>2, <1>3

\* A line of the set adds one to the size of the cut.
LEMMA UptoCounted ==
    ASSUME NEW n \in Nat, NEW G \in SUBSET (1..n), NEW i \in Nat \ {0}
    PROVE  /\ Cardinality(Upto(G, i - 1)) \in Nat
           /\ Cardinality(Upto(G, i)) = IF i \in G THEN Cardinality(Upto(G, i - 1)) + 1
                                        ELSE Cardinality(Upto(G, i - 1))
<1> DEFINE T == Upto(G, i - 1)
<1>1. IsFiniteSet(1..n)
  BY FS_Interval
<1>2. T \subseteq 1..n /\ i \notin T
  BY UptoIn
<1>3. IsFiniteSet(T)
  BY <1>1, <1>2, FS_Subset
<1>4. Cardinality(T) \in Nat
  BY <1>3, FS_CardinalityType
<1>5. Cardinality(T \cup {i}) = Cardinality(T) + 1
  BY <1>2, <1>3, FS_AddElement
<1> HIDE DEF T
<1>6. i \in G => Upto(G, i) = T \cup {i}
  BY UptoLine DEF T
<1>7. i \notin G => Upto(G, i) = T
  BY UptoLine DEF T
<1> QED
  BY <1>4, <1>5, <1>6, <1>7 DEF T

\* What v gives for the lines of G up to i, in their order.
ListTo(G, i, v) ==
    [k \in 1..Cardinality(Upto(G, i)) |-> v[CHOOSE j \in G : Cardinality(Upto(G, j)) = k]]

\* Of two lines of a set, the later one has the larger cut.
LEMMA UptoGrows ==
    ASSUME NEW n \in Nat, NEW G \in SUBSET (1..n), NEW i \in G, NEW j \in G, i < j
    PROVE  Cardinality(Upto(G, i)) < Cardinality(Upto(G, j))
<1>1. IsFiniteSet(1..n)
  BY FS_Interval
<1>2. Upto(G, j) \subseteq 1..n
  BY DEF Upto
<1>3. IsFiniteSet(Upto(G, j))
  BY <1>1, <1>2, FS_Subset
<1>4. Upto(G, i) \subseteq Upto(G, j) /\ j \in Upto(G, j) /\ j \notin Upto(G, i)
  <2>1. i \in Int /\ j \in Int
    BY UptoIn
  <2>2. /\ \A k : k \in Upto(G, i) <=> k \in G /\ k \in 1..n /\ k <= i
        /\ \A k : k \in Upto(G, j) <=> k \in G /\ k \in 1..n /\ k <= j
        /\ j \in 1..n
    BY <2>1, UptoIn
  <2> QED
    BY <2>1, <2>2
<1>5. /\ Cardinality(Upto(G, i)) <= Cardinality(Upto(G, j))
      /\ Cardinality(Upto(G, i)) = Cardinality(Upto(G, j)) => Upto(G, i) = Upto(G, j)
      /\ Cardinality(Upto(G, j)) \in Nat /\ IsFiniteSet(Upto(G, i))
  BY <1>3, <1>4, FS_Subset, FS_CardinalityType
<1>6. Cardinality(Upto(G, i)) \in Nat
  BY <1>5, FS_CardinalityType
<1> QED
  BY <1>4, <1>5, <1>6

\* The k-th line of a set is the one whose cut has k lines.
LEMMA ListedAt ==
    ASSUME NEW n \in Nat, NEW G \in SUBSET (1..n), NEW j \in G
    PROVE  (CHOOSE i \in G : Cardinality(Upto(G, i)) = Cardinality(Upto(G, j))) = j
<1> DEFINE i == CHOOSE k \in G : Cardinality(Upto(G, k)) = Cardinality(Upto(G, j))
<1>1. i \in G /\ Cardinality(Upto(G, i)) = Cardinality(Upto(G, j))
  OBVIOUS
<1> HIDE DEF i
<1>2. i \in Int /\ j \in Int
  BY <1>1
<1>3. \A k \in G : Cardinality(Upto(G, k)) \in Nat
  <2> TAKE k \in G
  <2>1. IsFiniteSet(1..n)
    BY FS_Interval
  <2>2. Upto(G, k) \subseteq 1..n
    BY DEF Upto
  <2> QED
    BY <2>1, <2>2, FS_Subset, FS_CardinalityType
<1>4. ~(i < j) /\ ~(j < i)
  <2>1. ASSUME i < j PROVE FALSE
    <3>1. Cardinality(Upto(G, i)) < Cardinality(Upto(G, j))
      BY <1>1, <2>1, UptoGrows
    <3> QED
      BY <1>1, <1>3, <3>1
  <2>2. ASSUME j < i PROVE FALSE
    <3>1. Cardinality(Upto(G, j)) < Cardinality(Upto(G, i))
      BY <1>1, <2>2, UptoGrows
    <3> QED
      BY <1>1, <1>3, <3>1
  <2> QED
    BY <2>1, <2>2
<1> QED
  BY <1>2, <1>4 DEF i

\* Append, entry by entry.
LEMMA AppendIs ==
    ASSUME NEW m \in Nat, NEW s, NEW e, s = [k \in 1..m |-> s[k]]
    PROVE  Append(s, e) = [k \in 1..(m + 1) |-> IF k = m + 1 THEN e ELSE s[k]]
<1> DEFINE S == {s[k] : k \in 1..m} \cup {e}
<1>1. s \in [1..m -> S]
  OBVIOUS
<1> HIDE DEF S
<1>2. s \in Seq(S) /\ Len(s) = m
  BY <1>1
<1>3. e \in S
  BY DEF S
<1> QED
  BY <1>2, <1>3

\* A line of the set is appended to the list so far; another changes nothing.
LEMMA ListToLine ==
    ASSUME NEW n \in Nat, NEW G \in SUBSET (1..n), NEW i \in Nat \ {0}, NEW v
    PROVE  /\ i \in G => ListTo(G, i, v) = Append(ListTo(G, i - 1, v), v[i])
           /\ i \notin G => ListTo(G, i, v) = ListTo(G, i - 1, v)
<1> DEFINE m == Cardinality(Upto(G, i - 1))
           f(k) == v[CHOOSE j \in G : Cardinality(Upto(G, j)) = k]
           s == ListTo(G, i - 1, v)
<1>1. m \in Nat /\ Cardinality(Upto(G, i)) = IF i \in G THEN m + 1 ELSE m
  BY UptoCounted
<1>2. s = [k \in 1..m |-> f(k)]
  BY Zenon DEF ListTo
<1>3. ListTo(G, i, v) = [k \in 1..Cardinality(Upto(G, i)) |-> f(k)]
  BY Zenon DEF ListTo
<1>4. i \in G => f(m + 1) = v[i]
  <2>1. i \in G => Cardinality(Upto(G, i)) = m + 1
    BY <1>1
  <2>2. i \in G => (CHOOSE j \in G : Cardinality(Upto(G, j)) = Cardinality(Upto(G, i))) = i
    BY ListedAt
  <2> HIDE DEF m
  <2> QED
    BY <2>1, <2>2, Zenon
<1> HIDE DEF m, f, s
<1>5. CASE i \in G
  <2>1. s = [k \in 1..m |-> s[k]]
    BY <1>2
  <2>2. Append(s, v[i]) = [k \in 1..(m + 1) |-> IF k = m + 1 THEN v[i] ELSE s[k]]
    BY ONLY <1>1, <2>1, AppendIs
  <2>3. [k \in 1..(m + 1) |-> IF k = m + 1 THEN v[i] ELSE s[k]] = [k \in 1..(m + 1) |-> f(k)]
    BY <1>1, <1>2, <1>4, <1>5
  <2>4. ListTo(G, i, v) = [k \in 1..(m + 1) |-> f(k)]
    BY <1>1, <1>3, <1>5
  <2>5. ListTo(G, i, v) = Append(s, v[i])
    BY <2>2, <2>3, <2>4, Zenon
  <2> QED
    BY <1>5, <2>5 DEF s
<1>6. CASE i \notin G
  <2>1. ListTo(G, i, v) = s
    BY <1>1, <1>2, <1>3, <1>6
  <2> QED
    BY <1>6, <2>1 DEF s
<1> QED
  BY <1>5, <1>6

-----------------------------------------------------------------------------
(* A finite set of integers has an increasing list of its elements.        *)

Increasing(list) == \A i, j \in DOMAIN list : i < j => list[i] < list[j]

\* A finite set of integers that is not empty has a greatest element.
LEMMA Greatest ==
    ASSUME NEW S, IsFiniteSet(S), S \subseteq Int, S # {}
    PROVE  \E m \in S : \A k \in S : k <= m
<1> DEFINE Good == {T \in SUBSET S : T # {} => \E m \in T : \A k \in T : k <= m}
<1>1. ASSUME NEW U \in SUBSET S, \A W \in SUBSET S : W \subseteq U /\ W # U => W \in Good
      PROVE  U \in Good
  <2> SUFFICES ASSUME NEW x \in U PROVE \E m \in U : \A k \in U : k <= m
    OBVIOUS
  <2> DEFINE W == U \ {x}
  <2>1. W \in SUBSET S /\ W \subseteq U /\ W # U /\ x \in Int
    OBVIOUS
  <2>2. W \in Good
    BY <1>1, <2>1
  <2>3. CASE W = {}
    <3>1. \A k \in U : k = x
      BY <2>3
    <3> QED
      BY <2>1, <3>1
  <2>4. CASE W # {}
    <3>1. PICK m \in W : \A k \in W : k <= m
      BY <2>2, <2>4
    <3>2. m \in Int /\ (\A k \in W : k \in Int)
      OBVIOUS
    <3>3. \A k \in U : k = x \/ k \in W
      OBVIOUS
    <3>4. CASE x <= m
      <4>1. \A k \in U : k <= m
        BY <3>1, <3>3, <3>4
      <4> QED
        BY <4>1
    <3>5. CASE m <= x
      <4>1. \A k \in W : k <= x
        BY <2>1, <3>1, <3>2, <3>5
      <4>2. \A k \in U : k <= x
        BY <2>1, <3>3, <4>1
      <4> QED
        BY <4>2
    <3> QED
      BY <2>1, <3>2, <3>4, <3>5
  <2> QED
    BY <2>3, <2>4
<1> HIDE DEF Good
<1>2. S \in Good
  BY <1>1, SubsetInduction
<1> QED
  BY <1>2 DEF Good

\* Every finite set of integers is listed by some increasing sequence.
LEMMA IncreasingList ==
    ASSUME NEW S, IsFiniteSet(S), S \subseteq Int
    PROVE  \E list \in [1..Cardinality(S) -> S] : Increasing(list)
<1> DEFINE Good == {T \in SUBSET S : \E list \in [1..Cardinality(T) -> T] : Increasing(list)}
<1>1. ASSUME NEW U \in SUBSET S, \A W \in SUBSET S : W \subseteq U /\ W # U => W \in Good
      PROVE  U \in Good
  <2>1. CASE U = {}
    <3>1. Cardinality(U) = 0 /\ 1..0 = {}
      BY <2>1, FS_EmptySet
    <3> DEFINE list == [i \in 1..0 |-> 0]
    <3>2. list \in [1..Cardinality(U) -> U] /\ Increasing(list)
      BY <3>1 DEF Increasing
    <3> QED
      BY <3>2
  <2>2. CASE U # {}
    <3>1. IsFiniteSet(U) /\ U \subseteq Int
      BY FS_Subset
    <3>2. PICK m \in U : \A k \in U : k <= m
      BY <2>2, <3>1, Greatest
    <3> DEFINE W == U \ {m}
               n == Cardinality(W)
    <3>3. W \in SUBSET S /\ W \subseteq U /\ W # U /\ m \in Int
      OBVIOUS
    <3>4. n \in Nat /\ Cardinality(U) = n + 1
      <4>1. Cardinality(W) = Cardinality(U) - 1 /\ Cardinality(U) \in Nat
        BY <3>1, FS_RemoveElement, FS_CardinalityType
      <4>2. Cardinality(W) \in Nat
        <5>1. IsFiniteSet(W)
          BY <3>1, <3>3, FS_Subset
        <5> QED
          BY <5>1, FS_CardinalityType
      <4> HIDE DEF W
      <4> QED
        BY <4>1, <4>2
    <3>5. PICK rest \in [1..n -> W] : Increasing(rest)
      BY <1>1, <3>3
    <3> HIDE DEF n
    <3> DEFINE list == [i \in 1..(n + 1) |-> IF i = n + 1 THEN m ELSE rest[i]]
    <3>6. \A i \in 1..n : rest[i] \in U /\ rest[i] < m
      <4>1. \A i \in 1..n : rest[i] \in U /\ rest[i] # m
        OBVIOUS
      <4>2. \A k \in U : k \in Int
        BY <3>1
      <4> HIDE DEF W
      <4> TAKE i \in 1..n
      <4>3. rest[i] \in U /\ rest[i] # m /\ rest[i] <= m /\ rest[i] \in Int
        BY <3>2, <4>1, <4>2
      <4> QED
        BY <3>3, <4>3
    <3>7. list \in [1..Cardinality(U) -> U]
      BY <3>4, <3>6
    <3>8. Increasing(list)
      <4> SUFFICES ASSUME NEW i \in 1..(n + 1), NEW j \in 1..(n + 1), i < j PROVE list[i] < list[j]
        BY <3>4 DEF Increasing
      <4>1. i \in 1..n /\ list[i] = rest[i]
        BY <3>4
      <4>2. CASE j = n + 1
        BY <3>6, <4>1, <4>2
      <4>3. CASE j # n + 1
        <5>1. j \in 1..n /\ list[j] = rest[j]
          BY <3>4, <4>3
        <5> QED
          BY <3>5, <4>1, <5>1 DEF Increasing
      <4> QED
        BY <4>2, <4>3
    <3> QED
      BY <3>7, <3>8
  <2> QED
    BY <2>1, <2>2
<1> HIDE DEF Good
<1>2. S \in Good
  BY <1>1, SubsetInduction
<1> QED
  BY <1>2 DEF Good

\* An increasing list as long as a set of integers it draws on has them all.
LEMMA IncreasingListsAll ==
    ASSUME NEW S, IsFiniteSet(S), S \subseteq Int,
           NEW list \in [1..Cardinality(S) -> S], Increasing(list)
    PROVE  ToSet(list) = S
<1> DEFINE n == Cardinality(S)
<1>1. n \in Nat
  BY FS_CardinalityType
<1> HIDE DEF n
<1>2. list \in [1..n -> S]
  BY DEF n
<1>3. \A i, j \in 1..n : i # j => list[i] # list[j]
  <2>1. \A i \in 1..n : list[i] \in Int
    BY <1>2
  <2> SUFFICES ASSUME NEW i \in 1..n, NEW j \in 1..n, i # j PROVE list[i] # list[j]
    OBVIOUS
  <2>2. i < j \/ j < i
    OBVIOUS
  <2>3. list[i] < list[j] \/ list[j] < list[i]
    <3>1. DOMAIN list = 1..n
      BY <1>2
    <3> QED
      BY <2>2, <3>1 DEF Increasing
  <2> QED
    BY <2>1, <2>3
<1>4. list \in Injection(1..n, S)
  BY <1>2, <1>3 DEF Injection, IsInjective
<1>5. Cardinality(1..n) = n /\ IsFiniteSet(1..n)
  BY <1>1, FS_Interval
<1>6. list \in Surjection(1..n, S)
  BY <1>4, <1>5, FS_Injection DEF n
<1> QED
  BY <1>6 DEF Surjection, ToSet

-----------------------------------------------------------------------------
(* ibnetdiscoverParse, for a portState that is on and one that is off.     *)

NetUp(st, l) == NetLine(TRUE, st, l)
NetQuiet(st, l) == NetLine(FALSE, st, l)
Up == INSTANCE LineFold WITH Start <- NetStart, Step <- NetUp
Quiet == INSTANCE LineFold WITH Start <- NetStart, Step <- NetQuiet

\* The state after the last line.
EndOf(portState, lines) == FoldLeft(LAMBDA st, l : NetLine(portState, st, l), NetStart, lines)

\* ibnetdiscoverParse's loop, folded over the lines.
LEMMA NetIsFold ==
    ASSUME NEW lines
    PROVE  Up!Read(lines) = EndOf(TRUE, lines) /\ Quiet!Read(lines) = EndOf(FALSE, lines)
<1>1. Up!Read(lines) = EndOf(TRUE, lines)
  BY DEF Up!Read, EndOf, Up!FoldLeft, Up!MapThenFoldSet, FoldLeft, MapThenFoldSet, Max, Up!Max, NetUp
<1>2. Quiet!Read(lines) = EndOf(FALSE, lines)
  BY DEF Quiet!Read, EndOf, Quiet!FoldLeft, Quiet!MapThenFoldSet, FoldLeft, MapThenFoldSet, Max,
         Quiet!Max, NetQuiet
<1> QED
  BY <1>1, <1>2

\* What each column says, line by line.
Types(lines) == [j \in DOMAIN lines |-> lines[j].type]
Lids(lines) == [j \in DOMAIN lines |-> lines[j].lid]
Names(lines) == [j \in DOMAIN lines |-> lines[j].name]
Speeds(lines) == [j \in DOMAIN lines |-> lines[j].speed]
Peers(lines) == [j \in DOMAIN lines |-> lines[j].peer]
Ports(lines) == [j \in DOMAIN lines |-> lines[j].port]

\* What the first i lines say of device g, and of all devices.
PortsTo(lines, i, g) == {lines[j].port : j \in Upto(LinkedOf(lines, g), i)}
LinkTo(lines, i, g, p) ==
    [peer |-> LastIn(LinksOf(lines, g, p), i, Peers(lines), NoPeer),
     rate |-> LastIn(LinksOf(lines, g, p), i, Speeds(lines), "")]
DeviceTo(portState, lines, i, g) ==
    [type |-> LastIn(KeptOf(portState, lines, g), i, Types(lines), ""),
     lid |-> LastIn(KeptOf(portState, lines, g), i, Lids(lines), 0),
     name |-> LastIn(NamedOf(portState, lines, g), i, Names(lines), NoName),
     rate |-> LastIn(RatedOf(lines, g), i, Speeds(lines), ""),
     uplinks |-> [p \in PortsTo(lines, i, g) |-> LinkTo(lines, i, g, p)],
     switch |-> LastIn(LinkedOf(lines, g), i, Peers(lines), NoPeer),
     downPorts |-> ListTo(DownOf(portState, lines, g), i, Ports(lines))]
GuidsTo(portState, lines, i) == {lines[j].guid : j \in {k \in 1..i : Kept(portState, lines[k])}}
NetTo(portState, lines, i) ==
    [outcome |-> "ok",
     devices |-> [g \in GuidsTo(portState, lines, i) |-> DeviceTo(portState, lines, i, g)]]

\* The line ends the parse.
Aborts(l) == l.columns = "five" \/ (IsLink(l) /\ ~Parseable(l))

IsText(lines, n) ==
    DOMAIN lines = 1..n /\ \A i \in 1..n : lines[i].columns \in {"few", "five", "enough"}

\* The sets of lines about a device.
LEMMA LinesAbout ==
    ASSUME NEW n \in Nat, NEW lines, DOMAIN lines = 1..n, NEW portState, NEW g, NEW p
    PROVE  /\ KeptOf(portState, lines, g) \in SUBSET (1..n)
           /\ NamedOf(portState, lines, g) \in SUBSET KeptOf(portState, lines, g)
           /\ DownOf(portState, lines, g) \in SUBSET KeptOf(portState, lines, g)
           /\ RatedOf(lines, g) \in SUBSET KeptOf(portState, lines, g)
           /\ LinkedOf(lines, g) \in SUBSET KeptOf(portState, lines, g)
           /\ LinksOf(lines, g, p) \in SUBSET LinkedOf(lines, g)
           /\ NamedOf(portState, lines, g) \in SUBSET (1..n)
           /\ DownOf(portState, lines, g) \in SUBSET (1..n)
           /\ RatedOf(lines, g) \in SUBSET (1..n)
           /\ LinkedOf(lines, g) \in SUBSET (1..n)
           /\ LinksOf(lines, g, p) \in SUBSET (1..n)
BY DEF KeptOf, NamedOf, DownOf, RatedOf, LinkedOf, LinksOf, Kept, IsLinked

\* Of a device the lines up to i do not keep they say nothing.
LEMMA DeviceUnknown ==
    ASSUME NEW n \in Nat, NEW lines, DOMAIN lines = 1..n, NEW portState, NEW i \in Nat, NEW g,
           Upto(KeptOf(portState, lines, g), i) = {}
    PROVE  DeviceTo(portState, lines, i, g) = NewDevice
<1>1. \A G \in SUBSET KeptOf(portState, lines, g) : Upto(G, i) = {}
  BY DEF Upto
<1>2. \A G \in SUBSET KeptOf(portState, lines, g) : \A v, default : LastIn(G, i, v, default) = default
  BY <1>1 DEF LastIn
<1>3. /\ LastIn(KeptOf(portState, lines, g), i, Types(lines), "") = ""
      /\ LastIn(KeptOf(portState, lines, g), i, Lids(lines), 0) = 0
      /\ LastIn(NamedOf(portState, lines, g), i, Names(lines), NoName) = NoName
      /\ LastIn(RatedOf(lines, g), i, Speeds(lines), "") = ""
      /\ LastIn(LinkedOf(lines, g), i, Peers(lines), NoPeer) = NoPeer
  BY <1>2, LinesAbout
<1>4. PortsTo(lines, i, g) = {}
  <2>1. LinkedOf(lines, g) \in SUBSET KeptOf(portState, lines, g)
    BY LinesAbout, Zenon
  <2>2. Upto(LinkedOf(lines, g), i) = {}
    BY <1>1, <2>1, Zenon
  <2> QED
    BY <2>2 DEF PortsTo
<1>5. [p \in PortsTo(lines, i, g) |-> LinkTo(lines, i, g, p)] = <<>>
  BY <1>4
<1>6. ListTo(DownOf(portState, lines, g), i, Ports(lines)) = <<>>
  <2>1. Upto(DownOf(portState, lines, g), i) = {}
    BY <1>1, LinesAbout
  <2>2. Cardinality({}) = 0 /\ 1..0 = {}
    BY FS_EmptySet
  <2> DEFINE f(k) == Ports(lines)[CHOOSE j \in DownOf(portState, lines, g) :
                                    Cardinality(Upto(DownOf(portState, lines, g), j)) = k]
  <2>3. ListTo(DownOf(portState, lines, g), i, Ports(lines)) = [k \in {} |-> f(k)]
    BY <2>1, <2>2, Zenon DEF ListTo
  <2> QED
    BY <2>3
<1> QED
  BY <1>3, <1>5, <1>6, Zenon DEF DeviceTo, NewDevice

\* A device that is not known yet starts as the lines before say: as nothing.
LEMMA KnownIs ==
    ASSUME NEW n \in Nat, NEW lines, DOMAIN lines = 1..n, NEW portState, NEW i \in 0..n, NEW g
    PROVE  Known(NetTo(portState, lines, i), g) = DeviceTo(portState, lines, i, g)
<1> DEFINE devices == [h \in GuidsTo(portState, lines, i) |-> DeviceTo(portState, lines, i, h)]
<1>1. NetTo(portState, lines, i).devices = devices
  BY DEF NetTo
<1>2. DOMAIN devices = GuidsTo(portState, lines, i)
  OBVIOUS
<1>3. CASE g \in GuidsTo(portState, lines, i)
  BY <1>1, <1>3 DEF Known
<1>4. CASE g \notin GuidsTo(portState, lines, i)
  <2>1. \A k \in KeptOf(portState, lines, g) : k \in 1..n /\ Kept(portState, lines[k]) /\ lines[k].guid = g
    BY DEF KeptOf
  <2>2. \A k \in KeptOf(portState, lines, g) : k \notin 1..i
    BY <1>4, <2>1 DEF GuidsTo
  <2>3. Upto(KeptOf(portState, lines, g), i) = {}
    BY <2>1, <2>2 DEF Upto
  <2>4. Known(NetTo(portState, lines, i), g) = NewDevice
    BY <1>1, <1>2, <1>4 DEF Known
  <2> QED
    BY <2>3, <2>4, DeviceUnknown
<1> QED
  BY <1>3, <1>4

\* The uplinks of a device, line by line.
LEMMA UplinksLine ==
    ASSUME NEW n \in Nat, NEW lines, DOMAIN lines = 1..n, NEW i \in 1..n, NEW g
    PROVE  LET before == [p \in PortsTo(lines, i - 1, g) |-> LinkTo(lines, i - 1, g, p)]
               after == [p \in PortsTo(lines, i, g) |-> LinkTo(lines, i, g, p)]
           IN after = IF i \in LinkedOf(lines, g) THEN Uplinks(before, lines[i]) ELSE before
<1> DEFINE G == LinkedOf(lines, g)
           l == lines[i]
           before == [p \in PortsTo(lines, i - 1, g) |-> LinkTo(lines, i - 1, g, p)]
<1>0. i \in Nat \ {0} /\ G \in SUBSET (1..n)
  BY LinesAbout, SMTT(30)
<1>1. \A p : LinksOf(lines, g, p) \in SUBSET (1..n)
  BY LinesAbout
<1>2. \A p : i \in LinksOf(lines, g, p) <=> i \in G /\ l.port = p
  BY DEF LinksOf
<1>3. \A p : LinkTo(lines, i, g, p) =
               IF i \in G /\ l.port = p THEN [peer |-> l.peer, rate |-> l.speed]
               ELSE LinkTo(lines, i - 1, g, p)
  <2>1. Peers(lines)[i] = l.peer /\ Speeds(lines)[i] = l.speed
    BY DEF Peers, Speeds
  <2>2. \A p, v, default : LastIn(LinksOf(lines, g, p), i, v, default) =
          IF i \in G /\ l.port = p THEN v[i] ELSE LastIn(LinksOf(lines, g, p), i - 1, v, default)
    <3> TAKE p, v, default
    <3> DEFINE T == LinksOf(lines, g, p)
    <3>1. T \in SUBSET (1..n)
      BY <1>1
    <3> HIDE DEF T
    <3>2. i \in T => LastIn(T, i, v, default) = v[i]
      BY ONLY n \in Nat, <1>0, <3>1, LastInHere
    <3>4. i \notin T => Upto(T, i) = Upto(T, i - 1)
      BY ONLY n \in Nat, <1>0, <3>1, UptoLine
    <3>3. i \notin T => LastIn(T, i, v, default) = LastIn(T, i - 1, v, default)
      BY ONLY <3>4, Zenon DEF LastIn
    <3> QED
      BY <1>2, <3>2, <3>3 DEF T
  <2> TAKE p
  <2>3. CASE i \in G /\ l.port = p
    BY <2>1, <2>2, <2>3 DEF LinkTo
  <2>4. CASE ~(i \in G /\ l.port = p)
    BY <2>2, <2>4 DEF LinkTo
  <2> QED
    BY <2>3, <2>4
<1>4. CASE i \in G
  <2>1. Upto(G, i) = Upto(G, i - 1) \cup {i}
    BY ONLY <1>0, <1>4, n \in Nat, UptoLine
  <2>2. PortsTo(lines, i, g) = PortsTo(lines, i - 1, g) \cup {l.port}
    BY <2>1 DEF PortsTo
  <2>3. DOMAIN before = PortsTo(lines, i - 1, g)
    OBVIOUS
  <2>4. Uplinks(before, l) = [p \in PortsTo(lines, i - 1, g) \cup {l.port} |->
          IF p = l.port THEN [peer |-> l.peer, rate |-> l.speed] ELSE LinkTo(lines, i - 1, g, p)]
    BY <2>3 DEF Uplinks
  <2>5. [p \in PortsTo(lines, i - 1, g) \cup {l.port} |->
          IF p = l.port THEN [peer |-> l.peer, rate |-> l.speed] ELSE LinkTo(lines, i - 1, g, p)]
        = [p \in PortsTo(lines, i, g) |-> LinkTo(lines, i, g, p)]
    BY <1>3, <1>4, <2>2
  <2> HIDE DEF G, l, before
  <2>6. [p \in PortsTo(lines, i, g) |-> LinkTo(lines, i, g, p)] = Uplinks(before, l)
    BY <2>4, <2>5, Zenon
  <2> QED
    BY <1>4, <2>6 DEF G, l, before
<1>5. CASE i \notin G
  <2>1. Upto(G, i) = Upto(G, i - 1)
    BY ONLY <1>0, <1>5, n \in Nat, UptoLine
  <2>2. PortsTo(lines, i, g) = PortsTo(lines, i - 1, g)
    BY <2>1, Zenon DEF PortsTo
  <2>3. \A p : LinkTo(lines, i, g, p) = LinkTo(lines, i - 1, g, p)
    BY <1>3, <1>5
  <2>4. [p \in PortsTo(lines, i, g) |-> LinkTo(lines, i, g, p)] = before
    BY <2>2, <2>3
  <2> QED
    BY <1>5, <2>4
<1> QED
  BY <1>4, <1>5

\* A device, line by line.
DeviceAfter(portState, lines, i, g, before) ==
    LET l == lines[i]
        kept == i \in KeptOf(portState, lines, g)
        linked == i \in LinkedOf(lines, g)
    IN [type |-> IF kept THEN l.type ELSE before.type,
        lid |-> IF kept THEN l.lid ELSE before.lid,
        name |-> IF i \in NamedOf(portState, lines, g) THEN l.name ELSE before.name,
        rate |-> IF i \in RatedOf(lines, g) THEN l.speed ELSE before.rate,
        uplinks |-> IF linked THEN Uplinks(before.uplinks, l) ELSE before.uplinks,
        switch |-> IF linked THEN l.peer ELSE before.switch,
        downPorts |-> IF i \in DownOf(portState, lines, g)
                      THEN Append(before.downPorts, l.port) ELSE before.downPorts]

\* What one line more makes of a device: DeviceAfter.
LEMMA DeviceLine ==
    ASSUME NEW n \in Nat, NEW lines, DOMAIN lines = 1..n, NEW i \in 1..n, NEW portState, NEW g
    PROVE  DeviceTo(portState, lines, i, g) =
             DeviceAfter(portState, lines, i, g, DeviceTo(portState, lines, i - 1, g))
<1> DEFINE l == lines[i]
           before == DeviceTo(portState, lines, i - 1, g)
           ups(k) == [p \in PortsTo(lines, k, g) |-> LinkTo(lines, k, g, p)]
           down == DownOf(portState, lines, g)
<1>0. i \in Nat \ {0}
  OBVIOUS
<1>1. /\ Types(lines)[i] = l.type /\ Lids(lines)[i] = l.lid /\ Names(lines)[i] = l.name
      /\ Speeds(lines)[i] = l.speed /\ Peers(lines)[i] = l.peer /\ Ports(lines)[i] = l.port
  BY DEF Types, Lids, Names, Speeds, Peers, Ports
<1>2. before = [type |-> LastIn(KeptOf(portState, lines, g), i - 1, Types(lines), ""),
                lid |-> LastIn(KeptOf(portState, lines, g), i - 1, Lids(lines), 0),
                name |-> LastIn(NamedOf(portState, lines, g), i - 1, Names(lines), NoName),
                rate |-> LastIn(RatedOf(lines, g), i - 1, Speeds(lines), ""),
                uplinks |-> ups(i - 1),
                switch |-> LastIn(LinkedOf(lines, g), i - 1, Peers(lines), NoPeer),
                downPorts |-> ListTo(down, i - 1, Ports(lines))]
  BY DEF DeviceTo
<1>3. DeviceTo(portState, lines, i, g) =
               [type |-> LastIn(KeptOf(portState, lines, g), i, Types(lines), ""),
                lid |-> LastIn(KeptOf(portState, lines, g), i, Lids(lines), 0),
                name |-> LastIn(NamedOf(portState, lines, g), i, Names(lines), NoName),
                rate |-> LastIn(RatedOf(lines, g), i, Speeds(lines), ""),
                uplinks |-> ups(i),
                switch |-> LastIn(LinkedOf(lines, g), i, Peers(lines), NoPeer),
                downPorts |-> ListTo(down, i, Ports(lines))]
  BY DEF DeviceTo
<1>4. ups(i) = IF i \in LinkedOf(lines, g) THEN Uplinks(ups(i - 1), l) ELSE ups(i - 1)
  BY UplinksLine
<1>5. ListTo(down, i, Ports(lines)) =
        IF i \in down THEN Append(ListTo(down, i - 1, Ports(lines)), l.port)
        ELSE ListTo(down, i - 1, Ports(lines))
  <2>1. down \in SUBSET (1..n)
    BY LinesAbout
  <2> HIDE DEF down
  <2>2. /\ i \in down => ListTo(down, i, Ports(lines)) =
                           Append(ListTo(down, i - 1, Ports(lines)), Ports(lines)[i])
        /\ i \notin down => ListTo(down, i, Ports(lines)) = ListTo(down, i - 1, Ports(lines))
    BY ONLY n \in Nat, <1>0, <2>1, ListToLine
  <2> QED
    BY <1>1, <2>2
<1> DEFINE kept == KeptOf(portState, lines, g)
           named == NamedOf(portState, lines, g)
           rated == RatedOf(lines, g)
           linked == LinkedOf(lines, g)
<1>7. /\ kept \in SUBSET (1..n) /\ named \in SUBSET (1..n)
      /\ rated \in SUBSET (1..n) /\ linked \in SUBSET (1..n)
  BY LinesAbout
<1> HIDE DEF l, before, ups, down, kept, named, rated, linked
<1>8. /\ before.type = LastIn(kept, i - 1, Types(lines), "")
      /\ before.lid = LastIn(kept, i - 1, Lids(lines), 0)
      /\ before.name = LastIn(named, i - 1, Names(lines), NoName)
      /\ before.rate = LastIn(rated, i - 1, Speeds(lines), "")
      /\ before.switch = LastIn(linked, i - 1, Peers(lines), NoPeer)
  BY <1>2 DEF kept, named, rated, linked
<1>11. LastIn(kept, i, Types(lines), "") = IF i \in kept THEN l.type ELSE before.type
  <2>1. kept \in SUBSET (1..n)
    BY <1>7
  <2>2. i \in kept => LastIn(kept, i, Types(lines), "") = Types(lines)[i]
    BY ONLY n \in Nat, <1>0, <2>1, LastInHere
  <2>4. i \notin kept => Upto(kept, i) = Upto(kept, i - 1)
    BY ONLY n \in Nat, <1>0, <2>1, UptoLine
  <2>3. i \notin kept => LastIn(kept, i, Types(lines), "") = LastIn(kept, i - 1, Types(lines), "")
    BY ONLY <2>4, Zenon DEF LastIn
  <2> QED
    BY ONLY <1>1, <1>8, <2>2, <2>3
<1>12. LastIn(kept, i, Lids(lines), 0) = IF i \in kept THEN l.lid ELSE before.lid
  <2>1. kept \in SUBSET (1..n)
    BY <1>7
  <2>2. i \in kept => LastIn(kept, i, Lids(lines), 0) = Lids(lines)[i]
    BY ONLY n \in Nat, <1>0, <2>1, LastInHere
  <2>4. i \notin kept => Upto(kept, i) = Upto(kept, i - 1)
    BY ONLY n \in Nat, <1>0, <2>1, UptoLine
  <2>3. i \notin kept => LastIn(kept, i, Lids(lines), 0) = LastIn(kept, i - 1, Lids(lines), 0)
    BY ONLY <2>4, Zenon DEF LastIn
  <2> QED
    BY ONLY <1>1, <1>8, <2>2, <2>3
<1>13. LastIn(named, i, Names(lines), NoName) = IF i \in named THEN l.name ELSE before.name
  <2>1. named \in SUBSET (1..n)
    BY <1>7
  <2>2. i \in named => LastIn(named, i, Names(lines), NoName) = Names(lines)[i]
    BY ONLY n \in Nat, <1>0, <2>1, LastInHere
  <2>4. i \notin named => Upto(named, i) = Upto(named, i - 1)
    BY ONLY n \in Nat, <1>0, <2>1, UptoLine
  <2>3. i \notin named => LastIn(named, i, Names(lines), NoName) = LastIn(named, i - 1, Names(lines), NoName)
    BY ONLY <2>4, Zenon DEF LastIn
  <2> QED
    BY ONLY <1>1, <1>8, <2>2, <2>3
<1>14. LastIn(rated, i, Speeds(lines), "") = IF i \in rated THEN l.speed ELSE before.rate
  <2>1. rated \in SUBSET (1..n)
    BY <1>7
  <2>2. i \in rated => LastIn(rated, i, Speeds(lines), "") = Speeds(lines)[i]
    BY ONLY n \in Nat, <1>0, <2>1, LastInHere
  <2>4. i \notin rated => Upto(rated, i) = Upto(rated, i - 1)
    BY ONLY n \in Nat, <1>0, <2>1, UptoLine
  <2>3. i \notin rated => LastIn(rated, i, Speeds(lines), "") = LastIn(rated, i - 1, Speeds(lines), "")
    BY ONLY <2>4, Zenon DEF LastIn
  <2> QED
    BY ONLY <1>1, <1>8, <2>2, <2>3
<1>15. LastIn(linked, i, Peers(lines), NoPeer) = IF i \in linked THEN l.peer ELSE before.switch
  <2>1. linked \in SUBSET (1..n)
    BY <1>7
  <2>2. i \in linked => LastIn(linked, i, Peers(lines), NoPeer) = Peers(lines)[i]
    BY ONLY n \in Nat, <1>0, <2>1, LastInHere
  <2>4. i \notin linked => Upto(linked, i) = Upto(linked, i - 1)
    BY ONLY n \in Nat, <1>0, <2>1, UptoLine
  <2>3. i \notin linked => LastIn(linked, i, Peers(lines), NoPeer) = LastIn(linked, i - 1, Peers(lines), NoPeer)
    BY ONLY <2>4, Zenon DEF LastIn
  <2> QED
    BY ONLY <1>1, <1>8, <2>2, <2>3
<1>9. before.uplinks = ups(i - 1) /\ before.downPorts = ListTo(down, i - 1, Ports(lines))
  BY <1>2
<1>10. DeviceTo(portState, lines, i, g) =
                [type |-> IF i \in kept THEN l.type ELSE before.type,
                 lid |-> IF i \in kept THEN l.lid ELSE before.lid,
                 name |-> IF i \in named THEN l.name ELSE before.name,
                 rate |-> IF i \in rated THEN l.speed ELSE before.rate,
                 uplinks |-> IF i \in linked THEN Uplinks(before.uplinks, l) ELSE before.uplinks,
                 switch |-> IF i \in linked THEN l.peer ELSE before.switch,
                 downPorts |-> IF i \in down THEN Append(before.downPorts, l.port) ELSE before.downPorts]
  BY <1>3, <1>4, <1>5, <1>9, <1>11, <1>12, <1>13, <1>14, <1>15, Zenon DEF kept, named, rated, linked
<1> QED
  BY <1>10, Zenon DEF l, before, down, kept, named, rated, linked, DeviceAfter

\* A line that is not kept, or is about another device, changes nothing.
LEMMA DeviceSame ==
    ASSUME NEW n \in Nat, NEW lines, DOMAIN lines = 1..n, NEW i \in 1..n, NEW portState, NEW g,
           i \notin KeptOf(portState, lines, g)
    PROVE  DeviceTo(portState, lines, i, g) = DeviceTo(portState, lines, i - 1, g)
<1> DEFINE before == DeviceTo(portState, lines, i - 1, g)
<1>1. /\ i \notin NamedOf(portState, lines, g) /\ i \notin DownOf(portState, lines, g)
      /\ i \notin RatedOf(lines, g) /\ i \notin LinkedOf(lines, g)
  BY LinesAbout
<1>2. before = [type |-> before.type, lid |-> before.lid, name |-> before.name, rate |-> before.rate,
                uplinks |-> before.uplinks, switch |-> before.switch, downPorts |-> before.downPorts]
  BY DEF DeviceTo
<1> HIDE DEF before
<1>3. DeviceTo(portState, lines, i, g) =
        [type |-> before.type, lid |-> before.lid, name |-> before.name, rate |-> before.rate,
         uplinks |-> before.uplinks, switch |-> before.switch, downPorts |-> before.downPorts]
  <2>1. DeviceTo(portState, lines, i, g) = DeviceAfter(portState, lines, i, g, before)
    BY DeviceLine DEF before
  <2> QED
    BY <1>1, <2>1 DEF DeviceAfter
<1>4. DeviceTo(portState, lines, i, g) = before
  BY <1>2, <1>3, Zenon
<1> QED
  BY <1>4 DEF before

\* One line takes what the lines before it say to what the lines up to it say,
\* unless it ends the parse.
LEMMA NetLineSays ==
    ASSUME NEW n \in Nat, NEW lines, IsText(lines, n), NEW i \in 1..n, NEW portState \in BOOLEAN,
           ~Aborts(lines[i])
    PROVE  NetLine(portState, NetTo(portState, lines, i - 1), lines[i]) = NetTo(portState, lines, i)
<1> DEFINE l == lines[i]
           g == l.guid
           st == NetTo(portState, lines, i - 1)
           old == DeviceTo(portState, lines, i - 1, g)
           new == DeviceTo(portState, lines, i, g)
<1>0. DOMAIN lines = 1..n /\ l.columns \in {"few", "five", "enough"} /\ i - 1 \in 0..n
  BY DEF IsText
<1>1. /\ i \in KeptOf(portState, lines, g) <=> Kept(portState, l)
      /\ i \in NamedOf(portState, lines, g) <=> Kept(portState, l) /\ l.quoted
      /\ i \in DownOf(portState, lines, g) <=> IsDown(portState, l)
      /\ i \in RatedOf(lines, g) <=> IsLink(l) /\ l.type = "CA"
      /\ i \in LinkedOf(lines, g) <=> IsLinked(l)
      /\ \A h : h # g => i \notin KeptOf(portState, lines, h)
      /\ ~Kept(portState, l) => \A h : i \notin KeptOf(portState, lines, h)
  BY <1>0 DEF KeptOf, NamedOf, DownOf, RatedOf, LinkedOf, Kept
<1>2. \A h : i \notin KeptOf(portState, lines, h) =>
        DeviceTo(portState, lines, i, h) = DeviceTo(portState, lines, i - 1, h)
  BY <1>0, DeviceSame
<1>3. st.outcome = "ok" /\ Known(st, g) = old
  <2>1. st.outcome = "ok"
    BY DEF NetTo
  <2>2. Known(st, g) = old
    BY <1>0, KnownIs
  <2> QED
    BY <2>1, <2>2
<1>4. new = [type |-> IF Kept(portState, l) THEN l.type ELSE old.type,
             lid |-> IF Kept(portState, l) THEN l.lid ELSE old.lid,
             name |-> IF Kept(portState, l) /\ l.quoted THEN l.name ELSE old.name,
             rate |-> IF IsLink(l) /\ l.type = "CA" THEN l.speed ELSE old.rate,
             uplinks |-> IF IsLinked(l) THEN Uplinks(old.uplinks, l) ELSE old.uplinks,
             switch |-> IF IsLinked(l) THEN l.peer ELSE old.switch,
             downPorts |-> IF IsDown(portState, l) THEN Append(old.downPorts, l.port)
                           ELSE old.downPorts]
  <2> DEFINE kept == i \in KeptOf(portState, lines, g)
             named == i \in NamedOf(portState, lines, g)
             rated == i \in RatedOf(lines, g)
             linked == i \in LinkedOf(lines, g)
             down == i \in DownOf(portState, lines, g)
  <2>1. new = [type |-> IF kept THEN l.type ELSE old.type,
               lid |-> IF kept THEN l.lid ELSE old.lid,
               name |-> IF named THEN l.name ELSE old.name,
               rate |-> IF rated THEN l.speed ELSE old.rate,
               uplinks |-> IF linked THEN Uplinks(old.uplinks, l) ELSE old.uplinks,
               switch |-> IF linked THEN l.peer ELSE old.switch,
               downPorts |-> IF down THEN Append(old.downPorts, l.port) ELSE old.downPorts]
    <3>1. new = DeviceAfter(portState, lines, i, g, old)
      BY <1>0, DeviceLine
    <3> HIDE DEF new, old
    <3> QED
      BY <3>1, Zenon DEF DeviceAfter
  <2>2. /\ kept = Kept(portState, l) /\ named = (Kept(portState, l) /\ l.quoted)
        /\ rated = (IsLink(l) /\ l.type = "CA") /\ linked = IsLinked(l)
        /\ down = IsDown(portState, l)
    BY <1>1 DEF Kept, IsDown, IsLink, IsLinked
  <2> HIDE DEF new, old, kept, named, rated, linked, down
  <2> QED
    BY <2>1, <2>2, Zenon
<1>5. CASE ~Kept(portState, l)
  <2>1. NetLine(portState, st, l) = st
    BY <1>0, <1>3, <1>5 DEF NetLine, Aborts, Kept, IsDown, IsLink
  <2>2. GuidsTo(portState, lines, i) = GuidsTo(portState, lines, i - 1)
    <3>1. 1..i = 1..(i - 1) \cup {i}
      OBVIOUS
    <3> QED
      BY <1>5, <3>1, Zenon DEF GuidsTo
  <2>3. [h \in GuidsTo(portState, lines, i) |-> DeviceTo(portState, lines, i, h)] =
        [h \in GuidsTo(portState, lines, i - 1) |-> DeviceTo(portState, lines, i - 1, h)]
    BY <1>1, <1>2, <1>5, <2>2
  <2>4. NetTo(portState, lines, i) = st
    BY <2>3, Zenon DEF NetTo
  <2> QED
    BY <2>1, <2>4
<1>6. CASE Kept(portState, l)
  <2>1. NetLine(portState, st, l) = PutDevice(st, l, new)
    <3>1. CASE IsDown(portState, l)
      <4>1. NetLine(portState, st, l) = DownLine(st, l)
        BY <1>0, <1>3, <3>1 DEF NetLine, IsDown
      <4>2. ~IsLink(l) /\ ~IsLinked(l)
        BY <3>1 DEF IsDown, IsLink, IsLinked
      <4>3. new = [type |-> l.type, lid |-> l.lid,
                   name |-> IF l.quoted THEN l.name ELSE old.name,
                   rate |-> old.rate, uplinks |-> old.uplinks, switch |-> old.switch,
                   downPorts |-> Append(old.downPorts, l.port)]
        BY <1>4, <1>6, <3>1, <4>2
      <4> HIDE DEF st, old, new
      <4>4. DownLine(st, l) = PutDevice(st, l, new)
        BY <1>3, <4>3, Zenon DEF DownLine
      <4> QED
        BY <4>1, <4>4, Zenon
    <3>2. CASE ~IsDown(portState, l)
      <4>1. IsLink(l) /\ Parseable(l) /\ l.quoted
        BY <1>6, <3>2 DEF Aborts, Kept, Parseable
      <4>2. NetLine(portState, st, l) = Link(st, l)
        BY <1>0, <1>3, <4>1 DEF NetLine, IsLink
      <4>3. new = [type |-> l.type, lid |-> l.lid, name |-> l.name,
                   rate |-> IF l.type = "CA" THEN l.speed ELSE old.rate,
                   uplinks |-> IF l.peer = NoPeer THEN old.uplinks ELSE Uplinks(old.uplinks, l),
                   switch |-> IF l.peer = NoPeer THEN old.switch ELSE l.peer,
                   downPorts |-> old.downPorts]
        BY <1>4, <1>6, <3>2, <4>1 DEF IsLinked
      <4> HIDE DEF st, old, new
      <4>4. Link(st, l) = PutDevice(st, l, new)
        BY <1>3, <4>3, Zenon DEF Link, Linked
      <4> QED
        BY <4>2, <4>4, Zenon
    <3> QED
      BY <3>1, <3>2
  <2>2. GuidsTo(portState, lines, i) = GuidsTo(portState, lines, i - 1) \cup {g}
    BY <1>6 DEF GuidsTo
  <2> DEFINE before == [h \in GuidsTo(portState, lines, i - 1) |-> DeviceTo(portState, lines, i - 1, h)]
             after == [h \in GuidsTo(portState, lines, i) |-> DeviceTo(portState, lines, i, h)]
  <2>3. st.outcome = "ok" /\ st.devices = before /\ DOMAIN before = GuidsTo(portState, lines, i - 1)
    BY DEF NetTo
  <2>4. \A h : h # g => DeviceTo(portState, lines, i, h) = DeviceTo(portState, lines, i - 1, h)
    BY <1>1, <1>2
  <2>5. [h \in GuidsTo(portState, lines, i - 1) \cup {g} |-> IF h = g THEN new ELSE before[h]] = after
    <3>1. \A h \in GuidsTo(portState, lines, i) : h # g => h \in GuidsTo(portState, lines, i - 1)
      BY <2>2
    <3>2. \A h \in GuidsTo(portState, lines, i) : (IF h = g THEN new ELSE before[h]) = DeviceTo(portState, lines, i, h)
      BY <2>4, <3>1
    <3> HIDE DEF before, new
    <3> QED
      BY <2>2, <3>2
  <2>6. PutDevice(st, l, new) = [outcome |-> "ok", devices |-> after]
    <3> HIDE DEF before, after, new, st
    <3> QED
      BY <2>3, <2>5, Zenon DEF PutDevice
  <2>7. NetTo(portState, lines, i) = [outcome |-> "ok", devices |-> after]
    BY DEF NetTo
  <2> HIDE DEF after, st, new
  <2>8. NetLine(portState, st, l) = NetTo(portState, lines, i)
    BY <2>1, <2>6, <2>7, Zenon
  <2> QED
    BY <2>8 DEF st
<1> QED
  BY <1>5, <1>6

\* Before the first line there is no device.
LEMMA NetNothing == ASSUME NEW lines, NEW portState PROVE NetTo(portState, lines, 0) = NetStart
<1>1. GuidsTo(portState, lines, 0) = {}
  <2>1. 1..0 = {}
    OBVIOUS
  <2> QED
    BY <2>1 DEF GuidsTo
<1>2. [g \in GuidsTo(portState, lines, 0) |-> DeviceTo(portState, lines, 0, g)] = <<>>
  BY <1>1
<1> QED
  BY <1>2, Zenon DEF NetTo, NetStart

\* A line that ends the parse ends it with an outcome of its own.
LEMMA NetLineAborts ==
    ASSUME NEW portState \in BOOLEAN, NEW lines, NEW i, NEW l, Aborts(l),
           l.columns \in {"few", "five", "enough"}
    PROVE  NetLine(portState, NetTo(portState, lines, i), l).outcome # "ok"
<1> DEFINE st == NetTo(portState, lines, i)
<1>1. st.outcome = "ok" /\ DOMAIN st = {"outcome", "devices"}
  BY DEF NetTo
<1>2. \A x : [st EXCEPT !.outcome = x].outcome = x
  <2> HIDE DEF st
  <2> QED
    BY <1>1
<1>3. CASE l.columns = "five"
  <2>1. NetLine(portState, st, l) = [st EXCEPT !.outcome = "panic"]
    <3> HIDE DEF st
    <3> QED
      BY <1>1, <1>3 DEF NetLine
  <2> HIDE DEF st
  <2>2. [st EXCEPT !.outcome = "panic"].outcome = "panic"
    BY <1>2
  <2> QED
    BY <2>1, <2>2 DEF st
<1>4. CASE l.columns # "five"
  <2> HIDE DEF st
  <2>1. NetLine(portState, st, l) = Abort(st)
    BY <1>1, <1>4 DEF NetLine, Aborts, IsLink
  <2>2. Abort(st).outcome = "error"
    BY <1>2 DEF Abort
  <2> QED
    BY <2>1, <2>2 DEF st
<1> QED
  BY <1>3, <1>4

\* A parse that ends well has read every line, and says what they say.
LEMMA NetRun ==
    ASSUME NEW n \in Nat, NEW lines, IsText(lines, n), NEW portState \in BOOLEAN, NEW run,
           run[0] = NetStart,
           \A i \in 1..n : run[i] = NetLine(portState, run[i - 1], lines[i]),
           run[n].outcome = "ok"
    PROVE  run[n] = NetTo(portState, lines, n) /\ \A i \in 1..n : ~Aborts(lines[i])
<1> DEFINE Good(i) == i <= n /\ run[i].outcome = "ok" =>
                        run[i] = NetTo(portState, lines, i) /\ \A j \in 1..i : ~Aborts(lines[j])
           N == {i \in Nat : Good(i)}
<1>1. 0 \in N
  BY NetNothing
<1>2. ASSUME NEW k \in Nat, k \in N PROVE k + 1 \in N
  <2> SUFFICES ASSUME k + 1 <= n, run[k + 1].outcome = "ok"
               PROVE  /\ run[k + 1] = NetTo(portState, lines, k + 1)
                      /\ \A j \in 1..(k + 1) : ~Aborts(lines[j])
    OBVIOUS
  <2> DEFINE i == k + 1
             l == lines[i]
  <2>1. i \in 1..n /\ i - 1 = k /\ l.columns \in {"few", "five", "enough"}
    BY DEF IsText
  <2>2. run[i] = NetLine(portState, run[k], l)
    BY <2>1
  <2>3. run[k].outcome = "ok"
    BY <2>2 DEF NetLine
  <2>4. run[k] = NetTo(portState, lines, k) /\ \A j \in 1..k : ~Aborts(lines[j])
    BY <1>2, <2>1, <2>3
  <2>5. ~Aborts(l)
    BY <2>1, <2>2, <2>4, NetLineAborts
  <2>6. NetLine(portState, NetTo(portState, lines, k), l) = NetTo(portState, lines, i)
    BY <2>1, <2>5, NetLineSays
  <2>7. \A j \in 1..(k + 1) : j \in 1..k \/ j = i
    OBVIOUS
  <2> QED
    BY <2>2, <2>4, <2>5, <2>6, <2>7
<1>3. n \in N
  <2> HIDE DEF N
  <2> QED
    BY <1>1, <1>2, NatSetInduction
<1> QED
  BY <1>3

\* A parse that succeeds has read every line, and none of them aborts it.
LEMMA NetReads ==
    ASSUME NEW n \in Nat, NEW lines, IsText(lines, n), NEW portState \in BOOLEAN,
           NetParsed(portState, lines).outcome = "ok"
    PROVE  /\ EndOf(portState, lines) = NetTo(portState, lines, n)
           /\ \A i \in 1..n : ~Aborts(lines[i])
<1>1. EndOf(portState, lines).outcome = "ok"
  BY Zenon DEF NetParsed, EndOf
<1>2. DOMAIN lines = 1..n
  BY DEF IsText
<1>3. \E run : /\ run[0] = NetStart
               /\ \A i \in 1..n : run[i] = NetLine(portState, run[i - 1], lines[i])
               /\ run[n] = EndOf(portState, lines)
  <2>1. CASE portState = TRUE
    <3>1. PICK run : Up!IsRun(run, lines, n) /\ Up!Read(lines) = run[n]
      BY <1>2, Up!ReadIsRun
    <3> QED
      BY <2>1, <3>1, NetIsFold DEF Up!IsRun, NetUp
  <2>2. CASE portState = FALSE
    <3>1. PICK run : Quiet!IsRun(run, lines, n) /\ Quiet!Read(lines) = run[n]
      BY <1>2, Quiet!ReadIsRun
    <3> QED
      BY <2>2, <3>1, NetIsFold DEF Quiet!IsRun, NetQuiet
  <2> QED
    BY <2>1, <2>2
<1> QED
  BY <1>1, <1>3, NetRun

\* No topology is published with a link missing, whatever ibnetdiscover prints
\* and whether port states are wanted or not: one line of a link that cannot be
\* parsed voids it (ibnetdiscoverParse).
THEOREM NoLinkMissing ==
    \A n \in Nat : \A lines : IsText(lines, n) =>
        \A portState \in BOOLEAN : NothingMissing(portState, lines)
<1> SUFFICES ASSUME NEW n \in Nat, NEW lines, IsText(lines, n), NEW portState \in BOOLEAN,
                    NetParsed(portState, lines).outcome = "ok"
             PROVE  \A i \in DOMAIN lines : IsLink(lines[i]) => Parseable(lines[i])
  BY DEF NothingMissing
<1>1. \A i \in 1..n : ~Aborts(lines[i])
  BY NetReads
<1> QED
  BY <1>1 DEF Aborts, IsText

\* The list of a set of lines has each of them where it comes among them.
LEMMA ListAll ==
    ASSUME NEW n \in Nat, NEW G \in SUBSET (1..n), NEW v
    PROVE  /\ DOMAIN ListTo(G, n, v) = 1..Cardinality(G)
           /\ \A i \in G : ListTo(G, n, v)[Cardinality(Upto(G, i))] = v[i]
<1>1. Upto(G, n) = G
  BY UptoNone
<1> DEFINE f(k) == v[CHOOSE j \in G : Cardinality(Upto(G, j)) = k]
<1>2. ListTo(G, n, v) = [k \in 1..Cardinality(G) |-> f(k)]
  BY <1>1, Zenon DEF ListTo
<1>3. ASSUME NEW i \in G PROVE Cardinality(Upto(G, i)) \in 1..Cardinality(G)
  <2>1. IsFiniteSet(1..n)
    BY FS_Interval
  <2>2. IsFiniteSet(G)
    BY <2>1, FS_Subset
  <2>3. Upto(G, i) \subseteq G
    BY DEF Upto
  <2>4. i \in Upto(G, i)
    BY DEF Upto
  <2>5. IsFiniteSet(Upto(G, i)) /\ Cardinality(Upto(G, i)) <= Cardinality(G)
    BY <2>2, <2>3, FS_Subset
  <2>6. Cardinality(Upto(G, i)) \in Nat /\ Cardinality(G) \in Nat
    BY <2>2, <2>5, FS_CardinalityType
  <2>7. Cardinality(Upto(G, i)) # 0
    BY <2>4, <2>5, FS_EmptySet
  <2> QED
    BY <2>5, <2>6, <2>7
<1>4. ASSUME NEW i \in G PROVE f(Cardinality(Upto(G, i))) = v[i]
  <2>1. (CHOOSE j \in G : Cardinality(Upto(G, j)) = Cardinality(Upto(G, i))) = i
    BY ListedAt
  <2> QED
    BY <2>1, Zenon
<1> HIDE DEF f
<1> QED
  BY <1>2, <1>3, <1>4

\* What the whole text says of a device is exact.
LEMMA DeviceSaysExact ==
    ASSUME NEW n \in Nat, NEW lines, DOMAIN lines = 1..n, NEW portState, NEW g,
           KeptOf(portState, lines, g) # {}
    PROVE  DeviceExact(portState, lines, g, DeviceTo(portState, lines, n, g))
<1> DEFINE kept == KeptOf(portState, lines, g)
           named == NamedOf(portState, lines, g)
           rated == RatedOf(lines, g)
           linked == LinkedOf(lines, g)
           down == DownOf(portState, lines, g)
           device == DeviceTo(portState, lines, n, g)
           ups == [p \in PortsTo(lines, n, g) |-> LinkTo(lines, n, g, p)]
<1>1. /\ device.type = LastIn(kept, n, Types(lines), "")
      /\ device.lid = LastIn(kept, n, Lids(lines), 0)
      /\ device.name = LastIn(named, n, Names(lines), NoName)
      /\ device.rate = LastIn(rated, n, Speeds(lines), "")
      /\ device.switch = LastIn(linked, n, Peers(lines), NoPeer)
  BY DEF DeviceTo
<1>2. device.uplinks = ups /\ device.downPorts = ListTo(down, n, Ports(lines))
  <2> HIDE DEF ups
  <2>1. device = [type |-> device.type, lid |-> device.lid, name |-> device.name,
                  rate |-> device.rate, uplinks |-> ups, switch |-> device.switch,
                  downPorts |-> ListTo(down, n, Ports(lines))]
    BY DEF DeviceTo, ups
  <2> HIDE DEF device, down
  <2> QED
    BY <2>1
<1>3. /\ kept \in SUBSET (1..n) /\ named \in SUBSET (1..n) /\ rated \in SUBSET (1..n)
      /\ linked \in SUBSET (1..n) /\ down \in SUBSET (1..n)
  BY LinesAbout
<1>4. \A G \in SUBSET (1..n) : G # {} => Max(G) \in 1..n
  BY MaxIn
<1>5. \A j \in 1..n :
        /\ Types(lines)[j] = lines[j].type /\ Lids(lines)[j] = lines[j].lid
        /\ Names(lines)[j] = lines[j].name /\ Speeds(lines)[j] = lines[j].speed
        /\ Peers(lines)[j] = lines[j].peer /\ Ports(lines)[j] = lines[j].port
  BY DEF Types, Lids, Names, Speeds, Peers, Ports
<1>6. \A G \in SUBSET (1..n) : G # {} =>
        /\ LastIn(G, n, Types(lines), "") = lines[Max(G)].type
        /\ LastIn(G, n, Lids(lines), 0) = lines[Max(G)].lid
        /\ LastIn(G, n, Names(lines), NoName) = lines[Max(G)].name
        /\ LastIn(G, n, Speeds(lines), "") = lines[Max(G)].speed
        /\ LastIn(G, n, Peers(lines), NoPeer) = lines[Max(G)].peer
  <2> SUFFICES ASSUME NEW G \in SUBSET (1..n), G # {}
               PROVE  /\ LastIn(G, n, Types(lines), "") = lines[Max(G)].type
                      /\ LastIn(G, n, Lids(lines), 0) = lines[Max(G)].lid
                      /\ LastIn(G, n, Names(lines), NoName) = lines[Max(G)].name
                      /\ LastIn(G, n, Speeds(lines), "") = lines[Max(G)].speed
                      /\ LastIn(G, n, Peers(lines), NoPeer) = lines[Max(G)].peer
    OBVIOUS
  <2>1. Max(G) \in 1..n
    BY <1>4
  <2>2. /\ LastIn(G, n, Types(lines), "") = Types(lines)[Max(G)]
        /\ LastIn(G, n, Lids(lines), 0) = Lids(lines)[Max(G)]
        /\ LastIn(G, n, Names(lines), NoName) = Names(lines)[Max(G)]
        /\ LastIn(G, n, Speeds(lines), "") = Speeds(lines)[Max(G)]
        /\ LastIn(G, n, Peers(lines), NoPeer) = Peers(lines)[Max(G)]
    <3>1. Upto(G, n) = G
      BY UptoNone
    <3> QED
      BY <3>1, Zenon DEF LastIn
  <2> QED
    BY <1>5, <2>1, <2>2, Zenon
<1>7. /\ LastIn(named, n, Names(lines), NoName) = IF named = {} THEN NoName ELSE lines[Max(named)].name
      /\ LastIn(rated, n, Speeds(lines), "") = IF rated = {} THEN "" ELSE lines[Max(rated)].speed
      /\ LastIn(linked, n, Peers(lines), NoPeer) = IF linked = {} THEN NoPeer ELSE lines[Max(linked)].peer
  <2>1. /\ named = {} => LastIn(named, n, Names(lines), NoName) = NoName
        /\ rated = {} => LastIn(rated, n, Speeds(lines), "") = ""
        /\ linked = {} => LastIn(linked, n, Peers(lines), NoPeer) = NoPeer
    <3> HIDE DEF named, rated, linked
    <3>1. Upto(named, n) = named /\ Upto(rated, n) = rated /\ Upto(linked, n) = linked
      BY <1>3, UptoNone
    <3> QED
      BY <3>1, Zenon DEF LastIn
  <2> HIDE DEF named, rated, linked
  <2> QED
    BY <1>3, <1>6, <2>1
<1>8. ups = [p \in {lines[i].port : i \in linked} |->
               [peer |-> lines[Max(LinksOf(lines, g, p))].peer,
                rate |-> lines[Max(LinksOf(lines, g, p))].speed]]
  <2>1. Upto(linked, n) = linked
    BY <1>3, UptoNone
  <2>2. PortsTo(lines, n, g) = {lines[i].port : i \in linked}
    BY <2>1, Zenon DEF PortsTo
  <2>3. ASSUME NEW i \in linked, NEW p, p = lines[i].port
        PROVE  LinkTo(lines, n, g, p) = [peer |-> lines[Max(LinksOf(lines, g, p))].peer,
                                         rate |-> lines[Max(LinksOf(lines, g, p))].speed]
    <3>1. LinksOf(lines, g, p) # {} /\ LinksOf(lines, g, p) \in SUBSET (1..n)
      BY <1>3, <2>3 DEF LinksOf
    <3>2. /\ LastIn(LinksOf(lines, g, p), n, Speeds(lines), "") = lines[Max(LinksOf(lines, g, p))].speed
          /\ LastIn(LinksOf(lines, g, p), n, Peers(lines), NoPeer) = lines[Max(LinksOf(lines, g, p))].peer
      BY <1>6, <3>1
    <3> QED
      BY <3>2, Zenon DEF LinkTo
  <2>4. \A p \in PortsTo(lines, n, g) :
          LinkTo(lines, n, g, p) = [peer |-> lines[Max(LinksOf(lines, g, p))].peer,
                                    rate |-> lines[Max(LinksOf(lines, g, p))].speed]
    <3> HIDE DEF linked
    <3> QED
      BY <2>2, <2>3
  <2> QED
    BY <2>2, <2>4
<1>9. /\ DOMAIN ListTo(down, n, Ports(lines)) = 1..Cardinality(down)
      /\ \A i \in down : ListTo(down, n, Ports(lines))[Cardinality({j \in down : j <= i})] = lines[i].port
  <2> HIDE DEF down
  <2>1. /\ DOMAIN ListTo(down, n, Ports(lines)) = 1..Cardinality(down)
        /\ \A i \in down : ListTo(down, n, Ports(lines))[Cardinality(Upto(down, i))] = Ports(lines)[i]
    BY <1>3, ListAll, ZenonT(60)
  <2>2. \A i \in down : Ports(lines)[i] = lines[i].port
    BY <1>3, <1>5
  <2> QED
    BY <2>1, <2>2, Zenon DEF Upto
<1>10. device.type = lines[Max(kept)].type /\ device.lid = lines[Max(kept)].lid
  BY <1>1, <1>3, <1>6
<1> HIDE DEF device, ups
<1> QED
  BY <1>1, <1>2, <1>7, <1>8, <1>9, <1>10, Zenon DEF DeviceExact, device

\* Sorting the GUIDs of one type lists each of them once, in order.
LEMMA OfTypeSorts ==
    ASSUME NEW devices, NEW type, IsFiniteSet(DOMAIN devices), DOMAIN devices \subseteq Int
    PROVE  LET list == OfType(devices, type)
           IN /\ ToSet(list) = {g \in DOMAIN devices : devices[g].type = type}
              /\ \A i, j \in DOMAIN list : i < j => list[i] < list[j]
<1> DEFINE S == {g \in DOMAIN devices : devices[g].type = type}
           list == OfType(devices, type)
<1>1. S \subseteq DOMAIN devices
  OBVIOUS
<1>2. IsFiniteSet(S) /\ S \subseteq Int
  BY <1>1, FS_Subset
<1>3. list = CHOOSE l \in [1..Cardinality(S) -> S] : Increasing(l)
  BY Zenon DEF OfType, Increasing
<1> HIDE DEF S, list
<1>4. \E l \in [1..Cardinality(S) -> S] : Increasing(l)
  BY ONLY <1>2, IncreasingList
<1>5. list \in [1..Cardinality(S) -> S] /\ Increasing(list)
  BY <1>3, <1>4
<1>6. ToSet(list) = S
  BY ONLY <1>2, <1>5, IncreasingListsAll
<1> QED
  BY <1>5, <1>6 DEF S, list, Increasing

\* The GUIDs of the lines are numbers, which is how the model orders them.
GuidsOrdered(lines) == \A i \in DOMAIN lines : lines[i].guid \in Int

\* Whatever ibnetdiscover prints, of any length, a topology that is published is
\* exact: each device has the latest type, LID and name of its lines, exactly
\* the uplinks its lines show, each with its last peer and rate, its down ports
\* in their order, and its place in the sorted list of its type
\* (ibnetdiscoverParse).
THEOREM EveryTopologyIsExact ==
    \A n \in Nat : \A lines : IsText(lines, n) /\ GuidsOrdered(lines) =>
        \A portState \in BOOLEAN : TopologyExact(portState, lines)
<1> SUFFICES ASSUME NEW n \in Nat, NEW lines, IsText(lines, n), GuidsOrdered(lines),
                    NEW portState \in BOOLEAN, NetParsed(portState, lines).outcome = "ok"
             PROVE  TopologyExact(portState, lines)
  BY DEF TopologyExact
<1> DEFINE parsed == NetParsed(portState, lines)
           guids == {lines[i].guid : i \in {j \in DOMAIN lines : Kept(portState, lines[j])}}
           devices == [g \in guids |-> DeviceTo(portState, lines, n, g)]
<1>1. DOMAIN lines = 1..n
  BY DEF IsText
<1>2. guids = GuidsTo(portState, lines, n)
  BY <1>1, Zenon DEF GuidsTo
<1>3. EndOf(portState, lines) = [outcome |-> "ok", devices |-> devices]
  <2>1. EndOf(portState, lines) = NetTo(portState, lines, n)
    BY NetReads
  <2> QED
    BY <1>2, <2>1, Zenon DEF NetTo
<1>4. /\ parsed.devices = devices
      /\ parsed.switches = OfType(devices, "SW") /\ parsed.hcas = OfType(devices, "CA")
  <2> DEFINE end == EndOf(portState, lines)
  <2>1. end.outcome = "ok" /\ end.devices = devices
    <3> HIDE DEF devices
    <3> QED
      BY <1>3
  <2>2. parsed = [outcome |-> end.outcome,
                  devices |-> IF end.outcome = "ok" THEN end.devices ELSE <<>>,
                  switches |-> IF end.outcome = "ok" THEN OfType(end.devices, "SW") ELSE <<>>,
                  hcas |-> IF end.outcome = "ok" THEN OfType(end.devices, "CA") ELSE <<>>]
    BY Zenon DEF NetParsed, EndOf
  <2> HIDE DEF parsed, end, devices
  <2> QED
    BY <2>1, <2>2
<1>5. DOMAIN devices = guids /\ IsFiniteSet(guids) /\ guids \subseteq Int
  <2>1. {j \in DOMAIN lines : Kept(portState, lines[j])} \subseteq 1..n
    BY <1>1
  <2>2. IsFiniteSet({j \in DOMAIN lines : Kept(portState, lines[j])})
    <3>1. IsFiniteSet(1..n)
      BY FS_Interval
    <3> QED
      BY <2>1, <3>1, FS_Subset
  <2> DEFINE J == {j \in DOMAIN lines : Kept(portState, lines[j])}
             f == [j \in J |-> lines[j].guid]
  <2>3. f \in Surjection(J, guids)
    BY DEF Surjection
  <2>4. IsFiniteSet(guids)
    <3> HIDE DEF J, f, guids
    <3> QED
      BY <2>2, <2>3, FS_Surjection DEF J
  <2> QED
    BY <2>4 DEF GuidsOrdered
<1>6. ASSUME NEW g \in guids PROVE DeviceExact(portState, lines, g, devices[g])
  <2>1. KeptOf(portState, lines, g) # {}
    BY DEF KeptOf
  <2>2. devices[g] = DeviceTo(portState, lines, n, g)
    OBVIOUS
  <2> HIDE DEF devices
  <2> QED
    BY <1>1, <2>1, <2>2, DeviceSaysExact
<1> DEFINE lists == [SW |-> parsed.switches, CA |-> parsed.hcas]
<1> HIDE DEF devices, guids, parsed
<1>7. ASSUME NEW type \in {"SW", "CA"}
      PROVE  /\ ToSet(lists[type]) = {g \in guids : devices[g].type = type}
             /\ \A i, j \in DOMAIN lists[type] : i < j => lists[type][i] < lists[type][j]
  <2>1. lists[type] = OfType(devices, type)
    BY <1>4
  <2> DEFINE list == OfType(devices, type)
  <2>2. /\ ToSet(list) = {g \in guids : devices[g].type = type}
        /\ \A i, j \in DOMAIN list : i < j => list[i] < list[j]
    BY <1>5, OfTypeSorts, ZenonT(60)
  <2> HIDE DEF list, lists
  <2> QED
    BY <2>1, <2>2, Zenon DEF list
<1> QED
  BY <1>4, <1>5, <1>6, <1>7, Zenon DEF TopologyExact, parsed, guids, lists

\* The texts of the runs are texts the theorems speak about.
LEMMA TextsAreNetTexts ==
    Texts => /\ Len(netLines) \in Nat /\ DOMAIN netLines = 1..Len(netLines)
             /\ IsText(netLines, Len(netLines)) /\ GuidsOrdered(netLines)
<1>1. \A l \in NetLines : l.columns \in {"few", "five", "enough"} /\ l.guid \in Int
  <2>1. \A guid, port, speed, quoted, peer :
          LET l == NetLineOf(guid, port, speed, quoted, peer)
          IN  l.columns = "enough" /\ l.guid = guid
    BY DEF NetLineOf
  <2>2. \A l \in Healthy \cup Down \cup Split \cup Broken :
          \E guid \in {1, 2} : \E port, speed, quoted, peer : l = NetLineOf(guid, port, speed, quoted, peer)
    BY DEF Healthy, Down, Split, Broken
  <2>3. \A l \in Healthy \cup Down \cup Split \cup Broken : l.columns = "enough" /\ l.guid \in Int
    BY <2>1, <2>2
  <2>4. \A l \in Moved : l.columns = "enough" /\ l.guid = 1
    BY DEF Moved, NetLineOf
  <2>5. \A l \in Short : l.columns \in {"few", "five"} /\ l.guid = 1
    BY DEF Short, NetLineOf
  <2> QED
    BY <2>3, <2>4, <2>5 DEF NetLines
<1>2. Texts => /\ Len(netLines) \in Nat /\ DOMAIN netLines = 1..Len(netLines)
               /\ \A i \in DOMAIN netLines : netLines[i] \in NetLines
  BY SeqDomain DEF Texts
<1> QED
  BY <1>1, <1>2 DEF IsText, GuidsOrdered

\* NetExact: the topology ibnetdiscoverParse publishes of a text is the one the text shows.
THEOREM Exact == Spec => []NetExact
<1>1. Texts => NetExact
  BY TextsAreNetTexts, EveryTopologyIsExact DEF NetExact
<1> QED
  BY <1>1, TextsHold, PTL

\* NetComplete: ibnetdiscoverParse publishes no topology of which it could not read a link.
THEOREM Complete == Spec => []NetComplete
<1>1. Texts => NetComplete
  <2>1. Texts => /\ Len(netLines) \in Nat /\ DOMAIN netLines = 1..Len(netLines)
                 /\ IsText(netLines, Len(netLines))
    BY TextsAreNetTexts
  <2> QED
    BY <2>1, NoLinkMissing DEF NetComplete
<1> QED
  BY <1>1, TextsHold, PTL

-----------------------------------------------------------------------------
(* parse_ibswinfo and parseIbswinfoVitals.                                 *)

Full == INSTANCE LineFold WITH Start <- SwinfoStart, Step <- FullLine
Vitals == INSTANCE LineFold WITH Start <- NoData, Step <- VitalsLine

LEMMA FullIsFold == \A lines : Full!Read(lines).data = ParseFull(lines)
BY DEF Full!Read, ParseFull, Full!FoldLeft, Full!MapThenFoldSet, FoldLeft, MapThenFoldSet,
       Max, Full!Max
LEMMA VitalsIsFold == \A lines : Vitals!Read(lines) = ParseVitals(lines)
BY DEF Vitals!Read, ParseVitals, Vitals!FoldLeft, Vitals!MapThenFoldSet, FoldLeft, MapThenFoldSet,
       Max, Vitals!Max

\* A switch whose power supplies have a number each, of one digit: parse_ibswinfo
\* (PSU([0-9]) status) takes the lines of any other for those of the one before it.
PsuSet(Ids, Values) ==
    [id : Ids, status : Values, dc : Values, fan : Values, power : Values]
FanSet(Ids, Values) == [id : Ids, rpm : Values]
SwitchOf(s, Ids, Values) ==
    /\ s \in [identity : Values, uptime : Values, temp : Values, fanStatus : Values,
              psus : Seq(PsuSet(Ids, Values)), fans : Seq(FanSet(Ids, Values))]
    /\ NoPsu \notin Ids /\ Numbered(s)
    /\ \A i, j \in 1..Len(s.psus) : s.psus[i].id = s.psus[j].id => i = j

\* The lines of its outputs.
LinesOf(Ids, Values) ==
    [key : {"identity", "divider", "uptime", "PSU status", "DC power", "fan status", "power (W)",
            "temperature (C)", "fan rpm"},
     id : Ids \cup {NoPsu}, value : Values \cup {Blank}]

LEMMA SwitchFacts ==
    ASSUME NEW s, NEW Ids, NEW Values, SwitchOf(s, Ids, Values)
    PROVE  /\ Len(s.psus) \in Nat /\ DOMAIN s.psus = 1..Len(s.psus)
           /\ Len(s.fans) \in Nat /\ DOMAIN s.fans = 1..Len(s.fans)
           /\ s.psus \in Seq(PsuSet(Ids, Values)) /\ s.fans \in Seq(FanSet(Ids, Values))
           /\ s.identity \in Values /\ s.uptime \in Values /\ s.temp \in Values /\ s.fanStatus \in Values
           /\ \A i \in 1..Len(s.psus) :
                /\ s.psus[i].id \in Ids /\ s.psus[i].status \in Values /\ s.psus[i].dc \in Values
                /\ s.psus[i].fan \in Values /\ s.psus[i].power \in Values
           /\ \A i \in 1..Len(s.fans) : s.fans[i].id \in Ids /\ s.fans[i].rpm \in Values
<1>1. /\ s.psus \in Seq(PsuSet(Ids, Values)) /\ s.fans \in Seq(FanSet(Ids, Values))
      /\ s.identity \in Values /\ s.uptime \in Values /\ s.temp \in Values /\ s.fanStatus \in Values
  BY DEF SwitchOf
<1>2. \A i \in 1..Len(s.psus) : s.psus[i] \in PsuSet(Ids, Values)
  BY <1>1
<1>3. \A i \in 1..Len(s.fans) : s.fans[i] \in FanSet(Ids, Values)
  BY <1>1
<1> QED
  BY <1>1, <1>2, <1>3 DEF PsuSet, FanSet

LEMMA PsuOfIs ==
    ASSUME NEW s, NEW Ids, NEW Values, SwitchOf(s, Ids, Values), NEW i \in 1..Len(s.psus)
    PROVE  PsuOf(s, s.psus[i].id) = s.psus[i]
<1>1. \A j \in DOMAIN s.psus : s.psus[j].id = s.psus[i].id => j = i
  BY SwitchFacts DEF SwitchOf
<1> QED
  BY <1>1, SwitchFacts DEF PsuOf

-----------------------------------------------------------------------------
(* parse_ibswinfo, section by section.                                     *)

\* After a line that fails the parse nothing is read.
LEMMA StoppedStays == \A lines : Len(lines) \in Nat => Full!Leads(Stopped, lines, Stopped)
<1> SUFFICES ASSUME NEW lines, Len(lines) \in Nat PROVE Full!Leads(Stopped, lines, Stopped)
  OBVIOUS
<1>1. \A l : FullLine(Stopped, l) = Stopped
  BY DEF FullLine, Stopped, During, Unparsed
<1> DEFINE run == [i \in 0..Len(lines) |-> Stopped]
<1>2. \A i \in 0..Len(lines) : run[i] = Stopped
  OBVIOUS
<1>3. \A i \in 1..Len(lines) : i \in 0..Len(lines) /\ i - 1 \in 0..Len(lines)
  OBVIOUS
<1>4. 0 \in 0..Len(lines) /\ Len(lines) \in 0..Len(lines)
  OBVIOUS
<1> HIDE DEF run
<1> QED
  BY <1>1, <1>2, <1>3, <1>4 DEF Full!Leads

LEMMA FailingLine ==
    ASSUME NEW st, NEW l, st.data.failed = FALSE, FailsParse(l)
    PROVE  FullLine(st, l) = Stopped
BY Zenon DEF FullLine

\* Unless the parse has failed.
Unless(bad, st) == IF bad THEN Stopped ELSE st
LEMMA UnlessLeads ==
    ASSUME NEW a, NEW b, NEW st, NEW lines, Len(lines) \in Nat, NEW after,
           ~a => Full!Leads(st, lines, Unless(b, after))
    PROVE  Full!Leads(Unless(a, st), lines, Unless(a \/ b, after))
BY StoppedStays DEF Unless

\* The state in the section of the power supplies: rest is the other data.
WithPsus(rest, psus) ==
    [failed |-> FALSE, identity |-> rest.identity, uptime |-> rest.uptime, temp |-> rest.temp,
     fanStatus |-> rest.fanStatus, psus |-> psus, fans |-> rest.fans]
PsuSt(rest, psus, id) == During(WithPsus(rest, psus), id, 2)

PsuLine(l) ==
    l.key \in {"PSU status", "DC power", "fan status", "power (W)"} /\ ~FailsParse(l)

InSection(st, psus, id) ==
    st.data.failed = FALSE /\ st.data.psus = psus /\ st.psuID = id /\ InPsuSection(st)
LEMMA PsuStIs == ASSUME NEW rest, NEW psus, NEW id PROVE InSection(PsuSt(rest, psus, id), psus, id)
<1> DEFINE data == WithPsus(rest, psus)
           st == PsuSt(rest, psus, id)
<1>1. st.data = data /\ st.psuID = id /\ st.dividers = 2
  BY DEF PsuSt, During
<1>2. data.failed = FALSE /\ data.psus = psus
  BY DEF WithPsus
<1>3. InPsuSection(st)
  BY <1>1 DEF InPsuSection
<1>4. st.data.psus = psus
  BY <1>1, <1>2
<1>5. st.data.failed = FALSE
  BY <1>1, <1>2
<1> HIDE DEF st, data
<1>6. InSection(st, psus, id)
  BY <1>1, <1>3, <1>4, <1>5, Zenon DEF InSection
<1> QED
  BY <1>6 DEF st

OneStep(st, l, after) == FullLine(st, l) = after
LEMMA PsuStLine ==
    ASSUME NEW rest, NEW psus, NEW id, NEW l, PsuLine(l)
    PROVE  OneStep(PsuSt(rest, psus, id), l,
             PsuSt(rest, PsusAfter(PsuSt(rest, psus, id), l), PsuIDAt(PsuSt(rest, psus, id), l)))
<1> DEFINE st == PsuSt(rest, psus, id)
<1>1. st.data.failed = FALSE /\ InPsuSection(st)
  <2>1. InSection(st, psus, id)
    BY PsuStIs
  <2> HIDE DEF st
  <2> QED
    BY <2>1 DEF InSection
<1>2. DataAfter(st, l) = WithPsus(rest, PsusAfter(st, l))
  <2>1. l.key # "identity" /\ l.key # "uptime" /\ l.key # "temperature (C)" /\ l.key # "fan rpm"
    BY DEF PsuLine
  <2>2. /\ st.data.identity = rest.identity /\ st.data.uptime = rest.uptime /\ st.data.temp = rest.temp
        /\ st.data.fanStatus = rest.fanStatus /\ st.data.fans = rest.fans
    BY DEF PsuSt, During, WithPsus
  <2> HIDE DEF st
  <2> QED
    BY <1>1, <2>1, <2>2, Zenon DEF DataAfter, Given, WithPsus
<1>3. st.dividers = 2
  BY DEF PsuSt, During
<1>4. ~FailsParse(l) /\ l.key # "divider" /\ l.key # "uptime"
  BY DEF PsuLine
<1> HIDE DEF st
<1>5. FullLine(st, l) = During(DataAfter(st, l), PsuIDAt(st, l), 2)
  BY <1>1, <1>3, <1>4, Zenon DEF FullLine
<1>6. FullLine(st, l) = PsuSt(rest, PsusAfter(st, l), PsuIDAt(st, l))
  BY <1>2, <1>5, Zenon DEF PsuSt
<1> QED
  BY <1>6, Zenon DEF st, OneStep

\* A status line starts the record of the next power supply.
LEMMA PsuStatusLine ==
    ASSUME NEW rest, NEW psus, NEW before, NEW l, PsuLine(l), l.key = "PSU status",
           l.id \in OneDigit, l.id \notin DOMAIN psus
    PROVE  OneStep(PsuSt(rest, psus, before), l,
                   PsuSt(rest, Stored(psus, l.id, Psu(l.value, Blank, Blank, NoReading)), l.id))
<1> DEFINE st == PsuSt(rest, psus, before)
           r == Psu(l.value, Blank, Blank, NoReading)
<1>0. IsStatus(l) /\ l.id # NoPsu
  BY SlotAssumption DEF IsStatus
<1>1. /\ st.data.psus = psus /\ InPsuSection(st)
      /\ FullLine(st, l) = PsuSt(rest, PsusAfter(st, l), PsuIDAt(st, l))
  <2>1. InSection(st, psus, before)
    BY PsuStIs
  <2>2. OneStep(st, l, PsuSt(rest, PsusAfter(st, l), PsuIDAt(st, l)))
    BY PsuStLine, Zenon
  <2> HIDE DEF st
  <2> QED
    BY <2>1, <2>2, Zenon DEF InSection, OneStep
<1> HIDE DEF st
<1>2. PsuIDAt(st, l) = l.id
  BY <1>0, Zenon DEF PsuIDAt
<1>3. LoadPsu(st, l) = NewPsu
  BY <1>0, <1>1, <1>2, Zenon DEF LoadPsu
<1>4. NewPsu.status = Blank /\ NewPsu.dc = Blank /\ NewPsu.fan = Blank /\ NewPsu.power = NoReading
  BY DEF NewPsu, Psu
<1>5. PsuAfter(st, l) = r
  <2>1. l.key # "DC power" /\ l.key # "fan status" /\ l.key # "power (W)"
    OBVIOUS
  <2> QED
    BY <1>0, <1>1, <1>3, <1>4, <2>1, Zenon DEF PsuAfter, Given
<1> HIDE DEF r
<1>6. PsusAfter(st, l) = Stored(psus, l.id, r)
  BY <1>0, <1>1, <1>2, <1>5, Zenon DEF PsusAfter
<1> QED
  BY <1>1, <1>2, <1>6, Zenon DEF st, r, OneStep

\* Another line sets its field of the record.
Told(q, l) ==
    Psu(q.status, Given(l, "DC power", q.dc), Given(l, "fan status", q.fan), Given(l, "power (W)", q.power))
LEMMA PsuFieldLine ==
    ASSUME NEW rest, NEW psus, NEW id, id # NoPsu, NEW q, NEW l, PsuLine(l), l.key # "PSU status"
    PROVE  OneStep(PsuSt(rest, Stored(psus, id, q), id), l,
                   PsuSt(rest, Stored(psus, id, Told(q, l)), id))
<1> DEFINE f == Stored(psus, id, q)
           st == PsuSt(rest, f, id)
<1>1. /\ st.data.psus = f /\ InPsuSection(st) /\ st.psuID = id
      /\ FullLine(st, l) = PsuSt(rest, PsusAfter(st, l), PsuIDAt(st, l))
  <2>1. InSection(st, f, id)
    BY PsuStIs
  <2>2. OneStep(st, l, PsuSt(rest, PsusAfter(st, l), PsuIDAt(st, l)))
    BY PsuStLine, Zenon
  <2> HIDE DEF st, f
  <2> QED
    BY <2>1, <2>2, Zenon DEF InSection, OneStep
<1>2. id \in DOMAIN f /\ f[id] = q /\ \A r : Stored(f, id, r) = Stored(psus, id, r)
  BY DEF Stored
<1> HIDE DEF st, f
<1>3. PsuIDAt(st, l) = id
  BY <1>1, Zenon DEF PsuIDAt, IsStatus
<1>4. LoadPsu(st, l) = q
  BY <1>1, <1>2, <1>3, Zenon DEF LoadPsu, IsStatus
<1>5. PsuAfter(st, l) = Told(q, l)
  BY <1>1, <1>4, Zenon DEF PsuAfter, IsStatus, Told
<1>6. PsusAfter(st, l) = Stored(f, id, Told(q, l))
  BY <1>1, <1>3, <1>5, Zenon DEF PsusAfter
<1>7. PsusAfter(st, l) = Stored(psus, id, Told(q, l))
  BY <1>2, <1>6, Zenon
<1> QED
  BY <1>1, <1>3, <1>7, Zenon DEF st, f, OneStep

LEMMA LineOf ==
    ASSUME NEW Ids, NEW Values
    PROVE  /\ \A key \in {"uptime", "PSU status", "DC power", "fan status", "power (W)", "temperature (C)",
                          "fan rpm", "identity"}, id \in Ids \cup {NoPsu}, value \in Values :
                Line(key, id, value) \in LinesOf(Ids, Values)
           /\ Divider \in LinesOf(Ids, Values)
BY DEF Line, LinesOf, Divider

\* The lines of a power supply, those left out that are blank.
Unblank(key, value) == IF value = Blank THEN <<>> ELSE <<Line(key, NoPsu, value)>>

LEMMA OneLine == ASSUME NEW S, NEW l \in S PROVE <<l>> \in Seq(S)
OBVIOUS

LEMMA UnblankLines ==
    ASSUME NEW S, NEW key, NEW value, Line(key, NoPsu, value) \in S
    PROVE  Unblank(key, value) \in Seq(S)
BY DEF Unblank

LEMMA UnblankLeads ==
    ASSUME NEW key, NEW value, NEW st, NEW after,
           value = Blank => st = after,
           value # Blank => OneStep(st, Line(key, NoPsu, value), after)
    PROVE  Full!Leads(st, Unblank(key, value), after)
<1> DEFINE l == Line(key, NoPsu, value)
<1>1. Full!Leads(st, <<l>>, FullLine(st, l)) /\ Full!Leads(st, <<>>, st)
  BY Full!LeadsOne, Full!LeadsNone
<1> QED
  BY <1>1 DEF Unblank, OneStep

PsuIn(Ids, Values, psu) ==
    /\ NoPsu \notin Ids /\ psu.id \in Ids /\ psu.id \in OneDigit /\ psu.status \in Values
    /\ psu.dc \in Values /\ psu.fan \in Values /\ psu.power \in Values

Tells(q, l, after) == Told(q, l) = after
LEMMA TellsAll ==
    ASSUME NEW status, NEW dc, NEW fan, NEW power, NEW id, NEW value
    PROVE  /\ Tells(Psu(status, dc, fan, power), Line("DC power", id, value), Psu(status, value, fan, power))
           /\ Tells(Psu(status, dc, fan, power), Line("fan status", id, value), Psu(status, dc, value, power))
           /\ Tells(Psu(status, dc, fan, power), Line("power (W)", id, value), Psu(status, dc, fan, value))
BY DEF Tells, Told, Psu, Line, Given

\* What the lines are about, and what they lead to.
LEMMA PsuTold ==
    ASSUME NEW psu, NEW Ids, NEW Values, PsuIn(Ids, Values, psu)
    PROVE  LET statusLine == Line("PSU status", psu.id, psu.status)
               dcLine == Line("DC power", NoPsu, psu.dc)
               fanLine == Line("fan status", NoPsu, psu.fan)
               powerLine == Line("power (W)", NoPsu, psu.power)
               q1 == Psu(psu.status, Blank, Blank, NoReading)
               q2 == Psu(psu.status, psu.dc, Blank, NoReading)
               q3 == Psu(psu.status, psu.dc, psu.fan, NoReading)
               q4 == WithPower(psu, psu.power)
           IN  /\ PsuLine(statusLine) /\ statusLine.key = "PSU status"
               /\ statusLine.id = psu.id /\ statusLine.value = psu.status
               /\ PsuLine(dcLine) /\ dcLine.key # "PSU status" /\ Told(q1, dcLine) = q2
               /\ PsuLine(fanLine) /\ fanLine.key # "PSU status" /\ Told(q2, fanLine) = q3
               /\ powerLine.key # "PSU status" /\ Told(q3, powerLine) = q4
               /\ IsNumber(psu.power) => PsuLine(powerLine)
               /\ ~IsNumber(psu.power) => FailsParse(powerLine)
<1>1. \A key, id, value : Line(key, id, value).key = key /\ Line(key, id, value).value = value
                          /\ Line(key, id, value).id = id
  BY DEF Line
<1>2. \A id, value : PsuLine(Line("PSU status", id, value)) /\ PsuLine(Line("DC power", id, value))
                     /\ PsuLine(Line("fan status", id, value))
                     /\ (IsNumber(value) => PsuLine(Line("power (W)", id, value)))
                     /\ (~IsNumber(value) => FailsParse(Line("power (W)", id, value)))
  BY DEF Line, PsuLine, FailsParse
<1>3. /\ Tells(Psu(psu.status, Blank, Blank, NoReading), Line("DC power", NoPsu, psu.dc),
               Psu(psu.status, psu.dc, Blank, NoReading))
      /\ Tells(Psu(psu.status, psu.dc, Blank, NoReading), Line("fan status", NoPsu, psu.fan),
               Psu(psu.status, psu.dc, psu.fan, NoReading))
      /\ Tells(Psu(psu.status, psu.dc, psu.fan, NoReading), Line("power (W)", NoPsu, psu.power),
               Psu(psu.status, psu.dc, psu.fan, psu.power))
  BY TellsAll, Zenon
<1>4. "DC power" # "PSU status" /\ "fan status" # "PSU status" /\ "power (W)" # "PSU status"
  OBVIOUS
<1>5. WithPower(psu, psu.power) = Psu(psu.status, psu.dc, psu.fan, psu.power)
  BY Zenon DEF WithPower
<1> DEFINE statusLine == Line("PSU status", psu.id, psu.status)
           dcLine == Line("DC power", NoPsu, psu.dc)
           fanLine == Line("fan status", NoPsu, psu.fan)
           powerLine == Line("power (W)", NoPsu, psu.power)
<1>6. /\ PsuLine(statusLine) /\ statusLine.key = "PSU status"
      /\ statusLine.id = psu.id /\ statusLine.value = psu.status
  <2>1. PsuLine(statusLine)
    BY <1>2, Zenon
  <2>2. statusLine.key = "PSU status"
    BY <1>1, Zenon
  <2>3. statusLine.id = psu.id
    BY DEF Line
  <2>4. statusLine.value = psu.status
    BY DEF Line
  <2> QED
    BY <2>1, <2>2, <2>3, <2>4, Zenon
<1>7. PsuLine(dcLine) /\ dcLine.key # "PSU status" /\ PsuLine(fanLine) /\ fanLine.key # "PSU status"
  BY <1>1, <1>2, <1>4, Zenon
<1>8. /\ powerLine.key # "PSU status" /\ (IsNumber(psu.power) => PsuLine(powerLine))
      /\ ~IsNumber(psu.power) => FailsParse(powerLine)
  BY <1>1, <1>2, <1>4, Zenon
<1>9. /\ Told(Psu(psu.status, Blank, Blank, NoReading), dcLine) = Psu(psu.status, psu.dc, Blank, NoReading)
      /\ Told(Psu(psu.status, psu.dc, Blank, NoReading), fanLine) = Psu(psu.status, psu.dc, psu.fan, NoReading)
      /\ Told(Psu(psu.status, psu.dc, psu.fan, NoReading), powerLine) = Psu(psu.status, psu.dc, psu.fan, psu.power)
  BY <1>3, Zenon DEF Tells
<1> QED
  BY <1>5, <1>6, <1>7, <1>8, <1>9, Zenon

\* The record the lines of a power supply give, whichever are left out; a power
\* that does not parse ends the parse.
Recorded(psu) == WithPower(psu, OrNoReading(psu.power))
PsuEnd(rest, psus, psu) ==
    Unless(psu.power = Garbled, PsuSt(rest, Stored(psus, psu.id, Recorded(psu)), psu.id))
LEMMA PsuLead ==
    ASSUME NEW rest, NEW psus, NEW before, NEW psu, NEW Ids, NEW Values, PsuIn(Ids, Values, psu),
           psu.id \notin DOMAIN psus
    PROVE  /\ PsuLines(psu) \in Seq(LinesOf(Ids, Values))
           /\ Full!Leads(PsuSt(rest, psus, before), PsuLines(psu), PsuEnd(rest, psus, psu))
<1> DEFINE S == LinesOf(Ids, Values)
           statusLine == Line("PSU status", psu.id, psu.status)
           dcLine == Line("DC power", NoPsu, psu.dc)
           fanLine == Line("fan status", NoPsu, psu.fan)
           powerLine == Line("power (W)", NoPsu, psu.power)
           q1 == Psu(psu.status, Blank, Blank, NoReading)
           q2 == Psu(psu.status, psu.dc, Blank, NoReading)
           q3 == Psu(psu.status, psu.dc, psu.fan, NoReading)
           q4 == WithPower(psu, psu.power)
           Is(q) == PsuSt(rest, Stored(psus, psu.id, q), psu.id)
           start == PsuSt(rest, psus, before)
           dcPart == Unblank("DC power", psu.dc)
           fanPart == Unblank("fan status", psu.fan)
           powerPart == Unblank("power (W)", psu.power)
<1>1. psu.id # NoPsu /\ psu.id \in OneDigit
  BY Zenon DEF PsuIn
<1>2. statusLine \in S /\ dcLine \in S /\ fanLine \in S /\ powerLine \in S
  BY LineOf, Zenon DEF PsuIn
<1>3. /\ PsuLine(statusLine) /\ statusLine.key = "PSU status"
      /\ statusLine.id = psu.id /\ statusLine.value = psu.status
      /\ PsuLine(dcLine) /\ dcLine.key # "PSU status" /\ Told(q1, dcLine) = q2
      /\ PsuLine(fanLine) /\ fanLine.key # "PSU status" /\ Told(q2, fanLine) = q3
      /\ powerLine.key # "PSU status" /\ Told(q3, powerLine) = q4
      /\ IsNumber(psu.power) => PsuLine(powerLine)
      /\ ~IsNumber(psu.power) => FailsParse(powerLine)
  BY PsuTold, Zenon
<1>4. Full!Leads(start, <<statusLine>>, Is(q1))
  <2>1. OneStep(start, statusLine,
                PsuSt(rest, Stored(psus, statusLine.id, Psu(statusLine.value, Blank, Blank, NoReading)),
                      statusLine.id))
    <3> HIDE DEF statusLine
    <3> QED
      BY <1>1, <1>3, PsuStatusLine, Zenon
  <2>2. OneStep(start, statusLine, Is(q1))
    BY <1>3, <2>1, Zenon
  <2>3. Full!Leads(start, <<statusLine>>, FullLine(start, statusLine))
    BY Full!LeadsOne, Zenon
  <2> QED
    BY <2>2, <2>3, Zenon DEF OneStep
<1>5. Full!Leads(Is(q1), dcPart, Is(q2))
  <2>1. OneStep(Is(q1), dcLine, Is(Told(q1, dcLine)))
    <3> HIDE DEF dcLine, q1
    <3> QED
      BY <1>1, <1>3, PsuFieldLine, Zenon
  <2>2. OneStep(Is(q1), dcLine, Is(q2))
    BY <1>3, <2>1, Zenon
  <2>3. psu.dc = Blank => Is(q1) = Is(q2)
    BY Zenon
  <2> QED
    BY <2>2, <2>3, UnblankLeads, Zenon
<1>6. Full!Leads(Is(q2), fanPart, Is(q3))
  <2>1. OneStep(Is(q2), fanLine, Is(Told(q2, fanLine)))
    <3> HIDE DEF fanLine, q2
    <3> QED
      BY <1>1, <1>3, PsuFieldLine, Zenon
  <2>2. OneStep(Is(q2), fanLine, Is(q3))
    BY <1>3, <2>1, Zenon
  <2>3. psu.fan = Blank => Is(q2) = Is(q3)
    BY Zenon
  <2> QED
    BY <2>2, <2>3, UnblankLeads, Zenon
<1>7. Full!Leads(Is(q3), powerPart, PsuEnd(rest, psus, psu))
  <2>1. psu.power = Blank => Is(q3) = PsuEnd(rest, psus, psu)
    BY ReadingAssumption, Zenon DEF PsuEnd, Unless, Recorded, OrNoReading, WithPower
  <2>2. ASSUME IsNumber(psu.power) PROVE OneStep(Is(q3), powerLine, PsuEnd(rest, psus, psu))
    <3>1. psu.power # Blank /\ psu.power # Garbled
      BY <2>2 DEF IsNumber
    <3>2. PsuEnd(rest, psus, psu) = Is(q4)
      BY <3>1, Zenon DEF PsuEnd, Unless, Recorded, OrNoReading
    <3>3. OneStep(Is(q3), powerLine, Is(Told(q3, powerLine)))
      <4> HIDE DEF powerLine, q3
      <4> QED
        BY <1>1, <1>3, <2>2, PsuFieldLine, Zenon
    <3> QED
      BY <1>3, <3>2, <3>3, Zenon
  <2>3. ASSUME psu.power = Garbled PROVE OneStep(Is(q3), powerLine, PsuEnd(rest, psus, psu))
    <3>1. ~IsNumber(psu.power)
      BY <2>3 DEF IsNumber
    <3>2. PsuEnd(rest, psus, psu) = Stopped
      BY <2>3, Zenon DEF PsuEnd, Unless
    <3>3. InSection(Is(q3), Stored(psus, psu.id, q3), psu.id)
      BY PsuStIs, Zenon
    <3>4. FailsParse(powerLine)
      BY <1>3, <3>1, Zenon
    <3> HIDE DEF Is, powerLine
    <3>5. FullLine(Is(q3), powerLine) = Stopped
      BY <3>3, <3>4, FailingLine, Zenon DEF InSection
    <3> QED
      BY <3>2, <3>5, Zenon DEF OneStep
  <2>4. psu.power # Blank => IsNumber(psu.power) \/ psu.power = Garbled
    BY DEF IsNumber
  <2> QED
    BY <2>1, <2>2, <2>3, <2>4, UnblankLeads, Zenon
<1> DEFINE text1 == <<statusLine>> \o dcPart
           text2 == text1 \o fanPart
           text3 == text2 \o powerPart
<1>8. text3 = PsuLines(psu)
  BY Zenon DEF PsuLines, Unblank
<1>9. dcPart \in Seq(S) /\ fanPart \in Seq(S) /\ powerPart \in Seq(S)
  BY <1>2, UnblankLines, Zenon
<1> HIDE DEF S, statusLine, dcPart, fanPart, powerPart, start, Is
<1>10. <<statusLine>> \in Seq(S)
  BY <1>2, OneLine, Zenon
<1>11. text1 \in Seq(S) /\ text2 \in Seq(S) /\ text3 \in Seq(S)
  BY <1>9, <1>10
<1>12. Full!Leads(start, text1, Is(q2))
  BY <1>4, <1>5, <1>9, <1>10, Full!LeadsOn, Zenon
<1> HIDE DEF text1
<1>13. Full!Leads(start, text2, Is(q3))
  BY <1>6, <1>9, <1>11, <1>12, Full!LeadsOn, Zenon
<1> HIDE DEF text2
<1>14. Full!Leads(start, text3, PsuEnd(rest, psus, psu))
  BY <1>7, <1>9, <1>11, <1>13, Full!LeadsOn, Zenon
<1> HIDE DEF text3
<1> QED
  BY <1>8, <1>11, <1>14, Zenon DEF S, start

JoinsTo(g, texts, k) == g = [i \in 1..k |-> IF i = 1 THEN texts[i] ELSE g[i - 1] \o texts[i]]
\* SequencesExt's local function is the one that joins the texts one by one.
LEMMA FlattenIs ==
    ASSUME NEW S, NEW n \in Nat, NEW texts \in [1..n -> Seq(S)]
    PROVE  \E flat : /\ flat[0] = <<>> /\ flat[n] = FlattenSeq(texts)
                     /\ \A i \in 1..n : flat[i] = flat[i - 1] \o texts[i]
<1> DEFINE N == {k \in Nat : \E g : JoinsTo(g, texts, k)}
<1>1. 0 \in N
  <2> DEFINE g == [i \in 1..0 |-> <<>>]
  <2>1. JoinsTo(g, texts, 0)
    BY DEF JoinsTo
  <2> QED
    BY <2>1
<1>2. ASSUME NEW k \in Nat, k \in N PROVE k + 1 \in N
  <2>1. PICK g : JoinsTo(g, texts, k)
    BY <1>2
  <2> DEFINE h == [i \in 1..(k + 1) |->
                     IF i = 1 THEN texts[i] ELSE IF i <= k THEN g[i] ELSE g[k] \o texts[i]]
  <2>2. \A i \in 1..k : g[i] = IF i = 1 THEN texts[i] ELSE g[i - 1] \o texts[i]
    <3> HIDE DEF h
    <3> QED
      BY <2>1 DEF JoinsTo
  <2>3. \A i \in 1..k : h[i] = g[i]
    BY <2>2
  <2>4. ASSUME NEW i \in 1..(k + 1)
        PROVE  h[i] = IF i = 1 THEN texts[i] ELSE h[i - 1] \o texts[i]
    <3>1. CASE i = 1
      BY <3>1
    <3>2. CASE i # 1 /\ i <= k
      <4>1. i \in 1..k /\ i - 1 \in 1..k
        BY <3>2
      <4> HIDE DEF h
      <4> QED
        BY <2>2, <2>3, <3>2, <4>1
    <3>3. CASE i # 1 /\ i = k + 1
      <4>1. k \in 1..k /\ i - 1 = k
        BY <3>3
      <4>2. h[i] = g[k] \o texts[i]
        <5>1. i # 1 /\ ~(i <= k)
          BY <3>3
        <5>2. h[i] = IF i = 1 THEN texts[i] ELSE IF i <= k THEN g[i] ELSE g[k] \o texts[i]
          BY Zenon
        <5> QED
          BY <5>1, <5>2, Zenon
      <4> HIDE DEF h
      <4> QED
        BY <2>3, <3>3, <4>1, <4>2
    <3> QED
      BY <3>1, <3>2, <3>3
  <2>5. h = [i \in 1..(k + 1) |-> h[i]]
    OBVIOUS
  <2> HIDE DEF h
  <2>6. JoinsTo(h, texts, k + 1)
    BY <2>4, <2>5 DEF JoinsTo
  <2> QED
    BY <2>6
<1>3. Nat \subseteq N
  <2> HIDE DEF N
  <2> QED
    BY <1>1, <1>2, NatSetInduction
<1> DEFINE iter == CHOOSE g : JoinsTo(g, texts, n)
           flat == [i \in 0..n |-> IF i = 0 THEN <<>> ELSE iter[i]]
<1>4. JoinsTo(iter, texts, n)
  BY <1>3
<1>5. Len(texts) = n
  OBVIOUS
<1>6. n # 0 => FlattenSeq(texts) = iter[n]
  BY <1>5, Zenon DEF FlattenSeq, JoinsTo
<1>7. n = 0 => FlattenSeq(texts) = <<>>
  <2>1. n = 0 => texts = <<>>
    BY <1>5
  <2> QED
    BY <1>5, <2>1, Zenon DEF FlattenSeq
<1> HIDE DEF iter
<1>8. ASSUME NEW i \in 1..n PROVE iter[i] = IF i = 1 THEN texts[i] ELSE iter[i - 1] \o texts[i]
  BY <1>4 DEF JoinsTo
<1>9. flat[0] = <<>> /\ \A i \in 1..n : flat[i] = iter[i]
  OBVIOUS
<1> HIDE DEF flat
<1>10. ASSUME NEW i \in 1..n PROVE flat[i] = flat[i - 1] \o texts[i]
  <2>1. CASE i = 1
    <3>1. texts[1] = <<>> \o texts[1]
      OBVIOUS
    <3> QED
      BY <1>8, <1>9, <2>1, <3>1
  <2>2. CASE i # 1
    <3>1. i - 1 \in 1..n
      BY <2>2
    <3> QED
      BY <1>8, <1>9, <2>2, <3>1
  <2> QED
    BY <2>1, <2>2
<1>11. flat[n] = FlattenSeq(texts)
  <2>1. CASE n = 0
    BY <1>7, <1>9, <2>1
  <2>2. CASE n # 0
    <3>1. n \in 1..n
      BY <2>2
    <3> QED
      BY <1>6, <1>9, <2>2, <3>1
  <2> QED
    BY <2>1, <2>2
<1> QED
  BY <1>9, <1>10, <1>11

\* The power supplies of the first i slots.
GarbledTo(s, i) == \E j \in 1..i : s.psus[j].power = Garbled
PsusTo(s, i) == [id \in {s.psus[j].id : j \in 1..i} |-> Recorded(PsuOf(s, id))]
LastTold(s, i) == IF i = 0 THEN NoPsu ELSE s.psus[i].id
AtPsu(s, rest, i) == Unless(GarbledTo(s, i), PsuSt(rest, PsusTo(s, i), LastTold(s, i)))

LEMMA PsusToNext ==
    ASSUME NEW s, NEW Ids, NEW Values, SwitchOf(s, Ids, Values), NEW i \in 1..Len(s.psus)
    PROVE  /\ PsusTo(s, i) = Stored(PsusTo(s, i - 1), s.psus[i].id, Recorded(s.psus[i]))
           /\ GarbledTo(s, i) <=> GarbledTo(s, i - 1) \/ s.psus[i].power = Garbled
           /\ PsuIn(Ids, Values, s.psus[i])
           /\ s.psus[i].id \notin DOMAIN PsusTo(s, i - 1)
<1>0. Len(s.psus) \in Nat
  BY SwitchFacts
<1> DEFINE Id(j) == s.psus[j].id
           Rec(id) == Recorded(PsuOf(s, id))
           here == s.psus[i]
<1>1. PsuOf(s, Id(i)) = here
  BY PsuOfIs
<1>2. GarbledTo(s, i) <=> GarbledTo(s, i - 1) \/ s.psus[i].power = Garbled
  <2>1. 1..i = (1..(i - 1)) \cup {i}
    BY <1>0
  <2> QED
    BY <2>1, Zenon DEF GarbledTo
<1>3. PsuIn(Ids, Values, s.psus[i])
  <2>1. s.psus[i].id \in OneDigit
    <3>1. Numbered(s)
      BY Zenon DEF SwitchOf
    <3>2. i \in DOMAIN s.psus
      BY SwitchFacts
    <3> QED
      BY <3>1, <3>2, Zenon DEF Numbered
  <2> QED
    BY <2>1, SwitchFacts, Zenon DEF PsuIn, SwitchOf
<1>4. PsusTo(s, i) = Stored(PsusTo(s, i - 1), s.psus[i].id, Recorded(s.psus[i]))
  <2> HIDE DEF Id, Rec, here
  <2>1. 1..i = (1..(i - 1)) \cup {i}
    BY <1>0
  <2> DEFINE A == {Id(j) : j \in 1..(i - 1)}
             B == {Id(j) : j \in 1..i}
  <2>2. B = A \cup {Id(i)}
    BY <2>1
  <2> HIDE DEF A, B
  <2>3. [id \in B |-> Rec(id)] = Stored([id \in A |-> Rec(id)], Id(i), Rec(Id(i)))
    BY <2>2 DEF Stored
  <2>4. PsusTo(s, i) = [id \in B |-> Rec(id)] /\ PsusTo(s, i - 1) = [id \in A |-> Rec(id)]
    BY Zenon DEF PsusTo, A, B, Rec, Id
  <2>5. Rec(Id(i)) = Recorded(here)
    BY <1>1, Zenon DEF Rec
  <2> QED
    BY <2>3, <2>4, <2>5, Zenon DEF Id, here
<1>5. s.psus[i].id \notin DOMAIN PsusTo(s, i - 1)
  <2>1. \A j \in 1..(i - 1) : j \in 1..Len(s.psus) /\ j # i
    BY <1>0
  <2>2. \A j \in 1..(i - 1) : s.psus[j].id # s.psus[i].id
    BY <2>1, Zenon DEF SwitchOf
  <2>3. DOMAIN PsusTo(s, i - 1) = {s.psus[j].id : j \in 1..(i - 1)}
    BY DEF PsusTo
  <2> QED
    BY <2>2, <2>3, Zenon
<1> QED
  BY <1>2, <1>3, <1>4, <1>5, Zenon

\* The section tells every power supply of the switch.
LEMMA SectionLead ==
    ASSUME NEW s, NEW Ids, NEW Values, SwitchOf(s, Ids, Values), NEW rest
    PROVE  /\ PsuSection(s) \in Seq(LinesOf(Ids, Values))
           /\ Full!Leads(AtPsu(s, rest, 0), PsuSection(s), AtPsu(s, rest, Len(s.psus)))
<1> DEFINE n == Len(s.psus)
           S == LinesOf(Ids, Values)
           texts == [i \in 1..n |-> PsuLines(s.psus[i])]
           state == [i \in 0..n |-> AtPsu(s, rest, i)]
<1>1. n \in Nat /\ DOMAIN s.psus = 1..n
  BY SwitchFacts
<1>2. PsuSection(s) = FlattenSeq(texts)
  BY <1>1, Zenon DEF PsuSection
<1>3. ASSUME NEW i \in 1..n
      PROVE  /\ PsuLines(s.psus[i]) \in Seq(S)
             /\ Full!Leads(AtPsu(s, rest, i - 1), PsuLines(s.psus[i]), AtPsu(s, rest, i))
  <2> DEFINE p == s.psus[i]
             before == PsuSt(rest, PsusTo(s, i - 1), LastTold(s, i - 1))
             after == PsuSt(rest, PsusTo(s, i), p.id)
  <2>1. /\ PsusTo(s, i) = Stored(PsusTo(s, i - 1), p.id, Recorded(p))
        /\ GarbledTo(s, i) <=> GarbledTo(s, i - 1) \/ p.power = Garbled
        /\ PsuIn(Ids, Values, p) /\ p.id \notin DOMAIN PsusTo(s, i - 1)
    BY PsusToNext, Zenon
  <2>2. PsuLines(p) \in Seq(S) /\ Full!Leads(before, PsuLines(p), PsuEnd(rest, PsusTo(s, i - 1), p))
    BY <2>1, PsuLead, Zenon
  <2>3. PsuEnd(rest, PsusTo(s, i - 1), p) = Unless(p.power = Garbled, after)
    BY <2>1, Zenon DEF PsuEnd
  <2>4. LastTold(s, i) = p.id
    BY <1>1 DEF LastTold
  <2>5. Len(PsuLines(p)) \in Nat
    BY <2>2
  <2> HIDE DEF p, before, after
  <2>6. Full!Leads(Unless(GarbledTo(s, i - 1), before), PsuLines(p),
                   Unless(GarbledTo(s, i - 1) \/ p.power = Garbled, after))
    BY <2>2, <2>3, <2>5, UnlessLeads, Zenon
  <2>7. /\ AtPsu(s, rest, i - 1) = Unless(GarbledTo(s, i - 1), before)
        /\ AtPsu(s, rest, i) = Unless(GarbledTo(s, i - 1) \/ p.power = Garbled, after)
    <3>1. AtPsu(s, rest, i - 1) = Unless(GarbledTo(s, i - 1), before)
      BY Zenon DEF AtPsu, before
    <3>2. AtPsu(s, rest, i) = Unless(GarbledTo(s, i), after)
      BY <2>4, Zenon DEF AtPsu, after, p
    <3> QED
      BY <2>1, <3>1, <3>2, Zenon DEF Unless
  <2> QED
    BY <2>2, <2>6, <2>7, Zenon DEF p
<1>4. \A i \in 0..n : state[i] = AtPsu(s, rest, i)
  OBVIOUS
<1>5. texts \in [1..n -> Seq(S)] /\ \A i \in 1..n : texts[i] = PsuLines(s.psus[i])
  BY <1>3
<1> HIDE DEF n, S, texts, state
<1>6. PICK flat : /\ flat[0] = <<>> /\ flat[n] = FlattenSeq(texts)
                  /\ \A i \in 1..n : flat[i] = flat[i - 1] \o texts[i]
  BY <1>1, <1>5, FlattenIs
<1>7. \A i \in 1..n : Full!Leads(state[i - 1], texts[i], state[i])
  <2>1. \A i \in 1..n : i \in 0..n /\ i - 1 \in 0..n
    BY <1>1
  <2> QED
    BY <1>3, <1>4, <1>5, <2>1, Zenon
<1>8. \A i \in 1..n : texts[i] \in Seq(S) /\ flat[i] = flat[i - 1] \o texts[i]
  BY <1>5, <1>6
<1>9. flat[n] \in Seq(S) /\ Full!Leads(state[0], flat[n], state[n])
  BY <1>1, <1>6, <1>7, <1>8, Full!LeadsThrough
<1>10. 0 \in 0..n /\ n \in 0..n
  BY <1>1
<1> QED
  BY <1>2, <1>4, <1>6, <1>9, <1>10, Zenon DEF n, S

\* What is gathered after the section, and the state in a later one.
Rest(s) == [identity |-> s.identity, uptime |-> NumberOr(s.uptime, 0), temp |-> NoReading,
            fanStatus |-> Blank, fans |-> <<>>]
AllPsus(s) == PsusTo(s, Len(s.psus))
Gathered(s, temp, fanStatus, fans) ==
    [failed |-> FALSE, identity |-> s.identity, uptime |-> NumberOr(s.uptime, 0), temp |-> temp,
     fanStatus |-> fanStatus, psus |-> AllPsus(s), fans |-> fans]
Later(s, temp, fanStatus, fans, d) ==
    During(Gathered(s, temp, fanStatus, fans), LastTold(s, Len(s.psus)), d)

LEMMA DividerLine ==
    ASSUME NEW data, NEW id, NEW d, NEW e, data.failed = FALSE, e = d + 1
    PROVE  OneStep(During(data, id, d), Divider, During(data, id, e))
<1> DEFINE st == During(data, id, d)
<1>1. st.data = data /\ st.psuID = id /\ st.dividers = d
  BY DEF During
<1>2. Divider.key = "divider" /\ ~FailsParse(Divider)
  BY DEF Divider, Line, FailsParse
<1>3. st.data.failed = FALSE
  BY <1>1
<1> HIDE DEF st
<1>4. FullLine(st, Divider) = During(st.data, st.psuID, st.dividers + 1)
  BY <1>2, <1>3, Zenon DEF FullLine
<1>5. FullLine(st, Divider) = During(data, id, e)
  BY <1>1, <1>4, Zenon
<1> QED
  BY <1>5, Zenon DEF st, OneStep

\* A line of another section leaves the power supplies as they are.
OtherLine(l) ==
    /\ l.key \in {"identity", "uptime", "temperature (C)", "fan rpm"}
    /\ ~FailsParse(l) /\ (l.key = "uptime" => IsNumber(l.value))
KeepsPsus(st, l) == PsusAfter(st, l) = st.data.psus

LEMMA ParsedLine ==
    ASSUME NEW st, NEW l, st.data.failed = FALSE, ~FailsParse(l),
           l.key # "divider", l.key # "PSU status", l.key = "uptime" => IsNumber(l.value)
    PROVE  OneStep(st, l, During(DataAfter(st, l), st.psuID, st.dividers))
<1>1. PsuIDAt(st, l) = st.psuID
  BY Zenon DEF PsuIDAt, IsStatus
<1>2. FullLine(st, l) = During(DataAfter(st, l), PsuIDAt(st, l), st.dividers)
  BY Zenon DEF FullLine
<1> QED
  BY <1>1, <1>2, Zenon DEF OneStep

\* Before the first power supply there is none to store, and after the section none is stored.
LEMMA KeepsNoPsus ==
    ASSUME NEW st, NEW l, st.psuID = NoPsu \/ ~InPsuSection(st), l.key # "PSU status"
    PROVE  KeepsPsus(st, l)
BY Zenon DEF KeepsPsus, PsusAfter, PsuIDAt, IsStatus

\* In between the last one is stored once more as it is.
LEMMA KeepsLastPsu ==
    ASSUME NEW st, NEW l, NEW A, NEW f, NEW psu, st.data.psus = [x \in A |-> f[x]], st.psuID \in A,
           f[st.psuID] = Recorded(psu), OtherLine(l)
    PROVE  KeepsPsus(st, l)
<1> DEFINE id == st.psuID
           psus == st.data.psus
           q == f[id]
<1>1. /\ l.key # "PSU status" /\ l.key # "DC power" /\ l.key # "fan status" /\ l.key # "power (W)"
  BY DEF OtherLine
<1>2. PsuIDAt(st, l) = id
  BY <1>1, Zenon DEF PsuIDAt, IsStatus
<1>3. id \in DOMAIN psus /\ psus[id] = q
  OBVIOUS
<1>4. q = Psu(q.status, q.dc, q.fan, q.power)
  <2>1. q = Psu(psu.status, psu.dc, psu.fan, OrNoReading(psu.power))
    BY Zenon DEF Recorded, WithPower
  <2> HIDE DEF q
  <2> QED
    BY <2>1 DEF Psu
<1>5. Stored(psus, id, q) = psus
  <2>1. \A x \in A : x = id => f[x] = q
    OBVIOUS
  <2>2. DOMAIN psus \cup {id} = A
    OBVIOUS
  <2>3. Stored(psus, id, q) = [x \in A |-> IF x = id THEN q ELSE psus[x]]
    <3> HIDE DEF id, psus, q
    <3> QED
      BY <2>2, Zenon DEF Stored
  <2>4. \A x \in A : psus[x] = f[x]
    OBVIOUS
  <2>5. [x \in A |-> IF x = id THEN q ELSE psus[x]] = [x \in A |-> f[x]]
    BY <2>1, <2>4
  <2> QED
    BY <2>3, <2>5, Zenon
<1> HIDE DEF id, psus, q
<1>6. CASE InPsuSection(st)
  <2>1. LoadPsu(st, l) = q
    BY <1>1, <1>2, <1>3, <1>6, Zenon DEF LoadPsu, IsStatus, psus
  <2>2. PsuAfter(st, l) = q
    BY <1>1, <1>4, <2>1, Zenon DEF PsuAfter, IsStatus, Given
  <2> QED
    BY <1>2, <1>5, <2>2, Zenon DEF KeepsPsus, PsusAfter, psus
<1>7. CASE ~InPsuSection(st)
  BY <1>7, Zenon DEF KeepsPsus, PsusAfter
<1> QED
  BY <1>6, <1>7

LEMMA LeadsLine ==
    ASSUME NEW S, NEW text \in Seq(S), NEW l \in S, NEW a, NEW b, NEW c,
           Full!Leads(a, text, b), OneStep(b, l, c)
    PROVE  text \o <<l>> \in Seq(S) /\ Full!Leads(a, text \o <<l>>, c)
<1>1. <<l>> \in Seq(S)
  BY OneLine, Zenon
<1>2. Full!Leads(b, <<l>>, FullLine(b, l))
  BY Full!LeadsOne, Zenon
<1>3. Full!Leads(b, <<l>>, c)
  BY <1>2, Zenon DEF OneStep
<1>4. text \o <<l>> \in Seq(S)
  BY <1>1
<1>5. Full!Leads(a, text \o <<l>>, c)
  BY <1>1, <1>3, Full!LeadsOn, Zenon
<1> QED
  BY <1>4, <1>5, Zenon

\* The lines before the section.
Identified(s) == [failed |-> FALSE, identity |-> s.identity, uptime |-> 0, temp |-> NoReading,
                  fanStatus |-> Blank, psus |-> NoPsus, fans |-> <<>>]
LEMMA IdentityLine ==
    ASSUME NEW s
    PROVE  OneStep(SwinfoStart, Line("identity", NoPsu, s.identity),
                   During(Identified(s), NoPsu, 0))
<1> DEFINE l == Line("identity", NoPsu, s.identity)
           st == SwinfoStart
<1>1. st.data = NoData /\ st.psuID = NoPsu /\ st.dividers = 0
  BY DEF SwinfoStart, During
<1>2. l.key = "identity" /\ l.value = s.identity /\ ~FailsParse(l)
  BY DEF Line, FailsParse
<1>3. st.data.failed = FALSE
  BY <1>1 DEF NoData
<1>4. /\ st.data.uptime = 0 /\ st.data.temp = NoReading /\ st.data.fanStatus = Blank
      /\ st.data.psus = NoPsus /\ st.data.fans = <<>>
  BY <1>1 DEF NoData
<1>5. InPsuSection(st)
  BY <1>1 DEF InPsuSection
<1> HIDE DEF l, st
<1>6. /\ l.key # "divider" /\ l.key # "PSU status" /\ l.key # "uptime"
      /\ l.key # "temperature (C)" /\ l.key # "fan rpm"
  BY <1>2
<1>7. PsusAfter(st, l) = NoPsus
  BY <1>1, <1>4, <1>6, KeepsNoPsus, Zenon DEF KeepsPsus
<1>8. DataAfter(st, l) = Identified(s)
  BY <1>2, <1>4, <1>5, <1>6, <1>7, Zenon DEF DataAfter, Given, Identified
<1>9. OneStep(st, l, During(DataAfter(st, l), st.psuID, st.dividers))
  BY <1>2, <1>3, <1>6, ParsedLine, Zenon
<1> QED
  BY <1>1, <1>8, <1>9, Zenon DEF l, st

LEMMA UptimeLine ==
    ASSUME NEW s
    PROVE  OneStep(During(Identified(s), NoPsu, 1), Line("uptime", NoPsu, s.uptime),
                   During(WithPsus(Rest(s), NoPsus), NoPsu, 1))
<1> DEFINE l == Line("uptime", NoPsu, s.uptime)
           st == During(Identified(s), NoPsu, 1)
<1>1. st.data = Identified(s) /\ st.psuID = NoPsu /\ st.dividers = 1
  BY DEF During
<1>2. l.key = "uptime" /\ l.value = s.uptime /\ ~FailsParse(l)
  BY DEF Line, FailsParse
<1>3. st.data.failed = FALSE
  BY <1>1 DEF Identified
<1>4. /\ st.data.identity = s.identity /\ st.data.temp = NoReading /\ st.data.fanStatus = Blank
      /\ st.data.psus = NoPsus /\ st.data.fans = <<>>
  BY <1>1 DEF Identified
<1>5. InPsuSection(st)
  BY <1>1 DEF InPsuSection
<1>6. /\ l.key # "divider" /\ l.key # "PSU status" /\ l.key # "identity"
      /\ l.key # "temperature (C)" /\ l.key # "fan rpm"
  BY <1>2
<1>7. /\ Rest(s).identity = s.identity /\ Rest(s).uptime = NumberOr(s.uptime, 0) /\ Rest(s).temp = NoReading
      /\ Rest(s).fanStatus = Blank /\ Rest(s).fans = <<>>
  BY DEF Rest
<1>8. CASE IsNumber(s.uptime)
  <2> HIDE DEF l, st
  <2>1. PsusAfter(st, l) = NoPsus
    BY <1>1, <1>4, <1>6, KeepsNoPsus, Zenon DEF KeepsPsus
  <2>2. NumberOr(s.uptime, 0) = s.uptime
    BY <1>8, Zenon DEF NumberOr
  <2>3. DataAfter(st, l) = WithPsus(Rest(s), NoPsus)
    BY <1>2, <1>4, <1>5, <1>6, <1>7, <2>1, <2>2, Zenon DEF DataAfter, Given, WithPsus
  <2>4. OneStep(st, l, During(DataAfter(st, l), st.psuID, st.dividers))
    BY <1>2, <1>3, <1>6, <1>8, ParsedLine, Zenon
  <2> QED
    BY <1>1, <2>3, <2>4, Zenon DEF l, st
<1>9. CASE ~IsNumber(s.uptime)
  <2>1. NumberOr(s.uptime, 0) = 0
    BY <1>9, Zenon DEF NumberOr
  <2>2. WithPsus(Rest(s), NoPsus) = Identified(s)
    BY <1>7, <2>1, Zenon DEF WithPsus, Identified
  <2> HIDE DEF l, st
  <2>3. FullLine(st, l) = st
    BY <1>2, <1>3, <1>6, <1>9, Zenon DEF FullLine
  <2> QED
    BY <2>2, <2>3, Zenon DEF l, st, OneStep
<1> QED
  BY <1>8, <1>9

HeadText(s) == <<Line("identity", NoPsu, s.identity), Divider, Line("uptime", NoPsu, s.uptime), Divider>>
Adds(S, t, a, n, m, u) ==
    /\ u \in Seq(S) /\ Len(u) = m /\ u[m] = a
    /\ \A i \in 1..n : u[i] = t[i]
LEMMA OneMore ==
    ASSUME NEW S, NEW t \in Seq(S), NEW a \in S, NEW n \in Nat, Len(t) = n, NEW m, m = n + 1
    PROVE  Adds(S, t, a, n, m, t \o <<a>>)
BY DEF Adds
LEMMA FourLines ==
    ASSUME NEW S, NEW a \in S, NEW b \in S, NEW c \in S, NEW d \in S
    PROVE  (((<<>> \o <<a>>) \o <<b>>) \o <<c>>) \o <<d>> = <<a, b, c, d>>
<1> DEFINE t1 == <<>> \o <<a>>
           t2 == t1 \o <<b>>
           t3 == t2 \o <<c>>
           t4 == t3 \o <<d>>
<1>0. 1 \in Nat /\ 2 \in Nat /\ 3 \in Nat /\ 2 = 1 + 1 /\ 3 = 2 + 1 /\ 4 = 3 + 1
  OBVIOUS
<1>1. t1 \in Seq(S) /\ Len(t1) = 1 /\ t1[1] = a
  OBVIOUS
<1> HIDE DEF t1
<1>2. t2 \in Seq(S) /\ Len(t2) = 2 /\ t2[2] = b /\ \A i \in 1..1 : t2[i] = t1[i]
  <2>1. Adds(S, t1, b, 1, 2, t2)
    BY <1>0, <1>1, OneMore, Zenon
  <2> HIDE DEF t2
  <2> QED
    BY <2>1, Zenon DEF Adds
<1> HIDE DEF t2
<1>3. t3 \in Seq(S) /\ Len(t3) = 3 /\ t3[3] = c /\ \A i \in 1..2 : t3[i] = t2[i]
  <2>1. Adds(S, t2, c, 2, 3, t3)
    BY <1>0, <1>2, OneMore, Zenon
  <2> HIDE DEF t3
  <2> QED
    BY <2>1, Zenon DEF Adds
<1> HIDE DEF t3
<1>4. t4 \in Seq(S) /\ Len(t4) = 4 /\ t4[4] = d /\ \A i \in 1..3 : t4[i] = t3[i]
  <2>1. Adds(S, t3, d, 3, 4, t4)
    BY <1>0, <1>3, OneMore, Zenon
  <2> HIDE DEF t4
  <2> QED
    BY <2>1, Zenon DEF Adds
<1> HIDE DEF t4
<1>5. t4[1] = a /\ t4[2] = b /\ t4[3] = c
  BY <1>1, <1>2, <1>3, <1>4
<1>6. t4 = [i \in 1..4 |-> t4[i]]
  BY <1>4
<1>7. t4 = <<a, b, c, d>>
  BY ONLY <1>4, <1>5, <1>6
<1> QED
  BY <1>7 DEF t1, t2, t3, t4

LEMMA HeadLead ==
    ASSUME NEW s, NEW Ids, NEW Values, SwitchOf(s, Ids, Values)
    PROVE  /\ HeadText(s) \in Seq(LinesOf(Ids, Values))
           /\ Full!Leads(SwinfoStart, HeadText(s), AtPsu(s, Rest(s), 0))
<1> DEFINE S == LinesOf(Ids, Values)
           identity == Line("identity", NoPsu, s.identity)
           uptime == Line("uptime", NoPsu, s.uptime)
           x1 == During(Identified(s), NoPsu, 0)
           x2 == During(Identified(s), NoPsu, 1)
           x3 == During(WithPsus(Rest(s), NoPsus), NoPsu, 1)
           x4 == During(WithPsus(Rest(s), NoPsus), NoPsu, 2)
           t1 == <<>> \o <<identity>>
           t2 == t1 \o <<Divider>>
           t3 == t2 \o <<uptime>>
           t4 == t3 \o <<Divider>>
<1>1. identity \in S /\ uptime \in S /\ Divider \in S
  <2>1. s.identity \in Values /\ s.uptime \in Values
    BY SwitchFacts, Zenon
  <2> QED
    BY <2>1, LineOf, Zenon
<1>2. OneStep(SwinfoStart, identity, x1) /\ OneStep(x2, uptime, x3)
  BY IdentityLine, UptimeLine, Zenon
<1>3. OneStep(x1, Divider, x2)
  <2>1. Identified(s).failed = FALSE /\ 1 = 0 + 1
    BY DEF Identified
  <2> QED
    BY <2>1, DividerLine, Zenon
<1>4. OneStep(x3, Divider, x4)
  <2>1. WithPsus(Rest(s), NoPsus).failed = FALSE /\ 2 = 1 + 1
    BY DEF WithPsus
  <2> QED
    BY <2>1, DividerLine, Zenon
<1>5. x4 = AtPsu(s, Rest(s), 0)
  <2>1. ~GarbledTo(s, 0) /\ LastTold(s, 0) = NoPsu
    BY DEF GarbledTo, LastTold
  <2>2. PsusTo(s, 0) = NoPsus
    BY DEF PsusTo, NoPsus
  <2> QED
    BY <2>1, <2>2, Zenon DEF AtPsu, Unless, PsuSt
<1>6. t4 = HeadText(s)
  <2> HIDE DEF identity, uptime
  <2>1. t4 = <<identity, Divider, uptime, Divider>>
    BY <1>1, FourLines, Zenon
  <2> QED
    BY <2>1, Zenon DEF HeadText, identity, uptime
<1>7. <<>> \in Seq(S) /\ Full!Leads(SwinfoStart, <<>>, SwinfoStart)
  BY Full!LeadsNone
<1> HIDE DEF S, identity, uptime, x1, x2, x3, x4
<1>8. t1 \in Seq(S) /\ Full!Leads(SwinfoStart, t1, x1)
  BY <1>1, <1>2, <1>7, LeadsLine, Zenon
<1> HIDE DEF t1
<1>9. t2 \in Seq(S) /\ Full!Leads(SwinfoStart, t2, x2)
  BY <1>1, <1>3, <1>8, LeadsLine, Zenon
<1> HIDE DEF t2
<1>10. t3 \in Seq(S) /\ Full!Leads(SwinfoStart, t3, x3)
  BY <1>1, <1>2, <1>9, LeadsLine, Zenon
<1> HIDE DEF t3
<1>11. t4 \in Seq(S) /\ Full!Leads(SwinfoStart, t4, x4)
  BY <1>1, <1>4, <1>10, LeadsLine, Zenon
<1> HIDE DEF t4
<1> QED
  BY <1>5, <1>6, <1>11, Zenon DEF S

\* What a state after the section holds.
IsLater(st, s, temp, fanStatus, fans, d) ==
    /\ st.data.failed = FALSE /\ st.data.identity = s.identity /\ st.data.uptime = NumberOr(s.uptime, 0)
    /\ st.data.temp = temp /\ st.data.fanStatus = fanStatus /\ st.data.fans = fans
    /\ st.data.psus = AllPsus(s) /\ st.psuID = LastTold(s, Len(s.psus)) /\ st.dividers = d
LEMMA LaterIs ==
    ASSUME NEW s, NEW temp, NEW fanStatus, NEW fans, NEW d
    PROVE  IsLater(Later(s, temp, fanStatus, fans, d), s, temp, fanStatus, fans, d)
<1> DEFINE data == Gathered(s, temp, fanStatus, fans)
           st == Later(s, temp, fanStatus, fans, d)
<1>1. st.data = data /\ st.psuID = LastTold(s, Len(s.psus)) /\ st.dividers = d
  BY DEF Later, During
<1>2. /\ data.failed = FALSE /\ data.identity = s.identity /\ data.uptime = NumberOr(s.uptime, 0)
  BY DEF Gathered
<1>3. /\ data.temp = temp /\ data.fanStatus = fanStatus /\ data.fans = fans
      /\ data.psus = AllPsus(s)
  BY DEF Gathered
<1> HIDE DEF data, st
<1>4. st.data.failed = FALSE /\ st.data.identity = s.identity /\ st.data.uptime = NumberOr(s.uptime, 0)
  BY <1>1, <1>2
<1>5. IsLater(st, s, temp, fanStatus, fans, d)
  BY <1>1, <1>3, <1>4, Zenon DEF IsLater
<1> QED
  BY <1>5 DEF st

\* The record told last stays what it is, whatever line follows.
LEMMA LaterKeepsPsus ==
    ASSUME NEW s, NEW Ids, NEW Values, SwitchOf(s, Ids, Values), NEW st, NEW l, OtherLine(l),
           st.data.psus = AllPsus(s), st.psuID = LastTold(s, Len(s.psus))
    PROVE  KeepsPsus(st, l)
<1> DEFINE n == Len(s.psus)
           A == {s.psus[j].id : j \in 1..n}
           f == [id \in A |-> Recorded(PsuOf(s, id))]
<1>1. n \in Nat
  BY SwitchFacts
<1>2. l.key # "PSU status"
  BY DEF OtherLine
<1>3. CASE n = 0
  <2>1. st.psuID = NoPsu
    BY <1>3 DEF LastTold
  <2> QED
    BY <1>2, <2>1, KeepsNoPsus, Zenon
<1>4. CASE n # 0
  <2>1. n \in 1..n
    BY <1>1, <1>4
  <2>2. st.psuID = s.psus[n].id
    BY <1>4, Zenon DEF LastTold
  <2>3. st.psuID \in A
    BY <2>1, <2>2, Zenon
  <2>4. AllPsus(s) = f
    BY Zenon DEF AllPsus, PsusTo
  <2> HIDE DEF A
  <2>5. f = [x \in A |-> f[x]]
    OBVIOUS
  <2>6. f[st.psuID] = Recorded(PsuOf(s, st.psuID))
    BY <2>3, Zenon
  <2> HIDE DEF f
  <2>7. st.data.psus = [x \in A |-> f[x]]
    BY <2>4, <2>5, Zenon
  <2> QED
    BY <2>3, <2>6, <2>7, KeepsLastPsu, ZenonT(60)
<1> QED
  BY <1>3, <1>4

\* The temperature.
LEMMA TempLead ==
    ASSUME NEW s, NEW Ids, NEW Values, SwitchOf(s, Ids, Values)
    PROVE  Full!Leads(Later(s, NoReading, Blank, <<>>, 3), Unblank("temperature (C)", s.temp),
                      Unless(s.temp = Garbled, Later(s, OrNoReading(s.temp), Blank, <<>>, 3)))
<1> DEFINE l == Line("temperature (C)", NoPsu, s.temp)
           st == Later(s, NoReading, Blank, <<>>, 3)
           after == Unless(s.temp = Garbled, Later(s, OrNoReading(s.temp), Blank, <<>>, 3))
<1>1. l.key = "temperature (C)" /\ l.value = s.temp
  BY DEF Line
<1>2. s.temp = Blank => st = after
  BY ReadingAssumption, Zenon DEF Unless, OrNoReading
<1>3. IsLater(st, s, NoReading, Blank, <<>>, 3)
  BY LaterIs, Zenon
<1>4. ASSUME IsNumber(s.temp) PROVE OneStep(st, l, after)
  <2>1. after = Later(s, s.temp, Blank, <<>>, 3)
    <3>1. s.temp # Blank /\ s.temp # Garbled
      BY <1>4 DEF IsNumber
    <3> QED
      BY <3>1, Zenon DEF Unless, OrNoReading
  <2> HIDE DEF l, st
  <2>2. /\ l.key # "divider" /\ l.key # "PSU status" /\ l.key # "uptime" /\ l.key # "identity"
        /\ l.key # "fan rpm" /\ l.key # "fan status" /\ l.key # "power (W)"
    BY <1>1
  <2>3. ~FailsParse(l)
    BY <1>1, <1>4, <2>2, Zenon DEF FailsParse
  <2>4. OtherLine(l)
    BY <1>1, <2>2, <2>3 DEF OtherLine
  <2>5. /\ st.data.failed = FALSE /\ st.data.identity = s.identity /\ st.data.uptime = NumberOr(s.uptime, 0)
        /\ st.data.fanStatus = Blank /\ st.data.fans = <<>>
        /\ st.data.psus = AllPsus(s) /\ st.psuID = LastTold(s, Len(s.psus)) /\ st.dividers = 3
    BY <1>3, Zenon DEF IsLater
  <2>6. InPsuSection(st)
    BY ONLY <2>5 DEF InPsuSection
  <2>7. PsusAfter(st, l) = AllPsus(s)
    BY <2>4, <2>5, LaterKeepsPsus, Zenon DEF KeepsPsus
  <2>8. DataAfter(st, l) = Gathered(s, s.temp, Blank, <<>>)
    BY <1>1, <2>2, <2>5, <2>6, <2>7, Zenon DEF DataAfter, Given, Gathered
  <2>9. OneStep(st, l, During(DataAfter(st, l), st.psuID, st.dividers))
    BY <2>2, <2>3, <2>5, ParsedLine, Zenon
  <2> QED
    BY <2>1, <2>5, <2>8, <2>9, Zenon DEF Later
<1>5. ASSUME s.temp = Garbled PROVE OneStep(st, l, after)
  <2>1. FailsParse(l)
    BY <1>1, <1>5 DEF FailsParse, IsNumber
  <2>2. after = Stopped
    BY <1>5, Zenon DEF Unless
  <2> HIDE DEF l, st
  <2>3. FullLine(st, l) = Stopped
    BY <1>3, <2>1, FailingLine, Zenon DEF IsLater
  <2> QED
    BY <2>2, <2>3, Zenon DEF OneStep
<1>6. s.temp # Blank => IsNumber(s.temp) \/ s.temp = Garbled
  BY DEF IsNumber
<1> HIDE DEF after, st
<1> QED
  BY <1>2, <1>4, <1>5, <1>6, UnblankLeads, Zenon DEF st, after

\* A line read after the parse may have failed.
LEMMA UnlessLine ==
    ASSUME NEW a, NEW b, NEW st, NEW l, NEW after, OneStep(st, l, Unless(b, after))
    PROVE  OneStep(Unless(a, st), l, Unless(a \/ b, after))
<1>1. OneStep(Stopped, l, Stopped)
  BY DEF OneStep, FullLine, Stopped, During, Unparsed
<1> QED
  BY <1>1, Zenon DEF Unless

LEMMA LaterDivider ==
    ASSUME NEW a, NEW s, NEW temp, NEW fanStatus, NEW fans, NEW d, NEW e, e = d + 1
    PROVE  OneStep(Unless(a, Later(s, temp, fanStatus, fans, d)), Divider,
                   Unless(a, Later(s, temp, fanStatus, fans, e)))
<1> DEFINE before == Later(s, temp, fanStatus, fans, d)
           after == Later(s, temp, fanStatus, fans, e)
<1>1. OneStep(before, Divider, after)
  <2>1. Gathered(s, temp, fanStatus, fans).failed = FALSE
    BY DEF Gathered
  <2> QED
    BY <2>1, DividerLine, Zenon DEF Later
<1> HIDE DEF before, after
<1>2. OneStep(before, Divider, Unless(FALSE, after))
  BY <1>1, Zenon DEF Unless
<1>3. OneStep(Unless(a, before), Divider, Unless(a \/ FALSE, after))
  BY <1>2, UnlessLine, Zenon
<1>4. Unless(a \/ FALSE, after) = Unless(a, after)
  BY Zenon DEF Unless
<1> QED
  BY <1>3, <1>4, Zenon DEF before, after

\* The state the section of the power supplies ends in.
LEMMA SectionEnds ==
    ASSUME NEW s
    PROVE  AtPsu(s, Rest(s), Len(s.psus))
             = Unless(GarbledTo(s, Len(s.psus)), Later(s, NoReading, Blank, <<>>, 2))
<1>1. /\ Rest(s).identity = s.identity /\ Rest(s).uptime = NumberOr(s.uptime, 0) /\ Rest(s).temp = NoReading
      /\ Rest(s).fanStatus = Blank /\ Rest(s).fans = <<>>
  BY DEF Rest
<1>2. WithPsus(Rest(s), AllPsus(s)) = Gathered(s, NoReading, Blank, <<>>)
  BY <1>1, Zenon DEF WithPsus, Gathered
<1> QED
  BY <1>2, Zenon DEF AtPsu, AllPsus, PsuSt, Later

\* Past the temperature a line of the fans' status is the switch's own.
LEMMA FanStatusLine ==
    ASSUME NEW s, NEW temp
    PROVE  OneStep(Later(s, temp, Blank, <<>>, 4), Line("fan status", NoPsu, s.fanStatus),
                   Later(s, temp, s.fanStatus, <<>>, 4))
<1> DEFINE l == Line("fan status", NoPsu, s.fanStatus)
           st == Later(s, temp, Blank, <<>>, 4)
<1>1. l.key = "fan status" /\ l.value = s.fanStatus
  BY DEF Line
<1>2. IsLater(st, s, temp, Blank, <<>>, 4)
  BY LaterIs, Zenon
<1> HIDE DEF l, st
<1>3. /\ l.key # "divider" /\ l.key # "PSU status" /\ l.key # "uptime" /\ l.key # "identity"
      /\ l.key # "fan rpm" /\ l.key # "temperature (C)" /\ l.key # "power (W)"
  BY <1>1
<1>4. ~FailsParse(l)
  BY <1>3, Zenon DEF FailsParse
<1>5. /\ st.data.failed = FALSE /\ st.data.identity = s.identity /\ st.data.uptime = NumberOr(s.uptime, 0)
      /\ st.data.temp = temp /\ st.data.fans = <<>>
      /\ st.data.psus = AllPsus(s) /\ st.psuID = LastTold(s, Len(s.psus)) /\ st.dividers = 4
  BY <1>2, Zenon DEF IsLater
<1>6. ~InPsuSection(st)
  BY ONLY <1>5 DEF InPsuSection
<1>7. PsusAfter(st, l) = AllPsus(s)
  BY <1>3, <1>5, <1>6, KeepsNoPsus, Zenon DEF KeepsPsus
<1>8. DataAfter(st, l) = Gathered(s, temp, s.fanStatus, <<>>)
  BY <1>1, <1>3, <1>5, <1>6, <1>7, Zenon DEF DataAfter, Given, Gathered
<1>9. OneStep(st, l, During(DataAfter(st, l), st.psuID, st.dividers))
  BY <1>3, <1>4, <1>5, ParsedLine, Zenon
<1> QED
  BY <1>5, <1>8, <1>9, Zenon DEF Later, l, st

\* A fan's line adds its reading.
FanRead(id, rpm) == [id |-> id, rpm |-> OrNoReading(rpm)]
LEMMA FanLine ==
    ASSUME NEW s, NEW temp, NEW fans, NEW id, NEW rpm
    PROVE  OneStep(Later(s, temp, s.fanStatus, fans, 4), Line("fan rpm", id, rpm),
                   Unless(rpm = Garbled, Later(s, temp, s.fanStatus, Append(fans, FanRead(id, rpm)), 4)))
<1> DEFINE l == Line("fan rpm", id, rpm)
           st == Later(s, temp, s.fanStatus, fans, 4)
           after == Later(s, temp, s.fanStatus, Append(fans, FanRead(id, rpm)), 4)
<1>1. l.key = "fan rpm"
  BY DEF Line
<1>2. l.value = rpm
  BY DEF Line
<1>3. FanRead(l.id, l.value) = FanRead(id, rpm)
  BY DEF Line
<1>4. IsLater(st, s, temp, s.fanStatus, fans, 4)
  BY LaterIs, Zenon
<1>5. FanRead(l.id, l.value) = [id |-> l.id, rpm |-> OrNoReading(l.value)]
  BY Zenon DEF FanRead
<1> HIDE DEF l, st
<1>6. /\ st.data.failed = FALSE /\ st.data.identity = s.identity /\ st.data.uptime = NumberOr(s.uptime, 0)
      /\ st.data.temp = temp /\ st.data.fanStatus = s.fanStatus /\ st.data.fans = fans
      /\ st.data.psus = AllPsus(s) /\ st.psuID = LastTold(s, Len(s.psus)) /\ st.dividers = 4
  BY <1>4, Zenon DEF IsLater
<1>7. /\ l.key # "divider" /\ l.key # "PSU status" /\ l.key # "uptime" /\ l.key # "identity"
      /\ l.key # "fan status" /\ l.key # "temperature (C)" /\ l.key # "power (W)"
  BY <1>1
<1>8. CASE rpm = Garbled
  <2>1. FailsParse(l)
    BY <1>1, <1>2, <1>8, Zenon DEF FailsParse
  <2>2. FullLine(st, l) = Stopped
    BY <1>6, <2>1, FailingLine, Zenon
  <2> QED
    BY <1>8, <2>2, Zenon DEF OneStep, Unless, l, st
<1>9. CASE rpm # Garbled
  <2>1. ~FailsParse(l)
    BY <1>2, <1>7, <1>9, Zenon DEF FailsParse
  <2>2. ~InPsuSection(st)
    BY ONLY <1>6 DEF InPsuSection
  <2>3. PsusAfter(st, l) = AllPsus(s)
    BY <1>6, <1>7, <2>2, KeepsNoPsus, Zenon DEF KeepsPsus
  <2>4. DataAfter(st, l) = Gathered(s, temp, s.fanStatus, Append(fans, FanRead(id, rpm)))
    <3> DEFINE more == Append(fans, FanRead(id, rpm))
    <3>1. Append(st.data.fans, [id |-> l.id, rpm |-> OrNoReading(l.value)]) = more
      BY <1>3, <1>5, <1>6, Zenon
    <3> HIDE DEF more
    <3>2. DataAfter(st, l) = Gathered(s, temp, s.fanStatus, more)
      BY <1>1, <1>6, <1>7, <2>2, <2>3, <3>1, Zenon DEF DataAfter, Given, Gathered
    <3> QED
      BY <3>2, Zenon DEF more
  <2>5. OneStep(st, l, During(DataAfter(st, l), st.psuID, st.dividers))
    BY <1>6, <1>7, <2>1, ParsedLine, Zenon
  <2>6. OneStep(st, l, after)
    BY <1>6, <2>4, <2>5, Zenon DEF Later
  <2> QED
    BY <1>9, <2>6, Zenon DEF Unless, l, st
<1> QED
  BY <1>8, <1>9

\* The first i fans.
GarbledFanTo(s, i) == \E k \in 1..i : s.fans[k].rpm = Garbled
FansTo(s, i) == [k \in 1..i |-> FanRead(s.fans[k].id, s.fans[k].rpm)]
AtFan(s, a, temp, i) ==
    Unless(a \/ GarbledFanTo(s, i), Later(s, temp, s.fanStatus, FansTo(s, i), 4))

LEMMA FansToNext ==
    ASSUME NEW s, NEW i \in Nat, i > 0
    PROVE  /\ FansTo(s, i) = Append(FansTo(s, i - 1), FanRead(s.fans[i].id, s.fans[i].rpm))
           /\ GarbledFanTo(s, i) <=> GarbledFanTo(s, i - 1) \/ s.fans[i].rpm = Garbled
<1>1. 1..i = (1..(i - 1)) \cup {i} /\ i - 1 \in Nat /\ (i - 1) + 1 = i
  OBVIOUS
<1>2. GarbledFanTo(s, i) <=> GarbledFanTo(s, i - 1) \/ s.fans[i].rpm = Garbled
  BY <1>1, Zenon DEF GarbledFanTo
<1> DEFINE Fan(k) == FanRead(s.fans[k].id, s.fans[k].rpm)
           fans == FansTo(s, i - 1)
           m == i - 1
<1>3. fans = [k \in 1..m |-> Fan(k)] /\ FansTo(s, i) = [k \in 1..i |-> Fan(k)]
  BY DEF FansTo
<1>4. m \in Nat /\ m + 1 = i
  BY <1>1
<1> HIDE DEF Fan, fans, m
<1>5. \A k \in 1..m : fans[k] = Fan(k)
  BY <1>3
<1>6. fans = [k \in 1..m |-> fans[k]]
  BY <1>3
<1>7. Append(fans, Fan(i)) = [k \in 1..(m + 1) |-> IF k = m + 1 THEN Fan(i) ELSE fans[k]]
  BY <1>4, <1>6, AppendIs
<1>8. \A k \in 1..i : k # i => k \in 1..m
  BY <1>4
<1>9. [k \in 1..(m + 1) |-> IF k = m + 1 THEN Fan(i) ELSE fans[k]] = [k \in 1..i |-> Fan(k)]
  BY <1>4, <1>5, <1>8
<1>10. FansTo(s, i) = Append(fans, Fan(i))
  BY <1>3, <1>7, <1>9, Zenon
<1> QED
  BY <1>2, <1>10, Zenon DEF Fan, fans, m

LEMMA FansLead ==
    ASSUME NEW s, NEW Ids, NEW Values, SwitchOf(s, Ids, Values), NEW a, NEW temp
    PROVE  /\ FanSection(s) \in Seq(LinesOf(Ids, Values))
           /\ Full!Leads(AtFan(s, a, temp, 0), FanSection(s), AtFan(s, a, temp, Len(s.fans)))
<1> DEFINE n == Len(s.fans)
           S == LinesOf(Ids, Values)
           LineAt(i) == Line("fan rpm", s.fans[i].id, s.fans[i].rpm)
           lines == FanSection(s)
           run == [i \in 0..n |-> AtFan(s, a, temp, i)]
<1>1. n \in Nat /\ DOMAIN s.fans = 1..n
  BY SwitchFacts
<1>2. lines = [i \in 1..n |-> LineAt(i)]
  BY <1>1, Zenon DEF FanSection
<1>3. ASSUME NEW i \in 1..n PROVE LineAt(i) \in S
  <2>1. s.fans[i].id \in Ids \cup {NoPsu} /\ s.fans[i].rpm \in Values
    BY SwitchFacts
  <2> QED
    BY <2>1, LineOf, Zenon
<1>4. ASSUME NEW i \in 1..n PROVE OneStep(AtFan(s, a, temp, i - 1), LineAt(i), AtFan(s, a, temp, i))
  <2> DEFINE fan == s.fans[i]
             before == Later(s, temp, s.fanStatus, FansTo(s, i - 1), 4)
             after == Later(s, temp, s.fanStatus, FansTo(s, i), 4)
  <2>1. i \in Nat /\ i > 0
    BY <1>1
  <2>2. /\ FansTo(s, i) = Append(FansTo(s, i - 1), FanRead(fan.id, fan.rpm))
        /\ GarbledFanTo(s, i) <=> GarbledFanTo(s, i - 1) \/ fan.rpm = Garbled
    BY <2>1, FansToNext, Zenon
  <2>3. OneStep(before, LineAt(i), Unless(fan.rpm = Garbled, after))
    <3>1. OneStep(before, LineAt(i),
                  Unless(fan.rpm = Garbled,
                         Later(s, temp, s.fanStatus, Append(FansTo(s, i - 1), FanRead(fan.id, fan.rpm)), 4)))
      BY FanLine, Zenon
    <3> QED
      BY <2>2, <3>1, Zenon
  <2> HIDE DEF LineAt, before, after, fan
  <2>4. OneStep(Unless(a \/ GarbledFanTo(s, i - 1), before), LineAt(i),
                Unless((a \/ GarbledFanTo(s, i - 1)) \/ fan.rpm = Garbled, after))
    BY <2>3, UnlessLine, Zenon
  <2>5. Unless((a \/ GarbledFanTo(s, i - 1)) \/ fan.rpm = Garbled, after)
          = Unless(a \/ GarbledFanTo(s, i), after)
    BY <2>2, Zenon DEF Unless
  <2> QED
    BY <2>4, <2>5, Zenon DEF AtFan, before, after
<1>5. \A i \in 0..n : run[i] = AtFan(s, a, temp, i)
  OBVIOUS
<1>6. Len(lines) = n /\ lines \in Seq(S) /\ \A i \in 1..n : lines[i] = LineAt(i)
  <2> HIDE DEF lines, LineAt, S, n
  <2>1. lines \in [1..n -> S]
    BY <1>2, <1>3
  <2> QED
    BY <1>1, <1>2, <2>1
<1> HIDE DEF n, S, LineAt, lines, run
<1>7. \A i \in 1..n : i \in 0..n /\ i - 1 \in 0..n
  BY <1>1
<1>8. 0 \in 0..n /\ n \in 0..n
  BY <1>1
<1>9. \A i \in 1..n : run[i] = FullLine(run[i - 1], lines[i])
  BY <1>4, <1>5, <1>6, <1>7, Zenon DEF OneStep
<1>10. run[0] = AtFan(s, a, temp, 0) /\ run[n] = AtFan(s, a, temp, n)
  BY <1>5, <1>8, Zenon
<1>11. Full!Leads(AtFan(s, a, temp, 0), lines, AtFan(s, a, temp, n))
  BY <1>6, <1>9, <1>10, Zenon DEF Full!Leads
<1> QED
  BY <1>6, <1>11, Zenon DEF lines, n, S

LEMMA TwoLines == ASSUME NEW S, NEW a \in S, NEW b \in S PROVE <<a, b>> = (<<>> \o <<a>>) \o <<b>>
<1> DEFINE t1 == <<>> \o <<a>>
           t2 == t1 \o <<b>>
<1>1. t1 \in Seq(S) /\ Len(t1) = 1 /\ t1[1] = a
  OBVIOUS
<1> HIDE DEF t1
<1>2. t2 \in Seq(S) /\ Len(t2) = 2 /\ t2[2] = b /\ \A i \in 1..1 : t2[i] = t1[i]
  <2>0. 1 \in Nat /\ 2 = 1 + 1
    OBVIOUS
  <2>1. Adds(S, t1, b, 1, 2, t2)
    BY <1>1, <2>0, OneMore, Zenon
  <2> HIDE DEF t2
  <2> QED
    BY <2>1, Zenon DEF Adds
<1> HIDE DEF t2
<1>3. t2[1] = a /\ t2 = [i \in 1..2 |-> t2[i]]
  BY <1>1, <1>2
<1>4. t2 = <<a, b>>
  BY ONLY <1>2, <1>3
<1> QED
  BY <1>4 DEF t1, t2

\* The full output leads to what is published, unless a reading is garbled.
FullEnd(s) ==
    Unless(Spoiled(s), Later(s, OrNoReading(s.temp), s.fanStatus, FansTo(s, Len(s.fans)), 5))
LEMMA FullLead ==
    ASSUME NEW s, NEW Ids, NEW Values, SwitchOf(s, Ids, Values)
    PROVE  /\ FullOutput(s) \in Seq(LinesOf(Ids, Values))
           /\ Full!Leads(SwinfoStart, FullOutput(s), FullEnd(s))
<1> DEFINE S == LinesOf(Ids, Values)
           bad1 == GarbledTo(s, Len(s.psus))
           bad2 == bad1 \/ s.temp = Garbled
           temp == OrNoReading(s.temp)
           none == NoReading
           no == Blank
           is == s.fanStatus
           fans == FansTo(s, Len(s.fans))
           fanLine == Line("fan status", NoPsu, s.fanStatus)
           tempPart == Unblank("temperature (C)", s.temp)
           x1 == AtPsu(s, Rest(s), 0)
           x2 == Unless(bad1, Later(s, none, no, <<>>, 2))
           x3 == Unless(bad1, Later(s, none, no, <<>>, 3))
           x4 == Unless(bad2, Later(s, temp, no, <<>>, 3))
           x5 == Unless(bad2, Later(s, temp, no, <<>>, 4))
           x6 == Unless(bad2, Later(s, temp, is, <<>>, 4))
           x7 == AtFan(s, bad2, temp, Len(s.fans))
           t1 == HeadText(s)
           t2 == t1 \o PsuSection(s)
           t3 == t2 \o <<Divider>>
           t4 == t3 \o tempPart
           u1 == <<>> \o <<Divider>>
           u2 == u1 \o <<fanLine>>
           t6 == t4 \o u2
           t7 == t6 \o FanSection(s)
           t8 == t7 \o <<Divider>>
<1>1. Divider \in S /\ fanLine \in S /\ Line("temperature (C)", NoPsu, s.temp) \in S
  <2>1. s.temp \in Values /\ s.fanStatus \in Values
    BY SwitchFacts, Zenon
  <2> QED
    BY <2>1, LineOf, Zenon
<1>2. t1 \in Seq(S) /\ Full!Leads(SwinfoStart, t1, x1)
  BY HeadLead, Zenon
<1>3. PsuSection(s) \in Seq(S) /\ Full!Leads(x1, PsuSection(s), x2)
  BY SectionLead, SectionEnds, Zenon
<1>4. OneStep(x2, Divider, x3)
  <2>1. 3 = 2 + 1
    OBVIOUS
  <2> QED
    BY <2>1, LaterDivider, Zenon
<1>5. tempPart \in Seq(S) /\ Full!Leads(x3, tempPart, x4)
  <2>1. tempPart \in Seq(S)
    BY <1>1, UnblankLines, Zenon
  <2>2. Len(tempPart) \in Nat
    <3> HIDE DEF tempPart, S
    <3> QED
      BY <2>1
  <2> DEFINE before == Later(s, none, no, <<>>, 3)
             after == Later(s, temp, no, <<>>, 3)
  <2>3. Full!Leads(before, tempPart, Unless(s.temp = Garbled, after))
    BY TempLead, Zenon
  <2> HIDE DEF tempPart, before, after
  <2>4. Full!Leads(Unless(bad1, before), tempPart, Unless(bad1 \/ s.temp = Garbled, after))
    BY <2>2, <2>3, UnlessLeads, Zenon
  <2> QED
    BY <2>1, <2>4, Zenon DEF before, after
<1>6. OneStep(x4, Divider, x5)
  <2>1. 4 = 3 + 1
    OBVIOUS
  <2> QED
    BY <2>1, LaterDivider, Zenon
<1>7. OneStep(x5, fanLine, x6)
  <2> DEFINE before == Later(s, temp, no, <<>>, 4)
             after == Later(s, temp, is, <<>>, 4)
  <2>1. OneStep(before, fanLine, after)
    BY FanStatusLine, Zenon
  <2> HIDE DEF before, after, fanLine, bad2
  <2>2. OneStep(before, fanLine, Unless(FALSE, after))
    BY <2>1, Zenon DEF Unless
  <2>3. OneStep(Unless(bad2, before), fanLine, Unless(bad2 \/ FALSE, after))
    BY <2>2, UnlessLine, Zenon
  <2>4. Unless(bad2 \/ FALSE, after) = Unless(bad2, after)
    BY Zenon DEF Unless
  <2> QED
    BY <2>3, <2>4, Zenon DEF before, after
<1>8. FanSection(s) \in Seq(S) /\ Full!Leads(x6, FanSection(s), x7)
  <2>1. ~GarbledFanTo(s, 0) /\ FansTo(s, 0) = <<>>
    BY DEF GarbledFanTo, FansTo
  <2>2. x6 = AtFan(s, bad2, temp, 0)
    BY <2>1, Zenon DEF AtFan, Unless
  <2>3. FanSection(s) \in Seq(S)
    BY FansLead, Zenon
  <2>4. Full!Leads(AtFan(s, bad2, temp, 0), FanSection(s), x7)
    <3> HIDE DEF bad2, temp
    <3> QED
      BY FansLead, Zenon
  <2> QED
    BY <2>2, <2>3, <2>4, Zenon
<1>9. OneStep(x7, Divider, FullEnd(s))
  <2> DEFINE bad3 == bad2 \/ GarbledFanTo(s, Len(s.fans))
  <2>1. OneStep(Unless(bad3, Later(s, temp, is, fans, 4)), Divider, Unless(bad3, Later(s, temp, is, fans, 5)))
    <3>1. 5 = 4 + 1
      OBVIOUS
    <3> HIDE DEF bad3, temp, is, fans
    <3> QED
      BY <3>1, LaterDivider, Zenon
  <2>2. bad3 <=> Spoiled(s)
    <3>1. DOMAIN s.psus = 1..Len(s.psus) /\ DOMAIN s.fans = 1..Len(s.fans)
      BY SwitchFacts, Zenon
    <3> QED
      BY <3>1, Zenon DEF Spoiled, GarbledTo, GarbledFanTo
  <2>3. Unless(bad3, Later(s, temp, is, fans, 5)) = FullEnd(s)
    BY <2>2, Zenon DEF FullEnd, Unless
  <2>4. x7 = Unless(bad3, Later(s, temp, is, fans, 4))
    BY Zenon DEF AtFan
  <2> QED
    BY <2>1, <2>3, <2>4, Zenon
<1>10. t8 = FullOutput(s)
  <2>1. <<Divider, fanLine>> = u2
    BY <1>1, TwoLines, Zenon
  <2> HIDE DEF u2
  <2>2. tempPart = IF s.temp = Blank THEN <<>> ELSE <<Line("temperature (C)", NoPsu, s.temp)>>
    BY Zenon DEF Unblank
  <2> HIDE DEF tempPart
  <2>3. FullOutput(s) = HeadText(s) \o PsuSection(s) \o <<Divider>> \o tempPart \o <<Divider, fanLine>>
                        \o FanSection(s) \o <<Divider>>
    BY <2>2, Zenon DEF FullOutput, HeadText
  <2> QED
    BY <2>1, <2>3, Zenon
<1> HIDE DEF S, x1, x2, x3, x4, x5, x6, x7, fanLine, tempPart, t1
<1>11. t2 \in Seq(S) /\ Full!Leads(SwinfoStart, t2, x2)
  <2>1. t2 \in Seq(S)
    BY <1>2, <1>3
  <2> QED
    BY <1>2, <1>3, <2>1, Full!LeadsOn, Zenon
<1> HIDE DEF t2
<1>12. t3 \in Seq(S) /\ Full!Leads(SwinfoStart, t3, x3)
  BY <1>1, <1>4, <1>11, LeadsLine, Zenon
<1> HIDE DEF t3
<1>13. t4 \in Seq(S) /\ Full!Leads(SwinfoStart, t4, x4)
  <2>1. t4 \in Seq(S)
    BY <1>5, <1>12
  <2> QED
    BY <1>5, <1>12, <2>1, Full!LeadsOn, Zenon
<1> HIDE DEF t4
<1>14. u2 \in Seq(S) /\ Full!Leads(x4, u2, x6)
  <2>1. <<>> \in Seq(S) /\ Full!Leads(x4, <<>>, x4)
    BY Full!LeadsNone
  <2>2. u1 \in Seq(S) /\ Full!Leads(x4, u1, x5)
    BY <1>1, <1>6, <2>1, LeadsLine, Zenon
  <2> HIDE DEF u1
  <2> QED
    BY <1>1, <1>7, <2>2, LeadsLine, Zenon
<1> HIDE DEF u2
<1>15. t6 \in Seq(S) /\ Full!Leads(SwinfoStart, t6, x6)
  <2>1. t6 \in Seq(S)
    BY <1>13, <1>14
  <2> QED
    BY <1>13, <1>14, <2>1, Full!LeadsOn, Zenon
<1> HIDE DEF t6
<1>16. t7 \in Seq(S) /\ Full!Leads(SwinfoStart, t7, x7)
  <2>1. t7 \in Seq(S)
    BY <1>8, <1>15
  <2> QED
    BY <1>8, <1>15, <2>1, Full!LeadsOn, Zenon
<1> HIDE DEF t7
<1>17. t8 \in Seq(S) /\ Full!Leads(SwinfoStart, t8, FullEnd(s))
  BY <1>1, <1>9, <1>16, LeadsLine, Zenon
<1> HIDE DEF t8
<1> QED
  BY <1>10, <1>17, Zenon DEF S

\* What should be published is what the full output gathers.
LEMMA PublishedIs ==
    ASSUME NEW s, NEW Ids, NEW Values, SwitchOf(s, Ids, Values)
    PROVE  Published(s) = Gathered(s, OrNoReading(s.temp), s.fanStatus, FansTo(s, Len(s.fans)))
<1>1. DOMAIN s.psus = 1..Len(s.psus) /\ DOMAIN s.fans = 1..Len(s.fans)
  BY SwitchFacts, Zenon
<1>2. AllPsus(s) = [id \in {s.psus[i].id : i \in DOMAIN s.psus} |->
                      WithPower(PsuOf(s, id), OrNoReading(PsuOf(s, id).power))]
  BY <1>1, Zenon DEF AllPsus, PsusTo, Recorded
<1>3. FansTo(s, Len(s.fans)) = [i \in DOMAIN s.fans |->
                                  [id |-> s.fans[i].id, rpm |-> OrNoReading(s.fans[i].rpm)]]
  BY <1>1, Zenon DEF FansTo, FanRead
<1> QED
  BY <1>2, <1>3, Zenon DEF Published, Gathered

\* The full output of every switch whose power supplies have numbers of one digit
\* (SwitchOf) is read exactly, or not at all (parse_ibswinfo): however many power
\* supplies and fans it has, and whichever of their lines the script leaves out.
THEOREM EverySwitchIsExact ==
    ASSUME NEW s, NEW Ids, NEW Values, SwitchOf(s, Ids, Values)
    PROVE  FullExact(s)
<1> DEFINE end == FullEnd(s)
           later == Later(s, OrNoReading(s.temp), s.fanStatus, FansTo(s, Len(s.fans)), 5)
<1>1. Full!Read(FullOutput(s)) = end
  BY FullLead, Full!LeadsToRead, Zenon
<1>2. ParseFull(FullOutput(s)) = end.data
  BY <1>1, FullIsFold
<1>3. later.data = Published(s)
  BY PublishedIs DEF Later, During
<1>4. Stopped.data = Unparsed
  BY DEF Stopped, During
<1> HIDE DEF later
<1>5. end = IF Spoiled(s) THEN Stopped ELSE later
  BY Zenon DEF FullEnd, Unless, later
<1> HIDE DEF end
<1> QED
  BY <1>2, <1>3, <1>4, <1>5, Zenon DEF FullExact

-----------------------------------------------------------------------------
(* parseIbswinfoVitals, and the merge.                                     *)

\* What the short output has told.
Sensed(uptime, temp, psus, fans) ==
    [failed |-> FALSE, identity |-> Blank, uptime |-> uptime, temp |-> temp,
     fanStatus |-> Blank, psus |-> psus, fans |-> fans]
Powered(power) == WithPower(NewPsu, NumberOr(power, NoReading))
FanSensed(id, rpm) == [id |-> id, rpm |-> NumberOr(rpm, NoReading)]

\* Opaque forms of a data record's fields and of a step, for the provers.
IsSensed(data, uptime, temp, psus, fans) ==
    /\ data.identity = Blank /\ data.fanStatus = Blank
    /\ data.uptime = uptime /\ data.temp = temp /\ data.psus = psus /\ data.fans = fans
Senses(data, l, after) == VitalsLine(data, l) = after

LEMMA SensedIs ==
    ASSUME NEW uptime, NEW temp, NEW psus, NEW fans
    PROVE  IsSensed(Sensed(uptime, temp, psus, fans), uptime, temp, psus, fans)
<1> DEFINE data == Sensed(uptime, temp, psus, fans)
<1>1. data.identity = Blank /\ data.fanStatus = Blank /\ data.uptime = uptime
  BY DEF Sensed
<1>2. data.temp = temp /\ data.psus = psus /\ data.fans = fans
  BY DEF Sensed
<1> HIDE DEF data
<1>3. IsSensed(data, uptime, temp, psus, fans)
  BY <1>1, <1>2, Zenon DEF IsSensed
<1> QED
  BY <1>3 DEF data

LEMMA UptimeSensed ==
    ASSUME NEW uptime
    PROVE  Senses(NoData, Line("uptime", NoPsu, uptime), Sensed(NumberOr(uptime, 0), NoReading, NoPsus, <<>>))
<1> DEFINE l == Line("uptime", NoPsu, uptime)
           data == Sensed(0, NoReading, NoPsus, <<>>)
<1>1. l.key = "uptime" /\ l.value = uptime
  BY DEF Line
<1>2. l.key # "temperature (C)" /\ l.key # "power (W)" /\ l.key # "fan rpm"
  BY <1>1
<1>3. NoData = data
  BY DEF NoData, Sensed
<1>4. IsSensed(data, 0, NoReading, NoPsus, <<>>)
  BY SensedIs, Zenon
<1> HIDE DEF l, data
<1>5. VitalsLine(data, l) = Sensed(NumberOr(uptime, 0), NoReading, NoPsus, <<>>)
  BY <1>1, <1>2, <1>4, Zenon DEF IsSensed, VitalsLine, Sensed
<1> QED
  BY <1>3, <1>5, Zenon DEF l, Senses

LEMMA PowerSensed ==
    ASSUME NEW uptime, NEW temp, NEW psus, NEW id, NEW power
    PROVE  Senses(Sensed(uptime, temp, psus, <<>>), Line("power (W)", id, power),
                  Sensed(uptime, temp, Stored(psus, id, Powered(power)), <<>>))
<1> DEFINE l == Line("power (W)", id, power)
           data == Sensed(uptime, temp, psus, <<>>)
<1>1. l.key = "power (W)"
  BY DEF Line
<1>2. Stored(psus, l.id, WithPower(NewPsu, NumberOr(l.value, NoReading))) = Stored(psus, id, Powered(power))
  <2>1. l.id = id
    BY DEF Line
  <2>2. l.value = power
    BY DEF Line
  <2> HIDE DEF l
  <2> QED
    BY <2>1, <2>2, Zenon DEF Powered
<1>3. l.key # "temperature (C)" /\ l.key # "uptime" /\ l.key # "fan rpm"
  BY <1>1
<1>4. IsSensed(data, uptime, temp, psus, <<>>)
  BY SensedIs, Zenon
<1> DEFINE more == Stored(psus, id, Powered(power))
<1> HIDE DEF l, data
<1>5. Stored(data.psus, l.id, WithPower(NewPsu, NumberOr(l.value, NoReading))) = more
  BY <1>2, <1>4, Zenon DEF IsSensed
<1> HIDE DEF more
<1>6. VitalsLine(data, l) = Sensed(uptime, temp, more, <<>>)
  BY <1>1, <1>3, <1>4, <1>5, Zenon DEF IsSensed, VitalsLine, Sensed
<1> QED
  BY <1>6, Zenon DEF l, data, more, Senses

LEMMA TempSensed ==
    ASSUME NEW uptime, NEW psus, NEW temp
    PROVE  Senses(Sensed(uptime, NoReading, psus, <<>>), Line("temperature (C)", NoPsu, temp),
                  Sensed(uptime, NumberOr(temp, NoReading), psus, <<>>))
<1> DEFINE l == Line("temperature (C)", NoPsu, temp)
           data == Sensed(uptime, NoReading, psus, <<>>)
<1>1. l.key = "temperature (C)" /\ l.value = temp
  BY DEF Line
<1>2. l.key # "uptime" /\ l.key # "power (W)" /\ l.key # "fan rpm"
  BY <1>1
<1>3. IsSensed(data, uptime, NoReading, psus, <<>>)
  BY SensedIs, Zenon
<1> HIDE DEF l, data
<1>4. VitalsLine(data, l) = Sensed(uptime, NumberOr(temp, NoReading), psus, <<>>)
  BY <1>1, <1>2, <1>3, Zenon DEF IsSensed, VitalsLine, Sensed
<1> QED
  BY <1>4, Zenon DEF l, data, Senses

LEMMA FanIsSensed ==
    ASSUME NEW uptime, NEW temp, NEW psus, NEW fans, NEW id, NEW rpm
    PROVE  Senses(Sensed(uptime, temp, psus, fans), Line("fan rpm", id, rpm),
                  Sensed(uptime, temp, psus, Append(fans, FanSensed(id, rpm))))
<1> DEFINE l == Line("fan rpm", id, rpm)
           data == Sensed(uptime, temp, psus, fans)
<1>1. l.key = "fan rpm"
  BY DEF Line
<1>2. [id |-> l.id, rpm |-> NumberOr(l.value, NoReading)] = FanSensed(id, rpm)
  BY DEF Line, FanSensed
<1>3. l.key # "temperature (C)" /\ l.key # "uptime" /\ l.key # "power (W)"
  BY <1>1
<1>4. IsSensed(data, uptime, temp, psus, fans)
  BY SensedIs, Zenon
<1> DEFINE more == Append(fans, FanSensed(id, rpm))
<1> HIDE DEF l, data
<1>5. Append(data.fans, [id |-> l.id, rpm |-> NumberOr(l.value, NoReading)]) = more
  BY <1>2, <1>4, Zenon DEF IsSensed
<1> HIDE DEF more
<1>6. VitalsLine(data, l) = Sensed(uptime, temp, psus, more)
  BY <1>1, <1>3, <1>4, <1>5, Zenon DEF IsSensed, VitalsLine, Sensed
<1> QED
  BY <1>6, Zenon DEF l, data, more, Senses

\* The powers of the first i slots, and the first i fans.
PowersTo(s, i) == [id \in {s.psus[j].id : j \in 1..i} |-> Powered(PsuOf(s, id).power)]
FansSensedTo(s, i) == [k \in 1..i |-> FanSensed(s.fans[k].id, s.fans[k].rpm)]

LEMMA PowersToNext ==
    ASSUME NEW s, NEW Ids, NEW Values, SwitchOf(s, Ids, Values), NEW i \in 1..Len(s.psus)
    PROVE  PowersTo(s, i) = Stored(PowersTo(s, i - 1), s.psus[i].id, Powered(s.psus[i].power))
<1> DEFINE Id(j) == s.psus[j].id
           Rec(id) == Powered(PsuOf(s, id).power)
           A == {Id(j) : j \in 1..(i - 1)}
           B == {Id(j) : j \in 1..i}
<1>1. Len(s.psus) \in Nat
  BY SwitchFacts
<1>2. Rec(Id(i)) = Powered(s.psus[i].power)
  BY PsuOfIs, Zenon
<1>3. PowersTo(s, i) = [id \in B |-> Rec(id)] /\ PowersTo(s, i - 1) = [id \in A |-> Rec(id)]
  BY Zenon DEF PowersTo
<1>4. B = A \cup {Id(i)}
  <2> HIDE DEF Id
  <2>1. 1..i = (1..(i - 1)) \cup {i}
    BY <1>1
  <2> QED
    BY <2>1
<1> HIDE DEF A, B, Rec
<1>5. [id \in B |-> Rec(id)] = Stored([id \in A |-> Rec(id)], Id(i), Rec(Id(i)))
  <2> HIDE DEF Id
  <2> QED
    BY <1>4 DEF Stored
<1> QED
  BY <1>2, <1>3, <1>5, Zenon

LEMMA FansSensedToNext ==
    ASSUME NEW s, NEW i \in Nat, i > 0
    PROVE  FansSensedTo(s, i) = Append(FansSensedTo(s, i - 1), FanSensed(s.fans[i].id, s.fans[i].rpm))
<1> DEFINE Fan(k) == FanSensed(s.fans[k].id, s.fans[k].rpm)
           fans == FansSensedTo(s, i - 1)
           m == i - 1
<1>1. fans = [k \in 1..m |-> Fan(k)] /\ FansSensedTo(s, i) = [k \in 1..i |-> Fan(k)]
  BY DEF FansSensedTo
<1>2. m \in Nat /\ m + 1 = i
  OBVIOUS
<1> HIDE DEF Fan, fans, m
<1>3. \A k \in 1..m : fans[k] = Fan(k)
  BY <1>1
<1>4. fans = [k \in 1..m |-> fans[k]]
  BY <1>1
<1>5. Append(fans, Fan(i)) = [k \in 1..(m + 1) |-> IF k = m + 1 THEN Fan(i) ELSE fans[k]]
  BY <1>2, <1>4, AppendIs
<1>6. \A k \in 1..i : k # i => k \in 1..m
  BY <1>2
<1>7. [k \in 1..(m + 1) |-> IF k = m + 1 THEN Fan(i) ELSE fans[k]] = [k \in 1..i |-> Fan(k)]
  BY <1>2, <1>3, <1>6
<1>8. FansSensedTo(s, i) = Append(fans, Fan(i))
  BY <1>1, <1>5, <1>7, Zenon
<1> QED
  BY <1>8, Zenon DEF Fan, fans, m

\* Lines that take a state each take the first to the last.
LEMMA VitalsThrough ==
    ASSUME NEW S, NEW n \in Nat, NEW lines, lines = [i \in 1..n |-> lines[i]],
           NEW run,
           \A i \in 1..n : lines[i] \in S /\ Senses(run[i - 1], lines[i], run[i])
    PROVE  lines \in Seq(S) /\ Vitals!Leads(run[0], lines, run[n])
<1>1. lines \in [1..n -> S]
  OBVIOUS
<1>2. lines \in Seq(S) /\ Len(lines) = n
  BY <1>1
<1>3. \A i \in 1..n : run[i] = VitalsLine(run[i - 1], lines[i])
  BY Zenon DEF Senses
<1> QED
  BY <1>2, <1>3, Zenon DEF Vitals!Leads

LEMMA VitalsOneLine ==
    ASSUME NEW S, NEW text \in Seq(S), NEW l \in S, NEW a, NEW b, NEW c,
           Vitals!Leads(a, text, b), Senses(b, l, c)
    PROVE  text \o <<l>> \in Seq(S) /\ Vitals!Leads(a, text \o <<l>>, c)
<1>1. <<l>> \in Seq(S)
  BY OneLine, Zenon
<1>2. Vitals!Leads(b, <<l>>, VitalsLine(b, l))
  BY Vitals!LeadsOne, Zenon
<1>3. Vitals!Leads(b, <<l>>, c)
  BY <1>2, Zenon DEF Senses
<1>4. text \o <<l>> \in Seq(S)
  BY <1>1
<1>5. Vitals!Leads(a, text \o <<l>>, c)
  BY <1>1, <1>3, Vitals!LeadsOn, Zenon
<1> QED
  BY <1>4, <1>5, Zenon

\* What the short output of a switch tells; it never fails the parse.
VitalsEnd(s) ==
    Sensed(NumberOr(s.uptime, 0), NumberOr(s.temp, NoReading), PowersTo(s, Len(s.psus)),
           FansSensedTo(s, Len(s.fans)))
LEMMA VitalsLead ==
    ASSUME NEW s, NEW Ids, NEW Values, SwitchOf(s, Ids, Values)
    PROVE  /\ VitalsOutput(s) \in Seq(LinesOf(Ids, Values))
           /\ Vitals!Leads(NoData, VitalsOutput(s), VitalsEnd(s))
<1> DEFINE S == LinesOf(Ids, Values)
           m == Len(s.psus)
           n == Len(s.fans)
           uptimeLine == Line("uptime", NoPsu, s.uptime)
           tempLine == Line("temperature (C)", NoPsu, s.temp)
           PowerLine(i) == Line("power (W)", s.psus[i].id, s.psus[i].power)
           FanLineAt(i) == Line("fan rpm", s.fans[i].id, s.fans[i].rpm)
           powers == [i \in 1..m |-> PowerLine(i)]
           fans == [i \in 1..n |-> FanLineAt(i)]
           u == NumberOr(s.uptime, 0)
           t == NumberOr(s.temp, NoReading)
           PsuData(i) == Sensed(u, NoReading, PowersTo(s, i), <<>>)
           FanData(i) == Sensed(u, t, PowersTo(s, m), FansSensedTo(s, i))
           psuRun == [i \in 0..m |-> PsuData(i)]
           fanRun == [i \in 0..n |-> FanData(i)]
           t1 == <<>> \o <<uptimeLine>>
           t2 == t1 \o powers
           t3 == t2 \o <<tempLine>>
           t4 == t3 \o fans
<1>1. m \in Nat /\ n \in Nat /\ DOMAIN s.psus = 1..m /\ DOMAIN s.fans = 1..n
  BY SwitchFacts
<1>2. uptimeLine \in S /\ tempLine \in S
  <2>1. s.uptime \in Values /\ s.temp \in Values
    BY SwitchFacts, Zenon
  <2> QED
    BY <2>1, LineOf, Zenon
<1>3. ASSUME NEW i \in 1..m PROVE PowerLine(i) \in S /\ Senses(PsuData(i - 1), PowerLine(i), PsuData(i))
  <2>1. s.psus[i].id \in Ids \cup {NoPsu} /\ s.psus[i].power \in Values
    BY SwitchFacts
  <2>2. PowersTo(s, i) = Stored(PowersTo(s, i - 1), s.psus[i].id, Powered(s.psus[i].power))
    BY PowersToNext, Zenon
  <2>3. Senses(PsuData(i - 1), PowerLine(i),
               Sensed(u, NoReading, Stored(PowersTo(s, i - 1), s.psus[i].id, Powered(s.psus[i].power)), <<>>))
    BY PowerSensed, Zenon
  <2>4. Senses(PsuData(i - 1), PowerLine(i), PsuData(i))
    BY <2>2, <2>3, Zenon
  <2>5. PowerLine(i) \in S
    BY <2>1, LineOf, Zenon
  <2> QED
    BY <2>4, <2>5, Zenon
<1>4. ASSUME NEW i \in 1..n PROVE FanLineAt(i) \in S /\ Senses(FanData(i - 1), FanLineAt(i), FanData(i))
  <2>1. s.fans[i].id \in Ids \cup {NoPsu} /\ s.fans[i].rpm \in Values
    BY SwitchFacts
  <2>2. FansSensedTo(s, i) = Append(FansSensedTo(s, i - 1), FanSensed(s.fans[i].id, s.fans[i].rpm))
    <3>1. i \in Nat /\ i > 0
      BY <1>1
    <3> QED
      BY <3>1, FansSensedToNext, Zenon
  <2>3. Senses(FanData(i - 1), FanLineAt(i),
               Sensed(u, t, PowersTo(s, m), Append(FansSensedTo(s, i - 1), FanSensed(s.fans[i].id, s.fans[i].rpm))))
    BY FanIsSensed, Zenon
  <2>4. Senses(FanData(i - 1), FanLineAt(i), FanData(i))
    BY <2>2, <2>3, Zenon
  <2>5. FanLineAt(i) \in S
    BY <2>1, LineOf, Zenon
  <2> QED
    BY <2>4, <2>5, Zenon
<1>5. Senses(NoData, uptimeLine, PsuData(0))
  <2>1. PowersTo(s, 0) = NoPsus
    BY DEF PowersTo, NoPsus
  <2> QED
    BY <2>1, UptimeSensed, Zenon
<1>6. Senses(PsuData(m), tempLine, FanData(0))
  <2>1. FansSensedTo(s, 0) = <<>>
    BY DEF FansSensedTo
  <2> QED
    BY <2>1, TempSensed, Zenon
<1>7. t4 = VitalsOutput(s)
  <2>1. powers = [i \in DOMAIN s.psus |-> Line("power (W)", s.psus[i].id, s.psus[i].power)]
    BY <1>1, Zenon
  <2>2. fans = FanSection(s)
    BY <1>1, Zenon DEF FanSection
  <2>3. t1 = <<uptimeLine>>
    <3> HIDE DEF uptimeLine
    <3> QED
      OBVIOUS
  <2> HIDE DEF powers, fans, t1
  <2> QED
    BY <2>1, <2>2, <2>3, Zenon DEF VitalsOutput
<1>8. FanData(n) = VitalsEnd(s)
  BY Zenon DEF VitalsEnd
<1>9. \A i \in 0..m : psuRun[i] = PsuData(i)
  OBVIOUS
<1>10. \A i \in 0..n : fanRun[i] = FanData(i)
  OBVIOUS
<1>11. /\ powers = [i \in 1..m |-> powers[i]] /\ \A i \in 1..m : powers[i] = PowerLine(i)
       /\ fans = [i \in 1..n |-> fans[i]] /\ \A i \in 1..n : fans[i] = FanLineAt(i)
  <2> HIDE DEF PowerLine, FanLineAt, m, n
  <2> QED
    OBVIOUS
<1> HIDE DEF S, m, n, uptimeLine, tempLine, PowerLine, FanLineAt, powers, fans, PsuData, FanData, psuRun, fanRun
<1>12. /\ \A i \in 1..m : i \in 0..m /\ i - 1 \in 0..m
       /\ \A i \in 1..n : i \in 0..n /\ i - 1 \in 0..n
       /\ 0 \in 0..m /\ m \in 0..m /\ 0 \in 0..n /\ n \in 0..n
  BY <1>1
<1>13. powers \in Seq(S) /\ Vitals!Leads(PsuData(0), powers, PsuData(m))
  <2>1. \A i \in 1..m : powers[i] \in S /\ Senses(psuRun[i - 1], powers[i], psuRun[i])
    BY <1>3, <1>9, <1>11, <1>12, Zenon
  <2>2. powers \in Seq(S) /\ Vitals!Leads(psuRun[0], powers, psuRun[m])
    BY <1>1, <1>11, <2>1, VitalsThrough
  <2> QED
    BY <1>9, <1>12, <2>2, Zenon
<1>14. fans \in Seq(S) /\ Vitals!Leads(FanData(0), fans, FanData(n))
  <2>1. \A i \in 1..n : fans[i] \in S /\ Senses(fanRun[i - 1], fans[i], fanRun[i])
    BY <1>4, <1>10, <1>11, <1>12, Zenon
  <2>2. fans \in Seq(S) /\ Vitals!Leads(fanRun[0], fans, fanRun[n])
    BY <1>1, <1>11, <2>1, VitalsThrough
  <2> QED
    BY <1>10, <1>12, <2>2, Zenon
<1>15. t1 \in Seq(S) /\ Vitals!Leads(NoData, t1, PsuData(0))
  <2>1. <<>> \in Seq(S) /\ Vitals!Leads(NoData, <<>>, NoData)
    BY Vitals!LeadsNone
  <2> QED
    BY <1>2, <1>5, <2>1, VitalsOneLine, Zenon
<1> HIDE DEF t1
<1>16. t2 \in Seq(S) /\ Vitals!Leads(NoData, t2, PsuData(m))
  <2>1. t2 \in Seq(S)
    BY <1>13, <1>15
  <2> QED
    BY <1>13, <1>15, <2>1, Vitals!LeadsOn, Zenon
<1> HIDE DEF t2
<1>17. t3 \in Seq(S) /\ Vitals!Leads(NoData, t3, FanData(0))
  BY <1>2, <1>6, <1>16, VitalsOneLine, Zenon
<1> HIDE DEF t3
<1>18. t4 \in Seq(S) /\ Vitals!Leads(NoData, t4, FanData(n))
  <2>1. t4 \in Seq(S)
    BY <1>14, <1>17
  <2> QED
    BY <1>14, <1>17, <2>1, Vitals!LeadsOn, Zenon
<1> QED
  BY <1>7, <1>8, <1>18, Zenon DEF S

LEMMA VitalsRead ==
    ASSUME NEW s, NEW Ids, NEW Values, SwitchOf(s, Ids, Values)
    PROVE  ParseVitals(VitalsOutput(s)) = VitalsEnd(s)
<1>1. Vitals!Read(VitalsOutput(s)) = VitalsEnd(s)
  BY VitalsLead, Vitals!LeadsToRead, Zenon
<1> QED
  BY <1>1, VitalsIsFold

\* The same switch but for its readings.
Like(c, s) ==
    /\ c.identity = s.identity /\ c.uptime = s.uptime /\ c.fanStatus = s.fanStatus
    /\ Len(c.psus) = Len(s.psus) /\ Len(c.fans) = Len(s.fans)
    /\ \A i \in 1..Len(s.psus) :
         /\ c.psus[i].id = s.psus[i].id /\ c.psus[i].status = s.psus[i].status
         /\ c.psus[i].dc = s.psus[i].dc /\ c.psus[i].fan = s.psus[i].fan
    /\ \A i \in 1..Len(s.fans) : c.fans[i].id = s.fans[i].id
\* The readings of d are those of s, what does not parse left out.
SameReadings(d, s) ==
    /\ OrNoReading(d.temp) = NumberOr(s.temp, NoReading)
    /\ \A i \in 1..Len(s.psus) : OrNoReading(d.psus[i].power) = NumberOr(s.psus[i].power, NoReading)
    /\ \A i \in 1..Len(s.fans) : OrNoReading(d.fans[i].rpm) = NumberOr(s.fans[i].rpm, NoReading)

\* One power supply: its status of the entry, its power of the short output.
SamePsu(p, q, power) ==
    /\ p.status = q.status /\ p.dc = q.dc /\ p.fan = q.fan
    /\ OrNoReading(q.power) = NumberOr(power, NoReading)
LEMMA MergedPsu ==
    ASSUME NEW p, NEW q, NEW power, NEW x, NEW y, SamePsu(p, q, power)
    PROVE  WithPower(WithPower(WithPower(p, x), y), Powered(power).power) = Recorded(q)
<1>1. Powered(power).power = NumberOr(power, NoReading)
  BY DEF Powered, WithPower, Psu
<1>0. /\ p.status = q.status /\ p.dc = q.dc /\ p.fan = q.fan
      /\ OrNoReading(q.power) = NumberOr(power, NoReading)
  BY Zenon DEF SamePsu
<1>2. \A r, z : /\ WithPower(r, z).status = r.status /\ WithPower(r, z).dc = r.dc
                /\ WithPower(r, z).fan = r.fan
  BY DEF WithPower, Psu
<1> DEFINE r == WithPower(WithPower(p, x), y)
<1>3. r.status = q.status /\ r.dc = q.dc /\ r.fan = q.fan
  <2>1. r.status = q.status
    <3>1. r.status = WithPower(p, x).status /\ WithPower(p, x).status = p.status
      BY <1>2, Zenon
    <3> QED
      BY <1>0, <3>1, Zenon
  <2>2. r.dc = q.dc
    <3>1. r.dc = WithPower(p, x).dc /\ WithPower(p, x).dc = p.dc
      BY <1>2, Zenon
    <3> QED
      BY <1>0, <3>1, Zenon
  <2>3. r.fan = q.fan
    <3>1. r.fan = WithPower(p, x).fan /\ WithPower(p, x).fan = p.fan
      BY <1>2, Zenon
    <3> QED
      BY <1>0, <3>1, Zenon
  <2> QED
    BY <2>1, <2>2, <2>3, Zenon
<1> HIDE DEF r
<1>4. WithPower(r, Powered(power).power) = Recorded(q)
  BY <1>0, <1>1, <1>3, Zenon DEF WithPower, Recorded
<1> QED
  BY <1>4, Zenon DEF r

LEMMA LikePsus ==
    ASSUME NEW s, NEW c, NEW Ids, NEW Values, NEW Other, SwitchOf(s, Ids, Values), SwitchOf(c, Ids, Other),
           Like(c, s)
    PROVE  /\ {c.psus[j].id : j \in 1..Len(c.psus)} = {s.psus[j].id : j \in 1..Len(s.psus)}
           /\ \A i \in 1..Len(s.psus) : PsuOf(c, s.psus[i].id) = c.psus[i] /\ PsuOf(s, s.psus[i].id) = s.psus[i]
<1>1. Len(c.psus) = Len(s.psus) /\ \A i \in 1..Len(s.psus) : c.psus[i].id = s.psus[i].id
  BY Zenon DEF Like
<1>2. /\ \A i \in 1..Len(c.psus) : PsuOf(c, c.psus[i].id) = c.psus[i]
      /\ \A i \in 1..Len(s.psus) : PsuOf(s, s.psus[i].id) = s.psus[i]
  BY PsuOfIs, Zenon
<1> DEFINE n == Len(s.psus)
           CId(j) == c.psus[j].id
           SId(j) == s.psus[j].id
<1>3. {CId(j) : j \in 1..n} = {SId(j) : j \in 1..n}
  <2>1. \A j \in 1..n : CId(j) = SId(j)
    BY <1>1, Zenon
  <2> HIDE DEF CId, SId, n
  <2> QED
    BY <2>1
<1>4. {c.psus[j].id : j \in 1..Len(c.psus)} = {s.psus[j].id : j \in 1..Len(s.psus)}
  BY <1>1, <1>3, Zenon
<1>5. \A i \in 1..Len(s.psus) : PsuOf(c, s.psus[i].id) = c.psus[i] /\ PsuOf(s, s.psus[i].id) = s.psus[i]
  BY <1>1, <1>2, Zenon
<1> QED
  BY <1>4, <1>5, Zenon

\* A scrape with the short output of s publishes what d shows, when the cache was
\* filled from c and the three are one switch but for their readings.
LEMMA WarmIs ==
    ASSUME NEW s, NEW c, NEW d, NEW Ids, NEW Values, NEW OfC, NEW OfD,
           SwitchOf(s, Ids, Values), SwitchOf(c, Ids, OfC), SwitchOf(d, Ids, OfD),
           Like(c, s), Like(d, s), SameReadings(d, s)
    PROVE  Merged(ParseVitals(VitalsOutput(s)), EntryOf(Published(c))) = Published(d)
<1> DEFINE n == Len(s.psus)
           A == {s.psus[j].id : j \in 1..n}
           v == VitalsEnd(s)
           cold == Published(c)
           e == EntryOf(cold)
           fans == FansTo(d, Len(d.fans))
           temp == OrNoReading(d.temp)
<1>1. ParseVitals(VitalsOutput(s)) = v
  BY VitalsRead, Zenon
<1>2. /\ v.failed = FALSE /\ v.uptime = NumberOr(s.uptime, 0) /\ v.temp = NumberOr(s.temp, NoReading)
  BY DEF VitalsEnd, Sensed
<1>3. v.psus = PowersTo(s, n) /\ v.fans = FansSensedTo(s, Len(s.fans))
  BY DEF VitalsEnd, Sensed
<1>4. cold.identity = c.identity /\ cold.fanStatus = c.fanStatus /\ cold.psus = AllPsus(c)
  <2>1. cold = Gathered(c, OrNoReading(c.temp), c.fanStatus, FansTo(c, Len(c.fans)))
    BY PublishedIs, Zenon
  <2> HIDE DEF cold
  <2> QED
    BY <2>1 DEF Gathered
<1>5. /\ {c.psus[j].id : j \in 1..Len(c.psus)} = A /\ {d.psus[j].id : j \in 1..Len(d.psus)} = A
      /\ \A i \in 1..n : /\ PsuOf(c, s.psus[i].id) = c.psus[i] /\ PsuOf(d, s.psus[i].id) = d.psus[i]
                         /\ PsuOf(s, s.psus[i].id) = s.psus[i]
  <2>1. /\ {c.psus[j].id : j \in 1..Len(c.psus)} = A
        /\ \A i \in 1..n : PsuOf(c, s.psus[i].id) = c.psus[i] /\ PsuOf(s, s.psus[i].id) = s.psus[i]
    BY LikePsus, Zenon
  <2>2. /\ {d.psus[j].id : j \in 1..Len(d.psus)} = A
        /\ \A i \in 1..n : PsuOf(d, s.psus[i].id) = d.psus[i] /\ PsuOf(s, s.psus[i].id) = s.psus[i]
    BY LikePsus, Zenon
  <2> QED
    BY <2>1, <2>2, Zenon
<1>6. PowersTo(s, n) = [id \in A |-> Powered(PsuOf(s, id).power)]
  BY Zenon DEF PowersTo
<1>7. /\ AllPsus(c) = [id \in A |-> Recorded(PsuOf(c, id))]
      /\ AllPsus(d) = [id \in A |-> Recorded(PsuOf(d, id))]
  BY <1>5, Zenon DEF AllPsus, PsusTo
<1> DEFINE Entered(id) == WithPower(Recorded(PsuOf(c, id)), NoReading)
<1>8. e.identity = c.identity /\ e.fanStatus = c.fanStatus /\ e.psus = [id \in A |-> Entered(id)]
  <2> HIDE DEF cold, A
  <2>1. \A id \in A : WithPower(cold.psus[id], NoReading) = Entered(id)
    <3> HIDE DEF Entered
    <3>1. ASSUME NEW id \in A PROVE cold.psus[id] = Recorded(PsuOf(c, id))
      BY <1>4, <1>7
    <3> QED
      BY <3>1, Zenon DEF Entered
  <2>2. DOMAIN cold.psus = A
    BY <1>4, <1>7
  <2> DEFINE keep == [id \in DOMAIN cold.psus |-> WithPower(cold.psus[id], NoReading)]
  <2> HIDE DEF Entered
  <2>3. keep = [id \in A |-> Entered(id)]
    BY <2>1, <2>2, Zenon
  <2>4. e = [identity |-> cold.identity, fanStatus |-> cold.fanStatus, psus |-> keep]
    BY Zenon DEF EntryOf
  <2> HIDE DEF e, keep
  <2>5. e.identity = cold.identity /\ e.fanStatus = cold.fanStatus /\ e.psus = keep
    BY <2>4
  <2> QED
    BY <1>4, <2>3, <2>5, Zenon
<1>9. ASSUME NEW id \in A
      PROVE  WithPower(Entered(id), Powered(PsuOf(s, id).power).power) = Recorded(PsuOf(d, id))
  <2>1. PICK i \in 1..n : s.psus[i].id = id
    OBVIOUS
  <2>2. PsuOf(c, id) = c.psus[i] /\ PsuOf(d, id) = d.psus[i] /\ PsuOf(s, id) = s.psus[i]
    BY <1>5, <2>1, Zenon
  <2>3. /\ c.psus[i].status = d.psus[i].status /\ c.psus[i].dc = d.psus[i].dc
        /\ c.psus[i].fan = d.psus[i].fan
    BY Zenon DEF Like
  <2>4. OrNoReading(d.psus[i].power) = NumberOr(s.psus[i].power, NoReading)
    BY Zenon DEF SameReadings
  <2>5. WithPower(WithPower(WithPower(c.psus[i], OrNoReading(c.psus[i].power)), NoReading),
                  Powered(s.psus[i].power).power) = Recorded(d.psus[i])
    <3> DEFINE p == c.psus[i]
               q == d.psus[i]
               power == s.psus[i].power
               x == OrNoReading(p.power)
    <3>1. SamePsu(p, q, power)
      BY <2>3, <2>4, Zenon DEF SamePsu
    <3> HIDE DEF p, q, power, x
    <3>2. WithPower(WithPower(WithPower(p, x), NoReading), Powered(power).power) = Recorded(q)
      BY <3>1, MergedPsu
    <3> QED
      BY <3>2, Zenon DEF p, q, power, x
  <2> QED
    BY <2>2, <2>5, Zenon DEF Recorded
<1> DEFINE psus == [id \in DOMAIN v.psus |->
                      IF id \in DOMAIN e.psus THEN WithPower(e.psus[id], v.psus[id].power)
                      ELSE v.psus[id]]
<1>10. psus = AllPsus(d)
  <2> HIDE DEF v, e, A, Entered
  <2>1. DOMAIN v.psus = A /\ DOMAIN e.psus = A
    BY <1>3, <1>6, <1>8
  <2>2. ASSUME NEW id \in A PROVE WithPower(e.psus[id], v.psus[id].power) = Recorded(PsuOf(d, id))
    <3>1. e.psus[id] = Entered(id)
      BY <1>8
    <3>2. v.psus[id] = Powered(PsuOf(s, id).power)
      BY <1>3, <1>6
    <3> QED
      BY <1>9, <3>1, <3>2, Zenon
  <2>3. psus = [id \in A |-> Recorded(PsuOf(d, id))]
    BY <2>1, <2>2, Zenon
  <2> QED
    BY <1>7, <2>3, Zenon
<1>11. FansSensedTo(s, Len(s.fans)) = fans
  <2>1. Len(d.fans) = Len(s.fans)
    BY Zenon DEF Like
  <2>2. ASSUME NEW i \in 1..Len(s.fans)
        PROVE  FanSensed(s.fans[i].id, s.fans[i].rpm) = FanRead(d.fans[i].id, d.fans[i].rpm)
    <3>1. d.fans[i].id = s.fans[i].id
      BY Zenon DEF Like
    <3>2. OrNoReading(d.fans[i].rpm) = NumberOr(s.fans[i].rpm, NoReading)
      BY Zenon DEF SameReadings
    <3> QED
      BY <3>1, <3>2, Zenon DEF FanSensed, FanRead
  <2> QED
    BY <2>1, <2>2, Zenon DEF FansSensedTo, FansTo
<1>12. /\ s.identity = c.identity /\ s.identity = d.identity /\ s.uptime = d.uptime
       /\ s.fanStatus = c.fanStatus /\ s.fanStatus = d.fanStatus
       /\ NumberOr(s.temp, NoReading) = temp
  BY Zenon DEF Like, SameReadings
<1> HIDE DEF v, e, psus, fans, temp
<1>13. Merged(v, e) = Gathered(d, temp, d.fanStatus, fans)
  <2>1. v.failed = FALSE /\ e.identity = d.identity /\ v.uptime = NumberOr(d.uptime, 0)
    BY <1>2, <1>8, <1>12, Zenon
  <2>2. v.temp = temp /\ e.fanStatus = d.fanStatus /\ v.fans = fans
    BY <1>2, <1>3, <1>8, <1>11, <1>12, Zenon
  <2>3. Merged(v, e) = [failed |-> v.failed, identity |-> e.identity, uptime |-> v.uptime, temp |-> v.temp,
                        fanStatus |-> e.fanStatus, fans |-> v.fans, psus |-> psus]
    BY Zenon DEF Merged, psus
  <2>4. Gathered(d, temp, d.fanStatus, fans)
          = [failed |-> FALSE, identity |-> d.identity, uptime |-> NumberOr(d.uptime, 0), temp |-> temp,
             fanStatus |-> d.fanStatus, fans |-> fans, psus |-> AllPsus(d)]
    BY DEF Gathered
  <2> QED
    BY <1>10, <2>1, <2>2, <2>3, <2>4, Zenon
<1>14. Published(d) = Gathered(d, temp, d.fanStatus, fans)
  BY PublishedIs, Zenon DEF temp, fans
<1> QED
  BY <1>1, <1>13, <1>14, Zenon DEF v, e, cold

LEMMA NumbersAgree == \A x : x # Garbled => OrNoReading(x) = NumberOr(x, NoReading)
BY DEF OrNoReading, NumberOr, IsNumber

\* Of every such switch, while nothing changes the short output, merged with the
\* cached fields, is what the full output was (parseIbswinfoVitals, the merge of
\* warm entries).
THEOREM EveryWarmScrapeMatches ==
    ASSUME NEW s, NEW Ids, NEW Values, SwitchOf(s, Ids, Values)
    PROVE  WarmMatchesCold(s)
<1>1. ParseFull(FullOutput(s)) = IF Spoiled(s) THEN Unparsed ELSE Published(s)
  BY EverySwitchIsExact, Zenon DEF FullExact
<1>2. Unparsed.failed
  BY DEF Unparsed
<1>3. ASSUME ~Spoiled(s)
      PROVE  Merged(ParseVitals(VitalsOutput(s)), EntryOf(Published(s))) = Published(s)
  <2>1. Like(s, s)
    BY Zenon DEF Like
  <2>2. /\ s.temp # Garbled /\ \A i \in 1..Len(s.psus) : s.psus[i].power # Garbled
        /\ \A i \in 1..Len(s.fans) : s.fans[i].rpm # Garbled
    <3>1. DOMAIN s.psus = 1..Len(s.psus) /\ DOMAIN s.fans = 1..Len(s.fans)
      BY SwitchFacts, Zenon
    <3> QED
      BY <1>3, <3>1, Zenon DEF Spoiled
  <2>3. SameReadings(s, s)
    BY <2>2, NumbersAgree, Zenon DEF SameReadings
  <2> QED
    BY <2>1, <2>3, WarmIs, Zenon
<1> QED
  BY <1>1, <1>2, <1>3, Zenon DEF WarmMatchesCold

\* The switch with other readings.
Reading(s, temp, powers, rpms) ==
    [identity |-> s.identity, uptime |-> s.uptime, fanStatus |-> s.fanStatus, temp |-> temp,
     psus |-> [i \in DOMAIN s.psus |->
                 [id |-> s.psus[i].id, status |-> s.psus[i].status, dc |-> s.psus[i].dc,
                  fan |-> s.psus[i].fan, power |-> powers[i]]],
     fans |-> [i \in DOMAIN s.fans |-> [id |-> s.fans[i].id, rpm |-> rpms[i]]]]
ReadingsIn(s, Values, More, temp, powers, rpms) ==
    /\ Values \subseteq More /\ temp \in More
    /\ powers \in [1..Len(s.psus) -> More] /\ rpms \in [1..Len(s.fans) -> More]
Shows(d, s, temp, powers, rpms) ==
    /\ d.temp = temp
    /\ \A i \in 1..Len(s.psus) : d.psus[i].power = powers[i]
    /\ \A i \in 1..Len(s.fans) : d.fans[i].rpm = rpms[i]
LEMMA ReadingIs ==
    ASSUME NEW s, NEW Ids, NEW Values, SwitchOf(s, Ids, Values), NEW More, NEW temp, NEW powers, NEW rpms,
           ReadingsIn(s, Values, More, temp, powers, rpms), NEW d, d = Reading(s, temp, powers, rpms)
    PROVE  SwitchOf(d, Ids, More) /\ Like(d, s) /\ Shows(d, s, temp, powers, rpms)
<1> DEFINE m == Len(s.psus)
           n == Len(s.fans)
           PsuAt(i) == [id |-> s.psus[i].id, status |-> s.psus[i].status, dc |-> s.psus[i].dc,
                        fan |-> s.psus[i].fan, power |-> powers[i]]
           FanAt(i) == [id |-> s.fans[i].id, rpm |-> rpms[i]]
           psus == [i \in 1..m |-> PsuAt(i)]
           fans == [i \in 1..n |-> FanAt(i)]
<1>0. /\ Values \subseteq More /\ temp \in More
      /\ powers \in [1..m -> More] /\ rpms \in [1..n -> More]
  BY Zenon DEF ReadingsIn
<1>1. m \in Nat /\ n \in Nat /\ DOMAIN s.psus = 1..m /\ DOMAIN s.fans = 1..n
  BY SwitchFacts
<1>2. d = [identity |-> s.identity, uptime |-> s.uptime, fanStatus |-> s.fanStatus, temp |-> temp,
           psus |-> psus, fans |-> fans]
  BY <1>1, Zenon DEF Reading
<1>3. ASSUME NEW i \in 1..m
      PROVE  /\ PsuAt(i) \in PsuSet(Ids, More)
             /\ PsuAt(i).id = s.psus[i].id /\ PsuAt(i).status = s.psus[i].status /\ PsuAt(i).dc = s.psus[i].dc
             /\ PsuAt(i).fan = s.psus[i].fan /\ PsuAt(i).power = powers[i]
  <2>1. /\ s.psus[i].id \in Ids /\ s.psus[i].status \in More /\ s.psus[i].dc \in More
        /\ s.psus[i].fan \in More
    BY <1>0, SwitchFacts
  <2> QED
    BY <1>0, <2>1 DEF PsuSet
<1>4. ASSUME NEW i \in 1..n
      PROVE  FanAt(i) \in FanSet(Ids, More) /\ FanAt(i).id = s.fans[i].id /\ FanAt(i).rpm = rpms[i]
  <2>1. s.fans[i].id \in Ids
    BY SwitchFacts
  <2> QED
    BY <1>0, <2>1 DEF FanSet
<1>5. s.identity \in More /\ s.uptime \in More /\ s.fanStatus \in More
  BY <1>0, SwitchFacts
<1>6. /\ NoPsu \notin Ids /\ Numbered(s)
      /\ \A i, j \in 1..m : s.psus[i].id = s.psus[j].id => i = j
  BY Zenon DEF SwitchOf
<1>7. (\A i \in 1..m : psus[i] = PsuAt(i)) /\ (\A i \in 1..n : fans[i] = FanAt(i))
  <2> HIDE DEF PsuAt, FanAt, m, n
  <2> QED
    OBVIOUS
<1>8. psus \in Seq(PsuSet(Ids, More)) /\ Len(psus) = m /\ fans \in Seq(FanSet(Ids, More)) /\ Len(fans) = n
  <2> HIDE DEF PsuAt, FanAt, m, n
  <2>1. psus \in [1..m -> PsuSet(Ids, More)] /\ fans \in [1..n -> FanSet(Ids, More)]
    BY <1>3, <1>4
  <2> HIDE DEF psus, fans
  <2>2. psus \in Seq(PsuSet(Ids, More)) /\ Len(psus) = m
    BY <1>1, <2>1
  <2>3. fans \in Seq(FanSet(Ids, More)) /\ Len(fans) = n
    BY <1>1, <2>1
  <2> QED
    BY <2>2, <2>3, Zenon
<1> HIDE DEF PsuAt, FanAt, psus, fans
<1>9. d \in [identity : More, uptime : More, temp : More, fanStatus : More,
             psus : Seq(PsuSet(Ids, More)), fans : Seq(FanSet(Ids, More))]
  BY <1>0, <1>2, <1>5, <1>8
<1>10. /\ d.identity = s.identity /\ d.uptime = s.uptime /\ d.fanStatus = s.fanStatus /\ d.temp = temp
       /\ d.psus = psus /\ d.fans = fans
  BY <1>2
<1>11. /\ Len(d.psus) = m /\ Len(d.fans) = n
       /\ \A i \in 1..m : d.psus[i] = PsuAt(i)
       /\ \A i \in 1..n : d.fans[i] = FanAt(i)
  BY <1>7, <1>8, <1>10, Zenon
<1>12. \A i \in 1..m : /\ d.psus[i].id = s.psus[i].id /\ d.psus[i].status = s.psus[i].status
                       /\ d.psus[i].dc = s.psus[i].dc /\ d.psus[i].fan = s.psus[i].fan
                       /\ d.psus[i].power = powers[i]
  BY <1>3, <1>11, Zenon
<1>13. \A i \in 1..n : d.fans[i].id = s.fans[i].id /\ d.fans[i].rpm = rpms[i]
  BY <1>4, <1>11, Zenon
<1>14. SwitchOf(d, Ids, More)
  <2>1. ASSUME NEW i \in 1..m, NEW j \in 1..m, d.psus[i].id = d.psus[j].id PROVE i = j
    <3>1. s.psus[i].id = s.psus[j].id
      BY <1>12, <2>1
    <3> QED
      BY <1>6, <3>1
  <2>2. \A i, j \in 1..Len(d.psus) : d.psus[i].id = d.psus[j].id => i = j
    BY <1>11, <2>1
  <2>3. Numbered(d)
    <3>1. \A i \in 1..m : s.psus[i].id \in OneDigit
      BY <1>1, <1>6, Zenon DEF Numbered
    <3>2. DOMAIN d.psus = 1..m
      BY <1>8, <1>10
    <3> QED
      BY <1>12, <3>1, <3>2, Zenon DEF Numbered
  <2> QED
    BY <1>6, <1>9, <2>2, <2>3, Zenon DEF SwitchOf
<1>15. Like(d, s)
  BY <1>10, <1>11, <1>12, <1>13, Zenon DEF Like
<1>16. Shows(d, s, temp, powers, rpms)
  BY <1>10, <1>12, <1>13, Zenon DEF Shows
<1> QED
  BY <1>14, <1>15, <1>16, Zenon

\* A reading garbled after the cache was filled costs the scrape that reading
\* alone, on every such switch (parseIbswinfoVitals, the merge of warm entries).
THEOREM EveryWarmScrapeLosesOne ==
    ASSUME NEW s, NEW Ids, NEW Values, SwitchOf(s, Ids, Values)
    PROVE  WarmSpoilsOneReading(s)
<1> DEFINE m == Len(s.psus)
           n == Len(s.fans)
           Clean(x) == IF x = Garbled THEN Blank ELSE x
           c == AllRead(s)
           d == Degarbled(s)
           ones == [i \in 1..m |-> 1]
           fanOnes == [i \in 1..n |-> 1]
           powers == [i \in 1..m |-> Clean(s.psus[i].power)]
           rpms == [i \in 1..n |-> Clean(s.fans[i].rpm)]
           OfC == Values \cup {1}
           OfD == Values \cup {Blank}
<1>1. DOMAIN s.psus = 1..m /\ DOMAIN s.fans = 1..n
  BY SwitchFacts, Zenon
<1>2. c = Reading(s, 1, ones, fanOnes)
  BY <1>1, Zenon DEF AllRead, Reread, Reading
<1>3. d = Reading(s, Clean(s.temp), powers, rpms)
  BY <1>1, Zenon DEF Degarbled, Reread, Reading
<1>4. /\ SwitchOf(c, Ids, OfC) /\ Like(c, s) /\ c.temp = 1
      /\ \A i \in 1..m : c.psus[i].power = 1
      /\ \A i \in 1..n : c.fans[i].rpm = 1
  <2>1. ones \in [1..m -> OfC] /\ fanOnes \in [1..n -> OfC]
    OBVIOUS
  <2>2. Values \subseteq OfC /\ 1 \in OfC
    OBVIOUS
  <2>3. /\ \A i \in 1..m : ones[i] = 1
        /\ \A i \in 1..n : fanOnes[i] = 1
    OBVIOUS
  <2>4. ReadingsIn(s, Values, OfC, 1, ones, fanOnes)
    BY <2>1, <2>2, Zenon DEF ReadingsIn
  <2> HIDE DEF c, ones, fanOnes, OfC
  <2>5. SwitchOf(c, Ids, OfC) /\ Like(c, s) /\ Shows(c, s, 1, ones, fanOnes)
    BY <1>2, <2>4, ReadingIs, Zenon
  <2> QED
    BY <2>3, <2>5, Zenon DEF Shows
<1>5. /\ SwitchOf(d, Ids, OfD) /\ Like(d, s) /\ d.temp = Clean(s.temp)
      /\ \A i \in 1..m : d.psus[i].power = Clean(s.psus[i].power)
      /\ \A i \in 1..n : d.fans[i].rpm = Clean(s.fans[i].rpm)
  <2>1. powers \in [1..m -> OfD] /\ rpms \in [1..n -> OfD]
    <3>1. \A i \in 1..m : Clean(s.psus[i].power) \in OfD
      BY SwitchFacts, Zenon
    <3>2. \A i \in 1..n : Clean(s.fans[i].rpm) \in OfD
      BY SwitchFacts, Zenon
    <3> HIDE DEF OfD, Clean, m, n
    <3> QED
      BY <3>1, <3>2
  <2>2. Values \subseteq OfD /\ Clean(s.temp) \in OfD
    BY SwitchFacts, Zenon
  <2>3. /\ \A i \in 1..m : powers[i] = Clean(s.psus[i].power)
        /\ \A i \in 1..n : rpms[i] = Clean(s.fans[i].rpm)
    <3> HIDE DEF Clean
    <3> QED
      OBVIOUS
  <2>4. ReadingsIn(s, Values, OfD, Clean(s.temp), powers, rpms)
    BY <2>1, <2>2, Zenon DEF ReadingsIn
  <2> HIDE DEF d, powers, rpms, Clean, OfD
  <2>5. SwitchOf(d, Ids, OfD) /\ Like(d, s) /\ Shows(d, s, Clean(s.temp), powers, rpms)
    BY <1>3, <2>4, ReadingIs, Zenon
  <2> QED
    BY <2>3, <2>5, Zenon DEF Shows
<1>6. \A x : OrNoReading(Clean(x)) = NumberOr(x, NoReading)
  BY DEF OrNoReading, NumberOr, IsNumber
<1>7. SameReadings(d, s)
  <2> HIDE DEF d, Clean
  <2> QED
    BY <1>5, <1>6, Zenon DEF SameReadings
<1>8. ~Spoiled(c)
  <2>1. 1 # Garbled
    BY ReadingAssumption DEF IsNumber
  <2>2. /\ DOMAIN c.psus = 1..Len(c.psus) /\ DOMAIN c.fans = 1..Len(c.fans)
        /\ Len(c.psus) = m /\ Len(c.fans) = n
    BY <1>4, SwitchFacts, Zenon DEF Like
  <2> HIDE DEF c
  <2> QED
    BY <1>4, <2>1, <2>2, Zenon DEF Spoiled
<1> HIDE DEF c, d
<1>9. ParseFull(FullOutput(c)) = Published(c)
  BY <1>4, <1>8, EverySwitchIsExact, Zenon DEF FullExact
<1>10. Merged(ParseVitals(VitalsOutput(s)), EntryOf(Published(c))) = Published(d)
  BY <1>4, <1>5, <1>7, WarmIs, Zenon
<1> QED
  BY <1>9, <1>10, Zenon DEF WarmSpoilsOneReading, c, d

-----------------------------------------------------------------------------
(* The switches the runs pick.                                             *)

Picked == sw = NoSwitch \/ sw \in Switches

LEMMA PickedHolds == Spec => []Picked
<1>1. Init => Picked
  BY DEF Init, Picked
<1>2. Picked /\ [Next]_vars => Picked'
  <2> SUFFICES ASSUME Picked, [Next]_vars PROVE Picked'
    OBVIOUS
  <2>1. CASE ReadPerf
    BY <2>1 DEF Picked, ReadPerf
  <2>2. CASE ReadNet
    BY <2>2 DEF Picked, ReadNet
  <2>3. CASE PickSwitch
    BY <2>3 DEF Picked, PickSwitch
  <2>4. CASE UNCHANGED vars
    BY <2>4 DEF Picked, vars
  <2> QED
    BY <2>1, <2>2, <2>3, <2>4 DEF Next
<1> QED
  BY <1>1, <1>2, PTL DEF Spec

LEMMA ListsAreSeqs ==
    ASSUME NEW S, NEW a \in S, NEW b \in S, NEW c \in S
    PROVE  <<a>> \in Seq(S) /\ <<a, b>> \in Seq(S) /\ <<a, b, c>> \in Seq(S)
OBVIOUS

\* A list of power supplies that have a number each.
Listed(psus, S) ==
    /\ psus \in Seq(S)
    /\ \A i, j \in 1..Len(psus) : psus[i].id = psus[j].id => i = j
LEMMA PairListed ==
    ASSUME NEW S, NEW a \in S, NEW b \in S, a.id # b.id
    PROVE  Listed(<<a, b>>, S)
<1> DEFINE psus == <<a, b>>
<1>1. psus \in Seq(S)
  BY ListsAreSeqs, Zenon
<1>2. Len(psus) = 2 /\ psus[1] = a /\ psus[2] = b
  OBVIOUS
<1> HIDE DEF psus
<1>3. \A i \in 1..Len(psus) : i = 1 \/ i = 2
  BY <1>2
<1>4. Listed(psus, S)
  BY <1>1, <1>2, <1>3, Zenon DEF Listed
<1> QED
  BY <1>4 DEF psus
LEMMA TripleListed ==
    ASSUME NEW S, NEW a \in S, NEW b \in S, NEW c \in S, a.id # b.id, a.id # c.id, b.id # c.id
    PROVE  Listed(<<a, b, c>>, S)
<1> DEFINE psus == <<a, b, c>>
<1>1. psus \in Seq(S)
  BY ListsAreSeqs, Zenon
<1>2. Len(psus) = 3 /\ psus[1] = a /\ psus[2] = b /\ psus[3] = c
  OBVIOUS
<1> HIDE DEF psus
<1>3. \A i \in 1..Len(psus) : i = 1 \/ i = 2 \/ i = 3
  BY <1>2
<1>4. Listed(psus, S)
  BY <1>1, <1>2, <1>3, Zenon DEF Listed
<1> QED
  BY <1>4 DEF psus

\* Those whose numbers have one digit are switches the theorems speak about.
LEMMA PickedIsSwitch ==
    \E Ids, Values : \A s \in Switches : Numbered(s) => SwitchOf(s, Ids, Values)
<1> DEFINE Ids == {"0", "1", "10"}
           Statuses == {"OK", "ERROR", Blank}
           Numbers == {1, Garbled, Blank}
           Uptimes == {5, Garbled}
           Values == {"part", "OK"} \cup Statuses \cup Numbers \cup Uptimes
           S == PsuSet(Ids, Values)
           Shown(uptime, temp, psus, fan) ==
             [identity |-> "part", uptime |-> uptime, temp |-> temp, fanStatus |-> "OK",
              psus |-> psus, fans |-> <<fan>>]
<1>1. Statuses \subseteq Values /\ Numbers \subseteq Values /\ Uptimes \subseteq Values
      /\ "part" \in Values /\ "OK" \in Values /\ "ERROR" \in Values /\ Blank \in Values
      /\ 1 \in Values /\ Garbled \in Values
  BY Zenon
<1>2. \A id \in Ids : \A psu \in Psus(id) : psu \in S /\ psu.id = id
  <2> SUFFICES ASSUME NEW id \in Ids, NEW psu \in Psus(id) PROVE psu \in S /\ psu.id = id
    OBVIOUS
  <2> DEFINE Dcs == {"OK", Blank}
             FanStatuses == {"ERROR", Blank}
  <2>1. psu \in [id : {id}, status : Statuses, dc : Dcs, fan : FanStatuses, power : Numbers]
    BY Zenon DEF Psus
  <2>2. Dcs \subseteq Values /\ FanStatuses \subseteq Values
    BY <1>1
  <2> HIDE DEF Values, Statuses, Numbers, Dcs, FanStatuses, Ids
  <2> QED
    BY <1>1, <2>1, <2>2 DEF PsuSet
<1>3. \A fan \in Fans : fan \in FanSet(Ids, Values)
  <2> SUFFICES ASSUME NEW fan \in Fans PROVE fan \in FanSet(Ids, Values)
    OBVIOUS
  <2>1. fan \in [id : {"1"}, rpm : Numbers]
    BY Zenon DEF Fans
  <2>2. {"1"} \subseteq Ids
    BY Zenon
  <2> HIDE DEF Values, Numbers, Ids
  <2> QED
    BY <1>1, <2>1, <2>2 DEF FanSet
<1>4. \A wide \in WidePsus : wide \in S /\ wide.id = "10"
  <2> SUFFICES ASSUME NEW wide \in WidePsus PROVE wide \in S /\ wide.id = "10"
    OBVIOUS
  <2> DEFINE Dcs == {"OK", Blank}
             Powers == {1, Garbled}
  <2>1. wide \in [id : {"10"}, status : {"OK"}, dc : Dcs, fan : {"ERROR"}, power : Powers]
    BY Zenon DEF WidePsus
  <2>2. "10" \in Ids /\ Dcs \subseteq Values /\ Powers \subseteq Values
    BY <1>1
  <2> HIDE DEF Values, Dcs, Powers, Ids
  <2> QED
    BY <1>1, <2>1, <2>2 DEF PsuSet
<1>5. PlainPsu \in S /\ PlainPsu.id = "1"
  <2>1. "1" \in Ids
    BY Zenon
  <2> HIDE DEF Values, Ids
  <2> QED
    BY <1>1, <2>1 DEF PsuSet, PlainPsu
<1>6. "0" \in Ids /\ "1" \in Ids /\ "0" # "1" /\ "0" # "10" /\ "1" # "10"
  OBVIOUS
<1>7. ASSUME NEW psus \in PsuLists PROVE Listed(psus, S)
  <2> HIDE DEF S, Ids
  <2>1. ASSUME NEW psu0 \in Psus("0"), NEW psu1 \in Psus("1"), psus = <<psu0, psu1>>
        PROVE  Listed(psus, S)
    BY <1>2, <1>6, <2>1, PairListed, Zenon
  <2>2. ASSUME NEW psu0 \in Psus("0"), NEW wide \in WidePsus, psus = <<psu0, wide>>
        PROVE  Listed(psus, S)
    BY <1>2, <1>4, <1>6, <2>2, PairListed, Zenon
  <2>3. ASSUME NEW wide \in WidePsus, NEW psu1 \in Psus("1"), psus = <<wide, psu1>>
        PROVE  Listed(psus, S)
    BY <1>2, <1>4, <1>6, <2>3, PairListed, Zenon
  <2>4. ASSUME NEW psu0 \in Psus("0"), NEW wide \in WidePsus, psus = <<psu0, wide, PlainPsu>>
        PROVE  Listed(psus, S)
    BY <1>2, <1>4, <1>5, <1>6, <2>4, TripleListed, Zenon
  <2>5. psus \in Pairs \/ psus \in WideLast \/ psus \in WideFirst \/ psus \in WideBetween
    BY DEF PsuLists
  <2>6. CASE psus \in Pairs
    <3>1. PICK psu0 \in Psus("0"), psu1 \in Psus("1") : psus = <<psu0, psu1>>
      BY <2>6 DEF Pairs
    <3> QED
      BY <2>1, <3>1, Zenon
  <2>7. CASE psus \in WideLast
    <3>1. PICK psu0 \in Psus("0"), wide \in WidePsus : psus = <<psu0, wide>>
      BY <2>7 DEF WideLast
    <3> QED
      BY <2>2, <3>1, Zenon
  <2>8. CASE psus \in WideFirst
    <3>1. PICK wide \in WidePsus, psu1 \in Psus("1") : psus = <<wide, psu1>>
      BY <2>8 DEF WideFirst
    <3> QED
      BY <2>3, <3>1, Zenon
  <2>9. CASE psus \in WideBetween
    <3>1. PICK psu0 \in Psus("0"), wide \in WidePsus : psus = <<psu0, wide, PlainPsu>>
      BY <2>9 DEF WideBetween
    <3> QED
      BY <2>4, <3>1, Zenon
  <2> QED
    BY <2>5, <2>6, <2>7, <2>8, <2>9, Zenon
<1>8. ASSUME NEW s \in Switches
      PROVE  \E uptime \in Uptimes, temp \in Numbers, psus \in PsuLists, fan \in Fans :
               s = Shown(uptime, temp, psus, fan)
  <2>1. Switches = {Shown(uptime, temp, psus, fan) :
                      uptime \in Uptimes, temp \in Numbers, psus \in PsuLists, fan \in Fans}
    BY DEF Switches
  <2> HIDE DEF Shown, Uptimes, Numbers
  <2> QED
    BY <2>1
<1>9. NoPsu \notin Ids
  BY SlotAssumption, DigitsAssumption
<1> HIDE DEF Values, Statuses, Numbers, Uptimes, S, Ids
<1>10. ASSUME NEW s \in Switches, Numbered(s) PROVE SwitchOf(s, Ids, Values)
  <2>1. PICK uptime \in Uptimes, temp \in Numbers, psus \in PsuLists, fan \in Fans :
               s = Shown(uptime, temp, psus, fan)
    BY <1>8
  <2>2. Listed(psus, S)
    BY <1>7
  <2>3. fan \in FanSet(Ids, Values) /\ uptime \in Values /\ temp \in Values
    BY <1>1, <1>3
  <2> DEFINE fans == <<fan>>
  <2>4. psus \in Seq(S) /\ fans \in Seq(FanSet(Ids, Values))
    BY <2>2, <2>3, ListsAreSeqs, Zenon DEF Listed
  <2>5. s \in [identity : Values, uptime : Values, temp : Values, fanStatus : Values,
               psus : Seq(S), fans : Seq(FanSet(Ids, Values))]
    <3> HIDE DEF fans
    <3>1. s = [identity |-> "part", uptime |-> uptime, temp |-> temp, fanStatus |-> "OK",
               psus |-> psus, fans |-> fans]
      BY <2>1, Zenon DEF fans
    <3> QED
      BY <1>1, <2>3, <2>4, <3>1
  <2>6. s.psus = psus
    BY <2>1
  <2>7. \A i, j \in 1..Len(s.psus) : s.psus[i].id = s.psus[j].id => i = j
    BY <2>2, <2>6, Zenon DEF Listed
  <2> QED
    BY <1>9, <1>10, <2>5, <2>7, Zenon DEF SwitchOf, S
<1> QED
  BY <1>10

\* SwinfoExact: the full output of a picked switch whose power supplies have numbers
\* of one digit is read exactly, or fails as a whole.
THEOREM PickedIsExact == Spec => []SwinfoExact
<1>1. Picked => SwinfoExact
  BY PickedIsSwitch, EverySwitchIsExact, Zenon DEF Picked, SwinfoExact
<1> QED
  BY <1>1, PickedHolds, PTL

\* SwinfoWarmMatchesCold: of such a switch a scrape with the short output publishes
\* what the full one did.
THEOREM PickedMatches == Spec => []SwinfoWarmMatchesCold
<1>1. Picked => SwinfoWarmMatchesCold
  BY PickedIsSwitch, EveryWarmScrapeMatches, Zenon DEF Picked, SwinfoWarmMatchesCold
<1> QED
  BY <1>1, PickedHolds, PTL

\* SwinfoWarmSpoilsOne: of such a switch a garbled reading of the short output costs
\* that reading alone.
THEOREM PickedLosesOne == Spec => []SwinfoWarmSpoilsOne
<1>1. Picked => SwinfoWarmSpoilsOne
  BY PickedIsSwitch, EveryWarmScrapeLosesOne, Zenon DEF Picked, SwinfoWarmSpoilsOne
<1> QED
  BY <1>1, PickedHolds, PTL
=============================================================================
