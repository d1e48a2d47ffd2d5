------------------------------ MODULE LineFold ------------------------------
(***************************************************************************)
(* What FoldLeft computes, for any operator: a parser that folds a step    *)
(* over the lines of a text goes through one state per line.  A proof      *)
(* about a parser takes this module as an instance with the parser's own   *)
(* start and step, which is how a lemma gets an operator for a parameter.  *)
(***************************************************************************)
EXTENDS FoldTheorems, SequencesExt

CONSTANTS Start, Step(_, _)

Read(lines) == FoldLeft(Step, Start, lines)

\* run[i] is the state after i of the n lines.
IsRun(run, lines, n) ==
    /\ run[0] = Start
    /\ \A i \in 1..n : run[i] = Step(run[i - 1], lines[i])

\* MapThenFoldSet's local function: the state after the lines of a set of
\* positions, the last of them taken off first.
Iterates(g, lines, k) ==
    g = [T \in SUBSET (1..k) |->
           IF T = {} THEN Start ELSE Step(g[T \ {Max(T)}], lines[Max(T)])]

\* There is such a function, one line after the other.
LEMMA IterateExists ==
    ASSUME NEW lines, NEW n \in Nat
    PROVE  \E g : Iterates(g, lines, n)
<1> DEFINE N == {k \in Nat : \E g : Iterates(g, lines, k)}
<1>1. 0 \in N
  <2> DEFINE g == [T \in SUBSET (1..0) |-> Start]
  <2>1. \A T \in SUBSET (1..0) : T = {}
    OBVIOUS
  <2>2. Iterates(g, lines, 0)
    BY <2>1 DEF Iterates
  <2> QED
    BY <2>2
<1>2. ASSUME NEW k \in Nat, k \in N PROVE k + 1 \in N
  <2>1. PICK g : Iterates(g, lines, k)
    BY <1>2
  <2> DEFINE h == [T \in SUBSET (1..(k + 1)) |->
                     IF k + 1 \notin T THEN g[T] ELSE Step(g[T \ {k + 1}], lines[k + 1])]
  <2>2. ASSUME NEW T \in SUBSET (1..(k + 1))
        PROVE  h[T] = IF T = {} THEN Start ELSE Step(h[T \ {Max(T)}], lines[Max(T)])
    <3>1. CASE T = {}
      BY <2>1, <3>1 DEF Iterates
    <3>2. CASE T # {} /\ k + 1 \notin T
      <4>1. T \in SUBSET (1..k)
        BY <3>2
      <4>2. Max(T) \in T
        BY <3>2, <4>1, MaxIn
      <4> DEFINE U == T \ {Max(T)}
      <4>3. U \in SUBSET (1..k) /\ U \in SUBSET (1..(k + 1)) /\ k + 1 \notin U
        BY <3>2, <4>1
      <4>4. g[T] = Step(g[U], lines[Max(T)])
        BY <2>1, <3>2, <4>1 DEF Iterates
      <4>5. h[T] = g[T] /\ h[U] = g[U]
        BY <3>2, <4>3
      <4> HIDE DEF h
      <4> QED
        BY <3>2, <4>4, <4>5
    <3>3. CASE k + 1 \in T
      <4>1. Max(T) = k + 1
        BY <3>3, MaxIs
      <4> DEFINE U == T \ {k + 1}
      <4>2. U \in SUBSET (1..(k + 1)) /\ k + 1 \notin U
        BY <3>3
      <4>3. h[T] = Step(g[U], lines[k + 1]) /\ h[U] = g[U]
        BY <3>3, <4>2
      <4> HIDE DEF h
      <4> QED
        BY <3>3, <4>1, <4>3
    <3> QED
      BY <3>1, <3>2, <3>3
  <2>3. Iterates(h, lines, k + 1)
    <3>1. h = [T \in SUBSET (1..(k + 1)) |-> h[T]]
      OBVIOUS
    <3> HIDE DEF h
    <3> QED
      BY <2>2, <3>1 DEF Iterates
  <2> QED
    BY <2>3
<1>3. Nat \subseteq N
  <2> HIDE DEF N
  <2> QED
    BY <1>1, <1>2, NatSetInduction
<1> QED
  BY <1>3

\* Reading a text is taking the steps of its lines one by one.
LEMMA ReadIsRun ==
    ASSUME NEW lines, NEW n \in Nat, DOMAIN lines = 1..n
    PROVE  \E run : IsRun(run, lines, n) /\ Read(lines) = run[n]
<1> DEFINE iter == CHOOSE g : Iterates(g, lines, n)
           run == [i \in 0..n |-> iter[1..i]]
<1>1. Iterates(iter, lines, n)
  BY IterateExists
<1>2. Read(lines) = iter[1..n]
  BY DEF Read, FoldLeft, MapThenFoldSet, Iterates
<1> HIDE DEF iter
<1>3. run[0] = Start
  <2>1. 1..0 = {} /\ {} \in SUBSET (1..n)
    OBVIOUS
  <2>2. iter[{}] = Start
    BY <1>1, <2>1 DEF Iterates
  <2> QED
    BY <2>1, <2>2
<1>4. ASSUME NEW i \in 1..n PROVE run[i] = Step(run[i - 1], lines[i])
  <2> DEFINE T == 1..i
  <2>1. T \in SUBSET (1..n) /\ T # {} /\ i \in T /\ \A k \in T : k <= i
    OBVIOUS
  <2>2. Max(T) = i
    BY <2>1, MaxIs
  <2>3. T \ {i} = 1..(i - 1)
    OBVIOUS
  <2>4. iter[T] = Step(iter[T \ {Max(T)}], lines[Max(T)])
    BY <1>1, <2>1 DEF Iterates
  <2>5. iter[T] = Step(iter[1..(i - 1)], lines[i])
    BY <2>2, <2>3, <2>4, Zenon
  <2>6. run[i] = iter[T] /\ run[i - 1] = iter[1..(i - 1)]
    OBVIOUS
  <2> HIDE DEF run, T
  <2> QED
    BY <2>5, <2>6
<1>5. IsRun(run, lines, n) /\ Read(lines) = run[n]
  <2>1. run[n] = iter[1..n]
    OBVIOUS
  <2> HIDE DEF run
  <2> QED
    BY <1>2, <1>3, <1>4, <2>1 DEF IsRun
<1> QED
  BY <1>5
\* The lines take the state s to the state t.
Leads(s, lines, t) ==
    \E run : /\ run[0] = s /\ run[Len(lines)] = t
             /\ \A i \in 1..Len(lines) : run[i] = Step(run[i - 1], lines[i])

\* One line takes one step.
LEMMA LeadsOne == \A s, l : Leads(s, <<l>>, Step(s, l))
<1> SUFFICES ASSUME NEW s, NEW l PROVE Leads(s, <<l>>, Step(s, l))
  OBVIOUS
<1> DEFINE run == [i \in 0..1 |-> IF i = 0 THEN s ELSE Step(s, l)]
<1>1. Len(<<l>>) = 1 /\ <<l>>[1] = l /\ run[0] = s /\ run[1] = Step(s, l)
  OBVIOUS
<1>2. \A i \in 1..1 : run[i] = Step(run[i - 1], <<l>>[i])
  <2>1. \A i \in 1..1 : i = 1
    OBVIOUS
  <2> HIDE DEF run
  <2> QED
    BY <1>1, <2>1
<1> HIDE DEF run
<1> QED
  BY <1>1, <1>2 DEF Leads

\* No line takes none.
LEMMA LeadsNone == \A s : Leads(s, <<>>, s)
<1> SUFFICES ASSUME NEW s PROVE Leads(s, <<>>, s)
  OBVIOUS
<1> DEFINE run == [i \in 0..0 |-> s]
<1>1. Len(<<>>) = 0 /\ run[0] = s /\ \A i \in 1..0 : FALSE
  OBVIOUS
<1> HIDE DEF run
<1> QED
  BY <1>1 DEF Leads

\* A text read after another starts where that one ended.
LEMMA LeadsOn ==
    ASSUME NEW S, NEW a \in Seq(S), NEW b \in Seq(S), NEW s, NEW t, NEW u,
           Leads(s, a, t), Leads(t, b, u)
    PROVE  Leads(s, a \o b, u)
<1> DEFINE m == Len(a)
           n == Len(b)
<1>1. m \in Nat /\ n \in Nat /\ Len(a \o b) = m + n
  OBVIOUS
<1>2. PICK f : /\ f[0] = s /\ f[m] = t
               /\ \A i \in 1..m : f[i] = Step(f[i - 1], a[i])
  BY DEF Leads
<1>3. PICK g : /\ g[0] = t /\ g[n] = u
               /\ \A i \in 1..n : g[i] = Step(g[i - 1], b[i])
  BY DEF Leads
<1> DEFINE run == [i \in 0..(m + n) |-> IF i <= m THEN f[i] ELSE g[i - m]]
<1>4. /\ \A i \in 1..m : (a \o b)[i] = a[i]
      /\ \A i \in (m + 1)..(m + n) : (a \o b)[i] = b[i - m]
  OBVIOUS
<1> HIDE DEF m, n
<1>5. /\ \A i \in 0..m : run[i] = f[i]
      /\ \A i \in m..(m + n) : run[i] = g[i - m]
  <2>1. \A i \in 0..m : run[i] = f[i]
    BY <1>1
  <2>2. \A i \in (m + 1)..(m + n) : run[i] = g[i - m]
    BY <1>1
  <2>3. run[m] = g[m - m]
    BY <1>1, <1>2, <1>3
  <2>4. \A i \in m..(m + n) : i = m \/ i \in (m + 1)..(m + n)
    BY <1>1
  <2> HIDE DEF run
  <2> QED
    BY <2>1, <2>2, <2>3, <2>4, Zenon
<1> HIDE DEF run
<1>6. ASSUME NEW i \in 1..(m + n) PROVE run[i] = Step(run[i - 1], (a \o b)[i])
  <2>1. CASE i <= m
    <3>1. i \in 1..m /\ i \in 0..m /\ i - 1 \in 0..m
      BY <1>1, <2>1
    <3> QED
      BY <1>2, <1>4, <1>5, <3>1
  <2>2. CASE m < i
    <3>1. /\ i \in (m + 1)..(m + n) /\ i \in m..(m + n) /\ i - 1 \in m..(m + n)
          /\ i - m \in 1..n /\ (i - 1) - m = (i - m) - 1
      BY <1>1, <2>2
    <3> QED
      BY <1>3, <1>4, <1>5, <3>1
  <2> QED
    BY <1>1, <2>1, <2>2
<1>7. run[0] = s /\ run[m + n] = u
  <2>1. 0 \in 0..m /\ m + n \in m..(m + n) /\ (m + n) - m = n
    BY <1>1
  <2> QED
    BY <1>2, <1>3, <1>5, <2>1
<1> QED
  BY <1>1, <1>6, <1>7 DEF Leads

\* The texts one after the other: flat[i] is the first i of them.
LEMMA LeadsThrough ==
    ASSUME NEW S, NEW n \in Nat, NEW texts, NEW flat, NEW state,
           flat[0] = <<>>,
           \A i \in 1..n : texts[i] \in Seq(S) /\ flat[i] = flat[i - 1] \o texts[i],
           \A i \in 1..n : Leads(state[i - 1], texts[i], state[i])
    PROVE  flat[n] \in Seq(S) /\ Leads(state[0], flat[n], state[n])
<1> DEFINE N == {k \in Nat : k <= n => flat[k] \in Seq(S) /\ Leads(state[0], flat[k], state[k])}
<1>1. 0 \in N
  <2>1. <<>> \in Seq(S)
    OBVIOUS
  <2> QED
    BY <2>1, LeadsNone
<1>2. ASSUME NEW k \in Nat, k \in N PROVE k + 1 \in N
  <2> SUFFICES ASSUME k + 1 <= n
               PROVE  flat[k + 1] \in Seq(S) /\ Leads(state[0], flat[k + 1], state[k + 1])
    OBVIOUS
  <2>1. k + 1 \in 1..n /\ k <= n /\ (k + 1) - 1 = k
    OBVIOUS
  <2>2. flat[k] \in Seq(S) /\ Leads(state[0], flat[k], state[k])
    BY <1>2, <2>1
  <2>3. /\ texts[k + 1] \in Seq(S) /\ flat[k + 1] = flat[k] \o texts[k + 1]
        /\ Leads(state[k], texts[k + 1], state[k + 1])
    BY <2>1
  <2> QED
    BY <2>2, <2>3, LeadsOn
<1>3. Nat \subseteq N
  <2> HIDE DEF N
  <2> QED
    BY <1>1, <1>2, NatSetInduction
<1> QED
  BY <1>3

\* The state a text leads to is the one that reading it gives.
LEMMA LeadsToRead ==
    ASSUME NEW S, NEW lines \in Seq(S), NEW t, Leads(Start, lines, t)
    PROVE  Read(lines) = t
<1> DEFINE n == Len(lines)
<1>1. n \in Nat /\ DOMAIN lines = 1..n
  OBVIOUS
<1>2. PICK run : IsRun(run, lines, n) /\ Read(lines) = run[n]
  BY <1>1, ReadIsRun
<1>3. PICK f : /\ f[0] = Start /\ f[n] = t
               /\ \A i \in 1..n : f[i] = Step(f[i - 1], lines[i])
  BY DEF Leads
<1> HIDE DEF n
<1> DEFINE N == {k \in Nat : k <= n => f[k] = run[k]}
<1>4. 0 \in N
  BY <1>2, <1>3 DEF IsRun
<1>5. ASSUME NEW k \in Nat, k \in N PROVE k + 1 \in N
  <2>1. CASE k + 1 <= n
    <3>1. k + 1 \in 1..n /\ k <= n /\ (k + 1) - 1 = k
      BY <1>1, <2>1
    <3> QED
      BY <1>2, <1>3, <1>5, <3>1 DEF IsRun
  <2> QED
    BY <2>1
<1>6. Nat \subseteq N
  <2> HIDE DEF N
  <2> QED
    BY <1>4, <1>5, NatSetInduction
<1> QED
  BY <1>1, <1>2, <1>3, <1>6
=============================================================================
