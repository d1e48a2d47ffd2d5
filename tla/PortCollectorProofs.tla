------------------------- MODULE PortCollectorProofs -------------------------
(***************************************************************************)
(* Proofs about PortCollector, for every number of devices, ports, scrapes *)
(* and every value of the flags.                                           *)
(*                                                                         *)
(* The token in limit is sent by the dispatcher and taken back by the      *)
(* worker, so neither the bound on running processes nor the range of      *)
(* limit is inductive by itself.  The strengthening relates both counters  *)
(* to the sets of workers they stand for (TokenInv, GroupInv) and the      *)
(* loop index to the workers it has launched (LaunchInv).                  *)
(***************************************************************************)
EXTENDS PortCollector, FoldTheorems, FiniteSetTheorems, TLAPS

\* limit holds one token per worker between launch and its deferred receive,
\* and one more while the dispatcher has sent it but not launched yet.
TokenInv ==
    \A s \in Scrapes :
        limit[s] = Cardinality(At(s, Holding)) + (IF disp[s] = "launch" THEN 1 ELSE 0)

\* The wait group counts the workers between launch and wg.Done().
GroupInv == \A s \in Scrapes : wg[s] = Cardinality(At(s, Live))

\* The workers of the devices before the loop index, and only those, have been
\* launched; a dispatcher about to launch has a device to launch for.
LaunchInv ==
    \A s \in Scrapes :
        /\ \A d \in Devices : pc[s][d] = "idle" <=> next[s] <= d
        /\ disp[s] = "launch" => next[s] <= N

\* After wg.Wait() the loop is over and the wait group stays at zero.
ReturnInv == \A s \in Scrapes : Returned(s) => next[s] = N + 1 /\ wg[s] = 0

IInv == PoolTypeOK /\ TokenInv /\ GroupInv /\ LaunchInv /\ ReturnInv

-----------------------------------------------------------------------------
(* Counting the workers at a set of labels.                                *)

Where(f, L) == {d \in Devices : f[d] \in L}

\* The set of workers at some labels is finite, and no larger than N.
LEMMA WhereFinite ==
    ASSUME NEW f, NEW L
    PROVE  /\ IsFiniteSet(Where(f, L))
           /\ Cardinality(Where(f, L)) \in Nat
           /\ Cardinality(Where(f, L)) <= N
<1>1. IsFiniteSet(Devices) /\ Cardinality(Devices) = N
  BY CountsAssumption, FS_Interval DEF Devices
<1>2. Where(f, L) \subseteq Devices
  BY DEF Where
<1> QED
  BY <1>1, <1>2, FS_Subset, FS_CardinalityType

\* When one worker moves to another label, the number of workers at labels L
\* changes by whether it entered or left L.
LEMMA MoveCount ==
    ASSUME NEW f \in [Devices -> WorkerPCs], NEW d \in Devices, NEW l \in WorkerPCs, NEW L,
           NEW g, g = [f EXCEPT ![d] = l]
    PROVE  /\ (f[d] \in L <=> l \in L) => Cardinality(Where(g, L)) = Cardinality(Where(f, L))
           /\ (f[d] \notin L /\ l \in L) => Cardinality(Where(g, L)) = Cardinality(Where(f, L)) + 1
           /\ (f[d] \in L /\ l \notin L) => Cardinality(Where(g, L)) = Cardinality(Where(f, L)) - 1
<1>0. IsFiniteSet(Where(f, L))
  BY WhereFinite
<1>1. ASSUME f[d] \in L <=> l \in L
      PROVE  Where(g, L) = Where(f, L)
  BY <1>1 DEF Where
<1>2. ASSUME f[d] \notin L, l \in L
      PROVE  Cardinality(Where(g, L)) = Cardinality(Where(f, L)) + 1
  <2>1. Where(g, L) = Where(f, L) \cup {d} /\ d \notin Where(f, L)
    BY <1>2 DEF Where
  <2> QED
    BY <1>0, <2>1, FS_AddElement
<1>3. ASSUME f[d] \in L, l \notin L
      PROVE  Cardinality(Where(g, L)) = Cardinality(Where(f, L)) - 1
  <2>1. Where(g, L) = Where(f, L) \ {d} /\ d \in Where(f, L)
    BY <1>3 DEF Where
  <2> QED
    BY <1>0, <2>1, FS_RemoveElement
<1> QED
  BY <1>1, <1>2, <1>3

LEMMA AtIsWhere == \A s, L : At(s, L) = Where(pc[s], L)
BY DEF At, Where

-----------------------------------------------------------------------------
(* The worker's moves, seen from the control part of the invariant.        *)

ControlInv == TokenInv /\ GroupInv /\ LaunchInv /\ ReturnInv

\* A worker step that neither takes the token back nor signals leaves the
\* control invariant alone.
LEMMA StayLive ==
    ASSUME PoolTypeOK, ControlInv, NEW s \in Scrapes, NEW d \in Devices, NEW l \in Holding,
           pc[s][d] \in Holding, Goto(s, d, l), UNCHANGED <<disp, next, limit, wg>>
    PROVE  ControlInv'
<1>1. pc[s] \in [Devices -> WorkerPCs] /\ l \in WorkerPCs
  BY DEF PoolTypeOK, Holding
<1>2. \A t \in Scrapes : t # s => pc'[t] = pc[t]
  BY DEF PoolTypeOK, Goto
<1>3. pc'[s] = [pc[s] EXCEPT ![d] = l]
  BY DEF PoolTypeOK, Goto
<1>4. /\ Cardinality(Where(pc'[s], Holding)) = Cardinality(Where(pc[s], Holding))
      /\ Cardinality(Where(pc'[s], Live)) = Cardinality(Where(pc[s], Live))
  BY <1>1, <1>3, MoveCount DEF Live
<1>5. TokenInv' /\ GroupInv'
  <2>1. \A t \in Scrapes : /\ Cardinality(At(t, Holding))' = Cardinality(At(t, Holding))
                           /\ Cardinality(At(t, Live))' = Cardinality(At(t, Live))
    BY <1>2, <1>4 DEF At, Where
  <2> QED
    BY <2>1 DEF ControlInv, TokenInv, GroupInv
<1>6. LaunchInv' /\ ReturnInv'
  BY <1>1, <1>2, <1>3 DEF ControlInv, LaunchInv, ReturnInv, Returned, Holding
<1> QED
  BY <1>5, <1>6 DEF ControlInv

\* The deferred receive takes exactly this worker's token.
LEMMA ReleaseControl ==
    ASSUME PoolTypeOK, ControlInv, NEW s \in Scrapes, NEW d \in Devices, Release(s, d)
    PROVE  ControlInv' /\ limit'[s] \in Nat
<1>1. pc[s] \in [Devices -> WorkerPCs] /\ pc[s][d] = "release"
  BY DEF PoolTypeOK, Release
<1>2. \A t \in Scrapes : t # s => pc'[t] = pc[t] /\ limit'[t] = limit[t]
  BY DEF PoolTypeOK, Goto, Release
<1>3. pc'[s] = [pc[s] EXCEPT ![d] = "signal"] /\ limit'[s] = limit[s] - 1
  BY DEF PoolTypeOK, Goto, Release
<1>4. /\ Cardinality(Where(pc'[s], Holding)) = Cardinality(Where(pc[s], Holding)) - 1
      /\ Cardinality(Where(pc'[s], Live)) = Cardinality(Where(pc[s], Live))
  BY <1>1, <1>3, MoveCount DEF Live, Holding, WorkerPCs
<1>5. UNCHANGED <<disp, next, wg>>
  BY DEF Release
<1>6. /\ Cardinality(Where(pc[s], Holding)) \in Nat
      /\ Cardinality(Where(pc'[s], Holding)) \in Nat
  BY WhereFinite
<1>7. GroupInv'
  BY <1>2, <1>3, <1>4, <1>5 DEF ControlInv, GroupInv, At, Where
<1>a. TokenInv'
  <2> SUFFICES ASSUME NEW t \in Scrapes
               PROVE  limit'[t] = Cardinality(Where(pc'[t], Holding))
                                    + (IF disp'[t] = "launch" THEN 1 ELSE 0)
    BY DEF TokenInv, At, Where
  <2>1. limit[t] = Cardinality(Where(pc[t], Holding)) + (IF disp[t] = "launch" THEN 1 ELSE 0)
    BY DEF ControlInv, TokenInv, At, Where
  <2>2. disp'[t] = disp[t]
    BY <1>5
  <2>3. CASE t = s
    BY <1>3, <1>4, <1>6, <2>1, <2>2, <2>3
  <2>4. CASE t # s
    BY <1>2, <2>1, <2>2, <2>4
  <2> QED
    BY <2>3, <2>4
<1>8. LaunchInv' /\ ReturnInv'
  BY <1>1, <1>2, <1>3, <1>5 DEF ControlInv, LaunchInv, ReturnInv, Returned
<1>9. limit'[s] \in Nat
  <2>1. limit'[s] = Cardinality(Where(pc'[s], Holding)) + (IF disp'[s] = "launch" THEN 1 ELSE 0)
    BY <1>a DEF TokenInv, At, Where
  <2> QED
    BY <1>6, <2>1
<1> QED
  BY <1>7, <1>8, <1>9, <1>a DEF ControlInv

\* wg.Done() is matched by this worker's wg.Add(1).
LEMMA SignalControl ==
    ASSUME PoolTypeOK, ControlInv, NEW s \in Scrapes, NEW d \in Devices, Signal(s, d)
    PROVE  ControlInv' /\ wg'[s] \in Nat
<1>1. pc[s] \in [Devices -> WorkerPCs] /\ pc[s][d] = "signal"
  BY DEF PoolTypeOK, Signal
<1>2. \A t \in Scrapes : t # s => pc'[t] = pc[t] /\ wg'[t] = wg[t]
  BY DEF PoolTypeOK, Goto, Signal
<1>3. pc'[s] = [pc[s] EXCEPT ![d] = "done"] /\ wg'[s] = wg[s] - 1
  BY DEF PoolTypeOK, Goto, Signal
<1>4. /\ Cardinality(Where(pc'[s], Holding)) = Cardinality(Where(pc[s], Holding))
      /\ Cardinality(Where(pc'[s], Live)) = Cardinality(Where(pc[s], Live)) - 1
  BY <1>1, <1>3, MoveCount DEF Live, Holding, WorkerPCs
<1>5. UNCHANGED <<disp, next, limit>>
  BY DEF Signal
<1>6. /\ Cardinality(Where(pc[s], Live)) \in Nat
      /\ Cardinality(Where(pc'[s], Live)) \in Nat
  BY WhereFinite
<1>7. TokenInv'
  <2> SUFFICES ASSUME NEW t \in Scrapes
               PROVE  limit'[t] = Cardinality(Where(pc'[t], Holding))
                                    + (IF disp'[t] = "launch" THEN 1 ELSE 0)
    BY DEF TokenInv, At, Where
  <2>1. limit[t] = Cardinality(Where(pc[t], Holding)) + (IF disp[t] = "launch" THEN 1 ELSE 0)
    BY DEF ControlInv, TokenInv, At, Where
  <2>2. Cardinality(Where(pc'[t], Holding)) = Cardinality(Where(pc[t], Holding))
    BY <1>2, <1>4
  <2> QED
    BY <1>5, <2>1, <2>2
<1>a. GroupInv'
  <2> SUFFICES ASSUME NEW t \in Scrapes
               PROVE  wg'[t] = Cardinality(Where(pc'[t], Live))
    BY DEF GroupInv, At, Where
  <2>1. wg[t] = Cardinality(Where(pc[t], Live))
    BY DEF ControlInv, GroupInv, At, Where
  <2>2. CASE t = s
    BY <1>3, <1>4, <1>6, <2>1, <2>2
  <2>3. CASE t # s
    BY <1>2, <2>1, <2>3
  <2> QED
    BY <2>2, <2>3
<1>8. wg'[s] \in Nat /\ wg[s] # 0
  <2>1. wg'[s] = Cardinality(Where(pc'[s], Live)) /\ wg[s] = Cardinality(Where(pc[s], Live))
    BY <1>a DEF ControlInv, GroupInv, At, Where
  <2> QED
    BY <1>4, <1>6, <2>1
<1>9. LaunchInv' /\ ReturnInv'
  BY <1>1, <1>2, <1>3, <1>5, <1>8 DEF ControlInv, LaunchInv, ReturnInv, Returned
<1> QED
  BY <1>7, <1>8, <1>9, <1>a DEF ControlInv

-----------------------------------------------------------------------------
(* The dispatcher's moves.                                                 *)

\* The token is sent before the worker exists.
LEMMA AcquireControl ==
    ASSUME PoolTypeOK, ControlInv, NEW s \in Scrapes, Acquire(s)
    PROVE  ControlInv'
<1>1. /\ disp[s] = "loop" /\ next[s] <= N
      /\ limit' = [limit EXCEPT ![s] = @ + 1]
      /\ disp' = [disp EXCEPT ![s] = "launch"]
      /\ UNCHANGED <<next, wg, pc>>
  BY DEF Acquire
<1>2. TokenInv'
  <2> SUFFICES ASSUME NEW t \in Scrapes
               PROVE  limit'[t] = Cardinality(Where(pc[t], Holding))
                                    + (IF disp'[t] = "launch" THEN 1 ELSE 0)
    BY <1>1 DEF TokenInv, At, Where
  <2>1. limit[t] = Cardinality(Where(pc[t], Holding)) + (IF disp[t] = "launch" THEN 1 ELSE 0)
    BY DEF ControlInv, TokenInv, At, Where
  <2>2. Cardinality(Where(pc[t], Holding)) \in Nat
    BY WhereFinite
  <2>3. CASE t = s
    BY <1>1, <2>1, <2>2, <2>3 DEF PoolTypeOK
  <2>4. CASE t # s
    BY <1>1, <2>1, <2>4 DEF PoolTypeOK
  <2> QED
    BY <2>3, <2>4
<1>3. GroupInv'
  BY <1>1 DEF ControlInv, GroupInv, At
<1>4. LaunchInv' /\ ReturnInv'
  BY <1>1 DEF ControlInv, LaunchInv, ReturnInv, Returned, PoolTypeOK
<1> QED
  BY <1>2, <1>3, <1>4 DEF ControlInv

\* The launched worker is the one at the loop index; the dispatcher's token
\* becomes the worker's.
LEMMA LaunchControl ==
    ASSUME PoolTypeOK, ControlInv, NEW s \in Scrapes, Launch(s)
    PROVE  ControlInv' /\ next[s] \in Devices
<1>1. /\ disp[s] = "launch"
      /\ wg' = [wg EXCEPT ![s] = @ + 1]
      /\ pc' = [pc EXCEPT ![s][next[s]] = "exec"]
      /\ next' = [next EXCEPT ![s] = @ + 1]
      /\ disp' = [disp EXCEPT ![s] = "loop"]
      /\ UNCHANGED limit
  BY DEF Launch
<1>2. next[s] \in Devices
  BY <1>1, CountsAssumption DEF ControlInv, LaunchInv, PoolTypeOK, Devices
<1>3. pc[s] \in [Devices -> WorkerPCs] /\ pc[s][next[s]] = "idle"
  BY <1>2, CountsAssumption DEF ControlInv, LaunchInv, PoolTypeOK, Devices
<1>4. pc'[s] = [pc[s] EXCEPT ![next[s]] = "exec"]
  BY <1>1 DEF PoolTypeOK
<1>5. \A t \in Scrapes : t # s => pc'[t] = pc[t] /\ disp'[t] = disp[t] /\ wg'[t] = wg[t] /\ next'[t] = next[t]
  BY <1>1 DEF PoolTypeOK
<1>6. /\ Cardinality(Where(pc'[s], Holding)) = Cardinality(Where(pc[s], Holding)) + 1
      /\ Cardinality(Where(pc'[s], Live)) = Cardinality(Where(pc[s], Live)) + 1
  BY <1>2, <1>3, <1>4, MoveCount DEF Live, Holding, WorkerPCs
<1>7. TokenInv'
  <2> SUFFICES ASSUME NEW t \in Scrapes
               PROVE  limit'[t] = Cardinality(Where(pc'[t], Holding))
                                    + (IF disp'[t] = "launch" THEN 1 ELSE 0)
    BY DEF TokenInv, At, Where
  <2>1. limit[t] = Cardinality(Where(pc[t], Holding)) + (IF disp[t] = "launch" THEN 1 ELSE 0)
    BY DEF ControlInv, TokenInv, At, Where
  <2>2. /\ Cardinality(Where(pc[s], Holding)) \in Nat
        /\ Cardinality(Where(pc'[s], Holding)) \in Nat
    BY WhereFinite
  <2>3. CASE t = s
    <3>1. disp'[s] = "loop"
      BY <1>1 DEF PoolTypeOK
    <3> QED
      BY <1>1, <1>6, <2>1, <2>2, <2>3, <3>1
  <2>4. CASE t # s
    BY <1>1, <1>5, <2>1, <2>4
  <2> QED
    BY <2>3, <2>4
<1>8. GroupInv'
  <2> SUFFICES ASSUME NEW t \in Scrapes
               PROVE  wg'[t] = Cardinality(Where(pc'[t], Live))
    BY DEF GroupInv, At, Where
  <2>1. wg[t] = Cardinality(Where(pc[t], Live))
    BY DEF ControlInv, GroupInv, At, Where
  <2>2. wg'[s] = wg[s] + 1
    BY <1>1 DEF PoolTypeOK
  <2>3. CASE t = s
    BY <1>6, <2>1, <2>2, <2>3
  <2>4. CASE t # s
    BY <1>5, <2>1, <2>4
  <2> QED
    BY <2>3, <2>4
<1>9. LaunchInv'
  <2> SUFFICES ASSUME NEW t \in Scrapes
               PROVE  /\ \A d \in Devices : pc'[t][d] = "idle" <=> next'[t] <= d
                      /\ disp'[t] = "launch" => next'[t] <= N
    BY DEF LaunchInv
  <2>1. CASE t = s
    <3>1. disp'[s] = "loop" /\ next'[s] = next[s] + 1
      BY <1>1 DEF PoolTypeOK
    <3>2. \A d \in Devices : pc'[s][d] = "idle" <=> (pc[s][d] = "idle" /\ d # next[s])
      BY <1>2, <1>3, <1>4
    <3>3. \A d \in Devices : pc[s][d] = "idle" <=> next[s] <= d
      BY DEF ControlInv, LaunchInv
    <3> QED
      BY <1>2, <2>1, <3>1, <3>2, <3>3, CountsAssumption DEF Devices
  <2>2. CASE t # s
    BY <1>5, <2>2 DEF ControlInv, LaunchInv
  <2> QED
    BY <2>1, <2>2
<1>10. ReturnInv'
  <2>1. disp'[s] = "loop"
    BY <1>1 DEF PoolTypeOK
  <2> QED
    BY <1>5, <2>1 DEF ControlInv, ReturnInv, Returned
<1> QED
  BY <1>2, <1>7, <1>8, <1>9, <1>10 DEF ControlInv

\* The other dispatcher steps only move disp, and never to "launch".
LEMMA DispatchControl ==
    ASSUME PoolTypeOK, ControlInv, NEW s \in Scrapes,
           Start(s) \/ WaitAll(s) \/ Emit(s) \/ LoadTotals(s)
    PROVE  ControlInv'
<1>1. UNCHANGED <<next, limit, wg, pc>>
  BY DEF Start, WaitAll, Emit, LoadTotals, LoadTotal, shared
<1>2. /\ disp[s] # "launch" /\ disp'[s] # "launch"
      /\ \A t \in Scrapes : t # s => disp'[t] = disp[t]
      /\ Returned(s)' => Returned(s) \/ (next[s] > N /\ wg[s] = 0)
  BY DEF Start, WaitAll, WorkersDone, Emit, LoadTotals, LoadTotal, PoolTypeOK, Returned
<1>3. TokenInv' /\ GroupInv'
  BY <1>1, <1>2 DEF ControlInv, TokenInv, GroupInv, At
<1>4. LaunchInv'
  BY <1>1, <1>2 DEF ControlInv, LaunchInv
<1>5. next[s] > N => next[s] = N + 1
  BY CountsAssumption DEF PoolTypeOK
<1>6. ReturnInv'
  BY <1>1, <1>2, <1>5 DEF ControlInv, ReturnInv, Returned
<1> QED
  BY <1>3, <1>4, <1>6 DEF ControlInv

-----------------------------------------------------------------------------
(* Type correctness, one lemma per group of actions.                       *)

LEMMA InitType == Init => PoolTypeOK
<1> SUFFICES ASSUME Init PROVE PoolTypeOK
  OBVIOUS
<1>1. ZeroMetric \in Metric
  BY DEF ZeroMetric, Metric
<1>2. NoLocals \in Locals
  BY <1>1, CountsAssumption DEF NoLocals, Locals, Calls, Results
<1>3. NoHist \in History
  BY DEF NoHist, History, Results
<1>4. <<>> \in [{} -> -1..1] /\ <<>> \in [{} -> 0..1]
  OBVIOUS
<1>5. NoOut \in Output
  BY <1>4 DEF NoOut, Output, Gauges
<1> QED
  BY <1>1, <1>2, <1>3, <1>5, CountsAssumption DEF Init, PoolTypeOK, DispPCs, WorkerPCs

LEMMA DispatchType ==
    ASSUME PoolTypeOK, ControlInv, NEW s \in Scrapes, Dispatch(s)
    PROVE  PoolTypeOK'
<1>1. CASE Start(s)
  BY <1>1 DEF Start, shared, PoolTypeOK, DispPCs
<1>2. CASE Acquire(s)
  BY <1>2, CountsAssumption DEF Acquire, LimitFree, PoolTypeOK, DispPCs
<1>3. CASE Launch(s)
  <2>1. next[s] \in Devices /\ GroupInv'
    BY <1>3, LaunchControl DEF ControlInv
  <2>2. wg'[s] = Cardinality(Where(pc'[s], Live))
    BY <2>1 DEF GroupInv, At, Where
  <2>3. wg'[s] \in 0..N
    BY <2>2, WhereFinite, CountsAssumption
  <2>4. wg' \in [Scrapes -> 0..N]
    BY <1>3, <2>3 DEF Launch, PoolTypeOK
  <2>5. next' \in [Scrapes -> 1..N+1]
    BY <1>3, <2>1, CountsAssumption DEF Launch, PoolTypeOK, Devices
  <2>6. pc' \in [Scrapes -> [Devices -> WorkerPCs]]
    BY <1>3, <2>1 DEF Launch, PoolTypeOK, WorkerPCs
  <2> QED
    BY <1>3, <2>4, <2>5, <2>6 DEF Launch, PoolTypeOK, DispPCs
<1>4. CASE WaitAll(s)
  BY <1>4 DEF WaitAll, shared, PoolTypeOK, DispPCs
<1>5. CASE Emit(s)
  <2> DEFINE up == [d \in {x \in Devices : CollectBase} |->
                       1 - metrics[s][d].error - metrics[s][d].timeout]
             re == [d \in {x \in Devices : CollectRcvErr} |-> metrics[s][d].rcvErrError]
             rt == [d \in {x \in Devices : CollectRcvErr} |-> metrics[s][d].rcvErrTimeout]
  <2>1. \A d \in Devices : metrics[s][d] \in Metric
    BY DEF PoolTypeOK
  <2>2. up \in Gauges(-1..1)
    BY <2>1, FlagsAssumption DEF Gauges, Metric
  <2>3. re \in Gauges(0..1) /\ rt \in Gauges(0..1)
    BY <2>1, FlagsAssumption DEF Gauges, Metric
  <2>4. out[s] \in Output /\ counters[s] \in SUBSET Series
    BY DEF PoolTypeOK
  <2>5. out' = [out EXCEPT ![s] = [@ EXCEPT !.counters = counters[s], !.up = up,
                                     !.rcvErrError = re, !.rcvErrTimeout = rt]]
    BY <1>5 DEF Emit
  <2> HIDE DEF up, re, rt
  <2>6. [out[s] EXCEPT !.counters = counters[s], !.up = up,
                       !.rcvErrError = re, !.rcvErrTimeout = rt] \in Output
    BY <2>2, <2>3, <2>4 DEF Output
  <2>7. out' \in [Scrapes -> Output]
    BY <2>5, <2>6 DEF PoolTypeOK
  <2> QED
    BY <1>5, <2>7 DEF Emit, shared, PoolTypeOK, DispPCs
<1>6. CASE LoadTotals(s)
  <2>1. /\ [out[s] EXCEPT !["errors"] = totals["errors"]] \in Output
        /\ [out[s] EXCEPT !["timeouts"] = totals["timeouts"]] \in Output
        /\ [out[s] EXCEPT !["retries"] = totals["retries"]] \in Output
    <3>1. out[s] \in Output /\ totals["errors"] \in Nat
          /\ totals["timeouts"] \in Nat /\ totals["retries"] \in Nat
      BY DEF PoolTypeOK
    <3>2. [out[s] EXCEPT !["errors"] = totals["errors"]] \in Output
      BY <3>1 DEF Output
    <3>3. [out[s] EXCEPT !["timeouts"] = totals["timeouts"]] \in Output
      BY <3>1 DEF Output
    <3>4. [out[s] EXCEPT !["retries"] = totals["retries"]] \in Output
      BY <3>1 DEF Output
    <3> QED
      BY <3>2, <3>3, <3>4
  <2>2. \E v \in Output : out' = [out EXCEPT ![s] = v]
    <3>1. CASE LoadTotal(s, "errors", "timeouts")
      BY <2>1, <3>1 DEF LoadTotal
    <3>2. CASE LoadTotal(s, "timeouts", "retries")
      BY <2>1, <3>2 DEF LoadTotal
    <3>3. CASE LoadTotal(s, "retries", "done")
      BY <2>1, <3>3 DEF LoadTotal
    <3> QED
      BY <1>6, <3>1, <3>2, <3>3 DEF LoadTotals
  <2>3. out' \in [Scrapes -> Output]
    BY <2>2 DEF PoolTypeOK
  <2>4. disp' \in [Scrapes -> DispPCs]
    BY <1>6 DEF LoadTotals, LoadTotal, PoolTypeOK, DispPCs
  <2> QED
    BY <1>6, <2>3, <2>4 DEF LoadTotals, LoadTotal, shared, PoolTypeOK
<1> QED
  BY <1>1, <1>2, <1>3, <1>4, <1>5, <1>6 DEF Dispatch

LEMMA GotoType ==
    ASSUME PoolTypeOK, NEW s \in Scrapes, NEW d \in Devices, NEW l \in WorkerPCs, Goto(s, d, l)
    PROVE  pc' \in [Scrapes -> [Devices -> WorkerPCs]]
BY DEF PoolTypeOK, Goto

\* Locals and histories stay typed when one worker's record is replaced.
LEMMA ReplaceType ==
    ASSUME PoolTypeOK, NEW s \in Scrapes, NEW d \in Devices, NEW v \in Locals, NEW h \in History
    PROVE  /\ loc[s][d] \in Locals /\ hist[s][d] \in History
           /\ [loc EXCEPT ![s][d] = v] \in [Scrapes -> [Devices -> Locals]]
           /\ [hist EXCEPT ![s][d] = h] \in [Scrapes -> [Devices -> History]]
BY DEF PoolTypeOK

\* perfqueryWithRetry: the attempts never exceed --perfquery.retries.
LEMMA ExecType ==
    ASSUME PoolTypeOK, NEW s \in Scrapes, NEW d \in Devices, Exec(s, d)
    PROVE  PoolTypeOK'
<1>0. /\ loc[s][d] \in Locals /\ hist[s][d] \in History
      /\ pc' \in [Scrapes -> [Devices -> WorkerPCs]]
  <2>1. pc' = pc \/ \E l \in WorkerPCs : Goto(s, d, l)
    BY DEF Exec, ExecOk, ExecTimeout, ExecError, WorkerPCs
  <2>2. pc' \in [Scrapes -> [Devices -> WorkerPCs]]
    BY <2>1, GotoType DEF PoolTypeOK
  <2> QED
    BY <2>2 DEF PoolTypeOK
<1>1. CASE ExecOk(s, d)
  <2>1. PICK Q \in SUBSET Requested(s, d), e \in 0..MaxParseErrors :
          /\ loc' = [loc EXCEPT ![s][d] = [@ EXCEPT !.result = "ok", !.found = Q, !.errs = e]]
          /\ hist' = [hist EXCEPT ![s][d].parse = @ + e]
    BY <1>1 DEF ExecOk
  <2>2. Requested(s, d) \subseteq AllPorts
    BY <1>0 DEF Requested, AllPorts, Locals, Calls
  <2>3. [loc[s][d] EXCEPT !.result = "ok", !.found = Q, !.errs = e] \in Locals
    BY <1>0, <2>2 DEF Locals, Results
  <2>4. [hist[s][d] EXCEPT !.parse = @ + e] \in History
    <3>1. e \in Nat
      BY CountsAssumption
    <3> QED
      BY <1>0, <3>1 DEF History
  <2>5. loc' \in [Scrapes -> [Devices -> Locals]] /\ hist' \in [Scrapes -> [Devices -> History]]
    BY <2>1, <2>3, <2>4 DEF PoolTypeOK
  <2> QED
    BY <1>0, <1>1, <2>5 DEF ExecOk, shared, PoolTypeOK
<1>2. CASE ExecTimeout(s, d)
  <2>1. [loc[s][d] EXCEPT !.result = "timeout"] \in Locals
    BY <1>0 DEF Locals, Results
  <2>2. [hist[s][d] EXCEPT !.timeouts = @ + 1] \in History
    BY <1>0 DEF History
  <2>3. loc' \in [Scrapes -> [Devices -> Locals]] /\ hist' \in [Scrapes -> [Devices -> History]]
    BY <1>2, <2>1, <2>2 DEF ExecTimeout, PoolTypeOK
  <2> QED
    BY <1>0, <1>2, <2>3 DEF ExecTimeout, shared, PoolTypeOK
<1>3. CASE ExecError(s, d)
  <2>1. [loc[s][d] EXCEPT !.result = "error"] \in Locals
    BY <1>0 DEF Locals, Results
  <2>2. RetriesLeft(s, d) => [loc[s][d] EXCEPT !.attempts = @ + 1] \in Locals
    <3>1. RetriesLeft(s, d) => loc[s][d].attempts + 1 \in 0..MaxRetries
      BY <1>0, CountsAssumption DEF Locals, RetriesLeft
    <3> QED
      BY <1>0, <3>1 DEF Locals
  <2>3. [hist[s][d] EXCEPT !.failed = @ + 1] \in History
    BY <1>0 DEF History
  <2>a. \E v \in Locals : loc' = [loc EXCEPT ![s][d] = v]
    <3>1. CASE RetriesLeft(s, d)
      BY <1>3, <2>2, <3>1 DEF ExecError
    <3>2. CASE ~RetriesLeft(s, d)
      BY <1>3, <2>1, <3>2 DEF ExecError
    <3> QED
      BY <3>1, <3>2
  <2>b. \E h \in History : hist' = [hist EXCEPT ![s][d] = h]
    BY <1>3, <2>3 DEF ExecError
  <2>4. loc' \in [Scrapes -> [Devices -> Locals]] /\ hist' \in [Scrapes -> [Devices -> History]]
    BY <1>0, <2>a, <2>b, ReplaceType
  <2> QED
    BY <1>0, <1>3, <2>4 DEF ExecError, shared, PoolTypeOK
<1> QED
  BY <1>1, <1>2, <1>3 DEF Exec

\* Account, and the three ways a result is classified.
LEMMA ClassifyType ==
    ASSUME PoolTypeOK, NEW s \in Scrapes, NEW d \in Devices,
           Account(s, d) \/ BaseFailed(s, d) \/ RcvErrFailed(s, d) \/ Parsed(s, d)
    PROVE  PoolTypeOK'
<1>0. /\ loc[s][d] \in Locals /\ hist[s][d] \in History
      /\ pc' \in [Scrapes -> [Devices -> WorkerPCs]]
  <2>1. pc' = pc \/ \E l \in WorkerPCs : Goto(s, d, l)
    BY DEF Account, BaseFailed, RcvErrFailed, Parsed, WorkerPCs
  <2>2. pc' \in [Scrapes -> [Devices -> WorkerPCs]]
    BY <2>1, GotoType DEF PoolTypeOK
  <2> QED
    BY <2>2 DEF PoolTypeOK
<1>1. \A n \in Nat : /\ Added("retries", n) \in [errors : Nat, timeouts : Nat, retries : Nat]
                     /\ Added("errors", n) \in [errors : Nat, timeouts : Nat, retries : Nat]
                     /\ Added("timeouts", n) \in [errors : Nat, timeouts : Nat, retries : Nat]
  <2> SUFFICES ASSUME NEW n \in Nat
               PROVE  /\ [totals EXCEPT !["retries"] = totals["retries"] + n]
                           \in [errors : Nat, timeouts : Nat, retries : Nat]
                      /\ [totals EXCEPT !["errors"] = totals["errors"] + n]
                           \in [errors : Nat, timeouts : Nat, retries : Nat]
                      /\ [totals EXCEPT !["timeouts"] = totals["timeouts"] + n]
                           \in [errors : Nat, timeouts : Nat, retries : Nat]
    BY DEF Added
  <2>1. totals \in [errors : Nat, timeouts : Nat, retries : Nat]
    BY DEF PoolTypeOK
  <2> QED
    BY <2>1
<1>2. loc[s][d].attempts \in Nat /\ loc[s][d].errs \in Nat /\ loc[s][d].metric \in Metric
  BY <1>0, CountsAssumption DEF Locals
<1>3. CASE Account(s, d)
  <2>1. [loc[s][d] EXCEPT !.attempts = 0] \in Locals
    <3>1. 0 \in 0..MaxRetries
      BY CountsAssumption
    <3> QED
      BY <1>0, <3>1 DEF Locals
  <2>2. loc' \in [Scrapes -> [Devices -> Locals]]
    BY <1>3, <2>1 DEF Account, PoolTypeOK
  <2>3. totals' \in [errors : Nat, timeouts : Nat, retries : Nat]
    BY <1>1, <1>2, <1>3 DEF Account
  <2> QED
    BY <1>0, <1>3, <2>2, <2>3 DEF Account, PoolTypeOK
<1>4. CASE BaseFailed(s, d)
  <2>0. /\ [loc[s][d].metric EXCEPT !.timeout = 1] \in Metric
        /\ [loc[s][d].metric EXCEPT !.error = 1] \in Metric
    BY <1>2 DEF Metric
  <2>1. /\ [loc[s][d] EXCEPT !.metric.timeout = 1] \in Locals
        /\ [loc[s][d] EXCEPT !.metric.error = 1] \in Locals
    BY <1>0, <2>0 DEF Locals
  <2>2. [hist[s][d] EXCEPT !.base = loc[s][d].result] \in History
    BY <1>0 DEF History, Locals
  <2>a. \E v \in Locals : loc' = [loc EXCEPT ![s][d] = v]
    <3>1. CASE loc[s][d].result = "timeout"
      BY <1>4, <2>1, <3>1 DEF BaseFailed
    <3>2. CASE loc[s][d].result = "error"
      BY <1>4, <2>1, <3>2 DEF BaseFailed
    <3> QED
      BY <1>4, <3>1, <3>2 DEF BaseFailed
  <2>b. \E h \in History : hist' = [hist EXCEPT ![s][d] = h]
    BY <1>4, <2>2 DEF BaseFailed
  <2>3. loc' \in [Scrapes -> [Devices -> Locals]] /\ hist' \in [Scrapes -> [Devices -> History]]
    BY <1>0, <2>a, <2>b, ReplaceType
  <2>4. totals' \in [errors : Nat, timeouts : Nat, retries : Nat]
    BY <1>1, <1>4 DEF BaseFailed
  <2> QED
    BY <1>0, <1>4, <2>3, <2>4 DEF BaseFailed, PoolTypeOK
<1>5. CASE RcvErrFailed(s, d)
  <2>0. /\ [loc[s][d].metric EXCEPT !.rcvErrTimeout = 1] \in Metric
        /\ [loc[s][d].metric EXCEPT !.rcvErrError = 1] \in Metric
    BY <1>2 DEF Metric
  <2>1. /\ [loc[s][d] EXCEPT !.metric.rcvErrTimeout = 1] \in Locals
        /\ [loc[s][d] EXCEPT !.metric.rcvErrError = 1] \in Locals
    BY <1>0, <2>0 DEF Locals
  <2>2. [hist[s][d] EXCEPT !.rcv = @ \cup {loc[s][d].result}] \in History
    BY <1>0 DEF History, Locals
  <2>a. \E v \in Locals : loc' = [loc EXCEPT ![s][d] = v]
    <3>1. CASE loc[s][d].result = "timeout"
      BY <1>5, <2>1, <3>1 DEF RcvErrFailed
    <3>2. CASE loc[s][d].result = "error"
      BY <1>5, <2>1, <3>2 DEF RcvErrFailed
    <3> QED
      BY <1>5, <3>1, <3>2 DEF RcvErrFailed
  <2>b. \E h \in History : hist' = [hist EXCEPT ![s][d] = h]
    BY <1>5, <2>2 DEF RcvErrFailed
  <2>3. loc' \in [Scrapes -> [Devices -> Locals]] /\ hist' \in [Scrapes -> [Devices -> History]]
    BY <1>0, <2>a, <2>b, ReplaceType
  <2>4. totals' \in [errors : Nat, timeouts : Nat, retries : Nat]
    BY <1>1, <1>5 DEF RcvErrFailed
  <2> QED
    BY <1>0, <1>5, <2>3, <2>4 DEF RcvErrFailed, PoolTypeOK
<1>6. CASE Parsed(s, d)
  <2> DEFINE l == loc[s][d]
  <2>1. [l EXCEPT !.todo = IF CollectRcvErr THEN l.found ELSE {}] \in Locals
    BY <1>0 DEF Locals
  <2>2. /\ {<<p, Base>> : p \in {x \in l.found : CollectBase}} \subseteq AllPorts \X Calls
        /\ {<<p, l.call>> : p \in l.found} \subseteq AllPorts \X Calls
    BY <1>0 DEF Locals, Calls
  <2>a. \E v \in Locals : loc' = [loc EXCEPT ![s][d] = v]
    <3>1. CASE l.call = Base
      BY <1>6, <2>1, <3>1 DEF Parsed
    <3>2. CASE l.call # Base
      <4>1. loc' = [loc EXCEPT ![s][d] = loc[s][d]]
        BY <1>6, <3>2 DEF Parsed, PoolTypeOK
      <4> QED
        BY <1>0, <4>1
    <3> QED
      BY <3>1, <3>2
  <2>b. \E h \in History : hist' = [hist EXCEPT ![s][d] = h]
    <3>1. CASE l.call = Base
      <4> DEFINE new == {<<p, Base>> : p \in {x \in l.found : CollectBase}}
      <4>1. hist' = [hist EXCEPT ![s][d] = [@ EXCEPT !.base = "ok", !.parsed = new]]
        BY <1>6, <3>1 DEF Parsed
      <4> HIDE DEF new
      <4>2. [hist[s][d] EXCEPT !.base = "ok", !.parsed = new] \in History
        BY <1>0, <2>2 DEF History, Results, new
      <4> QED
        BY <4>1, <4>2
    <3>2. CASE l.call # Base
      <4> DEFINE new == {<<p, l.call>> : p \in l.found}
      <4> DEFINE r == hist[s][d].rcv \cup {"ok"}
                 q == hist[s][d].parsed \cup new
      <4>1. hist' = [hist EXCEPT ![s][d] = [hist[s][d] EXCEPT !.rcv = r, !.parsed = q]]
        BY <1>6, <3>2 DEF Parsed
      <4>2. r \subseteq Results /\ q \subseteq AllPorts \X Calls
        BY <1>0, <2>2 DEF History, Results
      <4> HIDE DEF r, q
      <4>3. [hist[s][d] EXCEPT !.rcv = r, !.parsed = q] \in History
        BY <1>0, <4>2 DEF History
      <4> QED
        BY <4>1, <4>3
    <3> QED
      BY <3>1, <3>2
  <2>3. loc' \in [Scrapes -> [Devices -> Locals]] /\ hist' \in [Scrapes -> [Devices -> History]]
    BY <1>0, <2>a, <2>b, ReplaceType
  <2>4. totals' \in [errors : Nat, timeouts : Nat, retries : Nat]
    BY <1>1, <1>2, <1>6 DEF Parsed
  <2> QED
    BY <1>0, <1>6, <2>3, <2>4 DEF Parsed, PoolTypeOK
<1> QED
  BY <1>3, <1>4, <1>5, <1>6

\* The steps from the lock to the end of the worker.
LEMMA FinishType ==
    ASSUME PoolTypeOK, ControlInv, NEW s \in Scrapes, NEW d \in Devices,
           \/ Lock(s, d) \/ Append(s, d) \/ NextPort(s, d) \/ NoMorePorts(s, d)
           \/ Store(s, d) \/ Release(s, d) \/ Signal(s, d)
    PROVE  PoolTypeOK'
<1>0. /\ loc[s][d] \in Locals /\ d \in 0..N
      /\ pc' \in [Scrapes -> [Devices -> WorkerPCs]]
  <2>1. \E l \in WorkerPCs : Goto(s, d, l)
    BY DEF Lock, Append, NextPort, NoMorePorts, Store, Release, Signal, WorkerPCs
  <2>2. pc' \in [Scrapes -> [Devices -> WorkerPCs]]
    BY <2>1, GotoType
  <2> QED
    BY <2>2, CountsAssumption DEF PoolTypeOK, Devices
<1>1. CASE Lock(s, d)
  <2>1. [loc[s][d] EXCEPT !.buf = counters[s]] \in Locals
    BY <1>0 DEF Locals, PoolTypeOK
  <2>2. loc' \in [Scrapes -> [Devices -> Locals]]
    BY <1>1, <2>1 DEF Lock, PoolTypeOK
  <2>3. mu' \in [Scrapes -> 0..N]
    BY <1>0, <1>1 DEF Lock, PoolTypeOK
  <2> QED
    BY <1>0, <1>1, <2>2, <2>3 DEF Lock, PoolTypeOK
<1>2. CASE Append(s, d)
  <2> DEFINE v == [loc[s][d] EXCEPT !.buf = {}, !.found = {}, !.errs = 0]
             c == loc[s][d].buf \cup {<<d, p, loc[s][d].call>> : p \in loc[s][d].found}
  <2>1. v \in Locals
    <3>1. 0 \in 0..MaxParseErrors
      BY CountsAssumption
    <3> QED
      BY <1>0, <3>1 DEF Locals
  <2>2. c \subseteq Series
    BY <1>0 DEF Locals, Series
  <2>3. /\ loc' = [loc EXCEPT ![s][d] = v] /\ counters' = [counters EXCEPT ![s] = c]
        /\ mu' = [mu EXCEPT ![s] = 0]
    BY <1>2 DEF Append
  <2> HIDE DEF v, c
  <2>4. /\ loc' \in [Scrapes -> [Devices -> Locals]] /\ counters' \in [Scrapes -> SUBSET Series]
        /\ mu' \in [Scrapes -> 0..N]
    BY <2>1, <2>2, <2>3, CountsAssumption DEF PoolTypeOK
  <2> QED
    BY <1>0, <1>2, <2>4 DEF Append, PoolTypeOK
<1>3. CASE NextPort(s, d)
  <2>1. PICK p \in loc[s][d].todo :
        loc' = [loc EXCEPT ![s][d] = [loc[s][d] EXCEPT !.call = p, !.todo = loc[s][d].todo \ {p}]]
    BY <1>3 DEF NextPort
  <2>2. [loc[s][d] EXCEPT !.call = p, !.todo = loc[s][d].todo \ {p}] \in Locals
    BY <1>0, <2>1 DEF Locals, Calls
  <2> DEFINE v == [loc[s][d] EXCEPT !.call = p, !.todo = loc[s][d].todo \ {p}]
  <2>a. v \in Locals /\ loc' = [loc EXCEPT ![s][d] = v]
    BY <2>1, <2>2
  <2> HIDE DEF v
  <2>3. loc' \in [Scrapes -> [Devices -> Locals]]
    BY <2>a DEF PoolTypeOK
  <2> QED
    BY <1>0, <1>3, <2>3 DEF NextPort, shared, PoolTypeOK
<1>4. CASE NoMorePorts(s, d)
  BY <1>0, <1>4 DEF NoMorePorts, shared, PoolTypeOK
<1>5. CASE Store(s, d)
  <2>1. loc[s][d].metric \in Metric
    BY <1>0 DEF Locals
  <2>2. metrics' \in [Scrapes -> [Devices -> Metric]]
    BY <1>5, <2>1 DEF Store, PoolTypeOK
  <2> QED
    BY <1>0, <1>5, <2>2 DEF Store, PoolTypeOK
<1>6. CASE Release(s, d)
  <2>1. NoLocals \in Locals
    BY CountsAssumption DEF NoLocals, Locals, Calls, Results, ZeroMetric, Metric
  <2>2. loc' \in [Scrapes -> [Devices -> Locals]]
    <3>1. loc' = [loc EXCEPT ![s][d] = NoLocals]
      BY <1>6 DEF Release
    <3>2. hist[s][d] \in History
      BY DEF PoolTypeOK
    <3> QED
      BY <2>1, <3>1, <3>2, ReplaceType
  <2>3. limit'[s] \in Nat
    BY <1>6, ReleaseControl
  <2>4. limit' \in [Scrapes -> 0..MaxConcurrent]
    BY <1>6, <2>3, CountsAssumption DEF Release, PoolTypeOK
  <2> QED
    BY <1>0, <1>6, <2>2, <2>4 DEF Release, PoolTypeOK
<1>7. CASE Signal(s, d)
  <2>1. wg'[s] \in Nat
    BY <1>7, SignalControl
  <2>2. wg' \in [Scrapes -> 0..N]
    BY <1>7, <2>1, CountsAssumption DEF Signal, PoolTypeOK
  <2> QED
    BY <1>0, <1>7, <2>2 DEF Signal, PoolTypeOK
<1> QED
  BY <1>1, <1>2, <1>3, <1>4, <1>5, <1>6, <1>7

-----------------------------------------------------------------------------
(* The invariant and the theorems.                                         *)

LEMMA InitInv == Init => IInv
<1> SUFFICES ASSUME Init PROVE IInv
  OBVIOUS
<1>1. PoolTypeOK
  BY InitType
<1>2. \A s \in Scrapes : At(s, Holding) = {} /\ At(s, Live) = {}
  BY DEF Init, At, Holding, Live
<1>3. TokenInv /\ GroupInv
  <2>1. Cardinality({}) = 0
    BY FS_EmptySet
  <2>2. \A s \in Scrapes : limit[s] = 0 /\ wg[s] = 0 /\ disp[s] # "launch"
    BY DEF Init
  <2> SUFFICES ASSUME NEW s \in Scrapes
               PROVE  /\ limit[s] = Cardinality(At(s, Holding)) + (IF disp[s] = "launch" THEN 1 ELSE 0)
                      /\ wg[s] = Cardinality(At(s, Live))
    BY DEF TokenInv, GroupInv
  <2>3. Cardinality(At(s, Holding)) = 0 /\ Cardinality(At(s, Live)) = 0
    BY <1>2, <2>1
  <2> QED
    BY <2>2, <2>3
<1>4. LaunchInv /\ ReturnInv
  BY CountsAssumption DEF LaunchInv, ReturnInv, Returned, Init, Devices
<1> QED
  BY <1>1, <1>3, <1>4 DEF IInv

\* Control part of a worker step.
LEMMA WorkControl ==
    ASSUME PoolTypeOK, ControlInv, NEW s \in Scrapes, NEW d \in Devices, Work(s, d)
    PROVE  ControlInv'
<1>1. CASE Release(s, d)
  BY <1>1, ReleaseControl
<1>2. CASE Signal(s, d)
  BY <1>2, SignalControl
<1>3. CASE ~Release(s, d) /\ ~Signal(s, d)
  <2>1. pc[s][d] \in Holding /\ UNCHANGED <<disp, next, limit, wg>>
    BY <1>3 DEF Work, Exec, ExecOk, ExecTimeout, ExecError, Account, BaseFailed, RcvErrFailed,
                Parsed, Lock, Append, NextPort, NoMorePorts, Store, shared, Holding, WorkerPCs
  <2>2. pc' = pc \/ \E l \in Holding : Goto(s, d, l)
    BY <1>3 DEF Work, Exec, ExecOk, ExecTimeout, ExecError, Account, BaseFailed, RcvErrFailed,
                Parsed, Lock, Append, NextPort, NoMorePorts, Store, Holding, WorkerPCs
  <2>3. CASE pc' = pc
    BY <2>1, <2>3 DEF ControlInv, TokenInv, GroupInv, LaunchInv, ReturnInv, Returned, At
  <2> QED
    BY <2>1, <2>2, <2>3, StayLive
<1> QED
  BY <1>1, <1>2, <1>3

LEMMA NextInv == IInv /\ [Next]_vars => IInv'
<1> SUFFICES ASSUME IInv, [Next]_vars PROVE IInv'
  OBVIOUS
<1>0. PoolTypeOK /\ ControlInv
  BY DEF IInv, ControlInv
<1>1. ASSUME NEW s \in Scrapes, Dispatch(s)
      PROVE  PoolTypeOK' /\ ControlInv'
  <2>1. PoolTypeOK'
    BY <1>0, <1>1, DispatchType
  <2>2. ControlInv'
    BY <1>0, <1>1, AcquireControl, LaunchControl, DispatchControl DEF Dispatch
  <2> QED
    BY <2>1, <2>2
<1>2. ASSUME NEW s \in Scrapes, NEW d \in Devices, Work(s, d)
      PROVE  PoolTypeOK' /\ ControlInv'
  <2>1. PoolTypeOK'
    BY <1>0, <1>2, ExecType, ClassifyType, FinishType DEF Work
  <2>2. ControlInv'
    BY <1>0, <1>2, WorkControl
  <2> QED
    BY <2>1, <2>2
<1>3. ASSUME UNCHANGED vars
      PROVE  PoolTypeOK' /\ ControlInv'
  <2>1. PoolTypeOK'
    BY <1>0, <1>3 DEF vars, PoolTypeOK
  <2>2. ControlInv'
    BY <1>0, <1>3 DEF vars, ControlInv, TokenInv, GroupInv, LaunchInv, ReturnInv, Returned, At
  <2> QED
    BY <2>1, <2>2
<1>4. PoolTypeOK' /\ ControlInv'
  BY <1>1, <1>2, <1>3 DEF Next, Finished
<1> QED
  BY <1>4 DEF IInv, ControlInv

THEOREM Invariance == Spec => []IInv
BY InitInv, NextInv, PTL DEF Spec

\* Every variable keeps its type: the channel never overflows, the wait group
\* is never negative, and no call is retried more than --perfquery.retries times.
THEOREM TypeCorrect == Spec => []PoolTypeOK
<1>1. IInv => PoolTypeOK
  BY DEF IInv
<1> QED
  BY <1>1, Invariance, PTL

\* A collection never runs more perfquery processes than --perfquery.max-concurrent,
\* however many devices it has and however its workers interleave.
THEOREM BudgetHolds == Spec => []PerfqueryBudget
<1>1. IInv => PerfqueryBudget
  <2> SUFFICES ASSUME IInv, NEW s \in Scrapes
               PROVE  Cardinality(At(s, {"exec"})) <= MaxConcurrent
    BY DEF PerfqueryBudget
  <2>1. /\ IsFiniteSet(At(s, Holding))
        /\ Cardinality(At(s, Holding)) \in Nat
    BY WhereFinite DEF At, Where
  <2>2. At(s, {"exec"}) \subseteq At(s, Holding)
    BY DEF At, Holding, WorkerPCs
  <2>3. /\ Cardinality(At(s, {"exec"})) \in Nat
        /\ Cardinality(At(s, {"exec"})) <= Cardinality(At(s, Holding))
    BY <2>1, <2>2, FS_Subset, FS_CardinalityType
  <2>4. limit[s] = Cardinality(At(s, Holding)) + (IF disp[s] = "launch" THEN 1 ELSE 0)
    BY DEF IInv, TokenInv
  <2>5. limit[s] \in 0..MaxConcurrent
    BY DEF IInv, PoolTypeOK
  <2> QED
    BY <2>1, <2>3, <2>4, <2>5, CountsAssumption
<1> QED
  BY <1>1, Invariance, PTL

\* wg.Wait() returns only after every worker has ended, so Collect's unlocked
\* reads of the slice and the map race with nobody.
THEOREM QuietHolds == Spec => []QuietAfterWait
<1>1. IInv => QuietAfterWait
  <2> SUFFICES ASSUME IInv, NEW s \in Scrapes, Returned(s), NEW d \in Devices
               PROVE  pc[s][d] = "done"
    BY DEF QuietAfterWait, At
  <2>1. next[s] = N + 1 /\ Cardinality(At(s, Live)) = 0
    BY DEF IInv, ReturnInv, GroupInv
  <2>2. IsFiniteSet(At(s, Live))
    BY WhereFinite DEF At, Where
  <2>3. pc[s][d] \notin Live
    BY <2>1, <2>2, FS_EmptySet DEF At
  <2>4. pc[s][d] # "idle"
    BY <2>1, CountsAssumption DEF IInv, LaunchInv, Devices
  <2>a. PoolTypeOK
    BY DEF IInv
  <2>5. pc[s][d] \in WorkerPCs
    BY <2>a DEF PoolTypeOK
  <2> QED
    BY <2>3, <2>4, <2>5 DEF Live, Holding
<1> QED
  BY <1>1, Invariance, PTL

-----------------------------------------------------------------------------
(***************************************************************************)
(* What PortCollector emits is what its workers saw: proofs of             *)
(* NoLostSeries, RcvErrGaugesExact, FailuresCounted and                    *)
(* OwnFailuresEmitted, on top of the control invariant of                  *)
(* PortCollectorProofs (IInv), which says that Collect reads the slice and *)
(* the map only when every worker has ended.                               *)
(*                                                                         *)
(* The slice is related to the history worker by worker: a series is in    *)
(* the slice exactly when it has been parsed and does not wait for its     *)
(* worker's append.  For the append to lose nothing the slice a worker     *)
(* read must still be the slice (LockInv); for it to add nothing twice the *)
(* call in progress must be one never parsed before (Fresh).               *)
(*                                                                         *)
(* The process-wide totals are sums over all workers launched so far, of   *)
(* any number of scrapes (TotalsInv).  A step of a worker changes its own  *)
(* terms only, and moves what it withholds into the totals (Moves); once   *)
(* collect() has returned, none of a scrape's workers withholds anything,  *)
(* so what is loaded then covers the scrape's own share of the sum.        *)
(***************************************************************************)

\* A worker has not parsed the result of its call yet.
Before == {"idle", "exec", "account", "classify"}
\* A worker is past the store of its metric, or left without storing it.
Past == {"release", "signal", "done"}
\* A worker has parsed the result of its call and not appended it yet.
Parting == {"lock", "append"}

\* The lock is held by the one worker in its critical section, whose copy of the
\* slice is the slice.
LockInv ==
    \A s \in Scrapes, d \in Devices :
        pc[s][d] = "append" => mu[s] = d /\ loc[s][d].buf = counters[s]

\* Of a worker at label q with locals l and history h: neither the call in
\* progress nor one still to come has been parsed, during the base call nothing
\* has happened yet, and what is about to be appended has been parsed.
Fresh(q, l, h) ==
    /\ q \in Before /\ l.call = Base => h.parsed = {} /\ h.rcv = {} /\ l.todo = {}
    /\ q \in Before => \A p \in AllPorts : <<p, l.call>> \notin h.parsed
    /\ \A r \in l.todo : r # l.call /\ \A p \in AllPorts : <<p, r>> \notin h.parsed
    /\ q \in Parting => \A p \in l.found : <<p, l.call>> \in h.parsed

\* The flags of a metric say which results the -E queries had.
Flags(m, results) ==
    /\ m.rcvErrTimeout = 1 <=> "timeout" \in results
    /\ m.rcvErrError = 1 <=> "error" \in results

\* Until the store the flags are in the worker's own metric and the map has the
\* zero value; from then on they are in the map.
Mirror(q, l, h, m) ==
    IF q \in Past THEN Flags(m, h.rcv) ELSE Flags(l.metric, h.rcv) /\ Flags(m, {})

WorkerInv ==
    \A s \in Scrapes, d \in Devices :
        /\ Fresh(pc[s][d], loc[s][d], hist[s][d])
        /\ Mirror(pc[s][d], loc[s][d], hist[s][d], metrics[s][d])

\* The series <<p, c>> is parsed but not appended yet.
Waiting(q, l, p, c) == q \in Parting /\ c = l.call /\ p \in l.found

SliceInv ==
    \A s \in Scrapes, d \in Devices, p \in AllPorts, c \in Calls :
        <<d, p, c>> \in counters[s] <=>
            <<p, c>> \in hist[s][d].parsed /\ ~Waiting(pc[s][d], loc[s][d], p, c)

DataInv == LockInv /\ WorkerInv /\ SliceInv /\ NoLostSeries /\ RcvErrGaugesExact

-----------------------------------------------------------------------------
(* What a worker's step changes.                                           *)

\* No step of a worker touches another worker's variables.
LEMMA Elsewhere ==
    ASSUME PoolTypeOK, NEW s \in Scrapes, NEW d \in Devices, Work(s, d),
           NEW t \in Scrapes, NEW e \in Devices, t # s \/ e # d
    PROVE  /\ pc'[t][e] = pc[t][e] /\ loc'[t][e] = loc[t][e]
           /\ hist'[t][e] = hist[t][e] /\ metrics'[t][e] = metrics[t][e]
<1>1. CASE Exec(s, d)
  <2>1. CASE ExecOk(s, d)
    BY <2>1 DEF ExecOk, Goto, shared, PoolTypeOK
  <2>2. CASE ExecTimeout(s, d)
    BY <2>2 DEF ExecTimeout, Goto, shared, PoolTypeOK
  <2>3. CASE ExecError(s, d) /\ RetriesLeft(s, d)
    BY <2>3 DEF ExecError, shared, PoolTypeOK
  <2>4. CASE ExecError(s, d) /\ ~RetriesLeft(s, d)
    BY <2>4 DEF ExecError, Goto, shared, PoolTypeOK
  <2> QED
    BY <1>1, <2>1, <2>2, <2>3, <2>4 DEF Exec
<1>2. CASE Account(s, d) \/ BaseFailed(s, d) \/ RcvErrFailed(s, d)
  BY <1>2 DEF Account, BaseFailed, RcvErrFailed, Goto, PoolTypeOK
<1>3. CASE Parsed(s, d)
  BY <1>3 DEF Parsed, Goto, PoolTypeOK
<1>4. CASE NextPort(s, d)
  <2>1. PICK v : loc' = [loc EXCEPT ![s][d] = v]
    BY <1>4 DEF NextPort
  <2> QED
    BY <1>4, <2>1 DEF NextPort, Goto, shared, PoolTypeOK
<1>6. CASE Lock(s, d) \/ Append(s, d) \/ NoMorePorts(s, d)
  BY <1>6 DEF Lock, Append, NoMorePorts, Goto, shared, PoolTypeOK
<1>5. CASE Store(s, d) \/ Release(s, d) \/ Signal(s, d)
  BY <1>5 DEF Store, Release, Signal, Goto, PoolTypeOK
<1> QED
  BY <1>1, <1>2, <1>3, <1>4, <1>5, <1>6 DEF Work

\* Only Append writes the slice, and a worker that has ended takes no step.
LEMMA SliceWriter ==
    ASSUME PoolTypeOK, NEW s \in Scrapes, NEW d \in Devices, Work(s, d)
    PROVE  /\ disp' = disp /\ out' = out /\ pc[s][d] # "done"
           /\ ~Append(s, d) => counters' = counters
           /\ ~Append(s, d) /\ ~Lock(s, d) => mu' = mu
BY DEF Work, Exec, ExecOk, ExecTimeout, ExecError, Account, BaseFailed, RcvErrFailed, Parsed,
       Lock, Append, NextPort, NoMorePorts, Store, Release, Signal, shared

-----------------------------------------------------------------------------
(* The worker's own part of the invariant.                                 *)

\* A step that leaves the call, the ports to come, the metric, and what the
\* history says of parsing and -E results alone, and neither starts a call nor
\* passes the store, keeps the worker's part.
Keeps(q, l, h, q2, l2, h2) ==
    /\ l2.call = l.call /\ l2.todo = l.todo /\ l2.metric = l.metric
    /\ h2.parsed = h.parsed /\ h2.rcv = h.rcv
    /\ q2 \in Before => q \in Before
    /\ q2 \in Past <=> q \in Past
    /\ q2 \in Parting => q \in Parting /\ l2.found = l.found

LEMMA KeepsWorker ==
    ASSUME NEW q, NEW l, NEW h, NEW m, NEW q2, NEW l2, NEW h2,
           Keeps(q, l, h, q2, l2, h2), Fresh(q, l, h), Mirror(q, l, h, m)
    PROVE  Fresh(q2, l2, h2) /\ Mirror(q2, l2, h2, m)
<1>1. Fresh(q2, l2, h2)
  BY DEF Keeps, Fresh
<1>2. Mirror(q2, l2, h2, m)
  BY DEF Keeps, Mirror
<1> QED
  BY <1>1, <1>2

\* The steps of perfqueryWithRetry and around the lock, and the
\* last ones, are of that kind.
LEMMA KeepingSteps ==
    ASSUME PoolTypeOK, NEW s \in Scrapes, NEW d \in Devices,
           \/ Exec(s, d) \/ Account(s, d) \/ Lock(s, d) \/ Append(s, d)
           \/ NoMorePorts(s, d) \/ Signal(s, d)
    PROVE  /\ Keeps(pc[s][d], loc[s][d], hist[s][d], pc'[s][d], loc'[s][d], hist'[s][d])
           /\ metrics' = metrics
<1>0. loc[s][d] \in Locals /\ hist[s][d] \in History
  BY DEF PoolTypeOK
<1>1. CASE ExecOk(s, d)
  <2>1. PICK Q, e :
          /\ loc' = [loc EXCEPT ![s][d] = [@ EXCEPT !.result = "ok", !.found = Q, !.errs = e]]
          /\ hist' = [hist EXCEPT ![s][d].parse = @ + e]
    BY <1>1 DEF ExecOk
  <2>2. /\ loc'[s][d] = [loc[s][d] EXCEPT !.result = "ok", !.found = Q, !.errs = e]
        /\ hist'[s][d] = [hist[s][d] EXCEPT !.parse = @ + e]
    BY <2>1 DEF PoolTypeOK
  <2>3. pc[s][d] = "exec" /\ pc'[s][d] = "account" /\ metrics' = metrics
    BY <1>1 DEF ExecOk, Goto, shared, PoolTypeOK
  <2> QED
    BY <1>0, <2>2, <2>3 DEF Keeps, Before, Past, Parting, Locals, History
<1>2. CASE ExecTimeout(s, d)
  <2>1. /\ loc'[s][d] = [loc[s][d] EXCEPT !.result = "timeout"]
        /\ hist'[s][d] = [hist[s][d] EXCEPT !.timeouts = @ + 1]
    BY <1>2 DEF ExecTimeout, PoolTypeOK
  <2>2. pc[s][d] = "exec" /\ pc'[s][d] = "account" /\ metrics' = metrics
    BY <1>2 DEF ExecTimeout, Goto, shared, PoolTypeOK
  <2> QED
    BY <1>0, <2>1, <2>2 DEF Keeps, Before, Past, Parting, Locals, History
<1>3. CASE ExecError(s, d)
  <2>1. hist'[s][d] = [hist[s][d] EXCEPT !.failed = @ + 1]
    BY <1>3 DEF ExecError, PoolTypeOK
  <2>2. CASE RetriesLeft(s, d)
    <3>a. loc' = [loc EXCEPT ![s][d].attempts = @ + 1]
      BY <1>3, <2>2 DEF ExecError
    <3>1. loc'[s][d] = [loc[s][d] EXCEPT !.attempts = @ + 1]
      BY <3>a DEF PoolTypeOK
    <3>2. pc[s][d] = "exec" /\ pc'[s][d] = "exec" /\ metrics' = metrics
      BY <1>3, <2>2 DEF ExecError, shared
    <3> QED
      BY <1>0, <2>1, <3>1, <3>2 DEF Keeps, Before, Past, Parting, Locals, History
  <2>3. CASE ~RetriesLeft(s, d)
    <3>a. loc' = [loc EXCEPT ![s][d].result = "error"]
      BY <1>3, <2>3 DEF ExecError
    <3>1. loc'[s][d] = [loc[s][d] EXCEPT !.result = "error"]
      BY <3>a DEF PoolTypeOK
    <3>2. pc[s][d] = "exec" /\ pc'[s][d] = "account" /\ metrics' = metrics
      BY <1>3, <2>3 DEF ExecError, Goto, shared, PoolTypeOK
    <3> QED
      BY <1>0, <2>1, <3>1, <3>2 DEF Keeps, Before, Past, Parting, Locals, History
  <2> QED
    BY <2>2, <2>3
<1>4. CASE Account(s, d)
  <2>1. loc'[s][d] = [loc[s][d] EXCEPT !.attempts = 0] /\ hist' = hist
    BY <1>4 DEF Account, PoolTypeOK
  <2>2. pc[s][d] = "account" /\ pc'[s][d] = "classify" /\ metrics' = metrics
    BY <1>4 DEF Account, Goto, PoolTypeOK
  <2> QED
    BY <1>0, <2>1, <2>2 DEF Keeps, Before, Past, Parting, Locals
<1>5. CASE Lock(s, d)
  <2>1. loc'[s][d] = [loc[s][d] EXCEPT !.buf = counters[s]] /\ hist' = hist
    BY <1>5 DEF Lock, PoolTypeOK
  <2>2. pc[s][d] = "lock" /\ pc'[s][d] = "append" /\ metrics' = metrics
    BY <1>5 DEF Lock, Goto, PoolTypeOK
  <2> QED
    BY <1>0, <2>1, <2>2 DEF Keeps, Before, Past, Parting, Locals
<1>6. CASE Append(s, d)
  <2>1. loc'[s][d] = [loc[s][d] EXCEPT !.buf = {}, !.found = {}, !.errs = 0] /\ hist' = hist
    BY <1>6 DEF Append, PoolTypeOK
  <2>2. pc[s][d] = "append" /\ pc'[s][d] = "next" /\ metrics' = metrics
    BY <1>6 DEF Append, Goto, PoolTypeOK
  <2> QED
    BY <1>0, <2>1, <2>2 DEF Keeps, Before, Past, Parting, Locals
<1>7. CASE NoMorePorts(s, d)
  <2>1. pc[s][d] = "next" /\ pc'[s][d] = "store"
    BY <1>7 DEF NoMorePorts, Goto, PoolTypeOK
  <2>2. loc' = loc /\ hist' = hist /\ metrics' = metrics
    BY <1>7 DEF NoMorePorts, shared
  <2> QED
    BY <2>1, <2>2 DEF Keeps, Before, Past, Parting
<1>8. CASE Signal(s, d)
  <2>1. pc[s][d] = "signal" /\ pc'[s][d] = "done"
    BY <1>8 DEF Signal, Goto, PoolTypeOK
  <2>2. loc' = loc /\ hist' = hist /\ metrics' = metrics
    BY <1>8 DEF Signal
  <2> QED
    BY <2>1, <2>2 DEF Keeps, Before, Past, Parting
<1> QED
  BY <1>1, <1>2, <1>3, <1>4, <1>5, <1>6, <1>7, <1>8 DEF Exec

WorkerPart(s, d) ==
    /\ Fresh(pc[s][d], loc[s][d], hist[s][d])
    /\ Mirror(pc[s][d], loc[s][d], hist[s][d], metrics[s][d])

\* A failed base query: the history still has no -E result, so the zero value
\* that stays in the map is right.
LEMMA BaseFailedWorker ==
    ASSUME PoolTypeOK, NEW s \in Scrapes, NEW d \in Devices, WorkerPart(s, d), BaseFailed(s, d)
    PROVE  WorkerPart(s, d)'
<1>0. loc[s][d] \in Locals /\ hist[s][d] \in History
  BY DEF PoolTypeOK
<1>1. pc[s][d] = "classify" /\ loc[s][d].call = Base /\ pc'[s][d] = "release" /\ metrics' = metrics
  BY DEF BaseFailed, Goto, PoolTypeOK
<1>2. hist'[s][d] = [hist[s][d] EXCEPT !.base = loc[s][d].result]
  BY DEF BaseFailed, PoolTypeOK
<1>4. loc'[s][d].todo = loc[s][d].todo
  <2>1. \/ loc' = [loc EXCEPT ![s][d].metric.timeout = 1]
        \/ loc' = [loc EXCEPT ![s][d].metric.error = 1]
    BY DEF BaseFailed
  <2>2. CASE loc' = [loc EXCEPT ![s][d].metric.timeout = 1]
    BY <1>0, <2>2 DEF PoolTypeOK, Locals
  <2>3. CASE loc' = [loc EXCEPT ![s][d].metric.error = 1]
    BY <1>0, <2>3 DEF PoolTypeOK, Locals
  <2> QED
    BY <2>1, <2>2, <2>3
<1>5. hist'[s][d].rcv = hist[s][d].rcv
  BY <1>0, <1>2 DEF History
<1>6. hist[s][d].rcv = {} /\ loc[s][d].todo = {}
  BY <1>1 DEF WorkerPart, Fresh, Before
<1>7. Flags(metrics[s][d], {})
  BY <1>1 DEF WorkerPart, Mirror, Past
<1>8. Fresh(pc'[s][d], loc'[s][d], hist'[s][d])
  BY <1>1, <1>4, <1>6 DEF Fresh, Before, Parting
<1>9. Mirror(pc'[s][d], loc'[s][d], hist'[s][d], metrics'[s][d])
  BY <1>1, <1>5, <1>6, <1>7 DEF Mirror, Past
<1> QED
  BY <1>8, <1>9 DEF WorkerPart

\* A failed -E query sets the flag its result calls for, and no other.
LEMMA RcvErrFailedWorker ==
    ASSUME PoolTypeOK, NEW s \in Scrapes, NEW d \in Devices, WorkerPart(s, d), RcvErrFailed(s, d)
    PROVE  WorkerPart(s, d)'
<1>0. loc[s][d] \in Locals /\ loc[s][d].metric \in Metric /\ hist[s][d] \in History
  BY DEF PoolTypeOK, Locals
<1>1. pc[s][d] = "classify" /\ pc'[s][d] = "next" /\ metrics' = metrics
  BY DEF RcvErrFailed, Goto, PoolTypeOK
<1>2. hist'[s][d] = [hist[s][d] EXCEPT !.rcv = @ \cup {loc[s][d].result}]
  BY DEF RcvErrFailed, PoolTypeOK
<1>3. \/ /\ loc[s][d].result = "timeout"
         /\ loc'[s][d] = [loc[s][d] EXCEPT !.metric.rcvErrTimeout = 1]
      \/ /\ loc[s][d].result = "error"
         /\ loc'[s][d] = [loc[s][d] EXCEPT !.metric.rcvErrError = 1]
  <2>1. CASE loc[s][d].result = "timeout"
    <3>1. loc' = [loc EXCEPT ![s][d].metric.rcvErrTimeout = 1]
      BY <2>1 DEF RcvErrFailed
    <3> QED
      BY <2>1, <3>1 DEF PoolTypeOK
  <2>2. CASE loc[s][d].result = "error"
    <3>1. loc' = [loc EXCEPT ![s][d].metric.rcvErrError = 1]
      BY <2>2 DEF RcvErrFailed
    <3> QED
      BY <2>2, <3>1 DEF PoolTypeOK
  <2> QED
    BY <2>1, <2>2 DEF RcvErrFailed
<1>4. loc'[s][d].todo = loc[s][d].todo /\ loc'[s][d].call = loc[s][d].call
  BY <1>0, <1>3 DEF Locals
<1>5. /\ hist'[s][d].rcv = hist[s][d].rcv \cup {loc[s][d].result}
      /\ hist'[s][d].parsed = hist[s][d].parsed
  BY <1>0, <1>2 DEF History
<1>6. Flags(loc[s][d].metric, hist[s][d].rcv) /\ Flags(metrics[s][d], {})
  BY <1>1 DEF WorkerPart, Mirror, Past
<1>7. Flags(loc'[s][d].metric, hist'[s][d].rcv)
  <2>1. CASE loc[s][d].result = "timeout"
    <3>1. loc'[s][d].metric = [loc[s][d].metric EXCEPT !.rcvErrTimeout = 1]
      BY <1>0, <1>3, <2>1 DEF Locals
    <3> QED
      BY <1>0, <1>5, <1>6, <2>1, <3>1 DEF Flags, Metric
  <2>2. CASE loc[s][d].result = "error"
    <3>1. loc'[s][d].metric = [loc[s][d].metric EXCEPT !.rcvErrError = 1]
      BY <1>0, <1>3, <2>2 DEF Locals
    <3> QED
      BY <1>0, <1>5, <1>6, <2>2, <3>1 DEF Flags, Metric
  <2> QED
    BY <1>3, <2>1, <2>2
<1>8. Fresh(pc'[s][d], loc'[s][d], hist'[s][d])
  BY <1>1, <1>4, <1>5 DEF WorkerPart, Fresh, Before, Parting
<1>9. Mirror(pc'[s][d], loc'[s][d], hist'[s][d], metrics'[s][d])
  BY <1>1, <1>6, <1>7 DEF Mirror, Past
<1> QED
  BY <1>8, <1>9 DEF WorkerPart

\* What Parsed makes of the history and of the ports to come.
LEMMA ParsedEffect ==
    ASSUME PoolTypeOK, NEW s \in Scrapes, NEW d \in Devices, Parsed(s, d)
    PROVE  /\ pc[s][d] = "classify" /\ pc'[s][d] \in {"lock", "next"}
           /\ loc'[s][d].call = loc[s][d].call /\ loc'[s][d].found = loc[s][d].found
           /\ loc'[s][d].metric = loc[s][d].metric
           /\ \/ /\ loc[s][d].call = Base
                 /\ loc'[s][d].todo \subseteq AllPorts
                 /\ hist'[s][d].parsed = {<<p, Base>> : p \in {x \in loc[s][d].found : CollectBase}}
                 /\ hist'[s][d].rcv = hist[s][d].rcv
                 /\ pc'[s][d] = "lock" <=> CollectBase
              \/ /\ loc[s][d].call # Base
                 /\ loc'[s][d].todo = loc[s][d].todo
                 /\ hist'[s][d].parsed =
                      hist[s][d].parsed \cup {<<p, loc[s][d].call>> : p \in loc[s][d].found}
                 /\ hist'[s][d].rcv = hist[s][d].rcv \cup {"ok"}
                 /\ pc'[s][d] = "lock"
<1>0. loc[s][d] \in Locals /\ hist[s][d] \in History
  BY DEF PoolTypeOK
<1>1. CASE loc[s][d].call = Base
  <2> DEFINE td == IF CollectRcvErr THEN loc[s][d].found ELSE {}
             ps == {<<p, Base>> : p \in {x \in loc[s][d].found : CollectBase}}
  <2>1. /\ loc' = [loc EXCEPT ![s][d].todo = td]
        /\ hist' = [hist EXCEPT ![s][d] = [@ EXCEPT !.base = "ok", !.parsed = ps]]
        /\ Goto(s, d, IF CollectBase THEN "lock" ELSE "next")
        /\ pc[s][d] = "classify"
    BY <1>1 DEF Parsed
  <2>2. td \subseteq AllPorts
    BY <1>0 DEF Locals
  <2> HIDE DEF td, ps
  <2>3. /\ loc'[s][d] = [loc[s][d] EXCEPT !.todo = td]
        /\ hist'[s][d] = [hist[s][d] EXCEPT !.base = "ok", !.parsed = ps]
    BY <2>1 DEF PoolTypeOK
  <2>4. /\ pc'[s][d] \in {"lock", "next"}
        /\ pc'[s][d] = "lock" <=> CollectBase
    BY <2>1 DEF Goto, PoolTypeOK
  <2>5. /\ loc'[s][d].call = loc[s][d].call /\ loc'[s][d].found = loc[s][d].found
        /\ loc'[s][d].metric = loc[s][d].metric /\ loc'[s][d].todo = td
    BY <1>0, <2>3 DEF Locals
  <2>6. hist'[s][d].parsed = ps /\ hist'[s][d].rcv = hist[s][d].rcv
    BY <1>0, <2>3 DEF History
  <2> QED
    BY <1>1, <2>1, <2>2, <2>4, <2>5, <2>6 DEF ps
<1>2. CASE loc[s][d].call # Base
  <2> DEFINE r == hist[s][d].rcv \cup {"ok"}
             ps == hist[s][d].parsed \cup {<<p, loc[s][d].call>> : p \in loc[s][d].found}
  <2>1. /\ loc' = loc
        /\ hist' = [hist EXCEPT ![s][d] = [hist[s][d] EXCEPT !.rcv = r, !.parsed = ps]]
        /\ Goto(s, d, "lock")
        /\ pc[s][d] = "classify"
    BY <1>2 DEF Parsed
  <2> HIDE DEF r, ps
  <2>2. hist'[s][d] = [hist[s][d] EXCEPT !.rcv = r, !.parsed = ps]
    BY <2>1 DEF PoolTypeOK
  <2>3. pc'[s][d] = "lock"
    BY <2>1 DEF Goto, PoolTypeOK
  <2>4. hist'[s][d].parsed = ps /\ hist'[s][d].rcv = r
    BY <1>0, <2>2 DEF History
  <2> QED
    BY <1>2, <2>1, <2>3, <2>4 DEF r, ps
<1> QED
  BY <1>1, <1>2

\* A parsed call is no longer to come, and a success sets no flag.
LEMMA ParsedWorker ==
    ASSUME PoolTypeOK, NEW s \in Scrapes, NEW d \in Devices, WorkerPart(s, d), Parsed(s, d)
    PROVE  WorkerPart(s, d)'
<1> DEFINE l == loc[s][d]
<1>1. Fresh(pc[s][d], l, hist[s][d]) /\ Mirror(pc[s][d], l, hist[s][d], metrics[s][d])
  BY DEF WorkerPart
<1>2. /\ pc[s][d] = "classify" /\ pc'[s][d] \notin Before /\ pc'[s][d] \notin Past
      /\ loc'[s][d].call = l.call /\ loc'[s][d].metric = l.metric
      /\ metrics' = metrics
  BY ParsedEffect DEF Before, Past, Parsed
<1>3. \A r \in loc'[s][d].todo : r # l.call /\ \A p \in AllPorts : <<p, r>> \notin hist'[s][d].parsed
  <2>1. CASE l.call = Base
    BY <2>1, ParsedEffect, PortsAssumption
  <2>2. CASE l.call # Base
    BY <1>1, <2>2, ParsedEffect DEF Fresh
  <2> QED
    BY <2>1, <2>2
<1>a. pc'[s][d] \in Parting => \A p \in loc'[s][d].found : <<p, l.call>> \in hist'[s][d].parsed
  BY ParsedEffect DEF Parting
<1>4. Fresh(pc'[s][d], loc'[s][d], hist'[s][d])
  BY <1>2, <1>3, <1>a DEF Fresh
<1>5. Flags(l.metric, hist'[s][d].rcv) /\ Flags(metrics[s][d], {})
  BY <1>1, <1>2, ParsedEffect DEF Mirror, Flags, Past
<1>6. Mirror(pc'[s][d], loc'[s][d], hist'[s][d], metrics'[s][d])
  BY <1>2, <1>5 DEF Mirror
<1> QED
  BY <1>4, <1>6 DEF WorkerPart

\* The next port's call has not been parsed, and is taken off the ports to come.
LEMMA NextPortWorker ==
    ASSUME PoolTypeOK, NEW s \in Scrapes, NEW d \in Devices, WorkerPart(s, d), NextPort(s, d)
    PROVE  WorkerPart(s, d)'
<1>0. loc[s][d] \in Locals
  BY DEF PoolTypeOK
<1>1. PICK p \in loc[s][d].todo :
        loc' = [loc EXCEPT ![s][d] = [loc[s][d] EXCEPT !.call = p, !.todo = loc[s][d].todo \ {p}]]
  BY DEF NextPort
<1>2. loc'[s][d] = [loc[s][d] EXCEPT !.call = p, !.todo = loc[s][d].todo \ {p}]
  BY <1>1 DEF PoolTypeOK
<1>3. /\ loc'[s][d].call = p /\ loc'[s][d].todo = loc[s][d].todo \ {p}
      /\ loc'[s][d].metric = loc[s][d].metric
  BY <1>0, <1>2 DEF Locals
<1>4. p # Base
  BY <1>0, PortsAssumption DEF Locals
<1>5. /\ pc[s][d] = "next" /\ pc'[s][d] = "exec"
      /\ hist' = hist /\ metrics' = metrics
  BY DEF NextPort, Goto, shared, PoolTypeOK
<1>6. Fresh(pc'[s][d], loc'[s][d], hist'[s][d])
  BY <1>3, <1>4, <1>5 DEF WorkerPart, Fresh, Parting
<1>7. Mirror(pc'[s][d], loc'[s][d], hist'[s][d], metrics'[s][d])
  BY <1>3, <1>5 DEF WorkerPart, Mirror, Past
<1> QED
  BY <1>6, <1>7 DEF WorkerPart

\* The store moves the flags from the worker to the map; afterwards its locals
\* do not matter.
LEMMA EndWorker ==
    ASSUME PoolTypeOK, NEW s \in Scrapes, NEW d \in Devices, WorkerPart(s, d),
           Store(s, d) \/ Release(s, d)
    PROVE  WorkerPart(s, d)'
<1>1. CASE Store(s, d)
  <2>1. /\ pc[s][d] = "store" /\ pc'[s][d] = "release"
        /\ metrics'[s][d] = loc[s][d].metric /\ loc' = loc /\ hist' = hist
    BY <1>1 DEF Store, Goto, PoolTypeOK
  <2> QED
    BY <2>1 DEF WorkerPart, Fresh, Mirror, Before, Past, Parting
<1>2. CASE Release(s, d)
  <2>1. /\ pc[s][d] = "release" /\ pc'[s][d] = "signal"
        /\ loc'[s][d] = NoLocals /\ metrics' = metrics /\ hist' = hist
    BY <1>2 DEF Release, Goto, PoolTypeOK
  <2>2. NoLocals.todo = {}
    BY DEF NoLocals
  <2> QED
    BY <2>1, <2>2 DEF WorkerPart, Fresh, Mirror, Before, Past, Parting
<1> QED
  BY <1>1, <1>2

\* Every step of a worker keeps its part, and the others' are not touched.
LEMMA WorkerStep ==
    ASSUME PoolTypeOK, WorkerInv, NEW s \in Scrapes, NEW d \in Devices, Work(s, d)
    PROVE  WorkerInv'
<1>0. \A t \in Scrapes, e \in Devices : WorkerPart(t, e)
  BY DEF WorkerInv, WorkerPart
<1>1. WorkerPart(s, d)'
  <2>1. CASE \/ Exec(s, d) \/ Account(s, d) \/ Lock(s, d) \/ Append(s, d)
             \/ NoMorePorts(s, d) \/ Signal(s, d)
    BY <1>0, <2>1, KeepingSteps, KeepsWorker DEF WorkerPart
  <2>2. CASE BaseFailed(s, d) \/ RcvErrFailed(s, d) \/ Parsed(s, d)
    BY <1>0, <2>2, BaseFailedWorker, RcvErrFailedWorker, ParsedWorker
  <2>3. CASE NextPort(s, d) \/ Store(s, d) \/ Release(s, d)
    BY <1>0, <2>3, NextPortWorker, EndWorker
  <2> QED
    BY <2>1, <2>2, <2>3 DEF Work
<1>2. ASSUME NEW t \in Scrapes, NEW e \in Devices, t # s \/ e # d
      PROVE  WorkerPart(t, e)'
  BY <1>0, <1>2, Elsewhere DEF WorkerPart
<1> QED
  BY <1>1, <1>2 DEF WorkerInv, WorkerPart

-----------------------------------------------------------------------------
(* The lock and the slice.                                                 *)

\* No two workers are between Lock and Append, so the slice a worker read is
\* still the slice when it writes it.
LEMMA LockStep ==
    ASSUME PoolTypeOK, LockInv, NEW s \in Scrapes, NEW d \in Devices, Work(s, d)
    PROVE  LockInv'
<1> SUFFICES ASSUME NEW t \in Scrapes, NEW e \in Devices, pc'[t][e] = "append"
             PROVE  mu'[t] = e /\ loc'[t][e].buf = counters'[t]
  BY DEF LockInv
<1>0. 0 \notin Devices /\ mu \in [Scrapes -> 0..N]
  BY CountsAssumption DEF Devices, PoolTypeOK
<1>1. CASE Lock(s, d)
  <2>1. /\ mu[s] = 0 /\ mu' = [mu EXCEPT ![s] = d] /\ counters' = counters
        /\ loc' = [loc EXCEPT ![s][d].buf = counters[s]]
    BY <1>1 DEF Lock, LockFree
  <2>2. CASE t = s /\ e = d
    <3>1. loc'[s][d] = [loc[s][d] EXCEPT !.buf = counters[s]] /\ loc[s][d] \in Locals
      BY <2>1 DEF PoolTypeOK
    <3> QED
      BY <1>0, <2>1, <2>2, <3>1 DEF Locals
  <2>3. CASE t # s \/ e # d
    <3>1. mu[t] = e /\ loc'[t][e].buf = counters[t]
      BY <2>3, Elsewhere DEF LockInv
    <3> QED
      BY <1>0, <2>1, <3>1
  <2> QED
    BY <2>2, <2>3
<1>2. CASE Append(s, d)
  <2>1. /\ mu[s] = d /\ pc'[s][d] = "next"
        /\ mu' = [mu EXCEPT ![s] = 0] /\ \A x \in Scrapes \ {s} : counters'[x] = counters[x]
    BY <1>2 DEF Append, Goto, PoolTypeOK, LockInv
  <2>2. t # s \/ e # d
    BY <2>1
  <2>3. mu[t] = e /\ loc'[t][e].buf = counters[t]
    BY <2>2, Elsewhere DEF LockInv
  <2> QED
    BY <1>0, <2>1, <2>2, <2>3
<1>3. CASE ~Lock(s, d) /\ ~Append(s, d)
  <2>1. mu' = mu /\ counters' = counters
    BY <1>3, SliceWriter
  <2>2. pc'[s][d] # "append"
    <3>1. (pc' = pc /\ pc[s][d] = "exec") \/ \E l \in WorkerPCs \ {"append"} : Goto(s, d, l)
      BY <1>3 DEF Work, Exec, ExecOk, ExecTimeout, ExecError, Account, BaseFailed, RcvErrFailed,
                  Parsed, NextPort, NoMorePorts, Store, Release, Signal, WorkerPCs
    <3> QED
      BY <3>1 DEF Goto, PoolTypeOK
  <2>3. mu[t] = e /\ loc'[t][e].buf = counters[t]
    BY <2>2, Elsewhere DEF LockInv
  <2> QED
    BY <2>1, <2>3
<1> QED
  BY <1>1, <1>2, <1>3

\* Apart from Parsed and Append no step changes what has been parsed or what
\* waits for its append.
LEMMA WaitingSame ==
    ASSUME PoolTypeOK, NEW s \in Scrapes, NEW d \in Devices, Work(s, d),
           ~Parsed(s, d), ~Append(s, d)
    PROVE  /\ hist'[s][d].parsed = hist[s][d].parsed
           /\ \A p, c : Waiting(pc'[s][d], loc'[s][d], p, c) <=> Waiting(pc[s][d], loc[s][d], p, c)
<1>1. CASE Lock(s, d)
  <2>1. /\ loc' = [loc EXCEPT ![s][d].buf = counters[s]]
        /\ pc[s][d] = "lock" /\ Goto(s, d, "append") /\ hist' = hist
    BY <1>1 DEF Lock
  <2>2. /\ loc'[s][d] = [loc[s][d] EXCEPT !.buf = counters[s]] /\ loc[s][d] \in Locals
        /\ pc'[s][d] = "append"
    BY <2>1 DEF PoolTypeOK, Goto
  <2>3. loc'[s][d].call = loc[s][d].call /\ loc'[s][d].found = loc[s][d].found
    BY <2>2 DEF Locals
  <2> QED
    BY <2>1, <2>2, <2>3 DEF Waiting, Parting
<1>2. CASE ~Lock(s, d)
  <2>1. pc[s][d] \notin Parting /\ pc'[s][d] \notin Parting
    <3>1. pc[s][d] \notin Parting /\ (pc' = pc \/ \E l \in WorkerPCs \ Parting : Goto(s, d, l))
      BY <1>2 DEF Work, Exec, ExecOk, ExecTimeout, ExecError, Account, BaseFailed, RcvErrFailed,
                  NextPort, NoMorePorts, Store, Release, Signal, WorkerPCs, Parting
    <3> QED
      BY <3>1 DEF Goto, PoolTypeOK
  <2>2. ASSUME Exec(s, d) \/ Account(s, d) \/ NoMorePorts(s, d) \/ Signal(s, d)
        PROVE  hist'[s][d].parsed = hist[s][d].parsed
    BY <2>2, KeepingSteps DEF Keeps
  <2>3. ASSUME BaseFailed(s, d) \/ RcvErrFailed(s, d)
        PROVE  hist'[s][d].parsed = hist[s][d].parsed
    <3>1. hist[s][d] \in History
      BY DEF PoolTypeOK
    <3>2. CASE BaseFailed(s, d)
      <4>1. hist'[s][d] = [hist[s][d] EXCEPT !.base = loc[s][d].result]
        BY <3>2 DEF BaseFailed, PoolTypeOK
      <4> QED
        BY <3>1, <4>1 DEF History
    <3>3. CASE RcvErrFailed(s, d)
      <4>1. hist'[s][d] = [hist[s][d] EXCEPT !.rcv = @ \cup {loc[s][d].result}]
        BY <3>3 DEF RcvErrFailed, PoolTypeOK
      <4> QED
        BY <3>1, <4>1 DEF History
    <3> QED
      BY <2>3, <3>2, <3>3
  <2>4. ASSUME NextPort(s, d) \/ Store(s, d) \/ Release(s, d)
        PROVE  hist' = hist
    BY <2>4 DEF NextPort, Store, Release
  <2>5. hist'[s][d].parsed = hist[s][d].parsed
    BY <1>2, <2>2, <2>3, <2>4 DEF Work
  <2> QED
    BY <2>1, <2>5 DEF Waiting
<1> QED
  BY <1>1, <1>2

SlicePart(s, d) ==
    \A p \in AllPorts, c \in Calls :
        <<d, p, c>> \in counters[s] <=>
            <<p, c>> \in hist[s][d].parsed /\ ~Waiting(pc[s][d], loc[s][d], p, c)

\* What is parsed waits for its append, and was not in the slice before.
LEMMA ParsedSlice ==
    ASSUME PoolTypeOK, NEW s \in Scrapes, NEW d \in Devices, WorkerPart(s, d), SlicePart(s, d),
           Parsed(s, d)
    PROVE  SlicePart(s, d)'
<1> SUFFICES ASSUME NEW p \in AllPorts, NEW c \in Calls
             PROVE  <<d, p, c>> \in counters'[s] <=>
                      <<p, c>> \in hist'[s][d].parsed /\ ~Waiting(pc'[s][d], loc'[s][d], p, c)
  BY DEF SlicePart
<1>1. counters' = counters
  BY DEF Parsed
<1>2. pc[s][d] = "classify" /\ pc[s][d] \in Before /\ pc[s][d] \notin Parting
  BY ParsedEffect DEF Before, Parting
<1>3. <<d, p, c>> \in counters[s] <=> <<p, c>> \in hist[s][d].parsed
  BY <1>2 DEF SlicePart, Waiting
<1>4. CASE loc[s][d].call = Base
  <2>1. hist[s][d].parsed = {}
    BY <1>2, <1>4 DEF WorkerPart, Fresh
  <2>2. <<p, c>> \in hist'[s][d].parsed <=> CollectBase /\ c = Base /\ p \in loc[s][d].found
    BY <1>4, ParsedEffect
  <2>3. Waiting(pc'[s][d], loc'[s][d], p, c) <=> CollectBase /\ c = Base /\ p \in loc[s][d].found
    BY <1>4, ParsedEffect DEF Waiting, Parting
  <2> QED
    BY <1>1, <1>3, <2>1, <2>2, <2>3
<1>5. CASE loc[s][d].call # Base
  <2>1. <<p, loc[s][d].call>> \notin hist[s][d].parsed
    BY <1>2 DEF WorkerPart, Fresh
  <2>2. <<p, c>> \in hist'[s][d].parsed <=>
          <<p, c>> \in hist[s][d].parsed \/ (c = loc[s][d].call /\ p \in loc[s][d].found)
    BY <1>5, ParsedEffect
  <2>3. Waiting(pc'[s][d], loc'[s][d], p, c) <=> c = loc[s][d].call /\ p \in loc[s][d].found
    BY <1>5, ParsedEffect DEF Waiting, Parting
  <2> QED
    BY <1>1, <1>3, <2>1, <2>2, <2>3
<1> QED
  BY <1>4, <1>5

\* The append adds what waits for it to the slice as it is, for the device of
\* its worker only.
LEMMA AppendSlice ==
    ASSUME PoolTypeOK, LockInv, NEW s \in Scrapes, NEW d \in Devices, WorkerPart(s, d), Append(s, d),
           NEW e \in Devices, SlicePart(s, e)
    PROVE  SlicePart(s, e)'
<1> SUFFICES ASSUME NEW p \in AllPorts, NEW c \in Calls
             PROVE  <<e, p, c>> \in counters'[s] <=>
                      <<p, c>> \in hist'[s][e].parsed /\ ~Waiting(pc'[s][e], loc'[s][e], p, c)
  BY DEF SlicePart
<1>1. /\ pc[s][d] = "append" /\ pc'[s][d] = "next" /\ hist' = hist
      /\ counters'[s] = loc[s][d].buf \cup {<<d, x, loc[s][d].call>> : x \in loc[s][d].found}
  BY DEF Append, Goto, PoolTypeOK
<1>2. loc[s][d].buf = counters[s]
  BY <1>1 DEF LockInv
<1>3. <<e, p, c>> \in counters[s] <=>
        <<p, c>> \in hist[s][e].parsed /\ ~Waiting(pc[s][e], loc[s][e], p, c)
  BY DEF SlicePart
<1>4. CASE e = d
  <2>1. Waiting(pc[s][d], loc[s][d], p, c) <=> c = loc[s][d].call /\ p \in loc[s][d].found
    BY <1>1 DEF Waiting, Parting
  <2>2. Waiting(pc[s][d], loc[s][d], p, c) => <<p, c>> \in hist[s][d].parsed
    BY <1>1, <2>1 DEF WorkerPart, Fresh, Parting
  <2>3. ~Waiting(pc'[s][d], loc'[s][d], p, c)
    BY <1>1 DEF Waiting, Parting
  <2>4. <<d, p, c>> \in counters'[s] <=>
          <<d, p, c>> \in counters[s] \/ (c = loc[s][d].call /\ p \in loc[s][d].found)
    BY <1>1, <1>2
  <2> QED
    BY <1>1, <1>3, <1>4, <2>1, <2>2, <2>3, <2>4
<1>5. CASE e # d
  <2>1. <<e, p, c>> \in counters'[s] <=> <<e, p, c>> \in counters[s]
    BY <1>1, <1>2, <1>5
  <2>2. pc'[s][e] = pc[s][e] /\ loc'[s][e] = loc[s][e]
    BY <1>5, Elsewhere DEF Work
  <2> QED
    BY <1>1, <1>3, <2>1, <2>2
<1> QED
  BY <1>4, <1>5

LEMMA SliceStep ==
    ASSUME PoolTypeOK, LockInv, WorkerInv, SliceInv, NEW s \in Scrapes, NEW d \in Devices, Work(s, d)
    PROVE  SliceInv'
<1> SUFFICES ASSUME NEW t \in Scrapes, NEW e \in Devices
             PROVE  SlicePart(t, e)'
  BY DEF SliceInv, SlicePart
<1>0. SlicePart(t, e) /\ WorkerPart(s, d)
  BY DEF SliceInv, SlicePart, WorkerInv, WorkerPart
<1>1. CASE Append(s, d) /\ t = s
  BY <1>0, <1>1, AppendSlice
<1>2. CASE Parsed(s, d) /\ t = s /\ e = d
  BY <1>0, <1>2, ParsedSlice
<1>3. CASE ~(Append(s, d) /\ t = s) /\ ~(Parsed(s, d) /\ t = s /\ e = d)
  <2>1. counters'[t] = counters[t]
    <3>1. CASE Append(s, d)
      BY <1>3, <3>1 DEF Append, PoolTypeOK
    <3> QED
      BY <3>1, SliceWriter
  <2>2. CASE t # s \/ e # d
    <3>1. pc'[t][e] = pc[t][e] /\ loc'[t][e] = loc[t][e] /\ hist'[t][e] = hist[t][e]
      BY <2>2, Elsewhere
    <3> QED
      BY <1>0, <2>1, <3>1 DEF SlicePart
  <2>3. CASE t = s /\ e = d
    BY <1>0, <1>3, <2>1, <2>3, WaitingSame DEF SlicePart
  <2> QED
    BY <2>2, <2>3
<1> QED
  BY <1>1, <1>2, <1>3

-----------------------------------------------------------------------------
(* The dispatcher, and what it emits.                                      *)

\* The dispatcher moves a worker only from its start.
LEMMA DispatchWorkers ==
    ASSUME PoolTypeOK, ControlInv, LockInv, WorkerInv, SliceInv, NEW s \in Scrapes, Dispatch(s)
    PROVE  /\ UNCHANGED <<loc, hist, metrics, counters, mu>>
           /\ LockInv' /\ WorkerInv' /\ SliceInv'
<1>1. UNCHANGED <<loc, hist, metrics, counters, mu>>
  BY DEF Dispatch, Start, Acquire, Launch, WaitAll, Emit, LoadTotals, LoadTotal, shared
<1>2. ASSUME NEW t \in Scrapes, NEW e \in Devices
      PROVE  pc'[t][e] = pc[t][e] \/ (pc[t][e] = "idle" /\ pc'[t][e] = "exec")
  <2>1. CASE Launch(s)
    <3>1. next[s] \in Devices /\ pc' = [pc EXCEPT ![s][next[s]] = "exec"]
      BY <2>1, LaunchControl DEF Launch
    <3>2. pc[s][next[s]] = "idle"
      BY <3>1, CountsAssumption DEF ControlInv, LaunchInv, PoolTypeOK, Devices
    <3> QED
      BY <3>1, <3>2 DEF PoolTypeOK
  <2>2. CASE ~Launch(s)
    BY <2>2 DEF Dispatch, Start, Acquire, WaitAll, Emit, LoadTotals, LoadTotal
  <2> QED
    BY <2>1, <2>2
<1>3. LockInv'
  BY <1>1, <1>2 DEF LockInv
<1>4. WorkerInv'
  BY <1>1, <1>2 DEF WorkerInv, Fresh, Mirror, Before, Past, Parting
<1>5. SliceInv'
  <2> SUFFICES ASSUME NEW t \in Scrapes, NEW e \in Devices
               PROVE  SlicePart(t, e)'
    BY DEF SliceInv, SlicePart
  <2>1. SlicePart(t, e)
    BY DEF SliceInv, SlicePart
  <2>2. pc'[t][e] \in Parting <=> pc[t][e] \in Parting
    BY <1>2 DEF Parting
  <2>3. loc' = loc /\ hist' = hist /\ counters' = counters
    BY <1>1
  <2> QED
    BY <2>1, <2>2, <2>3 DEF SlicePart, Waiting
<1> QED
  BY <1>1, <1>3, <1>4, <1>5

\* A worker's step is a step of a scrape that has not emitted, and leaves the
\* others' history and output alone.
LEMMA WorkEmission ==
    ASSUME PoolTypeOK, QuietAfterWait, NoLostSeries, RcvErrGaugesExact,
           NEW s \in Scrapes, NEW d \in Devices, Work(s, d)
    PROVE  NoLostSeries' /\ RcvErrGaugesExact'
<1>1. disp' = disp /\ out' = out /\ pc[s][d] # "done"
  BY SliceWriter
<1>2. ~Emitted(s)
  BY <1>1 DEF QuietAfterWait, Returned, Emitted, At
<1>3. ASSUME NEW t \in Scrapes, Emitted(t), NEW e \in Devices
      PROVE  hist'[t][e] = hist[t][e]
  BY <1>2, <1>3, Elsewhere
<1>4. NoLostSeries'
  <2> SUFFICES ASSUME NEW t \in Scrapes, Emitted(t)
               PROVE  out[t].counters =
                        {c \in Series : <<c[2], c[3]>> \in hist'[t][c[1]].parsed}
    BY <1>1 DEF NoLostSeries, Emitted
  <2>1. \A c \in Series : c[1] \in Devices
    BY DEF Series
  <2>2. \A c \in Series : hist'[t][c[1]] = hist[t][c[1]]
    BY <1>3, <2>1
  <2>3. out[t].counters = {c \in Series : <<c[2], c[3]>> \in hist[t][c[1]].parsed}
    BY DEF NoLostSeries
  <2> QED
    BY <2>2, <2>3
<1>5. RcvErrGaugesExact'
  <2> SUFFICES ASSUME NEW t \in Scrapes, Emitted(t), NEW e \in DOMAIN out[t].rcvErrError
               PROVE  /\ out[t].rcvErrTimeout[e] = 1 <=> "timeout" \in hist'[t][e].rcv
                      /\ out[t].rcvErrError[e] = 1 <=> "error" \in hist'[t][e].rcv
    BY <1>1 DEF RcvErrGaugesExact, Emitted
  <2>1. e \in Devices
    <3>1. out[t].rcvErrError \in Gauges(0..1)
      BY DEF PoolTypeOK, Output
    <3> QED
      BY <3>1 DEF Gauges
  <2>2. hist'[t][e] = hist[t][e]
    BY <1>3, <2>1
  <2> QED
    BY <2>2 DEF RcvErrGaugesExact
<1> QED
  BY <1>4, <1>5

\* When the dispatcher emits, every worker has ended: nothing waits for its
\* append and every metric is in the map.
LEMMA EmitExact ==
    ASSUME PoolTypeOK, QuietAfterWait, WorkerInv, SliceInv, NEW s \in Scrapes, Emit(s)
    PROVE  /\ out'[s].counters = {c \in Series : <<c[2], c[3]>> \in hist[s][c[1]].parsed}
           /\ \A d \in DOMAIN out'[s].rcvErrError :
                 /\ out'[s].rcvErrTimeout[d] = 1 <=> "timeout" \in hist[s][d].rcv
                 /\ out'[s].rcvErrError[d] = 1 <=> "error" \in hist[s][d].rcv
           /\ \A t \in Scrapes : t # s => out'[t] = out[t]
<1> DEFINE up == [d \in {x \in Devices : CollectBase} |->
                       1 - metrics[s][d].error - metrics[s][d].timeout]
           re == [d \in {x \in Devices : CollectRcvErr} |-> metrics[s][d].rcvErrError]
           rt == [d \in {x \in Devices : CollectRcvErr} |-> metrics[s][d].rcvErrTimeout]
<1>1. \A d \in Devices : pc[s][d] = "done"
  BY DEF Emit, QuietAfterWait, Returned, At
<1>2. out' = [out EXCEPT ![s] = [@ EXCEPT !.counters = counters[s], !.up = up,
                                   !.rcvErrError = re, !.rcvErrTimeout = rt]]
  BY DEF Emit
<1>3. \A d \in DOMAIN re : /\ rt[d] = 1 <=> "timeout" \in hist[s][d].rcv
                           /\ re[d] = 1 <=> "error" \in hist[s][d].rcv
  <2> SUFFICES ASSUME NEW d \in Devices, CollectRcvErr
               PROVE  Flags(metrics[s][d], hist[s][d].rcv)
    BY DEF Flags
  <2> QED
    BY <1>1 DEF WorkerInv, Mirror, Past
<1>4. counters[s] = {c \in Series : <<c[2], c[3]>> \in hist[s][c[1]].parsed}
  <2>1. counters[s] \subseteq Series
    BY DEF PoolTypeOK
  <2>2. ASSUME NEW d \in Devices, NEW p \in AllPorts, NEW c \in Calls
        PROVE  <<d, p, c>> \in counters[s] <=> <<p, c>> \in hist[s][d].parsed
    BY <1>1 DEF SliceInv, Waiting, Parting
  <2>3. \A c \in Series : c = <<c[1], c[2], c[3]>> /\ c[1] \in Devices /\ c[2] \in AllPorts /\ c[3] \in Calls
    BY DEF Series
  <2>4. \A c \in Series : c \in counters[s] <=> <<c[2], c[3]>> \in hist[s][c[1]].parsed
    BY <2>2, <2>3
  <2> QED
    BY <2>1, <2>4
<1> HIDE DEF up, re, rt
<1>5. out[s] \in Output
  BY DEF PoolTypeOK
<1>6. out'[s] = [out[s] EXCEPT !.counters = counters[s], !.up = up,
                               !.rcvErrError = re, !.rcvErrTimeout = rt]
  BY <1>2 DEF PoolTypeOK
<1>7. /\ out'[s].counters = counters[s]
      /\ out'[s].rcvErrError = re /\ out'[s].rcvErrTimeout = rt
  BY <1>5, <1>6 DEF Output
<1>8. \A t \in Scrapes : t # s => out'[t] = out[t]
  BY <1>2 DEF PoolTypeOK
<1> QED
  BY <1>3, <1>4, <1>7, <1>8

\* The three loads that follow change neither series nor gauges.
LEMMA LoadEmission ==
    ASSUME PoolTypeOK, NEW s \in Scrapes, LoadTotals(s), NEW t \in Scrapes
    PROVE  /\ out'[t].counters = out[t].counters
           /\ out'[t].rcvErrError = out[t].rcvErrError
           /\ out'[t].rcvErrTimeout = out[t].rcvErrTimeout
           /\ Emitted(t)' => Emitted(t)
<1>1. /\ \/ out' = [out EXCEPT ![s] = [@ EXCEPT !["errors"] = totals["errors"]]]
         \/ out' = [out EXCEPT ![s] = [@ EXCEPT !["timeouts"] = totals["timeouts"]]]
         \/ out' = [out EXCEPT ![s] = [@ EXCEPT !["retries"] = totals["retries"]]]
      /\ disp[s] \in {"errors", "timeouts", "retries"}
  BY DEF LoadTotals, LoadTotal
<1>2. out[t] \in Output
  BY DEF PoolTypeOK
<1>3. Emitted(t)' => Emitted(t)
  BY <1>1 DEF LoadTotals, LoadTotal, Emitted, PoolTypeOK
<1>4. CASE t # s
  BY <1>1, <1>3, <1>4 DEF PoolTypeOK
<1>5. CASE t = s
  <2>1. \/ out'[s] = [out[s] EXCEPT !["errors"] = totals["errors"]]
        \/ out'[s] = [out[s] EXCEPT !["timeouts"] = totals["timeouts"]]
        \/ out'[s] = [out[s] EXCEPT !["retries"] = totals["retries"]]
    BY <1>1 DEF PoolTypeOK
  <2> QED
    BY <1>2, <1>3, <1>5, <2>1 DEF Output
<1> QED
  BY <1>4, <1>5

LEMMA DispatchEmission ==
    ASSUME PoolTypeOK, QuietAfterWait, WorkerInv, SliceInv, NoLostSeries, RcvErrGaugesExact,
           hist' = hist, NEW s \in Scrapes, Dispatch(s)
    PROVE  NoLostSeries' /\ RcvErrGaugesExact'
<1>1. CASE Emit(s)
  <2>1. \A t \in Scrapes : t # s => out'[t] = out[t] /\ (Emitted(t)' => Emitted(t))
    BY <1>1, EmitExact DEF Emit, Emitted, PoolTypeOK
  <2>2. NoLostSeries'
    <3> SUFFICES ASSUME NEW t \in Scrapes, Emitted(t)'
                 PROVE  out'[t].counters =
                          {c \in Series : <<c[2], c[3]>> \in hist[t][c[1]].parsed}
      BY DEF NoLostSeries
    <3>1. CASE t = s
      BY <1>1, <3>1, EmitExact
    <3>2. CASE t # s
      BY <2>1, <3>2 DEF NoLostSeries
    <3> QED
      BY <3>1, <3>2
  <2>3. RcvErrGaugesExact'
    <3> SUFFICES ASSUME NEW t \in Scrapes, Emitted(t)', NEW d \in DOMAIN out'[t].rcvErrError
                 PROVE  /\ out'[t].rcvErrTimeout[d] = 1 <=> "timeout" \in hist[t][d].rcv
                        /\ out'[t].rcvErrError[d] = 1 <=> "error" \in hist[t][d].rcv
      BY DEF RcvErrGaugesExact
    <3>1. CASE t = s
      BY <1>1, <3>1, EmitExact
    <3>2. CASE t # s
      BY <2>1, <3>2 DEF RcvErrGaugesExact
    <3> QED
      BY <3>1, <3>2
  <2> QED
    BY <2>2, <2>3
<1>2. CASE ~Emit(s)
  <2>1. ASSUME NEW t \in Scrapes
        PROVE  /\ out'[t].counters = out[t].counters
               /\ out'[t].rcvErrError = out[t].rcvErrError
               /\ out'[t].rcvErrTimeout = out[t].rcvErrTimeout
               /\ Emitted(t)' => Emitted(t)
    <3>1. CASE LoadTotals(s)
      BY <3>1, LoadEmission
    <3>2. CASE Start(s) \/ Acquire(s) \/ Launch(s) \/ WaitAll(s)
      BY <3>2 DEF Start, Acquire, Launch, WaitAll, Emitted, PoolTypeOK
    <3> QED
      BY <1>2, <3>1, <3>2 DEF Dispatch
  <2>2. NoLostSeries'
    BY <2>1 DEF NoLostSeries
  <2>3. RcvErrGaugesExact'
    BY <2>1 DEF RcvErrGaugesExact
  <2> QED
    BY <2>2, <2>3
<1> QED
  BY <1>1, <1>2

-----------------------------------------------------------------------------
(* The invariant and the theorems.                                         *)

LEMMA InitData == Init => DataInv
<1> SUFFICES ASSUME Init PROVE DataInv
  OBVIOUS
<1>1. LockInv
  BY DEF Init, LockInv
<1>2. WorkerInv
  <2> SUFFICES ASSUME NEW s \in Scrapes, NEW d \in Devices
               PROVE  Fresh("idle", NoLocals, NoHist) /\ Mirror("idle", NoLocals, NoHist, ZeroMetric)
    BY DEF Init, WorkerInv
  <2>1. /\ NoLocals.todo = {} /\ NoLocals.metric = ZeroMetric
        /\ NoHist.parsed = {} /\ NoHist.rcv = {}
    BY DEF NoLocals, NoHist
  <2>2. ZeroMetric.rcvErrTimeout = 0 /\ ZeroMetric.rcvErrError = 0
    BY DEF ZeroMetric
  <2> QED
    BY <2>1, <2>2 DEF Fresh, Mirror, Flags, Before, Past, Parting
<1>3. SliceInv
  BY DEF Init, SliceInv, NoHist
<1>4. NoLostSeries /\ RcvErrGaugesExact
  BY DEF Init, NoLostSeries, RcvErrGaugesExact, Emitted
<1> QED
  BY <1>1, <1>2, <1>3, <1>4 DEF DataInv

LEMMA NextData == IInv /\ QuietAfterWait /\ DataInv /\ [Next]_vars => DataInv'
<1> SUFFICES ASSUME IInv, QuietAfterWait, DataInv, [Next]_vars PROVE DataInv'
  OBVIOUS
<1>0. /\ PoolTypeOK /\ ControlInv
      /\ LockInv /\ WorkerInv /\ SliceInv /\ NoLostSeries /\ RcvErrGaugesExact
  BY DEF IInv, ControlInv, DataInv
<1>1. ASSUME NEW s \in Scrapes, Dispatch(s)
      PROVE  DataInv'
  <2>1. /\ UNCHANGED <<loc, hist, metrics, counters, mu>>
        /\ LockInv' /\ WorkerInv' /\ SliceInv'
    BY <1>0, <1>1, DispatchWorkers
  <2>2. NoLostSeries' /\ RcvErrGaugesExact'
    BY <1>0, <1>1, <2>1, DispatchEmission
  <2> QED
    BY <2>1, <2>2 DEF DataInv
<1>2. ASSUME NEW s \in Scrapes, NEW d \in Devices, Work(s, d)
      PROVE  DataInv'
  <2>1. LockInv' /\ WorkerInv' /\ SliceInv'
    BY <1>0, <1>2, LockStep, WorkerStep, SliceStep
  <2>2. NoLostSeries' /\ RcvErrGaugesExact'
    BY <1>0, <1>2, WorkEmission
  <2> QED
    BY <2>1, <2>2 DEF DataInv
<1>3. ASSUME UNCHANGED vars
      PROVE  DataInv'
  <2>1. LockInv' /\ WorkerInv' /\ SliceInv'
    BY <1>0, <1>3 DEF vars, LockInv, WorkerInv, SliceInv
  <2>2. NoLostSeries' /\ RcvErrGaugesExact'
    BY <1>0, <1>3 DEF vars, NoLostSeries, RcvErrGaugesExact, Emitted
  <2> QED
    BY <2>1, <2>2 DEF DataInv
<1> QED
  BY <1>1, <1>2, <1>3 DEF Next, Finished

\* The slice, the flags and the lock are what the workers' history says, in
\* every reachable state.
THEOREM DataInvariance == Spec => []DataInv
BY InitData, NextData, Invariance, QuietHolds, PTL DEF Spec

\* Collect emits exactly the series its workers parsed: no append is lost to
\* another and none is made twice, however the workers interleave.
THEOREM SeriesExact == Spec => []NoLostSeries
<1>1. DataInv => NoLostSeries
  BY DEF DataInv
<1> QED
  BY <1>1, DataInvariance, PTL

\* A receive-error gauge is 1 exactly when one of the device's -E queries ended
\* that way, whatever the order of the ports.
THEOREM GaugesExact == Spec => []RcvErrGaugesExact
<1>1. DataInv => RcvErrGaugesExact
  BY DEF DataInv
<1> QED
  BY <1>1, DataInvariance, PTL

-----------------------------------------------------------------------------
(* The process-wide totals.                                                *)

\* A worker's retries are in its locals only until they are accounted for, and
\* nothing has happened to a worker that is not launched.
Accounted(q, l, h) ==
    /\ q \notin {"exec", "account"} => l.attempts = 0
    /\ q = "idle" => h.timeouts = 0 /\ h.failed = 0 /\ h.parse = 0

AccountInv == \A s \in Scrapes, d \in Devices : Accounted(pc[s][d], loc[s][d], hist[s][d])

\* No worker withholds more than what happened to it.
WithheldInv ==
    \A w \in Workers : PendingTimeouts[w] <= TimedOut[w] /\ PendingErrors[w] <= Failed[w]

OwnTimeouts(s) == SumFunctionOnSet(TimedOut, {s} \X Devices)
OwnFailures(s) == SumFunctionOnSet(Failed, {s} \X Devices)

\* A total that is loaded includes the scrape's own failures; between the loads
\* of errors and retries the two only do so with the retries there are by then.
LoadedInv ==
    \A s \in Scrapes :
        /\ disp[s] \in {"retries", "done"} => out[s].timeouts >= OwnTimeouts(s)
        /\ disp[s] \in {"timeouts", "retries"} => out[s].errors + totals.retries >= OwnFailures(s)
        /\ disp[s] = "done" => out[s].errors + out[s].retries >= OwnFailures(s)

TotalsInv == AccountInv /\ IsFiniteSet(Launched) /\ FailuresCounted /\ WithheldInv /\ LoadedInv

-----------------------------------------------------------------------------
(* One worker's terms.                                                     *)

PendT(q, l) == IF q \in {"account", "classify"} /\ l.result = "timeout" THEN 1 ELSE 0
PendE(q, l) ==
    (IF q \in {"exec", "account"} THEN l.attempts ELSE 0)
    + CASE q \in {"account", "classify"} /\ l.result = "error" -> 1
        [] q \in {"account", "classify"} /\ l.result = "ok" -> l.errs
        [] OTHER -> 0

\* What the sums add up, worker by worker.
LEMMA Terms ==
    ASSUME NEW s \in Scrapes, NEW d \in Devices
    PROVE  /\ PendingTimeouts[<<s, d>>] = PendT(pc[s][d], loc[s][d])
           /\ PendingErrors[<<s, d>>] = PendE(pc[s][d], loc[s][d])
           /\ TimedOut[<<s, d>>] = hist[s][d].timeouts
           /\ Failed[<<s, d>>] = hist[s][d].failed + hist[s][d].parse
BY DEF PendingTimeouts, PendingErrors, TimedOut, Failed, Workers, PendT, PendE

\* The terms are natural numbers.
LEMMA TermsType ==
    ASSUME PoolTypeOK, NEW w \in Workers
    PROVE  /\ PendingTimeouts[w] \in Nat /\ PendingErrors[w] \in Nat
           /\ TimedOut[w] \in Nat /\ Failed[w] \in Nat
<1>1. PICK s \in Scrapes, d \in Devices : w = <<s, d>>
  BY DEF Workers
<1>2. loc[s][d] \in Locals /\ hist[s][d] \in History
  BY DEF PoolTypeOK
<1>3. PendT(pc[s][d], loc[s][d]) \in Nat
  BY DEF PendT
<1>4. PendE(pc[s][d], loc[s][d]) \in Nat
  BY <1>2, CountsAssumption DEF PendE, Locals
<1>5. hist[s][d].timeouts \in Nat /\ hist[s][d].failed + hist[s][d].parse \in Nat
  BY <1>2 DEF History
<1> QED
  BY <1>1, <1>3, <1>4, <1>5, Terms

\* A step moves what a worker withholds into the totals, and nothing else.
Moves(q, l, h, t, q2, l2, h2, t2) ==
    /\ t2.timeouts >= t.timeouts /\ t2.errors >= t.errors /\ t2.retries >= t.retries
    /\ t2.timeouts - t.timeouts + PendT(q2, l2) - PendT(q, l) = h2.timeouts - h.timeouts
    /\ (t2.errors - t.errors) + (t2.retries - t.retries) + PendE(q2, l2) - PendE(q, l)
         = (h2.failed - h.failed) + (h2.parse - h.parse)
    /\ Accounted(q2, l2, h2)

MovesAt(s, d) ==
    Moves(pc[s][d], loc[s][d], hist[s][d], totals, pc'[s][d], loc'[s][d], hist'[s][d], totals')

\* The attempts of perfqueryWithRetry: what happens is withheld.
LEMMA ExecMoves ==
    ASSUME PoolTypeOK, AccountInv, NEW s \in Scrapes, NEW d \in Devices, Exec(s, d)
    PROVE  MovesAt(s, d)
<1>0. /\ loc[s][d] \in Locals /\ hist[s][d] \in History
      /\ totals \in [errors : Nat, timeouts : Nat, retries : Nat]
      /\ pc[s][d] = "exec" /\ totals' = totals
  <2>1. pc[s][d] = "exec" /\ totals' = totals
    BY DEF Exec, ExecOk, ExecTimeout, ExecError, shared
  <2> QED
    BY <2>1 DEF PoolTypeOK
<1>1. CASE ExecOk(s, d)
  <2>1. PICK Q \in SUBSET Requested(s, d), e \in 0..MaxParseErrors :
          /\ loc' = [loc EXCEPT ![s][d] = [@ EXCEPT !.result = "ok", !.found = Q, !.errs = e]]
          /\ hist' = [hist EXCEPT ![s][d].parse = @ + e]
    BY <1>1 DEF ExecOk
  <2>2. /\ loc'[s][d] = [loc[s][d] EXCEPT !.result = "ok", !.found = Q, !.errs = e]
        /\ hist'[s][d] = [hist[s][d] EXCEPT !.parse = @ + e]
    BY <2>1 DEF PoolTypeOK
  <2>3. pc'[s][d] = "account" /\ e \in Nat
    BY <1>1, CountsAssumption DEF ExecOk, Goto, PoolTypeOK
  <2>4. /\ loc'[s][d].result = "ok" /\ loc'[s][d].errs = e
        /\ loc'[s][d].attempts = loc[s][d].attempts /\ loc[s][d].attempts \in Nat
    BY <1>0, <2>2, CountsAssumption DEF Locals
  <2>5. /\ hist'[s][d].parse = hist[s][d].parse + e /\ hist'[s][d].failed = hist[s][d].failed
        /\ hist'[s][d].timeouts = hist[s][d].timeouts
        /\ hist[s][d].parse \in Nat /\ hist[s][d].failed \in Nat /\ hist[s][d].timeouts \in Nat
    BY <1>0, <2>2 DEF History
  <2>6. PendE(pc'[s][d], loc'[s][d]) = PendE(pc[s][d], loc[s][d]) + e
    BY <1>0, <2>3, <2>4 DEF PendE
  <2>7. PendE(pc[s][d], loc[s][d]) \in Nat
    BY <1>0, <2>4 DEF PendE
  <2>8. PendT(pc'[s][d], loc'[s][d]) = 0 /\ PendT(pc[s][d], loc[s][d]) = 0
    BY <1>0, <2>3, <2>4 DEF PendT
  <2>9. Accounted(pc'[s][d], loc'[s][d], hist'[s][d])
    BY <2>3 DEF Accounted
  <2> QED
    BY <1>0, <2>3, <2>5, <2>6, <2>7, <2>8, <2>9 DEF MovesAt, Moves
<1>2. CASE ExecTimeout(s, d)
  <2>2. /\ loc'[s][d] = [loc[s][d] EXCEPT !.result = "timeout"]
        /\ hist'[s][d] = [hist[s][d] EXCEPT !.timeouts = @ + 1]
    BY <1>2 DEF ExecTimeout, PoolTypeOK
  <2>3. pc'[s][d] = "account"
    BY <1>2 DEF ExecTimeout, Goto, PoolTypeOK
  <2>4. /\ loc'[s][d].result = "timeout"
        /\ loc'[s][d].attempts = loc[s][d].attempts /\ loc[s][d].attempts \in Nat
    BY <1>0, <2>2, CountsAssumption DEF Locals
  <2>5. /\ hist'[s][d].parse = hist[s][d].parse /\ hist'[s][d].failed = hist[s][d].failed
        /\ hist'[s][d].timeouts = hist[s][d].timeouts + 1
        /\ hist[s][d].parse \in Nat /\ hist[s][d].failed \in Nat /\ hist[s][d].timeouts \in Nat
    BY <1>0, <2>2 DEF History
  <2>6. PendE(pc'[s][d], loc'[s][d]) = PendE(pc[s][d], loc[s][d])
    BY <1>0, <2>3, <2>4 DEF PendE
  <2>7. PendE(pc[s][d], loc[s][d]) \in Nat
    BY <1>0, <2>4 DEF PendE
  <2>8. PendT(pc'[s][d], loc'[s][d]) = 1 /\ PendT(pc[s][d], loc[s][d]) = 0
    BY <1>0, <2>3, <2>4 DEF PendT
  <2>9. Accounted(pc'[s][d], loc'[s][d], hist'[s][d])
    BY <2>3 DEF Accounted
  <2> QED
    BY <1>0, <2>5, <2>6, <2>7, <2>8, <2>9 DEF MovesAt, Moves
<1>3. CASE ExecError(s, d)
  <2>1. hist'[s][d] = [hist[s][d] EXCEPT !.failed = @ + 1]
    BY <1>3 DEF ExecError, PoolTypeOK
  <2>2. /\ hist'[s][d].parse = hist[s][d].parse /\ hist'[s][d].failed = hist[s][d].failed + 1
        /\ hist'[s][d].timeouts = hist[s][d].timeouts
        /\ hist[s][d].parse \in Nat /\ hist[s][d].failed \in Nat /\ hist[s][d].timeouts \in Nat
    BY <1>0, <2>1 DEF History
  <2>3. /\ PendE(pc'[s][d], loc'[s][d]) = PendE(pc[s][d], loc[s][d]) + 1
        /\ pc'[s][d] \in {"exec", "account"}
        /\ pc'[s][d] = "account" => loc'[s][d].result = "error"
    <3>0. loc[s][d].attempts \in Nat
      BY <1>0, CountsAssumption DEF Locals
    <3>1. CASE RetriesLeft(s, d)
      <4>1. loc' = [loc EXCEPT ![s][d].attempts = @ + 1]
        BY <1>3, <3>1 DEF ExecError
      <4>2. loc'[s][d] = [loc[s][d] EXCEPT !.attempts = @ + 1]
        BY <4>1 DEF PoolTypeOK
      <4>3. pc'[s][d] = "exec"
        BY <1>0, <1>3, <3>1 DEF ExecError
      <4>4. loc'[s][d].attempts = loc[s][d].attempts + 1
        BY <1>0, <4>2 DEF Locals
      <4> QED
        BY <1>0, <3>0, <4>3, <4>4 DEF PendE
    <3>2. CASE ~RetriesLeft(s, d)
      <4>1. loc' = [loc EXCEPT ![s][d].result = "error"]
        BY <1>3, <3>2 DEF ExecError
      <4>2. loc'[s][d] = [loc[s][d] EXCEPT !.result = "error"]
        BY <4>1 DEF PoolTypeOK
      <4>3. pc'[s][d] = "account"
        BY <1>3, <3>2 DEF ExecError, Goto, PoolTypeOK
      <4>4. loc'[s][d].attempts = loc[s][d].attempts /\ loc'[s][d].result = "error"
        BY <1>0, <4>2 DEF Locals
      <4> QED
        BY <1>0, <3>0, <4>3, <4>4 DEF PendE
    <3> QED
      BY <3>1, <3>2
  <2>4. PendE(pc[s][d], loc[s][d]) \in Nat
    <3>1. loc[s][d].attempts \in Nat
      BY <1>0, CountsAssumption DEF Locals
    <3> QED
      BY <1>0, <3>1 DEF PendE
  <2>5. PendT(pc'[s][d], loc'[s][d]) = 0 /\ PendT(pc[s][d], loc[s][d]) = 0
    BY <1>0, <2>3 DEF PendT
  <2>6. Accounted(pc'[s][d], loc'[s][d], hist'[s][d])
    BY <2>3 DEF Accounted
  <2> QED
    BY <1>0, <2>2, <2>3, <2>4, <2>5, <2>6 DEF MovesAt, Moves
<1> QED
  BY <1>1, <1>2, <1>3 DEF Exec

\* Account, and the counting of a call's outcome: what is withheld moves into
\* the totals.
LEMMA CountMoves ==
    ASSUME PoolTypeOK, AccountInv, NEW s \in Scrapes, NEW d \in Devices,
           Account(s, d) \/ BaseFailed(s, d) \/ RcvErrFailed(s, d) \/ Parsed(s, d)
    PROVE  MovesAt(s, d)
<1>0. /\ loc[s][d] \in Locals /\ hist[s][d] \in History
      /\ totals \in [errors : Nat, timeouts : Nat, retries : Nat]
      /\ Accounted(pc[s][d], loc[s][d], hist[s][d])
  BY DEF PoolTypeOK, AccountInv
<1>1. /\ loc[s][d].attempts \in Nat /\ loc[s][d].errs \in Nat
      /\ loc[s][d].result \in Results
      /\ hist[s][d].parse \in Nat /\ hist[s][d].failed \in Nat /\ hist[s][d].timeouts \in Nat
      /\ totals.errors \in Nat /\ totals.timeouts \in Nat /\ totals.retries \in Nat
  BY <1>0, CountsAssumption DEF Locals, History
<1>2. CASE Account(s, d)
  <2>1. /\ pc[s][d] = "account" /\ pc'[s][d] = "classify"
        /\ loc'[s][d] = [loc[s][d] EXCEPT !.attempts = 0] /\ hist' = hist
    BY <1>2 DEF Account, Goto, PoolTypeOK
  <2>2. /\ totals'.retries = totals.retries + loc[s][d].attempts
        /\ totals'.errors = totals.errors /\ totals'.timeouts = totals.timeouts
    BY <1>0, <1>2 DEF Account, Added
  <2>3. /\ loc'[s][d].attempts = 0 /\ loc'[s][d].errs = loc[s][d].errs
        /\ loc'[s][d].result = loc[s][d].result
    BY <1>0, <2>1 DEF Locals
  <2>4. PendE(pc[s][d], loc[s][d]) = loc[s][d].attempts + PendE(pc'[s][d], loc'[s][d])
    BY <1>1, <2>1, <2>3 DEF PendE
  <2>5. PendE(pc'[s][d], loc'[s][d]) \in Nat
    BY <1>1, <2>1, <2>3 DEF PendE
  <2>6. PendT(pc[s][d], loc[s][d]) = PendT(pc'[s][d], loc'[s][d]) /\ PendT(pc[s][d], loc[s][d]) \in Nat
    BY <2>1, <2>3 DEF PendT
  <2>7. Accounted(pc'[s][d], loc'[s][d], hist'[s][d])
    BY <2>1, <2>3 DEF Accounted
  <2> QED
    BY <1>1, <2>1, <2>2, <2>4, <2>5, <2>6, <2>7 DEF MovesAt, Moves
<1>3. CASE BaseFailed(s, d) \/ RcvErrFailed(s, d)
  <2>1. /\ pc[s][d] = "classify" /\ pc'[s][d] \in {"release", "next"}
        /\ \/ loc[s][d].result = "timeout" /\ totals' = Added("timeouts", 1)
           \/ loc[s][d].result = "error" /\ totals' = Added("errors", 1)
    BY <1>3 DEF BaseFailed, RcvErrFailed, Goto, PoolTypeOK
  <2>2. loc'[s][d].attempts = loc[s][d].attempts
    <3>1. \/ loc' = [loc EXCEPT ![s][d].metric.timeout = 1]
          \/ loc' = [loc EXCEPT ![s][d].metric.error = 1]
          \/ loc' = [loc EXCEPT ![s][d].metric.rcvErrTimeout = 1]
          \/ loc' = [loc EXCEPT ![s][d].metric.rcvErrError = 1]
      BY <1>3 DEF BaseFailed, RcvErrFailed
    <3>2. CASE loc' = [loc EXCEPT ![s][d].metric.timeout = 1]
      BY <1>0, <3>2 DEF PoolTypeOK, Locals
    <3>3. CASE loc' = [loc EXCEPT ![s][d].metric.error = 1]
      BY <1>0, <3>3 DEF PoolTypeOK, Locals
    <3>4. CASE loc' = [loc EXCEPT ![s][d].metric.rcvErrTimeout = 1]
      BY <1>0, <3>4 DEF PoolTypeOK, Locals
    <3>5. CASE loc' = [loc EXCEPT ![s][d].metric.rcvErrError = 1]
      BY <1>0, <3>5 DEF PoolTypeOK, Locals
    <3> QED
      BY <3>1, <3>2, <3>3, <3>4, <3>5
  <2>3. /\ hist'[s][d].parse = hist[s][d].parse /\ hist'[s][d].failed = hist[s][d].failed
        /\ hist'[s][d].timeouts = hist[s][d].timeouts
    <3>1. \/ hist' = [hist EXCEPT ![s][d].base = loc[s][d].result]
          \/ hist' = [hist EXCEPT ![s][d].rcv = @ \cup {loc[s][d].result}]
      BY <1>3 DEF BaseFailed, RcvErrFailed
    <3>2. CASE hist' = [hist EXCEPT ![s][d].base = loc[s][d].result]
      BY <1>0, <3>2 DEF PoolTypeOK, History
    <3>3. CASE hist' = [hist EXCEPT ![s][d].rcv = @ \cup {loc[s][d].result}]
      BY <1>0, <3>3 DEF PoolTypeOK, History
    <3> QED
      BY <3>1, <3>2, <3>3
  <2>4. PendE(pc'[s][d], loc'[s][d]) = 0 /\ PendT(pc'[s][d], loc'[s][d]) = 0
    BY <2>1 DEF PendE, PendT
  <2>5. Accounted(pc'[s][d], loc'[s][d], hist'[s][d])
    BY <1>0, <2>1, <2>2 DEF Accounted
  <2>6. CASE loc[s][d].result = "timeout"
    <3>1. PendT(pc[s][d], loc[s][d]) = 1 /\ PendE(pc[s][d], loc[s][d]) = 0
      BY <2>1, <2>6 DEF PendE, PendT
    <3>2. /\ totals'.timeouts = totals.timeouts + 1
          /\ totals'.errors = totals.errors /\ totals'.retries = totals.retries
      BY <1>0, <2>1, <2>6 DEF Added
    <3> QED
      BY <1>1, <2>3, <2>4, <2>5, <3>1, <3>2 DEF MovesAt, Moves
  <2>7. CASE loc[s][d].result = "error"
    <3>1. PendT(pc[s][d], loc[s][d]) = 0 /\ PendE(pc[s][d], loc[s][d]) = 1
      BY <2>1, <2>7 DEF PendE, PendT
    <3>2. /\ totals'.errors = totals.errors + 1
          /\ totals'.timeouts = totals.timeouts /\ totals'.retries = totals.retries
      BY <1>0, <2>1, <2>7 DEF Added
    <3> QED
      BY <1>1, <2>3, <2>4, <2>5, <3>1, <3>2 DEF MovesAt, Moves
  <2> QED
    BY <2>1, <2>6, <2>7
<1>4. CASE Parsed(s, d)
  <2>1. /\ pc[s][d] = "classify" /\ pc'[s][d] \in {"lock", "next"} /\ loc[s][d].result = "ok"
        /\ totals' = Added("errors", loc[s][d].errs)
    BY <1>4 DEF Parsed, Goto, PoolTypeOK
  <2>2. /\ totals'.errors = totals.errors + loc[s][d].errs
        /\ totals'.timeouts = totals.timeouts /\ totals'.retries = totals.retries
    BY <1>0, <2>1 DEF Added
  <2>3. /\ loc'[s][d].attempts = loc[s][d].attempts
        /\ hist'[s][d].parse = hist[s][d].parse /\ hist'[s][d].failed = hist[s][d].failed
        /\ hist'[s][d].timeouts = hist[s][d].timeouts
    <3>1. CASE loc[s][d].call = Base
      <4> DEFINE td == IF CollectRcvErr THEN loc[s][d].found ELSE {}
                 ps == {<<p, Base>> : p \in {x \in loc[s][d].found : CollectBase}}
      <4>1. /\ loc' = [loc EXCEPT ![s][d].todo = td]
            /\ hist' = [hist EXCEPT ![s][d] = [@ EXCEPT !.base = "ok", !.parsed = ps]]
        BY <1>4, <3>1 DEF Parsed
      <4> HIDE DEF td, ps
      <4>2. /\ loc'[s][d] = [loc[s][d] EXCEPT !.todo = td]
            /\ hist'[s][d] = [hist[s][d] EXCEPT !.base = "ok", !.parsed = ps]
        BY <4>1 DEF PoolTypeOK
      <4> QED
        BY <1>0, <4>2 DEF Locals, History
    <3>2. CASE loc[s][d].call # Base
      <4> DEFINE r == hist[s][d].rcv \cup {"ok"}
                 ps == hist[s][d].parsed \cup {<<p, loc[s][d].call>> : p \in loc[s][d].found}
      <4>1. /\ loc' = loc
            /\ hist' = [hist EXCEPT ![s][d] = [hist[s][d] EXCEPT !.rcv = r, !.parsed = ps]]
        BY <1>4, <3>2 DEF Parsed
      <4> HIDE DEF r, ps
      <4>2. hist'[s][d] = [hist[s][d] EXCEPT !.rcv = r, !.parsed = ps]
        BY <4>1 DEF PoolTypeOK
      <4> QED
        BY <1>0, <4>1, <4>2 DEF History
    <3> QED
      BY <3>1, <3>2
  <2>4. /\ PendE(pc'[s][d], loc'[s][d]) = 0 /\ PendT(pc'[s][d], loc'[s][d]) = 0
        /\ PendT(pc[s][d], loc[s][d]) = 0 /\ PendE(pc[s][d], loc[s][d]) = loc[s][d].errs
    BY <1>1, <2>1 DEF PendE, PendT
  <2>5. Accounted(pc'[s][d], loc'[s][d], hist'[s][d])
    BY <1>0, <2>1, <2>3 DEF Accounted
  <2> QED
    BY <1>1, <2>2, <2>3, <2>4, <2>5 DEF MovesAt, Moves
<1> QED
  BY <1>2, <1>3, <1>4

\* The rest of the worker's body neither withholds nor counts.
LEMMA RestMoves ==
    ASSUME PoolTypeOK, AccountInv, NEW s \in Scrapes, NEW d \in Devices,
           \/ Lock(s, d) \/ Append(s, d) \/ NextPort(s, d) \/ NoMorePorts(s, d)
           \/ Store(s, d) \/ Release(s, d) \/ Signal(s, d)
    PROVE  MovesAt(s, d)
<1>0. /\ loc[s][d] \in Locals /\ hist[s][d] \in History
      /\ totals \in [errors : Nat, timeouts : Nat, retries : Nat]
      /\ Accounted(pc[s][d], loc[s][d], hist[s][d])
  BY DEF PoolTypeOK, AccountInv
<1>1. /\ totals' = totals /\ hist' = hist
      /\ pc[s][d] \in {"lock", "append", "next", "store", "release", "signal"}
  BY DEF Lock, Append, NextPort, NoMorePorts, Store, Release, Signal, shared
<1>2. pc'[s][d] \in {"append", "next", "exec", "store", "release", "signal", "done"}
  <2>1. \E l \in {"append", "next", "exec", "store", "release", "signal", "done"} : Goto(s, d, l)
    BY DEF Lock, Append, NextPort, NoMorePorts, Store, Release, Signal
  <2> QED
    BY <2>1 DEF Goto, PoolTypeOK
<1>3. loc[s][d].attempts = 0
  BY <1>0, <1>1 DEF Accounted
<1>4. loc'[s][d].attempts = 0
  <2>1. CASE Lock(s, d)
    BY <1>0, <1>3, <2>1 DEF Lock, PoolTypeOK, Locals
  <2>2. CASE Append(s, d)
    BY <1>0, <1>3, <2>2 DEF Append, PoolTypeOK, Locals
  <2>3. CASE NextPort(s, d)
    <3>1. PICK p \in loc[s][d].todo :
            loc' = [loc EXCEPT ![s][d] =
                       [loc[s][d] EXCEPT !.call = p, !.todo = loc[s][d].todo \ {p}]]
      BY <2>3 DEF NextPort
    <3>2. loc'[s][d] = [loc[s][d] EXCEPT !.call = p, !.todo = loc[s][d].todo \ {p}]
      BY <3>1 DEF PoolTypeOK
    <3> QED
      BY <1>0, <1>3, <3>2 DEF Locals
  <2>4. CASE NoMorePorts(s, d) \/ Store(s, d) \/ Signal(s, d)
    BY <1>3, <2>4 DEF NoMorePorts, Store, Signal
  <2>5. CASE Release(s, d)
    BY <2>5 DEF Release, PoolTypeOK, NoLocals
  <2> QED
    BY <2>1, <2>2, <2>3, <2>4, <2>5
<1>5. /\ PendE(pc'[s][d], loc'[s][d]) = 0 /\ PendT(pc'[s][d], loc'[s][d]) = 0
      /\ PendE(pc[s][d], loc[s][d]) = 0 /\ PendT(pc[s][d], loc[s][d]) = 0
  BY <1>1, <1>2, <1>3, <1>4 DEF PendE, PendT
<1>6. Accounted(pc'[s][d], loc'[s][d], hist'[s][d])
  BY <1>2, <1>4 DEF Accounted
<1>7. /\ hist[s][d].parse \in Nat /\ hist[s][d].failed \in Nat /\ hist[s][d].timeouts \in Nat
      /\ totals.errors \in Nat /\ totals.timeouts \in Nat /\ totals.retries \in Nat
  BY <1>0 DEF History
<1> QED
  BY <1>1, <1>5, <1>6, <1>7 DEF MovesAt, Moves

-----------------------------------------------------------------------------
(* The sums.                                                               *)

\* What a worker's step does to everybody's terms and to the totals.
LEMMA WorkTerms ==
    ASSUME PoolTypeOK, PoolTypeOK', AccountInv, NEW s \in Scrapes, NEW d \in Devices, Work(s, d)
    PROVE  /\ MovesAt(s, d)
           /\ <<s, d>> \in Launched /\ Launched' = Launched
           /\ \A w \in Workers \ {<<s, d>>} :
                /\ PendingTimeouts'[w] = PendingTimeouts[w] /\ PendingErrors'[w] = PendingErrors[w]
                /\ TimedOut'[w] = TimedOut[w] /\ Failed'[w] = Failed[w]
<1>1. MovesAt(s, d)
  BY ExecMoves, CountMoves, RestMoves DEF Work
<1>2. pc[s][d] # "idle" /\ pc'[s][d] # "idle"
  <2>1. pc[s][d] # "idle"
    BY DEF Work, Exec, ExecOk, ExecTimeout, ExecError, Account, BaseFailed, RcvErrFailed, Parsed,
           Lock, Append, NextPort, NoMorePorts, Store, Release, Signal
  <2>2. \/ pc' = pc
        \/ \E l \in WorkerPCs \ {"idle"} : Goto(s, d, l)
    <3>1. CASE Exec(s, d)
      BY <3>1 DEF Exec, ExecOk, ExecTimeout, ExecError, WorkerPCs
    <3>2. CASE Account(s, d) \/ BaseFailed(s, d) \/ RcvErrFailed(s, d)
      BY <3>2 DEF Account, BaseFailed, RcvErrFailed, WorkerPCs
    <3>3. CASE Parsed(s, d)
      BY <3>3 DEF Parsed, WorkerPCs
    <3>4. CASE Lock(s, d) \/ Append(s, d) \/ NextPort(s, d) \/ NoMorePorts(s, d)
      BY <3>4 DEF Lock, Append, NextPort, NoMorePorts, WorkerPCs
    <3>5. CASE Store(s, d) \/ Release(s, d) \/ Signal(s, d)
      BY <3>5 DEF Store, Release, Signal, WorkerPCs
    <3> QED
      BY <3>1, <3>2, <3>3, <3>4, <3>5 DEF Work
  <2> QED
    BY <2>1, <2>2 DEF Goto, PoolTypeOK
<1>3. ASSUME NEW t \in Scrapes, NEW e \in Devices, t # s \/ e # d
      PROVE  pc'[t][e] = pc[t][e] /\ loc'[t][e] = loc[t][e] /\ hist'[t][e] = hist[t][e]
  BY <1>3, Elsewhere
<1>4. <<s, d>> \in Launched /\ Launched' = Launched
  BY <1>2, <1>3 DEF Launched, Workers
<1>5. ASSUME NEW w \in Workers \ {<<s, d>>}
      PROVE  /\ PendingTimeouts'[w] = PendingTimeouts[w] /\ PendingErrors'[w] = PendingErrors[w]
             /\ TimedOut'[w] = TimedOut[w] /\ Failed'[w] = Failed[w]
  <2>1. PICK t \in Scrapes, e \in Devices : w = <<t, e>>
    BY DEF Workers
  <2>2. t # s \/ e # d
    BY <2>1
  <2>3. pc'[t][e] = pc[t][e] /\ loc'[t][e] = loc[t][e] /\ hist'[t][e] = hist[t][e]
    BY <1>3, <2>2
  <2> QED
    BY <2>1, <2>3 DEF PendingTimeouts, PendingErrors, TimedOut, Failed, Workers
<1> QED
  BY <1>1, <1>4, <1>5

\* The terms again, after a step.
LEMMA TermsAfter ==
    ASSUME NEW s \in Scrapes, NEW d \in Devices
    PROVE  /\ PendingTimeouts'[<<s, d>>] = PendT(pc'[s][d], loc'[s][d])
           /\ PendingErrors'[<<s, d>>] = PendE(pc'[s][d], loc'[s][d])
           /\ TimedOut'[<<s, d>>] = hist'[s][d].timeouts
           /\ Failed'[<<s, d>>] = hist'[s][d].failed + hist'[s][d].parse
BY DEF PendingTimeouts, PendingErrors, TimedOut, Failed, Workers, PendT, PendE

LEMMA TermsTypeAfter ==
    ASSUME PoolTypeOK', NEW w \in Workers
    PROVE  /\ PendingTimeouts'[w] \in Nat /\ PendingErrors'[w] \in Nat
           /\ TimedOut'[w] \in Nat /\ Failed'[w] \in Nat
<1>1. PICK s \in Scrapes, d \in Devices : w = <<s, d>>
  BY DEF Workers
<1>2. loc'[s][d] \in Locals /\ hist'[s][d] \in History
  BY DEF PoolTypeOK
<1>3. PendT(pc'[s][d], loc'[s][d]) \in Nat
  BY DEF PendT
<1>4. PendE(pc'[s][d], loc'[s][d]) \in Nat
  BY <1>2, CountsAssumption DEF PendE, Locals
<1>5. hist'[s][d].timeouts \in Nat /\ hist'[s][d].failed + hist'[s][d].parse \in Nat
  BY <1>2 DEF History
<1> QED
  BY <1>1, <1>3, <1>4, <1>5, TermsAfter

\* A worker's step keeps the balance.
LEMMA WorkCounted ==
    ASSUME PoolTypeOK, PoolTypeOK', TotalsInv, NEW s \in Scrapes, NEW d \in Devices, Work(s, d)
    PROVE  AccountInv' /\ IsFiniteSet(Launched)' /\ FailuresCounted' /\ WithheldInv'
<1> DEFINE x == <<s, d>>
<1>1. /\ MovesAt(s, d) /\ x \in Launched /\ Launched' = Launched
      /\ \A w \in Workers \ {x} :
           /\ PendingTimeouts'[w] = PendingTimeouts[w] /\ PendingErrors'[w] = PendingErrors[w]
           /\ TimedOut'[w] = TimedOut[w] /\ Failed'[w] = Failed[w]
  BY WorkTerms DEF TotalsInv
<1>2. IsFiniteSet(Launched) /\ Launched \subseteq Workers /\ x \in Workers
  BY <1>1 DEF TotalsInv, Launched
<1>3. /\ PendingTimeouts[x] = PendT(pc[s][d], loc[s][d]) /\ PendingErrors[x] = PendE(pc[s][d], loc[s][d])
      /\ TimedOut[x] = hist[s][d].timeouts /\ Failed[x] = hist[s][d].failed + hist[s][d].parse
      /\ PendingTimeouts'[x] = PendT(pc'[s][d], loc'[s][d])
      /\ PendingErrors'[x] = PendE(pc'[s][d], loc'[s][d])
      /\ TimedOut'[x] = hist'[s][d].timeouts /\ Failed'[x] = hist'[s][d].failed + hist'[s][d].parse
  BY Terms, TermsAfter
<1>4. /\ totals.timeouts \in Nat /\ totals.errors \in Nat /\ totals.retries \in Nat
      /\ totals'.timeouts \in Nat /\ totals'.errors \in Nat /\ totals'.retries \in Nat
      /\ hist[s][d].failed \in Nat /\ hist[s][d].parse \in Nat
      /\ hist'[s][d].failed \in Nat /\ hist'[s][d].parse \in Nat
  <2>1. hist[s][d] \in History /\ hist'[s][d] \in History
    BY DEF PoolTypeOK
  <2> QED
    BY <2>1 DEF PoolTypeOK, History
<1> HIDE DEF x
<1>5. \A w \in Workers :
        /\ PendingTimeouts[w] \in Int /\ PendingErrors[w] \in Int /\ TimedOut[w] \in Int /\ Failed[w] \in Int
        /\ PendingTimeouts'[w] \in Int /\ PendingErrors'[w] \in Int /\ TimedOut'[w] \in Int /\ Failed'[w] \in Int
  BY TermsType, TermsTypeAfter
<1>6. /\ totals'.timeouts - totals.timeouts + PendingTimeouts'[x] - PendingTimeouts[x] = TimedOut'[x] - TimedOut[x]
      /\ totals'.timeouts >= totals.timeouts
  BY <1>1, <1>3 DEF MovesAt, Moves
<1> DEFINE m == totals.errors + totals.retries
           m2 == totals'.errors + totals'.retries
<1>7. /\ m \in Int /\ m2 \in Int /\ m2 >= m
      /\ m2 - m + PendingErrors'[x] - PendingErrors[x] = Failed'[x] - Failed[x]
  <2>1. /\ (totals'.errors - totals.errors) + (totals'.retries - totals.retries)
             + PendingErrors'[x] - PendingErrors[x]
             = (hist'[s][d].failed - hist[s][d].failed) + (hist'[s][d].parse - hist[s][d].parse)
        /\ totals'.errors >= totals.errors /\ totals'.retries >= totals.retries
    BY <1>1, <1>3 DEF MovesAt, Moves
  <2>2. PendingErrors[x] \in Int /\ PendingErrors'[x] \in Int
    BY <1>2, <1>5
  <2> QED
    BY <1>3, <1>4, <2>1, <2>2
<1>8. /\ totals.timeouts + SumFunctionOnSet(PendingTimeouts, Launched) = SumFunctionOnSet(TimedOut, Launched)
      /\ m + SumFunctionOnSet(PendingErrors, Launched) = SumFunctionOnSet(Failed, Launched)
  BY DEF TotalsInv, FailuresCounted
<1>9. totals'.timeouts + SumFunctionOnSet(PendingTimeouts', Launched) = SumFunctionOnSet(TimedOut', Launched)
  <2>1. totals.timeouts \in Int /\ totals'.timeouts \in Int
    BY <1>4
  <2>2. \A w \in Launched : /\ PendingTimeouts[w] \in Int /\ TimedOut[w] \in Int
                            /\ PendingTimeouts'[w] \in Int /\ TimedOut'[w] \in Int
    BY <1>2, <1>5
  <2>3. \A w \in Launched \ {x} : PendingTimeouts'[w] = PendingTimeouts[w] /\ TimedOut'[w] = TimedOut[w]
    BY <1>1, <1>2
  <2> QED
    BY <1>1, <1>2, <1>6, <1>8, <2>1, <2>2, <2>3, SumsMove
<1>10. m2 + SumFunctionOnSet(PendingErrors', Launched) = SumFunctionOnSet(Failed', Launched)
  <2>2. \A w \in Launched : /\ PendingErrors[w] \in Int /\ Failed[w] \in Int
                            /\ PendingErrors'[w] \in Int /\ Failed'[w] \in Int
    BY <1>2, <1>5
  <2>3. \A w \in Launched \ {x} : PendingErrors'[w] = PendingErrors[w] /\ Failed'[w] = Failed[w]
    BY <1>1, <1>2
  <2> HIDE DEF m, m2
  <2> QED
    BY <1>1, <1>2, <1>7, <1>8, <2>2, <2>3, SumsMove
<1>11. FailuresCounted'
  BY <1>1, <1>9, <1>10 DEF FailuresCounted
<1>12. WithheldInv'
  <2> SUFFICES ASSUME NEW w \in Workers
               PROVE  PendingTimeouts'[w] <= TimedOut'[w] /\ PendingErrors'[w] <= Failed'[w]
    BY DEF WithheldInv
  <2>1. PendingTimeouts[w] <= TimedOut[w] /\ PendingErrors[w] <= Failed[w]
    BY DEF TotalsInv, WithheldInv
  <2>2. CASE w = x
    <3> HIDE DEF m, m2
    <3> QED
      BY <1>4, <1>5, <1>6, <1>7, <2>1, <2>2
  <2>3. CASE w # x
    BY <1>1, <2>1, <2>3
  <2> QED
    BY <2>2, <2>3
<1>13. AccountInv'
  <2> SUFFICES ASSUME NEW t \in Scrapes, NEW e \in Devices
               PROVE  Accounted(pc'[t][e], loc'[t][e], hist'[t][e])
    BY DEF AccountInv
  <2>1. CASE t = s /\ e = d
    BY <1>1, <2>1 DEF MovesAt, Moves
  <2>2. CASE t # s \/ e # d
    BY <2>2, Elsewhere DEF TotalsInv, AccountInv
  <2> QED
    BY <2>1, <2>2
<1>14. IsFiniteSet(Launched)'
  BY <1>1, <1>2
<1> QED
  BY <1>11, <1>12, <1>13, <1>14

\* Once collect() returned, the totals include everything that happened to the
\* scrape's workers: none of them withholds anything, and what the others
\* withhold has happened to them.
LEMMA OwnCounted ==
    ASSUME PoolTypeOK, QuietAfterWait, TotalsInv, NEW s \in Scrapes, Returned(s)
    PROVE  totals.timeouts >= OwnTimeouts(s) /\ totals.errors + totals.retries >= OwnFailures(s)
<1> DEFINE own == {s} \X Devices
<1>1. \A w \in own : PendingTimeouts[w] = 0 /\ PendingErrors[w] = 0
  <2> SUFFICES ASSUME NEW d \in Devices
               PROVE  PendingTimeouts[<<s, d>>] = 0 /\ PendingErrors[<<s, d>>] = 0
    OBVIOUS
  <2>1. pc[s][d] = "done"
    BY DEF QuietAfterWait, At
  <2>2. PendT(pc[s][d], loc[s][d]) = 0 /\ PendE(pc[s][d], loc[s][d]) = 0
    BY <2>1 DEF PendT, PendE
  <2> QED
    BY <2>2, Terms
<1>2. own \in SUBSET Launched
  BY DEF Launched, Workers, QuietAfterWait, At
<1>3. IsFiniteSet(Launched) /\ Launched \subseteq Workers
  BY DEF TotalsInv, Launched
<1>4. OwnTimeouts(s) = SumFunctionOnSet(TimedOut, own) /\ OwnFailures(s) = SumFunctionOnSet(Failed, own)
  BY DEF OwnTimeouts, OwnFailures
<1> HIDE DEF own
<1>5. \A w \in Launched :
        /\ PendingTimeouts[w] \in Int /\ PendingErrors[w] \in Int /\ TimedOut[w] \in Int /\ Failed[w] \in Int
        /\ PendingTimeouts[w] <= TimedOut[w] /\ PendingErrors[w] <= Failed[w]
  BY <1>3, TermsType DEF TotalsInv, WithheldInv
<1>6. SumFunctionOnSet(TimedOut, own)
        <= SumFunctionOnSet(TimedOut, Launched) - SumFunctionOnSet(PendingTimeouts, Launched)
  <2>1. /\ \A w \in Launched : TimedOut[w] \in Int /\ PendingTimeouts[w] \in Int /\ PendingTimeouts[w] <= TimedOut[w]
        /\ \A w \in own : PendingTimeouts[w] = 0
    BY <1>1, <1>5
  <2> QED
    BY <1>2, <1>3, <2>1, SumOfPart
<1>7. SumFunctionOnSet(Failed, own)
        <= SumFunctionOnSet(Failed, Launched) - SumFunctionOnSet(PendingErrors, Launched)
  <2>1. /\ \A w \in Launched : Failed[w] \in Int /\ PendingErrors[w] \in Int /\ PendingErrors[w] <= Failed[w]
        /\ \A w \in own : PendingErrors[w] = 0
    BY <1>1, <1>5
  <2> QED
    BY <1>2, <1>3, <2>1, SumOfPart
<1>8. /\ SumFunctionOnSet(TimedOut, own) \in Int /\ SumFunctionOnSet(Failed, own) \in Int
      /\ SumFunctionOnSet(PendingTimeouts, Launched) \in Int /\ SumFunctionOnSet(PendingErrors, Launched) \in Int
  <2>1. (\A w \in Launched : TimedOut[w] \in Int) /\ (\A w \in Launched : Failed[w] \in Int)
    BY <1>5
  <2>2. (\A w \in Launched : PendingTimeouts[w] \in Int) /\ (\A w \in Launched : PendingErrors[w] \in Int)
    BY <1>5
  <2>3. Launched \in SUBSET Launched
    OBVIOUS
  <2>4. \A T \in SUBSET Launched : SumFunctionOnSet(TimedOut, T) \in Int
    BY <1>3, <2>1, SumFacts
  <2>5. \A T \in SUBSET Launched : SumFunctionOnSet(Failed, T) \in Int
    BY <1>3, <2>1, SumFacts
  <2>6. \A T \in SUBSET Launched : SumFunctionOnSet(PendingTimeouts, T) \in Int
    BY <1>3, <2>2, SumFacts
  <2>7. \A T \in SUBSET Launched : SumFunctionOnSet(PendingErrors, T) \in Int
    BY <1>3, <2>2, SumFacts
  <2> QED
    BY <1>2, <2>3, <2>4, <2>5, <2>6, <2>7
<1>9. /\ totals.timeouts + SumFunctionOnSet(PendingTimeouts, Launched) = SumFunctionOnSet(TimedOut, Launched)
      /\ totals.errors + totals.retries + SumFunctionOnSet(PendingErrors, Launched)
           = SumFunctionOnSet(Failed, Launched)
      /\ totals.timeouts \in Nat /\ totals.errors \in Nat /\ totals.retries \in Nat
  BY DEF TotalsInv, FailuresCounted, PoolTypeOK
<1> QED
  BY <1>4, <1>6, <1>7, <1>8, <1>9

\* What happened to a scrape's workers is a number.
LEMMA OwnType ==
    ASSUME PoolTypeOK, NEW s \in Scrapes
    PROVE  OwnTimeouts(s) \in Int /\ OwnFailures(s) \in Int
<1> DEFINE own == {s} \X Devices
<1>1. IsFiniteSet(own) /\ own \in SUBSET own /\ own \subseteq Workers
  <2>1. IsFiniteSet({s}) /\ IsFiniteSet(Devices)
    <3>1. IsFiniteSet(1..N)
      BY CountsAssumption, FS_Interval
    <3> QED
      BY <3>1, FS_Singleton DEF Devices
  <2> QED
    BY <2>1, FS_Product DEF Workers
<1>2. OwnTimeouts(s) = SumFunctionOnSet(TimedOut, own) /\ OwnFailures(s) = SumFunctionOnSet(Failed, own)
  BY DEF OwnTimeouts, OwnFailures
<1> HIDE DEF own
<1>3. (\A w \in own : TimedOut[w] \in Int) /\ (\A w \in own : Failed[w] \in Int)
  BY <1>1, TermsType
<1>4. \A T \in SUBSET own : SumFunctionOnSet(TimedOut, T) \in Int
  BY <1>1, <1>3, SumFacts
<1>5. \A T \in SUBSET own : SumFunctionOnSet(Failed, T) \in Int
  BY <1>1, <1>3, SumFacts
<1> QED
  BY <1>1, <1>2, <1>4, <1>5

\* Nothing happens any more to a scrape whose collect() has returned.
LEMMA OwnStays ==
    ASSUME PoolTypeOK, PoolTypeOK', QuietAfterWait, NEW s \in Scrapes, NEW d \in Devices, Work(s, d),
           NEW t \in Scrapes, Returned(t)
    PROVE  OwnTimeouts(t)' = OwnTimeouts(t) /\ OwnFailures(t)' = OwnFailures(t)
<1> DEFINE own == {t} \X Devices
<1>1. t # s
  <2>1. pc[s][d] # "done"
    BY SliceWriter
  <2> QED
    BY <2>1 DEF QuietAfterWait, At
<1>2. \A w \in own : TimedOut'[w] = TimedOut[w] /\ Failed'[w] = Failed[w]
  <2> SUFFICES ASSUME NEW e \in Devices
               PROVE  TimedOut'[<<t, e>>] = TimedOut[<<t, e>>] /\ Failed'[<<t, e>>] = Failed[<<t, e>>]
    OBVIOUS
  <2>1. hist'[t][e] = hist[t][e]
    BY <1>1, Elsewhere
  <2> QED
    BY <2>1, Terms, TermsAfter
<1>3. IsFiniteSet(own) /\ own \subseteq Workers
  <2>1. IsFiniteSet({t}) /\ IsFiniteSet(Devices)
    <3>1. IsFiniteSet(1..N)
      BY CountsAssumption, FS_Interval
    <3> QED
      BY <3>1, FS_Singleton DEF Devices
  <2> QED
    BY <2>1, FS_Product DEF Workers
<1>4. /\ OwnTimeouts(t) = SumFunctionOnSet(TimedOut, own) /\ OwnFailures(t) = SumFunctionOnSet(Failed, own)
      /\ OwnTimeouts(t)' = SumFunctionOnSet(TimedOut', own)
      /\ OwnFailures(t)' = SumFunctionOnSet(Failed', own)
  BY DEF OwnTimeouts, OwnFailures
<1> HIDE DEF own
<1>5. \A w \in own : TimedOut[w] \in Int /\ TimedOut'[w] = TimedOut[w]
  BY <1>2, <1>3, TermsType
<1>6. \A w \in own : Failed[w] \in Int /\ Failed'[w] = Failed[w]
  BY <1>2, <1>3, TermsType
<1>7. SumFunctionOnSet(TimedOut', own) = SumFunctionOnSet(TimedOut, own)
  BY <1>3, <1>5, SumSame
<1>8. SumFunctionOnSet(Failed', own) = SumFunctionOnSet(Failed, own)
  BY <1>3, <1>6, SumSame
<1> QED
  BY <1>4, <1>7, <1>8

\* A worker's step leaves what other scrapes have loaded good.
LEMMA WorkTotals ==
    ASSUME PoolTypeOK, PoolTypeOK', QuietAfterWait, TotalsInv,
           NEW s \in Scrapes, NEW d \in Devices, Work(s, d)
    PROVE  TotalsInv'
<1>1. AccountInv' /\ IsFiniteSet(Launched)' /\ FailuresCounted' /\ WithheldInv'
  BY WorkCounted
<1>2. disp' = disp /\ out' = out
  BY SliceWriter
<1>3. totals'.retries >= totals.retries
  <2>1. MovesAt(s, d)
    BY WorkTerms DEF TotalsInv
  <2> QED
    BY <2>1 DEF MovesAt, Moves
<1>4. LoadedInv'
  <2> SUFFICES ASSUME NEW t \in Scrapes
               PROVE  /\ disp[t] \in {"retries", "done"} => out[t].timeouts >= OwnTimeouts(t)'
                      /\ disp[t] \in {"timeouts", "retries"} =>
                           out[t].errors + totals'.retries >= OwnFailures(t)'
                      /\ disp[t] = "done" => out[t].errors + out[t].retries >= OwnFailures(t)'
    BY <1>2 DEF LoadedInv
  <2>1. /\ disp[t] \in {"retries", "done"} => out[t].timeouts >= OwnTimeouts(t)
        /\ disp[t] \in {"timeouts", "retries"} => out[t].errors + totals.retries >= OwnFailures(t)
        /\ disp[t] = "done" => out[t].errors + out[t].retries >= OwnFailures(t)
    BY DEF TotalsInv, LoadedInv
  <2>2. CASE disp[t] \in {"timeouts", "retries", "done"}
    <3>1. OwnTimeouts(t)' = OwnTimeouts(t) /\ OwnFailures(t)' = OwnFailures(t)
      BY <2>2, OwnStays DEF Returned
    <3>2. out[t].errors \in Nat /\ totals.retries \in Nat /\ totals'.retries \in Nat
      BY DEF PoolTypeOK, Output
    <3>3. OwnFailures(t) \in Int
      BY OwnType
    <3> QED
      BY <1>3, <2>1, <3>1, <3>2, <3>3
  <2>3. CASE disp[t] \notin {"timeouts", "retries", "done"}
    BY <2>3
  <2> QED
    BY <2>2, <2>3
<1> QED
  BY <1>1, <1>4 DEF TotalsInv

\* A launch adds a worker to whom nothing has happened.
LEMMA LaunchTotals ==
    ASSUME PoolTypeOK, PoolTypeOK', IInv, TotalsInv, NEW s \in Scrapes, Launch(s)
    PROVE  TotalsInv'
<1> DEFINE d == next[s]
           x == <<s, d>>
<1>1. /\ disp[s] = "launch" /\ d \in Devices /\ pc[s][d] = "idle"
      /\ pc' = [pc EXCEPT ![s][d] = "exec"] /\ disp' = [disp EXCEPT ![s] = "loop"]
      /\ loc' = loc /\ hist' = hist /\ totals' = totals /\ out' = out
  <2>1. disp[s] = "launch" /\ next[s] <= N
    BY DEF Launch, IInv, LaunchInv
  <2>2. d \in Devices
    BY <2>1, CountsAssumption DEF PoolTypeOK, Devices
  <2>3. pc[s][d] = "idle"
    BY <2>2, CountsAssumption DEF IInv, LaunchInv, Devices
  <2> QED
    BY <2>1, <2>2, <2>3 DEF Launch
<1>2. pc'[s][d] = "exec"
  BY <1>1 DEF PoolTypeOK
<1>3. ASSUME NEW t \in Scrapes, NEW e \in Devices, t # s \/ e # d
      PROVE  pc'[t][e] = pc[t][e]
  BY <1>1, <1>3 DEF PoolTypeOK
<1>4. x \in Workers /\ x \notin Launched /\ Launched' = Launched \cup {x}
  BY <1>1, <1>2, <1>3 DEF Launched, Workers
<1>5. Accounted(pc[s][d], loc[s][d], hist[s][d]) /\ loc[s][d] \in Locals
  BY <1>1 DEF TotalsInv, AccountInv, PoolTypeOK
<1>6. /\ TimedOut'[x] = 0 /\ Failed'[x] = 0 /\ PendingTimeouts'[x] = 0 /\ PendingErrors'[x] = 0
  <2>1. PendT(pc'[s][d], loc'[s][d]) = 0 /\ PendE(pc'[s][d], loc'[s][d]) = 0
    BY <1>1, <1>2, <1>5 DEF Accounted, PendT, PendE
  <2>2. hist'[s][d].timeouts = 0 /\ hist'[s][d].failed + hist'[s][d].parse = 0
    BY <1>1, <1>5 DEF Accounted
  <2> QED
    BY <1>1, <2>1, <2>2, TermsAfter
<1>7. \A w \in Workers : TimedOut'[w] = TimedOut[w] /\ Failed'[w] = Failed[w]
  BY <1>1 DEF TimedOut, Failed
<1>8. ASSUME NEW w \in Workers, w # x
      PROVE  PendingTimeouts'[w] = PendingTimeouts[w] /\ PendingErrors'[w] = PendingErrors[w]
  <2>1. PICK t \in Scrapes, e \in Devices : w = <<t, e>>
    BY DEF Workers
  <2>2. pc'[t][e] = pc[t][e] /\ loc'[t][e] = loc[t][e]
    BY <1>1, <1>3, <1>8, <2>1
  <2> QED
    BY <2>1, <2>2, Terms, TermsAfter
<1>9. IsFiniteSet(Launched) /\ Launched \subseteq Workers
  BY DEF TotalsInv, Launched
<1> HIDE DEF x
<1>10. \A w \in Launched \cup {x} :
         /\ PendingTimeouts'[w] \in Int /\ PendingErrors'[w] \in Int
         /\ TimedOut'[w] \in Int /\ Failed'[w] \in Int
  BY <1>4, <1>9, TermsTypeAfter
<1>11. \A w \in Launched :
         /\ PendingTimeouts[w] = PendingTimeouts'[w] /\ PendingErrors[w] = PendingErrors'[w]
         /\ TimedOut[w] = TimedOut'[w] /\ Failed[w] = Failed'[w]
  BY <1>4, <1>7, <1>8, <1>9
<1>12. /\ SumFunctionOnSet(PendingTimeouts', Launched \cup {x}) = SumFunctionOnSet(PendingTimeouts, Launched)
       /\ SumFunctionOnSet(PendingErrors', Launched \cup {x}) = SumFunctionOnSet(PendingErrors, Launched)
       /\ SumFunctionOnSet(TimedOut', Launched \cup {x}) = SumFunctionOnSet(TimedOut, Launched)
       /\ SumFunctionOnSet(Failed', Launched \cup {x}) = SumFunctionOnSet(Failed, Launched)
  <2> DEFINE L == Launched
  <2>0. IsFiniteSet(L) /\ x \notin L
    BY <1>4, <1>9
  <2> HIDE DEF L
  <2>1. ASSUME NEW f, NEW g, \A w \in L \cup {x} : g[w] \in Int, \A w \in L : f[w] = g[w], g[x] = 0
        PROVE  SumFunctionOnSet(g, L \cup {x}) = SumFunctionOnSet(f, L)
    BY ONLY <2>0, <2>1, SumZero
  <2>2. /\ \A w \in L \cup {x} : PendingTimeouts'[w] \in Int
        /\ \A w \in L \cup {x} : PendingErrors'[w] \in Int
        /\ \A w \in L \cup {x} : TimedOut'[w] \in Int
        /\ \A w \in L \cup {x} : Failed'[w] \in Int
    BY <1>10 DEF L
  <2>3. /\ \A w \in L : PendingTimeouts[w] = PendingTimeouts'[w]
        /\ \A w \in L : PendingErrors[w] = PendingErrors'[w]
        /\ \A w \in L : TimedOut[w] = TimedOut'[w]
        /\ \A w \in L : Failed[w] = Failed'[w]
    BY <1>11 DEF L
  <2>4. /\ SumFunctionOnSet(PendingTimeouts', L \cup {x}) = SumFunctionOnSet(PendingTimeouts, L)
        /\ SumFunctionOnSet(PendingErrors', L \cup {x}) = SumFunctionOnSet(PendingErrors, L)
        /\ SumFunctionOnSet(TimedOut', L \cup {x}) = SumFunctionOnSet(TimedOut, L)
        /\ SumFunctionOnSet(Failed', L \cup {x}) = SumFunctionOnSet(Failed, L)
    BY <1>6, <2>1, <2>2, <2>3
  <2> QED
    BY <2>4 DEF L
<1>13. FailuresCounted'
  <2>1. /\ totals.timeouts + SumFunctionOnSet(PendingTimeouts, Launched)
             = SumFunctionOnSet(TimedOut, Launched)
        /\ totals.errors + totals.retries + SumFunctionOnSet(PendingErrors, Launched)
             = SumFunctionOnSet(Failed, Launched)
    BY DEF TotalsInv, FailuresCounted
  <2>2. /\ totals'.timeouts + SumFunctionOnSet(PendingTimeouts', Launched \cup {x})
             = SumFunctionOnSet(TimedOut', Launched \cup {x})
        /\ totals'.errors + totals'.retries + SumFunctionOnSet(PendingErrors', Launched \cup {x})
             = SumFunctionOnSet(Failed', Launched \cup {x})
    BY <1>1, <1>12, <2>1
  <2>3. /\ totals'.timeouts + SumFunctionOnSet(PendingTimeouts', Launched')
             = SumFunctionOnSet(TimedOut', Launched')
        /\ totals'.errors + totals'.retries + SumFunctionOnSet(PendingErrors', Launched')
             = SumFunctionOnSet(Failed', Launched')
    BY <1>4, <2>2, Zenon
  <2> QED
    BY <2>3 DEF FailuresCounted
<1>14. WithheldInv'
  <2> SUFFICES ASSUME NEW w \in Workers
               PROVE  PendingTimeouts'[w] <= TimedOut'[w] /\ PendingErrors'[w] <= Failed'[w]
    BY DEF WithheldInv
  <2>1. CASE w = x
    BY <1>6, <2>1
  <2>2. CASE w # x
    BY <1>7, <1>8, <2>2 DEF TotalsInv, WithheldInv
  <2> QED
    BY <2>1, <2>2
<1>15. AccountInv'
  <2> SUFFICES ASSUME NEW t \in Scrapes, NEW e \in Devices
               PROVE  Accounted(pc'[t][e], loc'[t][e], hist'[t][e])
    BY DEF AccountInv
  <2>1. CASE t = s /\ e = d
    BY <1>2, <2>1 DEF Accounted
  <2>2. CASE t # s \/ e # d
    BY <1>1, <1>3, <2>2 DEF TotalsInv, AccountInv
  <2> QED
    BY <2>1, <2>2
<1>16. LoadedInv'
  <2> SUFFICES ASSUME NEW t \in Scrapes
               PROVE  /\ disp'[t] \in {"retries", "done"} => out'[t].timeouts >= OwnTimeouts(t)'
                      /\ disp'[t] \in {"timeouts", "retries"} =>
                           out'[t].errors + totals'.retries >= OwnFailures(t)'
                      /\ disp'[t] = "done" => out'[t].errors + out'[t].retries >= OwnFailures(t)'
    BY DEF LoadedInv
  <2>1. OwnTimeouts(t)' = OwnTimeouts(t) /\ OwnFailures(t)' = OwnFailures(t)
    BY <1>1 DEF OwnTimeouts, OwnFailures, TimedOut, Failed
  <2>2. disp'[t] \in {"timeouts", "retries", "done"} => disp'[t] = disp[t]
    BY <1>1 DEF PoolTypeOK
  <2> QED
    BY <1>1, <2>1, <2>2 DEF TotalsInv, LoadedInv
<1>17. IsFiniteSet(Launched)'
  <2>1. IsFiniteSet(Launched \cup {x})
    BY <1>9, FS_AddElement
  <2> QED
    BY <1>4, <2>1
<1> QED
  BY <1>13, <1>14, <1>15, <1>16, <1>17 DEF TotalsInv

\* Steps that leave the workers and the totals alone keep all but LoadedInv, and
\* change no scrape's own numbers.
LEMMA SameTotals ==
    ASSUME TotalsInv, UNCHANGED <<pc, loc, hist, totals>>
    PROVE  /\ AccountInv' /\ IsFiniteSet(Launched)' /\ FailuresCounted' /\ WithheldInv'
           /\ \A t \in Scrapes : OwnTimeouts(t)' = OwnTimeouts(t) /\ OwnFailures(t)' = OwnFailures(t)
<1>1. /\ PendingTimeouts' = PendingTimeouts /\ PendingErrors' = PendingErrors
      /\ TimedOut' = TimedOut /\ Failed' = Failed /\ Launched' = Launched
  BY DEF PendingTimeouts, PendingErrors, TimedOut, Failed, Launched
<1>2. FailuresCounted' /\ WithheldInv' /\ IsFiniteSet(Launched)'
  BY <1>1 DEF TotalsInv, FailuresCounted, WithheldInv
<1>3. AccountInv'
  BY DEF TotalsInv, AccountInv
<1>4. \A t \in Scrapes : OwnTimeouts(t)' = OwnTimeouts(t) /\ OwnFailures(t)' = OwnFailures(t)
  BY <1>1 DEF OwnTimeouts, OwnFailures
<1> QED
  BY <1>2, <1>3, <1>4

\* The dispatcher's other steps: a load finds the scrape's own failures counted.
LEMMA DispatchTotals ==
    ASSUME PoolTypeOK, QuietAfterWait, TotalsInv, NEW s \in Scrapes,
           Start(s) \/ Acquire(s) \/ WaitAll(s) \/ Emit(s) \/ LoadTotals(s)
    PROVE  TotalsInv'
<1>1. UNCHANGED <<pc, loc, hist, totals>>
  BY DEF Start, Acquire, WaitAll, Emit, LoadTotals, LoadTotal, shared
<1>2. /\ AccountInv' /\ IsFiniteSet(Launched)' /\ FailuresCounted' /\ WithheldInv'
      /\ \A t \in Scrapes : OwnTimeouts(t)' = OwnTimeouts(t) /\ OwnFailures(t)' = OwnFailures(t)
  BY <1>1, SameTotals
<1>3. \A t \in Scrapes : t # s => disp'[t] = disp[t] /\ out'[t] = out[t]
  BY DEF Start, Acquire, WaitAll, Emit, LoadTotals, LoadTotal, PoolTypeOK
<1>4. /\ disp[s] \in {"retries", "done"} => out[s].timeouts >= OwnTimeouts(s)
      /\ disp[s] \in {"timeouts", "retries"} => out[s].errors + totals.retries >= OwnFailures(s)
  BY DEF TotalsInv, LoadedInv
<1>5. Returned(s) =>
        totals.timeouts >= OwnTimeouts(s) /\ totals.errors + totals.retries >= OwnFailures(s)
  BY OwnCounted
<1>6. /\ disp'[s] \in {"retries", "done"} => out'[s].timeouts >= OwnTimeouts(s)
      /\ disp'[s] \in {"timeouts", "retries"} => out'[s].errors + totals.retries >= OwnFailures(s)
      /\ disp'[s] = "done" => out'[s].errors + out'[s].retries >= OwnFailures(s)
  <2>0. out[s] \in Output
    BY DEF PoolTypeOK
  <2>1. CASE Start(s) \/ Acquire(s) \/ WaitAll(s) \/ Emit(s)
    <3>1. disp'[s] \in {"loop", "launch", "emit", "errors"}
      BY <2>1 DEF Start, Acquire, WaitAll, Emit, PoolTypeOK
    <3> QED
      BY <3>1
  <2>2. CASE LoadTotal(s, "errors", "timeouts")
    <3>1. disp[s] = "errors" /\ disp'[s] = "timeouts" /\ out'[s] = [out[s] EXCEPT !["errors"] = totals["errors"]]
      BY <2>2 DEF LoadTotal, PoolTypeOK
    <3>2. out'[s].errors = totals.errors
      BY <2>0, <3>1 DEF Output
    <3> QED
      BY <1>5, <3>1, <3>2 DEF Returned
  <2>3. CASE LoadTotal(s, "timeouts", "retries")
    <3>1. disp[s] = "timeouts" /\ disp'[s] = "retries" /\ out'[s] = [out[s] EXCEPT !["timeouts"] = totals["timeouts"]]
      BY <2>3 DEF LoadTotal, PoolTypeOK
    <3>2. out'[s].errors = out[s].errors /\ out'[s].timeouts = totals.timeouts
      BY <2>0, <3>1 DEF Output
    <3> QED
      BY <1>4, <1>5, <3>1, <3>2 DEF Returned
  <2>4. CASE LoadTotal(s, "retries", "done")
    <3>1. disp[s] = "retries" /\ disp'[s] = "done" /\ out'[s] = [out[s] EXCEPT !["retries"] = totals["retries"]]
      BY <2>4 DEF LoadTotal, PoolTypeOK
    <3>2. /\ out'[s].errors = out[s].errors /\ out'[s].timeouts = out[s].timeouts
          /\ out'[s].retries = totals.retries
      BY <2>0, <3>1 DEF Output
    <3> QED
      BY <1>4, <3>1, <3>2
  <2> QED
    BY <2>1, <2>2, <2>3, <2>4 DEF LoadTotals
<1>7. LoadedInv'
  <2> SUFFICES ASSUME NEW t \in Scrapes
               PROVE  /\ disp'[t] \in {"retries", "done"} => out'[t].timeouts >= OwnTimeouts(t)'
                      /\ disp'[t] \in {"timeouts", "retries"} =>
                           out'[t].errors + totals'.retries >= OwnFailures(t)'
                      /\ disp'[t] = "done" => out'[t].errors + out'[t].retries >= OwnFailures(t)'
    BY DEF LoadedInv
  <2>1. CASE t = s
    BY <1>1, <1>2, <1>6, <2>1
  <2>2. CASE t # s
    BY <1>1, <1>2, <1>3, <2>2 DEF TotalsInv, LoadedInv
  <2> QED
    BY <2>1, <2>2
<1> QED
  BY <1>2, <1>7 DEF TotalsInv

LEMMA InitTotals == Init => TotalsInv
<1> SUFFICES ASSUME Init PROVE TotalsInv
  OBVIOUS
<1>1. AccountInv
  BY DEF Init, AccountInv, Accounted, NoLocals, NoHist
<1>2. Launched = {}
  BY DEF Init, Launched, Workers
<1>3. IsFiniteSet(Launched)
  BY <1>2, FS_EmptySet
<1>4. \A f : SumFunctionOnSet(f, {}) = 0
  <2> SUFFICES ASSUME NEW f PROVE SumFunctionOnSet(f, {}) = 0
    OBVIOUS
  <2>1. IsFiniteSet({}) /\ \A x \in {} : f[x] \in Int
    BY FS_EmptySet
  <2> QED
    BY ONLY <2>1, SumFacts
<1>5. FailuresCounted
  <2>1. totals.timeouts = 0 /\ totals.errors = 0 /\ totals.retries = 0
    BY DEF Init
  <2>2. /\ totals.timeouts + SumFunctionOnSet(PendingTimeouts, {}) = SumFunctionOnSet(TimedOut, {})
        /\ totals.errors + totals.retries + SumFunctionOnSet(PendingErrors, {})
             = SumFunctionOnSet(Failed, {})
    BY <1>4, <2>1
  <2>3. /\ totals.timeouts + SumFunctionOnSet(PendingTimeouts, Launched) = SumFunctionOnSet(TimedOut, Launched)
        /\ totals.errors + totals.retries + SumFunctionOnSet(PendingErrors, Launched)
             = SumFunctionOnSet(Failed, Launched)
    BY <1>2, <2>2, Zenon
  <2> QED
    BY <2>3 DEF FailuresCounted
<1>6. WithheldInv
  <2> SUFFICES ASSUME NEW s \in Scrapes, NEW d \in Devices
               PROVE  PendingTimeouts[<<s, d>>] <= TimedOut[<<s, d>>] /\ PendingErrors[<<s, d>>] <= Failed[<<s, d>>]
    BY DEF WithheldInv, Workers
  <2>1. PendT(pc[s][d], loc[s][d]) = 0 /\ PendE(pc[s][d], loc[s][d]) = 0
    BY DEF Init, PendT, PendE
  <2>2. hist[s][d].timeouts = 0 /\ hist[s][d].failed + hist[s][d].parse = 0
    BY DEF Init, NoHist
  <2> QED
    BY <2>1, <2>2, Terms
<1>7. LoadedInv
  BY DEF Init, LoadedInv
<1> QED
  BY <1>1, <1>3, <1>5, <1>6, <1>7 DEF TotalsInv

LEMMA NextTotals ==
    ASSUME IInv, IInv', QuietAfterWait, TotalsInv, [Next]_vars
    PROVE  TotalsInv'
<1>0. PoolTypeOK /\ PoolTypeOK'
  BY DEF IInv
<1>1. ASSUME NEW s \in Scrapes, Dispatch(s)
      PROVE  TotalsInv'
  BY <1>0, <1>1, LaunchTotals, DispatchTotals DEF Dispatch
<1>2. ASSUME NEW s \in Scrapes, NEW d \in Devices, Work(s, d)
      PROVE  TotalsInv'
  BY <1>0, <1>2, WorkTotals
<1>3. CASE UNCHANGED vars
  <2>1. UNCHANGED <<pc, loc, hist, totals, disp, out>>
    BY <1>3 DEF vars
  <2>2. /\ AccountInv' /\ IsFiniteSet(Launched)' /\ FailuresCounted' /\ WithheldInv'
        /\ \A t \in Scrapes : OwnTimeouts(t)' = OwnTimeouts(t) /\ OwnFailures(t)' = OwnFailures(t)
    BY <2>1, SameTotals
  <2>3. LoadedInv'
    BY <2>1, <2>2 DEF TotalsInv, LoadedInv
  <2> QED
    BY <2>2, <2>3 DEF TotalsInv
<1> QED
  BY <1>1, <1>2, <1>3 DEF Next, Finished

LEMMA TotalsInvariance == Spec => []TotalsInv
<1>1. Spec => []IInv
  BY Invariance
<1>2. Spec => []QuietAfterWait
  BY QuietHolds
<1> QED
  BY <1>1, <1>2, InitTotals, NextTotals, PTL DEF Spec

\* The process-wide totals lose no failure and count none twice, however many
\* scrapes overlap and however their workers interleave.
THEOREM TotalsBalance == Spec => []FailuresCounted
<1>1. TotalsInv => FailuresCounted
  BY DEF TotalsInv
<1> QED
  BY <1>1, TotalsInvariance, PTL

\* The totals a scrape emits include every failure of its own workers, although
\* it loads them one by one while other scrapes add to them.
THEOREM OwnFailuresReported == Spec => []OwnFailuresEmitted
<1>1. TotalsInv => OwnFailuresEmitted
  BY DEF TotalsInv, LoadedInv, OwnFailuresEmitted, OwnTimeouts, OwnFailures
<1> QED
  BY <1>1, TotalsInvariance, PTL
=============================================================================
