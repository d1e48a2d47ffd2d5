------------------------ MODULE TopologyCacheProofs ------------------------
(***************************************************************************)
(* Proofs about TopologyCache, for every number of scrapes, every TTL and  *)
(* every longest execution: no scrape is given a torn topology, and        *)
(* GetPorts implements StaleSource with Bound = TTL + RunTime.             *)
(*                                                                         *)
(* The age of an answer is bounded only because three ages add up: the     *)
(* execution's data is at most RunTime old when it is stored (ExecInv,     *)
(* WriterInv), the stored pair keeps that distance from its refresh time   *)
(* (CacheInv), and a hit is taken within TTL of it (ReaderInv).  The pair  *)
(* is whole outside the critical section only, so MutexInv comes first.    *)
(***************************************************************************)
EXTENDS TopologyCache, TLAPS

\* The mutex is held exactly by the scrape inside a critical section.
MutexInv == \A s \in Scrapes : pc[s] \in Critical <=> mu = s

\* A scrape has its answer exactly when its call is over.
ResultInv == \A s \in Scrapes : result[s] = "none" <=> pc[s] # "done"

\* An execution has not run past its deadline.
ExecInv ==
    \A s \in Scrapes : pc[s] = "exec" =>
        loc[s].begin \in 1..now /\ now - loc[s].begin <= RunTime

\* The lists a call holds come from one moment, at most age ago.
Holds(s, age) == loc[s].sw = loc[s].hc /\ loc[s].sw \in 1..now /\ now - loc[s].sw <= age

\* What is about to be stored is fresh, and the cache holds what was put so far.
WriterInv ==
    \A s \in Scrapes :
        /\ pc[s] \in {"store", "putSwitches", "putHcas", "putRefresh"} => Holds(s, RunTime)
        /\ pc[s] \in {"putHcas", "putRefresh"} => cache.switches = loc[s].sw
        /\ pc[s] = "putRefresh" => cache.hcas = loc[s].hc

\* A writer that has put one of the three fields but not all.
HalfWritten == \E s \in Scrapes : pc[s] \in {"putHcas", "putRefresh"}

\* The cache is empty, or holds one moment's lists and the time it got them.
CacheInv ==
    /\ cache.refresh <= now
    /\ HalfWritten \/ cache.refresh = 0 \/
         /\ cache.switches = cache.hcas
         /\ cache.switches \in 1..cache.refresh
         /\ cache.refresh - cache.switches <= RunTime

\* A reader that found the cache fresh still finds it so.
ReaderInv ==
    \A s \in Scrapes :
        /\ pc[s] \in {"switches", "hcas"} /\ loc[s].fresh =>
             cache.refresh # 0 /\ now - cache.refresh < TTL
        /\ pc[s] = "hcas" => loc[s].sw = cache.switches

\* What a call returns, and what it returned.
AnswerInv ==
    \A s \in Scrapes :
        /\ pc[s] \in {"log", "return"} => Holds(s, TTL + RunTime)
        /\ result[s] = "ok" => loc[s].sw = loc[s].hc /\ loc[s].sw # 0

IInv ==
    /\ TypeOK /\ MutexInv /\ ResultInv /\ ExecInv
    /\ WriterInv /\ CacheInv /\ ReaderInv /\ AnswerInv

-----------------------------------------------------------------------------
LEMMA InitInv == Init => IInv
<1> SUFFICES ASSUME Init PROVE IInv
  OBVIOUS
<1> USE TimesAssumption, ScrapesAssumption DEF Init, NoLocals
<1>1. TypeOK
  BY DEF TypeOK, Times, PCs
<1>2. MutexInv
  BY DEF MutexInv, Critical
<1>3. ResultInv /\ ExecInv /\ WriterInv /\ CacheInv /\ ReaderInv /\ AnswerInv
  BY DEF ResultInv, ExecInv, WriterInv, CacheInv, ReaderInv, AnswerInv
<1> QED
  BY <1>1, <1>2, <1>3 DEF IInv

\* Time passes only while every scrape is idle, executing or done, so no reader
\* or writer is under way and no execution is past its deadline.
LEMMA TickInv == IInv /\ Tick => IInv'
<1> SUFFICES ASSUME IInv, Tick PROVE IInv'
  OBVIOUS
<1> USE TimesAssumption, ScrapesAssumption DEF IInv, Tick
<1>1. now \in Nat /\ now' = now + 1
  BY DEF TypeOK
<1>2. TypeOK'
  BY DEF TypeOK
<1>3. MutexInv' /\ ResultInv'
  BY DEF MutexInv, ResultInv
<1>4. ExecInv'
  BY <1>1 DEF ExecInv, Expired, TypeOK, Times
<1>5. WriterInv' /\ ReaderInv' /\ AnswerInv'
  BY DEF WriterInv, ReaderInv, AnswerInv
<1>6. CacheInv'
  BY <1>1 DEF CacheInv, HalfWritten, TypeOK, Times
<1> QED
  BY <1>2, <1>3, <1>4, <1>5, <1>6

\* A call starts: nothing is held yet.
LEMMA CallInv == ASSUME NEW s \in Scrapes, IInv, Call(s) PROVE IInv'
<1> USE TimesAssumption, ScrapesAssumption DEF IInv, Call, Goto
<1>1. TypeOK'
  BY DEF TypeOK, Times, PCs
<1>2. MutexInv' /\ ResultInv'
  BY DEF MutexInv, ResultInv, TypeOK, Critical, PCs
<1>3. ExecInv' /\ WriterInv'
  BY DEF ExecInv, WriterInv, Holds, MutexInv, Critical, TypeOK, Times
<1>4. CacheInv'
  BY DEF CacheInv, HalfWritten, WriterInv, Holds, MutexInv, Critical, TypeOK, Times
<1>5. ReaderInv' /\ AnswerInv'
  BY DEF ReaderInv, AnswerInv, Holds, CacheInv, HalfWritten, MutexInv, ResultInv, Critical, TypeOK, Times
<1> QED
  BY <1>1, <1>2, <1>3, <1>4, <1>5

\* A reader enters: until it leaves nobody writes.
LEMMA LockLookInv == ASSUME NEW s \in Scrapes, IInv, Lock(s, "look", "fresh") PROVE IInv'
<1> USE TimesAssumption, ScrapesAssumption DEF IInv, Lock, Goto, LockFree
<1>1. TypeOK'
  BY DEF TypeOK, Times, PCs
<1>2. MutexInv' /\ ResultInv'
  BY DEF MutexInv, ResultInv, TypeOK, Critical, PCs
<1>3. ExecInv' /\ WriterInv'
  BY DEF ExecInv, WriterInv, Holds, MutexInv, Critical, TypeOK, Times
<1>4. CacheInv'
  BY DEF CacheInv, HalfWritten, WriterInv, Holds, MutexInv, Critical, TypeOK, Times
<1>5. ReaderInv' /\ AnswerInv'
  BY DEF ReaderInv, AnswerInv, Holds, CacheInv, HalfWritten, MutexInv, ResultInv, Critical, TypeOK, Times
<1> QED
  BY <1>1, <1>2, <1>3, <1>4, <1>5

LEMMA ReadFreshInv == ASSUME NEW s \in Scrapes, IInv, ReadFresh(s) PROVE IInv'
<1> USE TimesAssumption, ScrapesAssumption DEF IInv, ReadFresh, Goto
<1>1. TypeOK'
  <2>1. Fresh \in BOOLEAN
    BY DEF Fresh
  <2> HIDE DEF IInv
  <2>2. TypeOK
    BY DEF IInv
  <2>3. loc' \in [Scrapes -> [fresh : BOOLEAN, sw : Times, hc : Times, begin : Times]]
    BY <2>1, <2>2 DEF TypeOK
  <2>4. pc' \in [Scrapes -> PCs]
    BY <2>2 DEF TypeOK, PCs
  <2> QED
    BY <2>2, <2>3, <2>4 DEF TypeOK
<1>2. MutexInv' /\ ResultInv'
  BY DEF MutexInv, ResultInv, TypeOK, Critical, PCs
<1>3. ExecInv' /\ WriterInv'
  BY DEF ExecInv, WriterInv, Holds, MutexInv, Critical, TypeOK, Times
<1>4. CacheInv'
  BY DEF CacheInv, HalfWritten, WriterInv, Holds, MutexInv, Critical, TypeOK, Times
<1>5. ReaderInv'
  <2>1. loc'[s].fresh = Fresh /\ pc'[s] = "switches"
    BY DEF TypeOK
  <2>2. \A t \in Scrapes \ {s} : loc'[t] = loc[t] /\ pc'[t] = pc[t]
    BY DEF TypeOK
  <2> QED
    BY <2>1, <2>2 DEF ReaderInv, Fresh
<1>6. AnswerInv'
  BY DEF AnswerInv, Holds, ResultInv, TypeOK
<1> QED
  BY <1>1, <1>2, <1>3, <1>4, <1>5, <1>6

LEMMA ReadSwitchesInv == ASSUME NEW s \in Scrapes, IInv, ReadSwitches(s) PROVE IInv'
<1> USE TimesAssumption, ScrapesAssumption DEF IInv, ReadSwitches, Goto
<1>1. TypeOK'
  BY DEF TypeOK, Times, PCs
<1>2. MutexInv' /\ ResultInv'
  BY DEF MutexInv, ResultInv, TypeOK, Critical, PCs
<1>3. ExecInv' /\ WriterInv'
  BY DEF ExecInv, WriterInv, Holds, MutexInv, Critical, TypeOK, Times
<1>4. CacheInv'
  BY DEF CacheInv, HalfWritten, WriterInv, Holds, MutexInv, Critical, TypeOK, Times
<1>5. ReaderInv' /\ AnswerInv'
  BY DEF ReaderInv, AnswerInv, Holds, CacheInv, HalfWritten, MutexInv, ResultInv, Critical, TypeOK, Times
<1> QED
  BY <1>1, <1>2, <1>3, <1>4, <1>5

\* A hit leaves with one moment's lists: no writer was inside meanwhile.
LEMMA ReadHcasInv == ASSUME NEW s \in Scrapes, IInv, ReadHcas(s) PROVE IInv'
<1> USE TimesAssumption, ScrapesAssumption DEF IInv, ReadHcas, Goto
<1>1. \A t \in Scrapes \ {s} : loc'[t] = loc[t] /\ pc'[t] = pc[t]
  BY DEF TypeOK
<1>2. CASE loc[s].fresh
  <2>1. /\ loc' = [loc EXCEPT ![s].hc = cache.hcas]
        /\ pc' = [pc EXCEPT ![s] = "log"]
    BY <1>2
  <2>2. TypeOK' /\ MutexInv' /\ ResultInv'
    BY <2>1 DEF TypeOK, Times, PCs, MutexInv, ResultInv, Critical
  <2>3. ExecInv' /\ WriterInv' /\ CacheInv' /\ ReaderInv'
    BY <2>1, <1>1 DEF ExecInv, WriterInv, Holds, CacheInv, HalfWritten, ReaderInv, TypeOK, Times
  <2>4. ~HalfWritten
    BY DEF HalfWritten, MutexInv, Critical
  <2>5. /\ cache.switches = cache.hcas /\ loc[s].sw = cache.switches
        /\ cache.switches \in 1..now /\ now - cache.switches <= TTL + RunTime
    BY <2>4, <1>2 DEF CacheInv, ReaderInv, TypeOK, Times
  <2>6. loc'[s].sw = loc[s].sw /\ loc'[s].hc = cache.hcas
    BY <2>1 DEF TypeOK
  <2>7. AnswerInv'
    BY <2>1, <2>5, <2>6, <1>1 DEF AnswerInv, Holds, ResultInv, TypeOK
  <2> QED
    BY <2>2, <2>3, <2>7
<1>3. CASE ~loc[s].fresh
  <2>1. /\ loc' = [loc EXCEPT ![s] = [fresh |-> FALSE, sw |-> 0, hc |-> 0, begin |-> now]]
        /\ pc' = [pc EXCEPT ![s] = "exec"]
    BY <1>3 DEF NoLocals
  <2>2. TypeOK'
    BY <2>1 DEF TypeOK, Times, PCs
  <2>3. MutexInv' /\ ResultInv'
    BY <2>1 DEF TypeOK, PCs, MutexInv, ResultInv, Critical
  <2>4. loc'[s].begin = now /\ pc'[s] = "exec" /\ result[s] = "none"
    BY <2>1 DEF TypeOK, ResultInv
  <2>5. ExecInv'
    BY <2>4, <1>1 DEF ExecInv, TypeOK, Times
  <2>6. WriterInv'
    BY <2>4, <1>1 DEF WriterInv, Holds
  <2>7. CacheInv'
    BY <2>1 DEF CacheInv, HalfWritten, TypeOK
  <2>8. ReaderInv' /\ AnswerInv'
    BY <2>4, <1>1 DEF ReaderInv, AnswerInv, Holds
  <2> QED
    BY <2>2, <2>3, <2>5, <2>6, <2>7, <2>8
<1> QED
  BY <1>2, <1>3

\* An execution's data is at most as old as its start.
LEMMA ExecOkInv == ASSUME NEW s \in Scrapes, IInv, ExecOk(s) PROVE IInv'
<1> USE TimesAssumption, ScrapesAssumption DEF IInv, ExecOk, Goto
<1>1. PICK v \in loc[s].begin..now :
        loc' = [loc EXCEPT ![s] = [loc[s] EXCEPT !.sw = v, !.hc = v]]
  OBVIOUS
<1>2. PICK to \in {"store", "return"} : pc' = [pc EXCEPT ![s] = to]
  OBVIOUS
<1>3. v \in 1..now /\ now - v <= RunTime
  BY DEF ExecInv, TypeOK, Times
<1>4. \A t \in Scrapes \ {s} : loc'[t] = loc[t] /\ pc'[t] = pc[t]
  BY <1>2 DEF TypeOK
<1> DEFINE held == [loc[s] EXCEPT !.sw = v, !.hc = v]
<1>5. /\ loc'[s].sw = v /\ loc'[s].hc = v /\ pc'[s] = to /\ result[s] = "none"
      /\ held \in [fresh : BOOLEAN, sw : Times, hc : Times, begin : Times]
  <2>1. loc[s] \in [fresh : BOOLEAN, sw : Times, hc : Times, begin : Times] /\ v \in Times
    BY <1>3 DEF TypeOK, Times
  <2>2. held.sw = v /\ held.hc = v
        /\ held \in [fresh : BOOLEAN, sw : Times, hc : Times, begin : Times]
    BY <2>1
  <2>3. loc'[s] = held
    BY <1>1 DEF TypeOK
  <2> QED
    BY <1>2, <2>2, <2>3 DEF TypeOK, ResultInv
<1>6. TypeOK'
  BY <1>1, <1>2, <1>5 DEF TypeOK, PCs
<1>7. MutexInv' /\ ResultInv'
  BY <1>2 DEF MutexInv, ResultInv, TypeOK, Critical, PCs
<1>8. ExecInv' /\ WriterInv' /\ CacheInv' /\ ReaderInv' /\ AnswerInv'
  BY <1>3, <1>4, <1>5 DEF ExecInv, WriterInv, Holds, CacheInv, HalfWritten, ReaderInv, AnswerInv,
                          TypeOK, Times
<1> QED
  BY <1>6, <1>7, <1>8

LEMMA ExecFailedInv == ASSUME NEW s \in Scrapes, IInv, ExecFailed(s) PROVE IInv'
<1> USE TimesAssumption, ScrapesAssumption DEF IInv, ExecFailed, Goto
<1>1. TypeOK'
  BY DEF TypeOK, Times, PCs
<1>2. MutexInv' /\ ResultInv'
  BY DEF MutexInv, ResultInv, TypeOK, Critical, PCs
<1>3. ExecInv' /\ WriterInv'
  BY DEF ExecInv, WriterInv, Holds, MutexInv, Critical, TypeOK, Times
<1>4. CacheInv'
  BY DEF CacheInv, HalfWritten, WriterInv, Holds, MutexInv, Critical, TypeOK, Times
<1>5. ReaderInv' /\ AnswerInv'
  BY DEF ReaderInv, AnswerInv, Holds, CacheInv, HalfWritten, MutexInv, ResultInv, Critical, TypeOK, Times
<1> QED
  BY <1>1, <1>2, <1>3, <1>4, <1>5

\* A writer enters.
LEMMA LockStoreInv == ASSUME NEW s \in Scrapes, IInv, Lock(s, "store", "putSwitches") PROVE IInv'
<1> USE TimesAssumption, ScrapesAssumption DEF IInv, Lock, Goto, LockFree
<1>1. TypeOK'
  BY DEF TypeOK, Times, PCs
<1>2. MutexInv' /\ ResultInv'
  BY DEF MutexInv, ResultInv, TypeOK, Critical, PCs
<1>3. ExecInv' /\ WriterInv'
  BY DEF ExecInv, WriterInv, Holds, MutexInv, Critical, TypeOK, Times
<1>4. CacheInv'
  BY DEF CacheInv, HalfWritten, WriterInv, Holds, MutexInv, Critical, TypeOK, Times
<1>5. ReaderInv' /\ AnswerInv'
  BY DEF ReaderInv, AnswerInv, Holds, CacheInv, HalfWritten, MutexInv, ResultInv, Critical, TypeOK, Times
<1> QED
  BY <1>1, <1>2, <1>3, <1>4, <1>5

LEMMA PutSwitchesInv == ASSUME NEW s \in Scrapes, IInv, PutSwitches(s) PROVE IInv'
<1> USE TimesAssumption, ScrapesAssumption DEF IInv, PutSwitches, Goto
<1>1. TypeOK'
  BY DEF TypeOK, Times, PCs
<1>2. MutexInv' /\ ResultInv'
  BY DEF MutexInv, ResultInv, TypeOK, Critical, PCs
<1>3. ExecInv' /\ WriterInv'
  BY DEF ExecInv, WriterInv, Holds, MutexInv, Critical, TypeOK, Times
<1>4. CacheInv'
  BY DEF CacheInv, HalfWritten, WriterInv, Holds, MutexInv, Critical, TypeOK, Times
<1>5. ReaderInv' /\ AnswerInv'
  BY DEF ReaderInv, AnswerInv, Holds, CacheInv, HalfWritten, MutexInv, ResultInv, Critical, TypeOK, Times
<1> QED
  BY <1>1, <1>2, <1>3, <1>4, <1>5

\* The debug message of a hit.
LEMMA LogAgeInv == ASSUME NEW s \in Scrapes, IInv, LogAge(s) PROVE IInv'
<1> USE TimesAssumption, ScrapesAssumption DEF IInv, LogAge, Goto
<1>1. TypeOK'
  BY DEF TypeOK, Times, PCs
<1>2. MutexInv' /\ ResultInv'
  BY DEF MutexInv, ResultInv, TypeOK, Critical, PCs
<1>3. ExecInv' /\ WriterInv'
  BY DEF ExecInv, WriterInv, Holds, MutexInv, Critical, TypeOK, Times
<1>4. CacheInv'
  BY DEF CacheInv, HalfWritten, WriterInv, Holds, MutexInv, Critical, TypeOK, Times
<1>5. ReaderInv' /\ AnswerInv'
  BY DEF ReaderInv, AnswerInv, Holds, CacheInv, HalfWritten, MutexInv, ResultInv, Critical, TypeOK, Times
<1> QED
  BY <1>1, <1>2, <1>3, <1>4, <1>5

LEMMA PutHcasInv == ASSUME NEW s \in Scrapes, IInv, PutHcas(s) PROVE IInv'
<1> USE TimesAssumption, ScrapesAssumption DEF IInv, PutHcas, Goto
<1>1. TypeOK'
  BY DEF TypeOK, Times, PCs
<1>2. MutexInv' /\ ResultInv'
  BY DEF MutexInv, ResultInv, TypeOK, Critical, PCs
<1>3. ExecInv' /\ WriterInv'
  BY DEF ExecInv, WriterInv, Holds, MutexInv, Critical, TypeOK, Times
<1>4. CacheInv'
  BY DEF CacheInv, HalfWritten, WriterInv, Holds, MutexInv, Critical, TypeOK, Times
<1>5. ReaderInv' /\ AnswerInv'
  BY DEF ReaderInv, AnswerInv, Holds, CacheInv, HalfWritten, MutexInv, ResultInv, Critical, TypeOK, Times
<1> QED
  BY <1>1, <1>2, <1>3, <1>4, <1>5

\* The pair is whole again, no older than RunTime.
LEMMA PutRefreshInv == ASSUME NEW s \in Scrapes, IInv, PutRefresh(s) PROVE IInv'
<1> USE TimesAssumption, ScrapesAssumption DEF IInv, PutRefresh, Goto
<1>1. TypeOK'
  BY DEF TypeOK, Times, PCs
<1>2. MutexInv' /\ ResultInv'
  BY DEF MutexInv, ResultInv, TypeOK, Critical, PCs
<1>3. ExecInv' /\ WriterInv'
  BY DEF ExecInv, WriterInv, Holds, MutexInv, Critical, TypeOK, Times
<1>4. CacheInv'
  BY DEF CacheInv, HalfWritten, WriterInv, Holds, MutexInv, Critical, TypeOK, Times
<1>5. pc' = [pc EXCEPT ![s] = "return"] /\ UNCHANGED <<now, loc, result>>
  OBVIOUS
<1>6. ReaderInv'
  <2>1. \A t \in Scrapes : pc'[t] \notin {"switches", "hcas"}
    BY <1>5 DEF MutexInv, Critical, TypeOK
  <2> QED
    BY <2>1 DEF ReaderInv
<1>7. AnswerInv'
  <2>1. Holds(s, TTL + RunTime)
    BY DEF WriterInv, Holds, TypeOK, Times
  <2>2. \A t \in Scrapes \ {s} : pc'[t] = pc[t]
    BY <1>5 DEF TypeOK
  <2> QED
    BY <1>5, <2>1, <2>2 DEF AnswerInv, Holds
<1> QED
  BY <1>1, <1>2, <1>3, <1>4, <1>6, <1>7

LEMMA ReturnInv == ASSUME NEW s \in Scrapes, IInv, Return(s) PROVE IInv'
<1> USE TimesAssumption, ScrapesAssumption DEF IInv, Return, Goto
<1>1. TypeOK'
  BY DEF TypeOK, Times, PCs
<1>2. MutexInv' /\ ResultInv'
  BY DEF MutexInv, ResultInv, TypeOK, Critical, PCs
<1>3. ExecInv' /\ WriterInv'
  BY DEF ExecInv, WriterInv, Holds, MutexInv, Critical, TypeOK, Times
<1>4. CacheInv'
  BY DEF CacheInv, HalfWritten, WriterInv, Holds, MutexInv, Critical, TypeOK, Times
<1>5. ReaderInv' /\ AnswerInv'
  BY DEF ReaderInv, AnswerInv, Holds, CacheInv, HalfWritten, MutexInv, ResultInv, Critical, TypeOK, Times
<1> QED
  BY <1>1, <1>2, <1>3, <1>4, <1>5

\* Every step keeps the invariant.
LEMMA NextInv == IInv /\ [Next]_vars => IInv'
<1> SUFFICES ASSUME IInv, [Next]_vars PROVE IInv'
  OBVIOUS
<1>1. CASE Tick
  BY <1>1, TickInv
<1>2. ASSUME NEW s \in Scrapes, Step(s) PROVE IInv'
  BY <1>2, CallInv, LockLookInv, ReadFreshInv, ReadSwitchesInv, ReadHcasInv, LogAgeInv, ExecOkInv,
     ExecFailedInv, LockStoreInv, PutSwitchesInv, PutHcasInv, PutRefreshInv, ReturnInv DEF Step
<1>3. CASE UNCHANGED vars
  <2> USE <1>3 DEF vars, IInv
  <2>1. TypeOK' /\ MutexInv' /\ ResultInv' /\ ExecInv'
    BY DEF TypeOK, MutexInv, ResultInv, ExecInv
  <2>2. WriterInv' /\ CacheInv' /\ ReaderInv' /\ AnswerInv'
    BY DEF WriterInv, CacheInv, HalfWritten, ReaderInv, AnswerInv, Holds
  <2> QED
    BY <2>1, <2>2
<1> QED
  BY <1>1, <1>2, <1>3 DEF Next, Finished

-----------------------------------------------------------------------------
\* The inductive invariant holds in every state of every execution.
THEOREM CacheInvariance == Spec => []IInv
BY InitInv, NextInv, PTL DEF Spec

\* Every variable keeps its type; in particular the mutex has one holder, and
\* no stored or returned time is later than the clock's bound.
THEOREM CacheTypeCorrect == Spec => []TypeOK
<1>1. IInv => TypeOK
  BY DEF IInv
<1> QED
  BY <1>1, CacheInvariance, PTL

\* A scrape is never given the switch list of one ibnetdiscover execution with
\* the HCA list of another, nor a nil list: the mutex keeps the cached pair whole.
THEOREM TopologyWhole == Spec => []WholeTopology
<1>1. IInv => WholeTopology
  BY DEF IInv, AnswerInv, WholeTopology
<1> QED
  BY <1>1, CacheInvariance, PTL

\* What StaleSource sees of the state.
AsOf == [s \in Scrapes |-> IF result[s] = "ok" THEN loc[s].sw ELSE 0]

\* A call gives up, or returns, only once, and what it returns is at most
\* TTL + RunTime old; no other step shows.
LEMMA StepSimulates ==
  ASSUME NEW s \in Scrapes, IInv, Step(s)
  PROVE  Promise!Answer(s) \/ Promise!Fail(s) \/ UNCHANGED <<now, result, AsOf>>
<1>1. CASE Return(s)
  <2>1. /\ result[s] = "none" /\ result' = [result EXCEPT ![s] = "ok"]
        /\ result \in [Scrapes -> {"none", "ok", "failed"}]
        /\ now' = now /\ loc' = loc
    BY <1>1 DEF Return, IInv, ResultInv, TypeOK
  <2>2. loc[s].sw \in 1..now /\ now - loc[s].sw <= TTL + RunTime
    BY <1>1 DEF Return, IInv, AnswerInv, Holds
  <2>3. AsOf' = [AsOf EXCEPT ![s] = loc[s].sw]
    BY <2>1 DEF AsOf
  <2> QED
    BY <2>1, <2>2, <2>3 DEF Promise!Answer, AsOf
<1>2. CASE ExecFailed(s)
  <2>1. /\ result[s] = "none" /\ result' = [result EXCEPT ![s] = "failed"]
        /\ result \in [Scrapes -> {"none", "ok", "failed"}]
        /\ now' = now /\ loc' = loc
    BY <1>2 DEF ExecFailed, IInv, ResultInv, TypeOK
  <2>2. AsOf' = AsOf
    BY <2>1 DEF AsOf
  <2> QED
    BY <2>1, <2>2 DEF Promise!Fail, AsOf
<1>3. CASE ~Return(s) /\ ~ExecFailed(s)
  <2>1. now' = now /\ result' = result /\ result[s] # "ok"
    BY <1>3 DEF Step, Call, Lock, ReadFresh, ReadSwitches, ReadHcas, LogAge, ExecOk,
                PutSwitches, PutHcas, PutRefresh, IInv, ResultInv
  <2>2. \A t \in Scrapes \ {s} : loc'[t] = loc[t]
    BY <1>3 DEF Step, Call, Lock, ReadFresh, ReadSwitches, ReadHcas, LogAge, ExecOk,
                PutSwitches, PutHcas, PutRefresh, IInv, TypeOK
  <2>3. AsOf' = AsOf
    BY <2>1, <2>2 DEF AsOf
  <2> QED
    BY <2>1, <2>3
<1> QED
  BY <1>1, <1>2, <1>3

\* GetPorts keeps its promise for every number of overlapping calls: one answer
\* each, a failure or a topology at most TTL + RunTime old.
THEOREM Refines == Spec => PromiseKept
<1>1. Init => Promise!Init
  BY DEF Init, Promise!Init
<1>2. IInv /\ [Next]_vars => [Promise!Next]_<<now, result, AsOf>>
  <2> SUFFICES ASSUME IInv, [Next]_vars PROVE [Promise!Next]_<<now, result, AsOf>>
    OBVIOUS
  <2>1. CASE Tick
    BY <2>1 DEF Tick, AsOf, Promise!Next, Promise!Tick
  <2>2. ASSUME NEW s \in Scrapes, Step(s) PROVE [Promise!Next]_<<now, result, AsOf>>
    BY <2>2, StepSimulates DEF Promise!Next
  <2>3. CASE UNCHANGED vars
    BY <2>3 DEF vars, AsOf
  <2> QED
    BY <2>1, <2>2, <2>3 DEF Next, Finished
<1> QED
  BY <1>1, <1>2, CacheInvariance, PTL DEF Spec, PromiseKept, Promise!Spec, AsOf
=============================================================================
