--------------------------- MODULE ExporterProofs ---------------------------
(***************************************************************************)
(* Proofs about Exporter.  Every step of the composition is a step of the  *)
(* ibswinfo collector or leaves it alone, so all that is proved of the     *)
(* collector holds in the exporter, failed discoveries and topologies of   *)
(* any age included.  Of whose data is published: until the renumbering,   *)
(* everybody's own (TrueInv); and how long it takes to be so again         *)
(* (ForeignInv), which rests on how fast a request's workers ask their     *)
(* switches (PaceInv).                                                     *)
(***************************************************************************)
EXTENDS Exporter, FiniteSetTheorems, TLAPS

-----------------------------------------------------------------------------
(***************************************************************************)
(* Proofs about SwinfoCollector, for any scrapes, topologies and times:    *)
(* what is published is at most TTL + 2 * RunTime old, no switch is lost   *)
(* without being counted, and an idle exporter's cache holds nothing       *)
(* outside the topology of the scrape that started to evict last.          *)
(*                                                                         *)
(* The age adds up as in TopologyCacheProofs, with one more execution      *)
(* between the copy of an entry and its publication (WorkerInv, CacheInv). *)
(* For the cache's size, whenever no scrape is running, everything outside *)
(* the last evicting scrape's topology is on its list (EvictInv): whoever  *)
(* stores later is running, and will evict after it.                       *)
(***************************************************************************)

Entries == [asOf : Times, refresh : Times]
Locals == [vitals : BOOLEAN, asOf : Times, begin : Times]

\* Workers are idle before their scrape, and done when it has waited for them.
DispInv ==
    /\ \A s \in Scrapes : disp[s] # "evict" => evict[s] = {}
    /\ \A w \in Workers :
         /\ disp[w[1]] = "idle" => pc[w] = "idle"
         /\ disp[w[1]] \in {"evict", "done"} => pc[w] = "done"

\* A worker has its result exactly when it has only its token left to return.
ResultInv == \A w \in Workers : result[w] # "none" <=> pc[w] \in {"release", "done"}

\* v was read from a switch, at most age ago.
Aged(v, t, age) == v \in 1..t /\ t - v <= age

\* The ages of what a worker holds, on the way from a cache entry or an
\* execution to the cache or the result.
WorkerInv ==
    \A w \in Workers :
        /\ pc[w] = "exec" => Aged(loc[w].begin, now, RunTime)
        /\ pc[w] = "exec" /\ loc[w].vitals => Aged(loc[w].asOf, loc[w].begin, TTL + RunTime)
        /\ pc[w] = "store" => Aged(loc[w].asOf, now, RunTime)
        /\ pc[w] = "append" => Aged(loc[w].asOf, now, TTL + 2 * RunTime)

\* An entry was at most RunTime old when it was stored.
CacheInv ==
    \A g \in GUIDs : cache[g] # Absent =>
        cache[g].refresh <= now /\ Aged(cache[g].asOf, cache[g].refresh, RunTime)

\* With no scrape running, what the last evicting scrape does not know is on its list.
EvictInv ==
    TTL > 0 =>
        /\ lastRange = NoScrape => \A s \in Scrapes : disp[s] \in {"idle", "run"}
        /\ \A g \in GUIDs : cache[g] = Absent
             \/ (\E s \in Scrapes : disp[s] = "run")
             \/ (lastRange \in Scrapes /\ g \in DevicesOf[lastRange] \cup evict[lastRange])

\* The totals count the failed workers.
Failed == {w \in Workers : result[w] = "failed"}
CountInv == totals.errors + totals.timeouts = Cardinality(Failed)

IInv ==
    /\ TypeOK /\ DispInv /\ ResultInv /\ WorkerInv
    /\ CacheInv /\ EvictInv /\ CountInv

-----------------------------------------------------------------------------
LEMMA WorkersTyped ==
    /\ IsFiniteSet(Workers)
    /\ \A w \in Workers : w[1] \in Scrapes /\ w[2] \in GUIDs /\ w[2] \in DevicesOf[w[1]]
<1>1. IsFiniteSet(Scrapes \X GUIDs) /\ Workers \subseteq Scrapes \X GUIDs
  BY FinitenessAssumption, FS_Product DEF Workers
<1>2. IsFiniteSet(Workers)
  BY <1>1, FS_Subset
<1> QED
  BY <1>2 DEF Workers

LEMMA AbsentTyped == Absent \in Entries /\ NoLocals \in Locals
BY TimesAssumption DEF Absent, NoLocals, Entries, Locals, Times

LEMMA InitInv == Init => IInv
<1> SUFFICES ASSUME Init PROVE IInv
  OBVIOUS
<1> USE TimesAssumption, ScrapesAssumption, WorkersTyped, AbsentTyped DEF Init
<1>1. TypeOK
  BY DEF TypeOK, WorkerPCs, Entries, Locals
<1>2. DispInv /\ ResultInv
  BY DEF DispInv, ResultInv
<1>a. WorkerInv /\ CacheInv
  BY DEF WorkerInv, CacheInv
<1>b. EvictInv
  BY DEF EvictInv
<1>3. CountInv
  <2>1. Failed = {}
    BY DEF Failed
  <2> QED
    BY <2>1, FS_EmptySet DEF CountInv
<1> QED
  BY <1>1, <1>2, <1>a, <1>b, <1>3 DEF IInv

\* Time passes only while every worker is idle, done, or within its deadline.
LEMMA TickInv == ASSUME IInv, Tick PROVE IInv'
<1> USE TimesAssumption, ScrapesAssumption, WorkersTyped, AbsentTyped DEF IInv, Tick, Goto
<1>0. \A w \in Workers : pc[w] \in {"idle", "done"} \/ (pc[w] = "exec" /\ now - loc[w].begin < RunTime)
  <2> SUFFICES ASSUME NEW w \in Workers
               PROVE  pc[w] \in {"idle", "done"} \/ (pc[w] = "exec" /\ now - loc[w].begin < RunTime)
    OBVIOUS
  <2>1. Waiting(w[1]) /\ w \in WorkersOf(w[1]) /\ disp[w[1]] \in {"idle", "run", "evict", "done"}
    BY DEF WorkersOf, TypeOK
  <2>2. CASE disp[w[1]] # "run"
    BY <2>1, <2>2 DEF Waiting, DispInv
  <2>3. CASE disp[w[1]] = "run"
    BY <2>1, <2>3 DEF Waiting, Expired, TypeOK, Times
  <2> QED
    BY <2>2, <2>3
<1>1. TypeOK'
  BY DEF TypeOK, Times
<1>2. DispInv'
  BY DEF DispInv, TypeOK
<1>3. ResultInv'
  BY DEF ResultInv, TypeOK
<1>4. WorkerInv'
  BY <1>0 DEF WorkerInv, Aged, TypeOK, Times, Locals
<1>5. CacheInv'
  BY DEF CacheInv, Aged, TypeOK, Times, Entries
<1>6. EvictInv'
  BY DEF EvictInv, TypeOK
<1>7. CountInv'
  <2>1. Failed' = Failed
    BY DEF Failed, TypeOK
  <2> QED
    BY <2>1 DEF CountInv, TypeOK
<1> QED
  BY <1>1, <1>2, <1>3, <1>4, <1>5, <1>6, <1>7

\* The dispatcher.
LEMMA StartInvariant == ASSUME NEW s \in Scrapes, IInv, Start(s) PROVE IInv'
<1> USE TimesAssumption, ScrapesAssumption, WorkersTyped, AbsentTyped DEF IInv, Start, Goto
<1>1. TypeOK'
  BY DEF TypeOK, WorkerPCs
<1>2. DispInv'
  BY DEF DispInv, TypeOK
<1>3. ResultInv'
  BY DEF ResultInv, TypeOK
<1>4. WorkerInv'
  BY DEF WorkerInv, TypeOK
<1>5. CacheInv'
  BY DEF CacheInv, TypeOK
<1>6. EvictInv'
  BY DEF EvictInv, TypeOK
<1>7. CountInv'
  <2>1. Failed' = Failed
    BY DEF Failed, TypeOK
  <2> QED
    BY <2>1 DEF CountInv, TypeOK
<1> QED
  BY <1>1, <1>2, <1>3, <1>4, <1>5, <1>6, <1>7

LEMMA WaitInv == ASSUME NEW s \in Scrapes, IInv, Wait(s) PROVE IInv'
<1> USE TimesAssumption, ScrapesAssumption, WorkersTyped, AbsentTyped DEF IInv
<1>0. /\ disp[s] = "run" /\ UNCHANGED <<now, cache, totals, pc, loc, result>>
      /\ \A w \in Workers : w[1] = s => pc[w] = "done"
  BY DEF Wait, WorkersDone, WorkersOf
<1>a. Keys \in SUBSET GUIDs /\ \A g \in GUIDs : g \in Keys <=> cache[g] # Absent
  BY DEF Keys
<1>b. IF TTL > 0 THEN /\ disp' = [disp EXCEPT ![s] = "evict"] /\ lastRange' = s
                      /\ evict' = [evict EXCEPT ![s] = Keys \ DevicesOf[s]]
                 ELSE /\ disp' = [disp EXCEPT ![s] = "done"] /\ lastRange' = lastRange
                      /\ evict' = evict
  BY DEF Wait
<1> USE <1>0, <1>a, <1>b
<1>1. TypeOK'
  BY DEF TypeOK
<1>2. DispInv'
  <2>1. disp'[s] \in {"evict", "done"} /\ \A t \in Scrapes \ {s} : disp'[t] = disp[t]
    BY DEF TypeOK
  <2>2. \A t \in Scrapes : disp'[t] # "evict" => evict'[t] = {}
    <3>1. CASE TTL > 0
      BY <3>1 DEF DispInv, TypeOK
    <3>2. CASE ~(TTL > 0)
      BY <3>2 DEF DispInv, TypeOK
    <3> QED
      BY <3>1, <3>2
  <2>3. \A w \in Workers :
          /\ disp'[w[1]] = "idle" => pc'[w] = "idle"
          /\ disp'[w[1]] \in {"evict", "done"} => pc'[w] = "done"
    BY <2>1 DEF DispInv, TypeOK
  <2> QED
    BY <2>2, <2>3 DEF DispInv
<1>3. ResultInv'
  BY DEF ResultInv, TypeOK
<1>4. WorkerInv'
  BY DEF WorkerInv, TypeOK
<1>5. CacheInv'
  BY DEF CacheInv, TypeOK
<1>6. EvictInv'
  BY DEF EvictInv, TypeOK
<1>7. CountInv'
  <2>1. Failed' = Failed
    BY DEF Failed, TypeOK
  <2> QED
    BY <2>1 DEF CountInv, TypeOK
<1> QED
  BY <1>1, <1>2, <1>3, <1>4, <1>5, <1>6, <1>7

LEMMA EvictInvariant == ASSUME NEW s \in Scrapes, IInv, Evict(s) PROVE IInv'
<1> USE TimesAssumption, ScrapesAssumption, WorkersTyped, AbsentTyped DEF IInv
<1>0. PICK g \in GUIDs :
        cache' = [cache EXCEPT ![g] = Absent] /\ evict' = [evict EXCEPT ![s] = @ \ {g}]
  BY DEF Evict, Keys, TypeOK
<1>a. /\ disp[s] = "evict"
      /\ UNCHANGED <<now, totals, disp, pc, loc, result, lastRange>>
  BY DEF Evict
<1>b. cache \in [GUIDs -> Entries] /\ cache' \in [GUIDs -> Entries]
  BY <1>0 DEF TypeOK, Entries
<1> USE <1>0, <1>a, <1>b
<1>1. TypeOK'
  BY DEF TypeOK, Entries
<1>2. DispInv'
  BY DEF DispInv, TypeOK
<1>3. ResultInv'
  BY DEF ResultInv, TypeOK
<1>4. WorkerInv'
  BY DEF WorkerInv, TypeOK
<1>5. CacheInv'
  BY DEF CacheInv, TypeOK
<1>6. EvictInv'
  BY DEF EvictInv, TypeOK
<1>7. CountInv'
  <2>1. Failed' = Failed
    BY DEF Failed, TypeOK
  <2> QED
    BY <2>1 DEF CountInv, TypeOK
<1> QED
  BY <1>1, <1>2, <1>3, <1>4, <1>5, <1>6, <1>7

LEMMA EvictEndInv == ASSUME NEW s \in Scrapes, IInv, EvictEnd(s) PROVE IInv'
<1> USE TimesAssumption, ScrapesAssumption, WorkersTyped, AbsentTyped DEF IInv, EvictEnd, Goto
<1>1. TypeOK'
  BY DEF TypeOK, WorkerPCs
<1>2. DispInv'
  BY DEF DispInv, TypeOK
<1>3. ResultInv'
  BY DEF ResultInv, TypeOK
<1>4. WorkerInv'
  BY DEF WorkerInv, TypeOK
<1>5. CacheInv'
  BY DEF CacheInv, TypeOK
<1>6. EvictInv'
  BY DEF EvictInv, TypeOK
<1>7. CountInv'
  <2>1. Failed' = Failed
    BY DEF Failed, TypeOK
  <2> QED
    BY <2>1 DEF CountInv, TypeOK
<1> QED
  BY <1>1, <1>2, <1>3, <1>4, <1>5, <1>6, <1>7

\* The worker.
LEMMA LaunchInv == ASSUME NEW w \in Workers, IInv, Launch(w) PROVE IInv'
<1> USE TimesAssumption, ScrapesAssumption, WorkersTyped, AbsentTyped DEF IInv, Launch, Goto, CanLaunch
<1>1. TypeOK'
  BY DEF TypeOK, WorkerPCs
<1>2. DispInv'
  BY DEF DispInv, TypeOK
<1>3. ResultInv'
  BY DEF ResultInv, TypeOK
<1>4. WorkerInv'
  BY DEF WorkerInv, TypeOK
<1>5. CacheInv'
  BY DEF CacheInv, TypeOK
<1>6. EvictInv'
  BY DEF EvictInv, TypeOK
<1>7. CountInv'
  <2>1. Failed' = Failed
    BY DEF Failed, TypeOK
  <2> QED
    BY <2>1 DEF CountInv, TypeOK
<1> QED
  BY <1>1, <1>2, <1>3, <1>4, <1>5, <1>6, <1>7

LEMMA CheckInv == ASSUME NEW w \in Workers, IInv, Check(w) PROVE IInv'
<1> USE TimesAssumption, ScrapesAssumption, WorkersTyped, AbsentTyped DEF IInv
<1> DEFINE asOf == IF FreshEntry(w[2]) THEN cache[w[2]].asOf ELSE 0
<1> DEFINE new == [vitals |-> FreshEntry(w[2]), begin |-> now, asOf |-> asOf]
<1>a. asOf \in Times /\ FreshEntry(w[2]) \in BOOLEAN /\ now \in 1..MaxTime /\ now \in Times
  BY DEF TypeOK, Times, FreshEntry
<1>b. FreshEntry(w[2]) => Aged(asOf, now, TTL + RunTime)
  BY DEF FreshEntry, CacheInv, Aged, TypeOK, Times
<1>c. /\ new \in Locals /\ new.begin = now
      /\ new.vitals => Aged(new.asOf, now, TTL + RunTime)
  <2> HIDE DEF asOf
  <2> QED
    BY <1>a, <1>b DEF Locals
<1>d. /\ pc[w] = "check" /\ loc' = [loc EXCEPT ![w] = new]
      /\ pc' = [pc EXCEPT ![w] = "exec"]
      /\ UNCHANGED <<now, cache, totals, disp, evict, result, lastRange>>
  BY DEF Check, Goto
<1> HIDE DEF new, asOf
<1> USE <1>a, <1>c, <1>d
<1>1. TypeOK'
  BY DEF TypeOK, WorkerPCs, Locals
<1>2. DispInv'
  BY DEF DispInv, TypeOK
<1>3. ResultInv'
  BY DEF ResultInv, TypeOK
<1>4. WorkerInv'
  BY DEF WorkerInv, Aged, TypeOK, Locals, Times
<1>5. CacheInv'
  BY DEF CacheInv, TypeOK
<1>6. EvictInv'
  BY DEF EvictInv, TypeOK
<1>7. CountInv'
  <2>1. Failed' = Failed
    BY DEF Failed, TypeOK
  <2> QED
    BY <2>1 DEF CountInv, TypeOK
<1> QED
  BY <1>1, <1>2, <1>3, <1>4, <1>5, <1>6, <1>7

LEMMA VitalsOkInv == ASSUME NEW w \in Workers, IInv, VitalsOk(w) PROVE IInv'
<1> USE TimesAssumption, ScrapesAssumption, WorkersTyped, AbsentTyped DEF IInv, VitalsOk, Goto
<1>1. TypeOK'
  BY DEF TypeOK, WorkerPCs
<1>2. DispInv'
  BY DEF DispInv, TypeOK
<1>3. ResultInv'
  BY DEF ResultInv, TypeOK
<1>4. WorkerInv'
  BY DEF WorkerInv, Aged, TypeOK, Times
<1>5. CacheInv'
  BY DEF CacheInv, TypeOK
<1>6. EvictInv'
  BY DEF EvictInv, TypeOK
<1>7. CountInv'
  <2>1. Failed' = Failed
    BY DEF Failed, TypeOK
  <2> QED
    BY <2>1 DEF CountInv, TypeOK
<1> QED
  BY <1>1, <1>2, <1>3, <1>4, <1>5, <1>6, <1>7

LEMMA FullOkInv == ASSUME NEW w \in Workers, IInv, FullOk(w) PROVE IInv'
<1> USE TimesAssumption, ScrapesAssumption, WorkersTyped, AbsentTyped DEF IInv
<1>0. PICK v \in loc[w].begin..now : loc' = [loc EXCEPT ![w].asOf = v]
  BY DEF FullOk
<1> DEFINE new == [loc[w] EXCEPT !.asOf = v]
<1>a. loc[w] \in Locals /\ pc[w] = "exec" /\ Aged(loc[w].begin, now, RunTime)
  BY DEF FullOk, TypeOK, Locals, WorkerInv
<1>b. v \in Times /\ Aged(v, now, RunTime) /\ Aged(v, now, TTL + 2 * RunTime)
  BY <1>a DEF Aged, Times, TypeOK, Locals
<1>c. new \in Locals /\ new.asOf = v /\ loc' = [loc EXCEPT ![w] = new]
  BY <1>0, <1>a, <1>b DEF Locals
<1>d. \E l \in {"store", "append"} : pc' = [pc EXCEPT ![w] = l]
  BY DEF FullOk, Goto
<1>e. /\ pc[w] = "exec"
      /\ UNCHANGED <<now, cache, totals, disp, evict, result, lastRange>>
  BY DEF FullOk
<1> HIDE DEF new
<1> USE <1>b, <1>c, <1>d, <1>e
<1>1. TypeOK'
  BY DEF TypeOK, WorkerPCs, Locals
<1>2. DispInv'
  BY DEF DispInv, TypeOK
<1>3. ResultInv'
  BY DEF ResultInv, TypeOK
<1>4. WorkerInv'
  BY DEF WorkerInv, TypeOK
<1>5. CacheInv'
  BY DEF CacheInv, TypeOK
<1>6. EvictInv'
  BY DEF EvictInv, TypeOK
<1>7. CountInv'
  <2>1. Failed' = Failed
    BY DEF Failed, TypeOK
  <2> QED
    BY <2>1 DEF CountInv, TypeOK
<1> QED
  BY <1>1, <1>2, <1>3, <1>4, <1>5, <1>6, <1>7

\* A failure of either name.
LEMMA FailInv == ASSUME NEW w \in Workers, NEW name \in {"errors", "timeouts"}, IInv, Fail(w, name) PROVE IInv'
<1> USE TimesAssumption, ScrapesAssumption, WorkersTyped, AbsentTyped DEF IInv
<1>a. /\ pc[w] = "exec" /\ loc' = [loc EXCEPT ![w] = NoLocals]
      /\ pc' = [pc EXCEPT ![w] = "release"] /\ result' = [result EXCEPT ![w] = "failed"]
      /\ UNCHANGED <<now, cache, disp, evict, lastRange>>
  BY DEF Fail, Goto
<1>b. totals \in [errors : Nat, timeouts : Nat]
  BY DEF TypeOK
<1>c. /\ totals' \in [errors : Nat, timeouts : Nat]
      /\ totals'.errors + totals'.timeouts = totals.errors + totals.timeouts + 1
  <2>1. CASE name = "errors"
    BY <1>b, <2>1 DEF Fail
  <2>2. CASE name = "timeouts"
    BY <1>b, <2>2 DEF Fail
  <2> QED
    BY <2>1, <2>2
<1> USE <1>a
<1>1. TypeOK'
  BY <1>c DEF TypeOK, WorkerPCs, Locals
<1>2. DispInv'
  BY DEF DispInv, TypeOK
<1>3. ResultInv'
  BY DEF ResultInv, TypeOK
<1>4. WorkerInv'
  BY DEF WorkerInv, TypeOK
<1>5. CacheInv'
  BY DEF CacheInv, TypeOK
<1>6. EvictInv'
  BY DEF EvictInv, TypeOK
<1>7. CountInv'
  <2>1. Failed' = Failed \cup {w} /\ w \notin Failed
    BY DEF Failed, ResultInv, TypeOK
  <2>2. IsFiniteSet(Failed)
    BY FS_Subset DEF Failed
  <2>3. Cardinality(Failed') = Cardinality(Failed) + 1
    BY <2>1, <2>2, FS_AddElement
  <2> QED
    BY <1>c, <2>3 DEF CountInv
<1> QED
  BY <1>1, <1>2, <1>3, <1>4, <1>5, <1>6, <1>7

LEMMA StoreInv == ASSUME NEW w \in Workers, IInv, Store(w) PROVE IInv'
<1> USE TimesAssumption, ScrapesAssumption, WorkersTyped, AbsentTyped DEF IInv
<1> DEFINE entry == [asOf |-> loc[w].asOf, refresh |-> now]
<1>a. loc[w].asOf \in Times /\ now \in Times /\ pc[w] = "store" /\ Aged(loc[w].asOf, now, RunTime)
  BY DEF Store, TypeOK, WorkerInv, Times
<1>b. entry \in Entries /\ entry.refresh = now /\ Aged(entry.asOf, entry.refresh, RunTime)
  BY <1>a DEF Entries
<1>c. Aged(loc[w].asOf, now, TTL + 2 * RunTime)
  BY <1>a DEF Aged, Times
<1>d. /\ pc[w] = "store" /\ cache' = [cache EXCEPT ![w[2]] = entry]
      /\ pc' = [pc EXCEPT ![w] = "append"]
      /\ UNCHANGED <<now, totals, disp, evict, loc, result, lastRange>>
  BY DEF Store, Goto
<1>e. disp[w[1]] = "run"
  BY <1>d DEF DispInv, TypeOK
<1> HIDE DEF entry
<1> USE <1>b, <1>c, <1>d, <1>e
<1>1. TypeOK'
  BY DEF TypeOK, WorkerPCs, Entries
<1>2. DispInv'
  BY DEF DispInv, TypeOK
<1>3. ResultInv'
  BY DEF ResultInv, TypeOK
<1>4. WorkerInv'
  BY DEF WorkerInv, TypeOK
<1>5. CacheInv'
  BY <1>a DEF CacheInv, TypeOK, Times
<1>6. EvictInv'
  BY DEF EvictInv, TypeOK
<1>7. CountInv'
  <2>1. Failed' = Failed
    BY DEF Failed, TypeOK
  <2> QED
    BY <2>1 DEF CountInv, TypeOK
<1> QED
  BY <1>1, <1>2, <1>3, <1>4, <1>5, <1>6, <1>7

LEMMA AppendInv == ASSUME NEW w \in Workers, IInv, Append(w) PROVE IInv'
<1> USE TimesAssumption, ScrapesAssumption, WorkersTyped, AbsentTyped DEF IInv
<1> DEFINE new == [NoLocals EXCEPT !.asOf = loc[w].asOf]
<1>a. new \in Locals
  BY DEF NoLocals, Locals, TypeOK, Times
<1>b. /\ pc[w] = "append" /\ loc' = [loc EXCEPT ![w] = new]
      /\ pc' = [pc EXCEPT ![w] = "release"] /\ result' = [result EXCEPT ![w] = "ok"]
      /\ UNCHANGED <<now, cache, totals, disp, evict, lastRange>>
  BY DEF Append, Goto
<1> HIDE DEF new
<1> USE <1>a, <1>b
<1>1. TypeOK'
  BY DEF TypeOK, WorkerPCs, Locals
<1>2. DispInv'
  BY DEF DispInv, TypeOK
<1>3. ResultInv'
  BY DEF ResultInv, TypeOK
<1>4. WorkerInv'
  BY DEF WorkerInv, TypeOK
<1>5. CacheInv'
  BY DEF CacheInv, TypeOK
<1>6. EvictInv'
  BY DEF EvictInv, TypeOK
<1>7. CountInv'
  <2>1. Failed' = Failed
    BY DEF Failed, ResultInv, TypeOK
  <2> QED
    BY <2>1 DEF CountInv, TypeOK
<1> QED
  BY <1>1, <1>2, <1>3, <1>4, <1>5, <1>6, <1>7

LEMMA ReleaseInv == ASSUME NEW w \in Workers, IInv, Release(w) PROVE IInv'
<1> USE TimesAssumption, ScrapesAssumption, WorkersTyped, AbsentTyped DEF IInv, Release, Goto
<1>1. TypeOK'
  BY DEF TypeOK, WorkerPCs
<1>2. DispInv'
  BY DEF DispInv, TypeOK
<1>3. ResultInv'
  BY DEF ResultInv, TypeOK
<1>4. WorkerInv'
  BY DEF WorkerInv, TypeOK
<1>5. CacheInv'
  BY DEF CacheInv, TypeOK
<1>6. EvictInv'
  BY DEF EvictInv, TypeOK
<1>7. CountInv'
  <2>1. Failed' = Failed
    BY DEF Failed, TypeOK
  <2> QED
    BY <2>1 DEF CountInv, TypeOK
<1> QED
  BY <1>1, <1>2, <1>3, <1>4, <1>5, <1>6, <1>7

LEMMA NextInv == IInv /\ [Next]_vars => IInv'
<1> SUFFICES ASSUME IInv, [Next]_vars PROVE IInv'
  OBVIOUS
<1>1. ASSUME NEW s \in Scrapes, Start(s) \/ Dispatch(s) PROVE IInv'
  BY <1>1, StartInvariant, WaitInv, EvictInvariant, EvictEndInv DEF Dispatch
<1>2. ASSUME NEW w \in Workers, Work(w) PROVE IInv'
  BY <1>2, LaunchInv, CheckInv, VitalsOkInv, FullOkInv, FailInv, StoreInv, AppendInv, ReleaseInv
     DEF Work, ExecFailed, ParseError
<1>3. CASE UNCHANGED vars
  BY <1>3 DEF vars, IInv, TypeOK, DispInv, ResultInv, WorkerInv, CacheInv, EvictInv, CountInv, Failed
<1> QED
  BY <1>1, <1>2, <1>3, TickInv DEF Next, Finished

\* The inductive invariant holds in every reachable state.
THEOREM SwinfoInvariance == Spec => []IInv
BY InitInv, NextInv, PTL DEF Spec

\* Every variable keeps its type; no time that is stored is later than the clock's.
THEOREM SwinfoTypeCorrect == Spec => []TypeOK
<1>1. IInv => TypeOK
  BY DEF IInv
<1> QED
  BY <1>1, SwinfoInvariance, PTL

\* Every switch that got no series is counted once in the totals, whichever
\* scrapes overlap and however their workers fail.
THEOREM NoneLostUncounted == Spec => []AppendedOrCounted
<1>1. IInv => AppendedOrCounted
  <2> SUFFICES ASSUME IInv PROVE AppendedOrCounted
    OBVIOUS
  <2>1. Failed = {w \in Workers : pc[w] \in {"release", "done"} /\ result[w] # "ok"}
    BY DEF Failed, IInv, ResultInv, TypeOK
  <2> QED
    BY <2>1 DEF IInv, CountInv, AppendedOrCounted, Quantify
<1> QED
  BY <1>1, SwinfoInvariance, PTL

\* Replaced switches do not stay in the cache.
THEOREM NothingLeaks == Spec => []NoLeak
<1>1. IInv => NoLeak
  BY ScrapesAssumption DEF IInv, EvictInv, DispInv, TypeOK, NoLeak, AllDone, Keys
<1> QED
  BY <1>1, SwinfoInvariance, PTL

\* What StaleSource sees of the state.
AsOf == [w \in Workers |-> IF result[w] = "ok" THEN loc[w].asOf ELSE 0]

LEMMA WorkSimulates ==
    ASSUME NEW w \in Workers, IInv, Work(w)
    PROVE  Promise!Answer(w) \/ Promise!Fail(w) \/ UNCHANGED <<now, result, AsOf>>
<1>1. CASE Append(w)
  <2>1. /\ result[w] = "none" /\ result' = [result EXCEPT ![w] = "ok"]
        /\ result \in [Workers -> {"none", "ok", "failed"}]
        /\ now' = now
    BY <1>1 DEF Append, IInv, ResultInv, TypeOK
  <2>2. Aged(loc[w].asOf, now, TTL + 2 * RunTime)
    BY <1>1 DEF Append, IInv, WorkerInv
  <2>3. loc' = [loc EXCEPT ![w] = [NoLocals EXCEPT !.asOf = loc[w].asOf]]
    BY <1>1 DEF Append
  <2>4. loc'[w].asOf = loc[w].asOf /\ \A u \in Workers \ {w} : loc'[u] = loc[u]
    BY <2>3 DEF NoLocals, IInv, TypeOK
  <2>5. AsOf' = [AsOf EXCEPT ![w] = loc[w].asOf]
    BY <2>1, <2>4 DEF AsOf
  <2> QED
    BY <2>1, <2>2, <2>5 DEF Promise!Answer, AsOf, Aged
<1>2. ASSUME NEW name, Fail(w, name) PROVE Promise!Fail(w)
  <2>1. /\ result[w] = "none" /\ result' = [result EXCEPT ![w] = "failed"]
        /\ result \in [Workers -> {"none", "ok", "failed"}]
        /\ now' = now /\ \A u \in Workers \ {w} : loc'[u] = loc[u]
    BY <1>2 DEF Fail, IInv, ResultInv, TypeOK
  <2>2. AsOf' = AsOf
    BY <2>1 DEF AsOf
  <2> QED
    BY <2>1, <2>2 DEF Promise!Fail, AsOf
<1>3. CASE Launch(w) \/ VitalsOk(w) \/ Store(w) \/ Release(w)
  BY <1>3 DEF Launch, VitalsOk, Store, Release, AsOf
<1>4. CASE Check(w) \/ FullOk(w)
  <2>1. now' = now /\ result' = result /\ result[w] # "ok"
    BY <1>4 DEF Check, FullOk, IInv, ResultInv
  <2>2. \A u \in Workers \ {w} : loc'[u] = loc[u]
    BY <1>4 DEF Check, FullOk, IInv, TypeOK
  <2>3. AsOf' = AsOf
    BY <2>1, <2>2 DEF AsOf
  <2> QED
    BY <2>1, <2>3
<1> QED
  BY <1>1, <1>2, <1>3, <1>4 DEF Work, ExecFailed, ParseError

\* The collector keeps its promise for any overlapping scrapes: one answer per
\* switch, a failure or fields at most TTL + 2 * RunTime old.
THEOREM SwinfoRefines == Spec => PromiseKept
<1>1. Init => Promise!Init
  BY DEF Init, Promise!Init
<1>2. IInv /\ [Next]_vars => [Promise!Next]_<<now, result, AsOf>>
  <2> SUFFICES ASSUME IInv, [Next]_vars PROVE [Promise!Next]_<<now, result, AsOf>>
    OBVIOUS
  <2>1. CASE Tick
    BY <2>1 DEF Tick, AsOf, Promise!Next, Promise!Tick
  <2>2. ASSUME NEW s \in Scrapes, Start(s) \/ Dispatch(s) PROVE [Promise!Next]_<<now, result, AsOf>>
    BY <2>2 DEF Start, Dispatch, Wait, Evict, EvictEnd, AsOf
  <2>3. ASSUME NEW w \in Workers, Work(w) PROVE [Promise!Next]_<<now, result, AsOf>>
    BY <2>3, WorkSimulates DEF Promise!Next
  <2>4. CASE UNCHANGED vars
    BY <2>4 DEF vars, AsOf
  <2> QED
    BY <2>1, <2>2, <2>3, <2>4 DEF Next, Finished
<1> QED
  BY <1>1, <1>2, SwinfoInvariance, PTL DEF Spec, PromiseKept, Promise!Spec, AsOf

-----------------------------------------------------------------------------
(* The exporter.                                                           *)

\* A topology is not read in the future.
SeenInv == \A s \in Scrapes : seen[s] <= now

\* Before the renumbering nothing is ascribed to the wrong switch.
TrueInv == now < RenumberedAt =>
    /\ \A w \in Workers : reader[w] = w[2] /\ owner[w] = w[2]
    /\ \A g \in GUIDs : origin[g] = g

ComposedInv == ComposedTypeOK /\ SeenInv /\ TrueInv

-----------------------------------------------------------------------------
\* The exporter uses the collector as SwinfoCollector says.
LEMMA StepComposes == ComposedNext => [Next]_vars
<1> SUFFICES ASSUME ComposedNext PROVE [Next]_vars
  OBVIOUS
<1>1. CASE Unaffected(Tick)
  BY <1>1 DEF Unaffected, Next
<1>2. ASSUME NEW s \in Scrapes, Discover(s) \/ DiscoverFailed(s) \/ Collects(s) PROVE [Next]_vars
  BY <1>2 DEF Discover, DiscoverFailed, Collects, Unaffected, Evicts, Next, Dispatch
<1>3. ASSUME NEW w \in Workers, Queries(w) PROVE [Next]_vars
  <2>1. Work(w)
    BY <1>3 DEF Queries, Unaffected, CheckEntry, VitalsFrom, FullFrom, StoreFrom, Forget, Work
  <2> QED
    BY <2>1 DEF Next
<1>4. CASE UNCHANGED allVars
  BY <1>4 DEF allVars
<1> QED
  BY <1>1, <1>2, <1>3, <1>4 DEF ComposedNext

\* The collector of the exporter is the collector that the first part is
\* about: what is proved there holds here.
THEOREM Composes == ComposedSpec => Spec
<1>1. ComposedInit => Init
  BY DEF ComposedInit
<1>2. [ComposedNext]_allVars => [Next]_vars
  BY StepComposes DEF allVars
<1> QED
  BY <1>1, <1>2, PTL DEF ComposedSpec, Spec

\* In particular, with topologies that come, fail and age: no switch is lost
\* uncounted, no replaced switch stays in the cache, nothing too old is published.
THEOREM CollectorInExporter ==
    ComposedSpec => []AppendedOrCounted /\ []NoLeak /\ PromiseKept
BY Composes, NoneLostUncounted, NothingLeaks, SwinfoRefines

-----------------------------------------------------------------------------
LEMMA ComposedInitInv == ComposedInit => ComposedInv
<1> SUFFICES ASSUME ComposedInit PROVE ComposedInv
  OBVIOUS
<1> USE WorkersTyped, TimesAssumption DEF ComposedInit, Init
<1>1. ComposedTypeOK
  BY DEF ComposedTypeOK
<1>2. SeenInv /\ TrueInv
  BY DEF SeenInv, TrueInv
<1> QED
  BY <1>1, <1>2 DEF ComposedInv

\* Before the renumbering only the switch itself answers to its LID.
LEMMA OwnAnswer ==
    ASSUME NEW w \in Workers, NEW h \in GUIDs, NEW t \in Nat, IInv, ComposedInv,
           t <= now, now < RenumberedAt, Answers(w, h, t)
    PROVE  h = w[2]
<1>1. seen[w[1]] < RenumberedAt /\ t < RenumberedAt
  BY WorkersTyped, TopologyAssumption DEF ComposedInv, SeenInv, ComposedTypeOK, IInv, TypeOK
<1>2. OldLID[h] = OldLID[w[2]]
  BY <1>1 DEF Answers, LIDAt
<1> QED
  BY <1>2, WorkersTyped, LIDsAssumption DEF IsInjective

LEMMA DiscoverInv == ASSUME NEW s \in Scrapes, IInv, ComposedInv, Discover(s) PROVE ComposedInv'
<1>1. PICK v \in 1..now : seen' = [seen EXCEPT ![s] = v]
  BY DEF Discover
<1>2. now \in 1..MaxTime /\ v \in 1..MaxTime /\ now' = now
  BY TimesAssumption DEF IInv, TypeOK, Discover, Start
<1>a. /\ request' = [request EXCEPT ![s] = "collect"]
      /\ UNCHANGED <<reader, owner, origin>>
      /\ disp' = [disp EXCEPT ![s] = "run"] /\ disp \in [Scrapes -> {"idle", "run", "evict", "done"}]
  BY DEF Discover, Start, IInv, TypeOK
<1>3. ComposedTypeOK'
  BY <1>1, <1>2, <1>a DEF ComposedInv, ComposedTypeOK
<1>4. SeenInv' /\ TrueInv'
  BY <1>1, <1>2 DEF Discover, ComposedInv, ComposedTypeOK, SeenInv, TrueInv
<1> QED
  BY <1>3, <1>4 DEF ComposedInv

LEMMA CollectsInv == ASSUME NEW s \in Scrapes, IInv, ComposedInv, Collects(s) PROVE ComposedInv'
<1>1. /\ now' = now /\ seen' = seen /\ reader' = reader /\ owner' = owner /\ request' = request
      /\ \A t \in Scrapes : disp'[t] = "idle" <=> disp[t] = "idle"
  BY DEF Collects, Unaffected, composed, Evicts, Wait, Evict, EvictEnd, IInv, TypeOK
<1>2. \/ origin' = origin
      \/ origin' = [g \in GUIDs |-> IF cache'[g] = Absent THEN g ELSE origin[g]]
  BY DEF Collects, Unaffected, composed, Evicts
<1>3. ComposedTypeOK'
  BY <1>1, <1>2 DEF ComposedInv, ComposedTypeOK
<1>4. SeenInv' /\ TrueInv'
  BY <1>1, <1>2 DEF ComposedInv, SeenInv, TrueInv
<1> QED
  BY <1>3, <1>4 DEF ComposedInv

\* What an execution returns is its switch's own before the renumbering, and so
\* is what is copied, stored and published.
LEMMA QueriesInv == ASSUME NEW w \in Workers, IInv, ComposedInv, Queries(w) PROVE ComposedInv'
<1>1. /\ now' = now /\ disp' = disp /\ seen' = seen /\ request' = request
      /\ w[2] \in GUIDs /\ now \in Nat
  BY WorkersTyped DEF Queries, Unaffected, composed, CheckEntry, VitalsFrom, FullFrom, StoreFrom,
     Forget, Launch, Check, VitalsOk, FullOk, Store, Append, ExecFailed, ParseError, Fail, Release,
     IInv, TypeOK
<1>2. \E r \in GUIDs, o \in GUIDs, c \in GUIDs :
        /\ reader' = [reader EXCEPT ![w] = r]
        /\ owner' = [owner EXCEPT ![w] = o]
        /\ origin' = [origin EXCEPT ![w[2]] = c]
        /\ (now < RenumberedAt => r = w[2] /\ o = w[2] /\ c = w[2])
  <2> DEFINE Kept == now < RenumberedAt => reader[w] = w[2] /\ owner[w] = w[2] /\ origin[w[2]] = w[2]
  <2>1. /\ reader[w] \in GUIDs /\ owner[w] \in GUIDs /\ origin[w[2]] \in GUIDs /\ Kept
        /\ reader = [reader EXCEPT ![w] = reader[w]]
        /\ owner = [owner EXCEPT ![w] = owner[w]]
        /\ origin = [origin EXCEPT ![w[2]] = origin[w[2]]]
    BY <1>1 DEF ComposedInv, ComposedTypeOK, TrueInv
  <2>2. CASE UNCHANGED <<reader, owner, origin>>
    BY <2>1, <2>2
  <2>3. CASE CheckEntry(w)
    BY <1>1, <2>1, <2>3 DEF CheckEntry
  <2>4. CASE VitalsFrom(w)
    <3>1. PICK h \in GUIDs, t \in loc[w].begin..now : Answers(w, h, t) /\ reader' = [reader EXCEPT ![w] = h]
      BY <2>4 DEF VitalsFrom
    <3>2. t \in Nat /\ t <= now
      BY <3>1 DEF IInv, TypeOK, Times
    <3>3. now < RenumberedAt => h = w[2]
      BY <3>1, <3>2, OwnAnswer
    <3> QED
      BY <2>1, <2>4, <3>1, <3>3 DEF VitalsFrom
  <2>5. CASE FullFrom(w)
    <3>1. PICK h \in GUIDs : /\ Answers(w, h, loc'[w].asOf)
                             /\ reader' = [reader EXCEPT ![w] = h]
                             /\ owner' = [owner EXCEPT ![w] = h]
      BY <2>5 DEF FullFrom
    <3>2. loc'[w].asOf \in Nat /\ loc'[w].asOf <= now
      <4>1. PICK v \in loc[w].begin..now : loc' = [loc EXCEPT ![w].asOf = v]
        BY <2>5 DEF FullFrom, FullOk
      <4>2. loc \in [Workers -> Locals] /\ loc[w].begin \in Nat
        BY DEF IInv, TypeOK, Locals, Times
      <4>3. loc'[w].asOf = v
        BY <4>1, <4>2 DEF Locals
      <4> QED
        BY <1>1, <4>2, <4>3
    <3>3. now < RenumberedAt => h = w[2]
      BY <3>1, <3>2, OwnAnswer
    <3> QED
      BY <2>1, <2>5, <3>1, <3>3 DEF FullFrom
  <2>6. CASE StoreFrom(w)
    BY <1>1, <2>1, <2>6 DEF StoreFrom
  <2>7. CASE Forget(w)
    BY <1>1, <2>1, <2>7 DEF Forget
  <2> QED
    BY <2>2, <2>3, <2>4, <2>5, <2>6, <2>7 DEF Queries, Unaffected, composed
<1>3. ComposedTypeOK'
  BY <1>1, <1>2 DEF ComposedInv, ComposedTypeOK
<1>4. SeenInv' /\ TrueInv'
  BY <1>1, <1>2, WorkersTyped DEF ComposedInv, ComposedTypeOK, SeenInv, TrueInv
<1> QED
  BY <1>3, <1>4 DEF ComposedInv

LEMMA ComposedNextInv == IInv /\ ComposedInv /\ [ComposedNext]_allVars => ComposedInv'
<1> SUFFICES ASSUME IInv, ComposedInv, [ComposedNext]_allVars PROVE ComposedInv'
  OBVIOUS
<1>1. CASE Unaffected(Tick)
  BY <1>1, TopologyAssumption DEF Unaffected, composed, Tick, ComposedInv, ComposedTypeOK, SeenInv, TrueInv, IInv, TypeOK
<1>2. ASSUME NEW s \in Scrapes, DiscoverFailed(s) PROVE ComposedInv'
  BY <1>2 DEF DiscoverFailed, vars, ComposedInv, ComposedTypeOK, SeenInv, TrueInv
<1>3. CASE UNCHANGED allVars
  BY <1>3 DEF allVars, vars, composed, ComposedInv, ComposedTypeOK, SeenInv, TrueInv
<1> QED
  BY <1>1, <1>2, <1>3, DiscoverInv, CollectsInv, QueriesInv DEF ComposedNext

THEOREM ComposedInvariance == ComposedSpec => []ComposedInv
BY ComposedInitInv, ComposedNextInv, Composes, SwinfoInvariance, PTL DEF ComposedSpec

\* Every variable of the composition keeps its type; a request has the time of a
\* topology exactly when its collectors were registered.
THEOREM ComposedTypeCorrect == ComposedSpec => []ComposedTypeOK
<1>1. ComposedInv => ComposedTypeOK
  BY DEF ComposedInv
<1> QED
  BY <1>1, ComposedInvariance, PTL

\* Until the subnet manager renumbers, no switch is published with another's
\* data, however old the topologies and the cache entries are.
THEOREM OwnUntilRenumbered ==
    ComposedSpec => [](\A w \in Workers : Foreign(w) => now >= RenumberedAt)
<1>1. IInv /\ ComposedInv => \A w \in Workers : Foreign(w) => now >= RenumberedAt
  BY TopologyAssumption DEF ComposedInv, TrueInv, Foreign, IInv, TypeOK
<1> QED
  BY <1>1, ComposedInvariance, Composes, SwinfoInvariance, PTL

-----------------------------------------------------------------------------
\* Only requests with a topology run collectors, and what they are about to drop
\* is not in it.
ListInv == \A s \in Scrapes :
    /\ disp[s] # "idle" => request[s] = "collect"
    /\ evict[s] \cap DevicesOf[s] = {}

LEMMA ListInitInv == ComposedInit => ListInv
BY DEF ComposedInit, Init, ListInv

LEMMA ListNextInv == IInv /\ ComposedTypeOK /\ ListInv /\ [ComposedNext]_allVars => ListInv'
<1> SUFFICES ASSUME IInv, ComposedTypeOK, ListInv, [ComposedNext]_allVars PROVE ListInv'
  OBVIOUS
<1>0. /\ disp \in [Scrapes -> {"idle", "run", "evict", "done"}]
      /\ evict \in [Scrapes -> SUBSET GUIDs]
      /\ request \in [Scrapes -> {"idle", "collect", "failed"}]
  BY DEF IInv, TypeOK, ComposedTypeOK
<1>1. ASSUME NEW s \in Scrapes, Discover(s) PROVE ListInv'
  BY <1>0, <1>1 DEF Discover, Start, ListInv
<1>2. ASSUME NEW s \in Scrapes, DiscoverFailed(s) PROVE ListInv'
  BY <1>0, <1>2 DEF DiscoverFailed, vars, ListInv
<1>3. ASSUME NEW s \in Scrapes, Collects(s) PROVE ListInv'
  <2>1. request' = request /\ disp[s] # "idle"
    BY <1>3 DEF Collects, Unaffected, composed, Evicts, Wait, Evict, EvictEnd
  <2>2. \A t \in Scrapes : t # s => disp'[t] = disp[t] /\ evict'[t] = evict[t]
    BY <1>0, <1>3 DEF Collects, Unaffected, Evicts, Wait, Evict, EvictEnd
  <2>3. evict'[s] \cap DevicesOf[s] = {}
    <3>1. CASE Wait(s)
      BY <1>0, <3>1 DEF Wait, ListInv
    <3>2. CASE Evict(s)
      BY <1>0, <3>2 DEF Evict, ListInv
    <3>3. CASE EvictEnd(s)
      BY <3>3 DEF EvictEnd, ListInv
    <3> QED
      BY <1>3, <3>1, <3>2, <3>3 DEF Collects, Unaffected, Evicts
  <2> QED
    BY <2>1, <2>2, <2>3 DEF ListInv
<1>4. ASSUME NEW w \in Workers, Queries(w) PROVE ListInv'
  <2>1. UNCHANGED <<disp, evict, request>>
    BY <1>4 DEF Queries, Unaffected, composed, CheckEntry, VitalsFrom, FullFrom, StoreFrom,
       Forget, Launch, Check, VitalsOk, FullOk, Store, Append, ExecFailed, ParseError, Fail, Release
  <2> QED
    BY <2>1 DEF ListInv
<1>5. CASE Unaffected(Tick) \/ UNCHANGED allVars
  BY <1>5 DEF Unaffected, Tick, allVars, vars, composed, ListInv
<1> QED
  BY <1>1, <1>2, <1>3, <1>4, <1>5 DEF ComposedNext

\* Of all steps only an eviction removes an entry, and it removes what its
\* request's topology does not list.
LEMMA EvictionStep ==
    ASSUME IInv, ListInv, [ComposedNext]_allVars, NEW g \in GUIDs,
           cache[g] # Absent, cache'[g] = Absent
    PROVE  \E s \in Scrapes : request[s] = "collect" /\ g \notin DevicesOf[s]
<1>0. cache \in [GUIDs -> Entries]
  BY DEF IInv, TypeOK, Entries
<1>1. ASSUME NEW s \in Scrapes, Discover(s) \/ DiscoverFailed(s) PROVE FALSE
  BY <1>1 DEF Discover, Start, DiscoverFailed, vars
<1>2. ASSUME NEW s \in Scrapes, Collects(s)
      PROVE  request[s] = "collect" /\ g \notin DevicesOf[s]
  <2>1. CASE Evict(s)
    <3>1. PICK x \in evict[s] \cup (Keys \ DevicesOf[s]) : cache' = [cache EXCEPT ![x] = Absent]
      BY <2>1 DEF Evict
    <3>2. g = x
      BY <1>0, <3>1
    <3> QED
      BY <2>1, <3>1, <3>2 DEF Evict, ListInv
  <2>2. CASE Wait(s) \/ EvictEnd(s)
    BY <2>2 DEF Wait, EvictEnd
  <2> QED
    BY <1>2, <2>1, <2>2 DEF Collects, Unaffected, Evicts
<1>3. ASSUME NEW w \in Workers, Queries(w) PROVE FALSE
  <2>1. CASE Store(w)
    <3>1. pc[w] = "store" /\ cache' = [cache EXCEPT ![w[2]] = [asOf |-> loc[w].asOf, refresh |-> now]]
      BY <2>1 DEF Store
    <3>2. loc[w].asOf # 0
      BY <3>1, TimesAssumption DEF IInv, WorkerInv, Aged, TypeOK
    <3>3. [asOf |-> loc[w].asOf, refresh |-> now] # Absent
      BY <3>2 DEF Absent
    <3> QED
      BY <1>0, <3>1, <3>3
  <2>2. CASE ~Store(w)
    BY <1>3, <2>2 DEF Queries, Unaffected, CheckEntry, VitalsFrom, FullFrom, StoreFrom,
       Forget, Launch, Check, VitalsOk, FullOk, Append, ExecFailed, ParseError, Fail, Release
  <2> QED
    BY <2>1, <2>2
<1>4. CASE Unaffected(Tick) \/ UNCHANGED allVars
  BY <1>4 DEF Unaffected, Tick, allVars, vars
<1> QED
  BY <1>1, <1>2, <1>3, <1>4 DEF ComposedNext

\* The static cache is not emptied by a request without a topology, nor is an
\* entry dropped while every running request lists its switch.
THEOREM KeptWhileListed == ComposedSpec => EvictedOnlyUnlisted
<1>1. ComposedSpec => []ListInv
  <2>1. ComposedInv => ComposedTypeOK
    BY DEF ComposedInv
  <2> QED
    BY <2>1, ListInitInv, ListNextInv, ComposedInvariance, Composes, SwinfoInvariance, PTL DEF ComposedSpec
<1>2. IInv /\ ListInv /\ [ComposedNext]_allVars =>
        [\A g \in GUIDs : cache[g] # Absent /\ cache'[g] = Absent =>
            \E s \in Scrapes : request[s] = "collect" /\ g \notin DevicesOf[s]]_allVars
  BY EvictionStep
<1> QED
  BY <1>1, <1>2, Composes, SwinfoInvariance, PTL DEF ComposedSpec, EvictedOnlyUnlisted
-----------------------------------------------------------------------------
(* How long data can be ascribed to the wrong switch.                      *)

\* A request's discovery had been answered by then.
StartedBy(s) == seen[s] + TopologyAge

\* The workers that began to ask their switch at most k executions later.
Asked(s, k) == {w \in WorkersOf(s) :
    \/ pc[w] \in {"release", "done"}
    \/ pc[w] \in {"exec", "store", "append"} /\ loc[w].begin <= StartedBy(s) + k * RunTime}

\* Time passes while every token is held by an execution, so with each longest
\* execution that has passed a full set of tokens was used, or all switches asked.
PaceInv == \A s \in Scrapes : disp[s] = "run" =>
    \A k \in Nat : now > StartedBy(s) + k * RunTime =>
        \/ Asked(s, k) = WorkersOf(s)
        \/ Cardinality(Asked(s, k)) >= (k + 1) * MaxConcurrent

\* What a worker holds was read during one execution, which has just ended.
RecentInv == \A w \in Workers :
    /\ pc[w] # "idle" => MaxConcurrent > 0
    /\ pc[w] \in {"exec", "store", "append"} =>
         loc[w].begin <= now /\ now <= loc[w].begin + RunTime /\ seen[w[1]] <= loc[w].begin

\* The last moment at which a request with a topology of before the renumbering
\* reads a switch.
Latest == RenumberedAt - 1 + TopologyAge + Waves * RunTime

\* Another switch's data is read by such a request only, and is copied from the
\* cache by the others no later than its entry expires.
ForeignInv ==
    /\ \A w \in Workers :
         /\ pc[w] = "store" => ~loc[w].vitals
         /\ pc[w] \in {"store", "append"} /\ reader[w] # w[2] => seen[w[1]] < RenumberedAt
         /\ ~loc[w].vitals /\ owner[w] # w[2] =>
              pc[w] \in {"store", "append"} /\ seen[w[1]] < RenumberedAt
         /\ loc[w].vitals /\ owner[w] # w[2] => TTL > 0 /\ loc[w].begin <= Latest + TTL - 1
    /\ \A g \in GUIDs : origin[g] # g => cache[g].refresh <= Latest

\* The variables have their types.
LEMMA Typed ==
    ASSUME IInv, ComposedInv
    PROVE  /\ now \in Nat /\ pc \in [Workers -> WorkerPCs] /\ loc \in [Workers -> Locals]
           /\ disp \in [Scrapes -> {"idle", "run", "evict", "done"}]
           /\ cache \in [GUIDs -> Entries]
           /\ seen \in [Scrapes -> Nat] /\ reader \in [Workers -> GUIDs]
           /\ owner \in [Workers -> GUIDs] /\ origin \in [GUIDs -> GUIDs]
           /\ Times \subseteq Nat /\ TTL \in Nat /\ RunTime \in Nat /\ TopologyAge \in Nat
           /\ RenumberedAt \in Nat /\ MaxConcurrent \in Nat
<1>1. Times \subseteq Nat
  BY TimesAssumption DEF Times
<1> QED
  BY <1>1, TimesAssumption, TopologyAssumption, ConcurrencyAssumption
  DEF IInv, ComposedInv, TypeOK, ComposedTypeOK, Entries, Locals, Times

\* A request has finitely many workers, at most one per switch.
LEMMA ScrapeWorkers ==
    ASSUME NEW s \in Scrapes
    PROVE  /\ WorkersOf(s) \subseteq Workers /\ IsFiniteSet(WorkersOf(s))
           /\ \A w \in WorkersOf(s) : w[1] = s
           /\ Cardinality(WorkersOf(s)) \in Nat /\ Cardinality(GUIDs) \in Nat
           /\ Cardinality(WorkersOf(s)) <= Cardinality(GUIDs)
<1>1. WorkersOf(s) \subseteq Workers /\ IsFiniteSet(WorkersOf(s))
  <2>1. WorkersOf(s) \subseteq Workers
    BY DEF WorkersOf
  <2> QED
    BY <2>1, WorkersTyped, FS_Subset
<1>2. Cardinality(WorkersOf(s)) <= Cardinality(GUIDs)
  <2> DEFINE f == [w \in WorkersOf(s) |-> w[2]]
  <2>1. f \in Injection(WorkersOf(s), GUIDs)
    <3>1. \A w \in WorkersOf(s) : w[2] \in GUIDs /\ w = <<s, w[2]>>
      BY DEF WorkersOf, Workers
    <3>2. f \in [WorkersOf(s) -> GUIDs]
      BY <3>1
    <3>3. \A v, w \in WorkersOf(s) : f[v] = f[w] => v = w
      BY <3>1
    <3> QED
      BY <3>2, <3>3 DEF Injection, IsInjective
  <2> QED
    BY <2>1, FinitenessAssumption, FS_Injection
<1> QED
  BY <1>1, <1>2, FinitenessAssumption, FS_CardinalityType DEF WorkersOf
\* Of a running request, if time can pass: its workers are idle, asking within
\* their deadline, or done, and idle ones wait for tokens that are all in use.
LEMMA TickWaits ==
    ASSUME IInv, ComposedInv, Tick, NEW s \in Scrapes, disp[s] = "run"
    PROVE  /\ \A w \in WorkersOf(s) :
                \/ pc[w] \in {"idle", "done"}
                \/ pc[w] = "exec" /\ now - loc[w].begin < RunTime
           /\ \/ \A w \in WorkersOf(s) : pc[w] # "idle"
              \/ Cardinality({w \in WorkersOf(s) : pc[w] = "exec"}) >= MaxConcurrent
<1>1. Waiting(s)
  BY DEF Tick
<1>2. \A w \in WorkersOf(s) : loc[w].begin \in Nat /\ now \in Nat /\ RunTime \in Nat
  BY Typed, ScrapeWorkers DEF Locals
<1>3. \A w \in WorkersOf(s) : pc[w] \in {"idle", "exec", "done"} /\ ~Expired(w)
  BY <1>1 DEF Waiting
<1>4. \A w \in WorkersOf(s) : pc[w] \in {"idle", "done"} \/ (pc[w] = "exec" /\ now - loc[w].begin < RunTime)
  BY <1>2, <1>3 DEF Expired
<1>5. ASSUME NEW w \in WorkersOf(s), pc[w] = "idle"
      PROVE  Cardinality({v \in WorkersOf(s) : pc[v] = "exec"}) >= MaxConcurrent
  <2>1. ~CanLaunch(s)
    BY <1>1, <1>5 DEF Waiting
  <2>2. Active(s) = {v \in WorkersOf(s) : pc[v] = "exec"}
    BY <1>3 DEF Active
  <2>3. IsFiniteSet(Active(s))
    BY ScrapeWorkers, FS_Subset DEF Active
  <2>4. Cardinality(Active(s)) \in Nat /\ MaxConcurrent \in Nat
    BY <2>3, FS_CardinalityType, Typed
  <2>5. ~(Cardinality(Active(s)) < MaxConcurrent)
    BY <2>1 DEF CanLaunch
  <2> QED
    BY <2>2, <2>4, <2>5
<1> QED
  BY <1>4, <1>5

\* The counting step: after one more longest execution, the full set of tokens
\* that were in use are new workers.
LEMMA TickPace == ASSUME IInv, ComposedInv, PaceInv, Tick, UNCHANGED composed PROVE PaceInv'
<1> SUFFICES ASSUME NEW s \in Scrapes, disp[s] = "run", NEW k \in Nat,
                    now + 1 > StartedBy(s) + k * RunTime
             PROVE  \/ Asked(s, k) = WorkersOf(s)
                    \/ Cardinality(Asked(s, k)) >= (k + 1) * MaxConcurrent
  BY DEF PaceInv, Asked, StartedBy, WorkersOf, Tick, composed
<1> DEFINE due == StartedBy(s) + k * RunTime
           exec == {w \in WorkersOf(s) : pc[w] = "exec"}
           done == {w \in WorkersOf(s) : pc[w] = "done"}
<1>1. /\ now \in Nat /\ RunTime \in Nat /\ MaxConcurrent \in Nat /\ StartedBy(s) \in Nat
      /\ k * RunTime \in Nat /\ due \in Nat
      /\ \A w \in WorkersOf(s) : loc[w].begin \in Nat
  <2>1. now \in Nat /\ RunTime \in Nat /\ MaxConcurrent \in Nat
    BY Typed
  <2>2. StartedBy(s) \in Nat
    BY Typed DEF StartedBy
  <2>3. k * RunTime \in Nat
    BY <2>1
  <2>4. \A w \in WorkersOf(s) : loc[w].begin \in Nat
    BY Typed, ScrapeWorkers DEF Locals
  <2> QED
    BY <2>1, <2>2, <2>3, <2>4
<1>2. CASE now > due
  BY <1>2 DEF PaceInv
<1>3. CASE now = due
  <2>1. \A w \in exec : loc[w].begin <= now
    BY ScrapeWorkers DEF IInv, WorkerInv, Aged
  <2>2. exec \subseteq Asked(s, k) /\ done \subseteq Asked(s, k)
    BY <1>3, <2>1 DEF Asked
  <2>3. CASE \A w \in WorkersOf(s) : pc[w] # "idle"
    BY <2>2, <2>3, TickWaits DEF Asked
  <2>4. CASE Cardinality(exec) >= MaxConcurrent /\ \E w \in WorkersOf(s) : pc[w] = "idle"
    <3>1. /\ IsFiniteSet(exec) /\ IsFiniteSet(done) /\ IsFiniteSet(Asked(s, k))
          /\ IsFiniteSet(Asked(s, k - 1))
      BY ScrapeWorkers, FS_Subset DEF Asked
    <3>2. /\ Cardinality(exec) \in Nat /\ Cardinality(done) \in Nat
          /\ Cardinality(Asked(s, k)) \in Nat /\ Cardinality(Asked(s, k - 1)) \in Nat
      BY <3>1, FS_CardinalityType
    <3>3. Cardinality(exec) + Cardinality(done) <= Cardinality(Asked(s, k))
      <4>1. Cardinality(exec \cup done) <= Cardinality(Asked(s, k))
        BY <2>2, <3>1, FS_Subset
      <4>2. exec \cap done = {} /\ Cardinality({}) = 0
        BY FS_EmptySet
      <4> HIDE DEF exec, done
      <4>3. Cardinality(exec \cup done) = Cardinality(exec) + Cardinality(done) - Cardinality(exec \cap done)
        BY <3>1, FS_Union
      <4> QED
        BY <3>2, <4>1, <4>2, <4>3
    <3>4. CASE k = 0
      <4>1. (k + 1) * MaxConcurrent = MaxConcurrent
        BY <1>1, <3>4
      <4> HIDE DEF exec, done
      <4> QED
        BY <1>1, <2>4, <3>2, <3>3, <4>1
    <3>5. CASE k # 0 /\ RunTime = 0
      <4>1. \A w \in exec : FALSE
        <5> SUFFICES ASSUME NEW w \in exec PROVE FALSE
          OBVIOUS
        <5>1. w \in WorkersOf(s) /\ now - loc[w].begin < RunTime
          BY TickWaits
        <5> HIDE DEF exec, done
        <5> QED
          BY <1>1, <2>1, <3>5, <5>1
      <4>2. MaxConcurrent = 0
        BY <1>1, <2>4, <4>1, FS_EmptySet
      <4>3. (k + 1) * MaxConcurrent = 0
        BY <4>2
      <4> QED
        BY <3>2, <4>3
    <3>6. CASE k # 0 /\ RunTime # 0
      <4>1. k - 1 \in Nat /\ (k - 1) * RunTime = k * RunTime - RunTime
        BY <1>1, <3>6
      <4>2. now > StartedBy(s) + (k - 1) * RunTime
        BY <1>1, <1>3, <3>6, <4>1
      <4>3. Asked(s, k - 1) \subseteq done
        <5> SUFFICES ASSUME NEW w \in WorkersOf(s), w \in Asked(s, k - 1), pc[w] # "done" PROVE FALSE
          BY DEF Asked
        <5>1. pc[w] = "exec" /\ now - loc[w].begin < RunTime
          BY TickWaits DEF Asked
        <5>2. loc[w].begin <= StartedBy(s) + (k - 1) * RunTime
          BY <5>1 DEF Asked
        <5> HIDE DEF exec, done
        <5> QED
          BY <1>1, <1>3, <4>1, <5>1, <5>2
      <4>4. Asked(s, k - 1) # WorkersOf(s)
        BY <2>4, <4>3
      <4>5. Cardinality(Asked(s, k - 1)) >= k * MaxConcurrent
        <5>1. Cardinality(Asked(s, k - 1)) >= (k - 1 + 1) * MaxConcurrent
          BY <4>1, <4>2, <4>4 DEF PaceInv
        <5> QED
          BY <5>1, <1>1
      <4>6. Cardinality(Asked(s, k - 1)) <= Cardinality(done)
        BY <3>1, <4>3, FS_Subset
      <4>7. (k + 1) * MaxConcurrent = k * MaxConcurrent + MaxConcurrent
        BY <1>1
      <4>8. k * MaxConcurrent \in Nat
        BY <1>1
      <4> HIDE DEF exec, done
      <4> QED
        BY <1>1, <2>4, <3>2, <3>3, <4>5, <4>6, <4>7, <4>8
    <3> QED
      BY <3>4, <3>5, <3>6
  <2> QED
    BY <2>3, <2>4, TickWaits
<1> QED
  BY <1>1, <1>2, <1>3

\* Every other step lets the workers only go on asking.
LEMMA StepPace ==
    ASSUME IInv, ComposedInv, PaceInv, now' = now, NEW s \in Scrapes,
           disp'[s] = "run", disp[s] = "run", seen'[s] = seen[s],
           \A w \in Workers : w[1] = s =>
             \/ pc[w] \notin {"exec", "store", "append", "release", "done"}
             \/ pc'[w] \in {"release", "done"}
             \/ /\ pc[w] \in {"exec", "store", "append"} /\ pc'[w] \in {"exec", "store", "append"}
                /\ loc'[w].begin = loc[w].begin,
           NEW k \in Nat, now > StartedBy(s) + k * RunTime
    PROVE  \/ Asked(s, k)' = WorkersOf(s)
           \/ Cardinality(Asked(s, k)') >= (k + 1) * MaxConcurrent
<1>1. Asked(s, k) \subseteq Asked(s, k)'
  BY ScrapeWorkers DEF Asked, StartedBy, WorkersOf
<1>2. Asked(s, k)' \subseteq WorkersOf(s)
  BY DEF Asked, WorkersOf
<1>3. IsFiniteSet(Asked(s, k)')
  BY <1>2, ScrapeWorkers, FS_Subset
<1>4. Cardinality(Asked(s, k)) <= Cardinality(Asked(s, k)')
  BY <1>1, <1>3, FS_Subset
<1>5. /\ Cardinality(Asked(s, k)) \in Nat /\ Cardinality(Asked(s, k)') \in Nat
      /\ (k + 1) * MaxConcurrent \in Nat
  <2>1. IsFiniteSet(Asked(s, k))
    BY <1>1, <1>3, FS_Subset
  <2> QED
    BY <1>3, <2>1, FS_CardinalityType, Typed
<1>6. Asked(s, k) = WorkersOf(s) \/ Cardinality(Asked(s, k)) >= (k + 1) * MaxConcurrent
  BY DEF PaceInv
<1>7. CASE Asked(s, k) = WorkersOf(s)
  <2>1. Asked(s, k)' = WorkersOf(s)
    BY <1>1, <1>2, <1>7
  <2> QED
    BY <2>1
<1>8. CASE Cardinality(Asked(s, k)) >= (k + 1) * MaxConcurrent
  BY <1>4, <1>5, <1>8
<1> QED
  BY <1>6, <1>7, <1>8

\* What a worker's step makes of its own place and its start.
LEMMA WorkerMoves ==
    ASSUME IInv, ComposedInv, NEW w \in Workers, Queries(w)
    PROVE  /\ UNCHANGED <<now, disp, seen>>
           /\ \A v \in Workers : v # w => /\ pc'[v] = pc[v] /\ loc'[v] = loc[v]
                                          /\ reader'[v] = reader[v] /\ owner'[v] = owner[v]
           /\ \/ pc[w] = "idle" /\ pc'[w] = "check" /\ CanLaunch(w[1])
              \/ pc[w] = "check" /\ pc'[w] = "exec" /\ loc'[w].begin = now
              \/ pc[w] = "exec" /\ pc'[w] \in {"store", "append"} /\ loc'[w].begin = loc[w].begin
              \/ pc[w] = "store" /\ pc'[w] = "append" /\ loc'[w].begin = loc[w].begin
              \/ pc[w] \in {"exec", "append"} /\ pc'[w] = "release"
              \/ pc[w] = "release" /\ pc'[w] = "done"
<1> USE Typed
<1>1. CASE Unaffected(Launch(w))
  BY <1>1 DEF Unaffected, composed, Launch, Goto
<1>2. CASE CheckEntry(w)
  BY <1>2 DEF CheckEntry, Check, Goto
<1>3. CASE VitalsFrom(w)
  BY <1>3 DEF VitalsFrom, VitalsOk, Goto
<1>4. CASE FullFrom(w)
  BY <1>4 DEF FullFrom, FullOk, Goto, Locals
<1>5. CASE StoreFrom(w)
  BY <1>5 DEF StoreFrom, Store, Goto
<1>6. CASE Forget(w)
  BY <1>6 DEF Forget, Append, ExecFailed, ParseError, Fail, Goto
<1>7. CASE Unaffected(Release(w))
  BY <1>7 DEF Unaffected, composed, Release, Goto
<1> QED
  BY <1>1, <1>2, <1>3, <1>4, <1>5, <1>6, <1>7 DEF Queries

\* The dispatcher's steps move no worker.
LEMMA ScrapeMoves ==
    ASSUME IInv, ComposedInv, NEW s \in Scrapes, Discover(s) \/ DiscoverFailed(s) \/ Collects(s)
    PROVE  /\ UNCHANGED <<now, pc, loc, reader, owner>>
           /\ \A t \in Scrapes :
                \/ disp'[t] = "run" => disp[t] = "run" /\ seen'[t] = seen[t]
                \/ disp[t] = "idle" /\ now <= seen'[t] + TopologyAge
           /\ \A t \in Scrapes : disp[t] # "idle" => seen'[t] = seen[t]
<1> USE Typed
<1>1. CASE Discover(s)
  <2>1. PICK v \in 1..now : now - v <= TopologyAge /\ seen' = [seen EXCEPT ![s] = v]
    BY <1>1 DEF Discover
  <2>2. UNCHANGED <<now, pc, loc, reader, owner>> /\ disp[s] = "idle" /\ disp' = [disp EXCEPT ![s] = "run"]
    BY <1>1 DEF Discover, Start
  <2> QED
    BY <2>1, <2>2
<1>2. CASE DiscoverFailed(s)
  BY <1>2 DEF DiscoverFailed, vars
<1>3. CASE Collects(s)
  BY <1>3 DEF Collects, Unaffected, composed, Evicts, Wait, Evict, EvictEnd
<1> QED
  BY <1>1, <1>2, <1>3

\* PaceInv is inductive.
LEMMA NextPace ==
    IInv /\ ComposedInv /\ PaceInv /\ [ComposedNext]_allVars => PaceInv'
<1> SUFFICES ASSUME IInv, ComposedInv, PaceInv, [ComposedNext]_allVars PROVE PaceInv'
  OBVIOUS
<1>1. CASE Unaffected(Tick)
  BY <1>1, TickPace DEF Unaffected
<1>2. ASSUME NEW s \in Scrapes, Discover(s) \/ DiscoverFailed(s) \/ Collects(s) PROVE PaceInv'
  <2> SUFFICES ASSUME NEW t \in Scrapes, disp'[t] = "run", NEW k \in Nat,
                      now' > StartedBy(t)' + k * RunTime
               PROVE  Asked(t, k)' = WorkersOf(t) \/ Cardinality(Asked(t, k)') >= (k + 1) * MaxConcurrent
    BY DEF PaceInv, WorkersOf
  <2>1. UNCHANGED <<now, pc, loc, reader, owner>>
    BY <1>2, ScrapeMoves
  <2>2. CASE disp[t] = "run" /\ seen'[t] = seen[t]
    <3>1. now > StartedBy(t) + k * RunTime
      BY <2>1, <2>2 DEF StartedBy
    <3>2. \A w \in Workers :
             \/ pc[w] \notin {"exec", "store", "append", "release", "done"}
             \/ pc'[w] \in {"release", "done"}
             \/ /\ pc[w] \in {"exec", "store", "append"} /\ pc'[w] \in {"exec", "store", "append"}
                /\ loc'[w].begin = loc[w].begin
      BY <2>1
    <3> QED
      BY <2>1, <2>2, <3>1, <3>2, StepPace
  <2>3. CASE now <= seen'[t] + TopologyAge
    <3>1. seen'[t] \in Nat /\ now \in Nat /\ TopologyAge \in Nat /\ k * RunTime \in Nat
      <4>1. ComposedInv'
        BY ComposedNextInv
      <4>2. k * RunTime \in Nat
        BY Typed
      <4> QED
        BY <4>1, <4>2, Typed, TimesAssumption DEF ComposedInv, ComposedTypeOK
    <3>2. now > seen'[t] + TopologyAge + k * RunTime
      BY <2>1 DEF StartedBy
    <3> QED
      BY <2>3, <3>1, <3>2
  <2> QED
    BY <1>2, <2>2, <2>3, ScrapeMoves
<1>3. ASSUME NEW w \in Workers, Queries(w) PROVE PaceInv'
  <2> SUFFICES ASSUME NEW t \in Scrapes, disp'[t] = "run", NEW k \in Nat,
                      now' > StartedBy(t)' + k * RunTime
               PROVE  Asked(t, k)' = WorkersOf(t) \/ Cardinality(Asked(t, k)') >= (k + 1) * MaxConcurrent
    BY DEF PaceInv, WorkersOf
  <2>1. now' = now /\ disp[t] = "run" /\ seen'[t] = seen[t] /\ now > StartedBy(t) + k * RunTime
    BY <1>3, WorkerMoves DEF StartedBy
  <2>2. \A v \in Workers :
             \/ pc[v] \notin {"exec", "store", "append", "release", "done"}
             \/ pc'[v] \in {"release", "done"}
             \/ /\ pc[v] \in {"exec", "store", "append"} /\ pc'[v] \in {"exec", "store", "append"}
                /\ loc'[v].begin = loc[v].begin
    BY <1>3, WorkerMoves
  <2> QED
    BY <2>1, <2>2, StepPace
<1>4. CASE UNCHANGED allVars
  BY <1>4 DEF allVars, vars, composed, PaceInv, Asked, StartedBy, WorkersOf
<1> QED
  BY <1>1, <1>2, <1>3, <1>4 DEF ComposedNext

\* So is RecentInv.
LEMMA NextRecent ==
    IInv /\ ComposedInv /\ RecentInv /\ [ComposedNext]_allVars => RecentInv'
<1> SUFFICES ASSUME IInv, ComposedInv, RecentInv, [ComposedNext]_allVars PROVE RecentInv'
  OBVIOUS
<1> USE Typed
<1>1. CASE Unaffected(Tick)
  <2> SUFFICES ASSUME NEW w \in Workers, pc[w] \in {"exec", "store", "append"}
               PROVE  loc[w].begin <= now + 1 /\ now + 1 <= loc[w].begin + RunTime
    BY <1>1 DEF RecentInv, Unaffected, composed, Tick
  <2>1. w[1] \in Scrapes /\ w \in WorkersOf(w[1])
    BY WorkersTyped DEF WorkersOf
  <2>2. disp[w[1]] = "run"
    BY <2>1 DEF IInv, DispInv
  <2>3. now - loc[w].begin < RunTime
    BY <1>1, <2>1, <2>2, TickWaits DEF Unaffected
  <2>4. loc[w].begin \in Nat /\ loc[w].begin <= now
    BY DEF RecentInv, Locals
  <2> QED
    BY <2>3, <2>4
<1>2. ASSUME NEW s \in Scrapes, Discover(s) \/ DiscoverFailed(s) \/ Collects(s) PROVE RecentInv'
  <2>1. UNCHANGED <<now, pc, loc>> /\ \A t \in Scrapes : disp[t] # "idle" => seen'[t] = seen[t]
    BY <1>2, ScrapeMoves
  <2>2. \A w \in Workers : pc[w] # "idle" => disp[w[1]] # "idle" /\ w[1] \in Scrapes
    BY WorkersTyped DEF IInv, DispInv
  <2> QED
    BY <2>1, <2>2 DEF RecentInv
<1>3. ASSUME NEW w \in Workers, Queries(w) PROVE RecentInv'
  <2>1. /\ w[1] \in Scrapes /\ seen[w[1]] <= now
        /\ loc[w].begin \in Nat
    BY WorkersTyped DEF ComposedInv, SeenInv, Locals
  <2>2. \A v \in Workers : v # w =>
          /\ pc'[v] # "idle" => MaxConcurrent > 0
          /\ pc'[v] \in {"exec", "store", "append"} =>
               loc'[v].begin <= now' /\ now' <= loc'[v].begin + RunTime /\ seen'[v[1]] <= loc'[v].begin
    BY <1>3, WorkerMoves DEF RecentInv
  <2>3. CanLaunch(w[1]) => MaxConcurrent > 0
    <3>1. IsFiniteSet(Active(w[1]))
      BY <2>1, ScrapeWorkers, FS_Subset DEF Active
    <3>2. Cardinality(Active(w[1])) \in Nat
      BY <3>1, FS_CardinalityType
    <3> QED
      BY <3>2 DEF CanLaunch
  <2>4. pc'[w] # "idle" => MaxConcurrent > 0
    BY <1>3, <2>3, WorkerMoves DEF RecentInv
  <2>5. pc'[w] \in {"exec", "store", "append"} =>
          loc'[w].begin <= now' /\ now' <= loc'[w].begin + RunTime /\ seen'[w[1]] <= loc'[w].begin
    BY <1>3, <2>1, WorkerMoves DEF RecentInv
  <2> QED
    BY <2>2, <2>4, <2>5 DEF RecentInv
<1>4. CASE UNCHANGED allVars
  BY <1>4 DEF allVars, vars, composed, RecentInv
<1> QED
  BY <1>1, <1>2, <1>3, <1>4 DEF ComposedNext

\* A switch is asked, and what it said is at hand, within Waves executions.
LEMMA AskedInTime ==
    ASSUME IInv, ComposedInv, PaceInv, RecentInv, NEW w \in Workers,
           pc[w] \in {"exec", "store", "append"}
    PROVE  /\ Waves \in Nat
           /\ now <= StartedBy(w[1]) + Waves * RunTime
<1> DEFINE s == w[1]
           n == Cardinality(GUIDs)
           k == Waves - 1
<1> USE Typed
<1>1. s \in Scrapes /\ w \in WorkersOf(s) /\ disp[s] = "run"
  BY WorkersTyped DEF WorkersOf, IInv, DispInv
<1>2. n \in Nat /\ MaxConcurrent \in Nat \ {0} /\ n # 0
  <2>1. GUIDs # {}
    BY WorkersTyped
  <2> QED
    BY <2>1, FinitenessAssumption, FS_CardinalityType, FS_EmptySet DEF RecentInv
<1>3. Waves \in Nat /\ n <= Waves * MaxConcurrent /\ Waves # 0
  BY <1>2 DEF Waves
<1>4. /\ k \in Nat /\ (k + 1) * MaxConcurrent = Waves * MaxConcurrent
      /\ k * RunTime = Waves * RunTime - RunTime /\ k * RunTime \in Nat
  BY <1>3
<1>5. /\ StartedBy(s) \in Nat /\ loc[w].begin \in Nat /\ now \in Nat
      /\ now <= loc[w].begin + RunTime
  BY <1>1 DEF StartedBy, Locals, RecentInv
<1>6. CASE now <= StartedBy(s) + k * RunTime
  <2> HIDE DEF k, s
  <2> QED
    BY <1>3, <1>4, <1>5, <1>6 DEF s
<1>7. CASE now > StartedBy(s) + k * RunTime
  <2>1. Asked(s, k) = WorkersOf(s) \/ Cardinality(Asked(s, k)) >= (k + 1) * MaxConcurrent
    BY <1>1, <1>4, <1>7 DEF PaceInv
  <2>2. /\ Asked(s, k) \in SUBSET WorkersOf(s) /\ IsFiniteSet(WorkersOf(s))
        /\ Cardinality(WorkersOf(s)) \in Nat /\ Cardinality(WorkersOf(s)) <= n
    BY <1>1, ScrapeWorkers DEF Asked
  <2>3. Cardinality(Asked(s, k)) \in Nat /\ Cardinality(Asked(s, k)) <= Cardinality(WorkersOf(s))
    BY <2>2, FS_Subset, FS_CardinalityType
  <2>4. Asked(s, k) = WorkersOf(s)
    <3>1. CASE Cardinality(Asked(s, k)) >= (k + 1) * MaxConcurrent
      <4>1. Cardinality(WorkersOf(s)) = Cardinality(Asked(s, k))
        <5> HIDE DEF k, s, n
        <5> QED
          BY <1>2, <1>3, <1>4, <2>2, <2>3, <3>1
      <4> QED
        BY <2>2, <4>1, FS_Subset
    <3> QED
      BY <2>1, <3>1
  <2>5. loc[w].begin <= StartedBy(s) + k * RunTime
    BY <1>1, <2>4 DEF Asked
  <2> HIDE DEF k, s
  <2> QED
    BY <1>3, <1>4, <1>5, <2>5 DEF s
<1>8. now <= StartedBy(s) + k * RunTime \/ now > StartedBy(s) + k * RunTime
  <2> HIDE DEF k, s
  <2> QED
    BY <1>4, <1>5
<1> QED
  BY <1>6, <1>7, <1>8

\* A request with a topology of before the renumbering asks until Latest.
LEMMA OldTopologyEnds ==
    ASSUME IInv, ComposedInv, PaceInv, RecentInv, NEW w \in Workers,
           pc[w] \in {"exec", "store", "append"}, seen[w[1]] < RenumberedAt
    PROVE  now <= Latest
<1>1. /\ Waves \in Nat /\ Waves * RunTime \in Nat
      /\ now <= StartedBy(w[1]) + Waves * RunTime
  BY AskedInTime, Typed
<1>2. seen[w[1]] \in Nat /\ w[1] \in Scrapes
  BY Typed, WorkersTyped
<1> QED
  BY <1>1, <1>2, Typed DEF StartedBy, Latest

\* Another switch answers only to a topology of before the renumbering.
LEMMA OtherAnswer ==
    ASSUME NEW w \in Workers, NEW h \in GUIDs, NEW t \in Nat, IInv, ComposedInv,
           seen[w[1]] <= t, Answers(w, h, t), h # w[2]
    PROVE  seen[w[1]] < RenumberedAt
<1>1. w[2] \in GUIDs /\ seen[w[1]] \in Nat /\ RenumberedAt \in Nat
  BY Typed, WorkersTyped
<1>2. CASE seen[w[1]] >= RenumberedAt
  <2>1. NewLID[h] = NewLID[w[2]]
    BY <1>1, <1>2 DEF Answers, LIDAt
  <2> QED
    BY <1>1, <2>1, LIDsAssumption DEF IsInjective
<1> QED
  BY <1>1, <1>2

\* What ForeignInv says of one worker, and of one switch's entry.
ForeignWorker(w) ==
    /\ pc[w] = "store" => ~loc[w].vitals
    /\ pc[w] \in {"store", "append"} /\ reader[w] # w[2] => seen[w[1]] < RenumberedAt
    /\ ~loc[w].vitals /\ owner[w] # w[2] => pc[w] \in {"store", "append"} /\ seen[w[1]] < RenumberedAt
    /\ loc[w].vitals /\ owner[w] # w[2] => TTL > 0 /\ loc[w].begin <= Latest + TTL - 1
ForeignEntry(g) == origin[g] # g => cache[g].refresh <= Latest

\* ForeignInv, worker by worker and entry by entry.
LEMMA ForeignParts ==
    /\ ForeignInv <=> (\A w \in Workers : ForeignWorker(w)) /\ (\A g \in GUIDs : ForeignEntry(g))
    /\ ForeignInv' <=> (\A w \in Workers : ForeignWorker(w)') /\ (\A g \in GUIDs : ForeignEntry(g)')
BY DEF ForeignInv, ForeignWorker, ForeignEntry

\* A worker hands on another switch's data only in time.
LEMMA ForeignQueries ==
    ASSUME IInv, ComposedInv, PaceInv, RecentInv, ForeignInv, NEW w \in Workers, Queries(w)
    PROVE  ForeignInv'
<1> USE Typed, ForeignParts
<1>0. /\ w[1] \in Scrapes /\ w[2] \in GUIDs /\ (pc[w] # "idle" => Latest \in Int)
      /\ loc[w] \in Locals /\ loc[w].begin \in Nat /\ loc[w].vitals \in BOOLEAN
      /\ seen' = seen /\ now' = now
  <2>1. Cardinality(GUIDs) \in Nat
    BY FinitenessAssumption, FS_CardinalityType
  <2>2. ASSUME pc[w] # "idle" PROVE Latest \in Int
    <3>1. MaxConcurrent \in Nat \ {0}
      BY <2>2 DEF RecentInv
    <3>2. Waves \in Int
      BY <2>1, <3>1 DEF Waves
    <3> QED
      BY <3>2 DEF Latest
  <2> QED
    BY WorkersTyped, <2>2, WorkerMoves DEF Locals
<1>1. \A v \in Workers : v # w => ForeignWorker(v)'
  BY WorkerMoves DEF ForeignWorker
<1>2. CASE Unaffected(Launch(w))
  BY <1>2 DEF Unaffected, composed, Launch, Goto, ForeignWorker, ForeignEntry
<1>3. CASE CheckEntry(w)
  <2> DEFINE fresh == FreshEntry(w[2])
  <2>1. /\ pc[w] = "check" /\ pc' = [pc EXCEPT ![w] = "exec"]
        /\ UNCHANGED <<cache, origin, seen, reader>>
        /\ owner' = [owner EXCEPT ![w] = IF fresh THEN origin[w[2]] ELSE w[2]]
        /\ loc' = [loc EXCEPT ![w] = [vitals |-> fresh, begin |-> now, asOf |-> IF fresh THEN cache[w[2]].asOf ELSE 0]]
    BY <1>3 DEF CheckEntry, Check, Goto
  <2>2. /\ pc'[w] = "exec" /\ owner'[w] = (IF fresh THEN origin[w[2]] ELSE w[2])
        /\ loc'[w].vitals = fresh /\ loc'[w].begin = now
    BY <2>1
  <2>3. fresh /\ origin[w[2]] # w[2] => TTL > 0 /\ now <= Latest + TTL - 1
    BY <1>0, <2>1 DEF FreshEntry, ForeignEntry, Entries
  <2> HIDE DEF fresh
  <2>4. ForeignWorker(w)'
    BY <2>2, <2>3 DEF ForeignWorker
  <2> QED
    BY <1>1, <2>1, <2>4 DEF ForeignEntry
<1>4. CASE VitalsFrom(w)
  <2>1. PICK h \in GUIDs : \E t \in loc[w].begin..now :
          Answers(w, h, t) /\ reader' = [reader EXCEPT ![w] = h]
    BY <1>4 DEF VitalsFrom
  <2>2. PICK t \in loc[w].begin..now : Answers(w, h, t) /\ reader' = [reader EXCEPT ![w] = h]
    BY <2>1
  <2>3. /\ pc[w] = "exec" /\ pc' = [pc EXCEPT ![w] = "append"] /\ loc[w].vitals
        /\ UNCHANGED <<cache, origin, loc, owner>>
    BY <1>4 DEF VitalsFrom, VitalsOk, Goto
  <2>4. t \in Nat /\ seen[w[1]] <= t
    BY <1>0, <2>2, <2>3 DEF RecentInv
  <2>5. h # w[2] => seen[w[1]] < RenumberedAt
    BY <2>2, <2>4, OtherAnswer
  <2>6. ForeignWorker(w)'
    BY <1>0, <2>2, <2>3, <2>5 DEF ForeignWorker
  <2> QED
    BY <1>1, <2>3, <2>6 DEF ForeignEntry
<1>5. CASE FullFrom(w)
  <2>1. PICK h \in GUIDs : /\ Answers(w, h, loc'[w].asOf)
                           /\ reader' = [reader EXCEPT ![w] = h]
                           /\ owner' = [owner EXCEPT ![w] = h]
    BY <1>5 DEF FullFrom
  <2>2. PICK v \in loc[w].begin..now : loc' = [loc EXCEPT ![w].asOf = v]
    BY <1>5 DEF FullFrom, FullOk
  <2>3. /\ pc[w] = "exec" /\ pc'[w] \in {"store", "append"} /\ ~loc[w].vitals
        /\ UNCHANGED <<cache, origin>>
    BY <1>5 DEF FullFrom, FullOk, Goto
  <2>4. loc'[w].asOf = v /\ loc'[w].vitals = loc[w].vitals /\ loc'[w].begin = loc[w].begin
    BY <1>0, <2>2 DEF Locals
  <2>5. v \in Nat /\ seen[w[1]] <= v
    BY <1>0, <2>2, <2>3 DEF RecentInv
  <2>6. h # w[2] => seen[w[1]] < RenumberedAt
    BY <2>1, <2>4, <2>5, OtherAnswer
  <2>7. ForeignWorker(w)'
    BY <1>0, <2>1, <2>3, <2>4, <2>6 DEF ForeignWorker
  <2> QED
    BY <1>1, <2>3, <2>7 DEF ForeignEntry
<1>6. CASE StoreFrom(w)
  <2>1. /\ pc[w] = "store" /\ pc' = [pc EXCEPT ![w] = "append"]
        /\ UNCHANGED <<loc, reader, owner>>
        /\ origin' = [origin EXCEPT ![w[2]] = owner[w]]
        /\ cache' = [cache EXCEPT ![w[2]] = [asOf |-> loc[w].asOf, refresh |-> now]]
    BY <1>6 DEF StoreFrom, Store, Goto
  <2>2. ForeignWorker(w)'
    BY <1>0, <2>1 DEF ForeignWorker
  <2>3. owner[w] # w[2] => now <= Latest
    BY <2>1, OldTopologyEnds DEF ForeignWorker
  <2>4. cache'[w[2]].refresh = now /\ origin'[w[2]] = owner[w]
    BY <1>0, <2>1
  <2>5. \A g \in GUIDs : g # w[2] => cache'[g] = cache[g] /\ origin'[g] = origin[g]
    BY <2>1
  <2>6. \A g \in GUIDs : ForeignEntry(g)'
    BY <1>0, <2>3, <2>4, <2>5 DEF ForeignEntry
  <2> QED
    BY <1>1, <2>2, <2>6
<1>7. CASE Forget(w)
  <2>1. /\ owner'[w] = w[2] /\ reader'[w] = w[2] /\ pc'[w] = "release" /\ UNCHANGED <<cache, origin>>
    BY <1>0, <1>7 DEF Forget, Append, ExecFailed, ParseError, Fail, Goto
  <2>2. ForeignWorker(w)'
    BY <2>1 DEF ForeignWorker
  <2> QED
    BY <1>1, <2>1, <2>2 DEF ForeignEntry
<1>8. CASE Unaffected(Release(w))
  BY <1>8 DEF Unaffected, composed, Release, Goto, ForeignWorker, ForeignEntry
<1> QED
  BY <1>2, <1>3, <1>4, <1>5, <1>6, <1>7, <1>8 DEF Queries

\* ForeignInv is inductive.
LEMMA NextForeign ==
    IInv /\ ComposedInv /\ PaceInv /\ RecentInv /\ ForeignInv /\ [ComposedNext]_allVars => ForeignInv'
<1> SUFFICES ASSUME IInv, ComposedInv, PaceInv, RecentInv, ForeignInv, [ComposedNext]_allVars
             PROVE  ForeignInv'
  OBVIOUS
<1>1. CASE Unaffected(Tick) \/ UNCHANGED allVars
  BY <1>1 DEF Unaffected, Tick, allVars, vars, composed, ForeignInv
<1>2. ASSUME NEW s \in Scrapes, Discover(s) \/ DiscoverFailed(s) \/ Collects(s) PROVE ForeignInv'
  <2>1. /\ UNCHANGED <<pc, loc, reader, owner>>
        /\ \A t \in Scrapes : disp[t] # "idle" => seen'[t] = seen[t]
    BY <1>2, ScrapeMoves
  <2>2. \A w \in Workers : /\ w[1] \in Scrapes
                           /\ pc[w] \in {"store", "append"} => disp[w[1]] # "idle"
    BY WorkersTyped DEF IInv, DispInv
  <2>3. \A w \in Workers : ForeignWorker(w)'
    BY <2>1, <2>2, ForeignParts DEF ForeignWorker
  <2>4. \A g \in GUIDs : origin'[g] # g => origin'[g] = origin[g] /\ cache'[g] = cache[g]
    <3>1. CASE Evicts(s)
      <4>1. PICK x \in GUIDs : cache' = [cache EXCEPT ![x] = Absent]
        BY <3>1 DEF Evicts, Evict, Keys, IInv, TypeOK
      <4>2. origin' = [g \in GUIDs |-> IF cache'[g] = Absent THEN g ELSE origin[g]]
        BY <3>1 DEF Evicts
      <4> QED
        BY <4>1, <4>2, Typed
    <3>2. CASE UNCHANGED <<cache, origin>>
      BY <3>2
    <3>3. Evicts(s) \/ UNCHANGED <<cache, origin>>
      BY <1>2 DEF Discover, Start, DiscoverFailed, vars, Collects, Unaffected, composed, Wait, EvictEnd
    <3> QED
      BY <3>1, <3>2, <3>3
  <2>5. \A g \in GUIDs : ForeignEntry(g)'
    BY <2>4, ForeignParts DEF ForeignEntry
  <2> QED
    BY <2>3, <2>5, ForeignParts
<1> QED
  BY <1>1, <1>2, ForeignQueries DEF ComposedNext

\* Before the first request nothing is late or foreign.
LEMMA InitForeign == ComposedInit => PaceInv /\ RecentInv /\ ForeignInv
<1> SUFFICES ASSUME ComposedInit PROVE PaceInv /\ RecentInv /\ ForeignInv
  OBVIOUS
<1>1. PaceInv /\ RecentInv
  BY DEF ComposedInit, Init, PaceInv, RecentInv
<1>2. ForeignInv
  BY WorkersTyped DEF ComposedInit, Init, ForeignInv, NoLocals
<1> QED
  BY <1>1, <1>2

\* ForeignBounded: a switch is published with another's data only after the
\* renumbering, and no longer than it takes the requests with topologies of
\* before it to end, and what they cached to expire (setupGathers, GetPorts and
\* IbswinfoCollector.collect together).
THEOREM ForeignEnds == ComposedSpec => []ForeignBounded
<1>1. ComposedSpec => [](PaceInv /\ RecentInv /\ ForeignInv)
  BY InitForeign, NextPace, NextRecent, NextForeign, ComposedInvariance, Composes, SwinfoInvariance,
     PTL DEF ComposedSpec
<1>2. IInv /\ ComposedInv /\ PaceInv /\ RecentInv /\ ForeignInv => ForeignBounded
  <2> SUFFICES ASSUME IInv, ComposedInv, PaceInv, RecentInv, ForeignInv,
                      NEW w \in Workers, Foreign(w)
               PROVE  now >= RenumberedAt /\ now <= Latest + CachedFor
    BY DEF ForeignBounded, Latest
  <2> USE Typed
  <2>1. now >= RenumberedAt
    BY DEF ComposedInv, TrueInv, Foreign
  <2>2. /\ pc[w] = "append" /\ loc[w].begin \in Nat /\ now <= loc[w].begin + RunTime
        /\ loc[w].vitals \in BOOLEAN
    BY DEF Foreign, RecentInv, Locals
  <2>3. Waves \in Nat /\ Waves * RunTime \in Nat /\ Latest \in Int /\ CachedFor \in Nat
    <3>1. Waves \in Nat /\ Waves * RunTime \in Nat
      BY <2>2, AskedInTime
    <3> QED
      BY <3>1 DEF Latest, CachedFor
  <2>4. CASE seen[w[1]] < RenumberedAt
    <3>1. now <= Latest
      BY <2>2, <2>4, OldTopologyEnds
    <3> QED
      BY <2>1, <2>3, <3>1
  <2>5. CASE loc[w].vitals /\ owner[w] # w[2]
    <3>1. TTL > 0 /\ loc[w].begin <= Latest + TTL - 1
      BY <2>5, ForeignParts DEF ForeignWorker
    <3>2. CachedFor = TTL - 1 + RunTime
      BY <3>1 DEF CachedFor
    <3> QED
      BY <2>1, <2>2, <2>3, <3>1, <3>2
  <2> QED
    BY <2>1, <2>2, <2>4, <2>5, ForeignParts DEF ForeignWorker, Foreign
<1> QED
  BY <1>1, <1>2, ComposedInvariance, Composes, SwinfoInvariance, PTL
=============================================================================
