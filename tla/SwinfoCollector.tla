--------------------------- MODULE SwinfoCollector ---------------------------
(***************************************************************************)
(* IbswinfoCollector.collect and the process-wide ibswinfoStaticCache      *)
(* (collectors/ibswinfo.go).                                               *)
(*                                                                         *)
(* Every scrape queries each switch of its topology, at most MaxConcurrent *)
(* at a time.  While the static cache holds an entry younger than the TTL  *)
(* the query is the short `-o vitals` one and the identifiers and status   *)
(* strings it drops are taken from the entry; otherwise the query is full  *)
(* and refreshes the entry.  When all workers have ended the scrape deletes*)
(* the entries of the switches that are not in its topology.  Overlapping  *)
(* scrapes, whose topologies may differ, share the cache.                  *)
(*                                                                         *)
(* The cached fields are abstracted to the time at which the switch        *)
(* reported them.  The token channel, wait group and slice lock are those  *)
(* of PortCollector, here at the grain of whole workers.                   *)
(***************************************************************************)
EXTENDS Integers, FiniteSets, FiniteSetsExt

CONSTANTS
    Scrapes,        \* calls of Collect, sequential or overlapping
    GUIDs,          \* the switches of all topologies
    DevicesOf,      \* DevicesOf[s]: the switches of s's topology
    MaxConcurrent,  \* --ibswinfo.max-concurrent
    TTL,            \* --ibswinfo.static-cache-ttl; 0 means always full
    RunTime,        \* --ibswinfo.timeout: the longest execution
    MaxTime         \* bound on the clock

ASSUME TimesAssumption == TTL \in Nat /\ RunTime \in Nat /\ MaxTime \in Nat \ {0}
ASSUME ConcurrencyAssumption == MaxConcurrent \in Nat
ASSUME DevicesAssumption == DevicesOf \in [Scrapes -> SUBSET GUIDs]
ASSUME FinitenessAssumption == IsFiniteSet(Scrapes) /\ IsFiniteSet(GUIDs)

Workers == {w \in Scrapes \X GUIDs : w[2] \in DevicesOf[w[1]]}
WorkersOf(s) == {w \in Workers : w[1] = s}

NoScrape == "none"
ASSUME ScrapesAssumption == NoScrape \notin Scrapes

VARIABLES
    now,        \* the monotonic clock, starting at 1
    cache,      \* cache[g]: the entry's asOf and lastRefresh; 0 if there is none
    totals,     \* ibswinfoErrorsTotal and ibswinfoTimeoutsTotal
    disp,       \* disp[s]: "idle", "run", "evict" or "done"
    evict,      \* evict[s]: the keys Range has still to visit
    pc,         \* pc[w]: where the worker of w[2] in scrape w[1] is
    loc,        \* loc[w]: its vitals flag, asOf of its fields, start of execution;
                \* reset where they go out of use
    result,     \* result[w]: "none", "ok" once appended, "failed" once counted
    lastRange   \* history: the scrape that was the last to start evicting

vars == <<now, cache, totals, disp, evict, pc, loc, result, lastRange>>

WorkerPCs == {"idle", "check", "exec", "store", "append", "release", "done"}
Absent == [asOf |-> 0, refresh |-> 0]
NoLocals == [vitals |-> FALSE, asOf |-> 0, begin |-> 0]

Init ==
    /\ now = 1
    /\ cache = [g \in GUIDs |-> Absent]
    /\ totals = [errors |-> 0, timeouts |-> 0]
    /\ disp = [s \in Scrapes |-> "idle"]
    /\ evict = [s \in Scrapes |-> {}]
    /\ pc = [w \in Workers |-> "idle"]
    /\ loc = [w \in Workers |-> NoLocals]
    /\ result = [w \in Workers |-> "none"]
    /\ lastRange = NoScrape

Goto(w, label) == pc' = [pc EXCEPT ![w] = label]
Keys == {g \in GUIDs : cache[g] # Absent}

-----------------------------------------------------------------------------
(* The dispatcher.                                                         *)

Start(s) ==
    /\ disp[s] = "idle"
    /\ disp' = [disp EXCEPT ![s] = "run"]
    /\ UNCHANGED <<now, cache, totals, evict, pc, loc, result, lastRange>>

Active(s) == {w \in WorkersOf(s) : pc[w] \notin {"idle", "done"}}
CanLaunch(s) == disp[s] = "run" /\ Cardinality(Active(s)) < MaxConcurrent

Launch(w) ==
    /\ CanLaunch(w[1])
    /\ pc[w] = "idle"
    /\ Goto(w, "check")
    /\ UNCHANGED <<now, cache, totals, disp, evict, loc, result, lastRange>>

\* mutant: the keys are listed when the scrape starts to wait for its workers
WorkersLaunched(s) == \A w \in WorkersOf(s) : pc[w] # "idle"
WorkersDone(s) == \A w \in WorkersOf(s) : pc[w] = "done"

\* wg.Wait() returns; Range starts on the keys outside this topology.
Wait(s) ==
    /\ disp[s] = "run"
    /\ WorkersDone(s)
    /\ IF TTL > 0
         THEN /\ disp' = [disp EXCEPT ![s] = "evict"]
              /\ evict' = [evict EXCEPT ![s] = Keys \ DevicesOf[s]]
              /\ lastRange' = s
         ELSE /\ disp' = [disp EXCEPT ![s] = "done"]
              /\ UNCHANGED <<evict, lastRange>>
    /\ UNCHANGED <<now, cache, totals, pc, loc, result>>

\* Range visits the keys in any order.  A key stored by another scrape after
\* Range has started may or may not be visited.
Evict(s) ==
    /\ disp[s] = "evict"
    /\ \E g \in evict[s] \cup (Keys \ DevicesOf[s]) :
         /\ cache' = [cache EXCEPT ![g] = Absent]
         /\ evict' = [evict EXCEPT ![s] = @ \ {g}]
    /\ UNCHANGED <<now, totals, disp, pc, loc, result, lastRange>>

EvictEnd(s) ==
    /\ disp[s] = "evict"
    /\ evict[s] = {}
    /\ disp' = [disp EXCEPT ![s] = "done"]
    /\ UNCHANGED <<now, cache, totals, evict, pc, loc, result, lastRange>>

-----------------------------------------------------------------------------
(* The worker.                                                             *)

\* mutant: a present entry is used whatever its age
PresentEntry(g) == TTL > 0 /\ cache[g] # Absent
FreshEntry(g) == TTL > 0 /\ cache[g] # Absent /\ now - cache[g].refresh < TTL

\* useVitalsForGUID: the entry is copied before the execution starts.
Check(w) ==
    /\ pc[w] = "check"
    /\ loc' = [loc EXCEPT ![w] =
                 [vitals |-> FreshEntry(w[2]), begin |-> now,
                  asOf |-> IF FreshEntry(w[2]) THEN cache[w[2]].asOf ELSE 0]]
    /\ Goto(w, "exec")
    /\ UNCHANGED <<now, cache, totals, disp, evict, result, lastRange>>

\* The short output always parses; its missing fields come from the copy.
VitalsOk(w) ==
    /\ pc[w] = "exec" /\ loc[w].vitals
    /\ Goto(w, "append")
    /\ UNCHANGED <<now, cache, totals, disp, evict, loc, result, lastRange>>

\* The full output was read from the switch at some moment of the execution.
FullOk(w) ==
    /\ pc[w] = "exec" /\ ~loc[w].vitals
    /\ \E v \in loc[w].begin..now : loc' = [loc EXCEPT ![w].asOf = v]
    /\ Goto(w, IF TTL > 0 THEN "store" ELSE "append")
    /\ UNCHANGED <<now, cache, totals, disp, evict, result, lastRange>>

Fail(w, name) ==
    /\ pc[w] = "exec"
    /\ totals' = [totals EXCEPT ![name] = @ + 1]
    /\ result' = [result EXCEPT ![w] = "failed"]
    /\ loc' = [loc EXCEPT ![w] = NoLocals]
    /\ Goto(w, "release")
    /\ UNCHANGED <<now, cache, disp, evict, lastRange>>

\* mutant: an output that does not parse is not counted
UncountedParseError(w) ==
    /\ pc[w] = "exec" /\ ~loc[w].vitals
    /\ result' = [result EXCEPT ![w] = "failed"]
    /\ loc' = [loc EXCEPT ![w] = NoLocals]
    /\ Goto(w, "release")
    /\ UNCHANGED <<now, cache, totals, disp, evict, lastRange>>

\* A full output that does not parse is an error; nothing is cached.
ParseError(w) == ~loc[w].vitals /\ Fail(w, "errors")

ExecFailed(w) == Fail(w, "timeouts") \/ Fail(w, "errors")

\* mutant: the expiry time is stored where the refresh time belongs
StoreExpiry(w) ==
    /\ pc[w] = "store"
    /\ cache' = [cache EXCEPT ![w[2]] = [asOf |-> loc[w].asOf, refresh |-> now + TTL]]
    /\ Goto(w, "append")
    /\ UNCHANGED <<now, totals, disp, evict, loc, result, lastRange>>

\* ibswinfoStaticCache.Store with lastRefresh = time.Now().
Store(w) ==
    /\ pc[w] = "store"
    /\ cache' = [cache EXCEPT ![w[2]] = [asOf |-> loc[w].asOf, refresh |-> now]]
    /\ Goto(w, "append")
    /\ UNCHANGED <<now, totals, disp, evict, loc, result, lastRange>>

\* The append under ibswinfosLock: only here does the switch get any series.
Append(w) ==
    /\ pc[w] = "append"
    /\ result' = [result EXCEPT ![w] = "ok"]
    /\ loc' = [loc EXCEPT ![w] = [NoLocals EXCEPT !.asOf = loc[w].asOf]]
    /\ Goto(w, "release")
    /\ UNCHANGED <<now, cache, totals, disp, evict, lastRange>>

\* mutant: a failed worker keeps its token and never signals
ReleaseOnSuccess(w) ==
    /\ pc[w] = "release" /\ result[w] = "ok"
    /\ Goto(w, "done")
    /\ UNCHANGED <<now, cache, totals, disp, evict, loc, result, lastRange>>

\* The deferred <-limit and wg.Done().
Release(w) ==
    /\ pc[w] = "release"
    /\ Goto(w, "done")
    /\ UNCHANGED <<now, cache, totals, disp, evict, loc, result, lastRange>>

-----------------------------------------------------------------------------
\* An execution's context deadline has been reached.
Expired(w) == pc[w] = "exec" /\ now - loc[w].begin >= RunTime

\* A scrape waits only for executions, or for tokens held by executions.
Waiting(s) ==
    \/ disp[s] \in {"idle", "done"}
    \/ /\ disp[s] = "run"
       /\ \A w \in WorkersOf(s) : pc[w] \in {"idle", "exec", "done"} /\ ~Expired(w)
       /\ ~WorkersDone(s)
       /\ CanLaunch(s) => \A w \in WorkersOf(s) : pc[w] # "idle"

Tick ==
    /\ now < MaxTime
    /\ \A s \in Scrapes : Waiting(s)
    /\ now' = now + 1
    /\ UNCHANGED <<cache, totals, disp, evict, pc, loc, result, lastRange>>

Dispatch(s) == Wait(s) \/ Evict(s) \/ EvictEnd(s)
Work(w) ==
    \/ Launch(w) \/ Check(w) \/ VitalsOk(w) \/ FullOk(w) \/ ExecFailed(w) \/ ParseError(w)
    \/ Store(w) \/ Append(w) \/ Release(w)

AllDone == \A s \in Scrapes : disp[s] = "done"
Finished == AllDone /\ UNCHANGED vars

Next ==
    \/ Tick
    \/ \E s \in Scrapes : Start(s) \/ Dispatch(s)
    \/ \E w \in Workers : Work(w)
    \/ Finished

Spec == Init /\ [][Next]_vars

\* Started goroutines run, executions end by their deadlines.
Fairness ==
    /\ \A s \in Scrapes : WF_vars(Dispatch(s))
    /\ \A w \in Workers : WF_vars(Work(w))

FairSpec == Spec /\ Fairness

-----------------------------------------------------------------------------
(* Properties.                                                             *)

Times == 0..MaxTime

TypeOK ==
    /\ now \in 1..MaxTime
    /\ cache \in [GUIDs -> [asOf : Times, refresh : Times]]
    /\ totals \in [errors : Nat, timeouts : Nat]
    /\ disp \in [Scrapes -> {"idle", "run", "evict", "done"}]
    /\ evict \in [Scrapes -> SUBSET GUIDs]
    /\ pc \in [Workers -> WorkerPCs]
    /\ loc \in [Workers -> [vitals : BOOLEAN, asOf : Times, begin : Times]]
    /\ result \in [Workers -> {"none", "ok", "failed"}]
    /\ lastRange \in Scrapes \cup {NoScrape}

\* No switch is lost silently: a switch of a scrape's topology that got no
\* series is in one of the two totals, once, across all overlapping scrapes.
AppendedOrCounted ==
    totals.errors + totals.timeouts =
        Quantify(Workers, LAMBDA w : pc[w] \in {"release", "done"} /\ result[w] # "ok")

\* The cache does not grow with replaced switches: when no scrape runs, it
\* holds nothing outside the topology of the scrape that started evicting
\* last, although overlapping scrapes with other topologies stored and evicted
\* meanwhile.
NoLeak == AllDone /\ TTL > 0 => Keys \subseteq DevicesOf[lastRange]

\* The static and status fields a switch is published with are real ones, at
\* most TTL + 2 * RunTime old: an entry is stamped at the end of the execution
\* that read it, copied when younger than the TTL, and published after another
\* execution.
Promise == INSTANCE StaleSource WITH
    Clients <- Workers,
    Bound <- TTL + 2 * RunTime,
    status <- result,
    asOf <- [w \in Workers |-> IF result[w] = "ok" THEN loc[w].asOf ELSE 0]
PromiseKept == Promise!Spec

\* Every scrape that starts is answered.
ScrapeCompletes == \A s \in Scrapes : disp[s] = "run" ~> disp[s] = "done"
=============================================================================
