---------------------------- MODULE TopologyCache ----------------------------
(***************************************************************************)
(* IBNetDiscover.GetPorts and the process-wide ibnetdiscoverCache          *)
(* (collectors/ibnetdiscover.go).                                          *)
(*                                                                         *)
(* Every scrape constructs its own IBNetDiscover and calls GetPorts once.  *)
(* GetPorts looks at the cache under its mutex; on a miss it releases the  *)
(* mutex, runs ibnetdiscover (up to --ibnetdiscover.timeout), and on       *)
(* success takes the mutex again to store both device lists and the time.  *)
(* Nothing keeps several scrapes from missing and running at once.         *)
(*                                                                         *)
(* A device list is abstracted to the time at which the fabric looked like *)
(* that.  Time passes only while ibnetdiscover runs or no scrape is        *)
(* active: the other steps are immediate at this scale.                    *)
(***************************************************************************)
EXTENDS Integers

CONSTANTS
    Scrapes,   \* calls of GetPorts, sequential or overlapping
    TTL,       \* --ibnetdiscover.cache-ttl; 0 disables the cache
    RunTime,   \* --ibnetdiscover.timeout: the longest execution
    MaxTime    \* bound on the clock

ASSUME TimesAssumption == TTL \in Nat /\ RunTime \in Nat /\ MaxTime \in Nat \ {0}

NoScrape == "none"
ASSUME ScrapesAssumption == NoScrape \notin Scrapes

VARIABLES
    now,       \* the monotonic clock, starting at 1
    mu,        \* the scrape that holds ibnetdiscoverCache.mu
    cache,     \* its switches, hcas and refresh; refresh 0 is the zero time
    totals,    \* ibnetdiscoverErrorsTotal and ibnetdiscoverTimeoutsTotal
    pc,        \* pc[s]: where the call of s is
    loc,       \* loc[s]: fresh, sw, hc of the call, and its execution's start
    result     \* result[s]: "none", "ok" or "failed", GetPorts' err

vars == <<now, mu, cache, totals, pc, loc, result>>

PCs == {"idle", "look", "fresh", "switches", "hcas", "exec",
        "log", "store", "putSwitches", "putHcas", "putRefresh", "return", "done"}

\* The pcs between Lock and Unlock of ibnetdiscoverCache.mu.
Critical == {"fresh", "switches", "hcas", "putSwitches", "putHcas", "putRefresh"}

NoLocals == [fresh |-> FALSE, sw |-> 0, hc |-> 0, begin |-> 0]

Init ==
    /\ now = 1
    /\ mu = NoScrape
    /\ cache = [switches |-> 0, hcas |-> 0, refresh |-> 0]
    /\ totals = [errors |-> 0, timeouts |-> 0]
    /\ pc = [s \in Scrapes |-> "idle"]
    /\ loc = [s \in Scrapes |-> NoLocals]
    /\ result = [s \in Scrapes |-> "none"]

Goto(s, label) == pc' = [pc EXCEPT ![s] = label]

-----------------------------------------------------------------------------
Call(s) ==
    /\ pc[s] = "idle"
    /\ IF TTL > 0
         THEN Goto(s, "look") /\ loc' = loc
         ELSE Goto(s, "exec") /\ loc' = [loc EXCEPT ![s].begin = now]
    /\ UNCHANGED <<now, mu, cache, totals, result>>

LockIgnored == TRUE  \* mutant: no mutual exclusion
LockFree == mu = NoScrape

\* ibnetdiscoverCache.mu.Lock(), before the lookup or before the store.
Lock(s, from, to) ==
    /\ pc[s] = from
    /\ LockFree
    /\ mu' = s
    /\ Goto(s, to)
    /\ UNCHANGED <<now, cache, totals, loc, result>>

FreshForever == cache.refresh # 0  \* mutant: no expiry
Fresh == cache.refresh # 0 /\ now - cache.refresh < TTL

ReadFresh(s) ==
    /\ pc[s] = "fresh"
    /\ loc' = [loc EXCEPT ![s].fresh = Fresh]
    /\ Goto(s, "switches")
    /\ UNCHANGED <<now, mu, cache, totals, result>>

ReadSwitches(s) ==
    /\ pc[s] = "switches"
    /\ loc' = [loc EXCEPT ![s].sw = cache.switches]
    /\ Goto(s, "hcas")
    /\ UNCHANGED <<now, mu, cache, totals, result>>

\* mutant: a hit returns with the mutex held
HitKeepsLock(s) ==
    /\ pc[s] = "hcas"
    /\ mu' = IF loc[s].fresh THEN mu ELSE NoScrape
    /\ IF loc[s].fresh
         THEN /\ loc' = [loc EXCEPT ![s].hc = cache.hcas]
              /\ Goto(s, "log")
         ELSE /\ loc' = [loc EXCEPT ![s] = [NoLocals EXCEPT !.begin = now]]
              /\ Goto(s, "exec")
    /\ UNCHANGED <<now, cache, totals, result>>

\* The last read, Unlock, and the test of fresh: a miss starts an execution.
ReadHcas(s) ==
    /\ pc[s] = "hcas"
    /\ mu' = NoScrape
    /\ IF loc[s].fresh
         THEN /\ loc' = [loc EXCEPT ![s].hc = cache.hcas]
              /\ Goto(s, "log")
         ELSE /\ loc' = [loc EXCEPT ![s] = [NoLocals EXCEPT !.begin = now]]
              /\ Goto(s, "exec")
    /\ UNCHANGED <<now, cache, totals, result>>

\* A hit reads refresh once more, after Unlock, for the age in a debug message:
\* the value goes nowhere else, whatever a concurrent store makes of it.
LogAge(s) ==
    /\ pc[s] = "log"
    /\ Goto(s, "return")
    /\ UNCHANGED <<now, mu, cache, totals, loc, result>>

\* The execution ends with a topology that parses: the fabric as it was at
\* some moment of the execution.
ExecOk(s) ==
    /\ pc[s] = "exec"
    /\ \E v \in loc[s].begin..now :
         loc' = [loc EXCEPT ![s] = [loc[s] EXCEPT !.sw = v, !.hc = v]]
    /\ Goto(s, IF TTL > 0 THEN "store" ELSE "return")
    /\ UNCHANGED <<now, mu, cache, totals, result>>

\* It fails, times out or does not parse: counted, and returned as the error
\* even when the cache still holds an older topology.
ExecFailed(s) ==
    /\ pc[s] = "exec"
    /\ \/ totals' = [totals EXCEPT !.timeouts = @ + 1]
       \/ totals' = [totals EXCEPT !.errors = @ + 1]
    /\ result' = [result EXCEPT ![s] = "failed"]
    /\ Goto(s, "done")
    /\ UNCHANGED <<now, mu, cache, loc>>

PutSwitches(s) ==
    /\ pc[s] = "putSwitches"
    /\ cache' = [cache EXCEPT !.switches = loc[s].sw]
    /\ Goto(s, "putHcas")
    /\ UNCHANGED <<now, mu, totals, loc, result>>

PutHcas(s) ==
    /\ pc[s] = "putHcas"
    /\ cache' = [cache EXCEPT !.hcas = loc[s].hc]
    /\ Goto(s, "putRefresh")
    /\ UNCHANGED <<now, mu, totals, loc, result>>

\* mutant: the expiry time is stored where the refresh time belongs
PutExpiry(s) ==
    /\ pc[s] = "putRefresh"
    /\ cache' = [cache EXCEPT !.refresh = now + TTL]
    /\ mu' = NoScrape
    /\ Goto(s, "return")
    /\ UNCHANGED <<now, totals, loc, result>>

\* refresh = time.Now(), the end of the execution; then Unlock.
PutRefresh(s) ==
    /\ pc[s] = "putRefresh"
    /\ cache' = [cache EXCEPT !.refresh = now]
    /\ mu' = NoScrape
    /\ Goto(s, "return")
    /\ UNCHANGED <<now, totals, loc, result>>

Return(s) ==
    /\ pc[s] = "return"
    /\ result' = [result EXCEPT ![s] = "ok"]
    /\ Goto(s, "done")
    /\ UNCHANGED <<now, mu, cache, totals, loc>>

-----------------------------------------------------------------------------
\* An execution's context deadline has been reached.
Expired(s) == pc[s] = "exec" /\ now - loc[s].begin >= RunTime

Tick ==
    /\ now < MaxTime
    /\ \A s \in Scrapes : pc[s] \in {"idle", "exec", "done"} /\ ~Expired(s)
    /\ now' = now + 1
    /\ UNCHANGED <<mu, cache, totals, pc, loc, result>>

Step(s) ==
    \/ Call(s) \/ Lock(s, "look", "fresh")
    \/ ReadFresh(s) \/ ReadSwitches(s) \/ ReadHcas(s) \/ LogAge(s)
    \/ ExecOk(s) \/ ExecFailed(s)
    \/ Lock(s, "store", "putSwitches")
    \/ PutSwitches(s) \/ PutHcas(s) \/ PutRefresh(s) \/ Return(s)

\* Every scrape has been answered.
Finished == (\A s \in Scrapes : pc[s] = "done") /\ UNCHANGED vars

Next == Tick \/ (\E s \in Scrapes : Step(s)) \/ Finished

Spec == Init /\ [][Next]_vars

\* A running goroutine takes its next step; an execution ends by its deadline.
\* A scrape need not be started.
Fairness == \A s \in Scrapes : WF_vars(pc[s] # "idle" /\ Step(s))

FairSpec == Spec /\ Fairness

-----------------------------------------------------------------------------
(* Properties.                                                             *)

Times == 0..MaxTime

TypeOK ==
    /\ now \in 1..MaxTime
    /\ mu \in Scrapes \cup {NoScrape}
    /\ cache \in [switches : Times, hcas : Times, refresh : Times]
    /\ totals \in [errors : Nat, timeouts : Nat]
    /\ pc \in [Scrapes -> PCs]
    /\ loc \in [Scrapes -> [fresh : BOOLEAN, sw : Times, hc : Times, begin : Times]]
    /\ result \in [Scrapes -> {"none", "ok", "failed"}]

\* The switch list and the HCA list a scrape is given come from one execution:
\* they are two pointers, kept consistent by the mutex alone, and the switch
\* and HCA collectors label their series from them.  Neither is ever nil.
WholeTopology ==
    \A s \in Scrapes : result[s] = "ok" => loc[s].sw = loc[s].hc /\ loc[s].sw # 0

\* What GetPorts promises: one answer per call, with the fabric as it was at
\* most TTL + RunTime ago.  The stored time is the end of an execution, whose
\* data may be as old as its start.
Promise == INSTANCE StaleSource WITH
    Clients <- Scrapes,
    Bound <- TTL + RunTime,
    status <- result,
    asOf <- [s \in Scrapes |-> IF result[s] = "ok" THEN loc[s].sw ELSE 0]
PromiseKept == Promise!Spec

\* Every call of GetPorts returns, however many others run.
Answered == \A s \in Scrapes : pc[s] # "idle" ~> pc[s] = "done"
=============================================================================
