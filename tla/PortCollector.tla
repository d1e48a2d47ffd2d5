---------------------------- MODULE PortCollector ----------------------------
(***************************************************************************)
(* The perfquery collectors: SwitchCollector and HCACollector run the same *)
(* algorithm over their own device list (collectors/switch.go, hca.go),    *)
(* and both query devices through perfqueryWithRetry (perfquery.go).       *)
(*                                                                         *)
(* A scrape s is one call of Collect.  Its dispatcher goroutine walks the  *)
(* device slice; for each device it sends a token into the buffered        *)
(* channel limit, adds one to the wait group and starts a worker.  The     *)
(* worker queries the base counters, optionally the receive-error counters *)
(* of every port it found, appends what it parsed to the shared slice      *)
(* under countersLock, stores its SwitchMetrics, and in its deferred       *)
(* function takes a token back and signals the wait group.  The dispatcher *)
(* waits for all workers and emits.  Scrapes overlap freely: every HTTP    *)
(* request builds its own collector, and only the package-level totals are *)
(* shared between them.                                                    *)
(*                                                                         *)
(* The values of counters, names, durations and labels are abstracted; a   *)
(* series is identified by <<device, port, call>>.                         *)
(***************************************************************************)
EXTENDS Integers, FiniteSets, FiniteSetsExt

CONSTANTS
    Scrapes,          \* calls of Collect, sequential or overlapping
    N,                \* length of the device slice; device d is its d-th entry
    PortsOf,          \* PortsOf[d]: the ports in device d's Uplinks
    MaxConcurrent,    \* --perfquery.max-concurrent, the capacity of limit
    MaxRetries,       \* --perfquery.retries
    MaxParseErrors,   \* bound: parse errors perfqueryParse reports per output
    CollectBase,      \* --collector.switch.base-metrics
    CollectRcvErr     \* --collector.switch.rcv-err-details

Devices == 1..N
AllPorts == UNION {PortsOf[d] : d \in Devices}

\* A call is the base query of all ports, or the -E query of one port.
Base == "base"
Calls == {Base} \cup AllPorts

ASSUME CountsAssumption ==
    /\ N \in Nat
    /\ MaxConcurrent \in Nat
    /\ MaxRetries \in Nat
    /\ MaxParseErrors \in Nat
ASSUME FlagsAssumption == CollectBase \in BOOLEAN /\ CollectRcvErr \in BOOLEAN
ASSUME PortsAssumption == Base \notin AllPorts

VARIABLES
    disp,      \* disp[s]: where s's dispatcher is
    next,      \* next[s]: the device its loop is at
    limit,     \* limit[s]: tokens in the channel limit
    wg,        \* wg[s]: the wait group's counter
    mu,        \* mu[s]: the worker that holds countersLock, 0 if none
    counters,  \* counters[s]: the series appended so far
    metrics,   \* metrics[s][d]: the map entry, the zero value when absent
    pc,        \* pc[s][d]: where the worker of device d is
    loc,       \* loc[s][d]: the worker's local variables
    totals,    \* the package-level atomics errors, timeouts, retries
    out,       \* out[s]: what Collect has sent to the registry
    hist       \* history: hist[s][d] records the results of d's executions

shared == <<limit, wg, mu, counters, metrics, totals>>
vars == <<disp, next, limit, wg, mu, counters, metrics, pc, loc, totals, out, hist>>

Results == {"ok", "error", "timeout"}
DispPCs == {"idle", "loop", "launch", "emit", "errors", "timeouts", "retries", "done"}
WorkerPCs == {"idle", "exec", "account", "classify", "lock", "append", "next",
              "store", "release", "signal", "done"}

\* The pcs between the dispatcher's `limit <- 1` and the worker's `<-limit`.
Holding == WorkerPCs \ {"idle", "signal", "done"}
\* The pcs between wg.Add(1) and wg.Done().
Live == Holding \cup {"signal"}

\* SwitchMetrics / HCAMetrics: the four outcome flags (durations abstracted).
ZeroMetric == [error |-> 0, timeout |-> 0, rcvErrError |-> 0, rcvErrTimeout |-> 0]
Metric == [error : 0..1, timeout : 0..1, rcvErrError : 0..1, rcvErrTimeout : 0..1]

\* The worker's locals: the call in progress, its retries so far, its result
\* with the ports and the number of errors perfqueryParse returned, the ports
\* whose -E query is still to come, the metric being built, and the slice read
\* under the lock.  They are reset where they go out of use.
NoLocals == [call |-> Base, attempts |-> 0, result |-> "ok", found |-> {}, errs |-> 0,
             todo |-> {}, metric |-> ZeroMetric, buf |-> {}]

NoHist == [base |-> "none", rcv |-> {}, parsed |-> {}, failed |-> 0, timeouts |-> 0, parse |-> 0]
NoOut == [up |-> <<>>, rcvErrError |-> <<>>, rcvErrTimeout |-> <<>>, counters |-> {},
          errors |-> 0, timeouts |-> 0, retries |-> 0]

Init ==
    /\ disp = [s \in Scrapes |-> "idle"]
    /\ next = [s \in Scrapes |-> 1]
    /\ limit = [s \in Scrapes |-> 0]
    /\ wg = [s \in Scrapes |-> 0]
    /\ mu = [s \in Scrapes |-> 0]
    /\ counters = [s \in Scrapes |-> {}]
    /\ metrics = [s \in Scrapes |-> [d \in Devices |-> ZeroMetric]]
    /\ pc = [s \in Scrapes |-> [d \in Devices |-> "idle"]]
    /\ loc = [s \in Scrapes |-> [d \in Devices |-> NoLocals]]
    /\ totals = [errors |-> 0, timeouts |-> 0, retries |-> 0]
    /\ out = [s \in Scrapes |-> NoOut]
    /\ hist = [s \in Scrapes |-> [d \in Devices |-> NoHist]]

-----------------------------------------------------------------------------
(* The dispatcher: the loop of collect(), then the rest of Collect().      *)

Start(s) ==
    /\ disp[s] = "idle"
    /\ disp' = [disp EXCEPT ![s] = "loop"]
    /\ UNCHANGED <<next, pc, loc, out, hist, shared>>

\* limit <- 1 blocks while the channel is full.
LimitIgnored(s) == TRUE  \* mutant: no limit
LimitFree(s) == limit[s] < MaxConcurrent

Acquire(s) ==
    /\ disp[s] = "loop"
    /\ next[s] <= N
    /\ LimitFree(s)
    /\ limit' = [limit EXCEPT ![s] = @ + 1]
    /\ disp' = [disp EXCEPT ![s] = "launch"]
    /\ UNCHANGED <<next, wg, mu, counters, metrics, pc, loc, totals, out, hist>>

\* wg.Add(1) and the go statement.
Launch(s) ==
    /\ disp[s] = "launch"
    /\ wg' = [wg EXCEPT ![s] = @ + 1]
    /\ pc' = [pc EXCEPT ![s][next[s]] = "exec"]
    /\ next' = [next EXCEPT ![s] = @ + 1]
    /\ disp' = [disp EXCEPT ![s] = "loop"]
    /\ UNCHANGED <<limit, mu, counters, metrics, loc, totals, out, hist>>

\* The wait group, not the channel, says that the workers have ended.
TokensBack(s) == limit[s] = 0  \* mutant: waits for the tokens
WorkersDone(s) == wg[s] = 0

\* wg.Wait() returns; collect() returns the slice and the map.
WaitAll(s) ==
    /\ disp[s] = "loop"
    /\ next[s] > N
    /\ WorkersDone(s)
    /\ disp' = [disp EXCEPT ![s] = "emit"]
    /\ UNCHANGED <<next, pc, loc, out, hist, shared>>

\* The per-port and per-device series Collect sends.
Emit(s) ==
    /\ disp[s] = "emit"
    /\ out' = [out EXCEPT ![s] =
         [@ EXCEPT !.counters = counters[s],
            !.up = [d \in {x \in Devices : CollectBase} |->
                       1 - metrics[s][d].error - metrics[s][d].timeout],
            !.rcvErrError = [d \in {x \in Devices : CollectRcvErr} |-> metrics[s][d].rcvErrError],
            !.rcvErrTimeout = [d \in {x \in Devices : CollectRcvErr} |-> metrics[s][d].rcvErrTimeout]]]
    /\ disp' = [disp EXCEPT ![s] = "errors"]
    /\ UNCHANGED <<next, pc, loc, hist, shared>>

\* The three counters are loaded one after the other.
LoadTotal(s, name, then) ==
    /\ disp[s] = name
    /\ out' = [out EXCEPT ![s] = [@ EXCEPT ![name] = totals[name]]]
    /\ disp' = [disp EXCEPT ![s] = then]
    /\ UNCHANGED <<next, pc, loc, hist, shared>>

LoadTotals(s) ==
    \/ LoadTotal(s, "errors", "timeouts")
    \/ LoadTotal(s, "timeouts", "retries")
    \/ LoadTotal(s, "retries", "done")

-----------------------------------------------------------------------------
(* perfqueryWithRetry, as called by the worker of device d.                *)

Goto(s, d, label) == pc' = [pc EXCEPT ![s][d] = label]

\* The ports a call asks for.
Requested(s, d) == IF loc[s][d].call = Base THEN PortsOf[d] ELSE {loc[s][d].call}

\* PerfqueryExec succeeds; perfqueryParse will find some of the ports and
\* report some errors.
ExecOk(s, d) ==
    /\ pc[s][d] = "exec"
    /\ \E Q \in SUBSET Requested(s, d), e \in 0..MaxParseErrors :
         /\ loc' = [loc EXCEPT ![s][d] = [@ EXCEPT !.result = "ok", !.found = Q, !.errs = e]]
         /\ hist' = [hist EXCEPT ![s][d].parse = @ + e]
    /\ Goto(s, d, "account")
    /\ UNCHANGED <<disp, next, out, shared>>

\* The attempt's own deadline expired: returned at once, never retried.
ExecTimeout(s, d) ==
    /\ pc[s][d] = "exec"
    /\ loc' = [loc EXCEPT ![s][d].result = "timeout"]
    /\ hist' = [hist EXCEPT ![s][d].timeouts = @ + 1]
    /\ Goto(s, d, "account")
    /\ UNCHANGED <<disp, next, out, shared>>

OneTooMany(s, d) == loc[s][d].attempts <= MaxRetries  \* mutant: off by one
RetriesLeft(s, d) == loc[s][d].attempts < MaxRetries

\* Any other error: retried after a delay while retries are left.
ExecError(s, d) ==
    /\ pc[s][d] = "exec"
    /\ hist' = [hist EXCEPT ![s][d].failed = @ + 1]
    /\ IF RetriesLeft(s, d)
         THEN /\ loc' = [loc EXCEPT ![s][d].attempts = @ + 1]
              /\ pc' = pc
         ELSE /\ loc' = [loc EXCEPT ![s][d].result = "error"]
              /\ Goto(s, d, "account")
    /\ UNCHANGED <<disp, next, out, shared>>

-----------------------------------------------------------------------------
(* The worker's body after perfqueryWithRetry returned.                    *)

\* The totals are atomic: Add, never Store.
Stored(name, n) == [totals EXCEPT ![name] = n]  \* mutant: Store
Added(name, n) == [totals EXCEPT ![name] = @ + n]

\* switchRetriesTotal.Add(retries)
Account(s, d) ==
    /\ pc[s][d] = "account"
    /\ totals' = Added("retries", loc[s][d].attempts)
    /\ loc' = [loc EXCEPT ![s][d].attempts = 0]
    /\ Goto(s, d, "classify")
    /\ UNCHANGED <<disp, next, limit, wg, mu, counters, metrics, out, hist>>

\* The base query failed: the flag is set in the local metric, the total is
\* incremented, and the worker returns without storing the metric.
BaseFailed(s, d) ==
    /\ pc[s][d] = "classify"
    /\ loc[s][d].call = Base
    /\ \/ /\ loc[s][d].result = "timeout"
          /\ totals' = Added("timeouts", 1)
          /\ loc' = [loc EXCEPT ![s][d].metric.timeout = 1]
       \/ /\ loc[s][d].result = "error"
          /\ totals' = Added("errors", 1)
          /\ loc' = [loc EXCEPT ![s][d].metric.error = 1]
    /\ hist' = [hist EXCEPT ![s][d].base = loc[s][d].result]
    /\ Goto(s, d, "release")
    /\ UNCHANGED <<disp, next, limit, wg, mu, counters, metrics, out>>

\* A -E query failed: the flag stays in the metric, the loop goes on.
RcvErrFailed(s, d) ==
    /\ pc[s][d] = "classify"
    /\ loc[s][d].call # Base
    /\ \/ /\ loc[s][d].result = "timeout"
          /\ totals' = Added("timeouts", 1)
          /\ loc' = [loc EXCEPT ![s][d].metric.rcvErrTimeout = 1]
       \/ /\ loc[s][d].result = "error"
          /\ totals' = Added("errors", 1)
          /\ loc' = [loc EXCEPT ![s][d].metric.rcvErrError = 1]
    /\ hist' = [hist EXCEPT ![s][d].rcv = @ \cup {loc[s][d].result}]
    /\ Goto(s, d, "next")
    /\ UNCHANGED <<disp, next, limit, wg, mu, counters, metrics, out>>

\* perfqueryParse: its error count goes into the total; a base result is
\* appended only when base metrics are on, and selects the ports to query.
Parsed(s, d) ==
    LET l == loc[s][d]
        h == hist[s][d] IN
    /\ pc[s][d] = "classify"
    /\ l.result = "ok"
    /\ totals' = Added("errors", l.errs)
    /\ IF l.call = Base
         THEN /\ loc' = [loc EXCEPT ![s][d].todo = IF CollectRcvErr THEN l.found ELSE {}]
              /\ hist' = [hist EXCEPT ![s][d] = [@ EXCEPT !.base = "ok",
                            !.parsed = {<<p, Base>> : p \in {x \in l.found : CollectBase}}]]
              /\ Goto(s, d, IF CollectBase THEN "lock" ELSE "next")
         ELSE /\ loc' = loc
              /\ hist' = [hist EXCEPT ![s][d] = [h EXCEPT !.rcv = h.rcv \cup {"ok"},
                            !.parsed = h.parsed \cup {<<p, l.call>> : p \in l.found}]]
              /\ Goto(s, d, "lock")
    /\ UNCHANGED <<disp, next, limit, wg, mu, counters, metrics, out>>

LockIgnored(s) == TRUE  \* mutant: append without the lock
LockFree(s) == mu[s] = 0

\* countersLock.Lock(), and the read of the slice that append starts with.
Lock(s, d) ==
    /\ pc[s][d] = "lock"
    /\ LockFree(s)
    /\ mu' = [mu EXCEPT ![s] = d]
    /\ loc' = [loc EXCEPT ![s][d].buf = counters[s]]
    /\ Goto(s, d, "append")
    /\ UNCHANGED <<disp, next, limit, wg, counters, metrics, totals, out, hist>>

\* The assignment of append's result, and countersLock.Unlock().
Append(s, d) ==
    LET l == loc[s][d] IN
    /\ pc[s][d] = "append"
    /\ counters' = [counters EXCEPT ![s] = l.buf \cup {<<d, p, l.call>> : p \in l.found}]
    /\ mu' = [mu EXCEPT ![s] = 0]
    /\ loc' = [loc EXCEPT ![s][d] = [@ EXCEPT !.buf = {}, !.found = {}, !.errs = 0]]
    /\ Goto(s, d, "next")
    /\ UNCHANGED <<disp, next, limit, wg, metrics, totals, out, hist>>

\* mutant: the metric is rebuilt for every port
NextPortFresh(s, d) ==
    /\ pc[s][d] = "next"
    /\ \E p \in loc[s][d].todo :
         loc' = [loc EXCEPT ![s][d] =
                    [loc[s][d] EXCEPT !.call = p, !.todo = loc[s][d].todo \ {p}, !.metric = ZeroMetric]]
    /\ Goto(s, d, "exec")
    /\ UNCHANGED <<disp, next, out, hist, shared>>

\* The loop over deviceCounters, in the random order of a Go map.
NextPort(s, d) ==
    /\ pc[s][d] = "next"
    /\ \E p \in loc[s][d].todo :
         loc' = [loc EXCEPT ![s][d] =
                    [loc[s][d] EXCEPT !.call = p, !.todo = loc[s][d].todo \ {p}]]
    /\ Goto(s, d, "exec")
    /\ UNCHANGED <<disp, next, out, hist, shared>>

NoMorePorts(s, d) ==
    /\ pc[s][d] = "next"
    /\ loc[s][d].todo = {}
    /\ Goto(s, d, "store")
    /\ UNCHANGED <<disp, next, loc, out, hist, shared>>

\* metrics[device.GUID] = metric, under countersLock.
Store(s, d) ==
    /\ pc[s][d] = "store"
    /\ LockFree(s)
    /\ metrics' = [metrics EXCEPT ![s][d] = loc[s][d].metric]
    /\ Goto(s, d, "release")
    /\ UNCHANGED <<disp, next, limit, wg, mu, counters, loc, totals, out, hist>>

\* mutant: an early return that does not take the token back
ReleaseOnSuccess(s, d) ==
    /\ pc[s][d] = "release"
    /\ limit' = [limit EXCEPT ![s] = IF hist[s][d].base = "ok" THEN @ - 1 ELSE @]
    /\ loc' = [loc EXCEPT ![s][d] = NoLocals]
    /\ Goto(s, d, "signal")
    /\ UNCHANGED <<disp, next, wg, mu, counters, metrics, totals, out, hist>>

\* The deferred function: <-limit, then wg.Done().
Release(s, d) ==
    /\ pc[s][d] = "release"
    /\ limit' = [limit EXCEPT ![s] = @ - 1]
    /\ loc' = [loc EXCEPT ![s][d] = NoLocals]
    /\ Goto(s, d, "signal")
    /\ UNCHANGED <<disp, next, wg, mu, counters, metrics, totals, out, hist>>

Signal(s, d) ==
    /\ pc[s][d] = "signal"
    /\ wg' = [wg EXCEPT ![s] = @ - 1]
    /\ Goto(s, d, "done")
    /\ UNCHANGED <<disp, next, limit, mu, counters, metrics, loc, totals, out, hist>>

-----------------------------------------------------------------------------
Dispatch(s) == Start(s) \/ Acquire(s) \/ Launch(s) \/ WaitAll(s) \/ Emit(s) \/ LoadTotals(s)

Exec(s, d) == ExecOk(s, d) \/ ExecTimeout(s, d) \/ ExecError(s, d)

Work(s, d) ==
    \/ Exec(s, d) \/ Account(s, d)
    \/ BaseFailed(s, d) \/ RcvErrFailed(s, d) \/ Parsed(s, d)
    \/ Lock(s, d) \/ Append(s, d) \/ NextPort(s, d) \/ NoMorePorts(s, d)
    \/ Store(s, d) \/ Release(s, d) \/ Signal(s, d)

AllDone == \A s \in Scrapes : disp[s] = "done"

\* Every scrape has been answered: nothing is left to do.
Finished == AllDone /\ UNCHANGED vars

Next ==
    \/ \E s \in Scrapes : Dispatch(s) \/ \E d \in Devices : Work(s, d)
    \/ Finished

Spec == Init /\ [][Next]_vars

\* A started goroutine that can run is eventually run (the Go scheduler), and
\* an execution ends because its context has a deadline.  A scrape need not
\* start.
Fairness ==
    \A s \in Scrapes :
        /\ WF_vars(Acquire(s) \/ Launch(s) \/ WaitAll(s) \/ Emit(s) \/ LoadTotals(s))
        /\ \A d \in Devices : WF_vars(Work(s, d))

FairSpec == Spec /\ Fairness

-----------------------------------------------------------------------------
(* Type invariant.                                                         *)

Series == Devices \X AllPorts \X Calls

Locals == [call : Calls, attempts : 0..MaxRetries, result : Results,
           found : SUBSET AllPorts, errs : 0..MaxParseErrors, todo : SUBSET AllPorts,
           metric : Metric, buf : SUBSET Series]

History == [base : Results \cup {"none"}, rcv : SUBSET Results,
            parsed : SUBSET (AllPorts \X Calls), failed : Nat, timeouts : Nat, parse : Nat]

Gauges(V) == [Devices -> V] \cup [{} -> V]

Output == [up : Gauges(-1..1), rcvErrError : Gauges(0..1), rcvErrTimeout : Gauges(0..1),
           counters : SUBSET Series, errors : Nat, timeouts : Nat, retries : Nat]

\* Every variable has its type; in particular the channel never holds more
\* than its capacity, the wait group is never negative (Go panics), and a call
\* never uses more than --perfquery.retries retries.
PoolTypeOK ==
    /\ disp \in [Scrapes -> DispPCs]
    /\ next \in [Scrapes -> 1..N+1]
    /\ limit \in [Scrapes -> 0..MaxConcurrent]
    /\ wg \in [Scrapes -> 0..N]
    /\ mu \in [Scrapes -> 0..N]
    /\ counters \in [Scrapes -> SUBSET Series]
    /\ metrics \in [Scrapes -> [Devices -> Metric]]
    /\ pc \in [Scrapes -> [Devices -> WorkerPCs]]
    /\ loc \in [Scrapes -> [Devices -> Locals]]
    /\ totals \in [errors : Nat, timeouts : Nat, retries : Nat]
    /\ out \in [Scrapes -> Output]
    /\ hist \in [Scrapes -> [Devices -> History]]

-----------------------------------------------------------------------------
(* Safety.                                                                 *)

At(s, labels) == {d \in Devices : pc[s][d] \in labels}
Returned(s) == disp[s] \in {"emit", "errors", "timeouts", "retries", "done"}
Emitted(s) == disp[s] \in {"errors", "timeouts", "retries", "done"}

\* One collect() never runs more perfquery processes at a time than
\* --perfquery.max-concurrent: the token a worker's dispatcher sent into limit
\* stays there until the worker's deferred function takes it back.
PerfqueryBudget ==
    \A s \in Scrapes : Cardinality(At(s, {"exec"})) <= MaxConcurrent

\* The help of --perfquery.max-concurrent, "Max number of concurrent perfquery
\* executions", and docs/operations.md, "the switch and HCA collectors fan out
\* within this concurrency budget": one budget for all collectors.  Here s
\* ranges over the two collectors of one request, or those of several.
SharedBudget ==
    Cardinality({w \in Scrapes \X Devices : pc[w[1]][w[2]] = "exec"}) <= MaxConcurrent

\* Once collect() returned, all of its workers have ended: Collect reads the
\* slice and the map without countersLock, which is safe only if no worker can
\* still write them.
QuietAfterWait ==
    \A s \in Scrapes : Returned(s) => At(s, {"done"}) = Devices

\* No append is lost and none is invented: what Collect emits is exactly what
\* the workers parsed, for every interleaving of their appends to the slice.
NoLostSeries ==
    \A s \in Scrapes : Emitted(s) =>
        out[s].counters = {c \in Series : <<c[2], c[3]>> \in hist[s][c[1]].parsed}

Workers == Scrapes \X Devices
Launched == {w \in Workers : pc[w[1]][w[2]] # "idle"}

\* What has happened to each worker's executions.
TimedOut == [w \in Workers |-> hist[w[1]][w[2]].timeouts]
Failed == [w \in Workers |-> hist[w[1]][w[2]].failed + hist[w[1]][w[2]].parse]

\* Results a worker has but has not added to the totals yet.
PendingTimeouts == [w \in Workers |->
    IF pc[w[1]][w[2]] \in {"account", "classify"} /\ loc[w[1]][w[2]].result = "timeout"
      THEN 1 ELSE 0]
PendingErrors == [w \in Workers |->
    LET l == loc[w[1]][w[2]]
        at == pc[w[1]][w[2]] IN
    (IF at \in {"exec", "account"} THEN l.attempts ELSE 0)
    + CASE at \in {"account", "classify"} /\ l.result = "error" -> 1
        [] at \in {"account", "classify"} /\ l.result = "ok" -> l.errs
        [] OTHER -> 0]

\* The process-wide totals lose nothing and count nothing twice, across all
\* overlapping scrapes: every timed-out execution is one timeout, and every
\* failed execution is either one retry or one error, next to the parse errors.
FailuresCounted ==
    /\ totals.timeouts + SumFunctionOnSet(PendingTimeouts, Launched)
         = SumFunctionOnSet(TimedOut, Launched)
    /\ totals.errors + totals.retries + SumFunctionOnSet(PendingErrors, Launched)
         = SumFunctionOnSet(Failed, Launched)

\* The totals a scrape emits include every failure of that scrape, although
\* other scrapes add to them between its three loads.
OwnFailuresEmitted ==
    \A s \in Scrapes : disp[s] = "done" =>
        /\ out[s].timeouts >= SumFunctionOnSet(TimedOut, {s} \X Devices)
        /\ out[s].errors + out[s].retries >= SumFunctionOnSet(Failed, {s} \X Devices)

\* The receive-error gauges of a device say 1 exactly when one of its ports'
\* -E queries timed out (failed) in this scrape, whatever the later ports did.
RcvErrGaugesExact ==
    \A s \in Scrapes : Emitted(s) =>
        \A d \in DOMAIN out[s].rcvErrError :
            /\ out[s].rcvErrTimeout[d] = 1 <=> "timeout" \in hist[s][d].rcv
            /\ out[s].rcvErrError[d] = 1 <=> "error" \in hist[s][d].rcv

\* The HELP text of infiniband_switch_up and infiniband_hca_up: "1 if the
\* latest perfquery scrape of this switch succeeded, 0 otherwise".
UpReflectsQuery ==
    \A s \in Scrapes : Emitted(s) =>
        \A d \in DOMAIN out[s].up : out[s].up[d] = IF hist[s][d].base = "ok" THEN 1 ELSE 0

-----------------------------------------------------------------------------
(* Liveness.                                                               *)

\* Every scrape that starts is answered: no worker keeps its token, and the
\* dispatcher never waits for a worker that does not signal.  (MaxConcurrent > 0:
\* a capacity of 0 makes limit <- 1 block forever.)
ScrapeCompletes ==
    \A s \in Scrapes : disp[s] # "idle" ~> disp[s] = "done"
=============================================================================
