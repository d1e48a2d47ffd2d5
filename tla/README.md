# Verification of infiniband_exporter in TLA+

`infiniband_exporter` is a Prometheus exporter for InfiniBand fabrics.  It runs
the command-line tools `ibnetdiscover`, `perfquery` and (optionally) `ibswinfo`,
parses what they print, and publishes it, either over HTTP (one collection per
request) or into a file that node_exporter reads (one collection per process,
started by cron).  This directory models the parts of it that hold state or take
decisions, checks them with TLC and proves most of their safety with TLAPS.

Paths are relative to the repository: `collectors/switch.go` is
`src/collectors/switch.go`.

## 1. Inventory

| Component | State it keeps | Operations | Module |
| --- | --- | --- | --- |
| Switch and HCA collectors (`collectors/switch.go`, `hca.go`, `perfquery.go`) | per scrape: token channel, wait group, mutex, counter slice, metrics map; per process: three atomic totals each | `Collect`, `collect`, `perfqueryWithRetry` | `PortCollector` |
| perfquery parser (`perfquery.go`) | none | `perfqueryParse` | `PerfqueryParse` |
| Series tables (`port_counters.go`) | constants | `emitPortCounters` | `PerfqueryParse` |
| Topology and its cache (`collectors/ibnetdiscover.go`) | per process: two lists and a time under a mutex; two totals | `GetPorts` | `TopologyCache` (implements `StaleSource`) |
| ibnetdiscover parser (same file) | none | `ibnetdiscoverParse`, `parseRate`, `parseNames` | `NetDiscoverParse` |
| ibswinfo collector and static cache (`collectors/ibswinfo.go`) | per scrape: as the port collectors; per process: a `sync.Map` by GUID; two totals | `Collect`, `collect`, `useVitalsForGUID`, eviction | `SwinfoCollector` (implements `StaleSource`) |
| ibswinfo parsers (same file) | none | `parse_ibswinfo`, `parseIbswinfoVitals`, merge | `SwinfoParse` |
| Process groups (`collectors/exec.go`) | a process group, a pipe and a watcher goroutine per execution | `runWithProcessGroup`, `Cancel`, the callers' use of `ctx.Err()` | `ProcGroup` |
| HTTP exposition (`infiniband_exporter.go`) | a registry per request | `metricsHandler`, `setupGathers` | `Exporter`, in part |
| Textfile mode (`infiniband_exporter.go`) | lock file, two temporary files, output file | `run`, `writeMetrics` | `RunOnce` |
| Flags, descriptors, version, logging (`collectors.go`) | constants | | not modelled |

How they interact.  Each HTTP request builds a new registry: it calls `GetPorts`
(cache hit, or one `ibnetdiscover`), then registers a switch, an HCA and an
ibswinfo collector over the returned device lists, and the registry gathers them
in parallel goroutines.  Each collector starts one worker per device, bounded by
a channel of tokens, and each worker runs external processes, each in a process
group of its own.  Requests overlap freely: what they share are the
package-level caches and totals, and the host's process numbers.  In textfile
mode one process does this once, behind a file lock.

What is hard here.  Interleavings of dispatcher and workers around three
primitives (channel, wait group, mutex); early returns between acquiring and
releasing; totals and caches shared by requests that overlap; data that is older
than the time it is stamped with; queries by an address that has meanwhile been
given to another switch; executions that fail, time out, leave descendants
behind or print something unexpected; a kill that races a process's own end;
processes killed between two file operations; parsers whose meaning of a line
depends on earlier lines.

What makes each component correct: the pool stays in its bound, returns, and
loses nothing (`PortCollector`); cached data is whole and of bounded age
(`TopologyCache`, `SwinfoCollector`), and under the right name, or soon again
(`Exporter`); what is not published is counted (both collectors); a deadline
ends a whole process group and is reported as a timeout (`ProcGroup`); the
installed file is whole and never goes back (`RunOnce`); each value is attributed
to the port, device or power supply it was printed for (the parsers).  The
individual hazards, each at its line, are in `PROJECT.json`.

## 2. Modules

`PortCollector` models one algorithm that `switch.go` and `hca.go` both contain.
A scrape is one call of `Collect`; any number overlap.  The dispatcher is `disp`,
`next`; a worker is `pc[s][d]`, with its local variables in `loc`.

| Code | Actions |
| --- | --- |
| `limit <- 1` / `wg.Add(1); go` / `wg.Wait()` | `Acquire`, `Launch`, `WaitAll` |
| `perfqueryWithRetry` | `ExecOk`, `ExecTimeout`, `ExecError` (retries in place) |
| `switchRetriesTotal.Add` | `Account` |
| failed base query, early return | `BaseFailed` |
| failed `-E` query of a port | `RcvErrFailed` |
| `perfqueryParse`, `switchErrorsTotal.Add(errs)` | `Parsed` |
| `countersLock.Lock(); append; Unlock` | `Lock` (with the read of the slice), `Append` |
| loop over `deviceCounters` | `NextPort`, `NoMorePorts` |
| `metrics[device.GUID] = metric` | `Store` |
| deferred `<-limit`, `wg.Done()` | `Release`, `Signal` |
| rest of `Collect` | `Emit`, `LoadTotals` (three separate atomic loads) |

A series is `<<device, port, call>>`; values, labels and durations are
abstracted.  `hist` is a history variable: what each worker's executions returned.

`StaleSource` is an abstract specification: clients are answered once, with a
failure or with a snapshot at most `Bound` old.  `TopologyCache` and
`SwinfoCollector` implement it (`PromiseKept`), with bounds `TTL + RunTime` and
`TTL + 2 * RunTime`.

`TopologyCache` is `GetPorts` step by step: lock, the reads of `refresh`,
`switches` and `hcas`, unlock, the read of `refresh` by the log statement that
follows (`LogAge`, outside the lock), the execution, lock, three writes, unlock.
A device list is the time at which the fabric looked like that, so torn and stale
data show.  The clock advances only while all active calls are executing.

`SwinfoCollector` is the ibswinfo pool at the grain of whole workers, with the
static cache at full grain: `Check` (the copy of the entry), the two kinds of
execution, `Store`, `Append`, and the `Range`/`Delete` of `Evict`, which may or
may not see keys stored after it started, as `sync.Map` documents.

`Exporter` extends `SwinfoCollector` to whole requests.  `setupGathers` is
`Discover` (an answer of `GetPorts`, taken by what is proved of `TopologyCache`:
at most `TopologyAge` old) or `DiscoverFailed`, after which no collector is
registered.  Each of the collector's actions gets a conjunct that says whose data
moves: a switch is asked by the LID of the request's topology and published under
its GUID, and at `RenumberedAt` the subnet manager deals the LIDs again.
`reader`, `owner` and `origin` follow readings, identifiers and cached fields.

`ProcGroup` is `runWithProcessGroup` for concurrent executions: the leader, its
descendants (which fork, exit, leave the group, close the pipe), the watcher
goroutine and `cmd.Wait` of os/exec, `Cancel`'s kill by group number, process
numbers that are given out again, and what the three callers make of `err` and
`ctx.Err()`.

| Code | Actions |
| --- | --- |
| `cmd.Start`, its failures | `Start`, `StartExpired`, `StartFailed` |
| watcher: deadline, `syscall.Kill(-pid)` and its errors | `Fire`, `Kill`, `KillFails` |
| `cmd.Wait`: reap, meet the watcher, wait for the copiers | `Reap`, `Dismiss`, `Report`, `Copied` |
| `ctx.Err() == DeadlineExceeded`, `err != nil` | `Check` (`Outcome`) |
| the processes and the clock | `LeaderExit`, `Fork`, `KidStep`, `Expire` |

What of these is the standard library or the kernel is marked external in
`PROJECT.json`.

`RunOnce` is `run` and `writeMetrics`.  Start, `TryLock` or `Decline`, `Create`,
`Collect`, the five steps of `prometheus.WriteToTextfile` (external: a second
temporary file, renamed over the first), `Install`, `DropFirst`, `Exit`.  `Fail`
is every error return; `Kill` may happen anywhere, and only the kernel's release
of the lock follows it.

`PerfqueryParse`, `NetDiscoverParse` and `SwinfoParse` are the parsers as folds
over lines that are already split and classified; each also holds an independent
definition of what the text says (by the positions of its lines, or from the
switch the text describes).  `PerfqueryParse` goes on to what `emitPortCounters` sends
of a device's base and `-E` outputs.  `MCParsers` enumerates the texts.

`MCPortCollector`, `MCExporter`, `MCProcGroup` and `MCRunOnce` give the constants
that are functions their values.  The modules ending in `Proofs` hold the
theorems (section 5).

Operators commented "mutant" are bugs planted to see that a property notices
them; no specification uses them.

## 3. Runs

| Run | Question | Bounds |
| --- | --- | --- |
| `PortCollector` | Does one pool stay in its bound, lose nothing, return, and always end? | 3 devices (the first with 2 ports), 2 tokens, base and `-E` queries, no retries |
| `PortCollectorOverlap` | Do overlapping scrapes count every failure once? | 2 scrapes (symmetric), 1 device, 1 retry, 1 parse error per output |
| `TopologyCache` | Is a served topology whole, young enough, and every call answered? | 3 calls, TTL 2, executions up to 1, clock up to 5 |
| `Exporter` | Are switches published under their own name and from a bounded cache, whatever the topologies' ages? | 2 requests, 2 switches, one of them in one topology only, 1 token, LIDs swapped at time 2, TTL 2, clock up to 7 |
| `ProcGroup` | Does the deadline end what it should, and is the outcome classified rightly? | 2 executions, 2 and 1 descendants at a time, 2 process numbers, one execution not killable |
| `RunOnce` | Is the output always whole and never older, after any kill? | 3 processes, 2 outputs, one lock |
| `Parsers` | Are values attributed to what they were printed for, and sent once? | perfquery and ibnetdiscover texts up to 4 lines of 12 and 13 kinds; 23 328 switches with 2 power supplies and 1 fan, 7 776 more with a power supply of a two-digit number |
| `PortCollectorUp` (violation) | Is `up` 0 after a failed query? | 2 devices |
| `PortCollectorShared` (violation) | Is the budget one for all collectors? | 2 collectors, 2 devices, 2 tokens |
| `ProcGroupOwn` (violation) | Does a kill only ever reach its own group? | as `ProcGroup` |
| `RunOnceLastExecution` (violation) | Does `last_execution` say success? | 2 processes |
| `ParsersShort` (violation) | Are short lines skipped? | texts up to 3 lines |

Why the bounds suffice.  Three devices on two tokens make the dispatcher block,
release and block again, and let two workers race in each critical section; the
device with two ports goes round the loop over ports twice, and a query that finds
no port leaves it empty.  Retries and parse errors matter to the totals only, and
are in the overlap run.  With TTL 2 and a clock of 5 an entry is stored, hit,
expired and stored again, with a third caller in between.  In `Exporter` the
second request can use what the first one stored under a wrong name; with one
token the dispatcher of the request for two switches waits for its first worker,
so their executions follow each other; the bound of `ForeignBounded` comes to 6
with these constants, is reached, and the clock goes beyond it.  More workers of
one request at once are in `PortCollector`'s runs, and in the proofs.  Two executions in `ProcGroup` are the one that kills and the one that
was given its number; two descendants are one inside and one outside of the group,
or one that forks the other; and each outcome of a kill occurs, as the second
execution's processes may not be signalled.  Three processes in `RunOnce` are the
two that overlap and one that finds what they left.  The perfquery and
ibnetdiscover parsers look back at one earlier line at a time (the last selection,
the last line about a device), so texts of four lines contain each such pair with
other lines between and around it.  Deadlock is checked in every run but those of
the parsers, which end when the text has its full length.

What is checked of each component:

- `PerfqueryBudget`, `QuietAfterWait`, `NoLostSeries`, `RcvErrGaugesExact`,
  `ScrapeCompletes`: the pool.  `FailuresCounted`, `OwnFailuresEmitted`: totals.
- `WholeTopology`, `PromiseKept`, `Answered`: the topology cache.
- `AppendedOrCounted`, `NoLeak`, `PromiseKept`, `ScrapeCompletes`: ibswinfo.
  `ForeignBounded`, `EvictedOnlyUnlisted`: its use by requests whose topologies
  are old, different, or missing.
- `GroupGone`, `ParkedKillsOwn`: what a kill reaches.  `KilledIsTimeout`,
  `OutputFinal`: what the caller is told.  `ReturnsUnlessOutlived`: when it is.
- `OutputWhole`, `OutputAdvances`, `SuccessInstalled`, `NoLitter`,
  `DeclinedOnlyByLiving`: textfile mode.
- `PerfqueryAttributed`, `PerfquerySentOnce`, `NetExact`, `NetComplete`,
  `SwinfoExact`, `SwinfoWarmMatchesCold`, `SwinfoWarmSpoilsOne`: parsers.
  `SwinfoContained`: what a power supply number of two digits costs.

### Findings

1. `PortCollectorUp`: after a failed base query `infiniband_switch_up` (and
   `infiniband_hca_up`) is 1, because the early return skips the store of the
   metric that holds the failure; the HELP text promises 0.
2. `PortCollectorShared`: `--perfquery.max-concurrent` bounds each collector of
   each request, not their sum, as its help and `docs/operations.md` say.
3. `ProcGroupOwn`: when the deadline passes between `cmd.Wait`'s reaping of the
   leader and its meeting with the watcher, `Cancel` kills by a number that may be
   another group's by then; the comment says that the leader "is still parked in
   our reaper".  `ParkedKillsOwn` says that this window is the only one.
4. `RunOnceLastExecution`: `infiniband_exporter_last_execution` is also emitted,
   and installed, by a run whose discovery failed; `docs/metrics.md` says
   "last successful".
5. `ParsersShort`: a line of exactly five fields passes the guard that should
   skip it and panics on the sixth.

Also seen while modelling, without a run of its own:

- The topology's age starts when its execution ends, so the cache can serve one
  that is `TTL` plus one execution old, where the comment at
  `ibnetdiscover.go:39-41` says "max staleness = TTL" (the `Bound` of
  `PromiseKept` is the right one).
- A published status can be `TTL + 2 * RunTime` old, one execution before the
  entry is stored and one after it was copied, where the comment at
  `ibswinfo.go:56-57` says "max alerting staleness equals
  --ibswinfo.static-cache-ttl".
- `parse_ibswinfo` recognizes power supply numbers of one digit
  (`PSU([0-9]) status`, `ibswinfo.go:414`), `parseIbswinfoVitals` of any (`:551`):
  the lines of a `PSU10` are taken for those of the power supply printed before
  it, and on warm scrapes it has no statuses.  `SwinfoContained` says that the
  full output suffers nothing else.
- A switch whose ibswinfo failed gets no `infiniband_ibswinfo_up` series, where
  the HELP text (`ibswinfo.go:173`) promises 0.

## 4. Fairness

A started goroutine that can take a step eventually takes one (weak fairness per
worker and per dispatcher): the Go scheduler gives this.  It also covers an
execution, which ends because its context has a deadline: in `TopologyCache` and
`SwinfoCollector` the clock does not pass an execution's deadline, in
`PortCollector` the end of an execution is a step like another.

That assumption is examined in `ProcGroup`, whose fairness is weaker: goroutines
run and deadlines pass, but no process need ever exit, fork or close its pipe.
`ReturnsUnlessOutlived` shows that `cmd.Run` then returns unless some process
always outlives the kill: a leader that the exporter may not signal (`--sudo`), a
descendant that holds the pipe from outside the group, or one inside it whose
leader ended by itself before the deadline, after which `Cancel` is no longer
called.  In those cases the executions of the other modules do not end, and
their liveness and age bounds do not apply.

Mutexes get no strong fairness: each is held for a bounded number of its holder's
steps and wanted by finitely many callers, each once.  A scrape is never assumed
to start.  `RunOnce` has no fairness: all its properties are safety, cron may
start nothing, and a run may be killed at any time.

## 5. Proofs

All hold for every value of the constants that satisfies the named assumptions of
the modules.  For the state machines `IInv` (or `ComposedInv`, `DataInv`,
`TotalsInv`, ...) is the inductive invariant; `Init => IInv` and its preservation
are proved action by action, and the theorems follow from it.

| Module | Theorems |
| --- | --- |
| `PortCollectorProofs` | `TypeCorrect`, `BudgetHolds` (`PerfqueryBudget`), `QuietHolds` (`QuietAfterWait`), `SeriesExact` (`NoLostSeries`), `GaugesExact` (`RcvErrGaugesExact`), `TotalsBalance` (`FailuresCounted`), `OwnFailuresReported` (`OwnFailuresEmitted`) |
| `TopologyCacheProofs` | `CacheTypeCorrect`, `TopologyWhole` (`WholeTopology`), `Refines` (`PromiseKept`) |
| `ExporterProofs`, the collector | `SwinfoTypeCorrect`, `NoneLostUncounted` (`AppendedOrCounted`), `NothingLeaks` (`NoLeak`), `SwinfoRefines` (`PromiseKept`) |
| `ExporterProofs`, the requests | `Composes`, `CollectorInExporter`, `ComposedTypeCorrect`, `OwnUntilRenumbered`, `ForeignEnds` (`ForeignBounded`), `KeptWhileListed` (`EvictedOnlyUnlisted`) |
| `ProcGroupProofs` | `GroupTypeCorrect`, `KilledGroupGone` (`GroupGone`), `KilledTimesOut` (`KilledIsTimeout`), `OutputIsFinal` (`OutputFinal`), `ParkedKillIsOwn` (`ParkedKillsOwn`) |
| `RunOnceProofs` | `RunOnceTypeCorrect`, `OutputIsWhole`, `SuccessIsInstalled`, `NoLitterLeft`, `OutputOnlyAdvances` (`OutputAdvances`), `DeclinedByLiving` (`DeclinedOnlyByLiving`) |
| `ParserProofs`, perfquery | `EveryTextIsAttributed`, `Attributed` (`PerfqueryAttributed`), `SentOnceIfReadOnce`, `PortSentOnce` (`PerfquerySentOnce`) |
| `ParserProofs`, ibnetdiscover | `EveryTopologyIsExact`, `Exact` (`NetExact`), `NoLinkMissing`, `Complete` (`NetComplete`) |
| `ParserProofs`, ibswinfo | `EverySwitchIsExact`, `PickedIsExact` (`SwinfoExact`), `EveryWarmScrapeMatches`, `PickedMatches` (`SwinfoWarmMatchesCold`), `EveryWarmScrapeLosesOne`, `PickedLosesOne` (`SwinfoWarmSpoilsOne`) |
| `FoldTheorems`, `LineFold` | lemmas on sums over finite sets and on folds over lines |

`PortCollectorProofs` (`CountsAssumption`, `FlagsAssumption`, `PortsAssumption`).
None of the properties is inductive alone.  `IInv` adds to `PoolTypeOK`

- `TokenInv`: the tokens in the channel are the workers between `limit <- 1` and
  `<-limit`, plus the dispatcher between the send and the `go` statement: with
  the channel's capacity this bounds the running executions;
- `GroupInv`: the wait group counts exactly the workers between `wg.Add` and
  `wg.Done`, so zero means none is live, and `wg.Done` never takes it below zero;
- `LaunchInv`: the workers the dispatcher has not reached are idle and the ones
  it has passed are not, so none live means all done;
- `ReturnInv`: after `wg.Wait` all workers have ended, and stay so.

The counting conjuncts rest on lemmas on the cardinality of a set of workers of
which one changes its place.

`DataInv` adds what the workers carry.  `LockInv`: the holder of the lock has read
the slice as it is.  `WorkerInv`: neither the call in progress nor one still to
come has been parsed (`Fresh`), and the outcome flags are those of the history,
first in the worker's metric and after the store in the map (`Mirror`).
`SliceInv`: a series is in the slice exactly when it was parsed and does not wait
for its append.  With `QuietAfterWait` nothing waits when `Collect` emits.

`TotalsInv` is about the process-wide totals, which any number of scrapes add to.
`FailuresCounted` says that each total is the sum, over all workers launched so
far, of what their executions returned less what they have not added yet
(`AccountInv` bounds the latter by the former).  Each step changes one worker's
terms by what it moves into the totals (`Moves`).  `LoadedInv`: once `collect` has
returned, its workers withhold nothing, so what `Collect` then loads covers their
part of the sum, whatever others add before, between and after the three loads.

`TopologyCacheProofs` (`TimesAssumption`, `ScrapesAssumption`).  The mutex is
held exactly by the call inside a critical section (`MutexInv`); unless a writer
has put only part of it, the cached pair is of one moment and at most `RunTime`
older than its refresh time (`CacheInv`); a writer holds lists at most `RunTime`
old and has put what it holds (`WriterInv`), because an execution is never past
its deadline (`ExecInv`); a reader which found the cache fresh still finds it so
at each later read (`ReaderInv`).  The bound on an answer (`AnswerInv`) is the sum
of the execution's age and the entry's.  For the refinement, `StepSimulates`
shows that `Return` is the abstract answer, `ExecFailed` the abstract failure and
every other step a stutter.

`ExporterProofs` is about the ibswinfo collector first (also
`FinitenessAssumption`).  The ages add up in the same way, with one more execution
between the copy of an entry and its publication.  `CountInv`: the totals are the
number of failed workers.  `EvictInv`: while no scrape is running, whatever is
outside the last evicting scrape's topology is on its list: a scrape that stores
later is running, and will evict later.

Then about whole requests.  Every step of the composition is a step of the
collector or leaves it alone (`Composes`), so the collector's theorems hold in it;
before the renumbering everything is ascribed to the right switch (`TrueInv`); and
an entry is lost only to a request with a topology that does not list the switch
(`ListInv`).

`ForeignEnds` needs to know how long a request with an old topology can go on
asking switches (`TopologyAssumption`, `LIDsAssumption`, `ConcurrencyAssumption`).
`PaceInv` counts: time passes only while every token is in use by an execution
within its deadline, so when `k` longest executions have passed since a request's
topology was handed out, `k + 1` full sets of tokens have been used, or every
switch has been asked.  With `Waves` sets for all switches, its last worker is
done at most `Waves * RunTime` after the request began, and the request began at
most `TopologyAge` after its topology was read.  `ForeignInv` follows another
switch's data from there: only such a request reads it, what it stored is no
younger than that moment, and who copies it does so before the entry expires.

`ProcGroupProofs`.  The watcher fires only before `cmd.Wait` has met it
(`WatchInv`), so no result is given before a kill, and a kill implies that
`ctx.Err()` is set when the caller looks (`HitInv`).  A group emptied by a kill
stays empty because members come from forks of members (`HitInv`).

`RunOnceProofs`.  From the creation of its temporary file on a process holds the
lock (`LockInv`), so between a collection and its installation nobody else
collects, and what is about to be installed is newer than anything installed
(`NewestInv`); `FilesInv` says which temporary files there are at each step and
what they hold.

`ParserProofs` is about texts of any length, where the run has texts of four
lines.  `LineFold` shows, for any step and start, that folding a step over the
lines is running it: there are states, one per line, each made of the one before
by the step.  So a parser's claim is proved as an invariant of that run, cut at
line `i`: `SaysTo` for perfquery (the port of the last selection, the last value
of each counter of each port), `NetTo` for ibnetdiscover (the last lines about
each device, its links and its down ports so far, counted in order).  The
hypotheses are what makes a text: lines numbered from 1, `IsText` (a line has few,
five or enough columns) and `GuidsOrdered` (GUIDs are ordered; they are numbers
here); for `SentOnceIfReadOnce` that no counter of a port is read in two outputs
(`ReadInOne`), which `-x` and `-E` satisfy.  Every text of the specification
satisfies them (`TextsHold`, `TextsAreNetTexts`), so the properties of the run
follow for any bound on the texts.

The ibswinfo theorems are about the two outputs of every switch whose power
supplies have different numbers of one digit (`SwitchOf`; `OneDigit` is what
`PSU([0-9])` matches): any of their lines left out, any number of fans, any
reading garbled.  For a number of two digits they are false, as said in section 3,
and `SwinfoContained`, which TLC checks, takes their place.  `Leads(s, text, t)` of `LineFold` says that a text
takes the parser from state `s` to `t`, and composes with the texts
(`LeadsOn`, `LeadsThrough`), so each section has a lemma of its own: the lines of
one power supply make its record whichever are left out (`PsuLead`), the section
gathers those of its slots (`SectionLead`), and after the last one each line up to
the fourth divider stores the last record again as it is (`LaterKeepsPsus`).
`Unless` carries a failed parse to the end (`StoppedStays`).  `FullLead` joins the
sections, `VitalsLead` does the same of the short output, and `WarmIs` merges the
two field by field: for switches that differ in their readings only (`Like`), a
warm scrape publishes the statuses of the cached one and the readings of the new.
`ReadingAssumption` (a number is neither blank nor garbled), `SlotAssumption`
(a number of one digit is not "none yet") and, for the switches of the runs,
`DigitsAssumption` are what it takes.

`FoldTheorems` proves what these need by induction on finite sets and on natural
numbers, over sets of the good cases (`Good`) in place of a predicate parameter:
that the community modules' folds and sums are what their recursive definitions
say, that a sum changes with one of its terms, and that a part of a sum is bounded
by the whole.

Only model-checked: all liveness, which is out of the prover's reach
(`ScrapeCompletes`, `Answered`, `ReturnsUnlessOutlived`), and `SwinfoContained`.

## 6. Not modelled

- Flags, descriptors, version and logging; packaging.  They have no behaviour of
  their own; flags are CONSTANTS.  `--perfquery.max-concurrent=0`, which blocks
  the first send for ever, is excluded by the instances checked.
- Prometheus' gathering of the registry, the landing page and `/healthz`.
- Perfquery collectors inside `Exporter`: they share no state with ibswinfo, and
  overlapping scrapes of them are in `PortCollector` already.
- Series names, labels, units and durations; ibswinfo's emission of its series.
- Name and rate strings of `ibnetdiscover`: whether they parse is a choice.
- The order of the PSU list and of perfquery's result slice (Go map order): they
  are sets or functions here, and series have no order.
- A PSU that the full ibswinfo output lists and the short one does not: the code
  would drop its statuses on warm scrapes.  Whether the external script does that
  is not known from the repository; the fixtures list the same ones.
- Values of the data race on `refresh` in the log statement at
  `ibnetdiscover.go:130`: the read outside the lock is a step of the model
  (`LogAge`), what it logs is not.
- Power loss: no file is synced before its rename.
