# OxRecon in TLA+

OxRecon is a reconnaissance command line tool in Go: about a hundred commands that
query DNS, WHOIS, HTTP, TLS, BGP and RPKI sources and scan ports, plus a small
library (`src/pkg`) of concurrency helpers, network lookups and output. This
directory models the parts whose correctness depends on the order in which
goroutines, channels, timers and cancellations act, or sources fail and answers
are merged, checks them with TLC on small instances, and proves the central
results with TLAPS for every value of the constants.

## 1. Inventory

### Library: `src/pkg`

| part | state | operations | what makes it correct |
|---|---|---|---|
| worker pool, `utils/worker.go` | `running`, `jobQueue`, `resultQueue`, a WaitGroup, a context, three counters | `Start`, `worker`, `Submit`, `Shutdown`, `ShutdownWait`, `SubmitWithRetry` | accepted jobs run once; every result is delivered; counters are exact; shutdown ends and nothing runs after it |
| rate limiters, `utils/rate.go` | tokens and a refill goroutine; the list of recent requests | `Allow`, `Wait`, `WaitN`, `Stop` | never more grants than the limit; a waiter is released by a token, its context or `Stop` |
| cache, `utils/cache.go` | map of entries with expiry, cleanup goroutine | `Set`, `SetWithTTL`, `Get`, `Delete`, `Clear`, `Size`, `Keys`, `Stop` | no `Get` or `Keys` returns an expired or overwritten entry; the cleanup removes nothing alive |
| retry, `utils/retry.go` | attempt number, wait | `Retry`, `RetryWithResult`, `DoRetry` | bounded attempts and waits; a success or a cancel ends it |
| plugin registry, `plugin/plugin.go` | map by name, no lock | `Register`, `Unregister`, `Get`, `List`, `ExecuteAll` | every plugin that stays gets its turn, after failures too, also when plugins change the registry meanwhile |
| ASN lookups, `network/asn.go` | per call only | lookups with fallbacks, parsing | a result comes from the first source that knew; an error only when none did |
| RPKI, `network/rpki.go` | per call only | fetch, merge, statistics | every prefix counted once, in one class |
| BGP topology, `network/bgpmap.go` | nodes, links, prefix index, `Self` | `AddNode`, `AddPrefix`, `AddLink`, diagrams | nodes, index, counts and diagrams agree |
| TUI and output, `tui/`, `output/` | widgets | rendering | numeric edges |

`pkg/utils` is imported by no command: the commands build their own pools by
hand. They are written to one pattern (channel of items, workers that range
over it, WaitGroup, shared slice or results channel) with differences that
matter, which is why each is modelled on its own and compared with one abstract
specification, `FanOut`.

### Commands: `src/cmd`

| part | goroutines | hard behaviour |
|---|---|---|
| `port scan` (`network.go`) | producer, workers, signal handler | the producer may give up before it closes the channel |
| `http dir` (`http.go`) | workers; the command feeds and later reads | bounded results channel read too late; a jump past both closes |
| `scan` (`scan.go`) | six steps, port workers, signal handler | feeder deaf to the cancel; one section per step |
| `subdomain brute` (`subdomain.go`) | feeder, workers, closer; the command collects | a `break` that leaves the `select` only; the cancel |
| `subdomain enum`, `recursive` | one per source or first-level name | lookups below lookups; a shared `sync.Map`; the cancel |
| `bgp bulk` (`bgp.go`) | feeder, workers, closer; the command collects | bounded channels; lookups that fail by timeout |
| `port detail multi` (`port_discovery.go`) | workers; the command feeds | appends under a mutex; connections kept open |
| `port detail version`, `discovery all` | one per service or provider | printing under a mutex; a closer |
| `dns resolver` (`dns.go`), WHOIS lookup (`domain.go`) | one per query | which answer wins; the timeout |
| the other `dns` and `bgp` commands | none | sources asked in turn, with what each does when one fails |
| the other commands | none | a query and a printout |
| API server (`cmd/server`) | per request | stateless |

Interaction is through channels, WaitGroups and mutex-protected slices inside
one command; contexts carry timeouts and SIGINT/SIGTERM. Nothing is persisted
but the report `scan` may write, so there is no recovery to model.

The hazards of this code, each at its line and with the properties that watch
it, are in `PROJECT.json`.

## 2. Modules

| module | models | implements |
|---|---|---|
| `JobService` | what the worker pool promises: accepted jobs, each started at most once | |
| `WorkerPool` | `pkg/utils/worker.go` | `JobService` |
| `FanOut` | what a fan-out command promises: each item probed at most once, a report that has each hit once and nothing else, complete but for a cancel | |
| `PortScan` | `newPortScanCmd` of `cmd/cli/network.go` | `FanOut` |
| `DirBust` | `newHTTPDirCmd` of `cmd/cli/http.go` | `FanOut` |
| `FullScan` | `newScanCommand` of `cmd/cli/scan.go` | `FanOut`, for its port section |
| `ListCommands` | `subdomain brute`, `bgp bulk`, `port detail multi` | `FanOut` |
| `QueryCommands` | `dns resolver`, the WHOIS lookup of `domain`, `port detail version`, `discovery all` | |
| `SubdomainTree` | `subdomain recursive`, `subdomain enum` | |
| `DNSQuery` | the commands of `dns.go` that ask one server after another | |
| `BGPCommands` | the `bgp` commands without goroutines, but for those of `RPKI` | |
| `ASNLookup` | `pkg/network/asn.go` | |
| `RPKI` | `pkg/network/rpki.go` and the commands that show validity | |
| `BGPMap` | `pkg/network/bgpmap.go`: its methods and diagrams as operators | |
| `BGPTopology` | a caller that uses `BGPMap` in any order | |
| `Registry` | `pkg/plugin/plugin.go` | |
| `RateLimiter`, `SlidingWindow` | `pkg/utils/rate.go` | |
| `TTLMap` | what the cache promises: a map whose entries cannot be read once they expire, and are counted until they are removed | |
| `Cache` | `pkg/utils/cache.go` | `TTLMap` |
| `Retry` | `pkg/utils/retry.go` and `SubmitWithRetry` of `worker.go` | |
| `UtilsParameters`, `FanOutParameters`, `LookupParameters` | the constants of the helpers, of the three fan-out modules, and of the lookups, with what is assumed of them | |
| `MC...` | instances for TLC | |
| `WorkerPoolProofs`, `PortScanProofs`, `DirBustProofs`, `FullScanProofs` | theorems about the module of that name | |
| `UtilsProofs` | theorems about the four helpers and `MCUtils` | |
| `FanOutsProofs` | theorems about `ListCommands`, `QueryCommands`, `SubdomainTree` and `MCFanOuts` | |
| `LookupsProofs` | theorems about the lookups, statistics, topology and registry and `MCLookups` | |
| `Ordering` | what a loop keeps of a sequence and what a sort makes of it | |
| `DataFacts` | lemmas about channels, induction over numbers, orders of finite sets | |

### How code becomes actions

* A goroutine has a program counter (`wpc`, `cpc`, `producer`, `main`); an
  action is one atomic step of it: an atomic load or store, one channel
  operation, a WaitGroup operation, a critical section that does not block.
  What a goroutine does only for itself (building a request, formatting) has no
  step of its own.
* A buffered channel is a sequence and a flag that it is closed. A send waits
  for room (`HasRoom`), a receive for an element, a `range` ends when the
  channel is closed and empty, a send on or a close of a closed channel panics.
  A `select` with several ready cases may take any of them.
* A `sync.Mutex` is a variable only where its section can block (`mu` in
  `DirBust`: the send inside it waits for room). Elsewhere the section is one
  action.
* The outcome of a job, a dial, a request or a lookup is chosen freely
  (`\E r \in Results`, `\E open \in BOOLEAN`, `\E s \in Statuses`).
* SIGINT, SIGTERM and the timeout are one action, `Cancel` or `Timeout`, that
  may happen at any moment, once.
* History variables (`submitted`, `accepted`, `started`, `collected`, `probed`,
  `answered`) record what happened, for the properties; no guard of the code's
  actions reads them, but `SubmitLoad` takes a job not yet submitted, so that
  each element of `Jobs` stands for one call.

`WorkerPool`: callers run scripts, sequences of methods. `Scripts` is a
constant, so that one module serves both for "any calls by anybody" and for the
discipline the tests follow. `Start` is `StartLoad`, `StartStore`, one
`StartSpawn` per worker, `StartReturn`; `Submit` is `SubmitLoad` and then
`SubmitSend` or `SubmitPanic`; `Shutdown` is `ShutdownLoad`, `ShutdownStore`,
`ShutdownCancel`, `ShutdownClose` (or its panic), and `ShutdownWait` goes on with
`WaitWorkers` and `CloseResults`. A worker is `WorkerEnter`, then `WorkerReceive`,
`WorkerCount`, `WorkerSend` in a loop, until `WorkerStop`, `WorkerLeave`,
`WorkerDone`. `Collect` is the reader of results, which in the repository only
the tests have; `reader`, chosen at the start from `Collecting`, says whether there is one.

`PortScan`: `Send`, `Abandon`, `CloseJobs` of the producer; `Receive`, `Drained`,
`GiveUp`, `Dial`, `Refused`, `Connected`, `RecordOpen` of a worker; `Report`.
`jobCh` has room for all ports, so a send never blocks.

`DirBust`: `Feed`, `Jump` (the `goto done`), `ClosePaths`, `CloseResults`, `Read`,
`Report` of the command; `Receive`, `Drained`, `Check`, `Fail`, `Respond`, `Lock`,
`SendResult` of a worker.

`FullScan`: four steps that look something up and add a section. A step that makes one request
ends in two ways, `Complete` at its end and `FallShort` with the early return after a request
that failed or brought no certificate, and what the request came to is recorded (`cameTo`), so
that a failure without its section shows. Then the port scan with its feeder and workers; the
subdomain loop; `PrintReport` and `Save`. The order of the sections is not kept (the code
appends them in the order the steps end), their number is.

`RateLimiter`: `Tick` is the ticker, whose channel holds one tick and drops the rest;
`TakeTick`, `Refill` and `LoopEnd` are `refillLoop`; a caller makes one call, `Allow`, or
`Take`, `Sleep`, `Wake`, `GiveUp` for `Wait` and `WaitN`. How long a tick or a `time.After`
takes is left open. In `SlidingWindow` and `Cache` time matters and is a clock that `Advance`
moves and each step reads once, where the code calls `time.Now` under the mutex. `Cache` has
one action per method that reads or writes the map, `Size` among them, the cleanup goroutine
and the two panics. `Retry` is one loop with three ways in; the pauses and the outcomes of the
calls are recorded.

`ListCommands`: the three commands share a buffered channel with room for the whole
list. `Feed`, `Skip` (brute after a cancel), `CloseQueue` feed it; `Receive`,
`Drained`, `GiveUp`, `GoOn`, `PassOver` (bulk, a comment), `LookUp`, `Dial`, `Deliver`
are a worker; `CloseResults` is the closer, `Collect` and `Finish` the command. Jobs are
places in the list, because the list of brute names some prefixes twice. The worker
set may be empty (`--threads 0`): the report is empty then, and the command ends.

`QueryCommands`: `AskResolver`, `AskWhois`, `AskProvider` post one answer each,
`PrintVersion` prints it; `Take`, `TimedOut`, `Finish` are the command,
`CloseAnswers` the closer of `discovery all`. An answer is of use, of no use, or an error.

`SubdomainTree`: a name is the sequence of its prefixes; each goroutine has a list
`todo` of names, `Begin` looks at the context and `Resolve` takes the resolver's answer and
puts the names below in front, `GiveUp` is the return on a cancel.

`DNSQuery`, `ASNLookup`, `BGPCommands`, `RPKI`: a command is a sequence of sources; each step
asks the next one, takes one of its possible answers (silence, refusal, nothing, a list, junk),
and goes on, falls back or returns as the code does. Answers are records of the keys and values
the code looks at; columns, widths and lines of text are left out. What parsing does to a value
is kept where a result depends on it: of the strings that are no numbers `Words` become 0 and
`Beyond`, those too large, the largest number, and `parseWhoisForASN` alone passes over them
(`Numbered`); a prefix is a pair of what the cut of six characters leaves in front, the colon
of `route6:` or nothing, and its value; a TXT lookup answers with a sequence of records, of
which some lookups read the first and `LookupPrefixes` all. `Filled` of `RPKI`, the length of
the bar of coverage, is a set: the truncated product of rounded quotients may be one short of
the exact one. `BGPMap` holds the methods of the topology as operators on a record and what
each diagram draws as sets of nodes, edges and counts; `BGPTopology` calls them in any order
and `BGPCommands` as the commands do.

`Registry`: `ExecuteAll`, `Visit`, `Executed`, `Return` are one call of `ExecuteAll`;
between `Visit` and `Executed` a plugin runs and may call `Register` and `Unregister`. A Go
range over a map that changes skips what is removed and visits what is added or not.

Every definition that a bug could plausibly change has a wrong twin next to it,
marked `MISTAKE`. No specification uses the twins; replacing a definition by its
twin makes the property named in `PROJECT.json` fail, which shows that the
property depends on that line of the code.

## 3. Runs

Bounds are the constants of each `.cfg`. Scripts, items and prefixes are finite,
so the commands and the pool need no bound on their actions; the clocks do
(`MaxTime`, `CacheTime`).

| run | question | instance | result |
|---|---|---|---|
| `pool_any` | do jobs, results and counters stay consistent whatever the callers do? | 2 callers, all 256 pairs of two-call scripts, 2 workers per `Start`, 4 goroutines, 2 jobs, queues of 1 | holds |
| `pool_owner` | with one owner, does anything outlive or break `ShutdownWait`, does every result arrive? | owner starts, submits, perhaps shuts down and waits, or shuts down twice; client submits twice; 2 workers; somebody receives the results or nobody; 153 754 states | holds; one way not to return without a reader |
| `pool_race` | can `Submit` panic? | `Submit` against `Shutdown` | **yes** |
| `ports_safety` | is a port lost, is the report exact, does the command end? | 3 ports, 2 workers, cancel any time | holds, with one way not to end |
| `ports_cancel` | does a cancelled port scan end? | the same | **no** |
| `dir_safety` | is a response lost, is the listing exact, does the command end? | 3 paths, 2 workers, statuses 399 to 403 | holds, with two ways not to end |
| `dir_full` | does the timeout end it? | the same | **no** |
| `scan_safety` | has the report every section once, failures told, does the scan end? | 3 ports, 1 port worker, 2 prefixes, requests that fail | holds, with one way not to end |
| `scan_cancel` | does a cancelled scan end? | the same | **no** |
| `fanouts` | do the other commands with goroutines report each item once, return what their answers justify, and end? | lists of 0 to 3 places with a repetition and a comment, 2 workers or none; 3 queries; trees 3 deep of 2 names each; a cancel any time; 34 469 states | holds |
| `lookups` | do the lookups, the statistics, the topology and the registry keep their data consistent whatever the sources answer? | 3 servers or 1, 2 addresses or one twice, lists of prefixes with repetitions and blanks, 4 calls on a topology of 2 systems, 3 changes to a registry of 2 plugins; 274 150 states | holds |
| `helpers` | are limits, expiry and retries exact, do waiters return? | 2 callers; bucket of 1; 2 grants per 3 ticks; 2 keys, 2 values, times to live 0, 1, 2; 24 retry configurations | holds |

Why these bounds suffice: two callers and two workers give every pair of
interleaved calls, two sets of workers after a double `Start` and every pair of
workers on one queue; a third caller repeats the role of one of them. A queue of
one is full and empty within two jobs. Three items for two workers give a worker
that takes a second item, and one item more than a buffer of two holds. In
`FullScan` one worker with a buffer of one blocks its feeder on the third port, and
the concurrency looked for is that of the six steps; two workers on one channel are
in `PortScan`. A bucket of one makes two waiters compete, and a call for two tokens
cross a refill. Five ticks of clock see a window of three open and close. A
time to live of 0 starts no cleanup, 1 makes its interval 0, 2 gives it work.

In `fanouts` a list of three with two workers gives a worker a second item and a channel with
room for all but one of them; three queries give an answer of use before and after one of no
use; depth three is the depth of the code. In `lookups` three servers are the default list of
the code; the texts hold numbers that can be read and two kinds that cannot, and are chosen so
that each branch of a parser is taken, the first and the last of several matching lines differ,
and some matching lines are empty.

`helpers`, `fanouts` and `lookups` explore modules that have nothing to do with each
other: `MCUtils`, `MCFanOuts` and `MCLookups` pick one in their initial states and let
only that one move, so the state space is the sum of theirs.

Symmetry is declared for goroutines and jobs in `pool_any`, which checks safety (and a
refinement without fairness) only; scripts and callers are told apart.

`CHECK_DEADLOCK FALSE` is said where the system does stop: a process that has
printed its report exits, a pool whose callers have returned is idle, a process
that panicked is gone. That the stop is the right one is what the liveness
properties ask.

### Fairness

Weak fairness on each goroutine: the Go scheduler runs every goroutine that can
take a step. It covers the assumption that a job returns, that a dial returns
(it has a timeout of 3 or 5 seconds), that a request or a lookup ends (the
clients have timeouts), that a ticker ticks. A cancel is never assumed to happen,
except that the timeout of `http dir` passes; in `fanouts` every command returns without
one. `lookups` checks safety only. Strong fairness is assumed in one
place, `GiveUp` of `RateLimiter`: a waiter comes by its `select` again and again with
the context done, and `select` chooses among ready cases at random.

### What the violated runs show

* `pool_race`: `Submit` reads `running`, `Shutdown` stores false and closes the
  queue, `Submit` sends on the closed channel. A `select` with a default case
  does not prevent that panic. The test expects a refusal.
* `ports_cancel`: the producer's `return` on `ctx.Done()` skips
  `close(jobCh)`. Both cases of its `select` are ready after a cancel, so it need
  not happen, but when it does the workers that drain the channel wait for ever.
  The producer must be sending when the cancel comes.
* `dir_full`: the results channel holds one entry per thread and is read after
  `wg.Wait`. With the ten default threads, the eleventh response of the 85 paths
  blocks its worker with the mutex held. This needs no cancel at all.
* `scan_cancel`: the feeder of the port scan has no case for the context. After
  a cancel the workers return, the buffer fills, the report is never printed.

The passing runs say more: `EndsOrAbandoned`, `EndsOrHangs` and `EndsOrStarves` name
every way in which the three commands fail to end, and `ShutdownWaitReturns` the one in which
a pool whose results nobody reads does (`Clogged`). The second way of `http dir`
is `goto done`, which skips both `close` calls; its window is the feeding, which
never blocks, so the timeout must be short.

### Differences met on the way

No run is about these; the models do what the code does, and no property says otherwise or
takes the side of the code where a document, a help text or a comment contradicts it. Five are
such contradictions:

* `SubmitWithRetry` waits 1, 2, 3 times its backoff (`worker.go:100`); `docs/PRD.md:618` says
  "exponential (1s, 2s, 4s)" and the repository's README "retry with exponential backoff"
  (`README.md:551`). `Retry` has the pauses as they are (`Linear`); `Outcomes` speaks only of
  those of `Retry` and its like.
* `bgp ip` returns the error of its TXT lookup (`bgp.go:222-225`), as it must for every IPv6
  address, which `reverseIP` leaves as it is; its help promises a fallback to whois and has an
  IPv6 example (`bgp.go:194-200`).
* `bgp map` adds one node and no link (`bgp.go:1203-1213`), so that its distribution of
  prefixes, drawn for two nodes or more, is missing and its system shows 0 prefixes; the
  help says "AS relationships, peers, upstreams, customers, and prefix distribution"
  (`bgp.go:1136-1138`).
* Without routes in whois `LookupPrefixes` takes the second column of a system's TXT record,
  where the comment above has a prefix (`asn.go:283`) and the record its country
  (`asn.go:141`).
* `show` and `v6` print the validity of prefixes that nobody has filled in (`bgp.go:1516`,
  `:1733`); the help of both promises RPKI validation status (`bgp.go:1493-1495`,
  `:1712-1713`).

The others are differences from what a reader may expect:

* Scan and helpers: the scan has no WHOIS step, though its help text and README list one;
  the first pause of `Retry` is not capped by `MaxWait`;
  `RateLimiter` fills its bucket at every tick, so that it grants up to `rate * burst`
  tokens a second; a worker blocked on a full `resultQueue` does not notice a cancel;
  `Cache.Keys` leaves out an entry in the instant of its expiration that `Get` still
  returns.
* DNS: an exchange may take as long as the whole command (`dns.go:107`), so a silent
  server keeps all later ones from being asked; `zone` ignores the error of an envelope;
  records all three servers have are printed three times; `reverse` ignores the context.
* WHOIS: the `break` on a good answer leaves the `select` and not the loop, so that the last
  good answer wins and a context that is done discards one already there; `expire`
  compares 24 characters of a line with a label of 21 and never finds a date.
* Subdomains and ports: the list of brute has duplicates; `--threads 0` gives empty
  reports in `brute` and `multi`; `multi` keeps its connections open until their worker
  ends and ignores its timeout.
* ASN: the columns of a system's TXT record are read one off (`bgp path` prints the second
  as the registry); a cut of `route6:` at six characters leaves the colon
  (`asn.go:258`, `:420`); a number that cannot be parsed is system 0 in a TXT record and in
  `LookupPrefixDetail`, one that is too large 4294967295, and neither makes a lookup turn to
  the next source; a whois reply is one read of the connection. No command uses these lookups.
* BGP: whois sources ignore the context, `route` uses one of its own; `export` numbers all
  its entries with the length of the list.
* RPKI: `FetchRPKIFromRIPE` never fails; the statistics count an unexpected validity as
  not found, `mapRPKIStatus` as unknown; `coverage` ignores the error of its fetch.
* Topology: `Self` is not one of `Nodes`, which is why `map` and `visualize` print 0 prefixes;
  `GenerateFullMapOutput` panics on a nil `Self`; no command calls `AddLink`; the world map's
  edges lead to "" where its group is "Unknown".
* Registry: it has no lock; a plugin removed and added again during `ExecuteAll` may run
  twice.

## 4. Proofs

All theorems hold for every value of the constants that satisfies the named
assumptions, which TLC evaluates in the runs.

| module | theorem | property |
|---|---|---|
| `WorkerPoolProofs` | `TypeCorrect` | `[]TypeOK` |
| | `Placement`, `JobsCorrect`, `ResultsCorrect`, `CountersCorrect` | `[]JobsPlaced`, `[]JobsAccounted`, `[]ResultsAccounted`, `[]CountersExact` |
| | `NoJobRunsTwice` | `NoJobTwice`, an action property |
| | `Implementation` | `ImplementsService`, the refinement of `JobService` |
| | `QuietWithOneOwner`, `RefusedWithOneOwner` | `[]QuietAfterWait`, the action property `StoppedPoolRefuses`, when one caller owns the pool |
| `PortScanProofs` | `TypeCorrect`, `PortScanKeepsPromise` | `[]TypeOK`, the refinement of `FanOut` |
| `FullScanProofs` | `TypeCorrect`, `ReportComplete`, `PortScanKeepsPromise` | `[]TypeOK`, `[]SectionsComplete`, the refinement of `FanOut` by the port section |
| `DirBustProofs` | `TypeCorrect`, `NoResponseLost`, `DirKeepsPromise` | `[]TypeOK`, `[]ResponsesKept`, the refinement of `FanOut` |
| `UtilsProofs` | `TypesCorrect` | `[]TypeOK` of `MCUtils`, all four helpers |
| | `BurstRespected` | `[]TokensAccounted` |
| | `RateKept`, `NoNeedlessDenial` | `[]RateRespected`, the action property `DenialsJustified` |
| | `OutcomesKept` | `[]Outcomes` |
| | `CacheIsTTLMap` | `ImplementsTTLMap`, the refinement of `TTLMap` |
| `FanOutsProofs` | `TypesCorrect` | `[]TypeOK` of `MCFanOuts`, all commands |
| | `ListedOnce`, `ListRefinement` | `[]ListAnswered`, the refinement of `FanOut` |
| | `OutcomesJustified` | `[]AnswersJustified` |
| | `TreesReported` | `[]TreeComplete` |
| `LookupsProofs` | `TypesCorrect`, `LookupsJustified` | `[]TypeOK` and `[]SourcesJustified` of `MCLookups` |
| | `DNSAnswersUsed`, `LookupsUseSources`, `CommandsReportSources` | its parts: `[]AnswersUsed` of `DNSQuery`, `[]SourcesUsed` of `ASNLookup`, `[]CommandsJustified` of `BGPCommands` |
| | `StatsCorrect` | `[]StatsAddUp` |
| | `TopologiesAgree` | `[]TopologyConsistent` |
| | `EveryPluginGetsItsTurn` | `[]EveryPluginRuns` |

So every invariant and every refinement a passing run checks is a theorem, and of the
temporal properties all that do not speak of what must eventually happen.

`UtilsProofs`, `FanOutsProofs` and `LookupsProofs` prove each property of the
component's own specification first (`SlidingRateRespected`, `StoreIsTTLMap`, `RetryOutcomes`,
`ListsAnswered`, `QueriesJustified`, `TreesComplete`, `TopologyAgrees`, `RegistryRunsEveryPlugin`)
and then of the specification the run explores, in which the component is one subject among
several: the others' steps leave it alone.

### Assumptions

Sets of threads are finite and not empty, queue sizes positive, scripts sequences of
methods, a value like `NoJob` or `NoPort` none of those it stands for the absence of. Ports,
prefixes and paths of the list to scan are different from each other, as those of the code's
tables are: a table that named a port twice would have it reported twice. Nothing is assumed
of the worker pool's scripts, so its theorems hold for callers that start twice, shut down
twice, or submit to a pool that never ran; the two theorems about an owner say so in their
hypothesis, `OneOwner`, and `FairAssumption` of `MCWorkerPool` lets TLC evaluate it for the
scripts of `pool_owner`. `ListCommands` assumes nothing of its lists: the same name may be
in them twice, and there may be no worker. Rates, windows, bursts, times to live, attempts,
waits, multipliers and the clock's bound are natural numbers (`UtilsParameters`). `Unset`,
the answer of a cache that has given none and of a loop that has not ended, is none of the
values (`UnsetAssumption`). That the report of the port scan is sorted is an operator of its
own, `Sorted`: every arrangement of the same ports in order.

Of the lookups: lists of servers, addresses and records are sequences of strings
(`ServersAssumption`, `BulkAssumption`, `RecordsAssumption`), texts sequences of keys and
values (`TextsAssumption`), a TXT record is a sequence of columns and the answer about an
address or a system one or more of them (`OriginsAssumption`, `ASAssumption`), the lines of a
list are strings or blank (`ListsAssumption`), rows have an order of their own and blanks are
no rows (`RowsAssumption`), a validity is not the absence of an answer (`FailAssumption`), a
system that is found has a number (`FoundAssumption`), and the country of a node that
`AddPrefix` makes is one a node may have (`CountriesAssumption`). `StringAssumption` says that
some literals are strings, which TLC knows and the provers do not. `CallsAssumption` makes
`MaxCalls` a number, and no more: the theorems about the topology hold for any bound.

### Why the invariants are what they are

*Worker pool.* Three layers. `TypeOK` alone is inductive. `JobsPlaced` needs `TypeOK` and is
where most of the argument is: that a started job is not queued is preserved by a receive
only because the queue has no duplicates, that is preserved by a send only because a job on
its way into the queue (`cpc[c] = "send"`) is not accepted yet and belongs to one caller;
those are conjuncts of `JobsPlaced`, not separate facts. `NoJobTwice` and
`ImplementsService` follow from it step by step. With an owner, `Owned` says that the calls
left to make are those of an owner and its clients and where each caller stands in its call,
and `Stages` that the steps of a shutdown come in their order and none is undone; `running`
is false before the queue is closed, so that who begins a `Submit` later is refused. The
counting layer adds that `started` is finite and uses lemmas on the cardinality of the set
of goroutines at a program counter when one goroutine moves; each action changes at most one
of the sets `Live`, `Active`, `Running`, `Sending` by at most one element.

*The fan-outs.* `TypeOK` is not inductive for them: a worker at `dial` or `append` must hold
an item, which is `Holds`. The refinement of `FanOut` rests on five facts. `Window`: what is
in the channel is the stretch of the list behind the items received, so that an item
received is a new one. `OneWorker`: no two workers are busy with the same item and none with
an item whose probe is over; this makes each `Dial` a `Probe` of `FanOut`. `NothingDropped`:
without a cancel every item received is probed or with a worker, and a worker leaves only an
empty, closed channel; this makes the report legal. `Found`: what succeeded is recorded or
about to be; this makes it exact. `FoundOnce` (`ReadOnce` for `http dir`): it is recorded
once; the report is a count of each item (`Times`) and not a set, so this is what keeps it
from saying an item twice. `DirBust` has, for the last, where each response is
(`Responses`), that those of interest end up listed (`Kept`), and how many there are
(`Counts`), because the results channel is bounded; `Stage` orders the closes. The port
section of `FullScan` needs no more although five other steps run beside it.

*The commands that look a list up.* `ListInv`. Its items are places of the list and not
names, so that a name said twice is two items. `PlacedOnce` is `Window` and `OneWorker` for
a feeder that may pass places over (`bgp bulk` skips comments); `Kept` and `DeliveredOnce` are
`NothingDropped` and `Found`, with the results channel between the worker and the report;
`Closing` puts the last worker before the close of the results and the report, and says
of the connections `multi` keeps open that their worker has not ended. An item that a
cancelled `brute` drops is the only one not accounted for.

*The tree.* `TreeInv`. What is looked up hangs below a name that resolved (`Rooted`); no
first-level name and, without a cancel, no name below one that resolved is forgotten
(`LevelKept`, `BelowKept`), neither looked up nor pending with a goroutine. When no goroutine
is left nothing is pending, and the report is complete.

*Report of the scan.* `Sections`: a step's section is there exactly when the step has ended,
and what it says of a step that makes a request is what that request came to (`cameTo`), an
answer or an error.

*Bucket.* `tokens + sinceRefill = Burst` and a caller that waits has a token to ask for
(`Needy`), which keeps a refusal apart from a wait that is over.

*Sliding window.* `SlidingInv`. The property is about any window of time and the code keeps
the last one only. What connects them is `LastGrants`: `requests` holds the end of all
grants ever made, and what it has lost is a window old. The pruning is a suffix, `Valid`,
because grants come in the order of time (`InOrder`). Then a window that begins at a
grant cannot hold `Rate + 1`, since at the last of them `requests` held all of it.

*Retry.* `RetryInv`. The wait is computed step by step and capped, and `Expected` is a closed
form with a power in it; `NextPause` shows that capping at each step and capping at the end
agree. `PauseOf` says the same of `SubmitWithRetry`, whose pauses grow by one backoff each; it
serves the invariant, and the property does not speak of those pauses.
`Powers` is a recursive function in place of `^`, which the provers do not know enough about;
that it exists is proved (`PowersFacts`).

*Cache.* The refinement maps the entries to those still alive (`Live`) and those expired and
not removed yet (`Dead`). `Get` and `Keys` see the first, `Size` counts both. The clock's step
must move exactly those that expire with it from one to the other, a cleanup remove the
dead and no other, `Clear` all, a `Set` bring a dead one back. `Stop` and every other
call without a visible effect is a step `Stop` of `TTLMap`, since it resets the answer.

*Queries.* `Once`: each query is still asked, or its answer is in the channel once, or was
taken once. `Counted` ties the number of answers taken, which the code counts, to the set of
queries answered; hence the loop of `len(servers)` receives ends when all have
answered. `LastOfUse` is the answer kept, `Known` what holds when the command returns.

*DNS.* `DNSInv`. Each server was asked or is left, until the command has what it wants or its
time is over; only the last one asked may have been silent; the records printed are some
of those heard, or all of them where each answer is printed.

*Addresses and systems.* `ASNInv`. For the k-th address: who was asked about it, by
the point reached in the chain of fallbacks, and that none of them knew (`Silent`); once one
does, it decides (`DecidedIn`). The results of a bulk lookup are those of the places decided, in
order: the j-th result belongs to the place before which j - 1 are not unknown (`ResultsFor`).
For a system, the name is the last one told (`LastName`).

*BGP commands.* `BGPInv`. What was asked and what is still planned make up the command's
sources, without a repetition (`PlanInv`); a system is known when its source is (`FoundInv`). The
count that `topology` draws is that of the list's lines, blanks left out; the other drawings have
one node, of the system found or given (`Drawing`). Both follow from what `AddPrefix` does to
its node, by induction over the lines.

*Statistics.* `RPKIInv`. The lists are the sorted distinct prefixes of the text, the merge is
that of the first answer with rows, the last row of a prefix wins. The four classes are
disjoint and cover all, so that their counts add up to the total; the proof counts
places and never walks the list. How long the bar of a diagram is depends on the rounding of a
floating point product; `Filled` is the set of lengths it may have, all from 0 to 50.

*Topology.* `TopoInv`. The sum over the nodes of their prefix counts is the number of
`AddPrefix` calls, whatever the nodes; a node lists only prefixes that are in the index.

*Registry.* `EveryPluginRuns` is not inductive: a name the range has yet to produce, or that
is being executed, may have a result only when it was added while `ExecuteAll` runs.

### How data is proved about

Some definitions have the form they have because of what the provers can see.

* The induction theorems of the library take an operator and cannot be used. The same
  arguments go through the least element of a set of numbers (`LeastElement`,
  `Induction` of `DataFacts`; `BySize` of `LookupsProofs` for finite sets): to show that
  all numbers are in a set, look at the least that is not.
* A recursive function is known to the provers by its `CHOOSE` only. That a function that
  satisfies its equation exists is proved by that induction, and with it the equation
  (`PowersToExist`, `SumsExist`, the lemmas about `added` of `BGPCommands`). A fold over a
  set is such a function of its subsets.
* `SelectSeq` and `SortSeq` are opaque. `Ordering` says what they return without recursion:
  the member of a finite set with k - 1 members before it is the k-th. `KeepFacts` and
  `ArrangeFacts` give the rest: length, elements, order, and that each place kept has its
  own place in the result.
* `Put` of `BGPMap` stands in for `:>` and `@@`.

### Only model-checked

Liveness, and whatever needs `ENABLED`, because the proof system has neither:
`ShutdownWaitReturns`, `EveryResultArrives`, `EndsOrAbandoned`, `EndsOrHangs`,
`EndsOrStarves`, `WaitReturns`, `ExpiredLeave`, `CommandsEnd`. They hold on the instances of
their runs.

## 5. Not modelled, and why

* A pool with `queueSize` 0, and `--threads 0` for `port scan`, `http dir` and `scan`: the
  constants' assumptions exclude unbuffered channels and empty pools there. `ListCommands`
  has it.
* The runtime's detection of a WaitGroup that is reused while a `Wait` returns:
  it needs a `Start` during a `ShutdownWait`, and whether it panics depends on a
  window inside the library.
* `Metrics`, `QueueLen`, `IsRunning`: they read.
* A job that panics: it ends the process as any Go panic does.
* Time inside a command: a timeout is an event that may come at any moment. The
  clock of `time.Now` is monotonic and read once per step.
* A rate of 0, a negative `MaxAttempts`, a multiplier that is not whole.
* The text of reports, progress output on standard error.
* The commands that make one query and print what comes: `ping`, `traceroute` and `cidr`
  of `network.go`; the other HTTP, TLS and OSINT commands; `wildcard` and `crtsh`;
  `dns_security.go`; the discovery providers one by one. They keep no state and do one thing
  after another, so that a model would repeat their lines.
* Rendering (`pkg/tui`, `pkg/output`), the API server, whose handlers answer fixed documents,
  the entities, which are structs, and the declaration of commands and flags.
* Bytes: banners, whois lines, TXT columns and JSON are records of what the code looks
  at.

## 6. What could come next

* `EndsOrAbandoned`, `EndsOrHangs` and `EndsOrStarves` have a safety half: whoever is blocked
  for ever is blocked for one of the named reasons. Stated as an invariant of the states in
  which no goroutine can move, written without `ENABLED`, it could be proved.
* The order of the records a DNS command prints, and of the peers `LookupPeers` returns.
* `--threads 0` for `port scan`, `http dir` and `scan`, whose channels are then unbuffered.
