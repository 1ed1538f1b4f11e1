# rpc-mesh in TLA+

A verification development kept beside rpc-mesh, the load balancer for Solana
JSON-RPC nodes in `src/`. It holds TLA+ modules translated from the Go source,
TLC configurations that check them on small instances, and proofs of the main
results for every value of the constants, checked by TLAPS. `PROJECT.json` maps
each definition to the source lines it stands for, and lists runs, mutants,
findings, hazards and theorems.

    tlc -workers 2 -config pool.cfg MCPool.tla           # one run
    tlapm PoolProofs.tla                                 # the proofs

## The system

rpc-mesh is one process. A **health checker** goroutine probes every upstream at
an interval and writes what it learns into a shared **pool**; one **handler**
goroutine per request reads the pool to choose an upstream, forwards the call,
and may retry it once elsewhere. Reports (`/status`, `/metrics`, `/ready`) read
the pool too. `main` wires these together and, on a signal, drains and exits.

| Component | State | Operations | Talks to |
|---|---|---|---|
| Pool (`router/types.go`) | per endpoint: healthy, slot, EWMA, two streak counters, last error; the cached watermark `maxSlot`; one RWMutex | `ApplyProbes`, `RecordProbe` (write); `Select`, `SelectExcluding`, `Snapshot`, `MaxSlot` (read) | written by the checker, read by all others |
| HealthChecker (`router/health_check.go`) | loop position, ticker, the results slice, one goroutine per endpoint | `Run`, `RunCycle`, `defaultProbe` | nodes (getHealth, getSlot), Pool, the signal's context |
| Proxy (`router/proxy.go`) | only the local variables of each handler; counters behind `ProxyStats` | `ServeHTTP`, `forward`, `isRetryable`, `classifyError`, `peekMethod`, `peekRPCError` | client, Pool, upstreams, Metrics |
| Lifecycle (`main.go`) | the signal's context, the phase of the shutdown | load and refuse, listen, signal, `Shutdown` (10 s), wait for `hcDone` (3 s), exit | Config, HTTP server, HealthChecker |
| Status, readiness (`main.go`) | none | `/status`: `MaxSlot`, `Snapshot`; `/ready`: `Select` | Pool |
| PoolCollector (`metrics/pool_collector.go`) | none | `Collect`: `Snapshot`, `MaxSlot` | Pool |
| Metrics (`metrics/prometheus.go`) | a registry of counters and a histogram, each a map from labels to numbers | `ObserveRequest`, `ObserveUpstreamError`, `ObserveRPCError`, `ObserveDegraded`, `ObserveRetry`, the scrape | Proxy, PoolCollector |
| Config (`config/config.go`) | none after start-up | `Load`, `validate`, naming of endpoints | everything |
| Bench (`cmd/bench/main.go`) | per worker: latencies and two error counts; the results so far | `run`, `doRequest`, `percentile`, `mean`, `compare` | upstreams and a running mesh, as a client |

What is hard here, and what must be true of it:

- **The pool encodes a history in a few fields.** Two counters and a flag stand
  for "the last n probes"; a cached watermark stands for "the newest slot anyone
  serves" and is deliberately *kept* when nobody reports. Rotation must depend on
  the streaks alone (`ImplementsMembership`), and the cached watermark must never
  make a working pool look stale (`LiveEndpointServesFresh`,
  `PrimaryNeverDegraded`).
- **Selection is randomised.** With two choices and a near-tie band, who can
  never be chosen? At most one endpoint, and only a clearly slow one
  (`AtMostOneStarves`).
- **A cycle is a fan-out.** Goroutines, a deadline, a hung node, a ticker that
  drops ticks, a cancellation at any point: the pool must see whole cycles
  (`OnlyWholeCycles`), never a cancellation (`NoSpuriousFailure`), and dead and
  recovered nodes must be noticed (`DownIsEjected`, `UpIsReadmitted`).
- **A request straddles pool updates.** Between the two selections of one
  request the pool changes, the client leaves, and a failed call may have been
  executed. Writes go out once (`WritesAreSentOnce`), retries go elsewhere
  (a part of `ImplementsGateway`), answers and counters say what happened
  (`AnswersAreTruthful`, `RequestsAreAccounted`), and all of it together is a
  promise that can be stated without the program (`ImplementsGateway`).
- **An answer is a stream.** Its head is peeked at in a window of 4096 bytes, the
  status goes out before the rest, and the upstream can break off anywhere
  (`AppErrorsAreCounted`).
- **Shutdown is a race of three timeouts** (`NoRequestDropped`,
  `CleanStopDropsNothing`, `StopsOnSignal`), and the checker stops first in it
  (`ReadsOutliveTheChecker`).
- **The parts work on each other's stale results.** Probes find a node as it was, the
  pool is a cycle old, a request is older than its choice. When the nodes come to rest
  it must all come right, and within as many cycles as the larger threshold
  (`SettlesInCycles`, `ServedByTheBest`, `OutageIsRefused`).
- **Reports read twice** (`ReportsAreCoherent`).
- **Names and labels are data from outside** that end up as keys of maps that are
  never emptied (`SeriesAreBounded`, `EndpointsAreToldApart`), and whose collision
  takes all metrics away (`ScrapesFailOnCollision`).
- **A benchmark is believed.** Its workers share nothing until they are merged; a
  lost sample, a rank off by one or a target that never answered would show as a
  plausible number (`ResultsAreFaithful`, `PercentilesSplitSamples`,
  `ComparisonIsFair`).

`PROJECT.json` lists these hazards one by one at their source lines.

## The modules

| Module | Models | Built on |
|---|---|---|
| `Pool` | `types.go`: state, both writers, selection | - |
| `Membership` | abstract: rotation as a function of probe outcomes only | - |
| `PoolHistory` | Pool with a history variable; refines Membership | Pool |
| `HealthChecker` | `health_check.go`; composes with the pool it writes | Pool |
| `Proxy` | `proxy.go`; composes with the pool it reads, rewritten in whole cycles; refines Gateway | Pool |
| `Gateway` | abstract: what a client and the upstreams may see of a call | - |
| `Lifecycle` | `main.go` from the listener to the exit | - |
| `Mesh` | nodes, checker, pool, handlers and the signal together | Proxy |
| `Readers` | `/status` and the metrics scrape, over a pool in motion | Pool |
| `Config` | `config.go`: pure operators, no state | - |
| `Metrics` | `prometheus.go`, the start of `main`, and whether a scrape succeeds | Config |
| `Bench` | `cmd/bench/main.go` | - |
| `MCPool`, `MCProxy`, `MCMesh`, `MCMetrics`, `MCBench` | what TLC needs of records, lists and symmetry | their module |
| `PoolProofs`, `HistoryProofs`, `HealthCheckerProofs`, `ProxyProofs`, `LifecycleProofs`, `MetricsProofs`, `BenchProofs` | theorems; `ProxyProofs` also about `Mesh`, `MetricsProofs` also about `Config` | their modules; the second to fourth also `PoolProofs`, the last two `SumProofs` |
| `SumProofs` | lemmas on sums and sizes of finite sets, and induction over the numbers | - |

The arrangement follows the code's own: `HealthChecker` shows that all that
reaches the pool is `Pool!BatchSpec` (`OnlyWholeCycles`); everything else is
checked against a pool driven by `BatchNext`, without the checker's goroutines.
`Mesh` does the same with nodes, so that a cycle says what its probes found.

### Pool

`Pool.endpoints` with the guarded fields of every `Endpoint` is `ep`, and
`Pool.maxSlot` is `maxSlot`. Every method holds the mutex from its first line
to its last, so each is one action or one state function. `Recorded` is
`recordProbeLocked`, with `RecordSuccess` and `RecordFailure` for its two halves;
`RecomputeMaxSlot` is `recomputeMaxSlotLocked`; `ApplyProbes` and `RecordProbe`
call them in the code's order. `ApplyProbes` takes a *partial* function, because
the code skips results whose endpoint is nil. `SelectExcluding` is the **set** of
results the randomised code may return: `Current` and `Lagging` are its two
passes, `PickBest` the draw of a pair, `Faster` the comparison with its band.

`BatchSpec` is what the program does (one result per endpoint, in one write);
`PoolSpec` allows everything the exported methods allow.

Abstractions: the EWMA weight is a fraction where the code has a float64, and
the truncation to whole nanoseconds is an integer division; counters
saturate at `CounterCap`, at least both thresholds, because the code only asks
whether they reached one; a failed result carries no slot or latency, because
`recordProbeLocked` returns before reading them; `lastChecked` is kept as whether
it was set.

### HealthChecker

`pc` is where `Run` is, `probe[e]` where the goroutine of `e` is, `results` the
shared slice (a function defined where a goroutine has written). `StartCycle` is
the loop of `go` statements, `HealthAnswers`, `SlotAnswers` and `ProbeFails` the
outcomes of `defaultProbe`, `ProbeCancelled` what a cancelled context makes of a
call in flight, `Join` the return of `wg.Wait` *and* the test of the context,
`Apply` the batched write, separate from `Join` because a cancellation can fall
between them. `Tick`, `NextCycle` and `Stop` are the ticker and the two cases of
the `select`, which may take a tick although the context is done. The nodes are
the environment: up, flaky or down, changing at any time.

Fairness. Each goroutine, the join and the write run when they can, and a probe
ends within its timeout (`context.WithTimeout`), so weak fairness. Go's
`select` chooses uniformly among ready cases, so it cannot pass over `ctx.Done`
for ever: strong fairness for `Stop`. No fairness for signals or for changes of
a node.

### Proxy

`req[q]` holds the local variables of a handler, what it answered and what it
observed, how much of the body it has read (`relayed`), plus three history fields
(`sent`, `failures`, `stale`). Each place
where the handler gives up control, or where the pool or the client's presence
is read, is a step of its own: `Choose` | `ForwardAnswers`/`ForwardFails` |
`CountFailure` (the test of `r.Context().Err()`) | `Retry` | `WriteHead` |
`Stream`. `PoolStep` and `Leave` may come between any two. Both calls of the
selection use Pool's own operators, and `Retry` drops the `degraded` result, as
the code does. Bodies, headers and wire formats are abstracted to what decides
something: the kind of call (`Kinds`), how a forward fails (`UpstreamFaults`) and
what an upstream answers: a status, whether the body is a JSON-RPC error, and its
length (`ResponseRecord`). `WriteHead` is the peek, the headers and the status: it
reads up to the window, less only if the body breaks off, and finds an error if it
has a whole one that does not fill the window (`ErrorFound`). `Stream` writes what
was peeked, copies on, and ends complete or broken off, which the code does not
tell apart. net/http and the upstream are external.

Fairness: a handler runs; a forward ends by `UpstreamTimeout`, which covers the body
as well; a client reads its answer or goes away (the server sets no write timeout, so
this is an assumption about the client; `Lifecycle` does without it). Nothing is
assumed of the pool: it may never be written again.

`Gateway` is what remains if one forgets the program: a call is sent to one endpoint,
or to a second, different one if it may be repeated; it gets one reply, final, and
an answer is that of the endpoint it was sent to last. `View` is the refinement
mapping. It shows a client's status and the upstreams a body reached, so a second
reply after a broken copy, a send after the reply, or an answer attributed to another
endpoint would each be a step that Gateway does not have.

### Lifecycle

`phase` is where `main` is, `clock` the time spent in the present wait, `age[q]`
how long a request has been in flight. `Limit(q)` is the longest its handler
takes: one `UPSTREAM_TIMEOUT` for a write, two for a call that may be retried.
`DrainLimit` for the 10 s of `Shutdown`, `WaitLimit` for the 3 s wait. `Tick` may not
pass a deadline that is due, which is how a timeout is expressed without a fairness
assumption. A drain can expire in the same instant in which it
completes, since `Shutdown` polls. `Listen` and `ListenFails` are the goroutine that
binds the port: `log.Fatalf` ends the process wherever `main` is, a drain included.
The server limits neither the sending of a body nor the reading of an answer, so the
handler of a `Stalled` client may never end. Fairness: `main` and time progress, and
the handlers of other clients end; the checker is **not** assumed to stop.
Requests arriving on a connection that was kept alive are those of `Arrive`.

### Mesh

The nodes are up, behind or down, and change at any time. `Observe(e)` is the end of
one probe, which finds the node as it is then; `Apply` writes the cycle when all have
ended (`HealthChecker!OnlyWholeCycles` is why it can be put so), and `Signal` stops
both for good, because the checker runs on the signal's own context (`main.go:44`).
`Handle` is a step of Proxy's handler, in which an attempt now ends as its node lets it
(`AsTheNodeIs`). `Settled(n)` says that the pool has followed the nodes for n whole
cycles, and `SettlesInCycles` that each cycle in which no node changes adds one to n,
whatever the pool held before, and what a request chooses then. Fairness is that of the
parts; nothing makes a node change, a client
come or a signal arrive. The other three properties are of the form "if, in the end, no
signal and no change of a node, then, in the end": the antecedents are
behaviours of this specification, and the mutants show that the properties are not
met by default.

### Readers

A report is two atomic reads of the pool with a possible cycle in between, in
the order the code has them: `MaxSlot` then `Snapshot` for `/status` (the order
of evaluation of the composite literal), `Snapshot` then `MaxSlot` for the scrape.
A `GET /ready` is `Pool!Select` and needs no action.

### Config and Metrics

`Config` is a module of operators: `Config(env)` what the `getEnv` helpers make of the
environment, `Validate`, `ParseEndpoints`, `Problems` all that `Load` joins, and `Names`.
A host is a base and the numeric suffixes it ends in, which is all that naming can
tell apart; a number is a number, `Unset`, `Garbage`, or `NaN`, with which every
comparison is false. `CORS_ALLOW_ORIGIN` and `PORT` cannot be wrong: blank, they take their default, and
so validate's test for an empty origin is dead.

`Metrics` starts in one of the `Environments`; `Start` is the head of `main`, which
serves or refuses. `registry` maps a series (the metric's name and its labels) to its
value, and each `Observe...` adds one to the series the code does; `calls` is history,
the same observations with the endpoint's *index* in place of its name. `Scrape` fails
if two gauges of the pool collector have the same label, because the registry's
gathering refuses duplicates and `HTTPErrorOnError` answers with nothing else. Of the
histogram only the count is kept. No known method is called "other", the label of all
that are not known: a method list of which that were false would confuse the two.

### Bench

`workers[w]` is what a worker has gathered of the present target, `Call(w)` one closed-loop
call with any `Outcome`, `Finish` the return of `wg.Wait`, the merge, and after the
last target the comparison. `Outcome` is `doRequest`: a body that breaks off and a
status of 400 or more are errors, an error object in a body is an RPC error, and
anything else is a success, a body that is not JSON included. The workers' samples are merged
by worker and position (`Samples`, `Measured`), and `Sorted` says what a sort returns without
saying how: its k-th element is the sample with fewer than k below it and at least k up to it
(`SortSeq`, the library's sort, is a built-in that the prover cannot look into). `log` is
history, a bag of the outcomes as they came; `Compare` speaks of the results by
their index, because two upstreams may have one name. The rank's floating point is an
exact rounding here. Fairness: some worker's call ends, which its context sees to.

## The runs

| Run | Question | Instance |
|---|---|---|
| `pool` | In whole cycles, can only lagging endpoints be left? Who gets no traffic? Is the EWMA among the samples? | 3 endpoints, a current slot and a lagging one, latencies on both sides of 5/4 |
| `pool_history` | Under any use of the API: does a live endpoint always serve, and fresh? Are the counters streaks? Does rotation depend on outcomes only? | 2 endpoints, thresholds 3 and 2, slots at the lag limit and on both sides of it, all histories |
| `checker` | Whole cycles, no cancellations; ejection, readmission, stopping | 2 endpoints, all interleavings |
| `proxy` | Writes once, honest answers and books; do requests finish? Is Gateway's promise kept, retries elsewhere included? | 1 request, 3 endpoints in motion, bodies of 1 to 3 with a window of 2 |
| `lifecycle` | Whom does the drain protect? Does the process exit? | a write faster and a read slower than the drain, and a client that stalls |
| `readers_coherent` | Do torn reports ever mislead about lag? | 2 endpoints, 1 report of either kind |
| `metrics` | Does a refusal name all problems? When do scrapes fail? Is a count an endpoint's own? | every list of up to 3 of 3 hosts and a bad one, every pair of variables around its bounds; 2 observations |
| `mesh` | Does it come right when the nodes rest, and in how many cycles? And after the checker has stopped? | 2 nodes, requests one after the other |
| `bench` | Is a result what was measured, and the comparison fair? | 2 upstreams and the mesh, 2 workers, `-n 5` |
| three more | the findings below | |

Why the bounds are enough. *Slots*: the code compares a lag with zero and with
`MaxSlotLag`, so a base, one at the limit and one beyond it give all
outcomes of these comparisons, regressions included (`pool_history`, with 0 for a node
that reports none); the larger runs have the base and the one beyond. *Endpoints*: the
properties of selection speak of one choice against the others; three give a
watermark holder, a second current and a lagging endpoint; the near-tie band,
which is not transitive, shows itself with three latencies. `mesh` has two: one
of each pair of states, and a retry with one alternative. *Thresholds* of 2
and 3 tell streaks from totals; `proxy` and `mesh`, where it does not matter how an
endpoint came to be ejected, have both at 1. *Requests*: handlers share only the pool,
which they do not write, so one request against a pool that does anything it can
has every behaviour a handler can meet; three are used where requests meet, in the
drain. *Bodies*: shorter than the window, as long, longer. *Names*: a collision needs
two of a host and one called after it, three in all. *Observations*: two, so that one can be
booked on the other's series; `CallLimit` bounds the only counters that grow. *Samples*:
an odd `-n` leaves a remainder of the division, and up to four samples put the 50th apart
from the 95th and 99th (`RankIsNear` is for any number). `CounterCap` is the larger threshold. No run has
a state constraint: all the state spaces are finite as they are. Deadlock is
checked everywhere except where the program stops: in Lifecycle, in Bench, and in
Metrics, where a process that refused its configuration is over. Symmetry
is used on endpoints, and only in runs without temporal properties.

An operator marked `mutant:` in a module is a plausible bug of the definition
that follows it. Each property is violated when one of them takes that
definition's place.

## What the runs disagree with

Each row is a run that is expected to find a violation.

| Run | The source says | The code does |
|---|---|---|
| `proxy_stale_retry` | a lagging answer is flagged, "the caller is told" (`README.md:96-99`) | the retry drops `degraded` (`proxy.go:271`) |
| `proxy_double_count` | the counter counts failures (`prometheus.go:130`) | one that cannot be retried is counted at `proxy.go:266` and at `proxy.go:281` |
| `lifecycle_dropped` | "draining in between is what makes deploys not drop requests" (`main.go:30-32`) | 10 s of drain against 15 s for one attempt |

Smaller ones, without a run of their own:

- `main.go:126-127` says that "stopping the checker first would leave in-flight requests
  routing on health data that has stopped updating"; the checker runs on the signal's
  own context, stops first, and they do. `ReadsOutliveTheChecker` is what holds all the same.
- `max_slot` is called "the reference point for slot lag" (`pool_collector.go:63`), but a
  scrape reads it after the snapshot, under another lock, and a cycle may lie between.
- `README.md:78` says "pick the lowest EWMA latency"; the code picks the better of two
  with a band. The list of reasons at `prometheus.go:130` lacks `client_cancelled`, which
  is counted as an upstream error.
- `rpcmesh_rpc_errors_total` counts errors "inside a 2xx response body"
  (`prometheus.go:135`); the code counts them in any answer it relays, 4xx included.
- A full window is taken to be a successful result (`proxy.go:182-183`); an
  error of 4096 bytes or more is not counted.
- `errors.Join` "reports every problem at once" (`config.go:70`), but of the endpoint URLs
  only the first bad one. An interval that does not parse is also judged by its default,
  so that a timeout set along with it can draw the complaint about overlap.
- "EWMA_ALPHA must be in (0, 1]" (`config.go:147`), and `NaN` passes.
- `percentile` claims "the nearest-rank method" (`cmd/bench/main.go:260`); it rounds where that takes the
  ceiling, so that the 95th of 11 samples is the 10th and not the 11th.
- In the benchmark `-c 0` divides by zero, `-c` greater than `-n` measures nothing, and an
  upstream whose host is `rpc-mesh` is left out of the comparison.

A fact worth knowing that is no disagreement: a *first* choice is never degraded in
this program (`PrimaryNeverDegraded`, proved). Because a cycle writes a result for
every endpoint, an endpoint lags only relative to a healthy one that fails no
more probes in a row. So in practice the degraded flag can concern only a retry, the
very case in which it is dropped.

## What is proved

By TLAPS, for any finite set of endpoints, any set of requests and any constants
allowed by the modules' named assumptions. `PoolAssumption` is what
`config.validate` and `NewPool` enforce, plus "a measured latency is positive" and
"counters are not capped below a threshold"; the others only type the constants, and
say that a value which does not parse, or is not set, is no number.

| Module | Theorem | Statement |
|---|---|---|
| `PoolProofs` | `PoolTypeCorrect` | `PoolSpec => []TypeOK` |
| | `LiveServesFresh` | `PoolSpec => []LiveEndpointServesFresh` |
| | `EwmaStaysAmongSamples` | `PoolSpec => []EwmaTracksSamples` |
| | `LoadSpreads` | `PoolSpec => []AtMostOneStarves` |
| | `BatchAnchored` | `BatchSpec => []Anchored` |
| | `FirstChoiceNeverDegraded` | `BatchSpec => []PrimaryNeverDegraded` |
| `HistoryProofs` | `CountersCountStreaks` | `HistSpec => []CountersAreStreaks` |
| | `PoolImplementsMembership` | `HistSpec => ImplementsMembership` |
| | `EveryReportIsCoherent` | `ReadersSpec => []ReportsAreCoherent` |
| `HealthCheckerProofs` | `CheckerTypeCorrect` | `SafeSpec => []CheckerTypeOK` |
| | `ShutdownEjectsNobody` | `SafeSpec => []NoSpuriousFailure` |
| | `CheckerWritesWholeCycles` | `SafeSpec => BatchSpec` |
| | `ProgramNeverDegraded` | `SafeSpec => []PrimaryNeverDegraded` |
| `ProxyProofs` | `ProxyTypeCorrect` | `ProxySafeSpec => []ProxyTypeOK` |
| | `NoWriteIsRepeated` | `ProxySafeSpec => []WritesAreSentOnce` |
| | `RetryGoesElsewhere` | `ProxySafeSpec => []RetriesGoElsewhere` |
| | `AnswerIsTruthful` | `ProxySafeSpec => []AnswersAreTruthful` |
| | `RequestIsAccounted` | `ProxySafeSpec => []RequestsAreAccounted` |
| | `NoRequestDegraded` | `ProxySafeSpec => []NeverDegraded` |
| | `AppErrorIsCounted` | `ProxySafeSpec => []AppErrorsAreCounted` |
| | `GoneClientIsNotRetried` | `ProxySafeSpec => GoneClientsAreNotRetried` |
| | `ProxyImplementsGateway` | `ProxySafeSpec => ImplementsGateway` |
| | `MeshSettlesInCycles` | `MeshSafeSpec => SettlesInCycles` |
| | `MeshKeepsProxySafe` | the six safety properties of the request path above, of `MeshSafeSpec` |
| `LifecycleProofs` | `LifecycleTypeCorrect` | `SafeSpec => []LifecycleTypeOK` |
| | `ShortRequestsAreAnswered` | `SafeSpec => []DrainCoversShortRequests` |
| | `CleanStopIsClean` | `SafeSpec => []CleanStopDropsNothing` |
| `MetricsProofs` | `NamesAreDistinct` | `IsInjective(Names(hosts)) <=> ~ Collides(hosts)` |
| | `MetricsTypeCorrect` | `Spec => []MetricsTypeOK` |
| | `ScrapesFailExactlyOnCollision` | `Spec => []ScrapesFailOnCollision` |
| | `LabelsAreBounded` | `Spec => []SeriesAreBounded` |
| | `AllProblemsAreReported` | `Spec => []EveryProblemIsReported` |
| | `EndpointsToldApart` | `Spec => []EndpointsAreToldApart` |
| `BenchProofs` | `RankIsNear` | the rank lies in the sample, within half an observation of n*p/100 |
| | `ResultIsFaithful` | `Spec => ResultsAreFaithful` |
| | `PercentilesSplit` | `Spec => []PercentilesSplitSamples` |
| | `ComparisonFair` | `Spec => []ComparisonIsFair` |

The arguments.

*Freshness.* `PoolInv` adds to `TypeOK` that the watermark agrees
with the endpoints it is taken from: no reporting endpoint is above it, and
if any of them reports a slot, one has exactly that slot (lemma
`Watermark`, from the maximum of a finite set of numbers). `TypeOK` alone says nothing
about the watermark, so it is not enough. Whoever holds the watermark is healthy
and has no lag, hence the first pass of the selection is not empty.

*Never degraded.* `PrimaryNeverDegraded` is not inductive. In a cycle in which nobody
answers, the watermark stays, and it must be excluded that the current endpoints
are ejected while lagging ones remain. `Anchored` is the strengthening: every lagging
endpoint in rotation has beside it one without lag whose streak of failures is no
longer. The proof splits on whether the cycle leaves anyone reporting: if so, the
holder of the watermark is the new anchor, with a streak of 0
(`AnsweredCycleAnchors`); if not, every endpoint in rotation has failed, all streaks
grew together and the old anchor still serves (`SilentCycleAnchors`).

*Load.* By contradiction from two starved endpoints, with the arithmetic of the band
(`StarvedIsOutranked`).

*Whole cycles.* `CheckerInv` adds to the fan-out's happens-before that `results` is a
function and that a batch about to be applied, or a cycle whose context is not
done, has no cancellation in it. The former makes a complete slice an element of
`[Endpoints -> Results]`, so `Apply` is a `BatchNext` step and all others are stutters;
the latter is needed because the context is tested before the write, not with it.
By this refinement the theorems about `BatchSpec` hold of the program.

*Requests.* None of the properties is inductive: they speak of finished requests or of
two fields, and what they say depends on where the handler is. `ProxyInv` says, for
each step `pc`, what has been sent, counted and observed by then (`BooksOK`), to
whom (`RouteOK`), and what has been answered (`AnswerOK`), over the pool's
`BatchInv`, from which `NoRequestDegraded` follows.

*Clients that leave.* `GoneClientsAreNotRetried` speaks of all that follows a state, so the
proof needs an invariant of one request from there on: `Abandoned`, a handler whose client
has gone and whose one attempt has failed. Its next step reads the client's context, counts
the failure and reports it, and no client comes back.

*The composition.* A step of `Mesh` is a step of a handler, a whole cycle or neither, so
`ProxyInv` is an invariant of it as well (`MeshInv`, with `SeenOK`: the batch that `Apply`
writes has one result per endpoint), and `ProxyInvShows` gives its consequences. For
`SettlesInCycles`: `StreaksDecide` says that after as many equal outcomes as the threshold
an endpoint's side is the one they ask for; `StreaksStep` that a cycle whose results are what the
nodes are makes `Settled(n)` into `Settled(n + 1)`; and with a node at the tip the
watermark is `Tip`, so that those behind lag and the first pass leaves the best
(`SettledPool`, `SettledChoice`).

*Shutdown.* `DrainInv`: a request in flight during the drain is at least as old as the
drain, since it was accepted before the listener closed; so when the drain expires,
whoever is dropped is at least `DrainLimit` old, and a handler's age is bounded by
its own limit.

*Gateway.* Each action of a handler either leaves `View` unchanged (`QuietStep`) or
changes it as one action of Gateway does. `ProxyInv` is needed to know that a body not
yet answered has no status, that a second send follows a failure of a repeatable call, and
that the endpoint named is the last one sent to.

*Streaks.* `HistInv` says of every endpoint that its counters track its window
(`Tracks`): a counter has reached n exactly if the n newest outcomes are of its kind. A new
outcome lengthens one streak by one and ends the other (`ShiftedStreak`), and so does the
code to the counters (`BumpReaches`: saturating at `CounterCap` loses no comparison that
is made). Both thresholds are within the window, so the side of the rotation
follows (`SideFollowsHistory`), which is Membership's step.

*Reports.* A snapshot of a pool that satisfies `BatchInv` is coherent: a lagging endpoint
has its anchor, and the most advanced one that answers is at the watermark. It is a value, so
cycles applied later do not reach it; the invariant carries this from the snapshot to the
sending of the report, wherever the watermark is read.

*Names.* A first occurrence keeps its host and a later one is suffixed with its count,
so two of one host differ by their counts, two of different hosts can only agree if one
is the other suffixed. `Scrape` and `Start` then compare the same thing.

*Configuration and labels.* What `Load` validates is the number the environment gives, so
each bound of `Unusable` is one of `Validate`'s, and what does not parse is a problem of
its own when it is read; `Loaded` carries this from the start on. An observation adds no
series but those it is given, and each of these has passed `MethodLabel` or `CodeLabel`.

*Counts.* `Books` says that the registry and the calls are bags whose totals agree, a
request counting twice; an observation adds one call and one or two series, each of
them by one (`ObserveOne`, `ObserveTwo`). `ToldApart` is the invariant behind
`EndpointsAreToldApart`: with distinct names, a call of another endpoint never lands on
the same series, and no other observation has the metric of the duration. The sums are those of the community
modules, defined by recursion over the set. `SumProofs` shows that the recursion has a
solution on every finite set, by induction on its size, and from that what a sum is with
one index taken out, added or changed (`SumFacts`, `SumSame`, `SumWith`). The induction is
stated for a *set* of numbers that has 0 and with every number the next (`SetInduction`),
which follows from their well-foundedness.

*Benchmark.* `BenchInv` is `Tallied` together with the order of the results so far. `Tallied`: of each
outcome the workers hold as many as were logged, and the calls they made are their samples and errors
together; `CallIsTallied` shows this of one more call, by whichever worker (`SamplesGrow`,
`SumOverWorkers`). When all have made `Per` calls that is `Conc * (n \div Conc)` in all, hence the bounds
on what is measured. `Sorted` is in ascending order and has each duration as often as the samples do
(`SortedIs`): the order statistic of every rank exists (`OrderStatistic`) and does not fall as the rank
grows. From the order alone, at least `k` samples are up to the
`k`-th and fewer than `k` below it (`SplitAtRank`), which with `RankIsNear` splits the sample. The
comparison needs that the index of a fastest upstream exists (`LeastNumber`)
and that the mean of numbers none of which is below `low` is not below `low`, rounded down though it is
(`MeanIsBetween`).

Only model-checked: liveness and whatever rests on fairness, which the prover does
not treat (of `mesh`, the three properties that begin with "in the end"; what they rest on
is `MeshSettlesInCycles`; the others are `DownIsEjected`,
`UpIsReadmitted`, `StopsWhenCancelled`, `RequestsFinish`, `StopsOnSignal` and `BenchEnds`). Every invariant and every `[][...]_vars`
property of the passing runs is stated by a theorem above.

## What is not modelled

- Logging, the wording of answers, the layout of the benchmark's two tables, the
  redaction of URLs: text that nothing depends on.
- CORS and the relaying of upstream headers (`proxy.go:324-339`, `378-437`): the same
  for every request, by two fixed lists. The code *adds* headers, so an upstream that is
  itself an rpc-mesh contributes its own `X-RPC-Mesh-*` beside this one's.
- TLS, connection pooling and redirects: settings of net/http, which appear as the ways
  an attempt can fail.
- The buckets of the histogram, and the gauges' values beyond what `Readers` shows.
- A NaN weight in the pool: `Config` lets it through as the code does, but `Pool`
  has a fraction for a weight.
- Overflow of uint64 slots: `SlotLimit` bounds them, and `SlotLag` subtracts only
  after comparing, so nothing wraps.
- The server listens before the first cycle ends, which the model covers by the
  optimistic initial pool.

## The plan

Done, in this order: `Pool`, `Membership`, `PoolHistory`, `HealthChecker`, `Proxy`,
`Lifecycle`, `Readers`, and the proofs about them; then the stream of an answer and
`Gateway`, the listener and stalled clients in `Lifecycle`, `Config`, `Metrics`, `Bench`,
`Mesh`, the refinements of `Gateway` and `Membership`, and the coherence of reports.

Left:
1. `Mesh` with two requests and thresholds of 2, if its state space can be cut down (with
   one threshold of 2 the properties hold; `MeshSettlesInCycles` is for any).
2. The headers, as sets of names with their origin, to state what a client of chained
   meshes is told.
