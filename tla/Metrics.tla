------------------------------ MODULE Metrics ------------------------------
(***************************************************************************)
(* The process as its metrics show it: main loads the configuration or     *)
(* gives up (src/main.go), the handlers observe what they did through      *)
(* router.ProxyStats (src/metrics/prometheus.go), and a scrape gathers the *)
(* counters with the gauges of the pool (src/metrics/pool_collector.go).   *)
(***************************************************************************)
EXTENDS Bags, BagsExt, Config

CONSTANTS
  Environments,  \* the environments the process may be started in
  Known,         \* knownMethods, the sentinels "batch" and "unknown" included
  Methods,       \* the method names clients send
  Statuses,      \* the status codes answered
  KnownCodes,    \* knownRPCErrorCodes
  Codes,         \* the error codes upstreams send
  Reasons,       \* the reasons classifyError gives
  None,          \* "none", where no endpoint was found
  CallLimit      \* bound: the observations made

ASSUME MetricsAssumption ==
  /\ CallLimit \in Nat
  /\ "other" \notin Known
  /\ \A e \in Environments :
       /\ DOMAIN e = Numbers \cup {"RPC_ENDPOINTS"}
       /\ e.RPC_ENDPOINTS \in Seq(Hosts \cup {Bad})
       /\ \A k \in Numbers \ {"EWMA_ALPHA"} : e[k] \in Int \cup {Unset, Garbage}

VARIABLES
  env,       \* the environment
  phase,     \* "starting", "refused" or "serving"
  problems,  \* what the fatal message names
  names,     \* the endpoints' names, once loaded
  registry,  \* the counter vectors: for every series its value
  calls,     \* history: the observations asked for, each with its endpoint's index
  scrape     \* the outcome of the last scrape

vars == <<env, phase, problems, names, registry, calls, scrape>>

Endpoints == DOMAIN names

\* mutant: the client's own word is the label
MethodVerbatim(m) == m

\* normalizeMethod
MethodLabel(m) == IF m \in Known THEN m ELSE "other"

\* codeLabel
CodeLabel(code) == IF code \in KnownCodes THEN code ELSE "other"

StatusLabel(code) ==
  CASE code >= 500 -> "5xx"
    [] code \in 400 .. 499 -> "4xx"
    [] code \in 200 .. 299 -> "2xx"
    [] OTHER -> "other"

Init ==
  /\ env \in Environments /\ phase = "starting" /\ problems = {} /\ names = <<>>
  /\ registry = EmptyBag /\ calls = EmptyBag /\ scrape = "none"

\* log.Fatalf on a configuration error, else the pool is made and served.
Start ==
  /\ phase = "starting" /\ problems' = Problems(env)
  /\ IF problems' = {}
     THEN phase' = "serving" /\ names' = Names(env.RPC_ENDPOINTS)
     ELSE phase' = "refused" /\ UNCHANGED names
  /\ UNCHANGED <<env, registry, calls, scrape>>

\* A handler makes one observation, which adds one to every series given. There
\* are handlers once main serves.
Observe(call, series) ==
  /\ phase = "serving" /\ SumFunction(calls) < CallLimit
  /\ calls' = BagAdd(calls, call)
  /\ registry' = registry (+) SetToBag(series)
  /\ UNCHANGED <<env, phase, problems, names, scrape>>

\* mutant: the duration is only observed of answers in the 2xx range
ObserveRequestIfAnswered ==
  \E i \in Endpoints, m \in Methods, status \in Statuses :
    Observe([op |-> "request", at |-> i, method |-> m],
            {<<"requests", names[i], MethodLabel(m), StatusLabel(status)>>}
              \cup (IF StatusLabel(status) = "2xx"
                    THEN {<<"duration", names[i], MethodLabel(m)>>} ELSE {}))

\* The counter and the histogram's count.
ObserveRequest ==
  \E i \in Endpoints, m \in Methods, status \in Statuses :
    Observe([op |-> "request", at |-> i, method |-> m],
            {<<"requests", names[i], MethodLabel(m), StatusLabel(status)>>,
             <<"duration", names[i], MethodLabel(m)>>})

ObserveUpstreamError ==
  \E i \in Endpoints \cup {0}, m \in Methods, reason \in Reasons :
    /\ (i = 0) = (reason = "no_endpoints")
    /\ Observe([op |-> "error", at |-> i, method |-> m],
               {<<"errors", IF i = 0 THEN None ELSE names[i], MethodLabel(m), reason>>})

ObserveRPCError ==
  \E i \in Endpoints, m \in Methods, code \in Codes :
    Observe([op |-> "rpc_error", at |-> i, method |-> m],
            {<<"rpc_errors", names[i], MethodLabel(m), CodeLabel(code)>>})

ObserveDegraded ==
  \E i \in Endpoints, m \in Methods :
    Observe([op |-> "degraded", at |-> i, method |-> m],
            {<<"degraded", names[i], MethodLabel(m)>>})

ObserveRetry ==
  \E i \in Endpoints, m \in Methods : \E j \in Endpoints \ {i} :
    Observe([op |-> "retry", at |-> i, method |-> m],
            {<<"retries", names[i], MethodLabel(m), names[j]>>})

\* Gather refuses two gauges of one name and label, and HTTPErrorOnError then
\* answers the scrape with an error and no metric at all.
Scrape ==
  /\ phase = "serving"
  /\ scrape' = IF IsInjective(names) THEN "served" ELSE "failed"
  /\ UNCHANGED <<env, phase, problems, names, registry, calls>>

Next ==
  \/ Start \/ Scrape
  \/ ObserveRequest \/ ObserveUpstreamError \/ ObserveRPCError \/ ObserveDegraded \/ ObserveRetry

Spec == Init /\ [][Next]_vars

-----------------------------------------------------------------------------
(* Properties *)

\* The value of counter s in bag b.
Value(s, b) == IF s \in DOMAIN b THEN b[s] ELSE 0

\* The types, and the balance of the books: two series grow with a request, one
\* with any other observation.
MetricsTypeOK ==
  /\ DOMAIN env = Numbers \cup {"RPC_ENDPOINTS"} /\ phase \in {"starting", "refused", "serving"}
  /\ problems \subseteq DOMAIN env \cup {"overlap"} /\ names \in Seq(Range(names))
  /\ scrape \in {"none", "served", "failed"}
  /\ IsABag(calls) /\ IsABag(registry)
  /\ SumFunction(registry) =
       SumFunction(calls) + SumFunctionOnSet(calls, {c \in DOMAIN calls : c.op = "request"})

\* What a variable may be set to, by the text of the complaint about it.
Unusable(k, v) ==
  \/ v = Garbage
  \/ k \in {"HEALTH_INTERVAL", "HEALTH_TIMEOUT", "UPSTREAM_TIMEOUT"} /\ v \in Int /\ v <= 0
  \/ k \in {"FAIL_THRESHOLD", "OK_THRESHOLD"} /\ v \in Int /\ v < 1
  \/ k = "MAX_BODY_BYTES" /\ v \in Int /\ v < 1024
  \/ k = "EWMA_ALPHA" /\ v \in Int /\ v \notin 1 .. 100

\* A process that refuses to start names every variable that is unusable, at
\* once (config.go:70-71), and one that serves has none, and probes that end
\* before the next cycle begins (config.go:142).
EveryProblemIsReported ==
  LET wrong == {k \in Numbers : Unusable(k, env[k])} IN
  /\ phase # "starting" => wrong \subseteq problems
  /\ phase = "serving" =>
       /\ env.RPC_ENDPOINTS # <<>>
       /\ Config(env).HEALTH_TIMEOUT < Config(env).HEALTH_INTERVAL

\* A scrape fails, for all endpoints, exactly if some host is literally called
\* what another is renamed to (config.go:107).
ScrapesFailOnCollision ==
  /\ scrape = "failed" => Collides(env.RPC_ENDPOINTS)
  /\ scrape = "served" => ~ Collides(env.RPC_ENDPOINTS)

\* Unless it is so, each endpoint has its own series: what is counted under its
\* name and a known method are its requests, and no other's.
EndpointsAreToldApart ==
  phase = "serving" /\ ~ Collides(env.RPC_ENDPOINTS) =>
    \A i \in Endpoints, m \in Known :
      Value([op |-> "request", at |-> i, method |-> m], calls)
        = Value(<<"duration", names[i], m>>, registry)

\* Whatever clients and upstreams send, the labels come from fixed lists, so the
\* registry cannot grow with the traffic (prometheus.go:14-19, 51-56).
SeriesAreBounded ==
  \A s \in DOMAIN registry :
    /\ s[3] \in Known \cup {"other"}
    /\ s[1] = "rpc_errors" => s[4] \in KnownCodes \cup {"other"}

=============================================================================
