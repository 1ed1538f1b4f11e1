--------------------------- MODULE MetricsProofs ---------------------------
(***************************************************************************)
(* Proofs about Metrics and the configuration it starts from, for every    *)
(* environment.                                                            *)
(***************************************************************************)
EXTENDS Metrics, SequenceTheorems, SumProofs

-----------------------------------------------------------------------------
(* The endpoints' names *)

\* The occurrences of one host are counted upwards, without a gap to the left.
LEMMA CountGrows ==
  ASSUME NEW hosts, NEW n \in Nat, DOMAIN hosts = 1 .. n, NEW i \in 1 .. n
  PROVE  /\ Count(hosts, i) \in Nat \ {0}
         /\ \A j \in 1 .. n : j < i /\ hosts[j] = hosts[i] => Count(hosts, j) < Count(hosts, i)
<1> DEFINE Same(k) == {m \in 1 .. k : hosts[m] = hosts[k]}
<1>1. \A k \in 1 .. n : IsFiniteSet(Same(k)) /\ Cardinality(Same(k)) \in Nat /\ Count(hosts, k) = Cardinality(Same(k))
  <2> TAKE k \in 1 .. n
  <2>1. IsFiniteSet(1 .. k)
    BY CardinalityFacts
  <2>2. Same(k) \in SUBSET (1 .. k)
    OBVIOUS
  <2>3. IsFiniteSet(Same(k))
    BY <2>1, <2>2, FiniteSetsGrow
  <2> QED
    BY <2>3, CardinalityFacts DEF Count
<1>2. Count(hosts, i) # 0
  <2>1. i \in Same(i)
    OBVIOUS
  <2>2. Cardinality(Same(i)) # 0
    BY <1>1, <2>1, CardinalityFacts
  <2> QED
    BY <1>1, <2>2
<1>3. ASSUME NEW j \in 1 .. n, j < i, hosts[j] = hosts[i]
      PROVE  Count(hosts, j) < Count(hosts, i)
  <2>1. Same(j) \in SUBSET Same(i)
    BY <1>3
  <2>2. i \in Same(i) /\ i \notin Same(j)
    BY <1>3
  <2>3. /\ Cardinality(Same(j)) <= Cardinality(Same(i))
        /\ Cardinality(Same(i)) = Cardinality(Same(j)) => Same(i) = Same(j)
    BY <1>1, <2>1, CardinalityFacts
  <2>4. Same(i) # Same(j)
    BY <2>2
  <2> HIDE DEF Same
  <2> QED
    BY <1>1, <2>3, <2>4
<1> QED
  BY <1>1, <1>2, <1>3

\* Every host of the list has a first occurrence, which keeps its name.
LEMMA FirstOccurrence ==
  ASSUME NEW hosts, NEW n \in Nat, DOMAIN hosts = 1 .. n, NEW i \in 1 .. n
  PROVE  \E k \in 1 .. n : hosts[k] = hosts[i] /\ Count(hosts, k) = 1
<1> DEFINE Same == {m \in 1 .. n : hosts[m] = hosts[i]}
<1>1. Same \subseteq Nat /\ i \in Same
  OBVIOUS
<1>2. PICK k \in Same : \A m \in Same : k <= m
  BY <1>1, LeastNumber
<1>3. \A m \in Same : ~ (m < k)
  BY <1>1, <1>2
<1>4. {m \in 1 .. k : hosts[m] = hosts[k]} = {k}
  BY <1>3
<1>5. Count(hosts, k) = 1
  BY <1>4, CardinalityFacts DEF Count
<1> QED
  BY <1>5

\* A host and a suffix can be read off the name they make.
LEMMA SuffixedInjective ==
  ASSUME NEW g \in Hosts, NEW h \in Hosts, NEW m \in Nat, NEW n \in Nat,
         Suffixed(g, m) = Suffixed(h, n)
  PROVE  g = h /\ m = n
<1>1. /\ g = [base |-> g.base, suffix |-> g.suffix] /\ g.suffix \in Seq(Nat)
      /\ h = [base |-> h.base, suffix |-> h.suffix] /\ h.suffix \in Seq(Nat)
  BY ConfigAssumption
<1>2. Suffixed(g, m).base = g.base /\ Suffixed(g, m).suffix = Append(g.suffix, m)
  BY <1>1 DEF Suffixed
<1>3. Suffixed(h, n).base = h.base /\ Suffixed(h, n).suffix = Append(h.suffix, n)
  BY <1>1 DEF Suffixed
<1>4. g.base = h.base /\ Append(g.suffix, m) = Append(h.suffix, n)
  BY <1>2, <1>3
<1>5. g.suffix = h.suffix /\ m = n
  BY <1>1, <1>4, AppendInjective
<1> QED
  BY <1>1, <1>4, <1>5

\* The names of a list of endpoints are distinct exactly if no host is literally
\* called what another is renamed to (config.go:83-118).
THEOREM NamesAreDistinct ==
  ASSUME NEW hosts \in Seq(Hosts)
  PROVE  IsInjective(Names(hosts)) <=> ~ Collides(hosts)
<1> DEFINE n == Len(hosts)
<1> DEFINE C(i) == Count(hosts, i)
<1>1. n \in Nat /\ DOMAIN hosts = 1 .. n /\ \A i \in 1 .. n : hosts[i] \in Hosts
  OBVIOUS
<1>2. \A i \in 1 .. n : C(i) \in Nat \ {0}
  BY <1>1, CountGrows
<1>3. \A i, j \in 1 .. n : hosts[i] = hosts[j] /\ C(i) = C(j) => i = j
  <2> SUFFICES ASSUME NEW i \in 1 .. n, NEW j \in 1 .. n, hosts[i] = hosts[j], j < i
               PROVE  C(j) < C(i)
    BY <1>2
  <2> QED
    BY <1>1, CountGrows
<1>4. DOMAIN Names(hosts) = 1 .. n
      /\ \A i \in 1 .. n : Names(hosts)[i] = IF C(i) = 1 THEN hosts[i] ELSE Suffixed(hosts[i], C(i))
  BY <1>1 DEF Names
<1>5. Collides(hosts) <=> \E i, j \in 1 .. n : C(j) > 1 /\ hosts[i] = Suffixed(hosts[j], C(j))
  BY <1>1 DEF Collides
<1> HIDE DEF n, C
<1>6. ASSUME ~ Collides(hosts), NEW i \in 1 .. n, NEW j \in 1 .. n,
             Names(hosts)[i] = Names(hosts)[j]
      PROVE  i = j
  <2>1. CASE C(i) = 1 /\ C(j) = 1
    BY <1>3, <1>4, <1>6, <2>1
  <2>2. CASE C(i) # 1 /\ C(j) # 1
    <3>1. Suffixed(hosts[i], C(i)) = Suffixed(hosts[j], C(j))
      BY <1>4, <1>6, <2>2
    <3>2. hosts[i] = hosts[j] /\ C(i) = C(j)
      BY <1>1, <1>2, <3>1, SuffixedInjective
    <3> QED
      BY <1>3, <3>2
  <2>3. CASE C(i) = 1 /\ C(j) # 1
    <3>1. hosts[i] = Suffixed(hosts[j], C(j)) /\ C(j) > 1
      BY <1>2, <1>4, <1>6, <2>3
    <3> QED
      BY <1>5, <1>6, <3>1
  <2>4. CASE C(i) # 1 /\ C(j) = 1
    <3>1. hosts[j] = Suffixed(hosts[i], C(i)) /\ C(i) > 1
      BY <1>2, <1>4, <1>6, <2>4
    <3> QED
      BY <1>5, <1>6, <3>1
  <2> QED
    BY <2>1, <2>2, <2>3, <2>4
<1>7. ASSUME Collides(hosts) PROVE ~ IsInjective(Names(hosts))
  <2>1. PICK i, j \in 1 .. n : C(j) > 1 /\ hosts[i] = Suffixed(hosts[j], C(j))
    BY <1>5, <1>7
  <2>2. PICK k \in 1 .. n : hosts[k] = hosts[i] /\ C(k) = 1
    BY <1>1, FirstOccurrence DEF C
  <2>3. C(j) # 1 /\ k # j
    BY <1>2, <2>1, <2>2
  <2>4. Names(hosts)[k] = Names(hosts)[j]
    BY <1>4, <2>1, <2>2, <2>3
  <2> QED
    BY <1>4, <2>3, <2>4 DEF IsInjective
<1> QED
  BY <1>4, <1>6, <1>7 DEF IsInjective

\* A list without a bad part is a list of hosts.
LEMMA NoProblemNoBadPart ==
  ASSUME NEW parts \in Seq(Hosts \cup {Bad}), ParseEndpoints(parts) = {}
  PROVE  parts \in Seq(Hosts)
<1>1. Bad \notin Range(parts)
  BY DEF ParseEndpoints
<1>2. \A i \in 1 .. Len(parts) : parts[i] \in Hosts
  BY <1>1 DEF Range
<1> QED
  BY <1>2, SeqDef

-----------------------------------------------------------------------------
(* What a scrape finds *)

\* What a scrape finds: the names given at the start, to hosts that are URLs.
Named ==
  /\ env \in Environments
  /\ phase = "serving" => /\ env.RPC_ENDPOINTS \in Seq(Hosts)
                          /\ names = Names(env.RPC_ENDPOINTS)
  /\ phase # "serving" => scrape = "none"

LEMMA NamedInit == Init => Named
  BY DEF Init, Named

LEMMA NamedStep == Named /\ [Next]_vars => Named'
<1> SUFFICES ASSUME Named, [Next]_vars PROVE Named'
  OBVIOUS
<1> USE DEF Named
<1>1. CASE Start
  <2>1. CASE Problems(env) = {}
    <3>1. env.RPC_ENDPOINTS \in Seq(Hosts \cup {Bad}) /\ ParseEndpoints(env.RPC_ENDPOINTS) = {}
      BY <2>1, MetricsAssumption DEF Problems
    <3>2. env.RPC_ENDPOINTS \in Seq(Hosts)
      BY <3>1, NoProblemNoBadPart
    <3> QED
      BY <1>1, <2>1, <3>2 DEF Start
  <2>2. CASE Problems(env) # {}
    BY <1>1, <2>2 DEF Start
  <2> QED
    BY <2>1, <2>2
<1>2. CASE Scrape
  BY <1>2 DEF Scrape
<1>3. CASE ObserveRequest
  BY <1>3 DEF ObserveRequest, Observe
<1>4. CASE ObserveUpstreamError
  BY <1>4 DEF ObserveUpstreamError, Observe
<1>5. CASE ObserveRPCError
  BY <1>5 DEF ObserveRPCError, Observe
<1>6. CASE ObserveDegraded
  BY <1>6 DEF ObserveDegraded, Observe
<1>7. CASE ObserveRetry
  BY <1>7 DEF ObserveRetry, Observe
<1>8. CASE UNCHANGED vars
  BY <1>8 DEF vars
<1> QED
  BY <1>1, <1>2, <1>3, <1>4, <1>5, <1>6, <1>7, <1>8 DEF Next

\* The outcome of a scrape is that of the names' comparison.
LEMMA ScrapeStep == Named /\ ScrapesFailOnCollision /\ [Next]_vars => ScrapesFailOnCollision'
<1> SUFFICES ASSUME Named, ScrapesFailOnCollision, [Next]_vars PROVE ScrapesFailOnCollision'
  OBVIOUS
<1>1. CASE Scrape
  <2>1. IsInjective(names) <=> ~ Collides(env.RPC_ENDPOINTS)
    BY <1>1, NamesAreDistinct DEF Named, Scrape
  <2>2. env' = env /\ scrape' = IF IsInjective(names) THEN "served" ELSE "failed"
    BY <1>1 DEF Scrape
  <2> QED
    BY <2>1, <2>2 DEF ScrapesFailOnCollision
<1>2. CASE env' = env /\ scrape' = scrape
  BY <1>2 DEF ScrapesFailOnCollision
<1>3. CASE ~ Scrape
  <2>1. env' = env /\ scrape' = scrape
    BY <1>3 DEF Next, vars, Start, ObserveRequest, ObserveUpstreamError, ObserveRPCError,
                ObserveDegraded, ObserveRetry, Observe
  <2> QED
    BY <1>2, <2>1
<1> QED
  BY <1>1, <1>3

\* In every environment, a scrape is refused exactly if two endpoints ended up
\* with one name, which takes a host that is literally called what another is
\* renamed to (config.go:107).
THEOREM ScrapesFailExactlyOnCollision == Spec => []ScrapesFailOnCollision
<1>1. Init => Named /\ ScrapesFailOnCollision
  BY NamedInit DEF Init, ScrapesFailOnCollision
<1> QED
  BY <1>1, NamedStep, ScrapeStep, PTL DEF Spec

\* A series whose labels are from the fixed lists.
Bounded(s) ==
  /\ s[3] \in Known \cup {"other"}
  /\ s[1] = "rpc_errors" => s[4] \in KnownCodes \cup {"other"}

\* An observation adds only the series it is given.
LEMMA RegistryGrowsBy ==
  ASSUME NEW call, NEW series, Observe(call, series)
  PROVE  DOMAIN registry' = DOMAIN registry \cup series
BY DEF Observe, SetToBag, (+)

LEMMA ObservedIsBounded ==
  ASSUME NEW call, NEW series, Observe(call, series),
         SeriesAreBounded, \A s \in series : Bounded(s)
  PROVE  SeriesAreBounded'
BY RegistryGrowsBy DEF SeriesAreBounded, Bounded

LEMMA SeriesStep == SeriesAreBounded /\ [Next]_vars => SeriesAreBounded'
<1> SUFFICES ASSUME SeriesAreBounded, [Next]_vars PROVE SeriesAreBounded'
  OBVIOUS
<1>0. /\ \A m : MethodLabel(m) \in Known \cup {"other"}
      /\ \A code : CodeLabel(code) \in KnownCodes \cup {"other"}
  BY DEF MethodLabel, CodeLabel
<1>1. CASE ObserveRequest
  <2>1. PICK i \in Endpoints, m \in Methods, status \in Statuses :
          Observe([op |-> "request", at |-> i, method |-> m],
                  {<<"requests", names[i], MethodLabel(m), StatusLabel(status)>>,
                   <<"duration", names[i], MethodLabel(m)>>})
    BY <1>1 DEF ObserveRequest
  <2>2. /\ Bounded(<<"requests", names[i], MethodLabel(m), StatusLabel(status)>>)
        /\ Bounded(<<"duration", names[i], MethodLabel(m)>>)
    BY <1>0 DEF Bounded
  <2> QED
    BY <2>1, <2>2, ObservedIsBounded
<1>2. CASE ObserveUpstreamError
  <2>1. PICK i \in Endpoints \cup {0}, m \in Methods, reason \in Reasons :
          Observe([op |-> "error", at |-> i, method |-> m],
                  {<<"errors", IF i = 0 THEN None ELSE names[i], MethodLabel(m), reason>>})
    BY <1>2 DEF ObserveUpstreamError
  <2>2. Bounded(<<"errors", IF i = 0 THEN None ELSE names[i], MethodLabel(m), reason>>)
    BY <1>0 DEF Bounded
  <2> QED
    BY <2>1, <2>2, ObservedIsBounded
<1>3. CASE ObserveRPCError
  <2>1. PICK i \in Endpoints, m \in Methods, code \in Codes :
          Observe([op |-> "rpc_error", at |-> i, method |-> m],
                  {<<"rpc_errors", names[i], MethodLabel(m), CodeLabel(code)>>})
    BY <1>3 DEF ObserveRPCError
  <2>2. Bounded(<<"rpc_errors", names[i], MethodLabel(m), CodeLabel(code)>>)
    BY <1>0 DEF Bounded
  <2> QED
    BY <2>1, <2>2, ObservedIsBounded
<1>4. CASE ObserveDegraded
  <2>1. PICK i \in Endpoints, m \in Methods :
          Observe([op |-> "degraded", at |-> i, method |-> m],
                  {<<"degraded", names[i], MethodLabel(m)>>})
    BY <1>4 DEF ObserveDegraded
  <2>2. Bounded(<<"degraded", names[i], MethodLabel(m)>>)
    BY <1>0 DEF Bounded
  <2> QED
    BY <2>1, <2>2, ObservedIsBounded
<1>5. CASE ObserveRetry
  <2>1. PICK i \in Endpoints, m \in Methods : \E j \in Endpoints \ {i} :
          Observe([op |-> "retry", at |-> i, method |-> m],
                  {<<"retries", names[i], MethodLabel(m), names[j]>>})
    BY <1>5 DEF ObserveRetry
  <2>2. PICK j \in Endpoints \ {i} :
          Observe([op |-> "retry", at |-> i, method |-> m],
                  {<<"retries", names[i], MethodLabel(m), names[j]>>})
    BY <2>1
  <2>3. Bounded(<<"retries", names[i], MethodLabel(m), names[j]>>)
    BY <1>0 DEF Bounded
  <2> QED
    BY <2>2, <2>3, ObservedIsBounded
<1>6. CASE Start \/ Scrape \/ UNCHANGED vars
  <2>1. registry' = registry
    BY <1>6 DEF Start, Scrape, vars
  <2> QED
    BY <2>1 DEF SeriesAreBounded
<1> QED
  BY <1>1, <1>2, <1>3, <1>4, <1>5, <1>6 DEF Next

\* Whatever methods clients name and whatever codes upstreams send, and however
\* often, the labels of the registry stay within the fixed lists.
THEOREM LabelsAreBounded == Spec => []SeriesAreBounded
<1>1. Init => SeriesAreBounded
  BY DEF Init, SeriesAreBounded, EmptyBag, SetToBag
<1> QED
  BY <1>1, SeriesStep, PTL DEF Spec

-----------------------------------------------------------------------------
(* What Load reports *)

\* A value that is a number is judged as it is.
LEMMA NumbersAreKept ==
  ASSUME NEW e, NEW k \in Numbers, e[k] \in Int
  PROVE  Config(e)[k] = e[k] /\ Config(e)[k] # NaN
BY ConfigAssumption DEF Config

\* Whatever is unusable is a problem: what does not parse when it is read, what is
\* out of bounds when it is validated.
LEMMA UnusableIsAProblem ==
  ASSUME NEW e, NEW k \in Numbers, Unusable(k, e[k])
  PROVE  k \in Problems(e)
<1>1. CASE e[k] = Garbage
  BY <1>1 DEF Problems, ParseErrors
<1>2. CASE e[k] # Garbage
  <2>1. e[k] \in Int
    BY <1>2 DEF Unusable
  <2>2. Config(e)[k] = e[k] /\ Config(e)[k] # NaN
    BY <2>1, NumbersAreKept
  <2> DEFINE c == Config(e)
  <2> HIDE DEF c
  <2>3. CASE k \in {"HEALTH_INTERVAL", "HEALTH_TIMEOUT", "UPSTREAM_TIMEOUT"} /\ e[k] <= 0
    <3>1. c[k] <= 0
      BY <2>2, <2>3 DEF c
    <3> QED
      BY <2>3, <3>1 DEF Problems, Validate, c
  <2>4. CASE k \in {"FAIL_THRESHOLD", "OK_THRESHOLD"} /\ e[k] < 1
    <3>1. c[k] < 1
      BY <2>2, <2>4 DEF c
    <3> QED
      BY <2>4, <3>1 DEF Problems, Validate, c
  <2>5. CASE k = "MAX_BODY_BYTES" /\ e[k] < 1024
    <3>1. c[k] < 1024
      BY <2>2, <2>5 DEF c
    <3> QED
      BY <2>5, <3>1 DEF Problems, Validate, c
  <2>6. CASE k = "EWMA_ALPHA" /\ e[k] \notin 1 .. 100
    <3>1. c[k] # NaN /\ (c[k] <= 0 \/ c[k] > 100)
      BY <2>1, <2>2, <2>6 DEF c
    <3> QED
      BY <2>6, <3>1 DEF Problems, Validate, c
  <2> QED
    BY <1>2, <2>3, <2>4, <2>5, <2>6 DEF Unusable
<1> QED
  BY <1>1, <1>2

\* An environment without problems has endpoints, and probes that end in time.
LEMMA NoProblemIsServable ==
  ASSUME NEW e \in Environments, Problems(e) = {}
  PROVE  /\ e.RPC_ENDPOINTS # <<>>
         /\ Config(e).HEALTH_TIMEOUT < Config(e).HEALTH_INTERVAL
<1>1. e.RPC_ENDPOINTS # <<>>
  BY DEF Problems, ParseEndpoints
<1> DEFINE c == Config(e)
<1>2. c.HEALTH_TIMEOUT \in Int /\ c.HEALTH_INTERVAL \in Int
  BY MetricsAssumption DEF Config, Numbers, Default
<1>3. ~ (c.HEALTH_TIMEOUT >= c.HEALTH_INTERVAL)
  BY DEF Problems, Validate
<1> HIDE DEF c
<1>4. c.HEALTH_TIMEOUT < c.HEALTH_INTERVAL
  BY <1>2, <1>3
<1> QED
  BY <1>1, <1>4 DEF c

\* What main made of Load's result.
Loaded ==
  /\ env \in Environments
  /\ phase # "starting" => problems = Problems(env)
  /\ phase = "serving" => problems = {}

LEMMA LoadedStep == Loaded /\ [Next]_vars => Loaded'
<1> SUFFICES ASSUME Loaded, [Next]_vars PROVE Loaded'
  OBVIOUS
<1>1. CASE Start
  BY <1>1 DEF Start, Loaded
<1>2. CASE ~ Start
  <2>1. UNCHANGED <<env, phase, problems>>
    BY <1>2 DEF Next, vars, Scrape, ObserveRequest, ObserveUpstreamError, ObserveRPCError,
                ObserveDegraded, ObserveRetry, Observe
  <2> QED
    BY <2>1 DEF Loaded
<1> QED
  BY <1>1, <1>2

\* In every environment, a refusal to start names every variable that is unusable,
\* and a process that serves has none.
THEOREM AllProblemsAreReported == Spec => []EveryProblemIsReported
<1>1. Init => Loaded
  BY DEF Init, Loaded
<1>2. Loaded => EveryProblemIsReported
  <2> SUFFICES ASSUME Loaded PROVE EveryProblemIsReported
    OBVIOUS
  <2>1. \A k \in Numbers : Unusable(k, env[k]) => k \in Problems(env)
    BY UnusableIsAProblem
  <2>2. phase = "serving" => /\ env.RPC_ENDPOINTS # <<>>
                             /\ Config(env).HEALTH_TIMEOUT < Config(env).HEALTH_INTERVAL
    BY NoProblemIsServable DEF Loaded
  <2> QED
    BY <2>1, <2>2 DEF Loaded, EveryProblemIsReported
<1> QED
  BY <1>1, <1>2, LoadedStep, PTL DEF Spec

-----------------------------------------------------------------------------
(* The books *)

\* A bag of finitely many elements.
FiniteBag(b) == IsABag(b) /\ IsFiniteSet(DOMAIN b)

\* One element more.
LEMMA AddOne ==
  ASSUME NEW b, FiniteBag(b), NEW x
  PROVE  LET c == BagAdd(b, x) IN
         /\ FiniteBag(c) /\ DOMAIN c = DOMAIN b \cup {x}
         /\ c[x] = (IF x \in DOMAIN b THEN b[x] ELSE 0) + 1
         /\ \A y \in DOMAIN b \ {x} : c[y] = b[y]
<1> DEFINE c == BagAdd(b, x)
           Counts == {n \in Nat : n > 0}
<1>1. b \in [DOMAIN b -> Counts] /\ IsFiniteSet(DOMAIN b)
  BY DEF FiniteBag, IsABag
<1>2. /\ DOMAIN c = DOMAIN b \cup {x}
      /\ c[x] = (IF x \in DOMAIN b THEN b[x] ELSE 0) + 1
      /\ \A y \in DOMAIN b \ {x} : c[y] = b[y]
      /\ c \in [DOMAIN c -> Counts]
  BY <1>1 DEF BagAdd
<1> HIDE DEF c
<1>3. IsFiniteSet(DOMAIN c)
  BY <1>1, <1>2, FiniteSetsGrow
<1> QED
  BY <1>2, <1>3 DEF c, FiniteBag, IsABag

\* The sum over the elements of a kind grows by one if the element is of it.
LEMMA SumGrows ==
  ASSUME NEW b, FiniteBag(b), NEW x, NEW S, S \subseteq DOMAIN b
  PROVE  LET c == BagAdd(b, x) IN
         /\ SumFunctionOnSet(b, S) \in Int
         /\ x \in S \/ x \notin DOMAIN b =>
              SumFunctionOnSet(c, S \cup {x}) = SumFunctionOnSet(b, S) + 1
         /\ x \notin S => SumFunctionOnSet(c, S) = SumFunctionOnSet(b, S)
<1> DEFINE c == BagAdd(b, x)
<1>1. /\ c[x] = (IF x \in DOMAIN b THEN b[x] ELSE 0) + 1
      /\ \A y \in DOMAIN b \ {x} : c[y] = b[y]
  BY AddOne
<1>2. IsFiniteSet(S) /\ \A y \in DOMAIN b : b[y] \in Int
  <2>1. IsFiniteSet(S)
    BY FiniteSetsGrow DEF FiniteBag
  <2>2. \A y \in DOMAIN b : b[y] \in Int
    BY DEF FiniteBag, IsABag
  <2> QED
    BY <2>1, <2>2
<1>3. SumFunctionOnSet(b, S) \in Int
  BY <1>2, SumFacts
<1> HIDE DEF c
<1>4. ASSUME x \in S \/ x \notin DOMAIN b
      PROVE  SumFunctionOnSet(c, S \cup {x}) = SumFunctionOnSet(b, S) + 1
  <2>1. c[x] \in Int /\ c[x] = (IF x \in S THEN b[x] ELSE 0) + 1
    BY <1>1, <1>2, <1>4
  <2>2. /\ \A y \in S : b[y] \in Int
        /\ \A y \in S \ {x} : c[y] = b[y]
    BY <1>1, <1>2
  <2>3. SumFunctionOnSet(c, S \cup {x}) =
          SumFunctionOnSet(b, S) - (IF x \in S THEN b[x] ELSE 0) + c[x]
    BY <1>2, <2>1, <2>2, SumWith
  <2>4. (IF x \in S THEN b[x] ELSE 0) \in Int
    BY <1>2
  <2> QED
    BY <1>3, <2>1, <2>3, <2>4
<1>5. ASSUME x \notin S PROVE SumFunctionOnSet(c, S) = SumFunctionOnSet(b, S)
  <2>1. \A y \in S : b[y] \in Int /\ c[y] = b[y]
    BY <1>1, <1>2, <1>5
  <2> QED
    BY <1>2, <2>1, SumSame
<1> QED
  BY <1>3, <1>4, <1>5 DEF c

LEMMA CardinalityGrows ==
  ASSUME NEW b, FiniteBag(b), NEW x
  PROVE  SumFunction(b) \in Int /\ SumFunction(BagAdd(b, x)) = SumFunction(b) + 1
<1>1. DOMAIN BagAdd(b, x) = DOMAIN b \cup {x}
  BY AddOne
<1>2. SumFunctionOnSet(BagAdd(b, x), DOMAIN b \cup {x}) = SumFunctionOnSet(b, DOMAIN b) + 1
  BY SumGrows
<1>3. SumFunctionOnSet(b, DOMAIN b) \in Int
  BY SumGrows
<1> QED
  BY <1>1, <1>2, <1>3 DEF SumFunction

\* Adding one to a series.
LEMMA AddSeries ==
  ASSUME NEW b, FiniteBag(b), NEW s
  PROVE  b (+) SetToBag({s}) = BagAdd(b, s)
<1> DEFINE l == b (+) SetToBag({s})
           r == BagAdd(b, s)
<1>1. \A x \in DOMAIN b : b[x] \in Int
  BY DEF FiniteBag, IsABag
<1>2. l = [x \in DOMAIN l |-> l[x]] /\ r = [x \in DOMAIN r |-> r[x]]
  BY DEF (+), SetToBag, BagAdd
<1>3. DOMAIN l = DOMAIN r /\ \A x \in DOMAIN l : l[x] = r[x]
  BY <1>1 DEF (+), SetToBag, BagAdd
<1> HIDE DEF l, r
<1>4. l = r
  BY <1>2, <1>3
<1> QED
  BY <1>4 DEF l, r

\* Adding one to each of two series.
LEMMA AddTwo ==
  ASSUME NEW b, FiniteBag(b), NEW s, NEW t, s # t
  PROVE  b (+) SetToBag({s, t}) = BagAdd(BagAdd(b, s), t)
<1>0. \A x \in DOMAIN b : b[x] \in Int
  BY DEF FiniteBag, IsABag
<1> DEFINE l == b (+) SetToBag({s, t})
           m == BagAdd(b, s)
           r == BagAdd(m, t)
<1>1. /\ DOMAIN m = DOMAIN b \cup {s} /\ m[s] = (IF s \in DOMAIN b THEN b[s] ELSE 0) + 1
      /\ \A y \in DOMAIN b \ {s} : m[y] = b[y]
      /\ FiniteBag(m)
  BY AddOne
<1>2. /\ DOMAIN r = DOMAIN m \cup {t} /\ r[t] = (IF t \in DOMAIN m THEN m[t] ELSE 0) + 1
      /\ \A y \in DOMAIN m \ {t} : r[y] = m[y]
  BY <1>1, AddOne
<1>3. r = [x \in DOMAIN r |-> r[x]]
  BY DEF BagAdd
<1>4. /\ l = [x \in DOMAIN l |-> l[x]] /\ DOMAIN l = DOMAIN b \cup {s, t}
      /\ \A x \in DOMAIN l : l[x] = (IF x \in DOMAIN b THEN b[x] ELSE 0)
                                      + (IF x \in {s, t} THEN 1 ELSE 0)
  BY DEF (+), SetToBag
<1> HIDE DEF l, m, r
<1>5. DOMAIN l = DOMAIN r
  BY <1>1, <1>2, <1>4
<1>6. \A x \in DOMAIN l : l[x] = r[x]
  BY <1>0, <1>1, <1>2, <1>4
<1>7. l = r
  BY <1>3, <1>4, <1>5, <1>6
<1> QED
  BY <1>7 DEF l, m, r

\* The observations of requests in a bag.
Requests(b) == {c \in DOMAIN b : c.op = "request"}

\* The books, and that they are opened when main serves.
Books ==
  /\ FiniteBag(calls) /\ FiniteBag(registry)
  /\ SumFunction(registry) = SumFunction(calls) + SumFunctionOnSet(calls, Requests(calls))
  /\ phase # "serving" => names = <<>> /\ calls = EmptyBag /\ registry = EmptyBag

LEMMA EmptyBooks == FiniteBag(EmptyBag) /\ SumFunction(EmptyBag) = 0 /\ DOMAIN EmptyBag = {}
<1>1. DOMAIN EmptyBag = {} /\ EmptyBag \in [DOMAIN EmptyBag -> {n \in Nat : n > 0}]
  BY DEF EmptyBag, SetToBag
<1>2. FiniteBag(EmptyBag)
  BY <1>1, FiniteSetsGrow DEF FiniteBag, IsABag
<1>3. SumFunctionOnSet(EmptyBag, {}) = 0
  BY FiniteSetsGrow, SumFacts
<1> QED
  BY <1>1, <1>2, <1>3 DEF SumFunction

\* The sum over the requests grows with a request, and only with one.
LEMMA RequestsGrow ==
  ASSUME NEW b, FiniteBag(b), NEW x
  PROVE  /\ SumFunctionOnSet(b, Requests(b)) \in Int
         /\ x.op = "request" =>
              SumFunctionOnSet(BagAdd(b, x), Requests(BagAdd(b, x))) =
                SumFunctionOnSet(b, Requests(b)) + 1
         /\ x.op # "request" =>
              SumFunctionOnSet(BagAdd(b, x), Requests(BagAdd(b, x))) =
                SumFunctionOnSet(b, Requests(b))
<1>1. DOMAIN BagAdd(b, x) = DOMAIN b \cup {x}
  BY AddOne
<1>2. Requests(b) \subseteq DOMAIN b
  BY DEF Requests
<1>3. x.op = "request" => /\ Requests(BagAdd(b, x)) = Requests(b) \cup {x}
                          /\ x \in Requests(b) \/ x \notin DOMAIN b
  BY <1>1 DEF Requests
<1>4. x.op # "request" => Requests(BagAdd(b, x)) = Requests(b) /\ x \notin Requests(b)
  BY <1>1 DEF Requests
<1>5. /\ SumFunctionOnSet(b, Requests(b)) \in Int
      /\ x \in Requests(b) \/ x \notin DOMAIN b =>
           SumFunctionOnSet(BagAdd(b, x), Requests(b) \cup {x}) = SumFunctionOnSet(b, Requests(b)) + 1
      /\ x \notin Requests(b) =>
           SumFunctionOnSet(BagAdd(b, x), Requests(b)) = SumFunctionOnSet(b, Requests(b))
  BY <1>2, SumGrows
<1> QED
  BY <1>3, <1>4, <1>5

\* An observation of one series that is no request.
LEMMA ObserveOne ==
  ASSUME Books, NEW call, NEW s, Observe(call, {s}), call.op # "request"
  PROVE  Books' /\ calls' = BagAdd(calls, call) /\ registry' = BagAdd(registry, s)
<1>1. calls' = BagAdd(calls, call) /\ registry' = BagAdd(registry, s)
  BY AddSeries DEF Books, Observe
<1>2. /\ FiniteBag(calls') /\ SumFunction(calls) \in Int
      /\ SumFunction(calls') = SumFunction(calls) + 1
      /\ SumFunctionOnSet(calls', Requests(calls')) = SumFunctionOnSet(calls, Requests(calls))
      /\ SumFunctionOnSet(calls, Requests(calls)) \in Int
  BY <1>1, AddOne, CardinalityGrows, RequestsGrow DEF Books
<1>3. /\ FiniteBag(registry') /\ SumFunction(registry) \in Int
      /\ SumFunction(registry') = SumFunction(registry) + 1
  BY <1>1, AddOne, CardinalityGrows DEF Books
<1>4. SumFunction(registry') = SumFunction(calls') + SumFunctionOnSet(calls', Requests(calls'))
  BY <1>2, <1>3 DEF Books
<1>5. phase' = "serving"
  BY DEF Observe
<1> QED
  BY <1>1, <1>2, <1>3, <1>4, <1>5 DEF Books

\* The observation of a request, which adds to two series.
LEMMA ObserveTwo ==
  ASSUME Books, NEW call, NEW s, NEW t, s # t, Observe(call, {s, t}), call.op = "request"
  PROVE  Books' /\ calls' = BagAdd(calls, call) /\ registry' = BagAdd(BagAdd(registry, s), t)
<1>1. calls' = BagAdd(calls, call) /\ registry' = BagAdd(BagAdd(registry, s), t)
  <2>1. FiniteBag(registry)
    BY DEF Books
  <2>2. registry' = BagAdd(BagAdd(registry, s), t)
    BY <2>1, AddTwo DEF Observe
  <2> QED
    BY <2>2 DEF Observe
<1>2. /\ FiniteBag(calls') /\ SumFunction(calls) \in Int
      /\ SumFunction(calls') = SumFunction(calls) + 1
      /\ SumFunctionOnSet(calls', Requests(calls')) = SumFunctionOnSet(calls, Requests(calls)) + 1
      /\ SumFunctionOnSet(calls, Requests(calls)) \in Int
  BY <1>1, AddOne, CardinalityGrows, RequestsGrow DEF Books
<1>3. /\ FiniteBag(BagAdd(registry, s)) /\ SumFunction(registry) \in Int
      /\ SumFunction(BagAdd(registry, s)) = SumFunction(registry) + 1
  BY AddOne, CardinalityGrows DEF Books
<1>4. FiniteBag(registry') /\ SumFunction(registry') = SumFunction(registry) + 2
  <2> DEFINE b == BagAdd(registry, s)
  <2>1. FiniteBag(b) /\ SumFunction(b) = SumFunction(registry) + 1
    BY <1>3
  <2> HIDE DEF b
  <2>2. FiniteBag(BagAdd(b, t)) /\ SumFunction(BagAdd(b, t)) = SumFunction(b) + 1
    BY <2>1, AddOne, CardinalityGrows
  <2>3. registry' = BagAdd(b, t)
    BY <1>1 DEF b
  <2> QED
    BY <1>3, <2>1, <2>2, <2>3
<1>5. SumFunction(registry') = SumFunction(calls') + SumFunctionOnSet(calls', Requests(calls'))
  BY <1>2, <1>3, <1>4 DEF Books
<1>6. phase' = "serving"
  BY DEF Observe
<1> QED
  BY <1>1, <1>2, <1>4, <1>5, <1>6 DEF Books

\* Every observation in a handler is of one of these two forms.
OneSeries ==
  \E call, s : Observe(call, {s}) /\ call.op # "request" /\ s[1] # "duration"

TwoSeries ==
  \E i \in Endpoints, m \in Methods, status \in Statuses :
    Observe([op |-> "request", at |-> i, method |-> m],
            {<<"requests", names[i], MethodLabel(m), StatusLabel(status)>>,
             <<"duration", names[i], MethodLabel(m)>>})

LEMMA IsOneSeries ==
  ASSUME NEW call, NEW s, Observe(call, {s}), call.op # "request", s[1] # "duration"
  PROVE  OneSeries
BY DEF OneSeries

LEMMA StepsByForm == [Next]_vars => Start \/ OneSeries \/ TwoSeries \/ Scrape \/ UNCHANGED vars
<1> SUFFICES ASSUME [Next]_vars PROVE Start \/ OneSeries \/ TwoSeries \/ Scrape \/ UNCHANGED vars
  OBVIOUS
<1>1. CASE ObserveRequest
  BY <1>1 DEF ObserveRequest, TwoSeries
<1>2. CASE ObserveUpstreamError
  <2>1. PICK i \in Endpoints \cup {0}, m \in Methods, reason \in Reasons :
          Observe([op |-> "error", at |-> i, method |-> m],
                  {<<"errors", IF i = 0 THEN None ELSE names[i], MethodLabel(m), reason>>})
    BY <1>2 DEF ObserveUpstreamError
  <2>2. [op |-> "error", at |-> i, method |-> m].op # "request"
        /\ <<"errors", IF i = 0 THEN None ELSE names[i], MethodLabel(m), reason>>[1] # "duration"
    OBVIOUS
  <2> QED
    BY <2>1, <2>2, IsOneSeries
<1>3. CASE ObserveRPCError
  <2>1. PICK i \in Endpoints, m \in Methods, code \in Codes :
          Observe([op |-> "rpc_error", at |-> i, method |-> m],
                  {<<"rpc_errors", names[i], MethodLabel(m), CodeLabel(code)>>})
    BY <1>3 DEF ObserveRPCError
  <2>2. [op |-> "rpc_error", at |-> i, method |-> m].op # "request"
        /\ <<"rpc_errors", names[i], MethodLabel(m), CodeLabel(code)>>[1] # "duration"
    OBVIOUS
  <2> QED
    BY <2>1, <2>2, IsOneSeries
<1>4. CASE ObserveDegraded
  <2>1. PICK i \in Endpoints, m \in Methods :
          Observe([op |-> "degraded", at |-> i, method |-> m],
                  {<<"degraded", names[i], MethodLabel(m)>>})
    BY <1>4 DEF ObserveDegraded
  <2>2. [op |-> "degraded", at |-> i, method |-> m].op # "request"
        /\ <<"degraded", names[i], MethodLabel(m)>>[1] # "duration"
    OBVIOUS
  <2> QED
    BY <2>1, <2>2, IsOneSeries
<1>5. CASE ObserveRetry
  <2>1. PICK i \in Endpoints, m \in Methods : \E j \in Endpoints \ {i} :
          Observe([op |-> "retry", at |-> i, method |-> m],
                  {<<"retries", names[i], MethodLabel(m), names[j]>>})
    BY <1>5 DEF ObserveRetry
  <2>2. PICK j \in Endpoints \ {i} :
          Observe([op |-> "retry", at |-> i, method |-> m],
                  {<<"retries", names[i], MethodLabel(m), names[j]>>})
    BY <2>1
  <2>3. [op |-> "retry", at |-> i, method |-> m].op # "request"
        /\ <<"retries", names[i], MethodLabel(m), names[j]>>[1] # "duration"
    OBVIOUS
  <2> QED
    BY <2>2, <2>3, IsOneSeries
<1> QED
  BY <1>1, <1>2, <1>3, <1>4, <1>5 DEF Next

LEMMA BooksStep == Books /\ [Next]_vars => Books'
<1> SUFFICES ASSUME Books, [Next]_vars PROVE Books'
  OBVIOUS
<1>1. CASE Start
  BY <1>1 DEF Start, Books
<1>2. CASE OneSeries
  BY <1>2, ObserveOne DEF OneSeries
<1>3. CASE TwoSeries
  <2>1. PICK i \in Endpoints, m \in Methods, status \in Statuses :
          Observe([op |-> "request", at |-> i, method |-> m],
                  {<<"requests", names[i], MethodLabel(m), StatusLabel(status)>>,
                   <<"duration", names[i], MethodLabel(m)>>})
    BY <1>3 DEF TwoSeries
  <2>2. /\ <<"requests", names[i], MethodLabel(m), StatusLabel(status)>>
             # <<"duration", names[i], MethodLabel(m)>>
        /\ [op |-> "request", at |-> i, method |-> m].op = "request"
    OBVIOUS
  <2> QED
    BY <2>1, <2>2, ObserveTwo
<1>4. CASE Scrape \/ UNCHANGED vars
  BY <1>4 DEF Scrape, vars, Books
<1> QED
  BY <1>1, <1>2, <1>3, <1>4, StepsByForm

\* The types of the rest.
Typed ==
  /\ env \in Environments /\ phase \in {"starting", "refused", "serving"}
  /\ problems \subseteq DOMAIN env \cup {"overlap"} /\ names \in Seq(Range(names))
  /\ scrape \in {"none", "served", "failed"}

LEMMA TypedStep == Named /\ Typed /\ [Next]_vars => Typed'
<1> SUFFICES ASSUME Named, Typed, [Next]_vars PROVE Typed'
  OBVIOUS
<1>1. CASE Start
  <2>1. env' = env /\ DOMAIN env = Numbers \cup {"RPC_ENDPOINTS"}
    BY <1>1, MetricsAssumption DEF Start, Typed
  <2>2. Problems(env) \subseteq DOMAIN env \cup {"overlap"}
    BY <2>1 DEF Problems, ParseErrors, ParseEndpoints, Validate, Numbers, Default
  <2>3. names' \in Seq(Range(names'))
    <3>1. CASE Problems(env) = {}
      <4>1. names' = Names(env.RPC_ENDPOINTS)
        BY <1>1, <3>1 DEF Start
      <4>2. env.RPC_ENDPOINTS \in Seq(Hosts)
        BY <1>1, <3>1, NamedStep DEF Named, Start
      <4>3. /\ Len(env.RPC_ENDPOINTS) \in Nat
            /\ DOMAIN names' = 1 .. Len(env.RPC_ENDPOINTS) /\ names' = [i \in DOMAIN names' |-> names'[i]]
        BY <4>1, <4>2 DEF Names
      <4>4. \A i \in DOMAIN names' : names'[i] \in Range(names')
        BY RangeIs
      <4> QED
        BY <4>3, <4>4, SeqDef
    <3>2. CASE Problems(env) # {}
      BY <1>1, <3>2 DEF Start, Typed
    <3> QED
      BY <3>1, <3>2
  <2> QED
    BY <1>1, <2>1, <2>2, <2>3 DEF Start, Typed
<1>2. CASE Scrape
  BY <1>2 DEF Scrape, Typed
<1>3. CASE OneSeries \/ TwoSeries \/ UNCHANGED vars
  <2>1. UNCHANGED <<env, phase, problems, names, scrape>>
    BY <1>3 DEF OneSeries, TwoSeries, Observe, vars
  <2> QED
    BY <2>1 DEF Typed
<1> QED
  BY <1>1, <1>2, <1>3, StepsByForm

\* Whatever is observed, and however often, the registry's series add up to the
\* observations: two to a request, one to anything else.
THEOREM MetricsTypeCorrect == Spec => []MetricsTypeOK
<1>1. Init => Named /\ Typed /\ Books
  <2> SUFFICES ASSUME Init PROVE Named /\ Typed /\ Books
    OBVIOUS
  <2>1. names \in Seq(Range(names))
    <3>1. names = <<>>
      BY DEF Init
    <3> QED
      BY <3>1, SeqDef
  <2>2. Requests(EmptyBag) = {}
    BY EmptyBooks DEF Requests
  <2>3. SumFunctionOnSet(EmptyBag, {}) = 0
    BY FiniteSetsGrow, SumFacts
  <2>4. Books
    BY <2>2, <2>3, EmptyBooks DEF Init, Books
  <2> QED
    BY <2>1, <2>4, NamedInit DEF Init, Typed
<1>2. Typed /\ Books => MetricsTypeOK
  <2> SUFFICES ASSUME Typed, Books PROVE MetricsTypeOK
    OBVIOUS
  <2>1. DOMAIN env = Numbers \cup {"RPC_ENDPOINTS"}
    BY MetricsAssumption DEF Typed
  <2> QED
    BY <2>1 DEF Typed, Books, FiniteBag, Requests, MetricsTypeOK
<1> QED
  BY <1>1, <1>2, NamedStep, TypedStep, BooksStep, PTL DEF Spec

\* Adding to a counter is adding to it alone.
LEMMA ValueOfAdded ==
  ASSUME NEW b, FiniteBag(b), NEW x, NEW y
  PROVE  Value(y, BagAdd(b, x)) = (IF x = y THEN Value(y, b) + 1 ELSE Value(y, b))
<1> DEFINE c == BagAdd(b, x)
<1>1. /\ DOMAIN c = DOMAIN b \cup {x}
      /\ c[x] = (IF x \in DOMAIN b THEN b[x] ELSE 0) + 1
      /\ \A z \in DOMAIN b \ {x} : c[z] = b[z]
  BY AddOne
<1> HIDE DEF c
<1>2. Value(y, c) = (IF x = y THEN Value(y, b) + 1 ELSE Value(y, b))
  BY <1>1 DEF Value
<1> QED
  BY <1>2 DEF c

\* The requests of an endpoint, and what is counted under its name.
ToldApart ==
  IsInjective(names) =>
    \A i \in Endpoints, m \in Known :
      Value([op |-> "request", at |-> i, method |-> m], calls)
        = Value(<<"duration", names[i], m>>, registry)

LEMMA ToldApartStep == Books /\ ToldApart /\ [Next]_vars => ToldApart'
<1> SUFFICES ASSUME Books, ToldApart, [Next]_vars PROVE ToldApart'
  OBVIOUS
<1>1. CASE Start
  <2>1. calls' = EmptyBag /\ registry' = EmptyBag
    BY <1>1 DEF Start, Books
  <2>2. \A x : Value(x, EmptyBag) = 0
    BY EmptyBooks DEF Value
  <2> QED
    BY <2>1, <2>2 DEF ToldApart
<1>2. CASE OneSeries
  <2>1. PICK call, s : Observe(call, {s}) /\ call.op # "request" /\ s[1] # "duration"
    BY <1>2 DEF OneSeries
  <2>2. calls' = BagAdd(calls, call) /\ registry' = BagAdd(registry, s) /\ names' = names
    BY <2>1, ObserveOne DEF Observe
  <2>3. ASSUME NEW i, NEW m
        PROVE  /\ Value([op |-> "request", at |-> i, method |-> m], calls')
                    = Value([op |-> "request", at |-> i, method |-> m], calls)
               /\ Value(<<"duration", names[i], m>>, registry')
                    = Value(<<"duration", names[i], m>>, registry)
    <3>1. call # [op |-> "request", at |-> i, method |-> m] /\ s # <<"duration", names[i], m>>
      BY <2>1
    <3> QED
      BY <2>2, <3>1, ValueOfAdded DEF Books
  <2> QED
    <3>1. Endpoints' = Endpoints /\ (IsInjective(names)' <=> IsInjective(names))
      BY <2>2 DEF Endpoints, IsInjective
    <3>2. ASSUME IsInjective(names), NEW i \in Endpoints, NEW m \in Known
          PROVE  Value([op |-> "request", at |-> i, method |-> m], calls')
                   = Value(<<"duration", names[i], m>>, registry')
      BY <2>3, <3>2 DEF ToldApart
    <3> QED
      BY <2>2, <3>1, <3>2 DEF ToldApart
<1>3. CASE TwoSeries
  <2>1. PICK k \in Endpoints, n \in Methods, status \in Statuses :
          Observe([op |-> "request", at |-> k, method |-> n],
                  {<<"requests", names[k], MethodLabel(n), StatusLabel(status)>>,
                   <<"duration", names[k], MethodLabel(n)>>})
    BY <1>3 DEF TwoSeries
  <2> DEFINE call == [op |-> "request", at |-> k, method |-> n]
             s == <<"requests", names[k], MethodLabel(n), StatusLabel(status)>>
             t == <<"duration", names[k], MethodLabel(n)>>
  <2>2. s # t /\ call.op = "request" /\ Observe(call, {s, t})
    BY <2>1
  <2>3. calls' = BagAdd(calls, call) /\ registry' = BagAdd(BagAdd(registry, s), t) /\ names' = names
    <3> HIDE DEF call, s, t
    <3> QED
      BY <2>2, ObserveTwo DEF Observe
  <2>4. FiniteBag(calls) /\ FiniteBag(registry) /\ FiniteBag(BagAdd(registry, s))
    BY AddOne DEF Books
  <2>5. ASSUME IsInjective(names), NEW i \in Endpoints, NEW m \in Known
        PROVE  Value([op |-> "request", at |-> i, method |-> m], calls')
                 = Value(<<"duration", names[i], m>>, registry')
    <3> DEFINE c == [op |-> "request", at |-> i, method |-> m]
               d == <<"duration", names[i], m>>
    <3>1. Value(c, calls) = Value(d, registry)
      BY <2>5 DEF ToldApart
    <3>2. s # d
      OBVIOUS
    <3>3. (call = c) <=> (t = d)
      <4>1. call = c <=> k = i /\ n = m
        OBVIOUS
      <4>2. t = d <=> names[k] = names[i] /\ MethodLabel(n) = m
        OBVIOUS
      <4>3. names[k] = names[i] <=> k = i
        BY <2>5 DEF IsInjective, Endpoints
      <4>4. MethodLabel(n) = m <=> n = m
        BY MetricsAssumption DEF MethodLabel
      <4> QED
        BY <4>1, <4>2, <4>3, <4>4
    <3> HIDE DEF call, s, t, c, d
    <3>4. Value(c, calls') = (IF call = c THEN Value(c, calls) + 1 ELSE Value(c, calls))
      BY <2>3, <2>4, ValueOfAdded
    <3>5. Value(d, registry') = (IF t = d THEN Value(d, registry) + 1 ELSE Value(d, registry))
      BY <2>3, <2>4, <3>2, ValueOfAdded
    <3>6. Value(c, calls') = Value(d, registry')
      BY <3>1, <3>3, <3>4, <3>5
    <3> QED
      BY <3>6 DEF c, d
  <2> QED
    BY <2>3, <2>5 DEF ToldApart, Endpoints, IsInjective
<1>4. CASE Scrape \/ UNCHANGED vars
  BY <1>4 DEF Scrape, vars, ToldApart, Endpoints, Value, IsInjective
<1> QED
  BY <1>1, <1>2, <1>3, <1>4, StepsByForm

\* Unless some host is literally called what another is renamed to, what is
\* counted under an endpoint's name and a known method are exactly the requests
\* made to it, whatever methods clients send and whatever else is observed.
THEOREM EndpointsToldApart == Spec => []EndpointsAreToldApart
<1>1. Init => Named /\ Books /\ ToldApart
  <2> SUFFICES ASSUME Init PROVE Named /\ Books /\ ToldApart
    OBVIOUS
  <2>1. Requests(EmptyBag) = {}
    BY EmptyBooks DEF Requests
  <2>2. SumFunctionOnSet(EmptyBag, {}) = 0
    BY FiniteSetsGrow, SumFacts
  <2>3. Books
    BY <2>1, <2>2, EmptyBooks DEF Init, Books
  <2>4. \A x : Value(x, EmptyBag) = 0
    BY EmptyBooks DEF Value
  <2>5. ToldApart
    BY <2>4 DEF Init, ToldApart
  <2> QED
    BY <2>3, <2>5, NamedInit
<1>2. Named /\ ToldApart => EndpointsAreToldApart
  <2> SUFFICES ASSUME Named, ToldApart, phase = "serving", ~ Collides(env.RPC_ENDPOINTS)
               PROVE  IsInjective(names)
    BY DEF EndpointsAreToldApart, ToldApart
  <2> QED
    BY NamesAreDistinct DEF Named
<1> QED
  BY <1>1, <1>2, NamedStep, BooksStep, ToldApartStep, PTL DEF Spec

=============================================================================
