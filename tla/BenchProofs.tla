---------------------------- MODULE BenchProofs ----------------------------
(***************************************************************************)
(* Proofs about Bench, for any number of workers, calls and targets: what  *)
(* a run measures, how it is merged, and what is made of the samples.      *)
(***************************************************************************)
EXTENDS Bench, SequenceTheorems, SumProofs

\* The rank of each percentile the benchmark prints is one of the sample's, and
\* within half an observation of p percent of it, the first excepted
\* (main.go:260-276). With 11 samples the 95th is the 10th of them, not the 11th
\* that the nearest-rank method takes.
THEOREM RankIsNear ==
  ASSUME NEW n \in Nat \ {0}, NEW p \in {50, 95, 99}
  PROVE  /\ Rank(n, p) \in 1 .. n
         /\ 100 * Rank(n, p) + 50 > n * p
         /\ Rank(n, p) = 1 \/ 100 * Rank(n, p) <= n * p + 50
<1>1. CASE p = 50
  BY <1>1 DEF Rank
<1>2. CASE p = 95
  BY <1>2 DEF Rank
<1>3. CASE p = 99
  BY <1>3 DEF Rank
<1> QED
  BY <1>1, <1>2, <1>3

-----------------------------------------------------------------------------
(* Samples in order *)

\* A finite collection of durations, whatever indexes them.
Durations(f) == IsFiniteSet(DOMAIN f) /\ \A x \in DOMAIN f : f[x] \in Nat

\* The samples that are d, those below it, and those up to it.
LEMMA CountsOf ==
  ASSUME NEW f, Durations(f), NEW d \in Int
  PROVE  /\ Below(f, d) \in Nat /\ UpTo(f, d) \in Nat
         /\ UpTo(f, d) <= Cardinality(DOMAIN f) /\ Cardinality(DOMAIN f) \in Nat
         /\ UpTo(f, d) = Below(f, d) + Cardinality({x \in DOMAIN f : f[x] = d})
         /\ Cardinality({x \in DOMAIN f : f[x] = d}) \in Nat
<1> DEFINE less == {x \in DOMAIN f : f[x] < d}
           same == {x \in DOMAIN f : f[x] = d}
           most == {x \in DOMAIN f : f[x] <= d}
<1>1. /\ less \subseteq DOMAIN f /\ same \subseteq DOMAIN f /\ most \subseteq DOMAIN f
      /\ IsFiniteSet(DOMAIN f)
  BY DEF Durations
<1>2. less \cap same = {} /\ most = less \cup same
  BY DEF Durations
<1>3. Below(f, d) = Cardinality(less) /\ UpTo(f, d) = Cardinality(most)
  BY DEF Below, UpTo
<1> HIDE DEF less, same, most
<1>4. IsFiniteSet(less) /\ IsFiniteSet(same)
  BY <1>1, FiniteSetsGrow
<1>5. Cardinality(most) = Cardinality(less) + Cardinality(same)
  BY <1>2, <1>4, CardinalityRules
<1>6. /\ Cardinality(less) \in Nat /\ Cardinality(same) \in Nat
      /\ Cardinality(DOMAIN f) \in Nat /\ Cardinality(most) <= Cardinality(DOMAIN f)
  BY <1>1, <1>4, CardinalityFacts
<1> QED
  BY <1>3, <1>5, <1>6 DEF same

\* What is up to d is below what is greater.
LEMMA CountsGrow ==
  ASSUME NEW f, Durations(f), NEW d \in Int, NEW e \in Int, d < e
  PROVE  UpTo(f, d) <= Below(f, e)
<1> DEFINE most == {x \in DOMAIN f : f[x] <= d}
           less == {x \in DOMAIN f : f[x] < e}
<1>1. most \subseteq less /\ less \subseteq DOMAIN f /\ IsFiniteSet(DOMAIN f)
  BY DEF Durations
<1>2. Below(f, e) = Cardinality(less) /\ UpTo(f, d) = Cardinality(most)
  BY DEF Below, UpTo
<1> HIDE DEF less, most
<1>3. IsFiniteSet(less)
  BY <1>1, FiniteSetsGrow
<1> QED
  BY <1>1, <1>2, <1>3, CardinalityFacts

\* There is a k-th smallest sample for every k: the least number up to which there
\* are k of them.
LEMMA OrderStatistic ==
  ASSUME NEW f, Durations(f), NEW k \in 1 .. Cardinality(DOMAIN f)
  PROVE  \E d \in Range(f) : Below(f, d) < k /\ k <= UpTo(f, d)
<1> DEFINE top == SumFunctionOnSet(f, DOMAIN f)
           enough == {m \in Nat : k <= UpTo(f, m)}
<1>1. top \in Nat /\ \A x \in DOMAIN f : f[x] <= top
  BY SumBounds DEF Durations
<1> HIDE DEF top
<1>2. UpTo(f, top) = Cardinality(DOMAIN f)
  <2>1. {x \in DOMAIN f : f[x] <= top} = DOMAIN f
    BY <1>1
  <2> QED
    BY <2>1 DEF UpTo
<1>3. top \in enough /\ enough \subseteq Nat
  BY <1>1, <1>2, CountsOf
<1>4. PICK m \in enough : \A n \in enough : m <= n
  <2> HIDE DEF enough
  <2> QED
    BY <1>3, LeastNumber
<1>5. m \in Nat /\ k <= UpTo(f, m) /\ k \in Nat \ {0}
  BY <1>4, CountsOf
<1>6. Below(f, m) < k
  <2>1. CASE m = 0
    <3>1. {x \in DOMAIN f : f[x] < m} = {}
      BY <2>1 DEF Durations
    <3>2. Below(f, m) = 0
      BY <3>1, FiniteSetsGrow, CardinalityFacts DEF Below
    <3> QED
      BY <1>5, <3>2
  <2>2. CASE m # 0
    <3>1. m - 1 \in Nat /\ m - 1 \notin enough
      BY <1>4, <1>5, <2>2
    <3>2. UpTo(f, m - 1) < k
      <4>1. UpTo(f, m - 1) \in Nat
        <5>1. m - 1 \in Int
          BY <3>1
        <5> QED
          BY <5>1, CountsOf
      <4> QED
        BY <1>5, <3>1, <4>1
    <3>3. {x \in DOMAIN f : f[x] < m} = {x \in DOMAIN f : f[x] <= m - 1}
      BY <1>5 DEF Durations
    <3> QED
      BY <3>2, <3>3 DEF Below, UpTo
  <2> QED
    BY <2>1, <2>2
<1>7. m \in Range(f)
  <2>1. Cardinality({x \in DOMAIN f : f[x] = m}) # 0
    BY <1>5, <1>6, CountsOf
  <2>2. PICK x \in DOMAIN f : f[x] = m
    <3>1. {x \in DOMAIN f : f[x] = m} # {}
      BY <2>1, FiniteSetsGrow, CardinalityFacts
    <3> QED
      BY <3>1
  <2> QED
    BY <2>2, RangeIs
<1> QED
  BY <1>5, <1>6, <1>7

\* A sample in ascending order.
Ascending(l) ==
  /\ l \in Seq(Nat)
  /\ \A i, j \in 1 .. Len(l) : i <= j => l[i] <= l[j]

\* Sorted returns all the samples and nothing else, in ascending order.
LEMMA SortedIs ==
  ASSUME NEW f, Durations(f)
  PROVE  /\ Ascending(Sorted(f)) /\ Len(Sorted(f)) = Cardinality(DOMAIN f)
         /\ \A d \in Nat : Cardinality({i \in DOMAIN Sorted(f) : Sorted(f)[i] = d})
                             = Cardinality({x \in DOMAIN f : f[x] = d})
<1> DEFINE n == Cardinality(DOMAIN f)
           t == Sorted(f)
<1>1. n \in Nat
  BY CardinalityFacts DEF Durations
<1>2. \A d \in Range(f) : d \in Nat
  BY RangeIs DEF Durations
<1>3. ASSUME NEW k \in 1 .. n
      PROVE  t[k] \in Nat /\ Below(f, t[k]) < k /\ k <= UpTo(f, t[k])
  <2> DEFINE Is(d) == Below(f, d) < k /\ k <= UpTo(f, d)
  <2>1. \E d \in Range(f) : Is(d)
    BY OrderStatistic
  <2>2. t[k] = CHOOSE d \in Range(f) : Is(d)
    BY DEF Sorted
  <2> HIDE DEF Is, t
  <2>3. t[k] \in Range(f) /\ Is(t[k])
    BY <2>1, <2>2
  <2> QED
    BY <1>2, <2>3 DEF Is
<1>4. t \in [1 .. n -> Nat]
  <2>1. t = [k \in 1 .. n |-> t[k]]
    BY DEF Sorted
  <2> HIDE DEF t, n
  <2> QED
    BY <1>3, <2>1
<1> HIDE DEF t, n
<1>5. t \in Seq(Nat) /\ Len(t) = n /\ DOMAIN t = 1 .. n
  BY <1>1, <1>4
<1>6. ASSUME NEW i \in 1 .. n, NEW j \in 1 .. n, i <= j
      PROVE  t[i] <= t[j]
  <2> SUFFICES ASSUME t[j] < t[i] PROVE FALSE
    BY <1>3
  <2>1. UpTo(f, t[j]) <= Below(f, t[i])
    BY <1>3, CountsGrow
  <2>2. j <= UpTo(f, t[j]) /\ Below(f, t[i]) < i
    BY <1>3
  <2>3. UpTo(f, t[j]) \in Nat /\ Below(f, t[i]) \in Nat
    <3>1. t[i] \in Int /\ t[j] \in Int
      BY <1>3
    <3> QED
      BY <3>1, CountsOf
  <2> QED
    BY <1>1, <1>6, <2>1, <2>2, <2>3
<1>7. ASSUME NEW d \in Nat
      PROVE  Cardinality({i \in 1 .. n : t[i] = d}) = Cardinality({x \in DOMAIN f : f[x] = d})
  <2> DEFINE b == Below(f, d)
             u == UpTo(f, d)
  <2>1. /\ b \in Nat /\ u \in Nat /\ u <= n
        /\ u = b + Cardinality({x \in DOMAIN f : f[x] = d})
        /\ Cardinality({x \in DOMAIN f : f[x] = d}) \in Nat
    BY CountsOf DEF n
  <2>2. \A i \in 1 .. n : t[i] = d => i \in b + 1 .. u
    BY <1>1, <1>3, <2>1
  <2>3. ASSUME NEW i \in b + 1 .. u PROVE i \in 1 .. n /\ t[i] = d
    <3> HIDE DEF b, u
    <3>1. i \in 1 .. n
      BY <1>1, <2>1
    <3>2. t[i] \in Nat /\ Below(f, t[i]) < i /\ i <= UpTo(f, t[i])
      BY <1>3, <3>1
    <3>3. Below(f, t[i]) \in Nat /\ UpTo(f, t[i]) \in Nat
      <4>1. t[i] \in Int
        BY <3>2
      <4> QED
        BY <4>1, CountsOf
    <3>4. ~ (t[i] < d)
      <4> SUFFICES ASSUME t[i] < d PROVE FALSE
        OBVIOUS
      <4>1. UpTo(f, t[i]) <= b
        BY <3>2, CountsGrow DEF b
      <4> QED
        BY <2>1, <3>2, <3>3, <4>1
    <3>5. ~ (d < t[i])
      <4> SUFFICES ASSUME d < t[i] PROVE FALSE
        OBVIOUS
      <4>1. u <= Below(f, t[i])
        BY <3>2, CountsGrow DEF u
      <4> QED
        BY <2>1, <3>2, <3>3, <4>1
    <3> QED
      BY <3>1, <3>2, <3>4, <3>5
  <2> HIDE DEF b, u
  <2>4. {i \in 1 .. n : t[i] = d} = b + 1 .. u
    BY <2>2, <2>3
  <2>5. Cardinality(b + 1 .. u) = u - b
    BY <2>1, CardinalityRules
  <2>6. Cardinality({x \in DOMAIN f : f[x] = d}) = u - b
    BY <2>1
  <2> QED
    BY <2>4, <2>5, <2>6
<1>8. Ascending(t)
  BY <1>5, <1>6 DEF Ascending
<1> QED
  BY <1>5, <1>7, <1>8 DEF t, n

\* The sample at the rank of a percentile: those below it come before it, and those
\* up to there are at most it.
SplitsAt(l, p) ==
  /\ Len(l) \in Nat \ {0} /\ Rank(Len(l), p) \in 1 .. Len(l)
  /\ Percentile(l, p) = l[Rank(Len(l), p)] /\ Percentile(l, p) \in Nat
  /\ Below(l, Percentile(l, p)) \in Nat /\ UpTo(l, Percentile(l, p)) \in Nat
  /\ Rank(Len(l), p) <= UpTo(l, Percentile(l, p))
  /\ Below(l, Percentile(l, p)) < Rank(Len(l), p)

LEMMA SplitAtRank ==
  ASSUME NEW l, Ascending(l), l # <<>>, NEW p \in {50, 95, 99}
  PROVE  SplitsAt(l, p)
<1> DEFINE n == Len(l)
           r == Rank(n, p)
           v == Percentile(l, p)
<1>1. /\ n \in Nat \ {0} /\ DOMAIN l = 1 .. n /\ \A i \in 1 .. n : l[i] \in Nat
      /\ \A i, j \in 1 .. n : i <= j => l[i] <= l[j]
  BY DEF Ascending
<1>2. r \in 1 .. n
  BY <1>1, RankIsNear
<1>3. v = l[r]
  BY DEF Percentile
<1> HIDE DEF n, r, v
<1>4. v \in Nat
  BY <1>1, <1>2, <1>3
<1>5. IsFiniteSet(1 .. n)
  BY <1>1, CardinalityFacts
<1>6. r <= UpTo(l, v) /\ UpTo(l, v) \in Nat
  <2> DEFINE most == {i \in 1 .. n : l[i] <= v}
  <2>1. 1 .. r \subseteq most /\ most \subseteq 1 .. n
    BY <1>1, <1>2, <1>3
  <2>2. UpTo(l, v) = Cardinality(most)
    BY <1>1 DEF UpTo
  <2> HIDE DEF most
  <2>3. IsFiniteSet(most)
    BY <1>5, <2>1, FiniteSetsGrow
  <2>4. Cardinality(1 .. r) <= Cardinality(most) /\ Cardinality(most) \in Nat
    BY <2>1, <2>3, CardinalityFacts
  <2>5. Cardinality(1 .. r) = r
    BY <1>2, CardinalityRules
  <2> QED
    BY <2>2, <2>4, <2>5
<1>7. Below(l, v) < r /\ Below(l, v) \in Nat
  <2> DEFINE less == {i \in 1 .. n : l[i] < v}
  <2>1. less \subseteq 1 .. r - 1
    BY <1>1, <1>2, <1>3
  <2>2. Below(l, v) = Cardinality(less)
    BY <1>1 DEF Below
  <2> HIDE DEF less
  <2>3. r - 1 \in Int /\ r \in Nat \ {0}
    BY <1>2
  <2>4. IsFiniteSet(1 .. r - 1) /\ Cardinality(1 .. r - 1) = r - 1
    BY <2>3, CardinalityRules
  <2>5. IsFiniteSet(less)
    BY <2>1, <2>4, FiniteSetsGrow
  <2>6. Cardinality(less) <= Cardinality(1 .. r - 1) /\ Cardinality(less) \in Nat
    BY <2>1, <2>4, <2>5, CardinalityFacts
  <2> QED
    BY <2>2, <2>3, <2>4, <2>6
<1> QED
  BY <1>1, <1>2, <1>3, <1>4, <1>6, <1>7 DEF n, r, v, SplitsAt

-----------------------------------------------------------------------------
(* What a run gathers *)

Worker == [made : Nat, lat : Seq(Nat), errors : Nat, rpcErrors : Nat]

LEMMA OutcomesAre ==
  ASSUME NEW out \in Outcomes
  PROVE  \/ out = Error \/ out = RpcError
         \/ out.kind = "success" /\ out.elapsed \in Nat /\ out = Success(out.elapsed)
<1>1. PICK resp \in Responses \cup {NoAnswer} : out = Outcome(resp)
  BY DEF Outcomes
<1>2. CASE resp = NoAnswer
  BY <1>1, <1>2 DEF Outcome
<1>3. CASE resp # NoAnswer
  <2>1. resp.elapsed \in Nat
    BY <1>3, BenchAssumption
  <2> QED
    BY <1>1, <1>3, <2>1 DEF Outcome, Success
<1> QED
  BY <1>2, <1>3

\* What a worker becomes with each kind of outcome.
LEMMA GatheredIs ==
  ASSUME NEW w \in Worker, NEW out \in Outcomes
  PROVE  /\ Gathered(w, out) \in Worker
         /\ Gathered(w, out).made = w.made + 1
         /\ Gathered(w, out).lat =
              IF out \in {Error, RpcError} THEN w.lat ELSE Append(w.lat, out.elapsed)
         /\ Gathered(w, out).errors = IF out = Error THEN w.errors + 1 ELSE w.errors
         /\ Gathered(w, out).rpcErrors = IF out = RpcError THEN w.rpcErrors + 1 ELSE w.rpcErrors
<1> DEFINE lat == IF out.kind = "success" THEN Append(w.lat, out.elapsed) ELSE w.lat
           errors == IF out = Error THEN w.errors + 1 ELSE w.errors
           rpcErrors == IF out = RpcError THEN w.rpcErrors + 1 ELSE w.rpcErrors
<1>1. lat \in Seq(Nat) /\ lat = IF out \in {Error, RpcError} THEN w.lat ELSE Append(w.lat, out.elapsed)
  <2>1. CASE out = Error \/ out = RpcError
    <3>1. out.kind # "success"
      BY <2>1 DEF Error, RpcError
    <3> QED
      BY <2>1, <3>1 DEF Worker
  <2>2. CASE out.kind = "success" /\ out.elapsed \in Nat
    <3>1. out # Error /\ out # RpcError
      BY <2>2 DEF Error, RpcError
    <3> QED
      BY <2>2, <3>1 DEF Worker
  <2> QED
    BY <2>1, <2>2, OutcomesAre
<1>2. errors \in Nat /\ rpcErrors \in Nat /\ w.made + 1 \in Nat
  BY DEF Worker
<1>3. Gathered(w, out) = [w EXCEPT !.made = w.made + 1, !.lat = lat, !.errors = errors,
                                   !.rpcErrors = rpcErrors]
  BY DEF Gathered
<1> HIDE DEF lat, errors, rpcErrors
<1>4. Gathered(w, out) = [made |-> w.made + 1, lat |-> lat, errors |-> errors,
                          rpcErrors |-> rpcErrors]
  BY <1>3 DEF Worker
<1> QED
  BY <1>1, <1>2, <1>4 DEF Worker, errors, rpcErrors

LEMMA FreshWorker == NewWorker \in Worker
<1>1. <<>> \in Seq(Nat)
  OBVIOUS
<1> QED
  BY <1>1 DEF NewWorker, Worker

\* The indices of the workers' samples.
SamplesFit ==
  /\ \A w, i : <<w, i>> \in Samples <=> w \in 1 .. Conc /\ i \in 1 .. Len(workers[w].lat)
  /\ \A x \in Samples : x = <<x[1], x[2]>>
  /\ DOMAIN Measured = Samples
  /\ \A x \in Samples : Measured[x] = workers[x[1]].lat[x[2]] /\ Measured[x] \in Nat

LEMMA SamplesAre ==
  workers \in [1 .. Conc -> Worker] => SamplesFit
<1> SUFFICES ASSUME workers \in [1 .. Conc -> Worker] PROVE SamplesFit
  OBVIOUS
<1>1. \A w \in 1 .. Conc : /\ workers[w].lat \in Seq(Nat)
                           /\ DOMAIN workers[w].lat = 1 .. Len(workers[w].lat)
  BY DEF Worker
<1>2. \A x : x \in Samples <=>
               \E w \in 1 .. Conc : \E i \in 1 .. Len(workers[w].lat) : x = <<w, i>>
  BY <1>1 DEF Samples
<1>3. ASSUME NEW x \in Samples
      PROVE  x[1] \in 1 .. Conc /\ x[2] \in 1 .. Len(workers[x[1]].lat) /\ x = <<x[1], x[2]>>
  BY <1>2
<1>4. \A w, i : <<w, i>> \in Samples <=> w \in 1 .. Conc /\ i \in 1 .. Len(workers[w].lat)
  <2> TAKE w, i
  <2>1. <<w, i>> \in Samples => w \in 1 .. Conc /\ i \in 1 .. Len(workers[w].lat)
    BY <1>3
  <2> QED
    BY <1>2, <2>1
<1>5. ASSUME NEW x \in Samples
      PROVE  Measured[x] = workers[x[1]].lat[x[2]] /\ Measured[x] \in Nat
  BY <1>1, <1>3 DEF Measured
<1> QED
  BY <1>3, <1>4, <1>5 DEF Measured, SamplesFit

\* A success adds a sample, and nothing else does.
LEMMA SamplesGrow ==
  ASSUME workers \in [1 .. Conc -> Worker], NEW w \in 1 .. Conc, NEW out \in Outcomes,
         Book(w, out)
  PROVE  LET x == <<w, Len(workers[w].lat) + 1>>
         IN  /\ workers' \in [1 .. Conc -> Worker]
             /\ out \in {Error, RpcError} => Samples' = Samples /\ Measured' = Measured
             /\ out \notin {Error, RpcError} =>
                  /\ x \notin Samples /\ Samples' = Samples \cup {x}
                  /\ Measured'[x] = out.elapsed
                  /\ \A y \in Samples : Measured'[y] = Measured[y]
<1> DEFINE n == Len(workers[w].lat)
           x == <<w, n + 1>>
           new == Gathered(workers[w], out)
<1>1. workers[w] \in Worker /\ workers' = [workers EXCEPT ![w] = new]
  BY DEF Book
<1>2. new \in Worker /\ new.lat = IF out \in {Error, RpcError} THEN workers[w].lat
                                  ELSE Append(workers[w].lat, out.elapsed)
  BY <1>1, GatheredIs
<1> HIDE DEF new
<1>3. workers' \in [1 .. Conc -> Worker] /\ workers'[w] = new
      /\ \A v \in 1 .. Conc \ {w} : workers'[v] = workers[v]
  BY <1>1, <1>2
<1>4. workers[w].lat \in Seq(Nat) /\ n \in Nat
  BY <1>1 DEF Worker
<1>5. (workers \in [1 .. Conc -> Worker] => SamplesFit)'
  BY SamplesAre, PTL
<1>6. SamplesFit'
  BY <1>3, <1>5
<1>7. SamplesFit
  BY SamplesAre
<1>8. CASE out \in {Error, RpcError}
  <2>1. \A v \in 1 .. Conc : workers'[v].lat = workers[v].lat
    BY <1>2, <1>3, <1>8
  <2>2. \A v, i : <<v, i>> \in Samples' <=> <<v, i>> \in Samples
    BY <1>6, <1>7, <2>1 DEF SamplesFit
  <2>3. Samples' = Samples
    <3>1. ASSUME NEW y \in Samples' PROVE y \in Samples
      <4>1. y = <<y[1], y[2]>>
        BY <1>6 DEF SamplesFit
      <4> QED
        BY <2>2, <4>1
    <3>2. ASSUME NEW y \in Samples PROVE y \in Samples'
      <4>1. y = <<y[1], y[2]>>
        BY <1>7 DEF SamplesFit
      <4> QED
        BY <2>2, <4>1
    <3> QED
      BY <3>1, <3>2
  <2>4. \A y \in Samples : Measured'[y] = Measured[y]
    <3> TAKE y \in Samples
    <3>1. y = <<y[1], y[2]>> /\ y \in Samples'
      BY <1>7, <2>3 DEF SamplesFit
    <3>2. y[1] \in 1 .. Conc
      BY <1>7, <3>1 DEF SamplesFit
    <3>3. Measured[y] = workers[y[1]].lat[y[2]]
      BY <1>7 DEF SamplesFit
    <3>4. Measured'[y] = workers'[y[1]].lat[y[2]]
      BY <1>6, <3>1 DEF SamplesFit
    <3> QED
      BY <2>1, <3>2, <3>3, <3>4
  <2>5. Measured = [y \in Samples |-> Measured[y]] /\ Measured' = [y \in Samples' |-> Measured'[y]]
    BY DEF Measured
  <2>6. Measured' = Measured
    BY <2>3, <2>4, <2>5
  <2> QED
    BY <1>3, <1>8, <2>3, <2>6
<1>9. CASE out \notin {Error, RpcError}
  <2>1. out.elapsed \in Nat
    BY <1>9, OutcomesAre
  <2>2. new.lat = Append(workers[w].lat, out.elapsed)
    BY <1>2, <1>9
  <2>3. Len(new.lat) = n + 1 /\ new.lat[n + 1] = out.elapsed
        /\ \A i \in 1 .. n : new.lat[i] = workers[w].lat[i]
    BY <1>4, <2>1, <2>2
  <2> HIDE DEF n
  <2>4. x \notin Samples /\ x \in Samples'
    <3>1. n + 1 \notin 1 .. n /\ n + 1 \in 1 .. n + 1
      BY <1>4
    <3> QED
      BY <1>3, <1>6, <1>7, <2>3, <3>1 DEF SamplesFit, n
  <2>5. \A v, i : <<v, i>> \in Samples' <=> (<<v, i>> \in Samples \/ <<v, i>> = x)
    <3> TAKE v, i
    <3>1. CASE v = w
      <4>1. i \in 1 .. n + 1 <=> i \in 1 .. n \/ i = n + 1
        BY <1>4
      <4> QED
        BY <1>3, <1>6, <1>7, <2>3, <3>1, <4>1 DEF SamplesFit, n
    <3>2. CASE v # w
      BY <1>3, <1>6, <1>7, <3>2 DEF SamplesFit
    <3> QED
      BY <3>1, <3>2
  <2>6. Samples' = Samples \cup {x}
    <3> HIDE DEF x
    <3>1. \A y \in Samples' : y \in Samples \cup {x}
      BY <1>6, <2>5 DEF SamplesFit
    <3>2. \A y \in Samples : y \in Samples'
      BY <1>7, <2>5 DEF SamplesFit
    <3> QED
      BY <2>4, <3>1, <3>2
  <2>7. Measured'[x] = out.elapsed
    <3>1. Measured'[x] = workers'[x[1]].lat[x[2]]
      BY <1>6, <2>4 DEF SamplesFit
    <3>2. x[1] = w /\ x[2] = n + 1
      OBVIOUS
    <3> QED
      BY <1>3, <2>3, <3>1, <3>2
  <2>8. ASSUME NEW y \in Samples PROVE Measured'[y] = Measured[y]
    <3>1. y = <<y[1], y[2]>> /\ y \in Samples'
      BY <1>7, <2>6 DEF SamplesFit
    <3>2. y[1] \in 1 .. Conc /\ y[2] \in 1 .. Len(workers[y[1]].lat)
      BY <1>7, <3>1 DEF SamplesFit
    <3>3. workers'[y[1]].lat[y[2]] = workers[y[1]].lat[y[2]]
      BY <1>3, <2>3, <3>2 DEF n
    <3> QED
      BY <1>6, <1>7, <3>1, <3>3 DEF SamplesFit
  <2> QED
    BY <1>3, <1>9, <2>4, <2>6, <2>7, <2>8 DEF n
<1> QED
  BY <1>8, <1>9

Made == SumFunction([w \in 1 .. Conc |-> workers[w].made])

Alike(d) == {x \in Samples : Measured[x] = d}

\* What the workers have gathered is what has been logged, call by call.
Tallied ==
  /\ workers \in [1 .. Conc -> Worker] /\ IsFiniteSet(Samples)
  /\ \A w \in 1 .. Conc : workers[w].made <= Per
  /\ log \in [DOMAIN log -> Nat]
  /\ \A out \in Outcomes \ {Error, RpcError} : Times(out) = Cardinality(Alike(out.elapsed))
  /\ Times(Error) = Errors /\ Times(RpcError) = RpcErrors
  /\ Made = Cardinality(Samples) + Errors + RpcErrors

LEMMA FreshTally ==
  workers = [w \in 1 .. Conc |-> NewWorker] /\ log = EmptyBag => Tallied
<1> SUFFICES ASSUME workers = [w \in 1 .. Conc |-> NewWorker], log = EmptyBag PROVE Tallied
  OBVIOUS
<1>1. workers \in [1 .. Conc -> Worker]
  BY FreshWorker
<1>2. Samples = {}
  <2>1. \A w \in 1 .. Conc : DOMAIN workers[w].lat = {}
    BY DEF NewWorker
  <2> QED
    BY <2>1 DEF Samples
<1>3. IsFiniteSet(1 .. Conc) /\ Cardinality(1 .. Conc) \in Nat
  BY CardinalityFacts, BenchAssumption
<1>4. SumFunction([w \in 1 .. Conc |-> 0]) = 0
  <2>1. SumFunctionOnSet([w \in 1 .. Conc |-> 0], 1 .. Conc) = Cardinality(1 .. Conc) * 0
    BY <1>3, SumOfEqual
  <2> QED
    BY <1>3, <2>1 DEF SumFunction
<1>5. Errors = 0 /\ RpcErrors = 0 /\ Made = 0
  <2>1. /\ [w \in 1 .. Conc |-> workers[w].errors] = [w \in 1 .. Conc |-> 0]
        /\ [w \in 1 .. Conc |-> workers[w].rpcErrors] = [w \in 1 .. Conc |-> 0]
        /\ [w \in 1 .. Conc |-> workers[w].made] = [w \in 1 .. Conc |-> 0]
    BY DEF NewWorker
  <2> QED
    BY <1>4, <2>1 DEF Errors, RpcErrors, Made
<1>6. DOMAIN log = {} /\ log \in [DOMAIN log -> Nat]
  BY DEF EmptyBag, SetToBag
<1>7. IsFiniteSet({}) /\ Cardinality({}) = 0
  BY FiniteSetsGrow, CardinalityFacts
<1>8. \A d : Alike(d) = {}
  BY <1>2 DEF Alike
<1>9. \A w \in 1 .. Conc : workers[w].made <= Per
  BY BenchAssumption DEF NewWorker, Per
<1>10. \A out : Times(out) = 0 /\ Cardinality(Alike(out.elapsed)) = 0
  BY <1>6, <1>7, <1>8 DEF Times
<1>11. Made = Cardinality(Samples) + Errors + RpcErrors
  BY <1>2, <1>5, <1>7
<1> QED
  BY <1>1, <1>2, <1>5, <1>6, <1>7, <1>9, <1>10, <1>11 DEF Tallied

\* A sum over the workers when one of them has changed.
LEMMA SumOverWorkers ==
  ASSUME NEW f, NEW g, NEW w, w \in 1 .. Conc,
         DOMAIN f = 1 .. Conc, DOMAIN g = 1 .. Conc,
         \A u \in 1 .. Conc : f[u] \in Nat /\ g[u] \in Nat,
         \A u \in 1 .. Conc \ {w} : g[u] = f[u]
  PROVE  SumFunction(f) \in Nat /\ SumFunction(g) = SumFunction(f) - f[w] + g[w]
<1>1. IsFiniteSet(1 .. Conc)
  <2>1. Conc \in Nat
    BY BenchAssumption
  <2> QED
    BY <2>1, CardinalityFacts
<1> DEFINE S == 1 .. Conc
<1>2. IsFiniteSet(S) /\ w \in S /\ DOMAIN f = S /\ DOMAIN g = S
  BY <1>1
<1>3. \A u \in S : f[u] \in Nat /\ g[u] \in Nat
  OBVIOUS
<1>4. \A u \in S \ {w} : g[u] = f[u]
  OBVIOUS
<1> HIDE DEF S
<1>5. /\ SumFunctionOnSet(f, S) \in Nat
      /\ SumFunctionOnSet(g, S) = SumFunctionOnSet(f, S) - f[w] + g[w]
  BY ONLY <1>2, <1>3, <1>4, SumChanged
<1> QED
  BY <1>2, <1>5 DEF SumFunction

LEMMA LoggedOnce ==
  ASSUME log \in [DOMAIN log -> Nat], NEW out, log' = BagAdd(log, out)
  PROVE  /\ log' \in [DOMAIN log' -> Nat]
         /\ \A o : Times(o)' = IF o = out THEN Times(o) + 1 ELSE Times(o)
<1>1. CASE out \in DOMAIN log
  BY <1>1 DEF BagAdd, Times
<1>2. CASE out \notin DOMAIN log
  BY <1>2 DEF BagAdd, Times
<1> QED
  BY <1>1, <1>2

\* A call is logged and gathered.
LEMMA CallIsTallied ==
  ASSUME Tallied, NEW w \in 1 .. Conc, workers[w].made < Per, NEW out \in Outcomes, Book(w, out)
  PROVE  Tallied'
<1> DEFINE n == Len(workers[w].lat)
           x == <<w, n + 1>>
           new == Gathered(workers[w], out)
<1>1. workers \in [1 .. Conc -> Worker] /\ workers[w] \in Worker /\ IsFiniteSet(Samples)
  BY DEF Tallied
<1>2. workers' = [workers EXCEPT ![w] = new] /\ log' = BagAdd(log, out)
  BY DEF Book
<1>3. /\ new \in Worker /\ new.made = workers[w].made + 1
      /\ new.errors = IF out = Error THEN workers[w].errors + 1 ELSE workers[w].errors
      /\ new.rpcErrors = IF out = RpcError THEN workers[w].rpcErrors + 1 ELSE workers[w].rpcErrors
  BY <1>1, GatheredIs
<1> HIDE DEF new
<1>4. workers'[w] = new /\ \A u \in 1 .. Conc \ {w} : workers'[u] = workers[u]
  BY <1>1, <1>2
<1>5. /\ log' \in [DOMAIN log' -> Nat]
      /\ \A o : Times(o)' = IF o = out THEN Times(o) + 1 ELSE Times(o)
  BY <1>2, LoggedOnce DEF Tallied
<1>6. workers' \in [1 .. Conc -> Worker]
  BY <1>1, SamplesGrow
<1>7. \A u \in 1 .. Conc : workers'[u].made <= Per
  <2>1. Per \in Nat
    BY BenchAssumption DEF Per
  <2>2. workers[w].made \in Nat /\ \A u \in 1 .. Conc : workers[u].made <= Per
    BY <1>1 DEF Tallied, Worker
  <2>3. new.made <= Per
    BY <1>3, <2>1, <2>2
  <2> QED
    BY <1>4, <2>2, <2>3
<1>8. \A u \in 1 .. Conc :
        /\ workers[u].made \in Nat /\ workers'[u].made \in Nat
        /\ workers[u].errors \in Nat /\ workers'[u].errors \in Nat
        /\ workers[u].rpcErrors \in Nat /\ workers'[u].rpcErrors \in Nat
  <2> TAKE u \in 1 .. Conc
  <2>1. workers[u] \in Worker /\ workers'[u] \in Worker
    BY <1>1, <1>6
  <2> QED
    BY <2>1 DEF Worker
<1>9. Made' = Made + 1 /\ Made \in Nat
  <2> DEFINE f == [u \in 1 .. Conc |-> workers[u].made]
             g == [u \in 1 .. Conc |-> workers'[u].made]
  <2>1. \A u \in 1 .. Conc : f[u] \in Nat /\ g[u] \in Nat
    BY <1>8
  <2>2. \A u \in 1 .. Conc \ {w} : g[u] = f[u]
    BY <1>4
  <2>3. DOMAIN f = 1 .. Conc /\ DOMAIN g = 1 .. Conc /\ g[w] = f[w] + 1 /\ f[w] \in Nat
    BY <1>3, <1>4, <1>8
  <2>4. Made = SumFunction(f) /\ Made' = SumFunction(g)
    BY DEF Made
  <2> HIDE DEF f, g
  <2>5. SumFunction(f) \in Nat /\ SumFunction(g) = SumFunction(f) - f[w] + g[w]
    BY <2>1, <2>2, <2>3, SumOverWorkers
  <2> QED
    BY <2>3, <2>4, <2>5
<1>10. Errors' = (IF out = Error THEN Errors + 1 ELSE Errors) /\ Errors \in Nat
  <2> DEFINE f == [u \in 1 .. Conc |-> workers[u].errors]
             g == [u \in 1 .. Conc |-> workers'[u].errors]
  <2>1. \A u \in 1 .. Conc : f[u] \in Nat /\ g[u] \in Nat
    BY <1>8
  <2>2. \A u \in 1 .. Conc \ {w} : g[u] = f[u]
    BY <1>4
  <2>3. /\ DOMAIN f = 1 .. Conc /\ DOMAIN g = 1 .. Conc /\ f[w] \in Nat
        /\ g[w] = IF out = Error THEN f[w] + 1 ELSE f[w]
    BY <1>3, <1>4, <1>8
  <2>4. Errors = SumFunction(f) /\ Errors' = SumFunction(g)
    BY DEF Errors
  <2> HIDE DEF f, g
  <2>5. SumFunction(f) \in Nat /\ SumFunction(g) = SumFunction(f) - f[w] + g[w]
    BY <2>1, <2>2, <2>3, SumOverWorkers
  <2> QED
    BY <2>3, <2>4, <2>5
<1>11. RpcErrors' = (IF out = RpcError THEN RpcErrors + 1 ELSE RpcErrors) /\ RpcErrors \in Nat
  <2> DEFINE f == [u \in 1 .. Conc |-> workers[u].rpcErrors]
             g == [u \in 1 .. Conc |-> workers'[u].rpcErrors]
  <2>1. \A u \in 1 .. Conc : f[u] \in Nat /\ g[u] \in Nat
    BY <1>8
  <2>2. \A u \in 1 .. Conc \ {w} : g[u] = f[u]
    BY <1>4
  <2>3. /\ DOMAIN f = 1 .. Conc /\ DOMAIN g = 1 .. Conc /\ f[w] \in Nat
        /\ g[w] = IF out = RpcError THEN f[w] + 1 ELSE f[w]
    BY <1>3, <1>4, <1>8
  <2>4. RpcErrors = SumFunction(f) /\ RpcErrors' = SumFunction(g)
    BY DEF RpcErrors
  <2> HIDE DEF f, g
  <2>5. SumFunction(f) \in Nat /\ SumFunction(g) = SumFunction(f) - f[w] + g[w]
    BY <2>1, <2>2, <2>3, SumOverWorkers
  <2> QED
    BY <2>3, <2>4, <2>5
<1>12. Error # RpcError
  BY DEF Error, RpcError
<1>13. Cardinality(Samples) \in Nat
  BY <1>1, CardinalityFacts
<1>14. CASE out \in {Error, RpcError}
  <2>1. Samples' = Samples /\ Measured' = Measured
    BY <1>1, <1>14, SamplesGrow
  <2>2. \A d : Alike(d)' = Alike(d)
    BY <2>1 DEF Alike
  <2>3. \A o \in Outcomes \ {Error, RpcError} : Times(o)' = Cardinality(Alike(o.elapsed))
    BY <1>5, <1>14 DEF Tallied
  <2>4. Times(Error)' = Errors' /\ Times(RpcError)' = RpcErrors'
    BY <1>5, <1>10, <1>11 DEF Tallied
  <2>5. Made' = Cardinality(Samples) + Errors' + RpcErrors'
    BY <1>9, <1>10, <1>11, <1>12, <1>13, <1>14 DEF Tallied
  <2> QED
    BY <1>1, <1>5, <1>6, <1>7, <2>1, <2>2, <2>3, <2>4, <2>5 DEF Tallied
<1>15. CASE out \notin {Error, RpcError}
  <2>1. /\ x \notin Samples /\ Samples' = Samples \cup {x} /\ Measured'[x] = out.elapsed
        /\ \A y \in Samples : Measured'[y] = Measured[y]
    BY <1>1, <1>15, SamplesGrow
  <2> HIDE DEF x
  <2>2. IsFiniteSet(Samples') /\ Cardinality(Samples') = Cardinality(Samples) + 1
    BY <1>1, <2>1, CardinalityRules
  <2>3. \A d : Alike(d)' = IF d = out.elapsed THEN Alike(d) \cup {x} ELSE Alike(d)
    BY <2>1 DEF Alike
  <2>4. \A d : x \notin Alike(d) /\ IsFiniteSet(Alike(d))
    <3> TAKE d
    <3>1. Alike(d) \subseteq Samples
      BY DEF Alike
    <3> QED
      BY <1>1, <2>1, <3>1, FiniteSetsGrow
  <2>5. \A d : Cardinality(Alike(d) \cup {x}) = Cardinality(Alike(d)) + 1
    BY <2>4, CardinalityRules
  <2>6. ASSUME NEW o \in Outcomes \ {Error, RpcError}
        PROVE  Times(o)' = Cardinality(Alike(o.elapsed)')
    <3>1. o = out <=> o.elapsed = out.elapsed
      <4>1. o = Success(o.elapsed) /\ out = Success(out.elapsed)
        BY <1>15, OutcomesAre
      <4> QED
        BY <4>1
    <3>2. Times(o) = Cardinality(Alike(o.elapsed))
      BY DEF Tallied
    <3> QED
      BY <1>5, <2>3, <2>5, <3>1, <3>2
  <2>7. Times(Error)' = Errors' /\ Times(RpcError)' = RpcErrors'
    BY <1>5, <1>10, <1>11 DEF Tallied
  <2>8. Made' = Cardinality(Samples') + Errors' + RpcErrors'
    BY <1>9, <1>10, <1>11, <1>13, <1>15, <2>2 DEF Tallied
  <2> QED
    BY <1>5, <1>6, <1>7, <2>2, <2>6, <2>7, <2>8 DEF Tallied
<1> QED
  BY <1>14, <1>15

-----------------------------------------------------------------------------
(* Results *)

Names == Range(Upstreams) \cup {Mesh}

Result == [name : Names, latencies : {l \in Seq(Nat) : Ascending(l)}, errors : Nat, rpcErrors : Nat]

\* Every call is gathered, and logged as what it was; the results are in order.
BenchInv ==
  /\ Tallied
  /\ results \in Seq(Result) /\ Len(results) <= Len(Targets)

LEMMA TargetsAre == Targets \in Seq(Names) /\ Len(Targets) = Len(Upstreams) + 1 /\ Len(Upstreams) \in Nat
<1>1. Upstreams \in Seq(Range(Upstreams)) /\ Range(Upstreams) \subseteq Names /\ Mesh \in Names
  BY BenchAssumption DEF Names
<1>2. Upstreams \in Seq(Names)
  BY <1>1
<1> QED
  BY <1>1, <1>2 DEF Targets

\* When all have made their calls, the result is what has been logged.
LEMMA MergedIsFaithful ==
  ASSUME BenchInv, Running, \A w \in 1 .. Conc : workers[w].made = Per
  PROVE  Merged \in Result /\ Faithful(Merged)
<1>1. /\ workers \in [1 .. Conc -> Worker] /\ IsFiniteSet(Samples)
      /\ results \in Seq(Result) /\ Len(results) < Len(Targets)
  BY DEF BenchInv, Tallied, Running
<1>2. SamplesFit
  BY <1>1, SamplesAre
<1>3. Durations(Measured) /\ DOMAIN Measured = Samples
  BY <1>1, <1>2 DEF SamplesFit, Durations
<1> DEFINE l == Sorted(Measured)
<1>4. /\ Ascending(l) /\ Len(l) = Cardinality(Samples)
      /\ \A d \in Nat : Cardinality({i \in DOMAIN l : l[i] = d})
                          = Cardinality({x \in Samples : Measured[x] = d})
  BY <1>3, SortedIs
<1>5. Merged = [name |-> Targets[Len(results) + 1], latencies |-> l, errors |-> Errors,
                rpcErrors |-> RpcErrors]
  BY DEF Merged
<1> HIDE DEF l
<1>6. Targets[Len(results) + 1] \in Names
  <2>1. Len(results) + 1 \in 1 .. Len(Targets)
    BY <1>1, TargetsAre
  <2> QED
    BY <2>1, TargetsAre
<1>7. Errors \in Nat /\ RpcErrors \in Nat
  <2> DEFINE f == [w \in 1 .. Conc |-> workers[w].errors]
             g == [w \in 1 .. Conc |-> workers[w].rpcErrors]
             S == 1 .. Conc
  <2>1. Conc \in Nat
    BY BenchAssumption
  <2>2. IsFiniteSet(S) /\ DOMAIN f = S /\ DOMAIN g = S
    BY <2>1, CardinalityFacts
  <2>3. \A w \in S : workers[w] \in Worker
    BY <1>1
  <2>4. (\A w \in S : f[w] \in Nat) /\ \A w \in S : g[w] \in Nat
    BY <2>3 DEF Worker
  <2>5. Errors = SumFunction(f) /\ RpcErrors = SumFunction(g)
    BY DEF Errors, RpcErrors
  <2> HIDE DEF f, g, S
  <2>6. SumFunctionOnSet(f, S) \in Nat /\ SumFunctionOnSet(g, S) \in Nat
    BY <2>2, <2>4, SumBounds
  <2> QED
    BY <2>2, <2>5, <2>6 DEF SumFunction
<1>8. Merged \in Result
  BY <1>4, <1>5, <1>6, <1>7 DEF Result, Ascending
<1>9. \A i \in 2 .. Len(l) : l[i - 1] <= l[i]
  BY <1>4 DEF Ascending
<1>10. \A out \in Outcomes \ {Error, RpcError} :
         Cardinality({i \in DOMAIN l : l[i] = out.elapsed}) = Times(out)
  <2> TAKE out \in Outcomes \ {Error, RpcError}
  <2>1. out.elapsed \in Nat
    BY OutcomesAre
  <2> QED
    BY <1>4, <2>1 DEF BenchInv, Tallied, Alike
<1>11. Made \in Requests - Conc + 1 .. Requests
  <2>1. Conc \in Nat \ {0} /\ Requests \in Nat
    BY BenchAssumption
  <2>2. Made = Conc * Per
    <3>1. IsFiniteSet(1 .. Conc) /\ Cardinality(1 .. Conc) = Conc
      BY <2>1, CardinalityRules
    <3>2. Per \in Nat
      BY <2>1 DEF Per
    <3>3. SumFunctionOnSet([w \in 1 .. Conc |-> Per], 1 .. Conc) = Conc * Per
      BY <3>1, <3>2, SumOfEqual
    <3>4. [w \in 1 .. Conc |-> workers[w].made] = [w \in 1 .. Conc |-> Per]
      OBVIOUS
    <3> QED
      BY <3>3, <3>4 DEF Made, SumFunction
  <2>3. Conc * Per \in Nat /\ Conc * Per <= Requests /\ Requests < Conc * Per + Conc
    BY <2>1 DEF Per
  <2> QED
    BY <2>1, <2>2, <2>3
<1>12. Len(l) + Errors + RpcErrors \in Requests - Conc + 1 .. Requests
  BY <1>4, <1>11 DEF BenchInv, Tallied
<1>13. Errors = Times(Error) /\ RpcErrors = Times(RpcError)
  BY DEF BenchInv, Tallied
<1>14. Faithful(Merged)
  BY <1>5, <1>9, <1>10, <1>12, <1>13 DEF Faithful
<1> QED
  BY <1>8, <1>14

\* The steps keep the books, and a result is appended when it is faithful.
LEMMA BenchStep ==
  ASSUME BenchInv, [Next]_vars
  PROVE  BenchInv' /\ (results' # results => Faithful(results'[Len(results')]))
<1>1. CASE UNCHANGED <<workers, log, results>>
  <2>1. Samples' = Samples
    BY <1>1 DEF Samples
  <2>2. Measured' = Measured
    BY <1>1, <2>1 DEF Measured
  <2>3. \A d : Alike(d)' = Alike(d)
    BY <2>1, <2>2 DEF Alike
  <2>4. \A out : Times(out)' = Times(out)
    BY <1>1 DEF Times
  <2>5. Errors' = Errors /\ RpcErrors' = RpcErrors /\ Made' = Made
    BY <1>1 DEF Errors, RpcErrors, Made
  <2>6. Tallied'
    BY <1>1, <2>1, <2>3, <2>4, <2>5 DEF BenchInv, Tallied
  <2> QED
    BY <1>1, <2>6 DEF BenchInv
<1>2. CASE UNCHANGED vars \/ Warmup
  BY <1>1, <1>2 DEF vars, Warmup
<1>3. ASSUME NEW w \in 1 .. Conc, Call(w)
      PROVE  BenchInv' /\ results' = results
  <2>1. PICK out \in Outcomes : Book(w, out)
    BY <1>3 DEF Call
  <2>2. Tallied'
    BY <1>3, <2>1, CallIsTallied DEF Call, BenchInv
  <2> QED
    BY <2>1, <2>2 DEF Book, BenchInv
<1>4. CASE Finish
  <2>1. /\ Running /\ \A w \in 1 .. Conc : workers[w].made = Per
        /\ results' = Append(results, Merged)
        /\ workers' = [w \in 1 .. Conc |-> NewWorker] /\ log' = EmptyBag
    BY <1>4 DEF Finish
  <2>2. Merged \in Result /\ Faithful(Merged)
    BY <2>1, MergedIsFaithful
  <2>3. (workers = [w \in 1 .. Conc |-> NewWorker] /\ log = EmptyBag => Tallied)'
    BY FreshTally, PTL
  <2>4. Tallied'
    BY <2>1, <2>3
  <2> HIDE DEF Merged
  <2>5. /\ results' \in Seq(Result) /\ Len(results') = Len(results) + 1
        /\ results'[Len(results')] = Merged /\ Len(results) \in Nat
    BY <2>1, <2>2 DEF BenchInv
  <2>6. Len(results') <= Len(Targets)
    BY <2>1, <2>5, TargetsAre DEF Running
  <2> QED
    BY <2>2, <2>4, <2>5, <2>6 DEF BenchInv
<1> QED
  BY <1>2, <1>3, <1>4 DEF Next

LEMMA BenchStarts == Init => BenchInv
<1> SUFFICES ASSUME Init PROVE BenchInv
  OBVIOUS
<1>1. Tallied
  BY FreshTally DEF Init
<1>2. results \in Seq(Result) /\ Len(results) = 0
  BY DEF Init
<1> QED
  BY <1>1, <1>2, TargetsAre DEF BenchInv

\* For any number of targets, workers and calls, and whatever targets answer: each
\* result is all the calls that were measured, and nothing else (main.go:152-172).
THEOREM ResultIsFaithful == Spec => ResultsAreFaithful
<1>1. BenchInv /\ [Next]_vars => BenchInv'
  BY BenchStep
<1>2. BenchInv /\ [Next]_vars => [results' # results => Faithful(results'[Len(results')])]_vars
  BY BenchStep
<1> QED
  BY <1>1, <1>2, BenchStarts, PTL DEF Spec, ResultsAreFaithful

\* For any samples, the percentiles the benchmark prints split them where they
\* should, to within half an observation (main.go:256-276).
THEOREM PercentilesSplit == Spec => []PercentilesSplitSamples
<1>1. BenchInv /\ [Next]_vars => BenchInv'
  BY BenchStep
<1>2. BenchInv => PercentilesSplitSamples
  <2> SUFFICES ASSUME BenchInv, NEW r \in Range(results), NEW p \in {50, 95, 99}, Len(r.latencies) > 0
               PROVE  LET n == Len(r.latencies)
                          v == Percentile(r.latencies, p)
                          below == Below(r.latencies, v)
                      IN  /\ 100 * UpTo(r.latencies, v) + 50 > n * p
                          /\ below = 0 \/ 100 * below + 50 <= n * p
    BY DEF PercentilesSplitSamples
  <2>1. PICK i \in DOMAIN results : r = results[i]
    BY RangeIs
  <2>2. r \in Result
    BY <2>1 DEF BenchInv
  <2>3. r.latencies # <<>>
    OBVIOUS
  <2>4. Ascending(r.latencies)
    BY <2>2 DEF Result
  <2> DEFINE l == r.latencies
  <2> HIDE DEF l
  <2>5. Ascending(l) /\ l # <<>>
    BY <2>3, <2>4 DEF l
  <2>6. SplitsAt(l, p)
    BY <2>5, SplitAtRank
  <2> DEFINE n == Len(l)
             v == Percentile(l, p)
             k == Rank(n, p)
  <2>7. /\ n \in Nat \ {0} /\ k \in 1 .. n
        /\ Below(l, v) \in Nat /\ UpTo(l, v) \in Nat
        /\ k <= UpTo(l, v) /\ Below(l, v) < k
    BY <2>6 DEF SplitsAt
  <2> HIDE DEF n, v
  <2>8. 100 * k + 50 > n * p /\ (k = 1 \/ 100 * k <= n * p + 50)
    <3>1. CASE p = 50
      BY <2>7, <3>1 DEF Rank
    <3>2. CASE p = 95
      BY <2>7, <3>2 DEF Rank
    <3>3. CASE p = 99
      BY <2>7, <3>3 DEF Rank
    <3> QED
      BY <3>1, <3>2, <3>3
  <2> HIDE DEF k
  <2>9. n * p \in Nat
    BY <2>7
  <2>10. 100 * UpTo(l, v) + 50 > n * p
    BY <2>7, <2>8, <2>9
  <2>11. Below(l, v) = 0 \/ 100 * Below(l, v) + 50 <= n * p
    BY <2>7, <2>8, <2>9
  <2> QED
    BY <2>10, <2>11 DEF l, n, v
<1> QED
  BY <1>1, <1>2, BenchStarts, PTL DEF Spec

-----------------------------------------------------------------------------
(* The comparison *)

\* Division keeps the order.
LEMMA DivisionKeepsOrder ==
  ASSUME NEW x \in Nat, NEW y \in Nat, NEW d \in Nat \ {0}, x <= y
  PROVE  x \div d \in Nat /\ x \div d <= y \div d
<1> DEFINE q == x \div d
           s == y \div d
<1>1. q \in Nat /\ d * q <= x /\ x < d * q + d
  OBVIOUS
<1>2. s \in Nat /\ d * s <= y /\ y < d * s + d
  OBVIOUS
<1> HIDE DEF q, s
<1>3. q <= s
  <2> SUFFICES ASSUME s + 1 <= q PROVE FALSE
    BY <1>1, <1>2
  <2>1. PICK k \in Nat : q = s + 1 + k
    <3>1. q - (s + 1) \in Nat /\ q = s + 1 + (q - (s + 1))
      BY <1>1, <1>2
    <3> QED
      BY <3>1
  <2>2. d * q = d * s + d + d * k
    BY <1>2, <2>1
  <2>3. d * k \in Nat /\ d * s \in Nat /\ d * q \in Nat
    BY <1>1, <1>2
  <2> QED
    BY <1>1, <1>2, <2>2, <2>3
<1> QED
  BY <1>1, <1>3 DEF q, s

LEMMA ProductDivides ==
  ASSUME NEW x \in Nat, NEW d \in Nat \ {0}
  PROVE  d * x \in Nat /\ (d * x) \div d = x
<1> DEFINE q == (d * x) \div d
<1>1. d * x \in Nat
  OBVIOUS
<1>2. q \in Nat /\ d * q <= d * x /\ d * x < d * q + d
  BY <1>1
<1> HIDE DEF q
<1>3. ~ (x < q)
  <2> SUFFICES ASSUME x < q PROVE FALSE
    OBVIOUS
  <2>1. PICK k \in Nat : q = x + 1 + k
    <3>1. q - (x + 1) \in Nat /\ q = x + 1 + (q - (x + 1))
      BY <1>2
    <3> QED
      BY <3>1
  <2>2. d * q = d * x + d + d * k
    BY <2>1
  <2>3. d * k \in Nat /\ d * q \in Nat
    BY <1>2
  <2> QED
    BY <1>1, <1>2, <2>2, <2>3
<1>4. ~ (q < x)
  <2> SUFFICES ASSUME q < x PROVE FALSE
    OBVIOUS
  <2>1. PICK k \in Nat : x = q + 1 + k
    <3>1. x - (q + 1) \in Nat /\ x = q + 1 + (x - (q + 1))
      BY <1>2
    <3> QED
      BY <3>1
  <2>2. d * x = d * q + d + d * k
    BY <1>2, <2>1
  <2>3. d * k \in Nat /\ d * q \in Nat
    BY <1>2
  <2> QED
    BY <1>1, <1>2, <2>2, <2>3
<1> QED
  BY <1>1, <1>2, <1>3, <1>4 DEF q

\* A mean is no less than the least of what it is taken of, and grows with it.
LEMMA MeanIsBetween ==
  ASSUME NEW f, NEW g, NEW S, IsFiniteSet(S), S # {}, DOMAIN f = S, DOMAIN g = S,
         \A x \in S : f[x] \in Nat /\ g[x] \in Nat /\ f[x] <= g[x],
         NEW low \in Nat, \A x \in S : low <= f[x]
  PROVE  Mean(f) \in Nat /\ low <= Mean(f) /\ Mean(f) <= Mean(g)
<1> DEFINE n == Cardinality(S)
           F == SumFunctionOnSet(f, S)
           G == SumFunctionOnSet(g, S)
           lows == [x \in S |-> low]
<1>1. n \in Nat \ {0}
  BY CardinalityFacts
<1>2. F \in Nat /\ G \in Nat
  BY SumBounds
<1>3. F <= G
  <2>1. \A x \in S : f[x] \in Int /\ g[x] \in Int /\ f[x] <= g[x]
    OBVIOUS
  <2> QED
    BY <2>1, SumGrowsWith
<1>4. n * low <= F
  <2>1. \A x \in S : lows[x] \in Int /\ f[x] \in Int /\ lows[x] <= f[x]
    OBVIOUS
  <2>2. SumFunctionOnSet(lows, S) = n * low
    BY SumOfEqual
  <2> HIDE DEF lows
  <2>3. SumFunctionOnSet(lows, S) <= F
    BY <2>1, SumGrowsWith
  <2> QED
    BY <2>2, <2>3
<1>5. Mean(f) = F \div n /\ Mean(g) = G \div n
  BY DEF Mean, SumFunction
<1> HIDE DEF n, F, G
<1>6. n * low \in Nat /\ (n * low) \div n = low
  BY <1>1, ProductDivides
<1>7. (n * low) \div n <= F \div n
  BY <1>1, <1>2, <1>4, <1>6, DivisionKeepsOrder
<1>8. F \div n \in Nat /\ F \div n <= G \div n
  BY <1>1, <1>2, <1>3, DivisionKeepsOrder
<1> QED
  BY <1>5, <1>6, <1>7, <1>8

\* The 50th percentile of a sample is no greater than its 99th.
LEMMA PercentilesGrow ==
  ASSUME NEW l, Ascending(l), l # <<>>
  PROVE  /\ Percentile(l, 50) \in Nat /\ Percentile(l, 99) \in Nat
         /\ Percentile(l, 50) <= Percentile(l, 99)
<1>1. /\ Len(l) \in Nat \ {0} /\ Rank(Len(l), 50) \in 1 .. Len(l)
      /\ Percentile(l, 50) = l[Rank(Len(l), 50)] /\ Percentile(l, 50) \in Nat
  BY SplitAtRank DEF SplitsAt
<1>2. /\ Rank(Len(l), 99) \in 1 .. Len(l)
      /\ Percentile(l, 99) = l[Rank(Len(l), 99)] /\ Percentile(l, 99) \in Nat
  BY SplitAtRank DEF SplitsAt
<1>3. ASSUME NEW n \in Nat \ {0} PROVE Rank(n, 50) <= Rank(n, 99)
  BY DEF Rank
<1>4. Rank(Len(l), 50) <= Rank(Len(l), 99)
  BY <1>1, <1>3
<1> QED
  BY <1>1, <1>2, <1>4 DEF Ascending

\* What compare says of the results rs.
Fair(rep, rs) ==
  LET answered == {r \in Range(rs) : r.name # Mesh /\ r.latencies # <<>>} IN
  /\ rep.fastest = Mesh <=> answered = {}
  /\ \A r \in answered : rep.fastestP50 <= Percentile(r.latencies, 50)
  /\ answered # {} => /\ \E r \in answered : r.name = rep.fastest
                      /\ rep.fastestP50 <= rep.naiveP50
                      /\ rep.naiveP50 <= rep.naiveP99

LEMMA CompareIsFair ==
  ASSUME NEW rs \in Seq(Result), NEW mesh
  PROVE  Fair(Compare(rs, mesh), rs)
<1> DEFINE others == Answering(rs)
           At(p) == [i \in others |-> Percentile(rs[i].latencies, p)]
           fastest == {i \in others : \A j \in others : At(50)[i] <= At(50)[j]}
           first == CHOOSE i \in fastest : \A j \in fastest : i <= j
           alone == [NoReport EXCEPT !.meshP50 = Percentile(mesh.latencies, 50),
                                     !.meshP99 = Percentile(mesh.latencies, 99)]
           answered == {r \in Range(rs) : r.name # Mesh /\ r.latencies # <<>>}
<1>1. /\ others \subseteq 1 .. Len(rs) /\ Len(rs) \in Nat /\ DOMAIN rs = 1 .. Len(rs)
      /\ \A i \in others : rs[i] \in Result /\ rs[i].name # Mesh /\ rs[i].latencies # <<>>
      /\ \A i \in 1 .. Len(rs) : rs[i].name # Mesh /\ rs[i].latencies # <<>> => i \in others
  BY DEF Answering
<1>2. answered = {rs[i] : i \in others}
  BY <1>1, RangeIs
<1>3. CASE others = {}
  <2>1. Compare(rs, mesh) = alone
    BY <1>3 DEF Compare
  <2>2. alone.fastest = Mesh
    BY DEF NoReport
  <2> QED
    BY <1>2, <1>3, <2>1, <2>2 DEF Fair
<1>4. CASE others # {}
  <2>1. Compare(rs, mesh) = [alone EXCEPT !.fastest = rs[first].name, !.fastestP50 = At(50)[first],
                                          !.naiveP50 = Mean(At(50)), !.naiveP99 = Mean(At(99))]
    BY <1>4 DEF Compare
  <2>2. \A i \in others : /\ At(50)[i] = Percentile(rs[i].latencies, 50)
                          /\ At(50)[i] \in Nat /\ At(99)[i] \in Nat /\ At(50)[i] <= At(99)[i]
    <3> TAKE i \in others
    <3>1. Ascending(rs[i].latencies) /\ rs[i].latencies # <<>>
      BY <1>1 DEF Result
    <3> QED
      BY <3>1, PercentilesGrow
  <2>3. IsFiniteSet(others) /\ DOMAIN At(50) = others /\ DOMAIN At(99) = others
    <3>1. IsFiniteSet(1 .. Len(rs))
      BY <1>1, CardinalityFacts
    <3> QED
      BY <1>1, <3>1, FiniteSetsGrow
  <2> HIDE DEF At, others
  <2>4. fastest # {}
    <3> DEFINE T == {At(50)[i] : i \in others}
    <3>1. T \subseteq Nat /\ T # {}
      BY <1>4, <2>2
    <3>2. PICK m \in T : \A n \in T : m <= n
      <4> HIDE DEF T
      <4> QED
        BY <3>1, LeastNumber
    <3>3. PICK i \in others : m = At(50)[i]
      BY <3>2
    <3> QED
      BY <3>2, <3>3
  <2>5. fastest \subseteq Nat
    <3>1. fastest \subseteq others /\ 1 .. Len(rs) \subseteq Nat
      BY <1>1
    <3> HIDE DEF fastest
    <3> QED
      BY <1>1, <3>1
  <2>6. first \in fastest
    <3> HIDE DEF fastest
    <3>1. \E i \in fastest : \A j \in fastest : i <= j
      BY <2>4, <2>5, LeastNumber
    <3> QED
      BY <3>1
  <2>7. first \in others /\ \A j \in others : At(50)[first] <= At(50)[j]
    <3> HIDE DEF first
    <3> QED
      BY <2>6
  <2> HIDE DEF first
  <2>8. /\ Mean(At(50)) \in Nat /\ At(50)[first] <= Mean(At(50))
        /\ Mean(At(50)) <= Mean(At(99))
    <3> DEFINE low == At(50)[first]
    <3>1. low \in Nat /\ \A j \in others : low <= At(50)[j]
      BY <2>2, <2>7
    <3> HIDE DEF low
    <3> QED
      BY <1>4, <2>2, <2>3, <3>1, MeanIsBetween DEF low
  <2> DEFINE c == Compare(rs, mesh)
  <2>9. /\ c.fastest = rs[first].name /\ c.fastestP50 = At(50)[first]
        /\ c.naiveP50 = Mean(At(50)) /\ c.naiveP99 = Mean(At(99))
    BY <2>1 DEF NoReport
  <2> HIDE DEF c
  <2>10. c.fastest # Mesh /\ answered # {} /\ \E r \in answered : r.name = c.fastest
    BY <1>1, <1>2, <2>7, <2>9
  <2>11. \A r \in answered : c.fastestP50 <= Percentile(r.latencies, 50)
    <3> TAKE r \in answered
    <3>1. PICK i \in others : r = rs[i]
      BY <1>2
    <3> QED
      BY <2>2, <2>7, <2>9, <3>1
  <2>12. c.fastestP50 <= c.naiveP50 /\ c.naiveP50 <= c.naiveP99
    BY <2>8, <2>9
  <2> HIDE DEF answered
  <2> QED
    BY <2>10, <2>11, <2>12 DEF Fair, c, answered
<1> QED
  BY <1>3, <1>4

\* For any upstreams, whichever of them answered and however fast: the fastest is
\* one of them and no other was faster in the median, and a random choice is expected
\* to be no faster (main.go:303-326).
THEOREM ComparisonFair == Spec => []ComparisonIsFair
<1> DEFINE Compared == Len(results) = Len(Targets) => Fair(report, results)
<1>1. BenchInv /\ [Next]_vars => BenchInv'
  BY BenchStep
<1>2. Init => Compared
  BY TargetsAre DEF Init
<1>3. BenchInv /\ Compared /\ [Next]_vars => Compared'
  <2> SUFFICES ASSUME BenchInv, Compared, [Next]_vars PROVE Compared'
    OBVIOUS
  <2>1. CASE UNCHANGED <<results, report>>
    BY <2>1
  <2>2. CASE Finish
    <3>1. Len(results') = Len(Targets) => report' = Compare(results', Merged)
      BY <2>2 DEF Finish
    <3>2. results' \in Seq(Result)
      BY <1>1 DEF BenchInv
    <3>3. Fair(Compare(results', Merged), results')
      BY <3>2, CompareIsFair
    <3> QED
      BY <3>1, <3>3
  <2> QED
    BY <2>1, <2>2 DEF Next, vars, Warmup, Call, Book
<1>4. Compared => ComparisonIsFair
  BY DEF Fair, ComparisonIsFair
<1> HIDE DEF Compared
<1> QED
  BY <1>1, <1>2, <1>3, <1>4, BenchStarts, PTL DEF Spec

=============================================================================
