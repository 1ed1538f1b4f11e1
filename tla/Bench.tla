------------------------------- MODULE Bench -------------------------------
(***************************************************************************)
(* src/cmd/bench/main.go: every upstream by itself and then the mesh are   *)
(* called by workers that each wait for an answer before the next call;    *)
(* their samples are merged and sorted, and the mesh is compared with what *)
(* the upstreams gave.                                                     *)
(***************************************************************************)
EXTENDS Integers, Sequences, FiniteSets, Functions, Bags, BagsExt

CONSTANTS
  Upstreams,  \* the short names of the upstreams, in order
  Mesh,       \* "rpc-mesh"
  Requests,   \* -n
  Conc,       \* -c
  Warmups,    \* -warmup
  NoAnswer,   \* the call failed or ran out of time
  Responses   \* what a target may send

ASSUME BenchAssumption ==
  /\ Requests \in Nat /\ Conc \in Nat \ {0} /\ Warmups \in Nat
  /\ Upstreams \in Seq(Range(Upstreams))
  /\ Responses \subseteq [status : 200 .. 599, whole : BOOLEAN, error : BOOLEAN, elapsed : Nat]

VARIABLES
  warmed,   \* the warmup calls made to the present target
  workers,  \* what each worker has gathered of it
  log,      \* history: the bag of all outcomes of the present target, warmups left out
  results,  \* the results so far
  report    \* the comparison, at the end

vars == <<warmed, workers, log, results, report>>

Targets == Append(Upstreams, Mesh)

Per == Requests \div Conc

NewWorker == [made |-> 0, lat |-> <<>>, errors |-> 0, rpcErrors |-> 0]

NoReport == [fastest |-> Mesh, fastestP50 |-> 0, naiveP50 |-> 0, naiveP99 |-> 0,
             meshP50 |-> 0, meshP99 |-> 0]

-----------------------------------------------------------------------------
(* The arithmetic *)

\* mutant: the rank is used as the index of a slice that starts at 0
RankFromZero(n, p) == LET r == (n * p + 50) \div 100 + 1 IN IF r > n THEN n ELSE r

\* percentile's rank: n*p/100 rounded to the nearest, within 1..n.
Rank(n, p) == LET r == (n * p + 50) \div 100 IN IF r < 1 THEN 1 ELSE IF r > n THEN n ELSE r

Percentile(sorted, p) == IF sorted = <<>> THEN 0 ELSE sorted[Rank(Len(sorted), p)]

\* mean, of durations with any index.
Mean(ds) == IF DOMAIN ds = {} THEN 0 ELSE SumFunction(ds) \div Cardinality(DOMAIN ds)

\* How many samples are below d, and how many are at most d.
Below(ds, d) == Cardinality({x \in DOMAIN ds : ds[x] < d})
UpTo(ds, d) == Cardinality({x \in DOMAIN ds : ds[x] <= d})

\* The samples in ascending order: the k-th has fewer than k below it.
Sorted(ds) ==
  [k \in 1 .. Cardinality(DOMAIN ds) |->
     CHOOSE d \in Range(ds) : Below(ds, d) < k /\ k <= UpTo(ds, d)]

Error == [kind |-> "error"]
RpcError == [kind |-> "rpc_error"]
Success(elapsed) == [kind |-> "success", elapsed |-> elapsed]

\* doRequest: a body that carries an error is not a success, and one that is not
\* read to its end is a failure. A body that does not parse is a success.
Outcome(resp) ==
  IF resp = NoAnswer THEN Error
  ELSE IF ~ resp.whole \/ resp.status >= 400 THEN Error
  ELSE IF resp.error THEN RpcError
  ELSE Success(resp.elapsed)

\* mutant: a target that answered nothing takes part
AnsweringAll(rs) == {i \in DOMAIN rs : rs[i].name # Mesh}

\* The results that compare goes by.
Answering(rs) == {i \in DOMAIN rs : rs[i].name # Mesh /\ rs[i].latencies # <<>>}

\* compare: the first of the fastest upstreams, and the mean of all of them, which
\* is what picking one at random can be expected to give.
Compare(rs, mesh) ==
  LET others == Answering(rs)
      At(p) == [i \in others |-> Percentile(rs[i].latencies, p)]
      fastest == {i \in others : \A j \in others : At(50)[i] <= At(50)[j]}
      first == CHOOSE i \in fastest : \A j \in fastest : i <= j
      alone == [NoReport EXCEPT !.meshP50 = Percentile(mesh.latencies, 50),
                                !.meshP99 = Percentile(mesh.latencies, 99)]
  IN  IF others = {} THEN alone
      ELSE [alone EXCEPT !.fastest = rs[first].name, !.fastestP50 = At(50)[first],
                         !.naiveP50 = Mean(At(50)), !.naiveP99 = Mean(At(99))]

-----------------------------------------------------------------------------
(* run, and the end of main *)

Init ==
  /\ warmed = 0 /\ workers = [w \in 1 .. Conc |-> NewWorker] /\ log = EmptyBag
  /\ results = <<>> /\ report = NoReport

Running == Len(results) < Len(Targets)

\* A warmup's outcome is thrown away.
Warmup ==
  /\ Running /\ warmed < Warmups /\ warmed' = warmed + 1
  /\ UNCHANGED <<workers, log, results, report>>

\* What worker w makes of an outcome.
Gathered(w, out) ==
  [w EXCEPT !.made = @ + 1,
            !.lat = IF out.kind = "success" THEN Append(@, out.elapsed) ELSE @,
            !.errors = IF out = Error THEN @ + 1 ELSE @,
            !.rpcErrors = IF out = RpcError THEN @ + 1 ELSE @]

Outcomes == {Outcome(resp) : resp \in Responses \cup {NoAnswer}}

Book(w, out) ==
  /\ workers' = [workers EXCEPT ![w] = Gathered(@, out)]
  /\ log' = BagAdd(log, out)
  /\ UNCHANGED <<warmed, results, report>>

\* A worker calls and waits for the outcome. No two share what they write.
Call(w) ==
  /\ Running /\ warmed = Warmups /\ workers[w].made < Per
  /\ \E out \in Outcomes : Book(w, out)

\* The workers' latencies, by worker and position.
Samples == UNION {{<<w, i>> : i \in DOMAIN workers[w].lat} : w \in 1 .. Conc}
Measured == [x \in Samples |-> workers[x[1]].lat[x[2]]]

Errors == SumFunction([w \in 1 .. Conc |-> workers[w].errors])
RpcErrors == SumFunction([w \in 1 .. Conc |-> workers[w].rpcErrors])

\* mutant: of the workers' samples the last one's are kept
MergedLast ==
  [name |-> Targets[Len(results) + 1], latencies |-> Sorted(workers[Conc].lat),
   errors |-> Errors, rpcErrors |-> RpcErrors]

\* The result of the present target.
Merged ==
  [name |-> Targets[Len(results) + 1], latencies |-> Sorted(Measured),
   errors |-> Errors, rpcErrors |-> RpcErrors]

\* mutant: a target that answered nothing is measured again
FinishIfAnswered ==
  /\ Running /\ warmed = Warmups /\ \A w \in 1 .. Conc : workers[w].made = Per
  /\ results' = IF Merged.latencies = <<>> THEN results ELSE Append(results, Merged)
  /\ report' = IF Len(results') = Len(Targets) THEN Compare(results', Merged) ELSE report
  /\ warmed' = 0 /\ workers' = [w \in 1 .. Conc |-> NewWorker] /\ log' = EmptyBag

\* wg.Wait, the merge, and on to the next target; after the mesh, the comparison.
Finish ==
  /\ Running /\ warmed = Warmups /\ \A w \in 1 .. Conc : workers[w].made = Per
  /\ results' = Append(results, Merged)
  /\ report' = IF Len(results') = Len(Targets) THEN Compare(results', Merged) ELSE report
  /\ warmed' = 0 /\ workers' = [w \in 1 .. Conc |-> NewWorker] /\ log' = EmptyBag

Next == Warmup \/ Finish \/ \E w \in 1 .. Conc : Call(w)

\* The client's timeout ends every call.
Spec == Init /\ [][Next]_vars /\ WF_vars(Next)

-----------------------------------------------------------------------------
(* Properties *)

\* How often an outcome has been logged.
Times(out) == IF out \in DOMAIN log THEN log[out] ELSE 0

\* r holds what has been logged.
Faithful(r) ==
  /\ \A i \in 2 .. Len(r.latencies) : r.latencies[i - 1] <= r.latencies[i]
  /\ \A out \in Outcomes \ {Error, RpcError} :
       Cardinality({i \in DOMAIN r.latencies : r.latencies[i] = out.elapsed}) = Times(out)
  /\ r.errors = Times(Error) /\ r.rpcErrors = Times(RpcError)
  /\ Len(r.latencies) + r.errors + r.rpcErrors \in Requests - Conc + 1 .. Requests

\* A result is the calls that were measured, all of them, and nothing else: the
\* latencies are those of the successes, in ascending order, whichever worker had
\* which (main.go:152-172). Fewer than -c calls are left out by the division of -n.
ResultsAreFaithful ==
  [][results' # results => Faithful(results'[Len(results')])]_vars

\* A percentile splits the sample where it should, to within half an observation:
\* so many are at or below it, and no more below it (main.go:256-276).
PercentilesSplitSamples ==
  \A r \in Range(results), p \in {50, 95, 99} :
    LET n == Len(r.latencies)
        v == Percentile(r.latencies, p)
        below == Below(r.latencies, v)
    IN  n > 0 => /\ 100 * UpTo(r.latencies, v) + 50 > n * p
                 /\ below = 0 \/ 100 * below + 50 <= n * p

\* Whatever failed, the upstream that the report calls the fastest answered, none
\* that answered was faster in the median, and a random choice is expected to be
\* no faster than it (main.go:303-326).
ComparisonIsFair ==
  Len(results) = Len(Targets) =>
    LET answered == {r \in Range(results) : r.name # Mesh /\ r.latencies # <<>>} IN
    /\ report.fastest = Mesh <=> answered = {}
    /\ \A r \in answered : report.fastestP50 <= Percentile(r.latencies, 50)
    /\ answered # {} => /\ \E r \in answered : r.name = report.fastest
                        /\ report.fastestP50 <= report.naiveP50
                        /\ report.naiveP50 <= report.naiveP99

\* The benchmark ends, also when targets do not answer.
BenchEnds == <>(Len(results) = Len(Targets))

=============================================================================
