------------------------ MODULE HealthCheckerProofs ------------------------
(***************************************************************************)
(* What the health checker lets reach the pool, for any endpoints: whole   *)
(* cycles only, and never a cancellation. With it the theorems of          *)
(* PoolProofs about BatchSpec become theorems about the program.           *)
(***************************************************************************)
EXTENDS HealthChecker, PoolProofs

\* The strengthening. `results` is a function, so a complete one is a batch;
\* before the context is done, and in a batch about to be applied, there is
\* no cancellation.
CheckerInv ==
  /\ CheckerTypeOK
  /\ PoolInv
  /\ NoSpuriousFailure
  /\ results = [e \in DOMAIN results |-> results[e]]
  /\ pc = "applying" \/ (pc = "probing" /\ ~ ctxDone) =>
       \A e \in DOMAIN results : results[e].err # Cancelled

LEMMA CheckerInit == Init => CheckerInv
<1> SUFFICES ASSUME Init PROVE CheckerInv
  OBVIOUS
<1>1. PoolInv
  BY PoolInitInv DEF Init
<1>2. results = [e \in {} |-> Failures] /\ DOMAIN results = {}
  BY DEF Init, NoResults
<1>3. NoSpuriousFailure
  BY PoolAssumption, CheckerAssumption DEF Init, PoolInit, NoSpuriousFailure
<1>4. CheckerTypeOK
  BY <1>1, <1>2 DEF Init, CheckerTypeOK, PoolInv
<1> QED
  BY <1>1, <1>2, <1>3, <1>4 DEF Init, CheckerInv

\* A complete slice of results is a whole cycle, and the write is a batch.
LEMMA ApplyIsBatch ==
  ASSUME CheckerInv, Apply
  PROVE  results \in [Endpoints -> Results] /\ ApplyProbes(results) /\ BatchNext
<1>1. DOMAIN results = Endpoints /\ \A e \in Endpoints : results[e] \in Results
  BY DEF CheckerInv, CheckerTypeOK, Apply
<1>2. results \in [Endpoints -> Results]
  BY <1>1 DEF CheckerInv
<1>3. ApplyProbes(results)
  BY DEF Apply
<1> QED
  BY <1>2, <1>3 DEF BatchNext

\* A cycle without cancellations leaves none behind.
LEMMA ApplyIsClean ==
  ASSUME CheckerInv, Apply
  PROVE  NoSpuriousFailure'
<1> SUFFICES ASSUME NEW e \in Endpoints PROVE ep'[e].lastErr # Cancelled
  BY DEF NoSpuriousFailure
<1>1. results \in [Endpoints -> Results] /\ ApplyProbes(results)
  BY ApplyIsBatch
<1>2. ep'[e] = Recorded(ep[e], results[e])
  BY <1>1 DEF ApplyProbes
<1>3. results[e].err # Cancelled /\ NoErr # Cancelled
  BY <1>1, PoolAssumption, CheckerAssumption DEF CheckerInv, Apply
<1>4. ep'[e].lastErr = IF results[e].err = NoErr THEN NoErr ELSE results[e].err
  BY <1>2 DEF Recorded, RecordSuccess, RecordFailure
<1> QED
  BY <1>3, <1>4

\* A goroutine that ends adds one result, and changes no other.
LEMMA FinishStep ==
  ASSUME CheckerInv, NEW e \in Endpoints, NEW r \in Results, Finish(e, r),
         probe[e] \in {"getHealth", "getSlot"},
         r.err = Cancelled => ctxDone
  PROVE  CheckerInv'
<1> USE DEF Finish
<1>1. /\ DOMAIN results' = DOMAIN results \cup {e}
      /\ \A x \in DOMAIN results' : results'[x] = IF x = e THEN r ELSE results[x]
      /\ results' = [x \in DOMAIN results' |-> results'[x]]
  OBVIOUS
<1>2. PoolInv' /\ NoSpuriousFailure' /\ TypeOK'
  BY DEF CheckerInv, NoSpuriousFailure, PoolInv, TypeOK, EndpointRecord, WatermarkIsLive,
         Reporting
<1>3. probe' \in [Endpoints -> {"idle", "getHealth", "getSlot", "done"}]
  BY DEF CheckerInv, CheckerTypeOK
<1>4. {x \in Endpoints : probe'[x] = "done"} = {x \in Endpoints : probe[x] = "done"} \cup {e}
  BY DEF CheckerInv, CheckerTypeOK
<1>5. pc # "applying"
  BY DEF CheckerInv, CheckerTypeOK
<1>6. \A x \in DOMAIN results' : results'[x] \in Results
  BY <1>1 DEF CheckerInv, CheckerTypeOK
<1>7. CheckerTypeOK'
  BY <1>1, <1>2, <1>3, <1>4, <1>5, <1>6 DEF CheckerInv, CheckerTypeOK
<1>8. pc' = "probing" /\ ~ ctxDone' => \A x \in DOMAIN results' : results'[x].err # Cancelled
  BY <1>1 DEF CheckerInv
<1> QED
  BY <1>1, <1>2, <1>5, <1>7, <1>8 DEF CheckerInv

\* A step that leaves the pool, the probes and their results alone.
LEMMA QuietStep ==
  ASSUME CheckerInv, UNCHANGED <<ep, maxSlot, probe, results>>,
         pc' \in {"starting", "probing", "applying", "selecting", "stopped"},
         ticker' \in {"none", "waiting", "ticked"}, ctxDone' \in BOOLEAN,
         node' \in [Endpoints -> {"up", "flaky", "down"}],
         pc' \in {"probing", "applying"} => pc = "probing" \/ pc = pc',
         pc' = "applying" => pc = pc' \/ (~ ctxDone /\ DOMAIN results = Endpoints),
         ctxDone => ctxDone'
  PROVE  CheckerInv'
<1>1. PoolInv' /\ NoSpuriousFailure' /\ TypeOK'
  BY DEF CheckerInv, NoSpuriousFailure, PoolInv, TypeOK, EndpointRecord, WatermarkIsLive,
         Reporting
<1>2. CheckerTypeOK'
  BY <1>1 DEF CheckerInv, CheckerTypeOK
<1>3. pc' = "applying" \/ (pc' = "probing" /\ ~ ctxDone') =>
        \A e \in DOMAIN results' : results'[e].err # Cancelled
  BY DEF CheckerInv, CheckerTypeOK
<1> QED
  BY <1>1, <1>2, <1>3 DEF CheckerInv

\* A cycle starts with nothing done and no results.
LEMMA StartStep ==
  ASSUME CheckerInv, StartCycle, ticker' \in {"none", "waiting", "ticked"}
  PROVE  CheckerInv'
<1>1. results' = [e \in {} |-> Failures] /\ DOMAIN results' = {}
  BY DEF StartCycle, NoResults
<1>2. PoolInv' /\ NoSpuriousFailure' /\ TypeOK'
  BY DEF StartCycle, CheckerInv, NoSpuriousFailure, PoolInv, TypeOK, EndpointRecord,
         WatermarkIsLive, Reporting
<1>3. CheckerTypeOK'
  BY <1>1, <1>2 DEF StartCycle, CheckerInv, CheckerTypeOK
<1> QED
  BY <1>1, <1>2, <1>3 DEF CheckerInv, StartCycle

LEMMA CheckerStep == CheckerInv /\ [Next]_vars => CheckerInv'
<1> SUFFICES ASSUME CheckerInv, [Next]_vars PROVE CheckerInv'
  OBVIOUS
<1>0. CheckerTypeOK
  BY DEF CheckerInv
<1>1. CASE UNCHANGED vars
  BY <1>1, <1>0, QuietStep DEF vars, CheckerTypeOK
<1>2. CASE FirstCycle
  BY <1>2, <1>0, StartStep DEF FirstCycle, CheckerTypeOK
<1>3. CASE NextCycle
  BY <1>3, StartStep DEF NextCycle
<1>4. CASE Join
  <2>1. DOMAIN results = Endpoints
    BY <1>4, <1>0 DEF Join, CheckerTypeOK
  <2>2. UNCHANGED <<ep, maxSlot, probe, results, ctxDone, node>>
    BY <1>4 DEF Join
  <2>3. pc = "probing" /\ pc' = IF ctxDone THEN "selecting" ELSE "applying"
    BY <1>4 DEF Join
  <2>4. ticker' \in {"none", "waiting", "ticked"}
    BY <1>4, <1>0 DEF Join, CheckerTypeOK
  <2> QED
    BY <2>1, <2>2, <2>3, <2>4, <1>0, QuietStep DEF CheckerTypeOK
<1>5. CASE Apply
  <2>1. results \in [Endpoints -> Results] /\ ApplyProbes(results) /\ BatchNext
    BY <1>5, ApplyIsBatch
  <2>2. PoolInv'
    BY <2>1, PoolStepInv DEF PoolNext, CheckerInv
  <2>3. NoSpuriousFailure'
    BY <1>5, ApplyIsClean
  <2>4. CheckerTypeOK'
    BY <1>5, <1>0, <2>2 DEF Apply, CheckerTypeOK, PoolInv
  <2> QED
    BY <1>5, <2>2, <2>3, <2>4 DEF Apply, CheckerInv
<1>6. CASE Tick
  BY <1>6, <1>0, QuietStep DEF Tick, CheckerTypeOK
<1>7. CASE Stop
  BY <1>7, <1>0, QuietStep DEF Stop, CheckerTypeOK
<1>8. CASE Cancel
  BY <1>8, <1>0, QuietStep DEF Cancel, CheckerTypeOK
<1>9. ASSUME NEW e \in Endpoints, NodeChanges(e) PROVE CheckerInv'
  <2>1. node' \in [Endpoints -> {"up", "flaky", "down"}]
    BY <1>9, <1>0 DEF NodeChanges, CheckerTypeOK
  <2> QED
    BY <1>9, <1>0, <2>1, QuietStep DEF NodeChanges, CheckerTypeOK
<1>10. ASSUME NEW e \in Endpoints, HealthAnswers(e) PROVE CheckerInv'
  <2>1. PoolInv' /\ NoSpuriousFailure' /\ TypeOK'
    BY <1>10 DEF HealthAnswers, CheckerInv, NoSpuriousFailure, PoolInv, TypeOK,
                 EndpointRecord, WatermarkIsLive, Reporting
  <2>2. /\ probe' \in [Endpoints -> {"idle", "getHealth", "getSlot", "done"}]
        /\ {x \in Endpoints : probe'[x] = "done"} = {x \in Endpoints : probe[x] = "done"}
    BY <1>10, <1>0 DEF HealthAnswers, CheckerTypeOK
  <2>3. CheckerTypeOK'
    BY <1>10, <1>0, <2>1, <2>2 DEF HealthAnswers, CheckerTypeOK
  <2> QED
    BY <1>10, <2>1, <2>3 DEF HealthAnswers, CheckerInv
<1>11. ASSUME NEW e \in Endpoints, SlotAnswers(e) PROVE CheckerInv'
  <2>1. PICK r \in Successes : Finish(e, r)
    BY <1>11 DEF SlotAnswers
  <2>2. r \in Results /\ r.err # Cancelled
    BY PoolAssumption, CheckerAssumption DEF Results, Successes
  <2> QED
    BY <1>11, <2>1, <2>2, FinishStep DEF SlotAnswers
<1>12. ASSUME NEW e \in Endpoints, ProbeFails(e) PROVE CheckerInv'
  <2>1. PICK r \in Failures : r.err # Cancelled /\ Finish(e, r)
    BY <1>12 DEF ProbeFails
  <2>2. r \in Results
    BY DEF Results
  <2> QED
    BY <1>12, <2>1, <2>2, FinishStep DEF ProbeFails
<1>13. ASSUME NEW e \in Endpoints, ProbeCancelled(e) PROVE CheckerInv'
  <2>1. [err |-> Cancelled] \in Results
    BY CheckerAssumption DEF Results, Failures
  <2> QED
    BY <1>13, <2>1, FinishStep DEF ProbeCancelled
<1> QED
  BY <1>1, <1>2, <1>3, <1>4, <1>5, <1>6, <1>7, <1>8, <1>9, <1>10, <1>11, <1>12, <1>13
  DEF Next, ProbeStep

THEOREM CheckerInvariant == SafeSpec => []CheckerInv
BY CheckerInit, CheckerStep, PTL DEF SafeSpec

\* The fan-out and its join: every goroutine's result is there when Wait
\* returns, and only then (CheckerTypeOK says so beside the types).
THEOREM CheckerTypeCorrect == SafeSpec => []CheckerTypeOK
<1>1. CheckerInv => CheckerTypeOK
  BY DEF CheckerInv
<1> QED
  BY <1>1, CheckerInvariant, PTL

\* A shutdown never ejects an endpoint: no cancellation reaches the pool,
\* wherever between a probe and the write the signal arrives.
THEOREM ShutdownEjectsNobody == SafeSpec => []NoSpuriousFailure
<1>1. CheckerInv => NoSpuriousFailure
  BY DEF CheckerInv
<1> QED
  BY <1>1, CheckerInvariant, PTL

\* The health checker implements the pool driven in whole cycles.
THEOREM CheckerWritesWholeCycles == SafeSpec => OnlyWholeCycles
<1>1. Init => PoolInit
  BY DEF Init
<1>2. CheckerInv /\ [Next]_vars => [BatchNext]_poolVars
  <2> SUFFICES ASSUME CheckerInv, [Next]_vars PROVE [BatchNext]_poolVars
    OBVIOUS
  <2>1. CASE Apply
    BY <2>1, ApplyIsBatch
  <2>2. CASE ~ Apply
    BY <2>2 DEF Next, vars, poolVars, FirstCycle, StartCycle, Join, Tick, NextCycle, Stop,
                Cancel, ProbeStep, HealthAnswers, SlotAnswers, ProbeFails, ProbeCancelled,
                Finish, NodeChanges
  <2> QED
    BY <2>1, <2>2
<1> QED
  BY <1>1, <1>2, CheckerInvariant, PTL DEF SafeSpec, OnlyWholeCycles, BatchSpec

\* What was proved of the pool alone holds of the program: no first choice is
\* ever degraded, whatever the nodes do and whenever the signal comes.
THEOREM ProgramNeverDegraded == SafeSpec => []PrimaryNeverDegraded
BY CheckerWritesWholeCycles, FirstChoiceNeverDegraded, PTL DEF OnlyWholeCycles

=============================================================================
