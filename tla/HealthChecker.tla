--------------------------- MODULE HealthChecker ---------------------------
(***************************************************************************)
(* The health checker, src/router/health_check.go: Run's loop over a       *)
(* ticker and a context, RunCycle's fan-out of one goroutine per endpoint  *)
(* joined by a WaitGroup, and the two calls of defaultProbe. It is the     *)
(* only writer of the pool in the program.                                 *)
(*                                                                         *)
(* The nodes are the environment: one that is up answers, one that is down *)
(* does not, a flaky one does either. The context is cancelled by SIGINT   *)
(* or SIGTERM (main.go:33), at any moment.                                 *)
(***************************************************************************)
EXTENDS Pool

CONSTANT Cancelled   \* context.Canceled, as a probe's error

ASSUME CheckerAssumption == Cancelled \in ProbeErrors

VARIABLES
  pc,       \* where Run is
  probe,    \* per endpoint, where its goroutine is
  results,  \* RunCycle's slice: defined where a goroutine has written
  ticker,   \* the ticker and its channel, which holds one tick
  ctxDone,  \* the context is cancelled
  node      \* the state of the upstreams

checkerVars == <<pc, probe, results, ticker, ctxDone, node>>
vars == <<ep, maxSlot, pc, probe, results, ticker, ctxDone, node>>

NoResults == [e \in {} |-> Failures]

\* Types, and the happens-before the WaitGroup gives: what a goroutine wrote is
\* there exactly when it is done, and all of it is there when Wait has returned.
CheckerTypeOK ==
  /\ TypeOK
  /\ pc \in {"starting", "probing", "applying", "selecting", "stopped"}
  /\ probe \in [Endpoints -> {"idle", "getHealth", "getSlot", "done"}]
  /\ pc \in {"probing", "applying"} =>
       DOMAIN results = {e \in Endpoints : probe[e] = "done"}
  /\ pc = "applying" => DOMAIN results = Endpoints
  /\ \A e \in DOMAIN results : results[e] \in Results
  /\ ticker \in {"none", "waiting", "ticked"}
  /\ ctxDone \in BOOLEAN
  /\ node \in [Endpoints -> {"up", "flaky", "down"}]

Init ==
  /\ PoolInit
  /\ pc = "starting"
  /\ probe = [e \in Endpoints |-> "idle"]
  /\ results = NoResults
  /\ ticker = "none"
  /\ ctxDone = FALSE
  /\ node = [e \in Endpoints |-> "up"]

-----------------------------------------------------------------------------
(* RunCycle *)

\* mutant: only the endpoints in rotation are probed
StartCycleHealthyOnly ==
  /\ pc' = "probing"
  /\ probe' = [e \in Endpoints |-> IF ep[e].healthy THEN "getHealth" ELSE "done"]
  /\ results' = NoResults
  /\ UNCHANGED <<ep, maxSlot, ctxDone, node>>

\* Every goroutine is started before Wait is reached.
StartCycle ==
  /\ pc' = "probing"
  /\ probe' = [e \in Endpoints |-> "getHealth"]
  /\ results' = NoResults
  /\ UNCHANGED <<ep, maxSlot, ctxDone, node>>

\* The goroutine of e writes its own index and is done.
Finish(e, r) ==
  /\ probe' = [probe EXCEPT ![e] = "done"]
  /\ results' = [x \in DOMAIN results \cup {e} |-> IF x = e THEN r ELSE results[x]]
  /\ UNCHANGED <<ep, maxSlot, pc, ticker, ctxDone, node>>

HealthAnswers(e) ==
  /\ probe[e] = "getHealth" /\ node[e] # "down"
  /\ probe' = [probe EXCEPT ![e] = "getSlot"]
  /\ UNCHANGED <<ep, maxSlot, pc, results, ticker, ctxDone, node>>

SlotAnswers(e) ==
  /\ probe[e] = "getSlot" /\ node[e] # "down"
  /\ \E r \in Successes : Finish(e, r)

\* mutant: no per-probe deadline, so a node that hangs in getSlot holds the cycle
ProbeFailsWithoutDeadline(e) ==
  /\ probe[e] = "getHealth" /\ node[e] # "up"
  /\ \E r \in Failures : r.err # Cancelled /\ Finish(e, r)

\* Either call fails: an error reported by the node, a broken connection, or
\* the deadline both calls share.
ProbeFails(e) ==
  /\ probe[e] \in {"getHealth", "getSlot"} /\ node[e] # "up"
  /\ \E r \in Failures : r.err # Cancelled /\ Finish(e, r)

\* mutant: the zero values of a cancelled call are taken for an answer
ProbeCancelledSilently(e) ==
  /\ probe[e] \in {"getHealth", "getSlot"} /\ ctxDone
  /\ Finish(e, [slot |-> 0, latency |-> 0, err |-> NoErr])

\* A call in flight, or one begun afterwards, returns the cancellation. A call
\* already answered does not, so a cycle can end with results of both kinds.
ProbeCancelled(e) ==
  /\ probe[e] \in {"getHealth", "getSlot"} /\ ctxDone
  /\ Finish(e, [err |-> Cancelled])

\* mutant: Wait returns as soon as one goroutine is done
JoinFirst ==
  /\ pc = "probing" /\ \E e \in Endpoints : probe[e] = "done"
  /\ pc' = IF ctxDone THEN "selecting" ELSE "applying"
  /\ ticker' = IF ctxDone /\ ticker = "none" THEN "waiting" ELSE ticker
  /\ UNCHANGED <<ep, maxSlot, probe, results, ctxDone, node>>

\* mutant: the results of a cancelled cycle are applied
JoinIgnoringContext ==
  /\ pc = "probing" /\ \A e \in Endpoints : probe[e] = "done"
  /\ pc' = "applying"
  /\ UNCHANGED <<ep, maxSlot, probe, results, ticker, ctxDone, node>>

\* wg.Wait returns, and the context decides what becomes of the results. When
\* the first cycle of Run returns its ticker is created.
Join ==
  /\ pc = "probing" /\ \A e \in Endpoints : probe[e] = "done"
  /\ pc' = IF ctxDone THEN "selecting" ELSE "applying"
  /\ ticker' = IF ctxDone /\ ticker = "none" THEN "waiting" ELSE ticker
  /\ UNCHANGED <<ep, maxSlot, probe, results, ctxDone, node>>

\* The batched write, which a cancellation no longer prevents.
Apply ==
  /\ pc = "applying"
  /\ ApplyProbes(results)
  /\ pc' = "selecting"
  /\ ticker' = IF ticker = "none" THEN "waiting" ELSE ticker
  /\ UNCHANGED <<probe, results, ctxDone, node>>

-----------------------------------------------------------------------------
(* Run *)

\* The first cycle does not wait for the ticker.
FirstCycle ==
  /\ pc = "starting"
  /\ StartCycle /\ UNCHANGED ticker

\* A tick is dropped when the channel still holds one.
Tick ==
  /\ ticker = "waiting" /\ pc # "stopped"
  /\ ticker' = "ticked"
  /\ UNCHANGED <<ep, maxSlot, pc, probe, results, ctxDone, node>>

\* With a tick waiting and the context done, select takes either case.
NextCycle ==
  /\ pc = "selecting" /\ ticker = "ticked"
  /\ StartCycle /\ ticker' = "waiting"

\* mutant: the loop looks at the context only when there is no tick to serve
StopOnlyWhenQuiet ==
  /\ pc = "selecting" /\ ctxDone /\ ticker = "waiting"
  /\ pc' = "stopped"
  /\ UNCHANGED <<ep, maxSlot, probe, results, ticker, ctxDone, node>>

Stop ==
  /\ pc = "selecting" /\ ctxDone
  /\ pc' = "stopped"
  /\ UNCHANGED <<ep, maxSlot, probe, results, ticker, ctxDone, node>>

-----------------------------------------------------------------------------
(* The environment *)

Cancel ==
  /\ ~ ctxDone /\ ctxDone' = TRUE
  /\ UNCHANGED <<ep, maxSlot, pc, probe, results, ticker, node>>

NodeChanges(e) ==
  /\ \E s \in {"up", "flaky", "down"} \ {node[e]} : node' = [node EXCEPT ![e] = s]
  /\ UNCHANGED <<ep, maxSlot, pc, probe, results, ticker, ctxDone>>

ProbeStep(e) ==
  HealthAnswers(e) \/ SlotAnswers(e) \/ ProbeFails(e) \/ ProbeCancelled(e)

Next ==
  \/ FirstCycle \/ Join \/ Apply \/ Tick \/ NextCycle \/ Stop \/ Cancel
  \/ \E e \in Endpoints : ProbeStep(e) \/ NodeChanges(e)

\* A probe ends within HealthTimeout, a goroutine runs when it can, the clock
\* ticks. Go's select chooses at random among the ready cases, so it cannot
\* pass over ctx.Done for ever: strong fairness for Stop. Nothing makes a
\* signal arrive or a node change.
Fairness ==
  /\ \A e \in Endpoints : WF_vars(ProbeStep(e))
  /\ WF_vars(FirstCycle) /\ WF_vars(Join) /\ WF_vars(Apply)
  /\ WF_vars(Tick) /\ WF_vars(NextCycle) /\ SF_vars(Stop)

SafeSpec == Init /\ [][Next]_vars
Spec == SafeSpec /\ Fairness

-----------------------------------------------------------------------------
(* Properties *)

\* A shutdown ejects nobody: the cancellations it causes in probes in flight
\* never reach the pool (health_check.go:156-160), although the write is not
\* protected from a cancellation between the test of the context and the lock.
NoSpuriousFailure == \A e \in Endpoints : ep[e].lastErr # Cancelled

\* Whatever the goroutines do, the pool sees whole cycles: each of its writes
\* is one batch with one fresh result for every endpoint. What Pool shows of
\* BatchSpec therefore holds of the program.
OnlyWholeCycles == BatchSpec

\* A node that stays down, refusing or hanging, leaves the rotation and stays
\* out of it, unless the checker is told to stop.
DownIsEjected ==
  \A e \in Endpoints :
    <>[](node[e] = "down") => <>(ctxDone \/ [](~ ep[e].healthy))

\* A node that stays up is readmitted and stays in rotation, whatever the
\* other nodes do, unless the checker is told to stop.
UpIsReadmitted ==
  \A e \in Endpoints :
    <>[](node[e] = "up") => <>(ctxDone \/ []ep[e].healthy)

\* Run returns once the context is cancelled: main.go:128 waits for it.
StopsWhenCancelled == ctxDone ~> pc = "stopped"

=============================================================================
