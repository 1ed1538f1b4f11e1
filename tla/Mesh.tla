-------------------------------- MODULE Mesh --------------------------------
(***************************************************************************)
(* The whole: nodes that come and go, the health checker that looks at     *)
(* them, the pool between them and the handlers, and the signal that stops *)
(* the checker before the handlers (src/main.go). The checker is reduced   *)
(* to what HealthChecker!OnlyWholeCycles shows of it, the handlers are     *)
(* those of Proxy, and a handler's attempt now ends as its node lets it.   *)
(***************************************************************************)
EXTENDS Proxy

CONSTANTS
  Tip,     \* the slot of a node that is up
  Stuck    \* the slot a node that is behind reports

ASSUME MeshAssumption ==
  /\ Tip \in Slots /\ Stuck \in Slots \ {0} /\ Stuck + MaxSlotLag < Tip
  /\ Faults # {} /\ Responses # {} /\ Latencies # {} /\ ProbeErrors # {}

VARIABLES
  node,     \* the nodes: "up", "behind" or "down"
  seen,     \* what the probes of the present cycle have found
  ctxDone   \* the signal's context is cancelled

meshVars == <<ep, maxSlot, req, node, seen, ctxDone>>

MeshInit ==
  /\ ProxyInit /\ node \in [Endpoints -> {"up", "behind", "down"}]
  /\ seen = [e \in {} |-> Failures] /\ ctxDone = FALSE

\* What a probe of e can find now.
Found(e) ==
  CASE node[e] = "up" -> {r \in Successes : r.slot = Tip}
    [] node[e] = "behind" -> {r \in Successes : r.slot = Stuck}
    [] node[e] = "down" -> Failures

\* mutant: a probe of a node that hangs does not end
ObserveAnswers(e) ==
  /\ e \notin DOMAIN seen /\ ~ ctxDone /\ node[e] # "down"
  /\ \E r \in Found(e) : seen' = [x \in DOMAIN seen \cup {e} |-> IF x = e THEN r ELSE seen[x]]
  /\ UNCHANGED <<ep, maxSlot, req, node, ctxDone>>

\* The probe of e ends, at any time of the cycle.
Observe(e) ==
  /\ e \notin DOMAIN seen /\ ~ ctxDone
  /\ \E r \in Found(e) : seen' = [x \in DOMAIN seen \cup {e} |-> IF x = e THEN r ELSE seen[x]]
  /\ UNCHANGED <<ep, maxSlot, req, node, ctxDone>>

\* mutant: the failures are left out of the batch
ApplyAnswers ==
  /\ DOMAIN seen = Endpoints /\ ~ ctxDone
  /\ ApplyProbes([e \in {x \in Endpoints : seen[x].err = NoErr} |-> seen[e]])
  /\ seen' = [e \in {} |-> Failures]
  /\ UNCHANGED <<req, node, ctxDone>>

\* The cycle is written, and the next begins. A signal between the test of the
\* context and the write has the effect of one after it.
Apply ==
  /\ DOMAIN seen = Endpoints /\ ~ ctxDone
  /\ ApplyProbes(seen)
  /\ seen' = [e \in {} |-> Failures]
  /\ UNCHANGED <<req, node, ctxDone>>

\* The checker's context is the signal's own: no cycle is applied any more.
Signal ==
  /\ ~ ctxDone /\ ctxDone' = TRUE
  /\ UNCHANGED <<ep, maxSlot, req, node, seen>>

NodeChanges(e) ==
  /\ \E s \in {"up", "behind", "down"} \ {node[e]} : node' = [node EXCEPT ![e] = s]
  /\ UNCHANGED <<ep, maxSlot, req, seen, ctxDone>>

\* A node that is down fails an attempt; one that is not answers.
AsTheNodeIs(q) ==
  req[q].pc = "forwarding" =>
    req'[q].pc = IF node[req[q].endpoint] = "down" THEN "failed" ELSE "answered"

Handle(q) == HandlerStep(q) /\ AsTheNodeIs(q) /\ UNCHANGED <<node, seen, ctxDone>>

\* The clients of this module stay: Proxy has those that leave.
Arrive(q) == Admit(q) /\ UNCHANGED <<node, seen, ctxDone>>

\* Another request in place of one that is done.
Renew(q) ==
  /\ req[q].pc = "done" /\ Become(q, NewRequest)
  /\ UNCHANGED <<node, seen, ctxDone>>

MeshNext ==
  \/ Apply \/ Signal
  \/ \E e \in Endpoints : Observe(e) \/ NodeChanges(e)
  \/ \E q \in Requests : Arrive(q) \/ Handle(q) \/ Renew(q)

MeshSafeSpec == MeshInit /\ [][MeshNext]_meshVars

\* As in HealthChecker and Proxy: probes end, cycles are written, handlers run.
\* Nothing makes a node change, a client come, or a signal arrive.
MeshSpec ==
  /\ MeshSafeSpec
  /\ WF_meshVars(Apply)
  /\ \A e \in Endpoints : WF_meshVars(Observe(e))
  /\ \A q \in Requests : WF_meshVars(Handle(q))

-----------------------------------------------------------------------------
(* Properties *)

Live == {e \in Endpoints : node[e] # "down"}

\* The nodes a client should be sent to: those at the tip, or else those that live.
Best == IF \E e \in Endpoints : node[e] = "up" THEN {e \in Endpoints : node[e] = "up"} ELSE Live

\* The pool has followed the nodes for n whole cycles: as many of the last probes
\* of each found what it is now. Those of the present cycle find it too.
Settled(n) ==
  /\ \A e \in DOMAIN seen : seen[e] \in Found(e)
  /\ n > 0 => \A e \in Endpoints :
                /\ node[e] = "down" => ep[e].consecFails >= n
                /\ node[e] # "down" => ep[e].consecOKs >= n /\ ep[e].lastErr = NoErr
                /\ node[e] = "up" => ep[e].slot = Tip
                /\ node[e] = "behind" => ep[e].slot = Stuck

\* However they were before, nodes that come to rest are followed a cycle further
\* with each cycle written, and nothing else a step does undoes it. After as many
\* as the larger threshold, a request goes to one of the best nodes first, or,
\* there being none, nowhere (README.md:76-99, types.go:214-234).
SettlesInCycles ==
  [][/\ node' = node =>
          /\ Apply => Settled(0)'
          /\ \A n \in 0 .. CounterCap :
               Settled(n) => Settled(n)' /\ (Apply => Settled(Bump(n))')
     /\ Settled(Max({FailThreshold, OKThreshold})) =>
          \A q \in Requests :
            /\ Choose(q) => req'[q].endpoint \in Best /\ ~ req'[q].stale
            /\ ChooseNone(q) => Live = {}]_meshVars

\* No signal has come, and the nodes have come to rest.
Calm == <>[](~ ctxDone) /\ <>[][UNCHANGED node]_node

Finishing(q) == req[q].pc # "done" /\ req'[q].pc = "done"

\* Once the nodes have come to rest with one of them alive, and while the checker
\* runs, a request that ends has been answered, and by one of the best nodes:
\* failures, regressions and lag are forgotten in the end.
ServedByTheBest ==
  Calm /\ <>[](Live # {}) =>
    <>[][\A q \in Requests :
           Finishing(q) => req'[q].servedBy \in Best /\ ~ req'[q].stale]_meshVars

\* When all nodes are down for good, clients are refused at once, with a 503, and
\* nothing is sent to nodes known to be dead.
OutageIsRefused ==
  Calm /\ <>[](Live = {}) =>
    <>[][\A q \in Requests :
           /\ Finishing(q) => req'[q].status = 503
           /\ Len(req'[q].sent) <= Len(req[q].sent)]_meshVars

\* The signal stops the checker first, and requests are routed on what the pool
\* knew then (main.go:126-127 says otherwise). The retry makes up for one node that
\* has died since: with all in rotation, every read is still answered.
ReadsOutliveTheChecker ==
  /\ <>(ctxDone /\ \A e \in Endpoints : ep[e].healthy)
  /\ <>[][UNCHANGED node]_node /\ <>[](Cardinality(Endpoints \ Live) <= 1)
  => <>[][\A q \in Requests :
            Finishing(q) /\ req[q].kind = "read" => req'[q].servedBy \in Live]_meshVars

=============================================================================
