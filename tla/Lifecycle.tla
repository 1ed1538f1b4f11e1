----------------------------- MODULE Lifecycle -----------------------------
(***************************************************************************)
(* main's life once the pool is made, src/main.go: the listener, the       *)
(* signal, the drain of the HTTP server, the wait for the health checker,  *)
(* the exit; and what each does to the requests in flight. Time passes in  *)
(* units common to all limits; a request or a wait at its limit stops time *)
(* until it has ended.                                                     *)
(***************************************************************************)
EXTENDS Integers, FiniteSets

CONSTANTS
  Requests,      \* the requests that may arrive
  Writes,        \* those that are not retried
  Stalled,       \* those whose client may stop sending its body or reading its answer
  AttemptLimit,  \* UpstreamTimeout, 15s by default
  DrainLimit,    \* the timeout of srv.Shutdown, 10s
  WaitLimit      \* the wait for hcDone, 3s

ASSUME LifecycleAssumption ==
  /\ Writes \subseteq Requests /\ Stalled \subseteq Requests /\ AttemptLimit \in Nat \ {0}
  /\ DrainLimit \in Nat \ {0} /\ WaitLimit \in Nat \ {0}

VARIABLES
  phase,    \* where main is
  bound,    \* the listener has its port
  ctxDone,  \* the signal's context is cancelled
  clock,    \* time main has spent in its present phase, once the signal came
  checker,  \* the goroutine of the health checker
  request,  \* what has become of every request
  age,      \* time a request has been in flight
  exit      \* the status of the process

vars == <<phase, bound, ctxDone, clock, checker, request, age, exit>>

\* The longest a handler takes once it has read the body, if its client reads the
\* answer. The server limits neither the body nor the answer.
Limit(q) == IF q \in Writes THEN AttemptLimit ELSE 2 * AttemptLimit

Active == {q \in Requests : request[q] = "active"}

LifecycleTypeOK ==
  /\ phase \in {"serving", "draining", "waiting", "exited"}
  /\ bound \in BOOLEAN /\ ctxDone \in BOOLEAN
  /\ clock \in 0 .. DrainLimit + WaitLimit
  /\ checker \in {"running", "stopped"}
  /\ request \in [Requests -> {"none", "active", "answered", "dropped"}]
  /\ age \in [Requests -> Nat] /\ \A q \in Requests : age[q] <= Limit(q)
  /\ exit \in {"none", "clean", "failed"}

Init ==
  /\ phase = "serving" /\ bound = FALSE /\ ctxDone = FALSE /\ clock = 0 /\ checker = "running"
  /\ request = [q \in Requests |-> "none"] /\ age = [q \in Requests |-> 0]
  /\ exit = "none"

\* ListenAndServe runs in a goroutine of its own.
Listen ==
  /\ phase = "serving" /\ ~ bound /\ bound' = TRUE
  /\ UNCHANGED <<phase, ctxDone, clock, checker, request, age, exit>>

\* The listener accepts until Shutdown closes it, also after the signal.
Arrive(q) ==
  /\ phase = "serving" /\ bound /\ request[q] = "none"
  /\ request' = [request EXCEPT ![q] = "active"]
  /\ UNCHANGED <<phase, bound, ctxDone, clock, checker, age, exit>>

Answer(q) ==
  /\ phase # "exited" /\ q \in Active
  /\ request' = [request EXCEPT ![q] = "answered"]
  /\ UNCHANGED <<phase, bound, ctxDone, clock, checker, age, exit>>

\* SIGINT or SIGTERM. The health checker runs on this very context.
Signal ==
  /\ ~ ctxDone /\ ctxDone' = TRUE
  /\ UNCHANGED <<phase, bound, clock, checker, request, age, exit>>

\* HealthChecker!Stop; how it gets there is that module's business.
CheckerStops ==
  /\ ctxDone /\ checker = "running" /\ phase # "exited"
  /\ checker' = "stopped"
  /\ UNCHANGED <<phase, bound, ctxDone, clock, request, age, exit>>

\* main wakes up and calls Shutdown, which closes the listener.
BeginDrain ==
  /\ phase = "serving" /\ ctxDone
  /\ phase' = "draining" /\ clock' = 0
  /\ UNCHANGED <<bound, ctxDone, checker, request, age, exit>>

\* mutant: Shutdown is not waited for
DrainedAtOnce ==
  /\ phase = "draining"
  /\ phase' = "waiting" /\ clock' = 0
  /\ UNCHANGED <<bound, ctxDone, checker, request, age, exit>>

\* Shutdown returns: every connection is idle.
Drained ==
  /\ phase = "draining" /\ Active = {}
  /\ phase' = "waiting" /\ clock' = 0
  /\ UNCHANGED <<bound, ctxDone, checker, request, age, exit>>

\* The process is gone, and with it whatever was in flight.
ExitWith(status) ==
  /\ phase' = "exited" /\ exit' = status
  /\ request' = [q \in Requests |-> IF q \in Active THEN "dropped" ELSE request[q]]
  /\ UNCHANGED <<bound, ctxDone, clock, checker, age>>

\* The port is not to be had: log.Fatalf, in the goroutine, wherever main is.
ListenFails ==
  /\ phase # "exited" /\ ~ bound
  /\ ExitWith("failed")

\* mutant: Shutdown is given no deadline
DrainUnlimited ==
  /\ phase = "draining" /\ clock = DrainLimit /\ Active = {}
  /\ ExitWith("failed")

\* Shutdown gives up at its deadline: os.Exit(1). It polls, so it may also miss
\* a drain that ended just then.
DrainExpires ==
  /\ phase = "draining" /\ clock = DrainLimit
  /\ ExitWith("failed")

CheckerJoined ==
  /\ phase = "waiting" /\ checker = "stopped"
  /\ ExitWith("clean")

WaitExpires ==
  /\ phase = "waiting" /\ clock = WaitLimit
  /\ ExitWith("clean")

\* A handler grows older; beyond its limit only one that is stalled.
Older(q) == IF q \in Active /\ age[q] < Limit(q) THEN age[q] + 1 ELSE age[q]

\* mutant: a handler's attempts have no deadline
TickUnbounded ==
  /\ phase # "exited"
  /\ phase = "draining" => clock < DrainLimit
  /\ phase = "waiting" => clock < WaitLimit
  /\ age' = [q \in Requests |-> Older(q)]
  /\ clock' = IF phase = "serving" THEN clock ELSE clock + 1
  /\ UNCHANGED <<phase, bound, ctxDone, checker, request, exit>>

\* mutant: main may overrun the deadline of Shutdown
TickPastDeadline ==
  /\ phase # "exited"
  /\ phase = "waiting" => clock < WaitLimit
  /\ \A q \in Active \ Stalled : age[q] < Limit(q)
  /\ age' = [q \in Requests |-> Older(q)]
  /\ clock' = IF phase = "serving" THEN clock ELSE clock + 1
  /\ UNCHANGED <<phase, bound, ctxDone, checker, request, exit>>

\* Time passes, unless somebody is due. A stalled handler never is.
Tick ==
  /\ phase # "exited"
  /\ phase = "draining" => clock < DrainLimit
  /\ phase = "waiting" => clock < WaitLimit
  /\ \A q \in Active \ Stalled : age[q] < Limit(q)
  /\ age' = [q \in Requests |-> Older(q)]
  /\ clock' = IF phase = "serving" THEN clock ELSE clock + 1
  /\ UNCHANGED <<phase, bound, ctxDone, checker, request, exit>>

Next ==
  \/ \E q \in Requests : Arrive(q) \/ Answer(q)
  \/ Listen \/ ListenFails \/ Signal \/ CheckerStops \/ BeginDrain \/ Drained \/ DrainExpires
  \/ CheckerJoined \/ WaitExpires \/ Tick

SafeSpec == Init /\ [][Next]_vars

\* main runs when it can, time passes, a handler ends by its limit unless its
\* client stalls. The checker is not assumed to stop, nor a stalled client to go on:
\* main's waits are bounded.
Fairness ==
  /\ WF_vars(BeginDrain) /\ WF_vars(Drained) /\ WF_vars(DrainExpires)
  /\ WF_vars(CheckerJoined) /\ WF_vars(WaitExpires) /\ WF_vars(Tick)
  /\ \A q \in Requests \ Stalled : WF_vars(Answer(q))

Spec == SafeSpec /\ Fairness

-----------------------------------------------------------------------------

\* A process that reports a clean stop has answered everything it accepted,
\* whether the checker stopped in time or not.
CleanStopDropsNothing == exit = "clean" => \A q \in Requests : request[q] # "dropped"

\* A request whose handler is faster than the drain is answered, whenever the
\* signal comes and whatever the others do, even if they hold on to their
\* handlers: it is accepted before the drain begins, and Shutdown waits for it.
DrainCoversShortRequests ==
  \A q \in Requests \ Stalled : Limit(q) < DrainLimit => request[q] # "dropped"

\* No request accepted is ever dropped (main.go:30-32: "draining in between is
\* what makes deploys not drop requests"). It fails with the defaults, 10s of
\* drain against 15s for each attempt.
NoRequestDropped == \A q \in Requests : request[q] # "dropped"

\* Once signalled the process exits, even if the checker hangs or a client stalls
\* for ever.
StopsOnSignal == ctxDone ~> phase = "exited"

=============================================================================
