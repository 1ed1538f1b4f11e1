------------------------------- MODULE Proxy -------------------------------
(***************************************************************************)
(* The request path, Proxy.ServeHTTP of src/router/proxy.go: admission,    *)
(* the choice of an endpoint, the forward, the one retry of a call that is *)
(* not a write, and the answer; with the observations made on the way.     *)
(*                                                                         *)
(* A handler holds no lock between its steps: the pool can be rewritten,   *)
(* by whole cycles, and the client can go away, between any two. Handlers  *)
(* share nothing but the pool, which they only read.                       *)
(***************************************************************************)
EXTENDS Pool, Sequences

CONSTANTS
  Requests,   \* the requests, each served by a goroutine of its own
  Faults,     \* how a forward can fail, a part of UpstreamFaults
  Responses,  \* what an upstream can answer
  Window      \* maxPeekBytes

\* Errors of forward that do not come from the client: the deadline of
\* http.Client, a network timeout that is not a context.DeadlineExceeded (a TLS
\* handshake), a broken connection, the same with "429" somewhere in its text
\* (a port, an address, the URL), and the statuses forward turns into errors.
UpstreamFaults ==
  {"deadline", "handshake", "transport", "transport_429", "rate_limited", "upstream_5xx"}

\* What forward hands back as a response: a status that is not the upstream's
\* fault, and a body of some length that is a JSON-RPC error object or is not.
ResponseRecord == [status : (200 .. 499) \ {429}, error : BOOLEAN, length : Nat]

ASSUME ProxyAssumption ==
  /\ Faults \subseteq UpstreamFaults
  /\ Window \in Nat \ {0}
  /\ Responses \subseteq ResponseRecord
  /\ \A resp \in Responses : resp.error => resp.length > 0

VARIABLE req  \* the local variables, headers and observations of each handler

proxyVars == <<ep, maxSlot, req>>

\* What peekMethod and writeMethods make of a body. A body that cannot be parsed
\* names the method "unknown", which is not a write.
Kinds == {"read", "write", "batch"}

\* mutant: a batch is judged by its method name alone
IsRetryableByName(kind) == kind # "write"

IsRetryable(kind) == kind \notin {"write", "batch"}

\* Why a request is turned away before it is parsed, and with what status.
RejectStatus ==
  [preflight |-> 204, notPost |-> 405, tooLarge |-> 413, unreadable |-> 400, empty |-> 400]

NoResponse == [status |-> 200, error |-> FALSE, length |-> 0]

\* The label's values, with the one ServeHTTP gives itself.
Reasons ==
  {"timeout", "client_cancelled", "transport", "rate_limited", "upstream_5xx", "no_endpoints"}

\* classifyError: the reason label of the upstream error counter. A rate limit
\* is recognised by the text of the error.
Reason(err) ==
  CASE err \in {"deadline", "handshake"} -> "timeout"
    [] err = "cancelled" -> "client_cancelled"
    [] err = "transport_429" -> "rate_limited"
    [] OTHER -> err

\* Only a context.DeadlineExceeded is a 504.
ErrorStatus(err) == IF err = "deadline" THEN 504 ELSE 502

RequestRecord ==
  [pc : {"idle", "selecting", "forwarding", "failed", "reselecting",
         "reporting", "answered", "streaming", "done"},
   kind : Kinds \cup {"unread"}, endpoint : Endpoints \cup {None}, degraded : BOOLEAN,
   err : UpstreamFaults \cup {"cancelled", NoErr},
   resp : ResponseRecord, relayed : Nat, gone : BOOLEAN, status : Nat,
   servedBy : Endpoints \cup {None}, flagged : BOOLEAN, counted : Seq(Reasons), observed : Nat, degradedSeen : Nat,
   retries : Nat, rpcErrors : Nat, sent : Seq(Endpoints), failures : Nat,
   stale : BOOLEAN]

\* `relayed` is how much of the answer's body has been read, and so forwarded;
\* `sent` lists the endpoints the call was sent to; `failures` and `stale` are
\* history: the failed attempts, and whether the last selection was a lagging
\* endpoint, which the handler itself ignores on a retry.
NewRequest ==
  [pc |-> "idle", kind |-> "unread", endpoint |-> None, degraded |-> FALSE,
   err |-> NoErr, resp |-> NoResponse, relayed |-> 0, gone |-> FALSE, status |-> 0,
   servedBy |-> None, flagged |-> FALSE,
   counted |-> <<>>, observed |-> 0, degradedSeen |-> 0, retries |-> 0, rpcErrors |-> 0,
   sent |-> <<>>, failures |-> 0, stale |-> FALSE]

ProxyInit == PoolInit /\ req = [q \in Requests |-> NewRequest]

Become(q, r) == req' = [req EXCEPT ![q] = r] /\ UNCHANGED poolVars

-----------------------------------------------------------------------------
(* Admission and choice *)

\* proxy.go:212-245: answered before any endpoint is chosen.
Reject(q) ==
  /\ req[q].pc = "idle"
  /\ \E why \in DOMAIN RejectStatus :
       Become(q, [req[q] EXCEPT !.pc = "done", !.status = RejectStatus[why]])

Admit(q) ==
  /\ req[q].pc = "idle"
  /\ \E kind \in Kinds : Become(q, [req[q] EXCEPT !.pc = "selecting", !.kind = kind])

\* The body goes to the endpoint of selection s.
SendTo(r, s) ==
  [r EXCEPT !.pc = "forwarding", !.endpoint = s.endpoint, !.stale = s.degraded,
            !.sent = Append(@, s.endpoint)]

Choose(q) ==
  /\ req[q].pc = "selecting"
  /\ \E s \in Select \ {ErrNoEndpoints} :
       Become(q, [SendTo(req[q], s) EXCEPT
                    !.degraded = s.degraded,
                    !.degradedSeen = IF s.degraded THEN @ + 1 ELSE @])

ChooseNone(q) ==
  /\ req[q].pc = "selecting" /\ ErrNoEndpoints \in Select
  /\ Become(q, [req[q] EXCEPT !.pc = "done", !.status = 503,
                              !.counted = Append(@, "no_endpoints")])

-----------------------------------------------------------------------------
(* forward, and the retry *)

ForwardAnswers(q) ==
  /\ req[q].pc = "forwarding"
  /\ \E resp \in Responses :
       Become(q, [req[q] EXCEPT !.pc = "answered", !.resp = resp, !.err = NoErr])

\* A request whose client is gone fails with the cancellation of its context.
ForwardFails(q) ==
  /\ req[q].pc = "forwarding"
  /\ \E err \in Faults \cup (IF req[q].gone THEN {"cancelled"} ELSE {}) :
       Become(q, [req[q] EXCEPT !.pc = "failed", !.err = err, !.failures = @ + 1])

FirstAttempt(q) == Len(req[q].sent) = 1

\* mutant: the client's absence is not looked at
CountFailureAnyway(q) ==
  /\ req[q].pc = "failed" /\ FirstAttempt(q) /\ IsRetryable(req[q].kind)
  /\ Become(q, [req[q] EXCEPT !.pc = "reselecting", !.counted = Append(@, Reason(req[q].err))])

\* mutant: a failure is only counted when the request is given up
CountFailureLater(q) ==
  /\ req[q].pc = "failed" /\ FirstAttempt(q) /\ IsRetryable(req[q].kind)
  /\ Become(q, [req[q] EXCEPT !.pc = IF req[q].gone THEN "reporting" ELSE "reselecting"])

\* A retryable call's first failure is counted, and the client looked for.
CountFailure(q) ==
  /\ req[q].pc = "failed" /\ FirstAttempt(q) /\ IsRetryable(req[q].kind)
  /\ Become(q, [req[q] EXCEPT !.pc = IF req[q].gone THEN "reporting" ELSE "reselecting",
                              !.counted = Append(@, Reason(req[q].err))])

\* Any other failure is final.
GiveUp(q) ==
  /\ req[q].pc = "failed" /\ ~ (FirstAttempt(q) /\ IsRetryable(req[q].kind))
  /\ Become(q, [req[q] EXCEPT !.pc = "reporting"])

\* mutant: the endpoint that just failed is not excluded
RetryAnywhere(q) ==
  /\ req[q].pc = "reselecting"
  /\ \E s \in Select \ {ErrNoEndpoints} :
       Become(q, [SendTo(req[q], s) EXCEPT !.retries = @ + 1])

\* mutant: the handler goes on naming the endpoint that failed
RetryUnattributed(q) ==
  /\ req[q].pc = "reselecting"
  /\ \E s \in SelectExcluding(req[q].endpoint) \ {ErrNoEndpoints} :
       Become(q, [SendTo(req[q], s) EXCEPT !.retries = @ + 1, !.endpoint = req[q].endpoint])

\* mutant: the error of the selection is not looked at
RetryUnchecked(q) ==
  /\ req[q].pc = "reselecting"
  /\ \E s \in SelectExcluding(req[q].endpoint) :
       Become(q, [SendTo(req[q], s) EXCEPT !.retries = @ + 1])

\* The second result of the selection is dropped: `degraded` keeps its value.
Retry(q) ==
  /\ req[q].pc = "reselecting"
  /\ \E s \in SelectExcluding(req[q].endpoint) \ {ErrNoEndpoints} :
       Become(q, [SendTo(req[q], s) EXCEPT !.retries = @ + 1])

\* mutant: with no alternative the handler waits for one
RetryNoneWaits(q) ==
  /\ req[q].pc = "reselecting" /\ ErrNoEndpoints \in SelectExcluding(req[q].endpoint)
  /\ UNCHANGED proxyVars

RetryNone(q) ==
  /\ req[q].pc = "reselecting" /\ ErrNoEndpoints \in SelectExcluding(req[q].endpoint)
  /\ Become(q, [req[q] EXCEPT !.pc = "reporting"])

\* The error left standing is counted (again, after CountFailure) and answered.
ReportError(q) ==
  /\ req[q].pc = "reporting"
  /\ Become(q, [req[q] EXCEPT !.pc = "done", !.status = ErrorStatus(req[q].err),
                              !.counted = Append(@, Reason(req[q].err)),
                              !.observed = @ + 1])

-----------------------------------------------------------------------------
(* The answer *)

\* peekRPCError. The head of the body is read, up to the window; it is shorter
\* than both body and window only when the body breaks off, and cannot be parsed
\* when it is a prefix. A window that is full is taken for one.
ErrorFound(resp, n) == resp.error /\ n = resp.length /\ n # Window

\* The peek, the headers and the status.
WriteHead(q) ==
  /\ req[q].pc = "answered"
  /\ LET resp == req[q].resp IN
     \E n \in {m \in 0 .. Window : m <= resp.length} :
       Become(q, [req[q] EXCEPT !.pc = "streaming", !.relayed = n,
                    !.servedBy = req[q].endpoint,
                    !.flagged = req[q].degraded,
                    !.rpcErrors = IF ErrorFound(resp, n) THEN @ + 1 ELSE @,
                    !.status = resp.status])

\* mutant: the head is what one Read returns, with more to come
StreamAfterOneRead(q) ==
  /\ req[q].pc = "streaming"
  /\ \E n \in req[q].relayed .. req[q].resp.length :
       Become(q, [req[q] EXCEPT !.pc = "done", !.relayed = n, !.observed = @ + 1])

\* mutant: a broken copy is reported as an error
StreamReportsBreak(q) ==
  /\ req[q].pc = "streaming"
  /\ \E n \in req[q].relayed .. req[q].resp.length :
       /\ n > req[q].relayed => req[q].relayed = Window
       /\ Become(q, [req[q] EXCEPT !.pc = IF n = req[q].resp.length THEN "done" ELSE "reporting",
                                   !.relayed = n, !.observed = @ + 1])

\* What was peeked is written and the rest copied: nothing, if the window was
\* not filled. The copy ends, complete or broken off: the code does not tell
\* them apart.
Stream(q) ==
  /\ req[q].pc = "streaming"
  /\ \E n \in req[q].relayed .. req[q].resp.length :
       /\ n > req[q].relayed => req[q].relayed = Window
       /\ Become(q, [req[q] EXCEPT !.pc = "done", !.relayed = n, !.observed = @ + 1])

-----------------------------------------------------------------------------

\* The client disconnects.
Leave(q) ==
  /\ req[q].pc \notin {"idle", "done"} /\ ~ req[q].gone
  /\ Become(q, [req[q] EXCEPT !.gone = TRUE])

\* The health checker writes the pool (HealthChecker!OnlyWholeCycles).
PoolStep == BatchNext /\ UNCHANGED req

HandlerStep(q) ==
  \/ Choose(q) \/ ChooseNone(q)
  \/ ForwardAnswers(q) \/ ForwardFails(q)
  \/ CountFailure(q) \/ GiveUp(q) \/ Retry(q) \/ RetryNone(q) \/ ReportError(q)
  \/ WriteHead(q) \/ Stream(q)

ProxyNext ==
  \/ PoolStep
  \/ \E q \in Requests : Reject(q) \/ Admit(q) \/ HandlerStep(q) \/ Leave(q)

ProxySafeSpec == ProxyInit /\ [][ProxyNext]_proxyVars

\* A handler runs; a forward ends by UpstreamTimeout, which covers the body as
\* well; a client reads what it is sent or goes away. That the pool is written
\* or a client leaves is not assumed.
ProxySpec == ProxySafeSpec /\ \A q \in Requests : WF_proxyVars(HandlerStep(q))

-----------------------------------------------------------------------------
(* Properties *)

ProxyTypeOK == TypeOK /\ req \in [Requests -> RequestRecord]

\* A transaction, alone or inside a batch, reaches at most one upstream and
\* reaches it once, whatever fails and however the pool changes meanwhile
\* (proxy.go:31-36, TestProxyNeverRetriesSendTransaction).
WritesAreSentOnce ==
  \A q \in Requests : req[q].kind \in {"write", "batch"} => Len(req[q].sent) <= 1

\* At most one retry, and never to the endpoint that just failed, even when
\* the pool was rewritten between the two selections.
RetriesGoElsewhere ==
  \A q \in Requests :
    /\ Len(req[q].sent) <= 2
    /\ Len(req[q].sent) = 2 => req[q].sent[1] # req[q].sent[2]

\* What the client and the metrics are told fits what happened: an answer is
\* attributed to the endpoint that gave it; 503 means that nothing was sent;
\* 504 that the last attempt ran out of time; 502 that it failed otherwise.
AnswersAreTruthful ==
  \A q \in Requests :
    LET r == req[q] IN
    /\ r.servedBy # None => r.servedBy = r.sent[Len(r.sent)] /\ r.err = NoErr
    /\ r.status = 503 => r.sent = <<>> /\ r.counted = <<"no_endpoints">>
    /\ r.status \in {502, 504} =>
         /\ r.sent # <<>> /\ r.servedBy = None
         /\ r.status = 504 <=> r.err = "deadline"

\* The books balance when a request is done: it was observed once if it
\* reached an upstream and not at all if it did not, each send beyond the
\* first is one observed retry, and no failed attempt went uncounted.
RequestsAreAccounted ==
  \A q \in Requests :
    LET r == req[q] IN
    r.pc = "done" =>
      /\ r.observed = IF r.sent = <<>> THEN 0 ELSE 1
      /\ r.sent # <<>> => r.retries = Len(r.sent) - 1
      /\ Len(r.counted) >= r.failures

\* An application error that reaches the client whole is counted once and
\* nothing else is, wherever the body breaks off: only one that fills the
\* window goes unseen (proxy.go:182-193).
AppErrorsAreCounted ==
  \A q \in Requests :
    LET r == req[q] IN
    r.pc = "done" =>
      r.rpcErrors = IF /\ r.servedBy # None /\ r.resp.error
                       /\ r.relayed = r.resp.length /\ r.relayed < Window
                    THEN 1 ELSE 0

\* What a status tells the client of a request.
Reply(r) ==
  CASE r.status = 0 -> "none"
    [] r.status # 0 /\ r.sent = <<>> -> "refused"
    [] r.status \in {502, 504} /\ r.sent # <<>> -> "failed"
    [] OTHER -> "answered"

Repeatable(r) == r.kind \in Kinds /\ IsRetryable(r.kind)

\* What the client and the upstreams see of a request.
View(r) ==
  [repeatable |-> Repeatable(r), sent |-> r.sent, from |-> r.servedBy, reply |-> Reply(r)]

G == INSTANCE Gateway WITH call <- [q \in Requests |-> View(req[q])]

\* The request path keeps the promise of Gateway. In particular the first status
\* a client is sent is its last, whatever fails while its body is copied
\* (proxy.go:316-317), and nothing is sent anywhere after it.
ImplementsGateway == G!Spec

\* A client found gone is not retried for (proxy.go:268-269): once it has left
\* before its first failure is handled, the body goes nowhere else. It may
\* still leave between the test and the second send.
GoneClientsAreNotRetried ==
  \A q \in Requests :
    [](req[q].pc = "failed" /\ FirstAttempt(q) /\ req[q].gone
         => [](Len(req[q].sent) = 1))

\* The degraded path of a first choice is dead code in this program: with the
\* pool written in whole cycles no request ever starts on a lagging endpoint,
\* so no answer carries X-RPC-Mesh-Degraded and the counter stays at zero.
NeverDegraded ==
  \A q \in Requests : ~ req[q].degraded /\ ~ req[q].flagged /\ req[q].degradedSeen = 0

\* Every request admitted is answered.
RequestsFinish == \A q \in Requests : req[q].pc = "selecting" ~> req[q].pc = "done"

\* README.md:96-99: a request served by a lagging endpoint is flagged, "the
\* caller is told". On a retry the flag is dropped (proxy.go:271).
StaleAnswersAreFlagged ==
  \A q \in Requests : req[q].servedBy # None /\ req[q].stale => req[q].flagged

\* The help of rpcmesh_upstream_errors_total (prometheus.go:130) has it count
\* failures. One that cannot be retried is counted at proxy.go:266 and again at
\* proxy.go:281.
FailuresCountedOnce ==
  \A q \in Requests : req[q].sent # <<>> => Len(req[q].counted) <= req[q].failures

=============================================================================
