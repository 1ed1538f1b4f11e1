---------------------------- MODULE ProxyProofs ----------------------------
(***************************************************************************)
(* The request path for any number of requests and endpoints. All of it    *)
(* follows from what a handler has sent, counted and observed by the time  *)
(* it is at each of its steps; the pool matters only for the degraded      *)
(* path, where PoolProofs' BatchInv is used. The last part is about Mesh,  *)
(* where the same handlers run beside the checker's cycles and the nodes.  *)
(***************************************************************************)
EXTENDS Mesh, PoolProofs

\* The books of a handler at each of its steps.
BooksOK(r) ==
  /\ r.pc \in {"idle", "selecting"} =>
       r.sent = <<>> /\ r.observed = 0 /\ r.failures = 0 /\ r.retries = 0 /\ r.counted = <<>>
  /\ r.pc \in {"forwarding", "failed", "reselecting", "reporting", "answered", "streaming"} =>
       r.sent # <<>> /\ r.observed = 0 /\ r.retries = Len(r.sent) - 1
  /\ r.pc = "forwarding" => r.failures = Len(r.sent) - 1 /\ Len(r.counted) = r.failures
  /\ r.pc = "failed" => r.failures = Len(r.sent) /\ Len(r.counted) = r.failures - 1
  /\ r.pc = "reselecting" => r.failures = 1 /\ Len(r.counted) = 1
  /\ r.pc = "reporting" => Len(r.counted) >= r.failures - 1
  /\ r.pc \in {"answered", "streaming"} => Len(r.counted) >= r.failures
  /\ r.pc = "done" =>
       /\ r.observed = IF r.sent = <<>> THEN 0 ELSE 1
       /\ r.sent # <<>> => r.retries = Len(r.sent) - 1
       /\ Len(r.counted) >= r.failures

\* Where the body has been sent.
RouteOK(r) ==
  /\ r.pc = "idle" => r.kind = "unread"
  /\ r.pc = "selecting" \/ r.sent # <<>> => r.kind \in Kinds
  /\ Len(r.sent) <= 2
  /\ Len(r.sent) = 2 => IsRetryable(r.kind) /\ r.sent[1] # r.sent[2]
  /\ r.pc \in {"forwarding", "failed", "reselecting", "answered", "streaming"} =>
       r.sent # <<>> /\ r.endpoint = r.sent[Len(r.sent)]
  /\ r.pc = "reselecting" => Len(r.sent) = 1 /\ IsRetryable(r.kind)

\* What has been answered.
AnswerOK(r) ==
  /\ r.pc \notin {"streaming", "done"} => r.servedBy = None /\ r.status = 0
  /\ r.pc = "answered" => r.err = NoErr
  /\ r.pc \in {"failed", "reselecting", "reporting"} =>
       r.err \in UpstreamFaults \cup {"cancelled"}
  /\ r.servedBy # None => r.servedBy = r.sent[Len(r.sent)] /\ r.err = NoErr
  /\ r.status = 503 => r.sent = <<>> /\ r.counted = <<"no_endpoints">>
  /\ r.status \in {502, 504} =>
       /\ r.sent # <<>> /\ r.servedBy = None
       /\ r.status = 504 <=> r.err = "deadline"

\* What has been seen of the answer's body. The window being full, the copy may
\* go on beyond what was looked at; otherwise it may not.
PeekOK(r) ==
  /\ r.servedBy = None => r.rpcErrors = 0
  /\ r.pc = "streaming" =>
       /\ r.servedBy # None /\ r.relayed <= Window
       /\ r.rpcErrors = IF ErrorFound(r.resp, r.relayed) THEN 1 ELSE 0
  /\ r.pc = "done" =>
       r.rpcErrors = IF /\ r.servedBy # None /\ r.resp.error
                        /\ r.relayed = r.resp.length /\ r.relayed < Window
                     THEN 1 ELSE 0

CurrentOK(r) == r.degraded = FALSE /\ r.flagged = FALSE /\ r.degradedSeen = 0

RequestOK(r) ==
  /\ r \in RequestRecord
  /\ BooksOK(r) /\ RouteOK(r) /\ AnswerOK(r) /\ PeekOK(r) /\ CurrentOK(r)

\* The strengthening.
ProxyInv == BatchInv /\ req \in [Requests -> RequestRecord] /\ \A q \in Requests : RequestOK(req[q])

\* A step of a handler changes its own request.
LEMMA BecomeStep ==
  ASSUME ProxyInv, NEW q \in Requests, NEW r, Become(q, r), RequestOK(r)
  PROVE  ProxyInv'
<1>1. BatchInv'
  BY DEF Become, poolVars, ProxyInv, BatchInv, PoolInv, TypeOK, WatermarkIsLive, Reporting,
         Anchored, SlotLag
<1>2. req' \in [Requests -> RequestRecord] /\ \A p \in Requests : RequestOK(req'[p])
  BY DEF Become, ProxyInv, RequestOK
<1> QED
  BY <1>1, <1>2 DEF ProxyInv

LEMMA NewRequestOK == RequestOK(NewRequest)
<1>1. NoResponse \in ResponseRecord
  BY DEF NoResponse, ResponseRecord
<1> DEFINE none == NoResponse
<1> HIDE DEF none
<1>2. NewRequest =
        [pc |-> "idle", kind |-> "unread", endpoint |-> None, degraded |-> FALSE,
         err |-> NoErr, resp |-> none, relayed |-> 0, gone |-> FALSE, status |-> 0,
         servedBy |-> None, flagged |-> FALSE,
         counted |-> <<>>, observed |-> 0, degradedSeen |-> 0, retries |-> 0,
         rpcErrors |-> 0, sent |-> <<>>, failures |-> 0, stale |-> FALSE]
  BY DEF NewRequest, none
<1>3. none \in ResponseRecord
  BY <1>1 DEF none
<1>4. NewRequest \in RequestRecord
  BY <1>2, <1>3 DEF RequestRecord
<1> QED
  BY <1>4 DEF NewRequest, RequestOK, BooksOK, RouteOK, AnswerOK, PeekOK, CurrentOK

LEMMA ProxyInitInv == ProxyInit => ProxyInv
<1> SUFFICES ASSUME ProxyInit PROVE ProxyInv
  OBVIOUS
<1>1. BatchInv
  BY BatchInitInv DEF ProxyInit
<1> QED
  BY <1>1, NewRequestOK DEF ProxyInit, ProxyInv, RequestOK

-----------------------------------------------------------------------------
(* The handler's steps *)

LEMMA Selected ==
  ASSUME NEW x, NEW s \in SelectExcluding(x), s # ErrNoEndpoints
  PROVE  s.endpoint \in Endpoints /\ s.endpoint # x /\ s.degraded \in BOOLEAN
<1>1. \/ s.endpoint \in Current(x) /\ s.degraded = FALSE
      \/ s.endpoint \in Lagging(x) /\ s.degraded = TRUE
  <2>1. \/ s.endpoint \in Current(x) /\ s.degraded = FALSE
        \/ Current(x) = {} /\ s.endpoint \in Lagging(x) /\ s.degraded = TRUE
        \/ Current(x) = {} /\ Lagging(x) = {} /\ s = ErrNoEndpoints
    BY SelectCases
  <2> QED
    BY <2>1, Zenon
<1>2. s.degraded \in BOOLEAN
  BY <1>1, Zenon
<1>3. s.endpoint \in Candidates(x)
  BY <1>1, Zenon DEF Current, Lagging
<1> QED
  BY <1>2, <1>3 DEF Candidates

LEMMA FirstSelected ==
  ASSUME BatchInv, NEW s \in Select, s # ErrNoEndpoints
  PROVE  s.degraded = FALSE
<1>1. ~ s.degraded
  BY NotDegradedFromInv DEF PrimaryNeverDegraded
<1> QED
  BY <1>1, Selected DEF Select

\* One more endpoint in the list of those the body was sent to.
LEMMA AppendFacts ==
  ASSUME NEW S, NEW list \in Seq(S), NEW x \in S
  PROVE  /\ Append(list, x) \in Seq(S)
         /\ Append(list, x) # <<>>
         /\ Len(Append(list, x)) = Len(list) + 1
         /\ Append(list, x)[Len(list) + 1] = x
         /\ list # <<>> => Append(list, x)[1] = list[1]
<1>1. /\ Append(list, x) \in Seq(S)
      /\ Len(Append(list, x)) = Len(list) + 1
      /\ Append(list, x)[Len(list) + 1] = x
  OBVIOUS
<1>2. Append(list, x) # <<>>
  BY <1>1
<1>3. ASSUME list # <<>> PROVE Append(list, x)[1] = list[1]
  <2>1. 1 \in 1 .. Len(list)
    BY <1>3
  <2> QED
    BY <2>1
<1> QED
  BY <1>1, <1>2, <1>3

LEMMA LengthFacts ==
  ASSUME NEW S, NEW list \in Seq(S)
  PROVE  Len(list) \in Nat /\ (list = <<>> <=> Len(list) = 0)
OBVIOUS

\* Sending changes four fields, and keeps the record's type.
LEMMA SendToType ==
  ASSUME NEW r \in RequestRecord, NEW s, s.endpoint \in Endpoints, s.degraded \in BOOLEAN
  PROVE  SendTo(r, s) \in RequestRecord
<1>1. Append(r.sent, s.endpoint) \in Seq(Endpoints)
  BY AppendFacts DEF RequestRecord
<1> DEFINE sent == Append(r.sent, s.endpoint)
<1> HIDE DEF sent
<1>2. SendTo(r, s) = [r EXCEPT !.pc = "forwarding", !.endpoint = s.endpoint,
                               !.stale = s.degraded, !.sent = sent]
  BY DEF SendTo, RequestRecord, sent
<1>3. sent \in Seq(Endpoints)
  BY <1>1 DEF sent
<1> QED
  BY <1>2, <1>3 DEF RequestRecord

LEMMA AdmissionSteps ==
  ASSUME ProxyInv, NEW q \in Requests, Reject(q) \/ Admit(q)
  PROVE  ProxyInv'
<1> DEFINE r == req[q]
<1>0. RequestOK(r) /\ r \in RequestRecord
  BY DEF ProxyInv, RequestOK
<1>1. CASE Reject(q)
  <2>1. PICK why \in DOMAIN RejectStatus :
          Become(q, [r EXCEPT !.pc = "done", !.status = RejectStatus[why]])
    BY <1>1 DEF Reject
  <2>2. r.pc = "idle"
    BY <1>1 DEF Reject
  <2>3. RejectStatus[why] \in Nat \ {502, 503, 504}
    BY <2>1 DEF RejectStatus
  <2> DEFINE n == [r EXCEPT !.pc = "done", !.status = RejectStatus[why]]
  <2>4. n \in RequestRecord
    <3> DEFINE status == RejectStatus[why]
    <3> HIDE DEF status
    <3>1. status \in Nat /\ n = [r EXCEPT !.pc = "done", !.status = status]
      BY <2>3 DEF status
    <3> QED
      BY <1>0, <3>1 DEF RequestRecord
  <2>5. RequestOK(n)
    BY <1>0, <2>2, <2>3, <2>4
    DEF RequestOK, RequestRecord, BooksOK, RouteOK, AnswerOK, PeekOK, CurrentOK
  <2> QED
    BY <2>1, <2>5, BecomeStep
<1>2. CASE Admit(q)
  <2>1. PICK kind \in Kinds : Become(q, [r EXCEPT !.pc = "selecting", !.kind = kind])
    BY <1>2 DEF Admit
  <2>2. r.pc = "idle"
    BY <1>2 DEF Admit
  <2> DEFINE n == [r EXCEPT !.pc = "selecting", !.kind = kind]
  <2>3. n \in RequestRecord
    BY <1>0 DEF RequestRecord
  <2>4. RequestOK(n)
    BY <1>0, <2>2, <2>3
    DEF RequestOK, RequestRecord, BooksOK, RouteOK, AnswerOK, PeekOK, CurrentOK
  <2> QED
    BY <2>1, <2>4, BecomeStep
<1> QED
  BY <1>1, <1>2

\* What sending does to the books and the route: of a request that has sent
\* less than two bodies, and nothing to this endpoint.
LEMMA SentOnce ==
  ASSUME NEW r \in RequestRecord, NEW s, s.endpoint \in Endpoints, s.degraded \in BOOLEAN
  PROVE  LET m == SendTo(r, s) IN
         /\ m \in RequestRecord
         /\ m.pc = "forwarding" /\ m.endpoint = s.endpoint
         /\ Len(m.sent) = Len(r.sent) + 1 /\ m.sent # <<>>
         /\ m.sent[Len(m.sent)] = s.endpoint
         /\ r.sent # <<>> => m.sent[1] = r.sent[1]
         /\ m.kind = r.kind /\ m.failures = r.failures /\ m.counted = r.counted
         /\ m.observed = r.observed /\ m.retries = r.retries /\ m.err = r.err
         /\ m.servedBy = r.servedBy /\ m.status = r.status /\ m.rpcErrors = r.rpcErrors
         /\ m.degraded = r.degraded /\ m.flagged = r.flagged
         /\ m.degradedSeen = r.degradedSeen
<1> DEFINE sent == Append(r.sent, s.endpoint)
<1>1. /\ sent \in Seq(Endpoints) /\ sent # <<>> /\ Len(sent) = Len(r.sent) + 1
      /\ sent[Len(r.sent) + 1] = s.endpoint
      /\ r.sent # <<>> => sent[1] = r.sent[1]
  <2>1. r.sent \in Seq(Endpoints)
    BY DEF RequestRecord
  <2> QED
    BY <2>1, AppendFacts
<1> HIDE DEF sent
<1>2. SendTo(r, s) = [r EXCEPT !.pc = "forwarding", !.endpoint = s.endpoint,
                               !.stale = s.degraded, !.sent = sent]
  BY DEF SendTo, RequestRecord, sent
<1> QED
  BY <1>1, <1>2, SendToType DEF RequestRecord

LEMMA ChooseStep ==
  ASSUME ProxyInv, NEW q \in Requests, Choose(q)
  PROVE  ProxyInv'
<1> DEFINE r == req[q]
<1>0. RequestOK(r) /\ r \in RequestRecord /\ r.pc = "selecting"
  BY DEF ProxyInv, RequestOK, Choose
<1>1. PICK s \in Select \ {ErrNoEndpoints} :
        Become(q, [SendTo(r, s) EXCEPT
                     !.degraded = s.degraded,
                     !.degradedSeen = IF s.degraded THEN @ + 1 ELSE @])
  BY DEF Choose
<1>2. s.endpoint \in Endpoints /\ s.degraded = FALSE /\ s.degraded \in BOOLEAN
  BY FirstSelected, Selected DEF Select, ProxyInv
<1> DEFINE n == SendTo(r, s)
<1>3. /\ n \in RequestRecord
      /\ n.pc = "forwarding" /\ n.endpoint = s.endpoint
      /\ Len(n.sent) = Len(r.sent) + 1 /\ n.sent # <<>> /\ n.sent[Len(n.sent)] = s.endpoint
      /\ n.kind = r.kind /\ n.failures = r.failures /\ n.counted = r.counted
      /\ n.observed = r.observed /\ n.retries = r.retries /\ n.err = r.err
      /\ n.servedBy = r.servedBy /\ n.status = r.status /\ n.rpcErrors = r.rpcErrors
      /\ n.degraded = r.degraded /\ n.flagged = r.flagged
      /\ n.degradedSeen = r.degradedSeen
  BY <1>0, <1>2, SentOnce
<1> HIDE DEF n
<1>4. CurrentOK(n)
  BY <1>0, <1>3 DEF CurrentOK, RequestOK
<1>5. [n EXCEPT !.degraded = s.degraded,
                !.degradedSeen = IF s.degraded THEN @ + 1 ELSE @] = n
  BY <1>2, <1>3, <1>4 DEF CurrentOK, RequestRecord
<1>6. /\ Len(r.sent) = 0 /\ r.observed = 0 /\ r.failures = 0 /\ r.retries = 0
      /\ Len(r.counted) = 0 /\ r.servedBy = None /\ r.status = 0 /\ r.rpcErrors = 0
      /\ r.kind \in Kinds
  BY <1>0 DEF RequestOK, BooksOK, RouteOK, AnswerOK, PeekOK
<1>7. BooksOK(n) /\ RouteOK(n)
  BY <1>3, <1>6 DEF BooksOK, RouteOK
<1>8. AnswerOK(n) /\ PeekOK(n)
  BY <1>3, <1>6 DEF AnswerOK, PeekOK
<1> QED
  BY <1>1, <1>3, <1>4, <1>5, <1>7, <1>8, BecomeStep DEF RequestOK, n

\* The same of the retry: the route's second endpoint is not the first.
LEMMA RetryStep ==
  ASSUME ProxyInv, NEW q \in Requests, Retry(q)
  PROVE  ProxyInv'
<1> DEFINE r == req[q]
<1>0. RequestOK(r) /\ r \in RequestRecord /\ r.pc = "reselecting"
  BY DEF ProxyInv, RequestOK, Retry
<1>1. PICK s \in SelectExcluding(r.endpoint) \ {ErrNoEndpoints} :
        Become(q, [SendTo(r, s) EXCEPT !.retries = @ + 1])
  BY DEF Retry
<1>2. s.endpoint \in Endpoints /\ s.endpoint # r.endpoint /\ s.degraded \in BOOLEAN
  BY Selected
<1> DEFINE m == SendTo(r, s)
<1>3. /\ m \in RequestRecord
      /\ m.pc = "forwarding" /\ m.endpoint = s.endpoint
      /\ Len(m.sent) = Len(r.sent) + 1 /\ m.sent # <<>> /\ m.sent[Len(m.sent)] = s.endpoint
      /\ r.sent # <<>> => m.sent[1] = r.sent[1]
      /\ m.kind = r.kind /\ m.failures = r.failures /\ m.counted = r.counted
      /\ m.observed = r.observed /\ m.retries = r.retries /\ m.err = r.err
      /\ m.servedBy = r.servedBy /\ m.status = r.status /\ m.rpcErrors = r.rpcErrors
      /\ m.degraded = r.degraded /\ m.flagged = r.flagged
      /\ m.degradedSeen = r.degradedSeen
  BY <1>0, <1>2, SentOnce
<1> HIDE DEF m
<1> DEFINE n == [m EXCEPT !.retries = @ + 1]
<1>4. n \in RequestRecord
  <2> DEFINE k == m.retries + 1
  <2>1. k \in Nat
    BY <1>3 DEF RequestRecord
  <2> HIDE DEF k
  <2>2. n = [m EXCEPT !.retries = k]
    BY DEF k
  <2> QED
    BY <1>3, <2>1, <2>2 DEF RequestRecord
<1>5. /\ Len(r.sent) = 1 /\ r.sent # <<>> /\ r.endpoint = r.sent[1] /\ IsRetryable(r.kind)
      /\ r.observed = 0 /\ r.failures = 1 /\ r.retries = 0 /\ Len(r.counted) = 1
      /\ r.servedBy = None /\ r.status = 0 /\ r.rpcErrors = 0 /\ r.kind \in Kinds
  BY <1>0 DEF RequestOK, BooksOK, RouteOK, AnswerOK, PeekOK
<1>6. /\ n.pc = "forwarding" /\ n.endpoint = s.endpoint /\ n.sent = m.sent
      /\ n.retries = 1 /\ n.kind = r.kind /\ n.failures = 1 /\ n.counted = r.counted
      /\ n.observed = 0 /\ n.servedBy = None /\ n.status = 0 /\ n.rpcErrors = 0
      /\ n.degraded = r.degraded /\ n.flagged = r.flagged
      /\ n.degradedSeen = r.degradedSeen
  BY <1>3, <1>5 DEF RequestRecord
<1>7. Len(n.sent) = 2 /\ n.sent[1] = r.endpoint /\ n.sent[2] = s.endpoint
  BY <1>3, <1>5, <1>6
<1> HIDE DEF n
<1>8. BooksOK(n) /\ RouteOK(n)
  BY <1>2, <1>3, <1>5, <1>6, <1>7 DEF BooksOK, RouteOK
<1>9. AnswerOK(n) /\ PeekOK(n)
  BY <1>6 DEF AnswerOK, PeekOK
<1>10. CurrentOK(n)
  BY <1>0, <1>6 DEF CurrentOK, RequestOK
<1> QED
  BY <1>1, <1>4, <1>8, <1>9, <1>10, BecomeStep DEF RequestOK, n, m

\* What most steps leave alone.
SameRoute(n, r) == n.kind = r.kind /\ n.sent = r.sent /\ n.endpoint = r.endpoint
SameAnswer(n, r) ==
  /\ n.servedBy = r.servedBy /\ n.status = r.status /\ n.degraded = r.degraded
  /\ n.flagged = r.flagged /\ n.degradedSeen = r.degradedSeen /\ n.rpcErrors = r.rpcErrors

\* The steps around a forward.
LEMMA ForwardSteps ==
  ASSUME ProxyInv, NEW q \in Requests,
         ForwardAnswers(q) \/ ForwardFails(q) \/ GiveUp(q) \/ RetryNone(q) \/ Leave(q)
  PROVE  ProxyInv'
<1> DEFINE r == req[q]
<1>0. RequestOK(r) /\ r \in RequestRecord
  BY DEF ProxyInv, RequestOK
<1>a. r.sent \in Seq(Endpoints) /\ Len(r.sent) \in Nat /\ (r.sent = <<>> <=> Len(r.sent) = 0)
  BY <1>0, LengthFacts DEF RequestRecord
<1>b. r.counted \in Seq(Reasons) /\ Len(r.counted) \in Nat
  BY <1>0, LengthFacts DEF RequestRecord
<1>1. CASE ForwardAnswers(q)
  <2>1. PICK resp \in Responses :
          Become(q, [r EXCEPT !.pc = "answered", !.resp = resp, !.err = NoErr])
    BY <1>1 DEF ForwardAnswers
  <2>2. r.pc = "forwarding"
    BY <1>1 DEF ForwardAnswers
  <2> DEFINE n == [r EXCEPT !.pc = "answered", !.resp = resp, !.err = NoErr]
  <2>3. n \in RequestRecord
    <3>1. resp \in ResponseRecord
      BY ProxyAssumption
    <3> QED
      BY <1>0, <3>1 DEF RequestRecord
  <2>4. /\ n.pc = "answered" /\ n.err = NoErr /\ n.failures = r.failures
        /\ n.counted = r.counted /\ n.observed = r.observed /\ n.retries = r.retries
        /\ SameRoute(n, r) /\ SameAnswer(n, r)
    BY <1>0 DEF RequestRecord, SameRoute, SameAnswer
  <2> HIDE DEF n
  <2>5. RequestOK(n)
    BY <1>0, <1>a, <1>b, <2>2, <2>3, <2>4
    DEF RequestOK, BooksOK, RouteOK, AnswerOK, PeekOK, CurrentOK, SameRoute, SameAnswer
  <2> QED
    BY <2>1, <2>5, BecomeStep DEF n
<1>2. CASE ForwardFails(q)
  <2>1. PICK err \in Faults \cup (IF r.gone THEN {"cancelled"} ELSE {}) :
          Become(q, [r EXCEPT !.pc = "failed", !.err = err, !.failures = @ + 1])
    BY <1>2 DEF ForwardFails
  <2>2. r.pc = "forwarding" /\ err \in UpstreamFaults \cup {"cancelled"}
    BY <1>2, ProxyAssumption DEF ForwardFails
  <2> DEFINE n == [r EXCEPT !.pc = "failed", !.err = err, !.failures = @ + 1]
  <2>3. n \in RequestRecord
    <3> DEFINE k == r.failures + 1
    <3>1. k \in Nat
      BY <1>0 DEF RequestRecord
    <3> HIDE DEF k
    <3>2. n = [r EXCEPT !.pc = "failed", !.err = err, !.failures = k]
      BY DEF k
    <3> QED
      BY <1>0, <2>2, <3>1, <3>2 DEF RequestRecord
  <2>4. /\ n.pc = "failed" /\ n.err = err /\ n.failures = r.failures + 1 /\ n.counted = r.counted
        /\ n.observed = r.observed /\ n.retries = r.retries
        /\ SameRoute(n, r) /\ SameAnswer(n, r)
    BY <1>0 DEF RequestRecord, SameRoute, SameAnswer
  <2> HIDE DEF n
  <2>5. BooksOK(n)
    BY <1>0, <1>a, <1>b, <2>2, <2>4 DEF RequestOK, BooksOK, SameRoute
  <2>6. RouteOK(n)
    BY <1>0, <1>a, <2>2, <2>4 DEF RequestOK, RouteOK, SameRoute
  <2>7. AnswerOK(n) /\ PeekOK(n) /\ CurrentOK(n)
    BY <1>0, <2>2, <2>4 DEF RequestOK, AnswerOK, PeekOK, CurrentOK, SameAnswer
  <2> QED
    BY <2>1, <2>3, <2>5, <2>6, <2>7, BecomeStep DEF RequestOK, n
<1>3. CASE GiveUp(q) \/ RetryNone(q)
  <2>1. r.pc \in {"failed", "reselecting"} /\ Become(q, [r EXCEPT !.pc = "reporting"])
    BY <1>3 DEF GiveUp, RetryNone
  <2> DEFINE n == [r EXCEPT !.pc = "reporting"]
  <2>2. n \in RequestRecord
    BY <1>0 DEF RequestRecord
  <2>3. /\ n.pc = "reporting" /\ n.err = r.err /\ n.failures = r.failures
        /\ n.counted = r.counted /\ n.observed = r.observed /\ n.retries = r.retries
        /\ SameRoute(n, r) /\ SameAnswer(n, r)
    BY <1>0 DEF RequestRecord, SameRoute, SameAnswer
  <2> HIDE DEF n
  <2>4. RequestOK(n)
    BY <1>0, <1>a, <1>b, <2>1, <2>2, <2>3
    DEF RequestOK, BooksOK, RouteOK, AnswerOK, PeekOK, CurrentOK, SameRoute, SameAnswer
  <2> QED
    BY <2>1, <2>4, BecomeStep DEF n
<1>4. CASE Leave(q)
  <2>1. Become(q, [r EXCEPT !.gone = TRUE])
    BY <1>4 DEF Leave
  <2> DEFINE n == [r EXCEPT !.gone = TRUE]
  <2>2. n \in RequestRecord
    BY <1>0 DEF RequestRecord
  <2>3. RequestOK(n)
    BY <1>0, <2>2 DEF RequestOK, RequestRecord, BooksOK, RouteOK, AnswerOK, PeekOK, CurrentOK
  <2> QED
    BY <2>1, <2>3, BecomeStep
<1> QED
  BY <1>1, <1>2, <1>3, <1>4

LEMMA ReasonType ==
  ASSUME NEW err \in UpstreamFaults \cup {"cancelled"}
  PROVE  Reason(err) \in Reasons
BY DEF Reason, Reasons, UpstreamFaults

\* The steps that count: an upstream error, or the end of the request.
LEMMA CountingSteps ==
  ASSUME ProxyInv, NEW q \in Requests,
         ChooseNone(q) \/ CountFailure(q) \/ ReportError(q)
  PROVE  ProxyInv'
<1> DEFINE r == req[q]
<1>0. RequestOK(r) /\ r \in RequestRecord
  BY DEF ProxyInv, RequestOK
<1>a. /\ r.sent \in Seq(Endpoints) /\ Len(r.sent) \in Nat
      /\ r.sent = <<>> <=> Len(r.sent) = 0
  BY <1>0, LengthFacts DEF RequestRecord
<1>b. r.counted \in Seq(Reasons) /\ Len(r.counted) \in Nat /\ r.failures \in Nat
  BY <1>0, LengthFacts DEF RequestRecord
<1>1. CASE ChooseNone(q)
  <2> DEFINE counted == Append(r.counted, "no_endpoints")
  <2>1. r.pc = "selecting" /\ r.counted = <<>>
    BY <1>0, <1>1 DEF ChooseNone, RequestOK, BooksOK
  <2>2. counted = <<"no_endpoints">> /\ counted \in Seq(Reasons) /\ Len(counted) = 1
    <3>1. "no_endpoints" \in Reasons
      BY DEF Reasons
    <3>2. counted \in Seq(Reasons) /\ Len(counted) = Len(r.counted) + 1
      BY <1>b, <3>1, AppendFacts
    <3>3. counted = <<"no_endpoints">>
      BY <2>1
    <3> QED
      BY <2>1, <3>2, <3>3
  <2> HIDE DEF counted
  <2> DEFINE n == [r EXCEPT !.pc = "done", !.status = 503, !.counted = counted]
  <2>3. Become(q, n)
    BY <1>1 DEF ChooseNone, counted
  <2>4. n \in RequestRecord
    <3> DEFINE status == 503
    <3>1. status \in Nat
      OBVIOUS
    <3> HIDE DEF status
    <3>2. n = [r EXCEPT !.pc = "done", !.status = status, !.counted = counted]
      BY DEF status
    <3>3. counted \in Seq(Reasons)
      BY <2>2
    <3> HIDE DEF n
    <3> QED
      BY <1>0, <3>1, <3>2, <3>3 DEF RequestRecord
  <2>5. /\ n.pc = "done" /\ n.status = 503 /\ n.counted = counted
        /\ n.failures = r.failures /\ n.observed = r.observed /\ n.servedBy = r.servedBy
        /\ n.degraded = r.degraded /\ n.flagged = r.flagged
        /\ n.degradedSeen = r.degradedSeen /\ n.rpcErrors = r.rpcErrors /\ SameRoute(n, r)
    BY <1>0 DEF RequestRecord, SameRoute
  <2> HIDE DEF n
  <2>6. RequestOK(n)
    BY <1>0, <1>a, <2>1, <2>2, <2>4, <2>5
    DEF RequestOK, BooksOK, RouteOK, AnswerOK, PeekOK, CurrentOK, SameRoute
  <2> QED
    BY <2>3, <2>6, BecomeStep
<1>2. ASSUME r.pc \in {"failed", "reporting"}
      PROVE  LET counted == Append(r.counted, Reason(r.err)) IN
             counted \in Seq(Reasons) /\ Len(counted) = Len(r.counted) + 1
  <2>1. Reason(r.err) \in Reasons
    BY <1>0, <1>2, ReasonType DEF RequestOK, AnswerOK
  <2> QED
    BY <1>b, <2>1, AppendFacts
<1>3. CASE CountFailure(q)
  <2> DEFINE counted == Append(r.counted, Reason(r.err))
             pc == IF r.gone THEN "reporting" ELSE "reselecting"
             n == [r EXCEPT !.pc = pc, !.counted = counted]
  <2>1. r.pc = "failed" /\ Len(r.sent) = 1 /\ IsRetryable(r.kind) /\ Become(q, n)
    BY <1>3 DEF CountFailure, FirstAttempt
  <2>2. counted \in Seq(Reasons) /\ Len(counted) = Len(r.counted) + 1
    BY <1>2, <2>1
  <2>3. pc \in {"reporting", "reselecting"}
    OBVIOUS
  <2> HIDE DEF counted, pc
  <2>4. n \in RequestRecord
    BY <1>0, <2>2, <2>3 DEF RequestRecord
  <2>5. /\ n.pc = pc /\ n.err = r.err /\ n.counted = counted /\ n.failures = r.failures
        /\ n.observed = r.observed /\ n.retries = r.retries
        /\ SameRoute(n, r) /\ SameAnswer(n, r)
    BY <1>0 DEF RequestRecord, SameRoute, SameAnswer
  <2> HIDE DEF n
  <2>6. BooksOK(n)
    BY <1>0, <1>a, <1>b, <2>1, <2>2, <2>3, <2>5 DEF RequestOK, BooksOK, SameRoute
  <2>7. RouteOK(n)
    BY <1>0, <1>a, <2>1, <2>3, <2>5 DEF RequestOK, RouteOK, SameRoute
  <2>8. AnswerOK(n) /\ PeekOK(n) /\ CurrentOK(n)
    BY <1>0, <2>1, <2>3, <2>5 DEF RequestOK, AnswerOK, PeekOK, CurrentOK, SameAnswer
  <2> QED
    BY <2>1, <2>4, <2>6, <2>7, <2>8, BecomeStep DEF RequestOK
<1>4. CASE ReportError(q)
  <2> DEFINE counted == Append(r.counted, Reason(r.err))
             status == ErrorStatus(r.err)
             tally == r.observed + 1
             n == [r EXCEPT !.pc = "done", !.status = status, !.counted = counted,
                            !.observed = tally]
  <2>1. r.pc = "reporting" /\ Become(q, n)
    BY <1>4 DEF ReportError
  <2>2. counted \in Seq(Reasons) /\ Len(counted) = Len(r.counted) + 1
    BY <1>2, <2>1
  <2>3. status \in {502, 504} /\ (status = 504 <=> r.err = "deadline")
    BY DEF ErrorStatus
  <2>4. tally = 1
    BY <1>0, <2>1 DEF RequestOK, BooksOK
  <2> HIDE DEF counted, status, tally
  <2>5. n \in RequestRecord
    <3>1. status \in Nat /\ tally \in Nat
      BY <2>3, <2>4
    <3> QED
      BY <1>0, <2>2, <3>1 DEF RequestRecord
  <2>6. /\ n.pc = "done" /\ n.err = r.err /\ n.counted = counted /\ n.failures = r.failures
        /\ n.observed = 1 /\ n.retries = r.retries /\ n.status = status
        /\ n.servedBy = r.servedBy /\ n.degraded = r.degraded /\ n.flagged = r.flagged
        /\ n.degradedSeen = r.degradedSeen /\ n.rpcErrors = r.rpcErrors /\ SameRoute(n, r)
    BY <1>0, <2>4 DEF RequestRecord, SameRoute
  <2> HIDE DEF n
  <2>7. BooksOK(n)
    BY <1>0, <1>a, <1>b, <2>1, <2>2, <2>6 DEF RequestOK, BooksOK, SameRoute
  <2>8. RouteOK(n)
    BY <1>0, <1>a, <2>1, <2>6 DEF RequestOK, RouteOK, SameRoute
  <2>9. r.servedBy = None /\ r.sent # <<>>
    BY <1>0, <2>1 DEF RequestOK, AnswerOK, BooksOK
  <2>10. AnswerOK(n) /\ PeekOK(n) /\ CurrentOK(n)
    BY <1>0, <2>1, <2>3, <2>6, <2>9 DEF RequestOK, AnswerOK, PeekOK, CurrentOK, SameRoute
  <2> QED
    BY <2>1, <2>5, <2>7, <2>8, <2>10, BecomeStep DEF RequestOK
<1> QED
  BY <1>1, <1>3, <1>4

\* The answer.
LEMMA AnswerSteps ==
  ASSUME ProxyInv, NEW q \in Requests, WriteHead(q) \/ Stream(q)
  PROVE  ProxyInv'
<1> DEFINE r == req[q]
<1>0. RequestOK(r) /\ r \in RequestRecord
  BY DEF ProxyInv, RequestOK
<1>a. /\ r.sent \in Seq(Endpoints) /\ Len(r.sent) \in Nat
      /\ r.sent = <<>> <=> Len(r.sent) = 0
  BY <1>0, LengthFacts DEF RequestRecord
<1>1. CASE WriteHead(q)
  <2>1. PICK k \in {m \in 0 .. Window : m <= r.resp.length} :
          Become(q, [r EXCEPT !.pc = "streaming", !.relayed = k, !.servedBy = r.endpoint,
                              !.flagged = r.degraded,
                              !.rpcErrors = IF ErrorFound(r.resp, k) THEN @ + 1 ELSE @,
                              !.status = r.resp.status])
    BY <1>1 DEF WriteHead
  <2>2. r.pc = "answered"
    BY <1>1 DEF WriteHead
  <2> DEFINE errors == IF ErrorFound(r.resp, k) THEN r.rpcErrors + 1 ELSE r.rpcErrors
             status == r.resp.status
             n == [r EXCEPT !.pc = "streaming", !.relayed = k, !.servedBy = r.endpoint,
                            !.flagged = r.degraded, !.rpcErrors = errors, !.status = status]
  <2>3. Become(q, n)
    BY <2>1
  <2>4. k \in Nat /\ k <= Window
    BY <2>1, ProxyAssumption
  <2>5. status \in Nat \ {0, 502, 503, 504}
    <3>1. r.resp \in ResponseRecord
      BY <1>0 DEF RequestRecord
    <3>2. status \in 200 .. 499
      BY <3>1 DEF ResponseRecord
    <3> QED
      BY <3>2
  <2>6. r.endpoint = r.sent[Len(r.sent)] /\ r.err = NoErr /\ r.rpcErrors = 0
        /\ r.endpoint \in Endpoints
    <3>1. /\ r.endpoint = r.sent[Len(r.sent)] /\ r.sent # <<>> /\ r.err = NoErr
          /\ r.servedBy = None /\ r.rpcErrors = 0
      BY <1>0, <2>2 DEF RequestOK, RouteOK, AnswerOK, PeekOK
    <3> QED
      BY <1>a, <3>1
  <2>7. errors \in Nat /\ errors = IF ErrorFound(r.resp, k) THEN 1 ELSE 0
    BY <2>6
  <2> HIDE DEF errors, status
  <2>8. n \in RequestRecord
    <3>1. r.endpoint \in Endpoints \cup {None} /\ r.degraded \in BOOLEAN /\ status \in Nat
      BY <1>0, <2>5 DEF RequestRecord
    <3> DEFINE head == [r EXCEPT !.pc = "streaming", !.relayed = k, !.servedBy = r.endpoint]
    <3>2. head \in RequestRecord
      BY <1>0, <2>4, <3>1 DEF RequestRecord
    <3>3. n = [head EXCEPT !.flagged = r.degraded, !.rpcErrors = errors, !.status = status]
      BY <1>0 DEF RequestRecord
    <3> DEFINE lag == r.degraded
    <3>4. n = [head EXCEPT !.flagged = lag, !.rpcErrors = errors, !.status = status]
      BY <3>3
    <3>5. lag \in BOOLEAN /\ errors \in Nat /\ status \in Nat
      BY <2>7, <3>1
    <3> HIDE DEF head, n, lag
    <3> QED
      BY <3>2, <3>4, <3>5 DEF RequestRecord
  <2>9. /\ n.pc = "streaming" /\ n.err = r.err /\ n.counted = r.counted
        /\ n.failures = r.failures /\ n.observed = r.observed /\ n.retries = r.retries
        /\ n.status = status /\ n.servedBy = r.endpoint /\ n.flagged = r.degraded
        /\ n.degraded = r.degraded /\ n.degradedSeen = r.degradedSeen /\ SameRoute(n, r)
        /\ n.rpcErrors = errors /\ n.relayed = k /\ n.resp = r.resp
    BY <1>0 DEF RequestRecord, SameRoute
  <2> HIDE DEF n
  <2>10. BooksOK(n) /\ RouteOK(n)
    BY <1>0, <2>2, <2>9 DEF RequestOK, BooksOK, RouteOK, SameRoute
  <2>11. AnswerOK(n) /\ CurrentOK(n)
    BY <1>0, <2>5, <2>6, <2>9 DEF RequestOK, AnswerOK, CurrentOK, SameRoute
  <2>12. PeekOK(n)
    BY <2>4, <2>6, <2>7, <2>9, PoolAssumption DEF PeekOK
  <2> QED
    BY <2>3, <2>8, <2>10, <2>11, <2>12, BecomeStep DEF RequestOK
<1>2. CASE Stream(q)
  <2>1. PICK k \in r.relayed .. r.resp.length :
          /\ k > r.relayed => r.relayed = Window
          /\ Become(q, [r EXCEPT !.pc = "done", !.relayed = k, !.observed = @ + 1])
    BY <1>2 DEF Stream
  <2> DEFINE tally == r.observed + 1
             n == [r EXCEPT !.pc = "done", !.relayed = k, !.observed = tally]
  <2>2. r.pc = "streaming" /\ Become(q, n)
    BY <1>2, <2>1 DEF Stream
  <2>3. tally = 1
    BY <1>0, <2>2 DEF RequestOK, BooksOK
  <2>4. tally \in Nat
    BY <2>3
  <2>5. k \in Nat /\ r.relayed \in Nat /\ r.relayed <= k
    BY <1>0, <2>1 DEF RequestRecord, ResponseRecord
  <2> HIDE DEF tally
  <2>6. n \in RequestRecord
    BY <1>0, <2>4, <2>5 DEF RequestRecord
  <2>7. /\ n.pc = "done" /\ n.err = r.err /\ n.counted = r.counted /\ n.failures = r.failures
        /\ n.observed = 1 /\ n.retries = r.retries /\ n.relayed = k /\ n.resp = r.resp
        /\ SameRoute(n, r) /\ SameAnswer(n, r)
    BY <1>0, <2>3 DEF RequestRecord, SameRoute, SameAnswer
  <2> HIDE DEF n
  <2>8. BooksOK(n)
    BY <1>0, <2>2, <2>7 DEF RequestOK, BooksOK, SameRoute
  <2>9. RouteOK(n) /\ AnswerOK(n) /\ CurrentOK(n)
    BY <1>0, <2>2, <2>7 DEF RequestOK, RouteOK, AnswerOK, CurrentOK, SameRoute, SameAnswer
  <2>10. /\ r.servedBy # None /\ r.relayed <= Window
         /\ r.rpcErrors = IF ErrorFound(r.resp, r.relayed) THEN 1 ELSE 0
    BY <1>0, <2>2 DEF RequestOK, PeekOK
  <2>11. PeekOK(n)
    BY <2>1, <2>5, <2>7, <2>10, ProxyAssumption DEF PeekOK, SameAnswer, ErrorFound
  <2> QED
    BY <2>2, <2>6, <2>8, <2>9, <2>11, BecomeStep DEF RequestOK
<1> QED
  BY <1>1, <1>2

-----------------------------------------------------------------------------
(* The invariant, and what it shows *)

LEMMA ProxyStep == ProxyInv /\ [ProxyNext]_proxyVars => ProxyInv'
<1> SUFFICES ASSUME ProxyInv, [ProxyNext]_proxyVars PROVE ProxyInv'
  OBVIOUS
<1>1. CASE UNCHANGED proxyVars
  BY <1>1 DEF proxyVars, ProxyInv, BatchInv, PoolInv, TypeOK, WatermarkIsLive, Reporting,
              Anchored, SlotLag
<1>2. CASE PoolStep
  <2>1. BatchInv'
    BY <1>2, BatchStepInv DEF PoolStep, ProxyInv
  <2> QED
    BY <1>2, <2>1 DEF PoolStep, ProxyInv
<1>3. ASSUME NEW q \in Requests, Reject(q) \/ Admit(q) \/ HandlerStep(q) \/ Leave(q)
      PROVE  ProxyInv'
  BY <1>3, AdmissionSteps, ChooseStep, RetryStep, ForwardSteps, CountingSteps, AnswerSteps
  DEF HandlerStep
<1> QED
  BY <1>1, <1>2, <1>3 DEF ProxyNext

THEOREM ProxyInvariant == ProxySafeSpec => []ProxyInv
BY ProxyInitInv, ProxyStep, PTL DEF ProxySafeSpec

\* Types, of the handlers and of the pool under them.
THEOREM ProxyTypeCorrect == ProxySafeSpec => []ProxyTypeOK
<1>1. ProxyInv => ProxyTypeOK
  BY DEF ProxyInv, BatchInv, PoolInv, ProxyTypeOK
<1> QED
  BY <1>1, ProxyInvariant, PTL

\* What the invariant shows of every request.
LEMMA ProxyInvShows ==
  ProxyInv => /\ WritesAreSentOnce /\ RetriesGoElsewhere /\ AnswersAreTruthful
              /\ RequestsAreAccounted /\ AppErrorsAreCounted /\ NeverDegraded
<1>1. ProxyInv => WritesAreSentOnce
  <2> SUFFICES ASSUME ProxyInv, NEW q \in Requests, req[q].kind \in {"write", "batch"}
               PROVE  Len(req[q].sent) <= 1
    BY DEF WritesAreSentOnce
  <2>1. RouteOK(req[q]) /\ Len(req[q].sent) \in Nat
    BY LengthFacts DEF ProxyInv, RequestOK, RequestRecord
  <2>2. ~ IsRetryable(req[q].kind)
    BY DEF IsRetryable
  <2> DEFINE bodies == Len(req[q].sent)
  <2>3. bodies \in Nat /\ bodies <= 2 /\ bodies # 2
    BY <2>1, <2>2 DEF RouteOK
  <2> HIDE DEF bodies
  <2>4. bodies <= 1
    BY <2>3
  <2> QED
    BY <2>4 DEF bodies
<1>2. ProxyInv => RetriesGoElsewhere
  BY DEF ProxyInv, RequestOK, RouteOK, RetriesGoElsewhere
<1>3. ProxyInv => AnswersAreTruthful
  BY DEF ProxyInv, RequestOK, AnswerOK, AnswersAreTruthful
<1>4. ProxyInv => RequestsAreAccounted
  BY DEF ProxyInv, RequestOK, BooksOK, RequestsAreAccounted
<1>5. ProxyInv => AppErrorsAreCounted
  BY DEF ProxyInv, RequestOK, PeekOK, AppErrorsAreCounted
<1>6. ProxyInv => NeverDegraded
  BY DEF ProxyInv, RequestOK, CurrentOK, NeverDegraded
<1> QED
  BY <1>1, <1>2, <1>3, <1>4, <1>5, <1>6

\* No transaction and no batch is ever sent to two upstreams or twice to one,
\* for any number of requests and endpoints.
THEOREM NoWriteIsRepeated == ProxySafeSpec => []WritesAreSentOnce
BY ProxyInvShows, ProxyInvariant, PTL

\* There is at most one retry, and it goes to another endpoint.
THEOREM RetryGoesElsewhere == ProxySafeSpec => []RetriesGoElsewhere
BY ProxyInvShows, ProxyInvariant, PTL

\* What a client is told of its request is true.
THEOREM AnswerIsTruthful == ProxySafeSpec => []AnswersAreTruthful
BY ProxyInvShows, ProxyInvariant, PTL

\* The counters balance when a request is done.
THEOREM RequestIsAccounted == ProxySafeSpec => []RequestsAreAccounted
BY ProxyInvShows, ProxyInvariant, PTL

\* Application errors are counted once, wherever a body breaks off, for any
\* window and any lengths.
THEOREM AppErrorIsCounted == ProxySafeSpec => []AppErrorsAreCounted
BY ProxyInvShows, ProxyInvariant, PTL

\* No request starts on a lagging endpoint, so none is ever flagged.
THEOREM NoRequestDegraded == ProxySafeSpec => []NeverDegraded
BY ProxyInvShows, ProxyInvariant, PTL

-----------------------------------------------------------------------------
(* The request path implements Gateway: each step of a handler is a step of *)
(* the promise, or shows nothing of it. All that is needed of a handler is  *)
(* its route and what it has answered so far, which the invariant has.      *)

calls == [q \in Requests |-> View(req[q])]

\* A step of one handler changes the view of its own call.
LEMMA ViewStep ==
  ASSUME ProxyInv, NEW q \in Requests, NEW n, Become(q, n)
  PROVE  calls' = [calls EXCEPT ![q] = View(n)]
BY DEF Become, ProxyInv, calls

\* A step that shows nothing.
LEMMA QuietStep ==
  ASSUME ProxyInv, NEW q \in Requests, NEW n, Become(q, n), View(n) = View(req[q])
  PROVE  UNCHANGED calls
<1>1. calls' = [calls EXCEPT ![q] = calls[q]]
  BY ViewStep DEF calls
<1> QED
  BY <1>1 DEF calls

LEMMA ReplyFacts ==
  ASSUME NEW r
  PROVE  /\ r.status = 0 => Reply(r) = "none"
         /\ r.status # 0 /\ r.sent = <<>> => Reply(r) = "refused"
         /\ r.status \in {502, 504} /\ r.sent # <<>> => Reply(r) = "failed"
         /\ r.status \notin {0, 502, 504} /\ r.sent # <<>> => Reply(r) = "answered"
<1>1. ASSUME r.status = 0 PROVE Reply(r) = "none"
  <2>1. ~ (r.status # 0 /\ r.sent = <<>>) /\ r.status \notin {502, 504}
    BY <1>1
  <2> QED
    BY <1>1, <2>1 DEF Reply
<1>2. ASSUME r.status # 0, r.sent = <<>> PROVE Reply(r) = "refused"
  BY <1>2 DEF Reply
<1>3. ASSUME r.status \in {502, 504}, r.sent # <<>> PROVE Reply(r) = "failed"
  <2>1. r.status # 0
    BY <1>3
  <2> QED
    BY <1>3, <2>1 DEF Reply
<1>4. ASSUME r.status \notin {0, 502, 504}, r.sent # <<>> PROVE Reply(r) = "answered"
  BY <1>4 DEF Reply
<1> QED
  BY <1>1, <1>2, <1>3, <1>4

LEMMA RepeatableType == ASSUME NEW r PROVE Repeatable(r) \in BOOLEAN
BY DEF Repeatable

\* What is known of a handler while its client has had no reply.
LEMMA OpenView ==
  ASSUME NEW r, RequestOK(r), r.pc \notin {"streaming", "done"}
  PROVE  View(r) = [repeatable |-> Repeatable(r), sent |-> r.sent, from |-> None, reply |-> "none"]
<1>1. r.status = 0 /\ r.servedBy = None
  BY DEF RequestOK, AnswerOK
<1> QED
  BY <1>1, ReplyFacts DEF View

\* The fields that show.
SameView(n, r) ==
  n.kind = r.kind /\ n.sent = r.sent /\ n.status = r.status /\ n.servedBy = r.servedBy

LEMMA QuietSteps ==
  ASSUME ProxyInv, NEW q \in Requests,
         \/ ForwardAnswers(q) \/ ForwardFails(q) \/ CountFailure(q) \/ GiveUp(q)
         \/ RetryNone(q) \/ Stream(q) \/ Leave(q)
  PROVE  UNCHANGED calls
<1> DEFINE r == req[q]
<1>0. r \in RequestRecord
  BY DEF ProxyInv, RequestOK
<1>1. \E n : Become(q, n) /\ SameView(n, r)
  <2>1. CASE ForwardAnswers(q)
    <3> DEFINE n(x) == [r EXCEPT !.pc = "answered", !.resp = x, !.err = NoErr]
    <3>1. PICK resp \in Responses : Become(q, n(resp))
      BY <2>1 DEF ForwardAnswers
    <3>2. SameView(n(resp), r)
      BY <1>0 DEF RequestRecord, SameView
    <3> HIDE DEF n
    <3> QED
      BY <3>1, <3>2
  <2>2. CASE ForwardFails(q)
    <3> DEFINE n(x) == [r EXCEPT !.pc = "failed", !.err = x, !.failures = @ + 1]
    <3>1. PICK err \in Faults \cup (IF r.gone THEN {"cancelled"} ELSE {}) : Become(q, n(err))
      BY <2>2 DEF ForwardFails
    <3>2. SameView(n(err), r)
      BY <1>0 DEF RequestRecord, SameView
    <3> HIDE DEF n
    <3> QED
      BY <3>1, <3>2
  <2>3. CASE CountFailure(q)
    <3> DEFINE pc == IF r.gone THEN "reporting" ELSE "reselecting"
               counted == Append(r.counted, Reason(r.err))
               n == [r EXCEPT !.pc = pc, !.counted = counted]
    <3>1. Become(q, n)
      BY <2>3 DEF CountFailure
    <3> HIDE DEF pc, counted
    <3>2. SameView(n, r)
      BY <1>0 DEF RequestRecord, SameView
    <3> HIDE DEF n
    <3> QED
      BY <3>1, <3>2
  <2>4. CASE GiveUp(q) \/ RetryNone(q) \/ Leave(q)
    <3> DEFINE n(b) == IF b THEN [r EXCEPT !.gone = TRUE] ELSE [r EXCEPT !.pc = "reporting"]
    <3>1. Become(q, n(TRUE)) \/ Become(q, n(FALSE))
      BY <2>4 DEF GiveUp, RetryNone, Leave
    <3>2. SameView(n(TRUE), r) /\ SameView(n(FALSE), r)
      BY <1>0 DEF RequestRecord, SameView
    <3> HIDE DEF n
    <3> QED
      BY <3>1, <3>2
  <2>5. CASE Stream(q)
    <3> DEFINE n(x) == [r EXCEPT !.pc = "done", !.relayed = x, !.observed = @ + 1]
    <3>1. PICK k \in r.relayed .. r.resp.length : Become(q, n(k))
      BY <2>5 DEF Stream
    <3>2. SameView(n(k), r)
      BY <1>0 DEF RequestRecord, SameView
    <3> HIDE DEF n
    <3> QED
      BY <3>1, <3>2
  <2> QED
    BY <2>1, <2>2, <2>3, <2>4, <2>5
<1>2. PICK n : Become(q, n) /\ SameView(n, r)
  BY <1>1
<1>3. View(n) = View(r)
  BY <1>2 DEF View, Reply, Repeatable, SameView
<1> QED
  BY <1>2, <1>3, QuietStep

LEMMA AdmissionViews ==
  ASSUME ProxyInv, NEW q \in Requests, Reject(q) \/ Admit(q) \/ ChooseNone(q)
  PROVE  [G!Next]_calls
<1> DEFINE r == req[q]
<1>0. RequestOK(r) /\ r \in RequestRecord
  BY DEF ProxyInv, RequestOK
<1>1. /\ r.pc \in {"idle", "selecting"} /\ r.sent = <<>>
      /\ r.servedBy = None /\ r.status = 0
  BY <1>0 DEF Reject, Admit, ChooseNone, RequestOK, BooksOK, AnswerOK
<1>2. calls[q] = [repeatable |-> Repeatable(r), sent |-> <<>>, from |-> None, reply |-> "none"]
  BY <1>0, <1>1, OpenView DEF calls
<1>3. CASE Admit(q)
  <2> DEFINE n(k) == [r EXCEPT !.pc = "selecting", !.kind = k]
  <2>1. PICK kind \in Kinds : Become(q, n(kind))
    BY <1>3 DEF Admit
  <2>2. /\ n(kind).kind = kind /\ n(kind).sent = <<>> /\ n(kind).status = 0
        /\ n(kind).servedBy = None
    BY <1>0, <1>1 DEF RequestRecord
  <2>3. r.kind = "unread"
    BY <1>0, <1>3 DEF RequestOK, RouteOK, Admit
  <2> DEFINE m == n(kind)
  <2> HIDE DEF n
  <2>4. View(m) = [repeatable |-> Repeatable(m), sent |-> <<>>, from |-> None, reply |-> "none"]
    BY <2>2, ReplyFacts DEF View
  <2>5. Repeatable(r) = FALSE
    BY <2>3 DEF Repeatable, Kinds
  <2>6. CASE Repeatable(m)
    <3>1. Repeatable(m) = TRUE
      BY <2>6, RepeatableType
    <3>2. View(m) = [calls[q] EXCEPT !.repeatable = Repeatable(m)]
      BY <1>2, <2>4
    <3>3. calls' = [calls EXCEPT ![q].repeatable = Repeatable(m)]
      BY <2>1, <3>2, ViewStep
    <3>4. G!Receive(q)
      BY <1>2, <3>1, <3>3 DEF G!Receive, G!Open, G!Unsent, calls
    <3> QED
      BY <3>4 DEF G!Next
  <2>7. CASE ~ Repeatable(m)
    <3>1. Repeatable(m) = FALSE
      BY <2>7, RepeatableType
    <3>2. View(m) = calls[q]
      BY <1>2, <2>4, <2>5, <3>1
    <3>3. calls[q] = View(r)
      BY DEF calls
    <3> QED
      BY <2>1, <3>2, <3>3, QuietStep
  <2> QED
    BY <2>6, <2>7
<1>4. CASE Reject(q) \/ ChooseNone(q)
  <2>1. \E n : /\ Become(q, n) /\ n.kind = r.kind /\ n.sent = <<>> /\ n.status # 0
               /\ n.servedBy = None
    <3>1. CASE Reject(q)
      <4> DEFINE n(k) == [r EXCEPT !.pc = "done", !.status = k]
      <4>1. PICK why \in DOMAIN RejectStatus : Become(q, n(RejectStatus[why]))
        BY <3>1 DEF Reject
      <4>2. RejectStatus[why] # 0
        BY <4>1 DEF RejectStatus
      <4> DEFINE status == RejectStatus[why]
      <4> HIDE DEF status
      <4>3. /\ n(status).kind = r.kind /\ n(status).sent = <<>> /\ n(status).status = status
            /\ n(status).servedBy = None
        BY <1>0, <1>1 DEF RequestRecord
      <4> HIDE DEF n
      <4>4. Become(q, n(status)) /\ status # 0
        BY <4>1, <4>2 DEF status
      <4> QED
        BY <4>3, <4>4
    <3>2. CASE ChooseNone(q)
      <4> DEFINE counted == Append(r.counted, "no_endpoints")
                 n == [r EXCEPT !.pc = "done", !.status = 503, !.counted = counted]
      <4>1. Become(q, n)
        BY <3>2 DEF ChooseNone
      <4> HIDE DEF counted
      <4>2. n.kind = r.kind /\ n.sent = <<>> /\ n.status = 503 /\ n.servedBy = None
        BY <1>0, <1>1 DEF RequestRecord
      <4> HIDE DEF n
      <4> QED
        BY <4>1, <4>2
    <3> QED
      BY <1>4, <3>1, <3>2
  <2>2. PICK n : /\ Become(q, n) /\ n.kind = r.kind /\ n.sent = <<>> /\ n.status # 0
                 /\ n.servedBy = None
    BY <2>1
  <2>3. View(n) = [repeatable |-> Repeatable(r), sent |-> <<>>, from |-> None,
                   reply |-> "refused"]
    BY <2>2, ReplyFacts DEF View, Repeatable
  <2>4. View(n) = [calls[q] EXCEPT !.reply = "refused"]
    BY <1>2, <2>3
  <2>5. calls' = [calls EXCEPT ![q].reply = "refused"]
    BY <2>2, <2>4, ViewStep
  <2>6. G!Refuse(q)
    BY <1>2, <2>5 DEF G!Refuse, G!Open, G!Unsent, calls
  <2> QED
    BY <2>6 DEF G!Next
<1> QED
  BY <1>3, <1>4

\* The body goes out: for the first time, or a second time and elsewhere.
LEMMA SendViews ==
  ASSUME ProxyInv, NEW q \in Requests, Choose(q) \/ Retry(q)
  PROVE  [G!Next]_calls
<1> DEFINE r == req[q]
<1>0. RequestOK(r) /\ r \in RequestRecord
  BY DEF ProxyInv, RequestOK
<1>1. /\ r.pc \in {"selecting", "reselecting"}
      /\ calls[q] = [repeatable |-> Repeatable(r), sent |-> r.sent, from |-> None, reply |-> "none"]
  BY <1>0, OpenView DEF Choose, Retry, calls
<1>2. PICK s, n : /\ s.endpoint \in Endpoints /\ Become(q, n)
                  /\ n.sent = Append(r.sent, s.endpoint)
                  /\ n.kind = r.kind /\ n.status = r.status /\ n.servedBy = r.servedBy
                  /\ Retry(q) => s.endpoint # r.endpoint
  <2>1. CASE Choose(q)
    <3>1. PICK s \in Select \ {ErrNoEndpoints} :
            Become(q, [SendTo(r, s) EXCEPT
                         !.degraded = s.degraded,
                         !.degradedSeen = IF s.degraded THEN @ + 1 ELSE @])
      BY <2>1 DEF Choose
    <3>2. s.endpoint \in Endpoints /\ s.degraded = FALSE
      BY FirstSelected, Selected DEF Select, ProxyInv
    <3>3. r.pc = "selecting" /\ ~ Retry(q)
      BY <2>1 DEF Choose, Retry
    <3> DEFINE sent == Append(r.sent, s.endpoint)
               n == [SendTo(r, s) EXCEPT
                       !.degraded = s.degraded,
                       !.degradedSeen = IF s.degraded THEN @ + 1 ELSE @]
    <3> HIDE DEF sent
    <3>4. /\ n.sent = sent
          /\ n.kind = r.kind /\ n.status = r.status /\ n.servedBy = r.servedBy
      BY <1>0 DEF SendTo, RequestRecord, sent
    <3> QED
      BY <3>1, <3>2, <3>3, <3>4 DEF sent
  <2>2. CASE Retry(q)
    <3>1. PICK s \in SelectExcluding(r.endpoint) \ {ErrNoEndpoints} :
            Become(q, [SendTo(r, s) EXCEPT !.retries = @ + 1])
      BY <2>2 DEF Retry
    <3>2. s.endpoint \in Endpoints /\ s.endpoint # r.endpoint
      BY Selected
    <3> DEFINE sent == Append(r.sent, s.endpoint)
               n == [SendTo(r, s) EXCEPT !.retries = @ + 1]
    <3> HIDE DEF sent
    <3>3. /\ n.sent = sent
          /\ n.kind = r.kind /\ n.status = r.status /\ n.servedBy = r.servedBy
      BY <1>0 DEF SendTo, RequestRecord, sent
    <3> QED
      BY <3>1, <3>2, <3>3 DEF sent
  <2> QED
    BY <2>1, <2>2
<1>3. r.status = 0 /\ r.servedBy = None
  BY <1>0, <1>1 DEF RequestOK, AnswerOK
<1>4. View(n) = [calls[q] EXCEPT !.sent = Append(@, s.endpoint)]
  <2> DEFINE sent == Append(r.sent, s.endpoint)
  <2>1. View(n) = [repeatable |-> Repeatable(r), sent |-> sent, from |-> None,
                   reply |-> "none"]
    BY <1>2, <1>3, ReplyFacts DEF View, Repeatable
  <2>2. calls[q].sent = r.sent
    BY <1>1
  <2> HIDE DEF sent
  <2>3. View(n) = [calls[q] EXCEPT !.sent = sent]
    BY <1>1, <2>1
  <2> QED
    BY <2>2, <2>3 DEF sent
<1>5. calls' = [calls EXCEPT ![q].sent = Append(@, s.endpoint)]
  BY <1>2, <1>4, ViewStep
<1>6. \/ r.sent = <<>>
      \/ r.kind \in Kinds /\ IsRetryable(r.kind) /\ Len(r.sent) = 1 /\ r.sent[1] # s.endpoint
  BY <1>0, <1>1, <1>2 DEF RequestOK, BooksOK, RouteOK, Choose, Retry
<1>7. G!Send(q, s.endpoint)
  <2>1. r.sent = <<>> \/ (Repeatable(r) /\ Len(r.sent) = 1 /\ r.sent[1] # s.endpoint)
    <3>1. r.kind \in Kinds /\ IsRetryable(r.kind) => Repeatable(r)
      BY Zenon DEF Repeatable
    <3> QED
      BY <1>6, <3>1, Zenon
  <2> QED
    BY <1>1, <1>5, <2>1 DEF G!Send, G!Open, G!Unsent, calls
<1> QED
  BY <1>2, <1>7 DEF G!Next

\* The reply is that of the last endpoint, or that it failed.
LEMMA ReplyViews ==
  ASSUME ProxyInv, NEW q \in Requests, WriteHead(q) \/ ReportError(q)
  PROVE  [G!Next]_calls
<1> DEFINE r == req[q]
<1>0. RequestOK(r) /\ r \in RequestRecord
  BY DEF ProxyInv, RequestOK
<1>1. /\ r.pc \in {"answered", "reporting"}
      /\ r.sent # <<>> /\ r.servedBy = None
  BY <1>0 DEF WriteHead, ReportError, RequestOK, BooksOK, AnswerOK
<1>2. calls[q] = [repeatable |-> Repeatable(r), sent |-> r.sent, from |-> None, reply |-> "none"]
  BY <1>0, <1>1, OpenView DEF calls
<1>3. CASE WriteHead(q)
  <2> DEFINE errors(k) == IF ErrorFound(r.resp, k) THEN r.rpcErrors + 1 ELSE r.rpcErrors
             n(k) == [r EXCEPT !.pc = "streaming", !.relayed = k, !.servedBy = r.endpoint,
                               !.flagged = r.degraded, !.rpcErrors = errors(k),
                               !.status = r.resp.status]
  <2>1. PICK k \in {m \in 0 .. Window : m <= r.resp.length} : Become(q, n(k))
    BY <1>3 DEF WriteHead
  <2>2. r.resp.status \notin {0, 502, 504}
    <3>1. r.resp \in ResponseRecord
      BY <1>0 DEF RequestRecord
    <3>2. r.resp.status \in 200 .. 499
      BY <3>1 DEF ResponseRecord
    <3> QED
      BY <3>2
  <2> HIDE DEF errors
  <2>3. /\ n(k).kind = r.kind /\ n(k).sent = r.sent /\ n(k).status = r.resp.status
        /\ n(k).servedBy = r.endpoint
    BY <1>0 DEF RequestRecord
  <2> HIDE DEF n
  <2>4. r.endpoint = r.sent[Len(r.sent)]
    BY <1>0, <1>3 DEF WriteHead, RequestOK, RouteOK
  <2> DEFINE e == r.endpoint
  <2>5. View(n(k)) = [repeatable |-> Repeatable(r), sent |-> r.sent, from |-> e,
                      reply |-> "answered"]
    BY <1>1, <2>2, <2>3, ReplyFacts DEF View, Repeatable
  <2>6. e = r.sent[Len(r.sent)]
    BY <2>4
  <2> HIDE DEF e
  <2>7. View(n(k)) = [calls[q] EXCEPT !.reply = "answered", !.from = e]
    <3>1. [calls[q] EXCEPT !.reply = "answered"] =
            [repeatable |-> Repeatable(r), sent |-> r.sent, from |-> None, reply |-> "answered"]
      BY <1>2
    <3> DEFINE answered == [calls[q] EXCEPT !.reply = "answered"]
    <3>2. [answered EXCEPT !.from = e] =
            [repeatable |-> Repeatable(r), sent |-> r.sent, from |-> e, reply |-> "answered"]
      <4>1. answered = [repeatable |-> Repeatable(r), sent |-> r.sent, from |-> None,
                        reply |-> "answered"]
        BY <3>1
      <4> HIDE DEF answered
      <4> QED
        BY <4>1
    <3> QED
      BY <2>5, <3>2
  <2>8. calls' = [calls EXCEPT ![q] = [calls[q] EXCEPT !.reply = "answered", !.from = e]]
    BY <2>1, <2>7, ViewStep
  <2>9. calls' = [calls EXCEPT ![q].reply = "answered", ![q].from = e]
    BY <2>8 DEF calls
  <2>10. calls[q].reply = "none" /\ calls[q].sent # <<>> /\ e = calls[q].sent[Len(calls[q].sent)]
    BY <1>1, <1>2, <2>6
  <2>11. G!Answer(q)
    BY <2>9, <2>10 DEF G!Answer, G!Open, G!Unsent, calls
  <2> QED
    BY <2>11 DEF G!Next
<1>4. CASE ReportError(q)
  <2> DEFINE counted == Append(r.counted, Reason(r.err))
             status == ErrorStatus(r.err)
             tally == r.observed + 1
             n == [r EXCEPT !.pc = "done", !.status = status, !.counted = counted,
                            !.observed = tally]
  <2>1. status \in {502, 504}
    BY DEF ErrorStatus
  <2>2. Become(q, n)
    BY <1>4 DEF ReportError
  <2> HIDE DEF counted, status, tally
  <2>3. n.kind = r.kind /\ n.sent = r.sent /\ n.status = status /\ n.servedBy = None
    BY <1>0, <1>1 DEF RequestRecord
  <2> HIDE DEF n
  <2>4. View(n) = [repeatable |-> Repeatable(r), sent |-> r.sent, from |-> None,
                   reply |-> "failed"]
    BY <1>1, <2>1, <2>3, ReplyFacts DEF View, Repeatable
  <2>5. View(n) = [calls[q] EXCEPT !.reply = "failed"]
    BY <1>2, <2>4
  <2>6. calls' = [calls EXCEPT ![q].reply = "failed"]
    BY <2>2, <2>5, ViewStep
  <2>7. G!Fail(q)
    BY <1>1, <1>2, <2>6 DEF G!Fail, G!Open, G!Unsent, calls
  <2> QED
    BY <2>7 DEF G!Next
<1> QED
  BY <1>3, <1>4

-----------------------------------------------------------------------------

LEMMA GatewayInit == ProxyInit => G!Init
<1> SUFFICES ASSUME ProxyInit PROVE G!Init
  OBVIOUS
<1>1. /\ NewRequest.kind = "unread" /\ NewRequest.sent = <<>> /\ NewRequest.status = 0
      /\ NewRequest.servedBy = None
  BY DEF NewRequest
<1>2. Repeatable(NewRequest) = FALSE
  BY <1>1 DEF Repeatable, Kinds
<1>3. Reply(NewRequest) = "none"
  BY <1>1, ReplyFacts
<1>4. View(NewRequest) = [repeatable |-> FALSE, sent |-> <<>>, from |-> None, reply |-> "none"]
  BY <1>1, <1>2, <1>3, Zenon DEF View
<1> QED
  BY <1>4, Zenon DEF ProxyInit, G!Init

LEMMA GatewayStep == ProxyInv /\ [ProxyNext]_proxyVars => [G!Next]_calls
<1> SUFFICES ASSUME ProxyInv, [ProxyNext]_proxyVars PROVE [G!Next]_calls
  OBVIOUS
<1>1. CASE UNCHANGED proxyVars \/ PoolStep
  BY <1>1 DEF proxyVars, PoolStep, calls
<1>2. ASSUME NEW q \in Requests, Reject(q) \/ Admit(q) \/ HandlerStep(q) \/ Leave(q)
      PROVE  [G!Next]_calls
  BY <1>2, QuietSteps, AdmissionViews, SendViews, ReplyViews DEF HandlerStep
<1> QED
  BY <1>1, <1>2 DEF ProxyNext

\* For any number of calls and endpoints: the request path of the program,
\* over the pool it reads, implements Gateway.
THEOREM ProxyImplementsGateway == ProxySafeSpec => ImplementsGateway
<1>1. ProxyInv /\ [ProxyNext]_proxyVars => [G!Next]_calls
  BY GatewayStep
<1>2. G!Spec <=> G!Init /\ [][G!Next]_calls
  BY PTL DEF G!Spec, calls
<1> QED
  BY <1>1, <1>2, GatewayInit, ProxyInvariant, PTL DEF ProxySafeSpec, ImplementsGateway

-----------------------------------------------------------------------------
(* Clients that have left *)

\* A handler that found its client gone at its first failure, or is about to.
Abandoned(q) ==
  /\ req[q].gone /\ Len(req[q].sent) = 1
  /\ req[q].pc \in {"failed", "reporting", "done"}

LEMMA AbandonedStep ==
  ASSUME ProxyInv, NEW q \in Requests, Abandoned(q), [ProxyNext]_proxyVars
  PROVE  Abandoned(q)'
<1>0. req \in [Requests -> RequestRecord] /\ req[q] \in RequestRecord
  BY DEF ProxyInv
<1>1. CASE req' = req
  BY <1>1 DEF Abandoned
<1>2. ASSUME NEW p \in Requests, p # q, NEW n, Become(p, n)
      PROVE  Abandoned(q)'
  BY <1>0, <1>2 DEF Become, Abandoned
<1>3. CASE CountFailure(q)
  <2> DEFINE counted == Append(req[q].counted, Reason(req[q].err))
  <2>1. Become(q, [req[q] EXCEPT !.pc = "reporting", !.counted = counted])
    BY <1>3 DEF CountFailure, Abandoned
  <2> HIDE DEF counted
  <2> QED
    BY <1>0, <2>1 DEF Become, Abandoned, RequestRecord
<1>4. CASE GiveUp(q)
  BY <1>0, <1>4 DEF GiveUp, Become, Abandoned, RequestRecord
<1>5. CASE ReportError(q)
  <2> DEFINE counted == Append(req[q].counted, Reason(req[q].err))
             status == ErrorStatus(req[q].err)
  <2>1. Become(q, [req[q] EXCEPT !.pc = "done", !.status = status, !.counted = counted,
                                 !.observed = @ + 1])
    BY <1>5 DEF ReportError
  <2> HIDE DEF counted, status
  <2> QED
    BY <1>0, <2>1 DEF Become, Abandoned, RequestRecord
<1>6. CASE UNCHANGED proxyVars \/ PoolStep
  BY <1>1, <1>6 DEF proxyVars, PoolStep
<1>7. ASSUME NEW p \in Requests, Reject(p) \/ Admit(p) \/ HandlerStep(p) \/ Leave(p)
      PROVE  Abandoned(q)'
  <2>1. CASE p = q
    <3>1. CountFailure(q) \/ GiveUp(q) \/ ReportError(q)
      BY <1>7, <2>1 DEF HandlerStep, Abandoned, Reject, Admit, Leave, Choose, ChooseNone,
         ForwardAnswers, ForwardFails, Retry, RetryNone, WriteHead, Stream
    <3> QED
      BY <3>1, <1>3, <1>4, <1>5
  <2>2. CASE p # q
    <3>1. \E n : Become(p, n)
      BY <1>7 DEF HandlerStep, Reject, Admit, Leave, Choose, ChooseNone,
         ForwardAnswers, ForwardFails, Retry, RetryNone, WriteHead, Stream,
         CountFailure, GiveUp, ReportError
    <3> QED
      BY <3>1, <2>2, <1>2
  <2> QED
    BY <2>1, <2>2
<1> QED
  BY <1>6, <1>7 DEF ProxyNext

\* Once a client has gone before its first failure is handled, its body is sent
\* to nobody else, however long the handler still runs.
THEOREM GoneClientIsNotRetried == ProxySafeSpec => GoneClientsAreNotRetried
<1> SUFFICES ASSUME NEW q \in Requests
             PROVE  ProxySafeSpec =>
                      [](req[q].pc = "failed" /\ FirstAttempt(q) /\ req[q].gone
                           => [](Len(req[q].sent) = 1))
  BY DEF GoneClientsAreNotRetried
<1> DEFINE GaveUp == req[q].pc = "failed" /\ FirstAttempt(q) /\ req[q].gone
           Once == Len(req[q].sent) = 1
<1>1. GaveUp => Abandoned(q)
  BY DEF FirstAttempt, Abandoned
<1>2. ProxyInv /\ Abandoned(q) /\ [ProxyNext]_proxyVars => Abandoned(q)'
  BY AbandonedStep
<1>3. Abandoned(q) => Once
  BY DEF Abandoned
<1>4. ProxySafeSpec => [](GaveUp => []Once)
  <2> HIDE DEF GaveUp, Once
  <2> QED
    BY <1>1, <1>2, <1>3, ProxyInvariant, PTL DEF ProxySafeSpec
<1> QED
  BY <1>4

-----------------------------------------------------------------------------
(* The mesh: the invariant of the handlers holds under the checker's own    *)
(* cycles, and the pool follows nodes that are at rest.                     *)

\* A streak that has reached its threshold has decided.
StreaksDecide ==
  \A e \in Endpoints :
    /\ ep[e].consecFails >= FailThreshold => ep[e].healthy = FALSE
    /\ ep[e].consecOKs >= OKThreshold => ep[e].healthy = TRUE

SeenOK ==
  /\ node \in [Endpoints -> {"up", "behind", "down"}]
  /\ DOMAIN seen \subseteq Endpoints
  /\ seen = [e \in DOMAIN seen |-> seen[e]] /\ \A e \in DOMAIN seen : seen[e] \in Results

MeshInv == ProxyInv /\ StreaksDecide /\ SeenOK

\* What a probe that failed and one that succeeded leave behind.
LEMMA RecordedStreaks ==
  ASSUME NEW st \in EndpointRecord, NEW r \in Results
  PROVE  LET n == Recorded(st, r) IN
         /\ r.err = NoErr =>
              /\ n.consecFails = 0 /\ n.consecOKs = Bump(st.consecOKs)
              /\ n.lastErr = NoErr /\ n.slot = r.slot
              /\ n.consecOKs >= OKThreshold => n.healthy = TRUE
         /\ r.err # NoErr =>
              /\ n.consecOKs = 0 /\ n.consecFails = Bump(st.consecFails)
              /\ n.consecFails >= FailThreshold => n.healthy = FALSE
<1>1. CASE r.err = NoErr
  <2>1. Recorded(st, r) = RecordSuccess(st, r)
    BY <1>1 DEF Recorded
  <2> QED
    BY <1>1, <2>1 DEF RecordSuccess
<1>2. CASE r.err # NoErr
  <2>1. Recorded(st, r) = RecordFailure(st, r)
    BY <1>2 DEF Recorded
  <2> QED
    BY <1>2, <2>1 DEF RecordFailure
<1> QED
  BY <1>1, <1>2

LEMMA StreaksStep ==
  ASSUME TypeOK, NEW results \in [Endpoints -> Results], ApplyProbes(results)
  PROVE  StreaksDecide'
<1> SUFFICES ASSUME NEW e \in Endpoints
             PROVE  /\ ep'[e].consecFails >= FailThreshold => ep'[e].healthy = FALSE
                    /\ ep'[e].consecOKs >= OKThreshold => ep'[e].healthy = TRUE
  BY DEF StreaksDecide
<1>1. ep'[e] = Recorded(ep[e], results[e])
  BY DEF ApplyProbes
<1>2. ep[e] \in EndpointRecord /\ results[e] \in Results
  BY DEF TypeOK
<1>3. ~ (0 >= FailThreshold) /\ ~ (0 >= OKThreshold)
  BY PoolAssumption
<1> DEFINE n == Recorded(ep[e], results[e])
<1>4. /\ results[e].err = NoErr =>
           /\ n.consecFails = 0
           /\ n.consecOKs >= OKThreshold => n.healthy = TRUE
      /\ results[e].err # NoErr =>
           /\ n.consecOKs = 0
           /\ n.consecFails >= FailThreshold => n.healthy = FALSE
  BY <1>2, RecordedStreaks
<1> HIDE DEF n
<1>5. n.consecFails >= FailThreshold => n.healthy = FALSE
  BY <1>3, <1>4
<1>6. n.consecOKs >= OKThreshold => n.healthy = TRUE
  BY <1>3, <1>4
<1> QED
  BY <1>1, <1>5, <1>6 DEF n

\* What a probe can find is a result, and what it says of the node.
LEMMA FoundFacts ==
  ASSUME SeenOK, NEW e \in Endpoints, NEW r \in Found(e)
  PROVE  /\ r \in Results
         /\ node[e] = "down" => r.err # NoErr
         /\ node[e] # "down" => r.err = NoErr
         /\ node[e] = "up" => r.slot = Tip
         /\ node[e] = "behind" => r.slot = Stuck
<1>1. node[e] \in {"up", "behind", "down"}
  BY DEF SeenOK
<1>2. CASE node[e] = "up"
  BY <1>2 DEF Found, Successes, Results
<1>3. CASE node[e] = "behind"
  BY <1>3 DEF Found, Successes, Results
<1>4. CASE node[e] = "down"
  BY <1>4, PoolAssumption DEF Found, Failures, Results
<1> QED
  BY <1>1, <1>2, <1>3, <1>4

LEMMA HandlerKeepsPool ==
  ASSUME NEW q \in Requests, HandlerStep(q) PROVE UNCHANGED poolVars
BY DEF HandlerStep, Choose, ChooseNone, ForwardAnswers, ForwardFails, CountFailure, GiveUp,
       Retry, RetryNone, ReportError, WriteHead, Stream, Become

\* The cycle that is written is one of whole results.
LEMMA AppliedIsWhole ==
  ASSUME MeshInv, Apply
  PROVE  seen \in [Endpoints -> Results] /\ ApplyProbes(seen)
BY DEF Apply, MeshInv, SeenOK

LEMMA SeenStep ==
  ASSUME SeenOK, [MeshNext]_meshVars PROVE SeenOK'
<1>1. CASE seen' = [e \in {} |-> Failures] /\ node' = node
  BY <1>1 DEF SeenOK
<1>2. CASE UNCHANGED <<seen, node>>
  BY <1>2 DEF SeenOK
<1>3. ASSUME NEW e \in Endpoints, NodeChanges(e) PROVE SeenOK'
  BY <1>3 DEF SeenOK, NodeChanges
<1>4. ASSUME NEW e \in Endpoints, Observe(e) PROVE SeenOK'
  <2>1. PICK r \in Found(e) :
          seen' = [x \in DOMAIN seen \cup {e} |-> IF x = e THEN r ELSE seen[x]]
    BY <1>4 DEF Observe
  <2>2. r \in Results
    BY FoundFacts
  <2>3. node' = node
    BY <1>4 DEF Observe
  <2>4. DOMAIN seen' = DOMAIN seen \cup {e} /\ \A x \in DOMAIN seen' : seen'[x] \in Results
    BY <2>1, <2>2 DEF SeenOK
  <2>5. seen' = [x \in DOMAIN seen' |-> seen'[x]]
    BY <2>1
  <2> QED
    BY <2>3, <2>4, <2>5 DEF SeenOK
<1> QED
  BY <1>1, <1>2, <1>3, <1>4
  DEF MeshNext, meshVars, Apply, Signal, Arrive, Handle, Renew

LEMMA MeshStep == MeshInv /\ [MeshNext]_meshVars => MeshInv'
<1> SUFFICES ASSUME MeshInv, [MeshNext]_meshVars PROVE MeshInv'
  OBVIOUS
<1>0. SeenOK'
  BY SeenStep DEF MeshInv
<1>1. CASE Apply
  <2>1. seen \in [Endpoints -> Results] /\ ApplyProbes(seen)
    BY <1>1, AppliedIsWhole
  <2>2. PoolStep
    BY <1>1, <2>1 DEF PoolStep, BatchNext, Apply
  <2>3. ProxyInv'
    BY <2>2, ProxyStep DEF ProxyNext, MeshInv
  <2>4. StreaksDecide'
    BY <2>1, StreaksStep DEF MeshInv, ProxyInv, BatchInv, PoolInv
  <2> QED
    BY <1>0, <2>3, <2>4 DEF MeshInv
<1>2. CASE UNCHANGED proxyVars
  <2>1. ProxyInv'
    BY <1>2, ProxyStep DEF MeshInv
  <2> QED
    BY <1>0, <1>2, <2>1 DEF MeshInv, StreaksDecide, proxyVars
<1>3. ASSUME NEW q \in Requests, Admit(q) \/ HandlerStep(q) PROVE MeshInv'
  <2>1. ProxyInv'
    BY <1>3, ProxyStep DEF ProxyNext, MeshInv
  <2>2. UNCHANGED poolVars
    BY <1>3, HandlerKeepsPool DEF Admit, Become
  <2> QED
    BY <1>0, <2>1, <2>2 DEF MeshInv, StreaksDecide, poolVars
<1>4. ASSUME NEW q \in Requests, Renew(q) PROVE MeshInv'
  <2>1. Become(q, NewRequest)
    BY <1>4 DEF Renew
  <2>2. ProxyInv'
    BY <2>1, NewRequestOK, BecomeStep DEF MeshInv
  <2> QED
    BY <1>0, <2>1, <2>2 DEF MeshInv, StreaksDecide, poolVars, Become
<1> QED
  BY <1>1, <1>2, <1>3, <1>4
  DEF MeshNext, meshVars, proxyVars, Signal, Observe, NodeChanges, Arrive, Handle

LEMMA MeshInitInv == MeshInit => MeshInv
<1> SUFFICES ASSUME MeshInit PROVE MeshInv
  OBVIOUS
<1>1. ProxyInv
  BY ProxyInitInv DEF MeshInit
<1>2. StreaksDecide
  BY PoolAssumption DEF MeshInit, ProxyInit, PoolInit, StreaksDecide
<1>3. SeenOK
  BY DEF MeshInit, SeenOK
<1> QED
  BY <1>1, <1>2, <1>3 DEF MeshInv

\* The step of the pool by one endpoint of a settled mesh, in numbers.
LEMMA BumpFacts ==
  ASSUME NEW n \in 0 .. CounterCap, NEW m \in 0 .. CounterCap
  PROVE  /\ Bump(n) \in 0 .. CounterCap /\ n <= Bump(n)
         /\ n <= m => Bump(n) <= Bump(m)
BY PoolAssumption DEF Bump

\* A cycle that is written takes a settled pool one further.
LEMMA SettledByCycle ==
  ASSUME MeshInv, Apply, node' = node, NEW n \in 0 .. CounterCap, Settled(n),
         NEW m \in 0 .. CounterCap, m <= Bump(n)
  PROVE  Settled(m)'
<1>1. seen \in [Endpoints -> Results] /\ ApplyProbes(seen)
  BY AppliedIsWhole
<1>2. DOMAIN seen' = {} /\ SeenOK /\ TypeOK
  BY DEF Apply, MeshInv, ProxyInv, BatchInv, PoolInv
<1>3. ASSUME NEW e \in Endpoints
      PROVE  /\ node[e] = "down" => ep'[e].consecFails >= m
             /\ node[e] # "down" => ep'[e].consecOKs >= m /\ ep'[e].lastErr = NoErr
             /\ node[e] = "up" => ep'[e].slot = Tip
             /\ node[e] = "behind" => ep'[e].slot = Stuck
  <2> DEFINE st == ep[e]
             r == seen[e]
  <2>1. st \in EndpointRecord /\ r \in Results /\ ep'[e] = Recorded(st, r)
    BY <1>1, <1>2 DEF ApplyProbes, TypeOK
  <2>2. /\ node[e] = "down" => r.err # NoErr
        /\ node[e] # "down" => r.err = NoErr
        /\ node[e] = "up" => r.slot = Tip
        /\ node[e] = "behind" => r.slot = Stuck
    BY <1>1, <1>2, FoundFacts DEF Settled
  <2>3. /\ st.consecFails \in 0 .. CounterCap /\ st.consecOKs \in 0 .. CounterCap
        /\ node[e] = "down" => n <= st.consecFails
        /\ node[e] # "down" => n <= st.consecOKs
    BY <2>1, PoolAssumption DEF Settled, EndpointRecord
  <2>4. /\ Bump(n) \in Nat /\ Bump(st.consecFails) \in Nat /\ Bump(st.consecOKs) \in Nat
        /\ node[e] = "down" => Bump(n) <= Bump(st.consecFails)
        /\ node[e] # "down" => Bump(n) <= Bump(st.consecOKs)
    BY <2>3, BumpFacts
  <2>5. /\ r.err = NoErr =>
             /\ Recorded(st, r).consecOKs = Bump(st.consecOKs)
             /\ Recorded(st, r).lastErr = NoErr /\ Recorded(st, r).slot = r.slot
        /\ r.err # NoErr => Recorded(st, r).consecFails = Bump(st.consecFails)
    BY <2>1, RecordedStreaks
  <2>6. m \in Nat /\ m <= Bump(n)
    BY PoolAssumption
  <2> HIDE DEF st, r
  <2> QED
    BY <2>1, <2>2, <2>4, <2>5, <2>6
<1> QED
  BY <1>2, <1>3 DEF Settled

\* The first cycle written while the nodes rest: the next starts afresh.
LEMMA SettledAtFirst == ASSUME Apply PROVE Settled(0)'
BY DEF Apply, Settled

LEMMA SettledStays ==
  ASSUME MeshInv, MeshNext, node' = node, NEW n \in 0 .. CounterCap, Settled(n)
  PROVE  Settled(n)'
<1>1. CASE Apply
  <2>1. n <= Bump(n)
    BY BumpFacts
  <2> QED
    BY <1>1, <2>1, SettledByCycle
<1>2. CASE UNCHANGED <<ep, seen>>
  BY <1>2 DEF Settled, Found
<1>3. ASSUME NEW e \in Endpoints, Observe(e) PROVE Settled(n)'
  <2>1. PICK r \in Found(e) :
          seen' = [x \in DOMAIN seen \cup {e} |-> IF x = e THEN r ELSE seen[x]]
    BY <1>3 DEF Observe
  <2>2. ep' = ep
    BY <1>3 DEF Observe
  <2>3. \A x \in DOMAIN seen' : seen'[x] \in Found(x)
    BY <2>1 DEF Settled
  <2>4. \A x : Found(x)' = Found(x)
    BY DEF Found
  <2> QED
    BY <2>2, <2>3, <2>4 DEF Settled
<1>4. CASE \E q \in Requests : Arrive(q) \/ Handle(q) \/ Renew(q)
  <2>1. UNCHANGED <<ep, seen>>
    BY <1>4, HandlerKeepsPool DEF Arrive, Admit, Handle, Renew, Become, poolVars
  <2> QED
    BY <1>2, <2>1
<1> QED
  BY <1>1, <1>2, <1>3, <1>4 DEF MeshNext, Signal, NodeChanges

LEMMA LargerThreshold ==
  LET k == Max({FailThreshold, OKThreshold}) IN
  k \in 0 .. CounterCap /\ k > 0 /\ k >= FailThreshold /\ k >= OKThreshold
<1> DEFINE S == {FailThreshold, OKThreshold}
<1>1. \E x \in S : \A y \in S : x >= y
  BY PoolAssumption
<1>2. Max(S) \in S /\ \A y \in S : Max(S) >= y
  BY <1>1 DEF Max
<1> QED
  BY <1>2, PoolAssumption

\* Who is in rotation in a settled pool, and what the watermark is.
LEMMA SettledPool ==
  ASSUME MeshInv, Settled(Max({FailThreshold, OKThreshold}))
  PROVE  /\ \A e \in Endpoints : ep[e].healthy <=> e \in Live
         /\ \A e \in Live : ep[e].slot = (IF node[e] = "up" THEN Tip ELSE Stuck)
         /\ Live # {} => maxSlot = (IF \E e \in Endpoints : node[e] = "up" THEN Tip ELSE Stuck)
<1> DEFINE k == Max({FailThreshold, OKThreshold})
<1>1. k \in Nat /\ k > 0 /\ k >= FailThreshold /\ k >= OKThreshold
  BY LargerThreshold, PoolAssumption
<1> HIDE DEF k
<1>2. \A e \in Endpoints :
        /\ ep[e].consecFails \in Nat /\ ep[e].consecOKs \in Nat
        /\ ep[e].healthy \in BOOLEAN /\ maxSlot \in Nat
  BY PoolAssumption DEF MeshInv, ProxyInv, BatchInv, PoolInv, TypeOK, EndpointRecord
<1>3. \A e \in Endpoints :
        /\ node[e] = "down" => ep[e].consecFails >= k
        /\ node[e] # "down" => ep[e].consecOKs >= k /\ ep[e].lastErr = NoErr
        /\ node[e] = "up" => ep[e].slot = Tip
        /\ node[e] = "behind" => ep[e].slot = Stuck
        /\ node[e] \in {"up", "behind", "down"}
  BY <1>1 DEF Settled, k, MeshInv, SeenOK
<1>4. ASSUME NEW e \in Endpoints PROVE ep[e].healthy <=> e \in Live
  <2>1. FailThreshold \in Nat /\ OKThreshold \in Nat
    BY PoolAssumption
  <2>2. CASE node[e] = "down"
    <3>1. ep[e].consecFails >= FailThreshold
      BY <1>1, <1>2, <1>3, <2>1, <2>2
    <3> QED
      BY <2>2, <3>1 DEF MeshInv, StreaksDecide, Live
  <2>3. CASE node[e] # "down"
    <3>1. ep[e].consecOKs >= OKThreshold
      BY <1>1, <1>2, <1>3, <2>1, <2>3
    <3> QED
      BY <2>3, <3>1 DEF MeshInv, StreaksDecide, Live
  <2> QED
    BY <2>2, <2>3
<1>5. \A e \in Live : ep[e].slot = (IF node[e] = "up" THEN Tip ELSE Stuck)
  BY <1>3 DEF Live
<1>6. Reporting(ep) = Live
  <2>1. \A e \in Live : ep[e].lastErr = NoErr
    BY <1>3 DEF Live
  <2>2. Live \subseteq Endpoints
    BY DEF Live
  <2> QED
    BY <1>4, <2>1, <2>2 DEF Reporting
<1>7. ASSUME Live # {}
      PROVE  maxSlot = (IF \E e \in Endpoints : node[e] = "up" THEN Tip ELSE Stuck)
  <2>1. Tip \in Nat /\ Stuck \in Nat /\ 0 < Stuck /\ Stuck < Tip
    BY PoolAssumption, MeshAssumption
  <2>2. \A e \in Live : ep[e].slot > 0 /\ ep[e].slot <= maxSlot
    BY <1>5, <1>6, <2>1 DEF MeshInv, ProxyInv, BatchInv, PoolInv, WatermarkIsLive
  <2>3. PICK w \in Live : ep[w].slot = maxSlot
    BY <1>6, <1>7, <2>2 DEF MeshInv, ProxyInv, BatchInv, PoolInv, WatermarkIsLive
  <2>4. CASE \E e \in Endpoints : node[e] = "up"
    <3>1. PICK e \in Endpoints : node[e] = "up"
      BY <2>4
    <3>2. e \in Live
      BY <3>1 DEF Live
    <3>3. Tip <= maxSlot
      BY <1>5, <2>2, <3>1, <3>2
    <3>4. maxSlot = Tip \/ maxSlot = Stuck
      BY <1>5, <2>3
    <3> QED
      BY <2>1, <2>4, <3>3, <3>4
  <2>5. CASE ~ \E e \in Endpoints : node[e] = "up"
    BY <1>5, <2>3, <2>5 DEF Live
  <2> QED
    BY <2>4, <2>5
<1> QED
  BY <1>4, <1>5, <1>7

\* So the selection finds the best nodes current, and there is no other choice.
LEMMA SettledSelection ==
  ASSUME MeshInv, Settled(Max({FailThreshold, OKThreshold})), NEW s \in Select
  PROVE  /\ Live # {} => s.endpoint \in Best /\ s.degraded = FALSE /\ s # ErrNoEndpoints
         /\ Live = {} => s = ErrNoEndpoints
<1>1. Candidates(None) = Live
  BY SettledPool, PoolAssumption DEF Candidates, Live
<1>2. CASE Live = {}
  BY <1>1, <1>2, SelectCases DEF Select, Current, Lagging
<1>3. CASE Live # {}
  <2>1. /\ Tip \in Nat /\ Stuck \in Nat /\ 0 < Stuck /\ Stuck + MaxSlotLag < Tip
        /\ MaxSlotLag \in Nat
    BY PoolAssumption, MeshAssumption
  <2>2. Current(None) = Best
    <3>1. CASE \E e \in Endpoints : node[e] = "up"
      <4>1. maxSlot = Tip
        BY <1>3, <3>1, SettledPool
      <4>2. \A e \in Live : SlotLag(e) = (IF node[e] = "up" THEN 0 ELSE Tip - Stuck)
        BY <2>1, <4>1, SettledPool DEF SlotLag
      <4>3. Current(None) = {e \in Live : node[e] = "up"}
        BY <1>1, <2>1, <4>2 DEF Current
      <4>4. Best = {e \in Endpoints : node[e] = "up"}
        BY <3>1 DEF Best
      <4> QED
        BY <4>3, <4>4 DEF Live
    <3>2. CASE ~ \E e \in Endpoints : node[e] = "up"
      <4>1. maxSlot = Stuck
        BY <1>3, <3>2, SettledPool
      <4>2. \A e \in Live : SlotLag(e) = 0
        BY <2>1, <3>2, <4>1, SettledPool DEF SlotLag, Live
      <4>3. Current(None) = Live
        BY <1>1, <2>1, <4>2 DEF Current
      <4> QED
        BY <3>2, <4>3 DEF Best
    <3> QED
      BY <3>1, <3>2
  <2>3. Best # {}
    BY <1>3 DEF Best
  <2>4. s.endpoint \in Current(None) /\ s.degraded = FALSE
    BY <2>2, <2>3, SelectCases DEF Select
  <2>5. s.endpoint # None
    BY <2>4, PoolAssumption DEF Current, Candidates
  <2> QED
    BY <1>3, <2>2, <2>4, <2>5 DEF ErrNoEndpoints
<1> QED
  BY <1>2, <1>3

\* A first choice in a settled mesh.
LEMMA SettledChoice ==
  ASSUME MeshInv, Settled(Max({FailThreshold, OKThreshold})), NEW q \in Requests
  PROVE  /\ Choose(q) => req'[q].endpoint \in Best /\ ~ req'[q].stale
         /\ ChooseNone(q) => Live = {}
<1>1. ASSUME Choose(q) PROVE req'[q].endpoint \in Best /\ ~ req'[q].stale
  <2>1. PICK s \in Select \ {ErrNoEndpoints} :
          Become(q, [SendTo(req[q], s) EXCEPT
                       !.degraded = s.degraded,
                       !.degradedSeen = IF s.degraded THEN @ + 1 ELSE @])
    BY <1>1 DEF Choose
  <2>2. s.endpoint \in Best /\ s.degraded = FALSE
    BY SettledSelection
  <2>3. req[q] \in RequestRecord /\ req \in [Requests -> RequestRecord]
    BY DEF MeshInv, ProxyInv
  <2>4. req'[q].endpoint = s.endpoint /\ req'[q].stale = s.degraded
    BY <2>1, <2>3 DEF Become, SendTo, RequestRecord
  <2> QED
    BY <2>2, <2>4
<1>2. ASSUME ChooseNone(q) PROVE Live = {}
  BY <1>2, SettledSelection DEF ChooseNone
<1> QED
  BY <1>1, <1>2

\* For all thresholds, endpoints, latencies and requests: nodes at rest are
\* followed a cycle further with each one written, no step undoes it, and after as
\* many cycles as the larger threshold a first choice is one of the best nodes, or
\* there is none to choose. Which leaves to fairness only that cycles are written.
THEOREM MeshSettlesInCycles == MeshSafeSpec => SettlesInCycles
<1>1. MeshSafeSpec => []MeshInv
  BY MeshInitInv, MeshStep, PTL DEF MeshSafeSpec
<1>2. ASSUME MeshInv, [MeshNext]_meshVars, ~ UNCHANGED meshVars
      PROVE  /\ node' = node =>
                  /\ Apply => Settled(0)'
                  /\ \A n \in 0 .. CounterCap :
                       Settled(n) => Settled(n)' /\ (Apply => Settled(Bump(n))')
             /\ Settled(Max({FailThreshold, OKThreshold})) =>
                  \A q \in Requests :
                    /\ Choose(q) => req'[q].endpoint \in Best /\ ~ req'[q].stale
                    /\ ChooseNone(q) => Live = {}
  <2>1. ASSUME Apply PROVE Settled(0)'
    BY <2>1, SettledAtFirst
  <2>2. ASSUME node' = node, NEW n \in 0 .. CounterCap, Settled(n)
        PROVE  Settled(n)' /\ (Apply => Settled(Bump(n))')
    <3>1. Settled(n)'
      BY <1>2, <2>2, SettledStays
    <3>2. Bump(n) \in 0 .. CounterCap /\ Bump(n) <= Bump(n)
      BY BumpType, PoolAssumption
    <3> QED
      BY <1>2, <2>2, <3>1, <3>2, SettledByCycle
  <2> QED
    BY <1>2, <2>1, <2>2, SettledChoice
<1> QED
  BY <1>1, <1>2, PTL DEF MeshSafeSpec, SettlesInCycles

\* All that is proved of the handlers holds under the checker's own cycles, with
\* nodes that come and go, a signal, and a client that asks again.
THEOREM MeshKeepsProxySafe ==
  MeshSafeSpec => [](/\ WritesAreSentOnce /\ RetriesGoElsewhere /\ AnswersAreTruthful
                     /\ RequestsAreAccounted /\ AppErrorsAreCounted /\ NeverDegraded)
<1>1. MeshInv => /\ WritesAreSentOnce /\ RetriesGoElsewhere /\ AnswersAreTruthful
                 /\ RequestsAreAccounted /\ AppErrorsAreCounted /\ NeverDegraded
  BY ProxyInvShows DEF MeshInv
<1> QED
  BY <1>1, MeshInitInv, MeshStep, PTL DEF MeshSafeSpec

=============================================================================
