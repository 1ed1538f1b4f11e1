------------------------------ MODULE Gateway ------------------------------
(***************************************************************************)
(* What rpc-mesh promises the client of a call and the upstreams: a call   *)
(* goes to one endpoint, or to two if it may be repeated; and it gets one  *)
(* reply, which is final and names the endpoint the call went to last.     *)
(***************************************************************************)
EXTENDS Integers, Sequences

CONSTANTS
  Requests,   \* the calls
  Endpoints,  \* the upstreams
  None        \* nobody

VARIABLE call  \* what is known of every call outside the program

\* `reply` is what the client has been told, `from` the upstream it is told of.
CallRecord ==
  [repeatable : BOOLEAN, sent : Seq(Endpoints), from : Endpoints \cup {None},
   reply : {"none", "answered", "failed", "refused"}]

Init ==
  call = [q \in Requests |-> [repeatable |-> FALSE, sent |-> <<>>, from |-> None, reply |-> "none"]]

Open(q) == call[q].reply = "none"

Unsent(q) == call[q].sent = <<>>

\* A call turns out to be one that may be repeated, before it has gone anywhere.
Receive(q) ==
  /\ Open(q) /\ Unsent(q)
  /\ call' = [call EXCEPT ![q].repeatable = TRUE]

Send(q, e) ==
  /\ Open(q)
  /\ \/ Unsent(q)
     \/ call[q].repeatable /\ Len(call[q].sent) = 1 /\ call[q].sent[1] # e
  /\ call' = [call EXCEPT ![q].sent = Append(@, e)]

\* The answer is that of the endpoint it went to last.
Answer(q) ==
  /\ Open(q) /\ ~ Unsent(q)
  /\ call' = [call EXCEPT ![q].reply = "answered", ![q].from = call[q].sent[Len(call[q].sent)]]

Fail(q) ==
  /\ Open(q) /\ ~ Unsent(q)
  /\ call' = [call EXCEPT ![q].reply = "failed"]

\* Without any endpoint's doing.
Refuse(q) ==
  /\ Open(q) /\ Unsent(q)
  /\ call' = [call EXCEPT ![q].reply = "refused"]

Next ==
  \E q \in Requests :
    \/ Receive(q) \/ Answer(q) \/ Fail(q) \/ Refuse(q)
    \/ \E e \in Endpoints : Send(q, e)

Spec == Init /\ [][Next]_call

=============================================================================
