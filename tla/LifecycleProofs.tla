-------------------------- MODULE LifecycleProofs --------------------------
(***************************************************************************)
(* What the shutdown of Lifecycle promises, for any requests and limits.   *)
(***************************************************************************)
EXTENDS Lifecycle, TLAPS

\* Limits are numbers.
LEMMA LimitType ==
  ASSUME NEW q \in Requests
  PROVE  Limit(q) \in Nat
BY LifecycleAssumption DEF Limit

\* The strengthening: a request in flight during the drain was accepted before
\* it began, so it is at least as old as the drain; after the drain nobody is
\* in flight; a request was dropped only by an expired drain, while in flight,
\* and a port that is not to be had drops nobody.
DrainInv ==
  /\ LifecycleTypeOK
  /\ phase = "draining" =>
       clock <= DrainLimit /\ \A q \in Active \ Stalled : clock <= age[q]
  /\ phase = "waiting" => clock <= WaitLimit /\ Active = {}
  /\ \A q \in Requests : request[q] = "dropped" =>
       exit = "failed" /\ phase = "exited" /\ (q \in Stalled \/ DrainLimit <= age[q])
  /\ phase # "exited" => exit = "none"
  /\ ~ bound => Active = {}

LEMMA DrainInit == Init => DrainInv
<1> SUFFICES ASSUME Init PROVE DrainInv
  OBVIOUS
<1>1. \A q \in Requests : Limit(q) \in Nat
  BY LimitType
<1>2. LifecycleTypeOK
  <2>1. \A q \in Requests : age[q] = 0 /\ age[q] <= Limit(q)
    BY <1>1 DEF Init
  <2>2. age \in [Requests -> Nat] /\ clock \in 0 .. DrainLimit + WaitLimit
    BY LifecycleAssumption DEF Init
  <2> QED
    BY <2>1, <2>2 DEF Init, LifecycleTypeOK
<1> QED
  BY <1>2 DEF Init, DrainInv, Active

LEMMA DrainStep == DrainInv /\ [Next]_vars => DrainInv'
<1> SUFFICES ASSUME DrainInv, [Next]_vars PROVE DrainInv'
  OBVIOUS
<1> USE DEF DrainInv, LifecycleTypeOK, Active
<1>0. /\ DrainLimit \in Nat /\ WaitLimit \in Nat
      /\ \A q \in Requests : Limit(q) \in Nat
  BY LimitType, LifecycleAssumption
<1>1. CASE UNCHANGED vars
  BY <1>1 DEF vars
<1>2. ASSUME NEW q \in Requests, Arrive(q) PROVE DrainInv'
  BY <1>2 DEF Arrive
<1>3. ASSUME NEW q \in Requests, Answer(q) PROVE DrainInv'
  BY <1>3 DEF Answer
<1>4. CASE Signal \/ Listen
  BY <1>4 DEF Signal, Listen
<1>5. CASE CheckerStops
  BY <1>5 DEF CheckerStops
<1>6. CASE BeginDrain
  BY <1>6, <1>0 DEF BeginDrain
<1>7. CASE Drained
  BY <1>7, <1>0 DEF Drained
<1>8. CASE DrainExpires
  <2>1. \A q \in Active \ Stalled : DrainLimit <= age[q]
    BY <1>8 DEF DrainExpires
  <2> QED
    BY <1>8, <2>1 DEF DrainExpires, ExitWith
<1>9. CASE CheckerJoined
  BY <1>9 DEF CheckerJoined, ExitWith
<1>10. CASE WaitExpires
  BY <1>10 DEF WaitExpires, ExitWith
<1>11. CASE Tick
  <2>1. /\ \A q \in Requests :
             /\ age'[q] \in Nat /\ age[q] <= age'[q] /\ age'[q] <= Limit(q)
             /\ q \in Active \ Stalled => age'[q] = age[q] + 1
        /\ age' \in [Requests -> Nat]
    BY <1>11, <1>0 DEF Tick, Older
  <2>2. clock' \in 0 .. DrainLimit + WaitLimit
    BY <1>11, <1>0 DEF Tick
  <2> QED
    BY <1>11, <1>0, <2>1, <2>2 DEF Tick
<1>12. CASE ListenFails
  BY <1>12 DEF ListenFails, ExitWith
<1> QED
  BY <1>1, <1>2, <1>3, <1>4, <1>5, <1>6, <1>7, <1>8, <1>9, <1>10, <1>11, <1>12 DEF Next

THEOREM DrainInvariant == SafeSpec => []DrainInv
BY DrainInit, DrainStep, PTL DEF SafeSpec

\* The shutdown keeps its types; in particular neither wait is overrun.
THEOREM LifecycleTypeCorrect == SafeSpec => []LifecycleTypeOK
<1>1. DrainInv => LifecycleTypeOK
  BY DEF DrainInv
<1> QED
  BY <1>1, DrainInvariant, PTL

\* A handler faster than the drain always answers, for all values of the three
\* timeouts: a dropped request was as old as the drain is long.
THEOREM ShortRequestsAreAnswered == SafeSpec => []DrainCoversShortRequests
<1>1. DrainInv => DrainCoversShortRequests
  <2> SUFFICES ASSUME DrainInv, NEW q \in Requests \ Stalled, Limit(q) < DrainLimit,
                      request[q] = "dropped"
               PROVE  FALSE
    BY DEF DrainCoversShortRequests
  <2>1. DrainLimit <= age[q] /\ age[q] <= Limit(q) /\ age[q] \in Nat
    BY DEF DrainInv, LifecycleTypeOK
  <2> QED
    BY <2>1, LimitType, LifecycleAssumption
<1> QED
  BY <1>1, DrainInvariant, PTL

\* A clean exit has dropped nobody, even when main gave up on the checker.
THEOREM CleanStopIsClean == SafeSpec => []CleanStopDropsNothing
<1>1. DrainInv => CleanStopDropsNothing
  BY DEF DrainInv, CleanStopDropsNothing
<1> QED
  BY <1>1, DrainInvariant, PTL

=============================================================================
