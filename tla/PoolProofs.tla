----------------------------- MODULE PoolProofs -----------------------------
(***************************************************************************)
(* Proofs about Pool, for every set of endpoints, slots and latencies and  *)
(* every threshold.                                                        *)
(***************************************************************************)
EXTENDS Pool, TLAPS, WellFoundedInduction

\* The watermark's maximum exists: a non-empty set of slots, bounded by the
\* width of a slot, has a largest member, and Max picks it.
LEMMA MaxOfSlots ==
  ASSUME NEW S, S \subseteq 0 .. SlotLimit, S # {}
  PROVE  Max(S) \in S /\ \A y \in S : Max(S) >= y
<1> DEFINE U == {n \in Nat : \A y \in S : n >= y}
<1>1. SlotLimit \in Nat /\ S \subseteq Nat
  BY PoolAssumption
<1>2. U \subseteq Nat /\ SlotLimit \in U
  BY <1>1
<1>3. PICK m \in U : \A n \in U : ~ (<<n, m>> \in OpToRel(<, Nat))
  BY <1>2, WFMin, NatLessThanWellFounded
<1>4. \A n \in U : ~ (n < m)
  BY <1>2, <1>3 DEF OpToRel
<1>5. m \in S
  <2> SUFFICES ASSUME m \notin S PROVE FALSE
    OBVIOUS
  <2>1. \A y \in S : m > y
    BY <1>1, <1>2
  <2>2. m > 0
    <3>1. PICK y \in S : TRUE
      OBVIOUS
    <3> QED
      BY <1>1, <1>2, <2>1, <3>1
  <2>3. m - 1 \in U
    BY <1>1, <1>2, <2>1, <2>2
  <2> QED
    BY <1>2, <1>4, <2>3
<1>6. \A y \in S : m >= y
  BY <1>2
<1> QED
  BY <1>5, <1>6 DEF Max

-----------------------------------------------------------------------------
(* Types *)

\* A weighted average of natural numbers, truncated, is a natural number.
LEMMA SmoothedType ==
  ASSUME NEW old \in Nat, NEW sample \in Nat
  PROVE  Smoothed(old, sample) \in Nat
<1> DEFINE x == AlphaNum * sample + (AlphaDen - AlphaNum) * old
<1>1. AlphaNum \in Nat /\ AlphaDen \in Nat \ {0} /\ AlphaDen - AlphaNum \in Nat
  BY PoolAssumption
<1>2. x \in Nat
  <2>1. AlphaNum * sample \in Nat
    BY <1>1
  <2>2. (AlphaDen - AlphaNum) * old \in Nat
    BY <1>1
  <2> QED
    BY <2>1, <2>2
<1>3. x \div AlphaDen \in Nat
  <2> HIDE DEF x
  <2> QED
    BY <1>1, <1>2
<1> QED
  BY <1>3 DEF Smoothed

LEMMA BumpType ==
  ASSUME NEW n \in 0 .. CounterCap
  PROVE  Bump(n) \in 0 .. CounterCap
BY PoolAssumption DEF Bump

\* A record of well-typed fields is an endpoint's.
LEMMA EndpointRecordType ==
  ASSUME NEW healthy \in BOOLEAN, NEW slot \in 0 .. SlotLimit, NEW ewma \in Nat,
         NEW fails \in 0 .. CounterCap, NEW oks \in 0 .. CounterCap,
         NEW err \in ProbeErrors \cup {NoErr}
  PROVE  [healthy |-> healthy, slot |-> slot, ewma |-> ewma, consecFails |-> fails,
          consecOKs |-> oks, lastErr |-> err, checked |-> TRUE] \in EndpointRecord
BY DEF EndpointRecord

LEMMA RecordedType ==
  ASSUME NEW st \in EndpointRecord, NEW r \in Results
  PROVE  Recorded(st, r) \in EndpointRecord
<1>1. CASE r \in Successes
  <2>0. 0 \in 0 .. CounterCap /\ NoErr \in ProbeErrors \cup {NoErr}
    BY PoolAssumption
  <2>1. r.err = NoErr /\ r.slot \in 0 .. SlotLimit /\ r.latency \in Nat
    BY <1>1, PoolAssumption DEF Successes
  <2>2. Bump(st.consecOKs) \in 0 .. CounterCap
    BY BumpType DEF EndpointRecord
  <2>3. Smoothed(st.ewma, r.latency) \in Nat
    BY <2>1, SmoothedType DEF EndpointRecord
  <2>4. (IF Bump(st.consecOKs) >= OKThreshold THEN TRUE ELSE st.healthy) \in BOOLEAN
    BY DEF EndpointRecord
  <2>5. RecordSuccess(st, r) \in EndpointRecord
    BY <2>1, <2>2, <2>3, <2>4, <2>0, EndpointRecordType, Zenon DEF RecordSuccess
  <2> QED
    BY <2>1, <2>5 DEF Recorded
<1>2. CASE r \in Failures
  <2>0. /\ 0 \in 0 .. CounterCap /\ r.err \in ProbeErrors \cup {NoErr}
        /\ st.slot \in 0 .. SlotLimit /\ st.ewma \in Nat
    BY <1>2, PoolAssumption DEF Failures, EndpointRecord
  <2>1. r.err \in ProbeErrors /\ r.err # NoErr
    BY <1>2, PoolAssumption DEF Failures
  <2>2. Bump(st.consecFails) \in 0 .. CounterCap
    BY BumpType DEF EndpointRecord
  <2>3. (IF Bump(st.consecFails) >= FailThreshold THEN FALSE ELSE st.healthy) \in BOOLEAN
    BY DEF EndpointRecord
  <2>4. RecordFailure(st, r) \in EndpointRecord
    BY <2>0, <2>1, <2>2, <2>3, EndpointRecordType, Zenon DEF RecordFailure
  <2> QED
    BY <2>1, <2>4 DEF Recorded
<1> QED
  BY <1>1, <1>2 DEF Results

-----------------------------------------------------------------------------
(* The watermark *)

\* What recomputeMaxSlotLocked leaves behind: a slot no reporting endpoint is
\* ahead of, held by one of them if any reports a slot, and otherwise the old.
LEMMA Watermark ==
  ASSUME NEW eps \in [Endpoints -> EndpointRecord], NEW old \in 0 .. SlotLimit
  PROVE  /\ RecomputeMaxSlot(eps, old) \in 0 .. SlotLimit
         /\ \A e \in Reporting(eps) : eps[e].slot <= RecomputeMaxSlot(eps, old)
         /\ (\E e \in Reporting(eps) : eps[e].slot > 0) =>
              \E e \in Reporting(eps) : eps[e].slot = RecomputeMaxSlot(eps, old)
         /\ (\A e \in Reporting(eps) : eps[e].slot = 0) =>
              RecomputeMaxSlot(eps, old) = old
<1> DEFINE S == {0} \cup {eps[e].slot : e \in Reporting(eps)}
           top == Max(S)
<1>1. \A e \in Reporting(eps) : eps[e].slot \in 0 .. SlotLimit
  BY DEF Reporting, EndpointRecord
<1>2. S \subseteq 0 .. SlotLimit /\ S # {}
  BY <1>1, PoolAssumption
<1>3. top \in S /\ \A y \in S : top >= y
  <2> HIDE DEF S
  <2> QED
    BY <1>2, MaxOfSlots
<1>4. top \in 0 .. SlotLimit
  BY <1>2, <1>3
<1>5. RecomputeMaxSlot(eps, old) = IF top > 0 THEN top ELSE old
  BY DEF RecomputeMaxSlot
<1>6. \A e \in Reporting(eps) : eps[e].slot <= top
  BY <1>3
<1>7. top = 0 \/ \E e \in Reporting(eps) : eps[e].slot = top
  BY <1>3
<1> HIDE DEF top, S
<1> QED
  BY <1>1, <1>4, <1>5, <1>6, <1>7, PoolAssumption

\* The watermark is live: no reporting endpoint is ahead of it, and one of them
\* is at it unless none has a slot to report.
WatermarkIsLive ==
  /\ \A e \in Reporting(ep) : ep[e].slot <= maxSlot
  /\ (\E e \in Reporting(ep) : ep[e].slot > 0) =>
       \E e \in Reporting(ep) : ep[e].slot = maxSlot

PoolInv == TypeOK /\ WatermarkIsLive

LEMMA PoolInitInv == PoolInit => PoolInv
<1> SUFFICES ASSUME PoolInit PROVE PoolInv
  OBVIOUS
<1>1. \A e \in Endpoints : ep[e].slot = 0
  BY DEF PoolInit
<1>2. TypeOK
  BY PoolAssumption DEF PoolInit, TypeOK, EndpointRecord
<1>3. WatermarkIsLive
  BY <1>1 DEF PoolInit, WatermarkIsLive, Reporting
<1> QED
  BY <1>2, <1>3 DEF PoolInv

\* Both writers record typed results and then recompute the watermark.
LEMMA WritersWrite ==
  ASSUME TypeOK, PoolNext
  PROVE  ep' \in [Endpoints -> EndpointRecord] /\ maxSlot' = RecomputeMaxSlot(ep', maxSlot)
<1>1. ASSUME NEW results \in [Endpoints -> Results], ApplyProbes(results)
      PROVE  /\ ep' \in [Endpoints -> EndpointRecord]
             /\ maxSlot' = RecomputeMaxSlot(ep', maxSlot)
  <2>1. \A e \in Endpoints : Recorded(ep[e], results[e]) \in EndpointRecord
    BY RecordedType DEF TypeOK
  <2> QED
    BY <1>1, <2>1 DEF ApplyProbes, TypeOK
<1>2. ASSUME NEW e \in Endpoints, NEW r \in Results, RecordProbe(e, r)
      PROVE  /\ ep' \in [Endpoints -> EndpointRecord]
             /\ maxSlot' = RecomputeMaxSlot(ep', maxSlot)
  <2>1. Recorded(ep[e], r) \in EndpointRecord
    BY RecordedType DEF TypeOK
  <2> QED
    BY <1>2, <2>1 DEF RecordProbe, TypeOK
<1> QED
  BY <1>1, <1>2 DEF PoolNext, BatchNext

LEMMA PoolStepInv == PoolInv /\ [PoolNext]_poolVars => PoolInv'
<1> SUFFICES ASSUME PoolInv, [PoolNext]_poolVars PROVE PoolInv'
  OBVIOUS
<1>1. CASE PoolNext
  <2>1. ep' \in [Endpoints -> EndpointRecord] /\ maxSlot' = RecomputeMaxSlot(ep', maxSlot)
    BY <1>1, WritersWrite DEF PoolInv
  <2>2. maxSlot \in 0 .. SlotLimit
    BY DEF PoolInv, TypeOK
  <2>3. TypeOK'
    BY <2>1, <2>2, Watermark DEF TypeOK
  <2>4. WatermarkIsLive'
    BY <2>1, <2>2, Watermark DEF WatermarkIsLive, Reporting
  <2> QED
    BY <2>3, <2>4 DEF PoolInv
<1>2. CASE UNCHANGED poolVars
  BY <1>2 DEF poolVars, PoolInv, TypeOK, WatermarkIsLive, Reporting
<1> QED
  BY <1>1, <1>2

THEOREM PoolInvariant == PoolSpec => []PoolInv
BY PoolInitInv, PoolStepInv, PTL DEF PoolSpec

\* The pool's state keeps its types under every use of its writers.
THEOREM PoolTypeCorrect == PoolSpec => []TypeOK
<1>1. PoolInv => TypeOK
  BY DEF PoolInv
<1> QED
  BY <1>1, PoolInvariant, PTL

\* The program's whole cycles are one such use.
LEMMA BatchIsPool == BatchSpec => PoolSpec
<1>1. [BatchNext]_poolVars => [PoolNext]_poolVars
  BY DEF PoolNext
<1> QED
  BY <1>1, PTL DEF BatchSpec, PoolSpec

-----------------------------------------------------------------------------
(* Selection *)

\* The three ways a selection can end.
LEMMA SelectCases ==
  ASSUME NEW x, NEW s \in SelectExcluding(x)
  PROVE  \/ s.endpoint \in Current(x) /\ s.degraded = FALSE
         \/ Current(x) = {} /\ s.endpoint \in Lagging(x) /\ s.degraded = TRUE
         \/ Current(x) = {} /\ Lagging(x) = {} /\ s = ErrNoEndpoints
<1>1. \A C : PickBest(C) \subseteq C
  BY DEF PickBest
<1>2. CASE Current(x) # {}
  BY <1>1, <1>2 DEF SelectExcluding
<1>3. CASE Current(x) = {} /\ Lagging(x) # {}
  BY <1>1, <1>3 DEF SelectExcluding
<1>4. CASE Current(x) = {} /\ Lagging(x) = {}
  BY <1>4 DEF SelectExcluding
<1> QED
  BY <1>2, <1>3, <1>4

LEMMA LagType ==
  ASSUME TypeOK, NEW e \in Endpoints
  PROVE  SlotLag(e) \in Nat
<1>1. ep[e].slot \in Nat /\ maxSlot \in Nat
  BY PoolAssumption DEF TypeOK, EndpointRecord
<1> QED
  BY <1>1 DEF SlotLag

LEMMA FreshFromInv == PoolInv => LiveEndpointServesFresh
<1> SUFFICES ASSUME PoolInv, Reporting(ep) # {}, NEW s \in Select
             PROVE  /\ s.endpoint # None /\ ~ s.degraded
                    /\ ep[s.endpoint].slot # 0 =>
                         \A w \in Reporting(ep) :
                           ep[w].slot - ep[s.endpoint].slot <= MaxSlotLag
  BY DEF LiveEndpointServesFresh
<1>1. TypeOK /\ WatermarkIsLive
  BY DEF PoolInv
<1>2. \A e \in Endpoints : ep[e].slot \in Nat /\ maxSlot \in Nat
  BY <1>1, PoolAssumption DEF TypeOK, EndpointRecord
<1>3. PICK w \in Reporting(ep) : SlotLag(w) = 0
  <2>1. CASE \E e \in Reporting(ep) : ep[e].slot > 0
    <3>1. PICK w \in Reporting(ep) : ep[w].slot = maxSlot
      BY <1>1, <2>1 DEF WatermarkIsLive
    <3>2. SlotLag(w) = 0
      BY <1>2, <3>1 DEF SlotLag, Reporting
    <3> QED
      BY <3>2
  <2>2. CASE \A e \in Reporting(ep) : ~ (ep[e].slot > 0)
    <3>1. PICK w \in Reporting(ep) : TRUE
      OBVIOUS
    <3>2. ep[w].slot = 0
      BY <1>2, <2>2 DEF Reporting
    <3> QED
      BY <3>1, <3>2 DEF SlotLag
  <2> QED
    BY <2>1, <2>2
<1>4. w \in Current(None)
  BY <1>3, PoolAssumption DEF Current, Candidates, Reporting
<1>5. s.endpoint \in Current(None) /\ s.degraded = FALSE
  BY <1>4, SelectCases DEF Select
<1>6. s.endpoint \in Endpoints /\ s.endpoint # None /\ SlotLag(s.endpoint) <= MaxSlotLag
  BY <1>5 DEF Current, Candidates
<1>7. ASSUME ep[s.endpoint].slot # 0, NEW v \in Reporting(ep)
      PROVE  ep[v].slot - ep[s.endpoint].slot <= MaxSlotLag
  <2>1. ep[v].slot <= maxSlot /\ v \in Endpoints
    BY <1>1 DEF WatermarkIsLive, Reporting
  <2>2. ep[s.endpoint].slot >= maxSlot \/ maxSlot - ep[s.endpoint].slot <= MaxSlotLag
    BY <1>2, <1>6, <1>7 DEF SlotLag
  <2> QED
    BY <1>2, <1>6, <2>1, <2>2, PoolAssumption
<1> QED
  BY <1>5, <1>6, <1>7

\* Under every sequence of single and batched writes, while one healthy endpoint
\* answers its probes nobody is refused or served degraded, and whoever is
\* chosen is within MaxSlotLag of every endpoint that answers.
THEOREM LiveServesFresh == PoolSpec => []LiveEndpointServesFresh
BY FreshFromInv, PoolInvariant, PTL

-----------------------------------------------------------------------------
(* A first choice is never degraded *)

\* What one cycle does to an endpoint.
LEMMA CycleEffect ==
  ASSUME TypeOK, NEW results \in [Endpoints -> Results], ApplyProbes(results),
         NEW e \in Endpoints
  PROVE  \/ /\ ep'[e].lastErr = NoErr /\ ep'[e].consecFails = 0
            /\ ep[e].healthy => ep'[e].healthy
         \/ /\ ep'[e].lastErr # NoErr
            /\ ep'[e].consecFails = Bump(ep[e].consecFails)
            /\ ep'[e].slot = ep[e].slot
            /\ ep'[e].healthy <=> ep[e].healthy /\ Bump(ep[e].consecFails) < FailThreshold
<1>1. ep'[e] = Recorded(ep[e], results[e])
  BY DEF ApplyProbes
<1>2. CASE results[e].err = NoErr
  <2>1. ep'[e] = RecordSuccess(ep[e], results[e])
    BY <1>1, <1>2 DEF Recorded
  <2>2. ep'[e].lastErr = NoErr /\ ep'[e].consecFails = 0
    BY <2>1 DEF RecordSuccess
  <2>3. ep[e].healthy => ep'[e].healthy
    BY <2>1 DEF RecordSuccess
  <2> QED
    BY <2>2, <2>3
<1>3. CASE results[e].err # NoErr
  <2>1. ep'[e] = RecordFailure(ep[e], results[e])
    BY <1>1, <1>3 DEF Recorded
  <2>2. /\ ep'[e].lastErr # NoErr /\ ep'[e].slot = ep[e].slot
        /\ ep'[e].consecFails = Bump(ep[e].consecFails)
    BY <1>3, <2>1 DEF RecordFailure
  <2>3. Bump(ep[e].consecFails) \in Nat
    BY BumpType, PoolAssumption DEF TypeOK, EndpointRecord
  <2>4. ep'[e].healthy <=> ep[e].healthy /\ Bump(ep[e].consecFails) < FailThreshold
    BY <2>1, <2>3, PoolAssumption DEF RecordFailure
  <2> QED
    BY <2>2, <2>4
<1> QED
  BY <1>2, <1>3

\* A cycle in which somebody in rotation answers leaves an anchor with an empty
\* failure streak, whatever the others did.
LEMMA AnsweredCycleAnchors ==
  ASSUME PoolInv', NEW w \in Endpoints, ep'[w].healthy, ep'[w].lastErr = NoErr,
         \A e \in Endpoints : ep'[e].lastErr = NoErr => ep'[e].consecFails = 0
  PROVE  Anchored'
<1>1. \A e \in Endpoints : /\ ep'[e].slot \in Nat /\ maxSlot' \in Nat
                           /\ ep'[e].consecFails \in Nat
  BY PoolAssumption DEF PoolInv, TypeOK, EndpointRecord
<1>2. \E v \in Reporting(ep') : SlotLag(v)' = 0
  <2>1. CASE \E e \in Reporting(ep') : ep'[e].slot > 0
    <3>1. PICK v \in Reporting(ep') : ep'[v].slot = maxSlot'
      BY <2>1 DEF PoolInv, WatermarkIsLive
    <3> QED
      BY <1>1, <3>1 DEF SlotLag, Reporting
  <2>2. CASE \A e \in Reporting(ep') : ~ (ep'[e].slot > 0)
    <3>1. w \in Reporting(ep')
      BY DEF Reporting
    <3>2. ep'[w].slot = 0
      BY <1>1, <2>2, <3>1
    <3> QED
      BY <3>1, <3>2 DEF SlotLag
  <2> QED
    BY <2>1, <2>2
<1>3. PICK v \in Reporting(ep') : SlotLag(v)' = 0
  BY <1>2
<1>4. v \in Endpoints /\ ep'[v].healthy /\ ep'[v].consecFails = 0
  BY <1>3 DEF Reporting
<1> QED
  BY <1>1, <1>3, <1>4 DEF Anchored

\* A cycle in which nobody in rotation answers lengthens every streak alike and
\* moves neither slots nor watermark: the old anchors serve.
LEMMA SilentCycleAnchors ==
  ASSUME PoolInv, Anchored, NEW results \in [Endpoints -> Results], ApplyProbes(results),
         Reporting(ep') = {}
  PROVE  Anchored'
<1> SUFFICES ASSUME NEW e \in Endpoints, ep'[e].healthy, SlotLag(e)' > 0
             PROVE  \E w \in Endpoints : /\ ep'[w].healthy
                                         /\ SlotLag(w)' = 0
                                         /\ ep'[w].consecFails <= ep'[e].consecFails
  BY DEF Anchored
<1>1. TypeOK /\ PoolNext
  BY DEF PoolInv, PoolNext, BatchNext
<1>2. maxSlot' = maxSlot
  <2>1. ep' \in [Endpoints -> EndpointRecord] /\ maxSlot' = RecomputeMaxSlot(ep', maxSlot)
    BY <1>1, WritersWrite
  <2>2. maxSlot \in 0 .. SlotLimit
    BY <1>1 DEF TypeOK
  <2> QED
    BY <2>1, <2>2, Watermark
<1>3. \A v \in Endpoints : ep'[v].healthy => ep'[v].lastErr # NoErr
  BY DEF Reporting
<1>4. /\ ep'[e].consecFails = Bump(ep[e].consecFails) /\ ep'[e].slot = ep[e].slot
      /\ ep[e].healthy /\ Bump(ep[e].consecFails) < FailThreshold
  BY <1>1, <1>3, CycleEffect
<1>5. SlotLag(e) > 0
  BY <1>2, <1>4 DEF SlotLag
<1>6. PICK w \in Endpoints : /\ ep[w].healthy /\ SlotLag(w) = 0
                             /\ ep[w].consecFails <= ep[e].consecFails
  BY <1>4, <1>5 DEF Anchored
<1>7. /\ ep'[w].consecFails = Bump(ep[w].consecFails) /\ ep'[w].slot = ep[w].slot
      /\ ep'[w].healthy <=> Bump(ep[w].consecFails) < FailThreshold
  BY <1>1, <1>3, <1>6, CycleEffect
<1>8. ep[w].consecFails \in 0 .. CounterCap /\ ep[e].consecFails \in 0 .. CounterCap
  BY <1>1 DEF TypeOK, EndpointRecord
<1>9. Bump(ep[w].consecFails) <= Bump(ep[e].consecFails)
  BY <1>6, <1>8, PoolAssumption DEF Bump
<1>10. ep'[w].healthy
  <2>1. Bump(ep[w].consecFails) \in Nat /\ Bump(ep[e].consecFails) \in Nat
    BY <1>8, BumpType, PoolAssumption
  <2> QED
    BY <1>4, <1>7, <1>9, <2>1, PoolAssumption
<1>11. SlotLag(w)' = 0
  BY <1>2, <1>6, <1>7 DEF SlotLag
<1> QED
  BY <1>4, <1>7, <1>9, <1>10, <1>11

BatchInv == PoolInv /\ Anchored

LEMMA BatchInitInv == PoolInit => BatchInv
<1> SUFFICES ASSUME PoolInit PROVE Anchored
  BY PoolInitInv DEF BatchInv
<1>1. \A e \in Endpoints : ep[e].slot = 0
  BY DEF PoolInit
<1> QED
  BY <1>1 DEF Anchored, SlotLag

LEMMA BatchStepInv == BatchInv /\ [BatchNext]_poolVars => BatchInv'
<1> SUFFICES ASSUME BatchInv, [BatchNext]_poolVars PROVE BatchInv'
  OBVIOUS
<1>1. PoolInv /\ Anchored /\ TypeOK
  BY DEF BatchInv, PoolInv
<1>2. PoolInv'
  BY <1>1, PoolStepInv DEF PoolNext
<1>3. Anchored'
  <2>1. CASE BatchNext
    <3>1. PICK results \in [Endpoints -> Results] : ApplyProbes(results)
      BY <2>1 DEF BatchNext
    <3>2. CASE Reporting(ep') = {}
      BY <1>1, <3>1, <3>2, SilentCycleAnchors
    <3>3. CASE Reporting(ep') # {}
      <4>1. PICK w \in Endpoints : ep'[w].healthy /\ ep'[w].lastErr = NoErr
        BY <3>3 DEF Reporting
      <4>2. \A e \in Endpoints : ep'[e].lastErr = NoErr => ep'[e].consecFails = 0
        BY <1>1, <3>1, CycleEffect
      <4> QED
        BY <1>2, <4>1, <4>2, AnsweredCycleAnchors
    <3> QED
      BY <3>2, <3>3
  <2>2. CASE UNCHANGED poolVars
    BY <1>1, <2>2 DEF poolVars, Anchored, SlotLag
  <2> QED
    BY <2>1, <2>2
<1> QED
  BY <1>2, <1>3 DEF BatchInv

\* Under whole cycles every lagging endpoint in rotation keeps an anchor.
THEOREM BatchAnchored == BatchSpec => []Anchored
<1>1. BatchInv => Anchored
  BY DEF BatchInv
<1> QED
  BY <1>1, BatchInitInv, BatchStepInv, PTL DEF BatchSpec

LEMMA NotDegradedFromInv == BatchInv => PrimaryNeverDegraded
<1> SUFFICES ASSUME BatchInv, NEW s \in Select, s.degraded PROVE FALSE
  BY DEF PrimaryNeverDegraded
<1>1. Current(None) = {} /\ s.endpoint \in Lagging(None)
  <2>1. s # ErrNoEndpoints
    BY DEF ErrNoEndpoints
  <2> QED
    BY <2>1, SelectCases, Zenon DEF Select
<1>2. s.endpoint \in Endpoints /\ ep[s.endpoint].healthy /\ SlotLag(s.endpoint) > MaxSlotLag
  BY <1>1 DEF Lagging, Candidates
<1>3. SlotLag(s.endpoint) > 0
  <2>1. SlotLag(s.endpoint) \in Nat
    BY <1>2, LagType DEF BatchInv, PoolInv
  <2> QED
    BY <1>2, <2>1, PoolAssumption
<1>4. PICK w \in Endpoints : ep[w].healthy /\ SlotLag(w) = 0
  BY <1>2, <1>3 DEF BatchInv, Anchored
<1>5. w \in Current(None)
  BY <1>4, PoolAssumption DEF Current, Candidates
<1> QED
  BY <1>1, <1>5

\* In this program a first choice is never degraded, for any number of
\* endpoints and any thresholds.
THEOREM FirstChoiceNeverDegraded == BatchSpec => []PrimaryNeverDegraded
BY NotDegradedFromInv, BatchInitInv, BatchStepInv, PTL DEF BatchSpec

-----------------------------------------------------------------------------
(* The EWMA stays among its samples *)

LEMMA ProductMonotone ==
  ASSUME NEW k \in Nat, NEW m \in Nat, NEW n \in Nat, m <= n
  PROVE  k * m <= k * n
<1>1. PICK d \in Nat : n = m + d
  <2>1. n - m \in Nat /\ n = m + (n - m)
    OBVIOUS
  <2> QED
    BY <2>1
<1>2. k * n = k * m + k * d
  BY <1>1
<1>3. k * d \in Nat /\ k * m \in Nat
  OBVIOUS
<1> QED
  BY <1>2, <1>3

LEMMA QuotientBounds ==
  ASSUME NEW x \in Nat, NEW d \in Nat \ {0}, NEW lo \in Nat, NEW hi \in Nat,
         d * lo <= x, x <= d * hi
  PROVE  lo <= x \div d /\ x \div d <= hi
<1> DEFINE q == x \div d
<1>1. q \in Nat /\ d * q <= x /\ x < d * q + d
  OBVIOUS
<1> HIDE DEF q
<1>2. d * q \in Nat /\ d * lo \in Nat /\ d * hi \in Nat
  BY <1>1
<1>3. lo <= q
  <2> SUFFICES ASSUME q + 1 <= lo PROVE FALSE
    BY <1>1
  <2>1. d * (q + 1) <= d * lo
    BY <1>1, ProductMonotone
  <2>2. d * (q + 1) = d * q + d
    BY <1>1
  <2> QED
    BY <1>1, <1>2, <2>1, <2>2
<1>4. q <= hi
  <2> SUFFICES ASSUME hi + 1 <= q PROVE FALSE
    BY <1>1
  <2>1. d * (hi + 1) <= d * q
    BY <1>1, ProductMonotone
  <2>2. d * (hi + 1) = d * hi + d
    OBVIOUS
  <2> QED
    BY <1>1, <1>2, <2>1, <2>2
<1> QED
  BY <1>3, <1>4 DEF q

\* A weighted average lies between the bounds of what it averages.
LEMMA SmoothedBounds ==
  ASSUME NEW old \in Nat \ {0}, NEW sample \in Nat, NEW lo \in Nat, NEW hi \in Nat,
         lo <= old, old <= hi, lo <= sample, sample <= hi
  PROVE  lo <= Smoothed(old, sample) /\ Smoothed(old, sample) <= hi
<1> DEFINE beta == AlphaDen - AlphaNum
           x == AlphaNum * sample + beta * old
<1>1. AlphaNum \in Nat /\ AlphaDen \in Nat \ {0} /\ beta \in Nat /\ AlphaDen = AlphaNum + beta
  BY PoolAssumption
<1>2. Smoothed(old, sample) = x \div AlphaDen
  BY DEF Smoothed
<1> HIDE DEF beta
<1>3. AlphaNum * lo <= AlphaNum * sample /\ AlphaNum * sample <= AlphaNum * hi
  BY <1>1, ProductMonotone
<1>4. beta * lo <= beta * old /\ beta * old <= beta * hi
  BY <1>1, ProductMonotone
<1>5. AlphaDen * lo = AlphaNum * lo + beta * lo /\ AlphaDen * hi = AlphaNum * hi + beta * hi
  BY <1>1
<1>6. /\ AlphaNum * lo \in Nat /\ AlphaNum * hi \in Nat /\ AlphaNum * sample \in Nat
      /\ beta * lo \in Nat /\ beta * hi \in Nat /\ beta * old \in Nat
  BY <1>1
<1>7. x \in Nat /\ AlphaDen * lo <= x /\ x <= AlphaDen * hi
  BY <1>3, <1>4, <1>5, <1>6
<1> HIDE DEF x
<1> QED
  BY <1>1, <1>2, <1>7, QuotientBounds

\* A sample may be the new extreme; the interval only widens.
LEMMA SmoothedAmongSamples ==
  ASSUME NEW old \in Nat, NEW sample \in Latencies,
         old # 0 => \E lo, hi \in Latencies : lo <= old /\ old <= hi
  PROVE  /\ Smoothed(old, sample) # 0
         /\ \E lo, hi \in Latencies :
              lo <= Smoothed(old, sample) /\ Smoothed(old, sample) <= hi
<1>1. Latencies \subseteq Nat \ {0}
  BY PoolAssumption
<1>2. CASE old = 0
  BY <1>1, <1>2 DEF Smoothed
<1>3. CASE old # 0
  <2>1. PICK lo \in Latencies, hi \in Latencies : lo <= old /\ old <= hi
    BY <1>3
  <2>2. PICK l \in Latencies : l <= lo /\ l <= sample
    BY <1>1
  <2>3. PICK h \in Latencies : hi <= h /\ sample <= h
    BY <1>1
  <2>4. l <= Smoothed(old, sample) /\ Smoothed(old, sample) <= h
    <3>1. l \in Nat /\ h \in Nat /\ l <= old /\ old <= h
      BY <1>1, <2>1, <2>2, <2>3
    <3> QED
      BY <1>1, <1>3, <2>2, <2>3, <3>1, SmoothedBounds
  <2>5. l \in Nat /\ l # 0 /\ sample \in Nat
    BY <1>1
  <2>6. Smoothed(old, sample) \in Nat
    BY <2>5, SmoothedType
  <2> QED
    BY <2>4, <2>5, <2>6
<1> QED
  BY <1>2, <1>3

\* EwmaTracksSamples, of one endpoint.
AmongSamples(st) ==
  IF st.ewma = 0 THEN st.slot = 0 /\ st.consecOKs = 0
  ELSE \E lo, hi \in Latencies : lo <= st.ewma /\ st.ewma <= hi

LEMMA RecordedAmongSamples ==
  ASSUME NEW st \in EndpointRecord, AmongSamples(st), NEW r \in Results
  PROVE  AmongSamples(Recorded(st, r))
<1>1. st.ewma \in Nat
  BY DEF EndpointRecord
<1>2. CASE r \in Successes
  <2>1. r.latency \in Latencies /\ r.err = NoErr
    BY <1>2 DEF Successes
  <2>2. Recorded(st, r).ewma = Smoothed(st.ewma, r.latency)
    BY <2>1 DEF Recorded, RecordSuccess
  <2> QED
    BY <1>1, <2>1, <2>2, SmoothedAmongSamples DEF AmongSamples
<1>3. CASE r \in Failures
  <2>1. r.err # NoErr
    BY <1>3, PoolAssumption DEF Failures
  <2>2. /\ Recorded(st, r).ewma = st.ewma /\ Recorded(st, r).slot = st.slot
        /\ Recorded(st, r).consecOKs = 0
    BY <2>1 DEF Recorded, RecordFailure
  <2> QED
    BY <2>2 DEF AmongSamples
<1> QED
  BY <1>2, <1>3 DEF Results

LEMMA EwmaStep ==
  ASSUME TypeOK, EwmaTracksSamples, [PoolNext]_poolVars
  PROVE  EwmaTracksSamples'
<1>1. \A e \in Endpoints : ep[e] \in EndpointRecord /\ AmongSamples(ep[e])
  BY DEF TypeOK, EwmaTracksSamples, AmongSamples
<1>2. \A e \in Endpoints : AmongSamples(ep'[e])
  <2>1. ASSUME NEW results \in [Endpoints -> Results], ApplyProbes(results),
               NEW e \in Endpoints
        PROVE  AmongSamples(ep'[e])
    <3>1. ep'[e] = Recorded(ep[e], results[e])
      BY <2>1 DEF ApplyProbes
    <3> QED
      BY <1>1, <3>1, RecordedAmongSamples
  <2>2. ASSUME NEW x \in Endpoints, NEW r \in Results, RecordProbe(x, r), NEW e \in Endpoints
        PROVE  AmongSamples(ep'[e])
    <3>1. ep'[e] = IF e = x THEN Recorded(ep[e], r) ELSE ep[e]
      BY <2>2 DEF RecordProbe, TypeOK
    <3> QED
      BY <1>1, <3>1, RecordedAmongSamples
  <2>3. CASE UNCHANGED poolVars
    BY <1>1, <2>3 DEF poolVars
  <2> QED
    BY <2>1, <2>2, <2>3 DEF PoolNext, BatchNext
<1> QED
  BY <1>2 DEF EwmaTracksSamples, AmongSamples

\* Whatever is recorded and however the weights are chosen, a measured EWMA
\* lies among the samples and never falls back to the 0 of "no sample".
THEOREM EwmaStaysAmongSamples == PoolSpec => []EwmaTracksSamples
<1>1. PoolInit => EwmaTracksSamples
  BY DEF PoolInit, EwmaTracksSamples
<1>2. TypeOK /\ EwmaTracksSamples /\ [PoolNext]_poolVars => EwmaTracksSamples'
  BY EwmaStep
<1> QED
  BY <1>1, <1>2, PoolTypeCorrect, PTL DEF PoolSpec

-----------------------------------------------------------------------------
(* The two choices *)

\* A current endpoint that no pair lets win is outranked by every other.
LEMMA StarvedIsOutranked ==
  ASSUME NEW e \in Current(None) \ {s.endpoint : s \in Select},
         NEW d \in Current(None) \ {e}
  PROVE  Outranks(d, e) /\ ~ Outranks(e, d)
<1> DEFINE C == Current(None)
<1>1. e \notin PickBest(C)
  <2> SUFFICES ASSUME e \in PickBest(C) PROVE FALSE
    OBVIOUS
  <2>1. [endpoint |-> e, degraded |-> FALSE] \in Select
    BY DEF Select, SelectExcluding
  <2> QED
    BY <2>1
<1>2. e \notin Faster(e, d)
  BY <1>1 DEF PickBest
<1> QED
  BY <1>2 DEF Faster

LEMMA BandInIntegers ==
  ASSUME NEW a \in Nat, NEW b \in Nat, b > (5 * a) \div 4
  PROVE  4 * b > 5 * a
OBVIOUS

LEMMA SpreadFromTypes == TypeOK => AtMostOneStarves
<1> SUFFICES ASSUME TypeOK, NEW e \in Current(None) \ {s.endpoint : s \in Select},
                    NEW f \in Current(None) \ {s.endpoint : s \in Select}
             PROVE  /\ e = f
                    /\ \A d \in Current(None) \ {e} :
                         /\ ep[d].ewma # 0
                         /\ ep[e].ewma = 0 \/ 4 * ep[e].ewma > 5 * ep[d].ewma
  BY DEF AtMostOneStarves
<1>1. e = f
  <2> SUFFICES ASSUME e # f PROVE FALSE
    OBVIOUS
  <2>1. Outranks(f, e) /\ ~ Outranks(e, f)
    BY StarvedIsOutranked
  <2>2. Outranks(e, f)
    BY StarvedIsOutranked
  <2> QED
    BY <2>1, <2>2
<1>2. ASSUME NEW d \in Current(None) \ {e}
      PROVE  /\ ep[d].ewma # 0
             /\ ep[e].ewma = 0 \/ 4 * ep[e].ewma > 5 * ep[d].ewma
  <2>1. Outranks(d, e)
    BY StarvedIsOutranked
  <2>2. ep[d].ewma \in Nat /\ ep[e].ewma \in Nat
    BY DEF TypeOK, EndpointRecord, Current, Candidates
  <2> QED
    BY <2>1, <2>2, BandInIntegers DEF Outranks
<1> QED
  BY <1>1, <1>2

\* Every state the writers can reach spreads the load: at most one current
\* endpoint is never chosen, and only one the band cannot excuse.
THEOREM LoadSpreads == PoolSpec => []AtMostOneStarves
BY SpreadFromTypes, PoolTypeCorrect, PTL

=============================================================================
