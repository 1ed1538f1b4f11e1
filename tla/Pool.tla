-------------------------------- MODULE Pool --------------------------------
(***************************************************************************)
(* The endpoint pool of rpc-mesh, src/router/types.go: the live state of   *)
(* every upstream, the slot watermark, the two writers (ApplyProbes and    *)
(* RecordProbe) and the selection every request makes.                     *)
(*                                                                         *)
(* Every method of Pool holds Pool.mu from its first line to its last, so  *)
(* a method is one atomic action; readers of two methods in a row are      *)
(* where atomicity is lost, and that is the business of the modules that   *)
(* extend this one.                                                        *)
(***************************************************************************)
EXTENDS Integers, FiniteSets, FiniteSetsExt

CONSTANTS
  Endpoints,          \* the upstreams of the configuration (*Endpoint)
  None,               \* the nil *Endpoint
  Slots,              \* the slots a node can report
  SlotLimit,          \* the largest uint64; only has to bound Slots
  Latencies,          \* the round-trip times a probe can measure
  ProbeErrors,        \* what a failed probe can return
  NoErr,              \* the nil error
  MaxSlotLag,         \* MAX_SLOT_LAG
  FailThreshold,      \* FAIL_THRESHOLD
  OKThreshold,        \* OK_THRESHOLD
  AlphaNum, AlphaDen, \* EWMA_ALPHA as a fraction
  CounterCap          \* where the two streak counters stop counting

\* config.validate admits only thresholds of at least 1 and an alpha in
\* (0, 1]; NewPool refuses an empty list of endpoints. A probe takes time, so
\* a measured latency is never the 0 that stands for "no sample". The code
\* only asks whether a streak has reached its threshold, so counters that
\* saturate at CounterCap answer as the unbounded ones do.
ASSUME PoolAssumption ==
  /\ IsFiniteSet(Endpoints) /\ Endpoints # {}
  /\ None \notin Endpoints
  /\ SlotLimit \in Nat /\ Slots \subseteq 0 .. SlotLimit
  /\ Latencies \subseteq Nat \ {0}
  /\ NoErr \notin ProbeErrors
  /\ MaxSlotLag \in Nat
  /\ FailThreshold \in Nat \ {0} /\ OKThreshold \in Nat \ {0}
  /\ AlphaNum \in Nat \ {0} /\ AlphaDen \in Nat /\ AlphaNum <= AlphaDen
  /\ CounterCap \in Nat
  /\ FailThreshold <= CounterCap /\ OKThreshold <= CounterCap

VARIABLES
  ep,      \* Pool.endpoints: the guarded fields of every Endpoint
  maxSlot  \* Pool.maxSlot

poolVars == <<ep, maxSlot>>

\* lastChecked is kept as whether it was ever set: no decision compares times.
EndpointRecord ==
  [healthy : BOOLEAN, slot : 0 .. SlotLimit, ewma : Nat,
   consecFails : 0 .. CounterCap, consecOKs : 0 .. CounterCap,
   lastErr : ProbeErrors \cup {NoErr}, checked : BOOLEAN]

\* One observation (ProbeResult). Slot and latency of a failed probe are never
\* read (types.go:305-308), so only a successful one carries them.
Successes == [slot : Slots, latency : Latencies, err : {NoErr}]
Failures == [err : ProbeErrors]
Results == Successes \cup Failures

-----------------------------------------------------------------------------
(* Recording one probe *)

Bump(n) == IF n < CounterCap THEN n + 1 ELSE n

\* mutant: the first sample is averaged with the 0 of "never measured"
SmoothedUnseeded(old, sample) ==
  (AlphaNum * sample + (AlphaDen - AlphaNum) * old) \div AlphaDen

\* mutant: the difference is scaled and the old value forgotten
SmoothedDifference(old, sample) ==
  IF old = 0 THEN sample ELSE (AlphaNum * (sample - old)) \div AlphaDen

\* The EWMA, seeded with the first sample. The float result is truncated to a
\* whole number of nanoseconds.
Smoothed(old, sample) ==
  IF old = 0 THEN sample
  ELSE (AlphaNum * sample + (AlphaDen - AlphaNum) * old) \div AlphaDen

\* mutant: a failure does not break the streak of successes
RecordFailureKeepsOKs(st, r) ==
  LET fails == Bump(st.consecFails)
  IN [healthy |-> IF fails >= FailThreshold THEN FALSE ELSE st.healthy,
      slot |-> st.slot, ewma |-> st.ewma,
      consecFails |-> fails, consecOKs |-> st.consecOKs, lastErr |-> r.err, checked |-> TRUE]

\* The failure half of recordProbeLocked: slot and ewma keep their last value.
RecordFailure(st, r) ==
  LET fails == Bump(st.consecFails)
  IN [healthy |-> IF fails >= FailThreshold THEN FALSE ELSE st.healthy,
      slot |-> st.slot, ewma |-> st.ewma,
      consecFails |-> fails, consecOKs |-> 0, lastErr |-> r.err, checked |-> TRUE]

\* mutant: a success does not break the streak of failures
RecordSuccessKeepsFails(st, r) ==
  LET oks == Bump(st.consecOKs)
  IN [healthy |-> IF oks >= OKThreshold THEN TRUE ELSE st.healthy,
      slot |-> r.slot, ewma |-> Smoothed(st.ewma, r.latency),
      consecFails |-> st.consecFails, consecOKs |-> oks, lastErr |-> NoErr, checked |-> TRUE]

\* The success half of recordProbeLocked, which assigns every field.
RecordSuccess(st, r) ==
  LET oks == Bump(st.consecOKs)
  IN [healthy |-> IF oks >= OKThreshold THEN TRUE ELSE st.healthy,
      slot |-> r.slot, ewma |-> Smoothed(st.ewma, r.latency),
      consecFails |-> 0, consecOKs |-> oks, lastErr |-> NoErr, checked |-> TRUE]

Recorded(st, r) ==
  IF r.err = NoErr THEN RecordSuccess(st, r) ELSE RecordFailure(st, r)

\* mutant: an ejected endpoint that failed its last probe still counts
ReportingAll(eps) == {e \in Endpoints : eps[e].checked}

\* The endpoints recomputeMaxSlotLocked takes the watermark from.
Reporting(eps) == {e \in Endpoints : eps[e].healthy /\ eps[e].lastErr = NoErr}

\* mutant: the watermark only ever rises
RecomputeMaxSlotMonotone(eps, old) ==
  Max({old} \cup {eps[e].slot : e \in Reporting(eps)})

\* The watermark after a write: unchanged when nobody reports a slot.
RecomputeMaxSlot(eps, old) ==
  LET top == Max({0} \cup {eps[e].slot : e \in Reporting(eps)})
  IN IF top > 0 THEN top ELSE old

-----------------------------------------------------------------------------
(* Selection *)

\* Never measured, or ahead of the watermark: no lag.
SlotLag(e) ==
  IF ep[e].slot = 0 \/ ep[e].slot >= maxSlot THEN 0 ELSE maxSlot - ep[e].slot

Candidates(exclude) == {e \in Endpoints : e # exclude /\ ep[e].healthy}
Current(exclude) == {e \in Candidates(exclude) : SlotLag(e) <= MaxSlotLag}
Lagging(exclude) == {e \in Candidates(exclude) : SlotLag(e) > MaxSlotLag}

\* mutant: no near-tie band
OutranksStrictly(a, b) ==
  /\ ep[a].ewma # 0
  /\ ep[b].ewma = 0 \/ ep[b].ewma > ep[a].ewma

\* a is faster than b by more than nearTieRatio, 5/4. An endpoint without a
\* sample counts as slower than every measured one.
Outranks(a, b) ==
  /\ ep[a].ewma # 0
  /\ ep[b].ewma = 0 \/ ep[b].ewma > (5 * ep[a].ewma) \div 4

\* What faster may return: the one that outranks the other, else either.
Faster(a, b) ==
  IF Outranks(a, b) THEN {a} ELSE IF Outranks(b, a) THEN {b} ELSE {a, b}

\* What pickBest may return: the power of two choices. A pair of distinct
\* candidates is drawn, each pair with positive probability.
PickBest(C) ==
  IF Cardinality(C) = 1 THEN C
  ELSE {c \in C : \E d \in C \ {c} : c \in Faster(c, d)}

ErrNoEndpoints == [endpoint |-> None, degraded |-> FALSE]

\* What SelectExcluding may return to a caller that holds the read lock.
SelectExcluding(exclude) ==
  IF Current(exclude) # {}
  THEN [endpoint : PickBest(Current(exclude)), degraded : {FALSE}]
  ELSE IF Lagging(exclude) # {}
       THEN [endpoint : PickBest(Lagging(exclude)), degraded : {TRUE}]
       ELSE {ErrNoEndpoints}

Select == SelectExcluding(None)

-----------------------------------------------------------------------------
(* The writers *)

\* NewPool: the optimistic start.
PoolInit ==
  /\ ep = [e \in Endpoints |->
             [healthy |-> TRUE, slot |-> 0, ewma |-> 0, consecFails |-> 0,
              consecOKs |-> 0, lastErr |-> NoErr, checked |-> FALSE]]
  /\ maxSlot = 0

\* A batch of results under one lock, then one recomputation. An endpoint
\* outside DOMAIN results is one whose ProbeResult was never filled in: its
\* Endpoint is nil and recordProbeLocked skips it.
ApplyProbes(results) ==
  /\ ep' = [e \in Endpoints |->
              IF e \in DOMAIN results THEN Recorded(ep[e], results[e]) ELSE ep[e]]
  /\ maxSlot' = RecomputeMaxSlot(ep', maxSlot)

\* A single result. Exported beside the batch; main never calls it.
RecordProbe(e, r) ==
  /\ ep' = [ep EXCEPT ![e] = Recorded(@, r)]
  /\ maxSlot' = RecomputeMaxSlot(ep', maxSlot)

\* What the program does with the pool: whole cycles only.
BatchNext == \E results \in [Endpoints -> Results] : ApplyProbes(results)
BatchSpec == PoolInit /\ [][BatchNext]_poolVars

\* Everything the exported methods allow, in any order.
PoolNext ==
  \/ BatchNext
  \/ \E e \in Endpoints, r \in Results : RecordProbe(e, r)
PoolSpec == PoolInit /\ [][PoolNext]_poolVars

-----------------------------------------------------------------------------
(* Properties *)

\* Every guarded field keeps its type.
TypeOK ==
  /\ ep \in [Endpoints -> EndpointRecord]
  /\ maxSlot \in 0 .. SlotLimit

\* Of every sequence of single and batched writes: while some healthy endpoint
\* answered its last probe, Select fails nobody, serves nobody degraded, and
\* whoever it picks is either unmeasured or at most MaxSlotLag behind every
\* such endpoint. The cached watermark may be stale in the meantime, taken
\* from a node since ejected, or higher than any slot still in the pool.
LiveEndpointServesFresh ==
  Reporting(ep) # {} =>
    \A s \in Select :
      /\ s.endpoint # None /\ ~ s.degraded
      /\ ep[s.endpoint].slot # 0 =>
           \A w \in Reporting(ep) : ep[w].slot - ep[s.endpoint].slot <= MaxSlotLag

\* The anchor: every lagging endpoint in rotation has beside it one that is
\* not lagging and will not be ejected before it. This is the inductive form
\* of PrimaryNeverDegraded.
Anchored ==
  \A e \in Endpoints :
    ep[e].healthy /\ SlotLag(e) > 0 =>
      \E w \in Endpoints : /\ ep[w].healthy
                           /\ SlotLag(w) = 0
                           /\ ep[w].consecFails <= ep[e].consecFails

\* Written in whole cycles, the pool never has only lagging endpoints: a first
\* choice is never degraded, however many probes failed since the watermark
\* was taken, and whatever slots the nodes reported, regressions included.
PrimaryNeverDegraded == \A s \in Select : ~ s.degraded

\* An endpoint without an EWMA has never reported anything, and a measured
\* EWMA lies between the extreme samples: neither the seeding nor the rounding
\* may take it out of their range or back to the 0 that means unprobed.
EwmaTracksSamples ==
  \A e \in Endpoints :
    IF ep[e].ewma = 0
    THEN ep[e].slot = 0 /\ ep[e].consecOKs = 0
    ELSE \E lo, hi \in Latencies : lo <= ep[e].ewma /\ ep[e].ewma <= hi

\* The near-tie band and the two choices spread the load: at most one of the
\* current endpoints gets no traffic, and only one more than a quarter slower
\* than every other (or the only one never measured). With a strict
\* comparison, or the best of all in place of the better of two, an endpoint
\* is starved over a difference that is noise.
AtMostOneStarves ==
  LET starved == Current(None) \ {s.endpoint : s \in Select}
  IN \A e, f \in starved :
       /\ e = f
       /\ \A d \in Current(None) \ {e} :
            /\ ep[d].ewma # 0
            /\ ep[e].ewma = 0 \/ 4 * ep[e].ewma > 5 * ep[d].ewma

=============================================================================
