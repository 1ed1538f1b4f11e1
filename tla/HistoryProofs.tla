--------------------------- MODULE HistoryProofs ---------------------------
(***************************************************************************)
(* What can be read off the pool, from its history and by its reports, for *)
(* every set of endpoints and every threshold: that its counters are       *)
(* streaks, that it implements Membership, and that a report is coherent.  *)
(***************************************************************************)
EXTENDS PoolHistory, Readers, PoolProofs

-----------------------------------------------------------------------------
(* The counters and the history *)

\* One endpoint's counters are the streaks of its window.
Tracks(st, w) ==
  \A n \in 1 .. CounterCap :
    /\ st.consecFails >= n <=> M!Streak(w, n, "fail")
    /\ st.consecOKs >= n <=> M!Streak(w, n, "ok")

\* A new outcome lengthens its own streak by one and ends the other.
LEMMA ShiftedStreak ==
  ASSUME NEW w, NEW o, NEW n \in 1 .. CounterCap
  PROVE  /\ M!Streak(M!Shift(w, o), n, o) <=> n = 1 \/ M!Streak(w, n - 1, o)
         /\ \A x : x # o => ~ M!Streak(M!Shift(w, o), n, x)
<1> DEFINE s == M!Shift(w, o)
<1>1. \A i \in 1 .. n : i \in 1 .. CounterCap /\ s[i] = IF i = 1 THEN o ELSE w[i - 1]
  BY PoolAssumption DEF M!Shift
<1>2. 1 \in 1 .. n
  BY PoolAssumption
<1> HIDE DEF s
<1>3. \A x : x # o => ~ M!Streak(s, n, x)
  BY <1>1, <1>2 DEF M!Streak
<1>4. ASSUME M!Streak(s, n, o), n # 1 PROVE M!Streak(w, n - 1, o)
  <2> SUFFICES ASSUME NEW i \in 1 .. (n - 1) PROVE w[i] = o
    BY DEF M!Streak
  <2>1. i + 1 \in 1 .. n /\ i + 1 # 1 /\ (i + 1) - 1 = i
    BY PoolAssumption
  <2> QED
    BY <1>1, <1>4, <2>1 DEF M!Streak
<1>5. ASSUME n = 1 \/ M!Streak(w, n - 1, o) PROVE M!Streak(s, n, o)
  <2> SUFFICES ASSUME NEW i \in 1 .. n PROVE s[i] = o
    BY DEF M!Streak
  <2>1. i = 1 \/ (n # 1 /\ i - 1 \in 1 .. (n - 1))
    BY PoolAssumption
  <2> QED
    BY <1>1, <1>5, <2>1 DEF M!Streak
<1> QED
  BY <1>3, <1>4, <1>5 DEF s

\* Counting saturates without losing a comparison.
LEMMA BumpReaches ==
  ASSUME NEW f \in 0 .. CounterCap, NEW n \in 1 .. CounterCap
  PROVE  Bump(f) >= n <=> n = 1 \/ f >= n - 1
BY PoolAssumption DEF Bump

LEMMA RecordedTracks ==
  ASSUME NEW st \in EndpointRecord, NEW r \in Results, NEW w, Tracks(st, w)
  PROVE  Tracks(Recorded(st, r), M!Shift(w, Outcome(r)))
<1> DEFINE s == M!Shift(w, Outcome(r))
<1> SUFFICES ASSUME NEW n \in 1 .. CounterCap
             PROVE  /\ Recorded(st, r).consecFails >= n <=> M!Streak(s, n, "fail")
                    /\ Recorded(st, r).consecOKs >= n <=> M!Streak(s, n, "ok")
  BY DEF Tracks
<1>1. st.consecFails \in 0 .. CounterCap /\ st.consecOKs \in 0 .. CounterCap
  BY DEF EndpointRecord
<1>2. n = 1 \/ n - 1 \in 1 .. CounterCap
  BY PoolAssumption
<1>3. ~ (0 >= n)
  OBVIOUS
<1>4. CASE r.err = NoErr
  <2>1. Outcome(r) = "ok"
    BY <1>4 DEF Outcome
  <2>2. Recorded(st, r).consecFails = 0 /\ Recorded(st, r).consecOKs = Bump(st.consecOKs)
    BY <1>4 DEF Recorded, RecordSuccess
  <2>3. ~ M!Streak(s, n, "fail")
    BY <2>1, ShiftedStreak
  <2>4. M!Streak(s, n, "ok") <=> n = 1 \/ M!Streak(w, n - 1, "ok")
    BY <2>1, ShiftedStreak
  <2>5. Bump(st.consecOKs) >= n <=> n = 1 \/ st.consecOKs >= n - 1
    BY <1>1, BumpReaches
  <2>6. n = 1 \/ (st.consecOKs >= n - 1 <=> M!Streak(w, n - 1, "ok"))
    BY <1>2 DEF Tracks
  <2> HIDE DEF s
  <2> QED
    BY <1>3, <2>2, <2>3, <2>4, <2>5, <2>6
<1>5. CASE r.err # NoErr
  <2>1. Outcome(r) = "fail"
    BY <1>5 DEF Outcome
  <2>2. Recorded(st, r).consecOKs = 0 /\ Recorded(st, r).consecFails = Bump(st.consecFails)
    BY <1>5 DEF Recorded, RecordFailure
  <2>3. ~ M!Streak(s, n, "ok")
    BY <2>1, ShiftedStreak
  <2>4. M!Streak(s, n, "fail") <=> n = 1 \/ M!Streak(w, n - 1, "fail")
    BY <2>1, ShiftedStreak
  <2>5. Bump(st.consecFails) >= n <=> n = 1 \/ st.consecFails >= n - 1
    BY <1>1, BumpReaches
  <2>6. n = 1 \/ (st.consecFails >= n - 1 <=> M!Streak(w, n - 1, "fail"))
    BY <1>2 DEF Tracks
  <2> HIDE DEF s
  <2> QED
    BY <1>3, <2>2, <2>3, <2>4, <2>5, <2>6
<1> QED
  BY <1>4, <1>5

\* Which side of the rotation a result leaves an endpoint on, by its history.
LEMMA SideFollowsHistory ==
  ASSUME NEW st \in EndpointRecord, NEW r \in Results, NEW w, Tracks(Recorded(st, r), w)
  PROVE  Recorded(st, r).healthy <=> IF st.healthy THEN ~ M!Streak(w, FailThreshold, "fail")
                                     ELSE M!Streak(w, OKThreshold, "ok")
<1>1. FailThreshold \in 1 .. CounterCap /\ OKThreshold \in 1 .. CounterCap
  BY PoolAssumption
<1>2. /\ Recorded(st, r).consecFails >= FailThreshold <=> M!Streak(w, FailThreshold, "fail")
      /\ Recorded(st, r).consecOKs >= OKThreshold <=> M!Streak(w, OKThreshold, "ok")
  BY <1>1 DEF Tracks
<1>3. ~ (0 >= FailThreshold) /\ ~ (0 >= OKThreshold)
  BY <1>1
<1>4. st.healthy \in BOOLEAN
  BY DEF EndpointRecord
<1>5. CASE r.err = NoErr
  <2>1. /\ Recorded(st, r).consecFails = 0
        /\ Recorded(st, r).healthy = IF Recorded(st, r).consecOKs >= OKThreshold
                                     THEN TRUE ELSE st.healthy
    BY <1>5 DEF Recorded, RecordSuccess
  <2>2. ~ M!Streak(w, FailThreshold, "fail")
    BY <1>2, <1>3, <2>1
  <2> QED
    BY <1>2, <1>4, <2>1, <2>2, Zenon
<1>6. CASE r.err # NoErr
  <2>1. /\ Recorded(st, r).consecOKs = 0
        /\ Recorded(st, r).healthy = IF Recorded(st, r).consecFails >= FailThreshold
                                     THEN FALSE ELSE st.healthy
    BY <1>6 DEF Recorded, RecordFailure
  <2>2. ~ M!Streak(w, OKThreshold, "ok")
    BY <1>2, <1>3, <2>1
  <2> QED
    BY <1>2, <1>4, <2>1, <2>2, Zenon
<1> QED
  BY <1>5, <1>6

\* The invariant: counters and windows agree, endpoint by endpoint.
HistInv ==
  /\ ep \in [Endpoints -> EndpointRecord]
  /\ DOMAIN recent = Endpoints
  /\ \A e \in Endpoints : Tracks(ep[e], recent[e])

LEMMA HistInitInv == HistInit => HistInv
<1> SUFFICES ASSUME HistInit PROVE HistInv
  OBVIOUS
<1>1. ep \in [Endpoints -> EndpointRecord]
  BY PoolInitInv DEF HistInit, PoolInv, TypeOK
<1>2. ASSUME NEW e \in Endpoints PROVE Tracks(ep[e], recent[e])
  <2> SUFFICES ASSUME NEW n \in 1 .. CounterCap
               PROVE  /\ ep[e].consecFails >= n <=> M!Streak(recent[e], n, "fail")
                      /\ ep[e].consecOKs >= n <=> M!Streak(recent[e], n, "ok")
    BY DEF Tracks
  <2>1. ep[e].consecFails = 0 /\ ep[e].consecOKs = 0 /\ ~ (0 >= n)
    BY DEF HistInit, PoolInit
  <2>2. 1 \in 1 .. n /\ 1 \in 1 .. CounterCap
    BY PoolAssumption
  <2>3. recent[e][1] = "none"
    BY <2>2 DEF HistInit
  <2> QED
    BY <2>1, <2>2, <2>3 DEF M!Streak
<1> QED
  BY <1>1, <1>2 DEF HistInit, HistInv

\* Both writers, seen as one: some endpoints record a result.
LEMMA RecordingStep ==
  ASSUME HistInv, NEW seen \in SUBSET Endpoints, NEW results \in [seen -> Results],
         ep' = [e \in Endpoints |-> IF e \in seen THEN Recorded(ep[e], results[e]) ELSE ep[e]],
         Remember(results)
  PROVE  HistInv' /\ M!Next
<1>1. \A e \in Endpoints :
        recent'[e] = IF e \in seen THEN M!Shift(recent[e], Outcome(results[e])) ELSE recent[e]
  BY DEF Remember
<1>2. DOMAIN recent' = Endpoints
  BY DEF Remember
<1>3. ASSUME NEW e \in Endpoints
      PROVE  ep'[e] \in EndpointRecord /\ Tracks(ep'[e], recent'[e])
  <2>1. CASE e \in seen
    BY <1>1, <2>1, RecordedType, RecordedTracks DEF HistInv
  <2>2. CASE e \notin seen
    BY <1>1, <2>2 DEF HistInv
  <2> QED
    BY <2>1, <2>2
<1>4. HistInv'
  <2>1. ep' \in [Endpoints -> EndpointRecord]
    BY <1>3
  <2> QED
    BY <1>2, <1>3, <2>1 DEF HistInv, Tracks
<1>5. M!Next
  <2> DEFINE outcome == [e \in seen |-> Outcome(results[e])]
  <2>1. outcome \in [seen -> M!Outcomes]
    BY DEF Outcome, M!Outcomes
  <2>2. recent' = [e \in Endpoints |-> IF e \in DOMAIN outcome
                                       THEN M!Shift(recent[e], outcome[e]) ELSE recent[e]]
    BY DEF Remember
  <2>3. ASSUME NEW e \in Endpoints
        PROVE  e \in Members' <=>
                 IF e \notin seen THEN e \in Members
                 ELSE IF e \in Members THEN ~ M!Streak(recent'[e], FailThreshold, "fail")
                      ELSE M!Streak(recent'[e], OKThreshold, "ok")
    <3>1. (e \in Members <=> ep[e].healthy) /\ (e \in Members' <=> ep'[e].healthy)
      BY DEF Members
    <3>2. CASE e \notin seen
      BY <3>1, <3>2
    <3>3. CASE e \in seen
      <4>1. ep'[e] = Recorded(ep[e], results[e])
        BY <3>3
      <4>2. ep[e] \in EndpointRecord /\ results[e] \in Results
        BY <3>3 DEF HistInv
      <4>3. Recorded(ep[e], results[e]).healthy <=>
              IF ep[e].healthy THEN ~ M!Streak(recent'[e], FailThreshold, "fail")
              ELSE M!Streak(recent'[e], OKThreshold, "ok")
        BY <1>3, <4>1, <4>2, SideFollowsHistory
      <4> QED
        BY <3>1, <3>3, <4>1, <4>3
    <3> QED
      BY <3>2, <3>3
  <2>4. Members' = {e \in Endpoints :
                      IF e \notin DOMAIN outcome THEN e \in Members
                      ELSE IF e \in Members THEN ~ M!Streak(recent'[e], FailThreshold, "fail")
                           ELSE M!Streak(recent'[e], OKThreshold, "ok")}
    BY <2>3 DEF Members
  <2>5. M!Observe(outcome)
    BY <2>2, <2>4 DEF M!Observe
  <2> HIDE DEF outcome
  <2> QED
    BY <2>1, <2>5 DEF M!Next
<1> QED
  BY <1>4, <1>5

LEMMA HistStep == HistInv /\ [HistNext]_histVars => HistInv' /\ [M!Next]_<<Members, recent>>
<1> SUFFICES ASSUME HistInv, [HistNext]_histVars
             PROVE  HistInv' /\ [M!Next]_<<Members, recent>>
  OBVIOUS
<1>1. ASSUME NEW results \in [Endpoints -> Results], ApplyProbes(results), Remember(results)
      PROVE  HistInv' /\ M!Next
  <2>1. DOMAIN results = Endpoints /\ Endpoints \in SUBSET Endpoints
    OBVIOUS
  <2>2. ep' = [e \in Endpoints |-> IF e \in Endpoints
                                   THEN Recorded(ep[e], results[e]) ELSE ep[e]]
    BY <1>1, <2>1 DEF ApplyProbes
  <2> QED
    BY <1>1, <2>1, <2>2, RecordingStep
<1>2. ASSUME NEW e \in Endpoints, NEW r \in Results,
             RecordProbe(e, r), Remember([x \in {e} |-> r])
      PROVE  HistInv' /\ M!Next
  <2> DEFINE results == [x \in {e} |-> r]
  <2>1. {e} \in SUBSET Endpoints /\ results \in [{e} -> Results]
    OBVIOUS
  <2>2. ep' = [x \in Endpoints |-> IF x \in {e} THEN Recorded(ep[x], results[x]) ELSE ep[x]]
    BY <1>2 DEF RecordProbe, HistInv
  <2>3. Remember(results)
    BY <1>2
  <2> HIDE DEF results
  <2> QED
    BY <2>1, <2>2, <2>3, RecordingStep
<1>3. CASE UNCHANGED histVars
  BY <1>3 DEF histVars, HistInv, Members, Tracks
<1> QED
  BY <1>1, <1>2, <1>3 DEF HistNext

\* consecFails and consecOKs are the lengths of the current streaks, for every
\* mix of single and batched writes.
THEOREM CountersCountStreaks == HistSpec => []CountersAreStreaks
<1>1. HistInv => CountersAreStreaks
  BY DEF HistInv, Tracks, CountersAreStreaks
<1>2. HistInv /\ [HistNext]_histVars => HistInv'
  BY HistStep
<1> QED
  BY <1>1, <1>2, HistInitInv, PTL DEF HistSpec

\* Refinement: rotation follows from the probe outcomes alone, as Membership
\* says, for any thresholds.
THEOREM PoolImplementsMembership == HistSpec => ImplementsMembership
<1>1. HistInit => M!Init
  BY DEF HistInit, PoolInit, M!Init, Members
<1>2. HistInv /\ [HistNext]_histVars => HistInv' /\ [M!Next]_(M!vars)
  BY HistStep DEF M!vars
<1> QED
  BY <1>1, <1>2, HistInitInv, PTL DEF HistSpec, ImplementsMembership, M!Spec

-----------------------------------------------------------------------------
(* Reports *)

\* What a report says of a pool that some instant really had.
Coherent(shown) ==
  LET live == {e \in Endpoints : shown[e].healthy}
      answering == {e \in live : ~ shown[e].failing}
  IN /\ live # {} => \E e \in live : shown[e].lag = 0
     /\ \A e \in answering :
          (\A f \in answering : shown[f].slot <= shown[e].slot) => shown[e].lag = 0

\* It holds of every snapshot of a pool written in whole cycles: a lagging
\* endpoint has its anchor, and the watermark is live.
LEMMA SnapshotsAreCoherent == BatchInv => Coherent(Snapshot)
<1> SUFFICES ASSUME BatchInv PROVE Coherent(Snapshot)
  OBVIOUS
<1> DEFINE shown == Snapshot
           live == {e \in Endpoints : shown[e].healthy}
           answering == {e \in live : ~ shown[e].failing}
<1>1. Anchored /\ TypeOK /\ WatermarkIsLive
  BY DEF BatchInv, PoolInv
<1>2. \A e \in Endpoints : /\ shown[e].healthy = ep[e].healthy
                           /\ shown[e].slot = ep[e].slot
                           /\ shown[e].lag = SlotLag(e)
                           /\ shown[e].failing = (ep[e].lastErr # NoErr)
  BY DEF Snapshot
<1>3. \A e \in Endpoints : ep[e].slot \in Nat /\ SlotLag(e) \in Nat
  BY <1>1, LagType, PoolAssumption DEF TypeOK, EndpointRecord
<1>4. maxSlot \in Nat
  BY <1>1, PoolAssumption DEF TypeOK
<1> HIDE DEF shown
<1>5. ASSUME live # {} PROVE \E e \in live : shown[e].lag = 0
  <2>1. PICK e \in Endpoints : shown[e].healthy
    BY <1>5
  <2>2. CASE SlotLag(e) = 0
    BY <1>2, <2>1, <2>2
  <2>3. CASE SlotLag(e) # 0
    <3>1. ep[e].healthy /\ SlotLag(e) > 0
      BY <1>2, <1>3, <2>1, <2>3
    <3>2. PICK w \in Endpoints : ep[w].healthy /\ SlotLag(w) = 0
      BY <1>1, <3>1 DEF Anchored
    <3> QED
      BY <1>2, <3>2
  <2> QED
    BY <2>2, <2>3
<1>6. ASSUME NEW e \in answering, \A f \in answering : shown[f].slot <= shown[e].slot
      PROVE  shown[e].lag = 0
  <2>1. \A f : f \in answering <=> f \in Reporting(ep)
    BY <1>2 DEF Reporting
  <2>2. \A f \in Reporting(ep) : f \in Endpoints
    BY DEF Reporting
  <2> HIDE DEF answering
  <2>3. \A f \in Reporting(ep) : ep[f].slot <= ep[e].slot
    BY <1>2, <1>6, <2>1, <2>2
  <2>4. e \in Endpoints /\ e \in Reporting(ep)
    BY <2>1, <2>2
  <2>5. CASE ep[e].slot > 0
    <3>1. PICK w \in Reporting(ep) : ep[w].slot = maxSlot
      BY <1>1, <2>4, <2>5 DEF WatermarkIsLive
    <3>2. ep[e].slot >= maxSlot
      BY <1>3, <1>4, <2>2, <2>3, <2>4, <3>1
    <3> QED
      BY <1>2, <2>4, <3>2 DEF SlotLag
  <2>6. CASE ~ (ep[e].slot > 0)
    <3>1. ep[e].slot = 0
      BY <1>3, <2>4, <2>6
    <3> QED
      BY <1>2, <2>4, <3>1 DEF SlotLag
  <2> QED
    BY <2>5, <2>6
<1>7. Coherent(shown)
  BY <1>5, <1>6, Zenon DEF Coherent
<1> QED
  BY <1>7 DEF shown

\* A report past its snapshot holds a coherent one: a snapshot is a value, and
\* the cycles applied since do not reach it.
HoldsSnapshot(pc) == pc \in {"status sent", "scrape", "scrape sent"}

Shown ==
  [Endpoints -> [healthy : BOOLEAN, slot : 0 .. SlotLimit, lag : Nat, failing : BOOLEAN]]

ReportRecord ==
  [pc : {"start", "status", "status sent", "scrape", "scrape sent"},
   endpoints : {<<>>} \cup Shown, maxSlot : 0 .. SlotLimit]

ReadersInv ==
  /\ BatchInv
  /\ report \in [Reports -> ReportRecord]
  /\ \A r \in Reports : HoldsSnapshot(report[r].pc) => Coherent(report[r].endpoints)

LEMMA ReadersInitInv == ReadersInit => ReadersInv
<1> SUFFICES ASSUME ReadersInit PROVE ReadersInv
  OBVIOUS
<1>1. BatchInv
  BY BatchInitInv DEF ReadersInit
<1>2. NoReport \in ReportRecord
  BY PoolAssumption DEF NoReport, ReportRecord
<1>3. \A r \in Reports : report[r] = NoReport /\ ~ HoldsSnapshot(NoReport.pc)
  BY DEF ReadersInit, NoReport, HoldsSnapshot
<1> QED
  BY <1>1, <1>2, <1>3 DEF ReadersInit, ReadersInv

\* A read of the watermark makes no report hold a snapshot that did not.
LEMMA WatermarkRead ==
  ASSUME ReadersInv, NEW r \in Reports, NEW from, NEW to, ReadMaxSlot(r, from, to),
         \/ from = "start" /\ to = "status"
         \/ from = "scrape" /\ to = "scrape sent"
  PROVE  ReadersInv'
<1>1. UNCHANGED poolVars /\ report' = [report EXCEPT ![r].pc = to, ![r].maxSlot = maxSlot]
  BY DEF ReadMaxSlot
<1>2. BatchInv'
  BY <1>1, BatchStepInv DEF ReadersInv
<1>3. report' \in [Reports -> ReportRecord]
  BY <1>1 DEF ReadersInv, ReportRecord, BatchInv, PoolInv, TypeOK
<1>4. ASSUME NEW x \in Reports
      PROVE  /\ report'[x].endpoints = report[x].endpoints
             /\ HoldsSnapshot(report'[x].pc) => HoldsSnapshot(report[x].pc)
  <2>1. /\ report'[x].endpoints = report[x].endpoints
        /\ x # r => report'[x].pc = report[x].pc
        /\ x = r => report'[x].pc = to
    BY <1>1 DEF ReadersInv, ReportRecord
  <2>2. report[r].pc = from
    BY DEF ReadMaxSlot
  <2>3. HoldsSnapshot(to) => HoldsSnapshot(from)
    BY DEF HoldsSnapshot
  <2> QED
    BY <2>1, <2>2, <2>3
<1> QED
  BY <1>2, <1>3, <1>4 DEF ReadersInv, Coherent

\* A snapshot is of a pool that keeps the invariant of whole cycles.
LEMMA SnapshotRead ==
  ASSUME ReadersInv, NEW r \in Reports, NEW from, NEW to, ReadSnapshot(r, from, to),
         to \in {"status sent", "scrape"}
  PROVE  ReadersInv'
<1>1. UNCHANGED poolVars /\ report' = [report EXCEPT ![r].pc = to, ![r].endpoints = Snapshot]
  BY DEF ReadSnapshot
<1>2. BatchInv'
  BY <1>1, BatchStepInv DEF ReadersInv
<1>3. Coherent(Snapshot)
  BY SnapshotsAreCoherent DEF ReadersInv
<1>4. Snapshot \in Shown
  <2>1. \A e \in Endpoints : SlotLag(e) \in Nat /\ ep[e] \in EndpointRecord
    BY LagType DEF ReadersInv, BatchInv, PoolInv, TypeOK
  <2> QED
    BY <2>1 DEF Shown, Snapshot, EndpointRecord
<1>5. report' \in [Reports -> ReportRecord]
  BY <1>1, <1>4 DEF ReadersInv, ReportRecord
<1>6. ASSUME NEW x \in Reports
      PROVE  /\ x = r => report'[x].endpoints = Snapshot
             /\ x # r => report'[x] = report[x]
  BY <1>1 DEF ReadersInv, ReportRecord
<1>7. ASSUME NEW x \in Reports, HoldsSnapshot(report'[x].pc)
      PROVE  Coherent(report'[x].endpoints)
  BY <1>3, <1>6, <1>7 DEF ReadersInv
<1> QED
  BY <1>2, <1>5, <1>7 DEF ReadersInv, Coherent

LEMMA ReadersStepInv == ReadersInv /\ [ReadersNext]_readersVars => ReadersInv'
<1> SUFFICES ASSUME ReadersInv, [ReadersNext]_readersVars PROVE ReadersInv'
  OBVIOUS
<1>1. CASE BatchNext /\ UNCHANGED report
  <2>1. BatchInv'
    BY <1>1, BatchStepInv DEF ReadersInv
  <2> QED
    BY <1>1, <2>1 DEF ReadersInv, Coherent
<1>2. ASSUME NEW r \in Reports, Status(r) PROVE ReadersInv'
  BY <1>2, WatermarkRead, SnapshotRead DEF Status
<1>3. ASSUME NEW r \in Reports, Collect(r) PROVE ReadersInv'
  BY <1>3, WatermarkRead, SnapshotRead DEF Collect
<1>4. CASE UNCHANGED readersVars
  <2>1. UNCHANGED report /\ BatchInv'
    BY <1>4, BatchStepInv DEF readersVars, poolVars, ReadersInv
  <2> QED
    BY <2>1 DEF ReadersInv, Coherent
<1> QED
  BY <1>1, <1>2, <1>3, <1>4 DEF ReadersNext

\* No report, of /status or of a scrape, shows a pool whose every healthy
\* endpoint lags, for any number of reports among any cycles.
THEOREM EveryReportIsCoherent == ReadersSpec => []ReportsAreCoherent
<1>1. ReadersInv => ReportsAreCoherent
  BY DEF ReadersInv, HoldsSnapshot, Coherent, ReportsAreCoherent, StatusReports, ScrapeReports
<1> QED
  BY <1>1, ReadersInitInv, ReadersStepInv, PTL DEF ReadersSpec

=============================================================================
