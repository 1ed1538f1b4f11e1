------------------------------ MODULE Readers ------------------------------
(***************************************************************************)
(* Who reads the pool to report on it: the /status handler of src/main.go  *)
(* (MaxSlot, then Snapshot) and the scrape of                              *)
(* src/metrics/pool_collector.go (Snapshot, then MaxSlot). Each read is    *)
(* atomic under the read lock; between the two a cycle may be applied.     *)
(***************************************************************************)
EXTENDS Pool

CONSTANT Reports  \* the reports being made, of either kind

VARIABLE report  \* per report: its progress, and what it has read

readersVars == <<ep, maxSlot, report>>

NoReport == [pc |-> "start", endpoints |-> <<>>, maxSlot |-> 0]

ReadersInit == PoolInit /\ report = [r \in Reports |-> NoReport]

\* mutant: the absence of a measurement is reported as a lag
SnapshotRawLag ==
  [e \in Endpoints |->
     [healthy |-> ep[e].healthy, slot |-> ep[e].slot, failing |-> ep[e].lastErr # NoErr,
      lag |-> IF ep[e].slot >= maxSlot THEN 0 ELSE maxSlot - ep[e].slot]]

\* Pool.Snapshot: values, all of one state.
Snapshot ==
  [e \in Endpoints |->
     [healthy |-> ep[e].healthy, slot |-> ep[e].slot,
      lag |-> SlotLag(e), failing |-> ep[e].lastErr # NoErr]]

ReadMaxSlot(r, from, to) ==
  /\ report[r].pc = from
  /\ report' = [report EXCEPT ![r].pc = to, ![r].maxSlot = maxSlot]
  /\ UNCHANGED poolVars

ReadSnapshot(r, from, to) ==
  /\ report[r].pc = from
  /\ report' = [report EXCEPT ![r].pc = to, ![r].endpoints = Snapshot]
  /\ UNCHANGED poolVars

Status(r) ==
  \/ ReadMaxSlot(r, "start", "status")
  \/ ReadSnapshot(r, "status", "status sent")

Collect(r) ==
  \/ ReadSnapshot(r, "start", "scrape")
  \/ ReadMaxSlot(r, "scrape", "scrape sent")

ReadersNext ==
  \/ BatchNext /\ UNCHANGED report
  \/ \E r \in Reports : Status(r) \/ Collect(r)

ReadersSpec == ReadersInit /\ [][ReadersNext]_readersVars

StatusReports == {r \in Reports : report[r].pc = "status sent"}
ScrapeReports == {r \in Reports : report[r].pc = "scrape sent"}

\* However stale or torn, no report shows a pool whose every healthy endpoint
\* lags, nor one that lags although it is the most advanced of those shown
\* healthy and answering: the lags of one report are of one state.
ReportsAreCoherent ==
  \A r \in StatusReports \cup ScrapeReports :
    LET shown == report[r].endpoints
        live == {e \in Endpoints : shown[e].healthy}
        answering == {e \in live : ~ shown[e].failing}
    IN /\ live # {} => \E e \in live : shown[e].lag = 0
       /\ \A e \in answering :
            (\A f \in answering : shown[f].slot <= shown[e].slot) => shown[e].lag = 0

=============================================================================
