---------------------------- MODULE PoolHistory ----------------------------
(***************************************************************************)
(* The pool beside a history variable: the last CounterCap outcomes of     *)
(* every endpoint. The counters of the code are shown to be exactly the    *)
(* streaks of that history, and the pool to implement Membership.          *)
(***************************************************************************)
EXTENDS Pool

VARIABLE recent

histVars == <<ep, maxSlot, recent>>

Members == {e \in Endpoints : ep[e].healthy}

M == INSTANCE Membership WITH members <- Members, Window <- CounterCap

Outcome(r) == IF r.err = NoErr THEN "ok" ELSE "fail"

\* The history of a write: what each recorded result says.
Remember(results) ==
  recent' = [e \in Endpoints |->
               IF e \in DOMAIN results
               THEN M!Shift(recent[e], Outcome(results[e])) ELSE recent[e]]

HistInit ==
  /\ PoolInit
  /\ recent = [e \in Endpoints |-> [i \in 1 .. CounterCap |-> "none"]]

HistNext ==
  \/ \E results \in [Endpoints -> Results] :
       ApplyProbes(results) /\ Remember(results)
  \/ \E e \in Endpoints, r \in Results :
       RecordProbe(e, r) /\ Remember([x \in {e} |-> r])

HistSpec == HistInit /\ [][HistNext]_histVars

-----------------------------------------------------------------------------

\* The two counters are the lengths of the current streaks: consecFails has
\* reached n exactly when the last n probes failed, consecOKs exactly when they
\* succeeded, across ejection, readmission and both kinds of write. Either
\* counter surviving an outcome of the other kind breaks it.
CountersAreStreaks ==
  \A e \in Endpoints, n \in 1 .. CounterCap :
    /\ ep[e].consecFails >= n <=> M!Streak(recent[e], n, "fail")
    /\ ep[e].consecOKs >= n <=> M!Streak(recent[e], n, "ok")

\* Hysteresis (README.md:91-94): the pool implements Membership. An endpoint
\* changes sides only at the observation that completes a streak.
ImplementsMembership == M!Spec

=============================================================================
