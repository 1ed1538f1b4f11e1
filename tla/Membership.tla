----------------------------- MODULE Membership -----------------------------
(***************************************************************************)
(* What the pool promises about rotation, without counters: who is in      *)
(* rotation follows from the most recent probe outcomes alone. A member    *)
(* leaves at the observation that makes its last FailThreshold outcomes    *)
(* all failures, and at no other; an ejected endpoint returns at the one   *)
(* that makes its last OKThreshold outcomes all successes. This is the     *)
(* asymmetric hysteresis of README.md:91-94, stated over histories.        *)
(***************************************************************************)
EXTENDS Integers

CONSTANTS Endpoints, FailThreshold, OKThreshold,
          Window    \* how many outcomes are remembered

VARIABLES members,  \* the endpoints in rotation
          recent    \* per endpoint, its last outcomes, the newest at 1

vars == <<members, recent>>

Outcomes == {"ok", "fail"}
Windows == [1 .. Window -> Outcomes \cup {"none"}]

Shift(w, o) == [i \in 1 .. Window |-> IF i = 1 THEN o ELSE w[i - 1]]
Streak(w, n, o) == \A i \in 1 .. n : w[i] = o

Init ==
  /\ members = Endpoints
  /\ recent = [e \in Endpoints |-> [i \in 1 .. Window |-> "none"]]

\* Every endpoint of DOMAIN outcome is observed once.
Observe(outcome) ==
  LET seen == DOMAIN outcome
  IN /\ recent' = [e \in Endpoints |->
                     IF e \in seen THEN Shift(recent[e], outcome[e])
                     ELSE recent[e]]
     /\ members' = {e \in Endpoints :
                      IF e \notin seen THEN e \in members
                      ELSE IF e \in members
                           THEN ~ Streak(recent'[e], FailThreshold, "fail")
                           ELSE Streak(recent'[e], OKThreshold, "ok")}

Next == \E seen \in SUBSET Endpoints : \E outcome \in [seen -> Outcomes] : Observe(outcome)

Spec == Init /\ [][Next]_vars

=============================================================================
