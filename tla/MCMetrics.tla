----------------------------- MODULE MCMetrics -----------------------------
(* The instance of Metrics that TLC checks: the environments.                *)
EXTENDS Metrics

Host(base, suffix) == [base |-> base, suffix |-> suffix]

MCHosts == {Host("a", <<>>), Host("a", <<2>>), Host("b", <<>>)}

\* For every number a legal value beside the default, and what is around its
\* bounds; UPSTREAM_TIMEOUT and OK_THRESHOLD are as HEALTH_TIMEOUT and
\* FAIL_THRESHOLD are.
Values ==
  [HEALTH_INTERVAL |-> {Garbage, 0, 1, 2000, 2001}, HEALTH_TIMEOUT |-> {Garbage, 0, 1, 5000},
   UPSTREAM_TIMEOUT |-> {0}, MAX_SLOT_LAG |-> {Garbage, 0}, EWMA_ALPHA |-> {NaN, 0, 100, 101},
   FAIL_THRESHOLD |-> {0, 1}, OK_THRESHOLD |-> {0}, MAX_BODY_BYTES |-> {1023, 1024}]

Lists == UNION {[1 .. n -> MCHosts \cup {Bad}] : n \in 0 .. 3}

Nothing(parts) == [k \in Numbers \cup {"RPC_ENDPOINTS"} |-> IF k \in Numbers THEN Unset ELSE parts]

\* Any list of up to three, and any two variables set beside a list of one.
MCEnvironments ==
  {Nothing(parts) : parts \in Lists}
  \cup UNION {{[Nothing(parts) EXCEPT ![k] = v, ![l] = w] :
                 parts \in {<<>>, <<Host("a", <<>>)>>}, v \in Values[k], w \in Values[l]} :
              k \in Numbers, l \in Numbers}

=============================================================================
