------------------------------- MODULE Config -------------------------------
(***************************************************************************)
(* config.Load of src/config/config.go: the environment is read once, all  *)
(* complaints are joined, and the endpoints get their names. Durations are *)
(* in milliseconds, EWMA_ALPHA in hundredths.                              *)
(***************************************************************************)
EXTENDS Integers, Sequences, FiniteSets, Functions

CONSTANTS
  Unset,        \* a variable that is not set, or blank
  Garbage,      \* a value that does not parse
  NaN,          \* the float ParseFloat makes of "NaN"
  Bad,          \* an endpoint without scheme or host, or not a URL
  Hosts         \* the hosts of the endpoints that are URLs

\* A host name is a base and the numeric suffixes it ends in: "a-2" is
\* [base |-> "a", suffix |-> <<2>>].
ASSUME ConfigAssumption ==
  /\ {Unset, Garbage, NaN} \cap Int = {} /\ Bad \notin Hosts
  /\ \A h \in Hosts : h.suffix \in Seq(Nat) /\ h = [base |-> h.base, suffix |-> h.suffix]

\* The variables that are numbers, with their defaults. PORT and
\* CORS_ALLOW_ORIGIN cannot be wrong: blank, they take their default.
Default ==
  [HEALTH_INTERVAL |-> 5000, HEALTH_TIMEOUT |-> 2000, UPSTREAM_TIMEOUT |-> 15000,
   MAX_SLOT_LAG |-> 50, EWMA_ALPHA |-> 20, FAIL_THRESHOLD |-> 3, OK_THRESHOLD |-> 2,
   MAX_BODY_BYTES |-> 5242880]

Numbers == DOMAIN Default

\* getEnvDuration, getEnvInt, ...: what does not parse is reported, and replaced
\* by the default.
Config(env) ==
  [k \in Numbers |-> IF env[k] \in {Unset, Garbage} THEN Default[k] ELSE env[k]]

ParseErrors(env) == {k \in Numbers : env[k] = Garbage}

\* validate, of the values that Config put in place. A comparison with NaN is
\* false, so neither bound of EWMA_ALPHA refuses it.
Validate(c) ==
  {k \in {"HEALTH_INTERVAL", "HEALTH_TIMEOUT", "UPSTREAM_TIMEOUT"} : c[k] <= 0}
  \cup (IF c.HEALTH_TIMEOUT >= c.HEALTH_INTERVAL THEN {"overlap"} ELSE {})
  \cup {k \in {"FAIL_THRESHOLD", "OK_THRESHOLD"} : c[k] < 1}
  \cup {k \in {"MAX_BODY_BYTES"} : c[k] < 1024}
  \cup {k \in {"EWMA_ALPHA"} : c[k] # NaN /\ (c[k] <= 0 \/ c[k] > 100)}

\* parseEndpoints goes through the parts that are not blank. The first that is
\* bad ends it; that there is none is an error too.
ParseEndpoints(parts) == IF parts = <<>> \/ Bad \in Range(parts) THEN {"RPC_ENDPOINTS"} ELSE {}

\* mutant: Load gives up at the first complaint, and reads on only if there is none
ProblemsSoFar(env) ==
  IF ParseErrors(env) # {} THEN ParseErrors(env)
  ELSE ParseEndpoints(env.RPC_ENDPOINTS) \cup Validate(Config(env))

\* Load: everything that was found wrong.
Problems(env) ==
  ParseErrors(env) \cup ParseEndpoints(env.RPC_ENDPOINTS) \cup Validate(Config(env))

\* How often a host has been seen, this time included.
Count(hosts, i) == Cardinality({j \in 1 .. i : hosts[j] = hosts[i]})

Suffixed(host, n) == [host EXCEPT !.suffix = Append(@, n)]

\* mutant: a host is known to have been seen, not how often
NamesByPresence(hosts) ==
  [i \in DOMAIN hosts |-> IF Count(hosts, i) = 1 THEN hosts[i] ELSE Suffixed(hosts[i], 2)]

\* The names: the second occurrence of a host gets "-2", the third "-3". The
\* count is of hosts, not of names.
Names(hosts) ==
  [i \in DOMAIN hosts |->
     IF Count(hosts, i) = 1 THEN hosts[i] ELSE Suffixed(hosts[i], Count(hosts, i))]

\* Some endpoint is literally called what another is renamed to.
Collides(hosts) ==
  \E i, j \in DOMAIN hosts :
    Count(hosts, j) > 1 /\ hosts[i] = Suffixed(hosts[j], Count(hosts, j))

=============================================================================
