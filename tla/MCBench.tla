------------------------------ MODULE MCBench ------------------------------
(* The instance of Bench that TLC checks.                                    *)
EXTENDS Bench

MCUpstreams == <<"a", "b">>

\* Two latencies, an application error, an HTTP error, and a body that breaks off.
MCResponses ==
  {[status |-> 200, whole |-> TRUE, error |-> FALSE, elapsed |-> 2],
   [status |-> 200, whole |-> TRUE, error |-> FALSE, elapsed |-> 5],
   [status |-> 200, whole |-> TRUE, error |-> TRUE, elapsed |-> 1],
   [status |-> 429, whole |-> TRUE, error |-> FALSE, elapsed |-> 1],
   [status |-> 200, whole |-> FALSE, error |-> FALSE, elapsed |-> 1]}

=============================================================================
