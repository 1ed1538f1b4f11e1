------------------------------ MODULE MCProxy ------------------------------
(* The instance of Proxy that TLC checks: what the upstreams can answer.     *)
EXTENDS Proxy

\* A result beyond the window; an error as large as it; and a smaller one, with
\* a status of its own.
MCResponses ==
  {[status |-> 200, error |-> FALSE, length |-> 3],
   [status |-> 200, error |-> TRUE, length |-> 2],
   [status |-> 400, error |-> TRUE, length |-> 1]}

=============================================================================
