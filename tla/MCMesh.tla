------------------------------- MODULE MCMesh -------------------------------
(* The instance of Mesh that TLC checks: one way to answer.                  *)
EXTENDS Mesh

MCResponses == {[status |-> 200, error |-> FALSE, length |-> 0]}

=============================================================================
