----------------------------- MODULE MCAutonomy -----------------------------
(* Instances of AutonomyExecution for TLC.                                    *)
EXTENDS AutonomyExecution, TLC

CONSTANTS e1, e2, p1, p2, check_in, remind

(* Executions and processes are interchangeable; no CHOOSE ranges over them.  *)
Symmetry == Permutations({e1, e2}) \cup Permutations({p1, p2})

=============================================================================
