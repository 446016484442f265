------------------------------ MODULE Cognition ------------------------------
(* What runs beside the conversation on the database of one backend: the      *)
(* stages that form beliefs, the corrections a user makes of them, and the    *)
(* events that change the running totals.  They meet in the database's one    *)
(* write reservation, and a restart ends them all.                            *)
EXTENDS Beliefs, Evidence

CONSTANT MaxRestarts   \* bound: restarts of the backend

ASSUME CognitionAssumption ==
  /\ Workers \cap Episodes = {}
  /\ MaxRestarts \in Nat

VARIABLE restarts

vars == <<lockVars, beliefsVars, evidenceVars, restarts>>

Init == LockInit /\ BeliefsInit /\ EvidenceInit /\ restarts = 0

Believes ==
  /\ \/ \E e \in Episodes : StageSteps(e)
     \/ \E c \in Corrections : CorrectionSteps(c)
  /\ UNCHANGED <<evidenceVars, restarts>>

Counts ==
  /\ \E w \in Workers : WorkSteps(w)
  /\ UNCHANGED <<beliefsVars, restarts>>

\* The transactions of the old process are rolled back with its connections.
Restart ==
  /\ restarts < MaxRestarts
  /\ restarts' = restarts + 1
  /\ BeliefsRestart /\ EvidenceRestart
  /\ writer' = None /\ UNCHANGED <<faults, begun>>

Next == Believes \/ Counts \/ Restart

Spec == Init /\ [][Next]_vars

=============================================================================
