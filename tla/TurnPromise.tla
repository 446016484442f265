---------------------------- MODULE TurnPromise -----------------------------
(* What the ledger promises for each chat turn, without devices, handlers,    *)
(* recovery or failures: a turn is opened, then failed or answered, once and  *)
(* for all; after the answer every stage is settled at most once, and the     *)
(* work of a stage happens exactly in the step that settles it.               *)
CONSTANTS Turns, Stages

VARIABLES
  phase,    \* phase[t]: none, open, failed or answered
  settled,  \* settled[t]: stages that are completed
  worked    \* worked[t][s]: times the work of s was done for t

promiseVars == <<phase, settled, worked>>

Init ==
  /\ phase = [t \in Turns |-> "none"]
  /\ settled = [t \in Turns |-> {}]
  /\ worked = [t \in Turns |-> [s \in Stages |-> 0]]

Open(t) ==
  /\ phase[t] = "none"
  /\ phase' = [phase EXCEPT ![t] = "open"]
  /\ UNCHANGED <<settled, worked>>

Fail(t) ==
  /\ phase[t] = "open"
  /\ phase' = [phase EXCEPT ![t] = "failed"]
  /\ UNCHANGED <<settled, worked>>

Answer(t) ==
  /\ phase[t] = "open"
  /\ phase' = [phase EXCEPT ![t] = "answered"]
  /\ UNCHANGED <<settled, worked>>

(* n is 1 when the stage had work to do and 0 for an explicit no-op.          *)
Settle(t, s, n) ==
  /\ phase[t] = "answered" /\ s \notin settled[t]
  /\ settled' = [settled EXCEPT ![t] = @ \cup {s}]
  /\ worked' = [worked EXCEPT ![t][s] = n]
  /\ UNCHANGED phase

Next ==
  \E t \in Turns :
    \/ Open(t) \/ Fail(t) \/ Answer(t)
    \/ \E s \in Stages, n \in {0, 1} : Settle(t, s, n)

Spec == Init /\ [][Next]_promiseVars

=============================================================================
