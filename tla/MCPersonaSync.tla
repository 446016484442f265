---------------------------- MODULE MCPersonaSync ----------------------------
(* PersonaSync on two devices.                                                *)
EXTENDS PersonaSync, TLC

CONSTANTS a, b

Symmetry == Permutations(Devices)

Keyed == revocations = 0 /\ \A d \in Devices : made[d] = 1 /\ secret[d] = 1

\* A behaviour meets a crash, or a key that is lost or revoked and no more than
\* two files, but not all of it: that takes more states than the run has time for.
OneTrouble == Keyed \/ (crashes = 0 /\ Cardinality(sent) <= 2)

=============================================================================
