---------------------------- MODULE MCRegistry ----------------------------
(* The personas of a desktop application, with the faults of its files.     *)
EXTENDS PersonaRegistry, TLC

CONSTANTS p1, p2, p3, n1, n2, n3, png, jpg

Symmetry == Permutations(Personas) \cup Permutations(Names) \cup Permutations(Formats)
============================================================================
