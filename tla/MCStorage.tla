----------------------------- MODULE MCStorage -----------------------------
(* Two backends on one database, of the same persona or of two.              *)
EXTENDS Migrations

CONSTANTS a, b, p1, p2
============================================================================
