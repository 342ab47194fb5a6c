------------------------------- MODULE MCPgGc -------------------------------
(* Instances of PgGc for TLC. *)
EXTENDS PgGc

AllPoints == Points
(* All but the two points at which a crash does harm: a counted list without a
   header, and a count that does not belong to the start it is stored with. *)
Harmless == Points \ {"list", "count"}
=============================================================================
