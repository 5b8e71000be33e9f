------------------------- MODULE MCSchemaMigrations -------------------------
(* The six files of the repository: of these only 002 cannot run twice      *)
(* (ADD COLUMN, and ADD CONSTRAINT under a name that is taken by then).     *)
EXTENDS SchemaMigrations

MCRepeatable == Files \ {2}
=============================================================================
