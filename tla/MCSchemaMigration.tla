------------------------- MODULE MCSchemaMigration -------------------------
(***************************************************************************)
(* Small instances of SchemaMigration for TLC.                             *)
(***************************************************************************)
EXTENDS SchemaMigration

MCFiles == {{}, {1}, {1, 2}, {1, 2, 3}}

=============================================================================
