----------------------------- MODULE MCMigration -----------------------------
(***************************************************************************)
(* Migration with the file there is and one that may follow it.            *)
(***************************************************************************)
EXTENDS Migration

CONSTANTS p1, p2

MCStatements == <<3, 2>>
=============================================================================
