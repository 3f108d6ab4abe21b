---------------------------- MODULE MCMigrations ----------------------------
(* Model values for the TLC run of Migrations. Its DDL statements: 1 makes  *)
(* schema_version, 2 workspace_files, 3 an index of that, 4 is a GRANT.     *)
EXTENDS Migrations

CONSTANTS b1, b2
=============================================================================
