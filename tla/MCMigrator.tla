----------------------------- MODULE MCMigrator -----------------------------
(* Instances of Migrator for TLC.                                          *)
EXTENDS Migrator

EachOnce == [e \in Event |-> 1]
Everybody == [c \in Client |-> TRUE]
=============================================================================
