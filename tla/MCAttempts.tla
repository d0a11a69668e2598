----------------------------- MODULE MCAttempts -----------------------------
(* The instance of JobAttempts for TLC.                                    *)
EXTENDS JobAttempts

EachOnce == [e \in Event |-> 1]
=============================================================================
