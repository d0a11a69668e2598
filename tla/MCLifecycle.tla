---------------------------- MODULE MCLifecycle -----------------------------
(* Instances of ClientLifecycle for TLC.                                   *)
EXTENDS ClientLifecycle

CONSTANTS main, signal

Never == [e \in Event |-> 0]
Few == [e \in Event |-> IF e \in {"late", "dbError"} THEN 2 ELSE 1]
=============================================================================
