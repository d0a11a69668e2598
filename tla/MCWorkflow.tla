----------------------------- MODULE MCWorkflow -----------------------------
(* Instances of WorkflowEngine for TLC.                                    *)
EXTENDS WorkflowEngine

CONSTANTS MCCancels, MCCrashes, MCErrors

MCBudget == [ev \in Event |-> CASE ev = "cancel"  -> MCCancels
                                [] ev = "crash"   -> MCCrashes
                                [] ev = "dbError" -> MCErrors]

Single(type, id) ==
  [type |-> type, id |-> id, children |-> << >>, source |-> ""]
Reduce(id, source) ==
  [type |-> "reduce", id |-> id, children |-> << >>, source |-> source]
Parallel(id, children) ==
  [type |-> "parallel", id |-> id, children |-> children, source |-> ""]

(* Every kind of step: the children of the parallel step are sequential    *)
(* steps without the replay check, the conditional step is one with it.    *)
(* The source of the reduce step has an output that is not stored, so that *)
(* a replayed execution refuses it.                                        *)
FullPlan  == <<Parallel("parallel_1", <<"b", "c">>), Single("map", "m"),
               Single("handler", "h"), Reduce("q", "h"), Single("conditional", "k")>>
FullSteps == {"b", "c", "m", "h", "q", "k"}
=============================================================================
