---------------------------- MODULE MCDefinition ----------------------------
(* Instances of WorkflowDefinition for TLC.                                *)
EXTENDS WorkflowDefinition

MCAutoId ==
  [t \in AutoType |->
    [n \in 0..3 |->
      CASE t = "parallel" -> <<"parallel_0", "parallel_1", "parallel_2", "parallel_3">>[n+1]
        [] OTHER -> <<"conditional_0", "conditional_1", "conditional_2", "conditional_3">>[n+1]]]

BuilderCallOf(type, ids) ==
  [type |-> type, ids |-> ids, kind |-> "email", timeout |-> FALSE]

(* Every kind of step, and a handler step whose kind nobody handles; one   *)
(* id that the builder may also make.                                      *)
MCCall == {BuilderCallOf("sequential", <<"parallel_1">>),
           BuilderCallOf("parallel", <<"b", "c">>),
           BuilderCallOf("conditional", << >>),
           BuilderCallOf("map", <<"m">>),
           BuilderCallOf("reduce", <<"r">>),
           BuilderCallOf("handler", <<"h">>),
           [BuilderCallOf("handler", <<"n">>) EXCEPT !.kind = "unhandled"]}

(* A step with a timeout.                                                  *)
TimedCall == {[BuilderCallOf("sequential", <<"a">>) EXCEPT !.timeout = TRUE]}

AllCall == MCCall \cup TimedCall

(* What two versions of a workflow may differ in.                          *)
VersionCall == TimedCall \cup {BuilderCallOf("parallel", <<"b", "c">>)}

(* Only safety properties are checked with it.                             *)
Symmetry == Permutations(Client)
=============================================================================
