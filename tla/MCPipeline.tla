----------------------------- MODULE MCPipeline -----------------------------
(* Instances of Pipeline, with its refinement of JobDelivery, for TLC.     *)
EXTENDS PipelineDelivery, TLC

CONSTANTS
  MCCrashes, MCErrors, MCShutdowns, MCCtxCancels, MCCancels  \* the budget

MCBudget == [e \in Event |->
               CASE e = "crash"     -> MCCrashes
                 [] e = "dbError"   -> MCErrors
                 [] e = "shutdown"  -> MCShutdowns
                 [] e = "cancelCtx" -> MCCtxCancels
                 [] e = "cancelJob" -> MCCancels]

(* One job goes first.                                                     *)
OneUrgent == LET u == CHOOSE j \in Job : TRUE
             IN [j \in Job |-> IF j = u THEN 1 ELSE 0]

SamePriority == [j \in Job |-> 0]

(* All jobs but one share an idempotency key, or none has one.             *)
MCSharedKey == LET f == CHOOSE j \in Job : TRUE
               IN [j \in Job |-> IF j = f THEN NoKey ELSE "key"]
MCNoKeys  == [j \in Job |-> NoKey]

AllJobs == [c \in Client |-> Job]

(* One client has no handler for one of the kinds it polls.                *)
OneUnhandled ==
  LET c == CHOOSE c \in Client : TRUE
      j == CHOOSE j \in Job : TRUE
  IN [d \in Client |-> IF d = c THEN Job \ {j} ELSE Job]

MCError     == {"transient", "fatal", "notFound"}
MCDiscard   == {"fatal"}
MCRetryable == {"transient", "notFound"}
OneError    == {"notFound"}

Symmetry == Permutations(Job) \cup Permutations(Client) \cup Permutations(Worker)
=============================================================================
