---------------------------- MODULE WorkflowProofs ----------------------------
(***************************************************************************)
(* What a workflow run guarantees, for any plan of steps, any number of    *)
(* reruns one after another, and any number of crashes and of statements   *)
(* that fail.  The row of the run is the only memory that survives an      *)
(* execution, so each invariant says how the maps of the executions agree  *)
(* with it.                                                                *)
(***************************************************************************)
EXTENDS WorkflowEngine, PlaceLemmas

(* At most one caller of RerunWorkflowStep at a time.  Two of them both    *)
(* pass the check at client.go:906 and start an execution each.            *)
OneCaller == \A r, q \in Rerunner : r = q

(* The id of a map step is the id of nothing else.                         *)
MapIds == {Plan[i].id : i \in {k \in 1..Len(Plan) : Plan[k].type = "map"}}
OwnMapIds ==
  /\ MapIds \cap Children = {}
  /\ \A i \in 1..Len(Plan) : Plan[i].id \in MapIds => Plan[i].type \in {"map", "parallel"}

-----------------------------------------------------------------------------
(* Invariants.                                                             *)

AtStep == {"begin", "busy", "parallel", "persist", "fail"}
Loaded == {"mark", "begin", "busy", "parallel", "persist", "fail", "finish"}

(* What an execution holds fits the place where it is.                     *)
Where(e) ==
  /\ pc[e] \in {"unused", "load", "mark"} => idx[e] = 1
  /\ pc[e] \in AtStep => idx[e] \in 1..Len(Plan)
  /\ pc[e] = "finish" => idx[e] = Len(Plan) + 1
  /\ pc[e] = "busy" => /\ Item(e).type # "parallel"
                       /\ local[e][Item(e).id].state = "running"
  /\ pc[e] = "parallel" => Item(e).type = "parallel"
  /\ \A s \in StepId :
       /\ child[e][s] # "none" <=>
            pc[e] = "parallel" /\ s \in ToSet(Item(e).children)
       /\ child[e][s] = "ok" => local[e][s].state = "completed"

BudgetKept == \A ev \in Event : left[ev] <= Budget[ev]

WorkInv == TypeOK /\ BudgetKept /\ \A e \in Exec : Where(e)

(* The stored output of a completed map step is not lost, and every copy   *)
(* of the step states has it.                                              *)
Kept(steps) == \A s \in MapIds : steps[s].state = "completed" => steps[s].out

Carried(e) ==
  /\ pc[e] \in Loaded => \A s \in MapIds : local[e][s].state = "completed" => s \in outs[e]
  /\ pc[e] \in AtStep \cup {"finish"} =>
       \A i \in 1..idx[e]-1 : Plan[i].type = "map" => Plan[i].id \in outs[e]
  /\ pc[e] = "persist" /\ Item(e).type = "map" => Item(e).id \in outs[e]

MapInv ==
  /\ Kept(run.steps)
  /\ \A e \in Exec : Kept(local[e]) /\ Carried(e)
  /\ \A r \in Rerunner : Kept(rerun[r].steps)

(* Why there is one execution: while there is one, the row says pending or *)
(* running, and a caller of RerunWorkflowStep that passed the check saw    *)
(* the row as it still is.                                                 *)
OneAtATime ==
  /\ \A d, e \in Exec : Active(d) /\ Active(e) => d = e
  /\ \A e \in Exec : Active(e) => run.state \in {"pending", "running"}
  /\ run.state # "cancelled"
  /\ run.state = "none" => /\ \A e \in Exec : pc[e] = "unused"
                           /\ \A s \in StepId : succ[s] = 0
  /\ \A r \in Rerunner : rerun[r].pc = "decided" =>
       run.state = "failed" /\ rerun[r].steps = run.steps

Done(steps, s) == steps[s].state \in {"completed", "skipped"}

(* The steps that are being executed.                                      *)
InHand(e, s) ==
  \/ pc[e] = "busy" /\ s = Item(e).id
  \/ pc[e] = "parallel" /\ s \in ToSet(Item(e).children)

(* The steps before the one an execution is at are over in the row, and in *)
(* its copy of the step states, which it is going to write.                *)
Prefix(e) ==
  /\ pc[e] \in (AtStep \ {"fail"}) \cup {"finish"} =>
       \A i \in 1..idx[e]-1 : \A s \in StepsOf(i) :
         Over(s) /\ (Done(local[e], s) \/ InHand(e, s))
  /\ pc[e] = "persist" => \A s \in StepsOf(idx[e]) : Done(local[e], s)

PrefixOver ==
  /\ \A e \in Exec : Prefix(e)
  /\ run.state = "completed" => \A i \in 1..Len(Plan) : \A s \in StepsOf(i) : Over(s)

(* A step that succeeded is recorded: in the row before it is loaded and   *)
(* when the run failed, in the copy of the execution in between.           *)
RecordedBy(e, s) ==
  /\ succ[s] = 1 => /\ pc[e] = "load" => run.steps[s].state = "completed"
                    /\ pc[e] \in Loaded => local[e][s].state = "completed"
  /\ pc[e] \in Loaded \ {"persist"} =>
       (local[e][s].state = "completed" => run.steps[s].state = "completed")

Recorded ==
  \A s \in StepId \ Children :
    /\ succ[s] <= 1
    /\ succ[s] = 1 /\ run.state = "failed" => run.steps[s].state = "completed"
    /\ \A e \in Exec : RecordedBy(e, s)

RunInv ==
  /\ NeverCancelled => OneAtATime
  /\ NothingUnsaved => PrefixOver /\ Recorded

-----------------------------------------------------------------------------
(* The plan.                                                               *)

LEMMA PlanFacts ==
  /\ Len(Plan) \in Nat
  /\ \A i \in 1..Len(Plan) :
       /\ Plan[i].type # "parallel" => Plan[i].id \in StepId
       /\ Plan[i].children \in Seq(StepId)
       /\ ToSet(Plan[i].children) \subseteq StepId
       /\ StepsOf(i) \subseteq StepId
  /\ Exec \subseteq Nat
<1>1. Plan \in Seq(StepDefinition) /\ Exec \subseteq Nat
  BY WorkflowAssumption DEF WorkflowAssumption, Exec
<1>2. ASSUME NEW i \in 1..Len(Plan)
      PROVE  /\ Plan[i].type # "parallel" => Plan[i].id \in StepId
             /\ Plan[i].children \in Seq(StepId)
  <2>1. Plan[i] \in StepDefinition
    BY <1>1
  <2> QED BY <2>1, WorkflowAssumption DEF WorkflowAssumption, StepDefinition
<1>3. ASSUME NEW i \in 1..Len(Plan)
      PROVE  ToSet(Plan[i].children) \subseteq StepId
  BY <1>2 DEF ToSet
<1> QED BY <1>1, <1>2, <1>3 DEF StepsOf

LEMMA FlattenedSteps ==
  ToSet(Flattened) = UNION {StepsOf(i) : i \in 1..Len(Plan)}
<1> DEFINE parts == [i \in 1..Len(Plan) |-> IF Plan[i].type = "parallel"
                                            THEN Plan[i].children
                                            ELSE <<Plan[i].id>>]
<1>1. parts \in Seq(Seq(StepId))
  <2>1. ASSUME NEW i \in 1..Len(Plan) PROVE parts[i] \in Seq(StepId)
    BY PlanFacts
  <2> QED BY <2>1, PlanFacts
<1>2. Len(parts) = Len(Plan)
  BY PlanFacts
<1>3. ASSUME NEW i \in 1..Len(Plan) PROVE ToSet(parts[i]) = StepsOf(i)
  BY DEF ToSet, StepsOf
<1>4. ToSet(FlattenSeq(parts)) = UNION {ToSet(parts[i]) : i \in 1..Len(parts)}
  BY <1>1, FlattenContents
<1> QED BY <1>2, <1>3, <1>4 DEF Flattened

-----------------------------------------------------------------------------
(* Types, and what an execution holds where.                               *)

(* A step of execution e leaves the others where they are.                 *)
Elsewhere(e) ==
  \A d \in Exec \ {e} : /\ pc'[d] = pc[d]       /\ idx'[d] = idx[d]
                        /\ local'[d] = local[d] /\ outs'[d] = outs[d]
                        /\ child'[d] = child[d]

LEMMA OthersStay ==
  ASSUME NEW e \in Exec, Elsewhere(e), NEW d \in Exec \ {e}, Where(d)
  PROVE  Where(d)'
BY DEF Where, Elsewhere, Item

LEMMA SpendKeeps ==
  ASSUME TypeOK, BudgetKept, NEW ev \in Event, Spend(ev)
  PROVE  left' \in [Event -> Nat] /\ BudgetKept' /\ Spent(ev)' > 0
<1>1. left \in [Event -> Nat] /\ Budget \in [Event -> Nat]
  BY WorkflowAssumption DEF WorkflowAssumption, TypeOK
<1>2. left[ev] > 0 /\ left' = [left EXCEPT ![ev] = @ - 1]
  BY DEF Spend
<1>3. \A d \in Event : left'[d] \in Nat /\ left'[d] <= left[d] /\ left'[d] <= Budget[d]
  BY <1>1, <1>2 DEF BudgetKept
<1>4. left' \in [Event -> Nat] /\ left'[ev] < Budget[ev]
  BY <1>1, <1>2, <1>3 DEF BudgetKept
<1> QED BY <1>1, <1>3, <1>4 DEF BudgetKept, Spent

LEMMA StepStays ==
  ASSUME NEW e \in Exec, WorkInv, Execute(e) \/ StatementError(e)
  PROVE  Elsewhere(e)
<1> USE DEF WorkInv, TypeOK, Elsewhere, Goto, AfterStep
<1>1. CASE Load(e) \/ MarkRunning(e) \/ SkipCompleted(e) \/ RefuseStep(e)
  BY <1>1 DEF Load, MarkRunning, SkipCompleted, RefuseStep
<1>2. CASE BeginStep(e) \/ SkipConditional(e)
  BY <1>2 DEF BeginStep, SkipConditional, BeginHandler
<1>3. CASE EndStep(e)
  BY <1>3 DEF EndStep, EndHandler
<1>4. CASE BeginParallel(e) \/ JoinParallel(e)
  BY <1>4 DEF BeginParallel, JoinParallel
<1>5. ASSUME NEW s \in StepId, BeginChild(e, s) \/ EndChild(e, s) PROVE Elsewhere(e)
  BY <1>5 DEF BeginChild, EndChild, BeginHandler, EndHandler
<1>6. CASE Persist(e) \/ FailRun(e) \/ FinishRun(e)
  BY <1>6 DEF Persist, FailRun, FinishRun
<1>7. CASE StatementError(e)
  BY <1>7 DEF StatementError
<1> QED BY <1>1, <1>2, <1>3, <1>4, <1>5, <1>6, <1>7 DEF Execute

LEMMA InitWork == Init => WorkInv
<1> SUFFICES ASSUME Init PROVE WorkInv
  OBVIOUS
<1>1. TypeOK
  BY PlanFacts, WorkflowAssumption
     DEF Init, TypeOK, WorkflowAssumption, AllPending, Pending, StepRunState, StepState,
         RunState, NoRerun, NoChildren
<1>2. BudgetKept
  BY WorkflowAssumption DEF Init, BudgetKept, WorkflowAssumption
<1>3. ASSUME NEW e \in Exec PROVE Where(e)
  BY DEF Init, Where, NoChildren, AtStep
<1> QED BY <1>1, <1>2, <1>3 DEF WorkInv

(* The parts of an execution's step that keep the types.                   *)
LEMMA StepItem ==
  ASSUME WorkInv, NEW e \in Exec, pc[e] \in AtStep
  PROVE  /\ idx[e] \in 1..Len(Plan)
         /\ Item(e).type # "parallel" => Item(e).id \in StepId
         /\ ToSet(Item(e).children) \subseteq StepId
BY PlanFacts DEF WorkInv, Where, Item

LEMMA BeginHandlerTypes ==
  ASSUME WorkInv, NEW e \in Exec, NEW s \in StepId, NEW type, BeginHandler(e, s, type)
  PROVE  /\ local' \in [Exec -> [StepId -> StepRunState]]
         /\ logs' \in [StepId -> Seq(Nat)]
         /\ local'[e] = [local[e] EXCEPT ![s] = local'[e][s]]
         /\ local'[e][s].state = "running"
<1> DEFINE attempt == IF Counts(type) THEN local[e][s].attempt + 1 ELSE 1
           new == [state |-> "running", attempt |-> attempt, out |-> FALSE]
<1>1. /\ local \in [Exec -> [StepId -> StepRunState]]
      /\ logs \in [StepId -> Seq(Nat)]
      /\ local[e][s] \in StepRunState
  BY DEF WorkInv, TypeOK
<1>2. attempt \in Nat /\ new \in StepRunState
  BY <1>1 DEF StepRunState, StepState
<1>3. local' = [local EXCEPT ![e][s] = new]
  BY DEF BeginHandler
<1>4. logs' = IF Counts(type) THEN [logs EXCEPT ![s] = Append(@, attempt)] ELSE logs
  BY DEF BeginHandler
<1>5. logs' \in [StepId -> Seq(Nat)]
  BY <1>1, <1>2, <1>4
<1>6. new.state = "running"
  OBVIOUS
<1> HIDE DEF new
<1> QED BY <1>1, <1>2, <1>3, <1>5, <1>6

LEMMA EndHandlerTypes ==
  ASSUME WorkInv, NEW e \in Exec, NEW s \in StepId, NEW type, NEW ok \in BOOLEAN,
         EndHandler(e, s, type, ok)
  PROVE  /\ local' \in [Exec -> [StepId -> StepRunState]]
         /\ outs' \in [Exec -> SUBSET StepId]
         /\ succ' \in [StepId -> Nat]
         /\ local'[e] = [local[e] EXCEPT ![s] = local'[e][s]]
         /\ local'[e][s].state = IF ok THEN "completed" ELSE "failed"
         /\ ok /\ type = "map" => local'[e][s].out
<1> DEFINE out == ok /\ type # "handler" /\ HasOutput(s, type)
           new == [local[e][s] EXCEPT !.state = IF ok THEN "completed" ELSE "failed",
                                      !.out = out]
<1>1. /\ local \in [Exec -> [StepId -> StepRunState]]
      /\ outs \in [Exec -> SUBSET StepId] /\ succ \in [StepId -> Nat]
      /\ local[e][s] \in StepRunState
  BY DEF WorkInv, TypeOK
<1>2. out \in BOOLEAN /\ (ok /\ type = "map" => out)
  BY DEF HasOutput
<1>3. local' = [local EXCEPT ![e][s] = new]
  BY <1>1 DEF EndHandler, StepRunState
<1> HIDE DEF out
<1>4. new \in StepRunState
  BY <1>1, <1>2 DEF StepRunState, StepState
<1>5. new.state = (IF ok THEN "completed" ELSE "failed") /\ new.out = out
  BY <1>1 DEF StepRunState
<1>6. outs' \in [Exec -> SUBSET StepId] /\ succ' \in [StepId -> Nat]
  BY <1>1 DEF EndHandler
<1> HIDE DEF new
<1> QED BY <1>1, <1>2, <1>3, <1>4, <1>5, <1>6

(* Where the execution goes after a step that is over.                     *)
LEMMA AfterStepPlace ==
  ASSUME NEW e \in Exec, NEW i \in Nat \ {0}, i <= Len(Plan) + 1,
         TypeOK, AfterStep(e, i)
  PROVE  /\ pc'[e] = IF i > Len(Plan) THEN "finish" ELSE "begin"
         /\ i > Len(Plan) => i = Len(Plan) + 1
         /\ i <= Len(Plan) => i \in 1..Len(Plan)
BY PlanFacts DEF AfterStep, Goto, TypeOK

LEMMA WorkStep ==
  ASSUME WorkInv, NEW e \in Exec, Execute(e) \/ StatementError(e)
  PROVE  WorkInv'
<1> USE DEF Goto
<1>0. TypeOK /\ BudgetKept /\ Where(e) /\ Elsewhere(e)
  BY StepStays DEF WorkInv
<1> SUFFICES TypeOK' /\ BudgetKept' /\ Where(e)'
  <2>1. \A d \in Exec \ {e} : Where(d)'
    BY <1>0, OthersStay DEF WorkInv
  <2> QED BY <2>1 DEF WorkInv
<1>1. CASE Load(e) \/ MarkRunning(e)
  <2>1. TypeOK'
    <3>1. CASE Load(e)
      <4>1. run.steps \in [StepId -> StepRunState]
        BY <1>0 DEF TypeOK
      <4>2. local' = [local EXCEPT ![e] = run.steps] /\ pc' = [pc EXCEPT ![e] = "mark"]
        BY <3>1 DEF Load
      <4>3. outs' = [outs EXCEPT ![e] = {s \in StepId : run.steps[s].out}]
        BY <3>1 DEF Load
      <4>4. outs' \in [Exec -> SUBSET StepId] /\ local' \in [Exec -> [StepId -> StepRunState]]
        BY <1>0, <4>1, <4>2, <4>3 DEF TypeOK
      <4> QED BY <1>0, <3>1, <4>2, <4>4 DEF TypeOK, Load
    <3>2. CASE MarkRunning(e)
      BY <1>0, <3>2 DEF TypeOK, MarkRunning, AfterStep, RunState
    <3> QED BY <1>1, <3>1, <3>2
  <2>2. Where(e)'
    BY <1>0, <1>1, PlanFacts
       DEF TypeOK, Where, Load, MarkRunning, AfterStep, Item, AtStep
  <2> QED BY <1>0, <1>1, <2>1, <2>2 DEF Load, MarkRunning, BudgetKept
<1>2. CASE SkipCompleted(e) \/ RefuseStep(e)
  <2>1. TypeOK'
    BY <1>0, <1>2 DEF TypeOK, SkipCompleted, RefuseStep
  <2>2. Where(e)'
    BY <1>0, <1>2, PlanFacts
       DEF TypeOK, Where, SkipCompleted, RefuseStep, Item, AtStep
  <2> QED BY <1>0, <1>2, <2>1, <2>2 DEF SkipCompleted, RefuseStep, BudgetKept
<1>3. CASE BeginStep(e)
  <2>1. /\ Item(e).type # "parallel" /\ Item(e).id \in StepId
        /\ BeginHandler(e, Item(e).id, Item(e).type)
    BY <1>0, <1>3, StepItem DEF BeginStep, AtStep
  <2>2. TypeOK'
    BY <1>0, <1>3, <2>1, BeginHandlerTypes DEF TypeOK, BeginStep
  <2>3. local'[e][Item(e).id].state = "running"
    BY <2>1, BeginHandlerTypes
  <2>4. Where(e)'
    BY <1>0, <1>3, <2>1, <2>3 DEF TypeOK, Where, BeginStep, Item, AtStep
  <2> QED BY <1>0, <1>3, <2>2, <2>4 DEF BeginStep, BudgetKept
<1>4. CASE SkipConditional(e)
  <2>1. Item(e).type # "parallel" /\ Item(e).id \in StepId
    BY <1>0, <1>4, StepItem DEF SkipConditional, AtStep
  <2>2. TypeOK'
    BY <1>0, <1>4, <2>1 DEF TypeOK, SkipConditional, StepRunState, StepState
  <2>3. Where(e)'
    BY <1>0, <1>4, <2>1 DEF TypeOK, Where, SkipConditional, Item, AtStep
  <2> QED BY <1>0, <1>4, <2>2, <2>3 DEF SkipConditional, BudgetKept
<1>5. CASE EndStep(e)
  <2>1. PICK ok \in BOOLEAN : /\ EndHandler(e, Item(e).id, Item(e).type, ok)
                              /\ Goto(e, IF ok THEN "persist" ELSE "fail")
    BY <1>5 DEF EndStep
  <2>2. Item(e).type # "parallel" /\ Item(e).id \in StepId
    BY <1>0, <1>5, StepItem DEF EndStep, AtStep, Where
  <2>3. TypeOK'
    <3>1. /\ local' \in [Exec -> [StepId -> StepRunState]]
          /\ outs' \in [Exec -> SUBSET StepId] /\ succ' \in [StepId -> Nat]
      BY <2>1, <2>2, EndHandlerTypes
    <3>2. pc' = [pc EXCEPT ![e] = IF ok THEN "persist" ELSE "fail"]
      BY <2>1
    <3> QED BY <1>0, <1>5, <3>1, <3>2 DEF TypeOK, EndStep
  <2>4. Where(e)'
    BY <1>0, <1>5, <2>1, <2>2 DEF TypeOK, Where, EndStep, Item, AtStep
  <2> QED BY <1>0, <1>5, <2>3, <2>4 DEF EndStep, BudgetKept
<1>6. CASE BeginParallel(e) \/ JoinParallel(e)
  <2>1. TypeOK'
    <3>1. CASE BeginParallel(e)
      <4> DEFINE new == [s \in StepId |-> IF s \in ToSet(Item(e).children)
                                          THEN "todo" ELSE "none"]
      <4>1. new \in [StepId -> {"none", "todo", "busy", "ok", "error"}]
        OBVIOUS
      <4>2. child' = [child EXCEPT ![e] = new]
        BY <3>1 DEF BeginParallel
      <4> HIDE DEF new
      <4>3. child' \in [Exec -> [StepId -> {"none", "todo", "busy", "ok", "error"}]]
        BY <1>0, <4>1, <4>2 DEF TypeOK
      <4> QED BY <1>0, <3>1, <4>3 DEF TypeOK, BeginParallel
    <3>2. CASE JoinParallel(e)
      BY <1>0, <3>2 DEF TypeOK, JoinParallel, NoChildren
    <3> QED BY <1>6, <3>1, <3>2
  <2>2. Where(e)'
    BY <1>0, <1>6 DEF TypeOK, Where, BeginParallel, JoinParallel, NoChildren, Item, AtStep
  <2> QED BY <1>0, <1>6, <2>1, <2>2 DEF BeginParallel, JoinParallel, BudgetKept
<1>7. ASSUME NEW s \in StepId, BeginChild(e, s) PROVE TypeOK' /\ BudgetKept' /\ Where(e)'
  <2>0. /\ local' \in [Exec -> [StepId -> StepRunState]] /\ logs' \in [StepId -> Seq(Nat)]
        /\ \A t \in StepId : t # s => local'[e][t] = local[e][t]
    <3>1. CASE s \in Registered
      <4>1. BeginHandler(e, s, "sequential")
        BY <1>7, <3>1 DEF BeginChild
      <4>2. /\ local' \in [Exec -> [StepId -> StepRunState]]
            /\ logs' \in [StepId -> Seq(Nat)]
            /\ local'[e] = [local[e] EXCEPT ![s] = local'[e][s]]
        BY <4>1, BeginHandlerTypes
      <4> QED BY <1>0, <4>2 DEF TypeOK
    <3>2. CASE s \notin Registered
      BY <1>0, <1>7, <3>2 DEF BeginChild, TypeOK
    <3> QED BY <3>1, <3>2
  <2>1. TypeOK'
    <3>1. child' \in [Exec -> [StepId -> {"none", "todo", "busy", "ok", "error"}]]
      <4>1. PICK to \in {"busy", "error"} : child' = [child EXCEPT ![e][s] = to]
        BY <1>7 DEF BeginChild
      <4> QED BY <1>0, <4>1 DEF TypeOK
    <3> QED BY <1>0, <1>7, <2>0, <3>1 DEF TypeOK, BeginChild
  <2>2. \A t \in StepId : t # s => local'[e][t] = local[e][t] /\ child'[e][t] = child[e][t]
    BY <1>0, <1>7, <2>0 DEF TypeOK, BeginChild
  <2>3. child'[e][s] \in {"busy", "error"} /\ child[e][s] = "todo" /\ pc[e] = "parallel"
    BY <1>0, <1>7 DEF TypeOK, BeginChild
  <2>4. pc' = pc /\ idx' = idx /\ left' = left
    BY <1>7 DEF BeginChild
  <2>5. Where(e)'
    BY <1>0, <2>2, <2>3, <2>4 DEF Where, Item, AtStep
  <2> QED BY <1>0, <2>1, <2>4, <2>5 DEF BudgetKept
<1>8. ASSUME NEW s \in StepId, EndChild(e, s) PROVE TypeOK' /\ BudgetKept' /\ Where(e)'
  <2>1. PICK ok \in BOOLEAN :
          /\ EndHandler(e, s, "sequential", ok)
          /\ child' = [child EXCEPT ![e][s] = IF ok THEN "ok" ELSE "error"]
    BY <1>8 DEF EndChild
  <2>0. /\ local' \in [Exec -> [StepId -> StepRunState]]
        /\ outs' \in [Exec -> SUBSET StepId] /\ succ' \in [StepId -> Nat]
        /\ local'[e] = [local[e] EXCEPT ![s] = local'[e][s]]
        /\ local'[e][s].state = IF ok THEN "completed" ELSE "failed"
    BY <2>1, EndHandlerTypes
  <2>2. TypeOK'
    <3>1. child' \in [Exec -> [StepId -> {"none", "todo", "busy", "ok", "error"}]]
      BY <1>0, <2>1 DEF TypeOK
    <3> QED BY <1>0, <1>8, <2>0, <3>1 DEF TypeOK, EndChild
  <2>3. \A t \in StepId : t # s => local'[e][t] = local[e][t] /\ child'[e][t] = child[e][t]
    BY <1>0, <2>0, <2>1 DEF TypeOK
  <2>4. /\ child'[e][s] \in {"ok", "error"} /\ child[e][s] = "busy" /\ pc[e] = "parallel"
        /\ child'[e][s] = "ok" => local'[e][s].state = "completed"
    BY <1>0, <1>8, <2>0, <2>1 DEF TypeOK, EndChild
  <2>5. pc' = pc /\ idx' = idx /\ left' = left
    BY <1>8 DEF EndChild
  <2>6. Where(e)'
    BY <1>0, <2>3, <2>4, <2>5 DEF Where, Item, AtStep
  <2> QED BY <1>0, <2>2, <2>5, <2>6 DEF BudgetKept
<1>9. CASE Persist(e)
  <2>1. idx[e] \in 1..Len(Plan)
    BY <1>0, <1>9 DEF Where, Persist, AtStep
  <2>2. /\ pc'[e] = IF idx[e] + 1 > Len(Plan) THEN "finish" ELSE "begin"
        /\ idx[e] + 1 > Len(Plan) => idx[e] + 1 = Len(Plan) + 1
        /\ idx[e] + 1 <= Len(Plan) => idx[e] + 1 \in 1..Len(Plan)
        /\ idx'[e] = idx[e] + 1
    <3>1. AfterStep(e, idx[e] + 1) /\ idx[e] + 1 \in Nat \ {0} /\ idx[e] + 1 <= Len(Plan) + 1
      BY <1>9, <2>1, PlanFacts DEF Persist
    <3>2. idx'[e] = idx[e] + 1
      BY <1>0, <1>9 DEF Persist, TypeOK
    <3> QED BY <1>0, <3>1, <3>2, AfterStepPlace
  <2>3. TypeOK'
    <3>1. idx' \in [Exec -> 1..Len(Plan) + 1]
      BY <1>0, <1>9, <2>1, PlanFacts DEF TypeOK, Persist
    <3>2. pc' = [pc EXCEPT ![e] = IF idx[e] + 1 > Len(Plan) THEN "finish" ELSE "begin"]
      BY <1>9 DEF Persist, AfterStep
    <3>3. run' \in [state : RunState, steps : [StepId -> StepRunState]]
      BY <1>0, <1>9 DEF TypeOK, Persist
    <3> QED BY <1>0, <1>9, <3>1, <3>2, <3>3 DEF TypeOK, Persist
  <2>4. Where(e)'
    BY <1>0, <1>9, <2>1, <2>2, PlanFacts DEF TypeOK, Where, Persist, Item, AtStep
  <2> QED BY <1>0, <1>9, <2>3, <2>4 DEF Persist, BudgetKept
<1>10. CASE FailRun(e) \/ FinishRun(e)
  <2>1. TypeOK'
    BY <1>0, <1>10 DEF TypeOK, FailRun, FinishRun, RunState
  <2>2. Where(e)'
    BY <1>0, <1>10 DEF TypeOK, Where, FailRun, FinishRun, Item, AtStep
  <2> QED BY <1>0, <1>10, <2>1, <2>2 DEF FailRun, FinishRun, BudgetKept
<1>11. CASE StatementError(e)
  <2>1. left' \in [Event -> Nat] /\ BudgetKept'
    BY <1>0, <1>11, SpendKeeps DEF StatementError, Event
  <2>2. CASE pc[e] = "persist"
    <3>1. idx[e] \in 1..Len(Plan)
      BY <1>0, <2>2 DEF Where, AtStep
    <3>2. /\ pc'[e] = IF idx[e] + 1 > Len(Plan) THEN "finish" ELSE "begin"
          /\ idx[e] + 1 > Len(Plan) => idx[e] + 1 = Len(Plan) + 1
          /\ idx[e] + 1 <= Len(Plan) => idx[e] + 1 \in 1..Len(Plan)
          /\ idx'[e] = idx[e] + 1
      <4>1. AfterStep(e, idx[e] + 1) /\ idx[e] + 1 \in Nat \ {0} /\ idx[e] + 1 <= Len(Plan) + 1
        BY <1>11, <2>2, <3>1, PlanFacts DEF StatementError
      <4>2. idx'[e] = idx[e] + 1
        BY <1>0, <1>11, <2>2 DEF StatementError, TypeOK
      <4> QED BY <1>0, <4>1, <4>2, AfterStepPlace
    <3>3. TypeOK'
      <4>1. idx' \in [Exec -> 1..Len(Plan) + 1]
        <5>1. idx' = [idx EXCEPT ![e] = @ + 1] /\ idx[e] + 1 \in 1..Len(Plan) + 1
          BY <1>11, <2>2, <3>1, PlanFacts DEF StatementError
        <5> QED BY <1>0, <5>1 DEF TypeOK
      <4>2. pc' = [pc EXCEPT ![e] = IF idx[e] + 1 > Len(Plan) THEN "finish" ELSE "begin"]
        BY <1>11, <2>2 DEF StatementError, AfterStep
      <4> QED BY <1>0, <1>11, <2>1, <4>1, <4>2 DEF TypeOK, StatementError
    <3>4. Where(e)'
      BY <1>0, <1>11, <2>2, <3>1, <3>2, PlanFacts DEF TypeOK, Where, StatementError, Item, AtStep
    <3> QED BY <2>1, <3>3, <3>4
  <2>3. CASE pc[e] # "persist"
    <3>1. TypeOK'
      BY <1>0, <1>11, <2>1, <2>3 DEF TypeOK, StatementError
    <3>2. Where(e)'
      BY <1>0, <1>11, <2>3 DEF TypeOK, Where, StatementError, Item, AtStep
    <3> QED BY <2>1, <3>1, <3>2
  <2> QED BY <2>2, <2>3
<1> QED BY <1>1, <1>2, <1>3, <1>4, <1>5, <1>6, <1>7, <1>8, <1>9, <1>10, <1>11 DEF Execute

LEMMA SpawnPlaces ==
  ASSUME TypeOK, Spawn
  PROVE  \E e \in Exec : /\ pc[e] = "unused" /\ pc' = [pc EXCEPT ![e] = "load"]
                         /\ pc' \in [Exec -> {"unused", "load", "mark", "begin", "busy", "parallel",
                                              "persist", "fail", "finish", "ended"}]
BY DEF Spawn, Goto, TypeOK

(* Spawning an execution that has not begun leaves everything in its place.*)
LEMMA SpawnWhere ==
  ASSUME WorkInv, Spawn, UNCHANGED <<idx, local, child>>
  PROVE  \A d \in Exec : Where(d)'
<1>1. PICK e \in Exec : pc[e] = "unused" /\ pc' = [pc EXCEPT ![e] = "load"]
  BY SpawnPlaces DEF WorkInv
<1>2. ASSUME NEW d \in Exec PROVE Where(d)'
  BY <1>1 DEF WorkInv, TypeOK, Where, Item, AtStep
<1> QED BY <1>2

LEMMA WorkStart == ASSUME WorkInv, StartWorkflow PROVE WorkInv'
<1>1. TypeOK'
  <2>1. run' \in [state : RunState, steps : [StepId -> StepRunState]]
    BY DEF WorkInv, TypeOK, StartWorkflow, RunState
  <2> QED BY <2>1, SpawnPlaces DEF WorkInv, TypeOK, StartWorkflow
<1> QED BY <1>1, SpawnWhere DEF WorkInv, StartWorkflow, BudgetKept

LEMMA WorkCancel == ASSUME WorkInv, CancelWorkflowRun PROVE WorkInv'
<1>1. left' \in [Event -> Nat] /\ BudgetKept'
  BY SpendKeeps DEF WorkInv, CancelWorkflowRun, Event
<1>2. TypeOK'
  BY <1>1 DEF WorkInv, TypeOK, CancelWorkflowRun, RunState, execVars
<1>3. \A d \in Exec : Where(d)'
  BY DEF WorkInv, Where, CancelWorkflowRun, execVars, Item
<1> QED BY <1>1, <1>2, <1>3 DEF WorkInv

LEMMA WorkCrash == ASSUME WorkInv, Crash PROVE WorkInv'
<1>1. left' \in [Event -> Nat] /\ BudgetKept'
  BY SpendKeeps DEF WorkInv, Crash, Event
<1>2. \A e \in Exec : pc'[e] = IF Active(e) THEN "ended" ELSE pc[e]
  BY DEF Crash
<1>3. pc' \in [Exec -> {"unused", "load", "mark", "begin", "busy", "parallel",
                        "persist", "fail", "finish", "ended"}]
  BY DEF WorkInv, TypeOK, Crash
<1>4. rerun' = [r \in Rerunner |-> NoRerun] /\ child' = [e \in Exec |-> NoChildren]
  BY DEF Crash
<1>5. TypeOK'
  BY <1>1, <1>3, <1>4 DEF WorkInv, TypeOK, Crash, NoRerun, NoChildren, AllPending, Pending,
     StepRunState, StepState
<1>6. ASSUME NEW d \in Exec PROVE Where(d)'
  <2>1. /\ idx'[d] = idx[d] /\ local'[d] = local[d]
        /\ \A s \in StepId : child'[d][s] = "none"
    BY <1>4 DEF Crash, NoChildren
  <2>2. \/ pc'[d] = "ended"
        \/ pc'[d] = pc[d] /\ pc[d] \in {"unused", "ended"}
    BY <1>2 DEF Active
  <2>3. pc[d] = "unused" => idx[d] = 1
    BY DEF WorkInv, Where
  <2>4. pc'[d] \in {"unused", "ended"} /\ (pc'[d] = "unused" => idx'[d] = 1)
    BY <2>1, <2>2, <2>3
  <2> QED BY <2>1, <2>4 DEF Where, AtStep
<1> QED BY <1>1, <1>5, <1>6 DEF WorkInv

LEMMA WorkRerunRead ==
  ASSUME WorkInv, NEW r \in Rerunner, NEW from \in 1..Len(Flattened), RerunRead(r, from)
  PROVE  WorkInv'
<1>1. [pc |-> "decided", from |-> from, steps |-> run.steps] \in
        [pc : {"idle", "decided"}, from : Nat, steps : [StepId -> StepRunState]]
  BY DEF WorkInv, TypeOK
<1>2. TypeOK'
  BY <1>1 DEF WorkInv, TypeOK, RerunRead, execVars
<1>3. \A d \in Exec : Where(d)'
  BY DEF WorkInv, Where, RerunRead, execVars, Item
<1> QED BY <1>2, <1>3 DEF WorkInv, RerunRead, BudgetKept

(* What RerunReset does to a step.                                         *)
LEMMA ResetSteps ==
  ASSUME WorkInv, NEW r \in Rerunner, RerunReset(r)
  PROVE  /\ run'.state = "running"
         /\ run' \in [state : RunState, steps : [StepId -> StepRunState]]
         /\ succ' \in [StepId -> Nat]
         /\ \A s \in StepId :
              \/ run'.steps[s].state = "pending" /\ succ'[s] = 0
              \/ run'.steps[s] = rerun[r].steps[s] /\ succ'[s] = succ[s]
<1> DEFINE new == [s \in StepId |->
                     IF s \in ResetFrom(r)
                     THEN [Pending EXCEPT !.attempt = rerun[r].steps[s].attempt]
                     ELSE rerun[r].steps[s]]
<1>1. run' = [state |-> "running", steps |-> new]
  BY DEF RerunReset
<1>2. \A s \in StepId : rerun[r].steps[s] \in StepRunState
  BY DEF WorkInv, TypeOK
<1>3. ASSUME NEW s \in StepId
      PROVE  /\ new[s] \in StepRunState
             /\ \/ new[s].state = "pending" /\ s \in ResetFrom(r)
                \/ new[s] = rerun[r].steps[s] /\ s \notin ResetFrom(r)
  BY <1>2 DEF Pending, StepRunState, StepState
<1>4. succ' = [s \in StepId |-> IF s \in ResetFrom(r) THEN 0 ELSE succ[s]]
  BY DEF RerunReset
<1> HIDE DEF new
<1>5. new = [s \in StepId |-> new[s]]
  BY DEF new
<1>6. new \in [StepId -> StepRunState]
  BY <1>3, <1>5
<1>7. succ' \in [StepId -> Nat]
  BY <1>4 DEF WorkInv, TypeOK
<1> QED BY <1>1, <1>3, <1>4, <1>6, <1>7 DEF RunState

LEMMA WorkRerunReset ==
  ASSUME WorkInv, NEW r \in Rerunner, RerunReset(r)
  PROVE  WorkInv'
<1>1. NoRerun \in [pc : {"idle", "decided"}, from : Nat, steps : [StepId -> StepRunState]]
  BY DEF NoRerun, AllPending, Pending, StepRunState, StepState
<1>2. rerun' = [rerun EXCEPT ![r] = NoRerun]
  BY DEF RerunReset
<1>3. TypeOK'
  <2>1. rerun' \in [Rerunner -> [pc    : {"idle", "decided"},
                                 from  : Nat,
                                 steps : [StepId -> StepRunState]]]
    BY <1>1, <1>2 DEF WorkInv, TypeOK
  <2>2. /\ run' \in [state : RunState, steps : [StepId -> StepRunState]]
        /\ succ' \in [StepId -> Nat]
    BY ResetSteps
  <2>3. TypeOK /\ Spawn /\ UNCHANGED <<idx, local, outs, child, logs, left>>
    BY DEF WorkInv, RerunReset
  <2>4. pc' \in [Exec -> {"unused", "load", "mark", "begin", "busy", "parallel",
                          "persist", "fail", "finish", "ended"}]
    BY <2>3, SpawnPlaces
  <2> QED BY <2>1, <2>2, <2>3, <2>4 DEF TypeOK
<1> QED BY <1>3, SpawnWhere DEF WorkInv, RerunReset, BudgetKept

LEMMA WorkNext == WorkInv /\ [Next]_vars => WorkInv'
<1> SUFFICES ASSUME WorkInv, [Next]_vars PROVE WorkInv'
  OBVIOUS
<1>1. CASE UNCHANGED vars
  BY <1>1 DEF WorkInv, TypeOK, BudgetKept, Where, Item, vars, execVars
<1>2. CASE StartWorkflow \/ CancelWorkflowRun \/ Crash
  BY <1>2, WorkStart, WorkCancel, WorkCrash
<1>3. ASSUME NEW e \in Exec, Execute(e) \/ StatementError(e) PROVE WorkInv'
  BY <1>3, WorkStep
<1>4. ASSUME NEW r \in Rerunner, RerunReset(r) PROVE WorkInv'
  BY <1>4, WorkRerunReset
<1>5. ASSUME NEW r \in Rerunner, NEW from \in 1..Len(Flattened), RerunRead(r, from) PROVE WorkInv'
  BY <1>5, WorkRerunRead
<1> QED BY <1>1, <1>2, <1>3, <1>4, <1>5 DEF Next

LEMMA WorkHolds == Spec => []WorkInv
BY InitWork, WorkNext, PTL DEF Spec

(* The row, the copies of it and the goroutines keep their types, and the  *)
(* position of an execution stays in the plan.                             *)
THEOREM WorkflowTypes == Spec => []TypeOK
<1>1. WorkInv => TypeOK
  BY DEF WorkInv
<1> QED BY <1>1, WorkHolds, PTL

-----------------------------------------------------------------------------
(* The outputs of map steps.                                               *)

LEMMA MapIdFacts ==
  ASSUME OwnMapIds
  PROVE  /\ MapIds \subseteq StepId /\ MapIds \cap Children = {}
         /\ \A i \in 1..Len(Plan) : /\ Plan[i].type = "map" => Plan[i].id \in MapIds
                                    /\ /\ Plan[i].type # "parallel"
                                       /\ Plan[i].id \in MapIds
                                       => Plan[i].type = "map"
BY PlanFacts DEF OwnMapIds, MapIds

LEMMA OthersCarry ==
  ASSUME MapInv, NEW e \in Exec, Elsewhere(e), NEW d \in Exec \ {e}
  PROVE  Kept(local'[d]) /\ Carried(d)'
BY DEF MapInv, Elsewhere, Kept, Carried, Item

(* A step that leaves the outputs alone.                                   *)
LEMMA QuietCarry ==
  ASSUME MapInv, WorkInv, NEW e \in Exec, local'[e] = local[e], outs'[e] = outs[e],
         pc'[e] \in Loaded => pc[e] \in Loaded,
         pc'[e] \in AtStep \cup {"finish"} =>
           \/ pc[e] \in AtStep \cup {"finish"} /\ idx'[e] = idx[e]
           \/ pc[e] = "persist" /\ idx'[e] = idx[e] + 1
           \/ idx'[e] = 1,
         pc'[e] = "persist" => /\ idx'[e] = idx[e]
                               /\ Item(e).type = "map" => Item(e).id \in outs[e]
  PROVE  Kept(local'[e]) /\ Carried(e)'
<1>0. Kept(local[e]) /\ Carried(e) /\ idx[e] \in 1..Len(Plan) + 1 /\ Where(e) /\ Len(Plan) \in Nat
  BY PlanFacts DEF MapInv, WorkInv, TypeOK
<1>1. Kept(local'[e])
  BY <1>0
<1>2. pc'[e] \in Loaded => \A s \in MapIds : local'[e][s].state = "completed" => s \in outs'[e]
  BY <1>0 DEF Carried
<1>3. ASSUME pc'[e] \in AtStep \cup {"finish"}, NEW i \in 1..idx'[e]-1, Plan[i].type = "map"
      PROVE  Plan[i].id \in outs'[e]
  <2>1. CASE pc[e] \in AtStep \cup {"finish"} /\ idx'[e] = idx[e]
    BY <1>0, <1>3, <2>1 DEF Carried
  <2>2. CASE pc[e] = "persist" /\ idx'[e] = idx[e] + 1
    <3>1. CASE i = idx[e]
      BY <1>0, <1>3, <2>2, <3>1 DEF Carried, Item
    <3>2. CASE i # idx[e]
      <4>1. i \in 1..idx[e]-1
        BY <1>0, <2>2, <3>2
      <4> QED BY <1>0, <1>3, <2>2, <4>1 DEF Carried, AtStep
    <3> QED BY <3>1, <3>2
  <2>3. CASE idx'[e] = 1
    BY <2>3
  <2> QED BY <1>3, <2>1, <2>2, <2>3
<1>4. ASSUME pc'[e] = "persist", Plan[idx'[e]].type = "map" PROVE Plan[idx'[e]].id \in outs'[e]
  BY <1>4 DEF Item
<1> QED BY <1>1, <1>2, <1>3, <1>4 DEF Carried, Item

LEMMA MapStep ==
  ASSUME OwnMapIds, WorkInv, MapInv, NEW e \in Exec, Execute(e) \/ StatementError(e)
  PROVE  MapInv'
<1> USE DEF Goto
<1>0. /\ TypeOK /\ Where(e) /\ Elsewhere(e)
      /\ Kept(run.steps) /\ Kept(local[e]) /\ Carried(e)
      /\ MapIds \subseteq StepId /\ MapIds \cap Children = {}
  BY StepStays, MapIdFacts DEF WorkInv, MapInv
<1> SUFFICES Kept(run'.steps) /\ Kept(local'[e]) /\ Carried(e)' /\ rerun' = rerun
  <2>1. \A d \in Exec \ {e} : Kept(local'[d]) /\ Carried(d)'
    BY <1>0, OthersCarry
  <2> QED BY <2>1 DEF MapInv
<1>1. CASE Load(e)
  <2>1. /\ local'[e] = run.steps /\ outs'[e] = {s \in StepId : run.steps[s].out}
        /\ pc'[e] = "mark" /\ run' = run /\ rerun' = rerun
    BY <1>0, <1>1 DEF Load, TypeOK
  <2>2. Carried(e)'
    BY <1>0, <2>1 DEF Carried, Kept, AtStep
  <2> QED BY <1>0, <2>1, <2>2
<1>2. CASE MarkRunning(e) \/ SkipCompleted(e) \/ RefuseStep(e) \/ BeginParallel(e)
           \/ JoinParallel(e) \/ FailRun(e) \/ FinishRun(e)
  <2>1. /\ local' = local /\ outs' = outs /\ idx' = idx /\ rerun' = rerun /\ run'.steps = run.steps
        /\ pc[e] \in Loaded
        /\ pc[e] = "mark" \/ pc'[e] = "ended" \/ pc[e] \in AtStep
    BY <1>0, <1>2 DEF MarkRunning, SkipCompleted, RefuseStep, BeginParallel, JoinParallel,
       FailRun, FinishRun, TypeOK, Loaded, AtStep, AfterStep
  <2>2. pc'[e] = "persist" =>
          /\ pc[e] \in Loaded
          /\ Item(e).type = "map" => /\ local[e][Item(e).id].state = "completed"
                                     /\ pc[e] \in AtStep
    BY <1>0, <1>2 DEF MarkRunning, SkipCompleted, RefuseStep, BeginParallel, JoinParallel,
       FailRun, FinishRun, TypeOK, Loaded, AtStep, AfterStep, Replayed, Where
  <2>3. pc'[e] = "persist" /\ Item(e).type = "map" => Item(e).id \in outs[e]
    <3>1. ASSUME pc'[e] = "persist", Item(e).type = "map" PROVE Item(e).id \in outs[e]
      <4>1. Item(e).id \in MapIds
        BY <1>0, <2>2, <3>1, MapIdFacts DEF Where, Item
      <4> QED BY <1>0, <2>2, <3>1, <4>1 DEF Carried
    <3> QED BY <3>1
  <2>4. pc[e] = "mark" => idx[e] = 1
    BY <1>0 DEF Where
  <2>5. Kept(local'[e]) /\ Carried(e)'
    BY <2>1, <2>3, <2>4, QuietCarry DEF AtStep
  <2> QED BY <1>0, <2>1, <2>5
<1>3. CASE Persist(e)
  <2>1. /\ local' = local /\ outs' = outs /\ rerun' = rerun /\ run'.steps = local[e]
        /\ pc[e] = "persist" /\ pc'[e] \in {"begin", "finish"} /\ idx'[e] = idx[e] + 1
    BY <1>0, <1>3 DEF Persist, AfterStep, TypeOK
  <2>2. Kept(local'[e]) /\ Carried(e)'
    BY <2>1, QuietCarry DEF Loaded
  <2> QED BY <1>0, <2>1, <2>2
<1>4. CASE StatementError(e)
  <2>1. /\ local' = local /\ outs' = outs /\ rerun' = rerun /\ run' = run
        /\ \/ pc'[e] = "ended"
           \/ /\ pc[e] = "persist" /\ pc'[e] \in {"begin", "finish"}
              /\ idx'[e] = idx[e] + 1
    BY <1>0, <1>4 DEF StatementError, AfterStep, TypeOK
  <2>2. Kept(local'[e]) /\ Carried(e)'
    BY <2>1, QuietCarry DEF Loaded, AtStep
  <2> QED BY <1>0, <2>1, <2>2
<1>5. CASE BeginStep(e) \/ SkipConditional(e) \/ EndStep(e)
  <2> DEFINE s == Item(e).id
  <2>1. /\ pc[e] \in {"begin", "busy"} /\ Item(e).type # "parallel" /\ s \in StepId
        /\ idx' = idx /\ run' = run /\ rerun' = rerun
        /\ pc'[e] \in {"busy", "persist", "fail"}
    BY <1>0, <1>5, StepItem DEF BeginStep, SkipConditional, EndStep, Where, AtStep, TypeOK
  <2>2. /\ \A t \in StepId : t # s => local'[e][t] = local[e][t]
        /\ outs[e] \subseteq outs'[e]
        /\ Item(e).type = "map" /\ local'[e][s].state = "completed" =>
             local'[e][s].out /\ s \in outs'[e]
        /\ Item(e).type = "map" /\ pc'[e] = "persist" => local'[e][s].state = "completed"
    <3>1. CASE BeginStep(e)
      <4>1. BeginHandler(e, s, Item(e).type) /\ outs' = outs /\ pc'[e] = "busy"
        BY <1>0, <3>1 DEF BeginStep, TypeOK
      <4>2. /\ local'[e] = [local[e] EXCEPT ![s] = local'[e][s]]
            /\ local'[e][s].state = "running"
        BY <2>1, <4>1, BeginHandlerTypes
      <4> QED BY <1>0, <4>1, <4>2 DEF TypeOK
    <3>2. CASE SkipConditional(e)
      BY <1>0, <2>1, <3>2 DEF SkipConditional, TypeOK
    <3>3. CASE EndStep(e)
      <4>1. PICK ok \in BOOLEAN : /\ EndHandler(e, s, Item(e).type, ok)
                                  /\ pc'[e] = IF ok THEN "persist" ELSE "fail"
        BY <1>0, <3>3 DEF EndStep, TypeOK
      <4>2. /\ local'[e] = [local[e] EXCEPT ![s] = local'[e][s]]
            /\ local'[e][s].state = IF ok THEN "completed" ELSE "failed"
            /\ ok /\ Item(e).type = "map" => local'[e][s].out
        BY <2>1, <4>1, EndHandlerTypes
      <4>3. /\ outs[e] \subseteq outs'[e]
            /\ ok /\ Item(e).type = "map" => s \in outs'[e]
        BY <1>0, <4>1 DEF EndHandler, TypeOK, KeepsKey, HasOutput
      <4> QED BY <1>0, <4>1, <4>2, <4>3 DEF TypeOK
    <3> QED BY <1>5, <3>1, <3>2, <3>3
  <2>3. s \in MapIds => Item(e).type = "map"
    BY <1>0, <2>1, MapIdFacts DEF Where, Item, AtStep
  <2>4. Item(e).type = "map" => s \in MapIds
    BY <1>0, <2>1, MapIdFacts DEF Where, Item, AtStep
  <2> HIDE DEF s
  <2>5. Kept(local'[e])
    BY <1>0, <2>2, <2>3 DEF Kept
  <2>6. \A t \in MapIds : local'[e][t].state = "completed" => t \in outs'[e]
    BY <1>0, <2>1, <2>2, <2>3 DEF Carried, Loaded
  <2>7. \A i \in 1..idx'[e]-1 : Plan[i].type = "map" => Plan[i].id \in outs'[e]
    BY <1>0, <2>1, <2>2 DEF Carried, AtStep
  <2>8. pc'[e] = "persist" /\ Item(e).type = "map" => s \in outs'[e]
    BY <2>2
  <2>9. Carried(e)'
    BY <2>1, <2>6, <2>7, <2>8 DEF Carried, Item, s
  <2> QED BY <1>0, <2>1, <2>5, <2>9
<1>6. ASSUME NEW s \in StepId, BeginChild(e, s) \/ EndChild(e, s)
      PROVE  Kept(run'.steps) /\ Kept(local'[e]) /\ Carried(e)' /\ rerun' = rerun
  <2>1. /\ pc' = pc /\ idx' = idx /\ run' = run /\ rerun' = rerun /\ pc[e] = "parallel"
        /\ child[e][s] \in {"todo", "busy"}
    BY <1>6 DEF BeginChild, EndChild
  <2>2. s \notin MapIds
    <3>1. s \in ToSet(Item(e).children) /\ idx[e] \in 1..Len(Plan)
      BY <1>0, <2>1 DEF Where, AtStep
    <3> QED BY <1>0, <3>1 DEF Children, Item
  <2>3. /\ \A t \in StepId : t # s => local'[e][t] = local[e][t]
        /\ outs[e] \subseteq outs'[e]
    <3>1. CASE BeginChild(e, s)
      BY <1>0, <3>1 DEF BeginChild, BeginHandler, TypeOK
    <3>2. CASE EndChild(e, s)
      <4>1. PICK ok \in BOOLEAN : EndHandler(e, s, "sequential", ok)
        BY <3>2 DEF EndChild
      <4>2. local'[e] = [local[e] EXCEPT ![s] = local'[e][s]]
        BY <4>1, EndHandlerTypes
      <4>3. outs[e] \subseteq outs'[e]
        BY <1>0, <4>1 DEF EndHandler, TypeOK
      <4> QED BY <1>0, <4>2, <4>3 DEF TypeOK
    <3> QED BY <1>6, <3>1, <3>2
  <2>4. Kept(local'[e])
    BY <1>0, <2>2, <2>3 DEF Kept
  <2>5. Carried(e)'
    BY <1>0, <2>1, <2>2, <2>3 DEF Carried, Item, Loaded
  <2> QED BY <1>0, <2>1, <2>4, <2>5
<1> QED BY <1>1, <1>2, <1>3, <1>4, <1>5, <1>6 DEF Execute

LEMMA MapNext == ASSUME OwnMapIds PROVE WorkInv /\ MapInv /\ [Next]_vars => MapInv'
<1> SUFFICES ASSUME WorkInv, MapInv, [Next]_vars PROVE MapInv'
  OBVIOUS
<1>0. MapIds \subseteq StepId
  BY MapIdFacts
<1>1. CASE UNCHANGED vars
  BY <1>1 DEF MapInv, Kept, Carried, Item, vars, execVars
<1>2. CASE StartWorkflow
  <2>1. \E e \in Exec : pc[e] = "unused" /\ pc' = [pc EXCEPT ![e] = "load"]
    BY <1>2, SpawnPlaces DEF StartWorkflow, WorkInv
  <2>2. run'.steps = run.steps /\ UNCHANGED <<idx, local, outs, rerun>>
    BY <1>2 DEF StartWorkflow, WorkInv, TypeOK
  <2> QED BY <2>1, <2>2 DEF MapInv, Kept, Carried, Item, WorkInv, TypeOK, Loaded, AtStep
<1>3. CASE CancelWorkflowRun
  <2>1. run'.steps = run.steps /\ UNCHANGED <<execVars, rerun>>
    BY <1>3 DEF CancelWorkflowRun, WorkInv, TypeOK
  <2> QED BY <2>1 DEF MapInv, Kept, Carried, Item, execVars
<1>4. CASE Crash
  <2>1. /\ UNCHANGED <<run, idx, local, outs>>
        /\ \A e \in Exec : pc'[e] \in {"unused", "ended"}
        /\ \A r \in Rerunner : rerun'[r].steps = AllPending
    BY <1>4 DEF Crash, Active, NoRerun
  <2>2. Kept(AllPending)
    BY <1>0 DEF Kept, AllPending, Pending
  <2> QED BY <2>1, <2>2 DEF MapInv, Carried, Loaded, AtStep
<1>5. ASSUME NEW e \in Exec, Execute(e) \/ StatementError(e) PROVE MapInv'
  BY <1>5, MapStep
<1>6. ASSUME NEW r \in Rerunner, RerunReset(r) PROVE MapInv'
  <2>1. \E e \in Exec : pc[e] = "unused" /\ pc' = [pc EXCEPT ![e] = "load"]
    BY <1>6, SpawnPlaces DEF RerunReset, WorkInv
  <2>2. /\ UNCHANGED <<idx, local, outs>>
        /\ \A q \in Rerunner : rerun'[q].steps \in {rerun[q].steps, AllPending}
    BY <1>6 DEF RerunReset, WorkInv, TypeOK, NoRerun
  <2>3. \A s \in StepId : \/ run'.steps[s].state = "pending"
                          \/ run'.steps[s] = rerun[r].steps[s]
    BY <1>6, ResetSteps
  <2>4. Kept(run'.steps)
    BY <1>0, <2>3 DEF MapInv, Kept
  <2>5. Kept(AllPending)
    BY <1>0 DEF Kept, AllPending, Pending
  <2>6. \A q \in Rerunner : Kept(rerun'[q].steps)
    BY <2>2, <2>5 DEF MapInv
  <2>7. \A e \in Exec : Kept(local'[e]) /\ Carried(e)'
    BY <2>1, <2>2 DEF MapInv, Kept, Carried, Item, WorkInv, TypeOK, Loaded, AtStep
  <2> QED BY <2>4, <2>6, <2>7 DEF MapInv
<1>7. ASSUME NEW r \in Rerunner, NEW from \in 1..Len(Flattened), RerunRead(r, from) PROVE MapInv'
  <2>1. /\ UNCHANGED <<run, execVars>>
        /\ \A q \in Rerunner : rerun'[q].steps \in {rerun[q].steps, run.steps}
    BY <1>7 DEF RerunRead, WorkInv, TypeOK
  <2>2. \A q \in Rerunner : Kept(rerun'[q].steps)
    BY <2>1 DEF MapInv
  <2>3. \A e \in Exec : Kept(local'[e]) /\ Carried(e)'
    BY <2>1 DEF MapInv, Carried, Item, execVars
  <2> QED BY <2>1, <2>2, <2>3 DEF MapInv
<1> QED BY <1>1, <1>2, <1>3, <1>4, <1>5, <1>6, <1>7 DEF Next

(* The output of a map step is there for a reduce step, in the execution   *)
(* that ran the map step and in every one that replays it, whatever is     *)
(* cancelled, rerun by any number of callers, or not saved.                *)
THEOREM MapOutputsAreKept == ASSUME OwnMapIds PROVE Spec => []MapOutputKept
<1>1. Init => MapInv
  <2>1. MapIds \subseteq StepId
    BY MapIdFacts
  <2> QED BY <2>1 DEF Init, MapInv, Kept, Carried, AllPending, Pending, NoRerun, Loaded, AtStep
<1>2. WorkInv /\ MapInv /\ [Next]_vars => MapInv'
  BY MapNext
<1>3. MapInv => MapOutputKept
  BY DEF MapInv, MapOutputKept, Carried, AtStep
<1> QED BY <1>1, <1>2, <1>3, WorkHolds, PTL DEF Spec

-----------------------------------------------------------------------------
(* One execution at a time.                                                *)

(* What was spent stays spent.                                             *)
LEMMA SpentStays ==
  ASSUME WorkInv, [Next]_vars, NEW ev \in Event, Spent(ev)' = 0
  PROVE  Spent(ev) = 0
<1>1. left \in [Event -> Nat] /\ Budget \in [Event -> Nat] /\ left[ev] <= Budget[ev]
  BY WorkflowAssumption DEF WorkflowAssumption, WorkInv, TypeOK, BudgetKept
<1>2. \/ left' = left
      \/ \E x \in Event : left' = [left EXCEPT ![x] = @ - 1]
  <2>1. CASE UNCHANGED vars
    BY <2>1 DEF vars
  <2>2. CASE StartWorkflow
    BY <2>2 DEF StartWorkflow
  <2>3. CASE CancelWorkflowRun \/ Crash
    BY <2>3 DEF CancelWorkflowRun, Crash, Spend, Event
  <2>4. ASSUME NEW e \in Exec, Execute(e) PROVE left' = left
    BY <2>4 DEF Execute, Load, MarkRunning, SkipCompleted, BeginStep, RefuseStep,
       SkipConditional, EndStep, BeginParallel, JoinParallel, BeginChild, EndChild,
       Persist, FailRun, FinishRun
  <2>5. ASSUME NEW e \in Exec, StatementError(e)
        PROVE  \E x \in Event : left' = [left EXCEPT ![x] = @ - 1]
    BY <2>5 DEF StatementError, Spend, Event
  <2>6. ASSUME NEW r \in Rerunner, RerunReset(r) \/ \E from \in 1..Len(Flattened) : RerunRead(r, from)
        PROVE  left' = left
    BY <2>6 DEF RerunReset, RerunRead
  <2> QED BY <2>1, <2>2, <2>3, <2>4, <2>5, <2>6 DEF Next
<1>3. left'[ev] <= left[ev] /\ left'[ev] \in Int
  BY <1>1, <1>2
<1> QED BY <1>1, <1>3 DEF Spent

LEMMA QuietBefore ==
  ASSUME WorkInv, [Next]_vars
  PROVE  /\ NeverCancelled' => NeverCancelled
         /\ NothingUnsaved' => NothingUnsaved
BY SpentStays DEF NeverCancelled, NothingUnsaved, Event

LEMMA CancelSpends == WorkInv /\ CancelWorkflowRun => ~NeverCancelled'
<1> SUFFICES ASSUME WorkInv, CancelWorkflowRun PROVE Spent("cancel")' > 0
  BY DEF NeverCancelled
<1> QED BY SpendKeeps DEF CancelWorkflowRun, WorkInv, Event

LEMMA ErrorSpends ==
  ASSUME WorkInv, NEW e \in Exec, StatementError(e)
  PROVE  ~NothingUnsaved'
<1>1. Spent("dbError")' > 0
  BY SpendKeeps DEF StatementError, WorkInv, Event
<1> QED BY <1>1 DEF NothingUnsaved

(* What a step of an execution does to the run and to itself.              *)
LEMMA ExecuteFacts ==
  ASSUME TypeOK, NEW e \in Exec, Execute(e) \/ StatementError(e)
  PROVE  /\ Active(e) /\ rerun' = rerun
         /\ \A d \in Exec \ {e} : pc'[d] = pc[d]
         /\ \/ Active(e)' /\ run'.state \in {run.state, "running"}
            \/ pc'[e] = "ended" /\ run'.state \in {run.state, "failed", "completed"}
<1> USE DEF TypeOK, Active, Goto
<1>1. CASE Load(e) \/ SkipCompleted(e) \/ BeginStep(e) \/ RefuseStep(e) \/ SkipConditional(e)
           \/ BeginParallel(e)
  BY <1>1 DEF Load, SkipCompleted, BeginStep, RefuseStep, SkipConditional, BeginParallel
<1>2. CASE MarkRunning(e) \/ Persist(e)
  BY <1>2 DEF MarkRunning, Persist, AfterStep
<1>3. CASE EndStep(e) \/ JoinParallel(e)
  <2>1. \E to \in {"persist", "fail"} : pc' = [pc EXCEPT ![e] = to]
    BY <1>3 DEF EndStep, JoinParallel
  <2> QED BY <1>3, <2>1 DEF EndStep, JoinParallel
<1>4. ASSUME NEW s \in StepId, BeginChild(e, s) \/ EndChild(e, s)
      PROVE  pc[e] = "parallel" /\ pc' = pc /\ run' = run /\ rerun' = rerun
  BY <1>4 DEF BeginChild, EndChild
<1>5. CASE FailRun(e) \/ FinishRun(e)
  BY <1>5 DEF FailRun, FinishRun
<1>6. CASE StatementError(e)
  BY <1>6 DEF StatementError, AfterStep
<1> QED BY <1>1, <1>2, <1>3, <1>4, <1>5, <1>6 DEF Execute

LEMMA OneStep ==
  ASSUME OneCaller, WorkInv, OneAtATime, [Next]_vars, NeverCancelled'
  PROVE  OneAtATime'
<1>0. TypeOK
  BY DEF WorkInv
<1>1. CASE UNCHANGED vars
  BY <1>1 DEF OneAtATime, Active, vars, execVars
<1>2. CASE StartWorkflow
  <2>1. PICK e \in Exec : pc[e] = "unused" /\ pc' = [pc EXCEPT ![e] = "load"]
    BY <1>0, <1>2, SpawnPlaces DEF StartWorkflow
  <2>2. /\ run.state = "none" /\ run'.state = "pending" /\ rerun' = rerun
        /\ \A d \in Exec : pc[d] = "unused"
        /\ \A r \in Rerunner : rerun[r].pc # "decided"
    BY <1>0, <1>2 DEF StartWorkflow, TypeOK, OneAtATime
  <2> QED BY <1>0, <2>1, <2>2 DEF OneAtATime, Active, TypeOK
<1>3. CASE CancelWorkflowRun
  BY <1>3, CancelSpends
<1>4. CASE Crash
  <2>1. /\ run' = run /\ succ' = succ
        /\ \A d \in Exec : ~Active(d)' /\ (pc[d] = "unused" => pc'[d] = "unused")
        /\ \A r \in Rerunner : rerun'[r].pc # "decided"
    BY <1>4 DEF Crash, Active, NoRerun
  <2> QED BY <2>1 DEF OneAtATime
<1>5. ASSUME NEW e \in Exec, Execute(e) \/ StatementError(e) PROVE OneAtATime'
  <2>1. /\ Active(e) /\ rerun' = rerun
        /\ \A d \in Exec \ {e} : pc'[d] = pc[d] /\ ~Active(d)
        /\ run.state \in {"pending", "running"}
        /\ \A r \in Rerunner : rerun[r].pc # "decided"
    BY <1>0, <1>5, ExecuteFacts DEF OneAtATime
  <2>2. \/ Active(e)' /\ run'.state \in {"pending", "running"}
        \/ pc'[e] = "ended" /\ run'.state \in {"pending", "running", "failed", "completed"}
    BY <1>0, <1>5, <2>1, ExecuteFacts
  <2>3. \A d \in Exec \ {e} : ~Active(d)'
    BY <2>1 DEF Active
  <2> QED BY <2>1, <2>2, <2>3 DEF OneAtATime, Active
<1>6. ASSUME NEW r \in Rerunner, RerunReset(r) PROVE OneAtATime'
  <2>1. PICK e \in Exec : pc[e] = "unused" /\ pc' = [pc EXCEPT ![e] = "load"]
    BY <1>0, <1>6, SpawnPlaces DEF RerunReset
  <2>2. run.state = "failed" /\ \A d \in Exec : ~Active(d)
    BY <1>6 DEF RerunReset, OneAtATime
  <2>3. run'.state = "running" /\ \A q \in Rerunner : rerun'[q].pc # "decided"
    BY <1>0, <1>6, OneCaller DEF RerunReset, OneCaller, NoRerun, TypeOK
  <2>4. \A d \in Exec : Active(d)' => d = e
    BY <1>0, <2>1, <2>2 DEF Active, TypeOK
  <2> QED BY <2>3, <2>4 DEF OneAtATime
<1>7. ASSUME NEW r \in Rerunner, NEW from \in 1..Len(Flattened), RerunRead(r, from) PROVE OneAtATime'
  <2>1. /\ run.state = "failed" /\ UNCHANGED <<run, pc, succ>>
        /\ \A q \in Rerunner : \/ rerun'[q] = rerun[q]
                               \/ rerun'[q].steps = run.steps
    BY <1>0, <1>7 DEF RerunRead, OneAtATime, execVars, TypeOK
  <2> QED BY <2>1 DEF OneAtATime, Active
<1> QED BY <1>1, <1>2, <1>3, <1>4, <1>5, <1>6, <1>7 DEF Next

-----------------------------------------------------------------------------
(* What is written of a run.                                               *)

LEMMA IdlePrefix ==
  ASSUME NEW e \in Exec, pc[e] \in {"unused", "load", "mark", "fail", "ended"}
  PROVE  Prefix(e)
BY DEF Prefix, AtStep

(* The steps of an item.                                                   *)
LEMMA ItemSteps ==
  ASSUME WorkInv, NEW e \in Exec, pc[e] \in AtStep
  PROVE  /\ StepsOf(idx[e]) \subseteq StepId
         /\ Item(e).type = "parallel" => StepsOf(idx[e]) = ToSet(Item(e).children)
         /\ Item(e).type # "parallel" => StepsOf(idx[e]) = {Item(e).id}
         /\ \A i \in 1..idx[e]-1 : StepsOf(i) \subseteq StepId
<1>1. idx[e] \in 1..Len(Plan) /\ Len(Plan) \in Nat
  BY PlanFacts DEF WorkInv, Where
<1>2. \A i \in 1..idx[e]-1 : i \in 1..Len(Plan)
  BY <1>1
<1> QED BY <1>1, <1>2, PlanFacts DEF StepsOf, Item

LEMMA PrefixStep ==
  ASSUME WorkInv, NEW e \in Exec, Prefix(e), Execute(e)
  PROVE  Prefix(e)'
<1> USE DEF Goto
<1>0. TypeOK /\ Where(e)
  BY DEF WorkInv
<1>1. CASE Load(e) \/ RefuseStep(e) \/ FailRun(e) \/ FinishRun(e)
  <2>1. pc'[e] \in {"mark", "fail", "ended"}
    BY <1>0, <1>1 DEF TypeOK, Load, RefuseStep, FailRun, FinishRun
  <2> QED BY <2>1 DEF Prefix, AtStep
<1>2. CASE MarkRunning(e)
  <2>1. pc'[e] \in {"begin", "finish"} /\ idx'[e] = 1
    BY <1>0, <1>2 DEF TypeOK, MarkRunning, AfterStep, Where
  <2> QED BY <2>1 DEF Prefix
<1>3. CASE SkipCompleted(e)
  <2>1. /\ pc[e] = "begin" /\ pc'[e] = "persist" /\ UNCHANGED <<run, idx, local>>
        /\ Item(e).type # "parallel" /\ local[e][Item(e).id].state = "completed"
    BY <1>0, <1>3 DEF TypeOK, SkipCompleted, Replayed
  <2>2. StepsOf(idx[e]) = {Item(e).id}
    BY <2>1, ItemSteps DEF AtStep
  <2> QED BY <2>1, <2>2 DEF Prefix, AtStep, InHand, Over, Done
<1>4. CASE BeginStep(e)
  <2>1. /\ pc[e] = "begin" /\ pc'[e] = "busy" /\ UNCHANGED <<run, idx>>
        /\ Item(e).type # "parallel" /\ BeginHandler(e, Item(e).id, Item(e).type)
    BY <1>0, <1>4 DEF TypeOK, BeginStep
  <2>2. Item(e).id \in StepId /\ Item(e)' = Item(e)
    BY <2>1, StepItem DEF AtStep, Item
  <2>3. local'[e] = [local[e] EXCEPT ![Item(e).id] = local'[e][Item(e).id]]
    BY <2>1, <2>2, BeginHandlerTypes
  <2>4. \A t \in StepId : t # Item(e).id => local'[e][t] = local[e][t]
    BY <1>0, <2>3 DEF TypeOK
  <2>5. \A i \in 1..idx[e]-1 : StepsOf(i) \subseteq StepId
    BY <2>1, ItemSteps DEF AtStep
  <2> QED BY <2>1, <2>2, <2>4, <2>5 DEF Prefix, AtStep, InHand, Over, Done
<1>5. CASE SkipConditional(e)
  <2>1. /\ pc[e] = "begin" /\ pc'[e] = "persist" /\ UNCHANGED <<run, idx>>
        /\ Item(e).type # "parallel" /\ Item(e).id \in StepId
    BY <1>0, <1>5, StepItem DEF TypeOK, SkipConditional, AtStep
  <2>2. /\ \A t \in StepId : t # Item(e).id => local'[e][t] = local[e][t]
        /\ local'[e][Item(e).id].state = "skipped"
    BY <1>0, <1>5, <2>1 DEF SkipConditional, TypeOK
  <2>3. /\ StepsOf(idx[e]) = {Item(e).id}
        /\ \A i \in 1..idx[e]-1 : StepsOf(i) \subseteq StepId
    BY <2>1, ItemSteps DEF AtStep
  <2> QED BY <2>1, <2>2, <2>3 DEF Prefix, AtStep, InHand, Over, Done
<1>6. CASE EndStep(e)
  <2>1. PICK ok \in BOOLEAN : /\ EndHandler(e, Item(e).id, Item(e).type, ok)
                              /\ pc'[e] = IF ok THEN "persist" ELSE "fail"
    BY <1>0, <1>6 DEF EndStep, TypeOK
  <2>2. /\ pc[e] = "busy" /\ UNCHANGED <<run, idx>>
        /\ Item(e).type # "parallel" /\ Item(e).id \in StepId
    BY <1>0, <1>6, StepItem DEF TypeOK, EndStep, AtStep, Where
  <2>3. /\ local'[e] = [local[e] EXCEPT ![Item(e).id] = local'[e][Item(e).id]]
        /\ local'[e][Item(e).id].state = IF ok THEN "completed" ELSE "failed"
    BY <2>1, <2>2, EndHandlerTypes
  <2>4. \A t \in StepId : t # Item(e).id => local'[e][t] = local[e][t]
    BY <1>0, <2>3 DEF TypeOK
  <2>5. /\ StepsOf(idx[e]) = {Item(e).id}
        /\ \A i \in 1..idx[e]-1 : StepsOf(i) \subseteq StepId
    BY <2>2, ItemSteps DEF AtStep
  <2> QED BY <2>1, <2>2, <2>3, <2>4, <2>5 DEF Prefix, AtStep, InHand, Over, Done
<1>7. CASE BeginParallel(e)
  <2>1. pc[e] = "begin" /\ pc'[e] = "parallel" /\ UNCHANGED <<run, idx, local>>
    BY <1>0, <1>7 DEF TypeOK, BeginParallel
  <2> QED BY <2>1 DEF Prefix, AtStep, InHand, Over, Done
<1>8. ASSUME NEW s \in StepId, BeginChild(e, s) \/ EndChild(e, s) PROVE Prefix(e)'
  <2>1. pc[e] = "parallel" /\ UNCHANGED <<pc, run, idx>> /\ child[e][s] \in {"todo", "busy"}
    BY <1>8 DEF BeginChild, EndChild
  <2>2. s \in ToSet(Item(e).children)
    BY <1>0, <2>1 DEF Where
  <2>3. \A t \in StepId : t # s => local'[e][t] = local[e][t]
    <3>1. CASE BeginChild(e, s)
      BY <1>0, <3>1 DEF BeginChild, BeginHandler, TypeOK
    <3>2. CASE EndChild(e, s)
      <4>1. PICK ok \in BOOLEAN : EndHandler(e, s, "sequential", ok)
        BY <3>2 DEF EndChild
      <4>2. local'[e] = [local[e] EXCEPT ![s] = local'[e][s]]
        BY <4>1, EndHandlerTypes
      <4> QED BY <1>0, <4>2 DEF TypeOK
    <3> QED BY <1>8, <3>1, <3>2
  <2>4. \A i \in 1..idx[e]-1 : StepsOf(i) \subseteq StepId
    BY <2>1, ItemSteps DEF AtStep
  <2>5. Item(e)' = Item(e)
    BY <2>1 DEF Item
  <2> QED BY <2>1, <2>2, <2>3, <2>4, <2>5 DEF Prefix, AtStep, InHand, Over, Done
<1>9. CASE JoinParallel(e)
  <2>1. /\ pc[e] = "parallel" /\ UNCHANGED <<run, idx, local>>
        /\ pc'[e] = IF \E s \in StepId : child[e][s] = "error" THEN "fail" ELSE "persist"
        /\ \A s \in StepId : child[e][s] \notin {"todo", "busy"}
    BY <1>0, <1>9 DEF TypeOK, JoinParallel
  <2>2. SUFFICES ASSUME pc'[e] = "persist" PROVE Prefix(e)'
    BY <2>1 DEF Prefix, AtStep
  <2>3. /\ StepsOf(idx[e]) = ToSet(Item(e).children)
        /\ StepsOf(idx[e]) \subseteq StepId
    BY <1>0, <2>1, ItemSteps DEF AtStep, Where
  <2>4. ASSUME NEW s \in ToSet(Item(e).children) PROVE Done(local[e], s)
    <3>1. s \in StepId /\ child[e][s] # "none"
      BY <1>0, <2>1, <2>3 DEF Where
    <3>2. child[e][s] \in {"none", "todo", "busy", "ok", "error"}
      BY <1>0, <3>1 DEF TypeOK
    <3>3. child[e][s] = "ok"
      BY <2>1, <2>2, <3>1, <3>2
    <3> QED BY <1>0, <3>1, <3>3 DEF Where, Done
  <2> QED BY <2>1, <2>2, <2>3, <2>4 DEF Prefix, AtStep, InHand, Over, Done
<1>10. CASE Persist(e)
  <2>1. /\ pc[e] = "persist" /\ pc'[e] \in {"begin", "finish"} /\ idx'[e] = idx[e] + 1
        /\ local' = local /\ run'.steps = local[e] /\ idx[e] \in 1..Len(Plan)
    BY <1>0, <1>10 DEF TypeOK, Persist, AfterStep, Where, AtStep
  <2>2. ASSUME NEW i \in 1..idx'[e]-1, NEW s \in StepsOf(i) PROVE Done(local[e], s)
    <3>1. CASE i = idx[e]
      BY <2>1, <2>2, <3>1 DEF Prefix
    <3>2. CASE i # idx[e]
      <4>1. i \in 1..idx[e]-1
        BY <2>1, <3>2, PlanFacts
      <4> QED BY <2>1, <2>2, <4>1 DEF Prefix, AtStep, InHand
    <3> QED BY <3>1, <3>2
  <2> QED BY <2>1, <2>2 DEF Prefix, Over, Done
<1> QED BY <1>1, <1>2, <1>3, <1>4, <1>5, <1>6, <1>7, <1>8, <1>9, <1>10 DEF Execute

(* A place at which nothing is in progress.                                *)
LEMMA InactivePlaces ==
  ASSUME TypeOK, NEW e \in Exec, ~Active(e)
  PROVE  pc[e] \in {"unused", "ended"}
BY DEF TypeOK, Active

LEMMA PrefixNext ==
  ASSUME WorkInv, OneAtATime, OneAtATime', PrefixOver, [Next]_vars, NothingUnsaved'
  PROVE  PrefixOver'
<1>0. TypeOK /\ TypeOK'
  BY WorkNext DEF WorkInv
<1>1. CASE UNCHANGED vars
  BY <1>1 DEF PrefixOver, Prefix, Over, Done, InHand, Item, vars, execVars
<1>2. CASE StartWorkflow
  <2>1. PICK e \in Exec : pc[e] = "unused" /\ pc' = [pc EXCEPT ![e] = "load"]
    BY <1>0, <1>2, SpawnPlaces DEF StartWorkflow
  <2>2. /\ run'.state = "pending" /\ \A d \in Exec : pc[d] = "unused"
    BY <1>0, <1>2 DEF StartWorkflow, TypeOK, OneAtATime
  <2>3. \A d \in Exec : pc'[d] \in {"unused", "load"}
    BY <1>0, <2>1, <2>2 DEF TypeOK
  <2> QED BY <2>2, <2>3 DEF PrefixOver, Prefix, AtStep
<1>3. CASE CancelWorkflowRun
  BY <1>3, CancelSpends DEF NothingUnsaved
<1>4. CASE Crash
  <2>1. run' = run /\ \A d \in Exec : pc'[d] \in {"unused", "ended"}
    BY <1>4 DEF Crash, Active
  <2> QED BY <2>1 DEF PrefixOver, Prefix, Over, AtStep
<1>5. ASSUME NEW e \in Exec, Execute(e) PROVE PrefixOver'
  <2>1. \A d \in Exec \ {e} : pc'[d] = pc[d] /\ ~Active(d)
    BY <1>0, <1>5, ExecuteFacts DEF OneAtATime
  <2>2. \A d \in Exec \ {e} : Prefix(d)'
    <3>1. \A d \in Exec \ {e} : pc'[d] \in {"unused", "ended"}
      BY <1>0, <2>1, InactivePlaces
    <3> QED BY <3>1 DEF Prefix, AtStep
  <2>3. Prefix(e)'
    BY <1>5, PrefixStep DEF PrefixOver
  <2>4. ASSUME run'.state = "completed", NEW i \in 1..Len(Plan), NEW s \in StepsOf(i)
        PROVE  Over(s)'
    <3>1. FinishRun(e)
      <4>1. run.state \in {"pending", "running"} /\ ~Active(e)'
        BY <1>0, <1>5, <2>4, ExecuteFacts DEF OneAtATime
      <4>2. pc'[e] = "ended"
        BY <1>0, <1>5, <4>1, ExecuteFacts
      <4> QED BY <1>0, <1>5, <2>4, <4>1, <4>2
           DEF Execute, TypeOK, Goto, AfterStep, Load, MarkRunning, SkipCompleted, BeginStep,
               RefuseStep, SkipConditional, EndStep, BeginParallel, JoinParallel,
               BeginChild, EndChild, Persist, FailRun
    <3>2. /\ pc[e] = "finish" /\ run'.steps = run.steps /\ idx[e] = Len(Plan) + 1
      BY <1>0, <3>1 DEF FinishRun, WorkInv, TypeOK, Where
    <3>3. i \in 1..idx[e]-1
      BY <3>2, PlanFacts
    <3> QED BY <3>2, <3>3 DEF PrefixOver, Prefix, Over
  <2> QED BY <2>2, <2>3, <2>4 DEF PrefixOver
<1>6. ASSUME NEW e \in Exec, StatementError(e) PROVE PrefixOver'
  BY <1>6, ErrorSpends
<1>7. ASSUME NEW r \in Rerunner, RerunReset(r) PROVE PrefixOver'
  <2>1. PICK e \in Exec : pc[e] = "unused" /\ pc' = [pc EXCEPT ![e] = "load"]
    BY <1>0, <1>7, SpawnPlaces DEF RerunReset
  <2>2. run'.state = "running" /\ \A d \in Exec : ~Active(d)
    BY <1>7 DEF RerunReset, OneAtATime
  <2>3. \A d \in Exec : pc'[d] \in {"unused", "ended", "load"}
    BY <1>0, <2>1, <2>2, InactivePlaces DEF TypeOK
  <2> QED BY <2>2, <2>3 DEF PrefixOver, Prefix, AtStep
<1>8. ASSUME NEW r \in Rerunner, NEW from \in 1..Len(Flattened), RerunRead(r, from) PROVE PrefixOver'
  BY <1>8 DEF RerunRead, PrefixOver, Prefix, Over, Done, InHand, Item, execVars
<1> QED BY <1>1, <1>2, <1>3, <1>4, <1>5, <1>6, <1>7, <1>8 DEF Next

(* A step of the run and the steps of an execution.                        *)
LEMMA RecordedStep ==
  ASSUME WorkInv, NEW e \in Exec, Execute(e), NEW s \in StepId \ Children, RecordedBy(e, s),
         succ[s] <= 1, run.state # "failed"
  PROVE  /\ RecordedBy(e, s)' /\ succ'[s] <= 1
         /\ succ'[s] = 1 /\ run'.state = "failed" => run'.steps[s].state = "completed"
<1> USE DEF Goto
<1>0. TypeOK /\ Where(e) /\ succ[s] \in Nat /\ s \in StepId
  BY DEF WorkInv, TypeOK
<1>1. CASE Load(e)
  <2>1. /\ pc[e] = "load" /\ pc'[e] = "mark" /\ local'[e] = run.steps
        /\ UNCHANGED <<run, succ>>
    BY <1>0, <1>1 DEF TypeOK, Load
  <2> QED BY <1>0, <2>1 DEF RecordedBy
<1>2. CASE MarkRunning(e) \/ SkipCompleted(e) \/ RefuseStep(e) \/ BeginParallel(e)
           \/ JoinParallel(e) \/ FinishRun(e)
  <2>1. /\ pc[e] \in Loaded \ {"persist"} /\ pc'[e] # "load"
        /\ UNCHANGED <<local, succ>> /\ run'.steps = run.steps
        /\ run'.state # "failed"
    BY <1>0, <1>2 DEF TypeOK, MarkRunning, SkipCompleted, RefuseStep, BeginParallel,
       JoinParallel, FinishRun, AfterStep, Loaded
  <2> QED BY <1>0, <2>1 DEF RecordedBy
<1>3. CASE FailRun(e)
  <2>1. pc[e] = "fail" /\ pc'[e] = "ended" /\ succ' = succ /\ run'.steps = run.steps
    BY <1>0, <1>3 DEF TypeOK, FailRun
  <2> QED BY <1>0, <2>1 DEF RecordedBy, Loaded
<1>4. CASE Persist(e)
  <2>1. /\ pc[e] = "persist" /\ pc'[e] \in {"begin", "finish"} /\ run'.steps = local[e]
        /\ run'.state = run.state /\ UNCHANGED <<local, succ>>
    BY <1>0, <1>4 DEF TypeOK, Persist, AfterStep
  <2> QED BY <1>0, <2>1 DEF RecordedBy, Loaded
<1>5. CASE BeginStep(e)
  <2>1. /\ pc[e] = "begin" /\ pc'[e] = "busy" /\ UNCHANGED <<run, succ>>
        /\ Item(e).type # "parallel" /\ BeginHandler(e, Item(e).id, Item(e).type)
        /\ local[e][Item(e).id].state # "completed"
    BY <1>0, <1>5 DEF TypeOK, BeginStep, Replayed
  <2>2. Item(e).id \in StepId
    BY <2>1, StepItem DEF AtStep
  <2>3. /\ local'[e] = [local[e] EXCEPT ![Item(e).id] = local'[e][Item(e).id]]
        /\ local'[e][Item(e).id].state = "running"
    BY <2>1, <2>2, BeginHandlerTypes
  <2>4. \A t \in StepId : t # Item(e).id => local'[e][t] = local[e][t]
    BY <1>0, <2>3 DEF TypeOK
  <2> QED BY <1>0, <2>1, <2>3, <2>4 DEF RecordedBy, Loaded
<1>6. CASE SkipConditional(e)
  <2>1. /\ pc[e] = "begin" /\ pc'[e] = "persist" /\ UNCHANGED <<run, succ>>
        /\ Item(e).type # "parallel" /\ Item(e).id \in StepId
        /\ local[e][Item(e).id].state # "completed"
    BY <1>0, <1>6, StepItem DEF TypeOK, SkipConditional, AtStep, Replayed
  <2>2. \A t \in StepId : t # Item(e).id => local'[e][t] = local[e][t]
    BY <1>0, <1>6 DEF SkipConditional, TypeOK
  <2> QED BY <1>0, <2>1, <2>2 DEF RecordedBy, Loaded
<1>7. CASE EndStep(e)
  <2>1. PICK ok \in BOOLEAN : /\ EndHandler(e, Item(e).id, Item(e).type, ok)
                              /\ pc'[e] = IF ok THEN "persist" ELSE "fail"
    BY <1>0, <1>7 DEF EndStep, TypeOK
  <2>2. /\ pc[e] = "busy" /\ run' = run /\ Item(e).id \in StepId
        /\ local[e][Item(e).id].state = "running"
    BY <1>0, <1>7, StepItem DEF TypeOK, EndStep, AtStep, Where
  <2>3. /\ local'[e] = [local[e] EXCEPT ![Item(e).id] = local'[e][Item(e).id]]
        /\ local'[e][Item(e).id].state = IF ok THEN "completed" ELSE "failed"
    BY <2>1, <2>2, EndHandlerTypes
  <2>4. \A t \in StepId : t # Item(e).id => local'[e][t] = local[e][t] /\ succ'[t] = succ[t]
    BY <1>0, <2>1, <2>3 DEF TypeOK, EndHandler
  <2>5. succ'[Item(e).id] = IF ok THEN succ[Item(e).id] + 1 ELSE succ[Item(e).id]
    BY <1>0, <2>1, <2>2 DEF TypeOK, EndHandler
  <2>6. CASE s = Item(e).id
    <3>1. succ[s] = 0
      BY <1>0, <2>2, <2>6 DEF RecordedBy, Loaded
    <3> QED BY <2>1, <2>2, <2>3, <2>5, <2>6, <3>1 DEF RecordedBy, Loaded
  <2>7. CASE s # Item(e).id
    BY <1>0, <2>1, <2>2, <2>4, <2>7 DEF RecordedBy, Loaded
  <2> QED BY <2>6, <2>7
<1>8. ASSUME NEW t \in StepId, BeginChild(e, t) \/ EndChild(e, t)
      PROVE  /\ RecordedBy(e, s)' /\ succ'[s] <= 1
             /\ succ'[s] = 1 /\ run'.state = "failed" => run'.steps[s].state = "completed"
  <2>1. pc[e] = "parallel" /\ UNCHANGED <<pc, run>> /\ child[e][t] \in {"todo", "busy"}
    BY <1>8 DEF BeginChild, EndChild
  <2>2. t \in Children
    <3>1. t \in ToSet(Item(e).children) /\ idx[e] \in 1..Len(Plan)
      BY <1>0, <2>1 DEF Where, AtStep
    <3> QED BY <3>1 DEF Children, Item
  <2>3. local'[e][s] = local[e][s] /\ succ'[s] = succ[s]
    <3>1. CASE BeginChild(e, t)
      BY <1>0, <2>2, <3>1 DEF BeginChild, BeginHandler, TypeOK
    <3>2. CASE EndChild(e, t)
      <4>1. PICK ok \in BOOLEAN : EndHandler(e, t, "sequential", ok)
        BY <3>2 DEF EndChild
      <4>2. local'[e] = [local[e] EXCEPT ![t] = local'[e][t]]
        BY <4>1, EndHandlerTypes
      <4>3. succ'[s] = succ[s]
        BY <1>0, <2>2, <4>1 DEF TypeOK, EndHandler
      <4> QED BY <1>0, <2>2, <4>2, <4>3 DEF TypeOK
    <3> QED BY <1>8, <3>1, <3>2
  <2> QED BY <1>0, <2>1, <2>3 DEF RecordedBy
<1> QED BY <1>1, <1>2, <1>3, <1>4, <1>5, <1>6, <1>7, <1>8 DEF Execute

LEMMA RecordedNext ==
  ASSUME WorkInv, OneAtATime, Recorded, [Next]_vars, NothingUnsaved'
  PROVE  Recorded'
<1>0. TypeOK /\ \A s \in StepId : succ[s] \in Nat
  BY DEF WorkInv, TypeOK
<1>1. CASE UNCHANGED vars
  BY <1>1 DEF Recorded, RecordedBy, vars, execVars
<1>2. CASE StartWorkflow
  <2>1. PICK e \in Exec : pc[e] = "unused" /\ pc' = [pc EXCEPT ![e] = "load"]
    BY <1>0, <1>2, SpawnPlaces DEF StartWorkflow
  <2>2. /\ run'.state = "pending" /\ succ' = succ
        /\ \A d \in Exec : pc[d] = "unused"
        /\ \A s \in StepId : succ[s] = 0
    BY <1>0, <1>2 DEF StartWorkflow, TypeOK, OneAtATime
  <2>3. \A d \in Exec : pc'[d] \in {"unused", "load"}
    BY <1>0, <2>1, <2>2 DEF TypeOK
  <2> QED BY <2>2, <2>3 DEF Recorded, RecordedBy, Loaded
<1>3. CASE CancelWorkflowRun
  BY <1>3, CancelSpends DEF NothingUnsaved
<1>4. CASE Crash
  <2>1. UNCHANGED <<run, succ>> /\ \A d \in Exec : pc'[d] \in {"unused", "ended"}
    BY <1>4 DEF Crash, Active
  <2> QED BY <2>1 DEF Recorded, RecordedBy, Loaded
<1>5. ASSUME NEW e \in Exec, Execute(e) PROVE Recorded'
  <2>1. \A d \in Exec \ {e} : pc'[d] = pc[d] /\ ~Active(d)
    BY <1>0, <1>5, ExecuteFacts DEF OneAtATime
  <2>2. \A d \in Exec \ {e} : pc'[d] \in {"unused", "ended"}
    BY <1>0, <2>1, InactivePlaces
  <2>3. \A d \in Exec \ {e}, s \in StepId : RecordedBy(d, s)'
    BY <2>2 DEF RecordedBy, Loaded
  <2>4. run.state # "failed"
    BY <1>0, <1>5, ExecuteFacts DEF OneAtATime
  <2>5. ASSUME NEW s \in StepId \ Children
        PROVE  /\ RecordedBy(e, s)' /\ succ'[s] <= 1
               /\ succ'[s] = 1 /\ run'.state = "failed" => run'.steps[s].state = "completed"
    BY <1>5, <2>4, RecordedStep DEF Recorded
  <2> QED BY <2>3, <2>5 DEF Recorded
<1>6. ASSUME NEW e \in Exec, StatementError(e) PROVE Recorded'
  BY <1>6, ErrorSpends
<1>7. ASSUME NEW r \in Rerunner, RerunReset(r) PROVE Recorded'
  <2>1. PICK e \in Exec : pc[e] = "unused" /\ pc' = [pc EXCEPT ![e] = "load"]
    BY <1>0, <1>7, SpawnPlaces DEF RerunReset
  <2>2. /\ run.state = "failed" /\ rerun[r].steps = run.steps
        /\ \A d \in Exec : ~Active(d)
    BY <1>7 DEF RerunReset, OneAtATime
  <2>3. \A d \in Exec : pc'[d] \in {"unused", "ended", "load"}
    BY <1>0, <2>1, <2>2, InactivePlaces DEF TypeOK
  <2>4. /\ run'.state = "running"
        /\ \A s \in StepId : \/ succ'[s] = 0
                             \/ run'.steps[s] = run.steps[s] /\ succ'[s] = succ[s]
    BY <1>7, <2>2, ResetSteps
  <2> QED BY <2>2, <2>3, <2>4 DEF Recorded, RecordedBy, Loaded
<1>8. ASSUME NEW r \in Rerunner, NEW from \in 1..Len(Flattened), RerunRead(r, from) PROVE Recorded'
  BY <1>8 DEF RerunRead, Recorded, RecordedBy, execVars
<1> QED BY <1>1, <1>2, <1>3, <1>4, <1>5, <1>6, <1>7, <1>8 DEF Next

LEMMA RunNext == ASSUME OneCaller PROVE WorkInv /\ RunInv /\ [Next]_vars => RunInv'
<1> SUFFICES ASSUME WorkInv, RunInv, [Next]_vars PROVE RunInv'
  OBVIOUS
<1>1. ASSUME NeverCancelled' PROVE OneAtATime /\ OneAtATime'
  BY <1>1, OneStep, QuietBefore DEF RunInv
<1>2. ASSUME NothingUnsaved' PROVE PrefixOver' /\ Recorded'
  <2>1. NothingUnsaved /\ NeverCancelled' /\ PrefixOver /\ Recorded
    BY <1>2, QuietBefore DEF RunInv, NothingUnsaved
  <2> QED BY <1>1, <1>2, <2>1, PrefixNext, RecordedNext
<1> QED BY <1>1, <1>2 DEF RunInv

LEMMA RunHolds == ASSUME OneCaller PROVE Spec => []RunInv
<1>1. Init => RunInv
  <2> SUFFICES ASSUME Init PROVE RunInv
    OBVIOUS
  <2>1. /\ \A e \in Exec : pc[e] = "unused"
        /\ run.state = "none" /\ \A s \in StepId : succ[s] = 0
        /\ \A r \in Rerunner : rerun[r].pc = "idle"
    BY DEF Init, NoRerun
  <2>2. OneAtATime
    BY <2>1 DEF OneAtATime, Active
  <2>3. PrefixOver /\ Recorded
    BY <2>1 DEF PrefixOver, Prefix, Recorded, RecordedBy, AtStep, Loaded
  <2> QED BY <2>2, <2>3 DEF RunInv
<1>2. WorkInv /\ RunInv /\ [Next]_vars => RunInv'
  BY RunNext
<1> QED BY <1>1, <1>2, WorkHolds, PTL DEF Spec

(* However often one caller reruns a run that failed, from whatever step   *)
(* and after whatever crashes and failing statements, no two executions    *)
(* ever work on the run at once.                                           *)
THEOREM RunIsExecutedOnce == ASSUME OneCaller PROVE Spec => []SingleExecution
<1>1. RunInv => SingleExecution
  BY DEF RunInv, OneAtATime, SingleExecution
<1> QED BY <1>1, RunHolds, PTL

(* For every plan: a step starts only when the row says that all steps     *)
(* before it are over, and a run is completed only when it says so of all. *)
THEOREM PrefixesAreDurable == ASSUME OneCaller PROVE Spec => []DurablePrefix
<1>1. WorkInv /\ RunInv => DurablePrefix
  <2> SUFFICES ASSUME WorkInv, RunInv, NothingUnsaved PROVE DurablePrefix
    BY DEF DurablePrefix
  <2>1. PrefixOver
    BY DEF RunInv
  <2>2. ASSUME NEW e \in Exec, pc[e] \in {"busy", "parallel"},
               NEW i \in 1..idx[e]-1, NEW s \in StepsOf(i)
        PROVE  Over(s)
    BY <2>1, <2>2 DEF PrefixOver, Prefix, AtStep
  <2>3. ASSUME run.state = "completed", NEW s \in ToSet(Flattened) PROVE Over(s)
    BY <2>1, <2>3, FlattenedSteps DEF PrefixOver
  <2> QED BY <2>2, <2>3 DEF DurablePrefix
<1> QED BY <1>1, RunHolds, WorkHolds, PTL

(* A rerun repeats no step that succeeded and that it did not reset, the   *)
(* children of parallel steps excepted.                                    *)
THEOREM StepsAreReplayed == ASSUME OneCaller PROVE Spec => []ReplayedOnce
<1>1. RunInv => ReplayedOnce
  BY DEF RunInv, Recorded, ReplayedOnce
<1> QED BY <1>1, RunHolds, PTL
=============================================================================
