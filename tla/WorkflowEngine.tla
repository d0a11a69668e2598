--------------------------- MODULE WorkflowEngine ---------------------------
(***************************************************************************)
(* One workflow run: its row in rivo_workflow_runs, the goroutines that    *)
(* execute it (Engine.ExecuteRun, internal/workflow/engine.go), and the    *)
(* calls that start, cancel and rerun it (client.go).  An execution works  *)
(* on a copy of the step states that it loads once and writes back after   *)
(* every step; nothing ties a run to one execution.                        *)
(*                                                                         *)
(* A step's output is abstracted to whether there is one.  Every database  *)
(* statement and every call of a user's handler is a step of its own.      *)
(***************************************************************************)
EXTENDS Integers, Sequences, FiniteSets, SequencesExt

CONSTANTS
  StepId,      \* the steps, children of parallel steps included
  Plan,        \* WorkflowDefinition.Steps
  Registered,  \* the steps whose handler, condition or function is registered
  Emits,       \* the sequential steps whose handler calls SetOutput
  MaxExec,     \* bound on the executions of the run
  Rerunner,    \* concurrent callers of RerunWorkflowStep
  Budget,      \* how often each event of the environment may happen
  MaxEvents    \* how many of them in all

(* A step of the definition.  Only a parallel step has children, and only  *)
(* a reduce step a source.                                                 *)
StepDefinition ==
  [type     : {"sequential", "parallel", "conditional", "map", "reduce",
               "handler"},
   id       : STRING,
   children : Seq(StepId),
   source   : STRING]

Event == {"cancel", "crash", "dbError"}

ASSUME WorkflowAssumption ==
  /\ Plan \in Seq(StepDefinition)
  /\ \A i \in 1..Len(Plan) :
       Plan[i].type = "parallel" \/ Plan[i].id \in StepId
  /\ Registered \subseteq StepId
  /\ Emits \subseteq StepId
  /\ MaxExec \in Nat \ {0}
  /\ Budget \in [Event -> Nat]
  /\ MaxEvents \in Nat

VARIABLES
  run,     \* the row of the run
  pc,      \* where each execution is
  idx,     \* the position of the step it is at
  local,   \* its map stepStates
  outs,    \* the keys of its map state
  child,   \* the goroutines of its parallel step
  rerun,   \* the callers of RerunWorkflowStep
  logs,    \* the attempts in rivo_workflow_step_logs, per step
  succ,    \* successful handler calls since a step was last reset (history)
  left     \* events of the environment that can still happen

execVars == <<pc, idx, local, outs, child>>
vars == <<run, execVars, rerun, logs, succ, left>>

Exec == 1..MaxExec

StepState == {"pending", "running", "completed", "failed", "skipped"}
StepRunState == [state : StepState, attempt : Nat, out : BOOLEAN]
RunState == {"none", "pending", "running", "completed", "failed", "cancelled"}

Pending == [state |-> "pending", attempt |-> 0, out |-> FALSE]
AllPending == [s \in StepId |-> Pending]

TypeOK ==
  /\ run \in [state : RunState, steps : [StepId -> StepRunState]]
  /\ pc \in [Exec -> {"unused", "load", "mark", "begin", "busy", "parallel",
                      "persist", "fail", "finish", "ended"}]
  /\ idx \in [Exec -> 1..Len(Plan) + 1]
  /\ local \in [Exec -> [StepId -> StepRunState]]
  /\ outs \in [Exec -> SUBSET StepId]
  /\ child \in [Exec -> [StepId -> {"none", "todo", "busy", "ok", "error"}]]
  /\ rerun \in [Rerunner -> [pc    : {"idle", "decided"},
                             from  : Nat,
                             steps : [StepId -> StepRunState]]]
  /\ logs \in [StepId -> Seq(Nat)]
  /\ succ \in [StepId -> Nat]
  /\ left \in [Event -> Nat]

NoRerun == [pc |-> "idle", from |-> 0, steps |-> AllPending]
NoChildren == [s \in StepId |-> "none"]

Init ==
  /\ run = [state |-> "none", steps |-> AllPending]
  /\ pc = [e \in Exec |-> "unused"]
  /\ idx = [e \in Exec |-> 1]
  /\ local = [e \in Exec |-> AllPending]
  /\ outs = [e \in Exec |-> {}]
  /\ child = [e \in Exec |-> NoChildren]
  /\ rerun = [r \in Rerunner |-> NoRerun]
  /\ logs = [s \in StepId |-> << >>]
  /\ succ = [s \in StepId |-> 0]
  /\ left = Budget

Active(e) == pc[e] \notin {"unused", "ended"}

Item(e) == Plan[idx[e]]

Spent(ev) == Budget[ev] - left[ev]

Spend(ev) ==
  /\ left[ev] > 0
  /\ Spent("cancel") + Spent("crash") + Spent("dbError") < MaxEvents
  /\ left' = [left EXCEPT ![ev] = @ - 1]

Goto(e, to) == pc' = [pc EXCEPT ![e] = to]

-----------------------------------------------------------------------------
(* go ExecuteRun: the first execution that was not used yet.               *)
Spawn ==
  \E e \in Exec :
    /\ pc[e] = "unused" /\ \A d \in 1..e-1 : pc[d] # "unused"
    /\ Goto(e, "load")

(* StartWorkflow creates the row and starts an execution.                  *)
StartWorkflow ==
  /\ run.state = "none"
  /\ run' = [run EXCEPT !.state = "pending"]
  /\ Spawn
  /\ UNCHANGED <<idx, local, outs, child, rerun, logs, succ, left>>

(* CancelWorkflowRun overwrites the state of the row, whatever it is, and  *)
(* tells no execution.                                                     *)
CancelWorkflowRun ==
  /\ run.state # "none"
  /\ Spend("cancel")
  /\ run' = [run EXCEPT !.state = "cancelled"]
  /\ UNCHANGED <<execVars, rerun, logs, succ>>

-----------------------------------------------------------------------------
LoadMut(e) ==
  /\ pc[e] = "load"
  /\ local' = [local EXCEPT ![e] = run.steps]
  /\ Goto(e, "mark")
  /\ UNCHANGED <<run, idx, outs, child, rerun, logs, succ, left>>

(* ExecuteRun.  The execution loads the row and the outputs in it.         *)
Load(e) ==
  /\ pc[e] = "load"
  /\ local' = [local EXCEPT ![e] = run.steps]
  /\ outs' = [outs EXCEPT ![e] = {s \in StepId : run.steps[s].out}]
  /\ Goto(e, "mark")
  /\ UNCHANGED <<run, idx, child, rerun, logs, succ, left>>

AfterStep(e, i) == Goto(e, IF i > Len(Plan) THEN "finish" ELSE "begin")

MarkRunning(e) ==
  /\ pc[e] = "mark"
  /\ run' = [run EXCEPT !.state = "running"]
  /\ AfterStep(e, 1)
  /\ UNCHANGED <<idx, local, outs, child, rerun, logs, succ, left>>

ReplayedMut(e) == FALSE

(* The replay check of executeStep.  The id of a parallel step is no key   *)
(* of stepStates, and its children are not looked up.                      *)
Replayed(e) ==
  /\ Item(e).type # "parallel"
  /\ local[e][Item(e).id].state = "completed"

SkipCompleted(e) ==
  /\ pc[e] = "begin" /\ Replayed(e)
  /\ Goto(e, "persist")
  /\ UNCHANGED <<run, idx, local, outs, child, rerun, logs, succ, left>>

(* Map and reduce steps do not count attempts and write no step log.       *)
Counts(type) == type \notin {"map", "reduce"}

BeginHandler(e, s, type) ==
  LET attempt == IF Counts(type) THEN local[e][s].attempt + 1 ELSE 1
  IN /\ local' = [local EXCEPT ![e][s] = [state   |-> "running",
                                          attempt |-> attempt,
                                          out     |-> FALSE]]
     /\ logs' = IF Counts(type) THEN [logs EXCEPT ![s] = Append(@, attempt)]
                                ELSE logs

(* The early returns: no function, or no output of the source step.  The   *)
(* job handler of a handler step is looked up later, when it is called.    *)
Unready(e) ==
  \/ Item(e).type # "handler" /\ Item(e).id \notin Registered
  \/ Item(e).type = "reduce" /\ Item(e).source \notin outs[e]

BeginStep(e) ==
  /\ pc[e] = "begin" /\ ~Replayed(e)
  /\ Item(e).type # "parallel"
  /\ ~Unready(e)
  /\ BeginHandler(e, Item(e).id, Item(e).type)
  /\ Goto(e, "busy")
  /\ UNCHANGED <<run, idx, outs, child, rerun, succ, left>>

RefuseStep(e) ==
  /\ pc[e] = "begin" /\ ~Replayed(e)
  /\ Item(e).type # "parallel"
  /\ Unready(e)
  /\ Goto(e, "fail")
  /\ UNCHANGED <<run, idx, local, outs, child, rerun, logs, succ, left>>

(* A condition that is false, or not registered.                           *)
SkipConditional(e) ==
  /\ pc[e] = "begin" /\ ~Replayed(e)
  /\ Item(e).type = "conditional"
  /\ local' = [local EXCEPT ![e][Item(e).id] =
                 [state |-> "skipped", attempt |-> 0, out |-> FALSE]]
  /\ Goto(e, "persist")
  /\ UNCHANGED <<run, idx, outs, child, rerun, logs, succ, left>>

HasOutput(s, type) == type \in {"map", "reduce"} \/ s \in Emits

(* The handler step's executor returns a nil output: the key is in state,  *)
(* but no output is stored with the step.                                  *)
KeepsKey(s, type) == type = "handler" \/ HasOutput(s, type)

EndHandler(e, s, type, ok) ==
  /\ local' = [local EXCEPT
       ![e][s].state = IF ok THEN "completed" ELSE "failed",
       ![e][s].out   = ok /\ type # "handler" /\ HasOutput(s, type)]
  /\ outs' = IF ok /\ KeepsKey(s, type)
             THEN [outs EXCEPT ![e] = @ \cup {s}] ELSE outs
  /\ succ' = IF ok THEN [succ EXCEPT ![s] = @ + 1] ELSE succ

EndStep(e) ==
  /\ pc[e] = "busy"
  /\ \E ok \in BOOLEAN :
       /\ ok => Item(e).id \in Registered
       /\ EndHandler(e, Item(e).id, Item(e).type, ok)
       /\ Goto(e, IF ok THEN "persist" ELSE "fail")
  /\ UNCHANGED <<run, idx, child, rerun, logs, left>>

-----------------------------------------------------------------------------
(* executeParallelSteps: a goroutine per child, all of which run the step  *)
(* without looking whether it is completed.                                *)
BeginParallel(e) ==
  /\ pc[e] = "begin"
  /\ Item(e).type = "parallel"
  /\ child' = [child EXCEPT ![e] =
                 [s \in StepId |-> IF s \in ToSet(Item(e).children)
                                   THEN "todo" ELSE "none"]]
  /\ Goto(e, "parallel")
  /\ UNCHANGED <<run, idx, local, outs, rerun, logs, succ, left>>

BeginChild(e, s) ==
  /\ pc[e] = "parallel" /\ child[e][s] = "todo"
  /\ IF s \in Registered
     THEN /\ BeginHandler(e, s, "sequential")
          /\ child' = [child EXCEPT ![e][s] = "busy"]
     ELSE /\ child' = [child EXCEPT ![e][s] = "error"]
          /\ UNCHANGED <<local, logs>>
  /\ UNCHANGED <<run, pc, idx, outs, rerun, succ, left>>

EndChild(e, s) ==
  /\ pc[e] = "parallel" /\ child[e][s] = "busy"
  /\ \E ok \in BOOLEAN :
       /\ EndHandler(e, s, "sequential", ok)
       /\ child' = [child EXCEPT ![e][s] = IF ok THEN "ok" ELSE "error"]
  /\ UNCHANGED <<run, pc, idx, rerun, logs, left>>

JoinParallel(e) ==
  /\ pc[e] = "parallel"
  /\ \A s \in StepId : child[e][s] \notin {"todo", "busy"}
  /\ Goto(e, IF \E s \in StepId : child[e][s] = "error"
             THEN "fail" ELSE "persist")
  /\ child' = [child EXCEPT ![e] = NoChildren]
  /\ UNCHANGED <<run, idx, local, outs, rerun, logs, succ, left>>

-----------------------------------------------------------------------------
PersistMut(e) ==
  /\ pc[e] = "persist"
  /\ idx' = [idx EXCEPT ![e] = @ + 1]
  /\ AfterStep(e, idx[e] + 1)
  /\ UNCHANGED <<run, local, outs, child, rerun, logs, succ, left>>

(* The step states are written back after a step that did not fail.        *)
Persist(e) ==
  /\ pc[e] = "persist"
  /\ run' = [run EXCEPT !.steps = local[e]]
  /\ idx' = [idx EXCEPT ![e] = @ + 1]
  /\ AfterStep(e, idx[e] + 1)
  /\ UNCHANGED <<local, outs, child, rerun, logs, succ, left>>

FailRunMut(e) ==
  /\ pc[e] = "fail"
  /\ Goto(e, "ended")
  /\ UNCHANGED <<run, idx, local, outs, child, rerun, logs, succ, left>>

(* After a step that failed only the state of the run is.                  *)
FailRun(e) ==
  /\ pc[e] = "fail"
  /\ run' = [run EXCEPT !.state = "failed"]
  /\ Goto(e, "ended")
  /\ UNCHANGED <<idx, local, outs, child, rerun, logs, succ, left>>

FinishRun(e) ==
  /\ pc[e] = "finish"
  /\ run' = [run EXCEPT !.state = "completed"]
  /\ Goto(e, "ended")
  /\ UNCHANGED <<idx, local, outs, child, rerun, logs, succ, left>>

(* One of these statements fails.  ExecuteRun returns without another      *)
(* write, except that it goes on when the step states could not be saved.  *)
StatementError(e) ==
  /\ pc[e] \in {"load", "mark", "persist", "fail", "finish"}
  /\ Spend("dbError")
  /\ IF pc[e] = "persist"
     THEN idx' = [idx EXCEPT ![e] = @ + 1] /\ AfterStep(e, idx[e] + 1)
     ELSE Goto(e, "ended") /\ UNCHANGED idx
  /\ UNCHANGED <<run, local, outs, child, rerun, logs, succ>>

(* The process dies, with all executions and callers.  Two children of a   *)
(* parallel step that write stepStates at once can be the reason: the map  *)
(* is shared without a lock, and Go's runtime ends the process.            *)
Crash ==
  /\ \E e \in Exec : Active(e)
  /\ Spend("crash")
  /\ pc' = [e \in Exec |-> IF Active(e) THEN "ended" ELSE pc[e]]
  /\ child' = [e \in Exec |-> NoChildren]
  /\ rerun' = [r \in Rerunner |-> NoRerun]
  /\ UNCHANGED <<run, idx, local, outs, logs, succ>>

-----------------------------------------------------------------------------
(* Workflow.Steps: the order of the steps, with the children of a parallel *)
(* step in its place.                                                      *)
Flattened ==
  FlattenSeq([i \in 1..Len(Plan) |-> IF Plan[i].type = "parallel"
                                     THEN Plan[i].children
                                     ELSE <<Plan[i].id>>])

RerunReadMut(r, from) ==
  /\ rerun[r].pc = "idle"
  /\ run.state \notin {"none", "completed"}
  /\ rerun' = [rerun EXCEPT ![r] = [pc    |-> "decided",
                                    from  |-> from,
                                    steps |-> run.steps]]
  /\ UNCHANGED <<run, execVars, logs, succ, left>>

(* RerunWorkflowStep reads the run and checks its state ...                *)
RerunRead(r, from) ==
  /\ rerun[r].pc = "idle"
  /\ run.state \in {"failed", "cancelled"}
  /\ rerun' = [rerun EXCEPT ![r] = [pc    |-> "decided",
                                    from  |-> from,
                                    steps |-> run.steps]]
  /\ UNCHANGED <<run, execVars, logs, succ, left>>

ResetFrom(r) == {Flattened[i] : i \in rerun[r].from..Len(Flattened)}

(* ... and then resets the steps it read, from the given one on, whatever  *)
(* the state of the run is by now, and starts an execution.                *)
RerunReset(r) ==
  /\ rerun[r].pc = "decided"
  /\ run' = [state |-> "running",
             steps |-> [s \in StepId |->
               IF s \in ResetFrom(r)
               THEN [Pending EXCEPT !.attempt = rerun[r].steps[s].attempt]
               ELSE rerun[r].steps[s]]]
  /\ succ' = [s \in StepId |-> IF s \in ResetFrom(r) THEN 0 ELSE succ[s]]
  /\ rerun' = [rerun EXCEPT ![r] = NoRerun]
  /\ Spawn
  /\ UNCHANGED <<idx, local, outs, child, logs, left>>

-----------------------------------------------------------------------------
Execute(e) ==
  \/ Load(e) \/ MarkRunning(e) \/ SkipCompleted(e) \/ BeginStep(e)
  \/ RefuseStep(e) \/ SkipConditional(e) \/ EndStep(e)
  \/ BeginParallel(e) \/ JoinParallel(e)
  \/ \E s \in StepId : BeginChild(e, s) \/ EndChild(e, s)
  \/ Persist(e) \/ FailRun(e) \/ FinishRun(e)

Next ==
  \/ StartWorkflow \/ CancelWorkflowRun \/ Crash
  \/ \E e \in Exec : Execute(e) \/ StatementError(e)
  \/ \E r \in Rerunner :
       RerunReset(r) \/ \E from \in 1..Len(Flattened) : RerunRead(r, from)

Spec == Init /\ [][Next]_vars

(* Goroutines are scheduled and handlers return.                           *)
FairSpec == Spec /\ \A e \in Exec : WF_vars(Execute(e))

-----------------------------------------------------------------------------
(* Properties.                                                             *)

(* CancelWorkflowRun was not called.  It tells no execution, so that one   *)
(* may go on while the run looks cancelled.                                *)
NeverCancelled == Spent("cancel") = 0

(* A run that RerunWorkflowStep may restart ("workflow must be in failed   *)
(* or cancelled state") is not being executed, so that one caller, however *)
(* often it calls, never makes two executions work on the run at once.     *)
SingleExecution ==
  NeverCancelled => \A d, e \in Exec : Active(d) /\ Active(e) => d = e

Over(s) == run.steps[s].state \in {"completed", "skipped"}

StepsOf(i) == IF Plan[i].type = "parallel" THEN ToSet(Plan[i].children)
                                           ELSE {Plan[i].id}

(* UpdateWorkflowRunStepStates did not fail, whose errors are ignored, and *)
(* there was one execution at a time.                                      *)
NothingUnsaved == Spent("dbError") = 0 /\ NeverCancelled

(* A step starts only when the row says of all steps before it that they   *)
(* are over, and a run is marked completed only when it says so of every   *)
(* step: what a later step or a reader builds on survives a crash at any   *)
(* point.                                                                  *)
DurablePrefix ==
  NothingUnsaved =>
    /\ \A e \in Exec : pc[e] \in {"busy", "parallel"} =>
         \A i \in 1..idx[e]-1 : \A s \in StepsOf(i) : Over(s)
    /\ run.state = "completed" => \A s \in ToSet(Flattened) : Over(s)

Children == UNION {ToSet(Plan[i].children) : i \in 1..Len(Plan)}

(* The replay check of executeStep: a step that succeeded is not executed  *)
(* again by a rerun unless the rerun reset it.                             *)
ReplayedOnce == NothingUnsaved => \A s \in StepId \ Children : succ[s] <= 1

(* A reduce step whose source is a map step finds the output of its source *)
(* in a replayed execution as in the first one.                            *)
MapOutputKept ==
  \A e \in Exec : pc[e] \in {"begin", "busy", "parallel"} =>
    \A i \in 1..idx[e]-1 : Plan[i].type = "map" => Plan[i].id \in outs[e]

(* A run ends, and stays ended once nobody reruns it any more: every       *)
(* execution writes a last state, whatever CancelWorkflowRun and other     *)
(* executions wrote in between, unless it died or a statement failed.      *)
Ended == run.state \in {"completed", "failed", "cancelled"}

RunEnds ==
  run.state = "pending" ~>
    [](Ended \/ Spent("crash") > 0 \/ Spent("dbError") > 0)
=============================================================================
