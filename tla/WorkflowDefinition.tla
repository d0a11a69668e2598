------------------------ MODULE WorkflowDefinition -------------------------
(***************************************************************************)
(* How a workflow gets from the program that defines it to an execution:   *)
(* the builder (workflow.go), its registration with the engine and its     *)
(* serialization (client.go), and the lookups of the engine (engine.go).   *)
(* Functions cannot be stored: the database has the steps, every process   *)
(* has tables of functions, and the two meet by the ids of steps.          *)
(*                                                                         *)
(* There is one workflow name.  A function is named by the builder call    *)
(* that supplied it: <<i, 0>> for step i, <<i, j>> for child j of step i.  *)
(* Functions of steps succeed; their failures are in WorkflowEngine.  Rows *)
(* are deleted by nothing, and what is in the column of the step states    *)
(* was written by the program: these are found and can be read.            *)
(***************************************************************************)
EXTENDS Integers, Sequences, SequencesExt

CONSTANTS
  Client,      \* the processes; one that is started anew is another one
  Call,        \* the builder calls that programs make
  AutoId,      \* AutoId[type][n], the id that the builder makes of both
  JobKind,     \* the kinds of job with a handler in every process
  MaxSteps,    \* bound on the steps of a workflow
  MaxRuns      \* bound on the runs

AutoType == {"parallel", "conditional"}
StepType == AutoType \cup {"sequential", "map", "reduce", "handler"}

(* A call of the builder: Step, Parallel, If, Map, Reduce or HandlerStep,  *)
(* with the ids it is given and whether a timeout is among its options,    *)
(* or is given to one of the children of a parallel step.                  *)
BuilderCall == [type : StepType, ids : Seq(STRING), kind : STRING,
                timeout : BOOLEAN]

Id == (UNION {ToSet(call.ids) : call \in Call})
        \cup {AutoId[t][n] : t \in AutoType, n \in 0..MaxSteps-1}

ASSUME DefinitionAssumption ==
  /\ Call \subseteq BuilderCall
  /\ \A call \in Call : call.type \notin AutoType => Len(call.ids) = 1
  /\ \A t, u \in AutoType, m, n \in 0..MaxSteps-1 :
       AutoId[t][m] = AutoId[u][n] => t = u /\ m = n
  /\ "" \notin Id
  /\ MaxSteps \in Nat /\ MaxRuns \in Nat

VARIABLES
  steps,       \* per process, Workflow.steps
  timed,       \* per process, whether Workflow.timeout is set
  registered,  \* the processes that have it in Client.workflows
  table,       \* per process, the tables of functions of its engine
  def,         \* the definition column of rivo_workflow_definitions, if any
  run,         \* the rows of rivo_workflow_runs
  exec,        \* the call of StartWorkflow and the execution of each run
  own,         \* per run, the definition stored for it (history)
  late,        \* a registered workflow was extended (history)
  called,      \* per run, which step called which function (history)
  hurt         \* the runs with a failed statement or a dead process (history)

processes == <<steps, timed, registered, table>>
vars == <<processes, def, run, exec, own, late, called, hurt>>

Run == 1..MaxRuns

-----------------------------------------------------------------------------
(* The builder.                                                            *)

PrevIdMut(s) == IF s = << >> THEN "" ELSE s[1].id

PrevId(s) == IF s = << >> THEN "" ELSE Last(s).id

AutoNamedMut(s, call) == AutoId[call.type][0]

(* fmt.Sprintf("parallel_%d", len(w.steps)), and likewise for conditional. *)
AutoNamed(s, call) == AutoId[call.type][Len(s)]

(* The step that a call appends.  A reduce step has the id of the step     *)
(* before it as its source.                                                *)
NewStep(s, call) ==
  [type     |-> call.type,
   id       |-> IF call.type \in AutoType THEN AutoNamed(s, call)
                                          ELSE call.ids[1],
   children |-> IF call.type = "parallel" THEN call.ids ELSE << >>,
   source   |-> IF call.type = "reduce" THEN PrevId(s) ELSE "",
   kind     |-> call.kind,
   timeout  |-> call.timeout]

(* What is executed: a step, or the children of a parallel step.           *)
UnitsOf(s, i) ==
  IF s[i].type = "parallel"
  THEN [j \in 1..Len(s[i].children) |->
          [id |-> s[i].children[j], type |-> "sequential", fn |-> <<i, j>>]]
  ELSE <<[id |-> s[i].id, type |-> s[i].type, fn |-> <<i, 0>>]>>

Units(s) == FlattenSeq([i \in 1..Len(s) |-> UnitsOf(s, i)])

StepIdsMut(s) == {s[i].id : i \in 1..Len(s)}

(* Workflow.Steps: the ids of the units.                                   *)
StepIds(s) == {u.id : u \in ToSet(Units(s))}

-----------------------------------------------------------------------------
(* The engine's tables.                                                    *)

Table == {"handlers", "conditions", "mapHandlers", "reduceHandlers"}

(* Which steps registerWorkflowStep enters in a table: those whose builder *)
(* call set the function in question.  If sets two, HandlerStep none.      *)
Entered(t) ==
  CASE t = "handlers"       -> {"sequential", "conditional"}
    [] t = "conditions"     -> {"conditional"}
    [] t = "mapHandlers"    -> {"map"}
    [] t = "reduceHandlers" -> {"reduce"}

(* The tables that the executor of a stored type looks into.  The function *)
(* of a handler step is a job handler.                                     *)
Consulted(type) ==
  CASE type = "sequential"  -> {"handlers"}
    [] type = "conditional" -> {"handlers", "conditions"}
    [] type = "map"         -> {"mapHandlers"}
    [] type = "reduce"      -> {"reduceHandlers"}
    [] type = "handler"     -> {}

NoFn == <<0, 0>>
EmptyTables == [t \in Table |-> [id \in Id |-> NoFn]]

(* RegisterWorkflow registers the units in their order: the last of those  *)
(* with the same id and table stays.                                       *)
RegisterAll(tables, s) ==
  LET us == Units(s)
      For(t, id) == {k \in 1..Len(us) : us[k].id = id /\ us[k].type \in Entered(t)}
  IN [t \in Table |-> [id \in Id |->
        IF For(t, id) = {} THEN tables[t][id] ELSE us[Max(For(t, id))].fn]]

-----------------------------------------------------------------------------
NoDefinition == [steps |-> << >>, timeout |-> FALSE]
NoRow == [state |-> "none", keys |-> {}]
Nobody == ""
NoExec == [pc |-> "unused", client |-> Nobody, plan |-> << >>, idx |-> 1,
           outs |-> {}, done |-> {}]

Step == [type : StepType, id : Id, children : Seq(Id), source : Id \cup {""},
         kind : STRING, timeout : BOOLEAN]
Fn == (0..MaxSteps) \X Nat

TypeOK ==
  /\ \A c \in Client : steps[c] \in Seq(Step) /\ Len(steps[c]) <= MaxSteps
  /\ timed \in [Client -> BOOLEAN] /\ registered \subseteq Client
  /\ table \in [Client -> [Table -> [Id -> Fn]]]
  /\ def.steps \in Seq(Step) /\ def.timeout \in BOOLEAN
  /\ \A r \in Run :
       /\ run[r].state \in {"none", "pending", "running", "completed", "failed"}
       /\ run[r].keys \subseteq Id
       /\ exec[r].pc \in {"unused", "create", "load", "mark", "step", "ended"}
       /\ exec[r].client \in Client \cup {Nobody} /\ exec[r].plan \in Seq(Step)
       /\ exec[r].idx \in 1..Len(exec[r].plan) + 1
       /\ exec[r].outs \subseteq exec[r].done /\ exec[r].done \subseteq Id
  /\ hurt \subseteq Run

Init ==
  /\ steps = [c \in Client |-> << >>] /\ timed = [c \in Client |-> FALSE]
  /\ registered = {}
  /\ table = [c \in Client |-> EmptyTables]
  /\ def = NoDefinition
  /\ run = [r \in Run |-> NoRow]
  /\ exec = [r \in Run |-> NoExec]
  /\ own = [r \in Run |-> NoDefinition] /\ late = FALSE
  /\ called = [r \in Run |-> {}] /\ hurt = {}

(* A call of the builder, before or after the workflow was registered: the *)
(* client keeps a pointer to it.                                           *)
Build(c, call) ==
  /\ Len(steps[c]) < MaxSteps
  /\ steps' = [steps EXCEPT ![c] = Append(@, NewStep(@, call))]
  /\ late' = (late \/ c \in registered)
  /\ UNCHANGED <<timed, registered, table, def, run, exec, own, called, hurt>>

(* Workflow.Timeout, with zero or a positive duration.                     *)
SetTimeout(c) ==
  /\ \E b \in BOOLEAN : timed' = [timed EXCEPT ![c] = b]
  /\ UNCHANGED <<steps, registered, table, def, run, exec, own, late, called, hurt>>

RegisterWorkflow(c) ==
  /\ registered' = registered \cup {c}
  /\ table' = [table EXCEPT ![c] = RegisterAll(@, steps[c])]
  /\ UNCHANGED <<steps, timed, def, run, exec, own, late, called, hurt>>

-----------------------------------------------------------------------------
(* StartWorkflow.                                                          *)

DefinitionOf(c) == [steps |-> steps[c], timeout |-> timed[c]]

(* ON CONFLICT DO UPDATE: the version is always the same one.              *)
Upsert(old, new) == new

(* It writes the definition over the one that is there ...                 *)
StoreDefinition(c, r) ==
  /\ c \in registered
  /\ exec[r].pc = "unused" /\ \A q \in 1..r-1 : exec[q].pc # "unused"
  /\ def' = Upsert(def, DefinitionOf(c))
  /\ own' = [own EXCEPT ![r] = DefinitionOf(c)]
  /\ exec' = [exec EXCEPT ![r].pc = "create", ![r].client = c]
  /\ UNCHANGED <<processes, run, late, called, hurt>>

NewRow(r) == [state |-> "pending", keys |-> StepIds(steps[exec[r].client])]

(* ... then creates the row of the run and starts an execution.            *)
CreateRun(r) ==
  /\ exec[r].pc = "create"
  /\ run' = [run EXCEPT ![r] = NewRow(r)]
  /\ exec' = [exec EXCEPT ![r].pc = "load"]
  /\ UNCHANGED <<processes, def, own, late, called, hurt>>

-----------------------------------------------------------------------------
(* ExecuteRun.                                                             *)

(* A timeout, of the workflow or of a step, is stored as text ("5s") and   *)
(* read as a number.                                                       *)
Parses(d) == ~d.timeout /\ \A i \in 1..Len(d.steps) : ~d.steps[i].timeout

LoadMut(r) ==
  /\ exec[r].pc = "load"
  /\ exec' = IF Parses(def)
             THEN [exec EXCEPT ![r].pc = "mark", ![r].plan = steps[exec[r].client]]
             ELSE [exec EXCEPT ![r].pc = "ended"]
  /\ UNCHANGED <<processes, def, run, own, late, called, hurt>>

(* It reads the row and the definition, and returns when the definition    *)
(* cannot be parsed ...                                                    *)
Load(r) ==
  /\ exec[r].pc = "load"
  /\ exec' = IF Parses(def)
             THEN [exec EXCEPT ![r].pc = "mark", ![r].plan = def.steps]
             ELSE [exec EXCEPT ![r].pc = "ended"]
  /\ UNCHANGED <<processes, def, run, own, late, called, hurt>>

(* ... then marks the run as running.                                      *)
MarkRunning(r) ==
  /\ exec[r].pc = "mark"
  /\ run' = [run EXCEPT ![r].state = "running"]
  /\ exec' = [exec EXCEPT ![r].pc = "step"]
  /\ UNCHANGED <<processes, def, own, late, called, hurt>>

AtStep(r) == exec[r].pc = "step" /\ exec[r].idx <= Len(exec[r].plan)

Current(r) == exec[r].plan[exec[r].idx]
CurrentUnits(r) == ToSet(UnitsOf(exec[r].plan, exec[r].idx))

ReplayedMut(r) == exec[r].outs # {}

(* The check of executeStep, which a parallel step also passes through.    *)
Replayed(r) == Current(r).id \in exec[r].done

Advance(r, ids, outs) ==
  exec' = [exec EXCEPT ![r].idx = @ + 1, ![r].done = @ \cup ids,
                       ![r].outs = @ \cup outs]

(* A conditional step without a condition is not executed.                 *)
Conditioned(r) ==
  Current(r).type = "conditional" =>
    table[exec[r].client]["conditions"][Current(r).id] # NoFn

(* The early returns of the executors: no function, no output of the       *)
(* source, no handler for the kind of job.                                 *)
Refused(r) ==
  \/ \E u \in CurrentUnits(r) : \E t \in Consulted(u.type) :
       table[exec[r].client][t][u.id] = NoFn
  \/ Current(r).type = "reduce" /\ Current(r).source \notin exec[r].outs
  \/ Current(r).type = "handler" /\ Current(r).kind \notin JobKind

(* A sequential step has an output if its function sets one.               *)
RunStep(r) ==
  /\ AtStep(r) /\ ~Replayed(r) /\ Conditioned(r) /\ ~Refused(r)
  /\ LET us  == CurrentUnits(r)
         ids == {u.id : u \in us}
     IN /\ \E outs \in SUBSET ids :
             /\ Current(r).type \in {"map", "reduce", "handler"} => outs = ids
             /\ Advance(r, ids, outs)
        /\ called' = [called EXCEPT ![r] = @ \cup UNION
             {{<<u.fn, table[exec[r].client][t][u.id]>> : t \in Consulted(u.type)} :
                u \in us}]
  /\ UNCHANGED <<processes, def, run, own, late, hurt>>

(* The step is completed already, or its condition is missing or false.    *)
SkipStep(r) ==
  /\ AtStep(r)
  /\ Replayed(r) \/ Current(r).type = "conditional"
  /\ Advance(r, {}, {})
  /\ UNCHANGED <<processes, def, run, own, late, called, hurt>>

MustFail(r) == AtStep(r) /\ ~Replayed(r) /\ Conditioned(r) /\ Refused(r)
AtEnd(r) == exec[r].pc = "step" /\ exec[r].idx > Len(exec[r].plan)

(* The last statement of an execution.                                     *)
EndRun(r, state) ==
  /\ run' = [run EXCEPT ![r].state = state]
  /\ exec' = [exec EXCEPT ![r].pc = "ended"]
  /\ UNCHANGED <<processes, def, own, late, called>>

RefuseStep(r) == MustFail(r) /\ EndRun(r, "failed") /\ UNCHANGED hurt

FinishRun(r) == AtEnd(r) /\ EndRun(r, "completed") /\ UNCHANGED hurt

Execute(r) ==
  Load(r) \/ MarkRunning(r) \/ RunStep(r) \/ SkipStep(r) \/ RefuseStep(r) \/ FinishRun(r)

(* A statement fails, having been carried out or not, or the process dies  *)
(* (its other executions are then interrupted as well).  StartWorkflow and *)
(* ExecuteRun return at the first error of CreateWorkflowRun, of a read    *)
(* and of UpdateWorkflowRunState.  The writes in the middle of a run may   *)
(* fail unnoticed, and the one of a definition leaves it as it is or as    *)
(* StoreDefinition does, and then there is no run.                         *)
Interrupted(r) ==
  /\ exec[r].pc \notin {"unused", "ended"}
  /\ \/ UNCHANGED run
     \/ exec[r].pc = "create" /\ run' = [run EXCEPT ![r] = NewRow(r)]
     \/ exec[r].pc = "mark" /\ run' = [run EXCEPT ![r].state = "running"]
     \/ MustFail(r) /\ run' = [run EXCEPT ![r].state = "failed"]
     \/ AtEnd(r) /\ run' = [run EXCEPT ![r].state = "completed"]
  /\ exec' = [exec EXCEPT ![r].pc = "ended"]
  /\ hurt' = hurt \cup {r}
  /\ UNCHANGED <<processes, def, own, late, called>>

Next ==
  \/ \E c \in Client :
       \/ \E call \in Call : Build(c, call)
       \/ SetTimeout(c)
       \/ RegisterWorkflow(c)
       \/ \E r \in Run : StoreDefinition(c, r)
  \/ \E r \in Run : CreateRun(r) \/ Execute(r) \/ Interrupted(r)

Spec == Init /\ [][Next]_vars

-----------------------------------------------------------------------------
(* Properties.                                                             *)

GivenIds(s) ==
  FlattenSeq([i \in 1..Len(s) |-> IF s[i].type \in AutoType THEN s[i].children
                                                            ELSE <<s[i].id>>])

(* The processes that started runs had the same workflow, whole when it    *)
(* was registered.                                                         *)
OneVersion ==
  /\ \A q, r \in Run : "unused" \notin {exec[q].pc, exec[r].pc} => own[q] = own[r]
  /\ ~late

(* The program's ids are distinct, and none is one that the builder made   *)
(* for a step of this workflow.                                            *)
Clean ==
  /\ OneVersion
  /\ IsInjective(GivenIds(def.steps))
  /\ \A i \in 1..Len(def.steps) :
       def.steps[i].type \in AutoType => def.steps[i].id \notin ToSet(GivenIds(def.steps))

(* A step is executed with the function that was given with it, whatever   *)
(* the order of builder calls, registrations and starts: what              *)
(* RegisterWorkflow put into a table is what the executor of the stored    *)
(* type finds.                                                             *)
OwnFunctions == Clean => \A r \in Run : \A p \in called[r] : p[1] = p[2]

(* A run fails for want of a function or an output only if a reduce step   *)
(* follows a step that leaves no output under its id, or nobody handles    *)
(* the kind of job of a handler step.                                      *)
RefusesOnlyReduce ==
  Clean => \A r \in Run : run[r].state = "failed" =>
    \/ Current(r).type = "handler" /\ Current(r).kind \notin JobKind
    \/ /\ Current(r).type = "reduce"
       /\ exec[r].idx > 1 =>
            exec[r].plan[exec[r].idx - 1].type \in AutoType \cup {"sequential"}

Unconditional(s) ==
  LET In == {i \in 1..Len(s) : s[i].type \notin {"conditional", "handler"}}
  IN UNION {{u.fn : u \in ToSet(UnitsOf(s, i))} : i \in In}

(* A run is completed only after all functions of steps without a          *)
(* condition were called: none is taken for one that is done already.      *)
CompletedCalledAll ==
  Clean => \A r \in Run : run[r].state = "completed" =>
    \A f \in Unconditional(exec[r].plan) : \E p \in called[r] : p[1] = f

(* The row of a run has a state for every step that its execution passed,  *)
(* so that RerunWorkflowStep can reset it: Workflow.Steps and the stored   *)
(* definition name the same steps.                                         *)
KeysCoverPlan ==
  OneVersion => \A r \in Run :
    \A i \in 1..exec[r].idx-1 :
      \A u \in ToSet(UnitsOf(exec[r].plan, i)) : u.id \in run[r].keys

(* The definitions that were stored with a run or after it.                *)
StoredSince(r) ==
  {own[q] : q \in {p \in r..MaxRuns : exec[p].pc # "unused"}}

HasTimeout(d) == d.timeout \/ \E i \in 1..Len(d.steps) : d.steps[i].timeout

(* Its execution is over and nothing disturbed it, but it is not settled.  *)
Stranded(r) ==
  exec[r].pc = "ended" /\ run[r].state \notin {"completed", "failed"} /\ r \notin hurt

(* A run meets the definition that was stored with it or a later one,      *)
(* never an older one: StartWorkflow has the row of its workflow           *)
(* overwritten before the run exists, whatever other processes store, fail *)
(* to do or still have to execute.  It is executed by the steps of this    *)
(* definition, or is left pending by a timeout in it, be it the one of     *)
(* another process, and then none of its functions was called.             *)
RunsAsStored ==
  \A r \in Run :
    /\ exec[r].plan # << >> => \E d \in StoredSince(r) : exec[r].plan = d.steps
    /\ Stranded(r) => /\ run[r].state = "pending" /\ called[r] = {}
                      /\ \E d \in StoredSince(r) : HasTimeout(d)
=============================================================================
