-------------------------- MODULE DefinitionProofs --------------------------
(***************************************************************************)
(* That what the builder, the registration and the stored definition say   *)
(* of a workflow fits together, for any builder calls, any number of       *)
(* steps, processes and runs.  The three meet by ids only, so the lemmas   *)
(* are about where the ids of a workflow come from: a unit has an id that  *)
(* the program gave, or one that the builder made of its place.            *)
(***************************************************************************)
EXTENDS WorkflowDefinition, PlaceLemmas

-----------------------------------------------------------------------------
(* Workflows, and the ids of their units.                                  *)

(* What the builder makes: an id of its own tells the place of the step.   *)
FromBuilder(s, i) ==
  /\ s[i].type \in AutoType => s[i].id = AutoId[s[i].type][i-1]
  /\ s[i].type # "parallel" => s[i].children = << >>
  /\ s[i].type = "reduce" /\ i > 1 => s[i].source = s[i-1].id

Workflow == {s \in Seq(Step) : /\ Len(s) <= MaxSteps
                               /\ \A i \in 1..Len(s) : FromBuilder(s, i)}

Unit == [id : Id, type : StepType \ {"parallel"}, fn : Fn]

UnitAt(s, i, j) ==
  IF s[i].type = "parallel"
  THEN [id |-> s[i].children[j], type |-> "sequential", fn |-> <<i, j>>]
  ELSE [id |-> s[i].id, type |-> s[i].type, fn |-> <<i, 0>>]

LEMMA ConstantFacts ==
  /\ MaxSteps \in Nat
  /\ \A t, u \in AutoType, m, n \in 0..MaxSteps-1 :
       AutoId[t][m] = AutoId[u][n] => m = n
BY DefinitionAssumption

LEMMA StepFacts ==
  ASSUME NEW s \in Workflow, NEW i \in 1..Len(s)
  PROVE  /\ s \in Seq(Step) /\ Len(s) \in Nat /\ Len(s) <= MaxSteps
         /\ s[i] \in Step /\ i - 1 \in 0..MaxSteps-1 /\ i \in 0..MaxSteps
         /\ s[i].children \in Seq(Id) /\ Len(s[i].children) \in Nat
         /\ s[i].id \in Id /\ s[i].type \in StepType
         /\ FromBuilder(s, i)
<1>1. s \in Seq(Step) /\ Len(s) <= MaxSteps /\ FromBuilder(s, i)
  BY DEF Workflow
<1>2. s[i] \in Step /\ Len(s) \in Nat
  BY <1>1
<1>3. i - 1 \in 0..MaxSteps-1 /\ i \in 0..MaxSteps
  BY <1>1, <1>2, ConstantFacts
<1>4. /\ s[i].children \in Seq(Id) /\ s[i].id \in Id /\ s[i].type \in StepType
  BY <1>2 DEF Step
<1>5. Len(s[i].children) \in Nat
  BY <1>4
<1> QED BY <1>1, <1>2, <1>3, <1>4, <1>5

LEMMA UnitsFacts ==
  ASSUME NEW s \in Workflow, NEW i \in 1..Len(s)
  PROVE  /\ UnitsOf(s, i) \in Seq(Unit)
         /\ Len(UnitsOf(s, i)) =
              IF s[i].type = "parallel" THEN Len(s[i].children) ELSE 1
         /\ \A j \in 1..Len(UnitsOf(s, i)) : UnitsOf(s, i)[j] = UnitAt(s, i, j)
<1> USE StepFacts
<1>1. CASE s[i].type = "parallel"
  <2>1. \A j \in 1..Len(s[i].children) : UnitAt(s, i, j) \in Unit
    <3> TAKE j \in 1..Len(s[i].children)
    <3>1. s[i].children[j] \in Id /\ <<i, j>> \in Fn /\ j \in Nat
      BY DEF Fn
    <3>2. "sequential" \in StepType \ {"parallel"}
      BY DEF StepType
    <3> QED BY <1>1, <3>1, <3>2 DEF UnitAt, Unit
  <2>2. UnitsOf(s, i) = [j \in 1..Len(s[i].children) |-> UnitAt(s, i, j)]
    BY <1>1 DEF UnitsOf, UnitAt
  <2> QED BY <1>1, <2>1, <2>2
<1>2. CASE s[i].type # "parallel"
  <2>1. UnitAt(s, i, 1) \in Unit
    <3>1. <<i, 0>> \in Fn
      BY DEF Fn
    <3> QED BY <1>2, <3>1 DEF UnitAt, Unit
  <2>2. UnitsOf(s, i) = <<UnitAt(s, i, 1)>>
    BY <1>2 DEF UnitsOf, UnitAt
  <2> QED BY <1>2, <2>1, <2>2
<1> QED BY <1>1, <1>2

LEMMA UnitsContents ==
  ASSUME NEW s \in Workflow
  PROVE  /\ Units(s) \in Seq(Unit)
         /\ ToSet(Units(s)) = UNION {ToSet(UnitsOf(s, i)) : i \in 1..Len(s)}
<1> DEFINE seqs == [i \in 1..Len(s) |-> UnitsOf(s, i)]
<1>1. s \in Seq(Step) /\ Len(s) \in Nat
  BY DEF Workflow
<1>2. \A i \in 1..Len(s) : UnitsOf(s, i) \in Seq(Unit)
  BY UnitsFacts
<1>3. seqs \in Seq(Seq(Unit)) /\ Len(seqs) = Len(s)
  BY <1>1, <1>2
<1>4. \A i \in 1..Len(s) : seqs[i] = UnitsOf(s, i)
  OBVIOUS
<1>5. Units(s) = FlattenSeq(seqs)
  BY DEF Units
<1> HIDE DEF seqs
<1>6. /\ FlattenSeq(seqs) \in Seq(Unit)
      /\ ToSet(FlattenSeq(seqs)) = UNION {ToSet(seqs[i]) : i \in 1..Len(seqs)}
  BY <1>3, FlattenPlaces, FlattenContents
<1>7. UNION {ToSet(seqs[i]) : i \in 1..Len(seqs)}
        = UNION {ToSet(UnitsOf(s, i)) : i \in 1..Len(s)}
  BY <1>3, <1>4
<1> QED BY <1>5, <1>6, <1>7

(* The ids of a workflow are stored with its run.                          *)
LEMMA IdsStored ==
  ASSUME NEW s \in Workflow
  PROVE  /\ StepIds(s) \subseteq Id
         /\ \A i \in 1..Len(s) : \A u \in ToSet(UnitsOf(s, i)) : u.id \in StepIds(s)
<1>1. \A u \in ToSet(Units(s)) : u \in Unit
  BY UnitsContents DEF ToSet
<1> QED BY <1>1, UnitsContents DEF StepIds, Unit

-----------------------------------------------------------------------------
(* Ids that are distinct.                                                  *)

GivenOf(s, i) ==
  IF s[i].type \in AutoType THEN s[i].children ELSE <<s[i].id>>

(* What Clean says of the definition.                                      *)
CleanPlan(s) ==
  /\ IsInjective(GivenIds(s))
  /\ \A i \in 1..Len(s) : s[i].type \in AutoType => s[i].id \notin ToSet(GivenIds(s))

LEMMA GivenApart ==
  ASSUME NEW s \in Workflow, CleanPlan(s),
         NEW i \in 1..Len(s), NEW j \in 1..Len(GivenOf(s, i))
  PROVE  /\ \A k \in 1..Len(s) :
              s[k].type \in AutoType => GivenOf(s, i)[j] # s[k].id
         /\ \A k \in 1..Len(s) : \A l \in 1..Len(GivenOf(s, k)) :
              GivenOf(s, i)[j] = GivenOf(s, k)[l] => i = k /\ j = l
<1> DEFINE seqs == [k \in 1..Len(s) |-> GivenOf(s, k)]
           whole == GivenIds(s)
<1>1. s \in Seq(Step) /\ Len(s) \in Nat
  BY DEF Workflow
<1>2. \A k \in 1..Len(s) : GivenOf(s, k) \in Seq(Id)
  BY StepFacts DEF GivenOf
<1>3. seqs \in Seq(Seq(Id)) /\ Len(seqs) = Len(s)
  BY <1>1, <1>2
<1>4. \A k \in 1..Len(s) : seqs[k] = GivenOf(s, k)
  OBVIOUS
<1>5. whole = FlattenSeq(seqs)
  BY DEF GivenIds, GivenOf
<1> HIDE DEF seqs, whole
<1>6. whole \in Seq(Id)
  BY <1>3, <1>5, FlattenPlaces
<1>7. PICK off \in [1..Len(seqs) -> Nat] : Placed(seqs, Len(seqs), whole, off)
  BY <1>3, <1>5, FlattenPlaces
<1>8. ASSUME NEW k \in 1..Len(s), NEW l \in 1..Len(GivenOf(s, k))
      PROVE  off[k] + l \in 1..Len(whole) /\ whole[off[k] + l] = GivenOf(s, k)[l]
  <2>1. /\ off[k] \in Nat /\ Len(GivenOf(s, k)) \in Nat /\ Len(whole) \in Nat
        /\ off[k] + Len(GivenOf(s, k)) <= Len(whole)
    <3>1. k \in 1..Len(seqs) /\ seqs[k] = GivenOf(s, k)
      BY <1>3, <1>4
    <3>2. GivenOf(s, k) \in Seq(Id)
      BY <1>2
    <3>3. off[k] + Len(seqs[k]) <= Len(whole)
      BY <1>7, <3>1 DEF Placed
    <3>4. off[k] \in Nat
      BY <3>1
    <3>5. Len(GivenOf(s, k)) \in Nat /\ Len(whole) \in Nat
      BY <1>6, <3>2
    <3> QED BY <3>1, <3>3, <3>4, <3>5
  <2>2. whole[off[k] + l] = GivenOf(s, k)[l]
    BY <1>3, <1>4, <1>7 DEF Placed
  <2> QED BY <2>1, <2>2
<1>9. GivenOf(s, i)[j] \in ToSet(whole)
  BY <1>6, <1>8 DEF ToSet
<1>10. ASSUME NEW k \in 1..Len(s), NEW l \in 1..Len(GivenOf(s, k)),
              GivenOf(s, i)[j] = GivenOf(s, k)[l]
       PROVE  i = k /\ j = l
  <2>1. /\ off[i] \in Nat /\ off[k] \in Nat
        /\ Len(GivenOf(s, i)) \in Nat /\ Len(GivenOf(s, k)) \in Nat
    <3>1. i \in 1..Len(seqs) /\ k \in 1..Len(seqs)
      BY <1>3
    <3>2. GivenOf(s, i) \in Seq(Id) /\ GivenOf(s, k) \in Seq(Id)
      BY <1>2
    <3> QED BY <1>7, <3>1, <3>2
  <2>2. off[i] + j = off[k] + l
    <3>1. whole[off[i] + j] = whole[off[k] + l]
      BY <1>8, <1>10
    <3>2. off[i] + j \in DOMAIN whole /\ off[k] + l \in DOMAIN whole
      BY <1>6, <1>8
    <3> QED BY <3>1, <3>2 DEF CleanPlan, IsInjective, whole
  <2>3. \A m, n \in 1..Len(s) : m < n => off[m] + Len(GivenOf(s, m)) <= off[n]
    BY <1>3, <1>4, <1>7 DEF Placed
  <2>4. CASE i < k
    <3>1. off[i] + Len(GivenOf(s, i)) <= off[k]
      BY <2>3, <2>4
    <3> QED BY <2>1, <2>2, <3>1
  <2>5. CASE k < i
    <3>1. off[k] + Len(GivenOf(s, k)) <= off[i]
      BY <2>3, <2>5
    <3> QED BY <2>1, <2>2, <3>1
  <2>6. CASE i = k
    BY <2>1, <2>2, <2>6
  <2> QED BY <1>1, <2>4, <2>5, <2>6
<1> QED BY <1>9, <1>10 DEF CleanPlan, whole

(* An id leads to one unit, and to no step but the one that the unit is    *)
(* or is a child of.                                                       *)
LEMMA UnitIdsApart ==
  ASSUME NEW s \in Workflow, CleanPlan(s),
         NEW i \in 1..Len(s), NEW k \in 1..Len(s), NEW u \in ToSet(UnitsOf(s, i))
  PROVE  /\ \A v \in ToSet(UnitsOf(s, k)) : u.id = v.id => u = v
         /\ u.id = s[k].id => i = k
<1> DEFINE Ids(m) == 1..Len(GivenOf(s, m))
<1>1. /\ s[i] \in Step /\ FromBuilder(s, i) /\ i - 1 \in 0..MaxSteps-1
      /\ s[k] \in Step /\ FromBuilder(s, k) /\ k - 1 \in 0..MaxSteps-1
  BY StepFacts
<1>2. ASSUME NEW m \in 1..Len(s), NEW v \in ToSet(UnitsOf(s, m))
      PROVE  \/ \E j \in Ids(m) : v = UnitAt(s, m, j) /\ v.id = GivenOf(s, m)[j]
             \/ /\ s[m].type = "conditional" /\ v = UnitAt(s, m, 0)
                /\ v.id = s[m].id
  <2>1. s[m] \in Step /\ FromBuilder(s, m) /\ Len(s[m].children) \in Nat
    BY StepFacts
  <2>2. PICK j \in 1..Len(UnitsOf(s, m)) : v = UnitAt(s, m, j)
    BY UnitsFacts DEF ToSet
  <2>3. CASE s[m].type = "parallel"
    <3>1. j \in Ids(m) /\ GivenOf(s, m) = s[m].children
      BY <2>3, UnitsFacts DEF GivenOf, AutoType
    <3> QED BY <2>2, <2>3, <3>1 DEF UnitAt
  <2>4. CASE s[m].type = "conditional"
    <3>1. v = UnitAt(s, m, 0) /\ v.id = s[m].id
      BY <2>2, <2>4 DEF UnitAt
    <3> QED BY <2>4, <3>1
  <2>5. CASE s[m].type \notin AutoType
    <3>1. s[m].type # "parallel" /\ GivenOf(s, m) = <<s[m].id>>
      BY <2>5 DEF GivenOf, AutoType
    <3>2. Len(UnitsOf(s, m)) = 1
      BY <3>1, UnitsFacts
    <3>3. j = 1 /\ v.id = s[m].id
      BY <2>2, <3>1, <3>2 DEF UnitAt
    <3>4. 1 \in Ids(m) /\ GivenOf(s, m)[1] = s[m].id
      BY <3>1
    <3> QED BY <2>2, <3>3, <3>4
  <2> QED BY <2>3, <2>4, <2>5 DEF AutoType
<1>3. ASSUME NEW v \in ToSet(UnitsOf(s, k)), u.id = v.id
      PROVE  u = v
  <2>1. CASE \E j \in Ids(i) : u = UnitAt(s, i, j) /\ u.id = GivenOf(s, i)[j]
    <3>1. PICK j \in Ids(i) : u = UnitAt(s, i, j) /\ u.id = GivenOf(s, i)[j]
      BY <2>1
    <3>2. s[k].type = "conditional" => v.id # s[k].id
      BY <1>3, <3>1, GivenApart DEF AutoType
    <3>3. PICK l \in Ids(k) : v = UnitAt(s, k, l) /\ v.id = GivenOf(s, k)[l]
      BY <1>2, <3>2
    <3>4. i = k /\ j = l
      BY <1>3, <3>1, <3>3, GivenApart
    <3> QED BY <3>1, <3>3, <3>4
  <2>2. CASE /\ s[i].type = "conditional" /\ u = UnitAt(s, i, 0)
             /\ u.id = s[i].id
    <3>1. \A l \in Ids(k) : v.id # GivenOf(s, k)[l]
      BY <1>3, <2>2, GivenApart DEF AutoType
    <3>2. /\ s[k].type = "conditional" /\ v = UnitAt(s, k, 0)
          /\ v.id = s[k].id
      BY <1>2, <3>1
    <3>3. i - 1 = k - 1
      <4>1. /\ s[i].id = AutoId["conditional"][i-1]
            /\ s[k].id = AutoId["conditional"][k-1]
        BY <1>1, <2>2, <3>2 DEF FromBuilder, AutoType
      <4> QED BY <1>1, <1>3, <2>2, <3>2, <4>1, ConstantFacts DEF AutoType
    <3>4. i = k
      BY <1>1, <3>3
    <3> QED BY <2>2, <3>2, <3>4
  <2> QED BY <1>2, <2>1, <2>2
<1>4. ASSUME u.id = s[k].id PROVE i = k
  <2>1. CASE s[k].type \in AutoType
    <3>1. \A j \in Ids(i) : u.id # GivenOf(s, i)[j]
      BY <1>4, <2>1, GivenApart
    <3>2. s[i].type = "conditional" /\ u.id = s[i].id
      BY <1>2, <3>1
    <3>3. /\ s[k].id = AutoId[s[k].type][k-1]
          /\ s[i].id = AutoId["conditional"][i-1]
      BY <1>1, <2>1, <3>2 DEF FromBuilder, AutoType
    <3>4. i - 1 = k - 1
      BY <1>1, <1>4, <2>1, <3>2, <3>3, ConstantFacts DEF AutoType
    <3> QED BY <1>1, <3>4
  <2>2. CASE s[k].type \notin AutoType
    <3>1. 1 \in Ids(k) /\ GivenOf(s, k)[1] = s[k].id
      BY <2>2 DEF GivenOf
    <3>2. s[i].type = "conditional" => u.id # s[i].id
      BY <1>4, <3>1, GivenApart DEF AutoType
    <3>3. PICK j \in Ids(i) : u.id = GivenOf(s, i)[j]
      BY <1>2, <3>2
    <3> QED BY <1>4, <3>1, <3>3, GivenApart
  <2> QED BY <2>1, <2>2
<1> QED BY <1>3, <1>4

-----------------------------------------------------------------------------
(* The engine's tables.                                                    *)

FnTables == [Table -> [Id -> Fn]]

(* Where an executor looks, the registration has entered something.        *)
LEMMA ConsultedEntered ==
  ASSUME NEW type \in StepType \ {"parallel"}, NEW t \in Consulted(type)
  PROVE  t \in Table /\ type \in Entered(t)
BY DEF Consulted, Entered, Table, StepType, AutoType

Places(s, t, id) ==
  {k \in 1..Len(Units(s)) : Units(s)[k].id = id /\ Units(s)[k].type \in Entered(t)}

LEMMA EntryOf ==
  ASSUME NEW s \in Workflow, NEW E, NEW t \in Table, NEW id \in Id
  PROVE  /\ Places(s, t, id) = {} => RegisterAll(E, s)[t][id] = E[t][id]
         /\ Places(s, t, id) # {} =>
              \E u \in ToSet(Units(s)) : /\ u.id = id /\ u.type \in Entered(t)
                                         /\ RegisterAll(E, s)[t][id] = u.fn
<1>1. RegisterAll(E, s)[t][id] =
        IF Places(s, t, id) = {} THEN E[t][id]
                                 ELSE Units(s)[Max(Places(s, t, id))].fn
  BY DEF RegisterAll, Places
<1>2. ASSUME Places(s, t, id) # {}
      PROVE  \E u \in ToSet(Units(s)) : /\ u.id = id /\ u.type \in Entered(t)
                                        /\ RegisterAll(E, s)[t][id] = u.fn
  <2>1. Units(s) \in Seq(Unit) /\ Len(Units(s)) \in Nat
    BY UnitsContents
  <2>2. Places(s, t, id) \in SUBSET (1..Len(Units(s)))
    BY DEF Places
  <2>3. Max(Places(s, t, id)) \in Places(s, t, id)
    BY <1>2, <2>1, <2>2, MaxOfPlaces
  <2>4. PICK k \in Places(s, t, id) : RegisterAll(E, s)[t][id] = Units(s)[k].fn
    BY <1>1, <1>2, <2>3
  <2>5. /\ Units(s)[k] \in ToSet(Units(s))
        /\ Units(s)[k].id = id /\ Units(s)[k].type \in Entered(t)
    BY <2>1, <2>4 DEF Places, ToSet
  <2> QED BY <2>4, <2>5
<1> QED BY <1>1, <1>2

LEMMA TablesKept ==
  ASSUME NEW s \in Workflow, NEW E \in FnTables
  PROVE  RegisterAll(E, s) \in FnTables
<1>1. ASSUME NEW t \in Table, NEW id \in Id
      PROVE  RegisterAll(E, s)[t][id] \in Fn
  <2>1. E[t][id] \in Fn
    BY DEF FnTables
  <2>2. \A u \in ToSet(Units(s)) : u.fn \in Fn
    <3>1. \A u \in ToSet(Units(s)) : u \in Unit
      BY UnitsContents DEF ToSet
    <3> QED BY <3>1 DEF Unit
  <2>3. CASE Places(s, t, id) = {}
    BY <2>1, <2>3, EntryOf
  <2>4. CASE Places(s, t, id) # {}
    <3>1. PICK u \in ToSet(Units(s)) : RegisterAll(E, s)[t][id] = u.fn
      BY <2>4, EntryOf
    <3> QED BY <2>2, <3>1
  <2> QED BY <2>3, <2>4
<1>2. RegisterAll(E, s) = [t \in Table |-> [id \in Id |-> RegisterAll(E, s)[t][id]]]
  BY DEF RegisterAll
<1> QED BY <1>1, <1>2 DEF FnTables

(* A second call of RegisterWorkflow changes nothing.                      *)
LEMMA RegisteredTwice ==
  ASSUME NEW s \in Workflow, NEW E
  PROVE  RegisterAll(RegisterAll(E, s), s) = RegisterAll(E, s)
<1> DEFINE R == RegisterAll(E, s)
<1>1. ASSUME NEW t \in Table, NEW id \in Id
      PROVE  (IF Places(s, t, id) = {}
              THEN R[t][id] ELSE Units(s)[Max(Places(s, t, id))].fn)
               = (IF Places(s, t, id) = {}
                  THEN E[t][id] ELSE Units(s)[Max(Places(s, t, id))].fn)
  BY EntryOf
<1> HIDE DEF R
<1>2. \A F : RegisterAll(F, s) = [t \in Table |-> [id \in Id |->
               IF Places(s, t, id) = {}
               THEN F[t][id] ELSE Units(s)[Max(Places(s, t, id))].fn]]
  BY DEF RegisterAll, Places
<1>3. RegisterAll(R, s) = RegisterAll(E, s)
  BY <1>1, <1>2
<1> QED BY <1>3 DEF R

(* The executor of a unit finds the function that was given with it.       *)
LEMMA OwnEntry ==
  ASSUME NEW s \in Workflow, CleanPlan(s), NEW E,
         NEW i \in 1..Len(s), NEW u \in ToSet(UnitsOf(s, i)),
         NEW t \in Consulted(u.type)
  PROVE  RegisterAll(E, s)[t][u.id] = u.fn /\ u.fn # NoFn
<1>1. u \in Unit /\ u \in ToSet(Units(s))
  <2>1. UnitsOf(s, i) \in Seq(Unit)
    BY UnitsFacts
  <2>2. u \in Unit
    BY <2>1 DEF ToSet
  <2> QED BY <2>2, UnitsContents
<1>2. t \in Table /\ u.type \in Entered(t) /\ u.id \in Id
  BY <1>1, ConsultedEntered DEF Unit
<1>3. Places(s, t, u.id) # {}
  <2>1. PICK k \in 1..Len(Units(s)) : u = Units(s)[k]
    BY <1>1, UnitsContents DEF ToSet
  <2> QED BY <1>2, <2>1 DEF Places
<1>4. PICK v \in ToSet(Units(s)) : v.id = u.id /\ RegisterAll(E, s)[t][u.id] = v.fn
  BY <1>2, <1>3, EntryOf
<1>5. PICK k \in 1..Len(s) : v \in ToSet(UnitsOf(s, k))
  BY <1>4, UnitsContents
<1>6. u = v
  BY <1>4, <1>5, UnitIdsApart
<1>7. u.fn # NoFn
  <2>1. PICK j \in 1..Len(UnitsOf(s, i)) : u = UnitAt(s, i, j)
    BY UnitsFacts DEF ToSet
  <2>2. u.fn[1] = i
    BY <2>1 DEF UnitAt
  <2> QED BY <2>2 DEF NoFn
<1> QED BY <1>4, <1>6, <1>7

-----------------------------------------------------------------------------
(* The inductive invariant.                                                *)

Started(r) == exec[r].pc # "unused"

Definition == [steps : Workflow, timeout : BOOLEAN]
ExecRow == [pc : {"unused", "create", "load", "mark", "step", "ended"},
            client : Client \cup {Nobody}, plan : Workflow, idx : Nat,
            outs : SUBSET Id, done : SUBSET Id]
RunRow == [state : {"none", "pending", "running", "completed", "failed"},
           keys : SUBSET Id]

Types ==
  /\ steps \in [Client -> Workflow] /\ timed \in [Client -> BOOLEAN]
  /\ registered \subseteq Client /\ table \in [Client -> FnTables]
  /\ def \in Definition
  /\ run \in [Run -> RunRow] /\ exec \in [Run -> ExecRow]
  /\ own \in [Run -> Definition] /\ late \in BOOLEAN
  /\ called \in [Run -> SUBSET (Fn \X Fn)] /\ hurt \subseteq Run

(* What an execution holds fits the place where it is.                     *)
IdsBefore(s, n) == UNION {{u.id : u \in ToSet(UnitsOf(s, i))} : i \in 1..n-1}

Where(r) ==
  /\ exec[r].pc \in {"unused", "create", "load"} => exec[r].plan = << >>
  /\ exec[r].pc \in {"unused", "create", "load", "mark"} =>
       exec[r].idx = 1 /\ exec[r].done = {} /\ called[r] = {}
  /\ exec[r].idx \in 1..Len(exec[r].plan) + 1
  /\ exec[r].outs \subseteq exec[r].done
  /\ exec[r].done \subseteq IdsBefore(exec[r].plan, exec[r].idx)
  /\ Started(r) => exec[r].client \in registered

(* The row of a run tells how its execution ended.                         *)
Told(r) ==
  /\ exec[r].pc \in {"unused", "create"} => run[r].state = "none"
  /\ exec[r].pc \in {"load", "mark"} => run[r].state = "pending"
  /\ exec[r].pc = "step" => run[r].state = "running"
  /\ exec[r].plan # << >> => run[r].state # "none"
  /\ run[r].state = "completed" => exec[r].idx = Len(exec[r].plan) + 1
  /\ run[r].state = "failed" => exec[r].idx <= Len(exec[r].plan)

(* The tables of a process are those of its workflow, as long as no step   *)
(* was added too late.                                                     *)
TablesFit ==
  /\ \A c \in Client \ registered : table[c] = EmptyTables
  /\ ~late => \A c \in registered : table[c] = RegisterAll(EmptyTables, steps[c])

(* What is kept of the definition of a run, in its row, in its process and *)
(* by its execution, is one and the same, as long as there is one version. *)
OwnKept(r) ==
  /\ ~late => own[r].steps = steps[exec[r].client]
  /\ OneVersion =>
       /\ own[r] = def
       /\ run[r].state # "none" => run[r].keys = StepIds(def.steps)
       /\ exec[r].pc \in {"mark", "step"} => exec[r].plan = def.steps
       /\ exec[r].plan \in {<< >>, def.steps}

(* The steps that an execution has passed were executed with their own     *)
(* functions and left their outputs.                                       *)
Passed(r) ==
  /\ \A p \in called[r] : p[1] = p[2]
  /\ \A i \in 1..exec[r].idx-1 :
       /\ exec[r].plan[i].type \in {"map", "reduce", "handler"} =>
            exec[r].plan[i].id \in exec[r].outs
       /\ exec[r].plan[i].type \notin {"conditional", "handler"} =>
            \A u \in ToSet(UnitsOf(exec[r].plan, i)) : \E p \in called[r] : p[1] = u.fn

FailedWell(r) ==
  \/ Current(r).type = "handler" /\ Current(r).kind \notin JobKind
  \/ /\ Current(r).type = "reduce"
     /\ exec[r].idx > 1 =>
          exec[r].plan[exec[r].idx - 1].type \in AutoType \cup {"sequential"}

DefInv ==
  /\ Types /\ TablesFit
  /\ \A r \in Run : /\ Where(r) /\ Told(r)
                    /\ Started(r) => OwnKept(r)
                    /\ Clean => /\ Passed(r)
                                /\ run[r].state = "failed" => FailedWell(r)

(* The definitions that were stored with a run or after it are all that    *)
(* its execution can find, since the last one of them is there.            *)
Latest ==
  /\ \A q, r \in Run : q < r /\ Started(r) => Started(q)
  /\ \A r \in Run : Started(r) => def \in StoredSince(r)

AsStored(r) ==
  exec[r].plan # << >> => \E d \in StoredSince(r) : exec[r].plan = d.steps

Explained(r) ==
  exec[r].pc = "ended" /\ run[r].state \notin {"completed", "failed"} /\ r \notin hurt =>
    /\ run[r].state = "pending" /\ called[r] = {}
    /\ \E d \in StoredSince(r) :
         d.timeout \/ \E i \in 1..Len(d.steps) : d.steps[i].timeout

StoredInv == Latest /\ \A r \in Run : AsStored(r) /\ Explained(r)

-----------------------------------------------------------------------------
(* What steps leave alone.                                                 *)

LEMMA OneVersionBefore ==
  ASSUME late => late',
         \A q \in Run : Started(q) => Started(q)' /\ own'[q] = own[q]
  PROVE  OneVersion' => OneVersion
BY DEF OneVersion, Started

LEMMA SameRun ==
  ASSUME NEW q \in Run, exec'[q] = exec[q], run'[q] = run[q],
         called'[q] = called[q], registered \subseteq registered'
  PROVE  /\ Where(q) => Where(q)'
         /\ Told(q) => Told(q)'
         /\ Passed(q) => Passed(q)'
         /\ FailedWell(q) => FailedWell(q)'
<1>1. Where(q) => Where(q)'
  BY DEF Where, Started
<1>2. Told(q) => Told(q)'
  BY DEF Told
<1>3. Passed(q) => Passed(q)'
  BY DEF Passed
<1>4. FailedWell(q) => FailedWell(q)'
  BY DEF FailedWell, Current
<1> QED BY <1>1, <1>2, <1>3, <1>4

(* Only the definitions that processes have change.                        *)
LEMMA ProcessStep ==
  ASSUME DefInv, UNCHANGED <<def, run, exec, own, called>>,
         late => late', registered \subseteq registered',
         \A c \in registered : ~late' => steps'[c] = steps[c]
  PROVE  \A r \in Run : /\ Where(r)' /\ Told(r)'
                        /\ Started(r)' => OwnKept(r)'
                        /\ Clean' => /\ Passed(r)'
                                     /\ (run[r].state = "failed")' => FailedWell(r)'
<1>1. OneVersion' => OneVersion
  BY OneVersionBefore DEF Started
<1>2. Clean' => Clean
  BY <1>1 DEF Clean
<1> SUFFICES ASSUME NEW r \in Run
             PROVE  /\ Where(r)' /\ Told(r)'
                    /\ Started(r)' => OwnKept(r)'
                    /\ Clean' => /\ Passed(r)'
                                 /\ (run[r].state = "failed")' => FailedWell(r)'
  OBVIOUS
<1>3. ASSUME Started(r)' PROVE OwnKept(r)'
  <2>1. OwnKept(r) /\ exec[r].client \in registered
    BY <1>3 DEF DefInv, Where, Started
  <2>2. ~late' => own'[r].steps = steps'[exec'[r].client]
    BY <2>1 DEF OwnKept
  <2> QED BY <1>1, <2>1, <2>2 DEF OwnKept
<1>4. exec'[r] = exec[r] /\ run'[r] = run[r] /\ called'[r] = called[r]
  OBVIOUS
<1> QED BY <1>2, <1>3, <1>4, SameRun DEF DefInv

(* Only a run and its execution change.                                    *)
LEMMA RunStepOf ==
  ASSUME DefInv, NEW r \in Run, Types',
         UNCHANGED <<steps, registered, table, def, own, late>>,
         Started(r) <=> Started(r)',
         \A q \in Run \ {r} : /\ exec'[q] = exec[q] /\ run'[q] = run[q]
                              /\ called'[q] = called[q],
         Where(r)', Told(r)', Started(r)' => OwnKept(r)',
         Clean => /\ Passed(r)'
                  /\ (run[r].state = "failed")' => FailedWell(r)'
  PROVE  DefInv'
<1>1. \A q \in Run : Started(q) <=> Started(q)'
  BY DEF Started
<1>2. OneVersion' <=> OneVersion
  BY <1>1 DEF OneVersion, Started
<1>3. Clean' <=> Clean
  BY <1>2 DEF Clean
<1>4. TablesFit'
  BY DEF DefInv, TablesFit
<1>5. ASSUME NEW q \in Run
      PROVE  /\ Where(q)' /\ Told(q)'
             /\ Started(q)' => OwnKept(q)'
             /\ Clean' => /\ Passed(q)'
                          /\ (run[q].state = "failed")' => FailedWell(q)'
  <2>1. CASE q = r
    BY <1>3, <2>1
  <2>2. CASE q # r
    <3>1. exec'[q] = exec[q] /\ run'[q] = run[q] /\ called'[q] = called[q]
      BY <2>2
    <3>2. Started(q)' => OwnKept(q)'
      BY <1>1, <1>2, <3>1 DEF DefInv, OwnKept
    <3> QED BY <1>3, <3>1, <3>2, SameRun DEF DefInv
  <2> QED BY <2>1, <2>2
<1> QED BY <1>4, <1>5 DEF DefInv

-----------------------------------------------------------------------------
(* The steps.                                                              *)

LEMMA DefInit == Init => DefInv
<1> SUFFICES ASSUME Init PROVE DefInv
  OBVIOUS
<1> USE DEF Init
<1>1. << >> \in Workflow
  BY ConstantFacts DEF Workflow
<1>2. EmptyTables \in FnTables
  BY ConstantFacts DEF EmptyTables, FnTables, NoFn, Fn
<1>3. NoExec \in ExecRow /\ NoRow \in RunRow
  BY <1>1 DEF NoExec, ExecRow, NoRow, RunRow, Nobody
<1>4. Types
  <2>1. NoDefinition \in Definition
    BY <1>1 DEF NoDefinition, Definition
  <2> QED BY <1>1, <1>2, <1>3, <2>1 DEF Types
<1>5. TablesFit
  BY DEF TablesFit
<1>6. ASSUME NEW r \in Run
      PROVE  /\ Where(r) /\ Told(r) /\ ~Started(r)
             /\ Passed(r) /\ run[r].state # "failed"
  <2>1. exec[r] = NoExec /\ run[r] = NoRow /\ called[r] = {}
    OBVIOUS
  <2>2. Where(r) /\ ~Started(r)
    BY <2>1 DEF Where, Started, NoExec
  <2>3. Told(r) /\ run[r].state # "failed"
    BY <2>1 DEF Told, NoExec, NoRow
  <2>4. Passed(r)
    BY <2>1 DEF Passed, NoExec
  <2> QED BY <2>2, <2>3, <2>4
<1> QED BY <1>4, <1>5, <1>6 DEF DefInv

(* The builder appends what FromBuilder describes.                         *)
LEMMA Appended ==
  ASSUME NEW s \in Workflow, Len(s) < MaxSteps, NEW call \in Call
  PROVE  Append(s, NewStep(s, call)) \in Workflow
<1> DEFINE new == NewStep(s, call)
           n == Len(s)
           longer == Append(s, new)
<1>1. /\ s \in Seq(Step) /\ n \in Nat /\ n \in 0..MaxSteps-1 /\ n + 1 <= MaxSteps
  BY ConstantFacts DEF Workflow
<1>2. /\ call \in BuilderCall
      /\ call.type \notin AutoType => Len(call.ids) = 1
  BY DefinitionAssumption
<1>3. /\ call.type \in StepType /\ call.ids \in Seq(STRING)
      /\ call.kind \in STRING /\ call.timeout \in BOOLEAN
  BY <1>2 DEF BuilderCall
<1>4. call.ids \in Seq(Id)
  <2>1. \A j \in 1..Len(call.ids) : call.ids[j] \in Id
    <3> TAKE j \in 1..Len(call.ids)
    <3>1. call.ids[j] \in ToSet(call.ids)
      BY <1>3 DEF ToSet
    <3>2. ToSet(call.ids) \subseteq Id
      BY DEF Id
    <3> QED BY <3>1, <3>2
  <2> QED BY <1>3, <2>1
<1>5. call.type \in AutoType => AutoNamed(s, call) \in Id
  <2>1. \A t \in AutoType, m \in 0..MaxSteps-1 : AutoId[t][m] \in Id
    BY DEF Id
  <2> QED BY <1>1, <2>1 DEF AutoNamed
<1>6. PrevId(s) \in Id \cup {""} /\ (n > 0 => PrevId(s) = s[n].id)
  <2>1. CASE s = << >>
    BY <1>1, <2>1 DEF PrevId
  <2>2. CASE s # << >>
    <3>1. n \in 1..Len(s) /\ s[n] \in Step
      BY <1>1, <2>2
    <3> QED BY <2>2, <3>1 DEF PrevId, Last, Step
  <2> QED BY <2>1, <2>2
<1>7. new \in Step
  <2>1. (IF call.type \in AutoType THEN AutoNamed(s, call) ELSE call.ids[1]) \in Id
    <3>1. CASE call.type \in AutoType
      BY <1>5, <3>1
    <3>2. CASE call.type \notin AutoType
      <4>1. Len(call.ids) = 1
        BY <1>2, <3>2
      <4>2. 1 \in 1..Len(call.ids)
        BY <4>1
      <4> QED BY <1>4, <3>2, <4>2
    <3> QED BY <3>1, <3>2
  <2>2. (IF call.type = "parallel" THEN call.ids ELSE << >>) \in Seq(Id)
    BY <1>4
  <2>3. (IF call.type = "reduce" THEN PrevId(s) ELSE "") \in Id \cup {""}
    BY <1>6
  <2> QED BY <1>3, <2>1, <2>2, <2>3 DEF NewStep, Step
<1>8. /\ new.type = call.type
      /\ new.type \in AutoType => new.id = AutoId[new.type][n]
      /\ new.type # "parallel" => new.children = << >>
      /\ new.type = "reduce" => new.source = PrevId(s)
  BY DEF NewStep, AutoNamed
<1> HIDE DEF new
<1>9. /\ longer \in Seq(Step) /\ Len(longer) = n + 1
      /\ longer[n+1] = new
      /\ \A i \in 1..n : longer[i] = s[i]
  BY <1>1, <1>7
<1> HIDE DEF longer
<1>10. ASSUME NEW i \in 1..Len(longer) PROVE FromBuilder(longer, i)
  <2>1. CASE i \in 1..n
    <3>1. FromBuilder(s, i) /\ longer[i] = s[i]
      BY <1>9, <2>1, StepFacts
    <3>2. i > 1 => i - 1 \in 1..n
      BY <1>1, <2>1
    <3>3. i > 1 => longer[i-1] = s[i-1]
      BY <1>9, <3>2
    <3> QED BY <3>1, <3>3 DEF FromBuilder
  <2>2. CASE i = n + 1
    <3>1. longer[i] = new /\ i - 1 = n
      BY <1>1, <1>9, <2>2
    <3>2. i > 1 => longer[i-1].id = PrevId(s)
      <4>1. i > 1 => n \in 1..n /\ n > 0
        BY <1>1, <2>2
      <4> QED BY <1>6, <1>9, <3>1, <4>1
    <3> QED BY <1>8, <3>1, <3>2 DEF FromBuilder
  <2> QED BY <1>1, <1>9, <2>1, <2>2
<1>11. longer \in Workflow
  BY <1>1, <1>9, <1>10 DEF Workflow
<1> QED BY <1>11 DEF longer, new

LEMMA BuildKeeps ==
  ASSUME DefInv, NEW c \in Client, NEW call \in Call, Build(c, call)
  PROVE  DefInv'
<1> USE DEF Build
<1>1. Types'
  <2>1. steps[c] \in Workflow
    BY DEF DefInv, Types
  <2>2. Append(steps[c], NewStep(steps[c], call)) \in Workflow
    BY <2>1, Appended
  <2> QED BY <2>2 DEF DefInv, Types
<1>2. \A d \in registered : ~late' => steps'[d] = steps[d]
  BY DEF DefInv, Types
<1>3. TablesFit'
  BY <1>2 DEF DefInv, TablesFit
<1> QED BY <1>1, <1>2, <1>3, ProcessStep DEF DefInv

LEMMA SetTimeoutKeeps ==
  ASSUME DefInv, NEW c \in Client, SetTimeout(c)
  PROVE  DefInv'
<1>1. /\ timed' \in [Client -> BOOLEAN]
      /\ UNCHANGED <<steps, registered, table, def, run, exec, own, late, called, hurt>>
  BY DEF SetTimeout, DefInv, Types
<1>2. Types' /\ TablesFit'
  BY <1>1 DEF DefInv, Types, TablesFit
<1> QED BY <1>1, <1>2, ProcessStep DEF DefInv

LEMMA RegisterKeeps ==
  ASSUME DefInv, NEW c \in Client, RegisterWorkflow(c)
  PROVE  DefInv'
<1> USE DEF RegisterWorkflow
<1> DEFINE E == table[c]
<1>1. steps[c] \in Workflow /\ E \in FnTables
  BY DEF DefInv, Types
<1>2. Types'
  BY <1>1, TablesKept DEF DefInv, Types
<1>3. TablesFit'
  <2>1. /\ \A d \in Client \ {c} : table'[d] = table[d]
        /\ table'[c] = RegisterAll(E, steps[c])
    BY DEF DefInv, Types
  <2>2. ~late => table'[c] = RegisterAll(EmptyTables, steps[c])
    <3>1. CASE c \in registered
      <4>1. ~late => E = RegisterAll(EmptyTables, steps[c])
        BY <3>1 DEF DefInv, TablesFit
      <4> QED BY <1>1, <2>1, <4>1, RegisteredTwice
    <3>2. CASE c \notin registered
      BY <2>1, <3>2 DEF DefInv, TablesFit
    <3> QED BY <3>1, <3>2
  <2> QED BY <2>1, <2>2 DEF DefInv, TablesFit, Types
<1> QED BY <1>2, <1>3, ProcessStep DEF DefInv

(* An execution that has not begun has passed nothing.                     *)
LEMMA NotBegun ==
  ASSUME NEW r \in Run, Where(r), Told(r),
         exec[r].pc \in {"unused", "create", "load"}
  PROVE  Passed(r) /\ run[r].state # "failed"
<1>1. called[r] = {} /\ exec[r].idx = 1 /\ exec[r].plan = << >>
  BY DEF Where
<1>2. Passed(r)
  BY <1>1 DEF Passed
<1>3. run[r].state # "failed"
  BY DEF Told
<1> QED BY <1>2, <1>3

LEMMA StoreKeeps ==
  ASSUME DefInv, NEW c \in Client, NEW r \in Run, StoreDefinition(c, r)
  PROVE  DefInv'
<1>1. /\ DefinitionOf(c) \in Definition /\ exec[r] \in ExecRow /\ ~Started(r)
      /\ exec[r].pc = "unused" /\ c \in registered
      /\ UNCHANGED <<steps, timed, registered, table, late, hurt>>
      /\ def' = DefinitionOf(c) /\ own'[r] = DefinitionOf(c)
      /\ DefinitionOf(c).steps = steps[c] /\ run' = run /\ called' = called
      /\ exec'[r] = [exec[r] EXCEPT !.pc = "create", !.client = c]
      /\ \A q \in Run \ {r} : exec'[q] = exec[q] /\ own'[q] = own[q]
  BY DEF DefInv, Types, Started, StoreDefinition, processes, Upsert, DefinitionOf,
         Definition
<1>2. /\ exec'[r].pc = "create" /\ exec'[r].client = c
      /\ exec'[r].plan = exec[r].plan /\ exec'[r].idx = exec[r].idx
      /\ exec'[r].outs = exec[r].outs /\ exec'[r].done = exec[r].done
      /\ exec'[r] \in ExecRow
  <2>1. /\ exec'[r].pc = "create" /\ exec'[r].client = c
        /\ exec'[r].plan = exec[r].plan /\ exec'[r].idx = exec[r].idx
        /\ exec'[r].outs = exec[r].outs /\ exec'[r].done = exec[r].done
    BY <1>1, Zenon DEF ExecRow
  <2>2. [exec[r] EXCEPT !.pc = "create", !.client = c] \in ExecRow
    BY <1>1 DEF ExecRow
  <2> QED BY <1>1, <2>1, <2>2
<1>3. Types'
  <2>1. \A q \in Run : exec'[q] \in ExecRow /\ own'[q] \in Definition
    BY <1>1, <1>2 DEF DefInv, Types
  <2>2. DOMAIN exec' = Run /\ DOMAIN own' = Run
    BY DEF DefInv, Types, StoreDefinition
  <2>3. exec' \in [Run -> ExecRow] /\ own' \in [Run -> Definition]
    BY <2>1, <2>2 DEF StoreDefinition, DefInv, Types
  <2> QED BY <1>1, <2>3 DEF DefInv, Types
<1>4. TablesFit'
  BY <1>1 DEF DefInv, TablesFit
<1>5. OneVersion' => OneVersion
  BY <1>1, OneVersionBefore DEF Started
<1>6. Where(r)' /\ Told(r)'
  <2>1. Where(r) /\ Told(r) /\ exec[r].pc = "unused"
    BY <1>1 DEF DefInv
  <2>2. Where(r)'
    BY <1>1, <1>2, <2>1 DEF Where, Started
  <2>3. Told(r)'
    BY <1>1, <1>2, <2>1 DEF Told
  <2> QED BY <2>2, <2>3
<1>7. OwnKept(r)'
  <2>1. Where(r) /\ Told(r) /\ exec[r].pc = "unused"
    BY <1>1 DEF DefInv
  <2>2. exec[r].plan = << >> /\ run[r].state = "none"
    BY <2>1 DEF Where, Told
  <2> QED BY <1>1, <1>2, <2>2 DEF OwnKept
<1>8. Passed(r)' /\ (run[r].state # "failed")'
  <2>1. Where(r) /\ Told(r) /\ exec[r].pc = "unused"
    BY <1>1 DEF DefInv
  <2>2. called[r] = {} /\ exec[r].idx = 1 /\ run[r].state = "none"
    BY <2>1 DEF Where, Told
  <2> QED BY <1>1, <1>2, <2>2 DEF Passed
<1>9. ASSUME NEW q \in Run \ {r}
      PROVE  /\ Where(q)' /\ Told(q)'
             /\ Started(q)' => OwnKept(q)'
             /\ Clean' => /\ Passed(q)'
                          /\ (run[q].state = "failed")' => FailedWell(q)'
  <2>1. Where(q) /\ Told(q)
    BY DEF DefInv
  <2>2. exec'[q] = exec[q] /\ own'[q] = own[q]
    BY <1>1
  <2>3. Where(q)' /\ Told(q)'
    BY <1>1, <2>1, <2>2, SameRun
  <2>4. CASE Started(q)
    <3>1. OwnKept(q)
      BY <2>4 DEF DefInv
    <3>2. OneVersion' => def' = def
      <4>1. OneVersion' => own'[q] = own'[r]
        BY <1>2, <2>2, <2>4 DEF OneVersion, Started
      <4> QED BY <1>1, <1>5, <2>2, <3>1, <4>1 DEF OwnKept
    <3>3. OwnKept(q)'
      BY <1>1, <1>5, <2>2, <3>1, <3>2 DEF OwnKept
    <3>4. Clean' => Clean
      BY <1>5, <3>2 DEF Clean
    <3> QED BY <1>1, <2>2, <2>3, <3>3, <3>4, SameRun DEF DefInv
  <2>5. CASE ~Started(q)
    <3>1. exec[q].pc = "unused" /\ ~Started(q)'
      BY <2>2, <2>5 DEF Started
    <3>2. Passed(q) /\ run[q].state # "failed"
      BY <2>1, <3>1, NotBegun
    <3> QED BY <1>1, <2>2, <2>3, <3>1, <3>2, SameRun
  <2> QED BY <2>4, <2>5
<1>10. ASSUME NEW q \in Run
       PROVE  /\ Where(q)' /\ Told(q)'
              /\ Started(q)' => OwnKept(q)'
              /\ Clean' => /\ Passed(q)'
                           /\ (run[q].state = "failed")' => FailedWell(q)'
  <2>1. CASE q = r
    BY <1>6, <1>7, <1>8, <2>1
  <2>2. CASE q # r
    BY <1>9, <2>2
  <2> QED BY <2>1, <2>2
<1> QED BY <1>3, <1>4, <1>10 DEF DefInv

(* The process of a run has the definition of the run.                     *)
LEMMA ProcessHas ==
  ASSUME DefInv, NEW r \in Run, Started(r)
  PROVE  /\ exec[r].client \in Client /\ steps[exec[r].client] \in Workflow
         /\ OneVersion =>
              /\ steps[exec[r].client] = def.steps
              /\ table[exec[r].client] = RegisterAll(EmptyTables, def.steps)
<1>1. /\ exec[r].client \in registered /\ registered \subseteq Client
      /\ steps \in [Client -> Workflow]
  BY DEF DefInv, Where, Types
<1>2. OneVersion => ~late
  BY DEF OneVersion
<1>3. OwnKept(r)
  BY DEF DefInv
<1>4. OneVersion => steps[exec[r].client] = def.steps
  BY <1>2, <1>3 DEF OwnKept
<1> QED BY <1>1, <1>2, <1>4 DEF DefInv, TablesFit

(* The row that a run gets when it is created, and that it has later.      *)
LEMMA NewRowFits ==
  ASSUME DefInv, NEW r \in Run, Started(r)
  PROVE  /\ NewRow(r) \in RunRow /\ NewRow(r).state = "pending"
         /\ OneVersion => NewRow(r).keys = StepIds(def.steps)
<1>1. StepIds(steps[exec[r].client]) \subseteq Id
  BY ProcessHas, IdsStored
<1> QED BY <1>1, ProcessHas DEF NewRow, RunRow

(* What a row must be to be left behind by an execution that ends.         *)
Fits(r, row) ==
  /\ row \in RunRow
  /\ OneVersion /\ row.state # "none" => row.keys = StepIds(def.steps)
  /\ exec[r].plan # << >> => row.state # "none"
  /\ row.state = "completed" => exec[r].idx = Len(exec[r].plan) + 1
  /\ row.state = "failed" => exec[r].idx <= Len(exec[r].plan)
  /\ Clean /\ row.state = "failed" => FailedWell(r)

LEMMA StaysFit ==
  ASSUME DefInv, NEW r \in Run, Started(r)
  PROVE  Fits(r, run[r])
<1>1. /\ run[r] \in RunRow /\ Told(r) /\ OwnKept(r)
      /\ Clean /\ run[r].state = "failed" => FailedWell(r)
  BY DEF DefInv, Types
<1> QED BY <1>1 DEF Fits, Told, OwnKept

(* An execution that ends keeps what it has passed.                        *)
LEMMA EndKeeps ==
  ASSUME DefInv, NEW r \in Run, Started(r), NEW row, Fits(r, row),
         run' = [run EXCEPT ![r] = row],
         exec' = [exec EXCEPT ![r].pc = "ended"], hurt' \subseteq Run,
         UNCHANGED <<steps, timed, registered, table, def, own, late, called>>
  PROVE  DefInv'
<1>1. /\ exec[r] \in ExecRow /\ row \in RunRow
      /\ exec'[r] = [exec[r] EXCEPT !.pc = "ended"] /\ run'[r] = row
      /\ \A q \in Run \ {r} : exec'[q] = exec[q] /\ run'[q] = run[q]
      /\ called' = called
  BY DEF DefInv, Types, Fits
<1>2. /\ exec'[r].pc = "ended" /\ exec'[r].client = exec[r].client
      /\ exec'[r].plan = exec[r].plan /\ exec'[r].idx = exec[r].idx
      /\ exec'[r].outs = exec[r].outs /\ exec'[r].done = exec[r].done
      /\ exec'[r] \in ExecRow /\ Started(r)'
  BY <1>1 DEF ExecRow, Started
<1>3. Types'
  BY <1>1, <1>2 DEF DefInv, Types
<1>4. Where(r) /\ OwnKept(r) /\ (Clean => Passed(r))
  BY DEF DefInv
<1>5. Where(r)'
  BY <1>1, <1>2, <1>4 DEF Where, Started
<1>6. Told(r)'
  BY <1>1, <1>2 DEF Told, Fits
<1>7. OneVersion' => OneVersion
  BY <1>1, <1>2, OneVersionBefore DEF Started
<1>8. OwnKept(r)'
  BY <1>1, <1>2, <1>4, <1>7 DEF OwnKept, Fits
<1>9. Clean => Passed(r)'
  BY <1>1, <1>2, <1>4 DEF Passed
<1>10. Clean => ((run[r].state = "failed")' => FailedWell(r)')
  BY <1>1, <1>2 DEF FailedWell, Current, Fits
<1> QED BY <1>1, <1>2, <1>3, <1>5, <1>6, <1>8, <1>9, <1>10, RunStepOf

LEMMA CreateKeeps ==
  ASSUME DefInv, NEW r \in Run, CreateRun(r)
  PROVE  DefInv'
<1> USE DEF CreateRun, processes
<1>1. /\ exec[r] \in ExecRow /\ exec[r].pc = "create" /\ Started(r)
      /\ exec'[r] = [exec[r] EXCEPT !.pc = "load"] /\ run'[r] = NewRow(r)
      /\ \A q \in Run \ {r} : exec'[q] = exec[q] /\ run'[q] = run[q]
      /\ called' = called
  BY DEF DefInv, Types, Started
<1>2. /\ exec'[r].pc = "load" /\ exec'[r].client = exec[r].client
      /\ exec'[r].plan = exec[r].plan /\ exec'[r].idx = exec[r].idx
      /\ exec'[r].outs = exec[r].outs /\ exec'[r].done = exec[r].done
      /\ exec'[r] \in ExecRow /\ Started(r)'
  BY <1>1 DEF ExecRow, Started
<1>3. /\ NewRow(r) \in RunRow /\ NewRow(r).state = "pending"
      /\ OneVersion => NewRow(r).keys = StepIds(def.steps)
  BY <1>1, NewRowFits
<1>4. Types'
  BY <1>1, <1>2, <1>3 DEF DefInv, Types
<1>5. Where(r) /\ Told(r) /\ OwnKept(r)
  BY <1>1 DEF DefInv
<1>6. Where(r)'
  BY <1>1, <1>2, <1>5 DEF Where, Started
<1>7. Told(r)'
  BY <1>1, <1>2, <1>3, <1>5 DEF Told, Where
<1>8. OneVersion' => OneVersion
  BY <1>1, <1>2, OneVersionBefore DEF Started
<1>9. OwnKept(r)'
  BY <1>1, <1>2, <1>3, <1>5, <1>8 DEF OwnKept
<1>10. Passed(r)' /\ (run[r].state # "failed")'
  <2>1. called[r] = {} /\ exec[r].idx = 1 /\ exec[r].plan = << >>
    BY <1>1, <1>5 DEF Where
  <2> QED BY <1>1, <1>2, <1>3, <2>1 DEF Passed
<1> QED BY <1>1, <1>2, <1>4, <1>6, <1>7, <1>9, <1>10, RunStepOf

(* An execution that has found its definition.                             *)
LEMMA LoadKeeps ==
  ASSUME DefInv, NEW r \in Run, Load(r)
  PROVE  DefInv'
<1>1. /\ exec[r] \in ExecRow /\ exec[r].pc = "load" /\ Started(r)
      /\ def.steps \in Workflow /\ called' = called /\ run' = run
      /\ UNCHANGED <<steps, timed, registered, table, def, own, late, hurt>>
      /\ \A q \in Run \ {r} : exec'[q] = exec[q]
  BY DEF DefInv, Types, Started, Definition, Load, processes
<1>2. Where(r) /\ Told(r) /\ OwnKept(r)
  BY <1>1 DEF DefInv
<1>3. /\ exec[r].plan = << >> /\ exec[r].idx = 1 /\ exec[r].done = {}
      /\ exec[r].outs = {} /\ called[r] = {} /\ run[r].state = "pending"
  BY <1>1, <1>2 DEF Where, Told
<1>4. CASE Parses(def)
  <2>1. exec' = [exec EXCEPT ![r] = [exec[r] EXCEPT !.pc = "mark", !.plan = def.steps]]
    BY <1>4 DEF DefInv, Types, Load
  <2>2. /\ exec'[r].pc = "mark" /\ exec'[r].client = exec[r].client
        /\ exec'[r].plan = def.steps /\ exec'[r].idx = 1
        /\ exec'[r].outs = {} /\ exec'[r].done = {}
        /\ exec'[r] \in ExecRow /\ Started(r)'
    <3>1. exec'[r] = [exec[r] EXCEPT !.pc = "mark", !.plan = def.steps]
      BY <2>1 DEF DefInv, Types
    <3>2. /\ exec'[r].pc = "mark" /\ exec'[r].client = exec[r].client
          /\ exec'[r].plan = def.steps /\ exec'[r].idx = exec[r].idx
          /\ exec'[r].outs = exec[r].outs /\ exec'[r].done = exec[r].done
      BY <1>1, <3>1, Zenon DEF ExecRow
    <3>3. exec'[r] \in ExecRow
      BY <1>1, <3>1 DEF ExecRow
    <3> QED BY <1>3, <3>2, <3>3 DEF Started
  <2>3. Types'
    BY <1>1, <1>4, <2>1, <2>2 DEF DefInv, Types
  <2>4. Where(r)'
    <3>1. 1 \in 1..Len(def.steps) + 1
      BY <1>1 DEF Workflow
    <3> QED BY <1>1, <1>2, <1>3, <2>2, <3>1 DEF Where, Started
  <2>5. Told(r)'
    BY <1>1, <1>3, <2>2 DEF Told
  <2>6. OneVersion' => OneVersion
    BY <1>1, <2>2, OneVersionBefore DEF Started
  <2>7. OwnKept(r)'
    BY <1>1, <1>2, <2>2, <2>6 DEF OwnKept
  <2>8. Passed(r)' /\ (run[r].state # "failed")'
    BY <1>1, <1>3, <2>2 DEF Passed
  <2> QED BY <1>1, <2>2, <2>3, <2>4, <2>5, <2>7, <2>8, RunStepOf
<1>5. CASE ~Parses(def)
  <2>1. exec' = [exec EXCEPT ![r].pc = "ended"] /\ run' = [run EXCEPT ![r] = run[r]]
    BY <1>1, <1>5 DEF DefInv, Types, Load
  <2>2. hurt' \subseteq Run
    BY <1>1 DEF DefInv, Types
  <2> QED BY <1>1, <2>1, <2>2, EndKeeps, StaysFit
<1> QED BY <1>4, <1>5

LEMMA MarkKeeps ==
  ASSUME DefInv, NEW r \in Run, MarkRunning(r)
  PROVE  DefInv'
<1> USE DEF MarkRunning, processes
<1>1. /\ exec[r] \in ExecRow /\ run[r] \in RunRow /\ exec[r].pc = "mark"
      /\ Started(r) /\ called' = called
      /\ \A q \in Run \ {r} : exec'[q] = exec[q] /\ run'[q] = run[q]
      /\ exec'[r] = [exec[r] EXCEPT !.pc = "step"]
      /\ run'[r] = [run[r] EXCEPT !.state = "running"]
  BY DEF DefInv, Types, Started
<1>2. /\ exec'[r].pc = "step" /\ exec'[r].client = exec[r].client
      /\ exec'[r].plan = exec[r].plan /\ exec'[r].idx = exec[r].idx
      /\ exec'[r].outs = exec[r].outs /\ exec'[r].done = exec[r].done
      /\ exec'[r] \in ExecRow /\ Started(r)'
  BY <1>1 DEF ExecRow, Started
<1>3. /\ run'[r].state = "running" /\ run'[r].keys = run[r].keys
      /\ run'[r] \in RunRow
  BY <1>1 DEF RunRow
<1>4. Types'
  BY <1>1, <1>2, <1>3 DEF DefInv, Types
<1>5. Where(r) /\ Told(r) /\ OwnKept(r)
  BY <1>1 DEF DefInv
<1>6. Where(r)'
  BY <1>1, <1>2, <1>5 DEF Where, Started
<1>7. Told(r)'
  BY <1>2, <1>3 DEF Told
<1>8. OneVersion' => OneVersion
  BY <1>1, <1>2, OneVersionBefore DEF Started
<1>9. OwnKept(r)'
  BY <1>1, <1>2, <1>3, <1>5, <1>8 DEF OwnKept, Told
<1>10. Passed(r)' /\ (run[r].state # "failed")'
  <2>1. called[r] = {} /\ exec[r].idx = 1
    BY <1>1, <1>5 DEF Where
  <2> QED BY <1>1, <1>2, <1>3, <2>1 DEF Passed
<1> QED BY <1>1, <1>2, <1>4, <1>6, <1>7, <1>9, <1>10, RunStepOf

-----------------------------------------------------------------------------
(* The steps of an execution.                                              *)

(* Where an execution is when it is at a step.                             *)
LEMMA Standing ==
  ASSUME DefInv, NEW r \in Run, AtStep(r)
  PROVE  /\ exec[r] \in ExecRow /\ run[r] \in RunRow /\ Started(r)
         /\ exec[r].plan \in Workflow /\ Len(exec[r].plan) \in Nat
         /\ exec[r].idx \in 1..Len(exec[r].plan)
         /\ exec[r].done \subseteq IdsBefore(exec[r].plan, exec[r].idx)
         /\ exec[r].outs \subseteq exec[r].done
         /\ exec[r].client \in registered
         /\ run[r].state = "running" /\ OwnKept(r)
         /\ OneVersion => exec[r].plan = def.steps
         /\ Clean => CleanPlan(exec[r].plan) /\ Passed(r)
<1>1. exec[r] \in ExecRow /\ run[r] \in RunRow /\ exec[r].pc = "step"
  BY DEF DefInv, Types, AtStep
<1>2. Started(r) /\ exec[r].plan \in Workflow
  BY <1>1 DEF Started, ExecRow
<1>3. Where(r) /\ Told(r) /\ OwnKept(r)
  BY <1>2 DEF DefInv
<1>4. Len(exec[r].plan) \in Nat
  BY <1>2 DEF Workflow
<1>5. exec[r].idx \in 1..Len(exec[r].plan)
  BY <1>3, <1>4 DEF Where, AtStep
<1>6. OneVersion => exec[r].plan = def.steps
  BY <1>1, <1>3 DEF OwnKept
<1>7. Clean => CleanPlan(exec[r].plan) /\ Passed(r)
  BY <1>6 DEF Clean, CleanPlan, DefInv
<1> QED BY <1>1, <1>2, <1>3, <1>4, <1>5, <1>6, <1>7 DEF Where, Told

(* No step of a clean workflow is taken for one that is done already.      *)
LEMMA NoReplay ==
  ASSUME DefInv, NEW r \in Run, AtStep(r), Clean
  PROVE  ~Replayed(r)
<1> SUFFICES ASSUME Replayed(r) PROVE FALSE
  OBVIOUS
<1> DEFINE s == exec[r].plan
           k == exec[r].idx
<1>1. s \in Workflow /\ Len(s) \in Nat /\ k \in 1..Len(s) /\ CleanPlan(s)
  BY Standing
<1>2. s[k].id \in IdsBefore(s, k)
  BY Standing DEF Replayed, Current
<1> HIDE DEF s, k
<1>3. PICK i \in 1..k-1 : \E u \in ToSet(UnitsOf(s, i)) : u.id = s[k].id
  BY <1>2 DEF IdsBefore
<1>4. i \in 1..Len(s) /\ i # k
  BY <1>1, <1>3
<1> QED BY <1>1, <1>3, <1>4, UnitIdsApart

(* The process of a run finds each function of a clean workflow.           *)
LEMMA FindsOwn ==
  ASSUME DefInv, NEW r \in Run, AtStep(r), Clean,
         NEW u \in CurrentUnits(r), NEW t \in Consulted(u.type)
  PROVE  table[exec[r].client][t][u.id] = u.fn /\ u.fn # NoFn
<1>1. /\ exec[r].plan \in Workflow /\ exec[r].idx \in 1..Len(exec[r].plan)
      /\ CleanPlan(exec[r].plan) /\ Started(r)
  BY Standing
<1>2. OneVersion
  BY DEF Clean
<1>3. table[exec[r].client] = RegisterAll(EmptyTables, exec[r].plan)
  BY <1>1, <1>2, ProcessHas, Standing
<1> QED BY <1>1, <1>3, OwnEntry DEF CurrentUnits

(* What an execution that advances leaves behind.                          *)
LEMMA AdvanceKeeps ==
  ASSUME DefInv, NEW r \in Run, AtStep(r),
         NEW ids \in SUBSET Id, NEW outs \in SUBSET ids, Advance(r, ids, outs),
         ids \subseteq {u.id : u \in CurrentUnits(r)},
         NEW new \in SUBSET (Fn \X Fn),
         called' = [called EXCEPT ![r] = @ \cup new],
         UNCHANGED <<steps, timed, registered, table, def, run, own, late, hurt>>,
         Clean => \A p \in new : p[1] = p[2],
         Clean /\ Current(r).type \in {"map", "reduce", "handler"}
           => Current(r).id \in outs,
         Clean /\ Current(r).type \notin {"conditional", "handler"}
           => \A u \in CurrentUnits(r) : \E p \in new : p[1] = u.fn
  PROVE  DefInv'
<1> DEFINE s == exec[r].plan
           k == exec[r].idx
<1>1. /\ exec[r] \in ExecRow /\ run[r] \in RunRow /\ Started(r)
      /\ s \in Workflow /\ Len(s) \in Nat /\ k \in 1..Len(s)
      /\ exec[r].pc = "step" /\ run[r].state = "running" /\ OwnKept(r)
      /\ exec[r].client \in registered
  BY Standing DEF AtStep
<1>2. /\ exec'[r] = [exec[r] EXCEPT !.idx = k + 1, !.done = @ \cup ids,
                                    !.outs = @ \cup outs]
      /\ called'[r] = called[r] \cup new
      /\ \A q \in Run \ {r} : /\ exec'[q] = exec[q] /\ run'[q] = run[q]
                              /\ called'[q] = called[q]
      /\ run'[r] = run[r]
  BY DEF Advance, DefInv, Types
<1>3. /\ exec'[r].pc = "step" /\ exec'[r].client = exec[r].client
      /\ exec'[r].plan = s /\ exec'[r].idx = k + 1
      /\ exec'[r].outs = exec[r].outs \cup outs
      /\ exec'[r].done = exec[r].done \cup ids
  BY <1>1, <1>2, Zenon DEF ExecRow
<1>4. exec'[r] \in ExecRow
  <2>1. /\ k + 1 \in Nat /\ exec[r].outs \cup outs \in SUBSET Id
        /\ exec[r].done \cup ids \in SUBSET Id
    BY <1>1 DEF ExecRow
  <2> QED BY <1>1, <1>2, <2>1 DEF ExecRow
<1>5. Types'
  <2>1. exec' \in [Run -> ExecRow]
    BY <1>4 DEF Advance, DefInv, Types
  <2>2. called' \in [Run -> SUBSET (Fn \X Fn)]
    BY DEF DefInv, Types
  <2> QED BY <2>1, <2>2 DEF DefInv, Types
<1>6. Started(r)'
  BY <1>3 DEF Started
<1> HIDE DEF s, k
<1>7. Where(r)'
  <2>1. k + 1 \in 1..Len(s) + 1
    BY <1>1
  <2>2. exec[r].done \cup ids \subseteq IdsBefore(s, k + 1)
    <3>1. exec[r].done \subseteq IdsBefore(s, k)
      BY Standing DEF s, k
    <3>2. \A i \in 1..k-1 : i \in 1..(k+1)-1
      BY <1>1
    <3>3. k \in 1..(k+1)-1
      BY <1>1
    <3>4. IdsBefore(s, k) \subseteq IdsBefore(s, k + 1)
      BY <3>2 DEF IdsBefore
    <3>5. {u.id : u \in ToSet(UnitsOf(s, k))} \subseteq IdsBefore(s, k + 1)
      BY <3>3 DEF IdsBefore
    <3>6. ids \subseteq {u.id : u \in ToSet(UnitsOf(s, k))}
      BY DEF CurrentUnits, s, k
    <3> QED BY <3>1, <3>4, <3>5, <3>6
  <2>3. exec[r].outs \cup outs \subseteq exec[r].done \cup ids
    BY Standing
  <2> QED BY <1>1, <1>3, <2>1, <2>2, <2>3 DEF Where
<1>8. Told(r)'
  BY <1>1, <1>2, <1>3 DEF Told
<1>9. OneVersion' => OneVersion
  BY <1>2, <1>6, OneVersionBefore DEF Started
<1>10. OwnKept(r)'
  BY <1>1, <1>2, <1>3, <1>9 DEF OwnKept, s
<1>11. ASSUME Clean PROVE Passed(r)'
  <2>1. Passed(r)
    BY <1>11, Standing
  <2>2. ASSUME NEW i \in 1..(k+1)-1
        PROVE  /\ s[i].type \in {"map", "reduce", "handler"} =>
                    s[i].id \in exec[r].outs \cup outs
               /\ s[i].type \notin {"conditional", "handler"} =>
                    \A u \in ToSet(UnitsOf(s, i)) :
                      \E p \in called[r] \cup new : p[1] = u.fn
    <3>1. CASE i \in 1..k-1
      BY <2>1, <3>1 DEF Passed, s, k
    <3>2. CASE i = k
      BY <1>11, <3>2 DEF Current, CurrentUnits, s, k
    <3> QED BY <1>1, <3>1, <3>2
  <2>3. \A p \in called[r] \cup new : p[1] = p[2]
    BY <1>11, <2>1 DEF Passed
  <2> QED BY <1>2, <1>3, <2>2, <2>3 DEF Passed
<1>12. (run[r].state # "failed")'
  BY <1>1, <1>2
<1> QED BY <1>1, <1>2, <1>5, <1>6, <1>7, <1>8, <1>10, <1>11, <1>12, RunStepOf

LEMMA RunStepKeeps ==
  ASSUME DefInv, NEW r \in Run, RunStep(r)
  PROVE  DefInv'
<1> DEFINE us == CurrentUnits(r)
           ids == {u.id : u \in us}
           fns(u) == {<<u.fn, table[exec[r].client][t][u.id]>> : t \in Consulted(u.type)}
           new == UNION {fns(u) : u \in us}
<1>1. /\ AtStep(r) /\ exec[r].plan \in Workflow
      /\ exec[r].idx \in 1..Len(exec[r].plan) /\ Started(r)
  BY Standing DEF RunStep
<1>2. PICK outs \in SUBSET ids :
        /\ Current(r).type \in {"map", "reduce", "handler"} => outs = ids
        /\ Advance(r, ids, outs)
  BY DEF RunStep
<1>3. \A u \in us : u \in Unit
  BY <1>1, UnitsFacts DEF CurrentUnits, ToSet
<1>4. ids \in SUBSET Id
  BY <1>3 DEF Unit
<1>5. new \in SUBSET (Fn \X Fn)
  <2>1. table[exec[r].client] \in FnTables
    BY <1>1, ProcessHas DEF DefInv, Types
  <2>2. ASSUME NEW u \in us, NEW t \in Consulted(u.type)
        PROVE  <<u.fn, table[exec[r].client][t][u.id]>> \in Fn \X Fn
    <3>1. u.fn \in Fn /\ u.id \in Id /\ u.type \in StepType \ {"parallel"}
      BY <1>3 DEF Unit
    <3>2. t \in Table
      BY <3>1, ConsultedEntered
    <3> QED BY <2>1, <3>1, <3>2 DEF FnTables
  <2> QED BY <2>2
<1>6. /\ called' = [called EXCEPT ![r] = @ \cup new]
      /\ UNCHANGED <<steps, timed, registered, table, def, run, own, late, hurt>>
  BY DEF RunStep, processes
<1>7. Clean => \A p \in new : p[1] = p[2]
  BY <1>1, FindsOwn
<1>8. Current(r).type \in {"map", "reduce", "handler"} => Current(r).id \in outs
  <2>1. ASSUME Current(r).type \in {"map", "reduce", "handler"}
        PROVE  Current(r).id \in ids
    <3>1. UnitAt(exec[r].plan, exec[r].idx, 1) \in us
      <4>1. Len(UnitsOf(exec[r].plan, exec[r].idx)) = 1
        BY <1>1, <2>1, UnitsFacts DEF Current
      <4>2. 1 \in 1..Len(UnitsOf(exec[r].plan, exec[r].idx))
        BY <4>1
      <4> QED BY <1>1, <4>2, UnitsFacts DEF CurrentUnits, ToSet
    <3>2. UnitAt(exec[r].plan, exec[r].idx, 1).id = Current(r).id
      BY <2>1 DEF UnitAt, Current
    <3> QED BY <3>1, <3>2
  <2> QED BY <1>2, <2>1
<1>9. Current(r).type \notin {"conditional", "handler"} =>
        \A u \in us : \E p \in new : p[1] = u.fn
  <2> SUFFICES ASSUME Current(r).type \notin {"conditional", "handler"},
                      NEW u \in us
               PROVE  \E p \in new : p[1] = u.fn
    OBVIOUS
  <2>1. u.type \in {"sequential", "map", "reduce"}
    <3>1. PICK j \in 1..Len(UnitsOf(exec[r].plan, exec[r].idx)) :
            u = UnitAt(exec[r].plan, exec[r].idx, j)
      BY <1>1, UnitsFacts DEF CurrentUnits, ToSet
    <3>2. Current(r).type \in StepType
      BY <1>1, StepFacts DEF Current
    <3> QED BY <3>1, <3>2 DEF UnitAt, Current, StepType, AutoType
  <2>2. PICK t : t \in Consulted(u.type)
    BY <2>1 DEF Consulted
  <2>3. <<u.fn, table[exec[r].client][t][u.id]>> \in new
    BY <2>2
  <2> QED BY <2>3
<1> HIDE DEF us, ids, new
<1>10. ids \subseteq {u.id : u \in CurrentUnits(r)}
  BY DEF ids, us
<1>11. \A u \in CurrentUnits(r) : u \in us
  BY DEF us
<1> QED BY <1>1, <1>2, <1>4, <1>5, <1>6, <1>7, <1>8, <1>9, <1>10, <1>11, AdvanceKeeps

LEMMA SkipStepKeeps ==
  ASSUME DefInv, NEW r \in Run, SkipStep(r)
  PROVE  DefInv'
<1>1. AtStep(r) /\ Advance(r, {}, {})
      /\ UNCHANGED <<steps, timed, registered, table, def, run, own, late, called, hurt>>
  BY DEF SkipStep, processes
<1>2. Clean => Current(r).type = "conditional"
  BY <1>1, NoReplay DEF SkipStep
<1>3. called' = [called EXCEPT ![r] = @ \cup {}]
  BY <1>1 DEF DefInv, Types
<1>4. {} \in SUBSET Id /\ {} \in SUBSET {} /\ {} \in SUBSET (Fn \X Fn)
  OBVIOUS
<1>5. \A p \in {} : p[1] = p[2]
  OBVIOUS
<1>6. Clean => Current(r).type \notin {"map", "reduce", "handler"}
  BY <1>2
<1> QED BY <1>1, <1>2, <1>3, <1>4, <1>5, <1>6, AdvanceKeeps

(* The row of a run whose step is refused.                                 *)
LEMMA FailureFits ==
  ASSUME DefInv, NEW r \in Run, MustFail(r)
  PROVE  Fits(r, [run[r] EXCEPT !.state = "failed"])
<1> DEFINE s == exec[r].plan
           k == exec[r].idx
<1>1. /\ AtStep(r) /\ exec[r].pc = "step" /\ Refused(r)
      /\ k <= Len(s)
  BY DEF MustFail, AtStep
<1>2. Clean => FailedWell(r)
  <2> SUFFICES ASSUME Clean PROVE FailedWell(r)
    OBVIOUS
  <2>1. s \in Workflow /\ k \in 1..Len(s) /\ Passed(r)
    BY <1>1, Standing
  <2>2. CASE \E u \in CurrentUnits(r) : \E t \in Consulted(u.type) :
               table[exec[r].client][t][u.id] = NoFn
    BY <1>1, <2>2, FindsOwn
  <2>3. CASE Current(r).type = "reduce" /\ Current(r).source \notin exec[r].outs
    <3>1. ASSUME k > 1 PROVE s[k-1].type \in AutoType \cup {"sequential"}
      <4>1. s[k].source = s[k-1].id
        BY <2>1, <2>3, <3>1, StepFacts DEF FromBuilder, Current
      <4>2. k - 1 \in 1..k-1 /\ k - 1 \in 1..Len(s)
        BY <2>1, <3>1
      <4>3. s[k-1].type \notin {"map", "reduce", "handler"}
        BY <2>1, <2>3, <4>1, <4>2 DEF Passed, Current
      <4>4. s[k-1].type \in StepType
        BY <2>1, <4>2, StepFacts
      <4> QED BY <4>3, <4>4 DEF StepType
    <3> QED BY <2>3, <3>1 DEF FailedWell
  <2>4. CASE Current(r).type = "handler" /\ Current(r).kind \notin JobKind
    BY <2>4 DEF FailedWell
  <2> QED BY <1>1, <2>2, <2>3, <2>4 DEF Refused
<1>3. run[r] \in RunRow /\ run[r].state = "running" /\ OwnKept(r)
  BY <1>1, Standing
<1> QED BY <1>1, <1>2, <1>3 DEF Fits, RunRow, OwnKept

(* The row of a run whose execution has passed all steps.                  *)
LEMMA CompletionFits ==
  ASSUME DefInv, NEW r \in Run, AtEnd(r)
  PROVE  Started(r) /\ Fits(r, [run[r] EXCEPT !.state = "completed"])
<1>1. /\ exec[r].pc = "step" /\ exec[r].idx > Len(exec[r].plan) /\ Started(r)
  BY DEF AtEnd, Started
<1>2. /\ exec[r] \in ExecRow /\ exec[r].idx \in 1..Len(exec[r].plan) + 1
      /\ run[r] \in RunRow /\ run[r].state = "running" /\ OwnKept(r)
  BY <1>1 DEF DefInv, Where, Told, Types
<1>3. exec[r].idx = Len(exec[r].plan) + 1
  <2>1. Len(exec[r].plan) \in Nat
    BY <1>2 DEF ExecRow, Workflow
  <2> QED BY <1>1, <1>2, <2>1
<1> QED BY <1>1, <1>2, <1>3 DEF Fits, RunRow, OwnKept

LEMMA EndRunKeeps ==
  ASSUME DefInv, NEW r \in Run, RefuseStep(r) \/ FinishRun(r)
  PROVE  DefInv'
<1>1. PICK st \in {"failed", "completed"} :
        EndRun(r, st) /\ Started(r) /\ Fits(r, [run[r] EXCEPT !.state = st])
  <2>1. CASE RefuseStep(r)
    <3>1. MustFail(r) /\ EndRun(r, "failed")
      BY <2>1 DEF RefuseStep
    <3>2. Started(r)
      BY <3>1 DEF MustFail, AtStep, Started
    <3> QED BY <3>1, <3>2, FailureFits
  <2>2. CASE FinishRun(r)
    BY <2>2, CompletionFits DEF FinishRun
  <2> QED BY <2>1, <2>2
<1>2. /\ run' = [run EXCEPT ![r] = [run[r] EXCEPT !.state = st]]
      /\ exec' = [exec EXCEPT ![r].pc = "ended"] /\ hurt' = hurt
      /\ UNCHANGED <<steps, timed, registered, table, def, own, late, called>>
  BY <1>1 DEF EndRun, RefuseStep, FinishRun, processes
<1>3. hurt' \subseteq Run
  BY <1>2 DEF DefInv, Types
<1> QED BY <1>1, <1>2, <1>3, EndKeeps

(* Whatever the interrupted statement did, the row fits.                   *)
LEMMA InterruptedKeeps ==
  ASSUME DefInv, NEW r \in Run, Interrupted(r)
  PROVE  DefInv'
<1>1. Started(r)
  BY DEF Interrupted, Started
<1>2. PICK row : run' = [run EXCEPT ![r] = row] /\ Fits(r, row)
  <2>1. CASE UNCHANGED run
    <3>1. run' = [run EXCEPT ![r] = run[r]]
      BY <2>1 DEF DefInv, Types
    <3> QED BY <1>1, <3>1, StaysFit
  <2>2. CASE exec[r].pc = "create" /\ run' = [run EXCEPT ![r] = NewRow(r)]
    <3>1. Fits(r, NewRow(r))
      BY <1>1, <2>2, NewRowFits DEF Fits
    <3> QED BY <2>2, <3>1
  <2>3. CASE exec[r].pc = "mark" /\ run' = [run EXCEPT ![r].state = "running"]
    <3>1. Fits(r, [run[r] EXCEPT !.state = "running"])
      <4>1. run[r] \in RunRow /\ run[r].state = "pending" /\ OwnKept(r)
        BY <1>1, <2>3 DEF DefInv, Told, Types
      <4> QED BY <4>1 DEF Fits, RunRow, OwnKept
    <3> QED BY <2>3, <3>1
  <2>4. CASE MustFail(r) /\ run' = [run EXCEPT ![r].state = "failed"]
    BY <2>4, FailureFits
  <2>5. CASE AtEnd(r) /\ run' = [run EXCEPT ![r].state = "completed"]
    BY <2>5, CompletionFits
  <2> QED BY <2>1, <2>2, <2>3, <2>4, <2>5 DEF Interrupted
<1>3. /\ exec' = [exec EXCEPT ![r].pc = "ended"] /\ hurt' \subseteq Run
      /\ UNCHANGED <<steps, timed, registered, table, def, own, late, called>>
  BY DEF Interrupted, processes, DefInv, Types
<1> QED BY <1>1, <1>2, <1>3, EndKeeps

LEMMA DefNext ==
  ASSUME DefInv, [Next]_vars
  PROVE  DefInv'
<1>1. ASSUME NEW c \in Client, NEW call \in Call, Build(c, call)
      PROVE  DefInv'
  BY <1>1, BuildKeeps
<1>2. ASSUME NEW c \in Client, RegisterWorkflow(c)
      PROVE  DefInv'
  BY <1>2, RegisterKeeps
<1>3. ASSUME NEW c \in Client, NEW r \in Run, StoreDefinition(c, r)
      PROVE  DefInv'
  BY <1>3, StoreKeeps
<1>4. ASSUME NEW r \in Run, CreateRun(r) \/ Interrupted(r)
      PROVE  DefInv'
  BY <1>4, CreateKeeps, InterruptedKeeps
<1>5. ASSUME NEW r \in Run, Execute(r)
      PROVE  DefInv'
  BY <1>5, LoadKeeps, MarkKeeps, RunStepKeeps, SkipStepKeeps, EndRunKeeps
     DEF Execute
<1>6. ASSUME UNCHANGED vars PROVE DefInv'
  <2>1. Types' /\ TablesFit'
    BY <1>6 DEF DefInv, Types, TablesFit, vars, processes
  <2>2. UNCHANGED <<steps, registered, late, def, run, exec, own, called>>
    BY <1>6 DEF vars, processes
  <2> QED BY <2>1, <2>2, ProcessStep DEF DefInv
<1>7. ASSUME NEW c \in Client, SetTimeout(c)
      PROVE  DefInv'
  BY <1>7, SetTimeoutKeeps
<1> QED BY <1>1, <1>2, <1>3, <1>4, <1>5, <1>6, <1>7 DEF Next

LEMMA DefHolds == Spec => []DefInv
BY DefInit, DefNext, PTL DEF Spec

-----------------------------------------------------------------------------
(* The definitions that executions find.                                   *)

LEMMA RunsFacts ==
  /\ MaxRuns \in Nat
  /\ \A r \in Run : r \in Nat /\ r \in r..MaxRuns /\ r..MaxRuns \subseteq Run
<1>1. MaxRuns \in Nat
  BY DefinitionAssumption
<1> QED BY <1>1 DEF Run

LEMMA StoredInit == Init => StoredInv
<1> SUFFICES ASSUME Init PROVE StoredInv
  OBVIOUS
<1>1. \A r \in Run : exec[r] = NoExec
  BY DEF Init
<1>2. \A r \in Run : ~Started(r) /\ exec[r].plan = << >>
  BY <1>1 DEF Started, NoExec
<1> QED BY <1>2 DEF StoredInv, Latest, AsStored, Explained, Started

(* Once it is there, a definition stays among those that a run can meet.   *)
LEMMA SinceGrows ==
  ASSUME NEW r \in Run,
         \A q \in Run : Started(q) => Started(q)' /\ own'[q] = own[q]
  PROVE  StoredSince(r) \subseteq StoredSince(r)'
BY RunsFacts DEF StoredSince, Started

LEMMA SameStored ==
  ASSUME NEW q \in Run, StoredSince(q) \subseteq StoredSince(q)',
         exec'[q] = exec[q], run'[q] = run[q], called'[q] = called[q],
         q \in hurt => q \in hurt'
  PROVE  (AsStored(q) => AsStored(q)') /\ (Explained(q) => Explained(q)')
<1>1. AsStored(q) => AsStored(q)'
  BY DEF AsStored
<1>2. Explained(q) => Explained(q)'
  <2> SUFFICES ASSUME Explained(q), exec[q].pc = "ended",
                      run[q].state \notin {"completed", "failed"}, q \notin hurt
               PROVE  /\ run[q].state = "pending" /\ called[q] = {}
                      /\ \E d \in StoredSince(q)' :
                           d.timeout \/ \E i \in 1..Len(d.steps) : d.steps[i].timeout
    BY DEF Explained
  <2> QED BY DEF Explained
<1> QED BY <1>1, <1>2

(* A step of one execution, which may take the definition that is there.   *)
LEMMA StoredRunStep ==
  ASSUME StoredInv, NEW r \in Run, Started(r), UNCHANGED <<def, own>>,
         Started(r)', hurt \subseteq hurt',
         \A q \in Run \ {r} : /\ exec'[q] = exec[q] /\ run'[q] = run[q]
                              /\ called'[q] = called[q],
         exec'[r].plan \in {exec[r].plan, def.steps}, Explained(r)'
  PROVE  StoredInv'
<1>1. \A q \in Run : /\ Started(q) <=> Started(q)'
                     /\ own'[q] = own[q]
  BY DEF Started
<1>2. \A q \in Run : StoredSince(q) \subseteq StoredSince(q)'
  BY <1>1, SinceGrows
<1>3. Latest'
  BY <1>1, <1>2 DEF StoredInv, Latest
<1>4. AsStored(r)'
  <2>1. def \in StoredSince(r) /\ AsStored(r)
    BY DEF StoredInv, Latest
  <2> QED BY <1>2, <2>1 DEF AsStored
<1>5. ASSUME NEW q \in Run \ {r} PROVE AsStored(q)' /\ Explained(q)'
  BY <1>2, SameStored DEF StoredInv
<1> QED BY <1>3, <1>4, <1>5 DEF StoredInv

(* No step but StoreDefinition changes the definition ...                  *)
LEMMA ExecutionsKeepStored ==
  ASSUME DefInv, StoredInv, NEW r \in Run,
         CreateRun(r) \/ Execute(r) \/ Interrupted(r)
  PROVE  StoredInv'
<1>1. /\ exec \in [Run -> ExecRow] /\ run \in [Run -> RunRow]
      /\ called \in [Run -> SUBSET (Fn \X Fn)] /\ Where(r) /\ Told(r)
  BY DEF DefInv, Types
<1> DEFINE
  Others == \A q \in Run \ {r} : /\ exec'[q] = exec[q] /\ run'[q] = run[q]
                                 /\ called'[q] = called[q]
  Goal == /\ Started(r) /\ Started(r)' /\ Others
          /\ UNCHANGED <<def, own>> /\ hurt \subseteq hurt'
          /\ exec'[r].plan \in {exec[r].plan, def.steps} /\ Explained(r)'
<1>2. CASE CreateRun(r)
  <2>1. /\ exec[r].pc = "create" /\ exec'[r] = [exec[r] EXCEPT !.pc = "load"]
        /\ Others /\ UNCHANGED <<def, own, hurt>>
    BY <1>1, <1>2 DEF CreateRun
  <2>2. exec'[r].pc = "load" /\ exec'[r].plan = exec[r].plan
    BY <1>1, <2>1 DEF ExecRow
  <2>3. Goal
    BY <2>1, <2>2 DEF Started, Explained
  <2> QED BY <2>3, StoredRunStep
<1>3. CASE Load(r) /\ Parses(def)
  <2>1. /\ exec[r].pc = "load"
        /\ exec'[r] = [exec[r] EXCEPT !.pc = "mark", !.plan = def.steps]
        /\ Others /\ UNCHANGED <<def, own, hurt>>
    BY <1>1, <1>3 DEF Load
  <2>2. exec'[r].pc = "mark" /\ exec'[r].plan = def.steps
    BY <1>1, <2>1, Zenon DEF ExecRow
  <2>3. Goal
    BY <2>1, <2>2 DEF Started, Explained
  <2> QED BY <2>3, StoredRunStep
<1>4. CASE Load(r) /\ ~Parses(def)
  <2>1. /\ exec[r].pc = "load" /\ exec'[r] = [exec[r] EXCEPT !.pc = "ended"]
        /\ Others /\ UNCHANGED <<def, own, run, called, hurt>>
    BY <1>1, <1>4 DEF Load
  <2>2. exec'[r].pc = "ended" /\ exec'[r].plan = exec[r].plan
    BY <1>1, <2>1 DEF ExecRow
  <2>3. Started(r) /\ Started(r)'
    BY <2>1, <2>2 DEF Started
  <2>4. Explained(r)'
    <3>1. def \in StoredSince(r)'
      <4>1. \A q \in Run : Started(q) => Started(q)' /\ own'[q] = own[q]
        BY <2>1, <2>3 DEF Started
      <4>2. def \in StoredSince(r)
        BY <2>3 DEF StoredInv, Latest
      <4> QED BY <4>1, <4>2, SinceGrows
    <3>2. def.timeout \/ \E i \in 1..Len(def.steps) : def.steps[i].timeout
      BY <1>4 DEF Parses
    <3>3. run[r].state = "pending" /\ called[r] = {}
      BY <1>1, <2>1 DEF Told, Where
    <3> QED BY <2>1, <3>1, <3>2, <3>3 DEF Explained
  <2> QED BY <2>1, <2>2, <2>3, <2>4, StoredRunStep
<1>5. CASE MarkRunning(r)
  <2>1. /\ exec[r].pc = "mark" /\ exec'[r] = [exec[r] EXCEPT !.pc = "step"]
        /\ Others /\ UNCHANGED <<def, own, hurt>>
    BY <1>1, <1>5 DEF MarkRunning
  <2>2. exec'[r].pc = "step" /\ exec'[r].plan = exec[r].plan
    BY <1>1, <2>1 DEF ExecRow
  <2>3. Goal
    BY <2>1, <2>2 DEF Started, Explained
  <2> QED BY <2>3, StoredRunStep
<1>6. CASE RunStep(r) \/ SkipStep(r)
  <2>1. PICK ids, outs : Advance(r, ids, outs)
    BY <1>6 DEF RunStep, SkipStep
  <2>2. /\ exec[r].pc = "step"
        /\ exec'[r] = [exec[r] EXCEPT !.idx = @ + 1, !.done = @ \cup ids,
                                      !.outs = @ \cup outs]
        /\ \A q \in Run \ {r} : exec'[q] = exec[q]
    BY <1>1, <1>6, <2>1 DEF Advance, RunStep, SkipStep, AtStep
  <2>3. /\ UNCHANGED <<def, own, run, hurt>>
        /\ \A q \in Run \ {r} : called'[q] = called[q]
    BY <1>1, <1>6 DEF RunStep, SkipStep
  <2>4. exec'[r].pc = "step" /\ exec'[r].plan = exec[r].plan
    BY <1>1, <2>2, Zenon DEF ExecRow
  <2>5. Goal
    BY <2>2, <2>3, <2>4 DEF Started, Explained
  <2> QED BY <2>5, StoredRunStep
<1>7. CASE RefuseStep(r) \/ FinishRun(r)
  <2>1. PICK st \in {"failed", "completed"} : exec[r].pc = "step" /\ EndRun(r, st)
    BY <1>7 DEF RefuseStep, FinishRun, MustFail, AtEnd, AtStep
  <2>2. /\ exec'[r] = [exec[r] EXCEPT !.pc = "ended"]
        /\ run'[r] = [run[r] EXCEPT !.state = st]
        /\ Others /\ UNCHANGED <<def, own, hurt>>
    BY <1>1, <1>7, <2>1 DEF EndRun, RefuseStep, FinishRun
  <2>3. /\ exec'[r].pc = "ended" /\ exec'[r].plan = exec[r].plan
        /\ run'[r].state = st
    BY <1>1, <2>2 DEF ExecRow, RunRow
  <2>4. Goal
    BY <2>1, <2>2, <2>3 DEF Started, Explained
  <2> QED BY <2>4, StoredRunStep
<1>8. CASE Interrupted(r)
  <2>1. /\ exec[r].pc \notin {"unused", "ended"}
        /\ exec'[r] = [exec[r] EXCEPT !.pc = "ended"]
        /\ hurt' = hurt \cup {r} /\ UNCHANGED <<def, own, called>>
        /\ \A q \in Run \ {r} : exec'[q] = exec[q] /\ run'[q] = run[q]
    BY <1>1, <1>8 DEF Interrupted
  <2>2. exec'[r].pc = "ended" /\ exec'[r].plan = exec[r].plan
    BY <1>1, <2>1 DEF ExecRow
  <2>3. Goal
    BY <2>1, <2>2 DEF Started, Explained
  <2> QED BY <2>3, StoredRunStep
<1> QED BY <1>2, <1>3, <1>4, <1>5, <1>6, <1>7, <1>8 DEF Execute

(* ... and that one writes the definition of the newest run.               *)
LEMMA StoreKeepsStored ==
  ASSUME DefInv, StoredInv, NEW c \in Client, NEW n \in Run, StoreDefinition(c, n)
  PROVE  StoredInv'
<1>1. /\ exec \in [Run -> ExecRow] /\ own \in [Run -> Definition]
      /\ Where(n) /\ exec[n].pc = "unused"
  BY DEF DefInv, Types, StoreDefinition
<1>2. /\ \A q \in 1..n-1 : Started(q)
      /\ exec'[n] = [exec[n] EXCEPT !.pc = "create", !.client = c]
      /\ def' = DefinitionOf(c) /\ own'[n] = DefinitionOf(c)
      /\ \A q \in Run \ {n} : exec'[q] = exec[q] /\ own'[q] = own[q]
      /\ UNCHANGED <<run, called, hurt>>
  BY <1>1 DEF StoreDefinition, Started, Upsert
<1>3. exec'[n].pc = "create" /\ exec'[n].plan = << >>
  <2>1. exec'[n].pc = "create" /\ exec'[n].plan = exec[n].plan
    BY <1>1, <1>2, Zenon DEF ExecRow
  <2> QED BY <1>1, <2>1 DEF Where
<1>4. /\ ~Started(n) /\ Started(n)'
      /\ \A q \in Run \ {n} : Started(q) <=> Started(q)'
  BY <1>1, <1>2, <1>3 DEF Started
<1>5. \A q \in Run : StoredSince(q) \subseteq StoredSince(q)'
  BY <1>2, <1>4, SinceGrows
<1>6. \A q \in Run : Started(q) => q < n
  <2> SUFFICES ASSUME NEW q \in Run, Started(q), ~(q < n) PROVE FALSE
    OBVIOUS
  <2>1. q # n
    BY <1>4
  <2>2. n < q
    BY <2>1, RunsFacts
  <2> QED BY <1>4, <2>2 DEF StoredInv, Latest
<1>7. Latest'
  <2>1. ASSUME NEW q \in Run, NEW r \in Run, q < r, Started(r)' PROVE Started(q)'
    <3>1. CASE r = n
      <4>1. q \in 1..n-1
        BY <2>1, <3>1, RunsFacts DEF Run
      <4> QED BY <1>2, <1>4, <4>1
    <3>2. CASE r # n
      BY <1>4, <2>1, <3>2 DEF StoredInv, Latest
    <3> QED BY <3>1, <3>2
  <2>2. ASSUME NEW r \in Run, Started(r)' PROVE def' \in StoredSince(r)'
    <3>1. r <= n
      BY <1>4, <1>6, <2>2, RunsFacts
    <3>2. n \in r..MaxRuns
      BY <3>1, RunsFacts DEF Run
    <3> QED BY <1>2, <1>3, <3>2 DEF StoredSince
  <2> QED BY <2>1, <2>2 DEF Latest
<1>8. AsStored(n)' /\ Explained(n)'
  BY <1>3 DEF AsStored, Explained
<1>9. ASSUME NEW q \in Run \ {n} PROVE AsStored(q)' /\ Explained(q)'
  BY <1>2, <1>5, SameStored DEF StoredInv
<1> QED BY <1>7, <1>8, <1>9 DEF StoredInv

LEMMA StoredNext ==
  ASSUME DefInv, StoredInv, [Next]_vars
  PROVE  StoredInv'
<1>1. CASE UNCHANGED <<def, run, exec, own, called, hurt>>
  BY <1>1 DEF StoredInv, Latest, AsStored, Explained, StoredSince, Started
<1>2. ASSUME NEW c \in Client,
             (\E call \in Call : Build(c, call)) \/ SetTimeout(c) \/ RegisterWorkflow(c)
      PROVE  StoredInv'
  BY <1>1, <1>2 DEF Build, SetTimeout, RegisterWorkflow
<1>3. UNCHANGED vars => StoredInv'
  BY <1>1 DEF vars
<1> QED BY <1>2, <1>3, ExecutionsKeepStored, StoreKeepsStored DEF Next

LEMMA StoredHolds == Spec => []StoredInv
BY StoredInit, StoredNext, DefHolds, PTL DEF Spec

-----------------------------------------------------------------------------
(* The workflows, the tables and the rows keep their types.                *)
THEOREM DefinitionTypes == Spec => []TypeOK
<1>1. DefInv => TypeOK
  <2> SUFFICES ASSUME DefInv PROVE TypeOK
    OBVIOUS
  <2>1. \A c \in Client : steps[c] \in Seq(Step) /\ Len(steps[c]) <= MaxSteps
    BY DEF DefInv, Types, Workflow
  <2>2. def.steps \in Seq(Step) /\ def.timeout \in BOOLEAN
    BY DEF DefInv, Types, Definition, Workflow
  <2>3. ASSUME NEW r \in Run
        PROVE  /\ run[r] \in RunRow /\ exec[r] \in ExecRow /\ Where(r)
               /\ exec[r].plan \in Seq(Step)
    BY DEF DefInv, Types, ExecRow, Workflow
  <2>4. /\ timed \in [Client -> BOOLEAN] /\ registered \subseteq Client /\ hurt \subseteq Run
        /\ table \in [Client -> [Table -> [Id -> Fn]]]
    BY DEF DefInv, Types, FnTables
  <2> QED BY <2>1, <2>2, <2>3, <2>4 DEF TypeOK, Where, ExecRow, RunRow
<1> QED BY <1>1, DefHolds, PTL

(* A step is executed with the function that was given with it: what       *)
(* RegisterWorkflow put into the engine's tables is what the executor of   *)
(* the stored step looks up, for workflows whose given ids are distinct.   *)
THEOREM StepsFindTheirFunctions == Spec => []OwnFunctions
<1>1. DefInv => OwnFunctions
  BY DEF DefInv, OwnFunctions, Passed
<1> QED BY <1>1, DefHolds, PTL

(* For want of a function a clean run fails only at a handler step whose   *)
(* kind nobody handles; for want of an output, only at a reduce step after *)
(* one that leaves none under its id.                                      *)
THEOREM OnlyReduceIsRefused == Spec => []RefusesOnlyReduce
<1>1. DefInv => RefusesOnlyReduce
  BY DEF DefInv, RefusesOnlyReduce, FailedWell
<1> QED BY <1>1, DefHolds, PTL

(* A clean run that is completed called every function of a step without a *)
(* condition: the ids of parallel and conditional steps, which the builder *)
(* makes of their places, collide with none.                               *)
THEOREM CompletedRunsCalledAll == Spec => []CompletedCalledAll
<1>1. DefInv => CompletedCalledAll
  <2> SUFFICES ASSUME DefInv, Clean, NEW r \in Run, run[r].state = "completed",
                      NEW f \in Unconditional(exec[r].plan)
               PROVE  \E p \in called[r] : p[1] = f
    BY DEF CompletedCalledAll
  <2>1. /\ exec[r].idx = Len(exec[r].plan) + 1 /\ Passed(r)
        /\ exec[r] \in ExecRow
    BY DEF DefInv, Told, Types
  <2>2. Len(exec[r].plan) \in Nat
    BY <2>1 DEF ExecRow, Workflow
  <2>3. PICK i \in 1..Len(exec[r].plan) :
          /\ exec[r].plan[i].type \notin {"conditional", "handler"}
          /\ \E u \in ToSet(UnitsOf(exec[r].plan, i)) : f = u.fn
    BY DEF Unconditional
  <2>4. i \in 1..exec[r].idx-1
    BY <2>1, <2>2
  <2> QED BY <2>1, <2>3, <2>4 DEF Passed
<1> QED BY <1>1, DefHolds, PTL

(* The row of a run has a state for every step that its execution passes:  *)
(* Workflow.Steps and the stored definition name the same steps, as long   *)
(* as processes agree on the workflow and it was whole when registered.    *)
THEOREM KeysAreThere == Spec => []KeysCoverPlan
<1>1. DefInv => KeysCoverPlan
  <2> SUFFICES ASSUME DefInv, OneVersion, NEW r \in Run,
                      NEW i \in 1..exec[r].idx-1,
                      NEW u \in ToSet(UnitsOf(exec[r].plan, i))
               PROVE  u.id \in run[r].keys
    BY DEF KeysCoverPlan
  <2>1. /\ exec[r] \in ExecRow /\ Where(r) /\ Told(r)
        /\ Started(r) => OwnKept(r)
    BY DEF DefInv, Types
  <2>2. exec[r].plan \in Workflow /\ Len(exec[r].plan) \in Nat
    BY <2>1 DEF ExecRow, Workflow
  <2>3. i \in 1..Len(exec[r].plan)
    BY <2>1, <2>2 DEF Where
  <2>4. Started(r) /\ exec[r].plan # << >>
    <3>1. exec[r].plan # << >>
      BY <2>2, <2>3
    <3> QED BY <2>1, <3>1 DEF Where, Started
  <2>5. exec[r].plan = def.steps /\ run[r].keys = StepIds(def.steps)
    BY <2>1, <2>4 DEF OwnKept, Told
  <2> QED BY <2>2, <2>3, <2>5, IdsStored
<1> QED BY <1>1, DefHolds, PTL

(* A run meets the definition that was stored with it or a later one: the  *)
(* row of the workflow always has the definition of the newest run, and    *)
(* every other one started before.  It is executed by its steps or, if     *)
(* nothing disturbs it, left pending by a timeout in it.                   *)
THEOREM ExecutedAsStored == Spec => []RunsAsStored
<1>1. StoredInv => RunsAsStored
  BY DEF StoredInv, AsStored, Explained, RunsAsStored, Stranded, HasTimeout
<1> QED BY <1>1, StoredHolds, PTL
=============================================================================
