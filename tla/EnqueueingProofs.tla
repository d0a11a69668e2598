-------------------------- MODULE EnqueueingProofs --------------------------
(***************************************************************************)
(* What a caller of Enqueue, EnqueueMany or EnqueueTx may rely on, for any *)
(* number of callers, keys and requests and whatever statement fails.      *)
(* The other callers can only do two things to what a request has stored   *)
(* or seen: nothing, or end its jobs.  So the proof follows one request    *)
(* through its steps, and shows once that nobody else disturbs it.         *)
(***************************************************************************)
EXTENDS Enqueueing, SequenceTheorems, FiniteSetTheorems, TLAPS

-----------------------------------------------------------------------------
(* The inductive invariant.  A caller's rows, answers and outcome agree    *)
(* with how far its request is.                                            *)
Busy(c) == pc[c] # "idle"
Open(c) == pc[c] \in {"look", "insert"}

Keeps(c, i) == Stored(i) \/ (rows[i].state = "inserted" /\ i \in Mine(c))

Done(c, n) == {i \in Mine(c) : rows[i].by[2] = n}

(* Every request has a number of its own.                                  *)
UnitsOK ==
  /\ \A c, d \in Caller : unit[c] = unit[d] /\ unit[c] # 0 => c = d
  /\ \A i \in DOMAIN rows : rows[i].by[1] <= count
  /\ \A c \in Caller : Busy(c) => unit[c] # 0

KeysOK ==
  \A i, j \in DOMAIN rows :
    /\ rows[i].key = rows[j].key /\ rows[i].key # NoKey
    /\ rows[i].state \in {"live", "inserted"}
    /\ rows[j].state \in {"live", "inserted"}
    => i = j

ControlOK(c) ==
  /\ Len(answers[c]) <= Len(req[c].items)
  /\ pc[c] = "insert" => More(c) /\ Params(c) # BadParams
  /\ pc[c] = "aborted" => req[c].tx
  /\ Busy(c) => outcome[c].status = "none"

(* The rows of a transaction are inserted until it ends.                   *)
RowsOK(c) ==
  \A i \in Mine(c) :
    /\ Busy(c) => rows[i].by[2] <= Len(answers[c])
    /\ req[c].tx /\ Open(c) => rows[i].state = "inserted"
    /\ req[c].tx /\ pc[c] = "aborted" => rows[i].state = "gone"
    /\ rows[i].state = "inserted" => req[c].tx /\ Open(c)

TxOK(c) == req[c].tx =>
  /\ \A i, j \in Mine(c) : Stored(i) => Stored(j)
  /\ outcome[c].status = "rolledback" => \A i \in Mine(c) : ~Stored(i)
  /\ Open(c) \/ outcome[c].status = "ok" =>
       \A n \in DOMAIN answers[c] :
         answers[c][n].kind = "error" => req[c].items[n] = BadParams

AnswerHolds(c, n, a) ==
  /\ a.kind # "error" => a.id \in DOMAIN rows /\ Keeps(c, a.id)
  /\ a.kind = "created" => rows[a.id].by = <<unit[c], n>>
  /\ a.kind = "duplicate" => rows[a.id].key = req[c].items[n]

AnswersOK(c) == Open(c) \/ outcome[c].status = "ok" =>
  \A n \in DOMAIN answers[c] : AnswerHolds(c, n, answers[c][n])

(* A batch on the pool up to now, or up to its error.                      *)
Handled(c, n) == Done(c, n) # {} \/ WithKey(req[c].items[n]) # {}

BatchOK(c) == ~req[c].tx =>
  /\ Open(c) => \A n \in 1..Len(answers[c]) : Handled(c, n)
  /\ pc[c] = "insert" =>
       \A i \in Mine(c) \cap WithKey(Params(c)) : rows[i].state # "live"
  /\ outcome[c].status = "error" =>
       LET at == outcome[c].at IN
       /\ at \in 1..Len(req[c].items)
       /\ \A n \in 1..Len(req[c].items) : n < at => Handled(c, n)
       /\ \A i \in Mine(c) : rows[i].by[2] <= at
       /\ Done(c, at) # {} => errors < MaxErrors
       /\ \/ req[c].items[at] = BadParams
          \/ errors < MaxErrors
          \/ \E i \in WithKey(req[c].items[at]) : Stored(i) /\ i \notin Mine(c)

CallerOK(c) == ControlOK(c) /\ RowsOK(c) /\ TxOK(c) /\ AnswersOK(c) /\ BatchOK(c)

EnqInv == TypeOK /\ UnitsOK /\ KeysOK /\ \A c \in Caller : CallerOK(c)

-----------------------------------------------------------------------------
(* Types.                                                                  *)
LEMMA BecomesType ==
  ASSUME rows \in Seq(Row), NEW c \in Caller, NEW state \in {"live", "gone"},
         Becomes(c, state)
  PROVE  /\ rows' \in Seq(Row) /\ DOMAIN rows' = DOMAIN rows
         /\ \A i \in DOMAIN rows :
              /\ rows'[i].key = rows[i].key /\ rows'[i].by = rows[i].by
              /\ rows'[i].state = IF i \in Mine(c) /\ rows[i].state = "inserted"
                                  THEN state ELSE rows[i].state
<1>1. \A i \in DOMAIN rows : rows[i] \in Row
  OBVIOUS
<1>2. /\ DOMAIN rows' = DOMAIN rows
      /\ \A i \in DOMAIN rows :
           rows'[i] = IF i \in Mine(c) /\ rows[i].state = "inserted"
                      THEN [rows[i] EXCEPT !.state = state] ELSE rows[i]
  BY DEF Becomes
<1>3. \A i \in DOMAIN rows :
        /\ rows'[i] \in Row
        /\ rows'[i].key = rows[i].key /\ rows'[i].by = rows[i].by
        /\ rows'[i].state = IF i \in Mine(c) /\ rows[i].state = "inserted"
                            THEN state ELSE rows[i].state
  BY <1>1, <1>2 DEF Row
<1>4. rows' \in Seq(Row)
  <2>1. DOMAIN rows = 1..Len(rows) /\ Len(rows) \in Nat
    OBVIOUS
  <2>2. rows' \in [1..Len(rows) -> Row]
    BY <1>2, <1>3, <2>1 DEF Becomes
  <2> QED BY <2>1, <2>2
<1> QED BY <1>2, <1>3, <1>4

LEMMA AppendRow ==
  ASSUME rows \in Seq(Row), NEW x \in Row, rows' = Append(rows, x)
  PROVE  /\ rows' \in Seq(Row)
         /\ DOMAIN rows' = DOMAIN rows \cup {Len(rows) + 1}
         /\ Len(rows) + 1 \notin DOMAIN rows
         /\ Len(rows) + 1 \in Nat
         /\ rows'[Len(rows) + 1] = x
         /\ \A i \in DOMAIN rows : rows'[i] = rows[i]
BY AppendProperties

LEMMA AppendAnswer ==
  ASSUME NEW s \in Seq(Answer), NEW x \in Answer
  PROVE  /\ Append(s, x) \in Seq(Answer)
         /\ Len(Append(s, x)) = Len(s) + 1 /\ Len(s) \in Nat
         /\ DOMAIN Append(s, x) = DOMAIN s \cup {Len(s) + 1}
         /\ DOMAIN s = 1..Len(s)
         /\ Append(s, x)[Len(s) + 1] = x
         /\ \A n \in DOMAIN s : Append(s, x)[n] = s[n]
BY AppendProperties

(* How a step of c moves its request on.                                   *)
LEMMA SayEffect ==
  ASSUME TypeOK, NEW c \in Caller, NEW kind \in {"created", "duplicate", "error"},
         NEW id \in Nat, Say(c, kind, id)
  PROVE  /\ answers' \in [Caller -> Seq(Answer)]
         /\ answers'[c] = Append(answers[c], [kind |-> kind, id |-> id])
         /\ [kind |-> kind, id |-> id] \in Answer
         /\ \A d \in Caller \ {c} : answers'[d] = answers[d]
<1>1. [kind |-> kind, id |-> id] \in Answer
  BY DEF Answer
<1> QED BY <1>1, AppendAnswer DEF Say, TypeOK

LEMMA GotoEffect ==
  ASSUME TypeOK, NEW c \in Caller, NEW l \in {"idle", "look", "insert", "aborted"},
         Goto(c, l)
  PROVE  /\ pc' \in [Caller -> {"idle", "look", "insert", "aborted"}]
         /\ pc'[c] = l
         /\ \A d \in Caller \ {c} : pc'[d] = pc[d]
BY DEF Goto, TypeOK

LEMMA EndEffect ==
  ASSUME TypeOK, NEW c \in Caller, NEW status \in {"ok", "error", "rolledback"},
         End(c, status)
  PROVE  /\ pc' \in [Caller -> {"idle", "look", "insert", "aborted"}]
         /\ answers' \in [Caller -> Seq(Answer)]
         /\ outcome' \in [Caller -> [status : {"none", "ok", "error", "rolledback"},
                                     at : Nat]]
         /\ pc'[c] = "idle"
         /\ answers'[c] = IF status = "ok" THEN answers[c] ELSE << >>
         /\ outcome'[c] = [status |-> status, at |-> At(c)]
         /\ \A d \in Caller \ {c} : /\ pc'[d] = pc[d]
                                    /\ answers'[d] = answers[d]
                                    /\ outcome'[d] = outcome[d]
<1>1. /\ Goto(c, "idle")
      /\ answers' = [answers EXCEPT ![c] = IF status = "ok" THEN @ ELSE << >>]
      /\ outcome' = [outcome EXCEPT ![c] = [status |-> status, at |-> At(c)]]
  BY DEF End
<1>2. answers[c] \in Seq(Answer) /\ << >> \in Seq(Answer) /\ At(c) \in Nat
  BY DEF TypeOK, At
<1>3. [status |-> status, at |-> At(c)] \in
        [status : {"none", "ok", "error", "rolledback"}, at : Nat]
  BY <1>2
<1> QED BY <1>1, <1>2, <1>3, GotoEffect DEF TypeOK

(* The effect of a refusal, on the pool and in a transaction.              *)
LEMMA RefuseEffect ==
  ASSUME TypeOK, NEW c \in Caller, NEW after \in {"look", "insert", "aborted"},
         Refuse(c, after)
  PROVE  /\ req[c].tx => /\ Say(c, "error", 0) /\ Goto(c, after)
                         /\ UNCHANGED outcome
         /\ ~req[c].tx => End(c, "error")
         /\ pc' \in [Caller -> {"idle", "look", "insert", "aborted"}]
         /\ answers' \in [Caller -> Seq(Answer)]
         /\ outcome' \in [Caller -> [status : {"none", "ok", "error", "rolledback"},
                                     at : Nat]]
         /\ \A d \in Caller \ {c} : /\ pc'[d] = pc[d]
                                    /\ answers'[d] = answers[d]
                                    /\ outcome'[d] = outcome[d]
<1>1. CASE req[c].tx
  BY <1>1, SayEffect, GotoEffect DEF Refuse, TypeOK
<1>2. CASE ~req[c].tx
  BY <1>2, EndEffect DEF Refuse
<1> QED BY <1>1, <1>2

-----------------------------------------------------------------------------
(* What a step of the request of c does to everything but that request.    *)
OwnStep(c) == Step(c) \/ LoseStatement(c) \/ LoseCommit(c)

Alone(c) == \A d \in Caller \ {c} :
  UNCHANGED <<req[d], unit[d], pc[d], answers[d], outcome[d]>>

InsertsRow(c) == /\ pc[c] = "insert" /\ Blockers(c) = {} /\ ~Violates(c)
                 /\ rows' = Append(rows, NewRow(c))

RowChange(c) == \/ UNCHANGED rows
                \/ InsertsRow(c)
                \/ \E state \in {"live", "gone"} : Becomes(c, state)

LEMMA ParamsTyped ==
  ASSUME TypeOK, NEW c \in Caller, More(c)
  PROVE  /\ Params(c) \in Key \cup {NoKey, BadParams}
         /\ At(c) \in 1..Len(req[c].items)
         /\ At(c) = Len(answers[c]) + 1
         /\ Len(answers[c]) \in Nat
<1>1. req[c].items \in Seq(Item) /\ answers[c] \in Seq(Answer)
  BY DEF TypeOK, Request
<1>2. At(c) \in 1..Len(req[c].items) /\ Len(answers[c]) \in Nat
  BY <1>1 DEF More, At
<1> QED BY <1>1, <1>2 DEF Params, Item, At

LEMMA NewRowTyped ==
  ASSUME TypeOK, NEW c \in Caller, More(c), Params(c) # BadParams, unit[c] # 0
  PROVE  /\ NewRow(c) \in Row
         /\ NewRow(c).key = Params(c) /\ NewRow(c).state = InsertedAs(c)
         /\ NewRow(c).by = <<unit[c], At(c)>>
<1>1. Params(c) \in Key \cup {NoKey} /\ At(c) \in Nat \ {0}
  BY ParamsTyped
<1>2. unit[c] \in Nat \ {0}
  BY EnqueueingAssumption DEF TypeOK
<1>3. InsertedAs(c) \in {"inserted", "live", "ended", "gone"}
  BY DEF InsertedAs
<1> QED BY <1>1, <1>2, <1>3 DEF NewRow, Row

LEMMA StatementFailsEffect ==
  ASSUME TypeOK, NEW c \in Caller, StatementFails(c)
  PROVE  /\ Becomes(c, "gone") /\ Refuse(c, "aborted")
         /\ rows' \in Seq(Row)
BY BecomesType DEF StatementFails, TypeOK

LEMMA StepEffect ==
  ASSUME EnqInv, NEW c \in Caller, OwnStep(c)
  PROVE  /\ Alone(c) /\ RowChange(c) /\ Busy(c)
         /\ errors' <= errors
         /\ TypeOK' /\ UNCHANGED callerVars
<1> DEFINE Goal == /\ Alone(c) /\ RowChange(c) /\ Busy(c)
                   /\ errors' <= errors
                   /\ TypeOK' /\ UNCHANGED callerVars
<1>1. TypeOK /\ errors \in Nat /\ (Busy(c) => unit[c] # 0)
  BY EnqueueingAssumption DEF EnqInv, TypeOK, UnitsOK
<1>2. ASSUME Refuse(c, pc[c]) \/ Refuse(c, "aborted"), pc[c] \in {"look", "insert", "aborted"},
             RowChange(c), rows' \in Seq(Row), errors' \in 0..MaxErrors,
             errors' <= errors, UNCHANGED callerVars
      PROVE  Goal
  <2>1. /\ pc' \in [Caller -> {"idle", "look", "insert", "aborted"}]
        /\ answers' \in [Caller -> Seq(Answer)]
        /\ outcome' \in [Caller -> [status : {"none", "ok", "error", "rolledback"},
                                    at : Nat]]
        /\ \A d \in Caller \ {c} : /\ pc'[d] = pc[d]
                                   /\ answers'[d] = answers[d]
                                   /\ outcome'[d] = outcome[d]
    BY <1>1, <1>2, RefuseEffect
  <2> QED BY <1>1, <1>2, <2>1 DEF Alone, Busy, TypeOK, callerVars
<1>3. CASE RefuseParams(c) \/ AbortedCall(c)
  BY <1>1, <1>2, <1>3 DEF RefuseParams, AbortedCall, RowChange, TypeOK
<1>4. CASE InsertRefused(c) \/ DeadlockVictim(c)
  BY <1>1, <1>2, <1>4, StatementFailsEffect DEF InsertRefused, DeadlockVictim,
     RowChange, TypeOK
<1>5. CASE FindDuplicate(c)
  <2>1. PICK i \in Found(c) : Say(c, "duplicate", i)
    BY <1>5 DEF FindDuplicate
  <2>2. i \in Nat
    BY <1>1, <2>1 DEF Found, WithKey, TypeOK
  <2>3. /\ answers' \in [Caller -> Seq(Answer)]
        /\ \A d \in Caller \ {c} : answers'[d] = answers[d]
    BY <1>1, <2>1, <2>2, SayEffect
  <2> QED BY <1>1, <1>5, <2>3 DEF FindDuplicate, Alone, Busy, RowChange, TypeOK,
          callerVars
<1>6. CASE FindNone(c)
  BY <1>1, <1>6, GotoEffect DEF FindNone, Alone, Busy, RowChange, TypeOK, callerVars
<1>7. ASSUME InsertsRow(c) PROVE rows' \in Seq(Row) /\ Len(rows) + 1 \in Nat
  <2>1. pc[c] = "insert" /\ More(c) /\ Params(c) # BadParams /\ unit[c] # 0
    BY <1>1, <1>7 DEF InsertsRow, EnqInv, CallerOK, ControlOK, Busy
  <2>2. NewRow(c) \in Row /\ rows \in Seq(Row)
    BY <1>1, <2>1, NewRowTyped DEF TypeOK
  <2> QED BY <1>7, <2>2, AppendRow DEF InsertsRow
<1>8. CASE Insert(c)
  <2>1. InsertsRow(c)
    BY <1>8 DEF Insert, InsertsRow
  <2>2. rows' \in Seq(Row) /\ Len(rows) + 1 \in Nat
    BY <1>7, <2>1
  <2>3. /\ answers' \in [Caller -> Seq(Answer)]
        /\ \A d \in Caller \ {c} : answers'[d] = answers[d]
    BY <1>1, <1>8, <2>2, SayEffect DEF Insert
  <2>4. /\ pc' \in [Caller -> {"idle", "look", "insert", "aborted"}]
        /\ \A d \in Caller \ {c} : pc'[d] = pc[d]
    BY <1>1, <1>8, GotoEffect DEF Insert
  <2> QED BY <1>1, <1>8, <2>1, <2>2, <2>3, <2>4 DEF Insert, Alone, Busy, RowChange,
          TypeOK, callerVars
<1>9. ASSUME End(c, "ok") \/ End(c, "error") \/ End(c, "rolledback"),
             pc[c] \in {"look", "insert", "aborted"},
             RowChange(c), rows' \in Seq(Row), errors' \in 0..MaxErrors,
             errors' <= errors, UNCHANGED callerVars
      PROVE  Goal
  <2>1. /\ pc' \in [Caller -> {"idle", "look", "insert", "aborted"}]
        /\ answers' \in [Caller -> Seq(Answer)]
        /\ outcome' \in [Caller -> [status : {"none", "ok", "error", "rolledback"},
                                    at : Nat]]
        /\ \A d \in Caller \ {c} : /\ pc'[d] = pc[d]
                                   /\ answers'[d] = answers[d]
                                   /\ outcome'[d] = outcome[d]
    BY <1>1, <1>9, EndEffect
  <2> QED BY <1>1, <1>9, <2>1 DEF Alone, Busy, TypeOK, callerVars
<1>10. CASE Return(c)
  BY <1>1, <1>9, <1>10 DEF Return, RowChange, TypeOK
<1>11. ASSUME \E state \in {"live", "gone"} : Becomes(c, state)
       PROVE  RowChange(c) /\ rows' \in Seq(Row)
  BY <1>1, <1>11, BecomesType DEF RowChange, TypeOK
<1>12. CASE Commit(c) \/ Rollback(c)
  BY <1>1, <1>9, <1>11, <1>12 DEF Commit, Rollback, TypeOK
<1>13. ASSUME errors > 0, errors' = errors - 1
       PROVE  errors' \in 0..MaxErrors /\ errors' <= errors
  BY <1>1, <1>13, EnqueueingAssumption DEF TypeOK
<1>14. CASE LoseCommit(c)
  BY <1>9, <1>11, <1>13, <1>14 DEF LoseCommit
<1>15. CASE LoseStatement(c)
  <2>1. CASE StatementFails(c)
    BY <1>1, <1>2, <1>13, <1>15, <2>1, StatementFailsEffect DEF LoseStatement, RowChange
  <2>2. CASE InsertsRow(c) /\ Refuse(c, "aborted")
    BY <1>2, <1>7, <1>13, <1>15, <2>2 DEF LoseStatement, RowChange
  <2> QED BY <1>15, <2>1, <2>2 DEF LoseStatement, InsertsRow
<1> QED BY <1>3, <1>4, <1>5, <1>6, <1>8, <1>10, <1>12, <1>14, <1>15
        DEF OwnStep, Step

-----------------------------------------------------------------------------
(* What others do to the rows of d: nothing, or end jobs.                  *)
Settles(i) ==
  /\ rows'[i].key = rows[i].key /\ rows'[i].by = rows[i].by
  /\ \/ rows'[i].state = rows[i].state
     \/ rows[i].state = "live" /\ rows'[i].state = "ended"

Apart(d) ==
  /\ DOMAIN rows \subseteq DOMAIN rows'
  /\ \A i \in DOMAIN rows : /\ rows'[i].key = rows[i].key
                            /\ rows'[i].by = rows[i].by
                            /\ Stored(i) => Stored(i)'
  /\ \A i \in Mine(d) : Settles(i)
  /\ Mine(d)' = Mine(d)
  /\ errors' <= errors

LEMMA RowTyped ==
  ASSUME TypeOK, NEW i \in DOMAIN rows
  PROVE  /\ rows[i] \in Row /\ i \in Nat
         /\ rows[i].by[1] \in Nat \ {0} /\ rows[i].by[2] \in Nat \ {0}
<1>1. rows[i] \in Row /\ i \in Nat
  BY DEF TypeOK
<1>2. rows[i].by \in (Nat \ {0}) \X (Nat \ {0})
  BY <1>1 DEF Row
<1> QED BY <1>1, <1>2

(* Rows belong to one request, hence to one caller.                        *)
LEMMA OneOwner ==
  ASSUME EnqInv, NEW c \in Caller, NEW d \in Caller, c # d
  PROVE  Mine(c) \cap Mine(d) = {}
<1> SUFFICES ASSUME NEW i \in Mine(c), i \in Mine(d) PROVE FALSE
  OBVIOUS
<1>1. rows[i].by[1] # 0 /\ rows[i].by[1] = unit[c] /\ rows[i].by[1] = unit[d]
  BY RowTyped DEF Mine, EnqInv
<1> QED BY <1>1 DEF EnqInv, UnitsOK

LEMMA OthersStayApart ==
  ASSUME EnqInv, NEW c \in Caller, OwnStep(c), NEW d \in Caller, c # d
  PROVE  Apart(d)
<1>1. /\ RowChange(c) /\ Busy(c) /\ unit[c] # 0 /\ unit' = unit
      /\ errors' <= errors /\ TypeOK /\ rows \in Seq(Row)
  BY StepEffect DEF callerVars, EnqInv, UnitsOK, TypeOK
<1>2. CASE UNCHANGED rows
  BY <1>1, <1>2 DEF Apart, Mine, Stored, Settles
<1>3. CASE InsertsRow(c)
  <2>1. NewRow(c) \in Row /\ NewRow(c).by = <<unit[c], At(c)>>
    BY <1>1, <1>3, NewRowTyped DEF InsertsRow, EnqInv, CallerOK, ControlOK
  <2>2. /\ DOMAIN rows' = DOMAIN rows \cup {Len(rows) + 1}
        /\ rows'[Len(rows) + 1] = NewRow(c)
        /\ \A i \in DOMAIN rows : rows'[i] = rows[i]
    BY <1>1, <1>3, <2>1, AppendRow DEF InsertsRow
  <2>3. unit[c] # unit[d]
    BY <1>1 DEF EnqInv, UnitsOK
  <2>4. Mine(d)' = Mine(d)
    BY <1>1, <2>1, <2>2, <2>3 DEF Mine
  <2> QED BY <1>1, <2>2, <2>4 DEF Apart, Mine, Stored, Settles
<1>4. ASSUME NEW state \in {"live", "gone"}, Becomes(c, state)
      PROVE  Apart(d)
  <2>1. /\ DOMAIN rows' = DOMAIN rows
        /\ \A i \in DOMAIN rows :
             /\ rows'[i].key = rows[i].key /\ rows'[i].by = rows[i].by
             /\ rows'[i].state = IF i \in Mine(c) /\ rows[i].state = "inserted"
                                 THEN state ELSE rows[i].state
    BY <1>1, <1>4, BecomesType
  <2>2. Mine(d)' = Mine(d)
    BY <1>1, <2>1 DEF Mine
  <2>3. \A i \in Mine(d) : i \notin Mine(c) /\ i \in DOMAIN rows
    BY OneOwner DEF Mine
  <2> QED BY <1>1, <2>1, <2>2, <2>3 DEF Apart, Stored, Settles
<1> QED BY <1>1, <1>2, <1>3, <1>4 DEF RowChange

(* What an answer says stays true while the rows of the request are kept.  *)
LEMMA AnswersStay ==
  ASSUME NEW c \in Caller, NEW n, NEW a \in Answer, AnswerHolds(c, n, a),
         UNCHANGED <<req[c], unit[c]>>,
         \A i \in DOMAIN rows : /\ i \in DOMAIN rows'
                                /\ rows'[i].key = rows[i].key
                                /\ rows'[i].by = rows[i].by
                                /\ Keeps(c, i) => Keeps(c, i)'
  PROVE  AnswerHolds(c, n, a)'
<1>1. a.kind \in {"created", "duplicate", "error"}
  BY DEF Answer
<1> QED BY <1>1 DEF AnswerHolds

LEMMA AnswersFrom ==
  ASSUME NEW c \in Caller,
         \A n \in DOMAIN answers'[c] :
           \A a : a = answers'[c][n] => AnswerHolds(c, n, a)'
  PROVE  AnswersOK(c)'
BY DEF AnswersOK, AnswerHolds

(* A request that is not moved on stays as it was.                         *)
LEMMA ApartKeeps ==
  ASSUME TypeOK, TypeOK', NEW d \in Caller, CallerOK(d), Apart(d),
         UNCHANGED <<req[d], unit[d], pc[d], answers[d], outcome[d]>>
  PROVE  CallerOK(d)'
<1>1. /\ At(d)' = At(d) /\ More(d)' = More(d) /\ Params(d)' = Params(d)
      /\ Busy(d)' = Busy(d) /\ Open(d)' = Open(d)
  BY DEF At, More, Params, Busy, Open
<1>2. ControlOK(d)'
  BY <1>1 DEF CallerOK, ControlOK
<1>3. RowsOK(d)'
  <2> SUFFICES ASSUME NEW i \in Mine(d)
               PROVE  /\ Busy(d) => rows'[i].by[2] <= Len(answers[d])
                      /\ req[d].tx /\ Open(d) => rows'[i].state = "inserted"
                      /\ req[d].tx /\ pc[d] = "aborted" => rows'[i].state = "gone"
                      /\ rows'[i].state = "inserted" => req[d].tx /\ Open(d)
    BY <1>1 DEF RowsOK, Apart
  <2> QED BY DEF Apart, Settles, CallerOK, RowsOK
<1>4. \A i \in Mine(d) : Stored(i)' <=> Stored(i)
  BY DEF Apart, Settles, Stored
<1>5. TxOK(d)'
  BY <1>1, <1>4 DEF CallerOK, TxOK, Apart
<1>6. \A i \in DOMAIN rows : Keeps(d, i) => i \in DOMAIN rows' /\ Keeps(d, i)'
  BY DEF Keeps, Apart, Settles, Stored
<1>7. AnswersOK(d)'
  <2> SUFFICES ASSUME Open(d) \/ outcome[d].status = "ok"
               PROVE  AnswersOK(d)'
    BY <1>1 DEF AnswersOK
  <2>1. \A n \in DOMAIN answers[d] :
          answers[d][n] \in Answer /\ AnswerHolds(d, n, answers[d][n])
    BY DEF CallerOK, AnswersOK, TypeOK
  <2>2. \A i \in DOMAIN rows : /\ i \in DOMAIN rows'
                               /\ rows'[i].key = rows[i].key
                               /\ rows'[i].by = rows[i].by
    BY DEF Apart
  <2> QED BY <1>6, <2>1, <2>2, AnswersStay, AnswersFrom
<1>8. /\ \A n : Done(d, n)' = Done(d, n)
      /\ \A k : WithKey(k) \subseteq WithKey(k)'
      /\ \A k : Mine(d)' \cap WithKey(k)' = Mine(d) \cap WithKey(k)
  BY DEF Done, WithKey, Apart, Settles, Mine
<1>9. \A n : Handled(d, n) => Handled(d, n)'
  BY <1>8 DEF Handled
<1>10. /\ errors \in Int /\ errors' \in Int /\ MaxErrors \in Int
       /\ errors' <= errors
  BY EnqueueingAssumption DEF TypeOK, Apart
<1>11. BatchOK(d)'
  <2> SUFFICES ASSUME ~req[d].tx PROVE BatchOK(d)'
    BY DEF BatchOK
  <2>1. BatchOK(d)
    BY DEF CallerOK
  <2>2. Open(d)' => \A n \in 1..Len(answers[d]) : Handled(d, n)'
    BY <1>1, <1>9, <2>1 DEF BatchOK
  <2>3. pc'[d] = "insert" =>
          \A i \in Mine(d)' \cap WithKey(Params(d))' : rows'[i].state # "live"
    BY <1>1, <1>8, <2>1 DEF BatchOK, Apart, Settles
  <2>4. ASSUME outcome'[d].status = "error"
        PROVE  LET at == outcome[d].at IN
               /\ at \in 1..Len(req[d].items)
               /\ \A n \in 1..Len(req[d].items) : n < at => Handled(d, n)'
               /\ \A i \in Mine(d)' : rows'[i].by[2] <= at
               /\ Done(d, at)' # {} => errors' < MaxErrors
               /\ \/ req[d].items[at] = BadParams
                  \/ errors' < MaxErrors
                  \/ \E i \in WithKey(req[d].items[at])' :
                       Stored(i)' /\ i \notin Mine(d)'
    <3> DEFINE at == outcome[d].at
    <3>1. errors < MaxErrors => errors' < MaxErrors
      BY <1>10
    <3>2. \A i \in Mine(d)' : rows'[i].by[2] <= at
      BY <2>1, <2>4 DEF BatchOK, Apart, Settles
    <3>3. \A i \in WithKey(req[d].items[at]) : Stored(i) => Stored(i)'
      BY DEF WithKey, Apart
    <3>4. Mine(d)' = Mine(d)
      BY DEF Apart
    <3> QED BY <1>8, <1>9, <2>1, <2>4, <3>1, <3>2, <3>3, <3>4 DEF BatchOK
  <2> QED BY <2>2, <2>3, <2>4 DEF BatchOK
<1> QED BY <1>2, <1>3, <1>5, <1>7, <1>11 DEF CallerOK

-----------------------------------------------------------------------------
(* The request itself.  A call of a transaction fails, and with it the     *)
(* transaction.                                                            *)
LEMMA TxFails ==
  ASSUME EnqInv, NEW c \in Caller, req[c].tx, More(c), Busy(c),
         Becomes(c, "gone") \/ (pc[c] = "aborted" /\ UNCHANGED rows),
         Say(c, "error", 0), Goto(c, "aborted"), UNCHANGED <<req, unit, outcome>>
  PROVE  CallerOK(c)'
<1>1. /\ TypeOK /\ rows \in Seq(Row) /\ answers[c] \in Seq(Answer)
      /\ ControlOK(c) /\ RowsOK(c) /\ TxOK(c)
  BY DEF EnqInv, CallerOK, TypeOK
<1>2. /\ pc'[c] = "aborted"
      /\ answers'[c] = Append(answers[c], [kind |-> "error", id |-> 0])
      /\ [kind |-> "error", id |-> 0] \in Answer
  BY <1>1, GotoEffect, SayEffect
<1>3. Len(answers'[c]) = Len(answers[c]) + 1 /\ Len(answers[c]) \in Nat
  BY <1>1, <1>2, AppendAnswer
<1>4. At(c) \in 1..Len(req[c].items) /\ At(c) = Len(answers[c]) + 1
  BY <1>1, ParamsTyped
<1>5. /\ Mine(c)' = Mine(c)
      /\ \A i \in Mine(c) : rows'[i].by = rows[i].by /\ rows'[i].state = "gone"
  <2>1. CASE Becomes(c, "gone")
    <3>1. /\ DOMAIN rows' = DOMAIN rows
          /\ \A i \in DOMAIN rows :
               /\ rows'[i].by = rows[i].by
               /\ rows'[i].state = IF i \in Mine(c) /\ rows[i].state = "inserted"
                                   THEN "gone" ELSE rows[i].state
      BY <1>1, <2>1, BecomesType
    <3>2. pc[c] \in {"look", "insert", "aborted"}
      BY <1>1 DEF Busy, TypeOK
    <3>3. \A i \in Mine(c) : rows[i].state \in {"inserted", "gone"}
      BY <1>1, <3>2 DEF RowsOK, Open
    <3> QED BY <3>1, <3>3 DEF Mine
  <2>2. CASE pc[c] = "aborted" /\ UNCHANGED rows
    BY <1>1, <2>2 DEF RowsOK, Mine
  <2> QED BY <2>1, <2>2
<1>6. ControlOK(c)'
  BY <1>1, <1>2, <1>3, <1>4 DEF ControlOK, Busy
<1>7. RowsOK(c)'
  <2>1. \A i \in Mine(c) : rows[i].by[2] \in Nat /\ rows[i].by[2] <= Len(answers[c])
    BY <1>1, RowTyped DEF RowsOK, Mine
  <2> QED BY <1>2, <1>3, <1>5, <2>1 DEF RowsOK, Open
<1>8. TxOK(c)'
  BY <1>1, <1>2, <1>5 DEF TxOK, Open, Stored, ControlOK
<1>9. AnswersOK(c)' /\ BatchOK(c)'
  BY <1>1, <1>2 DEF AnswersOK, BatchOK, Open, ControlOK
<1> QED BY <1>6, <1>7, <1>8, <1>9 DEF CallerOK

(* Rows of a batch on the pool are nobody's secret.                        *)
LEMMA PoolBecomes ==
  ASSUME EnqInv, NEW c \in Caller, ~req[c].tx, Becomes(c, "gone")
  PROVE  /\ DOMAIN rows' = DOMAIN rows
         /\ \A i \in DOMAIN rows : /\ rows'[i].key = rows[i].key
                                   /\ rows'[i].by = rows[i].by
                                   /\ rows'[i].state = rows[i].state
<1>1. \A i \in Mine(c) : rows[i].state # "inserted"
  BY DEF EnqInv, CallerOK, RowsOK
<1>2. rows \in Seq(Row)
  BY DEF EnqInv, TypeOK
<1> QED BY <1>1, <1>2, BecomesType

(* EnqueueMany returns the error of an item.                               *)
LEMMA BatchFails ==
  ASSUME EnqInv, TypeOK', NEW c \in Caller, ~req[c].tx, More(c), Open(c),
         DOMAIN rows' = DOMAIN rows,
         \A i \in DOMAIN rows : /\ rows'[i].key = rows[i].key
                                /\ rows'[i].by = rows[i].by
                                /\ rows'[i].state = rows[i].state,
         errors' <= errors,
         End(c, "error"), UNCHANGED <<req, unit>>,
         \/ Params(c) = BadParams
         \/ errors' < MaxErrors
         \/ \E i \in WithKey(Params(c)) : Stored(i) /\ i \notin Mine(c)
  PROVE  CallerOK(c)'
<1>1. /\ TypeOK /\ rows \in Seq(Row) /\ answers[c] \in Seq(Answer)
      /\ ControlOK(c) /\ RowsOK(c) /\ BatchOK(c)
  BY DEF EnqInv, CallerOK, TypeOK
<1>2. /\ pc'[c] = "idle" /\ answers'[c] = << >>
      /\ outcome'[c] = [status |-> "error", at |-> At(c)]
  BY <1>1, EndEffect
<1>3. /\ At(c) \in 1..Len(req[c].items) /\ At(c) = Len(answers[c]) + 1
      /\ Len(answers[c]) \in Nat /\ Len(req[c].items) \in Nat
  BY <1>1, ParamsTyped DEF TypeOK, Request
<1>4. /\ Mine(c)' = Mine(c)
      /\ \A k : WithKey(k)' = WithKey(k)
      /\ \A n : Done(c, n)' = Done(c, n)
      /\ \A i \in DOMAIN rows : Stored(i)' <=> Stored(i)
  BY DEF Mine, WithKey, Done, Stored
<1>5. \A i \in Mine(c) : rows[i].by[2] \in Nat /\ rows[i].by[2] <= Len(answers[c])
  BY <1>1, RowTyped DEF RowsOK, Mine, Open, Busy
<1>6. \A n \in 1..Len(answers[c]) : Handled(c, n)'
  BY <1>1, <1>4 DEF BatchOK, Handled
<1>7. Done(c, At(c)) = {}
  BY <1>3, <1>5 DEF Done
<1>8. ControlOK(c)' /\ TxOK(c)' /\ AnswersOK(c)'
  BY <1>2, <1>3 DEF ControlOK, Busy, TxOK, AnswersOK, Open
<1>9. RowsOK(c)'
  BY <1>1, <1>2, <1>4 DEF RowsOK, Busy, Open, Mine
<1>10. BatchOK(c)'
  <2>1. req[c].items[At(c)] = Params(c)
    BY DEF Params
  <2>2. \A n \in 1..Len(req[c].items) : n < At(c) => Handled(c, n)'
    BY <1>3, <1>6
  <2>3. \A i \in Mine(c)' : rows'[i].by[2] <= At(c)
    BY <1>3, <1>4, <1>5 DEF Mine
  <2>4. ASSUME NEW k, k = Params(c)
        PROVE  \/ k = BadParams
               \/ errors' < MaxErrors
               \/ \E i \in WithKey(k)' : Stored(i)' /\ i \notin Mine(c)'
    <3>1. WithKey(k) \subseteq DOMAIN rows
      BY DEF WithKey
    <3> QED BY <1>4, <2>4, <3>1
  <2> QED BY <1>2, <1>3, <1>4, <1>7, <2>1, <2>2, <2>3, <2>4 DEF BatchOK, Open
<1> QED BY <1>8, <1>9, <1>10 DEF CallerOK

(* A transaction ends: its rows become live, or are gone, together.        *)
LEMMA TxEnds ==
  ASSUME EnqInv, NEW c \in Caller, req[c].tx, pc[c] \in {"look", "aborted"},
         NEW state \in {"live", "gone"}, Becomes(c, state),
         NEW status \in {"ok", "error", "rolledback"}, End(c, status),
         state = "live" => pc[c] = "look",
         status = "ok" => state = "live",
         status = "rolledback" => state = "gone",
         UNCHANGED <<req, unit>>
  PROVE  CallerOK(c)'
<1>1. /\ TypeOK /\ rows \in Seq(Row) /\ answers[c] \in Seq(Answer)
      /\ ControlOK(c) /\ RowsOK(c) /\ TxOK(c) /\ AnswersOK(c)
  BY DEF EnqInv, CallerOK, TypeOK
<1>2. /\ pc'[c] = "idle"
      /\ answers'[c] = IF status = "ok" THEN answers[c] ELSE << >>
      /\ outcome'[c] = [status |-> status, at |-> At(c)]
  BY <1>1, EndEffect
<1>3. /\ DOMAIN rows' = DOMAIN rows
      /\ \A i \in DOMAIN rows :
           /\ rows'[i].key = rows[i].key /\ rows'[i].by = rows[i].by
           /\ rows'[i].state = IF i \in Mine(c) /\ rows[i].state = "inserted"
                               THEN state ELSE rows[i].state
  BY <1>1, BecomesType
<1>4. Mine(c)' = Mine(c) /\ Mine(c) \subseteq DOMAIN rows
  BY <1>3 DEF Mine
<1>5. \A i \in Mine(c) :
        rows'[i].state = IF pc[c] = "look" THEN state ELSE "gone"
  BY <1>1, <1>3, <1>4 DEF RowsOK, Open
<1>6. ControlOK(c)' /\ RowsOK(c)' /\ BatchOK(c)'
  <2>1. Len(answers'[c]) <= Len(req[c].items)
    <3>1. Len(req[c].items) \in Nat
      BY <1>1 DEF TypeOK, Request
    <3> QED BY <1>1, <1>2, <3>1 DEF ControlOK
  <2>2. ControlOK(c)'
    BY <1>2, <2>1 DEF ControlOK, Busy
  <2>3. RowsOK(c)'
    BY <1>2, <1>4, <1>5 DEF RowsOK, Busy, Open
  <2> QED BY <2>2, <2>3 DEF BatchOK
<1>7. TxOK(c)'
  <2>1. \A i, j \in Mine(c)' : Stored(i)' => Stored(j)'
    BY <1>4, <1>5 DEF Stored
  <2>2. outcome'[c].status = "rolledback" => \A i \in Mine(c)' : ~Stored(i)'
    BY <1>2, <1>4, <1>5 DEF Stored
  <2>3. Open(c)' \/ outcome'[c].status = "ok" =>
          \A n \in DOMAIN answers'[c] :
            answers'[c][n].kind = "error" => req[c].items[n] = BadParams
    BY <1>1, <1>2 DEF Open, TxOK
  <2> QED BY <2>1, <2>2, <2>3 DEF TxOK
<1>8. AnswersOK(c)'
  <2> SUFFICES ASSUME status = "ok"
               PROVE  AnswersOK(c)'
    BY <1>2 DEF AnswersOK, Open
  <2>1. \A n \in DOMAIN answers[c] :
          answers[c][n] \in Answer /\ AnswerHolds(c, n, answers[c][n])
    BY <1>1 DEF AnswersOK, Open
  <2>2. \A i \in DOMAIN rows : /\ i \in DOMAIN rows'
                               /\ rows'[i].key = rows[i].key
                               /\ rows'[i].by = rows[i].by
                               /\ Keeps(c, i) => Keeps(c, i)'
    BY <1>3 DEF Keeps, Stored
  <2> QED BY <1>2, <2>1, <2>2, AnswersStay, AnswersFrom
<1> QED BY <1>6, <1>7, <1>8 DEF CallerOK

(* An item gets its answer, and the request goes on with the next.         *)
LEMMA ItemAnswered ==
  ASSUME EnqInv, NEW c \in Caller, More(c), pc[c] \in {"look", "insert"},
         NEW kind \in {"created", "duplicate", "error"}, NEW id \in Nat,
         Say(c, kind, id), pc'[c] = "look", UNCHANGED <<req, unit, outcome>>,
         kind = "error" => req[c].tx /\ Params(c) = BadParams,
         \* the rows: nothing else than perhaps one more of this item
         DOMAIN rows \subseteq DOMAIN rows',
         \A i \in DOMAIN rows : rows'[i] = rows[i],
         \A i \in DOMAIN rows' \ DOMAIN rows :
           rows'[i].by = <<unit[c], At(c)>> /\ rows'[i].state = InsertedAs(c),
         \* what the answer says
         kind # "error" => id \in DOMAIN rows' /\ Keeps(c, id)',
         kind = "created" => rows'[id].by = <<unit[c], At(c)>>,
         kind = "duplicate" => rows'[id].key = Params(c) /\ Params(c) # NoKey
  PROVE  CallerOK(c)'
<1>1. /\ TypeOK /\ answers[c] \in Seq(Answer)
      /\ ControlOK(c) /\ RowsOK(c) /\ TxOK(c) /\ AnswersOK(c) /\ BatchOK(c)
  BY DEF EnqInv, CallerOK, TypeOK
<1> DEFINE x == [kind |-> kind, id |-> id]
<1>2. answers'[c] = Append(answers[c], x) /\ x \in Answer
  BY <1>1, SayEffect
<1>3. /\ Len(answers'[c]) = Len(answers[c]) + 1 /\ Len(answers[c]) \in Nat
      /\ DOMAIN answers[c] = 1..Len(answers[c])
      /\ DOMAIN answers'[c] = DOMAIN answers[c] \cup {At(c)}
      /\ answers'[c][At(c)] = x
      /\ \A n \in DOMAIN answers[c] : answers'[c][n] = answers[c][n]
  BY <1>1, <1>2, AppendAnswer DEF At
<1>4. At(c) \in 1..Len(req[c].items) /\ At(c) = Len(answers[c]) + 1
  BY <1>1, ParamsTyped
<1>5. /\ Mine(c) \subseteq Mine(c)'
      /\ \A i \in Mine(c)' \ Mine(c) : i \in DOMAIN rows' \ DOMAIN rows
  BY DEF Mine
<1>6. ControlOK(c)'
  BY <1>1, <1>3, <1>4 DEF ControlOK, Busy
<1>7. \A i \in Mine(c) : rows[i].by[2] \in Nat /\ rows[i].by[2] <= Len(answers[c])
  BY <1>1, RowTyped DEF RowsOK, Mine, Busy
<1>8. RowsOK(c)'
  <2> SUFFICES ASSUME NEW i \in Mine(c)'
               PROVE  /\ rows'[i].by[2] <= Len(answers'[c])
                      /\ req[c].tx => rows'[i].state = "inserted"
                      /\ rows'[i].state = "inserted" => req[c].tx
    BY DEF RowsOK, Open
  <2>1. CASE i \in Mine(c)
    BY <1>1, <1>3, <1>7, <2>1 DEF RowsOK, Open, Mine
  <2>2. CASE i \notin Mine(c)
    BY <1>3, <1>4, <1>5, <2>2 DEF InsertedAs
  <2> QED BY <2>1, <2>2
<1>9. TxOK(c)'
  <2> SUFFICES ASSUME req[c].tx PROVE TxOK(c)'
    BY DEF TxOK
  <2>1. \A i \in Mine(c)' : ~Stored(i)'
    BY <1>8 DEF RowsOK, Open, Stored
  <2>2. \A n \in DOMAIN answers'[c] :
          answers'[c][n].kind = "error" => req[c].items[n] = BadParams
    BY <1>1, <1>3 DEF TxOK, Open, Params
  <2> QED BY <2>1, <2>2 DEF TxOK
<1>10. AnswersOK(c)'
  <2>1. \A n \in DOMAIN answers[c] :
          answers[c][n] \in Answer /\ AnswerHolds(c, n, answers[c][n])
    BY <1>1 DEF AnswersOK, Open
  <2>2. \A i \in DOMAIN rows : /\ i \in DOMAIN rows'
                               /\ rows'[i].key = rows[i].key
                               /\ rows'[i].by = rows[i].by
                               /\ Keeps(c, i) => Keeps(c, i)'
    BY <1>5 DEF Keeps, Stored
  <2>3. ASSUME NEW n, NEW a, n = At(c), a = x
        PROVE  AnswerHolds(c, n, a)'
    BY <2>3 DEF AnswerHolds, Params
  <2> QED BY <1>3, <2>1, <2>2, <2>3, AnswersStay, AnswersFrom
<1>11. BatchOK(c)'
  <2> SUFFICES ASSUME ~req[c].tx PROVE BatchOK(c)'
    BY DEF BatchOK
  <2>1. ASSUME NEW n \in 1..Len(answers'[c]) PROVE Handled(c, n)'
    <3>1. CASE n \in 1..Len(answers[c])
      <4>1. Done(c, n) # {} \/ WithKey(req[c].items[n]) # {}
        BY <1>1, <3>1 DEF BatchOK, Handled, Open
      <4>2. Done(c, n) \subseteq Done(c, n)'
        BY <1>5 DEF Done, Mine
      <4>3. \A k : WithKey(k) \subseteq WithKey(k)'
        BY DEF WithKey
      <4> QED BY <4>1, <4>2, <4>3 DEF Handled
    <3>2. CASE n = At(c)
      <4>1. CASE kind = "created"
        BY <3>2, <4>1 DEF Handled, Done, Mine
      <4>2. CASE kind = "duplicate"
        BY <3>2, <4>2 DEF Handled, WithKey, Params
      <4> QED BY <4>1, <4>2
    <3> QED BY <1>3, <1>4, <3>1, <3>2
  <2>2. outcome'[c].status = "none"
    BY <1>1 DEF ControlOK, Busy
  <2> QED BY <2>1, <2>2 DEF BatchOK
<1> QED BY <1>6, <1>8, <1>9, <1>10, <1>11 DEF CallerOK

(* A call returns an error: a transaction is aborted, a batch ends.        *)
LEMMA CallFails ==
  ASSUME EnqInv, TypeOK', NEW c \in Caller, More(c), Busy(c),
         StatementFails(c) \/ (pc[c] = "aborted" /\ UNCHANGED rows /\ Refuse(c, "aborted")),
         UNCHANGED <<req, unit>>, errors' <= errors,
         ~req[c].tx => \/ errors' < MaxErrors
                       \/ \E i \in WithKey(Params(c)) : Stored(i) /\ i \notin Mine(c)
  PROVE  CallerOK(c)'
<1>1. TypeOK /\ ControlOK(c)
  BY DEF EnqInv, CallerOK
<1>2. Refuse(c, "aborted")
  BY DEF StatementFails
<1>3. CASE req[c].tx
  <2>1. Say(c, "error", 0) /\ Goto(c, "aborted") /\ UNCHANGED outcome
    BY <1>1, <1>2, <1>3, RefuseEffect
  <2> QED BY <1>3, <2>1, TxFails DEF StatementFails
<1>4. CASE ~req[c].tx
  <2>1. End(c, "error")
    BY <1>1, <1>2, <1>4, RefuseEffect
  <2>2. Open(c)
    BY <1>1, <1>4 DEF ControlOK, Busy, Open, TypeOK
  <2>3. Becomes(c, "gone")
    BY <2>2 DEF Open, StatementFails
  <2> QED BY <1>4, <2>1, <2>2, <2>3, PoolBecomes, BatchFails
<1> QED BY <1>3, <1>4

LEMMA RefuseParamsKeeps ==
  ASSUME EnqInv, TypeOK', NEW c \in Caller, RefuseParams(c)
  PROVE  CallerOK(c)'
<1>1. /\ TypeOK /\ ControlOK(c) /\ More(c) /\ Params(c) = BadParams
      /\ pc[c] \in {"look", "aborted"} /\ Refuse(c, pc[c])
      /\ UNCHANGED <<rows, req, unit, errors>> /\ Busy(c)
  BY DEF EnqInv, CallerOK, RefuseParams, callerVars, Busy
<1>2. CASE req[c].tx
  <2>1. Say(c, "error", 0) /\ Goto(c, pc[c]) /\ UNCHANGED outcome
    BY <1>1, <1>2, RefuseEffect
  <2>2. CASE pc[c] = "aborted"
    BY <1>1, <1>2, <2>1, <2>2, TxFails
  <2>3. CASE pc[c] = "look"
    <3>1. pc'[c] = "look"
      BY <1>1, <2>1, <2>3, GotoEffect
    <3> QED BY <1>1, <1>2, <2>1, <2>3, <3>1, ItemAnswered
  <2> QED BY <1>1, <2>2, <2>3
<1>3. CASE ~req[c].tx
  <2>1. End(c, "error") /\ Open(c)
    BY <1>1, <1>3, RefuseEffect DEF ControlOK, Open
  <2>2. errors' <= errors
    BY <1>1, EnqueueingAssumption DEF TypeOK
  <2> QED BY <1>1, <1>3, <2>1, <2>2, BatchFails
<1> QED BY <1>2, <1>3

LEMMA FindDuplicateKeeps ==
  ASSUME EnqInv, NEW c \in Caller, FindDuplicate(c)
  PROVE  CallerOK(c)'
<1>1. /\ TypeOK /\ More(c) /\ Params(c) \in Key /\ pc[c] = "look"
      /\ UNCHANGED <<rows, req, unit, pc, outcome>>
  BY DEF EnqInv, FindDuplicate, callerVars
<1>2. PICK i \in Found(c) : Say(c, "duplicate", i)
  BY DEF FindDuplicate
<1>3. /\ i \in DOMAIN rows /\ i \in Nat /\ rows[i].key = Params(c)
      /\ Params(c) # NoKey /\ Keeps(c, i)
  BY <1>1, <1>2 DEF Found, WithKey, Visible, Keeps, Stored, TypeOK
<1>4. Keeps(c, i)'
  BY <1>1, <1>3 DEF Keeps, Stored, Mine
<1> QED BY <1>1, <1>2, <1>3, <1>4, ItemAnswered

LEMMA FindNoneKeeps ==
  ASSUME EnqInv, NEW c \in Caller, FindNone(c)
  PROVE  CallerOK(c)'
<1>1. /\ TypeOK /\ CallerOK(c) /\ More(c) /\ Params(c) # BadParams
      /\ pc[c] = "look" /\ Found(c) = {}
      /\ UNCHANGED <<rows, req, unit, answers, outcome, errors>>
  BY DEF EnqInv, FindNone, callerVars
<1>2. pc'[c] = "insert"
  BY <1>1, GotoEffect DEF FindNone
<1>3. /\ Mine(c)' = Mine(c) /\ At(c)' = At(c) /\ Params(c)' = Params(c)
      /\ More(c)' = More(c) /\ WithKey(Params(c))' = WithKey(Params(c))
      /\ Open(c)' = Open(c) /\ Busy(c)' = Busy(c)
  BY <1>1, <1>2 DEF Mine, At, Params, More, WithKey, Open, Busy
<1>4. \A i \in Mine(c) \cap WithKey(Params(c)) : rows[i].state # "live"
  BY <1>1 DEF Found, Visible
<1>5. ControlOK(c)' /\ RowsOK(c)'
  BY <1>1, <1>2, <1>3 DEF CallerOK, ControlOK, RowsOK
<1>6. TxOK(c)'
  BY <1>1, <1>3 DEF CallerOK, TxOK, Stored
<1>7. AnswersOK(c)'
  BY <1>1, <1>3 DEF CallerOK, AnswersOK, AnswerHolds, Keeps, Stored
<1>8. BatchOK(c)'
  <2>1. outcome'[c].status = "none"
    BY <1>1 DEF CallerOK, ControlOK, Busy
  <2>2. \A n : Handled(c, n) => Handled(c, n)'
    BY <1>1, <1>3 DEF Handled, Done, WithKey
  <2> QED BY <1>1, <1>2, <1>3, <1>4, <2>1, <2>2 DEF CallerOK, BatchOK, Open
<1> QED BY <1>5, <1>6, <1>7, <1>8 DEF CallerOK

LEMMA InsertKeeps ==
  ASSUME EnqInv, NEW c \in Caller, Insert(c)
  PROVE  CallerOK(c)'
<1>1. /\ TypeOK /\ pc[c] = "insert" /\ More(c) /\ Params(c) # BadParams
      /\ unit[c] # 0 /\ unit[c] \in Nat
      /\ UNCHANGED <<req, unit, outcome>>
      /\ rows' = Append(rows, NewRow(c)) /\ rows \in Seq(Row)
      /\ Say(c, "created", Len(rows) + 1) /\ Goto(c, "look")
  BY EnqueueingAssumption DEF EnqInv, CallerOK, ControlOK, UnitsOK, Busy, Insert,
     callerVars, TypeOK
<1>2. pc'[c] = "look"
  BY <1>1, GotoEffect
<1>3. /\ NewRow(c) \in Row /\ NewRow(c).state = InsertedAs(c)
      /\ NewRow(c).by = <<unit[c], At(c)>>
  BY <1>1, NewRowTyped
<1> DEFINE id == Len(rows) + 1
<1>4. /\ DOMAIN rows' = DOMAIN rows \cup {id} /\ id \notin DOMAIN rows
      /\ id \in Nat /\ rows'[id] = NewRow(c)
      /\ \A i \in DOMAIN rows : rows'[i] = rows[i]
  BY <1>1, <1>3, AppendRow
<1>5. id \in Mine(c)'
  BY <1>1, <1>3, <1>4 DEF Mine
<1>6. ASSUME NEW i, i = id PROVE Keeps(c, i)'
  BY <1>3, <1>4, <1>5, <1>6 DEF Keeps, Stored, InsertedAs
<1>7. ASSUME NEW i, i = id
      PROVE  CallerOK(c)'
  <2>1. /\ Say(c, "created", i) /\ i \in Nat /\ i \in DOMAIN rows' /\ Keeps(c, i)'
        /\ rows'[i].by = <<unit[c], At(c)>>
        /\ DOMAIN rows \subseteq DOMAIN rows'
    BY <1>1, <1>3, <1>4, <1>6, <1>7
  <2>2. \A j \in DOMAIN rows' \ DOMAIN rows :
          rows'[j].by = <<unit[c], At(c)>> /\ rows'[j].state = InsertedAs(c)
    BY <1>3, <1>4
  <2> QED BY <1>1, <1>2, <1>4, <2>1, <2>2, ItemAnswered
<1> QED BY <1>7

(* A batch is refused its INSERT only for a row of somebody else.          *)
LEMMA InsertRefusedKeeps ==
  ASSUME EnqInv, TypeOK', NEW c \in Caller, InsertRefused(c)
  PROVE  CallerOK(c)'
<1>1. /\ TypeOK /\ CallerOK(c) /\ pc[c] = "insert" /\ More(c) /\ Busy(c)
      /\ Found(c) # {} /\ StatementFails(c) /\ UNCHANGED <<req, unit, errors>>
  BY DEF EnqInv, CallerOK, ControlOK, InsertRefused, Violates, callerVars, Busy
<1>2. ASSUME ~req[c].tx
      PROVE  \E i \in WithKey(Params(c)) : Stored(i) /\ i \notin Mine(c)
  <2>1. PICK i \in WithKey(Params(c)) : Visible(c, i)
    BY <1>1 DEF Found
  <2>2. rows[i].state = "live"
    BY <1>1, <1>2, <2>1 DEF Visible, CallerOK, RowsOK
  <2>3. i \notin Mine(c)
    BY <1>1, <1>2, <2>2 DEF CallerOK, BatchOK
  <2> QED BY <2>2, <2>3 DEF Stored
<1>3. errors' <= errors
  BY <1>1, EnqueueingAssumption DEF TypeOK
<1> QED BY <1>1, <1>2, <1>3, CallFails

(* Only a transaction holds a key that another INSERT waits for.           *)
LEMMA DeadlockVictimKeeps ==
  ASSUME EnqInv, TypeOK', NEW c \in Caller, DeadlockVictim(c)
  PROVE  CallerOK(c)'
<1>1. /\ TypeOK /\ CallerOK(c) /\ pc[c] = "insert" /\ More(c) /\ Busy(c)
      /\ InCycle(c) /\ StatementFails(c) /\ UNCHANGED <<req, unit, errors>>
  BY DEF EnqInv, CallerOK, ControlOK, DeadlockVictim, callerVars, Busy
<1>2. req[c].tx
  <2>1. PICK S \in SUBSET {d \in Caller : pc[d] = "insert"} :
               c \in S /\ UNION {WaitsFor(d) : d \in S} = S
    BY <1>1 DEF InCycle
  <2>2. PICK d \in S : c \in WaitsFor(d)
    BY <2>1
  <2>3. PICK i \in Mine(c) : i \in Blockers(d)
    BY <2>2 DEF WaitsFor
  <2> QED BY <1>1, <2>3 DEF Blockers, CallerOK, RowsOK
<1>3. errors' <= errors
  BY <1>1, EnqueueingAssumption DEF TypeOK
<1> QED BY <1>1, <1>2, <1>3, CallFails

LEMMA AbortedCallKeeps ==
  ASSUME EnqInv, TypeOK', NEW c \in Caller, AbortedCall(c)
  PROVE  CallerOK(c)'
<1>1. /\ TypeOK /\ pc[c] = "aborted" /\ More(c) /\ Busy(c) /\ req[c].tx
      /\ Refuse(c, "aborted") /\ UNCHANGED <<rows, req, unit, errors>>
  BY DEF EnqInv, CallerOK, ControlOK, AbortedCall, callerVars, Busy
<1>2. errors' <= errors
  BY <1>1, EnqueueingAssumption DEF TypeOK
<1> QED BY <1>1, <1>2, CallFails

LEMMA ReturnKeeps ==
  ASSUME EnqInv, NEW c \in Caller, Return(c)
  PROVE  CallerOK(c)'
<1>1. /\ TypeOK /\ CallerOK(c) /\ pc[c] = "look" /\ ~req[c].tx
      /\ End(c, "ok") /\ UNCHANGED <<rows, req, unit>>
  BY DEF EnqInv, Return, callerVars
<1>2. /\ pc'[c] = "idle" /\ answers'[c] = answers[c]
      /\ outcome'[c].status = "ok"
  <2>1. ASSUME NEW status \in {"ok", "error", "rolledback"}, End(c, status), status = "ok"
        PROVE  /\ pc'[c] = "idle" /\ answers'[c] = answers[c]
               /\ outcome'[c] = [status |-> status, at |-> At(c)]
    BY <1>1, <2>1, EndEffect
  <2> QED BY <1>1, <2>1
<1>3. Mine(c)' = Mine(c) /\ Open(c) /\ ~Open(c)' /\ ~Busy(c)'
  BY <1>1, <1>2 DEF Mine, Open, Busy
<1>4. ControlOK(c)' /\ RowsOK(c)'
  BY <1>1, <1>2, <1>3 DEF CallerOK, ControlOK, RowsOK
<1>5. AnswersOK(c)'
  BY <1>1, <1>2, <1>3 DEF CallerOK, AnswersOK, AnswerHolds, Keeps, Stored
<1> QED BY <1>1, <1>2, <1>3, <1>4, <1>5 DEF CallerOK, TxOK, BatchOK

LEMMA TxEndsKeeps ==
  ASSUME EnqInv, NEW c \in Caller, Commit(c) \/ Rollback(c) \/ LoseCommit(c)
  PROVE  CallerOK(c)'
<1>1. req[c].tx /\ pc[c] \in {"look", "aborted"} /\ UNCHANGED <<req, unit>>
  BY DEF Commit, Rollback, LoseCommit, callerVars
<1>2. CASE Commit(c)
  <2>1. CASE pc[c] = "look"
    BY <1>1, <1>2, <2>1, TxEnds DEF Commit
  <2>2. CASE pc[c] # "look"
    BY <1>1, <1>2, <2>2, TxEnds DEF Commit
  <2> QED BY <2>1, <2>2
<1>3. CASE Rollback(c)
  BY <1>1, <1>3, TxEnds DEF Rollback
<1>4. CASE LoseCommit(c)
  <2>1. PICK state \in {"live", "gone"} : Becomes(c, state)
    BY <1>4 DEF LoseCommit
  <2>2. pc[c] = "look" /\ End(c, "error")
    BY <1>4 DEF LoseCommit
  <2> QED BY <1>1, <2>1, <2>2, TxEnds
<1> QED BY <1>2, <1>3, <1>4

(* The INSERT of a batch is carried out, but its answer is lost.           *)
LEMMA LostInsert ==
  ASSUME EnqInv, TypeOK', NEW c \in Caller, ~req[c].tx, More(c), InsertsRow(c),
         End(c, "error"), UNCHANGED <<req, unit>>, errors' < MaxErrors
  PROVE  CallerOK(c)'
<1>1. /\ TypeOK /\ CallerOK(c) /\ pc[c] = "insert" /\ Params(c) # BadParams
      /\ unit[c] # 0 /\ rows \in Seq(Row) /\ Open(c) /\ Busy(c)
  BY DEF EnqInv, CallerOK, ControlOK, UnitsOK, InsertsRow, Busy, Open, TypeOK
<1>2. /\ pc'[c] = "idle" /\ answers'[c] = << >>
      /\ outcome'[c] = [status |-> "error", at |-> At(c)]
  BY <1>1, EndEffect
<1>3. /\ At(c) \in 1..Len(req[c].items) /\ At(c) = Len(answers[c]) + 1
      /\ Len(answers[c]) \in Nat /\ Len(req[c].items) \in Nat
  BY <1>1, ParamsTyped DEF TypeOK, Request
<1>4. /\ NewRow(c) \in Row /\ NewRow(c).state = "live"
      /\ NewRow(c).by = <<unit[c], At(c)>>
  BY <1>1, NewRowTyped DEF InsertedAs
<1>5. /\ DOMAIN rows' = DOMAIN rows \cup {Len(rows) + 1}
      /\ rows'[Len(rows) + 1] = NewRow(c)
      /\ \A i \in DOMAIN rows : rows'[i] = rows[i]
  BY <1>1, <1>4, AppendRow DEF InsertsRow
<1>6. Mine(c) \subseteq Mine(c)'
      /\ \A i \in Mine(c)' : i \in Mine(c) \/ i = Len(rows) + 1
  BY <1>5 DEF Mine
<1>7. \A i \in Mine(c) : rows[i].by[2] \in Nat /\ rows[i].by[2] <= Len(answers[c])
  BY <1>1, RowTyped DEF CallerOK, RowsOK, Mine
<1>8. ControlOK(c)' /\ TxOK(c)' /\ AnswersOK(c)'
  BY <1>2, <1>3 DEF ControlOK, Busy, TxOK, AnswersOK, Open
<1>9. RowsOK(c)'
  BY <1>1, <1>2, <1>4, <1>5, <1>6 DEF CallerOK, RowsOK, Busy, Open, Mine
<1>10. BatchOK(c)'
  <2>1. \A n \in 1..Len(req[c].items) : n < At(c) => Handled(c, n)'
    <3>1. \A n \in 1..Len(answers[c]) : Handled(c, n)
      BY <1>1 DEF CallerOK, BatchOK
    <3>2. \A n : Done(c, n) \subseteq Done(c, n)'
      BY <1>5, <1>6 DEF Done, Mine
    <3>3. \A k : WithKey(k) \subseteq WithKey(k)'
      BY <1>5 DEF WithKey
    <3>4. \A n : Handled(c, n) => Handled(c, n)'
      BY <3>2, <3>3 DEF Handled
    <3> QED BY <1>3, <3>1, <3>4
  <2>2. \A i \in Mine(c)' : rows'[i].by[2] <= At(c)
    BY <1>3, <1>4, <1>5, <1>6, <1>7 DEF Mine
  <2> QED BY <1>2, <1>3, <2>1, <2>2 DEF BatchOK, Open
<1> QED BY <1>8, <1>9, <1>10 DEF CallerOK

LEMMA LoseStatementKeeps ==
  ASSUME EnqInv, TypeOK', NEW c \in Caller, LoseStatement(c)
  PROVE  CallerOK(c)'
<1>1. /\ TypeOK /\ More(c) /\ Busy(c) /\ UNCHANGED <<req, unit>>
      /\ errors > 0 /\ errors' = errors - 1
  BY DEF EnqInv, LoseStatement, callerVars, Busy
<1>2. errors' <= errors /\ errors' < MaxErrors
  BY <1>1, EnqueueingAssumption DEF TypeOK
<1>3. CASE StatementFails(c)
  BY <1>1, <1>2, <1>3, CallFails
<1>4. CASE ~req[c].tx /\ InsertsRow(c) /\ Refuse(c, "aborted")
  <2>1. End(c, "error")
    BY <1>1, <1>4, RefuseEffect
  <2> QED BY <1>1, <1>2, <1>4, <2>1, LostInsert
<1> QED BY <1>3, <1>4 DEF LoseStatement, InsertsRow

LEMMA OwnStepKeeps ==
  ASSUME EnqInv, NEW c \in Caller, OwnStep(c)
  PROVE  TypeOK' /\ \A d \in Caller : CallerOK(d)'
<1>1. TypeOK /\ TypeOK' /\ Alone(c)
  BY StepEffect DEF EnqInv
<1>2. CallerOK(c)'
  BY <1>1, RefuseParamsKeeps, FindDuplicateKeeps, FindNoneKeeps, InsertKeeps,
     InsertRefusedKeeps, DeadlockVictimKeeps, AbortedCallKeeps, ReturnKeeps,
     TxEndsKeeps, LoseStatementKeeps DEF OwnStep, Step
<1>3. ASSUME NEW d \in Caller, d # c PROVE CallerOK(d)'
  <2>1. Apart(d)
    BY <1>3, OthersStayApart
  <2>2. CallerOK(d)
    BY DEF EnqInv
  <2>3. UNCHANGED <<req[d], unit[d], pc[d], answers[d], outcome[d]>>
    BY <1>1, <1>3 DEF Alone
  <2> QED BY <1>1, <2>1, <2>2, <2>3, ApartKeeps
<1> QED BY <1>1, <1>2, <1>3

-----------------------------------------------------------------------------
(* The other steps, which concern no row of an unfinished request.         *)
LEMMA BeginKeeps ==
  ASSUME EnqInv, NEW c \in Caller, NEW r \in Makes[c], Begin(c, r)
  PROVE  TypeOK' /\ \A d \in Caller : CallerOK(d)'
<1>1. /\ TypeOK /\ UnitsOK /\ pc[c] = "idle" /\ count < MaxRequests
      /\ req' = [req EXCEPT ![c] = r] /\ count' = count + 1
      /\ unit' = [unit EXCEPT ![c] = count + 1]
      /\ answers' = [answers EXCEPT ![c] = << >>]
      /\ outcome' = [outcome EXCEPT ![c] = NoOutcome]
      /\ Goto(c, "look") /\ UNCHANGED <<rows, errors>>
  BY DEF EnqInv, Begin
<1>2. /\ r \in Request /\ count \in Nat /\ MaxRequests \in Nat /\ errors \in Int
      /\ unit \in [Caller -> Nat]
  <2>1. r \in Request
    BY EnqueueingAssumption
  <2>2. MaxRequests \in Nat /\ MaxErrors \in Nat
    BY EnqueueingAssumption
  <2>3. count \in Nat /\ errors \in Int /\ 0..count \subseteq Nat
    BY <1>1, <2>2 DEF TypeOK
  <2> QED BY <1>1, <2>1, <2>2, <2>3 DEF TypeOK
<1>3. /\ pc' \in [Caller -> {"idle", "look", "insert", "aborted"}] /\ pc'[c] = "look"
      /\ \A d \in Caller \ {c} : pc'[d] = pc[d]
  BY <1>1, GotoEffect
<1>4. /\ req'[c] = r /\ unit'[c] = count + 1 /\ answers'[c] = << >>
      /\ outcome'[c] = NoOutcome
      /\ \A d \in Caller \ {c} :
           UNCHANGED <<req[d], unit[d], answers[d], outcome[d]>>
  BY <1>1 DEF TypeOK
<1>5. TypeOK'
  <2>1. << >> \in Seq(Answer)
    OBVIOUS
  <2>2. NoOutcome \in [status : {"none", "ok", "error", "rolledback"}, at : Nat]
    BY DEF NoOutcome
  <2>3. req' \in [Caller -> Request] /\ answers' \in [Caller -> Seq(Answer)]
    BY <1>1, <1>2, <2>1 DEF TypeOK
  <2>4. outcome' \in [Caller -> [status : {"none", "ok", "error", "rolledback"},
                                 at : Nat]]
    BY <1>1, <2>2 DEF TypeOK
  <2>5. count' \in 0..MaxRequests /\ unit' \in [Caller -> 0..count']
    BY <1>1, <1>2, EnqueueingAssumption DEF TypeOK
  <2> QED BY <1>1, <1>3, <2>3, <2>4, <2>5 DEF TypeOK
<1>6. Mine(c)' = {}
  <2>1. \A i \in DOMAIN rows : rows[i].by[1] \in Nat /\ rows[i].by[1] <= count
    BY <1>1, RowTyped DEF UnitsOK
  <2> QED BY <1>1, <1>2, <1>4, <2>1 DEF Mine
<1>7. CallerOK(c)'
  <2>1. r.items \in Seq(Item)
    BY <1>2 DEF Request
  <2>2. Len(r.items) \in Nat /\ Len(answers'[c]) = 0 /\ DOMAIN answers'[c] = {}
    BY <1>4, <2>1
  <2>3. outcome'[c].status = "none"
    BY <1>4 DEF NoOutcome
  <2>4. ControlOK(c)'
    BY <1>3, <1>4, <2>2, <2>3 DEF ControlOK
  <2>5. RowsOK(c)' /\ TxOK(c)' /\ AnswersOK(c)'
    BY <1>6, <2>2, <2>3 DEF RowsOK, TxOK, AnswersOK
  <2>6. BatchOK(c)'
    BY <1>3, <2>2, <2>3 DEF BatchOK
  <2> QED BY <2>4, <2>5, <2>6 DEF CallerOK
<1>8. ASSUME NEW d \in Caller, d # c PROVE CallerOK(d)'
  <2>1. Apart(d)
    BY <1>1, <1>2, <1>4, <1>8 DEF Apart, Mine, Stored, Settles
  <2>2. CallerOK(d) /\ UNCHANGED <<req[d], unit[d], pc[d], answers[d], outcome[d]>>
    BY <1>3, <1>4, <1>8 DEF EnqInv
  <2> QED BY <1>1, <1>5, <2>1, <2>2, ApartKeeps
<1> QED BY <1>5, <1>7, <1>8

LEMMA JobEndsEffect ==
  ASSUME TypeOK, NEW i \in DOMAIN rows, JobEnds(i)
  PROVE  /\ TypeOK' /\ DOMAIN rows' = DOMAIN rows
         /\ \A j \in DOMAIN rows :
              /\ rows'[j].key = rows[j].key /\ rows'[j].by = rows[j].by
              /\ rows'[j].state = IF j = i THEN "ended" ELSE rows[j].state
         /\ rows[i].state = "live"
         /\ UNCHANGED <<callerVars, pc, answers, outcome, errors>>
<1>1. \A j \in DOMAIN rows : rows[j] \in Row
  BY DEF TypeOK
<1>2. /\ rows' = [rows EXCEPT ![i].state = "ended"] /\ rows[i].state = "live"
      /\ UNCHANGED <<callerVars, pc, answers, outcome, errors>>
  BY DEF JobEnds
<1>3. /\ DOMAIN rows' = DOMAIN rows
      /\ \A j \in DOMAIN rows :
           rows'[j] = IF j = i THEN [rows[j] EXCEPT !.state = "ended"] ELSE rows[j]
  BY <1>2 DEF TypeOK
<1>4. \A j \in DOMAIN rows :
        /\ rows'[j] \in Row
        /\ rows'[j].key = rows[j].key /\ rows'[j].by = rows[j].by
        /\ rows'[j].state = IF j = i THEN "ended" ELSE rows[j].state
  BY <1>1, <1>3 DEF Row
<1>5. rows' \in Seq(Row)
  <2>1. DOMAIN rows = 1..Len(rows) /\ Len(rows) \in Nat
    BY DEF TypeOK
  <2>2. rows' \in [1..Len(rows) -> Row]
    BY <1>2, <1>3, <1>4, <2>1 DEF TypeOK
  <2> QED BY <2>1, <2>2
<1> QED BY <1>2, <1>3, <1>4, <1>5 DEF TypeOK, callerVars

LEMMA JobEndsKeeps ==
  ASSUME EnqInv, NEW i \in DOMAIN rows, JobEnds(i)
  PROVE  TypeOK' /\ \A d \in Caller : CallerOK(d)'
<1>1. /\ TypeOK /\ TypeOK' /\ DOMAIN rows' = DOMAIN rows /\ errors \in Int
      /\ \A j \in DOMAIN rows :
           /\ rows'[j].key = rows[j].key /\ rows'[j].by = rows[j].by
           /\ rows'[j].state = IF j = i THEN "ended" ELSE rows[j].state
      /\ rows[i].state = "live"
      /\ UNCHANGED <<callerVars, pc, answers, outcome, errors>>
  BY JobEndsEffect, EnqueueingAssumption DEF EnqInv, TypeOK
<1>2. ASSUME NEW d \in Caller PROVE CallerOK(d)'
  <2>1. Apart(d)
    BY <1>1 DEF Apart, Mine, Stored, Settles, callerVars
  <2>2. CallerOK(d) /\ UNCHANGED <<req[d], unit[d], pc[d], answers[d], outcome[d]>>
    BY <1>1 DEF EnqInv, callerVars
  <2> QED BY <1>1, <2>1, <2>2, ApartKeeps
<1> QED BY <1>1, <1>2

-----------------------------------------------------------------------------
(* Requests keep their numbers and rows, and keys stay unique.             *)
LEMMA UnitsKept ==
  ASSUME EnqInv, [Next]_vars
  PROVE  UnitsOK'
<1>1. /\ TypeOK /\ UnitsOK /\ rows \in Seq(Row) /\ count \in Nat
      /\ \A d \in Caller : unit[d] \in Nat /\ unit[d] <= count
  <2>1. TypeOK /\ MaxRequests \in Nat
    BY EnqueueingAssumption DEF EnqInv
  <2>2. count \in Nat
    BY <2>1 DEF TypeOK
  <2> QED BY <2>1, <2>2 DEF TypeOK, EnqInv
<1>2. ASSUME NEW c \in Caller, OwnStep(c) PROVE UnitsOK'
  <2>1. /\ RowChange(c) /\ Alone(c) /\ Busy(c) /\ UNCHANGED <<unit, count>>
        /\ unit[c] # 0
    BY <1>1, <1>2, StepEffect DEF callerVars, UnitsOK
  <2>2. \A i \in DOMAIN rows' : rows'[i].by[1] <= count
    <3>1. CASE UNCHANGED rows
      BY <1>1, <3>1 DEF UnitsOK
    <3>2. CASE InsertsRow(c)
      <4>1. NewRow(c) \in Row /\ NewRow(c).by = <<unit[c], At(c)>>
        BY <1>1, <2>1, <3>2, NewRowTyped DEF InsertsRow, EnqInv, CallerOK, ControlOK
      <4> QED BY <1>1, <3>2, <4>1, AppendRow DEF InsertsRow, UnitsOK
    <3>3. ASSUME NEW state \in {"live", "gone"}, Becomes(c, state)
          PROVE  \A i \in DOMAIN rows' : rows'[i].by[1] <= count
      BY <1>1, <3>3, BecomesType DEF UnitsOK
    <3> QED BY <2>1, <3>1, <3>2, <3>3 DEF RowChange
  <2>3. \A d \in Caller : Busy(d)' => unit[d] # 0
    BY <1>1, <2>1 DEF UnitsOK, Busy, Alone
  <2> QED BY <1>1, <2>1, <2>2, <2>3 DEF UnitsOK
<1>3. ASSUME NEW c \in Caller, NEW r \in Makes[c], Begin(c, r) PROVE UnitsOK'
  <2>1. /\ count' = count + 1 /\ unit' = [unit EXCEPT ![c] = count + 1]
        /\ UNCHANGED rows /\ Goto(c, "look")
    BY <1>3 DEF Begin
  <2>2. unit'[c] = count + 1 /\ \A d \in Caller \ {c} : unit'[d] = unit[d]
    BY <1>1, <2>1 DEF TypeOK
  <2>3. \A d \in Caller \ {c} : pc'[d] = pc[d]
    BY <1>1, <2>1, GotoEffect
  <2>4. \A i \in DOMAIN rows : rows[i].by[1] \in Nat
    BY <1>1, RowTyped
  <2> QED BY <1>1, <2>1, <2>2, <2>3, <2>4 DEF UnitsOK, Busy
<1>4. ASSUME NEW i \in DOMAIN rows, JobEnds(i) PROVE UnitsOK'
  <2>1. /\ DOMAIN rows' = DOMAIN rows
        /\ \A j \in DOMAIN rows : rows'[j].by = rows[j].by
        /\ UNCHANGED <<unit, count, pc>>
    BY <1>1, <1>4, JobEndsEffect DEF callerVars
  <2> QED BY <1>1, <2>1 DEF UnitsOK, Busy
<1>5. CASE UNCHANGED vars
  BY <1>1, <1>5 DEF vars, UnitsOK, Busy
<1> QED BY <1>2, <1>3, <1>4, <1>5 DEF Next, OwnStep

LEMMA KeysKept ==
  ASSUME EnqInv, [Next]_vars
  PROVE  KeysOK'
<1> DEFINE Holds(i) == rows[i].key # NoKey /\ rows[i].state \in {"live", "inserted"}
<1>1. TypeOK /\ KeysOK /\ rows \in Seq(Row)
  BY DEF EnqInv, TypeOK
<1>2. ASSUME DOMAIN rows' = DOMAIN rows,
             \A i \in DOMAIN rows :
               /\ rows'[i].key = rows[i].key
               /\ rows'[i].state \in {"live", "inserted"}
                  => rows[i].state \in {"live", "inserted"}
      PROVE  KeysOK'
  BY <1>1, <1>2 DEF KeysOK
<1>3. ASSUME NEW c \in Caller, OwnStep(c) PROVE KeysOK'
  <2>1. RowChange(c) /\ Busy(c) /\ unit[c] # 0
    BY <1>3, StepEffect DEF EnqInv, UnitsOK
  <2>2. CASE UNCHANGED rows
    BY <1>2, <2>2
  <2>3. CASE InsertsRow(c)
    <3>1. NewRow(c) \in Row /\ NewRow(c).key = Params(c)
      BY <1>1, <2>1, <2>3, NewRowTyped DEF InsertsRow, EnqInv, CallerOK, ControlOK
    <3>2. /\ DOMAIN rows' = DOMAIN rows \cup {Len(rows) + 1}
          /\ rows'[Len(rows) + 1] = NewRow(c)
          /\ \A i \in DOMAIN rows : rows'[i] = rows[i]
      BY <1>1, <2>3, <3>1, AppendRow DEF InsertsRow
    <3>3. ASSUME NEW i \in DOMAIN rows, Holds(i) PROVE rows[i].key # Params(c)
      <4> SUFFICES ASSUME rows[i].key = Params(c) PROVE FALSE
        OBVIOUS
      <4>1. i \in WithKey(Params(c))
        BY <3>3 DEF WithKey
      <4>2. Visible(c, i) \/ i \in Blockers(c)
        BY <3>3, <4>1 DEF Visible, Blockers
      <4> QED BY <2>3, <4>1, <4>2 DEF InsertsRow, Violates, Found
    <3> QED BY <1>1, <3>1, <3>2, <3>3 DEF KeysOK
  <2>4. ASSUME NEW state \in {"live", "gone"}, Becomes(c, state) PROVE KeysOK'
    BY <1>1, <1>2, <2>4, BecomesType
  <2> QED BY <2>1, <2>2, <2>3, <2>4 DEF RowChange
<1>4. ASSUME NEW i \in DOMAIN rows, JobEnds(i) PROVE KeysOK'
  BY <1>1, <1>2, <1>4, JobEndsEffect
<1>5. ASSUME NEW c \in Caller, NEW r \in Makes[c], Begin(c, r) PROVE KeysOK'
  BY <1>2, <1>5 DEF Begin
<1>6. CASE UNCHANGED vars
  BY <1>2, <1>6 DEF vars
<1> QED BY <1>3, <1>4, <1>5, <1>6 DEF Next, OwnStep

LEMMA EnqInit == Init => EnqInv
<1> SUFFICES ASSUME Init PROVE EnqInv
  OBVIOUS
<1>1. /\ rows = << >> /\ rows \in Seq(Row) /\ DOMAIN rows = {} /\ << >> \in Seq(Answer)
  BY DEF Init
<1>2. ASSUME NEW c \in Caller
      PROVE  /\ req[c] \in Request /\ unit[c] = 0 /\ pc[c] = "idle"
             /\ answers[c] = << >> /\ outcome[c] = NoOutcome
  <2>1. (CHOOSE r \in Makes[c] : TRUE) \in Makes[c]
    BY EnqueueingAssumption
  <2>2. (CHOOSE r \in Makes[c] : TRUE) \in Request
    BY <2>1, EnqueueingAssumption
  <2> QED BY <2>2 DEF Init
<1>3. NoOutcome \in [status : {"none", "ok", "error", "rolledback"}, at : Nat]
      /\ NoOutcome.status = "none"
  BY DEF NoOutcome
<1>4. TypeOK
  <2>1. MaxRequests \in Nat /\ MaxErrors \in Nat
    BY EnqueueingAssumption
  <2>2. req \in [Caller -> Request]
    BY <1>2 DEF Init
  <2> QED BY <1>1, <1>3, <2>1, <2>2 DEF Init, TypeOK
<1>5. UnitsOK /\ KeysOK
  BY <1>1, <1>2 DEF UnitsOK, KeysOK, Busy
<1>6. ASSUME NEW c \in Caller PROVE CallerOK(c)
  <2>1. Mine(c) = {}
    BY <1>1 DEF Mine
  <2>2. Len(answers[c]) = 0 /\ DOMAIN answers[c] = {} /\ Len(req[c].items) \in Nat
    BY <1>2 DEF Request
  <2> QED BY <1>2, <1>3, <2>1, <2>2 DEF CallerOK, ControlOK, RowsOK, TxOK, AnswersOK,
          BatchOK, Busy, Open
<1> QED BY <1>4, <1>5, <1>6 DEF EnqInv

LEMMA EnqNext == EnqInv /\ [Next]_vars => EnqInv'
<1> SUFFICES ASSUME EnqInv, [Next]_vars PROVE EnqInv'
  OBVIOUS
<1>1. ASSUME UNCHANGED vars PROVE TypeOK' /\ \A d \in Caller : CallerOK(d)'
  <2>1. TypeOK /\ TypeOK'
    BY <1>1 DEF EnqInv, TypeOK, vars
  <2>2. ASSUME NEW d \in Caller PROVE CallerOK(d)'
    <3>1. Apart(d)
      BY <1>1, <2>1, EnqueueingAssumption DEF vars, Apart, Mine, Stored, Settles, TypeOK
    <3>2. CallerOK(d) /\ UNCHANGED <<req[d], unit[d], pc[d], answers[d], outcome[d]>>
      BY <1>1 DEF EnqInv, vars
    <3> QED BY <2>1, <3>1, <3>2, ApartKeeps
  <2> QED BY <2>1, <2>2
<1>2. TypeOK' /\ \A d \in Caller : CallerOK(d)'
  BY <1>1, OwnStepKeeps, BeginKeeps, JobEndsKeeps DEF Next, OwnStep
<1> QED BY <1>2, UnitsKept, KeysKept DEF EnqInv

LEMMA EnqAlways == Spec => []EnqInv
BY EnqInit, EnqNext, PTL DEF Spec

-----------------------------------------------------------------------------
(* The state of Enqueueing has its types, whatever callers request.        *)
THEOREM EnqueueingTypes == Spec => []TypeOK
BY EnqAlways, PTL DEF EnqInv

(* Of the jobs with one key at most one is live or promised in an open     *)
(* transaction, whichever SELECTs of InsertJob came before whichever       *)
(* INSERTs: the unique index is what makes it true, not the look-up.       *)
THEOREM KeysStayUnique == Spec => []UniqueLiveKey
<1>1. EnqInv => UniqueLiveKey
  <2> SUFFICES ASSUME EnqInv, NEW k \in Key PROVE
        Cardinality({i \in WithKey(k) : rows[i].state \in {"live", "inserted"}}) <= 1
    BY DEF UniqueLiveKey
  <2> DEFINE S == {i \in WithKey(k) : rows[i].state \in {"live", "inserted"}}
  <2>1. \A i, j \in S : i = j
    BY DEF EnqInv, KeysOK, WithKey
  <2>2. CASE S = {}
    BY <2>2, FS_EmptySet
  <2>3. CASE S # {}
    <3>1. PICK i : S = {i}
      BY <2>1, <2>3
    <3> QED BY <3>1, FS_Singleton
  <2> QED BY <2>2, <2>3
<1> QED BY <1>1, EnqAlways, PTL

(* The ids that Enqueue, EnqueueMany and a committed transaction returned  *)
(* are those of jobs in the table, each created by that item of that       *)
(* request, or a duplicate with its key - whoever else raced for the key,  *)
(* and even if a call of the transaction was refused for its parameters.   *)
THEOREM ResultsHold == Spec => []AnswersHold
<1>1. EnqInv => AnswersHold
  <2> SUFFICES ASSUME EnqInv, NEW c \in Caller, outcome[c].status = "ok",
                      NEW n \in DOMAIN answers[c]
               PROVE  LET a == answers[c][n] IN
                      /\ a.kind = "created" => /\ Stored(a.id)
                                               /\ rows[a.id].by = <<unit[c], n>>
                      /\ a.kind = "duplicate" => /\ Stored(a.id)
                                                 /\ rows[a.id].key = req[c].items[n]
    BY DEF AnswersHold
  <2> DEFINE a == answers[c][n]
  <2>1. AnswerHolds(c, n, a)
    BY DEF EnqInv, CallerOK, AnswersOK
  <2>2. ~Open(c)
    BY DEF EnqInv, CallerOK, ControlOK, Busy, Open
  <2>3. a.kind # "error" => Stored(a.id)
    BY <2>1, <2>2 DEF AnswerHolds, Keeps, EnqInv, CallerOK, RowsOK
  <2> QED BY <2>1, <2>3 DEF AnswerHolds
<1> QED BY <1>1, EnqAlways, PTL

(* The jobs of the EnqueueTx calls of one transaction are stored together  *)
(* at its commit, or none of them is; and no commit succeeds after a call  *)
(* of the transaction failed in the database.                              *)
THEOREM TransactionsAreAtomic == Spec => []TxAllOrNothing
<1>1. EnqInv => TxAllOrNothing
  <2> SUFFICES ASSUME EnqInv, NEW c \in Caller, req[c].tx
               PROVE  /\ \A i, j \in Mine(c) : Stored(i) = Stored(j)
                      /\ pc[c] # "idle" => \A i \in Mine(c) : ~Stored(i)
                      /\ outcome[c].status = "rolledback" =>
                           \A i \in Mine(c) : ~Stored(i)
                      /\ outcome[c].status = "ok" =>
                           \A n \in DOMAIN answers[c] :
                             req[c].items[n] # BadParams
                             => answers[c][n].kind # "error"
    BY DEF TxAllOrNothing
  <2>1. ControlOK(c) /\ RowsOK(c) /\ TxOK(c) /\ TypeOK
    BY DEF EnqInv, CallerOK
  <2>2. \A i, j \in Mine(c) : Stored(i) = Stored(j)
    BY <2>1 DEF TxOK, Stored
  <2>3. pc[c] # "idle" => \A i \in Mine(c) : ~Stored(i)
    <3>1. pc[c] # "idle" => Open(c) \/ pc[c] = "aborted"
      BY <2>1 DEF Open, TypeOK
    <3> QED BY <2>1, <3>1 DEF RowsOK, Stored
  <2> QED BY <2>1, <2>2, <2>3 DEF TxOK
<1> QED BY <1>1, EnqAlways, PTL

(* An EnqueueMany that fails at an item has stored (or found) every item   *)
(* before it and none after it; the item itself is stored only if the      *)
(* answer of a statement was lost.                                         *)
THEOREM BatchesStopAtTheError == Spec => []PartialBatch
<1>1. EnqInv => PartialBatch
  <2> SUFFICES ASSUME EnqInv, NEW c \in Caller, ~req[c].tx, outcome[c].status = "error"
               PROVE  LET done(n) == {i \in Mine(c) : rows[i].by[2] = n}
                          at      == outcome[c].at
                      IN /\ \A n \in 1..Len(req[c].items) :
                              /\ n < at => done(n) # {} \/ WithKey(req[c].items[n]) # {}
                              /\ n > at => done(n) = {}
                         /\ done(at) # {} => errors < MaxErrors
    BY DEF PartialBatch
  <2> DEFINE at == outcome[c].at
  <2>1. /\ at \in Nat
        /\ \A n \in 1..Len(req[c].items) : n < at => Handled(c, n)
        /\ \A i \in Mine(c) : rows[i].by[2] <= at
        /\ Done(c, at) # {} => errors < MaxErrors
    BY DEF EnqInv, CallerOK, BatchOK
  <2>2. ASSUME NEW n \in 1..Len(req[c].items), n > at PROVE Done(c, n) = {}
    BY <2>1, <2>2 DEF Done
  <2> QED BY <2>1, <2>2 DEF Done, Handled
<1> QED BY <1>1, EnqAlways, PTL

(* A batch that the database refuses, with no statement lost, is refused   *)
(* for a job with the same key that somebody else has stored.              *)
THEOREM RefusedOnlyForTwin == Spec => []RefusedForTwin
<1>1. EnqInv => RefusedForTwin
  <2> SUFFICES ASSUME EnqInv, NEW c \in Caller, ~req[c].tx, outcome[c].status = "error"
               PROVE  LET k == req[c].items[outcome[c].at] IN
                      \/ k = BadParams
                      \/ errors < MaxErrors
                      \/ \E i \in WithKey(k) : Stored(i) /\ i \notin Mine(c)
    BY DEF RefusedForTwin
  <2> QED BY DEF EnqInv, CallerOK, BatchOK
<1> QED BY <1>1, EnqAlways, PTL
=============================================================================
