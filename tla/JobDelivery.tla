---------------------------- MODULE JobDelivery ----------------------------
(***************************************************************************)
(* What the job queue promises, without channels, goroutines or statements.*)
(* A submitted job waits until a client claims it; the client gives it     *)
(* back or finishes it.  A client that stops may take the jobs it holds    *)
(* with it: such a job is lost, and nothing but a cancellation ends it.    *)
(***************************************************************************)
EXTENDS Naturals

CONSTANTS Job, Client, Nobody, MaxTries

VARIABLES status, holder, tries

dvars == <<status, holder, tries>>

Init ==
  /\ status = [j \in Job |-> "absent"]
  /\ holder = [j \in Job |-> Nobody]
  /\ tries = [j \in Job |-> 0]

TypeOK ==
  /\ status \in [Job -> {"absent", "waiting", "held", "lost", "done"}]
  /\ holder \in [Job -> Client \cup {Nobody}]
  /\ tries \in [Job -> 0..MaxTries]

Submit(j) ==
  /\ status[j] = "absent"
  /\ status' = [status EXCEPT ![j] = "waiting"]
  /\ UNCHANGED <<holder, tries>>

(* Only waiting jobs are claimed, each by one client, at most MaxTries     *)
(* times.                                                                  *)
Claim(c, S) ==
  /\ \A j \in S : status[j] = "waiting" /\ tries[j] < MaxTries
  /\ status' = [j \in Job |-> IF j \in S THEN "held" ELSE status[j]]
  /\ holder' = [j \in Job |-> IF j \in S THEN c ELSE holder[j]]
  /\ tries' = [j \in Job |-> IF j \in S THEN tries[j] + 1 ELSE tries[j]]

(* A claim whose answer never reaches the client.                          *)
ClaimAndLose(S) ==
  /\ \A j \in S : status[j] = "waiting" /\ tries[j] < MaxTries
  /\ status' = [j \in Job |-> IF j \in S THEN "lost" ELSE status[j]]
  /\ tries' = [j \in Job |-> IF j \in S THEN tries[j] + 1 ELSE tries[j]]
  /\ UNCHANGED holder

(* The holder is through with a job: it waits for another try, or is done. *)
GiveBack(j, st) ==
  /\ status[j] = "held"
  /\ st \in {"waiting", "done"}
  /\ st = "waiting" => tries[j] < MaxTries
  /\ status' = [status EXCEPT ![j] = st]
  /\ holder' = [holder EXCEPT ![j] = Nobody]
  /\ UNCHANGED tries

(* A client loses jobs it holds; the ones that were cancelled are done.    *)
Lose(c, S) ==
  /\ \A j \in S : status[j] = "held" /\ holder[j] = c
  /\ \A j \in S : status'[j] \in {"lost", "done"}
  /\ status' = [j \in Job |-> IF j \in S THEN status'[j] ELSE status[j]]
  /\ holder' = [j \in Job |-> IF j \in S THEN Nobody ELSE holder[j]]
  /\ UNCHANGED tries

(* A cancellation ends a job that nobody holds.                            *)
Revoke(j) ==
  /\ status[j] \in {"waiting", "lost"}
  /\ status' = [status EXCEPT ![j] = "done"]
  /\ UNCHANGED <<holder, tries>>

Next ==
  \/ \E j \in Job : Submit(j) \/ Revoke(j)
  \/ \E j \in Job, st \in {"waiting", "done"} : GiveBack(j, st)
  \/ \E S \in (SUBSET Job) \ {{}} :
       \/ ClaimAndLose(S)
       \/ \E c \in Client : Claim(c, S) \/ Lose(c, S)

Spec == Init /\ [][Next]_dvars
=============================================================================
