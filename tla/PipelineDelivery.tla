-------------------------- MODULE PipelineDelivery --------------------------
(* How the pipeline implements JobDelivery.  The row and the copies of it  *)
(* decide where a job is: it is held while a copy is in flight, and a      *)
(* running row without one is lost.                                        *)
EXTENDS Pipeline

HoldersOf(j) == {c \in Client : Holds(c, j)}

StatusOf(j) ==
  IF HoldersOf(j) # {}
  THEN "held"
  ELSE CASE jobs[j].state = "none"      -> "absent"
         [] jobs[j].state \in Offerable -> "waiting"
         [] jobs[j].state = "running"   -> "lost"
         [] OTHER                       -> "done"

HolderOf(j) == LET H == HoldersOf(j)
               IN IF H = {} THEN NoClient ELSE CHOOSE c \in H : TRUE

StatusBar == [j \in Job |-> StatusOf(j)]
HolderBar == [j \in Job |-> HolderOf(j)]
TriesBar  == [j \in Job |-> jobs[j].attempt]

Delivery == INSTANCE JobDelivery WITH
  Nobody   <- NoClient,
  MaxTries <- PolicyMax,
  status   <- StatusBar,
  holder   <- HolderBar,
  tries    <- TriesBar

(* The pipeline implements JobDelivery: whatever the channels, statements  *)
(* and failures do amounts to claiming, giving back, finishing, losing and *)
(* cancelling whole jobs.                                                  *)
ImplementsDelivery == Delivery!Spec
=============================================================================
