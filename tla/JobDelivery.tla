----------------------------- MODULE JobDelivery -----------------------------
(***************************************************************************)
(* What the platform promises about a job of either outbox, without the    *)
(* transport that carries it.  A job waits, is executed a bounded number   *)
(* of times, and ends handled, buried (a permanent or last failure) or     *)
(* unresolved (its outcome is unknown and left for a person).  The three   *)
(* ends are final, a job is handled only if its work was committed, and    *)
(* it returns to waiting only while an attempt is left.                    *)
(***************************************************************************)
EXTENDS Integers

CONSTANTS Job, MaxAttempts

VARIABLES
  phase,      \* what the platform records about each job
  tries,      \* executions started
  committed   \* its work has been committed, recorded or not

vars == <<phase, tries, committed>>

TypeOK ==
  /\ phase \in [Job -> {"waiting", "executing", "handled", "buried", "unresolved"}]
  /\ tries \in [Job -> 0..MaxAttempts]
  /\ committed \in [Job -> BOOLEAN]

Init ==
  /\ phase = [j \in Job |-> "waiting"]
  /\ tries = [j \in Job |-> 0]
  /\ committed = [j \in Job |-> FALSE]

Begin(j) ==
  /\ phase[j] = "waiting" /\ tries[j] < MaxAttempts
  /\ phase' = [phase EXCEPT ![j] = "executing"]
  /\ tries' = [tries EXCEPT ![j] = @ + 1]
  /\ UNCHANGED committed

(* An execution is not cancelled by what the platform records meanwhile, so   *)
(* its work may be committed in any phase once it began.                      *)
Commit(j) ==
  /\ tries[j] > 0
  /\ committed' = [committed EXCEPT ![j] = TRUE]
  /\ UNCHANGED <<phase, tries>>

Record(j, end) ==
  /\ phase[j] = "executing"
  /\ end = "handled" => committed[j]
  /\ end = "waiting" => tries[j] < MaxAttempts
  /\ phase' = [phase EXCEPT ![j] = end]
  /\ UNCHANGED <<tries, committed>>

Next ==
  \E j \in Job :
    \/ Begin(j)
    \/ Commit(j)
    \/ \E end \in {"handled", "buried", "unresolved", "waiting"} : Record(j, end)

Spec == Init /\ [][Next]_vars
=============================================================================
