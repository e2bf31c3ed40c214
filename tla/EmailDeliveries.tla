----------------------------- MODULE EmailDeliveries -----------------------------
(***************************************************************************)
(* The queued notification e-mails and the worker's sweep, which runs at the *)
(* start of every loop of every worker: one transaction that selects the     *)
(* queued rows without a lock, calls the provider for each and writes what   *)
(* came of it.  A failed send is final: nothing queues the row again.        *)
(***************************************************************************)
EXTENDS Naturals, FiniteSets

CONSTANTS Email,         \* e-mail rows
          Sweep,         \* sweeps in progress, one per worker
          MaxRollbacks   \* bound: sweeps that die

Assumptions == MaxRollbacks \in Nat

VARIABLES
  email,      \* e-mail -> "none" | "queued" | "sent" | "failed"
  sweep,      \* sweep -> its list and what its transaction has written
  mails,      \* ghost: e-mail -> successful sends
  unsure,     \* ghost: e-mails held by two sweeps at once, or sent by one that died
  rollbacks

vars == <<email, sweep, mails, unsure, rollbacks>>

NoWrite == [m \in {} |-> "queued"]
IdleSweep == [todo |-> {}, wrote |-> NoWrite]

Init ==
  /\ email = [m \in Email |-> "none"]
  /\ sweep = [s \in Sweep |-> IdleSweep]
  /\ mails = [m \in Email |-> 0]
  /\ unsure = {}
  /\ rollbacks = 0

\* insertEmailDelivery, from an alert whose channel is e-mail.
EnqueueEmail(m) ==
  /\ email[m] = "none"
  /\ email' = [email EXCEPT ![m] = "queued"]
  /\ UNCHANGED <<sweep, mails, unsure, rollbacks>>

\* Mutant: the sweep does not filter by status.
QueuedEver == {m \in Email : email[m] # "none"}

Queued == {m \in Email : email[m] = "queued"}

StartSweep(s) ==
  /\ sweep[s] = IdleSweep
  /\ Queued # {}
  /\ sweep' = [sweep EXCEPT ![s].todo = Queued]
  /\ unsure' = unsure \cup
       UNION {Queued \cap (sweep[t].todo \cup DOMAIN sweep[t].wrote) : t \in Sweep \ {s}}
  /\ UNCHANGED <<email, mails, rollbacks>>

\* The status is written after the send, whatever the row has become meanwhile;
\* a failed send is final.
SendEmail(s, m, ok) ==
  /\ m \in sweep[s].todo
  /\ \A t \in Sweep \ {s} : m \notin DOMAIN sweep[t].wrote
  /\ mails' = [mails EXCEPT ![m] = IF ok THEN @ + 1 ELSE @]
  /\ sweep' = [sweep EXCEPT ![s] = [todo |-> @.todo \ {m},
       wrote |-> [x \in DOMAIN @.wrote \cup {m} |->
                    IF x = m THEN (IF ok THEN "sent" ELSE "failed") ELSE @.wrote[x]]]]
  /\ UNCHANGED <<email, unsure, rollbacks>>

CommitSweep(s) ==
  /\ sweep[s] # IdleSweep /\ sweep[s].todo = {}
  /\ email' = [m \in Email |-> IF m \in DOMAIN sweep[s].wrote THEN sweep[s].wrote[m] ELSE email[m]]
  /\ sweep' = [sweep EXCEPT ![s] = IdleSweep]
  /\ UNCHANGED <<mails, unsure, rollbacks>>

SweepDies(s) ==
  /\ sweep[s] # IdleSweep
  /\ rollbacks < MaxRollbacks
  /\ rollbacks' = rollbacks + 1
  /\ unsure' = unsure \cup DOMAIN sweep[s].wrote
  /\ sweep' = [sweep EXCEPT ![s] = IdleSweep]
  /\ UNCHANGED <<email, mails>>

Next ==
  \/ \E m \in Email : EnqueueEmail(m)
  \/ \E s \in Sweep : StartSweep(s)
  \/ \E s \in Sweep, m \in Email, ok \in BOOLEAN : SendEmail(s, m, ok)
  \/ \E s \in Sweep : CommitSweep(s)
  \/ \E s \in Sweep : SweepDies(s)

Spec == Init /\ [][Next]_vars

-----------------------------------------------------------------------------
(* Properties *)

\* Rows and sweeps hold values of their kind.
TypeOK ==
  /\ email \in [Email -> {"none", "queued", "sent", "failed"}]
  /\ \A s \in Sweep : sweep[s].todo \subseteq Email /\ DOMAIN sweep[s].wrote \subseteq Email
  /\ mails \in [Email -> Nat]
  /\ unsure \subseteq Email

\* An e-mail is sent at most once, and is marked sent only if it was, unless two
\* workers held it at once or the sweep that sent it rolled back.
MailedOnce ==
  \A m \in Email \ unsure : mails[m] <= 1 /\ (email[m] = "sent" => mails[m] = 1)

=============================================================================
