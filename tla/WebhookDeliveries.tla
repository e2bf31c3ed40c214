---------------------------- MODULE WebhookDeliveries -----------------------------
(***************************************************************************)
(* Webhook deliveries of one tenant to one endpoint.  An alert enqueues a    *)
(* delivery under an event id fixed by its rule; the processing request is   *)
(* one transaction around a batch of HTTP posts.  It reads the due rows      *)
(* without a lock, so two batches may hold one row; what it writes others    *)
(* see only after its commit, and wait for until then.  Time is left out: a  *)
(* pending row may be due or not whenever a batch reads.                     *)
(***************************************************************************)
EXTENDS Naturals, FiniteSets

CONSTANTS Delivery,      \* webhook deliveries, one per alert rule (event id)
          Batch,         \* process requests in progress
          MaxAttempts,   \* MAX_WEBHOOK_ATTEMPTS
          DisableAfter,  \* WEBHOOK_DISABLE_AFTER_FAILURES
          MaxRollbacks   \* bound: batches that die

Assumptions ==
  MaxAttempts \in Nat \ {0} /\ DisableAfter \in Nat \ {0} /\ MaxRollbacks \in Nat

VARIABLES
  row,        \* delivery -> committed [status, attempt]
  endpoint,   \* committed [active, failures]
  batch,      \* request -> its transaction: see IdleBatch
  posts,      \* ghost: delivery -> posts made
  lost,       \* ghost: delivery -> posts whose record was rolled back
  shared,     \* ghost: deliveries that two batches held at once
  rollbacks

vars == <<row, endpoint, batch, posts, lost, shared, rollbacks>>

NoWrite == [d \in {} |-> 0]
IdleBatch == [pc |-> "idle", todo |-> NoWrite, wrote |-> NoWrite, ep |-> {}, sent |-> {}]

Init ==
  /\ row = [d \in Delivery |-> [status |-> "none", attempt |-> 0]]
  /\ endpoint = [active |-> TRUE, failures |-> 0]
  /\ batch = [b \in Batch |-> IdleBatch]
  /\ posts = [d \in Delivery |-> 0]
  /\ lost = [d \in Delivery |-> 0]
  /\ shared = {}
  /\ rollbacks = 0

-----------------------------------------------------------------------------
(* Alerts and the tenant *)

\* enqueueWebhookDelivery: a known event id returns the row as it is, so a rule
\* that matches again after its first delivery enqueues nothing.
EnqueueWebhook(d) ==
  /\ row[d].status = "none"
  /\ row' = [row EXCEPT ![d].status = "pending"]
  /\ UNCHANGED <<endpoint, batch, posts, lost, shared, rollbacks>>

\* disableWebhookEndpoint by the tenant; nothing enables an endpoint again.
DisableEndpoint ==
  /\ endpoint.active
  /\ \A b \in Batch : batch[b].ep = {}
  /\ endpoint' = [endpoint EXCEPT !.active = FALSE]
  /\ UNCHANGED <<row, batch, posts, lost, shared, rollbacks>>

-----------------------------------------------------------------------------
(* processDueWebhookDeliveries *)

\* Mutant: a dead delivery is picked up again.
DueUnlessDelivered == {d \in Delivery : row[d].status \in {"pending", "dead"}}

Due == {d \in Delivery : row[d].status = "pending"}

\* Mutant: one attempt too many.
IsLastLate(attempt) == attempt > MaxAttempts

IsLast(attempt) == attempt >= MaxAttempts
AtLimit(failures) == failures >= DisableAfter

HeldBy(b) == DOMAIN batch[b].todo \cup DOMAIN batch[b].wrote

StartBatch(b) ==
  /\ batch[b].pc = "idle"
  /\ \E S \in (SUBSET Due) \ {{}} :
       /\ batch' = [batch EXCEPT ![b] = [IdleBatch EXCEPT
            !.pc = "batch", !.todo = [d \in S |-> row[d].attempt]]]
       /\ shared' = shared \cup UNION {S \cap HeldBy(c) : c \in Batch \ {b}}
  /\ UNCHANGED <<row, endpoint, posts, lost, rollbacks>>

\* The endpoint as the transaction sees it: its own write, or what is committed.
Seen(b) == IF batch[b].ep = {} THEN endpoint ELSE CHOOSE e \in batch[b].ep : TRUE

\* Locks of other transactions the next write waits for.
RowFree(b, d) == \A c \in Batch \ {b} : d \notin DOMAIN batch[c].wrote
EndpointFree(b) == \A c \in Batch \ {b} : batch[c].ep = {}

Written(b, d, r) == [x \in DOMAIN batch[b].wrote \cup {d} |->
                       IF x = d THEN r ELSE batch[b].wrote[x]]
Without(f, d) == [x \in DOMAIN f \ {d} |-> f[x]]

\* The endpoint was disabled: the delivery dies without a post.
Refuse(b, d) ==
  /\ batch[b].pc = "batch" /\ d \in DOMAIN batch[b].todo
  /\ ~Seen(b).active
  /\ RowFree(b, d)
  /\ batch' = [batch EXCEPT ![b].todo = Without(@, d),
       ![b].wrote = Written(b, d, [status |-> "dead", attempt |-> batch[b].todo[d] + 1])]
  /\ UNCHANGED <<row, endpoint, posts, lost, shared, rollbacks>>

\* The post: the endpoint is read before it, and the answer recorded after it.
Post(b, d) ==
  /\ batch[b].pc = "batch" /\ d \in DOMAIN batch[b].todo
  /\ Seen(b).active
  /\ posts' = [posts EXCEPT ![d] = @ + 1]
  /\ batch' = [batch EXCEPT ![b] = [pc |-> "posted", d |-> d, read |-> Seen(b), todo |-> @.todo,
                                    wrote |-> @.wrote, ep |-> @.ep, sent |-> @.sent \cup {d}]]
  /\ UNCHANGED <<row, endpoint, lost, shared, rollbacks>>

Record(b, status, ep) ==
  LET d == batch[b].d
  IN /\ RowFree(b, d)
     /\ batch' = [batch EXCEPT ![b] =
          [pc |-> "batch", todo |-> Without(@.todo, d), sent |-> @.sent, ep |-> ep,
           wrote |-> Written(b, d, [status |-> status, attempt |-> @.todo[d] + 1])]]
     /\ UNCHANGED <<row, endpoint, posts, lost, shared, rollbacks>>

\* 2xx: the failures start over.
Answered(b) ==
  /\ batch[b].pc = "posted" /\ EndpointFree(b)
  /\ Record(b, "delivered", {[Seen(b) EXCEPT !.failures = 0]})

\* Any other status: the failures read before the post go up by one, and the
\* endpoint is disabled at the limit.  A permanent one kills the delivery.
Rejected(b, permanent) ==
  LET failures == batch[b].read.failures + 1
  IN /\ batch[b].pc = "posted" /\ EndpointFree(b)
     /\ Record(b, IF permanent \/ IsLast(batch[b].todo[batch[b].d] + 1) THEN "dead" ELSE "pending",
               {[active |-> Seen(b).active /\ ~AtLimit(failures), failures |-> failures]})

\* No answer at all (refused, timed out, unsafe address): no failure is counted.
Unanswered(b) ==
  /\ batch[b].pc = "posted"
  /\ Record(b, IF IsLast(batch[b].todo[batch[b].d] + 1) THEN "dead" ELSE "pending", batch[b].ep)

CommitBatch(b) ==
  /\ batch[b].pc = "batch" /\ DOMAIN batch[b].todo = {}
  /\ row' = [d \in Delivery |-> IF d \in DOMAIN batch[b].wrote THEN batch[b].wrote[d] ELSE row[d]]
  /\ endpoint' = Seen(b)
  /\ batch' = [batch EXCEPT ![b] = IdleBatch]
  /\ UNCHANGED <<posts, lost, shared, rollbacks>>

\* The request dies, or the database breaks a deadlock between two batches: the
\* posts were made and their records are gone.
BatchDies(b) ==
  /\ batch[b].pc # "idle"
  /\ rollbacks < MaxRollbacks
  /\ rollbacks' = rollbacks + 1
  /\ lost' = [d \in Delivery |-> IF d \in batch[b].sent THEN lost[d] + 1 ELSE lost[d]]
  /\ batch' = [batch EXCEPT ![b] = IdleBatch]
  /\ UNCHANGED <<row, endpoint, posts, shared>>

Next ==
  \/ \E d \in Delivery : EnqueueWebhook(d)
  \/ DisableEndpoint
  \/ \E b \in Batch : StartBatch(b)
  \/ \E b \in Batch, d \in Delivery : Refuse(b, d)
  \/ \E b \in Batch, d \in Delivery : Post(b, d)
  \/ \E b \in Batch : Answered(b)
  \/ \E b \in Batch, permanent \in BOOLEAN : Rejected(b, permanent)
  \/ \E b \in Batch : Unanswered(b)
  \/ \E b \in Batch : CommitBatch(b)
  \/ \E b \in Batch : BatchDies(b)

Spec == Init /\ [][Next]_vars

-----------------------------------------------------------------------------
(* Properties *)

\* Rows, endpoint and batches hold values of their kind.
TypeOK ==
  /\ \A d \in Delivery : row[d].status \in {"none", "pending", "delivered", "dead"}
  /\ endpoint.active \in BOOLEAN /\ endpoint.failures \in Nat
  /\ \A b \in Batch : /\ batch[b].pc \in {"idle", "batch", "posted"}
                       /\ Cardinality(batch[b].ep) <= 1
  /\ posts \in [Delivery -> Nat] /\ lost \in [Delivery -> Nat]
  /\ shared \subseteq Delivery

\* A delivery reported delivered or dead stays so, unless two batches held it at
\* once: then the one that commits last overwrites the other's verdict.
SettledStays ==
  \A d \in Delivery \ shared' : row[d].status \in {"delivered", "dead"} => row'[d] = row[d]

SettledIsFinal == [][SettledStays]_vars

\* No delivery is posted more often than MAX_WEBHOOK_ATTEMPTS, except that a post
\* whose batch rolled back is forgotten and made again.
PostsBounded == \A d \in Delivery \ shared : posts[d] <= MaxAttempts + lost[d]

=============================================================================
