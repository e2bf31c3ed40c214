------------------------- MODULE WebhookDeliveriesProofs -------------------------
(***************************************************************************)
(* Theorems about WebhookDeliveries for any number of deliveries, batches    *)
(* and rollbacks, and any limits.                                           *)
(***************************************************************************)
EXTENDS WebhookDeliveries, FiniteSetTheorems, TLAPS

Endpoint == [active : BOOLEAN, failures : Nat]

(* A delivery that will be tried again has an attempt left. *)
Row == {r \in [status : {"none", "pending", "delivered", "dead"}, attempt : 0..MaxAttempts] :
          r.status \in {"none", "pending"} => r.attempt < MaxAttempts}

Todo == UNION {[D -> 0..(MaxAttempts - 1)] : D \in SUBSET Delivery}
Writes == UNION {[D -> Row] : D \in SUBSET Delivery}
Buffer == {{}} \cup {{e} : e \in Endpoint}

(* A batch between two posts, and one that waits for an answer. *)
Between == [pc : {"idle", "batch"}, todo : Todo, wrote : Writes, ep : Buffer,
            sent : SUBSET Delivery]
Posting == [pc : {"posted"}, d : Delivery, read : Endpoint, todo : Todo, wrote : Writes,
            ep : Buffer, sent : SUBSET Delivery]

Shape ==
  /\ row \in [Delivery -> Row] /\ endpoint \in Endpoint
  /\ batch \in [Batch -> Between \cup Posting]
  /\ posts \in [Delivery -> Nat] /\ lost \in [Delivery -> Nat]
  /\ shared \subseteq Delivery

(* A batch works its list off: what was posted was written, but for the post    *)
(* that waits for its answer.                                                   *)
Progress ==
  \A b \in Batch :
    /\ DOMAIN batch[b].todo \cap DOMAIN batch[b].wrote = {}
    /\ batch[b].sent \subseteq HeldBy(b)
    /\ batch[b].pc = "idle" => HeldBy(b) = {}
    /\ batch[b].pc = "batch" => batch[b].sent \cap DOMAIN batch[b].todo = {}
    /\ batch[b].pc = "posted" =>
         /\ batch[b].d \in DOMAIN batch[b].todo
         /\ batch[b].sent \cap DOMAIN batch[b].todo = {batch[b].d}

(* A delivery that two batches never held at once is held by one, which knows   *)
(* the committed row and writes the next attempt.                               *)
HeldByOne ==
  \A d \in Delivery \ shared : \A b \in Batch : d \in HeldBy(b) =>
    /\ row[d].status = "pending"
    /\ \A c \in Batch : d \in HeldBy(c) => c = b
    /\ d \in DOMAIN batch[b].todo => batch[b].todo[d] = row[d].attempt
    /\ d \in DOMAIN batch[b].wrote => batch[b].wrote[d].attempt = row[d].attempt + 1

(* Every post is in the committed attempts, was lost, or is its batch's one.     *)
PostsCounted ==
  \A d \in Delivery \ shared :
    /\ posts[d] <= lost[d] + row[d].attempt + 1
    /\ (\A b \in Batch : d \notin batch[b].sent) => posts[d] <= lost[d] + row[d].attempt

PostInv == Shape /\ Progress /\ HeldByOne /\ PostsCounted

-----------------------------------------------------------------------------
(* Lists and what was written, as functions *)

LEMMA NoWriteType ==
  NoWrite \in Todo /\ NoWrite \in Writes /\ DOMAIN NoWrite = {}
<1>1. /\ NoWrite \in [{} -> 0..(MaxAttempts - 1)] /\ NoWrite \in [{} -> Row]
      /\ DOMAIN NoWrite = {}
  BY DEF NoWrite
<1> QED
  BY <1>1 DEF Todo, Writes

LEMMA IdleType ==
  /\ IdleBatch \in Between /\ IdleBatch.pc = "idle" /\ IdleBatch.sent = {}
  /\ DOMAIN IdleBatch.todo = {} /\ DOMAIN IdleBatch.wrote = {}
BY NoWriteType DEF IdleBatch, Between, Buffer

LEMMA TodoType ==
  ASSUME NEW f \in Todo
  PROVE  /\ DOMAIN f \subseteq Delivery
         /\ \A d \in DOMAIN f : f[d] \in 0..(MaxAttempts - 1)
BY DEF Todo

LEMMA WritesType ==
  ASSUME NEW f \in Writes
  PROVE  DOMAIN f \subseteq Delivery /\ \A d \in DOMAIN f : f[d] \in Row
BY DEF Writes

LEMMA WithoutType ==
  ASSUME NEW f \in Todo, NEW d
  PROVE  /\ Without(f, d) \in Todo
         /\ DOMAIN Without(f, d) = DOMAIN f \ {d}
         /\ \A x \in DOMAIN f \ {d} : Without(f, d)[x] = f[x]
<1>1. Without(f, d) \in [DOMAIN f \ {d} -> 0..(MaxAttempts - 1)]
  BY TodoType DEF Without
<1>2. DOMAIN f \ {d} \in SUBSET Delivery
  BY TodoType
<1> QED
  BY <1>1, <1>2 DEF Todo, Without

LEMMA WrittenType ==
  ASSUME NEW b, batch[b].wrote \in Writes, NEW d \in Delivery, NEW r \in Row
  PROVE  /\ Written(b, d, r) \in Writes
         /\ DOMAIN Written(b, d, r) = DOMAIN batch[b].wrote \cup {d}
         /\ Written(b, d, r)[d] = r
         /\ \A x \in DOMAIN batch[b].wrote \ {d} : Written(b, d, r)[x] = batch[b].wrote[x]
<1>1. /\ DOMAIN batch[b].wrote \subseteq Delivery
      /\ \A x \in DOMAIN batch[b].wrote : batch[b].wrote[x] \in Row
  BY WritesType
<1>2. Written(b, d, r) \in [DOMAIN batch[b].wrote \cup {d} -> Row]
  BY <1>1 DEF Written
<1> QED
  BY <1>1, <1>2 DEF Writes, Written

LEMMA ListType ==
  ASSUME Assumptions, Shape, NEW S \in SUBSET Due
  PROVE  [d \in S |-> row[d].attempt] \in Todo
<1>1. \A d \in S : d \in Delivery /\ row[d] \in Row /\ row[d].status = "pending"
  BY DEF Due, Shape
<1>2. \A d \in S : row[d].attempt \in 0..MaxAttempts /\ row[d].attempt < MaxAttempts
  BY <1>1 DEF Row
<1>3. ASSUME NEW d \in S PROVE row[d].attempt \in 0..(MaxAttempts - 1)
  BY <1>2 DEF Assumptions
<1>4. S \in SUBSET Delivery
  BY <1>1
<1> QED
  BY <1>3, <1>4 DEF Todo

LEMMA BatchType ==
  ASSUME Shape, NEW b \in Batch
  PROVE  /\ batch[b].todo \in Todo /\ batch[b].wrote \in Writes /\ batch[b].ep \in Buffer
         /\ batch[b].sent \in SUBSET Delivery
         /\ batch[b].pc \in {"idle", "batch", "posted"}
         /\ batch[b].pc \in {"idle", "batch"} => batch[b] \in Between
         /\ batch[b].pc = "posted" => batch[b] \in Posting
BY DEF Shape, Between, Posting

LEMMA SeenType ==
  ASSUME Shape, NEW b \in Batch
  PROVE  Seen(b) \in Endpoint
<1>1. batch[b].ep \in Buffer /\ endpoint \in Endpoint
  BY BatchType DEF Shape
<1>2. CASE batch[b].ep = {}
  BY <1>1, <1>2 DEF Seen
<1>3. ASSUME NEW e \in Endpoint, batch[b].ep = {e} PROVE Seen(b) \in Endpoint
  BY <1>3 DEF Seen
<1> QED
  BY <1>1, <1>2, <1>3 DEF Buffer

(* The row an attempt leaves behind. *)
LEMMA NextRow ==
  ASSUME Assumptions, NEW n \in 0..(MaxAttempts - 1), NEW status \in {"pending", "delivered", "dead"},
         status = "pending" => ~IsLast(n + 1)
  PROVE  [status |-> status, attempt |-> n + 1] \in Row
<1>1. MaxAttempts \in Nat /\ n + 1 \in 0..MaxAttempts
  BY DEF Assumptions
<1>2. status = "pending" => n + 1 < MaxAttempts
  BY <1>1 DEF IsLast
<1> QED
  BY <1>1, <1>2 DEF Row

-----------------------------------------------------------------------------
(* What each step of a batch does *)

LEMMA StartEffect ==
  ASSUME Assumptions, PostInv, NEW b \in Batch, StartBatch(b)
  PROVE  \E S \in SUBSET Due :
           /\ batch' \in [Batch -> Between \cup Posting]
           /\ \A c \in Batch \ {b} : batch'[c] = batch[c]
           /\ batch'[b].pc = "batch" /\ batch'[b].sent = {}
           /\ DOMAIN batch'[b].todo = S /\ DOMAIN batch'[b].wrote = {}
           /\ \A d \in S : batch'[b].todo[d] = row[d].attempt
           /\ \A d \in S, c \in Batch \ {b} : d \in HeldBy(c) => d \in shared'
           /\ shared \subseteq shared' /\ shared' \subseteq Delivery
<1>1. PICK S \in SUBSET Due :
        /\ batch' = [batch EXCEPT ![b] = [IdleBatch EXCEPT
             !.pc = "batch", !.todo = [d \in S |-> row[d].attempt]]]
        /\ shared' = shared \cup UNION {S \cap HeldBy(c) : c \in Batch \ {b}}
  BY DEF StartBatch
<1> DEFINE new == [IdleBatch EXCEPT !.pc = "batch", !.todo = [d \in S |-> row[d].attempt]]
<1>2. [d \in S |-> row[d].attempt] \in Todo
  BY ListType DEF PostInv
<1>3. /\ new \in Between /\ new.pc = "batch" /\ new.sent = {} /\ DOMAIN new.wrote = {}
      /\ new.todo = [d \in S |-> row[d].attempt]
  BY <1>2, IdleType DEF Between
<1>4. DOMAIN new.todo = S /\ \A d \in S : new.todo[d] = row[d].attempt
  BY <1>3
<1>5. batch \in [Batch -> Between \cup Posting] /\ batch' = [batch EXCEPT ![b] = new]
  BY <1>1 DEF PostInv, Shape
<1> HIDE DEF new
<1>6. /\ batch' \in [Batch -> Between \cup Posting] /\ batch'[b] = new
      /\ \A c \in Batch \ {b} : batch'[c] = batch[c]
  BY <1>3, <1>5
<1>7. /\ batch'[b].pc = "batch" /\ batch'[b].sent = {} /\ DOMAIN batch'[b].wrote = {}
      /\ DOMAIN batch'[b].todo = S /\ \A d \in S : batch'[b].todo[d] = row[d].attempt
  BY <1>3, <1>4, <1>6
<1>8. \A d \in S, c \in Batch \ {b} : d \in HeldBy(c) => d \in shared'
  BY <1>1
<1>9. shared \subseteq shared' /\ shared' \subseteq Delivery
  BY <1>1 DEF PostInv, Shape, Due
<1> QED
  BY <1>6, <1>7, <1>8, <1>9

(* Refuse, Answered, Rejected and Unanswered all take a delivery off the list   *)
(* and write its next attempt.                                                  *)
Taken(b, d, r) ==
  /\ d \in DOMAIN batch[b].todo /\ d \in Delivery
  /\ r \in Row /\ r.attempt = batch[b].todo[d] + 1
  /\ batch' \in [Batch -> Between \cup Posting]
  /\ \A c \in Batch \ {b} : batch'[c] = batch[c]
  /\ batch'[b].pc = "batch" /\ batch'[b].sent = batch[b].sent
  /\ batch'[b].todo = Without(batch[b].todo, d)
  /\ batch'[b].wrote = Written(b, d, r)
  /\ UNCHANGED <<row, endpoint, posts, lost, shared>>

LEMMA RefuseEffect ==
  ASSUME Assumptions, PostInv, NEW b \in Batch, NEW d \in Delivery, Refuse(b, d)
  PROVE  batch[b].pc = "batch" /\ \E r \in Row : Taken(b, d, r)
<1> DEFINE r == [status |-> "dead", attempt |-> batch[b].todo[d] + 1]
<1>1. batch[b] \in Between /\ batch[b].pc = "batch" /\ d \in DOMAIN batch[b].todo
      /\ batch[b].todo \in Todo /\ batch[b].wrote \in Writes
  BY BatchType DEF Refuse, PostInv
<1>2. r \in Row /\ r.attempt = batch[b].todo[d] + 1
  BY <1>1, TodoType, NextRow
<1> HIDE DEF r
<1>3. Without(batch[b].todo, d) \in Todo /\ Written(b, d, r) \in Writes
  BY <1>1, <1>2, WithoutType, WrittenType
<1>4. batch \in [Batch -> Between \cup Posting]
      /\ batch' = [batch EXCEPT ![b].todo = Without(batch[b].todo, d), ![b].wrote = Written(b, d, r)]
  BY DEF PostInv, Shape, Refuse, r
<1>5. /\ batch'[b].pc = "batch" /\ batch'[b].sent = batch[b].sent
      /\ batch'[b].todo = Without(batch[b].todo, d) /\ batch'[b].wrote = Written(b, d, r)
      /\ batch'[b] \in Between
  BY <1>1, <1>3, <1>4 DEF Between
<1>6. /\ \A c \in Batch \ {b} : batch'[c] = batch[c]
      /\ batch' \in [Batch -> Between \cup Posting]
  BY <1>4, <1>5
<1>8. Taken(b, d, r)
  BY <1>1, <1>2, <1>5, <1>6 DEF Taken, Refuse
<1> QED
  BY <1>1, <1>2, <1>8

LEMMA RecordEffect ==
  ASSUME Assumptions, PostInv, NEW b \in Batch, batch[b].pc = "posted",
         NEW status \in {"pending", "delivered", "dead"},
         status = "pending" => ~IsLast(batch[b].todo[batch[b].d] + 1),
         NEW ep \in Buffer, Record(b, status, ep)
  PROVE  \E r \in Row : Taken(b, batch[b].d, r)
<1> DEFINE d == batch[b].d
           r == [status |-> status, attempt |-> batch[b].todo[d] + 1]
           new == [pc |-> "batch", todo |-> Without(batch[b].todo, d), sent |-> batch[b].sent,
                   ep |-> ep, wrote |-> Written(b, d, r)]
<1>1. /\ batch[b] \in Posting /\ d \in DOMAIN batch[b].todo /\ d \in Delivery
      /\ batch[b].todo \in Todo /\ batch[b].wrote \in Writes /\ batch[b].sent \in SUBSET Delivery
  BY BatchType DEF PostInv, Progress, Posting
<1>2. r \in Row /\ r.attempt = batch[b].todo[d] + 1
  BY <1>1, TodoType, NextRow
<1>3. batch' = [batch EXCEPT ![b] = new] /\ UNCHANGED <<row, endpoint, posts, lost, shared>>
  BY DEF Record
<1> HIDE DEF r
<1>4. Without(batch[b].todo, d) \in Todo /\ Written(b, d, r) \in Writes
  BY <1>1, <1>2, WithoutType, WrittenType
<1>5. new \in Between
  BY <1>1, <1>4 DEF Between
<1>6. /\ new.pc = "batch" /\ new.sent = batch[b].sent
      /\ new.todo = Without(batch[b].todo, d) /\ new.wrote = Written(b, d, r)
  OBVIOUS
<1>7. batch \in [Batch -> Between \cup Posting]
  BY DEF PostInv, Shape
<1> HIDE DEF new, d
<1>8. Taken(b, d, r)
  BY <1>1, <1>2, <1>3, <1>5, <1>6, <1>7 DEF Taken
<1> QED
  BY <1>2, <1>8 DEF d

LEMMA PostEffect ==
  ASSUME PostInv, NEW b \in Batch, NEW d \in Delivery, Post(b, d)
  PROVE  /\ batch' \in [Batch -> Between \cup Posting]
         /\ \A c \in Batch \ {b} : batch'[c] = batch[c]
         /\ batch'[b].pc = "posted" /\ batch'[b].d = d
         /\ batch'[b].todo = batch[b].todo /\ batch'[b].wrote = batch[b].wrote
         /\ batch'[b].sent = batch[b].sent \cup {d}
<1> DEFINE new == [pc |-> "posted", d |-> d, read |-> Seen(b), todo |-> batch[b].todo,
                   wrote |-> batch[b].wrote, ep |-> batch[b].ep, sent |-> batch[b].sent \cup {d}]
<1>1. /\ batch[b].todo \in Todo /\ batch[b].wrote \in Writes /\ batch[b].ep \in Buffer
      /\ batch[b].sent \in SUBSET Delivery /\ Seen(b) \in Endpoint
  BY BatchType, SeenType DEF PostInv
<1>2. new \in Posting
  BY <1>1 DEF Posting
<1>3. batch' = [batch EXCEPT ![b] = new] /\ batch \in [Batch -> Between \cup Posting]
  BY DEF Post, PostInv, Shape
<1>4. /\ new.pc = "posted" /\ new.d = d /\ new.todo = batch[b].todo
      /\ new.wrote = batch[b].wrote /\ new.sent = batch[b].sent \cup {d}
  OBVIOUS
<1> HIDE DEF new
<1> QED
  BY <1>2, <1>3, <1>4

LEMMA EndEffect ==
  ASSUME PostInv, NEW b \in Batch, batch' = [batch EXCEPT ![b] = IdleBatch]
  PROVE  /\ batch' \in [Batch -> Between \cup Posting]
         /\ \A c \in Batch \ {b} : batch'[c] = batch[c]
         /\ batch'[b].pc = "idle" /\ batch'[b].sent = {}
         /\ DOMAIN batch'[b].todo = {} /\ DOMAIN batch'[b].wrote = {}
BY IdleType DEF PostInv, Shape

-----------------------------------------------------------------------------
(* The invariant *)

LEMMA PostInvInit == Assumptions /\ Init => PostInv
<1> SUFFICES ASSUME Assumptions, Init PROVE PostInv
  OBVIOUS
<1>1. [status |-> "none", attempt |-> 0] \in Row
  BY DEF Row, Assumptions
<1>2. Shape
  BY <1>1, IdleType DEF Init, Shape, Endpoint
<1>3. \A b \in Batch : /\ batch[b].pc = "idle" /\ batch[b].sent = {} /\ HeldBy(b) = {}
                       /\ DOMAIN batch[b].todo = {}
  BY IdleType DEF Init, HeldBy
<1>4. Progress
  BY <1>3 DEF Progress
<1>5. HeldByOne
  BY <1>3 DEF HeldByOne
<1>6. PostsCounted
  BY DEF Init, PostsCounted
<1> QED
  BY <1>2, <1>4, <1>5, <1>6 DEF PostInv

LEMMA TakenKeeps ==
  ASSUME PostInv, NEW b \in Batch, NEW d, NEW r \in Row, Taken(b, d, r),
         \/ batch[b].pc = "batch"
         \/ batch[b].pc = "posted" /\ d = batch[b].d
  PROVE  PostInv'
<1>1. batch[b].todo \in Todo /\ batch[b].wrote \in Writes /\ d \in Delivery
      /\ d \in DOMAIN batch[b].todo
  BY BatchType DEF PostInv, Taken
<1>2. /\ DOMAIN batch'[b].todo = DOMAIN batch[b].todo \ {d}
      /\ \A x \in DOMAIN batch[b].todo \ {d} : batch'[b].todo[x] = batch[b].todo[x]
  <2>1. batch'[b].todo = Without(batch[b].todo, d)
    BY DEF Taken
  <2>2. /\ DOMAIN Without(batch[b].todo, d) = DOMAIN batch[b].todo \ {d}
        /\ \A x \in DOMAIN batch[b].todo \ {d} :
             Without(batch[b].todo, d)[x] = batch[b].todo[x]
    BY <1>1, WithoutType
  <2> QED
    BY <2>1, <2>2
<1>3. /\ DOMAIN batch'[b].wrote = DOMAIN batch[b].wrote \cup {d}
      /\ batch'[b].wrote[d] = r
      /\ \A x \in DOMAIN batch[b].wrote \ {d} : batch'[b].wrote[x] = batch[b].wrote[x]
  BY <1>1, WrittenType DEF Taken
<1>4. /\ \A c \in Batch \ {b} : batch'[c] = batch[c]
      /\ batch'[b].pc = "batch" /\ batch'[b].sent = batch[b].sent
      /\ r.attempt = batch[b].todo[d] + 1
      /\ UNCHANGED <<row, endpoint, posts, lost, shared>>
  BY DEF Taken
<1>5. \A c \in Batch : HeldBy(c)' = HeldBy(c)
  BY <1>1, <1>2, <1>3, <1>4 DEF HeldBy
<1>6. Shape'
  BY DEF Taken, PostInv, Shape
<1>7. Progress'
  <2>1. batch[b].sent \cap DOMAIN batch[b].todo \subseteq {d}
    BY DEF PostInv, Progress
  <2>2. ASSUME NEW c \in Batch \ {b}
        PROVE  /\ DOMAIN batch'[c].todo \cap DOMAIN batch'[c].wrote = {}
               /\ batch'[c].sent \subseteq HeldBy(c)'
               /\ batch'[c].pc = "idle" => HeldBy(c)' = {}
               /\ batch'[c].pc = "batch" => batch'[c].sent \cap DOMAIN batch'[c].todo = {}
               /\ batch'[c].pc = "posted" =>
                    /\ batch'[c].d \in DOMAIN batch'[c].todo
                    /\ batch'[c].sent \cap DOMAIN batch'[c].todo = {batch'[c].d}
    BY <1>4, <1>5 DEF PostInv, Progress
  <2>3. /\ DOMAIN batch'[b].todo \cap DOMAIN batch'[b].wrote = {}
        /\ batch'[b].sent \subseteq HeldBy(b)'
        /\ batch'[b].sent \cap DOMAIN batch'[b].todo = {}
    BY <1>2, <1>3, <1>4, <1>5, <2>1 DEF PostInv, Progress
  <2> QED
    BY <1>4, <2>2, <2>3 DEF Progress
<1>8. HeldByOne'
  <2> SUFFICES ASSUME NEW x \in Delivery \ shared, NEW c \in Batch, x \in HeldBy(c)
               PROVE  /\ row[x].status = "pending"
                      /\ \A e \in Batch : x \in HeldBy(e) => e = c
                      /\ x \in DOMAIN batch'[c].todo => batch'[c].todo[x] = row[x].attempt
                      /\ x \in DOMAIN batch'[c].wrote =>
                           batch'[c].wrote[x].attempt = row[x].attempt + 1
    BY <1>4, <1>5 DEF HeldByOne
  <2>1. /\ row[x].status = "pending"
        /\ \A e \in Batch : x \in HeldBy(e) => e = c
        /\ x \in DOMAIN batch[c].todo => batch[c].todo[x] = row[x].attempt
        /\ x \in DOMAIN batch[c].wrote => batch[c].wrote[x].attempt = row[x].attempt + 1
    BY DEF PostInv, HeldByOne
  <2>2. CASE c # b
    BY <1>4, <2>1, <2>2
  <2>3. CASE c = b
    BY <1>1, <1>2, <1>3, <1>4, <2>1, <2>3
  <2> QED
    BY <2>1, <2>2, <2>3
<1>9. PostsCounted'
  BY <1>4 DEF PostInv, PostsCounted
<1> QED
  BY <1>6, <1>7, <1>8, <1>9 DEF PostInv

LEMMA StartKeeps ==
  ASSUME Assumptions, PostInv, NEW b \in Batch, StartBatch(b)
  PROVE  PostInv'
<1>1. PICK S \in SUBSET Due :
        /\ batch' \in [Batch -> Between \cup Posting]
        /\ \A c \in Batch \ {b} : batch'[c] = batch[c]
        /\ batch'[b].pc = "batch" /\ batch'[b].sent = {}
        /\ DOMAIN batch'[b].todo = S /\ DOMAIN batch'[b].wrote = {}
        /\ \A d \in S : batch'[b].todo[d] = row[d].attempt
        /\ \A d \in S, c \in Batch \ {b} : d \in HeldBy(c) => d \in shared'
        /\ shared \subseteq shared' /\ shared' \subseteq Delivery
  BY StartEffect
<1>2. UNCHANGED <<row, endpoint, posts, lost>> /\ batch[b].pc = "idle"
  BY DEF StartBatch
<1>3. HeldBy(b) = {} /\ batch[b].sent = {}
  BY <1>2 DEF PostInv, Progress
<1>4. HeldBy(b)' = S /\ \A c \in Batch \ {b} : HeldBy(c)' = HeldBy(c)
  BY <1>1 DEF HeldBy
<1>5. Shape'
  BY <1>1, <1>2 DEF PostInv, Shape
<1>6. Progress'
  BY <1>1, <1>4 DEF PostInv, Progress
<1>7. HeldByOne'
  <2> SUFFICES ASSUME NEW x \in Delivery \ shared', NEW c \in Batch, x \in HeldBy(c)'
               PROVE  /\ row[x].status = "pending"
                      /\ \A e \in Batch : x \in HeldBy(e)' => e = c
                      /\ x \in DOMAIN batch'[c].todo => batch'[c].todo[x] = row[x].attempt
                      /\ x \in DOMAIN batch'[c].wrote =>
                           batch'[c].wrote[x].attempt = row[x].attempt + 1
    BY <1>2 DEF HeldByOne
  <2>1. CASE c = b
    BY <1>1, <1>4, <2>1 DEF Due
  <2>2. CASE c # b
    <3>1. x \in HeldBy(c) /\ x \notin S
      BY <1>1, <1>4, <2>2
    <3>2. /\ row[x].status = "pending"
          /\ \A e \in Batch : x \in HeldBy(e) => e = c
          /\ x \in DOMAIN batch[c].todo => batch[c].todo[x] = row[x].attempt
          /\ x \in DOMAIN batch[c].wrote => batch[c].wrote[x].attempt = row[x].attempt + 1
      BY <1>1, <3>1 DEF PostInv, HeldByOne
    <3> QED
      BY <1>1, <1>4, <2>2, <3>1, <3>2
  <2> QED
    BY <2>1, <2>2
<1>8. PostsCounted'
  BY <1>1, <1>2, <1>3 DEF PostInv, PostsCounted
<1> QED
  BY <1>5, <1>6, <1>7, <1>8 DEF PostInv

LEMMA PostKeeps ==
  ASSUME PostInv, NEW b \in Batch, NEW d \in Delivery, Post(b, d)
  PROVE  PostInv'
<1>1. /\ batch' \in [Batch -> Between \cup Posting]
      /\ \A c \in Batch \ {b} : batch'[c] = batch[c]
      /\ batch'[b].pc = "posted" /\ batch'[b].d = d
      /\ batch'[b].todo = batch[b].todo /\ batch'[b].wrote = batch[b].wrote
      /\ batch'[b].sent = batch[b].sent \cup {d}
  BY PostEffect
<1>2. /\ UNCHANGED <<row, endpoint, lost, shared>> /\ batch[b].pc = "batch"
      /\ d \in DOMAIN batch[b].todo /\ posts' = [posts EXCEPT ![d] = @ + 1]
  BY DEF Post
<1>3. \A c \in Batch : HeldBy(c)' = HeldBy(c)
  BY <1>1 DEF HeldBy
<1>4. Shape'
  BY <1>1, <1>2 DEF PostInv, Shape
<1>5. Progress'
  <2>1. d \in HeldBy(b) /\ batch[b].sent \cap DOMAIN batch[b].todo = {}
    BY <1>2 DEF HeldBy, PostInv, Progress
  <2> QED
    BY <1>1, <1>2, <1>3, <2>1 DEF PostInv, Progress
<1>6. HeldByOne'
  BY <1>1, <1>2, <1>3 DEF PostInv, HeldByOne
<1>7. PostsCounted'
  <2>1. /\ posts \in [Delivery -> Nat] /\ lost \in [Delivery -> Nat]
        /\ \A x \in Delivery : row[x].attempt \in Int
    BY DEF PostInv, Shape, Row
  <2>2. d \notin shared => \A c \in Batch : d \notin batch[c].sent
    <3>1. d \in HeldBy(b) /\ d \notin batch[b].sent
      BY <1>2 DEF HeldBy, PostInv, Progress
    <3> QED
      BY <3>1 DEF PostInv, HeldByOne, Progress
  <2>3. ASSUME NEW x \in Delivery \ shared
        PROVE  /\ posts'[x] <= lost[x] + row[x].attempt + 1
               /\ (\A c \in Batch : x \notin batch'[c].sent) => posts'[x] <= lost[x] + row[x].attempt
    <3>1. /\ posts[x] <= lost[x] + row[x].attempt + 1
          /\ (\A c \in Batch : x \notin batch[c].sent) => posts[x] <= lost[x] + row[x].attempt
      BY DEF PostInv, PostsCounted
    <3>2. posts'[x] = IF x = d THEN posts[x] + 1 ELSE posts[x]
      BY <1>2, <2>1
    <3>3. CASE x = d
      BY <1>1, <2>1, <2>2, <3>1, <3>2, <3>3
    <3>4. CASE x # d
      BY <1>1, <3>1, <3>2, <3>4
    <3> QED
      BY <3>3, <3>4
  <2> QED
    BY <1>2, <2>3 DEF PostsCounted
<1> QED
  BY <1>4, <1>5, <1>6, <1>7 DEF PostInv

LEMMA CommitKeeps ==
  ASSUME PostInv, NEW b \in Batch, CommitBatch(b)
  PROVE  PostInv'
<1>1. /\ batch' \in [Batch -> Between \cup Posting]
      /\ \A c \in Batch \ {b} : batch'[c] = batch[c]
      /\ batch'[b].pc = "idle" /\ batch'[b].sent = {}
      /\ DOMAIN batch'[b].todo = {} /\ DOMAIN batch'[b].wrote = {}
  BY EndEffect DEF CommitBatch
<1>2. /\ row' = [d \in Delivery |-> IF d \in DOMAIN batch[b].wrote THEN batch[b].wrote[d] ELSE row[d]]
      /\ endpoint' = Seen(b) /\ DOMAIN batch[b].todo = {}
      /\ UNCHANGED <<posts, lost, shared>>
  BY DEF CommitBatch
<1>3. HeldBy(b) = DOMAIN batch[b].wrote /\ batch[b].wrote \in Writes
  BY <1>2, BatchType DEF HeldBy, PostInv
<1>4. HeldBy(b)' = {} /\ \A c \in Batch \ {b} : HeldBy(c)' = HeldBy(c)
  BY <1>1 DEF HeldBy
<1>5. Shape'
  <2>1. row' \in [Delivery -> Row]
    BY <1>2, <1>3, WritesType DEF PostInv, Shape
  <2>2. endpoint' \in Endpoint
    BY <1>2, SeenType DEF PostInv
  <2> QED
    BY <1>1, <1>2, <2>1, <2>2 DEF PostInv, Shape
<1>6. Progress'
  BY <1>1, <1>4 DEF PostInv, Progress
<1>7. ASSUME NEW x \in Delivery \ shared
      PROVE  /\ x \in HeldBy(b) => row'[x].attempt = row[x].attempt + 1
             /\ x \notin HeldBy(b) => row'[x] = row[x]
  BY <1>2, <1>3 DEF PostInv, HeldByOne
<1>8. HeldByOne'
  <2> SUFFICES ASSUME NEW x \in Delivery \ shared, NEW c \in Batch, x \in HeldBy(c)'
               PROVE  /\ row'[x].status = "pending"
                      /\ \A e \in Batch : x \in HeldBy(e)' => e = c
                      /\ x \in DOMAIN batch'[c].todo => batch'[c].todo[x] = row'[x].attempt
                      /\ x \in DOMAIN batch'[c].wrote =>
                           batch'[c].wrote[x].attempt = row'[x].attempt + 1
    BY <1>2 DEF HeldByOne
  <2>1. c # b /\ x \in HeldBy(c)
    BY <1>4
  <2>2. /\ row[x].status = "pending"
        /\ \A e \in Batch : x \in HeldBy(e) => e = c
        /\ x \in DOMAIN batch[c].todo => batch[c].todo[x] = row[x].attempt
        /\ x \in DOMAIN batch[c].wrote => batch[c].wrote[x].attempt = row[x].attempt + 1
    BY <2>1 DEF PostInv, HeldByOne
  <2>3. row'[x] = row[x]
    BY <1>7, <2>1, <2>2
  <2> QED
    BY <1>1, <1>4, <2>1, <2>2, <2>3
<1>9. PostsCounted'
  <2>1. /\ posts \in [Delivery -> Nat] /\ lost \in [Delivery -> Nat]
        /\ \A x \in Delivery : row[x].attempt \in Int
    BY DEF PostInv, Shape, Row
  <2>2. ASSUME NEW x \in Delivery \ shared
        PROVE  /\ posts[x] <= lost[x] + row'[x].attempt + 1
               /\ (\A c \in Batch : x \notin batch'[c].sent) => posts[x] <= lost[x] + row'[x].attempt
    <3>1. /\ posts[x] <= lost[x] + row[x].attempt + 1
          /\ (\A c \in Batch : x \notin batch[c].sent) => posts[x] <= lost[x] + row[x].attempt
      BY DEF PostInv, PostsCounted
    <3>2. CASE x \in HeldBy(b)
      BY <1>7, <2>1, <3>1, <3>2
    <3>3. CASE x \notin HeldBy(b)
      <4>1. x \notin batch[b].sent /\ row'[x] = row[x]
        BY <1>7, <3>3 DEF PostInv, Progress
      <4> QED
        BY <1>1, <3>1, <4>1
    <3> QED
      BY <3>2, <3>3
  <2> QED
    BY <1>2, <2>2 DEF PostsCounted
<1> QED
  BY <1>5, <1>6, <1>8, <1>9 DEF PostInv

LEMMA DeathKeeps ==
  ASSUME PostInv, NEW b \in Batch, BatchDies(b)
  PROVE  PostInv'
<1>1. /\ batch' \in [Batch -> Between \cup Posting]
      /\ \A c \in Batch \ {b} : batch'[c] = batch[c]
      /\ batch'[b].pc = "idle" /\ batch'[b].sent = {}
      /\ DOMAIN batch'[b].todo = {} /\ DOMAIN batch'[b].wrote = {}
  BY EndEffect DEF BatchDies
<1>2. /\ lost' = [d \in Delivery |-> IF d \in batch[b].sent THEN lost[d] + 1 ELSE lost[d]]
      /\ UNCHANGED <<row, endpoint, posts, shared>>
  BY DEF BatchDies
<1>3. HeldBy(b)' = {} /\ \A c \in Batch \ {b} : HeldBy(c)' = HeldBy(c)
  BY <1>1 DEF HeldBy
<1>4. Shape'
  BY <1>1, <1>2 DEF PostInv, Shape
<1>5. Progress'
  BY <1>1, <1>3 DEF PostInv, Progress
<1>6. HeldByOne'
  BY <1>1, <1>2, <1>3 DEF PostInv, HeldByOne
<1>7. PostsCounted'
  <2>1. /\ posts \in [Delivery -> Nat] /\ lost \in [Delivery -> Nat]
        /\ \A x \in Delivery : row[x].attempt \in Int
    BY DEF PostInv, Shape, Row
  <2>2. ASSUME NEW x \in Delivery \ shared
        PROVE  /\ posts[x] <= lost'[x] + row[x].attempt + 1
               /\ (\A c \in Batch : x \notin batch'[c].sent) => posts[x] <= lost'[x] + row[x].attempt
    <3>1. /\ posts[x] <= lost[x] + row[x].attempt + 1
          /\ (\A c \in Batch : x \notin batch[c].sent) => posts[x] <= lost[x] + row[x].attempt
      BY DEF PostInv, PostsCounted
    <3>2. CASE x \in batch[b].sent
      BY <1>2, <2>1, <3>1, <3>2
    <3>3. CASE x \notin batch[b].sent
      BY <1>1, <1>2, <3>1, <3>3
    <3> QED
      BY <3>2, <3>3
  <2> QED
    BY <1>2, <2>2 DEF PostsCounted
<1> QED
  BY <1>4, <1>5, <1>6, <1>7 DEF PostInv

LEMMA PostInvStep == Assumptions /\ PostInv /\ [Next]_vars => PostInv'
<1> SUFFICES ASSUME Assumptions, PostInv, [Next]_vars PROVE PostInv'
  OBVIOUS
<1>1. ASSUME NEW d \in Delivery, EnqueueWebhook(d) PROVE PostInv'
  <2>1. /\ row[d].status = "none" /\ row[d] \in Row
        /\ row' = [row EXCEPT ![d].status = "pending"]
        /\ UNCHANGED <<endpoint, batch, posts, lost, shared>>
    BY <1>1 DEF EnqueueWebhook, PostInv, Shape
  <2>2. [row[d] EXCEPT !.status = "pending"] \in Row
    BY <2>1 DEF Row
  <2>3. Shape'
    BY <2>1, <2>2 DEF PostInv, Shape
  <2>4. /\ row'[d].attempt = row[d].attempt
        /\ \A x \in Delivery \ {d} : row'[x] = row[x]
    BY <2>1 DEF PostInv, Shape, Row
  <2>5. \A x \in Delivery : row'[x].attempt = row[x].attempt
    BY <2>4
  <2>6. Progress'
    BY <2>1 DEF PostInv, Progress, HeldBy
  <2>7. HeldByOne'
    BY <2>1, <2>4, <2>5 DEF PostInv, HeldByOne, HeldBy
  <2>8. PostsCounted'
    BY <2>1, <2>5 DEF PostInv, PostsCounted
  <2> QED
    BY <2>3, <2>6, <2>7, <2>8 DEF PostInv
<1>2. ASSUME DisableEndpoint PROVE PostInv'
  <2>1. endpoint' \in Endpoint /\ UNCHANGED <<row, batch, posts, lost, shared>>
    BY <1>2 DEF DisableEndpoint, PostInv, Shape, Endpoint
  <2> QED
    BY <2>1 DEF PostInv, Shape, Progress, HeldByOne, PostsCounted, HeldBy
<1>3. ASSUME NEW b \in Batch, StartBatch(b) PROVE PostInv'
  BY <1>3, StartKeeps
<1>4. ASSUME NEW b \in Batch, NEW d \in Delivery, Refuse(b, d) PROVE PostInv'
  BY <1>4, RefuseEffect, TakenKeeps
<1>5. ASSUME NEW b \in Batch, NEW d \in Delivery, Post(b, d) PROVE PostInv'
  BY <1>5, PostKeeps
<1>6. ASSUME NEW b \in Batch, batch[b].pc = "posted",
             NEW status \in {"pending", "delivered", "dead"},
             status = "pending" => ~IsLast(batch[b].todo[batch[b].d] + 1),
             NEW ep \in Buffer, Record(b, status, ep)
      PROVE  PostInv'
  <2>1. PICK r \in Row : Taken(b, batch[b].d, r)
    BY <1>6, RecordEffect
  <2> QED
    BY <1>6, <2>1, TakenKeeps
<1>7. ASSUME NEW b \in Batch, Answered(b) PROVE PostInv'
  <2>1. [Seen(b) EXCEPT !.failures = 0] \in Endpoint
    BY SeenType DEF PostInv, Endpoint
  <2>2. {[Seen(b) EXCEPT !.failures = 0]} \in Buffer
    BY <2>1 DEF Buffer
  <2> QED
    BY <1>6, <1>7, <2>2 DEF Answered
<1>8. ASSUME NEW b \in Batch, NEW permanent \in BOOLEAN, Rejected(b, permanent) PROVE PostInv'
  <2> DEFINE failures == batch[b].read.failures + 1
             status == IF permanent \/ IsLast(batch[b].todo[batch[b].d] + 1) THEN "dead" ELSE "pending"
             ep == {[active |-> Seen(b).active /\ ~AtLimit(failures), failures |-> failures]}
  <2>1. batch[b].pc = "posted" /\ Record(b, status, ep)
    BY <1>8 DEF Rejected
  <2>2. failures \in Nat
    BY <2>1, BatchType DEF PostInv, Posting, Endpoint
  <2>3. (Seen(b).active /\ ~AtLimit(failures)) \in BOOLEAN
    OBVIOUS
  <2> HIDE DEF failures
  <2>4. ep \in Buffer
    BY <2>2, <2>3 DEF Buffer, Endpoint
  <2>5. /\ status \in {"pending", "delivered", "dead"}
        /\ status = "pending" => ~IsLast(batch[b].todo[batch[b].d] + 1)
    OBVIOUS
  <2> HIDE DEF ep, status
  <2> QED
    BY <1>6, <2>1, <2>4, <2>5
<1>9. ASSUME NEW b \in Batch, Unanswered(b) PROVE PostInv'
  <2> DEFINE status == IF IsLast(batch[b].todo[batch[b].d] + 1) THEN "dead" ELSE "pending"
  <2>1. batch[b].pc = "posted" /\ Record(b, status, batch[b].ep)
    BY <1>9 DEF Unanswered
  <2>2. batch[b].ep \in Buffer
    BY BatchType DEF PostInv
  <2>3. /\ status \in {"pending", "delivered", "dead"}
        /\ status = "pending" => ~IsLast(batch[b].todo[batch[b].d] + 1)
    OBVIOUS
  <2> HIDE DEF status
  <2> QED
    BY <1>6, <2>1, <2>2, <2>3
<1>10. ASSUME NEW b \in Batch, CommitBatch(b) PROVE PostInv'
  BY <1>10, CommitKeeps
<1>11. ASSUME NEW b \in Batch, BatchDies(b) PROVE PostInv'
  BY <1>11, DeathKeeps
<1>12. CASE UNCHANGED vars
  BY <1>12 DEF vars, PostInv, Shape, Progress, HeldByOne, PostsCounted, HeldBy
<1> QED
  BY <1>1, <1>2, <1>3, <1>4, <1>5, <1>7, <1>8, <1>9, <1>10, <1>11, <1>12 DEF Next

-----------------------------------------------------------------------------
(* Theorems *)

\* processDueWebhookDeliveries: rows, the endpoint and the batches always hold
\* values of their kind, whatever the limits.
THEOREM TypeCorrect == ASSUME Assumptions PROVE Spec => []TypeOK
<1>1. PostInv => TypeOK
  <2> SUFFICES ASSUME PostInv PROVE TypeOK
    OBVIOUS
  <2>1. \A b \in Batch : Cardinality(batch[b].ep) <= 1
    <3> SUFFICES ASSUME NEW b \in Batch PROVE Cardinality(batch[b].ep) <= 1
      OBVIOUS
    <3>1. batch[b].ep \in Buffer
      BY BatchType DEF PostInv
    <3>2. CASE batch[b].ep = {}
      BY <3>2, FS_EmptySet
    <3>3. ASSUME NEW e \in Endpoint, batch[b].ep = {e} PROVE Cardinality(batch[b].ep) <= 1
      <4>1. Cardinality({e}) = 1
        BY FS_Singleton
      <4> QED
        BY <3>3, <4>1
    <3> QED
      BY <3>1, <3>2, <3>3 DEF Buffer
  <2>2. \A b \in Batch : batch[b].pc \in {"idle", "batch", "posted"}
    BY BatchType DEF PostInv
  <2>3. \A d \in Delivery : row[d].status \in {"none", "pending", "delivered", "dead"}
    BY DEF PostInv, Shape, Row
  <2>4. endpoint.active \in BOOLEAN /\ endpoint.failures \in Nat
    BY DEF PostInv, Shape, Endpoint
  <2> QED
    BY <2>1, <2>2, <2>3, <2>4 DEF PostInv, Shape, TypeOK
<1> QED
  BY PostInvInit, PostInvStep, <1>1, PTL DEF Spec

\* MAX_WEBHOOK_ATTEMPTS bounds the posts of a delivery for any limit and any
\* number of batches, but for posts whose record was rolled back.
THEOREM PostsAreBounded == ASSUME Assumptions PROVE Spec => []PostsBounded
<1>1. PostInv => PostsBounded
  <2> SUFFICES ASSUME PostInv, NEW d \in Delivery \ shared
               PROVE  posts[d] <= MaxAttempts + lost[d]
    BY DEF PostsBounded
  <2>1. /\ posts[d] \in Nat /\ lost[d] \in Nat /\ row[d] \in Row
        /\ posts[d] <= lost[d] + row[d].attempt + 1
        /\ (\A b \in Batch : d \notin batch[b].sent) => posts[d] <= lost[d] + row[d].attempt
    BY DEF PostInv, Shape, PostsCounted
  <2>2. MaxAttempts \in Nat /\ row[d].attempt \in 0..MaxAttempts
        /\ (row[d].status = "pending" => row[d].attempt < MaxAttempts)
    BY <2>1 DEF Row, Assumptions
  <2>3. CASE \E b \in Batch : d \in batch[b].sent
    <3>1. row[d].status = "pending"
      BY <2>3 DEF PostInv, Progress, HeldByOne
    <3> QED
      BY <2>1, <2>2, <3>1
  <2>4. CASE \A b \in Batch : d \notin batch[b].sent
    BY <2>1, <2>2, <2>4
  <2> QED
    BY <2>3, <2>4
<1> QED
  BY PostInvInit, PostInvStep, <1>1, PTL DEF Spec

\* recordDelivery after the post: no number of batches changes a delivery that was
\* reported delivered or dead, unless two of them held it at once.
THEOREM SettledStaysSettled == ASSUME Assumptions PROVE Spec => SettledIsFinal
<1>1. PostInv /\ [Next]_vars => [SettledStays]_vars
  <2> SUFFICES ASSUME PostInv, Next, NEW d \in Delivery \ shared',
                      row[d].status \in {"delivered", "dead"}
               PROVE  row'[d] = row[d]
    BY DEF SettledStays
  <2>1. ASSUME NEW x \in Delivery, EnqueueWebhook(x) PROVE row'[d] = row[d]
    BY <2>1 DEF EnqueueWebhook, PostInv, Shape
  <2>2. ASSUME NEW b \in Batch, CommitBatch(b) PROVE row'[d] = row[d]
    <3>1. shared' = shared
      BY <2>2 DEF CommitBatch
    <3>2. d \notin DOMAIN batch[b].wrote
      BY <3>1 DEF PostInv, HeldByOne, HeldBy
    <3> QED
      BY <2>2, <3>2 DEF CommitBatch
  <2>3. ASSUME NEW b \in Batch,
               \/ StartBatch(b) \/ Answered(b) \/ Unanswered(b) \/ BatchDies(b)
               \/ \E x \in Delivery : Refuse(b, x) \/ Post(b, x)
               \/ \E permanent \in BOOLEAN : Rejected(b, permanent)
        PROVE  row'[d] = row[d]
    BY <2>3 DEF StartBatch, Answered, Unanswered, BatchDies, Refuse, Post, Rejected, Record
  <2>4. ASSUME DisableEndpoint PROVE row'[d] = row[d]
    BY <2>4 DEF DisableEndpoint
  <2> QED
    BY <2>1, <2>2, <2>3, <2>4 DEF Next
<1> QED
  BY PostInvInit, PostInvStep, <1>1, PTL DEF Spec, SettledIsFinal

=============================================================================
