------------------------------- MODULE TenantProofs -------------------------------
(***************************************************************************)
(* What the tenant-facing modules promise when they are run side by side, as *)
(* MCTenant does: the properties of its run, for any number of tenants,      *)
(* events, requests, keys, deliveries, e-mails and processes.  TenantMetering, *)
(* ApiKeys and EmailDeliveries are proved here; of the others the theorems   *)
(* are cited from the modules of their own.                                  *)
(***************************************************************************)
EXTENDS MCTenant, FiniteSetTheorems, TLAPS

BP == INSTANCE StripeBillingProofs
WP == INSTANCE WebhookDeliveriesProofs

-----------------------------------------------------------------------------
(* TenantMetering. *)

(* The stages of a request's transaction. *)
Ingesting == [pc : {"checked", "inserted"}, meter : {"ingest.events"},
              key : IdempotencyKey, fp : Fingerprint]
IngestCounted == [pc : {"counted"}, meter : {"ingest.events"},
                  key : IdempotencyKey, fp : Fingerprint, new : BOOLEAN]
Reading == [pc : {"checked"}, meter : {"api.reads"}, key : RequestId]
ReadCounted == [pc : {"counted"}, meter : {"api.reads"}, key : RequestId, new : BOOLEAN]
Transaction == {Idle} \cup Ingesting \cup IngestCounted \cup Reading \cup ReadCounted

Shape ==
  /\ limit \in Limits /\ highest \in Limits /\ limit <= highest
  /\ events \in [IdempotencyKey -> Fingerprint \cup {None}]
  /\ outbox \subseteq IdempotencyKey
  /\ usage \in [Meter -> SUBSET (IdempotencyKey \cup RequestId)]
  /\ usage["ingest.events"] \subseteq IdempotencyKey /\ usage["api.reads"] \subseteq RequestId
  /\ month \in [Meter -> Nat]
  /\ warnings \in [Threshold -> {0, 1}]
  /\ request \in [Request -> Transaction]
  /\ replanned \in BOOLEAN

(* A request that has inserted an event of the key and not committed. *)
Holds(r, k) ==
  /\ request[r].pc \in {"inserted", "counted"}
  /\ request[r].meter = "ingest.events" /\ request[r].key = k

(* One request holds a key, and only while no event of the key is committed. *)
OneInserter ==
  /\ \A r \in Request, k \in IdempotencyKey : Holds(r, k) => events[k] = None
  /\ \A q, r \in Request, k \in IdempotencyKey : Holds(q, k) /\ Holds(r, k) => q = r

AnswersStored ==
  /\ \A k \in IdempotencyKey : events[k] # None => k \in outbox
  /\ \A a \in answers : /\ a.key \in IdempotencyKey /\ a.fp \in Fingerprint
                        /\ events[a.key] = a.fp

(* The requests that have passed the check and may still add a unit. *)
Pending == {r \in Request : request[r].pc # "idle" /\ request[r].meter = "ingest.events"}

QuotaReserved ==
  month["ingest.events"] + Cardinality(Pending) <= highest + Cardinality(Request) - 1

MeterInv == Shape /\ OneInserter /\ AnswersStored /\ QuotaReserved /\ WarningsKeepUp

-----------------------------------------------------------------------------
(* Transactions *)

Others(r) == \A q \in Request \ {r} : request'[q] = request[q]

LEMMA StageType ==
  ASSUME Shape, NEW r \in Request
  PROVE  /\ request[r].pc \in {"idle", "checked", "inserted", "counted"}
         /\ request[r].pc = "checked" /\ request[r].meter = "ingest.events" => request[r] \in Ingesting
         /\ request[r].pc = "inserted" => request[r] \in Ingesting
         /\ request[r].pc = "checked" /\ request[r].meter = "api.reads" => request[r] \in Reading
         /\ request[r].pc = "counted" /\ request[r].meter = "ingest.events" =>
              request[r] \in IngestCounted
         /\ request[r].pc = "counted" /\ request[r].meter = "api.reads" =>
              request[r] \in ReadCounted
BY DEF Shape, Transaction, Idle, Ingesting, IngestCounted, Reading, ReadCounted

LEMMA MoveEffect ==
  ASSUME Shape, NEW r \in Request, NEW t \in Transaction, request' = [request EXCEPT ![r] = t]
  PROVE  request' \in [Request -> Transaction] /\ request'[r] = t /\ Others(r)
BY DEF Shape, Others

LEMMA LimitType == Assumptions /\ Shape => limit \in Nat /\ highest \in Nat /\ highest > 0
BY DEF Assumptions, Shape

LEMMA RequestsFinite ==
  ASSUME Assumptions
  PROVE  /\ IsFiniteSet(Request) /\ Cardinality(Request) \in Nat
         /\ \A S \in SUBSET Request : /\ IsFiniteSet(S) /\ Cardinality(S) \in Nat
                                      /\ Cardinality(S) <= Cardinality(Request)
BY FS_Subset, FS_CardinalityType DEF Assumptions

(* A step after which no further request is pending keeps the reserve. *)
LEMMA ReserveKept ==
  ASSUME Assumptions, Shape, QuotaReserved, Pending' \subseteq Pending,
         UNCHANGED month, highest' \in Nat, highest' >= highest
  PROVE  QuotaReserved'
<1>1. /\ Cardinality(Pending) \in Nat /\ Cardinality(Pending') \in Nat
      /\ Cardinality(Pending') <= Cardinality(Pending) /\ Cardinality(Request) \in Nat
  <2>1. Pending \in SUBSET Request
    BY DEF Pending
  <2> QED
    BY <2>1, RequestsFinite, FS_Subset
<1>2. month["ingest.events"] \in Nat /\ highest \in Nat
  BY LimitType DEF Shape, Meter
<1> QED
  BY <1>1, <1>2 DEF QuotaReserved

(* A step of one transaction that commits nothing. *)
LEMMA MoveKeeps ==
  ASSUME Assumptions, MeterInv, NEW r \in Request, NEW t \in Transaction,
         request' = [request EXCEPT ![r] = t],
         UNCHANGED <<limit, events, outbox, usage, month, warnings, answers, highest, replanned>>,
         t.pc \in {"inserted", "counted"} /\ t.meter = "ingest.events" =>
           events[t.key] = None /\ \A q \in Request \ {r} : ~Holds(q, t.key),
         QuotaReserved'
  PROVE  MeterInv'
<1>1. request' \in [Request -> Transaction] /\ request'[r] = t /\ Others(r)
  BY MoveEffect DEF MeterInv
<1>2. Shape'
  BY <1>1 DEF MeterInv, Shape
<1>3. /\ \A q \in Request \ {r} : \A k : Holds(q, k)' <=> Holds(q, k)
      /\ \A k : Holds(r, k)' => t.pc \in {"inserted", "counted"} /\ t.meter = "ingest.events"
                                /\ t.key = k
  BY <1>1 DEF Holds, Others
<1>4. OneInserter'
  BY <1>3 DEF MeterInv, OneInserter
<1>5. AnswersStored' /\ WarningsKeepUp'
  BY DEF MeterInv, AnswersStored, WarningsKeepUp, Reached
<1> QED
  BY <1>2, <1>4, <1>5 DEF MeterInv

(* One that also leaves no new request pending. *)
LEMMA MoveWithin ==
  ASSUME Assumptions, MeterInv, NEW r \in Request, NEW t \in Transaction,
         request' = [request EXCEPT ![r] = t],
         UNCHANGED <<limit, events, outbox, usage, month, warnings, answers, highest, replanned>>,
         t.pc \in {"inserted", "counted"} /\ t.meter = "ingest.events" =>
           events[t.key] = None /\ \A q \in Request \ {r} : ~Holds(q, t.key),
         t.pc # "idle" /\ t.meter = "ingest.events" => r \in Pending
  PROVE  MeterInv'
<1>1. request'[r] = t /\ Others(r)
  BY MoveEffect DEF MeterInv
<1>2. Pending' \subseteq Pending
  BY <1>1 DEF Pending, Others
<1>3. QuotaReserved'
  BY <1>2, ReserveKept, LimitType DEF MeterInv
<1> QED
  BY <1>3, MoveKeeps

-----------------------------------------------------------------------------
(* Commits *)

LEMMA IngestCommitKeeps ==
  ASSUME Assumptions, MeterInv, NEW r \in Request, IngestCommit(r)
  PROVE  MeterInv'
<1> DEFINE k == request[r].key
           f == request[r].fp
<1>0. Shape /\ OneInserter /\ AnswersStored /\ QuotaReserved
  BY DEF MeterInv
<1>1. /\ request[r].pc = "counted" /\ request[r].meter = "ingest.events"
      /\ request[r] \in IngestCounted
  BY <1>0, StageType DEF IngestCommit
<1>2. k \in IdempotencyKey /\ f \in Fingerprint /\ f # None /\ Holds(r, k)
  BY <1>1 DEF IngestCounted, Holds, Assumptions
<1>3. /\ events' = [events EXCEPT ![k] = f] /\ outbox' = outbox \cup {k}
      /\ usage' = [usage EXCEPT !["ingest.events"] = @ \cup {k}]
      /\ month' = [month EXCEPT !["ingest.events"] = IF request[r].new THEN @ + 1 ELSE @]
      /\ answers' = answers \cup {[key |-> k, fp |-> f, result |-> "accepted"]}
      /\ request' = [request EXCEPT ![r] = Idle]
      /\ UNCHANGED <<limit, warnings, highest, replanned>>
  BY DEF IngestCommit, Reply
<1>4. request' \in [Request -> Transaction] /\ request'[r] = Idle /\ Others(r)
  BY <1>0, <1>3, MoveEffect DEF Transaction
<1>5. /\ month["ingest.events"] \in Nat /\ month'["ingest.events"] \in Nat
      /\ month'["ingest.events"] <= month["ingest.events"] + 1
      /\ month'["api.reads"] = month["api.reads"] /\ month' \in [Meter -> Nat]
  BY <1>0, <1>3 DEF Shape, Meter
<1>6. /\ events' \in [IdempotencyKey -> Fingerprint \cup {None}]
      /\ events'[k] = f /\ events[k] = None
      /\ \A x \in IdempotencyKey \ {k} : events'[x] = events[x]
  BY <1>0, <1>2, <1>3 DEF Shape, OneInserter
<1>7. /\ usage' \in [Meter -> SUBSET (IdempotencyKey \cup RequestId)]
      /\ usage'["ingest.events"] \subseteq IdempotencyKey
      /\ usage'["api.reads"] \subseteq RequestId
  BY <1>0, <1>2, <1>3 DEF Shape, Meter
<1>8. Shape'
  BY <1>0, <1>2, <1>3, <1>4, <1>5, <1>6, <1>7 DEF Shape
<1>9. /\ \A q \in Request \ {r} : \A x : Holds(q, x)' <=> Holds(q, x)
      /\ \A x : ~Holds(r, x)'
  BY <1>4 DEF Holds, Others, Idle
<1>10. \A q \in Request \ {r} : ~Holds(q, k)
  BY <1>0, <1>2 DEF OneInserter
<1> HIDE DEF k, f
<1>11. OneInserter'
  BY <1>0, <1>6, <1>9, <1>10 DEF OneInserter
<1>12. AnswersStored'
  <2>1. \A x \in IdempotencyKey : events'[x] # None => x \in outbox'
    BY <1>0, <1>3, <1>6 DEF AnswersStored
  <2>2. ASSUME NEW a \in answers'
        PROVE  a.key \in IdempotencyKey /\ a.fp \in Fingerprint /\ events'[a.key] = a.fp
    <3>1. CASE a \in answers
      <4>1. a.key \in IdempotencyKey /\ a.fp \in Fingerprint /\ events[a.key] = a.fp
        BY <1>0, <3>1 DEF AnswersStored
      <4>2. a.key # k
        BY <1>6, <4>1 DEF Assumptions
      <4> QED
        BY <1>6, <4>1, <4>2
    <3>2. CASE a = [key |-> k, fp |-> f, result |-> "accepted"]
      BY <1>2, <1>6, <3>2
    <3> QED
      BY <1>3, <2>2, <3>1, <3>2
  <2> QED
    BY <2>1, <2>2 DEF AnswersStored
<1>13. QuotaReserved'
  <2>1. r \in Pending /\ Pending \in SUBSET Request /\ Pending' = Pending \ {r}
    BY <1>1, <1>4 DEF Pending, Others, Idle
  <2>2. IsFiniteSet(Pending) /\ Cardinality(Pending) \in Nat /\ Cardinality(Request) \in Nat
    BY <2>1, RequestsFinite
  <2>3. Cardinality(Pending') = Cardinality(Pending) - 1
    BY <2>1, <2>2, FS_RemoveElement
  <2>4. highest \in Nat /\ highest' = highest
    BY <1>0, <1>3, LimitType
  <2> QED
    BY <1>0, <1>5, <2>2, <2>3, <2>4 DEF QuotaReserved
<1>14. WarningsKeepUp'
  BY <1>3, <1>5 DEF MeterInv, WarningsKeepUp, Reached
<1> QED
  BY <1>8, <1>11, <1>12, <1>13, <1>14 DEF MeterInv

LEMMA ReadCommitKeeps ==
  ASSUME Assumptions, MeterInv, NEW r \in Request, ReadCommit(r)
  PROVE  MeterInv'
<1> DEFINE q == request[r]
           n == UsageSeen("api.reads", q)
<1>0. Shape
  BY DEF MeterInv
<1>1. q.pc = "counted" /\ q.meter = "api.reads" /\ q \in ReadCounted
  BY <1>0, StageType DEF ReadCommit
<1>2. q.key \in RequestId /\ q.new \in BOOLEAN
  BY <1>1 DEF ReadCounted
<1>3. /\ usage' = [usage EXCEPT !["api.reads"] = @ \cup {q.key}]
      /\ month' = [month EXCEPT !["api.reads"] = IF q.new THEN @ + 1 ELSE @]
      /\ warnings' = [t \in Threshold |->
           IF t \in Reached(n, limit) /\ warnings[t] = 0 THEN 1 ELSE warnings[t]]
      /\ request' = [request EXCEPT ![r] = Idle]
      /\ UNCHANGED <<limit, events, outbox, answers, highest, replanned>>
  BY DEF ReadCommit
<1>4. request' \in [Request -> Transaction] /\ request'[r] = Idle /\ Others(r)
  BY <1>0, <1>3, MoveEffect DEF Transaction
<1>5. /\ month' \in [Meter -> Nat] /\ month'["api.reads"] = n
      /\ month'["ingest.events"] = month["ingest.events"]
  BY <1>0, <1>2, <1>3 DEF Shape, Meter, UsageSeen
<1>6. /\ usage' \in [Meter -> SUBSET (IdempotencyKey \cup RequestId)]
      /\ usage'["ingest.events"] \subseteq IdempotencyKey
      /\ usage'["api.reads"] \subseteq RequestId
  BY <1>0, <1>2, <1>3 DEF Shape, Meter
<1>7. warnings' \in [Threshold -> {0, 1}]
  BY <1>0, <1>3 DEF Shape
<1>8. Shape'
  BY <1>0, <1>3, <1>4, <1>5, <1>6, <1>7 DEF Shape
<1>9. /\ \A p \in Request \ {r} : \A x : Holds(p, x)' <=> Holds(p, x)
      /\ \A x : ~Holds(r, x)'
  BY <1>4 DEF Holds, Others, Idle
<1>10. OneInserter' /\ AnswersStored'
  BY <1>3, <1>9 DEF MeterInv, OneInserter, AnswersStored
<1>11. QuotaReserved'
  <2>1. Pending \in SUBSET Request /\ Pending' \subseteq Pending
    BY <1>4 DEF Pending, Others, Idle
  <2>2. /\ Cardinality(Pending) \in Nat /\ Cardinality(Pending') \in Nat
        /\ Cardinality(Pending') <= Cardinality(Pending) /\ Cardinality(Request) \in Nat
    BY <2>1, RequestsFinite, FS_Subset
  <2>3. highest \in Nat /\ highest' = highest /\ month["ingest.events"] \in Nat
    BY <1>0, <1>3, LimitType DEF Shape, Meter
  <2> QED
    BY <1>5, <2>2, <2>3 DEF MeterInv, QuotaReserved
<1>12. WarningsKeepUp'
  <2> SUFFICES ASSUME NEW t \in Threshold, t \in Reached(n, limit) PROVE warnings'[t] = 1
    BY <1>3, <1>5 DEF WarningsKeepUp, Reached
  <2> QED
    BY <1>0, <1>3 DEF Shape
<1> QED
  BY <1>8, <1>10, <1>11, <1>12 DEF MeterInv

-----------------------------------------------------------------------------
(* The invariant *)

LEMMA MeterInvInit == Assumptions /\ Init => MeterInv
<1> SUFFICES ASSUME Assumptions, Init PROVE MeterInv
  OBVIOUS
<1>1. /\ \A r \in Request : request[r].pc = "idle"
      /\ \A m \in Meter : month[m] = 0
      /\ answers = {} /\ \A k \in IdempotencyKey : events[k] = None
      /\ limit \in Nat /\ limit > 0 /\ highest = limit
  BY DEF Init, Idle, Assumptions
<1>2. Shape
  <2>1. limit \in Limits /\ highest \in Limits /\ limit <= highest
    <3>1. limit \in Limits /\ highest = limit
      BY DEF Init
    <3> QED
      BY <1>1, <3>1
  <2>2. /\ events \in [IdempotencyKey -> Fingerprint \cup {None}]
        /\ month \in [Meter -> Nat] /\ warnings \in [Threshold -> {0, 1}]
    BY DEF Init
  <2>3. /\ usage \in [Meter -> SUBSET (IdempotencyKey \cup RequestId)]
        /\ usage["ingest.events"] = {} /\ usage["api.reads"] = {}
    BY DEF Init, Meter
  <2>4. request \in [Request -> Transaction]
    BY DEF Init, Transaction
  <2>5. outbox \subseteq IdempotencyKey /\ replanned \in BOOLEAN
    BY DEF Init
  <2> QED
    BY <2>1, <2>2, <2>3, <2>4, <2>5 DEF Shape
<1>3. OneInserter /\ AnswersStored
  BY <1>1 DEF OneInserter, AnswersStored, Holds
<1>4. QuotaReserved
  <2>1. Pending = {}
    BY <1>1 DEF Pending
  <2>2. Cardinality(Pending) = 0 /\ Cardinality(Request) \in Nat
    BY <2>1, FS_EmptySet, RequestsFinite
  <2> QED
    BY <1>1, <2>2 DEF QuotaReserved, Meter
<1>5. WarningsKeepUp
  <2> SUFFICES ASSUME NEW t \in Threshold, 0 * 100 >= t * limit PROVE FALSE
    BY <1>1 DEF WarningsKeepUp, Reached, Meter
  <2>1. t \in Nat /\ t > 0
    BY DEF Assumptions
  <2>2. t * limit > 0
    BY <1>1, <2>1
  <2> QED
    BY <1>1, <2>1, <2>2
<1> QED
  BY <1>2, <1>3, <1>4, <1>5 DEF MeterInv

LEMMA MeterInvStep == Assumptions /\ MeterInv /\ [Next]_vars => MeterInv'
<1> SUFFICES ASSUME Assumptions, MeterInv, [Next]_vars PROVE MeterInv'
  OBVIOUS
<1>0. Shape /\ OneInserter /\ AnswersStored /\ QuotaReserved /\ WarningsKeepUp
  BY DEF MeterInv
<1>1. CASE PlanChanges
  <2>1. /\ limit' \in Limits /\ replanned' = TRUE
        /\ highest' = IF limit' > highest THEN limit' ELSE highest
        /\ UNCHANGED <<events, outbox, usage, month, warnings, request, answers>>
    BY <1>1 DEF PlanChanges
  <2>2. /\ highest' \in Limits /\ highest' \in Nat /\ limit' <= highest' /\ highest' >= highest
    BY <1>0, <2>1, LimitType DEF Assumptions, Shape
  <2>3. Shape'
    BY <1>0, <2>1, <2>2 DEF Shape
  <2>4. OneInserter' /\ AnswersStored' /\ WarningsKeepUp'
    BY <1>0, <2>1 DEF OneInserter, AnswersStored, Holds, WarningsKeepUp
  <2>5. QuotaReserved'
    BY <1>0, <2>1, <2>2, ReserveKept DEF Pending
  <2> QED
    BY <2>3, <2>4, <2>5 DEF MeterInv
<1>2. ASSUME NEW k \in IdempotencyKey, NEW f \in Fingerprint, IngestKnown(k, f)
      PROVE  MeterInv'
  <2>1. /\ events[k] = f /\ answers' = answers \cup {[key |-> k, fp |-> f, result |-> "duplicate"]}
        /\ UNCHANGED <<limit, events, outbox, usage, month, warnings, request, highest, replanned>>
    BY <1>2 DEF IngestKnown, Reply
  <2>2. Shape' /\ OneInserter' /\ WarningsKeepUp'
    BY <1>0, <2>1 DEF Shape, OneInserter, Holds, WarningsKeepUp, Reached
  <2>3. AnswersStored'
    BY <1>0, <2>1 DEF AnswersStored
  <2>4. QuotaReserved'
    BY <1>0, <2>1 DEF QuotaReserved, Pending
  <2> QED
    BY <2>2, <2>3, <2>4 DEF MeterInv
<1>3. ASSUME NEW r \in Request, NEW k \in IdempotencyKey, NEW f \in Fingerprint,
             IngestChecked(r, k, f)
      PROVE  MeterInv'
  <2> DEFINE t == [pc |-> "checked", meter |-> "ingest.events", key |-> k, fp |-> f]
  <2>1. /\ month["ingest.events"] < limit /\ request' = [request EXCEPT ![r] = t]
        /\ UNCHANGED <<limit, events, outbox, usage, month, warnings, answers, highest, replanned>>
    BY <1>3 DEF IngestChecked, WithinQuota
  <2>2. t \in Transaction /\ t.pc \notin {"inserted", "counted"}
    BY DEF Transaction, Ingesting
  <2> HIDE DEF t
  <2>3. request' \in [Request -> Transaction]
    BY <1>0, <2>1, <2>2, MoveEffect
  <2>4. QuotaReserved'
    <3>1. Cardinality(Pending') \in Nat /\ Cardinality(Pending') <= Cardinality(Request)
          /\ Cardinality(Request) \in Nat
      <4>1. Pending' \in SUBSET Request
        BY DEF Pending
      <4> QED
        BY <4>1, RequestsFinite
    <3>2. limit \in Nat /\ highest \in Nat /\ limit <= highest /\ month["ingest.events"] \in Nat
      BY <1>0, LimitType DEF Shape, Meter
    <3> QED
      BY <2>1, <3>1, <3>2 DEF QuotaReserved
  <2> QED
    BY <2>1, <2>2, <2>4, MoveKeeps
<1>4. ASSUME NEW r \in Request, IngestInsert(r) PROVE MeterInv'
  <2> DEFINE t == [request[r] EXCEPT !.pc = "inserted"]
  <2>1. /\ request[r].pc = "checked" /\ request[r].meter = "ingest.events"
        /\ request' = [request EXCEPT ![r] = t]
        /\ UNCHANGED <<limit, events, outbox, usage, month, warnings, answers, highest, replanned>>
        /\ ~Inserting(request[r].key) /\ events[request[r].key] = None
    BY <1>4 DEF IngestInsert
  <2>2. t \in Transaction /\ t.key = request[r].key /\ r \in Pending
    BY <1>0, <2>1, StageType DEF Transaction, Ingesting, Pending
  <2> HIDE DEF t
  <2>3. \A q \in Request \ {r} : ~Holds(q, t.key)
    BY <2>1, <2>2 DEF Inserting, Holds
  <2> QED
    BY <2>1, <2>2, <2>3, MoveWithin
<1>5. ASSUME NEW r \in Request,
             IngestCollides(r) \/ RequestFails(r)
      PROVE  MeterInv'
  <2>1. /\ request' = [request EXCEPT ![r] = Idle]
        /\ UNCHANGED <<limit, events, outbox, usage, month, warnings, answers, highest, replanned>>
    BY <1>5 DEF IngestCollides, RequestFails
  <2>2. Idle \in Transaction /\ Idle.pc = "idle"
    BY DEF Transaction, Idle
  <2> QED
    BY <2>1, <2>2, MoveWithin
<1>6. ASSUME NEW r \in Request, IngestCount(r) PROVE MeterInv'
  <2> DEFINE q == request[r]
             t == [pc |-> "counted", meter |-> q.meter, key |-> q.key, fp |-> q.fp,
                   new |-> q.key \notin usage["ingest.events"]]
  <2>1. /\ q.pc = "inserted" /\ request' = [request EXCEPT ![r] = t]
        /\ UNCHANGED <<limit, events, outbox, usage, month, warnings, answers, highest, replanned>>
    BY <1>6 DEF IngestCount
  <2>2. q \in Ingesting
    BY <1>0, <2>1, StageType
  <2>3. t \in Transaction /\ t.key \in IdempotencyKey /\ Holds(r, t.key) /\ r \in Pending
    BY <2>1, <2>2 DEF Transaction, Ingesting, IngestCounted, Holds, Pending
  <2> HIDE DEF t
  <2>4. events[t.key] = None /\ \A p \in Request \ {r} : ~Holds(p, t.key)
    BY <1>0, <2>3 DEF OneInserter
  <2> QED
    BY <2>1, <2>3, <2>4, MoveWithin
<1>7. ASSUME NEW r \in Request, NEW id \in RequestId, NEW enforce \in BOOLEAN,
             ReadChecked(r, id, enforce)
      PROVE  MeterInv'
  <2> DEFINE t == [pc |-> "checked", meter |-> "api.reads", key |-> id]
  <2>1. /\ request' = [request EXCEPT ![r] = t]
        /\ UNCHANGED <<limit, events, outbox, usage, month, warnings, answers, highest, replanned>>
    BY <1>7 DEF ReadChecked
  <2>2. t \in Transaction /\ t.meter # "ingest.events"
    BY DEF Transaction, Reading
  <2> HIDE DEF t
  <2> QED
    BY <2>1, <2>2, MoveWithin
<1>8. ASSUME NEW r \in Request, ReadCount(r) PROVE MeterInv'
  <2> DEFINE q == request[r]
             t == [pc |-> "counted", meter |-> q.meter, key |-> q.key,
                   new |-> q.key \notin usage["api.reads"]]
  <2>1. /\ q.pc = "checked" /\ q.meter = "api.reads" /\ request' = [request EXCEPT ![r] = t]
        /\ UNCHANGED <<limit, events, outbox, usage, month, warnings, answers, highest, replanned>>
    BY <1>8 DEF ReadCount
  <2>2. t \in Transaction /\ t.meter # "ingest.events"
    BY <1>0, <2>1, StageType DEF Transaction, Reading, ReadCounted
  <2> HIDE DEF t
  <2> QED
    BY <2>1, <2>2, MoveWithin
<1>9. CASE UNCHANGED vars
  <2>1. UNCHANGED <<limit, events, outbox, usage, month, warnings, request, answers, highest,
                    replanned>>
    BY <1>9 DEF vars
  <2>2. Shape' /\ OneInserter' /\ AnswersStored' /\ WarningsKeepUp'
    BY <1>0, <2>1 DEF Shape, OneInserter, AnswersStored, Holds, WarningsKeepUp, Reached
  <2>3. QuotaReserved'
    BY <1>0, <2>1 DEF QuotaReserved, Pending
  <2> QED
    BY <2>2, <2>3 DEF MeterInv
<1> QED
  BY <1>1, <1>2, <1>3, <1>4, <1>5, <1>6, <1>7, <1>8, <1>9, IngestCommitKeeps, ReadCommitKeeps
  DEF Next

-----------------------------------------------------------------------------
(* Theorems *)

\* Counters, events and transactions always hold values of their kind.
THEOREM TypeCorrect == ASSUME Assumptions PROVE Spec => []TypeOK
<1>1. MeterInv => TypeOK
  <2> SUFFICES ASSUME MeterInv PROVE TypeOK
    OBVIOUS
  <2>1. \A r \in Request : request[r].pc \in {"idle", "checked", "inserted", "counted"}
    BY StageType DEF MeterInv
  <2>2. warnings \in [Threshold -> Nat]
    BY DEF MeterInv, Shape
  <2> QED
    BY <2>1, <2>2 DEF MeterInv, Shape, TypeOK
<1> QED
  BY MeterInvInit, MeterInvStep, <1>1, PTL DEF Spec

\* acceptIngestEvent: for any number of racing requests, keys and fingerprints, an
\* accepted key stores what its sender sent and its job is in the outbox.
THEOREM AcceptedIsStored == ASSUME Assumptions PROVE Spec => []AnswersAgree
<1>1. MeterInv => AnswersAgree
  BY DEF MeterInv, AnswersStored, AnswersAgree, Assumptions
<1> QED
  BY MeterInvInit, MeterInvStep, <1>1, PTL DEF Spec

\* assertQuota: however many requests read the same count, the month passes the
\* highest limit by at most the other requests in progress.
THEOREM QuotaHolds == ASSUME Assumptions PROVE Spec => []OverrunIsBounded
<1>1. Assumptions /\ MeterInv => OverrunIsBounded
  <2> SUFFICES ASSUME Assumptions, MeterInv PROVE OverrunIsBounded
    OBVIOUS
  <2>1. Cardinality(Pending) \in Nat /\ Cardinality(Request) \in Nat
    <3>1. Pending \in SUBSET Request
      BY DEF Pending
    <3> QED
      BY <3>1, RequestsFinite
  <2>2. highest \in Nat /\ month["ingest.events"] \in Nat
    BY LimitType DEF MeterInv, Shape, Meter
  <2> QED
    BY <2>1, <2>2 DEF MeterInv, QuotaReserved, OverrunIsBounded
<1> QED
  BY MeterInvInit, MeterInvStep, <1>1, PTL DEF Spec

\* evaluateUsageWarnings: whatever the plan's limit and thresholds, a month without
\* a change of plan has warned once of every threshold it reached.
THEOREM WarningsAreComplete == ASSUME Assumptions PROVE Spec => []WarningsKeepUp
BY MeterInvInit, MeterInvStep, PTL DEF Spec, MeterInv

-----------------------------------------------------------------------------
(* ApiKeys.  Keys are issued one at a time, so the active ones can be counted; *)
(* a request that no other key has raced still sees a count below the limit.   *)

LEMMA KeyCount == \A S : K!Cardinality(S) = Cardinality(S)
  BY DEF K!Cardinality, Cardinality

KeyInv ==
  /\ K!TypeOK
  /\ IsFiniteSet(K!Active) /\ Cardinality(K!Active) <= Limit + excess
  /\ \A c \in K!Counted \ raced : Cardinality(K!Active) < Limit

LEMMA KeyInvInit == K!Assumptions /\ K!Init => KeyInv
<1> SUFFICES ASSUME K!Assumptions, K!Init PROVE KeyInv
  OBVIOUS
<1>1. K!TypeOK /\ K!Active = {} /\ K!Counted = {}
  BY DEF K!Init, K!TypeOK, K!Active, K!Counted
<1> QED
  BY <1>1, FS_EmptySet DEF KeyInv, K!Init, K!Assumptions

(* A key that becomes active is one more, unless it takes the place of another. *)
LEMMA OneMoreKey ==
  ASSUME KeyInv, NEW n \in Key, keys[n] = "none", keys' = [keys EXCEPT ![n] = "active"]
  PROVE  IsFiniteSet(K!Active') /\ Cardinality(K!Active') = Cardinality(K!Active) + 1
<1>1. K!Active' = K!Active \cup {n} /\ n \notin K!Active
  BY DEF KeyInv, K!TypeOK, K!Active
<1> QED
  BY <1>1, FS_AddElement DEF KeyInv

LEMMA OneKeyLess ==
  ASSUME KeyInv, NEW k \in Key, keys' = [keys EXCEPT ![k] = "revoked"]
  PROVE  /\ IsFiniteSet(K!Active') /\ Cardinality(K!Active') <= Cardinality(K!Active)
         /\ Cardinality(K!Active) \in Nat /\ Cardinality(K!Active') \in Nat
<1>1. K!Active' \subseteq K!Active
  BY DEF KeyInv, K!TypeOK, K!Active
<1> QED
  BY <1>1, FS_Subset, FS_CardinalityType DEF KeyInv

LEMMA KeyReplaced ==
  ASSUME KeyInv, NEW k \in Key, NEW n \in Key, keys[k] # "none", keys[n] = "none",
         keys' = K!Rotated(k, n)
  PROVE  /\ IsFiniteSet(K!Active') /\ Cardinality(K!Active') \in Nat /\ Cardinality(K!Active) \in Nat
         /\ Cardinality(K!Active') =
              IF keys[k] = "active" THEN Cardinality(K!Active) ELSE Cardinality(K!Active) + 1
<1>1. /\ K!Active' = (K!Active \ {k}) \cup {n}
      /\ n \notin K!Active /\ n \notin K!Active \ {k}
      /\ k \in K!Active <=> keys[k] = "active"
  BY DEF KeyInv, K!TypeOK, K!Active, K!Rotated
<1>2. /\ IsFiniteSet(K!Active \ {k})
      /\ Cardinality(K!Active \ {k}) =
           IF k \in K!Active THEN Cardinality(K!Active) - 1 ELSE Cardinality(K!Active)
  BY FS_RemoveElement DEF KeyInv
<1>3. /\ IsFiniteSet(K!Active')
      /\ Cardinality(K!Active') = Cardinality(K!Active \ {k}) + 1
  BY <1>1, <1>2, FS_AddElement
<1>4. Cardinality(K!Active) \in Nat /\ Cardinality(K!Active') \in Nat
  BY <1>3, FS_CardinalityType DEF KeyInv
<1> QED
  BY <1>1, <1>2, <1>3, <1>4

LEMMA KeyInvStep == K!Assumptions /\ KeyInv /\ [K!Next]_K!vars => KeyInv'
<1> SUFFICES ASSUME K!Assumptions, KeyInv, [K!Next]_K!vars PROVE KeyInv'
  OBVIOUS
<1>1. Cardinality(K!Active) \in Nat /\ Limit \in Nat /\ excess \in Nat
  BY FS_CardinalityType DEF KeyInv, K!TypeOK, K!Assumptions
<1>2. ASSUME NEW c \in Console, K!CountKeys(c) PROVE KeyInv'
  <2>1. K!Active' = K!Active /\ K!Counted' = K!Counted \cup {c} /\ Cardinality(K!Active) < Limit
    BY <1>2, KeyCount DEF K!CountKeys, K!Active, K!Counted, K!BelowLimit, KeyInv, K!TypeOK
  <2>2. K!TypeOK' /\ raced' = raced /\ excess' = excess
    BY <1>2, <2>1 DEF K!CountKeys, KeyInv, K!TypeOK
  <2> QED
    BY <2>1, <2>2 DEF KeyInv
<1>3. ASSUME NEW c \in Console, NEW n \in Key, K!CreateKey(c, n) PROVE KeyInv'
  <2>1. IsFiniteSet(K!Active') /\ Cardinality(K!Active') = Cardinality(K!Active) + 1
    BY <1>3, OneMoreKey DEF K!CreateKey
  <2>2. /\ c \in K!Counted /\ K!Counted' = K!Counted \ {c} /\ raced' = K!Counted \ {c}
        /\ excess' = IF c \in raced THEN excess + 1 ELSE excess
    BY <1>3 DEF K!CreateKey, K!Counted, KeyInv, K!TypeOK
  <2>3. K!TypeOK'
    BY <1>1, <1>3, <2>2 DEF K!CreateKey, KeyInv, K!TypeOK
  <2>4. Cardinality(K!Active') <= Limit + excess'
    <3>1. CASE c \in raced
      BY <3>1, <1>1, <2>1, <2>2 DEF KeyInv
    <3>2. CASE c \notin raced
      <4>1. Cardinality(K!Active) < Limit
        BY <3>2, <2>2 DEF KeyInv
      <4> QED
        BY <3>2, <4>1, <1>1, <2>1, <2>2
    <3> QED
      BY <3>1, <3>2
  <2> QED
    BY <2>1, <2>2, <2>3, <2>4 DEF KeyInv
<1>4. ASSUME NEW c \in Console, K!CreateFails(c) PROVE KeyInv'
  <2>1. /\ K!Active' = K!Active /\ K!Counted' = K!Counted \ {c}
        /\ raced' = raced \ {c} /\ excess' = excess
    BY <1>4 DEF K!CreateFails, K!Active, K!Counted, KeyInv, K!TypeOK
  <2>2. K!TypeOK'
    BY <1>4, <2>1 DEF K!CreateFails, KeyInv, K!TypeOK
  <2> QED
    BY <2>1, <2>2 DEF KeyInv
<1>5. ASSUME NEW k \in Key, K!RevokeKey(k) PROVE KeyInv'
  <2>1. /\ IsFiniteSet(K!Active') /\ Cardinality(K!Active') <= Cardinality(K!Active)
        /\ Cardinality(K!Active') \in Nat
    BY <1>5, OneKeyLess DEF K!RevokeKey
  <2>2. K!Counted' = K!Counted /\ raced' = raced /\ excess' = excess
    BY <1>5 DEF K!RevokeKey, K!Counted
  <2>3. K!TypeOK'
    BY <1>5, <2>2 DEF K!RevokeKey, KeyInv, K!TypeOK
  <2>4. Cardinality(K!Active') <= Limit + excess'
    BY <1>1, <2>1, <2>2 DEF KeyInv
  <2>5. ASSUME NEW c \in K!Counted' \ raced' PROVE Cardinality(K!Active') < Limit
    <3>1. Cardinality(K!Active) < Limit
      BY <2>2, <2>5 DEF KeyInv
    <3> QED
      BY <3>1, <1>1, <2>1
  <2> QED
    BY <2>1, <2>3, <2>4, <2>5 DEF KeyInv
<1>6. ASSUME NEW k \in Key, NEW n \in Key, K!RotateKey(k, n) PROVE KeyInv'
  <2>1. /\ IsFiniteSet(K!Active') /\ Cardinality(K!Active') \in Nat
        /\ Cardinality(K!Active') =
             IF keys[k] = "active" THEN Cardinality(K!Active) ELSE Cardinality(K!Active) + 1
    BY <1>6, KeyReplaced DEF K!RotateKey
  <2>2. /\ K!Counted' = K!Counted
        /\ raced' = IF keys[k] = "active" THEN raced ELSE K!Counted
        /\ excess' = IF keys[k] = "active" THEN excess ELSE excess + 1
    BY <1>6 DEF K!RotateKey, K!Counted
  <2>3. K!TypeOK'
    BY <1>6, <1>1, <2>2 DEF K!RotateKey, K!Rotated, KeyInv, K!TypeOK
  <2>4. Cardinality(K!Active') <= Limit + excess'
    BY <1>1, <2>1, <2>2 DEF KeyInv
  <2>5. ASSUME NEW c \in K!Counted' \ raced' PROVE Cardinality(K!Active') < Limit
    BY <2>1, <2>2, <2>5 DEF KeyInv
  <2> QED
    BY <2>1, <2>3, <2>4, <2>5 DEF KeyInv
<1>7. CASE UNCHANGED K!vars
  <2>1. K!Active' = K!Active /\ K!Counted' = K!Counted
    BY <1>7 DEF K!vars, K!Active, K!Counted
  <2> QED
    BY <1>7, <2>1 DEF K!vars, KeyInv, K!TypeOK
<1> QED
  BY <1>2, <1>3, <1>4, <1>5, <1>6, <1>7 DEF K!Next

-----------------------------------------------------------------------------
(* EmailDeliveries. *)

InSweep(s, m) == m \in sweep[s].todo \cup DOMAIN sweep[s].wrote

(* A sweep is its list and a function of what it wrote; nothing is in both. *)
Writes == UNION {[D -> {"sent", "failed"}] : D \in SUBSET Email}

SweepShape ==
  /\ sweep \in [Sweep -> [todo : SUBSET Email, wrote : Writes]]
  /\ \A s \in Sweep : sweep[s].todo \cap DOMAIN sweep[s].wrote = {}

(* An e-mail that is not unsure is held by one sweep, which found it queued.   *)
HeldOnce ==
  \A m \in Email \ unsure : \A s \in Sweep : InSweep(s, m) =>
    /\ email[m] = "queued"
    /\ \A t \in Sweep : InSweep(t, m) => t = s

(* What was sent is what the sweep in progress wrote, or what the row says.    *)
WrittenAsSent ==
  \A m \in Email \ unsure : \A s \in Sweep : m \in DOMAIN sweep[s].wrote =>
    mails[m] = IF sweep[s].wrote[m] = "sent" THEN 1 ELSE 0

SentAsStored ==
  \A m \in Email \ unsure :
    (\A s \in Sweep : m \notin DOMAIN sweep[s].wrote) =>
      mails[m] = IF email[m] = "sent" THEN 1 ELSE 0

MailInv == E!TypeOK /\ SweepShape /\ HeldOnce /\ WrittenAsSent /\ SentAsStored

-----------------------------------------------------------------------------

LEMMA WritesType ==
  /\ E!NoWrite \in Writes /\ DOMAIN E!NoWrite = {}
  /\ \A f \in Writes : DOMAIN f \subseteq Email /\ \A m \in DOMAIN f : f[m] \in {"sent", "failed"}
  /\ \A f \in Writes, m \in Email, r \in {"sent", "failed"} :
       [x \in DOMAIN f \cup {m} |-> IF x = m THEN r ELSE f[x]] \in Writes
<1>1. E!NoWrite \in Writes /\ DOMAIN E!NoWrite = {}
  <2>1. E!NoWrite \in [{} -> {"sent", "failed"}] /\ DOMAIN E!NoWrite = {}
    BY DEF E!NoWrite
  <2> QED
    BY <2>1 DEF Writes
<1>2. \A f \in Writes : DOMAIN f \subseteq Email /\ \A m \in DOMAIN f : f[m] \in {"sent", "failed"}
  BY DEF Writes
<1>3. ASSUME NEW f \in Writes, NEW m \in Email, NEW r \in {"sent", "failed"}
      PROVE  [x \in DOMAIN f \cup {m} |-> IF x = m THEN r ELSE f[x]] \in Writes
  <2> DEFINE D == DOMAIN f \cup {m}
  <2>1. [x \in D |-> IF x = m THEN r ELSE f[x]] \in [D -> {"sent", "failed"}]
    BY <1>2, <1>3
  <2>2. D \in SUBSET Email
    BY <1>2, <1>3
  <2> QED
    BY <2>1, <2>2 DEF Writes
<1> QED
  BY <1>1, <1>2, <1>3

(* What each action does to one sweep and one e-mail. *)

LEMMA SendEffect ==
  ASSUME MailInv, NEW s \in Sweep, NEW m \in Email, NEW ok \in BOOLEAN, E!SendEmail(s, m, ok)
  PROVE  /\ SweepShape'
         /\ \A t \in Sweep \ {s} : sweep'[t] = sweep[t]
         /\ sweep'[s].todo = sweep[s].todo \ {m}
         /\ DOMAIN sweep'[s].wrote = DOMAIN sweep[s].wrote \cup {m}
         /\ sweep'[s].wrote[m] = IF ok THEN "sent" ELSE "failed"
         /\ \A x \in DOMAIN sweep[s].wrote \ {m} : sweep'[s].wrote[x] = sweep[s].wrote[x]
<1> DEFINE r == IF ok THEN "sent" ELSE "failed"
           w == [x \in DOMAIN sweep[s].wrote \cup {m} |-> IF x = m THEN r ELSE sweep[s].wrote[x]]
<1>1. sweep[s].todo \in SUBSET Email /\ sweep[s].wrote \in Writes
      /\ sweep \in [Sweep -> [todo : SUBSET Email, wrote : Writes]]
  BY DEF MailInv, SweepShape
<1>2. sweep' = [sweep EXCEPT ![s] = [todo |-> sweep[s].todo \ {m}, wrote |-> w]]
  BY DEF E!SendEmail
<1>3. w \in Writes
  <2>1. \A q \in {"sent", "failed"} :
          [x \in DOMAIN sweep[s].wrote \cup {m} |-> IF x = m THEN q ELSE sweep[s].wrote[x]] \in Writes
    BY <1>1, WritesType
  <2>2. r \in {"sent", "failed"}
    OBVIOUS
  <2> HIDE DEF r
  <2> QED
    BY <2>1, <2>2
<1>4. sweep'[s] = [todo |-> sweep[s].todo \ {m}, wrote |-> w]
      /\ \A t \in Sweep \ {s} : sweep'[t] = sweep[t]
  BY <1>1, <1>2
<1>5. sweep' \in [Sweep -> [todo : SUBSET Email, wrote : Writes]]
  BY <1>1, <1>2, <1>3
<1>6. DOMAIN w = DOMAIN sweep[s].wrote \cup {m}
  OBVIOUS
<1>7. SweepShape'
  BY <1>4, <1>5, <1>6 DEF MailInv, SweepShape
<1> QED
  BY <1>4, <1>6, <1>7

LEMMA EndEffect ==
  ASSUME MailInv, NEW s \in Sweep, sweep' = [sweep EXCEPT ![s] = E!IdleSweep]
  PROVE  /\ SweepShape'
         /\ \A t \in Sweep \ {s} : sweep'[t] = sweep[t]
         /\ sweep'[s].todo = {} /\ DOMAIN sweep'[s].wrote = {}
<1>1. E!IdleSweep \in [todo : SUBSET Email, wrote : Writes]
      /\ E!IdleSweep.todo = {} /\ DOMAIN E!IdleSweep.wrote = {}
  BY WritesType DEF E!IdleSweep
<1> QED
  BY <1>1 DEF MailInv, SweepShape

LEMMA StartEffect ==
  ASSUME MailInv, NEW s \in Sweep, E!StartSweep(s)
  PROVE  /\ SweepShape'
         /\ \A t \in Sweep \ {s} : sweep'[t] = sweep[t]
         /\ sweep'[s].todo = E!Queued /\ DOMAIN sweep'[s].wrote = {}
         /\ \A m \in E!Queued, t \in Sweep \ {s} : InSweep(t, m) => m \in unsure'
         /\ unsure \subseteq unsure' /\ unsure' \subseteq Email
<1>1. E!IdleSweep \in [todo : SUBSET Email, wrote : Writes]
      /\ E!IdleSweep.todo = {} /\ DOMAIN E!IdleSweep.wrote = {}
  BY WritesType DEF E!IdleSweep
<1>2. E!Queued \in SUBSET Email
  BY DEF E!Queued
<1>3. sweep \in [Sweep -> [todo : SUBSET Email, wrote : Writes]] /\ sweep[s] = E!IdleSweep
      /\ sweep' = [sweep EXCEPT ![s].todo = E!Queued]
  BY DEF MailInv, SweepShape, E!StartSweep
<1>4. sweep' \in [Sweep -> [todo : SUBSET Email, wrote : Writes]]
      /\ sweep'[s].todo = E!Queued /\ DOMAIN sweep'[s].wrote = {}
      /\ \A t \in Sweep \ {s} : sweep'[t] = sweep[t]
  BY <1>1, <1>2, <1>3
<1>5. SweepShape'
  BY <1>4 DEF MailInv, SweepShape
<1>6. \A m \in E!Queued, t \in Sweep \ {s} : InSweep(t, m) => m \in unsure'
  BY DEF E!StartSweep, InSweep
<1>7. unsure \subseteq unsure' /\ unsure' \subseteq Email
  BY <1>2 DEF E!StartSweep, MailInv, E!TypeOK
<1> QED
  BY <1>4, <1>5, <1>6, <1>7

-----------------------------------------------------------------------------

LEMMA MailInvInit == E!Init => MailInv
<1> SUFFICES ASSUME E!Init PROVE MailInv
  OBVIOUS
<1>1. E!IdleSweep \in [todo : SUBSET Email, wrote : Writes]
      /\ E!IdleSweep.todo = {} /\ DOMAIN E!IdleSweep.wrote = {}
  BY WritesType DEF E!IdleSweep
<1>2. SweepShape
  BY <1>1 DEF E!Init, SweepShape
<1>3. \A s \in Sweep : sweep[s].todo = {} /\ DOMAIN sweep[s].wrote = {}
  BY <1>1 DEF E!Init
<1>4. E!TypeOK
  BY <1>3 DEF E!Init, E!TypeOK
<1>5. HeldOnce /\ WrittenAsSent /\ SentAsStored
  BY <1>3 DEF E!Init, HeldOnce, WrittenAsSent, SentAsStored, InSweep
<1> QED
  BY <1>2, <1>4, <1>5 DEF MailInv

(* The types follow from the shape of the sweeps. *)
LEMMA SweepTypes == SweepShape =>
  \A s \in Sweep : sweep[s].todo \subseteq Email /\ DOMAIN sweep[s].wrote \subseteq Email
BY WritesType DEF SweepShape

LEMMA MailInvStep == MailInv /\ [E!Next]_E!vars => MailInv'
<1> SUFFICES ASSUME MailInv, [E!Next]_E!vars PROVE MailInv'
  OBVIOUS
<1>0. SweepShape' =>
        \A s \in Sweep : sweep'[s].todo \subseteq Email /\ DOMAIN sweep'[s].wrote \subseteq Email
  BY WritesType DEF SweepShape
<1>1. ASSUME NEW m \in Email, E!EnqueueEmail(m) PROVE MailInv'
  <2>1. SweepShape' /\ E!TypeOK'
    BY <1>1 DEF MailInv, SweepShape, E!TypeOK, E!EnqueueEmail
  <2>2. HeldOnce'
    BY <1>1 DEF MailInv, E!TypeOK, HeldOnce, InSweep, E!EnqueueEmail
  <2>3. WrittenAsSent' /\ SentAsStored'
    BY <1>1 DEF MailInv, E!TypeOK, WrittenAsSent, SentAsStored, E!EnqueueEmail
  <2> QED
    BY <2>1, <2>2, <2>3 DEF MailInv
<1>2. ASSUME NEW s \in Sweep, E!StartSweep(s) PROVE MailInv'
  <2>1. /\ SweepShape'
        /\ \A t \in Sweep \ {s} : sweep'[t] = sweep[t]
        /\ sweep'[s].todo = E!Queued /\ DOMAIN sweep'[s].wrote = {}
        /\ \A m \in E!Queued, t \in Sweep \ {s} : InSweep(t, m) => m \in unsure'
        /\ unsure \subseteq unsure' /\ unsure' \subseteq Email
    BY <1>2, StartEffect
  <2>2. UNCHANGED <<email, mails>> /\ sweep[s] = E!IdleSweep
    BY <1>2 DEF E!StartSweep
  <2>3. DOMAIN sweep[s].wrote = {}
    BY <2>2, WritesType DEF E!IdleSweep
  <2>4. E!TypeOK'
    BY <1>0, <2>1, <2>2 DEF MailInv, E!TypeOK
  <2>5. HeldOnce'
    BY <2>1, <2>2 DEF MailInv, HeldOnce, InSweep, E!Queued
  <2>6. WrittenAsSent' /\ SentAsStored'
    BY <2>1, <2>2, <2>3 DEF MailInv, WrittenAsSent, SentAsStored
  <2> QED
    BY <2>1, <2>4, <2>5, <2>6 DEF MailInv
<1>3. ASSUME NEW s \in Sweep, NEW m \in Email, NEW ok \in BOOLEAN, E!SendEmail(s, m, ok)
      PROVE  MailInv'
  <2>1. /\ SweepShape'
        /\ \A t \in Sweep \ {s} : sweep'[t] = sweep[t]
        /\ sweep'[s].todo = sweep[s].todo \ {m}
        /\ DOMAIN sweep'[s].wrote = DOMAIN sweep[s].wrote \cup {m}
        /\ sweep'[s].wrote[m] = IF ok THEN "sent" ELSE "failed"
        /\ \A x \in DOMAIN sweep[s].wrote \ {m} : sweep'[s].wrote[x] = sweep[s].wrote[x]
    BY <1>3, SendEffect
  <2>2. UNCHANGED <<email, unsure>> /\ m \in sweep[s].todo
        /\ mails' = [mails EXCEPT ![m] = IF ok THEN @ + 1 ELSE @]
    BY <1>3 DEF E!SendEmail
  <2>3. \A t \in Sweep, x \in Email : InSweep(t, x)' <=> InSweep(t, x)
    BY <2>1, <2>2 DEF InSweep
  <2>4. E!TypeOK'
    BY <1>0, <2>1, <2>2 DEF MailInv, E!TypeOK
  <2>5. HeldOnce'
    BY <2>2, <2>3 DEF MailInv, HeldOnce
  <2>6. ASSUME m \notin unsure
        PROVE  /\ \A t \in Sweep \ {s} : m \notin DOMAIN sweep[t].wrote
               /\ mails[m] = 0
    <3>1. InSweep(s, m) /\ m \notin DOMAIN sweep[s].wrote
      BY <2>2 DEF MailInv, SweepShape, InSweep
    <3>2. email[m] = "queued" /\ \A t \in Sweep : InSweep(t, m) => t = s
      BY <2>6, <3>1 DEF MailInv, HeldOnce
    <3>3. \A t \in Sweep \ {s} : m \notin DOMAIN sweep[t].wrote
      BY <3>2 DEF InSweep
    <3>4. mails[m] = 0
      BY <2>6, <3>1, <3>2, <3>3 DEF MailInv, SentAsStored
    <3> QED
      BY <3>3, <3>4
  <2>7. mails[m] \in Nat /\ mails \in [Email -> Nat]
    BY DEF MailInv, E!TypeOK
  <2>8. WrittenAsSent'
    <3> SUFFICES ASSUME NEW x \in Email, x \notin unsure, NEW t \in Sweep, x \in DOMAIN sweep'[t].wrote
                 PROVE  mails'[x] = IF sweep'[t].wrote[x] = "sent" THEN 1 ELSE 0
      BY <2>2 DEF WrittenAsSent
    <3>1. CASE x = m
      BY <2>1, <2>2, <2>6, <2>7, <3>1
    <3>2. CASE x # m
      BY <2>1, <2>2, <2>7, <3>2 DEF MailInv, WrittenAsSent
    <3> QED
      BY <3>1, <3>2
  <2>9. SentAsStored'
    BY <2>1, <2>2, <2>7 DEF MailInv, SentAsStored
  <2> QED
    BY <2>1, <2>4, <2>5, <2>8, <2>9 DEF MailInv
<1>4. ASSUME NEW s \in Sweep, E!CommitSweep(s) PROVE MailInv'
  <2>1. /\ SweepShape'
        /\ \A t \in Sweep \ {s} : sweep'[t] = sweep[t]
        /\ sweep'[s].todo = {} /\ DOMAIN sweep'[s].wrote = {}
    BY <1>4, EndEffect DEF E!CommitSweep
  <2>2. UNCHANGED <<mails, unsure>> /\ sweep[s].todo = {}
        /\ email' = [m \in Email |-> IF m \in DOMAIN sweep[s].wrote THEN sweep[s].wrote[m] ELSE email[m]]
    BY <1>4 DEF E!CommitSweep
  <2>3. sweep[s].wrote \in Writes
    BY DEF MailInv, SweepShape
  <2>4. \A m \in DOMAIN sweep[s].wrote : sweep[s].wrote[m] \in {"sent", "failed"} /\ m \in Email
    BY <2>3, WritesType
  <2>5. E!TypeOK'
    BY <1>0, <2>1, <2>2, <2>4 DEF MailInv, E!TypeOK
  <2>6. HeldOnce'
    BY <2>1, <2>2 DEF MailInv, HeldOnce, InSweep
  <2>7. WrittenAsSent'
    BY <2>1, <2>2 DEF MailInv, WrittenAsSent
  <2>8. SentAsStored'
    <3> SUFFICES ASSUME NEW m \in Email, m \notin unsure,
                        \A t \in Sweep : m \notin DOMAIN sweep'[t].wrote
                 PROVE  mails[m] = IF email'[m] = "sent" THEN 1 ELSE 0
      BY <2>2 DEF SentAsStored
    <3>1. CASE m \in DOMAIN sweep[s].wrote
      BY <2>2, <3>1 DEF MailInv, WrittenAsSent
    <3>2. CASE m \notin DOMAIN sweep[s].wrote
      BY <2>1, <2>2, <3>2 DEF MailInv, SentAsStored
    <3> QED
      BY <3>1, <3>2
  <2> QED
    BY <2>1, <2>5, <2>6, <2>7, <2>8 DEF MailInv
<1>5. ASSUME NEW s \in Sweep, E!SweepDies(s) PROVE MailInv'
  <2>1. /\ SweepShape'
        /\ \A t \in Sweep \ {s} : sweep'[t] = sweep[t]
        /\ sweep'[s].todo = {} /\ DOMAIN sweep'[s].wrote = {}
    BY <1>5, EndEffect DEF E!SweepDies
  <2>2. UNCHANGED <<mails, email>> /\ unsure' = unsure \cup DOMAIN sweep[s].wrote
    BY <1>5 DEF E!SweepDies
  <2>3. E!TypeOK'
    BY <1>0, <2>1, <2>2, SweepTypes DEF MailInv, E!TypeOK
  <2>4. HeldOnce'
    BY <2>1, <2>2 DEF MailInv, HeldOnce, InSweep
  <2>5. WrittenAsSent' /\ SentAsStored'
    BY <2>1, <2>2 DEF MailInv, WrittenAsSent, SentAsStored
  <2> QED
    BY <2>1, <2>3, <2>4, <2>5 DEF MailInv
<1>6. CASE UNCHANGED E!vars
  BY <1>6 DEF E!vars, MailInv, E!TypeOK, SweepShape, HeldOnce, WrittenAsSent, SentAsStored, InSweep
<1> QED
  BY <1>1, <1>2, <1>3, <1>4, <1>5, <1>6 DEF E!Next

-----------------------------------------------------------------------------
(* The instances of the modules and those of their theorems are the same, name  *)
(* by name.                                                                  *)

LEMMA SameBilling ==
  /\ B!Assumptions <=> BP!Assumptions
  /\ B!vars = BP!vars
  /\ B!Init <=> BP!Init
  /\ B!Next <=> BP!Next
  /\ B!TypeOK <=> BP!TypeOK
  /\ B!NewestWins <=> BP!NewestWins
  /\ B!EventsAccountedFor <=> BP!EventsAccountedFor
<1> USE DEF
         B!EventShape, BP!EventShape, B!NoRow, BP!NoRow, B!Idle, BP!Idle, B!Mapped, BP!Mapped,
         B!Handled, BP!Handled, B!ShouldApply, BP!ShouldApply, B!PlanOf, BP!PlanOf, B!StatusOf,
         BP!StatusOf, B!Patch, BP!Patch, B!Writing, BP!Writing, B!NoteOverlap, BP!NoteOverlap,
         B!CheckoutRead, BP!CheckoutRead, B!CheckoutCreate, BP!CheckoutCreate, B!CheckoutCommit,
         BP!CheckoutCommit, B!CheckoutFails, BP!CheckoutFails, B!Deliver, BP!Deliver,
         B!Duplicate, BP!Duplicate, B!Ignore, BP!Ignore, B!Claim, BP!Claim, B!Begin, BP!Begin,
         B!Read, BP!Read, B!Stale, BP!Stale, B!Apply, BP!Apply, B!HandlerFails, BP!HandlerFails, B!Row, BP!Row,
         B!AppliedTo, BP!AppliedTo, B!InFlight, BP!InFlight
<1>1. B!Assumptions <=> BP!Assumptions
  BY DEF B!Assumptions, BP!Assumptions
<1>2. B!vars = BP!vars
  BY DEF B!vars, BP!vars
<1>3. B!Init <=> BP!Init
  BY DEF B!Init, BP!Init
<1>4. B!Next <=> BP!Next
  BY DEF B!Next, BP!Next
<1>5. B!TypeOK <=> BP!TypeOK
  BY DEF B!TypeOK, BP!TypeOK
<1>6. B!NewestWins <=> BP!NewestWins
  BY DEF B!NewestWins, BP!NewestWins
<1>7. B!EventsAccountedFor <=> BP!EventsAccountedFor
  BY DEF B!EventsAccountedFor, BP!EventsAccountedFor
<1> QED
  BY <1>1, <1>2, <1>3, <1>4, <1>5, <1>6, <1>7

LEMMA BillingSpec == B!Spec => BP!Spec
<1>1. B!Init => BP!Init
  BY SameBilling
<1>2. [B!Next]_B!vars => [BP!Next]_BP!vars
  BY SameBilling DEF B!vars, BP!vars
<1> QED
  BY <1>1, <1>2, PTL DEF B!Spec, BP!Spec

LEMMA SameWebhooks ==
  /\ W!Assumptions <=> WP!Assumptions
  /\ W!vars = WP!vars
  /\ W!Init <=> WP!Init
  /\ W!Next <=> WP!Next
  /\ W!TypeOK <=> WP!TypeOK
  /\ W!PostsBounded <=> WP!PostsBounded
  /\ W!SettledStays <=> WP!SettledStays
<1> USE DEF
         W!NoWrite, WP!NoWrite, W!IdleBatch, WP!IdleBatch, W!EnqueueWebhook, WP!EnqueueWebhook,
         W!DisableEndpoint, WP!DisableEndpoint, W!Due, WP!Due, W!IsLast, WP!IsLast, W!AtLimit,
         WP!AtLimit, W!HeldBy, WP!HeldBy, W!StartBatch, WP!StartBatch, W!Seen, WP!Seen,
         W!RowFree, WP!RowFree, W!EndpointFree, WP!EndpointFree, W!Written, WP!Written,
         W!Without, WP!Without, W!Refuse, WP!Refuse, W!Post, WP!Post, W!Record, WP!Record,
         W!Answered, WP!Answered, W!Rejected, WP!Rejected, W!Unanswered, WP!Unanswered,
         W!CommitBatch, WP!CommitBatch, W!BatchDies, WP!BatchDies, W!Cardinality, WP!Cardinality
<1>1. W!Assumptions <=> WP!Assumptions
  BY DEF W!Assumptions, WP!Assumptions
<1>2. W!vars = WP!vars
  BY DEF W!vars, WP!vars
<1>3. W!Init <=> WP!Init
  BY DEF W!Init, WP!Init
<1>4. W!Next <=> WP!Next
  BY DEF W!Next, WP!Next
<1>5. W!TypeOK <=> WP!TypeOK
  BY DEF W!TypeOK, WP!TypeOK
<1>6. W!PostsBounded <=> WP!PostsBounded
  BY DEF W!PostsBounded, WP!PostsBounded
<1>7. W!SettledStays <=> WP!SettledStays
  BY DEF W!SettledStays, WP!SettledStays
<1> QED
  BY <1>1, <1>2, <1>3, <1>4, <1>5, <1>6, <1>7

LEMMA WebhooksSpec == W!Spec => WP!Spec
<1>1. W!Init => WP!Init
  BY SameWebhooks
<1>2. [W!Next]_W!vars => [WP!Next]_WP!vars
  BY SameWebhooks DEF W!vars, WP!vars
<1> QED
  BY <1>1, <1>2, PTL DEF W!Spec, WP!Spec

-----------------------------------------------------------------------------
(* One module moves: its behaviours are those of its own specification.       *)

LEMMA BillingPart == TenantSpec => B!Spec \/ [](part # "billing")
<1>1. TenantInit => (part = "billing" /\ B!Init) \/ part # "billing"
  BY DEF TenantInit
<1>2. part = "billing" /\ [TenantNext]_tenantVars => (part = "billing")' /\ [B!Next]_B!vars
  BY Zenon DEF TenantNext, tenantVars, billingVars, B!Next, B!vars,
               Only, OnlyBilling, OnlyMetering, OnlyKeys, OnlyWebhooks, OnlyEmails
<1>3. part # "billing" /\ [TenantNext]_tenantVars => (part # "billing")'
  BY Zenon DEF TenantNext, tenantVars,
               Only, OnlyBilling, OnlyMetering, OnlyKeys, OnlyWebhooks, OnlyEmails
<1> QED
  BY <1>1, <1>2, <1>3, PTL DEF TenantSpec, B!Spec

LEMMA KeysPart == TenantSpec => K!Spec \/ [](part # "keys")
<1>1. TenantInit => (part = "keys" /\ K!Init) \/ part # "keys"
  BY DEF TenantInit
<1>2. part = "keys" /\ [TenantNext]_tenantVars => (part = "keys")' /\ [K!Next]_K!vars
  BY Zenon DEF TenantNext, tenantVars, keyVars, K!Next, K!vars,
               Only, OnlyBilling, OnlyMetering, OnlyKeys, OnlyWebhooks, OnlyEmails
<1>3. part # "keys" /\ [TenantNext]_tenantVars => (part # "keys")'
  BY Zenon DEF TenantNext, tenantVars,
               Only, OnlyBilling, OnlyMetering, OnlyKeys, OnlyWebhooks, OnlyEmails
<1> QED
  BY <1>1, <1>2, <1>3, PTL DEF TenantSpec, K!Spec

LEMMA WebhooksPart == TenantSpec => W!Spec \/ [](part # "webhooks")
<1>1. TenantInit => (part = "webhooks" /\ W!Init) \/ part # "webhooks"
  BY DEF TenantInit
<1>2. part = "webhooks" /\ [TenantNext]_tenantVars => (part = "webhooks")' /\ [W!Next]_W!vars
  BY Zenon DEF TenantNext, tenantVars, webhookVars, W!Next, W!vars,
               Only, OnlyBilling, OnlyMetering, OnlyKeys, OnlyWebhooks, OnlyEmails
<1>3. part # "webhooks" /\ [TenantNext]_tenantVars => (part # "webhooks")'
  BY Zenon DEF TenantNext, tenantVars,
               Only, OnlyBilling, OnlyMetering, OnlyKeys, OnlyWebhooks, OnlyEmails
<1> QED
  BY <1>1, <1>2, <1>3, PTL DEF TenantSpec, W!Spec

LEMMA EmailsPart == TenantSpec => E!Spec \/ [](part # "emails")
<1>1. TenantInit => (part = "emails" /\ E!Init) \/ part # "emails"
  BY DEF TenantInit
<1>2. part = "emails" /\ [TenantNext]_tenantVars => (part = "emails")' /\ [E!Next]_E!vars
  BY Zenon DEF TenantNext, tenantVars, emailVars, E!Next, E!vars,
               Only, OnlyBilling, OnlyMetering, OnlyKeys, OnlyWebhooks, OnlyEmails
<1>3. part # "emails" /\ [TenantNext]_tenantVars => (part # "emails")'
  BY Zenon DEF TenantNext, tenantVars,
               Only, OnlyBilling, OnlyMetering, OnlyKeys, OnlyWebhooks, OnlyEmails
<1> QED
  BY <1>1, <1>2, <1>3, PTL DEF TenantSpec, E!Spec

LEMMA MeteringPart == TenantSpec => Spec
<1>1. TenantInit => Init
  BY DEF TenantInit, NoMetering
<1>2. [TenantNext]_tenantVars => [Next]_vars
  BY Zenon DEF TenantNext, tenantVars, Next, vars,
               Only, OnlyBilling, OnlyMetering, OnlyKeys, OnlyWebhooks, OnlyEmails
<1> QED
  BY <1>1, <1>2, PTL DEF TenantSpec, Spec

LEMMA KeysAreCounted == K!Spec => []KeyInv
<1>1. K!Assumptions
  BY TenantAssumptions
<1> QED
  BY <1>1, KeyInvInit, KeyInvStep, PTL DEF K!Spec

LEMMA MailsAreHeldOnce == E!Spec => []MailInv
  BY MailInvInit, MailInvStep, PTL DEF E!Spec

-----------------------------------------------------------------------------
(* The properties of the run. *)

\* assertTenantWithinLimit and rotateTenantApiKey: in any order of create, revoke
\* and rotate, by any number of consoles, a tenant passes its plan's limit only by
\* keys created while another came in after their count, or rotated from an
\* inactive one.
THEOREM KeysStayWithinLimit == TenantSpec => []KeysWithinLimit
<1>1. KeyInv => KeysWithinLimit
  BY KeyCount DEF KeyInv, KeysWithinLimit, K!KeysWithinLimit
<1>9. part # "keys" => KeysWithinLimit
  BY DEF KeysWithinLimit
<1> QED
  BY KeysAreCounted, <1>1, <1>9, KeysPart, PTL

\* processQueuedEmailDeliveries, which marks a row after it was sent: for any
\* number of workers, an e-mail goes out once and is marked sent only if it went
\* out, but for those that two sweeps held or that a dead sweep had sent.
THEOREM MailsGoOutOnce == TenantSpec => []MailedOnce
<1>1. MailInv => E!MailedOnce
  <2> SUFFICES ASSUME MailInv, NEW m \in Email, m \notin unsure
               PROVE  mails[m] <= 1 /\ (email[m] = "sent" => mails[m] = 1)
    BY DEF E!MailedOnce
  <2>1. CASE \E s \in Sweep : m \in DOMAIN sweep[s].wrote
    BY <2>1 DEF MailInv, WrittenAsSent, HeldOnce, InSweep
  <2>2. CASE \A s \in Sweep : m \notin DOMAIN sweep[s].wrote
    BY <2>2 DEF MailInv, SentAsStored
  <2> QED
    BY <2>1, <2>2
<1>2. E!MailedOnce => MailedOnce
  BY DEF MailedOnce
<1>9. part # "emails" => MailedOnce
  BY DEF MailedOnce
<1> QED
  BY MailsAreHeldOnce, <1>1, <1>2, <1>9, EmailsPart, PTL

\* shouldApplyStripeEvent, beside everything else a tenant does: the billing row
\* shows the newest event applied while no two transactions on the row overlapped,
\* a handler's from the start its audit row carries.
THEOREM NewestEventIsShown == TenantSpec => []NewestWins
<1>1. BP!Spec => []BP!NewestWins
  BY BP!NewestIsShown, SameBilling, TenantAssumptions
<1>2. BP!NewestWins => NewestWins
  BY SameBilling DEF NewestWins
<1>9. part # "billing" => NewestWins
  BY DEF NewestWins
<1> QED
  BY <1>1, <1>2, BillingSpec, <1>9, BillingPart, PTL

\* claimStripeEvent: a claimed event is applied at most once, and one that never is
\* was stale, unmapped or died with its handler.
THEOREM NoEventIsForgotten == TenantSpec => []EventsAccountedFor
<1>1. BP!Spec => []BP!EventsAccountedFor
  BY BP!EventsAreAccountedFor, SameBilling, TenantAssumptions
<1>2. BP!EventsAccountedFor => EventsAccountedFor
  BY SameBilling DEF EventsAccountedFor
<1>9. part # "billing" => EventsAccountedFor
  BY DEF EventsAccountedFor
<1> QED
  BY <1>1, <1>2, BillingSpec, <1>9, BillingPart, PTL

\* processDueWebhookDeliveries: a delivery no two batches held at once is posted at
\* most MAX_WEBHOOK_ATTEMPTS times, not counting the posts of batches rolled back.
THEOREM PostsStayBounded == TenantSpec => []PostsBounded
<1>1. WP!Spec => []WP!PostsBounded
  BY WP!PostsAreBounded, SameWebhooks, TenantAssumptions
<1>2. WP!PostsBounded => PostsBounded
  BY SameWebhooks DEF PostsBounded
<1>9. part # "webhooks" => PostsBounded
  BY DEF PostsBounded
<1> QED
  BY <1>1, <1>2, WebhooksSpec, <1>9, WebhooksPart, PTL

\* processDueWebhookDeliveries: a delivered or dead delivery stays what it is, but
\* for one that two batches held at once.
THEOREM SettledDeliveriesStay == TenantSpec => SettledIsFinal
<1>1. WP!Spec => [][WP!SettledStays]_WP!vars
  BY WP!SettledStaysSettled, SameWebhooks, TenantAssumptions DEF WP!SettledIsFinal
<1>2. [WP!SettledStays]_WP!vars => [part = "webhooks" => W!SettledStays]_webhookVars
  BY SameWebhooks DEF WP!vars, webhookVars
<1>3. part # "webhooks" => [part = "webhooks" => W!SettledStays]_webhookVars
  OBVIOUS
<1> QED
  BY <1>1, <1>2, <1>3, WebhooksSpec, WebhooksPart, PTL DEF SettledIsFinal

\* Whatever part runs, its variables hold values of their kinds.
THEOREM TypesCorrect == TenantSpec => []TypesOK
<1>1. BP!Spec => []BP!TypeOK
  BY BP!TypeCorrect, SameBilling, TenantAssumptions
<1>2. WP!Spec => []WP!TypeOK
  BY WP!TypeCorrect, SameWebhooks, TenantAssumptions
<1>3. Spec => []TypeOK
  BY TypeCorrect, TenantAssumptions
<1>4. KeyInv => K!TypeOK
  BY DEF KeyInv
<1>5. MailInv => E!TypeOK
  BY DEF MailInv
<1>6. TenantInit => part \in {"billing", "metering", "keys", "webhooks", "emails"}
  BY DEF TenantInit
<1>7. part \in {"billing", "metering", "keys", "webhooks", "emails"} /\ [TenantNext]_tenantVars
      => (part \in {"billing", "metering", "keys", "webhooks", "emails"})'
  BY Zenon DEF TenantNext, tenantVars,
               Only, OnlyBilling, OnlyMetering, OnlyKeys, OnlyWebhooks, OnlyEmails
<1>8. /\ part \in {"billing", "metering", "keys", "webhooks", "emails"}
      /\ BP!TypeOK \/ part # "billing"
      /\ WP!TypeOK \/ part # "webhooks"
      /\ K!TypeOK \/ part # "keys"
      /\ E!TypeOK \/ part # "emails"
      /\ TypeOK
      => TypesOK
  BY SameBilling, SameWebhooks DEF TypesOK
<1> QED
  BY <1>1, <1>2, <1>3, <1>4, <1>5, <1>6, <1>7, <1>8, BillingPart, BillingSpec, WebhooksPart,
     WebhooksSpec, KeysPart, KeysAreCounted, EmailsPart, MailsAreHeldOnce, MeteringPart, PTL
     DEF TenantSpec

=============================================================================
