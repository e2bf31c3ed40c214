----------------------------- MODULE TenantMetering -----------------------------
(***************************************************************************)
(* One tenant's metered API requests: acceptIngestEvent, whose event, outbox *)
(* row and usage are one transaction, and the meter of a commercial read.    *)
(* Both check the plan's monthly limit before they record their unit, under  *)
(* READ COMMITTED and with no lock on the counter they compare, and both     *)
(* serialise afterwards on the counter's row.  A request is modelled as its  *)
(* transaction: what it has inserted and not committed is in its own record, *)
(* and a unique index makes a second inserter wait.  A revoked key, a denied *)
(* entitlement or a lost connection is a request that fails.                 *)
(***************************************************************************)
EXTENDS Naturals, FiniteSets

CONSTANTS Request,       \* API requests in progress
          IdempotencyKey,
          Fingerprint,   \* what fingerprintIngest tells apart
          RequestId,     \* x-request-id values of reads
          Limits,        \* the limits of the plans the tenant may be on
          Threshold,     \* USAGE_WARNING_THRESHOLDS, in per cent
          None

Assumptions ==
  /\ Limits # {} /\ Limits \subseteq Nat \ {0}
  /\ Threshold \subseteq 1..100
  /\ None \notin Fingerprint
  /\ IsFiniteSet(Request)

VARIABLES
  limit,       \* the entitlement api_requests_per_month of the current plan
  events,      \* key -> fingerprint of the tenant's committed source event, or None
  outbox,      \* keys whose event has an outbox row
  usage,       \* committed usage_event keys, per meter
  month,       \* usage_month, per meter
  warnings,    \* threshold -> usage.warning notifications created this month
  request,     \* request -> its transaction
  answers,     \* ghost: key, fingerprint and result of every accepted ingest
  highest,     \* ghost: the highest limit so far
  replanned    \* ghost: the plan changed during the month

vars == <<limit, events, outbox, usage, month, warnings, request,
          answers, highest, replanned>>

Meter == {"ingest.events", "api.reads"}
Idle == [pc |-> "idle"]

Init ==
  /\ limit \in Limits
  /\ events = [k \in IdempotencyKey |-> None]
  /\ outbox = {}
  /\ usage = [m \in Meter |-> {}]
  /\ month = [m \in Meter |-> 0]
  /\ warnings = [t \in Threshold |-> 0]
  /\ request = [r \in Request |-> Idle]
  /\ answers = {}
  /\ highest = limit
  /\ replanned = FALSE

-----------------------------------------------------------------------------
(* The plan, and the checks on it *)

\* The subscription or an override changes: loadEntitlement reads it each time.
PlanChanges ==
  /\ limit' \in Limits \ {limit}
  /\ highest' = IF limit' > highest THEN limit' ELSE highest
  /\ replanned' = TRUE
  /\ UNCHANGED <<events, outbox, usage, month, warnings, request, answers>>

\* Mutant: the last unit is granted twice.
WithinQuotaInclusive(m) == month[m] <= limit

\* assertQuota
WithinQuota(m) == month[m] < limit

\* The thresholds the month's usage has reached, as evaluateUsageWarnings counts.
Reached(n, l) == {t \in Threshold : n * 100 >= t * l}

Reply(key, fp, result) == answers' = answers \cup {[key |-> key, fp |-> fp, result |-> result]}

\* Requests whose uncommitted work makes others wait: the same idempotency key,
\* the same usage key, or the counter row of the same meter.
Inserting(k) == \E q \in Request : request[q].pc \in {"inserted", "counted"}
                                   /\ request[q].meter = "ingest.events" /\ request[q].key = k
CounterHeld(m) == \E q \in Request : request[q].pc = "counted" /\ request[q].meter = m
                                     /\ request[q].new

-----------------------------------------------------------------------------
(* acceptIngestEvent *)

\* The key is known with this fingerprint; with another one the request is refused
\* as a conflict and changes nothing.
IngestKnown(k, f) ==
  /\ events[k] = f
  /\ Reply(k, f, "duplicate")
  /\ UNCHANGED <<limit, events, outbox, usage, month, warnings, request, highest, replanned>>

\* No event yet and quota left; over quota the request is refused.
IngestChecked(r, k, f) ==
  /\ request[r].pc = "idle"
  /\ events[k] = None
  /\ WithinQuota("ingest.events")
  /\ request' = [request EXCEPT ![r] = [pc |-> "checked", meter |-> "ingest.events",
                                        key |-> k, fp |-> f]]
  /\ UNCHANGED <<limit, events, outbox, usage, month, warnings, answers, highest, replanned>>

\* insertSourceEvent and insertOutboxJob wait for a concurrent insert of the key.
IngestInsert(r) ==
  /\ request[r].pc = "checked"
  /\ request[r].meter = "ingest.events"
  /\ ~Inserting(request[r].key)
  /\ events[request[r].key] = None
  /\ request' = [request EXCEPT ![r].pc = "inserted"]
  /\ UNCHANGED <<limit, events, outbox, usage, month, warnings, answers, highest, replanned>>

\* Mutant: the collision is answered as a duplicate.
IngestCollidesAsDuplicate(r) ==
  /\ request[r].pc = "checked"
  /\ request[r].meter = "ingest.events"
  /\ ~Inserting(request[r].key)
  /\ events[request[r].key] # None
  /\ Reply(request[r].key, request[r].fp, "duplicate")
  /\ request' = [request EXCEPT ![r] = Idle]
  /\ UNCHANGED <<limit, events, outbox, usage, month, warnings, highest, replanned>>

\* Another request committed the key first: source_event_org_idempotency_uidx
\* raises and the request ends in an error, never in an answer.
IngestCollides(r) ==
  /\ request[r].pc = "checked"
  /\ request[r].meter = "ingest.events"
  /\ ~Inserting(request[r].key)
  /\ events[request[r].key] # None
  /\ request' = [request EXCEPT ![r] = Idle]
  /\ UNCHANGED <<limit, events, outbox, usage, month, warnings, answers, highest, replanned>>

\* recordUsage: one unit per usage key, then the counter's row, held to the commit.
IngestCount(r) ==
  /\ request[r].pc = "inserted"
  /\ ~CounterHeld("ingest.events")
  /\ request' = [request EXCEPT ![r] = [pc |-> "counted", meter |-> @.meter, key |-> @.key,
                   fp |-> @.fp, new |-> @.key \notin usage["ingest.events"]]]
  /\ UNCHANGED <<limit, events, outbox, usage, month, warnings, answers, highest, replanned>>

IngestCommit(r) ==
  LET q == request[r]
  IN /\ q.pc = "counted" /\ q.meter = "ingest.events"
     /\ events' = [events EXCEPT ![q.key] = q.fp]
     /\ outbox' = outbox \cup {q.key}
     /\ usage' = [usage EXCEPT !["ingest.events"] = @ \cup {q.key}]
     /\ month' = [month EXCEPT !["ingest.events"] = IF q.new THEN @ + 1 ELSE @]
     /\ Reply(q.key, q.fp, "accepted")
     /\ request' = [request EXCEPT ![r] = Idle]
     /\ UNCHANGED <<limit, warnings, highest, replanned>>

-----------------------------------------------------------------------------
(* The meter of a read *)

\* Some routes do not enforce the quota; refused reads change nothing.
ReadChecked(r, id, enforce) ==
  /\ request[r].pc = "idle"
  /\ enforce => WithinQuota("api.reads")
  /\ request' = [request EXCEPT ![r] = [pc |-> "checked", meter |-> "api.reads", key |-> id]]
  /\ UNCHANGED <<limit, events, outbox, usage, month, warnings, answers, highest, replanned>>

\* A request id already counted, or being counted, adds nothing.
ReadCount(r) ==
  /\ request[r].pc = "checked"
  /\ request[r].meter = "api.reads"
  /\ ~CounterHeld("api.reads")
  /\ request' = [request EXCEPT ![r] = [pc |-> "counted", meter |-> @.meter, key |-> @.key,
                                        new |-> @.key \notin usage["api.reads"]]]
  /\ UNCHANGED <<limit, events, outbox, usage, month, warnings, answers, highest, replanned>>

\* Mutant: the warnings look at the month before the request's own unit.
UsageBefore(m, q) == month[m]

\* getMonthUsage inside a transaction that has counted: its own unit included.
UsageSeen(m, q) == month[m] + (IF q.new THEN 1 ELSE 0)

\* evaluateQuota, evaluateUsageWarnings and the commit.  usage_warning's primary
\* key lets one transaction create a threshold's notification.
ReadCommit(r) ==
  LET q == request[r]
      n == UsageSeen("api.reads", q)
  IN /\ q.pc = "counted" /\ q.meter = "api.reads"
     /\ usage' = [usage EXCEPT !["api.reads"] = @ \cup {q.key}]
     /\ month' = [month EXCEPT !["api.reads"] = IF q.new THEN @ + 1 ELSE @]
     /\ warnings' = [t \in Threshold |->
          IF t \in Reached(n, limit) /\ warnings[t] = 0 THEN 1 ELSE warnings[t]]
     /\ request' = [request EXCEPT ![r] = Idle]
     /\ UNCHANGED <<limit, events, outbox, answers, highest, replanned>>

\* The transaction rolls back.
RequestFails(r) ==
  /\ request[r].pc # "idle"
  /\ request' = [request EXCEPT ![r] = Idle]
  /\ UNCHANGED <<limit, events, outbox, usage, month, warnings, answers, highest, replanned>>

Next ==
  \/ PlanChanges
  \/ \E k \in IdempotencyKey, f \in Fingerprint : IngestKnown(k, f)
  \/ \E r \in Request, k \in IdempotencyKey, f \in Fingerprint : IngestChecked(r, k, f)
  \/ \E r \in Request : IngestInsert(r)
  \/ \E r \in Request : IngestCollides(r)
  \/ \E r \in Request : IngestCount(r)
  \/ \E r \in Request : IngestCommit(r)
  \/ \E r \in Request, id \in RequestId, enforce \in BOOLEAN : ReadChecked(r, id, enforce)
  \/ \E r \in Request : ReadCount(r)
  \/ \E r \in Request : ReadCommit(r)
  \/ \E r \in Request : RequestFails(r)

Spec == Init /\ [][Next]_vars

-----------------------------------------------------------------------------
(* Properties *)

\* Every column and transaction holds a value of its kind.
TypeOK ==
  /\ limit \in Limits /\ highest \in Limits
  /\ events \in [IdempotencyKey -> Fingerprint \cup {None}]
  /\ outbox \subseteq IdempotencyKey
  /\ usage["ingest.events"] \subseteq IdempotencyKey /\ usage["api.reads"] \subseteq RequestId
  /\ month \in [Meter -> Nat]
  /\ warnings \in [Threshold -> Nat]
  /\ \A r \in Request : request[r].pc \in {"idle", "checked", "inserted", "counted"}
  /\ replanned \in BOOLEAN

\* Requests that all read the last free unit may all take it: the month's ingest
\* passes the highest limit the tenant had by at most the other requests in progress.
OverrunIsBounded == month["ingest.events"] <= highest + Cardinality(Request) - 1

\* Whoever is told that a key was accepted, now or before, sent what is stored
\* under it, also when two requests with one key raced, and its job is in the outbox.
AnswersAgree ==
  \A a \in answers : events[a.key] = a.fp /\ a.key \in outbox

\* In a month without a change of plan no reached threshold of reads is without its
\* warning, though each request judges by what it could read.
WarningsKeepUp ==
  ~replanned => \A t \in Reached(month["api.reads"], limit) : warnings[t] = 1

=============================================================================
