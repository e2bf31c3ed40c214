------------------------------ MODULE ProviderSync ------------------------------
(***************************************************************************)
(* The sync of one social discovery provider (YouTube, Google or Reddit):  *)
(* a lease of fixed length on the provider's row, then the lookups of      *)
(* creators that workspaces follow or the seed list names, the promotion   *)
(* of followed ones, the hourly visit of a monitored creator, and a        *)
(* discovery search whose result is persisted. Every request to the        *)
(* provider reserves one unit of the day's budget first, in a transaction  *)
(* of its own. What the rows of follows and seeds say of themselves is     *)
(* left out. Syncs are started by either transport, by retries and by      *)
(* operators, so any number may be started at any time. Scheduling and     *)
(* topics only decide when and for which query.                            *)
(***************************************************************************)
EXTENDS Integers, FiniteSets

CONSTANTS Sync,       \* syncs in progress
          Creator,    \* discovered_creator rows (discovery may insert them)
          Budget,     \* requests per day
          Lease,      \* lease_until - now(), in ticks
          Interval,   \* next_monitor_at - now(), in ticks
          Day,        \* ticks of a day
          Horizon,    \* bound: the last tick
          MaxActs,    \* bound: decisions, exclusions and pauses of operators
          None        \* SQL null

State == {"candidate", "monitored", "excluded"}   \* low_confidence is as candidate

Assumptions ==
  {Budget, Lease, Interval, Day, Horizon, MaxActs} \subseteq Nat \ {0}
  /\ None \notin State /\ None \notin Nat

VARIABLES
  now,
  paused,      \* provider_runtime.paused, or not enabled
  lease,       \* provider_runtime.lease_until; 0 is null
  used,        \* day -> discovery_request_budget.requests_used
  row,         \* creator -> [state, operator, next, trust]
  sync,        \* sync -> its progress: see Idle
  acts,        \* operator actions so far
  sent,        \* ghost: day -> requests sent on a reservation of that day
  holder,      \* ghost: the sync that took the lease last
  outlived,    \* ghost: leases taken from a sync that was still running
  visits,      \* ghost: creator -> [count, last] of its monitoring visits
  decided,     \* ghost: creator -> the operator's latest decision
  requested,   \* ghost: creators monitored since for a follow or the seed list
  raced        \* ghost: creators whose decision a transaction that had read
               \* the row before it overwrote

vars == <<now, paused, lease, used, row, sync, acts, sent, holder, outlived,
          visits, decided, requested, raced>>

Days == 0..(Horizon \div Day)
Today == now \div Day
Idle == [pc |-> "idle", creator |-> None, snap |-> None, day |-> None]
Running == {s \in Sync : sync[s].pc \notin {"idle", "checked"}}

Init ==
  /\ now = 1 /\ paused = FALSE /\ lease = 0
  /\ used = [d \in Days |-> 0]
  /\ row = [c \in Creator |-> [state |-> "none", operator |-> None, next |-> 0, trust |-> TRUE]]
  /\ sync = [s \in Sync |-> Idle]
  /\ acts = 0 /\ sent = [d \in Days |-> 0]
  /\ holder = None /\ outlived = 0
  /\ visits = [c \in Creator |-> [count |-> 0, last |-> -Interval]]
  /\ decided = [c \in Creator |-> None]
  /\ requested = {} /\ raced = {}

Goto(s, pc) == sync' = [sync EXCEPT ![s].pc = pc]

-----------------------------------------------------------------------------
(* The lease *)

\* Mutant: the lease in force is not looked at.
LeaseFreeAlways == TRUE

LeaseFree == lease = 0 \/ lease < now

\* syncProvider: the operator's switches, read in a transaction of their own.
Begin(s) ==
  /\ sync[s].pc = "idle" /\ ~paused
  /\ Goto(s, "checked")
  /\ UNCHANGED <<now, paused, lease, used, row, sent, holder, outlived, visits, decided, requested, raced, acts>>

TakeLease(s) ==
  /\ sync[s].pc = "checked"
  /\ LeaseFree
  /\ lease' = now + Lease
  /\ outlived' = IF lease # 0 /\ lease < now /\ holder \in Running THEN outlived + 1 ELSE outlived
  /\ holder' = s
  /\ \E pc \in {"resolve", "topic"} : Goto(s, pc)      \* trigger schedule, or not
  /\ UNCHANGED <<now, paused, used, row, sent, visits, decided, requested, raced, acts>>

Overlap(s) ==
  /\ sync[s].pc = "checked" /\ ~LeaseFree
  /\ Goto(s, "idle")
  /\ UNCHANGED <<now, paused, lease, used, row, sent, holder, outlived, visits, decided, requested, raced, acts>>

\* The finally block releases whatever lease there is.
ReleaseLease(s) ==
  /\ sync[s].pc = "release"
  /\ lease' = 0
  /\ sync' = [sync EXCEPT ![s] = Idle]
  /\ UNCHANGED <<now, paused, used, row, sent, holder, outlived, visits, decided, requested, raced, acts>>

-----------------------------------------------------------------------------
(* Requests *)

\* reserveDiscoveryRequest: one upsert whose update requires used < budget.
WithinBudget == used[Today] < Budget

\* budgetedDiscoveryTransport: a reservation, committed...
Reserve(s, from, reserved, refused) ==
  /\ sync[s].pc \in from
  /\ IF WithinBudget
     THEN /\ used' = [used EXCEPT ![Today] = @ + 1]
          /\ sync' = [sync EXCEPT ![s].pc = reserved, ![s].day = Today]
     ELSE Goto(s, refused) /\ UNCHANGED used
  /\ UNCHANGED <<now, paused, lease, row, sent, holder, outlived, visits, decided, requested, raced, acts>>

\* ...and then the request, answered or not.
Send(s, reserved, answered) ==
  /\ sync[s].pc = reserved
  /\ sent' = [sent EXCEPT ![sync[s].day] = @ + 1]
  /\ sync' = [sync EXCEPT ![s].pc = answered, ![s].day = None]
  /\ UNCHANGED <<now, paused, lease, used, row, holder, outlived, visits, decided, requested, raced, acts>>

-----------------------------------------------------------------------------
(* Follows and seeds, followed creators, and the hourly visit *)

\* resolvePendingCreatorFollows, then resolvePendingInfluencerSeeds: the switches
\* are read with the list of handles that wait.
ListHandles(s) ==
  /\ sync[s].pc = "resolve"
  /\ Goto(s, IF paused THEN "promote" ELSE "handles")
  /\ UNCHANGED <<now, paused, lease, used, row, sent, holder, outlived, visits, decided, requested, raced, acts>>

\* A request for each of them; a spent budget ends the list.
LookupReserve(s) == Reserve(s, {"handles"}, "lookup", "resolve")
LookupSend(s) == Send(s, "lookup", "lookedUp")

\* Nobody is found, the creator is excluded or already monitored, or an error.
LookupIdle(s) ==
  /\ sync[s].pc = "lookedUp"
  /\ Goto(s, "handles")
  /\ UNCHANGED <<now, paused, lease, used, row, sent, holder, outlived, visits, decided, requested, raced, acts>>

\* ensureRequestedCreatorMonitored reads the row without a lock...
ResolveRead(s, c) ==
  /\ sync[s].pc = "lookedUp"
  /\ row[c].trust /\ row[c].state \in {"none", "candidate"}
  /\ sync' = [sync EXCEPT ![s] = [Idle EXCEPT !.pc = "resolving", !.creator = c, !.snap = row[c]]]
  /\ UNCHANGED <<now, paused, lease, used, row, sent, holder, outlived, visits, decided, requested, raced, acts>>

Overwrites(c, snap) == IF row[c].operator # snap.operator THEN raced \cup {c} ELSE raced

\* A row that another transaction inserted after this one found none.
Conflict(s) == sync[s].snap.state = "none" /\ row[sync[s].creator].state # "none"

\* A followed or seeded creator's row, by its id, with the provenance that was read.
Monitor(c, snap) ==
  /\ row' = [row EXCEPT ![c].state = "monitored", ![c].operator = snap.operator]
  /\ raced' = Overwrites(c, snap)
  /\ requested' = requested \cup {c}

\* ...and then updates or inserts it; a conflict's exception ends the list.
ResolveWrite(s) ==
  /\ sync[s].pc = "resolving"
  /\ IF Conflict(s) THEN UNCHANGED <<row, requested, raced>> ELSE Monitor(sync[s].creator, sync[s].snap)
  /\ sync' = [sync EXCEPT ![s] = [Idle EXCEPT !.pc = IF Conflict(s) THEN "resolve" ELSE "handles"]]
  /\ UNCHANGED <<now, paused, lease, used, sent, holder, outlived, visits, decided, acts>>

ListDone(s) ==
  /\ sync[s].pc = "handles"
  /\ \E pc \in {"resolve", "promote"} : Goto(s, pc)
  /\ UNCHANGED <<now, paused, lease, used, row, sent, holder, outlived, visits, decided, requested, raced, acts>>

\* promoteFollowedCreators selects the rows and then updates each by its id,
\* writing the provenance it read, operator_state included.
PromoteRead(s, c) ==
  /\ sync[s].pc = "promote"
  /\ row[c].state = "candidate" /\ row[c].trust
  /\ sync' = [sync EXCEPT ![s] = [Idle EXCEPT !.pc = "promoting", !.creator = c, !.snap = row[c]]]
  /\ UNCHANGED <<now, paused, lease, used, row, sent, holder, outlived, visits, decided, requested, raced, acts>>

PromoteWrite(s) ==
  /\ sync[s].pc = "promoting"
  /\ Monitor(sync[s].creator, sync[s].snap)
  /\ sync' = [sync EXCEPT ![s] = [Idle EXCEPT !.pc = "monitor"]]
  /\ UNCHANGED <<now, paused, lease, used, sent, holder, outlived, visits, decided, acts>>

NothingToPromote(s) ==
  /\ sync[s].pc = "promote"
  /\ Goto(s, "monitor")
  /\ UNCHANGED <<now, paused, lease, used, row, sent, holder, outlived, visits, decided, requested, raced, acts>>

Due(c) == row[c].state = "monitored" /\ row[c].next <= now

\* Mutant: the next visit is left to be set when this one has succeeded.
NextVisitUnset(c) == row[c].next

NextVisit(c) == now + Interval

\* runCreatorMonitoring: the claim, FOR UPDATE SKIP LOCKED, committed before
\* any request is made.
ClaimVisit(s, c) ==
  /\ sync[s].pc = "monitor" /\ ~paused /\ Due(c) /\ row[c].trust
  /\ row' = [row EXCEPT ![c].next = NextVisit(c)]
  /\ visits' = [visits EXCEPT ![c] = [count |-> @.count + 1, last |-> now]]
  /\ sync' = [sync EXCEPT ![s] = [Idle EXCEPT !.pc = "visit", !.creator = c]]
  /\ UNCHANGED <<now, paused, lease, used, sent, holder, outlived, decided, requested, raced, acts>>

\* A due creator that is no longer trusted is excluded instead.
ExcludeUntrusted(s, c) ==
  /\ sync[s].pc = "monitor" /\ ~paused /\ Due(c) /\ ~row[c].trust
  /\ row' = [row EXCEPT ![c].state = "excluded"]
  /\ Goto(s, "topic")
  /\ UNCHANGED <<now, paused, lease, used, sent, holder, outlived, visits, decided, requested, raced, acts>>

NoVisit(s) ==
  /\ sync[s].pc = "monitor"
  /\ paused \/ \A c \in Creator : ~Due(c)
  /\ Goto(s, "topic")
  /\ UNCHANGED <<now, paused, lease, used, row, sent, holder, outlived, visits, decided, requested, raced, acts>>

\* A visit may take several requests; one that is refused is an error of it.
VisitReserve(s) == Reserve(s, {"visit", "visited"}, "visitReserved", "topic")
VisitSend(s) == Send(s, "visitReserved", "visited")

\* The answer, persisted unless an operator paused or excluded meanwhile, or
\* an error: either way discovery follows.
Visited(s) ==
  /\ sync[s].pc = "visited"
  /\ sync' = [sync EXCEPT ![s] = [Idle EXCEPT !.pc = "topic"]]
  /\ UNCHANGED <<now, paused, lease, used, row, sent, holder, outlived, visits, decided, requested, raced, acts>>

-----------------------------------------------------------------------------
(* Discovery *)

\* runSocialDiscovery reads the switches again; it throws when it may not run.
StartDiscovery(s) ==
  /\ sync[s].pc = "topic"
  /\ Goto(s, IF paused THEN "release" ELSE "search")
  /\ UNCHANGED <<now, paused, lease, used, row, sent, holder, outlived, visits, decided, requested, raced, acts>>

SearchReserve(s) == Reserve(s, {"search", "found"}, "searchReserved", "release")
SearchSend(s) == Send(s, "searchReserved", "found")

SearchFails(s) ==
  /\ sync[s].pc = "found"
  /\ Goto(s, "release")
  /\ UNCHANGED <<now, paused, lease, used, row, sent, holder, outlived, visits, decided, requested, raced, acts>>

\* persistDiscoveryFromRecords, under the advisory lock of all discoveries:
\* the creator's row is read, not locked...
PersistRead(s, c) ==
  /\ sync[s].pc = "found"
  /\ \A t \in Sync : sync[t].pc # "persist"
  /\ sync' = [sync EXCEPT ![s] = [Idle EXCEPT !.pc = "persist", !.creator = c, !.snap = row[c]]]
  /\ UNCHANGED <<now, paused, lease, used, row, sent, holder, outlived, visits, decided, requested, raced, acts>>

\* Mutant: the operator's earlier decision is not looked at.
NextStateByRelevance(snap, relevance) ==
  IF snap.state = "excluded" \/ ~snap.trust THEN "excluded" ELSE relevance

NextState(snap, relevance) ==
  IF snap.state = "excluded" \/ ~snap.trust THEN "excluded"
  ELSE IF snap.operator # None THEN snap.operator ELSE relevance

\* ...and then written, its state and provenance from what was read; a conflict
\* rolls the whole search back.
PersistWrite(s) ==
  LET c == sync[s].creator snap == sync[s].snap IN
  /\ sync[s].pc = "persist"
  /\ IF Conflict(s) THEN UNCHANGED <<row, raced>>
     ELSE /\ \E relevance \in {"candidate", "monitored"} :
               row' = [row EXCEPT ![c].state = NextState(snap, relevance),
                                  ![c].operator = snap.operator]
          /\ raced' = Overwrites(c, snap)
  /\ sync' = [sync EXCEPT ![s] = [Idle EXCEPT !.pc = "release"]]
  /\ UNCHANGED <<now, paused, lease, used, sent, holder, outlived, visits, decided, requested, acts>>

-----------------------------------------------------------------------------
(* The operator, faults and time *)

\* setDiscoveredCreatorState
Decide(c, state) ==
  /\ acts < MaxActs /\ acts' = acts + 1
  /\ row[c].state # "none"
  /\ row' = [row EXCEPT ![c].state = state, ![c].operator = state]
  /\ decided' = [decided EXCEPT ![c] = state]
  /\ requested' = requested \ {c} /\ raced' = raced \ {c}
  /\ UNCHANGED <<now, paused, lease, used, sync, sent, holder, outlived, visits>>

\* excludeCreatorKeepingHistory appends a trust event; the row follows later.
Distrust(c) ==
  /\ acts < MaxActs /\ acts' = acts + 1
  /\ row[c].trust /\ row[c].state # "none"
  /\ row' = [row EXCEPT ![c].trust = FALSE]
  /\ UNCHANGED <<now, paused, lease, used, sync, sent, holder, outlived, visits, decided, requested, raced>>

Pause(p) ==
  /\ acts < MaxActs /\ acts' = acts + 1
  /\ paused # p /\ paused' = p
  /\ UNCHANGED <<now, lease, used, row, sync, sent, holder, outlived, visits, decided, requested, raced>>

\* The worker dies, or the database fails it beyond the finally block.
Dies(s) ==
  /\ sync[s].pc \notin {"idle", "checked"}
  /\ sync' = [sync EXCEPT ![s] = Idle]
  /\ UNCHANGED <<now, paused, lease, used, row, sent, holder, outlived, visits, decided, requested, raced, acts>>

Tick ==
  /\ now < Horizon /\ now' = now + 1
  /\ UNCHANGED <<paused, lease, used, row, sync, sent, holder, outlived, visits, decided, requested, raced, acts>>

Next ==
  \/ \E s \in Sync :
       \/ Begin(s) \/ TakeLease(s) \/ Overlap(s) \/ ReleaseLease(s)
       \/ ListHandles(s) \/ LookupReserve(s) \/ LookupSend(s) \/ LookupIdle(s) \/ ResolveWrite(s) \/ ListDone(s)
       \/ PromoteWrite(s) \/ NothingToPromote(s)
       \/ NoVisit(s) \/ VisitReserve(s) \/ VisitSend(s) \/ Visited(s)
       \/ StartDiscovery(s) \/ SearchReserve(s) \/ SearchSend(s) \/ SearchFails(s)
       \/ PersistWrite(s) \/ Dies(s)
       \/ \E c \in Creator :
            ResolveRead(s, c) \/ PromoteRead(s, c) \/ ClaimVisit(s, c) \/ ExcludeUntrusted(s, c) \/ PersistRead(s, c)
  \/ \E c \in Creator : Distrust(c) \/ \E state \in State : Decide(c, state)
  \/ \E p \in BOOLEAN : Pause(p)
  \/ Tick

Spec == Init /\ [][Next]_vars

-----------------------------------------------------------------------------
(* Properties *)

Phase ==
  {"idle", "checked", "resolve", "handles", "lookup", "lookedUp", "resolving", "promote", "promoting",
   "monitor", "visit", "visitReserved", "visited", "topic", "search", "searchReserved", "found",
   "persist", "release"}

\* Every variable holds a value of its kind; a row has a decision of the
\* operator only if the operator ever made one.
TypeOK ==
  /\ now \in 1..Horizon /\ paused \in BOOLEAN /\ lease \in 0..(Horizon + Lease)
  /\ used \in [Days -> Nat] /\ sent \in [Days -> Nat] /\ outlived \in Nat /\ acts \in 0..MaxActs
  /\ \A c \in Creator : /\ row[c].state \in State \cup {"none"}
                        /\ row[c].operator \in State \cup {None}
                        /\ row[c].next \in 0..(Horizon + Interval) /\ row[c].trust \in BOOLEAN
                        /\ decided[c] = None => row[c].operator = None
  /\ \A s \in Sync : sync[s].pc \in Phase

\* The syncs that have reserved a request of day d and not yet sent it.
Pending(d) == {s \in Sync : sync[s].day = d}

\* However many syncs reserve, and whichever of them die before they send, a day's
\* reservations stay within its budget, and what was sent on them and may still be
\* within the reservations (a request reserved at midnight may go out after it).
WithinDailyBudget ==
  \A d \in Days : sent[d] + Cardinality(Pending(d)) <= used[d] /\ used[d] <= Budget

\* Every sync that runs beside another one goes back to a sync that outlived
\* its lease: each such sync adds one, and the unconditional release passes
\* the overlap on, but never makes it wider.
SyncsOverlap == Cardinality(Running) <= 1 + outlived

\* A creator is visited at most once an interval, whatever fails or dies
\* after the claim ("cannot cause an uncontrolled retry loop").
VisitWaited ==
  \A c \in Creator : visits'[c].count > visits[c].count => now >= visits[c].last + Interval

\* What the operator decided stands (or the creator is excluded), with two
\* exceptions: a transaction that had read the row before the decision wrote it
\* afterwards, and a creator put back among the candidates was monitored again
\* because a workspace follows it or the seed list names it.  A search never
\* overrules the operator, and nothing brings an excluded creator back.
DecisionStands ==
  \A c \in Creator \ raced :
    decided[c] # None =>
      \/ row[c].state \in {decided[c], "excluded"}
      \/ decided[c] = "candidate" /\ c \in requested /\ row[c].state = "monitored"

=============================================================================
