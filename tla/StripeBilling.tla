------------------------------ MODULE StripeBilling ------------------------------
(***************************************************************************)
(* The hosted (stripe_test) billing of @isp/billing: checkout sessions      *)
(* that create the tenant's Stripe customer, and the webhook that keeps     *)
(* tenant_billing up to date.  Stripe delivers an event any number of times *)
(* and in any order; several deliveries are handled at once.  A handler is  *)
(* five steps, one per database round trip that others can come between:    *)
(* the customer lookup, the claim (a transaction of its own), the start of  *)
(* the applying transaction, which is the time its audit row will bear, its *)
(* reads, and its commit.  The local simulation, the portal and the         *)
(* signature check change no state modelled here.                           *)
(***************************************************************************)
EXTENDS Naturals, FiniteSets

CONSTANTS Org,        \* tenants
          Customer,   \* the customers Stripe may create
          Event,      \* Stripe events: see EventShape
          Handler,    \* webhook requests in progress
          Session,    \* checkout requests in progress
          None        \* SQL null

EventShape(e) ==
  /\ e.type \in {"subscription", "deleted", "invoice.paid", "payment_failed", "checkout", "other"}
  /\ e.customer \in Customer
  /\ e.created \in Nat
  /\ e.plan \in {"free", "starter", "growth"}      \* the plan of its price, if it has one
  /\ e.status \in {"trialing", "active", "past_due", "unpaid", "canceled"}
  /\ e.org \in Org \cup {None}                     \* metadata.organization_id

Assumptions ==
  /\ \A e \in Event : EventShape(e)
  /\ None \notin Org \cup Customer \cup Event \cup Nat

VARIABLES
  billing,     \* org -> its tenant_billing row; `from` (ghost) is the event it shows
  audit,       \* org -> the latest "subscription.changed": its transaction and stripe_created
  claimed,     \* the ids in stripe_event
  owner,       \* customer -> the tenant checkout created it for, or None
  hook,        \* handler -> its progress
  session,     \* checkout -> its progress
  begun,       \* transactions begun so far: the order of now() in created_at
  applied,     \* ghost: event -> times its effects were committed
  unmapped,    \* ghost: events claimed while their customer was no tenant's
  died,        \* ghost: events whose handler failed after the claim
  overlapped   \* ghost: tenants for whom two transactions overlapped

vars == <<billing, audit, claimed, owner, hook, session, begun,
          applied, unmapped, died, overlapped>>

NoRow == [customer |-> None, plan |-> "free", status |-> "none",
          since |-> None, canceled |-> None, from |-> None]

Idle == [pc |-> "idle"]

Init ==
  /\ billing = [o \in Org |-> NoRow]
  /\ audit = [o \in Org |-> [at |-> 0, created |-> None]]
  /\ claimed = {}
  /\ owner = [c \in Customer |-> None]
  /\ hook = [h \in Handler |-> Idle]
  /\ session = [s \in Session |-> Idle]
  /\ begun = 0
  /\ applied = [e \in Event |-> 0]
  /\ unmapped = {}
  /\ died = {}
  /\ overlapped = {}

-----------------------------------------------------------------------------
(* The pure parts: which tenant, whether to apply, and what to write *)

\* findOrganizationIdByStripeCustomer: the tenant whose row names the customer.
Mapped(c) ==
  IF \E o \in Org : billing[o].customer = c
  THEN CHOOSE o \in Org : billing[o].customer = c
  ELSE None

Handled(e) == e.type # "other"

\* Mutant: no order at all.
ShouldApplyAlways(last, e) == TRUE

\* shouldApplyStripeEvent
ShouldApply(last, e) == last # None => e.created >= last

\* planKeyFromPriceId: a checkout session carries no price, so it means "free".
PlanOf(e) == IF e.type \in {"deleted", "checkout"} THEN "free" ELSE e.plan

\* The status the handler normalises: the subscription's, or one by event type.
StatusOf(e) ==
  CASE e.type = "subscription" -> e.status
    [] e.type = "deleted" -> "canceled"
    [] e.type = "payment_failed" -> "past_due"
    [] OTHER -> "active"

\* billingPatchFromStripeEvent, with "now" named by the event being applied.
Patch(e, existing) ==
  LET status == StatusOf(e)
      kept(now) == [existing EXCEPT !.since = IF @ = None THEN now ELSE @]
  IN CASE status = "past_due" ->
            [kept(e) EXCEPT !.plan = PlanOf(e), !.status = status, !.from = e]
       [] status = "canceled" ->
            [existing EXCEPT !.plan = "free", !.status = status, !.since = None, !.from = e,
                             !.canceled = IF @ = None THEN e ELSE @]
       [] OTHER ->
            [existing EXCEPT !.plan = PlanOf(e), !.status = status, !.since = None,
                             !.canceled = None, !.from = e]

-----------------------------------------------------------------------------
(* Ghost: transactions on one tenant's row that overlap, a handler's from its  *)
(* start and a checkout's, whose own time nobody looks at, from its read.      *)

Writing(o) ==
  \/ \E h \in Handler : hook[h].pc \in {"started", "read"} /\ hook[h].org = o
  \/ \E s \in Session : session[s].pc \in {"read", "made"} /\ session[s].org = o

NoteOverlap(o) == overlapped' = IF Writing(o) THEN overlapped \cup {o} ELSE overlapped

-----------------------------------------------------------------------------
(* createCheckoutSession, one transaction around two calls to Stripe *)

\* With a customer on record the request reuses it and changes no state here.
CheckoutRead(s, o) ==
  /\ session[s].pc = "idle"
  /\ billing[o].customer = None
  /\ session' = [session EXCEPT ![s] = [pc |-> "read", org |-> o, row |-> billing[o]]]
  /\ NoteOverlap(o)
  /\ UNCHANGED <<billing, audit, claimed, owner, hook, begun, applied, unmapped, died>>

\* stripe.customers.create: outside the transaction, so it survives a rollback.
CheckoutCreate(s) ==
  /\ session[s].pc = "read"
  /\ \E c \in {c \in Customer : owner[c] = None} :
       /\ owner' = [owner EXCEPT ![c] = session[s].org]
       /\ session' = [session EXCEPT ![s] = [pc |-> "made", org |-> @.org, row |-> @.row,
                                             customer |-> c]]
  /\ UNCHANGED <<billing, audit, claimed, hook, begun, applied, unmapped, died, overlapped>>

\* upsertTenantBilling with the plan and status read at the start; the columns
\* the call leaves undefined keep what the upsert itself finds.
CheckoutCommit(s) ==
  /\ session[s].pc = "made"
  /\ LET o == session[s].org
         row == session[s].row
     IN billing' = [billing EXCEPT ![o] =
          [@ EXCEPT !.customer = session[s].customer, !.plan = row.plan,
                    !.status = row.status, !.from = row.from]]
  /\ session' = [session EXCEPT ![s] = Idle]
  /\ UNCHANGED <<audit, claimed, owner, hook, begun, applied, unmapped, died, overlapped>>

\* Stripe or the database fails: the transaction rolls back.
CheckoutFails(s) ==
  /\ session[s].pc \in {"read", "made"}
  /\ session' = [session EXCEPT ![s] = Idle]
  /\ UNCHANGED <<billing, audit, claimed, owner, hook, begun, applied, unmapped, died, overlapped>>

-----------------------------------------------------------------------------
(* processStripeWebhook *)

\* A delivery, first or repeated.  One whose metadata names another tenant than
\* the customer's throws before the claim.
Deliver(h, e) ==
  LET o == Mapped(e.customer)
  IN /\ hook[h].pc = "idle"
     /\ owner[e.customer] # None
     /\ None \in {e.org, o} \/ e.org = o
     /\ hook' = [hook EXCEPT ![h] = [pc |-> "looked", event |-> e, org |-> o]]
     /\ UNCHANGED <<billing, audit, claimed, owner, session, begun,
                    applied, unmapped, died, overlapped>>

\* claim_stripe_event says the id is known: answered as a duplicate.
Duplicate(h) ==
  /\ hook[h].pc = "looked"
  /\ hook[h].event \in claimed
  /\ hook' = [hook EXCEPT ![h] = Idle]
  /\ UNCHANGED <<billing, audit, claimed, owner, session, begun,
                 applied, unmapped, died, overlapped>>

\* Claimed, but of a type nobody handles or of nobody's customer: stays claimed.
Ignore(h) ==
  LET e == hook[h].event
  IN /\ hook[h].pc = "looked"
     /\ e \notin claimed
     /\ ~Handled(e) \/ hook[h].org = None
     /\ claimed' = claimed \cup {e}
     /\ unmapped' = IF hook[h].org = None THEN unmapped \cup {e} ELSE unmapped
     /\ hook' = [hook EXCEPT ![h] = Idle]
     /\ UNCHANGED <<billing, audit, owner, session, begun, applied, died, overlapped>>

\* Mutant: the claim does not look whether the id is known.
ClaimUnchecked(h) ==
  LET e == hook[h].event
  IN /\ hook[h].pc = "looked"
     /\ Handled(e) /\ hook[h].org # None
     /\ claimed' = claimed \cup {e}
     /\ hook' = [hook EXCEPT ![h].pc = "claimed"]
     /\ UNCHANGED <<billing, audit, owner, session, begun, applied, unmapped, died, overlapped>>

\* The id is new: from here on the event counts as handled.
Claim(h) ==
  LET e == hook[h].event
  IN /\ hook[h].pc = "looked"
     /\ e \notin claimed
     /\ Handled(e) /\ hook[h].org # None
     /\ claimed' = claimed \cup {e}
     /\ hook' = [hook EXCEPT ![h].pc = "claimed"]
     /\ UNCHANGED <<billing, audit, owner, session, begun, applied, unmapped, died, overlapped>>

\* The applying transaction begins: now(), for all its rows, is fixed here.
Begin(h) ==
  LET o == hook[h].org
  IN /\ hook[h].pc = "claimed"
     /\ begun' = begun + 1
     /\ hook' = [hook EXCEPT ![h] = [pc |-> "started", event |-> @.event, org |-> o,
                                     at |-> begun + 1]]
     /\ NoteOverlap(o)
     /\ UNCHANGED <<billing, audit, claimed, owner, session, applied, unmapped, died>>

\* It reads the row and the last applied time, without a lock.
Read(h) ==
  LET o == hook[h].org
  IN /\ hook[h].pc = "started"
     /\ ShouldApply(audit[o].created, hook[h].event)
     /\ hook' = [hook EXCEPT ![h] = [pc |-> "read", event |-> @.event, org |-> o,
                                     at |-> @.at, row |-> billing[o]]]
     /\ UNCHANGED <<billing, audit, claimed, owner, session, begun,
                    applied, unmapped, died, overlapped>>

Stale(h) ==
  /\ hook[h].pc = "started"
  /\ ~ShouldApply(audit[hook[h].org].created, hook[h].event)
  /\ hook' = [hook EXCEPT ![h] = Idle]
  /\ UNCHANGED <<billing, audit, claimed, owner, session, begun,
                 applied, unmapped, died, overlapped>>

\* upsertTenantBilling and the audit row, committed together.  The latest audit
\* row is the one whose transaction began last.
Apply(h) ==
  LET o == hook[h].org
      e == hook[h].event
  IN /\ hook[h].pc = "read"
     /\ billing' = [billing EXCEPT ![o] = [Patch(e, hook[h].row) EXCEPT !.customer = e.customer]]
     /\ audit' = [audit EXCEPT ![o] = IF hook[h].at > @.at
                                      THEN [at |-> hook[h].at, created |-> e.created] ELSE @]
     /\ applied' = [applied EXCEPT ![e] = @ + 1]
     /\ hook' = [hook EXCEPT ![h] = Idle]
     /\ UNCHANGED <<claimed, owner, session, begun, unmapped, died, overlapped>>

\* The request dies.  After the claim nothing undoes it, and Stripe's next
\* delivery is answered as a duplicate.
HandlerFails(h) ==
  /\ hook[h].pc # "idle"
  /\ died' = IF hook[h].pc = "looked" THEN died ELSE died \cup {hook[h].event}
  /\ hook' = [hook EXCEPT ![h] = Idle]
  /\ UNCHANGED <<billing, audit, claimed, owner, session, begun, applied, unmapped, overlapped>>

Next ==
  \/ \E s \in Session, o \in Org : CheckoutRead(s, o)
  \/ \E s \in Session : CheckoutCreate(s)
  \/ \E s \in Session : CheckoutCommit(s)
  \/ \E s \in Session : CheckoutFails(s)
  \/ \E h \in Handler, e \in Event : Deliver(h, e)
  \/ \E h \in Handler : Duplicate(h)
  \/ \E h \in Handler : Ignore(h)
  \/ \E h \in Handler : Claim(h)
  \/ \E h \in Handler : Begin(h)
  \/ \E h \in Handler : Read(h)
  \/ \E h \in Handler : Stale(h)
  \/ \E h \in Handler : Apply(h)
  \/ \E h \in Handler : HandlerFails(h)

Spec == Init /\ [][Next]_vars

-----------------------------------------------------------------------------
(* Properties *)

Row == [customer : Customer \cup {None}, plan : {"free", "starter", "growth"},
        status : {"none", "trialing", "active", "past_due", "unpaid", "canceled"},
        since : Event \cup {None}, canceled : Event \cup {None}, from : Event \cup {None}]

\* Every column and request holds a value of its kind.
TypeOK ==
  /\ billing \in [Org -> Row]
  /\ \A o \in Org : audit[o].at \in Nat /\ audit[o].created \in Nat \cup {None}
  /\ claimed \subseteq Event /\ died \subseteq claimed /\ unmapped \subseteq claimed
  /\ owner \in [Customer -> Org \cup {None}]
  /\ \A h \in Handler : hook[h].pc \in {"idle", "looked", "claimed", "started", "read"}
  /\ \A s \in Session : session[s].pc \in {"idle", "read", "made"}
  /\ begun \in Nat
  /\ applied \in [Event -> Nat]
  /\ overlapped \subseteq Org

AppliedTo(o) == {e \in Event : applied[e] > 0 /\ owner[e.customer] = o}

\* While no two transactions of a tenant overlapped, its row shows an event no older
\* than any that was applied, in whatever order they arrived.  Overlapping ones may
\* leave the row, or the audit row that orders the later events, to the older event:
\* the audit rows are ordered by when their transactions began, not by their commits.
NewestWins ==
  \A o \in Org \ overlapped : \A e \in AppliedTo(o) :
    billing[o].from # None /\ billing[o].from.created >= e.created

InFlight(e) ==
  \E h \in Handler : hook[h].pc \in {"claimed", "started", "read"} /\ hook[h].event = e

\* However often Stripe delivers an event, and to however many handlers at once,
\* its effects are committed at most once; and a handled event that was claimed and
\* never applied was lost for one of three reasons: its customer was not on record
\* when it arrived, its handler failed after the claim, or a newer event of the
\* tenant had been applied.
EventsAccountedFor ==
  /\ \A e \in Event : applied[e] <= 1
  /\ \A e \in claimed :
       \/ ~Handled(e) \/ applied[e] > 0 \/ InFlight(e)
       \/ e \in unmapped \cup died
       \/ \E n \in AppliedTo(owner[e.customer]) : n.created > e.created

=============================================================================
