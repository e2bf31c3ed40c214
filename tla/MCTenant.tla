-------------------------------- MODULE MCTenant --------------------------------
(***************************************************************************)
(* The tenant-facing modules side by side: TenantMetering, which this one     *)
(* extends, and four more.  They share no variable, so one run checks them   *)
(* as a disjoint union: `part` says which of them moves.  The metering then  *)
(* keeps an initial state, and the variables of the others hold nothing.     *)
(***************************************************************************)
EXTENDS TenantMetering, TLC

CONSTANTS Org, Customer, Event, Handler, Session,
          Key, Console, Limit,
          Delivery, Batch, MaxAttempts, DisableAfter, MaxRollbacks,
          Email, Sweep,
          o1, c1

VARIABLES part,
          billing, audit, claimed, owner, hook, session, begun, applied, unmapped, died, overlapped,
          keys, console, raced, excess,
          row, endpoint, batch, posts, lost, shared, rollbacks,
          email, sweep, mails, unsure, mailRollbacks

billingVars == <<billing, audit, claimed, owner, hook, session, begun,
                 applied, unmapped, died, overlapped>>
keyVars == <<keys, console, raced, excess>>
webhookVars == <<row, endpoint, batch, posts, lost, shared, rollbacks>>
emailVars == <<email, sweep, mails, unsure, mailRollbacks>>
tenantVars == <<part, billingVars, vars, keyVars, webhookVars, emailVars>>

B == INSTANCE StripeBilling
K == INSTANCE ApiKeys
W == INSTANCE WebhookDeliveries
E == INSTANCE EmailDeliveries WITH rollbacks <- mailRollbacks

\* Two events of one subscription in one second and a later failure to pay.
StripeEvent(t, n, p) ==
  [type |-> t, customer |-> c1, created |-> n, plan |-> p, status |-> "active", org |-> o1]
StripeEvents == {StripeEvent("subscription", 1, "starter"), StripeEvent("checkout", 1, "free"),
                 StripeEvent("payment_failed", 2, "starter")}

ASSUME TenantAssumptions ==
  Assumptions /\ B!Assumptions /\ K!Assumptions /\ W!Assumptions /\ E!Assumptions

Interchangeable == Permutations(Batch) \cup Permutations(Delivery)

\* A module that does not run.
NoBilling ==
  /\ billing = None /\ audit = None /\ claimed = None /\ owner = None /\ hook = None
  /\ session = None /\ begun = None /\ applied = None /\ unmapped = None /\ died = None
  /\ overlapped = None
NoMetering == Init /\ limit = CHOOSE l \in Limits : TRUE
NoKeys ==
  /\ keys = None /\ console = None /\ raced = None /\ excess = None
NoWebhooks ==
  /\ row = None /\ endpoint = None /\ batch = None /\ posts = None /\ lost = None
  /\ shared = None /\ rollbacks = None
NoEmails ==
  /\ email = None /\ sweep = None /\ mails = None /\ unsure = None /\ mailRollbacks = None

TenantInit ==
  \/ part = "billing" /\ B!Init /\ NoMetering /\ NoKeys /\ NoWebhooks /\ NoEmails
  \/ part = "metering" /\ Init /\ NoBilling /\ NoKeys /\ NoWebhooks /\ NoEmails
  \/ part = "keys" /\ K!Init /\ NoBilling /\ NoMetering /\ NoWebhooks /\ NoEmails
  \/ part = "webhooks" /\ W!Init /\ NoBilling /\ NoMetering /\ NoKeys /\ NoEmails
  \/ part = "emails" /\ E!Init /\ NoBilling /\ NoMetering /\ NoKeys /\ NoWebhooks

Only(p) == part = p /\ UNCHANGED part
OnlyBilling == Only("billing") /\ UNCHANGED <<vars, keyVars, webhookVars, emailVars>>
OnlyMetering == Only("metering") /\ UNCHANGED <<billingVars, keyVars, webhookVars, emailVars>>
OnlyKeys == Only("keys") /\ UNCHANGED <<billingVars, vars, webhookVars, emailVars>>
OnlyWebhooks == Only("webhooks") /\ UNCHANGED <<billingVars, vars, keyVars, emailVars>>
OnlyEmails == Only("emails") /\ UNCHANGED <<billingVars, vars, keyVars, webhookVars>>

TenantNext ==
  \/ \E s \in Session, o \in Org : OnlyBilling /\ B!CheckoutRead(s, o)
  \/ \E s \in Session : OnlyBilling /\ B!CheckoutCreate(s)
  \/ \E s \in Session : OnlyBilling /\ B!CheckoutCommit(s)
  \/ \E s \in Session : OnlyBilling /\ B!CheckoutFails(s)
  \/ \E h \in Handler, e \in Event : OnlyBilling /\ B!Deliver(h, e)
  \/ \E h \in Handler : OnlyBilling /\ B!Duplicate(h)
  \/ \E h \in Handler : OnlyBilling /\ B!Ignore(h)
  \/ \E h \in Handler : OnlyBilling /\ B!Claim(h)
  \/ \E h \in Handler : OnlyBilling /\ B!Begin(h)
  \/ \E h \in Handler : OnlyBilling /\ B!Read(h)
  \/ \E h \in Handler : OnlyBilling /\ B!Stale(h)
  \/ \E h \in Handler : OnlyBilling /\ B!Apply(h)
  \/ \E h \in Handler : OnlyBilling /\ B!HandlerFails(h)
  \/ OnlyMetering /\ PlanChanges
  \/ \E k \in IdempotencyKey, f \in Fingerprint : OnlyMetering /\ IngestKnown(k, f)
  \/ \E r \in Request, k \in IdempotencyKey, f \in Fingerprint :
       OnlyMetering /\ IngestChecked(r, k, f)
  \/ \E r \in Request : OnlyMetering /\ IngestInsert(r)
  \/ \E r \in Request : OnlyMetering /\ IngestCollides(r)
  \/ \E r \in Request : OnlyMetering /\ IngestCount(r)
  \/ \E r \in Request : OnlyMetering /\ IngestCommit(r)
  \/ \E r \in Request, id \in RequestId, enforce \in BOOLEAN :
       OnlyMetering /\ ReadChecked(r, id, enforce)
  \/ \E r \in Request : OnlyMetering /\ ReadCount(r)
  \/ \E r \in Request : OnlyMetering /\ ReadCommit(r)
  \/ \E r \in Request : OnlyMetering /\ RequestFails(r)
  \/ \E c \in Console : OnlyKeys /\ K!CountKeys(c)
  \/ \E c \in Console, n \in Key : OnlyKeys /\ K!CreateKey(c, n)
  \/ \E c \in Console : OnlyKeys /\ K!CreateFails(c)
  \/ \E k \in Key : OnlyKeys /\ K!RevokeKey(k)
  \/ \E k, n \in Key : OnlyKeys /\ K!RotateKey(k, n)
  \/ \E d \in Delivery : OnlyWebhooks /\ W!EnqueueWebhook(d)
  \/ OnlyWebhooks /\ W!DisableEndpoint
  \/ \E b \in Batch : OnlyWebhooks /\ W!StartBatch(b)
  \/ \E b \in Batch, d \in Delivery : OnlyWebhooks /\ W!Refuse(b, d)
  \/ \E b \in Batch, d \in Delivery : OnlyWebhooks /\ W!Post(b, d)
  \/ \E b \in Batch : OnlyWebhooks /\ W!Answered(b)
  \/ \E b \in Batch, permanent \in BOOLEAN : OnlyWebhooks /\ W!Rejected(b, permanent)
  \/ \E b \in Batch : OnlyWebhooks /\ W!Unanswered(b)
  \/ \E b \in Batch : OnlyWebhooks /\ W!CommitBatch(b)
  \/ \E b \in Batch : OnlyWebhooks /\ W!BatchDies(b)
  \/ \E m \in Email : OnlyEmails /\ E!EnqueueEmail(m)
  \/ \E s \in Sweep : OnlyEmails /\ E!StartSweep(s)
  \/ \E s \in Sweep, m \in Email, ok \in BOOLEAN : OnlyEmails /\ E!SendEmail(s, m, ok)
  \/ \E s \in Sweep : OnlyEmails /\ E!CommitSweep(s)
  \/ \E s \in Sweep : OnlyEmails /\ E!SweepDies(s)

TenantSpec == TenantInit /\ [][TenantNext]_tenantVars

\* The properties of the other modules, each explained where it is defined; those
\* of the metering are checked as they stand.
\* Every variable of the module that runs holds a value of its kind.
TypesOK ==
  CASE part = "billing" -> B!TypeOK
    [] part = "metering" -> TypeOK
    [] part = "keys" -> K!TypeOK
    [] part = "webhooks" -> W!TypeOK
    [] part = "emails" -> E!TypeOK
\* StripeBilling: the billing row is the newest event's, unless transactions of two
\* events, or a checkout's, overlapped (processStripeWebhook).
NewestWins == part = "billing" => B!NewestWins
\* StripeBilling: an event Stripe will not send again was applied, was stale or
\* unmapped, or died with its handler (claimStripeEvent).
EventsAccountedFor == part = "billing" => B!EventsAccountedFor
\* ApiKeys: only a raced creation or the rotation of an inactive key may pass the
\* plan's limit (assertTenantWithinLimit).
KeysWithinLimit == part = "keys" => K!KeysWithinLimit
\* WebhookDeliveries: overlapping sweeps and rollbacks bound the posts of a
\* delivery (processDueWebhookDeliveries).
PostsBounded == part = "webhooks" => W!PostsBounded
\* WebhookDeliveries: no batch changes a delivery it found settled.
SettledIsFinal == [][part = "webhooks" => W!SettledStays]_webhookVars
\* EmailDeliveries: a queued e-mail is sent once, but for a rollback or a sweep
\* beside another (processQueuedEmailDeliveries).
MailedOnce == part = "emails" => E!MailedOnce

=============================================================================
