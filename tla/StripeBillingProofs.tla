--------------------------- MODULE StripeBillingProofs ---------------------------
(***************************************************************************)
(* Theorems about StripeBilling for any number of tenants, events, handlers  *)
(* and checkouts.                                                           *)
(***************************************************************************)
EXTENDS StripeBilling, TLAPS

Audit == [at : Nat, created : Nat \cup {None}]

(* The stages of a webhook handler and of a checkout. *)
Looked == [pc : {"looked", "claimed"}, event : Event, org : Org \cup {None}]
Started == [pc : {"started"}, event : Event, org : Org, at : Nat]
Reading == [pc : {"read"}, event : Event, org : Org, row : Row, at : Nat]
Begun == [pc : {"read"}, org : Org, row : Row]
Made == [pc : {"made"}, org : Org, row : Row, customer : Customer]

Shape ==
  /\ billing \in [Org -> Row] /\ audit \in [Org -> Audit]
  /\ claimed \subseteq Event /\ died \subseteq claimed /\ unmapped \subseteq claimed
  /\ owner \in [Customer -> Org \cup {None}]
  /\ hook \in [Handler -> {Idle} \cup Looked \cup Started \cup Reading]
  /\ session \in [Session -> {Idle} \cup Begun \cup Made]
  /\ begun \in Nat /\ applied \in [Event -> Nat] /\ overlapped \subseteq Org

(* A customer's row, handlers and checkout are its owner's. *)
OwnedBy ==
  /\ \A o \in Org : billing[o].customer # None => owner[billing[o].customer] = o
  /\ \A h \in Handler : hook[h].pc # "idle" /\ hook[h].org # None =>
       owner[hook[h].event.customer] = hook[h].org
  /\ \A h \in Handler : hook[h].pc = "claimed" => hook[h].org # None
  /\ \A s \in Session : session[s].pc = "made" => owner[session[s].customer] = session[s].org
  /\ \A e \in Event : applied[e] > 0 => owner[e.customer] # None

Claims(h) == hook[h].pc \in {"claimed", "started", "read"}

(* One handler applies an event, once, after it claimed it. *)
ClaimedOnce ==
  /\ \A h \in Handler : Claims(h) => hook[h].event \in claimed /\ applied[hook[h].event] = 0
  /\ \A g, h \in Handler : Claims(g) /\ Claims(h) /\ hook[g].event = hook[h].event => g = h
  /\ \A e \in Event : applied[e] <= 1 /\ (applied[e] > 0 => e \in claimed)

(* The latest audit row is of an event that was applied to the tenant.         *)
AuditIsApplied ==
  \A o \in Org : audit[o].created # None =>
    \E n \in AppliedTo(o) : n.created = audit[o].created

Accounted ==
  \A e \in claimed :
    \/ ~Handled(e) \/ applied[e] > 0 \/ InFlight(e)
    \/ e \in unmapped \cup died
    \/ \E n \in AppliedTo(owner[e.customer]) : n.created > e.created

ClaimInv == Shape /\ OwnedBy /\ ClaimedOnce /\ AuditIsApplied /\ Accounted

(* Transactions that will write a tenant's row. *)
HookOn(h, o) == hook[h].pc \in {"started", "read"} /\ hook[h].org = o
SessionOn(s, o) == session[s].pc \in {"read", "made"} /\ session[s].org = o

(* A transaction's time is not in the future. *)
AuditIsPast ==
  /\ \A o \in Org : audit[o].at <= begun
  /\ \A h \in Handler : hook[h].pc \in {"started", "read"} => hook[h].at <= begun

(* Of a tenant whose transactions never overlapped there is one at a time; what *)
(* it read is still there, and its audit row will be the latest.                *)
OneSection ==
  \A o \in Org \ overlapped :
    /\ \A g, h \in Handler : HookOn(g, o) /\ HookOn(h, o) => g = h
    /\ \A s, t \in Session : SessionOn(s, o) /\ SessionOn(t, o) => s = t
    /\ \A h \in Handler, s \in Session : ~(HookOn(h, o) /\ SessionOn(s, o))

HookReads(h, o) ==
  /\ hook[h].at > audit[o].at
  /\ hook[h].pc = "read" => ShouldApply(audit[o].created, hook[h].event)

ReadsCurrent ==
  \A o \in Org \ overlapped :
    /\ \A h \in Handler : HookOn(h, o) => HookReads(h, o)
    /\ \A s \in Session : SessionOn(s, o) => session[s].row = billing[o]

(* The row and the audit row then show the same event, the newest applied one.  *)
ShowsNewest ==
  \A o \in Org \ overlapped :
    /\ audit[o].created # None => billing[o].from # None
                                  /\ billing[o].from.created = audit[o].created
    /\ \A e \in AppliedTo(o) : audit[o].created # None /\ e.created <= audit[o].created

OrderInv == AuditIsPast /\ OneSection /\ ReadsCurrent /\ ShowsNewest

-----------------------------------------------------------------------------
(* Values *)

LEMMA EventType ==
  ASSUME Assumptions, NEW e \in Event
  PROVE  /\ e.customer \in Customer /\ e.created \in Nat
         /\ e.plan \in {"free", "starter", "growth"}
         /\ e.status \in {"trialing", "active", "past_due", "unpaid", "canceled"}
         /\ e.type \in {"subscription", "deleted", "invoice.paid", "payment_failed", "checkout", "other"}
         /\ e.org \in Org \cup {None} /\ e # None
BY DEF Assumptions, EventShape

LEMMA NoneType ==
  ASSUME Assumptions
  PROVE  None \notin Org /\ None \notin Customer /\ None \notin Event /\ None \notin Nat
BY DEF Assumptions

LEMMA PatchType ==
  ASSUME Assumptions, NEW e \in Event, NEW r \in Row
  PROVE  Patch(e, r) \in Row /\ Patch(e, r).from = e
<1>1. /\ StatusOf(e) \in {"trialing", "active", "past_due", "unpaid", "canceled"}
      /\ PlanOf(e) \in {"free", "starter", "growth"}
  BY EventType DEF StatusOf, PlanOf
<1>2. CASE StatusOf(e) = "past_due"
  <2> DEFINE kept == [r EXCEPT !.since = IF r.since = None THEN e ELSE r.since]
  <2>1. Patch(e, r) = [kept EXCEPT !.plan = PlanOf(e), !.status = "past_due", !.from = e]
    BY <1>2 DEF Patch
  <2>2. kept \in Row
    BY DEF Row
  <2> HIDE DEF kept
  <2> QED
    BY <1>1, <2>1, <2>2 DEF Row
<1>3. CASE StatusOf(e) = "canceled"
  <2> DEFINE canceled == IF r.canceled = None THEN e ELSE r.canceled
  <2>1. Patch(e, r) = [r EXCEPT !.plan = "free", !.status = "canceled", !.since = None, !.from = e,
                                !.canceled = canceled]
    BY <1>3 DEF Patch
  <2>2. canceled \in Event \cup {None}
    BY DEF Row
  <2> HIDE DEF canceled
  <2> QED
    BY <2>1, <2>2 DEF Row
<1>4. CASE StatusOf(e) \notin {"past_due", "canceled"}
  <2>1. Patch(e, r) = [r EXCEPT !.plan = PlanOf(e), !.status = StatusOf(e), !.since = None,
                                !.canceled = None, !.from = e]
    BY <1>4 DEF Patch
  <2> QED
    BY <1>1, <2>1 DEF Row
<1> QED
  BY <1>2, <1>3, <1>4

LEMMA HookType ==
  ASSUME Shape, NEW h \in Handler
  PROVE  /\ hook[h].pc \in {"idle", "looked", "claimed", "started", "read"}
         /\ hook[h].pc = "idle" => hook[h] = Idle
         /\ hook[h].pc \in {"looked", "claimed"} => hook[h] \in Looked
         /\ hook[h].pc = "started" => hook[h] \in Started
         /\ hook[h].pc = "read" => hook[h] \in Reading
         /\ hook[h].pc # "idle" => hook[h].event \in Event /\ hook[h].org \in Org \cup {None}
         /\ hook[h].pc \in {"started", "read"} => hook[h].org \in Org /\ hook[h].at \in Nat
BY DEF Shape, Idle, Looked, Started, Reading

LEMMA SessionType ==
  ASSUME Shape, NEW s \in Session
  PROVE  /\ session[s].pc \in {"idle", "read", "made"}
         /\ session[s].pc = "read" => session[s] \in Begun
         /\ session[s].pc = "made" => session[s] \in Made
BY DEF Shape, Idle, Begun, Made

LEMMA MappedType ==
  ASSUME Shape, OwnedBy, Assumptions, NEW c \in Customer
  PROVE  Mapped(c) \in Org \cup {None} /\ (Mapped(c) # None => owner[c] = Mapped(c))
<1>1. CASE \E o \in Org : billing[o].customer = c
  <2> DEFINE o == CHOOSE x \in Org : billing[x].customer = c
  <2>1. o \in Org /\ billing[o].customer = c
    BY <1>1
  <2>2. Mapped(c) = o
    BY <1>1 DEF Mapped
  <2> HIDE DEF o
  <2> QED
    BY <2>1, <2>2, NoneType DEF OwnedBy
<1>2. CASE ~\E o \in Org : billing[o].customer = c
  BY <1>2 DEF Mapped
<1> QED
  BY <1>1, <1>2

-----------------------------------------------------------------------------
(* What each action does to one handler or one checkout *)

Others(h) == \A g \in Handler \ {h} : hook'[g] = hook[g]
OtherSessions(s) == \A t \in Session \ {s} : session'[t] = session[t]

LEMMA IdleEffect ==
  ASSUME Shape, NEW h \in Handler, hook' = [hook EXCEPT ![h] = Idle]
  PROVE  /\ hook' \in [Handler -> {Idle} \cup Looked \cup Started \cup Reading]
         /\ hook'[h].pc = "idle" /\ Others(h)
BY DEF Shape, Idle, Others

LEMMA DeliverEffect ==
  ASSUME Assumptions, Shape, OwnedBy, NEW h \in Handler, NEW e \in Event, Deliver(h, e)
  PROVE  /\ hook' \in [Handler -> {Idle} \cup Looked \cup Started \cup Reading]
         /\ hook[h].pc = "idle" /\ hook'[h].pc = "looked" /\ hook'[h].event = e
         /\ hook'[h].org # None => owner[e.customer] = hook'[h].org
         /\ Others(h)
<1>1. /\ hook' = [hook EXCEPT ![h] = [pc |-> "looked", event |-> e, org |-> Mapped(e.customer)]]
      /\ hook[h].pc = "idle"
  BY DEF Deliver
<1>2. /\ Mapped(e.customer) \in Org \cup {None}
      /\ Mapped(e.customer) # None => owner[e.customer] = Mapped(e.customer)
  BY EventType, MappedType
<1>3. [pc |-> "looked", event |-> e, org |-> Mapped(e.customer)] \in Looked
  BY <1>2 DEF Looked
<1> QED
  BY <1>1, <1>2, <1>3 DEF Shape, Others

LEMMA ClaimEffect ==
  ASSUME Shape, NEW h \in Handler, Claim(h)
  PROVE  /\ hook' \in [Handler -> {Idle} \cup Looked \cup Started \cup Reading]
         /\ hook[h].pc = "looked" /\ hook'[h].pc = "claimed"
         /\ hook'[h].event = hook[h].event /\ hook'[h].org = hook[h].org
         /\ hook[h].event \in Event /\ hook[h].org # None
         /\ Others(h)
<1>1. /\ hook' = [hook EXCEPT ![h].pc = "claimed"] /\ hook[h].pc = "looked"
      /\ hook[h] \in Looked /\ hook[h].org # None
  BY HookType DEF Claim
<1> QED
  BY <1>1 DEF Shape, Looked, Others

LEMMA BeginEffect ==
  ASSUME Shape, OwnedBy, NEW h \in Handler, Begin(h)
  PROVE  /\ hook' \in [Handler -> {Idle} \cup Looked \cup Started \cup Reading]
         /\ hook[h].pc = "claimed" /\ hook[h].org \in Org /\ hook[h].event \in Event
         /\ hook'[h].pc = "started" /\ hook'[h].event = hook[h].event
         /\ hook'[h].org = hook[h].org /\ hook'[h].at = begun + 1
         /\ Others(h)
<1>1. /\ hook' = [hook EXCEPT ![h] = [pc |-> "started", event |-> hook[h].event,
                                      org |-> hook[h].org, at |-> begun + 1]]
      /\ hook[h].pc = "claimed"
  BY DEF Begin
<1>2. hook[h].event \in Event /\ hook[h].org \in Org
  BY <1>1, HookType DEF OwnedBy
<1>3. [pc |-> "started", event |-> hook[h].event, org |-> hook[h].org, at |-> begun + 1] \in Started
  BY <1>2 DEF Shape, Started
<1> QED
  BY <1>1, <1>2, <1>3 DEF Shape, Others

LEMMA ReadEffect ==
  ASSUME Shape, NEW h \in Handler, Read(h)
  PROVE  /\ hook' \in [Handler -> {Idle} \cup Looked \cup Started \cup Reading]
         /\ hook[h].pc = "started" /\ hook[h].org \in Org /\ hook[h].event \in Event
         /\ hook'[h].pc = "read" /\ hook'[h].event = hook[h].event
         /\ hook'[h].org = hook[h].org /\ hook'[h].at = hook[h].at
         /\ Others(h)
<1>1. /\ hook' = [hook EXCEPT ![h] = [pc |-> "read", event |-> hook[h].event, org |-> hook[h].org,
                                      at |-> hook[h].at, row |-> billing[hook[h].org]]]
      /\ hook[h].pc = "started"
  BY DEF Read
<1>2. hook[h].event \in Event /\ hook[h].org \in Org /\ hook[h].at \in Nat
  BY <1>1, HookType
<1>3. [pc |-> "read", event |-> hook[h].event, org |-> hook[h].org,
       at |-> hook[h].at, row |-> billing[hook[h].org]] \in Reading
  BY <1>2 DEF Shape, Reading
<1> QED
  BY <1>1, <1>2, <1>3 DEF Shape, Others

LEMMA ApplyEffect ==
  ASSUME Assumptions, Shape, NEW h \in Handler, Apply(h)
  PROVE  /\ hook[h].pc = "read" /\ hook[h].org \in Org /\ hook[h].event \in Event
         /\ billing' \in [Org -> Row] /\ audit' \in [Org -> Audit] /\ applied' \in [Event -> Nat]
         /\ billing'[hook[h].org].from = hook[h].event
         /\ billing'[hook[h].org].customer = hook[h].event.customer
         /\ \A o \in Org \ {hook[h].org} : billing'[o] = billing[o] /\ audit'[o] = audit[o]
         /\ audit'[hook[h].org] = IF hook[h].at > audit[hook[h].org].at
                                  THEN [at |-> hook[h].at, created |-> hook[h].event.created]
                                  ELSE audit[hook[h].org]
         /\ applied'[hook[h].event] = applied[hook[h].event] + 1
         /\ \A e \in Event \ {hook[h].event} : applied'[e] = applied[e]
<1> DEFINE o == hook[h].org
           e == hook[h].event
           row == [Patch(e, hook[h].row) EXCEPT !.customer = e.customer]
           last == IF hook[h].at > audit[o].at
                   THEN [at |-> hook[h].at, created |-> e.created] ELSE audit[o]
<1>1. hook[h].pc = "read" /\ hook[h] \in Reading
  BY HookType DEF Apply
<1>2. o \in Org /\ e \in Event /\ hook[h].row \in Row /\ hook[h].at \in Nat
  BY <1>1 DEF Reading
<1>3. e.customer \in Customer /\ e.created \in Nat
      /\ Patch(e, hook[h].row) \in Row /\ Patch(e, hook[h].row).from = e
  BY <1>2, EventType, PatchType
<1>4. row \in Row /\ row.from = e /\ row.customer = e.customer
  BY <1>3 DEF Row
<1>5. last \in Audit
  BY <1>2, <1>3 DEF Shape, Audit
<1>6. /\ billing' = [billing EXCEPT ![o] = row]
      /\ audit' = [audit EXCEPT ![o] = last]
      /\ applied' = [applied EXCEPT ![e] = applied[e] + 1]
  BY DEF Apply
<1>7. applied[e] + 1 \in Nat
  BY <1>2 DEF Shape
<1> HIDE DEF row
<1>8. /\ audit' \in [Org -> Audit] /\ audit'[o] = last
      /\ \A x \in Org \ {o} : audit'[x] = audit[x]
  BY <1>2, <1>5, <1>6 DEF Shape
<1>9. /\ billing' \in [Org -> Row] /\ billing'[o] = row
      /\ \A x \in Org \ {o} : billing'[x] = billing[x]
  BY <1>2, <1>4, <1>6 DEF Shape
<1>10. /\ applied' \in [Event -> Nat] /\ applied'[e] = applied[e] + 1
       /\ \A x \in Event \ {e} : applied'[x] = applied[x]
  BY <1>2, <1>6, <1>7 DEF Shape
<1> QED
  BY <1>1, <1>2, <1>4, <1>8, <1>9, <1>10

LEMMA CheckoutReadEffect ==
  ASSUME Shape, NEW s \in Session, NEW o \in Org, CheckoutRead(s, o)
  PROVE  /\ session' \in [Session -> {Idle} \cup Begun \cup Made]
         /\ session[s].pc = "idle" /\ session'[s].pc = "read"
         /\ session'[s].org = o /\ session'[s].row = billing[o]
         /\ OtherSessions(s)
<1>1. [pc |-> "read", org |-> o, row |-> billing[o]] \in Begun
  BY DEF Shape, Begun
<1> QED
  BY <1>1 DEF Shape, CheckoutRead, OtherSessions

LEMMA CheckoutCreateEffect ==
  ASSUME Shape, NEW s \in Session, CheckoutCreate(s)
  PROVE  \E c \in Customer :
           /\ owner[c] = None /\ session[s].pc = "read" /\ session[s].org \in Org
           /\ session' \in [Session -> {Idle} \cup Begun \cup Made]
           /\ session'[s].pc = "made" /\ session'[s].org = session[s].org
           /\ session'[s].row = session[s].row /\ session'[s].customer = c
           /\ OtherSessions(s)
           /\ owner' \in [Customer -> Org \cup {None}] /\ owner'[c] = session[s].org
           /\ \A x \in Customer \ {c} : owner'[x] = owner[x]
<1>1. PICK c \in Customer :
        /\ owner[c] = None /\ owner' = [owner EXCEPT ![c] = session[s].org]
        /\ session' = [session EXCEPT ![s] = [pc |-> "made", org |-> session[s].org,
                                              row |-> session[s].row, customer |-> c]]
  BY DEF CheckoutCreate
<1>2. session[s].pc = "read" /\ session[s] \in Begun
  BY SessionType DEF CheckoutCreate
<1>3. session[s].org \in Org /\ session[s].row \in Row
  BY <1>2 DEF Begun
<1>4. [pc |-> "made", org |-> session[s].org, row |-> session[s].row, customer |-> c] \in Made
  BY <1>3 DEF Made
<1>5. /\ session' \in [Session -> {Idle} \cup Begun \cup Made]
      /\ session'[s].pc = "made" /\ session'[s].org = session[s].org
      /\ session'[s].row = session[s].row /\ session'[s].customer = c
      /\ OtherSessions(s)
  BY <1>1, <1>4 DEF Shape, OtherSessions
<1>6. /\ owner' \in [Customer -> Org \cup {None}] /\ owner'[c] = session[s].org
      /\ \A x \in Customer \ {c} : owner'[x] = owner[x]
  BY <1>1, <1>3 DEF Shape
<1> QED
  BY <1>1, <1>2, <1>3, <1>5, <1>6

LEMMA CheckoutIdleEffect ==
  ASSUME Shape, NEW s \in Session, session' = [session EXCEPT ![s] = Idle]
  PROVE  /\ session' \in [Session -> {Idle} \cup Begun \cup Made]
         /\ session'[s].pc = "idle" /\ OtherSessions(s)
BY DEF Shape, Idle, OtherSessions

LEMMA CheckoutCommitEffect ==
  ASSUME Shape, NEW s \in Session, CheckoutCommit(s)
  PROVE  /\ session[s].pc = "made" /\ session[s].org \in Org /\ session[s].customer \in Customer
         /\ billing' \in [Org -> Row]
         /\ billing'[session[s].org].customer = session[s].customer
         /\ billing'[session[s].org].from = session[s].row.from
         /\ \A o \in Org \ {session[s].org} : billing'[o] = billing[o]
<1> DEFINE o == session[s].org
           row == session[s].row
           new == [billing[o] EXCEPT !.customer = session[s].customer, !.plan = row.plan,
                                     !.status = row.status, !.from = row.from]
<1>1. session[s].pc = "made" /\ session[s] \in Made
  BY SessionType DEF CheckoutCommit
<1>2. o \in Org /\ row \in Row /\ session[s].customer \in Customer
  BY <1>1 DEF Made
<1>3. new \in Row /\ new.customer = session[s].customer /\ new.from = row.from
  BY <1>2 DEF Shape, Row
<1>4. billing' = [billing EXCEPT ![o] = new] /\ billing \in [Org -> Row]
  BY DEF CheckoutCommit, Shape
<1> HIDE DEF new
<1> QED
  BY <1>1, <1>2, <1>3, <1>4

-----------------------------------------------------------------------------
(* Claims *)

LEMMA ClaimInvInit == Assumptions /\ Init => ClaimInv
<1> SUFFICES ASSUME Assumptions, Init PROVE ClaimInv
  OBVIOUS
<1>1. NoRow \in Row /\ NoRow.customer = None
  BY DEF NoRow, Row
<1>2. Shape
  BY <1>1 DEF Init, Shape, Audit
<1>3. OwnedBy
  BY <1>1 DEF Init, OwnedBy, Idle
<1>4. ClaimedOnce
  BY DEF Init, ClaimedOnce, Claims, Idle
<1>5. AuditIsApplied /\ Accounted
  BY DEF Init, AuditIsApplied, Accounted
<1> QED
  BY <1>2, <1>3, <1>4, <1>5 DEF ClaimInv

(* What was applied to a tenant stays so, and with it what it accounts for. *)
LEMMA AppliedGrows ==
  ASSUME Assumptions, ClaimInv,
         \A e \in Event : applied'[e] = applied[e] \/ applied'[e] = applied[e] + 1,
         \A c \in Customer : owner[c] # None => owner'[c] = owner[c]
  PROVE  \A e \in Event : applied[e] > 0 =>
           /\ applied'[e] > 0 /\ e.customer \in Customer /\ owner[e.customer] \in Org
           /\ owner'[e.customer] = owner[e.customer]
<1> SUFFICES ASSUME NEW e \in Event, applied[e] > 0
             PROVE  /\ applied'[e] > 0 /\ e.customer \in Customer /\ owner[e.customer] \in Org
                    /\ owner'[e.customer] = owner[e.customer]
  OBVIOUS
<1>1. e.customer \in Customer
  BY EventType
<1>2. owner[e.customer] # None /\ owner[e.customer] \in Org
  BY <1>1 DEF ClaimInv, OwnedBy, Shape
<1>3. applied[e] \in Nat /\ (applied'[e] = applied[e] \/ applied'[e] = applied[e] + 1)
  BY DEF ClaimInv, Shape
<1> QED
  BY <1>1, <1>2, <1>3

(* An action that changes only handlers of other kinds of work keeps what the   *)
(* checkouts rely on, and the other way round.                                  *)
LEMMA ClaimInvHandler ==
  ASSUME Assumptions, ClaimInv, NEW h \in Handler,
         hook' \in [Handler -> {Idle} \cup Looked \cup Started \cup Reading], Others(h),
         hook'[h].pc = "idle",
         UNCHANGED <<billing, audit, owner, session, applied, overlapped>>, begun' = begun,
         claimed \subseteq claimed', claimed' \subseteq Event,
         died \subseteq died', died' \subseteq claimed',
         unmapped \subseteq unmapped', unmapped' \subseteq claimed',
         \A e \in claimed' \ claimed : ~Handled(e) \/ e \in unmapped',
         Claims(h) => \/ hook[h].event \in died'
                      \/ \E n \in AppliedTo(owner[hook[h].event.customer]) :
                           n.created > hook[h].event.created
  PROVE  ClaimInv'
<1>1. Shape'
  BY DEF ClaimInv, Shape
<1>2. OwnedBy'
  BY DEF ClaimInv, OwnedBy, Others
<1>3. ClaimedOnce'
  BY DEF ClaimInv, ClaimedOnce, Claims, Others
<1>4. \A o : AppliedTo(o)' = AppliedTo(o)
  BY DEF AppliedTo
<1>5. AuditIsApplied'
  BY <1>4 DEF ClaimInv, AuditIsApplied
<1>6. Accounted'
  <2> SUFFICES ASSUME NEW e \in claimed'
               PROVE  \/ ~Handled(e) \/ applied[e] > 0 \/ InFlight(e)'
                      \/ e \in unmapped' \cup died'
                      \/ \E n \in AppliedTo(owner[e.customer]) : n.created > e.created
    BY <1>4 DEF Accounted
  <2>1. CASE e \notin claimed
    BY <2>1
  <2>2. CASE e \in claimed /\ ~InFlight(e)
    BY <2>2 DEF ClaimInv, Accounted
  <2>3. ASSUME NEW g \in Handler, Claims(g), hook[g].event = e, g # h
        PROVE  InFlight(e)'
    BY <2>3 DEF InFlight, Others, Claims
  <2>4. CASE Claims(h) /\ hook[h].event = e
    BY <2>4
  <2> QED
    BY <2>1, <2>2, <2>3, <2>4 DEF InFlight, Claims
<1> QED
  BY <1>1, <1>2, <1>3, <1>5, <1>6 DEF ClaimInv

LEMMA ClaimInvStep == Assumptions /\ ClaimInv /\ [Next]_vars => ClaimInv'
<1> SUFFICES ASSUME Assumptions, ClaimInv, [Next]_vars PROVE ClaimInv'
  OBVIOUS
<1>0. Shape /\ OwnedBy
  BY DEF ClaimInv
<1>1. ASSUME NEW s \in Session,
             session' \in [Session -> {Idle} \cup Begun \cup Made],
             session'[s].pc \in {"idle", "read"}, OtherSessions(s),
             overlapped' \subseteq Org,
             UNCHANGED <<billing, audit, claimed, owner, hook, begun, applied, unmapped, died>>
      PROVE  ClaimInv'
  <2>1. Shape'
    BY <1>1 DEF ClaimInv, Shape
  <2>2. OwnedBy'
    BY <1>1 DEF ClaimInv, OwnedBy, OtherSessions
  <2>3. ClaimedOnce' /\ AuditIsApplied' /\ Accounted'
    BY <1>1 DEF ClaimInv, ClaimedOnce, Claims, AuditIsApplied, Accounted, AppliedTo, InFlight
  <2> QED
    BY <2>1, <2>2, <2>3 DEF ClaimInv
<1>2. ASSUME NEW s \in Session, NEW o \in Org, CheckoutRead(s, o) PROVE ClaimInv'
  <2>1. overlapped' \subseteq Org
    BY <1>2 DEF CheckoutRead, NoteOverlap, ClaimInv, Shape
  <2>2. /\ session' \in [Session -> {Idle} \cup Begun \cup Made]
        /\ session'[s].pc = "read" /\ OtherSessions(s)
    BY <1>0, <1>2, CheckoutReadEffect
  <2>3. UNCHANGED <<billing, audit, claimed, owner, hook, begun, applied, unmapped, died>>
    BY <1>2 DEF CheckoutRead
  <2> QED
    BY <1>1, <2>1, <2>2, <2>3
<1>3. ASSUME NEW s \in Session, CheckoutCreate(s) PROVE ClaimInv'
  <2>1. PICK c \in Customer :
          /\ owner[c] = None /\ session[s].pc = "read" /\ session[s].org \in Org
          /\ session' \in [Session -> {Idle} \cup Begun \cup Made]
          /\ session'[s].pc = "made" /\ session'[s].org = session[s].org
          /\ session'[s].row = session[s].row /\ session'[s].customer = c
          /\ OtherSessions(s)
          /\ owner' \in [Customer -> Org \cup {None}] /\ owner'[c] = session[s].org
          /\ \A x \in Customer \ {c} : owner'[x] = owner[x]
    BY <1>0, <1>3, CheckoutCreateEffect
  <2>2. UNCHANGED <<billing, audit, claimed, hook, begun, applied, unmapped, died, overlapped>>
    BY <1>3 DEF CheckoutCreate
  <2>3. \A x \in Customer : owner[x] # None => owner'[x] = owner[x]
    BY <2>1
  <2>4. \A e \in Event : applied[e] > 0 =>
          /\ e.customer \in Customer /\ owner[e.customer] \in Org
          /\ owner'[e.customer] = owner[e.customer]
    BY <2>2, <2>3, AppliedGrows
  <2>5. Shape'
    BY <2>1, <2>2 DEF ClaimInv, Shape
  <2>6. OwnedBy'
    <3>1. \A o \in Org : billing[o].customer # None =>
            billing[o].customer \in Customer /\ owner[billing[o].customer] # None
      BY NoneType DEF ClaimInv, Shape, OwnedBy, Row
    <3>2. \A o \in Org : billing[o].customer # None => owner'[billing[o].customer] = o
      BY <2>3, <3>1 DEF ClaimInv, OwnedBy
    <3>3. ASSUME NEW h \in Handler, hook[h].pc # "idle", hook[h].org # None
          PROVE  owner'[hook[h].event.customer] = hook[h].org
      <4>1. hook[h].event \in Event /\ owner[hook[h].event.customer] = hook[h].org
        BY <1>0, <3>3, HookType DEF OwnedBy
      <4>2. hook[h].event.customer \in Customer
        BY <4>1, EventType
      <4> QED
        BY <2>3, <3>3, <4>1, <4>2
    <3>4. ASSUME NEW t \in Session, session'[t].pc = "made"
          PROVE  owner'[session'[t].customer] = session'[t].org
      <4>1. CASE t = s
        BY <2>1, <4>1
      <4>2. CASE t # s
        <5>1. session'[t] = session[t] /\ session[t].pc = "made"
          BY <2>1, <3>4, <4>2 DEF OtherSessions
        <5>2. session[t] \in Made
          BY <1>0, <5>1, SessionType
        <5>3. session[t].customer \in Customer /\ session[t].org \in Org
              /\ owner[session[t].customer] = session[t].org
          BY <5>1, <5>2 DEF Made, ClaimInv, OwnedBy
        <5> QED
          BY <2>3, <5>1, <5>3, NoneType
      <4> QED
        BY <4>1, <4>2
    <3>5. ASSUME NEW e \in Event, applied[e] > 0 PROVE owner'[e.customer] # None
      <4>1. e.customer \in Customer /\ owner[e.customer] # None
        BY <3>5, EventType DEF ClaimInv, OwnedBy
      <4> QED
        BY <2>3, <4>1
    <3> QED
      BY <2>2, <3>2, <3>3, <3>4, <3>5 DEF ClaimInv, OwnedBy
  <2>7. ClaimedOnce'
    BY <2>2 DEF ClaimInv, ClaimedOnce, Claims
  <2>8. AuditIsApplied'
    BY <2>2, <2>4 DEF ClaimInv, AuditIsApplied, AppliedTo
  <2>9. Accounted'
    <3> SUFFICES ASSUME NEW e \in claimed
                 PROVE  \/ ~Handled(e) \/ applied[e] > 0 \/ InFlight(e)
                        \/ e \in unmapped \cup died
                        \/ \E n \in Event : /\ applied[n] > 0 /\ n.created > e.created
                                           /\ owner'[n.customer] = owner'[e.customer]
      BY <2>2 DEF Accounted, InFlight, AppliedTo
    <3>1. e \in Event /\ e.customer \in Customer
      BY EventType DEF ClaimInv, Shape
    <3>2. ASSUME NEW n \in Event, applied[n] > 0, owner[n.customer] = owner[e.customer]
          PROVE  owner'[n.customer] = owner'[e.customer]
      BY <2>3, <2>4, <3>1, <3>2, NoneType
    <3> QED
      BY <3>2 DEF ClaimInv, Accounted, AppliedTo
  <2> QED
    BY <2>5, <2>6, <2>7, <2>8, <2>9 DEF ClaimInv
<1>4. ASSUME NEW s \in Session, CheckoutCommit(s) PROVE ClaimInv'
  <2>1. /\ session[s].pc = "made" /\ session[s].org \in Org /\ session[s].customer \in Customer
        /\ billing' \in [Org -> Row]
        /\ billing'[session[s].org].customer = session[s].customer
        /\ \A o \in Org \ {session[s].org} : billing'[o] = billing[o]
    BY <1>0, <1>4, CheckoutCommitEffect
  <2>2. /\ session' \in [Session -> {Idle} \cup Begun \cup Made]
        /\ session'[s].pc = "idle" /\ OtherSessions(s)
    BY <1>0, <1>4, CheckoutIdleEffect DEF CheckoutCommit
  <2>3. UNCHANGED <<audit, claimed, owner, hook, begun, applied, unmapped, died, overlapped>>
    BY <1>4 DEF CheckoutCommit
  <2>4. Shape'
    BY <2>1, <2>2, <2>3 DEF ClaimInv, Shape
  <2>5. OwnedBy'
    BY <2>1, <2>2, <2>3 DEF ClaimInv, OwnedBy, OtherSessions
  <2>6. ClaimedOnce' /\ AuditIsApplied' /\ Accounted'
    BY <2>3 DEF ClaimInv, ClaimedOnce, Claims, AuditIsApplied, Accounted, AppliedTo, InFlight
  <2> QED
    BY <2>4, <2>5, <2>6 DEF ClaimInv
<1>5. ASSUME NEW s \in Session, CheckoutFails(s) PROVE ClaimInv'
  <2>1. /\ session' \in [Session -> {Idle} \cup Begun \cup Made]
        /\ session'[s].pc = "idle" /\ OtherSessions(s)
    BY <1>0, <1>5, CheckoutIdleEffect DEF CheckoutFails
  <2>2. /\ UNCHANGED <<billing, audit, claimed, owner, hook, begun, applied, unmapped, died>>
        /\ overlapped' \subseteq Org
    BY <1>5 DEF CheckoutFails, ClaimInv, Shape
  <2> QED
    BY <1>1, <2>1, <2>2
<1>6. ASSUME NEW h \in Handler, NEW e \in Event, Deliver(h, e) PROVE ClaimInv'
  <2>1. /\ hook' \in [Handler -> {Idle} \cup Looked \cup Started \cup Reading]
        /\ hook[h].pc = "idle" /\ hook'[h].pc = "looked" /\ hook'[h].event = e
        /\ hook'[h].org # None => owner[e.customer] = hook'[h].org
        /\ Others(h)
    BY <1>0, <1>6, DeliverEffect
  <2>2. UNCHANGED <<billing, audit, claimed, owner, session, begun, applied, unmapped, died, overlapped>>
    BY <1>6 DEF Deliver
  <2>3. Shape'
    BY <2>1, <2>2 DEF ClaimInv, Shape
  <2>4. OwnedBy'
    BY <2>1, <2>2 DEF ClaimInv, OwnedBy, Others
  <2>5. ClaimedOnce'
    BY <2>1, <2>2 DEF ClaimInv, ClaimedOnce, Claims, Others
  <2>6. \A x \in Event : InFlight(x) => InFlight(x)'
    BY <2>1 DEF InFlight, Others
  <2>7. AuditIsApplied' /\ Accounted'
    BY <2>2, <2>6 DEF ClaimInv, Shape, AuditIsApplied, Accounted, AppliedTo
  <2> QED
    BY <2>3, <2>4, <2>5, <2>7 DEF ClaimInv
<1>7. ASSUME NEW h \in Handler, Duplicate(h) PROVE ClaimInv'
  <2>1. /\ hook' = [hook EXCEPT ![h] = Idle] /\ ~Claims(h)
        /\ UNCHANGED <<billing, audit, claimed, owner, session, begun, applied, unmapped, died, overlapped>>
    BY <1>7 DEF Duplicate, Claims
  <2>2. /\ hook' \in [Handler -> {Idle} \cup Looked \cup Started \cup Reading]
        /\ hook'[h].pc = "idle" /\ Others(h)
    BY <1>0, <2>1, IdleEffect
  <2> QED
    BY <2>1, <2>2, ClaimInvHandler DEF ClaimInv, Shape
<1>8. ASSUME NEW h \in Handler, Ignore(h) PROVE ClaimInv'
  <2> DEFINE e == hook[h].event
  <2>1. /\ hook' = [hook EXCEPT ![h] = Idle] /\ ~Claims(h) /\ hook[h].pc = "looked"
        /\ UNCHANGED <<billing, audit, owner, session, begun, applied, died, overlapped>>
        /\ claimed' = claimed \cup {e} /\ (~Handled(e) \/ hook[h].org = None)
        /\ unmapped' = IF hook[h].org = None THEN unmapped \cup {e} ELSE unmapped
    BY <1>8 DEF Ignore, Claims
  <2>2. /\ hook' \in [Handler -> {Idle} \cup Looked \cup Started \cup Reading]
        /\ hook'[h].pc = "idle" /\ Others(h)
    BY <1>0, <2>1, IdleEffect
  <2>3. e \in Event
    BY <1>0, <2>1, HookType
  <2> HIDE DEF e
  <2>4. /\ claimed \subseteq claimed' /\ claimed' \subseteq Event
        /\ died \subseteq died' /\ died' \subseteq claimed'
        /\ unmapped \subseteq unmapped' /\ unmapped' \subseteq claimed'
        /\ \A x \in claimed' \ claimed : ~Handled(x) \/ x \in unmapped'
    BY <2>1, <2>3 DEF ClaimInv, Shape
  <2> QED
    BY <2>1, <2>2, <2>4, ClaimInvHandler
<1>9. ASSUME NEW h \in Handler, Claim(h) PROVE ClaimInv'
  <2>1. /\ hook' \in [Handler -> {Idle} \cup Looked \cup Started \cup Reading]
        /\ hook[h].pc = "looked" /\ hook'[h].pc = "claimed"
        /\ hook'[h].event = hook[h].event /\ hook'[h].org = hook[h].org
        /\ hook[h].event \in Event /\ hook[h].org # None
        /\ Others(h)
    BY <1>0, <1>9, ClaimEffect
  <2>2. /\ hook[h].event \notin claimed /\ claimed' = claimed \cup {hook[h].event}
        /\ UNCHANGED <<billing, audit, owner, session, begun, applied, unmapped, died, overlapped>>
    BY <1>9 DEF Claim
  <2>3. Shape'
    BY <2>1, <2>2 DEF ClaimInv, Shape
  <2>4. OwnedBy'
    BY <2>1, <2>2 DEF ClaimInv, OwnedBy, Others
  <2>5. applied[hook[h].event] = 0
    BY <2>1, <2>2 DEF ClaimInv, ClaimedOnce, Shape
  <2>6. ClaimedOnce'
    BY <2>1, <2>2, <2>5 DEF ClaimInv, ClaimedOnce, Claims, Others
  <2>7. \A x \in Event : InFlight(x) => InFlight(x)'
    BY <2>1 DEF InFlight, Others
  <2>8. \A x \in claimed' \ claimed : InFlight(x)'
    BY <2>1, <2>2 DEF InFlight
  <2>9. AuditIsApplied' /\ Accounted'
    BY <2>2, <2>7, <2>8 DEF ClaimInv, Shape, AuditIsApplied, Accounted, AppliedTo
  <2> QED
    BY <2>3, <2>4, <2>6, <2>9 DEF ClaimInv
<1>10. ASSUME NEW h \in Handler, Claims(h),
              hook' \in [Handler -> {Idle} \cup Looked \cup Started \cup Reading],
              hook[h].org \in Org, hook[h].event \in Event,
              hook'[h].pc \in {"started", "read"}, hook'[h].event = hook[h].event,
              hook'[h].org = hook[h].org, Others(h),
              UNCHANGED <<billing, audit, claimed, owner, session, applied, unmapped, died>>,
              begun' \in Nat, overlapped' \subseteq Org
       PROVE  ClaimInv'
  <2>1. Shape'
    BY <1>10 DEF ClaimInv, Shape
  <2>2. OwnedBy'
    BY <1>10 DEF ClaimInv, OwnedBy, Others, Claims
  <2>3. ClaimedOnce'
    BY <1>10 DEF ClaimInv, ClaimedOnce, Claims, Others
  <2>4. \A x \in Event : InFlight(x) => InFlight(x)'
    BY <1>10 DEF InFlight, Others
  <2>5. AuditIsApplied' /\ Accounted'
    BY <1>10, <2>4 DEF ClaimInv, Shape, AuditIsApplied, Accounted, AppliedTo
  <2> QED
    BY <2>1, <2>2, <2>3, <2>5 DEF ClaimInv
<1>15. ASSUME NEW h \in Handler, Begin(h) PROVE ClaimInv'
  <2>1. /\ UNCHANGED <<billing, audit, claimed, owner, session, applied, unmapped, died>>
        /\ begun' = begun + 1 /\ overlapped' \in {overlapped, overlapped \cup {hook[h].org}}
        /\ Claims(h)
    BY <1>15 DEF Begin, NoteOverlap, Claims
  <2>2. begun' \in Nat /\ overlapped' \subseteq Org
    BY <1>0, <1>15, <2>1, BeginEffect DEF Shape
  <2> QED
    BY <1>0, <1>10, <1>15, <2>1, <2>2, BeginEffect
<1>16. ASSUME NEW h \in Handler, Read(h) PROVE ClaimInv'
  <2>1. /\ UNCHANGED <<billing, audit, claimed, owner, session, applied, unmapped, died>>
        /\ begun' \in Nat /\ overlapped' \subseteq Org /\ Claims(h)
    BY <1>0, <1>16 DEF Read, Shape, Claims
  <2> QED
    BY <1>0, <1>10, <1>16, <2>1, ReadEffect
<1>11. ASSUME NEW h \in Handler, Stale(h) PROVE ClaimInv'
  <2> DEFINE e == hook[h].event
             o == hook[h].org
  <2>1. /\ hook' = [hook EXCEPT ![h] = Idle] /\ hook[h].pc = "started"
        /\ UNCHANGED <<billing, audit, claimed, owner, session, begun, applied, unmapped, died, overlapped>>
        /\ audit[o].created # None /\ ~(e.created >= audit[o].created)
    BY <1>11 DEF Stale, ShouldApply
  <2>2. /\ hook' \in [Handler -> {Idle} \cup Looked \cup Started \cup Reading]
        /\ hook'[h].pc = "idle" /\ Others(h)
    BY <1>0, <2>1, IdleEffect
  <2>3. e \in Event /\ o \in Org /\ owner[e.customer] = o
    BY <1>0, <2>1, HookType, NoneType DEF OwnedBy
  <2>4. PICK n \in AppliedTo(o) : n.created = audit[o].created
    BY <2>1, <2>3 DEF ClaimInv, AuditIsApplied
  <2>5. e.created \in Nat /\ n.created \in Nat
    BY <2>3, <2>4, EventType DEF AppliedTo
  <2>6. n \in AppliedTo(owner[e.customer]) /\ n.created > e.created
    BY <2>1, <2>3, <2>4, <2>5
  <2> QED
    BY <2>1, <2>2, <2>6, ClaimInvHandler DEF ClaimInv, Shape
<1>12. ASSUME NEW h \in Handler, Apply(h) PROVE ClaimInv'
  <2> DEFINE e == hook[h].event
             o == hook[h].org
  <2>1. /\ hook[h].pc = "read" /\ o \in Org /\ e \in Event
        /\ billing' \in [Org -> Row] /\ audit' \in [Org -> Audit] /\ applied' \in [Event -> Nat]
        /\ billing'[o].customer = e.customer
        /\ \A x \in Org \ {o} : billing'[x] = billing[x] /\ audit'[x] = audit[x]
        /\ audit'[o] = IF hook[h].at > audit[o].at
                       THEN [at |-> hook[h].at, created |-> e.created] ELSE audit[o]
        /\ applied'[e] = applied[e] + 1
        /\ \A x \in Event \ {e} : applied'[x] = applied[x]
    BY <1>0, <1>12, ApplyEffect
  <2>2. /\ hook' = [hook EXCEPT ![h] = Idle]
        /\ UNCHANGED <<claimed, owner, session, begun, unmapped, died, overlapped>>
    BY <1>12 DEF Apply
  <2>3. /\ hook' \in [Handler -> {Idle} \cup Looked \cup Started \cup Reading]
        /\ hook'[h].pc = "idle" /\ Others(h)
    BY <1>0, <2>2, IdleEffect
  <2>4. owner[e.customer] = o /\ e \in claimed /\ applied[e] = 0 /\ e.customer \in Customer
    BY <1>0, <2>1, NoneType, EventType DEF OwnedBy, ClaimInv, ClaimedOnce, Claims
  <2> HIDE DEF e, o
  <2>5. Shape'
    BY <2>1, <2>2, <2>3 DEF ClaimInv, Shape
  <2>6. OwnedBy'
    <3>1. \A x \in Event : applied'[x] > 0 => owner[x.customer] # None
      BY <2>1, <2>4, NoneType DEF ClaimInv, OwnedBy
    <3> QED
      BY <2>1, <2>2, <2>3, <2>4, <3>1 DEF ClaimInv, OwnedBy, Others
  <2>7. ClaimedOnce'
    <3>1. \A g \in Handler : Claims(g)' => Claims(g) /\ hook'[g] = hook[g] /\ hook[g].event # e
      BY <2>1, <2>3 DEF ClaimInv, ClaimedOnce, Claims, Others, e
    <3>2. \A g \in Handler : Claims(g) => hook[g].event \in Event
      BY <1>0, HookType DEF Claims
    <3> QED
      BY <2>1, <2>2, <2>4, <3>1, <3>2 DEF ClaimInv, ClaimedOnce
  <2>8. \A x \in Event : applied[x] > 0 => applied'[x] > 0
    <3>1. \A x \in Event : applied'[x] = applied[x] \/ applied'[x] = applied[x] + 1
      BY <2>1
    <3> QED
      BY <2>2, <3>1, AppliedGrows
  <2>9. applied'[e] > 0
    BY <2>1, <2>4
  <2>10. AuditIsApplied'
    <3> SUFFICES ASSUME NEW x \in Org, audit'[x].created # None
                 PROVE  \E n \in Event : applied'[n] > 0 /\ owner[n.customer] = x
                                       /\ n.created = audit'[x].created
      BY <2>2 DEF AuditIsApplied, AppliedTo
    <3>1. CASE audit'[x] = audit[x]
      BY <2>8, <3>1 DEF ClaimInv, AuditIsApplied, AppliedTo
    <3>2. CASE x = o /\ audit'[o] = [at |-> hook[h].at, created |-> e.created]
      BY <2>1, <2>4, <2>9, <3>2
    <3> QED
      BY <2>1, <3>1, <3>2
  <2>11. Accounted'
    <3> SUFFICES ASSUME NEW x \in claimed
                 PROVE  \/ ~Handled(x) \/ applied'[x] > 0 \/ InFlight(x)'
                        \/ x \in unmapped \cup died
                        \/ \E n \in Event : /\ applied'[n] > 0 /\ n.created > x.created
                                           /\ owner[n.customer] = owner[x.customer]
      BY <2>2 DEF Accounted, AppliedTo
    <3>1. CASE x = e
      BY <2>9, <3>1
    <3>2. CASE x # e
      <4>1. InFlight(x) => InFlight(x)'
        BY <2>3, <3>2 DEF InFlight, Others, e
      <4> QED
        BY <2>8, <4>1 DEF ClaimInv, Shape, Accounted, AppliedTo
    <3> QED
      BY <3>1, <3>2
  <2> QED
    BY <2>5, <2>6, <2>7, <2>10, <2>11 DEF ClaimInv
<1>13. ASSUME NEW h \in Handler, HandlerFails(h) PROVE ClaimInv'
  <2>1. /\ hook' = [hook EXCEPT ![h] = Idle]
        /\ UNCHANGED <<billing, audit, claimed, owner, session, begun, applied, unmapped, overlapped>>
        /\ died' = IF hook[h].pc = "looked" THEN died ELSE died \cup {hook[h].event}
        /\ hook[h].pc # "idle"
    BY <1>13 DEF HandlerFails
  <2>2. /\ hook' \in [Handler -> {Idle} \cup Looked \cup Started \cup Reading]
        /\ hook'[h].pc = "idle" /\ Others(h)
    BY <1>0, <2>1, IdleEffect
  <2>3. hook[h].pc # "looked" => Claims(h)
    BY <1>0, <2>1, HookType DEF Claims
  <2>4. Claims(h) => hook[h].event \in claimed /\ hook[h].event \in died'
    BY <2>1 DEF ClaimInv, ClaimedOnce, Claims
  <2>5. died \subseteq died' /\ died' \subseteq claimed
    BY <2>1, <2>3, <2>4 DEF ClaimInv, Shape
  <2> QED
    BY <2>1, <2>2, <2>4, <2>5, ClaimInvHandler DEF ClaimInv, Shape
<1>14. CASE UNCHANGED vars
  BY <1>14 DEF vars, ClaimInv, Shape, OwnedBy, ClaimedOnce, Claims, AuditIsApplied, Accounted,
               AppliedTo, InFlight
<1> QED
  BY <1>2, <1>3, <1>4, <1>5, <1>6, <1>7, <1>8, <1>9, <1>11, <1>12, <1>13, <1>14, <1>15, <1>16 DEF Next

-----------------------------------------------------------------------------
(* Order *)

LEMMA OrderInvInit == Assumptions /\ Init => OrderInv
<1> SUFFICES ASSUME Assumptions, Init PROVE OrderInv
  OBVIOUS
<1>1. /\ \A h \in Handler : hook[h].pc = "idle"
      /\ \A s \in Session : session[s].pc = "idle"
      /\ \A o \in Org : audit[o].at = 0 /\ audit[o].created = None
      /\ \A e \in Event : applied[e] = 0
      /\ begun = 0
  BY DEF Init, Idle
<1>2. AuditIsPast
  BY <1>1 DEF AuditIsPast
<1>3. OneSection /\ ReadsCurrent
  BY <1>1 DEF OneSection, ReadsCurrent, HookOn, SessionOn
<1>4. ShowsNewest
  BY <1>1 DEF ShowsNewest, AppliedTo
<1> QED
  BY <1>2, <1>3, <1>4 DEF OrderInv

(* A handler that has no transaction open disturbs nothing. *)
LEMMA OrderInvHandler ==
  ASSUME OrderInv, NEW h \in Handler, Others(h), hook'[h].pc \notin {"started", "read"},
         UNCHANGED <<billing, audit, owner, session, begun, applied, overlapped>>
  PROVE  OrderInv'
<1>1. \A g \in Handler : \A o : HookOn(g, o)' => HookOn(g, o) /\ hook'[g] = hook[g]
  BY DEF HookOn, Others
<1>2. \A s \in Session : \A o : SessionOn(s, o)' <=> SessionOn(s, o)
  BY DEF SessionOn
<1>3. AuditIsPast' /\ ShowsNewest'
  BY DEF OrderInv, AuditIsPast, ShowsNewest, AppliedTo, Others
<1>4. OneSection'
  BY <1>1, <1>2 DEF OrderInv, OneSection
<1>5. ReadsCurrent'
  BY <1>1, <1>2 DEF OrderInv, ReadsCurrent, HookReads
<1> QED
  BY <1>3, <1>4, <1>5 DEF OrderInv

LEMMA OrderInvStep == Assumptions /\ ClaimInv /\ OrderInv /\ [Next]_vars => OrderInv'
<1> SUFFICES ASSUME Assumptions, ClaimInv, OrderInv, [Next]_vars PROVE OrderInv'
  OBVIOUS
<1>0. Shape /\ OwnedBy
  BY DEF ClaimInv
<1>1. ASSUME NEW s \in Session, NEW o \in Org, CheckoutRead(s, o) PROVE OrderInv'
  <2>1. /\ session[s].pc = "idle" /\ session'[s].pc = "read"
        /\ session'[s].org = o /\ session'[s].row = billing[o]
        /\ \A t \in Session \ {s} : session'[t] = session[t]
    BY <1>0, <1>1, CheckoutReadEffect DEF OtherSessions
  <2>2. /\ UNCHANGED <<billing, audit, claimed, owner, hook, begun, applied>>
        /\ overlapped' = IF Writing(o) THEN overlapped \cup {o} ELSE overlapped
    BY <1>1 DEF CheckoutRead, NoteOverlap
  <2>3. o \notin overlapped' => /\ \A h \in Handler : ~HookOn(h, o)
                                /\ \A t \in Session : ~SessionOn(t, o)
    BY <2>2 DEF Writing, HookOn, SessionOn
  <2>4. /\ \A x \in Org \ {o}, t \in Session : SessionOn(t, x)' <=> SessionOn(t, x)
        /\ \A t \in Session : SessionOn(t, o)' <=> t = s \/ SessionOn(t, o)
    BY <2>1 DEF SessionOn
  <2>5. \A h \in Handler : \A x : HookOn(h, x)' <=> HookOn(h, x)
    BY <2>2 DEF HookOn
  <2>6. overlapped \subseteq overlapped'
    BY <2>2
  <2>7. AuditIsPast' /\ ShowsNewest'
    BY <2>2, <2>6 DEF OrderInv, AuditIsPast, ShowsNewest, AppliedTo
  <2>8. OneSection'
    BY <2>3, <2>4, <2>5, <2>6 DEF OrderInv, OneSection
  <2>9. ReadsCurrent'
    <3> SUFFICES ASSUME NEW x \in Org \ overlapped'
                 PROVE  /\ \A h \in Handler : HookOn(h, x) => HookReads(h, x)
                        /\ \A t \in Session : SessionOn(t, x)' => session'[t].row = billing[x]
      BY <2>2, <2>5 DEF ReadsCurrent, HookReads, ShouldApply
    <3>1. x \notin overlapped
      BY <2>6
    <3>2. \A h \in Handler : HookOn(h, x) => HookReads(h, x)
      BY <3>1 DEF OrderInv, ReadsCurrent
    <3>3. \A t \in Session : SessionOn(t, x) => session[t].row = billing[x]
      BY <3>1 DEF OrderInv, ReadsCurrent
    <3>4. ASSUME NEW t \in Session, SessionOn(t, x)' PROVE session'[t].row = billing[x]
      <4>1. CASE t = s
        BY <2>1, <3>4, <4>1 DEF SessionOn
      <4>2. CASE t # s
        BY <2>1, <2>4, <3>3, <3>4, <4>2
      <4> QED
        BY <4>1, <4>2
    <3> QED
      BY <3>2, <3>4
  <2> QED
    BY <2>7, <2>8, <2>9 DEF OrderInv
<1>2. ASSUME NEW s \in Session, CheckoutCreate(s) PROVE OrderInv'
  <2>1. PICK c \in Customer :
          /\ owner[c] = None /\ session[s].pc = "read" /\ session[s].org \in Org
          /\ session' \in [Session -> {Idle} \cup Begun \cup Made]
          /\ session'[s].pc = "made" /\ session'[s].org = session[s].org
          /\ session'[s].row = session[s].row /\ session'[s].customer = c
          /\ OtherSessions(s)
          /\ owner' \in [Customer -> Org \cup {None}] /\ owner'[c] = session[s].org
          /\ \A x \in Customer \ {c} : owner'[x] = owner[x]
    BY <1>0, <1>2, CheckoutCreateEffect
  <2>2. UNCHANGED <<billing, audit, claimed, hook, begun, applied, unmapped, died, overlapped>>
    BY <1>2 DEF CheckoutCreate
  <2>3. \A t \in Session : \A x : (SessionOn(t, x)' <=> SessionOn(t, x)) /\ session'[t].row = session[t].row
    BY <2>1 DEF SessionOn, OtherSessions
  <2>4. \A e \in Event : applied[e] > 0 => owner'[e.customer] = owner[e.customer]
    <3>1. \A x \in Customer : owner[x] # None => owner'[x] = owner[x]
      BY <2>1
    <3> QED
      BY <2>2, <3>1, AppliedGrows
  <2>5. AuditIsPast' /\ ShowsNewest'
    BY <2>2, <2>4 DEF OrderInv, AuditIsPast, ShowsNewest, AppliedTo
  <2>6. \A h \in Handler : \A x : HookOn(h, x)' <=> HookOn(h, x)
    BY <2>2 DEF HookOn
  <2>7. OneSection'
    BY <2>2, <2>3, <2>6 DEF OrderInv, OneSection
  <2>8. ReadsCurrent'
    BY <2>2, <2>3, <2>6 DEF OrderInv, ReadsCurrent, HookReads
  <2> QED
    BY <2>5, <2>7, <2>8 DEF OrderInv
<1>3. ASSUME NEW s \in Session, session'[s].pc = "idle", OtherSessions(s),
             UNCHANGED <<audit, owner, hook, begun, applied, overlapped>>,
             \/ UNCHANGED billing
             \/ /\ session[s].pc = "made" /\ session[s].org \in Org
                /\ billing'[session[s].org].from = session[s].row.from
                /\ \A x \in Org \ {session[s].org} : billing'[x] = billing[x]
      PROVE  OrderInv'
  <2>1. \A t \in Session : \A x : SessionOn(t, x)' => SessionOn(t, x) /\ session'[t] = session[t] /\ t # s
    BY <1>3 DEF SessionOn, OtherSessions
  <2>2. \A h \in Handler : \A x : HookOn(h, x)' <=> HookOn(h, x)
    BY <1>3 DEF HookOn
  <2>3. OneSection'
    BY <1>3, <2>1, <2>2 DEF OrderInv, OneSection
  <2>4. \A x \in Org \ overlapped : billing'[x].from = billing[x].from
    BY <1>3 DEF OrderInv, ReadsCurrent, SessionOn
  <2>5. AuditIsPast' /\ ShowsNewest'
    BY <1>3, <2>4 DEF OrderInv, AuditIsPast, ShowsNewest, AppliedTo
  <2>6. ASSUME NEW x \in Org \ overlapped
        PROVE  \/ billing'[x] = billing[x]
               \/ /\ \A h \in Handler : ~HookOn(h, x)
                  /\ \A t \in Session \ {s} : ~SessionOn(t, x)
    BY <1>3 DEF OrderInv, OneSection, SessionOn
  <2>7. ReadsCurrent'
    BY <1>3, <2>1, <2>2, <2>6 DEF OrderInv, ReadsCurrent, HookReads
  <2> QED
    BY <2>3, <2>5, <2>7 DEF OrderInv
<1>4. ASSUME NEW s \in Session, CheckoutCommit(s) PROVE OrderInv'
  <2>1. /\ session[s].pc = "made" /\ session[s].org \in Org
        /\ billing'[session[s].org].from = session[s].row.from
        /\ \A o \in Org \ {session[s].org} : billing'[o] = billing[o]
    BY <1>0, <1>4, CheckoutCommitEffect
  <2>2. session'[s].pc = "idle" /\ OtherSessions(s)
        /\ UNCHANGED <<audit, owner, hook, begun, applied, overlapped>>
    BY <1>0, <1>4, CheckoutIdleEffect DEF CheckoutCommit
  <2> QED
    BY <1>3, <2>1, <2>2
<1>5. ASSUME NEW s \in Session, CheckoutFails(s) PROVE OrderInv'
  <2>1. session'[s].pc = "idle" /\ OtherSessions(s)
        /\ UNCHANGED <<billing, audit, owner, hook, begun, applied, overlapped>>
    BY <1>0, <1>5, CheckoutIdleEffect DEF CheckoutFails
  <2> QED
    BY <1>3, <2>1
<1>6. ASSUME NEW h \in Handler, NEW e \in Event, Deliver(h, e) PROVE OrderInv'
  <2>1. hook'[h].pc = "looked" /\ Others(h)
    BY <1>0, <1>6, DeliverEffect
  <2>2. UNCHANGED <<billing, audit, owner, session, begun, applied, overlapped>>
    BY <1>6 DEF Deliver
  <2> QED
    BY <2>1, <2>2, OrderInvHandler
<1>7. ASSUME NEW h \in Handler, Duplicate(h) \/ Ignore(h) \/ Stale(h) \/ HandlerFails(h)
      PROVE  OrderInv'
  <2>1. hook' = [hook EXCEPT ![h] = Idle]
        /\ UNCHANGED <<billing, audit, owner, session, begun, applied, overlapped>>
    BY <1>7 DEF Duplicate, Ignore, Stale, HandlerFails
  <2>2. hook'[h].pc = "idle" /\ Others(h)
    BY <1>0, <2>1, IdleEffect
  <2> QED
    BY <2>1, <2>2, OrderInvHandler
<1>8. ASSUME NEW h \in Handler, Claim(h) PROVE OrderInv'
  <2>1. hook'[h].pc = "claimed" /\ Others(h)
    BY <1>0, <1>8, ClaimEffect
  <2>2. UNCHANGED <<billing, audit, owner, session, begun, applied, overlapped>>
    BY <1>8 DEF Claim
  <2> QED
    BY <2>1, <2>2, OrderInvHandler
<1>9. ASSUME NEW h \in Handler, NEW o \in Org, Begin(h), hook[h].org = o PROVE OrderInv'
  <2>1. /\ hook[h].pc = "claimed" /\ hook'[h].pc = "started"
        /\ hook'[h].org = o /\ hook'[h].at = begun + 1
        /\ \A g \in Handler \ {h} : hook'[g] = hook[g]
    BY <1>0, <1>9, BeginEffect DEF Others
  <2>2. /\ UNCHANGED <<billing, audit, claimed, owner, session, applied>> /\ begun' = begun + 1
        /\ overlapped' = IF Writing(o) THEN overlapped \cup {o} ELSE overlapped
    BY <1>9 DEF Begin, NoteOverlap
  <2>3. o \notin overlapped' => /\ \A g \in Handler : ~HookOn(g, o)
                                /\ \A t \in Session : ~SessionOn(t, o)
    BY <2>2 DEF Writing, HookOn, SessionOn
  <2>4. /\ \A x \in Org \ {o}, g \in Handler : HookOn(g, x)' <=> HookOn(g, x)
        /\ \A g \in Handler : HookOn(g, o)' <=> g = h \/ HookOn(g, o)
    BY <2>1 DEF HookOn
  <2>5. \A t \in Session : \A x : SessionOn(t, x)' <=> SessionOn(t, x)
    BY <2>2 DEF SessionOn
  <2>6. overlapped \subseteq overlapped'
    BY <2>2
  <2>7. begun \in Nat /\ \A x \in Org : audit[x].at \in Nat /\ audit[x].at <= begun
    BY DEF OrderInv, AuditIsPast, ClaimInv, Shape, Audit
  <2>8. AuditIsPast' /\ ShowsNewest'
    <3>1. ASSUME NEW g \in Handler, hook'[g].pc \in {"started", "read"} PROVE hook'[g].at <= begun'
      <4>1. CASE g = h
        BY <2>1, <2>2, <2>7, <4>1
      <4>2. CASE g # h
        <5>1. hook[g].pc \in {"started", "read"} /\ hook'[g].at = hook[g].at
          BY <2>1, <3>1, <4>2
        <5>2. hook[g].at \in Nat /\ hook[g].at <= begun
          BY <1>0, <5>1, HookType DEF OrderInv, AuditIsPast
        <5> QED
          BY <2>2, <2>7, <5>1, <5>2
      <4> QED
        BY <4>1, <4>2
    <3>2. ShowsNewest'
      BY <2>2, <2>6 DEF OrderInv, ShowsNewest, AppliedTo
    <3>3. \A x \in Org : audit'[x].at <= begun'
      BY <2>2, <2>7
    <3> QED
      BY <3>1, <3>2, <3>3 DEF AuditIsPast
  <2>9. OneSection'
    BY <2>3, <2>4, <2>5, <2>6 DEF OrderInv, OneSection
  <2>10. ReadsCurrent'
    <3> SUFFICES ASSUME NEW x \in Org \ overlapped'
                 PROVE  /\ \A g \in Handler : HookOn(g, x)' => HookReads(g, x)'
                        /\ \A t \in Session : SessionOn(t, x) => session[t].row = billing[x]
      BY <2>2, <2>5 DEF ReadsCurrent
    <3>1. x \notin overlapped
      BY <2>6
    <3>2. \A t \in Session : SessionOn(t, x) => session[t].row = billing[x]
      BY <3>1 DEF OrderInv, ReadsCurrent
    <3>3. ASSUME NEW g \in Handler, HookOn(g, x)' PROVE HookReads(g, x)'
      <4>1. CASE g = h
        <5>1. audit'[x] = audit[x] /\ audit[x].at \in Nat /\ audit[x].at <= begun
          BY <2>2, <2>7
        <5> QED
          BY <2>1, <2>7, <4>1, <5>1 DEF HookReads
      <4>2. CASE g # h
        <5>1. HookOn(g, x) /\ hook'[g] = hook[g]
          BY <2>1, <2>4, <3>3, <4>2 DEF HookOn
        <5>2. HookReads(g, x)
          BY <3>1, <5>1 DEF OrderInv, ReadsCurrent
        <5> QED
          BY <2>2, <5>1, <5>2 DEF HookReads
      <4> QED
        BY <4>1, <4>2
    <3> QED
      BY <3>2, <3>3
  <2> QED
    BY <2>8, <2>9, <2>10 DEF OrderInv
<1>14. ASSUME NEW h \in Handler, NEW o \in Org, Read(h), hook[h].org = o PROVE OrderInv'
  <2>1. /\ hook[h].pc = "started" /\ hook'[h].pc = "read"
        /\ hook'[h].org = o /\ hook'[h].at = hook[h].at /\ hook'[h].event = hook[h].event
        /\ \A g \in Handler \ {h} : hook'[g] = hook[g]
    BY <1>0, <1>14, ReadEffect DEF Others
  <2>2. /\ UNCHANGED <<billing, audit, owner, session, begun, applied, overlapped>>
        /\ ShouldApply(audit[o].created, hook[h].event)
    BY <1>14 DEF Read
  <2>3. \A g \in Handler : \A x : HookOn(g, x)' <=> HookOn(g, x)
    BY <2>1, <1>14 DEF HookOn
  <2>4. \A t \in Session : \A x : SessionOn(t, x)' <=> SessionOn(t, x)
    BY <2>2 DEF SessionOn
  <2>5. AuditIsPast'
    <3>1. \A g \in Handler : hook'[g].pc \in {"started", "read"} =>
            hook[g].pc \in {"started", "read"} /\ hook'[g].at = hook[g].at
      BY <2>1
    <3> QED
      BY <2>2, <3>1 DEF OrderInv, AuditIsPast
  <2>6. ShowsNewest'
    BY <2>2 DEF OrderInv, ShowsNewest, AppliedTo
  <2>7. OneSection'
    BY <2>2, <2>3, <2>4 DEF OrderInv, OneSection
  <2>8. ReadsCurrent'
    <3>1. ASSUME NEW x \in Org \ overlapped, NEW g \in Handler, HookOn(g, x) PROVE HookReads(g, x)'
      <4>1. HookReads(g, x)
        BY <3>1 DEF OrderInv, ReadsCurrent
      <4>2. CASE g = h
        <5>1. x = o
          BY <1>14, <3>1, <4>2 DEF HookOn
        <5>2. ShouldApply(audit[o].created, hook[h].event)'
          BY <2>1, <2>2 DEF ShouldApply
        <5> QED
          BY <2>1, <2>2, <4>1, <4>2, <5>1, <5>2 DEF HookReads
      <4>3. CASE g # h
        <5>1. hook'[g] = hook[g]
          BY <2>1, <4>3
        <5> QED
          BY <2>2, <4>1, <5>1 DEF HookReads, ShouldApply
      <4> QED
        BY <4>2, <4>3
    <3> QED
      BY <2>2, <2>3, <2>4, <3>1 DEF OrderInv, ReadsCurrent
  <2> QED
    BY <2>5, <2>6, <2>7, <2>8 DEF OrderInv
<1>10. ASSUME NEW h \in Handler, NEW o \in Org, NEW e \in Event, Apply(h),
              hook[h].org = o, hook[h].event = e
       PROVE  OrderInv'
  <2>1. /\ hook[h].pc = "read" /\ audit' \in [Org -> Audit]
        /\ billing'[o].from = e
        /\ \A x \in Org \ {o} : billing'[x] = billing[x] /\ audit'[x] = audit[x]
        /\ audit'[o] = IF hook[h].at > audit[o].at
                       THEN [at |-> hook[h].at, created |-> e.created] ELSE audit[o]
        /\ \A x \in Event \ {e} : applied'[x] = applied[x]
    BY <1>0, <1>10, ApplyEffect
  <2>2. /\ hook' = [hook EXCEPT ![h] = Idle]
        /\ UNCHANGED <<claimed, owner, session, begun, unmapped, died, overlapped>>
    BY <1>10 DEF Apply
  <2>3. hook'[h].pc = "idle" /\ \A g \in Handler \ {h} : hook'[g] = hook[g]
    BY <1>0, <2>2, IdleEffect DEF Others
  <2>4. \A g \in Handler : \A x : HookOn(g, x)' => HookOn(g, x) /\ hook'[g] = hook[g] /\ g # h
    BY <2>3 DEF HookOn
  <2>5. \A t \in Session : \A x : SessionOn(t, x)' <=> SessionOn(t, x)
    BY <2>2 DEF SessionOn
  <2>6. HookOn(h, o)
    BY <1>10, <2>1 DEF HookOn
  <2>7. owner[e.customer] = o /\ e.created \in Nat
    BY <1>0, <1>10, <2>1, NoneType, EventType DEF OwnedBy
  <2>8. ASSUME o \notin overlapped
        PROVE  /\ \A g \in Handler : HookOn(g, o) => g = h
               /\ \A t \in Session : ~SessionOn(t, o)
               /\ audit'[o].created = e.created
               /\ ShouldApply(audit[o].created, e)
    <3>1. hook[h].at > audit[o].at /\ ShouldApply(audit[o].created, e)
      BY <1>10, <2>1, <2>6, <2>8 DEF OrderInv, ReadsCurrent, HookReads
    <3>2. /\ \A g \in Handler : HookOn(g, o) => g = h
          /\ \A t \in Session : ~SessionOn(t, o)
      BY <2>6, <2>8 DEF OrderInv, OneSection
    <3> QED
      BY <2>1, <3>1, <3>2
  <2>9. OneSection'
    BY <2>2, <2>4, <2>5 DEF OrderInv, OneSection
  <2>10. ReadsCurrent'
    <3> SUFFICES ASSUME NEW x \in Org \ overlapped
                 PROVE  /\ \A g \in Handler : HookOn(g, x)' => HookReads(g, x)'
                        /\ \A t \in Session : SessionOn(t, x) => session[t].row = billing'[x]
      BY <2>2, <2>5 DEF ReadsCurrent
    <3>1. CASE x = o
      BY <2>4, <2>8, <3>1
    <3>2. CASE x # o
      BY <2>1, <2>4, <3>2 DEF OrderInv, ReadsCurrent, HookReads
    <3> QED
      BY <3>1, <3>2
  <2>11. AuditIsPast'
    <3>1. hook[h].at <= begun
      BY <2>1 DEF OrderInv, AuditIsPast
    <3>2. \A x \in Org : audit'[x].at <= begun
      BY <2>1, <3>1 DEF OrderInv, AuditIsPast
    <3> QED
      BY <2>2, <2>3, <3>2 DEF OrderInv, AuditIsPast
  <2>12. ShowsNewest'
    <3> SUFFICES ASSUME NEW x \in Org \ overlapped
                 PROVE  /\ audit'[x].created # None => billing'[x].from # None
                                                   /\ billing'[x].from.created = audit'[x].created
                        /\ \A n \in Event : applied'[n] > 0 /\ owner[n.customer] = x =>
                             audit'[x].created # None /\ n.created <= audit'[x].created
      BY <2>2 DEF ShowsNewest, AppliedTo
    <3>1. /\ audit[x].created # None => billing[x].from # None
                                    /\ billing[x].from.created = audit[x].created
          /\ \A n \in Event : applied[n] > 0 /\ owner[n.customer] = x =>
               audit[x].created # None /\ n.created <= audit[x].created
      BY DEF OrderInv, ShowsNewest, AppliedTo
    <3>2. CASE x # o
      <4>1. billing'[x] = billing[x] /\ audit'[x] = audit[x]
        BY <2>1, <3>2
      <4>2. ASSUME NEW n \in Event, owner[n.customer] = x
            PROVE  applied'[n] = applied[n]
        BY <2>1, <2>7, <3>2, <4>2
      <4> QED
        BY <3>1, <4>1, <4>2
    <3>3. CASE x = o
      <4>1. audit'[o].created = e.created /\ ShouldApply(audit[o].created, e)
        BY <2>8, <3>3
      <4>2. billing'[o].from = e /\ e # None /\ e.created # None
        BY <2>1, <2>7, EventType, NoneType
      <4>3. audit[o].created \in Nat \cup {None}
        BY DEF ClaimInv, Shape, Audit
      <4>4. ASSUME NEW n \in Event, applied'[n] > 0, owner[n.customer] = o
            PROVE  n.created <= e.created
        <5>1. n.created \in Nat
          BY EventType
        <5>2. CASE n = e
          BY <5>1, <5>2
        <5>3. CASE n # e
          BY <2>1, <2>7, <3>1, <3>3, <4>1, <4>3, <4>4, <5>1, <5>3 DEF ShouldApply
        <5> QED
          BY <5>2, <5>3
      <4> QED
        BY <3>3, <4>1, <4>2, <4>4
    <3> QED
      BY <3>2, <3>3
  <2> QED
    BY <2>9, <2>10, <2>11, <2>12 DEF OrderInv
<1>11. ASSUME NEW h \in Handler, Begin(h) PROVE OrderInv'
  BY <1>0, <1>9, <1>11, BeginEffect
<1>15. ASSUME NEW h \in Handler, Read(h) PROVE OrderInv'
  BY <1>0, <1>14, <1>15, ReadEffect
<1>12. ASSUME NEW h \in Handler, Apply(h) PROVE OrderInv'
  BY <1>0, <1>10, <1>12, ApplyEffect
<1>13. CASE UNCHANGED vars
  <2>1. UNCHANGED <<billing, audit, owner, hook, session, begun, applied, overlapped>>
    BY <1>13 DEF vars
  <2>2. /\ \A h \in Handler : \A x : HookOn(h, x)' <=> HookOn(h, x)
        /\ \A t \in Session : \A x : SessionOn(t, x)' <=> SessionOn(t, x)
    BY <2>1 DEF HookOn, SessionOn
  <2>3. AuditIsPast' /\ ShowsNewest'
    BY <2>1 DEF OrderInv, AuditIsPast, ShowsNewest, AppliedTo
  <2>4. OneSection' /\ ReadsCurrent'
    BY <2>1, <2>2 DEF OrderInv, OneSection, ReadsCurrent, HookReads, ShouldApply
  <2> QED
    BY <2>3, <2>4 DEF OrderInv
<1> QED
  BY <1>1, <1>2, <1>4, <1>5, <1>6, <1>7, <1>8, <1>11, <1>12, <1>13, <1>15 DEF Next

-----------------------------------------------------------------------------
(* Theorems *)

\* processStripeWebhook and createCheckoutSession: rows, audit and requests always
\* hold values of their kind.
THEOREM TypeCorrect == ASSUME Assumptions PROVE Spec => []TypeOK
<1>1. ClaimInv => TypeOK
  <2> SUFFICES ASSUME ClaimInv PROVE TypeOK
    OBVIOUS
  <2>1. /\ \A h \in Handler : hook[h].pc \in {"idle", "looked", "claimed", "started", "read"}
        /\ \A s \in Session : session[s].pc \in {"idle", "read", "made"}
    BY HookType, SessionType DEF ClaimInv
  <2>2. \A o \in Org : audit[o].at \in Nat /\ audit[o].created \in Nat \cup {None}
    BY DEF ClaimInv, Shape, Audit
  <2> QED
    BY <2>1, <2>2 DEF ClaimInv, Shape, TypeOK
<1> QED
  BY ClaimInvInit, ClaimInvStep, <1>1, PTL DEF Spec

\* claimStripeEvent: for any number of deliveries and handlers, an event is applied
\* at most once, and one that was claimed and not applied was stale, of an unknown
\* customer, or lost with its handler.
THEOREM EventsAreAccountedFor == ASSUME Assumptions PROVE Spec => []EventsAccountedFor
<1>1. ClaimInv => EventsAccountedFor
  BY DEF ClaimInv, ClaimedOnce, Accounted, EventsAccountedFor
<1> QED
  BY ClaimInvInit, ClaimInvStep, <1>1, PTL DEF Spec

\* shouldApplyStripeEvent: in whatever order any number of events arrives, the
\* billing row of a tenant whose transactions never overlapped, from their start to
\* their commit, shows an event as new as every one that was applied to it.
THEOREM NewestIsShown == ASSUME Assumptions PROVE Spec => []NewestWins
<1>1. ClaimInv /\ OrderInv => NewestWins
  <2> SUFFICES ASSUME ClaimInv, OrderInv, NEW o \in Org \ overlapped, NEW e \in AppliedTo(o)
               PROVE  billing[o].from # None /\ billing[o].from.created >= e.created
    BY DEF NewestWins
  <2>1. /\ audit[o].created # None /\ e.created <= audit[o].created
        /\ billing[o].from # None /\ billing[o].from.created = audit[o].created
    BY DEF OrderInv, ShowsNewest
  <2>2. audit[o].created \in Nat /\ e.created \in Nat
    BY <2>1, EventType DEF ClaimInv, Shape, Audit, AppliedTo
  <2> QED
    BY <2>1, <2>2
<1> QED
  BY ClaimInvInit, ClaimInvStep, OrderInvInit, OrderInvStep, <1>1, PTL DEF Spec

=============================================================================
