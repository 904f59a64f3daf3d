----------------------------- MODULE Purchases ------------------------------
(***************************************************************************)
(* The payments service (src/payments/payments.service.ts): checkout, the  *)
(* two paths that fulfil a purchase, and refunds, for the purchases of one *)
(* customer.                                                               *)
(*                                                                         *)
(* The service holds no lock and opens no transaction: what it loads, asks *)
(* Stripe or saves is a step of its own, and the row a handler loaded is   *)
(* the row it later saves.  Repository.save writes all its columns that    *)
(* differ from the database, so a save is an overwrite with what was       *)
(* loaded.  Any process of the cluster may stop between two steps.  Stripe *)
(* delivers each event in any order, more than once, and again until it is *)
(* acknowledged.  The load and the save of one enrollment are one step     *)
(* where the learner or a purchase enrolls, and two where a refund cancels.*)
(***************************************************************************)
EXTENDS Naturals, FiniteSets

CONSTANTS
  PurchaseIds,   \* the purchases the customer may start
  Courses,       \* the courses on sale
  Drafts,        \* the sets of courses a checkout may ask for; the empty
                 \* one is a seat pack
  Requests,      \* the requests the servers handle at the same time
  NoPurchase,    \* the purchase of an enrollment that came without one
  NoEvent,       \* the event of a request that is not a webhook
  MaxCrashes     \* a bound for the checker: how often a request dies

ASSUME DraftAssumption == Drafts \subseteq SUBSET Courses
ASSUME CrashAssumption == MaxCrashes \in Nat

VARIABLES
  purchase,      \* the rows of purchases
  packs,         \* how many seat_packs rows carry the id of the purchase
  enrollment,    \* the customer's enrollment in each course
  commission,    \* what the referral ledger did for each purchase
  stored,        \* the rows of stripe_events
  session,       \* Stripe: the checkout session of each purchase
  refunded,      \* Stripe: the purchases whose charge was refunded
  events,        \* Stripe: the events that have happened
  req,           \* what each request is in the middle of
  crashes

rows == <<purchase, packs, enrollment, commission, stored>>
stripe == <<session, refunded, events>>
vars == <<purchase, packs, enrollment, commission, stored,
          session, refunded, events, req, crashes>>

PurchaseStatus == {"NONE", "PENDING", "PAID", "REFUNDED", "CANCELLED"}
Row == [status: PurchaseStatus, items: SUBSET Courses,
        sessionId: BOOLEAN, intentId: BOOLEAN]
NoRow == [status |-> "NONE", items |-> {}, sessionId |-> FALSE, intentId |-> FALSE]

EnrollmentStatus == {"NONE", "ACTIVE", "COMPLETED", "CANCELLED"}
Enrollment == [status: EnrollmentStatus, source: {"NONE", "SEAT", "PAID"},
               purchase: PurchaseIds \union {NoPurchase}]

(* "paid" stands for checkout.session.completed of a paid session and for   *)
(* checkout.session.async_payment_succeeded, "unpaid" for                  *)
(* checkout.session.completed of one whose payment is still under way.     *)
Event == [kind: {"paid", "unpaid", "expired", "refunded"}, purchase: PurchaseIds]
EventOf(kind, p) == [kind |-> kind, purchase |-> p]

ASSUME NullAssumption == NoPurchase \notin PurchaseIds /\ NoEvent \notin Event

Places == {"idle", "create", "saveSession", "retrieve", "find", "fulfil", "deliver",
           "paidHandlers", "expire", "stripeRefund", "markRefunded", "takeBack",
           "revoke", "refundHandlers", "store"}

(* row and found are the rows the request has loaded, todo the courses it  *)
(* has still to enroll in or to cancel.                                    *)
Request == [at: Places, purchase: PurchaseIds \union {NoPurchase},
            event: Event \union {NoEvent}, row: Row,
            found: [Courses -> Enrollment], todo: SUBSET Courses]

NoEnrollments == [c \in Courses |->
  [status |-> "NONE", source |-> "NONE", purchase |-> NoPurchase]]

Idle == [at |-> "idle", purchase |-> NoPurchase, event |-> NoEvent,
         row |-> NoRow, found |-> NoEnrollments, todo |-> {}]

IsSeatPack(row) == row.items = {}
HasAccess(c) == enrollment[c].status \in {"ACTIVE", "COMPLETED"}

Init ==
  /\ purchase = [p \in PurchaseIds |-> NoRow]
  /\ packs = [p \in PurchaseIds |-> 0]
  /\ enrollment = NoEnrollments
  /\ commission = [p \in PurchaseIds |-> "NONE"]
  /\ stored = {}
  /\ session = [p \in PurchaseIds |-> "none"]
  /\ refunded = {}
  /\ events = {}
  /\ req = [r \in Requests |-> Idle]
  /\ crashes = 0

(***************************************************************************)
(* Requests.                                                               *)
(***************************************************************************)
Start(r, at, p, e, row) ==
  /\ req[r] = Idle
  /\ req' = [req EXCEPT ![r] = [Idle EXCEPT
       !.at = at, !.purchase = p, !.event = e, !.row = row]]

At(r, place) == req[r].at = place
Goto(r, place) == req' = [req EXCEPT ![r].at = place]
Finish(r) == req' = [req EXCEPT ![r] = Idle]

(* Mutant: whoever fulfils or refunds stores an event.                     *)
ConcludeAlwaysStores(r) == Goto(r, "store")

(* After the purchase is dealt with, a webhook stores its event.            *)
Conclude(r) == IF req[r].event = NoEvent THEN Finish(r) ELSE Goto(r, "store")

Save(r, row) == purchase' = [purchase EXCEPT ![req[r].purchase] = row]

Crash(r) ==
  /\ req[r] # Idle
  /\ crashes < MaxCrashes
  /\ crashes' = crashes + 1
  /\ Finish(r)
  /\ UNCHANGED <<rows, stripe>>

(***************************************************************************)
(* Checkout.  The customer gets the address of the session when the        *)
(* handler returns, after the session id is saved.                         *)
(***************************************************************************)
CheckoutSave(r, p, items) ==
  LET row == [NoRow EXCEPT !.status = "PENDING", !.items = items] IN
  /\ purchase[p] = NoRow
  /\ \A c \in items : ~HasAccess(c)
  /\ Start(r, "create", p, NoEvent, row)
  /\ purchase' = [purchase EXCEPT ![p] = row]
  /\ UNCHANGED <<packs, enrollment, commission, stored, stripe, crashes>>

CheckoutCreate(r) ==
  /\ At(r, "create")
  /\ session' = [session EXCEPT ![req[r].purchase] = "open"]
  /\ Goto(r, "saveSession")
  /\ UNCHANGED <<rows, refunded, events, crashes>>

CheckoutFails(r) ==
  /\ At(r, "create")
  /\ Save(r, [req[r].row EXCEPT !.status = "CANCELLED"])
  /\ Finish(r)
  /\ UNCHANGED <<packs, enrollment, commission, stored, stripe, crashes>>

CheckoutSaveSession(r) ==
  /\ At(r, "saveSession")
  /\ Save(r, [req[r].row EXCEPT !.sessionId = TRUE])
  /\ Finish(r)
  /\ UNCHANGED <<packs, enrollment, commission, stored, stripe, crashes>>

(***************************************************************************)
(* The two ways to fulfil.                                                 *)
(***************************************************************************)
ConfirmRead(r, p) ==
  /\ purchase[p].status = "PENDING"
  /\ purchase[p].sessionId
  /\ Start(r, "retrieve", p, NoEvent, purchase[p])
  /\ UNCHANGED <<rows, stripe, crashes>>

ConfirmRetrieve(r) ==
  /\ At(r, "retrieve")
  /\ IF session[req[r].purchase] = "paid" THEN Goto(r, "fulfil") ELSE Finish(r)
  /\ UNCHANGED <<rows, stripe, crashes>>

(* Mutant: one event per purchase is taken for all of them.                *)
WebhookReceiveOnce(r, e) ==
  /\ \A f \in stored : f.purchase # e.purchase
  /\ Start(r, "find", e.purchase, e, NoRow)
  /\ UNCHANGED <<rows, stripe, crashes>>

(* Mutant: a repeated event is handled again.                              *)
WebhookReceiveAgain(r, e) ==
  /\ Start(r, "find", e.purchase, e, NoRow)
  /\ UNCHANGED <<rows, stripe, crashes>>

WebhookReceive(r, e) ==
  /\ e \notin stored
  /\ Start(r, "find", e.purchase, e, NoRow)
  /\ UNCHANGED <<rows, stripe, crashes>>

(* Mutants: the payment of the session is not checked; a purchase already  *)
(* paid is fulfilled again.                                                *)
HandlingUnpaid(e, row) ==
  IF e.kind \in {"paid", "unpaid"} /\ row.status # "PAID" THEN "fulfil" ELSE "store"

HandlingAgain(e, row) == IF e.kind = "paid" THEN "fulfil" ELSE "store"

(* What a webhook does next with the row it finds.  charge.refunded looks  *)
(* the purchase up by its payment intent, which fulfil fills in.           *)
Handling(e, row) ==
  IF e.kind = "paid" /\ row.status # "PAID" THEN "fulfil"
  ELSE IF e.kind = "expired" /\ row.status = "PENDING" THEN "expire"
  ELSE IF e.kind = "refunded" /\ row.intentId /\ row.status = "PAID" THEN "markRefunded"
  ELSE "store"

(* Mutant: the event is stored before it is handled.                        *)
WebhookFindStores(r) ==
  LET row == purchase[req[r].purchase] IN
  /\ At(r, "find")
  /\ req' = [req EXCEPT ![r].row = row, ![r].at = Handling(req[r].event, row)]
  /\ stored' = stored \union {req[r].event}
  /\ UNCHANGED <<purchase, packs, enrollment, commission, stripe, crashes>>

WebhookFind(r) ==
  LET row == purchase[req[r].purchase] IN
  /\ At(r, "find")
  /\ req' = [req EXCEPT ![r].row = row, ![r].at = Handling(req[r].event, row)]
  /\ UNCHANGED <<rows, stripe, crashes>>

FulfilSave(r) ==
  /\ At(r, "fulfil")
  /\ Save(r, [req[r].row EXCEPT !.status = "PAID", !.intentId = TRUE])
  /\ req' = [req EXCEPT ![r].row = purchase'[req[r].purchase],
                        ![r].todo = req[r].row.items, ![r].at = "deliver"]
  /\ UNCHANGED <<packs, enrollment, commission, stored, stripe, crashes>>

DeliverSeatPack(r) ==
  LET p == req[r].purchase IN
  /\ At(r, "deliver")
  /\ IsSeatPack(req[r].row)
  /\ packs' = [packs EXCEPT ![p] = @ + 1]
  /\ Goto(r, "paidHandlers")
  /\ UNCHANGED <<purchase, enrollment, commission, stored, stripe, crashes>>

(* enrollFromPurchase                                                      *)
Enrolled(old, p) ==
  IF old.status \in {"ACTIVE", "COMPLETED"}
  THEN IF old.purchase = NoPurchase THEN [old EXCEPT !.purchase = p] ELSE old
  ELSE [status |-> "ACTIVE", source |-> "PAID", purchase |-> p]

DeliverCourse(r, c) ==
  LET p == req[r].purchase IN
  /\ At(r, "deliver")
  /\ c \in req[r].todo
  /\ enrollment' = [enrollment EXCEPT ![c] = Enrolled(@, p)]
  /\ req' = [req EXCEPT ![r].todo = @ \ {c},
       ![r].at = IF req[r].todo = {c} THEN "paidHandlers" ELSE "deliver"]
  /\ UNCHANGED <<purchase, packs, commission, stored, stripe, crashes>>

(* recordCommission keeps an entry it finds; an error is logged only.       *)
NotifyPaid(r) ==
  LET p == req[r].purchase IN
  /\ At(r, "paidHandlers")
  /\ \/ commission' = [commission EXCEPT ![p] = IF @ = "NONE" THEN "EARNED" ELSE @]
     \/ UNCHANGED commission
  /\ Conclude(r)
  /\ UNCHANGED <<purchase, packs, enrollment, stored, stripe, crashes>>

ExpireSave(r) ==
  /\ At(r, "expire")
  /\ Save(r, [req[r].row EXCEPT !.status = "CANCELLED"])
  /\ Goto(r, "store")
  /\ UNCHANGED <<packs, enrollment, commission, stored, stripe, crashes>>

StoreEvent(r) ==
  /\ At(r, "store")
  /\ stored' = stored \union {req[r].event}
  /\ Finish(r)
  /\ UNCHANGED <<purchase, packs, enrollment, commission, stripe, crashes>>

(***************************************************************************)
(* Refunds.                                                                *)
(***************************************************************************)
RefundRead(r, p) ==
  /\ purchase[p].status = "PAID"
  /\ Start(r, IF purchase[p].intentId THEN "stripeRefund" ELSE "markRefunded",
           p, NoEvent, purchase[p])
  /\ UNCHANGED <<rows, stripe, crashes>>

(* Stripe refuses to refund a charge twice, and the handler gives up.       *)
StripeRefund(r) ==
  LET p == req[r].purchase IN
  /\ At(r, "stripeRefund")
  /\ \/ /\ p \notin refunded
        /\ refunded' = refunded \union {p}
        /\ events' = events \union {EventOf("refunded", p)}
        /\ Goto(r, "markRefunded")
     \/ /\ p \in refunded
        /\ Finish(r)
        /\ UNCHANGED <<refunded, events>>
  /\ UNCHANGED <<rows, session, crashes>>

MarkRefundedSave(r) ==
  /\ At(r, "markRefunded")
  /\ Save(r, [req[r].row EXCEPT !.status = "REFUNDED"])
  /\ Goto(r, "takeBack")
  /\ UNCHANGED <<packs, enrollment, commission, stored, stripe, crashes>>

RemoveSeatPacks(r) ==
  LET p == req[r].purchase IN
  /\ At(r, "takeBack")
  /\ IsSeatPack(req[r].row)
  /\ packs' = [packs EXCEPT ![p] = 0]
  /\ Goto(r, "refundHandlers")
  /\ UNCHANGED <<purchase, enrollment, commission, stored, stripe, crashes>>

(* cancelByPurchase finds its rows first and then saves them one by one.    *)
CancelFind(r) ==
  LET found == {c \in Courses : /\ enrollment[c].status = "ACTIVE"
                                /\ enrollment[c].purchase = req[r].purchase}
  IN
  /\ At(r, "takeBack")
  /\ ~IsSeatPack(req[r].row)
  /\ req' = [req EXCEPT ![r].todo = found, ![r].found = enrollment,
       ![r].at = IF found = {} THEN "refundHandlers" ELSE "revoke"]
  /\ UNCHANGED <<rows, stripe, crashes>>

CancelSave(r, c) ==
  /\ At(r, "revoke")
  /\ c \in req[r].todo
  /\ enrollment' = [enrollment EXCEPT
       ![c] = [req[r].found[c] EXCEPT !.status = "CANCELLED"]]
  /\ req' = [req EXCEPT ![r].todo = @ \ {c},
       ![r].at = IF req[r].todo = {c} THEN "refundHandlers" ELSE "revoke"]
  /\ UNCHANGED <<purchase, packs, commission, stored, stripe, crashes>>

NotifyRefunded(r) ==
  LET p == req[r].purchase IN
  /\ At(r, "refundHandlers")
  /\ \/ commission' = [commission EXCEPT ![p] = IF @ = "EARNED" THEN "REVERSED" ELSE @]
     \/ UNCHANGED commission
  /\ Conclude(r)
  /\ UNCHANGED <<purchase, packs, enrollment, stored, stripe, crashes>>

(***************************************************************************)
(* Stripe and the customer.                                                *)
(***************************************************************************)
HasAddress(p) == purchase[p].sessionId

SessionStep(p, from, to, happened) ==
  /\ session[p] = from
  /\ session' = [session EXCEPT ![p] = to]
  /\ events' = events \union happened
  /\ UNCHANGED <<rows, refunded, req, crashes>>

Pay(p)           == HasAddress(p) /\ SessionStep(p, "open", "paid", {EventOf("paid", p)})
PayLater(p)      == HasAddress(p) /\ SessionStep(p, "open", "unpaid", {EventOf("unpaid", p)})
LaterPaid(p)     == SessionStep(p, "unpaid", "paid", {EventOf("paid", p)})
LaterFailed(p)   == SessionStep(p, "unpaid", "failed", {})
SessionExpire(p) == SessionStep(p, "open", "expired", {EventOf("expired", p)})

(* An operator refunds in the Stripe dashboard.                            *)
DashboardRefund(p) ==
  /\ session[p] = "paid"
  /\ p \notin refunded
  /\ refunded' = refunded \union {p}
  /\ events' = events \union {EventOf("refunded", p)}
  /\ UNCHANGED <<rows, session, req, crashes>>

(***************************************************************************)
(* The learner's own moves on an enrollment.                               *)
(***************************************************************************)
EnrollBySeat(c) ==
  /\ ~HasAccess(c)
  /\ enrollment' = [enrollment EXCEPT ![c] =
       [status |-> "ACTIVE", source |-> "SEAT", purchase |-> NoPurchase]]
  /\ UNCHANGED <<purchase, packs, commission, stored, stripe, req, crashes>>

LeaveActive(c, to) ==
  /\ enrollment[c].status = "ACTIVE"
  /\ enrollment' = [enrollment EXCEPT ![c].status = to]
  /\ UNCHANGED <<purchase, packs, commission, stored, stripe, req, crashes>>

ServerStep(r) ==
  \/ CheckoutCreate(r) \/ CheckoutFails(r) \/ CheckoutSaveSession(r)
  \/ ConfirmRetrieve(r) \/ WebhookFind(r)
  \/ FulfilSave(r) \/ DeliverSeatPack(r) \/ NotifyPaid(r)
  \/ \E c \in Courses : DeliverCourse(r, c)
  \/ ExpireSave(r) \/ StoreEvent(r)
  \/ StripeRefund(r) \/ MarkRefundedSave(r) \/ RemoveSeatPacks(r) \/ CancelFind(r)
  \/ \E c \in Courses : CancelSave(r, c)
  \/ NotifyRefunded(r)

Next ==
  \/ \E r \in Requests, p \in PurchaseIds, items \in Drafts : CheckoutSave(r, p, items)
  \/ \E r \in Requests, p \in PurchaseIds : ConfirmRead(r, p)
  \/ \E r \in Requests, e \in events : WebhookReceive(r, e)
  \/ \E r \in Requests, p \in PurchaseIds : RefundRead(r, p)
  \/ \E r \in Requests : ServerStep(r)
  \/ \E r \in Requests : Crash(r)
  \/ \E p \in PurchaseIds : Pay(p)
  \/ \E p \in PurchaseIds : PayLater(p)
  \/ \E p \in PurchaseIds : LaterPaid(p)
  \/ \E p \in PurchaseIds : LaterFailed(p)
  \/ \E p \in PurchaseIds : SessionExpire(p)
  \/ \E p \in PurchaseIds : DashboardRefund(p)
  \/ \E c \in Courses : EnrollBySeat(c)
  \/ \E c \in Courses : LeaveActive(c, "CANCELLED")
  \/ \E c \in Courses : LeaveActive(c, "COMPLETED")

Spec == Init /\ [][Next]_vars

(* A request that has begun goes on, and Stripe repeats an event until it  *)
(* is acknowledged, however often it finds every server busy.              *)
FairSpec ==
  /\ Spec
  /\ \A r \in Requests : WF_vars(ServerStep(r))
  /\ \A e \in Event : SF_vars(\E r \in Requests : e \in events /\ WebhookReceive(r, e))
-----------------------------------------------------------------------------
(* Every variable has its type.                                            *)
TypeOK ==
  /\ purchase \in [PurchaseIds -> Row]
  /\ packs \in [PurchaseIds -> Nat]
  /\ enrollment \in [Courses -> Enrollment]
  /\ commission \in [PurchaseIds -> {"NONE", "EARNED", "REVERSED"}]
  /\ stored \subseteq Event
  /\ session \in [PurchaseIds -> {"none", "open", "unpaid", "paid", "failed", "expired"}]
  /\ refunded \subseteq PurchaseIds
  /\ events \subseteq Event
  /\ req \in [Requests -> Request]
  /\ crashes \in 0..MaxCrashes

(* What was bought is handed over, and a commission earned, only once the  *)
(* money is there: the browser's return and the webhooks may come in any   *)
(* order, twice, before a late payment succeeds or after it has failed.    *)
DeliveredOnlyIfPaid ==
  \A p \in PurchaseIds :
    \/ session[p] = "paid"
    \/ /\ purchase[p].status \notin {"PAID", "REFUNDED"}
       /\ packs[p] = 0
       /\ commission[p] = "NONE"
       /\ \A c \in Courses : enrollment[c].purchase # p

(* Once Stripe has its acknowledgement of a payment it will not repeat it: *)
(* by then the purchase is marked, and no stale save, expired session or   *)
(* crash unmarks it.                                                       *)
PaidEventsAreApplied ==
  \A p \in PurchaseIds :
    EventOf("paid", p) \in stored => purchase[p].status \in {"PAID", "REFUNDED"}

(* One request at a time and none lost half way, what is delivered is what *)
(* the status of the purchase says: one seat pack or an enrollment in each *)
(* course while it is paid, and no seat pack and no active enrollment of   *)
(* its own otherwise.  Whether the status is still true of the money is    *)
(* what RefundsStand and RefundIsFinal are about.                          *)
SettledPurchasesMatch ==
  (\A r \in Requests : req[r] = Idle) =>
    \A p \in PurchaseIds :
      IF purchase[p].status = "PAID"
      THEN IF IsSeatPack(purchase[p]) THEN packs[p] = 1
           ELSE \A c \in purchase[p].items : enrollment[c].status # "NONE"
      ELSE /\ packs[p] = 0
           /\ \A c \in Courses :
                enrollment[c].purchase = p => enrollment[c].status # "ACTIVE"

(* fulfil is "Idempotent": however often it is called for a purchase, by   *)
(* the confirmation and by the webhook, one seat pack is granted for it.   *)
DeliveredOnce == \A p \in PurchaseIds : packs[p] <= 1

(* One request at a time, once Stripe has its acknowledgement of a payment *)
(* nothing undoes a refund: the event is refused when it comes again, and  *)
(* neither a crash half way nor another event leads back to fulfil.        *)
RefundsStand ==
  [][\A p \in PurchaseIds :
       purchase[p].status = "REFUNDED" /\ EventOf("paid", p) \in stored =>
         purchase'[p].status = "REFUNDED"]_vars

(* fulfil "marks the purchase paid and delivers what was bought.           *)
(* Idempotent.": a purchase that was fulfilled and refunded since, the     *)
(* money back with the customer, is not fulfilled again by the other path. *)
RefundIsFinal ==
  [][\A p \in refunded :
       purchase[p].status = "REFUNDED" => purchase'[p].status # "PAID"]_vars

(* Who has paid gets what was bought, each course of a bundle too, though  *)
(* the browser may never come back ("fulfilment must be correct even when  *)
(* the browser closes before the redirect back to the app or when Stripe   *)
(* retries a webhook").                                                    *)
Awaited(p) == session[p] = "paid" /\ purchase[p].status = "PENDING"

PaidIsDelivered ==
  \A p \in PurchaseIds :
    /\ (Awaited(p) /\ IsSeatPack(purchase[p])) ~> packs[p] > 0
    /\ \A c \in Courses : (Awaited(p) /\ c \in purchase[p].items) ~> HasAccess(c)
=============================================================================
