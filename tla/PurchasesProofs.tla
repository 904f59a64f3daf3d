-------------------------- MODULE PurchasesProofs ---------------------------
(***************************************************************************)
(* Theorems about Purchases, for any number of purchases, courses,         *)
(* requests and crashes, with any overlap: types, that nothing is          *)
(* delivered unpaid, and that no acknowledged payment is unmarked; and,    *)
(* for one request at a time, that what is delivered agrees with the       *)
(* status until a request is lost half way, and that a refund stands once  *)
(* the payment event is acknowledged.                                      *)
(***************************************************************************)
EXTENDS Purchases, TLAPS

(***************************************************************************)
(* The invariant.                                                          *)
(***************************************************************************)
Settled == {"PAID", "REFUNDED"}

(* The places a request reaches only once the session is paid, and those   *)
(* behind the save that marks the purchase.                                *)
AfterSave == {"deliver", "paidHandlers", "takeBack", "revoke", "refundHandlers"}
AfterPayment == {"fulfil", "stripeRefund", "markRefunded"} \union AfterSave
InCheckout == {"create", "saveSession"}

(* Nothing happens at Stripe before there is a session, a paid event means *)
(* a paid session, and a marked purchase has a paid session.               *)
EventsAreTrue ==
  /\ stored \subseteq events
  /\ \A e \in events :
       /\ session[e.purchase] # "none"
       /\ e.kind = "paid" => session[e.purchase] = "paid"
       /\ e.kind = "expired" => session[e.purchase] = "expired"
  /\ \A p \in PurchaseIds :
       /\ purchase[p].status = "NONE" => session[p] = "none"
       /\ purchase[p].status \in Settled => session[p] = "paid"

CheckoutIsUnpaid(r) ==
  /\ req[r].at = "create" => session[req[r].purchase] = "none"
  /\ req[r].at = "saveSession" => session[req[r].purchase] \in {"open", "expired"}

(* Each request stands where what it has seen allows it to.                *)
RequestIsSound(r) ==
  LET q == req[r] IN
  /\ q.at = "idle" => q.purchase = NoPurchase
  /\ q.at # "idle" => q.purchase \in PurchaseIds /\ purchase[q.purchase].status # "NONE"
  /\ q.event # NoEvent => q.event \in events /\ q.event.purchase = q.purchase
  /\ q.at \in {"find", "expire", "store"} => q.event # NoEvent
  /\ q.at = "expire" => session[q.purchase] = "expired"
  /\ q.at \in InCheckout => q.row.status = "PENDING"
  /\ CheckoutIsUnpaid(r)
  /\ q.at \in AfterPayment => session[q.purchase] = "paid"
  /\ q.at \in AfterSave => purchase[q.purchase].status \in Settled
  /\ q.at = "store" /\ q.event.kind = "paid" => purchase[q.purchase].status \in Settled
  /\ \A c \in Courses :
       q.found[c].purchase \in PurchaseIds => session[q.found[c].purchase] = "paid"

(* The customer has no address to pay at while the checkout runs, and no   *)
(* request that has loaded the purchase knows one.                         *)
CheckoutIsAlone(r) ==
  req[r].at \in InCheckout =>
    /\ ~purchase[req[r].purchase].sessionId
    /\ \A s \in Requests : req[s].purchase = req[r].purchase =>
         /\ ~req[s].row.sessionId
         /\ req[s].at \in InCheckout => s = r

PaymentInvariant ==
  /\ TypeOK
  /\ EventsAreTrue
  /\ DeliveredOnlyIfPaid
  /\ PaidEventsAreApplied
  /\ \A r \in Requests : RequestIsSound(r)
  /\ \A r \in Requests : CheckoutIsAlone(r)

(***************************************************************************)
(* What a step keeps.                                                      *)
(***************************************************************************)
Keeps ==
  /\ events \subseteq events'
  /\ \A p \in PurchaseIds :
       /\ session[p] \in {"paid", "expired"} => session'[p] = session[p]
       /\ purchase[p].status \in Settled => purchase'[p].status \in Settled
       /\ purchase[p].status # "NONE" => purchase'[p].status # "NONE"

OnlyMoves(r) ==
  /\ req' \in [Requests -> Request]
  /\ \A s \in Requests \ {r} : req'[s] = req[s]

(* A row with an address was loaded from a row with one.                   *)
RowIsKnown(r) ==
  req'[r].row.sessionId =>
    \/ req[r].row.sessionId /\ req'[r].purchase = req[r].purchase
    \/ purchase[req'[r].purchase].sessionId

LEMMA IdleType == Idle \in Request /\ NoRow \in Row
  BY DEF Idle, Request, Places, NoRow, Row, PurchaseStatus, NoEnrollments, Enrollment,
         EnrollmentStatus

LEMMA RequestFacts ==
  ASSUME PaymentInvariant, NEW r \in Requests
  PROVE  /\ RequestIsSound(r)
         /\ req[r] \in Request /\ req[r].row \in Row /\ req[r].todo \in SUBSET Courses
         /\ req[r].found \in [Courses -> Enrollment]
         /\ req[r].purchase \in PurchaseIds \union {NoPurchase}
         /\ req[r].event \in Event \union {NoEvent} /\ req[r].at \in Places
         /\ req \in [Requests -> Request]
         /\ purchase \in [PurchaseIds -> Row]
         /\ \A p \in PurchaseIds : purchase[p] \in Row
         /\ \A e \in events : e \in Event /\ e.purchase \in PurchaseIds
  BY DEF PaymentInvariant, TypeOK, Request, Event

LEMMA RowUpdateType ==
  ASSUME NEW row \in Row, NEW s \in PurchaseStatus
  PROVE  /\ [row EXCEPT !.status = s] \in Row
         /\ [row EXCEPT !.sessionId = TRUE] \in Row
         /\ [row EXCEPT !.status = s, !.intentId = TRUE] \in Row
  BY DEF Row

(* A request that does not move stays sound.                               *)
LEMMA OthersStaySound ==
  ASSUME PaymentInvariant, Keeps, NEW s \in Requests, req'[s] = req[s],
         CheckoutIsUnpaid(s)'
  PROVE  RequestIsSound(s)'
  <1>1. RequestIsSound(s) /\ req[s].purchase \in PurchaseIds \union {NoPurchase}
    BY RequestFacts
  <1>. QED
    BY <1>1 DEF RequestIsSound, Keeps, InCheckout, AfterPayment, AfterSave, Settled

LEMMA AloneKept ==
  ASSUME PaymentInvariant, NEW r \in Requests, OnlyMoves(r), RowIsKnown(r),
         \A p \in PurchaseIds : purchase'[p].sessionId =>
           \/ purchase[p].sessionId
           \/ /\ p = req[r].purchase
              /\ req[r].row.sessionId \/ req[r].at \in InCheckout,
         req'[r].at \in InCheckout =>
           /\ req[r].at \in InCheckout
           /\ req'[r].purchase = req[r].purchase
           /\ purchase' = purchase,
         NEW s \in Requests
  PROVE  CheckoutIsAlone(s)'
  <1> SUFFICES ASSUME req'[s].at \in InCheckout
               PROVE  /\ ~purchase'[req'[s].purchase].sessionId
                      /\ \A t \in Requests : req'[t].purchase = req'[s].purchase =>
                           /\ ~req'[t].row.sessionId
                           /\ req'[t].at \in InCheckout => t = s
    BY DEF CheckoutIsAlone
  <1>1. /\ req[s].at \in InCheckout /\ req'[s].purchase = req[s].purchase
        /\ req[s].purchase \in PurchaseIds
    BY RequestFacts DEF RequestIsSound, InCheckout, OnlyMoves
  <1>2. CheckoutIsAlone(s)
    BY DEF PaymentInvariant
  <1>3. ~purchase'[req'[s].purchase].sessionId
    BY <1>1, <1>2 DEF CheckoutIsAlone
  <1>. QED
    BY <1>1, <1>2, <1>3 DEF CheckoutIsAlone, OnlyMoves, RowIsKnown

(***************************************************************************)
(* Steps of one request, by what they change.                              *)
(***************************************************************************)

(* Neither the purchases nor Stripe change.                                *)
LEMMA QuietStep ==
  ASSUME PaymentInvariant, NEW r \in Requests, OnlyMoves(r), RowIsKnown(r),
         RequestIsSound(r)', req'[r].at \notin InCheckout,
         UNCHANGED <<purchase, session, events>>, stored' \subseteq events,
         TypeOK', DeliveredOnlyIfPaid', PaidEventsAreApplied'
  PROVE  PaymentInvariant'
  <1>1. Keeps
    BY DEF Keeps
  <1>2. EventsAreTrue'
    BY DEF PaymentInvariant, EventsAreTrue
  <1>3. \A s \in Requests : RequestIsSound(s)'
    <2>1. ASSUME NEW s \in Requests \ {r} PROVE RequestIsSound(s)'
      <3>1. req'[s] = req[s] /\ CheckoutIsUnpaid(s)
        BY RequestFacts DEF OnlyMoves, RequestIsSound
      <3>. QED
        BY <1>1, <3>1, OthersStaySound DEF CheckoutIsUnpaid
    <2>. QED
      BY <2>1
  <1>4. \A s \in Requests : CheckoutIsAlone(s)'
    BY AloneKept
  <1>. QED
    BY <1>2, <1>3, <1>4 DEF PaymentInvariant

(* Only the request changes.                                               *)
LEMMA ReadStep ==
  ASSUME PaymentInvariant, NEW r \in Requests, OnlyMoves(r), RowIsKnown(r),
         RequestIsSound(r)', req'[r].at \notin InCheckout,
         UNCHANGED <<rows, stripe>>, crashes' \in 0..MaxCrashes
  PROVE  PaymentInvariant'
  <1>1. TypeOK'
    BY DEF PaymentInvariant, TypeOK, OnlyMoves, rows, stripe
  <1>2. DeliveredOnlyIfPaid' /\ PaidEventsAreApplied' /\ stored' \subseteq events
    BY DEF PaymentInvariant, DeliveredOnlyIfPaid, PaidEventsAreApplied, EventsAreTrue,
           rows, stripe
  <1>. QED
    BY <1>1, <1>2, QuietStep DEF rows, stripe

(* The request saves the row of its purchase.                              *)
LEMMA SaveStep ==
  ASSUME PaymentInvariant, NEW r \in Requests, OnlyMoves(r), RowIsKnown(r),
         RequestIsSound(r)', req'[r].at \notin InCheckout,
         NEW row \in Row, Save(r, row), req[r].at # "idle",
         UNCHANGED <<packs, enrollment, commission, stored, stripe, crashes>>,
         row.status # "NONE",
         row.status \in Settled <=> session[req[r].purchase] = "paid",
         row.sessionId => req[r].row.sessionId \/ req[r].at \in InCheckout
  PROVE  PaymentInvariant'
  <1>1. /\ req[r].purchase \in PurchaseIds
        /\ purchase' = [purchase EXCEPT ![req[r].purchase] = row]
        /\ purchase' \in [PurchaseIds -> Row]
        /\ purchase[req[r].purchase].status # "NONE"
    BY RequestFacts DEF Save, RequestIsSound
  <1>2. TypeOK'
    BY <1>1 DEF PaymentInvariant, TypeOK, OnlyMoves, stripe
  <1>3. Keeps
    BY <1>1, RequestFacts DEF PaymentInvariant, EventsAreTrue, Keeps, stripe
  <1>4. EventsAreTrue'
    BY <1>1, RequestFacts DEF PaymentInvariant, EventsAreTrue, stripe
  <1>5. DeliveredOnlyIfPaid'
    BY <1>1, RequestFacts DEF PaymentInvariant, DeliveredOnlyIfPaid, Settled, stripe
  <1>6. PaidEventsAreApplied'
    <2>1. \A p \in PurchaseIds : EventOf("paid", p) \in stored => session[p] = "paid"
      BY DEF PaymentInvariant, EventsAreTrue, EventOf
    <2>. QED
      BY <1>1, <2>1 DEF PaymentInvariant, PaidEventsAreApplied, Settled
  <1>7. \A s \in Requests : RequestIsSound(s)'
    <2>1. ASSUME NEW s \in Requests \ {r} PROVE RequestIsSound(s)'
      <3>1. req'[s] = req[s] /\ CheckoutIsUnpaid(s)
        BY RequestFacts DEF OnlyMoves, RequestIsSound
      <3>. QED
        BY <1>3, <3>1, OthersStaySound DEF CheckoutIsUnpaid, stripe
    <2>. QED
      BY <2>1
  <1>8. \A s \in Requests : CheckoutIsAlone(s)'
    BY <1>1, AloneKept
  <1>. QED
    BY <1>2, <1>4, <1>5, <1>6, <1>7, <1>8 DEF PaymentInvariant

(***************************************************************************)
(* How a request moves.                                                    *)
(***************************************************************************)
LEMMA StartMoves ==
  ASSUME PaymentInvariant, NEW r \in Requests, NEW at \in Places, NEW p \in PurchaseIds,
         NEW e \in events \union {NoEvent}, NEW row \in Row, Start(r, at, p, e, row)
  PROVE  /\ OnlyMoves(r)
         /\ req[r] = Idle
         /\ req'[r].at = at /\ req'[r].purchase = p /\ req'[r].event = e /\ req'[r].row = row
         /\ \A c \in Courses : req'[r].found[c].purchase \notin PurchaseIds
  <1>1. /\ req' = [req EXCEPT ![r] = [Idle EXCEPT !.at = at, !.purchase = p,
                                                  !.event = e, !.row = row]]
        /\ req[r] = Idle
    BY DEF Start
  <1>2. [Idle EXCEPT !.at = at, !.purchase = p, !.event = e, !.row = row] \in Request
    BY IdleType, RequestFacts DEF Request
  <1>3. /\ req'[r].at = at /\ req'[r].purchase = p /\ req'[r].event = e /\ req'[r].row = row
        /\ req'[r].found = NoEnrollments
    BY <1>1, RequestFacts DEF Idle
  <1>4. OnlyMoves(r)
    BY <1>1, <1>2, RequestFacts DEF OnlyMoves
  <1>. QED
    BY <1>1, <1>3, <1>4, NullAssumption DEF NoEnrollments

LEMMA GotoMoves ==
  ASSUME PaymentInvariant, NEW r \in Requests, NEW place \in Places, Goto(r, place)
  PROVE  /\ OnlyMoves(r) /\ RowIsKnown(r)
         /\ req'[r] = [req[r] EXCEPT !.at = place]
  <1>1. req' = [req EXCEPT ![r].at = place] /\ [req[r] EXCEPT !.at = place] \in Request
    BY RequestFacts DEF Goto, Request
  <1>. QED
    BY <1>1, RequestFacts DEF OnlyMoves, RowIsKnown, Request

LEMMA FinishMoves ==
  ASSUME PaymentInvariant, NEW r \in Requests, Finish(r)
  PROVE  /\ OnlyMoves(r) /\ RowIsKnown(r) /\ RequestIsSound(r)'
         /\ req'[r].at \notin InCheckout
  <1>1. req'[r] = Idle /\ OnlyMoves(r)
    BY RequestFacts, IdleType DEF Finish, OnlyMoves
  <1>2. RequestIsSound(r)'
    BY <1>1, NullAssumption
    DEF Idle, NoEnrollments, RequestIsSound, CheckoutIsUnpaid, InCheckout, AfterPayment,
        AfterSave
  <1>. QED
    BY <1>1, <1>2 DEF Idle, NoRow, RowIsKnown, InCheckout

(* Who has marked the purchase may go on to the handlers and the end.      *)
LEMMA GotoIsSound ==
  ASSUME PaymentInvariant, NEW r \in Requests, NEW place \in AfterSave \union {"store"},
         req'[r] = [req[r] EXCEPT !.at = place], req[r].at # "idle",
         purchase'[req[r].purchase].status \in Settled,
         place = "store" => req[r].event # NoEvent,
         UNCHANGED <<session, events>>, session[req[r].purchase] = "paid"
  PROVE  RequestIsSound(r)' /\ req'[r].at \notin InCheckout
  BY RequestFacts
  DEF Request, Settled, RequestIsSound, CheckoutIsUnpaid, InCheckout, AfterPayment,
      AfterSave

LEMMA ConcludeMoves ==
  ASSUME PaymentInvariant, NEW r \in Requests, Conclude(r), req[r].at \in AfterSave,
         UNCHANGED <<purchase, session, events>>
  PROVE  /\ OnlyMoves(r) /\ RowIsKnown(r) /\ RequestIsSound(r)'
         /\ req'[r].at \notin InCheckout
  <1>1. CASE req[r].event = NoEvent
    BY <1>1, FinishMoves DEF Conclude
  <1>2. CASE req[r].event # NoEvent
    <2>1. Goto(r, "store") /\ "store" \in Places
      BY <1>2 DEF Conclude, Places
    <2>2. req'[r] = [req[r] EXCEPT !.at = "store"] /\ OnlyMoves(r) /\ RowIsKnown(r)
      BY <2>1, GotoMoves
    <2>3. /\ purchase[req[r].purchase].status \in Settled
          /\ session[req[r].purchase] = "paid" /\ req[r].at # "idle"
      BY RequestFacts DEF RequestIsSound, AfterSave, AfterPayment
    <2>. QED
      BY <1>2, <2>2, <2>3, GotoIsSound
  <1>. QED
    BY <1>1, <1>2

(***************************************************************************)
(* Checkout.                                                               *)
(***************************************************************************)
LEMMA CheckoutSaveStep ==
  ASSUME PaymentInvariant, NEW r \in Requests, NEW p \in PurchaseIds, NEW items \in Drafts,
         CheckoutSave(r, p, items)
  PROVE  PaymentInvariant'
  <1> DEFINE row == [NoRow EXCEPT !.status = "PENDING", !.items = items]
  <1>1. /\ purchase' = [purchase EXCEPT ![p] = row]
        /\ UNCHANGED <<packs, enrollment, commission, stored, session, refunded, events,
                       crashes>>
        /\ Start(r, "create", p, NoEvent, row)
        /\ purchase[p].status = "NONE" /\ ~purchase[p].sessionId
    BY DEF CheckoutSave, stripe, NoRow
  <1>2. row \in Row /\ row.status = "PENDING" /\ ~row.sessionId
    BY DraftAssumption DEF NoRow, Row, PurchaseStatus
  <1>3. /\ OnlyMoves(r) /\ req[r] = Idle
        /\ req'[r].at = "create" /\ req'[r].purchase = p /\ req'[r].event = NoEvent
        /\ req'[r].row = row
        /\ \A c \in Courses : req'[r].found[c].purchase \notin PurchaseIds
    <2>1. "create" \in Places
      BY DEF Places
    <2>. QED
      BY <1>1, <1>2, <2>1, StartMoves
  <1>4. session[p] = "none"
    BY <1>1 DEF PaymentInvariant, EventsAreTrue
  <1> HIDE DEF row
  <1>5. TypeOK'
    BY <1>1, <1>2, <1>3 DEF PaymentInvariant, TypeOK, OnlyMoves
  <1>6. Keeps
    BY <1>1, <1>2, RequestFacts DEF Keeps, Settled
  <1>7. EventsAreTrue'
    BY <1>1, <1>2, RequestFacts DEF PaymentInvariant, EventsAreTrue, Settled
  <1>8. DeliveredOnlyIfPaid' /\ PaidEventsAreApplied'
    BY <1>1, <1>2, RequestFacts
    DEF PaymentInvariant, DeliveredOnlyIfPaid, PaidEventsAreApplied
  <1>9. \A s \in Requests : RequestIsSound(s)'
    <2>1. RequestIsSound(r)'
      BY <1>1, <1>2, <1>3, <1>4, RequestFacts
      DEF Settled, RequestIsSound, CheckoutIsUnpaid, InCheckout, AfterPayment, AfterSave
    <2>2. ASSUME NEW s \in Requests \ {r} PROVE RequestIsSound(s)'
      <3>1. req'[s] = req[s] /\ CheckoutIsUnpaid(s)
        BY <1>3, RequestFacts DEF OnlyMoves, RequestIsSound
      <3>. QED
        BY <1>1, <1>6, <3>1, OthersStaySound DEF CheckoutIsUnpaid
    <2>. QED
      BY <2>1, <2>2
  <1>10. \A s \in Requests \ {r} : req[s].purchase # p
    BY <1>1, RequestFacts, NullAssumption DEF RequestIsSound
  <1>11. \A s \in Requests : CheckoutIsAlone(s)'
    BY <1>1, <1>2, <1>3, <1>10, RequestFacts
    DEF PaymentInvariant, CheckoutIsAlone, OnlyMoves
  <1>. QED
    BY <1>5, <1>7, <1>8, <1>9, <1>11 DEF PaymentInvariant

(* Only this request learns that there is a session.                       *)
LEMMA CheckoutCreateStep ==
  ASSUME PaymentInvariant, NEW r \in Requests, CheckoutCreate(r)
  PROVE  PaymentInvariant'
  <1> DEFINE p == req[r].purchase
  <1>1. /\ req[r].at = "create" /\ p \in PurchaseIds /\ session[p] = "none"
        /\ session' = [session EXCEPT ![p] = "open"]
        /\ UNCHANGED <<purchase, packs, enrollment, commission, stored, refunded, events,
                       crashes>>
        /\ Goto(r, "saveSession")
    BY RequestFacts DEF CheckoutCreate, At, rows, RequestIsSound, CheckoutIsUnpaid
  <1>2. /\ OnlyMoves(r) /\ RowIsKnown(r)
        /\ req'[r] = [req[r] EXCEPT !.at = "saveSession"]
    <2>1. "saveSession" \in Places
      BY DEF Places
    <2>. QED
      BY <1>1, <2>1, GotoMoves
  <1>3. req'[r].at = "saveSession" /\ req'[r].purchase = p /\ req'[r].row = req[r].row
        /\ req'[r].event = req[r].event /\ req'[r].found = req[r].found
    BY <1>2, RequestFacts DEF Request
  <1>4. purchase[p].status # "NONE" /\ purchase[p].status \notin Settled
    BY <1>1, RequestFacts DEF RequestIsSound, PaymentInvariant, EventsAreTrue
  <1> HIDE DEF p
  <1>5. TypeOK'
    BY <1>1, <1>2 DEF PaymentInvariant, TypeOK, OnlyMoves
  <1>6. Keeps
    BY <1>1, RequestFacts DEF PaymentInvariant, TypeOK, Keeps
  <1>7. EventsAreTrue'
    BY <1>1, <1>4, RequestFacts DEF PaymentInvariant, TypeOK, EventsAreTrue
  <1>8. DeliveredOnlyIfPaid' /\ PaidEventsAreApplied'
    BY <1>1 DEF PaymentInvariant, TypeOK, DeliveredOnlyIfPaid, PaidEventsAreApplied
  <1>9. \A s \in Requests : RequestIsSound(s)'
    <2>1. RequestIsSound(r)'
      <3>1. \A c \in Courses : req[r].found[c].purchase \in PurchaseIds =>
               session'[req[r].found[c].purchase] = "paid"
        BY <1>1, RequestFacts DEF PaymentInvariant, TypeOK, RequestIsSound
      <3>. QED
        BY <1>1, <1>3, <1>4, <3>1, RequestFacts
        DEF PaymentInvariant, TypeOK, p, RequestIsSound, CheckoutIsUnpaid, InCheckout,
            AfterPayment, AfterSave
    <2>2. ASSUME NEW s \in Requests \ {r} PROVE RequestIsSound(s)'
      <3>1. req'[s] = req[s] /\ CheckoutIsUnpaid(s) /\ RequestIsSound(s)
        BY <1>2, RequestFacts DEF OnlyMoves, RequestIsSound
      <3>2. req[s].at \in InCheckout => req[s].purchase # p
        BY <1>1 DEF PaymentInvariant, CheckoutIsAlone, InCheckout, p
      <3>3. CheckoutIsUnpaid(s)'
        BY <1>1, <3>1, <3>2 DEF CheckoutIsUnpaid, InCheckout, PaymentInvariant, TypeOK
      <3>. QED
        BY <1>6, <3>1, <3>3, OthersStaySound
    <2>. QED
      BY <2>1, <2>2
  <1>10. \A s \in Requests : CheckoutIsAlone(s)'
    BY <1>1, <1>2, <1>3, AloneKept DEF InCheckout, p
  <1>. QED
    BY <1>5, <1>7, <1>8, <1>9, <1>10 DEF PaymentInvariant

LEMMA CheckoutFailsStep ==
  ASSUME PaymentInvariant, NEW r \in Requests, CheckoutFails(r)
  PROVE  PaymentInvariant'
  <1> DEFINE row == [req[r].row EXCEPT !.status = "CANCELLED"]
  <1>1. /\ req[r].at = "create" /\ session[req[r].purchase] = "none"
        /\ Save(r, row)
        /\ UNCHANGED <<packs, enrollment, commission, stored, stripe, crashes>>
    BY RequestFacts DEF CheckoutFails, At, RequestIsSound, CheckoutIsUnpaid
  <1>2. row \in Row /\ row.status = "CANCELLED" /\ row.sessionId = req[r].row.sessionId
    <2>1. "CANCELLED" \in PurchaseStatus /\ req[r].row \in Row
      BY RequestFacts DEF PurchaseStatus
    <2>2. row \in Row
      BY <2>1, RowUpdateType
    <2>. QED
      BY <2>1, <2>2 DEF Row
  <1>3. OnlyMoves(r) /\ RowIsKnown(r) /\ RequestIsSound(r)' /\ req'[r].at \notin InCheckout
    BY FinishMoves DEF CheckoutFails
  <1> HIDE DEF row
  <1>. QED
    BY <1>1, <1>2, <1>3, SaveStep DEF Settled

LEMMA CheckoutSaveSessionStep ==
  ASSUME PaymentInvariant, NEW r \in Requests, CheckoutSaveSession(r)
  PROVE  PaymentInvariant'
  <1> DEFINE row == [req[r].row EXCEPT !.sessionId = TRUE]
  <1>1. /\ req[r].at = "saveSession" /\ session[req[r].purchase] \in {"open", "expired"}
        /\ Save(r, row) /\ req[r].row.status = "PENDING"
        /\ UNCHANGED <<packs, enrollment, commission, stored, stripe, crashes>>
    BY RequestFacts
    DEF CheckoutSaveSession, At, RequestIsSound, CheckoutIsUnpaid, InCheckout
  <1>2. row \in Row /\ row.status = "PENDING"
    <2>1. "PENDING" \in PurchaseStatus /\ req[r].row \in Row
      BY RequestFacts DEF PurchaseStatus
    <2>2. row \in Row
      BY <2>1, RowUpdateType
    <2>. QED
      BY <1>1, <2>1, <2>2 DEF Row
  <1>3. OnlyMoves(r) /\ RowIsKnown(r) /\ RequestIsSound(r)' /\ req'[r].at \notin InCheckout
    BY FinishMoves DEF CheckoutSaveSession
  <1> HIDE DEF row
  <1>. QED
    BY <1>1, <1>2, <1>3, SaveStep DEF Settled, InCheckout

(***************************************************************************)
(* The two ways to fulfil.                                                 *)
(***************************************************************************)
LEMMA ConfirmReadStep ==
  ASSUME PaymentInvariant, NEW r \in Requests, NEW p \in PurchaseIds, ConfirmRead(r, p)
  PROVE  PaymentInvariant'
  <1>1. /\ Start(r, "retrieve", p, NoEvent, purchase[p]) /\ "retrieve" \in Places
        /\ UNCHANGED <<rows, stripe, crashes>> /\ purchase[p].status = "PENDING"
    BY DEF ConfirmRead, Places
  <1>2. /\ OnlyMoves(r)
        /\ req'[r].at = "retrieve" /\ req'[r].purchase = p /\ req'[r].event = NoEvent
        /\ req'[r].row = purchase[p]
        /\ \A c \in Courses : req'[r].found[c].purchase \notin PurchaseIds
    <2>1. purchase[p] \in Row
      BY RequestFacts
    <2>. QED
      BY <1>1, <2>1, StartMoves
  <1>3. RequestIsSound(r)' /\ req'[r].at \notin InCheckout
    BY <1>1, <1>2
    DEF rows, RequestIsSound, CheckoutIsUnpaid, InCheckout, AfterPayment, AfterSave
  <1>4. RowIsKnown(r)
    BY <1>2 DEF RowIsKnown
  <1>. QED
    BY <1>1, <1>2, <1>3, <1>4, ReadStep DEF PaymentInvariant, TypeOK

LEMMA ConfirmRetrieveStep ==
  ASSUME PaymentInvariant, NEW r \in Requests, ConfirmRetrieve(r)
  PROVE  PaymentInvariant'
  <1>1. UNCHANGED <<rows, stripe, crashes>> /\ req[r].at = "retrieve"
    BY DEF ConfirmRetrieve, At
  <1>2. CASE Finish(r)
    BY <1>1, <1>2, FinishMoves, ReadStep DEF PaymentInvariant, TypeOK
  <1>3. CASE session[req[r].purchase] = "paid" /\ Goto(r, "fulfil")
    <2>1. /\ OnlyMoves(r) /\ RowIsKnown(r)
          /\ req'[r] = [req[r] EXCEPT !.at = "fulfil"]
      <3>1. "fulfil" \in Places
        BY DEF Places
      <3>. QED
        BY <1>3, <3>1, GotoMoves
    <2>2. RequestIsSound(r)' /\ req'[r].at \notin InCheckout
      BY <1>1, <1>3, <2>1, RequestFacts
      DEF rows, stripe, Request, RequestIsSound, CheckoutIsUnpaid, InCheckout,
          AfterPayment, AfterSave
    <2>. QED
      BY <1>1, <2>1, <2>2, ReadStep DEF PaymentInvariant, TypeOK
  <1>. QED
    BY <1>2, <1>3 DEF ConfirmRetrieve

LEMMA WebhookReceiveStep ==
  ASSUME PaymentInvariant, NEW r \in Requests, NEW e \in events, WebhookReceive(r, e)
  PROVE  PaymentInvariant'
  <1>1. /\ Start(r, "find", e.purchase, e, NoRow) /\ "find" \in Places
        /\ UNCHANGED <<rows, stripe, crashes>>
    BY DEF WebhookReceive, Places
  <1>2. e \in Event /\ e.purchase \in PurchaseIds /\ NoRow \in Row /\ e # NoEvent
    BY RequestFacts, IdleType, NullAssumption
  <1>3. /\ OnlyMoves(r)
        /\ req'[r].at = "find" /\ req'[r].purchase = e.purchase /\ req'[r].event = e
        /\ req'[r].row = NoRow
        /\ \A c \in Courses : req'[r].found[c].purchase \notin PurchaseIds
    BY <1>1, <1>2, StartMoves
  <1>4. purchase[e.purchase].status # "NONE"
    BY <1>2 DEF PaymentInvariant, EventsAreTrue
  <1>5. RequestIsSound(r)' /\ req'[r].at \notin InCheckout /\ RowIsKnown(r)
    BY <1>1, <1>2, <1>3, <1>4
    DEF rows, stripe, RowIsKnown, NoRow, RequestIsSound, CheckoutIsUnpaid, InCheckout,
        AfterPayment, AfterSave
  <1>. QED
    BY <1>1, <1>3, <1>5, ReadStep DEF PaymentInvariant, TypeOK

(* Where a webhook goes is where the event and the row just read allow.    *)
LEMMA WebhookFindStep ==
  ASSUME PaymentInvariant, NEW r \in Requests, WebhookFind(r)
  PROVE  PaymentInvariant'
  <1> DEFINE p == req[r].purchase
             e == req[r].event
             place == Handling(e, purchase[p])
  <1>1. /\ req' = [req EXCEPT ![r].row = purchase[p], ![r].at = place]
        /\ req[r].at = "find"
        /\ UNCHANGED <<rows, stripe, crashes>>
    BY DEF WebhookFind, At
  <1>2. /\ p \in PurchaseIds /\ purchase[p] \in Row /\ purchase[p].status # "NONE"
        /\ e \in events /\ e.purchase = p /\ e # NoEvent
    BY <1>1, RequestFacts DEF RequestIsSound
  <1>3. place \in {"fulfil", "expire", "markRefunded", "store"} /\ place \in Places
    BY DEF Handling, Places
  <1>4. /\ place = "fulfil" => session[p] = "paid"
        /\ place = "expire" => session[p] = "expired"
        /\ place = "markRefunded" => session[p] = "paid"
        /\ place = "store" /\ e.kind = "paid" => purchase[p].status \in Settled
    BY <1>2 DEF Handling, PaymentInvariant, EventsAreTrue, Settled
  <1> HIDE DEF place, p, e
  <1>5. /\ OnlyMoves(r)
        /\ req'[r] = [req[r] EXCEPT !.row = purchase[p], !.at = place]
    <2>1. [req[r] EXCEPT !.row = purchase[p], !.at = place] \in Request
      BY <1>2, <1>3, RequestFacts DEF Request
    <2>. QED
      BY <1>1, <2>1, RequestFacts DEF OnlyMoves
  <1>6. /\ req'[r].at = place /\ req'[r].purchase = p /\ req'[r].event = e
        /\ req'[r].row = purchase[p] /\ req'[r].found = req[r].found
    BY <1>5, RequestFacts DEF Request, p, e
  <1>7. RequestIsSound(r)' /\ req'[r].at \notin InCheckout /\ RowIsKnown(r)
    BY <1>1, <1>2, <1>3, <1>4, <1>6, RequestFacts
    DEF rows, stripe, RowIsKnown, RequestIsSound, CheckoutIsUnpaid, InCheckout,
        AfterPayment, AfterSave
  <1>. QED
    BY <1>1, <1>5, <1>7, ReadStep DEF PaymentInvariant, TypeOK

LEMMA FulfilSaveStep ==
  ASSUME PaymentInvariant, NEW r \in Requests, FulfilSave(r)
  PROVE  PaymentInvariant'
  <1> DEFINE p == req[r].purchase
             row == [req[r].row EXCEPT !.status = "PAID", !.intentId = TRUE]
             items == req[r].row.items
  <1>1. /\ req[r].at = "fulfil" /\ session[p] = "paid" /\ p \in PurchaseIds
        /\ Save(r, row)
        /\ req' = [req EXCEPT ![r].row = purchase'[p], ![r].todo = items,
                              ![r].at = "deliver"]
        /\ UNCHANGED <<packs, enrollment, commission, stored, stripe, crashes>>
    BY RequestFacts DEF FulfilSave, At, RequestIsSound, AfterPayment
  <1>2. row \in Row /\ row.status = "PAID" /\ row.sessionId = req[r].row.sessionId
    <2>1. "PAID" \in PurchaseStatus /\ req[r].row \in Row
      BY RequestFacts DEF PurchaseStatus
    <2>2. row \in Row
      BY <2>1, RowUpdateType
    <2>. QED
      BY <2>1, <2>2 DEF Row
  <1>3. purchase'[p] = row
    BY <1>1, RequestFacts DEF Save
  <1>4. items \in SUBSET Courses
    BY RequestFacts DEF Row
  <1> HIDE DEF row, items
  <1>5. /\ OnlyMoves(r)
        /\ req'[r] = [req[r] EXCEPT !.row = row, !.todo = items, !.at = "deliver"]
    <2>1. [req[r] EXCEPT !.row = row, !.todo = items, !.at = "deliver"] \in Request
      BY <1>2, <1>4, RequestFacts DEF Request, Places
    <2>. QED
      BY <1>1, <1>3, <2>1, RequestFacts DEF OnlyMoves
  <1>6. /\ req'[r].at = "deliver" /\ req'[r].purchase = p /\ req'[r].row = row
        /\ req'[r].event = req[r].event /\ req'[r].found = req[r].found
    BY <1>5, RequestFacts DEF Request
  <1>7. RequestIsSound(r)' /\ req'[r].at \notin InCheckout
    BY <1>1, <1>2, <1>3, <1>6, RequestFacts
    DEF stripe, Settled, RequestIsSound, CheckoutIsUnpaid, InCheckout, AfterPayment,
        AfterSave
  <1>8. RowIsKnown(r)
    BY <1>2, <1>6 DEF RowIsKnown
  <1>. QED
    BY <1>1, <1>2, <1>5, <1>7, <1>8, SaveStep DEF Settled

LEMMA DeliverSeatPackStep ==
  ASSUME PaymentInvariant, NEW r \in Requests, DeliverSeatPack(r)
  PROVE  PaymentInvariant'
  <1>1. /\ req[r].at = "deliver" /\ Goto(r, "paidHandlers") /\ "paidHandlers" \in Places
        /\ packs' = [packs EXCEPT ![req[r].purchase] = @ + 1]
        /\ UNCHANGED <<purchase, enrollment, commission, stored, session, refunded,
                       events, crashes>>
    BY DEF DeliverSeatPack, At, Places, stripe
  <1>2. /\ session[req[r].purchase] = "paid" /\ req[r].purchase \in PurchaseIds
        /\ purchase[req[r].purchase].status \in Settled
    BY <1>1, RequestFacts DEF RequestIsSound, AfterPayment, AfterSave
  <1>3. /\ OnlyMoves(r) /\ RowIsKnown(r)
        /\ req'[r] = [req[r] EXCEPT !.at = "paidHandlers"]
    BY <1>1, GotoMoves
  <1>4. RequestIsSound(r)' /\ req'[r].at \notin InCheckout
    BY <1>1, <1>2, <1>3, GotoIsSound DEF AfterSave
  <1>5. TypeOK'
    BY <1>1, <1>2, <1>3 DEF PaymentInvariant, TypeOK, OnlyMoves
  <1>6. DeliveredOnlyIfPaid'
    BY <1>1, <1>2 DEF PaymentInvariant, TypeOK, DeliveredOnlyIfPaid
  <1>7. PaidEventsAreApplied' /\ stored' \subseteq events
    BY <1>1 DEF PaymentInvariant, PaidEventsAreApplied, EventsAreTrue
  <1>. QED
    BY <1>1, <1>3, <1>4, <1>5, <1>6, <1>7, QuietStep

(* After a delivery or a cancellation of one course.                       *)
LEMMA CourseMoves ==
  ASSUME PaymentInvariant, NEW r \in Requests, NEW c \in Courses,
         NEW here \in {"deliver", "revoke"}, NEW next \in {"paidHandlers", "refundHandlers"},
         req[r].at = here,
         req' = [req EXCEPT ![r].todo = @ \ {c},
                            ![r].at = IF req[r].todo = {c} THEN next ELSE here],
         UNCHANGED <<purchase, session, events>>
  PROVE  /\ OnlyMoves(r) /\ RowIsKnown(r) /\ RequestIsSound(r)'
         /\ req'[r].at \notin InCheckout
  <1>1. PICK at \in AfterSave, todo \in SUBSET Courses :
          req' = [req EXCEPT ![r].todo = todo, ![r].at = at]
    <2>1. req[r].todo \ {c} \in SUBSET Courses
      BY RequestFacts
    <2>2. (IF req[r].todo = {c} THEN next ELSE here) \in AfterSave
      BY DEF AfterSave
    <2>3. req' = [req EXCEPT ![r].todo = req[r].todo \ {c},
                             ![r].at = IF req[r].todo = {c} THEN next ELSE here]
      BY RequestFacts
    <2>. QED
      BY <2>1, <2>2, <2>3
  <1>2. [req[r] EXCEPT !.todo = todo, !.at = at] \in Request
    BY RequestFacts DEF Request, Places, AfterSave
  <1>3. OnlyMoves(r) /\ req'[r] = [req[r] EXCEPT !.todo = todo, !.at = at]
    <2>1. req'[r] = [req[r] EXCEPT !.todo = todo, !.at = at]
      BY <1>1, RequestFacts
    <2>2. \A s \in Requests \ {r} : req'[s] = req[s]
      BY <1>1, RequestFacts
    <2>3. req' \in [Requests -> Request]
      BY <1>1, <1>2, RequestFacts
    <2>. QED
      BY <2>1, <2>2, <2>3 DEF OnlyMoves
  <1>4. /\ req'[r].at = at /\ req'[r].purchase = req[r].purchase
        /\ req'[r].row = req[r].row /\ req'[r].event = req[r].event
        /\ req'[r].found = req[r].found
    BY <1>3, RequestFacts DEF Request
  <1>5. RequestIsSound(r)' /\ req'[r].at \notin InCheckout
    BY <1>4, RequestFacts
    DEF RequestIsSound, CheckoutIsUnpaid, InCheckout, AfterPayment, AfterSave
  <1>. QED
    BY <1>3, <1>4, <1>5 DEF RowIsKnown

LEMMA DeliverCourseStep ==
  ASSUME PaymentInvariant, NEW r \in Requests, NEW c \in Courses, DeliverCourse(r, c)
  PROVE  PaymentInvariant'
  <1> DEFINE p == req[r].purchase
  <1>1. /\ req[r].at = "deliver"
        /\ enrollment' = [enrollment EXCEPT ![c] = Enrolled(enrollment[c], p)]
        /\ UNCHANGED <<purchase, packs, commission, stored, session, refunded, events,
                       crashes>>
    BY DEF DeliverCourse, At, stripe, PaymentInvariant, TypeOK
  <1>2. session[p] = "paid" /\ p \in PurchaseIds
    BY <1>1, RequestFacts DEF RequestIsSound, AfterPayment, AfterSave
  <1>3. /\ OnlyMoves(r) /\ RowIsKnown(r) /\ RequestIsSound(r)'
        /\ req'[r].at \notin InCheckout
    BY <1>1, CourseMoves DEF DeliverCourse, At
  <1>4. /\ Enrolled(enrollment[c], p) \in Enrollment
        /\ Enrolled(enrollment[c], p).purchase \in {enrollment[c].purchase, p}
    BY <1>2 DEF Enrolled, Enrollment, EnrollmentStatus, PaymentInvariant, TypeOK
  <1>5. TypeOK'
    BY <1>1, <1>3, <1>4 DEF PaymentInvariant, TypeOK, OnlyMoves
  <1>6. DeliveredOnlyIfPaid'
    BY <1>1, <1>2, <1>4 DEF PaymentInvariant, TypeOK, DeliveredOnlyIfPaid
  <1>7. PaidEventsAreApplied' /\ stored' \subseteq events
    BY <1>1 DEF PaymentInvariant, PaidEventsAreApplied, EventsAreTrue
  <1>. QED
    BY <1>1, <1>3, <1>5, <1>6, <1>7, QuietStep

(* The paid handlers and the refund handlers.                              *)
LEMMA HandlersStep ==
  ASSUME PaymentInvariant, NEW r \in Requests,
         NEW new \in {"NONE", "EARNED", "REVERSED"},
         commission' = [commission EXCEPT ![req[r].purchase] = new],
         req[r].at \in AfterSave, Conclude(r),
         UNCHANGED <<purchase, packs, enrollment, stored, stripe, crashes>>
  PROVE  PaymentInvariant'
  <1>1. /\ session[req[r].purchase] = "paid" /\ req[r].purchase \in PurchaseIds
        /\ UNCHANGED <<session, refunded, events>>
    BY RequestFacts DEF RequestIsSound, AfterPayment, AfterSave, stripe
  <1>2. /\ OnlyMoves(r) /\ RowIsKnown(r) /\ RequestIsSound(r)'
        /\ req'[r].at \notin InCheckout
    BY <1>1, ConcludeMoves
  <1>3. TypeOK'
    BY <1>1, <1>2 DEF PaymentInvariant, TypeOK, OnlyMoves
  <1>4. DeliveredOnlyIfPaid'
    BY <1>1 DEF PaymentInvariant, TypeOK, DeliveredOnlyIfPaid
  <1>5. PaidEventsAreApplied' /\ stored' \subseteq events
    BY <1>1 DEF PaymentInvariant, PaidEventsAreApplied, EventsAreTrue
  <1>. QED
    BY <1>1, <1>2, <1>3, <1>4, <1>5, QuietStep

LEMMA NotifyStep ==
  ASSUME PaymentInvariant, NEW r \in Requests, NotifyPaid(r) \/ NotifyRefunded(r)
  PROVE  PaymentInvariant'
  <1>1. /\ req[r].at \in AfterSave /\ Conclude(r)
        /\ UNCHANGED <<purchase, packs, enrollment, stored, stripe, crashes>>
    BY DEF NotifyPaid, NotifyRefunded, At, AfterSave
  <1>2. req[r].purchase \in PurchaseIds
    BY <1>1, RequestFacts DEF RequestIsSound, AfterSave
  <1>3. PICK new \in {"NONE", "EARNED", "REVERSED"} :
          commission' = [commission EXCEPT ![req[r].purchase] = new]
    BY <1>2 DEF NotifyPaid, NotifyRefunded, PaymentInvariant, TypeOK
  <1>. QED
    BY <1>1, <1>3, HandlersStep

LEMMA ExpireSaveStep ==
  ASSUME PaymentInvariant, NEW r \in Requests, ExpireSave(r)
  PROVE  PaymentInvariant'
  <1> DEFINE row == [req[r].row EXCEPT !.status = "CANCELLED"]
  <1>1. /\ req[r].at = "expire" /\ session[req[r].purchase] = "expired"
        /\ req[r].purchase \in PurchaseIds
        /\ Save(r, row) /\ Goto(r, "store") /\ "store" \in Places
        /\ UNCHANGED <<packs, enrollment, commission, stored, stripe, crashes>>
    BY RequestFacts DEF ExpireSave, At, Places, RequestIsSound, AfterPayment
  <1>2. row \in Row /\ row.status = "CANCELLED" /\ row.sessionId = req[r].row.sessionId
    <2>1. "CANCELLED" \in PurchaseStatus /\ req[r].row \in Row
      BY RequestFacts DEF PurchaseStatus
    <2>2. row \in Row
      BY <2>1, RowUpdateType
    <2>. QED
      BY <2>1, <2>2 DEF Row
  <1>3. /\ OnlyMoves(r) /\ RowIsKnown(r)
        /\ req'[r] = [req[r] EXCEPT !.at = "store"]
    BY <1>1, GotoMoves

  <1>4. /\ req'[r].at = "store" /\ req'[r].purchase = req[r].purchase
        /\ req'[r].event = req[r].event /\ req'[r].found = req[r].found
    BY <1>3, RequestFacts DEF Request
  <1>5. /\ req[r].event # NoEvent /\ req[r].event \in events
        /\ req[r].event.purchase = req[r].purchase
        /\ req[r].event.kind # "paid"
    BY <1>1, RequestFacts DEF RequestIsSound, PaymentInvariant, EventsAreTrue
  <1> HIDE DEF row
  <1>6. purchase'[req[r].purchase] = row
    BY <1>1, RequestFacts DEF Save
  <1>7. RequestIsSound(r)' /\ req'[r].at \notin InCheckout
    BY <1>1, <1>2, <1>4, <1>5, <1>6, RequestFacts
    DEF stripe, RequestIsSound, CheckoutIsUnpaid, InCheckout, AfterPayment, AfterSave
  <1>. QED
    BY <1>1, <1>2, <1>3, <1>7, SaveStep DEF Settled

LEMMA StoreEventStep ==
  ASSUME PaymentInvariant, NEW r \in Requests, StoreEvent(r)
  PROVE  PaymentInvariant'
  <1>1. /\ req[r].at = "store" /\ Finish(r)
        /\ stored' = stored \union {req[r].event}
        /\ UNCHANGED <<purchase, packs, enrollment, commission, session, refunded, events,
                       crashes>>
    BY DEF StoreEvent, At, stripe
  <1>2. /\ req[r].event \in events /\ req[r].event \in Event
        /\ req[r].event.kind = "paid" =>
             purchase[req[r].event.purchase].status \in Settled
    BY <1>1, RequestFacts DEF RequestIsSound
  <1>3. /\ OnlyMoves(r) /\ RowIsKnown(r) /\ RequestIsSound(r)'
        /\ req'[r].at \notin InCheckout
    BY <1>1, FinishMoves
  <1>4. TypeOK'
    BY <1>1, <1>2, <1>3 DEF PaymentInvariant, TypeOK, OnlyMoves
  <1>5. DeliveredOnlyIfPaid' /\ stored' \subseteq events
    BY <1>1, <1>2 DEF PaymentInvariant, DeliveredOnlyIfPaid, EventsAreTrue
  <1>6. PaidEventsAreApplied'
    BY <1>1, <1>2 DEF PaymentInvariant, PaidEventsAreApplied, EventOf, Settled
  <1>. QED
    BY <1>1, <1>3, <1>4, <1>5, <1>6, QuietStep

(***************************************************************************)
(* Refunds.                                                                *)
(***************************************************************************)
LEMMA RefundReadStep ==
  ASSUME PaymentInvariant, NEW r \in Requests, NEW p \in PurchaseIds, RefundRead(r, p)
  PROVE  PaymentInvariant'
  <1>1. PICK at \in {"stripeRefund", "markRefunded"} :
          Start(r, at, p, NoEvent, purchase[p])
    BY DEF RefundRead
  <1>2. UNCHANGED <<rows, stripe, crashes>> /\ purchase[p].status = "PAID"
    BY DEF RefundRead
  <1>3. /\ OnlyMoves(r)
        /\ req'[r].at = at /\ req'[r].purchase = p /\ req'[r].event = NoEvent
        /\ req'[r].row = purchase[p]
        /\ \A c \in Courses : req'[r].found[c].purchase \notin PurchaseIds
    <2>1. purchase[p] \in Row /\ at \in Places
      BY RequestFacts DEF Places
    <2>. QED
      BY <1>1, <2>1, StartMoves
  <1>4. session[p] = "paid"
    BY <1>2 DEF PaymentInvariant, EventsAreTrue, Settled
  <1>5. RequestIsSound(r)' /\ req'[r].at \notin InCheckout
    BY <1>2, <1>3, <1>4
    DEF rows, stripe, RequestIsSound, CheckoutIsUnpaid, InCheckout, AfterPayment,
        AfterSave
  <1>6. RowIsKnown(r)
    BY <1>3 DEF RowIsKnown
  <1>. QED
    BY <1>2, <1>3, <1>5, <1>6, ReadStep DEF PaymentInvariant, TypeOK

(* A refund that Stripe accepts is an event of a paid session.             *)
LEMMA StripeRefundStep ==
  ASSUME PaymentInvariant, NEW r \in Requests, StripeRefund(r)
  PROVE  PaymentInvariant'
  <1> DEFINE p == req[r].purchase
             e == EventOf("refunded", p)
  <1>1. /\ req[r].at = "stripeRefund" /\ p \in PurchaseIds /\ session[p] = "paid"
        /\ UNCHANGED <<rows, session, crashes>>
    BY RequestFacts DEF StripeRefund, At, RequestIsSound, AfterPayment
  <1>2. CASE Finish(r) /\ UNCHANGED <<refunded, events>>
    BY <1>1, <1>2, FinishMoves, ReadStep DEF PaymentInvariant, TypeOK, stripe
  <1>3. CASE /\ Goto(r, "markRefunded")
             /\ refunded' = refunded \union {p}
             /\ events' = events \union {e}
    <2>1. e \in Event /\ e.kind = "refunded" /\ e.purchase = p
      BY <1>1 DEF EventOf, Event
    <2>2. /\ OnlyMoves(r) /\ RowIsKnown(r)
          /\ req'[r] = [req[r] EXCEPT !.at = "markRefunded"]
      <3>1. "markRefunded" \in Places
        BY DEF Places
      <3>. QED
        BY <1>3, <3>1, GotoMoves
    <2>3. /\ req'[r].at = "markRefunded" /\ req'[r].purchase = p
          /\ req'[r].row = req[r].row /\ req'[r].event = req[r].event
          /\ req'[r].found = req[r].found
      BY <2>2, RequestFacts DEF Request
    <2> HIDE DEF e
    <2>4. TypeOK'
      BY <1>1, <1>3, <2>1, <2>2 DEF PaymentInvariant, TypeOK, OnlyMoves, rows
    <2>5. Keeps
      BY <1>1, <1>3 DEF Keeps, rows
    <2>6. EventsAreTrue'
      BY <1>1, <1>3, <2>1 DEF PaymentInvariant, EventsAreTrue, rows
    <2>7. DeliveredOnlyIfPaid' /\ PaidEventsAreApplied'
      BY <1>1 DEF PaymentInvariant, DeliveredOnlyIfPaid, PaidEventsAreApplied, rows
    <2>8. \A s \in Requests : RequestIsSound(s)'
      <3>1. RequestIsSound(r)'
        BY <1>1, <1>3, <2>3, RequestFacts
        DEF rows, RequestIsSound, CheckoutIsUnpaid, InCheckout, AfterPayment, AfterSave
      <3>2. ASSUME NEW s \in Requests \ {r} PROVE RequestIsSound(s)'
        <4>1. req'[s] = req[s] /\ CheckoutIsUnpaid(s)
          BY <2>2, RequestFacts DEF OnlyMoves, RequestIsSound
        <4>. QED
          BY <1>1, <2>5, <4>1, OthersStaySound DEF CheckoutIsUnpaid
      <3>. QED
        BY <3>1, <3>2
    <2>9. \A s \in Requests : CheckoutIsAlone(s)'
      BY <1>1, <2>2, <2>3, AloneKept DEF InCheckout, rows
    <2>. QED
      BY <2>4, <2>6, <2>7, <2>8, <2>9 DEF PaymentInvariant
  <1>. QED
    BY <1>2, <1>3 DEF StripeRefund

LEMMA MarkRefundedSaveStep ==
  ASSUME PaymentInvariant, NEW r \in Requests, MarkRefundedSave(r)
  PROVE  PaymentInvariant'
  <1> DEFINE row == [req[r].row EXCEPT !.status = "REFUNDED"]
  <1>1. /\ req[r].at = "markRefunded" /\ session[req[r].purchase] = "paid"
        /\ req[r].purchase \in PurchaseIds
        /\ Save(r, row) /\ Goto(r, "takeBack") /\ "takeBack" \in Places
        /\ UNCHANGED <<packs, enrollment, commission, stored, stripe, crashes>>
    BY RequestFacts DEF MarkRefundedSave, At, Places, RequestIsSound, AfterPayment
  <1>2. row \in Row /\ row.status = "REFUNDED" /\ row.sessionId = req[r].row.sessionId
    <2>1. "REFUNDED" \in PurchaseStatus /\ req[r].row \in Row
      BY RequestFacts DEF PurchaseStatus
    <2>2. row \in Row
      BY <2>1, RowUpdateType
    <2>. QED
      BY <2>1, <2>2 DEF Row
  <1>3. /\ OnlyMoves(r) /\ RowIsKnown(r)
        /\ req'[r] = [req[r] EXCEPT !.at = "takeBack"]
    BY <1>1, GotoMoves
  <1> HIDE DEF row
  <1>4. purchase'[req[r].purchase] = row
    BY <1>1, RequestFacts DEF Save
  <1>5. RequestIsSound(r)' /\ req'[r].at \notin InCheckout
    BY <1>1, <1>2, <1>3, <1>4, GotoIsSound DEF AfterSave, Settled, stripe
  <1>. QED
    BY <1>1, <1>2, <1>3, <1>5, SaveStep DEF Settled

LEMMA RemoveSeatPacksStep ==
  ASSUME PaymentInvariant, NEW r \in Requests, RemoveSeatPacks(r)
  PROVE  PaymentInvariant'
  <1>1. /\ req[r].at = "takeBack" /\ Goto(r, "refundHandlers") /\ "refundHandlers" \in Places
        /\ packs' = [packs EXCEPT ![req[r].purchase] = 0]
        /\ UNCHANGED <<purchase, enrollment, commission, stored, session, refunded,
                       events, crashes>>
    BY DEF RemoveSeatPacks, At, Places, stripe
  <1>2. /\ session[req[r].purchase] = "paid" /\ req[r].purchase \in PurchaseIds
        /\ purchase[req[r].purchase].status \in Settled
    BY <1>1, RequestFacts DEF RequestIsSound, AfterPayment, AfterSave
  <1>3. /\ OnlyMoves(r) /\ RowIsKnown(r)
        /\ req'[r] = [req[r] EXCEPT !.at = "refundHandlers"]
    BY <1>1, GotoMoves
  <1>4. RequestIsSound(r)' /\ req'[r].at \notin InCheckout
    BY <1>1, <1>2, <1>3, GotoIsSound DEF AfterSave
  <1>5. TypeOK' /\ DeliveredOnlyIfPaid'
    BY <1>1, <1>3 DEF PaymentInvariant, TypeOK, OnlyMoves, DeliveredOnlyIfPaid
  <1>6. PaidEventsAreApplied' /\ stored' \subseteq events
    BY <1>1 DEF PaymentInvariant, PaidEventsAreApplied, EventsAreTrue
  <1>. QED
    BY <1>1, <1>3, <1>4, <1>5, <1>6, QuietStep

LEMMA CancelFindStep ==
  ASSUME PaymentInvariant, NEW r \in Requests, CancelFind(r)
  PROVE  PaymentInvariant'
  <1>1. UNCHANGED <<rows, stripe, crashes>> /\ req[r].at = "takeBack"
    BY DEF CancelFind, At
  <1>2. PICK todo \in SUBSET Courses, at \in {"refundHandlers", "revoke"} :
          req' = [req EXCEPT ![r].todo = todo, ![r].found = enrollment, ![r].at = at]
    BY DEF CancelFind
  <1>3. /\ [req[r] EXCEPT !.todo = todo, !.found = enrollment, !.at = at] \in Request
        /\ at \in AfterSave
    <2>1. enrollment \in [Courses -> Enrollment]
      BY DEF PaymentInvariant, TypeOK
    <2>. QED
      BY <2>1, RequestFacts DEF Request, Places, AfterSave
  <1>4. /\ OnlyMoves(r)
        /\ req'[r] = [req[r] EXCEPT !.todo = todo, !.found = enrollment, !.at = at]
    <2>1. req'[r] = [req[r] EXCEPT !.todo = todo, !.found = enrollment, !.at = at]
      BY <1>2, RequestFacts
    <2>2. \A s \in Requests \ {r} : req'[s] = req[s]
      BY <1>2, RequestFacts
    <2>3. req' \in [Requests -> Request]
      BY <1>2, <1>3, RequestFacts
    <2>. QED
      BY <2>1, <2>2, <2>3 DEF OnlyMoves
  <1>5. /\ req'[r].at = at /\ req'[r].purchase = req[r].purchase
        /\ req'[r].row = req[r].row /\ req'[r].event = req[r].event
        /\ req'[r].found = enrollment
    BY <1>4, RequestFacts DEF Request
  <1>6. \A c \in Courses :
          enrollment[c].purchase \in PurchaseIds => session[enrollment[c].purchase] = "paid"
    BY DEF PaymentInvariant, DeliveredOnlyIfPaid
  <1>7. RequestIsSound(r)' /\ req'[r].at \notin InCheckout
    BY <1>1, <1>3, <1>5, <1>6, RequestFacts
    DEF rows, stripe, RequestIsSound, CheckoutIsUnpaid, InCheckout, AfterPayment,
        AfterSave
  <1>8. RowIsKnown(r)
    BY <1>5 DEF RowIsKnown
  <1>. QED
    BY <1>1, <1>4, <1>7, <1>8, ReadStep DEF PaymentInvariant, TypeOK

(* What is written back was found, and belonged to a paid purchase then.   *)
LEMMA CancelSaveStep ==
  ASSUME PaymentInvariant, NEW r \in Requests, NEW c \in Courses, CancelSave(r, c)
  PROVE  PaymentInvariant'
  <1> DEFINE new == [req[r].found[c] EXCEPT !.status = "CANCELLED"]
  <1>1. /\ req[r].at = "revoke"
        /\ enrollment' = [enrollment EXCEPT ![c] = new]
        /\ UNCHANGED <<purchase, packs, commission, stored, session, refunded, events,
                       crashes>>
    BY DEF CancelSave, At, stripe
  <1>2. new \in Enrollment /\ new.purchase = req[r].found[c].purchase
    BY RequestFacts DEF Enrollment, EnrollmentStatus
  <1>3. new.purchase \in PurchaseIds => session[new.purchase] = "paid"
    BY <1>2, RequestFacts DEF RequestIsSound
  <1>4. /\ OnlyMoves(r) /\ RowIsKnown(r) /\ RequestIsSound(r)'
        /\ req'[r].at \notin InCheckout
    BY <1>1, CourseMoves DEF CancelSave, At
  <1> HIDE DEF new
  <1>5. TypeOK'
    BY <1>1, <1>2, <1>4 DEF PaymentInvariant, TypeOK, OnlyMoves
  <1>6. DeliveredOnlyIfPaid'
    BY <1>1, <1>3 DEF PaymentInvariant, TypeOK, DeliveredOnlyIfPaid
  <1>7. PaidEventsAreApplied' /\ stored' \subseteq events
    BY <1>1 DEF PaymentInvariant, PaidEventsAreApplied, EventsAreTrue
  <1>. QED
    BY <1>1, <1>4, <1>5, <1>6, <1>7, QuietStep

LEMMA CrashStep ==
  ASSUME PaymentInvariant, NEW r \in Requests, Crash(r)
  PROVE  PaymentInvariant'
  <1>1. UNCHANGED <<rows, stripe>> /\ Finish(r) /\ crashes' \in 0..MaxCrashes
    BY CrashAssumption DEF Crash, PaymentInvariant, TypeOK
  <1>. QED
    BY <1>1, FinishMoves, ReadStep

(***************************************************************************)
(* Stripe and the customer.                                                *)
(***************************************************************************)
LEMMA StripeStep ==
  ASSUME PaymentInvariant, Keeps, UNCHANGED <<rows, req, crashes>>, TypeOK',
         EventsAreTrue', \A s \in Requests : CheckoutIsUnpaid(s)'
  PROVE  PaymentInvariant'
  <1>1. DeliveredOnlyIfPaid' /\ PaidEventsAreApplied'
    BY DEF Keeps, PaymentInvariant, DeliveredOnlyIfPaid, PaidEventsAreApplied, rows
  <1>2. \A s \in Requests : RequestIsSound(s)'
    BY OthersStaySound
  <1>3. \A s \in Requests : CheckoutIsAlone(s)'
    BY DEF PaymentInvariant, CheckoutIsAlone, rows
  <1>. QED
    BY <1>1, <1>2, <1>3 DEF PaymentInvariant

(* A session moves on from open or unpaid.  While a checkout runs it can   *)
(* only expire: nobody has the address to pay at.                          *)
LEMMA SessionStepStep ==
  ASSUME PaymentInvariant, NEW p \in PurchaseIds,
         NEW from \in {"open", "unpaid"}, NEW to \in {"unpaid", "paid", "failed", "expired"},
         NEW happened \in SUBSET Event, SessionStep(p, from, to, happened),
         from = "open" /\ to # "expired" => HasAddress(p),
         \A e \in happened : /\ e.purchase = p
                             /\ e.kind = "paid" => to = "paid"
                             /\ e.kind = "expired" => to = "expired"
  PROVE  PaymentInvariant'
  <1>1. /\ session[p] = from
        /\ session' = [session EXCEPT ![p] = to]
        /\ events' = events \union happened
        /\ UNCHANGED <<rows, refunded, req, crashes>>
    BY DEF SessionStep
  <1>2. TypeOK'
    BY <1>1 DEF PaymentInvariant, TypeOK, rows
  <1>3. Keeps
    BY <1>1 DEF PaymentInvariant, TypeOK, Keeps, rows
  <1>4. EventsAreTrue'
    BY <1>1 DEF PaymentInvariant, TypeOK, EventsAreTrue, Event, Settled, rows
  <1>5. ASSUME NEW s \in Requests PROVE CheckoutIsUnpaid(s)'
    <2>1. /\ CheckoutIsUnpaid(s) /\ req' = req
          /\ req[s].at \in InCheckout => req[s].purchase \in PurchaseIds
      BY <1>1, RequestFacts DEF RequestIsSound, InCheckout
    <2>2. req[s].at = "saveSession" /\ req[s].purchase = p => to = "expired"
      BY <1>1, <2>1, RequestFacts
     
      DEF CheckoutIsUnpaid, PaymentInvariant, CheckoutIsAlone, InCheckout, HasAddress,
          RequestIsSound
    <2>. QED
      BY <1>1, <2>1, <2>2, RequestFacts
      DEF RequestIsSound, CheckoutIsUnpaid, InCheckout, PaymentInvariant, TypeOK
  <1>. QED
    BY <1>1, <1>2, <1>3, <1>4, <1>5, StripeStep

LEMMA SessionMovesStep ==
  ASSUME PaymentInvariant, NEW p \in PurchaseIds,
         \/ Pay(p) \/ PayLater(p) \/ LaterPaid(p) \/ LaterFailed(p) \/ SessionExpire(p)
  PROVE  PaymentInvariant'
  <1>1. ASSUME NEW kind \in {"paid", "unpaid", "expired"}
        PROVE  /\ {EventOf(kind, p)} \in SUBSET Event
               /\ \A e \in {EventOf(kind, p)} : e.purchase = p /\ e.kind = kind
    BY DEF EventOf, Event
  <1>2. CASE Pay(p)
    BY <1>1, <1>2, SessionStepStep DEF Pay
  <1>3. CASE PayLater(p)
    BY <1>1, <1>3, SessionStepStep DEF PayLater
  <1>4. CASE LaterPaid(p)
    BY <1>1, <1>4, SessionStepStep DEF LaterPaid
  <1>5. CASE LaterFailed(p)
    BY <1>5, SessionStepStep DEF LaterFailed
  <1>6. CASE SessionExpire(p)
    BY <1>1, <1>6, SessionStepStep DEF SessionExpire
  <1>. QED
    BY <1>2, <1>3, <1>4, <1>5, <1>6

LEMMA DashboardRefundStep ==
  ASSUME PaymentInvariant, NEW p \in PurchaseIds, DashboardRefund(p)
  PROVE  PaymentInvariant'
  <1>1. /\ session[p] = "paid"
        /\ refunded' = refunded \union {p}
        /\ events' = events \union {EventOf("refunded", p)}
        /\ UNCHANGED <<rows, session, req, crashes>>
    BY DEF DashboardRefund
  <1>2. /\ EventOf("refunded", p) \in Event
        /\ EventOf("refunded", p).kind = "refunded" /\ EventOf("refunded", p).purchase = p
    BY DEF EventOf, Event
  <1>3. TypeOK'
    BY <1>1, <1>2 DEF PaymentInvariant, TypeOK, rows
  <1>4. Keeps
    BY <1>1 DEF Keeps, rows
  <1>5. EventsAreTrue'
    BY <1>1, <1>2 DEF PaymentInvariant, EventsAreTrue, rows
  <1>6. \A s \in Requests : CheckoutIsUnpaid(s)'
    BY <1>1, RequestFacts DEF RequestIsSound, CheckoutIsUnpaid
  <1>. QED
    BY <1>1, <1>3, <1>4, <1>5, <1>6, StripeStep

(***************************************************************************)
(* The learner.                                                            *)
(***************************************************************************)
LEMMA LearnerStep ==
  ASSUME PaymentInvariant, NEW c \in Courses, NEW new \in Enrollment,
         new.purchase \in {NoPurchase, enrollment[c].purchase},
         enrollment' = [enrollment EXCEPT ![c] = new],
         UNCHANGED <<purchase, packs, commission, stored, stripe, req, crashes>>
  PROVE  PaymentInvariant'
  <1>1. TypeOK'
    BY DEF PaymentInvariant, TypeOK, stripe
  <1>2. EventsAreTrue' /\ PaidEventsAreApplied'
    BY DEF PaymentInvariant, EventsAreTrue, PaidEventsAreApplied, stripe
  <1>3. DeliveredOnlyIfPaid'
    BY NullAssumption DEF PaymentInvariant, TypeOK, DeliveredOnlyIfPaid, stripe
  <1>4. \A s \in Requests : RequestIsSound(s)' /\ CheckoutIsAlone(s)'
    BY DEF PaymentInvariant, RequestIsSound, CheckoutIsUnpaid, CheckoutIsAlone, stripe
  <1>. QED
    BY <1>1, <1>2, <1>3, <1>4 DEF PaymentInvariant

LEMMA LearnerMovesStep ==
  ASSUME PaymentInvariant, NEW c \in Courses,
         \/ EnrollBySeat(c)
         \/ LeaveActive(c, "CANCELLED") \/ LeaveActive(c, "COMPLETED")
  PROVE  PaymentInvariant'
  <1>1. enrollment[c] \in Enrollment
    BY DEF PaymentInvariant, TypeOK
  <1>2. CASE EnrollBySeat(c)
    <2>1. [status |-> "ACTIVE", source |-> "SEAT", purchase |-> NoPurchase] \in Enrollment
      BY DEF Enrollment, EnrollmentStatus
    <2>. QED
      BY <1>2, <2>1, LearnerStep DEF EnrollBySeat
  <1>3. ASSUME NEW to \in {"CANCELLED", "COMPLETED"}, LeaveActive(c, to)
        PROVE  PaymentInvariant'
    <2>1. /\ [enrollment[c] EXCEPT !.status = to] \in Enrollment
          /\ [enrollment[c] EXCEPT !.status = to].purchase = enrollment[c].purchase
      BY <1>1 DEF Enrollment, EnrollmentStatus
    <2>2. /\ enrollment' = [enrollment EXCEPT ![c] = [enrollment[c] EXCEPT !.status = to]]
          /\ UNCHANGED <<purchase, packs, commission, stored, stripe, req, crashes>>
      BY <1>3 DEF LeaveActive
    <2>. QED
      BY <2>1, <2>2, LearnerStep
  <1>. QED
    BY <1>2, <1>3

(***************************************************************************)
(* The theorems.                                                           *)
(***************************************************************************)
LEMMA InitInvariant == Init => PaymentInvariant
  <1> SUFFICES ASSUME Init PROVE PaymentInvariant
    OBVIOUS
  <1>1. TypeOK
    <2>1. NoEnrollments \in [Courses -> Enrollment]
      BY DEF NoEnrollments, Enrollment, EnrollmentStatus
    <2>. QED
      BY <2>1, IdleType, CrashAssumption DEF Init, TypeOK
  <1>2. EventsAreTrue
    BY DEF Init, EventsAreTrue, NoRow, Settled
  <1>3. DeliveredOnlyIfPaid /\ PaidEventsAreApplied
    BY NullAssumption
    DEF Init, DeliveredOnlyIfPaid, PaidEventsAreApplied, NoRow, NoEnrollments
  <1>4. ASSUME NEW r \in Requests PROVE RequestIsSound(r) /\ CheckoutIsAlone(r)
    BY NullAssumption
    DEF Init, Idle, NoEnrollments, RequestIsSound, CheckoutIsUnpaid, CheckoutIsAlone,
        InCheckout, AfterPayment, AfterSave
  <1>. QED
    BY <1>1, <1>2, <1>3, <1>4 DEF PaymentInvariant

LEMMA StutterInvariant == PaymentInvariant /\ UNCHANGED vars => PaymentInvariant'
  BY DEF vars, PaymentInvariant, TypeOK, EventsAreTrue, DeliveredOnlyIfPaid,
         PaidEventsAreApplied, RequestIsSound, CheckoutIsUnpaid, CheckoutIsAlone

LEMMA NextInvariant == PaymentInvariant /\ [Next]_vars => PaymentInvariant'
  <1> SUFFICES ASSUME PaymentInvariant, [Next]_vars PROVE PaymentInvariant'
    OBVIOUS
  <1>1. ASSUME NEW r \in Requests, NEW p \in PurchaseIds, NEW items \in Drafts,
               CheckoutSave(r, p, items)
        PROVE  PaymentInvariant'
    BY <1>1, CheckoutSaveStep
  <1>2. ASSUME NEW r \in Requests, NEW p \in PurchaseIds,
               ConfirmRead(r, p) \/ RefundRead(r, p)
        PROVE  PaymentInvariant'
    BY <1>2, ConfirmReadStep, RefundReadStep
  <1>3. ASSUME NEW r \in Requests, NEW e \in events, WebhookReceive(r, e)
        PROVE  PaymentInvariant'
    BY <1>3, WebhookReceiveStep
  <1>4. ASSUME NEW r \in Requests, ServerStep(r) PROVE PaymentInvariant'
    <2>1. CASE CheckoutCreate(r) \/ CheckoutFails(r) \/ CheckoutSaveSession(r)
      BY <2>1, CheckoutCreateStep, CheckoutFailsStep, CheckoutSaveSessionStep
    <2>2. CASE ConfirmRetrieve(r) \/ WebhookFind(r) \/ ExpireSave(r) \/ StoreEvent(r)
      BY <2>2, ConfirmRetrieveStep, WebhookFindStep, ExpireSaveStep, StoreEventStep
    <2>3. CASE FulfilSave(r) \/ DeliverSeatPack(r) \/ NotifyPaid(r) \/ NotifyRefunded(r)
      BY <2>3, FulfilSaveStep, DeliverSeatPackStep, NotifyStep
    <2>4. CASE \E c \in Courses : DeliverCourse(r, c) \/ CancelSave(r, c)
      BY <2>4, DeliverCourseStep, CancelSaveStep
    <2>5. CASE StripeRefund(r) \/ MarkRefundedSave(r) \/ RemoveSeatPacks(r) \/ CancelFind(r)
      BY <2>5, StripeRefundStep, MarkRefundedSaveStep, RemoveSeatPacksStep, CancelFindStep
    <2>. QED
      BY <1>4, <2>1, <2>2, <2>3, <2>4, <2>5 DEF ServerStep
  <1>5. ASSUME NEW r \in Requests, Crash(r) PROVE PaymentInvariant'
    BY <1>5, CrashStep
  <1>6. ASSUME NEW p \in PurchaseIds,
               \/ Pay(p) \/ PayLater(p) \/ LaterPaid(p) \/ LaterFailed(p) \/ SessionExpire(p)
        PROVE  PaymentInvariant'
    BY <1>6, SessionMovesStep
  <1>7. ASSUME NEW p \in PurchaseIds, DashboardRefund(p) PROVE PaymentInvariant'
    BY <1>7, DashboardRefundStep
  <1>8. ASSUME NEW c \in Courses,
               \/ EnrollBySeat(c)
               \/ LeaveActive(c, "CANCELLED") \/ LeaveActive(c, "COMPLETED")
        PROVE  PaymentInvariant'
    BY <1>8, LearnerMovesStep
  <1>9. CASE UNCHANGED vars
    BY <1>9, StutterInvariant
  <1>. QED
    BY <1>1, <1>2, <1>3, <1>4, <1>5, <1>6, <1>7, <1>8, <1>9 DEF Next

LEMMA AlwaysSound == Spec => []PaymentInvariant
  BY InitInvariant, NextInvariant, PTL DEF Spec

(* Every state of the payments service is well typed, whatever overlaps.   *)
THEOREM TypeCorrect == Spec => []TypeOK
  <1>1. PaymentInvariant => TypeOK
    BY DEF PaymentInvariant
  <1>. QED
    BY <1>1, AlwaysSound, PTL

(* Nothing is delivered, and no commission earned, without a paid session: *)
(* fulfil is reached only from confirm, which asks Stripe, and from a paid *)
(* event, in any order and with any number of requests and crashes.        *)
THEOREM NothingIsDeliveredUnpaid == Spec => []DeliveredOnlyIfPaid
  <1>1. PaymentInvariant => DeliveredOnlyIfPaid
    BY DEF PaymentInvariant
  <1>. QED
    BY <1>1, AlwaysSound, PTL

(* A paid event is stored only when its purchase is marked, and no save of *)
(* a row loaded earlier unmarks it.                                        *)
THEOREM AcknowledgedPaymentsAreMarked == Spec => []PaidEventsAreApplied
  <1>1. PaymentInvariant => PaidEventsAreApplied
    BY DEF PaymentInvariant
  <1>. QED
    BY <1>1, AlwaysSound, PTL

(***************************************************************************)
(* One request at a time.                                                  *)
(***************************************************************************)
OneAtATime == \A r, s \in Requests : r = s

(* The purchase is worth what its status says.                             *)
Matches(p) ==
  IF purchase[p].status = "PAID"
  THEN IF IsSeatPack(purchase[p]) THEN packs[p] = 1
       ELSE \A c \in purchase[p].items : enrollment[c].status # "NONE"
  ELSE /\ packs[p] = 0
       /\ \A c \in Courses : enrollment[c].purchase = p => enrollment[c].status # "ACTIVE"

(* A purchase delivers seats or courses, never both.                       *)
KindIsKept(p) ==
  IF IsSeatPack(purchase[p]) THEN \A c \in Courses : enrollment[c].purchase # p
  ELSE packs[p] = 0

(* The places where what is marked is still to be handed over or taken     *)
(* back, and those where the row that was loaded is the one in the         *)
(* database.                                                               *)
HalfDone == {"deliver", "takeBack", "revoke"}
RowIsFresh == {"create", "saveSession", "retrieve", "fulfil", "expire", "stripeRefund",
               "markRefunded", "deliver"}

KnowsItsRow(r) ==
  LET q == req[r] IN
  /\ q.at \in RowIsFresh => q.row = purchase[q.purchase]
  /\ q.at \in {"retrieve", "expire"} => q.row.status = "PENDING"
  /\ q.at = "fulfil" => q.row.status # "PAID"
  /\ q.at \in {"stripeRefund", "markRefunded", "deliver"} => q.row.status = "PAID"
  /\ q.at \in {"takeBack", "revoke"} =>
       purchase[q.purchase].status = "REFUNDED" /\ q.row.items = purchase[q.purchase].items

(* What is done is done for good, and what is not is on the list.          *)
ListIsRight(r) ==
  LET q == req[r] IN
  /\ q.at = "deliver" =>
       /\ q.todo \subseteq q.row.items
       /\ IF IsSeatPack(q.row) THEN packs[q.purchase] = 0
          ELSE \A c \in q.row.items \ q.todo : enrollment[c].status # "NONE"
  /\ q.at = "revoke" =>
       /\ ~IsSeatPack(q.row)
       /\ \A c \in q.todo : q.found[c].purchase = q.purchase
       /\ \A c \in Courses :
            enrollment[c].purchase = q.purchase /\ enrollment[c].status = "ACTIVE" =>
              c \in q.todo

Balanced ==
  /\ \A p \in PurchaseIds : KindIsKept(p)
  /\ \A r \in Requests : KnowsItsRow(r) /\ ListIsRight(r)
  /\ \A p \in PurchaseIds :
       (\A r \in Requests : req[r].at \in HalfDone => req[r].purchase # p) => Matches(p)

MatchInvariant == PaymentInvariant /\ (crashes = 0 => Balanced)

LEMMA BalancedIf ==
  ASSUME OneAtATime, NEW r \in Requests,
         \A p \in PurchaseIds : KindIsKept(p)',
         KnowsItsRow(r)', ListIsRight(r)',
         \A p \in PurchaseIds :
           (req'[r].at \in HalfDone => req'[r].purchase # p) => Matches(p)'
  PROVE  Balanced'
  <1>1. \A s \in Requests : s = r
    BY DEF OneAtATime
  <1>2. \A s \in Requests : KnowsItsRow(s)' /\ ListIsRight(s)'
    BY <1>1
  <1>. QED
    BY <1>1, <1>2 DEF Balanced

LEMMA MatchedBefore ==
  ASSUME OneAtATime, Balanced, NEW r \in Requests, NEW p \in PurchaseIds,
         req[r].at \in HalfDone => req[r].purchase # p
  PROVE  Matches(p)
  <1>1. \A s \in Requests : s = r
    BY DEF OneAtATime
  <1>. QED
    BY <1>1 DEF Balanced

LEMMA BalancedFacts ==
  ASSUME PaymentInvariant, Balanced, NEW r \in Requests, req[r].at # "idle"
  PROVE  /\ req[r].purchase \in PurchaseIds
         /\ purchase[req[r].purchase] \in Row
         /\ KnowsItsRow(r) /\ ListIsRight(r) /\ KindIsKept(req[r].purchase)
  BY RequestFacts DEF RequestIsSound, Balanced

(* The request loads, asks Stripe, stores its event or ends.               *)
LEMMA ReadIsBalanced ==
  ASSUME OneAtATime, Balanced, NEW r \in Requests, UNCHANGED <<purchase, packs, enrollment>>,
         req[r].at \notin HalfDone, req'[r].at \notin HalfDone, KnowsItsRow(r)'
  PROVE  Balanced'
  <1>1. \A p \in PurchaseIds : KindIsKept(p)'
    BY DEF Balanced, KindIsKept
  <1>2. \A p \in PurchaseIds : Matches(p)'
    BY MatchedBefore DEF Matches
  <1>3. ListIsRight(r)'
    BY DEF ListIsRight, HalfDone
  <1>. QED
    BY <1>1, <1>2, <1>3, BalancedIf

(* The request saves the row of a purchase that is not paid.               *)
LEMMA UnpaidSaveIsBalanced ==
  ASSUME PaymentInvariant, OneAtATime, Balanced, NEW r \in Requests, NEW row,
         Save(r, row), UNCHANGED <<packs, enrollment>>,
         req[r].at \in RowIsFresh, req[r].at \notin HalfDone,
         req[r].row.status # "PAID", row.status # "PAID", row.items = req[r].row.items,
         req'[r].at \in {"idle", "store"}
  PROVE  Balanced'
  <1> DEFINE p == req[r].purchase
  <1>1. p \in PurchaseIds /\ KnowsItsRow(r)
    BY BalancedFacts DEF RowIsFresh
  <1>2. req[r].row = purchase[p]
    BY <1>1 DEF KnowsItsRow
  <1>3. \A d \in PurchaseIds : purchase'[d] = IF d = p THEN row ELSE purchase[d]
    BY <1>1 DEF Save, PaymentInvariant, TypeOK
  <1>4. \A d \in PurchaseIds : KindIsKept(d) /\ Matches(d)
    BY MatchedBefore DEF Balanced
  <1> HIDE DEF p
  <1>5. \A d \in PurchaseIds : KindIsKept(d)' /\ Matches(d)'
    BY <1>2, <1>3, <1>4 DEF KindIsKept, Matches, IsSeatPack
  <1>6. KnowsItsRow(r)' /\ ListIsRight(r)'
    BY DEF KnowsItsRow, ListIsRight, RowIsFresh
  <1>. QED
    BY <1>5, <1>6, BalancedIf

LEMMA CheckoutSaveIsBalanced ==
  ASSUME PaymentInvariant, OneAtATime, Balanced, NEW r \in Requests, NEW p \in PurchaseIds,
         NEW items \in Drafts, CheckoutSave(r, p, items)
  PROVE  Balanced'
  <1> DEFINE row == [NoRow EXCEPT !.status = "PENDING", !.items = items]
  <1>1. /\ purchase' = [purchase EXCEPT ![p] = row]
        /\ UNCHANGED <<packs, enrollment>>
        /\ Start(r, "create", p, NoEvent, row)
        /\ purchase[p].status = "NONE" /\ session[p] = "none"
    BY DEF CheckoutSave, NoRow, PaymentInvariant, EventsAreTrue
  <1>2. row \in Row /\ row.status = "PENDING" /\ row.items = items
    BY DraftAssumption DEF NoRow, Row, PurchaseStatus
  <1> HIDE DEF row
  <1>3. /\ req[r].at = "idle"
        /\ req'[r].at = "create" /\ req'[r].purchase = p /\ req'[r].row = row
    <2>1. "create" \in Places
      BY DEF Places
    <2>. QED
      BY <1>1, <1>2, <2>1, StartMoves DEF Idle
  <1>4. \A d \in PurchaseIds : purchase'[d] = IF d = p THEN row ELSE purchase[d]
    BY <1>1 DEF PaymentInvariant, TypeOK
  <1>5. \A d \in PurchaseIds : KindIsKept(d) /\ Matches(d)
    BY <1>3, MatchedBefore DEF Balanced, HalfDone
  <1>6. packs[p] = 0 /\ \A c \in Courses : enrollment[c].purchase # p
    BY <1>1 DEF PaymentInvariant, DeliveredOnlyIfPaid
  <1>7. \A d \in PurchaseIds : KindIsKept(d)' /\ Matches(d)'
    BY <1>1, <1>2, <1>4, <1>5, <1>6 DEF KindIsKept, Matches, IsSeatPack
  <1>8. KnowsItsRow(r)' /\ ListIsRight(r)'
    BY <1>3, <1>4 DEF KnowsItsRow, ListIsRight, RowIsFresh
  <1>. QED
    BY <1>7, <1>8, BalancedIf

LEMMA CheckoutCreateIsBalanced ==
  ASSUME PaymentInvariant, OneAtATime, Balanced, NEW r \in Requests, CheckoutCreate(r)
  PROVE  Balanced'
  <1>1. /\ req[r].at = "create" /\ Goto(r, "saveSession") /\ "saveSession" \in Places
        /\ UNCHANGED <<purchase, packs, enrollment>>
    BY DEF CheckoutCreate, At, rows, Places
  <1>2. req'[r] = [req[r] EXCEPT !.at = "saveSession"]
    BY <1>1, GotoMoves
  <1>3. /\ req'[r].at = "saveSession" /\ req'[r].purchase = req[r].purchase
        /\ req'[r].row = req[r].row
    BY <1>2, RequestFacts DEF Request
  <1>4. KnowsItsRow(r)
    BY <1>1, BalancedFacts
  <1>5. KnowsItsRow(r)'
    BY <1>1, <1>3, <1>4 DEF KnowsItsRow, RowIsFresh
  <1>. QED
    BY <1>1, <1>3, <1>5, ReadIsBalanced DEF HalfDone

LEMMA CheckoutEndsBalanced ==
  ASSUME PaymentInvariant, OneAtATime, Balanced, NEW r \in Requests,
         CheckoutFails(r) \/ CheckoutSaveSession(r)
  PROVE  Balanced'
  <1>1. /\ req[r].at \in InCheckout /\ req[r].row \in Row /\ req[r].row.status = "PENDING"
        /\ Finish(r) /\ UNCHANGED <<packs, enrollment>>
    BY RequestFacts DEF CheckoutFails, CheckoutSaveSession, At, InCheckout, RequestIsSound
  <1>2. PICK row : /\ Save(r, row)
                   /\ row \in {[req[r].row EXCEPT !.status = "CANCELLED"],
                               [req[r].row EXCEPT !.sessionId = TRUE]}
    BY DEF CheckoutFails, CheckoutSaveSession
  <1>3. row.status # "PAID" /\ row.items = req[r].row.items
    BY <1>1, <1>2 DEF Row
  <1>4. req'[r].at = "idle"
    BY <1>1, RequestFacts DEF Finish, Idle
  <1>. QED
    BY <1>1, <1>2, <1>3, <1>4, UnpaidSaveIsBalanced DEF InCheckout, RowIsFresh, HalfDone
(* A request starts with the row it loads.                                 *)
LEMMA StartIsBalanced ==
  ASSUME PaymentInvariant, OneAtATime, Balanced, NEW r \in Requests, NEW p \in PurchaseIds,
         \/ ConfirmRead(r, p) \/ RefundRead(r, p)
         \/ \E e \in events : p = e.purchase /\ WebhookReceive(r, e)
  PROVE  Balanced'
  <1>1. ASSUME NEW at \in {"retrieve", "stripeRefund", "markRefunded"},
               Start(r, at, p, NoEvent, purchase[p]),
               purchase[p].status = IF at = "retrieve" THEN "PENDING" ELSE "PAID",
               UNCHANGED rows
        PROVE  Balanced'
    <2>1. /\ req[r].at = "idle" /\ req'[r].at = at /\ req'[r].purchase = p
          /\ req'[r].row = purchase[p]
      <3>1. purchase[p] \in Row /\ at \in Places
        BY RequestFacts DEF Places
      <3>. QED
        BY <1>1, <3>1, StartMoves DEF Idle
    <2>2. UNCHANGED <<purchase, packs, enrollment>>
      BY <1>1 DEF rows
    <2>3. KnowsItsRow(r)'
      BY <1>1, <2>1, <2>2 DEF KnowsItsRow, RowIsFresh
    <2>. QED
      BY <2>1, <2>2, <2>3, ReadIsBalanced DEF HalfDone
  <1>2. CASE ConfirmRead(r, p)
    BY <1>1, <1>2 DEF ConfirmRead
  <1>3. CASE RefundRead(r, p)
    BY <1>1, <1>3 DEF RefundRead
  <1>4. CASE \E e \in events : p = e.purchase /\ WebhookReceive(r, e)
    <2>1. PICK e \in events : p = e.purchase /\ WebhookReceive(r, e)
      BY <1>4
    <2>2. /\ Start(r, "find", p, e, NoRow) /\ UNCHANGED <<purchase, packs, enrollment>>
      BY <2>1 DEF WebhookReceive, rows
    <2>3. req[r].at = "idle" /\ req'[r].at = "find"
      <3>1. "find" \in Places /\ NoRow \in Row
        BY IdleType DEF Places
      <3>. QED
        BY <2>2, <3>1, StartMoves DEF Idle
    <2>4. KnowsItsRow(r)'
      BY <2>3 DEF KnowsItsRow, RowIsFresh
    <2>. QED
      BY <2>2, <2>3, <2>4, ReadIsBalanced DEF HalfDone
  <1>. QED
    BY <1>2, <1>3, <1>4

(* A request that has nothing left to do goes on or ends.                  *)
LEMMA EndIsBalanced ==
  ASSUME PaymentInvariant, OneAtATime, Balanced, NEW r \in Requests,
         req[r].at \notin HalfDone, Finish(r) \/ Goto(r, "store"),
         UNCHANGED <<purchase, packs, enrollment>>
  PROVE  Balanced'
  <1>1. req'[r].at \in {"idle", "store"}
    BY RequestFacts DEF Finish, Goto, Idle, Request
  <1>2. KnowsItsRow(r)'
    BY <1>1 DEF KnowsItsRow, RowIsFresh
  <1>. QED
    BY <1>1, <1>2, ReadIsBalanced DEF HalfDone

LEMMA EndingIsBalanced ==
  ASSUME PaymentInvariant, OneAtATime, Balanced, NEW r \in Requests,
         NotifyPaid(r) \/ NotifyRefunded(r) \/ StoreEvent(r)
  PROVE  Balanced'
  <1>1. /\ req[r].at \notin HalfDone /\ UNCHANGED <<purchase, packs, enrollment>>
        /\ Finish(r) \/ Goto(r, "store")
    BY DEF NotifyPaid, NotifyRefunded, StoreEvent, At, HalfDone, Conclude
  <1>. QED
    BY <1>1, EndIsBalanced

LEMMA ConfirmRetrieveIsBalanced ==
  ASSUME PaymentInvariant, OneAtATime, Balanced, NEW r \in Requests, ConfirmRetrieve(r)
  PROVE  Balanced'
  <1>1. req[r].at = "retrieve" /\ UNCHANGED <<purchase, packs, enrollment>>
    BY DEF ConfirmRetrieve, At, rows
  <1>2. CASE Finish(r)
    BY <1>1, <1>2, EndIsBalanced DEF HalfDone
  <1>3. CASE Goto(r, "fulfil")
    <2>1. req'[r] = [req[r] EXCEPT !.at = "fulfil"]
      <3>1. "fulfil" \in Places
        BY DEF Places
      <3>. QED
        BY <1>3, <3>1, GotoMoves
    <2>2. /\ req'[r].at = "fulfil" /\ req'[r].purchase = req[r].purchase
          /\ req'[r].row = req[r].row
      BY <2>1, RequestFacts DEF Request
    <2>3. KnowsItsRow(r)
      BY <1>1, BalancedFacts
    <2>4. KnowsItsRow(r)'
      BY <1>1, <2>2, <2>3 DEF KnowsItsRow, RowIsFresh
    <2>. QED
      BY <1>1, <2>2, <2>4, ReadIsBalanced DEF HalfDone
  <1>. QED
    BY <1>2, <1>3 DEF ConfirmRetrieve

LEMMA WebhookFindIsBalanced ==
  ASSUME PaymentInvariant, OneAtATime, Balanced, NEW r \in Requests, WebhookFind(r)
  PROVE  Balanced'
  <1> DEFINE p == req[r].purchase
             place == Handling(req[r].event, purchase[p])
  <1>1. /\ req' = [req EXCEPT ![r].row = purchase[p], ![r].at = place]
        /\ req[r].at = "find" /\ UNCHANGED <<purchase, packs, enrollment>>
    BY DEF WebhookFind, At, rows
  <1>2. /\ place \in {"fulfil", "expire", "markRefunded", "store"}
        /\ place = "fulfil" => purchase[p].status # "PAID"
        /\ place = "expire" => purchase[p].status = "PENDING"
        /\ place = "markRefunded" => purchase[p].status = "PAID"
    BY DEF Handling
  <1> HIDE DEF place
  <1>3. req'[r].at = place /\ req'[r].purchase = p /\ req'[r].row = purchase[p]
    BY <1>1, RequestFacts DEF Request
  <1> HIDE DEF p
  <1>4. KnowsItsRow(r)'
    BY <1>1, <1>2, <1>3 DEF KnowsItsRow, RowIsFresh
  <1>. QED
    BY <1>1, <1>2, <1>3, <1>4, ReadIsBalanced DEF HalfDone

LEMMA ExpireSaveIsBalanced ==
  ASSUME PaymentInvariant, OneAtATime, Balanced, NEW r \in Requests, ExpireSave(r)
  PROVE  Balanced'
  <1> DEFINE row == [req[r].row EXCEPT !.status = "CANCELLED"]
  <1>1. /\ req[r].at = "expire" /\ req[r].row \in Row
        /\ Save(r, row) /\ Goto(r, "store") /\ UNCHANGED <<packs, enrollment>>
    BY RequestFacts DEF ExpireSave, At
  <1>2. row.status = "CANCELLED" /\ row.items = req[r].row.items
    BY <1>1 DEF Row
  <1> HIDE DEF row
  <1>3. req[r].row.status = "PENDING"
    BY <1>1, BalancedFacts DEF KnowsItsRow
  <1>4. req'[r].at = "store"
    BY <1>1, RequestFacts DEF Goto, Request
  <1>. QED
    BY <1>1, <1>2, <1>3, <1>4, UnpaidSaveIsBalanced DEF RowIsFresh, HalfDone

(* The save that marks the purchase leaves everything to hand over or to   *)
(* take back.                                                              *)
LEMMA MarkIsBalanced ==
  ASSUME PaymentInvariant, OneAtATime, Balanced, NEW r \in Requests, NEW row,
         Save(r, row), UNCHANGED <<packs, enrollment>>,
         req[r].at \in {"fulfil", "markRefunded"}, row.items = req[r].row.items,
         req'[r].at \in HalfDone, req'[r].purchase = req[r].purchase,
         KnowsItsRow(r)', ListIsRight(r)'
  PROVE  Balanced'
  <1> DEFINE p == req[r].purchase
  <1>1. p \in PurchaseIds /\ KnowsItsRow(r)
    BY BalancedFacts
  <1>2. req[r].row = purchase[p]
    BY <1>1 DEF KnowsItsRow, RowIsFresh
  <1>3. \A d \in PurchaseIds : purchase'[d] = IF d = p THEN row ELSE purchase[d]
    BY <1>1 DEF Save, PaymentInvariant, TypeOK
  <1>4. \A d \in PurchaseIds : KindIsKept(d) /\ Matches(d)
    BY MatchedBefore DEF Balanced, HalfDone
  <1> HIDE DEF p
  <1>5. \A d \in PurchaseIds : KindIsKept(d)' /\ (d # p => Matches(d)')
    BY <1>2, <1>3, <1>4 DEF KindIsKept, Matches, IsSeatPack
  <1>. QED
    BY <1>5, BalancedIf DEF p

LEMMA FulfilSaveIsBalanced ==
  ASSUME PaymentInvariant, OneAtATime, Balanced, NEW r \in Requests, FulfilSave(r)
  PROVE  Balanced'
  <1> DEFINE p == req[r].purchase
             row == [req[r].row EXCEPT !.status = "PAID", !.intentId = TRUE]
             items == req[r].row.items
  <1>1. /\ req[r].at = "fulfil" /\ p \in PurchaseIds /\ req[r].row \in Row
        /\ Save(r, row) /\ UNCHANGED <<packs, enrollment>>
        /\ req' = [req EXCEPT ![r].row = purchase'[p], ![r].todo = items,
                              ![r].at = "deliver"]
    BY RequestFacts DEF FulfilSave, At, RequestIsSound
  <1>2. row.status = "PAID" /\ row.items = items
    BY <1>1 DEF Row
  <1>3. KnowsItsRow(r) /\ Matches(p)
    BY <1>1, BalancedFacts, MatchedBefore DEF HalfDone
  <1>4. packs[p] = 0
    BY <1>1, <1>3 DEF KnowsItsRow, RowIsFresh, Matches
  <1> HIDE DEF row
  <1>5. purchase'[p] = row
    BY <1>1 DEF Save, PaymentInvariant, TypeOK
  <1>6. /\ req'[r].at = "deliver" /\ req'[r].purchase = p /\ req'[r].row = row
        /\ req'[r].todo = items
    BY <1>1, <1>5, RequestFacts DEF Request
  <1>7. KnowsItsRow(r)'
    BY <1>2, <1>5, <1>6 DEF KnowsItsRow
  <1>8. ListIsRight(r)'
    BY <1>1, <1>2, <1>4, <1>6 DEF ListIsRight
  <1>. QED
    BY <1>1, <1>2, <1>6, <1>7, <1>8, MarkIsBalanced DEF HalfDone

LEMMA MarkRefundedSaveIsBalanced ==
  ASSUME PaymentInvariant, OneAtATime, Balanced, NEW r \in Requests, MarkRefundedSave(r)
  PROVE  Balanced'
  <1> DEFINE p == req[r].purchase
             row == [req[r].row EXCEPT !.status = "REFUNDED"]
  <1>1. /\ req[r].at = "markRefunded" /\ p \in PurchaseIds /\ req[r].row \in Row
        /\ Save(r, row) /\ Goto(r, "takeBack") /\ UNCHANGED <<packs, enrollment>>
    BY RequestFacts DEF MarkRefundedSave, At, RequestIsSound
  <1>2. row.status = "REFUNDED" /\ row.items = req[r].row.items
    BY <1>1 DEF Row
  <1> HIDE DEF row
  <1>3. purchase'[p] = row
    BY <1>1 DEF Save, PaymentInvariant, TypeOK
  <1>4. req'[r].at = "takeBack" /\ req'[r].purchase = p /\ req'[r].row = req[r].row
    BY <1>1, RequestFacts DEF Goto, Request
  <1>5. KnowsItsRow(r)'
    BY <1>2, <1>3, <1>4 DEF KnowsItsRow, RowIsFresh
  <1>6. ListIsRight(r)'
    BY <1>4 DEF ListIsRight
  <1>. QED
    BY <1>1, <1>2, <1>4, <1>5, <1>6, MarkIsBalanced DEF HalfDone

LEMMA StripeRefundIsBalanced ==
  ASSUME PaymentInvariant, OneAtATime, Balanced, NEW r \in Requests, StripeRefund(r)
  PROVE  Balanced'
  <1>1. req[r].at = "stripeRefund" /\ UNCHANGED <<purchase, packs, enrollment>>
    BY DEF StripeRefund, At, rows
  <1>2. CASE Finish(r)
    BY <1>1, <1>2, EndIsBalanced DEF HalfDone
  <1>3. CASE Goto(r, "markRefunded")
    <2>1. /\ req'[r].at = "markRefunded" /\ req'[r].purchase = req[r].purchase
          /\ req'[r].row = req[r].row
      BY <1>3, RequestFacts DEF Goto, Request
    <2>2. KnowsItsRow(r)
      BY <1>1, BalancedFacts
    <2>3. KnowsItsRow(r)'
      BY <1>1, <2>1, <2>2 DEF KnowsItsRow, RowIsFresh
    <2>. QED
      BY <1>1, <2>1, <2>3, ReadIsBalanced DEF HalfDone
  <1>. QED
    BY <1>2, <1>3 DEF StripeRefund
(***************************************************************************)
(* Handing over and taking back.                                           *)
(***************************************************************************)
LEMMA SeatPacksAreBalanced ==
  ASSUME PaymentInvariant, OneAtATime, Balanced, NEW r \in Requests,
         DeliverSeatPack(r) \/ RemoveSeatPacks(r)
  PROVE  Balanced'
  <1>0. PICK p : p = req[r].purchase
    OBVIOUS
  <1>1. /\ req[r].at \in {"deliver", "takeBack"} /\ p \in PurchaseIds
        /\ IsSeatPack(req[r].row)
        /\ packs' = [packs EXCEPT ![p] = IF req[r].at = "deliver" THEN @ + 1 ELSE 0]
        /\ UNCHANGED <<purchase, enrollment>>
    BY <1>0, RequestFacts DEF DeliverSeatPack, RemoveSeatPacks, At, RequestIsSound
  <1>2. KnowsItsRow(r) /\ ListIsRight(r) /\ KindIsKept(p)
    BY <1>0, <1>1, BalancedFacts
  <1>3. /\ IsSeatPack(purchase[p])
        /\ req[r].at = "deliver" => purchase[p].status = "PAID" /\ packs[p] = 0
        /\ req[r].at = "takeBack" => purchase[p].status = "REFUNDED"
        /\ \A c \in Courses : enrollment[c].purchase # p
    BY <1>0, <1>1, <1>2 DEF KnowsItsRow, ListIsRight, RowIsFresh, IsSeatPack, KindIsKept
  <1>4. \A d \in PurchaseIds : d # p => Matches(d)
    BY <1>0, MatchedBefore
  <1>5. \A d \in PurchaseIds : KindIsKept(d)
    BY DEF Balanced
  <1>6. req'[r].at \in {"paidHandlers", "refundHandlers"}
    BY RequestFacts DEF DeliverSeatPack, RemoveSeatPacks, Goto, Request
  <1>7. \A d \in PurchaseIds : d # p => packs'[d] = packs[d]
    BY <1>1 DEF PaymentInvariant, TypeOK
  <1>8. packs'[p] = IF req[r].at = "deliver" THEN 1 ELSE 0
    BY <1>1, <1>3 DEF PaymentInvariant, TypeOK
  <1>9. \A d \in PurchaseIds : KindIsKept(d)'
    BY <1>1, <1>3, <1>5, <1>7 DEF KindIsKept
  <1>10. \A d \in PurchaseIds : Matches(d)'
    <2>1. Matches(p)'
      BY <1>1, <1>3, <1>8 DEF Matches
    <2>2. \A d \in PurchaseIds : d # p => Matches(d)'
      BY <1>1, <1>4, <1>7 DEF Matches
    <2>. QED
      BY <2>1, <2>2
  <1>11. KnowsItsRow(r)' /\ ListIsRight(r)'
    BY <1>6 DEF KnowsItsRow, ListIsRight, RowIsFresh
  <1>. QED
    BY <1>9, <1>10, <1>11, BalancedIf

(* One enrollment changes, and no other purchase has it now that had not.  *)
LEMMA OtherPurchasesMatch ==
  ASSUME PaymentInvariant, OneAtATime, Balanced, NEW r \in Requests, req[r].at # "idle",
         NEW c \in Courses, NEW new, enrollment' = [enrollment EXCEPT ![c] = new],
         UNCHANGED <<purchase, packs>>,
         new.status # "NONE",
         new.purchase # req[r].purchase =>
           \/ new = enrollment[c]
           \/ new.purchase = enrollment[c].purchase /\ new.status # "ACTIVE"
         ,
         ~IsSeatPack(purchase[req[r].purchase])
  PROVE  /\ \A d \in PurchaseIds : KindIsKept(d)'
         /\ \A d \in PurchaseIds : d # req[r].purchase => Matches(d)'
  <1> DEFINE p == req[r].purchase
  <1>1. \A d \in PurchaseIds : d # p => Matches(d)
    BY MatchedBefore
  <1>2. \A d \in PurchaseIds : KindIsKept(d)
    BY DEF Balanced
  <1>3. \A b \in Courses : enrollment'[b] = IF b = c THEN new ELSE enrollment[b]
    BY DEF PaymentInvariant, TypeOK
  <1> HIDE DEF p
  <1>4. \A d \in PurchaseIds : KindIsKept(d)'
    BY <1>2, <1>3 DEF KindIsKept, p
  <1>5. ASSUME NEW d \in PurchaseIds, d # p PROVE Matches(d)'
    <2>1. Matches(d)
      BY <1>1, <1>5
    <2>2. \A b \in Courses : enrollment'[b].purchase = d /\ enrollment'[b].status = "ACTIVE" =>
            enrollment[b].purchase = d /\ enrollment[b].status = "ACTIVE"
      BY <1>3, <1>5 DEF p
    <2>3. \A b \in Courses : enrollment[b].status # "NONE" => enrollment'[b].status # "NONE"
      BY <1>3
    <2>4. purchase[d] \in Row
      BY RequestFacts
    <2>. QED
      BY <2>1, <2>2, <2>3, <2>4 DEF Matches, Row
  <1>. QED
    BY <1>4, <1>5 DEF p

(* After a delivery or a cancellation the course is off the list.          *)
LEMMA ListMoves ==
  ASSUME PaymentInvariant, NEW r \in Requests, NEW c \in Courses,
         NEW here \in {"deliver", "revoke"}, NEW next \in {"paidHandlers", "refundHandlers"},
         req[r].at = here,
         req' = [req EXCEPT ![r].todo = @ \ {c},
                            ![r].at = IF req[r].todo = {c} THEN next ELSE here]
  PROVE  /\ req'[r].at = IF req[r].todo = {c} THEN next ELSE here
         /\ req'[r].todo = req[r].todo \ {c} /\ req'[r].purchase = req[r].purchase
         /\ req'[r].row = req[r].row /\ req'[r].found = req[r].found
  <1>1. PICK at : at = IF req[r].todo = {c} THEN next ELSE here
    OBVIOUS
  <1>2. PICK todo : todo = req[r].todo \ {c}
    OBVIOUS
  <1>3. PICK request : request = [req[r] EXCEPT !.todo = todo, !.at = at]
    OBVIOUS
  <1>4. req' = [req EXCEPT ![r] = request]
    BY <1>1, <1>2, <1>3, RequestFacts
  <1>5. req'[r] = request
    BY <1>4, RequestFacts
  <1>6. /\ request.at = at /\ request.todo = todo /\ request.purchase = req[r].purchase
        /\ request.row = req[r].row /\ request.found = req[r].found
    BY <1>3, RequestFacts DEF Request
  <1>. QED
    BY <1>1, <1>2, <1>5, <1>6

LEMMA DeliverCourseIsBalanced ==
  ASSUME PaymentInvariant, OneAtATime, Balanced, NEW r \in Requests, NEW c \in Courses,
         DeliverCourse(r, c)
  PROVE  Balanced'
  <1>0. PICK p : p = req[r].purchase
    OBVIOUS
  <1> DEFINE new == Enrolled(enrollment[c], p)
  <1>1. /\ req[r].at = "deliver" /\ p \in PurchaseIds /\ c \in req[r].todo
        /\ enrollment' = [enrollment EXCEPT ![c] = new]
        /\ UNCHANGED <<purchase, packs>>
    BY <1>0, RequestFacts DEF DeliverCourse, At, RequestIsSound, PaymentInvariant, TypeOK
  <1>2. KnowsItsRow(r) /\ ListIsRight(r)
    BY <1>1, BalancedFacts
  <1>3. /\ purchase[p] = req[r].row /\ purchase[p].status = "PAID"
        /\ req[r].todo \subseteq purchase[p].items
        /\ ~IsSeatPack(purchase[p])
        /\ \A b \in purchase[p].items \ req[r].todo : enrollment[b].status # "NONE"
    BY <1>0, <1>1, <1>2 DEF KnowsItsRow, ListIsRight, RowIsFresh, IsSeatPack
  <1>4. new.status # "NONE" /\ (new.purchase # p => new = enrollment[c])
    <2>1. enrollment[c] \in Enrollment
      BY DEF PaymentInvariant, TypeOK
    <2>. QED
      BY <2>1 DEF Enrolled, Enrollment
  <1> HIDE DEF new
  <1>5. /\ \A d \in PurchaseIds : KindIsKept(d)'
        /\ \A d \in PurchaseIds : d # p => Matches(d)'
    BY <1>0, <1>1, <1>3, <1>4, OtherPurchasesMatch
  <1>6. /\ req'[r].at = IF req[r].todo = {c} THEN "paidHandlers" ELSE "deliver"
        /\ req'[r].todo = req[r].todo \ {c} /\ req'[r].purchase = p
        /\ req'[r].row = req[r].row
    BY <1>0, <1>1, ListMoves DEF DeliverCourse
  <1>7. \A b \in purchase[p].items \ (req[r].todo \ {c}) : enrollment'[b].status # "NONE"
    BY <1>1, <1>3, <1>4 DEF PaymentInvariant, TypeOK
  <1>8. CASE req[r].todo = {c}
    <2>1. Matches(p)'
      BY <1>1, <1>3, <1>7, <1>8 DEF Matches
    <2>2. KnowsItsRow(r)' /\ ListIsRight(r)'
      BY <1>6, <1>8 DEF KnowsItsRow, ListIsRight, RowIsFresh
    <2>. QED
      BY <1>5, <2>1, <2>2, BalancedIf
  <1>9. CASE req[r].todo # {c}
    <2>1. KnowsItsRow(r)'
      BY <1>1, <1>3, <1>6, <1>9 DEF KnowsItsRow
    <2>2. ListIsRight(r)'
      BY <1>1, <1>3, <1>6, <1>7, <1>9 DEF ListIsRight
    <2>. QED
      BY <1>5, <1>6, <1>9, <2>1, <2>2, BalancedIf DEF HalfDone
  <1>. QED
    BY <1>8, <1>9

LEMMA CancelFindIsBalanced ==
  ASSUME PaymentInvariant, OneAtATime, Balanced, NEW r \in Requests, CancelFind(r)
  PROVE  Balanced'
  <1>0. PICK p : p = req[r].purchase
    OBVIOUS
  <1>1. PICK todo : todo = {c \in Courses : /\ enrollment[c].status = "ACTIVE"
                                            /\ enrollment[c].purchase = p}
    OBVIOUS
  <1>2. PICK at : at = IF todo = {} THEN "refundHandlers" ELSE "revoke"
    OBVIOUS
  <1>3. /\ req[r].at = "takeBack" /\ p \in PurchaseIds /\ ~IsSeatPack(req[r].row)
        /\ req' = [req EXCEPT ![r].todo = todo, ![r].found = enrollment, ![r].at = at]
        /\ UNCHANGED <<purchase, packs, enrollment>>
    <2>1. req[r].at = "takeBack" /\ ~IsSeatPack(req[r].row) /\ UNCHANGED rows
      BY DEF CancelFind, At
    <2>2. p \in PurchaseIds
      BY <1>0, <2>1, RequestFacts DEF RequestIsSound
    <2>3. req' = [req EXCEPT ![r].todo = todo, ![r].found = enrollment, ![r].at = at]
      BY <1>0, <1>1, <1>2 DEF CancelFind
    <2>. QED
      BY <2>1, <2>2, <2>3 DEF rows
  <1>4. /\ req'[r].at = at /\ req'[r].todo = todo /\ req'[r].found = enrollment
        /\ req'[r].purchase = p /\ req'[r].row = req[r].row
    BY <1>0, <1>3, RequestFacts DEF Request
  <1>5. KnowsItsRow(r) /\ KindIsKept(p)
    BY <1>0, <1>3, BalancedFacts
  <1>6. purchase[p].status = "REFUNDED" /\ req[r].row.items = purchase[p].items /\ packs[p] = 0
    BY <1>0, <1>3, <1>5 DEF KnowsItsRow, KindIsKept, IsSeatPack
  <1>7. \A d \in PurchaseIds : KindIsKept(d)'
    BY <1>3 DEF Balanced, KindIsKept
  <1>8. \A d \in PurchaseIds : d # p => Matches(d)'
    BY <1>0, <1>3, MatchedBefore DEF Matches
  <1>9. CASE todo = {}
    <2>1. Matches(p)'
      BY <1>1, <1>3, <1>6, <1>9 DEF Matches
    <2>2. KnowsItsRow(r)' /\ ListIsRight(r)'
      BY <1>2, <1>4, <1>9 DEF KnowsItsRow, ListIsRight, RowIsFresh
    <2>. QED
      BY <1>7, <1>8, <2>1, <2>2, BalancedIf
  <1>10. CASE todo # {}
    <2>1. req'[r].at = "revoke"
      BY <1>2, <1>4, <1>10
    <2>2. KnowsItsRow(r)'
      <3>1. /\ req'[r].purchase = p /\ purchase'[p].status = "REFUNDED"
            /\ req'[r].row.items = purchase'[p].items
        BY <1>3, <1>4, <1>6
      <3>. QED
        BY <2>1, <3>1 DEF KnowsItsRow, RowIsFresh
    <2>3. ListIsRight(r)'
      BY <1>1, <1>3, <1>4, <2>1 DEF ListIsRight, IsSeatPack
    <2>. QED
      BY <1>4, <1>7, <1>8, <2>1, <2>2, <2>3, BalancedIf DEF HalfDone
  <1>. QED
    BY <1>9, <1>10

LEMMA CancelSaveIsBalanced ==
  ASSUME PaymentInvariant, OneAtATime, Balanced, NEW r \in Requests, NEW c \in Courses,
         CancelSave(r, c)
  PROVE  Balanced'
  <1>0. PICK p : p = req[r].purchase
    OBVIOUS
  <1> DEFINE new == [req[r].found[c] EXCEPT !.status = "CANCELLED"]
  <1>1. /\ req[r].at = "revoke" /\ p \in PurchaseIds /\ c \in req[r].todo
        /\ enrollment' = [enrollment EXCEPT ![c] = new]
        /\ UNCHANGED <<purchase, packs>>
    BY <1>0, RequestFacts DEF CancelSave, At, RequestIsSound
  <1>2. KnowsItsRow(r) /\ ListIsRight(r) /\ KindIsKept(p)
    BY <1>0, <1>1, BalancedFacts
  <1>3. new.status = "CANCELLED" /\ new.purchase = p
    <2>1. req[r].found[c] \in Enrollment /\ req[r].found[c].purchase = p
      BY <1>0, <1>1, <1>2, RequestFacts DEF ListIsRight
    <2>. QED
      BY <2>1 DEF Enrollment
  <1>4. /\ purchase[p].status = "REFUNDED" /\ req[r].row.items = purchase[p].items
        /\ ~IsSeatPack(purchase[p]) /\ packs[p] = 0
        /\ \A b \in Courses :
             enrollment[b].purchase = p /\ enrollment[b].status = "ACTIVE" => b \in req[r].todo
    BY <1>0, <1>1, <1>2 DEF KnowsItsRow, ListIsRight, KindIsKept, IsSeatPack
  <1> HIDE DEF new
  <1>5. /\ \A d \in PurchaseIds : KindIsKept(d)'
        /\ \A d \in PurchaseIds : d # p => Matches(d)'
    BY <1>0, <1>1, <1>3, <1>4, OtherPurchasesMatch
  <1>6. /\ req'[r].at = IF req[r].todo = {c} THEN "refundHandlers" ELSE "revoke"
        /\ req'[r].todo = req[r].todo \ {c} /\ req'[r].purchase = p
        /\ req'[r].row = req[r].row /\ req'[r].found = req[r].found
    BY <1>0, <1>1, ListMoves DEF CancelSave
  <1>7. \A b \in Courses :
          enrollment'[b].purchase = p /\ enrollment'[b].status = "ACTIVE" =>
            b \in req[r].todo \ {c}
    BY <1>1, <1>3, <1>4 DEF PaymentInvariant, TypeOK
  <1>8. CASE req[r].todo = {c}
    <2>1. Matches(p)'
      BY <1>1, <1>4, <1>7, <1>8 DEF Matches
    <2>2. KnowsItsRow(r)' /\ ListIsRight(r)'
      BY <1>6, <1>8 DEF KnowsItsRow, ListIsRight, RowIsFresh
    <2>. QED
      BY <1>5, <2>1, <2>2, BalancedIf
  <1>9. CASE req[r].todo # {c}
    <2>1. KnowsItsRow(r)'
      BY <1>1, <1>4, <1>6, <1>9 DEF KnowsItsRow, RowIsFresh
    <2>2. ListIsRight(r)'
      <3>1. \A b \in req[r].todo : req[r].found[b].purchase = p
        BY <1>0, <1>1, <1>2 DEF ListIsRight
      <3>2. ~IsSeatPack(req[r].row)
        BY <1>1, <1>2 DEF ListIsRight
      <3>. QED
        BY <1>6, <1>7, <1>9, <3>1, <3>2 DEF ListIsRight, IsSeatPack
    <2>. QED
      BY <1>5, <1>6, <1>9, <2>1, <2>2, BalancedIf DEF HalfDone
  <1>. QED
    BY <1>8, <1>9

(***************************************************************************)
(* Who is not a request.                                                   *)
(***************************************************************************)

(* The learner's moves activate no enrollment that came with a purchase.   *)
LEMMA LearnerIsBalanced ==
  ASSUME PaymentInvariant, Balanced, NEW c \in Courses,
         \/ EnrollBySeat(c)
         \/ LeaveActive(c, "CANCELLED") \/ LeaveActive(c, "COMPLETED")
  PROVE  Balanced'
  <1>1. UNCHANGED <<purchase, packs, req>>
    BY DEF EnrollBySeat, LeaveActive
  <1>2. PICK new : /\ enrollment' = [enrollment EXCEPT ![c] = new]
                   /\ new.status # "NONE"
                   /\ new.purchase \in {NoPurchase, enrollment[c].purchase}
                   /\ new.purchase # NoPurchase => new.status # "ACTIVE"
    <2>1. CASE EnrollBySeat(c)
      <3>1. PICK new : new = [status |-> "ACTIVE", source |-> "SEAT", purchase |-> NoPurchase]
        OBVIOUS
      <3>2. new.status = "ACTIVE" /\ new.purchase = NoPurchase
        BY <3>1
      <3>3. enrollment' = [enrollment EXCEPT ![c] = new]
        BY <2>1, <3>1 DEF EnrollBySeat
      <3>. QED
        BY <3>2, <3>3
    <2>2. ASSUME NEW to \in {"CANCELLED", "COMPLETED"}, LeaveActive(c, to)
          PROVE  \E new : /\ enrollment' = [enrollment EXCEPT ![c] = new]
                          /\ new.status = to /\ new.purchase = enrollment[c].purchase
      <3>1. PICK new : new = [enrollment[c] EXCEPT !.status = to]
        OBVIOUS
      <3>2. new.status = to /\ new.purchase = enrollment[c].purchase
        BY <3>1 DEF PaymentInvariant, TypeOK, Enrollment
      <3>3. enrollment' = [enrollment EXCEPT ![c] = new]
        BY <2>2, <3>1 DEF LeaveActive
      <3>. QED
        BY <3>2, <3>3
    <2>3. CASE LeaveActive(c, "CANCELLED")
      BY <2>2, <2>3
    <2>4. CASE LeaveActive(c, "COMPLETED")
      BY <2>2, <2>4
    <2>. QED
      BY <2>1, <2>3, <2>4
  <1>3. \A b \in Courses : enrollment'[b] = IF b = c THEN new ELSE enrollment[b]
    BY <1>2 DEF PaymentInvariant, TypeOK
  <1>4. \A b \in Courses, d \in PurchaseIds :
          /\ enrollment'[b].purchase = d => enrollment[b].purchase = d
          /\ enrollment'[b].purchase = d /\ enrollment'[b].status = "ACTIVE" =>
               enrollment[b].status = "ACTIVE"
    BY <1>2, <1>3, NullAssumption
  <1>5. \A b \in Courses : enrollment[b].status # "NONE" => enrollment'[b].status # "NONE"
    BY <1>2, <1>3
  <1>6. \A d \in PurchaseIds : KindIsKept(d) => KindIsKept(d)'
    BY <1>1, <1>4 DEF KindIsKept
  <1>7. ASSUME NEW d \in PurchaseIds, Matches(d) PROVE Matches(d)'
    <2>1. purchase[d].items \subseteq Courses
      BY DEF PaymentInvariant, TypeOK, Row
    <2>. QED
      BY <1>1, <1>4, <1>5, <1>7, <2>1 DEF Matches
  <1>8. ASSUME NEW r \in Requests, KnowsItsRow(r), ListIsRight(r)
        PROVE  KnowsItsRow(r)' /\ ListIsRight(r)'
    <2>1. KnowsItsRow(r)'
      BY <1>1, <1>8 DEF KnowsItsRow
    <2>2. req[r].row.items \subseteq Courses
      BY RequestFacts DEF Row
    <2>3. req[r].at # "idle" => req[r].purchase \in PurchaseIds
      BY RequestFacts DEF RequestIsSound
    <2>4. ListIsRight(r)'
      BY <1>1, <1>4, <1>5, <1>8, <2>2, <2>3 DEF ListIsRight
    <2>. QED
      BY <2>1, <2>4
  <1>. QED
    BY <1>1, <1>6, <1>7, <1>8 DEF Balanced

LEMMA ElsewhereIsBalanced ==
  ASSUME Balanced, UNCHANGED <<purchase, packs, enrollment, req>>
  PROVE  Balanced'
  <1>1. \A p \in PurchaseIds : (KindIsKept(p) => KindIsKept(p)') /\ (Matches(p) => Matches(p)')
    BY DEF KindIsKept, Matches
  <1>2. \A r \in Requests : KnowsItsRow(r) /\ ListIsRight(r) => KnowsItsRow(r)' /\ ListIsRight(r)'
    BY DEF KnowsItsRow, ListIsRight
  <1>. QED
    BY <1>1, <1>2 DEF Balanced

LEMMA InitMatches == Init => MatchInvariant
  <1> SUFFICES ASSUME Init PROVE Balanced
    BY InitInvariant DEF MatchInvariant
  <1>1. \A p \in PurchaseIds : KindIsKept(p)
    BY NullAssumption DEF Init, KindIsKept, NoRow, NoEnrollments
  <1>2. \A p \in PurchaseIds : Matches(p)
    BY DEF Init, Matches, NoRow, NoEnrollments
  <1>3. \A r \in Requests : KnowsItsRow(r) /\ ListIsRight(r)
    BY DEF Init, Idle, KnowsItsRow, ListIsRight, RowIsFresh
  <1>. QED
    BY <1>1, <1>2, <1>3 DEF Balanced

LEMMA ServerStepIsBalanced ==
  ASSUME PaymentInvariant, OneAtATime, Balanced, NEW r \in Requests, ServerStep(r)
  PROVE  Balanced'
  <1>1. CASE CheckoutCreate(r) \/ CheckoutFails(r) \/ CheckoutSaveSession(r)
    BY <1>1, CheckoutCreateIsBalanced, CheckoutEndsBalanced
  <1>2. CASE ConfirmRetrieve(r) \/ WebhookFind(r) \/ ExpireSave(r)
    BY <1>2, ConfirmRetrieveIsBalanced, WebhookFindIsBalanced, ExpireSaveIsBalanced
  <1>3. CASE NotifyPaid(r) \/ NotifyRefunded(r) \/ StoreEvent(r)
    BY <1>3, EndingIsBalanced
  <1>4. CASE FulfilSave(r) \/ DeliverSeatPack(r) \/ RemoveSeatPacks(r)
    BY <1>4, FulfilSaveIsBalanced, SeatPacksAreBalanced
  <1>5. CASE \E c \in Courses : DeliverCourse(r, c) \/ CancelSave(r, c)
    BY <1>5, DeliverCourseIsBalanced, CancelSaveIsBalanced
  <1>6. CASE StripeRefund(r) \/ MarkRefundedSave(r) \/ CancelFind(r)
    BY <1>6, StripeRefundIsBalanced, MarkRefundedSaveIsBalanced, CancelFindIsBalanced
  <1>. QED
    BY <1>1, <1>2, <1>3, <1>4, <1>5, <1>6 DEF ServerStep

(* What is lost half way is counted.                                       *)
LEMMA CrashIsCounted ==
  ASSUME PaymentInvariant, NEW r \in Requests, Crash(r)
  PROVE  crashes' # 0
  <1>1. crashes \in Nat
    BY CrashAssumption DEF PaymentInvariant, TypeOK
  <1>2. crashes' = crashes + 1
    BY DEF Crash
  <1>. QED
    BY <1>1, <1>2

LEMMA ServerStepIsNoCrash ==
  ASSUME NEW r \in Requests, ServerStep(r)
  PROVE  UNCHANGED crashes
  <1>1. CASE CheckoutCreate(r) \/ CheckoutFails(r) \/ CheckoutSaveSession(r)
    BY <1>1 DEF CheckoutCreate, CheckoutFails, CheckoutSaveSession
  <1>2. CASE ConfirmRetrieve(r) \/ WebhookFind(r) \/ ExpireSave(r) \/ StoreEvent(r)
    BY <1>2 DEF ConfirmRetrieve, WebhookFind, ExpireSave, StoreEvent
  <1>3. CASE FulfilSave(r) \/ DeliverSeatPack(r) \/ NotifyPaid(r) \/ NotifyRefunded(r)
    BY <1>3 DEF FulfilSave, DeliverSeatPack, NotifyPaid, NotifyRefunded
  <1>4. CASE \E c \in Courses : DeliverCourse(r, c) \/ CancelSave(r, c)
    BY <1>4 DEF DeliverCourse, CancelSave
  <1>5. CASE StripeRefund(r) \/ MarkRefundedSave(r) \/ RemoveSeatPacks(r) \/ CancelFind(r)
    BY <1>5 DEF StripeRefund, MarkRefundedSave, RemoveSeatPacks, CancelFind
  <1>. QED
    BY <1>1, <1>2, <1>3, <1>4, <1>5 DEF ServerStep

LEMMA CrashesStay ==
  ASSUME PaymentInvariant, [Next]_vars, crashes' = 0
  PROVE  crashes = 0 /\ \A r \in Requests : ~Crash(r)
  <1>1. \A r \in Requests : ~Crash(r)
    BY CrashIsCounted
  <1>2. CASE \E r \in Requests : ServerStep(r)
    BY <1>1, <1>2, ServerStepIsNoCrash
  <1>3. CASE \/ \E r \in Requests, p \in PurchaseIds, items \in Drafts : CheckoutSave(r, p, items)
             \/ \E r \in Requests, p \in PurchaseIds : ConfirmRead(r, p) \/ RefundRead(r, p)
             \/ \E r \in Requests, e \in events : WebhookReceive(r, e)
    BY <1>1, <1>3 DEF CheckoutSave, ConfirmRead, RefundRead, WebhookReceive
  <1>4. CASE \E p \in PurchaseIds :
               \/ Pay(p) \/ PayLater(p) \/ LaterPaid(p) \/ LaterFailed(p) \/ SessionExpire(p)
               \/ DashboardRefund(p)
    BY <1>1, <1>4 DEF Pay, PayLater, LaterPaid, LaterFailed, SessionExpire, DashboardRefund,
                      SessionStep
  <1>5. CASE \/ \E c \in Courses : EnrollBySeat(c)
             \/ \E c \in Courses : LeaveActive(c, "CANCELLED") \/ LeaveActive(c, "COMPLETED")
             \/ UNCHANGED vars
    BY <1>1, <1>5 DEF EnrollBySeat, LeaveActive, vars
  <1>. QED
    BY <1>1, <1>2, <1>3, <1>4, <1>5 DEF Next

LEMMA NextMatches == OneAtATime /\ MatchInvariant /\ [Next]_vars => MatchInvariant'
  <1> SUFFICES ASSUME OneAtATime, MatchInvariant, [Next]_vars, crashes' = 0
               PROVE  Balanced'
    BY NextInvariant DEF MatchInvariant
  <1>1. PaymentInvariant /\ Balanced /\ \A r \in Requests : ~Crash(r)
    BY CrashesStay DEF MatchInvariant
  <1>2. ASSUME NEW r \in Requests, NEW p \in PurchaseIds, NEW items \in Drafts,
               CheckoutSave(r, p, items)
        PROVE  Balanced'
    BY <1>1, <1>2, CheckoutSaveIsBalanced
  <1>3. ASSUME NEW r \in Requests, NEW p \in PurchaseIds,
               ConfirmRead(r, p) \/ RefundRead(r, p)
        PROVE  Balanced'
    BY <1>1, <1>3, StartIsBalanced
  <1>4. ASSUME NEW r \in Requests, NEW e \in events, WebhookReceive(r, e) PROVE Balanced'
    <2>1. e.purchase \in PurchaseIds
      BY <1>1, RequestFacts
    <2>. QED
      BY <1>1, <1>4, <2>1, StartIsBalanced
  <1>5. ASSUME NEW r \in Requests, ServerStep(r) PROVE Balanced'
    BY <1>1, <1>5, ServerStepIsBalanced
  <1>6. ASSUME NEW p \in PurchaseIds,
               \/ Pay(p) \/ PayLater(p) \/ LaterPaid(p) \/ LaterFailed(p) \/ SessionExpire(p)
               \/ DashboardRefund(p)
        PROVE  Balanced'
    <2>1. UNCHANGED <<purchase, packs, enrollment, req>>
      BY <1>6 DEF Pay, PayLater, LaterPaid, LaterFailed, SessionExpire, DashboardRefund,
                  SessionStep, rows
    <2>. QED
      BY <1>1, <2>1, ElsewhereIsBalanced
  <1>7. ASSUME NEW c \in Courses,
               \/ EnrollBySeat(c)
               \/ LeaveActive(c, "CANCELLED") \/ LeaveActive(c, "COMPLETED")
        PROVE  Balanced'
    BY <1>1, <1>7, LearnerIsBalanced
  <1>8. CASE UNCHANGED vars
    BY <1>1, <1>8, ElsewhereIsBalanced DEF vars
  <1>. QED
    BY <1>1, <1>2, <1>3, <1>4, <1>5, <1>6, <1>7, <1>8 DEF Next

(* With one request at a time, and until one is lost half way, what is     *)
(* delivered agrees with the status of the purchase, for any number of     *)
(* purchases, bundles and seat packs, whatever order the events come in.   *)
THEOREM SettledPurchasesAlwaysMatch ==
  ASSUME OneAtATime
  PROVE  Spec => [](crashes = 0 => SettledPurchasesMatch)
  <1>1. MatchInvariant => (crashes = 0 => SettledPurchasesMatch)
    <2> SUFFICES ASSUME MatchInvariant, crashes = 0, \A r \in Requests : req[r] = Idle
                 PROVE  \A p \in PurchaseIds : Matches(p)
      BY DEF SettledPurchasesMatch, Matches
    <2>1. \A r \in Requests : req[r].at \notin HalfDone
      BY DEF Idle, HalfDone
    <2>. QED
      BY <2>1 DEF MatchInvariant, Balanced
  <1>2. MatchInvariant /\ [Next]_vars => MatchInvariant'
    BY NextMatches
  <1>. QED
    BY <1>1, <1>2, InitMatches, PTL DEF Spec

(***************************************************************************)
(* Refunds.  A request that is about to fulfil has either an event that is *)
(* not stored yet or a purchase that was never refunded.                   *)
(***************************************************************************)
FulfilIsDue(r) ==
  LET q == req[r] IN
  /\ q.event # NoEvent => q.event \notin stored
  /\ q.at = "retrieve" => q.event = NoEvent
  /\ q.at \in {"retrieve", "fulfil"} /\ q.event = NoEvent =>
       purchase[q.purchase].status # "REFUNDED"
  /\ q.at = "fulfil" /\ q.event # NoEvent => q.event = EventOf("paid", q.purchase)

RefundInvariant == PaymentInvariant /\ \A r \in Requests : FulfilIsDue(r)

(* A step that keeps or drops the event and stores none.                   *)
LEMMA StaysDue ==
  ASSUME NEW r \in Requests, FulfilIsDue(r), stored' = stored,
         req'[r].at \notin {"retrieve", "fulfil"},
         req'[r].event \in {NoEvent, req[r].event}
  PROVE  FulfilIsDue(r)'
  BY DEF FulfilIsDue

LEMMA IdleIsDue ==
  ASSUME PaymentInvariant, NEW r \in Requests, Finish(r)
  PROVE  FulfilIsDue(r)'
  <1>1. req'[r] = Idle
    BY RequestFacts DEF Finish
  <1>. QED
    BY <1>1 DEF FulfilIsDue, Idle

LEMMA GotoStaysDue ==
  ASSUME PaymentInvariant, NEW r \in Requests, FulfilIsDue(r), stored' = stored,
         NEW place \in Places \ {"retrieve", "fulfil"}, Goto(r, place)
  PROVE  FulfilIsDue(r)'
  <1>1. req'[r].at = place /\ req'[r].event = req[r].event
    BY RequestFacts DEF Goto, Request
  <1>. QED
    BY <1>1, StaysDue

LEMMA StartIsDue ==
  ASSUME PaymentInvariant, NEW r \in Requests, NEW p \in PurchaseIds, UNCHANGED stored,
         \/ \E items \in Drafts : CheckoutSave(r, p, items)
         \/ ConfirmRead(r, p) \/ RefundRead(r, p)
         \/ \E e \in events : WebhookReceive(r, e)
  PROVE  FulfilIsDue(r)'
  <1>1. /\ req'[r].at # "fulfil"
        /\ req'[r].event # NoEvent => req'[r].event \notin stored
        /\ req'[r].at = "retrieve" =>
             /\ req'[r].event = NoEvent
             /\ purchase'[req'[r].purchase].status # "REFUNDED"
    <2>1. CASE \E items \in Drafts : CheckoutSave(r, p, items)
      <3>1. PICK items \in Drafts : CheckoutSave(r, p, items)
        BY <2>1
      <3>2. PICK row : Start(r, "create", p, NoEvent, row)
        BY <3>1 DEF CheckoutSave
      <3>. QED
        BY <3>2, RequestFacts DEF Start, Idle
    <2>2. CASE ConfirmRead(r, p)
      BY <2>2, RequestFacts DEF ConfirmRead, Start, Idle, rows
    <2>3. CASE RefundRead(r, p)
      BY <2>3, RequestFacts DEF RefundRead, Start, Idle
    <2>4. CASE \E e \in events : WebhookReceive(r, e)
      <3>1. PICK e \in events : WebhookReceive(r, e)
        BY <2>4
      <3>2. e \notin stored /\ Start(r, "find", e.purchase, e, NoRow)
        BY <3>1 DEF WebhookReceive
      <3>. QED
        BY <3>2, RequestFacts DEF Start, Idle
    <2>. QED
      BY <2>1, <2>2, <2>3, <2>4
  <1>. QED
    BY <1>1 DEF FulfilIsDue

LEMMA FindIsDue ==
  ASSUME PaymentInvariant, NEW r \in Requests, FulfilIsDue(r), WebhookFind(r)
  PROVE  FulfilIsDue(r)'
  <1>1. /\ req[r].event \in events /\ req[r].event.purchase = req[r].purchase
        /\ req[r].event # NoEvent /\ req[r].event \in Event
    BY RequestFacts DEF WebhookFind, At, RequestIsSound
  <1>2. /\ req'[r].at = Handling(req[r].event, purchase[req[r].purchase])
        /\ req'[r].event = req[r].event /\ req'[r].purchase = req[r].purchase
        /\ stored' = stored
    BY RequestFacts DEF WebhookFind, Request, rows
  <1>3. req'[r].at = "fulfil" => req[r].event = EventOf("paid", req[r].purchase)
    BY <1>1, <1>2 DEF Handling, Event, EventOf
  <1>4. req'[r].at # "retrieve"
    BY <1>2 DEF Handling
  <1>. QED
    BY <1>1, <1>2, <1>3, <1>4 DEF FulfilIsDue

LEMMA RetrieveIsDue ==
  ASSUME PaymentInvariant, NEW r \in Requests, FulfilIsDue(r), ConfirmRetrieve(r)
  PROVE  FulfilIsDue(r)'
  <1>1. req[r].at = "retrieve" /\ UNCHANGED <<purchase, stored>>
    BY DEF ConfirmRetrieve, At, rows
  <1>2. CASE Finish(r)
    BY <1>2, IdleIsDue
  <1>3. CASE Goto(r, "fulfil")
    <2>1. req'[r].event = req[r].event /\ req'[r].purchase = req[r].purchase
      BY <1>3, RequestFacts DEF Goto, Request
    <2>2. req'[r].at = "fulfil"
      BY <1>3, RequestFacts DEF Goto, Request
    <2>. QED
      BY <1>1, <2>1, <2>2 DEF FulfilIsDue
  <1>. QED
    BY <1>2, <1>3 DEF ConfirmRetrieve

LEMMA ConcludeStaysDue ==
  ASSUME PaymentInvariant, NEW r \in Requests, FulfilIsDue(r), stored' = stored, Conclude(r)
  PROVE  FulfilIsDue(r)'
  BY IdleIsDue, GotoStaysDue DEF Conclude, Places

LEMMA ServerStepStaysDue ==
  ASSUME PaymentInvariant, NEW r \in Requests, FulfilIsDue(r), ServerStep(r)
  PROVE  FulfilIsDue(r)'
  <1>1. CASE CheckoutCreate(r) \/ CheckoutFails(r) \/ CheckoutSaveSession(r)
    BY <1>1, GotoStaysDue, IdleIsDue
    DEF CheckoutCreate, CheckoutFails, CheckoutSaveSession, Places, rows
  <1>2. CASE ConfirmRetrieve(r) \/ WebhookFind(r)
    BY <1>2, RetrieveIsDue, FindIsDue
  <1>3. CASE ExpireSave(r) \/ StoreEvent(r) \/ NotifyPaid(r) \/ NotifyRefunded(r)
    BY <1>3, GotoStaysDue, IdleIsDue, ConcludeStaysDue
    DEF ExpireSave, StoreEvent, NotifyPaid, NotifyRefunded, Places
  <1>4. CASE DeliverSeatPack(r) \/ StripeRefund(r) \/ MarkRefundedSave(r) \/ RemoveSeatPacks(r)
    BY <1>4, GotoStaysDue, IdleIsDue
    DEF DeliverSeatPack, StripeRefund, MarkRefundedSave, RemoveSeatPacks, Places, rows
  <1>5. CASE \/ FulfilSave(r) \/ CancelFind(r)
             \/ \E c \in Courses : DeliverCourse(r, c) \/ CancelSave(r, c)
    <2>1. stored' = stored
      BY <1>5 DEF FulfilSave, CancelFind, DeliverCourse, CancelSave, rows
    <2>2. /\ req'[r].at \in {"deliver", "paidHandlers", "revoke", "refundHandlers"}
          /\ req'[r].event = req[r].event
      <3>1. CASE FulfilSave(r)
        BY <3>1, RequestFacts DEF FulfilSave, Request
      <3>2. CASE CancelFind(r)
        BY <3>2, RequestFacts DEF CancelFind, Request
      <3>3. ASSUME NEW c \in Courses, DeliverCourse(r, c) \/ CancelSave(r, c)
            PROVE  /\ req'[r].at \in {"deliver", "paidHandlers", "revoke", "refundHandlers"}
                   /\ req'[r].event = req[r].event
        BY <3>3, RequestFacts DEF DeliverCourse, CancelSave, Request
      <3>. QED
        BY <1>5, <3>1, <3>2, <3>3
    <2>. QED
      BY <2>1, <2>2, StaysDue
  <1>. QED
    BY <1>1, <1>2, <1>3, <1>4, <1>5 DEF ServerStep

LEMMA ElsewhereStaysDue ==
  ASSUME UNCHANGED <<purchase, stored, req>>, \A r \in Requests : FulfilIsDue(r)
  PROVE  \A r \in Requests : FulfilIsDue(r)'
  BY DEF FulfilIsDue

LEMMA NextStaysDue == OneAtATime /\ RefundInvariant /\ [Next]_vars => RefundInvariant'
  <1> SUFFICES ASSUME OneAtATime, RefundInvariant, [Next]_vars
               PROVE  \A r \in Requests : FulfilIsDue(r)'
    BY NextInvariant DEF RefundInvariant
  <1>1. PaymentInvariant /\ \A r \in Requests : FulfilIsDue(r)
    BY DEF RefundInvariant
  <1>2. ASSUME NEW r \in Requests, FulfilIsDue(r)' PROVE \A s \in Requests : FulfilIsDue(s)'
    BY <1>2 DEF OneAtATime
  <1>3. CASE \/ \E r \in Requests, p \in PurchaseIds, items \in Drafts : CheckoutSave(r, p, items)
             \/ \E r \in Requests, p \in PurchaseIds : ConfirmRead(r, p) \/ RefundRead(r, p)
    <2>1. UNCHANGED stored
      BY <1>3 DEF CheckoutSave, ConfirmRead, RefundRead, rows
    <2>. QED
      BY <1>1, <1>2, <1>3, <2>1, StartIsDue
  <1>4. ASSUME NEW r \in Requests, NEW e \in events, WebhookReceive(r, e)
        PROVE  FulfilIsDue(r)'
    <2>1. UNCHANGED stored
      BY <1>4 DEF WebhookReceive, rows
    <2>2. e.purchase \in PurchaseIds
      BY <1>1, RequestFacts
    <2>. QED
      BY <1>1, <1>4, <2>1, <2>2, StartIsDue
  <1>5. ASSUME NEW r \in Requests, ServerStep(r) \/ Crash(r) PROVE FulfilIsDue(r)'
    BY <1>1, <1>5, ServerStepStaysDue, IdleIsDue DEF Crash
  <1>6. CASE \E p \in PurchaseIds :
               \/ Pay(p) \/ PayLater(p) \/ LaterPaid(p) \/ LaterFailed(p) \/ SessionExpire(p)
               \/ DashboardRefund(p)
    <2>1. UNCHANGED <<purchase, stored, req>>
      BY <1>6 DEF Pay, PayLater, LaterPaid, LaterFailed, SessionExpire, DashboardRefund,
                  SessionStep, rows
    <2>. QED
      BY <1>1, <2>1, ElsewhereStaysDue
  <1>7. CASE \/ \E c \in Courses : EnrollBySeat(c)
             \/ \E c \in Courses : LeaveActive(c, "CANCELLED") \/ LeaveActive(c, "COMPLETED")
             \/ UNCHANGED vars
    <2>1. UNCHANGED <<purchase, stored, req>>
      BY <1>7 DEF EnrollBySeat, LeaveActive, vars
    <2>. QED
      BY <1>1, <2>1, ElsewhereStaysDue
  <1>. QED
    BY <1>2, <1>3, <1>4, <1>5, <1>6, <1>7 DEF Next

(* The saves that could undo a refund: the checkout and the expiry have an *)
(* unpaid session, and fulfil is due.                                      *)
LEMMA RefundKept ==
  ASSUME OneAtATime, RefundInvariant, [Next]_vars, NEW p \in PurchaseIds,
         purchase[p].status = "REFUNDED", EventOf("paid", p) \in stored
  PROVE  purchase'[p].status = "REFUNDED"
  <1>1. /\ PaymentInvariant /\ session[p] = "paid"
        /\ purchase \in [PurchaseIds -> Row]
    BY DEF RefundInvariant, PaymentInvariant, EventsAreTrue, Settled, TypeOK
  <1>2. ASSUME NEW r \in Requests, NEW row,
               Save(r, row), req[r].purchase = p => row.status = "REFUNDED"
        PROVE  purchase'[p].status = "REFUNDED"
    BY <1>1, <1>2 DEF Save
  <1>3. CASE \E r \in Requests, d \in PurchaseIds, items \in Drafts : CheckoutSave(r, d, items)
    <2>1. PICK d \in PurchaseIds : purchase[d] = NoRow /\ \E row : purchase' = [purchase EXCEPT ![d] = row]
      BY <1>3 DEF CheckoutSave
    <2>2. d # p
      BY <2>1 DEF NoRow
    <2>. QED
      BY <1>1, <2>1, <2>2
  <1>4. ASSUME NEW r \in Requests, CheckoutFails(r) \/ CheckoutSaveSession(r) \/ ExpireSave(r)
        PROVE  purchase'[p].status = "REFUNDED"
    <2>1. req[r].purchase # p
      BY <1>1, <1>4, RequestFacts
      DEF CheckoutFails, CheckoutSaveSession, ExpireSave, At, RequestIsSound, CheckoutIsUnpaid
    <2>. QED
      BY <1>2, <1>4, <2>1 DEF CheckoutFails, CheckoutSaveSession, ExpireSave
  <1>5. ASSUME NEW r \in Requests, FulfilSave(r) PROVE purchase'[p].status = "REFUNDED"
    <2>1. req[r].purchase # p
      BY <1>5 DEF RefundInvariant, FulfilIsDue, FulfilSave, At
    <2>. QED
      BY <1>2, <1>5, <2>1 DEF FulfilSave
  <1>6. ASSUME NEW r \in Requests, MarkRefundedSave(r) PROVE purchase'[p].status = "REFUNDED"
    <2>1. [req[r].row EXCEPT !.status = "REFUNDED"].status = "REFUNDED"
      BY <1>1, RequestFacts DEF Row
    <2>. QED
      BY <1>2, <1>6, <2>1 DEF MarkRefundedSave
  <1>7. ASSUME NEW r \in Requests, ServerStep(r) PROVE purchase'[p].status = "REFUNDED"
    <2>1. CASE \/ CheckoutFails(r) \/ CheckoutSaveSession(r) \/ ExpireSave(r)
               \/ FulfilSave(r) \/ MarkRefundedSave(r)
      BY <1>4, <1>5, <1>6, <2>1
    <2>2. CASE CheckoutCreate(r) \/ ConfirmRetrieve(r) \/ WebhookFind(r) \/ StoreEvent(r)
      BY <2>2 DEF CheckoutCreate, ConfirmRetrieve, WebhookFind, StoreEvent, rows
    <2>3. CASE DeliverSeatPack(r) \/ NotifyPaid(r) \/ NotifyRefunded(r)
      BY <2>3 DEF DeliverSeatPack, NotifyPaid, NotifyRefunded
    <2>4. CASE \E c \in Courses : DeliverCourse(r, c) \/ CancelSave(r, c)
      BY <2>4 DEF DeliverCourse, CancelSave
    <2>5. CASE StripeRefund(r) \/ RemoveSeatPacks(r) \/ CancelFind(r)
      BY <2>5 DEF StripeRefund, RemoveSeatPacks, CancelFind, rows
    <2>. QED
      BY <1>7, <2>1, <2>2, <2>3, <2>4, <2>5 DEF ServerStep
  <1>8. CASE \/ \E r \in Requests, d \in PurchaseIds : ConfirmRead(r, d) \/ RefundRead(r, d)
             \/ \E r \in Requests, e \in events : WebhookReceive(r, e)
             \/ \E r \in Requests : Crash(r)
    BY <1>8 DEF ConfirmRead, RefundRead, WebhookReceive, Crash, rows
  <1>9. CASE \E d \in PurchaseIds :
               \/ Pay(d) \/ PayLater(d) \/ LaterPaid(d) \/ LaterFailed(d) \/ SessionExpire(d)
               \/ DashboardRefund(d)
    BY <1>9 DEF Pay, PayLater, LaterPaid, LaterFailed, SessionExpire, DashboardRefund,
                SessionStep, rows
  <1>10. CASE \/ \E c \in Courses : EnrollBySeat(c)
              \/ \E c \in Courses : LeaveActive(c, "CANCELLED") \/ LeaveActive(c, "COMPLETED")
              \/ UNCHANGED vars
    BY <1>10 DEF EnrollBySeat, LeaveActive, vars
  <1>. QED
    BY <1>3, <1>7, <1>8, <1>9, <1>10 DEF Next

(* With one request at a time a refund stands once Stripe's payment event  *)
(* is acknowledged, whatever events come again and whoever crashes half    *)
(* way, for any number of purchases and crashes.                           *)
THEOREM RefundsAlwaysStand ==
  ASSUME OneAtATime
  PROVE  Spec => RefundsStand
  <1>1. Init => RefundInvariant
    BY InitInvariant DEF Init, RefundInvariant, FulfilIsDue, Idle
  <1>2. RefundInvariant /\ [Next]_vars => RefundInvariant'
    BY NextStaysDue
  <1>3. RefundInvariant /\ [Next]_vars =>
          [\A p \in PurchaseIds :
             purchase[p].status = "REFUNDED" /\ EventOf("paid", p) \in stored =>
               purchase'[p].status = "REFUNDED"]_vars
    BY RefundKept
  <1>. QED
    BY <1>1, <1>2, <1>3, PTL DEF Spec, RefundsStand
=============================================================================
