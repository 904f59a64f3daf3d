--------------------------- MODULE ReferralLedger ---------------------------
(***************************************************************************)
(* The commissions of one partner (src/referrals/referrals.service.ts):    *)
(* the ledger entries of the purchases of one referred user, the payout    *)
(* cycles that collect them, and the handlers that the payments service    *)
(* and the admins call.                                                    *)
(*                                                                         *)
(* There is no lock and no transaction.  A handler loads the row of a      *)
(* cycle, changes it in memory and saves it several awaits later; the save *)
(* writes every column that differs from the database.  A handler may fail *)
(* at any await, and what it has saved by then stays: the payments service *)
(* logs the error of a handler and goes on.                                *)
(***************************************************************************)
EXTENDS Naturals, FiniteSets, FiniteSetsExt

CONSTANTS
  PurchaseIds,   \* the purchases of the referred user
  Price,         \* what each of them costs, in cents
  Profiles,      \* the terms an admin may give the partner
  CycleIds,      \* ids for payout cycles: a bound for the checker
  Requests,      \* the requests the servers handle at the same time
  NoPurchase,
  NoCycle,
  MaxDisturbances \* a bound for the checker: how often handlers overlap or fail

Profile == [suspended: BOOLEAN, rateBps: 0..10000, threshold: Nat]

ASSUME PriceAssumption   == Price \in [PurchaseIds -> Nat \ {0}]
ASSUME ProfileAssumption == Profiles \subseteq Profile
ASSUME NullsAssumption   == NoPurchase \notin PurchaseIds /\ NoCycle \notin CycleIds
ASSUME BoundAssumption   == MaxDisturbances \in Nat

VARIABLES
  paid,        \* the purchases that have been paid
  refunded,    \* those of them that have been refunded
  profile,     \* the row of partner_profiles, or the defaults
  qualified,   \* qualified_purchase_id of the referral
  entry,       \* the row of commission_entries of each purchase
  cycle,       \* the rows of payout_cycles
  alerts,      \* how often the superadmins were alerted of each cycle
  req,         \* what each request is in the middle of
  overlaps, failures

ledger == <<entry, cycle, alerts, qualified>>
vars == <<paid, refunded, profile, qualified, entry, cycle, alerts, req, overlaps, failures>>

Entry == [status: {"NONE", "EARNED", "PAID", "REVERSED"}, amount: Nat,
          cycle: CycleIds \union {NoCycle}]
NoEntry == [status |-> "NONE", amount |-> 0, cycle |-> NoCycle]

Cycle == [status: {"NONE", "OPEN", "READY", "PAID"}, amount: Nat, count: Nat,
          threshold: Nat, alerted: BOOLEAN]
NoRow == [status |-> "NONE", amount |-> 0, count |-> 0, threshold |-> 0, alerted |-> FALSE]

Places == {"idle", "findCycle", "createCycle", "saveEntry", "qualify", "alert",
           "saveCycle", "saveReversed", "debit", "savePaid", "settle"}

(* entry and row are the rows the request has loaded, first whether the     *)
(* referral it loaded had not qualified.                                   *)
Request == [at: Places, purchase: PurchaseIds \union {NoPurchase}, entry: Entry,
            cycle: CycleIds \union {NoCycle}, row: Cycle, first: BOOLEAN]
Idle == [at |-> "idle", purchase |-> NoPurchase, entry |-> NoEntry,
         cycle |-> NoCycle, row |-> NoRow, first |-> FALSE]

(* The cycles openCycle finds.  Mutant: those that are ready are not found. *)
UnpaidNotReady == {c \in CycleIds : cycle[c].status = "OPEN"}

Unpaid == {c \in CycleIds : cycle[c].status \in {"OPEN", "READY"}}

Init ==
  /\ paid = {} /\ refunded = {}
  /\ profile \in {t \in Profiles : ~t.suspended}
  /\ qualified = NoPurchase
  /\ entry = [p \in PurchaseIds |-> NoEntry]
  /\ cycle = [c \in CycleIds |-> NoRow]
  /\ alerts = [c \in CycleIds |-> 0]
  /\ req = [r \in Requests |-> Idle]
  /\ overlaps = 0
  /\ failures = 0

(***************************************************************************)
(* Requests.                                                               *)
(***************************************************************************)
At(r, place) == req[r].at = place
Finish(r) == req' = [req EXCEPT ![r] = Idle]
Undisturbed == overlaps + failures < MaxDisturbances
Busy == \E r \in Requests : req[r] # Idle

(* A first step counts whether another request was under way.              *)
Starts(r, request) ==
  /\ req[r] = Idle
  /\ Busy => Undisturbed
  /\ overlaps' = IF Busy THEN overlaps + 1 ELSE overlaps
  /\ req' = [req EXCEPT ![r] = request]
  /\ UNCHANGED <<paid, refunded, profile, ledger, failures>>

Fail(r) ==
  /\ req[r] # Idle
  /\ Undisturbed
  /\ failures' = failures + 1
  /\ Finish(r)
  /\ UNCHANGED <<paid, refunded, profile, ledger, overlaps>>

(***************************************************************************)
(* recordCommission, called for a paid purchase, and again if that is      *)
(* fulfilled again.  The first three reads are one step.                   *)
(***************************************************************************)
(* Math.round(price * rate / 10000).                                       *)
Commission(p) == (Price[p] * profile.rateBps + 5000) \div 10000

RecordRead(r, p) ==
  /\ p \in paid
  /\ entry[p] = NoEntry
  /\ ~profile.suspended
  /\ Starts(r, [Idle EXCEPT
       !.at = "findCycle", !.purchase = p, !.first = qualified = NoPurchase,
       !.entry = [NoEntry EXCEPT !.status = "EARNED", !.amount = Commission(p)],
       !.row.threshold = profile.threshold])

(* openCycle takes an unpaid cycle of the partner, if it finds one.         *)
CycleFind(r) ==
  /\ At(r, "findCycle")
  /\ \/ \E c \in Unpaid : req' = [req EXCEPT
          ![r].at = "saveEntry", ![r].cycle = c, ![r].row = cycle[c]]
     \/ Unpaid = {} /\ req' = [req EXCEPT ![r].at = "createCycle"]
  /\ UNCHANGED <<paid, refunded, profile, ledger, overlaps, failures>>

CycleCreate(r, c) ==
  LET row == [req[r].row EXCEPT !.status = "OPEN"] IN
  /\ At(r, "createCycle")
  /\ cycle[c] = NoRow
  /\ cycle' = [cycle EXCEPT ![c] = row]
  /\ req' = [req EXCEPT ![r].at = "saveEntry", ![r].cycle = c, ![r].row = row]
  /\ UNCHANGED <<paid, refunded, profile, qualified, entry, alerts, overlaps, failures>>

(* evaluateThreshold.                                                      *)
Reached(row) == row.amount >= row.threshold

(* Mutant: the new commission replaces the total.                          *)
CreditedReplaces(row, amount) ==
  LET sum == [row EXCEPT !.amount = amount, !.count = @ + 1] IN
  IF Reached(sum) THEN [sum EXCEPT !.status = IF @ = "OPEN" THEN "READY" ELSE @] ELSE sum

Credited(row, amount) ==
  LET sum == [row EXCEPT !.amount = @ + amount, !.count = @ + 1] IN
  IF Reached(sum) THEN [sum EXCEPT !.status = IF @ = "OPEN" THEN "READY" ELSE @] ELSE sum

Afterwards(row) == IF Reached(row) /\ ~row.alerted THEN "alert" ELSE "saveCycle"

EntrySave(r) ==
  LET p == req[r].purchase
      row == Credited(req[r].row, req[r].entry.amount)
  IN
  /\ At(r, "saveEntry")
  /\ entry[p] = NoEntry
  /\ entry' = [entry EXCEPT ![p] = [req[r].entry EXCEPT !.cycle = req[r].cycle]]
  /\ req' = [req EXCEPT ![r].row = row,
       ![r].at = IF req[r].first THEN "qualify" ELSE Afterwards(row)]
  /\ UNCHANGED <<paid, refunded, profile, qualified, cycle, alerts, overlaps, failures>>

(* The unique index on purchase_id.                                        *)
EntryRefused(r) ==
  /\ At(r, "saveEntry")
  /\ entry[req[r].purchase] # NoEntry
  /\ Finish(r)
  /\ UNCHANGED <<paid, refunded, profile, ledger, overlaps, failures>>

Qualify(r) ==
  /\ At(r, "qualify")
  /\ qualified' = req[r].purchase
  /\ req' = [req EXCEPT ![r].at = Afterwards(req[r].row)]
  /\ UNCHANGED <<paid, refunded, profile, entry, cycle, alerts, overlaps, failures>>

AlertAdmins(r) ==
  /\ At(r, "alert")
  /\ alerts' = [alerts EXCEPT ![req[r].cycle] = @ + 1]
  /\ req' = [req EXCEPT ![r].at = "saveCycle", ![r].row.alerted = TRUE]
  /\ UNCHANGED <<paid, refunded, profile, qualified, entry, cycle, overlaps, failures>>

CycleSave(r) ==
  /\ At(r, "saveCycle")
  /\ cycle' = [cycle EXCEPT ![req[r].cycle] = req[r].row]
  /\ Finish(r)
  /\ UNCHANGED <<paid, refunded, profile, qualified, entry, alerts, overlaps, failures>>

(***************************************************************************)
(* reverseCommission, called for a refunded purchase.                      *)
(***************************************************************************)
ReverseRead(r, p) ==
  /\ p \in refunded
  /\ entry[p].status = "EARNED"
  /\ Starts(r, [Idle EXCEPT
       !.at = "saveReversed", !.purchase = p, !.entry = entry[p], !.cycle = entry[p].cycle])

ReverseSave(r) ==
  /\ At(r, "saveReversed")
  /\ entry' = [entry EXCEPT ![req[r].purchase] = [req[r].entry EXCEPT !.status = "REVERSED"]]
  /\ req' = [req EXCEPT ![r].at = "debit"]
  /\ UNCHANGED <<paid, refunded, profile, qualified, cycle, alerts, overlaps, failures>>

(* Mutant: a cycle that falls below its threshold stays ready.              *)
DebitedStaysReady(row, amount) ==
  [row EXCEPT !.amount = IF @ > amount THEN @ - amount ELSE 0,
              !.count = IF @ > 0 THEN @ - 1 ELSE 0]

Debited(row, amount) ==
  LET rest == [row EXCEPT !.amount = IF @ > amount THEN @ - amount ELSE 0,
                          !.count = IF @ > 0 THEN @ - 1 ELSE 0]
  IN  IF row.status = "READY" /\ ~Reached(rest) THEN [rest EXCEPT !.status = "OPEN"] ELSE rest

ReverseDebit(r) ==
  LET row == cycle[req[r].cycle] IN
  /\ At(r, "debit")
  /\ IF row.status = "PAID"
     THEN Finish(r)
     ELSE req' = [req EXCEPT ![r].at = "saveCycle",
                             ![r].row = Debited(row, req[r].entry.amount)]
  /\ UNCHANGED <<paid, refunded, profile, ledger, overlaps, failures>>

(***************************************************************************)
(* markPaid and upsertPartner, called by an admin.                         *)
(***************************************************************************)
PayRead(r, c) ==
  /\ c \in Unpaid
  /\ cycle[c].amount > 0
  /\ Starts(r, [Idle EXCEPT
       !.at = "savePaid", !.cycle = c, !.row = [cycle[c] EXCEPT !.status = "PAID"]])

PaySave(r) ==
  /\ At(r, "savePaid")
  /\ cycle' = [cycle EXCEPT ![req[r].cycle] = req[r].row]
  /\ req' = [req EXCEPT ![r].at = "settle"]
  /\ UNCHANGED <<paid, refunded, profile, qualified, entry, alerts, overlaps, failures>>

(* Mutant: every entry of the cycle is settled.                            *)
SettledOfAll(c) == {p \in PurchaseIds : entry[p].cycle = c}
SettledBy(c) == {p \in PurchaseIds : entry[p].cycle = c /\ entry[p].status = "EARNED"}

PaySettle(r) ==
  /\ At(r, "settle")
  /\ entry' = [p \in PurchaseIds |->
       IF p \in SettledBy(req[r].cycle) THEN [entry[p] EXCEPT !.status = "PAID"] ELSE entry[p]]
  /\ Finish(r)
  /\ UNCHANGED <<paid, refunded, profile, qualified, cycle, alerts, overlaps, failures>>

UpsertPartner(terms) ==
  /\ profile # terms
  /\ profile' = terms
  /\ UNCHANGED <<paid, refunded, ledger, req, overlaps, failures>>

(***************************************************************************)
(* stats, what the partner is shown.                                       *)
(***************************************************************************)
EntriesTotal(statuses) ==
  MapThenSumSet(LAMBDA p : entry[p].amount, {p \in PurchaseIds : entry[p].status \in statuses})

PendingCents == EntriesTotal({"EARNED"})

Stats ==
  [qualified |-> IF qualified = NoPurchase THEN 0 ELSE 1,
   pending   |-> PendingCents,
   earned    |-> PendingCents + EntriesTotal({"PAID"}),
   reversed  |-> EntriesTotal({"REVERSED"}),
   open      |-> IF Unpaid = {} THEN NoRow ELSE cycle[CHOOSE c \in Unpaid : TRUE]]

(***************************************************************************)
(* The payments service.                                                   *)
(***************************************************************************)
PurchasePaid(p) ==
  /\ p \notin paid
  /\ paid' = paid \union {p}
  /\ UNCHANGED <<refunded, profile, ledger, req, overlaps, failures>>

PurchaseRefunded(p) ==
  /\ p \in paid \ refunded
  /\ refunded' = refunded \union {p}
  /\ UNCHANGED <<paid, profile, ledger, req, overlaps, failures>>

HandlerStep(r) ==
  \/ CycleFind(r)
  \/ \E c \in CycleIds : CycleCreate(r, c)
  \/ EntrySave(r)
  \/ EntryRefused(r)
  \/ Qualify(r)
  \/ AlertAdmins(r)
  \/ CycleSave(r)
  \/ ReverseSave(r)
  \/ ReverseDebit(r)
  \/ PaySave(r)
  \/ PaySettle(r)

Next ==
  \/ \E r \in Requests, p \in PurchaseIds : RecordRead(r, p)
  \/ \E r \in Requests, p \in PurchaseIds : ReverseRead(r, p)
  \/ \E r \in Requests, c \in CycleIds : PayRead(r, c)
  \/ \E r \in Requests : HandlerStep(r)
  \/ \E r \in Requests : Fail(r)
  \/ \E terms \in Profiles : UpsertPartner(terms)
  \/ \E p \in PurchaseIds : PurchasePaid(p)
  \/ \E p \in PurchaseIds : PurchaseRefunded(p)

Spec == Init /\ [][Next]_vars
-----------------------------------------------------------------------------
(* Every variable has its type; what is refunded was paid.                 *)
TypeOK ==
  /\ paid \subseteq PurchaseIds
  /\ refunded \subseteq paid
  /\ profile \in Profiles
  /\ qualified \in PurchaseIds \union {NoPurchase}
  /\ entry \in [PurchaseIds -> Entry]
  /\ cycle \in [CycleIds -> Cycle]
  /\ alerts \in [CycleIds -> Nat]
  /\ req \in [Requests -> Request]
  /\ overlaps \in 0..MaxDisturbances
  /\ failures \in 0..MaxDisturbances

(* Nothing is under way, and so far nothing has overlapped or failed.      *)
Quiet == overlaps = 0 /\ failures = 0 /\ ~Busy

(* What a cycle holds: its earned entries until it is paid, then the       *)
(* entries it settled.                                                     *)
Holding(c) ==
  {p \in PurchaseIds : /\ entry[p].cycle = c
                       /\ entry[p].status = IF cycle[c].status = "PAID" THEN "PAID" ELSE "EARNED"}

(* Between requests, the total and the count of every cycle are those of   *)
(* the entries it holds, through records, refunds and payouts in any order *)
(* ("the numbers cannot drift out of sync with the ledger").               *)
CyclesAddUp ==
  Quiet => \A c \in CycleIds :
    /\ cycle[c].amount = MapThenSumSet(LAMBDA p : entry[p].amount, Holding(c))
    /\ cycle[c].count = Cardinality(Holding(c))

(* Between requests, a partner is shown as pending what the open cycle     *)
(* will pay out, and as earned that and what the paid cycles paid; and     *)
(* the referral has qualified once anything was ever earned by it.         *)
StatsAgreeWithCycles ==
  Quiet =>
    /\ Stats.pending = Stats.open.amount
    /\ Stats.earned - Stats.pending =
         MapThenSumSet(LAMBDA c : cycle[c].amount, {c \in CycleIds : cycle[c].status = "PAID"})
    /\ Stats.qualified = 1 <=> \E p \in PurchaseIds : entry[p] # NoEntry

(* Whatever overlaps or fails, an unpaid cycle is READY when its total has  *)
(* reached its threshold and OPEN when it has not, though refunds may take *)
(* it below again and the terms may change: total and status are saved in  *)
(* one row.  An empty cycle whose threshold is zero may be either.         *)
ReadyWhenDue ==
  \A c \in Unpaid :
    /\ cycle[c].status = "READY" => cycle[c].amount >= cycle[c].threshold
    /\ cycle[c].status = "OPEN"  => cycle[c].amount < cycle[c].threshold \/ cycle[c].amount = 0

(* "Exactly one cycle is open per partner": openCycle adds a second only    *)
(* when two commissions overlap, not when a handler fails after creating.  *)
OneOpenCycle == overlaps = 0 => Cardinality(Unpaid) <= 1

(* "Threshold alerts fire once per cycle", however often refunds and new   *)
(* commissions take it across the threshold, unless a handler fails        *)
(* between the alert and the save that remembers it.                       *)
AlertedOnce == overlaps = 0 /\ failures = 0 => \A c \in CycleIds : alerts[c] <= 1

(* An entry "moves from EARNED to either PAID or REVERSED" and is never    *)
(* edited otherwise ("Commissions that were already paid stay paid"), also *)
(* when handlers fail half way.                                            *)
LedgerMovesForward ==
  [][\A p \in PurchaseIds : overlaps' = 0 /\ entry'[p] # entry[p] =>
       \/ entry[p].status = "NONE" /\ entry'[p].status = "EARNED"
       \/ /\ entry[p].status = "EARNED"
          /\ entry'[p].status \in {"PAID", "REVERSED"}
          /\ entry'[p].amount = entry[p].amount
          /\ entry'[p].cycle = entry[p].cycle]_vars

(* Whatever overlaps or fails, a reversed commission is never paid: a      *)
(* payout settles only what is earned, and REVERSED is final.              *)
ReversedIsNeverPaid ==
  [][\A p \in PurchaseIds : entry[p].status = "REVERSED" => entry'[p] = entry[p]]_vars

(* The books balance: what cycles hold, what partners are shown and what    *)
(* the ledger says are the same, whatever the terms, refunds and payouts.  *)
BalancesAddUp == TypeOK /\ CyclesAddUp /\ StatsAgreeWithCycles

(* A partner collects in one cycle at a time, and each is alerted of once.  *)
CyclesOpenAndAlertOnce == OneOpenCycle /\ AlertedOnce
=============================================================================
