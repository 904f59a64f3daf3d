----------------------- MODULE LedgerAndCourseProofs ------------------------
(***************************************************************************)
(* Theorems about the two components that keep totals: ReferralLedger,     *)
(* which this module extends, and Curriculum, which it instantiates as     *)
(* Cur.  Both need facts about sums over finite sets of any size, which    *)
(* are proved here by induction.                                           *)
(*                                                                         *)
(* ReferralLedger, for all purchases, prices, terms, cycles and requests   *)
(* and any number of overlaps and failures: types, that the status of a    *)
(* cycle fits its total, that a reversal is final, and, as long as no two  *)
(* handlers overlap, that one cycle collects at a time, is alerted of      *)
(* once, that an entry only moves forward, and that the books balance      *)
(* until a handler fails.                                                  *)
(*                                                                         *)
(* Curriculum, for all numbers of modules and lessons, minutes, prices and *)
(* requests: that the derived columns of a course and its outline are      *)
(* right, that a removal, reorder or edit that nothing overlaps puts right *)
(* what earlier ones left behind, and that learners keep their course.     *)
(***************************************************************************)
EXTENDS ReferralLedger, Integers, FiniteSetTheorems, WellFoundedInduction, TLAPS

(* The status of a row of payout_cycles fits its total.                    *)
Due(row) ==
  /\ row.status = "READY" => row.amount >= row.threshold
  /\ row.status = "OPEN"  => row.amount < row.threshold \/ row.amount = 0

CyclesAreDue == \A c \in CycleIds : Due(cycle[c])

EntriesHaveCycles == \A p \in PurchaseIds : entry[p].status # "NONE" => entry[p].cycle \in CycleIds

(* A request that holds an entry to reverse holds what is in the database, *)
(* but for the status.                                                     *)
HoldsEntry(request) ==
  LET p == request.purchase IN
  /\ p \in PurchaseIds
  /\ entry[p].status # "NONE"
  /\ request.entry.amount = entry[p].amount
  /\ request.entry.cycle = entry[p].cycle

(* Whatever row a request may save fits, however stale it is.              *)
Sound(request) ==
  /\ Due(request.row)
  /\ request.at \in {"findCycle", "createCycle"} => request.row.amount = 0
  /\ request.at \in {"saveEntry", "saveReversed", "debit"} => request.cycle \in CycleIds
  /\ request.at = "saveReversed" => HoldsEntry(request)

LedgerInvariant ==
  /\ TypeOK
  /\ CyclesAreDue
  /\ EntriesHaveCycles
  /\ \A r \in Requests : Sound(req[r])

-----------------------------------------------------------------------------
LEMMA NullsHaveTypes ==
  /\ NoEntry \in Entry
  /\ NoRow \in Cycle /\ Due(NoRow)
  /\ Idle \in Request /\ Sound(Idle)
BY DEF NoEntry, Entry, NoRow, Cycle, Due, Idle, Request, Places, Sound

LEMMA CommissionIsNat ==
  ASSUME TypeOK, NEW p \in PurchaseIds
  PROVE  Commission(p) \in Nat
<1>1. Price[p] \in Nat BY PriceAssumption
<1>2. profile.rateBps \in Nat
  <2> DEFINE rates == 0..10000
  <2>1. profile \in Profile BY ProfileAssumption DEF TypeOK
  <2>2. profile.rateBps \in rates BY <2>1 DEF Profile
  <2>3. rates \subseteq Nat OBVIOUS
  <2> HIDE DEF rates
  <2> QED BY <2>2, <2>3
<1> DEFINE product == Price[p] * profile.rateBps
<1>3. product \in Nat BY <1>1, <1>2
<1> HIDE DEF product
<1>4. (product + 5000) \div 10000 \in Nat BY <1>3
<1> QED BY <1>4 DEF Commission, product

(* evaluateThreshold leaves a row that fits.                               *)
LEMMA CreditedFits ==
  ASSUME NEW row \in Cycle, Due(row), NEW amount \in Nat
  PROVE  Credited(row, amount) \in Cycle /\ Due(Credited(row, amount))
<1> DEFINE sum == [row EXCEPT !.amount = @ + amount, !.count = @ + 1]
<1>1. /\ sum \in Cycle
      /\ sum.amount = row.amount + amount
      /\ sum.status = row.status /\ sum.threshold = row.threshold
  <2> DEFINE total == row.amount + amount
             count == row.count + 1
  <2>1. total \in Nat /\ count \in Nat BY DEF Cycle
  <2>2. sum = [row EXCEPT !.amount = total, !.count = count] OBVIOUS
  <2> HIDE DEF sum, total, count
  <2>3. /\ sum \in Cycle
        /\ sum.amount = total
        /\ sum.status = row.status /\ sum.threshold = row.threshold
    BY <2>1, <2>2 DEF Cycle
  <2> QED BY <2>3 DEF total
<1>2. Credited(row, amount) =
        IF Reached(sum) THEN [sum EXCEPT !.status = IF @ = "OPEN" THEN "READY" ELSE @] ELSE sum
  BY DEF Credited
<1> HIDE DEF sum
<1>3. row.amount \in Nat /\ row.threshold \in Nat BY DEF Cycle
<1>4. CASE Reached(sum)
  <2>1. Credited(row, amount) = [sum EXCEPT !.status = IF @ = "OPEN" THEN "READY" ELSE @]
    BY <1>2, <1>4
  <2>2. Credited(row, amount) \in Cycle BY <1>1, <2>1 DEF Cycle
  <2>3. /\ Credited(row, amount).status # "OPEN"
        /\ Credited(row, amount).amount = sum.amount
        /\ Credited(row, amount).threshold = sum.threshold
    BY <1>1, <2>1 DEF Cycle
  <2> QED BY <1>4, <2>2, <2>3 DEF Reached, Due
<1>5. CASE ~Reached(sum)
  <2>1. Credited(row, amount) = sum BY <1>2, <1>5
  <2> QED BY <1>1, <1>3, <1>5, <2>1 DEF Reached, Due
<1> QED BY <1>4, <1>5

LEMMA DebitedFits ==
  ASSUME NEW row \in Cycle, Due(row), NEW amount \in Nat
  PROVE  Debited(row, amount) \in Cycle /\ Due(Debited(row, amount))
<1> DEFINE rest == [row EXCEPT !.amount = IF @ > amount THEN @ - amount ELSE 0,
                               !.count = IF @ > 0 THEN @ - 1 ELSE 0]
<1>1. /\ rest \in Cycle
      /\ rest.amount = IF row.amount > amount THEN row.amount - amount ELSE 0
      /\ rest.status = row.status /\ rest.threshold = row.threshold
  <2> DEFINE total == IF row.amount > amount THEN row.amount - amount ELSE 0
             count == IF row.count > 0 THEN row.count - 1 ELSE 0
  <2>1. total \in Nat /\ count \in Nat BY DEF Cycle
  <2>2. rest = [row EXCEPT !.amount = total, !.count = count] OBVIOUS
  <2> HIDE DEF rest, total, count
  <2>3. /\ rest \in Cycle
        /\ rest.amount = total
        /\ rest.status = row.status /\ rest.threshold = row.threshold
    BY <2>1, <2>2 DEF Cycle
  <2> QED BY <2>3 DEF total
<1>2. Debited(row, amount) =
        IF row.status = "READY" /\ ~Reached(rest) THEN [rest EXCEPT !.status = "OPEN"] ELSE rest
  BY DEF Debited
<1> HIDE DEF rest
<1>3. row.amount \in Nat /\ row.threshold \in Nat BY DEF Cycle
<1>4. CASE row.status = "READY" /\ ~Reached(rest)
  <2>1. Debited(row, amount) = [rest EXCEPT !.status = "OPEN"] BY <1>2, <1>4
  <2>2. Debited(row, amount) \in Cycle BY <1>1, <2>1 DEF Cycle
  <2>3. /\ Debited(row, amount).status = "OPEN"
        /\ Debited(row, amount).amount = rest.amount
        /\ Debited(row, amount).threshold = rest.threshold
    BY <1>1, <2>1 DEF Cycle
  <2>4. rest.amount < rest.threshold BY <1>1, <1>3, <1>4 DEF Reached
  <2> QED BY <2>2, <2>3, <2>4 DEF Due
<1>5. CASE ~(row.status = "READY" /\ ~Reached(rest))
  <2>1. Debited(row, amount) = rest BY <1>2, <1>5
  <2> QED BY <1>1, <1>3, <1>5, <2>1 DEF Reached, Due
<1> QED BY <1>4, <1>5

-----------------------------------------------------------------------------
(* A request is replaced by another sound one and no entry changes.        *)
LEMMA RequestChangeKeeps ==
  ASSUME LedgerInvariant, NEW r \in Requests, NEW request \in Request, Sound(request),
         req' = [req EXCEPT ![r] = request], UNCHANGED entry
  PROVE  /\ req' \in [Requests -> Request]
         /\ EntriesHaveCycles'
         /\ \A s \in Requests : Sound(req[s])'
<1>1. req \in [Requests -> Request] BY DEF LedgerInvariant, TypeOK
<1>2. req' \in [Requests -> Request] BY <1>1
<1>3. EntriesHaveCycles' BY DEF LedgerInvariant, EntriesHaveCycles
<1>4. ASSUME NEW s \in Requests PROVE Sound(req[s])'
  <2>1. req'[s] = IF s = r THEN request ELSE req[s] BY <1>1
  <2>2. Sound(req[s]) BY DEF LedgerInvariant
  <2> QED BY <2>1, <2>2 DEF Sound, HoldsEntry, Due
<1> QED BY <1>2, <1>3, <1>4

LEMMA StartsKeep ==
  ASSUME LedgerInvariant, NEW r \in Requests, NEW request \in Request, Sound(request),
         Starts(r, request)
  PROVE  LedgerInvariant'
<1>1. /\ req' = [req EXCEPT ![r] = request]
      /\ UNCHANGED <<paid, refunded, profile, entry, cycle, alerts, qualified, failures>>
  BY DEF Starts, ledger
<1>2. /\ req' \in [Requests -> Request]
      /\ EntriesHaveCycles'
      /\ \A s \in Requests : Sound(req[s])'
  BY <1>1, RequestChangeKeeps
<1>3. overlaps' \in 0..MaxDisturbances
  BY BoundAssumption DEF Starts, Undisturbed, LedgerInvariant, TypeOK
<1> QED BY <1>1, <1>2, <1>3 DEF LedgerInvariant, TypeOK, CyclesAreDue

(* A request goes on and perhaps saves a cycle, an alert or the referral.  *)
LEMMA GoesOnKeeps ==
  ASSUME LedgerInvariant, NEW r \in Requests, NEW request \in Request, Sound(request),
         req' = [req EXCEPT ![r] = request],
         UNCHANGED <<paid, refunded, profile, entry, overlaps>>,
         failures' \in 0..MaxDisturbances,
         qualified' \in PurchaseIds \union {NoPurchase},
         alerts' \in [CycleIds -> Nat],
         cycle' \in [CycleIds -> Cycle], CyclesAreDue'
  PROVE  LedgerInvariant'
<1>1. /\ req' \in [Requests -> Request]
      /\ EntriesHaveCycles'
      /\ \A s \in Requests : Sound(req[s])'
  BY RequestChangeKeeps
<1> QED BY <1>1 DEF LedgerInvariant, TypeOK

-----------------------------------------------------------------------------
(* The operations begin.                                                   *)
LEMMA RecordReadKeeps ==
  ASSUME LedgerInvariant, NEW r \in Requests, NEW p \in PurchaseIds, RecordRead(r, p)
  PROVE  LedgerInvariant'
<1> DEFINE request == [Idle EXCEPT
       !.at = "findCycle", !.purchase = p, !.first = qualified = NoPurchase,
       !.entry = [NoEntry EXCEPT !.status = "EARNED", !.amount = Commission(p)],
       !.row.threshold = profile.threshold]
<1>1. Commission(p) \in Nat BY CommissionIsNat DEF LedgerInvariant
<1>2. profile.threshold \in Nat
  <2>1. profile \in Profile BY ProfileAssumption DEF LedgerInvariant, TypeOK
  <2> QED BY <2>1 DEF Profile
<1>3. request \in Request BY <1>1, <1>2 DEF Idle, Request, Places, NoEntry, Entry, NoRow, Cycle
<1>4. Sound(request) BY <1>1, <1>2 DEF Idle, NoEntry, NoRow, Sound, Due
<1>5. Starts(r, request) BY DEF RecordRead
<1> HIDE DEF request
<1> QED BY <1>3, <1>4, <1>5, StartsKeep

LEMMA ReverseReadKeeps ==
  ASSUME LedgerInvariant, NEW r \in Requests, NEW p \in PurchaseIds, ReverseRead(r, p)
  PROVE  LedgerInvariant'
<1> DEFINE request == [Idle EXCEPT
       !.at = "saveReversed", !.purchase = p, !.entry = entry[p], !.cycle = entry[p].cycle]
<1>1. entry[p] \in Entry /\ entry[p].cycle \in CycleIds /\ entry[p].status = "EARNED"
  BY DEF LedgerInvariant, TypeOK, EntriesHaveCycles, ReverseRead
<1>2. request \in Request BY <1>1 DEF Idle, Request, Places, NoRow, Cycle
<1>3. Sound(request) BY <1>1 DEF Idle, NoRow, Sound, HoldsEntry, Due
<1>4. Starts(r, request) BY DEF ReverseRead
<1> HIDE DEF request
<1> QED BY <1>2, <1>3, <1>4, StartsKeep

LEMMA PayReadKeeps ==
  ASSUME LedgerInvariant, NEW r \in Requests, NEW c \in CycleIds, PayRead(r, c)
  PROVE  LedgerInvariant'
<1> DEFINE row == [cycle[c] EXCEPT !.status = "PAID"]
           request == [Idle EXCEPT !.at = "savePaid", !.cycle = c, !.row = row]
<1>1. cycle[c] \in Cycle BY DEF LedgerInvariant, TypeOK
<1>2. row \in Cycle /\ row.status = "PAID" BY <1>1 DEF Cycle
<1>3. Starts(r, request) BY DEF PayRead
<1> HIDE DEF row
<1>4. request \in Request BY <1>2 DEF Idle, Request, Places, NoEntry, Entry
<1>5. Sound(request) BY <1>2 DEF Idle, Sound, Due
<1> HIDE DEF request
<1> QED BY <1>3, <1>4, <1>5, StartsKeep

(* recordCommission goes on.                                               *)
LEMMA CycleFindKeeps ==
  ASSUME LedgerInvariant, NEW r \in Requests, CycleFind(r)
  PROVE  LedgerInvariant'
<1>1. /\ req[r] \in Request /\ Sound(req[r]) /\ req[r].at = "findCycle"
      /\ UNCHANGED <<paid, refunded, profile, entry, cycle, alerts, qualified, overlaps, failures>>
  BY DEF LedgerInvariant, TypeOK, CycleFind, At, ledger
<1>2. CASE \E c \in Unpaid : req' = [req EXCEPT
             ![r].at = "saveEntry", ![r].cycle = c, ![r].row = cycle[c]]
  <2>1. PICK c \in Unpaid : req' = [req EXCEPT
          ![r].at = "saveEntry", ![r].cycle = c, ![r].row = cycle[c]]
    BY <1>2
  <2> DEFINE request == [req[r] EXCEPT !.at = "saveEntry", !.cycle = c, !.row = cycle[c]]
  <2>2. c \in CycleIds /\ cycle[c] \in Cycle /\ Due(cycle[c])
    BY DEF Unpaid, LedgerInvariant, TypeOK, CyclesAreDue
  <2>3. request \in Request /\ Sound(request)
    BY <1>1, <2>2 DEF Request, Places, Sound
  <2>4. req' = [req EXCEPT ![r] = request] BY <2>1
  <2> HIDE DEF request
  <2> QED BY <1>1, <2>3, <2>4, GoesOnKeeps DEF LedgerInvariant, TypeOK, CyclesAreDue
<1>3. CASE req' = [req EXCEPT ![r].at = "createCycle"]
  <2> DEFINE request == [req[r] EXCEPT !.at = "createCycle"]
  <2>1. request \in Request /\ Sound(request) BY <1>1 DEF Request, Places, Sound
  <2>2. req' = [req EXCEPT ![r] = request] BY <1>3
  <2> HIDE DEF request
  <2> QED BY <1>1, <2>1, <2>2, GoesOnKeeps DEF LedgerInvariant, TypeOK, CyclesAreDue
<1> QED BY <1>2, <1>3 DEF CycleFind

(* A row is saved that fits.                                               *)
LEMMA SavedCyclesAreDue ==
  ASSUME LedgerInvariant, NEW c, NEW row \in Cycle, Due(row),
         cycle' = [cycle EXCEPT ![c] = row]
  PROVE  cycle' \in [CycleIds -> Cycle] /\ CyclesAreDue'
BY DEF LedgerInvariant, TypeOK, CyclesAreDue, Due

LEMMA CycleCreateKeeps ==
  ASSUME LedgerInvariant, NEW r \in Requests, NEW c \in CycleIds, CycleCreate(r, c)
  PROVE  LedgerInvariant'
<1> DEFINE row == [req[r].row EXCEPT !.status = "OPEN"]
           request == [req[r] EXCEPT !.at = "saveEntry", !.cycle = c, !.row = row]
<1>1. /\ req[r] \in Request /\ Sound(req[r]) /\ req[r].at = "createCycle"
      /\ cycle' = [cycle EXCEPT ![c] = row]
      /\ req' = [req EXCEPT ![r] = request]
      /\ UNCHANGED <<paid, refunded, profile, entry, alerts, qualified, overlaps, failures>>
  BY DEF LedgerInvariant, TypeOK, CycleCreate, At
<1>2. row \in Cycle /\ Due(row) BY <1>1 DEF Request, Cycle, Sound, Due
<1>3. cycle' \in [CycleIds -> Cycle] /\ CyclesAreDue'
  <2> HIDE DEF row
  <2> QED BY <1>1, <1>2, SavedCyclesAreDue
<1>4. request \in Request /\ Sound(request)
  <2> HIDE DEF row
  <2> QED BY <1>1, <1>2 DEF Request, Places, Sound
<1> HIDE DEF request
<1> QED BY <1>1, <1>3, <1>4, GoesOnKeeps DEF LedgerInvariant, TypeOK

LEMMA EntrySaveKeeps ==
  ASSUME LedgerInvariant, NEW r \in Requests, EntrySave(r)
  PROVE  LedgerInvariant'
<1> DEFINE p == req[r].purchase
           row == Credited(req[r].row, req[r].entry.amount)
           place == IF req[r].first THEN "qualify" ELSE Afterwards(row)
           request == [req[r] EXCEPT !.row = row, !.at = place]
           saved == [req[r].entry EXCEPT !.cycle = req[r].cycle]
<1>1. /\ req[r] \in Request /\ Sound(req[r]) /\ req[r].at = "saveEntry"
      /\ entry[p] = NoEntry
      /\ entry' = [entry EXCEPT ![p] = saved]
      /\ req' = [req EXCEPT ![r] = request]
      /\ UNCHANGED <<paid, refunded, profile, cycle, alerts, qualified, overlaps, failures>>
  BY DEF LedgerInvariant, TypeOK, EntrySave, At
<1>2. row \in Cycle /\ Due(row)
  <2>1. req[r].row \in Cycle /\ Due(req[r].row) /\ req[r].entry.amount \in Nat
    BY <1>1 DEF Request, Entry, Sound
  <2> QED BY <2>1, CreditedFits
<1>3. place \in {"qualify", "alert", "saveCycle"} BY DEF Afterwards
<1> HIDE DEF row, place
<1>4. request \in Request /\ request.at = place /\ request.row = row
  BY <1>1, <1>2, <1>3 DEF Request, Places
<1>5. Sound(request) BY <1>2, <1>3, <1>4 DEF Sound
<1>6. saved \in Entry /\ saved.cycle \in CycleIds BY <1>1 DEF Request, Entry, Sound
<1> HIDE DEF request, saved
<1>7. entry' \in [PurchaseIds -> Entry] BY <1>1, <1>6 DEF LedgerInvariant, TypeOK
<1>8. EntriesHaveCycles'
  BY <1>1, <1>6 DEF LedgerInvariant, TypeOK, EntriesHaveCycles
<1>9. ASSUME NEW s \in Requests PROVE Sound(req[s])'
  <2>1. CASE s = r
    <3>1. req'[s] = request BY <1>1, <2>1 DEF LedgerInvariant, TypeOK
    <3> QED BY <1>3, <1>4, <1>5, <3>1 DEF Sound, Due
  <2>2. CASE s # r
    <3>1. req'[s] = req[s] /\ Sound(req[s]) BY <1>1, <2>2 DEF LedgerInvariant, TypeOK
    <3>2. CASE req[s].at = "saveReversed"
      <4>1. HoldsEntry(req[s]) BY <3>1, <3>2 DEF Sound
      <4>2. req[s].purchase # p BY <1>1, <4>1 DEF HoldsEntry, NoEntry
      <4>3. entry'[req[s].purchase] = entry[req[s].purchase]
        BY <1>1, <4>1, <4>2 DEF HoldsEntry, LedgerInvariant, TypeOK
      <4> QED BY <3>1, <4>1, <4>3 DEF Sound, HoldsEntry, Due
    <3>3. CASE req[s].at # "saveReversed" BY <3>1, <3>3 DEF Sound, Due
    <3> QED BY <3>2, <3>3
  <2> QED BY <2>1, <2>2
<1>10. req' \in [Requests -> Request] BY <1>1, <1>4 DEF LedgerInvariant, TypeOK
<1>11. CyclesAreDue' BY <1>1 DEF LedgerInvariant, CyclesAreDue
<1>12. TypeOK' BY <1>1, <1>7, <1>10 DEF LedgerInvariant, TypeOK
<1> QED BY <1>8, <1>9, <1>11, <1>12 DEF LedgerInvariant

LEMMA QualifyKeeps ==
  ASSUME LedgerInvariant, NEW r \in Requests, Qualify(r)
  PROVE  LedgerInvariant'
<1> DEFINE place == Afterwards(req[r].row)
           request == [req[r] EXCEPT !.at = place]
<1>1. /\ req[r] \in Request /\ Sound(req[r])
      /\ qualified' = req[r].purchase
      /\ req' = [req EXCEPT ![r] = request]
      /\ UNCHANGED <<paid, refunded, profile, entry, cycle, alerts, overlaps, failures>>
  BY DEF LedgerInvariant, TypeOK, Qualify, At
<1>2. place \in {"alert", "saveCycle"} BY DEF Afterwards
<1> HIDE DEF place
<1>3. request \in Request /\ Sound(request) BY <1>1, <1>2 DEF Request, Places, Sound
<1>4. qualified' \in PurchaseIds \union {NoPurchase} BY <1>1 DEF Request
<1> HIDE DEF request
<1> QED BY <1>1, <1>3, <1>4, GoesOnKeeps DEF LedgerInvariant, TypeOK, CyclesAreDue

LEMMA AlertAdminsKeeps ==
  ASSUME LedgerInvariant, NEW r \in Requests, AlertAdmins(r)
  PROVE  LedgerInvariant'
<1> DEFINE row == [req[r].row EXCEPT !.alerted = TRUE]
           request == [req[r] EXCEPT !.at = "saveCycle", !.row = row]
<1>1. /\ req[r] \in Request /\ Sound(req[r])
      /\ alerts' = [alerts EXCEPT ![req[r].cycle] = @ + 1]
      /\ req' = [req EXCEPT ![r].at = "saveCycle", ![r].row.alerted = TRUE]
      /\ UNCHANGED <<paid, refunded, profile, entry, cycle, qualified, overlaps, failures>>
  BY DEF LedgerInvariant, TypeOK, AlertAdmins, At
<1>2. row \in Cycle /\ Due(row) BY <1>1 DEF Request, Cycle, Sound, Due
<1>3. req' = [req EXCEPT ![r] = request] BY <1>1 DEF LedgerInvariant, TypeOK, Request
<1>4. request \in Request /\ Sound(request)
  <2> HIDE DEF row
  <2> QED BY <1>1, <1>2 DEF Request, Places, Sound
<1>5. alerts' \in [CycleIds -> Nat]
  <2> DEFINE c == req[r].cycle
  <2>1. alerts \in [CycleIds -> Nat] BY DEF LedgerInvariant, TypeOK
  <2>2. alerts' = [alerts EXCEPT ![c] = alerts[c] + 1] BY <1>1
  <2> HIDE DEF c
  <2>3. CASE c \in CycleIds BY <2>1, <2>2, <2>3
  <2>4. CASE c \notin CycleIds BY <2>1, <2>2, <2>4
  <2> QED BY <2>3, <2>4
<1> HIDE DEF request
<1> QED BY <1>1, <1>3, <1>4, <1>5, GoesOnKeeps DEF LedgerInvariant, TypeOK, CyclesAreDue

(* A request ends.                                                         *)
LEMMA FinishKeeps ==
  ASSUME LedgerInvariant, NEW r \in Requests, Finish(r),
         UNCHANGED <<paid, refunded, profile, entry, qualified, alerts, overlaps>>,
         failures' \in 0..MaxDisturbances,
         cycle' \in [CycleIds -> Cycle], CyclesAreDue'
  PROVE  LedgerInvariant'
<1>1. req' = [req EXCEPT ![r] = Idle] BY DEF Finish
<1> QED BY <1>1, NullsHaveTypes, GoesOnKeeps DEF LedgerInvariant, TypeOK

LEMMA EndingsKeep ==
  ASSUME LedgerInvariant, NEW r \in Requests, EntryRefused(r) \/ CycleSave(r) \/ Fail(r)
  PROVE  LedgerInvariant'
<1>1. CASE EntryRefused(r)
  BY <1>1, FinishKeeps DEF EntryRefused, ledger, LedgerInvariant, TypeOK, CyclesAreDue
<1>2. CASE CycleSave(r)
  <2>1. req[r].row \in Cycle /\ Due(req[r].row) BY DEF LedgerInvariant, TypeOK, Request, Sound
  <2>2. cycle' = [cycle EXCEPT ![req[r].cycle] = req[r].row] BY <1>2 DEF CycleSave
  <2>3. cycle' \in [CycleIds -> Cycle] /\ CyclesAreDue' BY <2>1, <2>2, SavedCyclesAreDue
  <2> QED BY <1>2, <2>3, FinishKeeps DEF CycleSave, LedgerInvariant, TypeOK
<1>3. CASE Fail(r)
  <2>1. failures' \in 0..MaxDisturbances
    BY <1>3, BoundAssumption DEF Fail, Undisturbed, LedgerInvariant, TypeOK
  <2> QED BY <1>3, <2>1, FinishKeeps DEF Fail, ledger, LedgerInvariant, TypeOK, CyclesAreDue
<1> QED BY <1>1, <1>2, <1>3

(* reverseCommission and markPaid go on.                                   *)
LEMMA ReverseSaveKeeps ==
  ASSUME LedgerInvariant, NEW r \in Requests, ReverseSave(r)
  PROVE  LedgerInvariant'
<1> DEFINE p == req[r].purchase
           request == [req[r] EXCEPT !.at = "debit"]
           saved == [req[r].entry EXCEPT !.status = "REVERSED"]
<1>1. /\ req[r] \in Request /\ Sound(req[r]) /\ req[r].at = "saveReversed"
      /\ entry' = [entry EXCEPT ![p] = saved]
      /\ req' = [req EXCEPT ![r].at = "debit"]
      /\ UNCHANGED <<paid, refunded, profile, cycle, alerts, qualified, overlaps, failures>>
  BY DEF LedgerInvariant, TypeOK, ReverseSave, At
<1>2. HoldsEntry(req[r]) BY <1>1 DEF Sound
<1>3. /\ saved \in Entry /\ saved.status = "REVERSED"
      /\ saved.amount = entry[p].amount /\ saved.cycle = entry[p].cycle
  BY <1>1, <1>2 DEF Request, Entry, HoldsEntry
<1>4. req' = [req EXCEPT ![r] = request] BY <1>1
<1>5. request \in Request /\ request.at = "debit" /\ Sound(request)
  BY <1>1 DEF Request, Places, Sound
<1> HIDE DEF request, saved
<1>6. entry' \in [PurchaseIds -> Entry] BY <1>1, <1>3 DEF LedgerInvariant, TypeOK
<1>7. EntriesHaveCycles'
  BY <1>1, <1>2, <1>3 DEF LedgerInvariant, TypeOK, EntriesHaveCycles, HoldsEntry
<1>8. ASSUME NEW s \in Requests PROVE Sound(req[s])'
  <2>1. CASE s = r
    <3>1. req'[s] = request BY <1>4, <2>1 DEF LedgerInvariant, TypeOK
    <3> QED BY <1>5, <3>1 DEF Sound, Due
  <2>2. CASE s # r
    <3>1. req'[s] = req[s] /\ Sound(req[s]) BY <1>4, <2>2 DEF LedgerInvariant, TypeOK
    <3>2. CASE req[s].at = "saveReversed"
      <4>1. HoldsEntry(req[s]) BY <3>1, <3>2 DEF Sound
      <4>2. HoldsEntry(req[s])'
        BY <1>1, <1>3, <3>1, <4>1 DEF HoldsEntry, LedgerInvariant, TypeOK
      <4> QED BY <3>1, <4>2 DEF Sound, Due
    <3>3. CASE req[s].at # "saveReversed" BY <3>1, <3>3 DEF Sound, Due
    <3> QED BY <3>2, <3>3
  <2> QED BY <2>1, <2>2
<1>9. req' \in [Requests -> Request] BY <1>4, <1>5 DEF LedgerInvariant, TypeOK
<1>10. CyclesAreDue' BY <1>1 DEF LedgerInvariant, CyclesAreDue
<1>11. TypeOK' BY <1>1, <1>6, <1>9 DEF LedgerInvariant, TypeOK
<1> QED BY <1>7, <1>8, <1>10, <1>11 DEF LedgerInvariant

LEMMA ReverseDebitKeeps ==
  ASSUME LedgerInvariant, NEW r \in Requests, ReverseDebit(r)
  PROVE  LedgerInvariant'
<1> DEFINE row == cycle[req[r].cycle]
           rest == Debited(row, req[r].entry.amount)
           request == [req[r] EXCEPT !.at = "saveCycle", !.row = rest]
<1>1. /\ req[r] \in Request /\ Sound(req[r]) /\ req[r].at = "debit"
      /\ UNCHANGED <<paid, refunded, profile, entry, cycle, alerts, qualified, overlaps, failures>>
  BY DEF LedgerInvariant, TypeOK, ReverseDebit, At, ledger
<1>2. CASE row.status = "PAID"
  BY <1>1, <1>2, FinishKeeps DEF ReverseDebit, LedgerInvariant, TypeOK, CyclesAreDue
<1>3. CASE row.status # "PAID"
  <2>1. req[r].cycle \in CycleIds /\ req[r].entry.amount \in Nat
    BY <1>1 DEF Sound, Request, Entry
  <2>2. row \in Cycle /\ Due(row) BY <2>1 DEF LedgerInvariant, TypeOK, CyclesAreDue
  <2>3. rest \in Cycle /\ Due(rest) BY <2>1, <2>2, DebitedFits
  <2>4. req' = [req EXCEPT ![r] = request] BY <1>3 DEF ReverseDebit
  <2>5. request \in Request /\ Sound(request)
    <3> HIDE DEF rest
    <3> QED BY <1>1, <2>3 DEF Request, Places, Sound
  <2> HIDE DEF request
  <2> QED BY <1>1, <2>4, <2>5, GoesOnKeeps DEF LedgerInvariant, TypeOK, CyclesAreDue
<1> QED BY <1>2, <1>3

LEMMA PaySaveKeeps ==
  ASSUME LedgerInvariant, NEW r \in Requests, PaySave(r)
  PROVE  LedgerInvariant'
<1> DEFINE request == [req[r] EXCEPT !.at = "settle"]
<1>1. /\ req[r] \in Request /\ Sound(req[r])
      /\ cycle' = [cycle EXCEPT ![req[r].cycle] = req[r].row]
      /\ req' = [req EXCEPT ![r] = request]
      /\ UNCHANGED <<paid, refunded, profile, entry, alerts, qualified, overlaps, failures>>
  BY DEF LedgerInvariant, TypeOK, PaySave
<1>2. req[r].row \in Cycle /\ Due(req[r].row) BY <1>1 DEF Request, Sound
<1>3. cycle' \in [CycleIds -> Cycle] /\ CyclesAreDue' BY <1>1, <1>2, SavedCyclesAreDue
<1>4. request \in Request /\ Sound(request) BY <1>1 DEF Request, Places, Sound
<1> HIDE DEF request
<1> QED BY <1>1, <1>3, <1>4, GoesOnKeeps DEF LedgerInvariant, TypeOK

(* A payout changes nothing but the status of entries that are earned.     *)
LEMMA PaySettleKeeps ==
  ASSUME LedgerInvariant, NEW r \in Requests, PaySettle(r)
  PROVE  LedgerInvariant'
<1>1. /\ req' = [req EXCEPT ![r] = Idle]
      /\ UNCHANGED <<paid, refunded, profile, cycle, alerts, qualified, overlaps, failures>>
  BY DEF PaySettle, Finish
<1>2. ASSUME NEW p \in PurchaseIds
      PROVE  /\ entry'[p] \in Entry
             /\ entry'[p].amount = entry[p].amount /\ entry'[p].cycle = entry[p].cycle
             /\ entry'[p].status = "NONE" <=> entry[p].status = "NONE"
  <2>1. entry[p] \in Entry BY DEF LedgerInvariant, TypeOK
  <2>2. entry'[p] = IF p \in SettledBy(req[r].cycle)
                    THEN [entry[p] EXCEPT !.status = "PAID"] ELSE entry[p]
    BY DEF PaySettle
  <2> QED BY <2>1, <2>2 DEF SettledBy, Entry
<1>3. entry' \in [PurchaseIds -> Entry]
  <2>1. entry' = [p \in PurchaseIds |-> entry'[p]] BY DEF PaySettle
  <2> QED BY <1>2, <2>1
<1>4. EntriesHaveCycles' BY <1>2 DEF LedgerInvariant, EntriesHaveCycles
<1>5. ASSUME NEW s \in Requests PROVE Sound(req[s])'
  <2>1. req'[s] = IF s = r THEN Idle ELSE req[s] BY <1>1 DEF LedgerInvariant, TypeOK
  <2>2. Sound(req[s]) /\ Sound(Idle) BY NullsHaveTypes DEF LedgerInvariant
  <2>3. CASE req'[s].at = "saveReversed"
    <3>1. req'[s] = req[s] BY <2>1, <2>3 DEF Idle
    <3>2. HoldsEntry(req[s]) BY <2>2, <2>3, <3>1 DEF Sound
    <3>3. HoldsEntry(req[s])' BY <1>2, <3>1, <3>2 DEF HoldsEntry
    <3> QED BY <2>2, <3>1, <3>3 DEF Sound, Due
  <2>4. CASE req'[s].at # "saveReversed" BY <2>1, <2>2, <2>4 DEF Sound, Due
  <2> QED BY <2>3, <2>4
<1>6. req' \in [Requests -> Request] BY <1>1, NullsHaveTypes DEF LedgerInvariant, TypeOK
<1>7. CyclesAreDue' BY <1>1 DEF LedgerInvariant, CyclesAreDue
<1>8. TypeOK' BY <1>1, <1>3, <1>6 DEF LedgerInvariant, TypeOK
<1> QED BY <1>4, <1>5, <1>7, <1>8 DEF LedgerInvariant

-----------------------------------------------------------------------------
LEMMA InitialLedger == Init => LedgerInvariant
<1> SUFFICES ASSUME Init PROVE LedgerInvariant OBVIOUS
<1>1. TypeOK BY NullsHaveTypes, BoundAssumption DEF Init, TypeOK
<1>2. CyclesAreDue BY NullsHaveTypes DEF Init, CyclesAreDue
<1>3. EntriesHaveCycles BY DEF Init, EntriesHaveCycles, NoEntry
<1>4. \A r \in Requests : Sound(req[r]) BY NullsHaveTypes DEF Init
<1> QED BY <1>1, <1>2, <1>3, <1>4 DEF LedgerInvariant

(* What happens elsewhere: the terms change, payments and refunds.         *)
LEMMA ElsewhereKeeps ==
  ASSUME LedgerInvariant, UNCHANGED <<ledger, req, overlaps, failures>>,
         paid' \subseteq PurchaseIds, refunded' \subseteq paid', profile' \in Profiles
  PROVE  LedgerInvariant'
<1>1. UNCHANGED <<entry, cycle, alerts, qualified>> BY DEF ledger
<1>2. TypeOK' BY <1>1 DEF LedgerInvariant, TypeOK
<1>3. CyclesAreDue' /\ EntriesHaveCycles'
  BY <1>1 DEF LedgerInvariant, CyclesAreDue, EntriesHaveCycles
<1>4. \A r \in Requests : Sound(req[r])' BY <1>1 DEF LedgerInvariant, Sound, HoldsEntry, Due
<1> QED BY <1>2, <1>3, <1>4 DEF LedgerInvariant

LEMMA StepsKeepLedger == LedgerInvariant /\ [Next]_vars => LedgerInvariant'
<1> SUFFICES ASSUME LedgerInvariant, [Next]_vars PROVE LedgerInvariant' OBVIOUS
<1>1. CASE \E r \in Requests, p \in PurchaseIds : RecordRead(r, p)
  BY <1>1, RecordReadKeeps
<1>2. CASE \E r \in Requests, p \in PurchaseIds : ReverseRead(r, p)
  BY <1>2, ReverseReadKeeps
<1>3. CASE \E r \in Requests, c \in CycleIds : PayRead(r, c)
  BY <1>3, PayReadKeeps
<1>4. CASE \E r \in Requests : HandlerStep(r)
  BY <1>4, CycleFindKeeps, CycleCreateKeeps, EntrySaveKeeps, EndingsKeep, QualifyKeeps,
     AlertAdminsKeeps, ReverseSaveKeeps, ReverseDebitKeeps, PaySaveKeeps, PaySettleKeeps
     DEF HandlerStep
<1>5. CASE \E r \in Requests : Fail(r)
  BY <1>5, EndingsKeep
<1>6. CASE \/ \E terms \in Profiles : UpsertPartner(terms)
           \/ \E p \in PurchaseIds : PurchasePaid(p)
           \/ \E p \in PurchaseIds : PurchaseRefunded(p)
  <2>1. /\ UNCHANGED <<ledger, req, overlaps, failures>>
        /\ paid' \subseteq PurchaseIds /\ refunded' \subseteq paid' /\ profile' \in Profiles
    BY <1>6 DEF UpsertPartner, PurchasePaid, PurchaseRefunded, LedgerInvariant, TypeOK
  <2> QED BY <2>1, ElsewhereKeeps
<1>7. CASE UNCHANGED vars
  BY <1>7, ElsewhereKeeps DEF vars, ledger, LedgerInvariant, TypeOK
<1> QED BY <1>1, <1>2, <1>3, <1>4, <1>5, <1>6, <1>7 DEF Next

LEMMA LedgerAlways == Spec => []LedgerInvariant
BY InitialLedger, StepsKeepLedger, PTL DEF Spec

(* Every variable keeps its type.                                          *)
THEOREM TypeCorrect == Spec => []TypeOK
<1>1. LedgerInvariant => TypeOK BY DEF LedgerInvariant
<1> QED BY <1>1, LedgerAlways, PTL

(* Whatever overlaps or fails, the status of every unpaid cycle fits its   *)
(* total.                                                                  *)
THEOREM StatusFitsTotal == Spec => []ReadyWhenDue
<1>1. LedgerInvariant => ReadyWhenDue
  BY DEF LedgerInvariant, CyclesAreDue, Due, ReadyWhenDue, Unpaid
<1> QED BY <1>1, LedgerAlways, PTL

-----------------------------------------------------------------------------
LEMMA ReversedStays ==
  ASSUME LedgerInvariant, [Next]_vars, NEW p \in PurchaseIds, entry[p].status = "REVERSED"
  PROVE  entry'[p] = entry[p]
<1>1. entry \in [PurchaseIds -> Entry] BY DEF LedgerInvariant, TypeOK
<1>2. ASSUME NEW r \in Requests, EntrySave(r) PROVE entry'[p] = entry[p]
  <2>1. req[r].purchase # p BY <1>2 DEF EntrySave, NoEntry
  <2> QED BY <1>1, <1>2, <2>1 DEF EntrySave
<1>3. ASSUME NEW r \in Requests, ReverseSave(r) PROVE entry'[p] = entry[p]
  <2>1. /\ entry' = [entry EXCEPT ![req[r].purchase] = [req[r].entry EXCEPT !.status = "REVERSED"]]
        /\ HoldsEntry(req[r]) /\ req[r].entry \in Entry
    BY <1>3 DEF ReverseSave, At, LedgerInvariant, TypeOK, Sound, Request
  <2>2. CASE req[r].purchase = p
    <3>1. [req[r].entry EXCEPT !.status = "REVERSED"] = entry[p]
      BY <1>1, <2>1, <2>2 DEF HoldsEntry, Entry
    <3> QED BY <1>1, <2>1, <2>2, <3>1
  <2>3. CASE req[r].purchase # p BY <1>1, <2>1, <2>3
  <2> QED BY <2>2, <2>3
<1>4. ASSUME NEW r \in Requests, PaySettle(r) PROVE entry'[p] = entry[p]
  BY <1>4 DEF PaySettle, SettledBy
<1>5. CASE UNCHANGED entry BY <1>5
<1>6. \/ UNCHANGED entry
      \/ \E r \in Requests : EntrySave(r) \/ ReverseSave(r) \/ PaySettle(r)
  BY DEF Next, HandlerStep, vars, ledger, RecordRead, ReverseRead, PayRead, Starts, Fail,
         CycleFind, CycleCreate, EntryRefused, Qualify, AlertAdmins, CycleSave, ReverseDebit,
         PaySave, UpsertPartner, PurchasePaid, PurchaseRefunded
<1> QED BY <1>2, <1>3, <1>4, <1>5, <1>6

(* Whatever overlaps or fails, a commission that is reversed stays so.     *)
THEOREM ReversalsAreFinal == Spec => ReversedIsNeverPaid
<1>1. LedgerInvariant /\ [Next]_vars =>
        [\A p \in PurchaseIds : entry[p].status = "REVERSED" => entry'[p] = entry[p]]_vars
  BY ReversedStays
<1> QED BY <1>1, LedgerAlways, PTL DEF Spec, ReversedIsNeverPaid
-----------------------------------------------------------------------------
(* Without overlaps at most one request is under way, it knows the rows it *)
(* will save, and one cycle is unpaid; until a handler fails the rows of   *)
(* the cycles remember the alerts.                                         *)
Collects(row) == row.status \in {"OPEN", "READY"}

Follows(request) ==
  LET c == request.cycle
      p == request.purchase
  IN
  /\ request.at \in {"findCycle", "createCycle", "saveEntry"} => request.entry.status = "EARNED"
  /\ request.at = "createCycle" => Unpaid = {}
  /\ request.at = "saveEntry" => request.row = cycle[c]
  /\ request.at \in {"saveEntry", "qualify", "alert", "saveCycle", "savePaid"} =>
       /\ c \in CycleIds
       /\ Collects(request.row) => Collects(cycle[c])
       /\ cycle[c].alerted => request.row.alerted
  /\ request.at = "alert" => ~request.row.alerted
  /\ request.at = "saveReversed" =>
       p \in PurchaseIds /\ request.entry = entry[p] /\ entry[p].status = "EARNED"

OneUnderWay == \A r, s \in Requests : req[r] # Idle /\ req[s] # Idle => r = s

OneUnpaid == \A c, d \in Unpaid : c = d

Remembers(request, c) ==
  request.at = "saveCycle" /\ request.cycle = c /\ request.row.alerted

AlertsAreRemembered ==
  \A c \in CycleIds :
    /\ alerts[c] <= 1
    /\ alerts[c] = 1 => cycle[c].alerted \/ \E r \in Requests : Remembers(req[r], c)

SerialFacts ==
  /\ OneUnderWay
  /\ OneUnpaid
  /\ \A r \in Requests : Follows(req[r])
  /\ failures = 0 => AlertsAreRemembered

SerialInvariant == LedgerInvariant /\ (overlaps = 0 => SerialFacts)

LEMMA IdleFollows == Follows(Idle)
BY DEF Follows, Idle

(* The request that is under way goes on, or ends, with rows it follows.   *)
LEMMA GoesOnSerially ==
  ASSUME LedgerInvariant, SerialFacts, NEW r \in Requests, req[r] # Idle,
         NEW next, req' = [req EXCEPT ![r] = next], Follows(next)',
         UNCHANGED alerts, OneUnpaid',
         failures' = 0 =>
           /\ failures = 0
           /\ \A c \in CycleIds : cycle[c].alerted \/ Remembers(req[r], c) => cycle'[c].alerted
  PROVE  SerialFacts'
<1>1. req \in [Requests -> Request] BY DEF LedgerInvariant, TypeOK
<1>2. \A s \in Requests : s # r => req[s] = Idle BY DEF SerialFacts, OneUnderWay
<1>3. \A s \in Requests : req'[s] = IF s = r THEN next ELSE Idle BY <1>1, <1>2
<1>4. OneUnderWay' BY <1>3 DEF OneUnderWay
<1>5. ASSUME NEW s \in Requests PROVE Follows(req[s])'
  <2>1. CASE s = r BY <1>3, <2>1
  <2>2. CASE s # r
    <3>1. req'[s] = Idle BY <1>3, <2>2
    <3> QED BY <3>1 DEF Follows, Idle
  <2> QED BY <2>1, <2>2
<1>6. ASSUME failures' = 0 PROVE AlertsAreRemembered'
  <2>1. \A s \in Requests, c \in CycleIds : Remembers(req[s], c) => s = r
    BY <1>2 DEF Remembers, Idle
  <2>2. ASSUME NEW c \in CycleIds
        PROVE  alerts'[c] <= 1 /\ (alerts'[c] = 1 => cycle'[c].alerted)
    BY <1>6, <2>1 DEF SerialFacts, AlertsAreRemembered
  <2> QED BY <2>2 DEF AlertsAreRemembered
<1> QED BY <1>4, <1>5, <1>6 DEF SerialFacts

(* A request starts with rows it follows.                                  *)
LEMMA StartsSerially ==
  ASSUME LedgerInvariant, SerialFacts, overlaps = 0, overlaps' = 0,
         NEW r \in Requests, NEW next, Starts(r, next), Follows(next)
  PROVE  SerialFacts'
<1>1. req \in [Requests -> Request] BY DEF LedgerInvariant, TypeOK
<1>2. /\ \A s \in Requests : req[s] = Idle
      /\ req' = [req EXCEPT ![r] = next]
      /\ UNCHANGED <<entry, cycle, alerts, failures>>
  BY DEF Starts, Busy, ledger
<1>3. \A s \in Requests : req'[s] = IF s = r THEN next ELSE Idle BY <1>1, <1>2
<1>4. OneUnderWay' BY <1>3 DEF OneUnderWay
<1>5. \A s \in Requests : Follows(req[s])'
  <2>1. Follows(next)' BY <1>2 DEF Follows, Unpaid
  <2>2. Follows(Idle)' BY DEF Follows, Idle
  <2>3. ASSUME NEW s \in Requests PROVE Follows(req[s])'
    <3>1. CASE s = r BY <1>3, <2>1, <3>1
    <3>2. CASE s # r
      <4>1. req'[s] = Idle BY <1>3, <3>2
      <4> QED BY <4>1 DEF Follows, Idle
    <3> QED BY <3>1, <3>2
  <2> QED BY <2>3
<1>6. OneUnpaid' BY <1>2 DEF SerialFacts, OneUnpaid, Unpaid
<1>7. ASSUME failures' = 0 PROVE AlertsAreRemembered'
  <2>1. \A s \in Requests, c \in CycleIds : ~Remembers(req[s], c)
    BY <1>2 DEF Remembers, Idle
  <2>2. ASSUME NEW c \in CycleIds
        PROVE  alerts'[c] <= 1 /\ (alerts'[c] = 1 => cycle'[c].alerted)
    BY <1>2, <1>7, <2>1 DEF SerialFacts, AlertsAreRemembered
  <2> QED BY <2>2 DEF AlertsAreRemembered
<1> QED BY <1>4, <1>5, <1>6, <1>7 DEF SerialFacts

-----------------------------------------------------------------------------
LEMMA RecordReadSerially ==
  ASSUME LedgerInvariant, SerialFacts, overlaps = 0, overlaps' = 0,
         NEW r \in Requests, NEW p \in PurchaseIds, RecordRead(r, p)
  PROVE  SerialFacts'
<1>1. PICK next : next = [Idle EXCEPT
       !.at = "findCycle", !.purchase = p, !.first = qualified = NoPurchase,
       !.entry = [NoEntry EXCEPT !.status = "EARNED", !.amount = Commission(p)],
       !.row.threshold = profile.threshold]
  OBVIOUS
<1>2. next.at = "findCycle" /\ next.entry.status = "EARNED" BY <1>1 DEF Idle, NoEntry
<1>3. Follows(next) BY <1>2 DEF Follows
<1>4. Starts(r, next) BY <1>1 DEF RecordRead
<1> QED BY <1>3, <1>4, StartsSerially

LEMMA ReverseReadSerially ==
  ASSUME LedgerInvariant, SerialFacts, overlaps = 0, overlaps' = 0,
         NEW r \in Requests, NEW p \in PurchaseIds, ReverseRead(r, p)
  PROVE  SerialFacts'
<1>1. PICK next : next = [Idle EXCEPT
       !.at = "saveReversed", !.purchase = p, !.entry = entry[p], !.cycle = entry[p].cycle]
  OBVIOUS
<1>2. next.at = "saveReversed" /\ next.purchase = p /\ next.entry = entry[p] BY <1>1 DEF Idle
<1>3. Follows(next) BY <1>2 DEF Follows, ReverseRead
<1>4. Starts(r, next) BY <1>1 DEF ReverseRead
<1> QED BY <1>3, <1>4, StartsSerially

LEMMA PayReadSerially ==
  ASSUME LedgerInvariant, SerialFacts, overlaps = 0, overlaps' = 0,
         NEW r \in Requests, NEW c \in CycleIds, PayRead(r, c)
  PROVE  SerialFacts'
<1>1. cycle[c] \in Cycle BY DEF LedgerInvariant, TypeOK
<1>2. PICK row : row = [cycle[c] EXCEPT !.status = "PAID"] OBVIOUS
<1>3. PICK next : next = [Idle EXCEPT !.at = "savePaid", !.cycle = c, !.row = row] OBVIOUS
<1>4. row.status = "PAID" /\ row.alerted = cycle[c].alerted BY <1>1, <1>2 DEF Cycle
<1>5. next.at = "savePaid" /\ next.cycle = c /\ next.row = row BY <1>3 DEF Idle
<1>6. Follows(next) BY <1>4, <1>5 DEF Follows, Collects
<1>7. Starts(r, next) BY <1>2, <1>3 DEF PayRead
<1> QED BY <1>6, <1>7, StartsSerially

(* Credits and debits do not forget an alert nor take up a cycle again.    *)
LEMMA CreditedRemembers ==
  ASSUME NEW row \in Cycle, NEW amount \in Nat
  PROVE  /\ Collects(Credited(row, amount)) => Collects(row)
         /\ row.alerted => Credited(row, amount).alerted
<1> DEFINE total == row.amount + amount
           count == row.count + 1
           sum == [row EXCEPT !.amount = total, !.count = count]
<1>1. total \in Nat /\ count \in Nat BY DEF Cycle
<1>2. Credited(row, amount) =
        IF Reached(sum) THEN [sum EXCEPT !.status = IF @ = "OPEN" THEN "READY" ELSE @] ELSE sum
  BY DEF Credited
<1> HIDE DEF total, count
<1>3. sum \in Cycle /\ sum.status = row.status /\ (row.alerted => sum.alerted)
  BY <1>1 DEF Cycle
<1> HIDE DEF sum
<1>4. CASE Reached(sum)
  <2>1. Credited(row, amount) = [sum EXCEPT !.status = IF @ = "OPEN" THEN "READY" ELSE @]
    BY <1>2, <1>4
  <2> QED BY <1>3, <2>1 DEF Collects, Cycle
<1>5. CASE ~Reached(sum) BY <1>2, <1>3, <1>5 DEF Collects
<1> QED BY <1>4, <1>5

LEMMA DebitedRemembers ==
  ASSUME NEW row \in Cycle, NEW amount \in Nat
  PROVE  /\ Collects(Debited(row, amount)) => Collects(row)
         /\ row.alerted => Debited(row, amount).alerted
<1> DEFINE total == IF row.amount > amount THEN row.amount - amount ELSE 0
           count == IF row.count > 0 THEN row.count - 1 ELSE 0
           rest == [row EXCEPT !.amount = total, !.count = count]
<1>1. total \in Nat /\ count \in Nat BY DEF Cycle
<1>2. Debited(row, amount) =
        IF row.status = "READY" /\ ~Reached(rest) THEN [rest EXCEPT !.status = "OPEN"] ELSE rest
  BY DEF Debited
<1> HIDE DEF total, count
<1>3. rest \in Cycle /\ rest.status = row.status /\ (row.alerted => rest.alerted)
  BY <1>1 DEF Cycle
<1> HIDE DEF rest
<1>4. CASE row.status = "READY" /\ ~Reached(rest)
  <2>1. Debited(row, amount) = [rest EXCEPT !.status = "OPEN"] BY <1>2, <1>4
  <2> QED BY <1>3, <1>4, <2>1 DEF Collects, Cycle
<1>5. CASE ~(row.status = "READY" /\ ~Reached(rest)) BY <1>2, <1>3, <1>5 DEF Collects
<1> QED BY <1>4, <1>5

(* The request that is under way saves neither a cycle nor an alert.       *)
LEMMA ReadsSerially ==
  ASSUME LedgerInvariant, SerialFacts, NEW r \in Requests, req[r] # Idle,
         NEW next, req' = [req EXCEPT ![r] = next], Follows(next)',
         UNCHANGED <<cycle, alerts, failures>>, req[r].at # "saveCycle"
  PROVE  SerialFacts'
<1>1. OneUnpaid' BY DEF SerialFacts, OneUnpaid, Unpaid
<1>2. \A c \in CycleIds : cycle[c].alerted \/ Remembers(req[r], c) => cycle'[c].alerted
  BY DEF Remembers
<1> QED BY <1>1, <1>2, GoesOnSerially

(* recordCommission goes on.                                               *)
LEMMA CycleFindSerially ==
  ASSUME LedgerInvariant, SerialFacts, NEW r \in Requests, CycleFind(r)
  PROVE  SerialFacts'
<1>1. /\ req[r] \in Request /\ req[r].at = "findCycle" /\ req[r] # Idle
      /\ req[r].entry.status = "EARNED"
      /\ UNCHANGED <<entry, cycle, alerts, failures>>
  <2>1. req[r].at = "findCycle" /\ UNCHANGED <<entry, cycle, alerts, failures>>
    BY DEF CycleFind, At, ledger
  <2>2. req[r] \in Request /\ Follows(req[r]) BY DEF LedgerInvariant, TypeOK, SerialFacts
  <2>3. req[r] # Idle BY <2>1 DEF Idle
  <2> QED BY <2>1, <2>2, <2>3 DEF Follows
<1>2. CASE \E c \in Unpaid : req' = [req EXCEPT
             ![r].at = "saveEntry", ![r].cycle = c, ![r].row = cycle[c]]
  <2>1. PICK c \in Unpaid : req' = [req EXCEPT
          ![r].at = "saveEntry", ![r].cycle = c, ![r].row = cycle[c]]
    BY <1>2
  <2>2. PICK next : next = [req[r] EXCEPT !.at = "saveEntry", !.cycle = c, !.row = cycle[c]]
    OBVIOUS
  <2>3. /\ next.at = "saveEntry" /\ next.cycle = c /\ next.row = cycle[c]
        /\ next.entry.status = "EARNED"
    BY <1>1, <2>2 DEF Request
  <2>4. c \in CycleIds BY DEF Unpaid
  <2>5. Follows(next)' BY <1>1, <2>3, <2>4 DEF Follows
  <2>6. req' = [req EXCEPT ![r] = next] BY <2>1, <2>2
  <2> QED BY <1>1, <2>5, <2>6, ReadsSerially
<1>3. CASE Unpaid = {} /\ req' = [req EXCEPT ![r].at = "createCycle"]
  <2>1. PICK next : next = [req[r] EXCEPT !.at = "createCycle"] OBVIOUS
  <2>2. next.at = "createCycle" /\ next.entry.status = "EARNED" BY <1>1, <2>1 DEF Request
  <2>3. Unpaid' = {} BY <1>1, <1>3 DEF Unpaid
  <2>4. Follows(next)' BY <2>2, <2>3 DEF Follows
  <2>5. req' = [req EXCEPT ![r] = next] BY <1>3, <2>1
  <2> QED BY <1>1, <2>4, <2>5, ReadsSerially
<1> QED BY <1>2, <1>3 DEF CycleFind

LEMMA CycleCreateSerially ==
  ASSUME LedgerInvariant, SerialFacts, NEW r \in Requests, NEW c \in CycleIds, CycleCreate(r, c)
  PROVE  SerialFacts'
<1>1. PICK row : row = [req[r].row EXCEPT !.status = "OPEN"] OBVIOUS
<1>2. PICK next : next = [req[r] EXCEPT !.at = "saveEntry", !.cycle = c, !.row = row] OBVIOUS
<1>3. /\ req[r] \in Request /\ req[r].at = "createCycle" /\ req[r] # Idle
      /\ req[r].entry.status = "EARNED" /\ Unpaid = {} /\ cycle[c] = NoRow
      /\ cycle \in [CycleIds -> Cycle]
  BY DEF LedgerInvariant, TypeOK, CycleCreate, At, Idle, SerialFacts, Follows
<1>4. /\ cycle' = [cycle EXCEPT ![c] = row]
      /\ req' = [req EXCEPT ![r] = next]
      /\ UNCHANGED <<entry, alerts, failures>>
  BY <1>1, <1>2 DEF CycleCreate
<1>5. \A d \in CycleIds : cycle'[d] = IF d = c THEN row ELSE cycle[d] BY <1>3, <1>4
<1>6. /\ next.at = "saveEntry" /\ next.cycle = c /\ next.row = row
      /\ next.entry.status = "EARNED"
  BY <1>2, <1>3 DEF Request
<1>7. Follows(next)' BY <1>5, <1>6 DEF Follows
<1>8. OneUnpaid' BY <1>3, <1>5 DEF OneUnpaid, Unpaid
<1>9. \A d \in CycleIds : cycle[d].alerted \/ Remembers(req[r], d) => cycle'[d].alerted
  BY <1>3, <1>5 DEF NoRow, Remembers
<1> QED BY <1>3, <1>4, <1>7, <1>8, <1>9, GoesOnSerially

LEMMA EntrySaveSerially ==
  ASSUME LedgerInvariant, SerialFacts, NEW r \in Requests, EntrySave(r)
  PROVE  SerialFacts'
<1>1. PICK row : row = Credited(req[r].row, req[r].entry.amount) OBVIOUS
<1>2. PICK place : place = IF req[r].first THEN "qualify" ELSE Afterwards(row) OBVIOUS
<1>3. PICK next : next = [req[r] EXCEPT !.row = row, !.at = place] OBVIOUS
<1>4. PICK c : c = req[r].cycle OBVIOUS
<1>5. /\ req[r] \in Request /\ req[r].at = "saveEntry" /\ req[r] # Idle
      /\ c \in CycleIds /\ cycle[c] \in Cycle /\ req[r].row = cycle[c]
  BY <1>4 DEF LedgerInvariant, TypeOK, EntrySave, At, Idle, SerialFacts, Follows, Sound
<1>6. req' = [req EXCEPT ![r] = next] /\ UNCHANGED <<cycle, alerts, failures>>
  BY <1>1, <1>2, <1>3 DEF EntrySave
<1>7. place \in {"qualify", "alert", "saveCycle"} /\ (place = "alert" => ~row.alerted)
  BY <1>2 DEF Afterwards
<1>8. (Collects(row) => Collects(cycle[c])) /\ (cycle[c].alerted => row.alerted)
  <2>1. req[r].entry.amount \in Nat BY <1>5 DEF Request, Entry
  <2> QED BY <1>1, <1>5, <2>1, CreditedRemembers
<1>9. next.at = place /\ next.cycle = c /\ next.row = row BY <1>3, <1>4, <1>5 DEF Request
<1>10. Follows(next)' BY <1>5, <1>6, <1>7, <1>8, <1>9 DEF Follows, Collects
<1> QED BY <1>5, <1>6, <1>10, ReadsSerially

LEMMA QualifySerially ==
  ASSUME LedgerInvariant, SerialFacts, NEW r \in Requests, Qualify(r)
  PROVE  SerialFacts'
<1>1. PICK place : place = Afterwards(req[r].row) OBVIOUS
<1>2. PICK next : next = [req[r] EXCEPT !.at = place] OBVIOUS
<1>3. /\ req[r] \in Request /\ req[r].at = "qualify" /\ req[r] # Idle /\ Follows(req[r])
      /\ req' = [req EXCEPT ![r] = next]
      /\ UNCHANGED <<entry, cycle, alerts, failures>>
  BY <1>1, <1>2 DEF LedgerInvariant, TypeOK, Qualify, At, Idle, SerialFacts
<1>4. place \in {"alert", "saveCycle"} /\ (place = "alert" => ~req[r].row.alerted)
  BY <1>1 DEF Afterwards
<1>5. next.at = place /\ next.cycle = req[r].cycle /\ next.row = req[r].row
  BY <1>2, <1>3 DEF Request
<1>6. Follows(next) BY <1>3, <1>4, <1>5 DEF Follows
<1>7. Follows(next)' BY <1>3, <1>6 DEF Follows, Collects, Unpaid
<1> QED BY <1>3, <1>7, ReadsSerially

LEMMA AlertAdminsSerially ==
  ASSUME LedgerInvariant, SerialFacts, NEW r \in Requests, AlertAdmins(r)
  PROVE  SerialFacts'
<1>1. PICK row : row = [req[r].row EXCEPT !.alerted = TRUE] OBVIOUS
<1>2. PICK next : next = [req[r] EXCEPT !.at = "saveCycle", !.row = row] OBVIOUS
<1>3. PICK c : c = req[r].cycle OBVIOUS
<1>4. /\ req \in [Requests -> Request] /\ req[r] \in Request /\ req[r].row \in Cycle
      /\ cycle \in [CycleIds -> Cycle] /\ alerts \in [CycleIds -> Nat]
  BY DEF LedgerInvariant, TypeOK, Request
<1>5. req[r].at = "alert" /\ req[r] # Idle BY DEF AlertAdmins, At, Idle
<1>6. /\ c \in CycleIds /\ ~cycle[c].alerted
      /\ Collects(req[r].row) => Collects(cycle[c])
  <2>1. Follows(req[r]) BY DEF SerialFacts
  <2> QED BY <1>3, <1>5, <2>1 DEF Follows
<1>7. /\ alerts' = [alerts EXCEPT ![c] = alerts[c] + 1]
      /\ req' = [req EXCEPT ![r] = next]
      /\ UNCHANGED <<entry, cycle, failures>>
  BY <1>1, <1>2, <1>3, <1>4 DEF AlertAdmins, Request
<1>8. row.alerted /\ row.status = req[r].row.status BY <1>1, <1>4 DEF Cycle
<1>9. next.at = "saveCycle" /\ next.cycle = c /\ next.row = row BY <1>2, <1>3, <1>4 DEF Request
<1>10. Follows(next)' BY <1>6, <1>7, <1>8, <1>9 DEF Follows, Collects
<1>11. \A s \in Requests : s # r => req[s] = Idle BY <1>5 DEF SerialFacts, OneUnderWay
<1>12. \A s \in Requests : req'[s] = IF s = r THEN next ELSE Idle BY <1>4, <1>7, <1>11
<1>13. OneUnderWay' BY <1>12 DEF OneUnderWay
<1>14. OneUnpaid' BY <1>7 DEF SerialFacts, OneUnpaid, Unpaid
<1>15. ASSUME NEW s \in Requests PROVE Follows(req[s])'
  <2>1. CASE s = r BY <1>10, <1>12, <2>1
  <2>2. CASE s # r
    <3>1. req'[s] = Idle BY <1>12, <2>2
    <3> QED BY <3>1 DEF Follows, Idle
  <2> QED BY <2>1, <2>2
<1>16. ASSUME failures' = 0 PROVE AlertsAreRemembered'
  <2>1. \A s \in Requests, d \in CycleIds : ~Remembers(req[s], d)
    BY <1>5, <1>11 DEF Remembers, Idle
  <2>2. \A d \in CycleIds : alerts[d] <= 1 /\ (alerts[d] = 1 => cycle[d].alerted)
    BY <1>7, <1>16, <2>1 DEF SerialFacts, AlertsAreRemembered
  <2>3. Remembers(req[r], c)' BY <1>8, <1>9, <1>12 DEF Remembers
  <2>4. \A d \in CycleIds : alerts'[d] = IF d = c THEN alerts[d] + 1 ELSE alerts[d] BY <1>4, <1>7
  <2>5. ASSUME NEW d \in CycleIds
        PROVE  /\ alerts'[d] <= 1
               /\ alerts'[d] = 1 => cycle'[d].alerted \/ \E s \in Requests : Remembers(req[s], d)'
    <3>1. CASE d = c
      <4>1. alerts[c] \in Nat BY <1>4, <1>6
      <4>2. alerts[c] = 0 BY <1>6, <2>2, <4>1
      <4> QED BY <2>3, <2>4, <3>1, <4>2
    <3>2. CASE d # c BY <1>7, <2>2, <2>4, <3>2
    <3> QED BY <3>1, <3>2
  <2> QED BY <2>5 DEF AlertsAreRemembered
<1> QED BY <1>13, <1>14, <1>15, <1>16 DEF SerialFacts

(* A row is saved that collects only if the cycle did and that remembers.  *)
LEMMA SavesSerially ==
  ASSUME LedgerInvariant, SerialFacts, NEW r \in Requests,
         req[r].at \in {"saveCycle", "savePaid"},
         NEW next, req' = [req EXCEPT ![r] = next], Follows(next)',
         cycle' = [cycle EXCEPT ![req[r].cycle] = req[r].row],
         UNCHANGED <<alerts, failures>>
  PROVE  SerialFacts'
<1>1. PICK c : c = req[r].cycle OBVIOUS
<1>2. Follows(req[r]) BY DEF SerialFacts
<1>3. /\ c \in CycleIds
      /\ Collects(req[r].row) => Collects(cycle[c])
      /\ cycle[c].alerted => req[r].row.alerted
  BY <1>1, <1>2 DEF Follows
<1>4. \A d \in CycleIds : cycle'[d] = IF d = c THEN req[r].row ELSE cycle[d]
  BY <1>1 DEF LedgerInvariant, TypeOK
<1>5. Unpaid' \subseteq Unpaid BY <1>3, <1>4 DEF Unpaid, Collects
<1>6. OneUnpaid' BY <1>5 DEF SerialFacts, OneUnpaid
<1>7. \A d \in CycleIds : cycle[d].alerted \/ Remembers(req[r], d) => cycle'[d].alerted
  BY <1>1, <1>3, <1>4 DEF Remembers
<1>8. req[r] # Idle BY DEF Idle
<1> QED BY <1>6, <1>7, <1>8, GoesOnSerially

LEMMA CycleSaveSerially ==
  ASSUME LedgerInvariant, SerialFacts, NEW r \in Requests, CycleSave(r)
  PROVE  SerialFacts'
<1>1. PICK next : next = Idle OBVIOUS
<1>2. /\ req[r].at = "saveCycle"
      /\ req' = [req EXCEPT ![r] = next]
      /\ cycle' = [cycle EXCEPT ![req[r].cycle] = req[r].row]
      /\ UNCHANGED <<alerts, failures>>
  BY <1>1 DEF CycleSave, At, Finish
<1>3. Follows(next)' BY <1>1 DEF Follows, Idle
<1> QED BY <1>2, <1>3, SavesSerially

LEMMA PaySaveSerially ==
  ASSUME LedgerInvariant, SerialFacts, NEW r \in Requests, PaySave(r)
  PROVE  SerialFacts'
<1>1. PICK next : next = [req[r] EXCEPT !.at = "settle"] OBVIOUS
<1>2. /\ req[r].at = "savePaid"
      /\ req' = [req EXCEPT ![r] = next]
      /\ cycle' = [cycle EXCEPT ![req[r].cycle] = req[r].row]
      /\ UNCHANGED <<alerts, failures>>
  BY <1>1 DEF PaySave, At
<1>3. next.at = "settle" BY <1>1 DEF LedgerInvariant, TypeOK, Request
<1>4. Follows(next)' BY <1>3 DEF Follows
<1> QED BY <1>2, <1>4, SavesSerially

(* reverseCommission and markPaid go on.                                   *)
LEMMA ReverseSaveSerially ==
  ASSUME LedgerInvariant, SerialFacts, NEW r \in Requests, ReverseSave(r)
  PROVE  SerialFacts'
<1>1. PICK next : next = [req[r] EXCEPT !.at = "debit"] OBVIOUS
<1>2. /\ req[r].at = "saveReversed" /\ req[r] # Idle
      /\ req' = [req EXCEPT ![r] = next]
      /\ UNCHANGED <<cycle, alerts, failures>>
  BY <1>1 DEF ReverseSave, At, Idle
<1>3. next.at = "debit" BY <1>1 DEF LedgerInvariant, TypeOK, Request
<1>4. Follows(next)' BY <1>3 DEF Follows
<1> QED BY <1>2, <1>4, ReadsSerially

(* A request ends and saves no cycle.                                      *)
LEMMA EndsSerially ==
  ASSUME LedgerInvariant, SerialFacts, NEW r \in Requests, Finish(r),
         req[r].at \notin {"idle", "saveCycle"}, UNCHANGED <<cycle, alerts, failures>>
  PROVE  SerialFacts'
<1>1. PICK next : next = Idle OBVIOUS
<1>2. req[r] # Idle /\ req' = [req EXCEPT ![r] = next] BY <1>1 DEF Finish, Idle
<1>3. Follows(next)' BY <1>1 DEF Follows, Idle
<1> QED BY <1>2, <1>3, ReadsSerially

LEMMA ReverseDebitSerially ==
  ASSUME LedgerInvariant, SerialFacts, NEW r \in Requests, ReverseDebit(r)
  PROVE  SerialFacts'
<1>1. PICK c : c = req[r].cycle OBVIOUS
<1>2. PICK row : row = Debited(cycle[c], req[r].entry.amount) OBVIOUS
<1>3. PICK next : next = [req[r] EXCEPT !.at = "saveCycle", !.row = row] OBVIOUS
<1>4. /\ req[r] \in Request /\ req[r].at = "debit" /\ req[r] # Idle
      /\ UNCHANGED <<entry, cycle, alerts, failures>>
  BY DEF LedgerInvariant, TypeOK, ReverseDebit, At, ledger, Idle
<1>5. CASE cycle[c].status = "PAID"
  <2>1. Finish(r) BY <1>1, <1>5 DEF ReverseDebit
  <2> QED BY <1>4, <2>1, EndsSerially
<1>6. CASE cycle[c].status # "PAID"
  <2>1. Sound(req[r]) BY DEF LedgerInvariant
  <2>2. c \in CycleIds /\ req[r].entry.amount \in Nat
    BY <1>1, <1>4, <2>1 DEF Sound, Request, Entry
  <2>3. cycle[c] \in Cycle BY <2>2 DEF LedgerInvariant, TypeOK
  <2>4. (Collects(row) => Collects(cycle[c])) /\ (cycle[c].alerted => row.alerted)
    BY <1>2, <2>2, <2>3, DebitedRemembers
  <2>5. req' = [req EXCEPT ![r] = next] BY <1>1, <1>2, <1>3, <1>6 DEF ReverseDebit
  <2>6. next.at = "saveCycle" /\ next.cycle = c /\ next.row = row
    BY <1>1, <1>3, <1>4 DEF Request
  <2>7. Follows(next)' BY <1>4, <2>2, <2>4, <2>6 DEF Follows, Collects
  <2> QED BY <1>4, <2>5, <2>7, ReadsSerially
<1> QED BY <1>5, <1>6

LEMMA EndingsSerially ==
  ASSUME LedgerInvariant, SerialFacts, NEW r \in Requests, EntryRefused(r) \/ PaySettle(r)
  PROVE  SerialFacts'
BY EndsSerially DEF EntryRefused, PaySettle, At, ledger

LEMMA FailSerially ==
  ASSUME LedgerInvariant, SerialFacts, NEW r \in Requests, Fail(r)
  PROVE  SerialFacts'
<1>1. PICK next : next = Idle OBVIOUS
<1>2. /\ req[r] # Idle /\ req' = [req EXCEPT ![r] = next]
      /\ UNCHANGED <<cycle, alerts>>
      /\ failures' # 0
  BY <1>1 DEF Fail, Finish, ledger, LedgerInvariant, TypeOK
<1>3. Follows(next)' BY <1>1 DEF Follows, Idle
<1>4. OneUnpaid' BY <1>2 DEF SerialFacts, OneUnpaid, Unpaid
<1> QED BY <1>2, <1>3, <1>4, GoesOnSerially

LEMMA ElsewhereSerially ==
  ASSUME SerialFacts, UNCHANGED <<entry, cycle, alerts, req, failures>>
  PROVE  SerialFacts'
<1>1. OneUnderWay' BY DEF SerialFacts, OneUnderWay
<1>2. OneUnpaid' BY DEF SerialFacts, OneUnpaid, Unpaid
<1>3. \A r \in Requests : Follows(req[r])' BY DEF SerialFacts, Follows, Collects, Unpaid
<1>4. failures' = 0 => AlertsAreRemembered' BY DEF SerialFacts, AlertsAreRemembered, Remembers
<1> QED BY <1>1, <1>2, <1>3, <1>4 DEF SerialFacts

LEMMA InitialSerial == Init => SerialInvariant
<1> SUFFICES ASSUME Init PROVE SerialInvariant OBVIOUS
<1>1. OneUnderWay BY DEF Init, OneUnderWay
<1>2. OneUnpaid BY DEF Init, OneUnpaid, Unpaid, NoRow
<1>3. \A r \in Requests : Follows(req[r]) BY IdleFollows DEF Init
<1>4. AlertsAreRemembered BY DEF Init, AlertsAreRemembered
<1> QED BY <1>1, <1>2, <1>3, <1>4, InitialLedger DEF SerialInvariant, SerialFacts

(* Requests that have overlapped never count as serial again.              *)
LEMMA OverlapsStay ==
  ASSUME LedgerInvariant, [Next]_vars, overlaps' = 0
  PROVE  overlaps = 0
<1>1. overlaps \in Nat BY BoundAssumption DEF LedgerInvariant, TypeOK
<1>2. overlaps' = overlaps \/ overlaps' = overlaps + 1
  BY DEF Next, HandlerStep, vars, RecordRead, ReverseRead, PayRead, Starts, Fail, CycleFind,
         CycleCreate, EntrySave, EntryRefused, Qualify, AlertAdmins, CycleSave, ReverseSave,
         ReverseDebit, PaySave, PaySettle, UpsertPartner, PurchasePaid, PurchaseRefunded
<1> QED BY <1>1, <1>2

LEMMA StepsKeepSerial == SerialInvariant /\ [Next]_vars => SerialInvariant'
<1> SUFFICES ASSUME SerialInvariant, [Next]_vars, overlaps' = 0 PROVE SerialFacts'
  BY StepsKeepLedger DEF SerialInvariant
<1>1. LedgerInvariant /\ SerialFacts /\ overlaps = 0 BY OverlapsStay DEF SerialInvariant
<1>2. CASE \E r \in Requests, p \in PurchaseIds : RecordRead(r, p)
  BY <1>1, <1>2, RecordReadSerially
<1>3. CASE \E r \in Requests, p \in PurchaseIds : ReverseRead(r, p)
  BY <1>1, <1>3, ReverseReadSerially
<1>4. CASE \E r \in Requests, c \in CycleIds : PayRead(r, c)
  BY <1>1, <1>4, PayReadSerially
<1>5. CASE \E r \in Requests : HandlerStep(r)
  BY <1>1, <1>5, CycleFindSerially, CycleCreateSerially, EntrySaveSerially, QualifySerially,
     AlertAdminsSerially, CycleSaveSerially, ReverseSaveSerially, ReverseDebitSerially,
     PaySaveSerially, EndingsSerially
     DEF HandlerStep
<1>6. CASE \E r \in Requests : Fail(r) BY <1>1, <1>6, FailSerially
<1>7. CASE \/ \E terms \in Profiles : UpsertPartner(terms)
           \/ \E p \in PurchaseIds : PurchasePaid(p)
           \/ \E p \in PurchaseIds : PurchaseRefunded(p)
           \/ UNCHANGED vars
  BY <1>1, <1>7, ElsewhereSerially
     DEF UpsertPartner, PurchasePaid, PurchaseRefunded, vars, ledger
<1> QED BY <1>2, <1>3, <1>4, <1>5, <1>6, <1>7 DEF Next

LEMMA SerialAlways == Spec => []SerialInvariant
BY InitialSerial, StepsKeepSerial, PTL DEF Spec

(* One cycle at a time collects commissions as long as no two handlers     *)
(* overlap, also when some fail half way; and until one fails, the         *)
(* superadmins are alerted of each cycle at most once.                     *)
THEOREM CyclesAlwaysOpenAndAlertOnce == Spec => []CyclesOpenAndAlertOnce
<1>1. ASSUME SerialInvariant, overlaps = 0 PROVE Cardinality(Unpaid) <= 1
  <2>1. \A c, d \in Unpaid : c = d BY <1>1 DEF SerialInvariant, SerialFacts, OneUnpaid
  <2>2. CASE Unpaid = {} BY <2>2, FS_EmptySet
  <2>3. CASE \E c : Unpaid = {c}
    <3>1. PICK c : Unpaid = {c} BY <2>3
    <3>2. Cardinality({c}) = 1 BY FS_Singleton
    <3> QED BY <3>1, <3>2
  <2>4. Unpaid = {} \/ \E c : Unpaid = {c}
    <3>1. SUFFICES ASSUME Unpaid # {} PROVE \E c : Unpaid = {c} OBVIOUS
    <3>2. PICK c \in Unpaid : TRUE BY <3>1
    <3> QED BY <2>1, <3>2
  <2> QED BY <2>2, <2>3, <2>4
<1>2. SerialInvariant => AlertedOnce
  BY DEF SerialInvariant, SerialFacts, AlertsAreRemembered, AlertedOnce
<1>3. SerialInvariant => CyclesOpenAndAlertOnce
  BY <1>1, <1>2 DEF CyclesOpenAndAlertOnce, OneOpenCycle
<1> QED BY <1>3, SerialAlways, PTL

-----------------------------------------------------------------------------
LEMMA EntryMovesForward ==
  ASSUME SerialInvariant, [Next]_vars, NEW p \in PurchaseIds,
         overlaps' = 0, entry'[p] # entry[p]
  PROVE  \/ entry[p].status = "NONE" /\ entry'[p].status = "EARNED"
         \/ /\ entry[p].status = "EARNED"
            /\ entry'[p].status \in {"PAID", "REVERSED"}
            /\ entry'[p].amount = entry[p].amount
            /\ entry'[p].cycle = entry[p].cycle
<1>1. /\ LedgerInvariant /\ SerialFacts
      /\ entry \in [PurchaseIds -> Entry] /\ entry[p] \in Entry
  BY OverlapsStay DEF SerialInvariant, LedgerInvariant, TypeOK
<1>2. ASSUME NEW r \in Requests, EntrySave(r)
      PROVE  entry[p].status = "NONE" /\ entry'[p].status = "EARNED"
  <2>1. PICK saved : saved = [req[r].entry EXCEPT !.cycle = req[r].cycle] OBVIOUS
  <2>2. entry' = [entry EXCEPT ![req[r].purchase] = saved] /\ entry[req[r].purchase] = NoEntry
    BY <1>2, <2>1 DEF EntrySave
  <2>3. req[r].entry \in Entry /\ req[r].entry.status = "EARNED"
    BY <1>1, <1>2 DEF EntrySave, At, SerialFacts, Follows, LedgerInvariant, TypeOK, Request
  <2>4. saved.status = "EARNED" BY <2>1, <2>3 DEF Entry
  <2> QED BY <1>1, <2>2, <2>4 DEF NoEntry
<1>3. ASSUME NEW r \in Requests, ReverseSave(r)
      PROVE  /\ entry[p].status = "EARNED" /\ entry'[p].status = "REVERSED"
             /\ entry'[p].amount = entry[p].amount /\ entry'[p].cycle = entry[p].cycle
  <2>1. PICK saved : saved = [req[r].entry EXCEPT !.status = "REVERSED"] OBVIOUS
  <2>2. entry' = [entry EXCEPT ![req[r].purchase] = saved] BY <1>3, <2>1 DEF ReverseSave
  <2>3. p = req[r].purchase BY <1>1, <2>2
  <2>4. req[r].entry = entry[p] /\ entry[p].status = "EARNED"
    BY <1>1, <1>3, <2>3 DEF ReverseSave, At, SerialFacts, Follows
  <2>5. saved = [entry[p] EXCEPT !.status = "REVERSED"] BY <2>1, <2>4
  <2> QED BY <1>1, <2>2, <2>3, <2>4, <2>5 DEF Entry
<1>4. ASSUME NEW r \in Requests, PaySettle(r)
      PROVE  /\ entry[p].status = "EARNED" /\ entry'[p].status = "PAID"
             /\ entry'[p].amount = entry[p].amount /\ entry'[p].cycle = entry[p].cycle
  BY <1>1, <1>4 DEF PaySettle, SettledBy, Entry
<1>5. \/ UNCHANGED entry
      \/ \E r \in Requests : EntrySave(r) \/ ReverseSave(r) \/ PaySettle(r)
  BY DEF Next, HandlerStep, vars, ledger, RecordRead, ReverseRead, PayRead, Starts, Fail,
         CycleFind, CycleCreate, EntryRefused, Qualify, AlertAdmins, CycleSave, ReverseDebit,
         PaySave, UpsertPartner, PurchasePaid, PurchaseRefunded
<1> QED BY <1>2, <1>3, <1>4, <1>5

(* As long as no two handlers overlap, and whatever fails, an entry is     *)
(* earned once and then paid or reversed, with its amount and its cycle.   *)
THEOREM TheLedgerMovesForward == Spec => LedgerMovesForward
<1>1. SerialInvariant /\ [Next]_vars =>
        [\A p \in PurchaseIds : overlaps' = 0 /\ entry'[p] # entry[p] =>
           \/ entry[p].status = "NONE" /\ entry'[p].status = "EARNED"
           \/ /\ entry[p].status = "EARNED"
              /\ entry'[p].status \in {"PAID", "REVERSED"}
              /\ entry'[p].amount = entry[p].amount
              /\ entry'[p].cycle = entry[p].cycle]_vars
  BY EntryMovesForward
<1> QED BY <1>1, SerialAlways, PTL DEF Spec, LedgerMovesForward

-----------------------------------------------------------------------------
(* Sums of natural numbers over finite sets.                               *)

(* Induction over the naturals, with a set in place of a predicate: a least *)
(* element of what is missing from the set would be the successor of one   *)
(* that is in it.                                                          *)
LEMMA InductionOnSets ==
  ASSUME NEW S, 0 \in S, \A n \in Nat : n \in S => n + 1 \in S
  PROVE  Nat \subseteq S
<1> SUFFICES ASSUME Nat \ S # {} PROVE FALSE
  OBVIOUS
<1> DEFINE R == OpToRel(<, Nat)
<1>1. IsWellFoundedOn(R, Nat) BY NatLessThanWellFounded
<1>2. \A m, n \in Nat : m < n => <<m, n>> \in R BY DEF OpToRel
<1> HIDE DEF R
<1>3. PICK n \in Nat \ S : \A m \in Nat \ S : <<m, n>> \notin R
  <2>1. Nat \ S \subseteq Nat OBVIOUS
  <2> QED BY <1>1, <2>1, WFMin
<1>4. n # 0 /\ n \in Nat BY <1>3
<1>5. n - 1 \in Nat /\ n - 1 < n /\ (n - 1) + 1 = n BY <1>4
<1>6. n - 1 \in S BY <1>2, <1>3, <1>5
<1> QED BY <1>3, <1>5, <1>6

(* What MapThenSumSet adds up: it takes any element of a set, and adds     *)
(* what it stands for to the sum of the rest.                              *)
Any(s) == CHOOSE x \in s : TRUE
Sum(f, S) == MapThenSumSet(LAMBDA x : f[x], S)
AddsUp(g, f, D) == g = [s \in D |-> IF s = {} THEN 0 ELSE f[Any(s)] + g[s \ {Any(s)}]]

(* The sum of a set is what a function of its subsets that adds up says.   *)
LEMMA SumIs == \A f, S : Sum(f, S) = (CHOOSE g : AddsUp(g, f, SUBSET S))[S]
BY DEF Sum, MapThenSumSet, MapThenFoldSet, AddsUp, Any

(* What is left of a set without one element.                              *)
LEMMA Smaller ==
  ASSUME NEW s, s # {}, IsFiniteSet(s)
  PROVE  /\ Any(s) \in s /\ IsFiniteSet(s \ {Any(s)})
         /\ Cardinality(s) \in Nat /\ Cardinality(s) # 0
         /\ Cardinality(s \ {Any(s)}) = Cardinality(s) - 1
<1>1. Any(s) \in s BY DEF Any
<1> QED BY <1>1, FS_RemoveElement, FS_CardinalityType, FS_EmptySet

(* A set of n + 1 elements is one element and n others.                    *)
LEMMA Successor ==
  ASSUME NEW n \in Nat, NEW s, IsFiniteSet(s), Cardinality(s) = n + 1
  PROVE  s # {} /\ Any(s) \in s /\ Cardinality(s \ {Any(s)}) = n
<1>1. s # {}
  <2> SUFFICES ASSUME s = {} PROVE FALSE OBVIOUS
  <2>1. n + 1 = 0 BY FS_EmptySet
  <2> QED BY <2>1
<1>2. Any(s) \in s /\ Cardinality(s \ {Any(s)}) = (n + 1) - 1 BY <1>1, Smaller
<1> QED BY <1>1, <1>2

(* The subsets of at most n elements.                                     *)
Small(S, n) == {s \in SUBSET S : Cardinality(s) <= n}

(* Such a function there is: it is extended from the subsets of n elements *)
(* to those of n + 1.                                                      *)
LEMMA AddingExists ==
  ASSUME NEW f, NEW S, IsFiniteSet(S)
  PROVE  \E g : AddsUp(g, f, SUBSET S)
<1> DEFINE N == {n \in Nat : \E g : AddsUp(g, f, Small(S, n))}
<1>1. \A s \in SUBSET S :
        IsFiniteSet(s) /\ Cardinality(s) \in Nat /\ Cardinality(s) <= Cardinality(S)
  BY FS_Subset, FS_CardinalityType
<1>2. 0 \in N
  <2>1. PICK g : g = [s \in Small(S, 0) |-> 0] OBVIOUS
  <2>2. \A s \in Small(S, 0) : s = {} BY <1>1, FS_EmptySet DEF Small
  <2>3. AddsUp(g, f, Small(S, 0)) BY <2>1, <2>2 DEF AddsUp
  <2> QED BY <2>3
<1>3. ASSUME NEW n \in Nat, n \in N PROVE n + 1 \in N
  <2>1. PICK g : AddsUp(g, f, Small(S, n)) BY <1>3
  <2> DEFINE Step(s) == IF s = {} THEN 0 ELSE f[Any(s)] + g[s \ {Any(s)}]
  <2>2. PICK h : h = [s \in Small(S, n + 1) |-> Step(s)] OBVIOUS
  <2>3. \A s \in Small(S, n) : s \in Small(S, n + 1) /\ h[s] = g[s]
    <3>1. \A s \in Small(S, n) : s \in Small(S, n + 1) BY <1>1 DEF Small
    <3> QED BY <2>1, <2>2, <3>1 DEF AddsUp
  <2>4. ASSUME NEW s \in Small(S, n + 1), s # {} PROVE s \ {Any(s)} \in Small(S, n)
    BY <1>1, <2>4, Smaller DEF Small
  <2>5. \A s \in Small(S, n + 1) : h[s] = IF s = {} THEN 0 ELSE f[Any(s)] + h[s \ {Any(s)}]
    BY <2>2, <2>3, <2>4
  <2>6. AddsUp(h, f, Small(S, n + 1)) BY <2>2, <2>5 DEF AddsUp
  <2> QED BY <2>6
<1> HIDE DEF N
<1>4. Cardinality(S) \in N BY <1>1, <1>2, <1>3, InductionOnSets, FS_CardinalityType
<1>5. Small(S, Cardinality(S)) = SUBSET S BY <1>1 DEF Small
<1> QED BY <1>4, <1>5 DEF N

(* Two of them agree on every set they both add up.                        *)
LEMMA AddingIsUnique ==
  \A f, S, T, g, h :
    IsFiniteSet(S) /\ T \subseteq S /\ AddsUp(g, f, SUBSET S) /\ AddsUp(h, f, SUBSET T)
      => g[T] = h[T]
<1> SUFFICES ASSUME NEW f, NEW S, NEW T, NEW g, NEW h, IsFiniteSet(S), T \subseteq S,
                    AddsUp(g, f, SUBSET S), AddsUp(h, f, SUBSET T)
             PROVE  g[T] = h[T]
  OBVIOUS
<1> DEFINE N == {n \in Nat : \A s \in SUBSET T : Cardinality(s) = n => g[s] = h[s]}
<1>1. \A s \in SUBSET T : IsFiniteSet(s) /\ Cardinality(s) \in Nat
  BY FS_Subset, FS_CardinalityType
<1>2. \A s \in SUBSET T : /\ g[s] = IF s = {} THEN 0 ELSE f[Any(s)] + g[s \ {Any(s)}]
                          /\ h[s] = IF s = {} THEN 0 ELSE f[Any(s)] + h[s \ {Any(s)}]
  BY DEF AddsUp
<1>3. 0 \in N BY <1>1, <1>2, FS_EmptySet
<1>4. ASSUME NEW n \in Nat, n \in N PROVE n + 1 \in N
  <2>1. ASSUME NEW s \in SUBSET T, Cardinality(s) = n + 1 PROVE g[s] = h[s]
    <3>1. s # {} BY <1>1, <2>1, Successor
    <3>2. Cardinality(s \ {Any(s)}) = n BY <1>1, <2>1, Successor
    <3>3. g[s \ {Any(s)}] = h[s \ {Any(s)}] BY <1>4, <3>2
    <3> QED BY <1>2, <3>1, <3>3
  <2> QED BY <2>1
<1> HIDE DEF N
<1>5. \A n \in Nat : n \in N BY <1>3, <1>4, InductionOnSets
<1> QED BY <1>1, <1>5 DEF N

(* So the sum of a set is one element and the sum of the rest.             *)
LEMMA SumTakesAny ==
  ASSUME NEW f, NEW S, IsFiniteSet(S)
  PROVE  Sum(f, S) = IF S = {} THEN 0 ELSE f[Any(S)] + Sum(f, S \ {Any(S)})
<1>1. PICK g : AddsUp(g, f, SUBSET S) /\ Sum(f, S) = g[S]
  BY AddingExists, SumIs
<1>2. g[S] = IF S = {} THEN 0 ELSE f[Any(S)] + g[S \ {Any(S)}] BY <1>1 DEF AddsUp
<1>3. ASSUME S # {} PROVE g[S \ {Any(S)}] = Sum(f, S \ {Any(S)})
  <2>1. PICK T \in SUBSET S : T = S \ {Any(S)} OBVIOUS
  <2>2. IsFiniteSet(T) BY FS_Subset
  <2>3. PICK h : AddsUp(h, f, SUBSET T) /\ Sum(f, T) = h[T]
    BY <2>2, AddingExists, SumIs
  <2>4. AddsUp(g, f, SUBSET S) /\ AddsUp(h, f, SUBSET T) BY <1>1, <2>3
  <2>5. g[T] = h[T] BY <2>4, AddingIsUnique
  <2> QED BY <1>1, <2>1, <2>3, <2>5
<1> QED BY <1>1, <1>2, <1>3

(* Whatever adds up a set gives its sum.                                   *)
LEMMA SumAnyhow ==
  ASSUME NEW f, NEW S, IsFiniteSet(S), NEW g, AddsUp(g, f, SUBSET S)
  PROVE  g[S] = Sum(f, S)
<1>1. PICK h : AddsUp(h, f, SUBSET S) /\ Sum(f, S) = h[S] BY AddingExists, SumIs
<1> QED BY <1>1, AddingIsUnique

LEMMA EmptySum == \A f : Sum(f, {}) = 0
BY SumTakesAny, FS_EmptySet

(* A sum of natural numbers is one.                                        *)
LEMMA SumIsNat ==
  ASSUME NEW f, NEW S, IsFiniteSet(S), \A x \in S : f[x] \in Nat
  PROVE  Sum(f, S) \in Nat
<1> DEFINE N == {n \in Nat : \A T \in SUBSET S : Cardinality(T) = n => Sum(f, T) \in Nat}
<1>1. \A T \in SUBSET S : IsFiniteSet(T) /\ Cardinality(T) \in Nat
  BY FS_Subset, FS_CardinalityType
<1>2. 0 \in N BY <1>1, EmptySum, FS_EmptySet
<1>3. ASSUME NEW n \in Nat, n \in N PROVE n + 1 \in N
  <2>1. ASSUME NEW T \in SUBSET S, Cardinality(T) = n + 1 PROVE Sum(f, T) \in Nat
    <3>1. T # {} /\ Any(T) \in T /\ Cardinality(T \ {Any(T)}) = n BY <1>1, <2>1, Successor
    <3>3. Sum(f, T \ {Any(T)}) \in Nat BY <1>3, <3>1
    <3>4. Sum(f, T) = f[Any(T)] + Sum(f, T \ {Any(T)}) BY <1>1, <3>1, SumTakesAny
    <3> QED BY <3>1, <3>3, <3>4, <1>1
  <2> QED BY <2>1
<1> HIDE DEF N
<1>4. Cardinality(S) \in N BY <1>1, <1>2, <1>3, InductionOnSets
<1> QED BY <1>4 DEF N

(* It does not matter which element is taken first.                        *)
LEMMA SumTakesOne ==
  ASSUME NEW f, NEW S, IsFiniteSet(S), \A x \in S : f[x] \in Nat, NEW x \in S
  PROVE  Sum(f, S) = f[x] + Sum(f, S \ {x})
<1> DEFINE N == {n \in Nat : \A T \in SUBSET S : Cardinality(T) = n =>
                               \A y \in T : Sum(f, T) = f[y] + Sum(f, T \ {y})}
<1>1. \A T \in SUBSET S : IsFiniteSet(T) /\ Cardinality(T) \in Nat /\ Sum(f, T) \in Nat
  BY FS_Subset, FS_CardinalityType, SumIsNat
<1>2. 0 \in N BY <1>1, FS_EmptySet
<1>3. ASSUME NEW n \in Nat, n \in N PROVE n + 1 \in N
  <2>1. ASSUME NEW T \in SUBSET S, Cardinality(T) = n + 1, NEW y \in T
        PROVE  Sum(f, T) = f[y] + Sum(f, T \ {y})
    <3>1. PICK a \in T : a = Any(T) BY DEF Any
    <3>2. Sum(f, T) = f[a] + Sum(f, T \ {a}) BY <1>1, <2>1, <3>1, SumTakesAny
    <3>5. Cardinality(T \ {a}) = n /\ Cardinality(T \ {y}) = n
      BY <1>1, <2>1, FS_RemoveElement
    <3>3. CASE y = a BY <3>2, <3>3
    <3>4. CASE y # a
      <4>1. Sum(f, T \ {a}) = f[y] + Sum(f, (T \ {a}) \ {y}) BY <1>3, <3>5, <3>4
      <4>2. Sum(f, T \ {y}) = f[a] + Sum(f, (T \ {y}) \ {a}) BY <1>3, <3>5, <3>4
      <4>3. (T \ {a}) \ {y} = (T \ {y}) \ {a} OBVIOUS
      <4>4. f[a] \in Nat /\ f[y] \in Nat /\ Sum(f, (T \ {y}) \ {a}) \in Nat
        <5>1. (T \ {y}) \ {a} \in SUBSET S OBVIOUS
        <5> QED BY <1>1, <5>1
      <4> QED BY <3>2, <4>1, <4>2, <4>3, <4>4
    <3> QED BY <3>3, <3>4
  <2> QED BY <2>1
<1> HIDE DEF N
<1>4. Cardinality(S) \in N BY <1>1, <1>2, <1>3, InductionOnSets
<1> QED BY <1>4 DEF N

(* A sum splits.                                                           *)
LEMMA SumOfParts ==
  ASSUME NEW f, NEW S, IsFiniteSet(S), \A x \in S : f[x] \in Nat, NEW T \in SUBSET S
  PROVE  Sum(f, S) = Sum(f, T) + Sum(f, S \ T)
<1> DEFINE N == {n \in Nat : \A U \in SUBSET S : Cardinality(U) = n =>
                               Sum(f, S) = Sum(f, U) + Sum(f, S \ U)}
<1>1. \A U \in SUBSET S : IsFiniteSet(U) /\ Cardinality(U) \in Nat /\ Sum(f, U) \in Nat
  BY FS_Subset, FS_CardinalityType, SumIsNat
<1>2. 0 \in N
  <2>1. \A U \in SUBSET S : Cardinality(U) = 0 => U = {} BY <1>1, FS_EmptySet
  <2>2. S \ {} = S /\ Sum(f, {}) = 0 /\ Sum(f, S) \in Nat BY <1>1, EmptySum
  <2> QED BY <2>1, <2>2
<1>3. ASSUME NEW n \in Nat, n \in N PROVE n + 1 \in N
  <2>1. ASSUME NEW U \in SUBSET S, Cardinality(U) = n + 1
        PROVE  Sum(f, S) = Sum(f, U) + Sum(f, S \ U)
    <3>1. PICK a : a \in U BY <2>1, FS_EmptySet
    <3>2. Cardinality(U \ {a}) = n BY <1>1, <2>1, <3>1, FS_RemoveElement
    <3>3. Sum(f, S) = Sum(f, U \ {a}) + Sum(f, S \ (U \ {a})) BY <1>3, <3>2
    <3>4. Sum(f, U) = f[a] + Sum(f, U \ {a}) BY <1>1, <3>1, SumTakesOne
    <3>5. (S \ (U \ {a})) \ {a} = S \ U /\ a \in S \ (U \ {a}) BY <3>1
    <3>6. Sum(f, S \ (U \ {a})) = f[a] + Sum(f, S \ U) BY <1>1, <3>5, SumTakesOne
    <3>7. f[a] \in Nat /\ Sum(f, U \ {a}) \in Nat /\ Sum(f, S \ U) \in Nat BY <1>1, <3>1
    <3> QED BY <3>3, <3>4, <3>6, <3>7
  <2> QED BY <2>1
<1> HIDE DEF N
<1>4. Cardinality(T) \in N BY <1>1, <1>2, <1>3, InductionOnSets
<1> QED BY <1>4 DEF N

(* Only the values of the elements matter.                                 *)
LEMMA SumsAgree ==
  ASSUME NEW f, NEW g, NEW S, IsFiniteSet(S), \A x \in S : f[x] = g[x]
  PROVE  Sum(f, S) = Sum(g, S)
<1> DEFINE N == {n \in Nat : \A T \in SUBSET S : Cardinality(T) = n => Sum(f, T) = Sum(g, T)}
<1>1. \A T \in SUBSET S : IsFiniteSet(T) /\ Cardinality(T) \in Nat
  BY FS_Subset, FS_CardinalityType
<1>2. 0 \in N BY <1>1, EmptySum, FS_EmptySet
<1>3. ASSUME NEW n \in Nat, n \in N PROVE n + 1 \in N
  <2>1. ASSUME NEW T \in SUBSET S, Cardinality(T) = n + 1 PROVE Sum(f, T) = Sum(g, T)
    <3>1. T # {} /\ Any(T) \in T /\ Cardinality(T \ {Any(T)}) = n BY <1>1, <2>1, Successor
    <3>3. Sum(f, T \ {Any(T)}) = Sum(g, T \ {Any(T)}) BY <1>3, <3>1
    <3> QED BY <1>1, <3>1, <3>3, SumTakesAny
  <2> QED BY <2>1
<1> HIDE DEF N
<1>4. Cardinality(S) \in N BY <1>1, <1>2, <1>3, InductionOnSets
<1> QED BY <1>4 DEF N

(* A sum over a set that gains or loses one element.                       *)
LEMMA SumWith ==
  ASSUME NEW f, NEW g, NEW S, NEW x, IsFiniteSet(S), x \notin S,
         \A y \in S : f[y] \in Nat /\ g[y] = f[y], g[x] \in Nat
  PROVE  /\ Sum(g, S \union {x}) = Sum(f, S) + g[x]
         /\ Cardinality(S \union {x}) = Cardinality(S) + 1
<1>1. IsFiniteSet(S \union {x}) /\ Cardinality(S \union {x}) = Cardinality(S) + 1
  BY FS_AddElement
<1>2. (S \union {x}) \ {x} = S OBVIOUS
<1>3. Sum(g, S \union {x}) = g[x] + Sum(g, S)
  <2>1. \A y \in S \union {x} : g[y] \in Nat OBVIOUS
  <2> QED BY <1>1, <1>2, <2>1, SumTakesOne
<1>4. Sum(g, S) = Sum(f, S) BY SumsAgree
<1>5. Sum(f, S) \in Nat BY SumIsNat
<1> QED BY <1>1, <1>3, <1>4, <1>5

LEMMA SumWithout ==
  ASSUME NEW f, NEW g, NEW S, NEW x \in S, IsFiniteSet(S),
         \A y \in S : f[y] \in Nat, \A y \in S \ {x} : g[y] = f[y]
  PROVE  /\ Sum(g, S \ {x}) \in Nat
         /\ Sum(f, S) = f[x] + Sum(g, S \ {x})
         /\ Cardinality(S) \in Nat \ {0} /\ Cardinality(S \ {x}) = Cardinality(S) - 1
<1>1. IsFiniteSet(S \ {x}) /\ Cardinality(S \ {x}) = Cardinality(S) - 1 BY FS_RemoveElement
<1>2. Cardinality(S) \in Nat \ {0} BY FS_CardinalityType, FS_EmptySet
<1>3. Sum(f, S) = f[x] + Sum(f, S \ {x}) BY SumTakesOne
<1>4. Sum(g, S \ {x}) = Sum(f, S \ {x}) /\ Sum(f, S \ {x}) \in Nat
  BY <1>1, SumsAgree, SumIsNat
<1> QED BY <1>1, <1>2, <1>3, <1>4

(* A sum over disjoint parts is the sum of their sums.                     *)
LEMMA SumOfSums ==
  ASSUME NEW f, NEW S, IsFiniteSet(S), \A x \in S : f[x] \in Nat,
         NEW g, NEW C, NEW part, IsFiniteSet(C),
         \A c \in C : part[c] \subseteq S /\ g[c] = Sum(f, part[c]),
         \A c, d \in C : c # d => part[c] \cap part[d] = {}
  PROVE  Sum(g, C) = Sum(f, UNION {part[c] : c \in C})
<1> DEFINE All(D) == UNION {part[c] : c \in D}
           N == {n \in Nat : \A D \in SUBSET C : Cardinality(D) = n => Sum(g, D) = Sum(f, All(D))}
<1>1. \A D \in SUBSET C : IsFiniteSet(D) /\ Cardinality(D) \in Nat /\ All(D) \in SUBSET S
  BY FS_Subset, FS_CardinalityType
<1>2. \A T \in SUBSET S : IsFiniteSet(T) /\ Sum(f, T) \in Nat BY FS_Subset, SumIsNat
<1>3. \A c \in C : g[c] \in Nat BY <1>2
<1>4. 0 \in N
  <2>1. \A D \in SUBSET C : Cardinality(D) = 0 => D = {} BY <1>1, FS_EmptySet
  <2>2. All({}) = {} /\ Sum(g, {}) = 0 /\ Sum(f, {}) = 0 BY EmptySum
  <2> QED BY <2>1, <2>2
<1>5. ASSUME NEW n \in Nat, n \in N PROVE n + 1 \in N
  <2>1. ASSUME NEW D \in SUBSET C, Cardinality(D) = n + 1
        PROVE  Sum(g, D) = Sum(f, All(D))
    <3>1. PICK a \in D : Cardinality(D \ {a}) = n BY <1>1, <2>1, Successor
    <3>2. PICK T, U : T = All(D) /\ U = part[a] OBVIOUS
    <3>3. U \in SUBSET T /\ T \in SUBSET S BY <1>1, <3>2
    <3>4. T \ U = All(D \ {a}) BY <3>2
    <3>5. Sum(f, T) = Sum(f, U) + Sum(f, T \ U)
      <4>1. IsFiniteSet(T) /\ \A x \in T : f[x] \in Nat BY <1>2, <3>3
      <4> QED BY <3>3, <4>1, SumOfParts
    <3>6. Sum(g, D \ {a}) = Sum(f, All(D \ {a}))
      <4>1. D \ {a} \in SUBSET C OBVIOUS
      <4> QED BY <1>5, <3>1, <4>1
    <3>7. Sum(g, D) = g[a] + Sum(g, D \ {a})
      <4>1. IsFiniteSet(D) /\ \A c \in D : g[c] \in Nat BY <1>1, <1>3
      <4> QED BY <4>1, SumTakesOne
    <3> QED BY <3>2, <3>4, <3>5, <3>6, <3>7
  <2> QED BY <2>1
<1> HIDE DEF N
<1>6. Cardinality(C) \in N BY <1>1, <1>4, <1>5, InductionOnSets
<1> QED BY <1>6 DEF N

-----------------------------------------------------------------------------
(* What is under way, as long as no two handlers overlap.                  *)
Pending == IF Busy THEN req[CHOOSE r \in Requests : req[r] # Idle] ELSE Idle

Amounts == [p \in PurchaseIds |-> entry[p].amount]
EarnedIn(c) == {p \in PurchaseIds : entry[p].cycle = c /\ entry[p].status = "EARNED"}
PaidIn(c)   == {p \in PurchaseIds : entry[p].cycle = c /\ entry[p].status = "PAID"}

Settling(request, c) == request.at = "settle" /\ request.cycle = c
IsSettled(request, c) == cycle[c].status = "PAID" /\ ~Settling(request, c)

(* The row of a cycle once the handler under way has saved it.             *)
RowOf(request, c) ==
  IF request.cycle = c /\ request.at \in {"qualify", "alert", "saveCycle"} THEN request.row
  ELSE IF request.cycle = c /\ request.at = "debit" THEN Debited(cycle[c], request.entry.amount)
  ELSE cycle[c]

Held(request, c) == IF IsSettled(request, c) THEN PaidIn(c) ELSE EarnedIn(c)

RowsAddUp(request) ==
  \A c \in CycleIds :
    /\ RowOf(request, c).amount = Sum(Amounts, Held(request, c))
    /\ RowOf(request, c).count = Cardinality(Held(request, c))

(* An earned entry is in a cycle that collects, or that is being settled;  *)
(* a paid one in one that is settled.                                      *)
EntriesFit(request) ==
  \A p \in PurchaseIds :
    /\ entry[p].status = "EARNED" =>
         Collects(cycle[entry[p].cycle]) \/ Settling(request, entry[p].cycle)
    /\ entry[p].status = "PAID" => IsSettled(request, entry[p].cycle)

HoldsRows(request) ==
  LET c == request.cycle IN
  /\ request.at \in {"findCycle", "createCycle"} => request.row.count = 0
  /\ request.at = "settle" => c \in CycleIds /\ cycle[c].status = "PAID"
  /\ request.at \in {"saveEntry", "qualify", "alert", "saveCycle", "debit", "savePaid"} =>
       c \in CycleIds /\ Collects(cycle[c])
  /\ request.at \in {"qualify", "alert", "saveCycle"} => Collects(request.row)
  /\ request.at = "savePaid" => request.row = [cycle[c] EXCEPT !.status = "PAID"]
  /\ request.at = "saveReversed" => c = request.entry.cycle

Ever == \E p \in PurchaseIds : entry[p] # NoEntry

QualifiedFits(request) ==
  /\ request.at \in {"findCycle", "createCycle", "saveEntry"} =>
       request.purchase \in PurchaseIds /\ (request.first <=> qualified = NoPurchase)
  /\ IF request.at = "qualify" THEN request.purchase \in PurchaseIds /\ Ever
                               ELSE qualified # NoPurchase <=> Ever

Finitely ==
  /\ IsFiniteSet({p \in PurchaseIds : entry[p] # NoEntry})
  /\ IsFiniteSet({c \in CycleIds : cycle[c] # NoRow})

Books(request) ==
  /\ RowsAddUp(request)
  /\ EntriesFit(request)
  /\ HoldsRows(request)
  /\ QualifiedFits(request)

BooksInvariant ==
  /\ SerialInvariant
  /\ Finitely
  /\ overlaps = 0 /\ failures = 0 => Books(Pending)

LEMMA PendingIs ==
  ASSUME NEW r \in Requests, NEW next, req \in [Requests -> Request],
         \A s \in Requests : s # r => req[s] = Idle,
         req' = [req EXCEPT ![r] = next]
  PROVE  Pending = req[r] /\ Pending' = next
<1>1. \A s \in Requests : req'[s] = IF s = r THEN next ELSE Idle OBVIOUS
<1>2. Pending' = next
  <2>1. CASE next = Idle
    <3>1. ~Busy' BY <1>1, <2>1 DEF Busy
    <3> QED BY <3>1, <2>1 DEF Pending
  <2>2. CASE next # Idle
    <3>1. Busy' BY <1>1, <2>2 DEF Busy
    <3>2. (CHOOSE s \in Requests : req'[s] # Idle) = r BY <1>1, <2>2
    <3>3. Pending' = req'[r] BY <3>1, <3>2 DEF Pending
    <3> QED BY <3>3, <1>1
  <2> QED BY <2>1, <2>2
<1>3. CASE req[r] = Idle
  <2>1. ~Busy BY <1>3 DEF Busy
  <2>2. Pending = Idle BY <2>1 DEF Pending
  <2> QED BY <1>3, <2>2, <1>2
<1>4. CASE req[r] # Idle
  <2>1. Busy BY <1>4 DEF Busy
  <2>2. (CHOOSE s \in Requests : req[s] # Idle) = r BY <1>4
  <2>3. Pending = req[r] BY <2>1, <2>2 DEF Pending
  <2> QED BY <2>3, <1>2
<1> QED BY <1>2, <1>3, <1>4

(* What the entries and the cycles are, in a state the invariants allow.   *)
LEMMA LedgerTypes ==
  ASSUME LedgerInvariant
  PROVE  /\ req \in [Requests -> Request] /\ entry \in [PurchaseIds -> Entry]
         /\ cycle \in [CycleIds -> Cycle]
         /\ \A p \in PurchaseIds : Amounts[p] = entry[p].amount /\ entry[p].amount \in Nat
BY DEF LedgerInvariant, TypeOK, Entry, Amounts

LEMMA HeldIsFinite ==
  ASSUME Finitely
  PROVE  \A c : IsFiniteSet(EarnedIn(c)) /\ IsFiniteSet(PaidIn(c))
<1> DEFINE S == {p \in PurchaseIds : entry[p] # NoEntry}
<1>1. \A c : EarnedIn(c) \subseteq S /\ PaidIn(c) \subseteq S
  BY DEF EarnedIn, PaidIn, NoEntry
<1>2. IsFiniteSet(S) BY DEF Finitely
<1> HIDE DEF S
<1> QED BY <1>1, <1>2, FS_Subset

(* The handler goes on without saving, or with a save that changes no      *)
(* total, no entry and no cycle in a way that shows.                       *)
LEMMA BooksStay ==
  ASSUME LedgerInvariant, NEW request, NEW next, Books(request), UNCHANGED entry,
         \A c \in CycleIds :
           /\ RowOf(next, c)'.amount = RowOf(request, c).amount
           /\ RowOf(next, c)'.count = RowOf(request, c).count
           /\ IsSettled(next, c)' <=> IsSettled(request, c),
         \A c \in CycleIds :
           Collects(cycle[c]) \/ Settling(request, c) => Collects(cycle'[c]) \/ Settling(next, c),
         HoldsRows(next)', QualifiedFits(next)'
  PROVE  Books(next)'
<1>1. \A c : /\ Amounts' = Amounts
             /\ EarnedIn(c)' = EarnedIn(c)
             /\ PaidIn(c)' = PaidIn(c)
  BY DEF Amounts, EarnedIn, PaidIn
<1>2. \A c \in CycleIds : Held(next, c)' = Held(request, c)
  BY <1>1 DEF Held
<1>3. RowsAddUp(next)'
  <2>1. ASSUME NEW c \in CycleIds
        PROVE  /\ RowOf(next, c)'.amount = Sum(Amounts', Held(next, c)')
               /\ RowOf(next, c)'.count = Cardinality(Held(next, c)')
    <3>1. /\ RowOf(request, c).amount = Sum(Amounts, Held(request, c))
          /\ RowOf(request, c).count = Cardinality(Held(request, c))
      BY DEF Books, RowsAddUp
    <3>2. Held(next, c)' = Held(request, c) /\ Amounts' = Amounts BY <1>1, <1>2
    <3> QED BY <3>1, <3>2
  <2> QED BY <2>1 DEF RowsAddUp
<1>4. EntriesFit(next)'
  <2>1. EntriesFit(request) BY DEF Books
  <2>2. \A p \in PurchaseIds : entry[p].status \in {"EARNED", "PAID"} => entry[p].cycle \in CycleIds
    BY DEF LedgerInvariant, EntriesHaveCycles
  <2> QED BY <2>1, <2>2 DEF EntriesFit, Settling
<1> QED BY <1>3, <1>4 DEF Books

(* The handler goes on, or starts, and saves nothing.                      *)
LEMMA ReadsKeepBooks ==
  ASSUME LedgerInvariant, NEW request, NEW next, Books(request), UNCHANGED <<entry, cycle>>,
         request.at \notin {"qualify", "alert", "saveCycle", "debit", "settle"},
         next.at \notin {"qualify", "alert", "saveCycle", "debit", "settle"},
         HoldsRows(next)', QualifiedFits(next)'
  PROVE  Books(next)'
<1>1. \A c : /\ RowOf(next, c)' = RowOf(request, c)
             /\ IsSettled(next, c)' <=> IsSettled(request, c)
  BY DEF RowOf, IsSettled, Settling
<1>2. \A c \in CycleIds : ~Settling(request, c) BY DEF Settling
<1> QED BY <1>1, <1>2, BooksStay

LEMMA RecordReadKeepsBooks ==
  ASSUME LedgerInvariant, Books(Idle), NEW r \in Requests, NEW p \in PurchaseIds, RecordRead(r, p)
  PROVE  \E next : req' = [req EXCEPT ![r] = next] /\ Books(next)'
<1>1. PICK next : next = [Idle EXCEPT
       !.at = "findCycle", !.purchase = p, !.first = qualified = NoPurchase,
       !.entry = [NoEntry EXCEPT !.status = "EARNED", !.amount = Commission(p)],
       !.row.threshold = profile.threshold]
  OBVIOUS
<1>2. /\ next.at = "findCycle" /\ next.purchase = p /\ next.row.count = 0
      /\ next.first <=> qualified = NoPurchase
  BY <1>1 DEF Idle, NoRow
<1>3. Starts(r, next) BY <1>1 DEF RecordRead
<1>4. req' = [req EXCEPT ![r] = next] /\ UNCHANGED <<entry, cycle, qualified>>
  BY <1>3 DEF Starts, ledger
<1>5. HoldsRows(next)' BY <1>2 DEF HoldsRows
<1>6. QualifiedFits(next)'
  <2>1. QualifiedFits(Idle) BY DEF Books
  <2> QED BY <1>2, <1>4, <2>1 DEF QualifiedFits, Ever, Idle
<1>7. Books(next)' BY <1>2, <1>4, <1>5, <1>6, ReadsKeepBooks DEF Idle
<1> QED BY <1>4, <1>7

LEMMA ReverseReadKeepsBooks ==
  ASSUME LedgerInvariant, Books(Idle), NEW r \in Requests, NEW p \in PurchaseIds, ReverseRead(r, p)
  PROVE  \E next : req' = [req EXCEPT ![r] = next] /\ Books(next)'
<1>1. PICK next : next = [Idle EXCEPT
       !.at = "saveReversed", !.purchase = p, !.entry = entry[p], !.cycle = entry[p].cycle]
  OBVIOUS
<1>2. next.at = "saveReversed" /\ next.entry = entry[p] /\ next.cycle = entry[p].cycle
  BY <1>1 DEF Idle
<1>3. Starts(r, next) BY <1>1 DEF ReverseRead
<1>4. req' = [req EXCEPT ![r] = next] /\ UNCHANGED <<entry, cycle, qualified>>
  BY <1>3 DEF Starts, ledger
<1>5. HoldsRows(next)' BY <1>2 DEF HoldsRows
<1>6. QualifiedFits(next)'
  <2>1. QualifiedFits(Idle) BY DEF Books
  <2> QED BY <1>2, <1>4, <2>1 DEF QualifiedFits, Ever, Idle
<1>7. Books(next)' BY <1>2, <1>4, <1>5, <1>6, ReadsKeepBooks DEF Idle
<1> QED BY <1>4, <1>7

LEMMA PayReadKeepsBooks ==
  ASSUME LedgerInvariant, Books(Idle), NEW r \in Requests, NEW c \in CycleIds, PayRead(r, c)
  PROVE  \E next : req' = [req EXCEPT ![r] = next] /\ Books(next)'
<1>1. PICK row : row = [cycle[c] EXCEPT !.status = "PAID"] OBVIOUS
<1>2. PICK next : next = [Idle EXCEPT !.at = "savePaid", !.cycle = c, !.row = row] OBVIOUS
<1>3. next.at = "savePaid" /\ next.cycle = c /\ next.row = row BY <1>2 DEF Idle
<1>4. Starts(r, next) /\ Collects(cycle[c]) BY <1>1, <1>2 DEF PayRead, Unpaid, Collects
<1>5. req' = [req EXCEPT ![r] = next] /\ UNCHANGED <<entry, cycle, qualified>>
  BY <1>4 DEF Starts, ledger
<1>6. HoldsRows(next)' BY <1>1, <1>3, <1>4, <1>5 DEF HoldsRows
<1>7. QualifiedFits(next)'
  <2>1. QualifiedFits(Idle) BY DEF Books
  <2> QED BY <1>3, <1>5, <2>1 DEF QualifiedFits, Ever, Idle
<1>8. Books(next)' BY <1>3, <1>5, <1>6, <1>7, ReadsKeepBooks DEF Idle
<1> QED BY <1>5, <1>8

-----------------------------------------------------------------------------
(* recordCommission goes on.                                               *)
LEMMA CycleFindKeepsBooks ==
  ASSUME LedgerInvariant, NEW r \in Requests, Books(req[r]), CycleFind(r)
  PROVE  \E next : req' = [req EXCEPT ![r] = next] /\ Books(next)'
<1>1. PICK q : q = req[r] OBVIOUS
<1>2. /\ q \in Request /\ q.at = "findCycle" /\ Books(q)
      /\ UNCHANGED <<entry, cycle, qualified>>
  BY <1>1 DEF LedgerInvariant, TypeOK, CycleFind, At, ledger
<1>3. /\ q.purchase \in PurchaseIds /\ (q.first <=> qualified = NoPurchase)
      /\ qualified # NoPurchase <=> Ever
      /\ q.row.count = 0
  BY <1>2 DEF Books, QualifiedFits, HoldsRows
<1>4. CASE \E c \in Unpaid : req' = [req EXCEPT
             ![r].at = "saveEntry", ![r].cycle = c, ![r].row = cycle[c]]
  <2>1. PICK c \in Unpaid : req' = [req EXCEPT
          ![r].at = "saveEntry", ![r].cycle = c, ![r].row = cycle[c]]
    BY <1>4
  <2>2. PICK next : next = [q EXCEPT !.at = "saveEntry", !.cycle = c, !.row = cycle[c]]
    OBVIOUS
  <2>3. /\ next.at = "saveEntry" /\ next.cycle = c
        /\ next.purchase = q.purchase /\ next.first = q.first
    BY <1>2, <2>2 DEF Request
  <2>4. c \in CycleIds /\ Collects(cycle[c]) BY DEF Unpaid, Collects
  <2>5. HoldsRows(next)' BY <1>2, <2>3, <2>4 DEF HoldsRows
  <2>6. QualifiedFits(next)' BY <1>2, <1>3, <2>3 DEF QualifiedFits, Ever
  <2>7. Books(next)' BY <1>2, <2>3, <2>5, <2>6, ReadsKeepBooks
  <2>8. req' = [req EXCEPT ![r] = next] BY <1>1, <2>1, <2>2
  <2> QED BY <2>7, <2>8
<1>5. CASE req' = [req EXCEPT ![r].at = "createCycle"]
  <2>1. PICK next : next = [q EXCEPT !.at = "createCycle"] OBVIOUS
  <2>2. /\ next.at = "createCycle" /\ next.row = q.row
        /\ next.purchase = q.purchase /\ next.first = q.first
    BY <1>2, <2>1 DEF Request
  <2>3. HoldsRows(next)' BY <1>3, <2>2 DEF HoldsRows
  <2>4. QualifiedFits(next)' BY <1>2, <1>3, <2>2 DEF QualifiedFits, Ever
  <2>5. Books(next)' BY <1>2, <2>2, <2>3, <2>4, ReadsKeepBooks
  <2>6. req' = [req EXCEPT ![r] = next] BY <1>1, <1>5, <2>1
  <2> QED BY <2>5, <2>6
<1> QED BY <1>4, <1>5 DEF CycleFind

LEMMA CycleCreateKeepsBooks ==
  ASSUME LedgerInvariant, NEW r \in Requests, Books(req[r]), NEW c \in CycleIds, CycleCreate(r, c)
  PROVE  \E next : req' = [req EXCEPT ![r] = next] /\ Books(next)'
<1>1. PICK q : q = req[r] OBVIOUS
<1>2. PICK row : row = [q.row EXCEPT !.status = "OPEN"] OBVIOUS
<1>3. PICK next : next = [q EXCEPT !.at = "saveEntry", !.cycle = c, !.row = row] OBVIOUS
<1>4. /\ q \in Request /\ q.at = "createCycle" /\ Books(q) /\ Sound(q)
      /\ cycle \in [CycleIds -> Cycle] /\ cycle[c] = NoRow
      /\ cycle' = [cycle EXCEPT ![c] = row]
      /\ req' = [req EXCEPT ![r] = next]
      /\ UNCHANGED <<entry, qualified>>
  BY <1>1, <1>2, <1>3 DEF LedgerInvariant, TypeOK, CycleCreate, At
<1>5. \A d \in CycleIds : cycle'[d] = IF d = c THEN row ELSE cycle[d] BY <1>4
<1>6. row.amount = 0 /\ row.count = 0 /\ row.status = "OPEN"
  <2>1. q.row \in Cycle BY <1>4 DEF Request
  <2>2. q.row.amount = 0 /\ q.row.count = 0
    BY <1>4 DEF Sound, Books, HoldsRows
  <2> QED BY <1>2, <2>1, <2>2 DEF Cycle
<1>7. /\ next.at = "saveEntry" /\ next.cycle = c
      /\ next.purchase = q.purchase /\ next.first = q.first
  BY <1>3, <1>4 DEF Request
<1>8. \A d \in CycleIds :
        /\ RowOf(next, d)'.amount = RowOf(q, d).amount
        /\ RowOf(next, d)'.count = RowOf(q, d).count
        /\ IsSettled(next, d)' <=> IsSettled(q, d)
  BY <1>4, <1>5, <1>6, <1>7 DEF RowOf, IsSettled, Settling, NoRow
<1>9. \A d \in CycleIds :
        Collects(cycle[d]) \/ Settling(q, d) => Collects(cycle'[d]) \/ Settling(next, d)
  BY <1>4, <1>5, <1>6 DEF Collects, Settling
<1>10. HoldsRows(next)' BY <1>5, <1>6, <1>7 DEF HoldsRows, Collects
<1>11. QualifiedFits(next)'
  <2>1. QualifiedFits(q) BY <1>4 DEF Books
  <2> QED BY <1>4, <1>7, <2>1 DEF QualifiedFits, Ever
<1>12. Books(next)' BY <1>4, <1>8, <1>9, <1>10, <1>11, BooksStay
<1> QED BY <1>4, <1>12

LEMMA EntryRefusedKeepsBooks ==
  ASSUME LedgerInvariant, NEW r \in Requests, Books(req[r]), EntryRefused(r)
  PROVE  \E next : req' = [req EXCEPT ![r] = next] /\ Books(next)'
<1>1. PICK q : q = req[r] OBVIOUS
<1>2. PICK next : next = Idle OBVIOUS
<1>3. /\ q.at = "saveEntry" /\ Books(q) /\ next.at = "idle"
      /\ req' = [req EXCEPT ![r] = next]
      /\ UNCHANGED <<entry, cycle, qualified>>
  BY <1>1, <1>2 DEF EntryRefused, At, Finish, ledger, Idle
<1>4. HoldsRows(next)' BY <1>3 DEF HoldsRows
<1>5. QualifiedFits(next)'
  <2>1. QualifiedFits(q) BY <1>3 DEF Books
  <2> QED BY <1>3, <2>1 DEF QualifiedFits, Ever
<1>6. Books(next)' BY <1>3, <1>4, <1>5, ReadsKeepBooks
<1> QED BY <1>3, <1>6

LEMMA QualifyKeepsBooks ==
  ASSUME LedgerInvariant, NEW r \in Requests, Books(req[r]), Qualify(r)
  PROVE  \E next : req' = [req EXCEPT ![r] = next] /\ Books(next)'
<1>1. PICK q : q = req[r] OBVIOUS
<1>2. PICK place : place = Afterwards(q.row) OBVIOUS
<1>3. PICK next : next = [q EXCEPT !.at = place] OBVIOUS
<1>4. /\ q \in Request /\ q.at = "qualify" /\ Books(q)
      /\ req' = [req EXCEPT ![r] = next] /\ qualified' = q.purchase
      /\ UNCHANGED <<entry, cycle>>
  BY <1>1, <1>2, <1>3 DEF LedgerInvariant, TypeOK, Qualify, At
<1>5. place \in {"alert", "saveCycle"} BY <1>2 DEF Afterwards
<1>6. next.at = place /\ next.cycle = q.cycle /\ next.row = q.row BY <1>3, <1>4 DEF Request
<1>7. \A c : RowOf(next, c)' = RowOf(q, c) /\ (IsSettled(next, c)' <=> IsSettled(q, c))
  BY <1>4, <1>5, <1>6 DEF RowOf, IsSettled, Settling
<1>8. \A c : ~Settling(q, c) BY <1>4 DEF Settling
<1>9. HoldsRows(next)'
  <2>1. HoldsRows(q) BY <1>4 DEF Books
  <2> QED BY <1>4, <1>5, <1>6, <2>1 DEF HoldsRows
<1>10. QualifiedFits(next)'
  <2>1. QualifiedFits(q) BY <1>4 DEF Books
  <2>2. q.purchase # NoPurchase /\ Ever BY <1>4, <2>1, NullsAssumption DEF QualifiedFits
  <2> QED BY <1>4, <1>5, <1>6, <2>2 DEF QualifiedFits, Ever
<1>11. Books(next)' BY <1>4, <1>7, <1>8, <1>9, <1>10, BooksStay
<1> QED BY <1>4, <1>11

LEMMA AlertAdminsKeepsBooks ==
  ASSUME LedgerInvariant, NEW r \in Requests, Books(req[r]), AlertAdmins(r)
  PROVE  \E next : req' = [req EXCEPT ![r] = next] /\ Books(next)'
<1>1. PICK q : q = req[r] OBVIOUS
<1>2. PICK row : row = [q.row EXCEPT !.alerted = TRUE] OBVIOUS
<1>3. PICK next : next = [q EXCEPT !.at = "saveCycle", !.row = row] OBVIOUS
<1>4. /\ q \in Request /\ q.row \in Cycle /\ q.at = "alert" /\ Books(q)
      /\ req' = [req EXCEPT ![r] = next]
      /\ UNCHANGED <<entry, cycle, qualified>>
  <2>1. req[r] \in Request BY DEF LedgerInvariant, TypeOK
  <2>2. req' = [req EXCEPT ![r] = next]
    BY <1>1, <1>2, <1>3, <2>1 DEF AlertAdmins, Request
  <2> QED BY <1>1, <2>1, <2>2 DEF AlertAdmins, At, Request
<1>5. row.amount = q.row.amount /\ row.count = q.row.count /\ row.status = q.row.status
  BY <1>2, <1>4 DEF Cycle
<1>6. next.at = "saveCycle" /\ next.cycle = q.cycle /\ next.row = row BY <1>3, <1>4 DEF Request
<1>7. \A c : /\ RowOf(next, c)'.amount = RowOf(q, c).amount
             /\ RowOf(next, c)'.count = RowOf(q, c).count
             /\ IsSettled(next, c)' <=> IsSettled(q, c)
  BY <1>4, <1>5, <1>6 DEF RowOf, IsSettled, Settling
<1>8. \A c : ~Settling(q, c) BY <1>4 DEF Settling
<1>9. HoldsRows(next)'
  <2>1. HoldsRows(q) BY <1>4 DEF Books
  <2> QED BY <1>4, <1>5, <1>6, <2>1 DEF HoldsRows, Collects
<1>10. QualifiedFits(next)'
  <2>1. QualifiedFits(q) BY <1>4 DEF Books
  <2> QED BY <1>4, <1>6, <2>1 DEF QualifiedFits, Ever
<1>11. Books(next)' BY <1>4, <1>7, <1>8, <1>9, <1>10, BooksStay
<1> QED BY <1>4, <1>11

LEMMA CycleSaveKeepsBooks ==
  ASSUME LedgerInvariant, NEW r \in Requests, Books(req[r]), CycleSave(r)
  PROVE  \E next : req' = [req EXCEPT ![r] = next] /\ Books(next)'
<1>1. PICK q : q = req[r] OBVIOUS
<1>2. PICK next : next = Idle OBVIOUS
<1>3. PICK c : c = q.cycle OBVIOUS
<1>4. /\ q.at = "saveCycle" /\ Books(q) /\ next.at = "idle"
      /\ cycle \in [CycleIds -> Cycle] /\ cycle' = [cycle EXCEPT ![c] = q.row]
      /\ req' = [req EXCEPT ![r] = next]
      /\ UNCHANGED <<entry, qualified>>
  BY <1>1, <1>2, <1>3 DEF LedgerInvariant, TypeOK, CycleSave, At, Finish, Idle
<1>5. c \in CycleIds /\ Collects(cycle[c]) /\ Collects(q.row)
  BY <1>3, <1>4 DEF Books, HoldsRows
<1>6. \A d \in CycleIds : cycle'[d] = IF d = c THEN q.row ELSE cycle[d] BY <1>4
<1>7. \A d \in CycleIds : RowOf(next, d)' = RowOf(q, d) /\ (IsSettled(next, d)' <=> IsSettled(q, d))
  BY <1>3, <1>4, <1>5, <1>6 DEF RowOf, IsSettled, Settling, Collects
<1>8. \A d \in CycleIds :
        Collects(cycle[d]) \/ Settling(q, d) => Collects(cycle'[d]) \/ Settling(next, d)
  BY <1>4, <1>5, <1>6 DEF Settling
<1>9. HoldsRows(next)' BY <1>4 DEF HoldsRows
<1>10. QualifiedFits(next)'
  <2>1. QualifiedFits(q) BY <1>4 DEF Books
  <2> QED BY <1>4, <2>1 DEF QualifiedFits, Ever
<1>11. Books(next)' BY <1>4, <1>7, <1>8, <1>9, <1>10, BooksStay
<1> QED BY <1>4, <1>11

LEMMA ReverseDebitKeepsBooks ==
  ASSUME LedgerInvariant, NEW r \in Requests, Books(req[r]), ReverseDebit(r)
  PROVE  \E next : req' = [req EXCEPT ![r] = next] /\ Books(next)'
<1>1. PICK q : q = req[r] OBVIOUS
<1>2. PICK c : c = q.cycle OBVIOUS
<1>3. PICK row : row = Debited(cycle[c], q.entry.amount) OBVIOUS
<1>4. PICK next : next = [q EXCEPT !.at = "saveCycle", !.row = row] OBVIOUS
<1>5. q \in Request /\ q.at = "debit" /\ Books(q) /\ UNCHANGED <<entry, cycle, qualified>>
  BY <1>1 DEF LedgerInvariant, TypeOK, ReverseDebit, At, ledger
<1>6. c \in CycleIds /\ Collects(cycle[c]) BY <1>2, <1>5 DEF Books, HoldsRows
<1>7. req' = [req EXCEPT ![r] = next]
  BY <1>1, <1>2, <1>3, <1>4, <1>6 DEF ReverseDebit, Collects
<1>8. next.at = "saveCycle" /\ next.cycle = c /\ next.row = row
  BY <1>2, <1>4, <1>5 DEF Request
<1>9. Collects(row)
  <2>1. cycle[c] \in Cycle BY <1>6 DEF LedgerInvariant, TypeOK
  <2> QED BY <1>3, <1>6, <2>1 DEF Debited, Collects, Cycle
<1>10. \A d : RowOf(next, d)' = RowOf(q, d) /\ (IsSettled(next, d)' <=> IsSettled(q, d))
  BY <1>2, <1>3, <1>5, <1>8 DEF RowOf, IsSettled, Settling
<1>11. \A d : ~Settling(q, d) BY <1>5 DEF Settling
<1>12. HoldsRows(next)' BY <1>5, <1>6, <1>8, <1>9 DEF HoldsRows
<1>13. QualifiedFits(next)'
  <2>1. QualifiedFits(q) BY <1>5 DEF Books
  <2> QED BY <1>5, <1>8, <2>1 DEF QualifiedFits, Ever
<1>14. Books(next)' BY <1>5, <1>10, <1>11, <1>12, <1>13, BooksStay
<1> QED BY <1>7, <1>14

LEMMA PaySaveKeepsBooks ==
  ASSUME LedgerInvariant, NEW r \in Requests, Books(req[r]), PaySave(r)
  PROVE  \E next : req' = [req EXCEPT ![r] = next] /\ Books(next)'
<1>1. PICK q : q = req[r] OBVIOUS
<1>2. PICK next : next = [q EXCEPT !.at = "settle"] OBVIOUS
<1>3. PICK c : c = q.cycle OBVIOUS
<1>4. /\ q \in Request /\ q.at = "savePaid" /\ Books(q)
      /\ cycle \in [CycleIds -> Cycle] /\ cycle' = [cycle EXCEPT ![c] = q.row]
      /\ req' = [req EXCEPT ![r] = next]
      /\ UNCHANGED <<entry, qualified>>
  BY <1>1, <1>2, <1>3 DEF LedgerInvariant, TypeOK, PaySave, At
<1>5. c \in CycleIds /\ Collects(cycle[c]) /\ q.row = [cycle[c] EXCEPT !.status = "PAID"]
  BY <1>3, <1>4 DEF Books, HoldsRows
<1>6. q.row.status = "PAID" /\ q.row.amount = cycle[c].amount /\ q.row.count = cycle[c].count
  <2>1. cycle[c] \in Cycle BY <1>4, <1>5
  <2> QED BY <1>5, <2>1 DEF Cycle
<1>7. \A d \in CycleIds : cycle'[d] = IF d = c THEN q.row ELSE cycle[d] BY <1>4
<1>8. next.at = "settle" /\ next.cycle = c BY <1>2, <1>3, <1>4 DEF Request
<1>9. \A d \in CycleIds :
        /\ RowOf(next, d)'.amount = RowOf(q, d).amount
        /\ RowOf(next, d)'.count = RowOf(q, d).count
        /\ IsSettled(next, d)' <=> IsSettled(q, d)
  BY <1>3, <1>4, <1>5, <1>6, <1>7, <1>8 DEF RowOf, IsSettled, Settling, Collects
<1>10. \A d \in CycleIds :
        Collects(cycle[d]) \/ Settling(q, d) => Collects(cycle'[d]) \/ Settling(next, d)
  BY <1>4, <1>7, <1>8 DEF Settling
<1>11. HoldsRows(next)' BY <1>5, <1>6, <1>7, <1>8 DEF HoldsRows
<1>12. QualifiedFits(next)'
  <2>1. QualifiedFits(q) BY <1>4 DEF Books
  <2> QED BY <1>4, <1>8, <2>1 DEF QualifiedFits, Ever
<1>13. Books(next)' BY <1>4, <1>9, <1>10, <1>11, <1>12, BooksStay
<1> QED BY <1>4, <1>13

-----------------------------------------------------------------------------
(* What the saves of an entry add to a total and take from it.             *)
LEMMA CreditedAdds ==
  ASSUME NEW row \in Cycle, NEW amount \in Nat
  PROVE  /\ Credited(row, amount).amount = row.amount + amount
         /\ Credited(row, amount).count = row.count + 1
         /\ Collects(row) => Collects(Credited(row, amount))
<1> DEFINE total == row.amount + amount
           count == row.count + 1
           sum == [row EXCEPT !.amount = total, !.count = count]
<1>1. total \in Nat /\ count \in Nat BY DEF Cycle
<1>2. Credited(row, amount) =
        IF Reached(sum) THEN [sum EXCEPT !.status = IF @ = "OPEN" THEN "READY" ELSE @] ELSE sum
  BY DEF Credited
<1> SUFFICES /\ Credited(row, amount).amount = total
             /\ Credited(row, amount).count = count
             /\ Collects(row) => Collects(Credited(row, amount))
  OBVIOUS
<1> HIDE DEF total, count
<1>3. sum \in Cycle /\ sum.status = row.status /\ sum.amount = total /\ sum.count = count
  BY <1>1 DEF Cycle
<1> HIDE DEF sum
<1>4. CASE Reached(sum)
  <2>1. Credited(row, amount) = [sum EXCEPT !.status = IF @ = "OPEN" THEN "READY" ELSE @]
    BY <1>2, <1>4
  <2> QED BY <1>3, <2>1 DEF Collects, Cycle
<1>5. CASE ~Reached(sum) BY <1>2, <1>3, <1>5 DEF Collects
<1> QED BY <1>4, <1>5

LEMMA DebitedTakes ==
  ASSUME NEW row \in Cycle, NEW amount \in Nat, NEW rest \in Nat,
         row.amount = amount + rest, row.count # 0
  PROVE  /\ Debited(row, amount).amount = rest
         /\ Debited(row, amount).count = row.count - 1
<1> DEFINE total == IF row.amount > amount THEN row.amount - amount ELSE 0
           count == IF row.count > 0 THEN row.count - 1 ELSE 0
           less == [row EXCEPT !.amount = total, !.count = count]
<1>1. row.amount \in Nat /\ row.count \in Nat BY DEF Cycle
<1>2. total = rest /\ count = row.count - 1 /\ count \in Nat BY <1>1
<1>3. Debited(row, amount) =
        IF row.status = "READY" /\ ~Reached(less) THEN [less EXCEPT !.status = "OPEN"] ELSE less
  BY DEF Debited
<1> HIDE DEF total, count
<1>4. less \in Cycle /\ less.amount = rest /\ less.count = row.count - 1
  BY <1>2 DEF Cycle
<1> HIDE DEF less
<1> QED BY <1>3, <1>4 DEF Cycle

(* The cycle of the entry that is saved holds it from then on.             *)
LEMMA EntrySaveKeepsBooks ==
  ASSUME LedgerInvariant, SerialFacts, Finitely, NEW r \in Requests, Books(req[r]), EntrySave(r)
  PROVE  \E next : req' = [req EXCEPT ![r] = next] /\ Books(next)'
<1>1. PICK q : q = req[r] OBVIOUS
<1>2. PICK p : p = q.purchase OBVIOUS
<1>3. PICK c : c = q.cycle OBVIOUS
<1>4. PICK e : e = [q.entry EXCEPT !.cycle = c] OBVIOUS
<1>5. PICK row : row = Credited(q.row, q.entry.amount) OBVIOUS
<1>6. PICK place : place = IF q.first THEN "qualify" ELSE Afterwards(row) OBVIOUS
<1>7. PICK next : next = [q EXCEPT !.row = row, !.at = place] OBVIOUS
<1>8. /\ q \in Request /\ q.at = "saveEntry" /\ Books(q)
      /\ q.row = cycle[c] /\ q.entry.status = "EARNED" /\ c \in CycleIds /\ cycle[c] \in Cycle
  BY <1>1, <1>3 DEF LedgerInvariant, TypeOK, EntrySave, At, SerialFacts, Follows
<1>9. /\ req' = [req EXCEPT ![r] = next]
      /\ entry[p] = NoEntry /\ entry' = [entry EXCEPT ![p] = e]
      /\ UNCHANGED <<cycle, qualified>>
  BY <1>1, <1>2, <1>3, <1>4, <1>5, <1>6, <1>7 DEF EntrySave
<1>10. place \in {"qualify", "alert", "saveCycle"} BY <1>6 DEF Afterwards
<1>11. /\ next.at = place /\ next.cycle = c /\ next.row = row /\ next.purchase = p
  BY <1>2, <1>3, <1>7, <1>8 DEF Request
<1>12. p \in PurchaseIds /\ Collects(cycle[c]) /\ (q.first <=> qualified = NoPurchase)
  BY <1>2, <1>3, <1>8 DEF Books, QualifiedFits, HoldsRows
<1>13. /\ q.entry.amount \in Nat /\ e.status = "EARNED"
       /\ e.cycle = c /\ e.amount = q.entry.amount /\ e # NoEntry
  BY <1>3, <1>4, <1>8 DEF Request, Entry, NoEntry
<1>14. \A x \in PurchaseIds : entry'[x] = IF x = p THEN e ELSE entry[x]
  BY <1>9, LedgerTypes
<1>15. /\ row.amount = cycle[c].amount + e.amount
       /\ row.count = cycle[c].count + 1
       /\ Collects(row)
  BY <1>5, <1>8, <1>12, <1>13, CreditedAdds
<1>16. /\ \A d : PaidIn(d)' = PaidIn(d) /\ p \notin PaidIn(d) /\ p \notin EarnedIn(d)
       /\ \A d : d # c => EarnedIn(d)' = EarnedIn(d)
       /\ EarnedIn(c)' = EarnedIn(c) \union {p}
  BY <1>9, <1>12, <1>13, <1>14 DEF PaidIn, EarnedIn, NoEntry
<1>17. /\ Amounts'[p] = e.amount
       /\ \A x \in PurchaseIds : x # p => Amounts'[x] = Amounts[x] /\ Amounts[x] \in Nat
  BY <1>12, <1>14, LedgerTypes DEF Amounts
<1>18. RowsAddUp(next)'
  <2>1. ASSUME NEW d \in CycleIds
        PROVE  /\ RowOf(next, d)'.amount = Sum(Amounts', Held(next, d)')
               /\ RowOf(next, d)'.count = Cardinality(Held(next, d)')
    <3>1. /\ RowOf(q, d).amount = Sum(Amounts, Held(q, d))
          /\ RowOf(q, d).count = Cardinality(Held(q, d))
      BY <1>8 DEF Books, RowsAddUp
    <3>2. RowOf(q, d) = cycle[d] BY <1>8 DEF RowOf
    <3>3. IsFiniteSet(Held(q, d)) /\ Held(q, d) \subseteq PurchaseIds /\ p \notin Held(q, d)
      BY <1>16, HeldIsFinite DEF Held, EarnedIn, PaidIn
    <3>4. \A x \in Held(q, d) : Amounts[x] \in Nat /\ Amounts'[x] = Amounts[x]
      BY <1>17, <3>3
    <3>5. IsSettled(next, d)' <=> IsSettled(q, d)
      BY <1>8, <1>9, <1>10, <1>11 DEF IsSettled, Settling
    <3>6. CASE d = c
      <4>1. ~IsSettled(q, c) BY <1>12 DEF IsSettled, Collects
      <4>2. Held(next, d)' = Held(q, d) \union {p} BY <1>16, <3>5, <3>6, <4>1 DEF Held
      <4>3. RowOf(next, d)' = row BY <1>10, <1>11, <3>6 DEF RowOf
      <4>4. /\ Sum(Amounts', Held(q, d) \union {p}) = Sum(Amounts, Held(q, d)) + Amounts'[p]
            /\ Cardinality(Held(q, d) \union {p}) = Cardinality(Held(q, d)) + 1
        <5>1. PICK f, g, H : f = Amounts /\ g = Amounts' /\ H = Held(q, d) OBVIOUS
        <5>2. IsFiniteSet(H) /\ p \notin H BY <3>3, <5>1
        <5>3. \A x \in H : f[x] \in Nat /\ g[x] = f[x] BY <3>4, <5>1
        <5>4. g[p] \in Nat BY <1>13, <1>17, <5>1
        <5>5. /\ Sum(g, H \union {p}) = Sum(f, H) + g[p]
              /\ Cardinality(H \union {p}) = Cardinality(H) + 1
          BY <5>2, <5>3, <5>4, SumWith
        <5> QED BY <5>1, <5>5
      <4> QED BY <1>15, <1>17, <3>1, <3>2, <3>6, <4>2, <4>3, <4>4
    <3>7. CASE d # c
      <4>1. Held(next, d)' = Held(q, d) BY <1>16, <3>5, <3>7 DEF Held
      <4>2. RowOf(next, d)' = cycle[d] BY <1>9, <1>11, <3>7 DEF RowOf
      <4>3. Sum(Amounts', Held(q, d)) = Sum(Amounts, Held(q, d)) BY <3>3, <3>4, SumsAgree
      <4> QED BY <3>1, <3>2, <4>1, <4>2, <4>3
    <3> QED BY <3>6, <3>7
  <2> QED BY <2>1 DEF RowsAddUp
<1>19. EntriesFit(next)'
  <2>1. EntriesFit(q) BY <1>8 DEF Books
  <2>2. \A d : ~Settling(q, d) /\ ~Settling(next, d) BY <1>8, <1>10, <1>11 DEF Settling
  <2> QED BY <1>9, <1>12, <1>13, <1>14, <2>1, <2>2 DEF EntriesFit, IsSettled, Settling
<1>20. HoldsRows(next)' BY <1>8, <1>9, <1>10, <1>11, <1>12, <1>15 DEF HoldsRows
<1>21. QualifiedFits(next)'
  <2>1. Ever' BY <1>12, <1>13, <1>14 DEF Ever
  <2>2. place = "qualify" <=> q.first BY <1>6 DEF Afterwards
  <2> QED BY <1>9, <1>10, <1>11, <1>12, <2>1, <2>2 DEF QualifiedFits
<1>22. Books(next)' BY <1>18, <1>19, <1>20, <1>21 DEF Books
<1> QED BY <1>9, <1>22

(* The cycle of the entry that is reversed holds it no longer; what it is  *)
(* debited is what the entry was credited with.                            *)
LEMMA ReverseSaveKeepsBooks ==
  ASSUME LedgerInvariant, SerialFacts, Finitely, NEW r \in Requests, Books(req[r]), ReverseSave(r)
  PROVE  \E next : req' = [req EXCEPT ![r] = next] /\ Books(next)'
<1>1. PICK q : q = req[r] OBVIOUS
<1>2. PICK p : p = q.purchase OBVIOUS
<1>3. PICK c : c = q.cycle OBVIOUS
<1>4. PICK e : e = [q.entry EXCEPT !.status = "REVERSED"] OBVIOUS
<1>5. PICK next : next = [q EXCEPT !.at = "debit"] OBVIOUS
<1>6. /\ q \in Request /\ q.at = "saveReversed" /\ Books(q)
      /\ p \in PurchaseIds /\ q.entry = entry[p] /\ entry[p].status = "EARNED"
      /\ c \in CycleIds /\ cycle[c] \in Cycle /\ entry[p] \in Entry
  BY <1>1, <1>2, <1>3
     DEF LedgerInvariant, TypeOK, ReverseSave, At, SerialFacts, Follows, Sound
<1>7. /\ req' = [req EXCEPT ![r] = next]
      /\ entry' = [entry EXCEPT ![p] = e]
      /\ UNCHANGED <<cycle, qualified>>
  BY <1>1, <1>2, <1>4, <1>5 DEF ReverseSave
<1>8. c = entry[p].cycle /\ Collects(cycle[c])
  <2>1. c = entry[p].cycle BY <1>3, <1>6 DEF Books, HoldsRows
  <2>2. ~Settling(q, c) BY <1>6 DEF Settling
  <2> QED BY <1>6, <2>1, <2>2 DEF Books, EntriesFit
<1>9. next.at = "debit" /\ next.cycle = c /\ next.entry = entry[p]
  BY <1>3, <1>5, <1>6 DEF Request
<1>10. /\ e.status = "REVERSED" /\ e.amount = entry[p].amount /\ entry[p].amount \in Nat
       /\ e # NoEntry /\ entry[p] # NoEntry
  BY <1>4, <1>6 DEF Entry, NoEntry
<1>11. \A x \in PurchaseIds : entry'[x] = IF x = p THEN e ELSE entry[x]
  BY <1>7, LedgerTypes
<1>12. /\ \A d : PaidIn(d)' = PaidIn(d)
       /\ \A d : d # c => EarnedIn(d)' = EarnedIn(d)
       /\ EarnedIn(c)' = EarnedIn(c) \ {p} /\ p \in EarnedIn(c)
  BY <1>6, <1>8, <1>10, <1>11 DEF PaidIn, EarnedIn
<1>13. \A x \in PurchaseIds : Amounts'[x] = Amounts[x] /\ Amounts[x] \in Nat
  BY <1>10, <1>11, LedgerTypes DEF Amounts
<1>14. RowsAddUp(next)'
  <2>1. ASSUME NEW d \in CycleIds
        PROVE  /\ RowOf(next, d)'.amount = Sum(Amounts', Held(next, d)')
               /\ RowOf(next, d)'.count = Cardinality(Held(next, d)')
    <3>1. PICK f, g, H : f = Amounts /\ g = Amounts' /\ H = Held(q, d) OBVIOUS
    <3>2. cycle[d].amount = Sum(f, H) /\ cycle[d].count = Cardinality(H)
      <4>1. RowOf(q, d) = cycle[d] BY <1>6 DEF RowOf
      <4> QED BY <1>6, <3>1, <4>1 DEF Books, RowsAddUp
    <3>3. IsFiniteSet(H) BY <3>1, HeldIsFinite DEF Held
    <3>4. \A x \in H : f[x] \in Nat /\ g[x] = f[x]
      <4>1. H \subseteq PurchaseIds BY <3>1 DEF Held, EarnedIn, PaidIn
      <4> QED BY <1>13, <3>1, <4>1
    <3>5. IsSettled(next, d)' <=> IsSettled(q, d)
      BY <1>6, <1>7, <1>9 DEF IsSettled, Settling
    <3>6. CASE d = c
      <4>1. ~IsSettled(q, c) BY <1>8 DEF IsSettled, Collects
      <4>2. Held(next, d)' = H \ {p} /\ p \in H BY <1>12, <3>1, <3>5, <3>6, <4>1 DEF Held
      <4>3. RowOf(next, d)' = Debited(cycle[c], entry[p].amount)
        BY <1>7, <1>9, <3>6 DEF RowOf
      <4>4. /\ Sum(g, H \ {p}) \in Nat
            /\ Sum(f, H) = f[p] + Sum(g, H \ {p})
            /\ Cardinality(H) \in Nat \ {0} /\ Cardinality(H \ {p}) = Cardinality(H) - 1
        <5>1. p \in H /\ IsFiniteSet(H) BY <3>3, <4>2
        <5>2. (\A x \in H : f[x] \in Nat) /\ (\A x \in H \ {p} : g[x] = f[x]) BY <3>4
        <5> QED BY <5>1, <5>2, SumWithout
      <4>5. f[p] = entry[p].amount BY <1>6, <3>1 DEF Amounts
      <4>6. /\ Debited(cycle[c], entry[p].amount).amount = Sum(g, H \ {p})
            /\ Debited(cycle[c], entry[p].amount).count = cycle[c].count - 1
        <5>1. /\ cycle[c].amount = entry[p].amount + Sum(g, H \ {p})
              /\ cycle[c].count # 0
          BY <3>2, <3>6, <4>4, <4>5
        <5> QED BY <1>6, <1>10, <4>4, <5>1, DebitedTakes
      <4> QED BY <3>1, <3>2, <3>6, <4>2, <4>3, <4>4, <4>6
    <3>7. CASE d # c
      <4>1. Held(next, d)' = H BY <1>12, <3>1, <3>5, <3>7 DEF Held
      <4>2. RowOf(next, d)' = cycle[d] BY <1>7, <1>9, <3>7 DEF RowOf
      <4>3. Sum(g, H) = Sum(f, H) BY <3>3, <3>4, SumsAgree
      <4> QED BY <3>1, <3>2, <4>1, <4>2, <4>3
    <3> QED BY <3>6, <3>7
  <2> QED BY <2>1 DEF RowsAddUp
<1>15. EntriesFit(next)'
  <2>1. EntriesFit(q) BY <1>6 DEF Books
  <2>2. \A d : ~Settling(q, d) /\ ~Settling(next, d) BY <1>6, <1>9 DEF Settling
  <2> QED BY <1>7, <1>10, <1>11, <2>1, <2>2 DEF EntriesFit, IsSettled, Settling
<1>16. HoldsRows(next)' BY <1>6, <1>7, <1>8, <1>9 DEF HoldsRows
<1>17. QualifiedFits(next)'
  <2>1. Ever' /\ Ever BY <1>6, <1>10, <1>11 DEF Ever
  <2>2. QualifiedFits(q) BY <1>6 DEF Books
  <2> QED BY <1>6, <1>7, <1>9, <2>1, <2>2 DEF QualifiedFits
<1>18. Books(next)' BY <1>14, <1>15, <1>16, <1>17 DEF Books
<1> QED BY <1>7, <1>18

(* What a cycle that is settled held as earned it holds as paid.           *)
LEMMA PaySettleKeepsBooks ==
  ASSUME LedgerInvariant, NEW r \in Requests, Books(req[r]), PaySettle(r)
  PROVE  \E next : req' = [req EXCEPT ![r] = next] /\ Books(next)'
<1>1. PICK q : q = req[r] OBVIOUS
<1>2. PICK next : next = Idle OBVIOUS
<1>3. PICK c : c = q.cycle OBVIOUS
<1>4. /\ q.at = "settle" /\ Books(q) /\ next.at = "idle"
      /\ entry \in [PurchaseIds -> Entry]
      /\ req' = [req EXCEPT ![r] = next]
      /\ UNCHANGED <<cycle, qualified>>
  BY <1>1, <1>2 DEF LedgerInvariant, TypeOK, PaySettle, At, Finish, Idle
<1>5. c \in CycleIds /\ cycle[c].status = "PAID" BY <1>3, <1>4 DEF Books, HoldsRows
<1>6. \A d : Settling(q, d) <=> d = c BY <1>3, <1>4 DEF Settling
<1>7. \A d : ~Settling(next, d) BY <1>4 DEF Settling
<1>8. /\ \A x \in EarnedIn(c) :
           /\ entry'[x].status = "PAID" /\ entry'[x].amount = entry[x].amount
           /\ entry'[x].cycle = c /\ entry[x] # NoEntry /\ entry'[x] # NoEntry
      /\ \A x \in PurchaseIds \ EarnedIn(c) : entry'[x] = entry[x]
  BY <1>1, <1>3, <1>4 DEF PaySettle, SettledBy, EarnedIn, Entry, NoEntry
<1>9. EntriesFit(q) /\ PaidIn(c) = {}
  <2>1. EntriesFit(q) BY <1>4 DEF Books
  <2> QED BY <1>6, <2>1 DEF EntriesFit, IsSettled, PaidIn
<1>10. /\ PaidIn(c)' = EarnedIn(c)
       /\ \A d : d # c => PaidIn(d)' = PaidIn(d) /\ EarnedIn(d)' = EarnedIn(d)
  BY <1>8, <1>9 DEF PaidIn, EarnedIn
<1>11. Amounts' = Amounts
  <2>1. \A x \in PurchaseIds : entry'[x].amount = entry[x].amount BY <1>8 DEF EarnedIn
  <2> QED BY <2>1 DEF Amounts
<1>12. RowsAddUp(next)'
  <2>1. ASSUME NEW d \in CycleIds
        PROVE  /\ RowOf(next, d)'.amount = Sum(Amounts', Held(next, d)')
               /\ RowOf(next, d)'.count = Cardinality(Held(next, d)')
    <3>1. /\ RowOf(q, d).amount = Sum(Amounts, Held(q, d))
          /\ RowOf(q, d).count = Cardinality(Held(q, d))
      BY <1>4 DEF Books, RowsAddUp
    <3>2. RowOf(next, d)' = RowOf(q, d) BY <1>4 DEF RowOf
    <3>3. Held(next, d)' = Held(q, d)
      <4>1. CASE d = c BY <1>4, <1>5, <1>6, <1>7, <1>10, <4>1 DEF Held, IsSettled
      <4>2. CASE d # c BY <1>4, <1>6, <1>7, <1>10, <4>2 DEF Held, IsSettled
      <4> QED BY <4>1, <4>2
    <3> QED BY <1>11, <3>1, <3>2, <3>3
  <2> QED BY <2>1 DEF RowsAddUp
<1>13. EntriesFit(next)'
  <2>1. ASSUME NEW x \in PurchaseIds
        PROVE  /\ entry'[x].status = "EARNED" => Collects(cycle[entry'[x].cycle])
               /\ entry'[x].status = "PAID" => IsSettled(next, entry'[x].cycle)
    <3>1. CASE x \in EarnedIn(c) BY <1>5, <1>7, <1>8, <3>1 DEF IsSettled
    <3>2. CASE x \notin EarnedIn(c)
      <4>1. entry'[x] = entry[x] BY <1>8, <3>2
      <4> QED BY <1>6, <1>7, <1>9, <3>2, <4>1 DEF EntriesFit, IsSettled, EarnedIn
    <3> QED BY <3>1, <3>2
  <2> QED BY <1>4, <2>1 DEF EntriesFit, IsSettled
<1>14. HoldsRows(next)' BY <1>4 DEF HoldsRows
<1>15. QualifiedFits(next)'
  <2>1. Ever' <=> Ever BY <1>8 DEF Ever, EarnedIn
  <2>2. QualifiedFits(q) BY <1>4 DEF Books
  <2> QED BY <1>4, <2>1, <2>2 DEF QualifiedFits
<1>16. Books(next)' BY <1>12, <1>13, <1>14, <1>15 DEF Books
<1> QED BY <1>4, <1>16

-----------------------------------------------------------------------------
(* A step adds at most one entry and one cycle.                            *)
LEMMA StaysFinite ==
  ASSUME LedgerInvariant, Finitely, [Next]_vars
  PROVE  Finitely'
<1> DEFINE E == {p \in PurchaseIds : entry[p] # NoEntry}
           C == {c \in CycleIds : cycle[c] # NoRow}
<1>1. IsFiniteSet(E) /\ IsFiniteSet(C) BY DEF Finitely
<1>2. \E p : \A x \in PurchaseIds : x # p /\ entry[x] = NoEntry => entry'[x] = NoEntry
  <2>1. ASSUME NEW r \in Requests, EntrySave(r) \/ ReverseSave(r)
        PROVE  \A x \in PurchaseIds : x # req[r].purchase => entry'[x] = entry[x]
    BY <2>1, LedgerTypes DEF EntrySave, ReverseSave
  <2>2. ASSUME NEW r \in Requests, PaySettle(r)
        PROVE  \A x \in PurchaseIds : entry[x] = NoEntry => entry'[x] = NoEntry
    BY <2>2 DEF PaySettle, SettledBy, NoEntry
  <2>3. \/ UNCHANGED entry
        \/ \E r \in Requests : EntrySave(r) \/ ReverseSave(r) \/ PaySettle(r)
    BY DEF Next, HandlerStep, vars, ledger, RecordRead, ReverseRead, PayRead, Starts, Fail,
           CycleFind, CycleCreate, EntryRefused, Qualify, AlertAdmins, CycleSave, ReverseDebit,
           PaySave, UpsertPartner, PurchasePaid, PurchaseRefunded
  <2> QED BY <2>1, <2>2, <2>3
<1>3. \E c : \A x \in CycleIds : x # c => cycle'[x] = cycle[x]
  <2>1. ASSUME NEW r \in Requests, NEW c \in CycleIds, CycleCreate(r, c)
        PROVE  \A x \in CycleIds : x # c => cycle'[x] = cycle[x]
    BY <2>1, LedgerTypes DEF CycleCreate
  <2>2. ASSUME NEW r \in Requests, CycleSave(r) \/ PaySave(r)
        PROVE  \A x \in CycleIds : x # req[r].cycle => cycle'[x] = cycle[x]
    BY <2>2, LedgerTypes DEF CycleSave, PaySave
  <2>3. \/ UNCHANGED cycle
        \/ \E r \in Requests : CycleSave(r) \/ PaySave(r) \/ \E c \in CycleIds : CycleCreate(r, c)
    BY DEF Next, HandlerStep, vars, ledger, RecordRead, ReverseRead, PayRead, Starts, Fail,
           CycleFind, EntrySave, EntryRefused, Qualify, AlertAdmins, ReverseSave, ReverseDebit,
           PaySettle, UpsertPartner, PurchasePaid, PurchaseRefunded
  <2> QED BY <2>1, <2>2, <2>3
<1>4. PICK p, c : E' \subseteq E \union {p} /\ C' \subseteq C \union {c}
  BY <1>2, <1>3
<1>5. IsFiniteSet(E \union {p}) /\ IsFiniteSet(C \union {c}) BY <1>1, FS_AddElement
<1>6. IsFiniteSet(E') /\ IsFiniteSet(C') BY <1>4, <1>5, FS_Subset
<1> QED BY <1>6 DEF Finitely

LEMMA StepsKeepBooks == BooksInvariant /\ [Next]_vars => BooksInvariant'
<1> SUFFICES ASSUME BooksInvariant, [Next]_vars PROVE BooksInvariant' OBVIOUS
<1>1. SerialInvariant' /\ Finitely'
  BY StepsKeepSerial, StaysFinite DEF BooksInvariant, SerialInvariant
<1>2. ASSUME overlaps' = 0, failures' = 0 PROVE Books(Pending)'
  <2>1. /\ LedgerInvariant /\ SerialFacts /\ Finitely /\ OneUnderWay
        /\ overlaps = 0
    BY <1>2, OverlapsStay DEF BooksInvariant, SerialInvariant, SerialFacts
  <2>2. failures = 0 /\ ~\E r \in Requests : Fail(r)
    <3>1. failures \in Nat BY <2>1, BoundAssumption DEF LedgerInvariant, TypeOK
    <3>2. failures' = failures \/ failures' = failures + 1
      BY DEF Next, HandlerStep, vars, RecordRead, ReverseRead, PayRead, Starts, Fail, CycleFind,
             CycleCreate, EntrySave, EntryRefused, Qualify, AlertAdmins, CycleSave, ReverseSave,
             ReverseDebit, PaySave, PaySettle, UpsertPartner, PurchasePaid, PurchaseRefunded
    <3> QED BY <1>2, <3>1, <3>2 DEF Fail
  <2>3. Books(Pending) BY <2>1, <2>2 DEF BooksInvariant
  <2>4. req \in [Requests -> Request] BY <2>1, LedgerTypes
  <2>5. ASSUME NEW r \in Requests, \A s \in Requests : s # r => req[s] = Idle,
               \E next : req' = [req EXCEPT ![r] = next] /\ Books(next)'
        PROVE  Books(Pending)'
    <3>1. PICK next : req' = [req EXCEPT ![r] = next] /\ Books(next)' BY <2>5
    <3>2. Pending' = next BY <2>4, <2>5, <3>1, PendingIs
    <3> QED BY <3>1, <3>2
  <2>6. CASE \E r \in Requests :
               \/ \E p \in PurchaseIds : RecordRead(r, p) \/ ReverseRead(r, p)
               \/ \E c \in CycleIds : PayRead(r, c)
    <3>1. PICK r \in Requests :
               \/ \E p \in PurchaseIds : RecordRead(r, p) \/ ReverseRead(r, p)
               \/ \E c \in CycleIds : PayRead(r, c)
      BY <2>6
    <3>2. \E next : Starts(r, next) BY <3>1 DEF RecordRead, ReverseRead, PayRead
    <3>3. ~Busy
      <4>1. Busy => overlaps' = overlaps + 1 BY <3>2 DEF Starts
      <4> QED BY <1>2, <2>1, <4>1
    <3>4. Pending = Idle /\ \A s \in Requests : req[s] = Idle
      <4>1. \A s \in Requests : req[s] = Idle BY <3>3 DEF Busy
      <4> QED BY <3>3, <4>1 DEF Pending
    <3>5. Books(Idle) BY <2>3, <3>4
    <3>6. \E next : req' = [req EXCEPT ![r] = next] /\ Books(next)'
      <4>1. CASE \E p \in PurchaseIds : RecordRead(r, p) BY <2>1, <3>5, <4>1, RecordReadKeepsBooks
      <4>2. CASE \E p \in PurchaseIds : ReverseRead(r, p) BY <2>1, <3>5, <4>2, ReverseReadKeepsBooks
      <4>3. CASE \E c \in CycleIds : PayRead(r, c) BY <2>1, <3>5, <4>3, PayReadKeepsBooks
      <4> QED BY <3>1, <4>1, <4>2, <4>3
    <3> QED BY <2>5, <3>4, <3>6
  <2>7. CASE \E r \in Requests : HandlerStep(r)
    <3>1. PICK r \in Requests : HandlerStep(r) BY <2>7
    <3>2. req[r] # Idle
      <4>1. req[r].at \in Places \ {"idle"}
        <5>1. \E place \in Places \ {"idle"} : At(r, place)
          BY <3>1 DEF HandlerStep, CycleFind, CycleCreate, EntrySave, EntryRefused, Qualify,
             AlertAdmins, CycleSave, ReverseSave, ReverseDebit, PaySave, PaySettle, Places
        <5> QED BY <5>1 DEF At
      <4> QED BY <4>1 DEF Idle
    <3>3. \A s \in Requests : s # r => req[s] = Idle BY <2>1, <3>2 DEF OneUnderWay
    <3>4. Pending = req[r]
      <4>1. Busy BY <3>2 DEF Busy
      <4>2. (CHOOSE s \in Requests : req[s] # Idle) = r BY <3>2, <3>3
      <4> QED BY <4>1, <4>2 DEF Pending
    <3>5. Books(req[r]) BY <2>3, <3>4
    <3>6. \E next : req' = [req EXCEPT ![r] = next] /\ Books(next)'
      BY <2>1, <3>1, <3>5, CycleFindKeepsBooks, CycleCreateKeepsBooks, EntrySaveKeepsBooks,
         EntryRefusedKeepsBooks, QualifyKeepsBooks, AlertAdminsKeepsBooks, CycleSaveKeepsBooks,
         ReverseSaveKeepsBooks, ReverseDebitKeepsBooks, PaySaveKeepsBooks, PaySettleKeepsBooks
         DEF HandlerStep
    <3> QED BY <2>5, <3>3, <3>6
  <2>8. CASE \/ \E terms \in Profiles : UpsertPartner(terms)
             \/ \E p \in PurchaseIds : PurchasePaid(p)
             \/ \E p \in PurchaseIds : PurchaseRefunded(p)
             \/ UNCHANGED vars
    <3>1. UNCHANGED <<entry, cycle, qualified, req>>
      BY <2>8 DEF UpsertPartner, PurchasePaid, PurchaseRefunded, vars, ledger
    <3>2. PICK q : q = Pending OBVIOUS
    <3>3. Pending' = q BY <3>1, <3>2 DEF Pending, Busy
    <3>4. Books(q)'
      <4>1. Books(q) BY <2>3, <3>2
      <4>2. HoldsRows(q)' BY <3>1, <4>1 DEF Books, HoldsRows
      <4>3. QualifiedFits(q)' BY <3>1, <4>1 DEF Books, QualifiedFits, Ever
      <4>4. \A c : RowOf(q, c)' = RowOf(q, c) /\ (IsSettled(q, c)' <=> IsSettled(q, c))
        BY <3>1 DEF RowOf, IsSettled
      <4> QED BY <2>1, <3>1, <4>1, <4>2, <4>3, <4>4, BooksStay
    <3> QED BY <3>3, <3>4
  <2> QED BY <2>2, <2>6, <2>7, <2>8 DEF Next
<1> QED BY <1>1, <1>2 DEF BooksInvariant

LEMMA InitialBooks == Init => BooksInvariant
<1> SUFFICES ASSUME Init PROVE BooksInvariant OBVIOUS
<1>1. SerialInvariant BY InitialSerial
<1>2. /\ \A p \in PurchaseIds : entry[p] = NoEntry
      /\ \A c \in CycleIds : cycle[c] = NoRow
      /\ qualified = NoPurchase
  BY DEF Init
<1>3. Finitely
  <2>1. /\ {p \in PurchaseIds : entry[p] # NoEntry} = {}
        /\ {c \in CycleIds : cycle[c] # NoRow} = {}
    BY <1>2
  <2> QED BY <2>1, FS_EmptySet DEF Finitely
<1>4. Pending = Idle BY DEF Init, Pending, Busy
<1>5. Books(Idle)
  <2>1. RowsAddUp(Idle)
    <3>1. \A c \in CycleIds : RowOf(Idle, c).amount = 0 /\ RowOf(Idle, c).count = 0
      BY <1>2 DEF RowOf, Idle, NoRow
    <3>2. \A c : Held(Idle, c) = {} BY <1>2 DEF Held, EarnedIn, PaidIn, NoEntry
    <3> QED BY <3>1, <3>2, EmptySum, FS_EmptySet DEF RowsAddUp
  <2>2. EntriesFit(Idle) BY <1>2 DEF EntriesFit, NoEntry
  <2>3. HoldsRows(Idle) BY DEF HoldsRows, Idle
  <2>4. QualifiedFits(Idle) BY <1>2 DEF QualifiedFits, Idle, Ever
  <2> QED BY <2>1, <2>2, <2>3, <2>4 DEF Books
<1> QED BY <1>1, <1>3, <1>4, <1>5 DEF BooksInvariant

LEMMA BooksAlways == Spec => []BooksInvariant
BY InitialBooks, StepsKeepBooks, PTL DEF Spec
-----------------------------------------------------------------------------
(* The sums of the model are sums of a function.                           *)
LEMMA SumOfEntries ==
  ASSUME NEW S \in SUBSET PurchaseIds, IsFiniteSet(S)
  PROVE  MapThenSumSet(LAMBDA p : entry[p].amount, S) = Sum(Amounts, S)
<1> DEFINE Adds(g) ==
      g = [s \in SUBSET S |-> IF s = {} THEN 0 ELSE entry[Any(s)].amount + g[s \ {Any(s)}]]
<1>1. MapThenSumSet(LAMBDA p : entry[p].amount, S) = (CHOOSE g : Adds(g))[S]
  BY DEF MapThenSumSet, MapThenFoldSet, Any
<1>2. \A s \in SUBSET S : s # {} => Amounts[Any(s)] = entry[Any(s)].amount
  BY DEF Any, Amounts
<1>3. \A g : Adds(g) <=> AddsUp(g, Amounts, SUBSET S)
  BY <1>2 DEF AddsUp
<1> HIDE DEF Adds
<1>4. PICK g : g = (CHOOSE h : Adds(h)) OBVIOUS
<1>5. AddsUp(g, Amounts, SUBSET S)
  <2>1. \E h : Adds(h) BY <1>3, AddingExists
  <2>2. Adds(g) BY <1>4, <2>1
  <2> QED BY <1>3, <2>2
<1> QED BY <1>1, <1>4, <1>5, SumAnyhow

Totals == [c \in CycleIds |-> cycle[c].amount]

LEMMA SumOfCycles ==
  ASSUME NEW S \in SUBSET CycleIds, IsFiniteSet(S)
  PROVE  MapThenSumSet(LAMBDA c : cycle[c].amount, S) = Sum(Totals, S)
<1> DEFINE Adds(g) ==
      g = [s \in SUBSET S |-> IF s = {} THEN 0 ELSE cycle[Any(s)].amount + g[s \ {Any(s)}]]
<1>1. MapThenSumSet(LAMBDA c : cycle[c].amount, S) = (CHOOSE g : Adds(g))[S]
  BY DEF MapThenSumSet, MapThenFoldSet, Any
<1>2. \A s \in SUBSET S : s # {} => Totals[Any(s)] = cycle[Any(s)].amount
  BY DEF Any, Totals
<1>3. \A g : Adds(g) <=> AddsUp(g, Totals, SUBSET S)
  BY <1>2 DEF AddsUp
<1> HIDE DEF Adds
<1>4. PICK g : g = (CHOOSE h : Adds(h)) OBVIOUS
<1>5. AddsUp(g, Totals, SUBSET S)
  <2>1. \E h : Adds(h) BY <1>3, AddingExists
  <2>2. Adds(g) BY <1>4, <2>1
  <2> QED BY <1>3, <2>2
<1> QED BY <1>1, <1>4, <1>5, SumAnyhow

(* Between requests, what the invariant says of the request under way it   *)
(* says of the cycles.                                                     *)
LEMMA QuietBooks ==
  ASSUME BooksInvariant, Quiet
  PROVE  /\ LedgerInvariant /\ Finitely /\ Books(Idle) /\ OneUnpaid
         /\ \A c \in CycleIds :
              /\ cycle[c].amount = Sum(Amounts, Holding(c))
              /\ cycle[c].count = Cardinality(Holding(c))
         /\ \A c \in CycleIds :
              Holding(c) = IF cycle[c].status = "PAID" THEN PaidIn(c) ELSE EarnedIn(c)
<1>1. Pending = Idle BY DEF Quiet, Pending
<1>2. LedgerInvariant /\ Finitely /\ Books(Idle) /\ OneUnpaid
  BY <1>1 DEF BooksInvariant, SerialInvariant, SerialFacts, Quiet
<1>3. \A c \in CycleIds : Holding(c) = IF cycle[c].status = "PAID" THEN PaidIn(c) ELSE EarnedIn(c)
  BY DEF Holding, PaidIn, EarnedIn
<1>4. \A c \in CycleIds : Held(Idle, c) = Holding(c)
  BY <1>3 DEF Held, IsSettled, Settling, Idle
<1>5. \A c : RowOf(Idle, c) = cycle[c] BY DEF RowOf, Idle
<1>6. RowsAddUp(Idle) BY <1>2 DEF Books
<1> QED BY <1>2, <1>3, <1>4, <1>5, <1>6 DEF RowsAddUp

LEMMA BooksOfCycles ==
  ASSUME BooksInvariant
  PROVE  CyclesAddUp
<1> SUFFICES ASSUME Quiet, NEW c \in CycleIds
             PROVE  /\ cycle[c].amount = MapThenSumSet(LAMBDA p : entry[p].amount, Holding(c))
                    /\ cycle[c].count = Cardinality(Holding(c))
  BY DEF CyclesAddUp
<1>1. PICK S : S = Holding(c) OBVIOUS
<1>2. S \in SUBSET PurchaseIds /\ IsFiniteSet(S)
  BY <1>1, QuietBooks, HeldIsFinite DEF Holding
<1>3. MapThenSumSet(LAMBDA p : entry[p].amount, S) = Sum(Amounts, S) BY <1>2, SumOfEntries
<1> QED BY <1>1, <1>3, QuietBooks

(* What is pending is in the cycle that collects, what is paid in those    *)
(* that are paid.                                                          *)
LEMMA BooksOfStats ==
  ASSUME BooksInvariant
  PROVE  StatsAgreeWithCycles
<1> SUFFICES ASSUME Quiet
             PROVE  /\ Stats.pending = Stats.open.amount
                    /\ Stats.earned - Stats.pending =
                         MapThenSumSet(LAMBDA c : cycle[c].amount,
                                       {c \in CycleIds : cycle[c].status = "PAID"})
                    /\ Stats.qualified = 1 <=> \E p \in PurchaseIds : entry[p] # NoEntry
  BY DEF StatsAgreeWithCycles
<1>1. /\ LedgerInvariant /\ Finitely /\ Books(Idle) /\ OneUnpaid
      /\ EntriesFit(Idle) /\ QualifiedFits(Idle)
  BY QuietBooks DEF Books
<1>2. \A c : ~Settling(Idle, c) BY DEF Settling, Idle
<1> DEFINE E == {p \in PurchaseIds : entry[p].status \in {"EARNED"}}
           P == {p \in PurchaseIds : entry[p].status \in {"PAID"}}
           C == {c \in CycleIds : cycle[c].status = "PAID"}
           A == {p \in PurchaseIds : entry[p] # NoEntry}
<1>3. IsFiniteSet(E) /\ IsFiniteSet(P) /\ IsFiniteSet(C)
  <2>1. E \subseteq A /\ P \subseteq A BY DEF NoEntry
  <2>2. C \subseteq {c \in CycleIds : cycle[c] # NoRow} BY DEF NoRow
  <2> QED BY <1>1, <2>1, <2>2, FS_Subset DEF Finitely
<1>4. \A p \in PurchaseIds : Amounts[p] \in Nat BY <1>1, LedgerTypes
<1>5. /\ PendingCents = Sum(Amounts, E)
      /\ EntriesTotal({"PAID"}) = Sum(Amounts, P)
      /\ Sum(Amounts, E) \in Nat /\ Sum(Amounts, P) \in Nat
  <2>1. PendingCents = MapThenSumSet(LAMBDA p : entry[p].amount, E)
    BY DEF PendingCents, EntriesTotal
  <2>2. EntriesTotal({"PAID"}) = MapThenSumSet(LAMBDA p : entry[p].amount, P)
    BY DEF EntriesTotal
  <2>3. E \in SUBSET PurchaseIds /\ P \in SUBSET PurchaseIds OBVIOUS
  <2> HIDE DEF E, P
  <2>4. (\A x \in E : Amounts[x] \in Nat) /\ (\A x \in P : Amounts[x] \in Nat) BY <1>4, <2>3
  <2> QED BY <1>3, <2>1, <2>2, <2>3, <2>4, SumOfEntries, SumIsNat
<1>6. \A p \in PurchaseIds :
        /\ entry[p].status = "EARNED" => entry[p].cycle \in Unpaid
        /\ entry[p].status = "PAID" => entry[p].cycle \in C
  <2>1. \A p \in PurchaseIds : entry[p].status \in {"EARNED", "PAID"} => entry[p].cycle \in CycleIds
    BY <1>1 DEF LedgerInvariant, EntriesHaveCycles
  <2> QED BY <1>1, <1>2, <2>1 DEF EntriesFit, IsSettled, Unpaid, Collects
<1>7. Stats.open.amount = Sum(Amounts, E)
  <2>1. CASE Unpaid = {}
    <3>1. E = {} BY <1>6, <2>1
    <3>2. Stats.open.amount = 0 BY <2>1 DEF Stats, NoRow
    <3> QED BY <3>1, <3>2, EmptySum
  <2>2. CASE Unpaid # {}
    <3>1. PICK c : c = (CHOOSE d \in Unpaid : TRUE) OBVIOUS
    <3>2. c \in Unpaid BY <2>2, <3>1
    <3>3. \A d \in Unpaid : d = c BY <1>1, <3>2 DEF OneUnpaid
    <3>4. c \in CycleIds /\ cycle[c].status # "PAID" BY <3>2 DEF Unpaid
    <3>5. E = EarnedIn(c) BY <1>6, <3>3 DEF EarnedIn
    <3>6. Holding(c) = E BY <3>4, <3>5, QuietBooks
    <3>7. cycle[c].amount = Sum(Amounts, E) BY <3>4, <3>6, QuietBooks
    <3> QED BY <2>2, <3>1, <3>7 DEF Stats
  <2> QED BY <2>1, <2>2
<1>8. Sum(Amounts, P) = MapThenSumSet(LAMBDA c : cycle[c].amount, C)
  <2>1. PICK part : part = [c \in C |-> PaidIn(c)] OBVIOUS
  <2>2. \A c \in C : part[c] = PaidIn(c) /\ Holding(c) = PaidIn(c) BY <2>1, QuietBooks
  <2>3. P = UNION {part[c] : c \in C} BY <1>6, <2>2 DEF PaidIn
  <2>4. \A c, d \in C : c # d => part[c] \cap part[d] = {} BY <2>2 DEF PaidIn
  <2>5. \A c \in C : part[c] \subseteq P /\ Totals[c] = Sum(Amounts, part[c])
    <3>1. \A c \in C : Totals[c] = cycle[c].amount BY DEF Totals
    <3> QED BY <2>2, <2>3, <3>1, QuietBooks
  <2>6. C \in SUBSET CycleIds OBVIOUS
  <2>7. \A x \in P : Amounts[x] \in Nat BY <1>4
  <2> HIDE DEF C, P
  <2>8. MapThenSumSet(LAMBDA c : cycle[c].amount, C) = Sum(Totals, C)
    BY <1>3, <2>6, SumOfCycles
  <2>9. Sum(Totals, C) = Sum(Amounts, UNION {part[c] : c \in C})
    BY <1>3, <2>4, <2>5, <2>7, SumOfSums
  <2> QED BY <2>3, <2>8, <2>9
<1>9. /\ Stats.pending = PendingCents
      /\ Stats.earned = PendingCents + EntriesTotal({"PAID"})
      /\ Stats.qualified = IF qualified = NoPurchase THEN 0 ELSE 1
  BY DEF Stats
<1>10. Stats.earned - Stats.pending = Sum(Amounts, P)
  <2> HIDE DEF E, P
  <2> QED BY <1>5, <1>9
<1>11. Stats.qualified = 1 <=> \E p \in PurchaseIds : entry[p] # NoEntry
  <2>1. qualified # NoPurchase <=> Ever BY <1>1 DEF QualifiedFits, Idle
  <2> QED BY <1>9, <2>1 DEF Ever
<1> QED BY <1>5, <1>7, <1>8, <1>9, <1>10, <1>11

(* As long as no two handlers overlap and none fails, and whatever the     *)
(* order of records, refunds, payouts and changes of the terms, between    *)
(* requests the total and the count of every cycle are those of the        *)
(* entries it holds, and what the partner is shown is what the cycles say. *)
THEOREM TheBooksBalance == Spec => []BalancesAddUp
<1>1. BooksInvariant => BalancesAddUp
  BY BooksOfCycles, BooksOfStats
     DEF BalancesAddUp, BooksInvariant, SerialInvariant, LedgerInvariant
<1> QED BY <1>1, BooksAlways, PTL

-----------------------------------------------------------------------------
(***************************************************************************)
(* Curriculum.  Its requests, their bound and their variables have the     *)
(* names of the ledger's; nothing is said of the two together.             *)
(***************************************************************************)
CONSTANTS MaxModules, MaxLessons, Minutes, Prices
VARIABLES course, enrolled, module, lesson, added

Cur == INSTANCE Curriculum

(* What Curriculum assumes of its constants and the proofs need.           *)
CourseConstants ==
  /\ Minutes \subseteq Nat
  /\ Prices \subseteq Nat \ {0}
  /\ {MaxModules, MaxLessons, MaxDisturbances} \subseteq Nat

(* What a request holds: a row of the course that has a price if it is     *)
(* paid, ids, positions and an order.                                      *)
HasFairPrice(row) == row.status \in Cur!CourseStatus => (row.pricing = "PAID" <=> row.price > 0)

IsEdit(edit) ==
  /\ edit \in [at: Cur!Places, course: Cur!Course, of: Cur!ModuleIds \union {0}, id: Nat,
               position: Nat, minutes: Nat, order: {edit.order}, total: Nat,
               resum: BOOLEAN, alone: BOOLEAN]
  /\ \A i \in DOMAIN edit.order : edit.order[i] \in Nat
  /\ HasFairPrice(edit.course)
  /\ edit.at \in {"saveCourse", "countLessons"} => edit.course.status \in Cur!CourseStatus
  /\ edit.at = "saveLesson" => edit.of # 0
  /\ edit.at = "idle" => edit = Cur!Idle

(* There is no outline before there is a course.                           *)
OutlineFollows ==
  course.status = "NONE" => course = Cur!NoCourse /\ ~enrolled /\ Cur!Listed(0) = {}

RowsAreSane ==
  /\ course \in Cur!Course
  /\ enrolled \in BOOLEAN
  /\ module \in [Cur!ModuleIds -> Cur!Module]
  /\ lesson \in [Cur!LessonIds -> Cur!Lesson]
  /\ added \in [modules: 0..MaxModules, lessons: 0..MaxLessons]
  /\ \A l \in Cur!LessonIds : lesson[l].module \in Cur!Listed(0) \union {0}
  /\ HasFairPrice(course)
  /\ OutlineFollows

CourseIsSane ==
  /\ RowsAreSane
  /\ overlaps \in Nat /\ failures \in Nat
  /\ DOMAIN req = Requests
  /\ \A r \in Requests : IsEdit(req[r])

(* What a request has loaded is still so as long as nothing overlaps it.   *)
Knows(edit) ==
  LET of == edit.of
      id == edit.id
      new == id = 0
  IN
  /\ edit.at \in {"saveCourse", "countLessons"} =>
       /\ edit.course.enrollmentCount = course.enrollmentCount
       /\ edit.course.duration = course.duration
       /\ Cur!Exists \/ course.status = "NONE"
  /\ edit.at = "saveModule" =>
       IF new THEN edit.position = Cardinality(Cur!Listed(0))
              ELSE id \in Cur!Listed(0) /\ edit.position = module[id].position
  /\ edit.at = "deleteModule" => of = 0
  /\ edit.at = "saveLesson" =>
       /\ of \in Cur!Listed(0)
       /\ IF new THEN edit.position = Cardinality(Cur!Listed(of)) /\ edit.resum
                 ELSE /\ id \in Cur!Listed(of) /\ edit.position = lesson[id].position
                      /\ ~edit.resum => edit.minutes = lesson[id].minutes
  /\ edit.at = "deleteLesson" => of \in Cur!Listed(0) /\ id \in Cur!Listed(of)
  /\ edit.at = "find" => edit.resum
  /\ edit.at = "order" => edit.order \in Cur!Orders(of)
  /\ edit.at = "writeDuration" => edit.total = Cur!TotalMinutes

LoneEdits ==
  \A r \in Requests : Cur!Under(r) /\ req[r].alone =>
    /\ \A s \in Requests : Cur!Under(s) => s = r
    /\ Knows(req[r])

(* The edit under way, as long as nothing overlaps.                        *)
Editing == IF Cur!Busy THEN req[CHOOSE r \in Requests : Cur!Under(r)] ELSE Cur!Idle

(* As long as nothing has overlapped, the counter is that of the learners, *)
(* and who removes the course has seen none.                               *)
CountedBy(edit) ==
  /\ course.enrollmentCount = IF enrolled THEN 1 ELSE 0
  /\ edit.at = "deleteCourse" => ~enrolled

CourseIsCounted ==
  overlaps = 0 => CountedBy(Editing) /\ \A r \in Requests : Cur!Under(r) => req[r].alone

(* Until something overlaps or fails, ids are given out in order, rows are  *)
(* out of order only until they are listed and numbered, and the duration  *)
(* is wrong only until it is summed.                                       *)
Renumbers(edit, of) == edit.at \in {"find", "order"} /\ edit.of = of

Resumming(edit) ==
  \/ edit.at \in {"find", "sum", "writeDuration"}
  \/ edit.at = "order" /\ edit.resum

IdsFollow ==
  /\ \A m \in Cur!ModuleIds : module[m].there => m <= added.modules
  /\ \A l \in Cur!LessonIds : lesson[l].module # 0 => l <= added.lessons

KeptBy(edit) ==
  /\ IdsFollow
  /\ \A of \in Cur!ModuleIds \union {0} : Cur!Dense(of) \/ Renumbers(edit, of)
  /\ Cur!Exists => course.duration = Cur!TotalMinutes \/ Resumming(edit)

CourseIsKept == overlaps = 0 /\ failures = 0 => KeptBy(Editing)

CourseInvariant == CourseIsSane /\ LoneEdits /\ CourseIsCounted /\ CourseIsKept

-----------------------------------------------------------------------------
LEMMA CourseIds ==
  ASSUME CourseConstants
  PROVE  /\ MaxModules \in Nat /\ MaxLessons \in Nat
         /\ Cur!ModuleIds \subseteq Nat \ {0} /\ IsFiniteSet(Cur!ModuleIds)
         /\ Cur!LessonIds \subseteq Nat \ {0} /\ IsFiniteSet(Cur!LessonIds)
<1>1. MaxModules \in Nat /\ MaxLessons \in Nat BY DEF CourseConstants
<1>2. \A n \in Nat : IsFiniteSet(1..n) BY FS_Interval
<1> QED BY <1>1, <1>2 DEF Cur!ModuleIds, Cur!LessonIds

LEMMA SameCardinality == \A S : Cur!Cardinality(S) = Cardinality(S)
BY DEF Cur!Cardinality, Cardinality

LEMMA ListedIsFinite ==
  ASSUME CourseConstants
  PROVE  \A of \in Cur!ModuleIds \union {0} :
           IsFiniteSet(Cur!Listed(of)) /\ Cardinality(Cur!Listed(of)) \in Nat
<1>1. \A of : Cur!Listed(of) \subseteq Cur!ModuleIds \/ Cur!Listed(of) \subseteq Cur!LessonIds
  BY DEF Cur!Listed
<1> QED BY <1>1, CourseIds, FS_Subset, FS_CardinalityType

(* A row that is put behind the rows of a list leaves them dense.          *)
LEMMA AppendedIsDense ==
  ASSUME NEW S, IsFiniteSet(S), NEW f, NEW g, NEW x, x \notin S,
         {f[i] : i \in S} = 0..Cardinality(S) - 1,
         \A i \in S : g[i] = f[i], g[x] = Cardinality(S)
  PROVE  {g[i] : i \in S \union {x}} = 0..Cardinality(S \union {x}) - 1
<1>1. PICK n : n = Cardinality(S) OBVIOUS
<1>2. n \in Nat BY <1>1, FS_CardinalityType
<1>3. Cardinality(S \union {x}) = n + 1 BY <1>1, FS_AddElement
<1>4. {g[i] : i \in S \union {x}} = {f[i] : i \in S} \union {n} BY <1>1
<1>5. (n + 1) - 1 = n /\ (0..n - 1) \union {n} = 0..n BY <1>2
<1> QED BY <1>1, <1>3, <1>4, <1>5

(* A new order of the rows of a list leaves them dense: what gives each a  *)
(* place of its own leaves no gap.                                         *)
LEMMA OrderIsDense ==
  ASSUME NEW S, IsFiniteSet(S), NEW order \in [S -> 0..Cardinality(S) - 1], Cur!IsInjective(order)
  PROVE  {order[i] : i \in S} = 0..Cardinality(S) - 1
<1>1. PICK n : n = Cardinality(S) OBVIOUS
<1>2. n \in Nat BY <1>1, FS_CardinalityType
<1>3. IsFiniteSet(0..n - 1) /\ Cardinality(0..n - 1) = n BY <1>2, FS_Interval
<1>4. PICK T : T = 0..n - 1 OBVIOUS
<1>5. order \in Injection(S, T) BY <1>1, <1>4 DEF Injection, IsInjective, Cur!IsInjective
<1>6. order \in Surjection(S, T) BY <1>1, <1>3, <1>4, <1>5, FS_Injection
<1>7. \A t \in T : \E i \in S : order[i] = t BY <1>6 DEF Surjection
<1>8. \A i \in S : order[i] \in T BY <1>1, <1>4
<1> QED BY <1>1, <1>4, <1>7, <1>8

-----------------------------------------------------------------------------
(* The minutes of the lessons as a function, and their total as its sum.   *)
Lasts == [l \in Cur!LessonIds |-> lesson[l].minutes]

LEMMA TotalIsSum == CourseConstants => Cur!TotalMinutes = Sum(Lasts, Cur!LessonsThere)
<1> SUFFICES ASSUME CourseConstants PROVE Cur!TotalMinutes = Sum(Lasts, Cur!LessonsThere)
  OBVIOUS
<1> DEFINE Adds(g, S) ==
      g = [s \in SUBSET S |-> IF s = {} THEN 0 ELSE lesson[Any(s)].minutes + g[s \ {Any(s)}]]
<1>1. PICK S : S = Cur!LessonsThere OBVIOUS
<1>2. Cur!TotalMinutes = (CHOOSE g : Adds(g, Cur!LessonsThere))[Cur!LessonsThere]
  BY DEF Cur!TotalMinutes, Cur!MapThenSumSet, Cur!MapThenFoldSet, Cur!MinutesOf, Any
<1>3. S \subseteq Cur!LessonIds /\ IsFiniteSet(S)
  <2>1. S \subseteq Cur!LessonIds
    BY <1>1, CourseIds DEF Cur!LessonsThere, Cur!Listed
  <2> QED BY <2>1, CourseIds, FS_Subset
<1>4. \A s \in SUBSET S : s # {} => Lasts[Any(s)] = lesson[Any(s)].minutes
  BY <1>3 DEF Any, Lasts
<1>5. \A g : Adds(g, S) <=> AddsUp(g, Lasts, SUBSET S)
  BY <1>4 DEF AddsUp
<1> HIDE DEF Adds
<1>6. PICK g : g = (CHOOSE h : Adds(h, S)) OBVIOUS
<1>7. AddsUp(g, Lasts, SUBSET S)
  <2>1. \E h : Adds(h, S) BY <1>3, <1>5, AddingExists
  <2>2. Adds(g, S) BY <1>6, <2>1
  <2> QED BY <1>5, <2>2
<1> QED BY <1>1, <1>2, <1>3, <1>6, <1>7, SumAnyhow

TotalFits == Cur!TotalMinutes = Sum(Lasts, Cur!LessonsThere)

LEMMA TotalIsSumNext == CourseConstants => Cur!TotalMinutes' = Sum(Lasts', Cur!LessonsThere')
<1>1. CourseConstants => TotalFits BY TotalIsSum DEF TotalFits
<1>2. CourseConstants' <=> CourseConstants BY DEF CourseConstants
<1>3. CourseConstants => TotalFits' BY <1>1, <1>2, PTL
<1> QED BY <1>3 DEF TotalFits
-----------------------------------------------------------------------------
(* What does not move the rows of the outline leaves it as it is.          *)
LEMMA TotalStays ==
  ASSUME CourseConstants, Cur!LessonsThere' = Cur!LessonsThere,
         \A l \in Cur!LessonsThere : lesson'[l].minutes = lesson[l].minutes,
         RowsAreSane
  PROVE  Cur!TotalMinutes' = Cur!TotalMinutes
<1>1. PICK S : S = Cur!LessonsThere OBVIOUS
<1>2. S \subseteq Cur!LessonIds BY <1>1, CourseIds DEF Cur!LessonsThere, Cur!Listed
<1>3. IsFiniteSet(S) BY <1>2, CourseIds, FS_Subset
<1>4. \A l \in S : Lasts'[l] = Lasts[l] BY <1>1, <1>2 DEF Lasts
<1>5. PICK f, g : f = Lasts /\ g = Lasts' OBVIOUS
<1>6. Sum(g, S) = Sum(f, S) BY <1>3, <1>4, <1>5, SumsAgree
<1> QED BY <1>1, <1>5, <1>6, TotalIsSum, TotalIsSumNext

LEMMA TotalIsNat ==
  ASSUME CourseConstants, RowsAreSane
  PROVE  Cur!TotalMinutes \in Nat
<1>1. PICK S : S = Cur!LessonsThere OBVIOUS
<1>2. S \subseteq Cur!LessonIds BY <1>1, CourseIds DEF Cur!LessonsThere, Cur!Listed
<1>3. IsFiniteSet(S) BY <1>2, CourseIds, FS_Subset
<1>4. \A l \in S : Lasts[l] \in Nat BY <1>2 DEF RowsAreSane, Cur!Lesson, Lasts
<1> QED BY <1>1, <1>3, <1>4, TotalIsSum, SumIsNat

LEMMA OutlineStays ==
  ASSUME CourseConstants, RowsAreSane, UNCHANGED <<module, lesson>>
  PROVE  /\ \A of : /\ Cur!Listed(of)' = Cur!Listed(of)
                    /\ Cur!Dense(of)' <=> Cur!Dense(of)
                    /\ Cur!Orders(of)' = Cur!Orders(of)
         /\ Cur!TotalMinutes' = Cur!TotalMinutes
<1>1. \A of : Cur!Listed(of)' = Cur!Listed(of) BY DEF Cur!Listed
<1>2. \A of : Cur!Dense(of)' <=> Cur!Dense(of) BY <1>1 DEF Cur!Dense, Cur!Position
<1>3. \A of : Cur!Orders(of)' = Cur!Orders(of) BY <1>1 DEF Cur!Orders
<1>4. Cur!LessonsThere' = Cur!LessonsThere BY <1>1 DEF Cur!LessonsThere
<1> QED BY <1>1, <1>2, <1>3, <1>4, TotalStays

-----------------------------------------------------------------------------
(* An edit goes on: it keeps what it knows, and what was right stays so.   *)
GoesOn(r, next) ==
  /\ req' = [req EXCEPT ![r] = next]
  /\ IsEdit(next)
  /\ next.at = "idle" \/ next.alone = req[r].alone
  /\ Knows(req[r]) => Knows(next)'
  /\ Knows(req[r]) /\ CountedBy(req[r]) => CountedBy(next)'

Keeps(r, next) == Knows(req[r]) /\ KeptBy(req[r]) => KeptBy(next)'

LEMMA EditingIs ==
  ASSUME DOMAIN req = Requests, NEW r \in Requests, NEW next,
         \A s \in Requests : IsEdit(req[s]), IsEdit(next),
         \A s \in Requests : Cur!Under(s) => s = r,
         req' = [req EXCEPT ![r] = next]
  PROVE  Editing = req[r] /\ Editing' = next
<1>1. \A s \in Requests : s # r => req[s] = Cur!Idle
  BY DEF Cur!Under, IsEdit
<1>2. \A s \in Requests : req'[s] = IF s = r THEN next ELSE Cur!Idle BY <1>1
<1>3. Cur!Idle.at = "idle" BY DEF Cur!Idle
<1>4. Editing = req[r]
  <2>1. CASE Cur!Under(r)
    <3>1. Cur!Busy BY <2>1 DEF Cur!Busy
    <3>2. (CHOOSE s \in Requests : Cur!Under(s)) = r BY <2>1
    <3> QED BY <3>1, <3>2 DEF Editing
  <2>2. CASE ~Cur!Under(r)
    <3>1. ~Cur!Busy BY <2>2 DEF Cur!Busy
    <3>2. req[r] = Cur!Idle BY <2>2 DEF Cur!Under, IsEdit
    <3> QED BY <3>1, <3>2 DEF Editing
  <2> QED BY <2>1, <2>2
<1>5. Editing' = next
  <2>1. \A s \in Requests : Cur!Under(s)' <=> s = r /\ next.at # "idle"
    BY <1>2, <1>3 DEF Cur!Under
  <2>2. CASE next.at # "idle"
    <3>1. Cur!Busy' BY <2>1, <2>2 DEF Cur!Busy
    <3>2. (CHOOSE s \in Requests : Cur!Under(s)') = r BY <2>1, <2>2
    <3>3. Editing' = req'[r] BY <3>1, <3>2 DEF Editing
    <3> QED BY <1>2, <3>3
  <2>3. CASE next.at = "idle"
    <3>1. ~Cur!Busy' BY <2>1, <2>3 DEF Cur!Busy
    <3>2. next = Cur!Idle BY <2>3 DEF IsEdit
    <3> QED BY <3>1, <3>2 DEF Editing
  <2> QED BY <2>2, <2>3
<1> QED BY <1>4, <1>5

LEMMA EditGoesOn ==
  ASSUME CourseInvariant, NEW r \in Requests, Cur!Under(r), NEW next, GoesOn(r, next),
         RowsAreSane', overlaps' = overlaps, failures' \in Nat,
         failures' = 0 => failures = 0 /\ Keeps(r, next)
  PROVE  CourseInvariant'
<1>1. /\ DOMAIN req = Requests /\ req' = [req EXCEPT ![r] = next]
      /\ \A s \in Requests : IsEdit(req[s])
      /\ IsEdit(next) /\ overlaps \in Nat
  BY DEF CourseInvariant, CourseIsSane, GoesOn
<1>2. DOMAIN req' = Requests /\ \A s \in Requests : req'[s] = IF s = r THEN next ELSE req[s]
  BY <1>1
<1>3. CourseIsSane'
  <2>1. \A s \in Requests : IsEdit(req'[s]) BY <1>1, <1>2
  <2> QED BY <1>1, <1>2, <2>1 DEF CourseIsSane
<1>4. \A s \in Requests : Cur!Under(s)' <=> IF s = r THEN next.at # "idle" ELSE Cur!Under(s)
  BY <1>2 DEF Cur!Under
<1>5. ASSUME NEW s \in Requests, Cur!Under(s)', req'[s].alone
      PROVE  s = r /\ Knows(next)' /\ \A q \in Requests : Cur!Under(q) => q = r
  <2>1. CASE s # r BY <1>2, <1>4, <1>5, <2>1 DEF CourseInvariant, LoneEdits
  <2>2. CASE s = r
    <3>1. next.at # "idle" /\ req[r].alone BY <1>2, <1>4, <1>5, <2>2 DEF GoesOn
    <3>2. Knows(req[r]) /\ \A q \in Requests : Cur!Under(q) => q = r
      BY <3>1 DEF CourseInvariant, LoneEdits
    <3> QED BY <2>2, <3>2 DEF GoesOn
  <2> QED BY <2>1, <2>2
<1>6. LoneEdits'
  <2>1. ASSUME NEW s \in Requests, Cur!Under(s)', req'[s].alone
        PROVE  (\A q \in Requests : Cur!Under(q)' => q = s) /\ Knows(req[s])'
    <3>1. s = r /\ Knows(next)' /\ \A q \in Requests : Cur!Under(q) => q = r BY <1>5, <2>1
    <3>2. \A q \in Requests : Cur!Under(q)' => q = s BY <1>4, <3>1
    <3>3. req'[s] = next BY <1>2, <3>1
    <3> QED BY <3>1, <3>2, <3>3
  <2> QED BY <2>1 DEF LoneEdits
<1>7. ASSUME overlaps' = 0
      PROVE  /\ \A s \in Requests : Cur!Under(s)' => req'[s].alone
             /\ CountedBy(next)'
             /\ Editing = req[r] /\ Editing' = next
             /\ Knows(req[r])
  <2>1. /\ overlaps = 0 /\ req[r].alone /\ Knows(req[r])
        /\ \A s \in Requests : Cur!Under(s) => s = r
    BY <1>7 DEF CourseInvariant, CourseIsCounted, LoneEdits
  <2>2. Editing = req[r] /\ Editing' = next BY <1>1, <2>1, EditingIs
  <2>3. CountedBy(req[r]) BY <2>1, <2>2 DEF CourseInvariant, CourseIsCounted
  <2>4. CountedBy(next)' BY <2>1, <2>3 DEF GoesOn
  <2>5. \A s \in Requests : Cur!Under(s)' => s = r /\ next.at # "idle" BY <1>4, <2>1
  <2>6. \A s \in Requests : Cur!Under(s)' => req'[s].alone BY <1>2, <2>1, <2>5 DEF GoesOn
  <2> QED BY <2>1, <2>2, <2>4, <2>6
<1>8. CourseIsCounted' BY <1>7 DEF CourseIsCounted
<1>9. CourseIsKept'
  <2>1. ASSUME overlaps' = 0, failures' = 0 PROVE KeptBy(Editing)'
    <3>1. KeptBy(req[r]) BY <1>7, <2>1 DEF CourseInvariant, CourseIsKept
    <3>2. KeptBy(next)' BY <1>7, <2>1, <3>1 DEF Keeps
    <3> QED BY <1>7, <2>1, <3>2
  <2> QED BY <2>1 DEF CourseIsKept
<1> QED BY <1>3, <1>6, <1>8, <1>9 DEF CourseInvariant
-----------------------------------------------------------------------------
(* What does not move a row leaves what an edit knows as it is.            *)
LEMMA RowsStay ==
  ASSUME CourseConstants, RowsAreSane, UNCHANGED Cur!rows
  PROVE  /\ RowsAreSane'
         /\ IdsFollow' <=> IdsFollow
         /\ \A edit : /\ Knows(edit)' <=> Knows(edit)
                      /\ CountedBy(edit)' <=> CountedBy(edit)
                      /\ KeptBy(edit)' <=> KeptBy(edit)
<1>1. UNCHANGED <<course, enrolled, module, lesson, added>> BY DEF Cur!rows
<1>2. /\ \A of : /\ Cur!Listed(of)' = Cur!Listed(of)
                 /\ Cur!Dense(of)' <=> Cur!Dense(of)
                 /\ Cur!Orders(of)' = Cur!Orders(of)
      /\ Cur!TotalMinutes' = Cur!TotalMinutes
  BY <1>1, OutlineStays
<1>3. IdsFollow' <=> IdsFollow BY <1>1 DEF IdsFollow
<1>4. Cur!Exists' <=> Cur!Exists BY <1>1 DEF Cur!Exists
<1>5. RowsAreSane' BY <1>1, <1>2 DEF RowsAreSane, HasFairPrice, OutlineFollows
<1>6. \A edit : Knows(edit)' <=> Knows(edit) BY <1>1, <1>2, <1>4 DEF Knows
<1>7. \A edit : CountedBy(edit)' <=> CountedBy(edit) BY <1>1 DEF CountedBy
<1>8. \A edit : KeptBy(edit)' <=> KeptBy(edit)
  BY <1>1, <1>2, <1>3, <1>4 DEF KeptBy, Renumbers, Resumming
<1> QED BY <1>3, <1>5, <1>6, <1>7, <1>8

LEMMA IdleKnows ==
  ASSUME NEW next, next = Cur!Idle
  PROVE  /\ IsEdit(next) /\ next.at = "idle"
         /\ Knows(next) /\ Knows(next)'
         /\ ~Resumming(next) /\ \A of : ~Renumbers(next, of)
<1>1. next.at = "idle" BY DEF Cur!Idle
<1>2. Knows(next) /\ Knows(next)' BY <1>1 DEF Knows
<1>3. ~Resumming(next) /\ \A of : ~Renumbers(next, of) BY <1>1 DEF Resumming, Renumbers
<1>4. IsEdit(next)
  BY DEF IsEdit, Cur!Idle, Cur!Places, Cur!Course, Cur!CourseStatus, Cur!NoCourse, Cur!Nothing,
         HasFairPrice
<1> QED BY <1>1, <1>2, <1>3, <1>4

InOrder ==
  /\ IdsFollow
  /\ \A of \in Cur!ModuleIds \union {0} : Cur!Dense(of)
  /\ Cur!Exists => course.duration = Cur!TotalMinutes

Counts == course.enrollmentCount = IF enrolled THEN 1 ELSE 0

LEMMA FinishGoesOn ==
  ASSUME NEW r \in Requests, Cur!Finish(r),
         Knows(req[r]) /\ CountedBy(req[r]) => Counts'
  PROVE  \E next : next = Cur!Idle /\ GoesOn(r, next) /\ (InOrder' => KeptBy(next)')
<1>1. PICK next : next = Cur!Idle OBVIOUS
<1>2. /\ IsEdit(next) /\ next.at = "idle" /\ Knows(next)'
      /\ ~Resumming(next) /\ \A of : ~Renumbers(next, of)
  BY <1>1, IdleKnows
<1>3. req' = [req EXCEPT ![r] = next] BY <1>1 DEF Cur!Finish
<1>4. Counts' => CountedBy(next)' BY <1>2 DEF Counts, CountedBy
<1>5. InOrder' => KeptBy(next)' BY DEF InOrder, KeptBy
<1> QED BY <1>1, <1>2, <1>3, <1>4, <1>5 DEF GoesOn

LEMMA SumsGoesOn ==
  ASSUME NEW r \in Requests, IsEdit(req[r]), Cur!Sums(r),
         Knows(req[r]) /\ CountedBy(req[r]) => Counts'
  PROVE  \E next : /\ GoesOn(r, next)
                   /\ IdsFollow' /\ (\A of \in Cur!ModuleIds \union {0} : Cur!Dense(of)')
                        => KeptBy(next)'
<1>1. PICK next : next = [Cur!Idle EXCEPT !.at = "sum", !.alone = req[r].alone] OBVIOUS
<1>2. PICK idle : idle = Cur!Idle OBVIOUS
<1>3. IsEdit(idle) BY <1>2, IdleKnows
<1>4. next = [idle EXCEPT !.at = "sum", !.alone = req[r].alone] BY <1>1, <1>2
<1>5. req[r].alone \in BOOLEAN BY DEF IsEdit
<1>6. IsEdit(next) /\ next.at = "sum" /\ next.alone = req[r].alone
  BY <1>3, <1>4, <1>5 DEF IsEdit, Cur!Places
<1>7. Knows(next)' BY <1>6 DEF Knows
<1>8. req' = [req EXCEPT ![r] = next] BY <1>1 DEF Cur!Sums
<1>9. Counts' => CountedBy(next)' BY <1>6 DEF Counts, CountedBy
<1>10. IdsFollow' /\ (\A of \in Cur!ModuleIds \union {0} : Cur!Dense(of)') => KeptBy(next)'
  BY <1>6 DEF KeptBy, Resumming
<1> QED BY <1>6, <1>7, <1>8, <1>9, <1>10 DEF GoesOn

LEMMA ListsGoesOn ==
  ASSUME NEW r \in Requests, IsEdit(req[r]), Cur!Lists(r),
         Knows(req[r]) /\ CountedBy(req[r]) => Counts'
  PROVE  \E next : /\ GoesOn(r, next)
                   /\ /\ IdsFollow'
                      /\ \A of \in Cur!ModuleIds \union {0} : of # req[r].of => Cur!Dense(of)'
                      => KeptBy(next)'
<1>1. PICK next : next = [Cur!Idle EXCEPT !.at = "find", !.of = req[r].of, !.resum = TRUE,
                                          !.alone = req[r].alone]
  OBVIOUS
<1>2. PICK idle : idle = Cur!Idle OBVIOUS
<1>3. IsEdit(idle) BY <1>2, IdleKnows
<1>4. next = [idle EXCEPT !.at = "find", !.of = req[r].of, !.resum = TRUE,
                          !.alone = req[r].alone]
  BY <1>1, <1>2
<1>5. req[r].alone \in BOOLEAN /\ req[r].of \in Cur!ModuleIds \union {0} BY DEF IsEdit
<1>6. /\ IsEdit(next)
      /\ next.at = "find" /\ next.of = req[r].of /\ next.resum /\ next.alone = req[r].alone
  BY <1>3, <1>4, <1>5 DEF IsEdit, Cur!Places
<1>7. Knows(next)' BY <1>6 DEF Knows
<1>8. req' = [req EXCEPT ![r] = next] BY <1>1 DEF Cur!Lists
<1>9. Counts' => CountedBy(next)' BY <1>6 DEF Counts, CountedBy
<1>10. /\ IdsFollow'
       /\ \A of \in Cur!ModuleIds \union {0} : of # req[r].of => Cur!Dense(of)'
       => KeptBy(next)'
  BY <1>6 DEF KeptBy, Resumming, Renumbers
<1> QED BY <1>6, <1>7, <1>8, <1>9, <1>10 DEF GoesOn
-----------------------------------------------------------------------------
(* The steps of the requests.                                              *)
Advances(r) ==
  /\ RowsAreSane'
  /\ \E next : GoesOn(r, next) /\ Keeps(r, next)

LEMMA MovesOn ==
  ASSUME CourseConstants, CourseIsSane, NEW r \in Requests, UNCHANGED Cur!rows,
         NEW next, req' = [req EXCEPT ![r] = next], IsEdit(next), next.alone = req[r].alone,
         Knows(req[r]) => Knows(next), next.at # "deleteCourse",
         Knows(req[r]) /\ KeptBy(req[r]) => KeptBy(next)
  PROVE  Advances(r)
<1>1. RowsAreSane BY DEF CourseIsSane
<1>2. /\ RowsAreSane'
      /\ \A edit : /\ Knows(edit)' <=> Knows(edit)
                   /\ CountedBy(edit)' <=> CountedBy(edit)
                   /\ KeptBy(edit)' <=> KeptBy(edit)
  BY <1>1, RowsStay
<1>3. CountedBy(req[r]) => CountedBy(next) BY DEF CountedBy
<1>4. GoesOn(r, next) /\ Keeps(r, next) BY <1>2, <1>3 DEF GoesOn, Keeps
<1> QED BY <1>2, <1>4 DEF Advances

LEMMA CountLessonsAdvances ==
  ASSUME CourseConstants, CourseIsSane, NEW r \in Requests, Cur!CountLessons(r)
  PROVE  Advances(r)
<1>1. /\ req[r].at = "countLessons" /\ UNCHANGED Cur!rows
      /\ Cur!Continue(r, "saveCourse") \/ Cur!Finish(r)
      /\ IsEdit(req[r]) /\ RowsAreSane
  BY DEF Cur!CountLessons, Cur!At, CourseIsSane
<1>2. CASE Cur!Continue(r, "saveCourse")
  <2>1. PICK next : next = [req[r] EXCEPT !.at = "saveCourse"] OBVIOUS
  <2>2. req' = [req EXCEPT ![r] = next] BY <1>2, <2>1 DEF Cur!Continue
  <2>3. next.at = "saveCourse" /\ next.course = req[r].course /\ next.alone = req[r].alone
    BY <1>1, <2>1 DEF IsEdit
  <2>4. IsEdit(next) BY <1>1, <2>1 DEF IsEdit, Cur!Places
  <2>5. Knows(req[r]) => Knows(next) BY <1>1, <2>3 DEF Knows
  <2>6. KeptBy(req[r]) => KeptBy(next) BY <1>1, <2>3 DEF KeptBy, Renumbers, Resumming
  <2> QED BY <1>1, <2>2, <2>3, <2>4, <2>5, <2>6, MovesOn
<1>3. CASE Cur!Finish(r)
  <2>1. RowsAreSane' /\ (IdsFollow' <=> IdsFollow) BY <1>1, RowsStay
  <2>2. CountedBy(req[r]) => Counts' BY <1>1 DEF CountedBy, Counts, Cur!rows
  <2>3. PICK next : GoesOn(r, next) /\ (InOrder' => KeptBy(next)') BY <1>3, <2>2, FinishGoesOn
  <2>4. PICK q : q = req[r] OBVIOUS
  <2>5. KeptBy(q) => InOrder BY <1>1, <2>4 DEF KeptBy, Renumbers, Resumming, InOrder
  <2>6. InOrder => InOrder'
    <3>1. UNCHANGED <<course, enrolled, module, lesson, added>> BY <1>1 DEF Cur!rows
    <3>2. (\A of : Cur!Dense(of)' <=> Cur!Dense(of)) /\ Cur!TotalMinutes' = Cur!TotalMinutes
      BY <1>1, <3>1, OutlineStays
    <3> QED BY <2>1, <3>1, <3>2 DEF InOrder, Cur!Exists
  <2> QED BY <2>1, <2>3, <2>4, <2>5, <2>6 DEF Advances, Keeps
<1> QED BY <1>1, <1>2, <1>3

LEMMA SaveCourseAdvances ==
  ASSUME CourseConstants, CourseIsSane, NEW r \in Requests, Cur!SaveCourse(r)
  PROVE  Advances(r)
<1>1. /\ req[r].at = "saveCourse" /\ course' = req[r].course /\ Cur!Finish(r)
      /\ UNCHANGED <<enrolled, module, lesson, added>>
      /\ IsEdit(req[r]) /\ RowsAreSane
  BY DEF Cur!SaveCourse, Cur!At, CourseIsSane
<1>2. /\ \A of : Cur!Listed(of)' = Cur!Listed(of) /\ (Cur!Dense(of)' <=> Cur!Dense(of))
      /\ Cur!TotalMinutes' = Cur!TotalMinutes
  BY <1>1, OutlineStays
<1>3. /\ course' \in Cur!Course /\ course'.status \in Cur!CourseStatus /\ HasFairPrice(course)'
  BY <1>1 DEF IsEdit, HasFairPrice
<1>4. course'.status # "NONE" BY <1>3 DEF Cur!CourseStatus
<1>5. RowsAreSane' BY <1>1, <1>2, <1>3, <1>4 DEF RowsAreSane, OutlineFollows
<1>6. Knows(req[r]) /\ CountedBy(req[r]) => Counts' BY <1>1 DEF Knows, CountedBy, Counts
<1>7. PICK next : GoesOn(r, next) /\ (InOrder' => KeptBy(next)') BY <1>1, <1>6, FinishGoesOn
<1>8. ASSUME Knows(req[r]), KeptBy(req[r]) PROVE InOrder'
  <2>1. /\ course'.duration = course.duration
        /\ Cur!Exists \/ course.status = "NONE"
        /\ IdsFollow /\ \A of \in Cur!ModuleIds \union {0} : Cur!Dense(of)
        /\ Cur!Exists => course.duration = Cur!TotalMinutes
    BY <1>1, <1>8 DEF Knows, KeptBy, Renumbers, Resumming
  <2>2. CASE course.status = "NONE"
    <3>1. course.duration = 0 /\ Cur!Listed(0) = {}
      BY <1>1, <2>2 DEF RowsAreSane, OutlineFollows, Cur!NoCourse
    <3>2. \A m \in Cur!ModuleIds : Cur!Listed(m) = {}
      BY <1>1, <3>1, CourseIds DEF RowsAreSane, Cur!Listed
    <3>3. Cur!LessonsThere = {} BY <3>2 DEF Cur!LessonsThere
    <3>4. Cur!TotalMinutes = 0 BY <3>3, TotalIsSum, EmptySum
    <3> QED BY <1>1, <1>2, <2>1, <3>1, <3>4 DEF InOrder, IdsFollow
  <2>3. CASE Cur!Exists BY <1>1, <1>2, <2>1, <2>3 DEF InOrder, IdsFollow
  <2> QED BY <2>1, <2>2, <2>3
<1> QED BY <1>5, <1>7, <1>8 DEF Advances, Keeps

LEMMA DeleteCourseAdvances ==
  ASSUME CourseConstants, CourseIsSane, NEW r \in Requests, Cur!DeleteCourse(r)
  PROVE  Advances(r)
<1>1. /\ course' = [Cur!NoCourse EXCEPT !.status = "REMOVED"] /\ enrolled' = FALSE
      /\ module' = [m \in Cur!ModuleIds |-> Cur!NoModule]
      /\ lesson' = [l \in Cur!LessonIds |-> Cur!NoLesson]
      /\ added' = added /\ Cur!Finish(r) /\ RowsAreSane
  BY DEF Cur!DeleteCourse, CourseIsSane
<1>2. /\ course' \in Cur!Course /\ course'.status = "REMOVED" /\ course'.enrollmentCount = 0
  BY <1>1 DEF Cur!Course, Cur!NoCourse
<1>3. module' \in [Cur!ModuleIds -> Cur!Module] /\ lesson' \in [Cur!LessonIds -> Cur!Lesson]
  BY <1>1 DEF Cur!Module, Cur!NoModule, Cur!Lesson, Cur!NoLesson
<1>4. \A l \in Cur!LessonIds : lesson'[l].module = 0 BY <1>1 DEF Cur!NoLesson
<1>5. \A m \in Cur!ModuleIds : ~module'[m].there BY <1>1 DEF Cur!NoModule
<1>6. RowsAreSane'
  BY <1>1, <1>2, <1>3, <1>4 DEF RowsAreSane, HasFairPrice, OutlineFollows, Cur!CourseStatus
<1>7. Counts' BY <1>1, <1>2 DEF Counts
<1>8. PICK next : GoesOn(r, next) /\ (InOrder' => KeptBy(next)') BY <1>1, <1>7, FinishGoesOn
<1>9. InOrder'
  <2>1. \A of \in Cur!ModuleIds \union {0} : Cur!Listed(of)' = {}
    BY <1>4, <1>5, CourseIds DEF Cur!Listed
  <2>2. \A of \in Cur!ModuleIds \union {0} : Cur!Dense(of)'
    <3>1. Cur!Cardinality({}) = 0 /\ 0..0 - 1 = {} BY FS_EmptySet, SameCardinality
    <3> QED BY <2>1, <3>1 DEF Cur!Dense
  <2>3. ~Cur!Exists' BY <1>2 DEF Cur!Exists, Cur!CourseStatus
  <2> QED BY <1>4, <1>5, <2>2, <2>3 DEF InOrder, IdsFollow
<1> QED BY <1>6, <1>8, <1>9 DEF Advances, Keeps

LEMMA FindAdvances ==
  ASSUME CourseConstants, CourseIsSane, NEW r \in Requests, Cur!Find(r)
  PROVE  Advances(r)
<1>1. /\ req[r].at = "find" /\ UNCHANGED Cur!rows
      /\ IsEdit(req[r]) /\ RowsAreSane
  BY DEF Cur!Find, Cur!At, CourseIsSane
<1>2. PICK order \in Cur!Orders(req[r].of) :
        req' = [req EXCEPT ![r].at = "order", ![r].order = order]
  BY DEF Cur!Find, Cur!Renumberings
<1>3. PICK next : next = [req[r] EXCEPT !.at = "order", !.order = order] OBVIOUS
<1>4. req' = [req EXCEPT ![r] = next] BY <1>2, <1>3
<1>5. /\ next.at = "order" /\ next.order = order /\ next.of = req[r].of
      /\ next.resum = req[r].resum /\ next.alone = req[r].alone
  BY <1>1, <1>3 DEF IsEdit
<1>6. \A i \in DOMAIN order : order[i] \in Nat
  <2>1. req[r].of \in Cur!ModuleIds \union {0} BY <1>1 DEF IsEdit
  <2>2. order \in [Cur!Listed(req[r].of) -> 0..Cardinality(Cur!Listed(req[r].of)) - 1]
    BY <1>2, SameCardinality DEF Cur!Orders
  <2> QED BY <2>1, <2>2, ListedIsFinite
<1>7. IsEdit(next) BY <1>1, <1>3, <1>6 DEF IsEdit, Cur!Places
<1>8. Knows(req[r]) => Knows(next) BY <1>2, <1>5 DEF Knows
<1>9. Knows(req[r]) /\ KeptBy(req[r]) => KeptBy(next)
  BY <1>1, <1>5 DEF Knows, KeptBy, Renumbers, Resumming
<1> QED BY <1>1, <1>4, <1>5, <1>7, <1>8, <1>9, MovesOn

LEMMA SumAdvances ==
  ASSUME CourseConstants, CourseIsSane, NEW r \in Requests, Cur!Sum(r)
  PROVE  Advances(r)
<1>1. /\ req[r].at = "sum" /\ UNCHANGED Cur!rows
      /\ IsEdit(req[r]) /\ RowsAreSane
      /\ req' = [req EXCEPT ![r].at = "writeDuration", ![r].total = Cur!TotalMinutes]
  BY DEF Cur!Sum, Cur!At, CourseIsSane
<1>2. PICK total : total = Cur!TotalMinutes OBVIOUS
<1>3. PICK next : next = [req[r] EXCEPT !.at = "writeDuration", !.total = total] OBVIOUS
<1>4. req' = [req EXCEPT ![r] = next] BY <1>1, <1>2, <1>3
<1>5. next.at = "writeDuration" /\ next.total = total /\ next.alone = req[r].alone
  BY <1>1, <1>3 DEF IsEdit
<1>6. IsEdit(next) BY <1>1, <1>2, <1>3, TotalIsNat DEF IsEdit, Cur!Places
<1>7. Knows(next) BY <1>2, <1>5 DEF Knows
<1>8. KeptBy(req[r]) => KeptBy(next) BY <1>1, <1>5 DEF KeptBy, Renumbers, Resumming
<1> QED BY <1>1, <1>4, <1>5, <1>6, <1>7, <1>8, MovesOn

LEMMA WriteDurationAdvances ==
  ASSUME CourseConstants, CourseIsSane, NEW r \in Requests, Cur!WriteDuration(r)
  PROVE  Advances(r)
<1>1. /\ req[r].at = "writeDuration"
      /\ course' = IF Cur!Exists THEN [course EXCEPT !.duration = req[r].total] ELSE course
      /\ UNCHANGED <<enrolled, module, lesson, added>> /\ Cur!Finish(r)
      /\ IsEdit(req[r]) /\ RowsAreSane
  BY DEF Cur!WriteDuration, Cur!At, Cur!Lasting, CourseIsSane
<1>2. /\ \A of : Cur!Listed(of)' = Cur!Listed(of) /\ (Cur!Dense(of)' <=> Cur!Dense(of))
      /\ Cur!TotalMinutes' = Cur!TotalMinutes
  BY <1>1, OutlineStays
<1>3. /\ course' \in Cur!Course /\ course'.status = course.status
      /\ course'.pricing = course.pricing /\ course'.price = course.price
      /\ course'.enrollmentCount = course.enrollmentCount
  BY <1>1 DEF RowsAreSane, Cur!Course, IsEdit
<1>4. course.status = "NONE" => course' = course
  BY <1>1 DEF Cur!Exists, Cur!CourseStatus
<1>5. RowsAreSane'
  BY <1>1, <1>2, <1>3, <1>4 DEF RowsAreSane, HasFairPrice, OutlineFollows
<1>6. CountedBy(req[r]) => Counts' BY <1>1, <1>3 DEF CountedBy, Counts
<1>7. PICK next : GoesOn(r, next) /\ (InOrder' => KeptBy(next)') BY <1>1, <1>6, FinishGoesOn
<1>8. ASSUME Knows(req[r]), KeptBy(req[r]) PROVE InOrder'
  <2>1. /\ req[r].total = Cur!TotalMinutes
        /\ IdsFollow /\ \A of \in Cur!ModuleIds \union {0} : Cur!Dense(of)
    BY <1>1, <1>8 DEF Knows, KeptBy, Renumbers
  <2>2. Cur!Exists' => Cur!Exists /\ course'.duration = req[r].total
    BY <1>1, <1>3 DEF Cur!Exists, RowsAreSane, Cur!Course
  <2> QED BY <1>1, <1>2, <2>1, <2>2 DEF InOrder, IdsFollow
<1> QED BY <1>5, <1>7, <1>8 DEF Advances, Keeps
-----------------------------------------------------------------------------
LEMMA PositionsStay ==
  ASSUME NEW of, Cur!Listed(of)' = Cur!Listed(of),
         \A i \in Cur!Listed(of) : Cur!Position(of, i)' = Cur!Position(of, i)
  PROVE  Cur!Dense(of)' <=> Cur!Dense(of)
<1>1. {Cur!Position(of, i)' : i \in Cur!Listed(of)} = {Cur!Position(of, i) : i \in Cur!Listed(of)}
  OBVIOUS
<1> QED BY <1>1 DEF Cur!Dense

(* Applying an order moves the rows of one list, and leaves it dense if it *)
(* is still the list that was ordered.                                     *)
OrderApplied(r, of, order) ==
  /\ module' \in [Cur!ModuleIds -> Cur!Module] /\ lesson' \in [Cur!LessonIds -> Cur!Lesson]
  /\ \A m \in Cur!ModuleIds : /\ module'[m].there = module[m].there
                              /\ of # 0 => module'[m] = module[m]
  /\ \A l \in Cur!LessonIds : /\ lesson'[l].module = lesson[l].module
                              /\ lesson'[l].minutes = lesson[l].minutes
                              /\ of = 0 \/ l \notin DOMAIN order =>
                                   lesson'[l].position = lesson[l].position
  /\ \A x : Cur!Listed(x)' = Cur!Listed(x)
  /\ Knows(req[r]) => DOMAIN order = Cur!Listed(of) /\ Cur!Dense(of)'

LEMMA OrderIsApplied ==
  ASSUME CourseConstants, CourseIsSane, NEW r \in Requests, Cur!ApplyOrder(r),
         NEW of, NEW order, of = req[r].of, order = req[r].order
  PROVE  OrderApplied(r, of, order)
<1>1. PICK q : q = req[r] OBVIOUS
<1>2. order = q.order /\ of = q.of BY <1>1
<1>3. /\ q.at = "order" /\ IsEdit(q) /\ RowsAreSane
      /\ of \in Cur!ModuleIds \union {0}
      /\ \A i \in DOMAIN order : order[i] \in Nat
  BY <1>1, <1>2 DEF Cur!ApplyOrder, Cur!At, CourseIsSane, IsEdit
<1>4. /\ module' = [m \in Cur!ModuleIds |-> IF of = 0 /\ module[m].there
           THEN [module[m] EXCEPT !.position = Cur!PlaceOf(order, m, @)] ELSE module[m]]
      /\ lesson' = [l \in Cur!LessonIds |-> IF of # 0 /\ lesson[l].module # 0
           THEN [lesson[l] EXCEPT !.position = Cur!PlaceOf(order, l, @)] ELSE lesson[l]]
  BY <1>1, <1>2 DEF Cur!ApplyOrder
<1>5. \A i, old : old \in Nat => Cur!PlaceOf(order, i, old) \in Nat BY <1>3 DEF Cur!PlaceOf
<1>6. \A m \in Cur!ModuleIds : /\ module'[m] \in Cur!Module /\ module'[m].there = module[m].there
                               /\ of # 0 => module'[m] = module[m]
                               /\ module'[m].position =
                                    IF of = 0 /\ module[m].there
                                    THEN Cur!PlaceOf(order, m, module[m].position)
                                    ELSE module[m].position
  BY <1>3, <1>4, <1>5 DEF RowsAreSane, Cur!Module
<1>7. \A l \in Cur!LessonIds : /\ lesson'[l] \in Cur!Lesson
                               /\ lesson'[l].module = lesson[l].module
                               /\ lesson'[l].minutes = lesson[l].minutes
                               /\ lesson'[l].position =
                                    IF of # 0 /\ lesson[l].module # 0
                                    THEN Cur!PlaceOf(order, l, lesson[l].position)
                                    ELSE lesson[l].position
  BY <1>3, <1>4, <1>5 DEF RowsAreSane, Cur!Lesson
<1>8. \A l \in Cur!LessonIds : of = 0 \/ l \notin DOMAIN order =>
        lesson'[l].position = lesson[l].position
  BY <1>7 DEF Cur!PlaceOf
<1>9. \A x : Cur!Listed(x)' = Cur!Listed(x) BY <1>6, <1>7 DEF Cur!Listed
<1>10. module' \in [Cur!ModuleIds -> Cur!Module] /\ lesson' \in [Cur!LessonIds -> Cur!Lesson]
  BY <1>4, <1>6, <1>7
<1>11. ASSUME Knows(q) PROVE DOMAIN order = Cur!Listed(of) /\ Cur!Dense(of)'
  <2>1. order \in Cur!Orders(of) BY <1>2, <1>3, <1>11 DEF Knows
  <2>2. PICK S : S = Cur!Listed(of) OBVIOUS
  <2>3. order \in [S -> 0..Cardinality(S) - 1] /\ Cur!IsInjective(order)
    BY <2>1, <2>2, SameCardinality DEF Cur!Orders
  <2>4. {order[i] : i \in S} = 0..Cardinality(S) - 1
    BY <1>3, <2>2, <2>3, ListedIsFinite, OrderIsDense
  <2>5. \A i \in S : Cur!Position(of, i)' = order[i]
    <3>1. CASE of = 0
      BY <1>6, <2>2, <2>3, <3>1 DEF Cur!Position, Cur!Listed, Cur!PlaceOf
    <3>2. CASE of # 0
      BY <1>7, <2>2, <2>3, <3>2 DEF Cur!Position, Cur!Listed, Cur!PlaceOf
    <3> QED BY <3>1, <3>2
  <2>6. {Cur!Position(of, i)' : i \in S} = {order[i] : i \in S} BY <2>5
  <2>7. Cur!Dense(of)' BY <1>9, <2>2, <2>4, <2>6, SameCardinality DEF Cur!Dense
  <2> QED BY <2>2, <2>3, <2>7
<1>12. \A m \in Cur!ModuleIds : /\ module'[m].there = module[m].there
                                /\ of # 0 => module'[m] = module[m]
  BY <1>6
<1>13. \A l \in Cur!LessonIds : /\ lesson'[l].module = lesson[l].module
                                /\ lesson'[l].minutes = lesson[l].minutes
  BY <1>7
<1>14. Knows(req[r]) => DOMAIN order = Cur!Listed(of) /\ Cur!Dense(of)' BY <1>1, <1>11
<1> QED BY <1>8, <1>9, <1>10, <1>12, <1>13, <1>14 DEF OrderApplied

LEMMA ApplyOrderAdvances ==
  ASSUME CourseConstants, CourseIsSane, NEW r \in Requests, Cur!ApplyOrder(r)
  PROVE  Advances(r)
<1>1. PICK q, order, of : q = req[r] /\ order = q.order /\ of = q.of OBVIOUS
<1>2. q.at = "order" /\ IsEdit(q) /\ RowsAreSane /\ of \in Cur!ModuleIds \union {0}
  BY <1>1 DEF Cur!ApplyOrder, Cur!At, CourseIsSane, IsEdit
<1>3. /\ (q.resum /\ Cur!Sums(r)) \/ (~q.resum /\ Cur!Finish(r))
      /\ UNCHANGED <<course, enrolled, added>>
  BY <1>1 DEF Cur!ApplyOrder
<1>4. /\ module' \in [Cur!ModuleIds -> Cur!Module] /\ lesson' \in [Cur!LessonIds -> Cur!Lesson]
      /\ \A m \in Cur!ModuleIds : module'[m].there = module[m].there
      /\ of # 0 => \A m \in Cur!ModuleIds : module'[m] = module[m]
      /\ \A l \in Cur!LessonIds : /\ lesson'[l].module = lesson[l].module
                                  /\ lesson'[l].minutes = lesson[l].minutes
                                  /\ of = 0 \/ l \notin DOMAIN order =>
                                       lesson'[l].position = lesson[l].position
      /\ \A x : Cur!Listed(x)' = Cur!Listed(x)
      /\ Knows(q) => DOMAIN order = Cur!Listed(of) /\ Cur!Dense(of)'
  <2>1. OrderApplied(r, of, order) BY <1>1, OrderIsApplied
  <2> QED BY <1>1, <2>1 DEF OrderApplied
<1>5. RowsAreSane'
  BY <1>2, <1>3, <1>4 DEF RowsAreSane, HasFairPrice, OutlineFollows
<1>6. Cur!TotalMinutes' = Cur!TotalMinutes
  <2>1. Cur!LessonsThere' = Cur!LessonsThere BY <1>4 DEF Cur!LessonsThere
  <2>2. Cur!LessonsThere \subseteq Cur!LessonIds BY CourseIds DEF Cur!LessonsThere, Cur!Listed
  <2> QED BY <1>2, <1>4, <2>1, <2>2, TotalStays
<1>7. CountedBy(q) => Counts' BY <1>3 DEF CountedBy, Counts
<1>8. ASSUME Knows(q), KeptBy(q)
      PROVE  IdsFollow' /\ \A x \in Cur!ModuleIds \union {0} : Cur!Dense(x)'
  <2>1. ASSUME NEW x \in Cur!ModuleIds \union {0}, x # of PROVE Cur!Dense(x)'
    <3>1. \A i \in Cur!Listed(x) : Cur!Position(x, i)' = Cur!Position(x, i)
      <4>1. CASE x = 0 BY <1>4, <2>1, <4>1 DEF Cur!Position, Cur!Listed
      <4>2. CASE x # 0 /\ of = 0 BY <1>4, <4>2 DEF Cur!Position, Cur!Listed
      <4>3. CASE x # 0 /\ of # 0
        <5>1. \A i \in Cur!Listed(x) : i \notin DOMAIN order
          BY <1>4, <1>8, <2>1, <4>3 DEF Cur!Listed
        <5> QED BY <1>4, <4>3, <5>1 DEF Cur!Position, Cur!Listed
      <4> QED BY <4>1, <4>2, <4>3
    <3>2. Cur!Dense(x) BY <1>1, <1>8, <2>1 DEF KeptBy, Renumbers
    <3> QED BY <1>4, <3>1, <3>2, PositionsStay
  <2>2. IdsFollow' BY <1>3, <1>4, <1>8 DEF KeptBy, IdsFollow
  <2> QED BY <1>4, <1>8, <2>1, <2>2
<1>9. CASE q.resum /\ Cur!Sums(r)
  <2>1. PICK next : /\ GoesOn(r, next)
                    /\ IdsFollow' /\ (\A x \in Cur!ModuleIds \union {0} : Cur!Dense(x)')
                         => KeptBy(next)'
    BY <1>1, <1>2, <1>7, <1>9, SumsGoesOn
  <2> QED BY <1>1, <1>5, <1>8, <2>1 DEF Advances, Keeps
<1>10. CASE ~q.resum /\ Cur!Finish(r)
  <2>1. PICK next : GoesOn(r, next) /\ (InOrder' => KeptBy(next)')
    BY <1>1, <1>7, <1>10, FinishGoesOn
  <2>2. ASSUME Knows(q), KeptBy(q) PROVE InOrder'
    <3>1. Cur!Exists => course.duration = Cur!TotalMinutes
      BY <1>2, <1>10, <2>2 DEF KeptBy, Resumming
    <3> QED BY <1>3, <1>6, <1>8, <2>2, <3>1 DEF InOrder, Cur!Exists
  <2> QED BY <1>1, <1>5, <2>1, <2>2 DEF Advances, Keeps
<1> QED BY <1>3, <1>9, <1>10

LEMMA SaveModuleAdvances ==
  ASSUME CourseConstants, CourseIsSane, NEW r \in Requests, Cur!SaveModule(r)
  PROVE  Advances(r)
<1>1. PICK q : q = req[r] OBVIOUS
<1>2. PICK new, id : new = (q.id = 0) /\ id = IF new THEN added.modules + 1 ELSE q.id OBVIOUS
<1>3. /\ q.at = "saveModule" /\ IsEdit(q) /\ RowsAreSane
      /\ id \in Cur!ModuleIds /\ q.position \in Nat
  BY <1>1, <1>2 DEF Cur!SaveModule, Cur!At, CourseIsSane, IsEdit
<1>4. \/ /\ Cur!Exists
         /\ module' = [module EXCEPT ![id] = [there |-> TRUE, position |-> q.position]]
         /\ added' = IF new THEN [added EXCEPT !.modules = id] ELSE added
      \/ ~Cur!Exists /\ UNCHANGED <<module, added>>
  BY <1>1, <1>2 DEF Cur!SaveModule
<1>5. Cur!Finish(r) /\ UNCHANGED <<course, enrolled, lesson>> BY DEF Cur!SaveModule
<1>6. CountedBy(q) => Counts' BY <1>5 DEF CountedBy, Counts
<1>7. PICK next : GoesOn(r, next) /\ (InOrder' => KeptBy(next)')
  BY <1>1, <1>5, <1>6, FinishGoesOn
<1>8. CASE ~Cur!Exists /\ UNCHANGED <<module, added>>
  <2>1. UNCHANGED Cur!rows BY <1>5, <1>8 DEF Cur!rows
  <2>2. RowsAreSane' /\ (KeptBy(q)' <=> KeptBy(q)) BY <1>3, <2>1, RowsStay
  <2>3. KeptBy(q)' => InOrder' BY <1>3 DEF KeptBy, Renumbers, Resumming, InOrder
  <2> QED BY <1>1, <1>7, <2>2, <2>3 DEF Advances, Keeps
<1>9. CASE /\ Cur!Exists
           /\ module' = [module EXCEPT ![id] = [there |-> TRUE, position |-> q.position]]
           /\ added' = IF new THEN [added EXCEPT !.modules = id] ELSE added
  <2>1. \A m \in Cur!ModuleIds :
          module'[m] = IF m = id THEN [there |-> TRUE, position |-> q.position] ELSE module[m]
    BY <1>3, <1>9 DEF RowsAreSane
  <2>2. Cur!Listed(0)' = Cur!Listed(0) \union {id}
    BY <1>3, <2>1 DEF Cur!Listed
  <2>3. \A m \in Cur!ModuleIds : Cur!Listed(m)' = Cur!Listed(m)
    BY <1>5, CourseIds DEF Cur!Listed
  <2>4. module' \in [Cur!ModuleIds -> Cur!Module]
    BY <1>3, <1>9 DEF RowsAreSane, Cur!Module
  <2>5. /\ added' \in [modules: 0..MaxModules, lessons: 0..MaxLessons]
        /\ added.modules \in Nat
        /\ added'.lessons = added.lessons
        /\ added'.modules = IF new THEN added.modules + 1 ELSE added.modules
    BY <1>2, <1>3, <1>9, CourseIds DEF RowsAreSane, Cur!ModuleIds
  <2>6. course.status # "NONE" BY <1>9 DEF Cur!Exists, Cur!CourseStatus
  <2>7. RowsAreSane'
    BY <1>3, <1>5, <2>2, <2>4, <2>5, <2>6 DEF RowsAreSane, HasFairPrice, OutlineFollows
  <2>8. Cur!TotalMinutes' = Cur!TotalMinutes
    <3>1. Cur!LessonsThere' = Cur!LessonsThere BY <2>3 DEF Cur!LessonsThere
    <3> QED BY <1>3, <1>5, <3>1, TotalStays
  <2>9. ASSUME Knows(q), KeptBy(q) PROVE InOrder'
    <3>1. /\ IdsFollow /\ \A of \in Cur!ModuleIds \union {0} : Cur!Dense(of)
          /\ Cur!Exists => course.duration = Cur!TotalMinutes
      BY <1>3, <2>9 DEF KeptBy, Renumbers, Resumming
    <3>2. IF new THEN q.position = Cardinality(Cur!Listed(0))
                 ELSE id \in Cur!Listed(0) /\ q.position = module[id].position
      BY <1>2, <1>3, <2>9 DEF Knows
    <3>3. ASSUME NEW m \in Cur!ModuleIds PROVE Cur!Dense(m)'
      <4>1. \A i \in Cur!Listed(m) : Cur!Position(m, i)' = Cur!Position(m, i)
        BY <1>5, CourseIds DEF Cur!Position
      <4> QED BY <2>3, <3>1, <4>1, PositionsStay
    <3>4. CASE new
      <4>1. \A i \in Cur!Listed(0) : i \in Cur!ModuleIds /\ i <= added.modules /\ i \in Nat
        BY <3>1, CourseIds DEF IdsFollow, Cur!Listed
      <4>2. id = added.modules + 1 BY <1>2, <3>4
      <4>3. id \notin Cur!Listed(0) BY <2>5, <4>1, <4>2
      <4>4. PICK S, f, g : S = Cur!Listed(0) /\ f = [i \in Cur!ModuleIds |-> module[i].position]
                           /\ g = [i \in Cur!ModuleIds |-> module'[i].position]
        OBVIOUS
      <4>5. \A i \in S : f[i] = Cur!Position(0, i) /\ g[i] = f[i]
        BY <2>1, <4>1, <4>3, <4>4 DEF Cur!Position
      <4>6. g[id] = Cardinality(S) BY <1>3, <2>1, <3>2, <3>4, <4>4
      <4>7. {f[i] : i \in S} = 0..Cardinality(S) - 1
        <5>1. {f[i] : i \in S} = {Cur!Position(0, i) : i \in S} BY <4>5
        <5> QED BY <3>1, <4>4, <5>1, SameCardinality DEF Cur!Dense
      <4>8. IsFiniteSet(S) /\ id \notin S /\ \A i \in S : g[i] = f[i]
        BY <4>3, <4>4, <4>5, ListedIsFinite
      <4>9. {g[i] : i \in S \union {id}} = 0..Cardinality(S \union {id}) - 1
        BY ONLY <4>6, <4>7, <4>8, AppendedIsDense
      <4>10. {Cur!Position(0, i)' : i \in S \union {id}} = {g[i] : i \in S \union {id}}
        BY <1>3, <4>1, <4>4 DEF Cur!Position
      <4>11. Cur!Dense(0)' BY <2>2, <4>4, <4>9, <4>10, SameCardinality DEF Cur!Dense
      <4>12. IdsFollow' BY <1>5, <2>1, <2>5, <3>1, <3>4, <4>2, CourseIds DEF IdsFollow
      <4> QED BY <1>5, <2>8, <3>1, <3>3, <4>11, <4>12 DEF InOrder, Cur!Exists
    <3>5. CASE ~new
      <4>1. Cur!Listed(0)' = Cur!Listed(0) BY <2>2, <3>2, <3>5
      <4>2. \A i \in Cur!Listed(0) : Cur!Position(0, i)' = Cur!Position(0, i)
        BY <2>1, <3>2, <3>5 DEF Cur!Position, Cur!Listed
      <4>3. Cur!Dense(0)' BY <3>1, <4>1, <4>2, PositionsStay
      <4>4. IdsFollow'
        BY <1>5, <2>1, <2>5, <3>1, <3>2, <3>5 DEF IdsFollow, Cur!Listed
      <4> QED BY <1>5, <2>8, <3>1, <3>3, <4>3, <4>4 DEF InOrder, Cur!Exists
    <3> QED BY <3>4, <3>5
  <2> QED BY <1>1, <1>7, <2>7, <2>9 DEF Advances, Keeps
<1> QED BY <1>4, <1>8, <1>9
LEMMA DeleteModuleAdvances ==
  ASSUME CourseConstants, CourseIsSane, NEW r \in Requests, Cur!DeleteModule(r)
  PROVE  Advances(r)
<1>1. PICK q, id : q = req[r] /\ id = q.id OBVIOUS
<1>2. q.at = "deleteModule" /\ IsEdit(q) /\ RowsAreSane
  BY <1>1 DEF Cur!DeleteModule, Cur!At, CourseIsSane
<1>3. /\ module' = [module EXCEPT ![id] = Cur!NoModule]
      /\ lesson' = [l \in Cur!LessonIds |->
                      IF lesson[l].module = id THEN Cur!NoLesson ELSE lesson[l]]
      /\ Cur!Lists(r) /\ UNCHANGED <<course, enrolled, added>>
  BY <1>1 DEF Cur!DeleteModule, Cur!LessonsWithout
<1>4. /\ \A m \in Cur!ModuleIds : module'[m] = IF m = id THEN Cur!NoModule ELSE module[m]
      /\ \A l \in Cur!LessonIds :
           lesson'[l] = IF lesson[l].module = id THEN Cur!NoLesson ELSE lesson[l]
  BY <1>2, <1>3 DEF RowsAreSane
<1>5. /\ Cur!NoModule.there = FALSE /\ Cur!NoModule \in Cur!Module
      /\ Cur!NoLesson.module = 0 /\ Cur!NoLesson \in Cur!Lesson
  BY DEF Cur!NoModule, Cur!NoLesson, Cur!Module, Cur!Lesson
<1>6. /\ Cur!Listed(0)' = Cur!Listed(0) \ {id}
      /\ \A m \in Cur!ModuleIds : Cur!Listed(m)' = IF m = id THEN {} ELSE Cur!Listed(m)
  BY <1>4, <1>5, CourseIds DEF Cur!Listed
<1>7. RowsAreSane'
  <2>1. module' \in [Cur!ModuleIds -> Cur!Module] /\ lesson' \in [Cur!LessonIds -> Cur!Lesson]
    BY <1>2, <1>3, <1>5 DEF RowsAreSane
  <2>2. \A l \in Cur!LessonIds : lesson'[l].module \in (Cur!Listed(0) \ {id}) \union {0}
    BY <1>2, <1>4, <1>5 DEF RowsAreSane
  <2> QED BY <1>2, <1>3, <1>6, <2>1, <2>2 DEF RowsAreSane, HasFairPrice, OutlineFollows
<1>8. CountedBy(q) => Counts' BY <1>3 DEF CountedBy, Counts
<1>9. PICK next : /\ GoesOn(r, next)
                  /\ /\ IdsFollow'
                     /\ \A of \in Cur!ModuleIds \union {0} : of # req[r].of => Cur!Dense(of)'
                     => KeptBy(next)'
  BY <1>1, <1>2, <1>3, <1>8, ListsGoesOn
<1>10. ASSUME Knows(q), KeptBy(q)
       PROVE  IdsFollow' /\ \A of \in Cur!ModuleIds \union {0} : of # q.of => Cur!Dense(of)'
  <2>1. /\ q.of = 0 /\ IdsFollow /\ \A of \in Cur!ModuleIds \union {0} : Cur!Dense(of)
    BY <1>2, <1>10 DEF Knows, KeptBy, Renumbers
  <2>2. IdsFollow' BY <1>3, <1>4, <1>5, <2>1 DEF IdsFollow
  <2>3. ASSUME NEW m \in Cur!ModuleIds PROVE Cur!Dense(m)'
    <3>1. CASE m = id
      <4>1. Cur!Listed(m)' = {} BY <1>6, <3>1
      <4>2. Cur!Cardinality({}) = 0 /\ 0..0 - 1 = {} BY FS_EmptySet, SameCardinality
      <4> QED BY <4>1, <4>2 DEF Cur!Dense
    <3>2. CASE m # id
      <4>1. Cur!Listed(m)' = Cur!Listed(m) BY <1>6, <3>2
      <4>2. \A i \in Cur!Listed(m) : Cur!Position(m, i)' = Cur!Position(m, i)
        BY <1>4, <3>2, CourseIds DEF Cur!Position, Cur!Listed
      <4> QED BY <2>1, <4>1, <4>2, PositionsStay
    <3> QED BY <3>1, <3>2
  <2> QED BY <2>1, <2>2, <2>3
<1> QED BY <1>1, <1>7, <1>9, <1>10 DEF Advances, Keeps

LEMMA DeleteLessonAdvances ==
  ASSUME CourseConstants, CourseIsSane, NEW r \in Requests, Cur!DeleteLesson(r)
  PROVE  Advances(r)
<1>1. PICK q, id : q = req[r] /\ id = q.id OBVIOUS
<1>2. q.at = "deleteLesson" /\ IsEdit(q) /\ RowsAreSane
  BY <1>1 DEF Cur!DeleteLesson, Cur!At, CourseIsSane
<1>3. /\ lesson' = [lesson EXCEPT ![id] = Cur!NoLesson]
      /\ Cur!Lists(r) /\ UNCHANGED <<course, enrolled, module, added>>
  BY <1>1 DEF Cur!DeleteLesson
<1>4. \A l \in Cur!LessonIds : lesson'[l] = IF l = id THEN Cur!NoLesson ELSE lesson[l]
  BY <1>2, <1>3 DEF RowsAreSane
<1>5. Cur!NoLesson.module = 0 /\ Cur!NoLesson \in Cur!Lesson
  BY DEF Cur!NoLesson, Cur!Lesson
<1>6. /\ Cur!Listed(0)' = Cur!Listed(0)
      /\ \A m \in Cur!ModuleIds : Cur!Listed(m)' = Cur!Listed(m) \ {id}
  BY <1>3, <1>4, <1>5, CourseIds DEF Cur!Listed
<1>7. RowsAreSane'
  <2>1. lesson' \in [Cur!LessonIds -> Cur!Lesson] BY <1>2, <1>3, <1>5 DEF RowsAreSane
  <2>2. \A l \in Cur!LessonIds : lesson'[l].module \in Cur!Listed(0) \union {0}
    BY <1>2, <1>4, <1>5 DEF RowsAreSane
  <2> QED BY <1>2, <1>3, <1>6, <2>1, <2>2 DEF RowsAreSane, HasFairPrice, OutlineFollows
<1>8. CountedBy(q) => Counts' BY <1>3 DEF CountedBy, Counts
<1>9. PICK next : /\ GoesOn(r, next)
                  /\ /\ IdsFollow'
                     /\ \A of \in Cur!ModuleIds \union {0} : of # req[r].of => Cur!Dense(of)'
                     => KeptBy(next)'
  BY <1>1, <1>2, <1>3, <1>8, ListsGoesOn
<1>10. ASSUME Knows(q), KeptBy(q)
       PROVE  IdsFollow' /\ \A of \in Cur!ModuleIds \union {0} : of # q.of => Cur!Dense(of)'
  <2>1. /\ q.of \in Cur!Listed(0) /\ id \in Cur!Listed(q.of)
        /\ IdsFollow /\ \A of \in Cur!ModuleIds \union {0} : Cur!Dense(of)
    BY <1>1, <1>2, <1>10 DEF Knows, KeptBy, Renumbers
  <2>2. IdsFollow' BY <1>3, <1>4, <1>5, <2>1 DEF IdsFollow
  <2>3. ASSUME NEW of \in Cur!ModuleIds \union {0}, of # q.of PROVE Cur!Dense(of)'
    <3>1. CASE of = 0
      <4>1. \A i \in Cur!Listed(0) : Cur!Position(0, i)' = Cur!Position(0, i)
        BY <1>3 DEF Cur!Position
      <4> QED BY <1>6, <2>1, <3>1, <4>1, PositionsStay
    <3>2. CASE of # 0
      <4>1. id \notin Cur!Listed(of)
        BY <2>1, <2>3, <3>2, CourseIds DEF Cur!Listed
      <4>2. Cur!Listed(of)' = Cur!Listed(of) BY <1>6, <3>2, <4>1
      <4>3. \A i \in Cur!Listed(of) : Cur!Position(of, i)' = Cur!Position(of, i)
        BY <1>4, <3>2, <4>1 DEF Cur!Position, Cur!Listed
      <4> QED BY <2>1, <4>2, <4>3, PositionsStay
    <3> QED BY <3>1, <3>2
  <2> QED BY <2>2, <2>3
<1> QED BY <1>1, <1>7, <1>9, <1>10 DEF Advances, Keeps

LEMMA SaveLessonAdvances ==
  ASSUME CourseConstants, CourseIsSane, NEW r \in Requests, Cur!SaveLesson(r)
  PROVE  Advances(r)
<1>1. PICK q, of : q = req[r] /\ of = q.of OBVIOUS
<1>2. PICK new, id : new = (q.id = 0) /\ id = IF new THEN added.lessons + 1 ELSE q.id OBVIOUS
<1>3. /\ q.at = "saveLesson" /\ IsEdit(q) /\ RowsAreSane
      /\ id \in Cur!LessonIds /\ q.position \in Nat /\ q.minutes \in Nat
      /\ of \in Cur!ModuleIds
  BY <1>1, <1>2 DEF Cur!SaveLesson, Cur!At, CourseIsSane, IsEdit
<1>4. UNCHANGED <<course, enrolled, module>> BY DEF Cur!SaveLesson
<1>5. \/ /\ module[of].there
         /\ lesson' = [lesson EXCEPT ![id] =
              [module |-> of, position |-> q.position, minutes |-> q.minutes]]
         /\ added' = IF new THEN [added EXCEPT !.lessons = id] ELSE added
         /\ (q.resum /\ Cur!Sums(r)) \/ (~q.resum /\ Cur!Finish(r))
      \/ ~module[of].there /\ Cur!Finish(r) /\ UNCHANGED <<lesson, added>>
  BY <1>1, <1>2 DEF Cur!SaveLesson
<1>6. CountedBy(q) => Counts' BY <1>4 DEF CountedBy, Counts
<1>7. CASE ~module[of].there /\ Cur!Finish(r) /\ UNCHANGED <<lesson, added>>
  <2>1. UNCHANGED Cur!rows BY <1>4, <1>7 DEF Cur!rows
  <2>2. RowsAreSane' /\ (KeptBy(q)' <=> KeptBy(q)) BY <1>3, <2>1, RowsStay
  <2>3. KeptBy(q)' => InOrder' BY <1>3 DEF KeptBy, Renumbers, Resumming, InOrder
  <2>4. PICK next : GoesOn(r, next) /\ (InOrder' => KeptBy(next)')
    BY <1>1, <1>6, <1>7, FinishGoesOn
  <2> QED BY <1>1, <2>2, <2>3, <2>4 DEF Advances, Keeps
<1>8. CASE /\ module[of].there
           /\ lesson' = [lesson EXCEPT ![id] =
                [module |-> of, position |-> q.position, minutes |-> q.minutes]]
           /\ added' = IF new THEN [added EXCEPT !.lessons = id] ELSE added
           /\ (q.resum /\ Cur!Sums(r)) \/ (~q.resum /\ Cur!Finish(r))
  <2>1. \A l \in Cur!LessonIds :
          lesson'[l] = IF l = id
                       THEN [module |-> of, position |-> q.position, minutes |-> q.minutes]
                       ELSE lesson[l]
    BY <1>3, <1>8 DEF RowsAreSane
  <2>2. /\ Cur!Listed(0)' = Cur!Listed(0)
        /\ \A m \in Cur!ModuleIds :
             Cur!Listed(m)' = IF m = of THEN Cur!Listed(m) \union {id} ELSE Cur!Listed(m) \ {id}
    <3>1. Cur!Listed(0)' = Cur!Listed(0) BY <1>4 DEF Cur!Listed
    <3>2. ASSUME NEW m \in Cur!ModuleIds
          PROVE  /\ Cur!Listed(m) = {l \in Cur!LessonIds : lesson[l].module = m}
                 /\ Cur!Listed(m)' = {l \in Cur!LessonIds : lesson'[l].module = m}
      BY <3>2, CourseIds DEF Cur!Listed
    <3>3. \A l \in Cur!LessonIds : lesson'[l].module = IF l = id THEN of ELSE lesson[l].module
      BY <2>1
    <3>4. ASSUME NEW m \in Cur!ModuleIds
          PROVE  Cur!Listed(m)' = IF m = of THEN Cur!Listed(m) \union {id}
                                           ELSE Cur!Listed(m) \ {id}
      <4>1. CASE m = of BY <1>3, <3>2, <3>3, <4>1
      <4>2. CASE m # of BY <1>3, <3>2, <3>3, <4>2
      <4> QED BY <4>1, <4>2
    <3> QED BY <3>1, <3>4
  <2>3. lesson' \in [Cur!LessonIds -> Cur!Lesson] BY <1>3, <1>8 DEF RowsAreSane, Cur!Lesson
  <2>4. /\ added' \in [modules: 0..MaxModules, lessons: 0..MaxLessons]
        /\ added.lessons \in Nat
        /\ added'.modules = added.modules
        /\ added'.lessons = IF new THEN added.lessons + 1 ELSE added.lessons
    BY <1>2, <1>3, <1>8, CourseIds DEF RowsAreSane, Cur!LessonIds
  <2>5. RowsAreSane'
    <3>1. of \in Cur!Listed(0) BY <1>3, <1>8 DEF Cur!Listed
    <3>2. \A l \in Cur!LessonIds : lesson'[l].module \in Cur!Listed(0) \union {0}
      BY <1>3, <2>1, <3>1 DEF RowsAreSane
    <3> QED BY <1>3, <1>4, <2>2, <2>3, <2>4, <3>2
      DEF RowsAreSane, HasFairPrice, OutlineFollows
  <2>6. ASSUME Knows(q), KeptBy(q)
        PROVE  /\ IdsFollow' /\ \A x \in Cur!ModuleIds \union {0} : Cur!Dense(x)'
               /\ ~q.resum => InOrder'
    <3>1. /\ IdsFollow /\ \A x \in Cur!ModuleIds \union {0} : Cur!Dense(x)
          /\ Cur!Exists => course.duration = Cur!TotalMinutes
      BY <1>3, <2>6 DEF KeptBy, Renumbers, Resumming
    <3>2. IF new THEN q.position = Cardinality(Cur!Listed(of)) /\ q.resum
                 ELSE /\ id \in Cur!Listed(of) /\ q.position = lesson[id].position
                      /\ ~q.resum => q.minutes = lesson[id].minutes
      BY <1>1, <1>2, <1>3, <2>6 DEF Knows
    <3>3. IF new THEN id = added.lessons + 1 /\ \A m \in Cur!ModuleIds : id \notin Cur!Listed(m)
                 ELSE \A m \in Cur!ModuleIds : id \in Cur!Listed(m) <=> m = of
      <4>1. CASE new
        <5>1. \A m \in Cur!ModuleIds : \A l \in Cur!Listed(m) : l \in Nat /\ l <= added.lessons
          BY <3>1, CourseIds DEF IdsFollow, Cur!Listed
        <5> QED BY <1>2, <2>4, <4>1, <5>1
      <4>2. CASE ~new BY <1>3, <3>2, <4>2, CourseIds DEF Cur!Listed
      <4> QED BY <4>1, <4>2
    <3>4. IdsFollow'
      BY <1>3, <1>4, <2>1, <2>4, <3>1, <3>2, <3>3, CourseIds DEF IdsFollow, Cur!Listed
    <3>5. ASSUME NEW x \in Cur!ModuleIds \union {0}, x # of \/ ~new PROVE Cur!Dense(x)'
      <4>1. Cur!Listed(x)' = Cur!Listed(x)
        <5>1. CASE x = 0 BY <2>2, <5>1
        <5>2. CASE x # 0 /\ x = of
          <6>1. id \in Cur!Listed(of) BY <3>2, <3>5, <5>2
          <6> QED BY <1>3, <2>2, <5>2, <6>1
        <5>3. CASE x # 0 /\ x # of
          <6>1. id \notin Cur!Listed(x) BY <3>3, <5>3
          <6> QED BY <2>2, <5>3, <6>1
        <5> QED BY <5>1, <5>2, <5>3
      <4>2. \A i \in Cur!Listed(x) : Cur!Position(x, i)' = Cur!Position(x, i)
        <5>1. CASE x = 0 BY <1>4, <5>1 DEF Cur!Position
        <5>2. CASE x # 0
          BY <2>1, <3>2, <3>3, <3>5, <5>2 DEF Cur!Position, Cur!Listed
        <5> QED BY <5>1, <5>2
      <4> QED BY <3>1, <4>1, <4>2, PositionsStay
    <3>6. ASSUME new PROVE Cur!Dense(of)'
      <4>1. PICK S, f, g : S = Cur!Listed(of) /\ f = [i \in Cur!LessonIds |-> lesson[i].position]
                           /\ g = [i \in Cur!LessonIds |-> lesson'[i].position]
        OBVIOUS
      <4>2. of # 0 /\ S \subseteq Cur!LessonIds
        BY <1>3, <4>1, CourseIds DEF Cur!Listed
      <4>3. \A i \in S : f[i] = Cur!Position(of, i)
        BY <4>1, <4>2 DEF Cur!Position
      <4>4. g[id] = Cardinality(S) BY <1>3, <2>1, <3>2, <3>6, <4>1
      <4>5. {f[i] : i \in S} = 0..Cardinality(S) - 1
        <5>1. {f[i] : i \in S} = {Cur!Position(of, i) : i \in S} BY <4>3
        <5> QED BY <1>3, <3>1, <4>1, <5>1, SameCardinality DEF Cur!Dense
      <4>6. IsFiniteSet(S) /\ id \notin S /\ \A i \in S : g[i] = f[i]
        BY <1>3, <2>1, <3>3, <3>6, <4>1, <4>2, ListedIsFinite
      <4>7. {g[i] : i \in S \union {id}} = 0..Cardinality(S \union {id}) - 1
        BY ONLY <4>4, <4>5, <4>6, AppendedIsDense
      <4>8. {Cur!Position(of, i)' : i \in S \union {id}} = {g[i] : i \in S \union {id}}
        BY <1>3, <4>1, <4>2 DEF Cur!Position
      <4>9. Cur!Listed(of)' = S \union {id} BY <1>3, <2>2, <4>1
      <4> QED BY <4>7, <4>8, <4>9, SameCardinality DEF Cur!Dense
    <3>7. ASSUME ~q.resum PROVE Cur!TotalMinutes' = Cur!TotalMinutes
      <4>1. \A m \in Cur!ModuleIds : Cur!Listed(m)' = Cur!Listed(m)
        BY <2>2, <3>2, <3>3, <3>7
      <4>2. Cur!LessonsThere' = Cur!LessonsThere BY <4>1 DEF Cur!LessonsThere
      <4>3. Cur!LessonsThere \subseteq Cur!LessonIds
        BY CourseIds DEF Cur!LessonsThere, Cur!Listed
      <4>4. \A l \in Cur!LessonsThere : lesson'[l].minutes = lesson[l].minutes
        BY <2>1, <3>2, <3>7, <4>3
      <4> QED BY <1>3, <4>2, <4>4, TotalStays
    <3>8. \A x \in Cur!ModuleIds \union {0} : Cur!Dense(x)' BY <3>5, <3>6
    <3>9. ~q.resum => InOrder' BY <1>4, <3>1, <3>4, <3>7, <3>8 DEF InOrder, Cur!Exists
    <3> QED BY <3>4, <3>8, <3>9
  <2>7. CASE q.resum /\ Cur!Sums(r)
    <3>1. PICK next : /\ GoesOn(r, next)
                      /\ IdsFollow' /\ (\A x \in Cur!ModuleIds \union {0} : Cur!Dense(x)')
                           => KeptBy(next)'
      BY <1>1, <1>3, <1>6, <2>7, SumsGoesOn
    <3> QED BY <1>1, <2>5, <2>6, <3>1 DEF Advances, Keeps
  <2>8. CASE ~q.resum /\ Cur!Finish(r)
    <3>1. PICK next : GoesOn(r, next) /\ (InOrder' => KeptBy(next)')
      BY <1>1, <1>6, <2>8, FinishGoesOn
    <3> QED BY <1>1, <2>5, <2>6, <2>8, <3>1 DEF Advances, Keeps
  <2> QED BY <1>8, <2>7, <2>8
<1> QED BY <1>5, <1>7, <1>8
-----------------------------------------------------------------------------
LEMMA FailKeepsCourse ==
  ASSUME CourseConstants, CourseInvariant, NEW r \in Requests, Cur!Fail(r)
  PROVE  CourseInvariant'
<1>1. /\ Cur!Under(r) /\ Cur!Finish(r) /\ UNCHANGED Cur!rows
      /\ overlaps' = overlaps /\ failures' = failures + 1
  BY DEF Cur!Fail
<1>2. RowsAreSane /\ failures \in Nat BY DEF CourseInvariant, CourseIsSane
<1>3. RowsAreSane' BY <1>1, <1>2, RowsStay
<1>4. CountedBy(req[r]) => Counts' BY <1>1 DEF CountedBy, Counts, Cur!rows
<1>5. PICK next : GoesOn(r, next) BY <1>1, <1>4, FinishGoesOn
<1>6. failures' \in Nat /\ failures' # 0 BY <1>1, <1>2
<1> QED BY <1>1, <1>3, <1>5, <1>6, EditGoesOn

LEMMA StepKeepsCourse ==
  ASSUME CourseConstants, CourseInvariant, NEW r \in Requests, Cur!Step(r)
  PROVE  CourseInvariant'
<1>1. CourseIsSane /\ failures \in Nat BY DEF CourseInvariant, CourseIsSane
<1>2. Advances(r)
  BY <1>1, CountLessonsAdvances, SaveCourseAdvances, DeleteCourseAdvances, FindAdvances,
     ApplyOrderAdvances, SumAdvances, WriteDurationAdvances, SaveModuleAdvances,
     DeleteModuleAdvances, SaveLessonAdvances, DeleteLessonAdvances
  DEF Cur!Step
<1>3. Cur!Under(r) /\ UNCHANGED <<overlaps, failures>>
  BY DEF Cur!Step, Cur!CountLessons, Cur!SaveCourse, Cur!DeleteCourse, Cur!Find,
         Cur!ApplyOrder, Cur!Sum, Cur!WriteDuration, Cur!SaveModule, Cur!DeleteModule,
         Cur!SaveLesson, Cur!DeleteLesson, Cur!At, Cur!Under, Cur!Goes
<1>4. PICK next : GoesOn(r, next) /\ Keeps(r, next) BY <1>2 DEF Advances
<1>5. RowsAreSane' BY <1>2 DEF Advances
<1> QED BY <1>1, <1>3, <1>4, <1>5, EditGoesOn

-----------------------------------------------------------------------------
(* Whatever comes between, an edit is no longer alone and goes on.         *)
LEMMA DisturbedIsEdit ==
  ASSUME NEW s, IsEdit(req[s])
  PROVE  /\ IsEdit(Cur!Disturbed(s)) /\ Cur!Disturbed(s).at = req[s].at
         /\ ~Cur!Disturbed(s).alone
         /\ req[s].at = "idle" => Cur!Disturbed(s) = Cur!Idle
<1>1. PICK q, d : q = req[s] /\ d = Cur!Disturbed(s) OBVIOUS
<1>2. d = [q EXCEPT !.alone = FALSE] /\ IsEdit(q) BY <1>1 DEF Cur!Disturbed
<1>3. d.at = q.at /\ d.alone = FALSE /\ d.order = q.order /\ d.course = q.course /\ d.of = q.of
  BY <1>2 DEF IsEdit
<1>4. ASSUME q.at = "idle" PROVE d = Cur!Idle
  <2>1. q = Cur!Idle BY <1>2, <1>4 DEF IsEdit
  <2>2. d = [Cur!Idle EXCEPT !.alone = FALSE] BY <1>2, <2>1
  <2> QED BY <2>2 DEF Cur!Idle
<1>5. IsEdit(d) BY <1>2, <1>3, <1>4 DEF IsEdit
<1> QED BY <1>1, <1>3, <1>4, <1>5

LEMMA StartKeepsCourse ==
  ASSUME CourseConstants, CourseInvariant, NEW r \in Requests, NEW edit, NEW request,
         Cur!Starts(r, request), edit = [request EXCEPT !.alone = ~Cur!Busy],
         edit.alone = ~Cur!Busy, IsEdit(edit), Knows(edit),
         overlaps = 0 /\ ~Cur!Busy => CountedBy(edit)
  PROVE  CourseInvariant'
<1>1. /\ ~Cur!Under(r) /\ UNCHANGED Cur!rows /\ failures' = failures
      /\ overlaps' = IF Cur!Busy THEN overlaps + 1 ELSE overlaps
      /\ req' = [q \in Requests |-> IF q = r THEN edit ELSE Cur!Disturbed(q)]
  BY DEF Cur!Starts, Cur!Arrives
<1>2. /\ RowsAreSane /\ overlaps \in Nat /\ failures \in Nat /\ DOMAIN req = Requests
      /\ \A s \in Requests : IsEdit(req[s])
  BY DEF CourseInvariant, CourseIsSane
<1>3. \A s \in Requests : req'[s] = IF s = r THEN edit ELSE Cur!Disturbed(s) BY <1>1
<1>4. /\ RowsAreSane'
      /\ Knows(edit)' <=> Knows(edit)
      /\ CountedBy(edit)' <=> CountedBy(edit)
      /\ KeptBy(edit)' <=> KeptBy(edit)
  BY <1>1, <1>2, RowsStay
<1>5. CourseIsSane'
  <2>1. DOMAIN req' = Requests BY <1>1
  <2>2. \A s \in Requests : IsEdit(req'[s]) BY <1>2, <1>3, DisturbedIsEdit
  <2> QED BY <1>1, <1>2, <1>4, <2>1, <2>2 DEF CourseIsSane
<1>6. ASSUME ~Cur!Busy PROVE \A s \in Requests : ~Cur!Under(s) /\ req[s] = Cur!Idle
  BY <1>2, <1>6 DEF Cur!Busy, Cur!Under, IsEdit
<1>7. LoneEdits'
  <2>1. ASSUME NEW s \in Requests, Cur!Under(s)', req'[s].alone
        PROVE  (\A q \in Requests : Cur!Under(q)' => q = s) /\ Knows(req[s])'
    <3>1. s = r /\ ~Cur!Busy
      <4>1. ~Cur!Disturbed(s).alone BY <1>2, DisturbedIsEdit
      <4>2. s = r BY <1>3, <2>1, <4>1
      <4>3. edit.alone BY <1>3, <2>1, <4>2
      <4> QED BY <4>2, <4>3
    <3>2. ASSUME NEW q \in Requests, q # r PROVE ~Cur!Under(q)'
      <4>1. req[q].at = "idle" BY <1>6, <3>1 DEF Cur!Under
      <4>2. req'[q].at = "idle" BY <1>2, <1>3, <3>2, <4>1, DisturbedIsEdit
      <4> QED BY <4>2 DEF Cur!Under
    <3>3. req'[s] = edit BY <1>3, <3>1
    <3> QED BY <1>4, <3>1, <3>2, <3>3
  <2> QED BY <2>1 DEF LoneEdits
<1>8. ASSUME overlaps' = 0
      PROVE  /\ ~Cur!Busy /\ overlaps = 0 /\ Editing = Cur!Idle /\ Editing' = edit
             /\ \A s \in Requests : Cur!Under(s)' => req'[s].alone
  <2>1. ~Cur!Busy /\ overlaps = 0 BY <1>1, <1>2, <1>8
  <2>2. \A s \in Requests : ~Cur!Under(s) /\ req[s] = Cur!Idle BY <1>6, <2>1
  <2>3. \A s \in Requests : s # r => req'[s] = Cur!Idle
    BY <1>2, <1>3, <2>2, DisturbedIsEdit DEF Cur!Under
  <2>4. \A s \in Requests : req'[s] = IF s = r THEN edit ELSE req[s]
    BY <1>3, <2>2, <2>3
  <2>5. req' = [req EXCEPT ![r] = edit] BY <1>1, <1>2, <2>4
  <2>6. Editing = req[r] /\ Editing' = edit BY <1>2, <2>2, <2>5, EditingIs
  <2>7. \A s \in Requests : Cur!Under(s)' => s = r
    <3>1. Cur!Idle.at = "idle" BY DEF Cur!Idle
    <3> QED BY <2>3, <3>1 DEF Cur!Under
  <2> QED BY <1>3, <2>1, <2>2, <2>6, <2>7
<1>9. CourseIsCounted' BY <1>4, <1>8 DEF CourseIsCounted
<1>10. CourseIsKept'
  <2>1. ASSUME overlaps' = 0, failures' = 0 PROVE KeptBy(Editing)'
    <3>1. PICK idle : idle = Cur!Idle OBVIOUS
    <3>2. KeptBy(idle) BY <1>1, <1>8, <2>1, <3>1 DEF CourseInvariant, CourseIsKept
    <3>3. KeptBy(edit) BY <3>1, <3>2, IdleKnows DEF KeptBy
    <3> QED BY <1>4, <1>8, <2>1, <3>3
  <2> QED BY <2>1 DEF CourseIsKept
<1> QED BY <1>5, <1>7, <1>9, <1>10 DEF CourseInvariant

LEMMA LearnerKeepsCourse ==
  ASSUME CourseConstants, CourseInvariant, Cur!Enroll \/ Cur!Leave
  PROVE  CourseInvariant'
<1>1. /\ enrolled' = ~enrolled /\ Cur!Arrives /\ UNCHANGED <<module, lesson, added>>
      /\ course' = Cur!Counted(course, enrolled')
      /\ enrolled \/ course.status = "PUBLISHED"
      /\ req' = [q \in Requests |-> Cur!Disturbed(q)]
      /\ enrolled \in BOOLEAN
  BY DEF Cur!Enroll, Cur!Leave, CourseInvariant, CourseIsSane, RowsAreSane
<1>2. /\ RowsAreSane /\ overlaps \in Nat /\ failures \in Nat /\ DOMAIN req = Requests
      /\ \A s \in Requests : IsEdit(req[s])
      /\ failures' = failures
      /\ overlaps' = IF Cur!Busy THEN overlaps + 1 ELSE overlaps
  BY <1>1 DEF CourseInvariant, CourseIsSane, Cur!Arrives
<1>3. course' = [course EXCEPT !.enrollmentCount = IF enrolled' THEN @ + 1 ELSE @ - 1]
  BY <1>1 DEF Cur!Counted
<1>4. /\ course' \in Cur!Course
      /\ course'.status = course.status /\ course'.pricing = course.pricing
      /\ course'.price = course.price /\ course'.duration = course.duration
      /\ course'.enrollmentCount = IF enrolled' THEN course.enrollmentCount + 1
                                               ELSE course.enrollmentCount - 1
  BY <1>2, <1>3 DEF RowsAreSane, Cur!Course
<1>5. course.status # "NONE" BY <1>1, <1>2 DEF RowsAreSane, OutlineFollows
<1>6. /\ \A of : Cur!Listed(of)' = Cur!Listed(of) /\ (Cur!Dense(of)' <=> Cur!Dense(of))
      /\ Cur!TotalMinutes' = Cur!TotalMinutes
  BY <1>1, <1>2, OutlineStays
<1>7. RowsAreSane'
  BY <1>1, <1>2, <1>4, <1>5, <1>6 DEF RowsAreSane, HasFairPrice, OutlineFollows
<1>8. \A s \in Requests : req'[s] = Cur!Disturbed(s) BY <1>1
<1>9. CourseIsSane'
  <2>1. DOMAIN req' = Requests BY <1>1
  <2>2. \A s \in Requests : IsEdit(req'[s]) BY <1>2, <1>8, DisturbedIsEdit
  <2> QED BY <1>2, <1>7, <2>1, <2>2 DEF CourseIsSane
<1>10. LoneEdits' BY <1>2, <1>8, DisturbedIsEdit DEF LoneEdits
<1>11. ASSUME overlaps' = 0
       PROVE  /\ overlaps = 0 /\ Editing = Cur!Idle /\ Editing' = Cur!Idle
              /\ \A s \in Requests : ~Cur!Under(s)'
  <2>1. ~Cur!Busy /\ overlaps = 0 BY <1>2, <1>11
  <2>2. \A s \in Requests : req[s].at = "idle" BY <2>1 DEF Cur!Busy, Cur!Under
  <2>3. \A s \in Requests : ~Cur!Under(s)' BY <1>2, <1>8, <2>2, DisturbedIsEdit DEF Cur!Under
  <2>4. ~Cur!Busy' BY <2>3 DEF Cur!Busy
  <2> QED BY <2>1, <2>3, <2>4 DEF Editing
<1>12. PICK idle : idle = Cur!Idle OBVIOUS
<1>13. CourseIsCounted'
  <2>1. ASSUME overlaps' = 0 PROVE CountedBy(idle)'
    <3>1. CountedBy(idle) BY <1>11, <1>12, <2>1 DEF CourseInvariant, CourseIsCounted
    <3>2. idle.at = "idle" BY <1>12, IdleKnows
    <3>3. course.enrollmentCount = IF enrolled THEN 1 ELSE 0 BY <3>1 DEF CountedBy
    <3>4. course'.enrollmentCount = IF enrolled' THEN 1 ELSE 0
      <4>1. (enrolled /\ enrolled' = FALSE) \/ (~enrolled /\ enrolled' = TRUE)
        BY DEF Cur!Enroll, Cur!Leave
      <4> QED BY <1>4, <3>3, <4>1
    <3> QED BY <3>2, <3>4 DEF CountedBy
  <2> QED BY <1>11, <1>12, <2>1 DEF CourseIsCounted
<1>14. CourseIsKept'
  <2>1. ASSUME overlaps' = 0, failures' = 0 PROVE KeptBy(idle)'
    <3>1. KeptBy(idle) BY <1>2, <1>11, <1>12, <2>1 DEF CourseInvariant, CourseIsKept
    <3>2. IdsFollow' <=> IdsFollow BY <1>1 DEF IdsFollow
    <3> QED BY <1>4, <1>6, <3>1, <3>2 DEF KeptBy, Renumbers, Resumming, Cur!Exists
  <2> QED BY <1>11, <1>12, <2>1 DEF CourseIsKept
<1> QED BY <1>9, <1>10, <1>13, <1>14 DEF CourseInvariant
(* A request that is sane and knows what it has loaded may start.          *)
LEMMA BeginKeepsCourse ==
  ASSUME CourseConstants, CourseInvariant, NEW r \in Requests, NEW request,
         Cur!Starts(r, request), IsEdit(request), request.at # "idle", Knows(request),
         overlaps = 0 /\ ~Cur!Busy /\ request.at = "deleteCourse" => ~enrolled
  PROVE  CourseInvariant'
<1>1. PICK busy \in BOOLEAN : busy <=> Cur!Busy OBVIOUS
<1>2. PICK edit : edit = [request EXCEPT !.alone = ~Cur!Busy] OBVIOUS
<1>3. (~Cur!Busy) \in BOOLEAN BY DEF Cur!Busy
<1>4. PICK alone \in BOOLEAN : alone = ~Cur!Busy BY <1>3
<1>5. edit = [request EXCEPT !.alone = alone] BY <1>2, <1>4
<1>6. /\ edit.at = request.at /\ edit.course = request.course /\ edit.of = request.of
      /\ edit.id = request.id /\ edit.position = request.position
      /\ edit.minutes = request.minutes /\ edit.order = request.order
      /\ edit.total = request.total /\ edit.resum = request.resum /\ edit.alone = alone
  BY <1>5 DEF IsEdit
<1>7. IsEdit(edit) BY <1>4, <1>5, <1>6 DEF IsEdit
<1>8. Knows(edit) BY <1>6 DEF Knows
<1>9. ASSUME overlaps = 0, ~Cur!Busy PROVE CountedBy(edit)
  <2>1. course.enrollmentCount = IF enrolled THEN 1 ELSE 0
    BY <1>9 DEF CourseInvariant, CourseIsCounted, CountedBy
  <2> QED BY <1>6, <1>9, <2>1 DEF CountedBy
<1>10. edit.alone = ~Cur!Busy BY <1>4, <1>6
<1> QED BY <1>2, <1>7, <1>8, <1>9, <1>10, StartKeepsCourse

LEMMA LoadKeepsCourse ==
  ASSUME CourseConstants, CourseInvariant, NEW r \in Requests, NEW row, NEW place,
         place \in {"saveCourse", "countLessons", "deleteCourse"},
         Cur!Starts(r, [Cur!Idle EXCEPT !.at = place, !.course = row]),
         row \in Cur!Course, row.status \in Cur!CourseStatus, HasFairPrice(row),
         row.enrollmentCount = course.enrollmentCount, row.duration = course.duration,
         Cur!Exists \/ course.status = "NONE",
         overlaps = 0 /\ ~Cur!Busy /\ place = "deleteCourse" => ~enrolled
  PROVE  CourseInvariant'
<1>1. PICK idle, request : idle = Cur!Idle /\ request = [idle EXCEPT !.at = place, !.course = row]
  OBVIOUS
<1>2. IsEdit(idle) BY <1>1, IdleKnows
<1>3. request.at = place /\ request.course = row BY <1>1, <1>2 DEF IsEdit
<1>4. IsEdit(request) BY <1>1, <1>2, <1>3 DEF IsEdit, Cur!Places
<1>5. Knows(request) BY <1>3 DEF Knows
<1> QED BY <1>1, <1>3, <1>4, <1>5, BeginKeepsCourse

LEMMA PricedIsFair ==
  ASSUME CourseConstants, NEW row \in Cur!Course, NEW pricing \in {"FREE", "PAID"},
         NEW price \in Prices \union {0}, ~Cur!Refused(pricing, price)
  PROVE  /\ Cur!Priced(row, pricing, price) \in Cur!Course
         /\ HasFairPrice(Cur!Priced(row, pricing, price))
         /\ Cur!Priced(row, pricing, price).status = row.status
         /\ Cur!Priced(row, pricing, price).duration = row.duration
         /\ Cur!Priced(row, pricing, price).enrollmentCount = row.enrollmentCount
<1>1. PICK p : p = Cur!NormalisedPrice(pricing, price) OBVIOUS
<1>2. p \in Nat /\ (pricing = "PAID" <=> p > 0)
  BY <1>1 DEF Cur!NormalisedPrice, Cur!Refused, CourseConstants
<1>3. Cur!Priced(row, pricing, price) = [row EXCEPT !.pricing = pricing, !.price = p]
  BY <1>1 DEF Cur!Priced
<1> QED BY <1>2, <1>3 DEF Cur!Course, HasFairPrice

LEMMA CourseLoadsKeep ==
  ASSUME CourseConstants, CourseInvariant, NEW r \in Requests,
         \/ Cur!Archive(r) \/ Cur!Publish(r) \/ Cur!Unpublish(r) \/ Cur!RemoveCourse(r)
         \/ \E pricing \in {"FREE", "PAID"}, price \in Prices \union {0} :
              Cur!Create(r, pricing, price) \/ Cur!UpdateCourse(r, pricing, price)
  PROVE  CourseInvariant'
<1>1. RowsAreSane /\ course \in Cur!Course /\ HasFairPrice(course)
  BY DEF CourseInvariant, CourseIsSane, RowsAreSane
<1>2. ASSUME NEW pricing \in {"FREE", "PAID"}, NEW price \in Prices \union {0},
             Cur!Create(r, pricing, price)
      PROVE  CourseInvariant'
  <2>1. PICK new : new = [Cur!NoCourse EXCEPT !.status = "DRAFT"] OBVIOUS
  <2>2. /\ course = Cur!NoCourse /\ course.status = "NONE" /\ ~Cur!Refused(pricing, price)
    BY <1>1, <1>2 DEF Cur!Create, RowsAreSane, OutlineFollows
  <2>3. /\ new \in Cur!Course /\ new.status = "DRAFT"
        /\ new.duration = course.duration /\ new.enrollmentCount = course.enrollmentCount
    BY <2>1, <2>2 DEF Cur!NoCourse, Cur!Course, Cur!CourseStatus
  <2>4. PICK row : row = Cur!Priced(new, pricing, price) OBVIOUS
  <2>5. /\ row \in Cur!Course /\ HasFairPrice(row) /\ row.status = "DRAFT"
        /\ row.duration = course.duration /\ row.enrollmentCount = course.enrollmentCount
    BY <2>2, <2>3, <2>4, PricedIsFair
  <2>6. Cur!Starts(r, [Cur!Idle EXCEPT !.at = "saveCourse", !.course = row])
    BY <1>2, <2>1, <2>4 DEF Cur!Create
  <2> QED BY <2>2, <2>5, <2>6, LoadKeepsCourse DEF Cur!CourseStatus
<1>3. ASSUME NEW pricing \in {"FREE", "PAID"}, NEW price \in Prices \union {0},
             Cur!UpdateCourse(r, pricing, price)
      PROVE  CourseInvariant'
  <2>1. PICK row : row = Cur!Priced(course, pricing, price) OBVIOUS
  <2>2. /\ ~Cur!Refused(pricing, price) /\ Cur!Exists
        /\ Cur!Starts(r, [Cur!Idle EXCEPT !.at = "saveCourse", !.course = row])
    BY <1>3, <2>1 DEF Cur!UpdateCourse, Cur!LoadCourse
  <2>3. /\ row \in Cur!Course /\ HasFairPrice(row) /\ row.status = course.status
        /\ row.duration = course.duration /\ row.enrollmentCount = course.enrollmentCount
    BY <1>1, <2>1, <2>2, PricedIsFair
  <2> QED BY <2>2, <2>3, LoadKeepsCourse DEF Cur!Exists
<1>4. ASSUME NEW status \in Cur!CourseStatus, NEW place \in {"saveCourse", "countLessons"},
             Cur!LoadCourse(r, place, [course EXCEPT !.status = status])
      PROVE  CourseInvariant'
  <2>1. PICK row : row = [course EXCEPT !.status = status] OBVIOUS
  <2>2. Cur!Exists /\ Cur!Starts(r, [Cur!Idle EXCEPT !.at = place, !.course = row])
    BY <1>4, <2>1 DEF Cur!LoadCourse
  <2>3. /\ row \in Cur!Course /\ HasFairPrice(row) /\ row.status = status
        /\ row.duration = course.duration /\ row.enrollmentCount = course.enrollmentCount
    BY <1>1, <2>1, <2>2 DEF Cur!Course, HasFairPrice, Cur!Exists
  <2> QED BY <2>2, <2>3, LoadKeepsCourse
<1>5. CASE Cur!Archive(r) BY <1>4, <1>5 DEF Cur!Archive, Cur!CourseStatus
<1>6. CASE Cur!Publish(r) BY <1>4, <1>6 DEF Cur!Publish, Cur!CourseStatus
<1>7. CASE Cur!Unpublish(r) BY <1>4, <1>7 DEF Cur!Unpublish, Cur!CourseStatus
<1>8. CASE Cur!RemoveCourse(r)
  <2>1. PICK row : row = course OBVIOUS
  <2>2. /\ course.enrollmentCount <= 0 /\ Cur!Exists
        /\ Cur!Starts(r, [Cur!Idle EXCEPT !.at = "deleteCourse", !.course = row])
    BY <1>8, <2>1 DEF Cur!RemoveCourse, Cur!MayRemove, Cur!LoadCourse
  <2>3. overlaps = 0 /\ ~Cur!Busy => ~enrolled
    BY <2>2 DEF CourseInvariant, CourseIsCounted, CountedBy
  <2> QED BY <1>1, <2>1, <2>2, <2>3, LoadKeepsCourse DEF Cur!Exists
<1> QED BY <1>2, <1>3, <1>5, <1>6, <1>7, <1>8
LEMMA OutlineIsKnown ==
  ASSUME CourseConstants, CourseInvariant
  PROVE  /\ IsEdit(Cur!Idle)
         /\ \A of \in Cur!ModuleIds \union {0} :
              Cur!Cardinality(Cur!Listed(of)) = Cardinality(Cur!Listed(of))
              /\ Cardinality(Cur!Listed(of)) \in Nat
         /\ \A m \in Cur!ModuleIds : m \in Nat /\ m # 0 /\ module[m].position \in Nat
         /\ \A l \in Cur!LessonIds :
              /\ l \in Nat /\ l # 0
              /\ lesson[l].position \in Nat /\ lesson[l].minutes \in Nat
              /\ lesson[l].module \in Cur!Listed(0) \union {0}
         /\ \A m \in Cur!Listed(0) : m \in Cur!ModuleIds
<1>1. RowsAreSane BY DEF CourseInvariant, CourseIsSane
<1>2. PICK idle : idle = Cur!Idle OBVIOUS
<1>3. IsEdit(Cur!Idle) BY <1>2, IdleKnows
<1>4. \A m \in Cur!ModuleIds : m \in Nat /\ m # 0 /\ module[m].position \in Nat
  BY <1>1, CourseIds DEF RowsAreSane, Cur!Module
<1>5. \A l \in Cur!LessonIds :
        /\ l \in Nat /\ l # 0
        /\ lesson[l].position \in Nat /\ lesson[l].minutes \in Nat
        /\ lesson[l].module \in Cur!Listed(0) \union {0}
  BY <1>1, CourseIds DEF RowsAreSane, Cur!Lesson
<1>6. \A m \in Cur!Listed(0) : m \in Cur!ModuleIds BY DEF Cur!Listed
<1> QED BY <1>3, <1>4, <1>5, <1>6, ListedIsFinite, SameCardinality

LEMMA ModuleLoadsKeep ==
  ASSUME CourseConstants, CourseInvariant, NEW r \in Requests,
         \/ Cur!AddModule(r)
         \/ \E m \in Cur!ModuleIds : Cur!UpdateModule(r, m) \/ Cur!RemoveModule(r, m)
  PROVE  CourseInvariant'
<1>1. PICK idle : idle = Cur!Idle OBVIOUS
<1>2. /\ idle.of = 0 /\ idle.id = 0 /\ IsEdit(idle)
      /\ \A m \in Cur!ModuleIds : m \in Nat /\ m # 0 /\ module[m].position \in Nat
  BY <1>1, OutlineIsKnown DEF Cur!Idle
<1>3. CASE Cur!AddModule(r)
  <2>1. PICK position : position = Cardinality(Cur!Listed(0)) OBVIOUS
  <2>2. PICK request : request = [idle EXCEPT !.at = "saveModule", !.position = position] OBVIOUS
  <2>3. Cur!Starts(r, request)
    BY <1>1, <1>3, <2>1, <2>2, SameCardinality DEF Cur!AddModule
  <2>4. position \in Nat BY <2>1, ListedIsFinite
  <2>5. request.at = "saveModule" /\ request.id = 0 /\ request.position = position
    BY <1>2, <2>2 DEF IsEdit
  <2>6. IsEdit(request) BY <1>2, <2>2, <2>4 DEF IsEdit, Cur!Places
  <2>7. Knows(request) BY <2>1, <2>5 DEF Knows
  <2> QED BY <2>3, <2>5, <2>6, <2>7, BeginKeepsCourse
<1>4. ASSUME NEW m \in Cur!ModuleIds, Cur!UpdateModule(r, m) PROVE CourseInvariant'
  <2>1. PICK position : position = module[m].position OBVIOUS
  <2>2. PICK request : request = [idle EXCEPT !.at = "saveModule", !.id = m, !.position = position]
    OBVIOUS
  <2>3. Cur!Starts(r, request) /\ module[m].there
    BY <1>1, <1>4, <2>1, <2>2 DEF Cur!UpdateModule
  <2>4. request.at = "saveModule" /\ request.id = m /\ request.position = position
    BY <1>2, <2>2 DEF IsEdit
  <2>5. IsEdit(request) BY <1>2, <2>1, <2>2 DEF IsEdit, Cur!Places
  <2>6. m \in Cur!Listed(0) BY <2>3 DEF Cur!Listed
  <2>7. Knows(request) BY <1>2, <2>1, <2>4, <2>6 DEF Knows
  <2> QED BY <2>3, <2>4, <2>5, <2>7, BeginKeepsCourse
<1>5. ASSUME NEW m \in Cur!ModuleIds, Cur!RemoveModule(r, m) PROVE CourseInvariant'
  <2>1. PICK request : request = [idle EXCEPT !.at = "deleteModule", !.id = m, !.resum = TRUE]
    OBVIOUS
  <2>2. Cur!Starts(r, request) BY <1>1, <1>5, <2>1 DEF Cur!RemoveModule
  <2>3. request.at = "deleteModule" /\ request.of = 0 BY <1>2, <2>1 DEF IsEdit
  <2>4. IsEdit(request) BY <1>2, <2>1 DEF IsEdit, Cur!Places
  <2>5. Knows(request) BY <2>3 DEF Knows
  <2> QED BY <2>2, <2>3, <2>4, <2>5, BeginKeepsCourse
<1> QED BY <1>3, <1>4, <1>5

LEMMA LessonLoadsKeep ==
  ASSUME CourseConstants, CourseInvariant, NEW r \in Requests,
         \/ \E m \in Cur!ModuleIds, minutes \in Minutes : Cur!AddLesson(r, m, minutes)
         \/ \E l \in Cur!LessonIds :
              \/ Cur!RemoveLesson(r, l)
              \/ \E given \in BOOLEAN, minutes \in Minutes : Cur!UpdateLesson(r, l, given, minutes)
  PROVE  CourseInvariant'
<1>1. PICK idle : idle = Cur!Idle OBVIOUS
<1>2. /\ idle.of = 0 /\ idle.id = 0 /\ IsEdit(idle) /\ Minutes \subseteq Nat
      /\ \A m \in Cur!ModuleIds : m \in Nat /\ m # 0
      /\ \A l \in Cur!LessonIds :
           /\ l \in Nat /\ l # 0
           /\ lesson[l].position \in Nat /\ lesson[l].minutes \in Nat
           /\ lesson[l].module \in Cur!Listed(0) \union {0}
      /\ \A m \in Cur!Listed(0) : m \in Cur!ModuleIds
  BY <1>1, OutlineIsKnown DEF Cur!Idle, CourseConstants
<1>3. ASSUME NEW m \in Cur!ModuleIds, NEW minutes \in Minutes, Cur!AddLesson(r, m, minutes)
      PROVE  CourseInvariant'
  <2>1. PICK position : position = Cardinality(Cur!Listed(m)) OBVIOUS
  <2>2. PICK request : request = [idle EXCEPT !.at = "saveLesson", !.of = m, !.minutes = minutes,
                                              !.position = position, !.resum = TRUE]
    OBVIOUS
  <2>3. Cur!Starts(r, request) /\ module[m].there
    BY <1>1, <1>3, <2>1, <2>2, SameCardinality DEF Cur!AddLesson
  <2>4. position \in Nat BY <2>1, ListedIsFinite
  <2>5. /\ request.at = "saveLesson" /\ request.id = 0 /\ request.of = m
        /\ request.position = position /\ request.resum
    BY <1>2, <2>2 DEF IsEdit
  <2>6. IsEdit(request) BY <1>2, <2>2, <2>4, <2>5 DEF IsEdit, Cur!Places
  <2>7. m \in Cur!Listed(0) BY <2>3 DEF Cur!Listed
  <2>8. Knows(request) BY <2>1, <2>5, <2>7 DEF Knows
  <2> QED BY <2>3, <2>5, <2>6, <2>8, BeginKeepsCourse
<1>4. ASSUME NEW l \in Cur!LessonIds, NEW given \in BOOLEAN, NEW minutes \in Minutes,
             Cur!UpdateLesson(r, l, given, minutes)
      PROVE  CourseInvariant'
  <2>1. PICK of, position : of = lesson[l].module /\ position = lesson[l].position OBVIOUS
  <2>2. PICK request : request = [idle EXCEPT !.at = "saveLesson", !.of = of, !.id = l,
                                              !.position = position, !.minutes = minutes,
                                              !.resum = given]
    OBVIOUS
  <2>3. Cur!Starts(r, request) /\ of # 0 /\ (given \/ minutes = lesson[l].minutes)
    BY <1>1, <1>4, <2>1, <2>2 DEF Cur!UpdateLesson, Cur!Resums
  <2>4. of \in Cur!Listed(0) /\ of \in Cur!ModuleIds BY <1>2, <2>1, <2>3
  <2>5. /\ request.at = "saveLesson" /\ request.id = l /\ request.of = of
        /\ request.position = position /\ request.resum = given /\ request.minutes = minutes
    BY <1>2, <2>2 DEF IsEdit
  <2>6. IsEdit(request) BY <1>2, <2>1, <2>2, <2>3, <2>4, <2>5 DEF IsEdit, Cur!Places
  <2>7. l \in Cur!Listed(of) BY <2>1, <2>3 DEF Cur!Listed
  <2>8. Knows(request) BY <1>2, <2>1, <2>3, <2>4, <2>5, <2>7 DEF Knows
  <2> QED BY <2>3, <2>5, <2>6, <2>8, BeginKeepsCourse
<1>5. ASSUME NEW l \in Cur!LessonIds, Cur!RemoveLesson(r, l) PROVE CourseInvariant'
  <2>1. PICK of : of = lesson[l].module OBVIOUS
  <2>2. PICK request : request = [idle EXCEPT !.at = "deleteLesson", !.id = l, !.of = of,
                                              !.resum = TRUE]
    OBVIOUS
  <2>3. Cur!Starts(r, request) /\ of # 0 BY <1>1, <1>5, <2>1, <2>2 DEF Cur!RemoveLesson
  <2>4. of \in Cur!Listed(0) /\ of \in Cur!ModuleIds BY <1>2, <2>1, <2>3
  <2>5. request.at = "deleteLesson" /\ request.id = l /\ request.of = of
    BY <1>2, <2>2 DEF IsEdit
  <2>6. IsEdit(request) BY <1>2, <2>2, <2>4 DEF IsEdit, Cur!Places
  <2>7. l \in Cur!Listed(of) BY <2>1, <2>3 DEF Cur!Listed
  <2>8. Knows(request) BY <2>4, <2>5, <2>7 DEF Knows
  <2> QED BY <2>3, <2>5, <2>6, <2>8, BeginKeepsCourse
<1> QED BY <1>3, <1>4, <1>5

LEMMA ReorderKeepsCourse ==
  ASSUME CourseConstants, CourseInvariant, NEW r \in Requests,
         NEW of \in Cur!ModuleIds \union {0}, Cur!Reorder(r, of)
  PROVE  CourseInvariant'
<1>1. PICK idle : idle = Cur!Idle OBVIOUS
<1>2. IsEdit(idle) BY <1>1, IdleKnows
<1>3. PICK order \in Cur!Orders(of) :
        Cur!Starts(r, [Cur!Idle EXCEPT !.at = "order", !.of = of, !.order = order])
  BY DEF Cur!Reorder
<1>4. PICK request : request = [idle EXCEPT !.at = "order", !.of = of, !.order = order] OBVIOUS
<1>5. Cur!Starts(r, request) BY <1>1, <1>3, <1>4
<1>6. request.at = "order" /\ request.of = of /\ request.order = order
  BY <1>2, <1>4 DEF IsEdit
<1>7. \A i \in DOMAIN order : order[i] \in Nat
  <2>1. order \in [Cur!Listed(of) -> 0..Cardinality(Cur!Listed(of)) - 1]
    BY <1>3, SameCardinality DEF Cur!Orders
  <2> QED BY <2>1, ListedIsFinite
<1>8. IsEdit(request) BY <1>2, <1>4, <1>6, <1>7 DEF IsEdit, Cur!Places
<1>9. Knows(request) BY <1>3, <1>6 DEF Knows
<1> QED BY <1>5, <1>6, <1>8, <1>9, BeginKeepsCourse

-----------------------------------------------------------------------------
LEMMA CourseStarts == CourseConstants /\ Cur!Init => CourseInvariant
<1> SUFFICES ASSUME CourseConstants, Cur!Init PROVE CourseInvariant
  OBVIOUS
<1>1. /\ course = Cur!NoCourse /\ enrolled = FALSE
      /\ module = [m \in Cur!ModuleIds |-> Cur!NoModule]
      /\ lesson = [l \in Cur!LessonIds |-> Cur!NoLesson]
      /\ added = [modules |-> 0, lessons |-> 0]
      /\ req = [r \in Requests |-> Cur!Idle] /\ overlaps = 0 /\ failures = 0
  BY DEF Cur!Init
<1>2. /\ course \in Cur!Course /\ course.status = "NONE" /\ course.enrollmentCount = 0
  BY <1>1 DEF Cur!Course, Cur!NoCourse
<1>3. module \in [Cur!ModuleIds -> Cur!Module] /\ lesson \in [Cur!LessonIds -> Cur!Lesson]
  BY <1>1 DEF Cur!Module, Cur!NoModule, Cur!Lesson, Cur!NoLesson
<1>4. \A l \in Cur!LessonIds : lesson[l].module = 0 BY <1>1 DEF Cur!NoLesson
<1>5. \A m \in Cur!ModuleIds : ~module[m].there BY <1>1 DEF Cur!NoModule
<1>6. \A of \in Cur!ModuleIds \union {0} : Cur!Listed(of) = {}
  BY <1>4, <1>5, CourseIds DEF Cur!Listed
<1>7. added \in [modules: 0..MaxModules, lessons: 0..MaxLessons] BY <1>1, CourseIds
<1>8. RowsAreSane
  BY <1>1, <1>2, <1>3, <1>4, <1>6, <1>7
  DEF RowsAreSane, HasFairPrice, OutlineFollows, Cur!CourseStatus
<1>9. PICK idle : idle = Cur!Idle OBVIOUS
<1>10. IsEdit(idle) /\ idle.at = "idle" BY <1>9, IdleKnows
<1>11. \A r \in Requests : req[r] = idle BY <1>1, <1>9
<1>12. CourseIsSane BY <1>1, <1>8, <1>10, <1>11 DEF CourseIsSane
<1>13. \A r \in Requests : ~Cur!Under(r) BY <1>10, <1>11 DEF Cur!Under
<1>14. LoneEdits BY <1>13 DEF LoneEdits
<1>15. Editing = idle BY <1>9, <1>13 DEF Editing, Cur!Busy
<1>16. CountedBy(idle) BY <1>1, <1>2, <1>10 DEF CountedBy
<1>17. CourseIsCounted BY <1>13, <1>15, <1>16 DEF CourseIsCounted
<1>18. KeptBy(idle)
  <2>1. \A of \in Cur!ModuleIds \union {0} : Cur!Dense(of)
    <3>1. Cur!Cardinality({}) = 0 /\ 0..0 - 1 = {} BY FS_EmptySet, SameCardinality
    <3> QED BY <1>6, <3>1 DEF Cur!Dense
  <2>2. ~Cur!Exists BY <1>2 DEF Cur!Exists, Cur!CourseStatus
  <2> QED BY <1>4, <1>5, <2>1, <2>2 DEF KeptBy, IdsFollow
<1>19. CourseIsKept BY <1>15, <1>18 DEF CourseIsKept
<1> QED BY <1>12, <1>14, <1>17, <1>19 DEF CourseInvariant

LEMMA CourseStepsKeep ==
  CourseConstants /\ CourseInvariant /\ [Cur!Next]_(Cur!vars) => CourseInvariant'
<1> SUFFICES ASSUME CourseConstants, CourseInvariant, [Cur!Next]_(Cur!vars)
             PROVE  CourseInvariant'
  OBVIOUS
<1>1. CASE UNCHANGED Cur!vars
  <2>1. UNCHANGED Cur!rows /\ UNCHANGED <<req, overlaps, failures>> BY <1>1 DEF Cur!vars
  <2>2. RowsAreSane BY DEF CourseInvariant, CourseIsSane
  <2>3. /\ RowsAreSane'
        /\ \A edit : /\ Knows(edit)' <=> Knows(edit)
                     /\ CountedBy(edit)' <=> CountedBy(edit)
                     /\ KeptBy(edit)' <=> KeptBy(edit)
    BY <2>1, <2>2, RowsStay
  <2>4. CourseIsSane' BY <2>1, <2>3 DEF CourseInvariant, CourseIsSane
  <2>5. LoneEdits' BY <2>1, <2>3 DEF CourseInvariant, LoneEdits, Cur!Under
  <2>6. Editing' = Editing BY <2>1 DEF Editing, Cur!Busy, Cur!Under
  <2>7. PICK edit : edit = Editing OBVIOUS
  <2>8. CourseIsCounted'
    BY <2>1, <2>3, <2>6, <2>7 DEF CourseInvariant, CourseIsCounted, Cur!Under
  <2>9. CourseIsKept' BY <2>1, <2>3, <2>6, <2>7 DEF CourseInvariant, CourseIsKept
  <2> QED BY <2>4, <2>5, <2>8, <2>9 DEF CourseInvariant
<1>2. CASE Cur!Next
  BY <1>2, StepKeepsCourse, FailKeepsCourse, LearnerKeepsCourse, CourseLoadsKeep,
     ModuleLoadsKeep, LessonLoadsKeep, ReorderKeepsCourse
  DEF Cur!Next
<1> QED BY <1>1, <1>2
LEMMA ConstantsStay == CourseConstants => CourseConstants'
BY DEF CourseConstants

LEMMA CourseAlways == CourseConstants => (Cur!Spec => []CourseInvariant)
<1>1. CourseConstants /\ Cur!Init => CourseInvariant BY CourseStarts
<1>2. CourseConstants /\ CourseInvariant /\ [Cur!Next]_(Cur!vars) => CourseInvariant'
  BY CourseStepsKeep
<1> QED BY <1>1, <1>2, ConstantsStay, PTL DEF Cur!Spec

(* The derived columns of a course and of its outline are right between    *)
(* requests, so far as the requests that wrote them did not overlap:       *)
(* positions without gaps, the duration the sum over the lessons, the      *)
(* counter that of the learners, and a price exactly if the course is paid *)
(* (courses.service.ts, curriculum.service.ts).                            *)
THEOREM TheCourseStaysInOrder == CourseConstants => (Cur!Spec => []Cur!CourseIsInOrder)
<1>1. CourseConstants /\ CourseInvariant => Cur!CourseIsInOrder
  <2> SUFFICES ASSUME CourseConstants, CourseInvariant PROVE Cur!CourseIsInOrder
    OBVIOUS
  <2>1. CourseIsSane /\ RowsAreSane BY DEF CourseInvariant, CourseIsSane
  <2>2. Cur!TypeOK BY <2>1 DEF CourseIsSane, RowsAreSane, IsEdit, Cur!TypeOK
  <2>3. ASSUME Cur!Quiet PROVE Counts /\ InOrder
    <3>1. PICK idle : idle = Cur!Idle OBVIOUS
    <3>2. Editing = idle /\ overlaps = 0 /\ failures = 0 BY <2>3, <3>1 DEF Cur!Quiet, Editing
    <3>3. CountedBy(idle) /\ KeptBy(idle)
      BY <3>2 DEF CourseInvariant, CourseIsCounted, CourseIsKept
    <3> QED BY <3>1, <3>3, IdleKnows DEF CountedBy, KeptBy, Counts, InOrder
  <2>4. Cur!PositionsAreDense BY <2>3 DEF Cur!PositionsAreDense, InOrder
  <2>5. Cur!DurationIsSum BY <2>3 DEF Cur!DurationIsSum, InOrder
  <2>6. Cur!CountMatchesLearners BY <2>3 DEF Cur!CountMatchesLearners, Counts
  <2>7. Cur!PricedConsistently
    BY <2>1 DEF RowsAreSane, HasFairPrice, Cur!PricedConsistently, Cur!Exists
  <2> QED BY <2>2, <2>4, <2>5, <2>6, <2>7 DEF Cur!CourseIsInOrder
<1> QED BY <1>1, CourseAlways, ConstantsStay, PTL

-----------------------------------------------------------------------------
(* Who is under way moves by its own step, or fails, or stays where it is. *)
LEMMA WhoMoves ==
  ASSUME CourseIsSane, Cur!Next, NEW r \in Requests, Cur!Under(r)
  PROVE  Cur!Step(r) \/ failures' # failures \/ req'[r].at = req[r].at
<1>1. DOMAIN req = Requests /\ failures \in Nat /\ IsEdit(req[r]) BY DEF CourseIsSane
<1>2. Cur!Disturbed(r).at = req[r].at BY <1>1, DisturbedIsEdit
<1>3. ASSUME NEW s \in Requests, Cur!Step(s), s # r PROVE req'[r] = req[r]
  BY <1>1, <1>3
  DEF Cur!Step, Cur!CountLessons, Cur!SaveCourse, Cur!DeleteCourse, Cur!Find,
      Cur!ApplyOrder, Cur!Sum, Cur!WriteDuration, Cur!SaveModule, Cur!DeleteModule,
      Cur!SaveLesson, Cur!DeleteLesson, Cur!Finish, Cur!Continue, Cur!Sums, Cur!Lists
<1>4. ASSUME NEW s \in Requests, Cur!Fail(s) PROVE failures' # failures
  BY <1>1, <1>4 DEF Cur!Fail
<1>5. ASSUME NEW s \in Requests, NEW request, Cur!Starts(s, request)
      PROVE  req'[r].at = req[r].at
  <2>1. s # r /\ req'[r] = Cur!Disturbed(r) BY <1>5 DEF Cur!Starts
  <2> QED BY <1>2, <2>1
<1>6. ASSUME NEW s \in Requests, NEW place, NEW row, Cur!LoadCourse(s, place, row)
      PROVE  req'[r].at = req[r].at
  BY <1>5, <1>6 DEF Cur!LoadCourse
<1>7. CASE Cur!Enroll \/ Cur!Leave
  <2>1. req'[r] = Cur!Disturbed(r) BY <1>7 DEF Cur!Enroll, Cur!Leave
  <2> QED BY <1>2, <2>1
<1>8. CASE \E s \in Requests :
             \/ Cur!Archive(s) \/ Cur!Publish(s) \/ Cur!Unpublish(s) \/ Cur!RemoveCourse(s)
             \/ \E pricing \in {"FREE", "PAID"}, price \in Prices \union {0} :
                  Cur!Create(s, pricing, price) \/ Cur!UpdateCourse(s, pricing, price)
  BY <1>5, <1>6, <1>8 DEF Cur!Archive, Cur!Publish, Cur!Unpublish, Cur!RemoveCourse,
                          Cur!Create, Cur!UpdateCourse
<1>9. CASE \E s \in Requests :
             \/ Cur!AddModule(s)
             \/ \E of \in Cur!ModuleIds \union {0} : Cur!Reorder(s, of)
             \/ \E m \in Cur!ModuleIds :
                  \/ Cur!UpdateModule(s, m) \/ Cur!RemoveModule(s, m)
                  \/ \E minutes \in Minutes : Cur!AddLesson(s, m, minutes)
             \/ \E l \in Cur!LessonIds :
                  \/ Cur!RemoveLesson(s, l)
                  \/ \E given \in BOOLEAN, minutes \in Minutes :
                       Cur!UpdateLesson(s, l, given, minutes)
  BY <1>5, <1>9 DEF Cur!AddModule, Cur!Reorder, Cur!UpdateModule, Cur!RemoveModule,
                    Cur!AddLesson, Cur!RemoveLesson, Cur!UpdateLesson
<1> QED BY <1>3, <1>4, <1>7, <1>8, <1>9 DEF Cur!Next

(* A removal or reorder that nothing overlaps leaves the rows it lists      *)
(* dense, and an edit that sums the lessons and that nothing overlaps      *)
(* leaves the duration right, whatever earlier requests have left behind   *)
(* (renumberModules, renumberLessons and recomputeDuration).               *)
THEOREM LoneEditsRepair == CourseConstants => (Cur!Spec => Cur!EditsRepair)
<1>1. CourseConstants /\ CourseInvariant /\ [Cur!Next]_(Cur!vars)
        => [Cur!RenumberingRepairs /\ Cur!SummingRepairs]_(Cur!vars)
  <2> SUFFICES ASSUME CourseConstants, CourseInvariant, Cur!Next
               PROVE  Cur!RenumberingRepairs /\ Cur!SummingRepairs
    OBVIOUS
  <2>1. CourseIsSane /\ RowsAreSane BY DEF CourseInvariant, CourseIsSane
  <2>2. ASSUME NEW r \in Requests, Cur!Under(r), req[r].alone PROVE Knows(req[r])
    BY <2>2 DEF CourseInvariant, LoneEdits
  <2>3. ASSUME NEW r \in Requests, NEW of \in Cur!ModuleIds \union {0}, Cur!At(r, "order"),
               req[r].of = of, req[r].alone, req'[r].at # "order", failures' = failures
        PROVE  Cur!Dense(of)'
    <3>1. req[r].at = "order" /\ Cur!Under(r) BY <2>3 DEF Cur!At, Cur!Under
    <3>2. Cur!Step(r) BY <2>1, <2>3, <3>1, WhoMoves
    <3>3. Cur!ApplyOrder(r)
      BY <3>1, <3>2 DEF Cur!Step, Cur!CountLessons, Cur!SaveCourse, Cur!DeleteCourse, Cur!Find,
         Cur!Sum, Cur!WriteDuration, Cur!SaveModule, Cur!DeleteModule,
         Cur!SaveLesson, Cur!DeleteLesson, Cur!At
    <3>4. PICK order : order = req[r].order OBVIOUS
    <3>5. OrderApplied(r, of, order) /\ Knows(req[r])
      BY <2>1, <2>2, <2>3, <3>1, <3>3, <3>4, OrderIsApplied
    <3> QED BY <3>5 DEF OrderApplied
  <2>4. ASSUME NEW r \in Requests, Cur!At(r, "writeDuration"), req[r].alone,
               req'[r] = Cur!Idle, Cur!Exists, failures' = failures
        PROVE  course'.duration = Cur!TotalMinutes
    <3>1. req[r].at = "writeDuration" /\ Cur!Under(r) BY <2>4 DEF Cur!At, Cur!Under
    <3>2. req'[r].at = "idle" BY <2>4 DEF Cur!Idle
    <3>3. Cur!Step(r) BY <2>1, <2>4, <3>1, <3>2, WhoMoves
    <3>4. Cur!WriteDuration(r)
      BY <3>1, <3>3 DEF Cur!Step, Cur!CountLessons, Cur!SaveCourse, Cur!DeleteCourse, Cur!Find,
         Cur!Sum, Cur!ApplyOrder, Cur!SaveModule, Cur!DeleteModule,
         Cur!SaveLesson, Cur!DeleteLesson, Cur!At
    <3>5. req[r].total = Cur!TotalMinutes BY <2>2, <2>4, <3>1 DEF Knows
    <3>6. course' = [course EXCEPT !.duration = req[r].total]
      BY <2>4, <3>4 DEF Cur!WriteDuration, Cur!Lasting
    <3> QED BY <2>1, <3>5, <3>6 DEF RowsAreSane, Cur!Course
  <2> QED BY <2>3, <2>4 DEF Cur!RenumberingRepairs, Cur!SummingRepairs
<1> QED BY <1>1, CourseAlways, ConstantsStay, PTL DEF Cur!Spec, Cur!EditsRepair

(* A course is not removed under its learner as long as no requests have   *)
(* overlapped: the counter that guards the removal is then that of the     *)
(* learners (remove in courses.service.ts).                                *)
THEOREM LearnersAreKept == CourseConstants => (Cur!Spec => Cur!LearnersKeepTheirCourse)
<1>1. CourseConstants /\ CourseInvariant /\ [Cur!Next]_(Cur!vars)
        => [overlaps' = 0 /\ enrolled /\ Cur!Exists
              => course'.status \in Cur!CourseStatus]_(Cur!vars)
  <2> SUFFICES ASSUME CourseInvariant, Cur!Next, overlaps' = 0, enrolled, Cur!Exists
               PROVE  course'.status \in Cur!CourseStatus
    OBVIOUS
  <2>1. /\ DOMAIN req = Requests /\ course \in Cur!Course
        /\ \A s \in Requests : IsEdit(req[s])
    BY DEF CourseInvariant, CourseIsSane, RowsAreSane
  <2>2. ASSUME NEW r \in Requests, Cur!SaveCourse(r) PROVE course'.status \in Cur!CourseStatus
    BY <2>1, <2>2 DEF Cur!SaveCourse, Cur!At, IsEdit
  <2>3. ASSUME NEW r \in Requests, Cur!DeleteCourse(r) PROVE FALSE
    <3>1. overlaps = 0 /\ req[r].at = "deleteCourse" /\ Cur!Under(r)
      BY <2>3 DEF Cur!DeleteCourse, Cur!Goes, Cur!At, Cur!Under
    <3>2. req[r].alone /\ CountedBy(Editing) BY <3>1 DEF CourseInvariant, CourseIsCounted
    <3>3. \A s \in Requests : Cur!Under(s) => s = r
      BY <3>1, <3>2 DEF CourseInvariant, LoneEdits
    <3>4. Cur!Busy /\ (CHOOSE s \in Requests : Cur!Under(s)) = r
      BY <3>1, <3>3 DEF Cur!Busy
    <3>5. Editing = req[r] BY <3>4 DEF Editing
    <3> QED BY <3>1, <3>2, <3>5 DEF CountedBy
  <2>4. ASSUME NEW r \in Requests, Cur!WriteDuration(r)
        PROVE  course'.status \in Cur!CourseStatus
    BY <2>1, <2>4 DEF Cur!WriteDuration, Cur!Lasting, Cur!Course, Cur!Exists
  <2>5. CASE Cur!Enroll \/ Cur!Leave
    BY <2>1, <2>5 DEF Cur!Enroll, Cur!Leave, Cur!Counted, Cur!Course, Cur!Exists
  <2>6. ASSUME NEW r \in Requests, Cur!Step(r) \/ Cur!Fail(r)
        PROVE  course'.status \in Cur!CourseStatus
    BY <2>2, <2>3, <2>4, <2>6
    DEF Cur!Step, Cur!Fail, Cur!CountLessons, Cur!Find, Cur!ApplyOrder, Cur!Sum, Cur!SaveModule,
        Cur!DeleteModule, Cur!SaveLesson, Cur!DeleteLesson, Cur!rows, Cur!Exists
  <2>7. ASSUME NEW r \in Requests, NEW request, Cur!Starts(r, request)
        PROVE  course'.status \in Cur!CourseStatus
    BY <2>7 DEF Cur!Starts, Cur!rows, Cur!Exists
  <2>8. ASSUME NEW s \in Requests, NEW place, NEW row, Cur!LoadCourse(s, place, row)
        PROVE  course'.status \in Cur!CourseStatus
    BY <2>7, <2>8 DEF Cur!LoadCourse
  <2>9. CASE \E s \in Requests :
               \/ Cur!Archive(s) \/ Cur!Publish(s) \/ Cur!Unpublish(s) \/ Cur!RemoveCourse(s)
               \/ \E pricing \in {"FREE", "PAID"}, price \in Prices \union {0} :
                    Cur!Create(s, pricing, price) \/ Cur!UpdateCourse(s, pricing, price)
    BY <2>7, <2>8, <2>9 DEF Cur!Archive, Cur!Publish, Cur!Unpublish, Cur!RemoveCourse,
                            Cur!Create, Cur!UpdateCourse
  <2>10. CASE \E s \in Requests :
                \/ Cur!AddModule(s)
                \/ \E of \in Cur!ModuleIds \union {0} : Cur!Reorder(s, of)
                \/ \E m \in Cur!ModuleIds :
                     \/ Cur!UpdateModule(s, m) \/ Cur!RemoveModule(s, m)
                     \/ \E minutes \in Minutes : Cur!AddLesson(s, m, minutes)
                \/ \E l \in Cur!LessonIds :
                     \/ Cur!RemoveLesson(s, l)
                     \/ \E given \in BOOLEAN, minutes \in Minutes :
                          Cur!UpdateLesson(s, l, given, minutes)
    BY <2>7, <2>10 DEF Cur!AddModule, Cur!Reorder, Cur!UpdateModule, Cur!RemoveModule,
                       Cur!AddLesson, Cur!RemoveLesson, Cur!UpdateLesson
  <2> QED BY <2>5, <2>6, <2>9, <2>10 DEF Cur!Next
<1> QED BY <1>1, CourseAlways, ConstantsStay, PTL DEF Cur!Spec, Cur!LearnersKeepTheirCourse
=============================================================================
