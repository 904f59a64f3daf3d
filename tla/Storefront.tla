----------------------------- MODULE Storefront -----------------------------
(***************************************************************************)
(* What a visitor sees of a course and may get: the page of a course       *)
(* (src/courses/catalog.service.ts and courses.mapper.ts), enrolling and   *)
(* the price of a checkout (src/payments/payments.service.ts), and the     *)
(* questions and answers on the page (src/courses/course-assets.service.ts) *)
(* as they are added, removed and put in order.  No state of its own.      *)
(***************************************************************************)
EXTENDS Grading

CONSTANTS SeatPriceCents, MaxBundleSize

Access == {"ACTIVE", "COMPLETED"}

-----------------------------------------------------------------------------
(* Buying.  courses is a function from courses to their rows; enrollment   *)
(* gives the status of the user's enrollment in each, or Null.             *)

HasAccess(enrollment, c) == enrollment[c] \in Access

(* Mutant: free courses are sold.                                          *)
MayBuyUnpriced(courses, enrollment, c) ==
  /\ c \in DOMAIN courses
  /\ courses[c].status = "PUBLISHED"
  /\ ~ HasAccess(enrollment, c)
(* loadPaidCourses *)
MayBuy(courses, enrollment, c) ==
  /\ c \in DOMAIN courses
  /\ courses[c].status = "PUBLISHED"
  /\ courses[c].pricing = "PAID" /\ courses[c].price > 0
  /\ ~ HasAccess(enrollment, c)

Draft(kind, items, amount, seats) ==
  [kind |-> kind, items |-> items, amount |-> amount, seats |-> seats]
Item(courses, c) == [course |-> c, price |-> courses[c].price]

(* buildDraft.  The ids of a bundle are distinct (its request is checked). *)
BuildDraft(courses, enrollment, dto) ==
  CASE dto.kind = "COURSE" ->
         IF MayBuy(courses, enrollment, dto.course)
         THEN Draft("COURSE", <<Item(courses, dto.course)>>, courses[dto.course].price, Null)
         ELSE Refused
    [] dto.kind = "BUNDLE" ->
         LET ids == dto.courses IN
         IF /\ Len(ids) \in 2..MaxBundleSize
            /\ \A i \in DOMAIN ids : MayBuy(courses, enrollment, ids[i])
            /\ \A i, j \in DOMAIN ids : courses[ids[i]].currency = courses[ids[j]].currency
         THEN Draft("BUNDLE", [i \in DOMAIN ids |-> Item(courses, ids[i])],
                    Total([i \in DOMAIN ids |-> courses[ids[i]].price]), Null)
         ELSE Refused
    [] dto.kind = "SEAT_PACK" ->
         IF dto.manages THEN Draft("SEAT_PACK", <<>>, dto.seats * SeatPriceCents, dto.seats)
         ELSE Refused

(* lineItems: what the checkout session charges for.                       *)
SeatLine(draft) == [quantity |-> draft.seats, unit |-> SeatPriceCents]
LineItems(draft) ==
  IF draft.kind = "SEAT_PACK" THEN <<SeatLine(draft)>>
  ELSE [i \in DOMAIN draft.items |-> [quantity |-> 1, unit |-> draft.items[i].price]]

(* The guards of enroll, for a learner who holds a seat for seated.        *)
MayEnroll(courses, enrollment, seated, c) ==
  /\ courses[c].status = "PUBLISHED"
  /\ enrollment[c] \in {Null, "CANCELLED"}
  /\ courses[c].pricing = "PAID" => c \in seated

-----------------------------------------------------------------------------
(* The page of a course.                                                   *)

IsStaff(role) == role \in {"ADMIN", "SUPERADMIN"}
Privileged(course, viewer) ==
  viewer # Null /\ (IsStaff(viewer.role) \/ course.instructor = viewer.id)

(* The resolver that the enrollments module registers with the catalog.    *)
ResolvesAccess(viewer, enrolled) == viewer # Null /\ enrolled \in Access

(* findBySlug, and toLessonDto for every lesson of the course.             *)
FindBySlug(course, viewer, enrolled) ==
  IF course.status # "PUBLISHED" /\ ~ Privileged(course, viewer) THEN Refused
  ELSE LET include == Privileged(course, viewer) \/ ResolvesAccess(viewer, enrolled)
       IN  [revealed |-> {l \in course.lessons : include \/ l.preview}]

-----------------------------------------------------------------------------
(* Questions and answers.  rows is a function from their ids to positions; *)
(* an operation adds the next id, removes one, or orders them all.         *)

ByPosition(rows) ==
  [i \in 1..Cardinality(DOMAIN rows) |->
     CHOOSE f \in DOMAIN rows : Cardinality({g \in DOMAIN rows : rows[g] < rows[f]}) = i - 1]
InOrder(ids) == [f \in ToSet(ids) |-> (CHOOSE i \in DOMAIN ids : ids[i] = f) - 1]

AddFaq(rows, f) == [g \in DOMAIN rows \union {f} |-> IF g = f THEN Cardinality(DOMAIN rows) ELSE rows[g]]

RemoveFaq(rows, f) == InOrder(SelectSeq(ByPosition(rows), LAMBDA g : g # f))

(* A request that does not list every row once is refused and changes      *)
(* nothing.                                                                *)
ReorderFaqs(rows, ids) ==
  IF ToSet(ids) = DOMAIN rows /\ Len(ids) = Cardinality(DOMAIN rows) THEN InOrder(ids) ELSE rows

EditFaqs(rows, op) ==
  CASE op.do = "add"     -> AddFaq(rows, op.faq)
    [] op.do = "remove"  -> IF op.faq \in DOMAIN rows THEN RemoveFaq(rows, op.faq) ELSE rows
    [] op.do = "reorder" -> ReorderFaqs(rows, op.faqs)
=============================================================================
