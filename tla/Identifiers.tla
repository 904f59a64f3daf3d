---------------------------- MODULE Identifiers ----------------------------
(***************************************************************************)
(* The names that rows are found by: slugs of titles                       *)
(* (src/common/utils/slugify.ts) and referral codes                        *)
(* (src/users/users.service.ts), which are drawn at random and drawn again *)
(* when they are taken, and the accounts that are older than codes         *)
(* (src/referrals/referrals.service.ts).  Like Grading, it has no state:   *)
(* draws is what the random generator gives, over and over.                *)
(***************************************************************************)
EXTENDS Grading

CONSTANTS SlugLength,   \* maxLength: 80
          DrawAttempts  \* how often a taken name is drawn again: 5

(* The next DrawAttempts draws, and the first of some names that is free.  *)
NextDraws(draws, drawn) == [k \in 1..DrawAttempts |-> draws[((drawn + k - 1) % Len(draws)) + 1]]

FirstFree(names, taken) ==
  LET free == {k \in DOMAIN names : names[k] \notin taken}
  IN  IF free = {} THEN Refused ELSE Min(free)

-----------------------------------------------------------------------------
(* Slugs.  A title is a sequence of letters, "x" or "y", dashes, blanks    *)
(* and anything else, "!".                                                 *)

Letters == {"x", "y"}
EmptySlug == <<"x", "x", "x", "x">>   \* the slug of a title without letters

(* Every run of dashes and blanks becomes one dash.                        *)
Dashed(s) ==
  FoldLeft(LAMBDA acc, c : IF c \in Letters THEN Append(acc, c)
                           ELSE IF acc # <<>> /\ Last(acc) = "-" THEN acc ELSE Append(acc, "-"),
           <<>>, s)
UpToLastLetter(s) == SubSeq(s, 1, Max({0} \union {i \in DOMAIN s : s[i] \in Letters}))
Body(s) == Reverse(UpToLastLetter(Reverse(UpToLastLetter(s))))

Clipped(s) == UpToLastLetter(SubSeq(s, 1, Min({SlugLength, Len(s)})))

Slugify(title) ==
  LET body == Body(Dashed(SelectSeq(title, LAMBDA c : c # "!")))
  IN  Clipped(IF body = <<>> THEN EmptySlug ELSE body)

(* uniqueSlug for each title in turn; a title that finds no free slug is   *)
(* refused.                                                                *)
UniqueSlug(acc, title, draws) ==
  LET base == Slugify(title)
      taken == Range(acc.slugs)
      suffixed == [k \in 1..DrawAttempts |-> base \o <<"-">> \o NextDraws(draws, acc.drawn)[k]]
      k == FirstFree(suffixed, taken)
  IN  IF base \notin taken THEN [acc EXCEPT !.slugs = Append(@, base)]
      ELSE IF k = Refused THEN [acc EXCEPT !.drawn = @ + DrawAttempts]
      ELSE [slugs |-> Append(acc.slugs, suffixed[k]), drawn |-> acc.drawn + k]

Slugs(titles, draws) ==
  FoldLeft(LAMBDA acc, title : UniqueSlug(acc, title, draws), [slugs |-> <<>>, drawn |-> 0], titles).slugs

-----------------------------------------------------------------------------
(* Referral codes.  codes is the code of every account, oldest first, or   *)
(* Null.                                                                   *)

EnsureReferralCode(acc, u, draws) ==
  LET drawn == NextDraws(draws, acc.drawn)
      k == FirstFree(drawn, Range(acc.codes))
  IN
  CASE acc.failed -> acc
    [] ~ acc.failed /\ acc.codes[u] # Null -> [acc EXCEPT !.assigned = @ + 1]
    [] OTHER -> IF k = Refused THEN [acc EXCEPT !.failed = TRUE]
                ELSE [acc EXCEPT !.codes[u] = drawn[k], !.drawn = @ + k,
                                 !.assigned = @ + 1]

Without(codes) == SelectSeq([i \in DOMAIN codes |-> i], LAMBDA i : codes[i] = Null)
Some(s, n) == SubSeq(s, 1, Min({n, Len(s)}))

FindWithoutCode(acc, batchSize) == Some(Without(acc.codes), batchSize)

(* backfillCodes, batch after batch until one is empty.                    *)
BackfillCodes(codes, batchSize, draws) ==
  LET Batch(acc) == FoldLeft(LAMBDA a, u : EnsureReferralCode(a, u, draws), acc,
                             FindWithoutCode(acc, batchSize))
      Round[n \in 0..Len(codes)] ==
        IF n = 0 THEN [codes |-> codes, drawn |-> 0, assigned |-> 0, failed |-> FALSE]
        ELSE Batch(Round[n - 1])
  IN  Round[Len(codes)]
=============================================================================
