-------------------------- MODULE StatementReading --------------------------
(***************************************************************************)
(* What becomes of the lines a bank printed: a model reads them with a few *)
(* slips, the rows of a paged reading are de-duplicated, the deterministic *)
(* validator grades the reading, one corrective question may replace it,   *)
(* and a LOW reading of an institution the regex parser knows is compared  *)
(* with that parser's. Then the rows are imported, or the job fails.       *)
(*                                                                         *)
(* Amounts are cents. A slip is a mistake on one printed line.             *)
(***************************************************************************)
EXTENDS Integers, FiniteSets, Sequences

CONSTANTS Papers,   \* what was printed: see Statement
          Slips,    \* the mistakes a reading may hold
          MaxSlips  \* bound: mistakes in one reading

(* A printed line: when, how much (money out is negative), what it says,   *)
(* and whether it is one of the summary lines a bank prints among them.    *)
Line == [day : Int, cents : Int, says : STRING, summary : BOOLEAN]

Statement ==
  [lines : Seq(Line), opening : Int,
   card : BOOLEAN,     \* account_type = 'CREDIT_CARD'
   balances : BOOLEAN, \* a running balance is printed beside each line
   paged : BOOLEAN,    \* vision, more than 15 pages: read in batches
   known : BOOLEAN]    \* BMO or Wise

Period == 1..28
ASSUME StatementsAssumption ==
  /\ \A s \in Papers : s \in Statement
  /\ Slips \subseteq {"missed", "twice", "flipped", "cents", "coins", "off", "undated", "late",
                 "misdated"}
  /\ MaxSlips \in Nat

VARIABLES
  printed, \* the statement
  at,      \* the step parse and import have reached
  kept,    \* the reading that counts: rows, difference, tier, slips
  asked,   \* difference of the first reading, once the correction was asked
  imported \* rows that reach the ledger, and who read them

reading == <<printed, at, kept, asked, imported>>

-----------------------------------------------------------------------------
(* The truth                                                               *)
WithoutSummaries(rows) ==
  LET keep[n \in 0..Len(rows)] ==
        IF n = 0 THEN <<>>
        ELSE IF rows[n].summary THEN keep[n - 1] ELSE Append(keep[n - 1], rows[n])
  IN keep[Len(rows)]

Real(s) == WithoutSummaries(s.lines)

Moves(rows) ==
  LET sum[n \in 0..Len(rows)] == IF n = 0 THEN 0 ELSE sum[n - 1] + rows[n].cents
  IN sum[Len(rows)]

(* On a card, a purchase raises what is owed.                              *)
Balance(s, rows) == s.opening + (IF s.card THEN -Moves(rows) ELSE Moves(rows))

Closing(s) == Balance(s, Real(s))
BalanceAfter(s, i) == Balance(s, WithoutSummaries(SubSeq(s.lines, 1, i)))

-----------------------------------------------------------------------------
(* One line, as the model reads it                                         *)
Exact(s, i) ==
  [day |-> s.lines[i].day, cents |-> s.lines[i].cents, says |-> s.lines[i].says,
   balance |-> IF s.balances THEN BalanceAfter(s, i) ELSE 0,
   summary |-> s.lines[i].summary]

Misread(r, slip) ==
  CASE slip = "flipped" -> [r EXCEPT !.cents = -@]
    [] slip = "cents"   -> [r EXCEPT !.cents = @ + 1]
    [] slip = "coins"   -> [r EXCEPT !.cents = @ + 4]
    [] slip = "off"     -> [r EXCEPT !.cents = @ + 900]
    [] slip = "undated" -> [r EXCEPT !.day = 0]   \* 2026-02-30: of the schema, and no date
    [] slip = "late"    -> [r EXCEPT !.day = @ + 60]
    [] slip = "misdated" -> [r EXCEPT !.day = IF @ = 28 THEN 1 ELSE @ + 1] \* of the period still
    [] OTHER            -> r

Magnitude(c) == IF c < 0 THEN -c ELSE c

(* _dedup_rows: date, amount without its sign, and the description         *)
Same(r, q) == r.day = q.day /\ Magnitude(r.cents) = Magnitude(q.cents) /\ r.says = q.says
Seen(rows, r) == \E i \in DOMAIN rows : Same(rows[i], r)
Deduped(s, rows, r) == IF s.paged /\ Seen(rows, r) THEN rows ELSE Append(rows, r)

Readings(s) ==
  {f \in [DOMAIN s.lines -> Slips \cup {"right"}] :
     Cardinality({i \in DOMAIN f : f[i] # "right"}) <= MaxSlips}

(* What line i adds to the rows read so far                                *)
ReadLine(s, rows, i, slip) ==
  LET r == Misread(Exact(s, i), slip)
  IN CASE slip = "missed" -> rows
       [] slip = "twice"  -> Deduped(s, Deduped(s, rows, r), r)
       [] OTHER           -> Deduped(s, rows, r)

RowsRead(s, f) ==
  LET read[n \in 0..Len(s.lines)] ==
        IF n = 0 THEN <<>> ELSE ReadLine(s, read[n - 1], n, f[n])
  IN read[Len(s.lines)]

-----------------------------------------------------------------------------
(* validate_statement_extraction                                           *)

Difference(s, rows) == Magnitude(Balance(s, rows) - Closing(s))

(* Money in raises the printed balance, whatever the account.              *)
Inconsistent(rows) ==
  LET Bad == {i \in 2..Len(rows) :
                Magnitude(rows[i].balance - rows[i - 1].balance - rows[i].cents) > 2}
  IN Len(rows) >= 2 /\ 20 * Cardinality(Bad) > Len(rows)

Flags(s, read) ==
  LET rows == WithoutSummaries(read)
      d == Difference(s, rows)
      When(c, flag) == IF c THEN {flag} ELSE {}
  IN When(Len(rows) < Len(read), "skip_phrase_dropped")
     \cup When(d > 5, "balance_out_of_tolerance") \cup When(d \in 3..5, "balance_mismatch")
     \cup When(\E i \in DOMAIN rows : rows[i].day \notin Period, "date_out_of_period")
     \cup When(s.balances /\ Inconsistent(rows), "running_balance_inconsistent")
     \cup When(\E i, j \in DOMAIN rows : i < j /\ Same(rows[i], rows[j]), "duplicate_suspected")
     \cup When(Len(rows) < IF s.card THEN 1 ELSE 3, "low_row_count")

(* mutant: what adds up is right                                           *)
TierByBalance(flags, d) == IF d <= 2 THEN "HIGH" ELSE IF d <= 5 THEN "MEDIUM" ELSE "LOW"

Tier(flags, d) ==
  CASE flags \cap {"balance_out_of_tolerance", "low_row_count"} # {} -> "LOW"
    [] flags = {} /\ d <= 2 -> "HIGH"
    [] OTHER -> "MEDIUM"

Graded(s, f) ==
  LET read == RowsRead(s, f)
      rows == WithoutSummaries(read)
      d == Difference(s, rows)
  IN [rows |-> rows, difference |-> d, tier |-> Tier(Flags(s, read), d),
      slips |-> Cardinality({i \in DOMAIN f : f[i] # "right"})]

-----------------------------------------------------------------------------
(* The regex parser, from the lines its pattern matched                    *)

(* The direction of a line is what the balance did since the last line.    *)
LegacyRow(s, i, balance) ==
  [day |-> s.lines[i].day, says |-> s.lines[i].says,
   cents |-> IF BalanceAfter(s, i) > balance
             THEN Magnitude(s.lines[i].cents) ELSE -Magnitude(s.lines[i].cents)]

(* mutant: the balance before is the opening balance                       *)
LegacyLineByOpening(s, acc, i) ==
  [rows |-> Append(acc.rows, LegacyRow(s, i, s.opening)), balance |-> BalanceAfter(s, i)]

LegacyLine(s, acc, i) ==
  [rows |-> Append(acc.rows, LegacyRow(s, i, acc.balance)), balance |-> BalanceAfter(s, i)]

LegacyRows(s, matched) ==
  LET acc[n \in 0..Len(s.lines)] ==
        IF n = 0 THEN [rows |-> <<>>, balance |-> s.opening]
        ELSE IF n \in matched /\ ~s.lines[n].summary THEN LegacyLine(s, acc[n - 1], n) ELSE acc[n - 1]
  IN acc[Len(s.lines)].rows

-----------------------------------------------------------------------------
NothingKept == [rows |-> <<>>, difference |-> 0, tier |-> "none", slips |-> 0]
NotImported == [rows |-> <<>>, by |-> "none"]

ReadingInit ==
  /\ printed \in Papers /\ at = "printed"
  /\ kept = NothingKept /\ asked = 0 /\ imported = NotImported

Read(f) ==
  /\ at = "printed" /\ f \in Readings(printed)
  /\ kept' = Graded(printed, f) /\ at' = "graded"
  /\ UNCHANGED <<printed, asked, imported>>

Improves(new) == new.difference < kept.difference

(* One corrective question, which may fail                                 *)
Correct(f) ==
  /\ at = "graded" /\ kept.difference > 2 /\ asked = 0
  /\ asked' = kept.difference
  /\ \/ UNCHANGED kept
     \/ /\ f \in Readings(printed)
        /\ kept' = IF Improves(Graded(printed, f)) THEN Graded(printed, f) ELSE kept
  /\ UNCHANGED <<printed, at, imported>>

Answered == at = "graded" /\ (kept.difference > 2 => asked # 0)
SecondReader == kept.tier = "LOW" /\ printed.known

Dated(rows) == \A i \in DOMAIN rows : rows[i].day # 0

(* Transaction(date_posted=date.fromisoformat(...)) raises on a row without*)
(* a date, before anything is written.                                     *)
Imports(rows, by) ==
  /\ IF Dated(rows) THEN at' = "imported" /\ imported' = [rows |-> rows, by |-> by]
     ELSE at' = "failed" /\ UNCHANGED imported
  /\ UNCHANGED <<printed, kept, asked>>

ImportReading == Answered /\ ~SecondReader /\ Imports(kept.rows, "model")

Prefers(rows) == rows # <<>> /\ Len(rows) >= Len(kept.rows)

(* No row at all is no file, and no second opinion.                        *)
Compare(matched) ==
  LET rows == LegacyRows(printed, matched)
  IN /\ Answered /\ SecondReader /\ matched \subseteq DOMAIN printed.lines
     /\ IF Prefers(rows) THEN Imports(rows, "regex") ELSE Imports(kept.rows, "model")

ReadingNext ==
  \/ \E f \in Readings(printed) : Read(f) \/ Correct(f)
  \/ ImportReading
  \/ \E matched \in SUBSET (DOMAIN printed.lines) : Compare(matched)

ReadingSpec == ReadingInit /\ [][ReadingNext]_reading

-----------------------------------------------------------------------------
ReadingTypeOK ==
  /\ printed \in Papers
  /\ at \in {"printed", "graded", "imported", "failed"}
  /\ kept.tier \in {"none", "LOW", "MEDIUM", "HIGH"} /\ kept.difference \in Nat
  /\ asked \in Nat /\ imported.by \in {"none", "model", "regex"}

(* A statement the de-duplication of a paged reading cannot mistake, and   *)
(* whose real lines are of its period and of more than two cents           *)
Distinct(s) ==
  s.paged => \A i, j \in DOMAIN s.lines :
               i # j => s.lines[i].day # s.lines[j].day \/ s.lines[i].says # s.lines[j].says
Legible(s) ==
  /\ Distinct(s)
  /\ \A i \in DOMAIN s.lines : s.lines[i].day \in Period /\ Magnitude(s.lines[i].cents) > 2

Off(rows) ==
  LET true == Real(printed)
  IN \/ Len(rows) # Len(true)
     \/ \E i \in DOMAIN rows :
          rows[i].day \notin Period \/ Magnitude(rows[i].cents - true[i].cents) > 2

(* One mistake about the money never comes out HIGH, before or after the   *)
(* corrective question: it takes a second one to balance it. Nor does a    *)
(* line dated outside the period; of a wrong day inside it nothing is said,*)
(* for nothing checks that, but that it costs no row of a paged reading.   *)
OneSlipIsSeen ==
  Legible(printed) /\ kept.tier = "HIGH" /\ kept.slips <= 1 => ~Off(kept.rows)

(* The reading that is kept is never further from the printed closing      *)
(* balance than the first one was.                                         *)
CorrectionNeverWorsens == asked # 0 => kept.difference <= asked

(* "never let it discard transactions the LLM did read": the regex parser  *)
(* takes over only with as many rows.                                      *)
NoRowIsTradedAway == at = "imported" => Len(imported.rows) >= Len(kept.rows)

(* What is graded HIGH is imported; only a reading that was flagged can    *)
(* fail the job after it was graded.                                       *)
HighIsImported == at = "failed" => kept.tier # "HIGH"

(* A flawless reading is graded HIGH, or MEDIUM where the statement itself *)
(* raises a flag, and never LOW, unless it has next to no rows.            *)
FlawlessIsTrusted ==
  at = "graded" /\ kept.slips = 0 /\ kept.tier = "LOW" /\ Distinct(printed) =>
     Len(Real(printed)) < IF printed.card THEN 1 ELSE 3

(* The regex parser takes the direction of each line from the balances, and*)
(* gets it right on a deposit account of which it matched every line.      *)
LegacyReadsDirections ==
  imported.by = "regex" /\ ~printed.card /\ Len(imported.rows) = Len(Real(printed)) =>
     \A i \in DOMAIN imported.rows : imported.rows[i].cents = Real(printed)[i].cents

(* What is imported is what was read: the kept reading is the better one,  *)
(* it gives way only to as many rows of the regex parser, whose directions *)
(* are right, and only a flagged reading is refused or distrusted.         *)
ReadingStands ==
  /\ ReadingTypeOK /\ CorrectionNeverWorsens /\ NoRowIsTradedAway /\ HighIsImported
  /\ FlawlessIsTrusted /\ LegacyReadsDirections
=============================================================================
