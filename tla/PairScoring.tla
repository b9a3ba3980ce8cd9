----------------------------- MODULE PairScoring -----------------------------
(***************************************************************************)
(* How strong one pair of a bank row and a proof of transaction is: the    *)
(* currency the proof is read in, the amounts under the one rule, the      *)
(* dates, the names, and whether the pair may settle or is a suggestion    *)
(* (core/document_currency.py, core/amount_match.py, and the scoring half  *)
(* of core/reconciliation.py).                                             *)
(*                                                                         *)
(* Money is cents, 0 for none; scores are per cent; a confidence is the    *)
(* weighted sum of three, out of 10000.                                    *)
(***************************************************************************)
EXTENDS Integers

CONSTANTS Floor,       \* RECONCILIATION_REVIEW_THRESHOLD, 6000
          MaxDateDays  \* the user's date variance, 45

ASSUME ScoringAssumption ==
  Floor \in 0..10000 /\ MaxDateDays \in Nat

Codes == {"CAD", "USD", "EUR"}

(* What a model read off a proof: the currency text beside the total, word *)
(* for word, its own opinion of the currency, the figures, and the days of *)
(* the payment, the document and the month its file is named for (0: none).*)
Paper == [marker : Codes \cup {"$", "none", "kr"}, opinion : Codes \cup {"none"},
          total : Nat, amount : Nat, subtotal : Nat, gst : Nat, other : Nat,
          paid : Nat, dated : Nat, hinted : Nat, vendor : STRING, filed : BOOLEAN, income : BOOLEAN]

(* A bank row: names is the party the line names, "rail" for a payment     *)
(* platform, "" for nobody; usd is the amount in "USD 12.34@1.35".         *)
Row == [cents : Nat, currency : Codes \cup {""}, day : Nat, names : STRING,
        card : BOOLEAN, usd : Nat, expense : BOOLEAN]

Gap(x, y) == IF x < y THEN y - x ELSE x - y

-----------------------------------------------------------------------------
(* The currency                                                            *)

(* A tax of 5, 12, 13, 14 or 15 per cent, to a third of a point            *)
CanadianRate(tax, subtotal) ==
  /\ subtotal > 0 /\ tax > 0
  /\ \E rate \in {5, 12, 13, 14, 15} : Gap(1000 * tax, 10 * rate * subtotal) <= 3 * subtotal

CanadianTaxSignal(d) ==
  \/ d.gst # 0
  \/ CanadianRate(IF d.other # 0 THEN d.other ELSE d.total - d.subtotal, d.subtotal)

CurrencyFromExtraction(p) ==
  IF p.marker \in Codes THEN [code |-> p.marker, source |-> "stated"]
  ELSE IF p.marker = "kr" /\ p.opinion # "none" THEN [code |-> p.opinion, source |-> "stated"]
  ELSE IF CanadianTaxSignal(p) THEN [code |-> "CAD", source |-> "inferred"]
  ELSE [code |-> "none", source |-> "assumed"]

(* The payment date before the document's; a file named for one of the two *)
(* months after it overrules both, and stands in when there is none.       *)
Month(day) == day \div 30
BestDay(p) ==
  LET best == IF p.paid # 0 THEN p.paid ELSE p.dated
  IN IF p.hinted # 0 /\ (best = 0 \/ Month(p.hinted) - Month(best) \in 1..2)
     THEN p.hinted ELSE best

(* build_document_from_extraction                                          *)
Document(p) ==
  LET c == CurrencyFromExtraction(p)
  IN [code |-> c.code, source |-> c.source, total |-> IF p.total # 0 THEN p.total ELSE p.amount,
      amount |-> p.amount, subtotal |-> p.subtotal, gst |-> p.gst, other |-> p.other,
      day |-> BestDay(p), vendor |-> p.vendor, filed |-> p.filed, income |-> p.income]

ResolveDocumentCurrency(d) ==
  IF d.source = "stated" /\ d.code # "none" THEN [code |-> d.code, source |-> "stated"]
  ELSE IF CanadianTaxSignal(d) THEN [code |-> "CAD", source |-> "inferred"]
  ELSE IF d.source = "inferred" /\ d.code # "none" THEN [code |-> d.code, source |-> "inferred"]
  ELSE [code |-> "none", source |-> "assumed"]

-----------------------------------------------------------------------------
(* The amount                                                              *)

PennyTolerance == 5
WireFee == 2500

(* A rate between 1.20 and 1.55                                            *)
InBand(cad, usd) == 100 * cad >= 120 * usd /\ 100 * cad <= 155 * usd

SameCurrency(t, c) == c.code = "none" \/ t.currency = c.code

Across(t, cents, code) ==
  CASE t.currency = "CAD" /\ code = "USD" /\ InBand(t.cents, cents) -> 78
    [] t.currency = "USD" /\ code = "CAD" /\ InBand(cents, t.cents) -> 78
    [] OTHER -> 0

Near(x, y, tolerance) ==
  LET diff == Gap(x, y)
  IN CASE diff = 0 -> 100
       [] diff # 0 /\ diff <= PennyTolerance -> 90
       [] diff > PennyTolerance /\ diff <= tolerance -> 80
       [] diff > PennyTolerance /\ diff > tolerance /\ diff <= WireFee /\ tolerance >= 200 -> 65
       [] OTHER -> 0

Alternative(d) == d.amount # 0 /\ d.amount # d.total

(* A pair that only an agent shortlisted keeps 30 in one currency, and     *)
(* nothing across two.                                                     *)
AmountScore(d, t) ==
  LET c == ResolveDocumentCurrency(d)
      direct == IF SameCurrency(t, c) THEN Near(t.cents, d.total, 200)
                ELSE Across(t, d.total, c.code)
      converted == IF Alternative(d) THEN Near(t.cents, d.amount, 200) ELSE 0
      quoted == IF t.card /\ t.usd # 0 THEN Near(t.usd, d.total, 100) ELSE 0
  IN CASE direct > 0 -> direct
       [] direct = 0 /\ converted > 0 -> IF converted > 95 THEN 95 ELSE converted
       [] direct = 0 /\ converted = 0 /\ quoted > 0 -> quoted
       [] OTHER -> IF SameCurrency(t, c) THEN 30 ELSE 0

(* _deterministic_amount_shortlist, one row of it                          *)
Shortlisted(d, t) ==
  LET c == ResolveDocumentCurrency(d)
      diff == Gap(t.cents, d.total)
  IN \/ SameCurrency(t, c) /\ (diff <= 200 \/ 100 * diff <= 15 * d.total)
     \/ Alternative(d) /\ Gap(t.cents, d.amount) <= 200
     \/ t.card /\ t.usd # 0 /\ Gap(t.usd, d.total) <= 100
     \/ ~SameCurrency(t, c) /\ Across(t, d.total, c.code) # 0
     \/ SameCurrency(t, c) /\ t.currency = "CAD" /\ t.names = "rail" /\ InBand(t.cents, d.total)

(* What the amount agent is shown: half to twice the figure, and 30 dollars*)
WithinEnvelope(d, t) ==
  \E figure \in {d.total} \cup (IF Alternative(d) THEN {d.amount} ELSE {}) :
     2 * t.cents >= figure - 6000 /\ t.cents <= 2 * figure + 3000

-----------------------------------------------------------------------------
(* The date and the name                                                   *)
NoDateGap == 1000000
DateGap(d, t) == IF d.day = 0 THEN NoDateGap ELSE Gap(d.day, t.day)

DateScore(d, t) ==
  LET gap == DateGap(d, t)
  IN CASE d.day = 0 -> 10 [] gap = 0 -> 100 [] gap \in 1..3 -> 90 [] gap \in 4..7 -> 70
       [] gap \in 8..14 -> 50 [] gap \in 15..21 -> 40 [] gap \in 22..45 -> 20 [] OTHER -> 2

InTime(d, t) == d.day = 0 \/ DateGap(d, t) <= MaxDateDays

(* The hash that tells contractors apart behind one platform is left out;  *)
(* another party's name still resembles the vendor's a little.             *)
VendorScore(d, t) ==
  IF "" \in {t.names, d.vendor} THEN 0
  ELSE IF t.names = d.vendor THEN 80
  ELSE IF t.names = "rail" THEN IF d.filed THEN 60 ELSE 50
  ELSE 22

Contradicts(d, t) == t.names \notin {"", "rail", d.vendor} /\ d.vendor # ""

Confidence(d, t) == 50 * AmountScore(d, t) + 30 * DateScore(d, t) + 20 * VendorScore(d, t)

SignCompatible(d, t) == t.expense # d.income

(* mutant: a confident agent needs no amount                               *)
FlaggedByConfidence(d, t, confidence) == confidence < Floor \/ Contradicts(d, t)

(* classify_match: a suggestion, not a reconciliation                      *)
Flagged(d, t, confidence) ==
  confidence < Floor \/ AmountScore(d, t) <= 5 \/ Contradicts(d, t)

(* _unambiguous_candidate, once the shortlist is this one row              *)
Unambiguous(d, t) ==
  LET c == ResolveDocumentCurrency(d)
  IN /\ c.source # "assumed" /\ t.currency # "" /\ t.currency = c.code
     /\ Gap(t.cents, d.total) <= 2
     /\ d.day # 0 /\ DateGap(d, t) <= MaxDateDays /\ DateGap(d, t) <= 3
     /\ VendorScore(d, t) >= 80 /\ ~Contradicts(d, t)
=============================================================================
