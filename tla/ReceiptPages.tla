---------------------------- MODULE ReceiptPages ----------------------------
(***************************************************************************)
(* A long scanned receipt, read a few pages at a time (core/extraction.py):*)
(* batches that read nothing are rendered sharper and asked again, the     *)
(* batch whose grand total would be taken is read again at full resolution,*)
(* and so are all that disagree, within a budget; the answers are merged,  *)
(* and what the merge says is graded and stored for review. A provider that*)
(* fails half-way, or knows no vendor, hands the same plan to the next.    *)
(***************************************************************************)
EXTENDS Integers, FiniteSets, Sequences

CONSTANTS Batches,   \* page batches: the first is rendered at full DPI
          Providers, \* length of the provider chain
          MaxVerify, \* RECEIPT_TOTAL_VERIFY_MAX_CALLS
          Figures,   \* amounts more than two cents apart
          Plans      \* modes of the documents that come in

ASSUME PagesAssumption ==
  /\ Batches \in Nat \ {0} /\ Providers \in Nat \ {0} /\ MaxVerify \in Nat
  /\ Figures \subseteq Nat \ {0} /\ Plans \subseteq {"one_pass", "paged", "truncated"}

VARIABLES
  plan,    \* how the document reaches the model
  stage,   \* what is being asked
  link,    \* provider of the chain
  pairs,   \* answer of each batch so far
  dpi,     \* ReceiptBatch.dpi: belongs to the plan, not to a provider's run of it
  pixels,  \* history: the resolution the answer was read from
  verify,  \* the grand-total pass: targets left, calls, what it found
  result   \* the last merged answer, and its review status once stored

pages == <<plan, stage, link, pairs, dpi, pixels, verify, result>>

Batch == 1..Batches
Resolution == {"reduced", "full"}
Vendors == {"none", "shop"}
Currencies == {"stated", "inferred", "assumed"}

NoAnswer == [page |-> 0, figure |-> 0, read |-> FALSE]

(* What a model may say of batch b: nothing, text, an amount, or an amount *)
(* it takes for the grand total, printed there or on the last page.        *)
AnswersOf(b) ==
  {NoAnswer, [NoAnswer EXCEPT !.read = TRUE]}
    \cup [page : {0, b, Batches}, figure : Figures, read : {TRUE}]

NoVerify == [todo |-> {}, calls |-> 0, disagree |-> FALSE, found |-> FALSE]
NoResult == [total |-> 0, low |-> FALSE, verified |-> "none", from |-> "none",
             vendor |-> "none", currency |-> "none", review |-> "none"]

PagesTypeOK ==
  /\ plan \in Plans
  /\ stage \in {"read", "sharpen", "verify", "merge", "graded", "stored", "failed"}
  /\ link \in 1..Providers
  /\ pairs \in Seq(UNION {AnswersOf(b) : b \in Batch}) /\ Len(pairs) <= Batches
  /\ dpi \in [Batch -> Resolution] /\ pixels \in [Batch -> Resolution]
  /\ verify \in [todo : SUBSET Batch, calls : 0..MaxVerify, disagree : BOOLEAN, found : BOOLEAN]
  /\ result \in [total : {0} \cup Figures, low : BOOLEAN,
                 verified : Resolution \cup {"none"}, from : Resolution \cup {"none"},
                 vendor : Vendors, currency : {"none"} \cup Currencies,
                 review : {"none", "auto_accepted", "pending", "flagged"}]

(* RECEIPT_SINGLE_CALL_MAX_PAGES at full DPI, the rest at RECEIPT_BATCH_DPI*)
Rendered == [b \in Batch |-> IF b = 1 THEN "full" ELSE "reduced"]

PagesInit ==
  /\ plan \in Plans
  /\ stage = "read" /\ link = 1 /\ pairs = <<>>
  /\ dpi = Rendered /\ pixels = Rendered
  /\ verify = NoVerify /\ result = NoResult

-----------------------------------------------------------------------------
(* One batch at a time                                                     *)
Current == Len(pairs) + 1

(* The sharper answer replaces the first only if it read something.        *)
Sharper(b, a) ==
  IF a.read
  THEN /\ pairs' = [pairs EXCEPT ![b] = a]
       /\ dpi' = [dpi EXCEPT ![b] = "full"] /\ pixels' = [pixels EXCEPT ![b] = "full"]
  ELSE UNCHANGED <<pairs, dpi, pixels>>

OnePass(a, vendor) ==
  /\ stage = "read" /\ plan = "one_pass"
  /\ result' = [NoResult EXCEPT !.total = a.figure, !.vendor = vendor, !.low = a.figure = 0]
  /\ stage' = "graded"
  /\ UNCHANGED <<plan, link, pairs, dpi, pixels, verify>>

ReadBatch(a) ==
  /\ stage = "read" /\ plan # "one_pass" /\ Len(pairs) < Batches
  /\ pairs' = Append(pairs, a)
  /\ stage' = IF ~a.read /\ dpi[Current] = "reduced" THEN "sharpen" ELSE "read"
  /\ UNCHANGED <<plan, link, dpi, pixels, verify, result>>

(* _retry_batch_at_higher_dpi for a batch that read nothing                *)
Sharpen(a) ==
  /\ stage = "sharpen" /\ stage' = "read"
  /\ Sharper(Len(pairs), a)
  /\ UNCHANGED <<plan, link, verify, result>>

-----------------------------------------------------------------------------
(* The grand total                                                         *)

Claimants == {b \in DOMAIN pairs : pairs[b].page # 0 /\ pairs[b].figure # 0}
Before(b, c) == \/ pairs[b].page < pairs[c].page
                \/ pairs[b].page = pairs[c].page /\ b <= c
Chosen == CHOOSE c \in Claimants : \A b \in Claimants : Before(b, c)
Disagree == \E b, c \in Claimants : pairs[b].figure # pairs[c].figure

(* They are asked in the order of the pages they name.                     *)
First(S) == CHOOSE b \in S : \A c \in S : Before(b, c)

Targets == {b \in IF Disagree THEN Claimants ELSE {Chosen} : dpi[b] = "reduced"}

StartVerify ==
  /\ stage = "read" /\ Len(pairs) = Batches /\ plan # "one_pass"
  /\ IF Claimants = {} THEN stage' = "merge" /\ verify' = NoVerify
     ELSE /\ stage' = "verify"
          /\ verify' = [NoVerify EXCEPT !.todo = Targets, !.disagree = Disagree]
  /\ UNCHANGED <<plan, link, pairs, dpi, pixels, result>>

OutOfBudget ==
  /\ stage = "verify" /\ verify.todo # {} /\ verify.calls >= MaxVerify
  /\ verify' = [verify EXCEPT !.todo = {}, !.found = TRUE]
  /\ UNCHANGED <<plan, stage, link, pairs, dpi, pixels, result>>

(* a.read is FALSE also when the pages could not be rendered.              *)
Verify(a, asked) ==
  LET b == First(verify.todo)
  IN /\ stage = "verify" /\ verify.todo # {} /\ verify.calls < MaxVerify
     /\ a.read => asked
     /\ Sharper(b, a)
     /\ verify' = [verify EXCEPT !.todo = @ \ {b}, !.calls = IF asked THEN @ + 1 ELSE @,
                      !.found = @ \/ (a.read /\ ~verify.disagree /\ a.figure # pairs[b].figure)]
     /\ UNCHANGED <<plan, stage, link, result>>

(* mutant: a disagreement settled once stays settled                       *)
VerifiedQuietly ==
  /\ stage = "verify" /\ verify.todo = {} /\ stage' = "merge"
  /\ verify' = verify
  /\ UNCHANGED <<plan, link, pairs, dpi, pixels, result>>

EndVerify ==
  /\ stage = "verify" /\ verify.todo = {} /\ stage' = "merge"
  /\ verify' = [verify EXCEPT !.found = @ \/ (Claimants # {} /\ dpi[Chosen] = "reduced")]
  /\ UNCHANGED <<plan, link, pairs, dpi, pixels, result>>

(* Nobody claims the grand total: the last amount anybody saw.             *)
Amounts == {b \in DOMAIN pairs : pairs[b].figure # 0}
LastAmount == CHOOSE b \in Amounts : \A c \in Amounts : c <= b

Total == IF Claimants # {} THEN pairs[Chosen].figure
         ELSE IF Amounts # {} THEN pairs[LastAmount].figure ELSE 0

Reasons == verify.found \/ Claimants = {} \/ Disagree \/ plan = "truncated"

(* _merge_receipt_batches                                                  *)
Merge(vendor) ==
  /\ stage = "merge" /\ stage' = "graded"
  /\ result' = [NoResult EXCEPT
        !.total = Total, !.low = Reasons, !.vendor = vendor,
        !.verified = IF Claimants # {} THEN dpi[Chosen] ELSE "none",
        !.from = IF Claimants # {} THEN pixels[Chosen] ELSE "none"]
  /\ UNCHANGED <<plan, link, pairs, dpi, pixels, verify>>

-----------------------------------------------------------------------------
(* The next provider is given the plan as it is: the images as they were   *)
(* first rendered, and the DPI that were last written beside them.         *)
Restarts ==
  /\ stage' = "read" /\ link' = link + 1
  /\ pairs' = <<>> /\ pixels' = Rendered /\ verify' = NoVerify
  /\ UNCHANGED <<plan, dpi, result>>

ProviderFails ==
  /\ stage \in {"read", "sharpen", "verify"}
  /\ \/ link < Providers /\ Restarts
     \/ /\ link = Providers
        /\ stage' = IF result = NoResult THEN "failed" ELSE "graded"
        /\ pairs' = <<>> /\ UNCHANGED <<plan, link, dpi, pixels, verify, result>>

(* _needs_second_opinion: a total, a date and no vendor                    *)
SecondOpinion ==
  /\ stage = "graded" /\ link < Providers
  /\ result.vendor = "none" /\ result.total # 0
  /\ Restarts

-----------------------------------------------------------------------------
(* compute_field_confidence and review_status_for: the fields' grades and  *)
(* the currency's source. What made the merge low is not among them.       *)
CurrencyGrade(source) ==
  CASE source = "stated" -> "high" [] source = "inferred" -> "medium" [] OTHER -> "low"

Grades(others, currency) ==
  {others, IF result.total > 0 THEN "high" ELSE "low",
           IF result.vendor = "none" THEN "low" ELSE "high", currency}

Status(grades) ==
  CASE "low" \in grades -> "flagged" [] grades = {"high"} -> "auto_accepted" [] OTHER -> "pending"

(* A currency inferred from the tax line is medium, and accepted.          *)
ReviewStatus(others, source) ==
  Status(Grades(others, IF source = "inferred" THEN "high" ELSE CurrencyGrade(source)))

(* A fallback rung of the ladder is never auto-accepted.                   *)
Store(others, source, trusted) ==
  LET s == ReviewStatus(others, source)
  IN /\ stage = "graded"
     /\ result.vendor # "none" \/ result.total = 0 \/ link = Providers
     /\ stage' = "stored"
     /\ result' = [result EXCEPT !.currency = source, !.review =
                     IF s = "auto_accepted" /\ ~trusted THEN "pending" ELSE s]
     /\ UNCHANGED <<plan, link, pairs, dpi, pixels, verify>>

PagesNext ==
  \/ \E b \in Batch : \E a \in AnswersOf(b) :
       \/ \E v \in Vendors : OnePass(a, v)
       \/ b = Current /\ ReadBatch(a)
       \/ b = Len(pairs) /\ Sharpen(a)
       \/ stage = "verify" /\ verify.todo # {} /\ b = First(verify.todo) /\ \E asked \in BOOLEAN : Verify(a, asked)
  \/ StartVerify \/ OutOfBudget \/ EndVerify \/ ProviderFails \/ SecondOpinion
  \/ \E v \in Vendors : Merge(v)
  \/ \E g \in {"high", "medium", "low"}, s \in Currencies, t \in BOOLEAN : Store(g, s, t)

PagesSpec == PagesInit /\ [][PagesNext]_pages

-----------------------------------------------------------------------------
Merged == plan # "one_pass" /\ stage = "graded" /\ Len(pairs) = Batches

(* A grand total that nobody is asked to look at is one that every batch   *)
(* that claims to show it agrees on, on a document read to the end, and    *)
(* that is marked as read at full resolution.                              *)
QuietTotalIsUnanimous ==
  Merged /\ ~result.low =>
     /\ plan = "paged" /\ result.total # 0 /\ result.verified = "full"
     /\ \A b \in DOMAIN pairs : pairs[b].page # 0 /\ pairs[b].figure # 0
                                  => pairs[b].figure = result.total

(* While no provider has handed over, that mark is true: the total was read*)
(* from pixels of the resolution it is said to have been read at.          *)
MarkedAsRead == stage \in {"graded", "stored"} /\ link = 1 => result.verified = result.from

(* What skips the review queue has an amount somebody read, a currency the *)
(* document gives away, and a vendor.                                      *)
AutoAcceptedIsEarned ==
  stage = "stored" /\ result.review = "auto_accepted" =>
     result.total # 0 /\ result.vendor # "none" /\ result.currency # "assumed"

(* A receipt's total is what its pages say, read as sharp as it says, and  *)
(* nobody is asked to look at it only where that is earned.                *)
TotalIsEarned ==
  PagesTypeOK /\ QuietTotalIsUnanimous /\ MarkedAsRead /\ AutoAcceptedIsEarned
=============================================================================
