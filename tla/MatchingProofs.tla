--------------------------- MODULE MatchingProofs ---------------------------
(***************************************************************************)
(* What holds of a matching run for any proofs, bank rows, agents' answers *)
(* and order of the workers: the matches stand on evidence, no proof backs *)
(* two rows, no refused pair returns, a row once settled keeps its proof   *)
(* for the rest of the run, proofs that fit are matched until one side     *)
(* runs out, and a run over remembered answers repeats itself.             *)
(***************************************************************************)
EXTENDS Matching, FiniteSetTheorems, WellFoundedInduction, TLAPS

-----------------------------------------------------------------------------
(* The scores                                                              *)

(* Every score is one of a few, whatever the pair.                         *)
LEMMA NearScores ==
  ASSUME NEW x, NEW y, NEW tolerance
  PROVE  Near(x, y, tolerance) \in {0, 65, 80, 90, 100}
BY DEF Near

LEMMA AcrossScores ==
  ASSUME NEW t, NEW cents, NEW code
  PROVE  Across(t, cents, code) \in {0, 78}
BY DEF Across

LEMMA AmountScores ==
  ASSUME NEW d, NEW t
  PROVE  AmountScore(d, t) \in 0..100
<1> DEFINE c == ResolveDocumentCurrency(d)
           direct == IF SameCurrency(t, c) THEN Near(t.cents, d.total, 200) ELSE Across(t, d.total, c.code)
           converted == IF Alternative(d) THEN Near(t.cents, d.amount, 200) ELSE 0
           quoted == IF t.card /\ t.usd # 0 THEN Near(t.usd, d.total, 100) ELSE 0
           other == IF SameCurrency(t, c) THEN 30 ELSE 0
           score == CASE direct > 0 -> direct
                      [] direct = 0 /\ converted > 0 -> IF converted > 95 THEN 95 ELSE converted
                      [] direct = 0 /\ converted = 0 /\ quoted > 0 -> quoted
                      [] OTHER -> other
<1>1. direct \in 0..100
  BY NearScores, AcrossScores
<1>2. converted \in 0..100
  BY NearScores
<1>3. quoted \in 0..100
  BY NearScores
<1>4. other \in 0..100
  OBVIOUS
<1>5. AmountScore(d, t) = score
  BY DEF AmountScore
<1> HIDE DEF direct, converted, quoted, other
<1>6. score \in 0..100
  BY <1>1, <1>2, <1>3, <1>4
<1> QED  BY <1>5, <1>6

LEMMA DateScores ==
  ASSUME NEW d, NEW t
  PROVE  DateScore(d, t) \in 0..100
<1>1. DateScore(d, t) \in {100, 90, 70, 50, 40, 20, 10, 2}
  BY DEF DateScore
<1> QED  BY <1>1

LEMMA VendorScores ==
  ASSUME NEW d, NEW t
  PROVE  VendorScore(d, t) \in 0..100
<1>1. VendorScore(d, t) \in {80, 60, 50, 22, 0}
  BY DEF VendorScore
<1> QED  BY <1>1

LEMMA Confidences ==
  ASSUME NEW d, NEW t
  PROVE  Confidence(d, t) \in 0..10000
<1> DEFINE amount == AmountScore(d, t)
           date == DateScore(d, t)
           vendor == VendorScore(d, t)
<1>1. amount \in 0..100 /\ date \in 0..100 /\ vendor \in 0..100
  BY AmountScores, DateScores, VendorScores
<1>2. Confidence(d, t) = 50 * amount + 30 * date + 20 * vendor
  BY DEF Confidence
<1> HIDE DEF amount, date, vendor
<1> QED  BY <1>1, <1>2

LEMMA DateGaps ==
  ASSUME NEW p \in Paper, NEW t \in Row
  PROVE  DateGap(Document(p), t) \in Nat
<1>1. BestDay(p) \in Nat /\ t.day \in Nat
  BY DEF BestDay, Paper, Row
<1>2. Document(p).day = BestDay(p)
  BY DEF Document
<1> QED  BY <1>1, <1>2 DEF DateGap, NoDateGap, Gap

(* A score above 5 has a reason: amounts that agree, or one currency.      *)
LEMMA ScoredAgrees ==
  ASSUME NEW p \in Paper, NEW t \in Row, AmountScore(Document(p), t) > 5
  PROVE  \/ AmountsAgree(Document(p), t)
         \/ SameCurrency(t, ResolveDocumentCurrency(Document(p)))
<1> DEFINE d == Document(p)
           c == ResolveDocumentCurrency(d)
           direct == IF SameCurrency(t, c) THEN Near(t.cents, d.total, 200) ELSE Across(t, d.total, c.code)
           converted == IF Alternative(d) THEN Near(t.cents, d.amount, 200) ELSE 0
           quoted == IF t.card /\ t.usd # 0 THEN Near(t.usd, d.total, 100) ELSE 0
           other == IF SameCurrency(t, c) THEN 30 ELSE 0
<1>1. d.total \in Nat /\ d.amount \in Nat /\ t.cents \in Nat /\ t.usd \in Nat
  BY DEF Document, Paper, Row
<1>2. direct \in 0..100 /\ converted \in 0..100 /\ quoted \in 0..100
  BY NearScores, AcrossScores
<1>3. direct > 0 \/ converted > 0 \/ quoted > 0 \/ other > 5
  <2>1. AmountScore(d, t) = CASE direct > 0 -> direct
                              [] direct = 0 /\ converted > 0 -> IF converted > 95 THEN 95 ELSE converted
                              [] direct = 0 /\ converted = 0 /\ quoted > 0 -> quoted
                              [] OTHER -> other
    BY DEF AmountScore
  <2> HIDE DEF d, direct, converted, quoted, other
  <2> QED  BY <1>2, <2>1 DEF d
<1>4. CASE SameCurrency(t, c)
  BY <1>4
<1>5. CASE direct > 0 /\ ~SameCurrency(t, c)
  <2>1. Across(t, d.total, c.code) # 0
    BY <1>5
  <2>2. \/ t.currency = "CAD" /\ c.code = "USD" /\ InBand(t.cents, d.total)
        \/ t.currency = "USD" /\ c.code = "CAD" /\ InBand(d.total, t.cents)
    BY <2>1 DEF Across
  <2> QED  BY <2>2 DEF AmountsAgree
<1>6. CASE converted > 0
  <2>1. Alternative(d) /\ Near(t.cents, d.amount, 200) > 0
    BY <1>6
  <2>2. Gap(t.cents, d.amount) <= WireFee
    BY <1>1, <2>1 DEF Near, Gap, WireFee, PennyTolerance
  <2> QED  BY <2>1, <2>2 DEF AmountsAgree
<1>7. CASE quoted > 0
  <2>1. t.card /\ t.usd # 0 /\ Near(t.usd, d.total, 100) > 0
    BY <1>7
  <2>2. Gap(t.usd, d.total) <= 100
    BY <1>1, <2>1 DEF Near, Gap, WireFee, PennyTolerance
  <2> QED  BY <2>1, <2>2 DEF AmountsAgree
<1>8. CASE other > 5
  BY <1>8
<1> QED  BY <1>3, <1>4, <1>5, <1>6, <1>7, <1>8

-----------------------------------------------------------------------------
(* Least elements                                                          *)
LEMMA LeastNumber ==
  ASSUME NEW S \in SUBSET Nat, S # {}
  PROVE  \E n \in S : \A m \in S : n <= m
<1>1. \E n \in S : \A m \in S : ~ (<<m, n>> \in OpToRel(<, Nat))
  BY NatLessThanWellFounded, WFMin
<1>2. \A m, n \in Nat : <<m, n>> \in OpToRel(<, Nat) <=> m < n
  BY DEF OpToRel
<1>3. PICK n \in S : \A m \in S : ~ (<<m, n>> \in OpToRel(<, Nat))
  BY <1>1
<1>4. \A m \in S : ~ (m < n)
  BY <1>2, <1>3
<1>5. \A m \in S : n <= m
  BY <1>4
<1> QED  BY <1>5

(* Those of a set that come first by one measure                           *)
LEMMA FirstBy ==
  ASSUME NEW C, C # {}, NEW f \in [C -> Nat]
  PROVE  \E D \in SUBSET C : D # {} /\ \A p \in D, q \in C : f[p] <= f[q] /\ (f[q] = f[p] => q \in D)
<1> DEFINE S == {f[p] : p \in C}
<1>1. S \in SUBSET Nat /\ S # {}
  OBVIOUS
<1>2. PICK n \in S : \A m \in S : n <= m
  BY <1>1, LeastNumber
<1> DEFINE D == {p \in C : f[p] = n}
<1>3. D # {} /\ D \in SUBSET C
  BY <1>2
<1>4. \A p \in D, q \in C : f[p] <= f[q] /\ (f[q] = f[p] => q \in D)
  BY <1>2
<1> QED  BY <1>3, <1>4
-----------------------------------------------------------------------------
(* The inductive invariant                                                 *)

(* A proposal is for a row its document may take, and is flagged by what   *)
(* the two say.                                                            *)
Fair(p) ==
  /\ p \in Proposals /\ <<p.doc, p.txn>> \notin rejected
  /\ SignCompatible(Doc(p.doc), Txn(p.txn))
  /\ p.flagged = Flagged(Doc(p.doc), Txn(p.txn), p.conf)

(* Between runs nobody waits and nothing is proposed. A document is at     *)
(* work, or has made its one proposal, for a row that was free when the    *)
(* round began, or holds one row: never two of the three.                  *)
RoundInv ==
  /\ round = 0 => waiting = {} /\ claims = {}
  /\ runs = 0 => round = 0 /\ HeldRows = {}
  /\ \A p \in claims : /\ Fair(p) /\ p.doc \notin waiting /\ held[p.txn] = Nobody
                       /\ \A q \in claims : p.doc = q.doc => p = q
  /\ \A t \in HeldRows : /\ Fair(held[t]) /\ held[t].txn = t /\ held[t].doc \notin waiting
                         /\ \A p \in claims : p.doc # held[t].doc
                         /\ \A u \in HeldRows : u # t => held[u].doc # held[t].doc

MatchInv == MatchTypeOK /\ RoundInv

LEMMA BooksHold ==
  ASSUME MatchTypeOK
  PROVE  /\ \A d \in Docs : book.papers[d] \in Paper
         /\ \A t \in Txns : book.rows[t] \in Row
BY MatchingAssumption DEF MatchTypeOK

LEMMA NobodyIsNoProposal == Nobody \notin Proposals
BY MatchingAssumption DEF Nobody, Proposals

(* The confidences                                                         *)
Grades == 0..10000

LEMMA ProposalParts == \A p \in Proposals : p.doc \in Docs /\ p.txn \in Txns /\ p.conf \in Grades
<1>1. \A p \in [doc : Docs, txn : Txns, conf : Grades, flagged : BOOLEAN] :
         p.doc \in Docs /\ p.txn \in Txns /\ p.conf \in Grades
  OBVIOUS
<1>2. Proposals = [doc : Docs, txn : Txns, conf : Grades, flagged : BOOLEAN]
  BY DEF Proposals, Grades
<1> QED  BY <1>1, <1>2

(* The deterministic choice is one of those it chooses from.               *)
LEMMA DeterministicIsIn ==
  ASSUME NEW d, NEW S \in SUBSET Txns, S # {}
  PROVE  Deterministic(d, S) \in S
<1> DEFINE conf == [t \in S |-> Confidence(Doc(d), Txn(t))]
           short == [t \in S |-> 10000 - conf[t]]
<1>1. conf \in [S -> Grades]
  BY Confidences DEF Grades
<1>2. short \in [S -> Nat] /\ \A t \in S : short[t] = 10000 - conf[t] /\ conf[t] \in Int
  <2>1. \A t \in S : conf[t] \in Grades
    BY <1>1
  <2> HIDE DEF conf
  <2>2. ASSUME NEW t \in S
        PROVE  conf[t] \in Int /\ 10000 - conf[t] \in Nat
    <3> DEFINE n == conf[t]
    <3>1. n \in Grades
      BY <2>1
    <3> HIDE DEF n
    <3>2. n \in Int /\ 10000 - n \in Nat
      BY <3>1 DEF Grades
    <3> QED  BY <3>2 DEF n
  <2> QED  BY <2>2
<1>3. PICK D \in SUBSET S : D # {} /\ \A p \in D, q \in S : short[p] <= short[q] /\ (short[q] = short[p] => q \in D)
  <2> HIDE DEF short
  <2> QED  BY <1>2, FirstBy
<1>4. D \in SUBSET Nat
  BY <1>3, MatchingAssumption
<1>5. PICK n \in D : \A m \in D : n <= m
  BY <1>3, <1>4, LeastNumber
<1> HIDE DEF short, conf
<1>6. \A u \in S : conf[n] > conf[u] \/ (conf[n] = conf[u] /\ n <= u)
  BY <1>2, <1>3, <1>5
<1>7. \A u \in S : \/ Confidence(Doc(d), Txn(n)) > Confidence(Doc(d), Txn(u))
                   \/ Confidence(Doc(d), Txn(n)) = Confidence(Doc(d), Txn(u)) /\ n <= u
  BY <1>5, <1>6 DEF conf
<1> QED  BY <1>5, <1>7 DEF Deterministic

(* What the passes leave of a pool, and what is picked of it, is fair.     *)
LEMMA PickedIsFair ==
  ASSUME MatchTypeOK, NEW d \in Docs, NEW S \in SUBSET Compatible(d), NEW r \in FinalReplies(S) \cup {NoReply}
  PROVE  \A p \in Picked(d, S, r) : /\ p.doc = d /\ Fair(p) /\ held[p.txn] = Nobody
                                    /\ \A q \in Picked(d, S, r) : p = q
<1> USE DEF Grades
<1>1. ASSUME NEW t \in S, NEW conf \in Grades
      PROVE  /\ Proposal(d, t, conf).doc = d /\ Fair(Proposal(d, t, conf))
             /\ held[Proposal(d, t, conf).txn] = Nobody
  <2> DEFINE p == Proposal(d, t, conf)
  <2>1. /\ t \in Txns /\ held[t] = Nobody /\ <<d, t>> \notin rejected
        /\ SignCompatible(Doc(d), Txn(t))
    BY DEF Compatible, Pool, HeldRows
  <2>2. Flagged(Doc(d), Txn(t), conf) \in BOOLEAN
    BY DEF Flagged, Contradicts
  <2>3. /\ p = [doc |-> d, txn |-> t, conf |-> conf, flagged |-> Flagged(Doc(d), Txn(t), conf)]
        /\ p.doc = d /\ p.txn = t /\ p.conf = conf /\ p.flagged = Flagged(Doc(d), Txn(t), conf)
    BY DEF Proposal
  <2>4. p \in Proposals
    BY <2>1, <2>2, <2>3 DEF Proposals
  <2> QED  BY <2>1, <2>3, <2>4 DEF Fair
<1>2. S \in SUBSET Txns
  BY DEF Compatible, Pool
<1>6. Labels \subseteq Grades
  BY MatchingAssumption
<1>7. \A e, t : Confidence(e, t) \in Grades
  BY Confidences
<1> HIDE DEF Grades
<1>3. CASE S = {} \/ r = Says({})
  <2>1. Picked(d, S, r) = {}
    BY <1>3 DEF Picked, Says, NoReply
  <2> QED  BY <2>1
<1>4. CASE S # {} /\ r = NoReply
  <2> DEFINE best == Deterministic(d, S)
  <2>1. Picked(d, S, r) = {Proposal(d, best, Confidence(Doc(d), Txn(best)))}
    BY <1>4 DEF Picked, Says, NoReply
  <2>2. best \in S /\ Confidence(Doc(d), Txn(best)) \in Grades
    BY <1>2, <1>4, <1>7, DeterministicIsIn
  <2> DEFINE p == Proposal(d, best, Confidence(Doc(d), Txn(best)))
  <2>3. p.doc = d /\ Fair(p) /\ held[p.txn] = Nobody
    BY <1>1, <2>2
  <2> HIDE DEF p
  <2>4. Picked(d, S, r) = {p}
    BY <2>1 DEF p
  <2> QED  BY <2>3, <2>4
<1>5. CASE S # {} /\ r # NoReply /\ r # Says({})
  <2>1. PICK t \in S, label \in Labels : r = Says({<<t, label>>})
    BY <1>5 DEF FinalReplies
  <2>2. Picked(d, S, r) = {Proposal(d, choice[1], choice[2]) : choice \in r[1]}
    BY <1>5 DEF Picked
  <2>3. Picked(d, S, r) = {Proposal(d, t, label)}
    BY <2>1, <2>2 DEF Says
  <2>4. label \in Grades
    BY <1>6
  <2> DEFINE p == Proposal(d, t, label)
  <2>5. p.doc = d /\ Fair(p) /\ held[p.txn] = Nobody
    BY <1>1, <2>4
  <2> HIDE DEF p
  <2>6. Picked(d, S, r) = {p}
    BY <2>3 DEF p
  <2> QED  BY <2>5, <2>6
<1> QED  BY <1>3, <1>4, <1>5
-----------------------------------------------------------------------------
(* A worker's step                                                         *)

(* While books and refusals stand, what is fair stays fair.                *)
LEMMA FairStays ==
  ASSUME UNCHANGED <<book, rejected>>
  PROVE  \A p : Fair(p) <=> Fair(p)'
BY DEF Fair, Doc, Txn

LEMMA FinishedKeeps ==
  ASSUME MatchInv, NEW d \in waiting, NEW proposal, NEW learnt, NEW failed \in BOOLEAN,
         \A p \in proposal : /\ p.doc = d /\ Fair(p) /\ held[p.txn] = Nobody
                             /\ \A q \in proposal : p = q,
         \A m \in learnt : m[2] # NoReply,
         Finished(d, proposal, learnt, failed)
  PROVE  MatchInv'
<1>1. /\ waiting' = waiting \ {d} /\ spoilt' = (spoilt \/ failed)
      /\ claims' = claims \cup proposal /\ memory' = memory \cup learnt
      /\ UNCHANGED <<book, rejected, round, held, previous, runs>>
  BY DEF Finished, Proposed
<1>2. d \in Docs /\ round # 0 /\ runs # 0
  BY DEF MatchInv, MatchTypeOK, RoundInv
<1>3. \A p : Fair(p) <=> Fair(p)'
  BY <1>1, FairStays
<1>4. MatchTypeOK'
  <2>1. claims' \subseteq Proposals
    BY <1>1 DEF MatchInv, MatchTypeOK, Fair
  <2>2. spoilt' \in BOOLEAN
    BY <1>1 DEF MatchInv, MatchTypeOK
  <2>3. \A m \in memory' : m[2] # NoReply
    BY <1>1 DEF MatchInv, MatchTypeOK
  <2>4. waiting' \subseteq Docs
    BY <1>1 DEF MatchInv, MatchTypeOK
  <2> QED  BY <1>1, <2>1, <2>2, <2>3, <2>4 DEF MatchInv, MatchTypeOK, NoReply
<1>5. HeldRows' = HeldRows
  BY <1>1 DEF HeldRows, Nobody
<1>6. \A p \in claims' : /\ Fair(p)' /\ p.doc \notin waiting' /\ held'[p.txn] = Nobody
                         /\ \A q \in claims' : p.doc = q.doc => p = q
  BY <1>1, <1>3 DEF MatchInv, RoundInv
<1>7. \A t \in HeldRows' : /\ Fair(held[t])' /\ held'[t].txn = t /\ held'[t].doc \notin waiting'
                           /\ \A p \in claims' : p.doc # held'[t].doc
                           /\ \A u \in HeldRows' : u # t => held'[u].doc # held'[t].doc
  BY <1>1, <1>3, <1>5 DEF MatchInv, RoundInv
<1> QED  BY <1>1, <1>2, <1>4, <1>6, <1>7 DEF MatchInv, RoundInv, Nobody

(* The agents only choose from what they are shown.                        *)
LEMMA ChosenFrom ==
  ASSUME NEW d \in Docs, NEW r1 \in AmountReplies(d),
         NEW r2 \in DateReplies(Dated(d, Amounts(d, r1)))
  PROVE  Kept(Dated(d, Amounts(d, r1)), r2) \in SUBSET Compatible(d)
<1>1. Amounts(d, r1) \in SUBSET Compatible(d)
  <2>1. Shortlist(d) \in SUBSET Compatible(d) /\ Shown(d) \in SUBSET Compatible(d)
    BY DEF Shortlist, Shown
  <2>2. r1 = NoReply \/ r1[1] \in SUBSET Shown(d)
    BY DEF AmountReplies, Says
  <2> QED  BY <2>1, <2>2 DEF Amounts
<1> DEFINE S == Dated(d, Amounts(d, r1))
<1>2. S \in SUBSET Compatible(d)
  BY <1>1 DEF Dated
<1> HIDE DEF S
<1>3. r2 \in DateReplies(S)
  BY DEF S
<1>4. r2 = NoReply \/ r2[1] \in SUBSET S
  BY <1>3 DEF DateReplies, Says
<1>5. Kept(S, r2) \in SUBSET Compatible(d)
  BY <1>2, <1>4 DEF Kept
<1> QED  BY <1>5 DEF S

LEMMA SettleKeeps ==
  ASSUME MatchInv, NEW d \in Docs, Settle(d)
  PROVE  MatchInv'
<1> DEFINE proposal == Picked(d, Shortlist(d), NoReply)
           learnt == {}
           failed == FALSE
<1>1. d \in waiting /\ Finished(d, proposal, learnt, failed)
  BY DEF Settle
<1>2. Shortlist(d) \in SUBSET Compatible(d) /\ MatchTypeOK
  BY DEF Shortlist, MatchInv
<1>3. \A p \in proposal : /\ p.doc = d /\ Fair(p) /\ held[p.txn] = Nobody
                          /\ \A q \in proposal : p = q
  BY <1>2, PickedIsFair
<1>4. failed \in BOOLEAN /\ \A m \in learnt : m[2] # NoReply
  OBVIOUS
<1> HIDE DEF proposal, learnt, failed
<1> QED  BY <1>1, <1>3, <1>4, FinishedKeeps

LEMMA WorkerFailsKeeps ==
  ASSUME MatchInv, NEW d \in Docs, WorkerFails(d)
  PROVE  MatchInv'
<1> DEFINE proposal == {}
           learnt == {}
           failed == TRUE
<1>1. d \in waiting /\ Finished(d, proposal, learnt, failed)
  BY DEF WorkerFails
<1>2. \A p \in proposal : /\ p.doc = d /\ Fair(p) /\ held[p.txn] = Nobody
                          /\ \A q \in proposal : p = q
  OBVIOUS
<1>3. failed \in BOOLEAN /\ \A m \in learnt : m[2] # NoReply
  OBVIOUS
<1> HIDE DEF proposal, learnt, failed
<1> QED  BY <1>1, <1>2, <1>3, FinishedKeeps

LEMMA AdjudicateKeeps ==
  ASSUME MatchInv, NEW d \in Docs, Adjudicate(d)
  PROVE  MatchInv'
<1> DEFINE In2(r1) == Dated(d, Amounts(d, r1))
           In3(r1, r2) == Kept(In2(r1), r2)
           New1(r1) == Learns(Question("amount", d, Shown(d)), r1)
           New2(r1, r2) == Learns(Question("date", d, In2(r1)), r2)
           New3(r1, r2, r3) == Learns(Question("final", d, In3(r1, r2)), r3)
           Unanswered(r1, r2, r3) ==
             \/ r1 = NoReply /\ AmountReplies(d) # {NoReply}
             \/ r2 = NoReply /\ DateReplies(In2(r1)) # {NoReply}
             \/ r3 = NoReply /\ FinalReplies(In3(r1, r2)) # {NoReply}
<1>a. \E r1 \in AmountReplies(d) : \E r2 \in DateReplies(In2(r1)) : \E r3 \in FinalReplies(In3(r1, r2)) :
        Finished(d, Picked(d, In3(r1, r2), r3), New1(r1) \cup New2(r1, r2) \cup New3(r1, r2, r3),
                 Unanswered(r1, r2, r3))
  BY DEF Adjudicate
<1>b. PICK r1 \in AmountReplies(d) : \E r2 \in DateReplies(In2(r1)) : \E r3 \in FinalReplies(In3(r1, r2)) :
        Finished(d, Picked(d, In3(r1, r2), r3), New1(r1) \cup New2(r1, r2) \cup New3(r1, r2, r3),
                 Unanswered(r1, r2, r3))
  BY <1>a
<1>c. PICK r2 \in DateReplies(In2(r1)) : \E r3 \in FinalReplies(In3(r1, r2)) :
        Finished(d, Picked(d, In3(r1, r2), r3), New1(r1) \cup New2(r1, r2) \cup New3(r1, r2, r3),
                 Unanswered(r1, r2, r3))
  BY <1>b
<1>1. PICK r3 \in FinalReplies(In3(r1, r2)) :
        Finished(d, Picked(d, In3(r1, r2), r3), New1(r1) \cup New2(r1, r2) \cup New3(r1, r2, r3),
                 Unanswered(r1, r2, r3))
  BY <1>c
<1> DEFINE S == In3(r1, r2)
           learnt == New1(r1) \cup New2(r1, r2) \cup New3(r1, r2, r3)
           failed == Unanswered(r1, r2, r3)
<1>2. S \in SUBSET Compatible(d)
  BY ChosenFrom
<1>3. \A q, r : \A m \in Learns(q, r) : m[2] # NoReply
  BY DEF Learns
<1>4. \A m \in learnt : m[2] # NoReply
  BY <1>3
<1>5. failed \in BOOLEAN
  OBVIOUS
<1>6. r3 \in FinalReplies(S)
  OBVIOUS
<1>7. Finished(d, Picked(d, S, r3), learnt, failed)
  BY <1>1
<1>8. d \in waiting /\ MatchTypeOK
  BY DEF Adjudicate, MatchInv
<1> HIDE DEF S, learnt, failed
<1>9. \A p \in Picked(d, S, r3) : /\ p.doc = d /\ Fair(p) /\ held[p.txn] = Nobody
                                  /\ \A q \in Picked(d, S, r3) : p = q
  BY <1>2, <1>6, <1>8, PickedIsFair
<1> QED  BY <1>4, <1>5, <1>7, <1>8, <1>9, FinishedKeeps

-----------------------------------------------------------------------------
(* The round is settled                                                    *)

(* What comes first by the first key that differs comes below.             *)
LEMMA BelowAt ==
  ASSUME NEW a1, NEW a2, NEW a3, NEW a4, NEW a5, NEW b1, NEW b2, NEW b3, NEW b4, NEW b5,
         \/ a1 < b1
         \/ a1 = b1 /\ a2 < b2
         \/ a1 = b1 /\ a2 = b2 /\ a3 < b3
         \/ a1 = b1 /\ a2 = b2 /\ a3 = b3 /\ a4 < b4
         \/ a1 = b1 /\ a2 = b2 /\ a3 = b3 /\ a4 = b4 /\ a5 < b5
  PROVE  Below(<<a1, a2, a3, a4, a5>>, <<b1, b2, b3, b4, b5>>)
<1> DEFINE k == <<a1, a2, a3, a4, a5>>
           l == <<b1, b2, b3, b4, b5>>
<1>1. /\ k[1] = a1 /\ k[2] = a2 /\ k[3] = a3 /\ k[4] = a4 /\ k[5] = a5
      /\ l[1] = b1 /\ l[2] = b2 /\ l[3] = b3 /\ l[4] = b4 /\ l[5] = b5
  OBVIOUS
<1> HIDE DEF k, l
<1>2. CASE a1 < b1
  <2>1. \A j \in 1..(1 - 1) : k[j] = l[j]
    OBVIOUS
  <2> QED  BY <1>1, <1>2, <2>1 DEF Below, k, l
<1>3. CASE a1 = b1 /\ a2 < b2
  <2>1. \A j \in 1..(2 - 1) : k[j] = l[j]
    BY <1>1, <1>3
  <2>2. 2 \in 1..5 /\ k[2] < l[2]
    BY <1>1, <1>3
  <2> QED  BY <2>1, <2>2 DEF Below, k, l
<1>4. CASE a1 = b1 /\ a2 = b2 /\ a3 < b3
  <2>1. \A j \in 1..(3 - 1) : k[j] = l[j]
    BY <1>1, <1>4
  <2>2. 3 \in 1..5 /\ k[3] < l[3]
    BY <1>1, <1>4
  <2> QED  BY <2>1, <2>2 DEF Below, k, l
<1>5. CASE a1 = b1 /\ a2 = b2 /\ a3 = b3 /\ a4 < b4
  <2>1. \A j \in 1..(4 - 1) : k[j] = l[j]
    BY <1>1, <1>5
  <2>2. 4 \in 1..5 /\ k[4] < l[4]
    BY <1>1, <1>5
  <2> QED  BY <2>1, <2>2 DEF Below, k, l
<1>6. CASE a1 = b1 /\ a2 = b2 /\ a3 = b3 /\ a4 = b4 /\ a5 < b5
  <2>1. \A j \in 1..(5 - 1) : k[j] = l[j]
    BY <1>1, <1>6
  <2>2. 5 \in 1..5 /\ k[5] < l[5]
    BY <1>1, <1>6
  <2> QED  BY <2>1, <2>2 DEF Below, k, l
<1> QED  BY <1>2, <1>3, <1>4, <1>5, <1>6

(* A row that anyone proposed has a winner: the keys of two documents      *)
(* differ, so one proposal precedes all others.                            *)
LEMMA WinnerIsOn ==
  ASSUME MatchInv, NEW t \in Txns, On(t) # {}
  PROVE  Winner(t) \in On(t)
<1> DEFINE C == On(t)
           flag == [p \in C |-> IF p.flagged THEN 1 ELSE 0]
           short == [p \in C |-> 10000 - p.conf]
           amount == [p \in C |-> AmountScore(Doc(p.doc), Txn(p.txn))]
           off == [p \in C |-> 100 - amount[p]]
           gap == [p \in C |-> DateGap(Doc(p.doc), Txn(p.txn))]
           number == [p \in C |-> p.doc]
<1>1. /\ \A p \in C : p.doc \in Docs /\ p.txn \in Txns /\ p.conf \in Int /\ 10000 - p.conf \in Nat
      /\ \A p \in C, q \in C : p.doc = q.doc => p = q
  <2>1. C \subseteq claims /\ claims \subseteq Proposals
    BY DEF On, MatchInv, MatchTypeOK
  <2>2. \A p \in Proposals : p.doc \in Docs /\ p.txn \in Txns /\ p.conf \in Grades
    BY ProposalParts
  <2>3. \A n \in Grades : n \in Int /\ 10000 - n \in Nat
    BY DEF Grades
  <2>4. \A p \in claims, q \in claims : p.doc = q.doc => p = q
    BY DEF MatchInv, RoundInv
  <2> HIDE DEF C
  <2>5. \A p \in C : p.doc \in Docs /\ p.txn \in Txns /\ p.conf \in Grades
    BY ONLY <2>1, <2>2
  <2>6. \A p \in C : p.conf \in Int /\ 10000 - p.conf \in Nat
    BY <2>3, <2>5
  <2> QED  BY <2>1, <2>4, <2>5, <2>6
<1>2. amount \in [C -> 0..100]
  BY AmountScores
<1>3. flag \in [C -> Nat]
  OBVIOUS
<1>4. short \in [C -> Nat]
  BY <1>1
<1>5. off \in [C -> Nat]
  <2>1. \A p \in C : amount[p] \in 0..100
    BY <1>2
  <2> HIDE DEF amount
  <2>2. \A n \in 0..100 : 100 - n \in Nat
    OBVIOUS
  <2> QED  BY <2>1, <2>2
<1>6. gap \in [C -> Nat]
  <2>1. \A p \in C : book.papers[p.doc] \in Paper /\ Txn(p.txn) \in Row
    BY <1>1, BooksHold DEF MatchInv, Txn
  <2>2. \A p \in C : DateGap(Doc(p.doc), Txn(p.txn)) \in Nat
    BY <2>1, DateGaps DEF Doc
  <2> QED  BY <2>2
<1>7. number \in [C -> Nat]
  <2>1. Docs \subseteq Nat
    BY MatchingAssumption
  <2>2. ASSUME NEW p \in C
        PROVE  p.doc \in Nat
    <3>1. p.doc \in Docs
      BY <1>1
    <3> QED  BY <2>1, <3>1
  <2> QED  BY <2>2
<1>8. \A p \in C : Key(p) = <<flag[p], -p.conf, -amount[p], gap[p], number[p]>>
  BY DEF Key
<1>9. \A p \in C : p.conf \in Int /\ amount[p] \in Int /\ short[p] = 10000 - p.conf /\ off[p] = 100 - amount[p]
  <2>1. \A p \in C : p.conf \in Int
    BY <1>1
  <2>2. \A p \in C : amount[p] \in Int
    BY <1>2
  <2> QED  BY <2>1, <2>2
<1>10. \A p \in C, q \in C : number[p] = number[q] => p = q
  BY <1>1
<1> HIDE DEF C, flag, short, amount, off, gap, number
<1>11. C # {}
  BY DEF C
<1>12. PICK D1 \in SUBSET C : D1 # {} /\ \A p \in D1, q \in C : flag[p] <= flag[q] /\ (flag[q] = flag[p] => q \in D1)
  BY <1>3, <1>11, FirstBy
<1>13. PICK D2 \in SUBSET D1 : D2 # {} /\ \A p \in D2, q \in D1 : short[p] <= short[q] /\ (short[q] = short[p] => q \in D2)
  <2> DEFINE f == [p \in D1 |-> short[p]]
  <2>1. f \in [D1 -> Nat] /\ \A p \in D1 : f[p] = short[p]
    BY <1>4, <1>12
  <2> HIDE DEF f
  <2>2. PICK D \in SUBSET D1 : D # {} /\ \A p \in D, q \in D1 : f[p] <= f[q] /\ (f[q] = f[p] => q \in D)
    BY <1>12, <2>1, FirstBy
  <2> QED  BY <2>1, <2>2
<1>14. PICK D3 \in SUBSET D2 : D3 # {} /\ \A p \in D3, q \in D2 : off[p] <= off[q] /\ (off[q] = off[p] => q \in D3)
  <2> DEFINE f == [p \in D2 |-> off[p]]
  <2>1. f \in [D2 -> Nat] /\ \A p \in D2 : f[p] = off[p]
    BY <1>5, <1>12, <1>13
  <2> HIDE DEF f
  <2>2. PICK D \in SUBSET D2 : D # {} /\ \A p \in D, q \in D2 : f[p] <= f[q] /\ (f[q] = f[p] => q \in D)
    BY <1>13, <2>1, FirstBy
  <2> QED  BY <2>1, <2>2
<1>15. PICK D4 \in SUBSET D3 : D4 # {} /\ \A p \in D4, q \in D3 : gap[p] <= gap[q] /\ (gap[q] = gap[p] => q \in D4)
  <2> DEFINE f == [p \in D3 |-> gap[p]]
  <2>1. f \in [D3 -> Nat] /\ \A p \in D3 : f[p] = gap[p]
    BY <1>6, <1>12, <1>13, <1>14
  <2> HIDE DEF f
  <2>2. PICK D \in SUBSET D3 : D # {} /\ \A p \in D, q \in D3 : f[p] <= f[q] /\ (f[q] = f[p] => q \in D)
    BY <1>14, <2>1, FirstBy
  <2> QED  BY <2>1, <2>2
<1>16. PICK D5 \in SUBSET D4 : D5 # {} /\ \A p \in D5, q \in D4 : number[p] <= number[q] /\ (number[q] = number[p] => q \in D5)
  <2> DEFINE f == [p \in D4 |-> number[p]]
  <2>1. f \in [D4 -> Nat] /\ \A p \in D4 : f[p] = number[p]
    BY <1>7, <1>12, <1>13, <1>14, <1>15
  <2> HIDE DEF f
  <2>2. PICK D \in SUBSET D4 : D # {} /\ \A p \in D, q \in D4 : f[p] <= f[q] /\ (f[q] = f[p] => q \in D)
    BY <1>15, <2>1, FirstBy
  <2> QED  BY <2>1, <2>2
<1>17. PICK p \in D5 : TRUE
  BY <1>16
<1>18. p \in D1 /\ p \in D2 /\ p \in D3 /\ p \in D4 /\ p \in C
  BY <1>12, <1>13, <1>14, <1>15, <1>16, <1>17
<1>19. ASSUME NEW q \in C, q # p
       PROVE  Precedes(p, q)
  <2>1. /\ flag[p] \in Nat /\ flag[q] \in Nat /\ gap[p] \in Nat /\ gap[q] \in Nat
        /\ number[p] \in Nat /\ number[q] \in Nat /\ number[p] # number[q]
    BY <1>3, <1>6, <1>7, <1>10, <1>18, <1>19
  <2>2. flag[p] <= flag[q] /\ (flag[q] = flag[p] => q \in D1)
    BY <1>12, <1>18
  <2>3. q \in D1 => -p.conf <= -q.conf /\ (p.conf = q.conf => q \in D2)
    BY <1>9, <1>13, <1>18
  <2>4. q \in D2 => -amount[p] <= -amount[q] /\ (amount[p] = amount[q] => q \in D3)
    BY <1>9, <1>14, <1>18
  <2>5. q \in D3 => gap[p] <= gap[q] /\ (gap[q] = gap[p] => q \in D4)
    BY <1>15, <1>18
  <2>6. q \in D4 => number[p] <= number[q]
    BY <1>16, <1>17
  <2>7. p.conf \in Int /\ q.conf \in Int /\ amount[p] \in Int /\ amount[q] \in Int
    BY <1>9, <1>18
  <2>8. \/ flag[p] < flag[q]
        \/ flag[p] = flag[q] /\ -p.conf < -q.conf
        \/ flag[p] = flag[q] /\ -p.conf = -q.conf /\ -amount[p] < -amount[q]
        \/ flag[p] = flag[q] /\ -p.conf = -q.conf /\ -amount[p] = -amount[q] /\ gap[p] < gap[q]
        \/ flag[p] = flag[q] /\ -p.conf = -q.conf /\ -amount[p] = -amount[q] /\ gap[p] = gap[q]
             /\ number[p] < number[q]
    BY <2>1, <2>2, <2>3, <2>4, <2>5, <2>6, <2>7
  <2>9. Below(<<flag[p], -p.conf, -amount[p], gap[p], number[p]>>,
              <<flag[q], -q.conf, -amount[q], gap[q], number[q]>>)
    BY <2>8, BelowAt
  <2> QED  BY <1>8, <1>18, <2>9 DEF Precedes
<1>20. p \in On(t) /\ \A q \in On(t) : q = p \/ Precedes(p, q)
  BY <1>18, <1>19 DEF C
<1> QED  BY <1>20 DEF Winner

(* Who holds the rows after a round: a winner among this round's proposals *)
(* for a row that was free, and else whoever held it.                      *)
LEMMA ResolvedHolds ==
  ASSUME MatchInv
  PROVE  \A t \in Txns : \/ /\ Resolved[t] \in claims /\ Resolved[t].txn = t /\ held[t] = Nobody
                         \/ Resolved[t] = held[t]
<1> SUFFICES ASSUME NEW t \in Txns
             PROVE  \/ /\ Resolved[t] \in claims /\ Resolved[t].txn = t /\ held[t] = Nobody
                    \/ Resolved[t] = held[t]
  OBVIOUS
<1>1. CASE On(t) # {}
  <2>1. Resolved[t] = Winner(t) /\ Winner(t) \in On(t)
    BY <1>1, WinnerIsOn DEF Resolved
  <2> QED  BY <2>1 DEF On, MatchInv, RoundInv
<1>2. CASE On(t) = {}
  BY <1>2 DEF Resolved
<1> QED  BY <1>1, <1>2

(* A row that is held has no proposals, so its holder stays.               *)
LEMMA HolderStays ==
  ASSUME MatchInv, NEW t \in HeldRows
  PROVE  Resolved[t] = held[t]
<1>1. t \in Txns /\ held[t] # Nobody
  BY DEF HeldRows
<1> QED  BY <1>1, ResolvedHolds

LEMMA ResolveKeeps ==
  ASSUME MatchInv, Resolve
  PROVE  MatchInv'
<1>1. /\ round > 0 /\ waiting = {} /\ held' = Resolved /\ claims' = {}
      /\ UNCHANGED <<book, rejected, memory, previous, spoilt, runs>>
  BY DEF Resolve
<1>2. \/ /\ round' = round + 1 /\ waiting' = LooksAgain /\ round < MaxRounds
      \/ round' = 0 /\ waiting' = {}
  BY DEF Resolve, More
<1>3. \A p : Fair(p) <=> Fair(p)'
  BY <1>1, FairStays
<1>4. \A t \in Txns : \/ /\ Resolved[t] \in claims /\ Resolved[t].txn = t /\ held[t] = Nobody
                      \/ Resolved[t] = held[t]
  BY ResolvedHolds
<1>5. round \in 0..MaxRounds /\ MaxRounds \in Nat \ {0} /\ runs # 0
  BY <1>1, MatchingAssumption DEF MatchInv, MatchTypeOK, RoundInv
<1>6. round' \in 0..MaxRounds /\ (round' = 0 => waiting' = {} /\ claims' = {})
  BY <1>1, <1>2, <1>5
<1>7. waiting' \subseteq Docs
  <2>1. \A p \in claims : p.doc \in Docs
    BY ProposalParts DEF MatchInv, MatchTypeOK
  <2> QED  BY <1>2, <2>1 DEF LooksAgain, Losers
<1>8. \A t \in Txns : Resolved[t].doc \notin waiting'
  BY <1>2 DEF LooksAgain
<1>9. held' \in [Txns -> Proposals \cup {Nobody}]
  <2>1. claims \subseteq Proposals /\ held \in [Txns -> Proposals \cup {Nobody}]
    BY DEF MatchInv, MatchTypeOK
  <2>2. \A t \in Txns : Resolved[t] \in Proposals \cup {Nobody}
    BY <1>4, <2>1
  <2> QED  BY <1>1, <2>2 DEF Resolved
<1>10. MatchTypeOK'
  BY <1>1, <1>6, <1>7, <1>9 DEF MatchInv, MatchTypeOK, NoReply
<1>11. \A t \in HeldRows' : /\ t \in Txns
                            /\ \/ Resolved[t] \in claims /\ Resolved[t].txn = t /\ held[t] = Nobody
                               \/ Resolved[t] = held[t] /\ t \in HeldRows
  BY <1>1, <1>4 DEF HeldRows, Nobody
<1>12. ASSUME NEW t \in HeldRows'
       PROVE  /\ Fair(held[t])' /\ held'[t].txn = t /\ held'[t].doc \notin waiting'
              /\ \A u \in HeldRows' : u # t => held'[u].doc # held'[t].doc
  <2>1. Fair(Resolved[t]) /\ Resolved[t].txn = t
    BY <1>11, <1>12 DEF MatchInv, RoundInv
  <2>2. Fair(held[t])'
    BY <1>1, <1>3, <2>1
  <2>3. ASSUME NEW u \in HeldRows', u # t
        PROVE  Resolved[u].doc # Resolved[t].doc
    <3>1. Resolved[u].txn = u
      BY <1>11, <2>3 DEF MatchInv, RoundInv
    <3>2. CASE Resolved[t] \in claims /\ Resolved[u] \in claims
      BY <2>1, <2>3, <3>1, <3>2 DEF MatchInv, RoundInv
    <3>3. CASE Resolved[t] \in claims /\ Resolved[u] = held[u] /\ u \in HeldRows
      BY <3>3 DEF MatchInv, RoundInv
    <3>4. CASE Resolved[u] \in claims /\ Resolved[t] = held[t] /\ t \in HeldRows
      BY <3>4 DEF MatchInv, RoundInv
    <3>5. CASE Resolved[u] = held[u] /\ u \in HeldRows /\ Resolved[t] = held[t] /\ t \in HeldRows
      BY <2>3, <3>5 DEF MatchInv, RoundInv
    <3> QED  BY <1>11, <1>12, <2>3, <3>2, <3>3, <3>4, <3>5
  <2>4. held'[t].doc \notin waiting'
    BY <1>1, <1>8, <1>11, <1>12
  <2> QED  BY <1>1, <2>1, <2>2, <2>3, <2>4
<1> QED  BY <1>1, <1>5, <1>6, <1>10, <1>12 DEF MatchInv, RoundInv

(* A new run begins with every row free.                                   *)
LEMMA BegunKeeps ==
  ASSUME MatchInv, round = 0, round' = 1, waiting' = Eligible, runs' \in {1, 2},
         \A t \in Txns : held'[t] = Nobody, held' \in [Txns -> Proposals \cup {Nobody}],
         rejected' \in SUBSET (Docs \X Txns), spoilt' \in BOOLEAN,
         UNCHANGED <<book, claims, memory>>
  PROVE  MatchInv'
<1>1. claims' = {} /\ runs' # 0
  BY DEF MatchInv, RoundInv
<1>4. HeldRows' = {}
  BY DEF HeldRows, Nobody
<1>2. Eligible \subseteq Docs /\ MaxRounds \in Nat \ {0}
  BY MatchingAssumption DEF Eligible
<1>3. MatchTypeOK'
  BY <1>1, <1>2 DEF MatchInv, MatchTypeOK, NoReply
<1> QED  BY <1>1, <1>3, <1>4 DEF MatchInv, RoundInv

LEMMA StartRunKeeps ==
  ASSUME MatchInv, StartRun
  PROVE  MatchInv'
<1>1. \A t \in Txns : held'[t] = Nobody
  BY DEF StartRun, MatchInv, RoundInv, HeldRows
<1> QED  BY <1>1, BegunKeeps DEF StartRun, Idle, MatchInv, MatchTypeOK

LEMMA ResetKeeps ==
  ASSUME MatchInv, Reset
  PROVE  MatchInv'
<1>1. held' \in [Txns -> Proposals \cup {Nobody}] /\ \A t \in Txns : held'[t] = Nobody
  BY DEF Reset
<1> QED  BY <1>1, BegunKeeps DEF Reset, Idle, MatchInv, MatchTypeOK

LEMMA RejectKeeps ==
  ASSUME MatchInv, NEW t \in Txns, Reject(t)
  PROVE  MatchInv'
<1> DEFINE Stays == Settled(t)
<1>1. /\ Stays \in SUBSET HeldRows /\ t \notin Stays /\ HeldRows \in SUBSET Txns
      /\ held' = [u \in Txns |-> IF u \in Stays THEN held[u] ELSE Nobody]
      /\ waiting' = Eligible \ {held[u].doc : u \in Stays}
  BY DEF Reject, Settled, HeldRows
<1>2. held[t].doc \in Docs
  <2>1. held[t] \in Proposals
    BY DEF Reject, MatchInv, MatchTypeOK
  <2> QED  BY ONLY <2>1, ProposalParts
<1>3. rejected' = rejected \cup {<<held[t].doc, t>>} /\ rejected' \in SUBSET (Docs \X Txns)
  BY <1>2 DEF Reject, MatchInv, MatchTypeOK
<1>4. /\ round' = 1 /\ runs' = 2 /\ claims' = {} /\ spoilt' = TRUE
      /\ UNCHANGED <<book, memory>>
  BY DEF Reject, Idle, MatchInv, RoundInv
<1> HIDE DEF Stays
<1>5. HeldRows' = Stays
  <2>1. \A u \in Txns : held'[u] # Nobody <=> u \in Stays
    BY <1>1 DEF HeldRows
  <2>2. HeldRows' = {u \in Txns : held'[u] # Nobody}
    BY DEF HeldRows, Nobody
  <2> QED  BY <1>1, <2>1, <2>2
<1>6. \A u \in Stays : held'[u] = held[u]
  BY <1>1
<1>7. MatchTypeOK'
  <2>1. held' \in [Txns -> Proposals \cup {Nobody}]
    BY <1>1 DEF MatchInv, MatchTypeOK
  <2>2. waiting' \subseteq Docs /\ MaxRounds \in Nat \ {0}
    BY <1>1, MatchingAssumption DEF Eligible
  <2> QED  BY <1>3, <1>4, <2>1, <2>2 DEF MatchInv, MatchTypeOK, NoReply, Nobody
<1>8. ASSUME NEW u \in Stays
      PROVE  /\ Fair(held[u])' /\ held'[u].txn = u /\ held'[u].doc \notin waiting'
             /\ \A v \in Stays : v # u => held'[v].doc # held'[u].doc
  <2>1. /\ u \in HeldRows /\ Fair(held[u]) /\ held[u].txn = u
        /\ \A v \in HeldRows : v # u => held[v].doc # held[u].doc
    BY <1>1 DEF MatchInv, RoundInv
  <2>2. <<held[u].doc, held[u].txn>> \notin rejected'
    BY <1>1, <1>3, <2>1 DEF Fair
  <2>3. Fair(held[u])'
    <3>1. held'[u] = held[u]
      BY <1>6
    <3> QED  BY <1>4, <2>1, <2>2, <3>1 DEF Fair, Doc, Txn
  <2>4. held'[u].doc \notin waiting'
    BY <1>1, <1>6
  <2> QED  BY <1>1, <1>6, <2>1, <2>3, <2>4
<1>9. RoundInv'
  BY <1>4, <1>5, <1>8 DEF RoundInv
<1> QED  BY <1>7, <1>9 DEF MatchInv

-----------------------------------------------------------------------------
(* Theorems                                                                *)

(* However the workers interleave and whatever the agents answer, every    *)
(* proposal and every holder is fair, and a document is at work, has made  *)
(* its one proposal or holds one row (_TxnClaims, held_doc_ids).           *)
THEOREM MatchInvariant == MatchSpec => []MatchInv
<1>1. MatchInit => MatchInv
  <2> SUFFICES ASSUME MatchInit
               PROVE  MatchInv
    OBVIOUS
  <2>1. HeldRows = {}
    BY DEF MatchInit, HeldRows
  <2>2. held \in [Txns -> Proposals \cup {Nobody}] /\ MaxRounds \in Nat \ {0}
    BY MatchingAssumption DEF MatchInit
  <2>3. round \in 0..MaxRounds /\ runs \in 0..2 /\ spoilt \in BOOLEAN
    <3>1. round = 0 /\ runs = 0 /\ spoilt = FALSE
      BY DEF MatchInit
    <3>2. 0 \in 0..MaxRounds /\ 0 \in 0..2
      BY <2>2
    <3> QED  BY <3>1, <3>2, Zenon
  <2>4. /\ book \in Books /\ rejected \subseteq Docs \X Txns /\ waiting \subseteq Docs
        /\ claims \subseteq Proposals /\ \A m \in memory : m[2] # NoReply
    BY DEF MatchInit
  <2>5. MatchTypeOK
    BY <2>2, <2>3, <2>4 DEF MatchTypeOK
  <2> QED  BY <2>1, <2>5 DEF MatchInit, MatchInv, RoundInv
<1>2. MatchInv /\ [MatchNext]_matching => MatchInv'
  <2> SUFFICES ASSUME MatchInv, [MatchNext]_matching
               PROVE  MatchInv'
    OBVIOUS
  <2>1. ASSUME NEW d \in Docs, Settle(d)
        PROVE  MatchInv'
    BY <2>1, SettleKeeps
  <2>2. ASSUME NEW d \in Docs, Adjudicate(d)
        PROVE  MatchInv'
    BY <2>2, AdjudicateKeeps
  <2>3. ASSUME NEW d \in Docs, WorkerFails(d)
        PROVE  MatchInv'
    BY <2>3, WorkerFailsKeeps
  <2>4. CASE Resolve
    BY <2>4, ResolveKeeps
  <2>5. CASE StartRun
    BY <2>5, StartRunKeeps
  <2>6. CASE Reset
    BY <2>6, ResetKeeps
  <2>7. ASSUME NEW t \in Txns, Reject(t)
        PROVE  MatchInv'
    BY <2>7, RejectKeeps
  <2>8. CASE UNCHANGED matching
    <3>1. UNCHANGED <<book, rejected, round, waiting, claims, held, memory, spoilt, runs>>
      BY <2>8 DEF matching
    <3>2. \A p : Fair(p) <=> Fair(p)'
      BY <3>1, FairStays
    <3>3. HeldRows' = HeldRows
      BY <3>1 DEF HeldRows, Nobody
    <3>4. MatchTypeOK'
      BY <3>1 DEF MatchInv, MatchTypeOK, NoReply
    <3> QED  BY <3>1, <3>2, <3>3, <3>4 DEF MatchInv, RoundInv, Nobody
  <2> QED  BY <2>1, <2>2, <2>3, <2>4, <2>5, <2>6, <2>7, <2>8 DEF MatchNext
<1> QED  BY <1>1, <1>2, PTL DEF MatchSpec

-----------------------------------------------------------------------------
(* What a proposal stands on                                               *)

(* It is for a row that was near enough to be shown, with the confidence   *)
(* of the scores or of an answer that is in m, what is remembered.         *)
Backed(m, p) ==
  /\ NearEnough(Doc(p.doc), Txn(p.txn))
  /\ \/ p.conf = Confidence(Doc(p.doc), Txn(p.txn))
     \/ \E k \in m : k[1][1] = "final" /\ k[1][2] = p.doc /\ k[2] = Says({<<p.txn, p.conf>>})

BackedInv == (\A p \in claims : Backed(memory, p)) /\ (\A t \in HeldRows : Backed(memory, held[t]))

LEMMA BackedGrows ==
  ASSUME NEW m, NEW n, m \subseteq n
  PROVE  \A p : Backed(m, p) => Backed(n, p)
BY DEF Backed

LEMMA BackedStays ==
  ASSUME UNCHANGED book
  PROVE  \A p : Backed(memory', p) <=> Backed(memory, p)'
BY DEF Backed, Doc, Txn

(* What the agents leave of the rows was shown to them, or shortlisted.    *)
LEMMA ChosenNear ==
  ASSUME NEW d \in Docs, NEW r1 \in AmountReplies(d),
         NEW r2 \in DateReplies(Dated(d, Amounts(d, r1))),
         NEW t \in Kept(Dated(d, Amounts(d, r1)), r2)
  PROVE  NearEnough(Doc(d), Txn(t))
<1>1. \A u \in Shown(d) \cup Shortlist(d) : NearEnough(Doc(d), Txn(u))
  BY DEF Shown, Shortlist, NearEnough
<1>2. Amounts(d, r1) \in SUBSET (Shown(d) \cup Shortlist(d))
  <2>1. r1 = NoReply \/ r1[1] \in SUBSET Shown(d)
    BY DEF AmountReplies, Says
  <2> QED  BY <2>1 DEF Amounts
<1> DEFINE S == Dated(d, Amounts(d, r1))
<1>3. S \in SUBSET (Shown(d) \cup Shortlist(d))
  BY <1>2 DEF Dated
<1> HIDE DEF S
<1>4. r2 \in DateReplies(S) /\ t \in Kept(S, r2)
  BY DEF S
<1>5. r2 = NoReply \/ r2[1] \in SUBSET S
  BY <1>4 DEF DateReplies, Says
<1>6. t \in S
  BY <1>4, <1>5 DEF Kept
<1> QED  BY <1>1, <1>3, <1>6

(* What is picked is backed once the answer is remembered.                 *)
LEMMA PickedIsBacked ==
  ASSUME MatchTypeOK, NEW d \in Docs, NEW S \in SUBSET Compatible(d), NEW r \in FinalReplies(S) \cup {NoReply},
         \A t \in S : NearEnough(Doc(d), Txn(t)),
         NEW m, r # NoReply => <<Question("final", d, S), r>> \in m
  PROVE  \A p \in Picked(d, S, r) : Backed(m, p)
<1>1. S \in SUBSET Txns
  BY DEF Compatible, Pool
<1>2. \A t, conf : LET p == Proposal(d, t, conf) IN p.doc = d /\ p.txn = t /\ p.conf = conf
  BY DEF Proposal
<1>4. CASE S = {} \/ r = Says({})
  <2>1. Picked(d, S, r) = {}
    BY <1>4 DEF Picked, Says, NoReply
  <2> QED  BY <2>1
<1>5. CASE S # {} /\ r = NoReply
  <2> DEFINE best == Deterministic(d, S)
             p == Proposal(d, best, Confidence(Doc(d), Txn(best)))
  <2>1. Picked(d, S, r) = {p}
    BY <1>5 DEF Picked, Says, NoReply
  <2>2. best \in S
    BY <1>1, <1>5, DeterministicIsIn
  <2>3. p.doc = d /\ p.txn = best /\ p.conf = Confidence(Doc(d), Txn(best))
    BY <1>2
  <2> HIDE DEF p, best
  <2>4. Backed(m, p)
    BY <2>2, <2>3 DEF Backed
  <2> QED  BY <2>1, <2>4
<1>6. CASE S # {} /\ r # NoReply /\ r # Says({})
  <2>1. PICK t \in S, label \in Labels : r = Says({<<t, label>>})
    BY <1>6 DEF FinalReplies
  <2> DEFINE p == Proposal(d, t, label)
             k == <<Question("final", d, S), r>>
  <2>2. Picked(d, S, r) = {p}
    <3>1. Picked(d, S, r) = {Proposal(d, choice[1], choice[2]) : choice \in r[1]}
      BY <1>6 DEF Picked
    <3> QED  BY <2>1, <3>1 DEF Says
  <2>3. p.doc = d /\ p.txn = t /\ p.conf = label
    BY <1>2
  <2>4. k \in m /\ k[1][1] = "final" /\ k[1][2] = d /\ k[2] = r
    BY <1>6 DEF Question
  <2> HIDE DEF p, k
  <2>5. k[2] = Says({<<p.txn, p.conf>>})
    BY <2>1, <2>3, <2>4
  <2>6. Backed(m, p)
    BY <2>3, <2>4, <2>5 DEF Backed
  <2> QED  BY <2>2, <2>6
<1> QED  BY <1>4, <1>5, <1>6

LEMMA FinishedBacked ==
  ASSUME BackedInv, NEW d, NEW proposal, NEW learnt, NEW failed,
         Finished(d, proposal, learnt, failed), \A p \in proposal : Backed(memory', p)
  PROVE  BackedInv'
<1>1. /\ claims' = claims \cup proposal /\ memory \subseteq memory'
      /\ held' = held /\ UNCHANGED book
  BY DEF Finished, Proposed
<1>2. HeldRows' = HeldRows
  BY <1>1 DEF HeldRows, Nobody
<1>3. (\A p \in claims' : Backed(memory', p)) /\ (\A t \in HeldRows' : Backed(memory', held'[t]))
  BY <1>1, <1>2, BackedGrows DEF BackedInv
<1> QED  BY <1>1, <1>3, BackedStays DEF BackedInv

LEMMA WorkerBacked ==
  ASSUME MatchInv, BackedInv, NEW d \in Docs, Settle(d) \/ Adjudicate(d) \/ WorkerFails(d)
  PROVE  BackedInv'
<1>0. MatchTypeOK
  BY DEF MatchInv
<1>1. CASE Settle(d)
  <2>1. Finished(d, Picked(d, Shortlist(d), NoReply), {}, FALSE)
    BY <1>1 DEF Settle
  <2>2. Shortlist(d) \in SUBSET Compatible(d) /\ \A t \in Shortlist(d) : NearEnough(Doc(d), Txn(t))
    BY DEF Shortlist, NearEnough
  <2>4. \A p \in Picked(d, Shortlist(d), NoReply) : Backed(memory', p)
    <3>1. NoReply \in FinalReplies(Shortlist(d)) \cup {NoReply}
      OBVIOUS
    <3> QED  BY <1>0, <2>2, <3>1, PickedIsBacked
  <2> QED  BY <2>1, <2>4, FinishedBacked
<1>2. CASE Adjudicate(d)
  <2> DEFINE In2(r1) == Dated(d, Amounts(d, r1))
             In3(r1, r2) == Kept(In2(r1), r2)
             New1(r1) == Learns(Question("amount", d, Shown(d)), r1)
             New2(r1, r2) == Learns(Question("date", d, In2(r1)), r2)
             New3(r1, r2, r3) == Learns(Question("final", d, In3(r1, r2)), r3)
             Unanswered(r1, r2, r3) ==
               \/ r1 = NoReply /\ AmountReplies(d) # {NoReply}
               \/ r2 = NoReply /\ DateReplies(In2(r1)) # {NoReply}
               \/ r3 = NoReply /\ FinalReplies(In3(r1, r2)) # {NoReply}
             Ends(r1, r2, r3) ==
               /\ Reply(Question("final", d, In3(r1, r2)), r3)
               /\ Finished(d, Picked(d, In3(r1, r2), r3), New1(r1) \cup New2(r1, r2) \cup New3(r1, r2, r3),
                           Unanswered(r1, r2, r3))
  <2>1. \E r1 \in AmountReplies(d) : \E r2 \in DateReplies(In2(r1)) : \E r3 \in FinalReplies(In3(r1, r2)) :
          Ends(r1, r2, r3)
    BY <1>2 DEF Adjudicate
  <2>2. PICK r1 \in AmountReplies(d) : \E r2 \in DateReplies(In2(r1)) : \E r3 \in FinalReplies(In3(r1, r2)) :
          Ends(r1, r2, r3)
    BY <2>1
  <2>3. PICK r2 \in DateReplies(In2(r1)) : \E r3 \in FinalReplies(In3(r1, r2)) : Ends(r1, r2, r3)
    BY <2>2
  <2>4. PICK r3 \in FinalReplies(In3(r1, r2)) : Ends(r1, r2, r3)
    BY <2>3
  <2> DEFINE S == In3(r1, r2)
             learnt == New1(r1) \cup New2(r1, r2) \cup New3(r1, r2, r3)
             failed == Unanswered(r1, r2, r3)
             q == Question("final", d, S)
  <2>5. S \in SUBSET Compatible(d) /\ r3 \in FinalReplies(S)
    BY ChosenFrom
  <2>6. \A t \in S : NearEnough(Doc(d), Txn(t))
    BY ChosenNear
  <2>7. Reply(q, r3) /\ Finished(d, Picked(d, S, r3), learnt, failed)
    BY <2>4
  <2>8. Learns(q, r3) \in SUBSET learnt
    OBVIOUS
  <2> HIDE DEF S, q, learnt, failed
  <2>9. memory' = memory \cup learnt
    BY <2>7 DEF Finished
  <2>10. r3 # NoReply => <<q, r3>> \in memory'
    BY <2>8, <2>9 DEF Learns
  <2>11. r3 # NoReply => <<Question("final", d, S), r3>> \in memory'
    BY <2>10 DEF q
  <2>12. \A p \in Picked(d, S, r3) : Backed(memory', p)
    BY <1>0, <2>5, <2>6, <2>11, PickedIsBacked
  <2> QED  BY <2>7, <2>12, FinishedBacked
<1>3. CASE WorkerFails(d)
  <2> DEFINE proposal == {}
             learnt == {}
             failed == TRUE
  <2>1. Finished(d, proposal, learnt, failed)
    BY <1>3 DEF WorkerFails
  <2>2. \A p \in proposal : Backed(memory', p)
    OBVIOUS
  <2> HIDE DEF proposal, learnt, failed
  <2> QED  BY <2>1, <2>2, FinishedBacked
<1> QED  BY <1>1, <1>2, <1>3

LEMMA ResolveBacked ==
  ASSUME MatchInv, BackedInv, Resolve
  PROVE  BackedInv'
<1>1. held' = Resolved /\ claims' = {} /\ UNCHANGED <<book, memory>>
  BY DEF Resolve
<1>2. ASSUME NEW t \in HeldRows'
      PROVE  Backed(memory', held'[t])
  <2>1. t \in Txns /\ Resolved[t] # Nobody
    BY <1>1, <1>2 DEF HeldRows, Nobody
  <2>2. Resolved[t] \in claims \/ Resolved[t] = held[t]
    BY <2>1, ResolvedHolds
  <2>3. Backed(memory, Resolved[t])
    BY <2>1, <2>2 DEF BackedInv, HeldRows
  <2> QED  BY <1>1, <2>3
<1> QED  BY <1>1, <1>2, BackedStays DEF BackedInv

(* Every proposal and every holder stays backed, whatever is answered.     *)
THEOREM BackedInvariant == MatchSpec => []BackedInv
<1>1. MatchInit => BackedInv
  BY DEF MatchInit, BackedInv, HeldRows
<1>2. MatchInv /\ BackedInv /\ [MatchNext]_matching => BackedInv'
  <2> SUFFICES ASSUME MatchInv, BackedInv, [MatchNext]_matching
               PROVE  BackedInv'
    OBVIOUS
  <2>1. ASSUME NEW d \in Docs, Settle(d) \/ Adjudicate(d) \/ WorkerFails(d)
        PROVE  BackedInv'
    BY <2>1, WorkerBacked
  <2>2. CASE Resolve
    BY <2>2, ResolveBacked
  <2>3. CASE StartRun \/ UNCHANGED matching
    <3>1. UNCHANGED <<book, claims, held, memory>>
      BY <2>3 DEF StartRun, matching
    <3>2. HeldRows' = HeldRows
      BY <3>1 DEF HeldRows, Nobody
    <3>3. (\A p \in claims' : Backed(memory', p)) /\ (\A t \in HeldRows' : Backed(memory', held'[t]))
      BY <3>1, <3>2 DEF BackedInv
    <3> QED  BY <3>1, <3>3, BackedStays DEF BackedInv
  <2>4. CASE Reset
    <3>1. held' = [t \in Txns |-> Nobody] /\ claims' = claims /\ claims = {}
      BY <2>4 DEF Reset, Idle, MatchInv, RoundInv
    <3>2. HeldRows' = {} /\ claims' = {}
      BY <3>1 DEF HeldRows, Nobody
    <3> QED  BY <3>2 DEF BackedInv
  <2>5. ASSUME NEW t \in Txns, Reject(t)
        PROVE  BackedInv'
    <3>1. claims' = {} /\ UNCHANGED <<book, memory>>
      BY <2>5 DEF Reject, Idle, MatchInv, RoundInv
    <3>2. \A u \in HeldRows' : u \in HeldRows /\ held'[u] = held[u]
      BY <2>5 DEF Reject, Settled, HeldRows, Nobody
    <3>3. (\A p \in claims' : Backed(memory', p)) /\ (\A u \in HeldRows' : Backed(memory', held'[u]))
      BY <3>1, <3>2 DEF BackedInv
    <3> QED  BY <3>1, <3>3, BackedStays DEF BackedInv
  <2> QED  BY <2>1, <2>2, <2>3, <2>4, <2>5 DEF MatchNext
<1> QED  BY <1>1, <1>2, MatchInvariant, PTL DEF MatchSpec

LEMMA FloorMet ==
  ASSUME NEW e, NEW u, NEW n, ~(n < Floor), n = Confidence(e, u)
  PROVE  Confidence(e, u) >= Floor
<1>1. n \in 0..10000
  <2>1. Confidence(e, u) \in 0..10000
    BY Confidences
  <2> QED  BY <2>1
<1>2. n >= Floor
  BY <1>1, ScoringAssumption
<1> QED  BY <1>2

(* A settled match that is no suggestion rests on the money; or it is of   *)
(* one currency, of a row near enough to be shown, and settled by an agent *)
(* or by day and name (classify_match, score_amount).                      *)
LEMMA EvidenceOfHolders == ASSUME MatchInv, BackedInv PROVE SettledOnEvidence
<1> SUFFICES ASSUME NEW t \in HeldRows, ~held[t].flagged
             PROVE  LET d == Doc(held[t].doc)
                    IN \/ AmountsAgree(d, Txn(t))
                       \/ /\ SameCurrency(Txn(t), ResolveDocumentCurrency(d)) /\ NearEnough(d, Txn(t))
                          /\ AgentChose(held[t]) \/ Confidence(d, Txn(t)) >= Floor
  BY DEF SettledOnEvidence
<1> DEFINE d == held[t].doc
<1>1. Fair(held[t]) /\ held[t].txn = t /\ t \in Txns
  BY DEF MatchInv, RoundInv, HeldRows
<1>2. d \in Docs
  BY <1>1, ProposalParts DEF Fair
<1>3. book.papers[d] \in Paper /\ Txn(t) \in Row
  BY <1>1, <1>2, BooksHold DEF MatchInv, Txn
<1>4. ~(AmountScore(Doc(d), Txn(t)) <= 5) /\ ~(held[t].conf < Floor)
  BY <1>1 DEF Fair, Flagged
<1>5. AmountScore(Doc(d), Txn(t)) > 5
  <2> DEFINE score == AmountScore(Doc(d), Txn(t))
  <2>1. score \in 0..100 /\ ~(score <= 5)
    BY <1>4, AmountScores
  <2> HIDE DEF score
  <2>2. score > 5
    BY <2>1
  <2> QED  BY <2>2 DEF score
<1>6. AmountScore(Document(book.papers[d]), Txn(t)) > 5
  BY <1>5 DEF Doc
<1>7. AmountsAgree(Doc(d), Txn(t)) \/ SameCurrency(Txn(t), ResolveDocumentCurrency(Doc(d)))
  BY <1>3, <1>6, ScoredAgrees DEF Doc
<1>8. Backed(memory, held[t])
  BY DEF BackedInv
<1>9. NearEnough(Doc(d), Txn(t)) /\ (held[t].conf = Confidence(Doc(d), Txn(t)) \/ AgentChose(held[t]))
  BY <1>1, <1>8 DEF Backed, AgentChose
<1>10. held[t].conf = Confidence(Doc(d), Txn(t)) => Confidence(Doc(d), Txn(t)) >= Floor
  BY <1>4, FloorMet
<1> QED  BY <1>7, <1>9, <1>10

(* A held row is of the document's own direction and, unless it is only a  *)
(* suggestion, names nobody else.                                          *)
LEMMA PartyOfHolders == ASSUME MatchInv PROVE RightParty
<1> SUFFICES ASSUME NEW t \in HeldRows
             PROVE  /\ book.rows[t].expense # book.papers[held[t].doc].income
                    /\ ~held[t].flagged => \/ book.rows[t].names \in {"", "rail"}
                                           \/ book.papers[held[t].doc].vendor \in {"", book.rows[t].names}
  BY DEF RightParty
<1> DEFINE d == held[t].doc
<1>1. Fair(held[t]) /\ held[t].txn = t
  BY DEF MatchInv, RoundInv
<1>2. Doc(d).income = book.papers[d].income /\ Doc(d).vendor = book.papers[d].vendor
  BY DEF Doc, Document
<1>3. SignCompatible(Doc(d), Txn(t))
  BY <1>1 DEF Fair
<1>4. ~held[t].flagged => ~Contradicts(Doc(d), Txn(t))
  BY <1>1 DEF Fair, Flagged
<1> QED  BY <1>2, <1>3, <1>4 DEF SignCompatible, Contradicts, Txn

(* For any books and any answers a run's matches stand on evidence: the    *)
(* money, or one currency and an agent's word or day and name for a row    *)
(* near enough to be shown; the party, one proof for one row, nothing the  *)
(* user has refused.                                                       *)
THEOREM MatchesAreEarnedHolds == MatchSpec => []MatchesAreEarned
<1>1. MatchInv /\ BackedInv => MatchesAreEarned
  <2> SUFFICES ASSUME MatchInv, BackedInv
               PROVE  MatchesAreEarned
    OBVIOUS
  <2>1. SettledOnEvidence /\ RightParty
    BY EvidenceOfHolders, PartyOfHolders
  <2>2. OneProofOneRow
    BY DEF OneProofOneRow, MatchInv, RoundInv
  <2>3. RejectedStaysOut
    BY DEF RejectedStaysOut, MatchInv, RoundInv, Fair
  <2> QED  BY <2>1, <2>2, <2>3 DEF MatchesAreEarned, MatchInv
<1> QED  BY <1>1, MatchInvariant, BackedInvariant, PTL

(* No later round takes a row from the proof that holds it: what the run   *)
(* still proposes is only for rows that are free.                          *)
THEOREM HeldIsKeptAlways == MatchSpec => HeldIsKept
<1>1. MatchInv /\ [MatchNext]_matching => [\A t \in HeldRows : round > 0 => held'[t] = held[t]]_matching
  <2> SUFFICES ASSUME MatchInv, MatchNext, NEW t \in HeldRows, round > 0
               PROVE  held'[t] = held[t]
    OBVIOUS
  <2>1. ASSUME NEW d \in Docs, Settle(d) \/ Adjudicate(d) \/ WorkerFails(d)
        PROVE  held' = held
    BY <2>1 DEF Settle, Adjudicate, WorkerFails, Finished
  <2>2. CASE Resolve
    BY <2>2, HolderStays DEF Resolve
  <2>3. CASE StartRun \/ Reset \/ \E u \in Txns : Reject(u)
    BY <2>3 DEF StartRun, Reset, Reject, Idle
  <2> QED  BY <2>1, <2>2, <2>3 DEF MatchNext
<1> QED  BY <1>1, MatchInvariant, PTL DEF MatchSpec, HeldIsKept

-----------------------------------------------------------------------------
(* Proofs that all fit all the rows                                        *)

(* The documents that hold a row                                           *)
Matched == {held[t].doc : t \in HeldRows}

(* While every question is answered and no agent says that nothing fits:   *)
(* in a round every document is at work, has made a proposal or holds a    *)
(* row; somebody works or has proposed; a row is free; and every round     *)
(* before this one gave away a row.                                        *)
Fitting ==
  /\ round > 0 =>
       /\ \A d \in Docs : d \in waiting \/ d \in Matched \/ \E p \in claims : p.doc = d
       /\ waiting # {} \/ claims # {}
       /\ HeldRows # Txns
       /\ round - 1 <= Cardinality(Matched)
  /\ round = 0 /\ runs > 0 /\ Cardinality(Docs) <= MaxRounds =>
       HeldRows = Txns \/ Docs \subseteq Matched

Fits == ~spoilt /\ AllFit /\ ~SaidNone /\ Docs # {} /\ Txns # {}

FitInv == (~spoilt => rejected = {}) /\ (Fits => Fitting)

LEMMA MatchedAreDocs ==
  ASSUME MatchInv
  PROVE  Matched \subseteq Docs /\ IsFiniteSet(Matched) /\ Cardinality(Matched) \in Nat
<1>1. ASSUME NEW t \in HeldRows
      PROVE  held[t].doc \in Docs
  <2>1. held[t] \in Proposals
    BY DEF MatchInv, RoundInv, Fair
  <2> QED  BY ONLY <2>1, ProposalParts
<1>2. IsFiniteSet(Docs)
  BY MatchingAssumption
<1>3. Matched \subseteq Docs
  BY <1>1 DEF Matched
<1> QED  BY <1>2, <1>3, FS_Subset, FS_CardinalityType

(* With a free row that fits, and no agent saying no, a worker that does   *)
(* not fail proposes a row.                                                *)
LEMMA SettledProposes ==
  ASSUME NEW d, Settle(d)
  PROVE  \E p \in claims' : p.doc = d
<1> DEFINE S == Shortlist(d)
           t == Deterministic(d, S)
           p == Proposal(d, t, Confidence(Doc(d), Txn(t)))
<1>1. S # {} /\ claims' = claims \cup Picked(d, S, NoReply)
  BY DEF Settle, Obvious, Finished, Proposed
<1>2. NoReply # Says({})
  BY DEF NoReply, Says
<1>3. Picked(d, S, NoReply) = {p}
  BY <1>1, <1>2 DEF Picked
<1>4. p.doc = d
  BY DEF Proposal
<1> QED  BY <1>1, <1>3, <1>4

LEMMA AdjudicatedProposes ==
  ASSUME MatchTypeOK, NEW d \in Docs, Adjudicate(d), rejected = {}, AllFit, ~SaidNone', HeldRows # Txns
  PROVE  \E p \in claims' : p.doc = d
<1> DEFINE In2(r1) == Dated(d, Amounts(d, r1))
           In3(r1, r2) == Kept(In2(r1), r2)
<1>a. \E r1 \in AmountReplies(d) : \E r2 \in DateReplies(In2(r1)) : \E r3 \in FinalReplies(In3(r1, r2)) :
        /\ claims' = claims \cup Picked(d, In3(r1, r2), r3)
        /\ Learns(Question("final", d, In3(r1, r2)), r3) \subseteq memory'
  BY DEF Adjudicate, Finished, Proposed
<1>b. PICK r1 \in AmountReplies(d) : \E r2 \in DateReplies(In2(r1)) : \E r3 \in FinalReplies(In3(r1, r2)) :
        /\ claims' = claims \cup Picked(d, In3(r1, r2), r3)
        /\ Learns(Question("final", d, In3(r1, r2)), r3) \subseteq memory'
  BY <1>a
<1> DEFINE S2 == In2(r1)
<1>c. PICK r2 \in DateReplies(S2) : \E r3 \in FinalReplies(Kept(S2, r2)) :
        /\ claims' = claims \cup Picked(d, Kept(S2, r2), r3)
        /\ Learns(Question("final", d, Kept(S2, r2)), r3) \subseteq memory'
  BY <1>b
<1> DEFINE S3 == Kept(S2, r2)
<1>d. PICK r3 \in FinalReplies(S3) :
        /\ claims' = claims \cup Picked(d, S3, r3)
        /\ Learns(Question("final", d, S3), r3) \subseteq memory'
  BY <1>c
<1>1. PICK u \in Txns : held[u] = Nobody
  BY DEF HeldRows
<1>2. u \in Compatible(d)
  BY <1>1 DEF Compatible, Pool, HeldRows, AllFit
<1>3. u \in Amounts(d, r1)
  BY <1>1, <1>2 DEF Shortlist, Amounts, AllFit
<1>4. S2 # {}
  BY <1>1, <1>3 DEF Dated, AllFit
<1> HIDE DEF S2
<1>5. S3 # {}
  <2>1. CASE r2 \in {NoReply, Says({})}
    BY <1>4, <2>1 DEF Kept
  <2>2. CASE r2 \notin {NoReply, Says({})}
    <3>1. \E R : r2 = Says(R)
      BY <2>2 DEF DateReplies
    <3>2. r2[1] # {}
      BY <2>2, <3>1 DEF Says
    <3> QED  BY <2>2, <3>2 DEF Kept
  <2> QED  BY <2>1, <2>2
<1> HIDE DEF S3
<1>6. r3 # Says({})
  <2> SUFFICES ASSUME r3 = Says({})
               PROVE  FALSE
    OBVIOUS
  <2> DEFINE m == <<Question("final", d, S3), Says({})>>
  <2>1. NoReply # Says({})
    BY DEF NoReply, Says
  <2>2. m \in memory'
    BY <1>d, <2>1 DEF Learns
  <2>3. m[1][1] = "final" /\ m[2] = Says({})
    BY DEF Question
  <2> HIDE DEF m
  <2> QED  BY <2>2, <2>3 DEF SaidNone
<1>7. \E p \in Picked(d, S3, r3) : p.doc = d
  <2>1. CASE r3 = NoReply
    <3> DEFINE p == Proposal(d, Deterministic(d, S3), Confidence(Doc(d), Txn(Deterministic(d, S3))))
    <3>1. Picked(d, S3, r3) = {p}
      BY <1>5, <1>6, <2>1 DEF Picked
    <3>2. p.doc = d
      BY DEF Proposal
    <3> QED  BY <3>1, <3>2
  <2>2. CASE r3 # NoReply
    <3>1. PICK t \in S3, label \in Labels : r3 = Says({<<t, label>>})
      BY <1>6, <2>2 DEF FinalReplies
    <3>2. Picked(d, S3, r3) = {Proposal(d, choice[1], choice[2]) : choice \in r3[1]}
      BY <1>5, <1>6, <2>2 DEF Picked
    <3>3. r3[1] = {<<t, label>>}
      BY <3>1 DEF Says
    <3>4. Proposal(d, t, label) \in Picked(d, S3, r3)
      BY <3>2, <3>3
    <3>5. Proposal(d, t, label).doc = d
      BY DEF Proposal
    <3> QED  BY <3>4, <3>5
  <2> QED  BY <2>1, <2>2
<1> QED  BY <1>d, <1>7

LEMMA BookFits ==
  ASSUME book' = book
  PROVE  AllFit' <=> AllFit
BY DEF AllFit, Doc, Txn

LEMMA WorkerFits ==
  ASSUME MatchInv, FitInv, NEW d \in Docs, Settle(d) \/ Adjudicate(d) \/ WorkerFails(d)
  PROVE  FitInv'
<1>1. /\ d \in waiting /\ waiting' = waiting \ {d}
      /\ claims \subseteq claims' /\ memory \subseteq memory' /\ (spoilt => spoilt')
      /\ UNCHANGED <<book, rejected, round, held, runs>>
  <2>1. CASE Settle(d)
    BY <2>1 DEF Settle, Finished
  <2>2. CASE Adjudicate(d)
    BY <2>2 DEF Adjudicate, Finished
  <2>3. CASE WorkerFails(d)
    BY <2>3 DEF WorkerFails, Finished
  <2> QED  BY <2>1, <2>2, <2>3
<1>2. WorkerFails(d) => spoilt'
  BY DEF WorkerFails, Finished
<1>3. ~spoilt' => rejected' = {}
  BY <1>1 DEF FitInv
<1>4. ASSUME Fits'
      PROVE  Fitting'
  <2>1. Fits
    <3>1. SaidNone => SaidNone'
      BY <1>1 DEF SaidNone
    <3> QED  BY <1>1, <1>4, <3>1, BookFits DEF Fits
  <2>2. Fitting /\ rejected = {} /\ AllFit /\ ~SaidNone'
    BY <1>4, <2>1 DEF FitInv, Fits
  <2>3. round > 0 /\ round \in Nat
    BY <1>1 DEF MatchInv, RoundInv, MatchTypeOK
  <2>4. PICK p \in claims' : p.doc = d
    <3>1. ~WorkerFails(d)
      BY <1>2, <1>4 DEF Fits
    <3>2. HeldRows # Txns /\ MatchTypeOK
      BY <2>2, <2>3 DEF Fitting, MatchInv
    <3> QED  BY <2>2, <3>1, <3>2, SettledProposes, AdjudicatedProposes
  <2>5. HeldRows' = HeldRows
    BY <1>1 DEF HeldRows, Nobody
  <2>6. Matched' = Matched
    BY <1>1, <2>5 DEF Matched
  <2>7. \A e \in Docs : e \in waiting' \/ e \in Matched' \/ \E q \in claims' : q.doc = e
    BY <1>1, <2>2, <2>3, <2>4, <2>6 DEF Fitting
  <2>8. waiting' # {} \/ claims' # {}
    BY <2>4
  <2>9. HeldRows' # Txns /\ round' - 1 <= Cardinality(Matched)' /\ ~(round' = 0)
    BY <1>1, <2>2, <2>3, <2>5, <2>6 DEF Fitting
  <2> QED  BY <2>7, <2>8, <2>9 DEF Fitting
<1> QED  BY <1>3, <1>4 DEF FitInv

LEMMA MatchedNext ==
  ASSUME MatchInv'
  PROVE  Matched' \subseteq Docs /\ IsFiniteSet(Matched') /\ Cardinality(Matched') \in Nat
<1>1. held' \in [Txns -> Proposals \cup {Nobody}]
  <2>1. MatchTypeOK'
    BY DEF MatchInv
  <2>2. Proposals' = Proposals /\ Nobody' = Nobody
    BY DEF Proposals, Nobody
  <2> QED  BY <2>1, <2>2 DEF MatchTypeOK
<1>2. \A t \in HeldRows' : t \in Txns /\ held'[t] # Nobody
  BY DEF HeldRows, Nobody
<1>3. ASSUME NEW t \in HeldRows'
      PROVE  held'[t].doc \in Docs
  <2>1. held'[t] \in Proposals
    BY <1>1, <1>2
  <2> QED  BY ONLY <2>1, ProposalParts
<1>4. Matched' \subseteq Docs
  BY <1>3 DEF Matched
<1>5. IsFiniteSet(Docs)
  BY MatchingAssumption
<1> DEFINE M == Matched'
<1>6. M \subseteq Docs
  BY <1>4
<1> HIDE DEF M
<1>7. IsFiniteSet(M) /\ Cardinality(M) \in Nat
  BY <1>5, <1>6, FS_Subset, FS_CardinalityType
<1> QED  BY <1>4, <1>7 DEF M

(* A settled round gives away a row at least, and whoever proposed one     *)
(* holds one or looks again.                                               *)
LEMMA RoundGivesAway ==
  ASSUME MatchInv, Resolve, claims # {}
  PROVE  /\ Cardinality(Matched)' >= Cardinality(Matched) + 1
         /\ Matched \subseteq Matched'
         /\ \A p \in claims : p.doc \in Matched' \/ p.doc \in LooksAgain
<1>1. held' = Resolved
  BY DEF Resolve
<1>2. \A t \in Txns : \/ Resolved[t] \in claims /\ Resolved[t].txn = t /\ held[t] = Nobody
                      \/ Resolved[t] = held[t]
  BY ResolvedHolds
<1>3. ASSUME NEW t \in Txns, On(t) # {}
      PROVE  /\ Winner(t) \in claims /\ Winner(t).txn = t /\ held'[t] = Winner(t)
             /\ t \in HeldRows' /\ Winner(t).doc \in Matched'
  <2>1. Winner(t) \in On(t)
    BY <1>3, WinnerIsOn
  <2>2. Winner(t) \in claims /\ Winner(t).txn = t
    BY <2>1 DEF On
  <2>3. held'[t] = Winner(t)
    BY <1>1, <1>3 DEF Resolved
  <2>4. Winner(t) # Nobody
    BY <2>2, NobodyIsNoProposal DEF MatchInv, MatchTypeOK
  <2>5. t \in HeldRows'
    BY <2>3, <2>4 DEF HeldRows, Nobody
  <2> QED  BY <2>2, <2>3, <2>5 DEF Matched
<1>4. \A p \in claims : p.txn \in Txns /\ p \in On(p.txn)
  BY ProposalParts DEF MatchInv, MatchTypeOK, On
<1>5. Matched \subseteq Matched'
  <2>1. ASSUME NEW t \in HeldRows
        PROVE  held[t].doc \in Matched'
    <3>1. held'[t] = held[t] /\ t \in Txns /\ held[t] # Nobody
      BY <1>1, HolderStays DEF HeldRows
    <3>2. t \in HeldRows'
      BY <3>1 DEF HeldRows, Nobody
    <3> QED  BY <3>1, <3>2 DEF Matched
  <2> QED  BY <2>1 DEF Matched
<1>6. PICK p \in claims : TRUE
  OBVIOUS
<1>7. /\ Winner(p.txn) \in claims /\ Winner(p.txn).doc \in Matched'
  BY <1>3, <1>4
<1>8. Winner(p.txn).doc \notin Matched
  BY <1>7 DEF Matched, MatchInv, RoundInv
<1>9. IsFiniteSet(Matched) /\ Cardinality(Matched) \in Nat
  BY MatchedAreDocs
<1>10. IsFiniteSet(Matched') /\ Cardinality(Matched') \in Nat
  BY ResolveKeeps, MatchedNext
<1>11. Cardinality(Matched') >= Cardinality(Matched) + 1
  <2> DEFINE d == Winner(p.txn).doc
             M == Matched
             N == Matched'
  <2>1. d \notin M /\ M \cup {d} \subseteq N
    BY <1>5, <1>7, <1>8
  <2>2. IsFiniteSet(M) /\ IsFiniteSet(N) /\ Cardinality(M) \in Nat /\ Cardinality(N) \in Nat
    BY <1>9, <1>10
  <2> HIDE DEF d, M, N
  <2>3. Cardinality(M \cup {d}) = Cardinality(M) + 1
    BY <2>1, <2>2, FS_AddElement
  <2>4. Cardinality(M \cup {d}) <= Cardinality(N)
    BY <2>1, <2>2, FS_Subset
  <2>5. Cardinality(N) >= Cardinality(M) + 1
    BY <2>2, <2>3, <2>4
  <2> QED  BY <2>5 DEF M, N
<1>12. ASSUME NEW q \in claims
       PROVE  q.doc \in Matched' \/ q.doc \in LooksAgain
  <2>1. CASE q = Winner(q.txn)
    BY <1>3, <1>4, <1>12, <2>1
  <2>2. CASE q # Winner(q.txn)
    <3>1. q.doc \in {l.doc : l \in Losers}
      BY <1>12, <2>2 DEF Losers
    <3>2. CASE \E t \in Txns : q.doc = Resolved[t].doc
      <4>1. PICK t \in Txns : q.doc = Resolved[t].doc
        BY <3>2
      <4>2. q.doc \in Docs
        BY ProposalParts DEF MatchInv, MatchTypeOK
      <4>3. Resolved[t] # Nobody
        BY <4>1, <4>2, MatchingAssumption DEF Nobody
      <4>4. t \in HeldRows' /\ held'[t].doc = q.doc
        BY <1>1, <4>1, <4>3 DEF HeldRows, Nobody
      <4> QED  BY <4>4 DEF Matched
    <3> QED  BY <3>1, <3>2 DEF LooksAgain
  <2> QED  BY <2>1, <2>2
<1> QED  BY <1>5, <1>11, <1>12

LEMMA ResolveFits ==
  ASSUME MatchInv, FitInv, Resolve
  PROVE  FitInv'
<1>1. /\ round > 0 /\ waiting = {} /\ held' = Resolved
      /\ UNCHANGED <<book, rejected, memory, spoilt, runs>>
  BY DEF Resolve
<1>2. ~spoilt' => rejected' = {}
  BY <1>1 DEF FitInv
<1>3. ASSUME Fits'
      PROVE  Fitting'
  <2>1. Fits
    <3>1. SaidNone' <=> SaidNone
      BY <1>1 DEF SaidNone
    <3> QED  BY <1>1, <1>3, <3>1, BookFits DEF Fits
  <2>2. Fitting /\ claims # {}
    BY <1>1, <2>1 DEF FitInv, Fitting
  <2>3. round \in Nat /\ MaxRounds \in Nat /\ round <= MaxRounds /\ runs # 0
    BY <1>1, MatchingAssumption DEF MatchInv, MatchTypeOK, RoundInv
  <2>4. Cardinality(Matched) \in Nat /\ Cardinality(Matched)' \in Nat /\ Matched' \subseteq Docs
    BY ResolveKeeps, MatchedAreDocs, MatchedNext
  <2>5. round <= Cardinality(Matched)'
    <3>1. Cardinality(Matched)' >= Cardinality(Matched) + 1
      BY <2>2, RoundGivesAway
    <3>2. round - 1 <= Cardinality(Matched)
      BY <1>1, <2>2 DEF Fitting
    <3> QED  BY <2>3, <2>4, <3>1, <3>2
  <2>6. \A d \in Docs : d \in Matched' \/ d \in LooksAgain
    <3> SUFFICES ASSUME NEW d \in Docs
                 PROVE  d \in Matched' \/ d \in LooksAgain
      OBVIOUS
    <3>1. d \in Matched \/ \E p \in claims : p.doc = d
      BY <1>1, <2>2 DEF Fitting
    <3> QED  BY <2>2, <3>1, RoundGivesAway
  <2>7. CASE LooksAgain # {} /\ More(\E t \in Txns : Resolved[t] = Nobody)
    <3>1. round' = round + 1 /\ waiting' = LooksAgain
      BY <2>7 DEF Resolve
    <3>2. HeldRows' # Txns
      BY <1>1, <2>7 DEF More, HeldRows, Nobody
    <3>3. round' - 1 <= Cardinality(Matched)'
      BY <2>3, <2>5, <3>1
    <3>4. ~(round' = 0)
      BY <2>3, <3>1
    <3>5. \A d \in Docs : d \in waiting' \/ d \in Matched' \/ \E p \in claims' : p.doc = d
      BY <2>6, <3>1
    <3>6. waiting' # {} \/ claims' # {}
      BY <2>7, <3>1
    <3> QED  BY <3>2, <3>3, <3>4, <3>5, <3>6 DEF Fitting
  <2>8. CASE ~(LooksAgain # {} /\ More(\E t \in Txns : Resolved[t] = Nobody))
    <3>1. round' = 0
      BY <2>8 DEF Resolve
    <3>2. ASSUME Cardinality(Docs) <= MaxRounds
          PROVE  HeldRows' = Txns \/ Docs \subseteq Matched'
      <4>1. CASE LooksAgain = {}
        BY <2>6, <4>1
      <4>2. CASE ~ \E t \in Txns : Resolved[t] = Nobody
        BY <1>1, <4>2 DEF HeldRows, Nobody
      <4>3. CASE ~(round < MaxRounds)
        <5>1. Cardinality(Docs) \in Nat /\ IsFiniteSet(Docs)
          BY FS_CardinalityType, MatchingAssumption
        <5>2. Cardinality(Docs) <= Cardinality(Matched')
          BY <2>3, <2>4, <2>5, <3>2, <4>3, <5>1
        <5>3. Cardinality(Matched') <= Cardinality(Docs)
          BY <2>4, <5>1, FS_Subset
        <5>4. Cardinality(Docs) = Cardinality(Matched')
          BY <2>4, <5>1, <5>2, <5>3
        <5>5. Docs = Matched'
          BY <2>4, <5>1, <5>4, FS_Subset
        <5> QED  BY <5>5
      <4> QED  BY <2>8, <4>1, <4>2, <4>3 DEF More
    <3> QED  BY <3>1, <3>2 DEF Fitting
  <2> QED  BY <2>7, <2>8
<1> QED  BY <1>2, <1>3 DEF FitInv

(* A run begins with every document at work and every row free.            *)
LEMMA BegunFits ==
  ASSUME FitInv, round' = 1, waiting' = Eligible, \A t \in Txns : held'[t] = Nobody,
         UNCHANGED <<book, rejected, spoilt>>
  PROVE  FitInv'
<1>1. HeldRows' = {}
  BY DEF HeldRows, Nobody
<1>2. Matched' = {}
  BY <1>1 DEF Matched
<1>3. Cardinality(Matched)' = 0
  BY <1>2, FS_EmptySet
<1>4. ASSUME Fits'
      PROVE  Fitting'
  <2>1. Eligible = Docs /\ Docs # {} /\ Txns # {}
    <3>1. AllFit /\ Docs # {} /\ Txns # {}
      BY <1>4, BookFits DEF Fits
    <3> QED  BY <3>1 DEF AllFit, Eligible
  <2> QED  BY <1>1, <1>3, <2>1 DEF Fitting
<1> QED  BY <1>4 DEF FitInv

(* So it goes on through every run.                                        *)
THEOREM FitInvariant == MatchSpec => []FitInv
<1>1. MatchInit => FitInv
  BY DEF MatchInit, FitInv, Fitting
<1>2. MatchInv /\ FitInv /\ [MatchNext]_matching => FitInv'
  <2> SUFFICES ASSUME MatchInv, FitInv, [MatchNext]_matching
               PROVE  FitInv'
    OBVIOUS
  <2>1. ASSUME NEW d \in Docs, Settle(d) \/ Adjudicate(d) \/ WorkerFails(d)
        PROVE  FitInv'
    BY <2>1, WorkerFits
  <2>2. CASE Resolve
    BY <2>2, ResolveFits
  <2>3. CASE StartRun
    <3>1. \A t \in Txns : held'[t] = Nobody
      BY <2>3 DEF StartRun, MatchInv, RoundInv, HeldRows
    <3> QED  BY <2>3, <3>1, BegunFits DEF StartRun
  <2>4. CASE Reset
    <3>1. \A t \in Txns : held'[t] = Nobody
      BY <2>4 DEF Reset
    <3> QED  BY <2>4, <3>1, BegunFits DEF Reset
  <2>5. ASSUME NEW t \in Txns, Reject(t)
        PROVE  FitInv'
    BY <2>5 DEF Reject, FitInv, Fits
  <2>6. CASE UNCHANGED matching
    <3>1. UNCHANGED <<book, rejected, round, waiting, claims, held, memory, spoilt, runs>>
      BY <2>6 DEF matching
    <3>2. AllFit' <=> AllFit
      BY <3>1, BookFits
    <3>3. HeldRows' = HeldRows /\ (SaidNone' <=> SaidNone)
      BY <3>1 DEF HeldRows, Nobody, SaidNone
    <3>4. Matched' = Matched
      BY <3>1, <3>3 DEF Matched
    <3>5. Fits' <=> Fits
      BY <3>1, <3>2, <3>3 DEF Fits
    <3>6. Fitting' <=> Fitting
      BY <3>1, <3>3, <3>4 DEF Fitting
    <3> QED  BY <3>1, <3>5, <3>6 DEF FitInv
  <2> QED  BY <2>1, <2>2, <2>3, <2>4, <2>5, <2>6 DEF MatchNext
<1> QED  BY <1>1, <1>2, MatchInvariant, PTL DEF MatchSpec

(* Proofs that all fit all the rows are matched until one side runs out,   *)
(* whatever rows they collide on round after round, if the rounds are as   *)
(* many as the proofs.                                                     *)
THEOREM TwinsAreMatched == MatchSpec => []TwinsAllMatched
<1>1. MatchInv /\ FitInv => TwinsAllMatched
  <2> SUFFICES ASSUME MatchInv, FitInv, Idle, runs > 0, ~spoilt, AllFit, ~SaidNone,
                      Cardinality(Docs) <= MaxRounds, HeldRows # Txns, NEW d \in Docs
               PROVE  \E t \in Txns : held[t].doc = d
    BY DEF TwinsAllMatched
  <2>1. Txns # {}
    BY DEF HeldRows
  <2>2. Fitting
    BY <2>1 DEF FitInv, Fits
  <2>3. d \in Matched
    BY <2>2 DEF Fitting, Idle
  <2> QED  BY <2>3 DEF Matched, HeldRows
<1> QED  BY <1>1, MatchInvariant, FitInvariant, PTL

-----------------------------------------------------------------------------
(* Two runs over the same replies                                          *)

(* What a document's worker sees of the rows while h holds them            *)
Offered(h, d) == {t \in Txns : h[t] = Nobody /\ <<d, t>> \notin rejected /\ SignCompatible(Doc(d), Txn(t))}
Close(h, d) == {t \in Offered(h, d) : Shortlisted(Doc(d), Txn(t))}
Presented(h, d) == {t \in Offered(h, d) : WithinEnvelope(Doc(d), Txn(t))} \cup Close(h, d)
Plain(h, d) == \E t \in Offered(h, d) : Close(h, d) = {t} /\ Unambiguous(Doc(d), Txn(t))

(* What the three agents are asked, given what the ones before them said   *)
FirstReplies(h, d) ==
  IF AmountAgent /\ Presented(h, d) # {}
  THEN {Says(S) : S \in Narrowings \cap SUBSET Presented(h, d)} \cup {NoReply} ELSE {NoReply}
Second(h, d, r1) == Dated(d, Close(h, d) \cup (IF r1 = NoReply THEN {} ELSE r1[1]))
Third(h, d, r1, r2) == Kept(Second(h, d, r1), r2)

(* A question that is asked is answered by the memory m.                   *)
Told(m, q, replies, r) == IF replies = {NoReply} THEN r = NoReply ELSE <<q, r>> \in m
Answered(m, h, d, r1, r2, r3) ==
  /\ Told(m, Question("amount", d, Presented(h, d)), FirstReplies(h, d), r1)
  /\ Told(m, Question("date", d, Second(h, d, r1)), DateReplies(Second(h, d, r1)), r2)
  /\ Told(m, Question("final", d, Third(h, d, r1, r2)), FinalReplies(Third(h, d, r1, r2)), r3)

(* What a worker proposes by the memory m while h holds the rows           *)
Comes(m, h, d, out) ==
  \/ Plain(h, d) /\ out = Picked(d, Close(h, d), NoReply)
  \/ ~Plain(h, d) /\ \E r1, r2, r3 : /\ Answered(m, h, d, r1, r2, r3)
                                     /\ out = Picked(d, Third(h, d, r1, r2), r3)

Of(c, d) == {x \in c : x.doc = d}
For(c, t) == {x \in c : x.txn = t}

(* The proposals of a round with the documents W at work                   *)
Round(m, h, W, c) == (\A x \in c : x.doc \in W) /\ \A d \in W : Comes(m, h, d, Of(c, d))

(* Who holds the rows after them, who looks again, and whether any does    *)
Best(c, t) == CHOOSE p \in For(c, t) : \A q \in For(c, t) : q = p \/ Precedes(p, q)
After(c, h) == [t \in Txns |-> IF For(c, t) # {} THEN Best(c, t) ELSE h[t]]
Again(c, h) == {x.doc : x \in {y \in c : y # Best(c, y.txn)}} \ {After(c, h)[t].doc : t \in Txns}
GoesOn(k, c, h) == Again(c, h) # {} /\ k < MaxRounds /\ \E t \in Txns : After(c, h)[t] = Nobody

(* The rounds of a run, from holders and documents at work to the next     *)
Path(m, p, k) ==
  /\ k \in Nat \ {0}
  /\ p[1] = <<[t \in Txns |-> Nobody], Eligible>>
  /\ \A i \in 1..(k - 1) :
       \E c : /\ Round(m, p[i][1], p[i][2], c) /\ GoesOn(i, c, p[i][1])
              /\ p[i + 1] = <<After(c, p[i][1]), Again(c, p[i][1])>>
Reached(m, k, h, W) == \E p : Path(m, p, k) /\ p[k] = <<h, W>>

(* The holders a run ends with                                             *)
EndsWith(m, h) ==
  \E k, g, W, c : Reached(m, k, g, W) /\ Round(m, g, W, c) /\ ~GoesOn(k, c, g) /\ h = After(c, g)

OneAnswer(m) == \A q, r, s : <<q, r>> \in m /\ <<q, s>> \in m => r = s

(* A memory with one answer per question leaves a worker one proposal, a   *)
(* round one set of them, and a run one end.                               *)
LEMMA ComesOnce ==
  ASSUME NEW m, OneAnswer(m), NEW h, NEW d, NEW x, NEW y, Comes(m, h, d, x), Comes(m, h, d, y)
  PROVE  x = y
<1>1. CASE Plain(h, d)
  BY <1>1 DEF Comes
<1>2. CASE ~Plain(h, d)
  <2>1. \A q, replies, r, s : Told(m, q, replies, r) /\ Told(m, q, replies, s) => r = s
    BY DEF Told, OneAnswer
  <2>2. PICK r1, r2, r3 : Answered(m, h, d, r1, r2, r3) /\ x = Picked(d, Third(h, d, r1, r2), r3)
    BY <1>2 DEF Comes
  <2>3. PICK s1, s2, s3 : Answered(m, h, d, s1, s2, s3) /\ y = Picked(d, Third(h, d, s1, s2), s3)
    BY <1>2 DEF Comes
  <2>4. r1 = s1
    BY <2>1, <2>2, <2>3 DEF Answered
  <2>5. r2 = s2
    BY <2>1, <2>2, <2>3, <2>4 DEF Answered
  <2>6. r3 = s3
    BY <2>1, <2>2, <2>3, <2>4, <2>5 DEF Answered
  <2> QED  BY <2>2, <2>3, <2>4, <2>5, <2>6
<1> QED  BY <1>1, <1>2

LEMMA RoundOnce ==
  ASSUME NEW m, OneAnswer(m), NEW h, NEW W, NEW c, NEW e, Round(m, h, W, c), Round(m, h, W, e)
  PROVE  c = e
<1>1. \A d \in W : Of(c, d) = Of(e, d)
  BY ComesOnce DEF Round
<1>2. \A x \in c : x.doc \in W /\ x \in Of(c, x.doc)
  BY DEF Round, Of
<1>3. \A x \in e : x.doc \in W /\ x \in Of(e, x.doc)
  BY DEF Round, Of
<1>4. \A x : x \in c => x \in e
  BY <1>1, <1>2 DEF Of
<1>5. \A x : x \in e => x \in c
  BY <1>1, <1>3 DEF Of
<1> QED  BY <1>4, <1>5

LEMMA PathOnce ==
  ASSUME NEW m, OneAnswer(m), NEW p, NEW q, NEW k, NEW n, Path(m, p, k), Path(m, q, n)
  PROVE  \A i \in 1..k : i <= n => p[i] = q[i]
<1> DEFINE Apart == {i \in 1..k : i <= n /\ p[i] # q[i]}
<1>1. k \in Nat /\ n \in Nat
  BY DEF Path
<1> SUFFICES ASSUME Apart # {}
             PROVE  FALSE
  OBVIOUS
<1>2. Apart \in SUBSET Nat
  BY <1>1
<1>3. PICK i \in Apart : \A j \in Apart : i <= j
  BY <1>2, LeastNumber
<1>4. i \in 1..k /\ i <= n /\ p[i] # q[i]
  BY <1>3
<1>5. i # 1
  BY <1>4 DEF Path
<1> DEFINE j == i - 1
<1>6. j \in 1..(k - 1) /\ j \in 1..(n - 1) /\ j + 1 = i
  BY <1>1, <1>4, <1>5
<1>7. p[j] = q[j]
  <2>1. j \notin Apart
    BY <1>1, <1>3, <1>6
  <2>2. j \in 1..k /\ j <= n
    BY <1>1, <1>6
  <2> QED  BY <2>1, <2>2
<1> HIDE DEF j
<1>8. PICK c : Round(m, p[j][1], p[j][2], c) /\ p[j + 1] = <<After(c, p[j][1]), Again(c, p[j][1])>>
  BY <1>6 DEF Path
<1>9. PICK e : Round(m, q[j][1], q[j][2], e) /\ q[j + 1] = <<After(e, q[j][1]), Again(e, q[j][1])>>
  BY <1>6 DEF Path
<1>10. c = e
  BY <1>7, <1>8, <1>9, RoundOnce
<1>11. p[j + 1] = q[j + 1]
  BY <1>7, <1>8, <1>9, <1>10
<1> QED  BY <1>4, <1>6, <1>11

LEMMA EndsOnce ==
  ASSUME NEW m, OneAnswer(m), NEW h, NEW g, EndsWith(m, h), EndsWith(m, g)
  PROVE  h = g
<1>1. ASSUME NEW k, NEW p, NEW a, NEW W, NEW c, Path(m, p, k), p[k] = <<a, W>>, Round(m, a, W, c), ~GoesOn(k, c, a),
             NEW n, NEW q, NEW b, NEW V, NEW e, Path(m, q, n), q[n] = <<b, V>>, Round(m, b, V, e), ~GoesOn(n, e, b)
      PROVE  ~(k < n)
  <2> SUFFICES ASSUME k < n
               PROVE  FALSE
    OBVIOUS
  <2>1. k \in Nat \ {0} /\ n \in Nat \ {0}
    BY <1>1 DEF Path
  <2>2. k \in 1..k /\ k <= n /\ k \in 1..(n - 1)
    BY <2>1
  <2>3. p[k] = q[k]
    BY <1>1, <2>2, PathOnce
  <2>4. PICK f : Round(m, q[k][1], q[k][2], f) /\ GoesOn(k, f, q[k][1])
    BY <1>1, <2>2 DEF Path
  <2>5. q[k][1] = a /\ q[k][2] = W
    BY <1>1, <2>3
  <2>6. f = c
    BY <1>1, <2>4, <2>5, RoundOnce
  <2> QED  BY <1>1, <2>4, <2>5, <2>6
<1>2. PICK k, a, W, c : Reached(m, k, a, W) /\ Round(m, a, W, c) /\ ~GoesOn(k, c, a) /\ h = After(c, a)
  BY DEF EndsWith
<1>3. PICK n, b, V, e : Reached(m, n, b, V) /\ Round(m, b, V, e) /\ ~GoesOn(n, e, b) /\ g = After(e, b)
  BY DEF EndsWith
<1>4. PICK p : Path(m, p, k) /\ p[k] = <<a, W>>
  BY <1>2 DEF Reached
<1>5. PICK q : Path(m, q, n) /\ q[n] = <<b, V>>
  BY <1>3 DEF Reached
<1>6. ~(k < n) /\ ~(n < k)
  BY <1>1, <1>2, <1>3, <1>4, <1>5
<1>7. k \in Nat \ {0} /\ n \in Nat \ {0}
  BY <1>4, <1>5 DEF Path
<1>8. k = n
  BY <1>6, <1>7
<1>9. p[k] = q[k]
  <2>1. k \in 1..k /\ k <= n
    BY <1>7, <1>8
  <2> QED  BY <1>4, <1>5, <2>1, PathOnce
<1>10. a = b /\ W = V
  BY <1>4, <1>5, <1>8, <1>9
<1>11. c = e
  BY <1>2, <1>3, <1>10, RoundOnce
<1> QED  BY <1>2, <1>3, <1>10, <1>11

(* What the agents said stays said.                                        *)
LEMMA ComesGrows ==
  ASSUME NEW m, NEW n, m \subseteq n, NEW h, NEW d, NEW out, Comes(m, h, d, out)
  PROVE  Comes(n, h, d, out)
<1>1. \A q, replies, r : Told(m, q, replies, r) => Told(n, q, replies, r)
  BY DEF Told
<1>2. \A r1, r2, r3 : Answered(m, h, d, r1, r2, r3) => Answered(n, h, d, r1, r2, r3)
  BY <1>1 DEF Answered
<1> QED  BY <1>2 DEF Comes

LEMMA RoundGrows ==
  ASSUME NEW m, NEW n, m \subseteq n
  PROVE  \A h, W, c : Round(m, h, W, c) => Round(n, h, W, c)
BY ComesGrows DEF Round

LEMMA ReachedGrows ==
  ASSUME NEW m, NEW n, m \subseteq n
  PROVE  /\ \A k, h, W : Reached(m, k, h, W) => Reached(n, k, h, W)
         /\ \A h : EndsWith(m, h) => EndsWith(n, h)
<1>1. ASSUME NEW p, NEW k, Path(m, p, k)
      PROVE  Path(n, p, k)
  <2>1. k \in Nat \ {0} /\ p[1] = <<[t \in Txns |-> Nobody], Eligible>>
    BY <1>1 DEF Path
  <2>2. ASSUME NEW i \in 1..(k - 1)
        PROVE  \E c : /\ Round(n, p[i][1], p[i][2], c) /\ GoesOn(i, c, p[i][1])
                      /\ p[i + 1] = <<After(c, p[i][1]), Again(c, p[i][1])>>
    <3>1. PICK c : /\ Round(m, p[i][1], p[i][2], c) /\ GoesOn(i, c, p[i][1])
                   /\ p[i + 1] = <<After(c, p[i][1]), Again(c, p[i][1])>>
      BY <1>1 DEF Path
    <3> QED  BY <3>1, RoundGrows
  <2> QED  BY <2>1, <2>2 DEF Path
<1>2. \A k, h, W : Reached(m, k, h, W) => Reached(n, k, h, W)
  BY <1>1 DEF Reached
<1> QED  BY <1>2, RoundGrows DEF EndsWith

(* And means the same while books and refusals stand.                      *)
LEMMA PickedStays ==
  ASSUME UNCHANGED book
  PROVE  /\ \A d : Doc(d)' = Doc(d)
         /\ \A t : Txn(t)' = Txn(t)
         /\ \A d, S, r : Picked(d, S, r)' = Picked(d, S, r)
         /\ \A d, S : Dated(d, S)' = Dated(d, S)
         /\ \A p, q : Precedes(p, q)' <=> Precedes(p, q)
<1>1. (\A d : Doc(d)' = Doc(d)) /\ (\A t : Txn(t)' = Txn(t))
  BY DEF Doc, Txn
<1>2. \A d, S : Deterministic(d, S)' = Deterministic(d, S)
  BY <1>1 DEF Deterministic
<1>3. \A d, t, conf : Proposal(d, t, conf)' = Proposal(d, t, conf)
  BY <1>1 DEF Proposal
<1>4. \A d, S, r : Picked(d, S, r)' = Picked(d, S, r)
  BY <1>1, <1>2, <1>3 DEF Picked, NoReply, Says
<1>5. \A d, S : Dated(d, S)' = Dated(d, S)
  BY <1>1 DEF Dated
<1>6. \A p : Key(p)' = Key(p)
  BY <1>1 DEF Key
<1>7. \A p, q : Precedes(p, q)' <=> Precedes(p, q)
  BY <1>6 DEF Precedes, Below
<1> QED  BY <1>1, <1>4, <1>5, <1>7

LEMMA ComesStays ==
  ASSUME UNCHANGED <<book, rejected>>
  PROVE  \A m, h, d, out : Comes(m, h, d, out)' <=> Comes(m, h, d, out)
<1>1. \A h, d : Offered(h, d)' = Offered(h, d)
  BY PickedStays DEF Offered, Nobody
<1>2. \A h, d : Close(h, d)' = Close(h, d)
  BY <1>1, PickedStays DEF Close
<1>3. \A h, d : Presented(h, d)' = Presented(h, d)
  BY <1>1, <1>2, PickedStays DEF Presented
<1>4. \A h, d : Plain(h, d)' <=> Plain(h, d)
  BY <1>1, <1>2, PickedStays DEF Plain
<1>5. \A h, d : FirstReplies(h, d)' = FirstReplies(h, d)
  BY <1>3 DEF FirstReplies, Says, NoReply
<1>6. \A h, d, r1 : Second(h, d, r1)' = Second(h, d, r1)
  BY <1>2, PickedStays DEF Second, NoReply
<1>7. \A h, d, r1, r2 : Third(h, d, r1, r2)' = Third(h, d, r1, r2)
  BY <1>6 DEF Third, Kept, Says, NoReply
<1>8. /\ \A S : DateReplies(S)' = DateReplies(S)
      /\ \A S : FinalReplies(S)' = FinalReplies(S)
  BY DEF DateReplies, FinalReplies, Says, NoReply
<1>9. \A m, h, d, r1, r2, r3 : Answered(m, h, d, r1, r2, r3)' <=> Answered(m, h, d, r1, r2, r3)
  BY <1>3, <1>5, <1>6, <1>7, <1>8 DEF Answered, Told, Question, NoReply
<1> QED  BY <1>2, <1>4, <1>7, <1>9, PickedStays DEF Comes, NoReply

LEMMA ReachedStays ==
  ASSUME UNCHANGED <<book, rejected>>
  PROVE  /\ \A m, k, h, W : Reached(m, k, h, W)' <=> Reached(m, k, h, W)
         /\ \A m, h : EndsWith(m, h)' <=> EndsWith(m, h)
<1>1. \A m, h, W, c : Round(m, h, W, c)' <=> Round(m, h, W, c)
  BY ComesStays DEF Round, Of
<1>2. \A c, t : Best(c, t)' = Best(c, t)
  BY PickedStays DEF Best, For
<1>3. \A c, h : After(c, h)' = After(c, h)
  BY <1>2 DEF After, For
<1>4. \A c, h : Again(c, h)' = Again(c, h)
  BY <1>2, <1>3 DEF Again
<1>5. \A k, c, h : GoesOn(k, c, h)' <=> GoesOn(k, c, h)
  BY <1>3, <1>4 DEF GoesOn, Nobody
<1>6. Eligible' = Eligible
  BY PickedStays DEF Eligible
<1>7. \A m, p, k : Path(m, p, k)' <=> Path(m, p, k)
  BY <1>1, <1>3, <1>4, <1>5, <1>6 DEF Path, Nobody
<1>8. \A m, k, h, W : Reached(m, k, h, W)' <=> Reached(m, k, h, W)
  BY <1>7 DEF Reached
<1> QED  BY <1>1, <1>3, <1>5, <1>8 DEF EndsWith

(* While every question is answered a question has one answer, the run     *)
(* stands where that memory leads a run, with the proposals that those     *)
(* made who are done, and it came, and comes, to the end it leads to.      *)
Said(h) == [t \in Txns |-> <<h[t].doc, h[t].conf, h[t].flagged>>]
Led ==
  /\ OneAnswer(memory)
  /\ round > 0 => \E W : /\ Reached(memory, round, held, W) /\ waiting \subseteq W
                         /\ \A x \in claims : x.doc \in W \ waiting
                         /\ \A d \in W \ waiting : Comes(memory, held, d, Of(claims, d))
  /\ round = 0 /\ runs > 0 => EndsWith(memory, held)
  /\ runs = 2 => \E h : EndsWith(memory, h) /\ previous = {Said(h)}

LedInv == ~spoilt => Led

LEMMA PickedAreOf ==
  ASSUME NEW d, NEW S, NEW r
  PROVE  \A p \in Picked(d, S, r) : p.doc = d
<1>1. \A t, conf : Proposal(d, t, conf).doc = d
  BY DEF Proposal
<1> QED  BY <1>1 DEF Picked

(* The view of a worker is of the rows as the rounds before left them.     *)
LEMMA ViewIs ==
  ASSUME NEW d, MatchTypeOK
  PROVE  /\ Shortlist(d) = Close(held, d) /\ Shown(d) = Presented(held, d)
         /\ Obvious(d) <=> Plain(held, d)
         /\ AmountReplies(d) = FirstReplies(held, d)
         /\ \A r : Dated(d, Amounts(d, r)) = Second(held, d, r)
<1>1. Compatible(d) = Offered(held, d)
  BY DEF Compatible, Pool, HeldRows, Offered
<1>2. Shortlist(d) = Close(held, d)
  BY <1>1 DEF Shortlist, Close
<1>3. Shown(d) = Presented(held, d)
  BY <1>1, <1>2 DEF Shown, Presented
<1>4. Obvious(d) <=> Plain(held, d)
  BY <1>1, <1>2 DEF Obvious, Plain
<1>5. AmountReplies(d) = FirstReplies(held, d)
  BY <1>3 DEF AmountReplies, FirstReplies
<1>6. \A r : Dated(d, Amounts(d, r)) = Second(held, d, r)
  BY <1>2 DEF Amounts, Second
<1> QED  BY <1>2, <1>3, <1>4, <1>5, <1>6

(* A worker that does not fail comes to what the memory leads it to.       *)
LEMMA SettleComes ==
  ASSUME MatchTypeOK, NEW d, Settle(d)
  PROVE  \E out : /\ Finished(d, out, {}, FALSE) /\ Comes(memory', held, d, out)
                  /\ \A p \in out : p.doc = d
<1> DEFINE out == Picked(d, Shortlist(d), NoReply)
<1>1. Finished(d, out, {}, FALSE) /\ Plain(held, d) /\ out = Picked(d, Close(held, d), NoReply)
  BY ViewIs DEF Settle
<1>2. Comes(memory', held, d, out)
  BY <1>1 DEF Comes
<1> QED  BY <1>1, <1>2, PickedAreOf

LEMMA LearntOnce ==
  ASSUME NEW m, OneAnswer(m), NEW d, NEW x, NEW y, NEW z, NEW r1, NEW r2, NEW r3,
         r1 # NoReply => \A r : <<Question("amount", d, x), r>> \in m => r = r1,
         r2 # NoReply => \A r : <<Question("date", d, y), r>> \in m => r = r2,
         r3 # NoReply => \A r : <<Question("final", d, z), r>> \in m => r = r3
  PROVE  OneAnswer(m \cup (Learns(Question("amount", d, x), r1) \cup Learns(Question("date", d, y), r2)
                           \cup Learns(Question("final", d, z), r3)))
<1> DEFINE q1 == Question("amount", d, x)
           q2 == Question("date", d, y)
           q3 == Question("final", d, z)
           n == m \cup (Learns(q1, r1) \cup Learns(q2, r2) \cup Learns(q3, r3))
<1>1. q1 # q2 /\ q1 # q3 /\ q2 # q3
  BY DEF Question
<1> HIDE DEF q1, q2, q3
<1>2. \A q, r : <<q, r>> \in n =>
                  \/ <<q, r>> \in m
                  \/ q = q1 /\ r = r1 /\ r1 # NoReply
                  \/ q = q2 /\ r = r2 /\ r2 # NoReply
                  \/ q = q3 /\ r = r3 /\ r3 # NoReply
  BY DEF Learns
<1> HIDE DEF n
<1>3. /\ r1 # NoReply => \A r : <<q1, r>> \in m => r = r1
      /\ r2 # NoReply => \A r : <<q2, r>> \in m => r = r2
      /\ r3 # NoReply => \A r : <<q3, r>> \in m => r = r3
  BY DEF q1, q2, q3
<1>4. ASSUME NEW q, NEW r, NEW s, <<q, r>> \in n, <<q, s>> \in n
      PROVE  r = s
  <2>1. CASE <<q, r>> \in m
    BY <1>2, <1>3, <1>4, <2>1 DEF OneAnswer
  <2>2. CASE q = q1 /\ r = r1 /\ r1 # NoReply
    BY <1>1, <1>2, <1>3, <1>4, <2>2
  <2>3. CASE q = q2 /\ r = r2 /\ r2 # NoReply
    BY <1>1, <1>2, <1>3, <1>4, <2>3
  <2>4. CASE q = q3 /\ r = r3 /\ r3 # NoReply
    BY <1>1, <1>2, <1>3, <1>4, <2>4
  <2> QED  BY <1>2, <1>4, <2>1, <2>2, <2>3, <2>4
<1>5. OneAnswer(n)
  BY <1>4 DEF OneAnswer
<1> QED  BY <1>5 DEF n, q1, q2, q3

LEMMA AdjudicateComes ==
  ASSUME MatchTypeOK, NEW d, Adjudicate(d), OneAnswer(memory), ~spoilt'
  PROVE  /\ OneAnswer(memory')
         /\ \E out, learnt, failed : /\ Finished(d, out, learnt, failed) /\ Comes(memory', held, d, out)
                                     /\ \A p \in out : p.doc = d
<1> DEFINE q1 == Question("amount", d, Presented(held, d))
           q2(r1) == Question("date", d, Second(held, d, r1))
           q3(r1, r2) == Question("final", d, Third(held, d, r1, r2))
           learnt(r1, r2, r3) == Learns(q1, r1) \cup Learns(q2(r1), r2) \cup Learns(q3(r1, r2), r3)
           failed(r1, r2, r3) ==
             \/ r1 = NoReply /\ FirstReplies(held, d) # {NoReply}
             \/ r2 = NoReply /\ DateReplies(Second(held, d, r1)) # {NoReply}
             \/ r3 = NoReply /\ FinalReplies(Third(held, d, r1, r2)) # {NoReply}
<1>1. ~Plain(held, d)
  BY ViewIs DEF Adjudicate
<1>2. \E r1, r2, r3 :
          /\ r1 \in FirstReplies(held, d) /\ r2 \in DateReplies(Second(held, d, r1))
          /\ r3 \in FinalReplies(Third(held, d, r1, r2))
          /\ Reply(q1, r1) /\ Reply(q2(r1), r2) /\ Reply(q3(r1, r2), r3)
          /\ Finished(d, Picked(d, Third(held, d, r1, r2), r3), learnt(r1, r2, r3), failed(r1, r2, r3))
  <2>1. PICK r1 \in AmountReplies(d) :
          LET S1 == Amounts(d, r1)
              S2 == Dated(d, S1)
              p1 == Question("amount", d, Shown(d))
          IN /\ Reply(p1, r1)
             /\ \E r2 \in DateReplies(S2) :
                  LET S3 == Kept(S2, r2)
                      p2 == Question("date", d, S2)
                  IN /\ Reply(p2, r2)
                     /\ \E r3 \in FinalReplies(S3) :
                          LET p3 == Question("final", d, S3)
                          IN /\ Reply(p3, r3)
                             /\ Finished(d, Picked(d, S3, r3),
                                         Learns(p1, r1) \cup Learns(p2, r2) \cup Learns(p3, r3),
                                         \/ r1 = NoReply /\ AmountReplies(d) # {NoReply}
                                         \/ r2 = NoReply /\ DateReplies(S2) # {NoReply}
                                         \/ r3 = NoReply /\ FinalReplies(S3) # {NoReply})
    BY DEF Adjudicate
  <2> DEFINE S2 == Dated(d, Amounts(d, r1))
             p1 == Question("amount", d, Shown(d))
             p2 == Question("date", d, S2)
  <2>2. PICK r2 \in DateReplies(S2) :
          /\ Reply(p2, r2)
          /\ \E r3 \in FinalReplies(Kept(S2, r2)) :
               /\ Reply(Question("final", d, Kept(S2, r2)), r3)
               /\ Finished(d, Picked(d, Kept(S2, r2), r3),
                           Learns(p1, r1) \cup Learns(p2, r2) \cup Learns(Question("final", d, Kept(S2, r2)), r3),
                           \/ r1 = NoReply /\ AmountReplies(d) # {NoReply}
                           \/ r2 = NoReply /\ DateReplies(S2) # {NoReply}
                           \/ r3 = NoReply /\ FinalReplies(Kept(S2, r2)) # {NoReply})
    BY <2>1
  <2> DEFINE S3 == Kept(S2, r2)
             p3 == Question("final", d, S3)
  <2>3. PICK r3 \in FinalReplies(S3) :
          /\ Reply(p3, r3)
          /\ Finished(d, Picked(d, S3, r3), Learns(p1, r1) \cup Learns(p2, r2) \cup Learns(p3, r3),
                      \/ r1 = NoReply /\ AmountReplies(d) # {NoReply}
                      \/ r2 = NoReply /\ DateReplies(S2) # {NoReply}
                      \/ r3 = NoReply /\ FinalReplies(S3) # {NoReply})
    BY <2>2
  <2>4. S2 = Second(held, d, r1)
    BY ViewIs
  <2>5. S3 = Third(held, d, r1, r2)
    BY <2>4 DEF Third
  <2>6. p1 = q1
    BY ViewIs
  <2>7. p2 = q2(r1)
    BY <2>4
  <2>8. p3 = q3(r1, r2)
    BY <2>5
  <2>9. AmountReplies(d) = FirstReplies(held, d)
    BY ViewIs
  <2>10. Reply(p1, r1)
    BY <2>1
  <2> HIDE DEF S2, S3, p1, p2, p3, q1, q2, q3
  <2>11. r1 \in FirstReplies(held, d)
    BY <2>9
  <2>12. r2 \in DateReplies(Second(held, d, r1)) /\ r3 \in FinalReplies(Third(held, d, r1, r2))
    BY <2>4, <2>5
  <2>13. Reply(q1, r1) /\ Reply(q2(r1), r2) /\ Reply(q3(r1, r2), r3)
    BY <2>2, <2>3, <2>6, <2>7, <2>8, <2>10
  <2>14. Finished(d, Picked(d, Third(held, d, r1, r2), r3), learnt(r1, r2, r3), failed(r1, r2, r3))
    BY <2>3, <2>4, <2>5, <2>6, <2>7, <2>8, <2>9
  <2> QED  BY <2>11, <2>12, <2>13, <2>14
<1>3. PICK r1, r2, r3 :
          /\ r1 \in FirstReplies(held, d) /\ r2 \in DateReplies(Second(held, d, r1))
          /\ r3 \in FinalReplies(Third(held, d, r1, r2))
          /\ Reply(q1, r1) /\ Reply(q2(r1), r2) /\ Reply(q3(r1, r2), r3)
          /\ Finished(d, Picked(d, Third(held, d, r1, r2), r3), learnt(r1, r2, r3), failed(r1, r2, r3))
  BY <1>2
<1>4. memory' = memory \cup learnt(r1, r2, r3) /\ ~failed(r1, r2, r3)
  BY <1>3 DEF Finished
<1>5. \A q, r : Reply(q, r) => \A s : <<q, s>> \in memory => s = r
  <2> SUFFICES ASSUME NEW q, NEW r, Reply(q, r), NEW s, <<q, s>> \in memory
               PROVE  s = r
    OBVIOUS
  <2>1. <<q, s>>[1] = q
    OBVIOUS
  <2>2. Known(q)
    BY <2>1 DEF Known
  <2>3. <<q, r>> \in memory
    BY <2>2 DEF Reply
  <2> QED  BY <2>3 DEF OneAnswer
<1>6. OneAnswer(memory')
  BY <1>3, <1>4, <1>5, LearntOnce
<1>7. \A q, r : r # NoReply => <<q, r>> \in Learns(q, r)
  BY DEF Learns
<1>8. Answered(memory', held, d, r1, r2, r3)
  <2>1. Told(memory', q1, FirstReplies(held, d), r1)
    BY <1>3, <1>4, <1>7 DEF Told
  <2>2. Told(memory', q2(r1), DateReplies(Second(held, d, r1)), r2)
    BY <1>3, <1>4, <1>7 DEF Told
  <2>3. Told(memory', q3(r1, r2), FinalReplies(Third(held, d, r1, r2)), r3)
    BY <1>3, <1>4, <1>7 DEF Told
  <2> QED  BY <2>1, <2>2, <2>3 DEF Answered
<1>9. Comes(memory', held, d, Picked(d, Third(held, d, r1, r2), r3))
  BY <1>1, <1>8 DEF Comes
<1> QED  BY <1>3, <1>6, <1>9, PickedAreOf

LEMMA FinishedLed ==
  ASSUME MatchInv, Led, NEW d \in waiting, NEW out, NEW learnt, NEW failed,
         Finished(d, out, learnt, failed), OneAnswer(memory'),
         Comes(memory', held, d, out), \A p \in out : p.doc = d
  PROVE  Led'
<1>1. /\ waiting' = waiting \ {d} /\ claims' = claims \cup out /\ memory \subseteq memory'
      /\ UNCHANGED <<book, rejected, round, held, previous, runs>>
  BY DEF Finished, Proposed
<1>2. round > 0
  BY DEF MatchInv, RoundInv, MatchTypeOK
<1>3. PICK W : /\ Reached(memory, round, held, W) /\ waiting \subseteq W
               /\ \A x \in claims : x.doc \in W \ waiting
               /\ \A e \in W \ waiting : Comes(memory, held, e, Of(claims, e))
  BY <1>2 DEF Led
<1>4. Reached(memory', round, held, W)
  BY <1>1, <1>3, ReachedGrows
<1>5. \A x \in claims' : x.doc \in W \ waiting'
  BY <1>1, <1>3
<1>6. ASSUME NEW e \in W \ waiting'
      PROVE  Comes(memory', held, e, Of(claims', e))
  <2>1. CASE e = d
    <3>1. Of(claims', d) = out
      BY <1>1, <1>3 DEF Of
    <3> QED  BY <2>1, <3>1
  <2>2. CASE e # d
    <3>1. Of(claims', e) = Of(claims, e)
      BY <1>1, <2>2 DEF Of
    <3>2. Comes(memory, held, e, Of(claims, e))
      BY <1>1, <1>3, <1>6, <2>2
    <3> QED  BY <1>1, <3>1, <3>2, ComesGrows
  <2> QED  BY <2>1, <2>2
<1>7. runs = 2 => \E h : EndsWith(memory', h) /\ previous = {Said(h)}
  BY <1>1, ReachedGrows DEF Led
<1>8. \E V : /\ Reached(memory, round, held, V)' /\ waiting' \subseteq V
             /\ \A x \in claims' : x.doc \in V \ waiting'
             /\ \A e \in V \ waiting' : Comes(memory, held, e, Of(claims, e))'
  <2>1. Reached(memory', round', held', W)
    BY <1>1, <1>4
  <2>2. Reached(memory, round, held, W)'
    BY <1>1, <2>1, ReachedStays
  <2>3. \A e \in W \ waiting' : Comes(memory, held, e, Of(claims, e))'
    <3> SUFFICES ASSUME NEW e \in W \ waiting'
                 PROVE  Comes(memory, held, e, Of(claims, e))'
      OBVIOUS
    <3>1. Comes(memory', held', e, Of(claims', e))
      BY <1>1, <1>6
    <3> QED  BY <1>1, <3>1, ComesStays DEF Of
  <2>4. waiting' \subseteq W
    BY <1>1, <1>3
  <2> QED  BY <1>5, <2>2, <2>3, <2>4
<1>9. runs' = 2 => \E h : EndsWith(memory, h)' /\ previous' = {Said(h)}
  BY <1>1, <1>7, ReachedStays
<1>10. OneAnswer(memory)'
  BY DEF OneAnswer
<1>11. ~(round' = 0)
  BY <1>1, <1>2 DEF MatchInv, MatchTypeOK
<1> QED  BY <1>8, <1>9, <1>10, <1>11 DEF Led, Said

LEMMA WorkerLed ==
  ASSUME MatchInv, LedInv, NEW d \in Docs, Settle(d) \/ Adjudicate(d) \/ WorkerFails(d)
  PROVE  LedInv'
<1> SUFFICES ASSUME ~spoilt'
             PROVE  Led'
  BY DEF LedInv
<1>1. d \in waiting /\ (spoilt => spoilt')
  BY DEF Settle, Adjudicate, WorkerFails, Finished
<1>2. Led
  BY <1>1 DEF LedInv
<1>3. CASE Settle(d)
  <2>1. PICK out : /\ Finished(d, out, {}, FALSE) /\ Comes(memory', held, d, out)
                   /\ \A p \in out : p.doc = d
    BY <1>3, SettleComes DEF MatchInv
  <2>2. OneAnswer(memory')
    BY <1>2, <2>1 DEF Led, OneAnswer, Finished
  <2> QED  BY <1>1, <1>2, <2>1, <2>2, FinishedLed
<1>4. CASE Adjudicate(d)
  <2>1. OneAnswer(memory) /\ MatchTypeOK
    BY <1>2 DEF Led, MatchInv
  <2>2. /\ OneAnswer(memory')
        /\ \E out, learnt, failed : /\ Finished(d, out, learnt, failed) /\ Comes(memory', held, d, out)
                                    /\ \A p \in out : p.doc = d
    BY <1>4, <2>1, AdjudicateComes
  <2> QED  BY <1>1, <1>2, <2>2, FinishedLed
<1>5. CASE WorkerFails(d)
  BY <1>5 DEF WorkerFails, Finished
<1> QED  BY <1>3, <1>4, <1>5

(* The settled round is the one the proposals lead to.                     *)
LEMMA ResolvedIs ==
  /\ Resolved = After(claims, held)
  /\ LooksAgain = Again(claims, held)
<1>1. \A t : On(t) = For(claims, t)
  BY DEF On, For
<1>2. \A t : Winner(t) = Best(claims, t)
  BY <1>1 DEF Winner, Best
<1>3. Resolved = After(claims, held)
  BY <1>1, <1>2 DEF Resolved, After
<1>4. LooksAgain = Again(claims, held)
  BY <1>2, <1>3 DEF LooksAgain, Losers, Again
<1> QED  BY <1>3, <1>4

LEMMA PathGoesOn ==
  ASSUME NEW m, NEW k \in Nat, NEW h, NEW W, NEW c,
         Reached(m, k, h, W), Round(m, h, W, c), GoesOn(k, c, h)
  PROVE  Reached(m, k + 1, After(c, h), Again(c, h))
<1>1. PICK p : Path(m, p, k) /\ p[k] = <<h, W>>
  BY DEF Reached
<1> DEFINE next == <<After(c, h), Again(c, h)>>
           q == [i \in 1..(k + 1) |-> IF i <= k THEN p[i] ELSE next]
<1>2. k \in Nat \ {0}
  BY <1>1 DEF Path
<1>3. (\A i \in 1..k : q[i] = p[i]) /\ q[k + 1] = next
  BY <1>2
<1> HIDE DEF q
<1>4. q[1] = <<[t \in Txns |-> Nobody], Eligible>>
  <2>1. 1 \in 1..k
    BY <1>2
  <2> QED  BY <1>1, <1>3, <2>1 DEF Path
<1>5. ASSUME NEW i \in 1..((k + 1) - 1)
      PROVE  \E e : /\ Round(m, q[i][1], q[i][2], e) /\ GoesOn(i, e, q[i][1])
                    /\ q[i + 1] = <<After(e, q[i][1]), Again(e, q[i][1])>>
  <2>1. CASE i = k
    <3>1. q[k] = <<h, W>> /\ q[k + 1] = next
      BY <1>1, <1>2, <1>3
    <3> QED  BY <2>1, <3>1
  <2>2. CASE i # k
    <3>1. i \in 1..(k - 1) /\ i \in 1..k /\ i + 1 \in 1..k
      BY <1>2, <2>2
    <3>2. q[i] = p[i] /\ q[i + 1] = p[i + 1]
      BY <1>3, <3>1
    <3> QED  BY <1>1, <3>1, <3>2 DEF Path
  <2> QED  BY <2>1, <2>2
<1>6. Path(m, q, k + 1)
  <2>1. k + 1 \in Nat \ {0}
    BY <1>2
  <2> QED  BY <1>4, <1>5, <2>1 DEF Path
<1> QED  BY <1>3, <1>6 DEF Reached

LEMMA ResolveLed ==
  ASSUME MatchInv, LedInv, Resolve
  PROVE  LedInv'
<1> SUFFICES ASSUME ~spoilt'
             PROVE  Led'
  BY DEF LedInv
<1>1. /\ round > 0 /\ waiting = {} /\ held' = Resolved /\ claims' = {}
      /\ UNCHANGED <<book, rejected, memory, previous, spoilt, runs>>
  BY DEF Resolve
<1>2. Led
  BY <1>1 DEF LedInv
<1>3. PICK W : /\ Reached(memory, round, held, W)
               /\ \A x \in claims : x.doc \in W
               /\ \A e \in W : Comes(memory, held, e, Of(claims, e))
  BY <1>1, <1>2 DEF Led
<1>4. Round(memory, held, W, claims)
  BY <1>3 DEF Round
<1>5. round \in Nat
  BY DEF MatchInv, MatchTypeOK
<1>6. held' = After(claims, held)
  BY <1>1, ResolvedIs
<1>7. OneAnswer(memory)'
  BY <1>1, <1>2 DEF Led, OneAnswer
<1>8. runs' = 2 => \E h : EndsWith(memory, h)' /\ previous' = {Said(h)}
  BY <1>1, <1>2, ReachedStays DEF Led
<1>9. CASE LooksAgain # {} /\ More(\E t \in Txns : Resolved[t] = Nobody)
  <2>1. round' = round + 1 /\ waiting' = Again(claims, held)
    BY <1>9, ResolvedIs DEF Resolve
  <2>2. GoesOn(round, claims, held)
    BY <1>9, ResolvedIs DEF More, GoesOn
  <2>3. Reached(memory', round', held', waiting')
    BY <1>1, <1>3, <1>4, <1>5, <1>6, <2>1, <2>2, PathGoesOn
  <2>a. PICK V : V = waiting'
    OBVIOUS
  <2>4. Reached(memory, round, held, V)'
    <3>1. Reached(memory', round', held', V)
      BY <2>3, <2>a
    <3> QED  BY <1>1, <3>1, ReachedStays
  <2>5. ~(round' = 0)
    BY <1>5, <2>1
  <2>6. \E U : /\ Reached(memory, round, held, U)' /\ waiting' \subseteq U
               /\ \A x \in claims' : x.doc \in U \ waiting'
               /\ \A e \in U \ waiting' : Comes(memory, held, e, Of(claims, e))'
    BY <1>1, <2>a, <2>4
  <2> QED  BY <1>7, <1>8, <2>5, <2>6 DEF Led, Said
<1>10. CASE ~(LooksAgain # {} /\ More(\E t \in Txns : Resolved[t] = Nobody))
  <2>1. round' = 0
    BY <1>10 DEF Resolve
  <2>2. ~GoesOn(round, claims, held)
    BY <1>10, ResolvedIs DEF More, GoesOn
  <2>3. EndsWith(memory', held')
    BY <1>1, <1>3, <1>4, <1>6, <2>2 DEF EndsWith
  <2>4. EndsWith(memory, held)'
    BY <1>1, <2>3, ReachedStays
  <2> QED  BY <1>7, <1>8, <2>1, <2>4 DEF Led, Said
<1> QED  BY <1>9, <1>10

(* A run begins where every run begins.                                    *)
LEMMA BegunLed ==
  ASSUME OneAnswer(memory), round' = 1, waiting' = Eligible, claims' = {},
         held' = [t \in Txns |-> Nobody],
         runs' = 2 => \E h : EndsWith(memory, h) /\ previous' = {Said(h)},
         UNCHANGED <<book, rejected, memory>>
  PROVE  Led'
<1> DEFINE Free == [t \in Txns |-> Nobody]
           p == [i \in 1..1 |-> <<Free, Eligible>>]
<1>1. Path(memory, p, 1)
  <2>1. 1..(1 - 1) = {} /\ 1 \in Nat \ {0} /\ 1 \in 1..1
    OBVIOUS
  <2>2. p[1] = <<Free, Eligible>>
    BY <2>1
  <2> HIDE DEF p
  <2> QED  BY <2>1, <2>2 DEF Path
<1>2. p[1] = <<Free, Eligible>>
  OBVIOUS
<1> HIDE DEF p
<1>3. Reached(memory, 1, Free, Eligible)
  BY <1>1, <1>2 DEF Reached
<1>4. PICK W : W = Eligible
  OBVIOUS
<1>5. Reached(memory', round', held', W)
  BY <1>3, <1>4
<1>6. Reached(memory, round, held, W)'
  BY <1>5, ReachedStays
<1>7. \E U : /\ Reached(memory, round, held, U)' /\ waiting' \subseteq U
             /\ \A x \in claims' : x.doc \in U \ waiting'
             /\ \A e \in U \ waiting' : Comes(memory, held, e, Of(claims, e))'
  BY <1>4, <1>6
<1>8. OneAnswer(memory)'
  BY DEF OneAnswer
<1>9. runs' = 2 => \E h : EndsWith(memory, h)' /\ previous' = {Said(h)}
  BY ReachedStays
<1> QED  BY <1>7, <1>8, <1>9 DEF Led, Said

(* Every step of an unspoilt history goes where its memory leads.          *)
THEOREM LedInvariant == MatchSpec => []LedInv
<1>1. MatchInit => LedInv
  BY DEF MatchInit, LedInv, Led, OneAnswer
<1>2. MatchInv /\ LedInv /\ [MatchNext]_matching => LedInv'
  <2> SUFFICES ASSUME MatchInv, LedInv, [MatchNext]_matching
               PROVE  LedInv'
    OBVIOUS
  <2>1. ASSUME NEW d \in Docs, Settle(d) \/ Adjudicate(d) \/ WorkerFails(d)
        PROVE  LedInv'
    BY <2>1, WorkerLed
  <2>2. CASE Resolve
    BY <2>2, ResolveLed
  <2>3. CASE StartRun
    <3>1. round = 0 /\ runs = 0 /\ runs' = 1 /\ claims' = {}
      BY <2>3 DEF StartRun, Idle, MatchInv, RoundInv
    <3>2. held' = [t \in Txns |-> Nobody]
      <4>1. held \in [Txns -> Proposals \cup {Nobody}] /\ HeldRows = {} /\ held' = held
        BY <2>3, <3>1 DEF StartRun, MatchInv, MatchTypeOK, RoundInv
      <4> QED  BY <4>1 DEF HeldRows
    <3>3. ASSUME ~spoilt'
          PROVE  Led'
      <4>1. OneAnswer(memory)
        BY <2>3, <3>3 DEF StartRun, LedInv, Led
      <4> QED  BY <2>3, <3>1, <3>2, <4>1, BegunLed DEF StartRun
    <3> QED  BY <3>3 DEF LedInv
  <2>4. CASE Reset
    <3>1. Led /\ round = 0 /\ runs = 1 /\ claims' = {}
      BY <2>4 DEF Reset, Idle, LedInv, MatchInv, RoundInv
    <3>2. EndsWith(memory, held) /\ OneAnswer(memory)
      BY <3>1 DEF Led
    <3>3. previous' = {Said(held)}
      BY <2>4 DEF Reset, Outcome, Said
    <3> QED  BY <2>4, <3>1, <3>2, <3>3, BegunLed DEF Reset, LedInv
  <2>5. ASSUME NEW t \in Txns, Reject(t)
        PROVE  LedInv'
    BY <2>5 DEF Reject, LedInv
  <2>6. CASE UNCHANGED matching
    <3>1. UNCHANGED <<book, rejected, round, waiting, claims, held, memory, previous, spoilt, runs>>
      BY <2>6 DEF matching
    <3>2. ASSUME Led
          PROVE  Led'
      <4>1. round' > 0 => \E W : /\ Reached(memory, round, held, W)' /\ waiting' \subseteq W
                                 /\ \A x \in claims' : x.doc \in W \ waiting'
                                 /\ \A d \in W \ waiting' : Comes(memory, held, d, Of(claims, d))'
        <5> SUFFICES ASSUME round' > 0
                     PROVE  \E W : /\ Reached(memory, round, held, W)' /\ waiting' \subseteq W
                                   /\ \A x \in claims' : x.doc \in W \ waiting'
                                   /\ \A d \in W \ waiting' : Comes(memory, held, d, Of(claims, d))'
          OBVIOUS
        <5>1. PICK W : /\ Reached(memory, round, held, W) /\ waiting \subseteq W
                       /\ \A x \in claims : x.doc \in W \ waiting
                       /\ \A d \in W \ waiting : Comes(memory, held, d, Of(claims, d))
          BY <3>1, <3>2 DEF Led
        <5>2. Reached(memory, round, held, W)'
          BY <3>1, <5>1, ReachedStays
        <5>3. \A d \in W \ waiting' : Comes(memory, held, d, Of(claims, d))'
          BY <3>1, <5>1, ComesStays DEF Of
        <5> QED  BY <3>1, <5>1, <5>2, <5>3
      <4>2. round' = 0 /\ runs' > 0 => EndsWith(memory, held)'
        BY <3>1, <3>2, ReachedStays DEF Led
      <4>3. runs' = 2 => \E h : EndsWith(memory, h)' /\ previous' = {Said(h)}
        BY <3>1, <3>2, ReachedStays DEF Led
      <4>4. OneAnswer(memory)'
        BY <3>1, <3>2 DEF Led, OneAnswer
      <4> QED  BY <4>1, <4>2, <4>3, <4>4 DEF Led, Said
    <3> QED  BY <3>1, <3>2 DEF LedInv
  <2> QED  BY <2>1, <2>2, <2>3, <2>4, <2>5, <2>6 DEF MatchNext
<1> QED  BY <1>1, <1>2, MatchInvariant, PTL DEF MatchSpec

(* Two runs over the same books, with every question answered and          *)
(* remembered, come to the same matches, however the workers interleave in *)
(* either and whatever the agents answered.                                *)
THEOREM RunsRepeatAlways == MatchSpec => []RunsRepeat
<1>1. LedInv => RunsRepeat
  <2> SUFFICES ASSUME LedInv, Idle, runs = 2, ~spoilt
               PROVE  previous = {Outcome}
    BY DEF RunsRepeat
  <2>1. Led
    BY DEF LedInv
  <2>2. OneAnswer(memory) /\ EndsWith(memory, held)
    BY <2>1 DEF Led, Idle
  <2>3. PICK h : EndsWith(memory, h) /\ previous = {Said(h)}
    BY <2>1 DEF Led
  <2>4. h = held
    BY <2>2, <2>3, EndsOnce
  <2> QED  BY <2>3, <2>4 DEF Said, Outcome
<1> QED  BY <1>1, LedInvariant, PTL
=============================================================================
