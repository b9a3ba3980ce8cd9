------------------------------ MODULE Matching ------------------------------
(***************************************************************************)
(* One matching run (core/reconciliation.py: find_matches): workers take   *)
(* the proofs in any order, each proposes at most one bank row out of what *)
(* earlier rounds left, the round is settled by score, and the proofs that *)
(* lost their row look again, three times in all. The models' answers are  *)
(* remembered (core/adjudication_memory.py); a user may reject a pair, or  *)
(* reset the matches, and run again.                                       *)
(*                                                                         *)
(* A worker reads nothing another worker writes, so it is one step; what   *)
(* the order of the workers decides is the order of the proposals.         *)
(***************************************************************************)
EXTENDS PairScoring, FiniteSets

CONSTANTS Docs,       \* documents, numbered
          Txns,       \* bank rows
          Books,      \* [papers : [Docs -> Paper], rows : [Txns -> Row]]
          MaxRounds,  \* _MAX_CLAIM_ROUNDS
          AmountAgent,\* RECONCILIATION_AMOUNT_AGENT_LLM
          Labels,     \* the confidences an agent may report, as scores
          Narrowings  \* bound: the lists the first two agents answer with

ASSUME MatchingAssumption ==
  /\ Docs \subseteq Nat \ {0} /\ IsFiniteSet(Docs) /\ Txns \subseteq Nat /\ IsFiniteSet(Txns)
  /\ MaxRounds \in Nat \ {0}
  /\ \A b \in Books : b.papers \in [Docs -> Paper] /\ b.rows \in [Txns -> Row]
  /\ AmountAgent \in BOOLEAN /\ Labels \subseteq {9000, 7000, 5000}
  /\ Narrowings \subseteq SUBSET Txns

VARIABLES
  book,     \* what was uploaded
  rejected, \* pairs a user rejected
  round,    \* 0 between runs
  waiting,  \* documents whose worker has not finished
  claims,   \* proposals of this round
  held,     \* the proposal that holds each row, settled by an earlier round or run
  memory,   \* questions asked, with the replies
  previous, \* history: the holders the last run came to
  spoilt,   \* history: a question went unanswered, or a pair was rejected
  runs      \* runs so far

matching == <<book, rejected, round, waiting, claims, held, memory, previous, spoilt, runs>>

Doc(d) == Document(book.papers[d])
Txn(t) == book.rows[t]

Nobody == [doc |-> 0, txn |-> 0, conf |-> 0, flagged |-> FALSE]
Proposals == [doc : Docs, txn : Txns, conf : 0..10000, flagged : BOOLEAN]

NoReply == <<>>
Says(rows) == <<rows>>
HeldRows == {t \in Txns : held[t] # Nobody}
Eligible == {d \in Docs : Doc(d).total # 0}

MatchTypeOK ==
  /\ book \in Books /\ rejected \subseteq Docs \X Txns
  /\ round \in 0..MaxRounds /\ waiting \subseteq Docs
  /\ claims \subseteq Proposals
  /\ held \in [Txns -> Proposals \cup {Nobody}] /\ runs \in 0..2 /\ spoilt \in BOOLEAN
  /\ \A m \in memory : m[2] # NoReply

-----------------------------------------------------------------------------
(* The agents: a reply, a reply already known, or none at all              *)
Question(agent, d, shown) == <<agent, d, shown>>
Known(q) == \E m \in memory : m[1] = q
Reply(q, r) == IF Known(q) THEN <<q, r>> \in memory ELSE TRUE

Learns(q, r) == IF r = NoReply THEN {} ELSE {<<q, r>>}

(* mutant: rows an earlier round gave away are in it                       *)
PoolOfAll(d) == {t \in Txns : <<d, t>> \notin rejected}
Pool(d) == {t \in Txns \ HeldRows : <<d, t>> \notin rejected}
Compatible(d) == {t \in Pool(d) : SignCompatible(Doc(d), Txn(t))}
Shortlist(d) == {t \in Compatible(d) : Shortlisted(Doc(d), Txn(t))}

(* What was shortlisted is shown whatever the envelope says.               *)
Shown(d) == {t \in Compatible(d) : WithinEnvelope(Doc(d), Txn(t))} \cup Shortlist(d)

(* Pass 1 adds to the deterministic shortlist and never takes from it.     *)
AmountReplies(d) ==
  IF AmountAgent /\ Shown(d) # {} THEN {Says(S) : S \in Narrowings \cap SUBSET Shown(d)} \cup {NoReply} ELSE {NoReply}
Amounts(d, r) == Shortlist(d) \cup (IF r = NoReply THEN {} ELSE r[1])

(* Pass 2 keeps to the user's date variance, and never empties the list.   *)
Dated(d, S) == {t \in S : InTime(Doc(d), Txn(t))}
DateReplies(S) == IF Cardinality(S) > 1 THEN {Says(R) : R \in Narrowings \cap SUBSET S} \cup {NoReply} ELSE {NoReply}
Kept(S, r) == IF r \in {NoReply, Says({})} THEN S ELSE r[1]

(* Pass 3: one row and a label, no row, or the weighted score.             *)
FinalReplies(S) ==
  IF Cardinality(S) > 1 THEN {Says({<<t, label>>}) : t \in S, label \in Labels} \cup {Says({}), NoReply} ELSE {NoReply}

(* The first of the best, in the order of the ids                          *)
Deterministic(d, S) ==
  CHOOSE t \in S : \A u \in S : \/ Confidence(Doc(d), Txn(t)) > Confidence(Doc(d), Txn(u))
                                \/ /\ Confidence(Doc(d), Txn(t)) = Confidence(Doc(d), Txn(u))
                                   /\ t <= u

Proposal(d, t, conf) ==
  [doc |-> d, txn |-> t, conf |-> conf, flagged |-> Flagged(Doc(d), Txn(t), conf)]

Picked(d, S, r) ==
  CASE S = {} \/ r = Says({}) -> {}
    [] S # {} /\ r = NoReply ->
         {Proposal(d, Deterministic(d, S), Confidence(Doc(d), Txn(Deterministic(d, S))))}
    [] OTHER -> {Proposal(d, choice[1], choice[2]) : choice \in r[1]}

Obvious(d) ==
  \E t \in Compatible(d) : Shortlist(d) = {t} /\ Unambiguous(Doc(d), Txn(t))

(* mutant: who comes first has the row                                     *)
FirstHolds(proposal) == {p \in proposal : \A q \in claims : q.txn # p.txn}
Proposed(proposal) == proposal

(* A bound: one failure in a history.                                      *)
Finished(d, proposal, learnt, failed) ==
  /\ ~(failed /\ spoilt)
  /\ waiting' = waiting \ {d} /\ spoilt' = (spoilt \/ failed)
  /\ claims' = claims \cup Proposed(proposal) /\ memory' = memory \cup learnt
  /\ UNCHANGED <<book, rejected, round, held, previous, runs>>

(* Settled without an agent                                                *)
Settle(d) ==
  /\ d \in waiting /\ Obvious(d)
  /\ Finished(d, Picked(d, Shortlist(d), NoReply), {}, FALSE)

Adjudicate(d) ==
  /\ d \in waiting /\ ~Obvious(d)
  /\ \E r1 \in AmountReplies(d) :
       LET S1 == Amounts(d, r1)
           S2 == Dated(d, S1)
           q1 == Question("amount", d, Shown(d))
       IN /\ Reply(q1, r1)
          /\ \E r2 \in DateReplies(S2) :
               LET S3 == Kept(S2, r2)
                   q2 == Question("date", d, S2)
               IN /\ Reply(q2, r2)
                  /\ \E r3 \in FinalReplies(S3) :
                       LET q3 == Question("final", d, S3)
                       IN /\ Reply(q3, r3)
                          /\ Finished(d, Picked(d, S3, r3),
                                      Learns(q1, r1) \cup Learns(q2, r2) \cup Learns(q3, r3),
                                      \/ r1 = NoReply /\ AmountReplies(d) # {NoReply}
                                      \/ r2 = NoReply /\ DateReplies(S2) # {NoReply}
                                      \/ r3 = NoReply /\ FinalReplies(S3) # {NoReply})

(* A worker that raises proposes nothing.                                  *)
WorkerFails(d) == d \in waiting /\ ~Obvious(d) /\ Finished(d, {}, {}, TRUE)

-----------------------------------------------------------------------------
(* _Proposal.order_key                                                     *)
Key(p) == <<IF p.flagged THEN 1 ELSE 0, -p.conf, -AmountScore(Doc(p.doc), Txn(p.txn)),
            DateGap(Doc(p.doc), Txn(p.txn)), p.doc>>

Below(k, l) == \E i \in 1..5 : k[i] < l[i] /\ \A j \in 1..(i - 1) : k[j] = l[j]

Precedes(p, q) == Below(Key(p), Key(q))

On(t) == {p \in claims : p.txn = t}
Winner(t) == CHOOSE p \in On(t) : \A q \in On(t) : q = p \/ Precedes(p, q)

Resolved == [t \in Txns |-> IF On(t) # {} THEN Winner(t) ELSE held[t]]
Losers == {p \in claims : p # Winner(p.txn)}

LooksAgain == {p.doc : p \in Losers} \ {Resolved[t].doc : t \in Txns}

(* mutant: the third round is never run                                    *)
MoreRounds(free) == round < MaxRounds - 1 /\ free
More(free) == round < MaxRounds /\ free

(* The round is settled, and those who lost are run against the rest.      *)
Resolve ==
  /\ round > 0 /\ waiting = {}
  /\ held' = Resolved
  /\ claims' = {}
  /\ IF LooksAgain # {} /\ More(\E t \in Txns : Resolved[t] = Nobody)
     THEN round' = round + 1 /\ waiting' = LooksAgain
     ELSE round' = 0 /\ waiting' = {}
  /\ UNCHANGED <<book, rejected, memory, previous, spoilt, runs>>

-----------------------------------------------------------------------------
MatchInit ==
  /\ book \in Books /\ rejected = {} /\ round = 0 /\ waiting = {} /\ claims = {}
  /\ held = [t \in Txns |-> Nobody] /\ memory = {} /\ previous = {}
  /\ spoilt = FALSE /\ runs = 0

Idle == round = 0
Outcome == [t \in Txns |-> <<held[t].doc, held[t].conf, held[t].flagged>>]

StartRun ==
  /\ Idle /\ runs = 0
  /\ round' = 1 /\ waiting' = Eligible /\ runs' = 1
  /\ UNCHANGED <<book, rejected, claims, held, memory, previous, spoilt>>

(* The user resets the matches and runs again: the memory is reloaded. Only*)
(* a run that had all its answers is run again, to compare the two.        *)
Reset ==
  /\ Idle /\ runs = 1 /\ ~spoilt
  /\ previous' = {Outcome}
  /\ round' = 1 /\ waiting' = Eligible /\ runs' = 2
  /\ held' = [t \in Txns |-> Nobody]
  /\ UNCHANGED <<book, rejected, claims, memory, spoilt>>

(* Or rejects one of the matches and runs again: what else was settled is  *)
(* out of both pools, what was only suggested is in them.                  *)
Settled(t) == {u \in HeldRows \ {t} : ~held[u].flagged}
Reject(t) ==
  /\ Idle /\ runs = 1 /\ ~spoilt /\ held[t] # Nobody
  /\ rejected' = rejected \cup {<<held[t].doc, t>>}
  /\ round' = 1 /\ waiting' = Eligible \ {held[u].doc : u \in Settled(t)} /\ runs' = 2
  /\ held' = [u \in Txns |-> IF u \in Settled(t) THEN held[u] ELSE Nobody] /\ spoilt' = TRUE
  /\ UNCHANGED <<book, claims, memory, previous>>

MatchNext ==
  \/ \E d \in Docs : Settle(d) \/ Adjudicate(d) \/ WorkerFails(d)
  \/ Resolve \/ StartRun \/ Reset
  \/ \E t \in Txns : Reject(t)

MatchSpec == MatchInit /\ [][MatchNext]_matching

-----------------------------------------------------------------------------
(* Properties                                                              *)

(* Who holds a row is decided by the scores: run again on the same books,  *)
(* with every question answered and remembered, the matches come out the   *)
(* same however the workers interleave (_TxnClaims, AdjudicationMemory).   *)
RunsRepeat == Idle /\ runs = 2 /\ ~spoilt => previous = {Outcome}

(* Three equal receipts against three equal rows end up matched one each;  *)
(* any proofs that all fit all the rows are matched until one side runs    *)
(* out, unless an agent said that none fits (_MAX_CLAIM_ROUNDS).           *)
AllFit ==
  \A d \in Docs, t \in Txns :
     /\ Doc(d).total # 0 /\ SignCompatible(Doc(d), Txn(t))
     /\ Shortlisted(Doc(d), Txn(t)) /\ InTime(Doc(d), Txn(t))
SaidNone == \E m \in memory : m[1][1] = "final" /\ m[2] = Says({})
TwinsAllMatched ==
  (Idle /\ runs > 0 /\ ~spoilt /\ AllFit /\ ~SaidNone /\ Cardinality(Docs) <= MaxRounds)
    => HeldRows = Txns \/ \A d \in Docs : \E t \in Txns : held[t].doc = d

(* No proof is held by two rows: a document looks again only if it holds   *)
(* nothing (held_doc_ids).                                                 *)
OneProofOneRow ==
  \A t \in HeldRows, u \in HeldRows : t # u => held[t].doc # held[u].doc

(* A pair a user rejected is neither proposed nor matched again, also when *)
(* the models' answers are the remembered ones (rejected_pairs).           *)
RejectedStaysOut ==
  \A p \in claims \cup {held[t] : t \in HeldRows} : <<p.doc, p.txn>> \notin rejected

(* A match that is settled and not a suggestion rests on amounts: the same *)
(* money, to a wire fee, in the currency the document is read in or when   *)
(* none is known, a rate of the band, a converted figure, or the quoted    *)
(* dollars (score_amount, classify_match). Between two known currencies    *)
(* there is no exception, however confident an agent was. Within one there *)
(* is: a row near enough to have been shown keeps a base score whatever it *)
(* differs by, and settles on an agent's word, or on the day and the name. *)
AmountsAgree(d, row) ==
  LET c == ResolveDocumentCurrency(d)
  IN \/ SameCurrency(row, c) /\ Gap(row.cents, d.total) <= WireFee
     \/ row.currency = "CAD" /\ c.code = "USD" /\ InBand(row.cents, d.total)
     \/ row.currency = "USD" /\ c.code = "CAD" /\ InBand(d.total, row.cents)
     \/ Alternative(d) /\ Gap(row.cents, d.amount) <= WireFee
     \/ row.card /\ row.usd # 0 /\ Gap(row.usd, d.total) <= 100
AgentChose(p) ==
  \E m \in memory : m[1][1] = "final" /\ m[1][2] = p.doc /\ m[2] = Says({<<p.txn, p.conf>>})
NearEnough(d, row) == Shortlisted(d, row) \/ WithinEnvelope(d, row)
SettledOnEvidence ==
  \A t \in HeldRows :
     LET d == Doc(held[t].doc)
     IN ~held[t].flagged =>
          \/ AmountsAgree(d, Txn(t))
          \/ /\ SameCurrency(Txn(t), ResolveDocumentCurrency(d)) /\ NearEnough(d, Txn(t))
             /\ AgentChose(held[t]) \/ Confidence(d, Txn(t)) >= Floor

(* Money out is never settled by a sale, nor a line that names one party by*)
(* the proof of another (check_sign_compatibility, _merchant_contradiction)*)
RightParty ==
  \A t \in HeldRows :
     /\ book.rows[t].expense # book.papers[held[t].doc].income
     /\ ~held[t].flagged => \/ book.rows[t].names \in {"", "rail"}
                            \/ book.papers[held[t].doc].vendor \in {"", book.rows[t].names}

(* A row a round has settled keeps its proof for the rest of the run.      *)
HeldIsKept ==
  [][\A t \in HeldRows : round > 0 => held'[t] = held[t]]_matching

(* A run's matches stand on evidence: the money, the party, one proof for  *)
(* one row, and nothing the user has refused.                              *)
MatchesAreEarned ==
  MatchTypeOK /\ SettledOnEvidence /\ RightParty /\ OneProofOneRow /\ RejectedStaysOut
=============================================================================
