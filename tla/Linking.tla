------------------------------- MODULE Linking -------------------------------
(***************************************************************************)
(* Transfers between the user's own accounts, and refunds, are pairs of    *)
(* bank rows: the deterministic linker of every run, the models' pass over *)
(* what it left, and the verbs by which a user links and unlinks           *)
(* (core/transaction_linker.py, core/llm_transaction_linker.py, the link   *)
(* half of db/database_pg.py).                                             *)
(*                                                                         *)
(* Cents and days; scores per cent, a confidence out of 10000.             *)
(***************************************************************************)
EXTENDS Integers, FiniteSets, Sequences, SequencesExt

CONSTANTS Txns,        \* bank rows, numbered in the order of date and id
          Books,       \* sets of rows the statements may hold
          BatchSize,   \* LLM_BATCH_SIZE
          MaxPairs,    \* MAX_CANDIDATES_TOTAL
          Factors,     \* linkage factors a model answers with
          MaxRuns, MaxVerbs, \* bounds: runs, and decisions of the user
          LinksWhileAsking   \* whether the user links by hand during a run

Types == {"CREDIT_CARD_PAYMENT", "INTERNAL_TRANSFER", "FX_CONVERSION", "WISE_TRANSFER",
          "REFUND", "OTHER"}
Row == [account : {"CAD", "USD", "CreditCard", "Wise"}, currency : {"CAD", "USD"}, cents : Nat \ {0},
        debit : BOOLEAN, day : Nat, rate : Nat, category : BOOLEAN, evident : BOOLEAN,
        words : SUBSET [type : Types, side : {"SOURCE", "TARGET"}, priority : Nat]]

ASSUME LinkingAssumption ==
  /\ Txns \subseteq Nat /\ IsFiniteSet(Txns)
  /\ \A b \in Books : b \in [Txns -> Row] /\ \A t \in Txns : IsFiniteSet(b[t].words)
  /\ BatchSize \in Nat \ {0} /\ MaxPairs \in Nat /\ Factors \subseteq 0..100
  /\ MaxRuns \in Nat /\ MaxVerbs \in Nat /\ LinksWhileAsking \in BOOLEAN

VARIABLES
  book,   \* what the rows say
  booked, \* rows on file
  status, \* transactions.status
  links,  \* transaction_links
  run,    \* the run: where it stands, rows it read, links to store, batches, replies
  runs, verbs

linking == <<book, booked, status, links, run, runs, verbs>>

Gap(x, y) == IF x < y THEN y - x ELSE x - y
Larger(x, y) == IF x < y THEN y ELSE x
Smaller(x, y) == IF x < y THEN x ELSE y

-----------------------------------------------------------------------------
(* Scores                                                                  *)
Certain == Types \ {"REFUND", "OTHER"}
FansOut(type) == type = "REFUND"
ValidPairs(type) ==
  CASE type = "CREDIT_CARD_PAYMENT" -> {{"CAD", "CreditCard"}, {"USD", "CreditCard"}}
    [] type \in {"INTERNAL_TRANSFER", "FX_CONVERSION"} -> {{"CAD", "USD"}}
    [] type = "WISE_TRANSFER" -> {{"CAD", "Wise"}, {"USD", "Wise"}}
    [] type = "REFUND" -> {{"CreditCard", "CAD"}, {"CreditCard", "USD"}, {"Wise", "CAD"}, {"Wise", "USD"}}
    [] OTHER -> {}
Window(type) ==
  CASE type = "CREDIT_CARD_PAYMENT" -> 7 [] type = "INTERNAL_TRANSFER" -> 4
    [] type = "FX_CONVERSION" -> 3 [] type = "WISE_TRANSFER" -> 10
    [] type = "REFUND" -> 21 [] type = "OTHER" -> 14
AutoApprove == 9200 \* the linker's line
DbApprove == 9000   \* RECONCILIATION_AUTO_APPROVE_THRESHOLD, the stored status

(* Printed rates are hundredths of Canadian dollars for one American.      *)
Rated(s, t, rate) ==
  LET out == 100 * (IF s.currency = "CAD" THEN Gap(100 * s.cents, rate * t.cents)
                    ELSE Gap(rate * s.cents, 100 * t.cents))
      whole == t.cents * (IF s.currency = "CAD" THEN rate ELSE 100)
  IN CASE 2 * out <= whole -> 95 [] 2 * out > whole /\ out <= 2 * whole -> 80 [] OTHER -> 0
Implied(s, t) ==
  LET big == 100 * Larger(s.cents, t.cents)
  IN IF 120 * Smaller(s.cents, t.cents) <= big /\ big <= 155 * Smaller(s.cents, t.cents)
     THEN 78 ELSE 0
SameMoney(s, t) ==
  LET diff == Gap(s.cents, t.cents)
  IN CASE diff = 0 -> 100 [] diff = 1 -> 98 [] diff \in 2..50 -> 85 [] diff \in 51..200 -> 60
       [] OTHER -> 0
AmountScore(s, t, rate) ==
  CASE s.currency = t.currency -> SameMoney(s, t)
    [] s.currency # t.currency /\ rate # 0 /\ Rated(s, t, rate) # 0 -> Rated(s, t, rate)
    [] OTHER -> Implied(s, t)

(* The longest step each type takes for its score                          *)
DateTiers(type) ==
  CASE type = "CREDIT_CARD_PAYMENT" -> <<<<0, 100>>, <<1, 95>>, <<2, 85>>, <<3, 70>>, <<5, 40>>, <<7, 15>>>>
    [] type = "FX_CONVERSION" -> <<<<0, 100>>, <<1, 90>>, <<2, 60>>, <<3, 30>>>>
    [] type = "WISE_TRANSFER" -> <<<<0, 100>>, <<1, 95>>, <<2, 90>>, <<3, 80>>, <<5, 60>>, <<7, 40>>, <<10, 15>>>>
    [] type = "REFUND" -> <<<<0, 100>>, <<3, 90>>, <<7, 75>>, <<14, 50>>, <<21, 25>>>>
    [] OTHER -> <<<<0, 100>>, <<1, 90>>, <<2, 70>>, <<3, 40>>>>
DateScore(days, type) ==
  LET tiers == DateTiers(type)
      fits == {i \in DOMAIN tiers : days <= tiers[i][1]}
  IN IF fits = {} THEN 0 ELSE tiers[Min(fits)][2]

(* Words on both sides that name one movement, or on one side only         *)
Agreeing(s, t) == {p \in s.words \X t.words : p[1].type = p[2].type /\ p[1].side # p[2].side}
Named(s, t) ==
  CASE Agreeing(s, t) # {} ->
         [score |-> 100,
          type |-> (CHOOSE p \in Agreeing(s, t) : \A q \in Agreeing(s, t) :
                      p[1].priority + p[2].priority >= q[1].priority + q[2].priority)[1].type]
    [] Agreeing(s, t) = {} /\ s.words \cup t.words # {} ->
         [score |-> 60,
          type |-> (CHOOSE w \in s.words \cup t.words :
                      \A v \in s.words \cup t.words : w.priority >= v.priority).type]
    [] OTHER -> [score |-> 15, type |-> "OTHER"]
PairScore(s, t, type) ==
  CASE {s.account, t.account} \in ValidPairs(type) -> 100
    [] {s.account, t.account} \notin ValidPairs(type)
         /\ \E other \in Types : {s.account, t.account} \in ValidPairs(other) -> 50
    [] OTHER -> 0

Adjusted(s, t, type, amount, words, accounts, weighed) ==
  CASE type \in Certain /\ amount = 100 /\ words = 100 /\ accounts = 100 -> Larger(weighed, AutoApprove)
    [] s.currency = t.currency /\ amount < 100 -> Smaller(weighed, 8500)
    [] OTHER -> weighed

(* One pair of rows, the first on file before the second; {} or a candidate*)
Candidate(x, y) ==
  LET s == book[x]
      t == book[y]
      rate == IF s.rate # 0 THEN s.rate ELSE t.rate
      named == Named(s, t)
      type == IF rate # 0 /\ s.currency # t.currency /\ named.type # "WISE_TRANSFER"
              THEN "FX_CONVERSION" ELSE named.type
      days == Gap(s.day, t.day)
      amount == AmountScore(s, t, rate)
      accounts == PairScore(s, t, type)
      weighed == 45 * amount + 25 * DateScore(days, type) + 20 * named.score + 10 * accounts
  IN IF weighed < 5500 \/ days > Window(type) THEN {}
     ELSE {[src |-> IF s.debit THEN x ELSE y, tgt |-> IF s.debit THEN y ELSE x, type |-> type,
            conf |-> Adjusted(s, t, type, amount, named.score, accounts, weighed),
            at |-> <<x, y>>]}

Opposite(x, y) ==
  x < y /\ book[x].account # book[y].account /\ book[x].debit # book[y].debit

-----------------------------------------------------------------------------
(* Greedy assignment, best first, ties in the order of the input: a row    *)
(* takes one link, but the charge of a refund takes more of them, of one   *)
(* group and up to its own amount.                                         *)
Earlier(a, b) == a[1] < b[1] \/ (a[1] = b[1] /\ a[2] < b[2])
Surer(a, b) == a.conf > b.conf \/ (a.conf = b.conf /\ Earlier(a.at, b.at))
ByRank(S, before(_, _)) ==
  [i \in 1..Cardinality(S) |-> CHOOSE c \in S : Cardinality({d \in S : before(d, c)}) = i - 1]
Best(cands) == ByRank(cands, Surer)

Nothing == [taken |-> <<>>, used |-> {}, anchors |-> {}, claimed |-> [t \in Txns |-> 0]]
Capped(c) == FansOut(c.type) /\ book[c.src].currency = book[c.tgt].currency
Fits(acc, c) == Capped(c) => acc.claimed[c.src] + book[c.tgt].cents <= book[c.src].cents + 1

(* mutant: a target may become an anchor                                   *)
FreeForAll(acc, c) == c.tgt \notin acc.used
Free(acc, c) ==
  /\ c.tgt \notin acc.used \cup acc.anchors /\ c.src \notin acc.used
  /\ c.src \in acc.anchors => FansOut(c.type)

Take(acc, c) ==
  IF Free(acc, c) /\ Fits(acc, c)
  THEN [taken |-> Append(acc.taken, [src |-> c.src, tgt |-> c.tgt, type |-> c.type, conf |-> c.conf]),
        used |-> acc.used \cup {c.tgt} \cup (IF FansOut(c.type) THEN {} ELSE {c.src}),
        anchors |-> acc.anchors \cup (IF FansOut(c.type) THEN {c.src} ELSE {}),
        claimed |-> IF Capped(c) THEN [acc.claimed EXCEPT ![c.src] = @ + book[c.tgt].cents] ELSE acc.claimed]
  ELSE acc
Greedy(ranked) ==
  LET acc[n \in 0..Len(ranked)] == IF n = 0 THEN Nothing ELSE Take(acc[n - 1], ranked[n])
  IN acc[Len(ranked)].taken

-----------------------------------------------------------------------------
(* Links on file                                                           *)
Pair(l) == {l.src, l.tgt}
Live == {l \in links : l.status # "USER_REJECTED"}
LinkedRows == UNION {Pair(l) : l \in Live}
Refused == {Pair(l) : l \in {k \in links : k.status = "USER_REJECTED"}}
Explained(t, S) == \E l \in S : t \in Pair(l) /\ l.status # "USER_REJECTED"

(* _resync_transaction_statuses, with no match rows about                  *)
Resync(st, S, rows) ==
  [t \in Txns |->
     CASE t \in rows /\ st[t] = "IGNORED" /\ Explained(t, S) -> "LINKED"
       [] t \in rows /\ st[t] \in {"LINKED", "UNMATCHED"} ->
            IF Explained(t, S) THEN "LINKED" ELSE "UNMATCHED"
       [] OTHER -> st[t]]

(* The live links between the rows are a forest (fn_prevent_link_cycle,    *)
(* idx_transaction_links_dedup); a longer walk than two steps closes none  *)
(* on the instances here.                                                  *)
Reaches(x, S) ==
  LET grow(R) == R \cup UNION {Pair(l) : l \in {k \in S : Pair(k) \cap R # {}}}
  IN FoldLeft(LAMBDA R, i : grow(R), {x}, [i \in 1..Cardinality(S) |-> i])
Acceptable(l) == l.tgt \notin Reaches(l.src, Live)

StoredAs(l, by) ==
  [src |-> l.src, tgt |-> l.tgt, type |-> l.type, by |-> by, run |-> runs, nth |-> Cardinality(links),
   status |-> CASE by = "MANUAL" -> "USER_APPROVED"
                [] by # "MANUAL" /\ l.conf >= DbApprove -> "AUTO_APPROVED"
                [] OTHER -> "PENDING_REVIEW"]
Inserted(rows) ==
  /\ links' = links \cup rows
  /\ status' = [t \in Txns |-> IF t \in UNION {Pair(l) : l \in rows} /\ status[t] \in {"UNMATCHED", "IGNORED"}
                               THEN "LINKED" ELSE status[t]]

-----------------------------------------------------------------------------
Idle == [at |-> "idle", seen |-> {}, mine |-> {}, todo |-> <<>>, batches |-> <<>>, replies |-> <<>>]

LinkInit ==
  /\ book \in Books /\ booked = {} /\ status = [t \in Txns |-> "none"] /\ links = {}
  /\ run = Idle /\ runs = 0 /\ verbs = 0

(* A statement brings a row.                                               *)
Arrive(t) ==
  /\ t \notin booked /\ booked' = booked \cup {t} /\ status' = [status EXCEPT ![t] = "UNMATCHED"]
  /\ UNCHANGED <<book, links, run, runs, verbs>>

(* Or it is proved by a receipt.                                           *)
Proved(t) ==
  /\ run.at = "idle" /\ t \in booked /\ status[t] = "UNMATCHED" /\ verbs < MaxVerbs
  /\ status' = [status EXCEPT ![t] = "MATCHED"] /\ verbs' = verbs + 1
  /\ UNCHANGED <<book, booked, links, run, runs>>

(* mutant: a row that needs no receipt is out of the pool                  *)
PoolOfUnmatched == {t \in booked \ LinkedRows : status[t] = "UNMATCHED"}
Pool == {t \in booked \ LinkedRows : status[t] \in {"UNMATCHED", "IGNORED"}}
Transferable == {t \in Pool : book[t].category \/ book[t].words # {}}

(* mutant: a pair once refused may come again                              *)
AnyPair(S) == {p \in S \X S : Opposite(p[1], p[2])}
Pairs(S) == {p \in S \X S : Opposite(p[1], p[2]) /\ {p[1], p[2]} \notin Refused}

(* The rows to reconcile are read before the linker runs.                  *)
Begin ==
  /\ run.at = "idle" /\ runs < MaxRuns /\ runs' = runs + 1
  /\ run' = [Idle EXCEPT !.at = "linking",
                         !.seen = {t \in booked : status[t] = "UNMATCHED"},
                         !.todo = Greedy(Best(UNION {Candidate(p[1], p[2]) : p \in Pairs(Transferable)}))]
  /\ UNCHANGED <<book, booked, status, links, verbs>>

(* Each link is a transaction of its own; one that is refused is skipped.  *)
StoreLink ==
  /\ run.at \in {"linking", "storing"} /\ run.todo # <<>>
  /\ LET l == Head(run.todo)
     IN /\ IF Acceptable(l) THEN Inserted({StoredAs(l, run.at)}) ELSE UNCHANGED <<links, status>>
        /\ run' = [run EXCEPT !.todo = Tail(@), !.mine = @ \cup (IF Acceptable(l) THEN Pair(l) ELSE {})]
  /\ UNCHANGED <<book, booked, runs, verbs>>

(* What needs no receipt is set aside, but not what was just linked.       *)
Evident == {t \in run.seen \ run.mine : book[t].evident}
SetAside(scoped) ==
  /\ run.at = "linking" /\ run.todo = <<>>
  /\ status' = [t \in Txns |-> IF t \in Evident THEN "IGNORED" ELSE status[t]]
  /\ run' = IF scoped THEN Idle ELSE [run EXCEPT !.at = "matching"]
  /\ UNCHANGED <<book, booked, links, runs, verbs>>

(* The fourth pass: pairs near in date and amount, best first, in batches. *)
Plausible(x, y) ==
  LET s == book[x]
      t == book[y]
      diff == Gap(s.cents, t.cents)
  IN /\ Gap(s.day, t.day) <= 21
     /\ IF s.currency = t.currency
        THEN diff <= 5000 \/ 10 * diff <= 3 * Larger(s.cents, t.cents)
        ELSE 100 * Larger(s.cents, t.cents) <= 155 * Smaller(s.cents, t.cents)
Promise(x, y) ==
  LET s == book[x]
      t == book[y]
      ratio == (100 * Larger(s.cents, t.cents)) \div Smaller(s.cents, t.cents)
      money == CASE s.currency = t.currency -> 100 - (100 * Gap(s.cents, t.cents)) \div Larger(s.cents, t.cents)
                 [] s.currency # t.currency /\ ratio \in 120..155 -> 100 - (50 * Gap(1000 * ratio, 137500)) \div 17500
                 [] OTHER -> 30
  IN 50 * money + (30 * 100 * (21 - Gap(s.day, t.day))) \div 21
     + 20 * (IF {s.account, t.account} \in {{"CAD", "CreditCard"}, {"USD", "CreditCard"}, {"CAD", "USD"},
                                             {"CAD", "Wise"}, {"USD", "Wise"}} THEN 100 ELSE 50)
Askable == {p \in Pairs(booked \ (LinkedRows \cup run.mine)) : Plausible(p[1], p[2])}
Likelier(p, q) ==
  \/ Promise(p[1], p[2]) > Promise(q[1], q[2])
  \/ Promise(p[1], p[2]) = Promise(q[1], q[2]) /\ Earlier(p, q)
Ranked(S) == ByRank(S, Likelier)
Batched(seq) ==
  [i \in 1..((Len(seq) + BatchSize - 1) \div BatchSize) |->
     SubSeq(seq, (i - 1) * BatchSize + 1, Smaller(i * BatchSize, Len(seq)))]

Ask ==
  /\ run.at = "matching" /\ Cardinality(booked) >= 2
  /\ LET ranked == Ranked(Askable)
         batches == Batched(SubSeq(ranked, 1, Smaller(MaxPairs, Len(ranked))))
     IN run' = [run EXCEPT !.at = "asking", !.batches = batches, !.replies = [i \in DOMAIN batches |-> <<"open">>]]
  /\ UNCHANGED <<book, booked, status, links, runs, verbs>>

(* A batch is answered pair by pair, or fails as a whole.                  *)
Verdicts(batch) ==
  [1..Len(batch) -> [factor : Factors, type : {"REFUND", "OTHER"}]]
Answer(i) ==
  /\ run.at = "asking" /\ run.replies[i] = <<"open">>
  /\ \E reply \in {<<"failed">>} \cup {<<"said", v>> : v \in Verdicts(run.batches[i])} :
        run' = [run EXCEPT !.replies[i] = reply]
  /\ UNCHANGED <<book, booked, status, links, runs, verbs>>

Heard(i) ==
  IF run.replies[i] = <<"failed">> THEN {}
  ELSE {LET p == run.batches[i][k]
            v == run.replies[i][2][k]
        IN [src |-> IF book[p[1]].debit THEN p[1] ELSE p[2], tgt |-> IF book[p[1]].debit THEN p[2] ELSE p[1],
            type |-> v.type, conf |-> 95 * v.factor, at |-> <<i, k>>]
          : k \in DOMAIN run.batches[i]}
Assign ==
  /\ run.at = "asking" /\ \A i \in DOMAIN run.replies : run.replies[i] # <<"open">>
  /\ LET heard == {c \in UNION {Heard(i) : i \in DOMAIN run.replies} : c.conf >= 95 * 55}
     IN run' = [run EXCEPT !.at = "storing", !.todo = Greedy(Best(heard)), !.batches = <<>>, !.replies = <<>>]
  /\ UNCHANGED <<book, booked, status, links, runs, verbs>>

Finish ==
  /\ \/ run.at = "storing" /\ run.todo = <<>>
     \/ run.at = "matching" /\ Cardinality(booked) < 2
  /\ run' = Idle /\ UNCHANGED <<book, booked, status, links, runs, verbs>>

-----------------------------------------------------------------------------
(* The user                                                                *)
Verb == verbs < MaxVerbs /\ verbs' = verbs + 1 /\ UNCHANGED <<book, booked, run, runs>>
Stamped(S, st) == (links \ S) \cup {[l EXCEPT !.status = st] : l \in S}

(* DELETE /links/{id}, /link-groups/{chain}: the row stays, refused.       *)
Unlink(S) ==
  /\ Verb /\ S # {} /\ links' = Stamped(S, "USER_REJECTED")
  /\ status' = Resync(status, links', UNION {Pair(l) : l \in S})

(* PATCH /links/{id}: a refusal re-derives both rows, an approval does not.*)
Approve(l) ==
  /\ Verb /\ \A k \in Live \ {l} : Pair(k) # Pair(l)
  /\ (l \in Live \/ Acceptable(l))
  /\ links' = Stamped({l}, "USER_APPROVED") /\ UNCHANGED status

(* POST /links: all the legs or none                                       *)
LinkByHand(x, S) ==
  /\ Verb /\ x \in booked /\ S \subseteq booked \ {x} /\ S # {}
  /\ run.at # "idle" => LinksWhileAsking
  /\ S \cap Reaches(x, Live) = {}
  /\ \A t \in S, u \in S : t # u => u \notin Reaches(t, Live)
  /\ Inserted({StoredAs([src |-> x, tgt |-> t, type |-> "OTHER", conf |-> 10000], "MANUAL") : t \in S})

LinkNext ==
  \/ \E t \in Txns : Arrive(t) \/ Proved(t)
  \/ Begin \/ StoreLink \/ SetAside(TRUE) \/ SetAside(FALSE) \/ Ask \/ Assign \/ Finish
  \/ \E i \in DOMAIN run.replies : Answer(i)
  \/ \E l \in Live : Unlink({l}) \/ Unlink({k \in Live : FansOut(k.type) /\ k.src = l.src /\ k.run = l.run})
  \/ \E l \in links : Approve(l)
  \/ \E x \in Txns, S \in SUBSET Txns : Cardinality(S) <= 2 /\ LinkByHand(x, S)

LinkSpec == LinkInit /\ [][LinkNext]_linking

-----------------------------------------------------------------------------
(* Properties                                                              *)

LinkTypeOK ==
  /\ book \in Books /\ booked \subseteq Txns
  /\ status \in [Txns -> {"none", "UNMATCHED", "MATCHED", "LINKED", "IGNORED"}]
  /\ \A l \in links : /\ l.src \in booked /\ l.tgt \in booked /\ l.type \in Types
                      /\ l.by \in {"linking", "storing", "MANUAL"} /\ l.run \in 0..MaxRuns
                      /\ l.status \in {"AUTO_APPROVED", "PENDING_REVIEW", "USER_APPROVED", "USER_REJECTED"}
  /\ run.at \in {"idle", "linking", "matching", "asking", "storing"} /\ runs \in 0..MaxRuns

(* Of the links the runs made and nobody decided on, two that share a row  *)
(* are two refunds of one charge: the linker, the models' pass of the same *)
(* run and the next run never give a row twice.                            *)
Undecided == {l \in links : l.status \in {"AUTO_APPROVED", "PENDING_REVIEW"}}
OneLinkEach ==
  \A k, l \in Undecided : k # l /\ Pair(k) \cap Pair(l) # {}
    => k.type = "REFUND" /\ l.type = "REFUND" /\ k.src = l.src /\ k.run = l.run

(* The refunds that runs booked on a charge in its currency do not add up  *)
(* to more than the charge and a cent.                                     *)
RefundsWithinCharge ==
  \A t \in booked :
     LET legs == {l \in Undecided : l.src = t /\ l.type = "REFUND" /\ book[l.tgt].currency = book[t].currency}
     IN SumFunction([l \in legs |-> book[l.tgt].cents]) <= book[t].cents + 1

(* The deterministic linker approves no pair whose amounts in one currency *)
(* differ, be it by a cent on the same day with both sides named. (The     *)
(* models' pass knows no such ceiling: a pair its model is sure of is      *)
(* approved, the amounts differing or not.)                                *)
MismatchIsReviewed ==
  \A l \in links : l.by = "linking" /\ book[l.src].currency = book[l.tgt].currency
                     /\ book[l.src].cents # book[l.tgt].cents
                   => l.status # "AUTO_APPROVED"

(* What the models' pass links, approved or not, is money that left one    *)
(* account and money that entered another within three weeks, and the      *)
(* amounts are near enough to have been shown to the model: 50 dollars or  *)
(* 30 per cent apart in one currency, 55 per cent across two.              *)
Joins(x, y) ==
  /\ book[x].account # book[y].account /\ book[x].debit /\ ~ book[y].debit
  /\ Plausible(x, y)
AnswersArePlausible == \A l \in links : l.by = "storing" => Joins(l.src, l.tgt)

(* Two legs named from both sides, equal, on a pair of accounts that fits, *)
(* are settled by the run, whatever the calendar between them within their *)
(* window.                                                                 *)
CertainPair(x, y) ==
  LET named == Named(book[x], book[y])
  IN /\ Opposite(x, y) /\ named.score = 100 /\ named.type \in Certain
     /\ book[x].currency = book[y].currency /\ book[x].cents = book[y].cents
     /\ {book[x].account, book[y].account} \in ValidPairs(named.type)
     /\ Gap(book[x].day, book[y].day) <= Window(named.type)
CertainIsApproved ==
  \A l \in links : l.by = "linking" /\ (CertainPair(l.src, l.tgt) \/ CertainPair(l.tgt, l.src))
                   => l.status # "PENDING_REVIEW"

(* A row reads as linked only while a link explains it.                    *)
LinkedHasALink == \A t \in Txns : status[t] = "LINKED" => Explained(t, links)

(* What the runs link is sound: no row twice, no refund of more than was   *)
(* paid, the certain settled, the deterministic linker's near misses left  *)
(* to the user, nothing far apart linked on a model's word, and every row  *)
(* that reads as linked explained.                                         *)
LinksAreSound ==
  /\ LinkTypeOK /\ OneLinkEach /\ RefundsWithinCharge /\ MismatchIsReviewed
  /\ AnswersArePlausible /\ CertainIsApproved /\ LinkedHasALink

(* A run leaves no such pair with both legs free: a leg an earlier run set *)
(* aside because it needs no receipt is found when the other statement     *)
(* comes.                                                                  *)
LegsFindEachOther ==
  [][run.at = "idle" /\ run'.at = "linking" =>
       \A x, y \in booked :
          CertainPair(x, y) /\ {x, y} \notin Refused /\ {x, y} \cap LinkedRows = {}
          /\ {status[x], status[y]} \subseteq {"UNMATCHED", "IGNORED"}
            => {x, y} \cap UNION {Pair(run'.todo[i]) : i \in DOMAIN run'.todo} # {}]_linking

(* A link a run made and the user took back is not made again by any run,  *)
(* the one under way included. (A link made by hand and taken back between *)
(* a pass's reading and its storing is.)                                   *)
RefusedStaysUnlinked ==
  [][\A l \in links' : l.nth >= Cardinality(links) /\ l.by # "MANUAL" =>
       ~ \E k \in links : k.by # "MANUAL" /\ k.status = "USER_REJECTED" /\ Pair(k) = Pair(l)]_linking
=============================================================================
