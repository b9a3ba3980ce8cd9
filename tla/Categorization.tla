--------------------------- MODULE Categorization ---------------------------
(***************************************************************************)
(* The categorization agent: one run at the end of every reconciliation,   *)
(* over the rows without a category, and one behind POST                   *)
(* /recategorize-all, over all rows once their categories are wiped. The   *)
(* two know nothing of each other, and the user goes on confirming,        *)
(* clearing and noting rows and approving matches while they run.          *)
(*                                                                         *)
(* A run reads, asks and writes in that order, each write in a transaction *)
(* of its own. Nothing shared is touched while it asks, so a wave of       *)
(* concurrent questions is one step whose outcome covers their orders. A   *)
(* reply is any decision per vendor: one the reply does not name, and one  *)
(* off the closed list, is a decision of None.                             *)
(***************************************************************************)
EXTENDS Integers, SequencesExt

CONSTANTS Txns, Cats, RefundCat, RuleCat,
          Answers,   \* bound: the categories that replies give
          Vendors,   \* vendor keys, a sequence: the largest cluster first
          Line,      \* the key normalize_description finds in a line, or None
          Receipt,   \* the vendor of the receipt a row may be matched with
          Proven,    \* rows whose match is approved when the model begins
          Guesses,   \* keys the normalization fallback answers with
          Ruled,     \* rows a deterministic rule decides
          Matchers, Recategorizers,   \* runs of the two kinds, by name
          MaxCalls,  \* CATEGORIZATION_LLM_CALL_BUDGET
          GroupSize, WaveSize,        \* VENDOR_GROUP_SIZE, MAX_CONCURRENT_CALLS
          MaxRuns, MaxVerbs, MaxMishaps   \* bounds: runs, user's verbs, mishaps

ASSUME SizesAssumption == MaxCalls \in Nat /\ GroupSize \in Nat \ {0} /\ WaveSize \in Nat \ {0}
ASSUME CatsAssumption == {RefundCat, RuleCat} \cup Answers \subseteq Cats
ASSUME BoundsAssumption == MaxRuns \in Nat /\ MaxVerbs \in Nat /\ MaxMishaps \in Nat

VARIABLES
  row,     \* transactions: category, vendor_key, note, category_confirmed_by_user
  proof,   \* vendor of the approved match of a row, direct or along links
  cache,   \* vendor_category_cache, with the epoch its decision was asked in
  board,   \* _recategorize_progress: is it "running", and quiet for ten minutes
  run,     \* what each run holds
  epoch,   \* history: how often the cache was cleared
  left     \* what the bounds still allow

books == <<row, proof, cache>>
vars == <<row, proof, cache, board, run, epoch, left>>

None == "none"
Blank == [cat |-> None, at |-> 0]
Runs == Matchers \cup Recategorizers
Keys == Range(Vendors)
ASSUME KeysAssumption ==
  /\ Vendors \in Seq(Keys) /\ Guesses \subseteq Keys /\ Guesses # {}
  /\ {Line, Receipt} \subseteq [Txns -> Keys \cup {None}]

Empty == [x \in {} |-> None]
Idle == [at |-> "idle", epoch |-> 0, since |-> 0, alone |-> FALSE, cache |-> Empty, note |-> Empty,
         key |-> Empty, ask |-> {}, decided |-> Empty, over |-> Empty, used |-> 0, sent |-> 0]

Least(i, j) == IF i < j THEN i ELSE j
AtMostLeft(n, used) == Least(n, IF used < MaxCalls THEN MaxCalls - used ELSE 0)

(* An earlier run named every vendor and decided those it had not to guess;*)
(* the categories it gave were cleared.                                    *)
CategorizationInit ==
  /\ \E g \in Guesses :
       row = [t \in Txns |-> [cat |-> None, key |-> IF Line[t] = None THEN g ELSE Line[t],
                              note |-> None, locked |-> FALSE]]
  /\ proof = [t \in Txns |-> IF t \in Proven THEN Receipt[t] ELSE None]
  /\ cache = [k \in Keys |-> IF k \in Guesses THEN Blank ELSE [cat |-> RuleCat, at |-> 0]]
  /\ board = "idle"
  /\ run = [a \in Runs |-> Idle]
  /\ epoch = 0
  /\ left = [runs |-> MaxRuns, verbs |-> MaxVerbs, mishaps |-> MaxMishaps]

-----------------------------------------------------------------------------
(* The user                                                                *)
Mishap == left.mishaps > 0 /\ left' = [left EXCEPT !.mishaps = @ - 1]
Verb == left.verbs > 0 /\ left' = [left EXCEPT !.verbs = @ - 1]
Set(t, field, value) ==
  /\ Verb /\ row[t][field] # value
  /\ row' = [row EXCEPT ![t][field] = value]
  /\ UNCHANGED <<proof, cache, board, run, epoch>>

Confirm(t, c) ==
  /\ Verb /\ (row[t].cat # c \/ ~row[t].locked)
  /\ row' = [row EXCEPT ![t].cat = c, ![t].locked = TRUE]
  /\ UNCHANGED <<proof, cache, board, run, epoch>>
(* Clearing a confirmed row leaves its lock on: no run will fill it again. *)
ClearCategory(t) == Set(t, "cat", None)
Annotate(t, n) == Set(t, "note", n)

(* A match is approved, or the approved one is rejected.                   *)
Review(t) ==
  /\ Verb /\ Receipt[t] # None
  /\ proof' = [proof EXCEPT ![t] = IF @ = None THEN Receipt[t] ELSE None]
  /\ UNCHANGED <<row, cache, board, run, epoch>>

-----------------------------------------------------------------------------
(* A run                                                                   *)
To(a, at) == run' = [run EXCEPT ![a].at = at]
Logs(a) == board' = IF a \in Recategorizers /\ board = "quiet" THEN "running" ELSE board
(* The audit row and the word on the board: nothing is left of the run.    *)
End(a) ==
  /\ run' = [run EXCEPT ![a] = Idle]
  /\ board' = IF a \in Recategorizers THEN "idle" ELSE board
Start(a, at) ==
  /\ run[a].at = "idle" /\ left.runs > 0
  /\ left' = [left EXCEPT !.runs = @ - 1]
  /\ run' = [run EXCEPT ![a] = [Idle EXCEPT !.at = at]]

AfterMatching(a) ==
  /\ a \in Matchers /\ Start(a, "begun")
  /\ UNCHANGED <<row, proof, cache, board, epoch>>

RecategorizeAll(a) ==
  /\ a \in Recategorizers /\ board # "running"
  /\ Start(a, "wiping") /\ board' = "running"
  /\ UNCHANGED <<row, proof, cache, epoch>>

(* Ten minutes without a progress line: the endpoint takes the run for     *)
(* dead, though it may only be waiting for an answer.                      *)
GoQuiet ==
  /\ board = "running" /\ board' = "quiet"
  /\ UNCHANGED <<row, proof, cache, run, epoch, left>>

ClearAllCategories(a) ==
  /\ run[a].at = "wiping"
  /\ row' = [t \in Txns |-> IF row[t].locked THEN row[t]
                            ELSE [row[t] EXCEPT !.cat = None, !.key = None]]
  /\ To(a, "clearing") /\ Logs(a)
  /\ UNCHANGED <<proof, cache, epoch, left>>

(* mutant: the cache survives                                              *)
KeepsCache == cache
NoCache == [k \in Keys |-> Blank]

HoldsContext(a) == run[a].at \notin {"idle", "wiping", "clearing", "begun"}
ClearVendorCache(a) ==
  /\ run[a].at = "clearing"
  /\ cache' = NoCache /\ epoch' = epoch + 1
  /\ run' = [run EXCEPT ![a].at = "begun", ![a].since = epoch',
                        ![a].alone = \A b \in Runs \ {a} : ~HoldsContext(b)]
  /\ Logs(a)
  /\ UNCHANGED <<row, proof, left>>

LoadCache(a) ==
  /\ run[a].at = "begun"
  /\ run' = [run EXCEPT ![a].at = "loading", ![a].cache = cache, ![a].epoch = epoch]
  /\ Logs(a)
  /\ UNCHANGED <<row, proof, cache, epoch, left>>

(* What decides the identity of a row today: its proof, or its line, or    *)
(* for a line that names nobody the key an earlier run left.               *)
Identity(t, proven) ==
  IF proven[t] # None THEN proven[t] ELSE IF Line[t] # None THEN Line[t] ELSE row[t].key

(* A cached decision stands unless a row of the vendor has a proof.        *)
Reusable(a, k, rows, proven) ==
  run[a].cache[k].cat # None /\ \A t \in rows : proven[t] = None

(* Load the rows in scope, set those a rule or the user decided aside,     *)
(* cluster the others, and reuse what the cache knows.                     *)
(* When the proofs cannot be read the run goes on without any.             *)
NoProof == [t \in Txns |-> None]
InScope(a) == {t \in Txns : a \in Recategorizers \/ row[t].cat = None}
LoadAndCluster(a, guess, proven) ==
  LET open     == {t \in InScope(a) : ~row[t].locked}
      loose    == {t \in open \ Ruled : Identity(t, proven) = None}
      asks     == IF loose = {} THEN 0 ELSE AtMostLeft(1, 0)
      key      == [t \in open \ Ruled |-> IF t \in loose THEN guess ELSE Identity(t, proven)]
      Rows(k)  == {t \in open \ Ruled : key[t] = k}
      clusters == Range(key)
      known    == {k \in clusters : Reusable(a, k, Rows(k), proven)}
  IN /\ run[a].at = "loading" /\ InScope(a) # {}
     /\ loose = {} => guess = CHOOSE g \in Guesses : TRUE
     /\ run' = [run EXCEPT ![a].at = "asking", ![a].cache = Empty,
                  ![a].note = [t \in open |-> row[t].note], ![a].key = key,
                  ![a].ask = clusters \ known,
                  ![a].decided = [k \in known |-> [cat |-> run[a].cache[k].cat, refine |-> FALSE,
                                                   at |-> run[a].cache[k].at]],
                  ![a].used = asks, ![a].sent = asks]
     /\ Logs(a)
     /\ UNCHANGED <<row, proof, cache, epoch>>

NothingInScope(a) ==
  /\ run[a].at = "loading" /\ InScope(a) = {}
  /\ End(a)
  /\ UNCHANGED <<row, proof, cache, epoch, left>>

Loaded(a, guess) ==
  \/ LoadAndCluster(a, guess, proof) /\ UNCHANGED left
  \/ LoadAndCluster(a, guess, NoProof) /\ Mishap

(* One thread grants the questions their budget in order, then the wrapper *)
(* charges each once more as it is sent: any of those granted may be the   *)
(* ones that still get through.                                            *)
Granted(a, n) == AtMostLeft(n, run[a].used)
Through(a, n) == AtMostLeft(Granted(a, n), run[a].used + Granted(a, n))
Sent(a, n, through) == through \subseteq 1..Granted(a, n) /\ Cardinality(through) = Through(a, n)
Used(a, n) == run[a].used + Granted(a, n) + Through(a, n)

(* Keys are asked in the order of Vendors, GroupSize of them in a question.*)
Place(k) == CHOOSE i \in DOMAIN Vendors : Vendors[i] = k
Rank(k, keys) == Cardinality({j \in keys : Place(j) <= Place(k)})
Questions(n) == (n + GroupSize - 1) \div GroupSize
Wave(keys) == {k \in keys : Questions(Rank(k, keys)) <= WaveSize}
Decision(cat, refine, at) == [cat |-> cat, refine |-> refine, at |-> at]

DecideWave(a) ==
  LET ask  == run[a].ask
      keys == Wave(ask)
      n    == Questions(Cardinality(keys))
      old  == run[a].decided
  IN /\ run[a].at = "asking" /\ ask # {}
     /\ \E through \in SUBSET (1..n) :
          LET named == {k \in keys : Questions(Rank(k, ask)) \in through}
          IN /\ Sent(a, n, through)
             /\ \E cat \in [named -> Answers \cup {None}], refine \in [named -> BOOLEAN] :
                  run' = [run EXCEPT ![a].ask = ask \ keys,
                    ![a].decided = [k \in keys \cup DOMAIN old |->
                      IF k \in named THEN Decision(cat[k], refine[k], run[a].epoch)
                      ELSE IF k \in DOMAIN old THEN old[k] ELSE Decision(None, TRUE, run[a].epoch)],
                    ![a].used = Used(a, n), ![a].sent = @ + Through(a, n)]
     /\ Logs(a)
     /\ UNCHANGED <<row, proof, cache, epoch, left>>

(* The rows of a vendor to be refined are one question (bound: no vendor   *)
(* has more than REFINE_BATCH_SIZE rows). A reply names any of the rows    *)
(* the run clustered; ids of other rows would have no effect.              *)
RowsOf(a, k) == {t \in DOMAIN run[a].key : run[a].key[t] = k}
(* mutant: what a reply says of other rows counts too                      *)
AnyRow(rows, named) == named
OwnRows(rows, named) == rows \cap named

Refine(a) ==
  LET mixed == {k \in DOMAIN run[a].decided : run[a].decided[k].refine}
      n     == Cardinality(mixed)
  IN /\ run[a].at = "asking" /\ run[a].ask = {}
     /\ \E through \in SUBSET (1..n) :
          LET shown == {k \in mixed : Rank(k, mixed) \in through}
          IN /\ Sent(a, n, through)
             /\ \E named \in [shown -> SUBSET DOMAIN run[a].key], c \in Answers \cup {None} :
                  run' = [run EXCEPT ![a].at = "checking",
                    ![a].over = [t \in UNION {OwnRows(RowsOf(a, k), named[k]) : k \in shown} |-> c],
                    ![a].used = Used(a, n), ![a].sent = @ + Through(a, n)]
     /\ Logs(a)
     /\ UNCHANGED <<row, proof, cache, epoch, left>>

(* Phase 6: one question about all decisions, which may move a vendor.     *)
SelfCheck(a) ==
  LET old == run[a].decided
      n   == IF DOMAIN old = {} THEN 0 ELSE 1
  IN /\ run[a].at = "checking"
     /\ \E moved \in {{}} \cup {{k} : k \in DOMAIN old}, c \in Answers \cup {None} :
          /\ Through(a, n) = 0 => moved = {}
          /\ run' = [run EXCEPT ![a].at = "caching",
               ![a].decided = [k \in DOMAIN old |->
                 IF k \in moved THEN Decision(c, old[k].refine, run[a].epoch) ELSE old[k]],
               ![a].used = Used(a, n), ![a].sent = @ + Through(a, n)]
     /\ Logs(a)
     /\ UNCHANGED <<row, proof, cache, epoch, left>>

UpsertVendorCache(a) ==
  /\ run[a].at = "caching"
  /\ cache' = [k \in Keys |-> IF k \notin DOMAIN run[a].decided THEN cache[k]
                              ELSE [cat |-> run[a].decided[k].cat, at |-> run[a].decided[k].at]]
  /\ To(a, "writing")
  /\ UNCHANGED <<row, proof, board, epoch, left>>

(* What a run has for a row: a rule, else the note it read, else the       *)
(* refinement, else the decision on the vendor.                            *)
Verdict(r, t) ==
  IF t \in Ruled THEN IF r.note[t] = "refund" THEN RefundCat ELSE RuleCat
  ELSE IF r.note[t] # None THEN IF r.note[t] = "refund" THEN RefundCat ELSE None
  ELSE IF t \in DOMAIN r.over THEN r.over[t] ELSE r.decided[r.key[t]].cat

(* mutant: the lock is the one the run read                                *)
WasOpen(t) == TRUE
IsOpen(t) == ~row[t].locked
Coalesce(new, old) == IF new = None THEN old ELSE new

UpdateCategorizations(a) ==
  LET r == run[a]
  IN /\ r.at = "writing"
     /\ row' = [t \in Txns |->
          IF t \in DOMAIN r.note /\ IsOpen(t)
          THEN [row[t] EXCEPT !.cat = Coalesce(Verdict(r, t), @),
                              !.key = IF t \in Ruled THEN @ ELSE r.key[t]]
          ELSE row[t]]
     /\ End(a)
     /\ UNCHANGED <<proof, cache, epoch, left>>

(* A database call raises: the run ends in error with what it has written. *)
Fail(a) ==
  /\ Mishap /\ run[a].at \in {"wiping", "clearing", "begun", "loading", "caching", "writing"}
  /\ End(a)
  /\ UNCHANGED <<row, proof, cache, epoch>>
Restart ==
  /\ Mishap /\ run' = [a \in Runs |-> Idle] /\ board' = "idle"
  /\ UNCHANGED <<row, proof, cache, epoch>>

-----------------------------------------------------------------------------
Step(a) ==
  \/ ClearAllCategories(a) \/ ClearVendorCache(a) \/ LoadCache(a)
  \/ NothingInScope(a) \/ \E g \in Guesses : Loaded(a, g)
  \/ DecideWave(a) \/ Refine(a) \/ SelfCheck(a)
  \/ UpsertVendorCache(a) \/ UpdateCategorizations(a)

CategorizationNext ==
  \/ \E t \in Txns : \/ \E c \in Cats : Confirm(t, c)
                     \/ ClearCategory(t) \/ Review(t)
                     \/ \E n \in {None, "unsure", "refund"} : Annotate(t, n)
  \/ \E a \in Runs : AfterMatching(a) \/ RecategorizeAll(a) \/ Step(a) \/ Fail(a)
  \/ GoQuiet \/ Restart

CategorizationSpec == CategorizationInit /\ [][CategorizationNext]_vars

-----------------------------------------------------------------------------
CategorizationTypeOK ==
  /\ row \in [Txns -> [cat : Cats \cup {None}, key : Keys \cup {None},
                       note : {None, "unsure", "refund"}, locked : BOOLEAN]]
  /\ proof \in [Txns -> Keys \cup {None}]
  /\ cache \in [Keys -> [cat : Cats \cup {None}, at : 0..epoch]]
  /\ board \in {"idle", "running", "quiet"}
  /\ \A a \in Runs : DOMAIN run[a].decided \subseteq Keys /\ DOMAIN run[a].over \subseteq Txns

(* However its questions interleave, a run never sends more of them than   *)
(* its budget (_wrap_llm_call, decide_vendor_categories).                  *)
BudgetHolds == \A a \in Runs : run[a].sent <= MaxCalls

(* Recategorizing asks afresh: when no other run held an older context at  *)
(* the moment the cache was cleared, no decision it reuses was asked for   *)
(* before (clear_vendor_cache, _run_recategorize_background).              *)
FreshWhenAlone ==
  \A a \in Recategorizers :
     run[a].alone => \A k \in DOMAIN run[a].decided : run[a].decided[k].at >= run[a].since

(* A run asks what it needs to and no more.                                *)
AsksWithinReason == CategorizationTypeOK /\ BudgetHolds /\ FreshWhenAlone

(* Whatever a run read before, and whichever runs overlap, a row the user  *)
(* has confirmed changes only by the user's own hand, even once he cleared *)
(* its category (update_transaction_categorizations).                      *)
LockHolds ==
  [][\A t \in Txns : row[t].locked /\ left'.verbs = left.verbs => row'[t] = row[t]]_vars

Writes(a) == run[a].at = "writing" /\ run'[a].at = "idle" /\ left'.mishaps = left.mishaps
(* The rows of a vendor that needed no refinement all get the vendor's     *)
(* decision, whatever the replies about other vendors say of them          *)
(* (refine_transactions drops the strays); but a row whose owner wrote that*)
(* he does not know it is given no category by a run that read the note    *)
(* (build_transaction_updates).                                            *)
VendorsAgree ==
  [][\A a \in Runs, t \in Txns : Writes(a) /\ t \in DOMAIN run[a].key =>
       LET d == run[a].decided[run[a].key[t]]
       IN /\ run[a].note[t] = "unsure" => row'[t].cat = row[t].cat
          /\ run[a].note[t] = None /\ ~row[t].locked /\ ~d.refine
               => row'[t].cat = Coalesce(d.cat, row[t].cat)]_vars
=============================================================================
