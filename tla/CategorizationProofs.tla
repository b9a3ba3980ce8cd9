------------------------ MODULE CategorizationProofs ------------------------
(***************************************************************************)
(* What holds of the categorization agent for any rows, vendors, runs and  *)
(* budget: what its tables hold, how many questions a run sends, that a    *)
(* recategorization alone with its cache asks afresh, that a confirmed row *)
(* is the user's, and that the rows of a vendor agree.                     *)
(***************************************************************************)
EXTENDS Categorization, FiniteSetTheorems, TLAPS

-----------------------------------------------------------------------------
(* The inductive invariant                                                 *)
Partial(S, T) == UNION {[D -> T] : D \in SUBSET S}
Given == Cats \cup {None}
Notes == {None, "unsure", "refund"}
Rows == [cat : Given, key : Keys \cup {None}, note : Notes, locked : BOOLEAN]
Entries == [cat : Given, at : Nat]
Decisions == [cat : Given, refine : BOOLEAN, at : Nat]
Early == {"idle", "wiping", "clearing", "begun"}
Late == {"checking", "caching", "writing"}
RunType ==
  [at : Early \cup {"loading", "asking"} \cup Late, epoch : Nat, since : Nat, alone : BOOLEAN,
   cache : Partial(Keys, Entries), note : Partial(Txns, Notes), key : Partial(Txns, Keys),
   ask : SUBSET Keys, decided : Partial(Keys, Decisions), over : Partial(Txns, Given),
   used : Nat, sent : Nat]

(* What is never shared: the rows, the approved proofs, what is left.      *)
Tables ==
  /\ row \in [Txns -> Rows]
  /\ proof \in [Txns -> Keys \cup {None}]
  /\ board \in {"idle", "running", "quiet"}
  /\ left \in [runs : Nat, verbs : Nat, mishaps : Nat]

(* What a run holds belongs to its phase: nothing before it loads, then a  *)
(* decision or a question to come for every row it has a key for, and a    *)
(* refinement only of rows whose vendor needs one. It has charged what it  *)
(* sent, and no more than the budget.                                      *)
Shaped(r) ==
  /\ r.sent <= r.used /\ r.used <= MaxCalls
  /\ r.at \in Early \cup {"loading"} => DOMAIN r.decided = {}
  /\ r.at \in Early \cup {"loading", "asking"} => DOMAIN r.over = {}
  /\ r.at = "loading" => DOMAIN r.cache = Keys
  /\ r.at # "loading" => DOMAIN r.cache = {}
  /\ r.at \notin Early \cup {"loading"} =>
       /\ DOMAIN r.key = DOMAIN r.note \ Ruled
       /\ \A t \in DOMAIN r.key : r.key[t] \in r.ask \cup DOMAIN r.decided
  /\ r.at \in Late => r.ask = {}
  /\ \A t \in DOMAIN r.over : /\ t \in DOMAIN r.key /\ r.key[t] \in DOMAIN r.decided
                              /\ r.decided[r.key[t]].refine

(* Nothing was asked in an epoch to come,                                  *)
Before(r, e) ==
  /\ r.epoch <= e /\ r.since <= e
  /\ \A k \in DOMAIN r.cache : r.cache[k].at <= e
  /\ \A k \in DOMAIN r.decided : r.decided[k].at <= e
(* and what a run holds that has a context was asked from epoch s on.      *)
After(r, s) ==
  /\ r.at \notin Early => r.epoch >= s
  /\ \A k \in DOMAIN r.cache : r.cache[k].cat # None => r.cache[k].at >= s
  /\ \A k \in DOMAIN r.decided : r.decided[k].at >= s

Sane(r, e) == r \in RunType /\ Shaped(r) /\ Before(r, e)
CacheSince(c, s) == \A k \in Keys : c[k].cat # None => c[k].at >= s
CacheOK(c, e) == c \in [Keys -> Entries] /\ \A k \in Keys : c[k].at <= e

(* A run that cleared the cache alone: since then nothing older is about,  *)
(* in the cache or in the hands of any run.                                *)
Cleared(a) ==
  run[a].alone => CacheSince(cache, run[a].since) /\ \A b \in Runs : After(run[b], run[a].since)

RunsInv ==
  /\ epoch \in Nat /\ CacheOK(cache, epoch)
  /\ run \in [Runs -> RunType]
  /\ \A a \in Runs : Sane(run[a], epoch)
  /\ \A a \in Runs : Cleared(a)

AgentInv == Tables /\ RunsInv

-----------------------------------------------------------------------------
(* Operators                                                               *)

(* A partial function is a function with its domain and values in place.   *)
LEMMA PartialFunctions ==
  ASSUME NEW S, NEW T, NEW f
  PROVE  f \in Partial(S, T) <=> /\ f = [x \in DOMAIN f |-> f[x]] /\ DOMAIN f \subseteq S
                                 /\ \A x \in DOMAIN f : f[x] \in T
BY DEF Partial

LEMMA PartialMade ==
  ASSUME NEW S, NEW T, NEW D \in SUBSET S, NEW f \in [D -> T]
  PROVE  f \in Partial(S, T)
BY DEF Partial

(* AtMostLeft keeps a charge within the budget (_wrap_llm_call).           *)
LEMMA BudgetKept ==
  ASSUME NEW n \in Nat, NEW used \in Nat, used <= MaxCalls
  PROVE  /\ AtMostLeft(n, used) \in Nat
         /\ AtMostLeft(n, used) <= n /\ used + AtMostLeft(n, used) <= MaxCalls
BY SizesAssumption DEF AtMostLeft, Least

LEMMA ChargesKept ==
  ASSUME NEW a \in Runs, run[a] \in RunType, Shaped(run[a]), NEW n \in Nat
  PROVE  /\ Used(a, n) \in Nat /\ Through(a, n) \in Nat /\ run[a].sent + Through(a, n) \in Nat
         /\ run[a].sent + Through(a, n) <= Used(a, n) /\ Used(a, n) <= MaxCalls
<1> DEFINE used == run[a].used
           sent == run[a].sent
           granted == Granted(a, n)
<1>1. used \in Nat /\ used <= MaxCalls /\ sent \in Nat /\ sent <= used
  BY DEF RunType, Shaped
<1>2. granted = AtMostLeft(n, used) /\ Through(a, n) = AtMostLeft(granted, used + granted)
      /\ Used(a, n) = used + granted + Through(a, n)
  BY DEF Granted, Through, Used
<1>3. granted \in Nat /\ used + granted <= MaxCalls
  BY <1>1, <1>2, BudgetKept
<1>4. Through(a, n) \in Nat /\ used + granted + Through(a, n) <= MaxCalls
  BY <1>1, <1>2, <1>3, BudgetKept
<1> QED  BY <1>1, <1>2, <1>3, <1>4

LEMMA KeysAreFinite == IsFiniteSet(Keys)
<1>1. IsFiniteSet(1..Len(Vendors)) /\ DOMAIN Vendors = 1..Len(Vendors)
  BY KeysAssumption, FS_Interval
<1>2. Vendors \in Surjection(1..Len(Vendors), Keys)
  BY <1>1, KeysAssumption DEF Keys, Range, Surjection
<1> QED  BY <1>1, <1>2, FS_Surjection

LEMMA QuestionsAreFew ==
  ASSUME NEW keys \in SUBSET Keys
  PROVE  Cardinality(keys) \in Nat /\ Questions(Cardinality(keys)) \in Nat
<1>1. Cardinality(keys) \in Nat
  BY KeysAreFinite, FS_Subset, FS_CardinalityType
<1> QED  BY <1>1, SizesAssumption DEF Questions

-----------------------------------------------------------------------------
(* The runs                                                                *)

(* A step of one run keeps the invariant if what it then holds is sane,    *)
(* and nothing older than before comes into its hands or the cache.        *)
LEMMA OneRunMoves ==
  ASSUME RunsInv, NEW a \in Runs,
         run' = [run EXCEPT ![a] = run'[a]], epoch' = epoch,
         CacheOK(cache', epoch), Sane(run'[a], epoch),
         run'[a].alone => run[a].alone /\ run'[a].since = run[a].since,
         \A s \in 0..epoch : After(run[a], s) /\ CacheSince(cache, s)
                              => After(run'[a], s) /\ CacheSince(cache', s)
  PROVE  RunsInv'
<1>1. run'[a] \in RunType /\ run' \in [Runs -> RunType]
  BY DEF RunsInv, Sane
<1>2. \A b \in Runs : b # a => run'[b] = run[b]
  BY DEF RunsInv
<1>3. \A b \in Runs : Sane(run'[b], epoch')
  BY <1>2 DEF RunsInv
<1>4. ASSUME NEW b \in Runs, run'[b].alone
      PROVE  /\ CacheSince(cache', run'[b].since)
             /\ \A c \in Runs : After(run'[c], run'[b].since)
  <2>1. run[b].alone /\ run'[b].since = run[b].since
    BY <1>2, <1>4
  <2>2. run[b].since \in 0..epoch
    BY DEF RunsInv, RunType, Sane, Before
  <2>3. CacheSince(cache, run[b].since) /\ \A c \in Runs : After(run[c], run[b].since)
    BY <2>1 DEF RunsInv, Cleared
  <2> QED  BY <1>2, <2>1, <2>2, <2>3
<1>5. \A b \in Runs : Cleared(b)'
  BY <1>4 DEF Cleared
<1> QED  BY <1>1, <1>3, <1>5 DEF RunsInv

LEMMA RunsAtRest ==
  ASSUME RunsInv, UNCHANGED <<cache, run, epoch>>
  PROVE  RunsInv'
BY DEF RunsInv, Cleared, CacheOK, CacheSince

Hands == {Idle} \cup {[Idle EXCEPT !.at = at] : at \in Early}
LEMMA IdleIsSane ==
  ASSUME NEW r \in Hands, NEW e \in Nat
  PROVE  Sane(r, e) /\ r.alone = FALSE /\ \A s \in Nat : After(r, s)
<1>1. /\ r.at \in Early /\ r.epoch = 0 /\ r.since = 0 /\ r.alone = FALSE
      /\ r.cache = Empty /\ r.note = Empty /\ r.key = Empty /\ r.ask = {}
      /\ r.decided = Empty /\ r.over = Empty /\ r.used = 0 /\ r.sent = 0
  BY DEF Hands, Idle, Early
<1>2. \A S, T : Empty \in Partial(S, T)
  <2> TAKE S, T
  <2>1. DOMAIN Empty = {} /\ Empty = [x \in DOMAIN Empty |-> Empty[x]]
    BY DEF Empty
  <2> QED  BY <2>1, PartialFunctions
<1>3. DOMAIN Empty = {}
  BY DEF Empty
<1>4. r \in RunType
  <2> DEFINE Record(at) == [at |-> at, epoch |-> 0, since |-> 0, alone |-> FALSE, cache |-> Empty,
                            note |-> Empty, key |-> Empty, ask |-> {}, decided |-> Empty,
                            over |-> Empty, used |-> 0, sent |-> 0]
  <2>1. \E at \in Early : r = Record(at)
    <3>1. CASE r = Idle
      BY <3>1 DEF Idle, Early
    <3>2. ASSUME NEW at \in Early, r = [Idle EXCEPT !.at = at]
          PROVE  r = Record(at)
      BY <3>2 DEF Idle
    <3> QED  BY <3>1, <3>2 DEF Hands
  <2>2. ASSUME NEW at \in Early
        PROVE  Record(at) \in RunType
    BY <1>2 DEF RunType
  <2> QED  BY <2>1, <2>2
<1>5. Shaped(r)
  BY <1>1, <1>3, SizesAssumption DEF Shaped, Early, Late
<1>6. Before(r, e)
  BY <1>1, <1>3 DEF Before
<1> QED  BY <1>1, <1>3, <1>4, <1>5, <1>6 DEF Sane, After

(* A run begins, or ends, with nothing in its hands.                       *)
LEMMA EmptyHanded ==
  ASSUME RunsInv, NEW a \in Runs, NEW r \in Hands,
         run' = [run EXCEPT ![a] = r], UNCHANGED <<cache, epoch>>
  PROVE  RunsInv'
<1>1. run'[a] = r
  BY DEF RunsInv
<1>2. epoch \in Nat /\ CacheOK(cache', epoch)
  BY DEF RunsInv
<1>3. /\ Sane(run'[a], epoch) /\ run'[a].alone = FALSE
      /\ \A s \in Nat : After(run'[a], s)
  BY <1>1, <1>2, IdleIsSane
<1>4. \A s \in 0..epoch : s \in Nat
  BY <1>2
<1> QED  BY <1>1, <1>2, <1>3, <1>4, OneRunMoves

LEMMA EndKeeps ==
  ASSUME RunsInv, NEW a \in Runs, End(a), UNCHANGED <<cache, epoch>>
  PROVE  RunsInv'
BY EmptyHanded DEF End, Hands

LEMMA StartKeeps ==
  ASSUME RunsInv, NEW a \in Runs, NEW at \in Early, Start(a, at), UNCHANGED <<cache, epoch>>
  PROVE  RunsInv'
BY EmptyHanded DEF Start, Hands

LEMMA RestartKeeps ==
  ASSUME RunsInv, Restart
  PROVE  RunsInv'
<1>1. run' = [b \in Runs |-> Idle] /\ cache' = cache /\ epoch' = epoch
  BY DEF Restart
<1>2. Sane(Idle, epoch) /\ Idle.alone = FALSE
  BY IdleIsSane DEF RunsInv, Hands
<1>3. \A b \in Runs : Cleared(b)'
  BY <1>1, <1>2 DEF Cleared
<1> QED  BY <1>1, <1>2, <1>3 DEF RunsInv, Sane
(* A run that only moves on, within its first or its last phases, holds    *)
(* what it held.                                                           *)
LEMMA PhaseMoves ==
  ASSUME RunsInv, NEW a \in Runs, NEW at, To(a, at),
         {run[a].at, at} \subseteq Early \/ {run[a].at, at} \subseteq Late
  PROVE  /\ run' = [run EXCEPT ![a] = run'[a]] /\ Sane(run'[a], epoch)
         /\ run'[a].alone = run[a].alone /\ run'[a].since = run[a].since
         /\ \A s : After(run[a], s) => After(run'[a], s)
<1> DEFINE r == run[a]
           q == run'[a]
<1>1. r \in RunType /\ Shaped(r) /\ Before(r, epoch)
  BY DEF RunsInv, Sane
<1>2. q = [r EXCEPT !.at = at] /\ run' = [run EXCEPT ![a] = q]
  BY DEF RunsInv, To
<1>3. q \in RunType
  BY <1>1, <1>2 DEF RunType
<1>4. /\ q.at = at /\ q.epoch = r.epoch /\ q.since = r.since /\ q.alone = r.alone
      /\ q.cache = r.cache /\ q.note = r.note /\ q.key = r.key /\ q.ask = r.ask
      /\ q.decided = r.decided /\ q.over = r.over /\ q.used = r.used /\ q.sent = r.sent
  BY <1>1, <1>2 DEF RunType
<1> HIDE DEF r, q
<1>5. Shaped(q)
  BY <1>1, <1>4 DEF Shaped, Early, Late, r
<1>6. Before(q, epoch)
  BY <1>1, <1>4 DEF Before
<1>7. \A s : After(r, s) => After(q, s)
  BY <1>4 DEF After, Early, Late, r
<1> QED  BY <1>2, <1>3, <1>4, <1>5, <1>6, <1>7 DEF Sane, r, q

LEMMA ClearAllKeeps ==
  ASSUME RunsInv, NEW a \in Runs, ClearAllCategories(a)
  PROVE  RunsInv'
<1>1. To(a, "clearing") /\ run[a].at = "wiping" /\ cache' = cache /\ epoch' = epoch
  BY DEF ClearAllCategories
<1>2. run[a].at \in Early /\ "clearing" \in Early
  BY <1>1 DEF Early
<1>3. /\ run' = [run EXCEPT ![a] = run'[a]] /\ Sane(run'[a], epoch)
      /\ run'[a].alone = run[a].alone /\ run'[a].since = run[a].since
      /\ \A s : After(run[a], s) => After(run'[a], s)
  BY <1>1, <1>2, PhaseMoves
<1>4. CacheOK(cache', epoch)
  BY <1>1 DEF RunsInv
<1> QED  BY <1>1, <1>3, <1>4, OneRunMoves

(* The cache is emptied in a new epoch, and whoever holds no context has   *)
(* nothing in his hands: if that is everyone else, all that is about from  *)
(* now on is of the new epoch.                                             *)
LEMMA ClearVendorCacheKeeps ==
  ASSUME RunsInv, NEW a \in Runs, ClearVendorCache(a)
  PROVE  RunsInv'
<1> DEFINE r == run[a]
           q == run'[a]
<1>1. /\ r.at = "clearing" /\ cache' = NoCache /\ epoch' = epoch + 1
      /\ q = [r EXCEPT !.at = "begun", !.since = epoch', !.alone = \A b \in Runs \ {a} : ~HoldsContext(b)]
      /\ run' = [run EXCEPT ![a] = q]
  BY DEF ClearVendorCache, RunsInv
<1>2. r \in RunType /\ Shaped(r) /\ Before(r, epoch) /\ epoch \in Nat /\ epoch' \in Nat
  BY <1>1 DEF RunsInv, Sane
<1>3. CacheOK(cache', epoch') /\ \A s : CacheSince(cache', s)
  BY <1>1, <1>2 DEF NoCache, CacheOK, CacheSince, Blank, Entries, Given
<1>4. q \in RunType
  BY <1>1, <1>2 DEF RunType, Early
<1>5. /\ q.at = "begun" /\ q.epoch = r.epoch /\ q.since = epoch'
      /\ q.alone = (\A b \in Runs \ {a} : ~HoldsContext(b))
      /\ q.cache = r.cache /\ q.note = r.note /\ q.key = r.key /\ q.ask = r.ask
      /\ q.decided = r.decided /\ q.over = r.over /\ q.used = r.used /\ q.sent = r.sent
  BY <1>1, <1>2 DEF RunType
<1> HIDE DEF r, q
<1>6. Shaped(q)
  BY <1>1, <1>2, <1>5 DEF Shaped, Early, Late
<1>7. Before(q, epoch')
  <2>1. r.epoch \in Nat
    BY <1>2 DEF RunType
  <2>2. DOMAIN r.cache = {} /\ DOMAIN r.decided = {}
    BY <1>1, <1>2 DEF Shaped, Early
  <2> QED  BY <1>1, <1>2, <1>5, <2>1, <2>2 DEF Before
<1>8. \A s : After(q, s)
  BY <1>1, <1>2, <1>5 DEF After, Shaped, Early
<1>9. \A b \in Runs : b # a => run'[b] = run[b]
  BY <1>1 DEF RunsInv
<1>10. ASSUME NEW b \in Runs, b # a
       PROVE  Sane(run[b], epoch')
  <2>1. Sane(run[b], epoch)
    BY DEF RunsInv
  <2>2. /\ run[b].epoch \in Nat /\ run[b].since \in Nat
        /\ \A k \in DOMAIN run[b].cache : run[b].cache[k] \in Entries
        /\ \A k \in DOMAIN run[b].decided : run[b].decided[k] \in Decisions
    BY <2>1, PartialFunctions DEF Sane, RunType
  <2> QED  BY <1>1, <1>2, <2>1, <2>2 DEF Sane, Before, Entries, Decisions
<1>11. \A b \in Runs : Sane(run'[b], epoch')
  BY <1>4, <1>6, <1>7, <1>9, <1>10 DEF Sane, q
<1>12. run' \in [Runs -> RunType]
  BY <1>1, <1>4 DEF RunsInv
<1>13. ASSUME NEW b \in Runs, run'[b].alone
       PROVE  \A c \in Runs : After(run'[c], run'[b].since)
  <2>1. CASE b = a
    <3>1. ASSUME NEW c \in Runs, c # a
          PROVE  After(run[c], epoch')
      <4>1. ~HoldsContext(c)
        BY <1>5, <1>13, <2>1, <3>1 DEF q
      <4>2. run[c].at \in Early /\ Shaped(run[c])
        BY <4>1 DEF HoldsContext, RunsInv, Sane, Early
      <4> QED  BY <4>2 DEF After, Shaped, Early
    <3> QED  BY <1>5, <1>8, <1>9, <2>1, <3>1 DEF q
  <2>2. CASE b # a
    <3>1. run[b].alone /\ run'[b].since = run[b].since
      BY <1>9, <1>13, <2>2
    <3>2. \A c \in Runs : After(run[c], run[b].since)
      BY <3>1 DEF RunsInv, Cleared
    <3> QED  BY <1>8, <1>9, <3>1, <3>2 DEF q
  <2> QED  BY <2>1, <2>2
<1>14. \A b \in Runs : Cleared(b)'
  BY <1>3, <1>13 DEF Cleared
<1> QED  BY <1>2, <1>3, <1>11, <1>12, <1>14 DEF RunsInv
LEMMA LoadCacheKeeps ==
  ASSUME RunsInv, NEW a \in Runs, LoadCache(a)
  PROVE  RunsInv'
<1> DEFINE r == run[a]
           q == run'[a]
<1>1. /\ r.at = "begun" /\ cache' = cache /\ epoch' = epoch
      /\ q = [r EXCEPT !.at = "loading", !.cache = cache, !.epoch = epoch]
      /\ run' = [run EXCEPT ![a] = q]
  BY DEF LoadCache, RunsInv
<1>2. /\ r \in RunType /\ Shaped(r) /\ Before(r, epoch) /\ epoch \in Nat
      /\ CacheOK(cache, epoch)
  BY DEF RunsInv, Sane
<1>3. cache \in Partial(Keys, Entries) /\ DOMAIN cache = Keys
  BY <1>2, PartialFunctions DEF CacheOK
<1>4. q \in RunType
  BY <1>1, <1>2, <1>3 DEF RunType
<1>5. /\ q.at = "loading" /\ q.epoch = epoch /\ q.since = r.since /\ q.alone = r.alone
      /\ q.cache = cache /\ q.note = r.note /\ q.key = r.key /\ q.ask = r.ask
      /\ q.decided = r.decided /\ q.over = r.over /\ q.used = r.used /\ q.sent = r.sent
  BY <1>1, <1>2 DEF RunType
<1> HIDE DEF r, q
<1>6. Shaped(q)
  BY <1>1, <1>2, <1>3, <1>5 DEF Shaped, Early, Late
<1>7. Before(q, epoch)
  BY <1>2, <1>3, <1>5 DEF Before, CacheOK
<1>8. \A s \in 0..epoch : After(r, s) /\ CacheSince(cache, s) => After(q, s)
  BY <1>2, <1>3, <1>5 DEF After, CacheSince
<1> QED  BY <1>1, <1>2, <1>4, <1>5, <1>6, <1>7, <1>8, OneRunMoves DEF Sane, r, q

(* Whoever decides the identity of a row decides for a known key.          *)
LEMMA IdentitiesAreKeys ==
  ASSUME Tables, NEW t \in Txns, NEW proven \in {proof, NoProof}
  PROVE  Identity(t, proven) \in Keys \cup {None}
<1>1. proven[t] \in Keys \cup {None} /\ row[t].key \in Keys \cup {None}
  BY DEF Tables, NoProof, Rows
<1>2. Line[t] \in Keys \cup {None}
  BY KeysAssumption
<1> QED  BY <1>1, <1>2 DEF Identity

LEMMA LoadAndClusterKeeps ==
  ASSUME Tables, RunsInv, NEW a \in Runs, NEW guess \in Guesses, NEW proven \in {proof, NoProof},
         LoadAndCluster(a, guess, proven)
  PROVE  RunsInv'
<1> DEFINE r == run[a]
           q == run'[a]
           open     == {t \in InScope(a) : ~row[t].locked}
           loose    == {t \in open \ Ruled : Identity(t, proven) = None}
           asks     == IF loose = {} THEN 0 ELSE AtMostLeft(1, 0)
           key      == [t \in open \ Ruled |-> IF t \in loose THEN guess ELSE Identity(t, proven)]
           members(k) == {t \in open \ Ruled : key[t] = k}
           clusters == Range(key)
           known    == {k \in clusters : Reusable(a, k, members(k), proven)}
           note     == [t \in open |-> row[t].note]
           decided  == [k \in known |-> [cat |-> run[a].cache[k].cat, refine |-> FALSE,
                                         at |-> run[a].cache[k].at]]
<1>1. /\ r.at = "loading" /\ cache' = cache /\ epoch' = epoch
      /\ q = [r EXCEPT !.at = "asking", !.cache = Empty, !.note = note, !.key = key,
                       !.ask = clusters \ known, !.decided = decided, !.used = asks, !.sent = asks]
      /\ run' = [run EXCEPT ![a] = q]
  BY DEF LoadAndCluster, RunsInv
<1>2. /\ r \in RunType /\ Shaped(r) /\ Before(r, epoch) /\ epoch \in Nat
      /\ CacheOK(cache, epoch)
  BY DEF RunsInv, Sane
<1>3. open \subseteq Txns /\ \A t \in open : row[t].note \in Notes
  BY DEF InScope, Tables, Rows
<1>4. \A t \in open \ Ruled : key[t] \in Keys
  BY <1>3, IdentitiesAreKeys, KeysAssumption
<1>5. key \in Partial(Txns, Keys) /\ note \in Partial(Txns, Notes)
  <2>1. key \in [open \ Ruled -> Keys] /\ note \in [open -> Notes]
    BY <1>3, <1>4
  <2>2. open \ Ruled \in SUBSET Txns /\ open \in SUBSET Txns
    BY <1>3
  <2> HIDE DEF key, note, open
  <2> QED  BY <2>1, <2>2, PartialMade
<1>6. /\ clusters \subseteq Keys /\ known \subseteq clusters
      /\ \A t \in open \ Ruled : key[t] \in clusters
      /\ \A k \in known : r.cache[k].cat # None
  BY <1>4 DEF Range, Reusable
<1>7. /\ DOMAIN r.cache = Keys /\ \A k \in Keys : r.cache[k] \in Entries /\ r.cache[k].at <= epoch
  <2>1. DOMAIN r.cache = Keys
    BY <1>1, <1>2 DEF Shaped
  <2> QED  BY <1>2, <2>1, PartialFunctions DEF RunType, Before
<1>8. decided \in Partial(Keys, Decisions)
  <2>1. decided \in [known -> Decisions]
    BY <1>6, <1>7 DEF Decisions, Entries
  <2>2. known \in SUBSET Keys
    BY <1>6
  <2> HIDE DEF decided, known
  <2> QED  BY <2>1, <2>2, PartialMade
<1>9. asks \in Nat /\ asks <= MaxCalls
  BY BudgetKept, SizesAssumption
<1>10. Empty \in Partial(Keys, Entries) /\ DOMAIN Empty = {}
  <2>1. DOMAIN Empty = {} /\ Empty = [x \in DOMAIN Empty |-> Empty[x]]
    BY DEF Empty
  <2> QED  BY <2>1, PartialFunctions
<1>11. DOMAIN key = open \ Ruled /\ DOMAIN note = open /\ DOMAIN decided = known
  OBVIOUS
<1> HIDE DEF key, decided, note, known, clusters, asks
<1>12. q \in RunType
  <2>1. clusters \ known \in SUBSET Keys
    BY <1>6
  <2> HIDE DEF open, q
  <2> QED  BY <1>1, <1>2, <1>5, <1>8, <1>9, <1>10, <2>1 DEF RunType
<1>13. /\ q.at = "asking" /\ q.epoch = r.epoch /\ q.since = r.since /\ q.alone = r.alone
       /\ q.cache = Empty /\ q.note = note /\ q.key = key /\ q.ask = clusters \ known
       /\ q.decided = decided /\ q.over = r.over /\ q.used = asks /\ q.sent = asks
  BY <1>1, <1>2 DEF RunType
<1> HIDE DEF r, q, open
<1>14. Shaped(q)
  BY <1>1, <1>2, <1>6, <1>9, <1>10, <1>11, <1>13 DEF Shaped, Early, Late
<1>15. \A k \in known : decided[k].at = r.cache[k].at
  BY DEF decided, r
<1>16. Before(q, epoch)
  BY <1>2, <1>6, <1>7, <1>10, <1>11, <1>13, <1>15 DEF Before
<1>17. \A s : After(r, s) => After(q, s)
  BY <1>1, <1>6, <1>7, <1>10, <1>11, <1>13, <1>15 DEF After, Early
<1> QED  BY <1>1, <1>2, <1>12, <1>13, <1>14, <1>16, <1>17, OneRunMoves DEF Sane, r, q
(* A wave decides every key it asks about, in the epoch of the run; the    *)
(* others stay decided or to be asked.                                     *)
LEMMA DecideWaveKeeps ==
  ASSUME RunsInv, NEW a \in Runs, DecideWave(a)
  PROVE  RunsInv'
<1> DEFINE r == run[a]
           q == run'[a]
           keys == Wave(r.ask)
           n    == Questions(Cardinality(keys))
           old  == r.decided
           new(named, cat, refine) ==
             [k \in keys \cup DOMAIN old |->
                IF k \in named THEN Decision(cat[k], refine[k], r.epoch)
                ELSE IF k \in DOMAIN old THEN old[k] ELSE Decision(None, TRUE, r.epoch)]
<1>1. PICK through \in SUBSET (1..n) :
        /\ r.at = "asking" /\ r.ask # {} /\ cache' = cache /\ epoch' = epoch
        /\ \E cat \in [{k \in keys : Questions(Rank(k, r.ask)) \in through} -> Answers \cup {None}],
              refine \in [{k \in keys : Questions(Rank(k, r.ask)) \in through} -> BOOLEAN] :
             run' = [run EXCEPT ![a].ask = r.ask \ keys,
                       ![a].decided = new({k \in keys : Questions(Rank(k, r.ask)) \in through}, cat, refine),
                       ![a].used = Used(a, n), ![a].sent = r.sent + Through(a, n)]
  BY DEF DecideWave, RunsInv
<1> DEFINE named == {k \in keys : Questions(Rank(k, r.ask)) \in through}
<1>2. PICK cat \in [named -> Answers \cup {None}], refine \in [named -> BOOLEAN] :
        run' = [run EXCEPT ![a].ask = r.ask \ keys, ![a].decided = new(named, cat, refine),
                           ![a].used = Used(a, n), ![a].sent = r.sent + Through(a, n)]
  BY <1>1
<1> DEFINE decided == new(named, cat, refine)
<1>3. /\ q = [r EXCEPT !.ask = r.ask \ keys, !.decided = decided,
                       !.used = Used(a, n), !.sent = r.sent + Through(a, n)]
      /\ run' = [run EXCEPT ![a] = q]
  BY <1>2 DEF RunsInv
<1>4. /\ r \in RunType /\ Shaped(r) /\ Before(r, epoch) /\ epoch \in Nat
      /\ CacheOK(cache, epoch)
  BY DEF RunsInv, Sane
<1>5. r.ask \in SUBSET Keys /\ r.epoch \in Nat /\ r.epoch <= epoch
  BY <1>4 DEF RunType, Before
<1>6. keys \subseteq r.ask /\ keys \in SUBSET Keys /\ named \subseteq keys /\ n \in Nat
  BY <1>5, QuestionsAreFew DEF Wave
<1>7. DOMAIN old \subseteq Keys /\ \A k \in DOMAIN old : old[k] \in Decisions
  BY <1>4, PartialFunctions DEF RunType
<1>8. /\ Used(a, n) \in Nat /\ r.sent + Through(a, n) \in Nat
      /\ r.sent + Through(a, n) <= Used(a, n) /\ Used(a, n) <= MaxCalls
  BY <1>4, <1>6, ChargesKept
<1>9. /\ DOMAIN decided = keys \cup DOMAIN old
      /\ \A k \in DOMAIN decided : /\ decided[k] \in Decisions
                                   /\ decided[k].at = r.epoch \/ (k \in DOMAIN old /\ decided[k] = old[k])
  <2>1. ASSUME NEW k \in keys \cup DOMAIN old
        PROVE  /\ decided[k] \in Decisions
               /\ decided[k].at = r.epoch \/ (k \in DOMAIN old /\ decided[k] = old[k])
    <3>1. CASE k \in named
      <4>1. decided[k] = Decision(cat[k], refine[k], r.epoch) /\ cat[k] \in Given /\ refine[k] \in BOOLEAN
        BY <3>1, <1>6, CatsAssumption DEF Given
      <4> HIDE DEF decided, named
      <4> QED  BY <4>1, <1>5 DEF Decision, Decisions
    <3>2. CASE k \notin named /\ k \in DOMAIN old
      BY <3>2, <1>7
    <3>3. CASE k \notin named /\ k \notin DOMAIN old
      <4>1. decided[k] = Decision(None, TRUE, r.epoch)
        BY <3>3
      <4> HIDE DEF decided
      <4> QED  BY <4>1, <1>5 DEF Decision, Decisions, Given
    <3> QED  BY <3>1, <3>2, <3>3
  <2> QED  BY <2>1
<1>10. decided \in Partial(Keys, Decisions)
  <2>1. decided \in [keys \cup DOMAIN old -> Decisions]
    BY <1>9
  <2>2. keys \cup DOMAIN old \in SUBSET Keys
    BY <1>6, <1>7
  <2> HIDE DEF decided, keys, old
  <2> QED  BY <2>1, <2>2, PartialMade
<1> HIDE DEF decided, named, new, n
<1>11. q \in RunType
  <2>1. r.ask \ keys \in SUBSET Keys
    BY <1>5
  <2> HIDE DEF keys, q
  <2> QED  BY <1>3, <1>4, <1>8, <1>10, <2>1 DEF RunType
<1>12. /\ q.at = r.at /\ q.epoch = r.epoch /\ q.since = r.since /\ q.alone = r.alone
       /\ q.cache = r.cache /\ q.note = r.note /\ q.key = r.key /\ q.ask = r.ask \ keys
       /\ q.decided = decided /\ q.over = r.over /\ q.used = Used(a, n)
       /\ q.sent = r.sent + Through(a, n)
  BY <1>3, <1>4 DEF RunType
<1> HIDE DEF r, q, keys, old
<1>13. DOMAIN r.decided = DOMAIN old /\ \A k \in DOMAIN old : old[k] = r.decided[k]
  BY DEF old
<1>14. Shaped(q)
  BY <1>1, <1>4, <1>8, <1>9, <1>12, <1>13 DEF Shaped, Early, Late
<1>15. Before(q, epoch)
  BY <1>4, <1>5, <1>9, <1>12, <1>13 DEF Before
<1>16. \A s : After(r, s) => After(q, s)
  BY <1>1, <1>9, <1>12, <1>13 DEF After, Early
<1> QED  BY <1>1, <1>3, <1>4, <1>11, <1>12, <1>14, <1>15, <1>16, OneRunMoves DEF Sane, r, q
(* Whatever ids the replies name, a refinement reaches only rows of the    *)
(* vendors it was asked about.                                             *)
LEMMA RefineKeeps ==
  ASSUME RunsInv, NEW a \in Runs, Refine(a)
  PROVE  RunsInv'
<1> DEFINE r == run[a]
           q == run'[a]
           mixed == {k \in DOMAIN r.decided : r.decided[k].refine}
           n     == Cardinality(mixed)
           shown(through) == {k \in mixed : Rank(k, mixed) \in through}
           reached(through, named) == UNION {OwnRows(RowsOf(a, k), named[k]) : k \in shown(through)}
<1>1. PICK through \in SUBSET (1..n) :
        /\ r.at = "asking" /\ r.ask = {} /\ cache' = cache /\ epoch' = epoch
        /\ \E named \in [shown(through) -> SUBSET DOMAIN r.key], c \in Answers \cup {None} :
             run' = [run EXCEPT ![a].at = "checking", ![a].over = [t \in reached(through, named) |-> c],
                                ![a].used = Used(a, n), ![a].sent = r.sent + Through(a, n)]
  BY DEF Refine, RunsInv
<1>2. PICK named \in [shown(through) -> SUBSET DOMAIN r.key], c \in Answers \cup {None} :
        run' = [run EXCEPT ![a].at = "checking", ![a].over = [t \in reached(through, named) |-> c],
                           ![a].used = Used(a, n), ![a].sent = r.sent + Through(a, n)]
  BY <1>1
<1> DEFINE over == [t \in reached(through, named) |-> c]
<1>3. /\ q = [r EXCEPT !.at = "checking", !.over = over,
                       !.used = Used(a, n), !.sent = r.sent + Through(a, n)]
      /\ run' = [run EXCEPT ![a] = q]
  BY <1>2 DEF RunsInv
<1>4. /\ r \in RunType /\ Shaped(r) /\ Before(r, epoch) /\ epoch \in Nat
      /\ CacheOK(cache, epoch)
  BY DEF RunsInv, Sane
<1>5. DOMAIN r.decided \subseteq Keys /\ DOMAIN r.key \subseteq Txns
  BY <1>4, PartialFunctions DEF RunType
<1>6. n \in Nat
  <2>1. mixed \in SUBSET Keys
    BY <1>5
  <2> QED  BY <2>1, QuestionsAreFew
<1>7. /\ Used(a, n) \in Nat /\ r.sent + Through(a, n) \in Nat
      /\ r.sent + Through(a, n) <= Used(a, n) /\ Used(a, n) <= MaxCalls
  BY <1>4, <1>6, ChargesKept
<1>8. \A t \in reached(through, named) :
        t \in DOMAIN r.key /\ r.key[t] \in DOMAIN r.decided /\ r.decided[r.key[t]].refine
  BY DEF OwnRows, RowsOf
<1>9. over \in Partial(Txns, Given) /\ DOMAIN over = reached(through, named)
  <2>1. over \in [reached(through, named) -> Given] /\ DOMAIN over = reached(through, named)
    BY CatsAssumption DEF Given
  <2>2. reached(through, named) \in SUBSET Txns
    BY <1>5, <1>8
  <2> HIDE DEF over, reached
  <2> QED  BY <2>1, <2>2, PartialMade
<1> HIDE DEF over, n, reached
<1>10. q \in RunType
  <2> HIDE DEF q
  <2> QED  BY <1>3, <1>4, <1>7, <1>9 DEF RunType, Late
<1>11. /\ q.at = "checking" /\ q.epoch = r.epoch /\ q.since = r.since /\ q.alone = r.alone
       /\ q.cache = r.cache /\ q.note = r.note /\ q.key = r.key /\ q.ask = r.ask
       /\ q.decided = r.decided /\ q.over = over /\ q.used = Used(a, n)
       /\ q.sent = r.sent + Through(a, n)
  BY <1>3, <1>4 DEF RunType
<1> HIDE DEF r, q
<1>12. Shaped(q)
  BY <1>1, <1>4, <1>7, <1>8, <1>9, <1>11 DEF Shaped, Early, Late
<1>13. Before(q, epoch)
  BY <1>4, <1>11 DEF Before
<1>14. \A s : After(r, s) => After(q, s)
  BY <1>1, <1>11 DEF After, Early
<1> QED  BY <1>1, <1>3, <1>4, <1>10, <1>11, <1>12, <1>13, <1>14, OneRunMoves DEF Sane, r, q

LEMMA SelfCheckKeeps ==
  ASSUME RunsInv, NEW a \in Runs, SelfCheck(a)
  PROVE  RunsInv'
<1> DEFINE r == run[a]
           q == run'[a]
           old == r.decided
           n   == IF DOMAIN old = {} THEN 0 ELSE 1
           new(moved, c) == [k \in DOMAIN old |->
                               IF k \in moved THEN Decision(c, old[k].refine, r.epoch) ELSE old[k]]
<1>1. PICK moved \in {{}} \cup {{k} : k \in DOMAIN old}, c \in Answers \cup {None} :
        /\ r.at = "checking" /\ cache' = cache /\ epoch' = epoch
        /\ run' = [run EXCEPT ![a].at = "caching", ![a].decided = new(moved, c),
                              ![a].used = Used(a, n), ![a].sent = r.sent + Through(a, n)]
  BY Zenon DEF SelfCheck
<1> DEFINE decided == new(moved, c)
<1>2. /\ q = [r EXCEPT !.at = "caching", !.decided = decided,
                       !.used = Used(a, n), !.sent = r.sent + Through(a, n)]
      /\ run' = [run EXCEPT ![a] = q]
  BY <1>1 DEF RunsInv
<1>3. /\ r \in RunType /\ Shaped(r) /\ Before(r, epoch) /\ epoch \in Nat
      /\ CacheOK(cache, epoch)
  BY DEF RunsInv, Sane
<1>4. r.epoch \in Nat /\ r.epoch <= epoch
  BY <1>3 DEF RunType, Before
<1>5. DOMAIN old \subseteq Keys /\ \A k \in DOMAIN old : old[k] \in Decisions
  BY <1>3, PartialFunctions DEF RunType
<1>6. /\ Used(a, n) \in Nat /\ r.sent + Through(a, n) \in Nat
      /\ r.sent + Through(a, n) <= Used(a, n) /\ Used(a, n) <= MaxCalls
  BY <1>3, ChargesKept
<1>7. /\ DOMAIN decided = DOMAIN old
      /\ \A k \in DOMAIN old : /\ decided[k] \in Decisions
                               /\ decided[k].refine = old[k].refine
                               /\ decided[k].at = r.epoch \/ decided[k] = old[k]
  <2>1. ASSUME NEW k \in DOMAIN old
        PROVE  /\ decided[k] \in Decisions /\ decided[k].refine = old[k].refine
               /\ decided[k].at = r.epoch \/ decided[k] = old[k]
    <3>1. CASE k \in moved
      <4>1. decided[k] = Decision(c, old[k].refine, r.epoch) /\ c \in Given
        BY <3>1, CatsAssumption DEF Given
      <4>2. old[k].refine \in BOOLEAN
        BY <1>5 DEF Decisions
      <4> HIDE DEF decided
      <4> QED  BY <4>1, <4>2, <1>4 DEF Decision, Decisions
    <3>2. CASE k \notin moved
      BY <3>2, <1>5
    <3> QED  BY <3>1, <3>2
  <2> QED  BY <2>1
<1>8. decided \in Partial(Keys, Decisions)
  <2>1. decided \in [DOMAIN old -> Decisions]
    BY <1>7
  <2> HIDE DEF decided, old
  <2> QED  BY <1>5, <2>1, PartialMade
<1> HIDE DEF decided, new, n
<1>9. q \in RunType
  <2> HIDE DEF q
  <2> QED  BY <1>2, <1>3, <1>6, <1>8 DEF RunType, Late
<1>10. /\ q.at = "caching" /\ q.epoch = r.epoch /\ q.since = r.since /\ q.alone = r.alone
       /\ q.cache = r.cache /\ q.note = r.note /\ q.key = r.key /\ q.ask = r.ask
       /\ q.decided = decided /\ q.over = r.over /\ q.used = Used(a, n)
       /\ q.sent = r.sent + Through(a, n)
  BY <1>2, <1>3 DEF RunType
<1>11. DOMAIN decided = DOMAIN r.decided
       /\ \A k \in DOMAIN r.decided : /\ decided[k].refine = r.decided[k].refine
                                      /\ decided[k].at = r.epoch \/ decided[k] = r.decided[k]
  BY <1>7
<1> HIDE DEF r, q, old
<1>12. Shaped(q)
  BY <1>1, <1>3, <1>6, <1>10, <1>11 DEF Shaped, Early, Late
<1>13. Before(q, epoch)
  BY <1>3, <1>4, <1>10, <1>11 DEF Before
<1>14. \A s : After(r, s) => After(q, s)
  BY <1>1, <1>10, <1>11 DEF After, Early
<1> QED  BY <1>1, <1>2, <1>3, <1>9, <1>10, <1>12, <1>13, <1>14, OneRunMoves DEF Sane, r, q

(* What a run puts into the cache is no older than what it holds.          *)
LEMMA UpsertKeeps ==
  ASSUME RunsInv, NEW a \in Runs, UpsertVendorCache(a)
  PROVE  RunsInv'
<1> DEFINE r == run[a]
<1>1. /\ r.at = "caching" /\ To(a, "writing") /\ epoch' = epoch
      /\ cache' = [k \in Keys |-> IF k \notin DOMAIN r.decided THEN cache[k]
                                  ELSE [cat |-> r.decided[k].cat, at |-> r.decided[k].at]]
  BY DEF UpsertVendorCache
<1>2. {r.at, "writing"} \subseteq Late
  BY <1>1 DEF Late
<1>3. /\ run' = [run EXCEPT ![a] = run'[a]] /\ Sane(run'[a], epoch)
      /\ run'[a].alone = r.alone /\ run'[a].since = r.since
      /\ \A s : After(r, s) => After(run'[a], s)
  BY <1>1, <1>2, PhaseMoves
<1>4. /\ CacheOK(cache, epoch) /\ r \in RunType /\ Before(r, epoch)
  BY DEF RunsInv, Sane
<1>5. \A k \in DOMAIN r.decided : r.decided[k] \in Decisions
  BY <1>4, PartialFunctions DEF RunType
<1> HIDE DEF r
<1>6. ASSUME NEW k \in Keys
      PROVE  /\ cache'[k] \in Entries /\ cache'[k].at <= epoch
             /\ \/ cache'[k] = cache[k]
                \/ k \in DOMAIN r.decided /\ cache'[k].at = r.decided[k].at
  <2>1. CASE k \in DOMAIN r.decided
    <3>1. cache'[k] = [cat |-> r.decided[k].cat, at |-> r.decided[k].at]
      BY <1>1, <2>1
    <3> QED  BY <1>4, <1>5, <2>1, <3>1 DEF Decisions, Entries, Before
  <2>2. CASE k \notin DOMAIN r.decided
    <3>1. cache'[k] = cache[k]
      BY <1>1, <2>2
    <3> QED  BY <1>4, <3>1 DEF CacheOK
  <2> QED  BY <2>1, <2>2
<1>7. CacheOK(cache', epoch)
  BY <1>1, <1>6 DEF CacheOK
<1>8. \A s : After(r, s) /\ CacheSince(cache, s) => CacheSince(cache', s)
  BY <1>6 DEF After, CacheSince
<1> QED  BY <1>1, <1>3, <1>7, <1>8, OneRunMoves DEF r
-----------------------------------------------------------------------------
(* The tables                                                              *)
LEMMA CountersKeep ==
  ASSUME Tables, Verb \/ Mishap
  PROVE  left' \in [runs : Nat, verbs : Nat, mishaps : Nat]
BY DEF Tables, Verb, Mishap

LEMMA UserKeepsTables ==
  ASSUME Tables, NEW t \in Txns,
         \/ \E c \in Cats : Confirm(t, c)
         \/ ClearCategory(t) \/ Review(t)
         \/ \E n \in Notes : Annotate(t, n)
  PROVE  Tables'
<1>1. Verb /\ board' = board
  BY DEF Confirm, ClearCategory, Review, Annotate, Set
<1>2. left' \in [runs : Nat, verbs : Nat, mishaps : Nat]
  BY <1>1, CountersKeep
<1>3. \/ row' \in [Txns -> Rows] /\ proof' = proof
      \/ row' = row /\ proof' \in [Txns -> Keys \cup {None}]
  <2>1. row[t] \in Rows
    BY DEF Tables
  <2>2. ASSUME NEW c \in Cats, Confirm(t, c)
        PROVE  row' \in [Txns -> Rows] /\ proof' = proof
    BY <2>1, <2>2 DEF Confirm, Tables, Rows, Given
  <2>3. ASSUME ClearCategory(t)
        PROVE  row' \in [Txns -> Rows] /\ proof' = proof
    BY <2>1, <2>3 DEF ClearCategory, Set, Tables, Rows, Given
  <2>4. ASSUME NEW n \in Notes, Annotate(t, n)
        PROVE  row' \in [Txns -> Rows] /\ proof' = proof
    BY <2>1, <2>4 DEF Annotate, Set, Tables, Rows
  <2>5. ASSUME Review(t)
        PROVE  row' = row /\ proof' \in [Txns -> Keys \cup {None}]
    <3>1. Receipt[t] \in Keys \cup {None}
      BY KeysAssumption
    <3> QED  BY <2>5, <3>1 DEF Review, Tables
  <2> QED  BY <2>2, <2>3, <2>4, <2>5
<1> QED  BY <1>1, <1>2, <1>3 DEF Tables

LEMMA VerdictsAreGiven ==
  ASSUME RunsInv, NEW a \in Runs, run[a].at = "writing", NEW t \in DOMAIN run[a].note
  PROVE  Verdict(run[a], t) \in Given /\ (t \notin Ruled => run[a].key[t] \in Keys)
<1> DEFINE r == run[a]
<1>1. r \in RunType /\ Shaped(r)
  BY DEF RunsInv, Sane
<1>2. /\ \A u \in DOMAIN r.key : r.key[u] \in Keys
      /\ \A u \in DOMAIN r.over : r.over[u] \in Given
      /\ \A k \in DOMAIN r.decided : r.decided[k] \in Decisions
  BY <1>1, PartialFunctions DEF RunType
<1>3. t \notin Ruled => t \in DOMAIN r.key /\ r.key[t] \in DOMAIN r.decided
  BY <1>1 DEF Shaped, Early, Late
<1>4. {RuleCat, RefundCat, None} \subseteq Given
  BY CatsAssumption DEF Given
<1> HIDE DEF r
<1>5. Verdict(r, t) \in Given
  BY <1>2, <1>3, <1>4 DEF Verdict, Decisions
<1> QED  BY <1>2, <1>3, <1>5 DEF r

LEMMA UpdateKeepsTables ==
  ASSUME Tables, RunsInv, NEW a \in Runs, UpdateCategorizations(a)
  PROVE  Tables'
<1>1. ASSUME NEW t \in Txns, t \in DOMAIN run[a].note, ~row[t].locked
      PROVE  [row[t] EXCEPT !.cat = Coalesce(Verdict(run[a], t), row[t].cat),
                            !.key = IF t \in Ruled THEN row[t].key ELSE run[a].key[t]] \in Rows
  <2>1. Verdict(run[a], t) \in Given /\ (t \notin Ruled => run[a].key[t] \in Keys)
    BY <1>1, VerdictsAreGiven DEF UpdateCategorizations
  <2>2. row[t] \in Rows
    BY DEF Tables
  <2>3. Coalesce(Verdict(run[a], t), row[t].cat) \in Given
    BY <2>1, <2>2 DEF Coalesce, Rows
  <2> HIDE DEF Coalesce, Verdict
  <2> QED  BY <2>1, <2>2, <2>3 DEF Rows
<1>2. row' \in [Txns -> Rows]
  BY <1>1 DEF UpdateCategorizations, Tables, IsOpen
<1> QED  BY <1>2 DEF UpdateCategorizations, End, Tables

LEMMA ClearAllKeepsTables ==
  ASSUME Tables, NEW a \in Runs, ClearAllCategories(a)
  PROVE  Tables'
<1>1. row' \in [Txns -> Rows]
  BY DEF ClearAllCategories, Tables, Rows, Given
<1> QED  BY <1>1 DEF ClearAllCategories, Logs, Tables

(* Everything else writes no row and no proof.                             *)
LEMMA RestKeepsTables ==
  ASSUME Tables, row' = row, proof' = proof, board' \in {"idle", "running", "quiet"},
         \/ left' = left \/ Verb \/ Mishap
         \/ left.runs > 0 /\ left' = [left EXCEPT !.runs = @ - 1]
  PROVE  Tables'
BY CountersKeep DEF Tables

-----------------------------------------------------------------------------
(* Every step                                                              *)
LEMMA StepKeeps ==
  ASSUME AgentInv, NEW a \in Runs, Step(a)
  PROVE  AgentInv'
<1> USE DEF AgentInv
<1>0. board \in {"idle", "running", "quiet"}
  BY DEF Tables
<1>1. CASE ClearAllCategories(a)
  BY <1>1, ClearAllKeeps, ClearAllKeepsTables
<1>2. CASE ClearVendorCache(a)
  <2>1. Tables'
    BY <1>0, <1>2, RestKeepsTables DEF ClearVendorCache, Logs
  <2> QED  BY <1>2, <2>1, ClearVendorCacheKeeps
<1>3. CASE LoadCache(a)
  <2>1. Tables'
    BY <1>0, <1>3, RestKeepsTables DEF LoadCache, Logs
  <2> QED  BY <1>3, <2>1, LoadCacheKeeps
<1>4. CASE NothingInScope(a)
  <2>1. Tables'
    BY <1>0, <1>4, RestKeepsTables DEF NothingInScope, End
  <2> QED  BY <1>4, <2>1, EndKeeps DEF NothingInScope
<1>5. ASSUME NEW g \in Guesses, Loaded(a, g)
      PROVE  AgentInv'
  <2>1. PICK proven \in {proof, NoProof} : LoadAndCluster(a, g, proven) /\ (left' = left \/ Mishap)
    BY <1>5 DEF Loaded
  <2>2. Tables'
    BY <1>0, <2>1, RestKeepsTables DEF LoadAndCluster, Logs
  <2> QED  BY <2>1, <2>2, LoadAndClusterKeeps
<1>6. CASE DecideWave(a)
  <2>1. Tables'
    BY <1>0, <1>6, RestKeepsTables DEF DecideWave, Logs
  <2> QED  BY <1>6, <2>1, DecideWaveKeeps
<1>7. CASE Refine(a)
  <2>1. Tables'
    BY <1>0, <1>7, RestKeepsTables DEF Refine, Logs
  <2> QED  BY <1>7, <2>1, RefineKeeps
<1>8. CASE SelfCheck(a)
  <2>1. Tables'
    BY <1>0, <1>8, RestKeepsTables DEF SelfCheck, Logs
  <2> QED  BY <1>8, <2>1, SelfCheckKeeps
<1>9. CASE UpsertVendorCache(a)
  <2>1. Tables'
    BY <1>0, <1>9, RestKeepsTables DEF UpsertVendorCache
  <2> QED  BY <1>9, <2>1, UpsertKeeps
<1>10. CASE UpdateCategorizations(a)
  BY <1>10, UpdateKeepsTables, EndKeeps DEF UpdateCategorizations
<1> QED  BY <1>1, <1>2, <1>3, <1>4, <1>5, <1>6, <1>7, <1>8, <1>9, <1>10 DEF Step

LEMMA InitSound ==
  ASSUME CategorizationInit
  PROVE  AgentInv
<1>1. Tables
  <2>1. ASSUME NEW g \in Guesses, NEW t \in Txns
        PROVE  [cat |-> None, key |-> IF Line[t] = None THEN g ELSE Line[t],
                note |-> None, locked |-> FALSE] \in Rows
    <3>1. Line[t] \in Keys \cup {None} /\ g \in Keys
      BY KeysAssumption
    <3> QED  BY <3>1 DEF Rows, Given, Notes
  <2>2. row \in [Txns -> Rows]
    BY <2>1 DEF CategorizationInit
  <2>3. proof \in [Txns -> Keys \cup {None}]
    BY KeysAssumption DEF CategorizationInit
  <2> QED  BY <2>2, <2>3, BoundsAssumption DEF CategorizationInit, Tables
<1>2. CacheOK(cache, 0)
  BY CatsAssumption DEF CategorizationInit, CacheOK, Entries, Given, Blank
<1>3. Sane(Idle, 0) /\ Idle.alone = FALSE
  BY IdleIsSane DEF Hands
<1>4. epoch = 0 /\ run = [a \in Runs |-> Idle]
  BY DEF CategorizationInit
<1>5. RunsInv
  BY <1>2, <1>3, <1>4 DEF RunsInv, Cleared, Sane
<1> QED  BY <1>1, <1>5 DEF AgentInv

LEMMA NextKeeps ==
  ASSUME AgentInv, [CategorizationNext]_vars
  PROVE  AgentInv'
<1> USE DEF AgentInv
<1>0. board \in {"idle", "running", "quiet"}
  BY DEF Tables
<1>1. ASSUME NEW t \in Txns,
             \/ \E c \in Cats : Confirm(t, c)
             \/ ClearCategory(t) \/ Review(t)
             \/ \E n \in {None, "unsure", "refund"} : Annotate(t, n)
      PROVE  AgentInv'
  <2>1. UNCHANGED <<cache, run, epoch>>
    BY <1>1 DEF Confirm, ClearCategory, Review, Annotate, Set
  <2> QED  BY <1>1, <2>1, UserKeepsTables, RunsAtRest DEF Notes
<1>2. ASSUME NEW a \in Runs, AfterMatching(a) \/ RecategorizeAll(a)
      PROVE  AgentInv'
  <2>1. Tables'
    BY <1>0, <1>2, RestKeepsTables DEF AfterMatching, RecategorizeAll, Start
  <2>2. \E at \in Early : Start(a, at)
    BY <1>2 DEF AfterMatching, RecategorizeAll, Early
  <2>3. UNCHANGED <<cache, epoch>>
    BY <1>2 DEF AfterMatching, RecategorizeAll
  <2> QED  BY <2>1, <2>2, <2>3, StartKeeps
<1>3. ASSUME NEW a \in Runs, Fail(a)
      PROVE  AgentInv'
  <2>1. Tables'
    BY <1>0, <1>3, RestKeepsTables DEF Fail, End
  <2> QED  BY <1>3, <2>1, EndKeeps DEF Fail
<1>4. CASE GoQuiet
  <2>1. Tables'
    BY <1>4, RestKeepsTables DEF GoQuiet
  <2> QED  BY <1>4, <2>1, RunsAtRest DEF GoQuiet
<1>5. CASE Restart
  <2>1. Tables'
    BY <1>5, RestKeepsTables DEF Restart
  <2> QED  BY <1>5, <2>1, RestartKeeps
<1>6. CASE UNCHANGED vars
  <2>1. Tables' /\ UNCHANGED <<cache, run, epoch>>
    BY <1>6 DEF vars, Tables
  <2> QED  BY <2>1, RunsAtRest
<1> QED  BY <1>1, <1>2, <1>3, <1>4, <1>5, <1>6, StepKeeps DEF CategorizationNext

(* What the tables hold, and what every run has in its hands in each of    *)
(* its phases (run_categorization_agent): the inductive invariant.         *)
THEOREM AgentInvariant == CategorizationSpec => []AgentInv
<1>1. CategorizationInit => AgentInv
  BY InitSound
<1>2. AgentInv /\ [CategorizationNext]_vars => AgentInv'
  BY NextKeeps
<1> QED  BY <1>1, <1>2, PTL DEF CategorizationSpec
-----------------------------------------------------------------------------
(* What the runs check                                                     *)
LEMMA AgentInvSuffices == AgentInv => AsksWithinReason
<1> SUFFICES ASSUME AgentInv PROVE AsksWithinReason
  OBVIOUS
<1>1. \A a \in Runs : /\ run[a] \in RunType /\ Shaped(run[a]) /\ Before(run[a], epoch)
  BY DEF AgentInv, RunsInv, Sane
<1>2. BudgetHolds
  <2>1. ASSUME NEW a \in Runs
        PROVE  run[a].sent <= MaxCalls
    <3>1. run[a].sent \in Nat /\ run[a].used \in Nat
      BY <1>1 DEF RunType
    <3> QED  BY <1>1, <3>1, SizesAssumption DEF Shaped
  <2> QED  BY <2>1 DEF BudgetHolds
<1>3. FreshWhenAlone
  BY DEF AgentInv, RunsInv, FreshWhenAlone, Cleared, After, Runs
<1>4. CategorizationTypeOK
  <2>1. \A a \in Runs : DOMAIN run[a].decided \subseteq Keys /\ DOMAIN run[a].over \subseteq Txns
    BY <1>1, PartialFunctions DEF RunType
  <2>2. cache \in [Keys -> [cat : Cats \cup {None}, at : 0..epoch]]
    <3>1. epoch \in Nat /\ CacheOK(cache, epoch)
      BY DEF AgentInv, RunsInv
    <3>2. \A k \in Keys : cache[k] \in [cat : Cats \cup {None}, at : 0..epoch]
      BY <3>1 DEF CacheOK, Entries, Given
    <3> QED  BY <3>1, <3>2 DEF CacheOK
  <2> QED  BY <2>1, <2>2 DEF CategorizationTypeOK, AgentInv, Tables, Rows, Given, Notes
<1> QED  BY <1>2, <1>3, <1>4 DEF AsksWithinReason

(* Whatever the rows, vendors, runs and interleavings, a run stays within  *)
(* its budget of questions, and one that wiped the cache while no other    *)
(* run held a context reuses nothing decided before (_wrap_llm_call,       *)
(* _run_recategorize_background).                                          *)
THEOREM AsksWithinReasonHolds == CategorizationSpec => []AsksWithinReason
<1>1. AgentInv => AsksWithinReason
  BY AgentInvSuffices
<1> QED  BY <1>1, AgentInvariant, PTL

(* Only a verb of the user's, which the count shows, touches a locked row: *)
(* the wipe and the late UPDATE both look at the lock when they write.     *)
LEMMA StepSparesLocked ==
  ASSUME Tables, [CategorizationNext]_vars, NEW t \in Txns,
         row[t].locked, left'.verbs = left.verbs
  PROVE  row'[t] = row[t]
<1>1. ~Verb
  BY DEF Verb, Tables
<1>2. ASSUME NEW u \in Txns,
             \/ \E c \in Cats : Confirm(u, c)
             \/ ClearCategory(u) \/ Review(u)
             \/ \E n \in {None, "unsure", "refund"} : Annotate(u, n)
      PROVE  FALSE
  BY <1>1, <1>2 DEF Confirm, ClearCategory, Review, Annotate, Set
<1>3. ASSUME NEW a \in Runs, AfterMatching(a) \/ RecategorizeAll(a) \/ Fail(a)
      PROVE  row' = row
  BY <1>3 DEF AfterMatching, RecategorizeAll, Fail
<1>4. ASSUME NEW a \in Runs, ClearAllCategories(a)
      PROVE  row'[t] = row[t]
  BY <1>4 DEF ClearAllCategories
<1>5. ASSUME NEW a \in Runs, UpdateCategorizations(a)
      PROVE  row'[t] = row[t]
  BY <1>5 DEF UpdateCategorizations, IsOpen
<1>6. ASSUME NEW a \in Runs, NEW g \in Guesses, Loaded(a, g)
      PROVE  row' = row
  BY <1>6 DEF Loaded, LoadAndCluster
<1>7. ASSUME NEW a \in Runs,
             \/ ClearVendorCache(a) \/ LoadCache(a) \/ NothingInScope(a) \/ DecideWave(a)
             \/ Refine(a) \/ SelfCheck(a) \/ UpsertVendorCache(a)
      PROVE  row' = row
  BY <1>7 DEF ClearVendorCache, LoadCache, NothingInScope, DecideWave, Refine, SelfCheck,
              UpsertVendorCache
<1>8. GoQuiet \/ Restart \/ UNCHANGED vars => row' = row
  BY DEF GoQuiet, Restart, vars
<1> QED  BY <1>2, <1>3, <1>4, <1>5, <1>6, <1>7, <1>8 DEF CategorizationNext, Step

LockStep == \A t \in Txns : row[t].locked /\ left'.verbs = left.verbs => row'[t] = row[t]
(* Whichever runs overlap, and whatever they read before, a row the user   *)
(* has confirmed changes only by his own hand                              *)
(* (update_transaction_categorizations, clear_all_transaction_categories). *)
THEOREM LockHoldsAlways == CategorizationSpec => LockHolds
<1>1. AgentInv /\ [CategorizationNext]_vars => [LockStep]_vars
  BY StepSparesLocked DEF LockStep, AgentInv
<1>2. CategorizationSpec => [][LockStep]_vars
  BY <1>1, AgentInvariant, PTL DEF CategorizationSpec
<1> QED  BY <1>2 DEF LockStep, LockHolds

(* Of all that moves, only the write of the run itself is its writing.     *)
LEMMA OnlyUpdatesWrite ==
  ASSUME AgentInv, [CategorizationNext]_vars, NEW a \in Runs, Writes(a)
  PROVE  UpdateCategorizations(a)
<1>1. run[a].at = "writing" /\ run'[a].at # run[a].at /\ left'.mishaps = left.mishaps
  BY DEF Writes
<1>2. run \in [Runs -> RunType]
  BY DEF AgentInv, RunsInv
<1>3. ~Mishap
  BY <1>1 DEF Mishap, AgentInv, Tables
<1>4. ASSUME NEW u \in Txns,
             \/ \E c \in Cats : Confirm(u, c)
             \/ ClearCategory(u) \/ Review(u)
             \/ \E n \in {None, "unsure", "refund"} : Annotate(u, n)
      PROVE  FALSE
  BY <1>1, <1>4 DEF Confirm, ClearCategory, Review, Annotate, Set
<1>5. ~(GoQuiet \/ Restart \/ UNCHANGED vars)
  BY <1>1, <1>3 DEF GoQuiet, Restart, vars
<1>6. ASSUME NEW b \in Runs, b # a, Step(b) \/ AfterMatching(b) \/ RecategorizeAll(b) \/ Fail(b)
      PROVE  FALSE
  <2>1. AfterMatching(b) \/ RecategorizeAll(b) => run'[a] = run[a]
    BY <1>2, <1>6 DEF AfterMatching, RecategorizeAll, Start
  <2>2. ClearAllCategories(b) \/ ClearVendorCache(b) \/ LoadCache(b) => run'[a] = run[a]
    BY <1>2, <1>6 DEF ClearAllCategories, To, ClearVendorCache, LoadCache
  <2>3. NothingInScope(b) \/ UpdateCategorizations(b) => run'[a] = run[a]
    BY <1>2, <1>6 DEF NothingInScope, UpdateCategorizations, End
  <2>4. ASSUME NEW g \in Guesses, Loaded(b, g)
        PROVE  run'[a] = run[a]
    BY <1>2, <1>6, <2>4 DEF Loaded, LoadAndCluster
  <2>5. DecideWave(b) => run'[a] = run[a]
    BY <1>2, <1>6 DEF DecideWave
  <2>6. Refine(b) => run'[a] = run[a]
    BY <1>2, <1>6 DEF Refine
  <2>7. SelfCheck(b) \/ UpsertVendorCache(b) => run'[a] = run[a]
    BY <1>2, <1>6 DEF SelfCheck, UpsertVendorCache, To
  <2>8. ~Fail(b)
    BY <1>3 DEF Fail
  <2> QED  BY <1>1, <1>6, <2>1, <2>2, <2>3, <2>4, <2>5, <2>6, <2>7, <2>8 DEF Step
<1>7. ASSUME Step(a) \/ AfterMatching(a) \/ RecategorizeAll(a) \/ Fail(a)
      PROVE  UpdateCategorizations(a)
  <2>1. ~AfterMatching(a) /\ ~RecategorizeAll(a) /\ ~Fail(a)
    BY <1>1, <1>3 DEF AfterMatching, RecategorizeAll, Start, Fail
  <2>2. ~ClearAllCategories(a) /\ ~ClearVendorCache(a) /\ ~LoadCache(a) /\ ~NothingInScope(a)
    BY <1>1 DEF ClearAllCategories, ClearVendorCache, LoadCache, NothingInScope
  <2>3. \A g \in Guesses : ~Loaded(a, g)
    BY <1>1 DEF Loaded, LoadAndCluster
  <2>4. ~DecideWave(a) /\ ~Refine(a) /\ ~SelfCheck(a) /\ ~UpsertVendorCache(a)
    BY <1>1 DEF DecideWave, Refine, SelfCheck, UpsertVendorCache
  <2> QED  BY <1>7, <2>1, <2>2, <2>3, <2>4 DEF Step
<1> QED  BY <1>4, <1>5, <1>6, <1>7 DEF CategorizationNext

(* A row with a key has a note too; an uncertain owner leaves it as it is, *)
(* and without a refinement the decision on its vendor is what it gets.    *)
LEMMA VendorWrites ==
  ASSUME AgentInv, NEW a \in Runs, NEW t \in Txns, UpdateCategorizations(a), t \in DOMAIN run[a].key
  PROVE  LET d == run[a].decided[run[a].key[t]]
         IN /\ run[a].note[t] = "unsure" => row'[t].cat = row[t].cat
            /\ run[a].note[t] = None /\ ~row[t].locked /\ ~d.refine
                 => row'[t].cat = Coalesce(d.cat, row[t].cat)
<1> DEFINE r == run[a]
           d == r.decided[r.key[t]]
           verdict == Verdict(r, t)
<1>1. /\ r.at = "writing"
      /\ row'[t] = IF t \in DOMAIN r.note /\ ~row[t].locked
                   THEN [row[t] EXCEPT !.cat = Coalesce(verdict, row[t].cat),
                                       !.key = IF t \in Ruled THEN row[t].key ELSE r.key[t]]
                   ELSE row[t]
  BY DEF UpdateCategorizations, IsOpen
<1>2. row[t] \in Rows /\ Shaped(r)
  BY DEF AgentInv, Tables, RunsInv, Sane
<1>3. t \in DOMAIN r.note /\ t \notin Ruled
  BY <1>1, <1>2 DEF Shaped, Early
<1>4. r.note[t] = "unsure" => verdict = None
  BY <1>3 DEF Verdict, None
<1>5. r.note[t] = None /\ ~d.refine => verdict = d.cat
  BY <1>2, <1>3 DEF Verdict, Shaped
<1> HIDE DEF r, d, verdict
<1>6. row'[t].cat = IF ~row[t].locked THEN Coalesce(verdict, row[t].cat) ELSE row[t].cat
  BY <1>1, <1>2, <1>3 DEF Rows
<1>7. /\ r.note[t] = "unsure" => row'[t].cat = row[t].cat
      /\ r.note[t] = None /\ ~row[t].locked /\ ~d.refine => row'[t].cat = Coalesce(d.cat, row[t].cat)
  BY <1>4, <1>5, <1>6 DEF Coalesce
<1> QED  BY <1>7 DEF r, d

AgreeStep ==
  \A a \in Runs, t \in Txns : Writes(a) /\ t \in DOMAIN run[a].key =>
    LET d == run[a].decided[run[a].key[t]]
    IN /\ run[a].note[t] = "unsure" => row'[t].cat = row[t].cat
       /\ run[a].note[t] = None /\ ~row[t].locked /\ ~d.refine
            => row'[t].cat = Coalesce(d.cat, row[t].cat)
(* Whatever the replies about other vendors say, the rows of a vendor that *)
(* needed no refinement get its decision, and a row of an unsure owner     *)
(* keeps what it has (refine_transactions, build_transaction_updates).     *)
THEOREM VendorsAgreeAlways == CategorizationSpec => VendorsAgree
<1>1. AgentInv /\ [CategorizationNext]_vars => [AgreeStep]_vars
  BY OnlyUpdatesWrite, VendorWrites DEF AgreeStep
<1>2. CategorizationSpec => [][AgreeStep]_vars
  BY <1>1, AgentInvariant, PTL DEF CategorizationSpec
<1> QED  BY <1>2 DEF AgreeStep, VendorsAgree
=============================================================================
