---------------------------- MODULE ProviderChain ----------------------------
(***************************************************************************)
(* How one document, or one question of an agent, is asked of the models:  *)
(* down the providers local, Gemini, OpenAI, each with its own retries,    *)
(* larger budget, corrective question and ladder of models, behind the two *)
(* semaphores the documents share. Receipts (core/extraction.py), bank     *)
(* statements (core/llm_statement_parser.py) and agents (core/llm_sync.py) *)
(* walk the same chain by different rules. A long document is read in      *)
(* batches of pages, each a call of its own with all of a call's retries;  *)
(* a receipt's batches may be re-read at a higher resolution, and the whole*)
(* reading of a statement is repeated once when its balance does not agree.*)
(***************************************************************************)
EXTENDS Integers, FiniteSets, Sequences

CONSTANTS Readers,       \* what is being read at the same time
          Kinds,         \* [Readers -> "receipt", "statement", "agent"]
          Batches,       \* [Readers -> the batches of pages it is read in]
          Chain,         \* the configured providers, in order
          Rungs,         \* Gemini models on the ladder
          VerifyCalls,   \* RECEIPT_TOTAL_VERIFY_MAX_CALLS
          DocumentSlots, \* LLM_MAX_CONCURRENT_EXTRACTIONS
          LocalSlots     \* LOCAL_LLM_MAX_CONCURRENT

ASSUME ChainAssumption ==
  /\ Chain \in Seq({"local", "gemini", "openai"}) /\ Chain # <<>>
  /\ \A i, k \in DOMAIN Chain : Chain[i] = Chain[k] => i = k
  /\ Kinds \in [Readers -> {"receipt", "statement", "agent"}]
  /\ Batches \in [Readers -> Nat \ {0}]
  /\ \A r \in Readers : Kinds[r] = "agent" => Batches[r] = 1
  /\ Rungs \in Nat \ {0} /\ DocumentSlots \in Nat \ {0} /\ LocalSlots \in Nat \ {0}
  /\ VerifyCalls \in Nat

VARIABLE call   \* how far each reader has got

(* "asked" counts the requests of the call under way, "calls" the calls put*)
(* to a provider (of a statement, to one model of Gemini's ladder).        *)
Queued == [at |-> "queued", link |-> 0, rung |-> 1, tries |-> 0, doubled |-> FALSE,
           corrected |-> FALSE, asked |-> 0, step |-> "read", batch |-> 1, checked |-> 0,
           calls |-> 0, failed |-> {}, cuts |-> {}, last |-> "none", kept |-> "none",
           verdict |-> "none"]

(* A connection that cannot be made says so in the text of its error       *)
(* ("down"), or only by the error's type, as a connect timeout ("mute").   *)
Cuts == {"down", "mute"}
Faults == Cuts \cup {"capacity", "server", "timeout", "gone", "garbage"}

CallTypeOK ==
  call \in [Readers ->
     [at : {"queued", "gate", "asked", "over"}, link : 0..Len(Chain), rung : 1..Rungs,
      tries : 0..2, doubled : BOOLEAN, corrected : BOOLEAN, asked : Nat,
      step : {"read", "sharpen", "verify", "correct"}, batch : Nat \ {0}, checked : Nat, calls : Nat,
      failed : SUBSET {"local", "gemini", "openai"}, cuts : SUBSET Cuts,
      last : {"none", "down", "mute", "timeout", "other"}, kept : {"none", "vendorless"},
      verdict : {"none", "answer", "weak", "vendorless", "outage", "slow", "failed"}]]

Provider(c) == Chain[c.link]
Gated(r) == Kinds[r] # "agent"
Inside == {r \in Readers : Gated(r) /\ call[r].at \in {"gate", "asked"}}
AtServer == {r \in Readers : Gated(r) /\ call[r].at = "asked" /\ Provider(call[r]) = "local"}

Becomes(r, c) == call' = [call EXCEPT ![r] = c]
Again(c) == [c EXCEPT !.asked = @ + 1]
Settled(c, v) ==
  [Queued EXCEPT !.at = "over", !.link = c.link, !.failed = c.failed, !.cuts = c.cuts,
                 !.last = c.last, !.kept = c.kept, !.verdict = v]

(* A call of its own: a receipt takes the local server's slot for each, a  *)
(* statement once for all the batches of a reading. A receipt starts       *)
(* Gemini's ladder anew, a statement stays on its model.                   *)
Calls(r, c) ==
  LET d == [c EXCEPT !.rung = IF Kinds[r] = "statement" THEN @ ELSE 1, !.tries = 0,
                     !.doubled = FALSE, !.corrected = FALSE, !.asked = 0, !.calls = @ + 1]
  IN IF Provider(c) = "local" /\ Gated(r) /\ (Kinds[r] = "receipt" \/ c.batch = 1)
     THEN [d EXCEPT !.at = "gate"] ELSE Again([d EXCEPT !.at = "asked"])

(* A provider is asked to read the document from its first page.           *)
Opens(r, c, k) ==
  Calls(r, [c EXCEPT !.link = k, !.rung = 1, !.step = "read", !.batch = 1, !.checked = 0, !.calls = 0])

-----------------------------------------------------------------------------
(* When every provider is spent                                            *)

(* mutant: a timeout counts as an outage too                               *)
StatementVerdictLoose(c) ==
  IF c.last = "timeout" \/ c.cuts # {} THEN "outage" ELSE "failed"

(* StatementLocalEndpointDown, when nobody but the silent endpoint was     *)
(* asked; every other error has become text inside a StatementParseError,  *)
(* in which the caller looks for a lost connection, whoever lost it.       *)
StatementVerdict(c) ==
  IF (c.failed = {"local"} /\ c.last \in Cuts) \/ "down" \in c.cuts THEN "outage" ELSE "failed"

(* The last error is what is raised, and what the queue classifies.        *)
LastError(c) ==
  CASE c.last \in Cuts -> "outage" [] c.last = "timeout" -> "slow" [] OTHER -> "failed"

Spent(r, c) ==
  CASE c.kept # "none" -> c.kept
    [] c.kept = "none" /\ Kinds[r] = "statement" -> StatementVerdict(c)
    [] c.kept = "none" /\ Kinds[r] = "receipt" -> LastError(c)
    [] OTHER -> "failed"

Blame(c, e) ==
  [c EXCEPT !.failed = @ \cup {Provider(c)}, !.cuts = @ \cup ({e} \cap Cuts),
            !.last = IF e \in Cuts \cup {"timeout"} THEN e ELSE "other"]

(* A second reading that fails leaves the first one standing.              *)
Fails(r, c, e) ==
  LET d == Blame(c, e)
  IN CASE c.step = "correct" -> Settled(c, "answer")
       [] c.step # "correct" /\ c.link < Len(Chain) -> Opens(r, d, c.link + 1)
       [] OTHER -> Settled(d, Spent(r, d))

(* A receipt tries the call on the next model, a statement begins again.   *)
NextRung(r, c) ==
  LET d == [c EXCEPT !.rung = @ + 1, !.tries = 0]
  IN IF Kinds[r] = "statement" THEN Calls(r, [d EXCEPT !.batch = 1, !.calls = 0]) ELSE Again(d)

-----------------------------------------------------------------------------
(* The extraction semaphore, and inside it the one of the local server     *)
Enter(r) ==
  /\ call[r].at = "queued"
  /\ Gated(r) => Cardinality(Inside) < DocumentSlots
  /\ Becomes(r, Opens(r, call[r], 1))

(* mutant: the hosted providers' gate is the only one                      *)
PassFreely(r) == call[r].at = "gate" /\ Becomes(r, Again([call[r] EXCEPT !.at = "asked"]))

Pass(r) ==
  /\ call[r].at = "gate" /\ Cardinality(AtServer) < LocalSlots
  /\ Becomes(r, Again([call[r] EXCEPT !.at = "asked"]))

-----------------------------------------------------------------------------
(* What a provider may answer                                              *)
Asked(r) == call[r].at = "asked"
Chat(c) == Provider(c) # "gemini"

(* A hosted chat model is sent all pages of a statement in one call.       *)
Parts(r, c) == IF Kinds[r] = "statement" /\ Provider(c) = "openai" THEN 1 ELSE Batches[r]
Last(r) == Asked(r) /\ call[r].batch = Parts(r, call[r])

Answers(r) == Last(r) /\ Becomes(r, Settled(call[r], "answer"))

NextBatch(r) ==
  LET c == call[r]
  IN /\ Asked(r) /\ c.batch < Parts(r, c)
     /\ Becomes(r, Calls(r, [c EXCEPT !.batch = @ + 1, !.step = IF @ = "sharpen" THEN "read" ELSE @]))

(* A batch of a long receipt that read nothing is rendered sharper, once.  *)
Sharpens(r) ==
  LET c == call[r]
  IN /\ Asked(r) /\ Kinds[r] = "receipt" /\ Batches[r] > 1 /\ c.step = "read"
     /\ Becomes(r, Calls(r, [c EXCEPT !.step = "sharpen"]))

(* A total read at the lower resolution is read again, within a budget.    *)
Verifies(r) ==
  LET c == call[r]
  IN /\ Last(r) /\ Kinds[r] = "receipt" /\ Batches[r] > 1 /\ c.checked < VerifyCalls
     /\ Becomes(r, Calls(r, [c EXCEPT !.step = "verify", !.checked = @ + 1]))

(* The balance does not agree: the provider that answered reads it all once*)
(* more, Gemini with the first model.                                      *)
Rebalances(r) ==
  LET c == call[r]
  IN /\ Last(r) /\ Kinds[r] = "statement" /\ c.step = "read"
     /\ Becomes(r, Calls(r, [c EXCEPT !.step = "correct", !.batch = 1, !.rung = 1]))

(* _needs_second_opinion: a receipt with date and total and no vendor      *)
Vendorless(r) ==
  LET c == [call[r] EXCEPT !.kept = "vendorless"]
  IN /\ Last(r) /\ Kinds[r] = "receipt"
     /\ Becomes(r, IF c.link < Len(Chain) THEN Opens(r, c, c.link + 1)
                   ELSE Settled(c, "vendorless"))

(* One corrective question, then whatever it answers is kept. (Of a batch  *)
(* no amount is asked.)                                                    *)
Amountless(r) ==
  LET c == call[r]
  IN /\ Asked(r) /\ Kinds[r] = "receipt" /\ Batches[r] = 1
     /\ Becomes(r, IF Chat(c) /\ ~c.corrected THEN Again([c EXCEPT !.corrected = TRUE])
                   ELSE Settled(c, "weak"))

(* finish_reason "length": only the local provider is given a budget.      *)
Truncated(r) ==
  LET c == call[r]
  IN /\ Asked(r) /\ Gated(r) /\ Provider(c) = "local" /\ ~c.doubled /\ ~c.corrected
     /\ Becomes(r, Again([c EXCEPT !.doubled = TRUE]))

(* No JSON, or not of the schema                                           *)
Corrects(r, c) ==
  /\ ~c.corrected
  /\ IF Gated(r) THEN Chat(c) ELSE Provider(c) = "local"

Garbage(r) ==
  LET c == call[r]
  IN /\ Asked(r)
     /\ Becomes(r,
          CASE Corrects(r, c) -> Again([c EXCEPT !.corrected = TRUE])
            [] Provider(c) = "gemini" /\ Kinds[r] = "receipt" /\ c.rung < Rungs ->
                 NextRung(r, c)
            [] OTHER -> Fails(r, c, "garbage"))

(* A chat endpoint is asked up to three times while it says it is busy or  *)
(* broken; Gemini, for a receipt, once more after anything that is neither *)
(* a quota nor a timeout. The question that follows an answer has no retry.*)
Retries(r, c, e) ==
  /\ Gated(r) /\ ~c.doubled /\ ~c.corrected
  /\ IF Chat(c) THEN c.tries < 2 /\ e \in {"capacity", "server"}
     ELSE Kinds[r] = "receipt" /\ c.tries = 0 /\ e \notin {"capacity", "timeout"}

StepsDown(r, c, e) ==
  /\ Provider(c) = "gemini" /\ Gated(r) /\ c.rung < Rungs /\ c.step # "correct"
  /\ e = "capacity" \/ (e = "gone" /\ Kinds[r] = "receipt")

Raises(r, e) ==
  LET c == call[r]
  IN /\ Asked(r)
     /\ Becomes(r, CASE Retries(r, c, e) -> Again([c EXCEPT !.tries = @ + 1])
                     [] ~Retries(r, c, e) /\ StepsDown(r, c, e) -> NextRung(r, c)
                     [] OTHER -> Fails(r, c, e))

(* mutant: the local provider is waited for without end                    *)
HostedTimesOut(r) == Asked(r) /\ Provider(call[r]) # "local" /\ Raises(r, "timeout")

(* asyncio.wait_for around every request                                   *)
TimesOut(r) == Raises(r, "timeout")

(* The reader takes the next document.                                     *)
NextDocument(r) == call[r].at = "over" /\ Becomes(r, Queued)

-----------------------------------------------------------------------------
ChainInit == call = [r \in Readers |-> Queued]

Reads(r) ==
  \/ Answers(r) \/ NextBatch(r) \/ Sharpens(r) \/ Verifies(r) \/ Rebalances(r)
  \/ Vendorless(r) \/ Amountless(r) \/ Truncated(r) \/ Garbage(r) \/ TimesOut(r)
  \/ \E e \in Faults \ {"garbage", "timeout"} : Raises(r, e)

ChainNext == \E r \in Readers : Enter(r) \/ Pass(r) \/ Reads(r) \/ NextDocument(r)

(* Both semaphores wake their waiters in order of arrival, and no request  *)
(* outlives its timeout.                                                   *)
ChainFairness == \A r \in Readers : SF_call(Enter(r)) /\ SF_call(Pass(r)) /\ WF_call(TimesOut(r))

ChainSpec == ChainInit /\ [][ChainNext]_call /\ ChainFairness

-----------------------------------------------------------------------------
(* However long the queue of uploads, the local server is asked for no more*)
(* documents at a time than it is set up for, waiting corrective and larger*)
(* questions included.                                                     *)
ServerIsGated == Cardinality(AtServer) <= LocalSlots /\ Cardinality(Inside) <= DocumentSlots

(* Retries, doubled budgets, corrective questions and ladders add up within*)
(* a call; batches, sharper renderings, verifications and the second       *)
(* reading add up within a provider. No two of them multiply but calls and *)
(* the requests of a call: this bounds how long a document holds its slots.*)
CallsPerProvider(r) ==
  CASE Kinds[r] = "statement" -> 2 * Batches[r]
    [] Kinds[r] # "statement" /\ Batches[r] > 1 -> 2 * Batches[r] + VerifyCalls
    [] OTHER -> 1

RequestsAddUp ==
  \A r \in Readers :
     LET c == call[r]
     IN c.at \in {"gate", "asked"} =>
          /\ c.calls <= CallsPerProvider(r)
          /\ c.asked <= IF Provider(c) = "gemini" THEN 2 * Rungs ELSE 5

(* One document is a bounded load, on the server and in its slots.         *)
LoadIsBounded == CallTypeOK /\ ServerIsGated /\ RequestsAddUp

(* A document fails, or waits for the model, only after every configured   *)
(* provider failed on it, and waits at no cost of an attempt only when a   *)
(* provider could not be reached; when the local endpoint is all there is, *)
(* it always waits for that.                                               *)
EveryProviderHadItsTurn ==
  \A r \in Readers :
     LET c == call[r]
     IN /\ c.verdict \in {"outage", "slow", "failed"} =>
             \A k \in DOMAIN Chain : Chain[k] \in c.failed
        /\ c.verdict = "outage" => c.cuts # {}
        /\ Chain = <<"local">> /\ Gated(r) /\ c.verdict \in {"slow", "failed"} => c.cuts = {}

(* No slot is lost: every document queued is read or fails.                *)
EveryReadEnds == \A r \in Readers : call[r].at = "queued" ~> call[r].at = "over"
=============================================================================
