----------------------------- MODULE BrowserTabs -----------------------------
(***************************************************************************)
(* One user's browser and the server that keeps it signed in: the tabs of  *)
(* web/src/lib/auth-client.ts, each with its session in memory, the copy   *)
(* and the refresh lock in localStorage, the BroadcastChannel between the  *)
(* tabs, and the rotation of refresh tokens in server/local_auth.py.       *)
(*                                                                         *)
(* A request handler of the server has no await, so in the one process the *)
(* server is run as, a request is one step: only a failure may stop it     *)
(* between its database transactions.                                      *)
(***************************************************************************)
EXTENDS RefreshTokens, Integers, Sequences

CONSTANTS Tabs,
          MaxMints,    \* bound: access tokens minted
          MaxLost,     \* bound: answers and requests that fail on the way
          MaxInbox     \* bound: messages a tab has not handled yet

ASSUME BoundsAssumption ==
  MaxMints \in Nat \ {0} /\ MaxLost \in Nat /\ MaxInbox \in Nat \ {0}

VARIABLES
  row,      \* auth.refresh_tokens
  session,  \* currentSession of each tab
  stored,   \* the session in localStorage
  lock,     \* who the refresh lock names
  inbox,    \* what the channel has not delivered to a tab yet
  call,     \* coordinatedRefresh of each tab, and the request it sent
  mints,    \* sessions minted so far: their order is that of expires_at
  hour,     \* sessions minted before the last hour: those are due
  lost,     \* history: failures so far
  calm      \* history: nobody refreshed early and nothing took a minute

vars == <<row, session, stored, lock, inbox, call, mints, hour, lost, calm>>

-----------------------------------------------------------------------------
NoSession == [tok |-> None, exp |-> 0]
Sessions == [tok : Tokens \cup {None}, exp : 0..MaxMints]
SignedIn(x) == session[x] # NoSession

(* What a request came to: a session, a 401, or nothing usable.            *)
Hard == [kind |-> "hard", s |-> NoSession]
Soft == [kind |-> "soft", s |-> NoSession]
Answer(t) == [kind |-> "session", s |-> [tok |-> t, exp |-> mints + 1]]

Idle == [at |-> "idle", tok |-> None, lead |-> FALSE, ans |-> Soft]

Spend(x) == lost < MaxLost /\ lost' = lost + 1

(* enterRateLimitBackoff; tok is the tab's token if it was rotated by then.*)
Failed(x) ==
  LET t == session[x].tok
  IN [Idle EXCEPT !.at = "backoff",
                  !.tok = IF t # None /\ row[t].spent = "grace" THEN t ELSE None]

(* A tab that finds itself without a session has no token to send.         *)
Post(c, x, lead) ==
  IF SignedIn(x)
  THEN [c EXCEPT ![x] = [Idle EXCEPT !.at = "sent", !.tok = session[x].tok, !.lead = lead]]
  ELSE [c EXCEPT ![x] = [Idle EXCEPT !.at = "answered", !.lead = lead]]

Due(x) == session[x].exp <= hour

TypeOK ==
  /\ row \in [Tokens -> Rows]
  /\ session \in [Tabs -> Sessions] /\ stored \in Sessions
  /\ lock \in Tabs \cup {None}
  /\ \A x \in Tabs : Len(inbox[x]) <= MaxInbox
  /\ \A x \in Tabs : /\ call[x].at \in {"idle", "free", "following", "sent",
                                         "answered", "backoff"}
                     /\ call[x].tok \in Tokens \cup {None}
  /\ mints \in 0..MaxMints /\ hour \in 0..mints
  /\ calm \in BOOLEAN /\ lost \in 0..MaxLost

(* One tab has just signed in, the others were opened from its storage.    *)
Init ==
  /\ \E t \in Tokens : /\ row = Insert([u \in Tokens |-> NoRow], t, t)
                       /\ stored = [tok |-> t, exp |-> 1]
  /\ session = [x \in Tabs |-> stored]
  /\ lock = None /\ inbox = [x \in Tabs |-> <<>>]
  /\ call = [x \in Tabs |-> Idle]
  /\ mints = 1 /\ hour = 0
  /\ lost = 0 /\ calm = TRUE

-----------------------------------------------------------------------------
(* refreshSession, coordinatedRefresh: the lock is read, then written, and  *)
(* another tab may have read it meanwhile. Whoever finds it taken follows. *)
(* The tab itself does nothing else between the two: no await parts them.  *)
Yields(x) == call[x].at # "free"

ReadLock(x) ==
  /\ call[x].at = "idle" /\ SignedIn(x)
  /\ call' = [call EXCEPT ![x].at = IF lock \in {None, x} THEN "free" ELSE "following"]
  /\ calm' = (calm /\ Due(x))
  /\ UNCHANGED <<row, session, stored, lock, inbox, mints, hour, lost>>

Lead(x) ==
  /\ call[x].at = "free"
  /\ lock' = x /\ call' = Post(call, x, TRUE)
  /\ UNCHANGED <<row, session, stored, inbox, mints, hour, lost, calm>>

(* REFRESH_LOCK_TTL_MS: a claim of ten seconds ago no longer counts.       *)
LockExpires ==
  /\ lock # None /\ lock' = None
  /\ UNCHANGED <<row, session, stored, inbox, call, mints, hour, lost, calm>>

(* PEER_RESULT_TIMEOUT_MS: nobody answered, so this tab asks for itself.   *)
PeerTimeout(x) ==
  /\ call[x].at = "following"
  /\ call' = Post(call, x, FALSE)
  /\ UNCHANGED <<row, session, stored, lock, inbox, mints, hour, lost, calm>>

(* mutant: a signed-out tab adopts                                         *)
AdoptsSignedOut(x, m) == m.kind = "session" /\ m.s.exp >= session[x].exp

(* handlePeerMessage *)
Adopts(x, m) == m.kind = "session" /\ SignedIn(x) /\ m.s.exp >= session[x].exp

Hears(x, m) ==
  LET adopted == Adopts(x, m)
      now == IF adopted THEN m.s ELSE IF m.kind = "hard" THEN NoSession ELSE session[x]
  IN /\ session' = [session EXCEPT ![x] = now]
     /\ stored' = IF adopted \/ m.kind = "hard" THEN now ELSE stored
     /\ call' = IF call[x].at # "following" THEN call
                ELSE IF m.kind = "hard" THEN [call EXCEPT ![x] = Failed(x)]
                ELSE IF m.kind = "session" /\ SignedIn(x) THEN [call EXCEPT ![x] = Idle]
                ELSE Post(call, x, FALSE)

HearPeer(x) ==
  /\ Yields(x) /\ inbox[x] # <<>>
  /\ Hears(x, Head(inbox[x]))
  /\ inbox' = [inbox EXCEPT ![x] = Tail(@)]
  /\ UNCHANGED <<row, lock, mints, hour, lost, calm>>

(* performRefresh once the answer is in, and what the leader tells others. *)
Receive(x) ==
  LET a == IF SignedIn(x) THEN call[x].ans ELSE Soft
      now == CASE a.kind = "session" -> a.s
               [] a.kind = "hard" -> NoSession
               [] a.kind = "soft" -> session[x]
  IN /\ call[x].at = "answered"
     /\ session' = [session EXCEPT ![x] = now]
     /\ stored' = IF a.kind = "soft" THEN stored ELSE now
     /\ call' = [call EXCEPT ![x] = IF a.kind = "session" THEN Idle ELSE Failed(x)]
     /\ IF call[x].lead
        THEN /\ \A y \in Tabs \ {x} : Len(inbox[y]) < MaxInbox
             /\ inbox' = [y \in Tabs |-> IF y = x THEN inbox[y] ELSE Append(inbox[y], a)]
             /\ lock' = IF lock = x THEN None ELSE lock
        ELSE UNCHANGED <<inbox, lock>>
     /\ UNCHANGED <<row, mints, hour, lost, calm>>

(* RATE_LIMIT_COOLDOWN_MS: a minute, so what was rotated before the tab saw *)
(* the failure is past its grace when it asks again.                       *)
BackoffEnds(x) ==
  /\ call[x].at = "backoff"
  /\ call[x].tok # None => row[call[x].tok].spent # "grace"
  /\ call' = [call EXCEPT ![x] = Idle]
  /\ UNCHANGED <<row, session, stored, lock, inbox, mints, hour, lost, calm>>

(* The page is loaded again: memory is what localStorage has.              *)
Reload(x) ==
  /\ call[x].at \in {"idle", "backoff"}
  /\ session' = [session EXCEPT ![x] = stored]
  /\ inbox' = [inbox EXCEPT ![x] = <<>>]
  /\ call' = [call EXCEPT ![x] = Idle]
  /\ UNCHANGED <<row, stored, lock, mints, hour, lost, calm>>

-----------------------------------------------------------------------------
(* The server *)
Answered(x, a) == [call EXCEPT ![x].at = "answered", ![x].ans = a]

Refuse(x) ==
  /\ call[x].at = "sent"
  /\ Refused(row, call[x].tok) \/ DeadAlready(row, call[x].tok)
  /\ call' = Answered(x, Hard)
  /\ UNCHANGED <<row, session, stored, lock, inbox, mints, hour, lost, calm>>

Reuse(x) ==
  /\ call[x].at = "sent"
  /\ Theft(row, call[x].tok)
  /\ row' = RevokeFamily(row, call[x].tok)
  /\ call' = Answered(x, Hard)
  /\ UNCHANGED <<session, stored, lock, inbox, mints, hour, lost, calm>>

Replay(x) ==
  /\ call[x].at = "sent" /\ mints < MaxMints
  /\ Replays(row, call[x].tok)
  /\ call' = Answered(x, Answer(row[call[x].tok].next))
  /\ mints' = mints + 1
  /\ UNCHANGED <<row, session, stored, lock, inbox, hour, lost, calm>>

Known == {session[x].tok : x \in Tabs} \cup {stored.tok}
         \cup {call[x].tok : x \in Tabs} \cup {call[x].ans.s.tok : x \in Tabs}
         \cup UNION {{inbox[x][i].s.tok : i \in DOMAIN inbox[x]} : x \in Tabs}

Fresh == Tokens \ (Issued(row) \cup Known)

(* The successor is inserted before the presented token points at it.      *)
Rotate(x) ==
  LET t == call[x].tok
  IN /\ call[x].at = "sent" /\ mints < MaxMints
     /\ Rotates(row, t)
     /\ \E s \in Fresh :
          /\ row' = MarkRotated(Insert(row, s, row[t].family), t, s)
          /\ call' = Answered(x, Answer(s))
     /\ mints' = mints + 1
     /\ UNCHANGED <<session, stored, lock, inbox, hour, lost, calm>>

(* mark_rotated raises: the successor is there and nobody was given it.    *)
RotateHalf(x) ==
  /\ call[x].at = "sent" /\ Spend(x)
  /\ Rotates(row, call[x].tok)
  /\ \E s \in Fresh : row' = Insert(row, s, row[call[x].tok].family)
  /\ call' = Answered(x, Soft)
  /\ UNCHANGED <<session, stored, lock, inbox, mints, hour, calm>>

(* The connection drops, a database call raises, or the process restarts:  *)
(* the tab sees a network error or a 5xx, and the server may have rotated. *)
CallFails(x) ==
  /\ \/ call[x].at = "sent"
     \/ call[x].at = "answered" /\ call[x].ans # Soft
  /\ Spend(x)
  /\ call' = Answered(x, Soft)
  /\ UNCHANGED <<row, session, stored, lock, inbox, mints, hour, calm>>

(* Sign-in starts a family; whichever way, build_session issues the tokens.*)
SignIn(x) ==
  /\ ~SignedIn(x) /\ mints < MaxMints
  /\ \E t \in Fresh :
       /\ row' = Insert(row, t, t)
       /\ session' = [session EXCEPT ![x] = [tok |-> t, exp |-> mints + 1]]
       /\ stored' = session'[x]
  /\ mints' = mints + 1
  /\ UNCHANGED <<lock, inbox, call, hour, lost, calm>>

(* sign_out swallows what the database raises and answers success; the tab *)
(* forgets its session whatever the answer.                                *)
SignOut(x) ==
  /\ Yields(x) /\ SignedIn(x)
  /\ \/ row' = RevokeUser(row) /\ UNCHANGED lost
     \/ Spend(x) /\ UNCHANGED row
  /\ session' = [session EXCEPT ![x] = NoSession] /\ stored' = NoSession
  /\ UNCHANGED <<lock, inbox, call, mints, hour, calm>>

SetPassword ==
  /\ row' = RevokeUser(row) /\ row' # row
  /\ UNCHANGED <<session, stored, lock, inbox, call, mints, hour, lost, calm>>

-----------------------------------------------------------------------------
(* Time. A minute is long for a refresh: a tab that is in the middle of one*)
(* when it is over was slow, and one that has not asked yet was asleep. The*)
(* minute that a failure costs is neither.                                 *)
GraceEnds(t) ==
  /\ row[t].spent = "grace"
  /\ \A u \in Tokens : row[u].next = t => row[u].spent = "late"
  /\ row' = [row EXCEPT ![t].spent = "late"]
  /\ calm' = (calm /\ \A x \in Tabs : t \in {session[x].tok, call[x].tok}
                                      => call[x].at = "backoff" /\ inbox[x] = <<>>)
  /\ UNCHANGED <<session, stored, lock, inbox, call, mints, hour, lost>>

HourPasses ==
  /\ hour < mints /\ hour' = mints
  /\ \A t \in Tokens : row[t].spent # "grace"
  /\ \A x \in Tabs : call[x].at # "backoff"
  /\ calm' = (calm /\ \A x \in Tabs : call[x] = Idle /\ inbox[x] = <<>>)
  /\ UNCHANGED <<row, session, stored, lock, inbox, call, mints, lost>>

Next ==
  \/ \E x \in Tabs :
       \/ ReadLock(x) \/ Lead(x) \/ PeerTimeout(x) \/ HearPeer(x)
       \/ Receive(x) \/ BackoffEnds(x) \/ Reload(x)
       \/ Refuse(x) \/ Reuse(x) \/ Replay(x) \/ Rotate(x) \/ RotateHalf(x)
       \/ CallFails(x) \/ SignIn(x) \/ SignOut(x)
  \/ LockExpires \/ SetPassword \/ HourPasses
  \/ \E t \in Tokens : GraceEnds(t)

Spec == Init /\ [][Next]_vars

-----------------------------------------------------------------------------
(* However many tabs present one token, whatever failed on the way, at most*)
(* one token of a family that ever left the server is still unspent: the   *)
(* tabs converge on one live pair.                                         *)
OneLivePair ==
  \A t, u \in Known \ {None} :
     Live(row, t) /\ Live(row, u) /\ row[t].family = row[u].family => t = u

(* Revocation takes the family whole: after a sign-out, a new password or a *)
(* reuse no token of it works, neither an older one still in its grace nor *)
(* one that was just being minted.                                         *)
RevokedWhole ==
  \A t, u \in Issued(row) :
     row[t].family = row[u].family => (row[t].revoked = "no" <=> row[u].revoked = "no")

(* A family of tokens is one session: it has one live pair, and ends whole.*)
OneSession == TypeOK /\ OneLivePair /\ RevokedWhole

(* Tabs that follow the protocol do not sign each other out: unless a call *)
(* failed, or one was slow, or one refreshed early, no family is lost to   *)
(* the suspicion of theft.                                                 *)
HonestTabsAreSpared ==
  calm /\ lost = 0 => \A t \in Tokens : row[t].revoked # "reuse_detected"

(* No answer and no message that was under way gives a session to a tab    *)
(* that has none; and a tab goes back to an older session only by a late   *)
(* answer of its own, or by loading what storage has: no message of another*)
(* tab does that to it.                                                    *)
SessionsMoveOn ==
  [][\A x \in Tabs : SignedIn(x)' =>
       /\ ~SignedIn(x) => \/ session'[x] = stored /\ stored' = stored
                          \/ session'[x].tok \notin Issued(row)
       /\ SignedIn(x) /\ session'[x].exp < session[x].exp
            => call[x].at = "answered" \/ session'[x] = stored]_vars
=============================================================================
