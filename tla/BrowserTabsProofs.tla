-------------------------- MODULE BrowserTabsProofs --------------------------
(***************************************************************************)
(* What BrowserTabs guarantees for any number of tabs, tokens and failures.*)
(* OneLivePair is not inductive: an answer that was lost is known to no    *)
(* tab, and a replay brings it back. TabsInv therefore speaks of every     *)
(* token that is known or that a rotated one points at (Within, Sound),    *)
(* and adds that families and successors are rows. That honest tabs are    *)
(* spared rests on a second invariant, Honest, stated further below.       *)
(***************************************************************************)
EXTENDS BrowserTabs, TLAPS

Messages == [kind : {"session", "hard", "soft"}, s : Sessions]
Calls == [at : {"idle", "free", "following", "sent", "answered", "backoff"},
          tok : Tokens \cup {None}, lead : BOOLEAN, ans : Messages]

Typed ==
  /\ row \in [Tokens -> Rows]
  /\ session \in [Tabs -> Sessions] /\ stored \in Sessions
  /\ lock \in Tabs \cup {None}
  /\ inbox \in [Tabs -> Seq(Messages)] /\ \A x \in Tabs : Len(inbox[x]) <= MaxInbox
  /\ call \in [Tabs -> Calls]
  /\ mints \in 0..MaxMints /\ hour \in 0..mints
  /\ calm \in BOOLEAN /\ lost \in 0..MaxLost

-----------------------------------------------------------------------------
(* Types                                                                   *)

LEMMA ConstantsAreTyped ==
  /\ NoSession \in Sessions /\ Hard \in Messages /\ Soft \in Messages /\ Idle \in Calls
  /\ NoRow \in Rows
BY BoundsAssumption
DEF NoSession, Sessions, Hard, Soft, Messages, Idle, Calls, NoRow, Rows, Reasons

LEMMA AnswerIsTyped ==
  ASSUME Typed, NEW t \in Tokens \cup {None}, mints < MaxMints
  PROVE  Answer(t) \in Messages /\ Answer(t).s.tok = t /\ mints + 1 \in 0..MaxMints
         /\ [tok |-> t, exp |-> mints + 1] \in Sessions
<1>1. mints + 1 \in 0..MaxMints
  BY BoundsAssumption DEF Typed
<1>2. QED
  BY <1>1 DEF Answer, Messages, Sessions

(* Whatever the statements of RefreshTokens write is rows.                 *)
LEMMA RowsAreTyped ==
  ASSUME NEW r \in [Tokens -> Rows], NEW t \in Tokens, NEW f \in Tokens \cup {None}, NEW s \in Tokens
  PROVE  /\ Insert(r, t, f) \in [Tokens -> Rows]
         /\ RevokeUser(r) \in [Tokens -> Rows] /\ RevokeFamily(r, t) \in [Tokens -> Rows]
         /\ MarkRotated(r, t, s) \in [Tokens -> Rows]
<1>1. Insert(r, t, f) \in [Tokens -> Rows]
  <2>1. [NoRow EXCEPT !.family = f] \in Rows
    BY ConstantsAreTyped DEF Rows
  <2>2. QED
    BY <2>1 DEF Insert
<1>2. ASSUME NEW S, NEW why \in Reasons PROVE Revoke(r, S, why) \in [Tokens -> Rows]
  BY <1>2 DEF Revoke, Rows
<1>3. MarkRotated(r, t, s) \in [Tokens -> Rows]
  <2>1. [r[t] EXCEPT !.spent = "grace", !.next = s] \in Rows
    BY DEF Rows
  <2>2. MarkRotated(r, t, s) = [r EXCEPT ![t] = [r[t] EXCEPT !.spent = "grace", !.next = s]]
        \/ MarkRotated(r, t, s) = r
    BY DEF MarkRotated
  <2>3. QED
    BY <2>1, <2>2
<1>4. "by_user" \in Reasons /\ "reuse_detected" \in Reasons
  BY DEF Reasons
<1>5. QED
  BY <1>1, <1>2, <1>3, <1>4 DEF RevokeUser, RevokeFamily

LEMMA CallsAreTyped ==
  ASSUME Typed, NEW x \in Tabs
  PROVE  /\ Failed(x) \in Calls
         /\ \A lead \in BOOLEAN : Post(call, x, lead) \in [Tabs -> Calls]
         /\ \A a \in Messages : Answered(x, a) \in [Tabs -> Calls]
<1>1. Failed(x) \in Calls
  BY ConstantsAreTyped DEF Failed, Calls, Typed, Sessions
<1>2. ASSUME NEW lead \in BOOLEAN PROVE Post(call, x, lead) \in [Tabs -> Calls]
  <2>1. /\ [Idle EXCEPT !.at = "sent", !.tok = session[x].tok, !.lead = lead] \in Calls
        /\ [Idle EXCEPT !.at = "answered", !.lead = lead] \in Calls
    BY ConstantsAreTyped DEF Calls, Typed, Sessions
  <2>2. QED
    BY <2>1 DEF Post, Typed
<1>3. ASSUME NEW a \in Messages PROVE Answered(x, a) \in [Tabs -> Calls]
  <2>1. [[call[x] EXCEPT !.at = "answered"] EXCEPT !.ans = a] \in Calls
    BY DEF Calls, Typed
  <2>2. Answered(x, a) = [call EXCEPT ![x] = [[call[x] EXCEPT !.at = "answered"] EXCEPT !.ans = a]]
    BY DEF Answered, Typed
  <2>3. QED
    BY <2>1, <2>2 DEF Typed
<1>4. QED
  BY <1>1, <1>2, <1>3

LEMMA InitTyped == Init => Typed
<1> SUFFICES ASSUME Init PROVE Typed
  OBVIOUS
<1>1. PICK t \in Tokens : row = Insert([u \in Tokens |-> NoRow], t, t) /\ stored = [tok |-> t, exp |-> 1]
  BY DEF Init
<1>2. row \in [Tokens -> Rows]
  <2>1. [u \in Tokens |-> NoRow] \in [Tokens -> Rows]
    BY ConstantsAreTyped
  <2>2. QED
    BY <1>1, <2>1, RowsAreTyped
<1>3. stored \in Sessions /\ mints \in 0..MaxMints /\ hour \in 0..mints
  BY <1>1, BoundsAssumption DEF Init, Sessions
<1>4. inbox \in [Tabs -> Seq(Messages)] /\ \A x \in Tabs : Len(inbox[x]) <= MaxInbox
  BY BoundsAssumption DEF Init
<1>5. session \in [Tabs -> Sessions] /\ call \in [Tabs -> Calls]
  BY <1>3, ConstantsAreTyped DEF Init
<1>6. lock \in Tabs \cup {None} /\ calm \in BOOLEAN /\ lost \in 0..MaxLost
  BY BoundsAssumption DEF Init
<1>7. QED
  BY <1>2, <1>3, <1>4, <1>5, <1>6 DEF Typed

(* What the tabs do with each other                                        *)
LEMMA TabsTyped ==
  ASSUME Typed, NEW x \in Tabs,
         ReadLock(x) \/ Lead(x) \/ PeerTimeout(x) \/ BackoffEnds(x) \/ Reload(x)
  PROVE  Typed'
<1>1. CASE ReadLock(x)
  <2>1. call' \in [Tabs -> Calls] /\ calm' \in BOOLEAN
    BY <1>1 DEF ReadLock, Typed, Calls
  <2>2. QED
    BY <1>1, <2>1 DEF ReadLock, Typed
<1>2. CASE Lead(x)
  BY <1>2, CallsAreTyped DEF Lead, Typed
<1>3. CASE PeerTimeout(x)
  BY <1>3, CallsAreTyped DEF PeerTimeout, Typed
<1>4. CASE BackoffEnds(x)
  BY <1>4, ConstantsAreTyped DEF BackoffEnds, Typed
<1>5. CASE Reload(x)
  <2>1. /\ inbox' \in [Tabs -> Seq(Messages)] /\ \A y \in Tabs : Len(inbox'[y]) <= MaxInbox
        /\ session' \in [Tabs -> Sessions] /\ call' \in [Tabs -> Calls]
    BY <1>5, ConstantsAreTyped, BoundsAssumption DEF Reload, Typed
  <2>2. QED
    BY <1>5, <2>1 DEF Reload, Typed
<1>6. QED
  BY <1>1, <1>2, <1>3, <1>4, <1>5

LEMMA HearTyped ==
  ASSUME Typed, NEW x \in Tabs, HearPeer(x)
  PROVE  Typed'
<1> DEFINE m == Head(inbox[x])
<1>1. inbox[x] \in Seq(Messages) /\ inbox[x] # <<>> /\ m \in Messages /\ Tail(inbox[x]) \in Seq(Messages)
      /\ Len(Tail(inbox[x])) <= MaxInbox
  BY BoundsAssumption DEF HearPeer, Typed
<1>2. m.s \in Sessions
  BY <1>1 DEF Messages
<1>3. Hears(x, m) /\ UNCHANGED <<row, lock, mints, hour, lost, calm>>
  BY DEF HearPeer
<1>4. inbox' \in [Tabs -> Seq(Messages)] /\ \A y \in Tabs : Len(inbox'[y]) <= MaxInbox
  BY <1>1 DEF HearPeer, Typed
<1> HIDE DEF m
<1>5. session' \in [Tabs -> Sessions] /\ stored' \in Sessions
  BY <1>2, <1>3, ConstantsAreTyped DEF Hears, Typed
<1>6. call' \in [Tabs -> Calls]
  <2>1. \/ call' = call
        \/ call' = [call EXCEPT ![x] = Failed(x)]
        \/ call' = [call EXCEPT ![x] = Idle]
        \/ call' = Post(call, x, FALSE)
    BY <1>3 DEF Hears
  <2>2. QED
    BY <2>1, CallsAreTyped, ConstantsAreTyped DEF Typed
<1>7. QED
  BY <1>3, <1>4, <1>5, <1>6 DEF Typed

LEMMA ReceiveTyped ==
  ASSUME Typed, NEW x \in Tabs, Receive(x)
  PROVE  Typed'
<1> DEFINE a == IF SignedIn(x) THEN call[x].ans ELSE Soft
           now == CASE a.kind = "session" -> a.s
                    [] a.kind = "hard" -> NoSession
                    [] a.kind = "soft" -> session[x]
<1>1. a \in Messages /\ a.kind \in {"session", "hard", "soft"} /\ a.s \in Sessions
  BY ConstantsAreTyped DEF Typed, Calls, Messages
<1> HIDE DEF a
<1>2. now \in Sessions
  BY <1>1, ConstantsAreTyped DEF Typed
<1> HIDE DEF now
<1>3. /\ session' = [session EXCEPT ![x] = now]
      /\ stored' = IF a.kind = "soft" THEN stored ELSE now
      /\ call' = [call EXCEPT ![x] = IF a.kind = "session" THEN Idle ELSE Failed(x)]
      /\ IF call[x].lead
         THEN /\ \A y \in Tabs \ {x} : Len(inbox[y]) < MaxInbox
              /\ inbox' = [y \in Tabs |-> IF y = x THEN inbox[y] ELSE Append(inbox[y], a)]
              /\ lock' = IF lock = x THEN None ELSE lock
         ELSE UNCHANGED <<inbox, lock>>
      /\ UNCHANGED <<row, mints, hour, lost, calm>>
  BY DEF Receive, a, now
<1>4. session' \in [Tabs -> Sessions] /\ stored' \in Sessions /\ call' \in [Tabs -> Calls]
  BY <1>2, <1>3, CallsAreTyped, ConstantsAreTyped DEF Typed
<1>5. inbox' \in [Tabs -> Seq(Messages)] /\ \A y \in Tabs : Len(inbox'[y]) <= MaxInbox
  <2>1. CASE call[x].lead
    <3>1. ASSUME NEW y \in Tabs, y # x
          PROVE  Append(inbox[y], a) \in Seq(Messages) /\ Len(Append(inbox[y], a)) <= MaxInbox
      <4>1. inbox[y] \in Seq(Messages) /\ Len(inbox[y]) < MaxInbox
        BY <1>3, <2>1, <3>1 DEF Typed
      <4>2. QED
        BY <4>1, <1>1, BoundsAssumption
    <3>2. QED
      BY <3>1, <2>1, <1>3 DEF Typed
  <2>2. CASE ~call[x].lead
    BY <2>2, <1>3 DEF Typed
  <2>3. QED
    BY <2>1, <2>2
<1>6. lock' \in Tabs \cup {None}
  BY <1>3 DEF Typed
<1>7. QED
  BY <1>3, <1>4, <1>5, <1>6 DEF Typed

(* What the server does                                                    *)
LEMMA ServerTyped ==
  ASSUME Typed, NEW x \in Tabs,
         \/ Refuse(x) \/ Reuse(x) \/ Replay(x) \/ Rotate(x) \/ RotateHalf(x)
         \/ CallFails(x) \/ SignIn(x) \/ SignOut(x)
  PROVE  Typed'
<1> DEFINE t == call[x].tok
<1>0. Hard \in Messages /\ Soft \in Messages /\ NoSession \in Sessions
  BY ConstantsAreTyped
<1>a. \A a \in Messages : Answered(x, a) \in [Tabs -> Calls]
  BY CallsAreTyped
<1>b. /\ RevokeUser(row) \in [Tokens -> Rows]
      /\ \A u \in Tokens : RevokeFamily(row, u) \in [Tokens -> Rows]
      /\ \A u \in Tokens, f \in Tokens \cup {None} : Insert(row, u, f) \in [Tokens -> Rows]
  <2>1. Tokens = {} => RevokeUser(row) \in [Tokens -> Rows]
    BY DEF RevokeUser, Revoke
  <2>2. QED
    BY <2>1, RowsAreTyped DEF Typed
<1>c. Spend(x) => lost' \in 0..MaxLost
  BY BoundsAssumption DEF Spend, Typed
<1>d. \A u \in Tokens : row[u] \in Rows /\ row[u].family \in Tokens \cup {None}
                        /\ row[u].next \in Tokens \cup {None}
  BY DEF Typed, Rows
<1>e. hour \in 0..(mints + 1)
  BY BoundsAssumption DEF Typed
<1>1. CASE Refuse(x)
  BY <1>0, <1>a, <1>1 DEF Refuse, Typed
<1>2. CASE Reuse(x)
  <2>1. t \in Tokens
    BY <1>2 DEF Reuse, Theft, Usable, Issued
  <2>2. QED
    BY <1>0, <1>a, <1>b, <1>2, <2>1 DEF Reuse, Typed
<1>3. CASE Replay(x)
  <2>1. t \in Tokens /\ row[t].next \in Tokens \cup {None} /\ mints < MaxMints
    BY <1>3, <1>d DEF Replay, Replays, Usable, Issued
  <2>2. /\ Answer(row[t].next) \in Messages /\ mints + 1 \in 0..MaxMints
    BY <2>1, AnswerIsTyped
  <2>3. QED
    BY <1>a, <1>e, <1>3, <2>2 DEF Replay, Typed
<1>4. CASE Rotate(x)
  <2>1. t \in Tokens /\ mints < MaxMints
    BY <1>4 DEF Rotate, Rotates, Usable, Issued
  <2>2. PICK s \in Fresh : row' = MarkRotated(Insert(row, s, row[t].family), t, s)
                           /\ call' = Answered(x, Answer(s))
    BY <1>4 DEF Rotate
  <2>3. s \in Tokens
    BY DEF Fresh
  <2>4. Answer(s) \in Messages /\ mints + 1 \in 0..MaxMints
    BY <2>1, <2>3, AnswerIsTyped
  <2>5. row' \in [Tokens -> Rows]
    BY <1>b, <1>d, <2>1, <2>2, <2>3, RowsAreTyped
  <2>6. QED
    BY <1>a, <1>e, <1>4, <2>2, <2>4, <2>5 DEF Rotate, Typed
<1>5. CASE RotateHalf(x)
  <2>1. t \in Tokens
    BY <1>5 DEF RotateHalf, Rotates, Usable, Issued
  <2>2. PICK s \in Fresh : row' = Insert(row, s, row[t].family)
    BY <1>5 DEF RotateHalf
  <2>3. s \in Tokens /\ row' \in [Tokens -> Rows]
    BY <1>b, <1>d, <2>1, <2>2 DEF Fresh
  <2>4. QED
    BY <1>0, <1>a, <1>c, <1>5, <2>3 DEF RotateHalf, Typed
<1>6. CASE CallFails(x)
  BY <1>0, <1>a, <1>c, <1>6 DEF CallFails, Typed
<1>7. CASE SignIn(x)
  <2>1. mints < MaxMints
    BY <1>7 DEF SignIn
  <2>2. PICK u \in Fresh : /\ row' = Insert(row, u, u)
                           /\ session' = [session EXCEPT ![x] = [tok |-> u, exp |-> mints + 1]]
                           /\ stored' = session'[x]
    BY <1>7 DEF SignIn
  <2>3. u \in Tokens
    BY DEF Fresh
  <2>4. [tok |-> u, exp |-> mints + 1] \in Sessions /\ mints + 1 \in 0..MaxMints
    BY <2>1, <2>3, AnswerIsTyped
  <2>5. session' \in [Tabs -> Sessions] /\ stored' \in Sessions
    BY <2>2, <2>4 DEF Typed
  <2>6. QED
    BY <1>b, <1>e, <1>7, <2>2, <2>3, <2>4, <2>5 DEF SignIn, Typed
<1>8. CASE SignOut(x)
  <2>1. row' \in [Tokens -> Rows] /\ lost' \in 0..MaxLost
    BY <1>b, <1>c, <1>8 DEF SignOut, Typed
  <2>2. QED
    BY <1>0, <1>8, <2>1 DEF SignOut, Typed
<1>9. QED
  BY <1>1, <1>2, <1>3, <1>4, <1>5, <1>6, <1>7, <1>8

LEMMA TimeTyped ==
  ASSUME Typed, HourPasses \/ \E t \in Tokens : GraceEnds(t)
  PROVE  Typed'
<1>1. CASE HourPasses
  <2>1. hour' \in 0..mints /\ calm' \in BOOLEAN
    BY <1>1, BoundsAssumption DEF HourPasses, Typed
  <2>2. QED
    BY <1>1, <2>1 DEF HourPasses, Typed
<1>2. ASSUME NEW t \in Tokens, GraceEnds(t) PROVE Typed'
  <2>1. [row[t] EXCEPT !.spent = "late"] \in Rows
    BY DEF Typed, Rows
  <2>2. row' = [row EXCEPT ![t] = [row[t] EXCEPT !.spent = "late"]]
    BY <1>2 DEF GraceEnds
  <2>3. row' \in [Tokens -> Rows] /\ calm' \in BOOLEAN
    BY <1>2, <2>1, <2>2 DEF GraceEnds, Typed
  <2>4. QED
    BY <1>2, <2>3 DEF GraceEnds, Typed
<1>3. QED
  BY <1>1, <1>2

LEMMA NextTyped ==
  ASSUME Typed, [Next]_vars
  PROVE  Typed'
<1>1. CASE UNCHANGED vars
  BY <1>1 DEF vars, Typed
<1>2. ASSUME NEW x \in Tabs,
             \/ ReadLock(x) \/ Lead(x) \/ PeerTimeout(x) \/ HearPeer(x)
             \/ Receive(x) \/ BackoffEnds(x) \/ Reload(x)
             \/ Refuse(x) \/ Reuse(x) \/ Replay(x) \/ Rotate(x) \/ RotateHalf(x)
             \/ CallFails(x) \/ SignIn(x) \/ SignOut(x)
      PROVE  Typed'
  BY <1>2, TabsTyped, HearTyped, ReceiveTyped, ServerTyped
<1>3. CASE LockExpires
  BY <1>3 DEF LockExpires, Typed
<1>4. CASE SetPassword
  <2>1. row' \in [Tokens -> Rows]
    BY <1>4 DEF SetPassword, RevokeUser, Revoke, Typed, Rows, Reasons
  <2>2. QED
    BY <1>4, <2>1 DEF SetPassword, Typed
<1>5. CASE HourPasses \/ \E t \in Tokens : GraceEnds(t)
  BY <1>5, TimeTyped
<1>6. QED
  BY <1>1, <1>2, <1>3, <1>4, <1>5 DEF Next

-----------------------------------------------------------------------------
(* Where tokens are known                                                  *)

Within(K) ==
  /\ stored.tok \in K \cup {None}
  /\ \A y \in Tabs : /\ session[y].tok \in K \cup {None} /\ call[y].tok \in K \cup {None}
                     /\ call[y].ans.s.tok \in K \cup {None}
                     /\ \A i \in DOMAIN inbox[y] : inbox[y][i].s.tok \in K \cup {None}

LEMMA KnownWithin == \A K : Known \subseteq K => Within(K)
BY DEF Known, Within

LEMMA WithinKnown == \A K : Within(K) => Known \subseteq K \cup {None}
BY DEF Known, Within

LEMMA AnsweredWithin ==
  ASSUME Typed, NEW K, Within(K), NEW x \in Tabs, NEW a \in Messages, a.s.tok \in K \cup {None},
         call' = Answered(x, a), UNCHANGED <<session, stored, inbox>>
  PROVE  Within(K)'
<1>1. ASSUME NEW y \in Tabs
      PROVE  call'[y].tok \in K \cup {None} /\ call'[y].ans.s.tok \in K \cup {None}
  <2>1. call[y] \in Calls /\ call[y].tok \in K \cup {None} /\ call[y].ans.s.tok \in K \cup {None}
    BY DEF Typed, Within
  <2>2. call'[y] = IF y = x THEN [[call[y] EXCEPT !.at = "answered"] EXCEPT !.ans = a] ELSE call[y]
    BY DEF Answered, Typed
  <2>3. QED
    BY <2>1, <2>2 DEF Calls
<1>2. QED
  BY <1>1 DEF Within

LEMMA PostWithin ==
  ASSUME Typed, NEW K, Within(K), NEW x \in Tabs
  PROVE  /\ \A lead \in BOOLEAN, y \in Tabs :
               /\ Post(call, x, lead)[y].tok \in K \cup {None}
               /\ Post(call, x, lead)[y].ans.s.tok \in K \cup {None}
         /\ Failed(x).tok \in K \cup {None} /\ Failed(x).ans.s.tok = None
         /\ Idle.tok = None /\ Idle.ans.s.tok = None /\ Soft.s.tok = None /\ Hard.s.tok = None
         /\ NoSession.tok = None
<1>1. /\ Idle.tok = None /\ Idle.ans.s.tok = None /\ Soft.s.tok = None /\ Hard.s.tok = None
      /\ NoSession.tok = None
  BY DEF Idle, Soft, Hard, NoSession
<1>2. Failed(x).tok \in K \cup {None} /\ Failed(x).ans.s.tok = None
  BY DEF Failed, Idle, Soft, NoSession, Within
<1>3. ASSUME NEW lead \in BOOLEAN, NEW y \in Tabs
      PROVE  /\ Post(call, x, lead)[y].tok \in K \cup {None}
             /\ Post(call, x, lead)[y].ans.s.tok \in K \cup {None}
  <2>1. \/ Post(call, x, lead)[y] = [at |-> "sent", tok |-> session[x].tok, lead |-> lead, ans |-> Soft]
        \/ Post(call, x, lead)[y] = [at |-> "answered", tok |-> None, lead |-> lead, ans |-> Soft]
        \/ Post(call, x, lead)[y] = call[y]
    BY DEF Post, Typed, Idle
  <2>2. /\ session[x].tok \in K \cup {None} /\ call[y].tok \in K \cup {None}
        /\ call[y].ans.s.tok \in K \cup {None}
    BY DEF Within
  <2>3. QED
    BY <1>1, <2>1, <2>2
<1>4. QED
  BY <1>1, <1>2, <1>3

LEMMA TabsWithin ==
  ASSUME Typed, NEW K, Within(K), NEW x \in Tabs,
         \/ ReadLock(x) \/ Lead(x) \/ PeerTimeout(x) \/ BackoffEnds(x) \/ Reload(x) \/ SignOut(x)
         \/ LockExpires \/ SetPassword \/ HourPasses \/ \E t \in Tokens : GraceEnds(t)
  PROVE  Within(K)'
<1>1. CASE ReadLock(x)
  <2>1. \A y \in Tabs : call'[y].tok = call[y].tok /\ call'[y].ans = call[y].ans
    BY <1>1 DEF ReadLock, Typed, Calls
  <2>2. QED
    BY <1>1, <2>1 DEF ReadLock, Within
<1>2. CASE Lead(x) \/ PeerTimeout(x)
  <2>1. PICK lead \in BOOLEAN : call' = Post(call, x, lead)
    BY <1>2 DEF Lead, PeerTimeout
  <2>2. \A y \in Tabs : call'[y].tok \in K \cup {None} /\ call'[y].ans.s.tok \in K \cup {None}
    BY <2>1, PostWithin
  <2>3. QED
    BY <1>2, <2>2 DEF Lead, PeerTimeout, Within
<1>3. CASE BackoffEnds(x) \/ Reload(x)
  <2>1. \A y \in Tabs : call'[y].tok \in K \cup {None} /\ call'[y].ans.s.tok \in K \cup {None}
    BY <1>3, PostWithin DEF BackoffEnds, Reload, Within, Typed
  <2>2. \A y \in Tabs : /\ session'[y].tok \in K \cup {None}
                        /\ \A i \in DOMAIN inbox'[y] : inbox'[y][i].s.tok \in K \cup {None}
    BY <1>3 DEF BackoffEnds, Reload, Within, Typed
  <2>3. QED
    BY <1>3, <2>1, <2>2 DEF BackoffEnds, Reload, Within
<1>4. CASE SignOut(x)
  <2>1. \A y \in Tabs : session'[y].tok \in K \cup {None}
    BY <1>4, PostWithin DEF SignOut, Within, Typed
  <2>2. QED
    BY <1>4, <2>1, PostWithin DEF SignOut, Within
<1>5. CASE LockExpires \/ SetPassword \/ HourPasses \/ \E t \in Tokens : GraceEnds(t)
  BY <1>5 DEF LockExpires, SetPassword, HourPasses, GraceEnds, Within
<1>6. QED
  BY <1>1, <1>2, <1>3, <1>4, <1>5

LEMMA HearWithin ==
  ASSUME Typed, NEW K, Within(K), NEW x \in Tabs, HearPeer(x)
  PROVE  Within(K)'
<1> DEFINE m == Head(inbox[x])
<1>1. inbox[x] \in Seq(Messages) /\ inbox[x] # <<>>
  BY DEF HearPeer, Typed
<1>2. m = inbox[x][1] /\ 1 \in DOMAIN inbox[x] /\ m.s.tok \in K \cup {None}
  BY <1>1 DEF Within
<1>3. Hears(x, m) /\ inbox' = [inbox EXCEPT ![x] = Tail(@)]
  BY DEF HearPeer
<1>4. \A y \in Tabs : \A i \in DOMAIN inbox'[y] : inbox'[y][i].s.tok \in K \cup {None}
  <2>1. \A i \in DOMAIN Tail(inbox[x]) : i + 1 \in DOMAIN inbox[x] /\ Tail(inbox[x])[i] = inbox[x][i + 1]
    BY <1>1
  <2>2. QED
    BY <1>3, <2>1 DEF Within, Typed
<1> HIDE DEF m
<1>5. stored'.tok \in K \cup {None} /\ \A y \in Tabs : session'[y].tok \in K \cup {None}
  BY <1>2, <1>3, PostWithin DEF Hears, Within, Typed
<1>6. \A y \in Tabs : call'[y].tok \in K \cup {None} /\ call'[y].ans.s.tok \in K \cup {None}
  <2>1. \/ call' = call
        \/ call' = [call EXCEPT ![x] = Failed(x)]
        \/ call' = [call EXCEPT ![x] = Idle]
        \/ call' = Post(call, x, FALSE)
    BY <1>3 DEF Hears
  <2>2. ASSUME NEW y \in Tabs, NEW c, c.tok \in K \cup {None}, c.ans.s.tok \in K \cup {None},
               call' = [call EXCEPT ![x] = c]
        PROVE  call'[y].tok \in K \cup {None} /\ call'[y].ans.s.tok \in K \cup {None}
    BY <2>2 DEF Within, Typed
  <2>3. /\ Failed(x).tok \in K \cup {None} /\ Failed(x).ans.s.tok \in K \cup {None}
        /\ Idle.tok \in K \cup {None} /\ Idle.ans.s.tok \in K \cup {None}
    BY PostWithin
  <2>4. CASE call' = [call EXCEPT ![x] = Failed(x)] \/ call' = [call EXCEPT ![x] = Idle]
    BY <2>2, <2>3, <2>4
  <2>5. CASE call' = Post(call, x, FALSE)
    BY <2>5, PostWithin
  <2>6. CASE call' = call
    BY <2>6 DEF Within
  <2>7. QED
    BY <2>1, <2>4, <2>5, <2>6
<1>7. QED
  BY <1>4, <1>5, <1>6 DEF Within

LEMMA ReceiveWithin ==
  ASSUME Typed, NEW K, Within(K), NEW x \in Tabs, Receive(x)
  PROVE  Within(K)'
<1> DEFINE a == IF SignedIn(x) THEN call[x].ans ELSE Soft
           now == CASE a.kind = "session" -> a.s
                    [] a.kind = "hard" -> NoSession
                    [] a.kind = "soft" -> session[x]
<1>1. a \in Messages /\ a.kind \in {"session", "hard", "soft"} /\ a.s.tok \in K \cup {None}
  BY ConstantsAreTyped, PostWithin DEF Typed, Calls, Messages, Within
<1>2. /\ session' = [session EXCEPT ![x] = now]
      /\ stored' = IF a.kind = "soft" THEN stored ELSE now
      /\ call' = [call EXCEPT ![x] = IF a.kind = "session" THEN Idle ELSE Failed(x)]
      /\ \/ inbox' = [y \in Tabs |-> IF y = x THEN inbox[y] ELSE Append(inbox[y], a)]
         \/ inbox' = inbox
  BY DEF Receive
<1> HIDE DEF a
<1>3. now.tok \in K \cup {None}
  BY <1>1, PostWithin DEF Within
<1> HIDE DEF now
<1>4. stored'.tok \in K \cup {None} /\ \A y \in Tabs : session'[y].tok \in K \cup {None}
  BY <1>2, <1>3 DEF Within, Typed
<1>5. \A y \in Tabs : call'[y].tok \in K \cup {None} /\ call'[y].ans.s.tok \in K \cup {None}
  <2>1. ASSUME NEW y \in Tabs
        PROVE  call'[y] = call[y] \/ call'[y] = Idle \/ call'[y] = Failed(x)
    BY <1>2 DEF Typed
  <2>2. /\ Failed(x).tok \in K \cup {None} /\ Failed(x).ans.s.tok \in K \cup {None}
        /\ Idle.tok \in K \cup {None} /\ Idle.ans.s.tok \in K \cup {None}
    BY PostWithin
  <2>3. QED
    BY <2>1, <2>2 DEF Within
<1>6. ASSUME NEW y \in Tabs, NEW i \in DOMAIN inbox'[y] PROVE inbox'[y][i].s.tok \in K \cup {None}
  <2>1. inbox[y] \in Seq(Messages) /\ \A j \in DOMAIN inbox[y] : inbox[y][j].s.tok \in K \cup {None}
    BY DEF Typed, Within
  <2>2. inbox'[y] = inbox[y] \/ inbox'[y] = Append(inbox[y], a)
    BY <1>2
  <2>3. QED
    BY <1>1, <1>6, <2>1, <2>2
<1>7. QED
  BY <1>4, <1>5, <1>6 DEF Within

-----------------------------------------------------------------------------
(* The rows: K are the tokens that left the server, or that a replay may   *)
(* still bring back because a spent token points at them.                  *)

Sound(r, K) ==
  /\ K \subseteq Issued(r)
  /\ \A t \in Tokens : r[t].next \in K \cup {None}
  /\ \A t \in Issued(r) : r[t].family \in Issued(r)
  /\ \A t, u \in Issued(r) :
        r[t].family = r[u].family => (r[t].revoked = "no" <=> r[u].revoked = "no")
  /\ \A t, u \in K :
        Live(r, t) /\ Live(r, u) /\ r[t].family = r[u].family => t = u

TabsInv == Typed /\ \E K \in SUBSET Tokens : Within(K) /\ Sound(row, K)

LEMMA InsertedRow ==
  ASSUME NEW r \in [Tokens -> Rows], NEW s \in Tokens, NEW f \in Tokens, NEW t \in Tokens
  PROVE  /\ t # s => Insert(r, s, f)[t] = r[t]
         /\ Insert(r, s, f)[s].family = f /\ Insert(r, s, f)[s].next = None
         /\ Insert(r, s, f)[s].spent = "no" /\ Insert(r, s, f)[s].revoked = "no"
BY DEF Insert, NoRow

(* A row is inserted: it starts a family, or joins one that is in use.     *)
LEMMA SoundInserts ==
  ASSUME NEW r \in [Tokens -> Rows], NEW K \in SUBSET Tokens, Sound(r, K),
         NEW s \in Tokens \ Issued(r), NEW f \in Tokens,
         f = s \/ \E t \in Tokens : Usable(r, t) /\ r[t].family = f
  PROVE  /\ Sound(Insert(r, s, f), K) /\ Issued(Insert(r, s, f)) = Issued(r) \cup {s}
         /\ f = s => Sound(Insert(r, s, f), K \cup {s})
<1> DEFINE q == Insert(r, s, f)
<1>1. q \in [Tokens -> Rows]
  BY RowsAreTyped
<1>2. /\ \A t \in Tokens \ {s} : q[t] = r[t]
      /\ q[s].family = f /\ q[s].next = None /\ q[s].spent = "no" /\ q[s].revoked = "no"
  BY InsertedRow
<1> HIDE DEF q
<1>3. Issued(q) = Issued(r) \cup {s}
  BY <1>2, NoneAssumption DEF Issued
<1>4. K \subseteq Issued(r) /\ s \notin K
  BY DEF Sound
<1>5. \A t \in K : q[t] = r[t] /\ (Live(q, t) <=> Live(r, t))
  BY <1>2, <1>3, <1>4 DEF Live, Usable
<1>6. \A t \in Issued(q) : q[t].family \in Issued(q)
  BY <1>2, <1>3 DEF Sound, Usable, Issued
<1>7. ASSUME NEW t \in Issued(q), NEW u \in Issued(q), q[t].family = q[u].family
      PROVE  q[t].revoked = "no" <=> q[u].revoked = "no"
  <2>1. ASSUME NEW v \in Issued(r), r[v].family = f PROVE r[v].revoked = "no"
    BY <2>1, NoneAssumption DEF Sound, Usable, Issued
  <2>2. CASE t = s \/ u = s
    BY <1>2, <1>3, <1>7, <2>1, <2>2 DEF Issued
  <2>3. CASE t # s /\ u # s
    BY <1>2, <1>3, <1>7, <2>3 DEF Sound, Issued
  <2>4. QED
    BY <2>2, <2>3
<1>8. Sound(q, K)
  BY <1>2, <1>3, <1>4, <1>5, <1>6, <1>7 DEF Sound, Issued
<1>9. ASSUME f = s PROVE Sound(q, K \cup {s})
  <2>1. \A u \in K : q[u].family # s
    BY <1>4, <1>5 DEF Sound
  <2>2. \A t, u \in K \cup {s} :
           Live(q, t) /\ Live(q, u) /\ q[t].family = q[u].family => t = u
    BY <1>2, <1>8, <1>9, <2>1 DEF Sound
  <2>3. QED
    BY <1>3, <1>8, <2>2 DEF Sound
<1>10. QED
  BY <1>3, <1>8, <1>9 DEF q

(* The presented token points at the row inserted for it.                  *)
LEMMA SoundRotates ==
  ASSUME NEW r \in [Tokens -> Rows], NEW K \in SUBSET Tokens, Sound(r, K),
         NEW t \in K, Live(r, t), NEW s \in Issued(r) \ K, r[s].family = r[t].family
  PROVE  Sound(MarkRotated(r, t, s), K \cup {s})
<1> DEFINE q == MarkRotated(r, t, s)
<1>1. /\ q = [r EXCEPT ![t] = [r[t] EXCEPT !.spent = "grace", !.next = s]]
      /\ t \in Tokens /\ s \in Tokens
  BY DEF MarkRotated, Live, Usable, Issued
<1>2. /\ \A u \in Tokens : q[u].family = r[u].family /\ q[u].revoked = r[u].revoked
      /\ \A u \in Tokens \ {t} : q[u] = r[u]
      /\ q[t].spent = "grace" /\ q[t].next = s
  <2>1. r[t] \in Rows
    BY <1>1
  <2>2. QED
    BY <1>1, <2>1 DEF Rows
<1> HIDE DEF q
<1>3. Issued(q) = Issued(r)
  BY <1>2 DEF Issued
<1>4. \A u \in Tokens : Live(q, u) => Live(r, u) /\ u # t
  BY <1>2, <1>3 DEF Live, Usable
<1>5. \A u, v \in K \cup {s} : Live(q, u) /\ Live(q, v) /\ q[u].family = q[v].family => u = v
  <2>1. ASSUME NEW u \in K, Live(q, u), NEW v \in K \cup {s}, Live(q, v),
               q[u].family = q[v].family
        PROVE  u = v
    <3>1. Live(r, u) /\ u # t /\ r[u].family = r[v].family /\ u \in Tokens
      BY <1>1, <1>2, <1>4, <2>1
    <3>2. v = s => r[u].family = r[t].family
      BY <3>1
    <3>3. CASE v = s
      BY <3>1, <3>2, <3>3 DEF Sound
    <3>4. CASE v \in K
      BY <1>4, <2>1, <3>1, <3>4 DEF Sound
    <3>5. QED
      BY <3>3, <3>4
  <2>2. QED
    BY <2>1
<1>6. \A u \in Tokens : q[u].next \in K \cup {s} \cup {None}
  <2>1. \A u \in Tokens \ {t} : r[u].next \in K \cup {None} /\ q[u] = r[u]
    BY <1>2 DEF Sound
  <2>2. QED
    BY <1>2, <2>1
<1>7. Issued(r) \subseteq Tokens
  BY DEF Issued
<1>8. Sound(q, K \cup {s})
  <2>1. \A u \in Issued(q) : q[u].family \in Issued(q)
    BY <1>2, <1>3, <1>7 DEF Sound
  <2>2. \A u, v \in Issued(q) :
           q[u].family = q[v].family => (q[u].revoked = "no" <=> q[v].revoked = "no")
    BY <1>2, <1>3, <1>7 DEF Sound
  <2>3. K \cup {s} \subseteq Issued(q)
    BY <1>3 DEF Sound
  <2>4. QED
    BY <1>5, <1>6, <2>1, <2>2, <2>3 DEF Sound
<1>9. QED
  BY <1>8 DEF q

(* Whole families are revoked.                                             *)
LEMMA SoundRevokes ==
  ASSUME NEW r \in [Tokens -> Rows], NEW K \in SUBSET Tokens, Sound(r, K),
         NEW S \in SUBSET Tokens, NEW why \in Reasons, why # "no",
         \A t \in S, u \in Tokens : r[u].family = r[t].family => u \in S
  PROVE  Sound(Revoke(r, S, why), K)
<1> DEFINE q == Revoke(r, S, why)
<1>1. \A t \in Tokens :
        /\ q[t].family = r[t].family /\ q[t].next = r[t].next /\ q[t].spent = r[t].spent
        /\ q[t].revoked = "no" <=> r[t].revoked = "no" /\ ~(t \in S /\ t \in Issued(r))
  <2>1. ASSUME NEW t \in Tokens
        PROVE  q[t] = IF t \in S /\ r[t].family # None /\ r[t].revoked = "no"
                      THEN [r[t] EXCEPT !.revoked = why] ELSE r[t]
    BY DEF Revoke
  <2>2. \A t \in Tokens : r[t] \in Rows
    OBVIOUS
  <2> HIDE DEF q
  <2>3. ASSUME NEW t \in Tokens
        PROVE  /\ q[t].family = r[t].family /\ q[t].next = r[t].next /\ q[t].spent = r[t].spent
               /\ q[t].revoked = "no" <=> r[t].revoked = "no" /\ ~(t \in S /\ t \in Issued(r))
    <3>1. CASE t \in S /\ r[t].family # None /\ r[t].revoked = "no"
      BY <2>1, <2>2, <3>1 DEF Rows, Issued
    <3>2. CASE ~(t \in S /\ r[t].family # None /\ r[t].revoked = "no")
      BY <2>1, <3>2 DEF Issued
    <3>3. QED
      BY <3>1, <3>2
  <2>4. QED
    BY <2>3
<1> HIDE DEF q
<1>2. Issued(q) = Issued(r)
  BY <1>1 DEF Issued
<1>3. \A t \in Tokens : Live(q, t) => Live(r, t)
  BY <1>1, <1>2 DEF Live, Usable
<1>4. ASSUME NEW t \in Issued(q), NEW u \in Issued(q), q[t].family = q[u].family
      PROVE  q[t].revoked = "no" <=> q[u].revoked = "no"
  <2>1. t \in Tokens /\ u \in Tokens /\ t \in Issued(r) /\ u \in Issued(r) /\ r[t].family = r[u].family
    BY <1>1, <1>2, <1>4 DEF Issued
  <2>2. (t \in S <=> u \in S) /\ (r[t].revoked = "no" <=> r[u].revoked = "no")
    BY <2>1 DEF Sound
  <2>3. QED
    BY <1>1, <2>1, <2>2
<1>5. QED
  BY <1>1, <1>2, <1>3, <1>4 DEF Sound, Issued, q

(* The server's clock                                                      *)
LEMMA SoundAges ==
  ASSUME NEW r \in [Tokens -> Rows], NEW K \in SUBSET Tokens, Sound(r, K),
         NEW t \in Tokens, r[t].spent = "grace"
  PROVE  Sound([r EXCEPT ![t].spent = "late"], K)
<1> DEFINE q == [r EXCEPT ![t].spent = "late"]
<1>1. \A u \in Tokens :
        /\ q[u].family = r[u].family /\ q[u].next = r[u].next /\ q[u].revoked = r[u].revoked
        /\ q[u].spent = "no" <=> r[u].spent = "no"
  BY DEF Rows
<1> HIDE DEF q
<1>2. Issued(q) = Issued(r)
  BY <1>1 DEF Issued
<1>3. \A u \in Tokens : Live(q, u) <=> Live(r, u)
  BY <1>1, <1>2 DEF Live, Usable
<1>4. Issued(r) \subseteq Tokens
  BY DEF Issued
<1>5. Sound(q, K)
  BY <1>1, <1>2, <1>3, <1>4 DEF Sound
<1>6. QED
  BY <1>5 DEF q

-----------------------------------------------------------------------------
(* Every step keeps TabsInv                                                *)

LEMMA WithinGrows == \A K, L : Within(K) /\ K \subseteq L => Within(L)
BY DEF Within

LEMMA InitInv == Init => TabsInv
<1> SUFFICES ASSUME Init PROVE TabsInv
  OBVIOUS
<1>1. PICK t \in Tokens : row = Insert([u \in Tokens |-> NoRow], t, t) /\ stored = [tok |-> t, exp |-> 1]
  BY DEF Init
<1> DEFINE none == [u \in Tokens |-> NoRow]
<1>2. none \in [Tokens -> Rows] /\ Issued(none) = {} /\ Sound(none, {})
  BY ConstantsAreTyped DEF NoRow, Issued, Sound
<1> HIDE DEF none
<1>3. t \in Tokens \ Issued(none)
  BY <1>2
<1>4. Sound(Insert(none, t, t), {} \cup {t})
  BY <1>2, <1>3, SoundInserts
<1>5. Within({t})
  <2>1. /\ \A y \in Tabs : session[y].tok = t /\ call[y] = Idle /\ inbox[y] = <<>>
        /\ stored.tok = t
    BY <1>1 DEF Init
  <2>2. Idle.tok = None /\ Idle.ans.s.tok = None
    BY DEF Idle, Soft, NoSession
  <2>3. QED
    BY <2>1, <2>2 DEF Within
<1>6. Sound(row, {t})
  BY <1>1, <1>4 DEF none
<1>7. QED
  BY <1>5, <1>6, InitTyped DEF TabsInv

(* What the presented token and its row are worth.                         *)
LEMMA PresentedIsKnown ==
  ASSUME Typed, NEW K \in SUBSET Tokens, Within(K), Sound(row, K), NEW x \in Tabs
  PROVE  /\ Usable(row, call[x].tok) => /\ call[x].tok \in K
                                        /\ row[call[x].tok].family \in Tokens
         /\ \A s \in Fresh : s \in Tokens \ Issued(row) /\ s \notin K
BY NoneAssumption DEF Within, Sound, Usable, Issued, Fresh

LEMMA RotateKeeps ==
  ASSUME Typed, NEW K \in SUBSET Tokens, Within(K), Sound(row, K), NEW x \in Tabs, Rotate(x)
  PROVE  \E L \in SUBSET Tokens : Within(L)' /\ Sound(row', L)
<1> DEFINE t == call[x].tok
<1>1. Live(row, t) /\ t \in K /\ row[t].family \in Tokens /\ mints < MaxMints
  BY PresentedIsKnown DEF Rotate, Rotates, Live
<1>2. PICK s \in Fresh : row' = MarkRotated(Insert(row, s, row[t].family), t, s)
                         /\ call' = Answered(x, Answer(s))
  BY DEF Rotate
<1>3. s \in Tokens \ Issued(row) /\ s \notin K
  BY PresentedIsKnown
<1> DEFINE q == Insert(row, s, row[t].family)
<1>4. q \in [Tokens -> Rows]
  BY <1>1, <1>3, RowsAreTyped DEF Typed
<1>5. Sound(q, K) /\ Issued(q) = Issued(row) \cup {s}
  <2>1. Usable(row, t) /\ t \in Tokens
    BY <1>1 DEF Live, Usable, Issued
  <2>2. QED
    BY <1>1, <1>3, <2>1, SoundInserts DEF Typed
<1>6. t # s /\ q[t] = row[t] /\ q[s].family = q[t].family /\ t \in Tokens
  BY <1>1, <1>3, InsertedRow DEF Typed
<1> HIDE DEF q
<1>7. Live(q, t) /\ s \in Issued(q) \ K
  BY <1>1, <1>3, <1>5, <1>6 DEF Live, Usable
<1>8. Sound(MarkRotated(q, t, s), K \cup {s})
  BY <1>1, <1>4, <1>5, <1>6, <1>7, SoundRotates
<1>9. Within(K \cup {s})'
  <2>1. Within(K \cup {s}) /\ UNCHANGED <<session, stored, inbox>>
    BY WithinGrows DEF Rotate
  <2>2. Answer(s) \in Messages /\ Answer(s).s.tok = s
    BY <1>1, <1>3, AnswerIsTyped
  <2>3. QED
    BY <1>2, <2>1, <2>2, AnsweredWithin
<1>10. QED
  BY <1>2, <1>3, <1>8, <1>9 DEF q

LEMMA AnswersKeep ==
  ASSUME Typed, NEW K \in SUBSET Tokens, Within(K), Sound(row, K), NEW x \in Tabs,
         Refuse(x) \/ Reuse(x) \/ Replay(x) \/ RotateHalf(x) \/ CallFails(x)
  PROVE  Within(K)' /\ Sound(row', K)
<1> DEFINE t == call[x].tok
<1>0. /\ Hard \in Messages /\ Hard.s.tok \in K \cup {None}
      /\ Soft \in Messages /\ Soft.s.tok \in K \cup {None}
  BY ConstantsAreTyped, PostWithin
<1>1. CASE Refuse(x) \/ CallFails(x)
  <2>1. (call' = Answered(x, Hard) \/ call' = Answered(x, Soft)) /\ UNCHANGED <<row, session, stored, inbox>>
    BY <1>1 DEF Refuse, CallFails
  <2>2. QED
    BY <1>0, <2>1, AnsweredWithin
<1>2. CASE Reuse(x)
  <2>1. /\ row' = RevokeFamily(row, t) /\ call' = Answered(x, Hard)
        /\ UNCHANGED <<session, stored, inbox>>
    BY <1>2 DEF Reuse
  <2>2. Sound(row', K)
    <3> DEFINE S == {u \in Tokens : row[u].family = row[t].family}
    <3>1. \A v \in S, u \in Tokens : row[u].family = row[v].family => u \in S
      OBVIOUS
    <3>2. S \in SUBSET Tokens /\ row' = Revoke(row, S, "reuse_detected")
      BY <2>1 DEF RevokeFamily
    <3> HIDE DEF S
    <3>3. QED
      BY <3>1, <3>2, SoundRevokes DEF Typed, Reasons
  <2>3. QED
    BY <1>0, <2>1, <2>2, AnsweredWithin
<1>3. CASE Replay(x)
  <2>1. /\ call' = Answered(x, Answer(row[t].next)) /\ UNCHANGED <<row, session, stored, inbox>>
        /\ mints < MaxMints /\ Usable(row, t)
    BY <1>3 DEF Replay, Replays
  <2>2. row[t].next \in K \cup {None} /\ row[t].next \in Tokens \cup {None}
    BY <2>1 DEF Usable, Issued, Sound
  <2>3. Answer(row[t].next) \in Messages /\ Answer(row[t].next).s.tok = row[t].next
    BY <2>1, <2>2, AnswerIsTyped
  <2>4. QED
    BY <2>1, <2>2, <2>3, AnsweredWithin
<1>4. CASE RotateHalf(x)
  <2>1. /\ Usable(row, t) /\ call' = Answered(x, Soft) /\ UNCHANGED <<session, stored, inbox>>
    BY <1>4 DEF RotateHalf, Rotates
  <2>2. PICK s \in Fresh : row' = Insert(row, s, row[t].family)
    BY <1>4 DEF RotateHalf
  <2>3. s \in Tokens \ Issued(row) /\ row[t].family \in Tokens /\ t \in Tokens
    BY <2>1, PresentedIsKnown DEF Usable, Issued
  <2>4. Sound(row', K)
    BY <2>1, <2>2, <2>3, SoundInserts DEF Typed
  <2>5. QED
    BY <1>0, <2>1, <2>4, AnsweredWithin
<1>5. QED
  BY <1>1, <1>2, <1>3, <1>4

LEMMA SignInKeeps ==
  ASSUME Typed, NEW K \in SUBSET Tokens, Within(K), Sound(row, K), NEW x \in Tabs, SignIn(x)
  PROVE  \E L \in SUBSET Tokens : Within(L)' /\ Sound(row', L)
<1>1. PICK t \in Fresh : /\ row' = Insert(row, t, t)
                         /\ session' = [session EXCEPT ![x] = [tok |-> t, exp |-> mints + 1]]
                         /\ stored' = session'[x]
  BY DEF SignIn
<1>2. t \in Tokens \ Issued(row)
  BY PresentedIsKnown
<1>3. Sound(row', K \cup {t})
  BY <1>1, <1>2, SoundInserts DEF Typed
<1>4. Within(K \cup {t})'
  <2>1. UNCHANGED <<call, inbox>> /\ Within(K \cup {t})
    BY WithinGrows DEF SignIn
  <2>2. stored'.tok = t /\ \A y \in Tabs : session'[y].tok \in K \cup {t} \cup {None}
    BY <1>1, <2>1 DEF Within, Typed
  <2>3. QED
    BY <2>1, <2>2 DEF Within
<1>5. QED
  BY <1>2, <1>3, <1>4

LEMMA TabsKeep ==
  ASSUME Typed, NEW K \in SUBSET Tokens, Within(K), Sound(row, K), NEW x \in Tabs,
         \/ ReadLock(x) \/ Lead(x) \/ PeerTimeout(x) \/ HearPeer(x)
         \/ Receive(x) \/ BackoffEnds(x) \/ Reload(x) \/ SignOut(x)
  PROVE  Within(K)' /\ Sound(row', K)
<1>1. Within(K)'
  BY TabsWithin, HearWithin, ReceiveWithin
<1>2. row' = row \/ row' = RevokeUser(row)
  BY DEF ReadLock, Lead, PeerTimeout, HearPeer, Receive, BackoffEnds, Reload, SignOut
<1>3. Sound(RevokeUser(row), K)
  BY SoundRevokes DEF RevokeUser, Typed, Reasons
<1>4. QED
  BY <1>1, <1>2, <1>3

LEMMA OthersKeep ==
  ASSUME Typed, NEW K \in SUBSET Tokens, Within(K), Sound(row, K),
         \/ UNCHANGED vars \/ LockExpires \/ SetPassword \/ HourPasses
         \/ \E t \in Tokens : GraceEnds(t)
  PROVE  Within(K)' /\ Sound(row', K)
<1>1. Within(K)'
  BY DEF vars, LockExpires, SetPassword, HourPasses, GraceEnds, Within
<1>2. CASE \E t \in Tokens : GraceEnds(t)
  <2>1. PICK t \in Tokens : GraceEnds(t)
    BY <1>2
  <2>2. row[t].spent = "grace" /\ row' = [row EXCEPT ![t].spent = "late"]
    BY <2>1 DEF GraceEnds
  <2>3. QED
    BY <1>1, <2>2, SoundAges DEF Typed
<1>3. CASE SetPassword
  <2>1. Sound(RevokeUser(row), K)
    BY SoundRevokes DEF RevokeUser, Typed, Reasons
  <2>2. QED
    BY <1>1, <1>3, <2>1 DEF SetPassword
<1>4. CASE UNCHANGED vars \/ LockExpires \/ HourPasses
  BY <1>1, <1>4 DEF vars, LockExpires, HourPasses
<1>5. QED
  BY <1>2, <1>3, <1>4

LEMMA NextKeeps ==
  ASSUME TabsInv, [Next]_vars
  PROVE  TabsInv'
<1>1. Typed'
  BY NextTyped DEF TabsInv
<1>2. PICK K \in SUBSET Tokens : Within(K) /\ Sound(row, K)
  BY DEF TabsInv
<1>3. Typed
  BY DEF TabsInv
<1>4. ASSUME NEW x \in Tabs,
             \/ ReadLock(x) \/ Lead(x) \/ PeerTimeout(x) \/ HearPeer(x)
             \/ Receive(x) \/ BackoffEnds(x) \/ Reload(x)
             \/ Refuse(x) \/ Reuse(x) \/ Replay(x) \/ Rotate(x) \/ RotateHalf(x)
             \/ CallFails(x) \/ SignIn(x) \/ SignOut(x)
      PROVE  \E L \in SUBSET Tokens : Within(L)' /\ Sound(row', L)
  <2>1. CASE Rotate(x)
    BY <1>2, <1>3, <2>1, RotateKeeps
  <2>2. CASE SignIn(x)
    BY <1>2, <1>3, <2>2, SignInKeeps
  <2>3. CASE Refuse(x) \/ Reuse(x) \/ Replay(x) \/ RotateHalf(x) \/ CallFails(x)
    BY <1>2, <1>3, <2>3, AnswersKeep
  <2>4. CASE \/ ReadLock(x) \/ Lead(x) \/ PeerTimeout(x) \/ HearPeer(x)
             \/ Receive(x) \/ BackoffEnds(x) \/ Reload(x) \/ SignOut(x)
    BY <1>2, <1>3, <2>4, TabsKeep
  <2>5. QED
    BY <1>4, <2>1, <2>2, <2>3, <2>4
<1>5. ASSUME \/ UNCHANGED vars \/ LockExpires \/ SetPassword \/ HourPasses
             \/ \E t \in Tokens : GraceEnds(t)
      PROVE  \E L \in SUBSET Tokens : Within(L)' /\ Sound(row', L)
  BY <1>2, <1>3, <1>5, OthersKeep
<1>6. \E L \in SUBSET Tokens : Within(L)' /\ Sound(row', L)
  BY <1>2, <1>4, <1>5 DEF Next
<1>7. QED
  BY <1>1, <1>6 DEF TabsInv

LEMMA TabsInvariant == Spec => []TabsInv
BY InitInv, NextKeeps, PTL DEF Spec

(* In every reachable state: however many tabs present one token, whatever *)
(* failed on the way, at most one token of a family that ever left the     *)
(* server is unspent, and a family is revoked whole or not at all.         *)
THEOREM OneSessionHolds == Spec => []OneSession
<1>1. TabsInv => OneSession
  <2> SUFFICES ASSUME TabsInv PROVE OneSession
    OBVIOUS
  <2>1. PICK K \in SUBSET Tokens : Within(K) /\ Sound(row, K)
    BY DEF TabsInv
  <2>2. Known \ {None} \subseteq K
    BY <2>1, WithinKnown
  <2>3. OneLivePair /\ RevokedWhole
    BY <2>1, <2>2 DEF OneLivePair, RevokedWhole, Sound
  <2>4. TypeOK
    BY DEF TabsInv, Typed, TypeOK, Calls
  <2>5. QED
    BY <2>3, <2>4 DEF OneSession
<1>2. QED
  BY <1>1, TabsInvariant, PTL

-----------------------------------------------------------------------------
(* Why honest tabs are spared. H are the tokens that somebody is about to  *)
(* be given: successors of tokens in their grace, what an answer or message*)
(* carries, what a tab in backoff holds. As long as nobody was early, slow *)
(* or cut off none of them is due or presented, so a token that is         *)
(* presented is at most one generation behind, and never past its grace.   *)

Young(s, H, h) == s.tok \in H => s.exp > h
Carried(s, H, h) == s.tok \in H \cup {None} /\ Young(s, H, h)
Kept(r, t) == t \in Tokens => r[t].spent # "late"

(* Its session stays with it whatever call it is in the middle of.         *)
Parked(x) ==
  \/ call[x].at = "backoff"
  \/ call[x].at = "answered" /\ call[x].ans.kind = "soft"

Tab(x, H) ==
  /\ Carried(call[x].ans.s, H, hour)
  /\ \A i \in DOMAIN inbox[x] : Carried(inbox[x][i].s, H, hour)
  /\ Young(session[x], H, hour) /\ Kept(row, session[x].tok)
  /\ Parked(x) => session[x].tok \in H \cup {None}
  /\ call[x].at \in {"free", "following"} => session[x].tok \notin H
  /\ call[x].at = "sent" => /\ call[x].tok \notin H /\ Kept(row, call[x].tok)
                            /\ call[x].tok # None /\ call[x].tok = stored.tok => SignedIn(x)

(* The answer is in with which x replaces what storage has.                *)
Replaces(x) ==
  /\ call[x].at = "answered" /\ call[x].ans.kind = "session"
  /\ call[x].tok = stored.tok /\ SignedIn(x)

Given(r, H) ==
  /\ \A u \in H : u \in Issued(r) /\ r[u].spent = "no"
  /\ \A t \in Tokens : r[t].spent = "grace" => r[t].next \in H
  /\ \A t \in Tokens : r[t].revoked # "reuse_detected"

Storage(H) ==
  /\ Young(stored, H, hour) /\ Kept(row, stored.tok)
  /\ stored.tok \in Tokens /\ row[stored.tok].spent = "grace" => \E x \in Tabs : Replaces(x)

Spared(H) == Given(row, H) /\ Storage(H) /\ \A x \in Tabs : Tab(x, H)

Honest == calm /\ lost = 0 => \E H \in SUBSET Tokens : Spared(H)

LEMMA SomeTabsMove ==
  ASSUME Typed, NEW H \in SUBSET Tokens, Spared(H), NEW M \in SUBSET Tabs,
         hour' = hour, Given(row, H)', \A t \in Tokens : row'[t].spent = row[t].spent,
         \A y \in Tabs \ M : session'[y] = session[y] /\ call'[y] = call[y],
         \A y \in Tabs : \A i \in DOMAIN inbox'[y] : Carried(inbox'[y][i].s, H, hour),
         \A y \in M : Tab(y, H)',
         \/ stored' = stored /\ \A y \in M : Replaces(y) => Replaces(y)'
         \/ Carried(stored', H, hour)
  PROVE  Spared(H)'
<1>1. \A t : Kept(row, t) => Kept(row', t)
  BY DEF Kept
<1>2. ASSUME NEW y \in Tabs \ M PROVE Tab(y, H)'
  <2>1. Tab(y, H) /\ session'[y] = session[y] /\ call'[y] = call[y]
    BY DEF Spared
  <2>2. (Parked(y)' <=> Parked(y)) /\ (SignedIn(y)' <=> SignedIn(y))
    BY <2>1 DEF Parked, SignedIn
  <2>3. call[y].at = "sent" /\ call[y].tok # None /\ call[y].tok = stored'.tok => SignedIn(y)
    BY <2>1 DEF Tab, Carried
  <2>4. QED
    BY <1>1, <2>1, <2>2, <2>3 DEF Tab
<1>3. Storage(H)'
  <2>1. CASE stored' = stored /\ \A y \in M : Replaces(y) => Replaces(y)'
    <3>1. ASSUME NEW y \in Tabs, Replaces(y) PROVE Replaces(y)'
      BY <2>1, <3>1 DEF Replaces, SignedIn
    <3>2. QED
      BY <1>1, <2>1, <3>1 DEF Storage, Spared
  <2>2. CASE Carried(stored', H, hour)
    BY <2>2, NoneAssumption DEF Storage, Carried, Kept, Given
  <2>3. QED
    BY <2>1, <2>2
<1>4. QED
  BY <1>2, <1>3 DEF Spared

LEMMA OneTabMoves ==
  ASSUME Typed, NEW H \in SUBSET Tokens, Spared(H), NEW x \in Tabs,
         hour' = hour, Given(row, H)', \A t \in Tokens : row'[t].spent = row[t].spent,
         \A y \in Tabs \ {x} : session'[y] = session[y] /\ call'[y] = call[y],
         \A y \in Tabs : \A i \in DOMAIN inbox'[y] : Carried(inbox'[y][i].s, H, hour),
         Tab(x, H)',
         \/ stored' = stored /\ (Replaces(x) => Replaces(x)')
         \/ Carried(stored', H, hour)
  PROVE  Spared(H)'
<1> DEFINE M == {x}
<1>1. /\ M \in SUBSET Tabs
      /\ \A y \in M : Tab(y, H)'
      /\ (Replaces(x) => Replaces(x)') => \A y \in M : Replaces(y) => Replaces(y)'
      /\ \A y \in Tabs \ M : session'[y] = session[y] /\ call'[y] = call[y]
  OBVIOUS
<1> HIDE DEF M
<1>2. QED
  BY <1>1, SomeTabsMove

LEMMA NothingIsCarried ==
  ASSUME NEW H \in SUBSET Tokens, NEW h
  PROVE  /\ Carried(NoSession, H, h) /\ NoSession.tok = None /\ None \notin H /\ None \notin Tokens
         /\ Soft.s = NoSession /\ Hard.s = NoSession /\ Soft.kind = "soft" /\ Hard.kind = "hard"
         /\ Idle.at = "idle" /\ Idle.ans = Soft
BY NoneAssumption DEF Carried, Young, NoSession, Soft, Hard, Idle

LEMMA TabsKnow ==
  ASSUME Typed, NEW H \in SUBSET Tokens, Spared(H), UNCHANGED row
  PROVE  /\ Given(row, H)'
         /\ \A x \in Tabs : Tab(x, H)
         /\ \A y \in Tabs : \A i \in DOMAIN inbox[y] : Carried(inbox[y][i].s, H, hour)
         /\ Young(stored, H, hour) /\ Kept(row, stored.tok)
BY DEF Spared, Storage, Given, Tab

(* A tab that asks presents a token that nobody is about to be given.      *)
LEMMA PostSpares ==
  ASSUME Typed, NEW H \in SUBSET Tokens, Spared(H), NEW x \in Tabs, NEW lead \in BOOLEAN,
         call[x].at \in {"free", "following"}, call' = Post(call, x, lead),
         UNCHANGED <<row, session, stored, hour>>,
         \A y \in Tabs : \A i \in DOMAIN inbox'[y] : Carried(inbox'[y][i].s, H, hour)
  PROVE  Spared(H)'
<1>1. Tab(x, H) /\ Given(row, H)'
  BY TabsKnow
<1>2. /\ SignedIn(x) => call'[x] = [at |-> "sent", tok |-> session[x].tok, lead |-> lead, ans |-> Soft]
      /\ ~SignedIn(x) => call'[x] = [at |-> "answered", tok |-> None, lead |-> lead, ans |-> Soft]
      /\ \A y \in Tabs \ {x} : call'[y] = call[y]
  BY DEF Post, Typed, Idle
<1>3. Carried(Soft.s, H, hour) /\ NoSession.tok = None
  BY NothingIsCarried
<1>4. Tab(x, H)'
  <2>1. CASE SignedIn(x)
    <3>1. call'[x].at = "sent" /\ call'[x].tok = session[x].tok /\ call'[x].ans = Soft
      BY <1>2, <2>1
    <3>2. ~Parked(x)'
      BY <3>1 DEF Parked
    <3>3. session[x].tok \notin H /\ Kept(row, session[x].tok) /\ SignedIn(x)'
      BY <1>1, <2>1 DEF Tab, SignedIn
    <3>4. QED
      BY <1>1, <1>3, <3>1, <3>2, <3>3 DEF Tab
  <2>2. CASE ~SignedIn(x)
    <3>1. call'[x].at = "answered" /\ call'[x].ans = Soft /\ session[x].tok = None
      BY <1>2, <1>3, <2>2 DEF SignedIn
    <3>2. QED
      BY <1>1, <1>3, <3>1 DEF Tab
  <2>3. QED
    BY <2>1, <2>2
<1>5. ~Replaces(x)
  BY DEF Replaces
<1>6. QED
  BY <1>1, <1>2, <1>4, <1>5, OneTabMoves

LEMMA HearSpares ==
  ASSUME Typed, NEW H \in SUBSET Tokens, Spared(H), NEW x \in Tabs, HearPeer(x)
  PROVE  Spared(H)'
<1> DEFINE m == Head(inbox[x])
<1>0. UNCHANGED <<row, hour>> /\ call[x].at # "free" /\ Hears(x, m)
      /\ inbox[x] \in Seq(Messages) /\ inbox[x] # <<>> /\ inbox' = [inbox EXCEPT ![x] = Tail(@)]
  BY DEF HearPeer, Yields, Typed
<1>1. Tab(x, H) /\ Given(row, H)' /\ \A t \in Tokens : row'[t].spent = row[t].spent
  BY <1>0, TabsKnow
<1>2. /\ Carried(m.s, H, hour)
      /\ \A y \in Tabs : \A i \in DOMAIN inbox'[y] : Carried(inbox'[y][i].s, H, hour)
  <2>1. m = inbox[x][1] /\ 1 \in DOMAIN inbox[x]
        /\ \A i \in DOMAIN Tail(inbox[x]) : i + 1 \in DOMAIN inbox[x] /\ Tail(inbox[x])[i] = inbox[x][i + 1]
    BY <1>0
  <2>2. \A y \in Tabs : \A i \in DOMAIN inbox[y] : Carried(inbox[y][i].s, H, hour)
    BY <1>0, TabsKnow
  <2>3. \A y \in Tabs : inbox'[y] = IF y = x THEN Tail(inbox[x]) ELSE inbox[y]
    BY <1>0 DEF Typed
  <2> HIDE DEF m
  <2>4. QED
    BY <2>1, <2>2, <2>3
<1> HIDE DEF m
<1>3. /\ Adopts(x, m) => session'[x] = m.s /\ stored' = m.s
      /\ ~Adopts(x, m) /\ m.kind = "hard" => session'[x] = NoSession /\ stored' = NoSession
      /\ ~Adopts(x, m) /\ m.kind # "hard" => session'[x] = session[x] /\ stored' = stored
      /\ \A y \in Tabs \ {x} : session'[y] = session[y]
      /\ Adopts(x, m) => m.kind = "session" /\ SignedIn(x)
  BY <1>0 DEF Hears, Typed, Adopts
<1>a. /\ call[x].at # "following" => call' = call
      /\ call[x].at = "following" =>
           \/ m.kind = "hard" /\ call' = [call EXCEPT ![x] = Failed(x)]
           \/ m.kind = "session" /\ SignedIn(x) /\ call' = [call EXCEPT ![x] = Idle]
           \/ m.kind # "hard" /\ ~Adopts(x, m) /\ call' = Post(call, x, FALSE) /\ session' = [session EXCEPT ![x] = session[x]]
  BY <1>0 DEF Hears, Adopts
<1>4. Carried(NoSession, H, hour) /\ Soft.s = NoSession /\ NoSession.tok = None
      /\ Idle.at = "idle" /\ Idle.ans = Soft
  BY NothingIsCarried
<1>5. /\ Young(session'[x], H, hour) /\ Kept(row, session'[x].tok)
      /\ session'[x] = session[x] \/ session'[x].tok \in H \cup {None}
  <2>1. \A s : Carried(s, H, hour) => Young(s, H, hour) /\ s.tok \in H \cup {None}
    BY DEF Carried
  <2>2. \A u \in H \cup {None} : Kept(row, u)
    BY <1>0, <1>1, NoneAssumption DEF Given, Kept
  <2>3. QED
    BY <1>1, <1>2, <1>3, <1>4, <2>1, <2>2 DEF Tab
<1>6. (stored' = stored /\ session'[x] = session[x]) \/ Carried(stored', H, hour)
  BY <1>2, <1>3, <1>4
<1>7. CASE call[x].at # "following"
  <2>1. call' = call
    BY <1>a, <1>7
  <2>2. call[x].at = "sent" /\ call[x].tok # None /\ call[x].tok = stored'.tok => SignedIn(x)'
    BY <1>1, <1>6, <1>7 DEF Tab, Carried, SignedIn
  <2>3. Tab(x, H)'
    BY <1>0, <1>1, <1>2, <1>5, <1>7, <2>1, <2>2 DEF Tab, Parked
  <2>4. stored' = stored /\ session'[x] = session[x] => (Replaces(x) => Replaces(x)')
    BY <2>1 DEF Replaces, SignedIn
  <2>5. QED
    BY <1>0, <1>1, <1>2, <1>3, <1>6, <2>1, <2>3, <2>4, OneTabMoves
<1>8. CASE call[x].at = "following"
  <2>0. ~Replaces(x)
    BY <1>8 DEF Replaces
  <2>1. CASE \/ m.kind = "hard" /\ call' = [call EXCEPT ![x] = Failed(x)]
             \/ call' = [call EXCEPT ![x] = Idle]
    <3>1. /\ \A y \in Tabs \ {x} : call'[y] = call[y]
          /\ call'[x] = Idle \/ (call'[x] = Failed(x) /\ m.kind = "hard")
      BY <2>1 DEF Typed
    <3>2. /\ call'[x].ans = Soft
          /\ call'[x].at = "idle" \/ (call'[x].at = "backoff" /\ session'[x].tok = None)
      BY <1>3, <1>4, <3>1 DEF Failed, Idle
    <3>3. Tab(x, H)'
      BY <1>0, <1>2, <1>4, <1>5, <3>2 DEF Tab, Parked
    <3>4. QED
      BY <1>0, <1>1, <1>2, <1>3, <1>6, <2>0, <3>1, <3>3, OneTabMoves
  <2>2. CASE /\ m.kind # "hard" /\ ~Adopts(x, m) /\ call' = Post(call, x, FALSE)
             /\ session' = [session EXCEPT ![x] = session[x]]
    <3>1. session' = session /\ stored' = stored
      BY <1>3, <2>2 DEF Typed
    <3>2. QED
      BY <1>0, <1>2, <1>8, <2>2, <3>1, PostSpares
  <2>3. QED
    BY <1>a, <1>8, <2>1, <2>2
<1>9. QED
  BY <1>7, <1>8

LEMMA ReceiveSpares ==
  ASSUME Typed, NEW H \in SUBSET Tokens, Spared(H), NEW x \in Tabs, Receive(x)
  PROVE  Spared(H)'
<1> DEFINE a == IF SignedIn(x) THEN call[x].ans ELSE Soft
           now == CASE a.kind = "session" -> a.s
                    [] a.kind = "hard" -> NoSession
                    [] a.kind = "soft" -> session[x]
<1>0. /\ UNCHANGED <<row, hour>> /\ call[x].at = "answered"
      /\ session' = [session EXCEPT ![x] = now]
      /\ stored' = IF a.kind = "soft" THEN stored ELSE now
      /\ call' = [call EXCEPT ![x] = IF a.kind = "session" THEN Idle ELSE Failed(x)]
      /\ \/ inbox' = [y \in Tabs |-> IF y = x THEN inbox[y] ELSE Append(inbox[y], a)]
         \/ inbox' = inbox
  BY DEF Receive
<1>1. /\ Tab(x, H) /\ Given(row, H)' /\ \A t \in Tokens : row'[t].spent = row[t].spent
      /\ \A y \in Tabs : \A i \in DOMAIN inbox[y] : Carried(inbox[y][i].s, H, hour)
  BY <1>0, TabsKnow
<1>2. /\ Carried(NoSession, H, hour) /\ Soft.s = NoSession /\ NoSession.tok = None
      /\ Soft.kind = "soft" /\ Idle.at = "idle" /\ Idle.ans = Soft
  BY NothingIsCarried
<1>3. /\ a \in Messages /\ a.kind \in {"session", "hard", "soft"} /\ Carried(a.s, H, hour)
      /\ SignedIn(x) => a = call[x].ans
      /\ ~SignedIn(x) => a.kind = "soft"
  BY <1>1, <1>2, ConstantsAreTyped DEF Typed, Calls, Messages, Tab
<1>4. a.kind = "soft" => session[x].tok \in H \cup {None} /\ ~Replaces(x)
  BY <1>0, <1>1, <1>2, <1>3 DEF Tab, Parked, Replaces, SignedIn
<1> HIDE DEF a
<1>5. /\ a.kind = "session" => now = a.s
      /\ a.kind = "hard" => now = NoSession
      /\ a.kind = "soft" => now = session[x]
  BY <1>3
<1> HIDE DEF now
<1>6. /\ session'[x] = now
      /\ \A y \in Tabs \ {x} : session'[y] = session[y] /\ call'[y] = call[y]
      /\ call'[x] = IF a.kind = "session" THEN Idle ELSE Failed(x)
  BY <1>0 DEF Typed
<1>7. \A s : Carried(s, H, hour) => Young(s, H, hour) /\ s.tok \in H \cup {None} /\ Kept(row, s.tok)
  BY <1>0, <1>1, NoneAssumption DEF Carried, Given, Kept
<1>8. now.tok \in H \cup {None} /\ Young(now, H, hour) /\ Kept(row, now.tok)
  BY <1>1, <1>2, <1>3, <1>4, <1>5, <1>7 DEF Tab
<1>9. call'[x].ans = Soft /\ call'[x].at \in {"idle", "backoff"}
  BY <1>2, <1>6 DEF Failed, Idle
<1>10. \A y \in Tabs : \A i \in DOMAIN inbox'[y] : Carried(inbox'[y][i].s, H, hour)
  <2>1. ASSUME NEW y \in Tabs, NEW i \in DOMAIN inbox'[y] PROVE Carried(inbox'[y][i].s, H, hour)
    <3>1. inbox[y] \in Seq(Messages) /\ (inbox'[y] = inbox[y] \/ inbox'[y] = Append(inbox[y], a))
      BY <1>0 DEF Typed
    <3>2. CASE inbox'[y] = inbox[y]
      BY <1>1, <2>1, <3>2
    <3>3. CASE inbox'[y] = Append(inbox[y], a)
      <4>1. inbox'[y][i] = a \/ (i \in DOMAIN inbox[y] /\ inbox'[y][i] = inbox[y][i])
        BY <1>3, <2>1, <3>1, <3>3
      <4>2. QED
        BY <1>1, <1>3, <4>1
    <3>4. QED
      BY <3>1, <3>2, <3>3
  <2>2. QED
    BY <2>1
<1>11. Tab(x, H)'
  BY <1>0, <1>2, <1>6, <1>8, <1>9, <1>10 DEF Tab
<1>12. (stored' = stored /\ ~Replaces(x)) \/ Carried(stored', H, hour)
  BY <1>0, <1>2, <1>3, <1>4, <1>5
<1>13. QED
  BY <1>0, <1>1, <1>6, <1>10, <1>11, <1>12, OneTabMoves

(* Only a tab whose session is due asks, or it was early.                  *)
LEMMA TabsSpare ==
  ASSUME Typed, NEW H \in SUBSET Tokens, Spared(H), NEW x \in Tabs, calm',
         ReadLock(x) \/ Lead(x) \/ PeerTimeout(x) \/ BackoffEnds(x) \/ Reload(x)
  PROVE  Spared(H)'
<1>0. UNCHANGED <<row, hour>> /\ stored' = stored
  BY DEF ReadLock, Lead, PeerTimeout, BackoffEnds, Reload
<1>1. /\ Tab(x, H) /\ Given(row, H)' /\ \A t \in Tokens : row'[t].spent = row[t].spent
      /\ \A y \in Tabs : \A i \in DOMAIN inbox[y] : Carried(inbox[y][i].s, H, hour)
      /\ Young(stored, H, hour) /\ Kept(row, stored.tok)
  BY <1>0, TabsKnow
<1>2. Carried(Soft.s, H, hour) /\ Idle.at = "idle" /\ Idle.ans = Soft
  BY NothingIsCarried
<1>3. CASE Lead(x) \/ PeerTimeout(x)
  <2>1. PICK lead \in BOOLEAN : call' = Post(call, x, lead)
    BY <1>3 DEF Lead, PeerTimeout
  <2>2. call[x].at \in {"free", "following"} /\ UNCHANGED <<session, inbox>>
    BY <1>3 DEF Lead, PeerTimeout
  <2>3. QED
    BY <1>0, <1>1, <2>1, <2>2, PostSpares
<1>4. CASE ReadLock(x)
  <2>1. /\ \A y \in Tabs \ {x} : session'[y] = session[y] /\ call'[y] = call[y]
        /\ call[x].at = "idle" /\ call'[x].ans = call[x].ans
        /\ call'[x].at \in {"free", "following"}
        /\ session' = session /\ inbox' = inbox /\ session[x].exp <= hour
    BY <1>4 DEF ReadLock, Typed, Due, Calls
  <2>2. session[x].tok \notin H
    <3>1. session[x].exp \in Int /\ hour \in Int
      BY DEF Typed, Sessions
    <3>2. QED
      BY <1>1, <2>1, <3>1 DEF Tab, Young
  <2>3. Tab(x, H)' /\ ~Replaces(x)
    BY <1>0, <1>1, <2>1, <2>2 DEF Tab, Parked, Replaces
  <2>4. QED
    BY <1>0, <1>1, <2>1, <2>3, OneTabMoves
<1>5. CASE BackoffEnds(x) \/ Reload(x)
  <2>1. /\ \A y \in Tabs \ {x} : session'[y] = session[y] /\ call'[y] = call[y] /\ inbox'[y] = inbox[y]
        /\ call[x].at \in {"idle", "backoff"} /\ call'[x] = Idle
        /\ session'[x] = session[x] \/ session'[x] = stored
        /\ inbox'[x] = inbox[x] \/ inbox'[x] = <<>>
    BY <1>5 DEF BackoffEnds, Reload, Typed
  <2>2. \A y \in Tabs : \A i \in DOMAIN inbox'[y] : Carried(inbox'[y][i].s, H, hour)
    BY <1>1, <2>1
  <2>3. Tab(x, H)' /\ ~Replaces(x)
    BY <1>0, <1>1, <1>2, <2>1, <2>2 DEF Tab, Parked, Replaces
  <2>4. QED
    BY <1>0, <1>1, <2>1, <2>2, <2>3, OneTabMoves
<1>6. QED
  BY <1>3, <1>4, <1>5

(* A presented token that is spent is in its grace, and its successor was  *)
(* not presented: so it is answered, and never taken for a theft.          *)
LEMMA AnswersSpare ==
  ASSUME Typed, NEW H \in SUBSET Tokens, Spared(H), NEW x \in Tabs,
         Refuse(x) \/ Reuse(x) \/ Replay(x)
  PROVE  Spared(H)'
<1> DEFINE t == call[x].tok
<1>0. /\ call[x].at = "sent" /\ ~Reuse(x) /\ UNCHANGED <<row, hour, session, stored, inbox>>
      /\ Tab(x, H)
  <2>1. Tab(x, H) /\ Given(row, H) /\ call[x].at = "sent"
    BY DEF Spared, Refuse, Reuse, Replay
  <2>2. Kept(row, t)
    BY <2>1 DEF Tab
  <2>3. ASSUME Theft(row, t) PROVE FALSE
    <3>1. t \in Tokens /\ row[t].spent # "no" /\ row[t].spent # "late"
      BY <2>2, <2>3 DEF Theft, Usable, Issued, Kept
    <3>2. row[t].spent = "grace"
      BY <3>1 DEF Typed, Rows
    <3>3. row[t].next \in Issued(row) /\ row[row[t].next].spent = "no"
      BY <2>1, <3>1, <3>2 DEF Given
    <3>4. QED
      BY <2>3, <3>1, <3>3 DEF Theft
  <2>4. QED
    BY <2>1, <2>3 DEF Reuse, Refuse, Replay
<1>1. /\ Given(row, H)' /\ \A u \in Tokens : row'[u].spent = row[u].spent
      /\ \A y \in Tabs : \A i \in DOMAIN inbox[y] : Carried(inbox[y][i].s, H, hour)
  BY <1>0, TabsKnow
<1>2. PICK a \in Messages : call' = Answered(x, a) /\ a.kind # "soft" /\ Carried(a.s, H, hour)
  <2>1. CASE Refuse(x)
    <3>1. Hard \in Messages /\ Carried(Hard.s, H, hour) /\ Hard.kind # "soft"
      BY ConstantsAreTyped, NothingIsCarried
    <3>2. QED
      BY <2>1, <3>1 DEF Refuse
  <2>2. CASE Replay(x)
    <3>1. /\ t \in Tokens /\ row[t].spent = "grace" /\ mints < MaxMints
          /\ call' = Answered(x, Answer(row[t].next))
      BY <2>2 DEF Replay, Replays, Usable, Issued
    <3>2. row[t].next \in H
      BY <3>1 DEF Spared, Given
    <3>3. Answer(row[t].next) \in Messages
      BY <3>1, <3>2, AnswerIsTyped
    <3>4. mints + 1 > hour
      BY DEF Typed
    <3>5. Carried(Answer(row[t].next).s, H, hour) /\ Answer(row[t].next).kind = "session"
      BY <3>2, <3>4 DEF Answer, Carried, Young
    <3>6. QED
      BY <3>1, <3>3, <3>5
  <2>3. QED
    BY <1>0, <2>1, <2>2
<1>3. /\ \A y \in Tabs \ {x} : call'[y] = call[y]
      /\ call'[x].at = "answered" /\ call'[x].ans = a
  BY <1>2 DEF Answered, Typed, Calls
<1>4. Tab(x, H)' /\ ~Replaces(x)
  BY <1>0, <1>2, <1>3 DEF Tab, Parked, Replaces
<1>5. QED
  BY <1>0, <1>1, <1>3, <1>4, OneTabMoves

LEMMA RevokedByUser ==
  ASSUME Typed, NEW H \in SUBSET Tokens, Spared(H), row' = RevokeUser(row)
  PROVE  Given(row, H)' /\ \A u \in Tokens : row'[u].spent = row[u].spent
<1>1. \A u \in Tokens :
        /\ row'[u].family = row[u].family /\ row'[u].next = row[u].next
        /\ row'[u].spent = row[u].spent /\ row'[u].revoked \in {row[u].revoked, "by_user"}
  BY DEF RevokeUser, Revoke, Typed, Rows
<1>2. Issued(row') = Issued(row)
  BY <1>1 DEF Issued
<1>3. QED
  BY <1>1, <1>2 DEF Given, Spared

LEMMA SignOutSpares ==
  ASSUME Typed, NEW H \in SUBSET Tokens, Spared(H), NEW x \in Tabs, SignOut(x), lost' = lost
  PROVE  Spared(H)'
<1>1. /\ row' = RevokeUser(row) /\ call[x].at # "free" /\ stored' = NoSession
      /\ UNCHANGED <<call, inbox, hour>> /\ session' = [session EXCEPT ![x] = NoSession]
  BY DEF SignOut, Spend, Yields, Typed
<1>2. Given(row, H)' /\ \A u \in Tokens : row'[u].spent = row[u].spent
  BY <1>1, RevokedByUser
<1>3. session'[x] = NoSession /\ \A y \in Tabs \ {x} : session'[y] = session[y] /\ call'[y] = call[y]
  BY <1>1 DEF Typed
<1>4. Carried(NoSession, H, hour) /\ NoSession.tok = None /\ None \notin H /\ None \notin Tokens
  BY NothingIsCarried
<1>5. Tab(x, H)
  BY DEF Spared
<1>6. Tab(x, H)'
  <2>1. \A u : Kept(row, u) => Kept(row', u)
    BY <1>2 DEF Kept
  <2>2. Young(session'[x], H, hour) /\ Kept(row', session'[x].tok) /\ session'[x].tok = None
    BY <1>3, <1>4 DEF Carried, Kept
  <2>3. QED
    BY <1>1, <1>4, <1>5, <2>1, <2>2 DEF Tab
<1>7. \A y \in Tabs : \A i \in DOMAIN inbox'[y] : Carried(inbox'[y][i].s, H, hour)
  BY <1>1 DEF Spared, Tab
<1>8. QED
  BY <1>1, <1>2, <1>3, <1>4, <1>6, <1>7, OneTabMoves

LEMMA FreshIsUnknown ==
  ASSUME NEW s \in Fresh
  PROVE  /\ s \in Tokens \ Issued(row) /\ s # stored.tok
         /\ \A y \in Tabs : /\ s # session[y].tok /\ s # call[y].tok /\ s # call[y].ans.s.tok
                            /\ \A i \in DOMAIN inbox[y] : s # inbox[y][i].s.tok
BY DEF Fresh, Known

(* A token nobody knows may be added to those that are about to be given.  *)
LEMMA FreshIsNew ==
  ASSUME Typed, NEW H \in SUBSET Tokens, Spared(H), NEW s \in Fresh, NEW L, L \in {H, H \cup {s}},
         hour' = hour, \A u \in Tokens : row'[u].spent = "late" => row[u].spent = "late",
         NEW y \in Tabs, session'[y] = session[y], call'[y] = call[y], inbox'[y] = inbox[y],
         stored'.tok = s \/ stored' = stored
  PROVE  Tab(y, L)'
<1>1. /\ s # session[y].tok /\ s # call[y].tok /\ s # call[y].ans.s.tok
      /\ \A i \in DOMAIN inbox[y] : s # inbox[y][i].s.tok
  BY FreshIsUnknown
<1>2. Tab(y, H)
  BY DEF Spared
<1>3. \A u : Kept(row, u) => Kept(row', u)
  BY DEF Kept
<1>4. L = H \/ L = H \cup {s}
  OBVIOUS
<1>5. (Parked(y)' <=> Parked(y)) /\ (SignedIn(y)' <=> SignedIn(y))
  BY DEF Parked, SignedIn
<1>6. call[y].at = "sent" =>
         /\ call[y].tok \notin L /\ Kept(row', call[y].tok)
         /\ call[y].tok # None /\ call[y].tok = stored'.tok => SignedIn(y)
  BY <1>1, <1>2, <1>3 DEF Tab
<1>7. /\ Carried(call[y].ans.s, L, hour) /\ Young(session[y], L, hour) /\ Kept(row', session[y].tok)
      /\ \A i \in DOMAIN inbox[y] : Carried(inbox[y][i].s, L, hour)
  <2>1. ASSUME NEW i \in DOMAIN inbox[y] PROVE Carried(inbox[y][i].s, L, hour)
    <3>1. Carried(inbox[y][i].s, H, hour) /\ inbox[y][i].s.tok # s
      BY <1>1, <1>2, <2>1 DEF Tab
    <3>2. QED
      BY <1>4, <3>1 DEF Carried, Young
  <2>2. Carried(call[y].ans.s, H, hour) /\ Young(session[y], H, hour) /\ Kept(row, session[y].tok)
    BY <1>2 DEF Tab
  <2>3. Carried(call[y].ans.s, L, hour) /\ Young(session[y], L, hour)
    BY <1>1, <1>4, <2>2 DEF Carried, Young
  <2>4. QED
    BY <1>3, <2>1, <2>2, <2>3
<1>8. /\ Parked(y) => session[y].tok \in L \cup {None}
      /\ call[y].at \in {"free", "following"} => session[y].tok \notin L
  BY <1>1, <1>2 DEF Tab
<1>9. QED
  BY <1>5, <1>6, <1>7, <1>8 DEF Tab

LEMMA RotateSpares ==
  ASSUME Typed, NEW H \in SUBSET Tokens, Spared(H), NEW x \in Tabs, Rotate(x)
  PROVE  \E L \in SUBSET Tokens : Spared(L)'
<1> DEFINE t == call[x].tok
<1>1. /\ t \in Tokens /\ t \in Issued(row) /\ row[t].spent = "no" /\ mints < MaxMints
      /\ call[x].at = "sent" /\ UNCHANGED <<session, stored, inbox, hour>>
  BY DEF Rotate, Rotates, Usable, Issued
<1>2. PICK s \in Fresh : row' = MarkRotated(Insert(row, s, row[t].family), t, s)
                         /\ call' = Answered(x, Answer(s))
  BY DEF Rotate
<1>3. s \in Tokens \ Issued(row) /\ s # stored.tok /\ s # t /\ s # None
  BY <1>1, <1>2, FreshIsUnknown, NoneAssumption
<1>4. Tab(x, H) /\ Given(row, H) /\ t \notin H /\ (t = stored.tok => SignedIn(x))
  BY <1>1, <1>3, NoneAssumption DEF Spared, Tab
<1> DEFINE L == H \cup {s}
<1>5. /\ row'[t].spent = "grace" /\ row'[t].next = s
      /\ \A u \in Tokens \ {s, t} : row'[u] = row[u]
      /\ \A u \in Tokens \ {s} : row'[u].family = row[u].family /\ row'[u].revoked = row[u].revoked
      /\ row'[s].spent = "no" /\ row'[s].family # None /\ row'[s].revoked = "no"
  <2> DEFINE q == Insert(row, s, row[t].family)
  <2>1. row[t].family \in Tokens /\ row[t].family # None
    BY <1>1, NoneAssumption DEF Typed, Rows, Issued
  <2>2. q \in [Tokens -> Rows]
    BY <1>3, <2>1, RowsAreTyped DEF Typed
  <2>3. /\ \A u \in Tokens \ {s} : q[u] = row[u]
        /\ q[s].family = row[t].family /\ q[s].spent = "no" /\ q[s].revoked = "no"
    <3>1. row \in [Tokens -> Rows] /\ s \in Tokens
      BY <1>3 DEF Typed
    <3>2. ASSUME NEW u \in Tokens
          PROVE  /\ u # s => q[u] = row[u]
                 /\ q[s].family = row[t].family /\ q[s].spent = "no" /\ q[s].revoked = "no"
      BY <2>1, <3>1, InsertedRow
    <3> HIDE DEF q
    <3>3. QED
      BY <3>1, <3>2
  <2> HIDE DEF q
  <2>4. t \in Issued(q) /\ q[t].spent = "no" /\ t \in Tokens \ {s}
    BY <1>1, <1>3, <2>3 DEF Issued
  <2>5. row' = [q EXCEPT ![t] = [q[t] EXCEPT !.spent = "grace", !.next = s]]
    BY <1>2, <2>4 DEF MarkRotated, q
  <2>6. q[t] \in Rows
    BY <2>2, <2>4
  <2>7. /\ \A u \in Tokens \ {t} : row'[u] = q[u]
        /\ row'[t].spent = "grace" /\ row'[t].next = s
        /\ row'[t].family = q[t].family /\ row'[t].revoked = q[t].revoked
    BY <2>2, <2>4, <2>5, <2>6 DEF Rows
  <2>8. QED
    BY <1>3, <2>1, <2>3, <2>4, <2>7
<1>6. Issued(row') = Issued(row) \cup {s}
  BY <1>1, <1>3, <1>5 DEF Issued
<1>7. Given(row', L)
  <2>1. ASSUME NEW u \in L PROVE u \in Issued(row') /\ row'[u].spent = "no"
    <3>1. u = s \/ (u \in H /\ u \in Tokens /\ u \in Issued(row) /\ row[u].spent = "no")
      BY <1>4, <2>1 DEF Given
    <3>2. QED
      BY <1>3, <1>4, <1>5, <1>6, <3>1
  <2>2. ASSUME NEW u \in Tokens
        PROVE  (row'[u].spent = "grace" => row'[u].next \in L) /\ row'[u].revoked # "reuse_detected"
    <3>1. CASE u = s
      BY <1>5, <3>1
    <3>2. CASE u = t
      BY <1>3, <1>4, <1>5, <3>2 DEF Given
    <3>3. CASE u # s /\ u # t
      BY <1>4, <1>5, <3>3 DEF Given
    <3>4. QED
      BY <3>1, <3>2, <3>3
  <2>3. QED
    BY <2>1, <2>2 DEF Given
<1>8. \A u \in Tokens : row'[u].spent = "late" => row[u].spent = "late"
  BY <1>3, <1>5
<1>9. /\ call'[x].at = "answered" /\ call'[x].tok = t /\ call'[x].ans = Answer(s)
      /\ \A y \in Tabs \ {x} : call'[y] = call[y]
  BY <1>2 DEF Answered, Typed, Calls
<1>10. Carried(Answer(s).s, L, hour) /\ Answer(s).kind = "session"
  <2>1. mints + 1 > hour
    BY DEF Typed
  <2>2. QED
    BY <2>1 DEF Answer, Carried, Young
<1>11. L \in {H, H \cup {s}}
  OBVIOUS
<1> HIDE DEF L
<1>12. \A y \in Tabs \ {x} : Tab(y, L)'
  BY <1>1, <1>8, <1>9, <1>11, FreshIsNew
<1>13. Tab(x, L)'
  <2>1. L = H \/ L = H \cup {s}
    BY <1>11
  <2>2. s # session[x].tok /\ \A i \in DOMAIN inbox[x] : s # inbox[x][i].s.tok
    BY <1>2, FreshIsUnknown
  <2>3. /\ Young(session[x], L, hour) /\ Kept(row', session[x].tok)
        /\ \A i \in DOMAIN inbox[x] : Carried(inbox[x][i].s, L, hour)
    <3>1. ASSUME NEW i \in DOMAIN inbox[x] PROVE Carried(inbox[x][i].s, L, hour)
      <4>1. Carried(inbox[x][i].s, H, hour) /\ inbox[x][i].s.tok # s
        BY <1>4, <2>2, <3>1 DEF Tab
      <4>2. QED
        BY <2>1, <4>1 DEF Carried, Young
    <3>2. Young(session[x], H, hour) /\ Kept(row, session[x].tok)
      BY <1>4 DEF Tab
    <3>3. Young(session[x], L, hour)
      BY <2>1, <2>2, <3>2 DEF Young
    <3>4. QED
      BY <1>8, <3>1, <3>2, <3>3 DEF Kept
  <2>4. QED
    BY <1>1, <1>9, <1>10, <2>3 DEF Tab, Parked
<1>14. Storage(L)'
  <2>1. Storage(H) /\ Young(stored, L, hour) /\ Kept(row', stored.tok)
    BY <1>3, <1>8, <1>11 DEF Spared, Storage, Young, Kept
  <2>2. ASSUME stored.tok = t PROVE Replaces(x)'
    BY <1>1, <1>4, <1>9, <1>10, <2>2 DEF Replaces, SignedIn
  <2>3. ASSUME stored.tok # t, stored.tok \in Tokens, row'[stored.tok].spent = "grace"
        PROVE  \E y \in Tabs : Replaces(y)'
    <3>1. row[stored.tok].spent = "grace"
      BY <1>3, <1>5, <2>3
    <3>2. PICK y \in Tabs : Replaces(y)
      BY <2>1, <2>3, <3>1 DEF Storage
    <3>3. y # x
      BY <1>1, <3>2 DEF Replaces
    <3>4. Replaces(y)'
      BY <1>1, <1>9, <3>2, <3>3 DEF Replaces, SignedIn
    <3>5. QED
      BY <3>4
  <2>4. QED
    BY <1>1, <2>1, <2>2, <2>3 DEF Storage
<1>15. L \in SUBSET Tokens
  BY <1>3, <1>11
<1>16. QED
  BY <1>7, <1>12, <1>13, <1>14, <1>15 DEF Spared

LEMMA SignInSpares ==
  ASSUME Typed, NEW H \in SUBSET Tokens, Spared(H), NEW x \in Tabs, SignIn(x)
  PROVE  \E L \in SUBSET Tokens : Spared(L)'
<1>1. /\ mints < MaxMints /\ UNCHANGED <<call, inbox, hour>> /\ mints + 1 > hour
  BY DEF SignIn, Typed
<1>2. PICK s \in Fresh : /\ row' = Insert(row, s, s)
                         /\ session' = [session EXCEPT ![x] = [tok |-> s, exp |-> mints + 1]]
                         /\ stored' = session'[x]
  BY DEF SignIn
<1>3. s \in Tokens \ Issued(row) /\ s # None
  BY <1>2, FreshIsUnknown, NoneAssumption
<1>4. /\ session'[x].tok = s /\ session'[x].exp = mints + 1 /\ stored'.tok = s
      /\ stored'.exp = mints + 1
      /\ \A y \in Tabs \ {x} : session'[y] = session[y]
  BY <1>2 DEF Typed
<1>5. /\ \A u \in Tokens \ {s} : row'[u] = row[u]
      /\ row'[s].family = s /\ row'[s].spent = "no" /\ row'[s].revoked = "no"
  <2> DEFINE q == Insert(row, s, s)
  <2>1. row \in [Tokens -> Rows] /\ s \in Tokens
    BY <1>3 DEF Typed
  <2>2. ASSUME NEW u \in Tokens
        PROVE  /\ u # s => q[u] = row[u]
               /\ q[s].family = s /\ q[s].spent = "no" /\ q[s].revoked = "no"
    BY <2>1, InsertedRow
  <2>3. row' = q
    BY <1>2
  <2> HIDE DEF q
  <2>4. QED
    BY <2>1, <2>2, <2>3
<1>6. Issued(row') = Issued(row) \cup {s}
  BY <1>3, <1>5 DEF Issued
<1>7. Given(row, H) /\ Tab(x, H) /\ H \subseteq Issued(row)
  BY DEF Spared, Given
<1>8. PICK L \in SUBSET Tokens :
        /\ L \in {H, H \cup {s}}
        /\ call[x].at \in {"free", "following"} => s \notin L
        /\ Parked(x) => s \in L
  <2> DEFINE G == IF call[x].at \in {"free", "following"} THEN H ELSE H \cup {s}
  <2>1. /\ G \in {H, H \cup {s}} /\ G \in SUBSET Tokens
        /\ call[x].at \in {"free", "following"} => s \notin G
        /\ Parked(x) => s \in G
    BY <1>3, <1>7 DEF Parked
  <2> HIDE DEF G
  <2>2. QED
    BY <2>1
<1>9. Given(row', L)
  <2>1. ASSUME NEW u \in L PROVE u \in Issued(row') /\ row'[u].spent = "no"
    <3>1. u = s \/ (u \in H /\ u \in Tokens /\ u \in Issued(row) /\ row[u].spent = "no")
      BY <1>7, <1>8, <2>1 DEF Given
    <3>2. QED
      BY <1>3, <1>5, <1>6, <3>1
  <2>2. ASSUME NEW u \in Tokens
        PROVE  (row'[u].spent = "grace" => row'[u].next \in L) /\ row'[u].revoked # "reuse_detected"
    <3>1. CASE u = s
      BY <1>5, <3>1
    <3>2. CASE u # s
      BY <1>5, <1>7, <1>8, <3>2 DEF Given
    <3>3. QED
      BY <3>1, <3>2
  <2>3. QED
    BY <2>1, <2>2 DEF Given
<1>10. \A u \in Tokens : row'[u].spent = "late" => row[u].spent = "late"
  BY <1>3, <1>5
<1>11. ASSUME NEW y \in Tabs \ {x} PROVE Tab(y, L)'
  <2>1. /\ y \in Tabs /\ hour' = hour /\ stored'.tok = s
        /\ session'[y] = session[y] /\ call'[y] = call[y] /\ inbox'[y] = inbox[y]
    BY <1>1, <1>4
  <2>2. s \in Fresh /\ L \in {H, H \cup {s}}
    BY <1>2, <1>8
  <2>3. QED
    BY <1>10, <2>1, <2>2, FreshIsNew
<1>12. Tab(x, L)'
  <2>1. L = H \/ L = H \cup {s}
    BY <1>8
  <2>2. /\ s # call[x].tok /\ s # call[x].ans.s.tok
        /\ \A i \in DOMAIN inbox[x] : s # inbox[x][i].s.tok
    BY <1>2, FreshIsUnknown
  <2>3. ASSUME NEW i \in DOMAIN inbox[x] PROVE Carried(inbox[x][i].s, L, hour)
    <3>1. Carried(inbox[x][i].s, H, hour) /\ inbox[x][i].s.tok # s
      BY <1>7, <2>2, <2>3 DEF Tab
    <3>2. QED
      BY <2>1, <3>1 DEF Carried, Young
  <2>4. Carried(call[x].ans.s, L, hour)
    <3>1. Carried(call[x].ans.s, H, hour)
      BY <1>7 DEF Tab
    <3>2. QED
      BY <2>1, <2>2, <3>1 DEF Carried, Young
  <2>5. Young(session'[x], L, hour) /\ Kept(row', session'[x].tok)
    BY <1>1, <1>4, <1>5 DEF Young, Kept
  <2>6. Parked(x)' => session'[x].tok \in L \cup {None}
    BY <1>1, <1>4, <1>8 DEF Parked
  <2>7. call[x].at = "sent" => /\ call[x].tok \notin L /\ Kept(row', call[x].tok)
                              /\ call[x].tok # stored'.tok
    BY <1>4, <1>7, <1>10, <2>1, <2>2 DEF Tab, Kept
  <2>8. call'[x] = call[x] /\ inbox'[x] = inbox[x] /\ hour' = hour
    BY <1>1
  <2>9. call[x].at \in {"free", "following"} => session'[x].tok \notin L
    BY <1>4, <1>8
  <2>10. QED
    BY <2>3, <2>4, <2>5, <2>6, <2>7, <2>8, <2>9 DEF Tab
<1>13. Storage(L)'
  <2>1. hour' = hour /\ stored'.tok = s /\ stored'.exp > hour /\ row'[s].spent = "no"
    BY <1>1, <1>4, <1>5
  <2>2. QED
    BY <2>1 DEF Storage, Young, Kept
<1>14. QED
  BY <1>8, <1>9, <1>11, <1>12, <1>13 DEF Spared

(* The grace of a token ends: whoever still had it was slow, or asleep.    *)
LEMMA GraceSpares ==
  ASSUME Typed, NEW H \in SUBSET Tokens, Spared(H), NEW t \in Tokens, GraceEnds(t), calm'
  PROVE  Spared(H)'
<1>1. /\ row[t].spent = "grace" /\ UNCHANGED <<session, stored, inbox, call, hour>>
      /\ \A x \in Tabs : t \in {session[x].tok, call[x].tok} => call[x].at = "backoff"
  BY DEF GraceEnds
<1>2. /\ \A u \in Tokens \ {t} : row'[u] = row[u]
      /\ \A u \in Tokens : /\ row'[u].family = row[u].family /\ row'[u].next = row[u].next
                           /\ row'[u].revoked = row[u].revoked
      /\ row'[t].spent = "late"
  <2>1. row' = [row EXCEPT ![t] = [row[t] EXCEPT !.spent = "late"]] /\ row[t] \in Rows
    BY DEF GraceEnds, Typed
  <2>2. QED
    BY <2>1 DEF Typed, Rows
<1>3. Given(row, H) /\ Storage(H) /\ t \notin H /\ t # None /\ \A x \in Tabs : Tab(x, H)
  BY <1>1, NoneAssumption DEF Spared, Given
<1>4. Issued(row') = Issued(row)
  BY <1>2 DEF Issued
<1>5. Given(row', H)
  BY <1>1, <1>2, <1>3, <1>4 DEF Given
<1>6. \A u : Kept(row, u) /\ u # t => Kept(row', u)
  BY <1>2 DEF Kept
<1>7. ASSUME NEW x \in Tabs PROVE Tab(x, H)'
  <2>1. Tab(x, H)
    BY <1>3
  <2>2. session[x].tok # t
    BY <1>1, <1>3, <2>1 DEF Tab, Parked
  <2>3. call[x].at = "sent" => call[x].tok # t
    BY <1>1
  <2>4. QED
    BY <1>1, <1>6, <2>1, <2>2, <2>3 DEF Tab, Parked, SignedIn
<1>8. Storage(H)'
  <2>1. stored.tok # t
    <3>1. ASSUME stored.tok = t PROVE FALSE
      <4>1. PICK x \in Tabs : Replaces(x)
        BY <1>1, <1>3, <3>1 DEF Storage
      <4>2. QED
        BY <1>1, <3>1, <4>1 DEF Replaces
    <3>2. QED
      BY <3>1
  <2>2. \A x \in Tabs : Replaces(x) => Replaces(x)'
    BY <1>1 DEF Replaces, SignedIn
  <2>3. QED
    BY <1>1, <1>2, <1>3, <1>6, <2>1, <2>2 DEF Storage
<1>9. QED
  BY <1>5, <1>7, <1>8 DEF Spared

(* An hour is over, and nothing was under way.                             *)
LEMMA HourSpares ==
  ASSUME Typed, NEW H \in SUBSET Tokens, Spared(H), HourPasses, calm'
  PROVE  Spared({})'
<1>1. /\ UNCHANGED <<row, session, stored, inbox, call>>
      /\ \A t \in Tokens : row[t].spent # "grace"
      /\ \A x \in Tabs : call[x] = Idle /\ inbox[x] = <<>>
  BY DEF HourPasses
<1>2. Idle.at = "idle" /\ Idle.ans = Soft /\ Soft.s = NoSession /\ NoSession.tok = None
  <2>1. {} \in SUBSET Tokens
    OBVIOUS
  <2>2. QED
    BY <2>1, NothingIsCarried
<1>3. \A t \in Tokens : row[t].revoked # "reuse_detected"
  BY DEF Spared, Given
<1>4. Kept(row, stored.tok) /\ \A x \in Tabs : Kept(row, session[x].tok)
  BY DEF Spared, Storage, Tab
<1>5. ASSUME NEW x \in Tabs PROVE Tab(x, {})'
  BY <1>1, <1>2, <1>4 DEF Tab, Parked, Carried, Young
<1>6. Storage({})'
  BY <1>1, <1>4 DEF Storage, Young
<1>7. Given(row', {})
  BY <1>1, <1>3 DEF Given
<1>8. QED
  BY <1>5, <1>6, <1>7 DEF Spared

(* At the start everybody has the same session, and nothing is under way.  *)
LEMMA InitSpares == Init => Honest
<1> SUFFICES ASSUME Init PROVE Spared({})
  <2>1. {} \in SUBSET Tokens
    OBVIOUS
  <2>2. QED
    BY <2>1 DEF Honest
<1>1. PICK t \in Tokens : /\ row = Insert([u \in Tokens |-> NoRow], t, t)
                          /\ stored = [tok |-> t, exp |-> 1]
  BY DEF Init
<1>2. /\ session = [x \in Tabs |-> stored] /\ inbox = [x \in Tabs |-> <<>>]
      /\ call = [x \in Tabs |-> Idle]
  BY DEF Init
<1>3. \A u \in Tokens : row[u].spent = "no" /\ row[u].revoked = "no"
  BY <1>1 DEF Insert, NoRow
<1>4. Idle.at = "idle" /\ Idle.ans = Soft /\ Soft.s = NoSession /\ NoSession.tok = None
  BY DEF Idle, Soft, NoSession
<1>5. ASSUME NEW x \in Tabs PROVE Tab(x, {})
  <2>1. call[x] = Idle /\ inbox[x] = <<>> /\ session[x] = stored
    BY <1>2
  <2>2. QED
    BY <1>3, <1>4, <2>1 DEF Tab, Parked, Carried, Young, Kept
<1>6. Storage({})
  BY <1>3 DEF Storage, Young, Kept
<1>7. Given(row, {})
  BY <1>3 DEF Given
<1>8. QED
  BY <1>5, <1>6, <1>7 DEF Spared

LEMMA NextSpares == Typed /\ Honest /\ [Next]_vars => Honest'
<1> SUFFICES ASSUME Typed, Honest, [Next]_vars, calm', lost' = 0
             PROVE  \E L \in SUBSET Tokens : Spared(L)'
  BY DEF Honest
<1>1. \/ \E x \in Tabs : \/ ReadLock(x) \/ Lead(x) \/ PeerTimeout(x) \/ BackoffEnds(x) \/ Reload(x)
      \/ \E x \in Tabs : HearPeer(x)
      \/ \E x \in Tabs : Receive(x)
      \/ \E x \in Tabs : Refuse(x) \/ Reuse(x) \/ Replay(x)
      \/ \E x \in Tabs : Rotate(x)
      \/ \E x \in Tabs : RotateHalf(x) \/ CallFails(x)
      \/ \E x \in Tabs : SignIn(x)
      \/ \E x \in Tabs : SignOut(x)
      \/ LockExpires \/ UNCHANGED vars
      \/ SetPassword
      \/ HourPasses
      \/ \E t \in Tokens : GraceEnds(t)
  BY DEF Next
<1>2. calm /\ lost = 0
  <2>1. lost \in Nat
    BY BoundsAssumption DEF Typed
  <2>2. lost' = lost \/ lost' = lost + 1
    BY <1>1 DEF vars, Spend, ReadLock, Lead, PeerTimeout, BackoffEnds, Reload, HearPeer, Receive,
       Refuse, Reuse, Replay, Rotate, RotateHalf, CallFails, SignIn, SignOut, LockExpires,
       SetPassword, HourPasses, GraceEnds
  <2>3. calm' => calm
    BY <1>1 DEF vars, ReadLock, Lead, PeerTimeout, BackoffEnds, Reload, HearPeer, Receive,
       Refuse, Reuse, Replay, Rotate, RotateHalf, CallFails, SignIn, SignOut, LockExpires,
       SetPassword, HourPasses, GraceEnds
  <2>4. QED
    BY <2>1, <2>2, <2>3
<1>3. PICK H \in SUBSET Tokens : Spared(H)
  BY <1>2 DEF Honest
<1>4. ASSUME NEW x \in Tabs, RotateHalf(x) \/ CallFails(x) PROVE FALSE
  BY <1>2, <1>4 DEF RotateHalf, CallFails, Spend
<1>5. ASSUME LockExpires \/ UNCHANGED vars PROVE Spared(H)'
  <2>1. UNCHANGED <<row, session, stored, inbox, call, hour>>
    BY <1>5 DEF LockExpires, vars
  <2>2. QED
    BY <1>3, <2>1 DEF Spared, Given, Storage, Tab, Replaces, Parked, SignedIn
<1>6. ASSUME SetPassword PROVE Spared(H)'
  <2>1. row' = RevokeUser(row) /\ UNCHANGED <<session, stored, inbox, call, hour>>
    BY <1>6 DEF SetPassword
  <2>2. Given(row, H)' /\ \A t \in Tokens : row'[t].spent = row[t].spent
    BY <1>3, <2>1, RevokedByUser DEF Spared
  <2> DEFINE M == {}
  <2>3. /\ M \in SUBSET Tabs
        /\ \A y \in M : Tab(y, H)' /\ (Replaces(y) => Replaces(y)')
        /\ \A y \in Tabs \ M : session'[y] = session[y] /\ call'[y] = call[y]
        /\ \A y \in Tabs : \A i \in DOMAIN inbox'[y] : Carried(inbox'[y][i].s, H, hour)
    BY <1>3, <2>1 DEF Spared, Tab
  <2> HIDE DEF M
  <2>4. QED
    BY <1>3, <2>1, <2>2, <2>3, SomeTabsMove
<1>7. ASSUME NEW x \in Tabs, SignOut(x) PROVE Spared(H)'
  BY <1>2, <1>3, <1>7, SignOutSpares
<1>8. ASSUME HourPasses PROVE Spared({})' /\ {} \in SUBSET Tokens
  BY <1>3, <1>8, HourSpares
<1>9. QED
  BY <1>1, <1>3, <1>4, <1>5, <1>6, <1>7, <1>8, TabsSpare, HearSpares, ReceiveSpares, AnswersSpare,
     RotateSpares, SignInSpares, GraceSpares

(* As long as no call fails, nobody refreshes early and nothing takes a    *)
(* minute, no family of tokens is revoked for suspected theft, however many*)
(* tabs refresh it, in whatever order, and however often the page is loaded*)
(* again.                                                                  *)
THEOREM HonestTabsSparedHolds == Spec => []HonestTabsAreSpared
<1>1. TabsInv => Typed
  BY DEF TabsInv
<1>2. Honest => HonestTabsAreSpared
  BY DEF Honest, HonestTabsAreSpared, Spared, Given
<1>3. Spec => []Honest
  BY <1>1, InitSpares, NextSpares, TabsInvariant, PTL DEF Spec
<1>4. QED
  BY <1>2, <1>3, PTL

(* No step gives a session to a tab that has none, except a sign-in of its *)
(* own and loading what is stored; and no message of another tab takes it  *)
(* back to an older one.                                                   *)
THEOREM SessionsMoveOnHolds == Spec => SessionsMoveOn
<1> DEFINE Moves(x) ==
      SignedIn(x)' =>
        /\ ~SignedIn(x) => \/ session'[x] = stored /\ stored' = stored
                           \/ session'[x].tok \notin Issued(row)
        /\ SignedIn(x) /\ session'[x].exp < session[x].exp
             => call[x].at = "answered" \/ session'[x] = stored
<1>1. ASSUME Typed, [Next]_vars, NEW x \in Tabs PROVE Moves(x)
  <2>0. session \in [Tabs -> Sessions] /\ session[x].exp \in Int /\ stored \in Sessions
    BY <1>1 DEF Typed, Sessions
  <2>1. CASE session'[x] = session[x]
    BY <2>0, <2>1 DEF SignedIn
  <2>2. ASSUME HearPeer(x) PROVE Moves(x)
    <3>1. Hears(x, Head(inbox[x]))
      BY <2>2 DEF HearPeer
    <3>2. \/ SignedIn(x) /\ session'[x].exp >= session[x].exp
          \/ session'[x] = NoSession
          \/ session'[x] = session[x]
      BY <2>0, <3>1 DEF Hears, Adopts
    <3>3. Head(inbox[x]) \in Messages
      BY <1>1, <2>2 DEF HearPeer, Typed
    <3>4. Head(inbox[x]).s.exp \in Int
      BY <3>3 DEF Messages, Sessions
    <3>5. \/ SignedIn(x) /\ session'[x] = Head(inbox[x]).s /\ ~(session'[x].exp < session[x].exp)
          \/ session'[x] = NoSession
          \/ session'[x] = session[x]
      BY <2>0, <3>1, <3>4 DEF Hears, Adopts
    <3>6. QED
      BY <2>0, <3>5 DEF SignedIn
  <2>3. ASSUME Receive(x) PROVE Moves(x)
    <3>1. call[x].at = "answered"
      BY <2>3 DEF Receive
    <3>2. ~SignedIn(x) => session'[x] = session[x]
      BY <2>0, <2>3 DEF Receive, Soft
    <3>3. QED
      BY <3>1, <3>2 DEF SignedIn
  <2>4. ASSUME Reload(x) PROVE Moves(x)
    BY <2>0, <2>4 DEF Reload
  <2>5. ASSUME SignIn(x) PROVE Moves(x)
    BY <2>0, <2>5 DEF SignIn, Fresh
  <2>6. ASSUME SignOut(x) PROVE Moves(x)
    BY <2>0, <2>6 DEF SignOut, SignedIn
  <2>7. ASSUME NEW y \in Tabs, y # x,
               HearPeer(y) \/ Receive(y) \/ Reload(y) \/ SignIn(y) \/ SignOut(y)
        PROVE  session'[x] = session[x]
    BY <2>0, <2>7 DEF HearPeer, Hears, Receive, Reload, SignIn, SignOut
  <2>8. ASSUME NEW y \in Tabs,
               \/ ReadLock(y) \/ Lead(y) \/ PeerTimeout(y) \/ BackoffEnds(y)
               \/ Refuse(y) \/ Reuse(y) \/ Replay(y) \/ Rotate(y) \/ RotateHalf(y) \/ CallFails(y)
        PROVE  session' = session
    BY <2>8 DEF ReadLock, Lead, PeerTimeout, BackoffEnds, Refuse, Reuse, Replay, Rotate,
               RotateHalf, CallFails
  <2>9. CASE \/ UNCHANGED vars \/ LockExpires \/ SetPassword \/ HourPasses
             \/ \E t \in Tokens : GraceEnds(t)
    BY <2>1, <2>9 DEF vars, LockExpires, SetPassword, HourPasses, GraceEnds
  <2> HIDE DEF Moves
  <2>10. QED
    BY <1>1, <2>1, <2>2, <2>3, <2>4, <2>5, <2>6, <2>7, <2>8, <2>9 DEF Next
<1>2. TabsInv => Typed
  BY DEF TabsInv
<1>3. Typed /\ [Next]_vars => [\A x \in Tabs : Moves(x)]_vars
  BY <1>1
<1>4. QED
  BY <1>2, <1>3, TabsInvariant, PTL DEF Spec, SessionsMoveOn
=============================================================================
