---------------------------- MODULE RefreshTokens ----------------------------
(***************************************************************************)
(* auth.refresh_tokens and the statements server/local_auth.py runs on it: *)
(* one sign-in starts a family, every refresh appends a generation to it,  *)
(* and a token presented too late or too far behind costs the whole family.*)
(* A family is named by its first token. Each operator that writes is one  *)
(* database transaction: it gives the rows after it from the rows before.  *)
(***************************************************************************)
EXTENDS FiniteSets

CONSTANTS Tokens,   \* what _new_refresh_token may return
          None      \* SQL NULL

ASSUME NoneAssumption == None \notin Tokens

Reasons == {"no", "reuse_detected", "by_user"}

(* spent is rotated_at: NULL, at most _REFRESH_GRACE_SECONDS ago, or longer*)
Rows == [family : Tokens \cup {None}, next : Tokens \cup {None},
         spent : {"no", "grace", "late"}, revoked : Reasons]

NoRow == [family |-> None, next |-> None, spent |-> "no", revoked |-> "no"]

Issued(r) == {t \in Tokens : r[t].family # None}

(* Still worth something to whoever holds it, grace included               *)
Usable(r, t) == t \in Issued(r) /\ r[t].revoked = "no"

Live(r, t) == Usable(r, t) /\ r[t].spent = "no"

Insert(r, t, f) == [r EXCEPT ![t] = [NoRow EXCEPT !.family = f]]

Revoke(r, S, why) ==
  [t \in Tokens |-> IF t \in S /\ r[t].family # None /\ r[t].revoked = "no"
                    THEN [r[t] EXCEPT !.revoked = why] ELSE r[t]]

RevokeFamily(r, t) == Revoke(r, {u \in Tokens : r[u].family = r[t].family}, "reuse_detected")

(* logout and password_change *)
RevokeUser(r) == Revoke(r, Tokens, "by_user")

(* UPDATE ... WHERE token = t AND rotated_at IS NULL                       *)
MarkRotated(r, t, s) ==
  IF t \in Issued(r) /\ r[t].spent = "no"
  THEN [r EXCEPT ![t].spent = "grace", ![t].next = s] ELSE r

-----------------------------------------------------------------------------
(* rotate_refresh_token, as decided by the row that was read               *)
Refused(r, t) == ~Usable(r, t)

(* mutant: a token that was rotated is rotated again                       *)
RotatesAgain(r, t) == Usable(r, t)
Rotates(r, t) == Usable(r, t) /\ r[t].spent = "no"

(* mutant: the grace window is forgotten                                   *)
TheftWithoutGrace(r, t) == Usable(r, t) /\ r[t].spent # "no"

Theft(r, t) ==
  /\ Usable(r, t) /\ r[t].spent # "no"
  /\ \/ r[t].next \notin Issued(r)
     \/ r[r[t].next].spent # "no"
     \/ r[r[t].next].revoked = "no" /\ r[t].spent = "late"

Replays(r, t) ==
  /\ Usable(r, t) /\ r[t].spent = "grace"
  /\ r[t].next \in Issued(r)
  /\ r[r[t].next].spent = "no" /\ r[r[t].next].revoked = "no"

(* What is left: the family died some other way, and nothing more is done. *)
DeadAlready(r, t) == Usable(r, t) /\ r[t].spent # "no" /\ ~Theft(r, t) /\ ~Replays(r, t)
=============================================================================
