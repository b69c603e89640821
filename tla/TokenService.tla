---------------------------- MODULE TokenService ----------------------------
(***************************************************************************)
(* The tokens the management API issues (auth_routes.py, auth.py): an access  *)
(* token, which only its age invalidates, and a refresh token with a row in    *)
(* refresh_tokens, which POST /auth/refresh replaces by a new pair.  The pair  *)
(* number k is access token k and refresh token k.                           *)
(***************************************************************************)
EXTENDS Naturals, Sequences

CONSTANT MaxPairs   \* bound: the pairs that are issued

ASSUME TokenServiceAssumption == MaxPairs \in Nat

VARIABLES
    rows,    \* refresh_tokens: the sign-in a row descends from, and its revoked
    expired  \* the access tokens older than ACCESS_TOKEN_EXPIRE_MINUTES

tokenVars == <<rows, expired>>

Row == [login : Nat, revoked : BOOLEAN]

TokenTypeOK ==
    /\ rows \in Seq(Row)
    /\ Len(rows) <= MaxPairs
    /\ expired \subseteq DOMAIN rows

TokenInit == rows = <<>> /\ expired = {}

-----------------------------------------------------------------------------
(* get_current_user: decode_access_token checks signature and age and never   *)
(* looks at the table.                                                       *)
Accepted(k) == k \in DOMAIN rows \ expired

NewPair == Len(rows) + 1

(* POST /auth/login with the right password.                                 *)
IssueForLogin ==
    /\ Len(rows) < MaxPairs
    /\ rows' = Append(rows, [login |-> NewPair, revoked |-> FALSE])
    /\ UNCHANGED expired

(* POST /auth/refresh, first statement: the row is read without a lock.  The    *)
(* age of a row (expires_at, days) is left out: it outlives the page.         *)
RowIsGood(k) == k \in DOMAIN rows /\ ~rows[k].revoked

(* The rest of it, in one transaction: a row that another request has revoked *)
(* meanwhile is revoked again, and there is a new pair all the same.         *)
Rotate(k) ==
    /\ Len(rows) < MaxPairs
    /\ rows' = Append([rows EXCEPT ![k].revoked = TRUE],
                      [login |-> rows[k].login, revoked |-> FALSE])
    /\ UNCHANGED expired

AccessExpires(k) ==
    /\ expired' = expired \cup {k}
    /\ UNCHANGED rows
=============================================================================
