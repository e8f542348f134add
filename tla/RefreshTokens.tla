---------------------------- MODULE RefreshTokens ----------------------------
(***************************************************************************)
(* Sessions: refresh-token rotation (handlers/auth.go Login, SignUp,        *)
(* Refresh, Logout; refresh_tokens.go).                                     *)
(*                                                                         *)
(* Refresh and Logout each run one PostgreSQL transaction.  What it wrote   *)
(* is visible from its commit on; the row lock it takes (SELECT ... FOR     *)
(* UPDATE, or the UPDATE itself) is held until then.  A client may present  *)
(* any token it was ever given, however old, and several times at once: two *)
(* tabs, a repeated request, a replay.                                      *)
(***************************************************************************)
EXTENDS Naturals, FiniteSets

CONSTANTS
    Tokens,     \* token ids (jti), fresh UUIDs
    Sessions,   \* sign-ups and logins
    Requests,   \* Refresh and Logout requests in progress
    MaxFaults,  \* bound: transactions that fail
    NoToken, NoSession, NoTx

ASSUME TokensAssumption ==
    /\ MaxFaults \in Nat
    /\ NoToken \notin Tokens
    /\ NoSession \notin Sessions
    /\ NoTx \notin Requests

VARIABLES
    row,        \* the table refresh_tokens
    lockedBy,   \* for each row the transaction that holds it, or NoTx
    req,        \* where each request is: what it was given and what it will issue
    parent,     \* history: the token each token was exchanged for
    loggedOut,  \* history: sessions in which a Logout was committed
    faults

vars == <<row, lockedBy, req, parent, loggedOut, faults>>

Row == [status : {"absent", "live", "revoked"}, expired : BOOLEAN,
        session : Sessions \cup {NoSession}, replaced_by : Tokens \cup {NoToken}]

AbsentRow == [status |-> "absent", expired |-> FALSE, session |-> NoSession,
              replaced_by |-> NoToken]

Request == [pc : {"idle", "refresh", "rotate", "commit", "logout", "commit_logout"},
            token : Tokens \cup {NoToken}, new : Tokens \cup {NoToken}]

Idle == [pc |-> "idle", token |-> NoToken, new |-> NoToken]

TypeOK ==
    /\ row \in [Tokens -> Row]
    /\ lockedBy \in [Tokens -> Requests \cup {NoTx}]
    /\ req \in [Requests -> Request]
    /\ parent \in [Tokens -> Tokens \cup {NoToken}]
    /\ loggedOut \subseteq Sessions
    /\ faults \in Nat

Init ==
    /\ row = [t \in Tokens |-> AbsentRow]
    /\ lockedBy = [t \in Tokens |-> NoTx]
    /\ req = [q \in Requests |-> Idle]
    /\ parent = [t \in Tokens |-> NoToken]
    /\ loggedOut = {}
    /\ faults = 0

-----------------------------------------------------------------------------
Issued(t) == row[t].status # "absent"

\* A UUID nobody has used or is about to use.
Fresh(t) == ~Issued(t) /\ \A q \in Requests : req[q].new # t

\* VerifyRefreshToken: the signature is good, so the token was issued, and the token's
\* own expiry has not passed.
Verified(t) == Issued(t) /\ ~row[t].expired

Begun(s) == \E t \in Tokens : row[t].session = s

NewRow(s) == [status |-> "live", expired |-> FALSE, session |-> s, replaced_by |-> NoToken]

\* Revoke: UPDATE ... SET revoked_at = NOW(), replaced_by = $2 WHERE id = $1,
\* whatever the row says.
RevokedRow(r, t) == [r EXCEPT !.status = "revoked", !.replaced_by = t]

\* The deferred Rollback, or the commit, gives up the row.
Release(q) ==
    /\ lockedBy' = [t \in Tokens |-> IF lockedBy[t] = q THEN NoTx ELSE lockedBy[t]]
    /\ req' = [req EXCEPT ![q] = Idle]

\* SignUp and Login: storeRefreshToken inserts the first token of a session in a
\* transaction of its own.
Login(s, t) ==
    /\ ~Begun(s)
    /\ Fresh(t)
    /\ row' = [row EXCEPT ![t] = NewRow(s)]
    /\ UNCHANGED <<lockedBy, req, parent, loggedOut, faults>>

(* Refresh.                                                                 *)

BeginRefresh(q, t) ==
    /\ req[q].pc = "idle"
    /\ Verified(t)
    /\ req' = [req EXCEPT ![q] = [pc |-> "refresh", token |-> t, new |-> NoToken]]
    /\ UNCHANGED <<row, lockedBy, parent, loggedOut, faults>>

GetWithoutLock(q) ==
    LET t == req[q].token IN
    /\ req[q].pc = "refresh"
    /\ IF row[t].status = "revoked" \/ row[t].expired
       THEN Release(q)
       ELSE /\ req' = [req EXCEPT ![q].pc = "rotate"]
            /\ UNCHANGED lockedBy
    /\ UNCHANGED <<row, parent, loggedOut, faults>>

\* GetForUpdate waits for the row; a token that is revoked or expired by then is
\* refused.
GetForUpdate(q) ==
    LET t == req[q].token IN
    /\ req[q].pc = "refresh"
    /\ lockedBy[t] = NoTx
    /\ IF row[t].status = "revoked" \/ row[t].expired
       THEN Release(q)
       ELSE /\ lockedBy' = [lockedBy EXCEPT ![t] = q]
            /\ req' = [req EXCEPT ![q].pc = "rotate"]
    /\ UNCHANGED <<row, parent, loggedOut, faults>>

RotateOutsideTx(q, n) ==
    /\ req[q].pc = "rotate"
    /\ Fresh(n)
    /\ req' = [req EXCEPT ![q].pc = "commit", ![q].new = n]
    /\ row' = [row EXCEPT ![req[q].token] = RevokedRow(@, n)]
    /\ UNCHANGED <<lockedBy, parent, loggedOut, faults>>

\* GenerateRefreshToken, Revoke of the old token, Create of the new one: writes
\* nobody else sees before the commit.
Rotate(q, n) ==
    /\ req[q].pc = "rotate"
    /\ Fresh(n)
    /\ req' = [req EXCEPT ![q].pc = "commit", ![q].new = n]
    /\ UNCHANGED <<row, lockedBy, parent, loggedOut, faults>>

Commit(q) ==
    LET t == req[q].token
        n == req[q].new
    IN
    /\ req[q].pc = "commit"
    /\ row' = [row EXCEPT ![t] = RevokedRow(@, n), ![n] = NewRow(row[t].session)]
    /\ parent' = [parent EXCEPT ![n] = t]
    /\ Release(q)
    /\ UNCHANGED <<loggedOut, faults>>

(* Logout.                                                                  *)

BeginLogout(q, t) ==
    /\ req[q].pc = "idle"
    /\ Verified(t)
    /\ req' = [req EXCEPT ![q] = [pc |-> "logout", token |-> t, new |-> NoToken]]
    /\ UNCHANGED <<row, lockedBy, parent, loggedOut, faults>>

\* The UPDATE waits for the row and locks it.
LogoutRevoke(q) ==
    LET t == req[q].token IN
    /\ req[q].pc = "logout"
    /\ lockedBy[t] = NoTx
    /\ lockedBy' = [lockedBy EXCEPT ![t] = q]
    /\ req' = [req EXCEPT ![q].pc = "commit_logout"]
    /\ UNCHANGED <<row, parent, loggedOut, faults>>

\* Only the token presented is revoked, and its replaced_by is cleared.
LogoutCommit(q) ==
    LET t == req[q].token IN
    /\ req[q].pc = "commit_logout"
    /\ row' = [row EXCEPT ![t] = RevokedRow(@, NoToken)]
    /\ loggedOut' = loggedOut \cup {row[t].session}
    /\ Release(q)
    /\ UNCHANGED <<parent, faults>>

\* A statement or a commit fails, the 3 s timeout passes or the process ends: the
\* transaction is rolled back.  Logout answers 204 all the same.
Abort(q) ==
    /\ req[q].pc # "idle"
    /\ faults < MaxFaults
    /\ faults' = faults + 1
    /\ Release(q)
    /\ UNCHANGED <<row, parent, loggedOut>>

\* expires_at passes.
Expire(t) ==
    /\ Verified(t)
    /\ row' = [row EXCEPT ![t].expired = TRUE]
    /\ UNCHANGED <<lockedBy, req, parent, loggedOut, faults>>

-----------------------------------------------------------------------------
Step(q) ==
    \/ GetForUpdate(q)
    \/ \E n \in Tokens : Rotate(q, n)
    \/ Commit(q)
    \/ LogoutRevoke(q)
    \/ LogoutCommit(q)

Next ==
    \/ \E s \in Sessions, t \in Tokens : Login(s, t)
    \/ \E q \in Requests :
          \/ \E t \in Tokens : BeginRefresh(q, t) \/ BeginLogout(q, t)
          \/ Step(q)
          \/ Abort(q)
    \/ \E t \in Tokens : Expire(t)

Spec == Init /\ [][Next]_vars

-----------------------------------------------------------------------------
(* Properties.                                                              *)

\* "Refresh rotation uses a transaction + row lock ... to prevent reuse": a token is
\* exchanged for one successor, however often and by however many requests it is
\* presented.
ExchangedOnce ==
    \A t, u \in Tokens : parent[t] = parent[u] /\ parent[t] # NoToken => t = u

\* A session never has two tokens that would both be accepted.
OneLivePerSession ==
    \A t, u \in Tokens :
        row[t].status = "live" /\ row[u].status = "live" /\ row[t].session = row[u].session
            => t = u

\* A rotation that fails half-way does not end the session: until it is logged out
\* it has a token that is not revoked.
SessionKept ==
    \A s \in Sessions :
        Begun(s) /\ s \notin loggedOut
            => \E t \in Tokens : row[t].session = s /\ row[t].status = "live"

\* A token that was revoked is never accepted again, nor forgotten.
RevokedStays ==
    [][\A t \in Tokens : row[t].status = "revoked" => row'[t].status = "revoked"]_vars
=============================================================================
