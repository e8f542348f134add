------------------------ MODULE RefreshTokens_proofs ------------------------
(***************************************************************************)
(* Rotation for any number of sessions, tokens and concurrent requests.     *)
(* The invariant says what the row lock gives: from GetForUpdate to the     *)
(* commit the token is live and nobody else can revoke it, and the id that   *)
(* is about to be inserted is still unused.                                 *)
(***************************************************************************)
EXTENDS RefreshTokens, TLAPS

\* The holder of a row is the request between its lock and its commit.
Holder ==
    \A q \in Requests, t \in Tokens :
        lockedBy[t] = q <=>
            req[q].pc \in {"rotate", "commit", "commit_logout"} /\ req[q].token = t

\* A request works on a token that was issued, and rotates only a live one.
TokenKnown ==
    \A q \in Requests :
        /\ req[q].pc # "idle" => req[q].token \in Tokens /\ Issued(req[q].token)
        /\ req[q].pc \in {"rotate", "commit"} => row[req[q].token].status = "live"

\* The successor a request has chosen is nobody else's and not in the table yet.
SuccessorUnused ==
    \A q \in Requests :
        /\ req[q].pc = "commit" <=> req[q].new # NoToken
        /\ req[q].new # NoToken =>
              /\ row[req[q].new].status = "absent"
              /\ \A p \in Requests : req[p].new = req[q].new => p = q

\* Only issued tokens have a session or an ancestor, and the ancestor is revoked.
Ancestry ==
    \A t \in Tokens :
        /\ Issued(t) <=> row[t].session # NoSession
        /\ parent[t] # NoToken => Issued(t) /\ row[parent[t]].status = "revoked"

SessionInv ==
    /\ TypeOK
    /\ Holder
    /\ TokenKnown
    /\ SuccessorUnused
    /\ Ancestry
    /\ ExchangedOnce
    /\ OneLivePerSession
    /\ SessionKept

-----------------------------------------------------------------------------
\* The fields of the rows the statements write.
LEMMA RowFacts ==
  ASSUME NEW r \in Row, NEW t \in Tokens \cup {NoToken}, NEW s \in Sessions
  PROVE  /\ RevokedRow(r, t) \in Row
         /\ RevokedRow(r, t).status = "revoked"
         /\ RevokedRow(r, t).session = r.session
         /\ NewRow(s) \in Row
         /\ NewRow(s).status = "live"
         /\ NewRow(s).session = s
  <1>1. NewRow(s) \in Row
    BY DEF Row, NewRow
  <1> QED
    BY <1>1 DEF Row, RevokedRow, NewRow

\* The empty table.
LEMMA SessionInit == Init => SessionInv
  <1> SUFFICES ASSUME Init PROVE SessionInv
    OBVIOUS
  <1>1. AbsentRow \in Row /\ Idle \in Request
    BY DEF AbsentRow, Row, Idle, Request
  <1>2. TypeOK
    BY <1>1 DEF Init, TypeOK
  <1>3. Holder /\ TokenKnown /\ SuccessorUnused
    BY TokensAssumption DEF Init, Holder, TokenKnown, SuccessorUnused, Idle
  <1>4. Ancestry /\ ExchangedOnce /\ OneLivePerSession /\ SessionKept
    BY TokensAssumption
    DEF Init, Ancestry, ExchangedOnce, OneLivePerSession, SessionKept, Begun, Issued, AbsentRow
  <1> QED
    BY <1>2, <1>3, <1>4 DEF SessionInv

\* Every statement keeps the types.
LEMMA SessionTypes ==
  ASSUME TypeOK, TokenKnown, SuccessorUnused, Ancestry, [Next]_vars
  PROVE  TypeOK'
  <1> USE TokensAssumption
  <1>0. Idle \in Request
    BY DEF Idle, Request
  <1>1. ASSUME NEW q \in Requests, Release(q)
        PROVE  /\ lockedBy' \in [Tokens -> Requests \cup {NoTx}]
               /\ req' \in [Requests -> Request]
    BY <1>0, <1>1 DEF Release, TypeOK
  <1>2. ASSUME NEW s \in Sessions, NEW t \in Tokens, Login(s, t)
        PROVE  TypeOK'
    <2>1. NewRow(s) \in Row
      BY DEF NewRow, Row
    <2> QED
      BY <1>2, <2>1 DEF Login, TypeOK
  <1>3. ASSUME NEW q \in Requests, NEW t \in Tokens, BeginRefresh(q, t) \/ BeginLogout(q, t)
        PROVE  TypeOK'
    BY <1>3 DEF BeginRefresh, Verified, BeginLogout, TypeOK, Request
  <1>4. ASSUME NEW q \in Requests, GetForUpdate(q)
        PROVE  TypeOK'
    <2>1. req[q].token \in Tokens
      BY <1>4 DEF GetForUpdate, TokenKnown
    <2>2. CASE Release(q)
      BY <1>1, <1>4, <2>2 DEF GetForUpdate, TypeOK
    <2>3. CASE /\ lockedBy' = [lockedBy EXCEPT ![req[q].token] = q]
               /\ req' = [req EXCEPT ![q].pc = "rotate"]
      BY <1>4, <2>1, <2>3 DEF GetForUpdate, TypeOK, Request
    <2> QED
      BY <1>4, <2>2, <2>3 DEF GetForUpdate
  <1>5. ASSUME NEW q \in Requests, NEW n \in Tokens, Rotate(q, n)
        PROVE  TypeOK'
    BY <1>5 DEF Rotate, TypeOK, Request
  <1>6. ASSUME NEW q \in Requests, Commit(q)
        PROVE  TypeOK'
    <2>1. req[q].token \in Tokens /\ req[q].new \in Tokens
      BY <1>6 DEF Commit, TokenKnown, SuccessorUnused, TypeOK, Request
    <2>2. row[req[q].token] \in Row /\ row[req[q].token].session \in Sessions
      BY <1>6, <2>1 DEF Commit, TokenKnown, Ancestry, TypeOK, Row
    <2>3. /\ RevokedRow(row[req[q].token], req[q].new) \in Row
          /\ NewRow(row[req[q].token].session) \in Row
      BY <2>1, <2>2, RowFacts
    <2>4. row' \in [Tokens -> Row]
      BY <1>6, <2>1, <2>3 DEF Commit, TypeOK
    <2> QED
      BY <1>1, <1>6, <2>1, <2>4 DEF Commit, TypeOK
  <1>7. ASSUME NEW q \in Requests, LogoutRevoke(q)
        PROVE  TypeOK'
    BY <1>7 DEF LogoutRevoke, TokenKnown, TypeOK, Request
  <1>8. ASSUME NEW q \in Requests, LogoutCommit(q)
        PROVE  TypeOK'
    <2>1. req[q].token \in Tokens
      BY <1>8 DEF LogoutCommit, TokenKnown
    <2>2. row[req[q].token] \in Row /\ row[req[q].token].session \in Sessions
      BY <1>8, <2>1 DEF LogoutCommit, TokenKnown, Ancestry, TypeOK, Row
    <2>3. RevokedRow(row[req[q].token], NoToken) \in Row
      BY <2>2, RowFacts
    <2>4. row' \in [Tokens -> Row]
      BY <1>8, <2>1, <2>3 DEF LogoutCommit, TypeOK
    <2> QED
      BY <1>1, <1>8, <2>2, <2>4 DEF LogoutCommit, TypeOK
  <1>9. ASSUME NEW q \in Requests, Abort(q)
        PROVE  TypeOK'
    BY <1>1, <1>9 DEF Abort, TypeOK
  <1>10. ASSUME NEW t \in Tokens, Expire(t)
         PROVE  TypeOK'
    <2>1. [row[t] EXCEPT !.expired = TRUE] \in Row
      <3>1. row[t] \in Row
        BY DEF TypeOK
      <3> QED
        BY <3>1, Zenon DEF Row
    <2> QED
      BY <1>10, <2>1 DEF Expire, Verified, Issued, TypeOK
  <1>11. CASE UNCHANGED vars
    BY <1>11 DEF vars, TypeOK
  <1> QED
    BY <1>2, <1>3, <1>4, <1>5, <1>6, <1>7, <1>8, <1>9, <1>10, <1>11 DEF Next, Step

\* Every statement keeps the invariant.
LEMMA SessionStep == SessionInv /\ [Next]_vars => SessionInv'
  <1> SUFFICES ASSUME SessionInv, [Next]_vars PROVE SessionInv'
    OBVIOUS
  <1> USE TokensAssumption
  <1>a. /\ TypeOK /\ Holder /\ TokenKnown /\ SuccessorUnused /\ Ancestry
        /\ ExchangedOnce /\ OneLivePerSession /\ SessionKept
    BY DEF SessionInv
  <1>0. TypeOK'
    BY <1>a, SessionTypes
  <1> USE <1>a
  \* A step of a transaction that is not a commit leaves the table alone.
  <1>1. ASSUME UNCHANGED <<row, parent, loggedOut>>
        PROVE  Ancestry' /\ ExchangedOnce' /\ OneLivePerSession' /\ SessionKept'
    BY <1>1 DEF Ancestry, ExchangedOnce, OneLivePerSession, SessionKept, Begun, Issued
  <1>2. ASSUME NEW q \in Requests, NEW t \in Tokens, BeginRefresh(q, t)
        PROVE  SessionInv'
    <2> USE <1>2 DEF BeginRefresh, Verified, TypeOK, Request
    <2>1. UNCHANGED <<row, parent, loggedOut>>
      OBVIOUS
    <2>2. Holder'
      BY DEF Holder, Idle
    <2>3. TokenKnown'
      BY <2>1 DEF TokenKnown, Issued, Idle
    <2>4. SuccessorUnused'
      BY <2>1 DEF SuccessorUnused, Fresh, Issued, Idle
    <2> QED
      BY <1>0, <1>1, <2>1, <2>2, <2>3, <2>4 DEF SessionInv
  <1>3. ASSUME NEW q \in Requests, NEW t \in Tokens, BeginLogout(q, t)
        PROVE  SessionInv'
    <2> USE <1>3 DEF BeginLogout, Verified, TypeOK, Request
    <2>1. UNCHANGED <<row, parent, loggedOut>>
      OBVIOUS
    <2>2. Holder'
      BY DEF Holder, Idle
    <2>3. TokenKnown'
      BY <2>1 DEF TokenKnown, Issued, Idle
    <2>4. SuccessorUnused'
      BY <2>1 DEF SuccessorUnused, Fresh, Issued, Idle
    <2> QED
      BY <1>0, <1>1, <2>1, <2>2, <2>3, <2>4 DEF SessionInv
  <1>4. ASSUME NEW q \in Requests, GetForUpdate(q)
        PROVE  SessionInv'
    <2>1. UNCHANGED <<row, parent, loggedOut>> /\ req[q].token \in Tokens
      BY <1>4 DEF GetForUpdate, TokenKnown
    <2>2. CASE Release(q)
      <3>1. /\ req'[q] = Idle
            /\ \A p \in Requests \ {q} : req'[p] = req[p]
            /\ \A u \in Tokens : lockedBy'[u] = IF lockedBy[u] = q THEN NoTx ELSE lockedBy[u]
        BY <2>2 DEF Release, TypeOK
      <3>2. Holder'
        BY <3>1 DEF Holder, Idle, TypeOK
      <3>3. TokenKnown'
        BY <2>1, <3>1 DEF TokenKnown, Issued, Idle
      <3>4. SuccessorUnused'
        BY <2>1, <3>1 DEF SuccessorUnused, Issued, Idle
      <3> QED
        BY <1>0, <1>1, <2>1, <3>2, <3>3, <3>4 DEF SessionInv
    <2>3. CASE ~Release(q)
      <3>1. /\ req[q].pc = "refresh" /\ lockedBy[req[q].token] = NoTx
            /\ row[req[q].token].status # "revoked"
            /\ lockedBy' = [lockedBy EXCEPT ![req[q].token] = q]
            /\ req' = [req EXCEPT ![q].pc = "rotate"]
        BY <1>4, <2>3 DEF GetForUpdate
      <3>2. /\ req'[q].pc = "rotate" /\ req'[q].token = req[q].token
            /\ req'[q].new = req[q].new
            /\ \A p \in Requests \ {q} : req'[p] = req[p]
        BY <3>1 DEF TypeOK, Request
      <3>3. /\ lockedBy'[req[q].token] = q
            /\ \A u \in Tokens \ {req[q].token} : lockedBy'[u] = lockedBy[u]
        BY <2>1, <3>1 DEF TypeOK
      <3>4. Holder'
        BY <2>1, <3>1, <3>2, <3>3 DEF Holder, TypeOK
      <3>5. TokenKnown'
        BY <2>1, <3>1, <3>2, <3>3 DEF TokenKnown, Issued, TypeOK, Row
      <3>6. SuccessorUnused'
        BY <2>1, <3>1, <3>2 DEF SuccessorUnused, Issued
      <3> QED
        BY <1>0, <1>1, <2>1, <3>4, <3>5, <3>6 DEF SessionInv
    <2> QED
      BY <2>2, <2>3
  <1>5. ASSUME NEW q \in Requests, NEW n \in Tokens, Rotate(q, n)
        PROVE  SessionInv'
    <2> USE <1>5 DEF Rotate, TypeOK, Request
    <2>1. UNCHANGED <<row, parent, loggedOut>>
      OBVIOUS
    <2>2. Holder'
      BY DEF Holder, Idle
    <2>3. TokenKnown'
      BY <2>1 DEF TokenKnown, Issued, Idle
    <2>4. SuccessorUnused'
      BY <2>1 DEF SuccessorUnused, Fresh, Issued, Idle
    <2> QED
      BY <1>0, <1>1, <2>1, <2>2, <2>3, <2>4 DEF SessionInv
  <1>6. ASSUME NEW q \in Requests, LogoutRevoke(q)
        PROVE  SessionInv'
    <2> USE <1>6 DEF LogoutRevoke, TypeOK, Request
    <2>0. req[q].token \in Tokens
      BY DEF TokenKnown
    <2>1. UNCHANGED <<row, parent, loggedOut>>
      OBVIOUS
    <2>2. Holder'
      BY <2>0 DEF Holder, Idle
    <2>3. TokenKnown'
      BY <2>0, <2>1 DEF TokenKnown, Issued, Idle
    <2>4. SuccessorUnused'
      BY <2>0, <2>1 DEF SuccessorUnused, Fresh, Issued, Idle
    <2> QED
      BY <1>0, <1>1, <2>1, <2>2, <2>3, <2>4 DEF SessionInv
  <1>7. ASSUME NEW q \in Requests, Abort(q)
        PROVE  SessionInv'
    <2> USE <1>7 DEF Abort, Release, TypeOK, Request
    <2>1. UNCHANGED <<row, parent, loggedOut>>
      OBVIOUS
    <2>2. Holder'
      BY DEF Holder, Idle
    <2>3. TokenKnown'
      BY <2>1 DEF TokenKnown, Issued, Idle
    <2>4. SuccessorUnused'
      BY <2>1 DEF SuccessorUnused, Fresh, Issued, Idle
    <2> QED
      BY <1>0, <1>1, <2>1, <2>2, <2>3, <2>4 DEF SessionInv
  <1>8. ASSUME NEW s \in Sessions, NEW t \in Tokens, Login(s, t)
        PROVE  SessionInv'
    <2> USE <1>8 DEF Login, TypeOK
    <2>1. /\ row'[t].status = "live" /\ row'[t].session = s
          /\ \A u \in Tokens \ {t} : row'[u] = row[u]
      BY DEF NewRow
    <2>2. Holder' /\ TokenKnown' /\ SuccessorUnused'
      BY <2>1 DEF Holder, TokenKnown, SuccessorUnused, Fresh, Issued
    <2>3. Ancestry' /\ ExchangedOnce'
      BY <2>1 DEF Ancestry, ExchangedOnce, Fresh, Issued
    <2>4. OneLivePerSession'
      BY <2>1 DEF OneLivePerSession, Begun
    <2>5. SessionKept'
      BY <2>1 DEF SessionKept, Begun, Ancestry, Fresh, Issued
    <2> QED
      BY <1>0, <2>2, <2>3, <2>4, <2>5 DEF SessionInv
  <1>9. ASSUME NEW q \in Requests, Commit(q)
        PROVE  SessionInv'
    <2> DEFINE t == req[q].token
               n == req[q].new
    <2>1. /\ t \in Tokens /\ n \in Tokens /\ t # n
          /\ row[t].status = "live" /\ row[n].status = "absent"
          /\ row[t] \in Row /\ row[t].session \in Sessions
      BY <1>9 DEF Commit, TokenKnown, SuccessorUnused, Ancestry, Issued, TypeOK, Request, Row
    <2>2. /\ row'[t].status = "revoked" /\ row'[t].session = row[t].session
          /\ row'[n].status = "live" /\ row'[n].session = row[t].session
          /\ \A u \in Tokens \ {t, n} : row'[u] = row[u]
      BY <1>9, <2>1, RowFacts DEF Commit, TypeOK
    <2>3. /\ parent'[n] = t
          /\ \A u \in Tokens \ {n} : parent'[u] = parent[u]
          /\ loggedOut' = loggedOut
      BY <1>9, <2>1 DEF Commit, TypeOK
    <2>4. /\ req'[q] = Idle
          /\ \A p \in Requests \ {q} : req'[p] = req[p]
          /\ \A u \in Tokens : lockedBy'[u] = IF lockedBy[u] = q THEN NoTx ELSE lockedBy[u]
      BY <1>9 DEF Commit, Release, TypeOK
    <2>5. lockedBy[t] = q
      BY <1>9, <2>1 DEF Commit, Holder
    <2>6. Holder'
      BY <2>4 DEF Holder, Idle, TypeOK
    <2>7. TokenKnown'
      BY <2>1, <2>2, <2>4, <2>5 DEF TokenKnown, Holder, Issued, Idle
    <2>8. SuccessorUnused'
      BY <1>9, <2>1, <2>2, <2>4
      DEF SuccessorUnused, TokenKnown, Issued, Idle, TypeOK, Request, Commit
    <2>9. Ancestry'
      BY <2>1, <2>2, <2>3 DEF Ancestry, Issued, TypeOK
    <2>10. ExchangedOnce'
      BY <2>1, <2>2, <2>3 DEF ExchangedOnce, Ancestry
    <2>11. OneLivePerSession'
      BY <2>1, <2>2 DEF OneLivePerSession
    <2>12. SessionKept'
      BY <2>1, <2>2, <2>3 DEF SessionKept, Begun, Ancestry, Issued
    <2> QED
      BY <1>0, <2>6, <2>7, <2>8, <2>9, <2>10, <2>11, <2>12 DEF SessionInv
  <1>10. ASSUME NEW q \in Requests, LogoutCommit(q)
         PROVE  SessionInv'
    <2> DEFINE t == req[q].token
    <2>1. /\ t \in Tokens /\ Issued(t)
          /\ row[t] \in Row /\ row[t].session \in Sessions
      BY <1>10 DEF LogoutCommit, TokenKnown, Ancestry, TypeOK, Row
    <2>2. /\ row'[t].status = "revoked" /\ row'[t].session = row[t].session
          /\ \A u \in Tokens \ {t} : row'[u] = row[u]
          /\ loggedOut' = loggedOut \cup {row[t].session}
          /\ parent' = parent
      BY <1>10, <2>1, RowFacts DEF LogoutCommit, TypeOK
    <2>3. /\ req'[q] = Idle
          /\ \A p \in Requests \ {q} : req'[p] = req[p]
          /\ \A u \in Tokens : lockedBy'[u] = IF lockedBy[u] = q THEN NoTx ELSE lockedBy[u]
      BY <1>10 DEF LogoutCommit, Release, TypeOK
    <2>4. lockedBy[t] = q
      BY <1>10, <2>1 DEF LogoutCommit, Holder
    <2>5. Holder'
      BY <2>3 DEF Holder, Idle, TypeOK
    <2>6. TokenKnown'
      BY <2>1, <2>2, <2>3, <2>4 DEF TokenKnown, Holder, Issued, Idle
    <2>7. SuccessorUnused'
      BY <1>10, <2>1, <2>2, <2>3
      DEF SuccessorUnused, Issued, Idle, TypeOK, Request, LogoutCommit
    <2>8. Ancestry' /\ ExchangedOnce'
      BY <2>1, <2>2 DEF Ancestry, ExchangedOnce, Issued, TypeOK
    <2>9. OneLivePerSession' /\ SessionKept'
      BY <2>1, <2>2 DEF OneLivePerSession, SessionKept, Begun
    <2> QED
      BY <1>0, <2>5, <2>6, <2>7, <2>8, <2>9 DEF SessionInv
  <1>11. ASSUME NEW t \in Tokens, Expire(t)
         PROVE  SessionInv'
    <2> USE <1>11 DEF Expire, Verified, Issued, TypeOK
    <2>1. \A u \in Tokens : row'[u].status = row[u].status /\ row'[u].session = row[u].session
      BY DEF Row
    <2>2. Holder' /\ TokenKnown' /\ SuccessorUnused'
      BY <2>1 DEF Holder, TokenKnown, SuccessorUnused, Issued, Request
    <2>3. Ancestry' /\ ExchangedOnce' /\ OneLivePerSession' /\ SessionKept'
      BY <2>1 DEF Ancestry, ExchangedOnce, OneLivePerSession, SessionKept, Begun, Issued
    <2> QED
      BY <1>0, <2>2, <2>3 DEF SessionInv
  <1>12. CASE UNCHANGED vars
    BY <1>0, <1>1, <1>12 DEF vars, SessionInv, Holder, TokenKnown, SuccessorUnused, Issued
  <1> QED
    BY <1>2, <1>3, <1>4, <1>5, <1>6, <1>7, <1>8, <1>9, <1>10, <1>11, <1>12 DEF Next, Step

\* The invariant holds in every reachable state.
LEMMA SessionAlways == Spec => []SessionInv
  BY SessionInit, SessionStep, PTL DEF Spec

\* Rows, requests and history keep their types.
THEOREM TokenTypes == Spec => []TypeOK
  BY SessionAlways, PTL DEF SessionInv

\* A refresh token is exchanged once, whoever presents it and how often.
THEOREM RotationIsSingleUse == Spec => []ExchangedOnce
  BY SessionAlways, PTL DEF SessionInv

\* A session has one live token at most.
THEOREM SessionsHaveOneToken == Spec => []OneLivePerSession
  BY SessionAlways, PTL DEF SessionInv

\* A session that was not logged out is never left without a token by a rotation
\* that failed.
THEOREM RotationKeepsTheSession == Spec => []SessionKept
  BY SessionAlways, PTL DEF SessionInv

\* Revocation is final.
THEOREM RevocationIsFinal == Spec => RevokedStays
  <1>1. SessionInv /\ [Next]_vars
          => [\A t \in Tokens : row[t].status = "revoked" => row'[t].status = "revoked"]_vars
    <2> SUFFICES ASSUME SessionInv, [Next]_vars, NEW u \in Tokens, row[u].status = "revoked"
                 PROVE  row'[u].status = "revoked"
      OBVIOUS
    <2> USE TokensAssumption DEF SessionInv, TypeOK
    <2>1. ASSUME NEW s \in Sessions, NEW t \in Tokens, Login(s, t)
          PROVE  row'[u] = row[u]
      BY <2>1 DEF Login, Fresh, Issued
    <2>2. ASSUME NEW q \in Requests, Commit(q)
          PROVE  row'[u].status = "revoked"
      BY <2>2 DEF Commit, TokenKnown, SuccessorUnused, Request, Row, RevokedRow
    <2>3. ASSUME NEW q \in Requests, LogoutCommit(q)
          PROVE  row'[u].status = "revoked"
      BY <2>3 DEF LogoutCommit, TokenKnown, Row, RevokedRow
    <2>4. ASSUME NEW t \in Tokens, Expire(t)
          PROVE  row'[u].status = "revoked"
      BY <2>4 DEF Expire, Row
    <2> QED
      BY <2>1, <2>2, <2>3, <2>4
      DEF Next, Step, BeginRefresh, BeginLogout, GetForUpdate, Rotate, LogoutRevoke, Abort, vars
  <1> QED
    BY <1>1, SessionAlways, PTL DEF Spec, RevokedStays
=============================================================================
