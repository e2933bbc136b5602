--------------------------- MODULE RefreshTokens ---------------------------
(***************************************************************************)
(* Sign-in and refresh-token rotation of one account (api/routers/auth.py, *)
(* core/security.py).                                                      *)
(*                                                                         *)
(* A sign-in starts a family of tokens, named here by its first one.  A    *)
(* rotation reads its token without a lock, decides, and writes at the     *)
(* commit of its request: the token is marked consumed by primary key and  *)
(* its successor is inserted.  A family is revoked by one UPDATE, in the   *)
(* request's transaction (logout) or in one of its own (reuse).            *)
(* Expiry is not a state: a token that has expired may be refused at any   *)
(* read, which is a request that ends.                                     *)
(***************************************************************************)
EXTENDS Integers, FiniteSets

CONSTANTS
    AuthRequests,  \* requests to the auth router at once
    MaxTokens      \* bound on tokens issued

ASSUME MaxTokensAssumption == MaxTokens \in Nat \ {0}
ASSUME AuthRequestsAssumption == IsFiniteSet(AuthRequests)

VARIABLES
    issued,        \* tokens issued so far: 1 .. issued
    token,         \* Tokens -> its committed row, or NoToken
    authReq        \* AuthRequests -> progress of a handler; `old' is the token
                   \* it rotates, or the family it revokes

tokenVars == <<issued, token, authReq>>

----------------------------------------------------------------------------
Tokens == 1 .. MaxTokens
NoToken == [family |-> 0, parent |-> 0, consumed |-> FALSE, revoked |-> FALSE]
NoAuthReq == [pc |-> "idle", old |-> 0, new |-> 0, held |-> {}]

RefreshTokensTypeOK ==
    /\ issued \in 0 .. MaxTokens
    /\ token \in [Tokens -> [family : 0 .. MaxTokens, parent : 0 .. MaxTokens,
                             consumed : BOOLEAN, revoked : BOOLEAN]]
    /\ authReq \in [AuthRequests ->
                      [pc : {"idle", "signin", "rotate", "reuse", "logout", "revoking"},
                       old : 0 .. MaxTokens, new : 0 .. MaxTokens, held : SUBSET Tokens]]

RefreshTokensInit ==
    /\ issued = 0
    /\ token = [t \in Tokens |-> NoToken]
    /\ authReq = [r \in AuthRequests |-> NoAuthReq]

Known(t) == token[t].family # 0

Family(f) == {t \in Tokens : token[t].family = f}

LiveToken(t) == Known(t) /\ ~token[t].consumed /\ ~token[t].revoked

\* Rotations of token t that have been let through and not committed.
Rotating(t) == {r \in AuthRequests : authReq[r].pc = "rotate" /\ authReq[r].old = t}

\* Rows of an uncommitted logout are locked against every other UPDATE.
LockedToken(t) == \E r \in AuthRequests : t \in authReq[r].held

\* Nothing in family f can ever be exchanged for anything again.
DeadFamily(f) ==
    /\ Family(f) # {}
    /\ \A t \in Family(f) : ~LiveToken(t) /\ Rotating(t) = {}

----------------------------------------------------------------------------
\* signup, or login with the right password: a pair of tokens, a new family.
\* The row is in the request's open transaction.
SignIn(r) ==
    /\ authReq[r].pc = "idle"
    /\ issued < MaxTokens
    /\ issued' = issued + 1
    /\ authReq' = [authReq EXCEPT ![r] = [pc |-> "signin", old |-> 0,
                                          new |-> issued + 1, held |-> {}]]
    /\ UNCHANGED token

\* The request commits and its answer carries a fresh access token.
SignInCommit(r) ==
    /\ authReq[r].pc = "signin"
    /\ LET n == authReq[r].new IN
       /\ token' = [token EXCEPT ![n] = [family |-> n, parent |-> 0,
                                         consumed |-> FALSE, revoked |-> FALSE]]
    /\ authReq' = [authReq EXCEPT ![r] = NoAuthReq]
    /\ UNCHANGED issued

\* A bug Accepted could have: the consumed mark is not looked at.
AcceptedUnrevoked(t) == ~token[t].revoked

\* Another one: the revoked mark is not looked at.
AcceptedUnconsumed(t) == ~token[t].consumed

\* What refresh_token wants of the row it read.
Accepted(t) == ~token[t].consumed /\ ~token[t].revoked

\* refresh_token lets the token through and prepares its successor.
RotateRead(r, t) ==
    /\ authReq[r].pc = "idle"
    /\ Known(t) /\ Accepted(t)
    /\ issued < MaxTokens
    /\ issued' = issued + 1
    /\ authReq' = [authReq EXCEPT ![r] = [pc |-> "rotate", old |-> t,
                                          new |-> issued + 1, held |-> {}]]
    /\ UNCHANGED token

\* The commit: no look at the old row again, whatever happened to it since.
RotateCommit(r) ==
    /\ authReq[r].pc = "rotate"
    /\ LET t == authReq[r].old
           n == authReq[r].new IN
       /\ ~LockedToken(t)
       /\ token' = [token EXCEPT ![t].consumed = TRUE,
                                 ![n] = [family |-> token[t].family, parent |-> t,
                                         consumed |-> FALSE, revoked |-> FALSE]]
    /\ authReq' = [authReq EXCEPT ![r] = NoAuthReq]
    /\ UNCHANGED issued

\* A consumed token is presented: it has leaked, or a client retried.
ReuseDetected(r, t) ==
    /\ authReq[r].pc = "idle"
    /\ token[t].consumed
    /\ authReq' = [authReq EXCEPT ![r] = [pc |-> "reuse", old |-> token[t].family,
                                          new |-> 0, held |-> {}]]
    /\ UNCHANGED <<issued, token>>

\* UPDATE ... WHERE family_id = f AND revoked_at IS NULL.
Unrevoked(f) == {t \in Family(f) : ~token[t].revoked}

RevokeTokens(ts) == token' = [t \in Tokens |-> IF t \in ts THEN [token[t] EXCEPT !.revoked = TRUE]
                                               ELSE token[t]]

\* _revoke_family, in a transaction of its own so that the 401 that follows
\* does not roll it back.
RevokeFamily(r) ==
    /\ authReq[r].pc = "reuse"
    /\ LET ts == Unrevoked(authReq[r].old) IN
       /\ \A t \in ts : ~LockedToken(t)
       /\ RevokeTokens(ts)
    /\ authReq' = [authReq EXCEPT ![r] = NoAuthReq]
    /\ UNCHANGED issued

\* logout finds the token, whatever its state.
LogoutRead(r, t) ==
    /\ authReq[r].pc = "idle"
    /\ Known(t)
    /\ authReq' = [authReq EXCEPT ![r] = [pc |-> "logout", old |-> token[t].family,
                                          new |-> 0, held |-> {}]]
    /\ UNCHANGED <<issued, token>>

\* Its UPDATE sees, and locks, the rows committed by now.
LogoutUpdate(r) ==
    /\ authReq[r].pc = "logout"
    /\ LET ts == Unrevoked(authReq[r].old) IN
       /\ \A t \in ts : ~LockedToken(t)
       /\ authReq' = [authReq EXCEPT ![r].pc = "revoking", ![r].held = ts]
    /\ UNCHANGED <<issued, token>>

LogoutCommit(r) ==
    /\ authReq[r].pc = "revoking"
    /\ RevokeTokens(authReq[r].held)
    /\ authReq' = [authReq EXCEPT ![r] = NoAuthReq]
    /\ UNCHANGED issued

\* Answered without effect, rolled back, or the process is lost.
AuthReqEnds(r) ==
    /\ authReq[r].pc # "idle"
    /\ authReq' = [authReq EXCEPT ![r] = NoAuthReq]
    /\ UNCHANGED <<issued, token>>

RefreshTokensNext ==
    \/ \E r \in AuthRequests : \/ SignIn(r) \/ SignInCommit(r) \/ RotateCommit(r)
                               \/ RevokeFamily(r) \/ LogoutUpdate(r) \/ LogoutCommit(r)
                               \/ AuthReqEnds(r)
    \/ \E r \in AuthRequests, t \in Tokens :
          RotateRead(r, t) \/ ReuseDetected(r, t) \/ LogoutRead(r, t)

RefreshTokensSpec == RefreshTokensInit /\ [][RefreshTokensNext]_tokenVars

----------------------------------------------------------------------------
(* Properties.                                                             *)

\* A token is exchanged once, unless its exchanges overlapped: whatever the
\* order of commits, reuses and logouts, its successors and the rotations
\* still open are no more than the requests that can run at once.
ForksNeedOverlap ==
    \A t \in Tokens :
        Cardinality({n \in Tokens : token[n].parent = t}) + Cardinality(Rotating(t))
            <= Cardinality(AuthRequests)

\* After a logout or a detected reuse, once no rotation that read the family
\* before it is still open, no token of the family is ever accepted again.
DeadFamilyStaysDead == [][\A f \in Tokens : DeadFamily(f) => DeadFamily(f)']_tokenVars
============================================================================
