------------------------------ MODULE Operator ------------------------------
(***************************************************************************)
(* The operator surface's doors (api/csrf.go, throttle.go, auth.go,        *)
(* server.go) over the operator domain (operator, authn) and its rows      *)
(* (store/operator.go): the origin guard, the login throttle, and the      *)
(* verification of passwords, sessions and tokens, for requests that run   *)
(* at the same time, a password set from the command line, and the         *)
(* retention sweep.  Each read or write of the store is a step of its own. *)
(* The throttle itself is LoginThrottle.                                   *)
(*                                                                         *)
(* A secret is the number it was issued under, so no two are alike; 0      *)
(* stands for a malformed one, -1 for none.  A request presents secrets    *)
(* that have been issued.  Hashing is injective on secrets.                *)
(***************************************************************************)
EXTENDS Integers, Sequences, FiniteSets, Functions

CONSTANTS
  Callers,          \* connections that carry a request each
  Requests,         \* what is asked: [door, method, site, origin, bearer, cookie, password, target]
  MaxSecrets,       \* bound: sessions and tokens issued
  Passwords,        \* passwords the command line sets
  SessionTTL, TokenTTL,
  MaxInstant,       \* bound: the clock
  MaxArrivals       \* bound: requests of a run

ASSUME OperatorAssumption ==
  /\ SessionTTL \in Nat /\ TokenTTL \in Nat /\ MaxInstant \in Nat \ {0}
  /\ \A r \in Requests : r.bearer \in Int /\ r.cookie \in Int

VARIABLES
  instant,          \* the clock
  operator,         \* the operator row: [password, created, updated], or NoOperator
  sessions,         \* the session rows: [created, expires]
  issued,           \* per secret issued, its form and the instant it stops working at
  tokens,           \* the token rows: [created, expires, revoked, used], 0 for null
  caller,           \* per caller its request's place and what it has read
  sweep,            \* the retention sweep's reading, 0 when none runs
  arrived           \* requests so far

operatorVars == <<instant, operator, sessions, issued, tokens, caller, sweep, arrived>>

NoOperator == [password |-> 0, created |-> 0, updated |-> 0]

Idle == [at |-> "idle", req |-> 0, row |-> 0, barred |-> FALSE, answer |-> "none", err |-> "", cleared |-> FALSE]

-----------------------------------------------------------------------------
(* The statements.                                                         *)

createOperatorSession(id, row) == [x \in DOMAIN sessions \cup {id} |-> IF x = id THEN row ELSE sessions[x]]

deleteOperatorSession(id) == [x \in DOMAIN sessions \ {id} |-> sessions[x]]

deleteExpiredOperatorSessions(now) ==
  [x \in {x \in DOMAIN sessions : sessions[x].expires > now} |-> sessions[x]]

createOperatorToken(id, row) == [x \in DOMAIN tokens \cup {id} |-> IF x = id THEN row ELSE tokens[x]]

recordOperatorTokenUse(id, now) ==
  IF id \in DOMAIN tokens THEN [tokens EXCEPT ![id].used = now] ELSE tokens

revokeOperatorToken(id, now) ==
  IF id \in DOMAIN tokens /\ tokens[id].revoked = 0 THEN [tokens EXCEPT ![id].revoked = now] ELSE tokens

(* The first SetOperator inserts, a later one keeps created_at.            *)
setOperator(password, now) ==
  [password |-> password, updated |-> now,
   created |-> IF operator = NoOperator THEN now ELSE operator.created]

(* Newest first, then by id.                                               *)
listOperatorTokens ==
  LET before(a, b) == tokens[a].created > tokens[b].created
                      \/ (tokens[a].created = tokens[b].created /\ a < b)
  IN [i \in 1..Cardinality(DOMAIN tokens) |->
        CHOOSE x \in DOMAIN tokens : Cardinality({y \in DOMAIN tokens : before(y, x)}) = i - 1]

-----------------------------------------------------------------------------
(* Checks.                                                                 *)

HashSessionID(secret) == IF secret = 0 THEN "malformed" ELSE "digest"

HashToken(secret) == IF secret = 0 THEN "malformed" ELSE "digest"

SessionCheck(row, now) == IF row.expires <= now THEN "expired" ELSE "ok"

(* Mutant: a token works through the instant it was revoked at.            *)
MutTokenCheck(row, now) ==
  IF row.revoked # 0 /\ row.revoked < now THEN "revoked"
  ELSE IF row.expires # 0 /\ row.expires <= now THEN "expired"
  ELSE "ok"

TokenCheck(row, now) ==
  IF row.revoked # 0 /\ row.revoked <= now THEN "revoked"
  ELSE IF row.expires # 0 /\ row.expires <= now THEN "expired"
  ELSE "ok"

crossOrigin(r) ==
  /\ r.method \notin {"GET", "HEAD", "OPTIONS"}
  /\ r.site \notin {"", "same-origin", "none"} \/ r.origin \notin {"", "here"}

publicRoute(r) == r.method = "POST" /\ r.door = "session"

-----------------------------------------------------------------------------
(* A request.                                                              *)

OperatorInit ==
  /\ instant = 1
  /\ operator = NoOperator
  /\ sessions = <<>> /\ issued = <<>> /\ tokens = <<>>
  /\ caller = [c \in Callers |-> Idle]
  /\ sweep = 0 /\ arrived = 0

Goes(c, place) == caller' = [caller EXCEPT ![c].at = place]

Answers(c, answer) == caller' = [caller EXCEPT ![c] = [Idle EXCEPT !.answer = answer]]

Req(c) == caller[c].req

(* Whatever went wrong, the answer is the same and a cookie is cleared.    *)
Refuses(c, err) ==
  caller' = [caller EXCEPT ![c] =
    [Idle EXCEPT !.answer = "unauthenticated", !.err = err, !.cleared = Req(c).cookie # -1]]

(* No credential that works is presented: none was issued in that form, or *)
(* it was ended, revoked or has lapsed.                                    *)
Stands(form, secret) ==
  secret \in DOMAIN issued /\ issued[secret].form = form /\ issued[secret].until > instant

Dead(r) == IF r.bearer # -1 THEN ~Stands("token", r.bearer) ELSE ~Stands("session", r.cookie)

(* The origin guard, then the throttle on the login only.                  *)
Middleware(c) ==
  /\ caller[c].at = "idle" /\ arrived < MaxArrivals
  /\ arrived' = arrived + 1
  /\ \E r \in {r \in Requests : r.bearer <= Len(issued) /\ r.cookie <= Len(issued)} :
       LET place == IF publicRoute(r) THEN "throttle" ELSE "authenticate"
       IN IF crossOrigin(r) THEN Answers(c, "cross-origin")
          ELSE caller' = [caller EXCEPT ![c] =
                 [Idle EXCEPT !.at = place, !.req = r, !.barred = ~publicRoute(r) /\ Dead(r)]]
  /\ UNCHANGED <<issued, instant, operator, sessions, tokens, sweep>>

(* The throttle's verdict on the attempt is LoginThrottle's.               *)
Throttled(c) ==
  /\ caller[c].at = "throttle"
  /\ Answers(c, "too-many-attempts") \/ Goes(c, "password")
  /\ UNCHANGED <<instant, operator, sessions, issued, tokens, sweep, arrived>>

VerifyPassword(c) ==
  /\ caller[c].at = "password"
  /\ IF Req(c).password = 0 THEN Answers(c, "invalid-request")
     ELSE IF operator = NoOperator THEN Answers(c, "no-password")
     ELSE IF operator.password # Req(c).password THEN Answers(c, "invalid-credentials")
     ELSE Goes(c, "principal")
  /\ UNCHANGED <<issued, instant, operator, sessions, tokens, sweep, arrived>>

(* randomSecret draws one that was never drawn before.                     *)
Draw(form, until) ==
  Len(issued) < MaxSecrets /\ issued' = Append(issued, [form |-> form, until |-> until])

Ended(secret) == [issued EXCEPT ![secret].until = 0]

(* A session's expiry is set once, from the clock.                         *)
CreateSession(c) ==
  /\ caller[c].at = "mint" /\ Draw("session", instant + SessionTTL)
  /\ sessions' = createOperatorSession(Len(issued'), [created |-> instant, expires |-> instant + SessionTTL])
  /\ Answers(c, "ok")
  /\ UNCHANGED <<instant, operator, tokens, sweep, arrived>>

(* A bearer token is the credential when there is one, else the cookie.    *)
authenticate(c) ==
  /\ caller[c].at = "authenticate"
  /\ IF Req(c).bearer # -1
     THEN IF HashToken(Req(c).bearer) = "malformed" THEN Refuses(c, "credential") ELSE Goes(c, "token")
     ELSE IF Req(c).cookie = -1 \/ HashSessionID(Req(c).cookie) = "malformed" THEN Refuses(c, "credential") ELSE Goes(c, "session")
  /\ UNCHANGED <<issued, instant, operator, sessions, tokens, sweep, arrived>>

FindOperatorTokenByHash(c) ==
  /\ caller[c].at = "token"
  /\ IF Req(c).bearer \in DOMAIN tokens
     THEN caller' = [caller EXCEPT ![c].at = "use", ![c].row = tokens[Req(c).bearer]]
     ELSE Refuses(c, "credential")
  /\ UNCHANGED <<issued, instant, operator, sessions, tokens, sweep, arrived>>

(* The row read is judged at the instant of use, and the use recorded.     *)
ValidateToken(c) ==
  /\ caller[c].at = "use"
  /\ IF TokenCheck(caller[c].row, instant) = "ok"
     THEN tokens' = recordOperatorTokenUse(Req(c).bearer, instant) /\ Goes(c, "principal")
     ELSE Refuses(c, "credential") /\ UNCHANGED tokens
  /\ UNCHANGED <<issued, instant, operator, sessions, sweep, arrived>>

GetSession(c) ==
  /\ caller[c].at = "session"
  /\ IF Req(c).cookie \in DOMAIN sessions
     THEN caller' = [caller EXCEPT ![c].at = "check", ![c].row = sessions[Req(c).cookie]]
     ELSE Refuses(c, "credential")
  /\ UNCHANGED <<issued, instant, operator, sessions, tokens, sweep, arrived>>

ValidateSession(c) ==
  /\ caller[c].at = "check"
  /\ IF SessionCheck(caller[c].row, instant) = "ok" THEN Goes(c, "principal") ELSE Refuses(c, "credential")
  /\ UNCHANGED <<issued, instant, operator, sessions, tokens, sweep, arrived>>

(* The principal: a display name if there is an operator, none otherwise.  *)
principal(c) ==
  /\ caller[c].at = "principal"
  /\ Goes(c, IF publicRoute(Req(c)) THEN "mint" ELSE "handler")
  /\ UNCHANGED <<issued, instant, operator, sessions, tokens, sweep, arrived>>

-----------------------------------------------------------------------------
(* The handlers behind the doors.                                          *)

getMe(c) ==
  /\ caller[c].at = "handler" /\ Req(c).door = "me"
  /\ Answers(c, "ok")
  /\ UNCHANGED <<issued, instant, operator, sessions, tokens, sweep, arrived>>

(* A logout ends the session the request came with, if it was a session.   *)
EndSession(c) ==
  /\ caller[c].at = "handler" /\ Req(c).door = "session"
  /\ IF Req(c).bearer = -1
     THEN sessions' = deleteOperatorSession(Req(c).cookie) /\ issued' = Ended(Req(c).cookie)
     ELSE UNCHANGED <<sessions, issued>>
  /\ Answers(c, "ok")
  /\ UNCHANGED <<instant, operator, tokens, sweep, arrived>>

mintOperatorToken(c) ==
  /\ caller[c].at = "handler" /\ Req(c).door = "tokens" /\ Req(c).method = "POST"
  /\ \E ttl \in {0, TokenTTL} :
       /\ Draw("token", IF ttl = 0 THEN MaxInstant + 1 ELSE instant + ttl)
       /\ tokens' = createOperatorToken(Len(issued'), [created |-> instant, revoked |-> 0, used |-> 0,
                                          expires |-> IF ttl = 0 THEN 0 ELSE instant + ttl])
  /\ Answers(c, "ok")
  /\ UNCHANGED <<instant, operator, sessions, sweep, arrived>>

revokeToken(c) ==
  LET id == Req(c).target
  IN /\ caller[c].at = "handler" /\ Req(c).door = "tokens" /\ Req(c).method = "DELETE"
     /\ tokens' = revokeOperatorToken(id, instant)
     /\ issued' = IF id \in DOMAIN tokens THEN Ended(id) ELSE issued
     /\ Answers(c, IF id \notin DOMAIN tokens THEN "not-found"
                   ELSE IF tokens[id].revoked # 0 THEN "already-revoked" ELSE "ok")
     /\ UNCHANGED <<instant, operator, sessions, sweep, arrived>>

listTokens(c) ==
  /\ caller[c].at = "handler" /\ Req(c).door = "tokens" /\ Req(c).method = "GET"
  /\ Answers(c, IF IsInjective(listOperatorTokens) THEN "ok" ELSE "torn")
  /\ UNCHANGED <<issued, instant, operator, sessions, tokens, sweep, arrived>>

StoreFails(c) ==
  /\ caller[c].at \in {"password", "mint", "handler"} \/ (caller[c].at = "principal" /\ publicRoute(Req(c)))
  /\ Answers(c, "internal")
  /\ UNCHANGED <<issued, instant, operator, sessions, tokens, sweep, arrived>>

(* An error of the store while authenticating is a refusal too.            *)
AuthenticationFails(c) ==
  /\ caller[c].at \in {"token", "use", "session", "principal"} /\ ~publicRoute(Req(c))
  /\ Refuses(c, "store")
  /\ UNCHANGED <<issued, instant, operator, sessions, tokens, sweep, arrived>>

-----------------------------------------------------------------------------

SetPassword ==
  /\ \E p \in Passwords : p # operator.password /\ operator' = setOperator(p, instant)
  /\ UNCHANGED <<issued, instant, sessions, tokens, caller, sweep, arrived>>

(* A sweep takes its instant once and deletes later.                       *)
BeginSweep ==
  /\ sweep = 0 /\ sessions # <<>> /\ sweep' = instant
  /\ UNCHANGED <<issued, instant, operator, sessions, tokens, caller, arrived>>

PruneSessions ==
  /\ sweep # 0
  /\ sessions' = deleteExpiredOperatorSessions(sweep) /\ sweep' = 0
  /\ UNCHANGED <<issued, instant, operator, tokens, caller, arrived>>

Passes ==
  /\ instant < MaxInstant /\ instant' = instant + 1
  /\ UNCHANGED <<issued, operator, sessions, tokens, caller, sweep, arrived>>

OperatorNext ==
  \/ \E c \in Callers :
       \/ Middleware(c) \/ Throttled(c) \/ VerifyPassword(c) \/ CreateSession(c) \/ authenticate(c)
       \/ FindOperatorTokenByHash(c) \/ ValidateToken(c) \/ GetSession(c) \/ ValidateSession(c)
       \/ principal(c) \/ getMe(c) \/ EndSession(c) \/ mintOperatorToken(c) \/ revokeToken(c)
       \/ listTokens(c) \/ StoreFails(c) \/ AuthenticationFails(c)
  \/ SetPassword \/ BeginSweep \/ PruneSessions \/ Passes

OperatorSpec == OperatorInit /\ [][OperatorNext]_operatorVars

-----------------------------------------------------------------------------

(* A credential that was ended, revoked, expired or never issued when its  *)
(* request arrived opens no handler, whatever logins, mints, revocations   *)
(* and sweeps run beside it.                                               *)
DeadCredentialRefused ==
  \A c \in Callers : caller[c].barred => caller[c].at \notin {"principal", "handler"}

=============================================================================
