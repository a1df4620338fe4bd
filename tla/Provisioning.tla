---------------------------- MODULE Provisioning ----------------------------
(***************************************************************************)
(* Provisioning tokens and what they enroll (enroll/token.go,              *)
(* enroll/service.go): tokens are minted, listed and revoked while callers *)
(* enroll with them and renew what they were given.  A call reads, checks, *)
(* signs and writes in separate steps, so another may fall between them.   *)
(*                                                                         *)
(* The store is two at once: the rows of internal/store, and the double    *)
(* the domain's tests run against (enroll/enrolltest).  Every call is made *)
(* of both; the service goes by the rows' answer.                          *)
(***************************************************************************)
EXTENDS Integers, FiniteSets

CONSTANTS
  Enrollees,        \* callers
  Secrets,          \* token values that may be minted; a token's hash is its value
  Tags,             \* label sets a token may carry
  BadTags,          \* those of them outside the grammar
  Lifetimes,        \* token lifetimes asked for; 0 is the default
  DefaultTokenTTL,
  CredentialTTL,
  RenewGrace,
  MaxWorkloads,     \* bound: workloads enrolled
  MaxClock          \* bound: time

ASSUME ProvisioningAssumption ==
  Lifetimes \subseteq Int /\ DefaultTokenTTL \in Nat /\ CredentialTTL \in Nat /\ RenewGrace \in Nat

VARIABLES
  clock,
  rows,             \* the database: [tokens, workloads]
  double,           \* MemStore: [tokens, workloads]
  calls,            \* caller to its call's locals
  agree             \* whether the two answered the last call alike

provisioningVars == <<clock, rows, double, calls, agree>>

Unset == -1

NoCall == [pc |-> "idle", token |-> "", tok |-> <<>>, at |-> 0, refused |-> FALSE, id |-> 0, until |-> 0]

ProvisioningInit ==
  /\ clock = 0
  /\ rows = [tokens |-> <<>>, workloads |-> <<>>] /\ double = rows
  /\ calls = [c \in Enrollees |-> NoCall] /\ agree = TRUE

Put(f, k, v) == [x \in DOMAIN f \cup {k} |-> IF x = k THEN v ELSE f[x]]

------------------------------------------------------------------------------
(* The rows.                                                               *)

CreateToken(s, t, tok) == [s EXCEPT !.tokens = Put(@, t, tok)]

FindTokenByHash(s, t) == IF t \in DOMAIN s.tokens THEN <<"found", s.tokens[t]>> ELSE <<"unknown", Unset>>

(* The conditioned update, and the number of rows it changed.              *)
RevokeProvisioningToken(s, t, now) ==
  IF t \in DOMAIN s.tokens /\ s.tokens[t].revokedAt = Unset
  THEN <<1, [s EXCEPT !.tokens[t].revokedAt = now]>> ELSE <<0, s>>

(* A second look tells an unknown token from one already revoked.          *)
RevokeAnswer(s, t, now) ==
  IF RevokeProvisioningToken(s, t, now)[1] = 1 THEN "ok" ELSE IF t \in DOMAIN s.tokens THEN "revoked" ELSE "unknown"

RecordProvisioningTokenUse(s, t, now) ==
  [s EXCEPT !.tokens[t].useCount = @ + 1, !.tokens[t].lastUsedAt = now]

(* The workload, its labels and the token's use, in one transaction.       *)
CreateWorkload(s, id, w, now) ==
  RecordProvisioningTokenUse([s EXCEPT !.workloads = Put(@, id, w)], w.token, now)

(* An on-time renewal leaves the late record as it was.                    *)
RecordRenewal(s, id, until, now, late) ==
  IF id \notin DOMAIN s.workloads THEN <<"unknown", s>>
  ELSE IF s.workloads[id].retired THEN <<"retired", s>>
  ELSE <<"ok", [s EXCEPT !.workloads[id].until = until,
                         !.workloads[id].renewedAt = now,
                         !.workloads[id].lateAt = IF late = Unset THEN @ ELSE now,
                         !.workloads[id].lateBy = IF late = Unset THEN @ ELSE late]>>

------------------------------------------------------------------------------
(* The double.                                                             *)

MemRevokeToken(s, t, now) ==
  IF t \notin DOMAIN s.tokens THEN <<"unknown", s>>
  ELSE IF s.tokens[t].revokedAt # Unset THEN <<"revoked", s>>
  ELSE <<"ok", [s EXCEPT !.tokens[t].revokedAt = now]>>

MemFindTokenByHash(s, t) ==
  LET has == {u \in DOMAIN s.tokens : u = t} IN
  IF has = {} THEN <<"unknown", Unset>> ELSE <<"found", s.tokens[CHOOSE u \in has : TRUE]>>

MemCreateWorkload(s, id, w, now) ==
  [s EXCEPT !.workloads = Put(@, id, w), !.tokens[w.token].useCount = @ + 1, !.tokens[w.token].lastUsedAt = now]

MemRecordRenewal(s, id, until, now, late) ==
  IF id \notin DOMAIN s.workloads THEN <<"unknown", s>>
  ELSE IF s.workloads[id].retired THEN <<"retired", s>>
  ELSE LET w == [s.workloads[id] EXCEPT !.until = until, !.renewedAt = now]
       IN  <<"ok", [s EXCEPT !.workloads[id] = IF late = Unset THEN w ELSE [w EXCEPT !.lateAt = now, !.lateBy = late]]>>

------------------------------------------------------------------------------
(* The operator.                                                           *)

(* MintToken; labels outside the grammar are refused.                      *)
MintToken ==
  \E t \in Secrets \ DOMAIN rows.tokens, l \in Tags \ BadTags, ttl \in Lifetimes :
    LET tok == [labels |-> l, createdAt |-> clock, expiresAt |-> clock + (IF ttl <= 0 THEN DefaultTokenTTL ELSE ttl),
                revokedAt |-> Unset, useCount |-> 0, lastUsedAt |-> Unset]
    IN  /\ rows' = CreateToken(rows, t, tok) /\ double' = CreateToken(double, t, tok)
        /\ UNCHANGED <<clock, calls, agree>>

RevokeToken ==
  \E t \in Secrets :
    /\ rows' = RevokeProvisioningToken(rows, t, clock)[2]
    /\ double' = MemRevokeToken(double, t, clock)[2]
    /\ agree' = (RevokeAnswer(rows, t, clock) = MemRevokeToken(double, t, clock)[1])
    /\ UNCHANGED <<clock, calls>>

(* A row minted before the grammar was, by an older release.               *)
OlderToken ==
  \E t \in Secrets \ DOMAIN rows.tokens, l \in BadTags :
    LET tok == [labels |-> l, createdAt |-> clock, expiresAt |-> clock + DefaultTokenTTL,
                revokedAt |-> Unset, useCount |-> 0, lastUsedAt |-> Unset]
    IN  /\ rows.tokens = <<>>
        /\ rows' = CreateToken(rows, t, tok) /\ double' = CreateToken(double, t, tok)
        /\ UNCHANGED <<clock, calls, agree>>

Retire ==
  \E id \in DOMAIN rows.workloads :
    /\ ~rows.workloads[id].retired
    /\ rows' = [rows EXCEPT !.workloads[id].retired = TRUE]
    /\ double' = [double EXCEPT !.workloads[id].retired = TRUE]
    /\ UNCHANGED <<clock, calls, agree>>

------------------------------------------------------------------------------
(* Enrollment.                                                             *)

(* Mutant: a token is refused from the instant after its revocation.       *)
MutCheck(tok, now) ==
  CASE tok.revokedAt # Unset /\ tok.revokedAt < now -> "revoked"
    [] tok.expiresAt <= now -> "expired" [] OTHER -> "ok"

(* Revocation before expiry; each from its own instant on.                 *)
Check(tok, now) ==
  CASE tok.revokedAt # Unset /\ tok.revokedAt <= now -> "revoked"
    [] tok.expiresAt <= now -> "expired" [] OTHER -> "ok"

Return(c) == calls' = [calls EXCEPT ![c] = NoCall]

(* HashToken and the look-up; the call notes whether the token was already *)
(* revoked or spent when its row was read.                                 *)
Enroll(c) ==
  \E t \in Secrets :
    LET found == FindTokenByHash(rows, t) IN
    /\ calls[c].pc = "idle"
    /\ agree' = (found = MemFindTokenByHash(double, t))
    /\ IF found[1] = "unknown" THEN UNCHANGED calls
       ELSE calls' = [calls EXCEPT ![c] = [NoCall EXCEPT
              !.pc = "check", !.token = t, !.tok = found[2],
              !.refused = found[2].revokedAt # Unset \/ clock >= found[2].expiresAt]]
    /\ UNCHANGED <<clock, rows, double>>

(* The clock is read after the row, and the row judged by it.              *)
EnrollChecks(c) ==
  /\ calls[c].pc = "check"
  /\ IF Check(calls[c].tok, clock) # "ok" \/ calls[c].tok.labels \in BadTags THEN Return(c)
     ELSE calls' = [calls EXCEPT ![c] = [calls[c] EXCEPT !.pc = "sign", !.at = clock]]
  /\ UNCHANGED <<clock, rows, double, agree>>

(* The credential is signed and the workload created; either may fail.     *)
EnrollEnds(c) ==
  /\ calls[c].pc = "sign"
  /\ LET k == calls[c]  id == Cardinality(DOMAIN rows.workloads) + 1
         w == [token |-> k.token, labels |-> k.tok.labels, refused |-> k.refused, retired |-> FALSE,
               until |-> clock + CredentialTTL, renewedAt |-> Unset, lateAt |-> Unset, lateBy |-> Unset]
     IN  \/ /\ id <= MaxWorkloads
            /\ rows' = CreateWorkload(rows, id, w, k.at)
            /\ double' = MemCreateWorkload(double, id, w, k.at)
         \/ UNCHANGED <<rows, double>>
  /\ Return(c) /\ UNCHANGED <<clock, agree>>

(* Renew: admitted by the credential presented, refused to a retired       *)
(* workload before anything is signed.                                     *)
Renew(c) ==
  \E id \in DOMAIN rows.workloads :
    LET w == rows.workloads[id] IN
    /\ calls[c].pc = "idle" /\ clock - w.until <= RenewGrace /\ ~w.retired
    /\ calls' = [calls EXCEPT ![c] = [NoCall EXCEPT !.pc = "renew", !.id = id, !.until = w.until]]
    /\ UNCHANGED <<clock, rows, double, agree>>

(* The renewal is recorded, late if the presented credential has expired   *)
(* by now.                                                                 *)
RenewEnds(c) ==
  /\ calls[c].pc = "renew"
  /\ LET k == calls[c]
         late == IF clock > k.until THEN clock - k.until ELSE Unset
         r == RecordRenewal(rows, k.id, clock + CredentialTTL, clock, late)
         d == MemRecordRenewal(double, k.id, clock + CredentialTTL, clock, late)
     IN  rows' = r[2] /\ double' = d[2] /\ agree' = (r[1] = d[1])
  /\ Return(c) /\ UNCHANGED clock

Tick == clock < MaxClock /\ clock' = clock + 1 /\ UNCHANGED <<rows, double, calls, agree>>

ProvisioningNext ==
  \/ MintToken \/ RevokeToken \/ OlderToken \/ Retire \/ Tick
  \/ \E c \in Enrollees : Enroll(c) \/ EnrollChecks(c) \/ EnrollEnds(c) \/ Renew(c) \/ RenewEnds(c)

ProvisioningSpec == ProvisioningInit /\ [][ProvisioningNext]_provisioningVars

------------------------------------------------------------------------------

(* A token's use count is the number of workloads it enrolled, whatever    *)
(* enrollments overlap (CreateWorkload's one transaction, and the count    *)
(* advanced in the database).                                              *)
UsesAreEnrollments ==
  \A t \in DOMAIN rows.tokens :
    rows.tokens[t].useCount = Cardinality({id \in DOMAIN rows.workloads : rows.workloads[id].token = t})

(* Future enrollments with a revoked or expired token are refused: no      *)
(* workload was enrolled by a call that read its token once it was, to the *)
(* instant (Token.Check).  A token revoked while a call that read it       *)
(* earlier is signing still enrolls that call's workload.                  *)
SpentTokenEnrollsNothing == \A id \in DOMAIN rows.workloads : ~rows.workloads[id].refused

(* The double answers every call as the database does and holds the same   *)
(* tokens and workloads, so what the domain's tests show of it holds of    *)
(* the store.                                                              *)
EnrollDoubleAgrees == agree /\ double = rows

(* A provisioning token enrolls what it says: nothing once it is spent,    *)
(* and as many workloads as it counts.                                     *)
TokensAreHonoured == SpentTokenEnrollsNothing /\ UsesAreEnrollments
==============================================================================
