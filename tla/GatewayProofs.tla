--------------------------- MODULE GatewayProofs ---------------------------
(***************************************************************************)
(* What is proved of the doors agents come in by, for any number of        *)
(* agents, tokens, streams and replicas.  The registry of streams          *)
(* (StreamRegistry): it agrees with the handlers, a replica has one stream *)
(* of a workload, only another replica marks a live stream offline, and    *)
(* so, when there is one replica, no live stream is recorded offline.      *)
(* Enrollment (Provisioning): tokens enroll what they say, and the store   *)
(* the domain's tests run on answers as the database does.                 *)
(***************************************************************************)
EXTENDS StreamRegistry, Provisioning, FiniteSetTheorems, TLAPS

-----------------------------------------------------------------------------
(* The registry of streams.                                                *)

\* No stream was opened: the types hold.
LEMMA TypeInit == Init => TypeOK
BY RegistryAssumption DEF Init, TypeOK

\* Every step keeps the types.
LEMMA TypeStep == TypeOK /\ [Next]_vars => TypeOK'
<1> SUFFICES ASSUME TypeOK, [Next]_vars PROVE TypeOK'
  OBVIOUS
<1> USE DEF TypeOK
<1>1. ASSUME NEW s \in Streams, Dial(s) \/ End(s) \/ Issue(s) \/ Write(s) PROVE TypeOK'
  BY <1>1 DEF Dial, End, Issue, Write, Land, Drop
<1>2. ASSUME NEW s \in Streams, Handler(s) PROVE TypeOK'
  <2>1. CASE Add(s)
    <3>1. ended' \in [Streams -> BOOLEAN]
      BY <2>1 DEF Add
    <3>2. live' \in [Replicas -> Streams \cup {NoStream}]
      BY <2>1 DEF Add
    <3> QED BY <2>1, <3>1, <3>2 DEF Add
  <2>2. CASE AddAbandoned(s) \/ RecordPending(s) \/ MarkOffline(s) \/ Marked(s)
    BY <2>2 DEF AddAbandoned, RecordPending, MarkOffline, Marked
  <2>3. CASE Remove(s)
    BY <2>3 DEF Remove
  <2> QED BY <1>2, <2>1, <2>2, <2>3 DEF Handler
<1>3. CASE Hangup
  BY <1>3 DEF Hangup
<1>4. ASSUME NEW r \in Replicas, Crash(r) PROVE TypeOK'
  BY <1>4 DEF Crash
<1>5. CASE UNCHANGED vars
  BY <1>5 DEF vars
<1> QED BY <1>1, <1>2, <1>3, <1>4, <1>5 DEF Next

\* An empty registry agrees with no handlers.
LEMMA AgreesInit == Init => RegistryAgrees
BY RegistryAssumption DEF Init, RegistryAgrees, Registered

\* Every step of a handler, and a crash, keep registry and handlers in
\* agreement.
LEMMA AgreesStep == TypeOK /\ RegistryAgrees /\ [Next]_vars => RegistryAgrees'
<1> SUFFICES ASSUME TypeOK, RegistryAgrees, [Next]_vars PROVE RegistryAgrees'
  OBVIOUS
<1> USE RegistryAssumption DEF TypeOK, RegistryAgrees, Registered
<1>1. ASSUME NEW s \in Streams, Dial(s) PROVE RegistryAgrees'
  BY <1>1 DEF Dial
<1>2. ASSUME NEW s \in Streams, End(s) PROVE RegistryAgrees'
  BY <1>2 DEF End
<1>3. ASSUME NEW s \in Streams, Issue(s) \/ Write(s) PROVE RegistryAgrees'
  BY <1>3 DEF Issue, Write, Land, Drop
<1>4. ASSUME NEW s \in Streams, Add(s) PROVE RegistryAgrees'
  <2>1. /\ pc' = [pc EXCEPT ![s] = "opening"] /\ live' = [live EXCEPT ![home[s]] = s]
        /\ UNCHANGED <<home, marking>> /\ marking[home[s]] = NoStream /\ pc[s] = "hello"
    BY <1>4 DEF Add
  <2>2. ASSUME NEW t \in Streams, Registered(t)', ~ended'[t] PROVE live'[home'[t]] = t
    <3>1. CASE t = s
      BY <2>1, <3>1
    <3>2. CASE t # s
      <4>1. Registered(t) /\ ~ended[t]
        BY <1>4, <2>1, <2>2, <3>2 DEF Add
      <4>2. live[home[t]] = t
        BY <4>1
      <4>3. home[t] # home[s]
        BY <1>4, <2>2, <4>2 DEF Add
      <4> QED BY <2>1, <4>2, <4>3
    <3> QED BY <3>1, <3>2
  <2>3. ASSUME NEW r \in Replicas, live'[r] # NoStream
        PROVE  home'[live'[r]] = r /\ pc'[live'[r]] \in {"opening", "streaming"}
    <3>1. CASE r = home[s]
      BY <2>1, <3>1
    <3>2. CASE r # home[s]
      <4>1. live'[r] = live[r] /\ live[r] \in Streams
        BY <2>1, <2>3, <3>2
      <4>2. home[live[r]] = r /\ pc[live[r]] \in {"opening", "streaming"}
        BY <2>3, <4>1
      <4> QED BY <2>1, <4>1, <4>2
    <3> QED BY <3>1, <3>2
  <2>4. \A t \in Streams : pc'[t] \in {"marking", "marked"} => marking'[home'[t]] = t
    BY <2>1
  <2>5. \A r \in Replicas : marking'[r] # NoStream =>
           live'[r] = NoStream /\ home'[marking'[r]] = r /\ pc'[marking'[r]] \in {"marking", "marked"}
    BY <2>1
  <2> QED BY <2>2, <2>3, <2>4, <2>5, Zenon
<1>5. ASSUME NEW s \in Streams, AddAbandoned(s) \/ RecordPending(s) \/ MarkOffline(s)
      PROVE  RegistryAgrees'
  BY <1>5 DEF AddAbandoned, RecordPending, MarkOffline
<1>6. ASSUME NEW s \in Streams, Remove(s) PROVE RegistryAgrees'
  <2>1. CASE live[home[s]] = s
    BY <1>6, <2>1 DEF Remove
  <2>2. CASE live[home[s]] # s
    BY <1>6, <2>2 DEF Remove
  <2> QED BY <2>1, <2>2
<1>7. ASSUME NEW s \in Streams, Marked(s) PROVE RegistryAgrees'
  BY <1>7 DEF Marked
<1>8. CASE Hangup
  BY <1>8 DEF Hangup
<1>9. ASSUME NEW r \in Replicas, Crash(r) PROVE RegistryAgrees'
  <2>1. \A s \in Streams : home[s] = r => pc'[s] \in {"idle", "done"}
    BY <1>9 DEF Crash
  <2>2. \A s \in Streams : home[s] # r => pc'[s] = pc[s] /\ ended'[s] = ended[s]
    BY <1>9 DEF Crash
  <2>3. /\ UNCHANGED home /\ live' = [live EXCEPT ![r] = NoStream]
        /\ marking' = [marking EXCEPT ![r] = NoStream]
    BY <1>9 DEF Crash
  <2> QED BY <2>1, <2>2, <2>3
<1>10. CASE UNCHANGED vars
  BY <1>10 DEF vars
<1> QED BY <1>1, <1>2, <1>3, <1>4, <1>5, <1>6, <1>7, <1>8, <1>9, <1>10 DEF Next, Handler

\* The registry and the handlers agree, whatever streams of the workload end,
\* are superseded or crash with their replica.
THEOREM RegistryCorrect == Spec => [](TypeOK /\ RegistryAgrees)
<1>1. Init => TypeOK /\ RegistryAgrees
  BY TypeInit, AgreesInit
<1>2. TypeOK /\ RegistryAgrees /\ [Next]_vars => (TypeOK /\ RegistryAgrees)'
  BY TypeStep, AgreesStep
<1> QED BY <1>1, <1>2, PTL DEF Spec

\* A replica has at most one stream of the workload that has not ended.
THEOREM OneStream == Spec => []OneStreamPerReplica
<1>1. RegistryAgrees => OneStreamPerReplica
  BY DEF RegistryAgrees, OneStreamPerReplica
<1> QED BY <1>1, RegistryCorrect, PTL

\* Only a stream of another replica marks a live stream offline: on its own
\* replica the workload is held while a mark is written, and a stream that has
\* not ended is registered.
THEOREM MarksComeFromElsewhere == Spec => MarkedOnlyFromElsewhere
<1>1. ASSUME TypeOK, RegistryAgrees, [Next]_vars,
             NEW s \in Streams, pc[s] = "streaming", ~ended[s], state = "ONLINE", state' = "OFFLINE"
      PROVE  \E t \in Streams : MarkOffline(t) /\ home[t] # home[s]
  <2>1. \E t \in Streams : MarkOffline(t)
    BY <1>1 DEF Next, Handler, Write, Dial, End, Issue, Land, Drop, Hangup, Add, AddAbandoned,
                RecordPending, Remove, Marked, Crash, vars
  <2>2. PICK t \in Streams : MarkOffline(t)
    BY <2>1
  <2>3. live[home[s]] = s
    BY <1>1 DEF RegistryAgrees, Registered
  <2>4. marking[home[t]] = t
    BY <1>1, <2>2 DEF MarkOffline, RegistryAgrees
  <2>5. live[home[t]] = NoStream
    BY <1>1, <2>4, RegistryAssumption DEF RegistryAgrees, TypeOK
  <2>6. home[t] # home[s]
    BY <2>3, <2>5, RegistryAssumption
  <2> QED BY <2>2, <2>6
<1>2. TypeOK /\ RegistryAgrees /\ [Next]_vars =>
        [\A s \in Streams :
            pc[s] = "streaming" /\ ~ended[s] /\ state = "ONLINE" /\ state' = "OFFLINE"
                => \E t \in Streams : MarkOffline(t) /\ home[t] # home[s]]_vars
  BY <1>1
<1> QED BY <1>2, RegistryCorrect, PTL DEF Spec, MarkedOnlyFromElsewhere

-----------------------------------------------------------------------------
(* One replica.                                                            *)

\* A stream that is open and has not ended has its PENDING recorded, and no
\* offline mark was written since.
OpenIsOnline == \A s \in Streams : pc[s] = "streaming" /\ ~ended[s] => state = "ONLINE"

\* Every step keeps an open stream recorded online, when the only replica's
\* store does not fail.
LEMMA OnlineStep ==
    ASSUME \A a, b \in Replicas : a = b, ~StoreFails
    PROVE  TypeOK /\ RegistryAgrees /\ OpenIsOnline /\ [Next]_vars => OpenIsOnline'
<1> SUFFICES ASSUME TypeOK, RegistryAgrees, OpenIsOnline, [Next]_vars PROVE OpenIsOnline'
  OBVIOUS
<1> USE DEF TypeOK, OpenIsOnline
<1>1. ASSUME NEW s \in Streams, MarkOffline(s) PROVE OpenIsOnline'
  <2>1. marking[home[s]] = s /\ pc[s] = "marking"
    BY <1>1 DEF MarkOffline, RegistryAgrees
  <2>2. live[home[s]] = NoStream
    BY <2>1, RegistryAssumption DEF RegistryAgrees
  <2>3. \A t \in Streams : ~(pc[t] = "streaming" /\ ~ended[t])
    BY <2>2, RegistryAssumption DEF RegistryAgrees, Registered
  <2> QED BY <1>1, <2>3 DEF MarkOffline
<1>2. ASSUME NEW s \in Streams,
             \/ Dial(s) \/ End(s) \/ Issue(s) \/ Write(s) \/ AddAbandoned(s)
             \/ RecordPending(s) \/ Remove(s) \/ Marked(s)
      PROVE  OpenIsOnline'
  BY <1>2 DEF Dial, End, Issue, Write, Land, Drop, AddAbandoned, RecordPending, Remove, Marked
<1>3. ASSUME NEW s \in Streams, Add(s) PROVE OpenIsOnline'
  <2>1. \A t \in Streams : ~ended'[t] => ~ended[t]
    BY <1>3 DEF Add
  <2> QED BY <1>3, <2>1 DEF Add
<1>4. CASE Hangup \/ UNCHANGED vars
  BY <1>4 DEF Hangup, vars
<1>5. ASSUME NEW r \in Replicas, Crash(r) PROVE OpenIsOnline'
  BY <1>5 DEF Crash
<1> QED BY <1>1, <1>2, <1>3, <1>4, <1>5 DEF Next, Handler

\* With one replica and a store that does not fail, the offline mark of an
\* ended stream never lands on a newer live stream: what the marking map of
\* type sessions is for.
THEOREM LiveNotOffline ==
    ASSUME \A a, b \in Replicas : a = b, ~StoreFails
    PROVE  Spec => []LiveIsNotOffline
<1>1. Init => OpenIsOnline
  BY DEF Init, OpenIsOnline
<1>2. TypeOK /\ RegistryAgrees /\ OpenIsOnline /\ [Next]_vars => OpenIsOnline'
  BY OnlineStep
<1>3. OpenIsOnline => LiveIsNotOffline
  BY DEF OpenIsOnline, LiveIsNotOffline
<1> QED BY <1>1, <1>2, <1>3, RegistryCorrect, PTL DEF Spec

-----------------------------------------------------------------------------
(* The provisioning tokens.                                                *)

TokenFields == {"labels", "expiresAt", "revokedAt", "useCount", "lastUsedAt"}

WorkloadFields == {"token", "refused", "retired", "until", "renewedAt", "lateAt", "lateBy"}

WorkloadRow(w) == WorkloadFields \subseteq DOMAIN w /\ w = [x \in DOMAIN w |-> w[x]]

\* A token that was revoked, was so by now.
Minted(tok, now) ==
  /\ TokenFields \subseteq DOMAIN tok
  /\ tok.expiresAt \in Int /\ tok.useCount \in Nat
  /\ tok.revokedAt = Unset \/ (tok.revokedAt \in Nat /\ tok.revokedAt <= now)

\* The workloads a token enrolled.
Enrolled(ws, t) == {id \in DOMAIN ws : ws[id].token = t}

TokensStand(toks, now) ==
  toks = [t \in DOMAIN toks |-> toks[t]] /\ \A t \in DOMAIN toks : Minted(toks[t], now)

\* Workloads are numbered as they come, each by a token on the books that was
\* good when the call began.
WorkloadsStand(ws, toks) ==
  /\ ws = [id \in DOMAIN ws |-> ws[id]] /\ \E n \in Nat : DOMAIN ws = 1..n
  /\ \A id \in DOMAIN ws :
        /\ WorkloadRow(ws[id])
        /\ ws[id].token \in DOMAIN toks /\ ~ws[id].refused

UsesCounted(toks, ws) == \A t \in DOMAIN toks : toks[t].useCount = Cardinality(Enrolled(ws, t))

\* A row that was read revoked or expired is so by now and ever after.
Spent(tok, now) ==
  \/ tok.revokedAt # Unset /\ tok.revokedAt \in Nat /\ tok.revokedAt <= now
  \/ tok.expiresAt \in Int /\ tok.expiresAt <= now

\* A call holds a token on the books: one that goes on to sign, a good one, and
\* one that is still to check, a row spent by now if it was spent when read.
Enrolling(k, toks, now) ==
  /\ {"pc", "token", "tok", "at", "refused", "id", "until"} \subseteq DOMAIN k
  /\ k = [x \in DOMAIN k |-> k[x]]
  /\ k.pc = "check" => k.token \in DOMAIN toks /\ (k.refused => Spent(k.tok, now))
  /\ k.pc = "sign" => k.token \in DOMAIN toks /\ ~k.refused

ProvisioningInv ==
  /\ clock \in Nat
  /\ rows = [tokens |-> rows.tokens, workloads |-> rows.workloads]
  /\ TokensStand(rows.tokens, clock) /\ WorkloadsStand(rows.workloads, rows.tokens)
  /\ UsesCounted(rows.tokens, rows.workloads)
  /\ calls = [c \in Enrollees |-> calls[c]]
  /\ \A c \in Enrollees : Enrolling(calls[c], rows.tokens, clock)

\* The same tokens remain on the books, with whatever uses and revocations.
LEMMA TokensRemain ==
  ASSUME ProvisioningInv, DOMAIN rows.tokens \subseteq DOMAIN rows.tokens'
  PROVE  /\ \A c \in Enrollees : Enrolling(calls[c], rows.tokens', clock)
         /\ WorkloadsStand(rows.workloads, rows.tokens')
BY DEF ProvisioningInv, Enrolling, WorkloadsStand

\* A token is put on the books before any workload names it.
LEMMA PutToken ==
  ASSUME ProvisioningInv, NEW t, t \notin DOMAIN rows.tokens, NEW tok, Minted(tok, clock),
         tok.useCount = 0, rows' = CreateToken(rows, t, tok), UNCHANGED <<clock, calls>>
  PROVE  ProvisioningInv'
<1>1. /\ rows' = [tokens |-> rows'.tokens, workloads |-> rows'.workloads]
      /\ rows'.workloads = rows.workloads /\ rows'.tokens = Put(rows.tokens, t, tok)
  BY DEF ProvisioningInv, CreateToken
<1>2. /\ DOMAIN rows'.tokens = DOMAIN rows.tokens \cup {t} /\ rows'.tokens[t] = tok
      /\ \A u \in DOMAIN rows.tokens : rows'.tokens[u] = rows.tokens[u]
      /\ rows'.tokens = [u \in DOMAIN rows'.tokens |-> rows'.tokens[u]]
  BY <1>1 DEF Put
<1>3. TokensStand(rows'.tokens, clock)
  BY <1>2 DEF ProvisioningInv, TokensStand
<1>4. Enrolled(rows.workloads, t) = {}
  BY DEF Enrolled, ProvisioningInv, WorkloadsStand
<1>5. UsesCounted(rows'.tokens, rows.workloads)
  BY <1>2, <1>4, FS_EmptySet DEF ProvisioningInv, UsesCounted
<1> QED BY <1>1, <1>2, <1>3, <1>5, TokensRemain DEF ProvisioningInv

\* A token is revoked; its uses stay as they were.
LEMMA RevokeStep == ASSUME ProvisioningInv, RevokeToken PROVE ProvisioningInv'
<1>1. PICK t \in Secrets : rows' = RevokeProvisioningToken(rows, t, clock)[2] /\ UNCHANGED <<clock, calls>>
  BY DEF RevokeToken
<1>2. CASE rows' = rows
  BY <1>1, <1>2 DEF ProvisioningInv
<1>3. CASE t \in DOMAIN rows.tokens /\ rows' = [rows EXCEPT !.tokens[t].revokedAt = clock]
  <2> DEFINE tok == [rows.tokens[t] EXCEPT !.revokedAt = clock]
  <2>1. /\ rows' = [tokens |-> rows'.tokens, workloads |-> rows'.workloads]
        /\ rows'.workloads = rows.workloads /\ rows'.tokens = [rows.tokens EXCEPT ![t] = tok]
    BY <1>3 DEF ProvisioningInv
  <2>2. Minted(tok, clock) /\ tok.useCount = rows.tokens[t].useCount
    <3>1. Minted(rows.tokens[t], clock) /\ clock \in Nat
      BY <1>3 DEF ProvisioningInv, TokensStand
    <3> QED BY <3>1 DEF Minted, TokenFields
  <2> HIDE DEF tok
  <2>3. /\ DOMAIN rows'.tokens = DOMAIN rows.tokens /\ rows'.tokens[t] = tok
        /\ \A u \in DOMAIN rows.tokens : u # t => rows'.tokens[u] = rows.tokens[u]
        /\ rows'.tokens = [u \in DOMAIN rows'.tokens |-> rows'.tokens[u]]
    BY <1>3, <2>1 DEF ProvisioningInv, TokensStand
  <2>4. TokensStand(rows'.tokens, clock)
    BY <2>2, <2>3 DEF ProvisioningInv, TokensStand
  <2>5. UsesCounted(rows'.tokens, rows.workloads)
    BY <2>2, <2>3 DEF ProvisioningInv, UsesCounted
  <2> QED BY <1>1, <2>1, <2>3, <2>4, <2>5, TokensRemain DEF ProvisioningInv
<1> QED BY <1>1, <1>2, <1>3 DEF RevokeProvisioningToken

\* A workload's row changes, and neither its token nor how it came.
LEMMA WorkloadChanges ==
  ASSUME ProvisioningInv, NEW id \in DOMAIN rows.workloads, NEW w,
         WorkloadRow(w), w.token = rows.workloads[id].token,
         w.refused = rows.workloads[id].refused,
         rows' = [tokens |-> rows.tokens, workloads |-> [rows.workloads EXCEPT ![id] = w]]
  PROVE  /\ rows' = [tokens |-> rows'.tokens, workloads |-> rows'.workloads]
         /\ rows'.tokens = rows.tokens
         /\ WorkloadsStand(rows'.workloads, rows.tokens) /\ UsesCounted(rows.tokens, rows'.workloads)
<1>1. /\ rows' = [tokens |-> rows'.tokens, workloads |-> rows'.workloads]
      /\ rows'.tokens = rows.tokens /\ rows'.workloads = [rows.workloads EXCEPT ![id] = w]
  OBVIOUS
<1>2. /\ DOMAIN rows'.workloads = DOMAIN rows.workloads /\ rows'.workloads[id] = w
      /\ \A x \in DOMAIN rows.workloads : x # id => rows'.workloads[x] = rows.workloads[x]
      /\ rows'.workloads = [x \in DOMAIN rows'.workloads |-> rows'.workloads[x]]
  BY <1>1 DEF ProvisioningInv, WorkloadsStand
<1>3. WorkloadsStand(rows'.workloads, rows.tokens)
  BY <1>2, Zenon DEF ProvisioningInv, WorkloadsStand
<1>4. \A t : Enrolled(rows'.workloads, t) = Enrolled(rows.workloads, t)
  BY <1>2 DEF Enrolled
<1> QED BY <1>1, <1>3, <1>4 DEF ProvisioningInv, UsesCounted

\* A call returns, or takes up k, in a step that keeps the tokens.
LEMMA CallTakes ==
  ASSUME ProvisioningInv, NEW c \in Enrollees, NEW k, calls' = [calls EXCEPT ![c] = k],
         DOMAIN rows.tokens \subseteq DOMAIN rows.tokens', Enrolling(k, rows.tokens', clock)
  PROVE  /\ calls' = [d \in Enrollees |-> calls'[d]]
         /\ \A d \in Enrollees : Enrolling(calls'[d], rows.tokens', clock)
BY TokensRemain DEF ProvisioningInv

LEMMA Returned == ASSUME NEW toks, NEW now PROVE Enrolling(NoCall, toks, now)
BY DEF Enrolling, NoCall

\* Enrollment reads a row whose revocation, if any, is not later than now.
LEMMA EnrollStep == ASSUME ProvisioningInv, NEW c \in Enrollees, Enroll(c) PROVE ProvisioningInv'
<1>1. PICK t \in Secrets :
        LET found == FindTokenByHash(rows, t) IN
        /\ IF found[1] = "unknown" THEN UNCHANGED calls
           ELSE calls' = [calls EXCEPT ![c] = [NoCall EXCEPT
                  !.pc = "check", !.token = t, !.tok = found[2],
                  !.refused = found[2].revokedAt # Unset \/ clock >= found[2].expiresAt]]
        /\ UNCHANGED <<clock, rows>>
  BY Zenon DEF Enroll
<1>2. CASE UNCHANGED calls
  BY <1>1, <1>2 DEF ProvisioningInv
<1>3. CASE ~UNCHANGED calls
  <2> DEFINE tok == rows.tokens[t]
             refused == tok.revokedAt # Unset \/ clock >= tok.expiresAt
             call(b) == [NoCall EXCEPT !.pc = "check", !.token = t, !.tok = tok, !.refused = b]
  <2>1. t \in DOMAIN rows.tokens
    BY <1>1, <1>3 DEF FindTokenByHash
  <2>2. calls' = [calls EXCEPT ![c] = call(refused)]
    BY <1>1, <1>3, <2>1, Zenon DEF FindTokenByHash
  <2>3. Minted(tok, clock) /\ clock \in Nat
    BY <2>1 DEF ProvisioningInv, TokensStand
  <2>4. refused => Spent(tok, clock)
    BY <2>3 DEF Spent, Minted
  <2>5. \A b : (b => Spent(tok, clock)) => Enrolling(call(b), rows.tokens, clock)
    BY <2>1 DEF Enrolling, NoCall
  <2> HIDE DEF call, refused
  <2>6. Enrolling(call(refused), rows.tokens, clock)
    BY <2>4, <2>5
  <2> QED BY <1>1, <2>2, <2>6, CallTakes DEF ProvisioningInv
<1> QED BY <1>2, <1>3

\* A row that was spent when it was read is refused: the clock only goes on.
LEMMA EnrollChecksStep == ASSUME ProvisioningInv, NEW c \in Enrollees, EnrollChecks(c) PROVE ProvisioningInv'
<1> DEFINE k == calls[c]
           call == [k EXCEPT !.pc = "sign", !.at = clock]
<1>1. UNCHANGED <<clock, rows>> /\ k.pc = "check"
  BY DEF EnrollChecks
<1>2. CASE calls' = [calls EXCEPT ![c] = NoCall]
  BY <1>1, <1>2, CallTakes, Returned DEF ProvisioningInv
<1>3. CASE calls' = [calls EXCEPT ![c] = call] /\ Check(k.tok, clock) = "ok"
  <2>1. Enrolling(k, rows.tokens, clock) /\ clock \in Nat
    BY DEF ProvisioningInv
  <2>2. ~Spent(k.tok, clock)
    BY <1>3, <2>1 DEF Check, Spent
  <2>3. k.token \in DOMAIN rows.tokens /\ ~k.refused
    BY <1>1, <2>1, <2>2 DEF Enrolling
  <2>4. /\ DOMAIN call = DOMAIN k /\ call = [x \in DOMAIN call |-> call[x]]
        /\ call.pc = "sign" /\ call.token = k.token /\ call.refused = k.refused
    BY <2>1 DEF Enrolling
  <2> HIDE DEF call
  <2>5. Enrolling(call, rows.tokens, clock)
    BY <2>1, <2>3, <2>4 DEF Enrolling
  <2> QED BY <1>1, <1>3, <2>5, CallTakes DEF ProvisioningInv
<1> QED BY <1>2, <1>3, Zenon DEF EnrollChecks, Return

\* One transaction enrolls the workload and counts the token's use.
LEMMA CreateWorkloadStep ==
  ASSUME ProvisioningInv, NEW t \in DOMAIN rows.tokens, NEW w, NEW now,
         WorkloadRow(w), w.token = t, ~w.refused,
         rows' = CreateWorkload(rows, Cardinality(DOMAIN rows.workloads) + 1, w, now)
  PROVE  /\ rows' = [tokens |-> rows'.tokens, workloads |-> rows'.workloads]
         /\ DOMAIN rows'.tokens = DOMAIN rows.tokens
         /\ TokensStand(rows'.tokens, clock) /\ WorkloadsStand(rows'.workloads, rows'.tokens)
         /\ UsesCounted(rows'.tokens, rows'.workloads)
<1> DEFINE ws == rows.workloads
           id == Cardinality(DOMAIN ws) + 1
           tok == [rows.tokens[t] EXCEPT !.useCount = @ + 1, !.lastUsedAt = now]
<1>1. PICK n \in Nat : DOMAIN ws = 1..n
  BY DEF ProvisioningInv, WorkloadsStand
<1>2. id = n + 1 /\ id \notin DOMAIN ws /\ DOMAIN ws \cup {id} = 1..(n + 1) /\ n + 1 \in Nat
  <2>1. Cardinality(1..n) = n
    BY FS_Interval
  <2> QED BY <1>1, <2>1
<1> HIDE DEF id
<1>3. /\ rows' = [tokens |-> rows'.tokens, workloads |-> rows'.workloads]
      /\ rows'.workloads = Put(ws, id, w) /\ rows'.tokens = [rows.tokens EXCEPT ![t] = tok]
  BY Zenon DEF ProvisioningInv, CreateWorkload, RecordProvisioningTokenUse, id, TokensStand
<1>4. Minted(tok, clock) /\ tok.useCount = rows.tokens[t].useCount + 1
  <2>1. Minted(rows.tokens[t], clock)
    BY DEF ProvisioningInv, TokensStand
  <2> QED BY <2>1 DEF Minted, TokenFields
<1> HIDE DEF tok
<1>5. /\ DOMAIN rows'.tokens = DOMAIN rows.tokens /\ rows'.tokens[t] = tok
      /\ \A u \in DOMAIN rows.tokens : u # t => rows'.tokens[u] = rows.tokens[u]
      /\ rows'.tokens = [u \in DOMAIN rows'.tokens |-> rows'.tokens[u]]
  BY <1>3 DEF ProvisioningInv, TokensStand
<1>6. TokensStand(rows'.tokens, clock)
  BY <1>4, <1>5 DEF ProvisioningInv, TokensStand
<1>7. /\ DOMAIN rows'.workloads = DOMAIN ws \cup {id} /\ rows'.workloads[id] = w
      /\ \A x \in DOMAIN ws : rows'.workloads[x] = ws[x]
      /\ rows'.workloads = [x \in DOMAIN rows'.workloads |-> rows'.workloads[x]]
  BY <1>2, <1>3 DEF Put
<1>8. WorkloadsStand(rows'.workloads, rows'.tokens)
  <2>1. ASSUME NEW x \in DOMAIN ws
        PROVE  WorkloadRow(ws[x]) /\ ws[x].token \in DOMAIN rows.tokens /\ ~ws[x].refused
    BY DEF ProvisioningInv, WorkloadsStand
  <2>2. ASSUME NEW x \in DOMAIN rows'.workloads
        PROVE  /\ WorkloadRow(rows'.workloads[x])
               /\ rows'.workloads[x].token \in DOMAIN rows'.tokens /\ ~rows'.workloads[x].refused
    BY <1>5, <1>7, <2>1
  <2>3. \E m \in Nat : DOMAIN rows'.workloads = 1..m
    BY <1>2, <1>7, Zenon
  <2> QED BY <1>7, <2>2, <2>3 DEF WorkloadsStand
<1>9. ASSUME NEW u \in DOMAIN rows.tokens
      PROVE  rows'.tokens[u].useCount = Cardinality(Enrolled(rows'.workloads, u))
  <2>1. IsFiniteSet(Enrolled(ws, u)) /\ id \notin Enrolled(ws, u)
    <3>1. IsFiniteSet(DOMAIN ws) /\ Enrolled(ws, u) \subseteq DOMAIN ws
      BY <1>1, FS_Interval DEF Enrolled
    <3> QED BY <1>2, <3>1, FS_Subset
  <2>2. rows.tokens[u].useCount = Cardinality(Enrolled(ws, u))
    BY DEF ProvisioningInv, UsesCounted
  <2>3. CASE u = t
    <3>1. Enrolled(rows'.workloads, u) = Enrolled(ws, u) \cup {id}
      BY <1>2, <1>7, <2>3 DEF Enrolled
    <3>2. Cardinality(Enrolled(ws, u) \cup {id}) = Cardinality(Enrolled(ws, u)) + 1
      BY <2>1, FS_AddElement
    <3> QED BY <1>4, <1>5, <2>2, <2>3, <3>1, <3>2, Zenon
  <2>4. CASE u # t
    <3>1. Enrolled(rows'.workloads, u) = Enrolled(ws, u)
      BY <1>2, <1>7, <2>4 DEF Enrolled
    <3> QED BY <1>5, <2>2, <2>4, <3>1
  <2> QED BY <2>3, <2>4
<1> QED BY <1>3, <1>5, <1>6, <1>8, <1>9 DEF UsesCounted

LEMMA EnrollEndsStep == ASSUME ProvisioningInv, NEW c \in Enrollees, EnrollEnds(c) PROVE ProvisioningInv'
<1>1. calls[c].pc = "sign" /\ calls' = [calls EXCEPT ![c] = NoCall] /\ UNCHANGED clock
  BY Zenon DEF EnrollEnds, Return
<1>2. CASE UNCHANGED rows
  BY <1>1, <1>2, CallTakes, Returned DEF ProvisioningInv
<1>3. CASE ~UNCHANGED rows
  <2> DEFINE k == calls[c]
             workload(b, r) ==
               [token |-> k.token, labels |-> k.tok.labels, refused |-> b, retired |-> r,
                until |-> clock + CredentialTTL, renewedAt |-> Unset, lateAt |-> Unset, lateBy |-> Unset]
  <2>1. k.token \in DOMAIN rows.tokens /\ ~k.refused
    BY <1>1 DEF ProvisioningInv, Enrolling
  <2>2. rows' = CreateWorkload(rows, Cardinality(DOMAIN rows.workloads) + 1, workload(k.refused, FALSE), k.at)
    BY <1>3, Zenon DEF EnrollEnds
  <2>3. \A b, r : WorkloadRow(workload(b, r)) /\ workload(b, r).token = k.token /\ workload(b, r).refused = b
    BY Zenon DEF WorkloadRow, WorkloadFields
  <2> HIDE DEF workload
  <2>4. /\ WorkloadRow(workload(k.refused, FALSE)) /\ workload(k.refused, FALSE).token = k.token
        /\ ~workload(k.refused, FALSE).refused
    BY <2>1, <2>3, Zenon
  <2>5. /\ rows' = [tokens |-> rows'.tokens, workloads |-> rows'.workloads]
        /\ DOMAIN rows'.tokens = DOMAIN rows.tokens
        /\ TokensStand(rows'.tokens, clock) /\ WorkloadsStand(rows'.workloads, rows'.tokens)
        /\ UsesCounted(rows'.tokens, rows'.workloads)
    BY <2>1, <2>2, <2>4, CreateWorkloadStep, Zenon
  <2> QED BY <1>1, <2>5, CallTakes, Returned DEF ProvisioningInv
<1> QED BY <1>2, <1>3

\* A renewal and a retirement rewrite a workload's row.
LEMMA RenewEndsStep == ASSUME ProvisioningInv, NEW c \in Enrollees, RenewEnds(c) PROVE ProvisioningInv'
<1> DEFINE id == calls[c].id
           until == clock + CredentialTTL
           late == IF clock > calls[c].until THEN clock - calls[c].until ELSE Unset
           w == rows.workloads[id]
           v == [w EXCEPT !.until = until, !.renewedAt = clock,
                          !.lateAt = IF late = Unset THEN @ ELSE clock,
                          !.lateBy = IF late = Unset THEN @ ELSE late]
<1>1. /\ rows' = RecordRenewal(rows, id, until, clock, late)[2]
      /\ calls' = [calls EXCEPT ![c] = NoCall] /\ UNCHANGED clock
  BY Zenon DEF RenewEnds, Return
<1> HIDE DEF late, until
<1>2. CASE UNCHANGED rows
  BY <1>1, <1>2, CallTakes, Returned DEF ProvisioningInv
<1>3. CASE ~UNCHANGED rows
  <2>1. id \in DOMAIN rows.workloads /\ WorkloadRow(w)
    BY <1>1, <1>3 DEF RecordRenewal, ProvisioningInv, WorkloadsStand
  <2>2. rows' = [rows EXCEPT !.workloads[id].until = until,
                             !.workloads[id].renewedAt = clock,
                             !.workloads[id].lateAt = IF late = Unset THEN @ ELSE clock,
                             !.workloads[id].lateBy = IF late = Unset THEN @ ELSE late]
    BY <1>1, <1>3, <2>1 DEF RecordRenewal
  <2>3. rows' = [tokens |-> rows.tokens, workloads |-> [rows.workloads EXCEPT ![id] = v]]
    BY <2>1, <2>2, Zenon DEF ProvisioningInv, WorkloadsStand
  <2>4. WorkloadRow(v) /\ v.token = w.token /\ v.refused = w.refused
    BY <2>1, Zenon DEF WorkloadRow, WorkloadFields
  <2> HIDE DEF v
  <2>5. /\ rows' = [tokens |-> rows'.tokens, workloads |-> rows'.workloads]
        /\ rows'.tokens = rows.tokens
        /\ WorkloadsStand(rows'.workloads, rows.tokens) /\ UsesCounted(rows.tokens, rows'.workloads)
    BY <2>1, <2>3, <2>4, WorkloadChanges, Zenon
  <2> QED BY <1>1, <2>5, CallTakes, Returned DEF ProvisioningInv
<1> QED BY <1>2, <1>3

LEMMA RetireStep == ASSUME ProvisioningInv, Retire PROVE ProvisioningInv'
<1>1. PICK id \in DOMAIN rows.workloads : rows' = [rows EXCEPT !.workloads[id].retired = TRUE]
  BY Zenon DEF Retire
<1> DEFINE w == rows.workloads[id]
           v(b) == [w EXCEPT !.retired = b]
<1>2. UNCHANGED <<clock, calls>> /\ WorkloadRow(w)
  BY DEF Retire, ProvisioningInv, WorkloadsStand
<1>3. \A b : [rows EXCEPT !.workloads[id].retired = b]
               = [tokens |-> rows.tokens, workloads |-> [rows.workloads EXCEPT ![id] = v(b)]]
  <2> SUFFICES ASSUME NEW b
               PROVE  [rows EXCEPT !.workloads[id].retired = b]
                        = [tokens |-> rows.tokens, workloads |-> [rows.workloads EXCEPT ![id] = v(b)]]
    OBVIOUS
  <2>1. PICK toks, ws : rows = [tokens |-> toks, workloads |-> ws]
    BY DEF ProvisioningInv
  <2> QED BY <2>1
<1>4. \A b : WorkloadRow(v(b)) /\ v(b).token = w.token /\ v(b).refused = w.refused
  BY <1>2 DEF WorkloadRow, WorkloadFields
<1> HIDE DEF v
<1>5. rows' = [tokens |-> rows.tokens, workloads |-> [rows.workloads EXCEPT ![id] = v(TRUE)]]
  BY <1>1, <1>3, Zenon
<1>6. WorkloadRow(v(TRUE)) /\ v(TRUE).token = w.token /\ v(TRUE).refused = w.refused
  BY <1>4, Zenon
<1>7. /\ rows' = [tokens |-> rows'.tokens, workloads |-> rows'.workloads]
      /\ rows'.tokens = rows.tokens
      /\ WorkloadsStand(rows'.workloads, rows.tokens) /\ UsesCounted(rows.tokens, rows'.workloads)
  BY <1>5, <1>6, WorkloadChanges, Zenon
<1> QED BY <1>2, <1>7 DEF ProvisioningInv

\* A renewal holds no token; time passes and no revocation moves.
LEMMA RenewStep == ASSUME ProvisioningInv, NEW c \in Enrollees, Renew(c) PROVE ProvisioningInv'
<1>1. PICK id : calls' = [calls EXCEPT ![c] =
                  [NoCall EXCEPT !.pc = "renew", !.id = id, !.until = rows.workloads[id].until]]
  BY Zenon DEF Renew
<1>2. ASSUME NEW x, NEW y
      PROVE  Enrolling([NoCall EXCEPT !.pc = "renew", !.id = x, !.until = y], rows.tokens, clock)
  <2> DEFINE k == [NoCall EXCEPT !.pc = "renew", !.id = x, !.until = y]
  <2>1. /\ DOMAIN k = {"pc", "token", "tok", "at", "refused", "id", "until"}
        /\ k = [f \in DOMAIN k |-> k[f]] /\ k.pc = "renew"
    BY Zenon DEF NoCall
  <2> HIDE DEF k
  <2>2. Enrolling(k, rows.tokens, clock)
    BY <2>1 DEF Enrolling
  <2> QED BY <2>2 DEF k
<1>3. UNCHANGED <<clock, rows>>
  BY DEF Renew
<1> QED BY <1>1, <1>2, <1>3, CallTakes, Zenon DEF ProvisioningInv

LEMMA TickStep == ASSUME ProvisioningInv, Tick PROVE ProvisioningInv'
<1>1. clock \in Nat /\ clock' = clock + 1 /\ UNCHANGED <<rows, calls>>
  BY DEF Tick, ProvisioningInv
<1>2. \A tok : Minted(tok, clock) => Minted(tok, clock')
  BY <1>1 DEF Minted
<1>3. TokensStand(rows.tokens, clock')
  BY <1>2 DEF ProvisioningInv, TokensStand
<1>4. \A k, toks : Enrolling(k, toks, clock) => Enrolling(k, toks, clock')
  BY <1>1 DEF Enrolling, Spent
<1> QED BY <1>1, <1>3, <1>4 DEF ProvisioningInv

LEMMA MintStep == ASSUME ProvisioningInv, MintToken \/ OlderToken PROVE ProvisioningInv'
<1>1. PICK t : /\ t \notin DOMAIN rows.tokens
               /\ \E l : \E until \in Int :
                    rows' = CreateToken(rows, t,
                      [labels |-> l, createdAt |-> clock, expiresAt |-> until,
                       revokedAt |-> Unset, useCount |-> 0, lastUsedAt |-> Unset])
  <2>1. clock \in Int /\ DefaultTokenTTL \in Int /\ \A ttl \in Lifetimes : ttl \in Int
    BY ProvisioningAssumption DEF ProvisioningInv
  <2>2. \A ttl \in Lifetimes : clock + (IF ttl <= 0 THEN DefaultTokenTTL ELSE ttl) \in Int
    BY <2>1
  <2>3. clock + DefaultTokenTTL \in Int
    BY <2>1
  <2>4. CASE MintToken
    <3>1. PICK t \in Secrets \ DOMAIN rows.tokens, l \in Tags \ BadTags, ttl \in Lifetimes :
            rows' = CreateToken(rows, t,
              [labels |-> l, createdAt |-> clock, expiresAt |-> clock + (IF ttl <= 0 THEN DefaultTokenTTL ELSE ttl),
               revokedAt |-> Unset, useCount |-> 0, lastUsedAt |-> Unset])
      BY <2>4, Zenon DEF MintToken
    <3> QED BY <2>2, <3>1, Zenon
  <2>5. CASE OlderToken
    <3>1. PICK t \in Secrets \ DOMAIN rows.tokens, l \in BadTags :
            rows' = CreateToken(rows, t,
              [labels |-> l, createdAt |-> clock, expiresAt |-> clock + DefaultTokenTTL,
               revokedAt |-> Unset, useCount |-> 0, lastUsedAt |-> Unset])
      BY <2>5, Zenon DEF OlderToken
    <3> QED BY <2>3, <3>1, Zenon
  <2> QED BY <2>4, <2>5, Zenon
<1>2. \A l : \A until \in Int :
        LET tok == [labels |-> l, createdAt |-> clock, expiresAt |-> until,
                    revokedAt |-> Unset, useCount |-> 0, lastUsedAt |-> Unset]
        IN  Minted(tok, clock) /\ tok.useCount = 0
  BY DEF Minted, TokenFields, Unset
<1>3. UNCHANGED <<clock, calls>>
  BY Zenon DEF MintToken, OlderToken
<1> QED BY <1>1, <1>2, <1>3, PutToken

LEMMA ProvisioningStarts == ProvisioningInit => ProvisioningInv
<1> SUFFICES ASSUME ProvisioningInit PROVE ProvisioningInv
  OBVIOUS
<1>1. rows = [tokens |-> <<>>, workloads |-> <<>>] /\ clock = 0 /\ calls = [c \in Enrollees |-> NoCall]
  BY DEF ProvisioningInit
<1>2. rows = [tokens |-> rows.tokens, workloads |-> rows.workloads] /\ rows.tokens = <<>> /\ rows.workloads = <<>>
  BY <1>1
<1>3. DOMAIN <<>> = {} /\ DOMAIN <<>> = 1..0 /\ <<>> = [x \in DOMAIN <<>> |-> <<>>[x]]
  OBVIOUS
<1>4. TokensStand(<<>>, clock) /\ UsesCounted(<<>>, <<>>)
  BY <1>3 DEF TokensStand, UsesCounted
<1>5. WorkloadsStand(<<>>, <<>>)
  BY <1>3 DEF WorkloadsStand
<1>6. \A c \in Enrollees : Enrolling(calls[c], rows.tokens, clock)
  BY <1>1, Returned
<1> QED BY <1>1, <1>2, <1>4, <1>5, <1>6 DEF ProvisioningInv

LEMMA ProvisioningStep == ProvisioningInv /\ [ProvisioningNext]_provisioningVars => ProvisioningInv'
<1> SUFFICES ASSUME ProvisioningInv, [ProvisioningNext]_provisioningVars PROVE ProvisioningInv'
  OBVIOUS
<1>1. CASE UNCHANGED provisioningVars
  BY <1>1 DEF provisioningVars, ProvisioningInv
<1> QED
  BY <1>1, MintStep, RevokeStep, RetireStep, TickStep, EnrollStep, EnrollChecksStep, EnrollEndsStep, RenewStep, RenewEndsStep
     DEF ProvisioningNext

\* A provisioning token enrolls nothing for a call that reads it revoked or
\* expired, and its use count is the number of workloads it enrolled, for any
\* number of callers, tokens and workloads.
THEOREM TokensHonoured == ProvisioningSpec => []TokensAreHonoured
<1>1. ProvisioningInv => TokensAreHonoured
  BY DEF ProvisioningInv, WorkloadsStand, UsesCounted, Enrolled, TokensAreHonoured,
         SpentTokenEnrollsNothing, UsesAreEnrollments
<1> QED BY <1>1, ProvisioningStarts, ProvisioningStep, PTL DEF ProvisioningSpec

-----------------------------------------------------------------------------
(* The double of the enrollment store.                                     *)

\* A renewal of the double is the database's.
LEMMA RenewalsAgree ==
  ASSUME ProvisioningInv, NEW id, NEW until, NEW now, NEW late
  PROVE  MemRecordRenewal(rows, id, until, now, late) = RecordRenewal(rows, id, until, now, late)
<1>1. CASE id \notin DOMAIN rows.workloads \/ rows.workloads[id].retired
  BY <1>1 DEF MemRecordRenewal, RecordRenewal
<1>2. CASE id \in DOMAIN rows.workloads /\ ~rows.workloads[id].retired
  <2> DEFINE w == rows.workloads[id]
             renewed == [w EXCEPT !.until = until, !.renewedAt = now]
             lateAt == IF late = Unset THEN w.lateAt ELSE now
             lateBy == IF late = Unset THEN w.lateBy ELSE late
             recorded == [w EXCEPT !.until = until, !.renewedAt = now, !.lateAt = lateAt, !.lateBy = lateBy]
  <2>1. WorkloadRow(w)
    BY <1>2 DEF ProvisioningInv, WorkloadsStand
  <2>2. recorded = IF late = Unset THEN renewed ELSE [renewed EXCEPT !.lateAt = now, !.lateBy = late]
    BY <2>1, Zenon DEF WorkloadRow, WorkloadFields
  <2>3. ASSUME NEW r,
               r = [rows EXCEPT !.workloads[id].until = until,
                                !.workloads[id].renewedAt = now,
                                !.workloads[id].lateAt = IF late = Unset THEN @ ELSE now,
                                !.workloads[id].lateBy = IF late = Unset THEN @ ELSE late]
        PROVE  r = [tokens |-> rows.tokens, workloads |-> [rows.workloads EXCEPT ![id] = recorded]]
    BY <2>3, <1>2, <2>1, Zenon DEF ProvisioningInv, WorkloadsStand
  <2>4. \A v : [rows EXCEPT !.workloads[id] = v]
                = [tokens |-> rows.tokens, workloads |-> [rows.workloads EXCEPT ![id] = v]]
    BY DEF ProvisioningInv
  <2> QED BY <1>2, <2>2, <2>3, <2>4 DEF MemRecordRenewal, RecordRenewal
<1> QED BY <1>1, <1>2

LEMMA EnrollmentsAgree ==
  ASSUME ProvisioningInv, NEW id, NEW w, NEW now
  PROVE  MemCreateWorkload(rows, id, w, now) = CreateWorkload(rows, id, w, now)
BY DEF MemCreateWorkload, CreateWorkload, RecordProvisioningTokenUse

LEMMA RevocationsAgree ==
  ASSUME NEW t, NEW now
  PROVE  /\ MemRevokeToken(rows, t, now)[1] = RevokeAnswer(rows, t, now)
         /\ MemRevokeToken(rows, t, now)[2] = RevokeProvisioningToken(rows, t, now)[2]
BY DEF MemRevokeToken, RevokeAnswer, RevokeProvisioningToken

LEMMA LookupsAgree == ASSUME NEW t PROVE MemFindTokenByHash(rows, t) = FindTokenByHash(rows, t)
<1>1. CASE t \in DOMAIN rows.tokens
  <2>1. {u \in DOMAIN rows.tokens : u = t} = {t}
    BY <1>1
  <2> QED BY <1>1, <2>1 DEF MemFindTokenByHash, FindTokenByHash
<1>2. CASE t \notin DOMAIN rows.tokens
  BY <1>2 DEF MemFindTokenByHash, FindTokenByHash
<1> QED BY <1>1, <1>2

LEMMA DoubleStep == ProvisioningInv /\ EnrollDoubleAgrees /\ [ProvisioningNext]_provisioningVars => EnrollDoubleAgrees'
<1> SUFFICES ASSUME ProvisioningInv, agree, double = rows, [ProvisioningNext]_provisioningVars
             PROVE  agree' /\ double' = rows'
  BY DEF EnrollDoubleAgrees
<1>1. CASE MintToken \/ OlderToken \/ Retire \/ Tick \/ UNCHANGED provisioningVars
  BY <1>1, Zenon DEF MintToken, OlderToken, Retire, Tick, provisioningVars
<1>2. CASE RevokeToken
  <2>1. PICK t \in Secrets :
          /\ rows' = RevokeProvisioningToken(rows, t, clock)[2] /\ double' = MemRevokeToken(rows, t, clock)[2]
          /\ agree' = (RevokeAnswer(rows, t, clock) = MemRevokeToken(rows, t, clock)[1])
    BY <1>2, Zenon DEF RevokeToken
  <2> QED BY <2>1, RevocationsAgree, Zenon
<1>3. ASSUME NEW c \in Enrollees, Enroll(c) PROVE agree' /\ double' = rows'
  BY <1>3, LookupsAgree, Zenon DEF Enroll
<1>4. ASSUME NEW c \in Enrollees, EnrollEnds(c) PROVE agree' /\ double' = rows'
  BY <1>4, EnrollmentsAgree, Zenon DEF EnrollEnds
<1>6. ASSUME NEW c \in Enrollees, EnrollChecks(c) PROVE agree' /\ double' = rows'
  BY <1>6, Zenon DEF EnrollChecks
<1>5. ASSUME NEW c \in Enrollees, Renew(c) \/ RenewEnds(c) PROVE agree' /\ double' = rows'
  BY <1>5, RenewalsAgree, Zenon DEF Renew, RenewEnds
<1> QED BY <1>1, <1>2, <1>3, <1>4, <1>5, <1>6 DEF ProvisioningNext

\* The double the enrollment tests run against answers every call as the
\* database does and holds what it holds, whatever calls were made before
\* (enrolltest's MemStore against store/enroll.go).
THEOREM EnrollStoresAgree == ProvisioningSpec => []EnrollDoubleAgrees
<1>1. ProvisioningInit => EnrollDoubleAgrees
  BY DEF ProvisioningInit, EnrollDoubleAgrees
<1> QED BY <1>1, DoubleStep, ProvisioningStarts, ProvisioningStep, PTL DEF ProvisioningSpec
=============================================================================
