-------------------------- MODULE PolicySyncProofs --------------------------
(***************************************************************************)
(* Policy distribution, for any rules, peers, modes, number of pushers,    *)
(* queue depth and bound on versions: the types, the agent only ever holds *)
(* a rendered policy, and recovery snapshots never repeat.                 *)
(***************************************************************************)
EXTENDS PolicySync, RenderedProofs

\* The delta between two policies is of the wire's type.
LEMMA DeltaType ==
    ASSUME NEW p \in Policies, NEW q \in Policies
    PROVE  Delta(p, q) \in Deltas
<1> DEFINE ids == ChangedIds(p.rules, q.rules)
           ch  == [id \in ids |-> RuleChange(p.rules, q.rules, id)]
<1>1. p.rules \in RuleMaps /\ q.rules \in RuleMaps /\ p.mode \in Modes /\ q.mode \in Modes
      /\ p.version \in Nat /\ q.version \in Nat
  BY DEF Policies
<1>2. ids \in SUBSET RuleIds
  BY <1>1, RuleMapFacts DEF ChangedIds
<1>3. \A id \in ids : RuleChange(p.rules, q.rules, id) \in RuleChanges
  <2> SUFFICES ASSUME NEW id \in ids PROVE RuleChange(p.rules, q.rules, id) \in RuleChanges
    OBVIOUS
  <2>1. id \in DOMAIN p.rules \cup DOMAIN q.rules
    BY DEF ChangedIds
  <2>2. CASE id \notin DOMAIN q.rules
    <3>1. RuleChange(p.rules, q.rules, id) = Remove
      BY <2>1, <2>2 DEF RuleChange
    <3> QED BY <3>1 DEF RuleChanges
  <2>3. CASE id \in DOMAIN q.rules /\ (id \notin DOMAIN p.rules \/ p.rules[id].spec # q.rules[id].spec)
    <3>1. RuleChange(p.rules, q.rules, id) = Upsert(q.rules[id])
      BY <2>1, <2>3 DEF RuleChange
    <3>2. q.rules[id] \in Rules
      BY <1>1, <2>3, RuleMapFacts
    <3> QED BY <3>1, <3>2 DEF RuleChanges, Upsert
  <2>4. CASE id \in DOMAIN q.rules /\ id \in DOMAIN p.rules /\ p.rules[id].spec = q.rules[id].spec
    <3>1. RuleChange(p.rules, q.rules, id) =
            PeerChange(q.rules[id].peers \ p.rules[id].peers, p.rules[id].peers \ q.rules[id].peers)
      BY <2>4 DEF RuleChange
    <3>2. q.rules[id].peers \in SUBSET Peers /\ p.rules[id].peers \in SUBSET Peers
      BY <1>1, <2>4, RuleMapFacts, RuleFacts
    <3> QED BY <3>1, <3>2 DEF RuleChanges, PeerChange
  <2> QED BY <2>2, <2>3, <2>4
<1>4. ch \in [ids -> RuleChanges]
  BY <1>3
<1>5. ch \in UNION {[s -> RuleChanges] : s \in SUBSET RuleIds}
  BY <1>2, <1>4
<1> HIDE DEF ch
<1>6. [setMode |-> {q.mode} \ {p.mode}, rules |-> ch] \in Changes
  BY <1>1, <1>5 DEF Changes
<1> QED BY <1>1, <1>6 DEF Delta, Diff, Deltas, ch

-----------------------------------------------------------------------------
(* The history of renders only grows.                                      *)

VersionsInOrder == \A v \in 1..Len(hist) : hist[v].version = v

\* What GetWorkloadPolicy returns is a policy, and a rendered one.
LEMMA LatestFacts ==
    ASSUME hist \in Seq(Policies), VersionsInOrder
    PROVE  Latest \in Policies /\ RenderedIn(hist, Latest) /\ Latest.version = Len(hist)
<1>1. CASE hist = << >>
  BY <1>1, EmptyIsPolicy DEF Latest, RenderedIn, Empty
<1>2. CASE hist # << >>
  <2>1. Len(hist) \in 1..Len(hist)
    BY <1>2
  <2>2. Latest = hist[Len(hist)] /\ Latest.version = Len(hist)
    BY <1>2, <2>1 DEF Latest, VersionsInOrder
  <2> QED BY <2>1, <2>2 DEF RenderedIn
<1> QED BY <1>1, <1>2

\* A render appends one policy, of the next version.
LEMMA PersistFacts ==
    ASSUME hist \in Seq(Policies), VersionsInOrder, notices \in Nat,
           NEW content \in Contents, Persist(content)
    PROVE  /\ hist' \in Seq(Policies) /\ notices' \in Nat
           /\ Len(hist') = Len(hist) + 1
           /\ \A v \in 1..Len(hist) : hist'[v] = hist[v]
           /\ VersionsInOrder'
<1>1. Latest.version = Len(hist) /\ Latest \in Policies
  BY LatestFacts
<1>2. Plan(Latest, content) = AtVersion(content, Len(hist) + 1)
  BY <1>1 DEF Plan, Persist
<1>3. AtVersion(content, Len(hist) + 1) \in Policies
  BY AtVersionIsPolicy
<1>4. AtVersion(content, Len(hist) + 1).version = Len(hist) + 1
  BY DEF AtVersion
<1>5. hist' = Append(hist, AtVersion(content, Len(hist) + 1))
  BY <1>2 DEF Persist
<1>6. notices' \in Nat
  BY DEF Persist
<1> QED BY <1>3, <1>4, <1>5, <1>6 DEF VersionsInOrder

\* What was rendered stays rendered.
LEMMA RenderedGrows ==
    ASSUME NEW h \in Seq(Policies), NEW k \in Seq(Policies), Len(k) >= Len(h),
           \A v \in 1..Len(h) : k[v] = h[v],
           NEW p \in Policies, RenderedIn(h, p)
    PROVE  RenderedIn(k, p)
BY DEF RenderedIn

-----------------------------------------------------------------------------
(* A delta that applies ends at a rendered policy.                         *)

\* A delta of rendered ends that applies to the agent's rendered policy
\* yields the rendered policy of its target version.
LEMMA ApplyDeltaFacts ==
    ASSUME TypeOK, StreamIsRendered, NEW accepted \in BOOLEAN, ApplyDelta(accepted)
    PROVE  /\ agent' = agent \/ \E b \in 1..Len(hist) : agent' = hist[b]
           /\ Head(down).delta.to \in Nat
<1>1. 1 \in 1..Len(down) /\ Head(down) = down[1] /\ Head(down).type = "delta"
  BY DEF ApplyDelta, TypeOK
<1>2. PICK a \in 1..Len(hist), b \in 1..Len(hist) : Head(down).delta = Delta(hist[a], hist[b])
  BY <1>1 DEF StreamIsRendered, RenderedMessage
<1>3. hist[a] \in Policies /\ hist[b] \in Policies /\ hist[a].version = a /\ hist[b].version = b
  BY DEF TypeOK, StreamIsRendered
<1>4. Head(down).delta.from = a /\ Head(down).delta.to = b
  BY <1>2, <1>3 DEF Delta
<1>5. CASE accepted /\ Applies(agent, Head(down).delta)
  <2>1. agent.version = a
    BY <1>4, <1>5 DEF Applies
  <2>2. agent = hist[a]
    BY <2>1 DEF StreamIsRendered, InstalledIsRendered, RenderedIn, Empty
  <2>3. agent' = Apply(agent, Head(down).delta)
    BY <1>5 DEF ApplyDelta, Answer
  <2>4. agent' = hist[b]
    BY <1>2, <1>3, <2>2, <2>3, RoundTrip
  <2> QED BY <1>4, <2>4
<1>6. CASE ~(accepted /\ Applies(agent, Head(down).delta))
  BY <1>4, <1>6 DEF ApplyDelta, Answer
<1> QED BY <1>5, <1>6

-----------------------------------------------------------------------------
(* Types.                                                                  *)

\* A session, a pusher and a reader that have not started are of the right
\* type.
LEMMA IdleTypes ==
    NoSession \in SessionStates /\ IdlePusher \in PusherStates /\ IdleReader \in ReaderStates
BY EmptyIsPolicy
   DEF NoSession, IdlePusher, IdleReader, SessionStates, PusherStates, ReaderStates

\* Nothing rendered, no stream: the types hold.
LEMMA TypeInit == Init => TypeOK
BY EmptyIsPolicy, IdleTypes, QueueAssumption DEF Init, TypeOK, Empty

\* Taking the first acknowledgement.
LEMMA HeadAck ==
    ASSUME up \in Seq(Acks), up # << >>
    PROVE  /\ Head(up) \in Acks /\ Head(up).version \in Nat
           /\ Tail(up) \in Seq(Acks)
<1>1. Head(up) \in Acks /\ Tail(up) \in Seq(Acks)
  OBVIOUS
<1> QED BY <1>1 DEF Acks

\* Starting a pusher keeps the type of the pushers.
LEMMA StartPusherType ==
    ASSUME pushers \in [Pushers -> PusherStates], NEW g \in Pushers, StartPusher(g)
    PROVE  pushers' \in [Pushers -> PusherStates]
BY EmptyIsPolicy DEF StartPusher, PusherStates

\* A goroutine takes the session lock.
TakesLock == RecoverLock \/ \E g \in Pushers : PushLock(g)

\* Taking the lock moves nothing but the place its goroutine has reached.
LEMMA TakingTheLock ==
    ASSUME TypeOK, TakesLock
    PROVE  /\ UNCHANGED <<hist, listener, notices, sess, down, up, conn, agent, applied, status>>
           /\ pushers' \in [Pushers -> PusherStates] /\ reader' \in ReaderStates
           /\ \A k \in Pushers : pushers'[k].read = pushers[k].read
           /\ reader'.version = reader.version /\ reader'.read = reader.read
           /\ reader' = reader \/ (reader.pc = "resend" /\ reader'.pc = "locked")
<1>1. CASE RecoverLock
  <2>1. pushers' = pushers /\ pushers \in [Pushers -> PusherStates] /\ reader \in ReaderStates
    BY <1>1 DEF RecoverLock, TypeOK
  <2>2. /\ reader' \in ReaderStates /\ reader'.pc = "locked" /\ reader.pc = "resend"
        /\ reader'.version = reader.version /\ reader'.read = reader.read
    BY <1>1, <2>1 DEF RecoverLock, ReaderStates
  <2> QED BY <1>1, <2>1, <2>2 DEF RecoverLock, wireVars, agentVars, registryVars
<1>2. ASSUME NEW g \in Pushers, PushLock(g)
      PROVE  /\ pushers' \in [Pushers -> PusherStates] /\ reader' = reader
             /\ \A k \in Pushers : pushers'[k].read = pushers[k].read
             /\ UNCHANGED <<hist, listener, notices, sess, down, up, conn, agent, applied, status>>
  <2>1. pushers' = [pushers EXCEPT ![g] = [pushers[g] EXCEPT !.pc = "locked"]]
    BY <1>2 DEF PushLock
  <2>2. pushers \in [Pushers -> PusherStates]
    BY DEF TypeOK
  <2>3. [pushers[g] EXCEPT !.pc = "locked"] \in PusherStates
        /\ [pushers[g] EXCEPT !.pc = "locked"].read = pushers[g].read
    BY <2>2 DEF PusherStates
  <2>4. \A k \in Pushers : pushers'[k] = IF k = g THEN [pushers[g] EXCEPT !.pc = "locked"]
                                                  ELSE pushers[k]
    BY <2>1, <2>2
  <2>5. pushers' \in [Pushers -> PusherStates]
    BY <2>1, <2>2, <2>3
  <2> QED BY <1>2, <2>3, <2>4, <2>5 DEF PushLock, wireVars, agentVars, registryVars
<1>3. reader \in ReaderStates
  BY DEF TypeOK
<1> QED BY <1>1, <1>2, <1>3 DEF TakesLock

\* Every step keeps the types.
LEMMA TypeStep == TypeOK /\ StreamIsRendered /\ [Next]_vars => TypeOK'
<1> SUFFICES ASSUME TypeOK, StreamIsRendered, [Next]_vars PROVE TypeOK'
  OBVIOUS
<1> USE EmptyIsPolicy, QueueAssumption, IdleTypes
<1>a. VersionsInOrder
  BY DEF StreamIsRendered, VersionsInOrder
<1>0. Latest \in Policies
  BY <1>a, LatestFacts DEF TypeOK
<1>1. CASE Render
  BY <1>a, <1>1, PersistFacts DEF Render, TypeOK, gatewayVars, wireVars, agentVars, registryVars
<1>2. CASE Announce
  <2>1. pushers' \in [Pushers -> PusherStates] /\ notices' \in Nat
    BY <1>2, StartPusherType DEF Announce, TypeOK
  <2> QED BY <1>2, <2>1 DEF Announce, TypeOK, wireVars, agentVars, registryVars
<1>3. CASE LoseListener
  BY <1>3 DEF LoseListener, TypeOK, gatewayVars, wireVars, agentVars, registryVars
<1>4. CASE ListenerReady
  <2>1. pushers' \in [Pushers -> PusherStates]
    BY <1>4, StartPusherType DEF ListenerReady, TypeOK
  <2> QED BY <1>4, <2>1 DEF ListenerReady, TypeOK, wireVars, agentVars, registryVars
<1>5. ASSUME NEW g \in Pushers, PushLoad(g) PROVE TypeOK'
  <2>1. pushers' \in [Pushers -> PusherStates]
    BY <1>0, <1>5 DEF PushLoad, PusherStates, TypeOK
  <2> QED BY <1>5, <2>1 DEF PushLoad, TypeOK, wireVars, agentVars, registryVars
<1>6. ASSUME NEW g \in Pushers, PushSend(g) PROVE TypeOK'
  <2>1. pushers' \in [Pushers -> PusherStates]
    BY <1>6 DEF PushSend, TypeOK, PusherStates
  <2>2. CASE UNCHANGED <<sess, down>>
    BY <1>6, <2>1, <2>2 DEF PushSend, TypeOK, agentVars, registryVars
  <2>3. CASE /\ Room
             /\ down' = Append(down, DeltaUpdate(Delta(sess.lastSent, pushers[g].read)))
             /\ sess' = [sess EXCEPT !.lastSent = pushers[g].read]
    <3>1. Delta(sess.lastSent, pushers[g].read) \in Deltas
      BY DeltaType DEF TypeOK, SessionStates, PusherStates
    <3>2. DeltaUpdate(Delta(sess.lastSent, pushers[g].read)) \in Messages
      BY <3>1 DEF DeltaUpdate, Messages
    <3>3. down' \in Seq(Messages) /\ Len(down') <= QueueDepth
      BY <2>3, <3>2 DEF TypeOK, Room
    <3>4. sess' \in SessionStates
      BY <2>3 DEF TypeOK, SessionStates, PusherStates
    <3> QED BY <1>6, <2>1, <2>3, <3>3, <3>4 DEF PushSend, TypeOK, agentVars, registryVars
  <2> QED BY <1>6, <2>2, <2>3 DEF PushSend
<1>23. ASSUME NEW g \in Pushers, PushRecord(g) PROVE TypeOK'
  <2>1. pushers' \in [Pushers -> PusherStates]
    BY <1>23 DEF PushRecord, TypeOK
  <2> QED BY <1>23, <2>1 DEF PushRecord, SetSyncState, TypeOK, wireVars, agentVars
<1>7. CASE Open
  <2>1. sess' \in SessionStates /\ applied' \in Nat
    BY <1>7 DEF Open, TypeOK, NoSession, SessionStates, Policies
  <2> QED BY <1>7, <2>1 DEF Open, TypeOK, wireVars
<1>8. CASE SendHelloAck
  <2>1. down' \in Seq(Messages) /\ Len(down') <= QueueDepth
    BY <1>8 DEF SendHelloAck, TypeOK, Room, Messages
  <2>2. sess' \in SessionStates
    BY <1>8 DEF SendHelloAck, TypeOK, SessionStates
  <2> QED BY <1>8, <2>1, <2>2 DEF SendHelloAck, TypeOK, agentVars, registryVars
<1>9. CASE LoadPolicy
  <2>1. hist' \in Seq(Policies) /\ notices' \in Nat /\ VersionsInOrder'
    BY <1>a, <1>9, PersistFacts DEF LoadPolicy, TypeOK, VersionsInOrder
  <2>2. Latest' \in Policies
    <3>1. CASE UNCHANGED hist
      BY <1>0, <3>1 DEF Latest
    <3>2. CASE hist' # hist
      <4>1. \E content \in Contents : Persist(content)
        BY <1>9, <3>2 DEF LoadPolicy
      <4>2. Len(hist') = Len(hist) + 1
        BY <1>a, <4>1, PersistFacts DEF TypeOK
      <4>3. hist' # << >> /\ Len(hist') \in 1..Len(hist')
        BY <2>1, <4>2 DEF TypeOK
      <4> QED BY <2>1, <4>3 DEF Latest
    <3> QED BY <3>1, <3>2
  <2>3. sess' \in SessionStates
    BY <1>9, <2>2 DEF LoadPolicy, TypeOK, SessionStates
  <2> QED BY <1>9, <2>1, <2>3 DEF LoadPolicy, TypeOK, wireVars, agentVars, registryVars
<1>10. CASE SetTip
  BY <1>10 DEF SetTip, TypeOK, SessionStates, wireVars, agentVars, registryVars
<1>11. CASE SendSnapshot
  <2>1. Snapshot(sess.read) \in Messages
    BY DEF TypeOK, SessionStates, Snapshot, Messages
  <2>2. down' \in Seq(Messages) /\ Len(down') <= QueueDepth
    BY <1>11, <2>1 DEF SendSnapshot, TypeOK, Room
  <2>3. sess' \in SessionStates
    BY <1>11 DEF SendSnapshot, TypeOK, SessionStates
  <2> QED BY <1>11, <2>2, <2>3 DEF SendSnapshot, SetSyncState, TypeOK, agentVars
<1>12. CASE DirectReconnect
  <2>1. down' \in Seq(Messages) /\ Len(down') <= QueueDepth
    BY <1>12 DEF DirectReconnect, TypeOK, Room, Messages
  <2> QED BY <1>12, <2>1 DEF DirectReconnect, TypeOK, gatewayVars, agentVars, registryVars
<1>13. CASE AckApplied
  <2>1. up' \in Seq(Acks) /\ reader' \in ReaderStates
    BY <1>13, HeadAck DEF AckApplied, TypeOK, ReaderStates
  <2> QED BY <1>13, <2>1 DEF AckApplied, TypeOK, agentVars, registryVars
<1>14. CASE RecordApplied
  <2>1. applied' \in Nat /\ status' \in {"PENDING", "SYNCED"}
    BY <1>14 DEF RecordApplied, TypeOK, ReaderStates
  <2> QED BY <1>14, <2>1 DEF RecordApplied, TypeOK, wireVars, agentVars
<1>15. CASE AckFailed
  <2>1. up' \in Seq(Acks) /\ reader' \in ReaderStates
    BY <1>15, HeadAck DEF AckFailed, TypeOK, ReaderStates, IdleReader
  <2> QED BY <1>15, <2>1 DEF AckFailed, TypeOK, agentVars
<1>24. CASE CheckStale
  <2>1. reader' \in ReaderStates
    BY <1>24 DEF CheckStale, TypeOK, ReaderStates
  <2> QED BY <1>24, <2>1 DEF CheckStale, TypeOK, wireVars, agentVars, registryVars
<1>16. CASE RecoverLoad
  BY <1>0, <1>16 DEF RecoverLoad, TypeOK, ReaderStates, wireVars, agentVars, registryVars
<1>17. CASE RecoverSend
  <2>1. Snapshot(reader.read) \in Messages /\ reader.read.version \in Nat
    BY DEF TypeOK, ReaderStates, Snapshot, Messages, Policies
  <2>2. down' \in Seq(Messages) /\ Len(down') <= QueueDepth
    BY <1>17, <2>1 DEF RecoverSend, TypeOK, Room
  <2>3. sess' \in SessionStates
    BY <1>17, <2>1 DEF RecoverSend, TypeOK, SessionStates, ReaderStates
  <2> QED BY <1>17, <2>2, <2>3 DEF RecoverSend, TypeOK, agentVars, registryVars
<1>18. CASE EndStream
  BY <1>18 DEF EndStream, SetSyncState, TypeOK
<1>19. CASE Established
  BY <1>19 DEF Established, TypeOK, gatewayVars, registryVars
<1>20. ASSUME NEW accepted \in BOOLEAN, ApplySnapshot(accepted) PROVE TypeOK'
  <2>1. Head(down) \in Messages /\ Head(down).type = "snapshot"
    BY <1>20 DEF ApplySnapshot, TypeOK
  <2>2. Head(down).policy \in Policies
    BY <2>1 DEF Messages, HelloAck, Reconnect
  <2>3. Head(down).policy.version \in Nat
    BY <2>2 DEF Policies
  <2>4. down' \in Seq(Messages) /\ Len(down') <= QueueDepth
    BY <1>20 DEF ApplySnapshot, TypeOK
  <2>5. agent' \in Policies /\ up' \in Seq(Acks)
    BY <1>20, <2>2, <2>3 DEF ApplySnapshot, Answer, Ack, Acks, TypeOK
  <2> QED BY <1>20, <2>4, <2>5 DEF ApplySnapshot, TypeOK, gatewayVars, registryVars
<1>21. ASSUME NEW accepted \in BOOLEAN, ApplyDelta(accepted) PROVE TypeOK'
  <2>1. agent' \in Policies /\ Head(down).delta.to \in Nat
    BY <1>21, ApplyDeltaFacts DEF TypeOK
  <2>2. down' \in Seq(Messages) /\ Len(down') <= QueueDepth
    BY <1>21 DEF ApplyDelta, TypeOK
  <2>3. up' \in Seq(Acks)
    BY <1>21, <2>1 DEF ApplyDelta, Answer, Ack, Acks, TypeOK
  <2> QED BY <1>21, <2>1, <2>2, <2>3 DEF ApplyDelta, TypeOK, gatewayVars, registryVars
<1>22. CASE UNCHANGED vars
  BY <1>22 DEF vars, gatewayVars, wireVars, agentVars, registryVars, TypeOK
<1>25. CASE TakesLock
  BY <1>25, TakingTheLock DEF TypeOK
<1> QED
  BY <1>1, <1>2, <1>3, <1>4, <1>5, <1>6, <1>7, <1>8, <1>9, <1>10, <1>11, <1>12, <1>13, <1>14,
     <1>15, <1>16, <1>17, <1>18, <1>19, <1>20, <1>21, <1>22, <1>23, <1>24, <1>25
     DEF TakesLock, Next, Handler, Reader, Pusher, Receive, Database, Break, Leave

-----------------------------------------------------------------------------
(* Everything read or in flight was rendered.                              *)

\* Queueing one more rendered message.
LEMMA AppendRendered ==
    ASSUME NEW h, NEW d \in Seq(Messages), NEW m \in Messages, RenderedMessage(h, m),
           \A i \in 1..Len(d) : RenderedMessage(h, d[i])
    PROVE  \A i \in 1..Len(Append(d, m)) : RenderedMessage(h, Append(d, m)[i])
<1> SUFFICES ASSUME NEW i \in 1..Len(Append(d, m)) PROVE RenderedMessage(h, Append(d, m)[i])
  OBVIOUS
<1>1. CASE i \in 1..Len(d)
  BY <1>1
<1>2. CASE i = Len(d) + 1
  BY <1>2
<1> QED BY <1>1, <1>2

\* Taking the first message leaves rendered ones.
LEMMA TailRendered ==
    ASSUME NEW h, NEW d \in Seq(Messages), d # << >>,
           \A i \in 1..Len(d) : RenderedMessage(h, d[i])
    PROVE  \A i \in 1..Len(Tail(d)) : RenderedMessage(h, Tail(d)[i])
<1> SUFFICES ASSUME NEW i \in 1..Len(Tail(d)) PROVE RenderedMessage(h, Tail(d)[i])
  OBVIOUS
<1>1. i + 1 \in 1..Len(d) /\ Tail(d)[i] = d[i + 1]
  OBVIOUS
<1> QED BY <1>1

\* A longer history renders at least as much.
LEMMA MessageGrows ==
    ASSUME NEW h \in Seq(Policies), NEW k \in Seq(Policies), Len(k) >= Len(h),
           \A v \in 1..Len(h) : k[v] = h[v],
           NEW m \in Messages, RenderedMessage(h, m)
    PROVE  RenderedMessage(k, m)
<1>1. ASSUME m.type = "snapshot" PROVE RenderedIn(k, m.policy)
  <2>1. m.policy \in Policies
    BY <1>1 DEF Messages, HelloAck, Reconnect
  <2> QED BY <1>1, <2>1, RenderedGrows DEF RenderedMessage
<1>2. ASSUME m.type = "delta" PROVE \E a, b \in 1..Len(k) : m.delta = Delta(k[a], k[b])
  <2>1. PICK a \in 1..Len(h), b \in 1..Len(h) : m.delta = Delta(h[a], h[b])
    BY <1>2 DEF RenderedMessage
  <2>2. a \in 1..Len(k) /\ b \in 1..Len(k) /\ k[a] = h[a] /\ k[b] = h[b]
    OBVIOUS
  <2> QED BY <2>1, <2>2
<1> QED BY <1>1, <1>2 DEF RenderedMessage

\* A render leaves everything read or in flight rendered.
LEMMA HistoryGrows ==
    ASSUME TypeOK, StreamIsRendered, hist' \in Seq(Policies), VersionsInOrder',
           Len(hist') >= Len(hist), \A v \in 1..Len(hist) : hist'[v] = hist[v]
    PROVE  /\ RenderedIn(hist', agent)
           /\ RenderedIn(hist', sess.read) /\ RenderedIn(hist', sess.lastSent)
           /\ RenderedIn(hist', reader.read)
           /\ \A g \in Pushers : RenderedIn(hist', pushers[g].read)
           /\ \A i \in 1..Len(down) : RenderedMessage(hist', down[i])
<1>1. hist \in Seq(Policies) /\ agent \in Policies /\ sess.read \in Policies
      /\ sess.lastSent \in Policies /\ reader.read \in Policies
      /\ \A g \in Pushers : pushers[g].read \in Policies
  BY DEF TypeOK, SessionStates, ReaderStates, PusherStates
<1>2. \A i \in 1..Len(down) : down[i] \in Messages
  BY DEF TypeOK
<1>3. \A i \in 1..Len(down) : RenderedMessage(hist', down[i])
  BY <1>1, <1>2, MessageGrows DEF StreamIsRendered
<1> QED BY <1>1, <1>3, RenderedGrows DEF StreamIsRendered, InstalledIsRendered

\* A pusher that starts has read nothing yet.
LEMMA StartPusherRead ==
    ASSUME pushers \in [Pushers -> PusherStates], NEW g \in Pushers, StartPusher(g)
    PROVE  \A k \in Pushers : pushers'[k].read \in {Empty, pushers[k].read}
BY DEF StartPusher

\* Nothing is read or in flight at first.
LEMMA StreamInit == Init => StreamIsRendered
BY DEF Init, StreamIsRendered, InstalledIsRendered, RenderedIn, NoSession, IdleReader, IdlePusher

\* Every step reads and sends rendered policies only.
LEMMA StreamStep == TypeOK /\ StreamIsRendered /\ [Next]_vars => StreamIsRendered'
<1> SUFFICES ASSUME TypeOK, StreamIsRendered, [Next]_vars PROVE StreamIsRendered'
  OBVIOUS
<1> USE DEF VersionsInOrder
<1>a. VersionsInOrder
  BY DEF StreamIsRendered
<1>b. RenderedIn(hist, Latest)
  BY <1>a, LatestFacts DEF TypeOK
<1>e. RenderedIn(hist, Empty)
  BY DEF RenderedIn
<1>n. NoSession.read = Empty /\ NoSession.lastSent = Empty /\ IdleReader.read = Empty
      /\ IdlePusher.read = Empty
  BY DEF NoSession, IdleReader, IdlePusher
<1>1. CASE Render
  <2>1. /\ hist' \in Seq(Policies) /\ Len(hist') >= Len(hist)
        /\ \A v \in 1..Len(hist) : hist'[v] = hist[v]
        /\ VersionsInOrder'
    BY <1>1, <1>a, PersistFacts DEF Render, TypeOK
  <2> QED BY <1>1, <2>1, HistoryGrows
          DEF Render, StreamIsRendered, InstalledIsRendered, gatewayVars, wireVars, agentVars
<1>2. CASE Announce
  <2>1. \A g \in Pushers : RenderedIn(hist, pushers'[g].read)
    BY <1>2, <1>e, StartPusherRead DEF Announce, StreamIsRendered, TypeOK
  <2> QED BY <1>2, <2>1 DEF Announce, StreamIsRendered, InstalledIsRendered, wireVars, agentVars
<1>3. CASE LoseListener
  BY <1>3 DEF LoseListener, StreamIsRendered, InstalledIsRendered, gatewayVars, wireVars, agentVars
<1>4. CASE ListenerReady
  <2>1. \A g \in Pushers : RenderedIn(hist, pushers'[g].read)
    BY <1>4, <1>e, StartPusherRead DEF ListenerReady, StreamIsRendered, TypeOK
  <2> QED BY <1>4, <2>1 DEF ListenerReady, StreamIsRendered, InstalledIsRendered, wireVars, agentVars
<1>5. ASSUME NEW g \in Pushers, PushLoad(g) PROVE StreamIsRendered'
  <2>1. \A k \in Pushers : RenderedIn(hist, pushers'[k].read)
    BY <1>5, <1>b, <1>e, <1>n DEF PushLoad, StreamIsRendered, TypeOK
  <2> QED BY <1>5, <2>1 DEF PushLoad, StreamIsRendered, InstalledIsRendered, wireVars, agentVars
<1>6. ASSUME NEW g \in Pushers, PushSend(g) PROVE StreamIsRendered'
  <2> DEFINE policy == pushers[g].read
             m == DeltaUpdate(Delta(sess.lastSent, policy))
  <2>1. \A k \in Pushers : RenderedIn(hist, pushers'[k].read)
    <3>1. \E q \in {IdlePusher, [pc |-> "pushed", read |-> Empty]} :
              pushers' = [pushers EXCEPT ![g] = q]
      BY <1>6 DEF PushSend
    <3>2. PICK q : q.read = Empty /\ pushers' = [pushers EXCEPT ![g] = q]
      BY <1>n, <3>1
    <3>3. \A k \in Pushers : pushers'[k].read \in {Empty, pushers[k].read}
      BY <3>2 DEF TypeOK
    <3> QED BY <1>e, <3>3 DEF StreamIsRendered
  <2>2. CASE UNCHANGED <<sess, down>>
    BY <1>6, <2>1, <2>2 DEF PushSend, StreamIsRendered, InstalledIsRendered, agentVars
  <2>3. CASE /\ sess.lastSent # Empty /\ ~(policy.version <= sess.lastSent.version)
             /\ down' = Append(down, m)
             /\ sess' = [sess EXCEPT !.lastSent = policy]
    <3>1. policy \in Policies /\ sess.lastSent \in Policies /\ sess \in SessionStates
      BY DEF TypeOK, SessionStates, PusherStates
    <3>2. RenderedIn(hist, sess.lastSent) /\ RenderedIn(hist, policy) /\ RenderedIn(hist, sess.read)
      BY DEF StreamIsRendered
    <3>3. sess.lastSent.version \in 1..Len(hist) /\ sess.lastSent = hist[sess.lastSent.version]
      BY <2>3, <3>2 DEF RenderedIn
    <3>4. policy # Empty
      BY <2>3, <3>1, <3>3 DEF Empty
    <3>5. policy.version \in 1..Len(hist) /\ policy = hist[policy.version]
      BY <3>2, <3>4 DEF RenderedIn
    <3>6. m.type = "delta" /\ m.delta = Delta(sess.lastSent, policy)
      BY DEF DeltaUpdate
    <3>7. m \in Messages
      BY <3>1, DeltaType DEF DeltaUpdate, Messages
    <3>8. RenderedMessage(hist, m)
      BY <3>3, <3>5, <3>6 DEF RenderedMessage
    <3>9. \A i \in 1..Len(down') : RenderedMessage(hist, down'[i])
      BY <2>3, <3>7, <3>8, AppendRendered DEF StreamIsRendered, TypeOK
    <3>10. sess'.lastSent = policy /\ sess'.read = sess.read
      BY <2>3, <3>1 DEF SessionStates
    <3> QED BY <1>6, <2>1, <3>2, <3>9, <3>10
            DEF PushSend, StreamIsRendered, InstalledIsRendered, agentVars
  <2> QED BY <1>6, <2>2, <2>3 DEF PushSend
<1>23. ASSUME NEW g \in Pushers, PushRecord(g) PROVE StreamIsRendered'
  <2>1. \A k \in Pushers : RenderedIn(hist, pushers'[k].read)
    BY <1>23, <1>e, <1>n DEF PushRecord, StreamIsRendered, TypeOK
  <2> QED BY <1>23, <2>1 DEF PushRecord, StreamIsRendered, InstalledIsRendered, wireVars, agentVars
<1>7. CASE Open
  <2>1. sess'.read = Empty /\ sess'.lastSent = Empty
    BY <1>7 DEF Open, NoSession
  <2> QED BY <1>7, <1>e, <2>1 DEF Open, StreamIsRendered, InstalledIsRendered, wireVars
<1>8. CASE SendHelloAck
  <2>1. HelloAck \in Messages /\ RenderedMessage(hist, HelloAck)
    BY DEF Messages, HelloAck, RenderedMessage
  <2>2. \A i \in 1..Len(down') : RenderedMessage(hist, down'[i])
    BY <1>8, <2>1, AppendRendered DEF SendHelloAck, StreamIsRendered, TypeOK
  <2>3. sess'.read = sess.read /\ sess'.lastSent = sess.lastSent
    BY <1>8 DEF SendHelloAck, TypeOK, SessionStates
  <2> QED BY <1>8, <2>2, <2>3 DEF SendHelloAck, StreamIsRendered, InstalledIsRendered, agentVars
<1>9. CASE LoadPolicy
  <2>1. /\ hist' \in Seq(Policies) /\ Len(hist') >= Len(hist)
        /\ \A v \in 1..Len(hist) : hist'[v] = hist[v]
        /\ VersionsInOrder'
    <3>1. CASE UNCHANGED hist
      BY <1>a, <3>1 DEF TypeOK
    <3>2. CASE \E content \in Contents : Persist(content)
      BY <1>a, <3>2, PersistFacts DEF TypeOK
    <3> QED BY <1>9, <3>1, <3>2 DEF LoadPolicy
  <2>2. RenderedIn(hist', Latest')
    BY <2>1 DEF RenderedIn, Latest
  <2>3. sess'.read = Latest' /\ sess'.lastSent = sess.lastSent
    BY <1>9 DEF LoadPolicy, TypeOK, SessionStates
  <2> QED BY <1>9, <2>1, <2>2, <2>3, HistoryGrows
          DEF LoadPolicy, StreamIsRendered, InstalledIsRendered, wireVars, agentVars
<1>10. CASE SetTip
  <2>1. sess'.read = sess.read /\ sess'.lastSent = sess.read
    BY <1>10 DEF SetTip, TypeOK, SessionStates
  <2> QED BY <1>10, <2>1 DEF SetTip, StreamIsRendered, InstalledIsRendered, wireVars, agentVars
<1>11. CASE SendSnapshot
  <2>1. sess.read \in Policies /\ RenderedIn(hist, sess.read)
    BY DEF TypeOK, SessionStates, StreamIsRendered
  <2>2. Snapshot(sess.read) \in Messages /\ RenderedMessage(hist, Snapshot(sess.read))
    BY <2>1 DEF Snapshot, Messages, RenderedMessage
  <2>3. \A i \in 1..Len(down') : RenderedMessage(hist, down'[i])
    BY <1>11, <2>2, AppendRendered DEF SendSnapshot, StreamIsRendered, TypeOK
  <2>4. sess'.read = Empty /\ sess'.lastSent = sess.lastSent
    BY <1>11 DEF SendSnapshot, TypeOK, SessionStates
  <2> QED BY <1>11, <1>e, <2>3, <2>4
          DEF SendSnapshot, StreamIsRendered, InstalledIsRendered, agentVars
<1>12. CASE DirectReconnect
  <2>1. Reconnect \in Messages /\ RenderedMessage(hist, Reconnect)
    BY DEF Messages, Reconnect, RenderedMessage
  <2>2. \A i \in 1..Len(down') : RenderedMessage(hist, down'[i])
    BY <1>12, <2>1, AppendRendered DEF DirectReconnect, StreamIsRendered, TypeOK
  <2> QED BY <1>12, <2>2
          DEF DirectReconnect, StreamIsRendered, InstalledIsRendered, gatewayVars, agentVars
<1>13. CASE AckApplied
  <2>1. reader'.read = reader.read
    BY <1>13 DEF AckApplied, TypeOK, ReaderStates
  <2> QED BY <1>13, <2>1 DEF AckApplied, StreamIsRendered, InstalledIsRendered, agentVars
<1>14. CASE RecordApplied
  BY <1>14, <1>e, <1>n
     DEF RecordApplied, StreamIsRendered, InstalledIsRendered, wireVars, agentVars
<1>15. CASE AckFailed
  <2>1. reader'.read = Empty
    BY <1>15 DEF AckFailed, IdleReader
  <2> QED BY <1>15, <1>e, <2>1 DEF AckFailed, StreamIsRendered, InstalledIsRendered, agentVars
<1>24. CASE CheckStale
  <2>1. reader'.read \in {Empty, reader.read}
    BY <1>24, <1>n DEF CheckStale, TypeOK, ReaderStates
  <2> QED BY <1>24, <1>e, <2>1
          DEF CheckStale, StreamIsRendered, InstalledIsRendered, wireVars, agentVars
<1>16. CASE RecoverLoad
  <2>1. reader'.read = Latest
    BY <1>16 DEF RecoverLoad, TypeOK, ReaderStates
  <2> QED BY <1>16, <1>b, <2>1
          DEF RecoverLoad, StreamIsRendered, InstalledIsRendered, wireVars, agentVars
<1>17. CASE RecoverSend
  <2>1. reader.read \in Policies /\ RenderedIn(hist, reader.read)
    BY DEF TypeOK, ReaderStates, StreamIsRendered
  <2>2. Snapshot(reader.read) \in Messages /\ RenderedMessage(hist, Snapshot(reader.read))
    BY <2>1 DEF Snapshot, Messages, RenderedMessage
  <2>3. \A i \in 1..Len(down') : RenderedMessage(hist, down'[i])
    BY <1>17, <2>2, AppendRendered DEF RecoverSend, StreamIsRendered, TypeOK
  <2>4. sess'.read = sess.read /\ sess'.lastSent = reader.read
    BY <1>17 DEF RecoverSend, TypeOK, SessionStates
  <2> QED BY <1>17, <1>e, <1>n, <2>1, <2>3, <2>4
          DEF RecoverSend, StreamIsRendered, InstalledIsRendered, agentVars
<1>18. CASE EndStream
  <2>1. \A g \in Pushers : pushers'[g].read = Empty
    BY <1>18, <1>n DEF EndStream
  <2>2. \A i \in 1..Len(down') : RenderedMessage(hist, down'[i])
    BY <1>18 DEF EndStream
  <2> QED BY <1>18, <1>e, <1>n, <2>1, <2>2 DEF EndStream, StreamIsRendered, InstalledIsRendered
<1>19. CASE Established
  <2>1. \A i \in 1..Len(down') : RenderedMessage(hist, down'[i])
    BY <1>19, TailRendered DEF Established, StreamIsRendered, TypeOK
  <2> QED BY <1>19, <2>1 DEF Established, StreamIsRendered, InstalledIsRendered, gatewayVars
<1>20. ASSUME NEW accepted \in BOOLEAN, ApplySnapshot(accepted) PROVE StreamIsRendered'
  <2>1. \A i \in 1..Len(down') : RenderedMessage(hist, down'[i])
    BY <1>20, TailRendered DEF ApplySnapshot, StreamIsRendered, TypeOK
  <2>2. 1 \in 1..Len(down) /\ Head(down) = down[1]
    BY <1>20 DEF ApplySnapshot, TypeOK
  <2>3. RenderedIn(hist, Head(down).policy)
    BY <1>20, <2>2 DEF ApplySnapshot, StreamIsRendered, RenderedMessage
  <2>4. RenderedIn(hist, agent')
    BY <1>20, <2>3 DEF ApplySnapshot, Answer, StreamIsRendered, InstalledIsRendered
  <2> QED BY <1>20, <2>1, <2>4 DEF ApplySnapshot, StreamIsRendered, InstalledIsRendered, gatewayVars
<1>21. ASSUME NEW accepted \in BOOLEAN, ApplyDelta(accepted) PROVE StreamIsRendered'
  <2>1. \A i \in 1..Len(down') : RenderedMessage(hist, down'[i])
    BY <1>21, TailRendered DEF ApplyDelta, StreamIsRendered, TypeOK
  <2>2. RenderedIn(hist, agent')
    <3>1. CASE agent' = agent
      BY <3>1 DEF StreamIsRendered, InstalledIsRendered
    <3>2. CASE \E b \in 1..Len(hist) : agent' = hist[b]
      BY <3>2 DEF StreamIsRendered, RenderedIn
    <3> QED BY <1>21, <3>1, <3>2, ApplyDeltaFacts
  <2> QED BY <1>21, <2>1, <2>2 DEF ApplyDelta, StreamIsRendered, InstalledIsRendered, gatewayVars
<1>22. CASE UNCHANGED vars
  BY <1>22 DEF vars, gatewayVars, wireVars, agentVars, StreamIsRendered, InstalledIsRendered
<1>25. CASE TakesLock
  BY <1>25, TakingTheLock DEF StreamIsRendered, InstalledIsRendered
<1> QED
  BY <1>1, <1>2, <1>3, <1>4, <1>5, <1>6, <1>7, <1>8, <1>9, <1>10, <1>11, <1>12, <1>13, <1>14,
     <1>15, <1>16, <1>17, <1>18, <1>19, <1>20, <1>21, <1>22, <1>23, <1>24, <1>25
     DEF TakesLock, Next, Handler, Reader, Pusher, Receive, Database, Break, Leave

\* Type correctness: every queue stays within sendQueueDepth, and the fields of
\* the session, of its goroutines and of the registry stay in their ranges.
THEOREM TypeCorrect == Spec => []TypeOK
<1>1. Init => TypeOK /\ StreamIsRendered
  BY TypeInit, StreamInit
<1>2. TypeOK /\ StreamIsRendered /\ [Next]_vars => (TypeOK /\ StreamIsRendered)'
  BY TypeStep, StreamStep
<1> QED BY <1>1, <1>2, PTL DEF Spec

\* Whatever the interleaving of handler, pushers and reader, what the agent
\* holds, what any of them has read, and both ends of every delta in flight are
\* policies the compiler rendered, each at its own version.
THEOREM StreamRendered == Spec => []StreamIsRendered
<1>1. Init => TypeOK /\ StreamIsRendered
  BY TypeInit, StreamInit
<1>2. TypeOK /\ StreamIsRendered /\ [Next]_vars => (TypeOK /\ StreamIsRendered)'
  BY TypeStep, StreamStep
<1> QED BY <1>1, <1>2, PTL DEF Spec

-----------------------------------------------------------------------------
(* Distribution implements DesiredState.                                   *)

\* The operators DesiredState takes from Versioning are the ones used here.
LEMMA SameOperators ==
    /\ Abstract!Latest = Latest /\ Abstract!Contents = Contents
    /\ \A p, c : Abstract!Changed(p, c) = Changed(p, c) /\ Abstract!Plan(p, c) = Plan(p, c)
<1>1. Abstract!Empty = Empty /\ Abstract!Contents = Contents
  BY DEF Abstract!Empty, Empty, Abstract!NoRules, NoRules, Abstract!Contents, Contents,
         Abstract!RuleMaps, RuleMaps, Abstract!Rules, Rules
<1>2. Abstract!Latest = Latest
  BY <1>1 DEF Abstract!Latest, Latest
<1>3. ASSUME NEW p, NEW c PROVE Abstract!Changed(p, c) = Changed(p, c)
  <2>1. Abstract!ChangedIds(p.rules, c.rules) = ChangedIds(p.rules, c.rules)
    BY DEF Abstract!ChangedIds, ChangedIds
  <2>2. Abstract!NoChanges(Abstract!Diff(p, c)) = NoChanges(Diff(p, c))
    BY <2>1 DEF Abstract!NoChanges, NoChanges, Abstract!Diff, Diff
  <2> QED BY <2>2 DEF Abstract!Changed, Changed
<1>4. ASSUME NEW p, NEW c PROVE Abstract!Plan(p, c) = Plan(p, c)
  BY <1>3 DEF Abstract!Plan, Plan, Abstract!AtVersion, AtVersion
<1> QED BY <1>1, <1>2, <1>3, <1>4

\* A snapshot is never the empty policy: a stream is sent nothing before its
\* workload has a persisted version.
SnapshotsAreVersions ==
    /\ sess.pc \in {"read", "tipped"} => sess.read # Empty
    /\ sess.pc \in {"read", "tipped", "streaming"} \/ reader.pc # "idle" => hist # << >>
    /\ reader.pc \in {"resend", "locked"} => reader.read # Empty
    /\ \A i \in 1..Len(down) : down[i].type = "snapshot" => down[i].policy # Empty

\* No snapshot is in flight at first.
LEMMA SnapshotsInit == Init => SnapshotsAreVersions
BY DEF Init, SnapshotsAreVersions, NoSession, IdleReader

\* Once a policy was rendered, what is persisted has a version.
LEMMA LatestIsVersion ==
    ASSUME hist \in Seq(Policies), VersionsInOrder, hist # << >>
    PROVE  Latest # Empty
BY LatestFacts DEF Empty

\* currentPolicy renders before it returns nothing, so every snapshot
\* carries a version.
LEMMA SnapshotsStep ==
    TypeOK /\ StreamIsRendered /\ SnapshotsAreVersions /\ [Next]_vars => SnapshotsAreVersions'
<1> SUFFICES ASSUME TypeOK, StreamIsRendered, SnapshotsAreVersions, [Next]_vars
             PROVE  SnapshotsAreVersions'
  OBVIOUS
<1> USE DEF SnapshotsAreVersions
<1>a. VersionsInOrder
  BY DEF StreamIsRendered, VersionsInOrder
<1>t. /\ sess \in SessionStates /\ reader \in ReaderStates /\ down \in Seq(Messages)
      /\ hist \in Seq(Policies)
  BY DEF TypeOK
<1>1. CASE Render
  <2>1. hist' # << >>
    BY <1>1, <1>a, PersistFacts DEF Render, TypeOK
  <2> QED BY <1>1, <2>1 DEF Render, gatewayVars, wireVars
<1>2. CASE Announce \/ ListenerReady \/ (\E g \in Pushers : PushLoad(g) \/ PushRecord(g))
  BY <1>2 DEF Announce, ListenerReady, PushLoad, PushRecord, wireVars
<1>3. CASE LoseListener
  BY <1>3 DEF LoseListener, gatewayVars, wireVars
<1>4. ASSUME NEW g \in Pushers, PushSend(g) PROVE SnapshotsAreVersions'
  <2>1. sess'.pc = sess.pc /\ sess'.read = sess.read
    BY <1>4, <1>t DEF PushSend, SessionStates
  <2>2. \A i \in 1..Len(down') : down'[i].type = "snapshot" => down'[i].policy # Empty
    <3>1. DeltaUpdate(Delta(sess.lastSent, pushers[g].read)).type = "delta"
      BY DEF DeltaUpdate
    <3>2. down' = down \/ down' = Append(down, DeltaUpdate(Delta(sess.lastSent, pushers[g].read)))
      BY <1>4 DEF PushSend
    <3> HIDE DEF SnapshotsAreVersions
    <3>3. \A i \in 1..Len(down) : down[i].type = "snapshot" => down[i].policy # Empty
      BY DEF SnapshotsAreVersions
    <3> DEFINE m == DeltaUpdate(Delta(sess.lastSent, pushers[g].read))
    <3> HIDE DEF m
    <3>4. CASE down' = Append(down, m)
      <4>1. \A i \in 1..Len(down') : (i \in 1..Len(down) /\ down'[i] = down[i]) \/ down'[i] = m
        BY <1>t, <3>4
      <4> QED BY <3>1, <3>3, <4>1 DEF m
    <3> QED BY <3>2, <3>3, <3>4 DEF m
  <2> QED BY <1>4, <2>1, <2>2 DEF PushSend
<1>5. CASE Open
  <2>1. sess'.pc = "registered"
    BY <1>5 DEF Open, NoSession
  <2> QED BY <1>5, <2>1 DEF Open, wireVars
<1>6. CASE SendHelloAck
  <2>1. sess'.pc = "acked"
    BY <1>6, <1>t DEF SendHelloAck, SessionStates
  <2> QED BY <1>6, <1>t, <2>1 DEF SendHelloAck, HelloAck
<1>7. CASE LoadPolicy
  <2>1. hist' \in Seq(Policies) /\ VersionsInOrder' /\ hist' # << >>
    BY <1>7, <1>a, <1>t, PersistFacts DEF LoadPolicy, TypeOK, VersionsInOrder
  <2>2. Latest'.version = Len(hist') /\ Len(hist') > 0
    BY <2>1 DEF VersionsInOrder, Latest
  <2>3. sess'.read # Empty
    BY <1>7, <1>t, <2>2 DEF LoadPolicy, SessionStates, Empty
  <2> QED BY <1>7, <2>1, <2>3 DEF LoadPolicy, wireVars
<1>8. CASE SetTip
  <2>1. sess.pc = "read" /\ sess'.read = sess.read
    BY <1>8, <1>t DEF SetTip, SessionStates
  <2> QED BY <1>8, <2>1 DEF SetTip, wireVars
<1>9. CASE SendSnapshot
  <2>1. sess.read # Empty /\ hist # << >> /\ sess'.pc = "streaming"
    BY <1>9, <1>t DEF SendSnapshot, SessionStates
  <2>2. \A i \in 1..Len(down') : down'[i].type = "snapshot" => down'[i].policy # Empty
    BY <1>9, <1>t, <2>1 DEF SendSnapshot, Snapshot
  <2> QED BY <1>9, <2>1, <2>2 DEF SendSnapshot
<1>10. CASE DirectReconnect
  BY <1>10, <1>t DEF DirectReconnect, Reconnect, gatewayVars
<1>11. CASE AckApplied
  <2>1. reader'.pc = "record" /\ hist # << >>
    BY <1>11, <1>t DEF AckApplied, ReaderStates
  <2> QED BY <1>11, <2>1 DEF AckApplied
<1>12. CASE RecordApplied
  BY <1>12 DEF RecordApplied, IdleReader, wireVars
<1>13. CASE AckFailed
  <2>1. reader'.pc = "failed" /\ hist # << >>
    BY <1>13 DEF AckFailed, IdleReader
  <2> QED BY <1>13, <2>1 DEF AckFailed
<1>19. CASE CheckStale
  <2>1. reader'.pc \in {"idle", "recover"} /\ hist # << >>
    BY <1>19, <1>t DEF CheckStale, IdleReader, ReaderStates
  <2> QED BY <1>19, <2>1 DEF CheckStale, wireVars
<1>14. CASE RecoverLoad
  <2>1. hist # << >> /\ reader'.read = Latest
    BY <1>14, <1>t DEF RecoverLoad, ReaderStates
  <2> QED BY <1>14, <1>a, <1>t, <2>1, LatestIsVersion DEF RecoverLoad, wireVars
<1>15. CASE RecoverSend
  <2>1. reader.read # Empty /\ sess'.pc = sess.pc /\ sess'.read = sess.read
    BY <1>15, <1>t DEF RecoverSend, SessionStates
  <2>2. \A i \in 1..Len(down') : down'[i].type = "snapshot" => down'[i].policy # Empty
    BY <1>15, <1>t, <2>1 DEF RecoverSend, Snapshot
  <2> QED BY <1>15, <2>1, <2>2 DEF RecoverSend, IdleReader
<1>16. CASE EndStream
  BY <1>16 DEF EndStream, NoSession, IdleReader
<1>17. CASE down # << >> /\ down' = Tail(down) /\ UNCHANGED <<hist, gatewayVars>>
  <2>1. \A i \in 1..Len(down') : i + 1 \in 1..Len(down) /\ down'[i] = down[i + 1]
    BY <1>17, <1>t
  <2> QED BY <1>17, <2>1 DEF gatewayVars
<1>18. CASE UNCHANGED vars
  BY <1>18 DEF vars, gatewayVars, wireVars
<1>20. CASE TakesLock
  BY <1>20, TakingTheLock
<1> HIDE DEF SnapshotsAreVersions
<1> QED
  BY <1>1, <1>2, <1>3, <1>4, <1>5, <1>6, <1>7, <1>8, <1>9, <1>10, <1>11, <1>12, <1>13, <1>14,
     <1>15, <1>16, <1>17, <1>18, <1>19, <1>20
     DEF TakesLock, Next, Handler, Reader, Pusher, Receive, Database, Break, Leave, Established,
         ApplySnapshot, ApplyDelta

\* Every step of the stream is a render, an installation of a rendered version
\* or invisible to whoever only sees what was rendered and what is installed.
LEMMA AbstractStep ==
    TypeOK /\ StreamIsRendered /\ SnapshotsAreVersions /\ [Next]_vars
        => [Abstract!Next]_<<hist, agent>>
<1> SUFFICES ASSUME TypeOK, StreamIsRendered, SnapshotsAreVersions, [Next]_vars
             PROVE  [Abstract!Next]_<<hist, agent>>
  OBVIOUS
<1>1. ASSUME NEW content \in Contents, Persist(content), agent' = agent
      PROVE  Abstract!Next
  BY <1>1, SameOperators DEF Persist, Abstract!Next, Abstract!Render
<1>2. ASSUME NEW accepted \in BOOLEAN, ApplySnapshot(accepted)
      PROVE  [Abstract!Next]_<<hist, agent>>
  <2>1. 1 \in 1..Len(down) /\ Head(down) = down[1] /\ Head(down).type = "snapshot"
    BY <1>2 DEF ApplySnapshot, TypeOK
  <2>2. RenderedIn(hist, Head(down).policy) /\ Head(down).policy # Empty
    BY <2>1 DEF StreamIsRendered, RenderedMessage, SnapshotsAreVersions
  <2>3. hist' = hist /\ agent' \in {agent, Head(down).policy}
    BY <1>2 DEF ApplySnapshot, Answer
  <2> QED BY <2>2, <2>3 DEF RenderedIn, Abstract!Next, Abstract!Install
<1>3. ASSUME NEW accepted \in BOOLEAN, ApplyDelta(accepted)
      PROVE  [Abstract!Next]_<<hist, agent>>
  <2>1. hist' = hist
    BY <1>3 DEF ApplyDelta
  <2> QED BY <1>3, <2>1, ApplyDeltaFacts DEF Abstract!Next, Abstract!Install
<1>4. CASE UNCHANGED <<hist, agent>>
  BY <1>4
<1> QED
  BY <1>1, <1>2, <1>3, <1>4
     DEF Next, Handler, Reader, Pusher, Receive, Database, Break, Leave, Render, Announce,
         LoseListener, ListenerReady, PushLoad, PushLock, PushSend, PushRecord, Open,
         SendHelloAck,
         LoadPolicy, SetTip, SendSnapshot, DirectReconnect, AckApplied, RecordApplied,
         AckFailed, CheckStale, RecoverLoad, RecoverLock,
         RecoverSend, EndStream, Established, vars, agentVars

\* The initial states map to initial states of DesiredState.
LEMMA AbstractInit == Init => Abstract!Init
BY SameOperators DEF Init, Abstract!Init, Abstract!Empty, Empty, Abstract!NoRules, NoRules

\* Distribution implements the abstract promise: seen from outside, the agent
\* goes from rendered version to rendered version and never holds a mixture.
THEOREM DistributionImplementsDesiredState == Spec => ImplementsDesiredState
<1>1. Init => TypeOK /\ StreamIsRendered /\ SnapshotsAreVersions
  BY TypeInit, StreamInit, SnapshotsInit
<1>2. TypeOK /\ StreamIsRendered /\ SnapshotsAreVersions /\ [Next]_vars
        => (TypeOK /\ StreamIsRendered /\ SnapshotsAreVersions)'
  BY TypeStep, StreamStep, SnapshotsStep
<1> QED BY <1>1, <1>2, AbstractInit, AbstractStep, PTL DEF Spec, ImplementsDesiredState, Abstract!Spec

-----------------------------------------------------------------------------
(* Recovery snapshots and the recorded version.                            *)

\* An agent off its stream has left nothing of it behind.
OffIsClean == conn = "off" => sess = NoSession /\ reader = IdleReader /\ up = << >>

\* Acknowledgements name rendered versions, so the version read for a recovery
\* snapshot is at least the failed one, which is above the last recovery.
RecoveryInv ==
    /\ OffIsClean
    /\ \A i \in 1..Len(up) : up[i].version <= Len(hist)
    /\ reader.version <= Len(hist)
    /\ reader.pc \in {"recover", "resend", "locked"} => reader.version > sess.recovery
    /\ reader.pc \in {"resend", "locked"} => reader.read.version >= reader.version

\* No recovery snapshot was sent at first.
LEMMA RecoveryInit == Init => RecoveryInv
BY DEF Init, RecoveryInv, OffIsClean, IdleReader

\* The message at the head of the stream names a rendered version.
LEMMA HeadVersions ==
    ASSUME TypeOK, StreamIsRendered, down # << >>
    PROVE  /\ Head(down).type = "snapshot" =>
                Head(down).policy.version \in Nat /\ Head(down).policy.version <= Len(hist)
           /\ Head(down).type = "delta" =>
                Head(down).delta.to \in Nat /\ Head(down).delta.to <= Len(hist)
<1>1. 1 \in 1..Len(down) /\ Head(down) = down[1] /\ hist \in Seq(Policies)
  BY DEF TypeOK
<1>2. ASSUME Head(down).type = "snapshot"
      PROVE  Head(down).policy.version \in Nat /\ Head(down).policy.version <= Len(hist)
  BY <1>1, <1>2 DEF StreamIsRendered, RenderedMessage, RenderedIn, Empty
<1>3. ASSUME Head(down).type = "delta"
      PROVE  Head(down).delta.to \in Nat /\ Head(down).delta.to <= Len(hist)
  <2>1. PICK a \in 1..Len(hist), b \in 1..Len(hist) : Head(down).delta = Delta(hist[a], hist[b])
    BY <1>1, <1>3 DEF StreamIsRendered, RenderedMessage
  <2>2. Head(down).delta.to = b
    BY <2>1 DEF Delta, StreamIsRendered
  <2> QED BY <1>1, <2>2
<1> QED BY <1>2, <1>3

\* One more acknowledgement, of a rendered version.
LEMMA AckStep ==
    ASSUME TypeOK, RecoveryInv, NEW v \in Nat, v <= Len(hist), NEW ok, NEW next,
           Answer(v, ok, next), conn = "live", UNCHANGED <<hist, gatewayVars, conn>>
    PROVE  RecoveryInv'
<1> DEFINE a == Ack(v, IF ok THEN "APPLIED" ELSE "FAILED")
<1>1. a.version = v
  BY DEF Ack
<1>2. up' = Append(up, a)
  BY DEF Answer
<1> HIDE DEF a
<1>3. \A i \in 1..Len(up') : (i \in 1..Len(up) /\ up'[i] = up[i]) \/ up'[i] = a
  BY <1>2 DEF TypeOK
<1>4. \A i \in 1..Len(up') : up'[i].version <= Len(hist)
  BY <1>1, <1>3 DEF RecoveryInv
<1> QED BY <1>4 DEF RecoveryInv, OffIsClean, gatewayVars

\* Every step keeps a recovery snapshot that is about to be sent above the
\* one sent last.
LEMMA RecoveryStep ==
    TypeOK /\ StreamIsRendered /\ RecoveryInv /\ [Next]_vars => RecoveryInv'
<1> SUFFICES ASSUME TypeOK, StreamIsRendered, RecoveryInv, [Next]_vars PROVE RecoveryInv'
  OBVIOUS
<1>a. VersionsInOrder
  BY DEF StreamIsRendered, VersionsInOrder
<1>t. /\ hist \in Seq(Policies) /\ sess \in SessionStates /\ reader \in ReaderStates
      /\ up \in Seq(Acks) /\ \A i \in 1..Len(up) : up[i].version \in Nat
  <2>1. up \in Seq(Acks) /\ \A i \in 1..Len(up) : up[i] \in Acks
    BY DEF TypeOK
  <2> QED BY <2>1 DEF TypeOK, Acks
<1>n. reader.version \in Nat /\ sess.recovery \in Nat /\ reader.read.version \in Nat
  <2>1. reader.read \in Policies
    BY <1>t DEF ReaderStates
  <2> QED BY <1>t, <2>1 DEF SessionStates, ReaderStates, Policies
<1>1. CASE Render
  <2>1. hist' \in Seq(Policies) /\ Len(hist') = Len(hist) + 1
    BY <1>1, <1>a, PersistFacts DEF Render, TypeOK
  <2> QED BY <1>1, <1>t, <1>n, <2>1
          DEF Render, RecoveryInv, OffIsClean, gatewayVars, wireVars, agentVars
<1>2. CASE Announce \/ ListenerReady \/ \E g \in Pushers : PushLoad(g) \/ PushRecord(g)
  BY <1>2 DEF Announce, ListenerReady, PushLoad, PushRecord, RecoveryInv, OffIsClean,
              wireVars, agentVars
<1>3. CASE LoseListener
  BY <1>3 DEF LoseListener, RecoveryInv, OffIsClean, gatewayVars, wireVars, agentVars
<1>4. ASSUME NEW g \in Pushers, PushSend(g) PROVE RecoveryInv'
  <2>1. sess'.recovery = sess.recovery
    BY <1>4, <1>t DEF PushSend, SessionStates
  <2>2. sess = NoSession => sess' = sess
    BY <1>4 DEF PushSend, NoSession
  <2> QED BY <1>4, <2>1, <2>2 DEF PushSend, RecoveryInv, OffIsClean, agentVars
<1>5. CASE Open
  <2>1. sess'.recovery = 0 /\ sess.recovery = 0 /\ conn' = "awaiting"
    BY <1>5 DEF Open, RecoveryInv, OffIsClean, NoSession
  <2> QED BY <1>5, <2>1 DEF Open, RecoveryInv, OffIsClean, wireVars
<1>6. CASE Handler
  <2>1. sess # NoSession /\ conn # "off"
    BY <1>6 DEF Handler, SendHelloAck, LoadPolicy, SetTip, SendSnapshot, NoSession,
                RecoveryInv, OffIsClean
  <2>2. sess'.recovery = sess.recovery /\ UNCHANGED <<reader, up, conn>>
    BY <1>6, <1>t DEF Handler, SendHelloAck, LoadPolicy, SetTip, SendSnapshot, SessionStates,
                      wireVars, agentVars
  <2>3. hist' \in Seq(Policies) /\ Len(hist') >= Len(hist)
    <3>1. CASE UNCHANGED hist
      BY <1>t, <3>1
    <3>2. CASE \E content \in Contents : Persist(content)
      BY <1>a, <1>t, <3>2, PersistFacts DEF TypeOK
    <3> QED BY <1>6, <3>1, <3>2 DEF Handler, SendHelloAck, LoadPolicy, SetTip, SendSnapshot
  <2> QED BY <1>t, <1>n, <2>1, <2>2, <2>3 DEF RecoveryInv, OffIsClean
<1>7. CASE DirectReconnect
  BY <1>7 DEF DirectReconnect, RecoveryInv, OffIsClean, gatewayVars, agentVars
<1>8. CASE AckApplied
  <2>1. conn # "off"
    BY <1>8 DEF AckApplied, RecoveryInv, OffIsClean, NoSession
  <2>2. \A i \in 1..Len(up') : i + 1 \in 1..Len(up) /\ up'[i] = up[i + 1]
    BY <1>8, <1>t DEF AckApplied
  <2>3. 1 \in 1..Len(up) /\ Head(up) = up[1]
    BY <1>8, <1>t DEF AckApplied
  <2>4. reader'.pc = "record" /\ reader'.version = Head(up).version
    BY <1>8, <1>t DEF AckApplied, ReaderStates
  <2> QED BY <1>8, <2>1, <2>2, <2>3, <2>4 DEF AckApplied, RecoveryInv, OffIsClean, agentVars
<1>9. CASE RecordApplied
  BY <1>9, <1>t DEF RecordApplied, RecoveryInv, OffIsClean, IdleReader, wireVars, agentVars
<1>10. CASE AckFailed
  <2>1. conn # "off"
    BY <1>10 DEF AckFailed, RecoveryInv, OffIsClean, NoSession
  <2>2. \A i \in 1..Len(up') : i + 1 \in 1..Len(up) /\ up'[i] = up[i + 1]
    BY <1>10, <1>t DEF AckFailed
  <2>3. 1 \in 1..Len(up) /\ Head(up) = up[1] /\ Head(up).version \in Nat
    BY <1>10, <1>t DEF AckFailed
  <2>4. reader'.pc = "failed" /\ reader'.version = Head(up).version
    BY <1>10 DEF AckFailed, IdleReader
  <2> QED BY <1>10, <1>n, <1>t, <2>1, <2>2, <2>3, <2>4
          DEF AckFailed, RecoveryInv, OffIsClean, IdleReader, agentVars
<1>18. CASE CheckStale
  <2>1. conn # "off"
    BY <1>18 DEF CheckStale, RecoveryInv, OffIsClean, IdleReader
  <2>2. \/ reader' = IdleReader
        \/ /\ reader'.pc = "recover" /\ reader'.version = reader.version
           /\ ~(reader.version <= sess.recovery)
    BY <1>18, <1>t DEF CheckStale, ReaderStates
  <2> QED BY <1>18, <1>n, <1>t, <2>1, <2>2
          DEF CheckStale, RecoveryInv, OffIsClean, IdleReader, wireVars, agentVars
<1>11. CASE RecoverLoad
  <2>1. conn # "off"
    BY <1>11 DEF RecoverLoad, RecoveryInv, OffIsClean, IdleReader
  <2>2. /\ reader'.version = reader.version /\ reader'.read = Latest /\ reader'.pc = "resend"
        /\ Latest.version = Len(hist)
    BY <1>11, <1>a, <1>t, LatestFacts DEF RecoverLoad, ReaderStates
  <2> QED BY <1>11, <1>n, <1>t, <2>1, <2>2
          DEF RecoverLoad, RecoveryInv, OffIsClean, wireVars, agentVars
<1>12. CASE RecoverSend
  <2>1. conn # "off"
    BY <1>12 DEF RecoverSend, RecoveryInv, OffIsClean, IdleReader
  <2> QED BY <1>12, <1>t, <2>1 DEF RecoverSend, RecoveryInv, OffIsClean, IdleReader, agentVars
<1>19. CASE TakesLock
  <2>1. reader' = reader \/ conn # "off"
    BY <1>19, TakingTheLock DEF RecoveryInv, OffIsClean, IdleReader
  <2> QED BY <1>19, <2>1, TakingTheLock DEF RecoveryInv, OffIsClean
<1>13. CASE EndStream
  BY <1>13, <1>t DEF EndStream, RecoveryInv, OffIsClean, IdleReader
<1>14. CASE Established
  BY <1>14 DEF Established, RecoveryInv, OffIsClean, gatewayVars
<1>15. ASSUME NEW accepted \in BOOLEAN, ApplySnapshot(accepted) PROVE RecoveryInv'
  BY <1>15, HeadVersions, AckStep DEF ApplySnapshot
<1>16. ASSUME NEW accepted \in BOOLEAN, ApplyDelta(accepted) PROVE RecoveryInv'
  BY <1>16, HeadVersions, AckStep DEF ApplyDelta
<1>17. CASE UNCHANGED vars
  BY <1>17 DEF vars, gatewayVars, wireVars, agentVars, RecoveryInv, OffIsClean
<1> QED
  BY <1>1, <1>2, <1>3, <1>4, <1>5, <1>6, <1>7, <1>8, <1>9, <1>10, <1>11, <1>12, <1>13, <1>14,
     <1>15, <1>16, <1>17, <1>18, <1>19
     DEF TakesLock, Next, Reader, Pusher, Receive, Database, Break, Leave

\* "Sending the same snapshot again would loop": the recovery snapshots of one
\* stream have strictly increasing versions, so there are finitely many of them.
THEOREM RecoverySnapshotsAdvance == Spec => RecoveryAdvances
<1>1. Init => TypeOK /\ StreamIsRendered /\ RecoveryInv
  BY TypeInit, StreamInit, RecoveryInit
<1>2. TypeOK /\ StreamIsRendered /\ RecoveryInv /\ [Next]_vars
        => (TypeOK /\ StreamIsRendered /\ RecoveryInv)'
  BY TypeStep, StreamStep, RecoveryStep
<1>3. TypeOK /\ RecoveryInv => [RecoverSend => sess'.recovery > sess.recovery]_vars
  <2> SUFFICES ASSUME TypeOK, RecoveryInv, RecoverSend PROVE sess'.recovery > sess.recovery
    OBVIOUS
  <2>1. /\ sess \in SessionStates /\ reader.version \in Nat /\ sess.recovery \in Nat
        /\ reader.read \in Policies
    BY DEF TypeOK, SessionStates, ReaderStates
  <2>2. reader.read.version \in Nat
    BY <2>1 DEF Policies
  <2>3. sess'.recovery = reader.read.version
    BY <2>1 DEF RecoverSend, SessionStates
  <2> QED BY <2>1, <2>2, <2>3 DEF RecoverSend, RecoveryInv
<1> QED BY <1>1, <1>2, <1>3, PTL DEF Spec, RecoveryAdvances

\* Where the version the agent holds is on its way to the registry: in the last
\* APPLIED acknowledgement of the stream, in the reader's hands, or recorded.
FailedOnly(acks) == \A i \in 1..Len(acks) : acks[i].status = "FAILED"

InAck ==
    \E i \in 1..Len(up) :
        /\ up[i].status = "APPLIED" /\ up[i].version = agent.version
        /\ \A j \in 1..Len(up) : j > i => up[j].status = "FAILED"

InReader == FailedOnly(up) /\ reader.pc = "record" /\ reader.version = agent.version

InRegistry == FailedOnly(up) /\ reader.pc # "record" /\ applied = agent.version

RecordedInv == OffIsClean /\ (conn # "off" => InAck \/ InReader \/ InRegistry)

\* No stream is open at first.
LEMMA RecordedInit == Init => RecordedInv
BY DEF Init, RecordedInv, OffIsClean

\* The agent's answer is the last acknowledgement.
LEMMA RecordedAnswer ==
    ASSUME TypeOK, RecordedInv, conn = "live", NEW v \in Nat, NEW ok, NEW next,
           ok => next.version = v,
           Answer(v, ok, next), UNCHANGED <<gatewayVars, conn, registryVars>>
    PROVE  RecordedInv'
<1> DEFINE a == Ack(v, IF ok THEN "APPLIED" ELSE "FAILED")
<1>1. up' = Append(up, a) /\ a.version = v /\ a.status = (IF ok THEN "APPLIED" ELSE "FAILED")
  BY DEF Answer, Ack
<1> HIDE DEF a
<1>2. /\ up \in Seq(Acks) /\ Len(up') = Len(up) + 1 /\ up'[Len(up) + 1] = a
      /\ \A i \in 1..Len(up) : up'[i] = up[i]
  BY <1>1 DEF TypeOK
<1>3. Len(up) \in Nat
  BY <1>2
<1>4. CASE ok
  <2>1. agent'.version = v
    BY <1>4 DEF Answer
  <2>2. InAck'
    BY <1>1, <1>2, <1>3, <1>4, <2>1 DEF InAck
  <2> QED BY <2>2 DEF RecordedInv, OffIsClean
<1>5. CASE ~ok
  <2>1. agent' = agent /\ a.status = "FAILED"
    BY <1>1, <1>5 DEF Answer
  <2>2. InAck => InAck'
    BY <1>2, <1>3, <2>1 DEF InAck
  <2>3. FailedOnly(up) => FailedOnly(up')
    BY <1>2, <1>3, <2>1 DEF FailedOnly
  <2> QED BY <2>1, <2>2, <2>3
          DEF RecordedInv, OffIsClean, InReader, InRegistry, gatewayVars, registryVars
<1> QED BY <1>4, <1>5

\* Every step keeps the agent's version in the last acknowledgement, in the
\* reader's hand or in the registry.
LEMMA RecordedStep == TypeOK /\ StreamIsRendered /\ RecordedInv /\ [Next]_vars => RecordedInv'
<1> SUFFICES ASSUME TypeOK, StreamIsRendered, RecordedInv, [Next]_vars PROVE RecordedInv'
  OBVIOUS
<1>t. up \in Seq(Acks) /\ reader \in ReaderStates
  BY DEF TypeOK
<1> DEFINE Frame == UNCHANGED <<up, reader, agent, applied, conn>>
<1>1. CASE Frame /\ (conn = "off" => sess' = sess)
  BY <1>1 DEF RecordedInv, OffIsClean, InAck, InReader, InRegistry, FailedOnly
<1>2. CASE Open
  <2>1. up' = << >> /\ reader'.pc = "idle" /\ applied' = agent'.version
    BY <1>2 DEF Open, RecordedInv, OffIsClean, IdleReader, wireVars
  <2> QED BY <1>2, <2>1 DEF Open, RecordedInv, OffIsClean, InRegistry, FailedOnly
<1>3. CASE AckApplied \/ AckFailed
  <2>1. conn # "off" /\ conn' = conn /\ agent' = agent /\ applied' = applied
    BY <1>3 DEF AckApplied, AckFailed, RecordedInv, OffIsClean, NoSession, agentVars, registryVars
  <2>2. /\ up # << >> /\ Len(up') = Len(up) - 1 /\ Len(up) \in Nat /\ Len(up) > 0
        /\ \A i \in 1..Len(up') : up'[i] = up[i + 1]
        /\ Head(up) = up[1] /\ reader.pc = "idle"
    BY <1>3, <1>t DEF AckApplied, AckFailed
  <2>3. ASSUME NEW i \in 1..Len(up), i > 1, up[i].status = "APPLIED", up[i].version = agent.version,
               \A j \in 1..Len(up) : j > i => up[j].status = "FAILED"
        PROVE  InAck'
    <3>1. i - 1 \in 1..Len(up') /\ up'[i - 1] = up[i]
      BY <2>2, <2>3
    <3>2. \A j \in 1..Len(up') : j > i - 1 => up'[j].status = "FAILED"
      BY <2>2, <2>3
    <3> QED BY <2>1, <2>3, <3>1, <3>2 DEF InAck
  <2>4. CASE AckApplied
    <3>1. reader'.pc = "record" /\ reader'.version = up[1].version /\ up[1].status = "APPLIED"
      BY <2>2, <2>4, <1>t DEF AckApplied, ReaderStates
    <3>2. InAck
      BY <2>1, <2>2, <3>1 DEF RecordedInv, InReader, InRegistry, FailedOnly
    <3>3. PICK i \in 1..Len(up) : /\ up[i].status = "APPLIED" /\ up[i].version = agent.version
                                  /\ \A j \in 1..Len(up) : j > i => up[j].status = "FAILED"
      BY <3>2 DEF InAck
    <3>4. CASE i = 1
      <4>1. FailedOnly(up')
        BY <2>2, <3>3, <3>4 DEF FailedOnly
      <4> QED BY <2>1, <3>1, <3>3, <3>4, <4>1 DEF RecordedInv, OffIsClean, InReader
    <3>5. CASE i > 1
      BY <2>1, <2>3, <3>3, <3>5 DEF RecordedInv, OffIsClean
    <3> QED BY <3>4, <3>5
  <2>5. CASE AckFailed
    <3>1. reader'.pc # "record" /\ up[1].status = "FAILED"
      BY <2>2, <2>5 DEF AckFailed, IdleReader
    <3>2. CASE InAck
      <4>1. PICK i \in 1..Len(up) : /\ up[i].status = "APPLIED" /\ up[i].version = agent.version
                                    /\ \A j \in 1..Len(up) : j > i => up[j].status = "FAILED"
        BY <3>2 DEF InAck
      <4>2. i > 1
        BY <3>1, <4>1
      <4> QED BY <2>1, <2>3, <4>1, <4>2 DEF RecordedInv, OffIsClean
    <3>3. CASE InRegistry
      <4>1. FailedOnly(up')
        BY <2>2, <3>3 DEF InRegistry, FailedOnly
      <4> QED BY <2>1, <3>1, <3>3, <4>1 DEF RecordedInv, OffIsClean, InRegistry
    <3> QED BY <2>1, <2>2, <3>2, <3>3 DEF RecordedInv, InReader
  <2> QED BY <1>3, <2>4, <2>5
<1>4. CASE RecordApplied
  <2>1. UNCHANGED <<up, agent, conn, sess>> /\ applied' = reader.version /\ reader' = IdleReader
    BY <1>4 DEF RecordApplied, wireVars, agentVars
  <2>2. InAck => InAck'
    BY <2>1 DEF InAck
  <2>3. InReader => InRegistry'
    BY <2>1 DEF InReader, InRegistry, IdleReader, FailedOnly
  <2> QED BY <1>4, <2>1, <2>2, <2>3 DEF RecordApplied, RecordedInv, OffIsClean, InRegistry
<1>5. CASE CheckStale \/ RecoverLoad \/ RecoverLock \/ RecoverSend
  <2>1. /\ UNCHANGED <<up, agent, conn, applied>> /\ reader.pc # "idle"
        /\ reader.pc # "record" /\ reader'.pc # "record"
    <3>1. CASE RecoverLoad
      BY <1>t, <3>1 DEF RecoverLoad, ReaderStates, wireVars, agentVars, registryVars
    <3>2. CASE RecoverSend
      BY <3>2 DEF RecoverSend, IdleReader, agentVars, registryVars
    <3>3. CASE CheckStale
      BY <1>t, <3>3 DEF CheckStale, IdleReader, ReaderStates, wireVars, agentVars, registryVars
    <3>4. CASE RecoverLock
      BY <1>t, <3>4 DEF RecoverLock, ReaderStates, wireVars, agentVars, registryVars
    <3> QED BY <1>5, <3>1, <3>2, <3>3, <3>4
  <2>2. conn # "off"
    BY <2>1 DEF RecordedInv, OffIsClean, IdleReader
  <2>3. InAck => InAck'
    BY <2>1 DEF InAck
  <2> QED BY <2>1, <2>2, <2>3 DEF RecordedInv, OffIsClean, InReader, InRegistry, FailedOnly
<1>6. CASE EndStream
  BY <1>6 DEF EndStream, RecordedInv, OffIsClean
<1>7. CASE Established
  BY <1>7 DEF Established, RecordedInv, OffIsClean, InAck, InReader, InRegistry, FailedOnly,
              gatewayVars, registryVars
<1>8. ASSUME NEW accepted \in BOOLEAN, ApplySnapshot(accepted) PROVE RecordedInv'
  BY <1>8, HeadVersions, RecordedAnswer DEF ApplySnapshot
<1>9. ASSUME NEW accepted \in BOOLEAN, ApplyDelta(accepted) PROVE RecordedInv'
  <2>1. Apply(agent, Head(down).delta).version = Head(down).delta.to
    BY DEF Apply
  <2> QED BY <1>9, <2>1, HeadVersions, RecordedAnswer DEF ApplyDelta
<1>10. CASE Handler
  <2>1. sess # NoSession
    BY <1>10 DEF Handler, SendHelloAck, LoadPolicy, SetTip, SendSnapshot, NoSession
  <2> QED BY <1>1, <1>10, <2>1
          DEF Handler, SendHelloAck, LoadPolicy, SetTip, SendSnapshot, RecordedInv, OffIsClean,
              wireVars, agentVars, registryVars
<1>11. ASSUME NEW g \in Pushers, PushSend(g) PROVE RecordedInv'
  <2>1. sess = NoSession => sess' = sess
    BY <1>11 DEF PushSend, NoSession
  <2> QED BY <1>1, <1>11, <2>1 DEF PushSend, RecordedInv, OffIsClean, agentVars, registryVars
<1>12. CASE \/ Database \/ DirectReconnect \/ UNCHANGED vars
            \/ \E g \in Pushers : PushLoad(g) \/ PushLock(g) \/ PushRecord(g)
  BY <1>1, <1>12
     DEF Database, Render, Announce, LoseListener, ListenerReady, DirectReconnect, PushLoad,
         PushLock, PushRecord, vars, gatewayVars, wireVars, agentVars, registryVars
<1> QED
  BY <1>2, <1>3, <1>4, <1>5, <1>6, <1>7, <1>8, <1>9, <1>10, <1>11, <1>12
     DEF Next, Reader, Pusher, Receive, Break, Leave

\* Whenever the stream is at rest, the registry shows the version the agent
\* holds, whichever applies failed and however late the registry was written.
THEOREM RecordedVersionIsInstalled == Spec => []RecordedIsInstalled
<1>1. Init => TypeOK /\ StreamIsRendered /\ RecordedInv
  BY TypeInit, StreamInit, RecordedInit
<1>2. TypeOK /\ StreamIsRendered /\ RecordedInv /\ [Next]_vars
        => (TypeOK /\ StreamIsRendered /\ RecordedInv)'
  BY TypeStep, StreamStep, RecordedStep
<1>3. RecordedInv => RecordedIsInstalled
  BY DEF RecordedInv, RecordedIsInstalled, Quiet, InAck, InReader, InRegistry
<1> QED BY <1>1, <1>2, <1>3, PTL DEF Spec

-----------------------------------------------------------------------------
(* The recorded state.                                                     *)

IsUpdate(m) == m.type \in {"snapshot", "delta"}

Target(m) == IF m.type = "snapshot" THEN m.policy.version ELSE m.delta.to

NoUpdates(d) == \A i \in 1..Len(d) : ~IsUpdate(d[i])

\* The last policy update of a queue is of version v at most.
LastUpTo(d, v) ==
    \A i \in 1..Len(d) :
        IsUpdate(d[i]) /\ (\A j \in 1..Len(d) : j > i => ~IsUpdate(d[j])) => Target(d[i]) <= v

\* The state the registry shows once the reader has recorded what it decided.
Decided == IF reader.pc = "record" THEN reader.state ELSE status

\* The last acknowledgement is of the tip at most, and of what the agent holds
\* if it is APPLIED.
LastAck(a) ==
    a.version <= sess.lastSent.version /\ (a.status = "APPLIED" => a.version = agent.version)

\* The last update queued is not above the tip, although a snapshot may be
\* queued behind a later delta and a recovery may take the tip back; what
\* answers it decides the state.
TipInv ==
    /\ reader.pc # "idle" => sess.pc = "streaming"
    /\ sess.pc = "tipped" => sess.read.version <= sess.lastSent.version
    /\ sess.pc = "streaming" =>
          /\ LastUpTo(down, sess.lastSent.version)
          /\ NoUpdates(down) /\ up # << >> => LastAck(up[Len(up)])
          /\ NoUpdates(down) /\ up = << >> /\ Decided = "SYNCED"
                => agent.version = sess.lastSent.version

\* No stream is open at first.
LEMMA TipInit == Init => TipInv
BY DEF Init, TipInv, IdleReader, NoSession

\* A message queued is the last one.
LEMMA QueueAppend ==
    ASSUME NEW d \in Seq(Messages), NEW m \in Messages, NEW v \in Nat
    PROVE  /\ IsUpdate(m) => ~NoUpdates(Append(d, m))
           /\ IsUpdate(m) /\ Target(m) <= v => LastUpTo(Append(d, m), v)
           /\ ~IsUpdate(m) => (NoUpdates(Append(d, m)) <=> NoUpdates(d))
           /\ ~IsUpdate(m) /\ LastUpTo(d, v) => LastUpTo(Append(d, m), v)
<1> DEFINE e == Append(d, m)
<1>1. /\ Len(d) \in Nat /\ Len(e) = Len(d) + 1 /\ e[Len(d) + 1] = m
      /\ \A i \in 1..Len(d) : e[i] = d[i]
  OBVIOUS
<1>2. Len(d) + 1 \in 1..Len(e) /\ \A i \in 1..Len(d) : i \in 1..Len(e)
  BY <1>1
<1>3. \A i \in 1..Len(e) : i = Len(d) + 1 \/ (i \in 1..Len(d) /\ Len(d) + 1 > i)
  BY <1>1
<1> HIDE DEF e
<1>4. IsUpdate(m) => ~NoUpdates(e)
  BY <1>1, <1>2 DEF NoUpdates
<1>5. IsUpdate(m) /\ Target(m) <= v => LastUpTo(e, v)
  BY <1>1, <1>2, <1>3 DEF LastUpTo
<1>6. ~IsUpdate(m) => (NoUpdates(e) <=> NoUpdates(d))
  BY <1>1, <1>2, <1>3 DEF NoUpdates
<1>7. ~IsUpdate(m) /\ LastUpTo(d, v) => LastUpTo(e, v)
  <2> SUFFICES ASSUME ~IsUpdate(m), LastUpTo(d, v), NEW i \in 1..Len(e), IsUpdate(e[i]),
                      \A j \in 1..Len(e) : j > i => ~IsUpdate(e[j])
               PROVE  Target(e[i]) <= v
    BY DEF LastUpTo
  <2>1. i \in 1..Len(d) /\ e[i] = d[i]
    BY <1>1, <1>3
  <2>2. \A j \in 1..Len(d) : j > i => ~IsUpdate(d[j])
    BY <1>1, <1>2
  <2> QED BY <2>1, <2>2 DEF LastUpTo
<1> QED BY <1>4, <1>5, <1>6, <1>7 DEF e

\* What the agent takes off the queue is the first message.
LEMMA QueueTail ==
    ASSUME NEW d \in Seq(Messages), d # << >>, NEW v \in Nat
    PROVE  /\ LastUpTo(d, v) => LastUpTo(Tail(d), v)
           /\ ~IsUpdate(Head(d)) => (NoUpdates(Tail(d)) <=> NoUpdates(d))
           /\ LastUpTo(d, v) /\ IsUpdate(Head(d)) /\ NoUpdates(Tail(d)) => Target(Head(d)) <= v
<1> DEFINE e == Tail(d)
<1>1. /\ Len(d) \in Nat \ {0} /\ Len(e) = Len(d) - 1 /\ Head(d) = d[1]
      /\ \A i \in 1..Len(e) : e[i] = d[i + 1]
  OBVIOUS
<1>2. \A i \in 1..Len(e) : i + 1 \in 1..Len(d) /\ e[i] = d[i + 1]
  BY <1>1
<1>3. \A i \in 1..Len(d) : i = 1 \/ (i > 1 /\ i - 1 \in 1..Len(e) /\ e[i - 1] = d[i])
  BY <1>1
<1> HIDE DEF e
<1>4. LastUpTo(d, v) => LastUpTo(e, v)
  <2> SUFFICES ASSUME LastUpTo(d, v), NEW i \in 1..Len(e), IsUpdate(e[i]),
                      \A j \in 1..Len(e) : j > i => ~IsUpdate(e[j])
               PROVE  Target(e[i]) <= v
    BY DEF LastUpTo
  <2>1. ASSUME NEW j \in 1..Len(d), j > i + 1 PROVE ~IsUpdate(d[j])
    <3>1. j - 1 \in 1..Len(e) /\ e[j - 1] = d[j] /\ j - 1 > i
      BY <1>1, <1>3, <2>1
    <3> QED BY <3>1
  <2> QED BY <1>2, <2>1 DEF LastUpTo
<1>5. ~IsUpdate(d[1]) => (NoUpdates(e) <=> NoUpdates(d))
  BY <1>2, <1>3 DEF NoUpdates
<1>6. LastUpTo(d, v) /\ IsUpdate(d[1]) /\ NoUpdates(e) => Target(d[1]) <= v
  <2> SUFFICES ASSUME LastUpTo(d, v), IsUpdate(d[1]), NoUpdates(e) PROVE Target(d[1]) <= v
    OBVIOUS
  <2>1. \A j \in 1..Len(d) : j > 1 => ~IsUpdate(d[j])
    BY <1>3 DEF NoUpdates
  <2>2. 1 \in 1..Len(d)
    BY <1>1
  <2> QED BY <2>1, <2>2 DEF LastUpTo
<1> QED BY <1>1, <1>4, <1>5, <1>6 DEF e

\* A step that queues an update at the tip, or one at most.
LEMMA TipQueued ==
    ASSUME TypeOK, NEW m \in Messages, IsUpdate(m), down' = Append(down, m),
           sess'.lastSent.version \in Nat, Target(m) <= sess'.lastSent.version,
           reader'.pc # "idle" => sess'.pc = "streaming", sess'.pc # "tipped"
    PROVE  TipInv'
<1>1. LastUpTo(down', sess'.lastSent.version) /\ ~NoUpdates(down')
  BY QueueAppend DEF TypeOK
<1> QED BY <1>1 DEF TipInv

\* The agent's answer is the last acknowledgement, and of the tip at most when
\* no update is left behind it.
LEMMA TipAnswer ==
    ASSUME TypeOK, TipInv, NEW v \in Nat, NEW ok, NEW next, ok => next.version = v,
           down # << >>, IsUpdate(Head(down)), Target(Head(down)) = v, down' = Tail(down),
           Answer(v, ok, next), UNCHANGED <<gatewayVars, registryVars>>
    PROVE  TipInv'
<1> DEFINE a == Ack(v, IF ok THEN "APPLIED" ELSE "FAILED")
<1>1. up' = Append(up, a) /\ a.version = v /\ a.status = (IF ok THEN "APPLIED" ELSE "FAILED")
  BY DEF Answer, Ack
<1> HIDE DEF a
<1>2. up' # << >> /\ up'[Len(up')] = a
  <2>1. Len(up') = Len(up) + 1 /\ up'[Len(up) + 1] = a /\ Len(up) \in Nat
    BY <1>1 DEF TypeOK
  <2>2. up' = << >> => Len(up') = 0
    OBVIOUS
  <2> QED BY <2>1, <2>2
<1>3. a.status = "APPLIED" => agent'.version = v
  BY <1>1 DEF Answer
<1>4. UNCHANGED <<sess, reader, status>> /\ sess.lastSent.version \in Nat
  <2>1. sess.lastSent \in Policies
    BY DEF TypeOK, SessionStates
  <2> QED BY <2>1 DEF gatewayVars, registryVars, Policies
<1>5. CASE sess.pc = "streaming"
  <2>1. LastUpTo(down, sess.lastSent.version)
    BY <1>5 DEF TipInv
  <2>2. LastUpTo(down', sess'.lastSent.version)
    BY <1>4, <2>1, QueueTail DEF TypeOK
  <2>3. NoUpdates(down') => v <= sess'.lastSent.version
    BY <1>4, <2>1, QueueTail DEF TypeOK
  <2> QED BY <1>1, <1>2, <1>3, <1>4, <1>5, <2>2, <2>3 DEF TipInv, LastAck
<1>6. CASE sess.pc # "streaming"
  BY <1>4, <1>6 DEF TipInv
<1> QED BY <1>5, <1>6

\* Every step keeps the last update below the tip and the state decided by
\* its answer.
LEMMA TipStep ==
    TypeOK /\ StreamIsRendered /\ OffIsClean /\ TipInv /\ [Next]_vars => TipInv'
<1> SUFFICES ASSUME TypeOK, StreamIsRendered, OffIsClean, TipInv, [Next]_vars PROVE TipInv'
  OBVIOUS
<1>t. /\ sess \in SessionStates /\ reader \in ReaderStates /\ up \in Seq(Acks)
      /\ down \in Seq(Messages) /\ pushers \in [Pushers -> PusherStates]
  BY DEF TypeOK
<1>n. /\ sess.lastSent \in Policies /\ sess.lastSent.version \in Nat
      /\ sess.read \in Policies /\ sess.read.version \in Nat
      /\ reader.read \in Policies /\ reader.read.version \in Nat
  <2>1. sess.lastSent \in Policies /\ sess.read \in Policies /\ reader.read \in Policies
    BY <1>t DEF SessionStates, ReaderStates
  <2> QED BY <2>1 DEF Policies
<1>1. CASE UNCHANGED <<sess, reader, down, up, agent, status>>
  BY <1>1 DEF TipInv, LastAck, Decided
<1>2. ASSUME NEW g \in Pushers, PushSend(g) PROVE TipInv'
  <2> DEFINE policy == pushers[g].read
  <2> DEFINE m == DeltaUpdate(Delta(sess.lastSent, policy))
  <2>1. UNCHANGED <<reader, up, agent, status>>
    BY <1>2 DEF PushSend, agentVars, registryVars
  <2>2. policy \in Policies /\ policy.version \in Nat
    <3>1. policy \in Policies
      BY <1>t DEF PusherStates
    <3> QED BY <3>1 DEF Policies
  <2>3. CASE sess' = sess /\ down' = down
    BY <1>1, <2>1, <2>3
  <2>4. CASE /\ down' = Append(down, m) /\ sess' = [sess EXCEPT !.lastSent = policy]
             /\ policy.version > sess.lastSent.version
    <3>1. m \in Messages
      BY <1>n, <2>2, DeltaType DEF DeltaUpdate, Messages
    <3>2. IsUpdate(m) /\ Target(m) = policy.version
      BY DEF IsUpdate, Target, DeltaUpdate, Delta
    <3>3. /\ sess'.lastSent = policy /\ sess'.pc = sess.pc /\ sess'.read = sess.read
      BY <2>4, <1>t DEF SessionStates
    <3> HIDE DEF m, policy
    <3>4. CASE sess.pc # "tipped"
      BY <2>1, <2>2, <2>4, <3>1, <3>2, <3>3, <3>4, TipQueued DEF TipInv
    <3>5. CASE sess.pc = "tipped"
      BY <1>n, <2>1, <2>2, <2>4, <3>3, <3>5 DEF TipInv
    <3> QED BY <3>4, <3>5
  <2>5. sess.lastSent = Empty \/ policy.version <= sess.lastSent.version
            \/ policy.version > sess.lastSent.version
    BY <1>n, <2>2
  <2> QED BY <1>2, <1>n, <2>2, <2>3, <2>4 DEF PushSend
<1>3. ASSUME NEW g \in Pushers, PushRecord(g) PROVE TipInv'
  BY <1>3 DEF PushRecord, SetSyncState, TipInv, LastAck, Decided, wireVars, agentVars
<1>4. CASE Open \/ SendHelloAck \/ LoadPolicy
  <2>1. sess'.pc \in {"registered", "acked", "read"} /\ reader' = reader /\ sess.pc # "streaming"
    <3>1. CASE Open
      BY <3>1 DEF Open, OffIsClean, NoSession
    <3>2. CASE SendHelloAck
      BY <3>2, <1>t DEF SendHelloAck, SessionStates
    <3>3. CASE LoadPolicy
      BY <3>3, <1>t DEF LoadPolicy, SessionStates
    <3> QED BY <1>4, <3>1, <3>2, <3>3
  <2> QED BY <2>1 DEF TipInv
<1>5. CASE SetTip
  <2>1. sess'.pc = "tipped" /\ sess'.read = sess.read /\ sess'.lastSent = sess.read
    BY <1>5, <1>t DEF SetTip, SessionStates
  <2> QED BY <1>5, <1>n, <2>1 DEF SetTip, TipInv
<1>6. CASE SendSnapshot
  <2>1. sess'.pc = "streaming" /\ sess'.lastSent = sess.lastSent
    BY <1>6, <1>t DEF SendSnapshot, SessionStates
  <2>2. Snapshot(sess.read) \in Messages /\ IsUpdate(Snapshot(sess.read))
        /\ Target(Snapshot(sess.read)) = sess.read.version
    BY <1>n DEF Snapshot, Messages, IsUpdate, Target
  <2>3. sess.read.version <= sess.lastSent.version
    BY <1>6 DEF SendSnapshot, TipInv
  <2> QED BY <1>6, <1>n, <2>1, <2>2, <2>3, TipQueued DEF SendSnapshot
<1>7. CASE DirectReconnect
  <2>1. Reconnect \in Messages /\ ~IsUpdate(Reconnect)
    BY DEF Messages, Reconnect, IsUpdate
  <2>2. /\ NoUpdates(down') <=> NoUpdates(down)
        /\ LastUpTo(down, sess.lastSent.version) => LastUpTo(down', sess.lastSent.version)
    BY <1>7, <1>n, <1>t, <2>1, QueueAppend DEF DirectReconnect
  <2> QED BY <1>7, <2>2 DEF DirectReconnect, TipInv, LastAck, Decided, gatewayVars, agentVars, registryVars
<1>8. CASE AckApplied
  <2>1. reader'.pc = "record" /\ UNCHANGED <<sess, down, agent, status>> /\ sess.pc = "streaming"
    BY <1>8, <1>t DEF AckApplied, ReaderStates, agentVars, registryVars
  <2>2. /\ Head(up) = up[1] /\ Head(up).version \in Nat /\ Head(up).status = "APPLIED"
        /\ up' = Tail(up) /\ up # << >>
    <3>1. up # << >> /\ Head(up) = up[1] /\ Head(up) \in Acks
      BY <1>8, <1>t DEF AckApplied
    <3> QED BY <1>8, <3>1 DEF AckApplied, Acks
  <2>3. up' # << >> => up'[Len(up')] = up[Len(up)]
    BY <1>t, <2>2
  <2>4. up' = << >> => up[Len(up)] = Head(up)
    <3>1. Len(up) \in Nat /\ Len(up) # 0 /\ Len(Tail(up)) = Len(up) - 1
      BY <1>t, <2>2
    <3>2. up' = << >> => Len(up') = 0
      OBVIOUS
    <3>3. up' = << >> => Len(up) = 1
      BY <2>2, <3>1, <3>2
    <3> QED BY <2>2, <3>3
  <2>5. reader'.state = "SYNCED" => Head(up).version >= sess.lastSent.version
    BY <1>8, <1>t DEF AckApplied, ReaderStates
  <2>6. NoUpdates(down) => LastAck(up[Len(up)])
    BY <2>1, <2>2 DEF TipInv
  <2>7. agent.version \in Nat
    BY DEF TypeOK, Policies
  <2>8. NoUpdates(down) /\ up' = << >> /\ reader'.state = "SYNCED"
            => agent.version = sess.lastSent.version
    BY <1>n, <2>2, <2>4, <2>5, <2>6, <2>7 DEF LastAck
  <2> QED BY <2>1, <2>3, <2>6, <2>8 DEF TipInv, LastAck, Decided
<1>9. CASE RecordApplied
  BY <1>9 DEF RecordApplied, TipInv, LastAck, Decided, IdleReader, wireVars, agentVars
<1>10. CASE AckFailed
  <2>1. /\ reader'.pc = "failed" /\ UNCHANGED <<sess, down, agent>> /\ sess.pc = "streaming"
        /\ status' = "DEGRADED" /\ up' = Tail(up) /\ up # << >>
    BY <1>10 DEF AckFailed, IdleReader, agentVars
  <2>2. up' # << >> => up'[Len(up')] = up[Len(up)]
    BY <1>t, <2>1
  <2> QED BY <2>1, <2>2 DEF TipInv, LastAck, Decided
<1>11. CASE CheckStale \/ RecoverLoad \/ RecoverLock
  <2>1. /\ UNCHANGED <<sess, down, up, agent, status>>
        /\ reader.pc # "idle" /\ reader.pc # "record" /\ reader'.pc # "record"
    <3>1. CASE CheckStale
      BY <1>t, <3>1 DEF CheckStale, IdleReader, ReaderStates, wireVars, agentVars, registryVars
    <3>2. CASE RecoverLoad
      BY <1>t, <3>2 DEF RecoverLoad, ReaderStates, wireVars, agentVars, registryVars
    <3>3. CASE RecoverLock
      BY <1>t, <3>3 DEF RecoverLock, ReaderStates, wireVars, agentVars, registryVars
    <3> QED BY <1>11, <3>1, <3>2, <3>3
  <2> QED BY <2>1 DEF TipInv, LastAck, Decided
<1>12. CASE RecoverSend
  <2>1. sess'.pc = sess.pc /\ sess'.lastSent = reader.read /\ sess.pc = "streaming"
    BY <1>12, <1>t DEF RecoverSend, SessionStates, TipInv
  <2>2. Snapshot(reader.read) \in Messages /\ IsUpdate(Snapshot(reader.read))
        /\ Target(Snapshot(reader.read)) = reader.read.version
    BY <1>n DEF Snapshot, Messages, IsUpdate, Target
  <2> QED BY <1>12, <1>n, <2>1, <2>2, TipQueued DEF RecoverSend
<1>13. CASE EndStream
  BY <1>13 DEF EndStream, TipInv, NoSession, IdleReader
<1>14. CASE Established
  <2>1. down # << >> /\ ~IsUpdate(Head(down)) /\ down' = Tail(down)
    BY <1>14 DEF Established, IsUpdate, HelloAck
  <2>2. /\ NoUpdates(down') <=> NoUpdates(down)
        /\ LastUpTo(down, sess.lastSent.version) => LastUpTo(down', sess.lastSent.version)
    BY <1>n, <1>t, <2>1, QueueTail
  <2> QED BY <1>14, <2>2 DEF Established, TipInv, LastAck, Decided, gatewayVars, registryVars
<1>15. ASSUME NEW accepted \in BOOLEAN, ApplySnapshot(accepted) PROVE TipInv'
  <2>1. IsUpdate(Head(down)) /\ Target(Head(down)) = Head(down).policy.version
    BY <1>15 DEF ApplySnapshot, IsUpdate, Target
  <2> QED BY <1>15, <2>1, HeadVersions, TipAnswer DEF ApplySnapshot
<1>16. ASSUME NEW accepted \in BOOLEAN, ApplyDelta(accepted) PROVE TipInv'
  <2>1. IsUpdate(Head(down)) /\ Target(Head(down)) = Head(down).delta.to
    BY <1>16 DEF ApplyDelta, IsUpdate, Target
  <2>2. Apply(agent, Head(down).delta).version = Head(down).delta.to
    BY DEF Apply
  <2> QED BY <1>16, <2>1, <2>2, HeadVersions, TipAnswer DEF ApplyDelta
<1>17. CASE Database \/ UNCHANGED vars \/ \E g \in Pushers : PushLoad(g) \/ PushLock(g)
  BY <1>1, <1>17
     DEF Database, Render, Announce, LoseListener, ListenerReady, PushLoad, PushLock, vars, gatewayVars,
         wireVars, agentVars, registryVars
<1> QED
  BY <1>2, <1>3, <1>4, <1>5, <1>6, <1>7, <1>8, <1>9, <1>10, <1>11, <1>12, <1>13, <1>14, <1>15,
     <1>16, <1>17
     DEF Next, Handler, Reader, Pusher, Receive, Break, Leave

\* At rest, a workload shown SYNCED holds the tip of its stream: the state that
\* handleAck decides under the lock and writes after it is never the last word
\* once a later update was sent.
THEOREM SyncedAgentIsAtTip == Spec => []SyncedIsAtTip
<1> DEFINE Inv == TypeOK /\ StreamIsRendered /\ RecoveryInv /\ TipInv
<1>1. Init => Inv
  BY TypeInit, StreamInit, RecoveryInit, TipInit
<1>2. Inv /\ [Next]_vars => Inv'
  BY TypeStep, StreamStep, RecoveryStep, TipStep DEF RecoveryInv
<1>3. Inv => SyncedIsAtTip
  BY DEF TipInv, SyncedIsAtTip, Quiet, NoUpdates, Decided
<1> QED BY <1>1, <1>2, <1>3, PTL DEF Spec
=============================================================================
