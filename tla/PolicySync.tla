----------------------------- MODULE PolicySync -----------------------------
(***************************************************************************)
(* Policy distribution to one workload: the renders that persist its       *)
(* policy and announce it, the replica that holds its sync stream          *)
(* (internal/gateway/sync.go), and its agent (internal/agent/sync).        *)
(*                                                                         *)
(* The gateway is several goroutines around one session: the handler that  *)
(* opens the stream (sess.pc), the reader that handles acknowledgements    *)
(* (reader), and a pusher for every announcement delivered (pushers).      *)
(* Each of them reads the persisted policy before it takes the session     *)
(* lock, and each such read, each critical section and each registry       *)
(* write outside a critical section is a step.  The send queue, the writer *)
(* and the wire are one FIFO, down; acknowledgements come up on another.   *)
(*                                                                         *)
(* One stream is open at a time.  What the goroutines of an ended stream   *)
(* and the streams of other replicas do to the registry is module          *)
(* StreamRegistry.  The policy of version 0, Empty, stands for nil: a      *)
(* persisted policy has a version of 1 or more.                            *)
(***************************************************************************)
EXTENDS Versioning, Sequences, FiniteSets

CONSTANTS
    Pushers,      \* pushLatest goroutines that can run at once
    QueueDepth,   \* sendQueueDepth
    StoreFails,   \* whether the store may fail a read or a write
    MaxVersion    \* bound on the versions a behaviour renders

ASSUME QueueAssumption ==
    QueueDepth \in Nat /\ MaxVersion \in Nat /\ StoreFails \in BOOLEAN

VARIABLES
    hist,       \* history: hist[v] is the policy persisted at version v
    listener,   \* the replica's LISTEN connection: "up" or "down"
    notices,    \* announcements on the channel, not yet delivered
    sess,       \* the session, and how far its handler has come
    pushers,    \* pushLatest goroutines
    reader,     \* the reader goroutine's handling of one acknowledgement
    down,       \* messages to the agent, in send order
    up,         \* acknowledgements to the gateway, in send order
    conn,       \* the agent's side of the stream
    agent,      \* the policy the agent's store holds
    applied,    \* registry: the applied version recorded for the workload
    status      \* registry: the sync state recorded for the workload

gatewayVars == <<sess, pushers, reader>>
wireVars == <<down, up>>
agentVars == <<conn, agent>>
registryVars == <<applied, status>>
vars == <<hist, listener, notices, gatewayVars, wireVars, agentVars, registryVars>>

-----------------------------------------------------------------------------
Latest == IF hist = << >> THEN Empty ELSE hist[Len(hist)]

HelloAck == [type |-> "helloAck"]
Reconnect == [type |-> "reconnect"]
Snapshot(p) == [type |-> "snapshot", policy |-> p]
DeltaUpdate(d) == [type |-> "delta", delta |-> d]
Ack(v, s) == [version |-> v, status |-> s]

NoSession == [pc |-> "none", read |-> Empty, lastSent |-> Empty, recovery |-> 0]
IdlePusher == [pc |-> "idle", read |-> Empty]
IdleReader == [pc |-> "idle", version |-> 0, state |-> "PENDING", read |-> Empty]

Registered == sess.pc # "none"

\* session.enqueue blocks while the queue is full.
Room == Len(down) < QueueDepth

\* The session lock: a pusher holds it from before it compares with the tip
\* until it has recorded PENDING, and the reader while it queues a recovery
\* snapshot.  Both keep it while they wait for room in the queue.
Locked ==
    \/ \E g \in Pushers : pushers[g].pc \in {"locked", "pushed"}
    \/ reader.pc = "locked"

\* SetSyncState; a failure is logged and otherwise ignored.
SetSyncState(state) == status' = state \/ (StoreFails /\ status' = status)

Init ==
    /\ hist = << >>
    /\ listener = "down" /\ notices = 0
    /\ sess = NoSession
    /\ pushers = [g \in Pushers |-> IdlePusher]
    /\ reader = IdleReader
    /\ down = << >> /\ up = << >>
    /\ conn = "off" /\ agent = Empty
    /\ applied = 0 /\ status = "OFFLINE"

-----------------------------------------------------------------------------
(* Renders and their announcements.                                        *)

\* A render that changes the workload's policy persists the next version and,
\* in the same transaction, announces it to the listeners there are.
Persist(content) ==
    /\ Len(hist) < MaxVersion
    /\ Changed(Latest, content)
    /\ hist' = Append(hist, Plan(Latest, content))
    /\ notices' = IF listener = "up" THEN notices + 1 ELSE notices

Render ==
    /\ \E content \in Contents : Persist(content)
    /\ UNCHANGED <<listener, gatewayVars, wireVars, agentVars, registryVars>>

StartPusher(g) ==
    /\ pushers[g].pc = "idle"
    /\ pushers' = [pushers EXCEPT ![g] = [pc |-> "started", read |-> Empty]]

\* Run's announcement callback: go pushLatest, if a stream is registered.
Announce ==
    /\ listener = "up" /\ notices > 0
    /\ notices' = notices - 1
    /\ IF Registered THEN \E g \in Pushers : StartPusher(g) ELSE UNCHANGED pushers
    /\ UNCHANGED <<hist, listener, sess, reader, wireVars, agentVars, registryVars>>

\* The LISTEN connection fails; what was announced on it is gone.
LoseListener ==
    /\ listener = "up"
    /\ listener' = "down" /\ notices' = 0
    /\ UNCHANGED <<hist, gatewayVars, wireVars, agentVars, registryVars>>

\* Mutant: a reconnected listener does not reconcile the stream.
MutListenerReady ==
    /\ listener = "down"
    /\ listener' = "up"
    /\ UNCHANGED <<hist, notices, gatewayVars, wireVars, agentVars, registryVars>>

\* LISTEN is in place (again) and onReady reconciles the live stream.
ListenerReady ==
    /\ listener = "down"
    /\ listener' = "up"
    /\ IF Registered THEN \E g \in Pushers : StartPusher(g) ELSE UNCHANGED pushers
    /\ UNCHANGED <<hist, notices, sess, reader, wireVars, agentVars, registryVars>>

-----------------------------------------------------------------------------
(* pushLatest: the policy is read before the session lock is taken.        *)

PushLoad(g) ==
    /\ pushers[g].pc = "started"
    /\ \E read \in {Latest} \cup (IF StoreFails THEN {Empty} ELSE {}) :
          pushers' = [pushers EXCEPT ![g] =
                         IF read = Empty THEN IdlePusher ELSE [pc |-> "loaded", read |-> read]]
    /\ UNCHANGED <<hist, listener, notices, sess, reader, wireVars, agentVars, registryVars>>

PushLock(g) ==
    /\ pushers[g].pc = "loaded" /\ ~Locked
    /\ pushers' = [pushers EXCEPT ![g].pc = "locked"]
    /\ UNCHANGED <<hist, listener, notices, sess, reader, wireVars, agentVars, registryVars>>

\* Under the lock: nothing newer than the tip is let go; a newer policy becomes
\* the tip, which nobody sees before the lock is released, and its delta is
\* queued once there is room.
PushSend(g) ==
    LET policy == pushers[g].read
        stale  == sess.lastSent = Empty \/ policy.version <= sess.lastSent.version
    IN  /\ pushers[g].pc = "locked"
        /\ \/ /\ stale
              /\ pushers' = [pushers EXCEPT ![g] = IdlePusher]
              /\ UNCHANGED <<sess, down>>
           \/ /\ ~stale
              /\ Room
              /\ down' = Append(down, DeltaUpdate(Delta(sess.lastSent, policy)))
              /\ sess' = [sess EXCEPT !.lastSent = policy]
              /\ pushers' = [pushers EXCEPT ![g] = [pc |-> "pushed", read |-> Empty]]
        /\ UNCHANGED <<hist, listener, notices, reader, up, agentVars, registryVars>>

\* Still under the lock.
PushRecord(g) ==
    /\ pushers[g].pc = "pushed"
    /\ pushers' = [pushers EXCEPT ![g] = IdlePusher]
    /\ SetSyncState("PENDING")
    /\ UNCHANGED <<hist, listener, notices, sess, reader, wireVars, agentVars, applied>>

-----------------------------------------------------------------------------
(* Sync: the handler of one stream, from Hello to its snapshot.            *)

\* The agent dials and sends Hello; RecordAgent records the version it claims
\* and the session is registered.
Open ==
    /\ conn = "off"
    /\ conn' = "awaiting"
    /\ applied' = agent.version
    /\ sess' = [NoSession EXCEPT !.pc = "registered"]
    /\ UNCHANGED <<hist, listener, notices, pushers, reader, wireVars, agent, status>>

SendHelloAck ==
    /\ sess.pc = "registered" /\ Room
    /\ sess' = [sess EXCEPT !.pc = "acked"]
    /\ down' = Append(down, HelloAck)
    /\ UNCHANGED <<hist, listener, notices, pushers, reader, up, agentVars, registryVars>>

\* currentPolicy at open.  A workload nothing was ever rendered for is
\* rendered here once.
LoadPolicy ==
    /\ sess.pc = "acked"
    /\ \/ hist # << >> /\ UNCHANGED <<hist, notices>>
       \/ hist = << >> /\ \E content \in Contents : Persist(content)
    /\ sess' = [sess EXCEPT !.pc = "read", !.read = Latest']
    /\ UNCHANGED <<listener, pushers, reader, wireVars, agentVars, registryVars>>

SetTip ==
    /\ sess.pc = "read" /\ ~Locked
    /\ sess' = [sess EXCEPT !.pc = "tipped", !.lastSent = sess.read]
    /\ UNCHANGED <<hist, listener, notices, pushers, reader, wireVars, agentVars, registryVars>>

\* The snapshot is queued after the lock is released; then PENDING is recorded
\* and the reader starts.
SendSnapshot ==
    /\ sess.pc = "tipped" /\ Room
    /\ sess' = [sess EXCEPT !.pc = "streaming", !.read = Empty]
    /\ down' = Append(down, Snapshot(sess.read))
    /\ SetSyncState("PENDING")
    /\ UNCHANGED <<hist, listener, notices, pushers, reader, up, agentVars, applied>>

\* A reconnect directive reaches the replica and is offered to the stream,
\* which takes it when there is room.  Bound: one directive in the queue.
DirectReconnect ==
    /\ Registered /\ Room
    /\ \A i \in 1..Len(down) : down[i] # Reconnect
    /\ down' = Append(down, Reconnect)
    /\ UNCHANGED <<hist, listener, notices, gatewayVars, up, agentVars, registryVars>>

-----------------------------------------------------------------------------
(* handleAck, in the reader goroutine.                                     *)

\* Mutant: any applied version is taken for the tip.
MutAckApplied ==
    /\ sess.pc = "streaming" /\ reader.pc = "idle" /\ ~Locked
    /\ up # << >> /\ Head(up).status = "APPLIED"
    /\ up' = Tail(up)
    /\ reader' = [reader EXCEPT !.pc = "record", !.version = Head(up).version, !.state = "SYNCED"]
    /\ UNCHANGED <<hist, listener, notices, sess, pushers, down, agentVars, registryVars>>

\* APPLIED: the state is decided under the lock ...
AckApplied ==
    /\ sess.pc = "streaming" /\ reader.pc = "idle" /\ ~Locked
    /\ up # << >> /\ Head(up).status = "APPLIED"
    /\ up' = Tail(up)
    /\ reader' = [reader EXCEPT !.pc = "record", !.version = Head(up).version,
                     !.state = IF Head(up).version >= sess.lastSent.version
                               THEN "SYNCED" ELSE "PENDING"]
    /\ UNCHANGED <<hist, listener, notices, sess, pushers, down, agentVars, registryVars>>

\* ... and recorded after it is released.
RecordApplied ==
    /\ reader.pc = "record"
    /\ applied' = reader.version /\ status' = reader.state
    /\ reader' = IdleReader
    /\ UNCHANGED <<hist, listener, notices, sess, pushers, wireVars, agentVars>>

\* FAILED: DEGRADED is recorded without the lock ...
AckFailed ==
    /\ sess.pc = "streaming" /\ reader.pc = "idle"
    /\ up # << >> /\ Head(up).status = "FAILED"
    /\ up' = Tail(up)
    /\ status' = "DEGRADED"
    /\ reader' = [IdleReader EXCEPT !.pc = "failed", !.version = Head(up).version]
    /\ UNCHANGED <<hist, listener, notices, sess, pushers, down, agentVars, applied>>

\* Mutant: every failure is answered with a snapshot.
MutCheckStale ==
    /\ reader.pc = "failed" /\ ~Locked
    /\ reader' = [reader EXCEPT !.pc = "recover"]
    /\ UNCHANGED <<hist, listener, notices, sess, pushers, wireVars, agentVars, registryVars>>

\* ... and a failure at or below the last recovery snapshot is not answered
\* again.
CheckStale ==
    /\ reader.pc = "failed" /\ ~Locked
    /\ reader' = IF reader.version <= sess.recovery THEN IdleReader
                 ELSE [reader EXCEPT !.pc = "recover"]
    /\ UNCHANGED <<hist, listener, notices, sess, pushers, wireVars, agentVars, registryVars>>

\* sendRecoverySnapshot reads the persisted policy ...
RecoverLoad ==
    /\ reader.pc = "recover"
    /\ reader' = [reader EXCEPT !.pc = "resend", !.read = Latest]
    /\ UNCHANGED <<hist, listener, notices, sess, pushers, wireVars, agentVars, registryVars>>

\* ... takes the lock ...
RecoverLock ==
    /\ reader.pc = "resend" /\ ~Locked
    /\ reader' = [reader EXCEPT !.pc = "locked"]
    /\ UNCHANGED <<hist, listener, notices, sess, pushers, wireVars, agentVars, registryVars>>

\* ... and under it resets the tip to the policy and queues it.
RecoverSend ==
    /\ reader.pc = "locked" /\ Room
    /\ sess' = [sess EXCEPT !.lastSent = reader.read, !.recovery = reader.read.version]
    /\ down' = Append(down, Snapshot(reader.read))
    /\ reader' = IdleReader
    /\ UNCHANGED <<hist, listener, notices, pushers, up, agentVars, registryVars>>

-----------------------------------------------------------------------------
(* The agent: messages in stream order, each answered before the next.     *)

\* The stream ends: the session leaves the registry with its goroutines, a
\* blocked enqueue among them, and the offline mark is written.
EndStream ==
    /\ sess' = NoSession
    /\ pushers' = [g \in Pushers |-> IdlePusher]
    /\ reader' = IdleReader
    /\ down' = << >> /\ up' = << >>
    /\ conn' = "off"
    /\ SetSyncState("OFFLINE")
    /\ UNCHANGED <<hist, listener, notices, agent, applied>>

\* The connection breaks, or either side gives up on it.
Break == conn # "off" /\ EndStream

Established ==
    /\ conn = "awaiting" /\ down # << >> /\ Head(down) = HelloAck
    /\ conn' = "live"
    /\ down' = Tail(down)
    /\ UNCHANGED <<hist, listener, notices, gatewayVars, up, agent, registryVars>>

\* The agent leaves the stream: a reconnect directive, or a first message that
\* is not HelloAck.
Leave ==
    /\ down # << >>
    /\ \/ conn = "live" /\ Head(down) = Reconnect
       \/ conn = "awaiting" /\ Head(down) # HelloAck
    /\ EndStream

\* Mutant: a refused update is acknowledged as applied.
MutAnswer(version, ok, next) ==
    /\ up' = Append(up, Ack(version, "APPLIED"))
    /\ agent' = IF ok THEN next ELSE agent

\* applyUpdate for a policy update at the head of the stream; ok says whether
\* the store accepts the next policy.
Answer(version, ok, next) ==
    /\ up' = Append(up, Ack(version, IF ok THEN "APPLIED" ELSE "FAILED"))
    /\ agent' = IF ok THEN next ELSE agent

ApplySnapshot(accepted) ==
    /\ conn = "live" /\ down # << >> /\ Head(down).type = "snapshot"
    /\ down' = Tail(down)
    /\ Answer(Head(down).policy.version, accepted, Head(down).policy)
    /\ UNCHANGED <<hist, listener, notices, gatewayVars, conn, registryVars>>

\* Mutant: the base version of a delta is not compared.
MutApplyDelta(accepted) ==
    /\ conn = "live" /\ down # << >> /\ Head(down).type = "delta"
    /\ down' = Tail(down)
    /\ LET delta == Head(down).delta
       IN  Answer(delta.to, accepted /\ Applies([agent EXCEPT !.version = delta.from], delta),
                  Apply(agent, delta))
    /\ UNCHANGED <<hist, listener, notices, gatewayVars, conn, registryVars>>

ApplyDelta(accepted) ==
    /\ conn = "live" /\ down # << >> /\ Head(down).type = "delta"
    /\ down' = Tail(down)
    /\ LET delta == Head(down).delta
       IN  Answer(delta.to, accepted /\ Applies(agent, delta), Apply(agent, delta))
    /\ UNCHANGED <<hist, listener, notices, gatewayVars, conn, registryVars>>

-----------------------------------------------------------------------------
Handler == SendHelloAck \/ LoadPolicy \/ SetTip \/ SendSnapshot

Reader == AckApplied \/ RecordApplied \/ AckFailed \/ CheckStale \/ RecoverLoad \/ RecoverLock \/ RecoverSend

Pusher(g) == PushLoad(g) \/ PushLock(g) \/ PushSend(g) \/ PushRecord(g)

Receive ==
    \/ Established \/ Leave
    \/ \E accepted \in BOOLEAN : ApplySnapshot(accepted) \/ ApplyDelta(accepted)

Database == Render \/ Announce \/ LoseListener \/ ListenerReady

Next ==
    \/ Handler \/ Reader \/ \E g \in Pushers : Pusher(g)
    \/ Open \/ Receive \/ DirectReconnect \/ Break
    \/ Database

Spec == Init /\ [][Next]_vars

\* Every goroutine that can run does run, an agent off its stream redials
\* (Daemon.Run), and a lost listener reconnects (ListenPolicyChanges).  The
\* reader is not kept off the lock by a run of pushers: a sync.Mutex serves the
\* goroutine that has waited longest, and a channel its blocked senders in
\* order.  Renders, losses and directives may never come.
Fairness ==
    /\ WF_vars(Handler) /\ SF_vars(Reader) /\ \A g \in Pushers : WF_vars(Pusher(g))
    /\ WF_vars(Open) /\ WF_vars(Receive)
    /\ WF_vars(Announce) /\ WF_vars(ListenerReady)

FairSpec == Spec /\ Fairness

-----------------------------------------------------------------------------
Messages ==
    {HelloAck, Reconnect} \cup [type : {"snapshot"}, policy : Policies]
                          \cup [type : {"delta"}, delta : Deltas]

Acks == [version : Nat, status : {"APPLIED", "FAILED"}]

SessionStates ==
    [pc : {"none", "registered", "acked", "read", "tipped", "streaming"},
     read : Policies, lastSent : Policies, recovery : Nat]

PusherStates == [pc : {"idle", "started", "loaded", "locked", "pushed"}, read : Policies]

ReaderStates ==
    [pc : {"idle", "record", "failed", "recover", "resend", "locked"}, version : Nat,
     state : {"PENDING", "SYNCED"}, read : Policies]

\* Every variable has its type; the send queue of the session never holds
\* more than sendQueueDepth messages.
TypeOK ==
    /\ hist \in Seq(Policies)
    /\ listener \in {"up", "down"} /\ notices \in Nat
    /\ sess \in SessionStates
    /\ pushers \in [Pushers -> PusherStates]
    /\ reader \in ReaderStates
    /\ down \in Seq(Messages) /\ Len(down) <= QueueDepth
    /\ up \in Seq(Acks)
    /\ conn \in {"off", "awaiting", "live"} /\ agent \in Policies
    /\ applied \in Nat /\ status \in {"OFFLINE", "PENDING", "SYNCED", "DEGRADED"}

\* Nothing is in flight on the stream and no acknowledgement is being handled.
Quiet == conn = "live" /\ down = << >> /\ up = << >> /\ reader.pc = "idle"

\* The agent holds exactly what was rendered at the version it claims, however
\* snapshots, deltas and recoveries overtook one another on the way.
RenderedIn(h, p) == p = Empty \/ (p.version \in 1..Len(h) /\ p = h[p.version])

InstalledIsRendered == RenderedIn(hist, agent)

RenderedMessage(h, m) ==
    /\ m.type = "snapshot" => RenderedIn(h, m.policy)
    /\ m.type = "delta" => \E a, b \in 1..Len(h) : m.delta = Delta(h[a], h[b])

\* The inductive form: every policy a goroutine has read, every snapshot and
\* both ends of every delta on the stream are rendered ones.
StreamIsRendered ==
    /\ \A v \in 1..Len(hist) : hist[v].version = v
    /\ InstalledIsRendered
    /\ RenderedIn(hist, sess.read) /\ RenderedIn(hist, sess.lastSent)
    /\ RenderedIn(hist, reader.read)
    /\ \A g \in Pushers : RenderedIn(hist, pushers[g].read)
    /\ \A i \in 1..Len(down) : RenderedMessage(hist, down[i])

\* The same as a refinement: distribution implements the abstract promise of
\* module DesiredState, with the agent's store as the installed policy.
Abstract == INSTANCE DesiredState WITH installed <- agent

\* Every step of distribution is a step of DesiredState or leaves it as it is.
ImplementsDesiredState == Abstract!Spec

\* At rest, the applied version the registry shows is the one the agent holds:
\* no acknowledgement was recorded out of order or credited to a failed apply.
RecordedIsInstalled == Quiet => applied = agent.version

\* At rest, a workload shown SYNCED holds the tip of what its stream was sent,
\* although the state is decided under the lock and written after it.
SyncedIsAtTip ==
    Quiet /\ sess.pc = "streaming" /\ status = "SYNCED" => agent.version = sess.lastSent.version

\* "Sending the same snapshot again would loop": every recovery snapshot of a
\* stream is of a later version than the one before it.
RecoveryAdvances == [][RecoverSend => sess'.recovery > sess.recovery]_vars

\* A stream that missed an announcement while the listener was down is brought
\* to the persisted version, or ends, or its agent failed to apply it ("a lost
\* announcement costs at most one reconciliation").
ReconciledAfterLoss ==
    \A v \in 1..MaxVersion :
        (listener = "down" /\ sess.pc = "streaming" /\ sess.lastSent.version < v /\ Len(hist) >= v)
            ~> (agent.version >= v \/ sess.pc = "none" \/ status = "DEGRADED")

\* Failed applies do not keep the stream busy: once renders have stopped it
\* comes to rest, for good or until it ends, even if every apply is refused.
ComesToRest == []<>(Quiet \/ conn = "off" \/ Len(hist) < MaxVersion)

-----------------------------------------------------------------------------
(* What comments of the code and ADR-0018 say that the code does not       *)
(* guarantee; each is refuted by a run of its own.                         *)

\* "a lost announcement costs one reconciliation, never a missed version": a
\* stream at rest, with every announcement delivered and handled, was sent the
\* persisted version.
NothingMissed ==
    Quiet /\ sess.pc = "streaming" /\ listener = "up" /\ notices = 0
          /\ (\A g \in Pushers : pushers[g].pc = "idle")
        => sess.lastSent = Latest

=============================================================================
