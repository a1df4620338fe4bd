--------------------------- MODULE StreamRegistry ---------------------------
(***************************************************************************)
(* The sync streams of one workload, over time and over replicas: the      *)
(* in-process registry of live streams each replica keeps (type sessions   *)
(* of internal/gateway/sync.go), the clean-up of a stream that ended, and  *)
(* the sync state the streams write to the workload's row.                 *)
(*                                                                         *)
(* The agent is on one stream at a time, but a replica may notice late     *)
(* that it has left.  PENDING, SYNCED and DEGRADED are one state, ONLINE:  *)
(* which of them a stream writes is module PolicySync.  A write by a       *)
(* pusher or by the reader is issued while the session's context is live   *)
(* and may reach the database after the context has ended.                 *)
(***************************************************************************)
EXTENDS Naturals

CONSTANTS
    Streams,      \* streams the agent opens in a behaviour
    Replicas,
    NoStream,
    StoreFails,   \* whether a write may fail
    MayCrash      \* whether a replica may crash and restart

ASSUME RegistryAssumption ==
    NoStream \notin Streams /\ StoreFails \in BOOLEAN /\ MayCrash \in BOOLEAN

VARIABLES
    pc,        \* how far the handler of each stream has come
    home,      \* the replica each stream was opened on
    ended,     \* whether the session's context has ended
    writing,   \* whether a write of a pusher or of the reader is in flight
    live,      \* per replica: sessions.live
    marking,   \* per replica: sessions.marking
    conn,      \* the stream the agent is on
    state      \* the workload's recorded sync state

vars == <<pc, home, ended, writing, live, marking, conn, state>>

Init ==
    /\ pc = [s \in Streams |-> "idle"]
    /\ home \in [Streams -> Replicas]
    /\ ended = [s \in Streams |-> FALSE]
    /\ writing = [s \in Streams |-> FALSE]
    /\ live = [r \in Replicas |-> NoStream]
    /\ marking = [r \in Replicas |-> NoStream]
    /\ conn = NoStream /\ state = "OFFLINE"

\* Between add and remove.
Registered(s) == pc[s] \in {"opening", "streaming"}

-----------------------------------------------------------------------------
(* The agent and the connection.                                           *)

\* The agent dials and says Hello; RecordAgent leaves the sync state alone.
Dial(s) ==
    /\ conn = NoStream /\ pc[s] = "idle"
    /\ conn' = s
    /\ pc' = [pc EXCEPT ![s] = "hello"]
    /\ UNCHANGED <<home, ended, writing, live, marking, state>>

\* The agent drops its stream, or its connection fails.
Hangup ==
    /\ conn # NoStream
    /\ conn' = NoStream
    /\ UNCHANGED <<pc, home, ended, writing, live, marking, state>>

\* The session's context ends: the replica notices that the agent is gone, or
\* ends the stream itself (credential expiry, retirement, a failed write).
End(s) ==
    /\ pc[s] = "hello" \/ Registered(s)
    /\ ~ended[s]
    /\ ended' = [ended EXCEPT ![s] = TRUE]
    /\ UNCHANGED <<pc, home, writing, live, marking, conn, state>>

-----------------------------------------------------------------------------
(* Sync, from sessions.add to the deferred clean-up.                       *)

\* Mutant: add does not wait for the offline mark.
MutAddAtOnce(s) ==
    /\ pc[s] = "hello"
    /\ ended' = IF live[home[s]] = NoStream THEN ended ELSE [ended EXCEPT ![live[home[s]]] = TRUE]
    /\ live' = [live EXCEPT ![home[s]] = s]
    /\ pc' = [pc EXCEPT ![s] = "opening"]
    /\ UNCHANGED <<home, writing, marking, conn, state>>

\* add: wait until no offline mark is being written, end any earlier stream of
\* the workload on this replica, take its place.
Add(s) ==
    /\ pc[s] = "hello" /\ marking[home[s]] = NoStream
    /\ ended' = IF live[home[s]] = NoStream THEN ended ELSE [ended EXCEPT ![live[home[s]]] = TRUE]
    /\ live' = [live EXCEPT ![home[s]] = s]
    /\ pc' = [pc EXCEPT ![s] = "opening"]
    /\ UNCHANGED <<home, writing, marking, conn, state>>

\* The session ends while add waits.
AddAbandoned(s) ==
    /\ pc[s] = "hello" /\ marking[home[s]] # NoStream /\ ended[s]
    /\ pc' = [pc EXCEPT ![s] = "done"]
    /\ UNCHANGED <<home, ended, writing, live, marking, conn, state>>

\* The handler records PENDING, on the stream's own context.
RecordPending(s) ==
    /\ pc[s] = "opening"
    /\ pc' = [pc EXCEPT ![s] = "streaming"]
    /\ state' = "ONLINE" \/ (StoreFails /\ state' = state)
    /\ UNCHANGED <<home, ended, writing, live, marking, conn>>

\* A pusher or the reader sends a write of the sync state to the database.
Issue(s) ==
    /\ Registered(s) /\ ~ended[s] /\ ~writing[s]
    /\ writing' = [writing EXCEPT ![s] = TRUE]
    /\ UNCHANGED <<pc, home, ended, live, marking, conn, state>>

Land(s) ==
    /\ writing[s]
    /\ writing' = [writing EXCEPT ![s] = FALSE]
    /\ state' = "ONLINE"
    /\ UNCHANGED <<pc, home, ended, live, marking, conn>>

\* The write fails, or ends with its context.
Drop(s) ==
    /\ writing[s] /\ (StoreFails \/ ended[s])
    /\ writing' = [writing EXCEPT ![s] = FALSE]
    /\ UNCHANGED <<pc, home, ended, live, marking, conn, state>>

\* Mutant: a superseded stream is taken for the registered one.
MutRemove(s) ==
    /\ Registered(s) /\ ended[s]
    /\ pc' = [pc EXCEPT ![s] = "marking"]
    /\ live' = [live EXCEPT ![home[s]] = NoStream]
    /\ marking' = [marking EXCEPT ![home[s]] = s]
    /\ UNCHANGED <<home, ended, writing, conn, state>>

\* remove: only the stream still registered marks the workload offline.
Remove(s) ==
    /\ Registered(s) /\ ended[s]
    /\ IF live[home[s]] = s
       THEN /\ pc' = [pc EXCEPT ![s] = "marking"]
            /\ live' = [live EXCEPT ![home[s]] = NoStream]
            /\ marking' = [marking EXCEPT ![home[s]] = s]
       ELSE /\ pc' = [pc EXCEPT ![s] = "done"]
            /\ UNCHANGED <<live, marking>>
    /\ UNCHANGED <<home, ended, writing, conn, state>>

MarkOffline(s) ==
    /\ pc[s] = "marking"
    /\ pc' = [pc EXCEPT ![s] = "marked"]
    /\ state' = "OFFLINE" \/ (StoreFails /\ state' = state)
    /\ UNCHANGED <<home, ended, writing, live, marking, conn>>

\* Mutant: the workload stays held for the mark when the mark is done.
MutMarked(s) ==
    /\ pc[s] = "marked"
    /\ pc' = [pc EXCEPT ![s] = "done"]
    /\ UNCHANGED <<home, ended, writing, live, marking, conn, state>>

Marked(s) ==
    /\ pc[s] = "marked"
    /\ pc' = [pc EXCEPT ![s] = "done"]
    /\ marking' = [marking EXCEPT ![home[s]] = NoStream]
    /\ UNCHANGED <<home, ended, writing, live, conn, state>>

-----------------------------------------------------------------------------
\* A replica dies: its streams and its registry are gone, nothing is marked.
Crash(r) ==
    /\ MayCrash
    /\ \E s \in Streams : home[s] = r /\ pc[s] \notin {"idle", "done"}
    /\ LET dead == {s \in Streams : home[s] = r /\ pc[s] # "idle"}
       IN  /\ pc' = [s \in Streams |-> IF s \in dead THEN "done" ELSE pc[s]]
           /\ ended' = [s \in Streams |-> ended[s] \/ s \in dead]
           /\ conn' = IF conn \in dead THEN NoStream ELSE conn
    /\ live' = [live EXCEPT ![r] = NoStream]
    /\ marking' = [marking EXCEPT ![r] = NoStream]
    /\ UNCHANGED <<home, writing, state>>

Handler(s) == Add(s) \/ AddAbandoned(s) \/ RecordPending(s) \/ Remove(s)
                     \/ MarkOffline(s) \/ Marked(s)

Write(s) == Land(s) \/ Drop(s)

Next ==
    \/ \E s \in Streams : Dial(s) \/ End(s) \/ Handler(s) \/ Issue(s) \/ Write(s)
    \/ Hangup
    \/ \E r \in Replicas : Crash(r)

Spec == Init /\ [][Next]_vars

\* Handlers run, and writes that were sent are answered.  Streams need not be
\* opened, dropped or ended.
Fairness == \A s \in Streams : WF_vars(Handler(s)) /\ WF_vars(Write(s))

FairSpec == Spec /\ Fairness

-----------------------------------------------------------------------------
\* Every variable has its type; a stream is in one phase of the handler.
TypeOK ==
    /\ pc \in [Streams -> {"idle", "hello", "opening", "streaming", "marking", "marked", "done"}]
    /\ home \in [Streams -> Replicas]
    /\ ended \in [Streams -> BOOLEAN] /\ writing \in [Streams -> BOOLEAN]
    /\ live \in [Replicas -> Streams \cup {NoStream}]
    /\ marking \in [Replicas -> Streams \cup {NoStream}]
    /\ conn \in Streams \cup {NoStream}
    /\ state \in {"OFFLINE", "ONLINE"}

\* The registry and the handlers agree: a stream that has not ended is the
\* registered one, the registered one is between add and remove, and a
\* workload is held for a mark exactly while one is being written, with no
\* stream registered meanwhile.
RegistryAgrees ==
    /\ \A s \in Streams : Registered(s) /\ ~ended[s] => live[home[s]] = s
    /\ \A r \in Replicas : live[r] # NoStream => home[live[r]] = r /\ Registered(live[r])
    /\ \A s \in Streams : pc[s] \in {"marking", "marked"} => marking[home[s]] = s
    /\ \A r \in Replicas : marking[r] # NoStream =>
          /\ live[r] = NoStream
          /\ home[marking[r]] = r /\ pc[marking[r]] \in {"marking", "marked"}

\* "Two live streams for one identity would each believe they hold the tip":
\* a replica has at most one stream of the workload that has not ended.
OneStreamPerReplica ==
    \A s, t \in Streams :
        Registered(s) /\ Registered(t) /\ ~ended[s] /\ ~ended[t] /\ home[s] = home[t] => s = t

\* "an ending stream never marks a newer live stream of the same workload
\* offline": the workload of an agent on an open stream is not recorded
\* offline.
LiveIsNotOffline ==
    \A s \in Streams : pc[s] = "streaming" /\ ~ended[s] /\ conn = s => state = "ONLINE"

\* What the hold while a mark is written is for: a live stream that is recorded
\* online is only ever marked offline by a stream of another replica.
MarkedOnlyFromElsewhere ==
    [][\A s \in Streams :
          pc[s] = "streaming" /\ ~ended[s] /\ state = "ONLINE" /\ state' = "OFFLINE"
              => \E t \in Streams : MarkOffline(t) /\ home[t] # home[s]]_vars

\* A newer stream never waits for ever for the mark of an earlier one.
AddReturns == \A s \in Streams : (pc[s] = "hello") ~> (pc[s] # "hello")
=============================================================================
