-------------------------------- MODULE Fleet --------------------------------
(***************************************************************************)
(* The fleet: how workloads are enrolled, labelled, moved between modes,   *)
(* renewed and retired (fleet/, enroll/service.go, gateway/server.go), and *)
(* the doors a retired identity meets (gateway/retire.go, gateway/auth.go, *)
(* gateway/sync.go), over the transactions of store/fleet.go,              *)
(* store/registry.go and store/store.go.                                   *)
(*                                                                         *)
(* Labels, addresses and inventory are persisted first and rendered after; *)
(* a mode change and a retirement are applied and rendered in one          *)
(* transaction under the render lock.  Row locks are explicit.  A render   *)
(* loads the workloads in three statements.                                *)
(*                                                                         *)
(* A workload's labels are one model value, a selector asks for one, and   *)
(* addresses are a number.  The authored side of a render is in Authoring, *)
(* the sessions of a stream in StreamRegistry; here a stream is the state  *)
(* of the one its workload holds.                                          *)
(***************************************************************************)
EXTENDS Requests, Sequences, FiniteSets

CONSTANTS
    Workloads,
    Labels,
    Modes,
    Fleets   \* the fleet a behaviour starts from, and the calls it makes

\* A row of the workloads table; a workload not enrolled yet is absent.
Rows == [status : {"absent", "active", "retired"}, mode : Modes \union {"visibility", None},
         labels : Labels \union {None}, addr : Nat, serial : Nat]

VARIABLES
    row,        \* table: workload -> [status, mode, labels, addr, serial]
    token,      \* the provisioning token: "live", "revoked" or "expired"
    rowlock,    \* workload -> the call whose transaction locked its row, or None
    fleetLock,       \* the call that holds the render lock, or None
    fleetPc, call,   \* where each call is, and what it carries
    fleetLoad,       \* call -> the workloads its render has loaded
    fleetRendered,   \* the workloads the persisted policies were rendered from
    fleetMissed,     \* a change is persisted that no render has followed
    stream,     \* workload -> "none", "admitted", "recorded" or "live"
    endings,    \* end directives published and not yet heard
    listening,  \* the replica's listener holds its connection
    fleetPlan        \* the calls each client still makes

fleetVars == <<row, token, rowlock, fleetLock, fleetPc, call, fleetLoad, fleetRendered, fleetMissed,
               stream, endings, listening, fleetPlan>>

locks == <<rowlock, fleetLock>>
renders == <<fleetLoad, fleetRendered, fleetMissed>>
streams == <<stream, endings, listening>>

NoFleetLoad == [at |-> "rows", heals |-> FALSE, seen |-> None]
Call(op, id) == [op |-> op, id |-> id, arg |-> None, count |-> 0, prev |-> [w \in {} |-> None]]
NoCall == Call("none", None)

Active(w) == row[w].status = "active"
Retired(w) == row[w].status = "retired"
Held(c) == {w \in Workloads : rowlock[w] = c}
Free(w) == rowlock[w] = None

\* A render that has begun does not make up for one that failed since.
Unhealed == [c \in Clients |-> [fleetLoad[c] EXCEPT !.heals = FALSE]]

Goto(c, at) == fleetPc' = [fleetPc EXCEPT ![c] = at]

\* A call returns: its locks are released with its transaction.
Return(c) ==
    /\ Goto(c, "idle") /\ call' = [call EXCEPT ![c] = NoCall]
    /\ rowlock' = [w \in Workloads |-> IF rowlock[w] = c THEN None ELSE rowlock[w]]
    /\ fleetLock' = IF fleetLock = c THEN None ELSE fleetLock

RefuseCall(c) == Return(c) /\ UNCHANGED <<row, token, renders, streams, fleetPlan>>

BeginCall(c, at, r) ==
    /\ fleetPc[c] = "idle" /\ fleetPlan[c] # <<>> /\ Head(fleetPlan[c]) = r.op
    /\ fleetPlan' = [fleetPlan EXCEPT ![c] = Tail(@)]
    /\ Goto(c, at) /\ call' = [call EXCEPT ![c] = r]
    /\ UNCHANGED <<row, token, locks, renders, streams>>

\* The conditional writes: each statement finds no row once the workload is retired.
recordWorkloadInventory(w) == Active(w)
recordWorkloadRenewal(w) == Active(w)
recordWorkloadAgent(w) == Active(w)
recordWorkloadHeartbeat(w) == Active(w)
retireWorkload(w) == Active(w)

\* setWorkloadModes touches the named rows not already in the mode, retired or not.
setWorkloadModes(set, mode) == {w \in set : row[w].mode # mode}

-----------------------------------------------------------------------------
(* Enrollment.  The token is checked before the request is signed, and the *)
(* workload is created after.                                              *)

Enroll(c, w) ==
    row[w].status = "absent" /\ (\A d \in Clients : call[d].id # w)
    /\ BeginCall(c, "token", Call("enroll", w))

\* FindTokenByHash and Check.
TokenChecked(c) ==
    /\ fleetPc[c] = "token" /\ token = "live" /\ Goto(c, "create")
    /\ UNCHANGED <<row, token, locks, call, renders, streams, fleetPlan>>
TokenRefused(c) == fleetPc[c] = "token" /\ token # "live" /\ RefuseCall(c)

\* CreateWorkload, with the token's labels.
CreateWorkload(c) ==
    LET w == call[c].id IN
    /\ fleetPc[c] = "create"
    /\ \E l \in Labels : row' = [row EXCEPT ![w] =
           [status |-> "active", mode |-> "visibility", labels |-> l, addr |-> 0, serial |-> 1]]
    /\ Goto(c, "facts")
    /\ UNCHANGED <<token, locks, call, renders, streams, fleetPlan>>

\* afterEnroll: the facts are recorded, or that fails and is logged; it renders either way.
afterEnroll(c) ==
    LET w == call[c].id IN
    /\ fleetPc[c] = "facts" /\ Free(w)
    /\ \/ recordWorkloadInventory(w) /\ row' = [row EXCEPT ![w].addr = 1]
       \/ UNCHANGED row
    /\ Goto(c, "lock") /\ UNCHANGED <<token, locks, call, renders, streams, fleetPlan>>

\* RevokeToken; the passing of its lifetime.
RevokeToken(c) ==
    /\ fleetPc[c] = "idle" /\ fleetPlan[c] # <<>> /\ Head(fleetPlan[c]) = "revoke"
    /\ token' = "revoked" /\ fleetPlan' = [fleetPlan EXCEPT ![c] = Tail(@)]
    /\ UNCHANGED <<row, locks, fleetPc, call, renders, streams>>

-----------------------------------------------------------------------------
(* Labels and inventory: persisted in a transaction, rendered after it.    *)

\* The version of the labels is a digest of them, so the labels stand for it.
SetLabels(c, w) ==
    \E l \in Labels, expect \in Labels \union {None} :
        BeginCall(c, "labels", [Call("labels", w) EXCEPT !.arg = <<l, expect>>])

\* Mutant: the row is looked up without FOR UPDATE.
MutLockWorkloadForLabels(c) ==
    LET w == call[c].id IN
    /\ fleetPc[c] = "labels" /\ Active(w) /\ call[c].arg[2] \in {None, row[w].labels}
    /\ Goto(c, "replace")
    /\ UNCHANGED <<row, token, locks, call, renders, streams, fleetPlan>>

\* ReplaceWorkloadLabels: LockWorkload, then the judgment on the row as it stands.
LockWorkloadForLabels(c) ==
    LET w == call[c].id IN
    /\ fleetPc[c] = "labels" /\ Free(w) /\ Active(w)
    /\ call[c].arg[2] \in {None, row[w].labels}
    /\ rowlock' = [rowlock EXCEPT ![w] = c] /\ Goto(c, "replace")
    /\ UNCHANGED <<row, token, fleetLock, call, renders, streams, fleetPlan>>

LabelsRefused(c) ==
    LET w == call[c].id IN
    /\ fleetPc[c] = "labels" /\ Free(w)
    /\ ~Active(w) \/ call[c].arg[2] \notin {None, row[w].labels}
    /\ RefuseCall(c)

ReplaceWorkloadLabels(c) ==
    LET w == call[c].id IN
    /\ fleetPc[c] = "replace"
    /\ row' = [row EXCEPT ![w].labels = call[c].arg[1]]
    /\ rowlock' = [rowlock EXCEPT ![w] = IF @ = c THEN None ELSE @] /\ Goto(c, "lock")
    /\ UNCHANGED <<token, fleetLock, call, renders, streams, fleetPlan>>

Inventory(c, w) == stream[w] = "live" /\ BeginCall(c, "inventory", Call("inventory", w))

\* Mutant: changed addresses are not a render trigger.
MutRecordFacts(c) ==
    LET w == call[c].id IN
    /\ fleetPc[c] = "inventory" /\ Free(w) /\ recordWorkloadInventory(w)
    /\ row' = [row EXCEPT ![w].addr = 1 + (@ % 2)]
    /\ Return(c) /\ UNCHANGED <<token, renders, streams, fleetPlan>>

\* RecordFacts on a live stream: changed addresses are a render trigger.  The listening
\* services are recorded in between; when that fails the handler ends without rendering.
RecordFacts(c) ==
    LET w == call[c].id IN
    /\ fleetPc[c] = "inventory" /\ Free(w) /\ recordWorkloadInventory(w)
    /\ \E a \in 1..2 :
        LET changed == a # row[w].addr IN
        /\ row' = [row EXCEPT ![w].addr = a]
        /\ \/ changed /\ Goto(c, "lock") /\ UNCHANGED <<locks, call, fleetMissed, stream, fleetLoad>>
           \/ ~changed /\ Return(c) /\ UNCHANGED <<fleetMissed, stream, fleetLoad>>
           \/ /\ fleetMissed' = (fleetMissed \/ changed) /\ fleetLoad' = IF changed THEN Unhealed ELSE fleetLoad
              /\ stream' = [stream EXCEPT ![w] = "none"] /\ Return(c)
    /\ UNCHANGED <<token, fleetRendered, endings, listening, fleetPlan>>

\* writeFailed: the write found the workload retired and the stream is refused.
RecordFactsRefused(c) ==
    LET w == call[c].id IN
    /\ fleetPc[c] = "inventory" /\ Free(w) /\ ~recordWorkloadInventory(w)
    /\ stream' = [stream EXCEPT ![w] = "none"]
    /\ Return(c) /\ UNCHANGED <<row, token, renders, endings, listening, fleetPlan>>

-----------------------------------------------------------------------------
(* The render transaction.  listWorkloads reads the rows, the labels and   *)
(* the addresses; a transaction sees its own writes.                       *)

Seen(c, w) ==
    CASE call[c].op = "retire" /\ call[c].id = w -> [row[w] EXCEPT !.status = "retired"]
      [] call[c].op = "mode" /\ w \in DOMAIN call[c].prev -> [row[w] EXCEPT !.mode = call[c].arg[2]]
      [] OTHER -> row[w]

\* Mutant: a retirement is stamped and rendered without the render lock.
MutRetireUnlocked(c) ==
    /\ fleetPc[c] \in {"lock", "mode", "retire"} /\ (fleetLock = None \/ fleetPc[c] = "retire")
    /\ fleetLock' = IF fleetPc[c] = "retire" THEN fleetLock ELSE c
    /\ fleetLoad' = [fleetLoad EXCEPT ![c] = [NoFleetLoad EXCEPT !.heals = TRUE]]
    /\ Goto(c, CASE fleetPc[c] = "lock" -> "load" [] fleetPc[c] = "mode" -> "resolve" [] OTHER -> "stamp")
    /\ UNCHANGED <<row, token, rowlock, call, fleetRendered, fleetMissed, streams, fleetPlan>>

acquireFleetRenderLock(c) ==
    /\ fleetPc[c] \in {"lock", "mode", "retire"} /\ fleetLock = None
    /\ fleetLock' = c /\ fleetLoad' = [fleetLoad EXCEPT ![c] = [NoFleetLoad EXCEPT !.heals = TRUE]]
    /\ Goto(c, CASE fleetPc[c] = "lock" -> "load" [] fleetPc[c] = "mode" -> "resolve" [] OTHER -> "stamp")
    /\ UNCHANGED <<row, token, rowlock, call, fleetRendered, fleetMissed, streams, fleetPlan>>

FleetLoading(c, at, next, seen) ==
    /\ fleetPc[c] \in {"load", "resolve"} /\ fleetLoad[c].at = at
    /\ fleetLoad' = [fleetLoad EXCEPT ![c].at = next, ![c].seen = seen]
    /\ UNCHANGED <<row, token, locks, fleetPc, call, fleetRendered, fleetMissed, streams, fleetPlan>>

ListRows(c) == FleetLoading(c, "rows", "labels", [w \in Workloads |-> Seen(c, w)])
ListLabels(c) ==
    FleetLoading(c, "labels", "addresses", [w \in Workloads |->
        IF fleetLoad[c].seen[w].status = "absent" THEN fleetLoad[c].seen[w]
        ELSE [fleetLoad[c].seen[w] EXCEPT !.labels = row[w].labels]])
ListAddresses(c) ==
    FleetLoading(c, "addresses", "done", [w \in Workloads |->
        IF fleetLoad[c].seen[w].status = "absent" THEN fleetLoad[c].seen[w]
        ELSE [fleetLoad[c].seen[w] EXCEPT !.addr = row[w].addr]])

\* What a render reads of a workload; the serial is not an input.
Inputs(f) == [w \in Workloads |-> [status |-> f[w].status, mode |-> f[w].mode,
                                   labels |-> f[w].labels, addr |-> f[w].addr]]

\* SavePolicy and the commit of a render that follows a persisted change.
CommitRender(c) ==
    /\ fleetPc[c] = "load" /\ fleetLoad[c].at = "done" /\ call[c].op \notin {"mode", "retire"}
    /\ fleetRendered' = Inputs(fleetLoad[c].seen) /\ fleetLoad' = [fleetLoad EXCEPT ![c] = NoFleetLoad]
    /\ fleetMissed' = (fleetMissed /\ ~fleetLoad[c].heals)
    /\ Return(c) /\ UNCHANGED <<row, token, streams, fleetPlan>>

\* The render fails or the process dies: the change stays, unrendered.
FleetRenderFails(c) ==
    /\ fleetPc[c] \in {"facts", "lock", "load"} /\ call[c].op \notin {"mode", "retire"}
    /\ fleetMissed' = TRUE /\ fleetLoad' = [Unhealed EXCEPT ![c] = NoFleetLoad]
    /\ Return(c) /\ UNCHANGED <<row, token, fleetRendered, streams, fleetPlan>>

\* A mode change or a retirement fails before its commit: nothing of it stays.
TransactionFails(c) ==
    /\ fleetPc[c] \in {"resolve", "stamp", "load"} /\ call[c].op \in {"mode", "retire"}
    /\ fleetLoad' = [fleetLoad EXCEPT ![c] = NoFleetLoad]
    /\ Return(c) /\ UNCHANGED <<row, token, fleetRendered, fleetMissed, streams, fleetPlan>>

-----------------------------------------------------------------------------
(* Mode changes.                                                           *)

ChangeMode(c) ==
    \E l \in Labels, m \in Modes, n \in 0..Cardinality(Workloads) :
        BeginCall(c, "mode", [Call("mode", None) EXCEPT !.arg = <<l, m>>, !.count = n])

\* resolve: a retired workload matches no selector.
resolve(c, l) == {w \in Workloads : fleetLoad[c].seen[w].status = "active" /\ fleetLoad[c].seen[w].labels = l}

MatchCountRefused(c) ==
    /\ fleetPc[c] = "resolve" /\ fleetLoad[c].at = "done"
    /\ Cardinality(resolve(c, call[c].arg[1])) # call[c].count
    /\ fleetLoad' = [fleetLoad EXCEPT ![c] = NoFleetLoad]
    /\ Return(c) /\ UNCHANGED <<row, token, fleetRendered, fleetMissed, streams, fleetPlan>>

\* RecordModeChange with the previous modes, then SetWorkloadModes, which locks the rows
\* it changes: those not already in the mode.
SetWorkloadModes(c) ==
    LET set == resolve(c, call[c].arg[1])
        moved == setWorkloadModes(set, call[c].arg[2]) IN
    /\ fleetPc[c] = "resolve" /\ fleetLoad[c].at = "done"
    /\ Cardinality(set) = call[c].count /\ \A w \in moved : Free(w)
    /\ Cardinality(moved) = Cardinality({w \in set : fleetLoad[c].seen[w].mode # call[c].arg[2]})
    /\ call' = [call EXCEPT ![c].prev = [w \in set |-> fleetLoad[c].seen[w].mode]]
    /\ rowlock' = [w \in Workloads |-> IF w \in moved THEN c ELSE rowlock[w]]
    /\ fleetLoad' = [fleetLoad EXCEPT ![c] = NoFleetLoad] /\ Goto(c, "load")
    /\ UNCHANGED <<row, token, fleetLock, fleetRendered, fleetMissed, streams, fleetPlan>>

CommitModeChange(c) ==
    /\ fleetPc[c] = "load" /\ fleetLoad[c].at = "done" /\ call[c].op = "mode"
    /\ row' = [w \in Workloads |->
          IF w \in DOMAIN call[c].prev THEN [row[w] EXCEPT !.mode = call[c].arg[2]] ELSE row[w]]
    /\ fleetRendered' = Inputs(fleetLoad[c].seen) /\ fleetLoad' = [fleetLoad EXCEPT ![c] = NoFleetLoad]
    /\ Return(c) /\ UNCHANGED <<token, fleetMissed, streams, fleetPlan>>

-----------------------------------------------------------------------------
(* Renewal: admitted, signed, and recorded on condition.                   *)

Renew(c, w) == row[w].status # "absent" /\ BeginCall(c, "renew", Call("renew", w))

RenewAdmitted(c) ==
    /\ fleetPc[c] = "renew" /\ Active(call[c].id) /\ Goto(c, "sign")
    /\ UNCHANGED <<row, token, locks, call, renders, streams, fleetPlan>>
RenewRefused(c) == fleetPc[c] = "renew" /\ ~Active(call[c].id) /\ RefuseCall(c)

RecordRenewal(c) ==
    LET w == call[c].id IN
    /\ fleetPc[c] = "sign" /\ Free(w) /\ recordWorkloadRenewal(w)
    /\ row' = [row EXCEPT ![w].serial = @ + 1]
    /\ Return(c) /\ UNCHANGED <<token, renders, streams, fleetPlan>>
RenewalNotRecorded(c) ==
    fleetPc[c] = "sign" /\ Free(call[c].id) /\ ~recordWorkloadRenewal(call[c].id) /\ RefuseCall(c)

-----------------------------------------------------------------------------
(* Retirement.                                                             *)

Retire(c, w) == row[w].status # "absent" /\ BeginCall(c, "retire", Call("retire", w))

AlreadyRetired(c) ==
    /\ fleetPc[c] = "stamp" /\ Free(call[c].id) /\ ~retireWorkload(call[c].id)
    /\ fleetLoad' = [fleetLoad EXCEPT ![c] = NoFleetLoad]
    /\ Return(c) /\ UNCHANGED <<row, token, fleetRendered, fleetMissed, streams, fleetPlan>>

\* LockWorkload and StampRetired.
StampRetired(c) ==
    /\ fleetPc[c] = "stamp" /\ Free(call[c].id) /\ retireWorkload(call[c].id)
    /\ rowlock' = [rowlock EXCEPT ![call[c].id] = c] /\ Goto(c, "load")
    /\ UNCHANGED <<row, token, fleetLock, call, renders, streams, fleetPlan>>

\* The commit publishes the directive; a listener that is down never hears it.
CommitRetirement(c) ==
    /\ fleetPc[c] = "load" /\ fleetLoad[c].at = "done" /\ call[c].op = "retire"
    /\ row' = [row EXCEPT ![call[c].id].status = "retired"]
    /\ fleetRendered' = Inputs(fleetLoad[c].seen) /\ fleetLoad' = [fleetLoad EXCEPT ![c] = NoFleetLoad]
    /\ endings' = IF listening THEN endings \union {call[c].id} ELSE endings
    /\ rowlock' = [rowlock EXCEPT ![call[c].id] = None] /\ fleetLock' = None
    /\ Goto(c, "end") /\ UNCHANGED <<token, call, fleetMissed, stream, listening, fleetPlan>>

\* EndRetired in the process that retired; the command line holds no streams.
EndRetired(c) ==
    /\ fleetPc[c] = "end"
    /\ \/ stream' = [stream EXCEPT ![call[c].id] = IF @ = "live" THEN "none" ELSE @]
       \/ UNCHANGED stream
    /\ Return(c) /\ UNCHANGED <<row, token, renders, endings, listening, fleetPlan>>

-----------------------------------------------------------------------------
(* The doors: a stream is admitted (authenticate), recorded (RecordAgent)  *)
(* and registered, in three steps; its heartbeats are conditional writes.  *)

Open(c, w) == stream[w] = "none" /\ BeginCall(c, "open", Call("open", w))

Authenticated(c) ==
    LET w == call[c].id IN
    /\ fleetPc[c] = "open" /\ Active(w) /\ stream[w] = "none"
    /\ stream' = [stream EXCEPT ![w] = "admitted"]
    /\ Return(c) /\ UNCHANGED <<row, token, renders, endings, listening, fleetPlan>>
NotAuthenticated(c) ==
    fleetPc[c] = "open" /\ (~Active(call[c].id) \/ stream[call[c].id] # "none") /\ RefuseCall(c)

RecordAgent(w) ==
    /\ stream[w] = "admitted" /\ Free(w)
    /\ stream' = [stream EXCEPT ![w] = IF recordWorkloadAgent(w) THEN "recorded" ELSE "none"]
    /\ UNCHANGED <<row, token, locks, fleetPc, call, renders, endings, listening, fleetPlan>>

\* sessions.add: from here an end directive finds the stream.
Register(w) ==
    /\ stream[w] = "recorded"
    /\ stream' = [stream EXCEPT ![w] = "live"]
    /\ UNCHANGED <<row, token, locks, fleetPc, call, renders, endings, listening, fleetPlan>>

\* Mutant: the writes a stream makes are not conditioned on the workload being active.
MutHeartbeat(w) == FALSE /\ UNCHANGED fleetVars

\* RecordHeartbeat found no active row: writeFailed ends the stream.
Heartbeat(w) ==
    /\ stream[w] = "live" /\ Free(w) /\ ~recordWorkloadHeartbeat(w)
    /\ stream' = [stream EXCEPT ![w] = "none"]
    /\ UNCHANGED <<row, token, locks, fleetPc, call, renders, endings, listening, fleetPlan>>

\* direct: an end directive reaches the replica's registered stream, or none.
direct(w) ==
    /\ listening /\ w \in endings /\ endings' = endings \ {w}
    /\ stream' = [stream EXCEPT ![w] = IF @ = "live" THEN "none" ELSE @]
    /\ UNCHANGED <<row, token, locks, fleetPc, call, renders, listening, fleetPlan>>

\* The listener's connection is lost, and with it the directives not yet read.
ListenerLost ==
    /\ listening /\ listening' = FALSE /\ endings' = {}
    /\ UNCHANGED <<row, token, locks, fleetPc, call, renders, stream, fleetPlan>>

\* reconcile: on reconnecting, every registered stream of a retired workload is ended.
reconcile ==
    /\ ~listening /\ listening' = TRUE
    /\ stream' = [w \in Workloads |-> IF stream[w] = "live" /\ Retired(w) THEN "none" ELSE stream[w]]
    /\ UNCHANGED <<row, token, locks, fleetPc, call, renders, endings, fleetPlan>>

-----------------------------------------------------------------------------
FleetInit ==
    /\ \E s \in Fleets : row = s.row /\ stream = s.stream /\ fleetPlan = s.plan
    /\ row \in [Workloads -> Rows]
    /\ token \in {"live", "expired"}
    /\ rowlock = [w \in Workloads |-> None] /\ fleetLock = None
    /\ fleetPc = [c \in Clients |-> "idle"] /\ call = [c \in Clients |-> NoCall]
    /\ fleetLoad = [c \in Clients |-> NoFleetLoad] /\ fleetRendered = Inputs(row) /\ fleetMissed = FALSE
    /\ endings = {} /\ listening = TRUE

Starts(c) ==
    \/ ChangeMode(c) \/ RevokeToken(c)
    \/ \E w \in Workloads :
           Enroll(c, w) \/ SetLabels(c, w) \/ Inventory(c, w) \/ Renew(c, w) \/ Retire(c, w) \/ Open(c, w)

CallStep(c) ==
    \/ TokenChecked(c) \/ TokenRefused(c) \/ CreateWorkload(c) \/ afterEnroll(c)
    \/ LockWorkloadForLabels(c) \/ LabelsRefused(c) \/ ReplaceWorkloadLabels(c)
    \/ RecordFacts(c) \/ RecordFactsRefused(c)
    \/ acquireFleetRenderLock(c) \/ ListRows(c) \/ ListLabels(c) \/ ListAddresses(c) \/ CommitRender(c)
    \/ MatchCountRefused(c) \/ SetWorkloadModes(c) \/ CommitModeChange(c)
    \/ RenewAdmitted(c) \/ RenewRefused(c) \/ RecordRenewal(c) \/ RenewalNotRecorded(c)
    \/ AlreadyRetired(c) \/ StampRetired(c) \/ CommitRetirement(c) \/ EndRetired(c)
    \/ Authenticated(c) \/ NotAuthenticated(c)

StreamStep(w) == RecordAgent(w) \/ Register(w) \/ Heartbeat(w)

FleetNext ==
    \/ \E c \in Clients : Starts(c) \/ CallStep(c) \/ FleetRenderFails(c) \/ TransactionFails(c)
    \/ \E w \in Workloads : StreamStep(w) \/ direct(w)
    \/ ListenerLost \/ reconcile

\* Fairness: a call that can take its next step takes it, a stream that was admitted
\* registers, and an agent with a live stream keeps sending heartbeats.  Nothing is
\* assumed of the listener, of directives, or of renders succeeding.
Fairness ==
    /\ \A c \in Clients : WF_fleetVars(CallStep(c))
    /\ \A w \in Workloads : WF_fleetVars(StreamStep(w))

FleetSpec == FleetInit /\ [][FleetNext]_fleetVars /\ Fairness

-----------------------------------------------------------------------------
\* A retired workload is in no rendered peer set from the instant its retirement is
\* committed: no render that began before can put it back.
RetiredIsNotRendered == \A w \in Workloads : Retired(w) => fleetRendered[w].status = "retired"

\* Retirement is one way and freezes the workload: whatever label write, mode change,
\* inventory or renewal was under way when it committed, nothing of its row moves again.
KeepsRetired == \A w \in Workloads : Retired(w) => row'[w] = row[w]

\* No step of any call moves a retired workload's row.
RetiredStaysFrozen == [][KeepsRetired]_fleetVars

\* The previous mode a change records is the mode it replaces, which is what undoing it
\* goes by: nothing moves a mode between the resolution and the commit.
ReplacesThePreviousMode ==
    \A c \in Clients : CommitModeChange(c) =>
        \A w \in DOMAIN call[c].prev : call[c].prev[w] = row[w].mode
PreviousModeIsReplaced == [][ReplacesThePreviousMode]_fleetVars

\* Once every call has returned, the policies are rendered from the fleet as persisted,
\* whatever label writes and inventory landed between the statements of a render, unless
\* a render failed or was never made and none has begun since.
FleetIsRendered ==
    (~fleetMissed /\ \A c \in Clients :
        fleetPc[c] \notin {"facts", "lock", "load"} \/ call[c].op \in {"mode", "retire"})
        => fleetRendered = Inputs(row)

\* A retired workload's stream ends, though the end directive is lost, the listener is
\* down, or the stream registered only after the directive had found nothing to end.
RetiredStreamEnds == \A w \in Workloads : Retired(w) ~> (Retired(w) /\ stream[w] = "none")

=============================================================================
