# Innerwall in TLA+

Innerwall turns authored rules into one rendered policy per workload, versions
it, streams it to the agent on that workload, enforces it there in one nftables
table, and brings back evidence of the traffic it saw. This directory specifies
that path and the doors to it. TLC checks the modules on small instances; TLAPS
proves the properties that matter most for every instance.

## The system

| Part | State | Operations | With whom |
| --- | --- | --- | --- |
| Authoring (`internal/policy`, `internal/store/policy.go`) | services, groups, rulesets, rules, each with a version | conditional writes, then a render | render engine |
| Fleet (`internal/fleet`, `internal/enroll`) | workload rows: labels, mode, addresses, retirement | enrol, label, change mode, retire, renew | render engine, gateway |
| Render engine (`internal/compiler`, `internal/store/render.go`) | one policy and version per workload | render under the render lock, announce on commit | every gateway replica |
| Sync gateway (`internal/gateway`) | live streams, tip of each stream, recovery version | open, push, ack, recover, direct, end | render engine, agents, registry |
| Agent sync and policy store (`internal/agent/sync`, `internal/agent/enforce`) | stream, policy file, mark file, kernel table | apply, acknowledge, redial; load, restore, tear down | gateway, nft |
| Flow path (`internal/agent/collect`, `internal/ingest`, `internal/flowstore`) | windows, buffer, gaps, receipts, totals | close, send, retry, ingest, derive silences, prune | gateway, registry |
| Credentials (`internal/agent/credential`, `internal/ca`) | tokens, certificates, the files that hold them | enrol, renew, issue, admit | gateway, registry |
| Operator API and reads (`internal/api`, `internal/operator`, `internal/readmodel`) | sessions, tokens, login windows | requests, pages, rollups | all services |

What is hard to test here: the persisted policy is read before the session lock
is taken, by three kinds of goroutine; announcements are lost with the
listener's connection; a registry write lands after the stream that issued it;
a render loads its inputs in several statements while others write them; an
agent goes down between disk and kernel; a page is read while rows move.
`PROJECT.json` lists these hazards with their lines and the properties that
cover them.

## Modules

### Policies and their distribution

**`Rendered`** is `internal/rendered`: canonical policies, `Diff`, `Delta`,
`Apply` and its two errors. Sorted lists without duplicates are functions and
sets; protocol and ports are one opaque `spec`, because `Diff` replaces them
together. **`Versioning`** is `compiler.Plan` for one workload.
**`DeltaContract`** runs renders against a follower that may be any number of
versions behind.

**`PolicySync`** is distribution to one workload. Its actions are steps of the
code between two points where another goroutine can get in:

| Code | Actions |
| --- | --- |
| `Engine.RenderIn`, NOTIFY on commit | `Render` |
| `ListenPolicyChanges`, `Server.Run` | `LoseListener`, `ListenerReady`, `Announce` |
| `pushLatest` | `PushLoad`, `PushLock`, then under the lock `PushSend` (waits for room) and `PushRecord` |
| `Server.Sync` | `Open`, `SendHelloAck`, `LoadPolicy`, `SetTip`, `SendSnapshot`, `Break` |
| `handleAck` | `AckApplied`, `RecordApplied`, `AckFailed`, `CheckStale` |
| `sendRecoverySnapshot` | `RecoverLoad`, `RecoverLock`, `RecoverSend` (waits for room under the lock) |
| `directReconnect` | `DirectReconnect` |
| `Daemon.runSession`, `applyUpdate` | `Established`, `Leave`, `ApplySnapshot`, `ApplyDelta` |

The send queue, the writer goroutine and the wire are one bounded FIFO. An apply
may be refused by the agent's store at any time. A store error that ends the
stream is `Break`; one that is only logged, the mark of an ended stream
included, leaves the registry as it was. The tip is read and written only under
the lock, so that it moves with the enqueue rather than just before it cannot be
told apart.

**`DesiredState`** is what distribution promises: the agent holds the empty
policy or exactly one rendered version. `PolicySync` implements it with the
agent's policy as `installed`.

**`StreamRegistry`** is the life of a workload's streams over replicas: `add`,
`remove`, the hold while an offline mark is written, writes that land late, and
replica crashes. The online states are one state here.

### Control plane

**`Requests`** names the calls in flight and the value that stands for none of
them. **`Authoring`** is every write of services, groups, rulesets and rules: a
request is decoded, reads its ruleset in one statement per table, is admitted,
written in one transaction under its entity tag, and rendered under the render
lock, whose loads are again one statement per table. **`Fleet`** is enrollment,
labels, inventory, modes, renewal and retirement over the workload rows, with
row locks and the render lock explicit, and the stream of each workload up to
the point where retirement ends it; the facts of a Hello, which are recorded
before the stream registers and rendered after it, and stay unrendered when it
does not, are left out, and inventory reports stand for facts. **`Compile`** is the renderer, its dry run
and the state version a dry run is judged by.

**`PolicyAdmission`** is validation and the document form, whose references are
texts that `ResolveID` tries as an id first; **`PolicyRows`** the
rows of the authored model and what a read assembles from them;
**`FleetDouble`** drives the in-memory store of the tests beside them.
**`Provisioning`** is provisioning tokens, enrollment (the row is read, then the
clock and checked, then the credential is signed and the row written) and
renewal, beside the in-memory enrollment store. **`Operator`** is the operator surface's doors with
sessions, tokens and the retention sweep; **`LoginThrottle`** the login
throttle.

### Host

**`EnforceStore`** is the agent's policy store: `Load` and `Restore` at start,
`Apply` as save, rename, directory sync, set update or full rendering, and
return. `Faults` names what may go wrong: each of those steps failing, the
daemon or the host going down, and the kill switch. After a power loss the file
is any member of `durable`. What nft does with a script is external: a
transaction commits whole or not at all, and a set update is refused when a set
or an element it deletes is missing. **`MarkAllocator`** is the allocation of
connection marks, saved beside the policy. **`OwnedTable`** walks packets
through the rendered table and reads its log. **`Presence`** is the watch on
that table: probe, reading of the clock and verdict are three steps, and so are
an apply, its reading and its mark. **`ConntrackSource`** counts connections from the dump and the
events of the kernel's table; errors of the socket other than an overrun, and a
truncated dump, are left out. **`Renewer`** is the renewal schedule against two
clocks, **`StateDirectory`** the files of the credential and the processes that
share them, **`Authority`** the certificate authority's directory, the control
planes started from it and the credentials they sign and admit.

### Evidence and reads

**`EvidenceGaps`** is the record of lost evidence, **`FlowReport`** the pipeline
from the aggregator to the stored window. A tick is a flow window. The end of a
window is read in `CloseWindow` and the window is closed in `Close`, so that an
observation in between enters a window that ends before it; a request may fail,
be refused with its stream, or have its window refused as malformed
(`WindowRefused`), which drops it and states the loss; a heartbeat is sent with
its process's uptime and recorded later, perhaps after the process ended. The
whole seconds of the uptime are below a tick. **`Attribution`** is what ingest makes of
a window, **`FlowReads`** the flow store with its retention and the reads over
it, **`FleetReads`** the fleet list and counts beside their double,
**`Listing`** what the read statements share.

`MC*` modules instantiate these for TLC. Parts that do not share state are run
in one instance: the constant `Parts` names them, a behaviour is of one part,
and the variables of the others keep their initial value. That is a disjoint
union of the state spaces, not a product.

## Runs

Eight runs pass.

| Run | Shows | Distinct states |
| --- | --- | --- |
| `policy_sync` | safety of distribution with two pushers and a failing store: what is on the stream was rendered (`StreamIsRendered`), and at rest the registry tells the truth (`RecordedIsInstalled`, `SyncedIsAtTip`) | 3,178,450 |
| `policy_sync_live` | distribution implements `DesiredState`; a lost announcement is made up for (`ReconciledAfterLoss`); refused applies do not keep a stream busy (`ComesToRest`) | 405,348 |
| `presence` | two crashing replicas and a failing store: registry and handlers agree, a live stream is marked offline only from the other replica, `add` returns; and the watch on the table records blind time | 447,303 |
| `control_plane` | concurrent authoring: references resolve, a rule write keeps the other rules, renders that other writes tear settle (`SettledIsRendered`); dry runs foretell renders; the fleet: a retired workload is in no rendered policy, its row is frozen and its stream ends | 508,127 |
| `agent_host` | the host under every fault: what a start finds, what the kernel holds, marks, counting, packets through the table, renewal, the credential's and the authority's files | 3,060,859 |
| `flow_report` | every observation is stored, in memory or in a gap; a loss is not taken for quiet; evidence is delivered once failures stop | 809,700 |
| `access` | sessions, tokens, the login throttle, provisioning tokens; the fleet list; three in-memory doubles beside the database, which differ only where listed below; a document is admitted or every fault of it is named, and an admitted one reads back as written but for names that are ids | 1,698,641 |
| `evidence` | a delta reaches the persisted policy over skipped versions; pages, rollups, gap reads and totals against what is stored; attribution of addresses that change hands | 398,877 |

Some properties are the conjunction of two or more that are told apart in their
modules: `ServedIsStored` is `PagesPartition`, `RollupsAgree`,
`ScopeIsHonoured` and `GapReadIsTheIntersection`; `ListIsTheFleet`,
`DoublesAgree`, `AdmittedOrExplained`, `DryRunForetells`, `CountedExactlyOnce`,
`TableDecides`, `EvidenceTellsWhy`, `RenewsInTime`, `DirectoryHolds`,
`DirectorySurvives`, `TokensAreHonoured`, `AttributedRightly` and `NamesItsRule`
are made the same way.

### Bounds

- `policy_sync`: `MaxVersion` 3 gives a version to miss, one to overtake it and
  one to recover with. Two pushers are enough for two to be ready at once; the
  lock admits one. `QueueDepth` 3 lets the queue be full with a snapshot and
  deltas. It runs over one rule without peers: the data of deltas is checked in
  `evidence`, with two rules, specs, peers and modes, and proved in general.
  The liveness run has one pusher and a store that does not fail: with a store
  that always fails nothing is promised.
- `presence`: three streams let a third arrive while the second displaces the
  first. Three instants let the table go, be missed and come back.
- `control_plane`: two clients, each with a plan of one or two requests. The
  plans in `MCScenarios` and `MCFleets` pair every two operations that touch
  the same rows; what a request carries, and what fails, is free. Two rules,
  two rulesets and three groups let one be kept, one written and one created.
- `agent_host`: three applies let one fail, one restore and one be a set update
  on the result; versions play no part in the store, so one is enough. Two
  marks for three rules use the region up, so that freed values come back.
  Three connections and a socket of two overflow it. Connections whose
  destination is another host are ignored on every path of the source and left
  out. The lifetime of 12 keeps thirds and jitter whole numbers.
- `flow_report`: eight scenarios, each with its own observations and faults,
  because all faults at once are beyond TLC; capacities of 2 make windows,
  buffer and gaps overflow. More than one silent window counts as a silence, so
  that a restart and a second report fit in three ticks.
- `access`: two sources fill the throttle's table of two when a third arrives;
  tokens and sessions of one or two instants expire within the instants a
  behaviour has (three for sessions, two for provisioning tokens). Four members on pages of two move while a list is read.
- `evidence`: pages, groups and gaps have limits of two to five against data
  that exceeds them; two replicas prune in batches of one.

Deadlock is checked in `policy_sync`, `policy_sync_live` and `flow_report`,
where something can always be done; elsewhere a behaviour stops when its bound
is reached.

### Fairness

In `PolicySync` every runnable goroutine of the gateway and of the agent runs,
an agent without a stream redials (`Daemon.Run` loops), and a lost listener
reconnects (`ListenPolicyChanges` loops). The reader is strongly fair: it waits
for the session lock and for room in the queue beside pushers that come and go,
a `sync.Mutex` hands itself to a waiter that has waited long, and a channel
serves its blocked senders in order. Renders, losses, breaks and directives
are never forced. In `StreamRegistry` handlers run and writes are answered, by
success, failure or the end of their context. In `Fleet` a call that can take
its next step takes it, and a stream that was admitted goes on to register, to
send heartbeats and to be reconciled. In `FlowReport` the loops of collector,
reporter and handler keep running, the clock goes on and a supervisor restarts
the agent; failures are bounded by the scenario, so they stop.

## Where code and text disagree

Four runs end in a counterexample; each checks one statement of a comment or a
document, quoted in `PROJECT.json`.

- `missed_version`: a push that finds no tip while a stream opens is dropped;
  the version is sent only with the next announcement.
- `restore_fails`: after a failed restore a set update meets another table and a
  mixture is acknowledged as applied.
- `last_page`: the store caps a page at the number the reader has raised by one,
  so a full page at the maximum comes without a cursor although rows remain.
- `all_ports_wins`: a range stored after an entry for all ports of its protocol
  narrows that entry when the service is read back.

Others were met while modelling and have no run of their own. The models behave
as the code does in each of them.

- `gateway/sync.go:315` queues the first snapshot after releasing the lock, so a
  delta can precede it; lines 203-206 say the snapshot comes first.
- `gateway/sync.go:262`: the hold for an offline mark is per replica, so the
  replica an agent left marks it offline while another serves it;
  `docs/troubleshooting.md:78` says an ending stream never does. And a late state
  write can land after the mark (`:650`), where
  `docs/guides/promotion-and-enforcement.md:94` says the workload reads Offline.
- `enforce/durable.go:70`: when the directory sync fails the file already holds
  the policy that is reported as not persisted (`nft/store.go:155`).
- `policy/service.go:291`: a rule that returns under a removed rule's id starts
  at version 1 again, so a stale expectation can be met (`:223`).
- `collect/gaps.go:202`: a restored gap merges with a later one and is sent with
  another end, so the receiver does not recognise the repeat (`:285`).
- `policy/document.go:330-346` reads a peer by the first field given, where
  `validate.go:31`, `api/openapi.yaml:1870` and `docs/reference/innerwall-cli.md:217`
  ask for exactly one.
- `store/policy.go:394-400`: a rule that names one service twice is admitted and
  fails on the primary key of `rule_service_refs` with an internal error; the
  fleet double accepts it, where `fleettest/memstore.go:4-6` says it keeps the same
  semantics. `AnswersAgree` excepts it.
- `policy/document.go:393-409` writes a service or group by its name, and
  `:258-264` reads a text that parses as a UUID as an id, so a name that is a
  UUID reads back as another object or none; `:360` speaks of names where they
  resolve. `ReadBackIsWritten` excepts such names.
- `ingest/service.go:277-280` says a heartbeat from before a restart fails the
  test however late it arrived. The test goes by the instant of receipt
  (`store/registry.go:354`): one that is received after the next process has
  opened its window, and within a flow window of its report, passes.
  `QuietIsNotAbsent` excepts heartbeats received after their process ended.
- `collect/gaps.go:68` says a gap is `[From, To)`; an observation that enters a
  window after its end was read (`collector.go:125-132`) lies at or after the end
  of the gap its loss is stated by. `LossIsStated` excepts it.
- `api/throttle.go:84` reads the clock before it takes the lock, so windows may
  be appended out of the order of their starts (`:48-49`).
- `api/auth.go:52-60` clears the cookie after any failure to authenticate, a
  failed read of the store or a bad bearer token included; `:45` says an invalid
  cookie is cleared.
- `agent/credential/holder.go:86-89`: a re-enrollment between the check of the
  stored key and the write is overwritten, where `:74-76` say nothing is written.
- `rendered/rendered.go:119-136` leaves port ranges that overlap or touch as they
  are, so two policies that permit the same traffic may differ (`:51-52`).
- `collect/nflog/nflog_linux.go:135-148` asks for the decision when a record is
  read, so a packet logged before a mode change may be reported as one after it
  (`:21-23`).
- `ingest/resolve.go:12-15`, `service.go:128-129`: a report is resolved against
  several reads of the registry, and a split window against one per request, not
  against one instant.
- `store/db/flows.sql.go:42-43`: retention in batches can delete a gap before
  the windows of a later batch it explains.

## Proofs

Thirty theorems hold for every value of the constants under the named
assumptions: `VisibilityAssumption`, `MaxVersionAssumption`, `QueueAssumption`,
`RegistryAssumption`, `FaultAssumption`, `NoneAssumption`, `BodiesAssumption`,
`ThrottleAssumption`, `OperatorAssumption`, `ProvisioningAssumption`. They say
that numbers are numbers, flags are flags and bounds are not zero where the code
has them positive, that the visibility mode exists, that rule bodies name groups
and services, and that the value for "none" is none of the others. Each is
evaluated by a run.

Every invariant below was first checked by TLC on the run's instance.

**`RenderedProofs`**: `RoundTrip` (`Apply(p, Delta(p, q)) = q` without an error)
and `DiffEmptyIffEqual`. The argument is rule by rule: `ChangedRuleIsNew` for one
change, `RuleChangeKinds` for which ids stay, then extensionality.

**`DeltaContractProofs`**: versions name contents, deltas apply and are minimal,
following is exact, versions advance by diff. `ContractInv` is the types together
with `VersionNamesContent`; each property follows with `RoundTrip`.

**`PolicySyncProofs`**: `TypeCorrect`, `StreamRendered`,
`DistributionImplementsDesiredState`, `RecoverySnapshotsAdvance`,
`RecordedVersionIsInstalled`, `SyncedAgentIsAtTip`. That the agent holds a
rendered version is not inductive: a delta in flight must be known to join two
rendered versions, and so must everything a goroutine has read.
`StreamIsRendered` says that. The refinement adds `SnapshotsAreVersions` (a
snapshot is never the empty policy). `RecoveryInv` carries the comparison of
`CheckStale` over the read that follows it. `RecordedInv` follows the agent's
version on its way to the registry: in the last APPLIED acknowledgement, in the
reader's hands, or recorded. `TipInv` does the same for the state: the last
update queued is never above the tip, though a recovery may take the tip back
and a snapshot may be queued behind a later delta; so when nothing is left on the
stream, what the last acknowledgement decides is what the tip deserves.

**`GatewayProofs`**: for `StreamRegistry`, `RegistryCorrect`, `OneStream`,
`MarksComeFromElsewhere`, and `LiveNotOffline` for one replica and a store that
does not fail. `RegistryAgrees` is inductive as it stands; `LiveNotOffline` adds
`OpenIsOnline`. For `Provisioning`, `TokensHonoured` and `EnrollStoresAgree`:
`ProvisioningInv` says that a call about to sign has found its token unspent and
that a token's count is the number of rows that name it, which the one
transaction of `CreateWorkload` keeps.

**`AuthoringProofs`**: `References`, `Settled`, `OtherRulesKept`. What a request
has read of a ruleset is what is stored while the ruleset has the version it read
first (`Reads`, `Restated`): versions only grow, and an id is never given out
twice (`Creating`). A document is admitted only if it names real objects
(`Typed`), and the foreign keys keep that true to the commit. What a render has
loaded is current unless a write waits for the lock behind it or a render failed
since it began (`Rendering`), which is why renders torn by writes settle.

**`FleetProofs`**: `RetiredNotRendered`, `RetiredFrozen`, `PreviousModes`. None
is inductive. A call is inside its render exactly while it holds the render lock
(`Exclusive`), so what it has listed of retirements and modes stays true until it
commits (`Listed`, `Moving`); row locks keep a label write and a retirement of
one workload apart (`Holding`).

**`OperatorProofs`**: for `LoginThrottle`, `TableBounded` and
`RefusalsAreEarned`: `ThrottleInv` says that a window counts no more than was
let through since its start (`Backed`), also when the clock readings of
concurrent attempts come out of order. For `Operator`,
`DeadCredentialsAreRefused`: `OperatorInv` follows what a request has read of its
session or token, which time, revocations and the sweep may only end.

**`EnforceStoreProofs`**: `NeverOlderThanAcked` and `CurrentIsInstalled`.
`DiskInv` says in which phase of `Apply` the file and what is durable are the
policy being applied. `KernelInv` adds that a stopped daemon has no current
policy, which a start with an unreadable file relies on. `SetUpdateIsExact` is
the lemma about set updates: on the table of the old policy they leave the table
of the new one.

### Only model-checked

- Liveness, which needs fairness and `ENABLED`: `ReconciledAfterLoss`,
  `ComesToRest`, `AddReturns`, `RetiredStreamEnds`, `EvidenceIsDelivered`, and
  what `InGraceRecovers` says of a renewer that is tried again.
- What folds over data or merges it in a loop, which needs induction the provers
  cannot be given: `DryRunForetells`, `AdmittedOrExplained`, `ServedIsStored`,
  `TotalsAreCumulative`, `DoublesAgree`, `AttributedRightly`, `LossIsStated`.
- Safety not proved yet: `FleetIsRendered`, `BlindTimeIsRecorded`,
  `NamesItsRule`, `CountedExactlyOnce`, `TableDecides`, `EvidenceTellsWhy`,
  `RenewsInTime`, `DirectoryHolds`, `DirectorySurvives`, `QuietIsNotAbsent`,
  `ListIsTheFleet`.

## What the models say beside their properties

Behaviour a reader of the code may not expect; none of it violates a property.

- Rendering. A torn load is healed by the render of the write that tore it. A
  failed render is answered with an internal error although the write is kept,
  and leaves the fleet on older policies until another trigger; so does a
  failure to record listening services after changed addresses
  (`missed` in `Authoring`, `fleetMissed` in `Fleet`). `If-Match: ""` is an
  unconditional write.
- Registry. State writes, snapshot times and clock readings are not conditioned
  on retirement, and clock readings are not ordered by receipt. A stream's
  recovery snapshot may move its tip back.
- Agent store. A damaged policy file makes a start skip the mark file.
- Evidence. A window sent in several batches and retried stores, and counts,
  the batches that arrived again. A silence starts at the last receipt. A stored
  gap keeps its first count. Totals take labels and rule from the window written
  last, though an older one may come late. What was dropped is covered by the
  conntrack gap only from the report of the overrun. A clean shutdown sends what
  it can and states no loss.
- Reads. The fleet list pages by columns that change; a default time range is
  resolved again for every page.
- Operators. A new password keeps sessions. A request that passed its check
  completes although its token is revoked meanwhile. Replicas are assumed to
  share a clock. `last_used_at` may go back.
- Credentials. A partly saved enrollment refuses another until it is removed; a
  kill during re-enrollment leaves the new key beside the old certificate. At
  the instant of expiry the status page says expired while the lifecycle says
  valid. The monotonic clock stops while the host is suspended. `renew` run by
  hand makes no check of the stored key.
- Authority. `ca init` killed between its two files leaves a directory that
  neither `init` nor `open` accepts; `serve --init-ca` killed before the server
  pair does not issue it on restart; overlapping `issue-server` runs may leave a
  pair that does not match, which issuing again mends. In the last leaf lifetime
  of the root no credential is signed.
- Doubles. The fleet double accepts references to nothing, and a transaction of
  it that fails undoes writes made beside it: `FleetDouble` makes one call at a
  time and only admitted ones. The enrollment double lists tokens in no order.

## Not modelled

`PROJECT.json` gives the reason part by part. In short: encodings, HTTP routing,
cryptography, the text of scripts and generated code are out; what nft, the
kernel and Postgres do is taken from how they are used. Clocks appear where the
code decides by them (renewal, sessions, tokens, throttle, silences, presence);
elsewhere timeouts are failures that may happen. Steps of the wall clock inside
a flow window, the bound a credential's expiry puts on a stream, packets in
conntrack state `invalid`, and the rate of reconnect directives over the fleet
are left out.

Next: `FleetIsRendered` by the argument of `Settled`; the state directory's
`DiskIsNotBehind`; `InstalledKeepsItsMarks` from the allocator's saves.
