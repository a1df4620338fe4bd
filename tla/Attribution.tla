---------------------------- MODULE Attribution ----------------------------
(***************************************************************************)
(* What ingest makes of one reported window (ingest/service.go,            *)
(* resolve.go, clock.go).  The registry is listed by several queries, its  *)
(* rows and then its addresses, and the address groups by another; no      *)
(* transaction spans them, and facts, retirements and group edits commit   *)
(* in between.  The records are then checked one by one and given the peer *)
(* behind their source address.                                            *)
(*                                                                         *)
(* The silence ingest derives and the losses a report states are in        *)
(* FlowReport.  Labels ride with the workload and are left out, and no     *)
(* workload enrolls during a report.                                       *)
(***************************************************************************)
EXTENDS Integers, Sequences, FiniteSets

CONSTANTS
  Enrolled,         \* the workloads in registry order, a sequence
  Sources,          \* source addresses
  Nets,             \* CIDRs of address groups: [bits, covers]
  GroupNames,       \* address groups, numbers in id order
  Reports,          \* [start, end, records], the records a sequence of
                    \*   [src, wellFormed, first, last]
  ClockOffsets,     \* the agent's clock minus the control plane's
  WindowLength,     \* the flow window
  ClockSkewWindows,
  MaxLag,           \* bound: how long a closed window waits in the buffer
  MaxChanges        \* bound: changes of registry and groups

VARIABLES
  registry,         \* workload to [addresses, retired]
  groups,           \* group to its CIDRs
  report,           \* the report being ingested and what Ingest has read
  stored,           \* the last report's rows and its count of rejected records
  reading,          \* the last clock reading
  offset,           \* the agent's clock offset
  changes,
  during            \* since the receipt: who held each address while active,
                    \*   and the peer each address had at some instant

attributionVars == <<registry, groups, report, stored, reading, offset, changes, during>>

Workloads == {Enrolled[i] : i \in DOMAIN Enrolled}

(* The workload whose agent reports.                                       *)
Self == Enrolled[Len(Enrolled)]

Unset == -1

Idle == [at |-> "idle", body |-> <<>>, retired |-> <<>>, addresses |-> <<>>]

Nothing == [rows |-> {}, rejected |-> 0]

------------------------------------------------------------------------------
(* The index.                                                              *)

Unknown == [kind |-> "unknown", key |-> 0]

Indexed(view, w) == ~view.retired[w]

(* The first in registry order to report an address has it.                *)
WorkloadAt(view) ==
  LET held[n \in 0..Len(Enrolled)] ==
        IF n = 0 THEN <<>>
        ELSE LET w == Enrolled[n]
                 new == IF Indexed(view, w) THEN view.addresses[w] \ DOMAIN held[n - 1] ELSE {}
             IN  [a \in DOMAIN held[n - 1] \cup new |-> IF a \in new THEN w ELSE held[n - 1][a]]
  IN  held[Len(Enrolled)]

Entries(gs) == UNION {{[net |-> c, key |-> g] : c \in gs[g]} : g \in GroupNames}

(* Longest prefix first, then by id.                                       *)
Before(e, f) == e.net.bits > f.net.bits \/ (e.net.bits = f.net.bits /\ e.key <= f.key)

BuildIndex(view, gs) ==
  LET entries == Entries(gs)
      sorted[n \in 0..Cardinality(entries)] ==
        IF n = 0 THEN <<>>
        ELSE LET left == entries \ {sorted[n - 1][i] : i \in 1..(n - 1)}
             IN  Append(sorted[n - 1], CHOOSE e \in left : \A f \in left : Before(e, f))
  IN  [workloads |-> WorkloadAt(view), groups |-> sorted[Cardinality(entries)]]

(* A workload before any group, the first group whose prefix contains the  *)
(* address, or the address itself.                                         *)
Resolve(idx, a) ==
  LET hit == {i \in DOMAIN idx.groups : a \in idx.groups[i].net.covers} IN
  IF a \in DOMAIN idx.workloads THEN [kind |-> "workload", key |-> idx.workloads[a]]
  ELSE IF hit # {} THEN [kind |-> "group", key |-> idx.groups[CHOOSE i \in hit : \A j \in hit : i <= j].key]
  ELSE Unknown

------------------------------------------------------------------------------
(* The clock.                                                              *)

NoReading == [skewed |-> FALSE, sent |-> FALSE]

(* By the send instant, either way; by the window's end, only if it is     *)
(* ahead.  Both are taken relative to the receipt.                         *)
ReadClock(sentAt, sent, end) ==
  LET tolerance == ClockSkewWindows * WindowLength
  IN  [sent |-> sentAt, skewed |-> IF sentAt THEN sent > tolerance \/ sent < -tolerance ELSE end > tolerance]

------------------------------------------------------------------------------
(* The peer an address has at one instant, stated without the index: the   *)
(* first enrolled of the active workloads that report it; else, of the     *)
(* groups that contain it most narrowly, the first by id; else none.       *)

Holder(reg, gs, a) ==
  LET active == {i \in DOMAIN Enrolled : ~reg[Enrolled[i]].retired /\ a \in reg[Enrolled[i]].addresses}
      width(g) == {c.bits : c \in {d \in gs[g] : a \in d.covers}}
      narrowest == {g \in GroupNames : \E b \in width(g) : \A h \in GroupNames : \A c \in width(h) : c <= b}
  IN  IF active # {} THEN [kind |-> "workload", key |-> Enrolled[CHOOSE i \in active : \A k \in active : i <= k]]
      ELSE IF narrowest # {} THEN [kind |-> "group", key |-> CHOOSE g \in narrowest : \A h \in narrowest : g <= h]
      ELSE Unknown

Instant(reg, gs) ==
  [held |-> {wa \in Workloads \X Sources : ~reg[wa[1]].retired /\ wa[2] \in reg[wa[1]].addresses},
   peers |-> {<<a, Holder(reg, gs, a)>> : a \in Sources}]

NoInstant == [held |-> {}, peers |-> {}]

------------------------------------------------------------------------------

AttributionInit ==
  /\ registry = [w \in Workloads |-> [addresses |-> {}, retired |-> FALSE]]
  /\ groups = [g \in GroupNames |-> {}]
  /\ report = Idle /\ stored = Nothing /\ reading = NoReading
  /\ offset \in ClockOffsets /\ changes = 0 /\ during = NoInstant

(* A change commits, whatever Ingest is doing.                             *)
Commits ==
  /\ changes < MaxChanges /\ changes' = changes + 1
  /\ LET now == Instant(registry', groups') IN
     during' = IF report.at = "idle" THEN during
               ELSE [held |-> during.held \cup now.held, peers |-> during.peers \cup now.peers]
  /\ UNCHANGED <<report, stored, reading, offset>>

(* A host's addresses move; one may be reported by two hosts for a while.  *)
RecordFacts(w) ==
  \E as \in SUBSET Sources :
    /\ ~registry[w].retired /\ as # registry[w].addresses
    /\ registry' = [registry EXCEPT ![w].addresses = as] /\ UNCHANGED groups /\ Commits

RetireWorkload(w) ==
  /\ ~registry[w].retired
  /\ registry' = [registry EXCEPT ![w].retired = TRUE] /\ UNCHANGED groups /\ Commits

UpdateAddressGroup(g) ==
  \E cs \in SUBSET Nets :
    /\ cs # groups[g]
    /\ groups' = [groups EXCEPT ![g] = cs] /\ UNCHANGED registry /\ Commits

(* Mutant: the listing leaves retired_at out of its columns.               *)
MutListWorkloads ==
  \E r \in Reports :
    /\ report.at = "idle"
    /\ report' = [Idle EXCEPT !.at = "addresses", !.body = r, !.retired = [w \in Workloads |-> FALSE]]
    /\ stored' = Nothing /\ during' = Instant(registry, groups)
    /\ UNCHANGED <<registry, groups, reading, offset, changes>>

(* A report is received and the workloads' rows are read.                  *)
ListWorkloads ==
  \E r \in Reports :
    /\ report.at = "idle"
    /\ report' = [Idle EXCEPT !.at = "addresses", !.body = r, !.retired = [w \in Workloads |-> registry[w].retired]]
    /\ stored' = Nothing /\ during' = Instant(registry, groups)
    /\ UNCHANGED <<registry, groups, reading, offset, changes>>

(* A read or the write fails, and the stream with it.                      *)
IngestFails ==
  /\ report.at # "idle" /\ report' = Idle /\ during' = NoInstant
  /\ UNCHANGED <<registry, groups, stored, reading, offset, changes>>

(* The addresses are read.  A retired reporter is refused; the clock is    *)
(* read before the bounds are looked at, and the reading may fail to be    *)
(* recorded at no cost to the window; inverted bounds are refused.         *)
ListAddresses ==
  LET refused == report.retired[Self]
      inverted == report.body.end < report.body.start
  IN
  /\ report.at = "addresses"
  /\ IF refused THEN UNCHANGED reading
     ELSE \/ \E sentAt \in BOOLEAN, lag \in 0..MaxLag : reading' = ReadClock(sentAt, offset, offset - lag)
          \/ UNCHANGED reading
  /\ IF refused \/ inverted
     THEN report' = Idle /\ during' = NoInstant
     ELSE /\ report' = [report EXCEPT !.at = "groups", !.addresses = [w \in Workloads |-> registry[w].addresses]]
          /\ UNCHANGED during
  /\ UNCHANGED <<registry, groups, stored, offset, changes>>

(* The record's checks; a time left unset is the window's bound.           *)
convert(r, start, end) ==
  LET first == IF r.first = Unset THEN start ELSE r.first
      last == IF r.last = Unset THEN end ELSE r.last
  IN  r.wellFormed /\ first <= last

(* The groups are read, and every record that passes its checks is written *)
(* with its peer; one that does not is skipped and counted.                *)
Ingest ==
  LET b == report.body
      idx == BuildIndex(report, groups)
      good == {i \in DOMAIN b.records : convert(b.records[i], b.start, b.end)}
  IN
  /\ report.at = "groups"
  /\ stored' = [rows |-> {[src |-> b.records[i].src, peer |-> Resolve(idx, b.records[i].src)] : i \in good},
                rejected |-> Len(b.records) - Cardinality(good)]
  /\ report' = Idle
  /\ UNCHANGED <<registry, groups, reading, offset, changes, during>>

AttributionNext ==
  \/ ListWorkloads \/ ListAddresses \/ Ingest \/ IngestFails
  \/ \E w \in Workloads : RecordFacts(w) \/ RetireWorkload(w)
  \/ \E g \in GroupNames : UpdateAddressGroup(g)

------------------------------------------------------------------------------

(* Read at one instant, the index gives every address the peer it has: the *)
(* earliest active workload that reports it before any group, and the most *)
(* specific group before a wider one (BuildIndex, Resolve).                *)
ResolvesToTheHolder ==
  LET view == [retired |-> [w \in Workloads |-> registry[w].retired],
               addresses |-> [w \in Workloads |-> registry[w].addresses]]
      idx == BuildIndex(view, groups)
  IN  \A a \in Sources : Resolve(idx, a) = Holder(registry, groups, a)

(* However the reads and the changes interleave, traffic is attributed to  *)
(* a workload only if that workload reported the source address while      *)
(* active between the receipt and the write: never to one retired before   *)
(* the receipt, whose address may be its replacement's (BuildIndex).       *)
AttributedToAHolder ==
  \A r \in stored.rows : r.peer.kind = "workload" => <<r.peer.key, r.src>> \in during.held

(* Traffic is attributed to who held its address: by the index that        *)
(* resolves it, and by the registry while the report was ingested.         *)
AttributedRightly == ResolvesToTheHolder /\ AttributedToAHolder
==============================================================================
