----------------------------- MODULE FleetDouble -----------------------------
(***************************************************************************)
(* The store's double (fleet/fleettest/memstore.go), on which the tests of *)
(* authoring, the fleet service, the render engine and the API run, driven *)
(* beside the store itself by the same calls, one at a time: what a test   *)
(* shows over the double is worth what the two have in common.             *)
(*                                                                         *)
(* The store is PolicyRows for the authored model and the workload rows    *)
(* for the fleet; the double keeps objects as they were written.  Calls    *)
(* are the ones the services make: a ruleset reaches the store only when   *)
(* it is admitted, so what it names exists.  Admission lets a rule name    *)
(* one service twice, which the rows cannot hold and the double can: after *)
(* such a write the two no longer hold the same, and no call follows.      *)
(***************************************************************************)
EXTENDS PolicyRows, FiniteSetsExt

CONSTANTS
  ServiceWrites,    \* services as calls write them: [name, entries]
  GroupWrites,      \* address groups: [name, cidrs]
  RulesetWrites,    \* rulesets: [name, scope, rules]
  Hosts,            \* workload ids
  LabelSets,        \* the label sets a workload may have, numbers from 1
  Modes,            \* enforcement modes
  MaxCalls          \* bound: calls of a run

VARIABLES
  tables,           \* the authored model as rows
  rows,             \* the fleet's rows: [hosts, policies, changes, gaps, directives]
  mem,              \* the double
  answers,          \* what the last call answered: [store, double, repeated],
                    \* repeated when a rule in it named a service twice
  calls             \* calls so far

doubleVars == <<tables, rows, mem, answers, calls>>

Ids == 1..2

Expects == 0..2

-----------------------------------------------------------------------------
(* The double: the authored model.                                         *)

Did(m) == [mem |-> m, answer |-> "ok"]

Not(m, answer) == [mem |-> m, answer |-> answer]

versionOK(expect, version) == expect = 0 \/ expect = version

Stored(object, version) == [object |-> object, name |-> object.name, version |-> version]

MemCreateService(m, id, s) ==
  IF \E x \in DOMAIN m.services : m.services[x].name = s.name THEN Not(m, "duplicate")
  ELSE Did([m EXCEPT !.services = With(@, id, Stored(s, 1)), !.writes = @ + 1])

MemUpdateService(m, id, s, expect) ==
  IF id \notin DOMAIN m.services THEN Not(m, "unknown")
  ELSE IF ~versionOK(expect, m.services[id].version) THEN Not(m, "mismatch")
  ELSE IF \E x \in DOMAIN m.services \ {id} : m.services[x].name = s.name THEN Not(m, "duplicate")
  ELSE Did([m EXCEPT !.services = With(@, id, Stored(s, m.services[id].version + 1)),
                     !.writes = @ + 1])

RulesOf(m) == UNION {ToSet(m.rulesets[x].object.rules) : x \in DOMAIN m.rulesets}

(* Mutant: what rules reference is not looked up.                          *)
MutMemDeleteService(m, id, expect) ==
  IF id \notin DOMAIN m.services THEN Not(m, "unknown")
  ELSE IF ~versionOK(expect, m.services[id].version) THEN Not(m, "mismatch")
  ELSE Did([m EXCEPT !.services = Without(@, id), !.writes = @ + 1])

MemDeleteService(m, id, expect) ==
  IF id \notin DOMAIN m.services THEN Not(m, "unknown")
  ELSE IF ~versionOK(expect, m.services[id].version) THEN Not(m, "mismatch")
  ELSE IF \E r \in RulesOf(m) : Contains(r.services, id) THEN Not(m, "in use")
  ELSE Did([m EXCEPT !.services = Without(@, id), !.writes = @ + 1])

MemListServices(m) ==
  LET ids == ByName(m.services) IN [i \in 1..Len(ids) |-> <<ids[i], m.services[ids[i]]>>]

MemCreateAddressGroup(m, id, g) ==
  IF \E x \in DOMAIN m.groups : m.groups[x].name = g.name THEN Not(m, "duplicate")
  ELSE Did([m EXCEPT !.groups = With(@, id, Stored(g, 1)), !.writes = @ + 1])

MemUpdateAddressGroup(m, id, g, expect) ==
  IF id \notin DOMAIN m.groups THEN Not(m, "unknown")
  ELSE IF ~versionOK(expect, m.groups[id].version) THEN Not(m, "mismatch")
  ELSE IF \E x \in DOMAIN m.groups \ {id} : m.groups[x].name = g.name THEN Not(m, "duplicate")
  ELSE Did([m EXCEPT !.groups = With(@, id, Stored(g, m.groups[id].version + 1)),
                     !.writes = @ + 1])

MemDeleteAddressGroup(m, id, expect) ==
  IF id \notin DOMAIN m.groups THEN Not(m, "unknown")
  ELSE IF ~versionOK(expect, m.groups[id].version) THEN Not(m, "mismatch")
  ELSE IF \E r \in RulesOf(m) : \E i \in 1..Len(r.peers) :
            r.peers[i].kind = "group" /\ r.peers[i].group = id
       THEN Not(m, "in use")
  ELSE Did([m EXCEPT !.groups = Without(@, id), !.writes = @ + 1])

MemListAddressGroups(m) ==
  LET ids == ByName(m.groups) IN [i \in 1..Len(ids) |-> <<ids[i], m.groups[ids[i]]>>]

(* A rule id another ruleset holds.                                        *)
checkRuleIDs(m, id, rs) ==
  \E x \in DOMAIN m.rulesets \ {id} :
    \E r \in ToSet(m.rulesets[x].object.rules) : \E n \in ToSet(rs.rules) : r.id = n.id

MemCreateRuleset(m, id, rs) ==
  IF \E x \in DOMAIN m.rulesets : m.rulesets[x].name = rs.name THEN Not(m, "duplicate")
  ELSE IF checkRuleIDs(m, id, rs) THEN Not(m, "duplicate rule")
  ELSE Did([m EXCEPT !.rulesets = With(@, id, Stored(rs, 1)), !.writes = @ + 1])

MemUpdateRuleset(m, id, rs, expect) ==
  IF id \notin DOMAIN m.rulesets THEN Not(m, "unknown")
  ELSE IF ~versionOK(expect, m.rulesets[id].version) THEN Not(m, "mismatch")
  ELSE IF \E x \in DOMAIN m.rulesets \ {id} : m.rulesets[x].name = rs.name THEN Not(m, "duplicate")
  ELSE IF checkRuleIDs(m, id, rs) THEN Not(m, "duplicate rule")
  ELSE Did([m EXCEPT !.rulesets = With(@, id, Stored(rs, m.rulesets[id].version + 1)),
                     !.writes = @ + 1])

MemDeleteRuleset(m, id, expect) ==
  IF id \notin DOMAIN m.rulesets THEN Not(m, "unknown")
  ELSE IF ~versionOK(expect, m.rulesets[id].version) THEN Not(m, "mismatch")
  ELSE Did([m EXCEPT !.rulesets = Without(@, id), !.writes = @ + 1])

MemListRulesets(m) ==
  LET ids == ByName(m.rulesets) IN [i \in 1..Len(ids) |-> <<ids[i], m.rulesets[ids[i]]>>]

-----------------------------------------------------------------------------
(* The fleet: each statement on the rows f of the store and on the double. *)

(* What a render gives an active workload, from the active ones' labels.   *)
RenderedFor(f, h) ==
  <<f.hosts[h].mode, {f.hosts[x].labels : x \in {x \in DOMAIN f.hosts : ~f.hosts[x].retired}}>>

Changed(f) ==
  {h \in DOMAIN f.hosts : ~f.hosts[h].retired
                          /\ (h \in DOMAIN f.policies => f.policies[h].content # RenderedFor(f, h))}

Planned(f, h) ==
  [version |-> IF h \in DOMAIN f.policies THEN f.policies[h].version + 1 ELSE 1,
   content |-> RenderedFor(f, h)]

ReplaceLabels(f, h, labels, expect) ==
  IF h \notin DOMAIN f.hosts THEN [rows |-> f, answer |-> "unknown"]
  ELSE IF f.hosts[h].retired THEN [rows |-> f, answer |-> "retired"]
  ELSE IF ~Accepts(expect, f.hosts[h].labels) THEN [rows |-> f, answer |-> "mismatch"]
  ELSE [rows |-> [f EXCEPT !.hosts[h].labels = labels], answer |-> "ok"]

MemReplaceWorkloadLabels(m, h, labels, expect) ==
  IF h \notin DOMAIN m.hosts THEN Not(m, "unknown")
  ELSE IF m.hosts[h].retired THEN Not(m, "retired")
  ELSE IF expect # 0 /\ expect # m.hosts[h].labels THEN Not(m, "mismatch")
  ELSE Did([m EXCEPT !.hosts[h].labels = labels, !.writes = @ + 1])

createModeChange(f, change) == [f EXCEPT !.changes = Append(@, change)]

RecordModeChange(m, change) == [m EXCEPT !.changes = Append(@, change), !.writes = @ + 1]

(* UPDATE ... WHERE id = ANY(ids) AND mode <> target.                      *)
updateModes(f, hs, mode) ==
  [f EXCEPT !.hosts = [h \in DOMAIN @ |->
     IF h \in hs /\ @[h].mode # mode THEN [@[h] EXCEPT !.mode = mode] ELSE @[h]]]

SetWorkloadModes(m, hs, mode) ==
  [m EXCEPT !.hosts = [h \in DOMAIN @ |-> IF h \in hs THEN [@[h] EXCEPT !.mode = mode] ELSE @[h]],
            !.writes = @ + 1]

upsertPolicy(f, h) == [f EXCEPT !.policies = With(@, h, Planned(f, h))]

SavePolicy(m, h) == [m EXCEPT !.policies = With(@, h, Planned(m, h)), !.writes = @ + 1]

retireRow(f, h) == [f EXCEPT !.hosts[h].retired = TRUE]

StampRetired(m, h) == [m EXCEPT !.hosts[h].retired = TRUE, !.writes = @ + 1]

insertGap(f, h) == [f EXCEPT !.gaps = @ \cup {h}]

WriteGaps(m, h) == [m EXCEPT !.gaps = @ \cup {h}, !.writes = @ + 1]

notifyDirective(f, h) == [f EXCEPT !.directives = Append(@, h)]

DirectEnd(m, h) == [m EXCEPT !.directives = Append(@, h)]

(* One statement of a transaction.                                         *)
Execute(f, s) ==
  CASE s.do = "record" -> createModeChange(f, s.change)
    [] s.do = "modes" -> updateModes(f, s.change.hosts, s.change.mode)
    [] s.do = "save" -> IF s.host \in Changed(f) THEN upsertPolicy(f, s.host) ELSE f
    [] s.do = "stamp" -> retireRow(f, s.host)
    [] s.do = "gap" -> insertGap(f, s.host)
    [] s.do = "end" -> notifyDirective(f, s.host)

MemExecute(m, s) ==
  CASE s.do = "record" -> RecordModeChange(m, s.change)
    [] s.do = "modes" -> SetWorkloadModes(m, s.change.hosts, s.change.mode)
    [] s.do = "save" -> IF s.host \in Changed(m) THEN SavePolicy(m, s.host) ELSE m
    [] s.do = "stamp" -> StampRetired(m, s.host)
    [] s.do = "gap" -> WriteGaps(m, s.host)
    [] s.do = "end" -> DirectEnd(m, s.host)

(* A transaction whose statement after the first k fails; k = Len for none.*)
Committed(f, statements, k) ==
  IF k = Len(statements) THEN FoldLeft(Execute, f, statements) ELSE f

restore(m, snap) == snap

inTx(m, statements, k) ==
  LET after == FoldLeft(MemExecute, m, SubSeq(statements, 1, k))
  IN IF k = Len(statements) THEN after ELSE restore(after, m)

Saves == [i \in 1..Cardinality(Hosts) |-> [do |-> "save", host |-> i]]

ModeChangeTx(f, change) ==
  LET previous == [change EXCEPT !.previous = [h \in change.hosts |-> f.hosts[h].mode]]
  IN <<[do |-> "record", change |-> previous], [do |-> "modes", change |-> previous]>> \o Saves

RetireTx(h) ==
  <<[do |-> "stamp", host |-> h], [do |-> "gap", host |-> h]>> \o Saves
    \o <<[do |-> "end", host |-> h]>>

-----------------------------------------------------------------------------
(* Empty, or holding one of each.                                          *)

(* A rule of the ruleset names a service twice.                            *)
Repeats(rs) ==
  \E i \in 1..Len(rs.rules) : ~IsInjective(rs.rules[i].services)

NoObjects ==
  [services |-> <<>>, groups |-> <<>>, rulesets |-> <<>>, writes |-> 0,
   hosts |-> [h \in Hosts |-> [labels |-> 1, mode |-> 1, retired |-> FALSE]],
   policies |-> <<>>, changes |-> <<>>, gaps |-> {}, directives |-> <<>>]

DoubleInit ==
  /\ rows = [hosts |-> NoObjects.hosts, policies |-> <<>>, changes |-> <<>>, gaps |-> {},
             directives |-> <<>>]
  /\ answers = [store |-> "ok", double |-> "ok", repeated |-> FALSE]
  /\ calls = 0
  /\ \/ tables = NoTables /\ mem = NoObjects
     \/ \E s \in ServiceWrites, g \in GroupWrites, rs \in RulesetWrites :
          /\ ~Repeats(rs)
          /\ tables = CreateRuleset(CreateAddressGroup(CreateService(NoTables, 1, s).tables, 1, g).tables,
                                    1, rs).tables
          /\ mem = MemCreateRuleset(MemCreateAddressGroup(MemCreateService(NoObjects, 1, s).mem, 1, g).mem,
                                    1, rs).mem

-----------------------------------------------------------------------------
(* Calls.                                                                  *)

Call == calls < MaxCalls /\ answers.store = answers.double /\ calls' = calls + 1

Answered(store, double, repeated) ==
  answers' = [store |-> store, double |-> double, repeated |-> repeated]

OnPolicy(onStore, onDouble, repeated) ==
  /\ tables' = onStore.tables
  /\ mem' = onDouble.mem
  /\ Answered(onStore.answer, onDouble.answer, repeated)
  /\ UNCHANGED rows

Unused(table) == {id \in Ids : id \notin DOMAIN table}

ServiceCalls ==
  /\ Call
  /\ \/ \E id \in Unused(tables.services), s \in ServiceWrites :
          OnPolicy(CreateService(tables, id, s), MemCreateService(mem, id, s), FALSE)
     \/ \E id \in Ids, s \in ServiceWrites, e \in Expects :
          OnPolicy(UpdateService(tables, id, s, e), MemUpdateService(mem, id, s, e), FALSE)
     \/ \E id \in Ids, e \in Expects :
          OnPolicy(DeleteService(tables, id, e), MemDeleteService(mem, id, e), FALSE)

GroupCalls ==
  /\ Call
  /\ \/ \E id \in Unused(tables.groups), g \in GroupWrites :
          OnPolicy(CreateAddressGroup(tables, id, g), MemCreateAddressGroup(mem, id, g), FALSE)
     \/ \E id \in Ids, g \in GroupWrites, e \in Expects :
          OnPolicy(UpdateAddressGroup(tables, id, g, e), MemUpdateAddressGroup(mem, id, g, e), FALSE)
     \/ \E id \in Ids, e \in Expects :
          OnPolicy(DeleteAddressGroup(tables, id, e), MemDeleteAddressGroup(mem, id, e), FALSE)

Admitted(rs) ==
  \A i \in 1..Len(rs.rules) :
    /\ ToSet(rs.rules[i].services) \subseteq DOMAIN tables.services
    /\ \A p \in ToSet(rs.rules[i].peers) : p.kind = "group" => p.group \in DOMAIN tables.groups

RulesetCalls ==
  /\ Call
  /\ \/ \E id \in Unused(tables.rulesets), rs \in RulesetWrites :
          /\ Admitted(rs)
          /\ OnPolicy(CreateRuleset(tables, id, rs), MemCreateRuleset(mem, id, rs), Repeats(rs))
     \/ \E id \in Ids, rs \in RulesetWrites, e \in Expects :
          /\ Admitted(rs)
          /\ OnPolicy(UpdateRuleset(tables, id, rs, e), MemUpdateRuleset(mem, id, rs, e), Repeats(rs))
     \/ \E id \in Ids, e \in Expects :
          OnPolicy(DeleteRuleset(tables, id, e), MemDeleteRuleset(mem, id, e), FALSE)

LabelCalls ==
  /\ Call
  /\ \E h \in Hosts, labels \in LabelSets, e \in {0} \cup LabelSets :
       LET store == ReplaceLabels(rows, h, labels, e)
           double == MemReplaceWorkloadLabels(mem, h, labels, e)
       IN /\ rows' = store.rows /\ mem' = double.mem
          /\ Answered(store.answer, double.answer, FALSE)
  /\ UNCHANGED tables

FleetTransaction(onStore, onDouble, k) ==
  /\ rows' = Committed(rows, onStore, k)
  /\ mem' = inTx(mem, onDouble, k)
  /\ Answered(IF k = Len(onStore) THEN "ok" ELSE "failed",
              IF k = Len(onDouble) THEN "ok" ELSE "failed", FALSE)
  /\ UNCHANGED tables

(* The fleet service resolves active workloads only.                       *)
ModeChangeCalls ==
  /\ Call
  /\ \E hs \in SUBSET Hosts \ {{}}, mode \in Modes :
       /\ \A h \in hs : ~rows.hosts[h].retired /\ ~mem.hosts[h].retired
       /\ LET change == [hosts |-> hs, mode |-> mode, previous |-> <<>>]
          IN \E k \in 0..Len(ModeChangeTx(rows, change)) :
               FleetTransaction(ModeChangeTx(rows, change), ModeChangeTx(mem, change), k)

RetireCalls ==
  /\ Call
  /\ \E h \in Hosts : \E k \in 0..Len(RetireTx(h)) :
       /\ ~rows.hosts[h].retired /\ ~mem.hosts[h].retired
       /\ FleetTransaction(RetireTx(h), RetireTx(h), k)

RetireAgain ==
  /\ Call
  /\ \E h \in Hosts :
       /\ rows.hosts[h].retired \/ mem.hosts[h].retired
       /\ Answered(IF rows.hosts[h].retired THEN "retired" ELSE "ok",
                   IF mem.hosts[h].retired THEN "retired" ELSE "ok", FALSE)
  /\ UNCHANGED <<tables, rows, mem>>

DoubleNext ==
  \/ ServiceCalls \/ GroupCalls \/ RulesetCalls
  \/ LabelCalls \/ ModeChangeCalls \/ RetireCalls \/ RetireAgain

-----------------------------------------------------------------------------

(* The ports of a protocol entries admit, <<>> for all.                    *)
Admits(entries) ==
  UNION {IF e.ports = <<>> THEN {<<e.protocol, <<>>>>}
         ELSE {<<e.protocol, e.ports[i]>> : i \in 1..Len(e.ports)} : e \in ToSet(entries)}

(* An entry for all ports of a protocol beside one for some of them.       *)
Mixed(entries) ==
  \E e, o \in ToSet(entries) : e.protocol = o.protocol /\ e.ports = <<>> /\ o.ports # <<>>

(* What the entries read admit is what the written ones do.  Mixed ones    *)
(* are merged in the order of their rows: the range or the open entry is   *)
(* lost, never a protocol, and nothing is admitted that was not written.   *)
SameEntries(read, written) ==
  /\ Admits(read) \subseteq Admits(written)
  /\ {e.protocol : e \in ToSet(read)} = {e.protocol : e \in ToSet(written)}
  /\ ~Mixed(written) => Admits(read) = Admits(written)

SameRule(r, m) ==
  /\ r.id = m.id /\ r.peers = m.peers
  /\ ToSet(r.services) = ToSet(m.services)
  /\ SameEntries(r.entries, m.entries)

SameRules(rs, ms) == Len(rs) = Len(ms) /\ \A i \in 1..Len(rs) : SameRule(rs[i], ms[i])

(* A call answers the same from the store and from its double: created,    *)
(* replaced or removed, or refused for the same reason, whether or not it  *)
(* is conditional and whatever calls came before.  The one exception is a  *)
(* ruleset with a rule that names a service twice: when nothing else is    *)
(* wrong with it the double takes it and the store fails without a reason. *)
AnswersAgree ==
  \/ answers.store = answers.double
  \/ answers.repeated /\ answers.store = "internal" /\ answers.double = "ok"

(* What the store assembles from its rows means what the double kept: the  *)
(* same services, groups and rulesets under the same names, versions and   *)
(* rule order, admitting the same peers, and the same ports unless an      *)
(* entry for all of a protocol stands beside a range of it.                *)
PolicyReadsAgree ==
  answers.store = answers.double =>
  LET s == listServices(tables)
      ms == MemListServices(mem)
      g == listAddressGroups(tables)
      mg == MemListAddressGroups(mem)
      r == listRulesets(tables)
      mr == MemListRulesets(mem)
  IN /\ Len(s) = Len(ms) /\ Len(g) = Len(mg) /\ Len(r) = Len(mr)
     /\ \A i \in 1..Len(s) :
          /\ <<s[i].id, s[i].name, s[i].version>> = <<ms[i][1], ms[i][2].name, ms[i][2].version>>
          /\ SameEntries(s[i].entries, ms[i][2].object.entries)
     /\ \A i \in 1..Len(g) :
          /\ <<g[i].id, g[i].name, g[i].version>> = <<mg[i][1], mg[i][2].name, mg[i][2].version>>
          /\ ToSet(g[i].cidrs) = ToSet(mg[i][2].object.cidrs)
     /\ \A i \in 1..Len(r) :
          /\ <<r[i].id, r[i].name, r[i].version>> = <<mr[i][1], mr[i][2].name, mr[i][2].version>>
          /\ r[i].scope = mr[i][2].object.scope
          /\ SameRules(r[i].rules, mr[i][2].object.rules)

(* A mode change or a retirement is all or nothing in the double as it is  *)
(* in the store: after a transaction that failed at any of its statements, *)
(* and after one that did not, both hold the same fleet, policies, mode    *)
(* changes, gaps and directed ends.                                        *)
FleetAgrees ==
  rows = [hosts |-> mem.hosts, policies |-> mem.policies, changes |-> mem.changes,
          gaps |-> mem.gaps, directives |-> mem.directives]

(* All ports wins for the protocol (store/policy.go, entriesFromRows): a   *)
(* service written with an entry that admits every port of a protocol      *)
(* reads back admitting every port of it.                                  *)
AllPortsWins ==
  \A i \in 1..Len(MemListServices(mem)) :
    LET written == MemListServices(mem)[i][2].object.entries
        read == listServices(tables)[i].entries
    IN \A e \in ToSet(written) : e.ports = <<>> => [protocol |-> e.protocol, ports |-> <<>>] \in ToSet(read)

(* The in-memory stores stand for the database: they answer alike, read    *)
(* policy back alike and hold the same fleet.                              *)
StoresAgree == AnswersAgree /\ PolicyReadsAgree /\ FleetAgrees
=============================================================================
