----------------------------- MODULE PolicyRows -----------------------------
(***************************************************************************)
(* The authored model as rows (store/policy.go over store/db): what a      *)
(* write of a service, an address group or a ruleset leaves in the tables, *)
(* which constraint refuses it, and what a read assembles from the rows.   *)
(* A statement is an operator on the tables d; a method of the store is    *)
(* one transaction and returns the tables and its answer.  Interleaved     *)
(* transactions are the subject of Authoring.                              *)
(*                                                                         *)
(* Objects: a service [name, entries], an entry [protocol, ports] whose    *)
(* ports are ranges <<start, end>>, none for all; a group [name, cidrs];   *)
(* a ruleset [name, scope, rules], a selector a set of <<key, values>>; a  *)
(* rule [id, peers, services, entries]; a peer [kind, workloads, group,    *)
(* cidr] of the kind of its tag.  Names, ids and CIDRs are numbers.        *)
(***************************************************************************)
EXTENDS Integers, Sequences, FiniteSets, SequencesExt, Listing

NoTables ==
  [services |-> <<>>, serviceEntries |-> {}, groups |-> <<>>, cidrs |-> {},
   rulesets |-> <<>>, scopes |-> {}, rules |-> {}, peers |-> {}, matches |-> {},
   refs |-> {}, ruleEntries |-> {}]

With(table, id, row) ==
  [x \in DOMAIN table \cup {id} |-> IF x = id THEN row ELSE table[x]]

Without(table, id) == [x \in DOMAIN table \ {id} |-> table[x]]

Ok(d) == [tables |-> d, answer |-> "ok"]

Refused(d, answer) == [tables |-> d, answer |-> answer]

(* The rows of a set, in the order of the column that numbers them.        *)
InOrdinal(rows) == Ordered(rows, LAMBDA a, b : a.ordinal < b.ordinal)

-----------------------------------------------------------------------------
(* Entries.                                                                *)

(* An entry without ports is one row with NULL bounds.                     *)
entryRows(e) ==
  IF e.ports = <<>> THEN <<[protocol |-> e.protocol, range |-> <<>>]>>
  ELSE [i \in 1..Len(e.ports) |-> [protocol |-> e.protocol, range |-> e.ports[i]]]

addEntries(owner, entries) ==
  LET flat == FlattenSeq([i \in 1..Len(entries) |-> entryRows(entries[i])])
  IN {[owner |-> owner, ordinal |-> i - 1, protocol |-> flat[i].protocol,
       range |-> flat[i].range] : i \in 1..Len(flat)}

(* Rows regrouped by protocol, in first-seen order; a NULL row empties the *)
(* ranges its protocol has so far.                                         *)
entriesFromRows(rows) ==
  LET put(out, r) ==
        IF \E i \in 1..Len(out) : out[i].protocol = r.protocol
        THEN [i \in 1..Len(out) |->
                IF out[i].protocol # r.protocol THEN out[i]
                ELSE [protocol |-> r.protocol,
                      ports |-> IF r.range = <<>> THEN <<>> ELSE Append(out[i].ports, r.range)]]
        ELSE Append(out, [protocol |-> r.protocol,
                          ports |-> IF r.range = <<>> THEN <<>> ELSE <<r.range>>])
  IN FoldLeft(put, <<>>, rows)

EntriesOf(rows, owner) ==
  entriesFromRows(InOrdinal({r \in rows : r.owner = owner}))

-----------------------------------------------------------------------------
(* Conditional writes: expect is 0 for an unconditional one, else the      *)
(* version the caller read.                                                *)

Matches(table, id, expect) == id \in DOMAIN table /\ Accepts(expect, table[id].version)

NameTaken(table, id, name) == \E x \in DOMAIN table \ {id} : table[x].name = name

versionMismatch(table, id) == IF id \in DOMAIN table THEN "mismatch" ELSE "unknown"

Renamed(table, id, name) ==
  With(table, id, [name |-> name, version |-> table[id].version + 1])

-----------------------------------------------------------------------------
(* Services.                                                               *)

createService(d, id, name) ==
  [d EXCEPT !.services = With(@, id, [name |-> name, version |-> 1])]

deleteServiceEntries(d, id) ==
  [d EXCEPT !.serviceEntries = {r \in @ : r.owner # id}]

addServiceEntries(d, id, s) ==
  [d EXCEPT !.serviceEntries = @ \cup addEntries(id, s.entries)]

CreateService(d, id, s) ==
  IF NameTaken(d.services, id, s.name) THEN Refused(d, "duplicate")
  ELSE Ok(addServiceEntries(createService(d, id, s.name), id, s))

UpdateService(d, id, s, expect) ==
  IF ~Matches(d.services, id, expect) THEN Refused(d, versionMismatch(d.services, id))
  ELSE IF NameTaken(d.services, id, s.name) THEN Refused(d, "duplicate")
  ELSE Ok(addServiceEntries(
            deleteServiceEntries([d EXCEPT !.services = Renamed(@, id, s.name)], id), id, s))

DeleteService(d, id, expect) ==
  IF ~Matches(d.services, id, expect) THEN Refused(d, versionMismatch(d.services, id))
  ELSE IF \E r \in d.refs : r.service = id THEN Refused(d, "in use")
  ELSE Ok(deleteServiceEntries([d EXCEPT !.services = Without(@, id)], id))

GetService(d, id) ==
  [id |-> id, name |-> d.services[id].name, version |-> d.services[id].version,
   entries |-> EntriesOf(d.serviceEntries, id)]

ByName(table) ==
  Ordered(DOMAIN table, LAMBDA a, b : Lexically(<<table[a].name, a>>, <<table[b].name, b>>))

listServices(d) ==
  LET ids == ByName(d.services) IN [i \in 1..Len(ids) |-> GetService(d, ids[i])]

-----------------------------------------------------------------------------
(* Address groups.                                                         *)

createAddressGroup(d, id, name) ==
  [d EXCEPT !.groups = With(@, id, [name |-> name, version |-> 1])]

deleteAddressGroupCIDRs(d, id) == [d EXCEPT !.cidrs = {c \in @ : c.owner # id}]

addGroupCIDRs(d, id, g) ==
  [d EXCEPT !.cidrs = @ \cup {[owner |-> id, cidr |-> g.cidrs[i]] : i \in 1..Len(g.cidrs)}]

CreateAddressGroup(d, id, g) ==
  IF NameTaken(d.groups, id, g.name) THEN Refused(d, "duplicate")
  ELSE Ok(addGroupCIDRs(createAddressGroup(d, id, g.name), id, g))

UpdateAddressGroup(d, id, g, expect) ==
  IF ~Matches(d.groups, id, expect) THEN Refused(d, versionMismatch(d.groups, id))
  ELSE IF NameTaken(d.groups, id, g.name) THEN Refused(d, "duplicate")
  ELSE Ok(addGroupCIDRs(
            deleteAddressGroupCIDRs([d EXCEPT !.groups = Renamed(@, id, g.name)], id), id, g))

DeleteAddressGroup(d, id, expect) ==
  IF ~Matches(d.groups, id, expect) THEN Refused(d, versionMismatch(d.groups, id))
  ELSE IF \E p \in d.peers : p.kind = "group" /\ p.group = id THEN Refused(d, "in use")
  ELSE Ok(deleteAddressGroupCIDRs([d EXCEPT !.groups = Without(@, id)], id))

GetAddressGroup(d, id) ==
  [id |-> id, name |-> d.groups[id].name, version |-> d.groups[id].version,
   cidrs |-> Ordered({c.cidr : c \in {c \in d.cidrs : c.owner = id}}, LAMBDA a, b : a < b)]

listAddressGroups(d) ==
  LET ids == ByName(d.groups) IN [i \in 1..Len(ids) |-> GetAddressGroup(d, ids[i])]

-----------------------------------------------------------------------------
(* Rulesets.                                                               *)

createRuleset(d, id, name) ==
  [d EXCEPT !.rulesets = With(@, id, [name |-> name, version |-> 1])]

deleteRulesetScopeMatches(d, id) == [d EXCEPT !.scopes = {m \in @ : m.owner # id}]

(* The children of a rule go with it (ON DELETE CASCADE).                  *)
deleteRules(d, id) ==
  LET gone == {r.id : r \in {r \in d.rules : r.ruleset = id}}
  IN [d EXCEPT !.rules = {r \in @ : r.ruleset # id},
               !.peers = {p \in @ : p.rule \notin gone},
               !.matches = {m \in @ : m.rule \notin gone},
               !.refs = {r \in @ : r.rule \notin gone},
               !.ruleEntries = {e \in @ : e.owner \notin gone}]

addRulePeer(rule, ordinal, p) ==
  [rule |-> rule, ordinal |-> ordinal, kind |-> p.kind,
   group |-> IF p.kind = "group" THEN p.group ELSE 0,
   cidr |-> IF p.kind = "cidr" THEN p.cidr ELSE 0]

addRulePeerMatch(rule, ordinal, p) ==
  IF p.kind # "workloads" THEN {}
  ELSE {[rule |-> rule, ordinal |-> ordinal, key |-> m[1], values |-> m[2]] : m \in p.workloads}

(* One row per reference, in order: a service that does not exist violates *)
(* the foreign key, one the rule has already the primary key (rule_id,     *)
(* service_id), for which the caller has no name.                          *)
addRuleServiceRefs(d, id, services) ==
  LET add(acc, s) ==
        IF acc.answer # "ok" THEN acc
        ELSE IF s \notin DOMAIN d.services THEN Refused(d, "unknown service")
        ELSE IF [rule |-> id, service |-> s] \in acc.tables.refs THEN Refused(d, "internal")
        ELSE Ok([acc.tables EXCEPT !.refs = @ \cup {[rule |-> id, service |-> s]}])
  IN FoldLeft(add, Ok(d), services)

(* One rule after the other; the first constraint in the way refuses all.  *)
AddedRule(d, id, ordinal, r) ==
  IF \E x \in d.rules : x.id = r.id THEN Refused(d, "duplicate rule")
  ELSE IF \E i \in 1..Len(r.peers) :
            r.peers[i].kind = "group" /\ r.peers[i].group \notin DOMAIN d.groups
       THEN Refused(d, "unknown group")
  ELSE LET withPeers == [d EXCEPT
             !.rules = @ \cup {[id |-> r.id, ruleset |-> id, ordinal |-> ordinal]},
             !.peers = @ \cup {addRulePeer(r.id, i - 1, r.peers[i]) : i \in 1..Len(r.peers)},
             !.matches = @ \cup
               UNION {addRulePeerMatch(r.id, i - 1, r.peers[i]) : i \in 1..Len(r.peers)}]
           referring == addRuleServiceRefs(withPeers, r.id, r.services)
       IN IF referring.answer # "ok" THEN referring
          ELSE Ok([referring.tables EXCEPT !.ruleEntries = @ \cup addEntries(r.id, r.entries)])

addRulesetChildren(d, id, rs) ==
  LET scoped == [d EXCEPT !.scopes = @ \cup {[owner |-> id, key |-> m[1], values |-> m[2]] :
                                               m \in rs.scope}]
      add(acc, i) ==
        IF acc.answer = "ok" THEN AddedRule(acc.tables, id, i - 1, rs.rules[i]) ELSE acc
  IN FoldLeft(add, Ok(scoped), [i \in 1..Len(rs.rules) |-> i])

(* A refused statement rolls the transaction back.                         *)
Transaction(d, result) == IF result.answer = "ok" THEN result ELSE Refused(d, result.answer)

CreateRuleset(d, id, rs) ==
  IF NameTaken(d.rulesets, id, rs.name) THEN Refused(d, "duplicate")
  ELSE Transaction(d, addRulesetChildren(createRuleset(d, id, rs.name), id, rs))

UpdateRuleset(d, id, rs, expect) ==
  IF ~Matches(d.rulesets, id, expect) THEN Refused(d, versionMismatch(d.rulesets, id))
  ELSE IF NameTaken(d.rulesets, id, rs.name) THEN Refused(d, "duplicate")
  ELSE LET renamed == [d EXCEPT !.rulesets = Renamed(@, id, rs.name)]
       IN Transaction(d, addRulesetChildren(
                           deleteRules(deleteRulesetScopeMatches(renamed, id), id), id, rs))

DeleteRuleset(d, id, expect) ==
  IF ~Matches(d.rulesets, id, expect) THEN Refused(d, versionMismatch(d.rulesets, id))
  ELSE Ok(deleteRules(deleteRulesetScopeMatches([d EXCEPT !.rulesets = Without(@, id)], id), id))

-----------------------------------------------------------------------------
(* Reading rulesets: one query per table, joined by owner.                 *)

Selector(rows) == {<<m.key, m.values>> : m \in rows}

PeerFromRow(d, row) ==
  CASE row.kind = "workloads" ->
         [kind |-> "workloads",
          workloads |-> Selector({m \in d.matches : m.rule = row.rule /\ m.ordinal = row.ordinal})]
    [] row.kind = "group" -> [kind |-> "group", group |-> row.group]
    [] row.kind = "cidr" -> [kind |-> "cidr", cidr |-> row.cidr]

peerIndex(d, rule) ==
  LET rows == InOrdinal({p \in d.peers : p.rule = rule})
  IN [i \in 1..Len(rows) |-> PeerFromRow(d, rows[i])]

refIndex(d, rule) ==
  Ordered({r.service : r \in {r \in d.refs : r.rule = rule}}, LAMBDA a, b : a < b)

RuleFromRow(d, id) ==
  [id |-> id, peers |-> peerIndex(d, id), services |-> refIndex(d, id),
   entries |-> EntriesOf(d.ruleEntries, id)]

ruleIndex(d, id) ==
  LET rows == InOrdinal({r \in d.rules : r.ruleset = id})
  IN [i \in 1..Len(rows) |-> RuleFromRow(d, rows[i].id)]

RulesetFromRows(d, id) ==
  [id |-> id, name |-> d.rulesets[id].name, version |-> d.rulesets[id].version,
   scope |-> Selector({m \in d.scopes : m.owner = id}), rules |-> ruleIndex(d, id)]

listRulesets(d) ==
  LET ids == ByName(d.rulesets) IN [i \in 1..Len(ids) |-> RulesetFromRows(d, ids[i])]

=============================================================================
