--------------------------- MODULE PolicyAdmission ---------------------------
(***************************************************************************)
(* Admission (policy/validate.go, labels.go) and the document form         *)
(* (document.go): what a written document becomes, and everything found    *)
(* wrong with it in one pass.                                              *)
(*                                                                         *)
(* Texts are abstracted to what reading them tells apart.  A path is a     *)
(* sequence of its parts.  Ids are numbers; the texts that parse as one    *)
(* are the domain of IdOf, names among them, and TextOf is the text an id  *)
(* is written as.  An id field is 0 for none, -1 for no id.  A port spec   *)
(* is <<lo, hi>>, <<>> when it does not parse; a protocol is 1 to 3 (tcp,  *)
(* udp, icmp), 0 when unknown; a direction is "inbound", "outbound", "" or *)
(* anything else.  A CIDR is a number, 0 none, -1 unreadable.  A peer      *)
(* document gives some of its three fields.  A label text is the sequence  *)
(* of its characters' classes: "a" a letter or digit, "." one of . _ -,    *)
(* "/" a slash, " " anything else.                                         *)
(***************************************************************************)
EXTENDS Integers, Sequences, FiniteSets, SequencesExt

CONSTANTS
  MaxLabelLength, MaxPort,
  IdOf,             \* the texts that parse as ids, with the id
  TextOf            \* ids, with their text

ICMP == 3

NoId == 0

-----------------------------------------------------------------------------
(* Findings.                                                               *)

addIf(cond, path, rule) == IF cond THEN <<[path |-> path, rule |-> rule]>> ELSE <<>>

(* The findings at every index of seq, in order.                           *)
Each(seq, at(_)) == FlattenSeq([i \in 1..Len(seq) |-> at(i)])

(* What a document could not supply, ahead of admission's own findings,    *)
(* of which those at a faulted path are not added.                         *)
carry(path, faults, found) ==
  LET at == [i \in 1..Len(faults) |-> [faults[i] EXCEPT !.path = path \o @]]
      faulted == {at[i].path : i \in 1..Len(at)}
  IN at \o SelectSeq(found, LAMBDA e : e.path \notin faulted)

Rebase(errors, prefix) ==
  [i \in 1..Len(errors) |->
     IF IsPrefix(prefix, errors[i].path)
     THEN [errors[i] EXCEPT !.path = SubSeq(@, Len(prefix) + 1, Len(@))] ELSE errors[i]]

-----------------------------------------------------------------------------
(* The label grammar.                                                      *)

inGrammar(s, key) ==
  /\ Len(s) \in 1..MaxLabelLength
  /\ \A i \in 1..Len(s) :
       s[i] # "a" => i \notin {1, Len(s)} /\ (s[i] = "." \/ (s[i] = "/" /\ key))

CheckLabelKey(key) ==
  IF key = <<>> THEN "label-key-required"
  ELSE IF ~inGrammar(key, TRUE) THEN "label-key" ELSE ""

CheckLabelValue(value) == IF ~inGrammar(value, FALSE) THEN "label-value" ELSE ""

-----------------------------------------------------------------------------
(* Admission of the parts of a rule.                                       *)

(* A selector is a sequence of [key, values], its keys in order.           *)
validateSelector(path, s) ==
  LET value(k, v) == addIf(CheckLabelValue(v) # "", path \o <<s[k].key>>, CheckLabelValue(v))
      match(k) ==
        IF CheckLabelKey(s[k].key) # "" THEN addIf(TRUE, path, CheckLabelKey(s[k].key))
        ELSE addIf(s[k].values = <<>>, path \o <<s[k].key>>, "label-values-required")
             \o Each(s[k].values, LAMBDA j : value(k, s[k].values[j]))
  IN addIf(s = <<>>, path, "selector-empty") \o Each(s, match)

validateEntry(path, e) ==
  addIf(e.protocol = 0, path \o <<"protocol">>, "protocol")
  \o addIf(e.protocol = ICMP /\ e.ports # <<>>, path \o <<"ports">>, "ports-on-portless-protocol")
  \o Each(e.ports, LAMBDA i : addIf(e.ports[i][1] > e.ports[i][2] \/ e.ports[i][2] > MaxPort,
                                    path \o <<"ports", i>>, "port-range"))

validatePeer(path, p, refs) ==
  CASE p.kind = "workloads" -> validateSelector(path \o <<"workloads">>, p.workloads)
    [] p.kind = "group" -> addIf(p.group \notin refs.groups, path \o <<"address_group">>,
                                 "address-group-unknown")
    [] p.kind = "cidr" -> addIf(p.cidr < 1, path \o <<"cidr">>, "cidr")
    [] p.kind = "none" -> addIf(TRUE, path, "peer-shape")

validateRule(path, r, refs) ==
  carry(path, r.faults,
    addIf(r.direction # "inbound", path \o <<"direction">>,
          IF r.direction = "outbound" THEN "direction-outbound" ELSE "direction-required")
    \o addIf(r.peers = <<>>, path \o <<"peers">>, "peers-required")
    \o Each(r.peers, LAMBDA i : validatePeer(path \o <<"peers", i>>, r.peers[i], refs))
    \o addIf(r.services = <<>> /\ r.entries = <<>>, path \o <<"services">>, "services-required")
    \o Each(r.services, LAMBDA i : addIf(r.services[i] \notin refs.services,
                                         path \o <<"services", i>>, "service-unknown"))
    \o Each(r.entries, LAMBDA i : validateEntry(path \o <<"entries", i>>, r.entries[i])))

(* Mutant: a fault of the document ends the pass.                          *)
MutValidateRuleset(rs, refs) ==
  IF rs.faults # <<>> THEN rs.faults
  ELSE addIf(rs.name = "", <<"name">>, "name-required")
       \o validateSelector(<<"scope">>, rs.scope)
       \o Each(rs.rules, LAMBDA i : validateRule(<<"rules", i>>, rs.rules[i], refs))

ValidateRuleset(rs, refs) ==
  LET again(i) == rs.rules[i].id # NoId /\ \E j \in 1..(i - 1) : rs.rules[j].id = rs.rules[i].id
  IN carry(<<>>, rs.faults,
       addIf(rs.name = "", <<"name">>, "name-required")
       \o validateSelector(<<"scope">>, rs.scope)
       \o Each(rs.rules, LAMBDA i :
            addIf(again(i), <<"rules", i, "id">>, "rule-id-duplicate")
            \o validateRule(<<"rules", i>>, rs.rules[i], refs)))

ValidateRule(r, refs) == Rebase(validateRule(<<>>, r, refs), <<>>)

-----------------------------------------------------------------------------
(* Documents.                                                              *)

(* names: the services and groups by name, functions from names to ids.    *)
NewNames(services, groups) ==
  LET index(objects) == [n \in {o.name : o \in objects} |->
                           (CHOOSE o \in objects : o.name = n).id]
  IN [services |-> index(services), groups |-> index(groups)]

(* A text that parses as an id is the id, whether or not it is in use.     *)
ResolveID(text, byName) ==
  IF text \in DOMAIN IdOf THEN IdOf[text]
  ELSE IF text \in DOMAIN byName THEN byName[text] ELSE NoId

ParseID(text) == IF text = -1 THEN NoId ELSE text

(* An unreadable port keeps its place, so later ones keep their index.     *)
ParsePortSpec(spec) == IF spec = <<>> THEN <<0, 0>> ELSE spec

entryFromDoc(d) ==
  [protocol |-> d.protocol, ports |-> [i \in 1..Len(d.ports) |-> ParsePortSpec(d.ports[i])]]

EntryFaults(path, d) ==
  addIf(d.protocol = 0, path \o <<"protocol">>, "protocol")
  \o Each(d.ports, LAMBDA i : addIf(d.ports[i] = <<>>, path \o <<"ports", i>>, "port-spec"))

(* The first field present says the kind of a peer.                        *)
PeerKind(pd) ==
  CASE "workloads" \in DOMAIN pd -> "workloads"
    [] "workloads" \notin DOMAIN pd /\ "group" \in DOMAIN pd -> "group"
    [] DOMAIN pd = {"cidr"} -> "cidr"
    [] DOMAIN pd = {} -> "none"

PeerFromDoc(pd, names) ==
  CASE PeerKind(pd) = "workloads" -> [kind |-> "workloads", workloads |-> pd.workloads]
    [] PeerKind(pd) = "group" -> [kind |-> "group", group |-> ResolveID(pd.group, names.groups)]
    [] PeerKind(pd) = "cidr" -> [kind |-> "cidr", cidr |-> pd.cidr]
    [] PeerKind(pd) = "none" -> [kind |-> "none"]

ParseDirection(d) == IF d \in {"inbound", "outbound"} THEN d ELSE ""

RuleFaults(rd, names) ==
  LET noGroup(pd) == PeerKind(pd) = "group" /\ ResolveID(pd.group, names.groups) = NoId
      noService(ref) == ResolveID(ref, names.services) = NoId
  IN addIf(rd.id = -1, <<"id">>, "id")
     \o addIf(rd.direction \notin {"inbound", "outbound", ""}, <<"direction">>, "direction")
     \o Each(rd.peers, LAMBDA i : addIf(noGroup(rd.peers[i]), <<"peers", i, "address_group">>,
                                        "address-group-unknown"))
     \o Each(rd.services, LAMBDA i : addIf(noService(rd.services[i]), <<"services", i>>,
                                           "service-unknown"))
     \o Each(rd.entries, LAMBDA i : EntryFaults(<<"entries", i>>, rd.entries[i]))

RuleFromDoc(rd, names) ==
  [id |-> ParseID(rd.id), direction |-> ParseDirection(rd.direction), enabled |-> rd.enabled,
   peers |-> [i \in 1..Len(rd.peers) |-> PeerFromDoc(rd.peers[i], names)],
   services |-> [i \in 1..Len(rd.services) |-> ResolveID(rd.services[i], names.services)],
   entries |-> [i \in 1..Len(rd.entries) |-> entryFromDoc(rd.entries[i])],
   faults |-> RuleFaults(rd, names)]

RulesetFromDoc(doc, names) ==
  [id |-> ParseID(doc.id), name |-> doc.name, scope |-> doc.scope,
   rules |-> [i \in 1..Len(doc.rules) |-> RuleFromDoc(doc.rules[i], names)],
   faults |-> addIf(doc.id = -1, <<"id">>, "id")]

entryToDoc(e) == [protocol |-> e.protocol, ports |-> e.ports]

(* A name where one resolves, the id otherwise.                            *)
Named(id, byName) ==
  IF \E n \in DOMAIN byName : byName[n] = id
  THEN CHOOSE n \in DOMAIN byName : byName[n] = id
  ELSE TextOf[id]

PeerToDoc(p, names) ==
  CASE p.kind = "workloads" -> [workloads |-> p.workloads]
    [] p.kind = "group" -> [group |-> Named(p.group, names.groups)]
    [] p.kind = "cidr" -> [cidr |-> p.cidr]

RuleToDoc(r, names) ==
  [id |-> r.id, direction |-> r.direction, enabled |-> r.enabled,
   peers |-> [i \in 1..Len(r.peers) |-> PeerToDoc(r.peers[i], names)],
   services |-> [i \in 1..Len(r.services) |-> Named(r.services[i], names.services)],
   entries |-> [i \in 1..Len(r.entries) |-> entryToDoc(r.entries[i])]]

RulesetToDoc(rs, names) ==
  [id |-> rs.id, name |-> rs.name, scope |-> rs.scope,
   rules |-> [i \in 1..Len(rs.rules) |-> RuleToDoc(rs.rules[i], names)]]

-----------------------------------------------------------------------------
(* Before a write: ids where there are none, CIDRs in canonical form.      *)

(* A CIDR 10 * p + h is the prefix p written with host bits h.             *)
canonicalCIDR(c) == (c \div 10) * 10

(* fresh is a new id; a rule gets the fresh one for its place.             *)
assignRuleIDs(rs, fresh) ==
  [rs EXCEPT !.rules = [i \in 1..Len(@) |->
     [@[i] EXCEPT !.id = IF @ = NoId THEN 10 * fresh + i ELSE @,
                  !.peers = [j \in 1..Len(@) |->
                    IF @[j].kind = "cidr" THEN [@[j] EXCEPT !.cidr = canonicalCIDR(@)]
                    ELSE @[j]]]]]

AssignIDs(rs, fresh) ==
  assignRuleIDs([rs EXCEPT !.id = IF @ = NoId THEN fresh ELSE @], fresh)

-----------------------------------------------------------------------------
(* One document at a time, against the services and groups there are.      *)

CONSTANTS
  Documents,        \* ruleset documents
  GoodRule,         \* a rule document with nothing wrong
  GoodScope,        \* a scope with nothing wrong
  KnownServices,    \* the services: a set of [id, name]
  KnownGroups       \* the address groups: a set of [id, name]

VARIABLE document

Names == NewNames(KnownServices, KnownGroups)

References == [services |-> {s.id : s \in KnownServices}, groups |-> {g.id : g \in KnownGroups}]

Findings(doc) == ValidateRuleset(RulesetFromDoc(doc, Names), References)

Under(errors, prefix) == {e \in ToSet(errors) : IsPrefix(prefix, e.path)}

AdmissionInit == document \in Documents

-----------------------------------------------------------------------------

(* Admission reports all of a document's faults at once: what it finds at  *)
(* one part of a ruleset document (id, name, scope, one rule) is what it   *)
(* finds there when every other part is good, so no fault hides another;   *)
(* and a rule write, whose findings are rebased to the rule, says of a     *)
(* rule what a write of the whole ruleset says of it.                      *)
NoFaultHidesAnother ==
  LET all == Findings(document)
      n == Len(document.rules)
      good == [document EXCEPT !.id = NoId, !.name = "web", !.scope = GoodScope,
                               !.rules = [i \in 1..n |-> GoodRule]]
      onlyRule(i) == [good EXCEPT !.rules = [@ EXCEPT ![i] = document.rules[i]]]
      sameId(i) == {e \in ToSet(all) : e.path = <<"rules", i, "id">> /\ e.rule = "rule-id-duplicate"}
  IN /\ Under(all, <<"id">>) = Under(Findings([good EXCEPT !.id = document.id]), <<"id">>)
     /\ Under(all, <<"name">>) = Under(Findings([good EXCEPT !.name = document.name]), <<"name">>)
     /\ Under(all, <<"scope">>) = Under(Findings([good EXCEPT !.scope = document.scope]), <<"scope">>)
     /\ \A i \in 1..n :
          /\ Under(all, <<"rules", i>>) \ sameId(i) = Under(Findings(onlyRule(i)), <<"rules", i>>)
          /\ ToSet(ValidateRule(RuleFromDoc(document.rules[i], Names), References))
               \subseteq ToSet(Rebase(all, <<"rules", i>>))

(* The name an object is written as in a document means that object.       *)
NameIsNotAnId(id, byName) == ResolveID(Named(id, byName), byName) = id

(* What a client reads of an admitted ruleset and writes back unchanged is *)
(* that ruleset, whichever texts, ids or names, forms of an id or host     *)
(* bits of a CIDR it was first written with, peers with two fields         *)
(* included, of which the first is kept.  The exception is an object whose *)
(* name parses as an id: it is read by its name, and the name is taken for *)
(* the id.                                                                 *)
ReadBackIsWritten ==
  LET rs == AssignIDs(RulesetFromDoc(document, Names), 7)
      plain(r) ==
        /\ \A s \in ToSet(r.services) : NameIsNotAnId(s, Names.services)
        /\ \A p \in ToSet(r.peers) : p.kind = "group" => NameIsNotAnId(p.group, Names.groups)
      back == RulesetFromDoc(RulesetToDoc(rs, Names), Names)
  IN Findings(document) = <<>> =>
       /\ \A i \in 1..Len(rs.rules) : plain(rs.rules[i]) => back.rules[i] = rs.rules[i]
       /\ [back EXCEPT !.rules = <<>>] = [rs EXCEPT !.rules = <<>>]
       /\ Len(back.rules) = Len(rs.rules)

(* A document is refused with every fault it has, or admitted, and then    *)
(* what is read of it writes back the same.                                *)
AdmittedOrExplained == NoFaultHidesAnother /\ ReadBackIsWritten
=============================================================================
