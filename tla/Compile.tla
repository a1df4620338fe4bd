------------------------------- MODULE Compile -------------------------------
(***************************************************************************)
(* The renderer and the dry run (compiler/render.go, plan.go, dryrun.go,   *)
(* fleet.DryRun): what a rule's selectors and services resolve to, the     *)
(* policies of a fleet, and the preview of a hypothetical rule set against *)
(* a state that others keep changing.                                      *)
(*                                                                         *)
(* A rule is [id, enabled, direction, peers, services, entries]; an entry  *)
(* is a protocol with its ports, none meaning every port; a port range is  *)
(* its first and last port.  The digest of the state version stands for    *)
(* what it is computed from.                                               *)
(***************************************************************************)
EXTENDS Rendered, Sequences, FiniteSets

CONSTANTS
  Machines,         \* workloads
  Protocols,
  LabelMaps,        \* label sets a workload may be given
  AddressSets,      \* address sets a workload may report
  ServiceBodies,    \* entry lists the one shared service may be given
  GroupBodies,      \* prefix sets the one address group may be given
  Drafts,           \* rule sets that may be authored or previewed
  MaxEdits          \* bound: writes of a run

VARIABLES
  inputs,           \* [workloads, rulesets, service, group]: compiler.Inputs
  persisted,        \* the policies of the last render, by workload
  preview,          \* the last dry run and the state version it reported
  edits             \* writes so far

compileVars == <<inputs, persisted, preview, edits>>

NoPreview == [version |-> [none |-> TRUE], rulesets |-> <<>>, before |-> <<>>, diffs |-> <<>>, after |-> <<>>]

------------------------------------------------------------------------------
(* Rendering.                                                              *)

Matches(selector, labels) ==
  /\ DOMAIN selector # {}
  /\ \A k \in DOMAIN selector : k \in DOMAIN labels /\ labels[k] \in selector[k]

Active(in) == {w \in Machines : ~in.workloads[w].retired}

PeerCIDRs(in, peer) ==
  CASE peer.kind = "workloads" ->
         UNION {in.workloads[w].addresses : w \in {v \in Active(in) : Matches(peer.selector, in.workloads[v].labels)}}
    [] peer.kind = "group" -> in.group.cidrs
    [] peer.kind = "cidr"  -> {peer.cidr}

resolvePeers(in, peers) == UNION {PeerCIDRs(in, peers[i]) : i \in DOMAIN peers}

Nothing == [p \in Protocols |-> [on |-> FALSE, all |-> FALSE, ports |-> {}]]

(* One entry merged into what the entries before it made.                  *)
add(acc, e) ==
  [acc EXCEPT ![e.protocol] = IF e.ports = {} THEN [on |-> TRUE, all |-> TRUE, ports |-> {}]
                              ELSE IF @.all THEN @
                              ELSE [@ EXCEPT !.on = TRUE, !.ports = @ \cup e.ports]]

(* The referenced service's entries first, then the rule's own.            *)
Entries(in, rule) == (IF rule.service THEN in.service.entries ELSE <<>>) \o rule.entries

expandServices(in, rule) ==
  LET es == Entries(in, rule)
      merged[n \in 0..Len(es)] == IF n = 0 THEN Nothing ELSE add(merged[n - 1], es[n])
  IN  merged[Len(es)]

(* One resolved rule per protocol, with the peers in each.                 *)
renderRule(in, rule) ==
  LET merged == expandServices(in, rule) IN
  {[id   |-> <<rule.id, p>>,
    rule |-> [spec |-> [protocol |-> p, ports |-> merged[p].ports], peers |-> resolvePeers(in, rule.peers)]] :
     p \in {q \in Protocols : merged[q].on}}

Applicable(in, w) ==
  UNION {{rs.rules[j] : j \in {i \in DOMAIN rs.rules : rs.rules[i].enabled /\ rs.rules[i].direction = "inbound"}} :
           rs \in {in.rulesets[i] : i \in {j \in DOMAIN in.rulesets :
                     in.rulesets[j].enabled /\ Matches(in.rulesets[j].scope, in.workloads[w].labels)}}}

renderWorkload(in, w) ==
  LET resolved == UNION {renderRule(in, r) : r \in Applicable(in, w)} IN
  [version |-> 0,
   mode    |-> in.workloads[w].mode,
   rules   |-> [id \in {r.id : r \in resolved} |-> (CHOOSE r \in resolved : r.id = id).rule]]

Render(in) == [w \in Active(in) |-> renderWorkload(in, w)]

Before(previous, w) == IF w \in DOMAIN previous THEN previous[w] ELSE Empty

(* Plan: the version moves with the content; what is not rendered stays.   *)
Plan(previous, current) ==
  [w \in DOMAIN previous \cup DOMAIN current |->
     IF w \notin DOMAIN current THEN previous[w]
     ELSE [current[w] EXCEPT !.version = Before(previous, w).version +
             IF w \in DOMAIN previous /\ NoChanges(Diff(previous[w], current[w])) THEN 0 ELSE 1]]

------------------------------------------------------------------------------
(* The dry run.                                                            *)

OfKind(changes, kinds) == {id \in DOMAIN changes.rules : changes.rules[id].kind \in kinds}

(* The delta's changes, told apart: an upsert of a rule the workload has   *)
(* changes it, and so does a change of its peers.                          *)
Classified(prev, cur) ==
  LET changes == Diff(prev, cur) IN
  [mode    |-> changes.setMode,
   added   |-> {<<id, cur.rules[id]>> : id \in OfKind(changes, {"upsert"}) \ DOMAIN prev.rules},
   removed |-> OfKind(changes, {"remove"}),
   changed |-> {<<id, cur.rules[id]>> : id \in (OfKind(changes, {"upsert"}) \cap DOMAIN prev.rules)
                                                 \cup OfKind(changes, {"peers"})}]

(* Only the workloads that would differ are reported.                      *)
DryRun(previous, current) ==
  [w \in {v \in DOMAIN current : ~NoChanges(Diff(Before(previous, v), current[v]))} |->
     Classified(Before(previous, w), current[w])]

(* Mutant: addresses are not part of the version.                          *)
MutStateVersion(in) ==
  [workloads |-> [w \in Machines |-> IF in.workloads[w].retired THEN [retired |-> TRUE]
                    ELSE [labels |-> in.workloads[w].labels, mode |-> in.workloads[w].mode]],
   rulesets  |-> {<<in.rulesets[i].id, in.rulesets[i].version>> : i \in DOMAIN in.rulesets},
   service   |-> in.service.version, group |-> in.group.version]

(* What the digest covers: of a retired workload, that it is.              *)
StateVersion(in) ==
  [workloads |-> [w \in Machines |-> IF in.workloads[w].retired THEN [retired |-> TRUE]
                    ELSE [labels |-> in.workloads[w].labels, mode |-> in.workloads[w].mode,
                          addresses |-> in.workloads[w].addresses]],
   rulesets  |-> {<<in.rulesets[i].id, in.rulesets[i].version>> : i \in DOMAIN in.rulesets},
   service   |-> in.service.version, group |-> in.group.version]

Hypothetical(in, rulesets) == [in EXCEPT !.rulesets = rulesets]

------------------------------------------------------------------------------

CompileInit ==
  /\ inputs = [workloads |-> [w \in Machines |-> [labels |-> CHOOSE l \in LabelMaps : TRUE, addresses |-> {},
                                                  mode |-> "VISIBILITY", retired |-> FALSE]],
               rulesets |-> <<>>,
               service |-> [version |-> 1, entries |-> <<>>], group |-> [version |-> 1, cidrs |-> {}]]
  /\ persisted = <<>> /\ preview = NoPreview /\ edits = 0

Writes(in) ==
  /\ edits < MaxEdits /\ edits' = edits + 1 /\ in # inputs /\ inputs' = in
  /\ UNCHANGED <<persisted, preview>>

SetLabels(w) ==
  \E l \in LabelMaps : w \in Active(inputs) /\ Writes([inputs EXCEPT !.workloads[w].labels = l])
RecordFacts(w) ==
  \E a \in AddressSets : w \in Active(inputs) /\ Writes([inputs EXCEPT !.workloads[w].addresses = a])
SetMode(w) ==
  \E m \in Modes : w \in Active(inputs) /\ Writes([inputs EXCEPT !.workloads[w].mode = m])
Retire(w) == w \in Active(inputs) /\ Writes([inputs EXCEPT !.workloads[w].retired = TRUE])

UpdateService ==
  \E b \in ServiceBodies : Writes([inputs EXCEPT !.service = [version |-> @.version + 1, entries |-> b]])
UpdateAddressGroup ==
  \E b \in GroupBodies : Writes([inputs EXCEPT !.group = [version |-> @.version + 1, cidrs |-> b]])

(* A saved set: every ruleset of it takes its next version.                *)
SaveRulesets ==
  \E d \in Drafts :
    Writes([inputs EXCEPT !.rulesets =
              [i \in DOMAIN d |-> [d[i] EXCEPT !.version = edits + 1]]])

(* The engine's render of everything.                                      *)
RenderAll ==
  /\ persisted' = Plan(persisted, Render(inputs)) /\ persisted' # persisted
  /\ UNCHANGED <<inputs, preview, edits>>

(* A dry run of a draft: nothing of it is kept but the answer.             *)
RenderDryRun ==
  \E d \in Drafts :
    LET after == Render(Hypothetical(inputs, d)) IN
    /\ preview' = [version |-> StateVersion(inputs), rulesets |-> d, before |-> persisted,
                   diffs |-> DryRun(persisted, after), after |-> after]
    /\ UNCHANGED <<inputs, persisted, edits>>

CompileNext ==
  \/ UpdateService \/ UpdateAddressGroup \/ SaveRulesets \/ RenderAll \/ RenderDryRun
  \/ \E w \in Machines : SetLabels(w) \/ RecordFacts(w) \/ SetMode(w) \/ Retire(w)

------------------------------------------------------------------------------

(* While the state version a dry run reported still stands, its preview    *)
(* does: rendering the same set now gives what was previewed.  The version *)
(* covers everything in the inputs that can change a render.               *)
PreviewHolds ==
  preview # NoPreview /\ preview.version = StateVersion(inputs)
    => Render(Hypothetical(inputs, preview.rulesets)) = preview.after

Patched(p, diff) ==
  LET put == diff.added \cup diff.changed
      ids == (DOMAIN p.rules \ diff.removed) \cup {x[1] : x \in put}
  IN  [mode  |-> IF diff.mode = {} THEN p.mode ELSE CHOOSE m \in diff.mode : TRUE,
       rules |-> [id \in ids |-> IF \E x \in put : x[1] = id THEN (CHOOSE x \in put : x[1] = id)[2]
                                 ELSE p.rules[id]]]

(* A dry run leaves nothing out: making the reported changes to the        *)
(* policies persisted when it ran gives the hypothetical policies, and a   *)
(* workload it does not report keeps its own.                              *)
DryRunIsComplete ==
  \A w \in DOMAIN preview.after :
    LET old == Before(preview.before, w)
        new == IF w \in DOMAIN preview.diffs THEN Patched(old, preview.diffs[w]) ELSE old
    IN  Equal(new, preview.after[w])

(* A dry run foretells the render: it reports every change, and stands     *)
(* while the state version it reported does.                               *)
DryRunForetells == PreviewHolds /\ DryRunIsComplete
==============================================================================
