------------------------------ MODULE Rendered ------------------------------
(***************************************************************************)
(* The algebra of rendered policies: package internal/rendered, the one    *)
(* implementation of diff and apply that the control plane and the agent   *)
(* share (ADR-0018 decision 2).                                            *)
(*                                                                         *)
(* A policy is modelled in canonical form: the code keeps its rules as a   *)
(* list sorted by id without duplicates and the peers of a rule as a       *)
(* sorted list without duplicates, which are a function from rule ids and  *)
(* a set.  Protocol and ports of a rule are always replaced together, so   *)
(* they are one opaque value, the rule's spec.                             *)
(***************************************************************************)
EXTENDS Naturals

CONSTANTS
    RuleIds,   \* resolved-rule ids: "<authored id>/<protocol>"
    Specs,     \* what a rule matches beside its peers: protocol and ports
    Peers,     \* peer prefixes
    Modes      \* enforcement modes

ASSUME VisibilityAssumption == "VISIBILITY" \in Modes

Rules == [spec : Specs, peers : SUBSET Peers]

RuleMaps == UNION {[ids -> Rules] : ids \in SUBSET RuleIds}

Contents == [mode : Modes, rules : RuleMaps]

\* Canonical policies.
Policies == [version : Nat, mode : Modes, rules : RuleMaps]

NoRules == [id \in {} |-> [spec |-> {}, peers |-> {}]]

\* The policy an agent holds before any snapshot.
Empty == [version |-> 0, mode |-> "VISIBILITY", rules |-> NoRules]

\* The versions are not compared.
Equal(p, q) == p.mode = q.mode /\ p.rules = q.rules

-----------------------------------------------------------------------------
(***************************************************************************)
(* Diff emits at most one rule change per id: an upsert, a removal, or a   *)
(* pair of add_peers and remove_peers.  Changes of different ids touch     *)
(* different rules, so a delta is a function from the ids it changes.      *)
(***************************************************************************)

Upsert(rule) == [kind |-> "upsert", rule |-> rule]

Remove == [kind |-> "remove"]

PeerChange(added, removed) == [kind |-> "peers", add |-> added, remove |-> removed]

\* Mutant: a rule whose ports changed is treated as one whose peers changed.
MutRuleChange(old, cur, id) ==
    CASE id \notin DOMAIN old -> Upsert(cur[id])
      [] id \notin DOMAIN cur -> Remove
      [] OTHER -> PeerChange(cur[id].peers \ old[id].peers, old[id].peers \ cur[id].peers)

RuleChange(old, cur, id) ==
    CASE id \notin DOMAIN old -> Upsert(cur[id])
      [] id \notin DOMAIN cur -> Remove
      [] id \in DOMAIN old /\ id \in DOMAIN cur /\ old[id].spec # cur[id].spec
           -> Upsert(cur[id])
      [] OTHER -> PeerChange(cur[id].peers \ old[id].peers, old[id].peers \ cur[id].peers)

ChangedIds(old, cur) ==
    {id \in DOMAIN old \cup DOMAIN cur :
        id \in DOMAIN old /\ id \in DOMAIN cur => old[id] # cur[id]}

\* setMode is empty or holds the mode to set.
Diff(from, to) ==
    [setMode |-> {to.mode} \ {from.mode},
     rules   |-> [id \in ChangedIds(from.rules, to.rules) |->
                     RuleChange(from.rules, to.rules, id)]]

NoChanges(changes) == changes.setMode = {} /\ DOMAIN changes.rules = {}

RuleChanges ==
    {Remove} \cup [kind : {"upsert"}, rule : Rules]
             \cup [kind : {"peers"}, add : SUBSET Peers, remove : SUBSET Peers]

Changes == [setMode : SUBSET Modes,
            rules   : UNION {[ids -> RuleChanges] : ids \in SUBSET RuleIds}]

Deltas == [from : Nat, to : Nat, changes : Changes]

Delta(from, to) ==
    [from |-> from.version, to |-> to.version, changes |-> Diff(from, to)]

-----------------------------------------------------------------------------
\* Apply's two error returns: the wrong base version (ErrBaseMismatch), and a
\* peer change to a rule the base does not carry (ErrUnknownRule).
Applies(base, delta) ==
    /\ base.version = delta.from
    /\ \A id \in DOMAIN delta.changes.rules :
          delta.changes.rules[id].kind = "peers" => id \in DOMAIN base.rules

ChangedRule(rules, change, id) ==
    IF change.kind = "upsert"
    THEN change.rule
    ELSE [spec  |-> rules[id].spec,
          peers |-> (rules[id].peers \cup change.add) \ change.remove]

\* The policy Apply returns when it returns no error.
Apply(base, delta) ==
    LET rules   == delta.changes.rules
        removed == {id \in DOMAIN rules : rules[id].kind = "remove"}
    IN  [version |-> delta.to,
         mode    |-> IF delta.changes.setMode = {} THEN base.mode
                     ELSE CHOOSE m \in delta.changes.setMode : TRUE,
         rules   |-> [id \in (DOMAIN base.rules \cup DOMAIN rules) \ removed |->
                         IF id \in DOMAIN rules
                         THEN ChangedRule(base.rules, rules[id], id)
                         ELSE base.rules[id]]]
=============================================================================
