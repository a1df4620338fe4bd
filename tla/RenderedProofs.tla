--------------------------- MODULE RenderedProofs ---------------------------
(***************************************************************************)
(* The delta contract, for any rule ids, specs, peers and modes: the diff  *)
(* of two policies applies to the first and yields the second, and it is   *)
(* empty exactly when the two have the same content.                       *)
(***************************************************************************)
EXTENDS Versioning, TLAPS

\* The rules of a policy are a function from some of the rule ids.
LEMMA RuleMapFacts ==
    ASSUME NEW m \in RuleMaps
    PROVE  /\ DOMAIN m \subseteq RuleIds
           /\ m = [id \in DOMAIN m |-> m[id]]
           /\ \A id \in DOMAIN m : m[id] \in Rules
BY DEF RuleMaps

\* A rule is determined by its spec and its peers.
LEMMA RuleFacts ==
    ASSUME NEW r \in Rules
    PROVE  /\ r = [spec |-> r.spec, peers |-> r.peers]
           /\ r.spec \in Specs
           /\ r.peers \in SUBSET Peers
BY DEF Rules

\* Changing one rule as RuleChange says turns the old rule into the new one.
LEMMA ChangedRuleIsNew ==
    ASSUME NEW old \in RuleMaps, NEW cur \in RuleMaps, NEW id \in DOMAIN cur
    PROVE  ChangedRule(old, RuleChange(old, cur, id), id) = cur[id]
<1> DEFINE ch == RuleChange(old, cur, id)
<1>1. CASE id \notin DOMAIN old
  <2>1. ch = Upsert(cur[id])
    BY <1>1 DEF RuleChange
  <2> QED BY <2>1 DEF ChangedRule, Upsert
<1>2. CASE id \in DOMAIN old /\ old[id].spec # cur[id].spec
  <2>1. ch = Upsert(cur[id])
    BY <1>2 DEF RuleChange
  <2> QED BY <2>1 DEF ChangedRule, Upsert
<1>3. CASE id \in DOMAIN old /\ old[id].spec = cur[id].spec
  <2>1. ch = PeerChange(cur[id].peers \ old[id].peers, old[id].peers \ cur[id].peers)
    BY <1>3 DEF RuleChange
  <2>2. old[id] \in Rules /\ cur[id] \in Rules
    BY <1>3, RuleMapFacts
  <2>3. (old[id].peers \cup (cur[id].peers \ old[id].peers)) \ (old[id].peers \ cur[id].peers)
          = cur[id].peers
    OBVIOUS
  <2>4. cur[id] = [spec |-> cur[id].spec, peers |-> cur[id].peers]
    BY <2>2, RuleFacts
  <2> HIDE DEF ch
  <2>5. ChangedRule(old, ch, id) =
          [spec |-> old[id].spec, peers |-> (old[id].peers \cup ch.add) \ ch.remove]
    BY <2>1 DEF ChangedRule, PeerChange
  <2>6. ch.add = cur[id].peers \ old[id].peers /\ ch.remove = old[id].peers \ cur[id].peers
    BY <2>1 DEF PeerChange
  <2> QED BY <2>3, <2>4, <2>5, <2>6, <1>3 DEF ch
<1> QED BY <1>1, <1>2, <1>3

\* The kind of a rule change says whether the rule is removed, and a peer
\* change only names a rule both policies carry.
LEMMA RuleChangeKinds ==
    ASSUME NEW old \in RuleMaps, NEW cur \in RuleMaps,
           NEW id \in DOMAIN old \cup DOMAIN cur
    PROVE  /\ (RuleChange(old, cur, id).kind = "remove") <=> (id \notin DOMAIN cur)
           /\ RuleChange(old, cur, id).kind = "peers" => id \in DOMAIN old
<1>1. CASE id \notin DOMAIN old
  BY <1>1 DEF RuleChange, Upsert
<1>2. CASE id \in DOMAIN old /\ id \notin DOMAIN cur
  BY <1>2 DEF RuleChange, Remove
<1>3. CASE id \in DOMAIN old /\ id \in DOMAIN cur
  BY <1>3 DEF RuleChange, Upsert, PeerChange
<1> QED BY <1>1, <1>2, <1>3

\* The rules Apply leaves are the rules of the target.
LEMMA AppliedRules ==
    ASSUME NEW p \in Policies, NEW q \in Policies
    PROVE  Apply(p, Delta(p, q)).rules = q.rules
<1> DEFINE old == p.rules
           cur == q.rules
           ids == ChangedIds(old, cur)
           ch  == [id \in ids |-> RuleChange(old, cur, id)]
           gone == {id \in DOMAIN ch : ch[id].kind = "remove"}
           out == [id \in (DOMAIN old \cup DOMAIN ch) \ gone |->
                      IF id \in DOMAIN ch THEN ChangedRule(old, ch[id], id) ELSE old[id]]
<1>1. old \in RuleMaps /\ cur \in RuleMaps
  BY DEF Policies
<1>2. Apply(p, Delta(p, q)).rules = out
  BY DEF Apply, Delta, Diff
<1>3. DOMAIN ch = ids
  OBVIOUS
<1>4. gone = DOMAIN old \ DOMAIN cur
  <2>1. \A id \in ids : ch[id].kind = "remove" <=> id \notin DOMAIN cur
    BY <1>1, RuleChangeKinds DEF ChangedIds
  <2>2. \A id : id \in DOMAIN old \ DOMAIN cur => id \in ids
    BY DEF ChangedIds
  <2>3. ids \subseteq DOMAIN old \cup DOMAIN cur
    BY DEF ChangedIds
  <2> HIDE DEF ch, ids
  <2> QED BY <1>3, <2>1, <2>2, <2>3
<1>5. (DOMAIN old \cup DOMAIN ch) \ gone = DOMAIN cur
  <2>1. ids \subseteq DOMAIN old \cup DOMAIN cur /\ DOMAIN cur \ DOMAIN old \subseteq ids
    BY DEF ChangedIds
  <2> HIDE DEF ch, ids, gone
  <2> QED BY <1>3, <1>4, <2>1
<1>6. \A id \in DOMAIN cur :
         (IF id \in DOMAIN ch THEN ChangedRule(old, ch[id], id) ELSE old[id]) = cur[id]
  <2> TAKE id \in DOMAIN cur
  <2>1. CASE id \in ids
    <3>1. ch[id] = RuleChange(old, cur, id)
      BY <2>1
    <3> HIDE DEF ch, ids
    <3> QED BY <1>1, <1>3, <2>1, <3>1, ChangedRuleIsNew
  <2>2. CASE id \notin ids
    BY <1>3, <2>2 DEF ChangedIds
  <2> QED BY <2>1, <2>2
<1>7. out = [id \in DOMAIN cur |-> cur[id]]
  <2> HIDE DEF ch, gone
  <2> QED BY <1>5, <1>6
<1>8. cur = [id \in DOMAIN cur |-> cur[id]]
  BY <1>1, RuleMapFacts
<1> HIDE DEF out
<1> QED BY <1>2, <1>7, <1>8

\* The delta contract: rendered.Delta(p, q) applies to p without an error and
\* rendered.Apply returns exactly q, for every pair of policies, consecutive
\* versions or not.
THEOREM RoundTrip ==
    ASSUME NEW p \in Policies, NEW q \in Policies
    PROVE  Applies(p, Delta(p, q)) /\ Apply(p, Delta(p, q)) = q
<1>1. Applies(p, Delta(p, q))
  <2>1. p.rules \in RuleMaps /\ q.rules \in RuleMaps
    BY DEF Policies
  <2>2. \A id \in ChangedIds(p.rules, q.rules) :
           RuleChange(p.rules, q.rules, id).kind = "peers" => id \in DOMAIN p.rules
    BY <2>1, RuleChangeKinds DEF ChangedIds
  <2> QED BY <2>2 DEF Applies, Delta, Diff
<1>2. Apply(p, Delta(p, q)).mode = q.mode
  <2>1. Delta(p, q).changes.setMode = {q.mode} \ {p.mode}
    BY DEF Delta, Diff
  <2>2. Apply(p, Delta(p, q)).mode =
          IF {q.mode} \ {p.mode} = {} THEN p.mode ELSE CHOOSE m \in {q.mode} \ {p.mode} : TRUE
    BY <2>1 DEF Apply
  <2>3. CASE p.mode = q.mode
    BY <2>2, <2>3
  <2>4. CASE p.mode # q.mode
    <3>1. {q.mode} \ {p.mode} = {q.mode}
      BY <2>4
    <3>2. (CHOOSE m \in {q.mode} : TRUE) = q.mode
      OBVIOUS
    <3> QED BY <2>2, <3>1, <3>2
  <2> QED BY <2>3, <2>4
<1>3. Apply(p, Delta(p, q)).version = q.version
  BY DEF Apply, Delta
<1>4. Apply(p, Delta(p, q)).rules = q.rules
  BY AppliedRules
<1>5. Apply(p, Delta(p, q)) =
        [version |-> Apply(p, Delta(p, q)).version, mode |-> Apply(p, Delta(p, q)).mode,
         rules |-> Apply(p, Delta(p, q)).rules]
  BY DEF Apply
<1>6. q = [version |-> q.version, mode |-> q.mode, rules |-> q.rules]
  BY DEF Policies
<1> QED BY <1>1, <1>2, <1>3, <1>4, <1>5, <1>6

\* "It is empty exactly when Equal(from, to)": Diff finds no change exactly
\* between policies of the same mode and the same rules.
THEOREM DiffEmptyIffEqual ==
    ASSUME NEW p \in Policies, NEW q \in Policies
    PROVE  NoChanges(Diff(p, q)) <=> Equal(p, q)
<1>1. p.rules \in RuleMaps /\ q.rules \in RuleMaps
  BY DEF Policies
<1>2. Diff(p, q).setMode = {} <=> p.mode = q.mode
  BY DEF Diff
<1>3. DOMAIN Diff(p, q).rules = ChangedIds(p.rules, q.rules)
  BY DEF Diff
<1>4. ChangedIds(p.rules, q.rules) = {} <=> p.rules = q.rules
  <2>1. ASSUME ChangedIds(p.rules, q.rules) = {} PROVE p.rules = q.rules
    <3>1. DOMAIN p.rules = DOMAIN q.rules /\ \A id \in DOMAIN p.rules : p.rules[id] = q.rules[id]
      BY <2>1 DEF ChangedIds
    <3> QED BY <1>1, <3>1, RuleMapFacts
  <2>2. ASSUME p.rules = q.rules PROVE ChangedIds(p.rules, q.rules) = {}
    BY <2>2 DEF ChangedIds
  <2> QED BY <2>1, <2>2
<1> QED BY <1>2, <1>3, <1>4 DEF NoChanges, Equal

-----------------------------------------------------------------------------
\* rendered.Empty is a policy.
LEMMA EmptyIsPolicy == Empty \in Policies
<1>1. NoRules \in RuleMaps
  <2>1. NoRules \in [{} -> Rules]
    BY DEF NoRules
  <2> QED BY <2>1 DEF RuleMaps
<1> QED BY <1>1, VisibilityAssumption DEF Empty, Policies

\* Giving a rendered content a version, as Plan does, makes a policy.
LEMMA AtVersionIsPolicy ==
    ASSUME NEW content \in Contents, NEW v \in Nat
    PROVE  /\ AtVersion(content, v) \in Policies
           /\ \A p : Equal(p, AtVersion(content, v)) <=> Equal(p, content)
           /\ \A p : Diff(p, AtVersion(content, v)) = Diff(p, content)
BY DEF AtVersion, Contents, Policies, Equal, Diff
=============================================================================
