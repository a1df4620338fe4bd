------------------------ MODULE DeltaContractProofs ------------------------
(***************************************************************************)
(* The delta contract as properties of behaviours: renders and a follower, *)
(* for any rule ids, specs, peers, modes and bound on versions.            *)
(***************************************************************************)
EXTENDS DeltaContract, RenderedProofs

\* A saved outcome carries the next version, and, once a version is
\* persisted, another content.
LEMMA SavedOutcome ==
    ASSUME NEW content \in Contents, persisted \in Policies, RenderIn(content),
           persisted' # persisted
    PROVE  /\ persisted' \in Policies
           /\ persisted'.version = persisted.version + 1
           /\ persisted.version > 0 => ~Equal(persisted', persisted)
<1> DEFINE v == persisted.version
<1>1. v \in Nat
  BY DEF Policies
<1>2. Changed(persisted, content)
  BY DEF RenderIn
<1>3. persisted' = AtVersion(content, v + 1)
  BY <1>2 DEF RenderIn, Plan
<1>4. persisted' \in Policies
  BY <1>1, <1>3, AtVersionIsPolicy
<1>5. persisted'.version = v + 1
  BY <1>3 DEF AtVersion
<1>6. ASSUME v > 0 PROVE ~Equal(persisted', persisted)
  <2>1. ~NoChanges(Diff(persisted, content))
    BY <1>1, <1>2, <1>6 DEF Changed
  <2>2. Diff(persisted, AtVersion(content, v + 1)) = Diff(persisted, content)
    BY <1>1, AtVersionIsPolicy
  <2>3. ~Equal(persisted, persisted')
    BY <1>3, <1>4, <2>1, <2>2, DiffEmptyIffEqual
  <2> QED BY <2>3 DEF Equal
<1> QED BY <1>4, <1>5, <1>6

\* A follower's step ends at the persisted policy.
LEMMA FollowStep ==
    ASSUME TypeOK, Follow
    PROVE  held' = persisted /\ persisted' = persisted
BY RoundTrip DEF TypeOK, Follow

ContractInv == TypeOK /\ VersionNamesContent

\* The types and the order of versions are kept by every render and every
\* follow.
LEMMA ContractInvInductive == Spec => []ContractInv
<1>1. Init => ContractInv
  BY EmptyIsPolicy DEF Init, ContractInv, TypeOK, VersionNamesContent, Empty
<1>2. ContractInv /\ [Next]_vars => ContractInv'
  <2> SUFFICES ASSUME ContractInv, [Next]_vars PROVE ContractInv'
    OBVIOUS
  <2> USE DEF ContractInv, TypeOK, VersionNamesContent
  <2>0. held.version \in Nat /\ persisted.version \in Nat
    BY DEF Policies
  <2>1. ASSUME NEW content \in Contents, RenderIn(content) PROVE ContractInv'
    <3>1. held' = held
      BY <2>1 DEF RenderIn
    <3>2. CASE persisted' = persisted
      BY <3>1, <3>2
    <3>3. CASE persisted' # persisted
      <4>1. persisted' \in Policies /\ persisted'.version = persisted.version + 1
        BY <2>1, <3>3, SavedOutcome
      <4> QED BY <2>0, <3>1, <4>1
    <3> QED BY <3>2, <3>3
  <2>2. CASE Follow
    <3>1. held' = persisted /\ persisted' = persisted
      BY <2>2, FollowStep
    <3> QED BY <2>0, <3>1
  <2>3. CASE UNCHANGED vars
    BY <2>3 DEF vars
  <2> QED BY <2>1, <2>2, <2>3 DEF Next
<1> QED BY <1>1, <1>2, PTL DEF Spec

\* Versions are ordered and name one content each, in every behaviour of the
\* render and the follower.
THEOREM VersionsNameContent == Spec => []VersionNamesContent
BY ContractInvInductive, PTL DEF ContractInv

\* No delta computed from the held policy is refused by rendered.Apply.
THEOREM DeltasApply == Spec => []DeltaAlwaysApplies
<1>1. ContractInv => DeltaAlwaysApplies
  BY RoundTrip DEF ContractInv, TypeOK, DeltaAlwaysApplies
<1> QED BY <1>1, ContractInvInductive, PTL

\* The delta contract as a property of behaviours: every step of the follower
\* ends exactly at the persisted policy.
THEOREM FollowingIsExact == Spec => FollowReachesPersisted
<1>1. ContractInv /\ [Next]_vars => [held' # held => held' = persisted]_vars
  BY FollowStep DEF Next, RenderIn, ContractInv, vars
<1> QED BY <1>1, ContractInvInductive, PTL DEF Spec, FollowReachesPersisted

\* The versioning rule: one version at a time, and never for equal content.
THEOREM VersionsByDiff == Spec => VersionsAdvanceByDiff
<1> DEFINE A == persisted' # persisted =>
                  /\ persisted'.version = persisted.version + 1
                  /\ persisted.version > 0 => ~Equal(persisted', persisted)
<1>1. ContractInv /\ [Next]_vars => [A]_vars
  <2> SUFFICES ASSUME ContractInv, Next PROVE A
    BY DEF vars
  <2>1. ASSUME NEW content \in Contents, RenderIn(content) PROVE A
    BY <2>1, SavedOutcome DEF ContractInv, TypeOK
  <2>2. CASE Follow
    BY <2>2, FollowStep DEF ContractInv
  <2> QED BY <2>1, <2>2 DEF Next
<1> QED BY <1>1, ContractInvInductive, PTL DEF Spec, VersionsAdvanceByDiff

\* A change left out is missed: the rule it names stays as it was.
LEMMA LeftOutIsMissed ==
    ASSUME NEW p \in Policies, NEW q \in Policies, NEW id \in DOMAIN Delta(p, q).changes.rules
    PROVE  Apply(p, Without(Delta(p, q), id)).rules # q.rules
<1> DEFINE delta == Delta(p, q)
           ids == ChangedIds(p.rules, q.rules)
           kept == [i \in ids \ {id} |-> RuleChange(p.rules, q.rules, i)]
           gone == {i \in DOMAIN kept : kept[i].kind = "remove"}
           out == [i \in (DOMAIN p.rules \cup DOMAIN kept) \ gone |->
                      IF i \in DOMAIN kept THEN ChangedRule(p.rules, kept[i], i) ELSE p.rules[i]]
<1>1. id \in ids
  BY DEF Delta, Diff
<1>2. Without(delta, id).changes.rules = kept
  BY DEF Without, Delta, Diff
<1>3. Apply(p, Without(delta, id)).rules = out
  BY <1>2 DEF Apply
<1>4. DOMAIN kept = ids \ {id} /\ gone \subseteq ids \ {id}
  OBVIOUS
<1> HIDE DEF kept, gone
<1>5. DOMAIN out = (DOMAIN p.rules \cup DOMAIN kept) \ gone
  OBVIOUS
<1>6. CASE id \in DOMAIN p.rules
  <2>1. id \in DOMAIN out /\ out[id] = p.rules[id]
    BY <1>4, <1>6
  <2>2. id \in DOMAIN q.rules => q.rules[id] # p.rules[id]
    BY <1>1, <1>6 DEF ChangedIds
  <2> HIDE DEF out
  <2> QED BY <1>3, <2>1, <2>2
<1>7. CASE id \notin DOMAIN p.rules
  <2>1. id \in DOMAIN q.rules /\ id \notin DOMAIN out
    BY <1>1, <1>4, <1>5, <1>7 DEF ChangedIds
  <2> HIDE DEF out
  <2> QED BY <1>3, <2>1
<1> QED BY <1>6, <1>7

\* Diff is minimal in every behaviour: a delta with any one change, or the
\* change of mode, left out does not reach the persisted policy.
THEOREM DeltasAreMinimal == Spec => []DeltaIsMinimal
<1>1. ContractInv => DeltaIsMinimal
  <2> SUFFICES ASSUME held \in Policies, persisted \in Policies PROVE DeltaIsMinimal
    BY DEF ContractInv, TypeOK
  <2> DEFINE delta == Delta(held, persisted)
  <2>1. \A id \in DOMAIN delta.changes.rules : ~Equal(Apply(held, Without(delta, id)), persisted)
    BY LeftOutIsMissed DEF Equal
  <2>2. ASSUME delta.changes.setMode # {}
        PROVE  ~Equal(Apply(held, [delta EXCEPT !.changes.setMode = {}]), persisted)
    <3>1. held.mode # persisted.mode
      BY <2>2 DEF Delta, Diff
    <3>2. [delta EXCEPT !.changes.setMode = {}].changes.setMode = {}
      BY DEF Delta, Diff
    <3>3. Apply(held, [delta EXCEPT !.changes.setMode = {}]).mode = held.mode
      BY <3>2 DEF Apply
    <3> QED BY <3>1, <3>3 DEF Equal
  <2> QED BY <2>1, <2>2 DEF DeltaIsMinimal
<1> QED BY <1>1, ContractInvInductive, PTL
=============================================================================
