------------------------- MODULE EnforceStoreProofs -------------------------
(***************************************************************************)
(* The policy store for any rules, peers, modes and faults: what survives  *)
(* a power loss is never older than the last acknowledgement, and, unless  *)
(* the start could not restore what it loaded, the kernel holds what the   *)
(* store believes it does.                                                 *)
(***************************************************************************)
EXTENDS EnforceStore, RenderedProofs

\* A full rendering is a table.
LEMMA TableTypes ==
    /\ NoRules \in RuleMaps
    /\ \A p \in Policies : Table(p) \in Tables
<1>1. NoRules \in RuleMaps
  <2>1. NoRules \in [{} -> Rules]
    BY DEF NoRules
  <2>2. {} \in SUBSET RuleIds
    OBVIOUS
  <2> QED BY <2>1, <2>2 DEF RuleMaps
<1>2. \A p \in Policies : Table(p) \in [mode : Modes, rules : RuleMaps]
  BY <1>1 DEF Table, Policies
<1> QED BY <1>1, <1>2 DEF Tables

\* A set update of the table of one policy, to a policy that differs from it in
\* peers alone, leaves the table of the other.
LEMMA SetUpdateIsExact ==
    ASSUME NEW p \in Policies, NEW q \in Policies, RenderDelta(p, q)
    PROVE  Updated(Table(p), Diff(p, q).rules) = Table(q)
<1> DEFINE old == p.rules
           cur == q.rules
           ids == ChangedIds(old, cur)
           ch  == [id \in ids |-> RuleChange(old, cur, id)]
<1>1. old \in RuleMaps /\ cur \in RuleMaps /\ p.mode \in Modes /\ q.mode \in Modes
  BY DEF Policies
<1>2. Diff(p, q).rules = ch /\ Diff(p, q).setMode = {q.mode} \ {p.mode} /\ DOMAIN ch = ids
  BY DEF Diff
<1>3. q.mode = p.mode /\ CarriesSets(p.mode)
  <2>1. {q.mode} \ {p.mode} = {}
    BY <1>2 DEF RenderDelta
  <2> QED BY <2>1 DEF RenderDelta
<1>4. Table(p) = [mode |-> p.mode, rules |-> old] /\ Table(q) = [mode |-> p.mode, rules |-> cur]
  BY <1>3 DEF Table
<1>5. \A id \in ids : ch[id] = RuleChange(old, cur, id) /\ ch[id].kind = "peers"
  BY <1>2 DEF RenderDelta
<1>6. \A id \in ids : id \in DOMAIN old /\ id \in DOMAIN cur
  <2> TAKE id \in ids
  <2>1. id \in DOMAIN old \cup DOMAIN cur
    BY DEF ChangedIds
  <2> HIDE DEF ch, ids
  <2>2. ch[id] = RuleChange(old, cur, id) /\ ch[id].kind = "peers"
    BY <1>5
  <2> QED BY <1>1, <2>1, <2>2, RuleChangeKinds
<1>7. DOMAIN old = DOMAIN cur
  <2>1. \A id \in (DOMAIN old \cup DOMAIN cur) \ (DOMAIN old \cap DOMAIN cur) : id \in ids
    BY DEF ChangedIds
  <2> QED BY <1>6, <2>1
<1>8. \A id \in DOMAIN old :
         (IF id \in DOMAIN ch THEN ChangedRule(old, ch[id], id) ELSE old[id]) = cur[id]
  <2> TAKE id \in DOMAIN old
  <2>1. CASE id \in ids
    <3> HIDE DEF ch, ids
    <3> QED BY <1>1, <1>2, <1>5, <1>7, <2>1, ChangedRuleIsNew
  <2>2. CASE id \notin ids
    <3>1. old[id] = cur[id]
      BY <1>7, <2>2 DEF ChangedIds
    <3> QED BY <1>2, <2>2, <3>1
  <2> QED BY <2>1, <2>2
<1>9. cur = [id \in DOMAIN old |->
               IF id \in DOMAIN ch THEN ChangedRule(old, ch[id], id) ELSE old[id]]
  <2>1. cur = [id \in DOMAIN cur |-> cur[id]]
    BY <1>1, RuleMapFacts
  <2> HIDE DEF ch, ids
  <2> QED BY <1>7, <1>8, <2>1
<1> HIDE DEF ch, ids
<1> QED BY <1>2, <1>4, <1>9 DEF Updated

-----------------------------------------------------------------------------
\* A set update keeps the type of the table.
LEMMA UpdatedType ==
    ASSUME NEW p \in Policies, NEW q \in Policies, RenderDelta(p, q),
           NEW t \in Tables, Accepts(t, Diff(p, q).rules)
    PROVE  Updated(t, Diff(p, q).rules) \in Tables
<1> DEFINE old == p.rules
           cur == q.rules
           ch  == Diff(p, q).rules
           new == [id \in DOMAIN t.rules |->
                     IF id \in DOMAIN ch THEN ChangedRule(t.rules, ch[id], id) ELSE t.rules[id]]
<1>1. t \in [mode : Modes, rules : RuleMaps]
  BY DEF Accepts, Tables
<1>2. t.rules \in RuleMaps /\ old \in RuleMaps /\ cur \in RuleMaps
  BY <1>1 DEF Policies
<1>3. \A id \in DOMAIN ch : /\ id \in DOMAIN old \cup DOMAIN cur
                            /\ ch[id] = RuleChange(old, cur, id) /\ ch[id].kind = "peers"
  BY DEF RenderDelta, Diff, ChangedIds
<1>4. \A id \in DOMAIN ch : ch[id].kind = "peers" /\ ch[id].add \subseteq Peers
  <2> TAKE id \in DOMAIN ch
  <2> HIDE DEF ch
  <2>1. id \in DOMAIN old \cup DOMAIN cur /\ ch[id] = RuleChange(old, cur, id) /\ ch[id].kind = "peers"
    BY <1>3
  <2>2. id \in DOMAIN old /\ id \in DOMAIN cur
    BY <1>2, <2>1, RuleChangeKinds
  <2>3. ch[id] = PeerChange(cur[id].peers \ old[id].peers, old[id].peers \ cur[id].peers)
    BY <2>1, <2>2 DEF RuleChange, Upsert
  <2>4. cur[id].peers \in SUBSET Peers
    BY <1>2, <2>2, RuleMapFacts, RuleFacts
  <2> QED BY <2>1, <2>3, <2>4 DEF PeerChange
<1> HIDE DEF ch
<1>5. \A id \in DOMAIN t.rules : new[id] \in Rules
  <2> TAKE id \in DOMAIN t.rules
  <2>1. t.rules[id] \in Rules /\ t.rules[id].spec \in Specs /\ t.rules[id].peers \in SUBSET Peers
    BY <1>2, RuleMapFacts, RuleFacts
  <2>2. CASE id \in DOMAIN ch
    <3>1. ChangedRule(t.rules, ch[id], id) =
            [spec |-> t.rules[id].spec, peers |-> (t.rules[id].peers \cup ch[id].add) \ ch[id].remove]
      BY <1>4, <2>2 DEF ChangedRule
    <3>2. (t.rules[id].peers \cup ch[id].add) \ ch[id].remove \in SUBSET Peers
      BY <1>4, <2>1, <2>2
    <3> QED BY <2>1, <2>2, <3>1, <3>2 DEF Rules
  <2>3. CASE id \notin DOMAIN ch
    BY <2>1, <2>3
  <2> QED BY <2>2, <2>3
<1>6. new \in RuleMaps
  <2>1. DOMAIN t.rules \in SUBSET RuleIds
    BY <1>2, RuleMapFacts
  <2>2. new \in [DOMAIN t.rules -> Rules]
    BY <1>5
  <2> HIDE DEF new
  <2> QED BY <2>1, <2>2 DEF RuleMaps
<1>7. Updated(t, ch) = [t EXCEPT !.rules = new]
  BY DEF Updated
<1> HIDE DEF new
<1> QED BY <1>1, <1>6, <1>7 DEF ch, Tables

\* A policy file that was never written, and a store that loaded nothing, are of
\* the right type.
LEMMA TypeInit == Init => TypeOK
BY EmptyIsPolicy, FaultAssumption DEF Init, TypeOK, Tables

\* Every step of the store and of its host keeps the types.
LEMMA TypeStep == TypeOK /\ [Next]_vars => TypeOK'
<1> SUFFICES ASSUME TypeOK, [Next]_vars PROVE TypeOK'
  OBVIOUS
<1>0. Empty \in Policies
  BY EmptyIsPolicy
<1>1. CASE Load \/ LoadFails \/ RestoreFails
  BY <1>1 DEF Load, LoadFails, RestoreFails, TypeOK, diskVars, historyVars, ackVars
<1>2. CASE Restore
  BY <1>2, TableTypes DEF Restore, TypeOK, diskVars, historyVars, ackVars
<1>3. ASSUME NEW policy \in Inputs, BeginApply(policy) PROVE TypeOK'
  <2>1. policy \in Policies
    BY <1>3, FaultAssumption DEF Inputs, Policies
  <2> QED BY <1>3, <2>1, FaultAssumption DEF BeginApply, TypeOK, diskVars
<1>4. CASE Persist
  BY <1>4 DEF Persist, SaveFails, Rename, SyncDir, SyncDirFails, TypeOK, diskVars, historyVars, ackVars
<1>5. CASE UpdateSets
  <2>1. kernel' \in Tables
    BY <1>5, UpdatedType DEF UpdateSets, TypeOK
  <2> QED BY <1>5, <2>1 DEF UpdateSets, TypeOK, diskVars, historyVars, ackVars
<1>6. CASE ReplaceTable
  BY <1>6, TableTypes DEF ReplaceTable, TypeOK, diskVars, historyVars, ackVars
<1>7. CASE ReplaceFails \/ Return
  BY <1>7 DEF ReplaceFails, Return, TypeOK, diskVars, historyVars, ackVars
<1>8. CASE Stop \/ PowerLoss \/ Teardown
  BY <1>0, <1>8 DEF Stop, PowerLoss, Teardown, TypeOK, Tables, diskVars, historyVars, ackVars
<1>9. CASE UNCHANGED vars
  BY <1>9 DEF vars, TypeOK, diskVars, historyVars, ackVars
<1> QED BY <1>1, <1>2, <1>3, <1>4, <1>5, <1>6, <1>7, <1>8, <1>9 DEF Next, Install

-----------------------------------------------------------------------------
\* From its rename on, the policy being applied is what the file holds, and it
\* was given to Apply after the last acknowledgement; once the directory is
\* synced nothing else can survive.
DiskInv ==
    /\ RestoresAcked
    /\ pc \in {"renamed", "saved", "full", "committed"} => file = next /\ next \in since
    /\ pc \in {"saved", "full", "committed"} => durable = {next}

\* Every step keeps the disk at the last acknowledgement or after it.
LEMMA DiskStep == DiskInv /\ [Next]_vars => DiskInv'
<1> SUFFICES ASSUME DiskInv, [Next]_vars PROVE DiskInv'
  OBVIOUS
<1> USE DEF DiskInv, RestoresAcked
<1>1. CASE Load \/ LoadFails \/ Restore \/ RestoreFails
  BY <1>1 DEF Load, LoadFails, Restore, RestoreFails, diskVars, historyVars, ackVars
<1>2. ASSUME NEW policy \in Inputs, BeginApply(policy) PROVE DiskInv'
  BY <1>2 DEF BeginApply, diskVars
<1>3. CASE SaveFails \/ SyncDir \/ SyncDirFails
  BY <1>3 DEF SaveFails, SyncDir, SyncDirFails, diskVars, historyVars, ackVars
<1>4. CASE Rename
  BY <1>4 DEF Rename
<1>5. CASE UpdateSets \/ ReplaceTable \/ ReplaceFails
  BY <1>5 DEF UpdateSets, ReplaceTable, ReplaceFails, diskVars, historyVars, ackVars
<1>6. CASE Return
  BY <1>6 DEF Return, diskVars
<1>7. CASE Stop \/ Teardown
  BY <1>7 DEF Stop, Teardown, diskVars, historyVars, ackVars
<1>8. CASE PowerLoss
  BY <1>8 DEF PowerLoss, historyVars, ackVars
<1>9. CASE UNCHANGED vars
  BY <1>9 DEF vars, diskVars, historyVars, ackVars
<1> QED BY <1>1, <1>2, <1>3, <1>4, <1>5, <1>6, <1>7, <1>8, <1>9 DEF Next, Persist, Install

\* "a reboot restores the last persisted policy, never one older than the agent
\* last acknowledged", whatever fails: WriteDurable before the kernel, and the
\* acknowledgement after both.
THEOREM NeverOlderThanAcked == Spec => []RestoresAcked
<1>1. Init => DiskInv
  BY DEF Init, DiskInv, RestoresAcked
<1>2. DiskInv => RestoresAcked
  BY DEF DiskInv
<1> QED BY <1>1, <1>2, DiskStep, PTL DEF Spec

-----------------------------------------------------------------------------
\* A daemon that is down has nothing loaded, so one that fails to load its file
\* does not take an earlier policy for the installed one.
KernelInv == KernelHoldsCurrent /\ (pc = "down" => current = Empty)

\* Every step keeps the kernel at the store's current policy, unless a start went
\* on with a policy it could not restore.
LEMMA KernelStep == TypeOK /\ KernelInv /\ [Next]_vars => KernelInv'
<1> SUFFICES ASSUME TypeOK, KernelInv, [Next]_vars PROVE KernelInv'
  OBVIOUS
<1> USE DEF KernelInv, KernelHoldsCurrent, AppliedIsInstalled
<1>1. CASE Load \/ LoadFails \/ Restore \/ RestoreFails
  BY <1>1 DEF Load, LoadFails, Restore, RestoreFails, historyVars, ackVars
<1>2. ASSUME NEW policy \in Inputs, BeginApply(policy) PROVE KernelInv'
  BY <1>2 DEF BeginApply
<1>3. CASE Persist
  BY <1>3 DEF Persist, SaveFails, Rename, SyncDir, SyncDirFails, historyVars, ackVars
<1>4. CASE UpdateSets
  <2> DEFINE changes == Diff(current, next).rules
  <2>1. CASE Accepts(kernel, changes) /\ kernel' = Updated(kernel, changes) /\ pc' = "committed"
    <3>1. current \in Policies /\ next \in Policies /\ RenderDelta(current, next) /\ next' = next
      BY <1>4 DEF UpdateSets, TypeOK
    <3>2. current # Empty
      BY <3>1 DEF RenderDelta, CarriesSets, Empty
    <3>3. ~unrestored => kernel = Table(current)
      BY <1>4, <2>1, <3>2 DEF UpdateSets, Accepts
    <3>4. ~unrestored => kernel' = Table(next)
      BY <2>1, <3>1, <3>3, SetUpdateIsExact
    <3>5. unrestored' = unrestored
      BY <1>4 DEF UpdateSets, historyVars, ackVars
    <3> QED BY <2>1, <3>1, <3>4, <3>5
  <2>2. CASE pc' = "full" /\ UNCHANGED kernel
    BY <1>4, <2>2 DEF UpdateSets, historyVars, ackVars
  <2> QED BY <1>4, <2>1, <2>2 DEF UpdateSets
<1>5. CASE ReplaceTable \/ ReplaceFails
  BY <1>5 DEF ReplaceTable, ReplaceFails, historyVars, ackVars
<1>6. CASE Return
  BY <1>6 DEF Return
<1>7. CASE Stop \/ PowerLoss \/ Teardown
  BY <1>7 DEF Stop, PowerLoss, Teardown, historyVars, ackVars
<1>8. CASE UNCHANGED vars
  BY <1>8 DEF vars, historyVars, ackVars
<1> QED BY <1>1, <1>2, <1>3, <1>4, <1>5, <1>6, <1>7, <1>8 DEF Next, Install

\* "current is the policy the kernel holds" and "the two agree after every
\* successful apply", from a start that restored or the next full rendering on:
\* set updates are computed from the table there is and leave exactly the table
\* of the new policy.
THEOREM CurrentIsInstalled == Spec => []KernelHoldsCurrent
<1>1. Init => TypeOK /\ KernelInv
  BY TypeInit DEF Init, KernelInv, KernelHoldsCurrent, AppliedIsInstalled
<1>2. KernelInv => KernelHoldsCurrent
  BY DEF KernelInv
<1> QED BY <1>1, <1>2, TypeStep, KernelStep, PTL DEF Spec
=============================================================================
