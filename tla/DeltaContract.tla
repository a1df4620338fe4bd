---------------------------- MODULE DeltaContract ----------------------------
(***************************************************************************)
(* The versioning rule and the delta contract of ADR-0018 decision 2: the  *)
(* compiler renders a workload's policy again and again (package           *)
(* internal/compiler), and a follower that holds some earlier version is   *)
(* moved to the persisted one by a single delta, whatever versions it      *)
(* skips.                                                                  *)
(***************************************************************************)
EXTENDS Versioning

CONSTANT MaxVersion   \* bound on the versions a behaviour renders

ASSUME MaxVersionAssumption == MaxVersion \in Nat

VARIABLES
    persisted,   \* the workload_policies row, or Empty when none is persisted
    held         \* the policy the follower holds

vars == <<persisted, held>>

Init == persisted = Empty /\ held = Empty

\* RenderIn: only a changed outcome is saved.
RenderIn(content) ==
    LET outcome == Plan(persisted, content)
    IN  /\ outcome.version <= MaxVersion
        /\ persisted' = IF Changed(persisted, content) THEN outcome ELSE persisted
        /\ UNCHANGED held

Follow ==
    LET delta == Delta(held, persisted)
    IN  /\ held.version < persisted.version
        /\ Applies(held, delta)
        /\ held' = Apply(held, delta)
        /\ UNCHANGED persisted

Next == (\E content \in Contents : RenderIn(content)) \/ Follow

Spec == Init /\ [][Next]_vars

-----------------------------------------------------------------------------
\* What is persisted and what the follower holds are policies.
TypeOK == persisted \in Policies /\ held \in Policies

\* A delta between any two versions applies to the earlier one: neither of
\* rendered.Apply's errors can arise from a delta rendered.Delta computed from
\* the policy the follower holds.
DeltaAlwaysApplies == Applies(held, Delta(held, persisted))

\* Two versions of a workload that are equal have equal content, and the
\* persisted version is never behind one that was handed out (ADR-0018:
\* "Versions mean something").
VersionNamesContent ==
    /\ held.version <= persisted.version
    /\ held.version = persisted.version => held = persisted

\* Every change of a delta is needed: leaving out any one of them, or the mode
\* change, no longer turns the held policy into the persisted one (Diff
\* "returns the minimal DeltaChange set").
Without(delta, id) ==
    [delta EXCEPT !.changes.rules =
        [i \in DOMAIN delta.changes.rules \ {id} |-> delta.changes.rules[i]]]

DeltaIsMinimal ==
    LET delta == Delta(held, persisted)
    IN  /\ \A id \in DOMAIN delta.changes.rules :
              ~Equal(Apply(held, Without(delta, id)), persisted)
        /\ delta.changes.setMode # {} =>
              ~Equal(Apply(held, [delta EXCEPT !.changes.setMode = {}]), persisted)

\* Applying the delta yields the later snapshot exactly (the executable
\* contract of ADR-0018 decision 2, over skipped versions too).
FollowReachesPersisted == [][held' # held => held' = persisted]_vars

\* A version advances by exactly one and only with a change of content, and a
\* render that changes nothing leaves the persisted row alone.
VersionsAdvanceByDiff ==
    [][persisted' # persisted =>
         /\ persisted'.version = persisted.version + 1
         /\ persisted.version > 0 => ~Equal(persisted', persisted)]_vars
=============================================================================
