----------------------------- MODULE Versioning -----------------------------
(***************************************************************************)
(* The versioning rule (package internal/compiler, Plan), for one          *)
(* workload: a version advances if and only if the rendered content        *)
(* differs from the persisted one.                                         *)
(***************************************************************************)
EXTENDS Rendered

\* A rendered content as the policy persisted at version v.
AtVersion(content, v) == [version |-> v, mode |-> content.mode, rules |-> content.rules]

\* A workload with nothing persisted is planned against Empty and always
\* persisted at version 1, even when its rendered policy is itself empty.
Changed(prev, content) == prev.version = 0 \/ ~NoChanges(Diff(prev, content))

Plan(prev, content) ==
    AtVersion(content, IF Changed(prev, content) THEN prev.version + 1 ELSE prev.version)
=============================================================================
