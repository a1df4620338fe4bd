---------------------------- MODULE DesiredState ----------------------------
(***************************************************************************)
(* What policy distribution promises for one workload, whatever happens to *)
(* streams, announcements and acknowledgements in between: the agent holds *)
(* the empty policy or, exactly, one of the versions the compiler rendered *)
(* for its workload.  It is never a mixture of two versions, and never a   *)
(* version under another version's content.                                *)
(***************************************************************************)
EXTENDS Versioning, Sequences

VARIABLES
    hist,        \* hist[v] is the policy rendered at version v
    installed    \* the policy the agent holds

Latest == IF hist = << >> THEN Empty ELSE hist[Len(hist)]

Init == hist = << >> /\ installed = Empty

Render ==
    /\ \E content \in Contents :
          /\ Changed(Latest, content)
          /\ hist' = Append(hist, Plan(Latest, content))
    /\ UNCHANGED installed

Install ==
    /\ \E v \in 1..Len(hist) : installed' = hist[v]
    /\ UNCHANGED hist

Next == Render \/ Install

Spec == Init /\ [][Next]_<<hist, installed>>
=============================================================================
