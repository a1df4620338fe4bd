----------------------------- MODULE MCPresence -----------------------------
(***************************************************************************)
(* What each side knows of the other: the control plane's registry of live *)
(* streams, and the agent's watch on its owned table.  A behaviour is one  *)
(* of the two and leaves the other as it is.                               *)
(***************************************************************************)
EXTENDS StreamRegistry, Integers

CONSTANT MaxTime

VARIABLES
    part,
    clock, table, installed, applying, applyAt, known, absent, check, checkAt, gap, gaps,
    blind, owed

P == INSTANCE Presence

watchVars == <<clock, table, installed, applying, applyAt, known, absent, check, checkAt, gap, gaps,
               blind, owed>>
allVars == <<part, vars, watchVars>>

SideInit ==
    /\ part \in {"streams", "watch"}
    /\ Init /\ P!PresenceInit
    /\ part # "streams" => home = CHOOSE h \in [Streams -> Replicas] : TRUE

SideNext ==
    /\ UNCHANGED part
    /\ \/ part = "streams" /\ Next /\ UNCHANGED watchVars
       \/ part = "watch" /\ P!PresenceNext /\ UNCHANGED vars

\* The fairness of the streams, asked of that part alone.
SideSpec ==
    /\ SideInit /\ [][SideNext]_allVars
    /\ \A s \in Streams : /\ WF_vars(part = "streams" /\ Handler(s))
                          /\ WF_vars(part = "streams" /\ Write(s))

\* Presence: the blind time a check has found lies in a table_removed gap.
BlindTimeIsRecorded == P!BlindTimeIsRecorded
=============================================================================
