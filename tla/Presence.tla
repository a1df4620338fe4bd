------------------------------ MODULE Presence ------------------------------
(***************************************************************************)
(* The watch on the owned table (internal/agent/enforce/presence.go, wired *)
(* in cmd/innerwall-agent/daemon.go): each heartbeat reads whether the     *)
(* table is in the kernel, and the first that finds it gone opens an       *)
(* evidence gap from the last instant it was known present; the next apply *)
(* or check that finds it back closes the gap.  The kernel is read outside *)
(* the lock, so applies and the kill switch come in between.               *)
(***************************************************************************)
EXTENDS Integers

CONSTANT MaxTime    \* bound on the clock

VARIABLES
    clock,
    table,      \* the owned table is in the kernel
    installed,  \* Store.Current is not nil
    applying,   \* an apply has installed the table and not yet reported it
    applyAt,    \* when it read the clock; 0 before
    known,      \* Presence.known; 0 is the zero time
    absent,     \* Presence.absent
    check,      \* the heartbeat's check: idle, or what its probe read
    checkAt,    \* when it read the clock; 0 before
    gap,        \* since when the table_removed gap is open; 0 when closed
    gaps,       \* the closed gaps <<from, to>>
    blind,      \* history: instants without the table later than every report of it
    owed        \* history: the instants without the table a check has reported

presenceVars ==
    <<clock, table, installed, applying, applyAt, known, absent, check, checkAt, gap, gaps,
      blind, owed>>

PresenceInit ==
    /\ clock = 1 /\ table = FALSE /\ installed = FALSE /\ applying = FALSE /\ applyAt = 0
    /\ known = 0 /\ absent = FALSE /\ check = "idle" /\ checkAt = 0
    /\ gap = 0 /\ gaps = {} /\ blind = {} /\ owed = {}

\* Gaps.Open: an open gap of the kind stays as it is.
Removed(since) == gap' = (IF gap = 0 THEN since ELSE gap) /\ UNCHANGED gaps

\* Gaps.Close.
Restored(at) ==
    IF gap = 0 THEN UNCHANGED <<gap, gaps>>
               ELSE gap' = 0 /\ gaps' = gaps \cup {<<gap, at>>}

\* A table reported present as of at.  When it was removed in between, the time
\* after at is the next check's to report.
RestoredLocked(at) ==
    /\ known' = at /\ absent' = FALSE
    /\ IF absent THEN Restored(at) ELSE UNCHANGED <<gap, gaps>>
    /\ blind' = {t \in blind : t > at}
    /\ owed' = owed \ {t \in blind : t > at}

\* Watched.Apply: the store installs the table, then the clock is read, then
\* under the lock the table is reported.
ApplyInstalls ==
    /\ ~applying
    /\ table' = TRUE /\ installed' = TRUE /\ applying' = TRUE
    /\ UNCHANGED <<clock, applyAt, known, absent, check, checkAt, gap, gaps, blind, owed>>

ApplyReadsClock ==
    /\ applying /\ applyAt = 0 /\ applyAt' = clock
    /\ UNCHANGED <<clock, table, installed, applying, known, absent, check, checkAt, gap, gaps,
                   blind, owed>>

MarkInstalled ==
    /\ applyAt # 0 /\ applying' = FALSE /\ applyAt' = 0
    /\ RestoredLocked(applyAt)
    /\ UNCHANGED <<clock, table, installed, check, checkAt>>

\* The kill switch.  Time without the table counts once it was reported present.
KillSwitch ==
    /\ table /\ table' = FALSE
    /\ blind' = (IF known = 0 THEN blind ELSE blind \cup {clock})
    /\ UNCHANGED <<clock, installed, applying, applyAt, known, absent, check, checkAt, gap, gaps,
                   owed>>

\* Check says nothing before a policy is installed, nor when the probe fails.
Probe ==
    /\ check = "idle" /\ installed
    /\ check' = (IF table THEN "present" ELSE "absent")
    /\ UNCHANGED <<clock, table, installed, applying, applyAt, known, absent, checkAt, gap, gaps,
                   blind, owed>>

CheckReadsClock ==
    /\ check # "idle" /\ checkAt = 0 /\ checkAt' = clock
    /\ UNCHANGED <<clock, table, installed, applying, applyAt, known, absent, check, gap, gaps,
                   blind, owed>>

CheckPresent ==
    /\ check = "present" /\ checkAt # 0
    /\ check' = "idle" /\ checkAt' = 0
    /\ RestoredLocked(checkAt)
    /\ UNCHANGED <<clock, table, installed, applying, applyAt>>

\* Mutant: the gap starts at the check that notices.
MutCheckAbsent ==
    /\ check = "absent" /\ checkAt # 0
    /\ check' = "idle" /\ checkAt' = 0
    /\ absent' = TRUE
    /\ IF absent THEN UNCHANGED <<gap, gaps>> ELSE Removed(checkAt)
    /\ owed' = owed \cup blind
    /\ UNCHANGED <<clock, table, installed, applying, applyAt, known, blind>>

CheckAbsent ==
    /\ check = "absent" /\ checkAt # 0
    /\ check' = "idle" /\ checkAt' = 0
    /\ absent' = TRUE
    /\ IF absent THEN UNCHANGED <<gap, gaps>> ELSE Removed(IF known = 0 THEN checkAt ELSE known)
    /\ owed' = owed \cup blind
    /\ UNCHANGED <<clock, table, installed, applying, applyAt, known, blind>>

\* Time passes; an absence that was reported stays reported.
Tick ==
    LET missed == IF known # 0 /\ ~table THEN {clock + 1} ELSE {}
    IN  /\ clock < MaxTime /\ clock' = clock + 1
        /\ blind' = blind \cup missed
        /\ owed' = (IF absent THEN owed \cup missed ELSE owed)
        /\ UNCHANGED <<table, installed, applying, applyAt, known, absent, check, checkAt, gap,
                       gaps>>

PresenceNext ==
    \/ ApplyInstalls \/ ApplyReadsClock \/ MarkInstalled \/ KillSwitch
    \/ Probe \/ CheckReadsClock \/ CheckPresent \/ CheckAbsent \/ Tick

-----------------------------------------------------------------------------
\* "the first check that finds the table gone reports the interval since it was
\* last known present, so the blind period is recorded rather than read as
\* quiet": every instant without the table that a check has reported lies in
\* the gap, while it is open and once closed, although applies and checks read
\* the kernel and the clock before they take the lock.  Only a report of a
\* table that was removed since takes an absence back, until the next check.
BlindTimeIsRecorded ==
    \A t \in owed : \/ gap # 0 /\ gap <= t
                   \/ \E g \in gaps : g[1] <= t /\ t <= g[2]

=============================================================================
