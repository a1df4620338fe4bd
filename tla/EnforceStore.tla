---------------------------- MODULE EnforceStore ----------------------------
(***************************************************************************)
(* The agent's policy store over the owned nftables table (package         *)
(* internal/agent/enforce/nft, store.go): Apply persists a policy durably  *)
(* and then runs one kernel transaction; a daemon that starts loads the    *)
(* persisted policy and restores it.  Daemon crashes, power losses, the    *)
(* local kill switch and failures of every step are interleaved with it.   *)
(*                                                                         *)
(* The policy of version 0, Empty, stands for nil: no policy file, or no   *)
(* policy loaded.  The mark allocation Apply saves before the policy is    *)
(* not in this module: an apply that fails in it, or for having too many   *)
(* rules, changes nothing here.                                            *)
(***************************************************************************)
EXTENDS Rendered

CONSTANTS
    NoTable,
    Faults,        \* what may go wrong, a set of the names below
    MaxVersion,    \* bound on the versions of the policies applied
    MaxApplies     \* bound on the applies of a behaviour

ASSUME FaultAssumption ==
    /\ Faults \subseteq {"load", "restore", "save", "sync", "kernel", "crash", "power", "down"}
    /\ MaxVersion \in Nat /\ MaxApplies \in Nat

VARIABLES
    file,      \* the policy file as a reader sees it
    durable,   \* what the file may hold after a power loss
    kernel,    \* the owned table
    current,   \* Store.current
    pc,        \* how far the daemon has come in Load, Restore or Apply
    next,      \* the policy being applied
    acked,     \* history: the policy last acknowledged as applied
    since,     \* history: the policies that reached the file after it
    applies,   \* history: how many applies were begun
    unrestored \* history: the start could not restore what it loaded, and no table
               \* was replaced since

diskVars == <<file, durable>>
historyVars == <<acked, since, applies, unrestored>>
ackVars == <<acked, since, applies>>
vars == <<diskVars, kernel, current, pc, next, historyVars>>

-----------------------------------------------------------------------------
(* Rendering, and what nft does with a script.                             *)

CarriesSets(mode) == mode \in {"SIMULATION", "ENFORCED"}

\* The table a full rendering installs: without sets it is only observed.
Table(policy) ==
    [mode |-> policy.mode, rules |-> IF CarriesSets(policy.mode) THEN policy.rules ELSE NoRules]

\* Mutant: a change of the mode is left to the set update.
MutRenderDelta(from, to) ==
    /\ CarriesSets(from.mode) /\ CarriesSets(to.mode)
    /\ ~NoChanges(Diff(from, to))
    /\ \A id \in DOMAIN Diff(from, to).rules : Diff(from, to).rules[id].kind = "peers"

\* Whether RenderDelta renders the difference as a set update.
RenderDelta(from, to) ==
    LET changes == Diff(from, to)
    IN  /\ CarriesSets(from.mode) /\ CarriesSets(to.mode)
        /\ ~NoChanges(changes)
        /\ changes.setMode = {}
        /\ \A id \in DOMAIN changes.rules : changes.rules[id].kind = "peers"

\* nft takes a set update if the table has the sets it names and they hold the
\* elements it deletes.
Accepts(table, changes) ==
    /\ table # NoTable
    /\ \A id \in DOMAIN changes : id \in DOMAIN table.rules
                                  /\ changes[id].remove \subseteq table.rules[id].peers

Updated(table, changes) ==
    [table EXCEPT !.rules = [id \in DOMAIN table.rules |->
        IF id \in DOMAIN changes THEN ChangedRule(table.rules, changes[id], id)
                                 ELSE table.rules[id]]]

Init ==
    /\ file = Empty /\ durable = {Empty}
    /\ kernel = NoTable
    /\ current = Empty /\ pc = "down" /\ next = Empty
    /\ acked = Empty /\ since = {} /\ applies = 0 /\ unrestored = FALSE

-----------------------------------------------------------------------------
(* The daemon starts: Load, then Restore.                                  *)

Load ==
    /\ pc = "down"
    /\ current' = file
    /\ pc' = IF file = Empty THEN "idle" ELSE "loaded"
    /\ UNCHANGED <<diskVars, kernel, next, historyVars>>

\* The file cannot be read or does not verify; the daemon goes on without it.
LoadFails ==
    /\ "load" \in Faults
    /\ pc = "down" /\ file # Empty
    /\ pc' = "idle"
    /\ UNCHANGED <<diskVars, kernel, current, next, historyVars>>

Restore ==
    /\ pc = "loaded"
    /\ kernel' = Table(current)
    /\ pc' = "idle" /\ unrestored' = FALSE
    /\ UNCHANGED <<diskVars, current, next, ackVars>>

\* The kernel refuses the persisted policy; the daemon goes on with it loaded.
RestoreFails ==
    /\ "restore" \in Faults
    /\ pc = "loaded"
    /\ pc' = "idle" /\ unrestored' = TRUE
    /\ UNCHANGED <<diskVars, kernel, current, next, ackVars>>

-----------------------------------------------------------------------------
(* Apply.  It is called from one goroutine.                                *)

BeginApply(policy) ==
    /\ pc = "idle"
    /\ applies < MaxApplies
    /\ applies' = applies + 1
    /\ next' = policy
    /\ pc' = "saving"
    /\ UNCHANGED <<diskVars, kernel, current, acked, since, unrestored>>

\* WriteDurable fails before its rename.
SaveFails ==
    /\ "save" \in Faults
    /\ pc = "saving"
    /\ pc' = "idle"
    /\ UNCHANGED <<diskVars, kernel, current, next, historyVars>>

\* The synced temporary file takes the place of the file; a power loss may
\* still leave either.
Rename ==
    /\ pc = "saving"
    /\ file' = next /\ durable' = durable \cup {next}
    /\ since' = since \cup {next}
    /\ pc' = "renamed"
    /\ UNCHANGED <<kernel, current, next, acked, applies, unrestored>>

\* Mutant: the directory is not synced.
MutSyncDir ==
    /\ pc = "renamed"
    /\ pc' = "saved"
    /\ UNCHANGED <<diskVars, kernel, current, next, historyVars>>

SyncDir ==
    /\ pc = "renamed"
    /\ durable' = {file}
    /\ pc' = "saved"
    /\ UNCHANGED <<file, kernel, current, next, historyVars>>

SyncDirFails ==
    /\ "sync" \in Faults
    /\ pc = "renamed"
    /\ pc' = "idle"
    /\ UNCHANGED <<diskVars, kernel, current, next, historyVars>>

\* A set update, which the kernel may refuse: then the full rendering follows.
UpdateSets ==
    LET changes == Diff(current, next).rules
    IN  /\ pc = "saved" /\ RenderDelta(current, next)
        /\ \/ /\ Accepts(kernel, changes)
              /\ kernel' = Updated(kernel, changes)
              /\ pc' = "committed"
           \/ /\ ~Accepts(kernel, changes) \/ "kernel" \in Faults
              /\ pc' = "full"
              /\ UNCHANGED kernel
        /\ UNCHANGED <<diskVars, current, next, historyVars>>

ReplaceTable ==
    /\ pc = "full" \/ (pc = "saved" /\ ~RenderDelta(current, next))
    /\ kernel' = Table(next)
    /\ pc' = "committed" /\ unrestored' = FALSE
    /\ UNCHANGED <<diskVars, current, next, ackVars>>

\* Refused: the file is ahead of the kernel.
ReplaceFails ==
    /\ "kernel" \in Faults
    /\ pc = "full" \/ (pc = "saved" /\ ~RenderDelta(current, next))
    /\ pc' = "idle"
    /\ UNCHANGED <<diskVars, kernel, current, next, historyVars>>

\* Apply returns and the agent acknowledges the policy.
Return ==
    /\ pc = "committed"
    /\ current' = next
    /\ acked' = next /\ since' = {}
    /\ pc' = "idle"
    /\ UNCHANGED <<diskVars, kernel, next, applies, unrestored>>

-----------------------------------------------------------------------------
(* The host.                                                               *)

\* The daemon stops or crashes; file and table stay.
Stop ==
    /\ "crash" \in Faults
    /\ pc # "down"
    /\ pc' = "down" /\ current' = Empty /\ next' = Empty /\ unrestored' = FALSE
    /\ UNCHANGED <<diskVars, kernel, ackVars>>

\* Power is lost: the table is gone, and a rename not yet synced may be.
PowerLoss ==
    /\ "power" \in Faults
    /\ file' \in durable /\ durable' = {file'}
    /\ kernel' = NoTable
    /\ pc' = "down" /\ current' = Empty /\ next' = Empty /\ unrestored' = FALSE
    /\ UNCHANGED ackVars

\* innerwall-agent down.
Teardown ==
    /\ "down" \in Faults
    /\ kernel # NoTable
    /\ kernel' = NoTable
    /\ UNCHANGED <<diskVars, current, pc, next, historyVars>>

Inputs == [version : 1..MaxVersion, mode : Modes, rules : RuleMaps]

Persist == SaveFails \/ Rename \/ SyncDir \/ SyncDirFails

Install == UpdateSets \/ ReplaceTable \/ ReplaceFails \/ Return

Next ==
    \/ Load \/ LoadFails \/ Restore \/ RestoreFails
    \/ \E policy \in Inputs : BeginApply(policy)
    \/ Persist \/ Install
    \/ Stop \/ PowerLoss \/ Teardown

Spec == Init /\ [][Next]_vars

-----------------------------------------------------------------------------
Tables == [mode : Modes, rules : RuleMaps] \cup {NoTable}

\* Every variable of the store, the disk and the kernel has its type.
TypeOK ==
    /\ file \in Policies /\ durable \subseteq Policies
    /\ kernel \in Tables
    /\ current \in Policies /\ next \in Policies
    /\ pc \in {"down", "loaded", "idle", "saving", "renamed", "saved", "full", "committed"}
    /\ acked \in Policies /\ since \subseteq Policies
    /\ applies \in 0..MaxApplies

\* "a reboot restores the last persisted policy, never one older than the agent
\* last acknowledged": whenever power is lost, the file a start finds holds the
\* acknowledged policy or one that Apply was given after it.
RestoresAcked == durable \subseteq {acked} \cup since /\ file \in durable

\* "the two agree after every successful apply": a policy about to be
\* acknowledged is in the kernel whole, whether by a set update or by a full
\* rendering, unless the kill switch removed the table.
AppliedIsInstalled == pc = "committed" => kernel \in {NoTable, Table(next)}

\* The inductive form, unless the start could not restore what it loaded and no
\* table was replaced since: "current is the policy the kernel holds", so a set
\* update is computed from the table there is.
KernelHoldsCurrent ==
    ~unrestored =>
      /\ pc \in {"idle", "saving", "renamed", "saved", "full"} =>
            current = Empty \/ kernel \in {NoTable, Table(current)}
      /\ AppliedIsInstalled
=============================================================================
