--------------------------- MODULE MarkAllocator ---------------------------
(***************************************************************************)
(* The connection-mark allocation of the agent's policy store              *)
(* (internal/agent/enforce/nft/allocator.go, and its use in store.go): how *)
(* rules get their values in the mark region, how the allocation is saved  *)
(* beside the policy and found again by a start, and what Classify makes   *)
(* of a connection the kernel marked under an earlier policy.              *)
(*                                                                         *)
(* A policy is the set of its rule ids, which are numbers in canonical     *)
(* order; its mode carries sets.  A region value is a number in            *)
(* 1..Limit; the code's Limit is 65534.                                    *)
(***************************************************************************)
EXTENDS Integers, Sequences, FiniteSets, SequencesExt

CONSTANTS
    RuleIds,     \* a set of numbers
    Limit,       \* values in the region
    MaxApplies,  \* bound on the applies and loads of a behaviour
    Nil,         \* no file, no policy
    Damaged,     \* a file that does not verify
    Faults       \* what may go wrong: a subset of {"marks", "policy", "save", "kernel",
                 \*   "restore", "crash", "power", "down"}

VARIABLES
    marksFile,   \* the persisted allocation
    policyFile,  \* the persisted policy
    alloc,       \* Store.alloc
    current,     \* Store.current
    kernel,      \* the values the installed table writes, by rule
    conns,       \* what live connections may carry: the rule that admitted one, and its mark
    pc,          \* how far the daemon has come in Load, Restore or Apply
    next,        \* the policy being applied
    clone,       \* the allocation Apply works on
    reused,      \* history: values given to a second rule
    lost,        \* history: what connections carried when an allocation was lost
    unrestored,  \* history: the start could not install what it loaded
    applies      \* history: how many applies and loads were begun

files == <<marksFile, policyFile>>
history == <<reused, lost, unrestored>>
vars == <<files, alloc, current, kernel, conns, pc, next, clone, history, applies>>

-----------------------------------------------------------------------------
(* The allocation.                                                         *)

NewAllocator == [next |-> 1, gen |-> 0, byID |-> <<>>, byMark |-> <<>>]

\* The slots whose value may be handed to another rule, freed longest ago first.
Reusable(a, installed) ==
    LET free == {id \in DOMAIN a.byID \ installed : a.byID[id].gen < a.gen}
    IN  SetToSortSeq({a.byID[id] : id \in free},
                     LAMBDA s, t : s.gen < t.gen \/ (s.gen = t.gen /\ s.mark < t.mark))

RulesOf(policy) == IF policy \in {Nil, Damaged} THEN {} ELSE policy

\* The allocation once the rules it knows are carried over to a new generation.
Refreshed(a, rules) ==
    [a EXCEPT !.gen = a.gen + 1,
              !.byID = [id \in DOMAIN a.byID |->
                  IF id \in rules THEN [a.byID[id] EXCEPT !.gen = a.gen + 1] ELSE a.byID[id]]]

Fresh(a, rules) == SetToSortSeq(rules \ DOMAIN a.byID, <)

\* The values of the new rules: those never handed out, then the reusable ones.
Values(a, rules, installed) ==
    [i \in 1..(Limit + 1 - a.next) |-> a.next + i - 1]
    \o [i \in DOMAIN Reusable(Refreshed(a, rules), installed) |->
            Reusable(Refreshed(a, rules), installed)[i].mark]

MarksExhausted(a, rules, installed) ==
    Len(Fresh(a, rules)) > Len(Values(a, rules, installed))

Allocate(a, rules, installed) ==
    LET b      == Refreshed(a, rules)
        fresh  == Fresh(a, rules)
        values == Values(a, rules, installed)
        given  == {values[i] : i \in DOMAIN fresh}
        place(id) == CHOOSE i \in DOMAIN fresh : fresh[i] = id
        kept   == {id \in DOMAIN b.byID : b.byID[id].mark \notin given}
    IN  [next   |-> Max({a.next} \cup {v + 1 : v \in given}),
         gen    |-> b.gen,
         byID   |-> [id \in kept \cup rules |->
                        IF id \in kept THEN b.byID[id]
                                       ELSE [mark |-> values[place(id)], gen |-> b.gen]],
         byMark |-> [m \in DOMAIN a.byMark \cup given |->
                        IF m \in given THEN fresh[CHOOSE i \in DOMAIN fresh : values[i] = m]
                                       ELSE a.byMark[m]]]

\* What loadAllocator accepts of a file whose checksum verifies.
Loadable(f) ==
    /\ f.next \in 1..(Limit + 1)
    /\ \A id \in DOMAIN f.byID : /\ f.byID[id].mark \in 1..(f.next - 1)
                                 /\ f.byID[id].gen <= f.gen
    /\ \A id, other \in DOMAIN f.byID : f.byID[id].mark = f.byID[other].mark => id = other

\* Save writes the rules; the values by mark are rebuilt from them.
LoadAllocator(f) ==
    [f EXCEPT !.byMark = [m \in {f.byID[id].mark : id \in DOMAIN f.byID} |->
                             CHOOSE id \in DOMAIN f.byID : f.byID[id].mark = m]]

\* The rule a connection's mark is attributed to; none when it is OBSERVED.
Classify(m) == IF m \in DOMAIN alloc.byMark THEN {alloc.byMark[m]} ELSE {}

Renamed(a, b) ==
    {m \in DOMAIN a.byMark : m \in DOMAIN b.byMark /\ a.byMark[m] # b.byMark[m]}

\* The connections a table admits carry the value of the rule that admits them.
Marked(table) == {[rule |-> id, mark |-> table[id]] : id \in DOMAIN table}

Init ==
    /\ marksFile = Nil /\ policyFile = Nil
    /\ alloc = NewAllocator /\ clone = NewAllocator
    /\ current = Nil /\ next = Nil /\ kernel = <<>> /\ conns = {}
    /\ pc = "down"
    /\ reused = {} /\ lost = {} /\ unrestored = FALSE /\ applies = 0

-----------------------------------------------------------------------------
(* The daemon starts: Load, then Restore.                                  *)

\* The allocation is begun afresh: connections marked so far may be misattributed.
Forget == lost' = lost \cup conns

\* The persisted allocation; a new one if there is none or it does not verify.
Found == IF marksFile \in {Nil, Damaged} THEN NewAllocator ELSE LoadAllocator(marksFile)

\* Load seeds the allocation from the policy.
Load ==
    LET rules  == RulesOf(policyFile)
        seeded == IF policyFile = Nil THEN Found ELSE Allocate(Found, rules, rules)
    IN  /\ pc = "down" /\ policyFile # Damaged /\ applies < MaxApplies
        /\ ~MarksExhausted(Found, rules, rules)
        /\ alloc' = seeded /\ current' = policyFile
        /\ pc' = IF policyFile = Nil THEN "idle" ELSE "loaded"
        /\ reused' = reused \cup Renamed(Found, seeded)
        /\ IF marksFile = Damaged THEN Forget ELSE UNCHANGED lost
        /\ applies' = applies + 1
        /\ UNCHANGED <<files, kernel, conns, next, clone, unrestored>>

\* The policy file does not verify, or its rules cannot all get a value: nothing
\* is loaded, the marks neither.
LoadFails ==
    /\ pc = "down"
    /\ policyFile = Damaged \/ MarksExhausted(Found, RulesOf(policyFile), RulesOf(policyFile))
    /\ alloc' = NewAllocator /\ current' = Nil /\ pc' = "idle"
    /\ Forget
    /\ UNCHANGED <<files, kernel, conns, next, clone, reused, unrestored, applies>>

\* Restore allocates on a clone it does not keep.
Restore ==
    /\ pc = "loaded"
    /\ kernel' = [id \in current |-> Allocate(alloc, current, current).byID[id].mark]
    /\ conns' = conns \cup Marked(kernel')
    /\ pc' = "idle" /\ unrestored' = FALSE
    /\ UNCHANGED <<files, alloc, current, next, clone, reused, lost, applies>>

RestoreFails ==
    /\ "restore" \in Faults /\ pc = "loaded"
    /\ pc' = "idle" /\ unrestored' = TRUE
    /\ UNCHANGED <<files, alloc, current, kernel, conns, next, clone, reused, lost, applies>>

-----------------------------------------------------------------------------
(* Apply.                                                                  *)

\* Apply returns.
Return == pc' = "idle" /\ next' = Nil /\ clone' = NewAllocator

\* A policy of too many rules, or whose rules cannot all get a value, is refused
\* before anything is written.
BeginApply(rules) ==
    /\ pc = "idle" /\ applies < MaxApplies /\ applies' = applies + 1
    /\ Cardinality(rules) <= Limit
    /\ ~MarksExhausted(alloc, rules, RulesOf(current))
    /\ next' = rules /\ clone' = Allocate(alloc, rules, RulesOf(current))
    /\ pc' = "marks"
    /\ UNCHANGED <<files, alloc, current, kernel, conns, history>>

\* Mutant: the store goes on with the allocation it had.
MutSaveMarks ==
    /\ pc = "marks"
    /\ marksFile' = clone /\ pc' = "policy"
    /\ UNCHANGED <<policyFile, alloc, current, kernel, conns, next, clone, history, applies>>

SaveMarks ==
    /\ pc = "marks"
    /\ marksFile' = clone /\ alloc' = clone /\ pc' = "policy"
    /\ reused' = reused \cup Renamed(alloc, clone)
    /\ UNCHANGED <<policyFile, current, kernel, conns, next, clone, lost, unrestored, applies>>

\* A write fails before its rename, or after it in the sync of the directory.
SaveMarksFails ==
    /\ "save" \in Faults /\ pc = "marks"
    /\ \/ UNCHANGED <<marksFile, reused>>
       \/ marksFile' = clone /\ reused' = reused \cup Renamed(alloc, clone)
    /\ Return
    /\ UNCHANGED <<policyFile, alloc, current, kernel, conns, lost, unrestored, applies>>

SavePolicy ==
    /\ pc = "policy"
    /\ policyFile' = next /\ pc' = "install"
    /\ UNCHANGED <<marksFile, alloc, current, kernel, conns, next, clone, history, applies>>

SavePolicyFails ==
    /\ "save" \in Faults /\ pc = "policy"
    /\ policyFile' \in {policyFile, next}
    /\ Return
    /\ UNCHANGED <<marksFile, alloc, current, kernel, conns, history, applies>>

Install ==
    /\ pc = "install"
    /\ kernel' = [id \in next |-> clone.byID[id].mark]
    /\ conns' = conns \cup Marked(kernel')
    /\ current' = next /\ unrestored' = FALSE
    /\ Return
    /\ UNCHANGED <<files, alloc, reused, lost, applies>>

InstallFails ==
    /\ "kernel" \in Faults /\ pc = "install"
    /\ Return
    /\ UNCHANGED <<files, alloc, current, kernel, conns, history, applies>>

-----------------------------------------------------------------------------
(* The kernel and the host.                                                *)

Stop ==
    /\ "crash" \in Faults /\ pc # "down"
    /\ pc' = "down" /\ alloc' = NewAllocator /\ clone' = NewAllocator
    /\ current' = Nil /\ next' = Nil /\ unrestored' = FALSE
    /\ UNCHANGED <<files, kernel, conns, reused, lost, applies>>

PowerLoss ==
    /\ "power" \in Faults /\ pc # "down"
    /\ pc' = "down" /\ alloc' = NewAllocator /\ clone' = NewAllocator
    /\ current' = Nil /\ next' = Nil /\ unrestored' = FALSE
    /\ kernel' = <<>> /\ conns' = {}
    /\ UNCHANGED <<files, reused, lost, applies>>

Teardown ==
    /\ "down" \in Faults /\ kernel # <<>>
    /\ kernel' = <<>>
    /\ UNCHANGED <<files, alloc, current, conns, pc, next, clone, history, applies>>

\* A file is damaged while the daemon is down.  Bound: once, with
\* connections to forget.
Damage ==
    /\ pc = "down" /\ lost = {} /\ conns # {} /\ Damaged \notin {marksFile, policyFile}
    /\ \/ "marks" \in Faults /\ marksFile # Nil /\ marksFile' = Damaged /\ UNCHANGED policyFile
       \/ "policy" \in Faults /\ policyFile # Nil /\ policyFile' = Damaged /\ UNCHANGED marksFile
    /\ UNCHANGED <<alloc, current, kernel, conns, pc, next, clone, history, applies>>

Next ==
    \/ Load \/ LoadFails \/ Restore \/ RestoreFails
    \/ \E rules \in SUBSET RuleIds : BeginApply(rules)
    \/ SaveMarks \/ SaveMarksFails \/ SavePolicy \/ SavePolicyFails
    \/ Install \/ InstallFails
    \/ Stop \/ PowerLoss \/ Teardown \/ Damage

Spec == Init /\ [][Next]_vars

-----------------------------------------------------------------------------
Serving == pc \notin {"down", "loaded"}

\* "a connection the kernel marked under an earlier version still names the rule
\* that admitted it": whatever was removed, re-added, refused or restarted in
\* between, as long as its value was not reused, and unless the allocation was
\* lost: "only connections marked before the restart can be misattributed".
ConnectionNamesItsRule ==
    Serving => \A c \in conns \ lost : c.mark \notin reused => Classify(c.mark) = {c.rule}

\* "A value held by a rule of installed ... is never taken, because live
\* connections may carry it": even when freed values are reused, the values the
\* installed table writes name its rules.
InstalledKeepsItsMarks ==
    Serving /\ ~unrestored =>
        \A c \in Marked(kernel) \ lost : Classify(c.mark) = {c.rule}

\* A start finds, after a crash at any point of an apply, an allocation it can
\* load, and one that covers every rule of the policy beside it.
MarksCoverPolicy ==
    marksFile \notin {Nil, Damaged} =>
        /\ Loadable(marksFile)
        /\ pc = "install" => policyFile \subseteq DOMAIN marksFile.byID

\* A mark names the rule that wrote it: on connections that outlive their
\* rule, in the installed table, and in the files a start finds.
NamesItsRule == ConnectionNamesItsRule /\ InstalledKeepsItsMarks /\ MarksCoverPolicy
=============================================================================
