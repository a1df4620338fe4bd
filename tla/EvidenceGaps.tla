---------------------------- MODULE EvidenceGaps ----------------------------
(***************************************************************************)
(* The agent's record of lost evidence (internal/agent/collect/gaps.go).   *)
(* A gap is a kind, a source, an interval and, where it is known, a count. *)
(* Gaps wait in a bounded sequence until a report takes them; an interval  *)
(* still running is kept apart, at most one per source.  The operators are *)
(* the methods of Gaps as functions of the two fields they work on.        *)
(***************************************************************************)
EXTENDS Integers, Sequences, FiniteSets, SequencesExt

CONSTANTS
    GapCapacity,   \* Capacity: gaps held until they are shipped
    GapSources,    \* the flow sources, and None for a loss that is not one source's
    None,          \* no value where there may be one
    Unknown        \* the count of a loss nobody counted (HasCount false)

\* A gap without a start: no interval is open.
NoGap == [kind |-> None]

Gap(kind, source, from, to, count) ==
    [kind |-> kind, source |-> source, from |-> from, to |-> to, count |-> count]

Same(p, g) == p.kind = g.kind /\ p.source = g.source

\* merge: p widened to cover g; the counts add up when both are known.
merge(p, g) ==
    [p EXCEPT !.from  = IF g.from < @ THEN g.from ELSE @,
              !.to    = IF g.to > @ THEN g.to ELSE @,
              !.count = IF @ = Unknown \/ g.count = Unknown THEN Unknown
                        ELSE @ + g.count]

\* One turn of shrink: the first gap that repeats an earlier kind and source is
\* merged into the earliest of them; with no repeat the oldest gap goes.
ShrinkOnce(held) ==
    LET later(i) == \E j \in 1..(i - 1) : Same(held[j], held[i])
        repeats == {i \in DOMAIN held : later(i)}
    IN IF repeats = {} THEN Tail(held)
       ELSE LET i == CHOOSE n \in repeats : \A k \in repeats : n <= k
                j == CHOOSE n \in 1..(i - 1) : Same(held[n], held[i])
            IN RemoveAt([held EXCEPT ![j] = merge(@, held[i])], i)

\* shrink: each turn takes one gap away, until the rest fits.
shrink(held) ==
    FoldLeft(LAMBDA h, n : ShrinkOnce(h), held,
             [n \in 1..(Len(held) - GapCapacity) |-> n])

\* add: merged into the newest held gap of its kind and source when the two touch.
add(held, gap) ==
    LET g == [gap EXCEPT !.to = IF @ < gap.from THEN gap.from ELSE @]
        same == {i \in DOMAIN held : Same(held[i], g)}
        newest == CHOOSE i \in same : \A k \in same : k <= i
    IN IF same # {} /\ g.from <= held[newest].to /\ g.to >= held[newest].from
       THEN [held EXCEPT ![newest] = merge(@, g)]
       ELSE shrink(Append(held, g))

\* Open: the earlier start of the same kind stands, another kind is closed first.
OpenHeld(held, open, source, kind, from) ==
    IF open[source] = NoGap \/ open[source].kind = kind THEN held
    ELSE add(held, [open[source] EXCEPT !.to = from])

OpenGap(open, source, kind, from) ==
    IF open[source] # NoGap /\ open[source].kind = kind THEN open
    ELSE [open EXCEPT ![source] = Gap(kind, source, from, from, Unknown)]

\* Close: the open interval of source ends at to and is held.
CloseHeld(held, open, source, to) ==
    IF open[source] = NoGap THEN held
    ELSE add(held, [open[source] EXCEPT !.to = to])

CloseGap(open, source) == [open EXCEPT ![source] = NoGap]

\* CutOpen: what an interval that may last for ever has covered so far is held,
\* and it stays open from to on.  Only table_removed is of that sort.
Cuts(open, to) ==
    {s \in GapSources : open[s] # NoGap /\ open[s].kind = "table_removed" /\ to > open[s].from}

CutHeld(held, open, to) ==
    FoldLeft(LAMBDA h, s : add(h, [open[s] EXCEPT !.to = to]), held,
             SetToSeq(Cuts(open, to)))

CutGap(open, to) ==
    [s \in GapSources |-> IF s \in Cuts(open, to) THEN [open[s] EXCEPT !.from = to] ELSE open[s]]

\* Restore: gaps that were taken and not delivered go ahead of the others, unmerged.
Restore(held, gaps) == IF gaps = <<>> THEN held ELSE shrink(gaps \o held)

=============================================================================
