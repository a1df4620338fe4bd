---------------------------- MODULE MCEvidence ----------------------------
(***************************************************************************)
(* Parts of the control plane that hand out policy and evidence, checked   *)
(* side by side: a behaviour is one of the delta contract, the reads and   *)
(* the retention of flow evidence, or the attribution of reported flows,   *)
(* and leaves the others as they are.                                      *)
(***************************************************************************)
EXTENDS DeltaContract, Integers, Sequences, TLC

CONSTANTS
    Parts, Machines, LabelOf, Replicas, Arrivals, Listings, Rollups, GapReads, Retention,
    DefaultRange, DefaultPageLimit, MaxPageLimit, DefaultGroupLimit, MaxGroupLimit,
    DefaultGapLimit, MaxGapLimit, PruneBatch, MaxNow, MaxPruneRuns, Enrolled, Sources, Nets,
    GroupNames, Reports, ClockOffsets, WindowLength, ClockSkewWindows, MaxLag, MaxChanges

VARIABLES
    part,
    windows, totals, gaps, written, arrivals, now, lock, pruner, pruneRuns, client,
    registry, groups, report, stored, reading, offset, changes, during

FR == INSTANCE FlowReads WITH Workloads <- Machines

AT == INSTANCE Attribution

flowVars ==
    <<windows, totals, gaps, written, arrivals, now, lock, pruner, pruneRuns, client>>
attributionVars == <<registry, groups, report, stored, reading, offset, changes, during>>
allVars ==
    <<part, vars, flowVars, attributionVars>>

SideInit ==
    /\ part \in Parts
    /\ Init
    /\ FR!FlowReadsInit
    /\ part # "flows" => arrivals = CHOOSE a \in Arrivals : TRUE
    /\ AT!AttributionInit
    /\ part # "attribution" => offset = CHOOSE o \in ClockOffsets : TRUE

SideNext ==
    /\ UNCHANGED part
    /\ \/ part = "delta" /\ Next
          /\ UNCHANGED <<flowVars, attributionVars>>
       \/ part = "flows" /\ FR!FlowReadsNext
          /\ UNCHANGED <<vars, attributionVars>>
       \/ part = "attribution" /\ AT!AttributionNext
          /\ UNCHANGED <<vars, flowVars>>

SideSpec == SideInit /\ [][SideNext]_allVars

\* Rules, rule bodies and peers are interchangeable: nothing chooses among them.
Symmetry == Permutations(RuleIds) \union Permutations(Specs) \union Permutations(Peers)

-----------------------------------------------------------------------------
(* Flow evidence.                                                          *)

FlowRec(kind, key, svc, dec, rule, n, at) ==
  [kind |-> kind, key |-> key, lbl |-> at, svc |-> svc, dir |-> 1, dec |-> dec,
   rule |-> rule, n |-> n, first |-> at, last |-> at + 1]

FlowWindow(w, start, records, g) == [w |-> w, start |-> start, records |-> records, gaps |-> g]

GapOf(from, to) == [from |-> from, to |-> to]

MCLabelOf == [w \in {1, 2} |-> w]

MCArrivals ==
  {<<FlowWindow(1, 1, <<FlowRec(1, 2, 1, 1, 5, 2, 10), FlowRec(1, 2, 1, 1, 6, 1, 11)>>, <<GapOf(1, 2)>>),
     FlowWindow(2, 1, <<FlowRec(1, 1, 1, 2, 0, 3, 10)>>, <<>>),
     FlowWindow(1, 2, <<FlowRec(3, 7, 2, 2, 0, 1, 20), FlowRec(1, 2, 1, 1, 5, 4, 20)>>, <<GapOf(2, 2), GapOf(1, 2)>>)>>,
   <<FlowWindow(1, 2, <<FlowRec(1, 2, 1, 1, 5, 2, 20), FlowRec(2, 4, 1, 1, 5, 2, 21)>>, <<GapOf(1, 3)>>),
     FlowWindow(1, 1, <<FlowRec(1, 2, 1, 1, 5, 1, 12), FlowRec(2, 4, 2, 1, 6, 1, 10)>>, <<GapOf(0, 1)>>)>>}

ListingOf(w, from, to, dec, limit) ==
  [w |-> w, from |-> from, to |-> to, dec |-> dec, dir |-> 0, peer |-> 0, svc |-> 0,
   limit |-> limit]

MCListings == {ListingOf(1, 1, 4, 0, 1), ListingOf(1, 1, 4, 0, 0), ListingOf(1, 0, 0, 0, 1), ListingOf(1, 1, 4, 1, 2),
               ListingOf(3, 1, 4, 0, 1), ListingOf(1, 3, 2, 0, 1)}

FullPage == {ListingOf(1, 1, 4, 0, MaxPageLimit)}

RollupOf(by, w, selector, either, dec, svc, recent, limit) ==
  [groupBy |-> by, w |-> w, selector |-> selector, either |-> either, from |-> 1,
   to |-> 4, dec |-> dec, dir |-> 0, svc |-> svc, recent |-> recent, limit |-> limit]

Groupings == {"rule", "rule,peer", "src,dst", "dst,service", "peer,service"}

MCRollups ==
  {RollupOf(by, 0, {}, FALSE, 0, 0, FALSE, 0) : by \in Groupings} \cup
  {RollupOf(by, 1, {}, TRUE, 0, 0, TRUE, 1) : by \in {"rule", "src,dst"}} \cup
  {RollupOf("rule", 1, {2}, FALSE, 0, 0, FALSE, 0), RollupOf("rule", 0, {9}, TRUE, 0, 0, FALSE, 9),
   RollupOf("src,dst", 0, {2}, TRUE, 0, 1, FALSE, 0), RollupOf("peer,service", 1, {1, 2}, FALSE, 1, 0, TRUE, 2),
   RollupOf("rule", 3, {}, FALSE, 0, 0, FALSE, 0)}

GapReadOf(w, selector, from, to, limit) ==
  [w |-> w, selector |-> selector, from |-> from, to |-> to, limit |-> limit]

MCGapReads == {GapReadOf(0, {}, 2, 3, 0), GapReadOf(1, {}, 1, 2, 1), GapReadOf(0, {2}, 1, 4, 0), GapReadOf(0, {9}, 1, 4, 0),
               GapReadOf(0, {}, 1, 4, 1), GapReadOf(1, {1}, 0, 0, 2)}

(* Attribution.                                                            *)

NoStamp == -1
RecordOf(a, ok, f, l) == [src |-> a, wellFormed |-> ok, first |-> f, last |-> l]
MCEnrolled == <<1, 2>>
MCNets == {[bits |-> 8, covers |-> {1, 2}], [bits |-> 16, covers |-> {2}]}
MCReports ==
  {[start |-> 1, end |-> 2, records |-> <<RecordOf(1, TRUE, NoStamp, NoStamp), RecordOf(2, TRUE, 3, NoStamp), RecordOf(2, TRUE, 1, 2)>>],
   [start |-> 2, end |-> 1, records |-> <<RecordOf(1, TRUE, NoStamp, NoStamp)>>],
   [start |-> 1, end |-> 2, records |-> <<RecordOf(2, FALSE, NoStamp, NoStamp)>>]}
MCClockOffsets == {-5, 1, 5}

-----------------------------------------------------------------------------

\* Flow reads: a client is served what is stored.
ServedIsStored == part = "flows" => FR!ServedIsStored

\* Flow reads: the totals count every record ever written once.
TotalsAreCumulative == part = "flows" => FR!TotalsAreCumulative

\* Flow reads: after the page without a cursor there is nothing more.
LastPageIsLast == [][FR!EndsOnTheLast]_flowVars

\* Ingest: traffic is attributed to the workload that held its address.
AttributedRightly == part = "attribution" => AT!AttributedRightly
=============================================================================
