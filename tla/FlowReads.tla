----------------------------- MODULE FlowReads -----------------------------
(***************************************************************************)
(* The flow store and the reads over it: flowstore.Postgres, the retention *)
(* runner of every replica, and the flow half of readmodel.Reader.         *)
(*                                                                         *)
(* Instants, addresses, identifiers, rules and labels are numbers.  0 is   *)
(* the zero value the code gives them: no rule, any verdict, any service,  *)
(* an instant not given.  A window covers one unit of time.  The one       *)
(* counter n stands for both of a record's counters.                       *)
(***************************************************************************)
EXTENDS Integers, Sequences, FiniteSets, FiniteSetsExt, Listing

CONSTANTS
  Workloads,        \* registered workloads, a set of positive numbers
  LabelOf,          \* the registry's current label of each workload
  Replicas,         \* control plane processes, each with a retention runner
  Arrivals,         \* windows that will be written, in this order
  Listings,         \* flow listings a client may page through
  Rollups,          \* grouped rollups a client may ask for
  GapReads,         \* gap reads a client may ask for
  Retention,        \* Retention.horizon
  DefaultRange,     \* readmodel.DefaultRange
  DefaultPageLimit, MaxPageLimit,
  DefaultGroupLimit, MaxGroupLimit,
  DefaultGapLimit, MaxGapLimit,
  PruneBatch,       \* flowstore.pruneBatch
  MaxNow,           \* bound: the last instant of the clock
  MaxPruneRuns      \* bound: retention runs, over all replicas

VARIABLES
  windows,          \* table flow_windows
  totals,           \* table flow_totals, one row per totals key
  gaps,             \* table flow_gaps
  written,          \* history: every record ever written, with its row id
  arrivals,         \* windows still to come
  now,              \* the clock all processes share
  lock,             \* the retention advisory lock: a replica, or 0
  pruner,           \* per replica: [at, horizon, from]
  pruneRuns,        \* retention runs started
  client            \* the client paging through a listing

flowVars == <<windows, totals, gaps, written, arrivals, now, lock, pruner,
          pruneRuns, client>>

Connections(rows) == MapThenSumSet(LAMBDA r : r.n, rows)

-----------------------------------------------------------------------------
(* Writing a window.                                                       *)

Key(r) == <<r.kind, r.key, r.svc, r.dir, r.dec>>

lessKey(a, b) == Lexically(a, b)

(* Mutant: a record whose key was already seen is dropped.                 *)
MutAggregateTotals(records) ==
  LET keys == {Key(records[i]) : i \in 1..Len(records)}
      first(k) == CHOOSE i \in 1..Len(records) :
                     /\ Key(records[i]) = k
                     /\ \A j \in 1..(i - 1) : Key(records[j]) # k
  IN Ordered({records[first(k)] : k \in keys},
             LAMBDA a, b : lessKey(Key(a), Key(b)))

AggregateTotals(records) ==
  LET at(k) == {i \in 1..Len(records) : Key(records[i]) = k}
      latest(k) == CHOOSE i \in at(k) : \A j \in at(k) :
                      \/ records[j].last < records[i].last
                      \/ records[j].last = records[i].last /\ j <= i
      merged(k) ==
        [records[latest(k)] EXCEPT
           !.n = MapThenSumSet(LAMBDA i : records[i].n, at(k)),
           !.first = Least({records[i].first : i \in at(k)})]
  IN Ordered({merged(Key(records[i])) : i \in 1..Len(records)},
             LAMBDA a, b : lessKey(Key(a), Key(b)))

upsertFlowTotal(table, w, r) ==
  LET k == <<w>> \o Key(r)
      old == {t \in table : t.key = k}
      fresh == [key |-> k, lbl |-> r.lbl, rule |-> r.rule, first |-> r.first,
                last |-> r.last, n |-> r.n, windowCount |-> 1]
  IN IF old = {}
     THEN table \cup {fresh}
     ELSE LET t == CHOOSE t \in old : TRUE
          IN (table \ old) \cup
               {[fresh EXCEPT !.first = Least({t.first, r.first}),
                              !.last = Greatest({t.last, r.last}),
                              !.n = t.n + r.n,
                              !.windowCount = t.windowCount + 1]}

(* The table of gaps is kept in insertion order, which is the order of     *)
(* its ids; an interval repeated exactly is stored once.                   *)
insertFlowGap(table, g) ==
  IF \E i \in 1..Len(table) : table[i] = g THEN table ELSE Append(table, g)

writeGaps(w) ==
  LET insert[i \in 0..Len(w.gaps)] ==
        IF i = 0 THEN gaps
        ELSE insertFlowGap(insert[i - 1], [w |-> w.w, from |-> w.gaps[i].from,
                                           to |-> w.gaps[i].to])
  IN insert[Len(w.gaps)]

NextId == Cardinality(written) + 1

insertFlowWindows(w) ==
  {[id |-> NextId + i - 1, w |-> w.w, start |-> w.start,
    kind |-> w.records[i].kind, key |-> w.records[i].key,
    lbl |-> w.records[i].lbl, svc |-> w.records[i].svc,
    dir |-> w.records[i].dir, dec |-> w.records[i].dec,
    rule |-> w.records[i].rule, n |-> w.records[i].n,
    first |-> w.records[i].first, last |-> w.records[i].last]
     : i \in 1..Len(w.records)}

upsertFlowTotals(w) ==
  LET folded == AggregateTotals(w.records)
      upsert[i \in 0..Len(folded)] ==
        IF i = 0 THEN totals
        ELSE upsertFlowTotal(upsert[i - 1], w.w, folded[i])
  IN upsert[Len(folded)]

(* One transaction: the gaps, the rows, the totals, or nothing.            *)
WriteWindow ==
  /\ arrivals # <<>>
  /\ LET w == Head(arrivals)
     IN /\ gaps' = writeGaps(w)
        /\ windows' = windows \cup insertFlowWindows(w)
        /\ written' = written \cup insertFlowWindows(w)
        /\ totals' = upsertFlowTotals(w)
  /\ arrivals' = Tail(arrivals)
  /\ UNCHANGED <<now, lock, pruner, pruneRuns, client>>

(* The window never reaches the store, or its transaction rolls back.      *)
WriteWindowFails ==
  /\ arrivals # <<>>
  /\ arrivals' = Tail(arrivals)
  /\ UNCHANGED <<windows, totals, gaps, written, now, lock, pruner, pruneRuns,
                 client>>

-----------------------------------------------------------------------------
(* Retention: bounded batches, each its own transaction under the lock.    *)

RunOnce(r) ==
  /\ pruner[r].at = "idle"
  /\ pruneRuns < MaxPruneRuns
  /\ pruneRuns' = pruneRuns + 1
  /\ pruner' = [pruner EXCEPT ![r] = [at |-> "batch", horizon |-> now - Retention]]
  /\ UNCHANGED <<windows, totals, gaps, written, arrivals, now, lock, client>>

(* tryAcquireRetentionLock: a run that finds the lock held ends.           *)
tryAcquireRetentionLock(r) ==
  /\ pruner[r].at = "batch"
  /\ lock' = IF lock = 0 THEN r ELSE lock
  /\ pruner' = [pruner EXCEPT ![r].at = IF lock = 0 THEN "delete" ELSE "idle"]
  /\ UNCHANGED <<windows, totals, gaps, written, arrivals, now, pruneRuns, client>>

(* One of the batches of the oldest windows the statement may delete: the  *)
(* order among windows of one start is not determined.                     *)
deleteFlowWindowsBefore(batch, horizon) ==
  LET old == {r \in windows : r.start < horizon}
  IN /\ batch \subseteq old
     /\ Cardinality(batch) = Capped(Cardinality(old), PruneBatch)
     /\ \A r \in batch, o \in old \ batch : r.start <= o.start

deleteFlowGapsBefore(batch, horizon) ==
  LET old == {i \in 1..Len(gaps) : gaps[i].to < horizon}
  IN /\ batch \subseteq old
     /\ Cardinality(batch) = Capped(Cardinality(old), PruneBatch)
     /\ \A i \in batch, j \in old \ batch : gaps[i].to <= gaps[j].to

Dropping(seq, positions) ==
  LET kept == (1..Len(seq)) \ positions
      at == Ordered(kept, LAMBDA i, j : i < j)
  IN [i \in 1..Cardinality(kept) |-> seq[at[i]]]

(* PruneWindows goes on while either table fills its batch.                *)
PrunedAll(deletedWindows, deletedGaps) ==
  deletedWindows < PruneBatch /\ deletedGaps < PruneBatch

pruneBatch(r) ==
  /\ pruner[r].at = "delete"
  /\ lock' = 0
  /\ \E batch \in {b \in SUBSET windows : deleteFlowWindowsBefore(b, pruner[r].horizon)},
        g \in {b \in SUBSET (1..Len(gaps)) : deleteFlowGapsBefore(b, pruner[r].horizon)} :
       /\ windows' = windows \ batch
       /\ gaps' = Dropping(gaps, g)
       /\ pruner' = [pruner EXCEPT ![r].at =
                       IF PrunedAll(Cardinality(batch), Cardinality(g))
                       THEN "idle" ELSE "batch"]
  /\ UNCHANGED <<totals, written, arrivals, now, pruneRuns, client>>

(* A statement of the batch fails: the transaction and the run end.        *)
PruneFails(r) ==
  /\ pruner[r].at \in {"batch", "delete"}
  /\ lock' = IF lock = r THEN 0 ELSE lock
  /\ pruner' = [pruner EXCEPT ![r].at = "idle"]
  /\ UNCHANGED <<windows, totals, gaps, written, arrivals, now, pruneRuns, client>>

-----------------------------------------------------------------------------
(* The reads.                                                              *)

resolveRange(from, to) ==
  LET until == IF to = 0 THEN now ELSE to
      since == IF from = 0 THEN until - DefaultRange ELSE from
  IN [ok |-> until > since, from |-> since, to |-> until]

MatchWorkloads(selector) == {w \in Workloads : LabelOf[w] \in selector}

(* The workloads a read covers; ok is FALSE for an unknown workload.       *)
scope(workload, selector) ==
  [ok |-> workload = 0 \/ workload \in Workloads,
   scoped |-> workload # 0 \/ selector # {},
   ids |-> IF selector = {} THEN IF workload = 0 THEN {} ELSE {workload}
           ELSE {w \in MatchWorkloads(selector) : workload = 0 \/ w = workload}]

InRange(row, range) == range.from <= row.start /\ row.start < range.to

(* Windows of one workload, newest first; before is <<>> or the position   *)
(* <<start, id>> the page continues after.                                 *)
Newer(a, b) == Lexically(<<b.start, b.id>>, <<a.start, a.id>>)

(* Mutant: the position is compared by the window's start alone.           *)
MutAfter(row, before) == before = <<>> \/ row.start < before[1]

After(row, before) ==
  \/ before = <<>>
  \/ row.start < before[1]
  \/ row.start = before[1] /\ row.id < before[2]

Listed(row, q, range) ==
  /\ row.w = q.w
  /\ InRange(row, range)
  /\ Accepts(q.dec, row.dec)
  /\ Accepts(q.dir, row.dir)
  /\ Accepts(q.peer, row.key)
  /\ Accepts(q.svc, row.svc)

listFlowWindowPage(q, range, before, limit) ==
  Limited(Ordered({r \in windows : Listed(r, q, range) /\ After(r, before)}, Newer),
          limit)

boundedPageLimit(n) ==
  IF n <= 0 THEN DefaultPageLimit ELSE Capped(n, MaxPageLimit)

ListWindowPage(q, range, before, limit) ==
  listFlowWindowPage(q, range, before, boundedPageLimit(limit))

(* One row more than the page tells whether a next page exists.            *)
ListFlows(q, before) ==
  LET range == resolveRange(q.from, q.to)
      limit == IF q.limit <= 0 THEN DefaultPageLimit ELSE Capped(q.limit, MaxPageLimit)
      rows == ListWindowPage(q, range, before, limit + 1)
      more == Len(rows) > limit
      last == rows[limit]
  IN [ok |-> range.ok /\ q.w \in Workloads,
      flows |-> Limited(rows, limit),
      next |-> IF more THEN <<last.start, last.id>> ELSE <<>>]

(* The filter every grouped rollup shares.                                 *)
Selected(q) ==
  {r \in windows :
     /\ \/ q.ids = {}
        \/ r.w \in q.ids
        \/ q.either /\ r.kind = 1 /\ r.key \in q.ids
     /\ InRange(r, q.range)
     /\ Accepts(q.dec, r.dec)
     /\ Accepts(q.dir, r.dir)
     /\ Accepts(q.svc, r.svc)}

Heavier(recent, a, b) ==
  \/ recent /\ a.last > b.last
  \/ /\ recent => a.last = b.last
     /\ a.n > b.n \/ (a.n = b.n /\ Lexically(a.key, b.key))

(* GROUP BY keyOf over the selected windows: the heaviest or most recent   *)
(* groups up to the limit, each row carrying the totals over all groups.   *)
GroupedRows(q, keyOf(_)) ==
  LET rows == Selected(q)
      group(k, of) ==
        [key |-> k, flows |-> Cardinality(of), n |-> Connections(of),
         workloads |-> Cardinality({r.w : r \in of}),
         first |-> Least({r.first : r \in of}),
         last |-> Greatest({r.last : r \in of})]
      groups == {group(k, {r \in rows : keyOf(r) = k}) : k \in {keyOf(r) : r \in rows}}
      all == [from |-> Least({r.start : r \in rows}),
              to |-> Greatest({r.start + 1 : r \in rows}),
              groupCount |-> Cardinality(groups),
              flows |-> Cardinality(rows), n |-> Connections(rows)]
      top == Limited(Ordered(groups, LAMBDA a, b : Heavier(q.recent, a, b)), q.limit)
  IN [i \in 1..Len(top) |-> [group |-> top[i], all |-> all]]

rollupFlowsByRule(q) == GroupedRows(q, LAMBDA r : <<r.rule>>)

rollupFlowsByRulePeer(q) == GroupedRows(q, LAMBDA r : <<r.rule, r.kind, r.key>>)

rollupFlowsBySrcDst(q) == GroupedRows(q, LAMBDA r : <<r.kind, r.key, r.w>>)

rollupFlowsByDstService(q) == GroupedRows(q, LAMBDA r : <<r.w, r.svc>>)

rollupFlowsByPeerService(q) == GroupedRows(q, LAMBDA r : <<r.kind, r.key, r.svc>>)

(* The command line's rollup, one row per peer, service and decision.      *)
rollupFlowWindows(ids, range, dec) ==
  LET rows == {r \in windows : r.w \in ids /\ InRange(r, range) /\ Accepts(dec, r.dec)}
      keyOf(r) == <<r.kind, r.key, r.svc, r.dec>>
      line(k, of) == [key |-> k, n |-> Connections(of), workloads |-> Cardinality({r.w : r \in of})]
  IN Ordered({line(k, {r \in rows : keyOf(r) = k}) : k \in {keyOf(r) : r \in rows}},
             LAMBDA a, b : Heavier(FALSE, a, b))

boundedGroupLimit(n) ==
  IF n <= 0 THEN DefaultGroupLimit ELSE Capped(n, MaxGroupLimit)

NoGroups == [groups |-> <<>>, groupCount |-> 0, flows |-> 0, n |-> 0]

(* A statement's first row carries the totals.                             *)
FromRows(rows) ==
  IF rows = <<>> THEN NoGroups
  ELSE [groups |-> [i \in 1..Len(rows) |-> rows[i].group],
        groupCount |-> rows[1].all.groupCount,
        flows |-> rows[1].all.flows, n |-> rows[1].all.n]

(* The grouping picks the statement.                                       *)
RollupGroups(groupBy, q) ==
  LET bounded == [q EXCEPT !.limit = boundedGroupLimit(q.limit)]
  IN FromRows(CASE groupBy = "rule"         -> rollupFlowsByRule(bounded)
                [] groupBy = "rule,peer"    -> rollupFlowsByRulePeer(bounded)
                [] groupBy = "src,dst"      -> rollupFlowsBySrcDst(bounded)
                [] groupBy = "dst,service"  -> rollupFlowsByDstService(bounded)
                [] groupBy = "peer,service" -> rollupFlowsByPeerService(bounded))

GroupQuery(req, ids) ==
  [ids |-> ids, either |-> req.either, range |-> resolveRange(req.from, req.to),
   dec |-> req.dec, dir |-> req.dir, svc |-> req.svc, recent |-> req.recent,
   limit |-> req.limit]

(* An empty id list would mean every workload to the store.                *)
SeesNothing(s) == s.scoped /\ s.ids = {}

Rollup(req) ==
  LET s == scope(req.w, req.selector)
  IN [ok |-> s.ok /\ resolveRange(req.from, req.to).ok,
      result |-> IF SeesNothing(s) THEN NoGroups
                 ELSE RollupGroups(req.groupBy, GroupQuery(req, s.ids))]

Truncated(res) == res.groupCount > Len(res.groups)

(* listFlowGaps: an instantaneous gap is in the range its instant lies in. *)
Intersects(g, range) ==
  /\ g.from < range.to
  /\ g.to > range.from \/ (g.from = g.to /\ g.from >= range.from)

listFlowGaps(ids, range, limit) ==
  LET found == {i \in 1..Len(gaps) : (ids = {} \/ gaps[i].w \in ids)
                                       /\ Intersects(gaps[i], range)}
      newest(i, j) == \/ gaps[i].from > gaps[j].from
                      \/ gaps[i].from = gaps[j].from /\ i > j
      order == Limited(Ordered(found, newest), limit)
  IN [i \in 1..Len(order) |-> gaps[order[i]]]

Gaps(req) ==
  LET s == scope(req.w, req.selector)
      range == resolveRange(req.from, req.to)
      limit == Capped(IF req.limit <= 0 THEN DefaultGapLimit ELSE req.limit, MaxGapLimit)
      rows == listFlowGaps(s.ids, range, limit + 1)
  IN [ok |-> s.ok /\ range.ok,
      gaps |-> IF SeesNothing(s) THEN <<>> ELSE Limited(rows, limit),
      truncated |-> ~SeesNothing(s) /\ Len(rows) > limit]

-----------------------------------------------------------------------------
(* A client pages through one listing, a request per page.                 *)

(* ReadPage: the page after the cursor is served, and its cursor kept.     *)
ReadPage(q, before, served, seen) ==
  LET page == ListFlows(q, before)
  IN client' = [at |-> IF page.ok /\ page.next # <<>> THEN "paging" ELSE "done",
                q |-> q, cursor |-> page.next,
                served |-> IF page.ok THEN served \o page.flows ELSE served,
                seen |-> IF page.ok THEN seen ELSE {}]

getFlows ==
  /\ client.at = "idle"
  /\ \E q \in Listings :
       ReadPage(q, <<>>, <<>>,
                {r \in windows : Listed(r, q, resolveRange(q.from, q.to))})
  /\ UNCHANGED <<windows, totals, gaps, written, arrivals, now, lock, pruner,
                 pruneRuns>>

(* The next request repeats the query and hands the cursor back.           *)
getFlowsAfter ==
  /\ client.at = "paging"
  /\ ReadPage(client.q, client.cursor, client.served, client.seen)
  /\ UNCHANGED <<windows, totals, gaps, written, arrivals, now, lock, pruner,
                 pruneRuns>>

Tick ==
  /\ now < MaxNow
  /\ now' = now + 1
  /\ UNCHANGED <<windows, totals, gaps, written, arrivals, lock, pruner, pruneRuns,
                 client>>

FlowReadsInit ==
  /\ windows = {} /\ totals = {} /\ gaps = <<>> /\ written = {}
  /\ arrivals \in Arrivals
  /\ now = 1
  /\ lock = 0
  /\ pruner = [r \in Replicas |-> [at |-> "idle", horizon |-> 0]]
  /\ pruneRuns = 0
  /\ client = [at |-> "idle", q |-> 0, cursor |-> <<>>, served |-> <<>>, seen |-> {}]

FlowReadsNext ==
  \/ WriteWindow \/ WriteWindowFails
  \/ getFlows \/ getFlowsAfter
  \/ Tick
  \/ \E r \in Replicas :
       RunOnce(r) \/ tryAcquireRetentionLock(r) \/ pruneBatch(r) \/ PruneFails(r)

FlowReadsSpec == FlowReadsInit /\ [][FlowReadsNext]_flowVars

-----------------------------------------------------------------------------

(* A traversal of a listing serves no window twice and serves them newest  *)
(* first, however many windows land or are pruned between its pages; when  *)
(* it ends, every window that was in the listing at its first page and     *)
(* still is has been served.                                               *)
PagesPartition ==
  /\ \A i, j \in 1..Len(client.served) :
       i < j => Newer(client.served[i], client.served[j])
  /\ client.at = "done" =>
       \A r \in client.seen \cap windows :
         Listed(r, client.q, resolveRange(client.q.from, client.q.to))
           => \E i \in 1..Len(client.served) : client.served[i] = r

(* A page without a cursor is the last page: no window of the listing is   *)
(* beyond it ("NextCursor is empty on the last page").                     *)
EndsOnTheLast ==
  client'.at = "done" /\ client'.served # <<>> =>
    LET last == client'.served[Len(client'.served)]
    IN ~\E r \in windows :
          /\ Listed(r, client'.q, resolveRange(client'.q.from, client'.q.to))
          /\ After(r, <<last.start, last.id>>)

(* No step of a client that pages ends before the last page.              *)
LastPageIsLast == [][EndsOnTheLast]_client

(* The totals are cumulative: every totals row counts each record ever     *)
(* written under its key exactly once, with the span they were seen over,  *)
(* whatever retention has deleted, and no key is missing.                  *)
TotalsAreCumulative ==
  LET of(k) == {r \in written : <<r.w>> \o Key(r) = k}
  IN /\ {t.key : t \in totals} = {<<r.w>> \o Key(r) : r \in written}
     /\ \A t \in totals :
          /\ t.n = Connections(of(t.key))
          /\ t.first = Least({r.first : r \in of(t.key)})
          /\ t.last = Greatest({r.last : r \in of(t.key)})
          /\ \A u \in totals : u.key = t.key => u = t

(* Whatever the grouping, a rollup reports the same totals, and they count *)
(* each window in its scope once; unless it says it is truncated its       *)
(* groups add up to them.  Per peer and service, the command line's rows   *)
(* of each decision add up to the group.                                   *)
RollupsAgree ==
  LET addsUp(res, rows) ==
        /\ res.flows = Cardinality(rows) /\ res.n = Connections(rows)
        /\ ~Truncated(res) =>
             /\ res.flows = MapThenSumSet(LAMBDA i : res.groups[i].flows, 1..Len(res.groups))
             /\ res.n = MapThenSumSet(LAMBDA i : res.groups[i].n, 1..Len(res.groups))
      rowsOf(group, lines) ==
        MapThenSumSet(LAMBDA j : lines[j].n,
                      {j \in 1..Len(lines) : SubSeq(lines[j].key, 1, 3) = group.key})
      listedToo(groups, lines) ==
        \A i \in 1..Len(groups) : groups[i].n = rowsOf(groups[i], lines)
  IN \A req \in Rollups :
       LET q == GroupQuery(req, scope(req.w, req.selector).ids)
       IN /\ addsUp(RollupGroups(req.groupBy, q), Selected(q))
          /\ q.ids # {} /\ ~q.either /\ q.svc = 0 /\ q.dir = 0 =>
               listedToo(RollupGroups("peer,service", q).groups,
                         rollupFlowWindows(q.ids, q.range, q.dec))

(* A rollup or gap read given a workload or a selector counts exactly the  *)
(* windows and gaps of the workloads that satisfy both: a scope that       *)
(* matches no workload sees nothing, never everything.                     *)
ScopeIsHonoured ==
  /\ \A req \in Rollups :
       LET covered == {w \in Workloads : /\ req.w \in {0, w}
                                         /\ req.selector = {} \/ LabelOf[w] \in req.selector}
           range == resolveRange(req.from, req.to)
           res == Rollup(req)
       IN res.ok /\ (req.w # 0 \/ req.selector # {}) =>
            res.result.flows =
              Cardinality({r \in windows :
                /\ r.w \in covered \/ (req.either /\ r.kind = 1 /\ r.key \in covered)
                /\ InRange(r, range) /\ Accepts(req.dec, r.dec) /\ Accepts(req.dir, r.dir)
                /\ Accepts(req.svc, r.svc)})
  /\ \A req \in GapReads :
       LET res == Gaps(req)
       IN res.ok => \A i \in 1..Len(res.gaps) :
            /\ req.w \in {0, res.gaps[i].w}
            /\ req.selector = {} \/ LabelOf[res.gaps[i].w] \in req.selector

(* A gap read returns the gaps that share an instant with its half-open    *)
(* range, an instantaneous gap counting as its instant, newest first, and  *)
(* says so when it leaves any out.                                         *)
GapReadIsTheIntersection ==
  \A req \in GapReads :
    LET res == Gaps(req)
        range == resolveRange(req.from, req.to)
        instants(g) == IF g.from = g.to THEN {g.from} ELSE g.from..(g.to - 1)
        due == {i \in 1..Len(gaps) :
                  /\ instants(gaps[i]) \cap (range.from..(range.to - 1)) # {}
                  /\ req.w \in {0, gaps[i].w}
                  /\ req.selector = {} \/ LabelOf[gaps[i].w] \in req.selector}
    IN res.ok =>
         /\ \A i \in 1..Len(res.gaps) : \E j \in due : gaps[j] = res.gaps[i]
         /\ res.truncated <=> Cardinality(due) > Len(res.gaps)
         /\ \A i \in 2..Len(res.gaps) : res.gaps[i].from <= res.gaps[i - 1].from

(* A client is served what is stored: pages, rollups and gap reads each    *)
(* return the rows their filters select, all of them and once.             *)
ServedIsStored ==
  PagesPartition /\ RollupsAgree /\ ScopeIsHonoured /\ GapReadIsTheIntersection
=============================================================================
