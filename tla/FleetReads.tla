----------------------------- MODULE FleetReads -----------------------------
(***************************************************************************)
(* The fleet list and the fleet counts (readmodel/workloads.go over        *)
(* store/readmodel.go), read while agents' messages move the very columns  *)
(* the list is ordered by (store/registry.go), and the in-memory double    *)
(* the read model's tests run on (readmodeltest.MemStore).                 *)
(*                                                                         *)
(* Instants are positive numbers, 0 is NULL.  A sync state and an owned-   *)
(* table state are their wire numbers.  Labels do not change here.         *)
(***************************************************************************)
EXTENDS Integers, Sequences, FiniteSets, FiniteSetsExt, Listing

CONSTANTS
  Members,          \* enrolled workloads, a set of positive numbers
  MemberLabel,      \* the label of each
  Fleets,           \* the fleets a behaviour may start from
  Visits,           \* fleet listings a client may page through
  DefaultWorkloadPageLimit, MaxWorkloadPageLimit,
  MaxInstant,       \* bound: the last instant of the clock
  MaxWrites         \* bound: messages recorded

VARIABLES
  fleet,            \* table workloads: per member, the columns read or written here
  instant,          \* the clock
  writes,           \* messages recorded so far
  visitor           \* the client paging through the list: what it asked, what it
                    \* was served, and (history) the members whose place moved since

fleetVars == <<fleet, instant, writes, visitor>>

SYNCED == 1
PENDING == 2
DEGRADED == 3
OFFLINE == 4
PRESENT == 1
ABSENT == 2

Active(row) == row.retired = 0

-----------------------------------------------------------------------------
(* The statements that record an agent's messages.                         *)

recordWorkloadHeartbeat(row, table) ==
  [row EXCEPT !.seen = instant,
              !.absentSince = CASE table = 0 -> row.absentSince
                                [] table = ABSENT /\ row.absentSince # 0 -> row.absentSince
                                [] table = ABSENT -> instant
                                [] OTHER -> 0,
              !.table = IF table = 0 THEN row.table ELSE table]

(* An apply that succeeded installed the owned table.                      *)
recordWorkloadApplied(row, state) ==
  [row EXCEPT !.sync = state, !.seen = instant,
              !.table = IF row.table = ABSENT THEN PRESENT ELSE row.table,
              !.absentSince = 0]

recordWorkloadApplyFailed(row) ==
  [row EXCEPT !.sync = DEGRADED, !.seen = instant]

setWorkloadSyncState(row, state) == [row EXCEPT !.sync = state, !.seen = instant]

(* The columns a member is filtered and ordered by.                        *)
Place(row) == <<row.retired, row.table, row.sync, row.seen, row.mode>>

Write(w, row) ==
  /\ writes < MaxWrites
  /\ writes' = writes + 1
  /\ fleet' = [fleet EXCEPT ![w] = row]
  /\ visitor' = IF Place(row) = Place(fleet[w]) THEN visitor
                ELSE [visitor EXCEPT !.moved = @ \cup {w}]
  /\ UNCHANGED instant

(* ownedTableState: a state the schema does not know is stored as unknown. *)
ownedTableState(reported) == IF reported \in {PRESENT, ABSENT} THEN reported ELSE 0

RecordHeartbeat(w) ==
  \E reported \in {PRESENT, ABSENT, 0, 3} :
    Active(fleet[w]) /\ Write(w, recordWorkloadHeartbeat(fleet[w], ownedTableState(reported)))

RecordApplied(w) ==
  \E state \in {SYNCED, PENDING} :
    Active(fleet[w]) /\ Write(w, recordWorkloadApplied(fleet[w], state))

RecordApplyFailed(w) ==
  Active(fleet[w]) /\ Write(w, recordWorkloadApplyFailed(fleet[w]))

(* The sync state is also recorded for a workload that has been retired.   *)
SetSyncState(w) ==
  \E state \in {SYNCED, PENDING, OFFLINE} :
    Write(w, setWorkloadSyncState(fleet[w], state))

retireWorkload(w) ==
  Active(fleet[w]) /\ Write(w, [fleet[w] EXCEPT !.retired = instant])

-----------------------------------------------------------------------------
(* The statements that read.                                               *)

syncRank(row) ==
  CASE ~Active(row)         -> 5
    [] row.table = ABSENT   -> 0
    [] row.sync = DEGRADED  -> 0
    [] row.sync = OFFLINE   -> 1
    [] row.sync = PENDING   -> 2
    [] row.sync = SYNCED    -> 3
    [] OTHER                -> 4

seenKey(row) == IF Active(row) THEN row.seen ELSE row.retired

(* ORDER BY sync_rank, seen_key DESC, id.                                  *)
Position(w) == <<syncRank(fleet[w]), 0 - seenKey(fleet[w]), w>>

Asked(w, q) ==
  /\ q.ids = {} \/ w \in q.ids
  /\ Accepts(q.mode, fleet[w].mode)
  /\ Accepts(q.sync, fleet[w].sync)
  /\ q.retired <=> ~Active(fleet[w])

listWorkloadPage(q, after, limit) ==
  LET rows == {w \in Members : Asked(w, q) /\ (after = <<>> \/ Lexically(after, Position(w)))}
  IN Limited(Ordered(rows, LAMBDA a, b : Lexically(Position(a), Position(b))), limit)

(* Rows of [sync, removed, retired, workloads]; no row for none.           *)
countWorkloadsByStatus ==
  LET status(w) == [sync |-> fleet[w].sync, removed |-> fleet[w].table = ABSENT,
                    retired |-> ~Active(fleet[w])]
  IN {[status |-> status(w),
       workloads |-> Cardinality({v \in Members : status(v) = status(w)})] : w \in Members}

-----------------------------------------------------------------------------
(* The read model.                                                         *)

ListWorkloadPage(q, after, limit) ==
  listWorkloadPage(q, after, IF limit <= 0 THEN DefaultWorkloadPageLimit ELSE limit)

(* A cursor names the read it belongs to; another read's is refused.       *)
InvalidCursor == <<"invalid">>

encodeWorkloadCursor(position) == <<"w1">> \o position

decodeWorkloadCursor(token) ==
  IF token = <<>> THEN <<>>
  ELSE IF Len(token) # 4 \/ token[1] # "w1" THEN InvalidCursor ELSE Tail(token)

Matching(selector) == {w \in Members : MemberLabel[w] \in selector}

(* Mutant: the cursor is the record read to learn whether there are more.  *)
MutListWorkloads(req, cursor) ==
  LET after == decodeWorkloadCursor(cursor)
      limit == IF req.limit <= 0 THEN DefaultWorkloadPageLimit
               ELSE Capped(req.limit, MaxWorkloadPageLimit)
      q == [ids |-> Matching(req.selector), mode |-> req.mode, sync |-> req.sync,
            retired |-> req.retired]
      records == ListWorkloadPage(q, after, limit + 1)
  IN IF after = InvalidCursor THEN [workloads |-> <<>>, next |-> InvalidCursor]
     ELSE IF req.selector # {} /\ q.ids = {} THEN [workloads |-> <<>>, next |-> <<>>]
     ELSE [workloads |-> Limited(records, limit),
           next |-> IF Len(records) > limit
                    THEN encodeWorkloadCursor(Position(records[limit + 1])) ELSE <<>>]

ListWorkloads(req, cursor) ==
  LET after == decodeWorkloadCursor(cursor)
      limit == IF req.limit <= 0 THEN DefaultWorkloadPageLimit
               ELSE Capped(req.limit, MaxWorkloadPageLimit)
      q == [ids |-> Matching(req.selector), mode |-> req.mode, sync |-> req.sync,
            retired |-> req.retired]
      records == ListWorkloadPage(q, after, limit + 1)
  IN IF after = InvalidCursor THEN [workloads |-> <<>>, next |-> InvalidCursor]
     ELSE IF req.selector # {} /\ q.ids = {} THEN [workloads |-> <<>>, next |-> <<>>]
     ELSE [workloads |-> Limited(records, limit),
           next |-> IF Len(records) > limit
                    THEN encodeWorkloadCursor(Position(records[limit])) ELSE <<>>]

CountWorkloads ==
  LET rows == countWorkloadsByStatus
      sum(S) == MapThenSumSet(LAMBDA c : c.workloads, S)
      active == {c \in rows : ~c.status.retired}
  IN [total |-> sum(active), retired |-> sum(rows \ active),
      removed |-> sum({c \in active : c.status.removed}),
      bySync |-> [s \in SYNCED..OFFLINE |->
                    sum({c \in active : c.status.sync = s /\ ~c.status.removed})]]

-----------------------------------------------------------------------------
(* readmodeltest.MemStore: the double keeps the workloads in a slice, here *)
(* the members in id order, and filters, sorts and cuts it in Go.          *)

SyncRank(sync, table) ==
  IF table = ABSENT THEN 0
  ELSE CASE sync = DEGRADED -> 0 [] sync = OFFLINE -> 1 [] sync = PENDING -> 2
         [] sync = SYNCED -> 3 [] OTHER -> 4

DoubleKeys(w) ==
  IF Active(fleet[w])
  THEN [rank |-> SyncRank(fleet[w].sync, fleet[w].table), seen |-> fleet[w].seen]
  ELSE [rank |-> 5, seen |-> fleet[w].retired]

DoubleSkips(w, q) ==
  \/ q.ids # {} /\ w \notin q.ids
  \/ q.mode # 0 /\ fleet[w].mode # q.mode
  \/ q.sync # 0 /\ fleet[w].sync # q.sync
  \/ ~Active(fleet[w]) # q.retired

DoubleListWorkloadPage(q, after, limit) ==
  LET follows(w) ==
        \/ after = <<>>
        \/ DoubleKeys(w).rank > after[1]
        \/ /\ DoubleKeys(w).rank = after[1]
           /\ \/ DoubleKeys(w).seen < 0 - after[2]
              \/ DoubleKeys(w).seen = 0 - after[2] /\ w > after[3]
      before(a, b) ==
        LET ka == DoubleKeys(a) kb == DoubleKeys(b)
        IN IF ka.rank # kb.rank THEN ka.rank < kb.rank
           ELSE IF ka.seen # kb.seen THEN ka.seen > kb.seen ELSE a < b
      out == Ordered({w \in Members : ~DoubleSkips(w, q) /\ follows(w)}, before)
  IN IF limit > 0 THEN Limited(out, limit) ELSE out

(* The double counts by walking the slice, adding to the row of the key.   *)
DoubleCountWorkloadsByStatus ==
  LET key(w) == [sync |-> fleet[w].sync, removed |-> fleet[w].table = ABSENT,
                 retired |-> ~Active(fleet[w])]
      add(rows, w) ==
        LET old == {c \in rows : c.status = key(w)}
        IN (rows \ old) \cup
             {[status |-> key(w),
               workloads |-> 1 + MapThenSumSet(LAMBDA c : c.workloads, old)]}
  IN FoldSet(LAMBDA w, rows : add(rows, w), {}, Members)

-----------------------------------------------------------------------------
(* A client that follows NextCursor to the end of the list, and the clock. *)

getWorkloads ==
  /\ visitor.at = "idle"
  /\ \E req \in Visits, cursor \in {<<>>, <<"f1", 0, 0, 0>>} :
       LET page == ListWorkloads(req, cursor)
       IN visitor' = [at |-> CASE page.next = InvalidCursor -> "refused"
                               [] page.next = <<>> -> "done" [] OTHER -> "paging",
                      req |-> req, cursor |-> page.next, served |-> page.workloads,
                      moved |-> {}]
  /\ UNCHANGED <<fleet, instant, writes>>

getWorkloadsAfter ==
  /\ visitor.at = "paging"
  /\ LET page == ListWorkloads(visitor.req, visitor.cursor)
     IN visitor' = [visitor EXCEPT !.at = IF page.next = <<>> THEN "done" ELSE "paging",
                                   !.cursor = page.next,
                                   !.served = @ \o page.workloads]
  /\ UNCHANGED <<fleet, instant, writes>>

InstantPasses ==
  /\ instant < MaxInstant
  /\ instant' = instant + 1
  /\ UNCHANGED <<fleet, writes, visitor>>

FleetReadsInit ==
  /\ fleet \in Fleets
  /\ instant = 2
  /\ writes = 0
  /\ visitor = [at |-> "idle", req |-> {}, cursor |-> <<>>, served |-> <<>>, moved |-> {}]

FleetReadsNext ==
  \/ \E w \in Members :
       \/ RecordHeartbeat(w) \/ RecordApplied(w) \/ RecordApplyFailed(w)
       \/ SetSyncState(w) \/ retireWorkload(w)
  \/ getWorkloads \/ getWorkloadsAfter
  \/ InstantPasses

-----------------------------------------------------------------------------

Served(w) == Cardinality({i \in 1..Len(visitor.served) : visitor.served[i] = w})

InVisit(w) ==
  /\ visitor.req.selector = {} \/ w \in Matching(visitor.req.selector)
  /\ Asked(w, [ids |-> {}, mode |-> visitor.req.mode, sync |-> visitor.req.sync,
               retired |-> visitor.req.retired])

(* ListWorkloads pages by keys that agents' messages change meanwhile.  A  *)
(* client that follows NextCursor to the end is served every workload of   *)
(* the listing whose place did not move exactly once, and no workload that *)
(* stayed outside the listing, whatever else was recorded between pages.   *)
UnmovedServedOnce ==
  visitor.at = "done" =>
    \A w \in Members \ visitor.moved : Served(w) = IF InVisit(w) THEN 1 ELSE 0

(* CountWorkloads and the list describe one fleet: an unfiltered traversal *)
(* nothing moved under serves as many workloads as the counts say, the     *)
(* removed and the degraded ones first.                                    *)
CountsAreTheList ==
  visitor.at = "done" /\ visitor.moved = {} /\
  visitor.req.selector = {} /\ visitor.req.mode = 0 /\ visitor.req.sync = 0 =>
    LET n == CountWorkloads
    IN IF visitor.req.retired THEN Len(visitor.served) = n.retired
       ELSE /\ Len(visitor.served) = n.total
            /\ n.total = n.removed + n.bySync[SYNCED] + n.bySync[PENDING]
                           + n.bySync[DEGRADED] + n.bySync[OFFLINE]
            /\ \A i \in 1..Len(visitor.served) :
                 LET row == fleet[visitor.served[i]]
                 IN i <= n.removed + n.bySync[DEGRADED] <=>
                      row.table = ABSENT \/ row.sync = DEGRADED

(* readmodeltest.MemStore returns what the Postgres statements return, in  *)
(* the same order, for every page a traversal can ask of the fleet and for *)
(* the counts, so a test on the double tells of the database.              *)
DoublesAgree ==
  /\ DoubleCountWorkloadsByStatus = countWorkloadsByStatus
  /\ \A req \in Visits, after \in {<<>>} \cup {Position(w) : w \in Members} :
       LET q == [ids |-> Matching(req.selector), mode |-> req.mode, sync |-> req.sync,
                 retired |-> req.retired]
       IN DoubleListWorkloadPage(q, after, 2) = listWorkloadPage(q, after, 2)

(* The list and the counts are the fleet: nothing that stays put is left   *)
(* out or shown twice, and the two agree.                                  *)
ListIsTheFleet == UnmovedServedOnce /\ CountsAreTheList
=============================================================================
