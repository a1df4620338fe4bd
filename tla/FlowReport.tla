------------------------------ MODULE FlowReport ------------------------------
(***************************************************************************)
(* Flow evidence from the aggregator of one agent to the store of the      *)
(* control plane: the open window (collect/collect.go, collector.go), the  *)
(* record of losses (EvidenceGaps), the bounded buffer (collect/buffer.go),*)
(* the reporter and its retries (collect/reporter.go), the ReportFlows     *)
(* handler (gateway/flows.go), ingest with the silence it derives          *)
(* (ingest/service.go) and the write of a window (flowstore/postgres.go).  *)
(*                                                                         *)
(* An observation is a key and the instant it was made; a record is a key  *)
(* with the instants folded into it, so its connection count is their      *)
(* number and its first and last seen their ends.  One tick of the clock   *)
(* is one flow window, and the collector reads a window's end as its tick  *)
(* begins: what is observed at that tick is observed after the end was     *)
(* read.                                                                   *)
(***************************************************************************)
EXTENDS EvidenceGaps

CONSTANTS
    MaxKeys,     \* WindowKeys: distinct keys one open window holds
    Capacity,    \* records the buffer holds
    BatchMax,    \* records one request carries
    FlowWindow,  \* the window length, in ticks
    SilenceWindows, \* windows a workload may be silent before evidence counts as lost
    Scenarios    \* what the environment does in a behaviour, and its bounds: the
                 \* keys and number of observations, the faults and their
                 \* number, and the last tick

VARIABLES
    clock,
    \* the agent process
    up, startedAt, lastExit,
    agg,         \* the open window: its start, records, and what it dropped
    endRead,     \* the end closeWindow has read for the open window, or none
    closed,      \* the window the collector closed and has not queued, or none
    pending, open, \* Gaps: the held gaps, and the open interval per source
    buffer,      \* Buffer: the queued windows, oldest first
    rpt,         \* the reporter: where it is, the window and gaps in hand
    \* the control plane
    serving,     \* the requests ReportFlows is ingesting
    beat,        \* the heartbeat on its way, with its process and uptime, or none
    receipt, proc, retired, \* workload columns: last report, process, retirement
    rows, gaps,  \* flow_windows as the observations it holds, and flow_gaps
    \* what happened, for the properties and the bounds
    made, late, gone, faults,
    env          \* the scenario of this behaviour

agentVars == <<up, startedAt, lastExit, agg, endRead, closed, pending, open, buffer, rpt>>
planeVars == <<serving, beat, receipt, proc, retired, rows, gaps>>
vars == <<clock, agentVars, planeVars, made, late, gone, faults, env>>

Window(start, end, recs) == [start |-> start, end |-> end, recs |-> recs]

\* The observations of a sequence of records.
ObsOf(recs) == UNION {{<<recs[i].key, t>> : t \in recs[i].at} : i \in DOMAIN recs}

NewAggregator(start) ==
    [start |-> start, recs |-> <<>>, dropped |-> 0, firstDrop |-> start]

\* Add: the record of a held key, or a new one while the window has room.
Add(a, key, at) ==
    IF key \in DOMAIN a.recs
    THEN [a EXCEPT !.recs[key] = @ \union {at}]
    ELSE IF Cardinality(DOMAIN a.recs) >= MaxKeys
    THEN [a EXCEPT !.firstDrop = IF a.dropped = 0 \/ at < @ THEN at ELSE @,
                   !.dropped = @ + 1]
    ELSE [a EXCEPT !.recs = [k \in DOMAIN @ \union {key} |-> IF k = key THEN {at} ELSE @[k]]]

\* close: the window, its records sorted by key, and the gap of what it dropped.
CloseAgg(a, end) ==
    Window(a.start, end,
           LET keys == SetToSortSeq(DOMAIN a.recs, <)
           IN [i \in DOMAIN keys |-> [key |-> keys[i], at |-> a.recs[keys[i]]]])

Overflowed(held, a, end) ==
    IF a.dropped = 0 THEN held
    ELSE add(held, Gap("window_overflow", None, a.firstDrop, end, a.dropped))

\* The windows or records that are left after the first n.
After(s, n) == SubSeq(s, n + 1, Len(s))

Records(windows) == FoldLeft(LAMBDA n, w : n + Len(w.recs), 0, windows)

\* trim: how many of the oldest windows go, and how much of the one that is left.
TrimWindows(windows) ==
    CHOOSE n \in 0..(Len(windows) - 1) :
        LET fits(m) == m = Len(windows) - 1 \/ Records(After(windows, m)) <= Capacity
        IN fits(n) /\ \A m \in 0..(n - 1) : ~fits(m)

Trim(windows) ==
    LET kept == After(windows, TrimWindows(windows))
        excess == Records(kept) - Capacity
    IN IF excess <= 0 THEN kept ELSE [kept EXCEPT ![1].recs = After(@, excess)]

\* Mutant: dropped windows are counted and not recorded as gaps.
MutOverflow(held, windows) == held

\* overflow: every window the trim dropped or cut is a gap over its bounds.
overflow(held, windows) ==
    LET n == TrimWindows(windows)
        excess == Records(After(windows, n)) - Capacity
        lost == [i \in 1..(IF excess > 0 THEN n + 1 ELSE n) |->
                    Gap("buffer_overflow", None, windows[i].start, windows[i].end,
                        IF i <= n THEN Len(windows[i].recs) ELSE excess)]
    IN FoldLeft(add, held, SelectSeq(lost, LAMBDA g : g.count > 0))

\* The open interval of an agent that has just started: none for any source.
NothingOpen == [s \in GapSources |-> NoGap]

Idle == [at |-> "idle", window |-> None, gaps |-> <<>>, sent |-> 0]

-----------------------------------------------------------------------------

Init ==
    /\ clock = 0
    /\ up = TRUE /\ startedAt = 0 /\ lastExit = -1
    /\ agg = NewAggregator(0) /\ endRead = None /\ closed = None
    /\ pending = <<>> /\ open = NothingOpen /\ buffer = <<>> /\ rpt = Idle
    /\ serving = {} /\ beat = None /\ receipt = None /\ proc = None /\ retired = FALSE
    /\ rows = {} /\ gaps = {}
    /\ made = {} /\ late = {} /\ gone = {} /\ faults = 0
    /\ env \in Scenarios

\* The collector closes and queues a window that is due before the next tick.
Tick ==
    /\ clock < env.maxTime
    /\ up => closed = None /\ clock < agg.start + FlowWindow
    /\ ~up => clock + 1 < env.maxTime
    /\ clock' = clock + 1
    /\ UNCHANGED <<agentVars, planeVars, made, late, gone, faults, env>>

\* One more fault of this sort may happen.  Heartbeats and retirements are bounded
\* with them.
Fault(f) == f \in env.faults /\ faults < env.maxFaults /\ faults' = faults + 1

\* The timer of the open window has fired.
Due == clock >= agg.start + FlowWindow \/ clock = env.maxTime

\* A source hands an observation to the aggregator.  One that comes after the end of
\* the window was read and before the window is closed still enters it.
Observe(key) ==
    /\ up /\ open["source"] = NoGap
    /\ Due => endRead # None
    /\ <<key, clock>> \notin made /\ Cardinality(made) < env.maxObs
    /\ agg' = Add(agg, key, clock)
    /\ made' = made \union {<<key, clock>>}
    /\ late' = IF endRead # None THEN late \union {<<key, clock>>} ELSE late
    /\ UNCHANGED <<clock, up, startedAt, lastExit, endRead, closed, pending, open, buffer, rpt,
                   planeVars, gone, faults, env>>

\* The kernel dropped events: the source opens a gap at the last event and gives up.
SourceOverruns ==
    /\ up /\ Fault("source") /\ open["source"] = NoGap
    /\ pending' = OpenHeld(pending, open, "source", "source_overrun", clock)
    /\ open' = OpenGap(open, "source", "source_overrun", clock)
    /\ UNCHANGED <<clock, up, startedAt, lastExit, agg, endRead, closed, buffer, rpt, planeVars,
                   made, late, gone, env>>

\* The log source reads on after an overrun: the gap is closed as it is recorded.
LogOverruns ==
    /\ up /\ Fault("log")
    /\ \E last \in startedAt..clock :
         pending' = add(pending, Gap("source_overrun", "nflog", last, clock, Unknown))
    /\ UNCHANGED <<clock, up, startedAt, lastExit, agg, endRead, closed, open, buffer, rpt, planeVars,
                   made, late, gone, env>>

\* restarter.run: a source that stopped opens its restart gap at the failure.
OpenRestart ==
    /\ pending' = OpenHeld(pending, open, "source", "source_restart", clock)
    /\ open' = OpenGap(open, "source", "source_restart", clock)
    /\ UNCHANGED <<clock, up, startedAt, lastExit, agg, endRead, closed, buffer, rpt, planeVars,
                   made, late, gone, env>>

SourceFails == up /\ open["source"] = NoGap /\ Fault("source") /\ OpenRestart

OverrunFails ==
    /\ up /\ open["source"] # NoGap /\ open["source"].kind = "source_overrun"
    /\ UNCHANGED faults /\ OpenRestart

\* A source that subscribes again closes its gap.
SourceSubscribes ==
    /\ up /\ open["source"] # NoGap
    /\ pending' = CloseHeld(pending, open, "source", clock)
    /\ open' = CloseGap(open, "source")
    /\ UNCHANGED <<clock, up, startedAt, lastExit, agg, endRead, closed, buffer, rpt, planeVars,
                   made, late, gone, faults, env>>

\* The presence watch finds the owned table gone, and later back.
TableRemoved ==
    /\ up /\ Fault("table") /\ open[None] = NoGap
    /\ pending' = OpenHeld(pending, open, None, "table_removed", clock)
    /\ open' = OpenGap(open, None, "table_removed", clock)
    /\ UNCHANGED <<clock, up, startedAt, lastExit, agg, endRead, closed, buffer, rpt, planeVars,
                   made, late, gone, env>>

TableRestored ==
    /\ up /\ open[None] # NoGap
    /\ pending' = CloseHeld(pending, open, None, clock)
    /\ open' = CloseGap(open, None)
    /\ UNCHANGED <<clock, up, startedAt, lastExit, agg, endRead, closed, buffer, rpt, planeVars,
                   made, late, gone, faults, env>>

\* closeWindow, when the timer fires: the end is read, and running losses are cut
\* there.
CloseWindow ==
    /\ up /\ closed = None /\ endRead = None /\ Due
    /\ endRead' = clock
    /\ pending' = CutHeld(pending, open, clock)
    /\ open' = CutGap(open, clock)
    /\ UNCHANGED <<clock, up, startedAt, lastExit, agg, closed, buffer, rpt, planeVars,
                   made, late, gone, faults, env>>

\* Close: the window ends at the instant that was read, and the next one opens there.
Close ==
    /\ up /\ endRead # None
    /\ closed' = CloseAgg(agg, endRead)
    /\ pending' = Overflowed(pending, agg, endRead)
    /\ agg' = NewAggregator(endRead)
    /\ endRead' = None
    /\ UNCHANGED <<clock, up, startedAt, lastExit, open, buffer, rpt, planeVars,
                   made, late, gone, faults, env>>

\* Mutant: an empty window is never queued, whatever gaps are held.
MutQueue ==
    /\ up /\ closed # None
    /\ closed' = None
    /\ LET queued == Append(buffer, closed)
       IN IF closed.recs # <<>>
          THEN buffer' = Trim(queued) /\ pending' = overflow(pending, queued)
          ELSE UNCHANGED <<buffer, pending>>
    /\ UNCHANGED <<clock, up, startedAt, lastExit, agg, endRead, open, rpt, planeVars,
                   made, late, gone, faults, env>>

\* Carry when the window is empty and gaps are held, and Push otherwise.
Queue ==
    /\ up /\ closed # None
    /\ closed' = None
    /\ LET queued == Append(buffer, closed)
       IN IF closed.recs # <<>>
          THEN buffer' = Trim(queued) /\ pending' = overflow(pending, queued)
          ELSE /\ buffer' = IF pending # <<>> /\ buffer = <<>> THEN queued ELSE buffer
               /\ UNCHANGED pending
    /\ UNCHANGED <<clock, up, startedAt, lastExit, agg, endRead, open, rpt, planeVars,
                   made, late, gone, faults, env>>

-----------------------------------------------------------------------------

\* Pop: the oldest window leaves the buffer.
Pop ==
    /\ up /\ rpt.at = "idle" /\ buffer # <<>>
    /\ rpt' = [Idle EXCEPT !.at = "popped", !.window = Head(buffer)]
    /\ buffer' = Tail(buffer)
    /\ UNCHANGED <<clock, up, startedAt, lastExit, agg, endRead, closed, pending, open, planeVars,
                   made, late, gone, faults, env>>

\* Take: the held gaps will ride this window.
Take ==
    /\ up /\ rpt.at = "popped"
    /\ rpt' = [rpt EXCEPT !.at = "sending", !.gaps = pending]
    /\ pending' = <<>>
    /\ UNCHANGED <<clock, up, startedAt, lastExit, agg, endRead, closed, open, buffer, planeVars,
                   made, late, gone, faults, env>>

\* Batches: the i-th request of the window in hand; the first carries the gaps.
Batch(i) ==
    LET recs == rpt.window.recs
    IN [start |-> rpt.window.start, process |-> startedAt,
        obs |-> ObsOf(SubSeq(recs, (i - 1) * BatchMax + 1,
                             IF i * BatchMax < Len(recs) THEN i * BatchMax ELSE Len(recs))),
        gaps |-> IF i = 1 THEN ToSet(rpt.gaps) ELSE {}]

Batches == IF rpt.window.recs = <<>> THEN 1 ELSE (Len(rpt.window.recs) + BatchMax - 1) \div BatchMax

\* A request goes out; the handler reads it when it is done with the last one, and
\* refuses the stream of a retired workload.
Send ==
    /\ up /\ rpt.at = "sending" /\ rpt.sent < Batches
    /\ ~retired
    /\ \A s \in serving : s.stream # "live"
    /\ rpt' = [rpt EXCEPT !.sent = @ + 1]
    /\ serving' = serving \union
         {[req |-> Batch(rpt.sent + 1), stream |-> "live", step |-> "receipt", received |-> clock]}
    /\ UNCHANGED <<clock, up, startedAt, lastExit, agg, endRead, closed, pending, open, buffer,
                   beat, receipt, proc, retired, rows, gaps, made, late, gone, faults, env>>

\* Every request is ingested and the stream is closed with the accepted count.
Answered ==
    /\ up /\ rpt.at = "sending" /\ rpt.sent = Batches
    /\ \A s \in serving : s.stream # "live"
    /\ rpt' = Idle
    /\ UNCHANGED <<clock, up, startedAt, lastExit, agg, endRead, closed, pending, open, buffer,
                   planeVars, made, late, gone, faults, env>>

\* A stream that ends leaves the request being ingested to itself.
Orphan(s) == {[r EXCEPT !.stream = "broken"] : r \in s}

\* The stream ends in an error: the gaps go back.
EndStream ==
    /\ up /\ rpt.at = "sending"
    /\ rpt' = [rpt EXCEPT !.at = "failed", !.gaps = <<>>]
    /\ pending' = Restore(pending, rpt.gaps)
    /\ serving' = Orphan(serving)
    /\ UNCHANGED <<clock, up, startedAt, lastExit, agg, endRead, closed, open, buffer,
                   beat, receipt, proc, retired, rows, gaps, made, late, gone, env>>

StreamFails == Fault("stream") /\ EndStream

\* The interceptor or the handler refuses a retired workload.
StreamRefused ==
    /\ retired /\ (\A s \in serving : s.stream # "live")
    /\ UNCHANGED faults /\ EndStream

\* Ingest finds the bounds missing or inverted, before anything of the window is
\* stored: reject drops the window and records its records as lost over its bounds.
WindowRefused(s) ==
    /\ s.step = "window" /\ s.stream = "live" /\ rpt.sent = 1 /\ Fault("reject")
    /\ serving' = serving \ {s}
    /\ rpt' = Idle
    /\ LET w == rpt.window
           held == Restore(pending, rpt.gaps)
       IN pending' = IF w.recs = <<>> THEN held
                     ELSE add(held, Gap("window_rejected", None, w.start, w.end, Len(w.recs)))
    /\ UNCHANGED <<clock, up, startedAt, lastExit, agg, endRead, closed, open, buffer,
                   beat, receipt, proc, retired, rows, gaps, made, late, gone, env>>

\* Requeue: the window goes back as the oldest, unless it is empty, and may be
\* trimmed away at once.
Requeue ==
    /\ up /\ rpt.at = "failed"
    /\ rpt' = Idle
    /\ LET queued == <<rpt.window>> \o buffer
       IN IF rpt.window.recs = <<>> THEN UNCHANGED <<buffer, pending>>
          ELSE buffer' = Trim(queued) /\ pending' = overflow(pending, queued)
    /\ UNCHANGED <<clock, up, startedAt, lastExit, agg, endRead, closed, open, planeVars,
                   made, late, gone, faults, env>>

-----------------------------------------------------------------------------
(* The control plane.                                                      *)

\* Mutant: a process that was running at the last receipt is taken to run still.
MutRanThrough(p, prev, at) == p # None /\ p.started <= prev

\* ranThrough: the process of the latest heartbeat ran from the last receipt until
\* within one flow window of this one.
ranThrough(p, prev, at) ==
    p # None /\ p.started <= prev /\ p.heartbeat >= at - FlowWindow

\* silent: the time since the last receipt is a silence that lost evidence.
silent(prev, p, at) ==
    /\ FlowWindow > 0 /\ prev # None
    /\ at - prev > SilenceWindows * FlowWindow
    /\ ~ranThrough(p, prev, at)

\* deriveSilence: from the last receipt to where evidence resumes; a window that
\* reaches back to the last receipt is evidence delivered late.
deriveSilence(prev, p, start, at) ==
    IF silent(prev, p, at) /\ start > prev
    THEN {Gap("agent_silent", None, prev, IF start < at THEN start ELSE at, Unknown)}
    ELSE {}

\* SilenceAtRetirement: the gap a report at that instant would have closed.
SilenceAtRetirement(prev, p, at) ==
    IF silent(prev, p, at) THEN {Gap("agent_silent", None, prev, at, Unknown)} ELSE {}

\* writeGaps: ON CONFLICT (kind, source, from, to) DO NOTHING.
writeGaps(stored, new) ==
    LET known(g) == \E h \in stored : Same(g, h) /\ g.from = h.from /\ g.to = h.to
    IN stored \union {g \in new : ~known(g)}

\* RecordFlowReport: the receipt moves, unless the workload is retired or a later
\* report was recorded.
Advances(at) == ~retired /\ (receipt = None \/ receipt < at)

\* recordReport and recordSilence: the receipt under the row lock, and the gap it
\* reveals in a write of its own.  A failure of either is logged and goes no further.
RecordReport(s) ==
    /\ s.step = "receipt"
    /\ serving' = (serving \ {s}) \union {[s EXCEPT !.step = "window"]}
    /\ \/ /\ receipt' = IF Advances(s.received) THEN s.received ELSE receipt
          /\ LET derived == IF Advances(s.received)
                            THEN deriveSilence(receipt, proc, s.req.start, s.received) ELSE {}
             IN \/ gaps' = writeGaps(gaps, derived) /\ UNCHANGED faults
                \/ derived # {} /\ Fault("database") /\ UNCHANGED gaps
       \/ Fault("database") /\ UNCHANGED <<receipt, gaps>>
    /\ UNCHANGED <<clock, agentVars, beat, proc, retired, rows, made, late, gone, env>>

\* WriteWindow: the gaps, the rows and the totals of one request in one transaction.
WriteWindow(s) ==
    /\ s.step = "window"
    /\ serving' = serving \ {s}
    /\ gaps' = writeGaps(gaps, s.req.gaps)
    /\ rows' = rows \union s.req.obs
    /\ UNCHANGED <<clock, agentVars, beat, receipt, proc, retired, made, late, gone, faults, env>>

\* The transaction fails: nothing of the request is stored and the stream ends.
WriteFails(s) ==
    /\ s.step = "window" /\ Fault("database")
    /\ serving' = serving \ {s}
    /\ \/ /\ s.stream = "live"
          /\ rpt' = [rpt EXCEPT !.at = "failed", !.gaps = <<>>]
          /\ pending' = Restore(pending, rpt.gaps)
       \/ s.stream # "live" /\ UNCHANGED <<rpt, pending>>
    /\ UNCHANGED <<clock, up, startedAt, lastExit, agg, endRead, closed, open, buffer,
                   beat, receipt, proc, retired, rows, gaps, made, late, gone, env>>

\* A heartbeat leaves with the uptime of its process.
SendHeartbeat ==
    /\ up /\ Fault("heartbeat")
    /\ beat' = [process |-> startedAt, uptime |-> clock - startedAt]
    /\ UNCHANGED <<clock, agentVars, serving, receipt, proc, retired, rows, gaps,
                   made, late, gone, env>>

\* RecordHeartbeat: the receipt of a heartbeat, and the start of its process reckoned
\* from there, unless the workload is retired.  The process may have ended meanwhile.
RecordHeartbeat ==
    /\ beat # None /\ beat' = None
    /\ proc' = IF retired THEN proc
               ELSE [started |-> clock - beat.uptime, heartbeat |-> clock,
                     outlived |-> ~up \/ startedAt # beat.process]
    /\ UNCHANGED <<clock, agentVars, serving, receipt, retired, rows, gaps,
                   made, late, gone, faults, env>>

\* Retire, as far as the evidence goes: the stamp and the silence it closes commit
\* together under the row lock the receipt takes.
Retire ==
    /\ ~retired /\ Fault("retire")
    /\ retired' = TRUE
    /\ gaps' = writeGaps(gaps, SilenceAtRetirement(receipt, proc, clock))
    /\ UNCHANGED <<clock, agentVars, serving, beat, receipt, proc, rows, made, late, gone, env>>

\* What the process holds in memory and has not delivered.
HeldObs ==
    UNION {ObsOf(buffer[i].recs) : i \in DOMAIN buffer}
      \union (IF closed = None THEN {} ELSE ObsOf(closed.recs))
      \union (IF rpt.window = None THEN {} ELSE ObsOf(rpt.window.recs))
      \union UNION {{<<k, t>> : t \in agg.recs[k]} : k \in DOMAIN agg.recs}

HeldGaps == ToSet(pending) \union ToSet(rpt.gaps)

\* The process ends, killed or stopped.  The window a stopping collector queues goes
\* with the buffer: the reporter's context has ended too.
Exit ==
    /\ up /\ Fault("exit") /\ clock + 1 < env.maxTime
    /\ up' = FALSE /\ lastExit' = clock
    /\ gone' = gone \union (made \ rows)
    /\ agg' = NewAggregator(clock) /\ endRead' = None /\ closed' = None
    /\ pending' = <<>> /\ open' = NothingOpen /\ buffer' = <<>> /\ rpt' = Idle
    /\ serving' = Orphan(serving)
    /\ UNCHANGED <<clock, startedAt, beat, receipt, proc, retired, rows, gaps, made, late, env>>

\* The next process starts, at least a tick later.
Start ==
    /\ ~up /\ clock > lastExit
    /\ up' = TRUE /\ startedAt' = clock
    /\ agg' = NewAggregator(clock)
    /\ UNCHANGED <<clock, lastExit, endRead, closed, pending, open, buffer, rpt, planeVars,
                   made, late, gone, faults, env>>

Collector == CloseWindow \/ Close \/ Queue
Reporter == Pop \/ Take \/ Send \/ Answered \/ StreamRefused \/ Requeue
Restarter == OverrunFails \/ SourceSubscribes
Ingest == \E s \in serving : RecordReport(s) \/ WriteWindow(s)

Next ==
    \/ Tick \/ \E key \in env.keys : Observe(key)
    \/ SourceOverruns \/ LogOverruns \/ OverrunFails \/ SourceFails \/ SourceSubscribes
    \/ TableRemoved \/ TableRestored
    \/ CloseWindow \/ Close \/ Queue
    \/ Pop \/ Take \/ Send \/ Answered \/ StreamFails \/ StreamRefused \/ Requeue
    \/ \E s \in serving : RecordReport(s) \/ WriteWindow(s) \/ WriteFails(s) \/ WindowRefused(s)
    \/ SendHeartbeat \/ RecordHeartbeat \/ Retire \/ Exit \/ Start

\* The loops of the agent and the handler keep running, the clock goes on, and a
\* supervisor starts the agent again.
FairSpec ==
    /\ Init /\ [][Next]_vars
    /\ WF_vars(Tick) /\ WF_vars(Start) /\ WF_vars(Restarter)
    /\ WF_vars(Collector) /\ WF_vars(Reporter) /\ WF_vars(Ingest)

-----------------------------------------------------------------------------

Covers(g, at) == g.from <= at /\ at < g.to

\* Collector, buffer and reporter: an observation the aggregator was given is stored,
\* in memory on its way, or inside an interval that is stored or held as a gap of
\* this agent, or will be when the open window closes, however windows overflow or
\* are refused, streams fail and gaps are merged to fit.  An observation that slipped
\* in after the end of its window was read has an interval that reaches the end.
\* Only the end of the process takes evidence that nothing states.
LossIsStated ==
    \A o \in made \ gone :
        \/ o \in rows \union HeldObs
        \/ \E g \in gaps \union HeldGaps : Covers(g, o[2]) \/ (o \in late /\ g.to = o[2])
        \/ agg.dropped > 0 /\ agg.firstDrop <= o[2]

\* deriveSilence: a loss is not taken for quiet.  A long silence is passed over only
\* when the process that sent the report was already running at the last receipt,
\* unless the latest heartbeat was received after the process that sent it had ended.
QuietIsNotAbsent ==
    \A s \in serving :
        s.step = "receipt" /\ Advances(s.received) /\ receipt # None
          /\ s.received - receipt > SilenceWindows * FlowWindow
          /\ ranThrough(proc, receipt, s.received)
        => s.req.process <= receipt \/ proc.outlived

\* Buffer and Carry: once the failures stop, every window and every gap of a running
\* agent leaves memory; a gap with no window to ride gets one.
EvidenceIsDelivered ==
    <>[](up /\ ~retired => HeldObs = {} /\ pending = <<>> /\ buffer = <<>> /\ rpt = Idle)

=============================================================================
