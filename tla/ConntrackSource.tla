-------------------------- MODULE ConntrackSource --------------------------
(***************************************************************************)
(* The connection-tracking flow source (internal/agent/collect/conntrack): *)
(* a subscription listens for NEW and DESTROY events, then dumps the table *)
(* on another socket, and counts every connection once, whichever of the   *)
(* two shows it first.  The kernel's socket buffer is bounded: what does   *)
(* not fit is dropped, the next receive reports the overrun, and the       *)
(* source subscribes again.                                                *)
(*                                                                         *)
(* A flow id stands for one connection.  The clock advances with every     *)
(* event of the kernel.                                                    *)
(***************************************************************************)
EXTENDS Integers, Sequences, FiniteSets

CONSTANTS
    Flows,        \* connections, as the kernel's flow ids
    WouldBlock,   \* those that carry the would-block mark
    Foreign,      \* those whose destination is not this host
    DumpMax,      \* entries processed, and connections tracked
    SocketRoom    \* events the kernel's socket buffer holds

VARIABLES
    ticks,
    tracked,    \* the kernel's connection table
    unborn,     \* connections still to open
    socket,     \* events in the socket buffer and on their way to the loop
    overrun,    \* the kernel dropped an event and has not reported it
    phase,      \* down, or listening
    dump,       \* the dump in flight: none, asked, or the entries it returned
    seen, closed, dumping, truncated, full,     \* sightings
    subscribed, \* when the subscription began
    last,       \* when the loop read its last event
    gapFrom,    \* when an open gap of this source starts; 0 when none is open
    counted,    \* history: how often this subscription counted a connection
    ended,      \* history: closes whose bytes were emitted in it
    missed,     \* history: connections of which it lost an event
    dropped     \* history: when the kernel dropped events of it

sightings == <<seen, closed, dumping, truncated, full>>
times == <<subscribed, last>>
kernelVars == <<ticks, tracked, unborn, socket, overrun, dropped, missed>>
ctHistory == <<counted, ended>>
ctVars == <<kernelVars, phase, dump, sightings, times, gapFrom, ctHistory>>

ConntrackInit ==
    /\ ticks = 1 /\ unborn = Flows /\ tracked = {}
    /\ socket = <<>> /\ overrun = FALSE
    /\ phase = "down" /\ dump = [state |-> "none"]
    /\ seen = {} /\ closed = {} /\ dumping = TRUE /\ truncated = FALSE /\ full = FALSE
    /\ subscribed = 0 /\ last = 0 /\ gapFrom = 0
    /\ counted = [f \in Flows |-> 0] /\ ended = {} /\ missed = {} /\ dropped = {}

-----------------------------------------------------------------------------
(* The kernel.                                                             *)

\* An event reaches a listening socket, or is dropped when it is full.
Event(type, f) ==
    /\ ticks' = ticks + 1
    /\ IF phase = "down" THEN UNCHANGED <<socket, overrun, dropped, missed>>
       ELSE IF Len(socket) < SocketRoom
       THEN socket' = Append(socket, [type |-> type, flow |-> f]) /\ UNCHANGED <<overrun, dropped, missed>>
       ELSE /\ overrun' = TRUE /\ dropped' = dropped \cup {ticks} /\ missed' = missed \cup {f}
            /\ UNCHANGED socket
    /\ UNCHANGED <<phase, dump, sightings, times, gapFrom, ctHistory>>

OpenConn(f) ==
    /\ f \in unborn
    /\ unborn' = unborn \ {f} /\ tracked' = tracked \cup {f}
    /\ Event("NEW", f)

CloseConn(f) ==
    /\ f \in tracked
    /\ tracked' = tracked \ {f} /\ UNCHANGED unborn
    /\ Event("DESTROY", f)

-----------------------------------------------------------------------------
(* The source.                                                             *)

\* subscribe: listen, close the gap of the last subscription, ask for the dump.
Subscribe ==
    /\ phase = "down"
    /\ phase' = "listening" /\ socket' = <<>> /\ overrun' = FALSE
    /\ dump' = [state |-> "asked"] /\ subscribed' = ticks /\ last' = ticks /\ gapFrom' = 0
    /\ seen' = {} /\ closed' = {} /\ dumping' = TRUE /\ truncated' = FALSE /\ full' = FALSE
    /\ counted' = [f \in Flows |-> 0] /\ ended' = {} /\ missed' = {} /\ dropped' = {}
    /\ UNCHANGED <<ticks, tracked, unborn>>

\* dumpTable, on a connection of its own.
DumpTable ==
    /\ dump.state = "asked"
    /\ dump' = [state |-> "read", entries |-> tracked]
    /\ UNCHANGED <<kernelVars, phase, sightings, times, gapFrom, ctHistory>>

\* Without the dump the connections that predate the subscription are unseen.
DumpFails ==
    /\ phase = "listening" /\ dump.state = "asked"
    /\ phase' = "down" /\ dump' = [state |-> "none"]
    /\ gapFrom' = IF gapFrom = 0 THEN subscribed ELSE gapFrom
    /\ UNCHANGED <<kernelVars, sightings, times, ctHistory>>

\* sight, for a set of connections in one order or another: past DumpMax they are
\* not tracked.
Sight(flows) ==
    \E kept \in SUBSET flows :
        /\ Cardinality(seen \cup kept) <= DumpMax
        /\ kept = flows \/ Cardinality(seen \cup kept) = DumpMax
        /\ seen' = seen \cup kept
        /\ full' = (full \/ kept # flows)

Inbound(flows) == flows \ Foreign

\* fold: the entries up to the cap that are inbound, not counted yet, not closed
\* since, and not counted by the log path.
Fold ==
    /\ phase = "listening" /\ dump.state = "read"
    /\ \E flows \in SUBSET dump.entries :
         /\ Cardinality(flows) = IF Cardinality(dump.entries) > DumpMax THEN DumpMax ELSE Cardinality(dump.entries)
         /\ LET new == Inbound(flows) \ (seen \cup closed \cup WouldBlock)
            IN  /\ Sight(new)
                /\ counted' = [f \in Flows |-> IF f \in new THEN counted[f] + 1 ELSE counted[f]]
         /\ truncated' = (flows # dump.entries)
    /\ dumping' = FALSE /\ closed' = {} /\ dump' = [state |-> "none"]
    /\ UNCHANGED <<kernelVars, phase, times, gapFrom, ended>>

NextEvent(type) ==
    /\ phase = "listening" /\ socket # <<>> /\ Head(socket).type = type
    /\ socket' = Tail(socket) /\ last' = ticks
    /\ UNCHANGED <<ticks, tracked, unborn, overrun, dropped, missed, phase, dump, dumping, truncated, subscribed, gapFrom>>

\* observe of a NEW event.
ObserveNew ==
    /\ NextEvent("NEW")
    /\ LET f == Head(socket).flow
       IN  IF f \in Foreign \cup WouldBlock \cup seen THEN UNCHANGED <<seen, full, counted>>
           ELSE Sight({f}) /\ counted' = [counted EXCEPT ![f] = @ + 1]
    /\ UNCHANGED <<closed, ended>>

\* Mutant: the close of a connection never sighted adds its bytes only.
MutObserveDestroy ==
    /\ NextEvent("DESTROY")
    /\ LET f == Head(socket).flow
       IN  IF f \in Foreign THEN UNCHANGED <<seen, closed, counted, ended>>
           ELSE /\ closed' = IF dumping THEN closed \cup {f} ELSE closed
                /\ seen' = seen \ {f}
                /\ UNCHANGED counted
                /\ ended' = ended \cup {f}
    /\ UNCHANGED full

\* observe of a DESTROY event: the bytes, and a connection found at its close.
ObserveDestroy ==
    /\ NextEvent("DESTROY")
    /\ LET f == Head(socket).flow
       IN  IF f \in Foreign THEN UNCHANGED <<seen, closed, counted, ended>>
           ELSE /\ closed' = IF dumping THEN closed \cup {f} ELSE closed
                /\ seen' = seen \ {f}
                /\ counted' = IF f \in WouldBlock \cup seen THEN counted
                              ELSE [counted EXCEPT ![f] = @ + 1]
                /\ ended' = ended \cup {f}
    /\ UNCHANGED full

\* The overrun is reported, possibly ahead of events read before it: the gap
\* opens at the last event the loop read, and the subscription is replaced.
Overrun ==
    /\ phase = "listening" /\ overrun
    /\ phase' = "down" /\ dump' = [state |-> "none"]
    /\ gapFrom' = IF gapFrom = 0 THEN last ELSE gapFrom
    /\ UNCHANGED <<kernelVars, sightings, times, ctHistory>>

ConntrackNext ==
    \/ \E f \in Flows : OpenConn(f) \/ CloseConn(f)
    \/ Subscribe \/ DumpTable \/ DumpFails \/ Fold
    \/ ObserveNew \/ ObserveDestroy \/ Overrun

ConntrackSpec == ConntrackInit /\ [][ConntrackNext]_ctVars

-----------------------------------------------------------------------------
\* "a NEW event or a dumped entry counts a connection", and "one in both is
\* counted once, whichever is read first": unless tracking had to stop or an
\* event of it was dropped, no connection is counted twice in a subscription.
CountedOnce ==
    phase = "listening" /\ ~full => \A f \in Flows \ missed : counted[f] <= 1

\* "Every connection the source observes is therefore counted, and its bytes
\* land on a record that has one": every close that added its bytes belongs to
\* a connection this subscription counted, and a subscription that has read its
\* dump and its events has counted every inbound connection there is, those a
\* truncated dump skipped excepted.
EverythingIsCounted ==
    phase = "listening" =>
        /\ \A f \in ended \ WouldBlock : counted[f] >= 1
        /\ ~dumping /\ socket = <<>> /\ ~truncated =>
              \A f \in tracked \ (Foreign \cup WouldBlock \cup missed) : counted[f] >= 1

\* A subscription counts every connection once.
CountedExactlyOnce == CountedOnce /\ EverythingIsCounted
=============================================================================
