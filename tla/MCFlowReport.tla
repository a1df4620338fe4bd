---------------------------- MODULE MCFlowReport ----------------------------
EXTENDS FlowReport, TLC

Scene(what, n, time, ks, obs) ==
    [faults |-> what, maxFaults |-> n, maxTime |-> time, keys |-> ks, maxObs |-> obs]

\* Windows and a buffer that overflow; windows that are refused; sources and the table
\* that fail, with streams that are retried; a database that fails; a process that
\* ends and is silent for a while, with heartbeats; and a retirement.
MCScenarios ==
    {Scene({"stream"}, 1, 1, {1, 2, 3}, 3),
     Scene({"reject", "stream"}, 2, 1, {1, 2}, 2),
     Scene({"source", "table", "stream"}, 1, 2, {1}, 1),
     Scene({"source", "log", "stream"}, 2, 2, {}, 0),
     Scene({"table", "stream"}, 2, 2, {}, 0),
     Scene({"database", "exit"}, 2, 3, {1}, 2),
     Scene({"exit", "heartbeat"}, 3, 3, {1}, 2),
     Scene({"heartbeat", "retire"}, 2, 3, {1}, 1)}

=============================================================================
