---------------------------- MODULE MCAgentHost ----------------------------
(***************************************************************************)
(* The parts of an agent's host, and the authority that issues its         *)
(* credentials, which share no state, checked side by side: a behaviour is *)
(* one of the policy store, the mark allocation, the connection-tracking   *)
(* source, the owned table at work on packets, the renewal loop, the state *)
(* directory, or the certificate authority's directory, and leaves the     *)
(* others as they are.                                                     *)
(***************************************************************************)
EXTENDS EnforceStore, Integers, Sequences

CONSTANTS
    Parts, MarkRules, Limit, MarkFaults, MaxMarkApplies, Nil, Damaged, MaxTime, Flows,
    WouldBlock, Foreign, DumpMax, SocketRoom, TablePolicies, Packets, MarkOf, MarkBase,
    ForeignValues, MaxConns, MaxLogged, MaxTableApplies, Lifetime, Backdate, Jitter,
    RetryBase, RetryCap, ExpiredRetryCap, Grace, Skews, MaxAttempt, MaxEnrollments,
    MaxSerials, Procs, RootTTL, LeafTTL, CredentialGrace, Backdating, MaxKeys, MaxNow

VARIABLES
    part,
    marksFile, policyFile, alloc, mCurrent, mKernel, mConns, mPc, mNext, clone, reused,
    lost, mUnrestored, mApplies,
    ticks, tracked, unborn, socket, overrun, phase, dump, seen, closed, dumping, truncated,
    full, subscribed, last, gapFrom, counted, ended, missed, dropped,
    table, oNext, stored, conns, log, reports, oApplies,
    age, measured, skew, received, state, wait, attempt, failing, up, upFor, recorded,
    dir, proc, enrollments, issued, stale, saved,
    now, files, run, keys, leaves, torn

MA == INSTANCE MarkAllocator WITH
        RuleIds <- MarkRules, Faults <- MarkFaults, MaxApplies <- MaxMarkApplies,
        current <- mCurrent, kernel <- mKernel, conns <- mConns, pc <- mPc, next <- mNext,
        unrestored <- mUnrestored, applies <- mApplies

CS == INSTANCE ConntrackSource

OT == INSTANCE OwnedTable WITH
        MaxApplies <- MaxTableApplies, next <- oNext, applies <- oApplies

RN == INSTANCE Renewer

SD == INSTANCE StateDirectory

CA == INSTANCE Authority

markVars ==
    <<marksFile, policyFile, alloc, mCurrent, mKernel, mConns, mPc, mNext, clone, reused,
      lost, mUnrestored, mApplies>>
sourceVars ==
    <<ticks, tracked, unborn, socket, overrun, phase, dump, seen, closed, dumping,
      truncated, full, subscribed, last, gapFrom, counted, ended, missed, dropped>>
packetVars == <<table, oNext, stored, conns, log, reports, oApplies>>
renewerVars ==
    <<age, measured, skew, received, state, wait, attempt, failing, up, upFor, recorded>>
directoryVars == <<dir, proc, enrollments, issued, stale, saved>>
authorityVars == <<now, files, run, keys, leaves, torn>>
allVars ==
    <<part, vars, markVars, sourceVars, packetVars, renewerVars, directoryVars,
      authorityVars>>

SideInit ==
    /\ part \in Parts
    /\ Init
    /\ MA!Init
    /\ CS!ConntrackInit
    /\ OT!TableInit
    /\ RN!RenewerInit
    /\ part # "renewer" => age = Backdate /\ skew = 0
    /\ SD!DirectoryInit
    /\ CA!AuthorityInit

SideNext ==
    /\ UNCHANGED part
    /\ \/ part = "store" /\ Next
          /\ UNCHANGED <<markVars, sourceVars, packetVars, renewerVars, directoryVars,
                         authorityVars>>
       \/ part = "marks" /\ MA!Next
          /\ UNCHANGED <<vars, sourceVars, packetVars, renewerVars, directoryVars,
                         authorityVars>>
       \/ part = "conntrack" /\ CS!ConntrackNext
          /\ UNCHANGED <<vars, markVars, packetVars, renewerVars, directoryVars,
                         authorityVars>>
       \/ part = "packets" /\ OT!TableNext
          /\ UNCHANGED <<vars, markVars, sourceVars, renewerVars, directoryVars,
                         authorityVars>>
       \/ part = "renewer" /\ RN!RenewerNext
          /\ UNCHANGED <<vars, markVars, sourceVars, packetVars, directoryVars,
                         authorityVars>>
       \/ part = "directory" /\ SD!DirectoryNext
          /\ UNCHANGED <<vars, markVars, sourceVars, packetVars, renewerVars, authorityVars>>
       \/ part = "authority" /\ CA!AuthorityNext
          /\ UNCHANGED <<vars, markVars, sourceVars, packetVars, renewerVars, directoryVars>>

SideSpec == SideInit /\ [][SideNext]_allVars

-----------------------------------------------------------------------------
(* The policies and packets of the owned table, and the clock skews.       *)

A4 == [family |-> "ip", host |-> 1]
B4 == [family |-> "ip", host |-> 2]
A6 == [family |-> "ip6", host |-> 1]
R(i, proto, ports, peers) == [id |-> i, protocol |-> proto, ports |-> ports, peers |-> peers]
Web == R("r1/tcp", "tcp", {<<2, 3>>}, {A4, A6})
Web2 == R("r1/tcp", "tcp", {<<2, 3>>}, {B4, A6})
Any4 == R("r2/udp", "udp", {}, {B4})
Ping == R("r2/icmp", "icmp", {}, {A6})
Odd == R("r3/none", "none", {}, {A4, B4, A6})
MCPolicies ==
  {[mode |-> m, rules |-> rs] : m \in {"VISIBILITY", "SIMULATION", "ENFORCED"}, rs \in {<<Web, Odd>>, <<Web, Ping, Any4>>, <<Web2, Ping, Any4>>}}
MCMarks == [i \in {"r1/tcp", "r2/udp", "r2/icmp", "r3/none"} |->
             CASE i = "r1/tcp" -> 1 [] i = "r2/udp" -> 2 [] i = "r2/icmp" -> 3 [] i = "r3/none" -> 4]
Pk(c, lo, a, proto, port, t) ==
  [conn |-> c, lo |-> lo, from |-> a, protocol |-> proto, port |-> port, tracked |-> t]
MCPackets ==
  {Pk(1, FALSE, A4, "tcp", 3, TRUE), Pk(2, FALSE, B4, "tcp", 2, TRUE), Pk(3, FALSE, A6, "icmp", 0, FALSE),
   Pk(6, FALSE, A6, "tcp", 4, FALSE), Pk(7, FALSE, A4, "icmp", 0, TRUE), Pk(8, TRUE, A4, "tcp", 1, TRUE),
   Pk(4, FALSE, B4, "udp", 1, TRUE), Pk(5, FALSE, A6, "tcp", 2, FALSE)}

MCSkews == {-9, -1, 0, 3}

-----------------------------------------------------------------------------

\* Marks: no connection is reported under a rule that did not admit it.
NamesItsRule == part = "marks" => MA!NamesItsRule

\* conntrack: every connection a subscription can see is counted once.
CountedExactlyOnce == part = "conntrack" => CS!CountedExactlyOnce

\* Owned table: a packet meets the policy in its mode.
TableDecides == part = "packets" => OT!TableDecides

\* Owned table: mark and log tell what became of a packet.
EvidenceTellsWhy == part = "packets" => OT!EvidenceTellsWhy

\* Renewer: a credential is renewed in time or given up past its grace.
RenewsInTime == part = "renewer" => RN!RenewsInTime

\* State directory: the disk holds the newest credential whole.
DirectoryHolds == part = "directory" => SD!DirectoryHolds

\* Authority: the directory survives a kill at any write.
DirectorySurvives == part = "authority" => CA!DirectorySurvives
=============================================================================
