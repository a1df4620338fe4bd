----------------------------- MODULE OwnedTable -----------------------------
(***************************************************************************)
(* The table the agent installs and what the kernel makes of it            *)
(* (agent/enforce/nft/render.go), with the log of its terminal rule read   *)
(* later by the log source (agent/collect/nflog).  A rendering is a list   *)
(* of nft rules and the peer sets they name; packets walk it.  A           *)
(* connection mark is a number: the agent's region times MarkBase, and the *)
(* bits other software of the host uses below it.                          *)
(*                                                                         *)
(* A policy is [mode, rules], its rules in canonical order, each           *)
(* [id, protocol, ports, peers]; an address belongs to one family.  What   *)
(* the kernel does with a rule, a set and an untracked packet is external, *)
(* as the comments of render.go describe it.                               *)
(***************************************************************************)
EXTENDS Integers, Sequences, FiniteSets

CONSTANTS
  TablePolicies,    \* policies that may be applied
  Packets,          \* [conn, lo, family, from, protocol, port, tracked]
  MarkOf,           \* the allocation: rule id to region value
  MarkBase,         \* 2^MarkShift, scaled down: the region and the rest are as wide
  ForeignValues,    \* values other software gives its bits of a mark
  MaxLogged,        \* bound: log events waiting in the socket
  MaxConns,         \* bound: connections open at once
  MaxApplies        \* bound: applies of a run

VARIABLES
  table,            \* the rendering the kernel holds
  next,             \* the policy of the last Apply: what the kernel was given
  stored,           \* Store.current: the policy the store says is installed
  conns,            \* connection table: conn to [mark, foreign, reason]
  log,              \* logged packets not yet read: what became of each
  reports,          \* the log source's last observation, a set
  applies           \* applies so far

tableVars == <<table, next, stored, conns, log, reports, applies>>

WouldBlockIndex == MarkBase - 1

RuleMark(index) == index * MarkBase

RuleIndex(mark) == mark \div MarkBase

------------------------------------------------------------------------------
(* Rendering.                                                              *)

carriesSets(mode) == mode \in {"ENFORCED", "SIMULATION"}

(* The match of a rule for one family: ICMP is each family's own, and a    *)
(* protocol that cannot be rendered matches nothing.                       *)
l4Match(r, family) ==
  CASE r.protocol = "icmp" -> [l4 |-> IF family = "ip" THEN "icmp" ELSE "ipv6-icmp", ports |-> {}]
    [] r.protocol \in {"tcp", "udp"} -> [l4 |-> r.protocol, ports |-> r.ports]
    [] OTHER -> [l4 |-> "255", ports |-> {}]

splitPeers(r, family) == {a \in r.peers : a.family = family}

NoMatch == [family |-> "", set |-> <<>>, l4 |-> "", ports |-> {}]

(* An nft rule: what it matches, whether it logs, the region value it      *)
(* writes to the mark (0 for none), and its verdict.                       *)
Nft(kind, match, logs, mark, verdict) ==
  [kind |-> kind, match |-> match, logs |-> logs, mark |-> mark, verdict |-> verdict]

(* Two accepts for one family: the untracked one first, the marking one.   *)
writeAdmit(r, family) ==
  LET l4 == l4Match(r, family)
      match == [family |-> family, set |-> <<r.id, family>>, l4 |-> l4.l4, ports |-> l4.ports]
  IN  <<Nft("untracked", match, FALSE, 0, "accept"), Nft("peer", match, FALSE, MarkOf[r.id], "accept")>>

(* Mutant: the simulated terminal rule does not log.                       *)
MutTerminal(mode) ==
  IF mode = "ENFORCED" THEN Nft("any", NoMatch, TRUE, 0, "drop")
  ELSE Nft("any", NoMatch, FALSE, WouldBlockIndex, "accept")

(* What the policy did not permit: dropped, or marked and accepted.        *)
Terminal(mode) ==
  IF mode = "ENFORCED" THEN Nft("any", NoMatch, TRUE, 0, "drop")
  ELSE Nft("any", NoMatch, TRUE, WouldBlockIndex, "accept")

Admits(rules) ==
  LET flat[n \in 0..Len(rules)] ==
        IF n = 0 THEN <<>> ELSE flat[n - 1] \o writeAdmit(rules[n], "ip") \o writeAdmit(rules[n], "ip6")
  IN  flat[Len(rules)]

(* The whole table of a policy: its sets and its one chain.                *)
Render(policy) ==
  IF carriesSets(policy.mode)
  THEN [sets  |-> [k \in {<<r.id, f>> : r \in {policy.rules[i] : i \in DOMAIN policy.rules}, f \in {"ip", "ip6"}} |->
                     splitPeers(CHOOSE r \in {policy.rules[i] : i \in DOMAIN policy.rules} : r.id = k[1], k[2])],
        chain |-> <<Nft("lo", NoMatch, FALSE, 0, "accept"), Nft("established", NoMatch, FALSE, 0, "accept")>>
                    \o Admits(policy.rules) \o <<Terminal(policy.mode)>>]
  ELSE [sets |-> <<>>, chain |-> <<Nft("new", NoMatch, FALSE, 0, "accept")>>]

------------------------------------------------------------------------------
(* The kernel.                                                             *)

Established(p) == p.tracked /\ p.conn \in DOMAIN conns

InPorts(port, ports) == ports = {} \/ \E r \in ports : r[1] <= port /\ port <= r[2]

FamilyIcmp(p) == IF p.protocol = "icmp" /\ p.from.family = "ip6" THEN "ipv6-icmp" ELSE p.protocol

PeerHit(t, r, p) ==
  /\ r.match.family = p.from.family /\ p.from \in t.sets[r.match.set]
  /\ r.match.l4 = FamilyIcmp(p) /\ InPorts(p.port, r.match.ports)

Hits(t, r, p) ==
  CASE r.kind = "lo" -> p.lo
    [] r.kind = "established" -> Established(p)
    [] r.kind = "new" -> p.tracked /\ ~Established(p)
    [] r.kind = "untracked" -> ~p.tracked /\ PeerHit(t, r, p)
    [] r.kind = "peer" -> PeerHit(t, r, p)
    [] r.kind = "any" -> TRUE

(* A packet from rule i on.  A write of the mark of a packet that is not   *)
(* tracked ends the rule, after its log and before its verdict; the end of *)
(* the chain is its policy, accept.                                        *)
Walk(t, p) ==
  LET chain == t.chain
      from[i \in 1..(Len(chain) + 1)] ==
        IF i = Len(chain) + 1 THEN [verdict |-> "accept", logged |-> FALSE, mark |-> 0]
        ELSE IF ~Hits(t, chain[i], p) THEN from[i + 1]
        ELSE IF chain[i].mark # 0 /\ ~p.tracked THEN [from[i + 1] EXCEPT !.logged = @ \/ chain[i].logs]
        ELSE [verdict |-> chain[i].verdict, logged |-> chain[i].logs, mark |-> chain[i].mark]
  IN  from[1]

------------------------------------------------------------------------------
(* The store's readings.                                                   *)

(* A connection mark read by its region alone.                             *)
Classify(mark) ==
  LET named == {id \in DOMAIN MarkOf : MarkOf[id] = RuleIndex(mark)} IN
  CASE RuleIndex(mark) = WouldBlockIndex -> <<"WOULD_BLOCK", "">>
    [] RuleIndex(mark) # WouldBlockIndex /\ named # {} -> <<"ALLOWED", CHOOSE id \in named : TRUE>>
    [] OTHER -> <<"OBSERVED", "">>

(* Mutant: a simulated policy's log reads as blocked.                      *)
MutTerminalDecision(mode) == IF carriesSets(mode) THEN "BLOCKED" ELSE "OBSERVED"

(* What a logged packet means under the mode the store holds.              *)
TerminalDecision(mode) ==
  CASE mode = "ENFORCED" -> "BLOCKED" [] mode = "SIMULATION" -> "WOULD_BLOCK" [] OTHER -> "OBSERVED"

------------------------------------------------------------------------------

Visible == [mode |-> "VISIBILITY", rules |-> <<>>]

RulesOf(policy) == {policy.rules[i] : i \in DOMAIN policy.rules}

(* Only peer membership differs, between two tables that carry sets.       *)
DeltaApplies(from, to) ==
  /\ carriesSets(from.mode) /\ from.mode = to.mode /\ from # to
  /\ [i \in DOMAIN from.rules |-> [from.rules[i] EXCEPT !.peers = {}]]
       = [i \in DOMAIN to.rules |-> [to.rules[i] EXCEPT !.peers = {}]]

(* The set updates from one policy to another: per rule and family, the    *)
(* elements gone are deleted and the elements come are added.              *)
RenderDelta(from, to) ==
  LET old(k) == splitPeers(CHOOSE r \in RulesOf(from) : r.id = k[1], k[2])
      new(k) == splitPeers(CHOOSE r \in RulesOf(to) : r.id = k[1], k[2])
  IN  [table EXCEPT !.sets = [k \in DOMAIN @ |-> (@[k] \ (old(k) \ new(k))) \cup (new(k) \ old(k))]]

TableInit ==
  /\ table = Render(Visible) /\ next = Visible /\ stored = Visible
  /\ conns = <<>> /\ log = <<>> /\ reports = {} /\ applies = 0

(* Apply, its kernel half: set updates where they suffice, and the full    *)
(* rendering where they do not or the kernel refuses them; one transaction *)
(* either way.                                                             *)
Apply ==
  \E policy \in TablePolicies :
    /\ applies < MaxApplies /\ next = stored
    /\ \/ table' = Render(policy)
       \/ DeltaApplies(stored, policy) /\ table' = RenderDelta(stored, policy)
    /\ next' = policy /\ applies' = applies + 1
    /\ log' = [i \in DOMAIN log |-> [log[i] EXCEPT !.moved = TRUE]]
    /\ UNCHANGED <<stored, conns, reports>>

(* Apply, its last lines: the store's copy.                                *)
ApplyReturns ==
  /\ next # stored /\ stored' = next
  /\ UNCHANGED <<table, next, conns, log, reports, applies>>

Permits(r, p) ==
  /\ r.protocol \in {"tcp", "udp", "icmp"} /\ r.protocol = p.protocol
  /\ p.from \in r.peers
  /\ r.protocol = "icmp" \/ InPorts(p.port, r.ports)

(* Why a policy lets a packet that opens a connection through: the first   *)
(* rule that permits it, or the simulation of a block.                     *)
Reason(policy, p) ==
  LET by == {i \in DOMAIN policy.rules : Permits(policy.rules[i], p)} IN
  CASE p.lo \/ policy.mode = "VISIBILITY" -> <<"OBSERVED", "">>
    [] ~p.lo /\ policy.mode # "VISIBILITY" /\ by # {} ->
         <<"ALLOWED", policy.rules[CHOOSE i \in by : \A j \in by : i <= j].id>>
    [] OTHER -> <<"WOULD_BLOCK", "">>

(* A packet arrives.  Accepted, tracked and the first of its connection,   *)
(* it opens it; the mark keeps what other software wrote below the region. *)
Arrive(p) ==
  LET w == Walk(table, p) IN
  /\ w.logged => Len(log) < MaxLogged
  /\ log' = IF w.logged THEN Append(log, [was |-> w.verdict, moved |-> next # stored]) ELSE log
  /\ IF w.verdict = "drop" \/ ~p.tracked \/ Established(p) THEN conns' = conns
     ELSE Cardinality(DOMAIN conns) < MaxConns /\ \E f \in ForeignValues :
            conns' = [c \in DOMAIN conns \cup {p.conn} |->
                        IF c # p.conn THEN conns[c]
                        ELSE [mark    |-> (f % MarkBase) + RuleMark(w.mark),
                              foreign |-> f, reason |-> Reason(next, p)]]
  /\ UNCHANGED <<table, next, stored, reports, applies>>

(* The log source reads one event and asks the store what it means; an     *)
(* event that means nothing is dropped.                                    *)
classify ==
  /\ log # <<>> /\ log' = Tail(log)
  /\ reports' = LET d == TerminalDecision(stored.mode) IN
       IF d \in {"BLOCKED", "WOULD_BLOCK"}
       THEN {[decision |-> d, was |-> Head(log).was, moved |-> Head(log).moved]} ELSE {}
  /\ UNCHANGED <<table, next, stored, conns, applies>>

(* The kernel forgets a connection.                                        *)
Close(c) ==
  /\ c \in DOMAIN conns /\ conns' = [d \in DOMAIN conns \ {c} |-> conns[d]]
  /\ UNCHANGED <<table, next, stored, log, reports, applies>>

TableNext ==
  \/ Apply \/ ApplyReturns \/ classify
  \/ \E p \in Packets : Arrive(p) \/ Close(p.conn)

------------------------------------------------------------------------------

(* The table decides what the policy says, whichever way it was installed: *)
(* a packet is dropped exactly when the policy is enforced, no rule of it  *)
(* permits the packet, and it is neither loopback traffic nor part of a    *)
(* connection already admitted, tracked or not (Render, writeAdmit,        *)
(* RenderDelta).                                                           *)
TableIsThePolicy ==
  \A p \in Packets :
    (Walk(table, p).verdict = "drop") <=>
      (/\ next.mode = "ENFORCED" /\ ~p.lo /\ ~Established(p)
       /\ \A r \in RulesOf(next) : ~Permits(r, p))

(* Simulation is evidence about enforcement: under a simulated policy the  *)
(* packets logged are exactly those the same policy would drop enforced.   *)
SimulationForecasts ==
  next.mode = "SIMULATION" =>
    \A p \in Packets :
      Walk(table, p).logged <=> Walk(Render([next EXCEPT !.mode = "ENFORCED"]), p).verdict = "drop"

(* A connection tells why it is open for as long as it lives: its mark     *)
(* still names the rule that let it through, through every later policy,   *)
(* and other software finds its own bits as it left them (Classify).       *)
ConnectionTellsWhy ==
  \A c \in DOMAIN conns :
    /\ Classify(conns[c].mark) = conns[c].reason
    /\ conns[c].mark % MarkBase = conns[c].foreign

(* A logged packet is reported as what became of it, unless an Apply was   *)
(* under way when it was logged or began before it was read: dropped reads *)
(* BLOCKED, let through reads WOULD_BLOCK (TerminalDecision).              *)
LogIsReadAsItWas ==
  \A r \in reports : ~r.moved => r.decision = IF r.was = "drop" THEN "BLOCKED" ELSE "WOULD_BLOCK"

(* A packet meets the policy: enforced, the table drops what no rule       *)
(* permits; simulated, it logs that and drops nothing.                     *)
TableDecides == TableIsThePolicy /\ SimulationForecasts

(* What became of a packet can be told afterwards, from its connection's   *)
(* mark or from its log record.                                            *)
EvidenceTellsWhy == ConnectionTellsWhy /\ LogIsReadAsItWas
==============================================================================
