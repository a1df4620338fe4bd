---------------------------- MODULE MCAccess ----------------------------
(***************************************************************************)
(* The parts of the control plane that operators and enrolling hosts meet, *)
(* checked side by side: a behaviour is one of the login throttle, the     *)
(* operators' sessions and tokens, the provisioning tokens, the fleet      *)
(* list, the stores with their doubles, or the admission of one document,  *)
(* and leaves the others as they are.                                      *)
(***************************************************************************)
EXTENDS LoginThrottle, Operator, Provisioning

CONSTANTS
    Parts, Members, MemberLabel, Fleets, Visits, DefaultWorkloadPageLimit, MaxWorkloadPageLimit,
    MaxListInstant, MaxWrites, ServiceWrites, GroupWrites, RulesetWrites, Hosts, LabelSets, Modes,
    MaxCalls, MaxLabelLength, MaxPort, IdOf, TextOf, Documents, GoodRule, GoodScope, KnownServices, KnownGroups

VARIABLES
    part, fleet, listInstant, writes, visitor, tables, storeRows, mem, answers, storeCalls, document

FL == INSTANCE FleetReads WITH MaxInstant <- MaxListInstant, instant <- listInstant

DB == INSTANCE FleetDouble WITH rows <- storeRows, calls <- storeCalls

AD == INSTANCE PolicyAdmission

listingVars == <<fleet, listInstant, writes, visitor>>
doubleVars == <<tables, storeRows, mem, answers, storeCalls>>
allVars ==
    <<part, throttleVars, operatorVars, provisioningVars, listingVars, doubleVars, document>>

SideInit ==
    /\ part \in Parts
    /\ ThrottleInit
    /\ OperatorInit
    /\ ProvisioningInit
    /\ FL!FleetReadsInit
    /\ part # "listing" => fleet = CHOOSE f \in Fleets : TRUE
    /\ DB!DoubleInit
    /\ part # "double" => tables = DB!NoTables
    /\ AD!AdmissionInit
    /\ part # "admission" => document = CHOOSE d \in Documents : TRUE

SideNext ==
    /\ UNCHANGED part
    /\ \/ part = "throttle" /\ ThrottleNext
          /\ UNCHANGED <<operatorVars, provisioningVars, listingVars, doubleVars, document>>
       \/ part = "operator" /\ OperatorNext
          /\ UNCHANGED <<throttleVars, provisioningVars, listingVars, doubleVars, document>>
       \/ part = "provisioning" /\ ProvisioningNext
          /\ UNCHANGED <<throttleVars, operatorVars, listingVars, doubleVars, document>>
       \/ part = "listing" /\ FL!FleetReadsNext
          /\ UNCHANGED <<throttleVars, operatorVars, provisioningVars, doubleVars, document>>
       \/ part = "double" /\ DB!DoubleNext
          /\ UNCHANGED <<throttleVars, operatorVars, provisioningVars, listingVars, document>>

SideSpec == SideInit /\ [][SideNext]_allVars

-----------------------------------------------------------------------------
(* Operators.                                                              *)

Request(door, method, site, origin, bearer, cookie, password, target) ==
  [door |-> door, method |-> method, site |-> site, origin |-> origin, bearer |-> bearer,
   cookie |-> cookie, password |-> password, target |-> target]
Login(p) == Request("session", "POST", "same-origin", "here", -1, -1, p, 0)
MCRequests ==
  {Login(0), Login(1), Request("me", "GET", "cross-site", "", -1, 1, 0, 0),
   Request("session", "DELETE", "", "", -1, 1, 0, 0), Request("session", "DELETE", "", "elsewhere", -1, 1, 0, 0),
   Request("tokens", "POST", "", "here", -1, 1, 0, 0), Request("me", "GET", "", "", 2, 1, 0, 0),
   Request("tokens", "GET", "", "", 2, -1, 0, 0), Request("me", "GET", "", "", 0, -1, 0, 0), Request("tokens", "DELETE", "none", "", -1, 1, 0, 2)}


(* The fleet list.                                                         *)

Member(sync, table, seen, retired, mode) ==
  [sync |-> sync, table |-> table, absentSince |-> IF table = 2 THEN 1 ELSE 0, seen |-> seen,
   retired |-> retired, mode |-> mode]
MCMemberLabel == [w \in {1, 2, 3, 4} |-> w % 2]
MCFleets == {<<Member(1, 1, 1, 0, 1), Member(1, 1, 1, 0, 2), Member(3, 2, 0, 0, 1), Member(4, 0, 1, 1, 1)>>,
             <<Member(4, 0, 0, 0, 1), Member(2, 2, 1, 0, 1), Member(4, 1, 1, 1, 2), Member(4, 1, 1, 1, 2)>>}
Visit(selector, mode, sync, retired, limit) ==
  [selector |-> selector, mode |-> mode, sync |-> sync, retired |-> retired, limit |-> limit]
MCVisits == {Visit({}, 0, 0, FALSE, 1), Visit({}, 0, 0, TRUE, 1), Visit({1}, 0, 0, FALSE, 1),
             Visit({}, 1, 0, FALSE, 9), Visit({}, 0, 1, FALSE, 0)}

(* The stores.                                                             *)

Entry(p, ports) == [protocol |-> p, ports |-> ports]
MCServiceWrites == {[name |-> 1, entries |-> <<Entry(1, <<<<80, 80>>, <<90, 95>>>>), Entry(3, <<>>), Entry(1, <<<<22, 22>>>>)>>],
                    [name |-> 1, entries |-> <<Entry(2, <<>>)>>],
                    [name |-> 2, entries |-> <<Entry(1, <<<<80, 80>>>>), Entry(1, <<>>)>>],
                    [name |-> 2, entries |-> <<Entry(1, <<>>), Entry(2, <<<<5, 5>>>>), Entry(1, <<<<80, 80>>>>)>>]}
MixedServices == {[name |-> 1, entries |-> <<Entry(1, <<>>), Entry(1, <<<<80, 80>>>>)>>]}
MCGroupWrites == {[name |-> 1, cidrs |-> <<20, 10>>], [name |-> 2, cidrs |-> <<10>>]}
AScope == {<<1, {1}>>}
RuleRow(id, peers, services, entries) == [id |-> id, peers |-> peers, services |-> services, entries |-> entries]
WorkloadPeer == [kind |-> "workloads", workloads |-> {<<1, {1, 2}>>, <<2, {1}>>}]
GroupPeer(g) == [kind |-> "group", group |-> g]
CidrPeer == [kind |-> "cidr", cidr |-> 10]
MCRulesetWrites == {[name |-> 1, scope |-> AScope, rules |-> <<RuleRow(2, <<WorkloadPeer, GroupPeer(1)>>, <<1>>, <<>>), RuleRow(1, <<CidrPeer, WorkloadPeer>>, <<>>, <<Entry(2, <<<<5, 5>>>>), Entry(3, <<>>)>>)>>],
                    [name |-> 2, scope |-> AScope, rules |-> <<RuleRow(2, <<CidrPeer>>, <<1>>, <<Entry(1, <<>>), Entry(1, <<<<7, 9>>>>)>>)>>],
                    [name |-> 2, scope |-> AScope, rules |-> <<RuleRow(3, <<CidrPeer>>, <<1, 1>>, <<>>)>>],
                    [name |-> 2, scope |-> {<<2, {2}>>}, rules |-> <<>>]}

(* Documents.                                                              *)

Text == <<"a">>
SelectorDoc == <<[key |-> <<"a", "/", "a">>, values |-> <<Text, <<"a", ".", "a">>>>]>>
MCIdOf == [t \in {"id1", "ID1", "id2", "id3", "id4", "id9"} |->
             CASE t \in {"id1", "ID1"} -> 1 [] t = "id2" -> 2 [] t = "id3" -> 3 [] t = "id4" -> 4 [] t = "id9" -> 9]
MCTextOf == [i \in {1, 2, 3, 4, 9} |-> CHOOSE t \in {"id1", "id2", "id3", "id4", "id9"} : MCIdOf[t] = i]
EntryDoc(p, ports) == [protocol |-> p, ports |-> ports]
MCGoodRule == [id |-> 0, direction |-> "inbound", enabled |-> TRUE, peers |-> <<[workloads |-> SelectorDoc]>>,
               services |-> <<"db">>, entries |-> <<>>]
MCGoodScope == SelectorDoc
MCSelectors == {SelectorDoc, <<>>, <<[key |-> <<>>, values |-> <<Text>>]>>, <<[key |-> <<"/", "a">>, values |-> <<Text>>], [key |-> Text, values |-> <<>>]>>,
   <<[key |-> Text, values |-> <<Text, <<"a", "/", "a">>, <<"a", "a", "a", "a">>>>]>>}
MCPeers == {<<>>, <<[workloads |-> SelectorDoc], [cidr |-> 23]>>, <<[group |-> "hq"], [cidr |-> -1]>>,
            <<[group |-> "none"], [group |-> "id9"]>>, <<<<>>, [workloads |-> <<>>]>>,
            <<[workloads |-> SelectorDoc, group |-> "hq"], [group |-> "hq", cidr |-> -1]>>, <<[group |-> "id4"], [cidr |-> 20]>>}
MCServices == {<<>>, <<"db", "id2">>, <<"none", "id9">>, <<"cache", "ID1">>, <<"id4">>}
MCEntries == {<<>>, <<EntryDoc(1, <<<<80, 80>>, <<90, 95>>>>), EntryDoc(3, <<>>)>>, <<EntryDoc(0, <<<<>>, <<9, 8>>>>), EntryDoc(3, <<<<1, 1>>>>), EntryDoc(1, <<<<1, 100>>>>)>>}
RuleDocs == {[id |-> i, direction |-> d, enabled |-> e, peers |-> p, services |-> s, entries |-> n] :
   i \in {-1, 0, 4}, d \in {"inbound"}, e \in {FALSE}, p \in MCPeers, s \in MCServices, n \in MCEntries}
 \cup {[MCGoodRule EXCEPT !.direction = d] : d \in {"outbound", "", "sideways"}}
RulesetDoc(i, n, s, r) == [id |-> i, name |-> n, scope |-> s, rules |-> r]
MCDocuments == {RulesetDoc(0, "web", SelectorDoc, <<r>>) : r \in RuleDocs}
  \cup {RulesetDoc(i, n, s, <<r, q>>) : i \in {-1, 5}, n \in {"", "web"}, s \in MCSelectors,
         r \in {[MCGoodRule EXCEPT !.id = 4, !.entries = <<EntryDoc(0, <<<<>>>>)>>], MCGoodRule, [MCGoodRule EXCEPT !.direction = "sideways", !.enabled = FALSE]}, 
         q \in {[MCGoodRule EXCEPT !.id = 4, !.peers = <<>>], MCGoodRule}}
MCKnownServices == {[id |-> 1, name |-> "db"], [id |-> 2, name |-> "cache"], [id |-> 4, name |-> "id1"]}
MCKnownGroups == {[id |-> 3, name |-> "hq"], [id |-> 4, name |-> "id9"]}

-----------------------------------------------------------------------------

\* Fleet list: a workload that does not move is on exactly one page, and the counts agree.
ListIsTheFleet == part = "listing" => FL!ListIsTheFleet

\* Stores: the in-memory doubles of the three stores are what the database is.
DoublesAgree ==
    /\ part = "provisioning" => EnrollDoubleAgrees
    /\ part = "listing" => FL!DoublesAgree
    /\ part = "double" => DB!StoresAgree

\* Stores: all ports wins for the protocol.
AllPortsWins == part = "double" => DB!AllPortsWins

\* Admission: a document is refused with all its faults, or what is read of it writes back the same.
AdmittedOrExplained == part = "admission" => AD!AdmittedOrExplained
=============================================================================
