------------------------- MODULE MCControlPlane -------------------------
(***************************************************************************)
(* The authoring of policy, and beside it the compiler with its dry run    *)
(* and the fleet: a behaviour is one of the three and leaves the others as *)
(* they are.                                                               *)
(***************************************************************************)
EXTENDS Authoring, Fleet, TLC

CONSTANTS
    Parts, c1, c2, s1, s2, g1, g2, g3, p1, p2, r1, r2,
    Machines, Protocols, LabelMaps, AddressSets, ServiceBodies, GroupBodies, Drafts, MaxEdits,
    w1, w2, la, lb

VARIABLES
    part, inputs, persisted, preview, edits

CO == INSTANCE Compile WITH
        RuleIds <- {}, Specs <- {}, Peers <- {}, Modes <- {"VISIBILITY", "ENFORCED"}

compileVars == <<inputs, persisted, preview, edits>>
allVars == <<part, vars, compileVars, fleetVars>>

SideInit ==
    /\ part \in Parts
    /\ Init
    /\ part # "authoring" => plan = (CHOOSE s \in Scenarios : TRUE).plan
    /\ CO!CompileInit
    /\ FleetInit
    /\ part # "fleet" => token = "live" /\ fleetPlan = (CHOOSE s \in Fleets : TRUE).plan

SideNext ==
    /\ UNCHANGED part
    /\ \/ part = "authoring" /\ Next /\ UNCHANGED <<compileVars, fleetVars>>
       \/ part = "compile" /\ CO!CompileNext /\ UNCHANGED <<vars, fleetVars>>
       \/ part = "fleet" /\ FleetNext /\ UNCHANGED <<vars, compileVars>>

SideSpec == SideInit /\ [][SideNext]_allVars

\* The fairness of the fleet's calls and streams, asked of that part alone.
FleetFairness ==
    /\ \A c \in Clients : WF_fleetVars(part = "fleet" /\ CallStep(c))
    /\ \A w \in Workloads : WF_fleetVars(part = "fleet" /\ StreamStep(w))

FairSideSpec == SideSpec /\ FleetFairness

-----------------------------------------------------------------------------
(* Authoring.                                                              *)

MCBodies == {<<g1, s1>>, <<g2, s1>>}
Rule(v, b) == [version |-> v, body |-> b]
Scenario(plan1, plan2) ==
     [services |-> (s1 :> 1 @@ s2 :> 0), groups |-> (g1 :> 1 @@ g2 :> 1 @@ g3 :> 0),
      rulesets |-> (p1 :> 1 @@ p2 :> 0), rules |-> (p1 :> (r1 :> Rule(1, <<g1, s1>>)) @@ p2 :> NoRules),
      plan |-> (c1 :> plan1 @@ c2 :> plan2)]
MCScenarios ==
    {Scenario(<<"get", "putRuleset">>, <<"get", "putRule">>),
     Scenario(<<"get", "putRule">>, <<"createRule">>),
     Scenario(<<"createRule">>, <<"get", "deleteRule">>),
     Scenario(<<"deleteGroup">>, <<"putRuleset">>),
     Scenario(<<"createGroup", "deleteGroup">>, <<"putService", "deleteService">>),
     Scenario(<<"putGroup">>, <<"createService", "putService">>),
     Scenario(<<"createRuleset">>, <<"get", "deleteRuleset">>),
     Scenario(<<"createRuleset">>, <<"putRuleset">>)}

(* The compiler.                                                           *)

MCLabelMaps == {[role |-> "db"], [role |-> "web"]}
MCAddresses == {{}, {"a1"}, {"a2"}}
MCServiceBodies == {<<>>, <<[protocol |-> "tcp", ports |-> {}], [protocol |-> "tcp", ports |-> {<<1, 2>>}]>>,
             <<[protocol |-> "udp", ports |-> {<<1, 2>>, <<2, 3>>}]>>, <<[protocol |-> "udp", ports |-> {<<1, 3>>}]>>}
MCGroups == {{}, {"net"}}
Selecting(v) == [role |-> {v}]
PeerOf(k, v, c) == [kind |-> k, selector |-> IF k = "workloads" THEN Selecting(v) ELSE <<>>, cidr |-> c]
RuleOf(i, ps, svc, es) ==
  [id |-> i, enabled |-> TRUE, direction |-> "inbound", peers |-> ps, service |-> svc, entries |-> es]
RulesetOf(i, on, v, rs) == [id |-> i, version |-> 0, enabled |-> on, scope |-> Selecting(v), rules |-> rs]
MCDrafts ==
  {<<>>,
   <<RulesetOf("s1", TRUE, "db", <<RuleOf("r1", <<PeerOf("workloads", "web", "")>>, TRUE, <<[protocol |-> "tcp", ports |-> {<<3, 3>>}]>>)>>)>>,
   <<RulesetOf("s1", TRUE, "db", <<RuleOf("r1", <<PeerOf("group", "", ""), PeerOf("cidr", "", "a2")>>, TRUE, <<>>),
                             [RuleOf("r2", <<>>, TRUE, <<>>) EXCEPT !.enabled = FALSE]>>),
     RulesetOf("s2", FALSE, "db", <<RuleOf("r3", <<>>, TRUE, <<>>)>>)>>}

(* The fleet.                                                              *)

MCRow == [status |-> "active", mode |-> "visibility", labels |-> la, addr |-> 1, serial |-> 1]
NoMachine == [status |-> "absent", mode |-> None, labels |-> None, addr |-> 0, serial |-> 0]
Fleet2(row2, live, plan1, plan2) ==
    [row |-> (w1 :> MCRow @@ w2 :> row2), stream |-> (w1 :> live @@ w2 :> "none"),
     plan |-> (c1 :> plan1 @@ c2 :> plan2)]
MCFleets ==
    {Fleet2(MCRow, "none", <<"mode">>, <<"mode">>),
     Fleet2(MCRow, "none", <<"mode">>, <<"labels">>),
     Fleet2(MCRow, "none", <<"mode">>, <<"retire">>),
     Fleet2(NoMachine, "live", <<"retire">>, <<"labels", "retire">>),
     Fleet2(NoMachine, "live", <<"retire">>, <<"inventory", "renew">>),
     Fleet2(NoMachine, "none", <<"open", "open">>, <<"retire">>),
     Fleet2(NoMachine, "live", <<"enroll", "retire">>, <<"revoke", "inventory">>)}

-----------------------------------------------------------------------------

\* Dry run: it reports every change and stands while its state version does.
DryRunForetells == part = "compile" => CO!DryRunForetells

=============================================================================
