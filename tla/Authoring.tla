------------------------------ MODULE Authoring ------------------------------
(***************************************************************************)
(* The authored model and its writers: the write endpoints (api/writes.go),*)
(* admission and persistence (policy/service.go, store/policy.go and the   *)
(* statements under store/db), and the render that follows every write     *)
(* (compiler/engine.go, store/render.go).                                  *)
(*                                                                         *)
(* Requests run concurrently.  A write is one transaction.  A read is one  *)
(* statement per table, and each statement sees what is committed when it  *)
(* runs, so reading a ruleset, and loading a render's inputs, take several *)
(* steps here.                                                             *)
(*                                                                         *)
(* A service or an address group is its version (0: no such row).  A rule  *)
(* is its version and a body, the address group and the service it refers  *)
(* to.  Names and a ruleset's own fields are left out: they are written    *)
(* with its row and versioned by it.                                       *)
(***************************************************************************)
EXTENDS Requests, Sequences

CONSTANTS
    Services, Groups, Rulesets, RuleIds,
    Bodies,     \* the bodies a rule may be given
    Scenarios   \* the tables a behaviour starts from and the requests it makes

ASSUME BodiesAssumption == Bodies \subseteq Groups \X Services

VARIABLES
    services, groups, \* tables: id -> version
    rulesets,         \* table: id -> version
    rules,            \* tables of the rules: ruleset -> rule id -> [version, body]
    used,             \* ids assigned so far: an id the server assigns is fresh
    pc, req,          \* where each request is, and what it carries
    read,             \* what its statements have returned of a ruleset
    view,             \* what its client last read: version (the entity tag) and rules
    lock,             \* the request that holds the render lock, or None
    load,             \* what the statements of the render under the lock have returned
    rendered,         \* the inputs the persisted policies were rendered from
    missed,           \* a render failed after its write was committed
    plan              \* the requests each client still makes

tables == <<services, groups, rulesets, rules>>
render == <<lock, load, rendered, missed>>
vars == <<tables, used, pc, req, read, view, render, plan>>

NoRules == [r \in {} |-> None]
NoRead == [version |-> 0, rules |-> NoRules]
NoView == [id |-> None, version |-> 0, rules |-> NoRules]
NoLoad == [at |-> "rulesets", heals |-> FALSE, rulesets |-> None, rules |-> None,
           services |-> None, groups |-> None]
Req(op, id, rule, doc, expect) ==
    [op |-> op, id |-> id, rule |-> rule, doc |-> doc, expect |-> expect,
     reads |-> IF op = "get" THEN "response" ELSE "rule"]
NoReq == Req("none", None, None, NoRules, None)

\* What a request's document says of each rule: its body.
Docs == UNION {[S -> Bodies] : S \in SUBSET RuleIds}

-----------------------------------------------------------------------------
(* The statements of store/db.  A conditional statement touches its row    *)
(* when it exists and has the expected version; the foreign keys of the    *)
(* rule tables refuse a dangling reference on either side.                 *)

\* expected: an empty expectation is no condition.
expected(expect, version) == expect = None \/ expect = version

updateService(s, expect) == services[s] # 0 /\ expected(expect, services[s])
updateAddressGroup(g, expect) == groups[g] # 0 /\ expected(expect, groups[g])
updateRuleset(p, expect) == rulesets[p] # 0 /\ expected(expect, rulesets[p])

InUse(o) == \E p \in Rulesets : \E r \in DOMAIN rules[p] :
                o \in {rules[p][r].body[1], rules[p][r].body[2]}

deleteRulesetRow(p, expect) == rulesets[p] # 0 /\ expected(expect, rulesets[p])

deleteService(s, expect) == services[s] # 0 /\ expected(expect, services[s]) /\ ~InUse(s)
deleteAddressGroup(g, expect) == groups[g] # 0 /\ expected(expect, groups[g]) /\ ~InUse(g)

addRulePeer(g) == groups[g] # 0
addRuleServiceRef(s) == services[s] # 0
addRule(p, r) == \A q \in Rulesets \ {p} : r \notin DOMAIN rules[q]

\* Mutant: the children are inserted without the rule_peers foreign key.
MutAddRulesetChildren(p, next) ==
    \A r \in DOMAIN next : addRule(p, r) /\ addRuleServiceRef(next[r].body[2])

addRulesetChildren(p, next) ==
    \A r \in DOMAIN next :
        /\ addRule(p, r)
        /\ addRulePeer(next[r].body[1])
        /\ addRuleServiceRef(next[r].body[2])

\* Rules by id, as listAllRulePeers and listAllRuleServiceRefs return their children.
RuleRow(r) == UNION {{rules[p][r]} : p \in {q \in Rulesets : r \in DOMAIN rules[q]}}
listAllRules(p) == [r \in DOMAIN rules[p] |-> [version |-> rules[p][r].version, body |-> <<None, None>>]]
listAllRulePeers(rs) ==
    [r \in DOMAIN rs |->
        IF RuleRow(r) = {} THEN rs[r]
        ELSE [rs[r] EXCEPT !.body[1] = (CHOOSE row \in RuleRow(r) : TRUE).body[1]]]
listAllRuleServiceRefs(rs) ==
    [r \in DOMAIN rs |->
        IF RuleRow(r) = {} THEN rs[r]
        ELSE [rs[r] EXCEPT !.body[2] = (CHOOSE row \in RuleRow(r) : TRUE).body[2]]]

-----------------------------------------------------------------------------
(* Admission and provenance (policy/service.go).                           *)

\* RuleEqual: the same content; versions are a consequence of content changing.
RuleEqual(old, body) == old.body = body

\* carryRuleProvenance: a rule that keeps its id keeps its version unless it changed.
carryRuleProvenance(prev, doc) ==
    [r \in DOMAIN doc |->
        [body |-> doc[r],
         version |-> IF r \notin DOMAIN prev THEN 1
                     ELSE prev[r].version + IF RuleEqual(prev[r], doc[r]) THEN 0 ELSE 1]]

\* References and ValidateRuleset: a rule has peers and services, and they exist.
Admitted(doc) ==
    \A r \in DOMAIN doc :
        /\ None \notin {doc[r][1], doc[r][2]}
        /\ groups[doc[r][1]] # 0 /\ services[doc[r][2]] # 0

\* The rules a rule-level write makes of the ruleset it read.
WithRule(rs, rule, body) ==
    [r \in DOMAIN rs \union {rule} |-> IF r = rule THEN body ELSE rs[r].body]
WithoutRule(rs, rule) == [r \in DOMAIN rs \ {rule} |-> rs[r].body]

\* ifMatch: the version the client read, or an empty tag, which is no condition and is
\* also what the command line sends.  A tag never read equals no version.
ifMatch(version) == {version, None}
TagOf(c, p) == IF view[c].id = p THEN view[c].version ELSE 0

-----------------------------------------------------------------------------
(* The endpoints: each decodes its body and hands one request on.          *)

Begin(c, at, r, fresh) ==
    /\ pc[c] = "idle" /\ plan[c] # <<>> /\ Head(plan[c]) = r.op
    /\ plan' = [plan EXCEPT ![c] = Tail(@)]
    /\ pc' = [pc EXCEPT ![c] = at] /\ req' = [req EXCEPT ![c] = r]
    /\ used' = used \union fresh
    /\ UNCHANGED <<tables, read, view, render>>

createService(c, s) ==
    s \notin used /\ Begin(c, "commit", Req("createService", s, None, NoRules, None), {s})
putService(c, s) == \E e \in ifMatch(1) \union ifMatch(services[s]) :
    s \in used /\ Begin(c, "commit", Req("putService", s, None, NoRules, e), {})
deleteServiceAt(c, s) == \E e \in ifMatch(services[s]) :
    s \in used /\ Begin(c, "commit", Req("deleteService", s, None, NoRules, e), {})

createAddressGroup(c, g) ==
    g \notin used /\ Begin(c, "commit", Req("createGroup", g, None, NoRules, None), {g})
putAddressGroup(c, g) == \E e \in ifMatch(1) \union ifMatch(groups[g]) :
    g \in used /\ Begin(c, "commit", Req("putGroup", g, None, NoRules, e), {})
deleteAddressGroupAt(c, g) == \E e \in ifMatch(groups[g]) :
    g \in used /\ Begin(c, "commit", Req("deleteGroup", g, None, NoRules, e), {})

createRuleset(c, p) == \E doc \in Docs :
    p \notin used /\ Begin(c, "admit", Req("createRuleset", p, None, doc, None), {p} \union DOMAIN doc)
putRuleset(c, p) == \E doc \in Docs, e \in ifMatch(TagOf(c, p)) :
    p \in used /\ Begin(c, "admit", Req("putRuleset", p, None, doc, e), DOMAIN doc)
deleteRuleset(c, p) == \E e \in ifMatch(TagOf(c, p)) :
    p \in used /\ Begin(c, "commit", Req("deleteRuleset", p, None, NoRules, e), {})

createRule(c, p, r) == \E b \in Bodies :
    p \in used /\ r \notin used
    /\ Begin(c, "row", Req("createRule", p, r, [x \in {r} |-> b], None), {r})
putRule(c, p, r) == \E b \in Bodies :
    p = view[c].id /\ r \in DOMAIN view[c].rules
    /\ \E e \in ifMatch(view[c].rules[r].version) :
           Begin(c, "row", Req("putRule", p, r, [x \in {r} |-> b], e), {})
deleteRule(c, p, r) ==
    p = view[c].id /\ r \in DOMAIN view[c].rules
    /\ \E e \in ifMatch(view[c].rules[r].version) :
           Begin(c, "row", Req("deleteRule", p, r, NoRules, e), {})

\* getRuleset, getRule and the listings only read.
getRuleset(c, p) == p \in used /\ Begin(c, "row", Req("get", p, None, NoRules, None), {})

Done(c) ==
    /\ pc' = [pc EXCEPT ![c] = "idle"] /\ req' = [req EXCEPT ![c] = NoReq]
    /\ read' = [read EXCEPT ![c] = NoRead]

\* A refused request: every problem the handlers answer before anything is written.
Refuse(c) == Done(c) /\ UNCHANGED <<tables, used, view, render, plan>>

-----------------------------------------------------------------------------
(* Reading a ruleset (GetRuleset, listRulesets): its row, then the rules,  *)
(* then their peers, then their service references.                        *)

ReadRow(c) ==
    /\ pc[c] = "row" /\ rulesets[req[c].id] # 0
    /\ read' = [read EXCEPT ![c].version = rulesets[req[c].id]]
    /\ pc' = [pc EXCEPT ![c] = "rules"]
    /\ UNCHANGED <<tables, used, req, view, render, plan>>

\* ErrRulesetUnknown.
ReadNoRow(c) == pc[c] = "row" /\ rulesets[req[c].id] = 0 /\ Refuse(c)

ReadRules(c) ==
    /\ pc[c] = "rules"
    /\ read' = [read EXCEPT ![c].rules = listAllRules(req[c].id)]
    /\ pc' = [pc EXCEPT ![c] = "peers"]
    /\ UNCHANGED <<tables, used, req, view, render, plan>>

ReadPeers(c) ==
    /\ pc[c] = "peers"
    /\ read' = [read EXCEPT ![c].rules = listAllRulePeers(@)]
    /\ pc' = [pc EXCEPT ![c] = "refs"]
    /\ UNCHANGED <<tables, used, req, view, render, plan>>

ReadRefs(c) ==
    /\ pc[c] = "refs"
    /\ read' = [read EXCEPT ![c].rules = listAllRuleServiceRefs(@)]
    /\ pc' = [pc EXCEPT ![c] = req[c].reads]
    /\ UNCHANGED <<tables, used, req, view, render, plan>>

\* respondRuleset, respondRule: the response is what was read.
Respond(c) ==
    /\ pc[c] = "response"
    /\ view' = [view EXCEPT ![c] = [id |-> req[c].id, version |-> read[c].version, rules |-> read[c].rules]]
    /\ Done(c) /\ UNCHANGED <<tables, used, render, plan>>

-----------------------------------------------------------------------------
(* Authoring: the rule-level writes restate themselves as a conditional    *)
(* write of the whole ruleset they read.                                   *)

\* Mutant: the ruleset is written unconditionally, as the rule's version was checked.
MutAsRulesetWrite(c, doc) ==
    /\ req' = [req EXCEPT ![c].doc = doc, ![c].expect = None]
    /\ pc' = [pc EXCEPT ![c] = "admit"]
    /\ UNCHANGED <<tables, used, read, view, render, plan>>

AsRulesetWrite(c, doc) ==
    /\ req' = [req EXCEPT ![c].doc = doc, ![c].expect = read[c].version]
    /\ pc' = [pc EXCEPT ![c] = "admit"]
    /\ UNCHANGED <<tables, used, read, view, render, plan>>

CreateRule(c) ==
    /\ pc[c] = "rule" /\ req[c].op = "createRule"
    /\ AsRulesetWrite(c, WithRule(read[c].rules, req[c].rule, req[c].doc[req[c].rule]))

RuleKnown(c) ==
    /\ req[c].rule \in DOMAIN read[c].rules
    /\ expected(req[c].expect, read[c].rules[req[c].rule].version)

UpdateRule(c) ==
    /\ pc[c] = "rule" /\ req[c].op = "putRule" /\ RuleKnown(c)
    /\ AsRulesetWrite(c, WithRule(read[c].rules, req[c].rule, req[c].doc[req[c].rule]))

DeleteRule(c) ==
    /\ pc[c] = "rule" /\ req[c].op = "deleteRule" /\ RuleKnown(c)
    /\ AsRulesetWrite(c, WithoutRule(read[c].rules, req[c].rule))

\* ErrRuleUnknown, or a version mismatch on the rule.
RuleRefused(c) ==
    pc[c] = "rule" /\ req[c].op \in {"putRule", "deleteRule"} /\ ~RuleKnown(c) /\ Refuse(c)

\* Admission, then the persisted ruleset is read for the provenance of its rules.
Admit(c) ==
    /\ pc[c] = "admit" /\ Admitted(req[c].doc)
    /\ pc' = [pc EXCEPT ![c] = IF req[c].op = "createRuleset" THEN "commit" ELSE "row"]
    /\ req' = [req EXCEPT ![c].reads = "commit"]
    /\ read' = [read EXCEPT ![c] = NoRead]
    /\ UNCHANGED <<tables, used, view, render, plan>>

NotAdmitted(c) == pc[c] = "admit" /\ ~Admitted(req[c].doc) /\ Refuse(c)

-----------------------------------------------------------------------------
(* The transactions.                                                       *)

Committing(c, op) == pc[c] = "commit" /\ req[c].op = op

Committed(c) ==
    /\ pc' = [pc EXCEPT ![c] = "lock"] /\ read' = [read EXCEPT ![c] = NoRead]
    /\ UNCHANGED <<used, req, view, render, plan>>

\* What each transaction of the store does to the tables.
StoreCreateService(s) ==
    services' = [services EXCEPT ![s] = 1] /\ UNCHANGED <<groups, rulesets, rules>>
StoreUpdateService(s, expect) ==
    /\ updateService(s, expect)
    /\ services' = [services EXCEPT ![s] = @ + 1] /\ UNCHANGED <<groups, rulesets, rules>>
StoreDeleteService(s, expect) ==
    /\ deleteService(s, expect)
    /\ services' = [services EXCEPT ![s] = 0] /\ UNCHANGED <<groups, rulesets, rules>>
StoreCreateAddressGroup(g) ==
    groups' = [groups EXCEPT ![g] = 1] /\ UNCHANGED <<services, rulesets, rules>>
StoreUpdateAddressGroup(g, expect) ==
    /\ updateAddressGroup(g, expect)
    /\ groups' = [groups EXCEPT ![g] = @ + 1] /\ UNCHANGED <<services, rulesets, rules>>
StoreDeleteAddressGroup(g, expect) ==
    /\ deleteAddressGroup(g, expect)
    /\ groups' = [groups EXCEPT ![g] = 0] /\ UNCHANGED <<services, rulesets, rules>>
StoreCreateRuleset(p, next) ==
    /\ addRulesetChildren(p, next)
    /\ rulesets' = [rulesets EXCEPT ![p] = 1] /\ rules' = [rules EXCEPT ![p] = next]
    /\ UNCHANGED <<services, groups>>
StoreUpdateRuleset(p, next, expect) ==
    /\ updateRuleset(p, expect) /\ addRulesetChildren(p, next)
    /\ rulesets' = [rulesets EXCEPT ![p] = @ + 1] /\ rules' = [rules EXCEPT ![p] = next]
    /\ UNCHANGED <<services, groups>>
StoreDeleteRuleset(p, expect) ==
    /\ deleteRulesetRow(p, expect)
    /\ rulesets' = [rulesets EXCEPT ![p] = 0] /\ rules' = [rules EXCEPT ![p] = NoRules]
    /\ UNCHANGED <<services, groups>>

CreateService(c) ==
    Committing(c, "createService") /\ StoreCreateService(req[c].id) /\ Committed(c)
UpdateService(c) ==
    Committing(c, "putService") /\ StoreUpdateService(req[c].id, req[c].expect) /\ Committed(c)
DeleteService(c) ==
    Committing(c, "deleteService") /\ StoreDeleteService(req[c].id, req[c].expect) /\ Committed(c)
CreateAddressGroup(c) ==
    Committing(c, "createGroup") /\ StoreCreateAddressGroup(req[c].id) /\ Committed(c)
UpdateAddressGroup(c) ==
    Committing(c, "putGroup") /\ StoreUpdateAddressGroup(req[c].id, req[c].expect) /\ Committed(c)
DeleteAddressGroup(c) ==
    Committing(c, "deleteGroup") /\ StoreDeleteAddressGroup(req[c].id, req[c].expect) /\ Committed(c)

CreateRuleset(c) ==
    /\ Committing(c, "createRuleset")
    /\ StoreCreateRuleset(req[c].id, carryRuleProvenance(NoRules, req[c].doc))
    /\ Committed(c)

RulesetOps == {"putRuleset", "createRule", "putRule", "deleteRule"}

\* The end of UpdateRuleset, which also ends every rule-level write.
WriteRuleset(c) ==
    /\ pc[c] = "commit" /\ req[c].op \in RulesetOps
    /\ StoreUpdateRuleset(req[c].id, carryRuleProvenance(read[c].rules, req[c].doc), req[c].expect)
    /\ Committed(c)

DeleteRuleset(c) ==
    Committing(c, "deleteRuleset") /\ StoreDeleteRuleset(req[c].id, req[c].expect) /\ Committed(c)

\* versionMismatch, ErrInUse, ErrUnknownService, ErrDuplicateRuleID...: rolled back.
RolledBack(c) ==
    LET r == req[c]
        next == carryRuleProvenance(read[c].rules, r.doc) IN
    /\ pc[c] = "commit"
    /\ CASE r.op = "putService" -> ~updateService(r.id, r.expect)
         [] r.op = "deleteService" -> ~deleteService(r.id, r.expect)
         [] r.op = "putGroup" -> ~updateAddressGroup(r.id, r.expect)
         [] r.op = "deleteGroup" -> ~deleteAddressGroup(r.id, r.expect)
         [] r.op = "createRuleset" -> ~addRulesetChildren(r.id, next)
         [] r.op = "deleteRuleset" -> ~deleteRulesetRow(r.id, r.expect)
         [] r.op \in RulesetOps -> ~(updateRuleset(r.id, r.expect) /\ addRulesetChildren(r.id, next))
         [] OTHER -> FALSE
    /\ Refuse(c)

-----------------------------------------------------------------------------
(* The render every write ends with: under one lock in the database, in a  *)
(* transaction of its own, which authored writes do not wait for.          *)

InputsLoaded(l) == [rulesets |-> l.rulesets, rules |-> l.rules, services |-> l.services, groups |-> l.groups]
Current == [rulesets |-> rulesets, rules |-> rules, services |-> services, groups |-> groups]

\* Mutant: a write that finds a render running leaves it to render its change.
MutAcquireRenderLock(c) ==
    /\ pc[c] = "lock"
    /\ IF lock = None
       THEN /\ lock' = c /\ load' = [NoLoad EXCEPT !.heals = TRUE]
            /\ pc' = [pc EXCEPT ![c] = "load"] /\ UNCHANGED <<req, read>>
       ELSE Done(c) /\ UNCHANGED <<lock, load>>
    /\ UNCHANGED <<tables, used, view, rendered, missed, plan>>

acquireRenderLock(c) ==
    /\ pc[c] = "lock" /\ lock = None
    /\ lock' = c /\ load' = [NoLoad EXCEPT !.heals = TRUE]
    /\ pc' = [pc EXCEPT ![c] = "load"]
    /\ UNCHANGED <<tables, used, req, read, view, rendered, missed, plan>>

Loading(c, at, l) ==
    /\ pc[c] = "load" /\ load.at = at /\ load' = l
    /\ UNCHANGED <<tables, used, pc, req, read, view, lock, rendered, missed, plan>>

LoadRulesets(c) == Loading(c, "rulesets", [load EXCEPT !.at = "rules", !.rulesets = rulesets])

\* A rule whose ruleset's row was not read is dropped.
LoadRules(c) ==
    Loading(c, "rules", [load EXCEPT !.at = "peers",
        !.rules = [p \in Rulesets |-> IF load.rulesets[p] = 0 THEN NoRules ELSE listAllRules(p)]])
LoadPeers(c) ==
    Loading(c, "peers", [load EXCEPT !.at = "refs", !.rules = [p \in Rulesets |-> listAllRulePeers(load.rules[p])]])
LoadRefs(c) ==
    Loading(c, "refs", [load EXCEPT !.at = "services", !.rules = [p \in Rulesets |-> listAllRuleServiceRefs(load.rules[p])]])
LoadServices(c) == Loading(c, "services", [load EXCEPT !.at = "groups", !.services = services])
LoadGroups(c) == Loading(c, "groups", [load EXCEPT !.at = "save", !.groups = groups])

\* After the render: a delete answers at once, the others read back what they wrote.
AfterRender(c) ==
    IF req[c].op \in (RulesetOps \ {"deleteRule"}) \union {"createRuleset"}
    THEN /\ pc' = [pc EXCEPT ![c] = "row"] /\ req' = [req EXCEPT ![c].reads = "response"]
         /\ UNCHANGED read
    ELSE Done(c)

SavePolicies(c) ==
    /\ pc[c] = "load" /\ load.at = "save"
    /\ rendered' = InputsLoaded(load) /\ lock' = None /\ load' = NoLoad
    /\ missed' = (missed /\ ~load.heals)
    /\ AfterRender(c) /\ UNCHANGED <<tables, used, view, plan>>

\* The statement or the commit fails, the request is cancelled, or the process dies:
\* "change persisted but rendering failed".
RenderFails(c) ==
    /\ pc[c] \in {"lock", "load"}
    /\ missed' = TRUE
    /\ lock' = IF lock = c THEN None ELSE lock
    /\ load' = IF lock = c THEN NoLoad ELSE [load EXCEPT !.heals = FALSE]
    /\ Done(c) /\ UNCHANGED <<tables, used, view, rendered, plan>>

-----------------------------------------------------------------------------
\* References resolve: whatever is persisted, a rule's address group and service exist,
\* though a delete and a rule write that names the deleted object may be in flight
\* together and admission looked before either was committed.
ReferencesResolve ==
    \A p \in Rulesets : \A r \in DOMAIN rules[p] :
        groups[rules[p][r].body[1]] # 0 /\ services[rules[p][r].body[2]] # 0

\* The tables as their column types and keys allow them: a rule is one ruleset's, and a
\* ruleset without a row has none.
RuleRows == [version : Nat, body : Groups \X Services]
Tables ==
    /\ services \in [Services -> Nat] /\ groups \in [Groups -> Nat]
    /\ rulesets \in [Rulesets -> Nat] /\ rules = [p \in Rulesets |-> rules[p]]
    /\ \A p \in Rulesets :
           /\ rules[p] = [r \in DOMAIN rules[p] |-> rules[p][r]]
           /\ \A r \in DOMAIN rules[p] : rules[p][r] \in RuleRows
           /\ rulesets[p] = 0 => DOMAIN rules[p] = {}
           /\ \A q \in Rulesets \ {p} : DOMAIN rules[p] \intersect DOMAIN rules[q] = {}

Init ==
    /\ \E s \in Scenarios :
           /\ services = s.services /\ groups = s.groups
           /\ rulesets = s.rulesets /\ rules = s.rules
           /\ plan = s.plan
           /\ used = {o \in Services : s.services[o] # 0} \union {o \in Groups : s.groups[o] # 0}
                     \union {p \in Rulesets : s.rulesets[p] # 0}
                     \union UNION {DOMAIN s.rules[p] : p \in Rulesets}
    /\ Tables /\ ReferencesResolve
    /\ pc = [c \in Clients |-> "idle"] /\ req = [c \in Clients |-> NoReq]
    /\ read = [c \in Clients |-> NoRead] /\ view = [c \in Clients |-> NoView]
    /\ lock = None /\ load = NoLoad /\ rendered = Current /\ missed = FALSE

Endpoint(c) ==
    \/ \E s \in Services : createService(c, s) \/ putService(c, s) \/ deleteServiceAt(c, s)
    \/ \E g \in Groups : createAddressGroup(c, g) \/ putAddressGroup(c, g) \/ deleteAddressGroupAt(c, g)
    \/ \E p \in Rulesets :
           \/ createRuleset(c, p) \/ putRuleset(c, p) \/ deleteRuleset(c, p) \/ getRuleset(c, p)
           \/ \E r \in RuleIds : createRule(c, p, r) \/ putRule(c, p, r) \/ deleteRule(c, p, r)

Step(c) ==
    \/ ReadRow(c) \/ ReadNoRow(c) \/ ReadRules(c) \/ ReadPeers(c) \/ ReadRefs(c) \/ Respond(c)
    \/ CreateRule(c) \/ UpdateRule(c) \/ DeleteRule(c) \/ RuleRefused(c)
    \/ Admit(c) \/ NotAdmitted(c)
    \/ CreateService(c) \/ UpdateService(c) \/ DeleteService(c)
    \/ CreateAddressGroup(c) \/ UpdateAddressGroup(c) \/ DeleteAddressGroup(c)
    \/ CreateRuleset(c) \/ WriteRuleset(c) \/ DeleteRuleset(c) \/ RolledBack(c)
    \/ acquireRenderLock(c) \/ LoadRulesets(c) \/ LoadRules(c) \/ LoadPeers(c) \/ LoadRefs(c)
    \/ LoadServices(c) \/ LoadGroups(c) \/ SavePolicies(c) \/ RenderFails(c)

Next == \E c \in Clients : Endpoint(c) \/ Step(c)
Spec == Init /\ [][Next]_vars

-----------------------------------------------------------------------------
\* Once every write in flight has rendered, the persisted policies are those of the
\* authored model, however the loads of the renders were torn by writes that committed
\* between their statements, unless a render failed and none has begun since.
SettledIsRendered ==
    (~missed /\ \A c \in Clients : pc[c] \notin {"lock", "load"}) => rendered = Current

\* A rule-level write changes the rule it names and no other, though it reads the whole
\* ruleset, in several statements and twice, and writes the whole ruleset back.
OthersKept(c) ==
    (WriteRuleset(c) /\ req[c].op # "putRuleset") =>
        \A r \in RuleIds \ {req[c].rule} :
            /\ r \in DOMAIN rules'[req[c].id] <=> r \in DOMAIN rules[req[c].id]
            /\ r \in DOMAIN rules[req[c].id] => rules'[req[c].id][r] = rules[req[c].id][r]

\* Rule-level writes keep the other rules of the ruleset, in every step of every request.
RuleWriteKeepsOthers == [][\A c \in Clients : OthersKept(c)]_vars
=============================================================================
