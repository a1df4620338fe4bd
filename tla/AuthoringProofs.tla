-------------------------- MODULE AuthoringProofs --------------------------
(***************************************************************************)
(* Proofs about Authoring, for any number of requests and any set of       *)
(* services, groups, rulesets and rules: references resolve, a rule-level  *)
(* write changes no other rule, and once the writes have rendered, the     *)
(* policies are those of the authored model.                               *)
(*                                                                         *)
(* The argument has three layers.  What a request carries is typed, and a  *)
(* document names real objects once it is admitted (Typed).  What a        *)
(* request has read of a ruleset is what is persisted as long as the       *)
(* ruleset has the version it read first (Reads, Restated): versions only  *)
(* grow, and a deleted ruleset's id is never given out again (Creating).   *)
(* What a render has loaded is current unless a write waits for the lock   *)
(* behind it or a render failed since it began (Rendering).                *)
(***************************************************************************)
EXTENDS Authoring, TLAPS

-----------------------------------------------------------------------------
(* The inductive invariant.                                                *)

\* Rules as read and as written in a document; what is not read is None.
ReadBodies == (Groups \union {None}) \X (Services \union {None})
Table(f, S) == f = [r \in DOMAIN f |-> f[r]] /\ \A r \in DOMAIN f : f[r] \in S
ReadRows == [version : Nat, body : ReadBodies]

IsReq(r) == r = [op |-> r.op, id |-> r.id, rule |-> r.rule, doc |-> r.doc, expect |-> r.expect, reads |-> r.reads]
IsRead(r) == r = [version |-> r.version, rules |-> r.rules]

Shape ==
    /\ pc = [c \in Clients |-> pc[c]]
    /\ req = [c \in Clients |-> req[c]] /\ \A c \in Clients : IsReq(req[c])
    /\ read = [c \in Clients |-> read[c]] /\ \A c \in Clients : IsRead(read[c])

RuleOps == {"createRule", "putRule", "deleteRule"}
ReadPcs == {"row", "rules", "peers", "refs"}

\* A request whose document is admitted.
IsAdmitted(c) == pc[c] = "commit" \/ (pc[c] \in ReadPcs /\ req[c].reads = "commit")
\* A request that has read a ruleset's row, and has not written it yet.
IsReading(c) == pc[c] \in {"rules", "peers", "refs", "rule", "response"} \/ (pc[c] = "commit" /\ req[c].op \in RulesetOps)
\* A rule-level write that has restated itself as a write of its ruleset.
IsRestated(c) == req[c].op \in RuleOps /\ (pc[c] = "admit" \/ IsAdmitted(c))
IsCreating(c) == req[c].op = "createRuleset" /\ pc[c] \in {"admit", "commit"}

\* What a request carries, by where it is.
Typed(c) ==
    /\ Table(read[c].rules, ReadRows) /\ Table(req[c].doc, ReadBodies)
    /\ IsAdmitted(c) => Table(req[c].doc, Groups \X Services)
    /\ req[c].reads \in {"response", "rule", "commit"}
    /\ req[c].op \in RulesetOps \union {"get", "createRuleset", "deleteRuleset"} => req[c].id \in Rulesets /\ req[c].id \in used
    /\ pc[c] = "admit" => req[c].op \in RulesetOps \union {"createRuleset"}
    /\ pc[c] \in ReadPcs \union {"response"} => req[c].op \in RulesetOps \union {"get", "createRuleset"}
    /\ pc[c] \in ReadPcs /\ req[c].reads = "commit" => req[c].op \in RulesetOps
    /\ pc[c] \in ReadPcs /\ req[c].reads = "rule" => req[c].op \in RuleOps
    /\ pc[c] = "rule" => req[c].op \in RuleOps /\ req[c].reads = "rule"
    /\ req[c].op \in {"createRule", "putRule"} /\ req[c].reads = "rule" => req[c].rule \in DOMAIN req[c].doc

\* A ruleset's rules with the columns of the statements so far.
RulesOnly(t) == [r \in DOMAIN t |-> [version |-> t[r].version, body |-> <<None, None>>]]
WithPeers(t) == [r \in DOMAIN t |-> [version |-> t[r].version, body |-> <<t[r].body[1], None>>]]

\* What a request has read of its ruleset is so while the ruleset has the version it read.
Reads(c) ==
    IsReading(c) =>
        LET p == req[c].id IN
        /\ read[c].version \in Nat \ {0} /\ (rulesets[p] = 0 \/ read[c].version <= rulesets[p])
        /\ rulesets[p] = read[c].version =>
               /\ pc[c] = "peers" => read[c].rules = RulesOnly(rules[p])
               /\ pc[c] = "refs" => read[c].rules = WithPeers(rules[p])
               /\ pc[c] \in {"rule", "response", "commit"} => read[c].rules = rules[p]

\* A restated write expects the version it first read, and at that version its document
\* has every other rule as it is persisted.
Restated(c) ==
    IsRestated(c) =>
        LET p == req[c].id IN
        /\ req[c].expect \in Nat \ {0} /\ (rulesets[p] = 0 \/ req[c].expect <= rulesets[p])
        /\ IsReading(c) => req[c].expect <= read[c].version
        /\ rulesets[p] = req[c].expect =>
               \A r \in RuleIds : r # req[c].rule =>
                   /\ r \in DOMAIN req[c].doc <=> r \in DOMAIN rules[p]
                   /\ r \in DOMAIN rules[p] => req[c].doc[r] = rules[p][r].body

\* A ruleset being created has no row and no readers.
Creating(c) ==
    IsCreating(c) =>
        /\ rulesets[req[c].id] = 0
        /\ \A d \in Clients \ {c} : req[d].id = req[c].id => ~IsReading(d) /\ ~IsRestated(d) /\ ~IsCreating(d)

Rowed == \A p \in Rulesets : rulesets[p] # 0 => p \in used
Requested == \A c \in Clients : Typed(c) /\ Reads(c) /\ Restated(c) /\ Creating(c)

\* What the render under the lock has loaded.
LoadedIsCurrent ==
    /\ load.at \notin {"rulesets"} => load.rulesets = rulesets
    /\ load.at = "peers" => load.rules = [p \in Rulesets |-> RulesOnly(rules[p])]
    /\ load.at = "refs" => load.rules = [p \in Rulesets |-> WithPeers(rules[p])]
    /\ load.at \in {"services", "groups", "save"} => load.rules = rules
    /\ load.at \in {"groups", "save"} => load.services = services
    /\ load.at = "save" => load.groups = groups

IsLoad(l) ==
    l = [at |-> l.at, heals |-> l.heals, rulesets |-> l.rulesets, rules |-> l.rules,
         services |-> l.services, groups |-> l.groups]

Waiting == \E c \in Clients : pc[c] = "lock"
Rendering ==
    /\ lock \in Clients \union {None} /\ \A c \in Clients : pc[c] = "load" <=> lock = c
    /\ lock # None => IsLoad(load) /\ (load.heals \/ missed)
    /\ lock # None /\ load.heals /\ ~Waiting => LoadedIsCurrent
    /\ lock = None /\ ~missed /\ ~Waiting => rendered = Current

Authored == Tables /\ ReferencesResolve /\ Shape /\ Rowed /\ Requested

\* A client that knows rules has read them from a ruleset that was given its id.
Viewed ==
    /\ view = [c \in Clients |-> view[c]]
    /\ \A c \in Clients : DOMAIN view[c].rules # {} => view[c].id \in used

IInv == Authored /\ Viewed /\ Rendering

-----------------------------------------------------------------------------
(* Steps of one request.                                                   *)

\* A step that moves one request only.
Mine(c) ==
    /\ pc' = [pc EXCEPT ![c] = pc'[c]]
    /\ req' = [req EXCEPT ![c] = req'[c]] /\ IsReq(req'[c])
    /\ read' = [read EXCEPT ![c] = read'[c]] /\ IsRead(read'[c])

LEMMA MineShape ==
  ASSUME NEW c \in Clients, Shape, Mine(c)
  PROVE  /\ Shape'
         /\ \A d \in Clients \ {c} : pc'[d] = pc[d] /\ req'[d] = req[d] /\ read'[d] = read[d]
<1>1. \A d \in Clients \ {c} : pc'[d] = pc[d] /\ req'[d] = req[d] /\ read'[d] = read[d]
  BY DEF Shape, Mine
<1>2. pc' = [d \in Clients |-> pc'[d]] /\ req' = [d \in Clients |-> req'[d]] /\ read' = [d \in Clients |-> read'[d]]
  BY DEF Shape, Mine
<1>3. \A d \in Clients : IsReq(req'[d]) /\ IsRead(read'[d])
  BY <1>1 DEF Shape, Mine
<1>4. Shape'
  BY <1>2, <1>3 DEF Shape, IsReq, IsRead
<1> QED BY <1>1, <1>4

\* The rulesets that move in a step of c: one is written under a new version, deleted, or
\* created where none was.
Advances(c) ==
    \A p \in Rulesets :
        \/ rulesets'[p] = rulesets[p] /\ rules'[p] = rules[p]
        \/ rulesets[p] # 0 /\ rulesets'[p] = rulesets[p] + 1
        \/ rulesets'[p] = 0
        \/ rulesets'[p] = 1 /\ IsCreating(c) /\ req[c].id = p

Sound(c) == Typed(c) /\ Reads(c) /\ Restated(c) /\ Creating(c)

\* A step of one request, sound for that request, is sound for every other.
LEMMA OneRequest ==
  ASSUME NEW c \in Clients, Authored, Mine(c), Tables', ReferencesResolve', Rowed', Advances(c),
         used \subseteq used', Sound(c)',
         \A d \in Clients \ {c} : IsCreating(d) /\ req[d].id = req'[c].id =>
             ~IsReading(c)' /\ ~IsRestated(c)' /\ ~IsCreating(c)'
  PROVE  Authored'
<1>1. Shape' /\ \A d \in Clients \ {c} : pc'[d] = pc[d] /\ req'[d] = req[d] /\ read'[d] = read[d]
  BY MineShape DEF Authored
<1> SUFFICES ASSUME NEW d \in Clients, d # c  PROVE Sound(d)'
  BY <1>1 DEF Authored, Requested, Sound
<1>2. pc'[d] = pc[d] /\ req'[d] = req[d] /\ read'[d] = read[d]
  BY <1>1
<1>3. Sound(d) /\ Sound(c)
  BY DEF Authored, Requested, Sound
<1>4. /\ IsReading(d)' = IsReading(d) /\ IsRestated(d)' = IsRestated(d) /\ IsCreating(d)' = IsCreating(d)
      /\ IsAdmitted(d)' = IsAdmitted(d)
  BY <1>2 DEF IsReading, IsRestated, IsCreating, IsAdmitted
<1>5. Typed(d)'
  BY <1>2, <1>3, <1>4 DEF Sound, Typed, Table
<1>6. IsReading(d) \/ IsRestated(d) \/ IsCreating(d) => req[d].id \in Rulesets
  BY <1>3 DEF Sound, Typed, IsReading, IsRestated, IsCreating, IsAdmitted, ReadPcs, RuleOps, RulesetOps
<1>7. Tables
  BY DEF Authored
<1>8. IsReading(d) \/ IsRestated(d) =>
        LET p == req[d].id IN
        \/ rulesets'[p] = rulesets[p] /\ rules'[p] = rules[p]
        \/ rulesets[p] # 0 /\ rulesets'[p] = rulesets[p] + 1
        \/ rulesets'[p] = 0
  BY <1>3, <1>6 DEF Advances, Sound, Creating
<1>9. Reads(d)'
  <2> SUFFICES ASSUME IsReading(d)  PROVE Reads(d)'
    BY <1>4 DEF Reads
  <2> DEFINE p == req[d].id
  <2>1. CASE rulesets'[p] = rulesets[p] /\ rules'[p] = rules[p]
    BY <1>2, <1>3, <2>1 DEF Sound, Reads
  <2>2. CASE (rulesets[p] # 0 /\ rulesets'[p] = rulesets[p] + 1) \/ rulesets'[p] = 0
    BY <1>2, <1>3, <1>6, <1>7, <2>2 DEF Sound, Reads, Tables
  <2> QED BY <1>8, <2>1, <2>2
<1>10. Restated(d)'
  <2> SUFFICES ASSUME IsRestated(d)  PROVE Restated(d)'
    BY <1>4 DEF Restated
  <2> DEFINE p == req[d].id
  <2>1. CASE rulesets'[p] = rulesets[p] /\ rules'[p] = rules[p]
    BY <1>2, <1>3, <1>4, <2>1 DEF Sound, Restated
  <2>2. CASE (rulesets[p] # 0 /\ rulesets'[p] = rulesets[p] + 1) \/ rulesets'[p] = 0
    BY <1>2, <1>3, <1>4, <1>6, <1>7, <2>2 DEF Sound, Restated, Tables
  <2> QED BY <1>8, <2>1, <2>2
<1>11. Creating(d)'
  <2> SUFFICES ASSUME IsCreating(d)  PROVE Creating(d)'
    BY <1>4 DEF Creating
  <2> DEFINE p == req[d].id
  <2>1. rulesets[p] = 0 /\ p \in Rulesets /\ ~(IsCreating(c) /\ req[c].id = p)
    BY <1>3, <1>6 DEF Sound, Creating
  <2>2. rulesets'[p] = 0
    BY <2>1 DEF Advances
  <2>3. ASSUME NEW e \in Clients, e # d, req'[e].id = p  PROVE ~IsReading(e)' /\ ~IsRestated(e)' /\ ~IsCreating(e)'
    <3>1. CASE e = c
      BY <2>3, <3>1
    <3>2. CASE e # c
      <4>1. pc'[e] = pc[e] /\ req'[e] = req[e]
        BY <1>1, <3>2
      <4>2. ~IsReading(e) /\ ~IsRestated(e) /\ ~IsCreating(e)
        BY <1>3, <2>3, <4>1 DEF Sound, Creating
      <4> QED BY <4>1, <4>2 DEF IsReading, IsRestated, IsCreating, IsAdmitted
    <3> QED BY <3>1, <3>2
  <2> QED BY <1>2, <2>2, <2>3 DEF Creating
<1> QED BY <1>5, <1>9, <1>10, <1>11 DEF Sound

\* A step of one request that writes no table.
LEMMA QuietRequest ==
  ASSUME NEW c \in Clients, Authored, Mine(c), UNCHANGED <<services, groups, rulesets, rules>>,
         used \subseteq used', Sound(c)',
         \A d \in Clients \ {c} : IsCreating(d) /\ req[d].id = req'[c].id =>
             ~IsReading(c)' /\ ~IsRestated(c)' /\ ~IsCreating(c)'
  PROVE  Authored'
<1>1. Tables'
  BY DEF Authored, Tables, RuleRows
<1>2. ReferencesResolve'
  BY DEF Authored, ReferencesResolve
<1>3. Rowed'
  BY DEF Authored, Rowed
<1>4. Advances(c)
  BY DEF Advances
<1> QED BY <1>1, <1>2, <1>3, <1>4, OneRequest

LEMMA DocsTyped ==
  /\ \A doc \in Docs : Table(doc, ReadBodies)
  /\ \A r : \A b \in Bodies : Table([x \in {r} |-> b], ReadBodies)
  /\ \A S : Table(NoRules, S) /\ DOMAIN NoRules = {}
<1>1. Bodies \subseteq ReadBodies
  BY BodiesAssumption DEF ReadBodies
<1>2. ASSUME NEW doc \in Docs  PROVE Table(doc, ReadBodies)
  <2>1. PICK S \in SUBSET RuleIds : doc \in [S -> Bodies]
    BY DEF Docs
  <2> QED BY <1>1, <2>1 DEF Table
<1>3. ASSUME NEW r, NEW b \in Bodies  PROVE Table([x \in {r} |-> b], ReadBodies)
  BY <1>1 DEF Table
<1>4. \A S : Table(NoRules, S) /\ DOMAIN NoRules = {}
  BY DEF Table, NoRules
<1> QED BY <1>2, <1>3, <1>4

\* What a request is once it has begun.
LEMMA Begun ==
  ASSUME NEW c \in Clients, Authored, NEW at, NEW r, NEW fresh, IsReq(r), Begin(c, at, r, fresh)
  PROVE  /\ Mine(c) /\ pc'[c] = at /\ req'[c] = r /\ read'[c] = read[c] /\ used' = used \union fresh
         /\ UNCHANGED <<services, groups, rulesets, rules, render>>
<1>1. /\ pc' = [pc EXCEPT ![c] = at] /\ req' = [req EXCEPT ![c] = r] /\ UNCHANGED read
      /\ used' = used \union fresh /\ UNCHANGED <<services, groups, rulesets, rules, render>>
  BY DEF Begin, tables
<1>2. pc'[c] = at /\ req'[c] = r /\ Shape
  BY <1>1 DEF Authored, Shape
<1>3. Mine(c)
  BY <1>1, <1>2 DEF Mine, Shape
<1> QED BY <1>1, <1>2, <1>3

\* A request begins: it has read nothing, restates nothing, and creates a ruleset only
\* under an id that no other request knows.
LEMMA BeginKeeps ==
  ASSUME NEW c \in Clients, Authored, NEW at, NEW r, NEW fresh, IsReq(r), Begin(c, at, r, fresh), Typed(c)',
         at \in {"commit", "admit", "row"},
         at = "row" => r.reads # "commit",
         at = "commit" => r.op \notin RulesetOps \union {"createRuleset"},
         at = "admit" => r.op \notin RuleOps,
         at = "admit" /\ r.op = "createRuleset" => r.id \in Rulesets /\ r.id \notin used
  PROVE  Authored'
<1>1. /\ Mine(c) /\ pc'[c] = at /\ req'[c] = r /\ read'[c] = read[c] /\ used' = used \union fresh
      /\ UNCHANGED <<services, groups, rulesets, rules>>
  BY Begun
<1>2. ~IsReading(c)' /\ ~IsRestated(c)'
  BY <1>1 DEF IsReading, IsRestated, IsAdmitted, ReadPcs, RuleOps, RulesetOps
<1>3. Reads(c)' /\ Restated(c)'
  BY <1>2 DEF Reads, Restated
<1>4. ASSUME IsCreating(c)', NEW d \in Clients, d # c, req[d].id = r.id
      PROVE  ~IsReading(d) /\ ~IsRestated(d) /\ ~IsCreating(d)
  <2>1. r.id \notin used
    BY <1>1, <1>4 DEF IsCreating
  <2>2. Typed(d)
    BY DEF Authored, Requested
  <2> QED BY <1>4, <2>1, <2>2
       DEF Typed, IsReading, IsRestated, IsCreating, IsAdmitted, ReadPcs, RuleOps, RulesetOps
<1>5. Creating(c)'
  <2> SUFFICES ASSUME IsCreating(c)'  PROVE Creating(c)'
    BY DEF Creating
  <2>1. rulesets[r.id] = 0
    BY <1>1 DEF IsCreating, Authored, Rowed
  <2>2. \A d \in Clients \ {c} : pc'[d] = pc[d] /\ req'[d] = req[d]
    BY <1>1, MineShape DEF Authored
  <2>3. ASSUME NEW d \in Clients, d # c, req'[d].id = r.id
        PROVE  ~IsReading(d)' /\ ~IsRestated(d)' /\ ~IsCreating(d)'
    BY <1>4, <2>2, <2>3 DEF IsReading, IsRestated, IsCreating, IsAdmitted
  <2> QED BY <1>1, <2>1, <2>3 DEF Creating
<1>6. ASSUME NEW d \in Clients, d # c, IsCreating(d), req[d].id = req'[c].id  PROVE ~IsCreating(c)'
  BY <1>1, <1>4, <1>6
<1> QED BY <1>1, <1>2, <1>3, <1>5, <1>6, QuietRequest DEF Sound

LEMMA EndpointKeeps ==
  ASSUME NEW c \in Clients, Authored, Viewed, Endpoint(c)
  PROVE  Authored'
<1> USE DEF RulesetOps, RuleOps
<1>0. Typed(c)
  BY DEF Authored, Requested
<1>1. ASSUME NEW op \in {"createService", "putService", "deleteService", "createGroup", "putGroup", "deleteGroup", "deleteRuleset"},
             NEW o, NEW e, NEW fresh, Begin(c, "commit", Req(op, o, None, NoRules, e), fresh),
             op = "deleteRuleset" => o \in Rulesets /\ o \in used
      PROVE  Authored'
  <2> DEFINE r == Req(op, o, None, NoRules, e)
  <2>1. IsReq(r) /\ r.op = op /\ r.id = o /\ r.doc = NoRules /\ r.reads = "rule"
    BY DEF Req, IsReq
  <2> HIDE DEF r
  <2>2. pc'[c] = "commit" /\ req'[c] = r /\ read'[c] = read[c] /\ used' = used \union fresh
    BY <1>1, <2>1, Begun DEF r
  <2>3. Typed(c)'
    BY <1>0, <1>1, <2>1, <2>2, DocsTyped DEF Typed, IsAdmitted, ReadPcs
  <2> QED BY <1>1, <2>1, <2>3, BeginKeeps DEF r
<1>2. ASSUME NEW op \in {"createRuleset", "putRuleset"}, NEW p \in Rulesets, NEW doc \in Docs, NEW e, NEW fresh,
             Begin(c, "admit", Req(op, p, None, doc, e), fresh), p \in used \union fresh,
             op = "createRuleset" => p \notin used
      PROVE  Authored'
  <2> DEFINE r == Req(op, p, None, doc, e)
  <2>1. IsReq(r) /\ r.op = op /\ r.id = p /\ r.doc = doc /\ r.reads = "rule"
    BY DEF Req, IsReq
  <2> HIDE DEF r
  <2>2. pc'[c] = "admit" /\ req'[c] = r /\ read'[c] = read[c] /\ used' = used \union fresh
    BY <1>2, <2>1, Begun DEF r
  <2>3. Typed(c)'
    BY <1>0, <1>2, <2>1, <2>2, DocsTyped DEF Typed, IsAdmitted, ReadPcs
  <2> QED BY <1>2, <2>1, <2>3, BeginKeeps DEF r
<1>3. ASSUME NEW op \in {"get", "createRule", "putRule", "deleteRule"}, NEW p \in Rulesets, NEW k, NEW doc, NEW e, NEW fresh,
             Begin(c, "row", Req(op, p, k, doc, e), fresh), p \in used, Table(doc, ReadBodies),
             op \in {"createRule", "putRule"} => k \in DOMAIN doc
      PROVE  Authored'
  <2> DEFINE r == Req(op, p, k, doc, e)
  <2>1. /\ IsReq(r) /\ r.op = op /\ r.id = p /\ r.doc = doc /\ r.rule = k
        /\ r.reads = IF op = "get" THEN "response" ELSE "rule"
    BY DEF Req, IsReq
  <2> HIDE DEF r
  <2>2. pc'[c] = "row" /\ req'[c] = r /\ read'[c] = read[c] /\ used' = used \union fresh
    BY <1>3, <2>1, Begun DEF r
  <2>3. Typed(c)'
    BY <1>0, <1>3, <2>1, <2>2 DEF Typed, IsAdmitted, ReadPcs
  <2> QED BY <1>3, <2>1, <2>3, BeginKeeps DEF r
<1>4. ASSUME NEW s, createService(c, s) \/ putService(c, s) \/ deleteServiceAt(c, s) \/
             createAddressGroup(c, s) \/ putAddressGroup(c, s) \/ deleteAddressGroupAt(c, s)
      PROVE  Authored'
  BY <1>1, <1>4 DEF createService, putService, deleteServiceAt, createAddressGroup, putAddressGroup, deleteAddressGroupAt
<1>5. ASSUME NEW p \in Rulesets, createRuleset(c, p) \/ putRuleset(c, p) \/ deleteRuleset(c, p) \/ getRuleset(c, p)
      PROVE  Authored'
  <2>1. CASE createRuleset(c, p)
    <3>1. PICK doc \in Docs : p \notin used /\ Begin(c, "admit", Req("createRuleset", p, None, doc, None), {p} \union DOMAIN doc)
      BY <2>1 DEF createRuleset
    <3> QED BY <1>2, <3>1
  <2>2. CASE putRuleset(c, p)
    <3>1. PICK doc \in Docs, e \in ifMatch(TagOf(c, p)) :
              p \in used /\ Begin(c, "admit", Req("putRuleset", p, None, doc, e), DOMAIN doc)
      BY <2>2 DEF putRuleset
    <3> QED BY <1>2, <3>1
  <2>3. CASE deleteRuleset(c, p)
    BY <1>1, <2>3 DEF deleteRuleset
  <2>4. CASE getRuleset(c, p)
    BY <1>3, <2>4, DocsTyped DEF getRuleset
  <2> QED BY <1>5, <2>1, <2>2, <2>3, <2>4
<1>6. ASSUME NEW p \in Rulesets, NEW r, createRule(c, p, r) \/ putRule(c, p, r) \/ deleteRule(c, p, r)
      PROVE  Authored'
  <2>1. \A b \in Bodies : r \in DOMAIN [x \in {r} |-> b] /\ Table([x \in {r} |-> b], ReadBodies)
    BY DocsTyped, Zenon
  <2>2. CASE createRule(c, p, r)
    <3>1. PICK b \in Bodies : p \in used /\ Begin(c, "row", Req("createRule", p, r, [x \in {r} |-> b], None), {r})
      BY <2>2, Zenon DEF createRule
    <3> QED BY <1>3, <2>1, <3>1, Zenon
  <2>3. CASE putRule(c, p, r)
    <3>1. PICK b \in Bodies, e \in ifMatch(view[c].rules[r].version) :
              /\ p = view[c].id /\ r \in DOMAIN view[c].rules
              /\ Begin(c, "row", Req("putRule", p, r, [x \in {r} |-> b], e), {})
      BY <2>3, Zenon DEF putRule
    <3>2. p \in used
      BY <3>1 DEF Viewed
    <3> QED BY <1>3, <2>1, <3>1, <3>2, Zenon
  <2>4. CASE deleteRule(c, p, r)
    <3>1. PICK e \in ifMatch(view[c].rules[r].version) :
              /\ p = view[c].id /\ r \in DOMAIN view[c].rules
              /\ Begin(c, "row", Req("deleteRule", p, r, NoRules, e), {})
      BY <2>4 DEF deleteRule
    <3>2. p \in used
      BY <3>1 DEF Viewed
    <3> QED BY <1>3, <3>1, <3>2, DocsTyped
  <2> QED BY <1>6, <2>2, <2>3, <2>4
<1> QED BY <1>4, <1>5, <1>6 DEF Endpoint

\* A request that is over.
LEMMA DoneKeeps ==
  ASSUME NEW c \in Clients, Authored, Done(c), UNCHANGED <<services, groups, rulesets, rules>>, used \subseteq used'
  PROVE  Authored'
<1>1. IsReq(NoReq) /\ IsRead(NoRead) /\ NoReq.op = "none" /\ NoReq.doc = NoRules /\ NoReq.reads = "rule" /\ NoRead.rules = NoRules
  BY DEF NoReq, Req, NoRead, IsReq, IsRead
<1>2. pc'[c] = "idle" /\ req'[c] = NoReq /\ read'[c] = NoRead
  BY DEF Done, Authored, Shape
<1>3. Mine(c)
  BY <1>1, <1>2, Zenon DEF Done, Mine
<1>4. ~IsAdmitted(c)' /\ ~IsReading(c)' /\ ~IsRestated(c)' /\ ~IsCreating(c)'
  BY <1>1, <1>2 DEF IsAdmitted, IsReading, IsRestated, IsCreating, ReadPcs, RuleOps
<1>5. Typed(c)'
  BY <1>1, <1>2, <1>4, DocsTyped DEF Typed, ReadPcs, RulesetOps, RuleOps
<1>6. Sound(c)'
  BY <1>4, <1>5 DEF Sound, Reads, Restated, Creating
<1> QED BY <1>3, <1>4, <1>6, QuietRequest

-----------------------------------------------------------------------------
(* The statements that read a ruleset.                                     *)

LEMMA ListTyped ==
  ASSUME Tables
  PROVE  /\ \A p \in Rulesets : listAllRules(p) = RulesOnly(rules[p]) /\ Table(listAllRules(p), ReadRows)
         /\ \A rs : Table(rs, ReadRows) =>
                Table(listAllRulePeers(rs), ReadRows) /\ Table(listAllRuleServiceRefs(rs), ReadRows)
<1>1. \A p \in Rulesets : \A r \in DOMAIN rules[p] :
          rules[p][r].version \in Nat /\ rules[p][r].body \in Groups \X Services
  BY DEF Tables, RuleRows
<1>2. ASSUME NEW p \in Rulesets  PROVE listAllRules(p) = RulesOnly(rules[p]) /\ Table(listAllRules(p), ReadRows)
  <2>1. <<None, None>> \in ReadBodies
    BY DEF ReadBodies
  <2> QED BY <1>1, <2>1 DEF listAllRules, RulesOnly, Table, ReadRows
<1>3. ASSUME NEW r, RuleRow(r) # {}
      PROVE  /\ (CHOOSE row \in RuleRow(r) : TRUE).body[1] \in Groups
             /\ (CHOOSE row \in RuleRow(r) : TRUE).body[2] \in Services
  <2>1. (CHOOSE row \in RuleRow(r) : TRUE) \in RuleRow(r)
    BY <1>3
  <2>2. PICK p \in Rulesets : r \in DOMAIN rules[p] /\ (CHOOSE row \in RuleRow(r) : TRUE) = rules[p][r]
    BY <2>1 DEF RuleRow
  <2> QED BY <1>1, <2>2, Zenon
<1>4. ASSUME NEW rs, Table(rs, ReadRows)  PROVE Table(listAllRulePeers(rs), ReadRows)
  <2> SUFFICES ASSUME NEW r \in DOMAIN rs  PROVE listAllRulePeers(rs)[r] \in ReadRows
    BY DEF listAllRulePeers, Table
  <2> DEFINE x == (CHOOSE row \in RuleRow(r) : TRUE).body[1]
  <2>1. rs[r] \in ReadRows
    BY <1>4 DEF Table
  <2>2. CASE RuleRow(r) = {}
    BY <2>1, <2>2 DEF listAllRulePeers
  <2>3. CASE RuleRow(r) # {}
    <3>1. x \in Groups
      BY <1>3, <2>3
    <3>2. listAllRulePeers(rs)[r] = [rs[r] EXCEPT !.body[1] = x]
      BY <2>3 DEF listAllRulePeers
    <3> HIDE DEF x
    <3> QED BY <2>1, <3>1, <3>2 DEF ReadRows, ReadBodies
  <2> QED BY <2>2, <2>3
<1>5. ASSUME NEW rs, Table(rs, ReadRows)  PROVE Table(listAllRuleServiceRefs(rs), ReadRows)
  <2> SUFFICES ASSUME NEW r \in DOMAIN rs  PROVE listAllRuleServiceRefs(rs)[r] \in ReadRows
    BY DEF listAllRuleServiceRefs, Table
  <2> DEFINE x == (CHOOSE row \in RuleRow(r) : TRUE).body[2]
  <2>1. rs[r] \in ReadRows
    BY <1>5 DEF Table
  <2>2. CASE RuleRow(r) = {}
    BY <2>1, <2>2 DEF listAllRuleServiceRefs
  <2>3. CASE RuleRow(r) # {}
    <3>1. x \in Services
      BY <1>3, <2>3
    <3>2. listAllRuleServiceRefs(rs)[r] = [rs[r] EXCEPT !.body[2] = x]
      BY <2>3 DEF listAllRuleServiceRefs
    <3> HIDE DEF x
    <3> QED BY <2>1, <3>1, <3>2 DEF ReadRows, ReadBodies
  <2> QED BY <2>2, <2>3
<1> QED BY <1>2, <1>4, <1>5

\* Over tables that do not move, the statements read a ruleset as it is: a rule is one
\* ruleset's, so the rows its id selects are its own.
LEMMA ListExact ==
  ASSUME Tables, NEW p \in Rulesets
  PROVE  /\ listAllRulePeers(RulesOnly(rules[p])) = WithPeers(rules[p])
         /\ listAllRuleServiceRefs(WithPeers(rules[p])) = rules[p]
<1>1. ASSUME NEW r \in DOMAIN rules[p]
      PROVE  RuleRow(r) # {} /\ (CHOOSE row \in RuleRow(r) : TRUE) = rules[p][r]
  <2>1. \A q \in Rulesets : r \in DOMAIN rules[q] => q = p
    BY DEF Tables
  <2>2. RuleRow(r) = {rules[p][r]}
    BY <2>1 DEF RuleRow
  <2> QED BY <2>2
<1>2. ASSUME NEW r \in DOMAIN rules[p]
      PROVE  LET b == rules[p][r].body IN
             /\ rules[p][r] = [version |-> rules[p][r].version, body |-> b] /\ b = <<b[1], b[2]>>
  BY DEF Tables, RuleRows
<1>3. ASSUME NEW r \in DOMAIN rules[p]
      PROVE  listAllRulePeers(RulesOnly(rules[p]))[r] = WithPeers(rules[p])[r]
  <2>1. listAllRulePeers(RulesOnly(rules[p]))[r] = [RulesOnly(rules[p])[r] EXCEPT !.body[1] = rules[p][r].body[1]]
    BY <1>1, Zenon DEF listAllRulePeers, RulesOnly
  <2>2. @ = [version |-> rules[p][r].version, body |-> <<rules[p][r].body[1], None>>]
    BY DEF RulesOnly
  <2> QED BY <2>1, <2>2 DEF WithPeers
<1>4. ASSUME NEW r \in DOMAIN rules[p]
      PROVE  listAllRuleServiceRefs(WithPeers(rules[p]))[r] = rules[p][r]
  <2>1. listAllRuleServiceRefs(WithPeers(rules[p]))[r] = [WithPeers(rules[p])[r] EXCEPT !.body[2] = rules[p][r].body[2]]
    BY <1>1, Zenon DEF listAllRuleServiceRefs, WithPeers
  <2>2. @ = [version |-> rules[p][r].version, body |-> <<rules[p][r].body[1], rules[p][r].body[2]>>]
    BY DEF WithPeers
  <2> QED BY <1>2, <2>1, <2>2, Zenon
<1>5. listAllRulePeers(RulesOnly(rules[p])) = WithPeers(rules[p])
  <2>1. DOMAIN RulesOnly(rules[p]) = DOMAIN rules[p] /\ WithPeers(rules[p]) = [r \in DOMAIN rules[p] |-> WithPeers(rules[p])[r]]
    BY DEF RulesOnly, WithPeers
  <2>2. listAllRulePeers(RulesOnly(rules[p])) = [r \in DOMAIN rules[p] |-> listAllRulePeers(RulesOnly(rules[p]))[r]]
    BY <2>1 DEF listAllRulePeers
  <2> QED BY <1>3, <2>1, <2>2
<1>6. listAllRuleServiceRefs(WithPeers(rules[p])) = rules[p]
  <2>1. DOMAIN WithPeers(rules[p]) = DOMAIN rules[p] /\ rules[p] = [r \in DOMAIN rules[p] |-> rules[p][r]]
    BY DEF WithPeers, Tables
  <2>2. listAllRuleServiceRefs(WithPeers(rules[p])) = [r \in DOMAIN rules[p] |-> listAllRuleServiceRefs(WithPeers(rules[p]))[r]]
    BY <2>1 DEF listAllRuleServiceRefs
  <2> QED BY <1>4, <2>1, <2>2
<1> QED BY <1>5, <1>6

LEMMA Fields ==
  \A r, v : IsRead(r) =>
      /\ [r EXCEPT !.version = v] = [version |-> v, rules |-> r.rules]
      /\ [r EXCEPT !.rules = v] = [version |-> r.version, rules |-> v]
BY DEF IsRead

LEMMA RequestFields ==
  ASSUME NEW r, NEW x, NEW y, IsReq(r)
  PROVE  /\ [r EXCEPT !.reads = x] =
            [op |-> r.op, id |-> r.id, rule |-> r.rule, doc |-> r.doc, expect |-> r.expect, reads |-> x]
         /\ [[r EXCEPT !.doc = x] EXCEPT !.expect = y] =
            [op |-> r.op, id |-> r.id, rule |-> r.rule, doc |-> x, expect |-> y, reads |-> r.reads]
<1>1. [r EXCEPT !.reads = x] =
      [op |-> r.op, id |-> r.id, rule |-> r.rule, doc |-> r.doc, expect |-> r.expect, reads |-> x]
  BY DEF IsReq
<1> DEFINE q == [r EXCEPT !.doc = x]
<1>2. q = [op |-> r.op, id |-> r.id, rule |-> r.rule, doc |-> x, expect |-> r.expect, reads |-> r.reads]
  BY DEF IsReq
<1> HIDE DEF q
<1>3. [q EXCEPT !.expect = y] =
      [op |-> r.op, id |-> r.id, rule |-> r.rule, doc |-> x, expect |-> y, reads |-> r.reads]
  BY <1>2
<1> QED BY <1>1, <1>3 DEF q

\* A step that reads a ruleset, or goes on with what it read, and keeps the request.
LEMMA ReadSteps ==
  ASSUME NEW c \in Clients, Authored, ReadRow(c) \/ ReadRules(c) \/ ReadPeers(c) \/ ReadRefs(c)
  PROVE  Authored'
<1> DEFINE p == req[c].id
<1> USE DEF ReadPcs
<1>1. Sound(c) /\ Tables /\ Shape /\ IsRead(read[c]) /\ IsReq(req[c]) /\ Rowed
  BY DEF Authored, Requested, Sound, Shape
<1>2. /\ UNCHANGED <<services, groups, rulesets, rules, used, req>> /\ pc[c] \in ReadPcs
      /\ pc' = [pc EXCEPT ![c] = pc'[c]] /\ pc'[c] \in {"rules", "peers", "refs", req[c].reads}
  BY <1>1 DEF ReadRow, ReadRules, ReadPeers, ReadRefs, tables, Shape
<1>3. p \in Rulesets /\ req[c].op \in RulesetOps \union {"get", "createRuleset"}
  BY <1>1, <1>2 DEF Sound, Typed, RulesetOps
<1>4. /\ read' = [read EXCEPT ![c] = read'[c]] /\ IsRead(read'[c]) /\ Table(read'[c].rules, ReadRows)
      /\ ReadRow(c) => read'[c].version = rulesets[p] /\ pc'[c] = "rules" /\ rulesets[p] # 0
      /\ ReadRules(c) => read'[c].version = read[c].version /\ read'[c].rules = listAllRules(p) /\ pc'[c] = "peers"
      /\ ReadPeers(c) => read'[c].version = read[c].version /\ read'[c].rules = listAllRulePeers(read[c].rules) /\ pc'[c] = "refs"
      /\ ReadRefs(c) => read'[c].version = read[c].version /\ read'[c].rules = listAllRuleServiceRefs(read[c].rules) /\ pc'[c] = req[c].reads
  <2>0. Table(read[c].rules, ReadRows)
    BY <1>1, ZenonT(40) DEF Sound, Typed
  <2>1. CASE ReadRow(c)
    <3>1. read' = [read EXCEPT ![c] = [version |-> rulesets[p], rules |-> read[c].rules]]
      BY <1>1, <2>1, Fields, Zenon DEF ReadRow
    <3>2. read'[c] = [version |-> rulesets[p], rules |-> read[c].rules]
      BY <1>1, <3>1 DEF Shape
    <3>3. pc[c] = "row" /\ pc'[c] = "rules" /\ rulesets[p] # 0
      BY <1>1, <2>1 DEF ReadRow, Shape
    <3>5. ~ReadRules(c) /\ ~ReadPeers(c) /\ ~ReadRefs(c)
      BY <3>3 DEF ReadRules, ReadPeers, ReadRefs
    <3>6. read' = [read EXCEPT ![c] = read'[c]]
      BY <3>1, <3>2, Zenon
    <3>7. IsRead(read'[c])
      BY <3>2 DEF IsRead
    <3> QED BY <2>0, <3>2, <3>3, <3>5, <3>6, <3>7
  <2>2. CASE ReadRules(c)
    <3>1. read' = [read EXCEPT ![c] = [version |-> read[c].version, rules |-> listAllRules(p)]]
      BY <1>1, <2>2, Fields, Zenon DEF ReadRules
    <3>2. read'[c] = [version |-> read[c].version, rules |-> listAllRules(p)]
      BY <1>1, <3>1 DEF Shape
    <3>3. pc[c] = "rules" /\ pc'[c] = "peers"
      BY <1>1, <2>2 DEF ReadRules, Shape
    <3>4. Table(listAllRules(p), ReadRows)
      BY <1>1, <1>3, ListTyped
    <3>5. ~ReadRow(c) /\ ~ReadPeers(c) /\ ~ReadRefs(c)
      BY <3>3 DEF ReadRow, ReadPeers, ReadRefs
    <3>6. read' = [read EXCEPT ![c] = read'[c]]
      BY <3>1, <3>2, Zenon
    <3>7. IsRead(read'[c])
      BY <3>2 DEF IsRead
    <3> QED BY <3>4, <3>2, <3>3, <3>5, <3>6, <3>7
  <2>3. CASE ReadPeers(c)
    <3>1. read' = [read EXCEPT ![c] = [version |-> read[c].version, rules |-> listAllRulePeers(read[c].rules)]]
      BY <1>1, <2>3, Fields, Zenon DEF ReadPeers
    <3>2. read'[c] = [version |-> read[c].version, rules |-> listAllRulePeers(read[c].rules)]
      BY <1>1, <3>1 DEF Shape
    <3>3. pc[c] = "peers" /\ pc'[c] = "refs"
      BY <1>1, <2>3 DEF ReadPeers, Shape
    <3>4. Table(listAllRulePeers(read[c].rules), ReadRows)
      BY <1>1, <2>0, ListTyped
    <3>5. ~ReadRow(c) /\ ~ReadRules(c) /\ ~ReadRefs(c)
      BY <3>3 DEF ReadRow, ReadRules, ReadRefs
    <3>6. read' = [read EXCEPT ![c] = read'[c]]
      BY <3>1, <3>2, Zenon
    <3>7. IsRead(read'[c])
      BY <3>2 DEF IsRead
    <3> QED BY <3>4, <3>2, <3>3, <3>5, <3>6, <3>7
  <2>4. CASE ReadRefs(c)
    <3>1. read' = [read EXCEPT ![c] = [version |-> read[c].version, rules |-> listAllRuleServiceRefs(read[c].rules)]]
      BY <1>1, <2>4, Fields, Zenon DEF ReadRefs
    <3>2. read'[c] = [version |-> read[c].version, rules |-> listAllRuleServiceRefs(read[c].rules)]
      BY <1>1, <3>1 DEF Shape
    <3>3. pc[c] = "refs" /\ pc'[c] = req[c].reads
      BY <1>1, <2>4 DEF ReadRefs, Shape
    <3>4. Table(listAllRuleServiceRefs(read[c].rules), ReadRows)
      BY <1>1, <2>0, ListTyped
    <3>5. ~ReadRow(c) /\ ~ReadRules(c) /\ ~ReadPeers(c)
      BY <3>3 DEF ReadRow, ReadRules, ReadPeers
    <3>6. read' = [read EXCEPT ![c] = read'[c]]
      BY <3>1, <3>2, Zenon
    <3>7. IsRead(read'[c])
      BY <3>2 DEF IsRead
    <3> QED BY <3>4, <3>2, <3>3, <3>5, <3>6, <3>7
  <2> QED BY <2>1, <2>2, <2>3, <2>4, Zenon
<1>5. Mine(c)
  BY <1>1, <1>2, <1>4, Zenon DEF Mine, Shape
<1>6. (IsAdmitted(c)' => IsAdmitted(c)) /\ (IsRestated(c)' <=> IsRestated(c)) /\ ~IsCreating(c)' /\ IsReading(c)'
  BY <1>1, <1>2, <1>3, Zenon DEF IsAdmitted, IsRestated, IsCreating, IsReading, Sound, Typed, RuleOps, RulesetOps
<1>7. Typed(c)'
  BY <1>1, <1>2, <1>3, <1>4, <1>6, Zenon DEF Sound, Typed, RuleOps, RulesetOps
<1>8. Reads(c)'
  <2>1. CASE ReadRow(c)
    BY <1>1, <1>2, <1>3, <1>4, <2>1 DEF Reads, Tables
  <2>2. CASE ~ReadRow(c)
    <3>1. IsReading(c) /\ read'[c].version = read[c].version
      BY <1>4, <2>2 DEF IsReading, ReadRules, ReadPeers, ReadRefs
    <3>2. read[c].version \in Nat \ {0} /\ (rulesets[p] = 0 \/ read[c].version <= rulesets[p])
      BY <1>1, <3>1 DEF Sound, Reads
    <3>3. ASSUME rulesets[p] = read[c].version
          PROVE  /\ ReadRules(c) => read'[c].rules = RulesOnly(rules[p])
                 /\ ReadPeers(c) => read'[c].rules = WithPeers(rules[p])
                 /\ ReadRefs(c) => read'[c].rules = rules[p]
      BY <1>1, <1>3, <1>4, <3>1, <3>3, ListTyped, ListExact DEF Sound, Reads, ReadPeers, ReadRefs
    <3>4. /\ pc'[c] = "peers" => ReadRules(c)
          /\ pc'[c] = "refs" => ReadPeers(c)
          /\ pc'[c] \in {"rule", "response", "commit"} => ReadRefs(c)
      BY <1>1, <1>4, <2>2, Zenon DEF Sound, Typed
    <3> QED BY <1>2, <3>1, <3>2, <3>3, <3>4 DEF Reads
  <2> QED BY <2>1, <2>2
<1>9. Restated(c)'
  <2> SUFFICES ASSUME IsRestated(c)  PROVE Restated(c)'
    BY <1>6 DEF Restated
  <2>1. req[c].expect \in Nat /\ req[c].expect <= read'[c].version
    <3>1. CASE ReadRow(c)
      BY <1>1, <1>4, <3>1 DEF Sound, Restated
    <3>2. CASE ~ReadRow(c)
      BY <1>1, <1>4, <3>2 DEF Sound, Restated, IsReading, ReadRules, ReadPeers, ReadRefs
    <3> QED BY <3>1, <3>2, SMTT(30)
  <2> QED BY <1>1, <1>2, <2>1, ZenonT(40) DEF Sound, Restated
<1>10. Creating(c)'
  BY <1>6 DEF Creating
<1>11. ASSUME NEW d \in Clients \ {c}, IsCreating(d), req[d].id = req'[c].id  PROVE FALSE
  <2>1. Creating(d) /\ ~IsReading(c)
    BY <1>2, <1>11 DEF Authored, Requested, Creating
  <2>2. rulesets[p] = 0
    BY <1>2, <1>11, <2>1 DEF Creating
  <2> QED BY <1>4, <2>1, <2>2 DEF IsReading, ReadRules, ReadPeers, ReadRefs
<1> QED BY <1>2, <1>5, <1>7, <1>8, <1>9, <1>10, <1>11, QuietRequest DEF Sound

-----------------------------------------------------------------------------
(* The rule-level writes, and admission.                                   *)

LEMMA RuleWriteSteps ==
  ASSUME NEW c \in Clients, Authored, CreateRule(c) \/ UpdateRule(c) \/ DeleteRule(c)
  PROVE  Authored'
<1> DEFINE p == req[c].id
           k == req[c].rule
<1>1. Sound(c) /\ Tables /\ Shape /\ IsReq(req[c]) /\ IsRead(read[c])
  BY DEF Authored, Requested, Sound, Shape
<1>2. PICK doc : /\ AsRulesetWrite(c, doc)
                 /\ \/ /\ doc = WithRule(read[c].rules, k, req[c].doc[k])
                       /\ req[c].op \in {"createRule", "putRule"}
                    \/ doc = WithoutRule(read[c].rules, k) /\ req[c].op = "deleteRule"
  BY DEF CreateRule, UpdateRule, DeleteRule
<1>3. pc[c] = "rule" /\ req[c].op \in RuleOps
  BY DEF CreateRule, UpdateRule, DeleteRule, RuleOps
<1>4. /\ UNCHANGED <<services, groups, rulesets, rules, used, read>>
      /\ pc' = [pc EXCEPT ![c] = "admit"] /\ pc'[c] = "admit"
      /\ req' = [req EXCEPT ![c].doc = doc, ![c].expect = read[c].version]
  BY <1>1, <1>2 DEF AsRulesetWrite, tables, Shape
<1>5. /\ req'[c].op = req[c].op /\ req'[c].id = p /\ req'[c].rule = k /\ req'[c].reads = req[c].reads
      /\ req'[c].doc = doc /\ req'[c].expect = read[c].version /\ IsReq(req'[c])
      /\ req' = [req EXCEPT ![c] = req'[c]]
  <2>0. req' = [req EXCEPT ![c] = [[req[c] EXCEPT !.doc = doc] EXCEPT !.expect = read[c].version]]
    BY <1>1, <1>4, Zenon DEF Shape
  <2>1. req' = [req EXCEPT ![c] = [op |-> req[c].op, id |-> p, rule |-> k, doc |-> doc,
                                   expect |-> read[c].version, reads |-> req[c].reads]]
    BY <1>1, <2>0, RequestFields, Zenon
  <2>2. req'[c] = [op |-> req[c].op, id |-> p, rule |-> k, doc |-> doc, expect |-> read[c].version, reads |-> req[c].reads]
    BY <1>1, <2>1, SMTT(30) DEF Shape
  <2>3. IsReq(req'[c])
    BY <2>2 DEF IsReq
  <2>4. req' = [req EXCEPT ![c] = req'[c]]
    BY <2>1, <2>2, Zenon
  <2> QED BY <2>2, <2>3, <2>4
<1>6. Mine(c)
  BY <1>1, <1>4, <1>5, SMTT(30) DEF Mine, Shape
<1>7. IsReading(c) /\ p \in Rulesets /\ req[c].reads = "rule"
  BY <1>1, <1>3 DEF IsReading, Sound, Typed, RulesetOps, RuleOps
<1>8. ~IsReading(c)' /\ ~IsAdmitted(c)' /\ ~IsCreating(c)' /\ IsRestated(c)'
  BY <1>3, <1>4, <1>5 DEF IsReading, IsAdmitted, IsCreating, IsRestated, ReadPcs, RuleOps
<1>9. /\ Table(doc, ReadBodies)
      /\ req[c].op \in {"createRule", "putRule"} => k \in DOMAIN doc
      /\ \A r : r # k =>
             /\ r \in DOMAIN doc <=> r \in DOMAIN read[c].rules
             /\ r \in DOMAIN doc => doc[r] = read[c].rules[r].body
  <2>1. \A r \in DOMAIN read[c].rules : read[c].rules[r].body \in ReadBodies
    BY <1>1 DEF Sound, Typed, Table, ReadRows
  <2>2. CASE doc = WithRule(read[c].rules, k, req[c].doc[k]) /\ req[c].op \in {"createRule", "putRule"}
    <3>1. req[c].doc[k] \in ReadBodies
      BY <1>1, <1>7, <2>2, ZenonT(40) DEF Sound, Typed, Table
    <3> QED BY <2>1, <2>2, <3>1 DEF WithRule, Table
  <2>3. CASE doc = WithoutRule(read[c].rules, k) /\ req[c].op = "deleteRule"
    BY <2>1, <2>3 DEF WithoutRule, Table
  <2> QED BY <1>2, <2>2, <2>3, Zenon
<1>10. Typed(c)'
  BY <1>1, <1>3, <1>4, <1>5, <1>7, <1>8, <1>9 DEF Sound, Typed, RulesetOps, RuleOps, ReadPcs
<1>11. Restated(c)'
  <2>1. read[c].version \in Nat \ {0} /\ (rulesets[p] = 0 \/ read[c].version <= rulesets[p])
    BY <1>1, <1>7 DEF Sound, Reads
  <2>2. rulesets[p] = read[c].version => read[c].rules = rules[p]
    BY <1>1, <1>3, <1>7 DEF Sound, Reads
  <2>3. ASSUME rulesets[p] = read[c].version, NEW r \in RuleIds, r # k
        PROVE  /\ r \in DOMAIN doc <=> r \in DOMAIN rules[p]
               /\ r \in DOMAIN rules[p] => doc[r] = rules[p][r].body
    BY <1>9, <2>2, <2>3
  <2> QED BY <1>4, <1>5, <1>8, <2>1, <2>3, Zenon DEF Restated
<1>12. Reads(c)' /\ Creating(c)'
  BY <1>8 DEF Reads, Creating
<1>13. ASSUME NEW d \in Clients \ {c}, IsCreating(d), req[d].id = req'[c].id  PROVE FALSE
  BY <1>5, <1>7, <1>13 DEF Authored, Requested, Creating
<1> QED BY <1>4, <1>6, <1>10, <1>11, <1>12, <1>13, QuietRequest, Zenon DEF Sound

LEMMA AdmitKeeps ==
  ASSUME NEW c \in Clients, Authored, Admit(c)
  PROVE  Authored'
<1> DEFINE p == req[c].id
           next == IF req[c].op = "createRuleset" THEN "commit" ELSE "row"
<1>1. Sound(c) /\ Shape /\ IsReq(req[c])
  BY DEF Authored, Requested, Sound, Shape
<1>2. /\ UNCHANGED <<services, groups, rulesets, rules, used>> /\ pc[c] = "admit" /\ Admitted(req[c].doc)
      /\ pc' = [pc EXCEPT ![c] = next] /\ pc'[c] = next
      /\ read' = [read EXCEPT ![c] = NoRead] /\ read'[c] = NoRead
      /\ req' = [req EXCEPT ![c].reads = "commit"]
  BY <1>1, SMTT(30) DEF Admit, tables, Shape
<1>3. /\ req'[c].op = req[c].op /\ req'[c].id = p /\ req'[c].rule = req[c].rule /\ req'[c].reads = "commit"
      /\ req'[c].doc = req[c].doc /\ req'[c].expect = req[c].expect /\ IsReq(req'[c])
      /\ req' = [req EXCEPT ![c] = req'[c]]
  <2>1. req' = [req EXCEPT ![c] = [op |-> req[c].op, id |-> p, rule |-> req[c].rule, doc |-> req[c].doc,
                                   expect |-> req[c].expect, reads |-> "commit"]]
    BY <1>1, <1>2, RequestFields, Zenon
  <2>2. req'[c] = [op |-> req[c].op, id |-> p, rule |-> req[c].rule, doc |-> req[c].doc,
                   expect |-> req[c].expect, reads |-> "commit"]
    BY <1>1, <2>1 DEF Shape
  <2>3. IsReq(req'[c])
    BY <2>2 DEF IsReq
  <2>4. req' = [req EXCEPT ![c] = req'[c]]
    BY <2>1, <2>2, Zenon
  <2> QED BY <2>2, <2>3, <2>4
<1>4. IsRead(NoRead) /\ NoRead.rules = NoRules
  BY DEF IsRead, NoRead
<1>5. Mine(c)
  BY <1>2, <1>3, <1>4, Zenon DEF Mine
<1>6. /\ ~IsReading(c)' /\ (IsCreating(c)' <=> IsCreating(c)) /\ (IsRestated(c)' <=> IsRestated(c))
      /\ req[c].op \in RulesetOps \union {"createRuleset"}
  BY <1>1, <1>2, <1>3, SMTT(30) DEF IsReading, IsCreating, IsRestated, IsAdmitted, Sound, Typed, ReadPcs, RuleOps, RulesetOps
<1>7. Table(req[c].doc, Groups \X Services)
  <2>1. \A r \in DOMAIN req[c].doc : req[c].doc[r] \in ReadBodies /\ None \notin {req[c].doc[r][1], req[c].doc[r][2]}
    BY <1>1, <1>2 DEF Sound, Typed, Table, Admitted
  <2>2. \A b \in ReadBodies : None \notin {b[1], b[2]} => b \in Groups \X Services
    BY DEF ReadBodies
  <2> QED BY <1>1, <2>1, <2>2 DEF Sound, Typed, Table
<1>8. Typed(c)'
  BY <1>1, <1>2, <1>3, <1>4, <1>6, <1>7, DocsTyped, SMTT(30) DEF Sound, Typed, ReadPcs, RulesetOps, RuleOps
<1>9. Reads(c)'
  BY <1>6 DEF Reads
<1>10. Restated(c)'
  BY <1>1, <1>2, <1>3, <1>6, SMTT(30) DEF Sound, Restated
<1>11. Creating(c)'
  <2>1. \A d \in Clients \ {c} : pc'[d] = pc[d] /\ req'[d] = req[d]
    BY <1>1, <1>5, MineShape
  <2>2. ASSUME NEW d \in Clients \ {c}
        PROVE  /\ IsReading(d)' = IsReading(d) /\ IsRestated(d)' = IsRestated(d) /\ IsCreating(d)' = IsCreating(d)
               /\ req'[d].id = req[d].id
    BY <2>1 DEF IsReading, IsRestated, IsAdmitted, IsCreating
  <2>3. CASE IsCreating(c)
    <3>1. rulesets'[req'[c].id] = 0
      BY <1>1, <1>2, <1>3, <2>3 DEF Sound, Creating
    <3>2. ASSUME NEW d \in Clients \ {c}, req'[d].id = req'[c].id
          PROVE  ~IsReading(d)' /\ ~IsRestated(d)' /\ ~IsCreating(d)'
      BY <1>1, <1>3, <2>2, <2>3, <3>2 DEF Sound, Creating
    <3> QED BY <3>1, <3>2 DEF Creating
  <2> QED BY <1>6, <2>3 DEF Creating
<1>12. ASSUME NEW d \in Clients \ {c}, IsCreating(d), req[d].id = req'[c].id
       PROVE  ~IsReading(c)' /\ ~IsRestated(c)' /\ ~IsCreating(c)'
  BY <1>3, <1>6, <1>12 DEF Authored, Requested, Creating
<1> QED BY <1>2, <1>5, <1>8, <1>9, <1>10, <1>11, <1>12, QuietRequest DEF Sound

-----------------------------------------------------------------------------
(* The transactions.                                                       *)

\* What carryRuleProvenance makes of a document: its rules, versioned, and a rule that
\* did not change keeps its version.
LEMMA Carried ==
  ASSUME NEW prev, NEW doc, Table(prev, ReadRows), Table(doc, Groups \X Services)
  PROVE  LET next == carryRuleProvenance(prev, doc) IN
         /\ Table(next, RuleRows) /\ DOMAIN next = DOMAIN doc
         /\ \A r \in DOMAIN doc :
                /\ next[r].body = doc[r]
                /\ r \in DOMAIN prev /\ prev[r].body = doc[r] => next[r].version = prev[r].version
<1> DEFINE next == carryRuleProvenance(prev, doc)
           version(r) == IF r \notin DOMAIN prev THEN 1
                         ELSE prev[r].version + IF RuleEqual(prev[r], doc[r]) THEN 0 ELSE 1
<1>1. next = [r \in DOMAIN doc |-> [body |-> doc[r], version |-> version(r)]]
  BY DEF carryRuleProvenance
<1>2. ASSUME NEW r \in DOMAIN doc
      PROVE  /\ version(r) \in Nat
             /\ r \in DOMAIN prev /\ prev[r].body = doc[r] => version(r) = prev[r].version
  <2>1. r \in DOMAIN prev => prev[r].version \in Nat
    BY DEF Table, ReadRows
  <2> QED BY <2>1 DEF RuleEqual
<1> HIDE DEF next, version
<1>3. ASSUME NEW r \in DOMAIN doc
      PROVE  next[r] \in RuleRows /\ next[r].body = doc[r] /\ next[r].version = version(r)
  <2>1. next[r] = [body |-> doc[r], version |-> version(r)]
    BY <1>1
  <2>2. doc[r] \in Groups \X Services
    BY DEF Table
  <2> QED BY <1>2, <2>1, <2>2 DEF RuleRows
<1>4. Table(next, RuleRows) /\ DOMAIN next = DOMAIN doc
  BY <1>1, <1>3, SMTT(30) DEF Table
<1> QED BY <1>2, <1>3, <1>4 DEF next

\* A request that is committed has read nothing, and restates nothing any more.
LEMMA CommittedSound ==
  ASSUME NEW c \in Clients, Authored, Committed(c)
  PROVE  /\ Mine(c) /\ Sound(c)' /\ pc'[c] = "lock" /\ UNCHANGED <<used, req>>
         /\ ~IsReading(c)' /\ ~IsRestated(c)' /\ ~IsCreating(c)'
<1>1. Sound(c) /\ Shape /\ IsReq(req[c])
  BY DEF Authored, Requested, Sound, Shape
<1>2. /\ pc' = [pc EXCEPT ![c] = "lock"] /\ read' = [read EXCEPT ![c] = NoRead] /\ UNCHANGED <<used, req>>
      /\ pc'[c] = "lock" /\ read'[c] = NoRead
  BY <1>1 DEF Committed, Shape
<1>3. IsRead(NoRead) /\ NoRead.rules = NoRules
  BY DEF IsRead, NoRead
<1>4. Mine(c)
  BY <1>1, <1>2, <1>3, Zenon DEF Mine, Shape
<1>5. ~IsAdmitted(c)' /\ ~IsReading(c)' /\ ~IsRestated(c)' /\ ~IsCreating(c)'
  BY <1>2 DEF IsAdmitted, IsReading, IsRestated, IsCreating, ReadPcs
<1>6. Typed(c)'
  BY <1>1, <1>2, <1>3, <1>5, DocsTyped, Zenon DEF Sound, Typed, ReadPcs
<1> QED BY <1>2, <1>4, <1>5, <1>6 DEF Sound, Reads, Restated, Creating

ServiceWrites(c) == CreateService(c) \/ UpdateService(c) \/ DeleteService(c)
GroupWrites(c) == CreateAddressGroup(c) \/ UpdateAddressGroup(c) \/ DeleteAddressGroup(c)
RulesetWrites(c) == CreateRuleset(c) \/ WriteRuleset(c) \/ DeleteRuleset(c)

LEMMA ServiceWritesKeep ==
  ASSUME NEW c \in Clients, Authored, ServiceWrites(c)
  PROVE  Authored'
<1> DEFINE s == req[c].id
<1>1. Tables /\ ReferencesResolve /\ Rowed
  BY DEF Authored
<1>2. Committed(c) /\ UNCHANGED <<groups, rulesets, rules>>
  BY DEF ServiceWrites, CreateService, UpdateService, DeleteService,
         StoreCreateService, StoreUpdateService, StoreDeleteService
<1>3. \/ services' = [services EXCEPT ![s] = 1]
      \/ services' = [services EXCEPT ![s] = @ + 1]
      \/ services' = [services EXCEPT ![s] = 0] /\ ~InUse(s)
  BY DEF ServiceWrites, CreateService, UpdateService, DeleteService,
         StoreCreateService, StoreUpdateService, StoreDeleteService, deleteService
<1>4. services' \in [Services -> Nat] /\ \A x \in Services : services[x] # 0 /\ services'[x] = 0 => ~InUse(x)
  <2>1. services \in [Services -> Nat]
    BY <1>1 DEF Tables
  <2>2. CASE services' = [services EXCEPT ![s] = 1]
    <3>1. services' \in [Services -> Nat]
      BY <2>1, <2>2, Zenon
    <3>2. \A x \in Services : services'[x] = IF x = s THEN 1 ELSE services[x]
      BY <2>1, <2>2
    <3>3. \A x \in Services : services[x] # 0 => services'[x] # 0
      BY <2>1, <3>2
    <3> QED BY <3>1, <3>3
  <2>3. CASE services' = [services EXCEPT ![s] = @ + 1]
    <3>1. services' = [x \in Services |-> services'[x]]
      BY <2>1, <2>3, Zenon
    <3>2. \A x \in Services : services'[x] = IF x = s THEN services[x] + 1 ELSE services[x]
      BY <2>1, <2>3
    <3>3. \A x \in Services : services'[x] \in Nat /\ (services[x] # 0 => services'[x] # 0)
      BY <2>1, <3>2
    <3> QED BY <3>1, <3>3
  <2>4. CASE services' = [services EXCEPT ![s] = 0] /\ ~InUse(s)
    BY <2>1, <2>4, Zenon
  <2> QED BY <1>3, <2>2, <2>3, <2>4
<1>5. Tables'
  BY <1>1, <1>2, <1>4 DEF Tables
<1>6. ReferencesResolve'
  <2>1. \A p \in Rulesets : \A r \in DOMAIN rules[p] : rules[p][r].body[2] \in Services /\ InUse(rules[p][r].body[2])
    BY <1>1 DEF Tables, RuleRows, InUse
  <2> QED BY <1>1, <1>2, <1>4, <2>1 DEF ReferencesResolve
<1>7. Rowed' /\ Advances(c) /\ used \subseteq used'
  BY <1>1, <1>2, CommittedSound DEF Rowed, Advances
<1> QED BY <1>2, <1>5, <1>6, <1>7, CommittedSound, OneRequest, Zenon

LEMMA GroupWritesKeep ==
  ASSUME NEW c \in Clients, Authored, GroupWrites(c)
  PROVE  Authored'
<1> DEFINE g == req[c].id
<1>1. Tables /\ ReferencesResolve /\ Rowed
  BY DEF Authored
<1>2. Committed(c) /\ UNCHANGED <<services, rulesets, rules>>
  BY DEF GroupWrites, CreateAddressGroup, UpdateAddressGroup, DeleteAddressGroup,
         StoreCreateAddressGroup, StoreUpdateAddressGroup, StoreDeleteAddressGroup
<1>3. \/ groups' = [groups EXCEPT ![g] = 1]
      \/ groups' = [groups EXCEPT ![g] = @ + 1]
      \/ groups' = [groups EXCEPT ![g] = 0] /\ ~InUse(g)
  BY DEF GroupWrites, CreateAddressGroup, UpdateAddressGroup, DeleteAddressGroup,
         StoreCreateAddressGroup, StoreUpdateAddressGroup, StoreDeleteAddressGroup, deleteAddressGroup
<1>4. groups' \in [Groups -> Nat] /\ \A x \in Groups : groups[x] # 0 /\ groups'[x] = 0 => ~InUse(x)
  <2>1. groups \in [Groups -> Nat]
    BY <1>1 DEF Tables
  <2>2. CASE groups' = [groups EXCEPT ![g] = 1]
    <3>1. groups' \in [Groups -> Nat]
      BY <2>1, <2>2, Zenon
    <3>2. \A x \in Groups : groups'[x] = IF x = g THEN 1 ELSE groups[x]
      BY <2>1, <2>2
    <3>3. \A x \in Groups : groups[x] # 0 => groups'[x] # 0
      BY <2>1, <3>2
    <3> QED BY <3>1, <3>3
  <2>3. CASE groups' = [groups EXCEPT ![g] = @ + 1]
    <3>1. groups' = [x \in Groups |-> groups'[x]]
      BY <2>1, <2>3, Zenon
    <3>2. \A x \in Groups : groups'[x] = IF x = g THEN groups[x] + 1 ELSE groups[x]
      BY <2>1, <2>3
    <3>3. \A x \in Groups : groups'[x] \in Nat /\ (groups[x] # 0 => groups'[x] # 0)
      BY <2>1, <3>2
    <3> QED BY <3>1, <3>3
  <2>4. CASE groups' = [groups EXCEPT ![g] = 0] /\ ~InUse(g)
    BY <2>1, <2>4, Zenon
  <2> QED BY <1>3, <2>2, <2>3, <2>4
<1>5. Tables'
  BY <1>1, <1>2, <1>4 DEF Tables
<1>6. ReferencesResolve'
  <2>1. \A p \in Rulesets : \A r \in DOMAIN rules[p] : rules[p][r].body[1] \in Groups /\ InUse(rules[p][r].body[1])
    BY <1>1 DEF Tables, RuleRows, InUse
  <2> QED BY <1>1, <1>2, <1>4, <2>1 DEF ReferencesResolve
<1>7. Rowed' /\ Advances(c) /\ used \subseteq used'
  BY <1>1, <1>2, CommittedSound DEF Rowed, Advances
<1> QED BY <1>2, <1>5, <1>6, <1>7, CommittedSound, OneRequest

\* A ruleset is put in place, or taken away: its rules are rows, no other ruleset has one
\* of them, and what they refer to exists.
Put(p, v, next) ==
    /\ Table(next, RuleRows) /\ addRulesetChildren(p, next) /\ (v = 0 => DOMAIN next = {})
    /\ rulesets' = [rulesets EXCEPT ![p] = v] /\ rules' = [rules EXCEPT ![p] = next]
    /\ UNCHANGED <<services, groups>>

LEMMA RulesetPut ==
  ASSUME Tables, ReferencesResolve, NEW p \in Rulesets, NEW v \in Nat, NEW next, Put(p, v, next)
  PROVE  /\ Tables' /\ ReferencesResolve'
         /\ \A q \in Rulesets : rulesets'[q] = IF q = p THEN v ELSE rulesets[q]
         /\ \A q \in Rulesets : rules'[q] = IF q = p THEN next ELSE rules[q]
<1>1. /\ rulesets' \in [Rulesets -> Nat] /\ rules' = [q \in Rulesets |-> rules'[q]]
      /\ \A q \in Rulesets : rulesets'[q] = IF q = p THEN v ELSE rulesets[q]
      /\ \A q \in Rulesets : rules'[q] = IF q = p THEN next ELSE rules[q]
  BY DEF Tables, Put
<1>2. ASSUME NEW q \in Rulesets
      PROVE  /\ rules'[q] = [r \in DOMAIN rules'[q] |-> rules'[q][r]]
             /\ \A r \in DOMAIN rules'[q] : rules'[q][r] \in RuleRows
             /\ rulesets'[q] = 0 => DOMAIN rules'[q] = {}
  <2>1. CASE q = p
    BY <1>1, <2>1 DEF Table, Put
  <2>2. CASE q # p
    <3>1. rules'[q] = rules[q] /\ rulesets'[q] = rulesets[q]
      BY <1>1, <2>2
    <3> QED BY <3>1 DEF Tables
  <2> QED BY <2>1, <2>2
<1>3. ASSUME NEW q \in Rulesets, NEW o \in Rulesets \ {q}
      PROVE  DOMAIN rules'[q] \intersect DOMAIN rules'[o] = {}
  <2>1. \A r \in DOMAIN next : \A x \in Rulesets \ {p} : r \notin DOMAIN rules[x]
    BY DEF addRulesetChildren, addRule, Put
  <2>2. CASE q = p
    BY <1>1, <2>1, <2>2
  <2>3. CASE o = p
    BY <1>1, <2>1, <2>3
  <2>4. CASE q # p /\ o # p
    BY <1>1, <2>4 DEF Tables
  <2> QED BY <2>2, <2>3, <2>4
<1>4. Tables'
  <2>1. services' \in [Services -> Nat] /\ groups' \in [Groups -> Nat]
    BY DEF Tables, Put
  <2>2. RuleRows' = RuleRows
    BY DEF RuleRows
  <2> QED BY <1>1, <1>2, <1>3, <2>1, <2>2 DEF Tables
<1>5. ASSUME NEW q \in Rulesets, NEW r \in DOMAIN rules'[q]
      PROVE  groups[rules'[q][r].body[1]] # 0 /\ services[rules'[q][r].body[2]] # 0
  <2>1. CASE q = p
    BY <1>1, <1>5, <2>1 DEF addRulesetChildren, addRulePeer, addRuleServiceRef, Put
  <2>2. CASE q # p
    BY <1>1, <1>5, <2>2 DEF ReferencesResolve
  <2> QED BY <2>1, <2>2
<1>6. ReferencesResolve'
  BY <1>5 DEF ReferencesResolve, Put
<1> QED BY <1>1, <1>4, <1>6

LEMMA RulesetWritesKeep ==
  ASSUME NEW c \in Clients, Authored, RulesetWrites(c)
  PROVE  Authored'
<1> DEFINE p == req[c].id
           doc == req[c].doc
<1>1. Tables /\ ReferencesResolve /\ Rowed /\ Sound(c)
  BY DEF Authored, Requested, Sound
<1>2. Committed(c) /\ pc[c] = "commit" /\ req[c].op \in RulesetOps \union {"createRuleset", "deleteRuleset"}
  BY DEF RulesetWrites, CreateRuleset, WriteRuleset, DeleteRuleset, Committing
<1>3. p \in Rulesets /\ p \in used /\ Table(doc, Groups \X Services) /\ Table(read[c].rules, ReadRows) /\ rulesets[p] \in Nat
  BY <1>1, <1>2 DEF Sound, Typed, IsAdmitted, Tables
<1>4. PICK v, next :
          /\ v \in Nat /\ Put(p, v, next)
          /\ \/ v = 1 /\ IsCreating(c)
             \/ rulesets[p] # 0 /\ v = rulesets[p] + 1
             \/ v = 0
  <2>1. CASE CreateRuleset(c)
    <3> DEFINE next == carryRuleProvenance(NoRules, doc)
    <3>1. Table(next, RuleRows)
      BY <1>3, DocsTyped, Carried, Zenon
    <3>2. IsCreating(c)
      BY <2>1 DEF CreateRuleset, Committing, IsCreating
    <3>3. /\ addRulesetChildren(p, next) /\ UNCHANGED <<services, groups>>
          /\ rulesets' = [rulesets EXCEPT ![p] = 1] /\ rules' = [rules EXCEPT ![p] = next]
      BY <2>1 DEF CreateRuleset, StoreCreateRuleset
    <3> HIDE DEF next
    <3>4. 1 \in Nat /\ 1 # 0
      OBVIOUS
    <3> QED BY <3>1, <3>2, <3>3, <3>4, Zenon DEF Put
  <2>2. CASE WriteRuleset(c)
    <3> DEFINE next == carryRuleProvenance(read[c].rules, doc)
    <3>1. Table(next, RuleRows)
      BY <1>3, Carried
    <3>2. /\ addRulesetChildren(p, next) /\ UNCHANGED <<services, groups>> /\ rulesets[p] # 0
          /\ rulesets' = [rulesets EXCEPT ![p] = rulesets[p] + 1] /\ rules' = [rules EXCEPT ![p] = next]
      BY <2>2 DEF WriteRuleset, StoreUpdateRuleset, updateRuleset
    <3> HIDE DEF next
    <3>3. rulesets[p] + 1 \in Nat /\ rulesets[p] + 1 # 0
      BY <1>3
    <3> QED BY <3>1, <3>2, <3>3, Zenon DEF Put
  <2>3. CASE DeleteRuleset(c)
    <3>1. Table(NoRules, RuleRows) /\ DOMAIN NoRules = {}
      BY DocsTyped
    <3>2. addRulesetChildren(p, NoRules)
      BY <3>1 DEF addRulesetChildren
    <3>3. /\ UNCHANGED <<services, groups>>
          /\ rulesets' = [rulesets EXCEPT ![p] = 0] /\ rules' = [rules EXCEPT ![p] = NoRules]
      BY <2>3 DEF DeleteRuleset, StoreDeleteRuleset
    <3> QED BY <3>1, <3>2, <3>3, Zenon DEF Put
  <2> QED BY <2>1, <2>2, <2>3 DEF RulesetWrites
<1>5. /\ Tables' /\ ReferencesResolve'
      /\ \A q \in Rulesets : rulesets'[q] = IF q = p THEN v ELSE rulesets[q]
      /\ \A q \in Rulesets : rules'[q] = IF q = p THEN next ELSE rules[q]
  BY <1>1, <1>3, <1>4, RulesetPut
<1>6. UNCHANGED <<used, req>>
  BY <1>2, CommittedSound
<1>7. Rowed'
  BY <1>1, <1>3, <1>5, <1>6 DEF Rowed
<1>8. Advances(c)
  BY <1>4, <1>5 DEF Advances
<1>9. used \subseteq used'
  BY <1>6
<1> QED BY <1>2, <1>5, <1>7, <1>8, <1>9, CommittedSound, OneRequest

-----------------------------------------------------------------------------
(* The steps of the render, for the authored tables.                       *)

LEMMA LockKeeps ==
  ASSUME NEW c \in Clients, Authored, acquireRenderLock(c)
  PROVE  Authored'
<1>1. Sound(c) /\ Shape /\ IsReq(req[c]) /\ IsRead(read[c])
  BY DEF Authored, Requested, Sound, Shape
<1>2. /\ UNCHANGED <<services, groups, rulesets, rules, used, req, read>>
      /\ pc' = [pc EXCEPT ![c] = "load"] /\ pc'[c] = "load"
  BY <1>1 DEF acquireRenderLock, tables, Shape
<1>3. Mine(c)
  BY <1>1, <1>2, Zenon DEF Mine, Shape
<1>4. ~IsAdmitted(c)' /\ ~IsReading(c)' /\ ~IsRestated(c)' /\ ~IsCreating(c)'
  BY <1>2 DEF IsAdmitted, IsReading, IsRestated, IsCreating, ReadPcs
<1>5. Typed(c)'
  BY <1>1, <1>2, <1>4, Zenon DEF Sound, Typed, ReadPcs
<1>6. Sound(c)'
  BY <1>4, <1>5, Zenon DEF Sound, Reads, Restated, Creating
<1> QED BY <1>2, <1>3, <1>4, <1>6, QuietRequest

LEMMA AfterRenderKeeps ==
  ASSUME NEW c \in Clients, Authored, AfterRender(c), UNCHANGED <<services, groups, rulesets, rules, used>>
  PROVE  Authored'
<1> DEFINE p == req[c].id
<1>1. Sound(c) /\ Shape /\ IsReq(req[c]) /\ IsRead(read[c])
  BY DEF Authored, Requested, Sound, Shape
<1>2. CASE Done(c)
  BY <1>2, DoneKeeps
<1>3. CASE /\ req[c].op \in RulesetOps \union {"createRuleset"} /\ UNCHANGED read
           /\ pc' = [pc EXCEPT ![c] = "row"] /\ req' = [req EXCEPT ![c].reads = "response"]
  <2>1. /\ req'[c].op = req[c].op /\ req'[c].id = p /\ req'[c].rule = req[c].rule /\ req'[c].reads = "response"
        /\ req'[c].doc = req[c].doc /\ IsReq(req'[c]) /\ req' = [req EXCEPT ![c] = req'[c]] /\ pc'[c] = "row"
    <3>1. req' = [req EXCEPT ![c] = [op |-> req[c].op, id |-> p, rule |-> req[c].rule, doc |-> req[c].doc,
                                     expect |-> req[c].expect, reads |-> "response"]]
      BY <1>1, <1>3, RequestFields, Zenon
    <3>2. req'[c] = [op |-> req[c].op, id |-> p, rule |-> req[c].rule, doc |-> req[c].doc,
                     expect |-> req[c].expect, reads |-> "response"]
      BY <1>1, <3>1 DEF Shape
    <3>3. IsReq(req'[c])
      BY <3>2 DEF IsReq
    <3>4. req' = [req EXCEPT ![c] = req'[c]] /\ pc'[c] = "row"
      BY <1>1, <1>3, <3>1, <3>2 DEF Shape
    <3> QED BY <3>2, <3>3, <3>4
  <2>2. Mine(c)
    BY <1>1, <1>3, <2>1 DEF Mine, Shape
  <2>3. ~IsAdmitted(c)' /\ ~IsReading(c)' /\ ~IsRestated(c)' /\ ~IsCreating(c)'
    BY <2>1 DEF IsAdmitted, IsReading, IsRestated, IsCreating, ReadPcs
  <2>4. Typed(c)'
    BY <1>1, <1>3, <2>1, <2>3 DEF Sound, Typed, ReadPcs, RulesetOps
  <2>5. Sound(c)'
    BY <2>3, <2>4, Zenon DEF Sound, Reads, Restated, Creating
  <2> QED BY <2>2, <2>3, <2>5, QuietRequest
<1> QED BY <1>2, <1>3 DEF AfterRender

LEMMA AuthoredRests ==
  ASSUME Authored, UNCHANGED <<services, groups, rulesets, rules, used, pc, req, read>>
  PROVE  Authored'
<1>1. Tables' /\ ReferencesResolve' /\ Rowed'
  BY DEF Authored, Tables, RuleRows, ReferencesResolve, Rowed
<1>2. Shape'
  BY DEF Authored, Shape, IsReq, IsRead
<1>3. ASSUME NEW c \in Clients  PROVE (Typed(c) /\ Reads(c) /\ Restated(c) /\ Creating(c))'
  <2>1. \A d \in Clients :
            /\ IsAdmitted(d)' = IsAdmitted(d) /\ IsReading(d)' = IsReading(d)
            /\ IsRestated(d)' = IsRestated(d) /\ IsCreating(d)' = IsCreating(d)
    BY DEF IsAdmitted, IsReading, IsRestated, IsCreating
  <2>2. Typed(c) /\ Reads(c) /\ Restated(c) /\ Creating(c)
    BY DEF Authored, Requested
  <2>3. Typed(c)'
    BY <2>1, <2>2, Zenon DEF Typed
  <2>4. Reads(c)'
    BY <2>1, <2>2, Zenon DEF Reads
  <2>5. Restated(c)'
    BY <2>1, <2>2, ZenonT(40) DEF Restated
  <2>6. Creating(c)'
    BY <2>1, <2>2 DEF Creating
  <2> QED BY <2>3, <2>4, <2>5, <2>6
<1> QED BY <1>1, <1>2, <1>3 DEF Authored, Requested

Loads(c) ==
    LoadRulesets(c) \/ LoadRules(c) \/ LoadPeers(c) \/ LoadRefs(c) \/ LoadServices(c) \/ LoadGroups(c)

\* Every step keeps the authored tables sound, and what the requests know of them.
LEMMA AuthoredKeeps ==
  ASSUME Authored, Viewed, [Next]_vars
  PROVE  Authored'
<1>1. CASE UNCHANGED vars
  BY <1>1, AuthoredRests DEF vars, tables
<1> SUFFICES ASSUME NEW c \in Clients, Endpoint(c) \/ Step(c)  PROVE Authored'
  BY <1>1 DEF Next
<1>2. CASE Endpoint(c)
  BY <1>2, EndpointKeeps
<1>3. CASE ReadRow(c) \/ ReadRules(c) \/ ReadPeers(c) \/ ReadRefs(c)
  BY <1>3, ReadSteps
<1>4. CASE CreateRule(c) \/ UpdateRule(c) \/ DeleteRule(c)
  BY <1>4, RuleWriteSteps
<1>5. CASE Admit(c)
  BY <1>5, AdmitKeeps
<1>6. CASE ServiceWrites(c) \/ GroupWrites(c) \/ RulesetWrites(c)
  BY <1>6, ServiceWritesKeep, GroupWritesKeep, RulesetWritesKeep
<1>7. CASE ReadNoRow(c) \/ Respond(c) \/ RuleRefused(c) \/ NotAdmitted(c) \/ RolledBack(c) \/ RenderFails(c)
  <2>1. Done(c) /\ UNCHANGED <<services, groups, rulesets, rules, used>>
    BY <1>7 DEF ReadNoRow, Respond, RuleRefused, NotAdmitted, RolledBack, RenderFails, Refuse, tables
  <2> QED BY <2>1, DoneKeeps
<1>8. CASE acquireRenderLock(c)
  BY <1>8, LockKeeps
<1>9. CASE Loads(c)
  <2>1. UNCHANGED <<services, groups, rulesets, rules, used, pc, req, read>>
    BY <1>9 DEF Loads, LoadRulesets, LoadRules, LoadPeers, LoadRefs, LoadServices, LoadGroups, Loading, tables
  <2> QED BY <2>1, AuthoredRests
<1>10. CASE SavePolicies(c)
  BY <1>10, AfterRenderKeeps DEF SavePolicies, tables
<1> QED BY <1>2, <1>3, <1>4, <1>5, <1>6, <1>7, <1>8, <1>9, <1>10
     DEF Step, ServiceWrites, GroupWrites, RulesetWrites, Loads

\* used only grows, and a response comes from a ruleset that has an id.
LEMMA ViewedKeeps ==
  ASSUME Authored, Viewed, [Next]_vars
  PROVE  Viewed'
<1>1. CASE UNCHANGED vars
  BY <1>1 DEF vars, Viewed
<1> SUFFICES ASSUME NEW c \in Clients, Endpoint(c) \/ Step(c)  PROVE Viewed'
  BY <1>1 DEF Next
<1>2. CASE Respond(c)
  <2>1. req[c].id \in used
    BY <1>2, Zenon DEF Respond, Authored, Requested, Typed, RulesetOps
  <2>2. /\ UNCHANGED used /\ view' = [d \in Clients |-> view'[d]] /\ view'[c].id = req[c].id
        /\ \A d \in Clients \ {c} : view'[d] = view[d]
    BY <1>2 DEF Respond, Viewed
  <2> QED BY <2>1, <2>2 DEF Viewed
<1>3. CASE UNCHANGED view /\ used \subseteq used'
  BY <1>3 DEF Viewed
<1>4. CASE Endpoint(c)
  <2>1. \A at, r, fresh : Begin(c, at, r, fresh) => UNCHANGED view /\ used \subseteq used'
    BY DEF Begin
  <2> QED BY <1>3, <1>4, <2>1, Zenon
       DEF Endpoint, createService, putService, deleteServiceAt, createAddressGroup, putAddressGroup,
           deleteAddressGroupAt, createRuleset, putRuleset, deleteRuleset, getRuleset, createRule, putRule, deleteRule
<1>5. CASE Step(c) /\ ~Respond(c)
  <2>1. UNCHANGED <<view, used>>
    BY <1>5, Zenon DEF Step, ReadRow, ReadNoRow, ReadRules, ReadPeers, ReadRefs, CreateRule, UpdateRule, DeleteRule, AsRulesetWrite,
      RuleRefused, Admit, NotAdmitted, Refuse, CreateService, UpdateService, DeleteService, CreateAddressGroup,
      UpdateAddressGroup, DeleteAddressGroup, CreateRuleset, WriteRuleset, DeleteRuleset, Committed, RolledBack,
      acquireRenderLock, LoadRulesets, LoadRules, LoadPeers, LoadRefs, LoadServices, LoadGroups, Loading, SavePolicies, RenderFails
  <2> QED BY <1>3, <2>1
<1> QED BY <1>2, <1>4, <1>5

-----------------------------------------------------------------------------
(* The render.                                                             *)

LEMMA LoadFields ==
  ASSUME NEW l, NEW x, NEW y, IsLoad(l)
  PROVE  /\ [l EXCEPT !.at = x, !.rulesets = y] =
            [at |-> x, heals |-> l.heals, rulesets |-> y, rules |-> l.rules, services |-> l.services, groups |-> l.groups]
         /\ [l EXCEPT !.at = x, !.rules = y] =
            [at |-> x, heals |-> l.heals, rulesets |-> l.rulesets, rules |-> y, services |-> l.services, groups |-> l.groups]
         /\ [l EXCEPT !.at = x, !.services = y] =
            [at |-> x, heals |-> l.heals, rulesets |-> l.rulesets, rules |-> l.rules, services |-> y, groups |-> l.groups]
         /\ [l EXCEPT !.at = x, !.groups = y] =
            [at |-> x, heals |-> l.heals, rulesets |-> l.rulesets, rules |-> l.rules, services |-> l.services, groups |-> y]
<1> DEFINE m == [l EXCEPT !.at = x]
<1>1. m = [at |-> x, heals |-> l.heals, rulesets |-> l.rulesets, rules |-> l.rules,
           services |-> l.services, groups |-> l.groups]
  BY DEF IsLoad
<1>2. /\ [l EXCEPT !.at = x, !.rulesets = y] = [m EXCEPT !.rulesets = y]
      /\ [l EXCEPT !.at = x, !.rules = y] = [m EXCEPT !.rules = y]
      /\ [l EXCEPT !.at = x, !.services = y] = [m EXCEPT !.services = y]
      /\ [l EXCEPT !.at = x, !.groups = y] = [m EXCEPT !.groups = y]
  BY DEF IsLoad
<1> HIDE DEF m
<1>3. [m EXCEPT !.rulesets = y] =
      [at |-> x, heals |-> l.heals, rulesets |-> y, rules |-> l.rules, services |-> l.services, groups |-> l.groups]
  BY <1>1
<1>4. [m EXCEPT !.rules = y] =
      [at |-> x, heals |-> l.heals, rulesets |-> l.rulesets, rules |-> y, services |-> l.services, groups |-> l.groups]
  BY <1>1
<1>5. [m EXCEPT !.services = y] =
      [at |-> x, heals |-> l.heals, rulesets |-> l.rulesets, rules |-> l.rules, services |-> y, groups |-> l.groups]
  BY <1>1
<1>6. [m EXCEPT !.groups = y] =
      [at |-> x, heals |-> l.heals, rulesets |-> l.rulesets, rules |-> l.rules, services |-> l.services, groups |-> y]
  BY <1>1
<1> QED BY <1>2, <1>3, <1>4, <1>5, <1>6

LEMMA LoadRulesetsField ==
  ASSUME NEW l, NEW x, NEW y, NEW m, IsLoad(l), m = [l EXCEPT !.at = x, !.rulesets = y]
  PROVE  m = [at |-> x, heals |-> l.heals, rulesets |-> y, rules |-> l.rules, services |-> l.services, groups |-> l.groups]
BY LoadFields, Zenon

LEMMA LoadRulesField ==
  ASSUME NEW l, NEW x, NEW y, NEW m, IsLoad(l), m = [l EXCEPT !.at = x, !.rules = y]
  PROVE  m = [at |-> x, heals |-> l.heals, rulesets |-> l.rulesets, rules |-> y, services |-> l.services, groups |-> l.groups]
BY LoadFields, Zenon

LEMMA LoadServicesField ==
  ASSUME NEW l, NEW x, NEW y, NEW m, IsLoad(l), m = [l EXCEPT !.at = x, !.services = y]
  PROVE  m = [at |-> x, heals |-> l.heals, rulesets |-> l.rulesets, rules |-> l.rules, services |-> y, groups |-> l.groups]
BY LoadFields, Zenon

LEMMA LoadGroupsField ==
  ASSUME NEW l, NEW x, NEW y, NEW m, IsLoad(l), m = [l EXCEPT !.at = x, !.groups = y]
  PROVE  m = [at |-> x, heals |-> l.heals, rulesets |-> l.rulesets, rules |-> l.rules, services |-> l.services, groups |-> y]
BY LoadFields, Zenon

\* A render that begins heals, and one that a failed render overtakes does not.
LEMMA Healing ==
  /\ LET m == [NoLoad EXCEPT !.heals = TRUE] IN IsLoad(m) /\ m.at = "rulesets"
  /\ \A l : IsLoad(l) => IsLoad([l EXCEPT !.heals = FALSE]) /\ ~[l EXCEPT !.heals = FALSE].heals
<1>1. ASSUME NEW x
      PROVE  [NoLoad EXCEPT !.heals = x] = [at |-> "rulesets", heals |-> x, rulesets |-> None, rules |-> None,
                                            services |-> None, groups |-> None]
  BY DEF NoLoad
<1>2. ASSUME NEW x  PROVE IsLoad([NoLoad EXCEPT !.heals = x]) /\ [NoLoad EXCEPT !.heals = x].at = "rulesets"
  BY <1>1, Zenon DEF IsLoad
<1>3. ASSUME NEW l, IsLoad(l)  PROVE IsLoad([l EXCEPT !.heals = FALSE]) /\ ~[l EXCEPT !.heals = FALSE].heals
  <2> DEFINE m(x) == [l EXCEPT !.heals = x]
  <2>1. \A x : m(x) = [at |-> l.at, heals |-> x, rulesets |-> l.rulesets, rules |-> l.rules,
                       services |-> l.services, groups |-> l.groups]
    BY <1>3 DEF IsLoad
  <2>2. \A x : IsLoad(m(x)) /\ m(x).heals = x
    BY <2>1 DEF IsLoad
  <2> HIDE DEF m
  <2>3. IsLoad(m(FALSE)) /\ m(FALSE).heals = FALSE
    BY <2>2, Zenon
  <2>4. ~m(FALSE).heals
    BY <2>3, Zenon
  <2> QED BY <2>3, <2>4 DEF m
<1> QED BY <1>2, <1>3

\* A step of a request that neither waits for the lock nor holds it.
LEMMA QuietRender ==
  ASSUME Rendering, NEW c \in Clients, NEW at, pc[c] \notin {"lock", "load"}, at \notin {"lock", "load"},
         Shape, pc' = [pc EXCEPT ![c] = at], UNCHANGED <<services, groups, rulesets, rules, lock, load, rendered, missed>>
  PROVE  Rendering'
<1>1. \A d \in Clients : (pc'[d] = "lock" <=> pc[d] = "lock") /\ (pc'[d] = "load" <=> pc[d] = "load")
  BY DEF Shape
<1>2. Waiting' <=> Waiting
  BY <1>1 DEF Waiting
<1>3. LoadedIsCurrent' <=> LoadedIsCurrent
  BY DEF LoadedIsCurrent
<1>4. Current' = Current
  BY DEF Current
<1> QED BY <1>1, <1>2, <1>3, <1>4 DEF Rendering

LEMMA CommittedRender ==
  ASSUME Rendering, NEW c \in Clients, Shape, pc[c] = "commit", Committed(c)
  PROVE  Rendering'
<1>1. pc'[c] = "lock" /\ UNCHANGED <<lock, load, missed>> /\ \A d \in Clients \ {c} : pc'[d] = pc[d]
  BY DEF Committed, render, Shape
<1>2. Waiting'
  BY <1>1 DEF Waiting
<1> QED BY <1>1, <1>2 DEF Rendering

LEMMA LockRender ==
  ASSUME Rendering, NEW c \in Clients, Shape, acquireRenderLock(c)
  PROVE  Rendering'
<1>1. /\ lock = None /\ lock' = c /\ load' = [NoLoad EXCEPT !.heals = TRUE] /\ UNCHANGED missed
      /\ pc'[c] = "load" /\ \A d \in Clients \ {c} : pc'[d] = pc[d]
  BY DEF acquireRenderLock, Shape
<1>2. IsLoad(load') /\ load'.at = "rulesets"
  BY <1>1, Healing
<1>3. load'.heals
  BY <1>1 DEF NoLoad
<1>4. LoadedIsCurrent'
  BY <1>2 DEF LoadedIsCurrent
<1>5. \A d \in Clients : pc'[d] = "load" <=> lock' = d
  BY <1>1, NoneAssumption DEF Rendering
<1> QED BY <1>1, <1>2, <1>3, <1>4, <1>5, NoneAssumption DEF Rendering

\* Each statement of a load returns what is persisted when it runs.
LEMMA LoadsCurrent ==
  ASSUME Tables, IsLoad(load), NEW c \in Clients, Loads(c)
  PROVE  IsLoad(load') /\ (load'.heals <=> load.heals) /\ (LoadedIsCurrent => LoadedIsCurrent')
<1>0. UNCHANGED <<services, groups, rulesets, rules>>
  BY DEF Loads, LoadRulesets, LoadRules, LoadPeers, LoadRefs, LoadServices, LoadGroups, Loading, tables
<1>1. CASE LoadRulesets(c)
  <2>1. load' = [at |-> "rules", heals |-> load.heals, rulesets |-> rulesets, rules |-> load.rules,
                 services |-> load.services, groups |-> load.groups]
    BY <1>1, LoadRulesetsField, Zenon DEF LoadRulesets, Loading
  <2>2. IsLoad(load') /\ (load'.heals <=> load.heals) /\ load'.at = "rules" /\ load'.rulesets = rulesets
    BY <2>1 DEF IsLoad
  <2> QED BY <1>0, <2>2 DEF LoadedIsCurrent
<1>2. CASE LoadRules(c)
  <2>0. PICK t : t = [p \in Rulesets |-> IF load.rulesets[p] = 0 THEN NoRules ELSE listAllRules(p)]
    BY Zenon
  <2>1. load.at = "rules" /\ load' = [load EXCEPT !.at = "peers", !.rules = t]
    BY <1>2, <2>0 DEF LoadRules, Loading
  <2>2. ASSUME load.rulesets = rulesets  PROVE t = [p \in Rulesets |-> RulesOnly(rules[p])]
    <3> SUFFICES ASSUME NEW p \in Rulesets  PROVE t[p] = RulesOnly(rules[p])
      BY <2>0
    <3>1. CASE rulesets[p] = 0
      <4>1. t[p] = NoRules /\ DOMAIN rules[p] = {}
        BY <2>0, <2>2, <3>1 DEF Tables
      <4> QED BY <4>1 DEF NoRules, RulesOnly
    <3>2. CASE rulesets[p] # 0
      BY <2>0, <2>2, <3>2, ListTyped
    <3> QED BY <3>1, <3>2
  <2>3. load' = [at |-> "peers", heals |-> load.heals, rulesets |-> load.rulesets, rules |-> t,
                 services |-> load.services, groups |-> load.groups]
    BY <2>1, LoadRulesField, Zenon
  <2>4. /\ IsLoad(load') /\ (load'.heals <=> load.heals) /\ load'.at = "peers"
        /\ load'.rulesets = load.rulesets /\ load'.rules = t
    BY <2>3 DEF IsLoad
  <2> QED BY <1>0, <2>1, <2>2, <2>4 DEF LoadedIsCurrent
<1>3. CASE LoadPeers(c)
  <2>0. PICK t : t = [p \in Rulesets |-> listAllRulePeers(load.rules[p])]
    BY Zenon
  <2>1. load.at = "peers" /\ load' = [load EXCEPT !.at = "refs", !.rules = t]
    BY <1>3, <2>0 DEF LoadPeers, Loading
  <2>2. ASSUME load.rules = [p \in Rulesets |-> RulesOnly(rules[p])]  PROVE t = [p \in Rulesets |-> WithPeers(rules[p])]
    BY <2>0, <2>2, ListExact
  <2>3. load' = [at |-> "refs", heals |-> load.heals, rulesets |-> load.rulesets, rules |-> t,
                 services |-> load.services, groups |-> load.groups]
    BY <2>1, LoadRulesField, Zenon
  <2>4. /\ IsLoad(load') /\ (load'.heals <=> load.heals) /\ load'.at = "refs"
        /\ load'.rulesets = load.rulesets /\ load'.rules = t
    BY <2>3 DEF IsLoad
  <2> QED BY <1>0, <2>1, <2>2, <2>4 DEF LoadedIsCurrent
<1>4. CASE LoadRefs(c)
  <2>0. PICK t : t = [p \in Rulesets |-> listAllRuleServiceRefs(load.rules[p])]
    BY Zenon
  <2>1. load.at = "refs" /\ load' = [load EXCEPT !.at = "services", !.rules = t]
    BY <1>4, <2>0 DEF LoadRefs, Loading
  <2>2. ASSUME load.rules = [p \in Rulesets |-> WithPeers(rules[p])]  PROVE t = rules
    <3>1. \A p \in Rulesets : t[p] = rules[p]
      BY <2>0, <2>2, ListExact
    <3> QED BY <2>0, <3>1 DEF Tables
  <2>3. load' = [at |-> "services", heals |-> load.heals, rulesets |-> load.rulesets, rules |-> t,
                 services |-> load.services, groups |-> load.groups]
    BY <2>1, LoadRulesField, Zenon
  <2>4. /\ IsLoad(load') /\ (load'.heals <=> load.heals) /\ load'.at = "services"
        /\ load'.rulesets = load.rulesets /\ load'.rules = t
    BY <2>3 DEF IsLoad
  <2> QED BY <1>0, <2>1, <2>2, <2>4 DEF LoadedIsCurrent
<1>5. CASE LoadServices(c)
  <2>1. load.at = "services"
    BY <1>5 DEF LoadServices, Loading
  <2>2. load' = [at |-> "groups", heals |-> load.heals, rulesets |-> load.rulesets, rules |-> load.rules,
                 services |-> services, groups |-> load.groups]
    BY <1>5, LoadServicesField, Zenon DEF LoadServices, Loading
  <2>3. /\ IsLoad(load') /\ (load'.heals <=> load.heals) /\ load'.at = "groups"
        /\ load'.rulesets = load.rulesets /\ load'.rules = load.rules /\ load'.services = services
    BY <2>2 DEF IsLoad
  <2> QED BY <1>0, <2>1, <2>3 DEF LoadedIsCurrent
<1>6. CASE LoadGroups(c)
  <2>1. load.at = "groups"
    BY <1>6 DEF LoadGroups, Loading
  <2>2. load' = [at |-> "save", heals |-> load.heals, rulesets |-> load.rulesets, rules |-> load.rules,
                 services |-> load.services, groups |-> groups]
    BY <1>6, LoadGroupsField, Zenon DEF LoadGroups, Loading
  <2>3. /\ IsLoad(load') /\ (load'.heals <=> load.heals) /\ load'.at = "save" /\ load'.groups = groups
        /\ load'.rulesets = load.rulesets /\ load'.rules = load.rules /\ load'.services = load.services
    BY <2>2 DEF IsLoad
  <2> QED BY <1>0, <2>1, <2>3 DEF LoadedIsCurrent
<1> QED BY <1>1, <1>2, <1>3, <1>4, <1>5, <1>6 DEF Loads

LEMMA LoadsRender ==
  ASSUME Rendering, Tables, NEW c \in Clients, Loads(c)
  PROVE  Rendering'
<1>1. pc[c] = "load" /\ UNCHANGED <<pc, lock, rendered, missed>>
  BY DEF Loads, LoadRulesets, LoadRules, LoadPeers, LoadRefs, LoadServices, LoadGroups, Loading
<1>2. lock = c /\ c # None
  BY <1>1, NoneAssumption, Zenon DEF Rendering
<1>3. IsLoad(load') /\ (load'.heals <=> load.heals) /\ (LoadedIsCurrent => LoadedIsCurrent')
  BY <1>2, LoadsCurrent DEF Rendering
<1>4. Waiting' <=> Waiting
  BY <1>1 DEF Waiting
<1> QED BY <1>1, <1>2, <1>3, <1>4 DEF Rendering

LEMMA SaveRender ==
  ASSUME Rendering, NEW c \in Clients, Shape, SavePolicies(c)
  PROVE  Rendering'
<1>1. /\ pc[c] = "load" /\ load.at = "save" /\ rendered' = InputsLoaded(load) /\ lock' = None
      /\ (missed' <=> (missed /\ ~load.heals)) /\ UNCHANGED <<services, groups, rulesets, rules>>
      /\ pc'[c] \in {"row", "idle"} /\ \A d \in Clients \ {c} : pc'[d] = pc[d]
  BY Zenon DEF SavePolicies, AfterRender, Done, tables, Shape
<1>2. lock = c /\ c # None
  BY <1>1, NoneAssumption DEF Rendering
<1>3. \A d \in Clients : pc'[d] = "load" <=> lock' = d
  BY <1>1, <1>2, NoneAssumption DEF Rendering
<1>4. Waiting' <=> Waiting
  BY <1>1 DEF Waiting
<1>5. ASSUME ~missed', ~Waiting'  PROVE rendered' = Current'
  <2>1. LoadedIsCurrent
    BY <1>1, <1>2, <1>4, <1>5 DEF Rendering
  <2> QED BY <1>1, <2>1 DEF LoadedIsCurrent, InputsLoaded, Current
<1> QED BY <1>1, <1>3, <1>5 DEF Rendering

LEMMA FailRender ==
  ASSUME Rendering, NEW c \in Clients, Shape, RenderFails(c)
  PROVE  Rendering'
<1>1. /\ pc[c] \in {"lock", "load"} /\ missed' /\ pc'[c] = "idle" /\ \A d \in Clients \ {c} : pc'[d] = pc[d]
      /\ lock' = IF lock = c THEN None ELSE lock
      /\ load' = IF lock = c THEN NoLoad ELSE [load EXCEPT !.heals = FALSE]
  BY DEF RenderFails, Done, Shape
<1>2. CASE lock = c
  BY <1>1, <1>2, NoneAssumption DEF Rendering
<1>3. CASE lock # c
  <2>1. lock' = lock /\ load' = [load EXCEPT !.heals = FALSE]
    BY <1>1, <1>3
  <2>2. lock # None => IsLoad(load') /\ ~load'.heals
    BY <2>1, Healing DEF Rendering
  <2> QED BY <1>1, <1>3, <2>1, <2>2 DEF Rendering
<1> QED BY <1>2, <1>3

\* A request begins.
LEMMA EndpointBegins ==
  ASSUME NEW c \in Clients, Endpoint(c)
  PROVE  \E at \in {"commit", "admit", "row"} :
             pc[c] = "idle" /\ pc' = [pc EXCEPT ![c] = at] /\ UNCHANGED <<services, groups, rulesets, rules, lock, load, rendered, missed>>
<1>1. ASSUME NEW at, NEW r, NEW fresh, Begin(c, at, r, fresh)
      PROVE  /\ pc[c] = "idle" /\ pc' = [pc EXCEPT ![c] = at]
             /\ UNCHANGED <<services, groups, rulesets, rules, lock, load, rendered, missed>>
  BY <1>1 DEF Begin, tables, render
<1> QED BY <1>1, ZenonT(40)
     DEF Endpoint, createService, putService, deleteServiceAt, createAddressGroup, putAddressGroup,
         deleteAddressGroupAt, createRuleset, putRuleset, deleteRuleset, getRuleset, createRule, putRule, deleteRule

\* Every step keeps what is rendered, or being rendered, in step with the tables.
LEMMA RenderingKeeps ==
  ASSUME Authored, Rendering, [Next]_vars
  PROVE  Rendering'
<1>0. Shape /\ Tables /\ \A c \in Clients : req[c].reads \in {"response", "rule", "commit"}
  BY Zenon DEF Authored, Requested, Typed
<1>1. CASE UNCHANGED vars
  BY <1>1 DEF vars, tables, render, Rendering, Waiting, LoadedIsCurrent, Current, IsLoad
<1> SUFFICES ASSUME NEW c \in Clients, Endpoint(c) \/ Step(c)  PROVE Rendering'
  BY <1>1 DEF Next
<1>2. ASSUME NEW at, at \notin {"lock", "load"}, pc[c] \notin {"lock", "load"}, pc' = [pc EXCEPT ![c] = at],
             UNCHANGED <<tables, render>>
      PROVE  Rendering'
  BY <1>0, <1>2, QuietRender, Zenon DEF tables, render
<1>3. CASE Endpoint(c)
  BY <1>2, <1>3, EndpointBegins DEF tables, render
<1>4. CASE ReadRow(c) \/ ReadRules(c) \/ ReadPeers(c) \/ ReadRefs(c)
  BY <1>0, <1>2, <1>4 DEF ReadRow, ReadRules, ReadPeers, ReadRefs
<1>5. CASE CreateRule(c) \/ UpdateRule(c) \/ DeleteRule(c)
  BY <1>2, <1>5 DEF CreateRule, UpdateRule, DeleteRule, AsRulesetWrite
<1>6. CASE Admit(c)
  BY <1>2, <1>6, Zenon DEF Admit
<1>7. CASE ReadNoRow(c) \/ Respond(c) \/ RuleRefused(c) \/ NotAdmitted(c) \/ RolledBack(c)
  <2>1. pc[c] \in {"row", "response", "rule", "admit", "commit"} /\ pc' = [pc EXCEPT ![c] = "idle"] /\ UNCHANGED <<tables, render>>
    BY <1>7 DEF ReadNoRow, Respond, RuleRefused, NotAdmitted, RolledBack, Refuse, Done
  <2> QED BY <1>2, <2>1, Zenon
<1>8. CASE ServiceWrites(c) \/ GroupWrites(c) \/ RulesetWrites(c)
  <2>1. pc[c] = "commit" /\ Committed(c)
    BY <1>8, Zenon DEF ServiceWrites, GroupWrites, RulesetWrites, CreateService, UpdateService, DeleteService, CreateAddressGroup,
         UpdateAddressGroup, DeleteAddressGroup, CreateRuleset, WriteRuleset, DeleteRuleset, Committing
  <2> QED BY <1>0, <2>1, CommittedRender
<1>9. CASE acquireRenderLock(c)
  BY <1>0, <1>9, LockRender
<1>10. CASE Loads(c)
  BY <1>0, <1>10, LoadsRender
<1>11. CASE SavePolicies(c)
  BY <1>0, <1>11, SaveRender
<1>12. CASE RenderFails(c)
  BY <1>0, <1>12, FailRender
<1> QED BY <1>3, <1>4, <1>5, <1>6, <1>7, <1>8, <1>9, <1>10, <1>11, <1>12
     DEF Step, ServiceWrites, GroupWrites, RulesetWrites, Loads

-----------------------------------------------------------------------------
(* The theorems.                                                           *)

LEMMA Initially == Init => IInv
<1> SUFFICES ASSUME Init  PROVE IInv
  OBVIOUS
<1>1. Tables /\ ReferencesResolve
  BY DEF Init
<1>2. IsReq(NoReq) /\ IsRead(NoRead) /\ NoReq.op = "none" /\ NoReq.doc = NoRules /\ NoReq.reads = "rule" /\ NoRead.rules = NoRules
  BY DEF NoReq, Req, NoRead, IsReq, IsRead
<1>3. /\ pc = [c \in Clients |-> "idle"] /\ req = [c \in Clients |-> NoReq] /\ read = [c \in Clients |-> NoRead]
      /\ view = [c \in Clients |-> NoView]
  BY DEF Init
<1>4. Shape
  BY <1>2, <1>3 DEF Shape
<1>5. Rowed
  BY DEF Init, Rowed
<1>6. ASSUME NEW c \in Clients  PROVE Typed(c) /\ Reads(c) /\ Restated(c) /\ Creating(c)
  <2>1. pc[c] = "idle" /\ req[c] = NoReq /\ read[c] = NoRead
    BY <1>3
  <2>2. ~IsAdmitted(c) /\ ~IsReading(c) /\ ~IsRestated(c) /\ ~IsCreating(c)
    BY <1>2, <2>1 DEF IsAdmitted, IsReading, IsRestated, IsCreating, ReadPcs, RuleOps
  <2>3. Typed(c)
    BY <1>2, <2>1, <2>2, DocsTyped DEF Typed, ReadPcs, RulesetOps, RuleOps
  <2> QED BY <2>2, <2>3 DEF Reads, Restated, Creating
<1>7. Viewed
  <2>1. NoView.rules = NoRules
    BY DEF NoView
  <2> QED BY <1>3, <2>1, DocsTyped DEF Viewed
<1>8. Rendering
  BY <1>3, NoneAssumption DEF Init, Rendering
<1> QED BY <1>1, <1>4, <1>5, <1>6, <1>7, <1>8 DEF IInv, Authored, Requested

LEMMA Inductive == IInv /\ [Next]_vars => IInv'
BY AuthoredKeeps, ViewedKeeps, RenderingKeeps DEF IInv

LEMMA Invariance == Spec => []IInv
<1> QED BY Initially, Inductive, PTL DEF Spec

\* For any number of requests, the address group and the service of a persisted rule
\* exist: the foreign keys of rule_peers and rule_service_refs hold on both sides,
\* whatever admission saw (store/policy.go).
THEOREM References == Spec => []ReferencesResolve
<1>1. IInv => ReferencesResolve
  BY DEF IInv, Authored
<1> QED BY <1>1, Invariance, PTL

\* For any number of requests, once no write waits for its render and none failed unhealed,
\* the persisted policies were rendered from the tables as they are, though no load of a
\* render is a snapshot (compiler/engine.go, store/render.go).
THEOREM Settled == Spec => []SettledIsRendered
<1>1. IInv => SettledIsRendered
  <2> SUFFICES ASSUME IInv, ~missed, \A c \in Clients : pc[c] \notin {"lock", "load"}  PROVE rendered = Current
    BY DEF SettledIsRendered
  <2>1. ~Waiting /\ lock = None
    BY DEF IInv, Rendering, Waiting
  <2> QED BY <2>1 DEF IInv, Rendering
<1> QED BY <1>1, Invariance, PTL

\* For any number of requests, a rule-level write leaves every other rule of its ruleset as
\* it is persisted when it commits: the version the restated write expects is the first it
\* read, so both its reads were of the ruleset it replaces (policy/service.go).
THEOREM OtherRulesKept == Spec => RuleWriteKeepsOthers
<1>1. ASSUME IInv, NEW c \in Clients, WriteRuleset(c), req[c].op # "putRuleset",
             NEW r \in RuleIds, r # req[c].rule
      PROVE  /\ r \in DOMAIN rules'[req[c].id] <=> r \in DOMAIN rules[req[c].id]
             /\ r \in DOMAIN rules[req[c].id] => rules'[req[c].id][r] = rules[req[c].id][r]
  <2> DEFINE p == req[c].id
             doc == req[c].doc
             next == carryRuleProvenance(read[c].rules, doc)
  <2>1. Sound(c) /\ Tables
    BY <1>1 DEF IInv, Authored, Requested, Sound
  <2>2. /\ pc[c] = "commit" /\ req[c].op \in RuleOps /\ rulesets[p] # 0 /\ expected(req[c].expect, rulesets[p])
        /\ rules' = [rules EXCEPT ![p] = next]
    BY <1>1 DEF WriteRuleset, StoreUpdateRuleset, updateRuleset, RulesetOps, RuleOps
  <2>3. IsReading(c) /\ IsRestated(c) /\ IsAdmitted(c) /\ p \in Rulesets
    BY <2>1, <2>2, ZenonT(40) DEF IsReading, IsRestated, IsAdmitted, Sound, Typed, RulesetOps, RuleOps
  <2>4. req[c].expect = rulesets[p]
    BY <2>1, <2>2, <2>3, NoneAssumption DEF expected, Sound, Restated
  <2>5. read[c].version = rulesets[p]
    <3>1. read[c].version \in Nat /\ read[c].version <= rulesets[p]
      BY <2>1, <2>2, <2>3, Zenon DEF Sound, Reads
    <3>2. rulesets[p] \in Nat /\ rulesets[p] <= read[c].version
      BY <2>1, <2>3, <2>4, Zenon DEF Sound, Restated
    <3> QED BY <3>1, <3>2
  <2>6. read[c].rules = rules[p]
    BY <2>1, <2>2, <2>3, <2>5, Zenon DEF Sound, Reads
  <2>7. /\ r \in DOMAIN doc <=> r \in DOMAIN rules[p]
        /\ r \in DOMAIN rules[p] => doc[r] = rules[p][r].body
    BY <1>1, <2>1, <2>3, <2>4, Zenon DEF Sound, Restated
  <2>8. Table(read[c].rules, ReadRows) /\ Table(doc, Groups \X Services)
    BY <2>1, <2>3, ZenonT(40) DEF Sound, Typed
  <2>9. /\ Table(next, RuleRows) /\ DOMAIN next = DOMAIN doc
        /\ r \in DOMAIN rules[p] => next[r].body = rules[p][r].body /\ next[r].version = rules[p][r].version
    <3>1. /\ Table(next, RuleRows) /\ DOMAIN next = DOMAIN doc
          /\ \A x \in DOMAIN doc :
                 /\ next[x].body = doc[x]
                 /\ x \in DOMAIN read[c].rules /\ read[c].rules[x].body = doc[x] => next[x].version = read[c].rules[x].version
      BY <2>8, Carried
    <3> HIDE DEF next
    <3> QED BY <2>6, <2>7, <3>1, SMTT(30)
  <2> HIDE DEF next
  <2>10. rules'[p] = next
    BY <2>1, <2>2, <2>3 DEF Tables
  <2>11. r \in DOMAIN rules[p] => next[r] = rules[p][r]
    <3> SUFFICES ASSUME r \in DOMAIN rules[p]  PROVE next[r] = rules[p][r]
      OBVIOUS
    <3>1. next[r] \in RuleRows /\ rules[p][r] \in RuleRows
      BY <2>1, <2>3, <2>7, <2>9 DEF Table, Tables
    <3> QED BY <2>9, <3>1 DEF RuleRows
  <2> QED BY <2>7, <2>9, <2>10, <2>11
<1>2. IInv /\ [Next]_vars => [\A c \in Clients : OthersKept(c)]_vars
  BY <1>1 DEF OthersKept
<1> QED BY <1>2, Invariance, PTL DEF Spec, RuleWriteKeepsOthers
=============================================================================
