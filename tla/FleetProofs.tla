---------------------------- MODULE FleetProofs ----------------------------
(***************************************************************************)
(* Proofs about Fleet, for any number of calls, workloads, labels and      *)
(* modes: a retired workload is in no rendered peer set, nothing of its    *)
(* row moves again, a mode change records the modes it replaces, and what  *)
(* is rendered is what is persisted once every render owed has been made.  *)
(*                                                                         *)
(* None of them is inductive.  What carries the first three is the render  *)
(* lock: a call is inside its render exactly while it holds the lock       *)
(* (Exclusive), so what its render has listed stays true of retirements    *)
(* and modes until it commits (Listed, Moving); the row locks keep a label *)
(* write and a retirement of one workload apart (Holding).  The last rests *)
(* on what a render has listed being the fleet (UpToDate) except where a   *)
(* later write's own render still waits or has failed.                     *)
(***************************************************************************)
EXTENDS Fleet, TLAPS

-----------------------------------------------------------------------------
(* The inductive invariant.                                                *)

IsCall(r) == r = [op |-> r.op, id |-> r.id, arg |-> r.arg, count |-> r.count, prev |-> r.prev]
IsLoad(r) == "at" \in DOMAIN r /\ "seen" \in DOMAIN r /\ r = [x \in DOMAIN r |-> r[x]]

Shape ==
    /\ row \in [Workloads -> Rows]
    /\ rowlock = [w \in Workloads |-> rowlock[w]]
    /\ fleetPc = [c \in Clients |-> fleetPc[c]]
    /\ call = [c \in Clients |-> call[c]] /\ \A c \in Clients : IsCall(call[c])
    /\ fleetLoad = [c \in Clients |-> fleetLoad[c]] /\ \A c \in Clients : IsLoad(fleetLoad[c])

\* What a call carries, by where it is.
Carries(c) ==
    /\ fleetPc[c] \in {"labels", "replace"} => call[c].op = "labels" /\ call[c].arg[1] \in Labels
    /\ fleetPc[c] \in {"token", "create", "facts"} => call[c].op = "enroll"
    /\ fleetPc[c] = "inventory" => call[c].op = "inventory"
    /\ fleetPc[c] \in {"renew", "sign"} => call[c].op = "renew"
    /\ fleetPc[c] = "lock" => call[c].op \notin {"mode", "retire"}
    /\ fleetPc[c] \in {"mode", "resolve"} => call[c].op = "mode" /\ DOMAIN call[c].prev = {}
    /\ fleetPc[c] \in {"retire", "stamp"} => call[c].op = "retire"
    /\ fleetPc[c] # "idle" /\ call[c].op = "mode" => call[c].arg[2] \in Modes
    /\ fleetPc[c] # "idle" /\ call[c].op # "mode" => call[c].id \in Workloads

\* A call is inside its render exactly while it holds the render lock.
Exclusive(c) == fleetPc[c] \in {"load", "resolve", "stamp"} <=> fleetLock = c

Enrolls(c) == fleetPc[c] \in {"token", "create"}

\* A workload being enrolled is not there yet, and is enrolled by one call.
Enrolling(c) ==
    Enrolls(c) => /\ row[call[c].id].status = "absent"
                  /\ \A d \in Clients : Enrolls(d) /\ call[d].id = call[c].id => d = c

\* A label write that has judged its row, and a retirement that has stamped it, hold it.
Holding(c) ==
    fleetPc[c] = "replace" \/ (fleetPc[c] = "load" /\ call[c].op = "retire")
        => rowlock[call[c].id] = c /\ Active(call[c].id)

\* What a render has listed: every retired workload as retired, its own retirement among
\* them, and while a mode change resolves its selector, every mode as it is.
Listed(c) ==
    fleetLock = c /\ fleetLoad[c].at # "rows" =>
        /\ fleetLoad[c].seen \in [Workloads -> Rows]
        /\ fleetPc[c] # "stamp"
        /\ \A w \in Workloads : Retired(w) => fleetLoad[c].seen[w].status = "retired"
        /\ fleetPc[c] = "load" /\ call[c].op = "retire" => fleetLoad[c].seen[call[c].id].status = "retired"
        /\ fleetPc[c] = "resolve" => \A w \in Workloads :
               fleetLoad[c].seen[w].status # "absent" =>
                   row[w].status # "absent" /\ fleetLoad[c].seen[w].mode = row[w].mode

\* The workloads of a mode change are active and in the modes it has recorded for them.
Moving(c) ==
    fleetPc[c] = "load" /\ call[c].op = "mode" =>
        \A w \in DOMAIN call[c].prev : w \in Workloads /\ Active(w) /\ call[c].prev[w] = row[w].mode

Sound(c) == Carries(c) /\ Exclusive(c) /\ Enrolling(c) /\ Holding(c) /\ Listed(c) /\ Moving(c)

IInv == Shape /\ (\A c \in Clients : Sound(c)) /\ RetiredIsNotRendered

-----------------------------------------------------------------------------
(* A step of one call.  It leaves the other calls where they are, and      *)
(* moves a status or a mode only as the locks it holds entitle it to.      *)

Kept(c) ==
    \A d \in Clients \ {c} :
        /\ fleetPc'[d] = fleetPc[d] /\ call'[d] = call[d]
        /\ fleetLoad'[d].at = fleetLoad[d].at /\ fleetLoad'[d].seen = fleetLoad[d].seen
        /\ fleetLock' = d <=> fleetLock = d
        /\ \A w \in Workloads : rowlock[w] = d => rowlock'[w] = d

Entitled(c, w) ==
    \/ row'[w].status = row[w].status /\ (row'[w].mode = row[w].mode \/ fleetLock = c)
    \/ row[w].status = "absent" /\ row'[w].status = "active" /\ Enrolls(c) /\ call[c].id = w
    \/ row[w].status = "active" /\ row'[w].status = "retired" /\ fleetLock = c /\ rowlock[w] = c

\* A step of one call that is sound for that call is sound for every other.
LEMMA OthersStaySound ==
  ASSUME NEW c \in Clients, Shape, \A d \in Clients : Sound(d), Shape',
         Kept(c), \A w \in Workloads : Entitled(c, w), Sound(c)'
  PROVE  \A d \in Clients : Sound(d)'
<1> SUFFICES ASSUME NEW d \in Clients, d # c  PROVE Sound(d)'
  OBVIOUS
<1> USE DEF Active, Retired
<1>1. /\ fleetPc'[d] = fleetPc[d] /\ call'[d] = call[d] /\ fleetLoad'[d].at = fleetLoad[d].at /\ fleetLoad'[d].seen = fleetLoad[d].seen
      /\ fleetLock' = d <=> fleetLock = d
      /\ \A w \in Workloads : rowlock[w] = d => rowlock'[w] = d
  BY DEF Kept
<1>2. Sound(d)
  OBVIOUS
<1>3. Carries(d)' /\ Exclusive(d)'
  BY <1>1, <1>2 DEF Sound, Carries, Exclusive
<1>4. Enrolling(d)'
  <2> SUFFICES ASSUME Enrolls(d)  PROVE Enrolling(d)'
    BY <1>1 DEF Enrolling, Enrolls
  <2>1. /\ call[d].id \in Workloads /\ row[call[d].id].status = "absent"
        /\ \A e \in Clients : Enrolls(e) /\ call[e].id = call[d].id => e = d
    BY <1>2 DEF Sound, Enrolling, Carries, Enrolls
  <2>2. row'[call[d].id].status = "absent"
    BY <2>1 DEF Entitled
  <2>3. ASSUME NEW e \in Clients, Enrolls(e)', call'[e].id = call[d].id  PROVE e = d
    <3>1. CASE e = c
      BY <2>3, <3>1, <1>1 DEF Sound, Enrolling, Enrolls
    <3>2. CASE e # c
      BY <2>1, <2>3, <3>2 DEF Kept, Enrolls
    <3> QED BY <3>1, <3>2
  <2> QED BY <1>1, <2>2, <2>3 DEF Enrolling, Enrolls
<1>5. Holding(d)'
  BY <1>1, <1>2 DEF Sound, Holding, Entitled, Carries
<1>6. Listed(d)'
  BY <1>1, <1>2 DEF Sound, Listed, Entitled, Carries
<1>7. Moving(d)'
  BY <1>1, <1>2 DEF Sound, Moving, Entitled, Exclusive
<1> QED BY <1>3, <1>4, <1>5, <1>6, <1>7 DEF Sound

\* A step of one call preserves the invariant when it is sound for that call and what is
\* rendered after it has every retired workload as retired.
LEMMA OneCall ==
  ASSUME NEW c \in Clients, IInv, Shape', Kept(c), \A w \in Workloads : Entitled(c, w),
         Sound(c)', RetiredIsNotRendered'
  PROVE  IInv'
BY OthersStaySound DEF IInv

\* What becomes of the loads in a step: of the call's own anything, of another's only
\* whether it will heal.
Loads(c) ==
    /\ fleetLoad' = [d \in Clients |-> fleetLoad'[d]] /\ \A d \in Clients : IsLoad(fleetLoad'[d])
    /\ \A d \in Clients \ {c} : fleetLoad'[d].at = fleetLoad[d].at /\ fleetLoad'[d].seen = fleetLoad[d].seen

LEMMA LoadForms ==
  ASSUME NEW c \in Clients, Shape
  PROVE  /\ UNCHANGED fleetLoad => Loads(c)
         /\ \A r : IsLoad(r) /\ fleetLoad' = [fleetLoad EXCEPT ![c] = r] => Loads(c)
         /\ fleetLoad' = Unhealed => Loads(c)
         /\ fleetLoad' = [Unhealed EXCEPT ![c] = NoFleetLoad] => Loads(c)
         /\ IsLoad(NoFleetLoad) /\ IsLoad([NoFleetLoad EXCEPT !.heals = TRUE])
<1>1. /\ fleetLoad = [d \in Clients |-> fleetLoad[d]]
      /\ \A d \in Clients : IsLoad(fleetLoad[d])
  BY DEF Shape
<1>2. IsLoad(NoFleetLoad) /\ IsLoad([NoFleetLoad EXCEPT !.heals = TRUE])
  BY Zenon DEF IsLoad, NoFleetLoad
<1>3. UNCHANGED fleetLoad => Loads(c)
  BY <1>1 DEF Loads, IsLoad
<1>4. ASSUME NEW r, IsLoad(r), fleetLoad' = [fleetLoad EXCEPT ![c] = r]  PROVE Loads(c)
  BY <1>1, <1>4, Zenon DEF Loads, IsLoad
<1>5. \A d \in Clients : /\ IsLoad(Unhealed[d]) /\ Unhealed[d].at = fleetLoad[d].at
                         /\ Unhealed[d].seen = fleetLoad[d].seen
  BY <1>1, Zenon DEF Unhealed, IsLoad
<1>6. fleetLoad' = Unhealed => Loads(c)
  BY <1>5 DEF Unhealed, Loads
<1>7. fleetLoad' = [Unhealed EXCEPT ![c] = NoFleetLoad] => Loads(c)
  BY <1>2, <1>5, Zenon DEF Unhealed, Loads
<1> QED BY <1>2, <1>3, <1>4, <1>6, <1>7

\* A call that returns is sound where it stands, and lets the others be.
LEMMA Returning ==
  ASSUME NEW c \in Clients, Shape, Return(c), row' \in [Workloads -> Rows], Loads(c)
  PROVE  Shape' /\ Kept(c) /\ Sound(c)'
<1> USE NoneAssumption
<1>1. /\ fleetPc' = [fleetPc EXCEPT ![c] = "idle"] /\ call' = [call EXCEPT ![c] = NoCall]
      /\ rowlock' = [w \in Workloads |-> IF rowlock[w] = c THEN None ELSE rowlock[w]]
      /\ fleetLock' = IF fleetLock = c THEN None ELSE fleetLock
  BY DEF Return, Goto
<1>2. IsCall(NoCall)
  BY DEF IsCall, NoCall, Call
<1>3. Shape'
  <2>1. fleetPc' = [d \in Clients |-> fleetPc'[d]]
    BY <1>1 DEF Shape
  <2>3. rowlock' = [w \in Workloads |-> rowlock'[w]]
    BY <1>1
  <2>2. call' = [d \in Clients |-> call'[d]] /\ \A d \in Clients : IsCall(call'[d])
    BY <1>1, <1>2 DEF Shape
  <2> QED BY <2>1, <2>2, <2>3 DEF Shape, Loads, IsCall, IsLoad
<1>4. Kept(c)
  <2> SUFFICES ASSUME NEW d \in Clients, d # c
               PROVE  /\ fleetPc'[d] = fleetPc[d] /\ call'[d] = call[d]
                      /\ fleetLoad'[d].at = fleetLoad[d].at /\ fleetLoad'[d].seen = fleetLoad[d].seen
                      /\ fleetLock' = d <=> fleetLock = d
                      /\ \A w \in Workloads : rowlock[w] = d => rowlock'[w] = d
    BY DEF Kept
  <2>1. fleetPc'[d] = fleetPc[d] /\ call'[d] = call[d]
    BY <1>1, Zenon DEF Shape
  <2>2. fleetLoad'[d].at = fleetLoad[d].at /\ fleetLoad'[d].seen = fleetLoad[d].seen
    BY DEF Loads
  <2>3. fleetLock' = d <=> fleetLock = d
    BY <1>1
  <2>4. \A w \in Workloads : rowlock[w] = d => rowlock'[w] = d
    BY <1>1
  <2> QED BY <2>1, <2>2, <2>3, <2>4
<1>5. fleetPc'[c] = "idle" /\ fleetLock' # c
  BY <1>1 DEF Shape
<1>6. Sound(c)'
  BY <1>5 DEF Sound, Carries, Exclusive, Enrolling, Enrolls, Holding, Listed, Moving
<1> QED BY <1>3, <1>4, <1>6

\* A call that returns and moves no status, mode or policy preserves the invariant.
LEMMA QuietReturn ==
  ASSUME NEW c \in Clients, IInv, Return(c), row' \in [Workloads -> Rows], Loads(c), UNCHANGED fleetRendered,
         \A w \in Workloads : row'[w].status = row[w].status /\ row'[w].mode = row[w].mode
  PROVE  IInv'
<1>1. Shape' /\ Kept(c) /\ Sound(c)'
  BY Returning DEF IInv
<1>2. RetiredIsNotRendered'
  BY DEF IInv, RetiredIsNotRendered, Retired
<1>3. \A w \in Workloads : Entitled(c, w)
  BY DEF Entitled
<1> QED BY <1>1, <1>2, <1>3, OneCall

\* A call that goes on, outside its render, and moves no status, mode or policy.
LEMMA QuietMove ==
  ASSUME NEW c \in Clients, IInv, NEW at, Goto(c, at), UNCHANGED <<fleetLock, fleetLoad, fleetRendered>>,
         row' \in [Workloads -> Rows],
         \A w \in Workloads : row'[w].status = row[w].status /\ row'[w].mode = row[w].mode,
         rowlock' = [w \in Workloads |-> rowlock'[w]],
         \A d \in Clients \ {c}, w \in Workloads : rowlock[w] = d => rowlock'[w] = d,
         NEW r, IsCall(r), call' = [call EXCEPT ![c] = r],
         Carries(c)', Enrolling(c)', Holding(c)',
         fleetPc[c] \notin {"load", "resolve", "stamp"}, at \notin {"load", "resolve", "stamp"}
  PROVE  IInv'
<1>1. fleetPc' = [fleetPc EXCEPT ![c] = at] /\ fleetPc'[c] = at /\ Shape /\ Sound(c)
  BY DEF Goto, IInv, Shape
<1>2. Shape'
  BY <1>1, Zenon DEF Shape
<1>3. Kept(c)
  BY <1>1, Zenon DEF Kept, Shape
<1>4. Sound(c)'
  BY <1>1 DEF Sound, Exclusive, Listed, Moving
<1>5. RetiredIsNotRendered'
  BY DEF IInv, RetiredIsNotRendered, Retired
<1>6. \A w \in Workloads : Entitled(c, w)
  BY DEF Entitled
<1> QED BY <1>2, <1>3, <1>4, <1>5, <1>6, OneCall

\* A step that touches no call, row, lock, load or policy preserves the invariant.
LEMMA Untouched ==
  ASSUME IInv, UNCHANGED <<row, rowlock, fleetLock, fleetPc, call, fleetLoad, fleetRendered>>
  PROVE  IInv'
<1>1. Shape'
  BY DEF IInv, Shape, IsCall, IsLoad
<1>2. \A c \in Clients : Sound(c)'
  BY DEF IInv, Sound, Carries, Exclusive, Enrolling, Enrolls, Holding, Listed, Moving, Active, Retired
<1>3. RetiredIsNotRendered'
  BY DEF IInv, RetiredIsNotRendered, Retired
<1> QED BY <1>1, <1>2, <1>3 DEF IInv

-----------------------------------------------------------------------------
(* The actions.                                                            *)

LEMMA Beginning ==
  ASSUME NEW c \in Clients, IInv, NEW at, NEW r, IsCall(r), BeginCall(c, at, r),
         at \notin {"load", "resolve", "stamp", "replace"}, Carries(c)', Enrolling(c)'
  PROVE  IInv'
<1>1. /\ fleetPc[c] = "idle" /\ Goto(c, at) /\ call' = [call EXCEPT ![c] = r]
      /\ UNCHANGED <<row, rowlock, fleetLock, fleetLoad, fleetRendered>>
  BY DEF BeginCall, locks, renders
<1>2. row' \in [Workloads -> Rows] /\ rowlock' = [w \in Workloads |-> rowlock'[w]]
  BY <1>1 DEF IInv, Shape
<1>3. Holding(c)'
  BY <1>1 DEF Holding, Goto, IInv, Shape
<1> QED BY <1>1, <1>2, <1>3, QuietMove, Zenon

\* What a call carries once it has begun.
LEMMA Begun ==
  ASSUME NEW c \in Clients, IInv, NEW at, NEW r, BeginCall(c, at, r)
  PROVE  /\ fleetPc'[c] = at /\ call'[c] = r /\ UNCHANGED <<row, rowlock, fleetLock, fleetLoad, fleetRendered>>
         /\ \A d \in Clients \ {c} : fleetPc'[d] = fleetPc[d] /\ call'[d] = call[d]
BY DEF BeginCall, Goto, locks, renders, IInv, Shape

LEMMA StartsKeep ==
  ASSUME NEW c \in Clients, IInv, Starts(c)
  PROVE  IInv'
<1> USE DEF Call, IsCall
<1>1. CASE ChangeMode(c)
  <2>1. PICK l \in Labels, m \in Modes, n \in 0..Cardinality(Workloads) :
          BeginCall(c, "mode", [Call("mode", None) EXCEPT !.arg = <<l, m>>, !.count = n])
    BY <1>1, Zenon DEF ChangeMode
  <2> DEFINE r == [Call("mode", None) EXCEPT !.arg = <<l, m>>, !.count = n]
  <2>2. IsCall(r) /\ r.op = "mode" /\ r.arg = <<l, m>> /\ DOMAIN r.prev = {}
    <3> DEFINE q == [Call("mode", None) EXCEPT !.arg = <<l, m>>]
    <3>2. q = [op |-> "mode", id |-> None, arg |-> <<l, m>>, count |-> 0, prev |-> [w \in {} |-> None]]
      OBVIOUS
    <3>3. r = [q EXCEPT !.count = n]
      OBVIOUS
    <3>1. r = [op |-> "mode", id |-> None, arg |-> <<l, m>>, count |-> n, prev |-> [w \in {} |-> None]]
      <4> HIDE DEF r, q
      <4> QED BY <3>2, <3>3
    <3> HIDE DEF r
    <3> QED BY <3>1
  <2> HIDE DEF r
  <2>3. fleetPc'[c] = "mode" /\ call'[c] = r
    BY <2>1, Begun DEF r
  <2>4. Carries(c)' /\ Enrolling(c)'
    BY <2>2, <2>3 DEF Carries, Enrolling, Enrolls
  <2> QED BY <2>1, <2>2, <2>4, Beginning DEF r
<1>2. CASE RevokeToken(c)
  BY <1>2, Untouched DEF RevokeToken, locks, renders
<1>3. ASSUME NEW w \in Workloads, Enroll(c, w)  PROVE IInv'
  <2>1. BeginCall(c, "token", Call("enroll", w)) /\ row[w].status = "absent" /\ \A d \in Clients : call[d].id # w
    BY <1>3 DEF Enroll
  <2>2. /\ fleetPc'[c] = "token" /\ call'[c] = Call("enroll", w) /\ UNCHANGED row
        /\ \A d \in Clients \ {c} : call'[d] = call[d]
    BY <2>1, Begun
  <2>3. Carries(c)'
    BY <2>2 DEF Carries
  <2>4. Enrolling(c)'
    BY <2>1, <2>2 DEF Enrolling, Enrolls
  <2> QED BY <2>1, <2>3, <2>4, Beginning
<1>4. ASSUME NEW w \in Workloads, SetLabels(c, w)  PROVE IInv'
  <2>1. PICK l \in Labels, expect \in Labels \union {None} :
          BeginCall(c, "labels", [Call("labels", w) EXCEPT !.arg = <<l, expect>>])
    BY <1>4 DEF SetLabels
  <2> DEFINE r == [Call("labels", w) EXCEPT !.arg = <<l, expect>>]
  <2>2. IsCall(r) /\ r.op = "labels" /\ r.arg = <<l, expect>> /\ r.id = w
    <3>1. r = [op |-> "labels", id |-> w, arg |-> <<l, expect>>, count |-> 0, prev |-> [v \in {} |-> None]]
      OBVIOUS
    <3> HIDE DEF r
    <3> QED BY <3>1
  <2> HIDE DEF r
  <2>3. fleetPc'[c] = "labels" /\ call'[c] = r
    BY <2>1, Begun DEF r
  <2>4. Carries(c)' /\ Enrolling(c)'
    BY <2>2, <2>3 DEF Carries, Enrolling, Enrolls
  <2> QED BY <2>1, <2>2, <2>4, Beginning DEF r
<1>5. ASSUME NEW w \in Workloads, NEW at \in {"inventory", "renew", "retire", "open"}, BeginCall(c, at, Call(at, w))
      PROVE  IInv'
  <2>1. fleetPc'[c] = at /\ call'[c] = Call(at, w)
    BY <1>5, Begun
  <2>2. Carries(c)' /\ Enrolling(c)'
    BY <2>1 DEF Carries, Enrolling, Enrolls
  <2> QED BY <1>5, <2>2, Beginning
<1> QED BY <1>1, <1>2, <1>3, <1>4, <1>5, Zenon DEF Starts, Inventory, Renew, Retire, Open

\* Calls that return without a change of status, mode or policy.
LEMMA ReturnsKeep ==
  ASSUME NEW c \in Clients, IInv,
         \/ TokenRefused(c) \/ LabelsRefused(c) \/ RecordFactsRefused(c) \/ MatchCountRefused(c)
         \/ RenewRefused(c) \/ RenewalNotRecorded(c) \/ AlreadyRetired(c) \/ EndRetired(c)
         \/ Authenticated(c) \/ NotAuthenticated(c) \/ FleetRenderFails(c) \/ TransactionFails(c)
  PROVE  IInv'
<1>1. Return(c) /\ UNCHANGED <<row, fleetRendered>>
  BY DEF TokenRefused, LabelsRefused, RecordFactsRefused, MatchCountRefused, RenewRefused,
         RenewalNotRecorded, AlreadyRetired, EndRetired, Authenticated, NotAuthenticated, FleetRenderFails,
         TransactionFails, RefuseCall, renders
<1>2. \/ UNCHANGED fleetLoad \/ fleetLoad' = [fleetLoad EXCEPT ![c] = NoFleetLoad]
      \/ fleetLoad' = [Unhealed EXCEPT ![c] = NoFleetLoad]
  BY DEF TokenRefused, LabelsRefused, RecordFactsRefused, MatchCountRefused, RenewRefused,
         RenewalNotRecorded, AlreadyRetired, EndRetired, Authenticated, NotAuthenticated, FleetRenderFails,
         TransactionFails, RefuseCall, renders
<1>3. Loads(c)
  BY <1>2, LoadForms DEF IInv
<1>4. row' \in [Workloads -> Rows]
  BY <1>1 DEF IInv, Shape
<1> QED BY <1>1, <1>3, <1>4, QuietReturn

\* A write of labels, addresses or a serial leaves status and mode as they are.
LEMMA RowWrite ==
  ASSUME Shape, NEW w \in Workloads,
         \/ \E l \in Labels : row' = [row EXCEPT ![w].labels = l]
         \/ \E a \in Nat : row' = [row EXCEPT ![w].addr = a]
         \/ row' = [row EXCEPT ![w].serial = @ + 1]
         \/ UNCHANGED row
  PROVE  /\ row' \in [Workloads -> Rows]
         /\ \A v \in Workloads : row'[v].status = row[v].status /\ row'[v].mode = row[v].mode
BY DEF Shape, Rows

LEMMA RecordsKeep ==
  ASSUME NEW c \in Clients, IInv, RecordFacts(c) \/ RecordRenewal(c)
  PROVE  IInv'
<1> DEFINE w == call[c].id
<1>0. Shape /\ Sound(c)
  BY DEF IInv
<1>1. CASE RecordRenewal(c)
  <2>1. w \in Workloads
    BY <1>0, <1>1 DEF RecordRenewal, Sound, Carries
  <2>2. /\ row' \in [Workloads -> Rows]
        /\ \A v \in Workloads : row'[v].status = row[v].status /\ row'[v].mode = row[v].mode
    BY <1>0, <1>1, <2>1, RowWrite, Zenon DEF RecordRenewal
  <2>3. Return(c) /\ UNCHANGED <<fleetLoad, fleetRendered>>
    BY <1>1 DEF RecordRenewal, renders
  <2> QED BY <1>0, <2>2, <2>3, LoadForms, QuietReturn
<1>2. CASE RecordFacts(c)
  <2>1. PICK a \in 1..2 :
          LET changed == a # row[w].addr IN
          /\ row' = [row EXCEPT ![w].addr = a]
          /\ \/ changed /\ Goto(c, "lock") /\ UNCHANGED <<locks, call, fleetMissed, stream, fleetLoad>>
             \/ ~changed /\ Return(c) /\ UNCHANGED <<fleetMissed, stream, fleetLoad>>
             \/ /\ fleetMissed' = (fleetMissed \/ changed) /\ fleetLoad' = IF changed THEN Unhealed ELSE fleetLoad
                /\ stream' = [stream EXCEPT ![w] = "none"] /\ Return(c)
    BY <1>2, Zenon DEF RecordFacts
  <2>2. fleetPc[c] = "inventory" /\ call[c].op = "inventory" /\ w \in Workloads /\ UNCHANGED fleetRendered
    BY <1>0, <1>2 DEF RecordFacts, Sound, Carries
  <2>3. /\ row' \in [Workloads -> Rows]
        /\ \A v \in Workloads : row'[v].status = row[v].status /\ row'[v].mode = row[v].mode
    <3>1. row' = [row EXCEPT ![w].addr = a] /\ a \in Nat
      BY <2>1
    <3> QED BY <1>0, <2>2, <3>1, RowWrite, Zenon
  <2>4. CASE Return(c) /\ (UNCHANGED fleetLoad \/ fleetLoad' = Unhealed)
    BY <1>0, <2>2, <2>3, <2>4, LoadForms, QuietReturn
  <2>5. CASE Goto(c, "lock") /\ UNCHANGED <<rowlock, fleetLock, call, fleetLoad>>
    <3>1. fleetPc'[c] = "lock" /\ call'[c] = call[c]
      BY <1>0, <2>5 DEF Goto, Shape
    <3>2. Carries(c)' /\ Enrolling(c)' /\ Holding(c)'
      BY <2>2, <3>1 DEF Carries, Enrolling, Enrolls, Holding
    <3>3. /\ IsCall(call[c]) /\ call' = [call EXCEPT ![c] = call[c]]
          /\ rowlock' = [v \in Workloads |-> rowlock'[v]]
      BY <1>0, <2>5 DEF Shape
    <3>4. Goto(c, "lock") /\ UNCHANGED <<fleetLock, fleetLoad, fleetRendered>> /\ UNCHANGED rowlock
      BY <2>2, <2>5
    <3>5. \A d \in Clients \ {c}, v \in Workloads : rowlock[v] = d => rowlock'[v] = d
      BY <3>4
    <3>6. fleetPc[c] \notin {"load", "resolve", "stamp"} /\ "lock" \notin {"load", "resolve", "stamp"}
      BY <2>2
    <3> HIDE DEF w
    <3> QED BY <2>3, <3>2, <3>3, <3>4, <3>5, <3>6, QuietMove, Zenon
  <2> QED BY <2>1, <2>4, <2>5 DEF locks
<1> QED BY <1>1, <1>2

\* Calls that go on, outside their renders.
LEMMA MovesKeep ==
  ASSUME NEW c \in Clients, IInv,
         TokenChecked(c) \/ afterEnroll(c) \/ LockWorkloadForLabels(c) \/ ReplaceWorkloadLabels(c) \/ RenewAdmitted(c)
  PROVE  IInv'
<1> DEFINE w == call[c].id
<1>0. Shape /\ Sound(c)
  BY DEF IInv
<1>1. UNCHANGED <<fleetLock, call, fleetLoad, fleetRendered>> /\ fleetPc[c] \in {"token", "facts", "labels", "replace", "renew"}
  BY DEF TokenChecked, afterEnroll, LockWorkloadForLabels, ReplaceWorkloadLabels, RenewAdmitted, locks, renders
<1>2. w \in Workloads /\ call[c].op \notin {"mode", "retire"}
  BY <1>0, <1>1 DEF Sound, Carries
<1>3. IsCall(call[c]) /\ call' = [call EXCEPT ![c] = call[c]] /\ call'[c] = call[c]
  BY <1>0, <1>1 DEF Shape
<1>4. ASSUME NEW at \in {"create", "lock", "replace", "sign"}, Goto(c, at),
             row' \in [Workloads -> Rows],
             \A v \in Workloads : row'[v].status = row[v].status /\ row'[v].mode = row[v].mode,
             rowlock' = [v \in Workloads |-> rowlock'[v]],
             \A d \in Clients \ {c}, v \in Workloads : rowlock[v] = d => rowlock'[v] = d,
             Carries(c)', Enrolling(c)', Holding(c)'
      PROVE  IInv'
  BY <1>1, <1>3, <1>4, QuietMove, Zenon
<1>5. CASE TokenChecked(c)
  <2>1. fleetPc[c] = "token" /\ Goto(c, "create") /\ UNCHANGED <<row, rowlock>>
    BY <1>5 DEF TokenChecked, locks
  <2>2. fleetPc' = [fleetPc EXCEPT ![c] = "create"] /\ fleetPc'[c] = "create"
    BY <1>0, <2>1 DEF Goto, Shape
  <2>3. Carries(c)' /\ Holding(c)'
    BY <1>0, <1>2, <1>3, <2>1, <2>2 DEF Sound, Carries, Holding
  <2>4. Enrolling(c)'
    BY <1>0, <1>1, <1>3, <2>1, <2>2 DEF Sound, Enrolling, Enrolls, Shape
  <2> QED BY <1>0, <1>4, <2>1, <2>3, <2>4 DEF Shape
<1>6. CASE afterEnroll(c)
  <2>1. fleetPc[c] = "facts" /\ Goto(c, "lock") /\ UNCHANGED rowlock
        /\ (UNCHANGED row \/ row' = [row EXCEPT ![w].addr = 1])
    BY <1>6 DEF afterEnroll, locks
  <2>2. fleetPc'[c] = "lock"
    BY <1>0, <2>1 DEF Goto, Shape
  <2>3. Carries(c)' /\ Holding(c)' /\ Enrolling(c)'
    BY <1>2, <1>3, <2>2 DEF Carries, Holding, Enrolling, Enrolls
  <2>4. /\ row' \in [Workloads -> Rows]
        /\ \A v \in Workloads : row'[v].status = row[v].status /\ row'[v].mode = row[v].mode
    BY <1>0, <1>2, <2>1, RowWrite
  <2> QED BY <1>0, <1>4, <2>1, <2>3, <2>4 DEF Shape
<1>7. CASE LockWorkloadForLabels(c)
  <2>1. /\ fleetPc[c] = "labels" /\ rowlock[w] = None /\ Active(w) /\ Goto(c, "replace") /\ UNCHANGED row
        /\ rowlock' = [rowlock EXCEPT ![w] = c]
    BY <1>7 DEF LockWorkloadForLabels, Free
  <2>2. fleetPc'[c] = "replace"
    BY <1>0, <2>1 DEF Goto, Shape
  <2>3. Carries(c)' /\ Enrolling(c)'
    BY <1>0, <1>2, <1>3, <2>1, <2>2 DEF Sound, Carries, Enrolling, Enrolls
  <2>4. /\ rowlock' = [v \in Workloads |-> rowlock'[v]] /\ rowlock'[w] = c
        /\ \A d \in Clients \ {c}, v \in Workloads : rowlock[v] = d => rowlock'[v] = d
    BY <1>0, <1>2, <2>1, NoneAssumption DEF Shape
  <2>5. Holding(c)'
    BY <1>3, <2>1, <2>4 DEF Holding, Active
  <2> QED BY <1>0, <1>4, <2>1, <2>3, <2>4, <2>5 DEF Shape
<1>8. CASE ReplaceWorkloadLabels(c)
  <2>1. /\ fleetPc[c] = "replace" /\ Goto(c, "lock") /\ row' = [row EXCEPT ![w].labels = call[c].arg[1]]
        /\ rowlock' = [rowlock EXCEPT ![w] = IF @ = c THEN None ELSE @]
    BY <1>8 DEF ReplaceWorkloadLabels
  <2>2. fleetPc'[c] = "lock" /\ call[c].arg[1] \in Labels
    BY <1>0, <2>1 DEF Goto, Shape, Sound, Carries
  <2>3. Carries(c)' /\ Holding(c)' /\ Enrolling(c)'
    BY <1>2, <1>3, <2>2 DEF Carries, Holding, Enrolling, Enrolls
  <2>4. /\ row' \in [Workloads -> Rows]
        /\ \A v \in Workloads : row'[v].status = row[v].status /\ row'[v].mode = row[v].mode
    BY <1>0, <1>2, <2>1, <2>2, RowWrite, Zenon
  <2>5. /\ rowlock' = [v \in Workloads |-> rowlock'[v]]
        /\ \A d \in Clients \ {c}, v \in Workloads : rowlock[v] = d => rowlock'[v] = d
    BY <1>0, <1>2, <2>1 DEF Shape
  <2> QED BY <1>4, <2>1, <2>3, <2>4, <2>5
<1>9. CASE RenewAdmitted(c)
  <2>1. fleetPc[c] = "renew" /\ Goto(c, "sign") /\ UNCHANGED <<row, rowlock>>
    BY <1>9 DEF RenewAdmitted, locks
  <2>2. fleetPc'[c] = "sign"
    BY <1>0, <2>1 DEF Goto, Shape
  <2>3. Carries(c)' /\ Holding(c)' /\ Enrolling(c)'
    BY <1>0, <1>2, <1>3, <2>1, <2>2 DEF Sound, Carries, Holding, Enrolling, Enrolls
  <2> QED BY <1>0, <1>4, <2>1, <2>3 DEF Shape
<1> QED BY <1>5, <1>6, <1>7, <1>8, <1>9

\* CreateWorkload: the workload was absent, and no other call enrolls it.
LEMMA CreateKeeps ==
  ASSUME NEW c \in Clients, IInv, CreateWorkload(c)
  PROVE  IInv'
<1> DEFINE w == call[c].id
<1>0. Shape /\ Sound(c) /\ \A d \in Clients : Sound(d)
  BY DEF IInv
<1>1. /\ fleetPc[c] = "create" /\ Goto(c, "facts") /\ UNCHANGED <<rowlock, fleetLock, call, fleetLoad, fleetRendered>>
      /\ w \in Workloads /\ row[w].status = "absent" /\ call[c].op = "enroll"
  BY <1>0 DEF CreateWorkload, Sound, Carries, Enrolling, Enrolls, locks, renders
<1>2. PICK l \in Labels : row' = [row EXCEPT ![w] =
          [status |-> "active", mode |-> "visibility", labels |-> l, addr |-> 0, serial |-> 1]]
  BY Zenon DEF CreateWorkload
<1>3. row' \in [Workloads -> Rows] /\ row'[w].status = "active" /\ \A v \in Workloads \ {w} : row'[v] = row[v]
  BY <1>0, <1>1, <1>2, NoneAssumption DEF Shape, Rows
<1>4. fleetPc' = [fleetPc EXCEPT ![c] = "facts"] /\ fleetPc'[c] = "facts"
  BY <1>0, <1>1 DEF Goto, Shape
<1>5. Shape'
  BY <1>0, <1>1, <1>3, <1>4, Zenon DEF Shape, IsCall, IsLoad
<1>6. Kept(c)
  BY <1>0, <1>1, <1>4 DEF Kept, Shape
<1>7. \A v \in Workloads : Entitled(c, v)
  BY <1>1, <1>3 DEF Entitled, Enrolls
<1>8. Sound(c)'
  BY <1>0, <1>1, <1>4, Zenon DEF Sound, Carries, Exclusive, Enrolling, Enrolls, Holding, Listed, Moving
<1>9. RetiredIsNotRendered'
  BY <1>1, <1>3 DEF IInv, RetiredIsNotRendered, Retired
<1> QED BY <1>5, <1>6, <1>7, <1>8, <1>9, OneCall

\* Inside the render, before its commit: nothing of the tables moves.
LEMMA InsideKeeps ==
  ASSUME NEW c \in Clients, IInv, UNCHANGED <<row, fleetRendered>>, Loads(c), Sound(c)',
         fleetPc' = [fleetPc EXCEPT ![c] = fleetPc'[c]],
         NEW r, IsCall(r), call' = [call EXCEPT ![c] = r],
         rowlock' = [w \in Workloads |-> rowlock'[w]],
         \A d \in Clients \ {c} : (fleetLock' = d <=> fleetLock = d) /\ \A w \in Workloads : rowlock[w] = d => rowlock'[w] = d
  PROVE  IInv'
<1>1. Shape
  BY DEF IInv
<1>2. Shape'
  <2>1. row' \in [Workloads -> Rows] /\ fleetPc' = [d \in Clients |-> fleetPc'[d]]
    BY <1>1 DEF Shape
  <2>2. call' = [d \in Clients |-> call'[d]] /\ \A d \in Clients : IsCall(call'[d])
    BY <1>1 DEF Shape
  <2> QED BY <2>1, <2>2, Zenon DEF Shape, Loads, IsCall, IsLoad
<1>3. Kept(c)
  <2>1. \A d \in Clients \ {c} : fleetPc'[d] = fleetPc[d] /\ call'[d] = call[d]
    BY <1>1 DEF Shape
  <2> QED BY <2>1 DEF Kept, Loads
<1>4. \A w \in Workloads : Entitled(c, w)
  BY DEF Entitled
<1>5. RetiredIsNotRendered'
  BY DEF IInv, RetiredIsNotRendered, Retired
<1> QED BY <1>2, <1>3, <1>4, <1>5, OneCall

LEMMA AcquireKeeps ==
  ASSUME NEW c \in Clients, IInv, acquireFleetRenderLock(c)
  PROVE  IInv'
<1>0. Shape /\ Sound(c)
  BY DEF IInv
<1>1. /\ fleetPc[c] \in {"lock", "mode", "retire"} /\ fleetLock = None /\ fleetLock' = c
      /\ fleetLoad' = [fleetLoad EXCEPT ![c] = [NoFleetLoad EXCEPT !.heals = TRUE]]
      /\ UNCHANGED <<row, rowlock, call, fleetRendered>>
  BY DEF acquireFleetRenderLock
<1>2. fleetPc' = [fleetPc EXCEPT ![c] = CASE fleetPc[c] = "lock" -> "load" [] fleetPc[c] = "mode" -> "resolve" [] OTHER -> "stamp"]
  BY DEF acquireFleetRenderLock, Goto
<1>3. fleetPc' = [fleetPc EXCEPT ![c] = fleetPc'[c]]
      /\ fleetPc'[c] = CASE fleetPc[c] = "lock" -> "load" [] fleetPc[c] = "mode" -> "resolve" [] OTHER -> "stamp"
  BY <1>0, <1>2 DEF Shape
<1>4. /\ fleetPc[c] = "lock" => fleetPc'[c] = "load"
      /\ fleetPc[c] = "mode" => fleetPc'[c] = "resolve"
      /\ fleetPc[c] = "retire" => fleetPc'[c] = "stamp"
  BY <1>1, <1>3
<1>5. Loads(c) /\ fleetLoad'[c] = [NoFleetLoad EXCEPT !.heals = TRUE]
  BY <1>0, <1>1, LoadForms, Zenon DEF Shape
<1>6. fleetLoad'[c].at = "rows"
  BY <1>5 DEF NoFleetLoad
<1>7. IsCall(call[c]) /\ call' = [call EXCEPT ![c] = call[c]] /\ call'[c] = call[c]
      /\ rowlock' = [w \in Workloads |-> rowlock'[w]]
  BY <1>0, <1>1, Zenon DEF Shape
<1>8. Sound(c)'
  BY <1>0, <1>1, <1>4, <1>6, <1>7 DEF Sound, Carries, Exclusive, Enrolling, Enrolls, Holding, Listed, Moving
<1> QED BY <1>1, <1>3, <1>5, <1>7, <1>8, InsideKeeps, NoneAssumption, Zenon

\* The three statements of a render: what they return is sound for the call.
LEMMA ListKeeps ==
  ASSUME NEW c \in Clients, IInv, NEW at, NEW next, NEW seen, FleetLoading(c, at, next, seen),
         next # "rows", seen \in [Workloads -> Rows],
         \A w \in Workloads : Retired(w) => seen[w].status = "retired",
         call[c].op = "retire" => seen[call[c].id].status = "retired",
         fleetPc[c] = "resolve" => \A w \in Workloads :
             seen[w].status # "absent" => row[w].status # "absent" /\ seen[w].mode = row[w].mode
  PROVE  IInv'
<1>0. Shape /\ Sound(c)
  BY DEF IInv
<1>1. /\ fleetPc[c] \in {"load", "resolve"} /\ UNCHANGED <<row, rowlock, fleetLock, fleetPc, call, fleetRendered>>
      /\ fleetLoad' = [fleetLoad EXCEPT ![c].at = next, ![c].seen = seen]
  BY DEF FleetLoading, locks
<1>2. fleetLoad' = [fleetLoad EXCEPT ![c] = [[fleetLoad[c] EXCEPT !.at = next] EXCEPT !.seen = seen]]
  BY <1>0, <1>1, Zenon DEF Shape
<1>3. /\ IsLoad([[fleetLoad[c] EXCEPT !.at = next] EXCEPT !.seen = seen])
      /\ [[fleetLoad[c] EXCEPT !.at = next] EXCEPT !.seen = seen].at = next
      /\ [[fleetLoad[c] EXCEPT !.at = next] EXCEPT !.seen = seen].seen = seen
  BY <1>0, Zenon DEF Shape, IsLoad
<1>4. Loads(c) /\ fleetLoad'[c].at = next /\ fleetLoad'[c].seen = seen
  BY <1>0, <1>2, <1>3, LoadForms, Zenon DEF Shape
<1>5. Sound(c)'
  <2>1. Carries(c)' /\ Exclusive(c)' /\ Holding(c)' /\ Moving(c)' /\ Enrolling(c)'
    BY <1>0, <1>1 DEF Sound, Carries, Exclusive, Holding, Moving, Enrolling, Enrolls, Active
  <2>2. Listed(c)'
    BY <1>1, <1>4, Zenon DEF Listed, Retired
  <2> QED BY <2>1, <2>2 DEF Sound
<1>6. /\ IsCall(call[c]) /\ call' = [call EXCEPT ![c] = call[c]] /\ fleetPc' = [fleetPc EXCEPT ![c] = fleetPc'[c]]
      /\ rowlock' = [w \in Workloads |-> rowlock'[w]]
  BY <1>0, <1>1, Zenon DEF Shape
<1> QED BY <1>1, <1>4, <1>5, <1>6, InsideKeeps, Zenon

\* A listed row that takes over the labels or the addresses of another is a row, of the
\* same status and mode.
LEMMA MergedRow ==
  ASSUME NEW a \in Rows, NEW b \in Rows
  PROVE  /\ [a EXCEPT !.labels = b.labels] \in Rows
         /\ [a EXCEPT !.labels = b.labels].status = a.status
         /\ [a EXCEPT !.labels = b.labels].mode = a.mode
         /\ [a EXCEPT !.addr = b.addr] \in Rows
         /\ [a EXCEPT !.addr = b.addr].status = a.status
         /\ [a EXCEPT !.addr = b.addr].mode = a.mode
<1>1. /\ [a EXCEPT !.labels = b.labels] \in Rows
      /\ [a EXCEPT !.labels = b.labels].status = a.status
      /\ [a EXCEPT !.labels = b.labels].mode = a.mode
  BY DEF Rows
<1>2. /\ [a EXCEPT !.addr = b.addr] \in Rows
      /\ [a EXCEPT !.addr = b.addr].status = a.status
      /\ [a EXCEPT !.addr = b.addr].mode = a.mode
  BY DEF Rows
<1> QED BY <1>1, <1>2, Zenon

LEMMA ListsKeep ==
  ASSUME NEW c \in Clients, IInv, ListRows(c) \/ ListLabels(c) \/ ListAddresses(c)
  PROVE  IInv'
<1>0. Shape /\ Sound(c)
  BY DEF IInv
<1>1. /\ row \in [Workloads -> Rows]
      /\ fleetPc[c] \in {"load", "resolve"} /\ fleetLock = c
      /\ fleetPc[c] = "resolve" => call[c].op = "mode" /\ DOMAIN call[c].prev = {}
      /\ call[c].op = "mode" => call[c].arg[2] \in Modes
      /\ call[c].op = "retire" => fleetPc[c] = "load" /\ call[c].id \in Workloads
  BY <1>0 DEF Shape, Sound, Carries, Exclusive, ListRows, ListLabels, ListAddresses, FleetLoading
<1>2. CASE ListRows(c)
  <2> DEFINE seen == [w \in Workloads |-> Seen(c, w)]
  <2>1. ASSUME NEW w \in Workloads
        PROVE  /\ Seen(c, w) \in Rows
               /\ Retired(w) => Seen(c, w).status = "retired"
               /\ call[c].op = "retire" /\ call[c].id = w => Seen(c, w).status = "retired"
               /\ call[c].op # "retire" => Seen(c, w).status = row[w].status
               /\ call[c].op # "retire" /\ w \notin DOMAIN call[c].prev => Seen(c, w).mode = row[w].mode
    <3>1. CASE call[c].op = "retire" /\ call[c].id = w
      <4>1. Seen(c, w) = [row[w] EXCEPT !.status = "retired"]
        BY <3>1 DEF Seen
      <4> QED BY <1>1, <3>1, <4>1 DEF Rows, Retired
    <3>2. CASE ~(call[c].op = "retire" /\ call[c].id = w) /\ call[c].op = "mode" /\ w \in DOMAIN call[c].prev
      <4>1. Seen(c, w) = [row[w] EXCEPT !.mode = call[c].arg[2]]
        BY <3>2 DEF Seen
      <4> QED BY <1>1, <3>2, <4>1 DEF Rows, Retired
    <3>3. CASE ~(call[c].op = "retire" /\ call[c].id = w) /\ ~(call[c].op = "mode" /\ w \in DOMAIN call[c].prev)
      <4>1. Seen(c, w) = row[w]
        BY <3>3 DEF Seen
      <4> QED BY <1>1, <3>3, <4>1 DEF Rows, Retired
    <3> QED BY <3>1, <3>2, <3>3
  <2>2. seen \in [Workloads -> Rows] /\ \A w \in Workloads : seen[w] = Seen(c, w)
    BY <2>1
  <2>3. FleetLoading(c, "rows", "labels", seen)
    BY <1>2 DEF ListRows
  <2> HIDE DEF seen
  <2>4. /\ \A w \in Workloads : Retired(w) => seen[w].status = "retired"
        /\ call[c].op = "retire" => seen[call[c].id].status = "retired"
        /\ fleetPc[c] = "resolve" => \A w \in Workloads :
               seen[w].status # "absent" => row[w].status # "absent" /\ seen[w].mode = row[w].mode
    BY <1>1, <2>1, <2>2
  <2> QED BY <2>2, <2>3, <2>4, ListKeeps
<1>3. ASSUME NEW at, NEW next, NEW seen, FleetLoading(c, at, next, seen), at # "rows", next # "rows",
             seen \in [Workloads -> Rows],
             \A w \in Workloads : seen[w].status = fleetLoad[c].seen[w].status /\ seen[w].mode = fleetLoad[c].seen[w].mode
      PROVE  IInv'
  <2>1. fleetLoad[c].at = at
    BY <1>3 DEF FleetLoading
  <2>2. /\ \A w \in Workloads : Retired(w) => seen[w].status = "retired"
        /\ call[c].op = "retire" => seen[call[c].id].status = "retired"
        /\ fleetPc[c] = "resolve" => \A w \in Workloads :
               seen[w].status # "absent" => row[w].status # "absent" /\ seen[w].mode = row[w].mode
    BY <1>0, <1>1, <1>3, <2>1 DEF Sound, Listed
  <2> QED BY <1>3, <2>2, ListKeeps
<1>4. ASSUME ListLabels(c) \/ ListAddresses(c)  PROVE fleetLoad[c].seen \in [Workloads -> Rows]
  BY <1>0, <1>1, <1>4, Zenon DEF Sound, Listed, ListLabels, ListAddresses, FleetLoading
<1>5. CASE ListLabels(c)
  <2> DEFINE seen == [w \in Workloads |->
        IF fleetLoad[c].seen[w].status = "absent" THEN fleetLoad[c].seen[w]
        ELSE [fleetLoad[c].seen[w] EXCEPT !.labels = row[w].labels]]
  <2>1. ASSUME NEW w \in Workloads
        PROVE  /\ seen[w] \in Rows
               /\ seen[w].status = fleetLoad[c].seen[w].status
               /\ seen[w].mode = fleetLoad[c].seen[w].mode
    <3>1. fleetLoad[c].seen[w] \in Rows /\ row[w] \in Rows
      BY <1>1, <1>4, <1>5
    <3> QED BY <3>1, MergedRow, Zenon
  <2>2. FleetLoading(c, "labels", "addresses", seen)
    BY <1>5 DEF ListLabels
  <2>3. seen \in [Workloads -> Rows]
    BY <2>1
  <2> HIDE DEF seen
  <2> QED BY <1>3, <2>1, <2>2, <2>3
<1>6. CASE ListAddresses(c)
  <2> DEFINE seen == [w \in Workloads |->
        IF fleetLoad[c].seen[w].status = "absent" THEN fleetLoad[c].seen[w]
        ELSE [fleetLoad[c].seen[w] EXCEPT !.addr = row[w].addr]]
  <2>1. ASSUME NEW w \in Workloads
        PROVE  /\ seen[w] \in Rows
               /\ seen[w].status = fleetLoad[c].seen[w].status
               /\ seen[w].mode = fleetLoad[c].seen[w].mode
    <3>1. fleetLoad[c].seen[w] \in Rows /\ row[w] \in Rows
      BY <1>1, <1>4, <1>6
    <3> QED BY <3>1, MergedRow, Zenon
  <2>2. FleetLoading(c, "addresses", "done", seen)
    BY <1>6 DEF ListAddresses
  <2>3. seen \in [Workloads -> Rows]
    BY <2>1
  <2> HIDE DEF seen
  <2> QED BY <1>3, <2>1, <2>2, <2>3
<1> QED BY <1>2, <1>5, <1>6

\* SetWorkloadModes: the modes recorded are those of the rows it is about to change.
LEMMA SetModesKeeps ==
  ASSUME NEW c \in Clients, IInv, SetWorkloadModes(c)
  PROVE  IInv'
<1> DEFINE set == resolve(c, call[c].arg[1])
           moved == setWorkloadModes(set, call[c].arg[2])
           prev == [w \in set |-> fleetLoad[c].seen[w].mode]
           r == [call[c] EXCEPT !.prev = prev]
<1>0. Shape /\ Sound(c)
  BY DEF IInv
<1>1. /\ fleetPc[c] = "resolve" /\ fleetLoad[c].at = "done" /\ \A w \in moved : rowlock[w] = None
      /\ call' = [call EXCEPT ![c].prev = prev] /\ fleetLoad' = [fleetLoad EXCEPT ![c] = NoFleetLoad]
      /\ rowlock' = [w \in Workloads |-> IF w \in moved THEN c ELSE rowlock[w]]
      /\ fleetPc' = [fleetPc EXCEPT ![c] = "load"] /\ UNCHANGED <<row, fleetLock, fleetRendered>>
  BY DEF SetWorkloadModes, Goto, Free
<1>2. fleetLock = c /\ call[c].op = "mode" /\ call[c].arg[2] \in Modes
  BY <1>0, <1>1 DEF Sound, Carries, Exclusive
<1>3. \A w \in set : w \in Workloads /\ Active(w) /\ fleetLoad[c].seen[w].mode = row[w].mode
  BY <1>0, <1>1, <1>2 DEF Sound, Listed, resolve, Active, Retired, Shape, Rows
<1>4. /\ IsCall(r) /\ r.op = call[c].op /\ r.arg = call[c].arg /\ r.id = call[c].id /\ r.prev = prev
      /\ call' = [call EXCEPT ![c] = r] /\ call'[c] = r
  <2> HIDE DEF prev
  <2>1. IsCall(call[c])
    BY <1>0 DEF Shape
  <2>2. r = [op |-> call[c].op, id |-> call[c].id, arg |-> call[c].arg, count |-> call[c].count, prev |-> prev]
    BY <2>1 DEF IsCall
  <2>3. call' = [call EXCEPT ![c] = r] /\ call'[c] = r
    BY <1>0, <1>1 DEF Shape
  <2> HIDE DEF r
  <2> QED BY <2>2, <2>3 DEF IsCall
<1>5. fleetPc'[c] = "load" /\ fleetPc' = [fleetPc EXCEPT ![c] = fleetPc'[c]] /\ Loads(c) /\ fleetLoad'[c].at = "rows"
  BY <1>0, <1>1, LoadForms, Zenon DEF Shape, NoFleetLoad
<1>6. DOMAIN prev = set /\ \A w \in set : prev[w] = fleetLoad[c].seen[w].mode
  OBVIOUS
<1>7. /\ rowlock' = [w \in Workloads |-> rowlock'[w]]
      /\ \A d \in Clients \ {c} : \A w \in Workloads : rowlock[w] = d => rowlock'[w] = d
  BY <1>1, NoneAssumption
<1> HIDE DEF prev, set, moved, r
<1>8. Sound(c)'
  <2>1. Carries(c)' /\ Exclusive(c)' /\ Enrolling(c)' /\ Holding(c)' /\ Listed(c)'
    BY <1>1, <1>2, <1>4, <1>5 DEF Carries, Exclusive, Enrolling, Enrolls, Holding, Listed
  <2>2. Moving(c)'
    BY <1>1, <1>3, <1>4, <1>6 DEF Moving, Active
  <2> QED BY <2>1, <2>2 DEF Sound
<1> QED BY <1>1, <1>4, <1>5, <1>7, <1>8, InsideKeeps, Zenon

\* StampRetired: the row is locked and still active.
LEMMA StampKeeps ==
  ASSUME NEW c \in Clients, IInv, StampRetired(c)
  PROVE  IInv'
<1> DEFINE w == call[c].id
<1>0. Shape /\ Sound(c)
  BY DEF IInv
<1>1. /\ fleetPc[c] = "stamp" /\ rowlock[w] = None /\ Active(w) /\ rowlock' = [rowlock EXCEPT ![w] = c]
      /\ fleetPc' = [fleetPc EXCEPT ![c] = "load"] /\ UNCHANGED <<row, fleetLock, call, fleetLoad, fleetRendered>>
  BY DEF StampRetired, Goto, Free, retireWorkload, renders
<1>2. fleetLock = c /\ call[c].op = "retire" /\ w \in Workloads /\ fleetLoad[c].at = "rows"
  BY <1>0, <1>1 DEF Sound, Carries, Exclusive, Listed
<1>3. fleetPc'[c] = "load" /\ fleetPc' = [fleetPc EXCEPT ![c] = fleetPc'[c]] /\ Loads(c)
  BY <1>0, <1>1, LoadForms, Zenon DEF Shape
<1>4. IsCall(call[c]) /\ call' = [call EXCEPT ![c] = call[c]]
  BY <1>0, <1>1 DEF Shape
<1>5. /\ rowlock' = [v \in Workloads |-> rowlock'[v]] /\ rowlock'[w] = c
      /\ \A d \in Clients \ {c} : \A v \in Workloads : rowlock[v] = d => rowlock'[v] = d
  BY <1>0, <1>1, <1>2, NoneAssumption DEF Shape
<1>6. Sound(c)'
  BY <1>0, <1>1, <1>2, <1>3, <1>5
     DEF Sound, Carries, Exclusive, Enrolling, Enrolls, Holding, Listed, Moving, Active
<1> QED BY <1>1, <1>3, <1>4, <1>5, <1>6, InsideKeeps, Zenon

\* What a commit persists has every retired workload as retired.
LEMMA CommittedIsSound ==
  ASSUME NEW c \in Clients, IInv, fleetPc[c] = "load", fleetLoad[c].at = "done", fleetRendered' = Inputs(fleetLoad[c].seen)
  PROVE  /\ fleetLock = c
         /\ \A w \in Workloads : Retired(w) => fleetRendered'[w].status = "retired"
         /\ call[c].op = "retire" => fleetRendered'[call[c].id].status = "retired"
<1>1. fleetLock = c /\ Listed(c) /\ (call[c].op = "retire" => call[c].id \in Workloads)
  BY DEF IInv, Sound, Exclusive, Carries
<1>2. \A w \in Workloads : fleetRendered'[w].status = fleetLoad[c].seen[w].status
  BY DEF Inputs
<1> QED BY <1>1, <1>2 DEF Listed

LEMMA CommitsKeep ==
  ASSUME NEW c \in Clients, IInv, CommitRender(c) \/ CommitModeChange(c)
  PROVE  IInv'
<1>0. Shape /\ Sound(c)
  BY DEF IInv
<1>1. /\ fleetPc[c] = "load" /\ fleetLoad[c].at = "done" /\ fleetRendered' = Inputs(fleetLoad[c].seen)
      /\ fleetLoad' = [fleetLoad EXCEPT ![c] = NoFleetLoad] /\ Return(c)
  BY DEF CommitRender, CommitModeChange
<1>2. fleetLock = c /\ \A w \in Workloads : Retired(w) => fleetRendered'[w].status = "retired"
  BY <1>1, CommittedIsSound
<1>3. row' \in [Workloads -> Rows] /\ \A w \in Workloads : row'[w].status = row[w].status
  <2>1. CASE CommitRender(c)
    BY <1>0, <2>1 DEF CommitRender, Shape
  <2>2. CASE CommitModeChange(c)
    <3>1. call[c].arg[2] \in Modes
      BY <1>0, <2>2 DEF CommitModeChange, Sound, Carries
    <3> QED BY <1>0, <2>2, <3>1 DEF CommitModeChange, Shape, Rows
  <2> QED BY <2>1, <2>2
<1>4. Shape' /\ Kept(c) /\ Sound(c)'
  BY <1>0, <1>1, <1>3, LoadForms, Returning, Zenon
<1>5. \A w \in Workloads : Entitled(c, w)
  BY <1>2, <1>3 DEF Entitled
<1>6. RetiredIsNotRendered'
  BY <1>2, <1>3 DEF RetiredIsNotRendered, Retired
<1> QED BY <1>4, <1>5, <1>6, OneCall

LEMMA RetirementKeeps ==
  ASSUME NEW c \in Clients, IInv, CommitRetirement(c)
  PROVE  IInv'
<1> DEFINE w == call[c].id
<1>0. Shape /\ Sound(c)
  BY DEF IInv
<1>1. /\ fleetPc[c] = "load" /\ fleetLoad[c].at = "done" /\ call[c].op = "retire"
      /\ row' = [row EXCEPT ![w].status = "retired"]
      /\ fleetRendered' = Inputs(fleetLoad[c].seen) /\ fleetLoad' = [fleetLoad EXCEPT ![c] = NoFleetLoad]
      /\ rowlock' = [rowlock EXCEPT ![w] = None] /\ fleetLock' = None
      /\ fleetPc' = [fleetPc EXCEPT ![c] = "end"] /\ UNCHANGED call
  BY DEF CommitRetirement, Goto
<1>2. fleetLock = c /\ w \in Workloads /\ rowlock[w] = c /\ Active(w)
  BY <1>0, <1>1 DEF Sound, Exclusive, Carries, Holding
<1>3. /\ row' \in [Workloads -> Rows] /\ row'[w].status = "retired"
      /\ \A v \in Workloads \ {w} : row'[v] = row[v]
  BY <1>0, <1>1, <1>2 DEF Shape, Rows
<1>4. fleetPc'[c] = "end" /\ call'[c] = call[c] /\ Loads(c)
  BY <1>0, <1>1, LoadForms, Zenon DEF Shape
<1>5. Shape'
  BY <1>0, <1>1, <1>3, <1>4, Zenon DEF Shape, IsCall, Loads
<1>6. Kept(c)
  BY <1>0, <1>1, <1>2, <1>4, NoneAssumption DEF Kept, Shape, Loads
<1>7. \A v \in Workloads : Entitled(c, v)
  BY <1>2, <1>3 DEF Entitled, Active
<1>8. Sound(c)'
  BY <1>1, <1>2, <1>4, NoneAssumption
     DEF Sound, Carries, Exclusive, Enrolling, Enrolls, Holding, Listed, Moving
<1>9. RetiredIsNotRendered'
  BY <1>1, <1>3, CommittedIsSound DEF RetiredIsNotRendered, Retired
<1> QED BY <1>5, <1>6, <1>7, <1>8, <1>9, OneCall

-----------------------------------------------------------------------------
(* The invariant holds.                                                    *)

LEMMA InitSound == FleetInit => IInv
<1> SUFFICES ASSUME FleetInit  PROVE IInv
  OBVIOUS
<1>1. row \in [Workloads -> Rows]
  BY DEF FleetInit
<1>2. Shape
  BY <1>1, Zenon DEF FleetInit, Shape, IsCall, IsLoad, NoCall, Call, NoFleetLoad
<1>3. \A c \in Clients : fleetPc[c] = "idle" /\ fleetLock # c
  BY NoneAssumption, Zenon DEF FleetInit
<1>4. \A c \in Clients : Sound(c)
  BY <1>3, Zenon DEF Sound, Carries, Exclusive, Enrolling, Enrolls, Holding, Listed, Moving
<1>5. RetiredIsNotRendered
  BY DEF FleetInit, RetiredIsNotRendered, Retired, Inputs
<1> QED BY <1>2, <1>4, <1>5 DEF IInv

LEMMA StepKeeps ==
  ASSUME NEW c \in Clients, IInv, CallStep(c)
  PROVE  IInv'
BY ReturnsKeep, RecordsKeep, MovesKeep, CreateKeeps, AcquireKeeps, ListsKeep, SetModesKeeps,
   StampKeeps, CommitsKeep, RetirementKeeps DEF CallStep

LEMMA NextKeeps == IInv /\ [FleetNext]_fleetVars => IInv'
<1> SUFFICES ASSUME IInv, [FleetNext]_fleetVars  PROVE IInv'
  OBVIOUS
<1>1. ASSUME NEW c \in Clients, Starts(c) \/ CallStep(c) \/ FleetRenderFails(c) \/ TransactionFails(c)  PROVE IInv'
  BY <1>1, StartsKeep, StepKeeps, ReturnsKeep
<1>2. ASSUME NEW w \in Workloads, StreamStep(w) \/ direct(w)  PROVE IInv'
  BY <1>2, Untouched DEF StreamStep, RecordAgent, Register, Heartbeat, direct, locks, renders
<1>3. CASE ListenerLost \/ reconcile
  BY <1>3, Untouched DEF ListenerLost, reconcile, locks, renders
<1>4. CASE UNCHANGED fleetVars
  BY <1>4, Untouched DEF fleetVars
<1> QED BY <1>1, <1>2, <1>3, <1>4 DEF FleetNext

LEMMA Invariance == FleetSpec => []IInv
BY InitSound, NextKeeps, PTL DEF FleetSpec

-----------------------------------------------------------------------------
\* A workload whose retirement is committed is in no rendered peer set: a render that
\* listed it before cannot commit after, because the retirement held the render lock.
THEOREM RetiredNotRendered == FleetSpec => []RetiredIsNotRendered
<1>1. IInv => RetiredIsNotRendered
  BY DEF IInv
<1> QED BY <1>1, Invariance, PTL

\* The writes that reach a row, and why each leaves a retired one alone.
LEMMA WritesSpareRetired ==
  ASSUME NEW c \in Clients, IInv, NEW w \in Workloads, Retired(w), CallStep(c)
  PROVE  row'[w] = row[w]
<1> DEFINE v == call[c].id
<1>0. Shape /\ Sound(c)
  BY DEF IInv
<1>1. CASE UNCHANGED row
  BY <1>1
<1>2. CASE CreateWorkload(c)
  <2>1. v \in Workloads /\ v # w
    BY <1>0, <1>2 DEF CreateWorkload, Sound, Carries, Enrolling, Enrolls, Retired
  <2> QED BY <1>0, <1>2, <2>1 DEF CreateWorkload, Shape
<1>3. CASE afterEnroll(c) \/ RecordFacts(c) \/ RecordRenewal(c)
  <2>1. Active(v) => v # w
    BY DEF Active, Retired
  <2> QED BY <1>0, <1>3, <2>1 DEF afterEnroll, RecordFacts, RecordRenewal, recordWorkloadInventory, recordWorkloadRenewal, Shape
<1>4. CASE ReplaceWorkloadLabels(c) \/ CommitRetirement(c)
  <2>1. Active(v)
    BY <1>0, <1>4 DEF ReplaceWorkloadLabels, CommitRetirement, Sound, Holding
  <2>2. v # w
    BY <2>1 DEF Active, Retired
  <2> QED BY <1>0, <1>4, <2>2 DEF ReplaceWorkloadLabels, CommitRetirement, Shape
<1>5. CASE CommitModeChange(c)
  <2>1. w \notin DOMAIN call[c].prev
    BY <1>0, <1>5 DEF CommitModeChange, Sound, Moving, Active, Retired
  <2> QED BY <1>5, <2>1 DEF CommitModeChange
<1>6. \/ UNCHANGED row \/ CreateWorkload(c) \/ afterEnroll(c) \/ RecordFacts(c) \/ RecordRenewal(c)
      \/ ReplaceWorkloadLabels(c) \/ CommitRetirement(c) \/ CommitModeChange(c)
  BY Zenon
     DEF CallStep, TokenChecked, TokenRefused, LockWorkloadForLabels, LabelsRefused, RecordFactsRefused,
         acquireFleetRenderLock, ListRows, ListLabels, ListAddresses, FleetLoading, CommitRender, MatchCountRefused,
         SetWorkloadModes, RenewAdmitted, RenewRefused, RenewalNotRecorded, AlreadyRetired, StampRetired,
         EndRetired, Authenticated, NotAuthenticated, RefuseCall
<1> QED BY <1>1, <1>2, <1>3, <1>4, <1>5, <1>6

\* Nothing of a retired workload's row moves again, whatever label write, mode change,
\* inventory or renewal was under way when its retirement committed.
THEOREM RetiredFrozen == FleetSpec => RetiredStaysFrozen
<1>1. IInv /\ [FleetNext]_fleetVars => [KeepsRetired]_fleetVars
  <2> SUFFICES ASSUME IInv, FleetNext, NEW w \in Workloads, Retired(w)  PROVE row'[w] = row[w]
    BY DEF KeepsRetired
  <2>1. ASSUME NEW c \in Clients, Starts(c) \/ FleetRenderFails(c) \/ TransactionFails(c)  PROVE UNCHANGED row
    BY <2>1, Zenon DEF Starts, ChangeMode, RevokeToken, Enroll, SetLabels, Inventory, Renew, Retire, Open, BeginCall,
                FleetRenderFails, TransactionFails
  <2>2. ASSUME NEW c \in Clients, CallStep(c)  PROVE row'[w] = row[w]
    BY <2>2, WritesSpareRetired
  <2>3. ASSUME NEW v \in Workloads, StreamStep(v) \/ direct(v)  PROVE UNCHANGED row
    BY <2>3 DEF StreamStep, RecordAgent, Register, Heartbeat, direct
  <2>4. CASE ListenerLost \/ reconcile
    BY <2>4 DEF ListenerLost, reconcile
  <2> QED BY <2>1, <2>2, <2>3, <2>4 DEF FleetNext
<1> QED BY <1>1, Invariance, PTL DEF FleetSpec, RetiredStaysFrozen

\* The previous modes a mode change records are the modes it replaces.
THEOREM PreviousModes == FleetSpec => PreviousModeIsReplaced
<1>1. IInv /\ [FleetNext]_fleetVars => [ReplacesThePreviousMode]_fleetVars
  <2> SUFFICES ASSUME IInv, NEW c \in Clients, CommitModeChange(c), NEW w \in DOMAIN call[c].prev
               PROVE  call[c].prev[w] = row[w].mode
    BY DEF ReplacesThePreviousMode
  <2>1. Moving(c)
    BY DEF IInv, Sound
  <2> QED BY <2>1 DEF Moving, CommitModeChange
<1> QED BY <1>1, Invariance, PTL DEF FleetSpec, PreviousModeIsReplaced

-----------------------------------------------------------------------------
(* What is rendered is what is persisted.                                  *)

\* Two rows a render does not tell apart.
Alike(r, s) == r.status = s.status /\ r.mode = s.mode /\ r.labels = s.labels /\ r.addr = s.addr

\* A call that has persisted a change and has not begun the render that follows it, and
\* one that has not ended it.
Waits(c) == fleetPc[c] \in {"facts", "lock"}
Owes(c) == fleetPc[c] \in {"facts", "lock", "load"} /\ call[c].op \notin {"mode", "retire"}

Flags ==
    /\ fleetMissed \in BOOLEAN
    /\ \A c \in Clients :
        /\ fleetLoad[c] = [at |-> fleetLoad[c].at, heals |-> fleetLoad[c].heals, seen |-> fleetLoad[c].seen]
        /\ fleetLoad[c].heals \in BOOLEAN

\* What a render has listed is the fleet as it will be when it commits, unless a change
\* was persisted since whose own render waits for the lock or has failed.
UpToDate(c) ==
    fleetLock = c /\ fleetPc[c] = "load" /\ fleetLoad[c].at # "rows"
    /\ (fleetLoad[c].heals \/ ~fleetMissed) /\ (\A d \in Clients : ~Waits(d))
        => \A w \in Workloads : Alike(fleetLoad[c].seen[w], Seen(c, w))

RInv == Flags /\ FleetIsRendered /\ \A c \in Clients : UpToDate(c)

LEMMA AlikeInputs ==
  ASSUME NEW f, NEW g, \A w \in Workloads : Alike(f[w], g[w])
  PROVE  Inputs(f) = Inputs(g)
BY DEF Alike, Inputs

\* What a transaction sees of its own writes, before a step and after it.
LEMMA SeenFields ==
  ASSUME NEW c \in Clients, NEW w \in Workloads, Shape
  PROVE  /\ Seen(c, w).labels = row[w].labels /\ Seen(c, w).addr = row[w].addr
         /\ Seen(c, w).status = IF call[c].op = "retire" /\ call[c].id = w THEN "retired" ELSE row[w].status
         /\ Seen(c, w).mode = IF call[c].op = "mode" /\ w \in DOMAIN call[c].prev
                                 THEN call[c].arg[2] ELSE row[w].mode
<1>1. row[w] \in Rows
  BY DEF Shape
<1>2. CASE call[c].op = "retire" /\ call[c].id = w
  BY <1>1, <1>2 DEF Seen, Rows
<1>3. CASE call[c].op = "mode" /\ w \in DOMAIN call[c].prev
  BY <1>1, <1>3 DEF Seen, Rows
<1>4. CASE ~(call[c].op = "retire" /\ call[c].id = w) /\ ~(call[c].op = "mode" /\ w \in DOMAIN call[c].prev)
  BY <1>4 DEF Seen
<1> QED BY <1>2, <1>3, <1>4

LEMMA SeenFieldsAfter ==
  ASSUME NEW c \in Clients, NEW w \in Workloads, Shape'
  PROVE  /\ Seen(c, w)'.labels = row'[w].labels /\ Seen(c, w)'.addr = row'[w].addr
         /\ Seen(c, w)'.status = IF call'[c].op = "retire" /\ call'[c].id = w THEN "retired" ELSE row'[w].status
         /\ Seen(c, w)'.mode = IF call'[c].op = "mode" /\ w \in DOMAIN call'[c].prev
                                  THEN call'[c].arg[2] ELSE row'[w].mode
<1>1. row'[w] \in Rows
  BY DEF Shape
<1>2. CASE call'[c].op = "retire" /\ call'[c].id = w
  BY <1>1, <1>2 DEF Seen, Rows
<1>3. CASE call'[c].op = "mode" /\ w \in DOMAIN call'[c].prev
  BY <1>1, <1>3 DEF Seen, Rows
<1>4. CASE ~(call'[c].op = "retire" /\ call'[c].id = w) /\ ~(call'[c].op = "mode" /\ w \in DOMAIN call'[c].prev)
  BY <1>4 DEF Seen
<1> QED BY <1>2, <1>3, <1>4

\* A step that lets the other calls be, whether their renders heal included.
LetsBe(c) ==
    \A d \in Clients \ {c} :
        /\ fleetPc'[d] = fleetPc[d] /\ call'[d] = call[d] /\ fleetLoad'[d] = fleetLoad[d]
        /\ fleetLock' = d <=> fleetLock = d

\* A step of one call that changes nothing a render reads, and neither ends nor gives up
\* a render owed.
LEMMA QuietRenders ==
  ASSUME NEW c \in Clients, Shape, Shape', RInv, Flags', LetsBe(c), UNCHANGED <<fleetMissed, fleetRendered>>,
         \A w \in Workloads : Alike(row'[w], row[w]),
         Owes(c) => Owes(c)', Waits(c) => Waits(c)' \/ fleetLock' = c, UpToDate(c)'
  PROVE  RInv'
<1>1. FleetIsRendered'
  <2> SUFFICES ASSUME ~fleetMissed, \A d \in Clients : ~Owes(d)'  PROVE fleetRendered' = Inputs(row)'
    BY DEF FleetIsRendered, Owes
  <2>1. \A d \in Clients : ~Owes(d)
    BY DEF LetsBe, Owes
  <2>2. fleetRendered = Inputs(row)
    BY <2>1 DEF RInv, FleetIsRendered, Owes
  <2>3. Inputs(row)' = Inputs(row)
    BY DEF Alike, Inputs
  <2> QED BY <2>2, <2>3
<1>2. ASSUME NEW d \in Clients, d # c  PROVE UpToDate(d)'
  <2> SUFFICES ASSUME fleetLock' = d, fleetPc'[d] = "load", fleetLoad'[d].at # "rows",
                      fleetLoad'[d].heals \/ ~fleetMissed', \A e \in Clients : ~Waits(e)',
                      NEW w \in Workloads
               PROVE  Alike(fleetLoad'[d].seen[w], Seen(d, w)')
    BY DEF UpToDate
  <2>1. /\ fleetPc'[d] = fleetPc[d] /\ call'[d] = call[d] /\ fleetLoad'[d] = fleetLoad[d]
        /\ fleetLock = d
    BY <1>2 DEF LetsBe
  <2>2. \A e \in Clients : ~Waits(e)
    BY <1>2 DEF LetsBe, Waits
  <2>3. Alike(fleetLoad[d].seen[w], Seen(d, w))
    BY <2>1, <2>2 DEF RInv, UpToDate
  <2>4. Alike(row'[w], row[w])
    BY Zenon
  <2>5. /\ Seen(d, w)'.labels = Seen(d, w).labels /\ Seen(d, w)'.addr = Seen(d, w).addr
    BY <2>4, SeenFields, SeenFieldsAfter DEF Alike
  <2>6. Seen(d, w)'.status = Seen(d, w).status
    BY <2>1, <2>4, SeenFields, SeenFieldsAfter DEF Alike
  <2>7. Seen(d, w)'.mode = Seen(d, w).mode
    BY <2>1, <2>4, SeenFields, SeenFieldsAfter DEF Alike
  <2> QED BY <2>1, <2>3, <2>5, <2>6, <2>7, Zenon DEF Alike
<1> QED BY <1>1, <1>2 DEF RInv

\* A change has been persisted and its render is to come.
LEMMA WaitingRenders ==
  ASSUME NEW c \in Clients, Flags', Waits(c)', Owes(c)'
  PROVE  RInv'
BY DEF RInv, FleetIsRendered, UpToDate, Owes

\* A change has been persisted and its render will not come.
LEMMA MissedRenders ==
  ASSUME Flags', fleetMissed' = TRUE, \A d \in Clients : fleetLoad'[d].heals = FALSE
  PROVE  RInv'
BY DEF RInv, FleetIsRendered, UpToDate

\* What becomes of the loads' flags.
LEMMA FlagForms ==
  ASSUME NEW c \in Clients, Shape, Flags, fleetMissed' \in BOOLEAN,
         \/ UNCHANGED fleetLoad
         \/ \E r : /\ r = [at |-> r.at, heals |-> r.heals, seen |-> r.seen] /\ r.heals \in BOOLEAN
                   /\ fleetLoad' = [fleetLoad EXCEPT ![c] = r]
  PROVE  Flags' /\ \A d \in Clients \ {c} : fleetLoad'[d] = fleetLoad[d]
<1>1. fleetLoad = [d \in Clients |-> fleetLoad[d]]
  BY DEF Shape
<1> QED BY <1>1 DEF Flags

LEMMA FreshLoads ==
  /\ NoFleetLoad = [at |-> "rows", heals |-> FALSE, seen |-> None]
  /\ [NoFleetLoad EXCEPT !.heals = TRUE] = [at |-> "rows", heals |-> TRUE, seen |-> None]
<1> DEFINE r == [at |-> "rows", heals |-> FALSE, seen |-> None]
           q == [r EXCEPT !.heals = TRUE]
<1>1. DOMAIN q = {"at", "heals", "seen"} /\ q.at = "rows" /\ q.heals = TRUE /\ q.seen = None
      /\ q = [x \in DOMAIN q |-> q[x]]
  BY Zenon
<1> HIDE DEF q
<1>2. q = [at |-> "rows", heals |-> TRUE, seen |-> None]
  BY <1>1
<1> QED BY <1>2 DEF NoFleetLoad, q

\* Calls that return with no change that a render reads, and owe no render.
LEMMA ReturnsRender ==
  ASSUME NEW c \in Clients, Shape, Shape', RInv, Return(c), UNCHANGED <<fleetMissed, fleetRendered>>,
         UNCHANGED fleetLoad \/ fleetLoad' = [fleetLoad EXCEPT ![c] = NoFleetLoad],
         \A w \in Workloads : Alike(row'[w], row[w]), ~Owes(c), ~Waits(c)
  PROVE  RInv'
<1>1. Flags' /\ \A d \in Clients \ {c} : fleetLoad'[d] = fleetLoad[d]
  <2>1. Flags /\ fleetMissed' \in BOOLEAN
    BY DEF RInv, Flags
  <2>2. NoFleetLoad = [at |-> NoFleetLoad.at, heals |-> NoFleetLoad.heals, seen |-> NoFleetLoad.seen]
        /\ NoFleetLoad.heals \in BOOLEAN
    BY FreshLoads
  <2> QED BY <2>1, <2>2, FlagForms
<1>2. fleetPc'[c] = "idle" /\ \A d \in Clients \ {c} : fleetPc'[d] = fleetPc[d] /\ call'[d] = call[d]
  BY DEF Return, Goto, Shape
<1>3. \A d \in Clients \ {c} : fleetLock' = d <=> fleetLock = d
  BY NoneAssumption DEF Return
<1>4. LetsBe(c)
  BY <1>1, <1>2, <1>3 DEF LetsBe
<1>5. UpToDate(c)'
  BY <1>2 DEF UpToDate
<1> QED BY <1>1, <1>4, <1>5, QuietRenders

Reloads(c) ==
    \/ UNCHANGED fleetLoad
    \/ fleetLoad' = [fleetLoad EXCEPT ![c] = NoFleetLoad]
    \/ fleetLoad' = [fleetLoad EXCEPT ![c] = [NoFleetLoad EXCEPT !.heals = TRUE]]

\* Calls that go on with no change that a render reads, and with no load of their own.
LEMMA MovesRender ==
  ASSUME NEW c \in Clients, Shape, Shape', RInv, UNCHANGED <<row, fleetMissed, fleetRendered>>,
         NEW at, Goto(c, at), Reloads(c),
         \A d \in Clients \ {c} : call'[d] = call[d],
         UNCHANGED fleetLock \/ (fleetLock = None /\ fleetLock' = c),
         Owes(c) => Owes(c)', Waits(c) => Waits(c)' \/ fleetLock' = c,
         at # "load" \/ fleetLoad'[c].at = "rows"
  PROVE  RInv'
<1>1. Flags' /\ \A d \in Clients \ {c} : fleetLoad'[d] = fleetLoad[d]
  <2>1. Flags /\ fleetMissed' \in BOOLEAN
    BY DEF RInv, Flags
  <2>2. NoFleetLoad = [at |-> NoFleetLoad.at, heals |-> NoFleetLoad.heals, seen |-> NoFleetLoad.seen]
        /\ NoFleetLoad.heals \in BOOLEAN
    BY FreshLoads
  <2> DEFINE r == [NoFleetLoad EXCEPT !.heals = TRUE]
  <2>3. r = [at |-> r.at, heals |-> r.heals, seen |-> r.seen] /\ r.heals \in BOOLEAN
    BY FreshLoads
  <2> HIDE DEF r
  <2>4. UNCHANGED fleetLoad \/ fleetLoad' = [fleetLoad EXCEPT ![c] = NoFleetLoad]
        \/ fleetLoad' = [fleetLoad EXCEPT ![c] = r]
    BY DEF r, Reloads
  <2> QED BY <2>1, <2>2, <2>3, <2>4, FlagForms
<1>2. fleetPc'[c] = at /\ \A d \in Clients \ {c} : fleetPc'[d] = fleetPc[d] /\ call'[d] = call[d]
  BY DEF Goto, Shape
<1>3. \A d \in Clients \ {c} : fleetLock' = d <=> fleetLock = d
  BY NoneAssumption
<1>4. LetsBe(c)
  BY <1>1, <1>2, <1>3 DEF LetsBe
<1>5. UpToDate(c)'
  BY <1>2 DEF UpToDate
<1>6. \A w \in Workloads : Alike(row'[w], row[w])
  BY DEF Alike
<1> QED BY <1>1, <1>4, <1>5, <1>6, QuietRenders

LEMMA StartsRender ==
  ASSUME NEW c \in Clients, IInv, IInv', RInv, Starts(c)
  PROVE  RInv'
<1>0. Shape /\ Shape'
  BY DEF IInv
<1>1. CASE RevokeToken(c)
  <2>1. UNCHANGED <<row, fleetLock, fleetPc, call, fleetLoad, fleetRendered, fleetMissed>>
    BY <1>1 DEF RevokeToken, locks, renders
  <2> QED BY <2>1 DEF RInv, Flags, FleetIsRendered, UpToDate, Waits, Seen
<1>2. ASSUME NEW at \in {"mode", "token", "labels", "inventory", "renew", "retire", "open"}, NEW r, BeginCall(c, at, r)
      PROVE  RInv'
  <2>1. /\ fleetPc[c] = "idle" /\ Goto(c, at) /\ call' = [call EXCEPT ![c] = r]
        /\ UNCHANGED <<row, fleetLock, fleetLoad, fleetRendered, fleetMissed>>
    BY <1>2 DEF BeginCall, locks, renders
  <2>2. ~Owes(c) /\ ~Waits(c)
    BY <2>1 DEF Owes, Waits
  <2>3. at # "load" /\ Reloads(c) /\ \A d \in Clients \ {c} : call'[d] = call[d]
    BY <1>0, <2>1 DEF Shape, Reloads
  <2>4. UNCHANGED <<row, fleetMissed, fleetRendered>> /\ Goto(c, at) /\ UNCHANGED fleetLock
    BY <2>1
  <2>5. (Owes(c) => Owes(c)') /\ (Waits(c) => Waits(c)' \/ fleetLock' = c)
    BY <2>2
  <2> QED BY <1>0, <2>3, <2>4, <2>5, MovesRender
<1>3. ASSUME ChangeMode(c)  PROVE RInv'
  BY <1>2, <1>3 DEF ChangeMode
<1>4. ASSUME NEW w \in Workloads, SetLabels(c, w)  PROVE RInv'
  BY <1>2, <1>4 DEF SetLabels
<1>5. ASSUME NEW w \in Workloads, Enroll(c, w) \/ Inventory(c, w) \/ Renew(c, w) \/ Retire(c, w) \/ Open(c, w)
      PROVE  RInv'
  BY <1>2, <1>5 DEF Enroll, Inventory, Renew, Retire, Open
<1> QED BY <1>1, <1>3, <1>4, <1>5 DEF Starts

LEMMA QuietStepsRender ==
  ASSUME NEW c \in Clients, IInv, IInv', RInv,
         \/ TokenRefused(c) \/ LabelsRefused(c) \/ RecordFactsRefused(c) \/ MatchCountRefused(c)
         \/ RenewRefused(c) \/ RenewalNotRecorded(c) \/ AlreadyRetired(c) \/ EndRetired(c)
         \/ Authenticated(c) \/ NotAuthenticated(c) \/ TransactionFails(c)
  PROVE  RInv'
<1>1. Return(c) /\ UNCHANGED <<row, fleetRendered, fleetMissed>>
  BY Zenon
    DEF TokenRefused, LabelsRefused, RecordFactsRefused, MatchCountRefused, RenewRefused,
        RenewalNotRecorded, AlreadyRetired, EndRetired, Authenticated, NotAuthenticated,
        TransactionFails, RefuseCall, renders
<1>2. UNCHANGED fleetLoad \/ fleetLoad' = [fleetLoad EXCEPT ![c] = NoFleetLoad]
  BY Zenon
    DEF TokenRefused, LabelsRefused, RecordFactsRefused, MatchCountRefused, RenewRefused,
        RenewalNotRecorded, AlreadyRetired, EndRetired, Authenticated, NotAuthenticated,
        TransactionFails, RefuseCall, renders
<1>3. fleetPc[c] \notin {"facts", "lock"} /\ (fleetPc[c] = "load" => call[c].op \in {"mode", "retire"})
  BY DEF TokenRefused, LabelsRefused, RecordFactsRefused, MatchCountRefused, RenewRefused,
        RenewalNotRecorded, AlreadyRetired, EndRetired, Authenticated, NotAuthenticated,
        TransactionFails, RefuseCall
<1>4. \A w \in Workloads : Alike(row'[w], row[w])
  BY <1>1, Zenon DEF Alike
<1>5. ~Owes(c) /\ ~Waits(c) /\ Shape /\ Shape'
  BY <1>3, Zenon DEF Owes, Waits, IInv
<1> QED BY <1>1, <1>2, <1>4, <1>5, ReturnsRender, Zenon

LEMMA GoingOnRenders ==
  ASSUME NEW c \in Clients, IInv, IInv', RInv,
         \/ TokenChecked(c) \/ LockWorkloadForLabels(c) \/ RenewAdmitted(c) \/ StampRetired(c)
         \/ acquireFleetRenderLock(c) \/ SetWorkloadModes(c)
  PROVE  RInv'
<1>0. Shape /\ Shape' /\ Sound(c) /\ Sound(c)'
  BY DEF IInv
<1>1. CASE TokenChecked(c) \/ LockWorkloadForLabels(c) \/ RenewAdmitted(c)
  <2>1. PICK at \in {"create", "replace", "sign"} : Goto(c, at)
    BY <1>1, Zenon DEF TokenChecked, LockWorkloadForLabels, RenewAdmitted
  <2>2. /\ UNCHANGED <<row, fleetMissed, fleetRendered>> /\ UNCHANGED fleetLock /\ UNCHANGED call
        /\ Reloads(c) /\ ~Owes(c) /\ ~Waits(c)
    BY <1>1 DEF TokenChecked, LockWorkloadForLabels, RenewAdmitted, Reloads, Owes, Waits, locks, renders
  <2>3. at # "load" /\ \A d \in Clients \ {c} : call'[d] = call[d]
    BY <2>2
  <2> QED BY <1>0, <2>1, <2>2, <2>3, MovesRender, Zenon
<1>2. CASE StampRetired(c)
  <2>1. /\ Goto(c, "load") /\ UNCHANGED <<row, fleetMissed, fleetRendered>> /\ UNCHANGED fleetLock
        /\ UNCHANGED call /\ UNCHANGED fleetLoad /\ fleetPc[c] = "stamp"
    BY <1>2 DEF StampRetired, renders
  <2>2. fleetLoad'[c].at = "rows"
    BY <1>0, <2>1, Zenon DEF Sound, Exclusive, Listed
  <2>3. Reloads(c) /\ ~Owes(c) /\ ~Waits(c) /\ \A d \in Clients \ {c} : call'[d] = call[d]
    BY <2>1 DEF Reloads, Owes, Waits
  <2> QED BY <1>0, <2>1, <2>2, <2>3, MovesRender
<1>3. CASE acquireFleetRenderLock(c)
  <2> DEFINE at == CASE fleetPc[c] = "lock" -> "load" [] fleetPc[c] = "mode" -> "resolve" [] OTHER -> "stamp"
  <2>1. /\ Goto(c, at) /\ UNCHANGED <<row, fleetMissed, fleetRendered>> /\ UNCHANGED call
        /\ fleetLock = None /\ fleetLock' = c /\ fleetPc[c] \in {"lock", "mode", "retire"}
        /\ fleetLoad' = [fleetLoad EXCEPT ![c] = [NoFleetLoad EXCEPT !.heals = TRUE]]
    BY <1>3 DEF acquireFleetRenderLock
  <2>2. Reloads(c) /\ (Owes(c) => Owes(c)')
    <3>1. fleetPc'[c] = at
      BY <1>0, <2>1 DEF Goto, Shape
    <3> QED BY <2>1, <3>1 DEF Reloads, Owes
  <2>3. fleetLoad'[c].at = "rows"
    BY <1>0, <2>1, FreshLoads DEF Shape
  <2>4. \A d \in Clients \ {c} : call'[d] = call[d]
    BY <2>1
  <2> HIDE DEF at
  <2> QED BY <1>0, <2>1, <2>2, <2>3, <2>4, MovesRender
<1>4. CASE SetWorkloadModes(c)
  <2>1. /\ Goto(c, "load") /\ UNCHANGED <<row, fleetMissed, fleetRendered>> /\ UNCHANGED fleetLock
        /\ fleetPc[c] = "resolve" /\ fleetLoad' = [fleetLoad EXCEPT ![c] = NoFleetLoad]
        /\ call' = [call EXCEPT ![c].prev =
               [w \in resolve(c, call[c].arg[1]) |-> fleetLoad[c].seen[w].mode]]
    BY <1>4 DEF SetWorkloadModes
  <2>2. fleetLoad'[c].at = "rows"
    BY <1>0, <2>1 DEF Shape, NoFleetLoad
  <2>3. Reloads(c) /\ ~Owes(c) /\ ~Waits(c)
    BY <2>1 DEF Reloads, Owes, Waits
  <2>4. \A d \in Clients \ {c} : call'[d] = call[d]
    BY <1>0, <2>1, Zenon DEF Shape
  <2> QED BY <1>0, <2>1, <2>2, <2>3, <2>4, MovesRender
<1> QED BY <1>1, <1>2, <1>3, <1>4

LEMMA ListedLoad ==
  ASSUME NEW f, f = [at |-> f.at, heals |-> f.heals, seen |-> f.seen], NEW next, NEW seen
  PROVE  [[f EXCEPT !.at = next] EXCEPT !.seen = seen] = [at |-> next, heals |-> f.heals, seen |-> seen]
<1> DEFINE q == [[f EXCEPT !.at = next] EXCEPT !.seen = seen]
<1>1. /\ DOMAIN q = {"at", "heals", "seen"} /\ q = [x \in DOMAIN q |-> q[x]]
      /\ q.at = next /\ q.heals = f.heals /\ q.seen = seen
  BY Zenon
<1> HIDE DEF q
<1>2. q = [at |-> next, heals |-> f.heals, seen |-> seen]
  BY <1>1
<1> QED BY <1>2 DEF q

\* The statements of a render: what each adds is what the fleet is.
LEMMA ListingRenders ==
  ASSUME NEW c \in Clients, IInv, IInv', RInv, NEW at, NEW next, NEW seen, FleetLoading(c, at, next, seen),
         fleetPc[c] = "load" /\ (fleetLoad[c].heals \/ ~fleetMissed) /\ (\A d \in Clients : ~Waits(d))
             => \A w \in Workloads : Alike(seen[w], Seen(c, w))
  PROVE  RInv'
<1>0. Shape /\ Shape' /\ Flags /\ UpToDate(c)
  BY Zenon DEF IInv, RInv
<1> DEFINE r == [at |-> next, heals |-> fleetLoad[c].heals, seen |-> seen]
<1>1. /\ fleetLoad' = [fleetLoad EXCEPT ![c].at = next, ![c].seen = seen]
      /\ UNCHANGED <<row, fleetLock, fleetPc, call, fleetRendered, fleetMissed>>
  BY DEF FleetLoading, locks
<1>2. fleetLoad' = [fleetLoad EXCEPT ![c] = r] /\ fleetLoad'[c] = r
  <2>1. /\ fleetLoad[c] = [at |-> fleetLoad[c].at, heals |-> fleetLoad[c].heals, seen |-> fleetLoad[c].seen]
        /\ fleetLoad = [d \in Clients |-> fleetLoad[d]]
    BY <1>0 DEF Flags, Shape
  <2>2. fleetLoad' = [fleetLoad EXCEPT ![c] = [[fleetLoad[c] EXCEPT !.at = next] EXCEPT !.seen = seen]]
    BY <1>1, <2>1, Zenon
  <2>3. [[fleetLoad[c] EXCEPT !.at = next] EXCEPT !.seen = seen] = r
    BY <2>1, ListedLoad, Zenon
  <2> HIDE DEF r
  <2> QED BY <2>1, <2>2, <2>3, Zenon
<1>3. r = [at |-> r.at, heals |-> r.heals, seen |-> r.seen] /\ r.heals \in BOOLEAN
  BY <1>0, Zenon DEF Flags
<1>4. Flags' /\ \A d \in Clients \ {c} : fleetLoad'[d] = fleetLoad[d]
  <2> HIDE DEF r
  <2>1. fleetMissed' \in BOOLEAN
    BY <1>0, <1>1 DEF Flags
  <2> QED BY <1>0, <1>2, <1>3, <2>1, FlagForms, Zenon
<1>5. LetsBe(c)
  BY <1>1, <1>4, Zenon DEF LetsBe
<1>6. UpToDate(c)'
  <2>1. \A w \in Workloads : Seen(c, w)' = Seen(c, w)
    BY <1>1 DEF Seen
  <2>2. fleetLoad'[c].seen = seen /\ fleetLoad'[c].heals = fleetLoad[c].heals
    BY <1>2
  <2>3. \A d \in Clients : Waits(d)' <=> Waits(d)
    BY <1>1 DEF Waits
  <2> QED BY <1>0, <1>1, <2>1, <2>2, <2>3 DEF UpToDate
<1>7. /\ \A w \in Workloads : Alike(row'[w], row[w])
      /\ Owes(c) => Owes(c)'
      /\ Waits(c) => Waits(c)'
  BY <1>1 DEF Alike, Owes, Waits
<1> HIDE DEF r
<1> QED BY <1>0, <1>1, <1>4, <1>5, <1>6, <1>7, QuietRenders, Zenon

LEMMA ListsRender ==
  ASSUME NEW c \in Clients, IInv, IInv', RInv, ListRows(c) \/ ListLabels(c) \/ ListAddresses(c)
  PROVE  RInv'
<1>0. Shape /\ Sound(c) /\ UpToDate(c) /\ row \in [Workloads -> Rows]
  BY DEF IInv, RInv, Shape
<1>1. CASE ListRows(c)
  <2> DEFINE seen == [w \in Workloads |-> Seen(c, w)]
  <2>1. \A w \in Workloads : Alike(seen[w], Seen(c, w))
    BY DEF Alike
  <2>2. FleetLoading(c, "rows", "labels", seen)
    BY <1>1 DEF ListRows
  <2> HIDE DEF seen
  <2> QED BY <2>1, <2>2, ListingRenders
<1>2. ASSUME NEW at, NEW next, NEW seen, FleetLoading(c, at, next, seen), at # "rows",
             \A w \in Workloads : Alike(fleetLoad[c].seen[w], Seen(c, w)) => Alike(seen[w], Seen(c, w))
      PROVE  RInv'
  <2>1. fleetLock = c /\ fleetLoad[c].at # "rows"
    BY <1>0, <1>2 DEF Sound, Exclusive, FleetLoading
  <2>2. fleetPc[c] = "load" /\ (fleetLoad[c].heals \/ ~fleetMissed) /\ (\A d \in Clients : ~Waits(d))
          => \A w \in Workloads : Alike(seen[w], Seen(c, w))
    <3>1. fleetPc[c] = "load" /\ (fleetLoad[c].heals \/ ~fleetMissed) /\ (\A d \in Clients : ~Waits(d))
            => \A w \in Workloads : Alike(fleetLoad[c].seen[w], Seen(c, w))
      BY <1>0, <2>1, Zenon DEF UpToDate
    <3> QED BY <1>2, <3>1, Zenon
  <2> QED BY <1>2, <2>2, ListingRenders
<1>3. ASSUME ListLabels(c) \/ ListAddresses(c)
      PROVE  fleetLoad[c].seen \in [Workloads -> Rows]
  BY <1>0, <1>3, Zenon DEF Sound, Listed, Exclusive, ListLabels, ListAddresses, FleetLoading
<1>4. CASE ListLabels(c)
  <2> DEFINE seen == [w \in Workloads |->
        IF fleetLoad[c].seen[w].status = "absent" THEN fleetLoad[c].seen[w]
        ELSE [fleetLoad[c].seen[w] EXCEPT !.labels = row[w].labels]]
  <2>1. FleetLoading(c, "labels", "addresses", seen)
    BY <1>4 DEF ListLabels
  <2>2. ASSUME NEW w \in Workloads, Alike(fleetLoad[c].seen[w], Seen(c, w))  PROVE Alike(seen[w], Seen(c, w))
    <3>1. fleetLoad[c].seen[w] \in Rows /\ Seen(c, w).labels = row[w].labels
      BY <1>0, <1>3, <1>4, SeenFields
    <3> QED BY <2>2, <3>1 DEF Alike, Rows
  <2> HIDE DEF seen
  <2> QED BY <2>1, <2>2, <1>2
<1>5. CASE ListAddresses(c)
  <2> DEFINE seen == [w \in Workloads |->
        IF fleetLoad[c].seen[w].status = "absent" THEN fleetLoad[c].seen[w]
        ELSE [fleetLoad[c].seen[w] EXCEPT !.addr = row[w].addr]]
  <2>1. FleetLoading(c, "addresses", "done", seen)
    BY <1>5 DEF ListAddresses
  <2>2. ASSUME NEW w \in Workloads, Alike(fleetLoad[c].seen[w], Seen(c, w))  PROVE Alike(seen[w], Seen(c, w))
    <3>1. fleetLoad[c].seen[w] \in Rows /\ Seen(c, w).addr = row[w].addr
      BY <1>0, <1>3, <1>5, SeenFields
    <3> QED BY <2>2, <3>1 DEF Alike, Rows
  <2> HIDE DEF seen
  <2> QED BY <2>1, <2>2, <1>2
<1> QED BY <1>1, <1>4, <1>5

\* A persisted change whose render is to come.
LEMMA WritersRender ==
  ASSUME NEW c \in Clients, IInv, IInv', RInv, CreateWorkload(c) \/ afterEnroll(c) \/ ReplaceWorkloadLabels(c)
  PROVE  RInv'
<1>0. Shape /\ Flags /\ Carries(c)'
  BY DEF IInv, Sound, RInv
<1>1. (Goto(c, "facts") \/ Goto(c, "lock")) /\ UNCHANGED <<fleetLoad, fleetMissed>>
  BY DEF CreateWorkload, afterEnroll, ReplaceWorkloadLabels, renders
<1>2. fleetPc'[c] \in {"facts", "lock"}
  BY <1>0, <1>1 DEF Goto, Shape
<1>3. Waits(c)' /\ Owes(c)'
  BY <1>0, <1>2 DEF Waits, Owes, Carries
<1>4. Flags'
  BY <1>0, <1>1 DEF Flags
<1> QED BY <1>3, <1>4, WaitingRenders

\* A failed render takes the healing from every render under way.
LEMMA FailsRender ==
  ASSUME NEW c \in Clients, IInv, RInv, fleetMissed' = TRUE,
         fleetLoad' = Unhealed \/ fleetLoad' = [Unhealed EXCEPT ![c] = NoFleetLoad]
  PROVE  RInv'
<1>1. ASSUME NEW d \in Clients
      PROVE  Unhealed[d] = [at |-> fleetLoad[d].at, heals |-> FALSE, seen |-> fleetLoad[d].seen]
  <2> DEFINE f == fleetLoad[d]
             q == [f EXCEPT !.heals = FALSE]
  <2>1. f = [at |-> f.at, heals |-> f.heals, seen |-> f.seen]
    BY DEF RInv, Flags
  <2> HIDE DEF f
  <2>2. /\ DOMAIN q = {"at", "heals", "seen"} /\ q = [x \in DOMAIN q |-> q[x]]
        /\ q.at = f.at /\ q.heals = FALSE /\ q.seen = f.seen
    BY <2>1, Zenon
  <2>3. Unhealed[d] = q
    BY DEF Unhealed, f
  <2> HIDE DEF q
  <2> QED BY <2>2, <2>3 DEF f
<1>2. ASSUME NEW d \in Clients
      PROVE  /\ fleetLoad'[d] = [at |-> fleetLoad'[d].at, heals |-> fleetLoad'[d].heals, seen |-> fleetLoad'[d].seen]
             /\ fleetLoad'[d].heals = FALSE
  <2>1. fleetLoad'[d] = Unhealed[d] \/ fleetLoad'[d] = NoFleetLoad
    BY Zenon DEF Unhealed
  <2>2. CASE fleetLoad'[d] = Unhealed[d]
    <3> DEFINE q == [at |-> fleetLoad[d].at, heals |-> FALSE, seen |-> fleetLoad[d].seen]
    <3>1. fleetLoad'[d] = q
      BY <1>1, <2>2
    <3>2. q = [at |-> q.at, heals |-> q.heals, seen |-> q.seen] /\ q.heals = FALSE
      OBVIOUS
    <3> HIDE DEF q
    <3> QED BY <3>1, <3>2
  <2>3. CASE fleetLoad'[d] = NoFleetLoad
    BY <2>3 DEF NoFleetLoad
  <2> QED BY <2>1, <2>2, <2>3, Zenon
<1>3. Flags' /\ \A d \in Clients : fleetLoad'[d].heals = FALSE
  BY <1>2, Zenon DEF Flags
<1> QED BY <1>3, MissedRenders, Zenon

LEMMA RecordsRender ==
  ASSUME NEW c \in Clients, IInv, IInv', RInv, RecordFacts(c) \/ RecordRenewal(c)
  PROVE  RInv'
<1> DEFINE w == call[c].id
<1>0. Shape /\ Shape' /\ Sound(c) /\ Carries(c)' /\ Flags
  BY DEF IInv, Sound, RInv
<1>1. CASE RecordRenewal(c)
  <2>1. /\ Return(c) /\ UNCHANGED <<fleetMissed, fleetRendered>> /\ UNCHANGED fleetLoad
        /\ ~Owes(c) /\ ~Waits(c)
    BY <1>1 DEF RecordRenewal, renders, Owes, Waits
  <2>2. \A v \in Workloads : Alike(row'[v], row[v])
    BY <1>0, <1>1 DEF RecordRenewal, Alike, Shape, Rows
  <2> QED BY <1>0, <2>1, <2>2, ReturnsRender
<1>2. CASE RecordFacts(c)
  <2>1. PICK a \in 1..2 :
          LET changed == a # row[w].addr IN
          /\ row' = [row EXCEPT ![w].addr = a]
          /\ \/ changed /\ Goto(c, "lock") /\ UNCHANGED <<locks, call, fleetMissed, stream, fleetLoad>>
             \/ ~changed /\ Return(c) /\ UNCHANGED <<fleetMissed, stream, fleetLoad>>
             \/ /\ fleetMissed' = (fleetMissed \/ changed) /\ fleetLoad' = IF changed THEN Unhealed ELSE fleetLoad
                /\ stream' = [stream EXCEPT ![w] = "none"] /\ Return(c)
    BY <1>2, Zenon DEF RecordFacts
  <2>2. UNCHANGED fleetRendered /\ ~Owes(c) /\ ~Waits(c)
    BY <1>2 DEF RecordFacts, Owes, Waits
  <2>3. CASE a # row[w].addr /\ Goto(c, "lock") /\ UNCHANGED <<fleetMissed, fleetLoad>>
    <3>1. Waits(c)' /\ Owes(c)'
      BY <1>0, <2>3 DEF Goto, Shape, Waits, Owes, Carries
    <3>2. Flags'
      BY <1>0, <2>3 DEF Flags
    <3> QED BY <3>1, <3>2, WaitingRenders
  <2>4. CASE a # row[w].addr /\ fleetMissed' = TRUE /\ fleetLoad' = Unhealed
    BY <2>4, FailsRender, Zenon
  <2>5. CASE a = row[w].addr /\ Return(c) /\ UNCHANGED <<fleetMissed, fleetLoad>>
    <3>1. \A v \in Workloads : Alike(row'[v], row[v])
      BY <1>0, <2>1, <2>5 DEF Alike, Shape, Rows
    <3> QED BY <1>0, <2>2, <2>5, <3>1, ReturnsRender
  <2>6. fleetMissed \in BOOLEAN
    BY <1>0 DEF Flags
  <2> QED BY <2>1, <2>3, <2>4, <2>5, <2>6, Zenon
<1> QED BY <1>1, <1>2

\* What a commit renders is the fleet with what the commit writes.
LEMMA CommitsRender ==
  ASSUME NEW c \in Clients, IInv, IInv', RInv,
         CommitRender(c) \/ CommitModeChange(c) \/ CommitRetirement(c)
  PROVE  RInv'
<1>0. Shape /\ Shape' /\ Sound(c) /\ Flags /\ UpToDate(c)
  BY DEF IInv, RInv
<1>1. /\ fleetPc[c] = "load" /\ fleetLoad[c].at = "done"
      /\ fleetRendered' = Inputs(fleetLoad[c].seen) /\ fleetLoad' = [fleetLoad EXCEPT ![c] = NoFleetLoad]
      /\ (fleetMissed' = fleetMissed \/ fleetMissed' = (fleetMissed /\ ~fleetLoad[c].heals))
  BY DEF CommitRender, CommitModeChange, CommitRetirement
<1>2. fleetLock = c
  BY <1>0, <1>1 DEF Sound, Exclusive
<1>3. fleetLock' = None /\ \A d \in Clients \ {c} : fleetPc'[d] = fleetPc[d]
  BY <1>0, <1>2 DEF CommitRender, CommitModeChange, CommitRetirement, Return, Goto, Shape
<1>4. Flags'
  <2>1. NoFleetLoad = [at |-> NoFleetLoad.at, heals |-> NoFleetLoad.heals, seen |-> NoFleetLoad.seen]
        /\ NoFleetLoad.heals \in BOOLEAN
    BY FreshLoads
  <2>2. fleetMissed \in BOOLEAN
    BY <1>0 DEF Flags
  <2>3. fleetMissed' \in BOOLEAN
    BY <1>1, <2>2, Zenon
  <2> QED BY <1>0, <1>1, <2>1, <2>3, FlagForms, Zenon
<1>5. ASSUME NEW d \in Clients  PROVE UpToDate(d)'
  BY <1>3, NoneAssumption DEF UpToDate
<1>6. ASSUME NEW w \in Workloads  PROVE Alike(row'[w], Seen(c, w))
  <2>1. row[w] \in Rows
    BY <1>0 DEF Shape
  <2>2. CASE CommitRender(c)
    BY <1>0, <2>2, SeenFields DEF CommitRender, Alike
  <2>3. CASE CommitModeChange(c)
    <3>1. row'[w] = Seen(c, w)
      BY <2>3 DEF CommitModeChange, Seen
    <3> QED BY <3>1 DEF Alike
  <2>4. CASE CommitRetirement(c)
    <3>1. row'[w] = Seen(c, w)
      BY <1>0, <2>4 DEF CommitRetirement, Seen, Shape
    <3> QED BY <3>1 DEF Alike
  <2> QED BY <2>2, <2>3, <2>4
<1>7. FleetIsRendered'
  <2> SUFFICES ASSUME ~fleetMissed', \A d \in Clients : ~Owes(d)'  PROVE fleetRendered' = Inputs(row)'
    BY DEF FleetIsRendered, Owes
  <2>1. fleetLoad[c].heals \/ ~fleetMissed
    BY <1>0, <1>1 DEF Flags
  <2>2. \A d \in Clients : ~Waits(d)
    <3> SUFFICES ASSUME NEW d \in Clients, d # c, Waits(d)  PROVE FALSE
      BY <1>1 DEF Waits
    <3>1. fleetPc'[d] \in {"facts", "lock"} /\ Carries(d)'
      BY <1>3, Zenon DEF Waits, IInv, Sound
    <3> QED BY <3>1 DEF Owes, Carries
  <2>3. \A w \in Workloads : Alike(fleetLoad[c].seen[w], Seen(c, w))
    BY <1>0, <1>1, <1>2, <2>1, <2>2 DEF UpToDate
  <2>4. \A w \in Workloads : Alike(fleetLoad[c].seen[w], row'[w])
    BY <1>6, <2>3, Zenon DEF Alike
  <2>5. Inputs(fleetLoad[c].seen) = Inputs(row')
    BY <2>4, AlikeInputs
  <2> QED BY <1>1, <2>5, Zenon DEF Inputs
<1> QED BY <1>4, <1>5, <1>7 DEF RInv

LEMMA UntouchedRenders ==
  ASSUME RInv, UNCHANGED <<row, fleetLock, fleetPc, call, fleetLoad, fleetRendered, fleetMissed>>
  PROVE  RInv'
<1>1. Flags' /\ FleetIsRendered'
  BY DEF RInv, Flags, FleetIsRendered, Inputs
<1>2. ASSUME NEW c \in Clients  PROVE UpToDate(c)'
  BY DEF RInv, UpToDate, Waits, Seen, Alike
<1> QED BY <1>1, <1>2 DEF RInv

LEMMA StepRenders ==
  ASSUME NEW c \in Clients, IInv, IInv', RInv, CallStep(c)
  PROVE  RInv'
BY QuietStepsRender, GoingOnRenders, ListsRender, WritersRender, RecordsRender, CommitsRender DEF CallStep

LEMMA NextRenders == IInv /\ IInv' /\ RInv /\ [FleetNext]_fleetVars => RInv'
<1> SUFFICES ASSUME IInv, IInv', RInv, [FleetNext]_fleetVars  PROVE RInv'
  OBVIOUS
<1>1. ASSUME NEW c \in Clients, Starts(c) \/ CallStep(c) \/ TransactionFails(c)  PROVE RInv'
  BY <1>1, StartsRender, StepRenders, QuietStepsRender
<1>2. ASSUME NEW c \in Clients, FleetRenderFails(c)  PROVE RInv'
  BY <1>2, FailsRender, Zenon DEF FleetRenderFails
<1>3. ASSUME NEW w \in Workloads, StreamStep(w) \/ direct(w)  PROVE RInv'
  BY <1>3, UntouchedRenders DEF StreamStep, RecordAgent, Register, Heartbeat, direct, locks, renders
<1>4. CASE ListenerLost \/ reconcile
  BY <1>4, UntouchedRenders DEF ListenerLost, reconcile, locks, renders
<1>5. CASE UNCHANGED fleetVars
  BY <1>5, UntouchedRenders DEF fleetVars
<1> QED BY <1>1, <1>2, <1>3, <1>4, <1>5 DEF FleetNext

LEMMA InitRenders == FleetInit => RInv
<1> SUFFICES ASSUME FleetInit  PROVE RInv
  OBVIOUS
<1>1. \A c \in Clients : fleetPc[c] = "idle" /\ fleetLoad[c] = NoFleetLoad
  BY Zenon DEF FleetInit
<1>2. Flags
  BY <1>1, FreshLoads, Zenon DEF FleetInit, Flags
<1>3. FleetIsRendered /\ \A c \in Clients : UpToDate(c)
  BY <1>1 DEF FleetInit, FleetIsRendered, UpToDate
<1> QED BY <1>2, <1>3 DEF RInv

\* Once every call has returned, the policies are rendered from the fleet as persisted,
\* whatever label writes, inventory and enrollments landed between the statements of a
\* render, unless a render failed or was never made and none has begun since.
THEOREM FleetRendered == FleetSpec => []FleetIsRendered
<1>1. RInv => FleetIsRendered
  BY DEF RInv
<1> QED BY <1>1, Invariance, InitRenders, NextRenders, PTL DEF FleetSpec
=============================================================================
