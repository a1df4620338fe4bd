--------------------------- MODULE OperatorProofs ---------------------------
(***************************************************************************)
(* What is proved of the operators' doors, for any number of callers,      *)
(* sources, sessions and tokens: a login is refused only on a budget that  *)
(* was spent and the throttle's table stays within its bound               *)
(* (LoginThrottle), and a credential that no longer stands opens nothing   *)
(* (Operator).                                                             *)
(***************************************************************************)
EXTENDS LoginThrottle, Operator, FiniteSetTheorems, TLAPS

-----------------------------------------------------------------------------
(* The login throttle.                                                     *)

WindowRows == [key : Sources, start : Nat, count : Nat]

PassedRows == [key : Sources, at : Nat]

\* The attempts of a source let through since the instant s.
Since(p, key, s) == {i \in DOMAIN p : p[i].key = key /\ p[i].at >= s}

\* As many attempts were let through in a window as it counts, up to Limit.
Backed(w, p) ==
  /\ w.count <= Limit => Cardinality(Since(p, w.key, w.start)) >= w.count
  /\ w.count > Limit => Cardinality(Since(p, w.key, w.start)) >= Limit

Attempting ==
  /\ attempt = [c \in Attempters |-> attempt[c]]
  /\ \A c \in Attempters : attempt[c] # None =>
        attempt[c].key \in Sources /\ attempt[c].now \in Nat /\ attempt[c].now <= time

\* A window started no later than now, and what it counts was let through.
ThrottleInv ==
  /\ time \in Nat /\ passed \in Seq(PassedRows) /\ windows \in Seq(WindowRows)
  /\ Attempting
  /\ TableIsBounded
  /\ \A i \in 1..Len(windows) : windows[i].start <= time /\ Backed(windows[i], passed)

\* The attempts of a source are finitely many, and one more is one more.
LEMMA SinceFacts ==
  ASSUME NEW p \in Seq(PassedRows), NEW key, NEW s \in Nat
  PROVE  /\ IsFiniteSet(Since(p, key, s))
         /\ Cardinality(Since(p, key, s)) \in Nat
         /\ \A e \in PassedRows :
              /\ Cardinality(Since(Append(p, e), key, s)) \in Nat
              /\ Cardinality(Since(Append(p, e), key, s)) >= Cardinality(Since(p, key, s))
              /\ e.key = key /\ e.at >= s =>
                   Cardinality(Since(Append(p, e), key, s)) = Cardinality(Since(p, key, s)) + 1
<1> DEFINE S == Since(p, key, s)
<1>0. DOMAIN p = 1..Len(p) /\ Len(p) \in Nat
  OBVIOUS
<1>1. IsFiniteSet(S) /\ Cardinality(S) \in Nat /\ Len(p) + 1 \notin S
  <2>1. S \subseteq 1..Len(p)
    BY <1>0 DEF Since
  <2>2. IsFiniteSet(1..Len(p))
    BY <1>0, FS_Interval
  <2>3. IsFiniteSet(S)
    BY <2>1, <2>2, FS_Subset
  <2> QED BY <1>0, <2>1, <2>3, FS_CardinalityType
<1>2. ASSUME NEW e \in PassedRows, NEW q, q = Append(p, e)
      PROVE  Since(q, key, s) = IF e.key = key /\ e.at >= s THEN S \cup {Len(p) + 1} ELSE S
  <2>1. DOMAIN q = 1..(Len(p) + 1) /\ q[Len(p) + 1] = e /\ \A i \in 1..Len(p) : q[i] = p[i]
    BY <1>2
  <2>2. \A i : i \in DOMAIN q <=> i \in DOMAIN p \/ i = Len(p) + 1
    BY <1>0, <2>1
  <2>3. Len(p) + 1 \notin DOMAIN p
    BY <1>0
  <2> QED BY <1>0, <2>1, <2>2, <2>3 DEF Since
<1> HIDE DEF S
<1>3. Cardinality(S \cup {Len(p) + 1}) = Cardinality(S) + 1
  BY <1>1, FS_AddElement, Zenon
<1>4. ASSUME NEW e \in PassedRows
      PROVE  /\ Cardinality(Since(Append(p, e), key, s)) \in Nat
             /\ Cardinality(Since(Append(p, e), key, s)) >= Cardinality(S)
             /\ e.key = key /\ e.at >= s =>
                  Cardinality(Since(Append(p, e), key, s)) = Cardinality(S) + 1
  <2>1. Since(Append(p, e), key, s) = IF e.key = key /\ e.at >= s THEN S \cup {Len(p) + 1} ELSE S
    BY <1>2, Zenon
  <2>2. CASE e.key = key /\ e.at >= s
    BY <1>1, <1>3, <2>1, <2>2
  <2>3. CASE ~(e.key = key /\ e.at >= s)
    BY <1>1, <2>1, <2>3
  <2> QED BY <2>2, <2>3
<1> QED BY <1>1, <1>4 DEF S

\* What backs a window backs it when more is let through.
LEMMA BackedGrows ==
  ASSUME NEW p \in Seq(PassedRows), NEW e \in PassedRows, NEW w \in WindowRows, Backed(w, p),
         Limit \in Nat
  PROVE  Backed(w, Append(p, e))
<1>1. w.start \in Nat /\ w.count \in Nat
  BY DEF WindowRows
<1>2. /\ Cardinality(Since(p, w.key, w.start)) \in Nat
      /\ Cardinality(Since(Append(p, e), w.key, w.start)) \in Nat
      /\ Cardinality(Since(Append(p, e), w.key, w.start)) >= Cardinality(Since(p, w.key, w.start))
  BY <1>1, SinceFacts
<1> QED BY <1>1, <1>2 DEF Backed

\* No attempt was made at first.
LEMMA ThrottleStarts == ThrottleInit => ThrottleInv
<1> SUFFICES ASSUME ThrottleInit PROVE ThrottleInv
  OBVIOUS
<1>1. Len(windows) = 0 /\ windows \in Seq(WindowRows) /\ passed \in Seq(PassedRows)
  BY DEF ThrottleInit
<1> QED BY <1>1, ThrottleAssumption DEF ThrottleInit, ThrottleInv, Attempting, TableIsBounded

\* An attempt that is done leaves the others where they were.
LEMMA AttemptDone ==
  ASSUME Attempting, NEW c \in Attempters, attempt' = [attempt EXCEPT ![c] = None], time' = time
  PROVE  Attempting'
BY DEF Attempting

\* The front goes while the table is full, so one more window fits.
LEMMA MakeRoomFacts ==
  ASSUME windows \in Seq(WindowRows), Len(windows) <= MaxSources
  PROVE  /\ makeRoom \in Seq(WindowRows) /\ Len(makeRoom) < MaxSources
         /\ \E d \in Nat : /\ Len(makeRoom) + d = Len(windows)
                          /\ \A i \in 1..Len(makeRoom) : makeRoom[i] = windows[i + d]
<1>0. MaxSources \in Nat \ {0} /\ Len(windows) \in Nat
  BY ThrottleAssumption
<1>1. CASE Len(windows) >= MaxSources
  <2> DEFINE d == Len(windows) + 1 - MaxSources
  <2>1. d = 1 /\ makeRoom = SubSeq(windows, 2, Len(windows))
    BY <1>0, <1>1 DEF makeRoom, Drop
  <2>2. /\ SubSeq(windows, 2, Len(windows)) \in Seq(WindowRows)
        /\ Len(SubSeq(windows, 2, Len(windows))) = Len(windows) - 1
        /\ \A i \in 1..(Len(windows) - 1) : SubSeq(windows, 2, Len(windows))[i] = windows[i + 1]
    <3>1. Len(windows) # 0
      BY <1>0, <1>1
    <3>2. windows # << >>
      BY <3>1
    <3>3. Tail(windows) = SubSeq(windows, 2, Len(windows))
      BY <3>2
    <3>4. /\ Tail(windows) \in Seq(WindowRows) /\ Len(Tail(windows)) = Len(windows) - 1
          /\ \A i \in 1..(Len(windows) - 1) : Tail(windows)[i] = windows[i + 1]
      BY <1>0, <3>1, <3>2
    <3> QED BY <3>3, <3>4, Zenon
  <2>3. /\ makeRoom \in Seq(WindowRows) /\ Len(makeRoom) = Len(windows) - 1
        /\ \A i \in 1..Len(makeRoom) : makeRoom[i] = windows[i + 1]
    BY <2>1, <2>2
  <2>4. Len(makeRoom) < MaxSources /\ Len(makeRoom) + 1 = Len(windows)
    BY <1>0, <2>3
  <2> QED BY <2>3, <2>4
<1>2. CASE Len(windows) < MaxSources
  <2>1. makeRoom = windows
    BY <1>0, <1>2 DEF makeRoom
  <2>2. \A i \in 1..Len(windows) : windows[i] = windows[i + 0]
    OBVIOUS
  <2>3. Len(windows) + 0 = Len(windows)
    BY <1>0
  <2> QED BY <1>2, <2>1, <2>2, <2>3, Zenon
<1> QED BY <1>0, <1>1, <1>2

\* A table without one of its windows.
LEMMA WithoutFacts ==
  ASSUME windows \in Seq(WindowRows), NEW i \in 1..Len(windows)
  PROVE  /\ Without(windows, i) \in Seq(WindowRows)
         /\ Len(Without(windows, i)) = Len(windows) - 1
         /\ \A j \in 1..(Len(windows) - 1) :
              \E k \in 1..Len(windows) :
                 /\ k # i /\ k = (IF j < i THEN j ELSE j + 1)
                 /\ Without(windows, i)[j] = windows[k]
<1>0. Len(windows) \in Nat /\ Len(windows) - 1 \in Nat /\ i \in Nat
  OBVIOUS
<1>1. \A j \in 1..(Len(windows) - 1) : (IF j < i THEN j ELSE j + 1) \in 1..Len(windows) \ {i}
  BY <1>0
<1>2. \A j \in 1..(Len(windows) - 1) : Without(windows, i)[j] = windows[IF j < i THEN j ELSE j + 1]
  BY DEF Without
<1>3. \A j \in 1..(Len(windows) - 1) : Without(windows, i)[j] \in WindowRows
  BY <1>1, <1>2
<1>4. Without(windows, i) \in [1..(Len(windows) - 1) -> WindowRows]
  BY <1>3 DEF Without
<1>5. Without(windows, i) \in Seq(WindowRows) /\ Len(Without(windows, i)) = Len(windows) - 1
  BY <1>0, <1>4
<1> QED BY <1>1, <1>2, <1>5

\* A source's first window: the oldest go if the table is full.
LEMMA AllowNewStep ==
  ASSUME ThrottleInv, NEW c \in Attempters, AllowNew(c)
  PROVE  ThrottleInv' /\ refusal' = refusal
<1> DEFINE a == attempt[c]
<1> DEFINE w == Opened(a.key, a.now)
<1> DEFINE e == [key |-> a.key, at |-> time]
<1>0. /\ Limit \in Nat /\ Limit >= 1 /\ MaxSources \in Nat /\ time \in Nat
      /\ windows \in Seq(WindowRows) /\ passed \in Seq(PassedRows) /\ Len(windows) \in Nat
  BY ThrottleAssumption DEF ThrottleInv
<1>1. a # None /\ a.key \in Sources /\ a.now \in Nat /\ a.now <= time
  BY DEF AllowNew, ThrottleInv, Attempting
<1>2. w \in WindowRows /\ w.count = 1 /\ w.key = a.key /\ w.start = a.now
  BY <1>1 DEF Opened, WindowRows
<1>3. e \in PassedRows /\ e.key = a.key /\ e.at = time
  BY <1>0, <1>1 DEF PassedRows
<1>4. passed' = Append(passed, e) /\ refusal' = refusal
  BY <1>0, <1>2 DEF AllowNew, Decide
<1>5. windows' = Append(makeRoom, w) /\ time' = time
  BY DEF AllowNew
<1>6. \A i \in 1..Len(windows) : windows[i].key # a.key
  BY DEF AllowNew, Index
<1> HIDE DEF a, w, e
<1>7. PICK d \in Nat : /\ makeRoom \in Seq(WindowRows) /\ Len(makeRoom) < MaxSources
                       /\ Len(makeRoom) + d = Len(windows)
                       /\ \A i \in 1..Len(makeRoom) : makeRoom[i] = windows[i + d]
  <2>1. Len(windows) <= MaxSources
    BY DEF ThrottleInv, TableIsBounded
  <2> QED BY <1>0, <2>1, MakeRoomFacts
<1>8. \A i \in 1..Len(makeRoom) : i + d \in 1..Len(windows)
  <2>1. Len(makeRoom) \in Nat
    BY <1>7
  <2> QED BY <1>0, <1>7, <2>1
<1>9. /\ windows' \in Seq(WindowRows) /\ Len(windows') = Len(makeRoom) + 1 /\ Len(makeRoom) \in Nat
      /\ windows'[Len(makeRoom) + 1] = w
      /\ \A i \in 1..Len(makeRoom) : windows'[i] = windows[i + d]
  BY <1>2, <1>5, <1>7
<1>10. passed' \in Seq(PassedRows)
  BY <1>0, <1>3, <1>4
<1>11. \A i \in 1..Len(windows') : i \in 1..Len(makeRoom) \/ i = Len(makeRoom) + 1
  BY <1>9
<1>12. TableIsBounded'
  <2>1. Len(windows') <= MaxSources
    BY <1>0, <1>7, <1>9
  <2>2. ASSUME NEW i \in 1..Len(windows'), NEW j \in 1..Len(windows'), windows'[i].key = windows'[j].key
        PROVE  i = j
    <3>1. CASE i \in 1..Len(makeRoom) /\ j \in 1..Len(makeRoom)
      <4>1. i + d = j + d
        BY <1>8, <1>9, <2>2, <3>1 DEF ThrottleInv, TableIsBounded
      <4> QED BY <3>1, <4>1
    <3>2. CASE i \in 1..Len(makeRoom) /\ j = Len(makeRoom) + 1
      BY <1>2, <1>6, <1>8, <1>9, <2>2, <3>2
    <3>3. CASE j \in 1..Len(makeRoom) /\ i = Len(makeRoom) + 1
      BY <1>2, <1>6, <1>8, <1>9, <2>2, <3>3
    <3> QED BY <1>11, <3>1, <3>2, <3>3
  <2> QED BY <2>1, <2>2 DEF TableIsBounded
<1>13. ASSUME NEW i \in 1..Len(windows')
       PROVE  windows'[i].start <= time' /\ Backed(windows'[i], passed')
  <2>1. CASE i \in 1..Len(makeRoom)
    <3>1. /\ windows'[i] = windows[i + d] /\ windows[i + d] \in WindowRows
          /\ windows[i + d].start <= time /\ Backed(windows[i + d], passed)
      BY <1>0, <1>8, <1>9, <2>1 DEF ThrottleInv
    <3> QED BY <1>0, <1>3, <1>4, <1>5, <3>1, BackedGrows
  <2>2. CASE i = Len(makeRoom) + 1
    <3>1. Cardinality(Since(passed', w.key, w.start)) = Cardinality(Since(passed, w.key, w.start)) + 1
      BY <1>0, <1>1, <1>2, <1>3, <1>4, SinceFacts
    <3>2. Cardinality(Since(passed, w.key, w.start)) \in Nat
      BY <1>0, <1>1, <1>2, SinceFacts
    <3>3. Backed(w, passed')
      BY <1>0, <1>2, <3>1, <3>2 DEF Backed
    <3> QED BY <1>1, <1>2, <1>5, <1>9, <2>2, <3>3
  <2> QED BY <1>11, <2>1, <2>2
<1>14. Attempting'
  BY <1>5, AttemptDone, Zenon DEF AllowNew, ThrottleInv
<1> QED BY <1>0, <1>4, <1>5, <1>9, <1>10, <1>12, <1>13, <1>14 DEF ThrottleInv

\* The refusals the throttle makes: Limit attempts of the source were let
\* through since one window before the reading refused.
Spent(key, now) ==
  Cardinality({i \in DOMAIN passed : passed[i].key = key /\ passed[i].at > now - Window}) >= Limit

\* A known source whose window has elapsed starts over at the back.
LEMMA AllowElapsedStep ==
  ASSUME ThrottleInv, NEW c \in Attempters, NEW i \in 1..Len(windows), attempt[c] # None,
         windows[i].key = attempt[c].key, attempt[c].now - windows[i].start >= Window,
         windows' = Counted(i, attempt[c].now),
         \E j \in 1..Len(windows') : windows'[j].key = attempt[c].key
                                   /\ Decide(attempt[c].key, attempt[c].now, windows'[j]),
         attempt' = [attempt EXCEPT ![c] = None], UNCHANGED <<time, tried>>
  PROVE  ThrottleInv' /\ refusal' = refusal
<1> DEFINE a == attempt[c]
<1> DEFINE w == Opened(a.key, a.now)
<1> DEFINE e == [key |-> a.key, at |-> time]
<1> DEFINE rest == Without(windows, i)
<1>0. /\ Limit \in Nat /\ Limit >= 1 /\ MaxSources \in Nat /\ time \in Nat
      /\ windows \in Seq(WindowRows) /\ passed \in Seq(PassedRows) /\ Len(windows) \in Nat
      /\ Len(windows) <= MaxSources
  BY ThrottleAssumption DEF ThrottleInv, TableIsBounded
<1>1. a.key \in Sources /\ a.now \in Nat /\ a.now <= time
  BY DEF ThrottleInv, Attempting
<1>2. w \in WindowRows /\ w.count = 1 /\ w.key = a.key /\ w.start = a.now
  BY <1>1 DEF Opened, WindowRows
<1>3. e \in PassedRows /\ e.key = a.key /\ e.at = time
  BY <1>0, <1>1 DEF PassedRows
<1>4. windows' = Append(rest, w)
  BY DEF Counted
<1>5. /\ rest \in Seq(WindowRows) /\ Len(rest) = Len(windows) - 1
      /\ \A j \in 1..(Len(windows) - 1) :
            \E k \in 1..Len(windows) :
               k # i /\ k = (IF j < i THEN j ELSE j + 1) /\ rest[j] = windows[k]
  BY <1>0, WithoutFacts, Zenon
<1>6. \A k \in 1..Len(windows) : k # i => windows[k].key # a.key
  BY DEF ThrottleInv, TableIsBounded
<1>d. \E j \in 1..Len(windows') : windows'[j].key = a.key /\ Decide(a.key, a.now, windows'[j])
  OBVIOUS
<1>a. windows[i].key = a.key
  OBVIOUS
<1> HIDE DEF a, w, rest
<1>7. /\ windows' \in Seq(WindowRows) /\ Len(windows') = Len(windows) /\ windows'[Len(windows)] = w
      /\ \A j \in 1..(Len(windows) - 1) : windows'[j] = rest[j]
  BY <1>0, <1>2, <1>4, <1>5
<1>8. \A j \in 1..Len(windows') : j \in 1..(Len(windows) - 1) \/ j = Len(windows)
  BY <1>0, <1>7
<1>9. \A j \in 1..(Len(windows) - 1) : windows'[j].key # a.key
  BY <1>5, <1>6, <1>7
<1>10. passed' = Append(passed, e) /\ refusal' = refusal
  <2>1. PICK j \in 1..Len(windows') : windows'[j].key = a.key /\ Decide(a.key, a.now, windows'[j])
    BY <1>d
  <2>2. windows'[j] = w
    BY <1>7, <1>8, <1>9, <2>1
  <2> QED BY <1>0, <1>2, <2>1, <2>2 DEF Decide
<1> HIDE DEF e
<1>11. passed' \in Seq(PassedRows)
  BY <1>0, <1>3, <1>10
<1>12. TableIsBounded'
  <2>1. Len(windows') <= MaxSources
    BY <1>0, <1>7
  <2>2. ASSUME NEW j \in 1..Len(windows'), NEW l \in 1..Len(windows'), windows'[j].key = windows'[l].key
        PROVE  j = l
    <3>1. CASE j \in 1..(Len(windows) - 1) /\ l \in 1..(Len(windows) - 1)
      <4>1. PICK k \in 1..Len(windows) : k = (IF j < i THEN j ELSE j + 1) /\ windows'[j] = windows[k] /\ k # i
        BY <1>5, <1>7, <3>1
      <4>2. PICK m \in 1..Len(windows) : m = (IF l < i THEN l ELSE l + 1) /\ windows'[l] = windows[m] /\ m # i
        BY <1>5, <1>7, <3>1
      <4>3. k = m
        BY <2>2, <4>1, <4>2 DEF ThrottleInv, TableIsBounded
      <4> QED BY <3>1, <4>1, <4>2, <4>3
    <3>2. CASE j = Len(windows) /\ l \in 1..(Len(windows) - 1)
      BY <1>2, <1>7, <1>9, <2>2, <3>2
    <3>3. CASE l = Len(windows) /\ j \in 1..(Len(windows) - 1)
      BY <1>2, <1>7, <1>9, <2>2, <3>3
    <3> QED BY <1>8, <3>1, <3>2, <3>3
  <2> QED BY <2>1, <2>2 DEF TableIsBounded
<1>13. ASSUME NEW j \in 1..Len(windows')
       PROVE  windows'[j].start <= time' /\ Backed(windows'[j], passed')
  <2>1. CASE j \in 1..(Len(windows) - 1)
    <3>1. PICK k \in 1..Len(windows) : windows'[j] = windows[k]
      BY <1>5, <1>7, <2>1
    <3>2. windows[k] \in WindowRows /\ windows[k].start <= time /\ Backed(windows[k], passed)
      BY <1>0 DEF ThrottleInv
    <3> QED BY <1>0, <1>3, <1>10, <3>1, <3>2, BackedGrows
  <2>2. CASE j = Len(windows)
    <3>1. Cardinality(Since(passed', w.key, w.start)) = Cardinality(Since(passed, w.key, w.start)) + 1
      BY <1>0, <1>1, <1>2, <1>3, <1>10, SinceFacts
    <3>2. Cardinality(Since(passed, w.key, w.start)) \in Nat
      BY <1>0, <1>1, <1>2, SinceFacts
    <3>3. Backed(w, passed')
      BY <1>0, <1>2, <3>1, <3>2 DEF Backed
    <3> QED BY <1>1, <1>2, <1>7, <2>2, <3>3
  <2> QED BY <1>8, <2>1, <2>2
<1>14. Attempting'
  BY AttemptDone, Zenon DEF ThrottleInv
<1> QED BY <1>0, <1>7, <1>10, <1>11, <1>12, <1>13, <1>14 DEF ThrottleInv

\* A known source within its window: one more is counted, and let through or
\* refused by the count.
LEMMA AllowCountedStep ==
  ASSUME ThrottleInv, NEW c \in Attempters, NEW i \in 1..Len(windows), attempt[c] # None,
         windows[i].key = attempt[c].key, ~(attempt[c].now - windows[i].start >= Window),
         windows' = Counted(i, attempt[c].now),
         \E j \in 1..Len(windows') : windows'[j].key = attempt[c].key
                                   /\ Decide(attempt[c].key, attempt[c].now, windows'[j]),
         attempt' = [attempt EXCEPT ![c] = None], UNCHANGED <<time, tried>>
  PROVE  /\ ThrottleInv'
         /\ refusal' = refusal \/ Spent(refusal'.key, refusal'.now)
<1> DEFINE a == attempt[c]
<1> DEFINE w == [windows[i] EXCEPT !.count = @ + 1]
<1> DEFINE e == [key |-> a.key, at |-> time]
<1> DEFINE n == Cardinality(Since(passed, a.key, windows[i].start))
<1>0. /\ Limit \in Nat /\ Limit >= 1 /\ MaxSources \in Nat /\ time \in Nat /\ Window \in Nat
      /\ windows \in Seq(WindowRows) /\ passed \in Seq(PassedRows) /\ Len(windows) \in Nat
      /\ Len(windows) <= MaxSources
  BY ThrottleAssumption DEF ThrottleInv, TableIsBounded
<1>1. a.key \in Sources /\ a.now \in Nat /\ a.now <= time
  BY DEF ThrottleInv, Attempting
<1>2. /\ windows[i] \in WindowRows /\ windows[i].count \in Nat /\ windows[i].start \in Nat
      /\ windows[i].start <= time /\ Backed(windows[i], passed) /\ windows[i].key = a.key
  <2>1. windows[i] \in WindowRows
    BY <1>0
  <2> QED BY <2>1 DEF WindowRows, ThrottleInv
<1>3. w \in WindowRows /\ w.count = windows[i].count + 1 /\ w.key = a.key /\ w.start = windows[i].start
  BY <1>2 DEF WindowRows
<1>4. e \in PassedRows /\ e.key = a.key /\ e.at = time
  BY <1>0, <1>1 DEF PassedRows
<1>5. windows' = [windows EXCEPT ![i] = w]
  BY DEF Counted
<1>6. n \in Nat
  BY <1>0, <1>2, SinceFacts
<1>7. /\ windows[i].count <= Limit => n >= windows[i].count
      /\ windows[i].count > Limit => n >= Limit
  BY <1>2 DEF Backed
<1>d. \E j \in 1..Len(windows') : windows'[j].key = a.key /\ Decide(a.key, a.now, windows'[j])
  OBVIOUS
<1>e. a.now - windows[i].start < Window
  BY <1>0, <1>1, <1>2
<1> HIDE DEF a, w, n
<1>8. /\ windows' \in Seq(WindowRows) /\ Len(windows') = Len(windows) /\ windows'[i] = w
      /\ \A j \in 1..Len(windows) : j # i => windows'[j] = windows[j]
  BY <1>0, <1>3, <1>5
<1>9. \A j \in 1..Len(windows) : windows'[j].key = windows[j].key
  BY <1>2, <1>3, <1>8
<1>10. TableIsBounded'
  BY <1>0, <1>8, <1>9 DEF ThrottleInv, TableIsBounded
<1>11. Decide(a.key, a.now, w)
  <2>1. PICK j \in 1..Len(windows') : windows'[j].key = a.key /\ Decide(a.key, a.now, windows'[j])
    BY <1>d
  <2>2. j = i
    BY <1>2, <1>8, <1>9, <2>1 DEF ThrottleInv, TableIsBounded
  <2> QED BY <1>8, <2>1, <2>2
<1>12. Attempting'
  BY AttemptDone, Zenon DEF ThrottleInv
<1>13. CASE w.count > Limit
  <2>1. passed' = passed /\ refusal'.key = a.key /\ refusal'.now = a.now
    BY <1>11, <1>13 DEF Decide
  <2>2. n >= Limit
    BY <1>0, <1>2, <1>3, <1>6, <1>7, <1>13
  <2>3. Backed(w, passed)
    BY <1>3, <1>13, <2>2, <1>0, <1>2 DEF Backed, n
  <2>4. ASSUME NEW j \in 1..Len(windows')
        PROVE  windows'[j].start <= time' /\ Backed(windows'[j], passed')
    BY <1>2, <1>3, <1>8, <2>1, <2>3, <2>4, Zenon DEF ThrottleInv
  <2>5. Spent(a.key, a.now)
    <3> DEFINE U == {k \in DOMAIN passed : passed[k].key = a.key /\ passed[k].at > a.now - Window}
    <3>1. DOMAIN passed = 1..Len(passed) /\ Len(passed) \in Nat
      BY <1>0
    <3>2. \A k \in DOMAIN passed : passed[k].at \in Nat
      <4>1. \A k \in DOMAIN passed : passed[k] \in PassedRows
        BY <1>0
      <4> QED BY <4>1 DEF PassedRows
    <3>3. \A t \in Nat : t >= windows[i].start => t > a.now - Window
      BY <1>0, <1>1, <1>2, <1>e
    <3>4. Since(passed, a.key, windows[i].start) \subseteq U
      BY <3>2, <3>3 DEF Since
    <3>5. IsFiniteSet(U)
      <4>1. IsFiniteSet(1..Len(passed))
        BY <3>1, FS_Interval
      <4> QED BY <3>1, <4>1, FS_Subset
    <3>6. Cardinality(U) \in Nat /\ n <= Cardinality(U)
      BY <3>4, <3>5, FS_Subset, FS_CardinalityType DEF n
    <3>7. Cardinality(U) >= Limit
      BY <1>0, <1>6, <2>2, <3>6
    <3> QED BY <3>7 DEF Spent
  <2> QED BY <1>0, <1>8, <1>10, <1>12, <2>1, <2>4, <2>5 DEF ThrottleInv
<1>14. CASE ~(w.count > Limit)
  <2>1. passed' = Append(passed, e) /\ refusal' = refusal
    BY <1>11, <1>14 DEF Decide
  <2> HIDE DEF e
  <2>2. Cardinality(Since(passed', a.key, windows[i].start)) = n + 1
    BY <1>0, <1>2, <1>4, <2>1, SinceFacts DEF n
  <2>3. Backed(w, passed')
    BY <1>0, <1>2, <1>3, <1>6, <1>7, <1>14, <2>2 DEF Backed
  <2>4. ASSUME NEW j \in 1..Len(windows')
        PROVE  windows'[j].start <= time' /\ Backed(windows'[j], passed')
    <3>1. CASE j = i
      BY <1>2, <1>3, <1>8, <2>3, <3>1
    <3>2. CASE j # i
      <4>1. windows[j] \in WindowRows /\ windows[j].start <= time /\ Backed(windows[j], passed)
        BY <1>0, <1>8 DEF ThrottleInv
      <4> QED BY <1>0, <1>4, <1>8, <2>1, <3>2, <4>1, BackedGrows
    <3> QED BY <3>1, <3>2
  <2>5. passed' \in Seq(PassedRows)
    BY <1>0, <1>4, <2>1
  <2> QED BY <1>0, <1>8, <1>10, <1>12, <2>1, <2>4, <2>5 DEF ThrottleInv
<1> QED BY <1>13, <1>14

\* Every step keeps the table, and refuses only what is spent.
LEMMA ThrottleStep ==
  ThrottleInv /\ [ThrottleNext]_throttleVars
    => ThrottleInv' /\ (refusal' = refusal \/ Spent(refusal'.key, refusal'.now))
<1> SUFFICES ASSUME ThrottleInv, [ThrottleNext]_throttleVars
             PROVE  ThrottleInv' /\ (refusal' = refusal \/ Spent(refusal'.key, refusal'.now))
  OBVIOUS
<1>1. ASSUME NEW c \in Attempters, Reads(c) PROVE ThrottleInv' /\ refusal' = refusal
  <2>1. PICK key \in Sources : attempt' = [attempt EXCEPT ![c] = [key |-> key, now |-> time, wait |-> 0]]
    BY <1>1, Zenon DEF Reads
  <2>2. UNCHANGED <<time, windows, passed, refusal>>
    BY <1>1 DEF Reads
  <2>3. Attempting'
    BY <2>1, <2>2 DEF ThrottleInv, Attempting
  <2> QED BY <2>2, <2>3 DEF ThrottleInv, TableIsBounded
<1>2. ASSUME NEW c \in Attempters, AllowNew(c) PROVE ThrottleInv' /\ refusal' = refusal
  BY <1>2, AllowNewStep
<1>3. ASSUME NEW c \in Attempters, AllowKnown(c)
      PROVE  ThrottleInv' /\ (refusal' = refusal \/ Spent(refusal'.key, refusal'.now))
  <2>1. PICK i \in Index(attempt[c].key) :
          /\ windows' = Counted(i, attempt[c].now)
          /\ \E j \in 1..Len(windows') : windows'[j].key = attempt[c].key
                                       /\ Decide(attempt[c].key, attempt[c].now, windows'[j])
    BY <1>3 DEF AllowKnown
  <2>2. i \in 1..Len(windows) /\ windows[i].key = attempt[c].key
    BY DEF Index
  <2>3. attempt[c] # None /\ attempt' = [attempt EXCEPT ![c] = None] /\ UNCHANGED <<time, tried>>
    BY <1>3 DEF AllowKnown
  <2>4. CASE attempt[c].now - windows[i].start >= Window
    BY <2>1, <2>2, <2>3, <2>4, AllowElapsedStep, Zenon
  <2>5. CASE ~(attempt[c].now - windows[i].start >= Window)
    BY <2>1, <2>2, <2>3, <2>5, AllowCountedStep, Zenon
  <2> QED BY <2>4, <2>5
<1>4. CASE Ticks
  <2>1. /\ time \in Nat /\ time' = time + 1 /\ UNCHANGED <<windows, attempt, passed, refusal>>
        /\ \A i \in 1..Len(windows) : windows[i].start \in Nat
    <3>1. \A i \in 1..Len(windows) : windows[i] \in WindowRows
      BY DEF ThrottleInv
    <3> QED BY <1>4, <3>1 DEF Ticks, ThrottleInv, WindowRows
  <2>2. Attempting'
    BY <2>1 DEF ThrottleInv, Attempting
  <2>3. \A i \in 1..Len(windows) : windows[i].start <= time'
    BY <2>1 DEF ThrottleInv
  <2> QED BY <2>1, <2>2, <2>3 DEF ThrottleInv, TableIsBounded
<1>5. CASE UNCHANGED throttleVars
  BY <1>5 DEF throttleVars, ThrottleInv, Attempting, TableIsBounded
<1> QED BY <1>1, <1>2, <1>3, <1>4, <1>5 DEF ThrottleNext

\* The throttle's table never holds more than its bound of sources, each once,
\* so a source has one budget (throttle.go's list and map agree).
THEOREM TableBounded == ThrottleSpec => []TableIsBounded
<1>1. ThrottleInv => TableIsBounded
  BY DEF ThrottleInv
<1> QED BY <1>1, ThrottleStarts, ThrottleStep, PTL DEF ThrottleSpec

\* A login is refused only when its source has spent its budget, however many
\* attempts overlap and however stale the clock reading an attempt acts on.
THEOREM RefusalsAreEarned == ThrottleSpec => RefusedSpentItsBudget
<1>1. ThrottleInv /\ [ThrottleNext]_throttleVars
        => [refusal' # refusal =>
              Cardinality({i \in DOMAIN passed : passed[i].key = refusal'.key
                                                /\ passed[i].at > refusal'.now - Window})
                >= Limit]_throttleVars
  BY ThrottleStep DEF Spent
<1> QED BY <1>1, ThrottleStarts, ThrottleStep, PTL DEF ThrottleSpec, RefusedSpentItsBudget

-----------------------------------------------------------------------------
(* The operators' credentials.                                             *)

IssuedSecrets == [form : {"session", "token"}, until : Nat]

TokenRow(row) ==
  /\ {"created", "expires", "revoked", "used"} \subseteq DOMAIN row
  /\ row.expires \in Nat /\ row.revoked \in Nat

SessionRow(row) == row.expires \in Nat

\* A row that no later instant revives.
TokenRowDead(row, now) ==
  /\ TokenRow(row)
  /\ (row.revoked # 0 /\ row.revoked <= now) \/ (row.expires # 0 /\ row.expires <= now)

SessionRowDead(row, now) == SessionRow(row) /\ row.expires <= now

\* A token row stops working when what was issued does, and so does a session row.
TokenTells(row, secret, now) ==
  /\ secret.form = "token" /\ TokenRow(row) /\ row.revoked <= now
  /\ row.revoked # 0 \/ secret.until = IF row.expires = 0 THEN MaxInstant + 1 ELSE row.expires

SessionTells(row, secret) ==
  secret.form = "session" /\ SessionRow(row) /\ secret.until = row.expires

Issued ==
  /\ instant \in Nat \ {0} /\ instant <= MaxInstant
  /\ issued \in Seq(IssuedSecrets)
  /\ tokens = [x \in DOMAIN tokens |-> tokens[x]]
  /\ \A x \in DOMAIN tokens : x \in 1..Len(issued) /\ TokenTells(tokens[x], issued[x], instant)
  /\ \A x \in DOMAIN sessions : x \in 1..Len(issued) /\ SessionTells(sessions[x], issued[x])

\* No secret x of that form works any more, in a control plane that issued iss.
Gone(form, x, iss, now) == x \in 1..Len(iss) => iss[x].form # form \/ iss[x].until <= now

GoneFor(r, iss, now) ==
  IF r.bearer # -1 THEN Gone("token", r.bearer, iss, now) ELSE Gone("session", r.cookie, iss, now)

\* A request presents secrets that were issued, or none.
Presents(r, iss) ==
  /\ r.bearer \in Int /\ r.cookie \in Int
  /\ r.bearer <= Len(iss) /\ r.cookie <= Len(iss)

\* A request that was found a session.
OnSession(k) ==
  /\ k.at = "check" \/ (k.at \in {"principal", "handler"} /\ ~publicRoute(k.req))
  /\ k.req.bearer = -1

\* Where a request is tells what it presented: a token is looked up for a
\* bearer, a session for a cookie, and a session found was issued as one.
AtCall(k, iss) ==
  k.at # "idle" =>
    /\ Presents(k.req, iss)
    /\ k.at \in {"throttle", "password"} => publicRoute(k.req)
    /\ k.at = "handler" => ~publicRoute(k.req)
    /\ k.at \in {"token", "use"} => k.req.bearer # -1
    /\ k.at \in {"session", "check"} => k.req.bearer = -1
    /\ OnSession(k) => k.req.cookie \in 1..Len(iss) /\ iss[k.req.cookie].form = "session"

\* A barred request presents a dead credential and holds, if any, a dead row.
Barred(k, iss, now) ==
  k.barred =>
    /\ k.at \in {"idle", "authenticate", "token", "use", "session", "check"}
    /\ k.at # "idle" => GoneFor(k.req, iss, now)
    /\ k.at = "use" => TokenRowDead(k.row, now)
    /\ k.at = "check" => SessionRowDead(k.row, now)

Call(k, iss, now) ==
  {"at", "req", "row", "barred"} \subseteq DOMAIN k /\ AtCall(k, iss) /\ Barred(k, iss, now)

OperatorInv ==
  /\ Issued
  /\ caller = [c \in Callers |-> caller[c]]
  /\ \A c \in Callers : Call(caller[c], issued, instant)

\* What is dead stays dead while secrets are drawn and time passes.
Ages(iss, jss, now, then) ==
  /\ iss \in Seq(IssuedSecrets) /\ jss \in Seq(IssuedSecrets) /\ now \in Nat /\ then \in Nat
  /\ now <= then /\ Len(iss) <= Len(jss)
  /\ \A x \in 1..Len(iss) :
        /\ jss[x].form = iss[x].form
        /\ iss[x].until <= now => jss[x].until <= then

\* A request's standing survives whatever the others do.
LEMMA CallAges ==
  ASSUME NEW k, NEW iss, NEW jss, NEW now, NEW then, Ages(iss, jss, now, then), Call(k, iss, now)
  PROVE  Call(k, jss, then)
<1>0. Len(iss) \in Nat /\ Len(jss) \in Nat /\ Len(iss) <= Len(jss)
  BY DEF Ages
<1>1. \A r : Presents(r, iss) => Presents(r, jss)
  BY <1>0 DEF Presents
<1>2. ASSUME NEW form, NEW x \in Int, x <= Len(iss), Gone(form, x, iss, now)
      PROVE  Gone(form, x, jss, then)
  <2>1. x \in 1..Len(jss) => x \in 1..Len(iss)
    BY <1>0, <1>2
  <2> QED BY <1>2, <2>1 DEF Gone, Ages
<1>3. \A r : Presents(r, iss) /\ GoneFor(r, iss, now) => GoneFor(r, jss, then)
  BY <1>2 DEF Presents, GoneFor
<1>4. \A row : TokenRowDead(row, now) => TokenRowDead(row, then)
  BY DEF TokenRowDead, TokenRow, Ages
<1>5. \A row : SessionRowDead(row, now) => SessionRowDead(row, then)
  BY DEF SessionRowDead, SessionRow, Ages
<1>6. \A x \in 1..Len(iss) : x \in 1..Len(jss) /\ jss[x].form = iss[x].form
  BY <1>0 DEF Ages
<1>7. AtCall(k, jss)
  BY <1>1, <1>6 DEF AtCall, Call
<1>8. Barred(k, jss, then)
  BY <1>3, <1>4, <1>5 DEF AtCall, Barred, Call
<1> QED BY <1>7, <1>8 DEF Call

\* One request moves to k; the others only grow older.
LEMMA CallMoves ==
  ASSUME OperatorInv, NEW c \in Callers, NEW k, caller' = [caller EXCEPT ![c] = k], Issued',
         Ages(issued, issued', instant, instant'), Call(k, issued', instant')
  PROVE  OperatorInv'
<1>1. caller' = [d \in Callers |-> caller'[d]]
  BY DEF OperatorInv
<1>2. ASSUME NEW d \in Callers PROVE Call(caller'[d], issued', instant')
  <2>1. CASE d = c
    BY <2>1 DEF OperatorInv
  <2>2. CASE d # c
    <3>1. caller'[d] = caller[d] /\ Call(caller[d], issued, instant)
      BY <2>2 DEF OperatorInv
    <3>2. Call(caller[d], issued', instant')
      BY <3>1, CallAges
    <3> QED BY <3>1, <3>2
  <2> QED BY <2>1, <2>2
<1> QED BY <1>1, <1>2 DEF OperatorInv

\* Steps of the clock and the sweep, which no request takes.
LEMMA CallsAge ==
  ASSUME OperatorInv, caller' = caller, Issued', Ages(issued, issued', instant, instant')
  PROVE  OperatorInv'
<1>1. ASSUME NEW d \in Callers PROVE Call(caller'[d], issued', instant')
  <2>1. Call(caller[d], issued, instant)
    BY DEF OperatorInv
  <2>2. Call(caller[d], issued', instant')
    BY <2>1, CallAges
  <2> QED BY <2>2
<1> QED BY <1>1 DEF OperatorInv

\* Nothing ages when nothing is drawn and no time passes.
LEMMA AgesSame == ASSUME Issued, UNCHANGED <<issued, instant>> PROVE Ages(issued, issued', instant, instant')
<1>1. issued \in Seq(IssuedSecrets) /\ instant \in Nat /\ Len(issued) \in Nat
  BY DEF Issued
<1> QED BY <1>1 DEF Ages

\* A request that has been answered.
Resting(k) == {"at", "req", "row", "barred"} \subseteq DOMAIN k /\ k.at = "idle" /\ ~k.barred

\* An answer and a refusal end the request.
LEMMA Answered ==
  ASSUME NEW c \in Callers, NEW x, Answers(c, x) \/ Refuses(c, x)
  PROVE  \E k : caller' = [caller EXCEPT ![c] = k] /\ Resting(k)
<1>1. CASE Answers(c, x)
  <2>1. Resting([Idle EXCEPT !.answer = x])
    BY DEF Resting, Idle
  <2> QED BY <1>1, <2>1, Zenon DEF Answers
<1>2. CASE Refuses(c, x)
  <2>1. \A b : Resting([Idle EXCEPT !.answer = "unauthenticated", !.err = x, !.cleared = b])
    BY DEF Resting, Idle
  <2> QED BY <1>2, <2>1, Zenon DEF Refuses
<1> QED BY <1>1, <1>2

\* A request that goes on keeps what it has.
LEMMA Moved ==
  ASSUME OperatorInv, NEW c \in Callers, NEW place, Goes(c, place)
  PROVE  \E k : /\ caller' = [caller EXCEPT ![c] = k]
                /\ {"at", "req", "row", "barred"} \subseteq DOMAIN k
                /\ k.at = place /\ k.req = caller[c].req /\ k.row = caller[c].row
                /\ k.barred = caller[c].barred
<1> DEFINE k == [caller[c] EXCEPT !.at = place]
<1>1. {"at", "req", "row", "barred"} \subseteq DOMAIN caller[c]
  BY DEF OperatorInv, Call
<1>2. /\ {"at", "req", "row", "barred"} \subseteq DOMAIN k
      /\ k.at = place /\ k.req = caller[c].req /\ k.row = caller[c].row
      /\ k.barred = caller[c].barred
  BY <1>1
<1>3. caller' = [caller EXCEPT ![c] = k]
  BY DEF Goes
<1> QED BY <1>2, <1>3, Zenon

\* A request that is done stands.
LEMMA RestingCall == ASSUME NEW k, NEW iss, NEW now, Resting(k) PROVE Call(k, iss, now)
BY DEF Resting, Call, AtCall, Barred

\* A request is answered in a step that keeps the rows in order.
LEMMA AnswerKeeps ==
  ASSUME OperatorInv, NEW c \in Callers, NEW x, Answers(c, x) \/ Refuses(c, x), Issued',
         Ages(issued, issued', instant, instant')
  PROVE  OperatorInv'
<1>1. PICK k : caller' = [caller EXCEPT ![c] = k] /\ Resting(k)
  BY Answered
<1> QED BY <1>1, RestingCall, CallMoves, Zenon

\* Token uses that are recorded leave every row as alive as it was.
LEMMA TokenUse ==
  ASSUME Issued, NEW id, tokens' = recordOperatorTokenUse(id, instant),
         UNCHANGED <<issued, instant, sessions>>
  PROVE  Issued'
<1>1. CASE id \notin DOMAIN tokens
  BY <1>1 DEF recordOperatorTokenUse, Issued
<1>2. CASE id \in DOMAIN tokens
  <2>1. tokens' = [tokens EXCEPT ![id].used = instant]
    BY <1>2 DEF recordOperatorTokenUse
  <2>2. DOMAIN tokens' = DOMAIN tokens /\ tokens' = [x \in DOMAIN tokens' |-> tokens'[x]]
    BY <2>1, Zenon DEF Issued
  <2>3. ASSUME NEW x \in DOMAIN tokens
        PROVE  TokenTells(tokens'[x], issued[x], instant)
    <3>1. TokenTells(tokens[x], issued[x], instant)
      BY DEF Issued
    <3>2. CASE x # id
      BY <2>1, <3>1, <3>2 DEF Issued
    <3>3. CASE x = id
      <4>1. tokens'[x] = [tokens[x] EXCEPT !.used = instant]
        BY <1>2, <2>1, <3>3 DEF Issued
      <4>2. /\ DOMAIN tokens'[x] = DOMAIN tokens[x] /\ tokens'[x].expires = tokens[x].expires
            /\ tokens'[x].revoked = tokens[x].revoked
        BY <3>1, <4>1 DEF TokenTells, TokenRow
      <4> QED BY <3>1, <4>2 DEF TokenTells, TokenRow
    <3> QED BY <3>2, <3>3
  <2> QED BY <2>2, <2>3 DEF Issued
<1> QED BY <1>1, <1>2

\* A secret is drawn: those issued before stand as they did.
LEMMA Drawn ==
  ASSUME Issued, NEW form \in {"session", "token"}, NEW until \in Nat, Draw(form, until), instant' = instant
  PROVE  /\ Ages(issued, issued', instant, instant') /\ issued' \in Seq(IssuedSecrets)
         /\ Len(issued') = Len(issued) + 1 /\ Len(issued) \in Nat
         /\ issued'[Len(issued')].form = form /\ issued'[Len(issued')].until = until
         /\ \A x \in 1..Len(issued) : x \in 1..Len(issued') /\ issued'[x] = issued[x]
<1> DEFINE s == [form |-> form, until |-> until]
<1>1. s \in IssuedSecrets /\ s.form = form /\ s.until = until
  BY DEF IssuedSecrets
<1>2. issued' = Append(issued, s) /\ issued \in Seq(IssuedSecrets) /\ instant \in Nat
  BY DEF Draw, Issued
<1> HIDE DEF s
<1>3. /\ issued' \in Seq(IssuedSecrets) /\ Len(issued') = Len(issued) + 1 /\ Len(issued) \in Nat
      /\ issued'[Len(issued) + 1] = s
      /\ \A x \in 1..Len(issued) : issued'[x] = issued[x]
  BY <1>1, <1>2
<1>4. \A x \in 1..Len(issued) : x \in 1..Len(issued')
  BY <1>3
<1>5. Ages(issued, issued', instant, instant')
  BY <1>2, <1>3 DEF Ages
<1> QED BY <1>1, <1>3, <1>4, <1>5

\* Steps that write no row and draw nothing.
LEMMA RowsSame ==
  ASSUME Issued, UNCHANGED <<issued, instant, tokens, sessions>>
  PROVE  Issued' /\ Ages(issued, issued', instant, instant')
BY AgesSame DEF Issued

\* A request arrives and is barred if what it presents is dead.
LEMMA MiddlewareStep ==
  ASSUME OperatorInv, NEW c \in Callers, Middleware(c) PROVE OperatorInv'
<1>1. Issued' /\ Ages(issued, issued', instant, instant') /\ UNCHANGED <<issued, instant>>
  BY RowsSame DEF Middleware, OperatorInv
<1>2. PICK r \in Requests :
        /\ r.bearer <= Len(issued) /\ r.cookie <= Len(issued)
        /\ \/ Answers(c, "cross-origin")
           \/ caller' = [caller EXCEPT ![c] =
                [Idle EXCEPT !.at = IF publicRoute(r) THEN "throttle" ELSE "authenticate",
                             !.req = r, !.barred = ~publicRoute(r) /\ Dead(r)]]
  BY Zenon DEF Middleware
<1>3. CASE Answers(c, "cross-origin")
  BY <1>1, <1>3, AnswerKeeps
<1>4. ASSUME NEW b, b <=> (~publicRoute(r) /\ Dead(r)), NEW k,
             k = [Idle EXCEPT !.at = IF publicRoute(r) THEN "throttle" ELSE "authenticate",
                              !.req = r, !.barred = b]
      PROVE  Call(k, issued, instant)
  <2>1. /\ {"at", "req", "row", "barred"} \subseteq DOMAIN k /\ k.req = r /\ k.barred = b
        /\ k.at = IF publicRoute(r) THEN "throttle" ELSE "authenticate"
    BY <1>4 DEF Idle
  <2>2. Presents(r, issued)
    BY <1>2, OperatorAssumption DEF Presents
  <2>3. AtCall(k, issued)
    BY <2>1, <2>2 DEF AtCall, OnSession
  <2>4. Dead(r) => GoneFor(r, issued, instant)
    <3>1. issued \in Seq(IssuedSecrets) /\ instant \in Nat /\ DOMAIN issued = 1..Len(issued)
      BY DEF OperatorInv, Issued
    <3>2. \A x \in 1..Len(issued) : issued[x].until \in Nat
      <4>1. \A x \in 1..Len(issued) : issued[x] \in IssuedSecrets
        BY <3>1
      <4> QED BY <4>1 DEF IssuedSecrets
    <3>3. \A form, x : ~Stands(form, x) => Gone(form, x, issued, instant)
      BY <3>1, <3>2 DEF Stands, Gone
    <3> QED BY <3>3 DEF Dead, GoneFor
  <2>5. b => k.at = "authenticate" /\ GoneFor(r, issued, instant)
    BY <1>4, <2>1, <2>4
  <2>6. Barred(k, issued, instant)
    BY <2>1, <2>5 DEF Barred
  <2> QED BY <2>1, <2>3, <2>6 DEF Call
<1>5. CASE caller' = [caller EXCEPT ![c] =
                [Idle EXCEPT !.at = IF publicRoute(r) THEN "throttle" ELSE "authenticate",
                             !.req = r, !.barred = ~publicRoute(r) /\ Dead(r)]]
  <2>1. \E k : caller' = [caller EXCEPT ![c] = k] /\ Call(k, issued, instant)
    BY <1>4, <1>5, Zenon
  <2>2. PICK k : caller' = [caller EXCEPT ![c] = k] /\ Call(k, issued, instant)
    BY <2>1, Zenon
  <2>3. Call(k, issued', instant')
    BY <1>1, <2>2
  <2> QED BY <1>1, <2>2, <2>3, CallMoves, Zenon
<1> QED BY <1>2, <1>3, <1>5

\* The login: no request on it is barred.
LEMMA LoginStep ==
  ASSUME OperatorInv, NEW c \in Callers, Throttled(c) \/ VerifyPassword(c) PROVE OperatorInv'
<1>1. Issued' /\ Ages(issued, issued', instant, instant') /\ UNCHANGED <<issued, instant>>
  BY RowsSame DEF Throttled, VerifyPassword, OperatorInv
<1>2. \/ \E x : Answers(c, x)
      \/ caller[c].at = "throttle" /\ Goes(c, "password")
      \/ caller[c].at = "password" /\ Goes(c, "principal")
  BY DEF Throttled, VerifyPassword
<1>3. CASE \E x : Answers(c, x)
  BY <1>1, <1>3, AnswerKeeps
<1>4. ASSUME NEW place \in {"password", "principal"}, Goes(c, place), caller[c].at \in {"throttle", "password"}
      PROVE  OperatorInv'
  <2>1. PICK k : /\ caller' = [caller EXCEPT ![c] = k]
                 /\ {"at", "req", "row", "barred"} \subseteq DOMAIN k
                 /\ k.at = place /\ k.req = caller[c].req /\ k.barred = caller[c].barred
    BY <1>4, Moved
  <2>2. AtCall(caller[c], issued) /\ Barred(caller[c], issued, instant)
    BY DEF OperatorInv, Call
  <2>3. Presents(k.req, issued) /\ publicRoute(k.req) /\ ~k.barred
    BY <1>4, <2>1, <2>2, Zenon DEF AtCall, Barred
  <2>4. Call(k, issued, instant)
    BY <1>4, <2>1, <2>3, Zenon DEF Call, AtCall, Barred, OnSession
  <2> QED BY <1>1, <2>1, <2>4, CallMoves, Zenon
<1> QED BY <1>2, <1>3, <1>4

\* The credential is looked for where its form says.
LEMMA AuthenticateStep ==
  ASSUME OperatorInv, NEW c \in Callers, authenticate(c) PROVE OperatorInv'
<1>1. Issued' /\ Ages(issued, issued', instant, instant') /\ UNCHANGED <<issued, instant>>
  BY RowsSame DEF authenticate, OperatorInv
<1>2. \/ Refuses(c, "credential")
      \/ Req(c).bearer # -1 /\ Goes(c, "token")
      \/ Req(c).bearer = -1 /\ Goes(c, "session")
  BY DEF authenticate
<1>3. CASE Refuses(c, "credential")
  BY <1>1, <1>3, AnswerKeeps
<1>4. ASSUME NEW place \in {"token", "session"}, Goes(c, place), place = "token" <=> Req(c).bearer # -1
      PROVE  OperatorInv'
  <2>1. PICK k : /\ caller' = [caller EXCEPT ![c] = k]
                 /\ {"at", "req", "row", "barred"} \subseteq DOMAIN k
                 /\ k.at = place /\ k.req = caller[c].req /\ k.barred = caller[c].barred
    BY <1>4, Moved
  <2>2. AtCall(caller[c], issued) /\ Barred(caller[c], issued, instant) /\ caller[c].at = "authenticate"
    BY DEF OperatorInv, Call, authenticate
  <2>3. Presents(k.req, issued) /\ (k.barred => GoneFor(k.req, issued, instant))
    BY <2>1, <2>2, Zenon DEF AtCall, Barred
  <2>4. Call(k, issued, instant)
    BY <1>4, <2>1, <2>3, Zenon DEF Call, AtCall, Barred, OnSession, Req
  <2> QED BY <1>1, <2>1, <2>4, CallMoves, Zenon
<1> QED BY <1>2, <1>3, <1>4

TakesRow(c, place, row) == caller' = [caller EXCEPT ![c].at = place, ![c].row = row]

\* A request that was found a row.
LEMMA FoundRow ==
  ASSUME OperatorInv, NEW c \in Callers, NEW place, NEW row, TakesRow(c, place, row)
  PROVE  \E k : /\ caller' = [caller EXCEPT ![c] = k]
                /\ {"at", "req", "row", "barred"} \subseteq DOMAIN k
                /\ k.at = place /\ k.req = caller[c].req /\ k.row = row
                /\ k.barred = caller[c].barred
<1> DEFINE j == [caller[c] EXCEPT !.at = place]
<1> DEFINE k == [j EXCEPT !.row = row]
<1>1. {"at", "req", "row", "barred"} \subseteq DOMAIN caller[c] /\ caller = [d \in Callers |-> caller[d]]
  BY DEF OperatorInv, Call
<1>2. /\ {"at", "req", "row", "barred"} \subseteq DOMAIN j
      /\ j.at = place /\ j.req = caller[c].req /\ j.barred = caller[c].barred
  BY <1>1
<1>3. caller' = [caller EXCEPT ![c] = k]
  BY <1>1, Zenon DEF TakesRow
<1> HIDE DEF j
<1>4. /\ {"at", "req", "row", "barred"} \subseteq DOMAIN k
      /\ k.at = place /\ k.req = caller[c].req /\ k.row = row /\ k.barred = caller[c].barred
  BY <1>2
<1> QED BY <1>3, <1>4, Zenon

\* The row of a dead token is dead.
LEMMA FindTokenStep ==
  ASSUME OperatorInv, NEW c \in Callers, FindOperatorTokenByHash(c) PROVE OperatorInv'
<1>1. Issued' /\ Ages(issued, issued', instant, instant') /\ UNCHANGED <<issued, instant>>
  BY RowsSame DEF FindOperatorTokenByHash, OperatorInv
<1>2. CASE Refuses(c, "credential")
  BY <1>1, <1>2, AnswerKeeps
<1> DEFINE x == Req(c).bearer
<1>3. CASE x \in DOMAIN tokens /\ caller' = [caller EXCEPT ![c].at = "use", ![c].row = tokens[x]]
  <2>f. TakesRow(c, "use", tokens[x])
    BY <1>3, Zenon DEF TakesRow
  <2>1. PICK k : /\ caller' = [caller EXCEPT ![c] = k]
                 /\ {"at", "req", "row", "barred"} \subseteq DOMAIN k
                 /\ k.at = "use" /\ k.req = caller[c].req /\ k.row = tokens[x]
                 /\ k.barred = caller[c].barred
    BY <2>f, FoundRow
  <2>2. AtCall(caller[c], issued) /\ Barred(caller[c], issued, instant) /\ caller[c].at = "token"
    BY DEF OperatorInv, Call, FindOperatorTokenByHash
  <2>3. /\ x \in 1..Len(issued) /\ TokenTells(tokens[x], issued[x], instant)
        /\ instant \in Nat /\ instant <= MaxInstant /\ MaxInstant \in Nat /\ issued[x].until \in Nat
    <3>1. x \in 1..Len(issued) /\ issued[x] \in IssuedSecrets /\ TokenTells(tokens[x], issued[x], instant)
      BY <1>3 DEF OperatorInv, Issued
    <3> QED BY <3>1, OperatorAssumption DEF OperatorInv, Issued, IssuedSecrets
  <2>4. Presents(k.req, issued) /\ k.req.bearer # -1 /\ k.req.bearer = x
        /\ (k.barred => GoneFor(k.req, issued, instant))
    BY <2>1, <2>2, Zenon DEF AtCall, Barred, Req
  <2>5. Gone("token", x, issued, instant) => TokenRowDead(tokens[x], instant)
    <3> SUFFICES ASSUME issued[x].until <= instant PROVE TokenRowDead(tokens[x], instant)
      BY <2>3 DEF Gone, TokenTells
    <3>1. CASE tokens[x].revoked # 0
      BY <2>3, <3>1 DEF TokenTells, TokenRowDead
    <3>2. CASE tokens[x].revoked = 0
      <4>1. tokens[x].expires # 0
        BY <2>3, <3>2 DEF TokenTells
      <4> QED BY <2>3, <3>2, <4>1 DEF TokenTells, TokenRowDead
    <3> QED BY <3>1, <3>2
  <2>6. k.barred => TokenRowDead(k.row, instant)
    BY <2>1, <2>4, <2>5 DEF GoneFor
  <2>7. Call(k, issued, instant)
    BY <2>1, <2>4, <2>6 DEF Call, AtCall, Barred, OnSession
  <2> QED BY <1>1, <2>1, <2>7, CallMoves, Zenon
<1> QED BY <1>2, <1>3 DEF FindOperatorTokenByHash

\* A dead row is not let through.
LEMMA ValidateTokenStep ==
  ASSUME OperatorInv, NEW c \in Callers, ValidateToken(c) PROVE OperatorInv'
<1>0. UNCHANGED <<issued, instant, sessions>> /\ Issued
  BY DEF ValidateToken, OperatorInv
<1>1. Ages(issued, issued', instant, instant')
  BY <1>0, AgesSame
<1>2. CASE Refuses(c, "credential") /\ UNCHANGED tokens
  BY <1>0, <1>1, <1>2, RowsSame, AnswerKeeps
<1>3. CASE /\ TokenCheck(caller[c].row, instant) = "ok"
           /\ tokens' = recordOperatorTokenUse(Req(c).bearer, instant) /\ Goes(c, "principal")
  <2>1. PICK k : /\ caller' = [caller EXCEPT ![c] = k]
                 /\ {"at", "req", "row", "barred"} \subseteq DOMAIN k
                 /\ k.at = "principal" /\ k.req = caller[c].req /\ k.barred = caller[c].barred
    BY <1>3, Moved
  <2>2. AtCall(caller[c], issued) /\ Barred(caller[c], issued, instant) /\ caller[c].at = "use"
    BY DEF OperatorInv, Call, ValidateToken
  <2>3. ~TokenRowDead(caller[c].row, instant)
    BY <1>3 DEF TokenRowDead, TokenCheck
  <2>4. Presents(k.req, issued) /\ k.req.bearer # -1 /\ ~k.barred
    BY <2>1, <2>2, <2>3, Zenon DEF AtCall, Barred
  <2>5. Call(k, issued, instant)
    BY <2>1, <2>4 DEF Call, AtCall, Barred, OnSession
  <2>6. Issued'
    BY <1>0, <1>3, TokenUse
  <2> QED BY <1>0, <1>1, <2>1, <2>5, <2>6, CallMoves, Zenon
<1> QED BY <1>2, <1>3 DEF ValidateToken

\* The row of a dead session is dead, and a row found is a session's.
LEMMA GetSessionStep ==
  ASSUME OperatorInv, NEW c \in Callers, GetSession(c) PROVE OperatorInv'
<1>1. Issued' /\ Ages(issued, issued', instant, instant') /\ UNCHANGED <<issued, instant>>
  BY RowsSame DEF GetSession, OperatorInv
<1>2. CASE Refuses(c, "credential")
  BY <1>1, <1>2, AnswerKeeps
<1> DEFINE x == Req(c).cookie
<1>3. CASE x \in DOMAIN sessions /\ caller' = [caller EXCEPT ![c].at = "check", ![c].row = sessions[x]]
  <2>f. TakesRow(c, "check", sessions[x])
    BY <1>3, Zenon DEF TakesRow
  <2>1. PICK k : /\ caller' = [caller EXCEPT ![c] = k]
                 /\ {"at", "req", "row", "barred"} \subseteq DOMAIN k
                 /\ k.at = "check" /\ k.req = caller[c].req /\ k.row = sessions[x]
                 /\ k.barred = caller[c].barred
    BY <2>f, FoundRow
  <2>2. AtCall(caller[c], issued) /\ Barred(caller[c], issued, instant) /\ caller[c].at = "session"
    BY DEF OperatorInv, Call, GetSession
  <2>3. x \in 1..Len(issued) /\ SessionTells(sessions[x], issued[x])
    BY <1>3 DEF OperatorInv, Issued
  <2>4. Presents(k.req, issued) /\ k.req.bearer = -1 /\ k.req.cookie = x
        /\ (k.barred => GoneFor(k.req, issued, instant))
    BY <2>1, <2>2, Zenon DEF AtCall, Barred, Req
  <2>5. Gone("session", x, issued, instant) => SessionRowDead(sessions[x], instant)
    BY <2>3 DEF Gone, SessionTells, SessionRowDead, SessionRow
  <2>6. k.barred => SessionRowDead(k.row, instant)
    BY <2>1, <2>4, <2>5 DEF GoneFor
  <2>7. issued[x].form = "session"
    BY <2>3 DEF SessionTells
  <2>8. Call(k, issued, instant)
    BY <2>1, <2>3, <2>4, <2>6, <2>7, Zenon DEF Call, AtCall, Barred
  <2> QED BY <1>1, <2>1, <2>8, CallMoves, Zenon
<1> QED BY <1>2, <1>3 DEF GetSession

\* An expired session is not let through.
LEMMA ValidateSessionStep ==
  ASSUME OperatorInv, NEW c \in Callers, ValidateSession(c) PROVE OperatorInv'
<1>1. Issued' /\ Ages(issued, issued', instant, instant') /\ UNCHANGED <<issued, instant>>
  BY RowsSame DEF ValidateSession, OperatorInv
<1>2. CASE Refuses(c, "credential")
  BY <1>1, <1>2, AnswerKeeps
<1>3. CASE SessionCheck(caller[c].row, instant) = "ok" /\ Goes(c, "principal")
  <2>1. PICK k : /\ caller' = [caller EXCEPT ![c] = k]
                 /\ {"at", "req", "row", "barred"} \subseteq DOMAIN k
                 /\ k.at = "principal" /\ k.req = caller[c].req /\ k.barred = caller[c].barred
    BY <1>3, Moved
  <2>2. AtCall(caller[c], issued) /\ Barred(caller[c], issued, instant) /\ caller[c].at = "check"
    BY DEF OperatorInv, Call, ValidateSession
  <2>3. ~SessionRowDead(caller[c].row, instant)
    BY <1>3 DEF SessionRowDead, SessionCheck
  <2>4. /\ Presents(k.req, issued) /\ ~k.barred
        /\ k.req.cookie \in 1..Len(issued) /\ issued[k.req.cookie].form = "session"
    BY <2>1, <2>2, <2>3, Zenon DEF AtCall, Barred, OnSession
  <2>5. Call(k, issued, instant)
    BY <2>1, <2>4 DEF Call, AtCall, Barred
  <2> QED BY <1>1, <2>1, <2>5, CallMoves, Zenon
<1> QED BY <1>2, <1>3 DEF ValidateSession

\* The principal of a request is found once its credential was accepted.
LEMMA PrincipalStep ==
  ASSUME OperatorInv, NEW c \in Callers, principal(c) PROVE OperatorInv'
<1>1. Issued' /\ Ages(issued, issued', instant, instant') /\ UNCHANGED <<issued, instant>>
  BY RowsSame DEF principal, OperatorInv
<1>2. PICK k : /\ caller' = [caller EXCEPT ![c] = k]
               /\ {"at", "req", "row", "barred"} \subseteq DOMAIN k
               /\ k.at = (IF publicRoute(caller[c].req) THEN "mint" ELSE "handler")
               /\ k.req = caller[c].req /\ k.barred = caller[c].barred
  BY Moved DEF principal, Req
<1>3. AtCall(caller[c], issued) /\ Barred(caller[c], issued, instant) /\ caller[c].at = "principal"
  BY DEF OperatorInv, Call, principal
<1>4. Presents(k.req, issued) /\ ~k.barred
  BY <1>2, <1>3, Zenon DEF AtCall, Barred
<1>5. ~publicRoute(k.req) /\ k.req.bearer = -1
        => k.req.cookie \in 1..Len(issued) /\ issued[k.req.cookie].form = "session"
  BY <1>2, <1>3 DEF AtCall, OnSession
<1>6. Call(k, issued, instant)
  BY <1>2, <1>4, <1>5, Zenon DEF Call, AtCall, Barred, OnSession
<1> QED BY <1>1, <1>2, <1>6, CallMoves, Zenon

\* A login that succeeds is given a session of its own.
LEMMA CreateSessionStep ==
  ASSUME OperatorInv, NEW c \in Callers, CreateSession(c) PROVE OperatorInv'
<1> DEFINE n == Len(issued')
<1> DEFINE row == [created |-> instant, expires |-> instant + SessionTTL]
<1>0. Issued /\ instant \in Nat /\ instant + SessionTTL \in Nat /\ UNCHANGED <<instant, tokens>>
  BY OperatorAssumption DEF OperatorInv, Issued, CreateSession
<1>1. /\ Ages(issued, issued', instant, instant') /\ issued' \in Seq(IssuedSecrets)
      /\ n = Len(issued) + 1 /\ Len(issued) \in Nat
      /\ issued'[n].form = "session" /\ issued'[n].until = instant + SessionTTL
      /\ \A x \in 1..Len(issued) : x \in 1..n /\ issued'[x] = issued[x]
  BY <1>0, Drawn DEF CreateSession
<1>2. SessionTells(row, issued'[n]) /\ n \in 1..n
  BY <1>0, <1>1 DEF SessionTells, SessionRow
<1>3. sessions' = [x \in DOMAIN sessions \cup {n} |-> IF x = n THEN row ELSE sessions[x]]
  BY DEF CreateSession, createOperatorSession
<1> HIDE DEF n, row
<1>4. ASSUME NEW x \in DOMAIN sessions' PROVE x \in 1..n /\ SessionTells(sessions'[x], issued'[x])
  <2>1. CASE x = n
    BY <1>2, <1>3, <2>1
  <2>2. CASE x # n
    <3>1. x \in DOMAIN sessions /\ sessions'[x] = sessions[x]
      BY <1>3, <2>2
    <3> QED BY <1>0, <1>1, <3>1 DEF Issued
  <2> QED BY <2>1, <2>2
<1>5. \A x \in DOMAIN tokens : x \in 1..n /\ TokenTells(tokens[x], issued'[x], instant)
  BY <1>0, <1>1 DEF Issued
<1>6. Issued'
  BY <1>0, <1>1, <1>4, <1>5 DEF Issued, n
<1> QED BY <1>1, <1>6, AnswerKeeps, Zenon DEF CreateSession

\* A token that is minted is a row of its own.
LEMMA MintTokenStep ==
  ASSUME OperatorInv, NEW c \in Callers, mintOperatorToken(c) PROVE OperatorInv'
<1> DEFINE n == Len(issued')
<1>0. Issued /\ instant \in Nat /\ MaxInstant \in Nat /\ UNCHANGED <<instant, sessions>>
  BY OperatorAssumption DEF OperatorInv, Issued, mintOperatorToken
<1>1. PICK ttl \in {0, TokenTTL} :
        /\ Draw("token", IF ttl = 0 THEN MaxInstant + 1 ELSE instant + ttl)
        /\ tokens' = createOperatorToken(n, [created |-> instant, revoked |-> 0, used |-> 0,
                                             expires |-> IF ttl = 0 THEN 0 ELSE instant + ttl])
  BY Zenon DEF mintOperatorToken
<1> DEFINE until == IF ttl = 0 THEN MaxInstant + 1 ELSE instant + ttl
<1> DEFINE row == [created |-> instant, revoked |-> 0, used |-> 0,
                   expires |-> IF ttl = 0 THEN 0 ELSE instant + ttl]
<1>2. ttl \in Nat /\ until \in Nat /\ (ttl # 0 => instant + ttl # 0) /\ instant + ttl \in Nat
  BY <1>0, OperatorAssumption
<1>3. Draw("token", until)
  BY <1>1
<1>4. tokens' = [x \in DOMAIN tokens \cup {n} |-> IF x = n THEN row ELSE tokens[x]]
  BY <1>1 DEF createOperatorToken
<1>5. /\ {"created", "expires", "revoked", "used"} \subseteq DOMAIN row /\ row.revoked = 0
      /\ row.expires = IF ttl = 0 THEN 0 ELSE instant + ttl
  OBVIOUS
<1>6. TokenRow(row) /\ row.revoked <= instant /\ until = IF row.expires = 0 THEN MaxInstant + 1 ELSE row.expires
  BY <1>0, <1>2, <1>5 DEF TokenRow
<1> HIDE DEF n, row, until
<1>7. /\ Ages(issued, issued', instant, instant') /\ issued' \in Seq(IssuedSecrets)
      /\ n = Len(issued) + 1 /\ Len(issued) \in Nat
      /\ issued'[n].form = "token" /\ issued'[n].until = until
      /\ \A x \in 1..Len(issued) : x \in 1..n /\ issued'[x] = issued[x]
  BY <1>0, <1>2, <1>3, Drawn DEF n
<1>8. TokenTells(row, issued'[n], instant) /\ n \in 1..n
  BY <1>6, <1>7 DEF TokenTells
<1>9. ASSUME NEW x \in DOMAIN tokens' PROVE x \in 1..n /\ TokenTells(tokens'[x], issued'[x], instant)
  <2>1. CASE x = n
    BY <1>4, <1>8, <2>1
  <2>2. CASE x # n
    <3>1. x \in DOMAIN tokens /\ tokens'[x] = tokens[x]
      BY <1>4, <2>2
    <3> QED BY <1>0, <1>7, <3>1 DEF Issued
  <2> QED BY <2>1, <2>2
<1>10. \A x \in DOMAIN sessions : x \in 1..n /\ SessionTells(sessions[x], issued'[x])
  BY <1>0, <1>7 DEF Issued
<1>11. tokens' = [x \in DOMAIN tokens' |-> tokens'[x]]
  BY <1>4
<1>12. Issued'
  BY <1>0, <1>7, <1>9, <1>10, <1>11 DEF Issued, n
<1> QED BY <1>7, <1>12, AnswerKeeps DEF mintOperatorToken

\* A secret that is ended is dead, and no other is.
LEMMA EndedFacts ==
  ASSUME Issued, NEW id \in 1..Len(issued), issued' = Ended(id), instant' = instant
  PROVE  /\ Ages(issued, issued', instant, instant') /\ issued' \in Seq(IssuedSecrets)
         /\ Len(issued') = Len(issued)
         /\ \A x \in 1..Len(issued) : x # id => issued'[x] = issued[x]
         /\ issued'[id].form = issued[id].form
<1>0. issued \in Seq(IssuedSecrets) /\ instant \in Nat /\ Len(issued) \in Nat
  BY DEF Issued
<1>1. issued[id] \in IssuedSecrets
  BY <1>0
<1> DEFINE s == [issued[id] EXCEPT !.until = 0]
<1>2. s \in IssuedSecrets /\ s.form = issued[id].form /\ s.until = 0
  BY <1>1 DEF IssuedSecrets
<1>3. issued' = [issued EXCEPT ![id] = s]
  BY DEF Ended
<1> HIDE DEF s
<1>4. /\ issued' \in Seq(IssuedSecrets) /\ Len(issued') = Len(issued) /\ issued'[id] = s
      /\ \A x \in 1..Len(issued) : x # id => issued'[x] = issued[x]
  BY <1>0, <1>2, <1>3
<1>5. \A x \in 1..Len(issued) : /\ issued'[x].form = issued[x].form
                                /\ issued[x].until <= instant => issued'[x].until <= instant
  BY <1>0, <1>2, <1>4
<1> QED BY <1>0, <1>2, <1>4, <1>5 DEF Ages

\* A logout ends the session of the request, if it came with one.
LEMMA EndSessionStep ==
  ASSUME OperatorInv, NEW c \in Callers, EndSession(c) PROVE OperatorInv'
<1>0. Issued /\ UNCHANGED <<instant, tokens>> /\ caller[c].at = "handler" /\ AtCall(caller[c], issued)
  BY DEF OperatorInv, EndSession, Call
<1>1. CASE UNCHANGED <<sessions, issued>>
  BY <1>0, <1>1, RowsSame, AnswerKeeps DEF EndSession
<1>2. CASE /\ Req(c).bearer = -1
           /\ sessions' = deleteOperatorSession(Req(c).cookie) /\ issued' = Ended(Req(c).cookie)
  <2> DEFINE id == Req(c).cookie
  <2>1. id \in 1..Len(issued) /\ issued[id].form = "session"
    <3>1. ~publicRoute(Req(c)) => id \in 1..Len(issued) /\ issued[id].form = "session"
      BY <1>0, <1>2 DEF AtCall, OnSession, Req
    <3> QED BY <1>0, <3>1, Zenon DEF AtCall, Req, EndSession
  <2>2. sessions' = [x \in DOMAIN sessions \ {id} |-> sessions[x]] /\ issued' = Ended(id)
    BY <1>2 DEF deleteOperatorSession
  <2> HIDE DEF id
  <2>3. /\ Ages(issued, issued', instant, instant') /\ issued' \in Seq(IssuedSecrets)
        /\ Len(issued') = Len(issued)
        /\ \A x \in 1..Len(issued) : x # id => issued'[x] = issued[x]
    BY <1>0, <2>1, <2>2, EndedFacts
  <2>4. \A x \in DOMAIN sessions' : x \in 1..Len(issued') /\ SessionTells(sessions'[x], issued'[x])
    BY <1>0, <2>2, <2>3 DEF Issued
  <2>5. \A x \in DOMAIN tokens : x # id
    BY <1>0, <2>1 DEF Issued, TokenTells
  <2>6. \A x \in DOMAIN tokens : x \in 1..Len(issued') /\ TokenTells(tokens[x], issued'[x], instant)
    BY <1>0, <2>3, <2>5 DEF Issued
  <2>7. Issued'
    BY <1>0, <2>3, <2>4, <2>6 DEF Issued
  <2> QED BY <2>3, <2>7, AnswerKeeps DEF EndSession
<1> QED BY <1>1, <1>2 DEF EndSession

\* A token that is revoked is dead from that instant on.
LEMMA RevokeTokenStep ==
  ASSUME OperatorInv, NEW c \in Callers, revokeToken(c) PROVE OperatorInv'
<1> DEFINE id == Req(c).target
<1>0. /\ Issued /\ UNCHANGED <<instant, sessions>> /\ \E x : Answers(c, x)
      /\ instant \in Nat /\ instant # 0
  BY DEF OperatorInv, Issued, revokeToken
<1>1. CASE id \notin DOMAIN tokens
  <2>1. UNCHANGED <<tokens, issued>>
    BY <1>1 DEF revokeToken, revokeOperatorToken
  <2> QED BY <1>0, <2>1, RowsSame, AnswerKeeps
<1>2. CASE id \in DOMAIN tokens
  <2>1. /\ issued' = Ended(id)
        /\ tokens' = IF tokens[id].revoked = 0 THEN [tokens EXCEPT ![id].revoked = instant] ELSE tokens
    BY <1>2 DEF revokeToken, revokeOperatorToken
  <2>2. id \in 1..Len(issued) /\ TokenTells(tokens[id], issued[id], instant)
    BY <1>0, <1>2 DEF Issued
  <2> HIDE DEF id
  <2>3. /\ Ages(issued, issued', instant, instant') /\ issued' \in Seq(IssuedSecrets)
        /\ Len(issued') = Len(issued)
        /\ \A x \in 1..Len(issued) : x # id => issued'[x] = issued[x]
        /\ issued'[id].form = issued[id].form
    BY <1>0, <2>1, <2>2, EndedFacts
  <2>4. \A x \in DOMAIN sessions : x # id
    BY <1>0, <2>2 DEF Issued, TokenTells, SessionTells
  <2>5. \A x \in DOMAIN sessions : x \in 1..Len(issued') /\ SessionTells(sessions[x], issued'[x])
    BY <1>0, <2>3, <2>4 DEF Issued
  <2>6. /\ DOMAIN tokens' = DOMAIN tokens /\ tokens' = [x \in DOMAIN tokens' |-> tokens'[x]]
        /\ \A x \in DOMAIN tokens : x # id => tokens'[x] = tokens[x]
    <3>1. tokens = [x \in DOMAIN tokens |-> tokens[x]]
      BY <1>0 DEF Issued
    <3>2. CASE tokens[id].revoked = 0
      BY <2>1, <3>1, <3>2, Zenon
    <3>3. CASE tokens[id].revoked # 0
      BY <2>1, <3>1, <3>3
    <3> QED BY <3>2, <3>3
  <2>7. TokenTells(tokens'[id], issued'[id], instant)
    <3>1. /\ {"created", "expires", "revoked", "used"} \subseteq DOMAIN tokens[id]
          /\ tokens[id].expires \in Nat /\ tokens[id].revoked \in Nat /\ issued'[id].form = "token"
      BY <2>2, <2>3 DEF TokenTells, TokenRow
    <3>2. CASE tokens[id].revoked = 0
      <4>1. tokens'[id] = [tokens[id] EXCEPT !.revoked = instant]
        BY <1>2, <2>1, <3>2 DEF id
      <4>2. /\ DOMAIN tokens'[id] = DOMAIN tokens[id] /\ tokens'[id].expires = tokens[id].expires
            /\ tokens'[id].revoked = instant
        BY <3>1, <4>1
      <4> QED BY <1>0, <3>1, <4>2 DEF TokenTells, TokenRow
    <3>3. CASE tokens[id].revoked # 0
      <4>1. tokens' = tokens
        BY <2>1, <3>3
      <4> QED BY <2>2, <3>1, <3>3, <4>1 DEF TokenTells
    <3> QED BY <3>2, <3>3
  <2>8. ASSUME NEW x \in DOMAIN tokens' PROVE x \in 1..Len(issued') /\ TokenTells(tokens'[x], issued'[x], instant)
    <3>1. CASE x = id
      BY <2>2, <2>3, <2>7, <3>1
    <3>2. CASE x # id
      BY <1>0, <2>3, <2>6, <3>2 DEF Issued
    <3> QED BY <3>1, <3>2
  <2>9. Issued'
    BY <1>0, <2>3, <2>5, <2>6, <2>8 DEF Issued
  <2> QED BY <1>0, <2>3, <2>9, AnswerKeeps
<1> QED BY <1>1, <1>2

\* Sessions that are swept were expired, and those that are left are whole.
LEMMA SweepStep == ASSUME OperatorInv, PruneSessions PROVE OperatorInv'
<1>0. Issued /\ UNCHANGED <<issued, instant, tokens, caller>>
  BY DEF OperatorInv, PruneSessions
<1>1. \A x \in DOMAIN sessions' : x \in DOMAIN sessions /\ sessions'[x] = sessions[x]
  BY DEF PruneSessions, deleteExpiredOperatorSessions
<1>2. Issued'
  BY <1>0, <1>1 DEF Issued
<1> QED BY <1>0, <1>2, AgesSame, CallsAge

\* Time passes, and revives nothing.
LEMMA PassesStep == ASSUME OperatorInv, Passes PROVE OperatorInv'
<1>0. /\ Issued /\ UNCHANGED <<issued, sessions, tokens, caller>> /\ instant' = instant + 1
      /\ instant \in Nat /\ instant < MaxInstant /\ MaxInstant \in Nat
      /\ issued \in Seq(IssuedSecrets) /\ Len(issued) \in Nat
  BY OperatorAssumption DEF OperatorInv, Passes, Issued
<1>1. \A x \in 1..Len(issued) : issued[x].until \in Nat
  <2>1. \A x \in 1..Len(issued) : issued[x] \in IssuedSecrets
    BY <1>0
  <2> QED BY <2>1 DEF IssuedSecrets
<1>2. Ages(issued, issued', instant, instant')
  BY <1>0, <1>1 DEF Ages
<1>3. \A row, secret : TokenTells(row, secret, instant) => TokenTells(row, secret, instant')
  BY <1>0 DEF TokenTells, TokenRow
<1>4. instant' \in Nat \ {0} /\ instant' <= MaxInstant
  BY <1>0
<1>5. Issued'
  BY <1>0, <1>3, <1>4 DEF Issued
<1> QED BY <1>0, <1>2, <1>5, CallsAge

\* Nothing was issued and nobody calls at first.
LEMMA OperatorStarts == OperatorInit => OperatorInv
<1> SUFFICES ASSUME OperatorInit PROVE OperatorInv
  OBVIOUS
<1>1. DOMAIN tokens = {} /\ DOMAIN sessions = {} /\ issued \in Seq(IssuedSecrets)
  BY DEF OperatorInit
<1>2. tokens = [x \in DOMAIN tokens |-> tokens[x]]
  BY <1>1 DEF OperatorInit
<1>3. Issued
  BY <1>1, <1>2, OperatorAssumption DEF OperatorInit, Issued
<1>4. Resting(Idle)
  BY DEF Resting, Idle
<1>5. \A c \in Callers : caller[c] = Idle
  BY DEF OperatorInit
<1>6. \A c \in Callers : Call(caller[c], issued, instant)
  BY <1>4, <1>5, RestingCall
<1>7. caller = [c \in Callers |-> caller[c]]
  BY DEF OperatorInit
<1> QED BY <1>3, <1>6, <1>7 DEF OperatorInv

\* Every step keeps a barred request out.
LEMMA OperatorStep == OperatorInv /\ [OperatorNext]_operatorVars => OperatorInv'
<1> SUFFICES ASSUME OperatorInv, [OperatorNext]_operatorVars PROVE OperatorInv'
  OBVIOUS
<1>1. ASSUME NEW c \in Callers,
             getMe(c) \/ listTokens(c) \/ StoreFails(c) \/ AuthenticationFails(c)
      PROVE  OperatorInv'
  <2>1. UNCHANGED <<issued, instant, tokens, sessions>> /\ \E x : Answers(c, x) \/ Refuses(c, x)
    BY <1>1 DEF getMe, listTokens, StoreFails, AuthenticationFails
  <2> QED BY <2>1, RowsSame, AnswerKeeps DEF OperatorInv
<1>2. CASE SetPassword \/ BeginSweep \/ UNCHANGED operatorVars
  <2>1. UNCHANGED <<issued, instant, tokens, sessions, caller>>
    BY <1>2 DEF SetPassword, BeginSweep, operatorVars
  <2> QED BY <2>1, RowsSame, CallsAge DEF OperatorInv
<1> QED
  BY <1>1, <1>2, MiddlewareStep, LoginStep, CreateSessionStep, AuthenticateStep, FindTokenStep,
     ValidateTokenStep, GetSessionStep, ValidateSessionStep, PrincipalStep, EndSessionStep,
     MintTokenStep, RevokeTokenStep, SweepStep, PassesStep
     DEF OperatorNext

\* A credential that was ended, revoked, expired or never issued when its
\* request arrived opens no handler, for any number of requests, secrets and
\* instants, and whatever logins, mints, revocations and sweeps run beside it.
THEOREM DeadCredentialsAreRefused == OperatorSpec => []DeadCredentialRefused
<1>1. OperatorInv => DeadCredentialRefused
  BY DEF OperatorInv, Call, Barred, DeadCredentialRefused
<1> QED BY <1>1, OperatorStarts, OperatorStep, PTL DEF OperatorSpec
=============================================================================
