---------------------------- MODULE LoginThrottle ----------------------------
(***************************************************************************)
(* The login throttle (api/throttle.go): a fixed window of attempts per    *)
(* source, kept in a list in the order the windows were appended, at most  *)
(* MaxSources of them.  Attempts run concurrently: Allow reads the clock   *)
(* first and takes the lock after, so an attempt may act on a reading that *)
(* is older than one already acted on.                                     *)
(***************************************************************************)
EXTENDS Integers, Sequences, FiniteSets

CONSTANTS
  Attempters,       \* connections that attempt a login
  Sources,          \* source addresses
  Limit, Window, MaxSources,
  MaxTime,          \* bound: the clock
  MaxAttempts       \* bound: attempts of a run

ASSUME ThrottleAssumption ==
  Limit \in Nat \ {0} /\ Window \in Nat \ {0} /\ MaxSources \in Nat \ {0} /\ MaxTime \in Nat

VARIABLES
  time,             \* the clock
  windows,          \* the table, in list order: [key, start, count]
  attempt,          \* per connection: [key, now] between its reading and the lock
  passed,           \* attempts let through, in order: [key, at]
  tried,            \* attempts so far
  refusal           \* the last refusal: [key, now, wait], wait the Retry-After

throttleVars == <<time, windows, attempt, passed, tried, refusal>>

None == [key |-> 0, now |-> 0, wait |-> 0]

ThrottleInit ==
  /\ time = 0 /\ windows = <<>> /\ passed = <<>> /\ tried = 0
  /\ attempt = [c \in Attempters |-> None] /\ refusal = None

Index(key) == {i \in 1..Len(windows) : windows[i].key = key}

Drop(ws, n) == SubSeq(ws, n + 1, Len(ws))

(* The front goes while the table is full.                                 *)
makeRoom == IF Len(windows) >= MaxSources THEN Drop(windows, Len(windows) + 1 - MaxSources) ELSE windows

Opened(key, now) == [key |-> key, start |-> now, count |-> 1]

Without(ws, i) == [j \in 1..(Len(ws) - 1) |-> IF j < i THEN ws[j] ELSE ws[j + 1]]

(* Mutant: an elapsed window goes to the back with the count it had.       *)
MutCounted(i, now) ==
  IF now - windows[i].start >= Window
  THEN Append(Without(windows, i), [windows[i] EXCEPT !.start = now, !.count = @ + 1])
  ELSE [windows EXCEPT ![i].count = @ + 1]

(* A known source: an elapsed window starts over, at the back.             *)
Counted(i, now) ==
  IF now - windows[i].start >= Window
  THEN Append(Without(windows, i), Opened(windows[i].key, now))
  ELSE [windows EXCEPT ![i].count = @ + 1]

Reads(c) ==
  /\ attempt[c] = None /\ tried < MaxAttempts /\ tried' = tried + 1
  /\ \E key \in Sources : attempt' = [attempt EXCEPT ![c] = [key |-> key, now |-> time, wait |-> 0]]
  /\ UNCHANGED <<time, windows, passed, refusal>>

Decide(key, now, w) ==
  IF w.count > Limit
  THEN refusal' = [key |-> key, now |-> now, wait |-> w.start + Window - now] /\ UNCHANGED passed
  ELSE passed' = Append(passed, [key |-> key, at |-> time]) /\ UNCHANGED refusal

AllowNew(c) ==
  LET a == attempt[c]
  IN /\ a # None /\ Index(a.key) = {}
     /\ windows' = Append(makeRoom, Opened(a.key, a.now))
     /\ Decide(a.key, a.now, Opened(a.key, a.now))
     /\ attempt' = [attempt EXCEPT ![c] = None]
     /\ UNCHANGED <<time, tried>>

AllowKnown(c) ==
  LET a == attempt[c]
  IN /\ a # None
     /\ \E i \in Index(a.key) :
          /\ windows' = Counted(i, a.now)
          /\ \E j \in 1..Len(windows') : windows'[j].key = a.key /\ Decide(a.key, a.now, windows'[j])
     /\ attempt' = [attempt EXCEPT ![c] = None]
     /\ UNCHANGED <<time, tried>>

Ticks ==
  /\ time < MaxTime /\ time' = time + 1
  /\ UNCHANGED <<windows, attempt, passed, tried, refusal>>

ThrottleNext ==
  \/ \E c \in Attempters : Reads(c) \/ AllowNew(c) \/ AllowKnown(c)
  \/ Ticks

ThrottleSpec == ThrottleInit /\ [][ThrottleNext]_throttleVars

-----------------------------------------------------------------------------

(* The table is bounded, and a source has one window in it, so one budget: *)
(* the list and the map of throttle.go agree.                              *)
TableIsBounded ==
  /\ Len(windows) <= MaxSources
  /\ \A i, j \in 1..Len(windows) : windows[i].key = windows[j].key => i = j

(* An attempt is refused only when its source has spent its budget: Limit  *)
(* attempts of the source were let through since one window before the     *)
(* refused attempt's reading of the clock.                                 *)
RefusedSpentItsBudget ==
  [][refusal' # refusal =>
       Cardinality({i \in DOMAIN passed : passed[i].key = refusal'.key /\ passed[i].at > refusal'.now - Window})
         >= Limit]_throttleVars

=============================================================================
