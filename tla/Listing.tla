------------------------------ MODULE Listing ------------------------------
(***************************************************************************)
(* What the store's read statements share: a filter whose zero value means *)
(* any, ORDER BY over a total order, and LIMIT.                            *)
(***************************************************************************)
EXTENDS Integers, Sequences, FiniteSets

Accepts(want, got) == want = 0 \/ want = got

Capped(limit, most) == IF limit > most THEN most ELSE limit

Least(S) == CHOOSE x \in S : \A y \in S : x <= y

Greatest(S) == CHOOSE x \in S : \A y \in S : x >= y

Lexically(a, b) ==
  \E i \in 1..Len(a) : a[i] < b[i] /\ \A j \in 1..(i - 1) : a[j] = b[j]

(* The elements of S in the strict total order before.                     *)
Ordered(S, before(_, _)) ==
  [i \in 1..Cardinality(S) |->
     CHOOSE x \in S : Cardinality({y \in S : before(y, x)}) = i - 1]

Limited(seq, limit) == SubSeq(seq, 1, Capped(Len(seq), limit))
=============================================================================
