----------------------------- MODULE SwProgress -----------------------------
(***************************************************************************)
(* What is left to do, as a tuple of natural numbers of which the first    *)
(* counts most.  Loops within loops, as the ones of this program, make the *)
(* tuple go down with every turn; and it cannot go down for ever.          *)
(***************************************************************************)
EXTENDS Naturals

Amounts(n) == [1..n -> Nat]

(* Of two tuples of n amounts, a is the lower one: it has the lower amount *)
(* at the first place at which they differ.                                *)
Lower(n, a, b) ==
  /\ a \in Amounts(n)
  /\ b \in Amounts(n)
  /\ \E i \in 1..n : a[i] < b[i] /\ \A j \in 1..(i - 1) : a[j] = b[j]

=============================================================================
