-------------------------- MODULE SwProgress_proofs --------------------------
(***************************************************************************)
(* Why a property of the form [][Lower(n, Left', Left)]_vars says that the *)
(* steps come to an end.                                                   *)
(***************************************************************************)
EXTENDS SwProgress, WellFoundedInduction, TLAPS

(* Amounts of work that go down at every step are not a sequence without   *)
(* end, whatever the number of loops within loops they count.              *)
THEOREM LowerEnds ==
  ASSUME NEW n \in Nat
  PROVE  ~\E f \in [Nat -> Amounts(n)] : \A k \in Nat : Lower(n, f[k + 1], f[k])
<1> DEFINE R == OpToRel(<, Nat)
<1>1. IsWellFoundedOn(LexProductOrdering(R, Nat, n), [1..n -> Nat])
  BY NatLessThanWellFounded, WFLexProductOrdering
<1>2. ASSUME NEW f \in [Nat -> Amounts(n)], \A k \in Nat : Lower(n, f[k + 1], f[k])
      PROVE  FALSE
  <2>1. ASSUME NEW k \in Nat
        PROVE  <<f[k + 1], f[k]>> \in LexProductOrdering(R, Nat, n)
    <3>1. f[k + 1] \in [1..n -> Nat] /\ f[k] \in [1..n -> Nat]
      BY DEF Amounts
    <3>2. PICK i \in 1..n : f[k + 1][i] < f[k][i] /\ \A j \in 1..(i - 1) : f[k + 1][j] = f[k][j]
      BY <1>2 DEF Lower
    <3>3. <<f[k + 1][i], f[k][i]>> \in R
      BY <3>1, <3>2 DEF OpToRel
    <3> QED BY <3>1, <3>2, <3>3 DEF LexProductOrdering
  <2> QED BY <1>1, <2>1 DEF IsWellFoundedOn, Amounts
<1> QED BY <1>2

(* A lower first amount, or the same and a lower second one, and so on.    *)
LEMMA LowerTwo ==
  ASSUME NEW a1 \in Nat, NEW a2 \in Nat, NEW b1 \in Nat, NEW b2 \in Nat,
         \/ a1 < b1
         \/ a1 = b1 /\ a2 < b2
  PROVE  Lower(2, <<a1, a2>>, <<b1, b2>>)
BY DEF Lower, Amounts

LEMMA LowerThree ==
  ASSUME NEW a1 \in Nat, NEW a2 \in Nat, NEW a3 \in Nat,
         NEW b1 \in Nat, NEW b2 \in Nat, NEW b3 \in Nat,
         \/ a1 < b1
         \/ a1 = b1 /\ a2 < b2
         \/ a1 = b1 /\ a2 = b2 /\ a3 < b3
  PROVE  Lower(3, <<a1, a2, a3>>, <<b1, b2, b3>>)
BY DEF Lower, Amounts

LEMMA LowerFour ==
  ASSUME NEW a1 \in Nat, NEW a2 \in Nat, NEW a3 \in Nat, NEW a4 \in Nat,
         NEW b1 \in Nat, NEW b2 \in Nat, NEW b3 \in Nat, NEW b4 \in Nat,
         \/ a1 < b1
         \/ a1 = b1 /\ a2 < b2
         \/ a1 = b1 /\ a2 = b2 /\ a3 < b3
         \/ a1 = b1 /\ a2 = b2 /\ a3 = b3 /\ a4 < b4
  PROVE  Lower(4, <<a1, a2, a3, a4>>, <<b1, b2, b3, b4>>)
BY DEF Lower, Amounts

=============================================================================
