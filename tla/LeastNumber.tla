---------------------------- MODULE LeastNumber ----------------------------
(***************************************************************************)
(* Induction.  The induction theorems of the library take an operator,     *)
(* which the provers cannot instantiate; that a set of naturals has a      *)
(* least element is said of a set, and serves as well: a proof by          *)
(* induction is one about the least case that fails.                       *)
(***************************************************************************)
EXTENDS Naturals, FiniteSetTheorems, WellFoundedInduction, TLAPS

\* Finite sets are well-founded under inclusion, the sets below numbers too.
LEMMA LeastNat ==
  ASSUME NEW T \in SUBSET Nat, T # {}
  PROVE  \E x \in T : \A y \in T : x <= y
<1> DEFINE Before(n) == 0 .. n - 1
           P == {Before(x) : x \in T}
<1>1. \A n \in Nat : IsFiniteSet(Before(n)) /\ Before(n) \subseteq Nat
  BY FS_Interval
<1>2. P \subseteq FiniteSubsetsOf(Nat) /\ P # {}
  BY <1>1 DEF FiniteSubsetsOf
<1>3. \E s \in P : \A r \in P : <<r, s>> \notin StrictSubsetOrdering(Nat)
  <2> HIDE DEF P
  <2> QED
    BY <1>2, FS_StrictSubsetOrderingWellFounded, WFMin
<1>4. PICK x \in T :
        \A y \in T : <<Before(y), Before(x)>> \notin StrictSubsetOrdering(Nat)
  BY <1>3
<1>5. ASSUME NEW y \in T, y < x PROVE FALSE
  <2>1. Before(y) \subseteq Before(x) /\ y \in Before(x) /\ y \notin Before(y)
    BY <1>5
  <2>2. Before(y) \in SUBSET Nat /\ Before(x) \in SUBSET Nat
    BY <1>1
  <2>3. <<Before(y), Before(x)>> \in StrictSubsetOrdering(Nat)
    BY <2>1, <2>2 DEF StrictSubsetOrdering
  <2> QED
    BY <1>4, <2>3
<1> QED
  BY <1>5
=============================================================================
