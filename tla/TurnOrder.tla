----------------------------- MODULE TurnOrder -----------------------------
(* Facts about the order of turn indexes, for the proofs of the other modules. *)
EXTENDS Integers, WellFoundedInduction, TLAPS

\* A set of naturals that is not empty has a least element.
LEMMA FirstNatural ==
    ASSUME NEW S \in SUBSET Nat, S # {}
    PROVE  \E x \in S : \A y \in S : x <= y
<1>1. \E x \in S : \A y \in S : ~ (<<y, x>> \in OpToRel(<, Nat))
    BY NatLessThanWellFounded, WFMin
<1>2. ASSUME NEW x \in S, NEW y \in S, ~ (<<y, x>> \in OpToRel(<, Nat)) PROVE x <= y
    <2>1. x \in Nat /\ y \in Nat
        OBVIOUS
    <2>2. ~ (y < x)
        BY <1>2, <2>1 DEF OpToRel
    <2>3. QED
        BY <2>1, <2>2
<1>3. QED
    BY <1>1, <1>2

\* A bounded set of naturals that is not empty has a greatest element.
LEMMA LastNatural ==
    ASSUME NEW n \in Nat, NEW S \in SUBSET (0..n), S # {}
    PROVE  \E x \in S : \A y \in S : y <= x
<1> DEFINE Below == {n - x : x \in S}
<1>1. \A x \in S : x \in Nat /\ n - x \in Nat
    OBVIOUS
<1>2. Below \in SUBSET Nat /\ Below # {}
    BY <1>1
<1>3. PICK d \in Below : \A e \in Below : d <= e
    BY <1>2, FirstNatural
<1>4. PICK x \in S : d = n - x
    BY <1>3
<1>5. \A y \in S : n - x <= n - y
    BY <1>3, <1>4
<1>6. \A y \in S : y <= x
    BY <1>1, <1>5
<1>7. QED
    BY <1>6
=============================================================================
