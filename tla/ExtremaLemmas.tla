---------------------------- MODULE ExtremaLemmas ----------------------------
(***************************************************************************)
(* What CHOOSE gives when it is asked for the least or the greatest number *)
(* of a set: the scans and minima of the log and of recovery are defined   *)
(* that way.                                                               *)
(***************************************************************************)
EXTENDS Integers, WellFoundedInduction, TLAPS

\* A set of naturals that is not empty has a least element.
LEMMA LeastExists ==
    ASSUME NEW S \in SUBSET Nat, S # {}
    PROVE  \E m \in S : \A n \in S : m <= n
<1>1. PICK m \in S : \A n \in S : ~(<<n, m>> \in OpToRel(<, Nat))
  BY NatLessThanWellFounded, WFMin
<1>2. \A n \in S : ~(n < m)
  BY <1>1 DEF OpToRel
<1> QED  BY <1>2

\* A bounded one has a greatest element too.
LEMMA GreatestExists ==
    ASSUME NEW S \in SUBSET Nat, S # {}, NEW b \in Nat, \A n \in S : n <= b
    PROVE  \E m \in S : \A n \in S : n <= m
<1> DEFINE T == {k \in Nat : \E n \in S : k = b - n}
<1>1. T # {}
  <2>1. PICK n \in S : TRUE
    OBVIOUS
  <2>2. b - n \in Nat
    OBVIOUS
  <2> QED  BY <2>2
<1>2. PICK k \in T : \A j \in T : k <= j
  BY <1>1, LeastExists
<1>3. PICK m \in S : k = b - m
  BY <1>2
<1>4. ASSUME NEW n \in S PROVE n <= m
  <2>1. b - n \in T
    OBVIOUS
  <2>2. b - m <= b - n
    BY <1>2, <1>3, <2>1
  <2> QED  BY <2>2
<1> QED  BY <1>4

\* CHOOSE of a least element is one.
LEMMA ChooseLeast ==
    ASSUME NEW S \in SUBSET Nat, S # {}, NEW c, c = CHOOSE m \in S : \A n \in S : m <= n
    PROVE  c \in S /\ \A n \in S : c <= n
BY LeastExists

\* CHOOSE of a greatest element is one.
LEMMA ChooseGreatest ==
    ASSUME NEW S \in SUBSET Nat, S # {}, NEW b \in Nat, \A n \in S : n <= b,
           NEW c, c = CHOOSE m \in S : \A n \in S : n <= m
    PROVE  c \in S /\ \A n \in S : n <= c
BY GreatestExists

==============================================================================
