------------------------------ MODULE Sums_proofs ------------------------------
(***************************************************************************)
(* Sums over finite sets: what SumFunctionOnSet of the module Functions    *)
(* computes, for every function and every finite set.                      *)
(***************************************************************************)
EXTENDS Functions, FiniteSetTheorems, TLAPS

(* A set of subsets of a finite set has a smallest member.                 *)
LEMMA SmallestSubset ==
  ASSUME NEW S, IsFiniteSet(S), NEW bad, bad \subseteq SUBSET S, bad # {}
  PROVE  \E A \in bad : \A B \in bad : ~(B \subseteq A /\ B # A)
<1>1. FiniteSubsetsOf(S) = SUBSET S
  BY FS_FiniteSubsetsOfFinite
<1>2. IsWellFoundedOn(StrictSubsetOrdering(S), FiniteSubsetsOf(S))
  BY FS_StrictSubsetOrderingWellFounded
<1>3. IsWellFoundedOn(StrictSubsetOrdering(S), SUBSET S)
  BY <1>1, <1>2
<1>4. \E A \in bad : \A B \in bad : ~(<<B, A>> \in StrictSubsetOrdering(S))
  BY <1>3, WFMin
<1> QED
  BY <1>4 DEF StrictSubsetOrdering

(***************************************************************************)
(* Induction on the subsets of a finite set.  What is to be shown of each  *)
(* of them is given as the set of those that have it, since the provers    *)
(* can instantiate a set and not a predicate: were one of them outside, a  *)
(* smallest one would be.                                                  *)
(***************************************************************************)
LEMMA SubsetInduction ==
  ASSUME NEW S, IsFiniteSet(S), NEW Good,
         \A A \in SUBSET S : (\A B \in SUBSET A : B # A => B \in Good) => A \in Good
  PROVE  \A A \in SUBSET S : A \in Good
<1> DEFINE bad == (SUBSET S) \ Good
<1> SUFFICES ASSUME bad # {} PROVE FALSE
  OBVIOUS
<1>1. bad \subseteq SUBSET S
  OBVIOUS
<1> HIDE DEF bad
<1>2. PICK A \in bad : \A B \in bad : ~(B \subseteq A /\ B # A)
  BY <1>1, SmallestSubset
<1>3. \A B \in SUBSET A : B # A => B \in Good
  BY <1>1, <1>2 DEF bad
<1> QED
  BY <1>1, <1>2, <1>3 DEF bad

(***************************************************************************)
(* The recursion SumFunctionOnSet stands for                               *)
(***************************************************************************)
Chosen(s) == CHOOSE x \in s : TRUE

Adds(f, S, g) ==
  g = [s \in SUBSET S |-> IF s = {} THEN 0 ELSE f[Chosen(s)] + g[s \ {Chosen(s)}]]

Adder(f, S) == CHOOSE g : Adds(f, S, g)

LEMMA SumIsAdder ==
  ASSUME NEW f, NEW S
  PROVE  SumFunctionOnSet(f, S) = Adder(f, S)[S]
BY DEF SumFunctionOnSet, FoldFunctionOnSet, MapThenFoldSet, Adder, Adds, Chosen

LEMMA ChosenIn == \A s : s # {} => Chosen(s) \in s
BY DEF Chosen

(* A function that adds up on the subsets of a set adds up on its own.     *)
(* What it says of them is the recursion's, by SubsetInduction.            *)
LEMMA AdderExists ==
  ASSUME NEW f, NEW S, IsFiniteSet(S)
  PROVE  /\ Adds(f, S, Adder(f, S))
         /\ \A A \in SUBSET S : Adder(f, S)[A] = SumFunctionOnSet(f, A)
<1> DEFINE Sum(A)  == SumFunctionOnSet(f, A)
           Fixed(A) == /\ Adds(f, A, Adder(f, A))
                       /\ \A B \in SUBSET A : Adder(f, A)[B] = Sum(B)
           Good == {A \in SUBSET S : Fixed(A)}
<1>1. ASSUME NEW A \in SUBSET S, \A B \in SUBSET A : B # A => B \in Good
      PROVE  A \in Good
  <2> DEFINE h == [s \in SUBSET A |->
                     IF s = {} THEN 0 ELSE f[Chosen(s)] + Sum(s \ {Chosen(s)})]
  <2>1. ASSUME NEW B \in SUBSET A, B # A
        PROVE  Sum(B) = IF B = {} THEN 0 ELSE f[Chosen(B)] + Sum(B \ {Chosen(B)})
    <3>1. Fixed(B)
      BY <1>1, <2>1
    <3> DEFINE g == Adder(f, B)
    <3>2. g = [s \in SUBSET B |-> IF s = {} THEN 0 ELSE f[Chosen(s)] + g[s \ {Chosen(s)}]]
      BY <3>1 DEF Adds
    <3>3. \A C \in SUBSET B : g[C] = Sum(C)
      BY <3>1
    <3> HIDE DEF g, Sum
    <3>4. B \in SUBSET B /\ B \ {Chosen(B)} \in SUBSET B
      OBVIOUS
    <3>5. g[B] = IF B = {} THEN 0 ELSE f[Chosen(B)] + g[B \ {Chosen(B)}]
      BY <3>2, <3>4
    <3> QED
      BY <3>3, <3>4, <3>5
  <2>2. ASSUME NEW s \in SUBSET A, s # {}
        PROVE  h[s \ {Chosen(s)}] = Sum(s \ {Chosen(s)})
    <3> DEFINE B == s \ {Chosen(s)}
    <3>1. B \in SUBSET A /\ B # A
      BY <2>2, ChosenIn
    <3> HIDE DEF Sum, B
    <3> QED
      BY <2>1, <3>1 DEF B
  <2>3. Adds(f, A, h)
    <3> HIDE DEF Sum
    <3> QED
      BY <2>2 DEF Adds
  <2>4. Adds(f, A, Adder(f, A))
    <3> HIDE DEF h
    <3> QED
      BY <2>3 DEF Adder
  <2> DEFINE g == Adder(f, A)
             Same == {B \in SUBSET A : g[B] = Sum(B)}
  <2>5. ASSUME NEW B \in SUBSET A, \A C \in SUBSET B : C # B => C \in Same
        PROVE  B \in Same
    <3>1. CASE B = A
      BY <3>1, SumIsAdder
    <3>2. CASE B # A
      <4>1. g[B] = IF B = {} THEN 0 ELSE f[Chosen(B)] + g[B \ {Chosen(B)}]
        <5>1. g = [s \in SUBSET A |-> IF s = {} THEN 0 ELSE f[Chosen(s)] + g[s \ {Chosen(s)}]]
          BY <2>4 DEF Adds
        <5> HIDE DEF g
        <5> QED
          BY <5>1
      <4>2. B # {} => B \ {Chosen(B)} \in Same
        BY <2>5, ChosenIn
      <4> HIDE DEF g, Sum
      <4> QED
        BY <2>1, <3>2, <4>1, <4>2
    <3> QED
      BY <3>1, <3>2
  <2>6. \A B \in SUBSET A : B \in Same
    <3>1. IsFiniteSet(A)
      BY FS_Subset
    <3> HIDE DEF Same
    <3> QED
      BY <2>5, <3>1, SubsetInduction
  <2> QED
    BY <2>4, <2>6
<1>2. \A A \in SUBSET S : A \in Good
  <2> HIDE DEF Good
  <2> QED
    BY <1>1, SubsetInduction
<1> QED
  BY <1>2

(* The recursion, for the sum itself.                                      *)
LEMMA SumRecursion ==
  ASSUME NEW f, NEW S, IsFiniteSet(S)
  PROVE  SumFunctionOnSet(f, S) =
           IF S = {} THEN 0 ELSE f[Chosen(S)] + SumFunctionOnSet(f, S \ {Chosen(S)})
<1> DEFINE g == Adder(f, S)
<1>0. Adds(f, S, g)
  BY AdderExists
<1>1. g = [s \in SUBSET S |-> IF s = {} THEN 0 ELSE f[Chosen(s)] + g[s \ {Chosen(s)}]]
  BY <1>0 DEF Adds
<1>2. \A A \in SUBSET S : g[A] = SumFunctionOnSet(f, A)
  BY AdderExists
<1> HIDE DEF g
<1>3. S \in SUBSET S /\ S \ {Chosen(S)} \in SUBSET S
  OBVIOUS
<1> QED
  BY <1>1, <1>2, <1>3

(***************************************************************************)
(* What sums are                                                           *)
(***************************************************************************)
LEMMA SumEmpty ==
  ASSUME NEW f
  PROVE  SumFunctionOnSet(f, {}) = 0
BY SumRecursion, FS_EmptySet

(* Sums of integers are integers, sums of naturals naturals.               *)
LEMMA SumType ==
  ASSUME NEW S, IsFiniteSet(S), NEW f, NEW Number \in {Nat, Int}, \A x \in S : f[x] \in Number
  PROVE  SumFunctionOnSet(f, S) \in Number
<1> DEFINE Sum(A) == SumFunctionOnSet(f, A)
           Good == {A \in SUBSET S : Sum(A) \in Number}
<1>1. ASSUME NEW A \in SUBSET S, \A B \in SUBSET A : B # A => B \in Good
      PROVE  A \in Good
  <2>1. Sum(A) = IF A = {} THEN 0 ELSE f[Chosen(A)] + Sum(A \ {Chosen(A)})
    BY FS_Subset, SumRecursion
  <2>2. A # {} => f[Chosen(A)] \in Number /\ Sum(A \ {Chosen(A)}) \in Number
    BY <1>1, ChosenIn
  <2> HIDE DEF Sum
  <2> QED
    BY <2>1, <2>2
<1> HIDE DEF Good
<1>2. S \in Good
  BY <1>1, SubsetInduction
<1> QED
  BY <1>2 DEF Good

(* Any element may be taken out first.                                     *)
LEMMA SumTakeOut ==
  ASSUME NEW S, IsFiniteSet(S), NEW f, \A x \in S : f[x] \in Int, NEW x \in S
  PROVE  SumFunctionOnSet(f, S) = f[x] + SumFunctionOnSet(f, S \ {x})
<1> DEFINE Sum(A) == SumFunctionOnSet(f, A)
           Good == {A \in SUBSET S : \A y \in A : Sum(A) = f[y] + Sum(A \ {y})}
<1>1. ASSUME NEW A \in SUBSET S, \A B \in SUBSET A : B # A => B \in Good
      PROVE  A \in Good
  <2> SUFFICES ASSUME NEW y \in A PROVE Sum(A) = f[y] + Sum(A \ {y})
    OBVIOUS
  <2> DEFINE z == Chosen(A)
  <2>1. Sum(A) = f[z] + Sum(A \ {z})
    BY FS_Subset, SumRecursion
  <2>2. z \in A
    BY ChosenIn
  <2> HIDE DEF z
  <2>3. CASE y = z
    BY <2>1, <2>3
  <2>4. CASE y # z
    <3> DEFINE rest == Sum((A \ {y}) \ {z})
    <3>1. Sum(A \ {z}) = f[y] + Sum((A \ {z}) \ {y})
      BY <1>1, <2>2, <2>4
    <3>2. Sum(A \ {y}) = f[z] + rest
      BY <1>1, <2>2, <2>4
    <3>3. (A \ {z}) \ {y} = (A \ {y}) \ {z}
      OBVIOUS
    <3>4. rest \in Int
      BY FS_Subset, SumType
    <3>5. f[y] \in Int /\ f[z] \in Int
      BY <2>2
    <3>6. Sum(A \ {z}) = f[y] + rest
      BY <3>1, <3>3
    <3> HIDE DEF rest
    <3>7. f[z] + (f[y] + rest) = f[y] + (f[z] + rest)
      BY <3>4, <3>5
    <3> HIDE DEF Sum
    <3> QED
      BY <2>1, <3>2, <3>6, <3>7
  <2> QED
    BY <2>3, <2>4
<1> HIDE DEF Good
<1>2. S \in Good
  BY <1>1, SubsetInduction
<1> QED
  BY <1>2 DEF Good

LEMMA SumAddElement ==
  ASSUME NEW S, IsFiniteSet(S), NEW x, x \notin S, NEW f, \A y \in S \cup {x} : f[y] \in Int
  PROVE  SumFunctionOnSet(f, S \cup {x}) = f[x] + SumFunctionOnSet(f, S)
<1>1. IsFiniteSet(S \cup {x}) /\ (S \cup {x}) \ {x} = S
  BY FS_AddElement
<1> QED
  BY <1>1, SumTakeOut

(* A sum depends on the values on the set alone.                           *)
LEMMA SumAgree ==
  ASSUME NEW S, IsFiniteSet(S), NEW f, NEW g, \A x \in S : f[x] = g[x]
  PROVE  SumFunctionOnSet(f, S) = SumFunctionOnSet(g, S)
<1> DEFINE Sum(h, A) == SumFunctionOnSet(h, A)
           Good == {A \in SUBSET S : Sum(f, A) = Sum(g, A)}
<1>1. ASSUME NEW A \in SUBSET S, \A B \in SUBSET A : B # A => B \in Good
      PROVE  A \in Good
  <2>1. /\ Sum(f, A) = IF A = {} THEN 0 ELSE f[Chosen(A)] + Sum(f, A \ {Chosen(A)})
        /\ Sum(g, A) = IF A = {} THEN 0 ELSE g[Chosen(A)] + Sum(g, A \ {Chosen(A)})
    BY FS_Subset, SumRecursion
  <2>2. A # {} => /\ f[Chosen(A)] = g[Chosen(A)]
                  /\ Sum(f, A \ {Chosen(A)}) = Sum(g, A \ {Chosen(A)})
    BY <1>1, ChosenIn
  <2> HIDE DEF Sum
  <2> QED
    BY <2>1, <2>2
<1> HIDE DEF Good
<1>2. S \in Good
  BY <1>1, SubsetInduction
<1> QED
  BY <1>2 DEF Good

(* Two sets that do not meet add up.                                       *)
LEMMA SumUnion ==
  ASSUME NEW A, IsFiniteSet(A), NEW B, IsFiniteSet(B), A \cap B = {},
         NEW f, \A x \in A \cup B : f[x] \in Int
  PROVE  SumFunctionOnSet(f, A \cup B) = SumFunctionOnSet(f, A) + SumFunctionOnSet(f, B)
<1> DEFINE Sum(C) == SumFunctionOnSet(f, C)
           Good == {C \in SUBSET A : Sum(C \cup B) = Sum(C) + Sum(B)}
<1>1. \A C \in SUBSET A : IsFiniteSet(C) /\ IsFiniteSet(C \cup B)
  BY FS_Subset, FS_Union
<1>2. \A C \in SUBSET A : Sum(C) \in Int
  BY <1>1, SumType
<1>3. Sum(B) \in Int
  BY SumType
<1>4. ASSUME NEW C \in SUBSET A, \A D \in SUBSET C : D # C => D \in Good
      PROVE  C \in Good
  <2>1. CASE C = {}
    <3>1. Sum(C) = 0 /\ C \cup B = B
      BY <2>1, SumEmpty
    <3>2. 0 + Sum(B) = Sum(B)
      BY <1>3
    <3> QED
      BY <3>1, <3>2
  <2>2. ASSUME NEW x \in C PROVE C \in Good
    <3> DEFINE rest == Sum(C \ {x})
               more == Sum(B)
    <3>1. Sum(C) = f[x] + rest
      BY <1>1, SumTakeOut
    <3>2. Sum(C \cup B) = f[x] + Sum((C \cup B) \ {x})
      BY <1>1, SumTakeOut
    <3>3. (C \cup B) \ {x} = (C \ {x}) \cup B
      OBVIOUS
    <3>4. Sum((C \ {x}) \cup B) = rest + more
      BY <1>4
    <3>5. Sum(C \cup B) = f[x] + (rest + more)
      BY <3>2, <3>3, <3>4
    <3>6. f[x] \in Int /\ rest \in Int /\ more \in Int
      BY <1>2, <1>3
    <3> HIDE DEF rest, more
    <3>7. f[x] + (rest + more) = (f[x] + rest) + more
      BY <3>6
    <3> QED
      BY <3>1, <3>5, <3>7 DEF more
  <2> QED
    BY <2>1, <2>2
<1> HIDE DEF Good
<1>5. A \in Good
  BY <1>4, SubsetInduction
<1> QED
  BY <1>5 DEF Good

(* One value changes.                                                      *)
LEMMA SumChange ==
  ASSUME NEW S, IsFiniteSet(S), NEW f, NEW g, NEW x \in S,
         \A y \in S : f[y] \in Int /\ g[y] \in Int, \A y \in S \ {x} : g[y] = f[y]
  PROVE  SumFunctionOnSet(g, S) = SumFunctionOnSet(f, S) - f[x] + g[x]
<1>1. IsFiniteSet(S \ {x})
  BY FS_RemoveElement
<1>2. /\ SumFunctionOnSet(f, S) = f[x] + SumFunctionOnSet(f, S \ {x})
      /\ SumFunctionOnSet(g, S) = g[x] + SumFunctionOnSet(g, S \ {x})
  BY SumTakeOut
<1>3. SumFunctionOnSet(g, S \ {x}) = SumFunctionOnSet(f, S \ {x})
  BY <1>1, SumAgree
<1>4. SumFunctionOnSet(f, S \ {x}) \in Int /\ f[x] \in Int /\ g[x] \in Int
  BY <1>1, SumType
<1> QED
  BY <1>2, <1>3, <1>4
================================================================================
