----------------------------- MODULE DataLemmas -----------------------------
(***************************************************************************)
(* Facts about the data the models are built from, which no component      *)
(* owns: induction on the naturals and on finite sets (over a set of       *)
(* instances rather than a predicate), sums that do not depend on the      *)
(* order in which they choose, least numbers, lists without an element.    *)
(***************************************************************************)
EXTENDS Naturals, FiniteSets, Sequences, FiniteSetsExt, SequencesExt, Functions,
        FiniteSetTheorems, SequenceTheorems, WellFoundedInduction, TLAPS

(* A set of naturals that has 0 and with each number the next has them all. *)
LEMMA Induction ==
  ASSUME NEW S, 0 \in S, \A n \in Nat : n \in S => n + 1 \in S
  PROVE  Nat \subseteq S
<1> DEFINE T == Nat \ S
           R == OpToRel(<, Nat)
<1>1. SUFFICES ASSUME T # {} PROVE FALSE
  OBVIOUS
<1>2. IsWellFoundedOn(R, Nat)
  BY NatLessThanWellFounded
<1>3. T \subseteq Nat
  OBVIOUS
<1> HIDE DEF R, T
<1>4. PICK x \in T : \A y \in T : ~(<<y, x>> \in R)
  BY <1>1, <1>2, <1>3, WFMin
<1>5. x \in Nat /\ x \notin S
  BY DEF T
<1>6. x - 1 \in Nat /\ x - 1 \notin S
  BY <1>5
<1>7. <<x - 1, x>> \in R
  BY <1>5, <1>6 DEF R, OpToRel
<1>8. QED
  BY <1>4, <1>6, <1>7 DEF T

(* What holds of the empty set and, with any set, of the set with one more  *)
(* element holds of every finite set.                                       *)
LEMMA SetInduction ==
  ASSUME NEW X, IsFiniteSet(X), NEW U, {} \in U,
         \A S \in SUBSET X, x \in X : S \in U /\ x \notin S => S \cup {x} \in U
  PROVE  X \in U
<1> DEFINE OfSize(n) == \A S \in SUBSET X : Cardinality(S) = n => S \in U
           N == {n \in Nat : OfSize(n)}
<1>1. \A S \in SUBSET X : IsFiniteSet(S) /\ Cardinality(S) \in Nat
  BY FS_Subset, FS_CardinalityType
<1>2. 0 \in N
  <2>1. \A S \in SUBSET X : Cardinality(S) = 0 => S = {}
    BY <1>1, FS_EmptySet
  <2>2. QED
    BY <2>1
<1>3. ASSUME NEW n \in Nat, n \in N PROVE n + 1 \in N
  <2> SUFFICES ASSUME NEW S \in SUBSET X, Cardinality(S) = n + 1 PROVE S \in U
    OBVIOUS
  <2>1. S # {}
    BY <1>1, FS_EmptySet
  <2>2. PICK x \in S : TRUE
    BY <2>1
  <2>3. Cardinality(S \ {x}) = n
    <3>1. Cardinality(S \ {x}) = Cardinality(S) - 1
      BY <1>1, <2>2, FS_RemoveElement
    <3>2. QED
      BY <3>1
  <2>4. S \ {x} \in U /\ S \ {x} \in SUBSET X
    BY <1>3, <2>3
  <2>5. (S \ {x}) \cup {x} \in U
    BY <2>2, <2>4
  <2>6. (S \ {x}) \cup {x} = S
    BY <2>2
  <2>7. QED
    BY <2>5, <2>6
<1> HIDE DEF N
<1>4. Nat \subseteq N
  BY <1>2, <1>3, Induction
<1>5. Cardinality(X) \in N
  BY <1>1, <1>4
<1>6. QED
  BY <1>5 DEF N

-----------------------------------------------------------------------------
(* The recursion of a sum *)

Pick(s) == CHOOSE x \in s : TRUE
Body(f, g, s) == IF s = {} THEN 0 ELSE f[Pick(s)] + g[s \ {Pick(s)}]

(* What SumFunctionOnSet takes the value of, at its indices. *)
Summing(f, I) == CHOOSE g : g = [s \in SUBSET I |-> Body(f, g, s)]

LEMMA SumIsSumming ==
  ASSUME NEW f, NEW I
  PROVE  SumFunctionOnSet(f, I) = Summing(f, I)[I]
BY DEF SumFunctionOnSet, FoldFunctionOnSet, MapThenFoldSet, Summing, Body, Pick

LEMMA PickIn ==
  ASSUME NEW S, S # {}
  PROVE  Pick(S) \in S
BY DEF Pick

(* There is such a function. *)
LEMMA SummingAt ==
  ASSUME NEW f, NEW I, IsFiniteSet(I), NEW S \in SUBSET I
  PROVE  Summing(f, I)[S] = Body(f, Summing(f, I), S)
<1> DEFINE Small(n) == {s \in SUBSET I : Cardinality(s) <= n}
           Is(g, n) == g = [s \in Small(n) |-> Body(f, g, s)]
           N == {n \in Nat : \E g : Is(g, n)}
<1>1. \A s \in SUBSET I : IsFiniteSet(s) /\ Cardinality(s) \in Nat
  BY FS_Subset, FS_CardinalityType
<1>2. 0 \in N
  <2> DEFINE g == [s \in Small(0) |-> 0]
  <2>1. \A s \in Small(0) : s = {}
    BY <1>1, FS_EmptySet
  <2>2. \A s \in Small(0) : Body(f, g, s) = 0
    BY <2>1 DEF Body
  <2>3. Is(g, 0)
    BY <2>2
  <2>4. QED
    BY <2>3
<1>3. ASSUME NEW n \in Nat, n \in N PROVE n + 1 \in N
  <2>1. PICK g : Is(g, n)
    BY <1>3
  <2> DEFINE h == [s \in Small(n + 1) |-> Body(f, g, s)]
  <2>2. \A s \in Small(n + 1) : s # {} => s \ {Pick(s)} \in Small(n)
    <3> SUFFICES ASSUME NEW s \in Small(n + 1), s # {} PROVE s \ {Pick(s)} \in Small(n)
      OBVIOUS
    <3>1. Pick(s) \in s
      BY PickIn
    <3>2. Cardinality(s \ {Pick(s)}) = Cardinality(s) - 1
      BY <1>1, <3>1, FS_RemoveElement
    <3>3. Cardinality(s) \in Nat /\ Cardinality(s) <= n + 1
      BY <1>1
    <3>4. QED
      BY <3>2, <3>3
  <2>3. Small(n) \subseteq Small(n + 1)
    BY <1>1
  <2>4. \A s \in Small(n) : h[s] = g[s]
    BY <2>1, <2>3
  <2>5. \A s \in Small(n + 1) : Body(f, g, s) = Body(f, h, s)
    BY <2>2, <2>4 DEF Body
  <2>6. Is(h, n + 1)
    BY <2>5
  <2>7. \E x : Is(x, n + 1)
    <3> HIDE DEF Is, h
    <3>1. QED
      BY <2>6
  <2>8. QED
    <3> HIDE DEF Is
    <3>1. QED
      BY <2>7
<1>4. Nat \subseteq N
  <2> HIDE DEF N
  <2>1. QED
    BY <1>2, <1>3, Induction
<1>5. Cardinality(I) \in N
  BY <1>1, <1>4
<1>6. Small(Cardinality(I)) = SUBSET I
  BY FS_Subset
<1>7. PICK g : Is(g, Cardinality(I))
  BY <1>5
<1>8. \E x : x = [s \in SUBSET I |-> Body(f, x, s)]
  BY <1>6, <1>7
<1> DEFINE sum == Summing(f, I)
<1>9. sum = [s \in SUBSET I |-> Body(f, sum, s)]
  BY <1>8 DEF Summing
<1> HIDE DEF sum
<1>10. sum[S] = Body(f, sum, S)
  BY <1>9
<1>11. QED
  BY <1>10 DEF sum

(* The function sums its subsets too: it does not matter where it was told  *)
(* to start.                                                                *)
LEMMA SummingPart ==
  ASSUME NEW f, NEW I, IsFiniteSet(I), NEW J \in SUBSET I
  PROVE  Summing(f, I)[J] = SumFunctionOnSet(f, J)
<1> DEFINE g == Summing(f, I)
           h == Summing(f, J)
           U == {S \in SUBSET J : g[S] = h[S]}
           Same == {n \in Nat : \A S \in SUBSET J : Cardinality(S) = n => S \in U}
<1>1. /\ IsFiniteSet(J)
      /\ \A S \in SUBSET J : IsFiniteSet(S) /\ Cardinality(S) \in Nat
  BY FS_Subset, FS_CardinalityType
<1>2. /\ \A s \in SUBSET I : g[s] = Body(f, g, s)
      /\ \A s \in SUBSET J : h[s] = Body(f, h, s)
  <2> HIDE DEF U, Same
  <2>1. QED
    BY <1>1, SummingAt
<1> HIDE DEF g, h
<1>3. 0 \in Same
  <2>1. \A S \in SUBSET J : Cardinality(S) = 0 => S = {}
    BY <1>1, FS_EmptySet
  <2>2. g[{}] = 0 /\ h[{}] = 0
    BY <1>2 DEF Body
  <2>3. QED
    BY <2>1, <2>2
<1>4. ASSUME NEW n \in Nat, n \in Same PROVE n + 1 \in Same
  <2> SUFFICES ASSUME NEW S \in SUBSET J, Cardinality(S) = n + 1 PROVE S \in U
    OBVIOUS
  <2>1. S # {}
    BY <1>1, FS_EmptySet
  <2>2. Pick(S) \in S
    BY <2>1, PickIn
  <2>3. Cardinality(S \ {Pick(S)}) = Cardinality(S) - 1
    BY <1>1, <2>2, FS_RemoveElement
  <2>4. Cardinality(S \ {Pick(S)}) = n
    BY <2>3
  <2>5. g[S \ {Pick(S)}] = h[S \ {Pick(S)}]
    BY <1>4, <2>4
  <2>6. S \in SUBSET I
    OBVIOUS
  <2>7. g[S] = h[S]
    BY <1>2, <2>1, <2>5, <2>6 DEF Body
  <2>8. QED
    BY <2>7
<1>5. Nat \subseteq Same
  <2> HIDE DEF Same
  <2>1. QED
    BY <1>3, <1>4, Induction
<1>6. J \in U
  BY <1>1, <1>5
<1>7. QED
  BY <1>6, SumIsSumming DEF g, h

-----------------------------------------------------------------------------
(* Sums *)

LEMMA SumEmpty ==
  ASSUME NEW f
  PROVE  SumFunctionOnSet(f, {}) = 0
<1>1. IsFiniteSet({}) /\ {} \in SUBSET {}
  BY FS_EmptySet
<1>2. Summing(f, {})[{}] = Body(f, Summing(f, {}), {})
  BY <1>1, SummingAt
<1>3. QED
  BY <1>2, SumIsSumming DEF Body

LEMMA SumPick ==
  ASSUME NEW f, NEW S, IsFiniteSet(S), S # {}
  PROVE  SumFunctionOnSet(f, S) = f[Pick(S)] + SumFunctionOnSet(f, S \ {Pick(S)})
<1>1. Summing(f, S)[S] = Body(f, Summing(f, S), S)
  BY SummingAt
<1>2. Summing(f, S)[S \ {Pick(S)}] = SumFunctionOnSet(f, S \ {Pick(S)})
  BY SummingPart
<1>3. QED
  BY <1>1, <1>2, SumIsSumming DEF Body

LEMMA SumNat ==
  ASSUME NEW S, IsFiniteSet(S), NEW f, \A x \in S : f[x] \in Nat
  PROVE  SumFunctionOnSet(f, S) \in Nat
<1> DEFINE Total(s) == SumFunctionOnSet(f, s)
           N == {n \in Nat : \A s \in SUBSET S : Cardinality(s) = n => Total(s) \in Nat}
<1>1. \A s \in SUBSET S : IsFiniteSet(s) /\ Cardinality(s) \in Nat
  BY FS_Subset, FS_CardinalityType
<1>2. 0 \in N
  <2>1. \A s \in SUBSET S : Cardinality(s) = 0 => s = {}
    BY <1>1, FS_EmptySet
  <2>2. Total({}) = 0
    BY SumEmpty
  <2> HIDE DEF Total
  <2>3. QED
    BY <2>1, <2>2
<1>3. ASSUME NEW n \in Nat, n \in N PROVE n + 1 \in N
  <2> SUFFICES ASSUME NEW s \in SUBSET S, Cardinality(s) = n + 1 PROVE Total(s) \in Nat
    OBVIOUS
  <2>1. s # {} /\ IsFiniteSet(s)
    BY <1>1, FS_EmptySet
  <2>2. Pick(s) \in s
    BY <2>1, PickIn
  <2>3. Cardinality(s \ {Pick(s)}) = Cardinality(s) - 1
    BY <2>1, <2>2, FS_RemoveElement
  <2>4. Total(s) = f[Pick(s)] + Total(s \ {Pick(s)})
    BY <2>1, SumPick
  <2> HIDE DEF Total
  <2>5. Total(s \ {Pick(s)}) \in Nat
    BY <1>3, <2>3
  <2>6. f[Pick(s)] \in Nat
    BY <2>2
  <2>7. QED
    BY <2>4, <2>5, <2>6
<1>4. Nat \subseteq N
  <2> HIDE DEF N
  <2>1. QED
    BY <1>2, <1>3, Induction
<1>5. QED
  BY <1>1, <1>4

(* Any element may be taken out first. *)
LEMMA SumSplit ==
  ASSUME NEW S, IsFiniteSet(S), NEW f, \A x \in S : f[x] \in Nat, NEW a \in S
  PROVE  SumFunctionOnSet(f, S) = f[a] + SumFunctionOnSet(f, S \ {a})
<1> DEFINE Total(s) == SumFunctionOnSet(f, s)
           Splits(s) == \A b \in s : Total(s) = f[b] + Total(s \ {b})
           N == {n \in Nat : \A s \in SUBSET S : Cardinality(s) = n => Splits(s)}
<1>1. \A s \in SUBSET S : IsFiniteSet(s) /\ Cardinality(s) \in Nat
  BY FS_Subset, FS_CardinalityType
<1>2. \A s \in SUBSET S : Total(s) \in Nat
  BY <1>1, SumNat
<1>3. \A s \in SUBSET S : s # {} =>
        /\ Pick(s) \in s
        /\ Total(s) = f[Pick(s)] + Total(s \ {Pick(s)})
        /\ Cardinality(s \ {Pick(s)}) = Cardinality(s) - 1
  BY <1>1, PickIn, SumPick, FS_RemoveElement
<1> HIDE DEF Total
<1>4. 0 \in N
  <2>1. \A s \in SUBSET S : Cardinality(s) = 0 => s = {}
    BY <1>1, FS_EmptySet
  <2>2. QED
    BY <2>1
<1>5. ASSUME NEW n \in Nat, n \in N PROVE n + 1 \in N
  <2> SUFFICES ASSUME NEW s \in SUBSET S, Cardinality(s) = n + 1, NEW b \in s
      PROVE  Total(s) = f[b] + Total(s \ {b})
    OBVIOUS
  <2> DEFINE c == Pick(s)
  <2>1. c \in s /\ Total(s) = f[c] + Total(s \ {c}) /\ Cardinality(s \ {c}) = Cardinality(s) - 1
    BY <1>3
  <2> HIDE DEF c
  <2>2. CASE b = c
    BY <2>1, <2>2
  <2>3. CASE b # c
    <3>1. Cardinality(s \ {c}) = n
      BY <2>1
    <3>2. Cardinality(s \ {b}) = Cardinality(s) - 1
      BY <1>1, FS_RemoveElement
    <3>3. Cardinality(s \ {b}) = n
      BY <3>2
    <3>4. Total(s \ {c}) = f[b] + Total((s \ {c}) \ {b})
      BY <1>5, <2>3, <3>1
    <3>5. Total(s \ {b}) = f[c] + Total((s \ {b}) \ {c})
      BY <1>5, <2>1, <2>3, <3>3
    <3>6. (s \ {b}) \ {c} = (s \ {c}) \ {b}
      OBVIOUS
    <3>7. /\ f[b] \in Nat /\ f[c] \in Nat /\ Total((s \ {c}) \ {b}) \in Nat
      BY <1>2, <2>1
    <3>8. QED
      BY <2>1, <3>4, <3>5, <3>6, <3>7
  <2>4. QED
    BY <2>2, <2>3
<1>6. Nat \subseteq N
  <2> HIDE DEF N
  <2>1. QED
    BY <1>4, <1>5, Induction
<1>7. Splits(S)
  BY <1>1, <1>6
<1>8. QED
  BY <1>7 DEF Total

LEMMA SumAdd ==
  ASSUME NEW S, IsFiniteSet(S), NEW a, a \notin S,
         NEW f, \A x \in S \cup {a} : f[x] \in Nat
  PROVE  SumFunctionOnSet(f, S \cup {a}) = f[a] + SumFunctionOnSet(f, S)
<1>1. IsFiniteSet(S \cup {a})
  BY FS_AddElement
<1>2. SumFunctionOnSet(f, S \cup {a}) = f[a] + SumFunctionOnSet(f, (S \cup {a}) \ {a})
  BY <1>1, SumSplit
<1>3. (S \cup {a}) \ {a} = S
  OBVIOUS
<1>4. QED
  BY <1>2, <1>3

(* Only what is summed matters. *)
LEMMA SumSame ==
  ASSUME NEW S, IsFiniteSet(S), NEW f, NEW g,
         \A x \in S : f[x] = g[x] /\ f[x] \in Nat
  PROVE  SumFunctionOnSet(f, S) = SumFunctionOnSet(g, S)
<1> DEFINE F(s) == SumFunctionOnSet(f, s)
           G(s) == SumFunctionOnSet(g, s)
           U == {s \in SUBSET S : F(s) = G(s)}
<1>1. F({}) = 0 /\ G({}) = 0
  BY SumEmpty
<1>2. \A s \in SUBSET S, x \in S : x \notin s =>
        F(s \cup {x}) = f[x] + F(s) /\ G(s \cup {x}) = g[x] + G(s)
  <2> SUFFICES ASSUME NEW s \in SUBSET S, NEW x \in S, x \notin s
      PROVE  F(s \cup {x}) = f[x] + F(s) /\ G(s \cup {x}) = g[x] + G(s)
    OBVIOUS
  <2>1. IsFiniteSet(s)
    BY FS_Subset
  <2>2. QED
    BY <2>1, SumAdd
<1> HIDE DEF F, G
<1>3. {} \in U
  BY <1>1
<1>4. \A s \in SUBSET S, x \in S : s \in U /\ x \notin s => s \cup {x} \in U
  BY <1>2
<1> HIDE DEF U
<1>5. S \in U
  BY <1>3, <1>4, SetInduction
<1>6. QED
  BY <1>5 DEF U, F, G

(* A part sums to no more than the whole. *)
LEMMA SumPart ==
  ASSUME NEW S, IsFiniteSet(S), NEW T \in SUBSET S, NEW f, \A x \in S : f[x] \in Nat
  PROVE  SumFunctionOnSet(f, T) <= SumFunctionOnSet(f, S)
<1> DEFINE F(s) == SumFunctionOnSet(f, s)
           V == {s \in SUBSET S : F(s \cap T) <= F(s)}
<1>1. \A s \in SUBSET S : F(s) \in Nat /\ IsFiniteSet(s)
  BY FS_Subset, SumNat
<1>2. ASSUME NEW s \in SUBSET S, NEW x \in S, x \notin s
      PROVE  F(s \cup {x}) = f[x] + F(s)
  BY <1>1, <1>2, SumAdd
<1> HIDE DEF F
<1>3. {} \in V
  <2>1. {} \cap T = {}
    OBVIOUS
  <2>2. F({}) \in Nat /\ {} \in SUBSET S
    BY <1>1
  <2>3. QED
    BY <2>1, <2>2
<1>4. ASSUME NEW s \in SUBSET S, NEW x \in S, s \in V, x \notin s
      PROVE  s \cup {x} \in V
  <2>1. F(s \cup {x}) = f[x] + F(s) /\ f[x] \in Nat /\ F(s) \in Nat /\ F(s \cap T) \in Nat
    BY <1>1, <1>2, <1>4
  <2>2. F(s \cap T) <= F(s)
    BY <1>4
  <2> SUFFICES F((s \cup {x}) \cap T) <= F(s \cup {x})
    OBVIOUS
  <2>3. CASE x \in T
    <3>1. F((s \cap T) \cup {x}) = f[x] + F(s \cap T)
      BY <1>2, <1>4
    <3>2. (s \cup {x}) \cap T = (s \cap T) \cup {x}
      BY <2>3
    <3>3. f[x] + F(s \cap T) <= f[x] + F(s)
      BY <2>1, <2>2
    <3>4. QED
      BY <2>1, <3>1, <3>2, <3>3
  <2>4. CASE x \notin T
    <3>1. (s \cup {x}) \cap T = s \cap T
      BY <2>4
    <3>2. F(s) <= f[x] + F(s) /\ F(s \cap T) <= f[x] + F(s)
      BY <2>1, <2>2
    <3>3. QED
      BY <2>1, <3>1, <3>2
  <2>5. QED
    BY <2>3, <2>4
<1>5. S \in V
  <2> HIDE DEF V
  <2>1. QED
    BY <1>3, <1>4, SetInduction
<1>6. S \cap T = T
  OBVIOUS
<1>7. QED
  BY <1>5, <1>6 DEF F

(* The whole is the sum of a part and the rest. *)
LEMMA SumParts ==
  ASSUME NEW S, IsFiniteSet(S), NEW T \in SUBSET S, NEW f, \A x \in S : f[x] \in Nat
  PROVE  SumFunctionOnSet(f, S) = SumFunctionOnSet(f, T) + SumFunctionOnSet(f, S \ T)
<1> DEFINE F(s) == SumFunctionOnSet(f, s)
           V == {s \in SUBSET S : F(s) = F(s \cap T) + F(s \ T)}
<1>1. \A s \in SUBSET S : F(s) \in Nat /\ IsFiniteSet(s)
  BY FS_Subset, SumNat
<1>2. ASSUME NEW s \in SUBSET S, NEW x \in S, x \notin s
      PROVE  F(s \cup {x}) = f[x] + F(s)
  BY <1>1, <1>2, SumAdd
<1>3. F({}) = 0
  BY SumEmpty
<1> HIDE DEF F
<1>4. {} \in V
  <2>1. {} \cap T = {} /\ {} \ T = {}
    OBVIOUS
  <2>2. QED
    BY <1>3, <2>1
<1>5. ASSUME NEW s \in SUBSET S, NEW x \in S, s \in V, x \notin s
      PROVE  s \cup {x} \in V
  <2>1. /\ F(s \cup {x}) = f[x] + F(s) /\ f[x] \in Nat
        /\ F(s \cap T) \in Nat /\ F(s \ T) \in Nat
    BY <1>1, <1>2, <1>5
  <2>2. F(s) = F(s \cap T) + F(s \ T)
    BY <1>5
  <2> SUFFICES F(s \cup {x}) = F((s \cup {x}) \cap T) + F((s \cup {x}) \ T)
    OBVIOUS
  <2>3. CASE x \in T
    <3>1. F((s \cap T) \cup {x}) = f[x] + F(s \cap T)
      BY <1>2, <1>5
    <3>2. (s \cup {x}) \cap T = (s \cap T) \cup {x} /\ (s \cup {x}) \ T = s \ T
      BY <2>3
    <3>3. F(s \cup {x}) = (f[x] + F(s \cap T)) + F(s \ T)
      BY <2>1, <2>2
    <3>4. QED
      BY <3>1, <3>2, <3>3
  <2>4. CASE x \notin T
    <3>1. F((s \ T) \cup {x}) = f[x] + F(s \ T)
      BY <1>2, <1>5
    <3>2. (s \cup {x}) \cap T = s \cap T /\ (s \cup {x}) \ T = (s \ T) \cup {x}
      BY <2>4
    <3>3. F(s \cup {x}) = F(s \cap T) + (f[x] + F(s \ T))
      BY <2>1, <2>2
    <3>4. QED
      BY <3>1, <3>2, <3>3
  <2>5. QED
    BY <2>3, <2>4
<1>6. S \in V
  <2> HIDE DEF V
  <2>1. QED
    BY <1>4, <1>5, SetInduction
<1>7. S \cap T = T
  OBVIOUS
<1>8. QED
  BY <1>6, <1>7 DEF F

(* Summing over places is summing over what stands there, when nothing      *)
(* stands twice.                                                            *)
LEMMA SumOver ==
  ASSUME NEW I, IsFiniteSet(I), NEW g, NEW h, NEW f,
         \A i, j \in I : g[i] = g[j] => i = j,
         \A i \in I : h[i] = f[g[i]] /\ h[i] \in Nat
  PROVE  SumFunctionOnSet(h, I) = SumFunctionOnSet(f, {g[i] : i \in I})
<1> DEFINE At(J) == {g[i] : i \in J}
           H(s) == SumFunctionOnSet(h, s)
           F(s) == SumFunctionOnSet(f, s)
           V == {J \in SUBSET I : IsFiniteSet(At(J)) /\ H(J) = F(At(J))}
<1>1. \A J \in SUBSET I : IsFiniteSet(J)
  BY FS_Subset
<1>2. ASSUME NEW J \in SUBSET I, NEW x \in I, x \notin J
      PROVE  H(J \cup {x}) = h[x] + H(J)
  BY <1>1, <1>2, SumAdd
<1>3. {} \in V
  <2>1. At({}) = {}
    OBVIOUS
  <2>2. H({}) = 0 /\ F({}) = 0
    BY SumEmpty
  <2> HIDE DEF H, F, At
  <2>3. QED
    BY <2>1, <2>2, FS_EmptySet
<1>4. ASSUME NEW J \in SUBSET I, NEW x \in I, J \in V, x \notin J
      PROVE  J \cup {x} \in V
  <2>1. At(J \cup {x}) = At(J) \cup {g[x]}
    OBVIOUS
  <2>2. g[x] \notin At(J)
    BY <1>4
  <2>3. \A y \in At(J) \cup {g[x]} : f[y] \in Nat
    OBVIOUS
  <2>4. IsFiniteSet(At(J)) /\ H(J) = F(At(J))
    BY <1>4
  <2> HIDE DEF At
  <2>5. F(At(J) \cup {g[x]}) = f[g[x]] + F(At(J))
    BY <2>2, <2>3, <2>4, SumAdd
  <2>6. IsFiniteSet(At(J) \cup {g[x]})
    BY <2>4, FS_AddElement
  <2>7. h[x] = f[g[x]] /\ J \cup {x} \in SUBSET I
    OBVIOUS
  <2> HIDE DEF H, F
  <2>8. H(J \cup {x}) = F(At(J \cup {x}))
    BY <1>2, <1>4, <2>1, <2>4, <2>5, <2>7
  <2>9. QED
    BY <2>1, <2>6, <2>7, <2>8
<1>5. I \in V
  <2> HIDE DEF V
  <2>1. QED
    BY <1>3, <1>4, SetInduction
<1>6. QED
  BY <1>5

(* What is at most n each sums to at most n times as many. *)
LEMMA SumBound ==
  ASSUME NEW S, IsFiniteSet(S), NEW f, NEW n \in Nat,
         \A x \in S : f[x] \in Nat /\ f[x] <= n
  PROVE  SumFunctionOnSet(f, S) <= n * Cardinality(S)
<1> DEFINE F(s) == SumFunctionOnSet(f, s)
           V == {s \in SUBSET S : F(s) <= n * Cardinality(s)}
<1>1. \A s \in SUBSET S : F(s) \in Nat /\ IsFiniteSet(s) /\ Cardinality(s) \in Nat
  BY FS_Subset, FS_CardinalityType, SumNat
<1>2. ASSUME NEW s \in SUBSET S, NEW x \in S, x \notin s
      PROVE  F(s \cup {x}) = f[x] + F(s) /\ Cardinality(s \cup {x}) = Cardinality(s) + 1
  BY <1>1, <1>2, SumAdd, FS_AddElement
<1>3. F({}) = 0 /\ Cardinality({}) = 0
  BY SumEmpty, FS_EmptySet
<1> HIDE DEF F
<1>4. {} \in V
  BY <1>3
<1>5. ASSUME NEW s \in SUBSET S, NEW x \in S, s \in V, x \notin s
      PROVE  s \cup {x} \in V
  <2> DEFINE c == Cardinality(s)
             t == F(s)
             u == f[x]
  <2>1. c \in Nat /\ t \in Nat /\ u \in Nat /\ u <= n /\ t <= n * c
    BY <1>1, <1>5
  <2>2. F(s \cup {x}) = u + t /\ Cardinality(s \cup {x}) = c + 1
    BY <1>2, <1>5
  <2> HIDE DEF c, t, u
  <2>3. n * (c + 1) = n * c + n /\ n * c \in Nat
    BY <2>1
  <2>4. u + t <= n * (c + 1)
    BY <2>1, <2>3
  <2>5. QED
    BY <2>2, <2>4
<1>6. S \in V
  <2> HIDE DEF V
  <2>1. QED
    BY <1>4, <1>5, SetInduction
<1>7. QED
  BY <1>6 DEF F

-----------------------------------------------------------------------------
(* Least numbers *)

LEMMA Least ==
  ASSUME NEW S \in SUBSET Nat, S # {}
  PROVE  Min(S) \in S /\ \A n \in S : Min(S) <= n
<1> DEFINE R == OpToRel(<, Nat)
<1>1. IsWellFoundedOn(R, Nat)
  BY NatLessThanWellFounded
<1>2. \A m, n \in Nat : m < n => <<m, n>> \in R
  BY DEF OpToRel
<1> HIDE DEF R
<1>3. PICK x \in S : \A y \in S : ~(<<y, x>> \in R)
  BY <1>1, WFMin
<1>4. \A y \in S : x <= y
  <2> TAKE y \in S
  <2>1. x \in Nat /\ y \in Nat /\ ~(y < x)
    BY <1>2, <1>3
  <2>2. QED
    BY <2>1
<1>5. QED
  BY <1>4 DEF Min

-----------------------------------------------------------------------------
(* Lists *)

LEMMA RemoveAtKeeps ==
  ASSUME NEW E, NEW l \in Seq(E), NEW i \in 1..Len(l)
  PROVE  /\ RemoveAt(l, i) \in Seq(E) /\ Len(RemoveAt(l, i)) = Len(l) - 1
         /\ \A j \in 1..(Len(l) - 1) :
              RemoveAt(l, i)[j] = IF j < i THEN l[j] ELSE l[j + 1]
<1> DEFINE b == SubSeq(l, 1, i - 1)
           e == SubSeq(l, i + 1, Len(l))
<1>1. Len(l) \in Nat /\ i \in Int /\ 1 <= i /\ i <= Len(l)
  OBVIOUS
<1>2. RemoveAt(l, i) = b \o e
  BY DEF RemoveAt
<1>3. /\ b \in Seq(E) /\ Len(b) = i - 1
      /\ \A j \in 1..(i - 1) : b[j] = l[j]
  <2>1. \A j \in 1..(i - 1) : l[j] \in E
    BY <1>1
  <2>2. 1 \in Int /\ i - 1 \in Int
    BY <1>1
  <2>3. /\ b \in Seq(E)
        /\ Len(b) = IF 1 <= i - 1 THEN (i - 1) - 1 + 1 ELSE 0
        /\ \A j \in 1..((i - 1) - 1 + 1) : b[j] = l[1 + j - 1]
    BY <2>1, <2>2, SubSeqProperties
  <2> HIDE DEF b
  <2>4. QED
    BY <1>1, <2>3
<1>4. /\ e \in Seq(E) /\ Len(e) = Len(l) - i
      /\ \A j \in 1..(Len(l) - i) : e[j] = l[i + j]
  <2>1. \A j \in (i + 1)..Len(l) : l[j] \in E
    BY <1>1
  <2>2. i + 1 \in Int /\ Len(l) \in Int
    BY <1>1
  <2>3. /\ e \in Seq(E)
        /\ Len(e) = IF i + 1 <= Len(l) THEN Len(l) - (i + 1) + 1 ELSE 0
        /\ \A j \in 1..(Len(l) - (i + 1) + 1) : e[j] = l[(i + 1) + j - 1]
    BY <2>1, <2>2, SubSeqProperties
  <2> HIDE DEF e
  <2>4. Len(l) - (i + 1) + 1 = Len(l) - i
    BY <1>1
  <2>5. \A j \in 1..(Len(l) - i) : (i + 1) + j - 1 = i + j
    BY <1>1
  <2>6. ~(i + 1 <= Len(l)) => Len(l) - i = 0
    <3> DEFINE n == Len(l)
    <3>1. n \in Int /\ i \in Int /\ i <= n
      BY <1>1
    <3> HIDE DEF n
    <3>2. ~(i + 1 <= n) => n - i = 0
      BY <3>1
    <3>3. QED
      BY <3>2 DEF n
  <2>7. QED
    BY <2>3, <2>4, <2>5, <2>6
<1> HIDE DEF b, e
<1>5. /\ b \o e \in Seq(E) /\ Len(b \o e) = Len(b) + Len(e)
      /\ \A j \in 1..(Len(b) + Len(e)) :
           (b \o e)[j] = IF j <= Len(b) THEN b[j] ELSE e[j - Len(b)]
  BY <1>3, <1>4, ConcatProperties
<1>6. Len(b) + Len(e) = Len(l) - 1
  BY <1>1, <1>3, <1>4
<1>7. ASSUME NEW j \in 1..(Len(l) - 1)
      PROVE  (b \o e)[j] = IF j < i THEN l[j] ELSE l[j + 1]
  <2>1. j \in Int /\ 1 <= j /\ j <= Len(l) - 1
    BY <1>1
  <2>2. CASE j < i
    <3>1. j \in 1..(i - 1) /\ j <= Len(b)
      BY <1>1, <1>3, <2>1, <2>2
    <3>2. QED
      BY <1>3, <1>5, <1>6, <2>2, <3>1
  <2>3. CASE ~(j < i)
    <3>1. j - (i - 1) \in 1..(Len(l) - i) /\ ~(j <= Len(b)) /\ i + (j - (i - 1)) = j + 1
      BY <1>1, <1>3, <2>1, <2>3
    <3>2. (b \o e)[j] = e[j - (i - 1)]
      BY <1>3, <1>5, <1>6, <3>1
    <3>3. e[j - (i - 1)] = l[i + (j - (i - 1))]
      BY <1>4, <3>1
    <3>4. QED
      BY <2>3, <3>1, <3>2, <3>3
  <2>4. QED
    BY <2>2, <2>3
<1>8. QED
  BY <1>2, <1>5, <1>6, <1>7

(* What stands at a place leaves the list with it, when it stands once. *)
LEMMA RemoveAtLeaves ==
  ASSUME NEW E, NEW l \in Seq(E), NEW i \in 1..Len(l), IsInjective(l)
  PROVE  /\ IsInjective(RemoveAt(l, i))
         /\ Range(RemoveAt(l, i)) = Range(l) \ {l[i]}
<1> DEFINE r == RemoveAt(l, i)
<1>1. /\ Len(l) \in Nat /\ DOMAIN l = 1..Len(l) /\ i \in Int /\ 1 <= i /\ i <= Len(l)
      /\ r \in Seq(E) /\ Len(r) = Len(l) - 1 /\ DOMAIN r = 1..(Len(l) - 1)
      /\ \A j \in 1..(Len(l) - 1) : r[j] = IF j < i THEN l[j] ELSE l[j + 1]
  BY RemoveAtKeeps, LenProperties
<1> HIDE DEF r
<1>2. ASSUME NEW a \in DOMAIN r, NEW b \in DOMAIN r, r[a] = r[b]
      PROVE  a = b
  <2> DEFINE Old(c) == IF c < i THEN c ELSE c + 1
  <2>1. a \in Int /\ b \in Int /\ Old(a) \in DOMAIN l /\ Old(b) \in DOMAIN l
    BY <1>1
  <2>2. l[Old(a)] = l[Old(b)]
    BY <1>1, <1>2
  <2>3. Old(a) = Old(b)
    <3> HIDE DEF Old
    <3>1. QED
      BY <2>1, <2>2 DEF IsInjective
  <2>4. QED
    BY <1>1, <2>1, <2>3
<1>3. Range(r) \subseteq Range(l) \ {l[i]}
  <2> SUFFICES ASSUME NEW a \in DOMAIN r
               PROVE  \E j \in DOMAIN l : r[a] = l[j] /\ l[j] # l[i]
    BY DEF Range
  <2>1. a \in Int /\ 1 <= a /\ a <= Len(l) - 1
    BY <1>1
  <2>2. CASE a < i
    <3>1. a \in DOMAIN l /\ a # i /\ r[a] = l[a]
      BY <1>1, <2>1, <2>2
    <3>2. QED
      BY <1>1, <3>1 DEF IsInjective
  <2>3. CASE ~(a < i)
    <3>1. a + 1 \in DOMAIN l /\ a + 1 # i /\ r[a] = l[a + 1]
      BY <1>1, <2>1, <2>3
    <3>2. QED
      BY <1>1, <3>1 DEF IsInjective
  <2>4. QED
    BY <2>2, <2>3
<1>4. Range(l) \ {l[i]} \subseteq Range(r)
  <2> SUFFICES ASSUME NEW j \in DOMAIN l, l[j] # l[i]
               PROVE  \E a \in DOMAIN r : r[a] = l[j]
    BY DEF Range
  <2>1. j \in Int /\ 1 <= j /\ j <= Len(l) /\ j # i
    BY <1>1
  <2>2. CASE j < i
    <3>1. j \in DOMAIN r /\ r[j] = l[j]
      BY <1>1, <2>1, <2>2
    <3>2. QED
      BY <3>1
  <2>3. CASE i < j
    <3>1. j - 1 \in DOMAIN r /\ r[j - 1] = l[(j - 1) + 1] /\ (j - 1) + 1 = j
      BY <1>1, <2>1, <2>3
    <3>2. QED
      BY <3>1
  <2>4. QED
    BY <1>1, <2>1, <2>2, <2>3
<1>5. IsInjective(r)
  BY <1>2 DEF IsInjective
<1>6. QED
  BY <1>3, <1>4, <1>5 DEF r

(* An element put before a list. *)
LEMMA InFront ==
  ASSUME NEW E, NEW l \in Seq(E), NEW k \in E
  PROVE  /\ <<k>> \o l \in Seq(E) /\ Len(<<k>> \o l) = Len(l) + 1
         /\ (<<k>> \o l)[1] = k
         /\ \A j \in 1..Len(l) : (<<k>> \o l)[j + 1] = l[j]
         /\ Range(<<k>> \o l) = {k} \cup Range(l)
         /\ (IsInjective(l) /\ k \notin Range(l)) => IsInjective(<<k>> \o l)
<1> DEFINE c == <<k>> \o l
<1>1. <<k>> \in Seq(E) /\ Len(<<k>>) = 1 /\ <<k>>[1] = k /\ Len(l) \in Nat
  BY LenProperties
<1>2. /\ c \in Seq(E) /\ Len(c) = 1 + Len(l)
      /\ \A i \in 1..(1 + Len(l)) : c[i] = IF i <= 1 THEN <<k>>[i] ELSE l[i - 1]
  BY <1>1, ConcatProperties
<1> HIDE DEF c
<1>3. Len(c) = Len(l) + 1 /\ DOMAIN c = 1..(Len(l) + 1) /\ DOMAIN l = 1..Len(l)
  BY <1>1, <1>2, LenProperties
<1>4. c[1] = k
  BY <1>1, <1>2
<1>5. ASSUME NEW j \in 1..Len(l) PROVE c[j + 1] = l[j]
  <2>1. j \in Int /\ j + 1 \in 1..(1 + Len(l)) /\ ~(j + 1 <= 1) /\ (j + 1) - 1 = j
    BY <1>1
  <2>2. QED
    BY <1>2, <2>1
<1>6. \A i \in DOMAIN c : i = 1 \/ (i - 1 \in DOMAIN l /\ i = (i - 1) + 1 /\ c[i] = l[i - 1])
  BY <1>1, <1>2, <1>3
<1>7. 1 \in DOMAIN c /\ \A j \in DOMAIN l : j + 1 \in DOMAIN c
  BY <1>1, <1>3
<1>8. Range(c) = {k} \cup Range(l)
  BY <1>3, <1>4, <1>5, <1>6, <1>7 DEF Range
<1>9. ASSUME IsInjective(l), k \notin Range(l) PROVE IsInjective(c)
  <2> SUFFICES ASSUME NEW a \in DOMAIN c, NEW b \in DOMAIN c, c[a] = c[b] PROVE a = b
    BY DEF IsInjective
  <2>1. \A j \in DOMAIN l : l[j] # k
    BY <1>9 DEF Range
  <2>2. CASE a = 1 \/ b = 1
    BY <1>4, <1>6, <2>1, <2>2
  <2>3. CASE a # 1 /\ b # 1
    <3>1. a - 1 = b - 1
      BY <1>6, <1>9, <2>3 DEF IsInjective
    <3>2. a \in Int /\ b \in Int
      BY <1>3
    <3>3. QED
      BY <3>1, <3>2
  <2>4. QED
    BY <2>2, <2>3
<1>10. QED
  BY <1>2, <1>3, <1>4, <1>5, <1>8, <1>9 DEF c

=============================================================================
