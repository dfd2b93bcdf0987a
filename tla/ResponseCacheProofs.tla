------------------------- MODULE ResponseCacheProofs -------------------------
(***************************************************************************)
(* Proofs about ResponseCache: its three representations stay in step, it  *)
(* holds no more than its budget, what it holds was used last, and it      *)
(* drops no more than it must - for any keys, sizes and budget.            *)
(***************************************************************************)
EXTENDS MCResponseCache, DataLemmas

(* What the handlers keep between calls: no key stands twice in the list,   *)
(* the list names what the map holds, the count is right and within budget. *)
CacheIInv ==
  /\ Cached \subseteq Keys /\ items \in [Cached -> Values]
  /\ ll \in Seq(Keys) /\ IsInjective(ll) /\ Range(ll) = Cached
  /\ bytes = BytesHeld
  /\ bytes \in Nat /\ bytes <= MaxBytes

-----------------------------------------------------------------------------
(* Lists and sums *)

LEMMA ListIsFinite ==
  ASSUME NEW E, NEW l \in Seq(E)
  PROVE  /\ IsFiniteSet(Range(l))
         /\ IsInjective(l) => Len(l) = Cardinality(Range(l))
<1>1. Len(l) \in Nat /\ DOMAIN l = 1..Len(l) /\ l \in [1..Len(l) -> E]
  BY LenProperties
<1>2. IsFiniteSet(1..Len(l)) /\ Cardinality(1..Len(l)) = Len(l)
  <2>1. 1 \in Int /\ Len(l) \in Int
    BY <1>1
  <2>2. /\ IsFiniteSet(1..Len(l))
        /\ Cardinality(1..Len(l)) = IF 1 > Len(l) THEN 0 ELSE Len(l) - 1 + 1
    BY <2>1, FS_Interval
  <2>3. QED
    BY <1>1, <2>2
<1>3. l \in [1..Len(l) -> Range(l)]
  BY <1>1 DEF Range
<1>4. l \in Surjection(1..Len(l), Range(l))
  BY <1>1, <1>3 DEF Surjection, Range
<1>5. IsInjective(l) => l \in Injection(1..Len(l), Range(l))
  BY <1>3 DEF Injection
<1>6. QED
  BY <1>2, <1>4, <1>5, FS_Surjection

(* The keys that stand at the last n places of a list. *)
LastKeys(l, n) == {l[i] : i \in (Len(l) - n + 1)..Len(l)}

LEMMA KeptPart ==
  ASSUME NEW E, NEW l \in Seq(E), IsInjective(l), NEW n \in 0..Len(l)
  PROVE  LET kept == SubSeq(l, 1, Len(l) - n)
         IN  /\ kept \in Seq(E) /\ Len(kept) = Len(l) - n
             /\ \A i \in 1..(Len(l) - n) : kept[i] = l[i]
             /\ IsInjective(kept) /\ Range(kept) = Range(l) \ LastKeys(l, n)
<1> DEFINE kept == SubSeq(l, 1, Len(l) - n)
<1>1. /\ Len(l) \in Nat /\ DOMAIN l = 1..Len(l) /\ n \in Nat /\ n <= Len(l)
      /\ Len(l) - n \in Nat
  BY LenProperties
<1>2. \A i \in 1..(Len(l) - n) : i \in Int /\ 1 <= i /\ i <= Len(l) /\ l[i] \in E
  BY <1>1
<1>3. /\ kept \in Seq(E) /\ Len(kept) = Len(l) - n
      /\ \A i \in 1..(Len(l) - n) : kept[i] = l[i]
  <2>1. 1 \in Int /\ Len(l) - n \in Int
    BY <1>1
  <2>2. /\ kept \in Seq(E)
        /\ Len(kept) = IF 1 <= Len(l) - n THEN (Len(l) - n) - 1 + 1 ELSE 0
        /\ \A i \in 1..((Len(l) - n) - 1 + 1) : kept[i] = l[1 + i - 1]
    BY <1>2, <2>1, SubSeqProperties
  <2> HIDE DEF kept
  <2>3. (Len(l) - n) - 1 + 1 = Len(l) - n /\ \A i \in 1..(Len(l) - n) : 1 + i - 1 = i
    BY <1>1
  <2>4. Len(kept) = Len(l) - n
    <3> DEFINE d == Len(l) - n
    <3>1. d \in Nat /\ d - 1 + 1 = d
      BY <1>1
    <3>2. Len(kept) = IF 1 <= d THEN d - 1 + 1 ELSE 0
      BY <2>2
    <3> HIDE DEF d
    <3>3. ~(1 <= d) => d = 0
      BY <3>1
    <3>4. Len(kept) = d
      BY <3>1, <3>2, <3>3
    <3>5. QED
      BY <3>4 DEF d
  <2>5. \A i \in 1..(Len(l) - n) : kept[i] = l[i]
    BY <2>2, <2>3
  <2>6. QED
    BY <2>2, <2>4, <2>5
<1> HIDE DEF kept
<1>4. DOMAIN kept = 1..(Len(l) - n)
  BY <1>3, LenProperties
<1>5. IsInjective(kept)
  BY <1>1, <1>2, <1>3, <1>4 DEF IsInjective
<1>6. \A i \in DOMAIN l : i \in 1..(Len(l) - n) \/ i \in (Len(l) - n + 1)..Len(l)
  BY <1>1
<1>7. \A i \in (Len(l) - n + 1)..Len(l) : i \in DOMAIN l /\ i \notin 1..(Len(l) - n)
  BY <1>1
<1>8. \A i \in 1..(Len(l) - n) : i \in DOMAIN l
  BY <1>1
<1>9. Range(kept) \subseteq Range(l) \ LastKeys(l, n)
  <2> SUFFICES ASSUME NEW i \in 1..(Len(l) - n)
               PROVE  l[i] \in Range(l) \ LastKeys(l, n)
    BY <1>3, <1>4 DEF Range
  <2>1. \A j \in (Len(l) - n + 1)..Len(l) : l[i] # l[j]
    BY <1>7, <1>8 DEF IsInjective
  <2>2. QED
    BY <1>8, <2>1 DEF Range, LastKeys
<1>10. Range(l) \ LastKeys(l, n) \subseteq Range(kept)
  BY <1>3, <1>4, <1>6 DEF Range, LastKeys
<1>11. QED
  BY <1>3, <1>5, <1>9, <1>10 DEF kept

(* TailBytes counts the sizes of the keys at the end of the list. *)
LEMMA TailIs ==
  ASSUME NEW E, NEW l \in Seq(E), IsInjective(l), NEW n \in 0..Len(l),
         NEW m, DOMAIN m = Range(l), \A k \in Range(l) : m[k].size \in Nat
  PROVE  TailBytes(m, l, n) = SumFunctionOnSet(SizesOf(m), LastKeys(l, n))
<1> DEFINE I == (Len(l) - n + 1)..Len(l)
           h == [i \in DOMAIN l |-> m[l[i]].size]
<1>1. Len(l) \in Nat /\ DOMAIN l = 1..Len(l) /\ n \in Nat /\ n <= Len(l)
  BY LenProperties
<1>2. IsFiniteSet(I)
  <2>1. Len(l) - n + 1 \in Int /\ Len(l) \in Int
    BY <1>1
  <2>2. QED
    BY <2>1, FS_Interval
<1>3. I \subseteq DOMAIN l
  BY <1>1
<1>4. \A i \in DOMAIN l : l[i] \in DOMAIN m
  BY DEF Range
<1>5. \A i \in DOMAIN l : h[i] = SizesOf(m)[l[i]] /\ h[i] \in Nat
  BY <1>4 DEF SizesOf
<1>6. \A i, j \in I : l[i] = l[j] => i = j
  BY <1>3 DEF IsInjective
<1>7. TailBytes(m, l, n) = SumFunctionOnSet(h, I)
  BY DEF TailBytes
<1>8. LastKeys(l, n) = {l[i] : i \in I}
  BY DEF LastKeys
<1> HIDE DEF I, h
<1>9. \A i \in I : h[i] = SizesOf(m)[l[i]] /\ h[i] \in Nat
  BY <1>3, <1>5
<1>10. SumFunctionOnSet(h, I) = SumFunctionOnSet(SizesOf(m), {l[i] : i \in I})
  BY <1>2, <1>6, <1>9, SumOver
<1>11. QED
  BY <1>7, <1>8, <1>10

(* One more key at the end of the list. *)
LEMMA TailStep ==
  ASSUME NEW E, NEW l \in Seq(E), NEW n \in 0..Len(l), n # 0,
         NEW m, DOMAIN m = Range(l), \A k \in Range(l) : m[k].size \in Nat
  PROVE  TailBytes(m, l, n) = m[l[Len(l) - n + 1]].size + TailBytes(m, l, n - 1)
<1> DEFINE a == Len(l) - n + 1
           I == (Len(l) - (n - 1) + 1)..Len(l)
           h == [i \in DOMAIN l |-> m[l[i]].size]
<1>1. Len(l) \in Nat /\ DOMAIN l = 1..Len(l) /\ n \in Nat /\ n >= 1 /\ n <= Len(l)
  BY LenProperties
<1>2. IsFiniteSet(I)
  <2>1. Len(l) - (n - 1) + 1 \in Int /\ Len(l) \in Int
    BY <1>1
  <2>2. QED
    BY <2>1, FS_Interval
<1>3. I \cup {a} \subseteq DOMAIN l /\ a \notin I /\ I \cup {a} = (Len(l) - n + 1)..Len(l)
  BY <1>1
<1>4. \A i \in DOMAIN l : h[i] = m[l[i]].size /\ h[i] \in Nat
  BY DEF Range
<1>5. /\ TailBytes(m, l, n) = SumFunctionOnSet(h, I \cup {a})
      /\ TailBytes(m, l, n - 1) = SumFunctionOnSet(h, I)
  BY <1>3 DEF TailBytes
<1> HIDE DEF I, h, a
<1>6. \A i \in I \cup {a} : h[i] \in Nat
  BY <1>3, <1>4
<1>7. SumFunctionOnSet(h, I \cup {a}) = h[a] + SumFunctionOnSet(h, I)
  BY <1>2, <1>3, <1>6, SumAdd
<1>8. h[a] = m[l[a]].size
  BY <1>3, <1>4
<1>9. QED
  BY <1>5, <1>7, <1>8 DEF a

-----------------------------------------------------------------------------
(* Moving to the front *)

LEMMA FrontedKeeps ==
  ASSUME NEW list \in Seq(Keys), IsInjective(list), NEW k \in Keys
  PROVE  LET front == Fronted(list, k)
         IN  /\ front \in Seq(Keys) /\ IsInjective(front)
             /\ Range(front) = {k} \cup Range(list)
             /\ front[1] = k /\ Len(front) \in Nat /\ Len(front) >= 1
<1> DEFINE p == PositionOf(list, k)
           r == IF Contains(list, k) THEN RemoveAt(list, p) ELSE list
<1>1. Len(list) \in Nat /\ DOMAIN list = 1..Len(list)
  BY LenProperties
<1>2. Contains(list, k) <=> k \in Range(list)
  BY <1>1 DEF Contains, Range
<1>3. Contains(list, k) => p \in 1..Len(list) /\ list[p] = k
  BY <1>1 DEF Contains, PositionOf
<1>4. Fronted(list, k) = <<k>> \o r
  BY DEF Fronted
<1> HIDE DEF p
<1>5. r \in Seq(Keys) /\ IsInjective(r) /\ Range(r) = Range(list) \ {k}
  <2>1. CASE Contains(list, k)
    <3>1. p \in 1..Len(list) /\ list[p] = k
      BY <1>3, <2>1
    <3>2. RemoveAt(list, p) \in Seq(Keys)
      BY <3>1, RemoveAtKeeps
    <3>3. IsInjective(RemoveAt(list, p)) /\ Range(RemoveAt(list, p)) = Range(list) \ {list[p]}
      BY <3>1, RemoveAtLeaves
    <3>4. QED
      BY <2>1, <3>1, <3>2, <3>3
  <2>2. CASE ~Contains(list, k)
    BY <1>2, <2>2
  <2>3. QED
    BY <2>1, <2>2
<1> HIDE DEF r
<1>6. /\ <<k>> \o r \in Seq(Keys) /\ Len(<<k>> \o r) = Len(r) + 1
      /\ (<<k>> \o r)[1] = k /\ Range(<<k>> \o r) = {k} \cup Range(r)
      /\ IsInjective(<<k>> \o r)
  BY <1>5, InFront
<1>7. Len(r) \in Nat
  BY <1>5, LenProperties
<1>8. {k} \cup (Range(list) \ {k}) = {k} \cup Range(list)
  OBVIOUS
<1>9. Len(r) + 1 \in Nat /\ Len(r) + 1 >= 1
  BY <1>7
<1>10. QED
  BY <1>4, <1>5, <1>6, <1>8, <1>9

-----------------------------------------------------------------------------
(* Storing *)

Stored(k, v) == [x \in Cached \cup {k} |-> IF x = k THEN v ELSE items[x]]

(* The corrected count is the sum of what is stored before anything goes.   *)
LEMMA CountIsCorrected ==
  ASSUME CacheIInv, NEW k \in Keys, NEW v \in Values
  PROVE  /\ bytes + v.size - Replaced(k)
              = SumFunctionOnSet(SizesOf(Stored(k, v)), Cached \cup {k})
         /\ bytes + v.size - Replaced(k) \in Nat
<1> DEFINE C == Cached
           f == SizesOf(Stored(k, v))
           g == SizesOf(items)
           F(S) == SumFunctionOnSet(f, S)
           G(S) == SumFunctionOnSet(g, S)
           rest == C \ {k}
<1>1. IsFiniteSet(C) /\ IsFiniteSet(C \cup {k}) /\ IsFiniteSet(rest)
  BY ListIsFinite, FS_AddElement, FS_RemoveElement DEF CacheIInv
<1>2. \A x \in C : g[x] = items[x].size /\ g[x] \in Nat
  BY CacheAssumption DEF CacheIInv, SizesOf, Cached
<1>3. \A x \in C \cup {k} : f[x] = (IF x = k THEN v ELSE items[x]).size
  BY DEF SizesOf, Stored
<1>4. f[k] = v.size /\ f[k] \in Nat
  BY <1>3, CacheAssumption
<1>5. \A x \in rest : f[x] = g[x] /\ f[x] \in Nat
  BY <1>2, <1>3
<1>6. bytes = G(C) /\ bytes \in Nat
  BY DEF CacheIInv, BytesHeld, SumFunction, SizesOf, Cached
<1>7. Replaced(k) = IF k \in C THEN g[k] ELSE 0
  BY <1>2 DEF Replaced
<1> HIDE DEF f, g
<1>8. F(C \cup {k}) = f[k] + F(rest)
  <2>1. \A x \in C \cup {k} : f[x] \in Nat
    BY <1>4, <1>5
  <2>2. F(C \cup {k}) = f[k] + F((C \cup {k}) \ {k})
    BY <1>1, <2>1, SumSplit
  <2>3. (C \cup {k}) \ {k} = rest
    OBVIOUS
  <2>4. QED
    BY <2>2, <2>3
<1>9. F(rest) = G(rest)
  BY <1>1, <1>5, SumSame
<1>10. G(rest) \in Nat
  BY <1>1, <1>2, SumNat
<1>11. G(C) = Replaced(k) + G(rest) /\ Replaced(k) \in Nat
  <2>1. CASE k \in C
    <3>1. G(C) = g[k] + G(C \ {k})
      BY <1>1, <1>2, <2>1, SumSplit
    <3>2. QED
      BY <1>2, <1>7, <2>1, <3>1
  <2>2. CASE k \notin C
    <3>1. rest = C /\ Replaced(k) = 0
      BY <1>7, <2>2
    <3>2. G(C) \in Nat
      BY <1>10, <3>1
    <3>3. QED
      BY <3>1, <3>2
  <2>3. QED
    BY <2>1, <2>2
<1> HIDE DEF F, G, rest
<1>12. bytes + v.size - Replaced(k) = v.size + G(rest)
  BY <1>4, <1>6, <1>10, <1>11
<1>13. v.size + G(rest) = F(C \cup {k}) /\ v.size + G(rest) \in Nat
  BY <1>4, <1>8, <1>9, <1>10
<1>14. QED
  BY <1>12, <1>13 DEF F, f

(* How far the eviction loop goes: it ends within budget or with nothing    *)
(* left, and one round less would have left too much.                       *)
LEMMA EvictionsAre ==
  ASSUME NEW E, NEW l \in Seq(E), NEW m, NEW total
  PROVE  LET n == Evictions(m, l, total)
         IN  /\ n \in 0..Len(l)
             /\ n = Len(l) \/ ~OverBudget(total - TailBytes(m, l, n))
             /\ \A j \in 0..Len(l) : j < n => /\ j # Len(l)
                                              /\ OverBudget(total - TailBytes(m, l, j))
<1> DEFINE S == {j \in 0..Len(l) : j = Len(l) \/ ~OverBudget(total - TailBytes(m, l, j))}
<1>1. Len(l) \in Nat
  BY LenProperties
<1>2. S \in SUBSET Nat /\ Len(l) \in S
  BY <1>1
<1>3. Evictions(m, l, total) = Min(S)
  BY DEF Evictions
<1> HIDE DEF S
<1>4. Min(S) \in S /\ \A j \in S : Min(S) <= j
  BY <1>2, Least
<1>5. \A j \in 0..Len(l) : j < Min(S) => j \notin S
  <2> DEFINE least == Min(S)
  <2>1. least \in Nat /\ \A j \in S : least <= j
    BY <1>2, <1>4
  <2> HIDE DEF least
  <2>2. \A j \in 0..Len(l) : j < least => j \notin S
    BY <1>1, <2>1
  <2>3. QED
    BY <2>2 DEF least
<1>6. QED
  BY <1>3, <1>4, <1>5 DEF S

(* Storing keeps the invariant; what is cached then was cached before or is *)
(* the new entry; the list is the beginning of the old one with the key in  *)
(* front; and the last key dropped, if any, did not fit.                    *)
LEMMA StoreDoes ==
  ASSUME CacheIInv, NEW k \in Keys, NEW v \in Values, ~Oversize(v), Store(k, v)
  PROVE  /\ CacheIInv'
         /\ \A x \in Cached' : x \in Cached \cup {k} /\ items'[x] = Stored(k, v)[x]
         /\ \E n \in 0..Len(Fronted(ll, k)) :
              LET front == Fronted(ll, k)
                  last  == front[Len(front) - n + 1]
              IN  /\ ll' = SubSeq(front, 1, Len(front) - n)
                  /\ n # 0 => bytes' + Stored(k, v)[last].size > MaxBytes
<1> DEFINE front == Fronted(ll, k)
           stored == Stored(k, v)
           total == bytes + v.size - Replaced(k)
           n == Evictions(stored, front, total)
           kept == SubSeq(front, 1, Len(front) - n)
           f == SizesOf(stored)
           F(S) == SumFunctionOnSet(f, S)
<1>1. ll' = kept /\ items' = Restrict(stored, Range(kept))
      /\ bytes' = total - TailBytes(stored, front, n)
  BY DEF Store, Stored, MoveToFront
<1>2. /\ front \in Seq(Keys) /\ IsInjective(front) /\ Range(front) = Cached \cup {k}
      /\ Len(front) \in Nat /\ Len(front) >= 1
  BY FrontedKeeps DEF CacheIInv
<1>3. /\ DOMAIN stored = Range(front)
      /\ \A x \in Range(front) : stored[x] \in Values /\ stored[x].size \in Nat
  <2>1. DOMAIN stored = Range(front)
    BY <1>2 DEF Stored
  <2>2. \A x \in Cached \cup {k} : stored[x] \in Values
    BY DEF Stored, CacheIInv
  <2>3. QED
    BY <1>2, <2>1, <2>2, CacheAssumption
<1>4. total = F(Range(front)) /\ total \in Nat
  BY <1>2, CountIsCorrected
<1>5. IsFiniteSet(Range(front)) /\ \A x \in Range(front) : f[x] = stored[x].size /\ f[x] \in Nat
  BY <1>2, <1>3, ListIsFinite DEF SizesOf
<1> HIDE DEF front, stored, total, f
<1>6. /\ n \in 0..Len(front)
      /\ n = Len(front) \/ ~OverBudget(total - TailBytes(stored, front, n))
      /\ \A j \in 0..Len(front) : j < n => /\ j # Len(front)
                                           /\ OverBudget(total - TailBytes(stored, front, j))
  BY <1>2, EvictionsAre
<1> HIDE DEF n
<1>7. /\ kept \in Seq(Keys) /\ Len(kept) = Len(front) - n
      /\ IsInjective(kept) /\ Range(kept) = Range(front) \ LastKeys(front, n)
  BY <1>2, <1>6, KeptPart
<1> HIDE DEF kept
<1>8. \A j \in 0..Len(front) : TailBytes(stored, front, j) = F(LastKeys(front, j))
  BY <1>2, <1>3, TailIs DEF f
<1>9. LastKeys(front, n) \subseteq Range(front)
  <2>1. \A i \in (Len(front) - n + 1)..Len(front) : i \in DOMAIN front
    BY <1>2, <1>6, LenProperties
  <2>2. QED
    BY <2>1 DEF LastKeys, Range
<1>10. /\ F(Range(front)) = F(LastKeys(front, n)) + F(Range(kept))
       /\ F(LastKeys(front, n)) \in Nat /\ F(Range(kept)) \in Nat
  <2>1. IsFiniteSet(LastKeys(front, n)) /\ IsFiniteSet(Range(kept)) /\ Range(kept) \subseteq Range(front)
    BY <1>5, <1>7, <1>9, FS_Subset
  <2>2. F(LastKeys(front, n)) \in Nat /\ F(Range(kept)) \in Nat
    BY <1>5, <1>9, <2>1, SumNat
  <2>3. F(Range(front)) = F(LastKeys(front, n)) + F(Range(front) \ LastKeys(front, n))
    BY <1>5, <1>9, SumParts
  <2>4. QED
    BY <1>7, <2>2, <2>3
<1>11. bytes' = F(Range(kept)) /\ bytes' \in Nat
  <2>1. bytes' = total - F(LastKeys(front, n))
    BY <1>1, <1>6, <1>8
  <2> HIDE DEF F
  <2>2. QED
    BY <1>4, <1>10, <2>1
<1>12. /\ DOMAIN items' = Range(kept)
       /\ \A x \in Range(kept) : items'[x] = stored[x] /\ x \in Range(front)
  BY <1>1, <1>7 DEF Restrict
<1>13. Cached' = Range(kept) /\ items' \in [Range(kept) -> Values] /\ Range(kept) \subseteq Keys
  <2>1. items' = [x \in Range(kept) |-> stored[x]]
    BY <1>1 DEF Restrict
  <2>2. items' \in [Range(kept) -> Values]
    BY <1>3, <1>12, <2>1
  <2>3. Range(kept) \subseteq Keys
    BY <1>7, RangeOfSeq
  <2>4. QED
    BY <1>12, <2>2, <2>3 DEF Cached
<1>14. BytesHeld' = bytes'
  <2> DEFINE h == SizesOf(items')
  <2>1. DOMAIN h = Range(kept) /\ \A x \in Range(kept) : h[x] = stored[x].size
    BY <1>12 DEF SizesOf
  <2>2. BytesHeld' = SumFunctionOnSet(h, DOMAIN h)
    BY DEF BytesHeld, SumFunction, SizesOf
  <2> HIDE DEF h
  <2>3. IsFiniteSet(Range(kept))
    BY <1>7, ListIsFinite
  <2>4. \A x \in Range(kept) : f[x] = h[x] /\ f[x] \in Nat
    BY <1>5, <1>12, <2>1
  <2>5. SumFunctionOnSet(f, Range(kept)) = SumFunctionOnSet(h, Range(kept))
    BY <2>3, <2>4, SumSame
  <2>6. QED
    BY <1>11, <2>1, <2>2, <2>5
<1>15. bytes' <= MaxBytes
  <2>1. CASE n = Len(front)
    <3>1. Len(kept) = 0
      BY <1>2, <1>7, <2>1
    <3>2. Range(kept) = {}
      BY <1>7, <3>1, LenProperties DEF Range
    <3>3. F({}) = 0
      BY SumEmpty
    <3>4. QED
      BY <1>11, <3>2, <3>3, CacheAssumption
  <2>2. CASE n # Len(front)
    BY <1>1, <1>6, <1>11, <2>2, CacheAssumption DEF OverBudget
  <2>3. QED
    BY <2>1, <2>2
<1>16. ASSUME n # 0 PROVE bytes' + stored[front[Len(front) - n + 1]].size > MaxBytes
  <2> DEFINE last == stored[front[Len(front) - n + 1]].size
             before == TailBytes(stored, front, n - 1)
  <2>1. n \in Int /\ n - 1 \in 0..Len(front) /\ n - 1 < n
    BY <1>2, <1>6, <1>16
  <2>2. OverBudget(total - before)
    BY <1>6, <2>1
  <2>3. TailBytes(stored, front, n) = last + before
    BY <1>2, <1>3, <1>6, <1>16, TailStep
  <2>4. last \in Nat
    <3>1. Len(front) - n + 1 \in DOMAIN front
      BY <1>2, <1>6, <1>16, LenProperties
    <3>2. QED
      BY <1>3, <3>1 DEF Range
  <2>5. before \in Nat
    <3>1. LastKeys(front, n - 1) \subseteq Range(front)
      <4>1. \A i \in (Len(front) - (n - 1) + 1)..Len(front) : i \in DOMAIN front
        BY <1>2, <2>1, LenProperties
      <4>2. QED
        BY <4>1 DEF LastKeys, Range
    <3>2. IsFiniteSet(LastKeys(front, n - 1))
      BY <1>5, <3>1, FS_Subset
    <3>3. F(LastKeys(front, n - 1)) \in Nat
      BY <1>5, <3>1, <3>2, SumNat
    <3>4. QED
      BY <1>8, <2>1, <3>3
  <2> HIDE DEF last, before
  <2>6. bytes' = total - (last + before)
    BY <1>1, <2>3
  <2>7. total - before > MaxBytes
    BY <2>2 DEF OverBudget
  <2>8. bytes' + last > MaxBytes
    BY <1>4, <2>4, <2>5, <2>6, <2>7, CacheAssumption
  <2>9. QED
    BY <2>8 DEF last
<1>17. CacheIInv'
  BY <1>1, <1>7, <1>11, <1>13, <1>14, <1>15 DEF CacheIInv
<1>18. QED
  <2>1. n \in 0..Len(front) /\ ll' = SubSeq(front, 1, Len(front) - n)
    BY <1>1, <1>6 DEF kept
  <2>2. \A x \in Cached' : x \in Cached \cup {k} /\ items'[x] = stored[x]
    BY <1>2, <1>12, <1>13
  <2>3. QED
    BY <1>16, <1>17, <2>1, <2>2 DEF front, stored

-----------------------------------------------------------------------------
(* The cache *)

LEMMA InitHolds == CacheInit => CacheIInv /\ Cached = {}
<1> SUFFICES ASSUME CacheInit PROVE CacheIInv /\ Cached = {}
  OBVIOUS
<1>1. items = <<>> /\ ll = <<>> /\ bytes = 0
  BY DEF CacheInit
<1>2. ll \in Seq(Keys) /\ DOMAIN <<>> = {} /\ Len(ll) = 0
  BY <1>1, EmptySeq, LenProperties
<1>3. Cached = {} /\ Range(ll) = {} /\ IsInjective(ll)
  BY <1>1, <1>2 DEF Cached, Range, IsInjective
<1>4. items \in [Cached -> Values]
  <2>1. items = [x \in {} |-> items[x]]
    BY <1>1
  <2>2. QED
    BY <1>3, <2>1
<1>5. BytesHeld = 0
  <2>1. DOMAIN SizesOf(items) = {}
    BY <1>3 DEF SizesOf, Cached
  <2>2. QED
    BY <2>1, SumEmpty DEF BytesHeld, SumFunction
<1>6. QED
  BY <1>1, <1>2, <1>3, <1>4, <1>5, CacheAssumption DEF CacheIInv

LEMMA HitKeeps ==
  ASSUME CacheIInv, NEW k \in Keys, Hit(k)
  PROVE  CacheIInv'
<1>1. k \in Cached /\ ll' = Fronted(ll, k) /\ items' = items /\ bytes' = bytes
  BY DEF Hit, MoveToFront
<1>2. ll' \in Seq(Keys) /\ IsInjective(ll') /\ Range(ll') = {k} \cup Range(ll)
  BY <1>1, FrontedKeeps DEF CacheIInv
<1>3. Cached' = Cached /\ BytesHeld' = BytesHeld
  BY <1>1 DEF Cached, BytesHeld
<1>4. QED
  BY <1>1, <1>2, <1>3 DEF CacheIInv

LEMMA UnchangedKeeps ==
  ASSUME CacheIInv, UNCHANGED cacheVars
  PROVE  CacheIInv'
BY DEF cacheVars, CacheIInv, Cached, BytesHeld

(* What the cache keeps between calls, after any number of them. *)
THEOREM CacheInvariance == CacheSpec => []CacheIInv
<1>1. CacheInit => CacheIInv
  BY InitHolds
<1>2. CacheIInv /\ [CacheNext]_cacheVars => CacheIInv'
  <2> SUFFICES ASSUME CacheIInv, [CacheNext]_cacheVars PROVE CacheIInv'
    OBVIOUS
  <2>1. ASSUME NEW k \in Keys, Get(k) PROVE CacheIInv'
    BY <2>1, HitKeeps, UnchangedKeeps DEF Get, Miss
  <2>2. ASSUME NEW k \in Keys, NEW v \in Values, Put(k, v) PROVE CacheIInv'
    BY <2>2, StoreDoes, UnchangedKeeps DEF Put
  <2>3. QED
    BY <2>1, <2>2, UnchangedKeeps DEF CacheNext
<1>3. QED
  BY <1>1, <1>2, PTL DEF CacheSpec

(* The shapes of map, list and running count. *)
THEOREM CacheTypes == CacheSpec => []CacheTypeOK
<1>1. CacheIInv => CacheTypeOK
  BY DEF CacheIInv, CacheTypeOK
<1>2. QED
  BY <1>1, CacheInvariance, PTL

(* Map, list and running count tell the same story after any sequence of    *)
(* gets and puts, for any budget and any sizes, empty responses included.   *)
THEOREM CacheIsConsistent == CacheSpec => []Consistent
<1>1. CacheIInv => Consistent
  BY ListIsFinite DEF CacheIInv, Consistent
<1>2. QED
  BY <1>1, CacheInvariance, PTL

(* The bytes held never exceed the budget given to NewCache. *)
THEOREM BudgetIsKept == CacheSpec => []WithinBudget
<1>1. CacheIInv => WithinBudget
  BY DEF CacheIInv, WithinBudget
<1>2. QED
  BY <1>1, CacheInvariance, PTL

-----------------------------------------------------------------------------
(* What was used last *)

(* One list is the beginning of another. *)
Leads(a, b) == Len(a) <= Len(b) /\ \A i \in 1..Len(a) : a[i] = b[i]

(* The history names no key twice and begins with the cache's list. *)
HistoryIInv ==
  /\ CacheIInv
  /\ used \in Seq(Keys) /\ IsInjective(used)
  /\ Leads(ll, used)

(* Taking the same key to the front of both keeps one the beginning of the  *)
(* other: it stands at the same place in both, or beyond the shorter one.   *)
LEMMA FrontedLeads ==
  ASSUME NEW a \in Seq(Keys), NEW b \in Seq(Keys), IsInjective(a), IsInjective(b),
         Leads(a, b), NEW k \in Keys
  PROVE  Leads(Fronted(a, k), Fronted(b, k))
<1> DEFINE Rest(list) == IF Contains(list, k) THEN RemoveAt(list, PositionOf(list, k)) ELSE list
<1>1. /\ Len(a) \in Nat /\ DOMAIN a = 1..Len(a)
      /\ Len(b) \in Nat /\ DOMAIN b = 1..Len(b)
  BY LenProperties
<1>2. ASSUME NEW list \in Seq(Keys), Contains(list, k)
      PROVE  PositionOf(list, k) \in 1..Len(list) /\ list[PositionOf(list, k)] = k
  <2>1. \E i \in DOMAIN list : list[i] = k
    BY <1>2, LenProperties DEF Contains
  <2>2. QED
    BY <2>1, LenProperties DEF PositionOf
<1>3. Rest(a) \in Seq(Keys) /\ Rest(b) \in Seq(Keys)
  BY <1>2, RemoveAtKeeps
<1>4. Leads(Rest(a), Rest(b))
  <2>1. CASE Contains(a, k)
    <3> DEFINE p == PositionOf(a, k)
               q == PositionOf(b, k)
    <3>1. p \in 1..Len(a) /\ a[p] = k
      BY <1>2, <2>1
    <3>2. p \in 1..Len(b) /\ b[p] = k
      BY <1>1, <3>1 DEF Leads
    <3>3. Contains(b, k)
      BY <3>2 DEF Contains
    <3>4. q \in 1..Len(b) /\ b[q] = k
      BY <1>2, <3>3
    <3> HIDE DEF p, q
    <3>5. q = p
      BY <1>1, <3>2, <3>4 DEF IsInjective
    <3>6. Rest(a) = RemoveAt(a, p) /\ Rest(b) = RemoveAt(b, p)
      BY <2>1, <3>3, <3>5 DEF p, q
    <3> HIDE DEF Rest
    <3>7. /\ Len(RemoveAt(a, p)) = Len(a) - 1
          /\ \A j \in 1..(Len(a) - 1) : RemoveAt(a, p)[j] = IF j < p THEN a[j] ELSE a[j + 1]
      BY <3>1, RemoveAtKeeps
    <3>8. /\ Len(RemoveAt(b, p)) = Len(b) - 1
          /\ \A j \in 1..(Len(b) - 1) : RemoveAt(b, p)[j] = IF j < p THEN b[j] ELSE b[j + 1]
      BY <3>2, RemoveAtKeeps
    <3>9. Len(a) <= Len(b) /\ \A j \in 1..Len(a) : a[j] = b[j]
      BY DEF Leads
    <3>10. \A j \in 1..(Len(a) - 1) : j \in 1..(Len(b) - 1) /\ j \in 1..Len(a) /\ j + 1 \in 1..Len(a)
      BY <1>1, <3>9
    <3>11. \A j \in 1..(Len(a) - 1) : RemoveAt(a, p)[j] = RemoveAt(b, p)[j]
      BY <3>7, <3>8, <3>9, <3>10
    <3>12. Len(a) - 1 <= Len(b) - 1
      BY <1>1, <3>9
    <3>13. QED
      BY <3>6, <3>7, <3>8, <3>11, <3>12 DEF Leads
  <2>2. CASE ~Contains(a, k) /\ Contains(b, k)
    <3> DEFINE q == PositionOf(b, k)
    <3>1. q \in 1..Len(b) /\ b[q] = k
      BY <1>2, <2>2
    <3> HIDE DEF q
    <3>2. ~(q \in 1..Len(a))
      BY <2>2, <3>1 DEF Contains, Leads
    <3>3. q \in Int /\ q > Len(a) /\ q <= Len(b)
      BY <1>1, <3>1, <3>2
    <3>4. Rest(a) = a /\ Rest(b) = RemoveAt(b, q)
      BY <2>2 DEF q
    <3> HIDE DEF Rest
    <3>5. /\ Len(RemoveAt(b, q)) = Len(b) - 1
          /\ \A j \in 1..(Len(b) - 1) : RemoveAt(b, q)[j] = IF j < q THEN b[j] ELSE b[j + 1]
      BY <3>1, RemoveAtKeeps
    <3>6. \A j \in 1..Len(a) : j \in 1..(Len(b) - 1) /\ j < q
      BY <1>1, <3>3
    <3>7. \A j \in 1..Len(a) : RemoveAt(b, q)[j] = a[j]
      BY <3>5, <3>6 DEF Leads
    <3>8. Len(a) <= Len(b) - 1
      BY <1>1, <3>3
    <3>9. QED
      BY <3>4, <3>5, <3>7, <3>8 DEF Leads
  <2>3. CASE ~Contains(a, k) /\ ~Contains(b, k)
    BY <2>3
  <2>4. QED
    BY <2>1, <2>2, <2>3
<1>5. Fronted(a, k) = <<k>> \o Rest(a) /\ Fronted(b, k) = <<k>> \o Rest(b)
  BY DEF Fronted
<1> HIDE DEF Rest
<1> DEFINE r == Rest(a)
           s == Rest(b)
<1>6. Len(r) \in Nat /\ Len(s) \in Nat /\ Len(r) <= Len(s) /\ \A i \in 1..Len(r) : r[i] = s[i]
  BY <1>3, <1>4, LenProperties DEF Leads
<1>7. /\ Len(<<k>> \o r) = Len(r) + 1 /\ (<<k>> \o r)[1] = k
      /\ \A j \in 1..Len(r) : (<<k>> \o r)[j + 1] = r[j]
  BY <1>3, InFront
<1>8. /\ Len(<<k>> \o s) = Len(s) + 1 /\ (<<k>> \o s)[1] = k
      /\ \A j \in 1..Len(s) : (<<k>> \o s)[j + 1] = s[j]
  BY <1>3, InFront
<1> HIDE DEF r, s
<1>9. ASSUME NEW i \in 1..(Len(r) + 1) PROVE (<<k>> \o r)[i] = (<<k>> \o s)[i]
  <2>1. CASE i = 1
    BY <1>7, <1>8, <2>1
  <2>2. CASE i # 1
    <3>1. i - 1 \in 1..Len(r) /\ i - 1 \in 1..Len(s) /\ (i - 1) + 1 = i
      BY <1>6, <2>2
    <3>2. (<<k>> \o r)[(i - 1) + 1] = r[i - 1] /\ (<<k>> \o s)[(i - 1) + 1] = s[i - 1]
      BY <1>7, <1>8, <3>1
    <3>3. QED
      BY <1>6, <3>1, <3>2
  <2>3. QED
    BY <2>1, <2>2
<1>10. Len(r) + 1 <= Len(s) + 1
  BY <1>6
<1>11. Leads(<<k>> \o r, <<k>> \o s)
  BY <1>7, <1>8, <1>9, <1>10 DEF Leads
<1>12. QED
  BY <1>5, <1>11 DEF r, s

LEMMA TouchKeeps ==
  ASSUME HistoryIInv, NEW k \in Keys, Touch(k)
  PROVE  /\ used' \in Seq(Keys) /\ IsInjective(used')
         /\ Leads(Fronted(ll, k), used')
BY FrontedKeeps, FrontedLeads DEF HistoryIInv, CacheIInv, Touch

(* What a Put drops is not missed: see DropsNoMoreThanNeeded. *)
LEMMA StoreDropsNoMore ==
  ASSUME HistoryIInv, NEW k \in Keys, NEW v \in Values, ~Oversize(v), Store(k, v), Touch(k)
  PROVE  /\ HistoryIInv'
         /\ (Len(ll') < Len(used') /\ used'[Len(ll') + 1] \in Cached)
              => bytes' + items[used'[Len(ll') + 1]].size > MaxBytes
<1> DEFINE front == Fronted(ll, k)
<1>1. CacheIInv /\ CacheIInv'
  BY StoreDoes DEF HistoryIInv
<1>2. PICK n \in 0..Len(front) :
        /\ ll' = SubSeq(front, 1, Len(front) - n)
        /\ n # 0 => bytes' + Stored(k, v)[front[Len(front) - n + 1]].size > MaxBytes
  BY StoreDoes DEF HistoryIInv
<1>3. /\ front \in Seq(Keys) /\ IsInjective(front) /\ Range(front) = {k} \cup Cached
      /\ front[1] = k /\ Len(front) \in Nat /\ Len(front) >= 1 /\ DOMAIN front = 1..Len(front)
  BY <1>1, FrontedKeeps, LenProperties DEF CacheIInv
<1>4. /\ used' \in Seq(Keys) /\ IsInjective(used') /\ Leads(front, used')
      /\ Len(used') \in Nat /\ DOMAIN used' = 1..Len(used')
  BY TouchKeeps, LenProperties
<1> HIDE DEF front
<1>5. /\ Len(ll') = Len(front) - n
      /\ \A i \in 1..(Len(front) - n) : ll'[i] = front[i]
  BY <1>2, <1>3, KeptPart
<1>6. Leads(ll', used')
  <2>1. Len(front) <= Len(used') /\ \A i \in 1..Len(front) : front[i] = used'[i]
    BY <1>4 DEF Leads
  <2>2. Len(front) - n <= Len(used') /\ \A i \in 1..(Len(front) - n) : i \in 1..Len(front)
    BY <1>2, <1>3, <1>4, <2>1
  <2>3. QED
    BY <1>5, <2>1, <2>2 DEF Leads
<1>7. HistoryIInv'
  BY <1>1, <1>4, <1>6 DEF HistoryIInv
<1>8. ASSUME Len(ll') < Len(used'), used'[Len(ll') + 1] \in Cached
      PROVE  bytes' + items[used'[Len(ll') + 1]].size > MaxBytes
  <2> DEFINE p == Len(front) - n + 1
  <2>1. Len(ll') + 1 = p /\ p \in Int /\ p >= 1 /\ p <= Len(front) + 1
    BY <1>2, <1>3, <1>5
  <2>2. p <= Len(used')
    BY <1>4, <1>5, <1>8, <2>1
  <2>3. n # 0
    <3> SUFFICES ASSUME n = 0 PROVE FALSE
      OBVIOUS
    <3>1. p = Len(front) + 1
      BY <1>3
    <3>2. PICK i \in 1..Len(front) : front[i] = used'[p]
      BY <1>3, <1>8, <2>1 DEF Range
    <3>3. used'[i] = used'[p] /\ i \in 1..Len(used')
      BY <1>3, <1>4, <3>2 DEF Leads
    <3>4. i = p
      BY <1>4, <2>1, <2>2, <3>3 DEF IsInjective
    <3>5. QED
      BY <1>3, <3>1, <3>4
  <2>4. p \in 1..Len(front)
    BY <1>2, <1>3, <2>1, <2>3
  <2>5. used'[p] = front[p]
    BY <1>4, <2>4 DEF Leads
  <2>6. bytes' + Stored(k, v)[front[p]].size > MaxBytes
    BY <1>2, <2>3
  <2>7. CASE front[p] # k
    <3>1. front[p] \in Cached
      BY <1>8, <2>1, <2>5
    <3>2. Stored(k, v)[front[p]] = items[front[p]]
      BY <2>7, <3>1 DEF Stored
    <3>3. QED
      BY <2>1, <2>5, <2>6, <3>2
  <2>8. CASE front[p] = k
    <3>1. p = 1
      BY <1>3, <2>4, <2>8 DEF IsInjective
    <3>2. ll' \in Seq(Keys) /\ Range(ll') = DOMAIN items'
      BY <1>1 DEF CacheIInv, Cached
    <3>3. DOMAIN items' = {}
      <4>1. Len(ll') \in Nat /\ DOMAIN ll' = 1..Len(ll')
        BY <3>2, LenProperties
      <4>2. Len(ll') = 0
        BY <2>1, <3>1, <4>1
      <4>3. QED
        BY <3>2, <4>1, <4>2 DEF Range
    <3>4. BytesHeld' = 0
      <4>1. DOMAIN SizesOf(items') = {}
        BY <3>3 DEF SizesOf
      <4>2. BytesHeld' = SumFunctionOnSet(SizesOf(items'), DOMAIN SizesOf(items'))
        BY DEF BytesHeld, SumFunction, SizesOf
      <4>3. QED
        BY <4>1, <4>2, SumEmpty
    <3>5. bytes' = 0
      BY <1>1, <3>4 DEF CacheIInv
    <3>6. Stored(k, v)[front[p]] = v
      BY <2>8 DEF Stored
    <3>7. 0 + v.size > MaxBytes
      BY <2>6, <3>5, <3>6
    <3>8. FALSE
      BY <3>7, CacheAssumption DEF Oversize, OverBudget
    <3>9. QED
      BY <3>8
  <2>9. QED
    BY <2>7, <2>8
<1>9. QED
  BY <1>7, <1>8

LEMMA HitKeepsHistory ==
  ASSUME HistoryIInv, NEW k \in Keys, MCHit(k)
  PROVE  /\ HistoryIInv'
         /\ ~(Len(ll') < Len(used') /\ used'[Len(ll') + 1] \in Cached)
<1>1. k \in Cached /\ ll' = Fronted(ll, k) /\ Touch(k)
  BY DEF MCHit, Hit, MoveToFront
<1>2. CacheIInv /\ CacheIInv'
  BY HitKeeps DEF HistoryIInv, MCHit
<1>3. used' \in Seq(Keys) /\ IsInjective(used') /\ Leads(ll', used')
  BY <1>1, TouchKeeps
<1>4. ll' \in Seq(Keys) /\ Range(ll') = Cached
  <2>1. ll \in Seq(Keys) /\ IsInjective(ll) /\ Range(ll) = Cached
    BY <1>2 DEF CacheIInv
  <2>2. Fronted(ll, k) \in Seq(Keys) /\ Range(Fronted(ll, k)) = {k} \cup Range(ll)
    BY <2>1, FrontedKeeps
  <2>3. QED
    BY <1>1, <2>1, <2>2
<1>5. /\ Len(ll') \in Nat /\ DOMAIN ll' = 1..Len(ll')
      /\ Len(used') \in Nat /\ DOMAIN used' = 1..Len(used')
  BY <1>3, <1>4, LenProperties
<1>6. ASSUME Len(ll') < Len(used'), used'[Len(ll') + 1] \in Cached PROVE FALSE
  <2>1. PICK i \in 1..Len(ll') : ll'[i] = used'[Len(ll') + 1]
    BY <1>4, <1>5, <1>6 DEF Range
  <2>2. used'[i] = used'[Len(ll') + 1] /\ i \in DOMAIN used' /\ Len(ll') + 1 \in DOMAIN used'
    BY <1>3, <1>5, <1>6, <2>1 DEF Leads
  <2>3. i = Len(ll') + 1
    BY <1>3, <2>2 DEF IsInjective
  <2>4. QED
    BY <1>5, <2>3
<1>7. QED
  BY <1>2, <1>3, <1>6 DEF HistoryIInv

LEMMA IdleKeepsHistory ==
  ASSUME HistoryIInv, UNCHANGED <<cacheVars, used>>
  PROVE  HistoryIInv'
BY UnchangedKeeps DEF cacheVars, HistoryIInv

(* The history variable follows the cache and does not steer it. *)
THEOREM HistoryFollows == MCSpec => CacheSpec
<1>1. MCInit => CacheInit
  BY DEF MCInit
<1>2. [MCNext]_<<cacheVars, used>> => [CacheNext]_cacheVars
  BY DEF MCNext, MCHit, MCMiss, MCPut, CacheNext, Get
<1>3. QED
  BY <1>1, <1>2, PTL DEF MCSpec, CacheSpec

LEMMA HistoryInvariance == MCSpec => []HistoryIInv
<1>1. MCInit => HistoryIInv
  <2> SUFFICES ASSUME MCInit PROVE HistoryIInv
    OBVIOUS
  <2>1. CacheIInv /\ ll = <<>> /\ used = <<>>
    BY InitHolds DEF MCInit, CacheInit
  <2>2. used \in Seq(Keys) /\ Len(used) = 0 /\ DOMAIN <<>> = {}
    BY <2>1, EmptySeq, LenProperties
  <2>3. IsInjective(used) /\ Leads(ll, used)
    BY <2>1, <2>2 DEF IsInjective, Leads
  <2>4. QED
    BY <2>1, <2>2, <2>3 DEF HistoryIInv
<1>2. HistoryIInv /\ [MCNext]_<<cacheVars, used>> => HistoryIInv'
  <2> SUFFICES ASSUME HistoryIInv, [MCNext]_<<cacheVars, used>> PROVE HistoryIInv'
    OBVIOUS
  <2>1. ASSUME NEW k \in Keys, MCHit(k) PROVE HistoryIInv'
    BY <2>1, HitKeepsHistory
  <2>2. ASSUME NEW k \in Keys, MCMiss(k) PROVE HistoryIInv'
    BY <2>2, IdleKeepsHistory DEF MCMiss, Miss
  <2>3. ASSUME NEW k \in Keys, NEW v \in Values, MCPut(k, v) PROVE HistoryIInv'
    <3>1. CASE Oversize(v)
      BY <2>3, <3>1, IdleKeepsHistory DEF MCPut, Put
    <3>2. CASE ~Oversize(v)
      BY <2>3, <3>2, StoreDropsNoMore DEF MCPut, Put
    <3>3. QED
      BY <3>1, <3>2
  <2>4. QED
    BY <2>1, <2>2, <2>3, IdleKeepsHistory DEF MCNext
<1>3. QED
  BY <1>1, <1>2, PTL DEF MCSpec

(* Least recently used goes first: at any time every cached key was used    *)
(* more recently than every key the cache has dropped.                      *)
THEOREM MostRecentStay == MCSpec => []KeepsMostRecent
<1>1. HistoryIInv => KeepsMostRecent
  <2> SUFFICES ASSUME HistoryIInv PROVE KeepsMostRecent
    OBVIOUS
  <2>1. /\ ll \in Seq(Keys) /\ used \in Seq(Keys)
        /\ Len(ll) <= Len(used) /\ \A i \in 1..Len(ll) : ll[i] = used[i]
        /\ Len(ll) \in Nat /\ DOMAIN ll = 1..Len(ll)
    BY LenProperties DEF HistoryIInv, CacheIInv, Leads
  <2>2. SubSeq(ll, 1, Len(ll)) = SubSeq(used, 1, Len(ll))
    BY <2>1
  <2>3. QED
    BY <2>1, <2>2 DEF KeepsMostRecent, IsPrefix
<1>2. QED
  BY <1>1, HistoryInvariance, PTL

(* No call evicts a response that would still have fitted. *)
THEOREM EvictsOnlyWhenItMust == MCSpec => DropsNoMoreThanNeeded
<1>1. HistoryIInv /\ [MCNext]_<<cacheVars, used>> =>
        [LET n == Len(ll')
         IN  (n < Len(used') /\ used'[n + 1] \in Cached)
               => bytes' + items[used'[n + 1]].size > MaxBytes]_<<cacheVars, used>>
  <2> SUFFICES ASSUME HistoryIInv, MCNext, ~UNCHANGED <<cacheVars, used>>,
                      Len(ll') < Len(used'), used'[Len(ll') + 1] \in Cached
               PROVE  bytes' + items[used'[Len(ll') + 1]].size > MaxBytes
    OBVIOUS
  <2>1. ASSUME NEW k \in Keys, MCHit(k) PROVE FALSE
    BY <2>1, HitKeepsHistory
  <2>2. ASSUME NEW k \in Keys, MCMiss(k) PROVE FALSE
    BY <2>2 DEF MCMiss, Miss
  <2>3. ASSUME NEW k \in Keys, NEW v \in Values, MCPut(k, v)
        PROVE  bytes' + items[used'[Len(ll') + 1]].size > MaxBytes
    <3>1. ~Oversize(v)
      BY <2>3 DEF MCPut, Put
    <3>2. Store(k, v) /\ Touch(k)
      BY <2>3, <3>1 DEF MCPut, Put
    <3>3. QED
      BY <3>1, <3>2, StoreDropsNoMore
  <2>4. QED
    BY <2>1, <2>2, <2>3 DEF MCNext
<1>2. QED
  BY <1>1, HistoryInvariance, PTL DEF MCSpec, DropsNoMoreThanNeeded

=============================================================================
