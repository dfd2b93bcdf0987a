----------------------------- MODULE RelayProofs -----------------------------
(***************************************************************************)
(* For any callers, stories, archetypes, pool and bound on stories, with   *)
(* failing requests, deadlines, a failing disk and crashes anywhere: the   *)
(* list of stories is what there is to evict, eviction takes whole stories *)
(* and none a Run is for, a Run counts every archetype once, and the file  *)
(* is never torn and between Runs holds what the memory holds.             *)
(***************************************************************************)
EXTENDS Relay, FiniteSetTheorems, SequenceTheorems, TLAPS

-----------------------------------------------------------------------------
(* Lists of stories *)

(* A list without duplicates. *)
Lists == {l \in Seq(Stories) : IsInjective(l)}

(* The bound keeps the end of a list, and all of one that is within it.     *)
LEMMA NewestKeeps ==
  ASSUME NEW l \in Lists
  PROVE  /\ Newest(l) \in Lists /\ Len(Newest(l)) <= MaxStory
         /\ Len(l) <= MaxStory => Newest(l) = l
         /\ Len(l) > 0 => l[Len(l)] \in ToSet(Newest(l))
         /\ ToSet(Newest(l)) \subseteq ToSet(l)
<1> DEFINE n == Min({MaxStory, Len(l)})
<1>1. Len(l) \in Nat /\ MaxStory \in Nat \ {0} /\ l \in Seq(Stories) /\ IsInjective(l)
  BY RelayAssumption DEF Lists
<1>2. n = IF MaxStory <= Len(l) THEN MaxStory ELSE Len(l)
  BY <1>1 DEF Min
<1>3. \A i \in (Len(l) - n + 1)..Len(l) : l[i] \in Stories
  BY <1>1, <1>2
<1>4. /\ Newest(l) \in Seq(Stories) /\ Len(Newest(l)) = n
      /\ \A i \in 1..n : Newest(l)[i] = l[Len(l) - n + i]
  <2>1. Len(l) - n + 1 \in Int /\ Len(l) \in Int
    BY <1>1, <1>2
  <2>2. Newest(l) = SubSeq(l, Len(l) - n + 1, Len(l))
    BY DEF Newest
  <2> HIDE DEF n
  <2>3. /\ Newest(l) \in Seq(Stories)
        /\ Len(Newest(l)) = IF Len(l) - n + 1 <= Len(l) THEN Len(l) - (Len(l) - n + 1) + 1 ELSE 0
        /\ \A i \in 1..(Len(l) - (Len(l) - n + 1) + 1) :
             Newest(l)[i] = l[(Len(l) - n + 1) + i - 1]
    BY <1>3, <2>1, <2>2, SubSeqProperties
  <2>4. n \in Nat
    BY <1>1, <1>2
  <2>5. Len(l) - (Len(l) - n + 1) + 1 = n
    BY <1>1, <2>4
  <2>6. \A i \in 1..n : (Len(l) - n + 1) + i - 1 = Len(l) - n + i
    BY <1>1, <2>4
  <2>7. QED
    BY <1>1, <2>3, <2>4, <2>5, <2>6
<1> HIDE DEF n
<1>5. n \in Nat /\ n <= Len(l) /\ n <= MaxStory /\ (Len(l) > 0 => n > 0)
  BY <1>1, <1>2
<1>6. IsInjective(Newest(l))
  <2> SUFFICES ASSUME NEW i \in 1..n, NEW j \in 1..n, Newest(l)[i] = Newest(l)[j]
      PROVE  i = j
    BY <1>4 DEF IsInjective
  <2>1. Len(l) - n + i \in DOMAIN l /\ Len(l) - n + j \in DOMAIN l
    BY <1>1, <1>5
  <2>2. Len(l) - n + i = Len(l) - n + j
    BY <1>1, <1>4, <2>1 DEF IsInjective
  <2>3. QED
    BY <1>1, <1>5, <2>2
<1>7. Len(l) <= MaxStory => Newest(l) = l
  <2> SUFFICES ASSUME Len(l) <= MaxStory PROVE Newest(l) = l
    OBVIOUS
  <2>1. n = Len(l)
    BY <1>1, <1>2
  <2>2. \A i \in 1..Len(l) : Newest(l)[i] = l[i]
    <3>1. \A i \in 1..Len(l) : Len(l) - n + i = i
      BY <1>1, <2>1
    <3>2. QED
      BY <1>4, <2>1, <3>1
  <2>3. QED
    BY <1>1, <1>4, <2>1, <2>2, SeqEqual
<1>8. Len(l) > 0 => l[Len(l)] \in ToSet(Newest(l))
  <2> SUFFICES ASSUME Len(l) > 0 PROVE l[Len(l)] \in ToSet(Newest(l))
    OBVIOUS
  <2>1. n \in DOMAIN Newest(l) /\ Newest(l)[n] = l[Len(l)]
    BY <1>1, <1>4, <1>5
  <2>2. QED
    BY <2>1 DEF ToSet
<1>9. ToSet(Newest(l)) \subseteq ToSet(l)
  BY <1>1, <1>4, <1>5 DEF ToSet
<1>10. QED
  BY <1>1, <1>4, <1>5, <1>6, <1>7, <1>8, <1>9 DEF Lists

(* Bringing a story forward drops and doubles none. *)
LEMMA PromotedKeeps ==
  ASSUME NEW l \in Lists, NEW s \in ToSet(l)
  PROVE  /\ Promoted(l, s) \in Lists /\ Len(Promoted(l, s)) = Len(l)
         /\ ToSet(Promoted(l, s)) = ToSet(l)
<1> DEFINE i == CHOOSE i \in DOMAIN l : l[i] = s
           b == SubSeq(l, 1, i - 1)
           e == SubSeq(l, i + 1, Len(l))
           p == Promoted(l, s)
<1>1. Len(l) \in Nat /\ l \in Seq(Stories) /\ IsInjective(l) /\ DOMAIN l = 1..Len(l)
  BY DEF Lists
<1>2. i \in 1..Len(l) /\ l[i] = s
  BY <1>1 DEF ToSet
<1>3. p = Append(b \o e, s)
  BY DEF Promoted, RemoveAt
<1> HIDE DEF i, p
<1>4. /\ b \in Seq(Stories) /\ Len(b) = i - 1
      /\ \A j \in 1..(i - 1) : b[j] = l[j]
  <2>1. \A j \in 1..(i - 1) : l[j] \in Stories
    BY <1>1, <1>2
  <2>2. 1 \in Int /\ i - 1 \in Int
    BY <1>2
  <2>3. /\ b \in Seq(Stories)
        /\ Len(b) = IF 1 <= i - 1 THEN (i - 1) - 1 + 1 ELSE 0
        /\ \A j \in 1..((i - 1) - 1 + 1) : b[j] = l[1 + j - 1]
    BY <2>1, <2>2, SubSeqProperties
  <2> HIDE DEF b
  <2>4. QED
    BY <1>2, <2>3
<1>5. /\ e \in Seq(Stories) /\ Len(e) = Len(l) - i
      /\ \A j \in 1..(Len(l) - i) : e[j] = l[i + j]
  <2>1. \A j \in (i + 1)..Len(l) : l[j] \in Stories
    BY <1>1, <1>2
  <2>2. i + 1 \in Int /\ Len(l) \in Int
    BY <1>1, <1>2
  <2>3. /\ e \in Seq(Stories)
        /\ Len(e) = IF i + 1 <= Len(l) THEN Len(l) - (i + 1) + 1 ELSE 0
        /\ \A j \in 1..(Len(l) - (i + 1) + 1) : e[j] = l[(i + 1) + j - 1]
    BY <2>1, <2>2, SubSeqProperties
  <2> HIDE DEF e
  <2>4. Len(l) - (i + 1) + 1 = Len(l) - i
    BY <1>1, <1>2
  <2>5. \A j \in 1..(Len(l) - i) : (i + 1) + j - 1 = i + j
    BY <1>1, <1>2
  <2>6. Len(e) = Len(l) - i
    <3>1. CASE i + 1 <= Len(l)
      BY <2>3, <2>4, <3>1
    <3>2. CASE ~(i + 1 <= Len(l))
      <4>1. Len(l) - i = 0
        <5>1. i \in Int /\ Len(l) \in Int /\ i <= Len(l)
          BY <1>1, <1>2
        <5>2. QED
          BY <3>2, <5>1
      <4>2. QED
        BY <2>3, <3>2, <4>1
    <3>3. QED
      BY <3>1, <3>2
  <2>7. QED
    BY <2>3, <2>4, <2>5, <2>6
<1> HIDE DEF b, e
<1>6. /\ b \o e \in Seq(Stories) /\ Len(b \o e) = Len(l) - 1
      /\ \A j \in 1..(Len(l) - 1) : (b \o e)[j] = IF j < i THEN l[j] ELSE l[j + 1]
  <2>1. /\ b \o e \in Seq(Stories) /\ Len(b \o e) = Len(b) + Len(e)
        /\ \A j \in 1..(Len(b) + Len(e)) :
             (b \o e)[j] = IF j <= Len(b) THEN b[j] ELSE e[j - Len(b)]
    BY <1>4, <1>5, ConcatProperties
  <2>2. Len(b) = i - 1 /\ Len(e) = Len(l) - i /\ Len(b) + Len(e) = Len(l) - 1
    BY <1>1, <1>2, <1>4, <1>5
  <2>3. ASSUME NEW j \in 1..(Len(l) - 1)
        PROVE  (b \o e)[j] = IF j < i THEN l[j] ELSE l[j + 1]
    <3>1. CASE j < i
      <4>1. j \in 1..(i - 1) /\ j <= Len(b)
        BY <1>2, <2>2, <3>1
      <4>2. QED
        BY <1>4, <2>1, <2>2, <3>1, <4>1
    <3>2. CASE ~(j < i)
      <4>1. j - (i - 1) \in 1..(Len(l) - i) /\ ~(j <= Len(b)) /\ i + (j - (i - 1)) = j + 1
        BY <1>1, <1>2, <2>2, <3>2
      <4>2. (b \o e)[j] = e[j - (i - 1)]
        BY <2>1, <2>2, <4>1
      <4>3. e[j - (i - 1)] = l[i + (j - (i - 1))]
        BY <1>5, <4>1
      <4>4. QED
        BY <3>2, <4>1, <4>2, <4>3
    <3>3. QED
      BY <3>1, <3>2
  <2>4. QED
    BY <2>1, <2>2, <2>3
<1>7. s \in Stories
  BY <1>1, <1>2
<1>8. /\ p \in Seq(Stories) /\ Len(p) = Len(l)
      /\ \A j \in 1..Len(l) :
           p[j] = IF j < i THEN l[j] ELSE IF j < Len(l) THEN l[j + 1] ELSE l[i]
  <2>1. /\ p \in Seq(Stories) /\ Len(p) = Len(b \o e) + 1
        /\ \A j \in 1..Len(b \o e) : p[j] = (b \o e)[j]
        /\ p[Len(b \o e) + 1] = s
    BY <1>3, <1>6, <1>7, AppendProperties
  <2>2. Len(b \o e) = Len(l) - 1 /\ Len(p) = Len(l) /\ p[Len(l)] = l[i]
    BY <1>1, <1>2, <1>6, <2>1
  <2>3. ASSUME NEW j \in 1..(Len(l) - 1)
        PROVE  p[j] = IF j < i THEN l[j] ELSE l[j + 1]
    BY <1>6, <2>1, <2>2, <2>3
  <2>4. ASSUME NEW j \in 1..Len(l)
        PROVE  p[j] = IF j < i THEN l[j] ELSE IF j < Len(l) THEN l[j + 1] ELSE l[i]
    <3>1. CASE j < Len(l)
      <4>1. j \in 1..(Len(l) - 1)
        BY <1>1, <3>1
      <4>2. QED
        BY <2>3, <3>1, <4>1
    <3>2. CASE j = Len(l)
      BY <1>1, <1>2, <2>2, <3>2
    <3>3. j < Len(l) \/ j = Len(l)
      <4>1. j \in Int /\ Len(l) \in Int /\ j <= Len(l)
        BY <1>1
      <4>2. QED
        BY <4>1
    <3>4. QED
      BY <3>1, <3>2, <3>3
  <2>5. QED
    BY <2>1, <2>2, <2>4
<1>9. IsInjective(p)
  <2> SUFFICES ASSUME NEW j \in 1..Len(l), NEW k \in 1..Len(l), p[j] = p[k]
      PROVE  j = k
    BY <1>8 DEF IsInjective
  <2> DEFINE at(x) == IF x < i THEN x ELSE IF x < Len(l) THEN x + 1 ELSE i
  <2>1. at(j) \in DOMAIN l /\ at(k) \in DOMAIN l /\ p[j] = l[at(j)] /\ p[k] = l[at(k)]
    BY <1>1, <1>2, <1>8
  <2>2. at(j) = at(k)
    BY <1>1, <2>1 DEF IsInjective
  <2>3. QED
    BY <1>1, <1>2, <2>2
<1>10. ToSet(p) = ToSet(l)
  <2>1. ASSUME NEW j \in 1..Len(l) PROVE \E x \in 1..Len(l) : p[x] = l[j]
    <3> DEFINE x == IF j < i THEN j ELSE IF j = i THEN Len(l) ELSE j - 1
    <3>1. x \in 1..Len(l) /\ p[x] = l[j]
      BY <1>1, <1>2, <1>8
    <3>2. QED
      BY <3>1
  <2>2. \A j \in 1..Len(l) : \E x \in 1..Len(l) : p[j] = l[x]
    BY <1>1, <1>2, <1>8
  <2>3. DOMAIN p = 1..Len(l)
    BY <1>8
  <2>4. ToSet(p) \subseteq ToSet(l)
    BY <1>1, <2>2, <2>3 DEF ToSet
  <2>5. ToSet(l) \subseteq ToSet(p)
    <3> SUFFICES ASSUME NEW j \in 1..Len(l) PROVE l[j] \in ToSet(p)
      BY <1>1 DEF ToSet
    <3>1. PICK x \in 1..Len(l) : p[x] = l[j]
      BY <2>1
    <3>2. QED
      BY <2>3, <3>1 DEF ToSet
  <2>6. QED
    BY <2>4, <2>5
<1>11. QED
  BY <1>8, <1>9, <1>10 DEF Lists, p

(* A list has no more stories than places. *)
LEMMA ListedFew ==
  ASSUME NEW l \in Seq(Stories), NEW S \in SUBSET ToSet(l)
  PROVE  IsFiniteSet(S) /\ Cardinality(S) \in Nat /\ Cardinality(S) <= Len(l)
<1>1. Len(l) \in Nat /\ DOMAIN l = 1..Len(l) /\ l \in [1..Len(l) -> ToSet(l)]
  BY DEF ToSet
<1>2. l \in Surjection(1..Len(l), ToSet(l))
  BY <1>1 DEF Surjection, ToSet
<1>3. IsFiniteSet(1..Len(l)) /\ Cardinality(1..Len(l)) = Len(l)
  BY <1>1, FS_Interval
<1>4. IsFiniteSet(ToSet(l)) /\ Cardinality(ToSet(l)) <= Len(l)
  BY <1>2, <1>3, FS_Surjection
<1>5. IsFiniteSet(S) /\ Cardinality(S) <= Cardinality(ToSet(l))
  BY <1>4, FS_Subset
<1>6. QED
  BY <1>1, <1>4, <1>5, FS_CardinalityType

(* Reading a set in some order lists all of it once. *)
LEMMA ReadAll ==
  ASSUME NEW S \in SUBSET Stories, IsFiniteSet(S), NEW l \in SetToSeqs(S)
  PROVE  l \in Lists /\ ToSet(l) = S /\ Len(l) = Cardinality(S)
<1> DEFINE n == Cardinality(S)
<1>1. n \in Nat
  BY FS_CardinalityType
<1> HIDE DEF n
<1>2. l \in [1..n -> S] /\ \A i, j \in 1..n : i # j => l[i] # l[j]
  BY DEF SetToSeqs, n
<1>3. l \in Injection(1..n, S)
  BY <1>2 DEF Injection, IsInjective
<1>4. Cardinality(1..n) = n
  BY <1>1, FS_Interval
<1>5. l \in Surjection(1..n, S)
  BY <1>3, <1>4, FS_Injection DEF n
<1>6. l \in Seq(Stories) /\ Len(l) = n
  BY <1>1, <1>2, SeqDef
<1>7. ToSet(l) = S
  BY <1>2, <1>5 DEF ToSet, Surjection
<1>8. QED
  BY <1>2, <1>6, <1>7 DEF Lists, IsInjective, n

-----------------------------------------------------------------------------
(* The invariant *)

(* A goroutine is in the pool only while its loop or its wait is.           *)
Asked ==
  /\ DOMAIN asking = Callers
  /\ \A c \in Callers : pc[c] \notin {"loop", "wait"} => DOMAIN asking[c] = {}

(* One Run at a time, and it knows its story. *)
Solo ==
  \A c \in Callers :
    /\ pc[c] = "idle" => story[c] = None
    /\ pc[c] # "idle" =>
         /\ running /\ story[c] \in Stories
         /\ \A d \in Callers : pc[d] # "idle" => d = c

(* What is in the file fits within the bound, so that load cuts nothing.    *)
Fits ==
  /\ IsFiniteSet(StoriesIn(file.keys))
  /\ Cardinality(StoriesIn(file.keys)) <= MaxStory

(* The cache does not change under a save, and no save leaves it behind.    *)
Saved ==
  /\ \A c \in Callers :
       /\ pc[c] = "writing" => tmp.keys = cache
       /\ pc[c] = "rename" => tmp = File(cache)
  /\ (\A c \in Callers : pc[c] \in {"idle", "end"}) /\ lastErr # "disk" =>
       file.keys = cache

IInv ==
  /\ TypeOK /\ Asked /\ Solo /\ StoriesTracked
  /\ FileNeverTorn /\ Fits /\ Saved

-----------------------------------------------------------------------------
(* Types *)

LEMMA TypeInit == Init => TypeOK /\ Asked
<1> SUFFICES ASSUME Init PROVE TypeOK /\ Asked
  OBVIOUS
<1>0. <<>> \in Seq(Stories) /\ DOMAIN <<>> = {}
  BY EmptySeq
<1>1. \A c \in Callers : DOMAIN asking[c] = {}
  BY <1>0 DEF Init
<1>2. Asked
  BY <1>1 DEF Init, Asked
<1>3. order \in Seq(Stories)
  BY <1>0 DEF Init
<1>4. {file, tmp} \subseteq [whole : BOOLEAN, keys : SUBSET Keys]
  <2>1. NoFile \in [whole : BOOLEAN, keys : SUBSET Keys]
    BY DEF NoFile, File
  <2>2. QED
    BY <2>1 DEF Init
<1>5. /\ cache \subseteq Keys /\ running \in BOOLEAN /\ pc \in [Callers -> PCs]
      /\ {total, done, failed} \subseteq Nat
  <2>1. cache \subseteq Keys /\ running \in BOOLEAN
    BY DEF Init
  <2>2. pc \in [Callers -> PCs]
    BY DEF Init, PCs
  <2>3. {total, done, failed} \subseteq Nat
    <3>1. total = 0 /\ done = 0 /\ failed = 0
      BY DEF Init
    <3>2. QED
      BY <3>1
  <2>4. QED
    BY <2>1, <2>2, <2>3
<1>6. /\ story \in [Callers -> Stories \cup {None}]
      /\ todo \in [Callers -> SUBSET Archetypes]
  BY DEF Init
<1>7. QED
  BY <1>1, <1>2, <1>3, <1>4, <1>5, <1>6 DEF TypeOK

(* A restart's list and cache come from the file. *)
LEMMA LoadedTypes ==
  ASSUME TypeOK, Restart, FileNeverTorn, Fits
  PROVE  /\ order' \in Lists /\ Len(order') <= MaxStory
         /\ cache' = file.keys /\ StoriesIn(cache') \subseteq ToSet(order')
<1>1. file.keys \subseteq Keys /\ OnDisk = file.keys
  BY DEF TypeOK, OnDisk, FileNeverTorn
<1>2. StoriesIn(file.keys) \subseteq Stories
  BY <1>1 DEF StoriesIn, Keys
<1>3. PICK list \in SetToSeqs(StoriesIn(file.keys)) :
        order' = Newest(list) /\ cache' = Kept(file.keys, order')
  BY <1>1 DEF Restart
<1>4. list \in Lists /\ ToSet(list) = StoriesIn(file.keys) /\ Len(list) <= MaxStory
  BY <1>2, <1>3, ReadAll DEF Fits
<1>5. order' = list
  BY <1>3, <1>4, NewestKeeps
<1>6. cache' = file.keys
  BY <1>3, <1>4, <1>5 DEF Kept, StoriesIn
<1>7. QED
  BY <1>4, <1>5, <1>6

(* What Touch does to the list and the cache. *)
LEMMA TouchKeeps ==
  ASSUME NEW c \in Callers, TypeOK, StoriesTracked, story[c] \in Stories, Touch(c)
  PROVE  /\ order' \in Lists /\ Len(order') <= MaxStory
         /\ story[c] \in ToSet(order')
         /\ cache' = Kept(cache, order')
<1> DEFINE s == story[c]
<1>1. order \in Lists /\ order \in Seq(Stories) /\ Len(order) <= MaxStory
  BY DEF TypeOK, StoriesTracked, Lists
<1>2. CASE Contains(order, s)
  <2>1. s \in ToSet(order) /\ order' = Promoted(order, s) /\ cache' = cache
    BY <1>2 DEF Touch, Contains, ToSet
  <2>2. order' \in Lists /\ Len(order') <= MaxStory /\ ToSet(order') = ToSet(order)
    BY <1>1, <2>1, PromotedKeeps
  <2>3. cache = Kept(cache, order')
    BY <2>2 DEF StoriesTracked, StoriesIn, Kept
  <2>4. QED
    BY <2>1, <2>2, <2>3
<1>3. CASE ~Contains(order, s)
  <2> DEFINE l == Append(order, s)
  <2>1. /\ l \in Seq(Stories) /\ Len(l) = Len(order) + 1 /\ l[Len(l)] = s
        /\ \A i \in 1..Len(order) : l[i] = order[i]
    BY <1>1, AppendProperties
  <2>2. s \notin ToSet(order)
    BY <1>3 DEF Contains, ToSet
  <2> HIDE DEF l
  <2>3. l \in Lists
    <3> SUFFICES ASSUME NEW i \in 1..Len(l), NEW j \in 1..Len(l), l[i] = l[j] PROVE i = j
      BY <2>1 DEF Lists, IsInjective
    <3>1. \A k \in 1..Len(l) : k \in 1..Len(order) \/ k = Len(l)
      BY <1>1, <2>1
    <3>2. \A k \in 1..Len(order) : order[k] # s
      BY <1>1, <2>2 DEF ToSet
    <3>3. QED
      BY <1>1, <2>1, <3>1, <3>2 DEF Lists, IsInjective
  <2>4. order' = Newest(l) /\ cache' = Kept(cache, order')
    BY <1>3 DEF Touch, Survivors, l
  <2>5. Len(l) > 0
    BY <1>1, <2>1
  <2>6. QED
    BY <2>1, <2>3, <2>4, <2>5, NewestKeeps
<1>4. QED
  BY <1>2, <1>3

(* Only a save touches the files, and it keeps their shape and renames none *)
(* that is torn.                                                            *)
LEMMA FileTypes ==
  ASSUME TypeOK, FileNeverTorn, Saved, [Next]_vars
  PROVE  {file', tmp'} \subseteq [whole : BOOLEAN, keys : SUBSET Keys] /\ file'.whole
<1> DEFINE Files == [whole : BOOLEAN, keys : SUBSET Keys]
           Goal == file' \in Files /\ tmp' \in Files /\ file'.whole
<1>1. /\ file \in Files /\ tmp \in Files /\ file.whole /\ cache \subseteq Keys
      /\ tmp.keys \subseteq Keys
  BY DEF TypeOK, FileNeverTorn
<1>2. NoFile \in Files
  BY DEF NoFile, File
<1>3. \A keys \in SUBSET Keys :
        Torn(keys) \in Files /\ File(keys) \in Files /\ File(keys).whole
  BY DEF Torn, File
<1>4. \A c \in Callers : pc[c] = "rename" => tmp = File(cache)
  BY DEF Saved
<1> HIDE DEF Files
<1>5. UNCHANGED diskVars => Goal
  BY <1>1 DEF diskVars
<1>6. UNCHANGED vars => Goal
  BY <1>5 DEF vars
<1>7. Restart => Goal
  BY <1>1, <1>2 DEF Restart
<1>8. ASSUME NEW c \in Callers PROVE Rename(c) \/ DiskFails(c) => Goal
  BY <1>1, <1>2, <1>3, <1>4 DEF Rename, DiskFails, Step
<1>9. ASSUME NEW c \in Callers PROVE BeginWrite(c) \/ EndWrite(c) => Goal
  BY <1>1, <1>3 DEF BeginWrite, EndWrite, Written, WriteTarget
<1>10. ASSUME NEW c \in Callers
       PROVE  /\ \A s \in Stories, ids \in SUBSET Archetypes : Start(c, s, ids) => Goal
              /\ Expire(c) \/ Touch(c) \/ LeaveLoop(c) \/ Collect(c) \/ Finish(c) => Goal
  BY <1>5 DEF Start, Expire, Touch, LeaveLoop, Collect, Finish
<1>11. ASSUME NEW c \in Callers, NEW a \in Archetypes
       PROVE  FromCache(c, a) \/ Want(c, a) \/ Ask(c, a) \/ Answer(c, a)
                \/ Retry(c, a) \/ Fail(c, a) => Goal
  BY <1>5 DEF FromCache, Want, Ask, Answer, Retry, Fail
<1>12. Goal
  BY <1>6, <1>7, <1>8, <1>9, <1>10, <1>11 DEF Next, Work
<1>13. QED
  BY <1>12 DEF Files

LEMMA TypeStep ==
  ASSUME IInv, [Next]_vars
  PROVE  TypeOK' /\ Asked'
<1> DEFINE
      Data == cache' \subseteq Keys /\ order' \in Seq(Stories)
      Where == /\ running' \in BOOLEAN /\ pc' \in [Callers -> PCs]
               /\ story' \in [Callers -> Stories \cup {None}]
      Tasks == /\ todo' \in [Callers -> SUBSET Archetypes]
               /\ \A c \in Callers : DOMAIN asking'[c] \subseteq Archetypes
               /\ Asked'
      Counts == total' \in Nat /\ done' \in Nat /\ failed' \in Nat
      Rest == Data /\ Where /\ Tasks /\ Counts
<1>1. /\ cache \subseteq Keys /\ order \in Seq(Stories)
      /\ running \in BOOLEAN /\ pc \in [Callers -> PCs]
      /\ story \in [Callers -> Stories \cup {None}]
      /\ todo \in [Callers -> SUBSET Archetypes]
      /\ \A c \in Callers : DOMAIN asking[c] \subseteq Archetypes
      /\ total \in Nat /\ done \in Nat /\ failed \in Nat
      /\ Asked
  BY DEF IInv, TypeOK
<1>2. ASSUME UNCHANGED vars PROVE Rest
  BY <1>1, <1>2 DEF vars, runVars, countVars, Asked
<1>3. ASSUME Restart PROVE Rest
  <2>1. Data
    <3>1. cache' = file.keys /\ order' \in Lists
      BY <1>3, LoadedTypes DEF IInv
    <3>2. QED
      BY <3>1 DEF IInv, TypeOK, Lists
  <2>2. Where
    BY <1>3 DEF Restart, PCs
  <2>3. \A c \in Callers : DOMAIN asking'[c] = {}
    <3>1. <<>> \in Seq(Stories) /\ DOMAIN <<>> = {}
      BY EmptySeq
    <3>2. QED
      BY <1>3, <3>1 DEF Restart
  <2>4. Tasks
    BY <1>3, <2>3 DEF Restart, Asked
  <2>5. Counts
    BY <1>3 DEF Restart
  <2>6. QED
    BY <2>1, <2>2, <2>4, <2>5
<1>4. ASSUME NEW c \in Callers, NEW s \in Stories, NEW ids \in SUBSET Archetypes,
             Start(c, s, ids)
      PROVE  Rest
  <2>1. Data /\ Where
    BY <1>1, <1>4 DEF Start, Step, PCs
  <2>2. Tasks
    BY <1>1, <1>4 DEF Start, Step, Asked
  <2>3. Counts
    <3>1. IsFiniteSet(ids)
      BY RelayAssumption, FS_Subset
    <3>2. Cardinality(ids) \in Nat
      BY <3>1, FS_CardinalityType
    <3>3. total' = Cardinality(ids) /\ done' = 0 /\ failed' = 0
      BY <1>4 DEF Start
    <3>4. QED
      BY <3>2, <3>3
  <2>4. QED
    BY <2>1, <2>2, <2>3
<1>5. ASSUME NEW c \in Callers, Expire(c) PROVE Rest
  BY <1>1, <1>5 DEF Expire, countVars, Asked
<1>6. ASSUME NEW c \in Callers, Touch(c) PROVE Rest
  <2>1. Data
    <3>1. story[c] \in Stories
      BY <1>6 DEF IInv, Solo, Touch, Step
    <3>2. order' \in Lists /\ cache' = Kept(cache, order')
      BY <1>6, <3>1, TouchKeeps DEF IInv
    <3>3. QED
      BY <1>1, <3>2 DEF Lists, Kept
  <2>2. QED
    BY <1>1, <1>6, <2>1 DEF Touch, Step, runVars, countVars, Asked, PCs
<1>7. ASSUME NEW c \in Callers, LeaveLoop(c) \/ Collect(c) PROVE Rest
  <2>1. LeaveLoop(c) => Rest
    BY <1>1 DEF LeaveLoop, Step, countVars, Asked, PCs
  <2>2. ASSUME Collect(c) PROVE Rest
    <3>1. DOMAIN asking[c] = {}
      <4>1. <<>> \in Seq(Stories) /\ DOMAIN <<>> = {}
        BY EmptySeq
      <4>2. QED
        BY <2>2, <4>1 DEF Collect, PoolEmpty
    <3>2. QED
      BY <1>1, <2>2, <3>1 DEF Collect, Step, runVars, countVars, Asked, PCs
  <2>3. QED
    BY <1>7, <2>1, <2>2
<1>8. ASSUME NEW c \in Callers, NEW a \in Archetypes,
             FromCache(c, a) \/ Want(c, a) \/ Ask(c, a) \/ Retry(c, a)
      PROVE  Rest
  <2>1. FromCache(c, a) => Rest
    BY <1>1 DEF FromCache, Asked
  <2>2. Want(c, a) => Rest
    BY <1>1 DEF Want, AtLoopTop, countVars, Asked
  <2>3. Ask(c, a) => Rest
    BY <1>1 DEF Ask, countVars, Asked
  <2>4. Retry(c, a) => Rest
    BY <1>1 DEF Retry, countVars, Asked
  <2>5. QED
    BY <1>8, <2>1, <2>2, <2>3, <2>4
<1>9. ASSUME NEW c \in Callers, NEW a \in Archetypes, Answer(c, a) \/ Fail(c, a)
      PROVE  Rest
  <2>1. pc[c] \in {"loop", "wait"}
    BY <1>1, <1>9 DEF Answer, Fail, Pool, Asked
  <2>2. story[c] \in Stories
    BY <2>1 DEF IInv, Solo
  <2>3. <<a, story[c]>> \in Keys
    BY <2>2 DEF Keys
  <2>4. Data /\ Where /\ Counts
    BY <1>1, <1>9, <2>3 DEF Answer, Fail
  <2>5. Tasks
    <3>1. Dismiss(c, a) /\ pc' = pc /\ todo' = todo
      BY <1>9 DEF Answer, Fail
    <3>2. /\ DOMAIN asking' = Callers
          /\ \A d \in Callers : DOMAIN asking'[d] \subseteq DOMAIN asking[d]
      BY <1>1, <3>1 DEF Dismiss, Asked
    <3>3. QED
      BY <1>1, <3>1, <3>2 DEF Asked
  <2>6. QED
    BY <2>4, <2>5
<1>10. ASSUME NEW c \in Callers, BeginWrite(c) \/ EndWrite(c) \/ DiskFails(c) \/ Rename(c)
       PROVE  Rest
  BY <1>1, <1>10 DEF BeginWrite, EndWrite, DiskFails, Rename, Step, runVars, countVars, Asked, PCs
<1>11. ASSUME NEW c \in Callers, Finish(c) PROVE Rest
  BY <1>1, <1>11 DEF Finish, StillRunning, Step, countVars, Asked, PCs
<1>12. Rest
  BY <1>2, <1>3, <1>4, <1>5, <1>6, <1>7, <1>8, <1>9, <1>10, <1>11 DEF Next, Work
<1>13. {file', tmp'} \subseteq [whole : BOOLEAN, keys : SUBSET Keys]
  BY FileTypes DEF IInv
<1>14. QED
  BY <1>12, <1>13 DEF TypeOK

-----------------------------------------------------------------------------
(* One Run at a time *)

LEMMA SoloStep ==
  ASSUME IInv, [Next]_vars
  PROVE  Solo'
<1>1. /\ pc \in [Callers -> PCs] /\ story \in [Callers -> Stories \cup {None}]
      /\ Solo
  BY DEF IInv, TypeOK
<1>2. ASSUME pc' = pc, story' = story, running' = running PROVE Solo'
  BY <1>1, <1>2 DEF Solo
<1>3. Restart => Solo'
  BY DEF Restart, Solo
<1>4. ASSUME NEW c \in Callers, NEW s \in Stories, NEW ids \in SUBSET Archetypes,
             Start(c, s, ids)
      PROVE  Solo'
  <2>1. \A d \in Callers : pc[d] = "idle"
    BY <1>1, <1>4 DEF Start, Admitted, Solo
  <2>2. \A d \in Callers : pc'[d] # "idle" => d = c
    BY <1>1, <1>4, <2>1 DEF Start, Step
  <2>3. QED
    BY <1>1, <1>4, <2>1, <2>2 DEF Start, Step, Solo
<1>5. ASSUME NEW c \in Callers, NEW from, NEW to,
             from # "idle", to # "idle", Step(c, from, to),
             story' = story, running' = running
      PROVE  Solo'
  BY <1>1, <1>5 DEF Step, Solo
<1>6. ASSUME NEW c \in Callers, Touch(c) \/ LeaveLoop(c) \/ Collect(c) PROVE Solo'
  BY <1>5, <1>6 DEF Touch, LeaveLoop, Collect, runVars
<1>7. ASSUME NEW c \in Callers, BeginWrite(c) \/ EndWrite(c) \/ DiskFails(c) \/ Rename(c)
      PROVE  Solo'
  BY <1>5, <1>7 DEF BeginWrite, EndWrite, DiskFails, Rename, runVars
<1>8. ASSUME NEW c \in Callers, Finish(c) PROVE Solo'
  BY <1>1, <1>8 DEF Finish, StillRunning, Step, Solo
<1>9. UNCHANGED vars => Solo'
  BY <1>2 DEF vars, runVars
<1>10. ASSUME NEW c \in Callers
       PROVE  /\ Expire(c) => Solo'
              /\ \A a \in Archetypes :
                   FromCache(c, a) \/ Want(c, a) \/ Ask(c, a) \/ Answer(c, a)
                     \/ Retry(c, a) \/ Fail(c, a) => Solo'
  BY <1>2 DEF Expire, FromCache, Want, Ask, Answer, Retry, Fail
<1>11. QED
  BY <1>3, <1>4, <1>6, <1>7, <1>8, <1>9, <1>10 DEF Next, Work

-----------------------------------------------------------------------------
(* The list of stories *)

LEMMA TrackedStep ==
  ASSUME IInv, [Next]_vars
  PROVE  StoriesTracked'
<1>1. /\ order \in Seq(Stories) /\ pc \in [Callers -> PCs]
      /\ story \in [Callers -> Stories \cup {None}]
      /\ StoriesTracked /\ Asked /\ Solo
  BY DEF IInv, TypeOK
<1> DEFINE Past(c) == pc[c] \notin {"idle", "touch"}
<1>2. ASSUME cache' = cache, order' = order, story' = story,
             \A c \in Callers : pc'[c] \notin {"idle", "touch"} => Past(c)
      PROVE  StoriesTracked'
  BY <1>1, <1>2 DEF StoriesTracked
<1>3. ASSUME NEW c \in Callers, NEW from, NEW to,
             from \notin {"idle", "touch"}, Step(c, from, to),
             cache' = cache, order' = order, story' = story
      PROVE  StoriesTracked'
  <2>1. \A d \in Callers : pc'[d] \notin {"idle", "touch"} => Past(d)
    BY <1>1, <1>3 DEF Step
  <2>2. QED
    BY <1>2, <1>3, <2>1
<1>4. ASSUME Restart PROVE StoriesTracked'
  <2>1. /\ order' \in Lists /\ Len(order') <= MaxStory
        /\ StoriesIn(cache') \subseteq ToSet(order')
    BY <1>4, LoadedTypes DEF IInv
  <2>2. \A c \in Callers : pc'[c] = "idle"
    BY <1>4 DEF Restart
  <2>3. QED
    BY <2>1, <2>2 DEF StoriesTracked, Lists, StoriesIn
<1>5. ASSUME NEW c \in Callers, Touch(c) PROVE StoriesTracked'
  <2>1. story[c] \in Stories /\ \A d \in Callers : d # c => pc[d] = "idle"
    BY <1>1, <1>5 DEF Solo, Touch, Step
  <2>2. /\ order' \in Lists /\ Len(order') <= MaxStory
        /\ story[c] \in ToSet(order') /\ cache' = Kept(cache, order')
    BY <1>5, <2>1, TouchKeeps DEF IInv
  <2>3. StoriesIn(cache') \subseteq ToSet(order')
    BY <2>2 DEF StoriesIn, Kept
  <2>4. \A d \in Callers : pc'[d] \notin {"idle", "touch"} => story'[d] \in ToSet(order')
    BY <1>1, <1>5, <2>1, <2>2 DEF Touch, Step, runVars
  <2>5. QED
    BY <2>2, <2>3, <2>4 DEF StoriesTracked, Lists, StoriesIn
<1>6. ASSUME NEW c \in Callers, NEW a \in Archetypes, Answer(c, a) PROVE StoriesTracked'
  <2>1. pc[c] \in {"loop", "wait"}
    BY <1>1, <1>6 DEF Answer, Pool, Asked
  <2>2. story[c] \in ToSet(order)
    BY <1>1, <2>1 DEF StoriesTracked
  <2>3. /\ cache' = cache \cup {<<a, story[c]>>}
        /\ order' = order /\ pc' = pc /\ story' = story
    BY <1>6 DEF Answer
  <2>4. StoriesIn(cache') \subseteq ToSet(order')
    BY <1>1, <2>2, <2>3 DEF StoriesTracked, StoriesIn
  <2>5. QED
    BY <1>1, <2>3, <2>4 DEF StoriesTracked, StoriesIn
<1>7. ASSUME NEW c \in Callers, NEW a \in Archetypes,
             FromCache(c, a) \/ Want(c, a) \/ Ask(c, a) \/ Retry(c, a) \/ Fail(c, a)
      PROVE  StoriesTracked'
  BY <1>2, <1>7 DEF FromCache, Want, Ask, Retry, Fail
<1>8. ASSUME NEW c \in Callers, NEW s \in Stories, NEW ids \in SUBSET Archetypes,
             Start(c, s, ids)
      PROVE  StoriesTracked'
  <2>1. \A d \in Callers : pc'[d] \notin {"idle", "touch"} => d # c /\ Past(d)
    BY <1>1, <1>8 DEF Start, Step
  <2>2. \A d \in Callers : d # c => story'[d] = story[d]
    BY <1>1, <1>8 DEF Start
  <2>3. QED
    BY <1>1, <1>8, <2>1, <2>2 DEF Start, StoriesTracked
<1>9. ASSUME NEW c \in Callers, Finish(c) PROVE StoriesTracked'
  <2>1. \A d \in Callers : pc'[d] \notin {"idle", "touch"} => d # c /\ Past(d)
    BY <1>1, <1>9 DEF Finish, Step
  <2>2. \A d \in Callers : d # c => story'[d] = story[d]
    BY <1>1, <1>9 DEF Finish
  <2>3. QED
    BY <1>1, <1>9, <2>1, <2>2 DEF Finish, StoriesTracked
<1>10. ASSUME NEW c \in Callers,
              LeaveLoop(c) \/ Collect(c) \/ BeginWrite(c) \/ EndWrite(c)
                \/ DiskFails(c) \/ Rename(c)
       PROVE  StoriesTracked'
  BY <1>3, <1>10 DEF LeaveLoop, Collect, BeginWrite, EndWrite, DiskFails, Rename, runVars
<1>11. ASSUME NEW c \in Callers, Expire(c) PROVE StoriesTracked'
  BY <1>2, <1>11 DEF Expire
<1>12. UNCHANGED vars => StoriesTracked'
  BY <1>2 DEF vars, runVars
<1>13. QED
  BY <1>4, <1>5, <1>6, <1>7, <1>8, <1>9, <1>10, <1>11, <1>12 DEF Next, Work

-----------------------------------------------------------------------------
(* The file *)

LEMMA SavedStep ==
  ASSUME IInv, [Next]_vars
  PROVE  Saved'
<1>1. pc \in [Callers -> PCs] /\ Solo /\ Saved /\ Asked
  BY DEF IInv, TypeOK
<1>2. ASSUME NEW c \in Callers, pc[c] # "idle",
             pc'[c] \in {"touch", "loop", "wait", "write"},
             \A d \in Callers : d # c => pc'[d] = pc[d]
      PROVE  Saved'
  BY <1>1, <1>2 DEF Solo, Saved
<1>3. ASSUME NEW c \in Callers, pc[c] \in {"touch", "loop", "wait"}, pc' = pc
      PROVE  Saved'
  BY <1>2, <1>3
<1>4. ASSUME Restart PROVE Saved'
  <2>1. cache' = file.keys
    BY <1>4, LoadedTypes DEF IInv
  <2>2. file' = file /\ \A c \in Callers : pc'[c] = "idle"
    BY <1>4 DEF Restart
  <2>3. QED
    BY <2>1, <2>2 DEF Saved
<1>5. ASSUME NEW c \in Callers, NEW s \in Stories, NEW ids \in SUBSET Archetypes,
             Start(c, s, ids)
      PROVE  Saved'
  <2>1. /\ \A d \in Callers : pc[d] = "idle"
        /\ pc'[c] = "touch" /\ \A d \in Callers : d # c => pc'[d] = pc[d]
    BY <1>1, <1>5 DEF Start, Admitted, Step, Solo
  <2>2. QED
    BY <2>1 DEF Saved
<1>6. ASSUME NEW c \in Callers, Touch(c) \/ LeaveLoop(c) \/ Collect(c) PROVE Saved'
  <2>1. /\ pc[c] # "idle" /\ pc'[c] \in {"loop", "wait", "write"}
        /\ \A d \in Callers : d # c => pc'[d] = pc[d]
    BY <1>1, <1>6 DEF Touch, LeaveLoop, Collect, Step
  <2>2. QED
    BY <1>2, <2>1
<1>7. ASSUME NEW c \in Callers, NEW a \in Archetypes,
             FromCache(c, a) \/ Want(c, a) \/ Ask(c, a) \/ Answer(c, a)
               \/ Retry(c, a) \/ Fail(c, a)
      PROVE  Saved'
  <2>1. pc[c] \in {"loop", "wait"}
    BY <1>1, <1>7 DEF FromCache, Want, AtLoopTop, Ask, Answer, Retry, Fail, Pool, Asked
  <2>2. pc' = pc
    BY <1>7 DEF FromCache, Want, Ask, Answer, Retry, Fail
  <2>3. QED
    BY <1>3, <2>1, <2>2
<1>8. ASSUME NEW c \in Callers, Expire(c) PROVE Saved'
  BY <1>3, <1>8 DEF Expire
<1>9. ASSUME NEW c \in Callers, BeginWrite(c) PROVE Saved'
  <2>1. /\ \A d \in Callers : d # c => pc'[d] = "idle"
        /\ pc'[c] = "writing" /\ tmp' = Torn(cache) /\ cache' = cache
    BY <1>1, <1>9 DEF BeginWrite, Written, WriteTarget, Step, Solo
  <2>2. QED
    BY <2>1 DEF Saved, Torn
<1>10. ASSUME NEW c \in Callers, EndWrite(c) PROVE Saved'
  <2>1. /\ \A d \in Callers : d # c => pc'[d] = "idle"
        /\ pc'[c] = "rename" /\ tmp' = File(tmp.keys) /\ cache' = cache
    BY <1>1, <1>10 DEF EndWrite, Written, WriteTarget, Step, Solo
  <2>2. tmp.keys = cache
    BY <1>1, <1>10 DEF EndWrite, Step, Saved
  <2>3. QED
    BY <2>1, <2>2 DEF Saved
<1>11. ASSUME NEW c \in Callers, DiskFails(c) PROVE Saved'
  <2>1. /\ \A d \in Callers : pc'[d] \in {"idle", "end"}
        /\ lastErr' = "disk"
    BY <1>1, <1>11 DEF DiskFails, Step, Solo
  <2>2. QED
    BY <2>1 DEF Saved
<1>12. ASSUME NEW c \in Callers, Rename(c) PROVE Saved'
  <2>1. /\ \A d \in Callers : pc'[d] \in {"idle", "end"}
        /\ file' = File(cache) /\ cache' = cache
    BY <1>1, <1>12 DEF Rename, Step, Solo, Saved
  <2>2. QED
    BY <2>1 DEF Saved, File
<1>13. ASSUME NEW c \in Callers, Finish(c) PROVE Saved'
  <2>1. \A d \in Callers : pc[d] \in {"idle", "end"} /\ pc'[d] = "idle"
    BY <1>1, <1>13 DEF Finish, Step, Solo
  <2>2. file' = file /\ cache' = cache /\ lastErr' = lastErr
    BY <1>13 DEF Finish, diskVars
  <2>3. QED
    BY <1>1, <2>1, <2>2 DEF Saved
<1>14. UNCHANGED vars => Saved'
  BY <1>1 DEF vars, diskVars, Saved
<1>15. QED
  BY <1>4, <1>5, <1>6, <1>7, <1>8, <1>9, <1>10, <1>11, <1>12, <1>13, <1>14
     DEF Next, Work

(* The file holds the cache of some save, which was within the bound. *)
LEMMA FitsStep ==
  ASSUME IInv, [Next]_vars
  PROVE  Fits'
<1>1. ASSUME NEW S \in SUBSET ToSet(order)
      PROVE  IsFiniteSet(S) /\ Cardinality(S) <= MaxStory
  <2>1. order \in Seq(Stories) /\ Len(order) <= MaxStory
    BY DEF IInv, TypeOK, StoriesTracked
  <2>2. IsFiniteSet(S) /\ Cardinality(S) \in Nat /\ Cardinality(S) <= Len(order)
    BY <2>1, ListedFew
  <2>3. MaxStory \in Nat /\ Len(order) \in Nat
    BY <2>1, RelayAssumption
  <2>4. QED
    BY <2>1, <2>2, <2>3
<1>2. StoriesIn(cache) \subseteq ToSet(order)
  BY DEF IInv, StoriesTracked
<1>3. file' = file => Fits'
  BY DEF IInv, Fits, StoriesIn
<1>4. ASSUME NEW c \in Callers, Rename(c) PROVE Fits'
  <2>1. file' = File(cache)
    BY <1>4 DEF Rename, Step, IInv, Saved
  <2>2. StoriesIn(file.keys)' = StoriesIn(cache)
    BY <2>1 DEF File, StoriesIn
  <2>3. QED
    BY <1>1, <1>2, <2>2 DEF Fits
<1>5. \/ file' = file
      \/ \E c \in Callers : Rename(c)
  <2>1. Restart \/ UNCHANGED vars => file' = file
    BY DEF Restart, vars, diskVars
  <2>2. ASSUME NEW c \in Callers
        PROVE  /\ \A s \in Stories, ids \in SUBSET Archetypes : Start(c, s, ids) => file' = file
               /\ Expire(c) \/ Touch(c) \/ LeaveLoop(c) \/ Collect(c) => file' = file
               /\ DiskFails(c) \/ Finish(c) => file' = file
               /\ BeginWrite(c) \/ EndWrite(c) => file' = file
    BY DEF Start, Expire, Touch, LeaveLoop, Collect, DiskFails, Finish,
           BeginWrite, EndWrite, Written, WriteTarget, diskVars
  <2>3. ASSUME NEW c \in Callers, NEW a \in Archetypes
        PROVE  FromCache(c, a) \/ Want(c, a) \/ Ask(c, a) \/ Answer(c, a)
                 \/ Retry(c, a) \/ Fail(c, a) => file' = file
    BY DEF FromCache, Want, Ask, Answer, Retry, Fail, diskVars
  <2>4. QED
    BY <2>1, <2>2, <2>3 DEF Next, Work
<1>6. QED
  BY <1>3, <1>4, <1>5

-----------------------------------------------------------------------------

LEMMA Initially == Init => IInv
<1> SUFFICES ASSUME Init PROVE IInv
  OBVIOUS
<1>1. TypeOK /\ Asked
  BY TypeInit
<1>2. cache = {} /\ order = <<>> /\ file = File({}) /\ tmp = File({})
  BY DEF Init, NoFile
<1>3. \A c \in Callers : pc[c] = "idle" /\ story[c] = None
  BY DEF Init
<1>4. Solo
  BY <1>3 DEF Solo
<1>5. FileNeverTorn /\ Saved
  BY <1>2, <1>3 DEF File, FileNeverTorn, Saved
<1>6. StoriesIn({}) = {} /\ Cardinality({}) = 0 /\ IsFiniteSet({})
  BY FS_EmptySet DEF StoriesIn
<1>7. MaxStory \in Nat
  BY RelayAssumption
<1>8. Fits
  <2>1. file.keys = {}
    BY <1>2 DEF File
  <2>2. QED
    BY <1>6, <1>7, <2>1 DEF Fits
<1>9. StoriesTracked
  <2>1. order \in Seq(Stories) /\ Len(order) = 0 /\ DOMAIN order = {}
    BY <1>2, EmptySeq
  <2>2. StoriesIn(cache) = {}
    BY <1>2, <1>6
  <2>3. QED
    BY <1>3, <1>7, <2>1, <2>2 DEF StoriesTracked, IsInjective
<1>10. QED
  BY <1>1, <1>4, <1>5, <1>8, <1>9 DEF IInv

LEMMA Inductive == IInv /\ [Next]_vars => IInv'
<1> SUFFICES ASSUME IInv, [Next]_vars PROVE IInv'
  OBVIOUS
<1>1. TypeOK' /\ Asked' /\ Solo' /\ StoriesTracked' /\ Fits' /\ Saved'
  BY TypeStep, SoloStep, TrackedStep, FitsStep, SavedStep
<1>2. FileNeverTorn'
  BY FileTypes DEF IInv, FileNeverTorn
<1>3. QED
  BY <1>1, <1>2 DEF IInv

LEMMA Invariant == Spec => []IInv
BY Initially, Inductive, PTL DEF Spec

(* The list and the cache agree on what there is to evict, through any      *)
(* number of Runs, failures, deadlines and restarts: no reaction outlives   *)
(* its story's turn to go (touchStory and load of relay.go).                *)
THEOREM Tracked == Spec => []StoriesTracked
<1>1. IInv => StoriesTracked
  BY DEF IInv
<1>2. QED
  BY Invariant, <1>1, PTL

(* The state of the cache, its Runs and its files has the types declared    *)
(* for it: in particular an asked archetype is always one of Run's.         *)
THEOREM Types == Spec => []TypeOK
<1>1. IInv => TypeOK
  BY DEF IInv
<1>2. QED
  BY Invariant, <1>1, PTL

(* One Run at a time, however many ask: between taking the flag and giving  *)
(* it up on any of its ways out, a Run has the counters, the eviction and   *)
(* the file to itself (Run's CompareAndSwap and its deferred Store).        *)
OneAtATime ==
  \A c, d \in Callers : pc[c] # "idle" /\ pc[d] # "idle" => running /\ c = d

(* No failure, deadline, crash or restart lets a second one in.             *)
THEOREM OneRun == Spec => []OneAtATime
<1>1. IInv => OneAtATime
  BY DEF IInv, Solo, OneAtATime
<1>2. QED
  BY Invariant, <1>1, PTL

(* A crash between any two steps of save leaves a file that load can read:  *)
(* the rename only ever puts a complete one there (save of relay.go).       *)
THEOREM NeverTorn == Spec => []FileNeverTorn
<1>1. IInv => FileNeverTorn
  BY DEF IInv
<1>2. QED
  BY Invariant, <1>1, PTL

(* A restart between Runs brings back the cache as it was, cut by nothing,  *)
(* unless the disk refused (relay.go's save and load).                      *)
THEOREM Durable == Spec => []DurableBetweenRuns
<1>1. ASSUME IInv, ~running, lastErr # "disk" PROVE OnDisk = cache
  <2>1. \A c \in Callers : pc[c] = "idle"
    BY <1>1 DEF IInv, Solo
  <2>2. file.keys = cache /\ file.whole
    BY <1>1, <2>1 DEF IInv, Saved, FileNeverTorn
  <2>3. QED
    BY <2>2 DEF OnDisk
<1>2. IInv => DurableBetweenRuns
  BY <1>1 DEF DurableBetweenRuns
<1>3. QED
  BY Invariant, <1>2, PTL

(* Short of a crash, a step takes all the reactions to a story or none, and *)
(* none to the story of a Run in progress (touchStory's eviction).          *)
THEOREM WholeStories == Spec => EvictsWholeStories
<1> DEFINE Whole(s) ==
      cache \cap Of(s) \subseteq cache' \/ (cache' \cap Of(s) = {} /\ s \notin Range(story))
    Act == Restart \/ \A s \in Stories : Whole(s)
<1>1. ASSUME IInv, [Next]_vars PROVE Act
  <2>1. ASSUME cache \subseteq cache' PROVE Act
    BY <2>1
  <2>2. ASSUME NEW c \in Callers, Touch(c), NEW s \in Stories PROVE Whole(s)
    <3>1. story[c] \in Stories /\ \A d \in Callers : d # c => story[d] = None
      BY <1>1, <2>2 DEF Touch, Step, IInv, Solo
    <3>2. story[c] \in ToSet(order') /\ cache' = Kept(cache, order')
      BY <1>1, <2>2, <3>1, TouchKeeps DEF IInv
    <3>3. CASE s \in ToSet(order')
      BY <3>2, <3>3 DEF Of, Kept
    <3>4. CASE s \notin ToSet(order')
      <4>1. cache' \cap Of(s) = {}
        BY <3>2, <3>4 DEF Of, Kept
      <4>2. s # story[c] /\ s # None
        BY <3>2, <3>4, RelayAssumption
      <4>3. story \in [Callers -> Stories \cup {None}]
        BY <1>1 DEF IInv, TypeOK
      <4>4. s \notin Range(story)
        BY <3>1, <4>2, <4>3 DEF Range
      <4>5. QED
        BY <4>1, <4>4
    <3>5. QED
      BY <3>3, <3>4
  <2>3. ASSUME NEW c \in Callers
        PROVE  /\ \A s \in Stories, ids \in SUBSET Archetypes :
                    Start(c, s, ids) => cache \subseteq cache'
               /\ Expire(c) \/ LeaveLoop(c) \/ Collect(c) => cache \subseteq cache'
               /\ BeginWrite(c) \/ EndWrite(c) \/ DiskFails(c) \/ Rename(c) \/ Finish(c)
                    => cache \subseteq cache'
    BY DEF Start, Expire, LeaveLoop, Collect, BeginWrite, EndWrite, DiskFails, Rename, Finish
  <2>4. ASSUME NEW c \in Callers, NEW a \in Archetypes
        PROVE  FromCache(c, a) \/ Want(c, a) \/ Ask(c, a) \/ Answer(c, a)
                 \/ Retry(c, a) \/ Fail(c, a) => cache \subseteq cache'
    BY DEF FromCache, Want, Ask, Answer, Retry, Fail
  <2>5. UNCHANGED vars => cache \subseteq cache'
    BY DEF vars
  <2>6. QED
    BY <1>1, <2>1, <2>2, <2>3, <2>4, <2>5 DEF Next, Work
<1>2. IInv /\ [Next]_vars =>
      [\/ Restart
       \/ \A s \in Stories :
            \/ cache \cap Of(s) \subseteq cache'
            \/ cache' \cap Of(s) = {} /\ s \notin Range(story)]_vars
  BY <1>1
<1>3. QED
  BY Invariant, <1>2, PTL DEF Spec, EvictsWholeStories

-----------------------------------------------------------------------------
(* What a Run has counted *)

(* D, the archetypes counted as done without a failure, have their reaction *)
(* and are neither ahead of the loop nor in the pool.                       *)
Tally(c, D) ==
  /\ D \cap (todo[c] \cup DOMAIN asking[c]) = {}
  /\ todo[c] \cap DOMAIN asking[c] = {}
  /\ \A a \in D : <<a, story[c]>> \in cache
  /\ done = Cardinality(D) + failed
  /\ ~expired[c] =>
       total = done + Cardinality(todo[c]) + Cardinality(DOMAIN asking[c])

Counted ==
  /\ DOMAIN expired = Callers
  /\ \A c \in Callers :
       /\ pc[c] = "touch" => done = 0 /\ failed = 0 /\ total = Cardinality(todo[c])
       /\ pc[c] \notin {"idle", "touch"} => \E D \in SUBSET Archetypes : Tally(c, D)
       /\ pc[c] \notin {"idle", "touch", "loop"} => todo[c] = {}

LEMMA OneMoreOneLess ==
  ASSUME NEW S \in SUBSET Archetypes
  PROVE  /\ Cardinality(S) \in Nat
         /\ \A a \in S : Cardinality(S \ {a}) + 1 = Cardinality(S)
         /\ \A a \in Archetypes \ S : Cardinality(S \cup {a}) = Cardinality(S) + 1
<1>1. IsFiniteSet(S)
  BY RelayAssumption, FS_Subset
<1>2. Cardinality(S) \in Nat
  BY <1>1, FS_CardinalityType
<1>3. \A a \in S : Cardinality(S \ {a}) = Cardinality(S) - 1
  BY <1>1, FS_RemoveElement
<1>4. \A a \in Archetypes \ S : Cardinality(S \cup {a}) = Cardinality(S) + 1
  BY <1>1, FS_AddElement
<1>5. QED
  BY <1>2, <1>3, <1>4

(* One archetype is counted, or goes from the loop into the pool. *)
LEMMA CountOne ==
  ASSUME IInv, NEW c \in Callers, NEW a \in Archetypes, NEW D \in SUBSET Archetypes,
         Tally(c, D), story' = story, expired' = expired, total' = total,
         FromCache(c, a) \/ Want(c, a) \/ Answer(c, a) \/ Fail(c, a)
  PROVE  \E E \in SUBSET Archetypes : Tally(c, E)'
<1> DEFINE T == todo[c]
           A == DOMAIN asking[c]
           s == story[c]
<1>1. /\ T \in SUBSET Archetypes /\ A \in SUBSET Archetypes
      /\ T \cap A = {} /\ D \cap (T \cup A) = {}
      /\ \A x \in D : <<x, s>> \in cache
      /\ done = Cardinality(D) + failed /\ failed \in Nat /\ done \in Nat /\ total \in Nat
      /\ ~expired[c] => total = done + Cardinality(T) + Cardinality(A)
      /\ todo \in [Callers -> SUBSET Archetypes] /\ DOMAIN asking = Callers
  BY DEF Tally, IInv, TypeOK, Asked
<1>2. Cardinality(T) \in Nat /\ Cardinality(A) \in Nat /\ Cardinality(D) \in Nat
  BY <1>1, OneMoreOneLess
<1>3. CASE FromCache(c, a)
  <2>1. a \in T /\ a \notin D /\ <<a, s>> \in cache
    BY <1>1, <1>3 DEF FromCache, AtLoopTop
  <2>2. /\ todo'[c] = T \ {a} /\ asking' = asking /\ cache' = cache
        /\ done' = done + 1 /\ failed' = failed
    BY <1>1, <1>3 DEF FromCache
  <2>3. Cardinality(T \ {a}) + 1 = Cardinality(T) /\ Cardinality(T \ {a}) \in Nat
    BY <1>1, <2>1, OneMoreOneLess
  <2>4. Cardinality(D \cup {a}) = Cardinality(D) + 1
    BY <2>1, OneMoreOneLess
  <2>5. Tally(c, D \cup {a})'
    BY <1>1, <1>2, <2>1, <2>2, <2>3, <2>4 DEF Tally
  <2>6. QED
    BY <2>5
<1>4. CASE Want(c, a)
  <2>1. a \in T /\ a \notin A
    BY <1>1, <1>4 DEF Want, AtLoopTop
  <2>2. /\ todo'[c] = T \ {a} /\ DOMAIN asking'[c] = A \cup {a} /\ cache' = cache
        /\ done' = done /\ failed' = failed
    BY <1>1, <1>4 DEF Want, countVars
  <2>3. Cardinality(T \ {a}) + 1 = Cardinality(T) /\ Cardinality(T \ {a}) \in Nat
    BY <1>1, <2>1, OneMoreOneLess
  <2>4. Cardinality(A \cup {a}) = Cardinality(A) + 1
    BY <1>1, <2>1, OneMoreOneLess
  <2>5. Tally(c, D)'
    BY <1>1, <1>2, <2>1, <2>2, <2>3, <2>4 DEF Tally
  <2>6. QED
    BY <2>5
<1>5. CASE Answer(c, a) \/ Fail(c, a)
  <2>1. a \in A /\ a \notin D
    BY <1>1, <1>5 DEF Answer, Fail, Pool
  <2>2. todo' = todo /\ DOMAIN asking'[c] = A \ {a} /\ done' = done + 1
    BY <1>1, <1>5 DEF Answer, Fail, Dismiss
  <2>3. Cardinality(A \ {a}) + 1 = Cardinality(A) /\ Cardinality(A \ {a}) \in Nat
    BY <1>1, <2>1, OneMoreOneLess
  <2>4. Cardinality(D \cup {a}) = Cardinality(D) + 1
    BY <2>1, OneMoreOneLess
  <2>5. CASE Answer(c, a)
    <3>1. cache' = cache \cup {<<a, s>>} /\ failed' = failed
      BY <2>5 DEF Answer
    <3>2. Tally(c, D \cup {a})'
      BY <1>1, <1>2, <2>1, <2>2, <2>3, <2>4, <3>1 DEF Tally
    <3>3. QED
      BY <3>2
  <2>6. CASE Fail(c, a)
    <3>1. cache' = cache /\ failed' = failed + 1
      BY <2>6 DEF Fail
    <3>2. Tally(c, D)'
      BY <1>1, <1>2, <2>1, <2>2, <2>3, <3>1 DEF Tally
    <3>3. QED
      BY <3>2
  <2>7. QED
    BY <1>5, <2>5, <2>6
<1>6. QED
  BY <1>3, <1>4, <1>5

LEMMA CountedStep ==
  ASSUME IInv, Counted, [Next]_vars
  PROVE  Counted'
<1>1. /\ pc \in [Callers -> PCs] /\ todo \in [Callers -> SUBSET Archetypes]
      /\ story \in [Callers -> Stories \cup {None}]
      /\ DOMAIN asking = Callers /\ DOMAIN expired = Callers
      /\ \A c \in Callers : DOMAIN asking[c] \subseteq Archetypes
      /\ Asked /\ Solo /\ Counted
  BY DEF IInv, TypeOK, Asked, Counted
<1>2. Cardinality({}) = 0 /\ {} \in SUBSET Archetypes
  BY FS_EmptySet
<1>3. ASSUME NEW c \in Callers, pc[c] # "idle"
      PROVE  \A d \in Callers : d # c => pc[d] = "idle"
  BY <1>1, <1>3 DEF Solo
(* What the others are at does not matter: they are idle. *)
<1>4. ASSUME NEW c \in Callers, pc[c] # "idle", DOMAIN expired' = Callers,
             \A d \in Callers : d # c => pc'[d] = pc[d],
             pc'[c] \notin {"idle", "touch"} => \E D \in SUBSET Archetypes : Tally(c, D)',
             pc'[c] = "touch" => done' = 0 /\ failed' = 0 /\ total' = Cardinality(todo'[c]),
             pc'[c] \notin {"idle", "touch", "loop"} => todo'[c] = {}
      PROVE  Counted'
  <2>1. \A d \in Callers : d # c => pc'[d] = "idle"
    BY <1>3, <1>4
  <2>2. QED
    BY <1>4, <2>1 DEF Counted
<1>5. ASSUME \A d \in Callers : pc'[d] = "idle", DOMAIN expired' = Callers PROVE Counted'
  BY <1>5 DEF Counted
<1>6. Restart => Counted'
  BY <1>5 DEF Restart
<1>7. ASSUME NEW c \in Callers, NEW s \in Stories, NEW ids \in SUBSET Archetypes,
             Start(c, s, ids)
      PROVE  Counted'
  <2>1. \A d \in Callers : d # c => pc'[d] = "idle"
    BY <1>1, <1>7 DEF Start, Admitted, Step, Solo
  <2>2. /\ pc'[c] = "touch" /\ todo'[c] = ids /\ DOMAIN expired' = Callers
        /\ total' = Cardinality(ids) /\ done' = 0 /\ failed' = 0
    BY <1>1, <1>7 DEF Start, Step
  <2>3. QED
    BY <2>1, <2>2 DEF Counted
<1>8. ASSUME NEW c \in Callers, Touch(c) PROVE Counted'
  <2>1. /\ pc[c] = "touch" /\ pc'[c] = "loop" /\ \A d \in Callers : d # c => pc'[d] = pc[d]
        /\ todo' = todo /\ asking' = asking /\ expired' = expired
        /\ done' = done /\ failed' = failed /\ total' = total
    BY <1>1, <1>8 DEF Touch, Step, runVars, countVars
  <2>2. /\ DOMAIN asking[c] = {} /\ done = 0 /\ failed = 0 /\ total = Cardinality(todo[c])
    BY <1>1, <2>1 DEF Asked, Counted
  <2>3. Cardinality(todo[c]) \in Nat
    BY <1>1, OneMoreOneLess
  <2>4. Tally(c, {})'
    BY <1>2, <2>1, <2>2, <2>3 DEF Tally
  <2>5. QED
    BY <1>1, <1>2, <1>4, <2>1, <2>4
<1>9. ASSUME NEW c \in Callers, Expire(c) PROVE Counted'
  <2>1. /\ pc[c] \in {"touch", "loop", "wait"} /\ pc' = pc
        /\ todo' = todo /\ asking' = asking /\ story' = story /\ cache' = cache
        /\ done' = done /\ failed' = failed /\ total' = total
        /\ expired'[c] /\ DOMAIN expired' = Callers
    BY <1>1, <1>9 DEF Expire, countVars
  <2>2. \A D \in SUBSET Archetypes : Tally(c, D) => Tally(c, D)'
    BY <2>1 DEF Tally
  <2>3. QED
    BY <1>1, <1>4, <2>1, <2>2 DEF Counted
<1>10. ASSUME NEW c \in Callers, NEW a \in Archetypes,
              FromCache(c, a) \/ Want(c, a) \/ Answer(c, a) \/ Fail(c, a)
       PROVE  Counted'
  <2>1. /\ pc[c] \in {"loop", "wait"} /\ pc' = pc /\ story' = story
        /\ expired' = expired /\ total' = total
    BY <1>1, <1>10 DEF FromCache, Want, AtLoopTop, Answer, Fail, Pool, Asked, countVars
  <2>2. \E D \in SUBSET Archetypes : Tally(c, D)'
    <3>1. PICK D \in SUBSET Archetypes : Tally(c, D)
      BY <1>1, <2>1 DEF Counted
    <3>2. QED
      BY <1>10, <2>1, <3>1, CountOne
  <2>3. pc[c] = "wait" => todo' = todo
    BY <1>10 DEF FromCache, Want, AtLoopTop, Answer, Fail
  <2>4. QED
    BY <1>1, <1>4, <2>1, <2>2, <2>3 DEF Counted
<1>11. ASSUME NEW c \in Callers, NEW a \in Archetypes, Ask(c, a) \/ Retry(c, a)
       PROVE  Counted'
  <2>1. /\ pc[c] \in {"loop", "wait"} /\ pc' = pc /\ story' = story /\ cache' = cache
        /\ expired' = expired /\ total' = total /\ done' = done /\ failed' = failed
        /\ todo' = todo /\ DOMAIN asking'[c] = DOMAIN asking[c]
    BY <1>1, <1>11 DEF Ask, Retry, Pool, Asked, countVars
  <2>2. \A D \in SUBSET Archetypes : Tally(c, D) => Tally(c, D)'
    BY <2>1 DEF Tally
  <2>3. QED
    BY <1>1, <1>4, <2>1, <2>2 DEF Counted
<1>12. ASSUME NEW c \in Callers, LeaveLoop(c) PROVE Counted'
  <2>1. /\ pc[c] = "loop" /\ pc'[c] = "wait" /\ \A d \in Callers : d # c => pc'[d] = pc[d]
        /\ story' = story /\ cache' = cache /\ asking' = asking
        /\ expired' = expired /\ total' = total /\ done' = done /\ failed' = failed
        /\ todo'[c] = {} /\ (todo[c] = {} \/ expired[c])
    BY <1>1, <1>12 DEF LeaveLoop, Step, countVars
  <2>2. \A D \in SUBSET Archetypes : Tally(c, D) => Tally(c, D)'
    BY <2>1 DEF Tally
  <2>3. QED
    BY <1>1, <1>4, <2>1, <2>2 DEF Counted
<1>13. ASSUME NEW c \in Callers,
              Collect(c) \/ BeginWrite(c) \/ EndWrite(c) \/ DiskFails(c) \/ Rename(c)
       PROVE  Counted'
  <2>1. /\ pc[c] \notin {"idle", "touch", "loop"}
        /\ pc'[c] \notin {"idle", "touch", "loop"}
        /\ \A d \in Callers : d # c => pc'[d] = pc[d]
    BY <1>1, <1>13 DEF Collect, BeginWrite, EndWrite, DiskFails, Rename, Step
  <2>2. /\ story' = story /\ cache' = cache /\ asking' = asking /\ todo' = todo
        /\ expired' = expired /\ total' = total /\ done' = done /\ failed' = failed
    BY <1>13 DEF Collect, BeginWrite, EndWrite, DiskFails, Rename, runVars, countVars
  <2>3. \A D \in SUBSET Archetypes : Tally(c, D) => Tally(c, D)'
    BY <2>2 DEF Tally
  <2>4. QED
    BY <1>1, <1>4, <2>1, <2>2, <2>3 DEF Counted
<1>14. ASSUME NEW c \in Callers, Finish(c) PROVE Counted'
  <2>1. /\ pc[c] = "end" /\ pc'[c] = "idle" /\ DOMAIN expired' = Callers
        /\ \A d \in Callers : d # c => pc'[d] = pc[d]
    BY <1>1, <1>14 DEF Finish, Step
  <2>2. QED
    BY <1>4, <2>1
<1>15. UNCHANGED vars => Counted'
  BY <1>1 DEF vars, runVars, countVars, Counted, Tally
<1>16. QED
  BY <1>6, <1>7, <1>8, <1>9, <1>10, <1>11, <1>12, <1>13, <1>14, <1>15 DEF Next, Work

(* By the time a Run saves, each archetype it counted as done without a     *)
(* failure has its reaction, and unless its deadline passed it has counted  *)
(* every archetype once (the loop, the pool and the counters of Run).       *)
THEOREM EveryArchetype == Spec => []RunCountsEveryArchetype
<1>1. Init => Counted
  BY DEF Init, Counted
<1>2. IInv /\ Counted /\ [Next]_vars => Counted'
  BY CountedStep
<1>3. ASSUME IInv, Counted, NEW c \in Callers,
             pc[c] \in {"write", "writing", "rename", "end"}
      PROVE  /\ done - failed <= Cardinality(cache \cap Of(story[c]))
             /\ ~expired[c] => done = total
  <2>1. todo[c] = {} /\ DOMAIN asking[c] = {} /\ failed \in Nat /\ done \in Nat /\ story[c] \in Stories
    BY <1>3 DEF IInv, TypeOK, Asked, Solo, Counted
  <2>2. PICK D \in SUBSET Archetypes : Tally(c, D)
    BY <1>3 DEF Counted
  <2> DEFINE X == {a \in Archetypes : <<a, story[c]>> \in cache}
             f == [a \in X |-> <<a, story[c]>>]
  <2>3. IsFiniteSet(X) /\ D \in SUBSET X
    BY <2>2, RelayAssumption, FS_Subset DEF Tally
  <2>4. Cardinality(D) <= Cardinality(X) /\ Cardinality(D) \in Nat
    BY <2>3, OneMoreOneLess, FS_Subset
  <2>5. f \in Bijection(X, cache \cap Of(story[c]))
    <3>1. \A k \in cache \cap Of(story[c]) : \E a \in X : k = <<a, story[c]>>
      BY DEF Of, Keys
    <3>2. \A a \in X : <<a, story[c]>> \in cache \cap Of(story[c])
      BY <2>1 DEF Of, Keys
    <3>3. QED
      BY <3>1, <3>2 DEF Bijection, Injection, Surjection, IsInjective
  <2>6. Cardinality(cache \cap Of(story[c])) = Cardinality(X)
    BY <2>3, <2>5, FS_Bijection DEF ExistsBijection
  <2>7. done = Cardinality(D) + failed
    BY <2>2 DEF Tally
  <2>8. ~expired[c] => done = total
    BY <2>1, <2>2, FS_EmptySet DEF Tally
  <2>9. QED
    BY <2>1, <2>4, <2>6, <2>7, <2>8
<1>4. IInv /\ Counted => RunCountsEveryArchetype
  BY <1>3 DEF RunCountsEveryArchetype
<1>5. QED
  BY Invariant, <1>1, <1>2, <1>4, PTL DEF Spec

=============================================================================
