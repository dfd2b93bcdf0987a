------------------------------ MODULE ChatProofs ------------------------------
(***************************************************************************)
(* For any friends, stories, dialogues and cascades, however handlers,     *)
(* goroutines and ticks interleave: the group chat stays threaded as it    *)
(* scrolls, nobody has spoken who has not heard, and the scripted lines of *)
(* a telling are one author's.                                             *)
(*                                                                         *)
(* The invariant ties the script's bookkeeping to the history: a turn that *)
(* has landed is before the cursor and its message, while it is kept, is   *)
(* the script's and answers where the turn it answers landed; no line is   *)
(* of a telling after the script's, nor of the same before its first turn, *)
(* which is when the dialogue may still be replaced.                       *)
(***************************************************************************)
EXTENDS Chat, DataLemmas

-----------------------------------------------------------------------------
(* What a loop that may append has collected *)

(* Those of a list who are among some are among them. *)
LEMMA AmongAre ==
  ASSUME NEW E, NEW list \in Seq(E), NEW some
  PROVE  Among(list, some) \in Seq(some)
<1> DEFINE Longer(g, n) == IF n = 0 THEN <<>>
                           ELSE IF list[n] \in some THEN Append(g[n - 1], list[n]) ELSE g[n - 1]
           Is(g, m) == g = [n \in 0..m |-> Longer(g, n)]
           S == {m \in Nat : \E g : Is(g, m)}
<1>1. 0 \in S
  <2> DEFINE g == [n \in 0..0 |-> <<>>]
  <2>1. \A n \in 0..0 : Longer(g, n) = <<>>
    OBVIOUS
  <2>2. Is(g, 0)
    BY <2>1
  <2>3. QED
    BY <2>2
<1>2. ASSUME NEW m \in Nat, m \in S PROVE m + 1 \in S
  <2>1. PICK g : Is(g, m)
    BY <1>2
  <2> DEFINE h == [n \in 0..(m + 1) |-> Longer(g, n)]
  <2>2. \A n \in 0..m : h[n] = g[n] /\ n \in 0..(m + 1)
    <3> HIDE DEF Longer
    <3>1. \A n \in 0..m : n \in 0..(m + 1)
      OBVIOUS
    <3>2. QED
      BY <2>1, <3>1
  <2>3. \A n \in 0..(m + 1) : n # 0 => n - 1 \in 0..m
    OBVIOUS
  <2>4. \A n \in 0..(m + 1) : n # 0 => h[n - 1] = g[n - 1]
    BY <2>2, <2>3
  <2>5. \A n \in 0..(m + 1) : Longer(g, n) = Longer(h, n)
    <3> HIDE DEF h
    <3>1. QED
      BY <2>4
  <2>6. Is(h, m + 1)
    <3> HIDE DEF Longer
    <3>1. [n \in 0..(m + 1) |-> Longer(g, n)] = [n \in 0..(m + 1) |-> Longer(h, n)]
      <4> HIDE DEF h
      <4>1. QED
        BY <2>5
    <3>2. QED
      BY <3>1
  <2>7. m + 1 \in Nat
    OBVIOUS
  <2> HIDE DEF Is, h
  <2>8. QED
    BY <2>6, <2>7
<1>3. Len(list) \in Nat /\ DOMAIN list = 1..Len(list)
  OBVIOUS
<1>4. \E g : Is(g, Len(list))
  <2> HIDE DEF Is
  <2>1. Nat \subseteq S
    <3> HIDE DEF S
    <3>1. QED
      BY <1>1, <1>2, Induction
  <2>2. QED
    BY <1>3, <2>1
<1> DEFINE f == CHOOSE g : Is(g, Len(list))
<1>5. Is(f, Len(list))
  <2> HIDE DEF Is
  <2>1. QED
    BY <1>4
<1>6. Among(list, some) = f[Len(list)]
  BY DEF Among
<1> HIDE DEF f
<1>7. \A n \in 0..Len(list) : f[n] = Longer(f, n)
  BY <1>5
<1>8. \A n \in Nat : n <= Len(list) => f[n] \in Seq(some)
  <2> DEFINE N == {n \in Nat : n <= Len(list) => f[n] \in Seq(some)}
  <2>1. 0 \in N
    <3>1. 0 \in 0..Len(list)
      BY <1>3
    <3>2. f[0] = <<>>
      BY <1>7, <3>1
    <3>3. <<>> \in Seq(some)
      BY EmptySeq
    <3>4. QED
      BY <3>2, <3>3
  <2>2. ASSUME NEW n \in Nat, n \in N PROVE n + 1 \in N
    <3> SUFFICES ASSUME n + 1 <= Len(list) PROVE f[n + 1] \in Seq(some)
      OBVIOUS
    <3>1. /\ n + 1 \in 0..Len(list) /\ n + 1 # 0 /\ (n + 1) - 1 = n /\ n <= Len(list)
      BY <1>3
    <3>2. f[n + 1] = Longer(f, n + 1)
      BY <1>7, <3>1
    <3>3. f[n + 1] = IF list[n + 1] \in some THEN Append(f[n], list[n + 1]) ELSE f[n]
      BY <3>1, <3>2
    <3>4. f[n] \in Seq(some)
      BY <2>2, <3>1
    <3>5. list[n + 1] \in some => Append(f[n], list[n + 1]) \in Seq(some)
      BY <3>4, AppendProperties
    <3>6. QED
      BY <3>3, <3>4, <3>5
  <2> HIDE DEF N
  <2>3. Nat \subseteq N
    BY <2>1, <2>2, Induction
  <2>4. QED
    BY <2>3 DEF N
<1>9. QED
  BY <1>3, <1>6, <1>8

-----------------------------------------------------------------------------
(* The invariant *)

Writers == [by : Int, telling : Nat, for : Cohorts \cup {<<>>}]
Lines   == [id : Nat, from : People, reply : Nat, by : Writers, turn : Nat]
Talks   == [speaker : 1..Size, replyTo : Nat]
Tasks   == [pc : {"warming", "asking", "over"}, story : Stories \cup {Nobody},
            members : Cohorts \cup {<<>>}]

(* Who there is, and what they are about. *)
World ==
  /\ friends \in Cohorts /\ heard \subseteq People
  /\ prev = Nobody \/ prev \subseteq heard \cap ToSet(friends)
  /\ story \in Stories \cup {Nobody}
  /\ acts \in Nat /\ warm \in Seq(Tasks) /\ Len(warm) = acts

(* A turn answers one before it, and the cursor is at a turn or past them.  *)
Proper(turns) ==
  turns \in Seq(Talks) /\ \A k \in DOMAIN turns : turns[k].replyTo < k

Scripted ==
  /\ Proper(script)
  /\ landed \in Seq(Nat) /\ Len(landed) = Len(script)
  /\ cursor \in 1..(Len(script) + 1) /\ waited \in -1..(StallLimit - 1)
  /\ author \in Writers /\ author.telling <= acts

(* Ids grow along the history, and have all been given out. *)
Ordered(history) ==
  \A i, j \in DOMAIN history : i < j => history[i].id < history[j].id

History ==
  /\ messages \in Seq(Lines) /\ Len(messages) <= MaxHistory
  /\ nextMsgID \in Nat \ {0}
  /\ Ordered(messages)
  /\ \A i \in DOMAIN messages : messages[i].id < nextMsgID

(* No line is of a later telling than the script's, and none of the same    *)
(* one by another author, nor any before the script has begun.              *)
Telling ==
  \A i \in DOMAIN messages : messages[i].by.by >= 0 =>
    /\ messages[i].by.telling <= author.telling
    /\ messages[i].by.telling = author.telling => messages[i].by = author /\ cursor > 1

(* What a turn that has landed answers, and what its message says it does.  *)
Answered(k) == IF script[k].replyTo = 0 THEN 0 ELSE landed[script[k].replyTo]

LandedRight(k) ==
  landed[k] > 0 =>
    /\ k < cursor /\ landed[k] < nextMsgID
    /\ \A j \in 1..(k - 1) : landed[j] < landed[k]
    /\ script[k].replyTo > 0 => landed[script[k].replyTo] > 0
    /\ \A i \in InHistory(landed[k]) :
         messages[i].by = author /\ messages[i].turn = k /\ messages[i].reply = Answered(k)

Landing == \A k \in DOMAIN landed : LandedRight(k)

ChatIInv ==
  /\ World /\ Scripted /\ History
  /\ SpeakersHaveHeard /\ Telling /\ OneAuthor /\ Landing

-----------------------------------------------------------------------------
(* Scripts *)

LEMMA FriendsAre ==
  ASSUME NEW c \in Cohorts
  PROVE  /\ c \in Seq(People) /\ Len(c) = Size /\ DOMAIN c = 1..Size
         /\ \A i \in 1..Size : c[i] \in People /\ c[i] \in ToSet(c)
         /\ ToSet(c) \subseteq People
<1>1. c \in Seq(People) /\ Len(c) = Size /\ Size \in Nat
  BY ChatAssumption
<1>2. DOMAIN c = 1..Size
  BY <1>1, LenProperties
<1>3. \A i \in 1..Size : c[i] \in People
  BY <1>1, ElementOfSeq
<1>4. QED
  BY <1>1, <1>2, <1>3 DEF ToSet

LEMMA CannedProper ==
  ASSUME NEW turns \in CannedScripts
  PROVE  Proper(turns)
<1>1. Size \in Nat /\ Size > 0 /\ MaxTangents \in Nat
  BY ChatAssumption
<1>2. ASSUME NEW o \in Openings
      PROVE  o \in [1..Size -> Talks] /\ \A i \in 1..Size : o[i].replyTo < i
  <2>1. PICK order \in [1..Size -> 1..Size], to \in [1..Size -> 0..(Size - 1)] :
          /\ to[1] = 0 /\ \A i \in 2..Size : to[i] \in 1..(i - 1)
          /\ o = [i \in 1..Size |-> Turn(order[i], to[i])]
    BY DEF Openings
  <2>2. \A i \in 1..Size : i = 1 \/ i \in 2..Size
    BY <1>1
  <2>3. ASSUME NEW i \in 2..Size PROVE to[i] \in Nat /\ to[i] < i
    <3>1. to[i] \in 1..(i - 1)
      BY <2>1
    <3>4. i \in Nat
      BY <1>1
    <3>2. \A n \in 1..(i - 1) : n \in Nat /\ n < i
      BY <3>4
    <3>3. QED
      BY <3>1, <3>2
  <2>4. \A i \in 1..Size : to[i] \in Nat /\ to[i] < i
    BY <2>1, <2>2, <2>3
  <2>5. \A i \in 1..Size : o[i] = Turn(order[i], to[i]) /\ order[i] \in 1..Size
    BY <2>1
  <2>6. ASSUME NEW i \in 1..Size PROVE o[i] \in Talks /\ o[i].replyTo < i
    <3>1. o[i] = [speaker |-> order[i], replyTo |-> to[i]]
      BY <2>5 DEF Turn
    <3>2. order[i] \in 1..Size /\ to[i] \in Nat /\ to[i] < i
      BY <2>4, <2>5
    <3> HIDE DEF Openings
    <3>3. QED
      BY <3>1, <3>2 DEF Talks
  <2>7. o \in [1..Size -> Talks]
    <3>1. \A i \in 1..Size : Turn(order[i], to[i]) \in Talks
      BY <2>5, <2>6
    <3>2. QED
      BY <2>1, <3>1
  <2>8. QED
    BY <2>6, <2>7
<1>3. ASSUME NEW n \in 1..MaxTangents, NEW t \in Tangents(n)
      PROVE  t \in [1..n -> Talks] /\ \A i \in 1..n : t[i].replyTo < Size + i
  <2>1. PICK s \in [1..n -> 1..Size] : t = [i \in 1..n |-> Turn(s[i], Size + i - 1)]
    BY DEF Tangents
  <2>2. \A i \in 1..n : Size + i - 1 \in Nat /\ Size + i - 1 < Size + i /\ s[i] \in 1..Size
    BY <1>1
  <2>3. \A i \in 1..n : t[i] = Turn(s[i], Size + i - 1)
    BY <2>1
  <2>4. \A i \in 1..n : Turn(s[i], Size + i - 1) \in Talks
    BY <2>2 DEF Turn, Talks
  <2>5. ASSUME NEW i \in 1..n PROVE t[i].replyTo < Size + i
    <3>1. t[i] = [speaker |-> s[i], replyTo |-> Size + i - 1]
      BY <2>3 DEF Turn
    <3>2. t[i].replyTo = Size + i - 1
      BY <3>1
    <3>3. QED
      BY <2>2, <3>2
  <2>6. QED
    BY <2>1, <2>4, <2>5
<1>4. PICK b \in Openings, t \in UNION {Tangents(k) : k \in 1..MaxTangents} : turns = b \o t
  BY DEF CannedScripts
<1>5. PICK n \in 1..MaxTangents : t \in Tangents(n)
  OBVIOUS
<1>6. n \in Nat
  BY <1>1
<1>7. /\ b \in [1..Size -> Talks] /\ \A i \in 1..Size : b[i].replyTo < i
      /\ t \in [1..n -> Talks] /\ \A i \in 1..n : t[i].replyTo < Size + i
  BY <1>2, <1>3, <1>5
<1>8. b \in Seq(Talks) /\ t \in Seq(Talks) /\ Len(b) = Size /\ Len(t) = n
  <2>1. b \in Seq(Talks) /\ t \in Seq(Talks)
    BY <1>1, <1>6, <1>7, SeqDef
  <2>2. QED
    BY <1>1, <1>6, <1>7, <2>1, LenProperties
<1>9. /\ turns \in Seq(Talks) /\ Len(turns) = Size + n
       /\ \A i \in 1..(Size + n) : turns[i] = IF i <= Size THEN b[i] ELSE t[i - Size]
  BY <1>4, <1>8, ConcatProperties
<1>10. DOMAIN turns = 1..(Size + n)
  BY <1>9, LenProperties
<1>11. ASSUME NEW i \in 1..(Size + n) PROVE turns[i].replyTo < i
  <2>1. CASE i <= Size
    <3>1. i \in 1..Size
      BY <1>1, <1>6, <2>1
    <3>2. QED
      BY <1>7, <1>9, <2>1, <3>1
  <2>2. CASE ~(i <= Size)
    <3>1. i - Size \in 1..n /\ Size + (i - Size) = i
      BY <1>1, <1>6, <2>2
    <3>2. turns[i] = t[i - Size]
      BY <1>9, <2>2
    <3> DEFINE j == i - Size
    <3>5. j \in 1..n /\ Size + j = i
      BY <3>1
    <3> HIDE DEF j
    <3>3. t[j].replyTo < Size + j
      BY <1>7, <3>5
    <3>4. QED
      BY <3>2, <3>3, <3>5 DEF j
  <2>3. QED
    BY <2>1, <2>2
<1>12. QED
  BY <1>9, <1>10, <1>11 DEF Proper

LEMMA DialogueProper ==
  ASSUME NEW turns \in Dialogues
  PROVE  Proper(turns)
<1>1. PICK k \in 1..MaxTurns :
        /\ turns \in [1..k -> {Turn(s, r) : s \in 1..Size, r \in 0..(k - 1)}]
        /\ \A i \in 1..k : turns[i].replyTo < i
  BY DEF Dialogues
<1>2. k \in Nat
  BY ChatAssumption
<1>3. {Turn(s, r) : s \in 1..Size, r \in 0..(k - 1)} \subseteq Talks
  BY <1>2 DEF Turn, Talks
<1>4. turns \in [1..k -> Talks]
  BY <1>1, <1>3
<1>5. turns \in Seq(Talks)
  BY <1>2, <1>4, SeqDef
<1>6. QED
  BY <1>1, <1>4, <1>5 DEF Proper

LEMMA ProperIs ==
  ASSUME NEW turns, Proper(turns)
  PROVE  /\ turns \in Seq(Talks) /\ Len(turns) \in Nat /\ DOMAIN turns = 1..Len(turns)
         /\ \A k \in 1..Len(turns) : /\ turns[k].speaker \in 1..Size
                                     /\ turns[k].replyTo \in Nat /\ turns[k].replyTo < k
         /\ Unlanded(turns) \in Seq(Nat) /\ Len(Unlanded(turns)) = Len(turns)
         /\ DOMAIN Unlanded(turns) = 1..Len(turns)
         /\ \A k \in 1..Len(turns) : Unlanded(turns)[k] = 0
<1>1. turns \in Seq(Talks) /\ Len(turns) \in Nat /\ DOMAIN turns = 1..Len(turns)
  BY LenProperties DEF Proper
<1>2. \A k \in 1..Len(turns) : turns[k] \in Talks /\ turns[k].replyTo < k
  BY <1>1, ElementOfSeq DEF Proper
<1>3. /\ DOMAIN Unlanded(turns) = 1..Len(turns)
      /\ \A k \in 1..Len(turns) : Unlanded(turns)[k] = 0
      /\ Unlanded(turns) \in [1..Len(turns) -> Nat]
  BY DEF Unlanded
<1>4. Unlanded(turns) \in Seq(Nat)
  BY <1>1, <1>3, SeqDef
<1>5. Len(Unlanded(turns)) = Len(turns)
  BY <1>1, <1>3, <1>4, LenProperties
<1>6. QED
  BY <1>1, <1>2, <1>3, <1>4, <1>5 DEF Talks

LEMMA EmptyIs ==
  /\ Proper(<<>>) /\ <<>> \in Seq(Nat) /\ Len(<<>>) = 0 /\ DOMAIN <<>> = {}
  /\ <<>> \in Seq(Lines) /\ <<>> \in Seq(Tasks)
<1>1. <<>> \in Seq(Talks) /\ <<>> \in Seq(Nat) /\ <<>> \in Seq(Lines) /\ <<>> \in Seq(Tasks)
      /\ Len(<<>>) = 0 /\ DOMAIN <<>> = {}
  BY EmptySeq
<1>2. QED
  BY <1>1 DEF Proper

(* A script of which nothing has been said. *)
LEMMA NothingLanded ==
  ASSUME NEW turns, Proper(turns), landed' = Unlanded(turns)
  PROVE  Landing'
<1>1. \A k \in DOMAIN landed' : ~(landed'[k] > 0)
  BY ProperIs
<1>2. QED
  BY <1>1 DEF Landing, LandedRight

-----------------------------------------------------------------------------
(* What is said *)

(* A line that can be read under an id given out before was there before.   *)
LinesKept ==
  \A i \in DOMAIN messages' :
    messages'[i].id < nextMsgID => \E j \in DOMAIN messages : messages[j] = messages'[i]

(* Saying lines numbered on from the last keeps the history in order and    *)
(* within its bound, and every line in it is an old one or a new one.       *)
LEMMA WhatIsSaid ==
  ASSUME History, NEW new \in Seq(Lines), Said(new),
         \A j \in 1..Len(new) : new[j].id = nextMsgID + j - 1
  PROVE  /\ History' /\ nextMsgID' = nextMsgID + Len(new)
         /\ \A i \in DOMAIN messages' :
              \/ \E j \in DOMAIN messages : messages'[i] = messages[j]
              \/ \E j \in 1..Len(new) : messages'[i] = new[j]
         /\ LinesKept
<1> DEFINE all == messages \o new
           n == Len(messages)
           m == Len(new)
           from == IF n + m > MaxHistory THEN n + m - MaxHistory + 1 ELSE 1
           kept == SubSeq(all, from, n + m)
<1>1. /\ messages \in Seq(Lines) /\ n \in Nat /\ m \in Nat /\ MaxHistory \in Nat /\ MaxHistory > 0
      /\ DOMAIN messages = 1..n /\ nextMsgID \in Nat /\ nextMsgID > 0
  BY ChatAssumption, LenProperties DEF History
<1>2. /\ all \in Seq(Lines) /\ Len(all) = n + m
      /\ \A i \in 1..(n + m) : all[i] = IF i <= n THEN messages[i] ELSE new[i - n]
  BY <1>1, ConcatProperties
<1>3. messages' = kept /\ nextMsgID' = nextMsgID + m
  <2>1. /\ messages' = SubSeq(all, IF Len(all) > MaxHistory
                                  THEN Len(all) - MaxHistory + 1 ELSE 1, Len(all))
        /\ nextMsgID' = nextMsgID + m
    BY DEF Said
  <2> HIDE DEF all, n, m
  <2>2. QED
    BY <1>1, <1>2, <2>1
<1>4. \A i, j \in 1..n : i < j => messages[i].id < messages[j].id
  BY <1>1 DEF History, Ordered
<1>5. \A i \in 1..n : messages[i].id \in Nat /\ messages[i].id < nextMsgID
  <2>1. \A i \in 1..n : messages[i] \in Lines
    BY <1>1, ElementOfSeq
  <2>2. QED
    BY <1>1, <2>1 DEF History, Lines
<1> HIDE DEF all, n, m, kept
<1>6. \A i \in 1..(n + m) : ~(i <= n) => i - n \in 1..m
  BY <1>1
<1>7. ASSUME NEW i \in 1..(n + m)
      PROVE  all[i].id = IF i <= n THEN messages[i].id ELSE nextMsgID + (i - n) - 1
  <2>1. CASE i <= n
    BY <1>2, <2>1
  <2>2. CASE ~(i <= n)
    <3>1. i - n \in 1..m /\ all[i] = new[i - n]
      BY <1>2, <1>6, <2>2
    <3>2. new[i - n].id = nextMsgID + (i - n) - 1
      BY <3>1 DEF m
    <3>3. QED
      BY <2>2, <3>1, <3>2
  <2>3. QED
    BY <2>1, <2>2
<1>8. ASSUME NEW i \in 1..(n + m), NEW j \in 1..(n + m), i < j
      PROVE  all[i].id < all[j].id
  <2>1. i \in Nat /\ j \in Nat /\ 1 <= i /\ 1 <= j
    BY <1>1
  <2>2. CASE j <= n
    <3>1. i \in 1..n /\ j \in 1..n /\ i <= n
      BY <1>1, <1>8, <2>1, <2>2
    <3>2. QED
      BY <1>4, <1>7, <1>8, <2>2, <3>1
  <2>3. CASE i <= n /\ ~(j <= n)
    <3>1. i \in 1..n
      BY <1>1, <2>1, <2>3
    <3>2. messages[i].id \in Nat /\ messages[i].id < nextMsgID
      BY <1>5, <3>1
    <3>3. all[i].id = messages[i].id /\ all[j].id = nextMsgID + (j - n) - 1
      BY <1>7, <2>3
    <3>4. nextMsgID <= nextMsgID + (j - n) - 1
      BY <1>1, <2>1, <2>3
    <3>5. nextMsgID + (j - n) - 1 \in Int
      BY <1>1, <2>1
    <3>6. QED
      BY <1>1, <3>2, <3>3, <3>4, <3>5
  <2>4. CASE ~(i <= n)
    <3>1. ~(j <= n)
      BY <1>1, <1>8, <2>1, <2>4
    <3>2. all[i].id = nextMsgID + (i - n) - 1 /\ all[j].id = nextMsgID + (j - n) - 1
      BY <1>7, <2>4, <3>1
    <3>3. nextMsgID + (i - n) - 1 < nextMsgID + (j - n) - 1
      BY <1>1, <1>8, <2>1
    <3>4. QED
      BY <3>2, <3>3
  <2>5. QED
    BY <2>2, <2>3, <2>4
<1>9. ASSUME NEW i \in 1..(n + m)
      PROVE  all[i].id < nextMsgID + m
  <2>1. CASE i <= n
    <3>1. i \in 1..n
      BY <1>1, <2>1
    <3>2. messages[i].id \in Nat /\ messages[i].id < nextMsgID /\ all[i].id = messages[i].id
      BY <1>5, <1>7, <2>1, <3>1
    <3>3. QED
      BY <1>1, <3>2
  <2>2. CASE ~(i <= n)
    <3>1. nextMsgID + (i - n) - 1 < nextMsgID + m
      BY <1>1, <1>6, <2>2
    <3>2. QED
      BY <1>7, <2>2, <3>1
  <2>3. QED
    BY <2>1, <2>2
<1>10. /\ from \in Nat /\ 1 <= from /\ from <= n + m + 1 /\ n + m + 1 - from <= MaxHistory
  BY <1>1
<1> HIDE DEF from
<1>11. \A i \in 1..(n + m + 1 - from) : from + i - 1 \in 1..(n + m)
  BY <1>1, <1>10
<1>12. /\ kept \in Seq(Lines) /\ Len(kept) = n + m + 1 - from
       /\ \A i \in 1..(n + m + 1 - from) : kept[i] = all[from + i - 1]
  <2>1. \A i \in from..(n + m) : all[i] \in Lines
    <3>1. \A i \in from..(n + m) : i \in 1..(n + m)
      BY <1>1, <1>10
    <3>2. QED
      BY <1>2, <3>1, ElementOfSeq
  <2>2. from \in Int /\ n + m \in Int
    BY <1>1, <1>10
  <2> DEFINE to == n + m
  <2> HIDE DEF to
  <2>6. \A i \in from..to : all[i] \in Lines
    BY <2>1 DEF to
  <2>7. from \in Int /\ to \in Int
    BY <2>2 DEF to
  <2>8. /\ SubSeq(all, from, to) \in Seq(Lines)
        /\ Len(SubSeq(all, from, to)) = IF from <= to THEN to - from + 1 ELSE 0
        /\ \A i \in 1..(to - from + 1) : SubSeq(all, from, to)[i] = all[from + i - 1]
    BY <2>6, <2>7, SubSeqProperties
  <2>3. /\ kept \in Seq(Lines)
        /\ Len(kept) = IF from <= n + m THEN n + m - from + 1 ELSE 0
        /\ \A i \in 1..(n + m - from + 1) : kept[i] = all[from + i - 1]
    <3>1. to = n + m /\ kept = SubSeq(all, from, to)
      BY DEF kept, to
    <3>2. to - from + 1 = n + m - from + 1 /\ (from <= to <=> from <= n + m)
      BY <1>1, <1>10, <3>1
    <3>3. QED
      BY <2>8, <3>1, <3>2
  <2>4. n + m - from + 1 = n + m + 1 - from
        /\ (IF from <= n + m THEN n + m - from + 1 ELSE 0) = n + m + 1 - from
    BY <1>1, <1>10
  <2>5. QED
    BY <2>3, <2>4
<1> DEFINE k == n + m + 1 - from
<1>13. k \in Nat /\ k <= MaxHistory /\ DOMAIN kept = 1..k
  <2>1. k \in Nat
    BY <1>1, <1>10
  <2>2. QED
    BY <1>10, <1>12, <2>1, LenProperties
<1>14. Ordered(kept)
  <2> SUFFICES ASSUME NEW i \in 1..k, NEW j \in 1..k, i < j
               PROVE  kept[i].id < kept[j].id
    BY <1>13 DEF Ordered
  <2>1. from + i - 1 \in 1..(n + m) /\ from + j - 1 \in 1..(n + m)
    BY <1>11
  <2>2. from + i - 1 < from + j - 1
    BY <1>10, <1>13
  <2>3. all[from + i - 1].id < all[from + j - 1].id
    BY <1>8, <2>1, <2>2
  <2>4. QED
    BY <1>12, <2>3
<1>15. \A i \in 1..k : kept[i].id < nextMsgID + m
  BY <1>9, <1>11, <1>12
<1>16. ASSUME NEW i \in 1..k
       PROVE  \/ \E j \in 1..n : kept[i] = messages[j]
              \/ \E j \in 1..m : kept[i] = new[j]
  <2> DEFINE p == from + i - 1
  <2>1. p \in 1..(n + m) /\ kept[i] = all[p]
    BY <1>11, <1>12
  <2> HIDE DEF p
  <2>2. CASE p <= n
    <3>1. p \in 1..n
      BY <1>1, <2>1, <2>2
    <3>2. QED
      BY <1>2, <2>1, <2>2, <3>1
  <2>3. CASE ~(p <= n)
    BY <1>2, <1>6, <2>1, <2>3
  <2>4. QED
    BY <2>2, <2>3
<1>17. nextMsgID + m \in Nat /\ nextMsgID + m # 0
  BY <1>1
<1> HIDE DEF k
<1>18. History'
  BY <1>3, <1>12, <1>13, <1>14, <1>15, <1>17 DEF History, Ordered, k
<1>19. \A j \in 1..m : ~(new[j].id < nextMsgID)
  <2>1. \A j \in 1..m : ~(nextMsgID + j - 1 < nextMsgID)
    BY <1>1
  <2>2. QED
    BY <2>1 DEF m
<1>20. LinesKept
  BY <1>1, <1>3, <1>13, <1>16, <1>19 DEF LinesKept
<1>21. QED
  BY <1>1, <1>3, <1>13, <1>16, <1>18, <1>20 DEF m

LEMMA OwnLinesAre ==
  ASSUME World, History, NEW now \in SUBSET People, NEW moved \in SUBSET People
  PROVE  /\ OwnLines(now, moved) \in Seq(Lines) /\ Len(OwnLines(now, moved)) \in Nat
         /\ \A j \in 1..Len(OwnLines(now, moved)) :
              /\ OwnLines(now, moved)[j].id = nextMsgID + j - 1
              /\ OwnLines(now, moved)[j].from \in now \cup moved
              /\ OwnLines(now, moved)[j].by.by = -1
<1> DEFINE some == (now \ prev) \cup moved
           speakers == Among(friends, some)
           n == Len(speakers)
           own == [i \in 1..n |-> Message(nextMsgID + i - 1, speakers[i], 0, Unscripted, 0)]
<1>1. nextMsgID \in Nat /\ friends \in Seq(People)
  BY FriendsAre DEF World, History
<1>2. speakers \in Seq(some)
  BY <1>1, AmongAre
<1>3. n \in Nat /\ \A i \in 1..n : speakers[i] \in some
  BY <1>2, LenProperties, ElementOfSeq
<1>4. some \subseteq People /\ some \subseteq now \cup moved
  OBVIOUS
<1>5. OwnLines(now, moved) = own
  BY DEF OwnLines, FreshID
<1>6. Unscripted \in Writers /\ Unscripted.by = -1
  BY DEF Unscripted, Author, Writers
<1> HIDE DEF some, speakers, n
<1>7. \A i \in 1..n : nextMsgID + i - 1 \in Nat
  BY <1>1, <1>3
<1>8. \A i \in 1..n : Message(nextMsgID + i - 1, speakers[i], 0, Unscripted, 0) \in Lines
  BY <1>3, <1>4, <1>6, <1>7 DEF Message, Lines
<1>9. own \in [1..n -> Lines]
  BY <1>8
<1>10. own \in Seq(Lines)
  BY <1>3, <1>9, SeqDef
<1>11. Len(own) = n
  BY <1>3, <1>9, <1>10, LenProperties
<1>12. ASSUME NEW j \in 1..n
       PROVE  own[j].id = nextMsgID + j - 1 /\ own[j].from \in now \cup moved /\ own[j].by.by = -1
  <2>1. own[j] = Message(nextMsgID + j - 1, speakers[j], 0, Unscripted, 0)
    OBVIOUS
  <2>2. own[j].id = nextMsgID + j - 1 /\ own[j].from = speakers[j] /\ own[j].by = Unscripted
    BY <2>1 DEF Message
  <2>3. QED
    BY <1>3, <1>4, <1>6, <2>2
<1> HIDE DEF own
<1>13. QED
  BY <1>3, <1>5, <1>10, <1>11, <1>12

-----------------------------------------------------------------------------
(* A tick *)

(* What is said after them leaves the turns that have landed where they     *)
(* are: the lines it numbers come after theirs.                             *)
LEMMA LandingsStay ==
  ASSUME Scripted, History, Landing,
         NEW new \in Seq(Lines), Said(new),
         \A j \in 1..Len(new) : new[j].id = nextMsgID + j - 1,
         UNCHANGED <<script, author>>, DOMAIN landed' = DOMAIN landed,
         cursor' \in Nat, cursor <= cursor',
         \A j \in DOMAIN landed : j < cursor => landed'[j] = landed[j]
  PROVE  \A k \in DOMAIN landed : k < cursor => LandedRight(k)'
<1> SUFFICES ASSUME NEW k \in DOMAIN landed, k < cursor, landed'[k] > 0
             PROVE  /\ k < cursor' /\ landed'[k] < nextMsgID'
                    /\ \A j \in 1..(k - 1) : landed'[j] < landed'[k]
                    /\ script'[k].replyTo > 0 => landed'[script'[k].replyTo] > 0
                    /\ \A i \in InHistory(landed[k])' :
                         /\ messages'[i].by = author' /\ messages'[i].turn = k
                         /\ messages'[i].reply = Answered(k)'
  BY DEF LandedRight, InHistory
<1>1. /\ Len(script) \in Nat /\ landed \in Seq(Nat) /\ DOMAIN landed = 1..Len(script)
      /\ cursor \in Nat /\ \A i \in 1..Len(script) :
           script[i].replyTo \in Nat /\ script[i].replyTo < i
  BY ProperIs, LenProperties DEF Scripted
<1>2. k \in Nat /\ 1 <= k /\ k <= Len(script)
  BY <1>1
<1>3. landed'[k] = landed[k] /\ landed[k] > 0
  OBVIOUS
<1>4. /\ landed[k] < nextMsgID /\ \A j \in 1..(k - 1) : landed[j] < landed[k]
      /\ script[k].replyTo > 0 => landed[script[k].replyTo] > 0
      /\ \A i \in InHistory(landed[k]) :
           messages[i].by = author /\ messages[i].turn = k /\ messages[i].reply = Answered(k)
  BY <1>3 DEF Landing, LandedRight
<1>5. nextMsgID \in Nat /\ Len(new) \in Nat /\ landed[k] \in Nat
  BY <1>1, LenProperties, ElementOfSeq DEF History
<1>6. /\ nextMsgID' = nextMsgID + Len(new)
      /\ \A i \in DOMAIN messages' :
           \/ \E j \in DOMAIN messages : messages'[i] = messages[j]
           \/ \E j \in 1..Len(new) : messages'[i] = new[j]
  BY WhatIsSaid
<1>7. \A j \in 1..(k - 1) : j \in DOMAIN landed /\ j < cursor
  BY <1>1, <1>2
<1>8. \A j \in 1..(k - 1) : landed'[j] = landed[j]
  BY <1>7
<1>9. script[k].replyTo > 0 => script[k].replyTo \in 1..(k - 1)
  BY <1>1, <1>2
<1>10. Answered(k)' = Answered(k)
  <2>1. script[k].replyTo \in Nat
    BY <1>1
  <2>2. script[k].replyTo = 0 \/ script[k].replyTo > 0
    BY <2>1
  <2>3. QED
    BY <1>8, <1>9, <2>2 DEF Answered
<1>11. k < cursor' /\ landed'[k] < nextMsgID'
  BY <1>1, <1>2, <1>3, <1>4, <1>5, <1>6
<1>12. ASSUME NEW i \in InHistory(landed[k])'
       PROVE  /\ messages'[i].by = author' /\ messages'[i].turn = k
              /\ messages'[i].reply = Answered(k)'
  <2>1. i \in DOMAIN messages' /\ messages'[i].id = landed[k]
    BY <1>3 DEF InHistory
  <2>2. \A j \in 1..Len(new) : new[j].id # landed[k]
    <3>1. \A j \in 1..Len(new) : nextMsgID + j - 1 # landed[k]
      BY <1>4, <1>5
    <3>2. QED
      BY <3>1
  <2>3. PICK j \in DOMAIN messages : messages'[i] = messages[j]
    BY <1>6, <2>1, <2>2
  <2>4. j \in InHistory(landed[k])
    BY <2>1, <2>3 DEF InHistory
  <2>5. QED
    BY <1>4, <1>10, <2>3, <2>4
<1>13. QED
  BY <1>3, <1>4, <1>8, <1>9, <1>11, <1>12

(* Lines by who has heard, scripted only under the script's own name, leave *)
(* the history true: of speakers, of tellings and of authors.               *)
LEMMA SpeechIsTrue ==
  ASSUME Scripted, History, SpeakersHaveHeard, Telling, OneAuthor,
         NEW new \in Seq(Lines), Said(new),
         \A j \in 1..Len(new) : new[j].id = nextMsgID + j - 1,
         UNCHANGED <<script, author>>, cursor' \in Nat, cursor <= cursor',
         heard \subseteq heard', \A j \in 1..Len(new) : new[j].from \in heard',
         \A j \in 1..Len(new) : new[j].by.by >= 0 => new[j].by = author /\ cursor' > 1
  PROVE  SpeakersHaveHeard' /\ Telling' /\ OneAuthor'
<1>1. \A i \in DOMAIN messages' :
        \/ \E j \in DOMAIN messages : messages'[i] = messages[j]
        \/ \E j \in 1..Len(new) : messages'[i] = new[j]
  BY WhatIsSaid
<1>2. SpeakersHaveHeard'
  BY <1>1 DEF SpeakersHaveHeard
<1>3. author.telling \in Nat /\ cursor \in Nat
  BY ProperIs DEF Scripted, Writers
<1>4. cursor > 1 => cursor' > 1
  BY <1>3
<1>5. Telling'
  <2> SUFFICES ASSUME NEW i \in DOMAIN messages', messages'[i].by.by >= 0
               PROVE  /\ messages'[i].by.telling <= author.telling
                      /\ messages'[i].by.telling = author.telling =>
                           messages'[i].by = author /\ cursor' > 1
    BY DEF Telling
  <2>1. CASE \E j \in DOMAIN messages : messages'[i] = messages[j]
    BY <1>4, <2>1 DEF Telling
  <2>2. CASE \E j \in 1..Len(new) : messages'[i] = new[j]
    <3>1. messages'[i].by = author /\ cursor' > 1
      BY <2>2
    <3>2. QED
      BY <1>3, <3>1
  <2>3. QED
    BY <1>1, <2>1, <2>2
<1>6. OneAuthor'
  <2> SUFFICES ASSUME NEW i \in DOMAIN messages', NEW j \in DOMAIN messages',
                      messages'[i].by.by >= 0, messages'[j].by.by >= 0,
                      messages'[i].by.telling = messages'[j].by.telling
               PROVE  messages'[i].by = messages'[j].by
    BY DEF OneAuthor
  <2>1. CASE messages'[i].by.telling = author.telling
    BY <1>5, <2>1 DEF Telling
  <2>2. CASE messages'[i].by.telling # author.telling
    <3>1. PICK g \in DOMAIN messages : messages'[i] = messages[g]
      BY <1>1, <2>2
    <3>2. PICK h \in DOMAIN messages : messages'[j] = messages[h]
      BY <1>1, <2>2
    <3>3. QED
      BY <3>1, <3>2 DEF OneAuthor
  <2>3. QED
    BY <2>1, <2>2
<1>7. QED
  BY <1>2, <1>5, <1>6

(* Nothing is said, and the script is where it was. *)
LEMMA Silence ==
  ASSUME ChatIInv, World', UNCHANGED <<scriptVars, messageVars>>,
         heard \subseteq heard', acts <= acts'
  PROVE  ChatIInv'
<1>1. UNCHANGED <<script, author, cursor, waited, landed, messages, nextMsgID>>
  BY DEF scriptVars, messageVars
<1>2. Scripted'
  <2>1. author.telling \in Nat /\ acts \in Nat /\ acts' \in Nat
    BY DEF ChatIInv, World, Scripted, Writers
  <2>2. author.telling <= acts'
    BY <2>1 DEF ChatIInv, Scripted
  <2>3. QED
    BY <1>1, <2>2 DEF ChatIInv, Scripted, Proper
<1>3. History'
  BY <1>1 DEF ChatIInv, History, Ordered
<1>4. SpeakersHaveHeard'
  BY <1>1 DEF ChatIInv, SpeakersHaveHeard
<1>5. Telling' /\ OneAuthor'
  BY <1>1 DEF ChatIInv, Telling, OneAuthor
<1>6. Landing'
  BY <1>1 DEF ChatIInv, Landing, LandedRight, Answered, InHistory
<1>7. QED
  BY <1>2, <1>3, <1>4, <1>5, <1>6 DEF ChatIInv

(* The script moves on, and the turn it is then at is said or waits. *)
LEMMA ReleaseKeeps ==
  ASSUME ChatIInv, World', NEW now, heard' = now, heard \subseteq now,
         NEW own \in Seq(Lines), ReleaseScript(now, own), UNCHANGED <<script, author>>,
         friends' = friends, acts' = acts,
         \A j \in 1..Len(own) : /\ own[j].id = nextMsgID + j - 1
                                /\ own[j].from \in now /\ own[j].by.by = -1
  PROVE  ChatIInv' /\ LinesKept
<1>1. PICK at : at = IF GivesUp(now) THEN cursor + 1 ELSE cursor
  OBVIOUS
<1> DEFINE id == nextMsgID + Len(own)
           line == Message(id, friends[script[at].speaker],
                     IF script[at].replyTo = 0 THEN 0 ELSE landed[script[at].replyTo], author, at)
           size == Len(script)
<1>2. /\ size \in Nat /\ landed \in Seq(Nat) /\ DOMAIN landed = 1..size /\ Len(landed) = size
      /\ cursor \in Nat /\ 1 <= cursor /\ cursor <= size + 1
      /\ \A i \in 1..size : /\ script[i].replyTo \in Nat /\ script[i].replyTo < i
                            /\ script[i].speaker \in 1..Size
      /\ \A i \in 1..size : landed[i] \in Nat
  <2>1. /\ size \in Nat /\ landed \in Seq(Nat) /\ DOMAIN landed = 1..size /\ Len(landed) = size
        /\ cursor \in 1..(size + 1)
    BY ProperIs, LenProperties DEF ChatIInv, Scripted
  <2>2. cursor \in Nat /\ 1 <= cursor /\ cursor <= size + 1
    BY <2>1
  <2>3. \A i \in 1..size : landed[i] \in Nat
    BY <2>1, ElementOfSeq
  <2>4. QED
    BY <2>1, <2>2, <2>3, ProperIs DEF ChatIInv, Scripted
<1>3. /\ nextMsgID \in Nat /\ nextMsgID > 0 /\ Len(own) \in Nat /\ id \in Nat
      /\ nextMsgID <= id /\ id > 0
  <2>1. nextMsgID \in Nat /\ nextMsgID > 0 /\ Len(own) \in Nat
    BY LenProperties DEF ChatIInv, History
  <2>2. QED
    BY <2>1
<1>4. /\ waited \in -1..(StallLimit - 1) /\ StallLimit \in Nat /\ StallLimit > 0
      /\ author \in Writers /\ author.telling \in Nat
  BY ChatAssumption DEF ChatIInv, Scripted, Writers
<1>5. at \in Nat /\ cursor <= at /\ 1 <= at /\ at <= size + 1
  BY <1>1, <1>2 DEF GivesUp
<1>6. CASE ~(at <= size /\ Ready(at, now))
  <2>1. /\ cursor' = at /\ Said(own) /\ landed' = landed
        /\ waited' = IF at > size THEN -1 ELSE IF at = cursor THEN WaitedNow ELSE 0
    BY <1>1, <1>6 DEF ReleaseScript
  <2>2. waited' \in -1..(StallLimit - 1)
    <3>1. at <= size /\ at = cursor => ~(WaitedNow >= StallLimit)
      BY <1>1, <1>2, <1>6 DEF GivesUp
    <3>2. WaitedNow \in Int /\ -1 <= WaitedNow
      BY <1>4 DEF WaitedNow
    <3> HIDE DEF size
    <3>3. CASE at > size
      BY <1>4, <2>1, <3>3
    <3>4. CASE ~(at > size) /\ at = cursor
      <4>1. at <= size
        BY <1>2, <1>5, <3>4
      <4>2. waited' = WaitedNow /\ ~(WaitedNow >= StallLimit)
        BY <2>1, <3>1, <3>4, <4>1
      <4>3. QED
        BY <1>4, <3>2, <4>2
    <3>5. CASE ~(at > size) /\ at # cursor
      BY <1>4, <2>1, <3>5
    <3>6. QED
      BY <3>3, <3>4, <3>5
  <2> HIDE DEF size
  <2>3. Scripted'
    <3>1. cursor' \in 1..(size + 1)
      BY <1>2, <1>5, <2>1
    <3>2. QED
      BY <2>1, <2>2, <3>1 DEF ChatIInv, Scripted, Proper, size
  <2>4. History' /\ LinesKept
    BY <2>1, WhatIsSaid DEF ChatIInv
  <2>5. SpeakersHaveHeard' /\ Telling' /\ OneAuthor'
    <3>1. cursor' \in Nat /\ cursor <= cursor'
      BY <1>5, <2>1
    <3>2. \A j \in 1..Len(own) : own[j].from \in heard' /\ ~(own[j].by.by >= 0)
      OBVIOUS
    <3>3. QED
      BY <2>1, <3>1, <3>2, SpeechIsTrue DEF ChatIInv
  <2>6. Landing'
    <3>1. \A k \in DOMAIN landed : k < cursor => LandedRight(k)'
      BY <1>5, <2>1, LandingsStay DEF ChatIInv
    <3>2. \A k \in DOMAIN landed : ~(k < cursor) => ~(landed'[k] > 0)
      BY <2>1 DEF ChatIInv, Landing, LandedRight
    <3>3. QED
      BY <2>1, <3>1, <3>2 DEF Landing, LandedRight
  <2>7. QED
    BY <2>3, <2>4, <2>5, <2>6 DEF ChatIInv
<1>7. CASE at <= size /\ Ready(at, now)
  <2> DEFINE new == Append(own, line)
             to == script[at].replyTo
  <2>1. /\ landed' = [landed EXCEPT ![at] = id]
        /\ cursor' = at + 1 /\ waited' = -1 /\ Said(new)
    BY <1>1, <1>7 DEF ReleaseScript, FreshID
  <2>2. friends[script[at].speaker] \in now /\ (to = 0 \/ landed[to] > 0)
    BY <1>7 DEF Ready
  <2>3. at \in 1..size /\ to \in Nat /\ to < at /\ script[at].speaker \in 1..Size
    BY <1>2, <1>5, <1>7
  <2>4. to > 0 => to \in 1..size /\ landed[to] \in Nat
    BY <1>2, <2>3
  <2>5. /\ line.id = id /\ line.from = friends[script[at].speaker] /\ line.by = author
        /\ line.turn = at /\ line.reply = Answered(at)
    BY DEF Message, Answered
  <2> HIDE DEF size
  <2>6. line \in Lines
    <3>1. friends[script[at].speaker] \in People
      BY <2>3, FriendsAre DEF ChatIInv, World
    <3>2. (IF to = 0 THEN 0 ELSE landed[to]) \in Nat
      BY <2>3, <2>4
    <3> HIDE DEF id
    <3>3. QED
      BY <1>3, <1>4, <1>5, <3>1, <3>2 DEF Message, Lines
  <2> HIDE DEF line, id
  <2>7. /\ new \in Seq(Lines) /\ Len(new) = Len(own) + 1
        /\ \A j \in 1..Len(own) : new[j] = own[j]
        /\ new[Len(own) + 1] = line
    BY <2>6, AppendProperties
  <2> HIDE DEF new
  <2>8. \A j \in 1..Len(new) : j \in 1..Len(own) \/ j = Len(own) + 1
    BY <1>3, <2>7
  <2>9. \A j \in 1..Len(new) : new[j].id = nextMsgID + j - 1
    <3>1. id = nextMsgID + (Len(own) + 1) - 1
      BY <1>3 DEF id
    <3>2. QED
      BY <2>5, <2>7, <2>8, <3>1
  <2>10. cursor' \in Nat /\ cursor <= cursor' /\ cursor' > 1 /\ cursor' \in 1..(size + 1)
    BY <1>2, <1>5, <2>1, <2>3
  <2>11. /\ landed' \in Seq(Nat) /\ Len(landed') = size /\ DOMAIN landed' = 1..size
         /\ landed'[at] = id /\ \A j \in 1..size : j # at => landed'[j] = landed[j]
    <3>1. landed \in [1..size -> Nat]
      BY <1>2, LenProperties
    <3>2. landed' \in [1..size -> Nat]
      BY <1>3, <2>1, <3>1
    <3>3. landed' \in Seq(Nat)
      BY <1>2, <3>2, SeqDef
    <3>4. Len(landed') = size
      BY <1>2, <3>2, <3>3, LenProperties
    <3>5. landed'[at] = id /\ \A j \in 1..size : j # at => landed'[j] = landed[j]
      BY <2>1, <2>3, <3>1
    <3>6. QED
      BY <3>2, <3>3, <3>4, <3>5
  <2>12. Scripted'
    <3>1. waited' \in -1..(StallLimit - 1)
      BY <1>4, <2>1
    <3>2. QED
      BY <2>10, <2>11, <3>1 DEF ChatIInv, Scripted, Proper, size
  <2>13. History' /\ LinesKept /\ nextMsgID' = nextMsgID + Len(new)
    BY <2>1, <2>7, <2>9, WhatIsSaid DEF ChatIInv
  <2>14. SpeakersHaveHeard' /\ Telling' /\ OneAuthor'
    <3>1. \A j \in 1..Len(new) : new[j].from \in heard'
      BY <2>2, <2>5, <2>7, <2>8
    <3>2. \A j \in 1..Len(own) : ~(new[j].by.by >= 0)
      BY <2>7
    <3>3. \A j \in 1..Len(new) : new[j].by.by >= 0 => new[j].by = author /\ cursor' > 1
      BY <2>5, <2>7, <2>8, <2>10, <3>2
    <3>4. QED
      BY <2>1, <2>7, <2>9, <2>10, <3>1, <3>3, SpeechIsTrue DEF ChatIInv
  <2>15. Landing'
    <3>1. \A k \in DOMAIN landed : k < cursor => LandedRight(k)'
      <4>1. \A j \in DOMAIN landed : j < cursor => landed'[j] = landed[j]
        BY <1>2, <1>5, <2>11
      <4>2. DOMAIN landed' = DOMAIN landed
        BY <1>2, <2>11
      <4>3. QED
        BY <2>1, <2>7, <2>9, <2>10, <4>1, <4>2, LandingsStay DEF ChatIInv
    <3>2. \A k \in DOMAIN landed : ~(k < cursor) /\ k # at => ~(landed'[k] > 0)
      BY <1>2, <2>11 DEF ChatIInv, Landing, LandedRight
    <3>3. LandedRight(at)'
      <4>1. \A j \in 1..(at - 1) : j \in 1..size /\ j # at
        BY <1>2, <2>3
      <4>2. \A j \in 1..(at - 1) : landed'[j] = landed[j] /\ landed[j] \in Nat
        BY <1>2, <2>11, <4>1
      <4>3. \A j \in 1..(at - 1) : landed[j] = 0 \/ landed[j] < nextMsgID
        <5>1. \A j \in 1..(at - 1) : landed[j] > 0 => landed[j] < nextMsgID
          BY <1>2, <4>1 DEF ChatIInv, Landing, LandedRight
        <5>2. QED
          BY <4>2, <5>1
      <4>4. \A j \in 1..(at - 1) : landed'[j] < landed'[at]
        BY <1>3, <2>11, <4>2, <4>3
      <4>5. to > 0 => to \in 1..(at - 1) /\ landed'[to] = landed[to] /\ landed[to] > 0
        BY <1>5, <2>2, <2>3, <4>2
      <4>6. Answered(at)' = Answered(at)
        BY <2>3, <4>5 DEF Answered
      <4>7. at < cursor' /\ landed'[at] < nextMsgID'
        <5>1. id < nextMsgID + (Len(own) + 1)
          BY <1>3 DEF id
        <5>2. QED
          BY <1>5, <2>1, <2>7, <2>11, <2>13, <5>1
      <4>8. ASSUME NEW i \in DOMAIN messages', messages'[i].id = id
            PROVE  messages'[i] = line
        <5>1. \A j \in DOMAIN messages : messages[j].id # id
          <6>1. \A j \in DOMAIN messages : messages[j].id \in Nat /\ messages[j].id < nextMsgID
            <7>1. \A j \in DOMAIN messages : messages[j] \in Lines
              BY LenProperties, ElementOfSeq DEF ChatIInv, History
            <7>2. QED
              BY <7>1 DEF ChatIInv, History, Lines
          <6>2. QED
            BY <1>3, <6>1
        <5>2. \A j \in 1..Len(own) : new[j].id # id
          <6>1. \A j \in 1..Len(own) : nextMsgID + j - 1 # nextMsgID + Len(own)
            BY <1>3
          <6>2. QED
            BY <2>7, <6>1 DEF id
        <5>3. \/ \E j \in DOMAIN messages : messages'[i] = messages[j]
              \/ \E j \in 1..Len(new) : messages'[i] = new[j]
          BY <2>1, <2>7, <2>9, WhatIsSaid DEF ChatIInv
        <5>4. PICK j \in 1..Len(new) : messages'[i] = new[j]
          BY <4>8, <5>1, <5>3
        <5>5. j = Len(own) + 1
          BY <2>8, <4>8, <5>2, <5>4
        <5>6. QED
          BY <2>7, <5>4, <5>5
      <4>9. ASSUME NEW i \in InHistory(landed[at])'
            PROVE  /\ messages'[i].by = author' /\ messages'[i].turn = at
                   /\ messages'[i].reply = Answered(at)'
        <5>1. i \in DOMAIN messages' /\ messages'[i].id = landed'[at]
          BY DEF InHistory
        <5>2. messages'[i] = line
          BY <2>11, <4>8, <5>1
        <5>3. QED
          BY <2>5, <4>6, <5>2
      <4>10. QED
        BY <4>4, <4>5, <4>7, <4>9 DEF LandedRight
    <3>4. \A k \in DOMAIN landed' : k < cursor \/ ~(k < cursor)
      OBVIOUS
    <3>5. ASSUME NEW k \in DOMAIN landed' PROVE LandedRight(k)'
      <4>1. k \in DOMAIN landed
        BY <1>2, <2>11
      <4>2. CASE k = at
        BY <3>3, <4>2
      <4>3. CASE k < cursor
        BY <3>1, <4>1, <4>3
      <4>4. CASE k # at /\ ~(k < cursor)
        BY <3>2, <4>1, <4>4 DEF LandedRight
      <4>5. QED
        BY <4>2, <4>3, <4>4
    <3>6. QED
      BY <3>5 DEF Landing
  <2>16. QED
    BY <2>12, <2>13, <2>14, <2>15 DEF ChatIInv
<1>8. QED
  BY <1>6, <1>7

LEMMA TickKeeps ==
  ASSUME ChatIInv, NEW reached \in SUBSET People, NEW moved \in SUBSET ToSet(friends),
         Tick(reached, moved)
  PROVE  ChatIInv' /\ LinesKept
<1>1. PICK now : now = heard \cup reached
  OBVIOUS
<1>2. /\ heard' = now /\ prev' = now \cap ToSet(friends)
      /\ UNCHANGED <<friends, spreading, story, warm, acts>>
  BY <1>1 DEF Tick
<1>3. /\ now \in SUBSET People /\ heard \subseteq now
      /\ friends \in Cohorts /\ ToSet(friends) \subseteq People
  BY <1>1, FriendsAre DEF ChatIInv, World
<1>4. World'
  BY <1>2, <1>3 DEF ChatIInv, World
<1>5. CASE prev = Nobody
  <2>1. UNCHANGED <<scriptVars, messageVars>>
    BY <1>5 DEF Tick
  <2>2. acts <= acts'
    BY <1>2 DEF ChatIInv, World
  <2>3. LinesKept
    BY <2>1 DEF LinesKept, messageVars
  <2>4. QED
    BY <1>2, <1>3, <1>4, <2>1, <2>2, <2>3, Silence
<1>6. CASE prev # Nobody
  <2>1. /\ moved \subseteq prev /\ ReleaseScript(now, OwnLines(prev', moved))
        /\ UNCHANGED <<script, author>>
    BY <1>1, <1>6 DEF Tick
  <2>2. PICK seen : seen = prev'
    OBVIOUS
  <2>3. seen \in SUBSET People /\ moved \in SUBSET People /\ seen \cup moved \subseteq now
    BY <1>2, <1>3, <1>6, <2>1, <2>2 DEF ChatIInv, World
  <2>4. PICK own : own = OwnLines(seen, moved)
    OBVIOUS
  <2>5. /\ own \in Seq(Lines) /\ Len(own) \in Nat
        /\ \A j \in 1..Len(own) : /\ own[j].id = nextMsgID + j - 1
                                  /\ own[j].from \in seen \cup moved /\ own[j].by.by = -1
    BY <2>3, <2>4, OwnLinesAre DEF ChatIInv
  <2>6. ReleaseScript(now, own)
    BY <2>1, <2>2, <2>4
  <2>7. \A j \in 1..Len(own) : own[j].from \in now
    BY <2>3, <2>5
  <2>8. QED
    BY <1>2, <1>3, <1>4, <2>1, <2>5, <2>6, <2>7, ReleaseKeeps
<1>7. QED
  BY <1>5, <1>6

-----------------------------------------------------------------------------
(* The handlers and the goroutine *)

(* One more task is started or over. *)
LEMMA OneMore ==
  ASSUME World, Called, NEW task \in Tasks, warm' = Append(warm, task)
  PROVE  /\ acts' \in Nat /\ warm' \in Seq(Tasks) /\ Len(warm') = acts'
         /\ acts' = acts + 1 /\ acts < acts'
<1>1. acts \in Nat /\ acts' = acts + 1
  BY DEF World, Called
<1>2. warm' \in Seq(Tasks) /\ Len(warm') = Len(warm) + 1
  BY AppendProperties DEF World
<1>3. QED
  BY <1>1, <1>2 DEF World

LEMMA TasksAre ==
  /\ Over \in Tasks
  /\ \A s \in Stories : Goroutine("warming", s, <<>>) \in Tasks
  /\ \A s \in Stories \cup {Nobody}, c \in Cohorts : Goroutine("asking", s, c) \in Tasks
BY DEF Over, Goroutine, Tasks

LEMMA EventKeeps ==
  ASSUME ChatIInv, NEW s \in Stories, NEW seeded \in SUBSET People,
         NEW turns \in CannedScripts, Event(s, seeded, turns)
  PROVE  ChatIInv'
<1>1. /\ Called /\ heard' = heard \cup seeded
      /\ script' = turns /\ landed' = Unlanded(turns)
      /\ author' = Author(0, acts', friends)
      /\ cursor' = 1 /\ waited' = -1 /\ story' = s
      /\ warm' = Append(warm, Goroutine("warming", s, <<>>))
      /\ UNCHANGED <<friends, prev, messages, nextMsgID>>
  BY DEF Event, messageVars
<1>2. Proper(turns)
  BY CannedProper
<1>3. acts \in Nat /\ acts' \in Nat /\ warm' \in Seq(Tasks) /\ Len(warm') = acts' /\ acts < acts'
  BY <1>1, OneMore, TasksAre DEF ChatIInv, World
<1>4. World'
  BY <1>1, <1>3 DEF ChatIInv, World
<1>5. Scripted'
  <2>1. author' \in Writers /\ author'.telling = acts'
    BY <1>1, <1>3 DEF Author, Writers, ChatIInv, World
  <2>2. /\ Proper(script)' /\ landed' \in Seq(Nat) /\ Len(landed') = Len(script')
        /\ Len(script') \in Nat
    BY <1>1, <1>2, ProperIs DEF Proper
  <2>3. 1 \in 1..(Len(script') + 1) /\ -1 \in -1..(StallLimit - 1) /\ acts' <= acts'
    BY <1>3, <2>2, ChatAssumption
  <2>4. QED
    BY <1>1, <2>1, <2>2, <2>3 DEF Scripted
<1>6. History'
  BY <1>1 DEF ChatIInv, History, Ordered
<1>7. SpeakersHaveHeard' /\ OneAuthor'
  BY <1>1 DEF ChatIInv, SpeakersHaveHeard, OneAuthor
<1>8. Telling'
  <2> SUFFICES ASSUME NEW i \in DOMAIN messages, messages[i].by.by >= 0
               PROVE  /\ messages[i].by.telling <= acts'
                      /\ messages[i].by.telling # acts'
    BY <1>1 DEF Telling, Author
  <2>1. messages[i] \in Lines
    BY LenProperties, ElementOfSeq DEF ChatIInv, History
  <2>2. messages[i].by.telling \in Nat /\ author.telling \in Nat
    BY <2>1 DEF ChatIInv, Scripted, Lines, Writers
  <2>3. messages[i].by.telling <= author.telling /\ author.telling <= acts
    BY DEF ChatIInv, Telling, Scripted
  <2>4. QED
    BY <1>3, <2>2, <2>3
<1>9. Landing'
  BY <1>1, <1>2, NothingLanded
<1>10. QED
  BY <1>4, <1>5, <1>6, <1>7, <1>8, <1>9 DEF ChatIInv

(* A chat of which nothing is left but its people. *)
LEMMA NothingSaid ==
  ASSUME World', messages' = <<>>, nextMsgID' \in Nat \ {0},
         script' = <<>>, landed' = <<>>, cursor' = 1, waited' = -1,
         author' \in Writers, author'.telling = 0
  PROVE  ChatIInv'
<1>1. Scripted'
  <2>1. Proper(script)' /\ landed' \in Seq(Nat) /\ Len(landed') = Len(script') /\ Len(script') = 0
    BY EmptyIs DEF Proper
  <2>2. 1 \in 1..(0 + 1) /\ -1 \in -1..(StallLimit - 1)
    BY ChatAssumption
  <2>3. author'.telling <= acts'
    BY DEF World
  <2>4. QED
    BY <2>1, <2>2, <2>3 DEF Scripted
<1>2. History' /\ DOMAIN messages' = {}
  BY EmptyIs, ChatAssumption DEF History, Ordered
<1>3. SpeakersHaveHeard' /\ Telling' /\ OneAuthor'
  BY <1>2 DEF SpeakersHaveHeard, Telling, OneAuthor
<1>4. Landing'
  BY EmptyIs DEF Landing
<1>5. QED
  BY <1>1, <1>2, <1>3, <1>4 DEF ChatIInv

LEMMA HandlerKeeps ==
  ASSUME ChatIInv,
         \/ Reset
         \/ \E c \in Cohorts : Reroll(c)
         \/ \E s \in Stories : Generate(s)
  PROVE  ChatIInv'
<1>1. CASE Reset
  <2>1. /\ Called /\ heard' = {} /\ prev' = Nobody /\ script' = <<>> /\ landed' = <<>>
        /\ author' = Author(0, 0, friends) /\ cursor' = 1 /\ waited' = -1
        /\ messages' = <<>> /\ warm' = Append(warm, Over)
        /\ UNCHANGED <<friends, nextMsgID, story>>
    BY <1>1 DEF Reset, ResetMessages
  <2>2. acts' \in Nat /\ warm' \in Seq(Tasks) /\ Len(warm') = acts'
    BY <2>1, OneMore, TasksAre DEF ChatIInv
  <2>3. World'
    BY <2>1, <2>2 DEF ChatIInv, World
  <2>4. author' \in Writers /\ author'.telling = 0 /\ nextMsgID' \in Nat \ {0}
    BY <2>1 DEF Author, Writers, ChatIInv, World, History
  <2>5. QED
    BY <2>1, <2>3, <2>4, NothingSaid
<1>2. CASE \E c \in Cohorts : Reroll(c)
  <2>1. PICK c \in Cohorts : Reroll(c)
    BY <1>2
  <2>2. /\ Called /\ friends' = c /\ prev' = Nobody /\ script' = <<>> /\ landed' = <<>>
        /\ author' = Author(0, 0, c) /\ cursor' = 1 /\ waited' = -1
        /\ messages' = <<>> /\ nextMsgID' = 1 /\ warm' = Append(warm, Over)
        /\ UNCHANGED <<heard, story>>
    BY <2>1 DEF Reroll, NewCohort
  <2>3. acts' \in Nat /\ warm' \in Seq(Tasks) /\ Len(warm') = acts'
    BY <2>2, OneMore, TasksAre DEF ChatIInv
  <2>4. World'
    BY <2>2, <2>3 DEF ChatIInv, World
  <2>5. author' \in Writers /\ author'.telling = 0 /\ nextMsgID' \in Nat \ {0}
    BY <2>2 DEF Author, Writers
  <2>6. QED
    BY <2>2, <2>4, <2>5, NothingSaid
<1>3. CASE \E s \in Stories : Generate(s)
  <2>1. PICK s \in Stories : Generate(s)
    BY <1>3
  <2>2. /\ Called /\ story' = s /\ warm' = Append(warm, Over)
        /\ UNCHANGED <<friends, heard, prev>> /\ UNCHANGED <<scriptVars, messageVars>>
    BY <2>1 DEF Generate, worldVars
  <2>3. /\ acts \in Nat /\ acts' \in Nat /\ acts < acts'
        /\ warm' \in Seq(Tasks) /\ Len(warm') = acts'
    BY <2>2, OneMore, TasksAre DEF ChatIInv, World
  <2>4. World'
    BY <2>2, <2>3 DEF ChatIInv, World
  <2>5. acts <= acts'
    BY <2>3
  <2>6. QED
    BY <2>2, <2>4, <2>5, Silence
<1>4. QED
  BY <1>1, <1>2, <1>3

(* A task that goes on, or is over. *)
LEMMA TaskOn ==
  ASSUME World, NEW a \in DOMAIN warm, NEW task \in Tasks, warm' = [warm EXCEPT ![a] = task]
  PROVE  warm' \in Seq(Tasks) /\ Len(warm') = Len(warm)
<1>1. Len(warm) \in Nat /\ warm \in [1..Len(warm) -> Tasks]
  BY LenProperties DEF World
<1>2. warm' \in [1..Len(warm) -> Tasks]
  BY <1>1
<1>3. warm' \in Seq(Tasks)
  BY <1>1, <1>2, SeqDef
<1>4. QED
  BY <1>1, <1>2, <1>3, LenProperties

LEMMA GoroutineKeeps ==
  ASSUME ChatIInv, NEW a \in DOMAIN warm,
         Ask(a) \/ NoDialogue(a) \/ \E turns \in Dialogues : Install(a, turns)
  PROVE  ChatIInv'
<1>1. a \in Nat /\ warm[a] \in Tasks /\ acts \in Nat
  <2>1. a \in 1..Len(warm) /\ Len(warm) \in Nat
    BY LenProperties DEF ChatIInv, World
  <2>2. QED
    BY <2>1, ElementOfSeq DEF ChatIInv, World
<1>2. ASSUME UNCHANGED <<friends, heard, prev, story, acts>>,
             NEW task \in Tasks, warm' = [warm EXCEPT ![a] = task]
      PROVE  World'
  <2>1. warm' \in Seq(Tasks) /\ Len(warm') = Len(warm)
    BY <1>2, TaskOn DEF ChatIInv
  <2>2. QED
    BY <1>2, <2>1 DEF ChatIInv, World
<1>3. acts <= acts
  BY <1>1
<1>4. CASE Ask(a)
  <2>1. PICK task : task = IF story = warm[a].story
                           THEN Goroutine("asking", warm[a].story, friends) ELSE Over
    OBVIOUS
  <2>2. /\ warm' = [warm EXCEPT ![a] = task]
        /\ UNCHANGED <<friends, heard, prev, story, acts>> /\ UNCHANGED <<scriptVars, messageVars>>
    BY <1>4, <2>1 DEF Ask, worldVars
  <2>3. warm[a].story \in Stories \cup {Nobody} /\ friends \in Cohorts
    BY <1>1 DEF Tasks, ChatIInv, World
  <2>4. task \in Tasks
    BY <2>1, <2>3, TasksAre
  <2>5. World'
    BY <1>2, <2>2, <2>4
  <2>6. QED
    BY <1>3, <2>2, <2>5, Silence
<1>5. CASE NoDialogue(a)
  <2>1. /\ warm' = [warm EXCEPT ![a] = Over]
        /\ UNCHANGED <<friends, heard, prev, story, acts>> /\ UNCHANGED <<scriptVars, messageVars>>
    BY <1>5 DEF NoDialogue, worldVars
  <2>2. World'
    BY <1>2, <2>1, TasksAre
  <2>3. QED
    BY <1>3, <2>1, <2>2, Silence
<1>6. CASE \E turns \in Dialogues : Install(a, turns)
  <2>1. PICK turns \in Dialogues : Install(a, turns)
    BY <1>6
  <2>2. /\ warm' = [warm EXCEPT ![a] = Over]
        /\ UNCHANGED <<friends, heard, prev, story, acts, cursor>>
        /\ messages' = messages /\ nextMsgID' = nextMsgID
    BY <2>1 DEF Install, worldVars, messageVars
  <2>3. World'
    BY <1>2, <2>2, TasksAre
  <2>4. CASE story = warm[a].story /\ NotStarted
    <3>1. /\ script' = turns /\ landed' = Unlanded(turns)
          /\ author' = Author(a, author.telling, warm[a].members) /\ waited' = -1 /\ cursor = 1
      BY <2>1, <2>4 DEF Install, NotStarted
    <3>2. Proper(turns)
      BY DialogueProper
    <3>3. author' \in Writers /\ author'.telling = author.telling
      <4>1. warm[a].members \in Cohorts \cup {<<>>} /\ author.telling \in Nat
        BY <1>1 DEF Tasks, ChatIInv, Scripted, Writers
      <4>2. QED
        BY <1>1, <3>1, <4>1 DEF Author, Writers
    <3>4. Scripted'
      <4>1. /\ Proper(script)' /\ landed' \in Seq(Nat) /\ Len(landed') = Len(script')
            /\ Len(script') \in Nat
        BY <3>1, <3>2, ProperIs DEF Proper
      <4>2. 1 \in 1..(Len(script') + 1) /\ -1 \in -1..(StallLimit - 1)
        BY <4>1, ChatAssumption
      <4>3. author'.telling <= acts'
        BY <2>2, <3>3 DEF ChatIInv, Scripted
      <4>4. QED
        BY <2>2, <3>1, <3>3, <4>1, <4>2, <4>3 DEF Scripted
    <3>5. History'
      BY <2>2 DEF ChatIInv, History, Ordered
    <3>6. SpeakersHaveHeard' /\ OneAuthor'
      BY <2>2 DEF ChatIInv, SpeakersHaveHeard, OneAuthor
    <3>7. Telling'
      <4>1. \A i \in DOMAIN messages : messages[i].by.by >= 0 =>
              messages[i].by.telling <= author.telling /\ messages[i].by.telling # author.telling
        BY <3>1 DEF ChatIInv, Telling
      <4>2. QED
        BY <2>2, <3>3, <4>1 DEF Telling
    <3>8. Landing'
      BY <3>1, <3>2, NothingLanded
    <3>9. QED
      BY <2>3, <3>4, <3>5, <3>6, <3>7, <3>8 DEF ChatIInv
  <2>5. CASE ~(story = warm[a].story /\ NotStarted)
    <3>1. UNCHANGED <<scriptVars, messageVars>>
      BY <2>1, <2>5 DEF Install, scriptVars
    <3>2. QED
      BY <1>3, <2>2, <2>3, <3>1, Silence
  <2>6. QED
    BY <2>4, <2>5
<1>7. QED
  BY <1>4, <1>5, <1>6

LEMMA ChatStarts ==
  Init => ChatIInv
<1> SUFFICES ASSUME Init PROVE ChatIInv
  OBVIOUS
<1>1. /\ friends \in Cohorts /\ heard = {} /\ prev = Nobody /\ script = <<>> /\ landed = <<>>
      /\ author = Author(0, 0, friends) /\ cursor = 1 /\ waited = -1
      /\ messages = <<>> /\ nextMsgID = 1 /\ story = Nobody /\ warm = <<>> /\ acts = 0
  BY DEF Init
<1>2. World
  BY <1>1, EmptyIs DEF World
<1>3. Scripted
  <2>1. author \in Writers /\ author.telling = 0
    BY <1>1 DEF Author, Writers
  <2>2. 1 \in 1..(0 + 1) /\ -1 \in -1..(StallLimit - 1)
    BY ChatAssumption
  <2>3. QED
    BY <1>1, <2>1, <2>2, EmptyIs DEF Scripted
<1>4. History /\ DOMAIN messages = {}
  BY <1>1, EmptyIs, ChatAssumption DEF History, Ordered
<1>5. SpeakersHaveHeard /\ Telling /\ OneAuthor
  BY <1>4 DEF SpeakersHaveHeard, Telling, OneAuthor
<1>6. Landing
  BY <1>1, EmptyIs DEF Landing
<1>7. QED
  BY <1>2, <1>3, <1>4, <1>5, <1>6 DEF ChatIInv

LEMMA ChatStepKeeps ==
  ChatIInv /\ [Next]_vars => ChatIInv'
<1> SUFFICES ASSUME ChatIInv, [Next]_vars PROVE ChatIInv'
  OBVIOUS
<1>1. CASE \E s \in Stories, seeded \in SUBSET People, turns \in CannedScripts :
             Event(s, seeded, turns)
  BY <1>1, EventKeeps
<1>2. CASE Reset \/ (\E c \in Cohorts : Reroll(c)) \/ (\E s \in Stories : Generate(s))
  BY <1>2, HandlerKeeps
<1>3. CASE \E a \in DOMAIN warm :
             Ask(a) \/ NoDialogue(a) \/ \E turns \in Dialogues : Install(a, turns)
  BY <1>3, GoroutineKeeps
<1>4. CASE TickSome
  BY <1>4, TickKeeps DEF TickSome
<1>5. CASE UNCHANGED vars
  <2>1. /\ UNCHANGED <<scriptVars, messageVars>>
        /\ UNCHANGED <<friends, heard, prev, story, warm, acts>>
    BY <1>5 DEF vars, worldVars
  <2>2. World'
    BY <2>1 DEF ChatIInv, World
  <2>3. acts <= acts'
    BY <2>1 DEF ChatIInv, World
  <2>4. QED
    BY <2>1, <2>2, <2>3, Silence
<1>6. QED
  BY <1>1, <1>2, <1>3, <1>4, <1>5 DEF Next

LEMMA ChatInvariance ==
  Spec => []ChatIInv
<1>1. Init => ChatIInv
  BY ChatStarts
<1>2. ChatIInv /\ [Next]_vars => ChatIInv'
  BY ChatStepKeeps
<1>3. QED
  BY <1>1, <1>2, PTL DEF Spec

-----------------------------------------------------------------------------
(* What follows *)

(* A story is spreading or it is not. *)
SpreadsOrNot == spreading \in BOOLEAN

LEMMA SpreadingIsKnown ==
  Spec => []SpreadsOrNot
<1>1. Init => SpreadsOrNot
  BY Zenon DEF Init, SpreadsOrNot
<1>2. SpreadsOrNot /\ [Next]_vars => SpreadsOrNot'
  <2> SUFFICES ASSUME spreading \in BOOLEAN, [Next]_vars PROVE spreading' \in BOOLEAN
    BY Zenon DEF SpreadsOrNot
  <2>1. ASSUME NEW s, NEW seeded, NEW turns, Event(s, seeded, turns)
        PROVE  spreading' \in BOOLEAN
    BY <2>1, Zenon DEF Event
  <2>2. CASE Reset
    BY <2>2, Zenon DEF Reset
  <2>3. ASSUME NEW c, Reroll(c) PROVE spreading' \in BOOLEAN
    BY <2>3, Zenon DEF Reroll
  <2>4. ASSUME NEW s, Generate(s) PROVE spreading' \in BOOLEAN
    BY <2>4, Zenon DEF Generate, worldVars
  <2>5. ASSUME NEW a, Ask(a) PROVE spreading' \in BOOLEAN
    BY <2>5, Zenon DEF Ask, worldVars
  <2>6. ASSUME NEW a, NoDialogue(a) PROVE spreading' \in BOOLEAN
    BY <2>6, Zenon DEF NoDialogue, worldVars
  <2>7. ASSUME NEW a, NEW turns, Install(a, turns) PROVE spreading' \in BOOLEAN
    BY <2>7, Zenon DEF Install, worldVars
  <2>8. CASE TickSome
    BY <2>8, Zenon DEF TickSome, Tick
  <2>9. CASE UNCHANGED vars
    BY <2>9, Zenon DEF vars, worldVars
  <2>10. QED
    BY <2>1, <2>2, <2>3, <2>4, <2>5, <2>6, <2>7, <2>8, <2>9, Zenon DEF Next
<1>3. QED
  BY <1>1, <1>2, PTL DEF Spec

(* The chat is well formed: one friend of the draw at each place, a cursor  *)
(* within its script and a history within its bound (internal/sim/          *)
(* cohort.go, Cohort).                                                      *)
THEOREM Types == Spec => []TypeOK
<1>1. ChatIInv /\ SpreadsOrNot => TypeOK
  BY DEF ChatIInv, World, Scripted, History, SpreadsOrNot, TypeOK
<1>2. QED
  BY <1>1, ChatInvariance, SpreadingIsKnown, PTL

(* However the history scrolls and whatever dialogues come in late, ids     *)
(* grow along it, turns land in their order and after the turns they        *)
(* answer, and a reply names the message it was written to answer, never a  *)
(* later arrival (releaseScript, append).                                   *)
THEOREM StaysThreaded == Spec => []Threaded
<1>1. ChatIInv => Threaded
  <2> SUFFICES ASSUME ChatIInv PROVE Threaded
    OBVIOUS
  <2>1. \A i, j \in DOMAIN messages : i < j => messages[i].id < messages[j].id
    BY DEF ChatIInv, History, Ordered
  <2>2. ASSUME NEW k \in DOMAIN landed, landed[k] > 0
        PROVE  /\ k < cursor /\ landed[k] < nextMsgID
               /\ \A j \in 1..(k - 1) : landed[j] < landed[k]
               /\ script[k].replyTo > 0 => landed[script[k].replyTo] > 0
               /\ \A i \in InHistory(landed[k]) :
                    messages[i].by = author /\ messages[i].turn = k
                    /\ messages[i].reply = Answered(k)
    BY <2>2 DEF ChatIInv, Landing, LandedRight
  <2>3. DOMAIN landed = 1..Len(script) /\ DOMAIN script = 1..Len(script)
        /\ Len(script) \in Nat
        /\ \A k \in 1..Len(script) : script[k].replyTo \in Nat /\ script[k].replyTo < k
    BY ProperIs, LenProperties DEF ChatIInv, Scripted
  <2>4. ASSUME NEW k \in DOMAIN landed, landed[k] > 0, script[k].replyTo > 0,
               NEW i \in InHistory(landed[k]), NEW j \in InHistory(messages[i].reply)
        PROVE  messages[j].turn = script[k].replyTo
    <3>1. messages[i].reply = landed[script[k].replyTo] /\ landed[script[k].replyTo] > 0
      BY <2>2, <2>3, <2>4 DEF Answered
    <3>2. script[k].replyTo \in DOMAIN landed
      BY <2>3, <2>4
    <3>3. QED
      BY <2>2, <3>1, <3>2
  <2>5. QED
    BY <2>1, <2>2, <2>4 DEF Threaded
<1>2. QED
  BY <1>1, ChatInvariance, PTL

(* Whichever goroutines come back in between, the scripted lines of one     *)
(* telling of a story that are still to be read are by one author           *)
(* (InstallModelScript's refusal once a turn has been said).                *)
THEOREM OneAuthorEach == Spec => []OneAuthor
<1>1. ChatIInv => OneAuthor
  BY DEF ChatIInv
<1>2. QED
  BY <1>1, ChatInvariance, PTL

(* Nobody is on record as speaking in a world where they have not heard,    *)
(* across resets, rerolls and late dialogues (Cohort.Observe).              *)
THEOREM OnlyHearersSpeak == Spec => []SpeakersHaveHeard
<1>1. ChatIInv => SpeakersHaveHeard
  BY DEF ChatIInv
<1>2. QED
  BY <1>1, ChatInvariance, PTL

(* A conversation is only ever added to at its end and cut at its start: no *)
(* line that can be read is changed by a late dialogue, another story or a  *)
(* stall, and what comes under an id not given out before comes last        *)
(* (Cohort.append).                                                         *)
NothingRewritten == [][LinesKept]_vars

(* Every step of every handler, goroutine and tick is such a step.          *)
THEOREM NeverRewritten == Spec => NothingRewritten
<1>1. ASSUME ChatIInv, [Next]_vars PROVE LinesKept
  <2>1. CASE messages' = messages
    BY <2>1 DEF LinesKept
  <2>2. CASE messages' = <<>>
    BY <2>2, EmptyIs DEF LinesKept
  <2>3. CASE TickSome
    BY <1>1, <2>3, TickKeeps DEF TickSome
  <2>4. CASE ~TickSome
    <3>1. messages' = messages \/ messages' = <<>>
      <4>1. ASSUME NEW s, NEW seeded, NEW turns, Event(s, seeded, turns)
            PROVE  messages' = messages
        BY <4>1 DEF Event, messageVars
      <4>2. ASSUME Reset PROVE messages' = <<>>
        BY <4>2 DEF Reset, ResetMessages
      <4>3. ASSUME NEW c, Reroll(c) PROVE messages' = <<>>
        BY <4>3 DEF Reroll, NewCohort
      <4>4. ASSUME NEW s, Generate(s) PROVE messages' = messages
        BY <4>4 DEF Generate, messageVars
      <4>5. ASSUME NEW a, Ask(a) \/ NoDialogue(a) PROVE messages' = messages
        BY <4>5 DEF Ask, NoDialogue, messageVars
      <4>6. ASSUME NEW a, NEW turns, Install(a, turns) PROVE messages' = messages
        BY <4>6 DEF Install, messageVars
      <4>7. ASSUME UNCHANGED vars PROVE messages' = messages
        BY <4>7 DEF vars, messageVars
      <4>8. QED
        BY <1>1, <2>4, <4>1, <4>2, <4>3, <4>4, <4>5, <4>6, <4>7 DEF Next
    <3>2. QED
      BY <2>1, <2>2, <3>1
  <2>5. QED
    BY <2>3, <2>4
<1>2. ChatIInv /\ [Next]_vars => [LinesKept]_vars
  BY <1>1
<1>3. QED
  BY <1>2, ChatInvariance, PTL DEF Spec, NothingRewritten

=============================================================================
