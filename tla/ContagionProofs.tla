-------------------------- MODULE ContagionProofs --------------------------
(***************************************************************************)
(* For any finite population, any ties, any feeds and any way to sleep:    *)
(* the clocks of the contagion fit its states, a stalled complex contagion *)
(* is final, the feed is credited with no more than it did and with one    *)
(* story only, and rounds that workers evaluate in any order are the       *)
(* synchronous rounds of Cascade.                                          *)
(***************************************************************************)
EXTENDS Contagion, FiniteSetTheorems, TLAPS

States == {"unaware", "adopted", "fatigued"}

(* The state of somebody and the round they adopted in fit together; during *)
(* a round those it has not reached are as they were before it.             *)
Clocked(i) ==
  /\ state[i] = "adopted" =>
       adoptedAt[i] \in 0..step /\ (TransmitFor > 0 => step - adoptedAt[i] < TransmitFor)
  /\ state[i] = "fatigued" =>
       TransmitFor > 0 /\ adoptedAt[i] \in Nat /\ step - adoptedAt[i] >= TransmitFor
  /\ (state[i] = "unaware" /\ (~inRound \/ i \in todo)) => adoptedAt[i] = -1

(* What the round has written for somebody it has reached is a verdict on   *)
(* the state before the round.                                              *)
Judged(i) ==
  IF i \in todo \/ state[i] # "unaware"
  THEN next[i] = state[i]
  ELSE \/ next[i] = "unaware" /\ adoptedAt[i] = -1 /\ CanPass(i)
       \/ next[i] = "adopted" /\ adoptedAt[i] = step + 1 /\ CanAdopt(i)

(* The inductive invariant. *)
IInv ==
  /\ TypeOK
  /\ simple \in BOOLEAN
  /\ ~inRound => todo = {}
  /\ inRound => shown \in Feeds /\ awake \in Wakes
  /\ (inRound /\ fresh = 0) => next = state
  /\ \A i \in Nodes : Clocked(i) /\ (inRound => Judged(i))
  /\ \A i \in feedDriven : adoptedAt[i] >= 0

-----------------------------------------------------------------------------
(* The larger of two numbers. *)
LEMMA MaxOfTwo ==
  ASSUME NEW a \in Int, NEW b \in Int
  PROVE  Max({a, b}) = IF a >= b THEN a ELSE b
<1>1. \E x \in {a, b} : \A y \in {a, b} : x >= y
  OBVIOUS
<1>2. Max({a, b}) \in {a, b} /\ \A y \in {a, b} : Max({a, b}) >= y
  BY <1>1 DEF Max
<1>3. QED
  BY <1>2

(* The smaller of two numbers. *)
LEMMA MinOfTwo ==
  ASSUME NEW a \in Int, NEW b \in Int
  PROVE  Min({a, b}) = IF a <= b THEN a ELSE b
<1>1. \E x \in {a, b} : \A y \in {a, b} : x =< y
  OBVIOUS
<1>2. Min({a, b}) \in {a, b} /\ \A y \in {a, b} : Min({a, b}) =< y
  BY <1>1 DEF Min
<1>3. QED
  BY <1>2

(* Ties are counted: those of a finite population are finitely many.        *)
LEMMA TiesCount ==
  ASSUME NEW i \in Nodes, NEW S \in SUBSET Ties[i]
  PROVE  IsFiniteSet(S) /\ Cardinality(S) \in Nat /\ S \subseteq Nodes
<1>1. Ties[i] \subseteq Nodes
  BY ContagionAssumption
<1>2. IsFiniteSet(S)
  BY <1>1, ContagionAssumption, FS_Subset
<1>3. QED
  BY <1>1, <1>2, FS_CardinalityType

(* Peers are counted, and somebody always needs MinReinforce of them.       *)
LEMMA Counted ==
  ASSUME TypeOK, NEW i \in Nodes
  PROVE  /\ Peers(i) \in Nat
         /\ Need(i) \in Nat /\ Need(i) >= MinReinforce
<1>1. Peers(i) \in Nat
  BY TiesCount DEF Peers
<1>2. Cardinality(Ties[i]) \in Nat
  BY TiesCount
<1>3. threshold[i] \in Nat /\ scale \in Nat
  BY ContagionAssumption DEF TypeOK
<1>4. threshold[i] * scale * Cardinality(Ties[i]) \in Nat
  BY <1>2, <1>3
<1>5. \A n \in Nat : (n + 9999) \div 10000 \in Nat
  OBVIOUS
<1>6. (threshold[i] * scale * Cardinality(Ties[i]) + 9999) \div 10000 \in Nat
  BY <1>4, <1>5
<1>7. MinReinforce \in Nat
  BY ContagionAssumption
<1>8. QED
  BY <1>1, <1>6, <1>7, MaxOfTwo DEF Need

(* Reactions keep a threshold at or above the floor and below a hundred.    *)
LEMMA LoweredInRange ==
  ASSUME NEW t \in Floor..100
  PROVE  Lowered(t) \in Floor..100
<1>1. Floor \in 1..100
  BY ContagionAssumption
<1>2. (t * 45) \div 100 \in Int /\ (t * 45) \div 100 <= 100
  BY <1>1
<1>3. QED
  BY <1>1, <1>2, MaxOfTwo DEF Lowered

-----------------------------------------------------------------------------
(* Nobody is unaware of being clocked at the start. *)
LEMMA InitIInv == Init => IInv
<1>1. SUFFICES ASSUME Init PROVE IInv
  OBVIOUS
<1>2. BaseThreshold \in [Nodes -> Floor..100]
  BY ContagionAssumption
<1>3. TypeOK
  <2>1. inRound \in BOOLEAN
    BY <1>1, Zenon DEF Init
  <2>2. /\ {state, next} \subseteq [Nodes -> States]
        /\ adoptedAt \in [Nodes -> Int]
        /\ feedDriven = {} /\ step = 0 /\ fresh = 0 /\ scale = 100 /\ todo = {}
    BY <1>1 DEF Init, Blank, States
  <2>3. QED
    BY <1>1, <1>2, <2>1, <2>2 DEF Init, TypeOK, States
<1>4. \A i \in Nodes : Clocked(i)
  BY <1>1 DEF Init, Blank, Clocked
<1>5. QED
  BY <1>1, <1>3, <1>4 DEF Init, IInv

(* What happens between rounds: a story breaks, reactions come in, the      *)
(* world is put to rest, a round begins.                                    *)
LEMMA BetweenIInv ==
  ASSUME IInv,
         \/ \E place \in Places, d \in Difficulties : Inject(place, d)
         \/ \E eager \in Eager : ApplyReactions(eager)
         \/ Reset
         \/ \E s \in Feeds, a \in Wakes : BeginRound(s, a)
  PROVE  IInv'
<1> USE DEF IInv
<1>1. CASE \E place \in Places, d \in Difficulties : Inject(place, d)
  <2>1. PICK place \in Places, d \in Difficulties : Inject(place, d)
    BY <1>1
  <2>2. d \in Nat
    BY ContagionAssumption
  <2>3. TypeOK'
    BY <2>1, <2>2 DEF TypeOK, Inject, roundVars
  <2>4. \A i \in Nodes : Clocked(i)'
    BY <2>1, ContagionAssumption DEF TypeOK, Inject, Clocked, Unaware, roundVars
  <2>5. \A i \in feedDriven' : adoptedAt'[i] >= 0
    <3>1. step >= 0 /\ feedDriven \subseteq Nodes
      BY DEF TypeOK
    <3>2. QED
      BY <2>1, <3>1 DEF Inject
  <2>6. QED
    BY <2>1, <2>3, <2>4, <2>5 DEF Inject, roundVars
<1>2. CASE \E eager \in Eager : ApplyReactions(eager)
  <2>1. PICK eager \in Eager : ApplyReactions(eager)
    BY <1>2
  <2>2. threshold' \in [Nodes -> Floor..100]
    BY <2>1, LoweredInRange DEF TypeOK, ApplyReactions
  <2>3. TypeOK'
    BY <2>1, <2>2 DEF TypeOK, ApplyReactions, nodeVars, roundVars
  <2>4. \A i \in Nodes : Clocked(i)'
    BY <2>1 DEF ApplyReactions, Clocked, nodeVars, roundVars
  <2>5. \A i \in feedDriven' : adoptedAt'[i] >= 0
    BY <2>1 DEF ApplyReactions, nodeVars
  <2>6. QED
    BY <2>1, <2>3, <2>4, <2>5 DEF ApplyReactions, roundVars
<1>3. CASE Reset
  <2>1. BaseThreshold \in [Nodes -> Floor..100]
    BY ContagionAssumption
  <2>2. TypeOK'
    BY <1>3, <2>1 DEF TypeOK, Reset, CreditCleared, Blank, roundVars
  <2>3. \A i \in Nodes : Clocked(i)'
    BY <1>3 DEF Reset, Blank, Clocked, roundVars
  <2>4. QED
    BY <1>3, <2>2, <2>3 DEF Reset, CreditCleared, roundVars
<1>4. CASE \E s \in Feeds, a \in Wakes : BeginRound(s, a)
  <2>1. PICK s \in Feeds, a \in Wakes : BeginRound(s, a)
    BY <1>4
  <2>2. TypeOK'
    BY <2>1 DEF TypeOK, BeginRound, storyVars
  <2>3. \A i \in Nodes : Clocked(i)'
    BY <2>1 DEF BeginRound, Clocked
  <2>4. \A i \in Nodes : Judged(i)'
    BY <2>1 DEF BeginRound, Judged
  <2>5. QED
    BY <2>1, <2>2, <2>3, <2>4 DEF BeginRound, storyVars
<1>5. QED
  BY <1>1, <1>2, <1>3, <1>4

(* A verdict depends on nothing a round changes before its end.             *)
LEMMA VerdictKept ==
  ASSUME UNCHANGED <<state, storyVars, shown, awake>>, NEW i \in Nodes
  PROVE  /\ Peers(i)' = Peers(i) /\ Need(i)' = Need(i)
         /\ CanAdopt(i)' <=> CanAdopt(i)
         /\ CanPass(i)' <=> CanPass(i)
<1>1. Peers(i)' = Peers(i)
  BY DEF Peers
<1>2. Exposed(i)' = Exposed(i)
  BY <1>1 DEF Exposed
<1>3. Need(i)' = Need(i)
  BY DEF Need, storyVars
<1>4. CanAdopt(i)' <=> CanAdopt(i)
  BY <1>2, <1>3 DEF CanAdopt, storyVars
<1>5. QED
  BY <1>1, <1>3, <1>4 DEF CanPass, storyVars

(* Reaching somebody writes their verdict and touches nobody else.          *)
LEMMA EvaluateIInv ==
  ASSUME IInv, NEW i \in Nodes, Adopt(i) \/ Pass(i)
  PROVE  IInv'
<1> USE DEF IInv
<1>1. /\ inRound /\ i \in todo /\ todo' = todo \ {i} /\ state' = state
      /\ UNCHANGED <<step, storyVars, inRound, shown, awake>>
  BY DEF Adopt, Pass, StateDuringRound, nodeVars
<1>2. \A j \in Nodes : (CanAdopt(j)' <=> CanAdopt(j)) /\ (CanPass(j)' <=> CanPass(j))
  BY <1>1, VerdictKept
<1>3. Clocked(i) /\ Judged(i)
  BY <1>1
<1>4. CASE Adopt(i)
  <2>1. /\ next' = [next EXCEPT ![i] = "adopted"]
        /\ adoptedAt' = [adoptedAt EXCEPT ![i] = step + 1]
        /\ fresh' = fresh + 1
        /\ CanAdopt(i) /\ state[i] = "unaware"
    BY <1>4 DEF Adopt, CanAdopt
  <2>2. TypeOK'
    BY <1>1, <1>4, <2>1 DEF TypeOK, Adopt, storyVars
  <2>3. \A j \in Nodes : Clocked(j)'
    BY <1>1, <2>1 DEF Clocked, TypeOK
  <2>4. \A j \in Nodes : Judged(j)'
    BY <1>1, <1>2, <2>1 DEF Judged, TypeOK
  <2>5. fresh' # 0
    BY <2>1 DEF TypeOK
  <2>6. \A j \in feedDriven' : adoptedAt'[j] >= 0
    <3>1. /\ step >= 0 /\ step \in Int
          /\ adoptedAt \in [Nodes -> Int] /\ feedDriven \subseteq Nodes
      BY DEF TypeOK
    <3>2. feedDriven' \subseteq feedDriven \cup {i}
      BY <1>4 DEF Adopt
    <3>3. QED
      BY <2>1, <3>1, <3>2
  <2>7. QED
    BY <1>1, <2>2, <2>3, <2>4, <2>5, <2>6 DEF storyVars
<1>5. CASE Pass(i)
  <2>1. UNCHANGED <<nodeVars, fresh>> /\ CanPass(i)
    BY <1>5 DEF Pass
  <2>2. TypeOK'
    BY <1>1, <2>1 DEF TypeOK, nodeVars, storyVars
  <2>3. \A j \in Nodes : Clocked(j)'
    BY <1>1, <2>1 DEF Clocked, nodeVars
  <2>4. \A j \in Nodes : Judged(j)'
    BY <1>1, <1>2, <1>3, <2>1 DEF Judged, Clocked, nodeVars
  <2>5. QED
    BY <1>1, <2>1, <2>2, <2>3, <2>4 DEF storyVars, nodeVars
<1>6. QED
  BY <1>4, <1>5

(* At the end of a round the clock moves on, and whoever has spread the     *)
(* story long enough tires of it.                                           *)
LEMMA EndIInv ==
  ASSUME IInv, EndRound
  PROVE  IInv'
<1> USE DEF IInv
<1>1. /\ inRound /\ todo = {} /\ ~inRound' /\ todo' = {}
      /\ step' = step + 1 /\ adoptedAt' = adoptedAt /\ simple' = simple
  BY DEF EndRound, storyVars
<1>2. \A i \in Nodes :
        state'[i] = IF /\ TransmitFor > 0
                       /\ next[i] = "adopted" /\ adoptedAt[i] >= 0
                       /\ step' - adoptedAt[i] >= TransmitFor
                    THEN "fatigued" ELSE next[i]
  BY DEF EndRound, Decayed, TooOld
<1>3. TypeOK'
  <2>1. state' \in [Nodes -> States] /\ next' \in [Nodes -> States]
    BY DEF EndRound, Decayed, Blank, TypeOK, States
  <2>2. inRound' \in BOOLEAN
    BY <1>1, Zenon DEF EndRound
  <2>3. /\ adoptedAt' \in [Nodes -> Int] /\ feedDriven' \subseteq Nodes
        /\ step' \in Nat /\ fresh' \in Nat
        /\ threshold' \in [Nodes -> Floor..100] /\ scale' \in Nat
    BY DEF TypeOK, EndRound, storyVars
  <2>4. QED
    BY <1>1, <2>1, <2>2, <2>3 DEF TypeOK, States
<1>4. \A i \in Nodes : Clocked(i)'
  <2>1. TAKE i \in Nodes
  <2>2. /\ Clocked(i) /\ Judged(i)
        /\ step \in Nat /\ TransmitFor \in Nat /\ adoptedAt[i] \in Int
        /\ state[i] \in States /\ next[i] \in States
    BY <1>1, ContagionAssumption DEF TypeOK, States
  <2>3. CASE state[i] = "unaware"
    BY <1>1, <1>2, <2>2, <2>3 DEF Clocked, Judged, States
  <2>4. CASE state[i] # "unaware"
    BY <1>1, <1>2, <2>2, <2>4 DEF Clocked, Judged, States
  <2>5. QED
    BY <2>3, <2>4
<1>5. \A i \in feedDriven' : adoptedAt'[i] >= 0
  BY DEF EndRound
<1>6. QED
  BY <1>1, <1>3, <1>4, <1>5

(* The clocks fit after any step. *)
LEMMA NextIInv == IInv /\ [Next]_vars => IInv'
<1>1. ASSUME IInv, UNCHANGED vars PROVE IInv'
  <2>1. \A i \in Nodes : Clocked(i)' <=> Clocked(i)
    BY <1>1 DEF Clocked, vars, nodeVars, roundVars
  <2>2. \A i \in Nodes : (CanAdopt(i)' <=> CanAdopt(i)) /\ (CanPass(i)' <=> CanPass(i))
    BY <1>1, VerdictKept DEF vars, nodeVars, roundVars
  <2>3. \A i \in Nodes : Judged(i)' <=> Judged(i)
    BY <1>1, <2>2 DEF Judged, vars, nodeVars, roundVars
  <2>4. TypeOK'
    BY <1>1 DEF IInv, TypeOK, vars, nodeVars, roundVars, storyVars
  <2>5. QED
    BY <1>1, <2>1, <2>3, <2>4 DEF IInv, vars, nodeVars, roundVars, storyVars
<1>2. QED
  BY <1>1, BetweenIInv, EvaluateIInv, EndIInv DEF Next

(* Whoever spreads the story does so for its time and not longer, whatever  *)
(* seeds, rounds and resets come in which order.                            *)
THEOREM Clocks == Spec => [](TypeOK /\ ClocksFit)
<1>1. Init => IInv
  BY InitIInv
<1>2. IInv /\ [Next]_vars => IInv'
  BY NextIInv
<1>3. IInv => TypeOK /\ ClocksFit
  BY DEF IInv, ClocksFit, Clocked
<1>4. QED
  BY <1>1, <1>2, <1>3, PTL DEF Spec

(* Types; above all, however often reactions lower a threshold, it stays    *)
(* between the floor and one.                                               *)
THEOREM Types == Spec => []TypeOK
BY Clocks, PTL

-----------------------------------------------------------------------------
(* Tiring of a story takes peers away and a round without adoptions adds    *)
(* none, so nobody left unaware comes to need fewer than they see.          *)
LEMMA StallStep == IInv /\ [Next]_vars =>
                     (Stalls => \A i \in Unaware(Nodes)' : Peers(i)' < Need(i)')
<1>1. SUFFICES ASSUME IInv, [Next]_vars, Stalls, NEW i \in Unaware(Nodes)'
               PROVE  Peers(i)' < Need(i)'
  OBVIOUS
<1>2. EndRound
  BY <1>1 DEF Stalls, Next, vars, roundVars, Inject, ApplyReactions, Reset, BeginRound,
              Adopt, Pass
<1>3. i \in Nodes /\ state'[i] = "unaware"
  BY <1>1 DEF Unaware
<1>4. next = state
  BY <1>1 DEF IInv, Stalls
<1>5. \A j \in Nodes :
        state'[j] = IF /\ TransmitFor > 0
                       /\ state[j] = "adopted" /\ adoptedAt[j] >= 0
                       /\ step' - adoptedAt[j] >= TransmitFor
                    THEN "fatigued" ELSE state[j]
  BY <1>2, <1>4 DEF EndRound, Decayed, TooOld
<1>6. Peers(i)' <= Peers(i)
  <2> DEFINE now == {j \in Ties[i] : state[j] = "adopted"}
  <2> DEFINE then == {j \in Ties[i] : state'[j] = "adopted"}
  <2>3. then \subseteq now
    <3>1. Ties[i] \subseteq Nodes
      BY <1>3, ContagionAssumption
    <3>2. QED
      BY <1>5, <3>1
  <2>4. IsFiniteSet(now)
    BY <1>3, TiesCount
  <2>5. Cardinality(then) <= Cardinality(now)
    BY <2>3, <2>4, FS_Subset
  <2>6. QED
    BY <2>5 DEF Peers
<1>7. CanPass(i) /\ ~simple /\ shown[i] = 0 /\ i \in awake /\ state[i] = "unaware"
  <2>1. state[i] = "unaware"
    BY <1>3, <1>5
  <2>2. Judged(i) /\ todo = {}
    BY <1>1, <1>2, <1>3 DEF IInv, EndRound
  <2>3. CanPass(i)
    BY <1>4, <2>1, <2>2 DEF Judged
  <2>4. QED
    BY <1>1, <1>3, <2>1, <2>3 DEF Stalls, Nothing
<1>8. TypeOK /\ Peers(i) \in Nat /\ Need(i) \in Nat /\ Need(i) >= MinReinforce
  BY <1>1, <1>3, Counted DEF IInv
<1>9. Peers(i) < Need(i)
  <2>1. MinReinforce \in Nat /\ MinReinforce > 0
    BY ContagionAssumption
  <2>2. QED
    BY <1>7, <1>8, <2>1 DEF CanPass, CanAdopt, Exposed
<1>10. Need(i)' = Need(i)
  BY <1>2 DEF EndRound, Need, storyVars
<1>11. Peers(i)' \in Nat
  BY <1>3, TiesCount DEF Peers
<1>12. QED
  BY <1>6, <1>8, <1>9, <1>10, <1>11

(* When a complex contagion has stalled over peer ties, nobody left unaware *)
(* can be convinced by them: Run may stop there.                            *)
THEOREM Stalled == Spec => StalledIsFinal
<1>1. Init => IInv
  BY InitIInv
<1>2. IInv /\ [Next]_vars => IInv'
  BY NextIInv
<1>3. IInv /\ [Next]_vars =>
        [Stalls => \A i \in Unaware(Nodes)' : Peers(i)' < Need(i)']_vars
  BY StallStep
<1>4. QED
  BY <1>1, <1>2, <1>3, PTL DEF Spec, StalledIsFinal

(* Outside an Adopt, credit changes by a reset only, and by then nobody     *)
(* unaware has any: they are not dated, and the credited are.               *)
LEMMA CreditOtherwise ==
  ASSUME IInv, [Next]_vars, \A i \in Nodes : ~Adopt(i)
  PROVE  /\ feedDriven' = feedDriven \/ (feedDriven' = {} /\ \A i \in Nodes : adoptedAt'[i] = -1)
         /\ ~inRound => \A i \in Unaware(Nodes) : i \notin feedDriven'
<1>1. feedDriven' = feedDriven \/ (feedDriven' = {} /\ \A i \in Nodes : adoptedAt'[i] = -1)
  BY DEF Next, vars, nodeVars, Inject, ApplyReactions, Reset, CreditCleared, BeginRound,
         Pass, EndRound
<1>2. \A i \in Unaware(Nodes) : ~inRound => i \notin feedDriven
  BY DEF IInv, Clocked, Unaware
<1>3. QED
  BY <1>1, <1>2

(* An Adopt credits the adopter or nobody: they were not credited before,   *)
(* and if they are now, their peers fell short and the feed made it up.     *)
LEMMA CreditAdopt ==
  ASSUME IInv, NEW i \in Nodes, Adopt(i)
  PROVE  /\ feedDriven \subseteq feedDriven' /\ feedDriven' \subseteq feedDriven \cup {i}
         /\ i \in feedDriven' => state[i] = "unaware" /\ shown[i] > 0 /\ ~PeersMight(i)
<1>1. /\ inRound /\ i \in todo /\ CanAdopt(i) /\ state[i] = "unaware"
      /\ feedDriven' = IF ByFeed(i) THEN feedDriven \cup {i} ELSE feedDriven \ {i}
  BY DEF Adopt, CanAdopt
<1>2. i \notin feedDriven
  BY <1>1 DEF IInv, Clocked
<1>3. Peers(i) \in Nat /\ Need(i) \in Nat /\ Need(i) > 0
  BY Counted, ContagionAssumption DEF IInv
<1>4. shown[i] \in Nat
  BY <1>1, ContagionAssumption DEF IInv
<1>5. ASSUME ByFeed(i) PROVE shown[i] > 0 /\ ~PeersMight(i)
  <2>1. CASE simple
    BY <1>1, <1>3, <1>4, <1>5, <2>1 DEF ByFeed, CanAdopt, Exposed, PeersMight
  <2>2. CASE ~simple
    BY <1>1, <1>3, <1>4, <1>5, <2>2 DEF ByFeed, CanAdopt, Exposed, PeersMight
  <2>3. QED
    BY <2>1, <2>2
<1>6. QED
  BY <1>1, <1>2, <1>5

(* The feed is never credited with what peers might have done, nor with     *)
(* anything of an earlier story.                                            *)
THEOREM Credit == Spec => FeedCredit
<1>1. Init => IInv
  BY InitIInv
<1>2. IInv /\ [Next]_vars => IInv'
  BY NextIInv
<1>3. IInv /\ [Next]_vars =>
        [/\ \A i \in feedDriven' \ feedDriven :
              state[i] = "unaware" /\ shown[i] > 0 /\ ~PeersMight(i)
         /\ \A i \in feedDriven \ feedDriven' : adoptedAt'[i] = -1
         /\ ~inRound => \A i \in Unaware(Nodes) \ Unaware(Nodes)' : i \notin feedDriven']_vars
  <2> SUFFICES ASSUME IInv, [Next]_vars
               PROVE  /\ \A i \in feedDriven' \ feedDriven :
                            state[i] = "unaware" /\ shown[i] > 0 /\ ~PeersMight(i)
                      /\ \A i \in feedDriven \ feedDriven' : adoptedAt'[i] = -1
                      /\ ~inRound => \A i \in Unaware(Nodes) \ Unaware(Nodes)' :
                                       i \notin feedDriven'
    OBVIOUS
  <2>1. feedDriven \subseteq Nodes
    BY DEF IInv, TypeOK
  <2>2. CASE \E i \in Nodes : Adopt(i)
    <3>1. PICK i \in Nodes : Adopt(i)
      BY <2>2
    <3>2. inRound
      BY <3>1 DEF Adopt
    <3>3. QED
      BY <3>1, <3>2, CreditAdopt
  <2>3. CASE \A i \in Nodes : ~Adopt(i)
    BY <2>1, <2>3, CreditOtherwise
  <2>4. QED
    BY <2>2, <2>3
<1>4. QED
  BY <1>1, <1>2, <1>3, PTL DEF Spec, FeedCredit

-----------------------------------------------------------------------------
(* Refinement: a node's age is read off its state and its clock.            *)

(* The values the refinement gives the abstract age and need. *)
ageNow  == [i \in Nodes |-> Age(i)]
needNow == [i \in Nodes |-> Need(i)]

(* Between nobody and TransmitFor, an age says what a state says.           *)
LEMMA AgeIs ==
  ASSUME IInv, NEW i \in Nodes
  PROVE  /\ Age(i) \in Int
         /\ Age(i) = -1 <=> state[i] = "unaware"
         /\ (Age(i) >= 0 /\ (TransmitFor = 0 \/ Age(i) < TransmitFor))
              <=> state[i] = "adopted"
<1>1. /\ Clocked(i) /\ state[i] \in States
      /\ step \in Nat /\ adoptedAt[i] \in Int /\ TransmitFor \in Nat
  BY ContagionAssumption DEF IInv, TypeOK, States
<1>2. CASE state[i] = "unaware"
  BY <1>2 DEF Age
<1>3. CASE state[i] = "adopted"
  BY <1>1, <1>3 DEF Age, Clocked
<1>4. CASE state[i] = "fatigued"
  BY <1>1, <1>4 DEF Age, Clocked
<1>5. QED
  BY <1>1, <1>2, <1>3, <1>4 DEF States

(* The abstract confirmations are what the code counts. *)
LEMMA ConfirmationsAre ==
  ASSUME IInv, NEW i \in Nodes
  PROVE  Casc!Confirmations(i, shown) = Exposed(i)
<1>1. Ties[i] \subseteq Nodes
  BY ContagionAssumption
<1>2. {j \in Ties[i] : Casc!Spreading(j)} = {j \in Ties[i] : state[j] = "adopted"}
  BY <1>1, AgeIs DEF Casc!Spreading
<1>3. QED
  BY <1>2 DEF Casc!Confirmations, Exposed, Peers, Casc!Cardinality, Cardinality

(* An age is a number at any time. *)
LEMMA AgeNow == IInv => ageNow \in [Nodes -> Int]
BY AgeIs DEF ageNow

(* Everybody needs a number of confirmations, MinReinforce at the least.    *)
LEMMA NeedNow ==
  ASSUME TypeOK
  PROVE  needNow \in [Nodes -> Nat] /\ \A i \in Nodes : needNow[i] >= MinReinforce
BY Counted DEF needNow

(* The end of a round is the abstract round: whoever could adopt did so or, *)
(* in a simple contagion, was unlucky; and all the others grew a round      *)
(* older.                                                                   *)
LEMMA RoundStep ==
  ASSUME IInv, IInv', EndRound
  PROVE  Casc!Round(shown, awake)
<1>1. /\ inRound /\ todo = {} /\ step' = step + 1
      /\ adoptedAt' = adoptedAt /\ UNCHANGED storyVars
  BY DEF EndRound
<1>2. ageNow' \in [Nodes -> Int]
  <2>1. (IInv => ageNow \in [Nodes -> Int])'
    BY AgeNow, PTL
  <2>2. QED
    BY <2>1
<1>3. ASSUME NEW i \in Nodes
      PROVE  \/ Casc!Unaware(i) /\ Casc!MayAdopt(i, shown, awake) /\ ageNow'[i] = 0
             \/ Casc!Unaware(i) /\ Casc!MayPass(i, shown, awake) /\ ageNow'[i] = -1
             \/ ~Casc!Unaware(i) /\ ageNow'[i] = Casc!Older(i)
  <2>1. /\ Clocked(i) /\ Judged(i) /\ step \in Nat /\ TransmitFor \in Nat
        /\ adoptedAt[i] \in Int /\ state[i] \in States
    BY <1>1, ContagionAssumption DEF IInv, TypeOK, States
  <2>2. state'[i] = IF /\ TransmitFor > 0
                       /\ next[i] = "adopted" /\ adoptedAt[i] >= 0
                       /\ step' - adoptedAt[i] >= TransmitFor
                    THEN "fatigued" ELSE next[i]
    BY DEF EndRound, Decayed, TooOld
  <2>3. ageNow'[i] = Age(i)' /\ (Casc!Unaware(i) <=> state[i] = "unaware")
    BY AgeIs DEF ageNow, Casc!Unaware
  <2>4. CASE state[i] = "unaware" /\ next[i] = "unaware"
    <3>1. Age(i)' = -1
      BY <2>2, <2>4 DEF Age
    <3>2. CanPass(i)
      BY <1>1, <2>1, <2>4 DEF Judged
    <3>3. Casc!MayPass(i, shown, awake)
      BY <2>4, <3>2, ConfirmationsAre DEF Casc!MayPass, Casc!MayAdopt, CanPass, CanAdopt
    <3>4. QED
      BY <2>3, <2>4, <3>1, <3>3
  <2>5. CASE state[i] = "unaware" /\ next[i] # "unaware"
    <3>1. CanAdopt(i) /\ next[i] = "adopted" /\ adoptedAt[i] = step + 1
      BY <1>1, <2>1, <2>5 DEF Judged
    <3>2. Age(i)' = 0
      BY <1>1, <2>1, <2>2, <3>1 DEF Age
    <3>3. Casc!MayAdopt(i, shown, awake)
      BY <3>1, ConfirmationsAre DEF Casc!MayAdopt, CanAdopt
    <3>4. QED
      BY <2>3, <2>5, <3>2, <3>3
  <2>6. CASE state[i] # "unaware"
    <3>1. Age(i) \in Int /\ next[i] = state[i]
      BY <2>1, <2>6, AgeIs DEF Judged
    <3>2. Casc!Older(i) = IF TransmitFor = 0 THEN 0 ELSE Min({Age(i) + 1, TransmitFor})
      BY DEF Casc!Older, Casc!Min, Min
    <3>3. Min({Age(i) + 1, TransmitFor})
            = IF Age(i) + 1 <= TransmitFor THEN Age(i) + 1 ELSE TransmitFor
      BY <2>1, <3>1, MinOfTwo
    <3>4. ASSUME state[i] = "adopted" PROVE Age(i)' = Casc!Older(i)
      <4>1. /\ adoptedAt[i] \in 0..step
            /\ TransmitFor > 0 => step - adoptedAt[i] < TransmitFor
            /\ Age(i) = IF TransmitFor = 0 THEN 0 ELSE step - adoptedAt[i]
        BY <2>1, <3>4 DEF Clocked, Age
      <4>2. CASE TransmitFor > 0 /\ step + 1 - adoptedAt[i] >= TransmitFor
        <5>1. state'[i] = "fatigued"
          BY <1>1, <2>1, <2>2, <3>1, <3>4, <4>1, <4>2
        <5>2. Age(i)' = TransmitFor
          BY <5>1 DEF Age
        <5>3. QED
          BY <2>1, <3>2, <3>3, <4>1, <4>2, <5>2
      <4>3. CASE ~(TransmitFor > 0 /\ step + 1 - adoptedAt[i] >= TransmitFor)
        <5>1. state'[i] = "adopted"
          BY <1>1, <2>1, <2>2, <3>1, <3>4, <4>1, <4>3
        <5>2. Age(i)' = IF TransmitFor = 0 THEN 0 ELSE step + 1 - adoptedAt[i]
          BY <1>1, <2>1, <5>1 DEF Age
        <5>3. CASE TransmitFor = 0
          BY <3>2, <5>2, <5>3
        <5>4. CASE TransmitFor > 0
          <6>1. Age(i) + 1 = step + 1 - adoptedAt[i] /\ Age(i) + 1 <= TransmitFor
            BY <2>1, <4>1, <4>3, <5>4
          <6>2. Casc!Older(i) = Age(i) + 1
            BY <2>1, <3>2, <3>3, <5>4, <6>1
          <6>3. QED
            BY <2>1, <5>2, <5>4, <6>1, <6>2
        <5>5. QED
          BY <2>1, <5>3, <5>4
      <4>4. QED
        BY <4>2, <4>3
    <3>5. ASSUME state[i] = "fatigued" PROVE Age(i)' = Casc!Older(i)
      <4>1. state'[i] = "fatigued"
        BY <2>2, <3>1, <3>5
      <4>2. Age(i) = TransmitFor /\ Age(i)' = TransmitFor
        BY <3>5, <4>1 DEF Age
      <4>3. TransmitFor > 0
        BY <2>1, <3>5 DEF Clocked
      <4>4. QED
        BY <2>1, <3>2, <3>3, <4>2, <4>3
    <3>6. Age(i)' = Casc!Older(i)
      BY <2>1, <2>6, <3>4, <3>5 DEF States
    <3>7. QED
      BY <2>3, <2>6, <3>6
  <2>7. QED
    BY <2>4, <2>5, <2>6
<1>4. UNCHANGED <<needNow, simple>>
  BY <1>1 DEF needNow, Need, storyVars
<1>5. QED
  BY <1>2, <1>3, <1>4 DEF Casc!Round, ageNow, needNow

(* A story that breaks seeds people who were unaware, at age 0.             *)
LEMMA InjectStep ==
  ASSUME IInv, IInv', NEW place \in Places, NEW d \in Difficulties, Inject(place, d)
  PROVE  Casc!Break
<1>1. ageNow' \in [Nodes -> Int]
  <2>1. (IInv => ageNow \in [Nodes -> Int])'
    BY AgeNow, PTL
  <2>2. QED
    BY <2>1
<1>2. needNow' \in [Nodes -> Nat] /\ \A i \in Nodes : needNow'[i] >= MinReinforce
  <2>1. (TypeOK => needNow \in [Nodes -> Nat] /\ \A i \in Nodes : needNow[i] >= MinReinforce)'
    BY NeedNow, PTL
  <2>2. QED
    BY <2>1 DEF IInv
<1>3. ASSUME NEW i \in Nodes
      PROVE  ageNow'[i] = ageNow[i] \/ (Casc!Unaware(i) /\ ageNow'[i] = 0)
  <2>1. step \in Nat /\ step' = step
    BY DEF Inject, IInv, TypeOK
  <2>2. CASE i \in Unaware(place)
    <3>1. state'[i] = "adopted" /\ adoptedAt'[i] = step /\ state[i] = "unaware"
      BY <2>2 DEF Inject, Unaware
    <3>2. Age(i)' = 0 /\ Age(i) = -1
      BY <2>1, <3>1 DEF Age
    <3>3. QED
      BY <3>2 DEF ageNow, Casc!Unaware
  <2>3. CASE i \notin Unaware(place)
    <3>1. state'[i] = state[i] /\ adoptedAt'[i] = adoptedAt[i]
      BY <2>3 DEF Inject
    <3>2. Age(i)' = Age(i)
      BY <2>1, <3>1 DEF Age
    <3>3. QED
      BY <3>2 DEF ageNow
  <2>4. QED
    BY <2>2, <2>3
<1>4. simple' = simple
  BY DEF Inject
<1>5. QED
  BY <1>1, <1>2, <1>3, <1>4 DEF Casc!Break, ageNow, needNow

(* Reactions change what people need, and a reset makes them forget.        *)
LEMMA RethinkStep ==
  ASSUME IInv, IInv', (\E eager \in Eager : ApplyReactions(eager)) \/ Reset
  PROVE  Casc!Rethink
<1>1. needNow' \in [Nodes -> Nat] /\ \A i \in Nodes : needNow'[i] >= MinReinforce
  <2>1. (TypeOK => needNow \in [Nodes -> Nat] /\ \A i \in Nodes : needNow[i] >= MinReinforce)'
    BY NeedNow, PTL
  <2>2. QED
    BY <2>1 DEF IInv
<1>2. simple' = simple
  BY DEF ApplyReactions, Reset
<1>3. ageNow' = ageNow \/ ageNow' = [i \in Nodes |-> -1]
  <2>1. CASE \E eager \in Eager : ApplyReactions(eager)
    BY <2>1 DEF ApplyReactions, nodeVars, ageNow, Age
  <2>2. CASE Reset
    <3>1. \A i \in Nodes : Age(i)' = -1
      BY <2>2 DEF Reset, Blank, Age
    <3>2. QED
      BY <3>1 DEF ageNow
  <2>3. QED
    BY <2>1, <2>2
<1>4. QED
  BY <1>1, <1>2, <1>3 DEF Casc!Rethink, ageNow, needNow

(* Beginning a round and reaching people in it leave the cascade as it is.  *)
LEMMA QuietStep ==
  ASSUME UNCHANGED <<state, step, storyVars>>,
         \A i \in Nodes : state[i] # "unaware" => adoptedAt'[i] = adoptedAt[i]
  PROVE  UNCHANGED <<ageNow, needNow, simple>>
<1>1. \A i \in Nodes : Age(i)' = Age(i)
  BY DEF Age
<1>2. \A i \in Nodes : Need(i)' = Need(i)
  BY DEF Need, storyVars
<1>3. QED
  BY <1>1, <1>2 DEF ageNow, needNow, storyVars

(* Every step is an abstract step or leaves the cascade as it is.           *)
LEMMA StepRefines ==
  IInv /\ IInv' /\ [Next]_vars => [Casc!CascadeNext]_<<ageNow, needNow, simple>>
<1>1. SUFFICES ASSUME IInv, IInv', [Next]_vars
               PROVE  Casc!CascadeNext \/ UNCHANGED <<ageNow, needNow, simple>>
  OBVIOUS
<1>2. CASE \E place \in Places, d \in Difficulties : Inject(place, d)
  BY <1>1, <1>2, InjectStep DEF Casc!CascadeNext
<1>3. CASE (\E eager \in Eager : ApplyReactions(eager)) \/ Reset
  BY <1>1, <1>3, RethinkStep DEF Casc!CascadeNext
<1>4. CASE \E s \in Feeds, a \in Wakes : BeginRound(s, a)
  BY <1>4, QuietStep DEF BeginRound
<1>5. CASE \E i \in Nodes : Adopt(i) \/ Pass(i)
  <2>1. PICK i \in Nodes : Adopt(i) \/ Pass(i)
    BY <1>5
  <2>2. CASE Adopt(i)
    <3>1. state[i] = "unaware" /\ UNCHANGED <<state, step, storyVars>>
      BY <2>2 DEF Adopt, CanAdopt, StateDuringRound
    <3>2. \A j \in Nodes \ {i} : adoptedAt'[j] = adoptedAt[j]
      BY <1>1, <2>2 DEF Adopt, IInv, TypeOK
    <3>3. QED
      BY <3>1, <3>2, QuietStep
  <2>3. CASE Pass(i)
    BY <2>3, QuietStep DEF Pass, nodeVars
  <2>4. QED
    BY <2>1, <2>2, <2>3
<1>6. CASE EndRound
  <2>1. shown \in Feeds /\ awake \in Wakes
    BY <1>1, <1>6 DEF IInv, EndRound
  <2>2. Casc!Round(shown, awake)
    BY <1>1, <1>6, RoundStep
  <2>3. QED
    BY <2>1, <2>2 DEF Casc!CascadeNext
<1>7. CASE UNCHANGED vars
  BY <1>7, QuietStep DEF vars, nodeVars
<1>8. QED
  BY <1>1, <1>2, <1>3, <1>4, <1>5, <1>6, <1>7 DEF Next

(* However the workers are scheduled, the contagion is the synchronous      *)
(* cascade: nobody decides on what was adopted in the same round.           *)
THEOREM Synchronous == Spec => ImplementsCascade
<1>1. Init => Casc!CascadeInit
  <2>1. SUFFICES ASSUME Init PROVE Casc!CascadeInit
    OBVIOUS
  <2>2. TypeOK
    BY <2>1, InitIInv DEF IInv
  <2>3. needNow \in [Nodes -> Nat] /\ \A i \in Nodes : needNow[i] >= MinReinforce
    BY <2>2, NeedNow
  <2>4. ageNow = [i \in Nodes |-> -1]
    BY <2>1 DEF Init, Blank, ageNow, Age
  <2>5. simple \in BOOLEAN
    BY <2>1 DEF Init
  <2>6. QED
    BY <2>3, <2>4, <2>5 DEF Casc!CascadeInit, ageNow, needNow
<1>2. Init => IInv
  BY InitIInv
<1>3. IInv /\ [Next]_vars => IInv'
  BY NextIInv
<1>4. IInv /\ IInv' /\ [Next]_vars => [Casc!CascadeNext]_<<ageNow, needNow, simple>>
  BY StepRefines
<1>5. QED
  BY <1>1, <1>2, <1>3, <1>4, PTL
  DEF Spec, ImplementsCascade, Casc!CascadeSpec, Casc!cascadeVars, ageNow, needNow

=============================================================================
