----------------------------- MODULE Contagion -----------------------------
(***************************************************************************)
(* The contagion of internal/sim/contagion.go, and what Inject, Reset and  *)
(* ApplyReactions do to it.                                                *)
(*                                                                         *)
(* AdvanceWith evaluates the population in parallel: every worker reads    *)
(* State and writes its own entries of next, AdoptedAt and FeedDriven, and *)
(* the buffers are swapped when all are done.  Here the nodes of a round   *)
(* are evaluated one by one in any order.  The caller holds the server's   *)
(* mutex for the whole round, so nothing else touches the contagion in it. *)
(*                                                                         *)
(* Thresholds and the story's scale are percentages.  The unaware people   *)
(* of some place adopt when a story breaks; the three ways to pick it      *)
(* (scattered, grown along the ties, a run of the spatial order) are left  *)
(* open.  So is the outcome of a draw: who is awake, and luck in a simple  *)
(* contagion.                                                              *)
(***************************************************************************)
EXTENDS Integers, FiniteSets, FiniteSetsExt

CONSTANTS
  Nodes, Ties, MinReinforce, TransmitFor, Feeds, Wakes,   \* as in Cascade
  BaseThreshold,   \* Contagion.baseThreshold, in percent
  Floor,           \* the least threshold reactions leave, in percent: 1
  Difficulties,    \* difficulties a story may have, in percent; 0 if not given
  Places,          \* where a story may be seeded
  Eager,           \* whom reactions may make eager to tell everyone
  MaxStep          \* bound: rounds before a reset

ASSUME ContagionAssumption ==
  /\ IsFiniteSet(Nodes) /\ Ties \in [Nodes -> SUBSET Nodes]
  /\ MinReinforce \in Nat \ {0} /\ TransmitFor \in Nat
  /\ Feeds \subseteq [Nodes -> Nat] /\ Wakes \subseteq SUBSET Nodes
  /\ Floor \in 1..100 /\ BaseThreshold \in [Nodes -> Floor..100]
  /\ Difficulties \subseteq Nat /\ Places \cup Eager \subseteq SUBSET Nodes
  /\ MaxStep \in Nat

VARIABLES
  state, next,     \* the two buffers
  adoptedAt,       \* round each node adopted, -1 if it never did
  feedDriven,      \* those whose adoption is credited to the feed
  step,
  threshold, scale,
  simple,          \* Contagion.Simple
  inRound, todo,   \* a round is on, and the nodes it has not evaluated
  shown, awake,    \* its arguments
  fresh            \* newly adopted in it

nodeVars  == <<state, next, adoptedAt, feedDriven>>
storyVars == <<threshold, scale, simple>>
roundVars == <<inRound, todo, shown, awake, fresh>>
vars == <<nodeVars, step, storyVars, roundVars>>

Blank   == [i \in Nodes |-> "unaware"]
Nothing == [i \in Nodes |-> 0]

Init ==
  /\ state = Blank /\ next = Blank
  /\ adoptedAt = [i \in Nodes |-> -1]
  /\ feedDriven = {}
  /\ step = 0
  /\ threshold = BaseThreshold /\ scale = 100
  /\ simple \in BOOLEAN
  /\ inRound = FALSE /\ todo = {} /\ fresh = 0
  /\ shown = Nothing /\ awake = Nodes

-----------------------------------------------------------------------------
(* Inject, ApplyReactions, Reset *)

Unaware(place) == {i \in place : state[i] = "unaware"}

Inject(place, difficulty) ==
  /\ ~inRound
  /\ scale' = IF difficulty > 0 THEN difficulty ELSE scale
  /\ state' = [i \in Nodes |-> IF i \in Unaware(place) THEN "adopted" ELSE state[i]]
  /\ adoptedAt' = [i \in Nodes |-> IF i \in Unaware(place) THEN step ELSE adoptedAt[i]]
  /\ UNCHANGED <<next, feedDriven, step, threshold, simple, roundVars>>

(* Mutant: eagerness may bring a threshold below the floor. *)
Unfloored(t) == (t * 45) \div 100

(* Archetypes that would tell everyone need less corroboration: at most 55% *)
(* off, never below the floor.                                              *)
Lowered(t) == Max({Floor, (t * 45) \div 100})

ApplyReactions(eager) ==
  /\ ~inRound
  /\ threshold' = [i \in Nodes |->
       IF i \in eager THEN Lowered(threshold[i]) ELSE threshold[i]]
  /\ UNCHANGED <<nodeVars, step, scale, simple, roundVars>>

(* Mutant: the last story's credit is left to the next. *)
CreditLeft == feedDriven

CreditCleared == {}

Reset ==
  /\ ~inRound
  /\ state' = Blank
  /\ adoptedAt' = [i \in Nodes |-> -1]
  /\ feedDriven' = CreditCleared
  /\ threshold' = BaseThreshold /\ scale' = 100
  /\ step' = 0
  /\ UNCHANGED <<next, simple, roundVars>>

-----------------------------------------------------------------------------
(* AdvanceWith *)

BeginRound(s, a) ==
  /\ ~inRound /\ step < MaxStep
  /\ inRound' = TRUE /\ todo' = Nodes /\ fresh' = 0
  /\ shown' = s /\ awake' = a
  /\ next' = state
  /\ UNCHANGED <<state, adoptedAt, feedDriven, step, storyVars>>

Peers(i) == Cardinality({j \in Ties[i] : state[j] = "adopted"})
Exposed(i) == Peers(i) + shown[i]

(* The fraction of the peer degree, rounded up, but never less than         *)
(* MinReinforce.                                                            *)
Need(i) ==
  Max({MinReinforce, (threshold[i] * scale * Cardinality(Ties[i]) + 9999) \div 10000})

(* Asleep, or not exposed, or short of what it takes: nobody isolated can   *)
(* adopt but by the feed.  In a simple contagion one exposure may do.       *)
CanAdopt(i) ==
  /\ state[i] = "unaware" /\ i \in awake
  /\ Exposed(i) > 0
  /\ simple \/ Exposed(i) >= Need(i)

CanPass(i) == simple \/ ~CanAdopt(i)

(* A complex contagion asks whether peer ties alone would have done.  A     *)
(* simple one credits peers as soon as there is one, also for a draw that   *)
(* succeeded only because the feed had made it likelier.                    *)
ByFeed(i) == IF simple THEN Peers(i) = 0 ELSE Peers(i) < Need(i)

(* Mutant: the adoption is visible to the rest of the round. *)
InPlace(i) == [state EXCEPT ![i] = "adopted"]

StateDuringRound(i) == state

Adopt(i) ==
  /\ inRound /\ i \in todo /\ CanAdopt(i)
  /\ todo' = todo \ {i}
  /\ next' = [next EXCEPT ![i] = "adopted"]
  /\ adoptedAt' = [adoptedAt EXCEPT ![i] = step + 1]
  /\ feedDriven' = IF ByFeed(i) THEN feedDriven \cup {i} ELSE feedDriven \ {i}
  /\ state' = StateDuringRound(i)
  /\ fresh' = fresh + 1
  /\ UNCHANGED <<step, storyVars, inRound, shown, awake>>

Pass(i) ==
  /\ inRound /\ i \in todo /\ CanPass(i)
  /\ todo' = todo \ {i}
  /\ UNCHANGED <<nodeVars, step, storyVars, inRound, shown, awake, fresh>>

(* Mutant: everyone spreads the story a round longer. *)
OneMore(at, now) == now - at > TransmitFor

TooOld(at, now) == now - at >= TransmitFor

(* Mutant: the population forgets what it tired of. *)
Forgotten(buffer, now) ==
  [i \in Nodes |->
     IF /\ TransmitFor > 0
        /\ buffer[i] = "adopted" /\ adoptedAt[i] >= 0 /\ TooOld(adoptedAt[i], now)
     THEN "unaware" ELSE buffer[i]]

(* Decay. *)
Decayed(buffer, now) ==
  [i \in Nodes |->
     IF /\ TransmitFor > 0
        /\ buffer[i] = "adopted" /\ adoptedAt[i] >= 0 /\ TooOld(adoptedAt[i], now)
     THEN "fatigued" ELSE buffer[i]]

(* The buffers are swapped.  The other one, like the round's arguments and *)
(* its count, is not read before the next round overwrites it: it is blank *)
(* here.                                                                   *)
EndRound ==
  /\ inRound /\ todo = {}
  /\ inRound' = FALSE
  /\ step' = step + 1
  /\ state' = Decayed(next, step')
  /\ next' = Blank
  /\ shown' = Nothing /\ awake' = Nodes /\ fresh' = 0
  /\ UNCHANGED <<adoptedAt, feedDriven, storyVars, todo>>

-----------------------------------------------------------------------------

Next ==
  \/ \E place \in Places, d \in Difficulties : Inject(place, d)
  \/ \E eager \in Eager : ApplyReactions(eager)
  \/ Reset
  \/ \E s \in Feeds, a \in Wakes : BeginRound(s, a)
  \/ \E i \in Nodes : Adopt(i) \/ Pass(i)
  \/ EndRound

Spec == Init /\ [][Next]_vars

-----------------------------------------------------------------------------

TypeOK ==
  /\ {state, next} \subseteq [Nodes -> {"unaware", "adopted", "fatigued"}]
  /\ adoptedAt \in [Nodes -> Int] /\ feedDriven \subseteq Nodes
  /\ step \in Nat /\ fresh \in Nat
  /\ threshold \in [Nodes -> Floor..100] /\ scale \in Nat
  /\ inRound \in BOOLEAN /\ todo \subseteq Nodes

(* The clocks fit the states across seeding, rounds and resets: whoever is  *)
(* spreading the story adopted less than TransmitFor rounds ago, whoever    *)
(* tired of it at least that long ago, and between rounds nobody unaware is *)
(* dated.                                                                   *)
ClocksFit ==
  \A i \in Nodes :
    /\ state[i] = "adopted" =>
         /\ adoptedAt[i] \in 0..step
         /\ TransmitFor > 0 => step - adoptedAt[i] < TransmitFor
    /\ state[i] = "fatigued" => adoptedAt[i] >= 0 /\ step - adoptedAt[i] >= TransmitFor
    /\ (state[i] = "unaware" /\ ~inRound) => adoptedAt[i] = -1

(* "A complex contagion that has stalled will never restart on its own":   *)
(* after a round over peer ties alone in which nobody adopted, nobody left  *)
(* unaware has enough neighbours spreading the story, whoever tired of it   *)
(* as the round ended.  Run stops at such a round.                          *)
Stalls == inRound /\ ~inRound' /\ fresh = 0 /\ ~simple /\ shown = Nothing /\ awake = Nodes
StalledIsFinal ==
  [][Stalls => \A i \in Unaware(Nodes)' : Peers(i)' < Need(i)']_vars

(* Attribution: what the feed is credited with is never more than it did,   *)
(* and is a matter of one story.  Whoever comes to be credited was unaware, *)
(* had confirmations on their feed and could not have adopted in that round *)
(* with the feeds dark; the credit lasts until a reset forgets the adoption *)
(* itself; and whoever a story is seeded with is not credited, whatever the *)
(* feeds did in the story before it.                                        *)
PeersMight(i) == Peers(i) > 0 /\ (simple \/ Peers(i) >= Need(i))
FeedCredit ==
  [][/\ \A i \in feedDriven' \ feedDriven :
          state[i] = "unaware" /\ shown[i] > 0 /\ ~PeersMight(i)
     /\ \A i \in feedDriven \ feedDriven' : adoptedAt'[i] = -1
     /\ ~inRound => \A i \in Unaware(Nodes) \ Unaware(Nodes)' : i \notin feedDriven']_vars

(* "Synchronous: a node that adopts this round must not transmit until the  *)
(* next one": whatever order the workers evaluate the nodes in, a round is  *)
(* the round of Cascade.tla, and so are the rounds an adopter counts in.    *)
Age(i) ==
  CASE state[i] = "unaware"  -> -1
    [] state[i] = "adopted"  -> IF TransmitFor = 0 THEN 0 ELSE step - adoptedAt[i]
    [] state[i] = "fatigued" -> TransmitFor

Casc == INSTANCE Cascade WITH
  age <- [i \in Nodes |-> Age(i)], need <- [i \in Nodes |-> Need(i)]
ImplementsCascade == Casc!CascadeSpec

=============================================================================
