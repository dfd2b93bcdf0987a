----------------------------- MODULE Simulation -----------------------------
(***************************************************************************)
(* The simulation of internal/sim/sim.go, as operators on its state, a     *)
(* record s of what its operations change:                                 *)
(*   s.heard     people who are not Unaware, Adopted or Fatigued           *)
(*   s.tired     those Fatigued                                            *)
(*   s.scale     Contagion.ThresholdScale                                  *)
(*   s.lowered   people whose threshold is not the one they were made with *)
(*   s.stirred   people whose opinion is not at the rest NewOpinion and    *)
(*               settle bring it to: pinned by Broadcast, or moved         *)
(*   s.hour      HourUTC                                                   *)
(*   s.stepped   Contagion.Step, which seeds the draws, is not 0           *)
(*   s.media     the layer of module Media                                 *)
(*                                                                         *)
(* Opinions are numbers in the code and only at rest or not here.  Module  *)
(* Contagion has a round person by person; here it is what may come of it. *)
(* The chat, which moves nothing else, is module Chat.                     *)
(***************************************************************************)
EXTENDS Media

CONSTANTS
  MaxPosts,       \* bound: posts a feed shows one person in a tick
  DayNight,       \* the diurnal rhythm is on
  HoursPerDay,    \* 24, and the step of the clock is one of them
  StartHour,      \* DayNight.StartHourUTC
  Fatigue         \* adopters tire (TransmitFor > 0)

ASSUME SimulationAssumption ==
  /\ MaxPosts \in Nat /\ HoursPerDay \in Nat \ {0}
  /\ StartHour \in 0..(HoursPerDay - 1)
  /\ {DayNight, Fatigue} \subseteq BOOLEAN

NoHour == HoursPerDay

(* A story: who is handed it, which broadcasters carry it, how hard it is   *)
(* to act on (0: not said), the hour it breaks (NoHour: now) and the        *)
(* platforms it is salient enough to light.                                 *)
Events ==
  [seeds : SUBSET People, carriers : SUBSET People, difficulty : Nat,
   hour : 0..HoursPerDay, lit : SUBSET Platforms]

Sims ==
  [heard : SUBSET People, tired : SUBSET People, scale : Nat,
   lowered : SUBSET People, stirred : SUBSET People, hour : Nat,
   stepped : BOOLEAN, media : MediaStates]

Rest ==
  [heard |-> {}, tired |-> {}, scale |-> 1, lowered |-> {}, stirred |-> {},
   hour |-> StartHour, stepped |-> FALSE, media |-> NewMedia]

-----------------------------------------------------------------------------

(* The carriers are pinned to what they say. *)
Broadcast(stirred, carriers) == stirred \cup carriers

(* The seeds adopt, the tired among them not again.                         *)
Inject(s, ev) ==
  [s EXCEPT
     !.hour    = IF DayNight /\ ev.hour # NoHour THEN ev.hour ELSE @,
     !.stirred = Broadcast(@, ev.carriers),
     !.scale   = IF ev.difficulty > 0 THEN ev.difficulty ELSE @,
     !.heard   = @ \cup ev.seeds,
     !.media   = Ignite(@, ev.lit)]

(* The model's answers for the archetypes of the given people. *)
ApplyReactions(s, people) ==
  [s EXCEPT !.lowered = @ \cup people, !.stirred = @ \cup people]

(* Who can adopt in a round: the unaware with a tie to a spreader, or who   *)
(* were shown a confirmation.  Asleep, stubborn or unlucky, they need not.  *)
CanHear(s, ties, shown) ==
  {i \in People \ s.heard :
     shown[i] > 0 \/ ties[i] \cap (s.heard \ s.tired) # {}}

(* StepWith: no opinion leaves its rest on its own; one that is off, or a   *)
(* feed, may move everyone's.                                               *)
Opinions(s, media) == IF s.stirred = {} /\ ~Live(media) THEN {} ELSE People

WrapHour(h) == h % HoursPerDay

(* A tick: feeds first, then the round on what they showed, then opinions   *)
(* and the clock.                                                           *)
Ticked(s, media, new, late) ==
  [s EXCEPT
     !.media   = media,
     !.heard   = @ \cup new,
     !.tired   = @ \cup late,
     !.stirred = Opinions(s, media),
     !.stepped = TRUE,
     !.hour    = IF DayNight THEN WrapHour(@ + 1) ELSE @]

Ticks(s, ties) ==
  UNION {UNION {{Ticked(s, o.media, new, late) :
                   late \in SUBSET (IF Fatigue THEN s.heard ELSE {})} :
                new \in SUBSET CanHear(s, ties, o.shown)} :
         o \in Advances(s.media, s.heard \ s.tired, People \ s.heard, MaxPosts)}

(* Mutant: thresholds stay where reactions moved them. *)
MovedThresholds(s) == s.lowered

OwnThresholds(s) == {}

(* Back before the story, on the same graph and with the layer as it was    *)
(* switched.                                                                *)
Reset(s) ==
  [heard |-> {}, tired |-> {}, scale |-> 1, lowered |-> OwnThresholds(s),
   stirred |-> {}, hour |-> StartHour, stepped |-> FALSE,
   media |-> ResetMedia(s.media)]

=============================================================================
