------------------------------- MODULE Media -------------------------------
(***************************************************************************)
(* The media layer of internal/sim/media.go, as operators on its state, a  *)
(* record m:                                                               *)
(*   m.enabled   the layer is on                                           *)
(*   m.hot       platforms whose Score is above 1e-4                       *)
(*   m.exposed   those the feed reached                                    *)
(*   m.stepped   Step, which seeds the draws, is not 0                     *)
(*                                                                         *)
(* Scores are numbers in the code; here a platform either has a score that *)
(* counts or has not, and how far engagement raises it and decay lowers it *)
(* is left open.  Presence is score times rank and lives for one tick (who *)
(* reads it later only reports it), so it is a choice made in Advances;    *)
(* peaks and the mean opinion of a feed move nothing modelled here.        *)
(***************************************************************************)
EXTENDS Naturals, FiniteSets, FiniteSetsExt

CONSTANTS
  People,
  Platforms,
  Member          \* Member[p]: who is on platform p, as NewMedia drew it

ASSUME MediaAssumption ==
  /\ IsFiniteSet(People) /\ IsFiniteSet(Platforms)
  /\ Member \in [Platforms -> SUBSET People]

MediaStates ==
  [enabled : BOOLEAN, hot : SUBSET Platforms, exposed : SUBSET People,
   stepped : BOOLEAN]

NewMedia == [enabled |-> TRUE, hot |-> {}, exposed |-> {}, stepped |-> FALSE]

Quiet(m) == m.hot = {}
Live(m)  == m.enabled /\ ~Quiet(m)

(* Off leaves no trace on a feed; on brings nothing back. *)
SetEnabled(m, on) ==
  IF on THEN [m EXCEPT !.enabled = TRUE]
        ELSE [m EXCEPT !.enabled = FALSE, !.hot = {}, !.exposed = {}]

(* A story breaks: every platform's score is set in proportion to salience, *)
(* and counts on those it lights: all but those for which it is too dull.   *)
(* Who was reached by the last story stays marked until the next tick.      *)
Ignite(m, lit) ==
  IF m.enabled THEN [m EXCEPT !.hot = lit, !.stepped = FALSE] ELSE m

(* Whether the layer is on is not part of a story. *)
ResetMedia(m) == [m EXCEPT !.hot = {}, !.exposed = {}, !.stepped = FALSE]

(* The independent confirmations in n posts: 0.9 times the square root of   *)
(* n, cut off, and at most four.                                            *)
EffectiveConfirmations(n) ==
  Max({k \in 0..4 : 100 * k * k <= 81 * n})

(* Mutant: the feeds are evaluated whether or not a story is on them. *)
AlwaysLit(m, outcomes) ==
  IF m.enabled THEN outcomes ELSE {[media |-> m, shown |-> [i \in People |-> 0]]}

(* What a live tick leaves: the scores that count, and the posts each       *)
(* person it reached saw.  They are marked, though one post convinces       *)
(* nobody.                                                                  *)
Outcome(m, hot, posts) ==
  [media |-> [m EXCEPT !.hot = hot, !.exposed = DOMAIN posts, !.stepped = TRUE],
   shown |-> [i \in People |->
                IF i \in DOMAIN posts THEN EffectiveConfirmations(posts[i]) ELSE 0]]

(* A tick of the layer, given who spreads the story and who has not heard   *)
(* it: the possible outcomes, each a state of the layer and the number of   *)
(* confirmations everyone was shown, of up to most posts.  Nothing happens  *)
(* if the layer is off or quiet.  Otherwise only a platform on which        *)
(* someone spreads can gain score or show anything, and it may fail to; one *)
(* on which nobody does can only lose it.                                   *)
Dark(m, outcomes) ==
  IF Live(m) THEN outcomes ELSE {[media |-> m, shown |-> [i \in People |-> 0]]}

Advances(m, spreading, unaware, most) ==
  LET engaged == {p \in Platforms : Member[p] \cap spreading # {}}
      reach   == (UNION {Member[p] : p \in engaged}) \cap unaware
  IN  Dark(m, {Outcome(m, hot, posts) :
                 hot   \in SUBSET (m.hot \cup engaged),
                 posts \in UNION {[r -> 1..most] : r \in SUBSET reach}})

=============================================================================
