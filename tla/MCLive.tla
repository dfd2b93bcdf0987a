------------------------------- MODULE MCLive -------------------------------
(* Two people without a tie on one platform: one may be handed the story,   *)
(* and the other sees it on the feed and is not convinced by one post.      *)
EXTENDS Server

CONSTANTS p1, p2, app, zero

MCMember == [p \in {app} |-> {p1, p2}]
MCTies   == [i \in {p1, p2} |-> {}]
MCWords  == {zero} \cup ({TRUE, FALSE} \X {TRUE, FALSE})
MCRest   == [i \in {p1, p2} |-> <<FALSE, FALSE>>]

(* The second story is too dull for the platform. *)
MCNews ==
  {[seeds |-> {p1}, carriers |-> {}, difficulty |-> 0, hour |-> 1, lit |-> {app}],
   [seeds |-> {p1}, carriers |-> {}, difficulty |-> 0, hour |-> 1, lit |-> {}]}

Leave == [running |-> Absent, step |-> 0, media |-> Absent, reset |-> FALSE]
MCControls ==
  {[Leave EXCEPT !.running = TRUE], [Leave EXCEPT !.running = FALSE],
   [Leave EXCEPT !.step = 1], [Leave EXCEPT !.reset = TRUE],
   [Leave EXCEPT !.media = TRUE], [Leave EXCEPT !.media = FALSE]}

=============================================================================
