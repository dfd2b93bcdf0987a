---------------------------- MODULE MCExperiment ----------------------------
(* Four people; two propose the same tie, one of them twice, and one of     *)
(* them is proposed to by everybody.                                        *)
EXTENDS Experiment

CONSTANT app

MCProposals == 0 :> <<1, 1>> @@ 1 :> <<2, 0>> @@ 2 :> <<0>> @@ 3 :> <<0>>
MCMember    == [p \in {app} |-> {0, 3}]

(* The dull story lights no platform. *)
Story(who, hard, at, where) ==
  [seeds |-> who, carriers |-> {2}, difficulty |-> hard, hour |-> at, lit |-> where]
Moved == [story |-> Story({0}, 2, 1, {app}), reactions |-> {0, 1}]
Plain == [story |-> Story({0}, 0, NoHour, {app}), reactions |-> None]
Dull  == [story |-> Story({0}, 0, NoHour, {}), reactions |-> None]
MCDesigns ==
  {[replicates |-> 2, rounds |-> 2, arms |-> <<Moved, Plain>>],
   [replicates |-> 1, rounds |-> 1, arms |-> <<Dull, Moved, Plain>>]}

=============================================================================
