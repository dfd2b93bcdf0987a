---------------------------- MODULE MCContagion ----------------------------
(* A triangle, somebody tied to one of its corners, and somebody with no    *)
(* ties at all, whom only a feed can reach.                                 *)
EXTENDS Contagion, TLC

CONSTANTS a, b, c, d, e

MCNodes == {a, b, c, d, e}
MCTies ==
  (a :> {b, c}) @@ (b :> {a, c}) @@ (c :> {a, b, d}) @@ (d :> {c}) @@ (e :> {})

(* Dark, or enough for the one without ties and half enough for two others. *)
MCFeeds == {Nothing, (a :> 0) @@ (b :> 1) @@ (c :> 0) @@ (d :> 1) @@ (e :> 2)}
MCWakes == {MCNodes, {d}}

(* The corner with three ties wants them all until reactions or an easier   *)
(* story convince it with two.                                              *)
MCBaseThreshold == [i \in MCNodes |-> IF i = c THEN 70 ELSE 40]

(* A story breaks at one side of the triangle. *)
MCPlaces == {{a, b}}
MCEager == {{c, d}}
=============================================================================
