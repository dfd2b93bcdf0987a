----------------------------- MODULE MCGateway -----------------------------
(***************************************************************************)
(* Gateway for TLC: four requests, two of each lane, over two slots of     *)
(* which batch traffic may hold one, so the house fills, both lanes queue  *)
(* and give up, and cached bodies evict each other.                        *)
(***************************************************************************)
EXTENDS Gateway, TLC

CONSTANTS i1, i2, b1, b2, plain, other, stream

MCLaneOf == i1 :> "interactive" @@ i2 :> "interactive" @@ b1 :> "batch" @@ b2 :> "batch"
MCBodyOf == i1 :> plain @@ i2 :> stream @@ b1 :> plain @@ b2 :> other

=============================================================================
