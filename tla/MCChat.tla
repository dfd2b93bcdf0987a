------------------------------- MODULE MCChat -------------------------------
(***************************************************************************)
(* Chat for TLC: cohorts of two, a stall limit of two ticks and a history  *)
(* of two messages, so that exchanges stall and scroll away.  With OneDraw *)
(* two handlers and the goroutines they start meet; TwoDraws has one       *)
(* friend in both draws.                                                   *)
(***************************************************************************)
EXTENDS Chat, TLC

CONSTANTS ann, ben, cho

OneDraw == {<<ann, ben>>}
TwoDraws == {<<ann, ben>>, <<ben, cho>>}

=============================================================================
