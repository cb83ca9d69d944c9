-------------------------- MODULE MCModerationQueue -------------------------
(* One lot, two bidders and a short queue for TLC. *)
EXTENDS ModerationQueue, TLC

CONSTANTS s, a, b, h1, p1

MCBidders == Permutations({a, b})
=============================================================================
