-------------------------- MODULE MCAuctionNotices --------------------------
(* One lot and everybody who can close it, for TLC. *)
EXTENDS AuctionNotices, TLC

CONSTANTS s, a, b, h1, h2, p1

MCBidders == Permutations({a, b}) \cup Permutations({h1, h2})
=============================================================================
