----------------------------- MODULE MCAuction ------------------------------
(* Small lots for TLC: one seller, bidders as model values, minutes as ticks. *)
EXTENDS Auction, TLC

CONSTANTS s, a, b, h1, h2, p1

MCBidders == Permutations({a, b}) \cup Permutations({h1, h2})
MCOneWorker == Permutations({a, b})
=============================================================================
