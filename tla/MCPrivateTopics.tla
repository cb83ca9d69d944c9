--------------------------- MODULE MCPrivateTopics ---------------------------
(* Values for TLC: see README.md for why they are enough. *)
EXTENDS PrivateTopics, TLC

MCSymmetry == Permutations(Handlers)
=============================================================================
