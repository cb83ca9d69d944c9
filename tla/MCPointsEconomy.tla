-------------------------- MODULE MCPointsEconomy ---------------------------
(* Values for TLC: see README.md for why they are enough. *)
EXTENDS PointsEconomy, TLC

CONSTANTS u1

MCAdjustments == {-3, 6}
MCOwner == [t \in Tickets |-> u1]
MCEnabled == [k \in Kinds |-> TRUE]
MCCost == [k \in Kinds |-> IF k = "guarantor" THEN 3 ELSE 1]
MCKindDaily == [k \in Kinds |-> IF k = "appeal" THEN 1 ELSE 2]
MCKindCooldown == [k \in Kinds |-> IF k = "guarantor" THEN 2 ELSE 0]

MCSymmetry == Permutations(Items) \cup Permutations(Requests) \cup Permutations(Handlers)
=============================================================================
