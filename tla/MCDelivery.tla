----------------------------- MODULE MCDelivery -----------------------------
(* Values for TLC: see README.md for why they are enough. *)
EXTENDS Delivery, TLC

MCQuietHours == {<<3, 1>>, <<0, 2>>}
MCDefaultHours == <<3, 1>>
MCAwake == <<0, 0>>
MCAlwaysAwake == {<<0, 0>>}
MCSymmetry == Permutations(Workers)
=============================================================================
