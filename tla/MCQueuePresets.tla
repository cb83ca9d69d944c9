--------------------------- MODULE MCQueuePresets ---------------------------
(* Values for TLC: see README.md for why they are enough. *)
EXTENDS QueuePresets

Swapped == [visible |-> <<"status">>, order |-> <<"status", "id">>, pinned |-> <<"status">>]
Bare == [visible |-> <<>>, order |-> <<"id", "status">>, pinned |-> <<>>]
Later == [visible |-> <<"risk", "status">>, order |-> <<"risk", "status">>, pinned |-> <<>>]
MCLayouts == {Swapped, Bare, Later}
OneLayout == {Swapped}
MCReleases == <<<<"id", "status">>, <<"status", "risk">>>>
OneRelease == <<<<"id", "status">>>>
MCSymmetry == Permutations(PageRequests)
=============================================================================
