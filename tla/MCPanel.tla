------------------------------ MODULE MCPanel -------------------------------
(***************************************************************************)
(* Five components that moderators work with, in the bot or the panel, and    *)
(* the posts of a lot, which share no state, checked in one run: which of     *)
(* them moves is chosen at the start, the others stay where they are.  The    *)
(* posts have two parts: "posts" has one /publish command, "cards" a change   *)
(* less.  Values: see README.md.                                            *)
(***************************************************************************)
EXTENDS RuntimeSettings, SellerGate, Checklists, Verification, QueuePresets, LotPosts, TLC

CONSTANTS
  u1, u2, u3,  \* the seller of the lot and two bidders
  Parts        \* which components may move

VARIABLE part

others == <<settings_vars, gate_vars, checklist_vars, verification_vars, presets_vars>>
panel == <<part, others, vars>>

Swapped == [visible |-> <<"status">>, order |-> <<"status", "id">>, pinned |-> <<"status">>]
Bare == [visible |-> <<>>, order |-> <<"id", "status">>, pinned |-> <<>>]
RiskFirst == [visible |-> <<"risk", "status">>, order |-> <<"risk", "status">>, pinned |-> <<>>]
MCLayouts == {Swapped, Bare, RiskFirst}
MCReleases == <<<<"id", "status">>, <<"status", "risk">>>>
MCOffers == {[user |-> u2, amount |-> 1], [user |-> u3, amount |-> 2]}

ASSUME
  /\ PresetsAssumption /\ VerificationAssumption /\ SettingsAssumption
  /\ GateAssumption /\ ChecklistAssumption

PanelInit ==
  /\ part \in Parts
  /\ Init
  /\ PresetsInit /\ VerificationInit /\ ChecklistInit
  /\ SettingsInit /\ (part # "settings" => row = Default)
  /\ GateInit /\ (part # "gate" => ~requires /\ max_age = 0)

PanelNext ==
  /\ UNCHANGED part
  /\ \/ /\ part \in {"posts", "cards"} /\ Next /\ UNCHANGED others
        /\ part = "posts" => \E c \in ChatCards : stage'[c] = "new"   \* one /publish command
        /\ part = "cards" => changes' < MaxChanges
     \/ /\ part = "presets" /\ PresetsNext
        /\ UNCHANGED <<verification_vars, settings_vars, gate_vars, checklist_vars, vars>>
     \/ /\ part = "verification" /\ VerificationNext
        /\ UNCHANGED <<presets_vars, settings_vars, gate_vars, checklist_vars, vars>>
     \/ /\ part = "settings" /\ SettingsNext
        /\ UNCHANGED <<presets_vars, verification_vars, gate_vars, checklist_vars, vars>>
     \/ /\ part = "gate" /\ GateNext
        /\ UNCHANGED <<presets_vars, verification_vars, settings_vars, checklist_vars, vars>>
     \/ /\ part = "checklist" /\ ChecklistNext
        /\ UNCHANGED <<presets_vars, verification_vars, settings_vars, gate_vars, vars>>

PanelSpec == PanelInit /\ [][PanelNext]_panel

MCSymmetry == Permutations(ChatCards)
=============================================================================
