----------------------------- MODULE MCUserSide -----------------------------
(***************************************************************************)
(* Four components that users of the bot meet and that share no state,       *)
(* checked in one run: which of them moves is chosen at the start, the        *)
(* others stay where they are.  Values: see README.md.                       *)
(***************************************************************************)
EXTENDS ChannelDesk, LotWizard, Delivery, PrivateTopics, TLC

CONSTANTS
  x1, x2,   \* two notices, two transactions of a user, or two moderators
  Parts     \* which components may move

VARIABLE part

side == <<part, wizard_vars, delivery_vars, topics_vars, desk_vars>>

Private == [type |-> "private", is_dm |-> FALSE, enabled |-> TRUE]
DirectMessages == [type |-> "supergroup", is_dm |-> TRUE, enabled |-> TRUE]
OtherGroup == [type |-> "supergroup", is_dm |-> FALSE, enabled |-> TRUE]
MCChats == {Private, DirectMessages, OtherGroup}
MCQuietHours == {<<3, 1>>, <<0, 2>>}
MCDefaultHours == <<3, 1>>

ASSUME WizardAssumption /\ DeliveryAssumption /\ TopicsAssumption /\ DeskAssumption

SideInit ==
  /\ part \in Parts
  /\ WizardInit /\ (part # "wizard" => chat = Private)
  /\ DeliveryInit
  /\ TopicsInit /\ (part # "sections" => topics = <<>>)
  /\ DeskInit /\ (part # "desk" => review = [p \in Posts |-> None])

SideNext ==
  /\ UNCHANGED part
  /\ \/ part = "wizard" /\ WizardNext /\ UNCHANGED <<delivery_vars, topics_vars, desk_vars>>
     \/ part = "delivery" /\ DeliveryNext /\ UNCHANGED <<wizard_vars, topics_vars, desk_vars>>
     \/ part = "sections" /\ TopicsNext /\ UNCHANGED <<wizard_vars, delivery_vars, desk_vars>>
     \/ part = "desk" /\ DeskNext /\ UNCHANGED <<wizard_vars, delivery_vars, topics_vars>>

SideSpec == SideInit /\ [][SideNext]_side

MCSymmetry == Permutations({x1, x2})
=============================================================================
