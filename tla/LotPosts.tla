------------------------------ MODULE LotPosts ------------------------------
(***************************************************************************)
(* The cards of a lot in the chats: how /publish and the inline query put   *)
(* them there, and how they are kept up to date.                            *)
(* (src/app/bot/handlers/publish_auction.py and inline_auction.py; the      *)
(* activate_... and refresh_... functions of                                *)
(* src/app/services/auction_service.py.)                                    *)
(*                                                                         *)
(* The lot itself is the English auction module Auction is proved to        *)
(* implement: here only matters that it changes, and that whoever commits a *)
(* change loads the lot again afterwards and edits the cards one by one.    *)
(***************************************************************************)
EXTENDS Naturals, FiniteSets

CONSTANTS
  Users, Seller, StartPrice, BuyoutPrice, NoUser, NoPrice,  \* of the lot
  Offers,       \* the offers that are made
  ChatCards,    \* one for each /publish command
  InlineCards,  \* one for each choice of the inline result
  Workers,      \* handlers that change the lot
  NoCard, NoRefresh, Asked,
  MaxChanges,   \* bounds of the model: how often the lot changes,
  MaxFailures   \* and how often something fails

VARIABLES
  phase, book, award,  \* the lot as committed
  changes,  \* how often it has changed
  posts,    \* rows of auction_posts
  stage,    \* how far the publication of each card has got
  shown,    \* what each card shows
  refresh,  \* what each handler has loaded, and the cards it has yet to edit
  failures, \* failures so far
  lost      \* a version of the lot later than the one a card shows that the card did
            \* not get, or got and lost; 0 if there is none

Lot == INSTANCE EnglishAuction

Cards == ChatCards \cup InlineCards
Handlers == Cards \cup Workers

View == [phase : {"unlisted", "open", "held", "closed"}, award : Users \cup {NoUser},
         book : SUBSET Offers, at : Nat]
Draft == [phase |-> "unlisted", award |-> NoUser, book |-> {}, at |-> 0]

\* What a handler has loaded, and the cards it has yet to edit.
Load == [phase : {"unlisted", "open", "held", "closed"}, award : Users \cup {NoUser},
         at : Nat, loaded : BOOLEAN, book : SUBSET Offers, left : SUBSET Cards]

ASSUME PostsAssumption ==
  /\ ChatCards \cap InlineCards = {} /\ Workers \cap Cards = {}
  /\ Offers \subseteq Lot!Offer /\ MaxChanges \in Nat /\ MaxFailures \in Nat
  /\ NoCard \notin View /\ NoRefresh # Asked /\ NoRefresh \notin Load /\ Asked \notin Load

lot == <<phase, book, award, changes>>
vars == <<lot, posts, stage, shown, refresh, failures, lost>>

Init ==
  /\ Lot!Init /\ changes = 0
  /\ posts = {}
  /\ stage = [c \in Cards |-> "new"]
  /\ shown = [c \in Cards |-> NoCard]
  /\ refresh = [h \in Handlers |-> NoRefresh]
  /\ failures = 0
  /\ lost = [c \in Cards |-> 0]

Fails == failures < MaxFailures /\ failures' = failures + 1

Later(m, n) == IF m >= n THEN m ELSE n

\* The cards of cs do not get what handler h had for them.
Loses(h, cs) ==
  lost' = [c \in Cards |->
             IF c \notin cs \/ shown[c] = NoCard THEN lost[c]
             ELSE LET latest == Later(lost[c], IF refresh[h] = Asked THEN changes ELSE refresh[h].at)
                  IN IF latest > shown[c].at THEN latest ELSE 0]
-----------------------------------------------------------------------------
(* Publication.                                                            *)

\* The check for a draft and the publish gate, in a transaction of their own.
publish_is_checked(c) ==
  /\ stage[c] = "new"
  /\ stage' = [stage EXCEPT ![c] = IF phase = "unlisted" THEN "checked" ELSE "done"]
  /\ UNCHANGED <<lot, posts, shown, refresh, failures, lost>>

publish_gate_refuses(c) ==
  /\ stage[c] = "new" /\ phase = "unlisted"
  /\ stage' = [stage EXCEPT ![c] = "done"]
  /\ UNCHANGED <<lot, posts, shown, refresh, failures, lost>>

\* The card appears as it was rendered for a draft, buttons and all.
send_card(c) ==
  /\ stage[c] = "checked"
  /\ stage' = [stage EXCEPT ![c] = "sent"]
  /\ shown' = [shown EXCEPT ![c] = Draft]
  /\ UNCHANGED <<lot, posts, refresh, failures, lost>>

\* No rights in the chat; an inline result nobody picks.
card_is_not_sent(c) ==
  /\ stage[c] = "checked"
  /\ stage' = [stage EXCEPT ![c] = "done"]
  /\ UNCHANGED <<lot, posts, shown, refresh, failures, lost>>

list_lot == IF phase = "unlisted" THEN Lot!List /\ changes' = changes + 1 ELSE UNCHANGED lot

\* Bug: a lot that is published already is published again.
Bug_activate_auction_chat_post(c) ==
  /\ c \in ChatCards /\ stage[c] = "sent"
  /\ list_lot
  /\ posts' = posts \cup {c}
  /\ stage' = [stage EXCEPT ![c] = "done"]
  /\ refresh' = [refresh EXCEPT ![c] = Asked]
  /\ UNCHANGED <<shown, failures, lost>>

\* Under the lot's lock; of two commands that both saw a draft one is late.
activate_auction_chat_post(c) ==
  /\ c \in ChatCards /\ stage[c] = "sent"
  /\ list_lot
  /\ IF phase = "unlisted"
       THEN /\ posts' = posts \cup {c}
            /\ stage' = [stage EXCEPT ![c] = "done"]
            /\ refresh' = [refresh EXCEPT ![c] = Asked]
       ELSE /\ stage' = [stage EXCEPT ![c] = "refused"]
            /\ UNCHANGED <<posts, refresh>>
  /\ UNCHANGED <<shown, failures, lost>>

\* The transaction raises, and may have been committed all the same.
activation_raises(c) ==
  /\ Fails
  /\ c \in ChatCards /\ stage[c] = "sent"
  /\ \/ UNCHANGED <<lot, posts>>
     \/ phase = "unlisted" /\ list_lot /\ posts' = posts \cup {c}
  /\ stage' = [stage EXCEPT ![c] = "refused"]
  /\ UNCHANGED <<shown, refresh, lost>>

\* The publisher takes the card back.
_safe_delete_messages(c) ==
  /\ stage[c] = "refused"
  /\ stage' = [stage EXCEPT ![c] = "done"]
  /\ shown' = [shown EXCEPT ![c] = NoCard]
  /\ UNCHANGED <<lot, posts, refresh, failures, lost>>

\* A lot may have any number of inline cards, whatever has become of it.
activate_auction_inline_post(c) ==
  /\ c \in InlineCards /\ stage[c] = "sent"
  /\ list_lot
  /\ posts' = posts \cup {c}
  /\ stage' = [stage EXCEPT ![c] = "done"]
  /\ refresh' = [refresh EXCEPT ![c] = Asked]
  /\ UNCHANGED <<shown, failures, lost>>

\* The bot dies, a deletion is refused, the gate refuses a chosen inline card
\* or its update never arrives: the card stays behind.
card_is_abandoned(c) ==
  /\ Fails
  /\ stage[c] \in {"sent", "refused"}
  /\ stage' = [stage EXCEPT ![c] = "abandoned"]
  /\ UNCHANGED <<lot, posts, shown, refresh, lost>>

Publish(c) ==
  \/ publish_is_checked(c) \/ publish_gate_refuses(c)
  \/ send_card(c) \/ card_is_not_sent(c)
  \/ activate_auction_chat_post(c) \/ activation_raises(c) \/ _safe_delete_messages(c)
  \/ activate_auction_inline_post(c)
  \/ card_is_abandoned(c)
-----------------------------------------------------------------------------
(* Changes and refreshes.                                                  *)

lot_changes ==
  \/ Lot!Hold \/ Lot!Release \/ Lot!Close
  \/ \E o \in Offers : Lot!Raise(o) \/ Lot!Buyout(o)
  \/ \E o \in book : Lot!Withdraw(o)

\* Bug: nobody refreshes the posts of a lot a moderator holds.
Bug_handler_changes_lot(w) ==
  /\ refresh[w] = NoRefresh /\ changes < MaxChanges
  /\ lot_changes
  /\ changes' = changes + 1
  /\ refresh' = IF phase' = "held" THEN refresh ELSE [refresh EXCEPT ![w] = Asked]
  /\ UNCHANGED <<posts, stage, shown, failures, lost>>

\* Bids, moderators and the watcher: whoever changes the lot refreshes it.
handler_changes_lot(w) ==
  /\ refresh[w] = NoRefresh /\ changes < MaxChanges
  /\ lot_changes
  /\ changes' = changes + 1
  /\ refresh' = [refresh EXCEPT ![w] = Asked]
  /\ UNCHANGED <<posts, stage, shown, failures, lost>>

\* The seller's button, and a complaint: a refresh without a change.
callback_my_auction_refresh_posts(w) ==
  /\ refresh[w] = NoRefresh /\ phase \in {"open", "held"}
  /\ refresh' = [refresh EXCEPT ![w] = Asked]
  /\ UNCHANGED <<lot, posts, stage, shown, failures, lost>>

\* The row of the lot is read first, its bids and posts by later statements.
load_auction_view(h) ==
  /\ refresh[h] = Asked
  /\ refresh' = [refresh EXCEPT ![h] =
       [phase |-> phase, award |-> award, at |-> changes, loaded |-> FALSE, book |-> {}, left |-> posts]]
  /\ UNCHANGED <<lot, posts, stage, shown, failures, lost>>

Loading(h) == refresh[h] \notin {NoRefresh, Asked} /\ ~refresh[h].loaded
Editing(h, c) == refresh[h] \notin {NoRefresh, Asked} /\ refresh[h].loaded /\ c \in refresh[h].left

load_bids_and_posts(h) ==
  /\ Loading(h)
  /\ refresh' = [refresh EXCEPT ![h] =
       IF posts = {} THEN NoRefresh ELSE [@ EXCEPT !.loaded = TRUE, !.book = book, !.left = posts]]
  /\ UNCHANGED <<lot, posts, stage, shown, failures, lost>>

Crossed_off(h, c) ==
  LET left == refresh[h].left \ {c}
  IN  refresh' = [refresh EXCEPT ![h] = IF left = {} THEN NoRefresh ELSE [@ EXCEPT !.left = left]]

Rendered(v) == [phase |-> v.phase, award |-> v.award, book |-> v.book, at |-> v.at]

\* Whatever the card shows by now.  A card that is gone stays gone.
_refresh_auction_post_message(h, c) ==
  /\ Editing(h, c)
  /\ Crossed_off(h, c)
  /\ IF shown[c] = NoCard THEN UNCHANGED <<shown, lost>>
     ELSE /\ shown' = [shown EXCEPT ![c] = Rendered(refresh[h])]
          /\ lost' = [lost EXCEPT ![c] =
                        LET latest == Later(@, shown[c].at)
                        IN IF latest > refresh[h].at THEN latest ELSE 0]
  /\ UNCHANGED <<lot, posts, stage, failures>>

\* Rate limits, lost connections, missing rights: logged, and not tried again.
edit_fails(h, c) ==
  /\ Fails
  /\ Editing(h, c)
  /\ Crossed_off(h, c)
  /\ Loses(h, {c})
  /\ UNCHANGED <<lot, posts, stage, shown>>

\* An exception between the commit and the refresh, or a restart.
handler_dies(h) ==
  /\ Fails
  /\ refresh[h] # NoRefresh
  /\ Loses(h, IF refresh[h] = Asked THEN posts ELSE refresh[h].left)
  /\ refresh' = [refresh EXCEPT ![h] = NoRefresh]
  /\ UNCHANGED <<lot, posts, stage, shown>>

Refresh(h) ==
  \/ load_auction_view(h) \/ load_bids_and_posts(h)
  \/ \E c \in Cards : _refresh_auction_post_message(h, c) \/ edit_fails(h, c)
  \/ handler_dies(h)

Next ==
  \/ \E c \in Cards : Publish(c)
  \/ \E w \in Workers : handler_changes_lot(w) \/ callback_my_auction_refresh_posts(w)
  \/ \E h \in Handlers : Refresh(h)

Spec == Init /\ [][Next]_vars
-----------------------------------------------------------------------------
(* Properties.                                                             *)

\* A handler has yet to edit posts only, and shows what the lot has been.
PostsTypeOK ==
  /\ phase \in {"unlisted", "open", "held", "closed"} /\ changes \in 0..(MaxChanges + 1)
  /\ book \subseteq Offers /\ award \in Users \cup {NoUser}
  /\ posts \subseteq Cards
  /\ stage \in [Cards -> {"new", "checked", "sent", "refused", "done", "abandoned"}]
  /\ shown \in [Cards -> View \cup {NoCard}]
  /\ \A h \in Handlers :
       refresh[h] \notin {NoRefresh, Asked} =>
         Rendered(refresh[h]) \in View /\ refresh[h].left \subseteq posts
  /\ failures \in 0..MaxFailures /\ lost \in [Cards -> Nat]

\* A lot is published with its first card and by one command only, and every
\* other card is still on its publisher's hands, taken back, or left behind
\* by a failure.
CardsAreAccountedFor ==
  /\ PostsTypeOK
  /\ phase # "unlisted" <=> posts # {}
  /\ Cardinality(posts \cap ChatCards) <= 1
  /\ \A c \in Cards \ posts :
       shown[c] # NoCard => stage[c] \in {"sent", "refused", "abandoned"}

\* README.md:78 promises a refresh after each accepted action.  Once no
\* handler is at it, a post shows the lot as it is, unless an edit with a
\* later state was lost on the way or overwritten by a slower handler, or its
\* own publisher failed after the commit: no
\* post is missed because it was registered, or the lot changed, between the
\* statements that load a refresh.
PostsFollowTheLot ==
  (\A h \in Handlers : refresh[h] = NoRefresh) =>
    \A c \in posts :
      \/ shown[c] = NoCard
      \/ stage[c] \in {"refused", "abandoned"} /\ shown[c] = Draft
      \/ lost[c] > shown[c].at
      \/ shown[c] = [phase |-> phase, award |-> award, book |-> book, at |-> shown[c].at]
=============================================================================
