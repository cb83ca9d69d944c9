--------------------------- MODULE AuctionNotices ---------------------------
(***************************************************************************)
(* Who is told that the lot closed.  The notices are put together from the  *)
(* result of the closing transaction and sent after its commit by the       *)
(* process that made it: they exist only in that process' memory.           *)
(* (src/app/bot/handlers/bid_actions.py, moderation.py and                  *)
(* src/app/services/auction_service.py, finalize_expired_auctions.)         *)
(* Definitions Bug_... are for mutation runs only, as in module Auction.    *)
(***************************************************************************)
EXTENDS Auction

CONSTANTS Watcher, Moderator   \* the senders that are not bid calls

Senders == Handlers \cup {Watcher, Moderator}

ASSUME SendersAssumption == Watcher # Moderator /\ {Watcher, Moderator} \cap Handlers = {}

VARIABLES
  sending,   \* what each sender still has to send
  sent       \* everything that was sent, in order

notices == <<sending, sent>>
noticeVars == <<vars, notices>>

Texts == {"finished", "won", "bought_out", "won_by_buyout", "ended_by_moderator",
          "won_by_moderator"}
Notice == [to : Users, text : Texts]

NoticesInit ==
  /\ Init
  /\ sending = [p \in Senders |-> <<>>]
  /\ sent = <<>>

\* Bug: the winner is taken from the bids before the transaction's own bid.
Bug_CloseNotices_early(seller, won) ==
  <<[to |-> Seller, text |-> seller]>> \o
    IF TopUser(bids) = NoUser THEN <<>> ELSE <<[to |-> TopUser(bids), text |-> won]>>

\* First the seller, then the winner, if any.
CloseNotices(seller, won) ==
  <<[to |-> Seller, text |-> seller]>> \o
    IF winner' = NoUser THEN <<>> ELSE <<[to |-> winner', text |-> won]>>

Sends(p, msgs) == sending' = [sending EXCEPT ![p] = msgs] /\ UNCHANGED sent

\* The buyout button announces the close its call brought about, in the words
\* of a buyout.  The bid button does not look whether its call closed the lot.
handle_buyout_action(h) ==
  /\ calls[h] # NoCall /\ calls[h].buyout
  /\ process_bid_action(h)
  /\ IF status = "ACTIVE" /\ status' \in Finished
       THEN Sends(h, CloseNotices("bought_out", "won_by_buyout"))
       ELSE UNCHANGED notices

handle_bid_action(h) ==
  /\ calls[h] # NoCall /\ ~calls[h].buyout
  /\ process_bid_action(h)
  /\ UNCHANGED notices

\* A worker takes the next call when it has sent the notices of the last one.
next_call(h) ==
  /\ sending[h] = <<>>
  /\ receive_bid(h)
  /\ UNCHANGED notices

\* Bug: every lot of the pass is announced, closed by it or not.
Bug_finalize_expired_auctions ==
  \/ /\ sending[Watcher] = <<>>
     /\ watcher_scan
     /\ UNCHANGED notices
  \/ /\ watcher_finalize
     /\ Sends(Watcher, CloseNotices("finished", "won"))

\* The watcher sends after its pass over the lots, and scans again after that.
finalize_expired_auctions ==
  \/ /\ sending[Watcher] = <<>>
     /\ watcher_scan
     /\ UNCHANGED notices
  \/ /\ watcher_finalize
     /\ IF status = "ACTIVE"
          THEN Sends(Watcher, CloseNotices("finished", "won"))
          ELSE UNCHANGED notices

mod_end ==
  /\ sending[Moderator] = <<>>
  /\ end_auction
  /\ Sends(Moderator, CloseNotices("ended_by_moderator", "won_by_moderator"))

\* The admin panel's button runs in another process and tells nobody.
action_end_auction ==
  /\ end_auction
  /\ UNCHANGED notices

send_user_topic_message(p) ==
  /\ sending[p] # <<>>
  /\ sent' = Append(sent, Head(sending[p]))
  /\ sending' = [sending EXCEPT ![p] = Tail(@)]
  /\ UNCHANGED vars

\* What was not sent when the bot dies is never sent.
bot_restarts_unsent ==
  /\ bot_restarts
  /\ sending' = [p \in Senders |-> <<>>]
  /\ UNCHANGED sent

\* Steps of the lot that close nothing.
QuietStep ==
  /\ \/ Tick \/ Publication \/ freeze_auction \/ unfreeze_auction
     \/ \E i \in BidIds : remove_bid(i)
     \/ \E u \in Users : ban_user(u) \/ unban_user(u)
  /\ UNCHANGED notices

NoticesNext ==
  \/ QuietStep
  \/ \E h \in Handlers : next_call(h) \/ handle_bid_action(h) \/ handle_buyout_action(h)
  \/ finalize_expired_auctions
  \/ mod_end \/ action_end_auction
  \/ \E p \in Senders : send_user_topic_message(p)
  \/ bot_restarts_unsent

NoticesSpec == NoticesInit /\ [][NoticesNext]_noticeVars

\* The watcher is scheduled fairly, and every send comes to an end.
FairNoticesSpec ==
  NoticesSpec /\ Fairness /\ WF_noticeVars(send_user_topic_message(Watcher))
-----------------------------------------------------------------------------
(* Properties.                                                             *)

\* Notices go to users of the platform only, and the lot keeps its types.
NoticesTypeOK ==
  /\ TypeOK
  /\ sending \in [Senders -> Seq(Notice)]
  /\ sent \in Seq(Notice)

Unsent == UNION {Range(sending[p]) : p \in Senders}
SellerTexts == {"finished", "bought_out", "ended_by_moderator"}

\* However many processes find the lot expired, bought out or ended at the
\* same time, only one of them announces the close to the seller.
AnnouncedOnce ==
  /\ NoticesTypeOK
  /\ Cardinality({k \in DOMAIN sent : sent[k].text \in SellerTexts})
     + Cardinality({p \in Senders : \E k \in DOMAIN sending[p] :
                                       sending[p][k].text \in SellerTexts}) <= 1

\* Whoever is told that they won did win, unless a moderator removed a bid of
\* theirs after the close.
WinNoticesAreTrue ==
  \A n \in Range(sent) \cup Unsent :
    n.text \notin SellerTexts =>
      n.to = winner \/ \E i \in DOMAIN bids : bids[i].user = n.to /\ bids[i].removed

\* When the lot has closed by itself, its seller has been told or is about to
\* be (README.md:81).
CloseIsAnnounced ==
  status \in Finished /\ [action |-> "END_AUCTION"] \notin Range(audit) =>
    \E n \in Range(sent) \cup Unsent : n.to = Seller /\ n.text \in SellerTexts
=============================================================================
