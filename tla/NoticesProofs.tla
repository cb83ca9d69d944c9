--------------------------- MODULE NoticesProofs ----------------------------
(***************************************************************************)
(* Proofs about module AuctionNotices: the close of a lot is announced once, *)
(* by whoever closes it, and nobody is congratulated on a lot that they did   *)
(* not win.                                                                  *)
(***************************************************************************)
EXTENDS AuctionNotices, AuctionProofs

\* Every step of the senders is a step of the lot or leaves it alone.
LEMMA SendersRunTheLot == NoticesNext => [Next]_vars
<1> SUFFICES ASSUME NoticesNext PROVE [Next]_vars
  OBVIOUS
<1>1. CASE QuietStep
  BY <1>1 DEF QuietStep, Next, Moderation
<1>2. ASSUME NEW h \in Handlers, next_call(h) \/ handle_bid_action(h) \/ handle_buyout_action(h)
      PROVE  Next
  BY <1>2 DEF next_call, handle_bid_action, handle_buyout_action, Next, Bidding
<1>3. CASE finalize_expired_auctions
  BY <1>3 DEF finalize_expired_auctions, Next, Watching
<1>4. CASE mod_end \/ action_end_auction
  BY <1>4 DEF mod_end, action_end_auction, Next, Moderation
<1>5. ASSUME NEW p \in Senders, send_user_topic_message(p)
      PROVE  UNCHANGED vars
  BY <1>5 DEF send_user_topic_message
<1>6. CASE bot_restarts_unsent
  BY <1>6 DEF bot_restarts_unsent, Next
<1> QED
  BY <1>1, <1>2, <1>3, <1>4, <1>5, <1>6 DEF NoticesNext

\* The senders never keep the lot from being the lot of module Auction: what
\* is proved of every lot holds of a lot that is announced.
THEOREM AnnouncedLotIsALot == NoticesSpec => Spec
<1>1. NoticesInit => Init
  BY DEF NoticesInit
<1>2. [NoticesNext]_noticeVars => [Next]_vars
  BY SendersRunTheLot DEF noticeVars
<1> QED
  BY <1>1, <1>2, PTL DEF NoticesSpec, Spec
-----------------------------------------------------------------------------
(* What a step of the lot does to the winner and to the bids.                *)

\* No bid is forgotten, changes hands or is put back.
BidsAreKept(b, c) ==
  \A i \in DOMAIN b :
    i \in DOMAIN c /\ c[i].user = b[i].user /\ (b[i].removed => c[i].removed)

HasRemovedBid(b, u) == \E i \in DOMAIN b : b[i].user = u /\ b[i].removed

\* Bids that are only marked as removed leave a user with a removed bid.
LEMMA KeptBidsStayRemoved ==
  ASSUME NEW b, NEW c, BidsAreKept(b, c), NEW u, HasRemovedBid(b, u)
  PROVE  HasRemovedBid(c, u)
BY DEF BidsAreKept, HasRemovedBid

\* Striking a bid that is not the top bid leaves the leader.
LEMMA LeaderSurvivesRemoval ==
  ASSUME NEW b \in Seq(Bid), Climbs(b), NEW i \in Live(b), NEW c, Struck(b, i, c),
         b[i].user # TopUser(b)
  PROVE  TopUser(c) = TopUser(b)
<1> DEFINE t == Top(b)
<1>1. t \in Live(b) /\ \A j \in Live(b) : b[j].amount <= b[t].amount
  BY TopLeads
<1>2. TopUser(b) = b[t].user /\ t # i
  BY <1>1 DEF TopUser
<1>3. /\ c \in Seq(Bid) /\ Climbs(c) /\ Live(c) = Live(b) \ {i}
      /\ \A j \in Live(c) : c[j] = b[j]
  BY DEF Struck
<1> HIDE DEF t
<1>4. t \in Live(c)
  BY <1>1, <1>2, <1>3
<1>5. Top(c) \in Live(c) /\ c[t].amount <= c[Top(c)].amount
  BY <1>3, <1>4, TopLeads
<1>6. Top(c) = t
  <2>1. b[t].amount <= b[Top(c)].amount /\ b[Top(c)].amount <= b[t].amount
    BY <1>1, <1>3, <1>4, <1>5
  <2>2. b[t] \in Bid /\ b[Top(c)] \in Bid
    BY <1>1, <1>3, <1>5 DEF Live
  <2>3. b[t].amount = b[Top(c)].amount
    BY <2>1, <2>2 DEF Bid
  <2> QED
    BY <2>3, <1>1, <1>3, <1>5, StandingRowsDiffer
<1> QED
  BY <1>2, <1>3, <1>4, <1>6 DEF TopUser

\* What may happen to a lot that has closed.
AfterClose ==
  /\ status' \in Finished
  /\ BidsAreKept(bids, bids')
  /\ winner' = winner \/ HasRemovedBid(bids', winner)

\* A removal after the close changes the winner only for one who lost a bid.
LEMMA RemovalAfterClose ==
  ASSUME IInv, status \in Finished, NEW i \in BidIds, remove_bid(i)
  PROVE  AfterClose
<1>1. /\ bids \in Seq(Bid) /\ Climbs(bids) /\ i \in Live(bids)
      /\ bids' = [bids EXCEPT ![i].removed = TRUE] /\ winner' = TopUser(bids')
      /\ winner = TopUser(bids) /\ status' = status
  BY DEF remove_bid, IInv, TypeOK, BidsClimbBelowBuyout, HighestLiveBidderWins
<1>2. Struck(bids, i, bids')
  BY RemoveBidStrikes DEF IInv, BidsClimbBelowBuyout
<1>3. i \in DOMAIN bids /\ bids[i] \in Bid /\ DOMAIN bids' = DOMAIN bids
  BY <1>1 DEF Live
<1>4. /\ bids'[i].user = bids[i].user /\ bids'[i].removed
      /\ \A j \in DOMAIN bids : j # i => bids'[j] = bids[j]
  BY <1>1, <1>3 DEF Bid
<1>5. BidsAreKept(bids, bids')
  BY <1>3, <1>4 DEF BidsAreKept
<1>6. CASE bids[i].user = winner
  BY <1>1, <1>3, <1>4, <1>5, <1>6 DEF AfterClose, HasRemovedBid
<1>7. CASE bids[i].user # winner
  BY <1>1, <1>2, <1>5, <1>7, LeaderSurvivesRemoval DEF AfterClose
<1> QED
  BY <1>6, <1>7

\* No other step of a closed lot changes the winner.
LEMMA ClosedLotKeepsWinner ==
  ASSUME IInv, status \in Finished, [Next]_vars
  PROVE  AfterClose
<1>1. status \notin {"DRAFT", "ACTIVE", "FROZEN"}
  BY DEF Finished
<1>2. UNCHANGED <<status, bids, winner>> => AfterClose
  BY DEF AfterClose, BidsAreKept
<1>3. CASE UNCHANGED vars \/ Tick \/ bot_restarts \/ Watching
  BY <1>1, <1>2, <1>3 DEF vars, Tick, bot_restarts, Watching, watcher_scan, watcher_finalize, lot
<1>4. CASE Publication
  BY <1>1, <1>2, <1>4 DEF Publication, activate_auction_chat_post, activate_auction_inline_post, lot
<1>5. CASE Bidding
  BY <1>1, <1>2, <1>5 DEF Bidding, receive_bid, process_bid_action, bid_is_turned_down,
     bid_finds_lot_expired, bid_is_placed, lot
<1>6. CASE Moderation
  BY <1>1, <1>2, <1>6, RemovalAfterClose DEF Moderation, freeze_auction, unfreeze_auction,
     end_auction, ban_user, unban_user, lot
<1> QED
  BY <1>3, <1>4, <1>5, <1>6 DEF Next
-----------------------------------------------------------------------------
(* The inductive invariant.  Nothing is said before the close; the seller's   *)
(* notice comes first in what a sender has to send; it is at one place at      *)
(* most, with one sender or sent.                                            *)

ForSeller(s) == {k \in DOMAIN s : s[k].text \in SellerTexts}
Announcing(q) == {p \in Senders : ForSeller(q[p]) # {}}

SilentUntilClose ==
  status \notin Finished => sent = <<>> /\ \A p \in Senders : sending[p] = <<>>

SellerComesFirst(q) == \A p \in Senders : ForSeller(q[p]) \subseteq {1}

AtOnePlace(s, q) ==
  /\ \A k, l \in ForSeller(s) : k = l
  /\ \A p, r \in Announcing(q) : p = r
  /\ ForSeller(s) = {} \/ Announcing(q) = {}

\* A message for the seller, or a win that is true or was taken back.
IsTrue(n, w, b) == n.text \in SellerTexts \/ n.to = w \/ HasRemovedBid(b, n.to)
AllTrue(s, w, b) == \A k \in DOMAIN s : IsTrue(s[k], w, b)

NInv ==
  /\ NoticesTypeOK
  /\ SilentUntilClose
  /\ SellerComesFirst(sending)
  /\ AtOnePlace(sent, sending)
  /\ AllTrue(sent, winner, bids)
  /\ \A p \in Senders : AllTrue(sending[p], winner, bids)

\* What a sender that closed the lot has to say.
Announcement(msgs) ==
  /\ msgs \in Seq(Notice)
  /\ ForSeller(msgs) \subseteq {1}
  /\ \A k \in DOMAIN msgs : msgs[k].text \notin SellerTexts => msgs[k].to = winner'

\* The notices of a close name the winner on record, and the seller once.
LEMMA CloseNoticesAnnounce ==
  ASSUME TypeOK', NEW s \in SellerTexts, NEW w \in Texts \ SellerTexts
  PROVE  Announcement(CloseNotices(s, w))
<1> DEFINE first == [to |-> Seller, text |-> s]
           second == [to |-> winner', text |-> w]
<1>1. first \in Notice /\ (winner' # NoUser => second \in Notice)
  BY AuctionAssumption DEF TypeOK, Notice, SellerTexts, Texts
<1>2. CASE winner' = NoUser
  <2>1. CloseNotices(s, w) = <<first>>
    BY <1>1, <1>2 DEF CloseNotices
  <2> QED
    BY <1>1, <2>1 DEF Announcement, ForSeller
<1>3. CASE winner' # NoUser
  <2>1. CloseNotices(s, w) = <<first, second>>
    <3>1. CloseNotices(s, w) = <<first>> \o <<second>>
      BY <1>3 DEF CloseNotices
    <3> HIDE DEF first, second
    <3>2. <<first>> \o <<second>> = <<first, second>>
      BY <1>1, <1>3, OneThenOne
    <3> QED
      BY <3>1, <3>2
  <2>2. /\ second.text = w /\ second.to = winner' /\ first.text = s
        /\ <<first, second>> \in Seq(Notice)
    BY <1>1, <1>3
  <2> HIDE DEF first, second
  <2>3. ForSeller(<<first, second>>) \subseteq {1}
    BY <2>2 DEF ForSeller
  <2>4. \A k \in DOMAIN <<first, second>> :
          <<first, second>>[k].text \notin SellerTexts => <<first, second>>[k].to = winner'
    BY <2>2
  <2> QED
    BY <2>1, <2>2, <2>3, <2>4 DEF Announcement
<1> QED
  BY <1>2, <1>3

\* Sending the first message takes it out of the queue, the seller's with it.
LEMMA SendingTakesTheFirst ==
  ASSUME NEW s \in Seq(Notice), NEW q \in [Senders -> Seq(Notice)], NEW p \in Senders,
         q[p] # <<>>, SellerComesFirst(q), AtOnePlace(s, q)
  PROVE  LET t == Append(s, Head(q[p]))
             r == [q EXCEPT ![p] = Tail(@)] IN
         /\ t \in Seq(Notice) /\ r \in [Senders -> Seq(Notice)]
         /\ SellerComesFirst(r) /\ AtOnePlace(t, r)
<1> DEFINE m == Head(q[p])
           t == Append(s, m)
           r == [q EXCEPT ![p] = Tail(q[p])]
           n == Len(s) + 1
<1>1. /\ q[p] \in Seq(Notice) /\ m \in Notice /\ m = q[p][1] /\ 1 \in DOMAIN q[p]
      /\ Tail(q[p]) \in Seq(Notice)
      /\ \A k \in DOMAIN Tail(q[p]) :
           k + 1 \in DOMAIN q[p] /\ k \in Nat /\ k # 0 /\ Tail(q[p])[k] = q[p][k + 1]
  OBVIOUS
<1>2. t \in Seq(Notice) /\ r \in [Senders -> Seq(Notice)]
  BY <1>1
<1>3. /\ DOMAIN s = 1..Len(s) /\ DOMAIN t = 1..n /\ Len(s) \in Nat
      /\ t[n] = m /\ \A k \in DOMAIN s : t[k] = s[k]
  BY <1>1
<1>4. r[p] = Tail(q[p]) /\ \A x \in Senders : x # p => r[x] = q[x]
  OBVIOUS
<1> HIDE DEF m, t, r, n
<1>5. ForSeller(r[p]) = {}
  <2> SUFFICES ASSUME NEW k \in ForSeller(r[p]) PROVE FALSE
    OBVIOUS
  <2>1. k \in Nat /\ k # 0 /\ k + 1 \in ForSeller(q[p])
    BY <1>1, <1>4 DEF ForSeller
  <2>2. k + 1 = 1
    BY <2>1 DEF SellerComesFirst
  <2> QED
    BY <2>1, <2>2
<1>6. SellerComesFirst(r) /\ Announcing(r) = Announcing(q) \ {p}
  BY <1>4, <1>5 DEF SellerComesFirst, Announcing
<1>7. CASE m.text \in SellerTexts
  <2>1. 1 \in ForSeller(q[p])
    BY <1>1, <1>7 DEF ForSeller
  <2>2. p \in Announcing(q)
    BY <2>1 DEF Announcing
  <2>3. ForSeller(s) = {} /\ Announcing(r) = {}
    BY <2>2, <1>6 DEF AtOnePlace
  <2>4. ForSeller(t) \subseteq {n}
    <3> SUFFICES ASSUME NEW k \in ForSeller(t), k # n PROVE FALSE
      OBVIOUS
    <3>1. k \in 1..n
      BY <1>3 DEF ForSeller
    <3>2. k \in DOMAIN s
      BY <3>1, <1>3 DEF n
    <3>3. k \in ForSeller(s)
      BY <3>2, <1>3 DEF ForSeller
    <3> QED
      BY <3>3, <2>3
  <2> QED
    BY <1>2, <1>6, <2>3, <2>4 DEF AtOnePlace, m, t, r
<1>8. CASE m.text \notin SellerTexts
  <2>1. ForSeller(t) = ForSeller(s)
    <3>1. \A k \in DOMAIN t : k \in DOMAIN s \/ k = n
      BY <1>3 DEF n
    <3>2. \A k \in DOMAIN s : k \in DOMAIN t
      BY <1>3 DEF n
    <3> QED
      BY <1>3, <1>8, <3>1, <3>2 DEF ForSeller
  <2> QED
    BY <1>2, <1>6, <2>1 DEF AtOnePlace, m, t, r
<1> QED
  BY <1>7, <1>8
-----------------------------------------------------------------------------
(* The steps.                                                              *)

\* What was true of a finished lot stays true, or becomes a removed bid.
LEMMA TruthLasts ==
  ASSUME AfterClose, NEW s, AllTrue(s, winner, bids)
  PROVE  AllTrue(s, winner', bids')
<1> SUFFICES ASSUME NEW k \in DOMAIN s PROVE IsTrue(s[k], winner', bids')
  BY DEF AllTrue
<1>1. IsTrue(s[k], winner, bids)
  BY DEF AllTrue
<1>2. BidsAreKept(bids, bids') /\ (winner' = winner \/ HasRemovedBid(bids', winner))
  BY DEF AfterClose
<1>3. HasRemovedBid(bids, s[k].to) => HasRemovedBid(bids', s[k].to)
  BY <1>2, KeptBidsStayRemoved
<1> QED
  BY <1>1, <1>2, <1>3 DEF IsTrue

\* No notices, nothing untrue and nothing for the seller.
LEMMA EmptyIsTrue ==
  ASSUME NEW w, NEW b
  PROVE  AllTrue(<<>>, w, b) /\ ForSeller(<<>>) = {}
BY DEF AllTrue, ForSeller

\* Steps of the lot during which nobody has anything new to say.
LEMMA QuietSendersKeepInvariant ==
  ASSUME IInv, IInv', NInv, [Next]_vars, UNCHANGED notices
  PROVE  NInv'
<1>1. NoticesTypeOK'
  BY DEF NInv, NoticesTypeOK, IInv, notices
<1>2. SellerComesFirst(sending') /\ AtOnePlace(sent', sending')
  BY DEF NInv, notices
<1>3. CASE status \in Finished
  <2>1. AfterClose
    BY <1>3, ClosedLotKeepsWinner
  <2>2. SilentUntilClose'
    BY <2>1 DEF AfterClose, SilentUntilClose
  <2>3. AllTrue(sent', winner', bids')
    BY <2>1, TruthLasts DEF NInv, notices
  <2>4. \A p \in Senders : AllTrue(sending'[p], winner', bids')
    BY <2>1, TruthLasts DEF NInv, notices
  <2> QED
    BY <1>1, <1>2, <2>2, <2>3, <2>4 DEF NInv
<1>4. CASE status \notin Finished
  <2>1. sent' = <<>> /\ \A p \in Senders : sending'[p] = <<>>
    BY <1>4 DEF NInv, SilentUntilClose, notices
  <2>2. AllTrue(sent', winner', bids') /\ \A p \in Senders : AllTrue(sending'[p], winner', bids')
    BY <2>1, EmptyIsTrue
  <2> QED
    BY <1>1, <1>2, <2>1, <2>2 DEF NInv, SilentUntilClose
<1> QED
  BY <1>3, <1>4

\* A sender that closes the lot is the first to speak.
LEMMA ClosingIsAnnounced ==
  ASSUME IInv, IInv', NInv, status \notin Finished, status' \in Finished,
         NEW p \in Senders, NEW msgs, Announcement(msgs), Sends(p, msgs)
  PROVE  NInv'
<1>1. /\ sent' = <<>> /\ sent = <<>>
      /\ sending \in [Senders -> Seq(Notice)]
      /\ sending' = [sending EXCEPT ![p] = msgs]
      /\ \A r \in Senders : sending[r] = <<>>
  BY DEF NInv, SilentUntilClose, NoticesTypeOK, Sends
<1>2. sending'[p] = msgs /\ \A r \in Senders : r # p => sending'[r] = <<>>
  BY <1>1
<1>3. msgs \in Seq(Notice) /\ ForSeller(msgs) \subseteq {1}
  BY DEF Announcement
<1>4. NoticesTypeOK'
  BY <1>1, <1>3 DEF NoticesTypeOK, IInv
<1>5. SellerComesFirst(sending')
  BY <1>2, <1>3, EmptyIsTrue DEF SellerComesFirst
<1>6. AtOnePlace(sent', sending')
  <2>1. Announcing(sending') \subseteq {p} /\ ForSeller(sent') = {}
    BY <1>1, <1>2, EmptyIsTrue DEF Announcing
  <2> QED
    BY <2>1 DEF AtOnePlace
<1>7. AllTrue(sent', winner', bids')
  BY <1>1, EmptyIsTrue
<1>8. AllTrue(msgs, winner', bids')
  BY DEF Announcement, AllTrue, IsTrue
<1>9. \A r \in Senders : AllTrue(sending'[r], winner', bids')
  BY <1>2, <1>8, EmptyIsTrue
<1> QED
  BY <1>4, <1>5, <1>6, <1>7, <1>9 DEF NInv, SilentUntilClose

\* Sending moves a message and changes none.
LEMMA SendingKeepsInvariant ==
  ASSUME IInv', NInv, NEW p \in Senders, send_user_topic_message(p)
  PROVE  NInv'
<1>1. /\ sending[p] # <<>> /\ UNCHANGED vars
      /\ sent' = Append(sent, Head(sending[p]))
      /\ sending' = [sending EXCEPT ![p] = Tail(@)]
      /\ sent \in Seq(Notice) /\ sending \in [Senders -> Seq(Notice)]
  BY DEF send_user_topic_message, NInv, NoticesTypeOK
<1>2. /\ sent' \in Seq(Notice) /\ sending' \in [Senders -> Seq(Notice)]
      /\ SellerComesFirst(sending') /\ AtOnePlace(sent', sending')
  BY <1>1, SendingTakesTheFirst DEF NInv
<1>3. NoticesTypeOK'
  BY <1>2 DEF NoticesTypeOK, IInv
<1>4. SilentUntilClose'
  BY <1>1 DEF NInv, SilentUntilClose, vars, lot
<1>5. winner' = winner /\ bids' = bids
  BY <1>1 DEF vars, lot
<1>6. /\ sending[p] \in Seq(Notice) /\ 1 \in DOMAIN sending[p]
      /\ Head(sending[p]) = sending[p][1]
      /\ \A k \in DOMAIN Tail(sending[p]) :
           k + 1 \in DOMAIN sending[p] /\ Tail(sending[p])[k] = sending[p][k + 1]
  BY <1>1
<1>7. AllTrue(sent, winner, bids) /\ \A r \in Senders : AllTrue(sending[r], winner, bids)
  BY DEF NInv
<1>8. AllTrue(sent', winner', bids')
  <2>1. IsTrue(Head(sending[p]), winner, bids)
    BY <1>6, <1>7 DEF AllTrue
  <2>2. /\ Len(sent) \in Nat /\ DOMAIN sent = 1..Len(sent) /\ DOMAIN sent' = 1..(Len(sent) + 1)
        /\ sent'[Len(sent) + 1] = Head(sending[p])
        /\ \A k \in 1..Len(sent) : sent'[k] = sent[k]
    BY <1>1, <1>6
  <2>3. \A k \in DOMAIN sent' : k \in DOMAIN sent \/ k = Len(sent) + 1
    BY <2>2
  <2> QED
    BY <1>5, <1>7, <2>1, <2>2, <2>3 DEF AllTrue
<1>9. \A r \in Senders : AllTrue(sending'[r], winner', bids')
  <2> TAKE r \in Senders
  <2>1. CASE r # p
    BY <2>1, <1>1, <1>5, <1>7
  <2>2. CASE r = p
    <3>1. sending'[p] = Tail(sending[p])
      BY <1>1
    <3> QED
      BY <3>1, <2>2, <1>5, <1>6, <1>7 DEF AllTrue
  <2> QED
    BY <2>1, <2>2
<1> QED
  BY <1>2, <1>3, <1>4, <1>8, <1>9 DEF NInv

\* What was not sent is gone after a restart.
LEMMA RestartKeepsSilence ==
  ASSUME IInv, IInv', NInv, bot_restarts_unsent
  PROVE  NInv'
<1>1. /\ sending' = [p \in Senders |-> <<>>] /\ sent' = sent
      /\ UNCHANGED <<status, winner, bids>>
  BY DEF bot_restarts_unsent, bot_restarts, lot
<1>2. \A p \in Senders : sending'[p] = <<>>
  BY <1>1
<1>3. NoticesTypeOK'
  BY <1>1 DEF NInv, NoticesTypeOK, IInv
<1>4. SellerComesFirst(sending') /\ Announcing(sending') = {}
  BY <1>2, EmptyIsTrue DEF SellerComesFirst, Announcing
<1>5. AtOnePlace(sent', sending')
  BY <1>1, <1>4 DEF NInv, AtOnePlace
<1>6. SilentUntilClose'
  BY <1>1, <1>2 DEF NInv, SilentUntilClose
<1>7. AllTrue(sent', winner', bids') /\ \A p \in Senders : AllTrue(sending'[p], winner', bids')
  BY <1>1, <1>2, EmptyIsTrue DEF NInv
<1> QED
  BY <1>3, <1>4, <1>5, <1>6, <1>7 DEF NInv

\* Every step of a sender keeps the invariant of the notices.
LEMMA SendersKeepInvariant ==
  IInv /\ IInv' /\ NInv /\ [NoticesNext]_noticeVars => NInv'
<1> SUFFICES ASSUME IInv, IInv', NInv, [NoticesNext]_noticeVars PROVE NInv'
  OBVIOUS
<1> USE DEF IInv
<1>1. [Next]_vars
  BY SendersRunTheLot DEF noticeVars
<1>2. CASE UNCHANGED notices
  BY <1>1, <1>2, QuietSendersKeepInvariant
<1>3. ASSUME NEW p \in Senders, NEW s \in SellerTexts, NEW w \in Texts \ SellerTexts,
             status \notin Finished, status' \in Finished, Sends(p, CloseNotices(s, w))
      PROVE  NInv'
  BY <1>3, CloseNoticesAnnounce, ClosingIsAnnounced
<1>4. /\ {"finished", "bought_out", "ended_by_moderator"} \subseteq SellerTexts
      /\ {"won", "won_by_buyout", "won_by_moderator"} \subseteq Texts \ SellerTexts
      /\ {Watcher, Moderator} \subseteq Senders /\ Handlers \subseteq Senders
      /\ "ACTIVE" \notin Finished /\ "FROZEN" \notin Finished /\ "ENDED" \in Finished
  BY DEF SellerTexts, Texts, Senders, Finished
<1>5. ASSUME NEW h \in Handlers, handle_buyout_action(h)
      PROVE  NInv'
  <2>1. CASE status = "ACTIVE" /\ status' \in Finished
    BY <1>3, <1>4, <1>5, <2>1 DEF handle_buyout_action
  <2>2. CASE ~(status = "ACTIVE" /\ status' \in Finished)
    BY <1>2, <1>5, <2>2 DEF handle_buyout_action
  <2> QED
    BY <2>1, <2>2
<1>6. CASE watcher_finalize /\ status = "ACTIVE" /\ Sends(Watcher, CloseNotices("finished", "won"))
  <2>1. status' = "ENDED"
    BY <1>6 DEF watcher_finalize, finalize_auction_locked
  <2> QED
    BY <1>3, <1>4, <1>6, <2>1
<1>7. CASE mod_end
  <2>1. status \in {"ACTIVE", "FROZEN"} /\ status' = "ENDED"
    BY <1>7 DEF mod_end, end_auction
  <2> QED
    BY <1>3, <1>4, <1>7, <2>1 DEF mod_end
<1>8. ASSUME NEW p \in Senders, send_user_topic_message(p)
      PROVE  NInv'
  BY <1>8, SendingKeepsInvariant
<1>9. CASE bot_restarts_unsent
  BY <1>9, RestartKeepsSilence
<1> QED
  BY <1>2, <1>5, <1>6, <1>7, <1>8, <1>9 DEF NoticesNext, noticeVars, QuietStep, next_call,
     handle_bid_action, finalize_expired_auctions, action_end_auction

\* At first nothing was sent and nothing is to be sent.
LEMMA SendersStartSilent == NoticesInit /\ IInv => NInv
<1> SUFFICES ASSUME NoticesInit, IInv PROVE NInv
  OBVIOUS
<1>1. sent = <<>> /\ sending = [p \in Senders |-> <<>>] /\ \A p \in Senders : sending[p] = <<>>
  BY DEF NoticesInit
<1>2. NoticesTypeOK
  BY <1>1 DEF NoticesTypeOK, IInv
<1>3. ForSeller(sent) = {} /\ Announcing(sending) = {} /\ SellerComesFirst(sending)
  BY <1>1, EmptyIsTrue DEF Announcing, SellerComesFirst
<1>4. AllTrue(sent, winner, bids) /\ \A p \in Senders : AllTrue(sending[p], winner, bids)
  BY <1>1, EmptyIsTrue
<1> QED
  BY <1>1, <1>2, <1>3, <1>4 DEF NInv, SilentUntilClose, AtOnePlace

\* The invariant holds of every behaviour of the lot and its notices.
LEMMA SendersInvariant == NoticesSpec => []NInv
<1>1. Init /\ NoticesInit => NInv
  BY InitialInvariant, SendersStartSilent
<1>2. NoticesInit => Init
  BY DEF NoticesInit
<1> QED
  BY <1>1, <1>2, SendersKeepInvariant, AnnouncedLotIsALot, InvariantHolds, PTL DEF NoticesSpec
-----------------------------------------------------------------------------
(* The theorems.                                                           *)

\* However many processes find the lot expired, bought out or ended, the
\* seller hears of its close from one of them, once.
THEOREM CloseIsAnnouncedOnce == NoticesSpec => []AnnouncedOnce
<1>1. NInv => AnnouncedOnce
  <2> SUFFICES ASSUME NInv PROVE AnnouncedOnce
    OBVIOUS
  <2>1. AtOnePlace(sent, sending) /\ NoticesTypeOK
    BY DEF NInv
  <2>2. AnnouncedOnce <=>
          NoticesTypeOK /\ Cardinality(ForSeller(sent)) + Cardinality(Announcing(sending)) <= 1
    <3>1. ForSeller(sent) = {k \in DOMAIN sent : sent[k].text \in SellerTexts}
      BY DEF ForSeller
    <3>2. Announcing(sending) =
            {p \in Senders : \E k \in DOMAIN sending[p] : sending[p][k].text \in SellerTexts}
      BY DEF ForSeller, Announcing
    <3> QED
      BY <3>1, <3>2 DEF AnnouncedOnce
  <2>3. \A S : (\A x, y \in S : x = y) => Cardinality(S) \in {0, 1} /\ (S = {} => Cardinality(S) = 0)
    <3> TAKE S
    <3>1. CASE S = {}
      BY <3>1, FS_EmptySet
    <3>2. ASSUME NEW x \in S, \A y, z \in S : y = z
          PROVE  Cardinality(S) = 1
      <4>1. S = {x}
        BY <3>2
      <4> QED
        BY <4>1, FS_Singleton
    <3> QED
      BY <3>1, <3>2
  <2>4. /\ Cardinality(ForSeller(sent)) \in {0, 1} /\ Cardinality(Announcing(sending)) \in {0, 1}
        /\ Cardinality(ForSeller(sent)) = 0 \/ Cardinality(Announcing(sending)) = 0
    BY <2>1, <2>3 DEF AtOnePlace
  <2> QED
    BY <2>1, <2>2, <2>4
<1> QED
  BY <1>1, SendersInvariant, PTL

\* Whoever is told that they won did win, or a bid of theirs was removed.
THEOREM WinnersAreToldTheTruth == NoticesSpec => []WinNoticesAreTrue
<1>1. NInv => WinNoticesAreTrue
  <2> SUFFICES ASSUME NInv, NEW n \in Range(sent) \cup Unsent
               PROVE  IsTrue(n, winner, bids)
    BY DEF WinNoticesAreTrue, IsTrue, HasRemovedBid
  <2>1. CASE n \in Range(sent)
    BY <2>1 DEF NInv, AllTrue, Range
  <2>2. CASE n \in Unsent
    BY <2>2 DEF Unsent, NInv, AllTrue, Range
  <2> QED
    BY <2>1, <2>2
<1> QED
  BY <1>1, SendersInvariant, PTL
=============================================================================
