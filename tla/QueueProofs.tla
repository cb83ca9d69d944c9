---------------------------- MODULE QueueProofs -----------------------------
(***************************************************************************)
(* Proofs about module ModerationQueue: cards, commands and the panel's bulk *)
(* form deciding at the same time, on rows some of which were loaded before   *)
(* the lock.  A stale view can put the wrong winner on record or reopen a     *)
(* finished lot, so nothing here uses what AuctionProofs shows of the award   *)
(* or of climbing bids: the types are proved anew, and from them alone the     *)
(* rest.                                                                     *)
(***************************************************************************)
EXTENDS ModerationQueue, AuctionProofs

\* The top bid, if there is one, is a user's.
LEMMA LeaderIsAUser ==
  ASSUME TypeOK
  PROVE  TopUser(bids) \in Users \cup {NoUser}
BY PriceIsHighest DEF TypeOK

\* Striking a bid of the sequence leaves a sequence of bids.
LEMMA StruckBids ==
  ASSUME NEW b \in Seq(Bid), NEW i \in DOMAIN b, NEW c, c = [b EXCEPT ![i].removed = TRUE]
  PROVE  /\ c \in Seq(Bid) /\ DOMAIN c = DOMAIN b /\ Len(c) = Len(b)
         /\ TopUser(c) \in Users \cup {NoUser}
<1>1. i \in 1..Len(b) /\ DOMAIN b = 1..Len(b) /\ Len(b) \in Nat /\ b[i] \in Bid
  OBVIOUS
<1>2. [b[i] EXCEPT !.removed = TRUE] \in Bid
  BY <1>1 DEF Bid
<1>3. c = [b EXCEPT ![i] = [b[i] EXCEPT !.removed = TRUE]]
  OBVIOUS
<1>4. c \in Seq(Bid) /\ Len(c) = Len(b) /\ DOMAIN c = DOMAIN b
  BY <1>1, <1>2, <1>3
<1> QED
  BY <1>4, PriceIsHighest

\* The end a lot gets when it closes.
LEMMA ClosingTime ==
  ASSUME TypeOK, NEW f \in Statuses, NEW w \in Users \cup {NoUser}, finalize_auction_locked(f, w)
  PROVE  /\ status' \in Statuses /\ winner' \in Users \cup {NoUser}
         /\ ends_at' \in Nat \cup {NoTime}
         /\ starts_at' = starts_at /\ extensions_used' = extensions_used
BY DEF finalize_auction_locked, TypeOK

LotTypes ==
  /\ status \in Statuses
  /\ starts_at \in Nat \cup {NoTime} /\ ends_at \in Nat \cup {NoTime}
  /\ extensions_used \in 0..MaxExtensions
  /\ winner \in Users \cup {NoUser}

\* A bid call keeps the types, adds one row at most, and logs nothing.
LEMMA BidKeepsTypes ==
  ASSUME TypeOK, NEW h \in Handlers, process_bid_action(h)
  PROVE  /\ TypeOK'
         /\ calls' = [calls EXCEPT ![h] = NoCall]
         /\ UNCHANGED <<audit, banned>>
         /\ bids' = bids \/ \E r \in Bid : bids' = Append(bids, r)
<1>1. /\ calls[h] \in Call /\ calls[h].user \in Users
      /\ calls' = [calls EXCEPT ![h] = NoCall]
      /\ calls' \in [Handlers -> Call \cup {NoCall}]
      /\ UNCHANGED <<posts, banned, audit, now, due>>
  BY DEF process_bid_action, TypeOK, Call
<1>2. LotTypes' /\ (bids' = bids \/ \E r \in Bid : bids' = Append(bids, r))
  <2>1. CASE bid_is_turned_down(calls[h])
    BY <2>1 DEF bid_is_turned_down, LotTypes, lot, TypeOK
  <2>2. CASE bid_finds_lot_expired(calls[h])
    <3>1. finalize_auction_locked("ENDED", TopUser(bids)) /\ "ENDED" \in Statuses /\ bids' = bids
      BY <2>2 DEF bid_finds_lot_expired, Statuses
    <3> QED
      BY <3>1, ClosingTime, LeaderIsAUser DEF LotTypes, TypeOK
  <2>3. CASE bid_is_placed(calls[h])
    <3>1. RowOf(calls[h]) \in Bid /\ bids' = Append(bids, RowOf(calls[h]))
      BY <1>1, <2>3, RowIsABid DEF bid_is_placed
    <3>2. CASE BuysOut(calls[h])
      <4>1. finalize_auction_locked("BOUGHT_OUT", calls[h].user) /\ "BOUGHT_OUT" \in Statuses
        BY <2>3, <3>2 DEF bid_is_placed, Statuses
      <4> QED
        BY <1>1, <3>1, <4>1, ClosingTime DEF LotTypes, TypeOK
    <3>3. CASE ~BuysOut(calls[h])
      <4>1. extend_end(calls[h].at)
        BY <2>3, <3>3 DEF bid_is_placed
      <4>2. LotTypes'
        BY <4>1, AuctionAssumption DEF extend_end, Extends, LotTypes, TypeOK
      <4> QED
        BY <3>1, <4>2
    <3> QED
      BY <3>2, <3>3
  <2> QED
    BY <2>1, <2>2, <2>3 DEF process_bid_action
<1>3. bids' \in Seq(Bid)
  BY <1>2 DEF TypeOK
<1> QED
  BY <1>1, <1>2, <1>3 DEF TypeOK, LotTypes

\* A moderator's command keeps the types.
LEMMA ModerationKeepsTypes ==
  ASSUME TypeOK, Moderation
  PROVE  TypeOK'
<1>1. audit' \in Seq(Audit)
  <2>1. PICK row \in Audit : audit' = Append(audit, row)
    BY CommandsAreOnRecord DEF OnRecord
  <2> QED
    BY <2>1 DEF TypeOK
<1>2. CASE freeze_auction \/ unfreeze_auction \/ end_auction
  <2>1. LotTypes'
    BY <1>2, LeaderIsAUser DEF freeze_auction, unfreeze_auction, end_auction, LotTypes, TypeOK, Statuses
  <2> QED
    BY <1>1, <1>2, <2>1 DEF freeze_auction, unfreeze_auction, end_auction, TypeOK, LotTypes
<1>3. ASSUME NEW i \in BidIds, remove_bid(i)
      PROVE  TypeOK'
  <2>1. i \in DOMAIN bids /\ bids \in Seq(Bid) /\ bids' = [bids EXCEPT ![i].removed = TRUE]
    BY <1>3 DEF remove_bid, Live, TypeOK
  <2>2. bids' \in Seq(Bid) /\ TopUser(bids') \in Users \cup {NoUser}
    BY <2>1, StruckBids
  <2>3. /\ UNCHANGED <<status, starts_at, ends_at, extensions_used>>
        /\ UNCHANGED <<posts, banned, now, calls, due>>
        /\ winner' \in {TopUser(bids'), winner}
    BY <1>3 DEF remove_bid
  <2>4. winner' \in Users \cup {NoUser}
    BY <2>2, <2>3 DEF TypeOK
  <2> QED
    BY <1>1, <2>2, <2>3, <2>4 DEF TypeOK
<1>4. ASSUME NEW u \in Users, ban_user(u) \/ unban_user(u)
      PROVE  TypeOK'
  <2>1. banned' \subseteq Users
    BY <1>4 DEF ban_user, unban_user, TypeOK
  <2>2. UNCHANGED <<lot, posts, bids, now, calls, due>>
    BY <1>4 DEF ban_user, unban_user
  <2> QED
    BY <1>1, <2>1, <2>2 DEF TypeOK, lot
<1> QED
  BY <1>2, <1>3, <1>4 DEF Moderation

\* Every step of the lot keeps the types, whatever the winner on record.
LEMMA StepKeepsTypes == TypeOK /\ [Next]_vars => TypeOK'
<1> SUFFICES ASSUME TypeOK, [Next]_vars PROVE TypeOK'
  OBVIOUS
<1>1. CASE UNCHANGED vars \/ Tick \/ bot_restarts \/ watcher_scan
  <2>1. CASE UNCHANGED vars
    BY <2>1 DEF TypeOK, vars, lot
  <2>2. CASE Tick
    BY <2>2 DEF TypeOK, lot, Tick
  <2>3. CASE bot_restarts
    BY <2>3 DEF TypeOK, lot, bot_restarts
  <2>4. CASE watcher_scan
    BY <2>4 DEF TypeOK, lot, watcher_scan
  <2> QED
    BY <1>1, <2>1, <2>2, <2>3, <2>4
<1>2. CASE watcher_finalize
  <2>1. CASE status = "ACTIVE"
    <3>1. finalize_auction_locked("ENDED", TopUser(bids)) /\ "ENDED" \in Statuses
      BY <1>2, <2>1 DEF watcher_finalize, Statuses
    <3>2. LotTypes'
      BY <3>1, ClosingTime, LeaderIsAUser DEF LotTypes, TypeOK
    <3> QED
      BY <1>2, <3>2 DEF watcher_finalize, TypeOK, LotTypes
  <2>2. CASE status # "ACTIVE"
    BY <1>2, <2>2 DEF watcher_finalize, TypeOK, lot
  <2> QED
    BY <2>1, <2>2
<1>3. CASE Publication
  <2>1. CASE Activate
    <3>1. ScheduledEnd(now) \in Nat
      BY RoundingIsATime DEF TypeOK
    <3>2. LotTypes'
      BY <2>1, <3>1 DEF Activate, LotTypes, TypeOK, Statuses
    <3> QED
      BY <1>3, <3>2 DEF Publication, activate_auction_chat_post, activate_auction_inline_post,
         TypeOK, LotTypes
  <2>2. CASE UNCHANGED lot
    BY <1>3, <2>2 DEF Publication, activate_auction_chat_post, activate_auction_inline_post, TypeOK, lot
  <2> QED
    BY <1>3, <2>1, <2>2 DEF Publication, activate_auction_chat_post, activate_auction_inline_post
<1>4. ASSUME NEW h \in Handlers, receive_bid(h)
      PROVE  TypeOK'
  <2>1. PICK u \in Users, b \in BOOLEAN, m \in Multipliers :
          calls' = [calls EXCEPT ![h] = [user |-> u, buyout |-> b, mult |-> m, at |-> now]]
    BY <1>4 DEF receive_bid
  <2>2. [user |-> u, buyout |-> b, mult |-> m, at |-> now] \in Call
    BY DEF Call, TypeOK
  <2>3. calls' \in [Handlers -> Call \cup {NoCall}]
    BY <2>1, <2>2 DEF TypeOK
  <2> QED
    BY <1>4, <2>3 DEF receive_bid, TypeOK, lot
<1>5. ASSUME NEW h \in Handlers, process_bid_action(h)
      PROVE  TypeOK'
  BY <1>5, BidKeepsTypes
<1> QED
  BY <1>1, <1>2, <1>3, <1>4, <1>5, ModerationKeepsTypes DEF Next, Watching, Bidding
-----------------------------------------------------------------------------
(* What holds of the lot under the queue.  A removed bid has a removal on      *)
(* record (two, when a card was opened before another moderator struck the     *)
(* bid), and the calls on their way are counted among the bids to come.        *)

RemovedOnce(log, b) == \A i \in DOMAIN b : b[i].removed => RulingsIn(log, Removal(i)) > 0
Busy == {g \in Handlers : calls[g] # NoCall}
Room == IsFiniteSet(Busy) /\ Len(bids) + Cardinality(Busy) <= MaxBids

LInv == TypeOK /\ FreezeIsOnFile /\ BansAreOnFile /\ RemovedOnce(audit, bids) /\ Room

\* The trail only grows, and no bid is put back.
TrailGrows(log, longer) ==
  \A row : /\ RulingsIn(log, row) \in Nat /\ RulingsIn(longer, row) \in Nat
          /\ RulingsIn(log, row) <= RulingsIn(longer, row)
StaysRemoved(b, c) ==
  DOMAIN b \subseteq DOMAIN c /\ \A i \in DOMAIN b : b[i].removed => c[i].removed
Onward == TrailGrows(audit, audit') /\ StaysRemoved(bids, bids')

\* Appending an entry adds one ruling of its kind and takes none away.
LEMMA TrailGrowsByRow ==
  ASSUME NEW log \in Seq(Audit), NEW row \in Audit
  PROVE  /\ TrailGrows(log, log) /\ TrailGrows(log, Append(log, row))
         /\ RulingsIn(Append(log, row), row) = RulingsIn(log, row) + 1
         /\ Append(log, row) \in Seq(Audit)
<1>1. \A other : /\ RulingsIn(log, other) \in Nat
                 /\ RulingsIn(Append(log, row), other) =
                      RulingsIn(log, other) + (IF other = row THEN 1 ELSE 0)
  BY RulingsAfterRow
<1>2. TrailGrows(log, log)
  BY <1>1 DEF TrailGrows
<1>3. TrailGrows(log, Append(log, row))
  <2> SUFFICES ASSUME NEW other
               PROVE  /\ RulingsIn(log, other) \in Nat /\ RulingsIn(Append(log, row), other) \in Nat
                      /\ RulingsIn(log, other) <= RulingsIn(Append(log, row), other)
    BY DEF TrailGrows
  <2>1. CASE other = row
    BY <1>1, <2>1
  <2>2. CASE other # row
    BY <1>1, <2>2
  <2> QED
    BY <2>1, <2>2
<1> QED
  BY <1>1, <1>2, <1>3

\* A log that grew twice grew.
LEMMA GrowsTwice ==
  ASSUME NEW a, NEW b, NEW c, TrailGrows(a, b), TrailGrows(b, c)
  PROVE  TrailGrows(a, c)
<1> SUFFICES ASSUME NEW row
             PROVE  /\ RulingsIn(a, row) \in Nat /\ RulingsIn(c, row) \in Nat
                    /\ RulingsIn(a, row) <= RulingsIn(c, row)
  BY DEF TrailGrows
<1>1. /\ RulingsIn(a, row) \in Nat /\ RulingsIn(b, row) \in Nat /\ RulingsIn(c, row) \in Nat
      /\ RulingsIn(a, row) <= RulingsIn(b, row) /\ RulingsIn(b, row) <= RulingsIn(c, row)
  BY DEF TrailGrows
<1> QED
  BY <1>1

\* A longer trail goes on accounting for the same removals.
LEMMA LongerTrailAccounts ==
  ASSUME NEW log, NEW longer, TrailGrows(log, longer), NEW b, RemovedOnce(log, b)
  PROVE  RemovedOnce(longer, b)
<1> SUFFICES ASSUME NEW i \in DOMAIN b, b[i].removed
             PROVE  RulingsIn(longer, Removal(i)) > 0
  BY DEF RemovedOnce
<1>1. /\ RulingsIn(log, Removal(i)) \in Nat /\ RulingsIn(longer, Removal(i)) \in Nat
      /\ RulingsIn(log, Removal(i)) <= RulingsIn(longer, Removal(i))
  BY DEF TrailGrows
<1>2. RulingsIn(log, Removal(i)) > 0
  BY DEF RemovedOnce
<1> QED
  BY <1>1, <1>2

\* The row is the removal of every bid that the step strikes, standing or not.
Strikes(row, b, c) ==
  /\ DOMAIN c = DOMAIN b
  /\ \A i \in DOMAIN b :
       /\ b[i].removed => c[i].removed
       /\ c[i].removed => b[i].removed \/ row = Removal(i)

\* A removal with its entry keeps one entry for each removed bid.
LEMMA RecordedStepGoesOn ==
  ASSUME NEW log \in Seq(Audit), NEW row \in Audit, NEW b, NEW c,
         RemovedOnce(log, b), Strikes(row, b, c)
  PROVE  RemovedOnce(Append(log, row), c) /\ StaysRemoved(b, c)
<1>1. /\ TrailGrows(log, Append(log, row))
      /\ RulingsIn(Append(log, row), row) = RulingsIn(log, row) + 1
      /\ RulingsIn(log, row) \in Nat
  BY TrailGrowsByRow DEF TrailGrows
<1>2. RemovedOnce(Append(log, row), b)
  BY <1>1, LongerTrailAccounts
<1>3. RulingsIn(Append(log, row), row) > 0
  BY <1>1
<1>4. RemovedOnce(Append(log, row), c)
  <2> SUFFICES ASSUME NEW i \in DOMAIN c, c[i].removed
               PROVE  RulingsIn(Append(log, row), Removal(i)) > 0
    BY DEF RemovedOnce
  <2>1. i \in DOMAIN b /\ (row # Removal(i) => b[i].removed)
    BY DEF Strikes
  <2> QED
    BY <1>2, <1>3, <2>1 DEF RemovedOnce
<1>5. StaysRemoved(b, c)
  BY DEF StaysRemoved, Strikes
<1> QED
  BY <1>4, <1>5

\* Every step of the lot keeps that, and the log only grows.
LEMMA LotStepGoesOn ==
  ASSUME TypeOK, RemovedOnce(audit, bids), [Next]_vars
  PROVE  RemovedOnce(audit', bids') /\ Onward
<1>1. audit \in Seq(Audit) /\ bids \in Seq(Bid)
  BY DEF TypeOK
<1>2. ASSUME NEW row \in Audit, OnRecord(row)
      PROVE  RemovedOnce(audit', bids') /\ Onward
  <2>1. Strikes(row, bids, bids')
    BY <1>2 DEF OnRecord, Removes, Strikes
  <2> QED
    BY <1>1, <1>2, <2>1, RecordedStepGoesOn, TrailGrowsByRow DEF OnRecord, Onward
<1>3. CASE OffRecord
  <2>1. audit' = audit
    BY <1>3 DEF OffRecord
  <2>2. TrailGrows(audit, audit')
    <3>1. [action |-> "END_AUCTION"] \in Audit
      BY DEF Audit
    <3> QED
      BY <1>1, <2>1, <3>1, TrailGrowsByRow
  <2>3. CASE bids' = bids
    BY <2>1, <2>2, <2>3 DEF Onward, StaysRemoved
  <2>4. ASSUME NEW r \in Bid, ~r.removed, bids' = Append(bids, r)
        PROVE  RemovedOnce(audit', bids') /\ StaysRemoved(bids, bids')
    <3>1. /\ Len(bids) \in Nat /\ DOMAIN bids = 1..Len(bids) /\ DOMAIN bids' = 1..(Len(bids) + 1)
          /\ bids'[Len(bids) + 1] = r /\ \A i \in DOMAIN bids : bids'[i] = bids[i]
      BY <1>1, <2>4
    <3>2. \A i \in DOMAIN bids' : bids'[i].removed => i \in DOMAIN bids /\ bids[i].removed
      BY <2>4, <3>1
    <3>3. StaysRemoved(bids, bids')
      BY <3>1 DEF StaysRemoved
    <3> QED
      BY <2>1, <3>2, <3>3 DEF RemovedOnce
  <2> QED
    BY <1>3, <2>2, <2>3, <2>4 DEF OffRecord, Onward
<1> QED
  BY <1>2, <1>3, CommandsAreOnRecord, OthersAreOffRecord
-----------------------------------------------------------------------------
(* A call on its way holds a place among the bids until it is answered.       *)

\* Only bid calls and a restart change the calls and add bids.
LEMMA QuietStepKeepsRoom ==
  ASSUME TypeOK, [Next]_vars, ~Bidding, ~bot_restarts
  PROVE  calls' = calls /\ Len(bids') = Len(bids)
<1>1. CASE UNCHANGED vars
  BY <1>1 DEF vars
<1>2. CASE Tick \/ Watching
  BY <1>2 DEF Tick, Watching, watcher_scan, watcher_finalize
<1>3. CASE Publication
  BY <1>3 DEF Publication, activate_auction_chat_post, activate_auction_inline_post
<1>4. ASSUME NEW i \in BidIds, remove_bid(i)
      PROVE  calls' = calls /\ Len(bids') = Len(bids)
  <2>1. i \in DOMAIN bids /\ bids \in Seq(Bid) /\ bids' = [bids EXCEPT ![i].removed = TRUE]
    BY <1>4 DEF remove_bid, Live, TypeOK
  <2> QED
    BY <1>4, <2>1, StruckBids DEF remove_bid
<1>5. CASE freeze_auction \/ unfreeze_auction \/ end_auction
  BY <1>5 DEF freeze_auction, unfreeze_auction, end_auction
<1>6. ASSUME NEW u \in Users, ban_user(u) \/ unban_user(u)
      PROVE  calls' = calls /\ Len(bids') = Len(bids)
  BY <1>6 DEF ban_user, unban_user
<1> QED
  BY <1>1, <1>2, <1>3, <1>4, <1>5, <1>6 DEF Next, Moderation

\* Every step of the lot leaves room for the bids under way.
LEMMA StepKeepsRoom == TypeOK /\ Room /\ [Next]_vars => Room'
<1> SUFFICES ASSUME TypeOK, Room, [Next]_vars PROVE Room'
  OBVIOUS
<1>1. /\ bids \in Seq(Bid) /\ Len(bids) \in Nat /\ MaxBids \in Nat
      /\ IsFiniteSet(Busy) /\ Cardinality(Busy) \in Nat
      /\ Len(bids) + Cardinality(Busy) <= MaxBids
  BY AuctionAssumption, FS_CardinalityType DEF TypeOK, Room
<1>2. ASSUME NEW h \in Handlers, receive_bid(h)
      PROVE  Room'
  <2>1. PICK c \in Call : calls' = [calls EXCEPT ![h] = c]
    BY <1>2 DEF receive_bid, Call, TypeOK
  <2>2. /\ calls[h] = NoCall /\ c # NoCall /\ bids' = bids
        /\ Len(bids) + Cardinality(Busy) < MaxBids
    BY <1>2, AuctionAssumption DEF receive_bid, Busy, Call
  <2>3. Busy' = Busy \cup {h} /\ h \notin Busy
    BY <2>1, <2>2 DEF Busy, TypeOK
  <2>4. IsFiniteSet(Busy') /\ Cardinality(Busy') = Cardinality(Busy) + 1
    BY <1>1, <2>3, FS_AddElement
  <2> QED
    BY <1>1, <2>2, <2>4 DEF Room
<1>3. ASSUME NEW h \in Handlers, process_bid_action(h)
      PROVE  Room'
  <2>1. /\ calls[h] # NoCall /\ calls' = [calls EXCEPT ![h] = NoCall]
        /\ bids' = bids \/ \E r \in Bid : bids' = Append(bids, r)
    BY <1>3, BidKeepsTypes DEF process_bid_action
  <2>2. Busy' = Busy \ {h} /\ h \in Busy
    BY <2>1 DEF Busy, TypeOK
  <2>3. IsFiniteSet(Busy') /\ Cardinality(Busy') = Cardinality(Busy) - 1
    BY <1>1, <2>2, FS_RemoveElement
  <2>4. Len(bids') \in Nat /\ Len(bids') <= Len(bids) + 1
    BY <1>1, <2>1
  <2> QED
    BY <1>1, <2>3, <2>4 DEF Room
<1>4. CASE bot_restarts
  <2>1. Busy' = {} /\ bids' = bids
    BY <1>4 DEF bot_restarts, Busy
  <2>2. IsFiniteSet(Busy') /\ Cardinality(Busy') = 0
    BY <2>1, FS_EmptySet
  <2> QED
    BY <1>1, <2>1, <2>2 DEF Room
<1>5. CASE ~Bidding /\ ~bot_restarts
  <2>1. Busy' = Busy /\ Len(bids') = Len(bids)
    BY <1>5, QuietStepKeepsRoom DEF Busy
  <2> QED
    BY <1>1, <2>1 DEF Room
<1> QED
  BY <1>2, <1>3, <1>4, <1>5 DEF Bidding

\* A step of the lot alone keeps all of this, and goes onward.
LEMMA StepKeepsLot == LInv /\ [Next]_vars => LInv' /\ Onward
BY StepKeepsTypes, StepKeepsSanctions, StepKeepsRoom, LotStepGoesOn DEF LInv

\* While there is room, every bid has an identifier.
LEMMA BidsHaveIds ==
  ASSUME NEW b \in Seq(Bid), NEW n \in Nat, Len(b) + n <= MaxBids
  PROVE  DOMAIN b \subseteq BidIds
<1>1. Len(b) \in Nat /\ DOMAIN b = 1..Len(b) /\ MaxBids \in Nat
  BY AuctionAssumption
<1> QED
  BY <1>1 DEF BidIds
-----------------------------------------------------------------------------
(* What the buttons do to the lot.  A ban from a complaint may file two rows,  *)
(* so what a row does is said of any trail, status, blacklist and bids.       *)

Explained(log, s, b, c) ==
  log \in Seq(Audit) /\ FrozenOn(log, s) /\ BannedOn(log, b) /\ RemovedOnce(log, c)

\* An entry with exactly the sanction it tells of keeps the log an explanation.
LEMMA ExplainedAfterRow ==
  ASSUME NEW log, NEW row \in Audit, NEW s, NEW s2, NEW b, NEW b2, NEW c, NEW c2,
         Explained(log, s, b, c),
         Freezes(row, s, s2), Sentences(row, b, b2), Strikes(row, c, c2)
  PROVE  /\ Explained(Append(log, row), s2, b2, c2)
         /\ TrailGrows(log, Append(log, row)) /\ StaysRemoved(c, c2)
         /\ RulingsIn(log, row) \in Nat
         /\ RulingsIn(Append(log, row), row) = RulingsIn(log, row) + 1
<1>1. log \in Seq(Audit) /\ FrozenOn(log, s) /\ BannedOn(log, b) /\ RemovedOnce(log, c)
  BY DEF Explained
<1>2. FrozenOn(Append(log, row), s2) /\ BannedOn(Append(log, row), b2)
  BY <1>1, FreezeAfterRow, BansAfterRow
<1>3. RemovedOnce(Append(log, row), c2) /\ StaysRemoved(c, c2)
  BY <1>1, RecordedStepGoesOn
<1>4. /\ TrailGrows(log, Append(log, row)) /\ Append(log, row) \in Seq(Audit)
      /\ RulingsIn(log, row) \in Nat
      /\ RulingsIn(Append(log, row), row) = RulingsIn(log, row) + 1
  BY <1>1, TrailGrowsByRow DEF TrailGrows
<1> QED
  BY <1>2, <1>3, <1>4 DEF Explained

\* The parts of the invariant about the log, as one relation.
LEMMA LotIsExplained ==
  /\ LInv => Explained(audit, status, banned, bids)
  /\ Explained(audit', status', banned', bids') =>
       FreezeIsOnFile' /\ BansAreOnFile' /\ RemovedOnce(audit', bids')
BY OnFileReads DEF LInv, TypeOK, Explained

\* What else a button has to leave alone.
LEMMA ButtonKeepsRest ==
  ASSUME LInv, LotTypes', bids' \in Seq(Bid), Len(bids') = Len(bids), banned' \subseteq Users,
         UNCHANGED <<posts, now, calls, due>>, Explained(audit', status', banned', bids')
  PROVE  LInv'
<1>1. TypeOK'
  <2>1. audit' \in Seq(Audit)
    BY DEF Explained
  <2> QED
    BY <2>1 DEF LInv, TypeOK, LotTypes
<1>2. Room'
  BY DEF LInv, Room, Busy
<1> QED
  BY <1>1, <1>2, LotIsExplained DEF LInv

\* What a button files is an entry of the log.
LEMMA AuditRows ==
  /\ [action |-> "FREEZE_AUCTION"] \in Audit
  /\ \A u \in Users : [action |-> "BAN_USER", user |-> u] \in Audit
  /\ \A i \in Nat : Removal(i) \in Audit
BY DEF Audit, Removal

\* Filing one entry appends it.
LEMMA OneRowFiled ==
  ASSUME TypeOK, NEW row \in Audit, File(<<row>>)
  PROVE  audit' = Append(audit, row)
BY AppendIsConcat DEF File, TypeOK

\* A freeze on a stale view of an active lot is on record all the same.
LEMMA SeenLotFreezes ==
  ASSUME LInv, NEW view, view.status = "ACTIVE", freeze_seen_lot(view),
         UNCHANGED <<posts, now, calls, due>>
  PROVE  /\ LInv' /\ Onward /\ bids' = bids
         /\ LET row == [action |-> "FREEZE_AUCTION"]
            IN  RulingsIn(audit', row) = RulingsIn(audit, row) + 1
<1> DEFINE row == [action |-> "FREEZE_AUCTION"]
<1>1. row \in Audit /\ row.action = "FREEZE_AUCTION"
  BY AuditRows
<1>2. File(<<row>>) /\ status' = "FROZEN"
      /\ UNCHANGED <<starts_at, ends_at, extensions_used, winner, bids, banned>>
  BY DEF freeze_seen_lot, Flushed
<1> HIDE DEF row
<1>3. audit' = Append(audit, row)
  BY <1>1, <1>2, OneRowFiled DEF LInv
<1>4. row.action \in LotRulings /\ row.action \notin BanRulings /\ \A i : row # Removal(i)
  BY <1>1 DEF LotRulings, BanRulings, Removal
<1>5. Freezes(row, status, status') /\ Sentences(row, banned, banned') /\ Strikes(row, bids, bids')
  BY <1>1, <1>2, <1>4 DEF Freezes, Sentences, Strikes
<1>6. /\ Explained(audit', status', banned', bids') /\ Onward
      /\ RulingsIn(audit', row) = RulingsIn(audit, row) + 1
  BY <1>1, <1>3, <1>5, LotIsExplained, ExplainedAfterRow DEF Onward
<1>7. LotTypes'
  BY <1>2 DEF LInv, TypeOK, LotTypes, Statuses
<1>8. bids' \in Seq(Bid) /\ Len(bids') = Len(bids) /\ banned' \subseteq Users /\ bids' = bids
  BY <1>2 DEF LInv, TypeOK
<1>9. LInv'
  BY <1>6, <1>7, <1>8, ButtonKeepsRest
<1> QED
  BY <1>6, <1>8, <1>9 DEF row

\* Removing a bid by a stale view removes just that bid.
LEMMA SeenBidIsStruck ==
  ASSUME LInv, NEW view, NEW i \in DOMAIN bids, strike_seen_bid(view, i)
  PROVE  /\ LotTypes' /\ bids' \in Seq(Bid) /\ Len(bids') = Len(bids) /\ status' = status
         /\ Strikes(Removal(i), bids, bids') /\ bids'[i].removed
<1>1. /\ bids \in Seq(Bid) /\ bids' = [bids EXCEPT ![i].removed = TRUE]
      /\ UNCHANGED <<status, starts_at, ends_at, extensions_used>>
      /\ winner' \in {TopUser(bids'), winner}
  BY DEF strike_seen_bid, Flushed, LInv, TypeOK
<1>2. /\ bids' \in Seq(Bid) /\ Len(bids') = Len(bids) /\ DOMAIN bids' = DOMAIN bids
      /\ bids'[i].removed /\ TopUser(bids') \in Users \cup {NoUser}
  <2>1. i \in DOMAIN bids /\ bids \in Seq(Bid) /\ bids' = [bids EXCEPT ![i].removed = TRUE]
    BY <1>1
  <2>2. /\ bids' \in Seq(Bid) /\ Len(bids') = Len(bids) /\ DOMAIN bids' = DOMAIN bids
        /\ TopUser(bids') \in Users \cup {NoUser}
    BY <2>1, StruckBids
  <2>3. bids[i] \in Bid /\ bids'[i] = [bids[i] EXCEPT !.removed = TRUE]
    BY <2>1
  <2>4. bids'[i].removed
    BY <2>3 DEF Bid
  <2> QED
    BY <2>2, <2>4
<1>3. LotTypes'
  BY <1>1, <1>2 DEF LInv, TypeOK, LotTypes
<1>4. \A j \in DOMAIN bids : j # i => bids'[j] = bids[j]
  BY <1>1
<1>5. Strikes(Removal(i), bids, bids')
  BY <1>2, <1>4 DEF Strikes
<1> QED
  BY <1>1, <1>2, <1>3, <1>5

\* The button that removes a bid is on record.
LEMMA RemovalIsFiled ==
  ASSUME LInv, NEW view, NEW i \in DOMAIN bids, strike_seen_bid(view, i),
         File(<<Removal(i)>>), UNCHANGED <<posts, banned, now, calls, due>>
  PROVE  LInv' /\ Onward /\ bids'[i].removed
<1> DEFINE row == Removal(i)
<1>1. /\ LotTypes' /\ bids' \in Seq(Bid) /\ Len(bids') = Len(bids) /\ status' = status
      /\ Strikes(row, bids, bids') /\ bids'[i].removed
  BY SeenBidIsStruck
<1>2. row \in Audit /\ row.action = "REMOVE_BID"
  <2>1. i \in Nat
    BY DEF LInv, TypeOK
  <2> QED
    BY <2>1, AuditRows DEF Removal
<1>3. audit' = Append(audit, row)
  BY <1>2, OneRowFiled DEF LInv
<1> HIDE DEF row
<1>4. Freezes(row, status, status') /\ Sentences(row, banned, banned')
  BY <1>1, <1>2 DEF Freezes, Sentences, LotRulings, BanRulings
<1>5. Explained(audit', status', banned', bids') /\ Onward
  BY <1>1, <1>2, <1>3, <1>4, LotIsExplained, ExplainedAfterRow DEF Onward
<1>6. banned' \subseteq Users
  BY DEF LInv, TypeOK
<1>7. LInv'
  BY <1>1, <1>5, <1>6, ButtonKeepsRest
<1> QED
  BY <1>1, <1>5, <1>7

\* The row of a ban, and what it says of the lot.
LEMMA BanSentences ==
  ASSUME NEW u \in Users, NEW s, NEW b, NEW c
  PROVE  LET row == [action |-> "BAN_USER", user |-> u]
         IN  row \in Audit /\ Freezes(row, s, s) /\ Sentences(row, b, b \cup {u}) /\ Strikes(row, c, c)
<1> DEFINE row == [action |-> "BAN_USER", user |-> u]
<1>1. row \in Audit /\ row.action = "BAN_USER" /\ row.user = u
  BY AuditRows
<1> HIDE DEF row
<1>2. row.action \notin LotRulings /\ row.action \in BanRulings
  BY <1>1 DEF LotRulings, BanRulings
<1> QED
  BY <1>1, <1>2 DEF Freezes, Sentences, Strikes, row

\* The button that bans a user is on record.
LEMMA BanIsFiled ==
  ASSUME LInv, NEW u \in Users, banned' = banned \cup {u},
         File(<<[action |-> "BAN_USER", user |-> u]>>),
         UNCHANGED <<lot, posts, bids, now, calls, due>>
  PROVE  /\ LInv' /\ Onward /\ bids' = bids
         /\ LET row == [action |-> "BAN_USER", user |-> u]
            IN  RulingsIn(audit', row) = RulingsIn(audit, row) + 1
<1> DEFINE row == [action |-> "BAN_USER", user |-> u]
<1>1. /\ row \in Audit /\ Freezes(row, status, status)
      /\ Sentences(row, banned, banned \cup {u}) /\ Strikes(row, bids, bids)
  BY BanSentences
<1>2. File(<<row>>)
  OBVIOUS
<1> HIDE DEF row
<1>3. audit' = Append(audit, row)
  BY <1>1, <1>2, OneRowFiled DEF LInv
<1>4. status' = status /\ bids' = bids /\ LotTypes' /\ bids' \in Seq(Bid) /\ banned' \subseteq Users
  BY DEF lot, LInv, TypeOK, LotTypes
<1>5. /\ Explained(audit', status', banned', bids') /\ Onward
      /\ RulingsIn(audit', row) = RulingsIn(audit, row) + 1
  BY <1>1, <1>3, <1>4, LotIsExplained, ExplainedAfterRow DEF Onward
<1>6. LInv'
  BY <1>4, <1>5, ButtonKeepsRest
<1> QED
  BY <1>4, <1>5, <1>6 DEF row

\* The button that does both is on record with both.
LEMMA BanAndRemovalAreFiled ==
  ASSUME LInv, NEW u \in Users, banned' = banned \cup {u},
         NEW view, NEW i \in DOMAIN bids, strike_seen_bid(view, i),
         File(<<[action |-> "BAN_USER", user |-> u], Removal(i)>>),
         UNCHANGED <<posts, now, calls, due>>
  PROVE  /\ LInv' /\ Onward /\ bids'[i].removed
         /\ LET row == [action |-> "BAN_USER", user |-> u]
            IN  RulingsIn(audit', row) > RulingsIn(audit, row)
<1> DEFINE row == [action |-> "BAN_USER", user |-> u]
           strike == Removal(i)
           halfway == Append(audit, row)
<1>1. /\ row \in Audit /\ Freezes(row, status, status)
      /\ Sentences(row, banned, banned \cup {u}) /\ Strikes(row, bids, bids)
  BY BanSentences
<1>2. /\ LotTypes' /\ bids' \in Seq(Bid) /\ Len(bids') = Len(bids) /\ status' = status
      /\ Strikes(strike, bids, bids') /\ bids'[i].removed
  BY SeenBidIsStruck
<1>3. strike \in Audit /\ strike.action = "REMOVE_BID"
  <2>1. i \in Nat
    BY DEF LInv, TypeOK
  <2> QED
    BY <2>1, AuditRows DEF Removal
<1>4. audit' = audit \o <<row, strike>> /\ audit \in Seq(Audit)
  BY DEF File, LInv, TypeOK
<1> HIDE DEF row, strike
<1>5. audit' = Append(halfway, strike)
  <2>1. <<row>> \o <<strike>> = <<row, strike>>
    BY <1>1, <1>3, OneThenOne
  <2>2. audit \o <<row, strike>> = (audit \o <<row>>) \o <<strike>>
    <3>1. <<row>> \in Seq(Audit) /\ <<strike>> \in Seq(Audit)
      BY <1>1, <1>3
    <3>2. (audit \o <<row>>) \o <<strike>> = audit \o (<<row>> \o <<strike>>)
      BY <1>4, <3>1, ConcatAssociative
    <3> QED
      BY <2>1, <3>2
  <2>3. halfway = audit \o <<row>> /\ halfway \in Seq(Audit)
    BY <1>1, <1>4, AppendIsConcat
  <2>4. Append(halfway, strike) = halfway \o <<strike>>
    BY <1>3, <2>3, AppendIsConcat
  <2> QED
    BY <1>4, <2>2, <2>3, <2>4
<1>6. /\ Explained(halfway, status, banned', bids) /\ TrailGrows(audit, halfway)
      /\ RulingsIn(audit, row) \in Nat /\ RulingsIn(halfway, row) = RulingsIn(audit, row) + 1
  BY <1>1, LotIsExplained, ExplainedAfterRow
<1> HIDE DEF halfway
<1>7. Freezes(strike, status, status') /\ Sentences(strike, banned', banned')
  BY <1>2, <1>3 DEF Freezes, Sentences, LotRulings, BanRulings
<1>8. /\ Explained(audit', status', banned', bids') /\ TrailGrows(halfway, audit')
      /\ StaysRemoved(bids, bids')
  BY <1>2, <1>3, <1>5, <1>6, <1>7, ExplainedAfterRow
<1>9. Onward
  BY <1>6, <1>8, GrowsTwice DEF Onward
<1>10. RulingsIn(audit', row) > RulingsIn(audit, row)
  BY <1>6, <1>8 DEF TrailGrows
<1>11. banned' \subseteq Users
  BY DEF LInv, TypeOK
<1>12. LInv'
  BY <1>2, <1>8, <1>11, ButtonKeepsRest
<1> QED
  BY <1>2, <1>9, <1>10, <1>12 DEF row
-----------------------------------------------------------------------------
(* The inductive invariant of the queue.  A card under a lock is an open card, *)
(* so nobody else decides it; what its view shows as removed is removed for    *)
(* good; and the bid a complaint names is one of the lot's.                    *)

CardTypes ==
  /\ complaints \in Seq(Complaint) /\ Len(complaints) <= MaxComplaints
  /\ signals \in Seq(Signal) /\ Len(signals) <= MaxSignals
  /\ reports \in [1..MaxComplaints -> View \cup {NoView}]
  /\ risks \in [1..MaxSignals -> View \cup {NoView}]
CardsNameBids ==
  \A k \in DOMAIN complaints : complaints[k].bid # NoBid => complaints[k].bid \in DOMAIN bids
LockedReportsAreOpen ==
  \A k \in 1..MaxComplaints :
    reports[k] # NoView => k \in DOMAIN complaints /\ complaints[k].status = "OPEN"
LockedRisksAreOpen ==
  \A k \in 1..MaxSignals :
    risks[k] # NoView => k \in DOMAIN signals /\ signals[k].status = "OPEN"
ViewsArePast ==
  \A k \in 1..MaxComplaints :
    reports[k] # NoView /\ reports[k].removed =>
      complaints[k].bid # NoBid /\ bids[complaints[k].bid].removed

QInv ==
  LInv /\ CardTypes /\ CardsNameBids /\ LockedReportsAreOpen /\ LockedRisksAreOpen /\ ViewsArePast
-----------------------------------------------------------------------------
(* A card is decided: what becomes of the cards, and what the sanction did.   *)

Decided(c, d, k, button) ==
  /\ k \in DOMAIN c /\ DOMAIN d = DOMAIN c
  /\ d[k].note = button /\ d[k].user = c[k].user /\ d[k].bid = c[k].bid
  /\ \A j \in DOMAIN c : j # k => d[j] = c[j]

FreezeRow == [action |-> "FREEZE_AUCTION"]
BanRow(u) == [action |-> "BAN_USER", user |-> u]
Sanctioned(button, card) ==
  /\ button = "freeze" => RulingsIn(audit', FreezeRow) > RulingsIn(audit, FreezeRow)
  /\ button \in {"ban", "ban_top"} =>
       RulingsIn(audit', BanRow(card.user)) > RulingsIn(audit, BanRow(card.user))
  /\ button \in {"rm_top", "ban_top"} /\ card.bid # NoBid => bids'[card.bid].removed

Closing(c, k, final, button) == [c EXCEPT ![k].status = final, ![k].note = button]

\* What replacing one card of a queue does.
LEMMA CardReplaced ==
  ASSUME NEW S, NEW c \in Seq(S), NEW k \in DOMAIN c, NEW e \in S, NEW d, d = [c EXCEPT ![k] = e]
  PROVE  /\ d \in Seq(S) /\ Len(d) = Len(c) /\ DOMAIN d = DOMAIN c
         /\ d[k] = e /\ \A j \in DOMAIN c : j # k => d[j] = c[j]
<1>1. k \in 1..Len(c) /\ DOMAIN c = 1..Len(c)
  OBVIOUS
<1> QED
  BY <1>1, ExceptSeq

\* Closing a complaint decides that card and no other.
LEMMA ComplaintIsDecided ==
  ASSUME NEW c \in Seq(Complaint), NEW k \in DOMAIN c, NEW final \in {"DISMISSED", "RESOLVED"},
         NEW button \in ReportButtons, NEW d,
         d = Closing(c, k, final, button)
  PROVE  d \in Seq(Complaint) /\ Len(d) = Len(c) /\ Decided(c, d, k, button)
<1> DEFINE card == c[k]
           status1 == [card EXCEPT !.status = final]
           closed == [status1 EXCEPT !.note = button]
<1>1. k \in 1..Len(c) /\ DOMAIN c = 1..Len(c) /\ Len(c) \in Nat /\ card \in Complaint
  OBVIOUS
<1>2. status1 \in Complaint /\ status1.user = card.user /\ status1.bid = card.bid
  BY <1>1 DEF Complaint
<1>3. /\ closed \in Complaint /\ closed.user = card.user /\ closed.bid = card.bid
      /\ closed.note = button
  BY <1>2 DEF Complaint
<1>4. d = [c EXCEPT ![k] = closed]
  BY DEF Closing
<1> HIDE DEF closed
<1>5. /\ d \in Seq(Complaint) /\ Len(d) = Len(c) /\ DOMAIN d = DOMAIN c
      /\ d[k] = closed /\ \A j \in DOMAIN c : j # k => d[j] = c[j]
  BY <1>3, <1>4, CardReplaced
<1> QED
  BY <1>3, <1>5 DEF Decided

\* Closing a signal decides that card and no other.
LEMMA SignalIsDecided ==
  ASSUME NEW c \in Seq(Signal), NEW k \in DOMAIN c, NEW final \in {"DISMISSED", "CONFIRMED"},
         NEW button \in RiskButtons, NEW d,
         d = Closing(c, k, final, button)
  PROVE  d \in Seq(Signal) /\ Len(d) = Len(c) /\ Decided(c, d, k, button)
<1> DEFINE card == c[k]
           status1 == [card EXCEPT !.status = final]
           closed == [status1 EXCEPT !.note = button]
<1>1. k \in 1..Len(c) /\ DOMAIN c = 1..Len(c) /\ Len(c) \in Nat /\ card \in Signal
  OBVIOUS
<1>2. status1 \in Signal /\ status1.user = card.user /\ status1.bid = card.bid
  BY <1>1 DEF Signal
<1>3. /\ closed \in Signal /\ closed.user = card.user /\ closed.bid = card.bid
      /\ closed.note = button
  BY <1>2 DEF Signal
<1>4. d = [c EXCEPT ![k] = closed]
  BY DEF Closing
<1> HIDE DEF closed
<1>5. /\ d \in Seq(Signal) /\ Len(d) = Len(c) /\ DOMAIN d = DOMAIN c
      /\ d[k] = closed /\ \A j \in DOMAIN c : j # k => d[j] = c[j]
  BY <1>3, <1>4, CardReplaced
<1> QED
  BY <1>3, <1>5 DEF Decided

\* What a button of a complaint leaves behind: the card as it was, or closed
\* with the button's name and with what the button stands for.
LEMMA ReportIsCarriedOut ==
  ASSUME QInv, NEW k \in 1..MaxComplaints, mod_report_action(k)
  PROVE  /\ LInv' /\ Onward
         /\ complaints' \in Seq(Complaint) /\ Len(complaints') = Len(complaints)
         /\ \/ complaints' = complaints
            \/ \E button \in ReportButtons :
                 Decided(complaints, complaints', k, button) /\ Sanctioned(button, complaints[k])
<1> DEFINE view == reports[k]
           card == complaints[k]
<1>1. /\ LInv /\ complaints \in Seq(Complaint) /\ view \in View /\ view # NoView
      /\ k \in DOMAIN complaints /\ card \in Complaint
      /\ card.bid # NoBid => card.bid \in DOMAIN bids
  BY DEF mod_report_action, QInv, CardTypes, LockedReportsAreOpen, CardsNameBids
<1>2. /\ UNCHANGED <<posts, now, calls, due>>
      /\ \/ report_is_turned_down(k, view, card) \/ report_is_dismissed(k, view)
         \/ report_freezes(k, view) \/ report_strikes_bid(k, view, card)
         \/ report_bans(k, view, card)
  BY DEF mod_report_action
<1>3. ASSUME NEW final \in {"DISMISSED", "RESOLVED"}, view.button \in ReportButtons,
             resolve_complaint(k, final)
      PROVE  /\ complaints' \in Seq(Complaint) /\ Len(complaints') = Len(complaints)
             /\ Decided(complaints, complaints', k, view.button)
  <2>1. complaints' = Closing(complaints, k, final, view.button)
    BY <1>3 DEF resolve_complaint, Closing
  <2> QED
    BY <1>1, <1>3, <2>1, ComplaintIsDecided
<1>4. card.user # NoUser => card.user \in Users
  BY <1>1 DEF Complaint
<1> HIDE DEF view, card
<1>5. CASE report_is_turned_down(k, view, card)
  <2>1. UNCHANGED vars /\ complaints' = complaints
    BY <1>2, <1>5 DEF report_is_turned_down, vars
  <2> QED
    BY <1>1, <2>1, StepKeepsLot
<1>6. CASE report_is_dismissed(k, view)
  <2>1. UNCHANGED vars /\ resolve_complaint(k, "DISMISSED") /\ view.button = "dismiss"
    BY <1>2, <1>6 DEF report_is_dismissed, vars
  <2>2. LInv' /\ Onward
    BY <1>1, <2>1, StepKeepsLot
  <2>3. Sanctioned("dismiss", card)
    BY DEF Sanctioned
  <2> QED
    BY <1>3, <2>1, <2>2, <2>3 DEF ReportButtons, card
<1>7. CASE report_freezes(k, view)
  <2>1. /\ freeze_seen_lot(view) /\ view.status = "ACTIVE"
        /\ resolve_complaint(k, "RESOLVED") /\ view.button = "freeze"
    BY <1>7 DEF report_freezes
  <2>2. LInv' /\ Onward /\ RulingsIn(audit', FreezeRow) = RulingsIn(audit, FreezeRow) + 1
    BY <1>1, <1>2, <2>1, SeenLotFreezes DEF FreezeRow
  <2>3. RulingsIn(audit, FreezeRow) \in Nat
    BY <2>2 DEF Onward, TrailGrows
  <2>4. Sanctioned("freeze", card)
    BY <2>2, <2>3 DEF Sanctioned
  <2> QED
    BY <1>3, <2>1, <2>2, <2>4 DEF ReportButtons, card
<1>8. CASE report_strikes_bid(k, view, card)
  <2>1. /\ strike_seen_bid(view, card.bid) /\ File(<<Removal(card.bid)>>)
        /\ card.bid # NoBid /\ UNCHANGED banned
        /\ resolve_complaint(k, "RESOLVED") /\ view.button = "rm_top"
    BY <1>8 DEF report_strikes_bid, Removal
  <2>2. card.bid \in DOMAIN bids
    BY <1>1, <2>1 DEF card
  <2>3. LInv' /\ Onward /\ bids'[card.bid].removed
    BY <1>1, <1>2, <2>1, <2>2, RemovalIsFiled
  <2>4. Sanctioned("rm_top", card)
    BY <2>3 DEF Sanctioned
  <2> QED
    BY <1>3, <2>1, <2>3, <2>4 DEF ReportButtons, card
<1>9. CASE report_bans(k, view, card)
  <2>1. /\ card.user # NoUser /\ banned' = banned \cup {card.user}
        /\ resolve_complaint(k, "RESOLVED") /\ view.button = "ban_top"
    BY <1>9 DEF report_bans
  <2>2. card.user \in Users
    BY <1>4, <2>1 DEF card
  <2>3. CASE card.bid # NoBid /\ ~view.removed
    <3>1. /\ strike_seen_bid(view, card.bid) /\ File(<<BanRow(card.user), Removal(card.bid)>>)
      BY <1>9, <2>3 DEF report_bans, Removal, BanRow
    <3>2. card.bid \in DOMAIN bids
      BY <1>1, <2>3 DEF card
    <3>3. /\ LInv' /\ Onward /\ bids'[card.bid].removed
          /\ RulingsIn(audit', BanRow(card.user)) > RulingsIn(audit, BanRow(card.user))
      BY <1>1, <1>2, <2>1, <2>2, <3>1, <3>2, BanAndRemovalAreFiled DEF BanRow
    <3>4. Sanctioned("ban_top", card)
      BY <3>3 DEF Sanctioned
    <3> QED
      BY <1>3, <2>1, <3>3, <3>4 DEF ReportButtons, card
  <2>4. CASE ~(card.bid # NoBid /\ ~view.removed)
    <3>1. File(<<BanRow(card.user)>>) /\ UNCHANGED <<lot, bids>>
      BY <1>9, <2>4 DEF report_bans, BanRow
    <3>2. /\ LInv' /\ Onward /\ bids' = bids
          /\ RulingsIn(audit', BanRow(card.user)) = RulingsIn(audit, BanRow(card.user)) + 1
      BY <1>1, <1>2, <2>1, <2>2, <3>1, BanIsFiled DEF BanRow
    <3>3. RulingsIn(audit, BanRow(card.user)) \in Nat
      BY <3>2 DEF Onward, TrailGrows
    <3>4. card.bid # NoBid => bids'[card.bid].removed
      <4>1. card.bid # NoBid => view.removed
        BY <2>4
      <4> QED
        BY <1>1, <3>2, <4>1 DEF QInv, ViewsArePast, view, card
    <3>5. Sanctioned("ban_top", card)
      BY <3>2, <3>3, <3>4 DEF Sanctioned
    <3> QED
      BY <1>3, <2>1, <3>2, <3>5 DEF ReportButtons, card
  <2> QED
    BY <2>3, <2>4
<1> QED
  BY <1>2, <1>5, <1>6, <1>7, <1>8, <1>9

\* A button under a signal does what it says before the card is closed.
LEMMA RiskIsCarriedOut ==
  ASSUME QInv, NEW k \in 1..MaxSignals, mod_risk_action(k)
  PROVE  /\ LInv' /\ Onward
         /\ signals' \in Seq(Signal) /\ Len(signals') = Len(signals)
         /\ \/ signals' = signals
            \/ \E button \in RiskButtons :
                 Decided(signals, signals', k, button) /\ Sanctioned(button, signals[k])
<1> DEFINE view == risks[k]
           card == signals[k]
<1>1. /\ LInv /\ signals \in Seq(Signal) /\ view \in View /\ view # NoView
      /\ k \in DOMAIN signals /\ card \in Signal
  BY DEF mod_risk_action, QInv, CardTypes, LockedRisksAreOpen
<1>2. /\ UNCHANGED <<posts, now, calls, due>>
      /\ \/ risk_is_turned_down(view, card) \/ risk_is_ignored(k, view)
         \/ risk_freezes(k, view) \/ risk_bans(k, view, card)
  BY DEF mod_risk_action
<1>3. ASSUME NEW final \in {"DISMISSED", "CONFIRMED"}, view.button \in RiskButtons,
             resolve_fraud_signal(k, final)
      PROVE  /\ signals' \in Seq(Signal) /\ Len(signals') = Len(signals)
             /\ Decided(signals, signals', k, view.button)
  <2>1. signals' = Closing(signals, k, final, view.button)
    BY <1>3 DEF resolve_fraud_signal, Closing
  <2> QED
    BY <1>1, <1>3, <2>1, SignalIsDecided
<1>4. card.user \in Users
  BY <1>1 DEF Signal
<1> HIDE DEF view, card
<1>5. CASE risk_is_turned_down(view, card)
  <2>1. UNCHANGED vars /\ signals' = signals
    BY <1>2, <1>5 DEF risk_is_turned_down, vars
  <2> QED
    BY <1>1, <2>1, StepKeepsLot
<1>6. CASE risk_is_ignored(k, view)
  <2>1. UNCHANGED vars /\ resolve_fraud_signal(k, "DISMISSED") /\ view.button = "ignore"
    BY <1>2, <1>6 DEF risk_is_ignored, vars
  <2>2. LInv' /\ Onward
    BY <1>1, <2>1, StepKeepsLot
  <2>3. Sanctioned("ignore", card)
    BY DEF Sanctioned
  <2> QED
    BY <1>3, <2>1, <2>2, <2>3 DEF RiskButtons, card
<1>7. CASE risk_freezes(k, view)
  <2>1. /\ freeze_seen_lot(view) /\ view.status = "ACTIVE"
        /\ resolve_fraud_signal(k, "CONFIRMED") /\ view.button = "freeze"
    BY <1>7 DEF risk_freezes
  <2>2. LInv' /\ Onward /\ RulingsIn(audit', FreezeRow) = RulingsIn(audit, FreezeRow) + 1
    BY <1>1, <1>2, <2>1, SeenLotFreezes DEF FreezeRow
  <2>3. RulingsIn(audit, FreezeRow) \in Nat
    BY <2>2 DEF Onward, TrailGrows
  <2>4. Sanctioned("freeze", card)
    BY <2>2, <2>3 DEF Sanctioned
  <2> QED
    BY <1>3, <2>1, <2>2, <2>4 DEF RiskButtons, card
<1>8. CASE risk_bans(k, view, card)
  <2>1. /\ banned' = banned \cup {card.user} /\ File(<<BanRow(card.user)>>)
        /\ UNCHANGED <<lot, bids>>
        /\ resolve_fraud_signal(k, "CONFIRMED") /\ view.button = "ban"
    BY <1>8 DEF risk_bans, BanRow
  <2>2. /\ LInv' /\ Onward
        /\ RulingsIn(audit', BanRow(card.user)) = RulingsIn(audit, BanRow(card.user)) + 1
    BY <1>1, <1>2, <1>4, <2>1, BanIsFiled DEF BanRow, card
  <2>3. RulingsIn(audit, BanRow(card.user)) \in Nat
    BY <2>2 DEF Onward, TrailGrows
  <2>4. Sanctioned("ban", card)
    BY <2>2, <2>3 DEF Sanctioned
  <2> QED
    BY <1>3, <2>1, <2>2, <2>4 DEF RiskButtons, card
<1> QED
  BY <1>2, <1>5, <1>6, <1>7, <1>8
-----------------------------------------------------------------------------
(* The queue's invariant is kept, one side of the cards at a time.            *)

ReportsPart ==
  /\ complaints \in Seq(Complaint) /\ Len(complaints) <= MaxComplaints
  /\ reports \in [1..MaxComplaints -> View \cup {NoView}]
  /\ CardsNameBids /\ LockedReportsAreOpen /\ ViewsArePast
RisksPart ==
  /\ signals \in Seq(Signal) /\ Len(signals) <= MaxSignals
  /\ risks \in [1..MaxSignals -> View \cup {NoView}]
  /\ LockedRisksAreOpen

\* The invariant by its parts: the lot, the complaints, the signals.
LEMMA QueueInParts ==
  /\ QInv <=> LInv /\ ReportsPart /\ RisksPart
  /\ QInv' <=> LInv' /\ ReportsPart' /\ RisksPart'
BY DEF QInv, CardTypes, ReportsPart, RisksPart

\* A step of the lot, or one that only gives locks back.
LEMMA ReportsKept ==
  ASSUME ReportsPart, Onward, complaints' = complaints,
         reports' \in [1..MaxComplaints -> View \cup {NoView}],
         \A k \in 1..MaxComplaints : reports'[k] \in {reports[k], NoView}
  PROVE  ReportsPart'
<1>1. StaysRemoved(bids, bids')
  BY DEF Onward
<1>2. CardsNameBids'
  BY <1>1 DEF ReportsPart, CardsNameBids, StaysRemoved
<1>3. LockedReportsAreOpen'
  BY DEF ReportsPart, LockedReportsAreOpen
<1>4. ViewsArePast'
  <2> SUFFICES ASSUME NEW k \in 1..MaxComplaints, reports'[k] # NoView, reports'[k].removed
               PROVE  complaints[k].bid # NoBid /\ bids'[complaints[k].bid].removed
    BY DEF ViewsArePast
  <2>1. reports[k] # NoView /\ reports[k].removed
    OBVIOUS
  <2>2. complaints[k].bid # NoBid /\ bids[complaints[k].bid].removed
    BY <2>1 DEF ReportsPart, ViewsArePast
  <2>3. complaints[k].bid \in DOMAIN bids
    BY <2>1, <2>2 DEF ReportsPart, CardsNameBids, LockedReportsAreOpen
  <2> QED
    BY <1>1, <2>2, <2>3 DEF StaysRemoved
<1> QED
  BY <1>2, <1>3, <1>4 DEF ReportsPart

\* Letting go of the locks of signals keeps their part.
LEMMA RisksKept ==
  ASSUME RisksPart, signals' = signals,
         risks' \in [1..MaxSignals -> View \cup {NoView}],
         \A k \in 1..MaxSignals : risks'[k] \in {risks[k], NoView}
  PROVE  RisksPart'
BY DEF RisksPart, LockedRisksAreOpen

\* A side that the step does not touch.
LEMMA ReportsRest == ReportsPart /\ Onward /\ UNCHANGED <<complaints, reports>> => ReportsPart'
BY ReportsKept DEF ReportsPart

\* A step that leaves the signals alone keeps their part.
LEMMA RisksRest == RisksPart /\ UNCHANGED <<signals, risks>> => RisksPart'
BY RisksKept DEF RisksPart

\* A new complaint has no button on it yet.
LEMMA ComplaintComesIn ==
  ASSUME LInv, ReportsPart, NEW u \in Users, create_complaint(u)
  PROVE  /\ ReportsPart'
         /\ \E card \in Complaint : card.note = "none" /\ complaints' = Append(complaints, card)
<1> DEFINE n == Len(complaints) + 1
<1>1. /\ complaints \in Seq(Complaint) /\ Len(complaints) < MaxComplaints
      /\ bids' = bids /\ reports' = reports /\ MaxComplaints \in Nat
  BY QueueAssumption DEF create_complaint, ReportsPart, vars
<1>2. PICK card : /\ complaints' = Append(complaints, card) /\ card.reporter = u
                  /\ card = [reporter |-> u, bid |-> IF Live(bids) = {} THEN NoBid ELSE Top(bids),
                             user |-> TopUser(bids), status |-> "OPEN", note |-> "none"]
  BY DEF create_complaint
<1>3. card.bid # NoBid => card.bid \in DOMAIN bids
  <2>1. bids \in Seq(Bid)
    BY DEF LInv, TypeOK
  <2>2. Live(bids) # {} => Top(bids) \in Live(bids)
    BY <2>1, SomeBidLeads DEF Top
  <2> QED
    BY <1>2, <2>2 DEF Live
<1>4. card \in Complaint
  <2>1. DOMAIN bids \subseteq BidIds
    <3>1. bids \in Seq(Bid) /\ Cardinality(Busy) \in Nat /\ Len(bids) + Cardinality(Busy) <= MaxBids
      BY FS_CardinalityType DEF LInv, TypeOK, Room
    <3> QED
      BY <3>1, BidsHaveIds
  <2>2. TopUser(bids) \in Users \cup {NoUser}
    BY LeaderIsAUser DEF LInv
  <2> QED
    BY <1>2, <1>3, <2>1, <2>2 DEF Complaint, ReportButtons
<1>5. /\ Len(complaints) \in Nat /\ DOMAIN complaints = 1..Len(complaints)
      /\ complaints' \in Seq(Complaint) /\ Len(complaints') = n /\ DOMAIN complaints' = 1..n
      /\ complaints'[n] = card /\ \A k \in DOMAIN complaints : complaints'[k] = complaints[k]
  BY <1>1, <1>2, <1>4
<1>6. CardsNameBids'
  BY <1>1, <1>3, <1>5 DEF ReportsPart, CardsNameBids
<1>7. LockedReportsAreOpen'
  BY <1>1, <1>5 DEF ReportsPart, LockedReportsAreOpen
<1>8. ViewsArePast'
  BY <1>1, <1>5 DEF ReportsPart, LockedReportsAreOpen, ViewsArePast
<1>9. ReportsPart'
  BY <1>1, <1>5, <1>6, <1>7, <1>8 DEF ReportsPart
<1> QED
  BY <1>2, <1>4, <1>9

\* A button that takes the lock of a complaint keeps the part of complaints.
LEMMA ReportIsLocked ==
  ASSUME LInv, ReportsPart, NEW k \in 1..MaxComplaints, NEW button \in ReportButtons,
         load_complaint_view(k, button)
  PROVE  ReportsPart'
<1> DEFINE seen == Seen(button, complaints[k].bid)
<1>1. /\ k \in DOMAIN complaints /\ complaints[k].status = "OPEN"
      /\ reports' = [reports EXCEPT ![k] = seen]
      /\ complaints' = complaints /\ bids' = bids
  BY DEF load_complaint_view, vars
<1>2. seen \in View /\ (seen.removed => complaints[k].bid # NoBid /\ bids[complaints[k].bid].removed)
  BY DEF Seen, View, LInv, TypeOK
<1> HIDE DEF seen
<1>3. /\ reports' \in [1..MaxComplaints -> View \cup {NoView}]
      /\ reports'[k] = seen
      /\ \A j \in 1..MaxComplaints : j # k => reports'[j] = reports[j]
  BY <1>1, <1>2 DEF ReportsPart
<1>4. LockedReportsAreOpen'
  BY <1>1, <1>3 DEF ReportsPart, LockedReportsAreOpen
<1>5. ViewsArePast'
  BY <1>1, <1>2, <1>3 DEF ReportsPart, ViewsArePast
<1>6. CardsNameBids'
  BY <1>1 DEF ReportsPart, CardsNameBids
<1> QED
  BY <1>1, <1>3, <1>4, <1>5, <1>6 DEF ReportsPart

\* A button that takes the lock of a signal keeps the part of signals.
LEMMA RiskIsLocked ==
  ASSUME LInv, RisksPart, NEW k \in 1..MaxSignals, NEW button \in RiskButtons,
         load_fraud_signal_view(k, button)
  PROVE  RisksPart'
<1> DEFINE seen == Seen(button, signals[k].bid)
<1>1. /\ k \in DOMAIN signals /\ signals[k].status = "OPEN"
      /\ risks' = [risks EXCEPT ![k] = seen] /\ signals' = signals
  BY DEF load_fraud_signal_view
<1>2. seen \in View
  BY DEF Seen, View, LInv, TypeOK
<1> HIDE DEF seen
<1>3. /\ risks' \in [1..MaxSignals -> View \cup {NoView}]
      /\ \A j \in 1..MaxSignals : j # k => risks'[j] = risks[j]
  BY <1>1, <1>2 DEF RisksPart
<1>4. LockedRisksAreOpen'
  BY <1>1, <1>3 DEF RisksPart, LockedRisksAreOpen
<1> QED
  BY <1>1, <1>3, <1>4 DEF RisksPart

\* The lock that is given back is the one of the card that was decided.
LEMMA ReportIsClosed ==
  ASSUME QInv, NEW k \in 1..MaxComplaints, mod_report_action(k)
  PROVE  ReportsPart'
<1>1. /\ ReportsPart /\ Onward
      /\ complaints' \in Seq(Complaint) /\ Len(complaints') = Len(complaints)
      /\ DOMAIN complaints' = DOMAIN complaints
  BY ReportIsCarriedOut, QueueInParts
<1>2. /\ \A j \in DOMAIN complaints : complaints'[j].bid = complaints[j].bid
      /\ \A j \in DOMAIN complaints : j # k => complaints'[j] = complaints[j]
  <2>1. CASE complaints' = complaints
    BY <2>1
  <2>2. ASSUME NEW button, Decided(complaints, complaints', k, button)
        PROVE  /\ \A j \in DOMAIN complaints : complaints'[j].bid = complaints[j].bid
               /\ \A j \in DOMAIN complaints : j # k => complaints'[j] = complaints[j]
    BY <2>2 DEF Decided
  <2> QED
    BY <2>1, <2>2, ReportIsCarriedOut
<1>3. /\ reports' = [reports EXCEPT ![k] = NoView]
      /\ reports' \in [1..MaxComplaints -> View \cup {NoView}]
      /\ reports'[k] = NoView /\ \A j \in 1..MaxComplaints : j # k => reports'[j] = reports[j]
  BY <1>1 DEF mod_report_action, ReportsPart
<1>4. StaysRemoved(bids, bids')
  BY <1>1 DEF Onward
<1>5. CardsNameBids'
  BY <1>1, <1>2, <1>4 DEF ReportsPart, CardsNameBids, StaysRemoved
<1>6. LockedReportsAreOpen'
  BY <1>1, <1>2, <1>3 DEF ReportsPart, LockedReportsAreOpen
<1>7. ViewsArePast'
  <2> SUFFICES ASSUME NEW j \in 1..MaxComplaints, reports'[j] # NoView, reports'[j].removed
               PROVE  complaints'[j].bid # NoBid /\ bids'[complaints'[j].bid].removed
    BY DEF ViewsArePast
  <2>1. j # k /\ reports[j] # NoView /\ reports[j].removed
    BY <1>3
  <2>2. /\ complaints[j].bid # NoBid /\ bids[complaints[j].bid].removed
        /\ j \in DOMAIN complaints
    BY <1>1, <2>1 DEF ReportsPart, ViewsArePast, LockedReportsAreOpen
  <2>3. complaints[j].bid \in DOMAIN bids
    BY <1>1, <2>2 DEF ReportsPart, CardsNameBids
  <2> QED
    BY <1>2, <1>4, <2>2, <2>3 DEF StaysRemoved
<1> QED
  BY <1>1, <1>3, <1>5, <1>6, <1>7 DEF ReportsPart

\* So does the button when it is done.
LEMMA RiskIsClosed ==
  ASSUME QInv, NEW k \in 1..MaxSignals, mod_risk_action(k)
  PROVE  RisksPart'
<1>1. /\ RisksPart
      /\ signals' \in Seq(Signal) /\ Len(signals') = Len(signals)
      /\ DOMAIN signals' = DOMAIN signals
  BY RiskIsCarriedOut, QueueInParts
<1>2. \A j \in DOMAIN signals : j # k => signals'[j] = signals[j]
  BY RiskIsCarriedOut DEF Decided
<1>3. /\ risks' = [risks EXCEPT ![k] = NoView]
      /\ risks' \in [1..MaxSignals -> View \cup {NoView}]
      /\ risks'[k] = NoView /\ \A j \in 1..MaxSignals : j # k => risks'[j] = risks[j]
  BY <1>1 DEF mod_risk_action, RisksPart
<1>4. LockedRisksAreOpen'
  BY <1>1, <1>2, <1>3 DEF RisksPart, LockedRisksAreOpen
<1> QED
  BY <1>1, <1>3, <1>4 DEF RisksPart

\* The bulk form overrules cards, but none under a lock.
LEMMA OverruledCards ==
  ASSUME NEW S, NEW c \in Seq(S), NEW ticked, NEW final,
         \A k \in DOMAIN c : Overruled(c[k], final) \in S, NEW d,
         d = [k \in DOMAIN c |-> IF k \in ticked THEN Overruled(c[k], final) ELSE c[k]]
  PROVE  /\ d \in Seq(S) /\ Len(d) = Len(c) /\ DOMAIN d = DOMAIN c
         /\ \A k \in DOMAIN c : d[k] \in {c[k], Overruled(c[k], final)}
         /\ \A k \in DOMAIN c : k \notin ticked => d[k] = c[k]
<1>1. DOMAIN c = 1..Len(c) /\ Len(c) \in Nat
  OBVIOUS
<1>2. d \in [1..Len(c) -> S]
  BY <1>1
<1> QED
  BY <1>1, <1>2

\* The bulk form keeps the part of complaints.
LEMMA ReportsAreOverruled ==
  ASSUME ReportsPart, NEW ticked, NEW final \in {"RESOLVED", "DISMISSED"},
         bulk_complaints(ticked, final)
  PROVE  ReportsPart'
<1>1. /\ complaints \in Seq(Complaint) /\ bids' = bids /\ reports' = reports
      /\ \A k \in ticked : reports[k] = NoView
  BY DEF bulk_complaints, ReportsPart, vars
<1>2. \A k \in DOMAIN complaints :
        /\ Overruled(complaints[k], final) \in Complaint
        /\ Overruled(complaints[k], final).bid = complaints[k].bid
  <2> SUFFICES ASSUME NEW card \in Complaint
               PROVE  Overruled(card, final) \in Complaint /\ Overruled(card, final).bid = card.bid
    BY <1>1
  <2> QED
    BY DEF Overruled, Complaint
<1>3. /\ complaints' \in Seq(Complaint) /\ Len(complaints') = Len(complaints)
      /\ DOMAIN complaints' = DOMAIN complaints
      /\ \A k \in DOMAIN complaints :
           complaints'[k] \in {complaints[k], Overruled(complaints[k], final)}
      /\ \A k \in DOMAIN complaints : k \notin ticked => complaints'[k] = complaints[k]
  <2>1. complaints' = [k \in DOMAIN complaints |->
                        IF k \in ticked THEN Overruled(complaints[k], final) ELSE complaints[k]]
    BY DEF bulk_complaints
  <2> QED
    BY <1>1, <1>2, <2>1, OverruledCards
<1>4. \A k \in DOMAIN complaints : complaints'[k].bid = complaints[k].bid
  BY <1>2, <1>3
<1>5. CardsNameBids'
  BY <1>1, <1>3, <1>4 DEF ReportsPart, CardsNameBids
<1>6. LockedReportsAreOpen'
  BY <1>1, <1>3 DEF ReportsPart, LockedReportsAreOpen
<1>7. ViewsArePast'
  BY <1>1, <1>3, <1>4 DEF ReportsPart, ViewsArePast, LockedReportsAreOpen
<1> QED
  BY <1>1, <1>3, <1>5, <1>6, <1>7 DEF ReportsPart

\* And the part of signals.
LEMMA RisksAreOverruled ==
  ASSUME RisksPart, NEW ticked, NEW final \in {"CONFIRMED", "DISMISSED"},
         bulk_signals(ticked, final)
  PROVE  RisksPart'
<1>1. /\ signals \in Seq(Signal) /\ risks' = risks
      /\ \A k \in ticked : risks[k] = NoView
  BY DEF bulk_signals, RisksPart
<1>2. \A k \in DOMAIN signals : Overruled(signals[k], final) \in Signal
  <2> SUFFICES ASSUME NEW card \in Signal
               PROVE  Overruled(card, final) \in Signal
    BY <1>1
  <2> QED
    BY DEF Overruled, Signal
<1>3. /\ signals' \in Seq(Signal) /\ Len(signals') = Len(signals)
      /\ DOMAIN signals' = DOMAIN signals
      /\ \A k \in DOMAIN signals : k \notin ticked => signals'[k] = signals[k]
  <2>1. signals' = [k \in DOMAIN signals |->
                     IF k \in ticked THEN Overruled(signals[k], final) ELSE signals[k]]
    BY DEF bulk_signals
  <2> QED
    BY <1>1, <1>2, <2>1, OverruledCards
<1>4. LockedRisksAreOpen'
  BY <1>1, <1>3 DEF RisksPart, LockedRisksAreOpen
<1> QED
  BY <1>1, <1>3, <1>4 DEF RisksPart

\* A signal names the bid that raised it.
LEMMA SignalComesIn ==
  ASSUME LInv, LInv', RisksPart, NEW h \in Handlers, scored_bid_action(h)
  PROVE  /\ RisksPart'
         /\ signals' = signals \/ \E card \in Signal :
              card.note = "none" /\ signals' = Append(signals, card)
<1>1. /\ signals \in Seq(Signal) /\ Len(signals) \in Nat /\ risks' = risks
      /\ evaluate_and_store_bid_fraud_signal(calls[h].user)
  BY DEF scored_bid_action, RisksPart
<1>2. CASE signals' = signals
  BY <1>1, <1>2, RisksRest
<1>3. CASE signals' # signals
  <2>1. PICK card :
          /\ card = [user |-> calls[h].user, bid |-> Len(bids'), at |-> now,
                     status |-> "OPEN", note |-> "none"]
          /\ signals' = Append(signals, card) /\ Len(signals) < MaxSignals
          /\ Len(bids') > Len(bids)
    BY <1>1, <1>3 DEF evaluate_and_store_bid_fraud_signal
  <2>2. Len(bids') \in BidIds
    <3>1. bids \in Seq(Bid) /\ bids' \in Seq(Bid) /\ Len(bids) \in Nat /\ Len(bids') \in Nat
      BY DEF LInv, TypeOK
    <3>2. Cardinality(Busy') \in Nat /\ Len(bids') + Cardinality(Busy') <= MaxBids
      BY FS_CardinalityType DEF LInv, Room
    <3> QED
      BY <2>1, <3>1, <3>2, AuctionAssumption DEF BidIds
  <2>3. calls[h].user \in Users /\ now \in Nat
    BY DEF scored_bid_action, process_bid_action, LInv, TypeOK, Call
  <2>4. card \in Signal /\ card.note = "none"
    BY <2>1, <2>2, <2>3 DEF Signal
  <2>5. /\ signals' \in Seq(Signal) /\ Len(signals') <= MaxSignals
        /\ DOMAIN signals \subseteq DOMAIN signals'
        /\ \A k \in DOMAIN signals : signals'[k] = signals[k]
    BY <1>1, <2>1, <2>4, QueueAssumption
  <2>6. LockedRisksAreOpen'
    BY <1>1, <2>5 DEF RisksPart, LockedRisksAreOpen
  <2> QED
    BY <1>1, <2>1, <2>4, <2>5, <2>6 DEF RisksPart
<1> QED
  BY <1>2, <1>3
-----------------------------------------------------------------------------
(* Every step of the queue: what it keeps, what it leaves decided, and which   *)
(* sanctions it may add.                                                     *)

StandsBy ==
  /\ \A k \in DOMAIN complaints : complaints[k].status # "OPEN" =>
       complaints'[k] \in {complaints[k]} \cup
         {Overruled(complaints[k], final) : final \in {"RESOLVED", "DISMISSED"}}
  /\ \A k \in DOMAIN signals : signals[k].status # "OPEN" =>
       signals'[k] \in {signals[k]} \cup
         {Overruled(signals[k], final) : final \in {"CONFIRMED", "DISMISSED"}}

Sanctions == {"freeze", "ban", "ban_top", "rm_top"}
NoNewSanction(c, d) ==
  \A k \in DOMAIN d : d[k].note \in Sanctions => k \in DOMAIN c /\ d[k] = c[k]
SanctionsMove ==
  \/ NoNewSanction(complaints, complaints') /\ NoNewSanction(signals, signals')
  \/ signals' = signals /\ \E k \in DOMAIN complaints, button \in ReportButtons :
       Decided(complaints, complaints', k, button) /\ Sanctioned(button, complaints[k])
  \/ complaints' = complaints /\ \E k \in DOMAIN signals, button \in RiskButtons :
       Decided(signals, signals', k, button) /\ Sanctioned(button, signals[k])

\* A step that leaves both queues alone decides nothing.
LEMMA CardsRest ==
  ASSUME UNCHANGED <<complaints, signals>>
  PROVE  StandsBy /\ SanctionsMove
BY DEF StandsBy, SanctionsMove, NoNewSanction

\* A card without a sanction comes in.
LEMMA NewCardIsBlank ==
  ASSUME NEW S, NEW c \in Seq(S), NEW card \in S, card.note = "none", NEW d, d = Append(c, card)
  PROVE  NoNewSanction(c, d) /\ \A k \in DOMAIN c : d[k] = c[k]
<1>1. /\ Len(c) \in Nat /\ DOMAIN c = 1..Len(c) /\ DOMAIN d = 1..(Len(c) + 1)
      /\ d[Len(c) + 1] = card /\ \A k \in DOMAIN c : d[k] = c[k]
  OBVIOUS
<1>2. \A k \in DOMAIN d : k \in DOMAIN c \/ k = Len(c) + 1
  BY <1>1
<1> QED
  BY <1>1, <1>2 DEF NoNewSanction, Sanctions

\* A card the bulk form decides is no sanction.
LEMMA OverruledIsNoSanction ==
  ASSUME NEW c, NEW d, NEW final, DOMAIN d = DOMAIN c,
         \A k \in DOMAIN c : Overruled(c[k], final).note = "bulk",
         \A k \in DOMAIN c : d[k] \in {c[k], Overruled(c[k], final)}
  PROVE  NoNewSanction(c, d)
BY DEF NoNewSanction, Sanctions

\* Every step of the queue keeps the invariant, lets the log only grow, and
\* decides a card by its button only.
LEMMA QueueStepMoves == QInv /\ [QueueNext]_queueVars => QInv' /\ Onward /\ StandsBy /\ SanctionsMove
<1> SUFFICES ASSUME QInv, [QueueNext]_queueVars
             PROVE  LInv' /\ ReportsPart' /\ RisksPart' /\ Onward /\ StandsBy /\ SanctionsMove
  BY QueueInParts
<1>1. /\ LInv /\ ReportsPart /\ RisksPart
      /\ complaints \in Seq(Complaint) /\ signals \in Seq(Signal)
  BY QueueInParts DEF ReportsPart, RisksPart
<1>2. CASE UNCHANGED queueVars \/ LotStep
  <2>1. [Next]_vars /\ UNCHANGED queue
    BY <1>2 DEF queueVars, LotStep, Next, Bidding
  <2>2. LInv' /\ Onward
    BY <1>1, <2>1, StepKeepsLot
  <2> QED
    BY <1>1, <2>1, <2>2, ReportsRest, RisksRest, CardsRest DEF queue
<1>3. CASE bot_restarts_with_queue
  <2>1. /\ [Next]_vars /\ UNCHANGED <<complaints, signals>>
        /\ reports' = [k \in 1..MaxComplaints |-> NoView]
        /\ risks' = [k \in 1..MaxSignals |-> NoView]
    BY <1>3 DEF bot_restarts_with_queue, Next
  <2>2. LInv' /\ Onward
    BY <1>1, <2>1, StepKeepsLot
  <2>3. ReportsPart' /\ RisksPart'
    BY <1>1, <2>1, <2>2, ReportsKept, RisksKept
  <2> QED
    BY <2>1, <2>2, <2>3, CardsRest
<1>4. ASSUME NEW u \in Users, create_complaint(u)
      PROVE  LInv' /\ ReportsPart' /\ RisksPart' /\ Onward /\ StandsBy /\ SanctionsMove
  <2>1. [Next]_vars /\ UNCHANGED <<signals, risks>>
    BY <1>4 DEF create_complaint
  <2>2. LInv' /\ Onward
    BY <1>1, <2>1, StepKeepsLot
  <2>3. ReportsPart' /\ RisksPart'
    BY <1>1, <1>4, <2>1, ComplaintComesIn, RisksRest
  <2>4. PICK card \in Complaint : card.note = "none" /\ complaints' = Append(complaints, card)
    BY <1>1, <1>4, ComplaintComesIn
  <2>5. NoNewSanction(complaints, complaints') /\ \A k \in DOMAIN complaints : complaints'[k] = complaints[k]
    BY <1>1, <2>4, NewCardIsBlank
  <2>6. NoNewSanction(signals, signals')
    BY <2>1 DEF NoNewSanction
  <2> QED
    BY <2>1, <2>2, <2>3, <2>5, <2>6 DEF StandsBy, SanctionsMove
<1>5. ASSUME NEW h \in Handlers, scored_bid_action(h)
      PROVE  LInv' /\ ReportsPart' /\ RisksPart' /\ Onward /\ StandsBy /\ SanctionsMove
  <2>1. [Next]_vars /\ UNCHANGED <<complaints, reports>>
    BY <1>5 DEF scored_bid_action, Next, Bidding
  <2>2. LInv' /\ Onward
    BY <1>1, <2>1, StepKeepsLot
  <2>3. ReportsPart' /\ RisksPart'
    BY <1>1, <1>5, <2>1, <2>2, SignalComesIn, ReportsRest
  <2>4. NoNewSanction(signals, signals') /\ \A k \in DOMAIN signals : signals'[k] = signals[k]
    <3>1. CASE signals' = signals
      BY <3>1 DEF NoNewSanction
    <3>2. ASSUME NEW card \in Signal, card.note = "none", signals' = Append(signals, card)
          PROVE  NoNewSanction(signals, signals') /\ \A k \in DOMAIN signals : signals'[k] = signals[k]
      BY <1>1, <3>2, NewCardIsBlank
    <3> QED
      BY <1>1, <1>5, <2>2, <3>1, <3>2, SignalComesIn
  <2>5. NoNewSanction(complaints, complaints')
    BY <2>1 DEF NoNewSanction
  <2> QED
    BY <2>1, <2>2, <2>3, <2>4, <2>5 DEF StandsBy, SanctionsMove
<1>6. ASSUME NEW k \in 1..MaxComplaints, NEW button \in ReportButtons, load_complaint_view(k, button)
      PROVE  LInv' /\ ReportsPart' /\ RisksPart' /\ Onward /\ StandsBy /\ SanctionsMove
  <2>1. [Next]_vars /\ UNCHANGED <<complaints, signals, risks>>
    BY <1>6 DEF load_complaint_view
  <2> QED
    BY <1>1, <1>6, <2>1, StepKeepsLot, ReportIsLocked, RisksRest, CardsRest
<1>7. ASSUME NEW k \in 1..MaxSignals, NEW button \in RiskButtons, load_fraud_signal_view(k, button)
      PROVE  LInv' /\ ReportsPart' /\ RisksPart' /\ Onward /\ StandsBy /\ SanctionsMove
  <2>1. [Next]_vars /\ UNCHANGED <<complaints, signals, reports>>
    BY <1>7 DEF load_fraud_signal_view
  <2> QED
    BY <1>1, <1>7, <2>1, StepKeepsLot, RiskIsLocked, ReportsRest, CardsRest
<1>8. ASSUME NEW k \in 1..MaxComplaints, mod_report_action(k)
      PROVE  LInv' /\ ReportsPart' /\ RisksPart' /\ Onward /\ StandsBy /\ SanctionsMove
  <2>1. UNCHANGED <<signals, risks>> /\ k \in DOMAIN complaints /\ complaints[k].status = "OPEN"
    BY <1>8 DEF mod_report_action, QInv, LockedReportsAreOpen
  <2>2. LInv' /\ Onward /\ ReportsPart' /\ RisksPart'
    BY <1>1, <1>8, <2>1, ReportIsCarriedOut, ReportIsClosed, RisksRest
  <2>3. CASE complaints' = complaints
    BY <2>1, <2>2, <2>3, CardsRest
  <2>4. ASSUME NEW button \in ReportButtons,
               Decided(complaints, complaints', k, button), Sanctioned(button, complaints[k])
        PROVE  StandsBy /\ SanctionsMove
    <3>1. \A j \in DOMAIN complaints : complaints[j].status # "OPEN" => complaints'[j] = complaints[j]
      BY <2>1, <2>4 DEF Decided
    <3>2. SanctionsMove
      BY <2>1, <2>4 DEF SanctionsMove
    <3> QED
      BY <2>1, <3>1, <3>2 DEF StandsBy
  <2> QED
    BY <1>8, <2>2, <2>3, <2>4, ReportIsCarriedOut
<1>9. ASSUME NEW k \in 1..MaxSignals, mod_risk_action(k)
      PROVE  LInv' /\ ReportsPart' /\ RisksPart' /\ Onward /\ StandsBy /\ SanctionsMove
  <2>1. UNCHANGED <<complaints, reports>> /\ k \in DOMAIN signals /\ signals[k].status = "OPEN"
    BY <1>9 DEF mod_risk_action, QInv, LockedRisksAreOpen
  <2>2. LInv' /\ Onward /\ ReportsPart' /\ RisksPart'
    BY <1>1, <1>9, <2>1, RiskIsCarriedOut, RiskIsClosed, ReportsRest
  <2>3. CASE signals' = signals
    BY <2>1, <2>2, <2>3, CardsRest
  <2>4. ASSUME NEW button \in RiskButtons,
               Decided(signals, signals', k, button), Sanctioned(button, signals[k])
        PROVE  StandsBy /\ SanctionsMove
    <3>1. \A j \in DOMAIN signals : signals[j].status # "OPEN" => signals'[j] = signals[j]
      BY <2>1, <2>4 DEF Decided
    <3>2. SanctionsMove
      BY <2>1, <2>4 DEF SanctionsMove
    <3> QED
      BY <2>1, <3>1, <3>2 DEF StandsBy
  <2> QED
    BY <1>9, <2>2, <2>3, <2>4, RiskIsCarriedOut
<1>10. ASSUME NEW ticked, NEW final \in {"RESOLVED", "DISMISSED"}, bulk_complaints(ticked, final)
       PROVE  LInv' /\ ReportsPart' /\ RisksPart' /\ Onward /\ StandsBy /\ SanctionsMove
  <2>1. [Next]_vars /\ UNCHANGED <<signals, reports, risks>>
    BY <1>10 DEF bulk_complaints
  <2>2. LInv' /\ Onward /\ ReportsPart' /\ RisksPart'
    BY <1>1, <1>10, <2>1, StepKeepsLot, ReportsAreOverruled, RisksRest
  <2>3. DOMAIN complaints' = DOMAIN complaints
        /\ \A k \in DOMAIN complaints :
             complaints'[k] \in {complaints[k], Overruled(complaints[k], final)}
    BY <1>10 DEF bulk_complaints
  <2>4. \A k \in DOMAIN complaints : Overruled(complaints[k], final).note = "bulk"
    BY <1>1 DEF Overruled, Complaint
  <2>5. NoNewSanction(complaints, complaints') /\ NoNewSanction(signals, signals')
    BY <2>1, <2>3, <2>4, OverruledIsNoSanction DEF NoNewSanction
  <2>6. StandsBy
    BY <2>1, <2>3 DEF StandsBy
  <2> QED
    BY <2>2, <2>5, <2>6 DEF SanctionsMove
<1>11. ASSUME NEW ticked, NEW final \in {"CONFIRMED", "DISMISSED"}, bulk_signals(ticked, final)
       PROVE  LInv' /\ ReportsPart' /\ RisksPart' /\ Onward /\ StandsBy /\ SanctionsMove
  <2>1. [Next]_vars /\ UNCHANGED <<complaints, reports, risks>>
    BY <1>11 DEF bulk_signals
  <2>2. LInv' /\ Onward /\ ReportsPart' /\ RisksPart'
    BY <1>1, <1>11, <2>1, StepKeepsLot, RisksAreOverruled, ReportsRest
  <2>3. DOMAIN signals' = DOMAIN signals
        /\ \A k \in DOMAIN signals : signals'[k] \in {signals[k], Overruled(signals[k], final)}
    BY <1>11 DEF bulk_signals
  <2>4. \A k \in DOMAIN signals : Overruled(signals[k], final).note = "bulk"
    BY <1>1 DEF Overruled, Signal
  <2>5. NoNewSanction(complaints, complaints') /\ NoNewSanction(signals, signals')
    BY <2>1, <2>3, <2>4, OverruledIsNoSanction DEF NoNewSanction
  <2>6. StandsBy
    BY <2>1, <2>3 DEF StandsBy
  <2> QED
    BY <2>2, <2>5, <2>6 DEF SanctionsMove
<1> QED
  BY <1>2, <1>3, <1>4, <1>5, <1>6, <1>7, <1>8, <1>9, <1>10, <1>11
     DEF QueueNext, QueueStep, action_triage_bulk
-----------------------------------------------------------------------------
(* Counting.  A step closes at most one card with a sanction, and then the row *)
(* of that sanction is filed in the same step; the bulk form only takes notes  *)
(* away.  So the cards closed by a sanction never outnumber its rows.          *)

Marked(cards, buttons, about) ==
  {k \in DOMAIN cards : cards[k].note \in buttons /\ (about # NoUser => cards[k].user = about)}
Count(c, s, buttons, about) ==
  Cardinality(Marked(c, buttons, about)) + Cardinality(Marked(s, buttons, about))

\* The number of closed cards is read off the two queues alone.
LEMMA CountReads ==
  ASSUME NEW buttons, NEW about
  PROVE  /\ Closed(buttons, about) = Count(complaints, signals, buttons, about)
         /\ Closed(buttons, about)' = Count(complaints', signals', buttons, about)
BY DEF Closed, Count, Marked

\* The cards closed by some buttons are finitely many.
LEMMA MarkedIsFinite ==
  ASSUME NEW S, NEW c \in Seq(S), NEW buttons, NEW about
  PROVE  IsFiniteSet(Marked(c, buttons, about)) /\ Cardinality(Marked(c, buttons, about)) \in Nat
<1>1. IsFiniteSet(1..Len(c)) /\ Marked(c, buttons, about) \in SUBSET (1..Len(c))
  BY FS_Interval DEF Marked
<1> QED
  BY <1>1, FS_Subset, FS_CardinalityType

\* Where no card is newly sanctioned, no more cards count as sanctioned.
LEMMA MarkedShrinks ==
  ASSUME NEW S, NEW c \in Seq(S), NEW d \in Seq(S), NoNewSanction(c, d),
         NEW buttons \in SUBSET Sanctions, NEW about
  PROVE  Cardinality(Marked(d, buttons, about)) <= Cardinality(Marked(c, buttons, about))
<1>1. Marked(d, buttons, about) \in SUBSET Marked(c, buttons, about)
  BY DEF Marked, NoNewSanction
<1> QED
  BY <1>1, MarkedIsFinite, FS_Subset

\* One decision adds one card at most, and only its button's.
LEMMA MarkedAfterDecision ==
  ASSUME NEW S, NEW c \in Seq(S), NEW k, NEW button, NEW d \in Seq(S), Decided(c, d, k, button),
         NEW buttons, NEW about
  PROVE  LET before == Cardinality(Marked(c, buttons, about))
             after == Cardinality(Marked(d, buttons, about))
         IN  /\ after <= before + 1
             /\ after <= before \/ (button \in buttons /\ (about # NoUser => c[k].user = about))
<1> DEFINE B == Marked(c, buttons, about)
           A == Marked(d, buttons, about)
<1>1. IsFiniteSet(B) /\ Cardinality(B) \in Nat /\ IsFiniteSet(A) /\ Cardinality(A) \in Nat
  BY MarkedIsFinite
<1>2. A \subseteq B \cup {k}
  BY DEF Marked, Decided
<1>3. A \subseteq B \/ (button \in buttons /\ (about # NoUser => c[k].user = about))
  <2>1. k \in A => button \in buttons /\ (about # NoUser => c[k].user = about)
    BY DEF Marked, Decided
  <2> QED
    BY <1>2, <2>1
<1> HIDE DEF A, B
<1>4. Cardinality(A) <= Cardinality(B) + 1
  <2>1. IsFiniteSet(B \cup {k}) /\ Cardinality(B \cup {k}) <= Cardinality(B) + 1
    <3>1. /\ IsFiniteSet(B \cup {k})
          /\ Cardinality(B \cup {k}) \in {Cardinality(B), Cardinality(B) + 1}
      BY <1>1, FS_AddElement
    <3> DEFINE n == Cardinality(B)
               m == Cardinality(B \cup {k})
    <3>2. n \in Nat /\ m \in {n, n + 1}
      BY <1>1, <3>1
    <3> HIDE DEF n, m
    <3>3. m <= n + 1
      BY <3>2
    <3> QED
      BY <3>1, <3>3 DEF n, m
  <2>2. Cardinality(A) <= Cardinality(B \cup {k}) /\ Cardinality(B \cup {k}) \in Nat
    BY <1>2, <2>1, FS_Subset, FS_CardinalityType
  <2> QED
    BY <1>1, <2>1, <2>2
<1>5. A \subseteq B => Cardinality(A) <= Cardinality(B)
  BY <1>1, FS_Subset
<1> QED
  BY <1>3, <1>4, <1>5 DEF A, B

\* The sanction of a card that counts among the given ones files the row.
Backs(row, buttons, about) ==
  \A card : \A button \in buttons :
    Sanctioned(button, card) /\ (about # NoUser => card.user = about) =>
      RulingsIn(audit', row) > RulingsIn(audit, row)

\* Cards closed by a sanction stay outnumbered by the entries of that sanction.
LEMMA CountStaysBacked ==
  ASSUME QInv, QInv', SanctionsMove, Onward, NEW row,
         NEW buttons \in SUBSET Sanctions, NEW about, Backs(row, buttons, about),
         Count(complaints, signals, buttons, about) <= RulingsIn(audit, row)
  PROVE  Count(complaints', signals', buttons, about) <= RulingsIn(audit', row)
<1> DEFINE p == Cardinality(Marked(complaints, buttons, about))
           q == Cardinality(Marked(signals, buttons, about))
           p2 == Cardinality(Marked(complaints', buttons, about))
           q2 == Cardinality(Marked(signals', buttons, about))
           r == RulingsIn(audit, row)
           r2 == RulingsIn(audit', row)
<1>1. /\ complaints \in Seq(Complaint) /\ complaints' \in Seq(Complaint)
      /\ signals \in Seq(Signal) /\ signals' \in Seq(Signal)
  BY DEF QInv, CardTypes
<1>2. p \in Nat /\ q \in Nat /\ p2 \in Nat /\ q2 \in Nat
  BY <1>1, MarkedIsFinite
<1>3. r \in Nat /\ r2 \in Nat /\ r <= r2
  BY DEF Onward, TrailGrows
<1>4. p + q <= r
  BY DEF Count
<1>5. Count(complaints', signals', buttons, about) = p2 + q2
  BY DEF Count
<1>6. (p2 <= p /\ q2 <= q) \/ (p2 + q2 <= p + q + 1 /\ r2 > r)
  <2>1. CASE NoNewSanction(complaints, complaints') /\ NoNewSanction(signals, signals')
    BY <1>1, <2>1, MarkedShrinks
  <2>2. ASSUME signals' = signals, NEW k \in DOMAIN complaints, NEW button \in ReportButtons,
               Decided(complaints, complaints', k, button), Sanctioned(button, complaints[k])
        PROVE  (p2 <= p /\ q2 <= q) \/ (p2 + q2 <= p + q + 1 /\ r2 > r)
    <3>1. /\ p2 <= p + 1
          /\ p2 <= p \/ (button \in buttons /\ (about # NoUser => complaints[k].user = about))
      BY <1>1, <2>2, MarkedAfterDecision
    <3>2. q2 = q
      BY <2>2
    <3>3. p2 <= p \/ r2 > r
      BY <2>2, <3>1 DEF Backs
    <3> HIDE DEF p, q, p2, q2, r, r2
    <3> QED
      BY <1>2, <3>1, <3>2, <3>3
  <2>3. ASSUME complaints' = complaints, NEW k \in DOMAIN signals, NEW button \in RiskButtons,
               Decided(signals, signals', k, button), Sanctioned(button, signals[k])
        PROVE  (p2 <= p /\ q2 <= q) \/ (p2 + q2 <= p + q + 1 /\ r2 > r)
    <3>1. /\ q2 <= q + 1
          /\ q2 <= q \/ (button \in buttons /\ (about # NoUser => signals[k].user = about))
      BY <1>1, <2>3, MarkedAfterDecision
    <3>2. p2 = p
      BY <2>3
    <3>3. q2 <= q \/ r2 > r
      BY <2>3, <3>1 DEF Backs
    <3> HIDE DEF p, q, p2, q2, r, r2
    <3> QED
      BY <1>2, <3>1, <3>2, <3>3
  <2> QED
    BY <2>1, <2>2, <2>3 DEF SanctionsMove
<1> HIDE DEF p, q, p2, q2, r, r2
<1>7. p2 + q2 <= r2
  BY <1>2, <1>3, <1>4, <1>6
<1> QED
  BY <1>5, <1>7 DEF r2

\* What a sanction files backs the cards that were closed with it.
LEMMA SanctionsAreBacked ==
  /\ {"freeze"} \subseteq Sanctions /\ Backs(FreezeRow, {"freeze"}, NoUser)
  /\ {"ban", "ban_top"} \subseteq Sanctions
  /\ \A u \in Users : Backs(BanRow(u), {"ban", "ban_top"}, u)
<1>1. Backs(FreezeRow, {"freeze"}, NoUser)
  BY DEF Backs, Sanctioned
<1>2. \A u \in Users : Backs(BanRow(u), {"ban", "ban_top"}, u)
  BY AuctionAssumption DEF Backs, Sanctioned
<1> QED
  BY <1>1, <1>2 DEF Sanctions

\* The bid of a card closed by striking it, or by banning its owner, is struck.
StruckAsDecided ==
  \A k \in DOMAIN complaints :
    complaints[k].note \in {"rm_top", "ban_top"} /\ complaints[k].bid # NoBid =>
      bids[complaints[k].bid].removed

CInv ==
  /\ QInv /\ StruckAsDecided
  /\ Count(complaints, signals, {"freeze"}, NoUser) <= RulingsIn(audit, FreezeRow)
  /\ \A u \in Users : Count(complaints, signals, {"ban", "ban_top"}, u) <= RulingsIn(audit, BanRow(u))

\* A bid whose card was closed by its removal stays removed.
LEMMA StepKeepsStruck ==
  ASSUME QInv, StruckAsDecided, Onward, SanctionsMove
  PROVE  StruckAsDecided'
<1> SUFFICES ASSUME NEW k \in DOMAIN complaints',
                    complaints'[k].note \in {"rm_top", "ban_top"}, complaints'[k].bid # NoBid
             PROVE  bids'[complaints'[k].bid].removed
  BY DEF StruckAsDecided
<1>1. ASSUME k \in DOMAIN complaints, complaints'[k] = complaints[k]
      PROVE  bids'[complaints'[k].bid].removed
  <2>1. complaints[k].bid \in DOMAIN bids
    BY <1>1 DEF QInv, CardsNameBids
  <2>2. bids[complaints[k].bid].removed
    BY <1>1 DEF StruckAsDecided
  <2> QED
    BY <1>1, <2>1, <2>2 DEF Onward, StaysRemoved
<1>2. CASE NoNewSanction(complaints, complaints')
  BY <1>1, <1>2 DEF NoNewSanction, Sanctions
<1>3. CASE complaints' = complaints
  BY <1>1, <1>3
<1>4. ASSUME NEW j \in DOMAIN complaints, NEW button \in ReportButtons,
             Decided(complaints, complaints', j, button), Sanctioned(button, complaints[j])
      PROVE  bids'[complaints'[k].bid].removed
  <2>1. CASE k = j
    BY <1>4, <2>1 DEF Decided, Sanctioned
  <2>2. CASE k # j
    BY <1>1, <1>4, <2>2 DEF Decided
  <2> QED
    BY <2>1, <2>2
<1> QED
  BY <1>2, <1>3, <1>4 DEF SanctionsMove

\* Every step of the queue keeps closed cards carried out.
LEMMA StepCarriesOut == CInv /\ [QueueNext]_queueVars => CInv'
<1> SUFFICES ASSUME CInv, [QueueNext]_queueVars PROVE CInv'
  OBVIOUS
<1>1. QInv /\ QInv' /\ Onward /\ SanctionsMove
  BY QueueStepMoves DEF CInv
<1>2. Count(complaints', signals', {"freeze"}, NoUser) <= RulingsIn(audit', FreezeRow)
  BY <1>1, SanctionsAreBacked, CountStaysBacked DEF CInv
<1>3. ASSUME NEW u \in Users
      PROVE  Count(complaints', signals', {"ban", "ban_top"}, u) <= RulingsIn(audit', BanRow(u))
  BY <1>1, SanctionsAreBacked, CountStaysBacked DEF CInv
<1>4. StruckAsDecided'
  BY <1>1, StepKeepsStruck DEF CInv
<1>5. FreezeRow' = FreezeRow /\ \A u \in Users : BanRow(u)' = BanRow(u)
  BY DEF FreezeRow, BanRow
<1> QED
  BY <1>1, <1>2, <1>3, <1>4, <1>5 DEF CInv

\* That is what SanctionsAreCarriedOut says.
LEMMA CarriedOutReads == CInv => SanctionsAreCarriedOut
<1> SUFFICES ASSUME CInv PROVE SanctionsAreCarriedOut
  OBVIOUS
<1>1. Closed({"freeze"}, NoUser) <= Rulings([action |-> "FREEZE_AUCTION"])
  BY CountReads, RulingsReadTrail DEF CInv, FreezeRow
<1>2. \A u \in Users :
        Closed({"ban", "ban_top"}, u) <= Rulings([action |-> "BAN_USER", user |-> u])
  BY CountReads, RulingsReadTrail DEF CInv, BanRow
<1>3. ASSUME NEW k \in DOMAIN complaints,
             complaints[k].note \in {"rm_top", "ban_top"}, complaints[k].bid # NoBid
      PROVE  /\ bids[complaints[k].bid].removed
             /\ Rulings([action |-> "REMOVE_BID", bid |-> complaints[k].bid]) > 0
  <2>1. bids[complaints[k].bid].removed /\ complaints[k].bid \in DOMAIN bids
    BY <1>3 DEF CInv, StruckAsDecided, QInv, CardsNameBids
  <2>2. RulingsIn(audit, Removal(complaints[k].bid)) > 0
    BY <2>1 DEF CInv, QInv, LInv, RemovedOnce
  <2> QED
    BY <2>1, <2>2, RulingsReadTrail DEF Removal
<1> QED
  BY <1>1, <1>2, <1>3 DEF SanctionsAreCarriedOut

\* The empty queue satisfies the invariant.
LEMMA InitialQueue == QueueInit => CInv
<1> SUFFICES ASSUME QueueInit PROVE CInv
  OBVIOUS
<1>1. /\ Init /\ complaints = <<>> /\ signals = <<>>
      /\ reports = [k \in 1..MaxComplaints |-> NoView]
      /\ risks = [k \in 1..MaxSignals |-> NoView]
  BY DEF QueueInit
<1>2. TypeOK /\ FreezeIsOnFile /\ BansAreOnFile
  BY <1>1, InitialInvariant, InitialFile DEF IInv, AInv, AuditExplainsState
<1>3. bids = <<>> /\ DOMAIN bids = {} /\ audit = <<>> /\ audit \in Seq(Audit) /\ Busy = {}
  BY <1>1 DEF Init, Busy
<1>4. Room /\ RemovedOnce(audit, bids)
  BY <1>3, FS_EmptySet, AuctionAssumption DEF Room, RemovedOnce
<1>5. LInv
  BY <1>2, <1>4 DEF LInv
<1>6. ReportsPart /\ RisksPart
  BY <1>1, QueueAssumption DEF ReportsPart, RisksPart, CardsNameBids, LockedReportsAreOpen,
     LockedRisksAreOpen, ViewsArePast
<1>7. QInv
  BY <1>5, <1>6, QueueInParts
<1>8. \A buttons, about : Count(complaints, signals, buttons, about) = 0
  <2>1. \A buttons, about : Marked(<<>>, buttons, about) = {}
    BY DEF Marked
  <2>2. Cardinality({}) = 0
    BY FS_EmptySet
  <2>3. \A buttons, about : Cardinality(Marked(<<>>, buttons, about)) = 0
    BY <2>1, <2>2
  <2> QED
    BY <1>1, <2>3 DEF Count
<1>9. \A row : RulingsIn(audit, row) \in Nat
  <2>1. [action |-> "END_AUCTION"] \in Audit
    BY DEF Audit
  <2> QED
    BY <1>3, <2>1, RulingsAfterRow
<1>10. StruckAsDecided
  BY <1>1 DEF StruckAsDecided
<1> QED
  BY <1>7, <1>8, <1>9, <1>10 DEF CInv

\* Whatever cards, commands and the panel decide at the same time, on rows
\* however old, the moderation log explains the sanctions in force: the
\* lot's freeze and every ban.
THEOREM SanctionsAreExplained == QueueSpec => []SanctionsAreOnFile
<1>1. CInv => SanctionsAreOnFile
  BY DEF CInv, QInv, LInv, CardTypes, SanctionsAreOnFile, QueueTypeOK
<1> QED
  BY <1>1, InitialQueue, StepCarriesOut, PTL DEF QueueSpec

\* A card is decided once: after that only the panel's bulk form writes on it,
\* and leaves its mark.
THEOREM CardsAreDecidedOnce == QueueSpec => DecisionsStand
<1>1. CInv /\ [QueueNext]_queueVars => [StandsBy]_queueVars
  BY QueueStepMoves DEF CInv
<1> QED
  BY <1>1, InitialQueue, StepCarriesOut, PTL DEF QueueSpec, DecisionsStand, StandsBy

\* A card closed with a sanction got it: as many freezes and bans are on
\* record as cards were closed with one, and the bid that was to be struck is
\* struck and its removal on record.
THEOREM ClosedCardsAreCarriedOut == QueueSpec => []SanctionsAreCarriedOut
  BY InitialQueue, StepCarriesOut, CarriedOutReads, PTL DEF QueueSpec
=============================================================================
