------------------------------ MODULE Auction -------------------------------
(***************************************************************************)
(* The life of one lot in the database: publication, bids, buyout,          *)
(* anti-sniper extensions, the expiry watcher and the moderators' commands  *)
(* (src/app/services/auction_service.py, moderation_service.py).            *)
(*                                                                         *)
(* PostgreSQL runs at READ COMMITTED and every writer of the lot's row or   *)
(* of its bids holds the row lock of the lot (SELECT ... FOR UPDATE) up to  *)
(* its commit.  A transaction is therefore one atomic step taken when it    *)
(* gets the lock, preceded by a step of its own for whatever it reads       *)
(* BEFORE the lock: process_bid_action reads the clock, and the watcher     *)
(* selects the expired lots.  The callbacks that carry rows loaded before   *)
(* the lock into the locked section are in module ModerationQueue.          *)
(*                                                                         *)
(* A definition Bug_... is the definition after it with one plausible       *)
(* mistake.  Nothing uses it but the mutation runs that show which property *)
(* notices the mistake.                                                     *)
(***************************************************************************)
EXTENDS Naturals, Sequences, FiniteSets, Functions

CONSTANTS
  Users,               \* everybody who may own the lot or bid on it
  Seller,              \* the owner of the lot
  Handlers,            \* bot workers that can be inside process_bid_action
  Posts,               \* Telegram messages that can show the lot
  StartPrice, MinStep, \* asking price and bid step
  BuyoutPrice,         \* buyout price, or NoPrice
  Multipliers,         \* the x1 / x3 / x5 buttons
  Hour, Duration,      \* the clock's ticks in an hour; the lot's duration
  AntiSniper,          \* whether the lot has the anti-sniper option
  Window, Extend,      \* last minutes that extend the lot, and by how much
  MaxExtensions,       \* extensions a lot may get
  NoUser, NoPrice, NoTime, NoCall, \* the code's None
  MaxTime, MaxBids, MaxAudit       \* bounds of the model, not of the code

ASSUME AuctionAssumption ==
  /\ Seller \in Users /\ NoUser \notin Users
  /\ StartPrice \in Nat \ {0} /\ MinStep \in Nat \ {0}
  /\ NoPrice \notin Nat
  /\ BuyoutPrice \in Nat \cup {NoPrice}
  /\ BuyoutPrice # NoPrice => BuyoutPrice >= StartPrice
  /\ Multipliers \subseteq Nat \ {0} /\ 1 \in Multipliers
  /\ Hour \in Nat \ {0} /\ Duration \in Nat \ {0}
  /\ AntiSniper \in BOOLEAN
  /\ Window \in Nat /\ Extend \in Nat \ {0} /\ MaxExtensions \in Nat
  /\ NoTime \notin Nat
  /\ NoCall \notin [user : Users, buyout : BOOLEAN, mult : Multipliers, at : Nat]
  /\ MaxTime \in Nat /\ MaxBids \in Nat /\ MaxAudit \in Nat

VARIABLES
  \* the row of table auctions
  status, starts_at, ends_at, extensions_used, winner,
  posts,    \* the lot's rows of auction_posts
  bids,     \* the lot's rows of bids, in order of insertion
  banned,   \* users with an active blacklist entry
  audit,    \* the lot's rows of moderation_logs
  now,      \* the wall clock
  calls,    \* the bid call each worker is in, its clock already read
  due       \* the watcher's scan selected the lot, its lock not yet taken

lot == <<status, starts_at, ends_at, extensions_used, winner>>
vars == <<lot, posts, bids, banned, audit, now, calls, due>>

Statuses == {"DRAFT", "ACTIVE", "FROZEN", "ENDED", "BOUGHT_OUT"}
Finished == {"ENDED", "BOUGHT_OUT"}
Bid == [user : Users, amount : Nat, removed : BOOLEAN]
Call == [user : Users, buyout : BOOLEAN, mult : Multipliers, at : Nat]
BidIds == 1..MaxBids
Audit ==
  [action : {"FREEZE_AUCTION", "UNFREEZE_AUCTION", "END_AUCTION"}]
    \cup [action : {"BAN_USER", "UNBAN_USER"}, user : Users]
    \cup [action : {"REMOVE_BID"}, bid : Nat]
-----------------------------------------------------------------------------
(* Reading the bids: live rows by amount, highest first, then oldest first. *)

Live(b) == {i \in DOMAIN b : ~b[i].removed}
Beats(b, i, j) == b[i].amount > b[j].amount \/ (b[i].amount = b[j].amount /\ i <= j)
Top(b) == CHOOSE i \in Live(b) : \A j \in Live(b) : Beats(b, i, j)
TopUser(b) == IF Live(b) = {} THEN NoUser ELSE b[Top(b)].user
CurrentPrice(b) == IF Live(b) = {} THEN StartPrice ELSE b[Top(b)].amount

ceil_to_next_hour(t) == IF t % Hour = 0 THEN t ELSE (t - (t % Hour)) + Hour
ScheduledEnd(t) == ceil_to_next_hour(t + Duration)

Init ==
  /\ status = "DRAFT" /\ starts_at = NoTime /\ ends_at = NoTime
  /\ extensions_used = 0 /\ winner = NoUser
  /\ posts = {} /\ bids = <<>> /\ banned = {} /\ audit = <<>>
  /\ now = 0
  /\ calls = [h \in Handlers |-> NoCall]
  /\ due = FALSE

Tick ==
  /\ now < MaxTime
  /\ now' = now + 1
  /\ UNCHANGED <<lot, posts, bids, banned, audit, calls, due>>
-----------------------------------------------------------------------------
(* Publication.                                                            *)

\* The part both ways of publishing share: a draft starts to run.  The first
\* conjunct is a bound: the model's clock must be able to reach the lot's end.
Activate ==
  /\ ScheduledEnd(now) + MaxExtensions * Extend <= MaxTime
  /\ status' = "ACTIVE"
  /\ starts_at' = now
  /\ ends_at' = ScheduledEnd(now)
  /\ UNCHANGED <<extensions_used, winner>>

activate_auction_chat_post(p) ==
  /\ status = "DRAFT"
  /\ Activate
  /\ posts' = posts \cup {p}
  /\ UNCHANGED <<bids, banned, audit, now, calls, due>>

\* An inline post is recorded whatever the status: the lot may be shared
\* again while it runs or after it closed.
activate_auction_inline_post(p) ==
  /\ IF status = "DRAFT" THEN Activate ELSE UNCHANGED lot
  /\ posts' = posts \cup {p}
  /\ UNCHANGED <<bids, banned, audit, now, calls, due>>
-----------------------------------------------------------------------------
(* Bids.                                                                   *)

\* The call reaches process_bid_action, which reads the clock before it
\* asks for the row lock.
receive_bid(h) ==
  /\ calls[h] = NoCall
  /\ Len(bids) + Cardinality({g \in Handlers : calls[g] # NoCall}) < MaxBids
  /\ \E u \in Users, b \in BOOLEAN, m \in Multipliers :
       /\ b => m = 1
       /\ calls' = [calls EXCEPT ![h] =
                      [user |-> u, buyout |-> b, mult |-> m, at |-> now]]
  /\ UNCHANGED <<lot, posts, bids, banned, audit, now, due>>

\* What _finalize_auction_locked does to a running or frozen lot.
finalize_auction_locked(final, who) ==
  /\ status' = final
  /\ winner' = who
  /\ ends_at' = IF ends_at = NoTime \/ ends_at > now THEN now ELSE ends_at
  /\ UNCHANGED <<starts_at, extensions_used>>

Expired(at) == ends_at # NoTime /\ at >= ends_at

\* Bug: the leader may outbid themself.
Bug_Refused(c) ==
  \/ c.user = Seller
  \/ c.user \in banned
  \/ c.buyout /\ BuyoutPrice = NoPrice

\* The early returns that refuse a call on a lot that is still running.
Refused(c) ==
  \/ c.user = Seller
  \/ c.user \in banned
  \/ c.user = TopUser(bids)
  \/ c.buyout /\ BuyoutPrice = NoPrice

\* The amount a call stands for: the buyout price for the buyout button and
\* for a raise that would reach it.
Raised(c) == CurrentPrice(bids) + MinStep * c.mult
\* Bug: only a raise beyond the buyout price becomes a buyout.
Bug_BuysOut(c) == c.buyout \/ (BuyoutPrice # NoPrice /\ Raised(c) > BuyoutPrice)
BuysOut(c) == c.buyout \/ (BuyoutPrice # NoPrice /\ Raised(c) >= BuyoutPrice)
Amount(c) == IF BuysOut(c) THEN BuyoutPrice ELSE Raised(c)
RowOf(c) == [user |-> c.user, amount |-> Amount(c), removed |-> FALSE]

\* A bid by the same user for the same amount is refused for a while.
Duplicate(c) ==
  \E i \in Live(bids) : bids[i].user = c.user /\ bids[i].amount = Amount(c)

\* Bug: the number of extensions is not limited.
Bug_Extends(at) == AntiSniper /\ ends_at # NoTime /\ ends_at <= at + Window

\* An accepted bid late in the lot's life pushes the end out.
Extends(at) ==
  /\ AntiSniper
  /\ ends_at # NoTime
  /\ extensions_used < MaxExtensions
  /\ ends_at <= at + Window

\* Bug: the extension counts from the bid, not from the end.
Bug_extend_end(at) ==
  /\ IF Extends(at)
       THEN /\ ends_at' = at + Extend
            /\ extensions_used' = extensions_used + 1
       ELSE UNCHANGED <<ends_at, extensions_used>>
  /\ UNCHANGED <<status, starts_at, winner>>

extend_end(at) ==
  /\ IF Extends(at)
       THEN /\ ends_at' = ends_at + Extend
            /\ extensions_used' = extensions_used + 1
       ELSE UNCHANGED <<ends_at, extensions_used>>
  /\ UNCHANGED <<status, starts_at, winner>>

bid_is_turned_down(c) ==
  /\ \/ status # "ACTIVE"
     \/ ~Expired(c.at) /\ (Refused(c) \/ Duplicate(c))
  /\ UNCHANGED <<lot, bids>>

\* A call that finds the lot expired closes it instead of the watcher.
bid_finds_lot_expired(c) ==
  /\ status = "ACTIVE" /\ Expired(c.at)
  /\ finalize_auction_locked("ENDED", TopUser(bids))
  /\ UNCHANGED bids

bid_is_placed(c) ==
  /\ status = "ACTIVE" /\ ~Expired(c.at) /\ ~Refused(c) /\ ~Duplicate(c)
  /\ bids' = Append(bids, RowOf(c))
  /\ IF BuysOut(c)
       THEN finalize_auction_locked("BOUGHT_OUT", c.user)
       ELSE extend_end(c.at)

process_bid_action(h) ==
  /\ calls[h] # NoCall
  /\ calls' = [calls EXCEPT ![h] = NoCall]
  /\ \/ bid_is_turned_down(calls[h])
     \/ bid_finds_lot_expired(calls[h])
     \/ bid_is_placed(calls[h])
  /\ UNCHANGED <<posts, banned, audit, now, due>>
-----------------------------------------------------------------------------
(* The expiry watcher (finalize_expired_auctions).                         *)

\* Bug: the scan joins the bids, and misses the lots without any.
Bug_watcher_scan ==
  /\ ~due
  /\ status = "ACTIVE" /\ Expired(now) /\ bids # <<>>
  /\ due' = TRUE
  /\ UNCHANGED <<lot, posts, bids, banned, audit, now, calls>>

watcher_scan ==
  /\ ~due
  /\ status = "ACTIVE" /\ Expired(now)
  /\ due' = TRUE
  /\ UNCHANGED <<lot, posts, bids, banned, audit, now, calls>>

\* Bug: the status is not looked at again under the lock.
Bug_watcher_finalize ==
  /\ due
  /\ due' = FALSE
  /\ finalize_auction_locked("ENDED", TopUser(bids))
  /\ UNCHANGED <<posts, bids, banned, audit, now, calls>>

\* Under the lock only the status is looked at again.
watcher_finalize ==
  /\ due
  /\ due' = FALSE
  /\ IF status = "ACTIVE"
       THEN finalize_auction_locked("ENDED", TopUser(bids))
       ELSE UNCHANGED lot
  /\ UNCHANGED <<posts, bids, banned, audit, now, calls>>

\* The bot dies: open transactions are rolled back, the selected ids are gone.
bot_restarts ==
  /\ calls' = [h \in Handlers |-> NoCall]
  /\ due' = FALSE
  /\ UNCHANGED <<lot, posts, bids, banned, audit, now>>
-----------------------------------------------------------------------------
(* The moderators' commands and the admin panel's actions.                 *)

_log_action(row) == Len(audit) < MaxAudit /\ audit' = Append(audit, row)

freeze_auction ==
  /\ status = "ACTIVE"
  /\ status' = "FROZEN"
  /\ _log_action([action |-> "FREEZE_AUCTION"])
  /\ UNCHANGED <<starts_at, ends_at, extensions_used, winner>>
  /\ UNCHANGED <<posts, bids, banned, now, calls, due>>

unfreeze_auction ==
  /\ status = "FROZEN"
  /\ status' = "ACTIVE"
  /\ _log_action([action |-> "UNFREEZE_AUCTION"])
  /\ UNCHANGED <<starts_at, ends_at, extensions_used, winner>>
  /\ UNCHANGED <<posts, bids, banned, now, calls, due>>

end_auction ==
  /\ status \in {"ACTIVE", "FROZEN"}
  /\ status' = "ENDED"
  /\ winner' = TopUser(bids)
  /\ ends_at' = now
  /\ _log_action([action |-> "END_AUCTION"])
  /\ UNCHANGED <<starts_at, extensions_used>>
  /\ UNCHANGED <<posts, bids, banned, now, calls, due>>

\* Bug: the win passes on only when the timer or a moderator closed the lot.
Bug_remove_bid_bought(i) ==
  /\ i \in Live(bids)
  /\ bids' = [bids EXCEPT ![i].removed = TRUE]
  /\ winner' = IF status = "ENDED" THEN TopUser(bids') ELSE winner
  /\ _log_action([action |-> "REMOVE_BID", bid |-> i])
  /\ UNCHANGED <<status, starts_at, ends_at, extensions_used>>
  /\ UNCHANGED <<posts, banned, now, calls, due>>

\* Bug: a bid can be removed twice.
Bug_remove_bid_twice(i) ==
  /\ i \in DOMAIN bids
  /\ bids' = [bids EXCEPT ![i].removed = TRUE]
  /\ winner' = IF status \in Finished THEN TopUser(bids') ELSE winner
  /\ _log_action([action |-> "REMOVE_BID", bid |-> i])
  /\ UNCHANGED <<status, starts_at, ends_at, extensions_used>>
  /\ UNCHANGED <<posts, banned, now, calls, due>>

\* A bid struck from a finished lot passes the win on.
remove_bid(i) ==
  /\ i \in Live(bids)
  /\ bids' = [bids EXCEPT ![i].removed = TRUE]
  /\ winner' = IF status \in Finished THEN TopUser(bids') ELSE winner
  /\ _log_action([action |-> "REMOVE_BID", bid |-> i])
  /\ UNCHANGED <<status, starts_at, ends_at, extensions_used>>
  /\ UNCHANGED <<posts, banned, now, calls, due>>

ban_user(u) ==
  /\ u \notin banned
  /\ banned' = banned \cup {u}
  /\ _log_action([action |-> "BAN_USER", user |-> u])
  /\ UNCHANGED <<lot, posts, bids, now, calls, due>>

unban_user(u) ==
  /\ u \in banned
  /\ banned' = banned \ {u}
  /\ _log_action([action |-> "UNBAN_USER", user |-> u])
  /\ UNCHANGED <<lot, posts, bids, now, calls, due>>
-----------------------------------------------------------------------------
Publication ==
  \E p \in Posts : activate_auction_chat_post(p) \/ activate_auction_inline_post(p)
Bidding == \E h \in Handlers : receive_bid(h) \/ process_bid_action(h)
Watching == watcher_scan \/ watcher_finalize
Moderation ==
  \/ freeze_auction \/ unfreeze_auction \/ end_auction
  \/ \E i \in BidIds : remove_bid(i)
  \/ \E u \in Users : ban_user(u) \/ unban_user(u)

Next == Tick \/ Publication \/ Bidding \/ Watching \/ bot_restarts \/ Moderation

Spec == Init /\ [][Next]_vars

\* The clock runs, and the watcher's loop never stops: it sleeps between two
\* scans, swallows exceptions, and is started again with the bot.  A pass
\* may be cut short by a restart, but not every time.
Fairness == WF_vars(Tick) /\ WF_vars(watcher_scan) /\ SF_vars(watcher_finalize)
-----------------------------------------------------------------------------
(* Properties.                                                             *)

\* Every variable keeps the type its column or its Python value has.
TypeOK ==
  /\ status \in Statuses
  /\ starts_at \in Nat \cup {NoTime} /\ ends_at \in Nat \cup {NoTime}
  /\ extensions_used \in 0..MaxExtensions
  /\ winner \in Users \cup {NoUser}
  /\ posts \subseteq Posts /\ bids \in Seq(Bid) /\ banned \subseteq Users
  /\ audit \in Seq(Audit)
  /\ now \in Nat
  /\ calls \in [Handlers -> Call \cup {NoCall}]
  /\ due \in BOOLEAN

\* A finished lot was won by the owner of its highest bid that was never
\* removed, however the lot was closed (timer, late bid, buyout, moderator)
\* and whatever was removed before or after; a lot that is not finished has
\* no winner.
HighestLiveBidderWins ==
  winner = IF status \in Finished THEN TopUser(bids) ELSE NoUser

\* Standing bids rise strictly in the order they were placed, and a running
\* or frozen lot holds no standing bid at its buyout price: what makes the
\* leader unique, the tie-break on created_at idle and the duplicate check of
\* process_bid_action redundant.
Climbs(b) == \A i, j \in Live(b) : i < j => b[i].amount < b[j].amount
BidsClimbBelowBuyout ==
  /\ Climbs(bids)
  /\ status \notin Finished /\ BuyoutPrice # NoPrice =>
       \A i \in Live(bids) : bids[i].amount < BuyoutPrice

\* A published lot was charged no more extensions than it has; as long as it runs
\* or is frozen, its end is the hour it was published for plus exactly the
\* extensions it was charged for, whichever bids waited for the lock.  A closed lot
\* has an end that is not in the future, and not later than it was while the lot
\* ran, unless a moderator ended it: that one is dated when it was done.
EndIsAccountedFor ==
  status # "DRAFT" =>
    LET accounted == ScheduledEnd(starts_at) + extensions_used * Extend
        ended_by_moderator == [action |-> "END_AUCTION"] \in Range(audit)
    IN /\ extensions_used <= MaxExtensions
       /\ status \notin Finished => ends_at = accounted
       /\ status \in Finished =>
            ends_at <= now /\ (ends_at <= accounted \/ ended_by_moderator)

\* What the audit trail last says: of the lot, or of a user.
Last(actions, about) ==
  LET idx == {k \in DOMAIN audit : audit[k].action \in actions
                 /\ (actions = {"BAN_USER", "UNBAN_USER"} => audit[k].user = about)}
  IN IF idx = {} THEN "nothing"
     ELSE audit[CHOOSE k \in idx : \A l \in idx : l <= k].action

LotRulings == {"FREEZE_AUCTION", "UNFREEZE_AUCTION", "END_AUCTION"}
Rulings(row) == Cardinality({k \in DOMAIN audit : audit[k] = row})

\* The audit trail explains the freezes: the lot is frozen exactly when the
\* last freeze, unfreeze or end on record is a freeze.
FreezeIsOnFile == status = "FROZEN" <=> Last(LotRulings, NoUser) = "FREEZE_AUCTION"

\* It explains the bans: a user is banned exactly when the last entry about
\* them is a ban.
BansAreOnFile ==
  \A u \in Users : u \in banned <=> Last({"BAN_USER", "UNBAN_USER"}, u) = "BAN_USER"

\* And the removals: each removed bid has exactly one entry, no other has any.
RemovalsAreOnFile ==
  \A i \in DOMAIN bids :
    Rulings([action |-> "REMOVE_BID", bid |-> i]) = IF bids[i].removed THEN 1 ELSE 0

\* A moderator, or the appeal of a sanctioned user, can rely on the audit
\* trail: it explains the lot's freeze, every ban and every removal.
AuditExplainsState == FreezeIsOnFile /\ BansAreOnFile /\ RemovalsAreOnFile

\* The hammer falls once: a finished lot never changes status again, takes no
\* further bid, and keeps its end, although bids and expiry passes that
\* started before the close are still waiting for its lock.
ClosedIsFinal ==
  [][(status \in Finished) =>
       status' = status /\ ends_at' = ends_at /\ Len(bids') = Len(bids)]_vars

\* The timer closes a lot only once its end has passed (README.md:18: an
\* anti-sniper bid buys the lot 3 more minutes).
TimerRespectsEnd ==
  [][due /\ ~due' /\ status = "ACTIVE" /\ status' = "ENDED" => ends_at <= now]_vars

\* A running lot does not run forever: the timer, a bid or a moderator closes
\* it, unless a moderator freezes it first.
RunningLotCloses == status = "ACTIVE" ~> status \in Finished \cup {"FROZEN"}
-----------------------------------------------------------------------------
(* The lot implements the abstract auction.                                *)

Phase ==
  CASE status = "DRAFT" -> "unlisted"
    [] status = "ACTIVE" -> "open"
    [] status = "FROZEN" -> "held"
    [] OTHER -> "closed"
Book == {[user |-> bids[i].user, amount |-> bids[i].amount] : i \in Live(bids)}

Abstract == INSTANCE EnglishAuction WITH phase <- Phase, book <- Book, award <- winner

\* Every step of the lot is a step of an English auction or changes nothing
\* of it.
ImplementsEnglishAuction == Abstract!Spec
=============================================================================
