-------------------------- MODULE ModerationQueue ---------------------------
(***************************************************************************)
(* The moderators' queue over one lot: complaints of users, fraud signals   *)
(* raised by bids, and the buttons under their cards                        *)
(* (src/app/bot/handlers/moderation.py, modrep: and modrisk:).              *)
(*                                                                         *)
(* A button's transaction locks its card, and in the same breath loads the  *)
(* lot and the bid WITHOUT a lock into the session's identity map.  When    *)
(* freeze_auction and remove_bid then lock those rows, the session hands    *)
(* them the objects it already has: their checks see the lot and the bid of *)
(* the moment the card was opened, and an assignment that leaves a loaded   *)
(* value as it was writes nothing.  The blacklist row was not loaded        *)
(* before, so ban_user sees it as it is.                                    *)
(* Definitions Bug_... are for mutation runs only, as in module Auction.    *)
(***************************************************************************)
EXTENDS Auction

CONSTANTS
  SignalWindow,               \* while a signal is this young, no second one
  NoView, NoBid,              \* the code's None
  MaxComplaints, MaxSignals   \* bounds of the model, not of the code

ASSUME QueueAssumption ==
  /\ SignalWindow \in Nat
  /\ NoBid \notin Nat
  /\ MaxComplaints \in Nat /\ MaxSignals \in Nat

VARIABLES
  complaints, signals,  \* the lot's rows of complaints and fraud_signals
  reports, risks        \* the button transaction holding each card's lock

queue == <<complaints, signals, reports, risks>>
queueVars == <<vars, queue>>

ReportButtons == {"dismiss", "freeze", "rm_top", "ban_top"}
RiskButtons == {"ignore", "freeze", "ban"}

\* note is the button that closed the card, or "bulk": the code writes it in words.
Complaint ==
  [reporter : Users, bid : BidIds \cup {NoBid}, user : Users \cup {NoUser},
   status : {"OPEN", "DISMISSED", "RESOLVED"}, note : ReportButtons \cup {"none", "bulk"}]
Signal ==
  [user : Users, bid : BidIds, at : Nat,
   status : {"OPEN", "DISMISSED", "CONFIRMED"}, note : RiskButtons \cup {"none", "bulk"}]
View ==
  [button : ReportButtons \cup RiskButtons, status : Statuses,
   winner : Users \cup {NoUser}, removed : BOOLEAN]

QueueInit ==
  /\ Init
  /\ complaints = <<>> /\ signals = <<>>
  /\ reports = [k \in 1..MaxComplaints |-> NoView]
  /\ risks = [k \in 1..MaxSignals |-> NoView]
-----------------------------------------------------------------------------
(* Cards come in.                                                          *)

\* A user reports a published lot; the suspect is the leading bid, if any.
create_complaint(u) ==
  /\ Len(complaints) < MaxComplaints
  /\ posts # {}
  /\ ~\E k \in DOMAIN complaints :
        complaints[k].reporter = u /\ complaints[k].status = "OPEN"
  /\ complaints' = Append(complaints,
       [reporter |-> u,
        bid |-> IF Live(bids) = {} THEN NoBid ELSE Top(bids),
        user |-> TopUser(bids), status |-> "OPEN", note |-> "none"])
  /\ UNCHANGED <<vars, signals, reports, risks>>

\* The user has an open signal young enough to stand for a new one.
HasOpenSignal(u) ==
  \E k \in DOMAIN signals :
    /\ signals[k].user = u
    /\ signals[k].status = "OPEN"
    /\ signals[k].at + SignalWindow >= now

\* The transaction of a bid also scores it; what the score says of a bid that
\* was placed is left open.
evaluate_and_store_bid_fraud_signal(u) ==
  \/ UNCHANGED signals
  \/ /\ Len(bids') > Len(bids)
     /\ ~HasOpenSignal(u)
     /\ Len(signals) < MaxSignals
     /\ signals' = Append(signals,
          [user |-> u, bid |-> Len(bids'), at |-> now, status |-> "OPEN", note |-> "none"])

scored_bid_action(h) ==
  /\ process_bid_action(h)
  /\ evaluate_and_store_bid_fraud_signal(calls[h].user)
  /\ UNCHANGED <<complaints, reports, risks>>
-----------------------------------------------------------------------------
(* A button is pressed: the card is locked, then lot and bid are read.     *)

Seen(button, bid) ==
  [button |-> button, status |-> status, winner |-> winner,
   removed |-> bid # NoBid /\ bids[bid].removed]

\* Bug: the card's status is not looked at under its lock.
Bug_load_complaint_view(k, button) ==
  /\ k \in DOMAIN complaints
  /\ reports[k] = NoView
  /\ reports' = [reports EXCEPT ![k] = Seen(button, complaints[k].bid)]
  /\ UNCHANGED <<vars, complaints, signals, risks>>

load_complaint_view(k, button) ==
  /\ k \in DOMAIN complaints /\ complaints[k].status = "OPEN"
  /\ reports[k] = NoView
  /\ reports' = [reports EXCEPT ![k] = Seen(button, complaints[k].bid)]
  /\ UNCHANGED <<vars, complaints, signals, risks>>

load_fraud_signal_view(k, button) ==
  /\ k \in DOMAIN signals /\ signals[k].status = "OPEN"
  /\ risks[k] = NoView
  /\ risks' = [risks EXCEPT ![k] = Seen(button, signals[k].bid)]
  /\ UNCHANGED <<vars, complaints, signals, reports>>
-----------------------------------------------------------------------------
(* What the services do with the objects of the session.                   *)

File(rows) == Len(audit) + Len(rows) <= MaxAudit /\ audit' = audit \o rows

\* An attribute set to the value it was loaded with is not written.
Flushed(loaded, value, stored) == IF value = loaded THEN stored ELSE value

\* Bug: the freeze is not recorded.
Bug_freeze_seen_lot(view) ==
  /\ status' = Flushed(view.status, "FROZEN", status)
  /\ UNCHANGED <<starts_at, ends_at, extensions_used, winner, bids, banned, audit>>

freeze_seen_lot(view) ==
  /\ status' = Flushed(view.status, "FROZEN", status)
  /\ File(<<[action |-> "FREEZE_AUCTION"]>>)
  /\ UNCHANGED <<starts_at, ends_at, extensions_used, winner, bids, banned>>

strike_seen_bid(view, i) ==
  /\ bids' = [bids EXCEPT ![i].removed = TRUE]
  /\ winner' = IF view.status \in Finished
                 THEN Flushed(view.winner, TopUser(bids'), winner)
                 ELSE winner
  /\ UNCHANGED <<status, starts_at, ends_at, extensions_used>>

resolve_complaint(k, final) ==
  complaints' = [complaints EXCEPT ![k].status = final, ![k].note = reports[k].button]

resolve_fraud_signal(k, final) ==
  signals' = [signals EXCEPT ![k].status = final, ![k].note = risks[k].button]
-----------------------------------------------------------------------------
(* The four buttons of a complaint.                                        *)

\* The service refuses, or there is nobody to act on: nothing is written and
\* the card stays open.
report_is_turned_down(k, view, card) ==
  /\ \/ view.button = "freeze" /\ view.status # "ACTIVE"
     \/ view.button = "rm_top" /\ (card.bid = NoBid \/ view.removed)
     \/ view.button = "ban_top" /\ (card.user = NoUser \/ card.user \in banned)
  /\ UNCHANGED <<lot, bids, banned, audit, complaints>>

report_is_dismissed(k, view) ==
  /\ view.button = "dismiss"
  /\ resolve_complaint(k, "DISMISSED")
  /\ UNCHANGED <<lot, bids, banned, audit>>

\* Bug: the complaint is closed although the service refused to freeze.
Bug_report_freezes(k, view) ==
  /\ view.button = "freeze"
  /\ IF view.status = "ACTIVE"
       THEN freeze_seen_lot(view)
       ELSE UNCHANGED <<lot, bids, banned, audit>>
  /\ resolve_complaint(k, "RESOLVED")

report_freezes(k, view) ==
  /\ view.button = "freeze" /\ view.status = "ACTIVE"
  /\ freeze_seen_lot(view)
  /\ resolve_complaint(k, "RESOLVED")

report_strikes_bid(k, view, card) ==
  /\ view.button = "rm_top" /\ card.bid # NoBid /\ ~view.removed
  /\ strike_seen_bid(view, card.bid)
  /\ File(<<[action |-> "REMOVE_BID", bid |-> card.bid]>>)
  /\ resolve_complaint(k, "RESOLVED")
  /\ UNCHANGED banned

\* Whether the bid could be struck is not asked.
report_bans(k, view, card) ==
  /\ view.button = "ban_top" /\ card.user # NoUser /\ card.user \notin banned
  /\ banned' = banned \cup {card.user}
  /\ LET ban == [action |-> "BAN_USER", user |-> card.user] IN
     IF card.bid # NoBid /\ ~view.removed
       THEN /\ strike_seen_bid(view, card.bid)
            /\ File(<<ban, [action |-> "REMOVE_BID", bid |-> card.bid]>>)
       ELSE /\ File(<<ban>>)
            /\ UNCHANGED <<lot, bids>>
  /\ resolve_complaint(k, "RESOLVED")

mod_report_action(k) ==
  /\ reports[k] # NoView
  /\ reports' = [reports EXCEPT ![k] = NoView]
  /\ \/ report_is_turned_down(k, reports[k], complaints[k])
     \/ report_is_dismissed(k, reports[k])
     \/ report_freezes(k, reports[k])
     \/ report_strikes_bid(k, reports[k], complaints[k])
     \/ report_bans(k, reports[k], complaints[k])
  /\ UNCHANGED <<posts, now, calls, due, signals, risks>>
-----------------------------------------------------------------------------
(* The three buttons of a fraud signal.                                    *)

risk_is_turned_down(view, card) ==
  /\ \/ view.button = "freeze" /\ view.status # "ACTIVE"
     \/ view.button = "ban" /\ card.user \in banned
  /\ UNCHANGED <<lot, bids, banned, audit, signals>>

risk_is_ignored(k, view) ==
  /\ view.button = "ignore"
  /\ resolve_fraud_signal(k, "DISMISSED")
  /\ UNCHANGED <<lot, bids, banned, audit>>

risk_freezes(k, view) ==
  /\ view.button = "freeze" /\ view.status = "ACTIVE"
  /\ freeze_seen_lot(view)
  /\ resolve_fraud_signal(k, "CONFIRMED")

\* Unlike a complaint's ban, the bid is left standing.
risk_bans(k, view, card) ==
  /\ view.button = "ban" /\ card.user \notin banned
  /\ banned' = banned \cup {card.user}
  /\ File(<<[action |-> "BAN_USER", user |-> card.user]>>)
  /\ resolve_fraud_signal(k, "CONFIRMED")
  /\ UNCHANGED <<lot, bids>>

mod_risk_action(k) ==
  /\ risks[k] # NoView
  /\ risks' = [risks EXCEPT ![k] = NoView]
  /\ \/ risk_is_turned_down(risks[k], signals[k])
     \/ risk_is_ignored(k, risks[k])
     \/ risk_freezes(k, risks[k])
     \/ risk_bans(k, risks[k], signals[k])
  /\ UNCHANGED <<posts, now, calls, due, complaints, reports>>
-----------------------------------------------------------------------------
(* The panel's bulk form writes its verdict on every card that is ticked.  It *)
(* looks neither at the status of a card nor at its lock, so a card may have   *)
(* been decided long ago, or by a button the UPDATE has to wait for.            *)

Overruled(card, final) == [card EXCEPT !.status = final, !.note = "bulk"]

bulk_complaints(ticked, final) ==
  /\ \A k \in ticked : reports[k] = NoView
  /\ complaints' = [k \in DOMAIN complaints |->
                     IF k \in ticked THEN Overruled(complaints[k], final) ELSE complaints[k]]
  /\ UNCHANGED <<vars, signals, reports, risks>>

bulk_signals(ticked, final) ==
  /\ \A k \in ticked : risks[k] = NoView
  /\ signals' = [k \in DOMAIN signals |->
                  IF k \in ticked THEN Overruled(signals[k], final) ELSE signals[k]]
  /\ UNCHANGED <<vars, complaints, reports, risks>>

action_triage_bulk ==
  \/ \E ticked \in SUBSET DOMAIN complaints \ {{}}, final \in {"RESOLVED", "DISMISSED"} :
       bulk_complaints(ticked, final)
  \/ \E ticked \in SUBSET DOMAIN signals \ {{}}, final \in {"CONFIRMED", "DISMISSED"} :
       bulk_signals(ticked, final)
-----------------------------------------------------------------------------
\* The bot dies with its open transactions: the locks go, the cards stay.
bot_restarts_with_queue ==
  /\ bot_restarts
  /\ reports' = [k \in 1..MaxComplaints |-> NoView]
  /\ risks' = [k \in 1..MaxSignals |-> NoView]
  /\ UNCHANGED <<complaints, signals>>

\* Steps of the lot that leave the queue alone.
LotStep ==
  /\ \/ Tick \/ Publication \/ Watching \/ Moderation
     \/ \E h \in Handlers : receive_bid(h)
  /\ UNCHANGED queue

QueueStep ==
  \/ \E u \in Users : create_complaint(u)
  \/ \E h \in Handlers : scored_bid_action(h)
  \/ \E k \in 1..MaxComplaints :
       \/ \E button \in ReportButtons : load_complaint_view(k, button)
       \/ mod_report_action(k)
  \/ \E k \in 1..MaxSignals :
       \/ \E button \in RiskButtons : load_fraud_signal_view(k, button)
       \/ mod_risk_action(k)
  \/ action_triage_bulk

QueueNext == LotStep \/ QueueStep \/ bot_restarts_with_queue

QueueSpec == QueueInit /\ [][QueueNext]_queueVars
-----------------------------------------------------------------------------
(* Properties.                                                             *)

\* Every variable of the lot and of the queue keeps its type.
QueueTypeOK ==
  /\ TypeOK
  /\ complaints \in Seq(Complaint) /\ Len(complaints) <= MaxComplaints
  /\ signals \in Seq(Signal) /\ Len(signals) <= MaxSignals
  /\ reports \in [1..MaxComplaints -> View \cup {NoView}]
  /\ risks \in [1..MaxSignals -> View \cup {NoView}]

\* The moderation log explains the sanctions in force: the last freeze or
\* release on record is how the lot stands, and the last ban or pardon of each
\* user is whether he is banned, with cards, commands and panel deciding at the
\* same time.
SanctionsAreOnFile == QueueTypeOK /\ FreezeIsOnFile /\ BansAreOnFile

\* The buttons decide a card once, however many moderators press them at the
\* same time and whatever happens to the lot meanwhile, and a card is never
\* opened again.  Only the bulk form decides anew what was decided before, and
\* then the card says so.
DecisionsStand ==
  [][/\ \A k \in DOMAIN complaints : complaints[k].status # "OPEN" =>
          complaints'[k] \in {complaints[k]} \cup
            {Overruled(complaints[k], final) : final \in {"RESOLVED", "DISMISSED"}}
     /\ \A k \in DOMAIN signals : signals[k].status # "OPEN" =>
          signals'[k] \in {signals[k]} \cup
            {Overruled(signals[k], final) : final \in {"CONFIRMED", "DISMISSED"}}]_queueVars

\* The cards closed by a sanction that concerns a user, or the whole lot.
Closed(buttons, about) ==
  Cardinality({k \in DOMAIN complaints : complaints[k].note \in buttons
                 /\ (about # NoUser => complaints[k].user = about)})
  + Cardinality({k \in DOMAIN signals : signals[k].note \in buttons
                   /\ (about # NoUser => signals[k].user = about)})

\* A card closed with a sanction got it, once and on record: every closed
\* freeze and every closed ban has an audit entry of its own, and the bid of
\* a complaint closed by striking it or by banning its owner is struck, even
\* where the code does not look at the answer of remove_bid.
SanctionsAreCarriedOut ==
  /\ Closed({"freeze"}, NoUser) <= Rulings([action |-> "FREEZE_AUCTION"])
  /\ \A u \in Users :
       Closed({"ban", "ban_top"}, u) <= Rulings([action |-> "BAN_USER", user |-> u])
  /\ \A k \in DOMAIN complaints :
       complaints[k].note \in {"rm_top", "ban_top"} /\ complaints[k].bid # NoBid =>
         /\ bids[complaints[k].bid].removed
         /\ Rulings([action |-> "REMOVE_BID", bid |-> complaints[k].bid]) > 0

\* Only a running lot can be frozen (moderation_service.py:271).
FreezesOnlyRunningLot ==
  [][status # "FROZEN" /\ status' = "FROZEN" => status = "ACTIVE"]_queueVars
=============================================================================
