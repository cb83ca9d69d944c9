---------------------------- MODULE TradeFeedback ----------------------------
(***************************************************************************)
(* What the two sides of a finished trade say of each other, and its         *)
(* moderation in the panel.  (src/app/services/trade_feedback_service.py.)    *)
(*                                                                         *)
(* A transaction is two steps: it reads, taking its locks, and it writes and  *)
(* commits.  An author locks the lot and then his entry, a moderator the      *)
(* entry alone.  Definitions Bug_... are for mutation runs only.              *)
(***************************************************************************)
EXTENDS Integers, FiniteSets

CONSTANTS
  Authors,    \* who writes; seller and winner among them
  Ratings,
  TradeRequests, \* transactions at the same time
  MaxTradeLog    \* bound of the model: entries about one feedback

TradeAssumption == MaxTradeLog \in Nat /\ Ratings \subseteq 1..5 /\ Cardinality(Authors) >= 2

VARIABLES
  lot,      \* [status, seller, winner]
  item,     \* the feedback of each author: [rating, status], or None
  trade_log, \* how often each was hidden and unhidden, by the moderation log
  trade_unlogged, \* ghost: how much oftener each was hidden than unhidden in bulk
  request

trade_vars == <<lot, item, trade_log, trade_unlogged, request>>

Idle == [stage |-> "idle"]
None == [rating |-> 0, status |-> "NONE"]
Nobody == "nobody"
Finished == {"ENDED", "BOUGHT_OUT"}

TradeInit ==
  /\ \E s \in Authors : lot = [status |-> "ACTIVE", seller |-> s, winner |-> Nobody]
  /\ item = [a \in Authors |-> None]
  /\ trade_log = [a \in Authors |-> [hide |-> 0, unhide |-> 0]]
  /\ trade_unlogged = [a \in Authors |-> 0]
  /\ request = [r \in TradeRequests |-> Idle]

\* A lot may end without a bid.
lot_closes ==
  /\ lot.status = "ACTIVE"
  /\ \E s \in Finished : \E w \in (Authors \ {lot.seller}) \cup {Nobody} :
       lot' = [lot EXCEPT !.status = s, !.winner = w]
  /\ UNCHANGED <<item, trade_log, trade_unlogged, request>>

EntryLocked(a) == \E r \in TradeRequests : request[r] # Idle /\ request[r].author = a
LotLocked == \E r \in TradeRequests : request[r] # Idle /\ request[r].to = "submit"

may_submit(a) ==
  /\ lot.status \in Finished /\ lot.winner # Nobody
  /\ a \in {lot.seller, lot.winner}

load_for_submit(r, a, rating) ==
  /\ request[r] = Idle
  /\ may_submit(a) /\ ~LotLocked /\ ~EntryLocked(a)
  /\ request' = [request EXCEPT ![r] = [stage |-> "loaded", to |-> "submit", author |-> a,
                                        rating |-> rating, seen |-> item[a]]]
  /\ UNCHANGED <<lot, item, trade_log, trade_unlogged>>

\* An entry keeps its status when its author writes it anew.
submit_trade_feedback(r) ==
  LET a == request[r].author IN
  /\ request[r] # Idle /\ request[r].to = "submit"
  /\ item' = [item EXCEPT ![a] = IF request[r].seen = None
                                   THEN [rating |-> request[r].rating, status |-> "VISIBLE"]
                                   ELSE [@ EXCEPT !.rating = request[r].rating]]
  /\ request' = [request EXCEPT ![r] = Idle]
  /\ UNCHANGED <<lot, trade_log, trade_unlogged>>

Bug_load_for_moderation(r, a, visible) ==
  /\ request[r] = Idle
  /\ item[a] # None
  /\ request' = [request EXCEPT ![r] = [stage |-> "loaded", author |-> a, rating |-> 0, seen |-> item[a],
                                        to |-> IF visible THEN "VISIBLE" ELSE "HIDDEN"]]
  /\ UNCHANGED <<lot, item, trade_log, trade_unlogged>>

load_for_moderation(r, a, visible) ==
  /\ request[r] = Idle
  /\ item[a] # None /\ ~EntryLocked(a)
  /\ request' = [request EXCEPT ![r] = [stage |-> "loaded", author |-> a, rating |-> 0, seen |-> item[a],
                                        to |-> IF visible THEN "VISIBLE" ELSE "HIDDEN"]]
  /\ UNCHANGED <<lot, item, trade_log, trade_unlogged>>

\* Nothing is written, and nothing logged, when the status is set already.
set_trade_feedback_visibility(r, status, entry) ==
  LET a == request[r].author IN
  /\ request[r] # Idle /\ request[r].to = status
  /\ IF request[r].seen.status = status
       THEN UNCHANGED <<item, trade_log>>
       ELSE /\ trade_log[a][entry] < MaxTradeLog
            /\ item' = [item EXCEPT ![a].status = status]
            /\ trade_log' = [trade_log EXCEPT ![a][entry] = @ + 1]
  /\ request' = [request EXCEPT ![r] = Idle]
  /\ UNCHANGED <<lot, trade_unlogged>>

action_hide_trade_feedback(r) == set_trade_feedback_visibility(r, "HIDDEN", "hide")
action_unhide_trade_feedback(r) == set_trade_feedback_visibility(r, "VISIBLE", "unhide")

\* The panel's bulk form: one transaction over the entries that are ticked, in
\* which each is locked before it is looked at.  It logs nothing.
action_triage_bulk_feedback(ticked, status) ==
  LET changed == {a \in ticked : item[a].status # status} IN
  /\ ticked # {}
  /\ \A a \in ticked : item[a] # None /\ ~EntryLocked(a)
  /\ item' = [a \in Authors |-> IF a \in changed THEN [item[a] EXCEPT !.status = status] ELSE item[a]]
  /\ trade_unlogged' = [a \in Authors |->
       trade_unlogged[a] + (IF a \notin changed THEN 0 ELSE IF status = "HIDDEN" THEN 1 ELSE -1)]
  /\ UNCHANGED <<lot, trade_log, request>>

rolled_back(r) ==
  /\ request[r] # Idle
  /\ request' = [request EXCEPT ![r] = Idle]
  /\ UNCHANGED <<lot, item, trade_log, trade_unlogged>>

TradeNext ==
  \/ lot_closes
  \/ \E r \in TradeRequests, a \in Authors :
       \/ \E n \in Ratings : load_for_submit(r, a, n)
       \/ \E b \in BOOLEAN : load_for_moderation(r, a, b)
  \/ \E ticked \in SUBSET Authors, s \in {"VISIBLE", "HIDDEN"} : action_triage_bulk_feedback(ticked, s)
  \/ \E r \in TradeRequests :
       \/ submit_trade_feedback(r) \/ rolled_back(r)
       \/ action_hide_trade_feedback(r) \/ action_unhide_trade_feedback(r)

TradeSpec == TradeInit /\ [][TradeNext]_trade_vars

(***************************************************************************)
(* Properties.                                                             *)
(***************************************************************************)
(* Feedback is out of sight exactly when the moderation log, taken together   *)
(* with the bulk forms, which are not in it, says so: it was hidden once more  *)
(* often than it was brought back, however often its author writes it anew    *)
(* and with two moderators at the same entry.                                 *)
LogTellsVisibility ==
  \A a \in Authors :
    trade_log[a].hide - trade_log[a].unhide + trade_unlogged[a] = (IF item[a].status = "HIDDEN" THEN 1 ELSE 0)
=============================================================================
