--------------------------- MODULE PointsEconomy ----------------------------
(***************************************************************************)
(* Points: earned by approved feedback, corrected by moderators, and spent  *)
(* on moving one's own open case up the moderators' queue (a boost).        *)
(* (src/app/services/points_service.py and the redeem_..._priority_boost    *)
(* functions of feedback_service.py, guarantor_service.py and               *)
(* appeal_service.py, which are alike but for the statuses they allow and   *)
(* their settings.)                                                         *)
(*                                                                         *)
(* A boost is one transaction of several statements: nothing it reads is    *)
(* locked but the user's row and the case.  The user's row is locked from   *)
(* the start, as upsert_user has changed it and the change is flushed with  *)
(* the next query; every limit below rests on that.                         *)
(***************************************************************************)
EXTENDS Casework, Integers, FiniteSetsExt

CONSTANTS
  Users, Owner,               \* who sent in each case
  Items, Reward,              \* rows of feedback_items and what approval earns
  Handlers,                   \* handlers of one bot running at the same time
  Adjustments, MaxAdjust,     \* amounts moderators book, and how often
  Enabled, Cost,              \* per kind of case: toggle and price of a boost,
  KindDaily, KindCooldown,    \* its daily limit and its cooldown
  Cooldown,                   \* between any two boosts
  DailyLimit, WeeklyLimit,    \* boosts in a day and in a week, 0 for no limit
  DailyCap, WeeklyCap, MonthlyCap,  \* points spent on boosts, 0 for no cap
  MinBalance, MinEarned, MinAge,    \* what an account must have, and keep
  Day, Week, Month,           \* lengths of the calendar's periods
  NoCall

VARIABLES
  verdict,   \* status of each feedback item, with IN_REVIEW as NEW: nothing
             \* here tells the two apart
  ledger,    \* rows of points_ledger_entries
  boosted,   \* priority_boosted_at and priority_boost_points_spent
  calls      \* the boost each handler is busy with

Tickets == Cases \cup Items
Kinds == {"feedback", "guarantor", "appeal"}
Kind(t) == CASE t \in Items -> "feedback" [] t \in Requests -> "guarantor" [] t \in Appeals -> "appeal"

ASSUME PointsAssumption ==
  /\ Items \cap Cases = {} /\ Owner \in [Tickets -> Users] /\ Reward \in Nat \ {0}
  /\ Adjustments \subseteq Int \ {0} /\ MaxAdjust \in Nat
  /\ Enabled \in [Kinds -> BOOLEAN] /\ Cost \in [Kinds -> Nat \ {0}]
  /\ KindDaily \in [Kinds -> Nat \ {0}] /\ KindCooldown \in [Kinds -> Nat]
  /\ {Cooldown, DailyLimit, WeeklyLimit, DailyCap, WeeklyCap, MonthlyCap} \subseteq Nat
  /\ {MinBalance, MinEarned, MinAge} \subseteq Nat
  /\ {Day, Week, Month} \subseteq Nat \ {0}
  /\ NoCall \notin [ticket : Tickets, user : Users, at : Nat \cup {NoTime}]

Row == [key : {"boost", "reward"} \X Tickets \cup {"manual"} \X (1..MaxAdjust),
        user : Users, amount : Int, at : Nat]
Call == [ticket : Tickets, user : Users, at : Nat \cup {NoTime}]

points == <<verdict, ledger, boosted, calls>>
vars == <<casework, points>>

Init ==
  /\ CaseInit
  /\ verdict = [i \in Items |-> "NEW"]
  /\ ledger = {}
  /\ boosted = [t \in Tickets |-> NoTime]
  /\ calls = [h \in Handlers |-> NoCall]

Busy(h) == calls[h] # NoCall
UserLocked(u) == \E h \in Handlers : Busy(h) /\ calls[h].user = u
\* A boost locks its case with the checks, not before.
Locked(t) == \E h \in Handlers : Busy(h) /\ calls[h].ticket = t /\ calls[h].at # NoTime
-----------------------------------------------------------------------------
(* The ledger.                                                             *)

Total(rows) == MapThenSumSet(LAMBDA r : r.amount, rows)
get_user_points_balance(u) == Total({r \in ledger : r.user = u})
total_earned(u) == Total({r \in ledger : r.user = u /\ r.amount > 0})

Boosts(u) == {r \in ledger : r.user = u /\ r.key[1] = "boost"}
KindBoosts(u, kind) == {r \in Boosts(u) : Kind(r.key[2]) = kind}
Within(rows, period, t) == {r \in rows : r.at >= t - (t % period)}

\* on_conflict_do_nothing: the first row under a dedupe key stays.
grant_points(key, u, amount) ==
  ledger' = IF \E r \in ledger : r.key = key THEN ledger
            ELSE ledger \cup {[key |-> key, user |-> u, amount |-> amount, at |-> now]}

approve_feedback(i) ==
  /\ verdict[i] = "NEW" /\ ~Locked(i)
  /\ verdict' = [verdict EXCEPT ![i] = "APPROVED"]
  /\ grant_points(<<"reward", i>>, Owner[i], Reward)
  /\ UNCHANGED <<casework, boosted, calls>>

reject_feedback(i) ==
  /\ verdict[i] = "NEW" /\ ~Locked(i)
  /\ verdict' = [verdict EXCEPT ![i] = "REJECTED"]
  /\ UNCHANGED <<casework, ledger, boosted, calls>>

\* Bug: the user's row is not locked.
Bug_mod_points(n, u, amount) ==
  /\ grant_points(<<"manual", n>>, u, amount)
  /\ UNCHANGED <<casework, verdict, boosted, calls>>

\* /modpoints and the web form lock the user's row; the key is the command's
\* message or the form's nonce, so a repeated one books nothing.
mod_points(n, u, amount) ==
  /\ ~UserLocked(u)
  /\ grant_points(<<"manual", n>>, u, amount)
  /\ UNCHANGED <<casework, verdict, boosted, calls>>
-----------------------------------------------------------------------------
(* A boost.                                                                *)

\* Bug: the user's row is locked only when the points are spent.
Bug_command_boost(h, t, u) ==
  /\ ~Busy(h)
  /\ calls' = [calls EXCEPT ![h] = [ticket |-> t, user |-> u, at |-> NoTime]]
  /\ UNCHANGED <<casework, verdict, ledger, boosted>>

\* /boostfeedback, /boostguarant, /boostappeal: upsert_user locks the row.
command_boost(h, t, u) ==
  /\ ~Busy(h) /\ ~UserLocked(u)
  /\ calls' = [calls EXCEPT ![h] = [ticket |-> t, user |-> u, at |-> NoTime]]
  /\ UNCHANGED <<casework, verdict, ledger, boosted>>

Open(t) == IF t \in Items THEN verdict[t] = "NEW"
           ELSE IF t \in Requests THEN status[t] = "NEW"
           ELSE status[t] \in Active

CooledDown(rows, wait) == \A r \in rows : now - r.at >= wait
Below(limit, n) == limit = 0 \/ n <= limit
Spent(rows) == -Total(rows)

\* get_..._priority_boost_policy
KindAllows(u, kind) ==
  /\ Enabled[kind]
  /\ CooledDown(KindBoosts(u, kind), KindCooldown[kind])
  /\ Cardinality({t \in Tickets : Owner[t] = u /\ Kind(t) = kind /\ boosted[t] # NoTime
                                  /\ boosted[t] >= now - (now % Day)}) < KindDaily[kind]

PolicyAllows(u, kind) ==
  LET b == Boosts(u) IN
  /\ now >= MinAge
  /\ total_earned(u) >= MinEarned
  /\ KindAllows(u, kind)
  /\ Below(DailyLimit, Cardinality(Within(b, Day, now)) + 1)
  /\ Below(WeeklyLimit, Cardinality(Within(b, Week, now)) + 1)
  /\ Below(DailyCap, Spent(Within(b, Day, now)) + Cost[kind])
  /\ Below(WeeklyCap, Spent(Within(b, Week, now)) + Cost[kind])
  /\ Below(MonthlyCap, Spent(Within(b, Month, now)) + Cost[kind])
  /\ CooledDown(b, Cooldown)
  /\ MinBalance = 0 \/ get_user_points_balance(u) - Cost[kind] >= MinBalance

\* Bug: the case is marked, and the mark committed, before the points are
\* taken.
Bug_redeem_is_checked(h) ==
  /\ Busy(h) /\ calls[h].at = NoTime
  /\ LET t == calls[h].ticket
         u == calls[h].user
         granted == u = Owner[t] /\ Open(t) /\ boosted[t] = NoTime /\ PolicyAllows(u, Kind(t))
     IN /\ ~Locked(t)
        /\ calls' = [calls EXCEPT ![h] = IF granted THEN [@ EXCEPT !.at = now] ELSE NoCall]
        /\ boosted' = IF granted THEN [boosted EXCEPT ![t] = now] ELSE boosted
  /\ UNCHANGED <<casework, verdict, ledger>>

\* The case is locked, the clock read and the limits looked up.  A refusal
\* ends the transaction; so does a boost of the case that is there already.
redeem_is_checked(h) ==
  /\ Busy(h) /\ calls[h].at = NoTime
  /\ LET t == calls[h].ticket
         u == calls[h].user
     IN /\ ~Locked(t)
        /\ calls' = [calls EXCEPT ![h] =
             IF u = Owner[t] /\ Open(t) /\ boosted[t] = NoTime /\ PolicyAllows(u, Kind(t))
               THEN [@ EXCEPT !.at = now] ELSE NoCall]
  /\ UNCHANGED <<casework, verdict, ledger, boosted>>

\* The points are taken and the case is marked, or neither is.  The row in
\* the ledger gets the time of now, the mark that of the checks.
spend_points(h) ==
  /\ Busy(h) /\ calls[h].at # NoTime
  /\ LET c == calls[h]
         cost == Cost[Kind(c.ticket)]
     IN IF get_user_points_balance(c.user) >= cost
          THEN /\ grant_points(<<"boost", c.ticket>>, c.user, -cost)
               /\ boosted' = [boosted EXCEPT ![c.ticket] = c.at]
          ELSE UNCHANGED <<ledger, boosted>>
  /\ calls' = [calls EXCEPT ![h] = NoCall]
  /\ UNCHANGED <<casework, verdict>>

\* An error or a restart rolls the transaction back.
boost_is_rolled_back(h) ==
  /\ Busy(h)
  /\ calls' = [calls EXCEPT ![h] = NoCall]
  /\ UNCHANGED <<casework, verdict, ledger, boosted>>

Boost(h) == redeem_is_checked(h) \/ spend_points(h) \/ boost_is_rolled_back(h)
-----------------------------------------------------------------------------
Next ==
  \/ CaseNext({t \in Cases : Locked(t)}) /\ UNCHANGED points
  \/ \E i \in Items : approve_feedback(i) \/ reject_feedback(i)
  \/ \E n \in 1..MaxAdjust, u \in Users, amount \in Adjustments : mod_points(n, u, amount)
  \/ \E h \in Handlers, t \in Tickets, u \in Users : command_boost(h, t, u)
  \/ \E h \in Handlers : Boost(h)

Spec == Init /\ [][Next]_vars
-----------------------------------------------------------------------------
(* Properties.                                                             *)

\* Every variable keeps its type, and no key is booked twice.
TypeOK ==
  /\ CaseTypeOK
  /\ verdict \in [Items -> {"NEW", "APPROVED", "REJECTED"}]
  /\ ledger \subseteq Row /\ \A r, s \in ledger : r.key = s.key => r = s
  /\ boosted \in [Tickets -> Nat \cup {NoTime}]
  /\ calls \in [Handlers -> Call \cup {NoCall}]

\* No user gets past the limits of README.md:464, whatever commands run at
\* the same time and wherever midnight falls between a check and the booking:
\* in every day, week and month, for all boosts together and per kind.
BoostLimitsHold ==
  TypeOK /\ \A u \in Users :
    LET b == Boosts(u)
        Of(period, t) == {r \in b : r.at \div period = t \div period}
    IN /\ \A r \in b :
            /\ Below(DailyLimit, Cardinality(Of(Day, r.at)))
            /\ Below(WeeklyLimit, Cardinality(Of(Week, r.at)))
            /\ Below(DailyCap, Spent(Of(Day, r.at)))
            /\ Below(WeeklyCap, Spent(Of(Week, r.at)))
            /\ Below(MonthlyCap, Spent(Of(Month, r.at)))
       /\ \A r, s \in b : r # s =>
            LET apart == IF r.at >= s.at THEN r.at - s.at ELSE s.at - r.at
            IN /\ apart >= Cooldown
               /\ Kind(r.key[2]) = Kind(s.key[2]) => apart >= KindCooldown[Kind(r.key[2])]
       /\ \A t \in Tickets : boosted[t] # NoTime /\ Owner[t] = u =>
            Cardinality({x \in Tickets : /\ Owner[x] = u /\ Kind(x) = Kind(t) /\ boosted[x] # NoTime
                                         /\ boosted[x] \div Day = boosted[t] \div Day})
              <= KindDaily[Kind(t)]

\* A case is marked as boosted exactly when its owner paid the price of its
\* kind for it, once.
BoostIsPaidFor ==
  \A t \in Tickets :
    LET paid == {r \in ledger : r.key = <<"boost", t>>} IN
    /\ boosted[t] # NoTime <=> paid # {}
    /\ \A r \in paid : /\ paid = {r} /\ r.user = Owner[t] /\ r.amount = -Cost[Kind(t)]
                       /\ boosted[t] <= r.at

\* A boost leaves its user the minimum balance, whatever was booked between
\* its checks and its price, and is for those who have earned enough.
BoostLeavesMinimum ==
  [][\A u \in Users : Boosts(u)' # Boosts(u) =>
       get_user_points_balance(u)' >= MinBalance /\ total_earned(u)' >= MinEarned]_vars
=============================================================================
