----------------------------- MODULE ChannelDesk -----------------------------
(***************************************************************************)
(* The direct messages of the channel: suggested posts, the decisions of    *)
(* moderators on them, and the guard that pauses decisions when the owner    *)
(* of the chat changes.  (src/app/bot/handlers/suggested_posts.py and         *)
(* src/app/services/chat_owner_guard_service.py.)                             *)
(*                                                                         *)
(* A decision holds the lock of the review's row over its call to Telegram;  *)
(* the call and the commit are two steps, between which the bot may be       *)
(* killed.  Definitions Bug_... are for mutation runs only.                   *)
(***************************************************************************)
EXTENDS Integers, Sequences, FiniteSets

CONSTANTS
  Posts,        \* messages with suggested_post_info
  OwnerEvents,  \* messages with chat_owner_changed or chat_owner_left
  Moderators,   \* with the scope direct-messages:manage
  MaxCrashes    \* bound of the model

DeskAssumption ==
  /\ Posts \cap OwnerEvents = {}
  /\ IsFiniteSet(Posts \cup OwnerEvents \cup Moderators)
  /\ MaxCrashes \in Nat

VARIABLES
  review,   \* suggested_post_reviews.status of each post, or None
  event,    \* chat_owner_service_events: None, "open" or "resolved"
  alerts,   \* events committed whose alert is still to be sent
  post,     \* what Telegram holds of each post
  job,      \* the decision each moderator has under way
  taken,    \* ghost: posts whose update was handled while nothing was paused
  crashes

desk_vars == <<review, event, alerts, post, job, taken, crashes>>

None == "none"
Idle == [stage |-> "idle"]
Final == {"APPROVED", "DECLINED", "FAILED"}

is_chat_owner_confirmation_required == \E e \in OwnerEvents : event[e] = "open"

\* Rows PENDING may be left from before owner events had a handler.
DeskInit ==
  /\ review \in [Posts -> {None, "PENDING"}]
  /\ event = [e \in OwnerEvents |-> None]
  /\ alerts = {}
  /\ post = [p \in Posts |-> "open"]
  /\ job = [m \in Moderators |-> Idle]
  /\ taken = {}
  /\ crashes = 0

(***************************************************************************)
(* Messages of the chat.  The router holds its handlers in the order they    *)
(* are declared, and a message goes to the first whose filter it passes;      *)
(* both ask for no more than a supergroup.                                    *)
(***************************************************************************)
handlers == <<"capture_chat_owner_service_events", "capture_suggested_post">>
passes(h, chat_type) == h \in {handlers[1], handlers[2]} /\ chat_type = "supergroup"
first_handler(chat_type) ==
  handlers[CHOOSE i \in DOMAIN handlers :
             /\ passes(handlers[i], chat_type)
             /\ \A k \in 1..i - 1 : ~passes(handlers[k], chat_type)]

\* An event that is on file already, as when Telegram delivers it again,
\* raises no second alert.
record_chat_owner_service_event(e) ==
  /\ event' = [event EXCEPT ![e] = IF @ = None THEN "open" ELSE @]
  /\ alerts' = IF event[e] = None THEN alerts \cup {e} ELSE alerts
  /\ UNCHANGED <<review, taken>>

capture_suggested_post(p) ==
  /\ review' = [review EXCEPT ![p] =
                  IF @ = None /\ ~is_chat_owner_confirmation_required THEN "PENDING" ELSE @]
  /\ UNCHANGED <<event, alerts>>

ignored == UNCHANGED <<review, event, alerts>>

owner_event_arrives(e) ==
  /\ IF first_handler("supergroup") = "capture_chat_owner_service_events"
       THEN record_chat_owner_service_event(e)
       ELSE ignored /\ UNCHANGED taken
  /\ UNCHANGED <<post, job, crashes>>

suggestion_arrives(p) ==
  /\ IF first_handler("supergroup") = "capture_suggested_post"
       THEN capture_suggested_post(p)
       ELSE ignored
  /\ taken' = IF is_chat_owner_confirmation_required THEN taken ELSE taken \cup {p}
  /\ UNCHANGED <<post, job, crashes>>

\* The alert goes out after the commit; whether it gets through is not noted.
send_alert(e) ==
  /\ e \in alerts
  /\ alerts' = alerts \ {e}
  /\ UNCHANGED <<review, event, post, job, taken, crashes>>

(***************************************************************************)
(* Moderators.                                                             *)
(***************************************************************************)
locked(p) == \E m \in Moderators : job[m].stage # "idle" /\ job[m].post = p

Bug_begin_decision(m, p, approve) ==
  /\ job[m] = Idle
  /\ review[p] = "PENDING" /\ ~is_chat_owner_confirmation_required
  /\ job' = [job EXCEPT ![m] = [stage |-> "call", post |-> p, approve |-> approve, ok |-> FALSE]]
  /\ UNCHANGED <<review, event, alerts, post, taken, crashes>>

\* SELECT ... FOR UPDATE, the status, and the pause.
begin_decision(m, p, approve) ==
  /\ job[m] = Idle
  /\ ~locked(p)
  /\ review[p] = "PENDING" /\ ~is_chat_owner_confirmation_required
  /\ job' = [job EXCEPT ![m] = [stage |-> "call", post |-> p, approve |-> approve, ok |-> FALSE]]
  /\ UNCHANGED <<review, event, alerts, post, taken, crashes>>

\* Telegram takes one decision on a post; an answer may be lost.
call_telegram(m) ==
  LET p == job[m].post
      decided == IF job[m].approve THEN "APPROVED" ELSE "DECLINED"
  IN
  /\ job[m].stage = "call"
  /\ \E applied, answered \in BOOLEAN :
       /\ applied => post[p] = "open"
       /\ post' = [post EXCEPT ![p] = IF applied THEN decided ELSE @]
       /\ job' = [job EXCEPT ![m].stage = "commit", ![m].ok = applied /\ answered]
  /\ UNCHANGED <<review, event, alerts, taken, crashes>>

handle_suggested_post_decision(m) ==
  /\ job[m].stage = "commit"
  /\ review' = [review EXCEPT ![job[m].post] =
                  CASE ~job[m].ok -> "FAILED"
                    [] job[m].ok /\ job[m].approve -> "APPROVED"
                    [] job[m].ok /\ ~job[m].approve -> "DECLINED"]
  /\ job' = [job EXCEPT ![m] = Idle]
  /\ UNCHANGED <<event, alerts, post, taken, crashes>>

\* /confirmowner: all that is open, alerted or not.
confirm_chat_owner_events ==
  /\ is_chat_owner_confirmation_required
  /\ event' = [e \in OwnerEvents |-> IF event[e] = "open" THEN "resolved" ELSE event[e]]
  /\ UNCHANGED <<review, alerts, post, job, taken, crashes>>

crash ==
  /\ crashes < MaxCrashes
  /\ crashes' = crashes + 1
  /\ job' = [m \in Moderators |-> Idle]
  /\ alerts' = {}
  /\ UNCHANGED <<review, event, post, taken>>

DeskNext ==
  \/ \E e \in OwnerEvents : owner_event_arrives(e) \/ send_alert(e)
  \/ \E p \in Posts : suggestion_arrives(p)
  \/ \E m \in Moderators, p \in Posts, b \in BOOLEAN : begin_decision(m, p, b)
  \/ \E m \in Moderators : call_telegram(m) \/ handle_suggested_post_decision(m)
  \/ confirm_chat_owner_events
  \/ crash

DeskSpec == DeskInit /\ [][DeskNext]_desk_vars

(***************************************************************************)
(* Properties.                                                             *)
(***************************************************************************)
(* A decision stands: a review leaves PENDING once and never changes again,  *)
(* and it is APPROVED or DECLINED only when Telegram did exactly that, also   *)
(* with two moderators at the same post, a call that fails or is answered by  *)
(* nothing, or the bot killed between the call and the commit.               *)
ReviewsStand ==
  [][\A p \in Posts : (review'[p] # review[p]) =>
        /\ review[p] \in {None, "PENDING"}
        /\ (review'[p] \in {"APPROVED", "DECLINED"}) => (post'[p] = review'[p])]_desk_vars

(* Every suggested post that reaches the bot while nothing is paused is put   *)
(* before the moderators (README.md:575).                                     *)
SuggestionsAreQueued == \A p \in taken : review[p] # None
=============================================================================
