----------------------------- MODULE Checklists -----------------------------
(***************************************************************************)
(* The checklist of a moderation case: its items are ticked by button, and   *)
(* a reply to an item is asked for by button and given as a message.          *)
(* (src/app/services/moderation_checklist_service.py and the handlers of       *)
(* src/app/bot/handlers/moderation.py.)                                       *)
(*                                                                         *)
(* The bot handles one update at a time of one user in one chat, so a button  *)
(* in the chat of the moderators and a message in private go on together.     *)
(* What is asked for is in the memory of the bot.  An item that has no row     *)
(* yet is inserted, undone, by the transaction that reads it; of two that      *)
(* insert at once one fails.  Definitions Bug_... are for mutation runs only.  *)
(***************************************************************************)
EXTENDS Integers, FiniteSets

CONSTANTS
  Items,
  Moderators,
  MaxPresses   \* bound of the model: presses of each moderator

VARIABLES
  ticks,    \* moderation_checklist_items: [is_done, done_by]
  saved,    \* replies on file of each moderator to each item
  pending,  \* _PENDING_CHECKLIST_REPLIES: the item each moderator is to answer
  log,      \* the last tick by the moderation log, and the replies by it
  asked,    \* ghost: how often each moderator asked to answer each item
  job,      \* the update under way in each chat
  presses

checklist_vars == <<ticks, saved, pending, log, asked, job, presses>>

UpdateChats == {"group", "private"}
Nothing == "nothing"
Nobody == "nobody"

ChecklistAssumption ==
  /\ MaxPresses \in Nat /\ IsFiniteSet(Items \cup Moderators)
  /\ Nothing \notin Items /\ Nobody \notin Moderators

NoUpdate == [stage |-> "idle"]
Undone == [is_done |-> FALSE, done_by |-> Nobody]

ChecklistInit ==
  /\ ticks = [i \in Items |-> Undone]
  /\ saved = [m \in Moderators |-> [i \in Items |-> 0]]
  /\ pending = [m \in Moderators |-> Nothing]
  /\ log = [ticks |-> ticks, replies |-> saved]
  /\ asked = saved
  /\ job = [m \in Moderators |-> [c \in UpdateChats |-> NoUpdate]]
  /\ presses = [m \in Moderators |-> 0]

\* upsert_user holds the row of the user to the end of the transaction.
in_transaction(m) == \E c \in UpdateChats : job[m][c].stage = "loaded"

press(m, c) ==
  /\ job[m][c] = NoUpdate /\ ~in_transaction(m)
  /\ presses[m] < MaxPresses
  /\ presses' = [presses EXCEPT ![m] = @ + 1]

\* The row is read without a lock.
load_item(m, c, i) ==
  /\ press(m, c)
  /\ job' = [job EXCEPT ![m][c] = [stage |-> "loaded", item |-> i, seen |-> ticks[i]]]
  /\ UNCHANGED <<ticks, saved, pending, log, asked>>

toggled(seen, m) ==
  IF seen.is_done THEN Undone ELSE [is_done |-> TRUE, done_by |-> m]

toggle_checklist_item(m, c) ==
  LET i == job[m][c].item new == toggled(job[m][c].seen, m) IN
  /\ job[m][c].stage = "loaded"
  /\ ticks' = [ticks EXCEPT ![i] = new]
  /\ log' = [log EXCEPT !.ticks[i] = new]
  /\ job' = [job EXCEPT ![m][c] = NoUpdate]
  /\ UNCHANGED <<saved, pending, asked, presses>>

ask_for_reply(m, c, i) ==
  /\ press(m, c)
  /\ pending' = [pending EXCEPT ![m] = i]
  /\ asked' = [asked EXCEPT ![m][i] = @ + 1]
  /\ UNCHANGED <<ticks, saved, log, job>>

(***************************************************************************)
(* mod_checklist_reply_message, in steps divided by its awaits.  It is never  *)
(* called for a message in the chat of the moderators: a handler of           *)
(* suggested_posts takes every message of a supergroup first.                  *)
(***************************************************************************)
reply_arrives(m, stage) ==
  /\ job[m]["private"] = NoUpdate
  /\ pending[m] # Nothing
  /\ job' = [job EXCEPT ![m]["private"] = [stage |-> stage, item |-> pending[m]]]
  /\ UNCHANGED <<ticks, saved, pending, log, asked, presses>>

add_checklist_reply(m) ==
  LET i == job[m]["private"].item IN
  /\ job[m]["private"].stage = "reply" /\ ~in_transaction(m)
  /\ saved' = [saved EXCEPT ![m][i] = @ + 1]
  /\ log' = [log EXCEPT !.replies[m][i] = @ + 1]
  /\ job' = [job EXCEPT ![m]["private"].stage = "pop"]
  /\ UNCHANGED <<ticks, pending, asked, presses>>

Bug_pop_pending(m) ==
  /\ job[m]["private"].stage = "pop"
  /\ pending' = IF pending[m] = job[m]["private"].item THEN pending ELSE [pending EXCEPT ![m] = Nothing]
  /\ job' = [job EXCEPT ![m]["private"] = NoUpdate]
  /\ UNCHANGED <<ticks, saved, log, asked, presses>>

\* Whatever is asked for by now is dropped, the item just answered or another.
pop_pending(m) ==
  /\ job[m]["private"].stage = "pop"
  /\ pending' = [pending EXCEPT ![m] = Nothing]
  /\ job' = [job EXCEPT ![m]["private"] = NoUpdate]
  /\ UNCHANGED <<ticks, saved, log, asked, presses>>

\* A failure, a refused right or a text too short: nothing is written.
given_up(m, c) ==
  /\ job[m][c].stage \in {"loaded", "reply"}
  /\ job' = [job EXCEPT ![m][c] = NoUpdate]
  /\ UNCHANGED <<ticks, saved, pending, log, asked, presses>>

restart ==
  /\ pending' = [m \in Moderators |-> Nothing]
  /\ job' = [m \in Moderators |-> [c \in UpdateChats |-> NoUpdate]]
  /\ UNCHANGED <<ticks, saved, log, asked, presses>>

ChecklistNext ==
  \/ \E m \in Moderators, c \in UpdateChats :
       \/ \E i \in Items : load_item(m, c, i) \/ ask_for_reply(m, c, i)
       \/ toggle_checklist_item(m, c) \/ given_up(m, c)
  \/ \E m \in Moderators :
       \/ \E s \in {"reply", "pop"} : reply_arrives(m, s)   \* an answer, or /cancel
       \/ add_checklist_reply(m) \/ pop_pending(m)
  \/ restart

ChecklistSpec == ChecklistInit /\ [][ChecklistNext]_checklist_vars

(***************************************************************************)
(* Properties.                                                             *)
(***************************************************************************)
(* The checklist is what the moderation log makes of it: the last tick of an *)
(* item stands with the name of who set it, though items are read unlocked    *)
(* and ticked by several at a time; each reply on file is logged, and none    *)
(* was saved that its author was not asked for, once for each time he asked.  *)
ChecklistIsOnFile ==
  /\ ticks = log.ticks
  /\ \A i \in Items : ticks[i].is_done <=> ticks[i].done_by # Nobody
  /\ saved = log.replies
  /\ \A m \in Moderators, i \in Items : saved[m][i] <= asked[m][i]
=============================================================================
