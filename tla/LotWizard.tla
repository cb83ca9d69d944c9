----------------------------- MODULE LotWizard ------------------------------
(***************************************************************************)
(* The seven steps in which a seller enters a lot.                          *)
(* (src/app/bot/handlers/create_auction.py and                               *)
(* src/app/services/auction_create_wizard_service.py.)                       *)
(*                                                                         *)
(* The step and what was entered so far are two keys in Redis, written one  *)
(* after the other; RedisEventIsolation gives one handler at a time to a    *)
(* user in a chat.  A handler is dispatched on the step, and what it still   *)
(* has to do is the sequence `todo': the bot may be killed between any two   *)
(* of its calls, and each call to Telegram may fail.  One user in one chat;  *)
(* the texts are the step, what the hint is about and the photo count.       *)
(* Definitions Bug_... are for mutation runs only.                           *)
(***************************************************************************)
EXTENDS Integers, Sequences, FiniteSets

CONSTANTS
  Chats,      \* the chats the user may open: [type, is_dm, enabled]
  Topics,     \* topics of a chat
  StrictRouting,
  Prices,
  MaxPhotos

WizardAssumption ==
  /\ Prices \subseteq Nat \ {0} /\ MaxPhotos \in Nat \ {0}
  /\ StrictRouting \in BOOLEAN /\ 0 \notin Topics

VARIABLES
  chat,      \* where the user writes
  state,     \* the FSM key
  data,      \* the FSM data
  todo,      \* what the handler under way has still to do
  screen,    \* the messages of this wizard the user sees
  drafts,    \* how many lots this wizard has created
  spoilt     \* whether this wizard saw a crash and a failed call: one of each,
             \* at most, is the bound of the model; and (ghost) how often it died
             \* with a draft committed and its step not yet cleared

wizard_vars == <<chat, state, data, todo, screen, drafts, spoilt>>

NoStep == "none"
Steps == <<"photo", "description", "start_price", "buyout_price", "min_step", "duration", "anti_sniper">>
Unset == -1
Skipped == 0

Fresh == [crash |-> FALSE, call |-> FALSE, reopened |-> 0]

\* What get_data() returns after clear().
Empty == [photos |-> 0, description |-> FALSE, start_price |-> Unset, buyout_price |-> Unset,
          min_step |-> FALSE, duration |-> FALSE, anti_sniper |-> FALSE,
          topic |-> 0, board |-> 0, shown |-> <<>>]

(***************************************************************************)
(* Where a message may come from.                                          *)
(***************************************************************************)
resolve_auction_intake_context(c) ==
  CASE c.type = "private" -> "private"
    [] c.type = "supergroup" /\ c.is_dm /\ c.enabled -> "channel_dm"
    [] OTHER -> "unsupported"

\* A private chat may be without topics, and direct messages never are.
may_come_from(c, t) == t \in Topics \cup (IF c.type = "private" THEN {0} ELSE {})

_ensure_auction_state(t) ==
  IF resolve_auction_intake_context(chat) = "channel_dm"
    THEN data.topic = 0 \/ t = data.topic
    ELSE ~StrictRouting \/ data.topic = 0 \/ t = data.topic

(***************************************************************************)
(* What handlers do.                                                       *)
(***************************************************************************)
SetState(s) == [op |-> "state", to |-> s]
Update(f, v) == [op |-> "data", field |-> f, to |-> v]
Board(step, note, repost) == [op |-> "board", step |-> step, note |-> note, repost |-> repost]
Wipe == [op |-> "wipe"]
Commit == [op |-> "commit"]
clear == <<SetState(NoStep), Wipe>>

dispatch(calls) ==
  /\ todo = <<>>
  /\ todo' = calls
  /\ UNCHANGED <<chat, state, data, screen, drafts, spoilt>>

\* A message or a press in step s, from where the wizard was started.
in_step(s) == state = s /\ \E t \in Topics \cup {0} : may_come_from(chat, t) /\ _ensure_auction_state(t)

moves_on(f, v, next) == <<Update(f, v), SetState(next), Board(next, "saved", FALSE)>>

WizardInit ==
  /\ chat \in Chats
  /\ state = NoStep /\ data = Empty /\ todo = <<>>
  /\ screen = {} /\ drafts = 0
  /\ spoilt = Fresh

\* /newauction and the button create:new, of a user who is not on the
\* blacklist; clears what was there.
command_new_auction(t) ==
  /\ resolve_auction_intake_context(chat) # "unsupported" /\ may_come_from(chat, t)
  /\ dispatch(clear \o <<SetState("photo"), Update("topic", t), Board("photo", "start", FALSE)>>)

cancel_creation ==
  /\ resolve_auction_intake_context(chat) # "unsupported"
  /\ dispatch(clear)

\* A photo counts in the first two steps; the later ones of an album come
\* without a word.
create_photo_step(s, kind) ==
  /\ s \in {"photo", "description"} /\ in_step(s)
  /\ dispatch(CASE kind = "seen" -> <<>>
                [] kind # "seen" /\ data.photos >= MaxPhotos -> <<Board(s, "error", FALSE)>>
                [] kind = "single" /\ data.photos < MaxPhotos ->
                     <<Update("photos", data.photos + 1), Board(s, "added", TRUE)>>
                [] kind = "album" /\ data.photos < MaxPhotos ->
                     <<Update("photos", data.photos + 1)>>)

create_photos_done ==
  /\ in_step("photo")
  /\ dispatch(IF data.photos = 0 THEN <<>>
              ELSE <<SetState("description"), Board("description", "saved", FALSE)>>)

create_description_step ==
  in_step("description") /\ dispatch(moves_on("description", TRUE, "start_price"))

Bug_create_start_price_step(p) ==
  /\ in_step("start_price")
  /\ dispatch(<<SetState("buyout_price"), Update("start_price", p),
                Board("buyout_price", "saved", FALSE)>>)

create_start_price_step(p) ==
  in_step("start_price") /\ dispatch(moves_on("start_price", p, "buyout_price"))

create_buyout_skip ==
  in_step("buyout_price") /\ dispatch(moves_on("buyout_price", Skipped, "min_step"))

create_buyout_step(p) ==
  /\ in_step("buyout_price")
  /\ dispatch(IF p < data.start_price THEN <<Board("buyout_price", "error", FALSE)>>
              ELSE moves_on("buyout_price", p, "min_step"))

create_min_step_step == in_step("min_step") /\ dispatch(moves_on("min_step", TRUE, "duration"))

create_duration_step == in_step("duration") /\ dispatch(moves_on("duration", TRUE, "anti_sniper"))

\* Anything a step cannot use: the hint again, or an error.
create_step_invalid(s) == in_step(s) /\ dispatch(<<Board(s, "error", FALSE)>>)

\* Who came to be on the blacklist in the meantime gets no lot.
create_anti_sniper_step(banned) ==
  /\ in_step("anti_sniper")
  /\ dispatch(IF banned THEN clear
              ELSE <<Update("anti_sniper", TRUE), Board("anti_sniper", "wait", FALSE), Commit>>)

(***************************************************************************)
(* One call of the handler under way.                                      *)
(***************************************************************************)
Doing(op) == todo # <<>> /\ Head(todo).op = op
done_call == UNCHANGED chat

write_state ==
  /\ Doing("state")
  /\ state' = Head(todo).to
  /\ todo' = Tail(todo)
  /\ done_call /\ UNCHANGED <<data, screen, drafts, spoilt>>

write_data ==
  /\ Doing("data")
  /\ data' = [data EXCEPT ![Head(todo).field] = Head(todo).to]
  /\ todo' = Tail(todo)
  /\ done_call /\ UNCHANGED <<state, screen, drafts, spoilt>>

\* The wizard is over; its board stays in the chat, but nothing refers to it.
wipe_data ==
  /\ Doing("wipe")
  /\ data' = Empty
  /\ screen' = {} /\ drafts' = 0 /\ spoilt' = Fresh
  /\ todo' = Tail(todo)
  /\ done_call /\ UNCHANGED state

Bug_commit_draft ==
  /\ Doing("commit")
  /\ drafts' = drafts + 1
  /\ todo' = <<Board("anti_sniper", "finished", FALSE)>>
  /\ done_call /\ UNCHANGED <<state, data, screen, spoilt>>

\* The draft, if the data is all there and the table's checks hold; a
\* KeyError or an IntegrityError ends the handler.
commit_draft ==
  LET complete == data.photos > 0 /\ data.description /\ data.start_price # Unset
                    /\ data.min_step /\ data.duration
      lawful == data.buyout_price \in {Unset, Skipped} \/ data.buyout_price >= data.start_price
  IN
  /\ Doing("commit")
  /\ IF complete /\ lawful
       THEN /\ drafts' = drafts + 1
            /\ todo' = <<Board("anti_sniper", "finished", FALSE)>> \o clear
       ELSE drafts' = drafts /\ todo' = <<>>
  /\ done_call /\ UNCHANGED <<state, data, screen, spoilt>>

Text(b) == <<b.step, b.note, data.photos>>
OnScreen(id) == \E m \in screen : m.id = id
Without(id) == {m \in screen : m.id # id}

\* Remember what was shown and, if it was sent anew, as which message.
remember(text, id) == [op |-> "shown", text |-> text, id |-> id]

Bug_write_shown ==
  LET h == Head(todo) IN
  /\ Doing("shown")
  /\ data' = [data EXCEPT !.shown = h.text, !.board = IF @ = 0 THEN h.id ELSE @]
  /\ todo' = Tail(todo)
  /\ done_call /\ UNCHANGED <<state, screen, drafts, spoilt>>

write_shown ==
  LET h == Head(todo) IN
  /\ Doing("shown")
  /\ data' = [data EXCEPT !.shown = h.text, !.board = h.id]
  /\ todo' = Tail(todo)
  /\ done_call /\ UNCHANGED <<state, screen, drafts, spoilt>>

\* A new message has an id that nothing refers to.
new_id == CHOOSE n \in 1..Cardinality(screen) + 2 :
            /\ n # data.board /\ ~OnScreen(n)
            /\ \A k \in 1..n - 1 : k = data.board \/ OnScreen(k)

answer(text, then) ==
  /\ screen' = screen \cup {[id |-> new_id, text |-> text]}
  /\ todo' = then \o <<remember(text, new_id)>> \o Tail(todo)

call_fails ==
  /\ ~spoilt.call
  /\ spoilt' = [spoilt EXCEPT !.call = TRUE]

calls_work == UNCHANGED spoilt

\* upsert_create_wizard_progress: nothing when the text is the one last
\* remembered; a new message below the photos when it should be reposted,
\* the old one deleted; otherwise, or when that fails, an edit; and a new
\* message when there is none to edit.
Delete(id) == [op |-> "delete", id |-> id]

board_unchanged ==
  /\ Doing("board") /\ data.shown = Text(Head(todo))
  /\ todo' = Tail(todo)
  /\ done_call /\ UNCHANGED <<state, data, screen, drafts, spoilt>>

shows_board ==
  Doing("board") /\ data.shown # Text(Head(todo)) /\ done_call
    /\ UNCHANGED <<state, data, drafts>>

board_is_reposted ==
  LET text == Text(Head(todo)) IN
  /\ shows_board /\ Head(todo).repost /\ data.board # 0
  /\ \/ answer(text, <<Delete(data.board)>>) /\ calls_work
     \/ /\ call_fails
        /\ todo' = <<[Head(todo) EXCEPT !.repost = FALSE]>> \o Tail(todo)
        /\ UNCHANGED screen

board_is_edited ==
  LET text == Text(Head(todo)) IN
  /\ shows_board /\ ~(Head(todo).repost /\ data.board # 0)
  /\ OnScreen(data.board)
  /\ screen' = {IF m.id = data.board THEN [m EXCEPT !.text = text] ELSE m : m \in screen}
  /\ todo' = <<remember(text, data.board)>> \o Tail(todo)
  /\ calls_work

board_is_sent ==
  LET text == Text(Head(todo)) IN
  /\ shows_board /\ ~(Head(todo).repost /\ data.board # 0)
  /\ \/ ~OnScreen(data.board) /\ answer(text, <<>>) /\ calls_work
     \/ OnScreen(data.board) /\ call_fails /\ answer(text, <<>>)
     \/ /\ call_fails
        /\ todo' = <<remember(text, data.board)>> \o Tail(todo)
        /\ UNCHANGED screen

delete_board ==
  /\ Doing("delete")
  /\ \/ screen' = Without(Head(todo).id) /\ calls_work
     \/ call_fails /\ UNCHANGED screen
  /\ todo' = Tail(todo)
  /\ done_call /\ UNCHANGED <<state, data, drafts>>

(***************************************************************************)
(* The surroundings.                                                       *)
(***************************************************************************)
\* The draft is there, and so is the step that makes it.
draft_is_not_cleared ==
  drafts > spoilt.reopened /\ \E i \in DOMAIN todo : todo[i].op = "state" /\ todo[i].to = NoStep

\* The bot is killed, or a call to Redis or answering the callback query raises.
wizard_crash ==
  /\ todo # <<>> /\ ~spoilt.crash
  /\ todo' = <<>>
  /\ spoilt' = [spoilt EXCEPT !.crash = TRUE, !.reopened = IF draft_is_not_cleared THEN @ + 1 ELSE @]
  /\ UNCHANGED <<chat, state, data, screen, drafts>>

user_deletes_board(m) ==
  /\ call_fails
  /\ screen' = screen \ {m}
  /\ UNCHANGED <<chat, state, data, todo, drafts>>

PhotoKinds == {"single", "album", "seen"}

WizardNext ==
  \/ \E t \in Topics \cup {0} : command_new_auction(t)
  \/ cancel_creation
  \/ \E s \in {"photo", "description"}, k \in PhotoKinds : create_photo_step(s, k)
  \/ create_photos_done
  \/ create_description_step
  \/ \E p \in Prices : create_start_price_step(p)
  \/ create_buyout_skip
  \/ \E p \in Prices : create_buyout_step(p)
  \/ create_min_step_step
  \/ create_duration_step
  \/ \E b \in BOOLEAN : create_anti_sniper_step(b)
  \/ \E i \in DOMAIN Steps : create_step_invalid(Steps[i])
  \/ write_state \/ write_data \/ wipe_data \/ write_shown \/ commit_draft
  \/ board_unchanged \/ board_is_reposted \/ board_is_edited \/ board_is_sent \/ delete_board
  \/ wizard_crash
  \/ \E m \in screen : user_deletes_board(m)

WizardSpec == WizardInit /\ [][WizardNext]_wizard_vars

(***************************************************************************)
(* Properties.                                                             *)
(***************************************************************************)
Before(s) == {Steps[i] : i \in {j \in DOMAIN Steps : \E k \in DOMAIN Steps : k > j /\ Steps[k] = s}}

(* Wherever the bot was killed, a wizard that stands at a step holds all    *)
(* that the steps before it ask for, so that it can be finished: what is     *)
(* entered is stored before the step is changed.                             *)
WizardIsComplete ==
  LET b == Before(state) IN
  /\ "photo" \in b => data.photos > 0
  /\ "description" \in b => data.description
  /\ "start_price" \in b => data.start_price \in Prices
  /\ "buyout_price" \in b => data.buyout_price = Skipped \/ data.buyout_price >= data.start_price
  /\ "min_step" \in b => data.min_step
  /\ "duration" \in b => data.duration

(* One wizard makes one lot, however often its last button is pressed.  Each  *)
(* further one takes a kill, or a call that raised, between the commit of a   *)
(* lot and the clearing of the step; no other kill and no failed call of      *)
(* Telegram makes a second lot.                                              *)
OneDraftPerWizard == drafts <= 1 + spoilt.reopened

(* As long as no call failed and the bot was not killed, the user has one    *)
(* board of the wizard, the one that is remembered, and it shows the step    *)
(* the next message will be taken for.                                       *)
BoardIsCurrent ==
  (todo = <<>> /\ state # NoStep /\ spoilt = Fresh) =>
     \E m \in screen : screen = {m} /\ m.id = data.board /\ m.text[1] = state
=============================================================================
