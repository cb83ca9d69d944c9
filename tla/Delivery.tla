------------------------------ MODULE Delivery ------------------------------
(***************************************************************************)
(* What decides whether one user gets a notice: the settings, the pause of  *)
(* a lot and the quiet hours in the database, and the debounce, the digest  *)
(* and the deferred counts in Redis.                                        *)
(* (src/app/services/notification_policy_service.py and its neighbours;     *)
(* notices start in _notify_outbid and send_user_topic_message.)            *)
(*                                                                         *)
(* A notice makes one call to Redis or the database at a time, next to      *)
(* other notices and the user's presses; each of these may be the last one. *)
(* One tick stands for a minute of the debounce and for an hour of the day: *)
(* only the order of the deadlines matters.  The SELECTs of a decision are   *)
(* taken as one.  Definitions Bug_... are for mutation runs only.           *)
(***************************************************************************)
EXTENDS Integers, FiniteSetsExt

CONSTANTS
  Workers,         \* notices that may be under way
  Events,          \* the kinds of notices
  DebounceTtl, DigestWindow, DeferTtl, SnoozeFor, Day,
  QuietHours,      \* pairs of hours the keyboard offers
  DefaultHours,    \* those of a user who has set none
  Offsets,         \* time zones the keyboard offers
  Faults,          \* whether Redis, Telegram and the bot may fail
  MaxTime, MaxNotices, MaxPresses  \* bounds of the model

DeliveryAssumption ==
  /\ {DebounceTtl, DigestWindow, DeferTtl, SnoozeFor, Day} \subseteq Nat \ {0}
  /\ Events \subseteq {"outbid", "finish", "win", "mod", "points", "support"}
  /\ QuietHours \subseteq (0..Day - 1) \X (0..Day - 1)
  /\ DefaultHours \in QuietHours /\ 0 \in Offsets /\ Offsets \subseteq Nat
  /\ Faults \in BOOLEAN /\ {MaxTime, MaxNotices, MaxPresses} \subseteq Nat

VARIABLES
  now,
  prefs,     \* the user's settings
  snooze,    \* until when the lot is paused; 0 without a pause
  redis,     \* the keys of this user and lot
  call,      \* what each worker is at
  presses,   \* how many settings the user has changed
  hist       \* what has happened, for the properties

delivery_vars == <<now, prefs, snooze, redis, call, presses, hist>>

Never == MaxTime + DeferTtl + 1       \* the deadline of a key without one
Absent == [n |-> 0, end |-> 0]
Deadline(ttl) == now + ttl
Held(end) == end # 0

Tier(e) == CASE e = "win" -> "critical"
             [] e \in {"finish", "mod", "support"} -> "high"
             [] e = "outbid" -> "normal"
             [] e = "points" -> "low"
should_defer(e) == Tier(e) \in {"normal", "low"}
OfLot(e) == e \in {"outbid", "finish", "win", "mod"}

Presets == {"recommended", "important", "all", "custom"}
preset_values(p) == [e \in Events |-> ~(p = "important" /\ e \in {"outbid", "points"})]

\* The toggles that count: those of the preset, or the row's own.
snapshot == IF prefs.preset = "custom" THEN prefs.on ELSE preset_values(prefs.preset)

is_within_quiet_hours ==
  LET hour == (now + prefs.offset) % Day
      start == prefs.hours[1]
      end == prefs.hours[2]
  IN CASE start = end -> FALSE
       [] start < end -> start <= hour /\ hour < end
       [] start > end -> start <= hour \/ hour < end

notification_delivery_decision(e) ==
  CASE ~prefs.master -> "blocked_master"
    [] prefs.master /\ OfLot(e) /\ snooze > now -> "blocked_auction_snooze"
    [] OTHER -> IF should_defer(e) /\ prefs.quiet /\ is_within_quiet_hours
                  THEN "quiet_hours_deferred"
                ELSE IF snapshot[e] THEN "allowed" ELSE "blocked_event_toggle"

NoNotice == [at |-> "idle", event |-> "none", count |-> 0]

DeliveryInit ==
  /\ now = 0
  /\ prefs = [master |-> TRUE, preset |-> "recommended", quiet |-> FALSE,
              on |-> preset_values("recommended"), hours |-> DefaultHours, offset |-> 0]
  /\ snooze = 0
  /\ redis = [debounce |-> 0, count |-> Absent, emit |-> 0,
              deferred |-> [e \in Events |-> Absent]]
  /\ call = [w \in Workers |-> NoNotice]
  /\ presses = 0
  /\ hist = [begun |-> 0, sent |-> 0, suppressed |-> 0, aborted |-> 0,
             deferred |-> [e \in Events |-> 0], told |-> [e \in Events |-> 0],
             passed |-> 0, lost |-> 0, digested |-> FALSE]
-----------------------------------------------------------------------------
(* The user's presses, each a transaction that holds the user's row.       *)

Press(newPrefs) ==
  /\ presses < MaxPresses /\ newPrefs # prefs
  /\ presses' = presses + 1
  /\ prefs' = newPrefs
  /\ UNCHANGED <<now, snooze, redis, call, hist>>

set_master_notifications_enabled(on) == Press([prefs EXCEPT !.master = on])

set_notification_preset(p) ==
  Press([prefs EXCEPT !.preset = p, !.on = IF p = "custom" THEN @ ELSE preset_values(p)])

toggle_notification_event(e) ==
  Press([prefs EXCEPT !.preset = "custom", !.on[e] = ~@])

\* The button "mute this type" under a notice, and its counterpart in the settings.
set_notification_event_enabled(e, on) ==
  Press([prefs EXCEPT !.preset = "custom", !.on[e] = on])

set_quiet_hours_settings(on, hours) ==
  /\ on \/ hours = prefs.hours
  /\ Press([prefs EXCEPT !.quiet = on, !.hours = hours])

set_quiet_hours_timezone(offset) == Press([prefs EXCEPT !.offset = offset])

Pause(until) ==
  /\ presses < MaxPresses /\ until # snooze
  /\ presses' = presses + 1
  /\ snooze' = until
  /\ UNCHANGED <<now, prefs, redis, call, hist>>

set_auction_notification_snooze == Pause(now + SnoozeFor)
clear_auction_notification_snooze == snooze # 0 /\ Pause(0)
-----------------------------------------------------------------------------
(* A notice, one call to Redis or the database at a time.                  *)

WorkerAt(w, place) == call[w].at = place
Quiet == UNCHANGED <<now, prefs, snooze, presses>>
Goes(w, place) == call' = [call EXCEPT ![w].at = place]
Ends(w) == call' = [call EXCEPT ![w] = NoNotice]
Recorded(kind) == hist' = [hist EXCEPT ![kind] = @ + 1]

begin_notice(w, e) ==
  /\ WorkerAt(w, "idle") /\ hist.begun < MaxNotices
  /\ call' = [call EXCEPT ![w] = [NoNotice EXCEPT
                !.at = IF e = "outbid" THEN "gate" ELSE "decision", !.event = e]]
  /\ Recorded("begun")
  /\ Quiet /\ UNCHANGED redis

Bug_acquire_outbid_notification_debounce(w) ==
  /\ WorkerAt(w, "gate")
  /\ IF Held(redis.debounce)
       THEN /\ Goes(w, "digest_incr") /\ Recorded("suppressed")
            /\ redis' = [redis EXCEPT !.debounce = Deadline(DebounceTtl)]
       ELSE /\ redis' = [redis EXCEPT !.debounce = Deadline(DebounceTtl)]
            /\ hist' = [hist EXCEPT !.passed = now]
            /\ Goes(w, "decision")
  /\ Quiet

acquire_outbid_notification_debounce(w) ==
  /\ WorkerAt(w, "gate")
  /\ IF Held(redis.debounce)
       THEN /\ Goes(w, "digest_incr") /\ Recorded("suppressed")
            /\ UNCHANGED redis
       ELSE /\ redis' = [redis EXCEPT !.debounce = Deadline(DebounceTtl)]
            /\ hist' = [hist EXCEPT !.passed = now]
            /\ Goes(w, "decision")
  /\ Quiet

\* register_outbid_notification_suppression: INCR, EXPIRE if it made the key,
\* and SET NX from the second on.
digest_incr(w) ==
  /\ WorkerAt(w, "digest_incr")
  /\ LET n == redis.count.n + 1 IN
       /\ redis' = [redis EXCEPT !.count = [n |-> n, end |-> IF n = 1 THEN Never ELSE @.end]]
       /\ call' = [call EXCEPT ![w].at = IF n = 1 THEN "digest_expire" ELSE "digest_emit",
                               ![w].count = n]
       /\ hist' = [hist EXCEPT !.digested = @ /\ n # 1]
  /\ Quiet

digest_expire(w) ==
  /\ WorkerAt(w, "digest_expire")
  /\ redis' = [redis EXCEPT !.count.end = Deadline(DigestWindow)]
  /\ Ends(w) /\ Quiet /\ UNCHANGED hist

digest_emit(w) ==
  /\ WorkerAt(w, "digest_emit")
  /\ IF Held(redis.emit)
       THEN Ends(w) /\ UNCHANGED <<redis, hist>>
       ELSE /\ redis' = [redis EXCEPT !.emit = Deadline(DigestWindow)]
            /\ call' = [call EXCEPT ![w].at = "decision", ![w].count = 0]
            /\ hist' = [hist EXCEPT !.digested = TRUE, !.begun = @ + 1]
  /\ Quiet

\* send_user_topic_message: the decision, then a deferred count or the message.
decide(w) ==
  /\ WorkerAt(w, "decision")
  /\ LET reason == notification_delivery_decision(call[w].event) IN
       CASE reason = "allowed" -> Goes(w, "pop") /\ UNCHANGED hist
         [] reason = "quiet_hours_deferred" -> Goes(w, "defer") /\ Recorded("suppressed")
         [] OTHER -> Ends(w) /\ Recorded("suppressed")
  /\ Quiet /\ UNCHANGED redis

defer_notification_event(w) ==
  LET e == call[w].event IN
  /\ WorkerAt(w, "defer")
  /\ redis' = [redis EXCEPT !.deferred[e] =
                 [n |-> @.n + 1, end |-> IF @.n = 0 THEN Never ELSE @.end]]
  /\ hist' = [hist EXCEPT !.deferred[e] = @ + 1]
  /\ Goes(w, "defer_expire") /\ Quiet

defer_expire(w) ==
  LET e == call[w].event IN
  /\ WorkerAt(w, "defer_expire")
  /\ redis' = [redis EXCEPT !.deferred[e].end = IF redis.deferred[e].n = 0 THEN 0
                                                ELSE Deadline(DeferTtl)]
  /\ Ends(w) /\ Quiet /\ UNCHANGED hist

Bug_pop_deferred_notification_count(w) ==
  LET e == call[w].event IN
  /\ WorkerAt(w, "pop")
  /\ \E n \in {redis.deferred[e].n} \cup IF Faults THEN {0} ELSE {} :
       call' = [call EXCEPT ![w].at = "send", ![w].count = n]
  /\ Quiet /\ UNCHANGED <<redis, hist>>

\* GETDEL; a failure counts as nothing deferred, also when only the answer is lost.
pop_deferred_notification_count(w) ==
  LET e == call[w].event IN
  /\ WorkerAt(w, "pop")
  /\ redis' = [redis EXCEPT !.deferred[e] = Absent]
  /\ \E n \in {redis.deferred[e].n} \cup IF Faults THEN {0} ELSE {} :
       call' = [call EXCEPT ![w].at = "send", ![w].count = n]
  /\ Quiet /\ UNCHANGED hist

message_arrives(w) ==
  LET e == call[w].event IN
  /\ WorkerAt(w, "send")
  /\ hist' = [hist EXCEPT !.told[e] = @ + call[w].count, !.sent = @ + 1]
  /\ Ends(w) /\ Quiet /\ UNCHANGED redis

\* Forbidden, a refused request or an API error: the popped count is gone too.
message_is_refused(w) ==
  /\ Faults /\ WorkerAt(w, "send")
  /\ Recorded("suppressed")
  /\ Ends(w) /\ Quiet /\ UNCHANGED redis
-----------------------------------------------------------------------------
(* Faults and time.                                                        *)

\* The gate lets an exception of Redis out; the other calls log it and go on.  A call
\* that was carried out and whose answer is lost comes next for SET NX; for INCR it is
\* the call followed by a failure of the next one, and for EXPIRE the call itself.
redis_fails(w) ==
  /\ Faults
  /\ call[w].at \in {"gate", "digest_incr", "digest_expire", "digest_emit",
                     "defer", "defer_expire", "pop"}
  /\ IF WorkerAt(w, "pop") THEN Goes(w, "send") ELSE Ends(w)
  /\ IF WorkerAt(w, "gate") THEN Recorded("aborted") ELSE UNCHANGED hist
  /\ Quiet /\ UNCHANGED redis

\* SET NX has put its key there, but the answer does not come; a kill before the
\* answer is this followed by `restart'.
set_answer_is_lost(w) ==
  /\ Faults
  /\ \/ /\ WorkerAt(w, "gate") /\ ~Held(redis.debounce)
        /\ redis' = [redis EXCEPT !.debounce = Deadline(DebounceTtl)]
        /\ hist' = [hist EXCEPT !.lost = now, !.aborted = @ + 1]
     \/ /\ WorkerAt(w, "digest_emit") /\ ~Held(redis.emit)
        /\ redis' = [redis EXCEPT !.emit = Deadline(DigestWindow)]
        /\ UNCHANGED hist
  /\ Ends(w) /\ Quiet

\* Notices of which nothing has been recorded yet.
Open == {w \in Workers : call[w].at \in {"gate", "decision", "pop", "send"}}

restart ==
  /\ Faults /\ \E w \in Workers : call[w] # NoNotice
  /\ call' = [w \in Workers |-> NoNotice]
  /\ hist' = [hist EXCEPT !.aborted = @ + Cardinality(Open)]
  /\ Quiet /\ UNCHANGED redis

Kept(key, t) == IF key.end > t THEN key ELSE Absent

Tick ==
  /\ now < MaxTime
  /\ now' = now + 1
  /\ redis' = [debounce |-> IF redis.debounce > now' THEN redis.debounce ELSE 0,
               emit |-> IF redis.emit > now' THEN redis.emit ELSE 0,
               count |-> Kept(redis.count, now'),
               deferred |-> [e \in Events |-> Kept(redis.deferred[e], now')]]
  /\ snooze' = IF snooze > now' THEN snooze ELSE 0
  /\ UNCHANGED <<prefs, call, presses, hist>>

Presses ==
  \/ \E on \in BOOLEAN : set_master_notifications_enabled(on)
  \/ \E p \in Presets : set_notification_preset(p)
  \/ \E e \in Events : toggle_notification_event(e)
  \/ \E e \in Events, on \in BOOLEAN : set_notification_event_enabled(e, on)
  \/ \E on \in BOOLEAN, hours \in QuietHours : set_quiet_hours_settings(on, hours)
  \/ \E offset \in Offsets : set_quiet_hours_timezone(offset)
  \/ set_auction_notification_snooze
  \/ clear_auction_notification_snooze

Notice(w) ==
  \/ \E e \in Events : begin_notice(w, e)
  \/ acquire_outbid_notification_debounce(w)
  \/ digest_incr(w) \/ digest_expire(w) \/ digest_emit(w)
  \/ decide(w)
  \/ defer_notification_event(w) \/ defer_expire(w)
  \/ pop_deferred_notification_count(w)
  \/ message_arrives(w) \/ message_is_refused(w)
  \/ redis_fails(w) \/ set_answer_is_lost(w)

DeliveryNext == Presses \/ (\E w \in Workers : Notice(w)) \/ restart \/ Tick

DeliverySpec == DeliveryInit /\ [][DeliveryNext]_delivery_vars
-----------------------------------------------------------------------------
(* Properties.                                                             *)

Key == [n : Nat, end : Nat]

\* The state has the shape described above.
DeliveryTypeOK ==
  /\ now \in 0..MaxTime /\ snooze \in Nat /\ presses \in 0..MaxPresses
  /\ prefs \in [master : BOOLEAN, preset : Presets, quiet : BOOLEAN,
                on : [Events -> BOOLEAN], hours : QuietHours, offset : Offsets]
  /\ redis \in [debounce : Nat, count : Key, emit : Nat, deferred : [Events -> Key]]
  /\ \A w \in Workers : call[w].event \in Events \cup {"none"} /\ call[w].count \in Nat

\* A notice put off in the quiet hours is counted in one summary at most, whatever
\* order the counts are raised, taken and sent in, and whatever fails or restarts.
DeferredIsToldOnce ==
  \A e \in Events :
    LET carried == {w \in Workers : WorkerAt(w, "send") /\ call[w].event = e}
    IN hist.told[e] + redis.deferred[e].n + MapThenSumSet(LAMBDA w : call[w].count, carried)
         <= hist.deferred[e]

\* A stream of outbids does not prolong the debounce, whatever fails: it ends on time
\* after the notice let through last, or after the last one for which the key was set
\* and only the answer of Redis was lost, so that nothing was let through.
SilenceIsBounded ==
  Held(redis.debounce) => \/ redis.debounce <= hist.passed + DebounceTtl
                          \/ redis.debounce <= hist.lost + DebounceTtl

\* Every notice and every digest ends up in the statistics once, as sent or as
\* suppressed, unless Redis or the bot failed before its fate was known.
NoticesAddUp ==
  hist.begun = hist.sent + hist.suppressed + hist.aborted + Cardinality(Open)

\* The toggles stored under a preset are those the preset shows, so that changing
\* one of them changes no other.
PresetsMeanWhatTheySay ==
  (prefs.preset # "custom") => prefs.on = preset_values(prefs.preset)

\* docs/release/sprint-44-notification-digest-mode.md:13: repeated outbids within
\* a window are told in one digest for that window.
BusyWindowsAreDigested ==
  [][(/\ redis.count.n >= 2 /\ redis.count.end = now'
      /\ \A w \in Workers : ~WorkerAt(w, "digest_emit")) => hist.digested]_delivery_vars
=============================================================================
