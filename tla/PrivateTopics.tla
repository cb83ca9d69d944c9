---------------------------- MODULE PrivateTopics ----------------------------
(***************************************************************************)
(* The sections (forum topics) the bot keeps in the private chat with one   *)
(* user, and the messages it routes to them.                                *)
(* (src/app/services/private_topics_service.py; roles are granted by        *)
(* src/app/services/moderation_service.py.)                                 *)
(*                                                                         *)
(* A topic is made at Telegram first and registered afterwards, in the same *)
(* transaction; nothing but the unique constraint on user and purpose keeps *)
(* two transactions apart.  Definitions Bug_... are for mutation runs only. *)
(***************************************************************************)
EXTENDS Naturals, Sequences, FiniteSets

CONSTANTS
  Handlers,        \* transactions that may be under way for the user
  Nowhere,         \* where a message ends up that is given up
  MaxTopics,       \* bounds of the model: topics ever made,
  MaxRoleChanges,  \* grants and revocations,
  MaxFailures      \* and failures

TopicsAssumption ==
  /\ MaxTopics \in Nat /\ MaxTopics >= 3 /\ MaxRoleChanges \in Nat /\ MaxFailures \in Nat
  /\ Nowhere \notin Nat

VARIABLES
  moderator,    \* whether the user has moderator access
  roleChanges,  \* how often that has changed
  rows,         \* rows of user_private_topics, one for a purpose
  topics,       \* topics[t] is the purpose topic t was made for, at Telegram
  gone,         \* topics that have been deleted there
  tx,           \* what each handler is at
  failures      \* failures so far

topics_vars == <<moderator, roleChanges, rows, topics, gone, tx, failures>>

\* "trades" was, like "points", a section of its own in an older version.
Purposes == {"auctions", "support", "points", "moderation"}
PURPOSE_ORDER == <<"auctions", "support", "moderation">>
Threads == 1..MaxTopics
NoThread == 0
NoTopics == [p \in {} |-> NoThread]
NoRow == [thread |-> NoThread, active |-> FALSE]

_canonical_purpose(p) == IF p = "points" THEN "support" ELSE p
_required_purposes(access) ==
  {"auctions", "support"} \cup IF access THEN {"moderation"} ELSE {}

\* The active rows as a map from purposes to threads.
topics_map(rs) == [p \in {q \in Purposes : rs[q].active} |-> rs[p].thread]

\* One section serves as support and points.
_normalize_topics_map(m) ==
  LET old == {"support", "points"} \cap DOMAIN m
      thread == m[IF "support" \in old THEN "support" ELSE "points"]
  IN IF old = {} THEN m
     ELSE [p \in DOMAIN m \cup {"support", "points"} |->
             IF p \in {"support", "points"} THEN thread ELSE m[p]]

Over == [stage |-> "over", purpose |-> "auctions", access |-> FALSE, free |-> FALSE,
         known |-> NoTopics, made |-> {}, fresh |-> NoThread, doomed |-> {}, dead |-> {},
         place |-> Nowhere]  \* at rest

\* A user the bot has not met, and two the older version has left behind.
TopicsInit ==
  /\ moderator = FALSE /\ roleChanges = 0
  /\ \E old \in {<<>>, <<"points">>, <<"auctions", "support", "points">>} :
       /\ topics = old
       /\ rows = [p \in Purposes |->
                    IF \E t \in DOMAIN old : old[t] = p
                      THEN [thread |-> CHOOSE t \in DOMAIN old : old[t] = p, active |-> TRUE]
                      ELSE NoRow]
  /\ gone = {}
  /\ tx = [h \in Handlers |-> Over]
  /\ failures = 0

Fails == failures < MaxFailures /\ failures' = failures + 1

At(h, stage) == tx[h].stage = stage
-----------------------------------------------------------------------------
(* The world: roles, and what the user does in the chat.                   *)

grant_moderator_role ==
  /\ roleChanges < MaxRoleChanges /\ ~moderator
  /\ moderator' = TRUE /\ roleChanges' = roleChanges + 1
  /\ UNCHANGED <<rows, topics, gone, tx, failures>>

revoke_moderator_role ==
  /\ roleChanges < MaxRoleChanges /\ moderator
  /\ moderator' = FALSE /\ roleChanges' = roleChanges + 1
  /\ UNCHANGED <<rows, topics, gone, tx, failures>>

user_deletes_topic(t) ==
  /\ Fails
  /\ t \in DOMAIN topics \ gone
  /\ gone' = gone \cup {t}
  /\ UNCHANGED <<moderator, roleChanges, rows, topics, tx>>
-----------------------------------------------------------------------------
(* ensure_user_private_topics, one statement or call to Telegram at a time. *)

\* A command of the user, or a message somebody has for them.
load_user_topics_map(h) ==
  /\ At(h, "over")
  /\ tx' = [tx EXCEPT ![h] = [Over EXCEPT
              !.stage = "loaded", !.free = TRUE,
              !.known = _normalize_topics_map(topics_map(rows))]]
  /\ UNCHANGED <<moderator, roleChanges, rows, topics, gone, failures>>

_can_user_access_moderation_topics(h) ==
  /\ At(h, "loaded")
  /\ tx' = [tx EXCEPT ![h].stage = "creating", ![h].access = moderator]
  /\ UNCHANGED <<moderator, roleChanges, rows, topics, gone, failures>>

\* Topics are switched off in the user's client, or not the bot's to change.
topics_are_left_alone(h) ==
  /\ At(h, "creating") /\ tx[h].made = {}
  /\ \E known \in {tx[h].known, NoTopics} :
       tx' = [tx EXCEPT ![h].stage = "deleting", ![h].free = FALSE, ![h].known = known]
  /\ UNCHANGED <<moderator, roleChanges, rows, topics, gone, failures>>

Missing(h) == _required_purposes(tx[h].access) \ DOMAIN tx[h].known

NextMissing(h, p) ==
  \E k \in DOMAIN PURPOSE_ORDER :
    /\ p = PURPOSE_ORDER[k] /\ p \in Missing(h)
    /\ \A j \in 1..(k - 1) : PURPOSE_ORDER[j] \notin Missing(h)

create_forum_topic(h) ==
  /\ At(h, "creating") /\ Len(topics) < MaxTopics
  /\ \E p \in Missing(h) : NextMissing(h, p) /\ topics' = Append(topics, p)
  /\ tx' = [tx EXCEPT ![h].stage = "inserting", ![h].fresh = Len(topics) + 1]
  /\ UNCHANGED <<moderator, roleChanges, rows, gone, failures>>

\* Telegram is out of reach, or its answer is, and the loop ends; or it says
\* that topics are not to be changed, and the function returns.
creation_fails(h) ==
  /\ Fails
  /\ At(h, "creating") /\ Missing(h) # {}
  /\ \E stage \in {"pruning", "deleting"} :
       tx' = [tx EXCEPT ![h].stage = stage, ![h].free = FALSE]
  /\ \/ UNCHANGED topics
     \/ Len(topics) < MaxTopics /\ \E p \in Missing(h) : NextMissing(h, p) /\ topics' = Append(topics, p)
  /\ UNCHANGED <<moderator, roleChanges, rows, gone>>

RolledBack(h) == [tx[h] EXCEPT !.stage = "routed", !.known = NoTopics, !.made = {},
                               !.fresh = NoThread, !.doomed = {}, !.dead = {}]

Registered(h, p) ==
  [tx[h] EXCEPT !.stage = "creating", !.made = @ \cup {p}, !.fresh = NoThread,
                !.known = [q \in DOMAIN @ \cup {p} |-> IF q = p THEN tx[h].fresh ELSE @[q]]]

\* The INSERT waits for another transaction that has inserted the same purpose.
\* A committed row of that purpose, active or not, undoes the transaction.
insert_topic(h) ==
  /\ At(h, "inserting")
  /\ LET p == topics[tx[h].fresh] IN
     /\ \A g \in Handlers \ {h} : p \notin tx[g].made
     /\ tx' = [tx EXCEPT ![h] = IF rows[p] = NoRow THEN Registered(h, p) ELSE RolledBack(h)]
  /\ UNCHANGED <<moderator, roleChanges, rows, topics, gone, failures>>

\* Bug: the section for notifications is not among those to keep.
Bug_redundant_private_topic_thread_ids(h, map) ==
  {rows[p].thread : p \in {q \in Purposes : rows[q].active}}
    \ {map[p] : p \in {"auctions", "moderation"} \cap DOMAIN map}

\* Threads of active rows, by a second look at them, that are none of the
\* sections in use.
_redundant_private_topic_thread_ids(h, map) ==
  {rows[p].thread : p \in {q \in Purposes : rows[q].active}}
    \ {map[p] : p \in _required_purposes(tx[h].access) \cap DOMAIN map}

_prune_legacy_private_topics(h) ==
  /\ At(h, "pruning") \/ (At(h, "creating") /\ Missing(h) = {})
  /\ LET map == _normalize_topics_map(tx[h].known) IN
     tx' = [tx EXCEPT ![h].stage = "deleting", ![h].known = map,
                      ![h].doomed = _redundant_private_topic_thread_ids(h, map)]
  /\ UNCHANGED <<moderator, roleChanges, rows, topics, gone, failures>>

\* What cannot be deleted keeps its row.
delete_forum_topic(h, t) ==
  /\ At(h, "deleting") /\ t \in tx[h].doomed
  /\ \/ /\ t \notin gone
        /\ gone' = gone \cup {t}
        /\ tx' = [tx EXCEPT ![h].doomed = @ \ {t}, ![h].dead = @ \cup {t}]
        /\ UNCHANGED failures
     \/ /\ IF t \in gone THEN UNCHANGED failures ELSE Fails
        /\ tx' = [tx EXCEPT ![h].doomed = @ \ {t}]
        /\ UNCHANGED gone
  /\ UNCHANGED <<moderator, roleChanges, rows, topics>>

\* Bug: a topic that has been deleted keeps its row.
Bug_commit(h) ==
  /\ At(h, "deleting") /\ tx[h].doomed = {}
  /\ rows' = [p \in Purposes |->
                IF p \in tx[h].made THEN [thread |-> tx[h].known[p], active |-> TRUE] ELSE rows[p]]
  /\ tx' = [tx EXCEPT ![h].stage = "routed", ![h].made = {}, ![h].dead = {}]
  /\ UNCHANGED <<moderator, roleChanges, topics, gone, failures>>

commit(h) ==
  /\ At(h, "deleting") /\ tx[h].doomed = {}
  /\ rows' = [p \in Purposes |->
                IF p \in tx[h].made THEN [thread |-> tx[h].known[p], active |-> TRUE]
                ELSE [rows[p] EXCEPT !.active = @ /\ rows[p].thread \notin tx[h].dead]]
  /\ tx' = [tx EXCEPT ![h].stage = "routed", ![h].made = {}, ![h].dead = {}]
  /\ UNCHANGED <<moderator, roleChanges, topics, gone, failures>>

handler_dies(h) ==
  /\ Fails
  /\ ~At(h, "over")
  /\ tx' = [tx EXCEPT ![h] = Over]
  /\ UNCHANGED <<moderator, roleChanges, rows, topics, gone>>
-----------------------------------------------------------------------------
(* send_user_topic_message, after the transaction.                         *)

Target(h, p) == IF p \in DOMAIN tx[h].known THEN tx[h].known[p] ELSE NoThread

Sent(h, p, place) ==
  tx' = [tx EXCEPT ![h] = [Over EXCEPT !.purpose = p, !.place = place]]

\* Bug: a message whose section is gone is given up.
Bug_send_user_topic_message(h, p) ==
  /\ At(h, "routed")
  /\ Sent(h, p, IF Target(h, p) \in gone THEN Nowhere ELSE Target(h, p))
  /\ UNCHANGED <<moderator, roleChanges, rows, topics, gone, failures>>

\* In its section; in the chat at large when there is none or Telegram turns
\* the section down.
send_user_topic_message(h, p) ==
  /\ At(h, "routed")
  /\ Sent(h, p, IF Target(h, p) \in gone THEN NoThread ELSE Target(h, p))
  /\ UNCHANGED <<moderator, roleChanges, rows, topics, gone, failures>>

\* The user has blocked the bot, or Telegram is out of reach.
message_is_given_up(h, p) ==
  /\ Fails
  /\ At(h, "routed")
  /\ Sent(h, p, Nowhere)
  /\ UNCHANGED <<moderator, roleChanges, rows, topics, gone>>

TopicsNext ==
  \/ grant_moderator_role \/ revoke_moderator_role
  \/ \E t \in Threads : user_deletes_topic(t)
  \/ \E h \in Handlers :
       \/ load_user_topics_map(h)
       \/ _can_user_access_moderation_topics(h) \/ topics_are_left_alone(h)
       \/ create_forum_topic(h) \/ creation_fails(h) \/ insert_topic(h)
       \/ _prune_legacy_private_topics(h)
       \/ \E t \in Threads : delete_forum_topic(h, t)
       \/ commit(h) \/ handler_dies(h)
       \/ \E p \in Purposes : send_user_topic_message(h, p) \/ message_is_given_up(h, p)

TopicsSpec == TopicsInit /\ [][TopicsNext]_topics_vars
-----------------------------------------------------------------------------
(* Properties.                                                             *)

Sections == _normalize_topics_map(topics_map(rows))

\* Rows and transactions know of topics that were made only, and a fresh topic
\* is on its way to a row.
TopicsTypeOK ==
  /\ moderator \in BOOLEAN /\ roleChanges \in 0..MaxRoleChanges /\ failures \in 0..MaxFailures
  /\ rows \in [Purposes -> [thread : {NoThread} \cup DOMAIN topics, active : BOOLEAN]]
  /\ topics \in Seq(Purposes) /\ gone \subseteq DOMAIN topics
  /\ \A h \in Handlers :
       /\ DOMAIN tx[h].known \subseteq Purposes /\ tx[h].made \subseteq DOMAIN tx[h].known
       /\ tx[h].fresh \in {NoThread} \cup DOMAIN topics
       /\ tx[h].fresh # NoThread <=> At(h, "inserting")
       /\ tx[h].doomed \cup tx[h].dead \subseteq DOMAIN topics
       /\ tx[h].place \in {Nowhere, NoThread} \cup DOMAIN topics

\* The sections every user has stay the ones they are: whatever transactions
\* create and prune at the same time, and whatever an older version has left,
\* none of them takes away or replaces a section that is in use - as long as
\* Telegram does what it is asked to.
SectionsStay ==
  [][failures' = 0 =>
       \A p \in {"auctions", "support"} \cap DOMAIN Sections :
         p \in DOMAIN Sections' /\ Sections'[p] = Sections[p]]_topics_vars

\* Database and chat agree but for failures: a topic no row or transaction knows
\* of is a second one for a purpose that has a row, and an active row has its
\* topic unless a transaction that will take the row back has deleted it.
TopicsAreRegistered ==
  TopicsTypeOK /\ (failures = 0 =>
    /\ \A t \in DOMAIN topics \ gone :
         \/ \E p \in Purposes : rows[p] = [thread |-> t, active |-> TRUE]
         \/ \E h \in Handlers : tx[h].fresh = t \/ \E p \in tx[h].made : tx[h].known[p] = t
         \/ rows[topics[t]].thread \notin {NoThread, t}
    /\ \A p \in Purposes :
         rows[p].active /\ rows[p].thread \in gone => \E h \in Handlers : rows[p].thread \in tx[h].dead)

\* A message comes in the section made for what it is about, in the chat at
\* large only if that section is not there, and it comes.
MessagesComeInTheirSection ==
  [][\A h \in Handlers : At(h, "routed") /\ tx'[h].stage = "over" =>
       LET p == tx'[h].purpose
           place == tx'[h].place
       IN CASE place = Nowhere  -> failures' > 0
            [] place = NoThread -> Target(h, p) \in {NoThread} \cup gone
            [] OTHER -> _canonical_purpose(topics[place]) = _canonical_purpose(p)]_topics_vars

\* README.md:598: moderators have a section for moderation.  When nothing
\* hinders it, and no other transaction is under way, a transaction finds or
\* makes it (test_private_topics_policy_modes.py:121).
ModeratorsHaveTheirSection ==
  \A h \in Handlers :
    At(h, "routed") /\ tx[h].access /\ tx[h].free => "moderation" \in DOMAIN tx[h].known
=============================================================================
