--------------------------- MODULE RuntimeSettings ---------------------------
(***************************************************************************)
(* Settings the owner overrides at run time.                                *)
(* (src/app/services/runtime_settings_service.py and the two actions of       *)
(* src/app/web/main.py.)                                                     *)
(*                                                                         *)
(* The panel writes rows; the bot, another process, reads them through a      *)
(* cache of its own that lives for ten seconds, filled by whichever coroutine *)
(* finds it expired.  The clock moves between any two statements.  One key.   *)
(* Definitions Bug_... are for mutation runs only.                            *)
(***************************************************************************)
EXTENDS Integers, FiniteSets

CONSTANTS
  Values,    \* what may be written for the key: lawful values
  Junk,      \* a value that does not parse: typed in, or stored by an older release
  Default,   \* the value from the environment
  PanelRequests,  \* requests at the same time
  Readers,   \* coroutines of the bot
  _CACHE_TTL_SECONDS,
  MaxTime    \* bound of the model

SettingsAssumption ==
  /\ Junk \notin Values /\ Default \in Values
  /\ _CACHE_TTL_SECONDS \in Nat /\ MaxTime \in Nat

VARIABLES
  row,       \* the committed override, or None
  request,   \* [stage, value] of each request
  cache,     \* [value, expires_at]
  reader,    \* [stage, now, value] of each coroutine that reads the setting
  now,
  since      \* ghost: when each value was last in force

settings_vars == <<row, request, cache, reader, now, since>>

None == "none"
Idle == [stage |-> "idle"]
Never == -1

\* What a stored value counts for.
_coerce_stored_value(v) == IF v \in Values THEN v ELSE Default

SettingsInit ==
  /\ row \in {None, Junk} \cup Values
  /\ request = [r \in PanelRequests |-> Idle]
  /\ cache = [value |-> None, expires_at |-> 0]
  /\ reader = [c \in Readers |-> Idle]
  /\ now = 0
  /\ since = [v \in Values |-> IF v = _coerce_stored_value(row) THEN 0 ELSE Never]

\* A value was in force at least until it gave way to another.
write_row(v) ==
  /\ row' = v
  /\ since' = [since EXCEPT ![_coerce_stored_value(row)] = now,
                            ![_coerce_stored_value(v)] = now]

(***************************************************************************)
(* The panel.  The row is looked up without a lock; a second insert of the   *)
(* key, and an update or a delete of a row that is gone, fail or do nothing.  *)
(***************************************************************************)
action_set_runtime_setting(r, v) ==
  /\ request[r] = Idle
  /\ v # Junk
  /\ request' = [request EXCEPT ![r] = [stage |-> IF row = None THEN "insert" ELSE "update",
                                        value |-> v]]
  /\ UNCHANGED <<row, cache, reader, now, since>>

upsert_runtime_setting_override(r) ==
  LET found == IF request[r].stage = "insert" THEN row = None ELSE row # None IN
  /\ request[r].stage \in {"insert", "update"}
  /\ IF found THEN write_row(request[r].value) ELSE UNCHANGED <<row, since>>
  /\ request' = [request EXCEPT ![r] = Idle]
  /\ UNCHANGED <<cache, reader, now>>

action_delete_runtime_setting(r) ==
  /\ request[r] = Idle
  /\ row # None
  /\ request' = [request EXCEPT ![r] = [stage |-> "delete", value |-> None]]
  /\ UNCHANGED <<row, cache, reader, now, since>>

delete_runtime_setting_override(r) ==
  /\ request[r].stage = "delete"
  /\ write_row(None)
  /\ request' = [request EXCEPT ![r] = Idle]
  /\ UNCHANGED <<cache, reader, now>>

(***************************************************************************)
(* The bot.                                                                *)
(***************************************************************************)
cache_answers == cache.value # None /\ cache.expires_at > now

\* Nothing more happens when the cache answers.
get_runtime_setting_value(c) ==
  /\ reader[c] = Idle
  /\ ~cache_answers
  /\ reader' = [reader EXCEPT ![c] = [stage |-> "query", now |-> now, value |-> None]]
  /\ UNCHANGED <<row, request, cache, now, since>>

\* A database error answers with the default, and caches nothing.
query_overrides(c) ==
  /\ reader[c].stage = "query"
  /\ \/ reader' = [reader EXCEPT ![c].stage = "store", ![c].value = _coerce_stored_value(row)]
     \/ reader' = [reader EXCEPT ![c] = Idle]
  /\ UNCHANGED <<row, request, cache, now, since>>

Bug_store_cache(c) ==
  /\ reader[c].stage = "store"
  /\ cache' = [value |-> reader[c].value, expires_at |-> now + _CACHE_TTL_SECONDS]
  /\ reader' = [reader EXCEPT ![c] = Idle]
  /\ UNCHANGED <<row, request, now, since>>

\* It expires by the clock as it was before the query.
store_cache(c) ==
  /\ reader[c].stage = "store"
  /\ cache' = [value |-> reader[c].value, expires_at |-> reader[c].now + _CACHE_TTL_SECONDS]
  /\ reader' = [reader EXCEPT ![c] = Idle]
  /\ UNCHANGED <<row, request, now, since>>

Tick ==
  /\ now < MaxTime
  /\ now' = now + 1
  /\ UNCHANGED <<row, request, cache, reader, since>>

SettingsNext ==
  \/ \E r \in PanelRequests, v \in Values \cup {Junk} : action_set_runtime_setting(r, v)
  \/ \E r \in PanelRequests : \/ upsert_runtime_setting_override(r)
                         \/ action_delete_runtime_setting(r)
                         \/ delete_runtime_setting_override(r)
  \/ \E c \in Readers : \/ get_runtime_setting_value(c)
                        \/ query_overrides(c)
                        \/ store_cache(c)
  \/ Tick

SettingsSpec == SettingsInit /\ [][SettingsNext]_settings_vars

(***************************************************************************)
(* Properties.                                                             *)
(***************************************************************************)
(* What the cache of the bot answers was in force less than ten seconds ago, *)
(* although the panel cannot reach into that cache, queries take their time,  *)
(* and a coroutine that read early may store over one that read late.        *)
CacheIsFresh ==
  cache_answers => \/ cache.value = _coerce_stored_value(row)
                   \/ now - since[cache.value] < _CACHE_TTL_SECONDS
=============================================================================
