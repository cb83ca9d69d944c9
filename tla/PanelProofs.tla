----------------------------- MODULE PanelProofs -----------------------------
(***************************************************************************)
(* Proofs about components that moderators work with, each for any number   *)
(* of its actors: how old an answer of the bot's cache of a setting can be,  *)
(* what is held against a seller, ticks and replies against the moderation   *)
(* log, the mark `verified' against Telegram, who changes a preset of a       *)
(* queue's table and what a page makes of it, and what the pages of a         *)
(* timeline leave out.  The components share no state; each part of this      *)
(* module is about one.                                                      *)
(***************************************************************************)
EXTENDS RuntimeSettings, SellerGate, Checklists, Verification, QueuePresets, Timeline,
  FiniteSetTheorems, TLAPS
-----------------------------------------------------------------------------
(* Places in a finite set that is in order.                                 *)

Below(S, R, x) == {y \in S : <<y, x>> \in R}
StrictOrder(S, R) ==
  /\ \A x \in S : <<x, x>> \notin R
  /\ \A x, y, z \in S : <<x, y>> \in R /\ <<y, z>> \in R => <<x, z>> \in R
  /\ \A x, y \in S : x = y \/ <<x, y>> \in R \/ <<y, x>> \in R
Place(S, R, x) == Cardinality(Below(S, R, x))

LEMMA PlacesAreInOrder ==
  ASSUME NEW S, IsFiniteSet(S), NEW R, StrictOrder(S, R)
  PROVE  /\ \A x \in S : IsFiniteSet(Below(S, R, x)) /\ Place(S, R, x) \in 0..(Cardinality(S) - 1)
         /\ \A x, y \in S : <<x, y>> \in R => Place(S, R, x) < Place(S, R, y)
<1>1. ASSUME NEW x \in S
      PROVE  IsFiniteSet(Below(S, R, x)) /\ Place(S, R, x) \in 0..(Cardinality(S) - 1)
  <2>1. Below(S, R, x) \in SUBSET S /\ x \notin Below(S, R, x)
    BY DEF Below, StrictOrder
  <2>2. IsFiniteSet(Below(S, R, x)) /\ Cardinality(Below(S, R, x)) <= Cardinality(S)
        /\ Cardinality(Below(S, R, x)) # Cardinality(S)
    BY <2>1, FS_Subset
  <2>3. Cardinality(Below(S, R, x)) \in Nat /\ Cardinality(S) \in Nat
    BY <2>2, FS_CardinalityType
  <2> QED BY <2>2, <2>3 DEF Place
<1>2. ASSUME NEW x \in S, NEW y \in S, <<x, y>> \in R
      PROVE  Place(S, R, x) < Place(S, R, y)
  <2>1. Below(S, R, x) \in SUBSET Below(S, R, y) /\ x \in Below(S, R, y) /\ x \notin Below(S, R, x)
    BY <1>2 DEF Below, StrictOrder
  <2>2. Cardinality(Below(S, R, x)) <= Cardinality(Below(S, R, y))
        /\ Cardinality(Below(S, R, x)) # Cardinality(Below(S, R, y))
    BY <1>1, <2>1, FS_Subset
  <2> QED BY <1>1, <2>2 DEF Place
<1> QED BY <1>1, <1>2

\* Every place is taken by one element.
LEMMA PlacesAreTaken ==
  ASSUME NEW S, IsFiniteSet(S), NEW R, StrictOrder(S, R)
  PROVE  /\ \A x, y \in S : Place(S, R, x) = Place(S, R, y) => x = y
         /\ \A n \in 0..(Cardinality(S) - 1) : \E x \in S : Place(S, R, x) = n
<1> DEFINE N == Cardinality(S)
           place == [x \in S |-> Place(S, R, x)]
<1>1. N \in Nat
  BY FS_CardinalityType
<1>2. ASSUME NEW x \in S, NEW y \in S, Place(S, R, x) = Place(S, R, y) PROVE x = y
  <2>1. Place(S, R, x) \in Int /\ ~(Place(S, R, x) < Place(S, R, y)) /\ ~(Place(S, R, y) < Place(S, R, x))
    BY <1>1, <1>2, PlacesAreInOrder
  <2>2. ~(<<x, y>> \in R) /\ ~(<<y, x>> \in R)
    BY <2>1, PlacesAreInOrder
  <2> QED BY <2>2 DEF StrictOrder
<1>3. place \in [S -> 0..(N - 1)]
  BY PlacesAreInOrder
<1>4. place \in Injection(S, 0..(N - 1))
  BY <1>2, <1>3 DEF Injection, IsInjective
<1>5. IsFiniteSet(0..(N - 1)) /\ Cardinality(0..(N - 1)) = N
  BY <1>1, FS_Interval
<1>6. place \in Surjection(S, 0..(N - 1))
  BY <1>4, <1>5, FS_Injection
<1>7. \A n \in 0..(N - 1) : \E x \in S : place[x] = n
  BY <1>6 DEF Surjection
<1> QED BY <1>2, <1>7

\* As many elements have their place in an interval as it has places.
LEMMA PlacesAreCounted ==
  ASSUME NEW S, IsFiniteSet(S), NEW R, StrictOrder(S, R), NEW a \in Nat, NEW b \in Nat, b < Cardinality(S), a <= b + 1
  PROVE  LET T == {x \in S : Place(S, R, x) \in a..b} IN IsFiniteSet(T) /\ Cardinality(T) = b - a + 1
<1> DEFINE T == {x \in S : Place(S, R, x) \in a..b}
           place == [x \in T |-> Place(S, R, x)]
<1>0. Cardinality(S) \in Nat
  BY FS_CardinalityType
<1>1. place \in [T -> a..b]
  OBVIOUS
<1>2. \A x, y \in T : place[x] = place[y] => x = y
  BY PlacesAreTaken
<1>3. \A n \in a..b : \E x \in T : place[x] = n
  <2> TAKE n \in a..b
  <2>1. n \in 0..(Cardinality(S) - 1)
    BY <1>0
  <2>2. PICK x \in S : Place(S, R, x) = n
    BY <2>1, PlacesAreTaken
  <2> QED BY <2>2
<1>4. place \in Injection(T, a..b) /\ place \in Surjection(T, a..b)
  BY <1>1, <1>2, <1>3 DEF Injection, IsInjective, Surjection
<1>5. IsFiniteSet(a..b) /\ Cardinality(a..b) = b - a + 1
  BY FS_Interval
<1> QED BY <1>4, <1>5, FS_Injection

-----------------------------------------------------------------------------
(* The cache of a setting (module RuntimeSettings).                         *)

Querying == [stage : {"query"}, now : Nat, value : {None}]
Storing == [stage : {"store"}, now : Nat, value : Values]

\* A value that has been in force at this time or later.
Current(v, time) == v = _coerce_stored_value(row) \/ since[v] >= time

SettingsTypeInv ==
  /\ now \in Nat
  /\ since \in [Values -> Int]
  /\ reader \in [Readers -> {Idle} \cup Querying \cup Storing]
  /\ cache \in [value : Values \cup {None}, expires_at : Nat]

\* A coroutine reads the clock first and the row after it.
ReadersAreCurrent ==
  \A c \in Readers :
    /\ reader[c] \in Querying \cup Storing => reader[c].now <= now
    /\ reader[c] \in Storing => Current(reader[c].value, reader[c].now)

CacheIsCurrent ==
  cache.value # None =>
    /\ cache.expires_at - _CACHE_TTL_SECONDS <= now
    /\ Current(cache.value, cache.expires_at - _CACHE_TTL_SECONDS)

SettingsInv ==
  /\ SettingsTypeInv
  /\ \A v \in Values : since[v] <= now
  /\ ReadersAreCurrent
  /\ CacheIsCurrent

\* What a row counts for is always a lawful value.
LEMMA CoercedIsLawful ==
  ASSUME SettingsAssumption, NEW v
  PROVE  _coerce_stored_value(v) \in Values
BY DEF SettingsAssumption, _coerce_stored_value

\* The stages of a coroutine are told apart.
LEMMA StagesAreDistinct == Idle \notin Querying \cup Storing /\ Querying \cap Storing = {}
BY DEF Idle, Querying, Storing

\* At first the cache is empty and nobody reads.
LEMMA SettingsInitInv == ASSUME SettingsAssumption, SettingsInit PROVE SettingsInv
<1>1. now = 0 /\ cache = [value |-> None, expires_at |-> 0] /\ reader = [c \in Readers |-> Idle]
  BY DEF SettingsInit
<1>2. since \in [Values -> Int] /\ \A v \in Values : since[v] <= 0
  BY DEF SettingsInit, Never
<1>3. SettingsTypeInv
  BY <1>1, <1>2 DEF SettingsTypeInv
<1> QED BY <1>1, <1>2, <1>3, StagesAreDistinct DEF SettingsInv, ReadersAreCurrent, CacheIsCurrent

\* The panel changes the row: what was in force until then gave way now, so
\* whatever was current stays current.
LEMMA RowIsWritten ==
  ASSUME SettingsAssumption, SettingsInv, NEW w, write_row(w), UNCHANGED <<cache, reader, now>>
  PROVE  SettingsInv'
<1> DEFINE old == _coerce_stored_value(row)
           new == _coerce_stored_value(w)
<1>1. old \in Values /\ new \in Values
  BY CoercedIsLawful
<1>2. since' = [since EXCEPT ![old] = now, ![new] = now]
  BY DEF write_row
<1>3. /\ now \in Nat /\ since \in [Values -> Int] /\ \A v \in Values : since[v] <= now
      /\ reader \in [Readers -> {Idle} \cup Querying \cup Storing]
      /\ cache \in [value : Values \cup {None}, expires_at : Nat]
  BY DEF SettingsInv, SettingsTypeInv
<1>4. /\ since' \in [Values -> Int]
      /\ \A v \in Values : since'[v] <= now /\ since'[v] >= since[v]
      /\ since'[old] = now
  <2> HIDE DEF old, new
  <2> QED BY <1>1, <1>2, <1>3
<1>5. ASSUME NEW v \in Values, NEW t \in Int, t <= now, Current(v, t)
      PROVE  since'[v] >= t
  <2>1. v = old \/ since[v] >= t
    BY <1>5 DEF Current
  <2> HIDE DEF old, new
  <2> QED BY <1>3, <1>4, <1>5, <2>1
<1>6. ReadersAreCurrent'
  <2> SUFFICES ASSUME NEW c \in Readers, reader[c] \in Storing
               PROVE  since'[reader[c].value] >= reader[c].now
    BY DEF SettingsInv, ReadersAreCurrent, Current
  <2>1. reader[c].now <= now /\ Current(reader[c].value, reader[c].now)
    BY DEF SettingsInv, ReadersAreCurrent
  <2>2. reader[c].value \in Values /\ reader[c].now \in Int
    BY DEF Storing
  <2> QED BY <1>5, <2>1, <2>2
<1>7. CacheIsCurrent'
  <2> SUFFICES ASSUME cache.value # None
               PROVE  since'[cache.value] >= cache.expires_at - _CACHE_TTL_SECONDS
    BY DEF SettingsInv, CacheIsCurrent, Current
  <2>1. /\ cache.expires_at - _CACHE_TTL_SECONDS <= now
        /\ Current(cache.value, cache.expires_at - _CACHE_TTL_SECONDS)
    BY DEF SettingsInv, CacheIsCurrent
  <2>2. cache.value \in Values /\ cache.expires_at - _CACHE_TTL_SECONDS \in Int
    BY <1>3 DEF SettingsAssumption
  <2> QED BY <1>5, <2>1, <2>2
<1> QED BY <1>3, <1>4, <1>6, <1>7 DEF SettingsInv, SettingsTypeInv

\* A coroutine moves on: the others and the cache are as they were.
LEMMA ReaderMoves ==
  ASSUME SettingsAssumption, SettingsInv, UNCHANGED <<row, now, since, cache>>,
         NEW c \in Readers, NEW q \in {Idle} \cup Querying \cup Storing,
         reader' = [reader EXCEPT ![c] = q],
         q \in Querying \cup Storing => q.now <= now,
         q \in Storing => Current(q.value, q.now)
  PROVE  SettingsInv'
<1>1. SettingsTypeInv' /\ \A v \in Values : since'[v] <= now'
  BY DEF SettingsInv, SettingsTypeInv
<1>2. ReadersAreCurrent'
  BY DEF SettingsInv, SettingsTypeInv, ReadersAreCurrent, Current
<1>3. CacheIsCurrent'
  BY DEF SettingsInv, CacheIsCurrent, Current
<1> QED BY <1>1, <1>2, <1>3 DEF SettingsInv

\* A coroutine answers from the cache, queries the row or stores what it found.
LEMMA CoroutineStep ==
  ASSUME SettingsAssumption, SettingsInv, NEW c \in Readers,
         get_runtime_setting_value(c) \/ query_overrides(c) \/ store_cache(c)
  PROVE  SettingsInv'
<1>t. /\ now \in Nat /\ _CACHE_TTL_SECONDS \in Nat
      /\ reader \in [Readers -> {Idle} \cup Querying \cup Storing]
      /\ cache \in [value : Values \cup {None}, expires_at : Nat]
  BY DEF SettingsInv, SettingsTypeInv, SettingsAssumption
<1>1. CASE get_runtime_setting_value(c)
  <2> DEFINE q == [stage |-> "query", now |-> now, value |-> None]
  <2>1. q \in Querying /\ q \notin Storing /\ q.now = now
    BY <1>t DEF Querying, Storing
  <2>2. reader' = [reader EXCEPT ![c] = q] /\ UNCHANGED <<row, now, since, cache>>
    BY <1>1 DEF get_runtime_setting_value
  <2> HIDE DEF q
  <2>3. q.now <= now
    BY <1>t, <2>1
  <2>4. q \in Storing => Current(q.value, q.now)
    BY <2>1
  <2> QED BY <2>1, <2>2, <2>3, <2>4, ReaderMoves
<1>2. CASE query_overrides(c)
  <2> DEFINE q == [reader[c] EXCEPT !.stage = "store", !.value = _coerce_stored_value(row)]
  <2>0. UNCHANGED <<row, now, since, cache>>
    BY <1>2 DEF query_overrides
  <2>1. reader[c] \in Querying
    BY <1>t, <1>2 DEF query_overrides, Querying, Storing, Idle
  <2>2. q \in Storing /\ q.now = reader[c].now /\ q.value = _coerce_stored_value(row)
    BY <2>1, CoercedIsLawful DEF Querying, Storing
  <2>3. reader[c].now <= now
    BY <2>1 DEF SettingsInv, ReadersAreCurrent
  <2>4. CASE reader' = [reader EXCEPT ![c] = q]
    <3>1. Current(q.value, q.now)
      BY <2>2 DEF Current
    <3> HIDE DEF q
    <3> QED BY <2>0, <2>2, <2>3, <2>4, <3>1, ReaderMoves
  <2>5. CASE reader' = [reader EXCEPT ![c] = Idle]
    BY <2>0, <2>5, StagesAreDistinct, ReaderMoves
  <2>6. reader' = [reader EXCEPT ![c] = q] \/ reader' = [reader EXCEPT ![c] = Idle]
    BY <1>t, <1>2 DEF query_overrides
  <2> QED BY <2>4, <2>5, <2>6
<1>3. CASE store_cache(c)
  <2>0. /\ UNCHANGED <<row, now, since>> /\ reader' = [reader EXCEPT ![c] = Idle]
        /\ cache' = [value |-> reader[c].value, expires_at |-> reader[c].now + _CACHE_TTL_SECONDS]
    BY <1>3 DEF store_cache
  <2>1. reader[c] \in Storing
    BY <1>t, <1>3 DEF store_cache, Querying, Storing, Idle
  <2>2. reader[c].now \in Nat /\ reader[c].value \in Values
    BY <2>1 DEF Storing
  <2>3. reader[c].now <= now /\ Current(reader[c].value, reader[c].now)
    BY <2>1 DEF SettingsInv, ReadersAreCurrent
  <2>4. PICK v \in Values, t \in Nat :
           /\ cache' = [value |-> v, expires_at |-> t + _CACHE_TTL_SECONDS]
           /\ t <= now /\ Current(v, t)
    BY <2>0, <2>2, <2>3
  <2>5. CacheIsCurrent'
    <3>1. cache'.value = v /\ cache'.expires_at - _CACHE_TTL_SECONDS = t
      BY <1>t, <2>4
    <3>2. t <= now' /\ (v = _coerce_stored_value(row') \/ since'[v] >= t)
      BY <2>0, <2>4 DEF Current
    <3> QED BY <3>1, <3>2 DEF CacheIsCurrent, Current, _coerce_stored_value
  <2>6. SettingsTypeInv' /\ \A w \in Values : since'[w] <= now'
    BY <1>t, <2>0, <2>2 DEF SettingsInv, SettingsTypeInv
  <2>7. ReadersAreCurrent'
    BY <1>t, <2>0, StagesAreDistinct DEF SettingsInv, ReadersAreCurrent, Current
  <2> QED BY <2>5, <2>6, <2>7 DEF SettingsInv
<1> QED BY <1>1, <1>2, <1>3

\* Every step keeps the invariant.
LEMMA SettingsNextInv == ASSUME SettingsAssumption, SettingsInv, [SettingsNext]_settings_vars PROVE SettingsInv'
<1>1. CASE UNCHANGED <<row, now, since, cache, reader>>
  BY <1>1 DEF SettingsInv, SettingsTypeInv, ReadersAreCurrent, CacheIsCurrent, Current
<1>2. ASSUME NEW r \in PanelRequests, NEW v \in Values \cup {Junk}, action_set_runtime_setting(r, v)
      PROVE  SettingsInv'
  BY <1>1, <1>2 DEF action_set_runtime_setting
<1>3. ASSUME NEW r \in PanelRequests, upsert_runtime_setting_override(r)
      PROVE  SettingsInv'
  <2>1. UNCHANGED <<cache, reader, now>> /\ (write_row(request[r].value) \/ UNCHANGED <<row, since>>)
    BY <1>3 DEF upsert_runtime_setting_override
  <2> QED BY <1>1, <2>1, RowIsWritten
<1>4. ASSUME NEW r \in PanelRequests, action_delete_runtime_setting(r)
      PROVE  SettingsInv'
  BY <1>1, <1>4 DEF action_delete_runtime_setting
<1>5. ASSUME NEW r \in PanelRequests, delete_runtime_setting_override(r)
      PROVE  SettingsInv'
  BY <1>5, RowIsWritten DEF delete_runtime_setting_override
<1>6. ASSUME NEW c \in Readers,
             get_runtime_setting_value(c) \/ query_overrides(c) \/ store_cache(c)
      PROVE  SettingsInv'
  BY <1>6, CoroutineStep
<1>7. CASE Tick
  <2>1. now \in Nat /\ since \in [Values -> Int] /\ now' = now + 1 /\ UNCHANGED <<row, since, cache, reader>>
    BY <1>7 DEF Tick, SettingsInv, SettingsTypeInv
  <2>2. SettingsTypeInv' /\ \A v \in Values : since'[v] <= now'
    BY <2>1 DEF SettingsInv, SettingsTypeInv
  <2>3. ReadersAreCurrent'
    BY <2>1 DEF SettingsInv, SettingsTypeInv, ReadersAreCurrent, Current, Querying, Storing
  <2>4. CacheIsCurrent'
    BY <2>1 DEF SettingsInv, SettingsTypeInv, CacheIsCurrent, Current, SettingsAssumption
  <2> QED BY <2>2, <2>3, <2>4 DEF SettingsInv
<1>8. CASE UNCHANGED settings_vars
  BY <1>1, <1>8 DEF settings_vars
<1> QED BY <1>2, <1>3, <1>4, <1>5, <1>6, <1>7, <1>8 DEF SettingsNext

\* The invariant is enough: a value the cache still answers is younger than a time to live.
LEMMA CacheFollows == ASSUME SettingsAssumption, SettingsInv PROVE CacheIsFresh
<1> SUFFICES ASSUME cache_answers
             PROVE  \/ cache.value = _coerce_stored_value(row)
                    \/ now - since[cache.value] < _CACHE_TTL_SECONDS
  BY DEF CacheIsFresh
<1>1. /\ now \in Nat /\ since \in [Values -> Int] /\ _CACHE_TTL_SECONDS \in Nat
      /\ cache.value \in Values /\ cache.expires_at \in Nat /\ cache.expires_at > now
  BY DEF SettingsInv, SettingsTypeInv, SettingsAssumption, cache_answers
<1>2. Current(cache.value, cache.expires_at - _CACHE_TTL_SECONDS)
  BY DEF SettingsInv, CacheIsCurrent, cache_answers
<1> QED BY <1>1, <1>2 DEF Current

(* What the bot's cache answers was in force less than a time to live ago,   *)
(* for any number of coroutines that fill it and of requests of the panel,    *)
(* however long their queries take.                                         *)
THEOREM CacheStaysFresh ==
  ASSUME SettingsAssumption
  PROVE  SettingsSpec => []CacheIsFresh
<1>1. SettingsInit => SettingsInv
  BY SettingsInitInv
<1>2. SettingsInv /\ [SettingsNext]_settings_vars => SettingsInv'
  BY SettingsNextInv
<1>3. SettingsInv => CacheIsFresh
  BY CacheFollows
<1> QED BY <1>1, <1>2, <1>3, PTL DEF SettingsSpec
-----------------------------------------------------------------------------
(* The seller gate (module SellerGate).                                     *)

GateTypeInv == seller \in Facts

ByComplaints(n) == CASE n >= 3 -> 30 [] n \in {1, 2} -> 15 [] n = 0 -> 0
ByRemovedBids(n) == CASE n >= 3 -> 15 [] n \in {1, 2} -> 8 [] n = 0 -> 0
Trusted(f) == f.is_verified /\ ~f.has_active_blacklist /\ f.open_fraud_signals = 0

\* More complaints weigh no less.
LEMMA ComplaintsCount ==
  ASSUME NEW m \in Nat, NEW n \in Nat, m <= n
  PROVE  ByComplaints(m) \in 0..30 /\ ByComplaints(n) \in 0..30 /\ ByComplaints(m) <= ByComplaints(n)
BY DEF ByComplaints

\* More removed bids weigh no less.
LEMMA RemovedBidsCount ==
  ASSUME NEW m \in Nat, NEW n \in Nat, m <= n
  PROVE  ByRemovedBids(m) \in 0..15 /\ ByRemovedBids(n) \in 0..15 /\ ByRemovedBids(m) <= ByRemovedBids(n)
BY DEF ByRemovedBids

\* What is held against a seller is the sum of four weights.
LEMMA MarksAddUp ==
  ASSUME NEW f
  PROVE  marks(f) = points(f.has_active_blacklist, 60) + points(f.open_fraud_signals > 0, 40)
                      + ByComplaints(f.complaints_against) + ByRemovedBids(f.removed_bids)
BY DEF marks, ByComplaints, ByRemovedBids

\* A ban or a signal weighs more than the bonus it costs a verified seller.
LEMMA ScoreIsMonotone ==
  ASSUME GateAssumption, NEW f \in Facts, NEW g \in Facts, Worse(g, f)
  PROVE  score(f) \in Int /\ score(g) \in Int /\ score(f) <= score(g)
<1> DEFINE net(h) == marks(h) - points(Trusted(h), 10)
           ban(h) == points(h.has_active_blacklist, 60)
           signal(h) == points(h.open_fraud_signals > 0, 40)
           bonus(h) == points(Trusted(h), 10)
<1>1. \A h \in {f, g} :
        /\ h.complaints_against \in Nat /\ h.removed_bids \in Nat /\ h.open_fraud_signals \in 0..1
        /\ h.has_active_blacklist \in BOOLEAN /\ h.is_verified \in BOOLEAN
  BY DEF Facts, GateAssumption
<1>2. /\ f.complaints_against <= g.complaints_against /\ f.removed_bids <= g.removed_bids
      /\ f.open_fraud_signals <= g.open_fraud_signals
      /\ f.has_active_blacklist => g.has_active_blacklist
      /\ g.is_verified => f.is_verified
  BY <1>1 DEF Worse
<1>3. /\ ByComplaints(f.complaints_against) \in Int /\ ByComplaints(g.complaints_against) \in Int
      /\ ByComplaints(f.complaints_against) <= ByComplaints(g.complaints_against)
  BY <1>1, <1>2, ComplaintsCount
<1>4. /\ ByRemovedBids(f.removed_bids) \in Int /\ ByRemovedBids(g.removed_bids) \in Int
      /\ ByRemovedBids(f.removed_bids) <= ByRemovedBids(g.removed_bids)
  BY <1>1, <1>2, RemovedBidsCount
<1>5. /\ ban(f) \in Int /\ signal(f) \in Int /\ bonus(f) \in Int
      /\ ban(g) \in Int /\ signal(g) \in Int /\ bonus(g) \in Int
  BY DEF points
<1>6. ban(f) + signal(f) - bonus(f) <= ban(g) + signal(g) - bonus(g)
  BY <1>1, <1>2 DEF points, Trusted
<1>7. /\ marks(f) = ban(f) + signal(f) + ByComplaints(f.complaints_against) + ByRemovedBids(f.removed_bids)
      /\ marks(g) = ban(g) + signal(g) + ByComplaints(g.complaints_against) + ByRemovedBids(g.removed_bids)
  BY MarksAddUp, Zenon
<1>8. net(f) \in Int /\ net(g) \in Int /\ net(f) <= net(g)
  <2>1. net(f) = marks(f) - bonus(f) /\ net(g) = marks(g) - bonus(g)
    OBVIOUS
  <2> HIDE DEF net, ban, signal, bonus
  <2> QED BY <1>3, <1>4, <1>5, <1>6, <1>7, <2>1
<1>9. \A h \in {f, g} : score(h) = Least(Greatest(net(h), 0), 100)
  BY DEF score, Trusted
<1> HIDE DEF net
<1> QED BY <1>8, <1>9 DEF Least, Greatest

\* The gate opens no wider for a higher score.
LEMMA GateIsMonotone ==
  ASSUME NEW f, NEW g, score(f) \in Int, score(g) \in Int, score(f) <= score(g),
         NEW days, NEW gate_on, NEW limit,
         evaluate_seller_publish_gate(g, days, gate_on, limit)
  PROVE  evaluate_seller_publish_gate(f, days, gate_on, limit)
<1>1. level(f) = "HIGH" => level(g) = "HIGH"
  BY DEF level
<1> QED BY <1>1 DEF evaluate_seller_publish_gate

\* Every step leaves a record of facts.
LEMMA GateTypeStep == ASSUME GateTypeInv, [GateNext]_gate_vars PROVE GateTypeInv'
BY DEF GateTypeInv, GateNext, gate_vars, facts_change, settings_change, guarantor_assigned, day_passes

\* Whom the gate stops it stops as well with more held against him.
LEMMA NoMarkHelps ==
  ASSUME GateAssumption, GateTypeInv, GateTypeInv'
  PROVE  (Worse(seller', seller) /\ UNCHANGED <<guarantor, requires, max_age>>) =>
           score(seller') >= score(seller) /\ (Allowed' => Allowed)
<1> SUFFICES ASSUME Worse(seller', seller), UNCHANGED <<guarantor, requires, max_age>>
             PROVE  score(seller') >= score(seller) /\ (Allowed' => Allowed)
  OBVIOUS
<1>1. score(seller) \in Int /\ score(seller') \in Int /\ score(seller) <= score(seller')
  BY ScoreIsMonotone DEF GateTypeInv
<1>2. evaluate_seller_publish_gate(seller', guarantor, requires, max_age) =>
        evaluate_seller_publish_gate(seller, guarantor, requires, max_age)
  BY <1>1, GateIsMonotone
<1> QED BY <1>1, <1>2 DEF Allowed

(* Nothing that is held against a seller helps him, for any number of         *)
(* complaints and removed bids, across all thresholds.                       *)
THEOREM GateIsFair ==
  ASSUME GateAssumption
  PROVE  GateSpec => MarksNeverHelp
<1>1. GateInit => GateTypeInv
  BY DEF GateInit, GateTypeInv, Facts, GateAssumption
<1>2. GateTypeInv /\ [GateNext]_gate_vars => GateTypeInv'
  BY GateTypeStep
<1>3. GateTypeInv /\ GateTypeInv' =>
        [(Worse(seller', seller) /\ UNCHANGED <<guarantor, requires, max_age>>) =>
            score(seller') >= score(seller) /\ (Allowed' => Allowed)]_gate_vars
  BY NoMarkHelps
<1> QED BY <1>1, <1>2, <1>3, PTL DEF GateSpec, MarksNeverHelp
-----------------------------------------------------------------------------
(* The checklist of a case (module Checklists).                             *)

Ticks == {Undone} \cup [is_done : {TRUE}, done_by : Moderators]
Ticking == [stage : {"loaded"}, item : Items, seen : Ticks]
Replying == [stage : {"reply", "pop"}, item : Items]
Counts == [Moderators -> [Items -> Nat]]

ChecklistTypeInv ==
  /\ ticks \in [Items -> Ticks]
  /\ saved \in Counts /\ asked \in Counts
  /\ log = [ticks |-> log.ticks, replies |-> log.replies]
  /\ pending \in [Moderators -> Items \cup {Nothing}]
  /\ job \in [Moderators -> [UpdateChats -> {NoUpdate} \cup Ticking \cup Replying]]

\* A question that is open has not been answered: it was asked once more than
\* there are replies.  While its answer is dropped it need not be so.
Owed(m, i) ==
  \/ pending[m] = i /\ job[m]["private"].stage # "pop"
  \/ job[m]["private"].stage = "reply" /\ job[m]["private"].item = i

RepliesWereAsked ==
  \A m \in Moderators, i \in Items :
    saved[m][i] <= asked[m][i] /\ (Owed(m, i) => saved[m][i] < asked[m][i])

OnFile == ticks = log.ticks /\ saved = log.replies

ChecklistInv == ChecklistTypeInv /\ OnFile /\ RepliesWereAsked

\* The updates under way, told apart by their stage.
LEMMA Stages ==
  /\ \A q \in Ticking : q.stage = "loaded" /\ q.item \in Items /\ q.seen \in Ticks
  /\ \A q \in Replying : q.stage \in {"reply", "pop"} /\ q.item \in Items
  /\ NoUpdate.stage = "idle"
BY DEF Ticking, Replying, NoUpdate

\* At first nothing is ticked, asked or answered.
LEMMA ChecklistInitInv == ASSUME ChecklistAssumption, ChecklistInit PROVE ChecklistInv
<1> USE DEF ChecklistInit
<1>1. ChecklistTypeInv
  BY DEF ChecklistTypeInv, Ticks, Counts
<1>2. OnFile
  BY DEF OnFile
<1>3. RepliesWereAsked
  BY DEF RepliesWereAsked, Owed, ChecklistAssumption, NoUpdate, UpdateChats
<1> QED BY <1>1, <1>2, <1>3 DEF ChecklistInv

\* A handler of one chat goes on, and nothing else changes but its job: what
\* is owed afterwards was owed before.
LEMMA JobMoves ==
  ASSUME ChecklistInv, NEW m \in Moderators, NEW c \in UpdateChats, NEW q \in {NoUpdate} \cup Ticking \cup Replying,
         job' = [job EXCEPT ![m][c] = q], UNCHANGED <<ticks, saved, pending, log, asked>>,
         c = "private" => /\ job[m][c].stage # "pop"
                          /\ q.stage = "reply" => Owed(m, q.item)
  PROVE  ChecklistInv'
<1>1. ChecklistTypeInv'
  BY DEF ChecklistInv, ChecklistTypeInv
<1>2. ASSUME NEW n \in Moderators, NEW i \in Items, Owed(n, i)' PROVE Owed(n, i)
  <2>1. CASE n = m /\ c = "private"
    <3>1. job'[n]["private"] = q
      BY <2>1 DEF ChecklistInv, ChecklistTypeInv, UpdateChats
    <3> QED BY <1>2, <2>1, <3>1 DEF Owed
  <2>2. CASE ~(n = m /\ c = "private")
    <3>1. job'[n]["private"] = job[n]["private"]
      BY <2>2 DEF ChecklistInv, ChecklistTypeInv, UpdateChats
    <3> QED BY <1>2, <3>1 DEF Owed
  <2> QED BY <2>1, <2>2
<1>3. RepliesWereAsked'
  BY <1>2 DEF ChecklistInv, RepliesWereAsked
<1> QED BY <1>1, <1>3 DEF ChecklistInv, OnFile

\* A tick is written to the item and to the log.
LEMMA ItemIsToggled ==
  ASSUME ChecklistInv, NEW m \in Moderators, NEW c \in UpdateChats, toggle_checklist_item(m, c)
  PROVE  ChecklistInv'
<1> DEFINE i == job[m][c].item
           new == toggled(job[m][c].seen, m)
<1>1. /\ job[m][c].stage = "loaded" /\ ticks' = [ticks EXCEPT ![i] = new]
      /\ log' = [log EXCEPT !.ticks[i] = new] /\ job' = [job EXCEPT ![m][c] = NoUpdate]
      /\ UNCHANGED <<saved, pending, asked>>
  BY DEF toggle_checklist_item
<1>2. i \in Items /\ new \in Ticks
  <2>1. job[m][c] \in Ticking
    BY <1>1, Stages DEF ChecklistInv, ChecklistTypeInv
  <2> QED BY <2>1, Stages DEF toggled, Ticks
<1> HIDE DEF i, new
<1>3. ticks' = log'.ticks /\ log'.replies = log.replies
      /\ log' = [ticks |-> log'.ticks, replies |-> log'.replies]
  BY <1>1, <1>2 DEF ChecklistInv, OnFile, ChecklistTypeInv
<1>4. ChecklistTypeInv'
  BY <1>1, <1>2, <1>3 DEF ChecklistInv, ChecklistTypeInv
<1>5. ASSUME NEW n \in Moderators, NEW k \in Items, Owed(n, k)' PROVE Owed(n, k)
  <2>1. CASE n = m /\ c = "private"
    <3>1. job'[n]["private"].stage = "idle" /\ job[n]["private"].stage = "loaded"
      BY <1>1, <2>1, Stages DEF ChecklistInv, ChecklistTypeInv, UpdateChats
    <3> QED BY <1>1, <1>5, <3>1 DEF Owed
  <2>2. CASE ~(n = m /\ c = "private")
    <3>1. job'[n]["private"] = job[n]["private"]
      BY <1>1, <2>2 DEF ChecklistInv, ChecklistTypeInv, UpdateChats
    <3> QED BY <1>1, <1>5, <3>1 DEF Owed
  <2> QED BY <2>1, <2>2
<1>6. RepliesWereAsked'
  BY <1>1, <1>5 DEF ChecklistInv, RepliesWereAsked
<1> QED BY <1>1, <1>3, <1>4, <1>6 DEF ChecklistInv, OnFile

\* A question is opened: it is asked once more.
LEMMA ReplyIsAskedFor ==
  ASSUME ChecklistAssumption, ChecklistInv, NEW m \in Moderators, NEW c \in UpdateChats, NEW i \in Items,
         ask_for_reply(m, c, i)
  PROVE  ChecklistInv'
<1>1. /\ pending' = [pending EXCEPT ![m] = i] /\ asked' = [asked EXCEPT ![m][i] = @ + 1]
      /\ UNCHANGED <<ticks, saved, log, job>>
  BY DEF ask_for_reply
<1>2. ChecklistTypeInv'
  BY <1>1 DEF ChecklistInv, ChecklistTypeInv, Counts
<1>3. ASSUME NEW n \in Moderators, NEW k \in Items
      PROVE  saved'[n][k] <= asked'[n][k] /\ (Owed(n, k)' => saved'[n][k] < asked'[n][k])
  <2>1. saved[n][k] \in Nat /\ asked[n][k] \in Nat /\ saved'[n][k] = saved[n][k]
    BY <1>1 DEF ChecklistInv, ChecklistTypeInv, Counts
  <2>2. saved[n][k] <= asked[n][k] /\ (Owed(n, k) => saved[n][k] < asked[n][k])
    BY DEF ChecklistInv, RepliesWereAsked
  <2>3. CASE n = m /\ k = i
    <3>1. asked'[n][k] = asked[n][k] + 1
      BY <1>1, <2>3 DEF ChecklistInv, ChecklistTypeInv, Counts
    <3> QED BY <2>1, <2>2, <3>1
  <2>4. CASE ~(n = m /\ k = i)
    <3>1. asked'[n][k] = asked[n][k]
      BY <1>1, <2>4 DEF ChecklistInv, ChecklistTypeInv, Counts
    <3>2. Owed(n, k)' => Owed(n, k)
      BY <1>1, <2>4 DEF Owed, ChecklistInv, ChecklistTypeInv
    <3> QED BY <2>1, <2>2, <3>1, <3>2
  <2> QED BY <2>3, <2>4
<1>4. RepliesWereAsked'
  BY <1>3 DEF RepliesWereAsked
<1> QED BY <1>1, <1>2, <1>4 DEF ChecklistInv, OnFile

\* The reply is saved: the question it answered is open no more.
LEMMA ReplyIsAdded ==
  ASSUME ChecklistInv, NEW m \in Moderators, add_checklist_reply(m)
  PROVE  ChecklistInv'
<1> DEFINE i == job[m]["private"].item
<1>1. /\ job[m]["private"].stage = "reply" /\ saved' = [saved EXCEPT ![m][i] = @ + 1]
      /\ log' = [log EXCEPT !.replies[m][i] = @ + 1]
      /\ job' = [job EXCEPT ![m]["private"].stage = "pop"] /\ UNCHANGED <<ticks, pending, asked>>
  BY DEF add_checklist_reply
<1>2. job[m]["private"] \in Replying /\ i \in Items
  BY <1>1, Stages DEF ChecklistInv, ChecklistTypeInv, UpdateChats
<1>3. job' \in [Moderators -> [UpdateChats -> {NoUpdate} \cup Ticking \cup Replying]]
      /\ job'[m]["private"].stage = "pop" /\ \A n \in Moderators \ {m} : job'[n] = job[n]
  <2>1. [job[m]["private"] EXCEPT !.stage = "pop"] \in Replying
    BY <1>2 DEF Replying
  <2>2. "private" \in UpdateChats
    BY DEF UpdateChats
  <2> QED BY <1>1, <1>2, <2>1, <2>2 DEF ChecklistInv, ChecklistTypeInv
<1>4. saved' \in Counts /\ log'.ticks = log.ticks /\ log'.replies = saved'
      /\ log' = [ticks |-> log'.ticks, replies |-> log'.replies]
  <2>1. saved \in Counts /\ log = [ticks |-> log.ticks, replies |-> saved]
    BY DEF ChecklistInv, ChecklistTypeInv, OnFile
  <2>2. saved' \in Counts
    <3>1. saved[m] \in [Items -> Nat] /\ saved[m][i] + 1 \in Nat
      BY <1>2, <2>1 DEF Counts
    <3>2. [saved[m] EXCEPT ![i] = saved[m][i] + 1] \in [Items -> Nat]
      BY <3>1
    <3> QED BY <1>1, <2>1, <3>2 DEF Counts
  <2>3. log' = [ticks |-> log.ticks, replies |-> saved']
    <3>1. log.replies = saved
      BY <2>1
    <3>2. log' = [log EXCEPT !.replies = [log.replies EXCEPT ![m][i] = @ + 1]]
      BY <1>1, <2>1
    <3>3. log' = [log EXCEPT !.replies = saved']
      BY <1>1, <3>1, <3>2
    <3> QED BY <2>1, <3>3
  <2> QED BY <2>2, <2>3
<1>5. ChecklistTypeInv'
  BY <1>1, <1>3, <1>4 DEF ChecklistInv, ChecklistTypeInv
<1>6. ASSUME NEW n \in Moderators, NEW k \in Items
      PROVE  saved'[n][k] <= asked'[n][k] /\ (Owed(n, k)' => saved'[n][k] < asked'[n][k])
  <2>1. saved[n][k] \in Nat /\ asked[n][k] \in Nat /\ asked'[n][k] = asked[n][k]
    BY <1>1 DEF ChecklistInv, ChecklistTypeInv, Counts
  <2>2. saved[n][k] <= asked[n][k] /\ (Owed(n, k) => saved[n][k] < asked[n][k])
    BY DEF ChecklistInv, RepliesWereAsked
  <2>3. CASE n = m
    <3>1. ~Owed(n, k)'
      BY <1>3, <2>3 DEF Owed
    <3>2. CASE k = i
      <4>1. Owed(n, k) /\ saved'[n][k] = saved[n][k] + 1
        BY <1>1, <1>2, <2>3, <3>2 DEF Owed, ChecklistInv, ChecklistTypeInv, Counts
      <4> QED BY <2>1, <2>2, <3>1, <4>1
    <3>3. CASE k # i
      <4>1. saved'[n][k] = saved[n][k]
        BY <1>1, <1>2, <2>3, <3>3 DEF ChecklistInv, ChecklistTypeInv, Counts
      <4> QED BY <2>1, <2>2, <3>1, <4>1
    <3> QED BY <3>2, <3>3
  <2>4. CASE n # m
    <3>1. saved'[n] = saved[n] /\ job'[n] = job[n]
      BY <1>1, <1>3, <2>4 DEF ChecklistInv, ChecklistTypeInv, Counts
    <3> QED BY <1>1, <2>1, <2>2, <3>1 DEF Owed
  <2> QED BY <2>3, <2>4
<1>7. RepliesWereAsked'
  BY <1>6 DEF RepliesWereAsked
<1> QED BY <1>1, <1>4, <1>5, <1>7 DEF ChecklistInv, OnFile

\* Questions are dropped, and no answer comes to be under way.
LEMMA QuestionsAreDropped ==
  ASSUME ChecklistAssumption, ChecklistInv, UNCHANGED <<ticks, saved, log, asked>>,
         pending' \in [Moderators -> Items \cup {Nothing}],
         job' \in [Moderators -> [UpdateChats -> {NoUpdate} \cup Ticking \cup Replying]],
         \A n \in Moderators :
           \/ pending'[n] = Nothing /\ job'[n]["private"].stage = "idle"
           \/ pending'[n] = pending[n] /\ job'[n] = job[n]
  PROVE  ChecklistInv'
<1>1. ChecklistTypeInv'
  BY DEF ChecklistInv, ChecklistTypeInv
<1>2. ASSUME NEW n \in Moderators, NEW k \in Items, Owed(n, k)' PROVE Owed(n, k)
  BY <1>2 DEF Owed, ChecklistAssumption
<1>3. RepliesWereAsked'
  BY <1>2 DEF ChecklistInv, RepliesWereAsked
<1> QED BY <1>1, <1>3 DEF ChecklistInv, OnFile

\* Every step keeps the invariant.
LEMMA ChecklistNextInv == ASSUME ChecklistAssumption, ChecklistInv, [ChecklistNext]_checklist_vars PROVE ChecklistInv'
<1>1. ASSUME NEW m \in Moderators, NEW c \in UpdateChats, NEW i \in Items, load_item(m, c, i)
      PROVE  ChecklistInv'
  <2> DEFINE q == [stage |-> "loaded", item |-> i, seen |-> ticks[i]]
  <2>1. /\ job[m][c] = NoUpdate /\ job' = [job EXCEPT ![m][c] = q]
        /\ UNCHANGED <<ticks, saved, pending, log, asked>>
    BY <1>1 DEF load_item, press
  <2>2. q \in Ticking /\ q.stage = "loaded"
    BY DEF ChecklistInv, ChecklistTypeInv, Ticking
  <2> HIDE DEF q
  <2> QED BY <2>1, <2>2, Stages, JobMoves
<1>2. ASSUME NEW m \in Moderators, NEW c \in UpdateChats, NEW i \in Items, ask_for_reply(m, c, i)
      PROVE  ChecklistInv'
  BY <1>2, ReplyIsAskedFor
<1>3. ASSUME NEW m \in Moderators, NEW c \in UpdateChats, toggle_checklist_item(m, c)
      PROVE  ChecklistInv'
  BY <1>3, ItemIsToggled
<1>4. ASSUME NEW m \in Moderators, NEW c \in UpdateChats, given_up(m, c)
      PROVE  ChecklistInv'
  BY <1>4, Stages, JobMoves DEF given_up
<1>5. ASSUME NEW m \in Moderators, NEW s \in {"reply", "pop"}, reply_arrives(m, s)
      PROVE  ChecklistInv'
  <2> DEFINE q == [stage |-> s, item |-> pending[m]]
  <2>1. /\ job[m]["private"] = NoUpdate /\ pending[m] # Nothing /\ job' = [job EXCEPT ![m]["private"] = q]
        /\ UNCHANGED <<ticks, saved, pending, log, asked>>
    BY <1>5 DEF reply_arrives
  <2>2. q \in Replying /\ q.item = pending[m]
    BY <2>1 DEF ChecklistInv, ChecklistTypeInv, Replying
  <2>3. Owed(m, q.item)
    BY <2>1, <2>2, Stages DEF Owed
  <2>4. "private" \in UpdateChats
    BY DEF UpdateChats
  <2> HIDE DEF q
  <2> QED BY <2>1, <2>2, <2>3, <2>4, Stages, JobMoves
<1>6. ASSUME NEW m \in Moderators, add_checklist_reply(m)
      PROVE  ChecklistInv'
  BY <1>6, ReplyIsAdded
<1>7. ASSUME NEW m \in Moderators, pop_pending(m)
      PROVE  ChecklistInv'
  <2>1. /\ pending' = [pending EXCEPT ![m] = Nothing] /\ job' = [job EXCEPT ![m]["private"] = NoUpdate]
        /\ UNCHANGED <<ticks, saved, log, asked>>
    BY <1>7 DEF pop_pending
  <2>2. pending' \in [Moderators -> Items \cup {Nothing}] /\ "private" \in UpdateChats
    BY <2>1 DEF ChecklistInv, ChecklistTypeInv, UpdateChats
  <2>3. /\ job' \in [Moderators -> [UpdateChats -> {NoUpdate} \cup Ticking \cup Replying]]
        /\ \A n \in Moderators : IF n = m THEN pending'[n] = Nothing /\ job'[n]["private"].stage = "idle"
                                 ELSE pending'[n] = pending[n] /\ job'[n] = job[n]
    BY <2>1, <2>2, Stages DEF ChecklistInv, ChecklistTypeInv
  <2> QED BY <2>1, <2>2, <2>3, QuestionsAreDropped
<1>8. CASE restart
  <2>1. /\ pending' = [m \in Moderators |-> Nothing]
        /\ job' = [m \in Moderators |-> [c \in UpdateChats |-> NoUpdate]] /\ UNCHANGED <<ticks, saved, log, asked>>
    BY <1>8 DEF restart
  <2>2. \A n \in Moderators : pending'[n] = Nothing /\ job'[n]["private"].stage = "idle"
    BY <2>1, Stages DEF UpdateChats
  <2> QED BY <2>1, <2>2, QuestionsAreDropped
<1>9. CASE UNCHANGED checklist_vars
  BY <1>9 DEF checklist_vars, ChecklistInv, ChecklistTypeInv, OnFile, RepliesWereAsked, Owed
<1> QED BY <1>1, <1>2, <1>3, <1>4, <1>5, <1>6, <1>7, <1>8, <1>9 DEF ChecklistNext

\* The invariant is enough: who ticked an item is a moderator, never nobody.
LEMMA ChecklistFollows == ASSUME ChecklistAssumption, ChecklistInv PROVE ChecklistIsOnFile
<1>1. ASSUME NEW i \in Items
      PROVE  ticks[i].is_done <=> ticks[i].done_by # Nobody
  <2>1. ticks[i] \in Ticks
    BY DEF ChecklistInv, ChecklistTypeInv
  <2>2. CASE ticks[i] = Undone
    BY <2>2 DEF Undone
  <2>3. CASE ticks[i] \in [is_done : {TRUE}, done_by : Moderators]
    <3>1. ticks[i].is_done = TRUE /\ ticks[i].done_by \in Moderators
      BY <2>3
    <3> QED BY <3>1 DEF ChecklistAssumption
  <2> QED BY <2>1, <2>2, <2>3 DEF Ticks
<1> QED BY <1>1 DEF ChecklistInv, OnFile, RepliesWereAsked, ChecklistIsOnFile

(* The checklist is what the moderation log makes of it, and no reply is on   *)
(* file that was not asked for, for any number of items and moderators.       *)
THEOREM ChecklistStaysOnFile ==
  ASSUME ChecklistAssumption
  PROVE  ChecklistSpec => []ChecklistIsOnFile
<1>1. ChecklistInit => ChecklistInv
  BY ChecklistInitInv
<1>2. ChecklistInv /\ [ChecklistNext]_checklist_vars => ChecklistInv'
  BY ChecklistNextInv
<1>3. ChecklistInv => ChecklistIsOnFile
  BY ChecklistFollows
<1> QED BY <1>1, <1>2, <1>3, PTL DEF ChecklistSpec
-----------------------------------------------------------------------------
(* The mark `verified' (module Verification).                               *)

CallsOpen == [stage : {"call", "write", "waits", "created", "loaded"},
              target : Targets, verify : BOOLEAN, alone : BOOLEAN]

VerificationTypeInv ==
  /\ verified \in [Targets -> BOOLEAN]
  /\ stored \in [Targets -> {Absent, "yes", "no"}]
  /\ call \in [Calls -> {NoCall} \cup CallsOpen]

\* c is at work on t.
IsAt(c, t) == c # NoCall /\ c.target = t

\* A request that counts as alone at its target is the only one there.
AloneAreAlone ==
  \A r, x \in Calls :
    call[r] # NoCall /\ call[r].alone /\ IsAt(call[x], call[r].target) => x = r

\* It has told Telegram what it is going to write, and waits for nobody.
AloneHaveCalled ==
  \A r \in Calls :
    (call[r] # NoCall /\ call[r].alone /\ call[r].stage # "call") =>
      call[r].stage # "waits" /\ verified[call[r].target] = call[r].verify

\* Where nothing went wrong only such requests are at work, and until Telegram
\* is called the row agrees with it.
UnspoiltAgree ==
  \A t \in Targets \ spoilt :
    /\ \A r \in Calls : IsAt(call[r], t) => call[r].alone
    /\ (\A r \in Calls : IsAt(call[r], t) => call[r].stage = "call") =>
         (verified[t] <=> stored[t] = "yes")

VerificationInv ==
  VerificationTypeInv /\ AloneAreAlone /\ AloneHaveCalled /\ UnspoiltAgree

\* A request at rest is not at work.
LEMMA NoCallIsNotOpen == NoCall \notin CallsOpen /\ NoCall.stage = "idle"
BY DEF NoCall, CallsOpen

\* What a request at work is made of.
LEMMA OpenCallHas ==
  ASSUME VerificationTypeInv, NEW r \in Calls, call[r] # NoCall
  PROVE  /\ call[r] \in CallsOpen /\ call[r].target \in Targets /\ call[r].verify \in BOOLEAN
         /\ call[r].alone \in BOOLEAN
BY DEF VerificationTypeInv, CallsOpen

\* At first no request is at work and both sides agree.
LEMMA VerificationInitInv ==
  ASSUME VerificationInit PROVE VerificationInv
<1>1. VerificationTypeInv
  BY DEF VerificationInit, VerificationTypeInv
<1>2. \A r \in Calls : call[r] = NoCall
  BY DEF VerificationInit
<1>3. AloneAreAlone /\ AloneHaveCalled
  BY <1>2 DEF AloneAreAlone, AloneHaveCalled
<1>4. UnspoiltAgree
  BY <1>2 DEF VerificationInit, UnspoiltAgree, IsAt, Absent
<1> QED
  BY <1>1, <1>3, <1>4 DEF VerificationInv

\* A request moves on: nothing but its stage changes.
LEMMA CallGoesOn ==
  ASSUME VerificationTypeInv, NEW r \in Calls, call[r] # NoCall,
         NEW s \in {"write", "waits", "created", "loaded"}, goes_on(r, s)
  PROVE  /\ call' \in [Calls -> {NoCall} \cup CallsOpen]
         /\ \A x \in Calls \ {r} : call'[x] = call[x]
         /\ call'[r] # NoCall /\ call'[r].stage = s /\ call'[r].target = call[r].target
         /\ call'[r].verify = call[r].verify /\ call'[r].alone = call[r].alone
<1> DEFINE c == [call[r] EXCEPT !.stage = s]
<1>1. call \in [Calls -> {NoCall} \cup CallsOpen] /\ call[r] \in CallsOpen
  BY OpenCallHas DEF VerificationTypeInv
<1>2. /\ c \in CallsOpen /\ c.stage = s /\ c.target = call[r].target
      /\ c.verify = call[r].verify /\ c.alone = call[r].alone
  BY <1>1 DEF CallsOpen
<1>3. call' = [call EXCEPT ![r] = c]
  BY DEF goes_on
<1> HIDE DEF c
<1>4. call'[r] = c /\ \A x \in Calls \ {r} : call'[x] = call[x]
  BY <1>1, <1>3
<1>5. call' \in [Calls -> {NoCall} \cup CallsOpen]
  BY <1>1, <1>2, <1>3
<1> QED
  BY <1>2, <1>4, <1>5, NoCallIsNotOpen

\* A request is over.
LEMMA CallEnds ==
  ASSUME VerificationTypeInv, NEW r \in Calls, ends(r)
  PROVE  /\ call' \in [Calls -> {NoCall} \cup CallsOpen]
         /\ \A x \in Calls \ {r} : call'[x] = call[x]
         /\ call'[r] = NoCall
BY DEF VerificationTypeInv, ends

\* What begins, and what that does to requests at the same target.
LEMMA CallBegins ==
  ASSUME VerificationInv, NEW r \in Calls, NEW t \in Targets, NEW v \in BOOLEAN, begin(r, t, v)
  PROVE  VerificationInv'
<1>1. VerificationTypeInv /\ call \in [Calls -> {NoCall} \cup CallsOpen] /\ call[r] = NoCall
  BY DEF VerificationInv, VerificationTypeInv, begin
<1>2. UNCHANGED <<moderators, verified, stored>>
  BY DEF begin
<1>3. \A x \in Calls : x \in At(t) <=> IsAt(call[x], t)
  BY DEF At, IsAt
<1> DEFINE first == At(t) = {}
<1> DEFINE new == [stage |-> "call", target |-> t, verify |-> v, alone |-> first]
<1>4. call' = [x \in Calls |-> CASE x = r -> new
                                 [] x \in At(t) -> [call[x] EXCEPT !.alone = FALSE]
                                 [] OTHER -> call[x]]
  BY DEF begin
<1>5. spoilt' = IF first THEN spoilt ELSE spoilt \cup {t}
  BY DEF begin
<1>6. /\ new \in CallsOpen /\ new.target = t /\ new.alone = first /\ new.stage = "call"
      /\ new # NoCall
  <2>1. first \in BOOLEAN
    OBVIOUS
  <2> HIDE DEF first
  <2> QED
    BY <2>1, NoCallIsNotOpen DEF CallsOpen
<1>7. r \notin At(t)
  BY <1>1 DEF At
<1> HIDE DEF new
<1>8. call'[r] = new
  BY <1>4, <1>7
<1>9. ASSUME NEW x \in Calls \ {r}
      PROVE  /\ ~IsAt(call[x], t) => call'[x] = call[x]
             /\ IsAt(call[x], t) => /\ call'[x] \in CallsOpen /\ call'[x] # NoCall
                                    /\ call'[x].target = t /\ call'[x].alone = FALSE
                                    /\ call'[x].stage = call[x].stage
  <2>1. CASE ~IsAt(call[x], t)
    BY <2>1, <1>3, <1>4
  <2>2. CASE IsAt(call[x], t)
    <3>1. call'[x] = [call[x] EXCEPT !.alone = FALSE] /\ call[x] # NoCall /\ call[x].target = t
      BY <2>2, <1>3, <1>4, <1>7 DEF IsAt
    <3>2. call[x] \in CallsOpen
      BY <3>1, <1>1
    <3> QED
      BY <2>2, <3>1, <3>2, NoCallIsNotOpen DEF CallsOpen
  <2> QED
    BY <2>1, <2>2
<1>10. \A x \in Calls : call'[x] \in {NoCall} \cup CallsOpen
  BY <1>1, <1>6, <1>8, <1>9
<1>11. call' \in [Calls -> {NoCall} \cup CallsOpen]
  BY <1>4, <1>10
<1>12. VerificationTypeInv'
  BY <1>1, <1>2, <1>11 DEF VerificationTypeInv
<1>13. first <=> \A x \in Calls : ~IsAt(call[x], t)
  BY <1>3 DEF At
<1> HIDE DEF first
<1>14. AloneAreAlone'
  <2> SUFFICES ASSUME NEW x \in Calls, NEW y \in Calls, call'[x] # NoCall, call'[x].alone,
                      IsAt(call'[y], call'[x].target)
               PROVE  y = x
    BY DEF AloneAreAlone
  <2>1. CASE x = r
    <3>1. call'[x].target = t /\ \A z \in Calls : ~IsAt(call[z], t)
      BY <2>1, <1>6, <1>8, <1>13
    <3>2. y # r => call'[y] = call[y]
      BY <3>1, <1>9
    <3> QED BY <2>1, <3>1, <3>2
  <2>2. CASE x # r
    <3>1. ~IsAt(call[x], t) /\ call'[x] = call[x] /\ call[x].target # t
      BY <2>2, <1>9 DEF IsAt
    <3>2. y # r
      BY <3>1, <1>6, <1>8 DEF IsAt
    <3>3. call'[y] = call[y]
      BY <3>1, <3>2, <1>9 DEF IsAt
    <3> QED
      BY <3>1, <3>3 DEF VerificationInv, AloneAreAlone
  <2> QED
    BY <2>1, <2>2
<1>15. AloneHaveCalled'
  <2> SUFFICES ASSUME NEW x \in Calls, call'[x] # NoCall, call'[x].alone, call'[x].stage # "call"
               PROVE  call'[x].stage # "waits" /\ verified'[call'[x].target] = call'[x].verify
    BY DEF AloneHaveCalled
  <2>1. x # r
    BY <1>6, <1>8
  <2>2. call'[x] = call[x]
    BY <2>1, <1>9
  <2> QED
    BY <2>2, <1>2 DEF VerificationInv, AloneHaveCalled
<1>16. UnspoiltAgree'
  <2> SUFFICES ASSUME NEW u \in Targets \ spoilt'
               PROVE  /\ \A x \in Calls : IsAt(call'[x], u) => call'[x].alone
                      /\ (\A x \in Calls : IsAt(call'[x], u) => call'[x].stage = "call") =>
                           (verified'[u] <=> stored'[u] = "yes")
    BY DEF UnspoiltAgree
  <2>1. u \in Targets \ spoilt /\ (u = t => first)
    BY <1>5
  <2>2. /\ \A x \in Calls : IsAt(call[x], u) => call[x].alone
        /\ (\A x \in Calls : IsAt(call[x], u) => call[x].stage = "call") =>
             (verified[u] <=> stored[u] = "yes")
    BY <2>1 DEF VerificationInv, UnspoiltAgree
  <2>3. CASE u = t
    <3>1. \A x \in Calls : ~IsAt(call[x], t)
      BY <2>1, <2>3, <1>13
    <3> QED
      BY <3>1, <2>1, <2>2, <2>3, <1>2, <1>6, <1>8, <1>9
  <2>4. CASE u # t
    <3>1. \A x \in Calls : IsAt(call'[x], u) <=> IsAt(call[x], u)
      BY <2>4, <1>1, <1>6, <1>8, <1>9 DEF IsAt
    <3>2. \A x \in Calls : IsAt(call[x], u) => call'[x] = call[x]
      BY <2>4, <1>1, <1>9 DEF IsAt
    <3> QED
      BY <3>1, <3>2, <2>2, <1>2
  <2> QED
    BY <2>3, <2>4
<1> QED
  BY <1>12, <1>14, <1>15, <1>16 DEF VerificationInv

\* When requests only end or move on, those that are alone stay alone.
LEMMA AloneStay ==
  ASSUME VerificationInv, NEW r \in Calls, \A x \in Calls \ {r} : call'[x] = call[x],
         \/ call'[r] = NoCall
         \/ /\ call'[r] # NoCall /\ call[r] # NoCall
            /\ call'[r].target = call[r].target /\ call'[r].alone = call[r].alone
  PROVE  /\ AloneAreAlone'
         /\ \A t \in Targets, x \in Calls : IsAt(call'[x], t) => IsAt(call[x], t)
<1>1. \A x \in Calls : call'[x] # NoCall =>
        call[x] # NoCall /\ call'[x].target = call[x].target /\ call'[x].alone = call[x].alone
  OBVIOUS
<1> QED
  BY <1>1 DEF VerificationInv, AloneAreAlone, IsAt

\* A request that comes to nothing, having changed nothing.
LEMMA CallIsGivenUp ==
  ASSUME VerificationInv, NEW r \in Calls, call[r] # NoCall, ends(r),
         UNCHANGED <<verified, stored>>,
         \/ spoilt' = spoilt \cup {call[r].target}
         \/ UNCHANGED spoilt /\ (call[r].stage = "call" \/ ~call[r].alone)
  PROVE  VerificationInv'
<1>1. VerificationTypeInv
  BY DEF VerificationInv
<1>2. /\ call' \in [Calls -> {NoCall} \cup CallsOpen] /\ call'[r] = NoCall
      /\ \A x \in Calls \ {r} : call'[x] = call[x]
  BY <1>1, CallEnds
<1>3. VerificationTypeInv'
  BY <1>1, <1>2 DEF VerificationTypeInv
<1>4. AloneAreAlone' /\ \A t \in Targets, x \in Calls : IsAt(call'[x], t) => IsAt(call[x], t)
  BY <1>2, AloneStay
<1>5. AloneHaveCalled'
  BY <1>2 DEF VerificationInv, AloneHaveCalled
<1>6. UnspoiltAgree'
  <2> SUFFICES ASSUME NEW u \in Targets \ spoilt'
               PROVE  /\ \A x \in Calls : IsAt(call'[x], u) => call'[x].alone
                      /\ (\A x \in Calls : IsAt(call'[x], u) => call'[x].stage = "call") =>
                           (verified'[u] <=> stored'[u] = "yes")
    BY DEF UnspoiltAgree
  <2>1. u \in Targets \ spoilt
    OBVIOUS
  <2>2. /\ \A x \in Calls : IsAt(call[x], u) => call[x].alone
        /\ (\A x \in Calls : IsAt(call[x], u) => call[x].stage = "call") =>
             (verified[u] <=> stored[u] = "yes")
    BY <2>1 DEF VerificationInv, UnspoiltAgree
  <2>3. IsAt(call[r], u) => call[r].stage = "call"
    BY <2>2 DEF IsAt
  <2>4. \A x \in Calls \ {r} : IsAt(call[x], u) => call'[x] = call[x] /\ IsAt(call'[x], u)
    BY <1>2
  <2>5. \A x \in Calls : IsAt(call'[x], u) => x # r /\ IsAt(call[x], u) /\ call'[x] = call[x]
    BY <1>2 DEF IsAt
  <2> QED
    BY <2>2, <2>3, <2>4, <2>5
<1> QED
  BY <1>3, <1>4, <1>5, <1>6 DEF VerificationInv

\* Telegram has done what was asked, whether or not its answer is heard.
LEMMA TelegramHasDoneIt ==
  ASSUME VerificationInv, NEW r \in Calls, call[r] # NoCall, call[r].stage = "call",
         verified' = [verified EXCEPT ![call[r].target] = call[r].verify],
         UNCHANGED stored,
         \/ goes_on(r, "write") /\ UNCHANGED spoilt
         \/ ends(r) /\ spoils(r)
  PROVE  VerificationInv'
<1>1. VerificationTypeInv /\ call[r].target \in Targets /\ call[r].verify \in BOOLEAN
      /\ verified \in [Targets -> BOOLEAN]
  BY OpenCallHas DEF VerificationInv, VerificationTypeInv
<1>2. /\ verified' \in [Targets -> BOOLEAN] /\ verified'[call[r].target] = call[r].verify
      /\ \A t \in Targets \ {call[r].target} : verified'[t] = verified[t]
  BY <1>1
<1>3. /\ call' \in [Calls -> {NoCall} \cup CallsOpen]
      /\ \A x \in Calls \ {r} : call'[x] = call[x]
      /\ \/ call'[r] = NoCall
         \/ /\ call'[r] # NoCall /\ call'[r].target = call[r].target /\ call'[r].stage = "write"
            /\ call'[r].verify = call[r].verify /\ call'[r].alone = call[r].alone
            /\ UNCHANGED spoilt
  BY <1>1, CallGoesOn, CallEnds
<1>4. VerificationTypeInv'
  BY <1>1, <1>2, <1>3 DEF VerificationTypeInv
<1>5. AloneAreAlone' /\ \A t \in Targets, x \in Calls : IsAt(call'[x], t) => IsAt(call[x], t)
  BY <1>3, AloneStay
<1>6. AloneHaveCalled'
  <2> SUFFICES ASSUME NEW x \in Calls, call'[x] # NoCall, call'[x].alone, call'[x].stage # "call"
               PROVE  call'[x].stage # "waits" /\ verified'[call'[x].target] = call'[x].verify
    BY DEF AloneHaveCalled
  <2>1. CASE x = r
    BY <2>1, <1>2, <1>3
  <2>2. CASE x # r
    <3>1. call'[x] = call[x] /\ call[x].target \in Targets
      BY <2>2, <1>1, <1>3, OpenCallHas
    <3>2. call[x].target # call[r].target
      BY <2>2, <3>1 DEF VerificationInv, AloneAreAlone, IsAt
    <3> QED
      BY <3>1, <3>2, <1>2 DEF VerificationInv, AloneHaveCalled
  <2> QED
    BY <2>1, <2>2
<1>7. UnspoiltAgree'
  <2> SUFFICES ASSUME NEW u \in Targets \ spoilt'
               PROVE  /\ \A x \in Calls : IsAt(call'[x], u) => call'[x].alone
                      /\ (\A x \in Calls : IsAt(call'[x], u) => call'[x].stage = "call") =>
                           (verified'[u] <=> stored'[u] = "yes")
    BY DEF UnspoiltAgree
  <2>1. u \in Targets \ spoilt /\ (u = call[r].target => call'[r] # NoCall)
    <3>1. call'[r] # NoCall => UNCHANGED spoilt
      BY <1>3
    <3>2. call'[r] = NoCall => spoilt' = spoilt \cup {call[r].target}
      BY <1>1, CallGoesOn DEF spoils
    <3> QED
      BY <3>1, <3>2
  <2>2. /\ \A x \in Calls : IsAt(call[x], u) => call[x].alone
        /\ (\A x \in Calls : IsAt(call[x], u) => call[x].stage = "call") =>
             (verified[u] <=> stored[u] = "yes")
    BY <2>1 DEF VerificationInv, UnspoiltAgree
  <2>3. \A x \in Calls : IsAt(call'[x], u) => call'[x].alone
    BY <1>3, <2>2 DEF IsAt
  <2>4. CASE u = call[r].target
    <3>1. IsAt(call'[r], u) /\ call'[r].stage # "call"
      BY <2>1, <2>4, <1>3 DEF IsAt
    <3> QED
      BY <2>3, <3>1
  <2>5. CASE u # call[r].target
    <3>1. \A x \in Calls : IsAt(call[x], u) => x # r /\ IsAt(call'[x], u) /\ call'[x] = call[x]
      BY <2>5, <1>3 DEF IsAt
    <3> QED
      BY <2>2, <2>3, <2>5, <3>1, <1>2
  <2> QED
    BY <2>4, <2>5
<1> QED
  BY <1>4, <1>5, <1>6, <1>7 DEF VerificationInv

\* The call to Telegram, answered or not, keeps the invariant.
LEMMA TelegramIsAsked ==
  ASSUME VerificationInv, NEW r \in Calls, call_telegram(r)
  PROVE  VerificationInv'
<1>1. PICK d \in BOOLEAN, a \in BOOLEAN :
        /\ verified' = [verified EXCEPT ![call[r].target] = IF d THEN call[r].verify ELSE @]
        /\ IF d /\ a THEN goes_on(r, "write") ELSE ends(r)
        /\ IF d /\ ~a THEN spoils(r) ELSE UNCHANGED spoilt
  BY DEF call_telegram
<1>2. call[r].stage = "call" /\ UNCHANGED <<moderators, stored>> /\ call[r] # NoCall
  BY NoCallIsNotOpen DEF call_telegram
<1>3. CASE d
  <2>1. verified' = [verified EXCEPT ![call[r].target] = call[r].verify]
    BY <1>1, <1>3
  <2>2. \/ goes_on(r, "write") /\ UNCHANGED spoilt
        \/ ends(r) /\ spoils(r)
    BY <1>1, <1>3
  <2> QED
    BY <1>2, <2>1, <2>2, TelegramHasDoneIt
<1>4. CASE ~d
  <2>1. verified \in [Targets -> BOOLEAN]
    BY DEF VerificationInv, VerificationTypeInv
  <2>2. verified' = verified /\ ends(r) /\ UNCHANGED spoilt
    BY <1>1, <1>4, <2>1
  <2> QED
    BY <1>2, <2>2, CallIsGivenUp
<1> QED
  BY <1>3, <1>4

\* Between Telegram and the commit only the stage changes, and none that is
\* alone is kept waiting.
LEMMA RowIsLocked ==
  ASSUME VerificationInv, NEW r \in Calls, call[r] # NoCall, call[r].stage # "call",
         NEW s \in {"waits", "created", "loaded"}, goes_on(r, s),
         s = "waits" => ~call[r].alone,
         UNCHANGED <<verified, stored, spoilt>>
  PROVE  VerificationInv'
<1>1. VerificationTypeInv
  BY DEF VerificationInv
<1>2. /\ call' \in [Calls -> {NoCall} \cup CallsOpen]
      /\ \A x \in Calls \ {r} : call'[x] = call[x]
      /\ call'[r] # NoCall /\ call'[r].stage = s /\ call'[r].target = call[r].target
      /\ call'[r].verify = call[r].verify /\ call'[r].alone = call[r].alone
  BY <1>1, CallGoesOn
<1>3. VerificationTypeInv'
  BY <1>1, <1>2 DEF VerificationTypeInv
<1>4. AloneAreAlone'
  BY <1>2, AloneStay
<1>5. AloneHaveCalled'
  BY <1>2 DEF VerificationInv, AloneHaveCalled
<1>6. UnspoiltAgree'
  <2> SUFFICES ASSUME NEW u \in Targets \ spoilt'
               PROVE  /\ \A x \in Calls : IsAt(call'[x], u) => call'[x].alone
                      /\ (\A x \in Calls : IsAt(call'[x], u) => call'[x].stage = "call") =>
                           (verified'[u] <=> stored'[u] = "yes")
    BY DEF UnspoiltAgree
  <2>1. /\ \A x \in Calls : IsAt(call[x], u) => call[x].alone
        /\ (\A x \in Calls : IsAt(call[x], u) => call[x].stage = "call") =>
             (verified[u] <=> stored[u] = "yes")
    BY DEF VerificationInv, UnspoiltAgree
  <2>2. \A x \in Calls : IsAt(call'[x], u) <=> IsAt(call[x], u)
    BY <1>2 DEF IsAt
  <2>3. \A x \in Calls : call'[x].stage = "call" => call[x].stage = "call"
    BY <1>2
  <2>4. \A x \in Calls : IsAt(call'[x], u) => call'[x].alone
    BY <1>2, <2>1, <2>2
  <2>5. ASSUME \A x \in Calls : IsAt(call'[x], u) => call'[x].stage = "call"
        PROVE  \A x \in Calls : IsAt(call[x], u) => call[x].stage = "call"
    BY <2>2, <2>3, <2>5
  <2> QED
    BY <2>1, <2>4, <2>5
<1> QED
  BY <1>3, <1>4, <1>5, <1>6 DEF VerificationInv

\* Looking for the row keeps it.
LEMMA RowIsWanted ==
  ASSUME VerificationInv, NEW r \in Calls, _load_or_create_verification(r)
  PROVE  VerificationInv'
<1>1. call[r].stage = "write" /\ call[r] # NoCall /\ UNCHANGED <<moderators, verified, stored, spoilt>>
  BY NoCallIsNotOpen DEF _load_or_create_verification
<1>2. CASE Holder(call[r].target) = {}
  <2>1. goes_on(r, "created") \/ goes_on(r, "loaded")
    BY <1>2 DEF _load_or_create_verification
  <2> QED
    BY <1>1, <2>1, RowIsLocked
<1>3. CASE Holder(call[r].target) # {}
  <2>1. goes_on(r, "waits")
    BY <1>3 DEF _load_or_create_verification
  <2>2. PICK x \in Calls : IsAt(call[x], call[r].target) /\ call[x].stage \in {"created", "loaded"}
    BY <1>3 DEF Holder, At, IsAt
  <2>3. ~call[r].alone
    BY <1>1, <2>2 DEF VerificationInv, AloneAreAlone
  <2> QED
    BY <1>1, <2>1, <2>3, RowIsLocked
<1> QED
  BY <1>2, <1>3

\* So does the insert that had to wait.
LEMMA WaitIsOver ==
  ASSUME VerificationInv, NEW r \in Calls, insert_goes_on(r)
  PROVE  VerificationInv'
<1>1. call[r].stage = "waits" /\ call[r] # NoCall /\ UNCHANGED <<moderators, verified, stored, spoilt>>
  BY NoCallIsNotOpen DEF insert_goes_on
<1>2. ~call[r].alone
  BY <1>1 DEF VerificationInv, AloneHaveCalled
<1>3. ends(r) \/ goes_on(r, "created")
  BY DEF insert_goes_on
<1>4. CASE ends(r)
  BY <1>1, <1>2, <1>4, CallIsGivenUp
<1>5. CASE goes_on(r, "created")
  BY <1>1, <1>5, RowIsLocked
<1> QED
  BY <1>3, <1>4, <1>5

\* So does the commit, after which both sides agree.
LEMMA MarkIsCommitted ==
  ASSUME VerificationInv, NEW r \in Calls, commit_verification(r)
  PROVE  VerificationInv'
<1> DEFINE t == call[r].target
<1>1. /\ call[r].stage \in {"created", "loaded"} /\ call[r] # NoCall /\ UNCHANGED verified
      /\ stored' = [stored EXCEPT ![t] = IF call[r].verify THEN "yes" ELSE "no"]
      /\ ends(r)
      /\ spoilt' = IF call[r].alone THEN spoilt \ {t} ELSE spoilt
  BY NoCallIsNotOpen DEF commit_verification
<1>2. VerificationTypeInv /\ t \in Targets /\ call[r].verify \in BOOLEAN /\ call[r].alone \in BOOLEAN
      /\ stored \in [Targets -> {Absent, "yes", "no"}]
  BY <1>1, OpenCallHas DEF VerificationInv, VerificationTypeInv
<1>3. t = call[r].target
  OBVIOUS
<1> HIDE DEF t
<1>4. /\ stored' \in [Targets -> {Absent, "yes", "no"}]
      /\ stored'[t] = (IF call[r].verify THEN "yes" ELSE "no")
      /\ \A u \in Targets \ {t} : stored'[u] = stored[u]
  BY <1>1, <1>2
<1>5. /\ call' \in [Calls -> {NoCall} \cup CallsOpen] /\ call'[r] = NoCall
      /\ \A x \in Calls \ {r} : call'[x] = call[x]
  BY <1>1, <1>2, CallEnds
<1>6. VerificationTypeInv'
  BY <1>1, <1>2, <1>4, <1>5 DEF VerificationTypeInv
<1>7. AloneAreAlone' /\ \A u \in Targets, x \in Calls : IsAt(call'[x], u) => IsAt(call[x], u)
  BY <1>5, AloneStay
<1>8. AloneHaveCalled'
  BY <1>1, <1>5 DEF VerificationInv, AloneHaveCalled
<1>9. UnspoiltAgree'
  <2> SUFFICES ASSUME NEW u \in Targets \ spoilt'
               PROVE  /\ \A x \in Calls : IsAt(call'[x], u) => call'[x].alone
                      /\ (\A x \in Calls : IsAt(call'[x], u) => call'[x].stage = "call") =>
                           (verified'[u] <=> stored'[u] = "yes")
    BY DEF UnspoiltAgree
  <2>1. CASE u # t
    <3>1. u \in Targets \ spoilt
      BY <2>1, <1>1
    <3>2. /\ \A x \in Calls : IsAt(call[x], u) => call[x].alone
          /\ (\A x \in Calls : IsAt(call[x], u) => call[x].stage = "call") =>
               (verified[u] <=> stored[u] = "yes")
      BY <3>1 DEF VerificationInv, UnspoiltAgree
    <3>3. \A x \in Calls : IsAt(call[x], u) => x # r /\ call'[x] = call[x]
      BY <2>1, <1>3, <1>5 DEF IsAt
    <3>4. \A x \in Calls : IsAt(call'[x], u) => IsAt(call[x], u) /\ call'[x] = call[x]
      BY <1>5 DEF IsAt
    <3> QED
      BY <2>1, <3>2, <3>3, <3>4, <1>1, <1>4
  <2>2. CASE u = t
    <3>1. call[r].alone
      <4>1. CASE u \in spoilt
        BY <4>1, <2>2, <1>1
      <4>2. CASE u \notin spoilt
        BY <4>2, <2>2, <1>1, <1>3 DEF VerificationInv, UnspoiltAgree, IsAt
      <4> QED
        BY <4>1, <4>2
    <3>2. \A x \in Calls : ~IsAt(call'[x], u)
      BY <3>1, <2>2, <1>1, <1>3, <1>5 DEF VerificationInv, AloneAreAlone, IsAt
    <3>3. verified[t] = call[r].verify
      BY <3>1, <1>1, <1>3 DEF VerificationInv, AloneHaveCalled
    <3> QED
      BY <3>2, <3>3, <2>2, <1>1, <1>2, <1>4
  <2> QED
    BY <2>1, <2>2
<1> QED
  BY <1>6, <1>7, <1>8, <1>9 DEF VerificationInv

\* Every step keeps the invariant of the marks.
LEMMA VerificationNextInv ==
  ASSUME VerificationInv, [VerificationNext]_verification_vars
  PROVE  VerificationInv'
<1>1. ASSUME UNCHANGED <<verified, stored, call, spoilt>>
      PROVE  VerificationInv'
  BY <1>1 DEF VerificationInv, VerificationTypeInv, AloneAreAlone, AloneHaveCalled, UnspoiltAgree, IsAt
<1>2. CASE UNCHANGED verification_vars
  BY <1>1, <1>2 DEF verification_vars
<1>3. ASSUME NEW a \in People, NEW u \in People,
             mod_role_manage(a, u) \/ action_grant_moderator(a, u) \/ action_revoke_moderator(a, u)
      PROVE  VerificationInv'
  BY <1>1, <1>3 DEF mod_role_manage, action_grant_moderator, action_revoke_moderator, roles_only
<1>4. ASSUME NEW a \in People, NEW r \in Calls, NEW t \in Targets,
             \/ mod_verify_user(a, r, t) \/ mod_unverify_user(a, r, t)
             \/ mod_verify_chat(a, r, t) \/ mod_unverify_chat(a, r, t)
             \/ action_verify_user(a, r, t) \/ action_unverify_user(a, r, t)
      PROVE  VerificationInv'
  <2>1. begin(r, t, TRUE) \/ begin(r, t, FALSE)
    BY <1>4 DEF mod_verify_user, mod_unverify_user, mod_verify_chat, mod_unverify_chat,
                action_verify_user, action_unverify_user, by_bot, by_panel
  <2> QED
    BY <2>1, CallBegins
<1>5. ASSUME NEW r \in Calls, killed(r)
      PROVE  VerificationInv'
  BY <1>5, CallIsGivenUp DEF killed, spoils
<1> QED
  BY <1>2, <1>3, <1>4, <1>5, TelegramIsAsked, RowIsWanted, WaitIsOver, MarkIsCommitted
  DEF VerificationNext

\* With no request at work, and none spoilt, the row says verified exactly when
\* Telegram does, for any number of people, targets and requests
\* (verification_service.py).
THEOREM MarksAgree == VerificationSpec => []VerificationAgrees
<1>1. VerificationInit => VerificationInv
  BY VerificationInitInv
<1>2. VerificationInv /\ [VerificationNext]_verification_vars => VerificationInv'
  BY VerificationNextInv
<1>3. VerificationInv => VerificationAgrees
  BY DEF VerificationInv, UnspoiltAgree, VerificationAgrees, At, IsAt
<1> QED
  BY <1>1, <1>2, <1>3, PTL DEF VerificationSpec
-----------------------------------------------------------------------------
(* Presets of a queue's table (module QueuePresets).                        *)

PresetRow(v) == v = [owner |-> v.owner, name |-> v.name, view |-> v.view]

\* No id is given twice.
PresetRowsInv ==
  /\ next_id \in Nat
  /\ presets = [p \in PresetIds |-> presets[p]]
  /\ \A p \in PresetIds : Exists(p) => p < next_id /\ PresetRow(presets[p])

\* The row a request is about to overwrite was there when it was found, and is
\* still that row unless it was deleted.
Found(t, table, next, mayWrite) ==
  /\ t.preset \in PresetIds /\ t.preset < next
  /\ table[t.preset] # NoPreset => mayWrite \/ table[t.preset].owner = t.subject
RequestIsSound(t, table, next) ==
  /\ t = [f \in DOMAIN t |-> t[f]]
  /\ {"op", "stage", "subject", "preset", "ok"} \subseteq DOMAIN t
  /\ t.stage = "write" /\ t.op = "update" => Found(t, table, next, t.subject \in Admins)
  /\ t.stage = "write" /\ t.op = "save" /\ t.preset # NoPreset => Found(t, table, next, FALSE)

PresetsInv ==
  /\ PresetRowsInv
  /\ tx = [r \in PageRequests |-> tx[r]]
  /\ \A r \in PageRequests : tx[r] # NoRequest => RequestIsSound(tx[r], presets, next_id)

\* A row that is there is the one that was, whatever its layout, and it has an id
\* that was given.
SameOwner(v, u) == v = u \/ (PresetRow(v) /\ v.owner = u.owner /\ v.name = u.name)
Keeps ==
  /\ next_id' \in Nat /\ next_id <= next_id'
  /\ presets' = [p \in PresetIds |-> presets'[p]]
  /\ \A p \in PresetIds : presets'[p] # NoPreset =>
       \/ Exists(p) /\ SameOwner(presets'[p], presets[p])
       \/ ~Exists(p) /\ PresetRow(presets'[p]) /\ p >= next_id /\ p < next_id'

\* A request that moves on leaves what the others have found as it was.
LEMMA StaysSound ==
  ASSUME PresetRowsInv, Keeps, NEW r \in PageRequests, RequestIsSound(tx[r], presets, next_id)
  PROVE  RequestIsSound(tx[r], presets', next_id')
<1> DEFINE t == tx[r]
<1>1. ASSUME NEW m \in BOOLEAN, Found(t, presets, next_id, m) PROVE Found(t, presets', next_id', m)
  BY <1>1 DEF Found, PresetRowsInv, Keeps, SameOwner, Exists, PresetIds
<1> HIDE DEF t
<1>2. (t.subject \in Admins) \in BOOLEAN /\ RequestIsSound(t, presets, next_id)
  BY DEF t
<1>3. RequestIsSound(t, presets', next_id')
  BY <1>1, <1>2 DEF RequestIsSound
<1> QED BY <1>3 DEF t

LEMMA RowsKept == ASSUME PresetRowsInv, Keeps PROVE PresetRowsInv'
BY DEF PresetRowsInv, Keeps, SameOwner, Exists, PresetIds

LEMMA RowsStay == ASSUME PresetRowsInv, UNCHANGED <<presets, next_id>> PROVE Keeps
BY DEF PresetRowsInv, Keeps, SameOwner, Exists

\* One request is another now, the others are as they were.
LEMMA RequestMoves ==
  ASSUME PresetsInv, Keeps, NEW r \in PageRequests, NEW t, tx' = [tx EXCEPT ![r] = t],
         t = NoRequest \/ RequestIsSound(t, presets', next_id')
  PROVE  PresetsInv'
<1>1. ASSUME NEW q \in PageRequests, tx'[q] # NoRequest PROVE RequestIsSound(tx'[q], presets', next_id')
  <2>1. tx = [s \in PageRequests |-> tx[s]]
    BY DEF PresetsInv
  <2>2. CASE q = r
    BY <1>1, <2>1, <2>2
  <2>3. CASE q # r
    <3>1. tx'[q] = tx[q] /\ RequestIsSound(tx[q], presets, next_id)
      BY <1>1, <2>1, <2>3 DEF PresetsInv
    <3> QED BY <3>1, StaysSound DEF PresetsInv
  <2> QED BY <2>2, <2>3
<1>2. PresetRowsInv'
  BY RowsKept DEF PresetsInv
<1>3. tx' = [s \in PageRequests |-> tx'[s]]
  BY DEF PresetsInv
<1> QED BY <1>1, <1>2, <1>3 DEF PresetsInv

\* A request that is answered, or has lost, is about no row any more.
LEMMA RequestEnds ==
  ASSUME PresetsInv, NEW r \in PageRequests, UNCHANGED <<presets, next_id>>,
         tx' = [tx EXCEPT ![r] = NoRequest]
  PROVE  PresetsInv'
BY RowsStay, RequestMoves DEF PresetsInv

\* A request reads.
LEMMA ReadsInv ==
  ASSUME PresetsInv, NEW r \in PageRequests, NEW t, reads(r, t), RequestIsSound(t, presets, next_id)
  PROVE  PresetsInv'
<1>1. UNCHANGED <<presets, next_id>> /\ tx' = [tx EXCEPT ![r] = t]
  BY DEF reads, tables
<1> QED BY <1>1, RowsStay, RequestMoves DEF PresetsInv

\* A request for a preset.
LEMMA RequestIs ==
  ASSUME NEW op, NEW s, NEW p
  PROVE  LET t == Request(op, s, p) IN
         /\ t = [f \in DOMAIN t |-> t[f]] /\ DOMAIN t = {"op", "stage", "subject", "preset", "ok"}
         /\ t.op = op /\ t.stage = "write" /\ t.subject = s /\ t.preset = p
BY DEF Request

\* What a request keeps of what it has read.
LEMMA WhatIsRequested ==
  ASSUME NEW op, NEW s, NEW p, NEW more,
         more = [f \in DOMAIN more |-> more[f]],
         {"op", "stage", "subject", "preset", "ok"} \cap DOMAIN more = {}
  PROVE  LET t == Keeping(Request(op, s, p), more) IN
         /\ t = [f \in DOMAIN t |-> t[f]] /\ {"op", "stage", "subject", "preset", "ok"} \subseteq DOMAIN t
         /\ t.op = op /\ t.stage = "write" /\ t.subject = s /\ t.preset = p
<1> DEFINE u == Request(op, s, p)
           t == Keeping(u, more)
<1>1. DOMAIN u = {"op", "stage", "subject", "preset", "ok"}
      /\ u.op = op /\ u.stage = "write" /\ u.subject = s /\ u.preset = p
  BY RequestIs
<1> HIDE DEF u
<1>2. t = [f \in DOMAIN u \cup DOMAIN more |-> IF f \in DOMAIN u THEN u[f] ELSE more[f]]
  BY DEF Keeping
<1> HIDE DEF t
<1>3. DOMAIN t = DOMAIN u \cup DOMAIN more /\ t = [f \in DOMAIN t |-> t[f]]
  BY <1>2
<1>4. \A f \in DOMAIN u : t[f] = u[f]
  BY <1>2
<1> QED BY <1>1, <1>3, <1>4 DEF t, u

\* The row a look-up finds.
LEMMA DuplicateIs ==
  ASSUME PresetRowsInv, NEW s, NEW n, duplicate(s, n) # NoPreset
  PROVE  LET p == duplicate(s, n) IN
         p \in PresetIds /\ p < next_id /\ Exists(p) /\ presets[p].owner = s
<1> DEFINE Is(p) == Exists(p) /\ presets[p].owner = s /\ presets[p].name = n
<1>1. \E p \in PresetIds : Is(p)
  BY DEF duplicate
<1>2. duplicate(s, n) = CHOOSE p \in PresetIds : Is(p)
  BY <1>1 DEF duplicate
<1>3. duplicate(s, n) \in PresetIds /\ Is(duplicate(s, n))
  BY <1>1, <1>2
<1> QED BY <1>3 DEF PresetRowsInv

LEMMA SaveInv ==
  ASSUME PresetsInv, NEW r \in PageRequests, NEW s, NEW n, NEW l, NEW o, save_preset(r, s, n, l, o)
  PROVE  PresetsInv'
<1> DEFINE dup == duplicate(s, n)
           more == [name |-> n, view |-> l, loaded |-> IF dup = NoPreset THEN NoPreset ELSE presets[dup].view]
           t == Keeping(Request("save", s, NoPreset), more)
           u == IF dup # NoPreset /\ ~o THEN [t EXCEPT !.stage = "reply", !.preset = dup]
                ELSE [t EXCEPT !.preset = dup]
<1>1. reads(r, u)
  BY DEF save_preset
<1>2. /\ t = [f \in DOMAIN t |-> t[f]] /\ {"op", "stage", "subject", "preset", "ok"} \subseteq DOMAIN t
      /\ t.op = "save" /\ t.subject = s
  <2>1. more = [f \in DOMAIN more |-> more[f]] /\ {"op", "stage", "subject", "preset", "ok"} \cap DOMAIN more = {}
    OBVIOUS
  <2> HIDE DEF more
  <2> QED BY <2>1, WhatIsRequested
<1>3. dup # NoPreset => dup \in PresetIds /\ dup < next_id /\ presets[dup].owner = s
  BY DuplicateIs DEF PresetsInv
<1> HIDE DEF t, dup
<1>4. RequestIsSound(u, presets, next_id)
  <2>1. CASE dup # NoPreset /\ ~o
    <3>1. u = [t EXCEPT !.stage = "reply", !.preset = dup]
      BY <2>1
    <3>2. u.stage = "reply" /\ DOMAIN u = DOMAIN t /\ u = [f \in DOMAIN u |-> u[f]]
      BY <1>2, <3>1
    <3> HIDE DEF u
    <3> QED BY <1>2, <3>2 DEF RequestIsSound
  <2>2. CASE ~(dup # NoPreset /\ ~o)
    <3>1. u = [t EXCEPT !.preset = dup]
      BY <2>2
    <3>2. /\ u.op = "save" /\ u.subject = s /\ u.preset = dup /\ DOMAIN u = DOMAIN t
          /\ u = [f \in DOMAIN u |-> u[f]]
      BY <1>2, <3>1
    <3> HIDE DEF u
    <3> QED BY <1>2, <1>3, <3>2 DEF RequestIsSound, Found
  <2> QED BY <2>1, <2>2
<1> HIDE DEF u
<1> QED BY <1>1, <1>4, ReadsInv

LEMMA UpdateInv ==
  ASSUME PresetsInv, NEW r \in PageRequests, NEW s, NEW p \in PresetIds, NEW l, update_preset(r, s, p, l)
  PROVE  PresetsInv'
<1> DEFINE more == [view |-> l, loaded |-> presets[p].view]
           t == Keeping(Request("update", s, p), more)
<1>1. reads(r, t) /\ Exists(p) /\ can_mutate(p, s)
  BY DEF update_preset
<1>2. /\ t = [f \in DOMAIN t |-> t[f]] /\ {"op", "stage", "subject", "preset", "ok"} \subseteq DOMAIN t
      /\ t.op = "update" /\ t.subject = s /\ t.preset = p
  <2>1. more = [f \in DOMAIN more |-> more[f]] /\ {"op", "stage", "subject", "preset", "ok"} \cap DOMAIN more = {}
    OBVIOUS
  <2> HIDE DEF more
  <2> QED BY <2>1, WhatIsRequested
<1> HIDE DEF t
<1>3. RequestIsSound(t, presets, next_id)
  BY <1>1, <1>2 DEF RequestIsSound, Found, PresetsInv, PresetRowsInv, Exists, can_mutate
<1> QED BY <1>1, <1>3, ReadsInv

\* The other requests overwrite nothing.
LEMMA OtherReadsInv ==
  ASSUME PresetsInv, NEW r \in PageRequests, NEW s,
         \/ \E p \in PresetIds \cup {NoPreset} : select_preset(r, s, p) \/ set_admin_default(r, s, p)
         \/ open_page(r, s)
  PROVE  PresetsInv'
<1>1. PICK op, p : op \in {"select", "set_default", "page"} /\ reads(r, Request(op, s, p))
  BY DEF select_preset, set_admin_default, open_page
<1> DEFINE t == Request(op, s, p)
<1>3. /\ t = [f \in DOMAIN t |-> t[f]] /\ {"op", "stage", "subject", "preset", "ok"} \subseteq DOMAIN t
      /\ t.op \notin {"save", "update"}
  BY <1>1, RequestIs
<1> HIDE DEF t
<1>4. RequestIsSound(t, presets, next_id)
  BY <1>3 DEF RequestIsSound
<1> QED BY <1>1, <1>4, ReadsInv DEF t

LEMMA DeleteReadsInv ==
  ASSUME PresetsInv, NEW r \in PageRequests, NEW s, NEW p, NEW k, delete_preset(r, s, p, k)
  PROVE  PresetsInv'
<1> DEFINE more == [was_active |-> selection[s] = p, keep_current |-> k, fallback |-> default]
           t == Keeping(Request("delete", s, p), more)
<1>1. reads(r, t)
  BY DEF delete_preset
<1>2. /\ t = [f \in DOMAIN t |-> t[f]] /\ {"op", "stage", "subject", "preset", "ok"} \subseteq DOMAIN t
      /\ t.op = "delete"
  <2>1. more = [f \in DOMAIN more |-> more[f]] /\ {"op", "stage", "subject", "preset", "ok"} \cap DOMAIN more = {}
    <3>1. PICK b \in BOOLEAN : b = (selection[s] = p)
      OBVIOUS
    <3> QED BY <3>1
  <2> HIDE DEF more
  <2> QED BY <2>1, WhatIsRequested
<1> HIDE DEF t
<1>3. RequestIsSound(t, presets, next_id)
  BY <1>2 DEF RequestIsSound
<1> QED BY <1>1, <1>3, ReadsInv

\* A statement succeeds and its request commits.
LEMMA CommitInv ==
  ASSUME PresetsInv, Keeps, NEW r \in PageRequests, tx[r] # NoRequest, NEW p, commit(r, p)
  PROVE  PresetsInv' /\ tx'[r].ok
<1> DEFINE u == tx[r]
           t == [[[u EXCEPT !.stage = "reply"] EXCEPT !.ok = TRUE] EXCEPT !.preset = p]
<1>1. RequestIsSound(u, presets, next_id) /\ tx = [q \in PageRequests |-> tx[q]]
  BY DEF PresetsInv
<1>2. u = [f \in DOMAIN u |-> u[f]] /\ {"op", "stage", "subject", "preset", "ok"} \subseteq DOMAIN u
  BY <1>1 DEF RequestIsSound
<1>3. tx' = [tx EXCEPT ![r] = t]
  BY <1>1, <1>2 DEF commit
<1>4. tx'[r] = t
  BY <1>1, <1>3
<1> HIDE DEF u
<1>5. t = [f \in DOMAIN t |-> t[f]] /\ DOMAIN t = DOMAIN u /\ t.stage = "reply" /\ t.ok
  BY <1>2
<1> HIDE DEF t
<1>6. RequestIsSound(t, presets', next_id')
  BY <1>2, <1>5 DEF RequestIsSound
<1> QED BY <1>3, <1>4, <1>5, <1>6, RequestMoves

LEMMA RollbackInv ==
  ASSUME PresetsInv, NEW r \in PageRequests, rollback(r) PROVE PresetsInv' /\ UNCHANGED presets
BY RequestEnds DEF rollback, tables

\* A row is changed by who may change it.
Overwrites(r, p) ==
  /\ tx[r] # NoRequest /\ tx[r].op \in {"save", "update"} /\ tx[r].preset = p
  /\ can_mutate(p, tx[r].subject)
  /\ tx'[r].ok
WorkIsKept ==
  \A p \in PresetIds :
    (Exists(p) /\ presets'[p] # NoPreset /\ presets'[p] # presets[p]) =>
      /\ presets'[p].owner = presets[p].owner /\ presets'[p].name = presets[p].name
      /\ \E r \in PageRequests : Overwrites(r, p)

LEMMA OverwriteInv ==
  ASSUME PresetsInv, NEW r \in PageRequests,
         \/ writes(r, "save") /\ tx[r].preset # NoPreset
         \/ writes(r, "update"),
         overwrite_preset(r)
  PROVE  PresetsInv' /\ WorkIsKept
<1> DEFINE t == tx[r]
           p == t.preset
<1>1. CASE ~Exists(p)
  BY <1>1, RollbackInv DEF overwrite_preset, WorkIsKept
<1>2. CASE Exists(p)
  <2>1. t # NoRequest /\ t.op \in {"save", "update"} /\ t.stage = "write" /\ RequestIsSound(t, presets, next_id)
        /\ (t.op = "save" => p # NoPreset)
    BY DEF writes, PresetsInv
  <2>2. p \in PresetIds /\ (t.subject \in Admins \/ presets[p].owner = t.subject)
    BY <1>2, <2>1 DEF RequestIsSound, Found, Exists
  <2>3. can_mutate(p, t.subject)
    BY <2>2 DEF can_mutate
  <2>4. presets' = [presets EXCEPT ![p].view = overwritten(t)] /\ next_id' = next_id /\ commit(r, p)
    BY <1>2 DEF overwrite_preset
  <2>5. PresetRowsInv /\ PresetRow(presets[p])
    BY <1>2, <2>2 DEF PresetsInv, PresetRowsInv
  <2>6. /\ presets' = [q \in PresetIds |-> presets'[q]]
        /\ \A q \in PresetIds \ {p} : presets'[q] = presets[q]
        /\ SameOwner(presets'[p], presets[p])
    <3> DEFINE view == overwritten(t)
               this_row == presets[p]
               next == [this_row EXCEPT !.view = view]
    <3>1. presets' = [presets EXCEPT ![p] = next]
      BY <2>4
    <3>2. PresetRow(this_row)
      BY <2>5
    <3> HIDE DEF this_row, view
    <3>3. SameOwner(next, this_row)
      BY <3>2 DEF PresetRow, SameOwner
    <3> HIDE DEF next, p, t
    <3> QED BY <2>2, <2>5, <3>1, <3>3 DEF PresetRowsInv, this_row
  <2> HIDE DEF p
  <2>7. Keeps
    BY <1>2, <2>4, <2>5, <2>6 DEF Keeps, PresetRowsInv, SameOwner, Exists
  <2>8. PresetsInv' /\ tx'[r].ok
    BY <2>1, <2>4, <2>7, CommitInv
  <2>9. Overwrites(r, p)
    BY <2>1, <2>3, <2>8 DEF Overwrites, p
  <2> QED BY <2>6, <2>8, <2>9 DEF WorkIsKept, SameOwner
<1> QED BY <1>1, <1>2

LEMMA InsertInv ==
  ASSUME PresetsInv, NEW r \in PageRequests, writes(r, "save"), insert_preset(r)
  PROVE  PresetsInv' /\ WorkIsKept
<1> DEFINE t == tx[r]
<1>1. CASE duplicate(t.subject, t.name) # NoPreset
  BY <1>1, RollbackInv DEF insert_preset, WorkIsKept
<1>2. CASE duplicate(t.subject, t.name) = NoPreset
  <2> DEFINE this_row == [owner |-> t.subject, name |-> t.name, view |-> t.view]
  <2>1. /\ next_id \in PresetIds /\ presets' = [presets EXCEPT ![next_id] = this_row]
        /\ next_id' = next_id + 1 /\ commit(r, next_id)
    BY <1>2 DEF insert_preset
  <2>2. PresetRowsInv /\ ~Exists(next_id)
    BY <2>1 DEF PresetsInv, PresetRowsInv
  <2>3. PresetRow(this_row)
    BY DEF PresetRow
  <2> HIDE DEF this_row
  <2>4. /\ presets' = [q \in PresetIds |-> presets'[q]] /\ presets'[next_id] = this_row
        /\ \A q \in PresetIds \ {next_id} : presets'[q] = presets[q]
    BY <2>1, <2>2 DEF PresetRowsInv
  <2>5. Keeps
    BY <2>1, <2>2, <2>3, <2>4 DEF Keeps, PresetRowsInv, SameOwner, Exists
  <2>6. PresetsInv'
    BY <2>1, <2>5, CommitInv DEF writes
  <2> QED BY <2>2, <2>4, <2>6 DEF WorkIsKept
<1> QED BY <1>1, <1>2

LEMMA DeleteWritesInv ==
  ASSUME PresetsInv, NEW r \in PageRequests, delete_preset_writes(r)
  PROVE  PresetsInv' /\ WorkIsKept
<1> DEFINE p == tx[r].preset
<1>1. /\ tx[r] # NoRequest /\ presets' = [presets EXCEPT ![p] = NoPreset] /\ next_id' = next_id /\ commit(r, p)
      /\ PresetRowsInv
  BY DEF delete_preset_writes, writes, PresetsInv
<1> HIDE DEF p
<1>2. /\ presets' = [q \in PresetIds |-> presets'[q]]
      /\ \A q \in PresetIds : presets'[q] \in {presets[q], NoPreset}
  BY <1>1 DEF PresetRowsInv
<1>3. Keeps
  BY <1>1, <1>2 DEF Keeps, PresetRowsInv, SameOwner, Exists
<1>4. PresetsInv'
  BY <1>1, <1>3, CommitInv
<1> QED BY <1>2, <1>4 DEF WorkIsKept

\* The other statements are not about rows.
LEMMA OtherWritesInv ==
  ASSUME PresetsInv, NEW r \in PageRequests, select_preset_writes(r) \/ set_admin_default_writes(r)
  PROVE  PresetsInv' /\ UNCHANGED presets
<1>1. tx[r] # NoRequest /\ (rollback(r) \/ \E p : UNCHANGED <<presets, next_id>> /\ commit(r, p))
  BY DEF select_preset_writes, set_admin_default_writes, writes
<1> QED BY <1>1, RowsStay, CommitInv, RollbackInv DEF PresetsInv

LEMMA PresetsInitInv == PresetsInit => PresetsInv
BY DEF PresetsInit, PresetsInv, PresetRowsInv, Exists

\* Every step keeps what requests have found, and the work that was saved.
LEMMA PresetsStep == ASSUME PresetsInv, [PresetsNext]_presets_vars PROVE PresetsInv' /\ WorkIsKept
<1>1. CASE UNCHANGED presets_vars
  <2>1. UNCHANGED <<presets, next_id, tx>>
    BY <1>1 DEF presets_vars
  <2> QED BY <2>1 DEF PresetsInv, PresetRowsInv, Exists, WorkIsKept
<1>2. ASSUME UNCHANGED presets PROVE WorkIsKept
  BY <1>2 DEF WorkIsKept
<1>3. ASSUME NEW r \in PageRequests, NEW t, reads(r, t) PROVE UNCHANGED presets
  BY <1>3 DEF reads, tables
<1>4. CASE \E r \in PageRequests, s \in Subjects, n \in Names, l \in Layouts, o \in BOOLEAN :
             save_preset(r, s, n, l, o)
  <2>1. UNCHANGED presets
    BY <1>4 DEF save_preset, reads, tables
  <2> QED BY <1>2, <1>4, <2>1, SaveInv
<1>5. CASE \E r \in PageRequests, s \in Subjects, p \in PresetIds, l \in Layouts : update_preset(r, s, p, l)
  <2>1. UNCHANGED presets
    BY <1>5 DEF update_preset, reads, tables
  <2> QED BY <1>2, <1>5, <2>1, UpdateInv
<1>6. CASE \E r \in PageRequests, s \in Subjects :
             \/ \E p \in PresetIds \cup {NoPreset} : select_preset(r, s, p) \/ set_admin_default(r, s, p)
             \/ open_page(r, s)
  <2>1. UNCHANGED presets
    BY <1>6 DEF select_preset, set_admin_default, open_page, reads, tables
  <2> QED BY <1>2, <1>6, <2>1, OtherReadsInv
<1>7. CASE \E r \in PageRequests, s \in Subjects, p \in PresetIds, k \in BOOLEAN : delete_preset(r, s, p, k)
  <2>1. UNCHANGED presets
    BY <1>7 DEF delete_preset, reads, tables
  <2> QED BY <1>2, <1>7, <2>1, DeleteReadsInv
<1>8. ASSUME NEW r \in PageRequests, save_preset_writes(r) PROVE PresetsInv' /\ WorkIsKept
  BY <1>8, InsertInv, OverwriteInv DEF save_preset_writes
<1>9. ASSUME NEW r \in PageRequests, update_preset_writes(r) PROVE PresetsInv' /\ WorkIsKept
  BY <1>9, OverwriteInv DEF update_preset_writes
<1>10. ASSUME NEW r \in PageRequests, resolve_queue_preset_state(r) \/ reply(r) PROVE PresetsInv' /\ WorkIsKept
  <2>1. UNCHANGED <<presets, next_id>> /\ tx' = [tx EXCEPT ![r] = NoRequest]
    BY <1>10 DEF resolve_queue_preset_state, reply, tables
  <2> QED BY <1>2, <2>1, RequestEnds
<1>11. CASE \E s \in Subjects, l \in Layouts : save_admin_list_preference(s, l)
  <2>1. UNCHANGED <<presets, next_id, tx>>
    BY <1>11 DEF save_admin_list_preference
  <2> QED BY <1>2, <2>1 DEF PresetsInv, PresetRowsInv, Exists
<1>12. CASE deploy
  <2>1. UNCHANGED <<presets, next_id>> /\ tx' = [r \in PageRequests |-> NoRequest]
    BY <1>12 DEF deploy, tables
  <2> QED BY <1>2, <2>1 DEF PresetsInv, PresetRowsInv, Exists
<1> QED BY <1>1, <1>2, <1>4, <1>5, <1>6, <1>7, <1>8, <1>9, <1>10, <1>11, <1>12, DeleteWritesInv, OtherWritesInv
        DEF PresetsNext

\* A preset's content changes only by its owner or an admin who found this very
\* preset and was told to overwrite it, however the checks of saves interleave with
\* their inserts (save_preset, update_preset).
THEOREM WorkStaysSaved == PresetsSpec => SavedWorkIsKept
<1>1. PresetsInv /\ [PresetsNext]_presets_vars => PresetsInv'
  BY PresetsStep
<1>2. PresetsInv /\ [PresetsNext]_presets_vars =>
        [\A p \in PresetIds :
           (Exists(p) /\ presets'[p] # NoPreset /\ presets'[p] # presets[p]) =>
             /\ presets'[p].owner = presets[p].owner /\ presets'[p].name = presets[p].name
             /\ \E r \in PageRequests :
                  /\ tx[r] # NoRequest /\ tx[r].op \in {"save", "update"} /\ tx[r].preset = p
                  /\ can_mutate(p, tx[r].subject)
                  /\ tx'[r].ok]_presets_vars
  BY PresetsStep DEF WorkIsKept, Overwrites
<1> QED BY <1>1, <1>2, PresetsInitInv, PTL DEF PresetsSpec, SavedWorkIsKept

\* Sequences without duplicates.
LEMMA NoDuplicatesIs ==
  ASSUME NEW U, NEW s \in Seq(U)
  PROVE  /\ ToSet(s) = {s[i] : i \in 1..Len(s)} /\ ToSet(s) \subseteq U
         /\ NoDuplicates(s) <=> \A i, j \in 1..Len(s) : s[i] = s[j] => i = j
<1> DEFINE D == 1..Len(s)
           T == {s[i] : i \in D}
<1>1. Len(s) \in Nat /\ DOMAIN s = D /\ \A i \in D : s[i] \in U
  OBVIOUS
<1>2. ToSet(s) = T
  BY <1>1 DEF ToSet
<1>3. IsFiniteSet(D) /\ Cardinality(D) = Len(s)
  <2>1. IsFiniteSet(1..Len(s)) /\ Cardinality(1..Len(s)) = Len(s)
    <3> DEFINE n == Len(s)
    <3>1. n \in Nat
      BY <1>1
    <3> HIDE DEF n, D, T
    <3>2. IsFiniteSet(1..n) /\ Cardinality(1..n) = n
      BY <3>1, FS_Interval
    <3> QED BY <3>2 DEF n
  <2> QED BY <2>1
<1>4. s \in [D -> T] /\ \A x \in T : \E i \in D : s[i] = x
  BY <1>1
<1> HIDE DEF T, D
<1>5. s \in Surjection(D, T)
  BY <1>4 DEF Surjection
<1>6. Cardinality(T) = Cardinality(D) <=> s \in Injection(D, T)
  BY <1>3, <1>5, FS_Surjection
<1>7. s \in Injection(D, T) <=> \A i, j \in D : s[i] = s[j] => i = j
  BY <1>4 DEF Injection, IsInjective
<1>8. NoDuplicates(s) <=> Cardinality(T) = Cardinality(D)
  BY <1>2, <1>3 DEF NoDuplicates
<1>9. T \subseteq U
  BY <1>1 DEF T
<1> QED BY <1>2, <1>6, <1>7, <1>8, <1>9 DEF T, D

\* The places of numbers in a finite set of them.
Smaller(K) == {p \in K \X K : p[1] < p[2]}

LEMMA NumbersAreOrdered ==
  ASSUME NEW K \in SUBSET Nat, IsFiniteSet(K)
  PROVE  /\ StrictOrder(K, Smaller(K)) /\ Cardinality(K) \in Nat
         /\ \A i \in K : Cardinality({j \in K : j < i}) = Place(K, Smaller(K), i)
<1>1. \A i, j \in K : <<i, j>> \in Smaller(K) <=> i < j
  BY DEF Smaller
<1>2. \A i \in K : i \in Nat
  OBVIOUS
<1>3. StrictOrder(K, Smaller(K))
  BY <1>1, <1>2 DEF StrictOrder
<1>4. ASSUME NEW i \in K PROVE {j \in K : j < i} = Below(K, Smaller(K), i)
  BY <1>1 DEF Below
<1> QED BY <1>3, <1>4, FS_CardinalityType DEF Place

\* Those of a sequence that are in a set, each of them once.
LEMMA ThoseAre ==
  ASSUME NEW U, NEW s \in Seq(U), NEW S
  PROVE  LET t == Those(s, S) IN
         t \in Seq(U) /\ ToSet(t) = ToSet(s) \cap S /\ (NoDuplicates(s) => NoDuplicates(t))
<1> DEFINE kept == {i \in DOMAIN s : s[i] \in S}
           nth(n) == CHOOSE i \in kept : Cardinality({j \in kept : j < i}) = n - 1
           N == Cardinality(kept)
           t == [n \in 1..N |-> s[nth(n)]]
<1>1. Len(s) \in Nat /\ DOMAIN s = 1..Len(s) /\ \A i \in DOMAIN s : s[i] \in U
  OBVIOUS
<1>2. Those(s, S) = t
  BY DEF Those
<1>3. kept \in SUBSET Nat /\ IsFiniteSet(kept)
  <2> DEFINE D == 1..Len(s)
  <2>1. kept \in SUBSET D /\ D \in SUBSET Nat
    BY <1>1
  <2> HIDE DEF kept
  <2>2. IsFiniteSet(D)
    <3> DEFINE n == Len(s)
    <3>1. n \in Nat
      BY <1>1
    <3> HIDE DEF n
    <3>2. IsFiniteSet(1..n)
      BY <3>1, FS_Interval
    <3> QED BY <3>2 DEF n
  <2> HIDE DEF D
  <2> QED BY <2>1, <2>2, FS_Subset
<1>4. \A i \in kept : i \in DOMAIN s /\ s[i] \in S
  OBVIOUS
<1>5. \A i \in DOMAIN s : s[i] \in S => i \in kept
  OBVIOUS
<1> HIDE DEF kept
<1>6. /\ StrictOrder(kept, Smaller(kept)) /\ N \in Nat
      /\ \A i \in kept : Cardinality({j \in kept : j < i}) = Place(kept, Smaller(kept), i)
  BY <1>3, NumbersAreOrdered
<1>7. /\ \A i, j \in kept : Place(kept, Smaller(kept), i) = Place(kept, Smaller(kept), j) => i = j
      /\ \A n \in 0..(N - 1) : \E i \in kept : Place(kept, Smaller(kept), i) = n
      /\ \A i \in kept : Place(kept, Smaller(kept), i) \in 0..(N - 1)
  <2> DEFINE R == Smaller(kept)
  <2>1. StrictOrder(kept, R)
    BY <1>6
  <2> HIDE DEF R
  <2>2. /\ \A i, j \in kept : Place(kept, R, i) = Place(kept, R, j) => i = j
        /\ \A n \in 0..(N - 1) : \E i \in kept : Place(kept, R, i) = n
    BY <1>3, <2>1, PlacesAreTaken
  <2>3. \A i \in kept : Place(kept, R, i) \in 0..(N - 1)
    BY <1>3, <2>1, PlacesAreInOrder
  <2> QED BY <2>2, <2>3 DEF R
<1>8. ASSUME NEW n \in 1..N PROVE nth(n) \in kept /\ Place(kept, Smaller(kept), nth(n)) = n - 1
  <2>1. n - 1 \in 0..(N - 1)
    BY <1>6
  <2>2. PICK i \in kept : Cardinality({j \in kept : j < i}) = n - 1
    BY <1>6, <1>7, <2>1
  <2>3. nth(n) \in kept /\ Cardinality({j \in kept : j < nth(n)}) = n - 1
    BY <2>2
  <2> HIDE DEF nth
  <2> QED BY <1>6, <2>3
<1> HIDE DEF nth, N
<1>9. t \in Seq(U) /\ Len(t) = N
  <2>1. \A n \in 1..N : s[nth(n)] \in U
    BY <1>1, <1>4, <1>8
  <2> QED BY <1>6, <2>1
<1>10. \A n \in 1..N : t[n] = s[nth(n)]
  OBVIOUS
<1> HIDE DEF t
<1>11. ToSet(t) = {t[n] : n \in 1..N} /\ ToSet(s) = {s[i] : i \in DOMAIN s}
  BY <1>1, <1>9, NoDuplicatesIs
<1>12. ASSUME NEW x \in ToSet(t) PROVE x \in ToSet(s) \cap S
  <2>1. PICK n \in 1..N : x = s[nth(n)]
    BY <1>10, <1>11, <1>12
  <2> QED BY <1>4, <1>8, <1>11, <2>1
<1>13. ASSUME NEW x \in ToSet(s) \cap S PROVE x \in ToSet(t)
  <2>1. PICK i \in kept : x = s[i]
    BY <1>5, <1>11
  <2> DEFINE n == Place(kept, Smaller(kept), i) + 1
  <2>2. n \in 1..N /\ Place(kept, Smaller(kept), i) = n - 1
    BY <1>6, <1>7
  <2> HIDE DEF n
  <2>3. nth(n) = i
    BY <1>7, <1>8, <2>2
  <2> QED BY <1>10, <1>11, <2>1, <2>2, <2>3
<1>14. ASSUME NoDuplicates(s) PROVE NoDuplicates(t)
  <2>1. \A i, j \in DOMAIN s : s[i] = s[j] => i = j
    BY <1>1, <1>14, NoDuplicatesIs
  <2>2. ASSUME NEW m \in 1..N, NEW n \in 1..N, t[m] = t[n] PROVE m = n
    <3>1. nth(m) = nth(n)
      BY <1>4, <1>8, <1>10, <2>1, <2>2
    <3>2. m - 1 = n - 1
      BY <1>8, <3>1
    <3>3. m \in Int /\ n \in Int
      BY <1>6
    <3> QED BY <3>2, <3>3
  <2> QED BY <1>9, <2>2, NoDuplicatesIs
<1> QED BY <1>2, <1>9, <1>12, <1>13, <1>14

\* Two sequences that have nothing in common.
LEMMA JoinedAre ==
  ASSUME NEW U, NEW s \in Seq(U), NEW t \in Seq(U), NoDuplicates(s), NoDuplicates(t), ToSet(s) \cap ToSet(t) = {}
  PROVE  s \o t \in Seq(U) /\ ToSet(s \o t) = ToSet(s) \cup ToSet(t) /\ NoDuplicates(s \o t)
<1> DEFINE u == s \o t
           m == Len(s)
           n == Len(t)
<1>1. /\ u \in Seq(U) /\ m \in Nat /\ n \in Nat /\ Len(u) = m + n
      /\ \A i \in 1..(m + n) : u[i] = IF i <= m THEN s[i] ELSE t[i - m]
  OBVIOUS
<1>2. /\ ToSet(s) = {s[i] : i \in 1..m} /\ \A i, j \in 1..m : s[i] = s[j] => i = j
      /\ ToSet(t) = {t[i] : i \in 1..n} /\ \A i, j \in 1..n : t[i] = t[j] => i = j
  BY NoDuplicatesIs
<1> HIDE DEF u
<1>3. ToSet(u) = {u[i] : i \in 1..(m + n)}
  <2>1. u \in Seq(U) /\ Len(u) = m + n
    BY <1>1
  <2> HIDE DEF m, n
  <2>2. ToSet(u) = {u[i] : i \in 1..Len(u)}
    BY <2>1, NoDuplicatesIs
  <2> QED BY <2>1, <2>2
<1> HIDE DEF m, n
<1>4. \A i \in 1..(m + n) : (i <= m /\ i \in 1..m /\ u[i] = s[i]) \/ (i > m /\ i - m \in 1..n /\ u[i] = t[i - m])
  BY <1>1
<1>5. ToSet(u) = ToSet(s) \cup ToSet(t)
  <2>1. ASSUME NEW i \in 1..m PROVE i \in 1..(m + n) /\ u[i] = s[i]
    BY <1>1
  <2>2. ASSUME NEW i \in 1..n PROVE i + m \in 1..(m + n) /\ u[i + m] = t[i]
    <3>1. i + m \in 1..(m + n) /\ ~(i + m <= m) /\ (i + m) - m = i
      BY <1>1
    <3> QED BY <1>1, <3>1
  <2> QED BY <1>2, <1>3, <1>4, <2>1, <2>2
<1>6. ASSUME NEW i \in 1..(m + n), NEW j \in 1..(m + n), u[i] = u[j] PROVE i = j
  <2>0. i \in Int /\ j \in Int /\ m \in Int /\ n \in Int
    BY <1>1
  <2>1. \A k \in 1..m, l \in 1..n : s[k] # t[l]
    BY <1>2
  <2>2. CASE i \in 1..m /\ u[i] = s[i] /\ i <= m
    <3>1. ~(j > m /\ j - m \in 1..n /\ u[j] = t[j - m])
      BY <1>6, <2>1, <2>2
    <3>2. j \in 1..m /\ u[j] = s[j]
      BY <1>4, <3>1
    <3> QED BY <1>2, <1>6, <2>2, <3>2
  <2>3. CASE i > m /\ i - m \in 1..n /\ u[i] = t[i - m]
    <3>1. ~(j \in 1..m /\ u[j] = s[j])
      BY <1>6, <2>1, <2>3
    <3>2. j - m \in 1..n /\ u[j] = t[j - m]
      BY <1>4, <3>1
    <3>3. i - m = j - m
      BY <1>2, <1>6, <2>3, <3>2
    <3> QED BY <2>0, <3>3
  <2> QED BY <1>4, <2>2, <2>3
<1> QED BY <1>1, <1>5, <1>6, NoDuplicatesIs DEF u, m, n

\* What is stored can be read under any release, and sent back.
SoundViews == {l \in Layouts : NoDuplicates(l.order)}

LEMMA TolerantIsAccepted ==
  ASSUME PresetsAssumption, NEW raw \in SoundViews, NEW allowed \in Seq(STRING), NoDuplicates(allowed)
  PROVE  normalize_columns_payload_accepts(tolerant_columns(raw, allowed), allowed)
<1> DEFINE A == ToSet(allowed)
           known == Those(raw.order, A)
           new == Those(allowed, A \ ToSet(known))
           order == known \o new
           kept == Those(order, ToSet(raw.visible))
           visible == IF kept = <<>> THEN order ELSE kept
           pinned == Those(order, ToSet(raw.pinned) \cap ToSet(visible))
           read == tolerant_columns(raw, allowed)
<1>1. read.visible = visible /\ read.order = order /\ read.pinned = pinned
  BY DEF tolerant_columns
<1>2. raw.order \in Seq(STRING) /\ NoDuplicates(raw.order)
  BY DEF PresetsAssumption, SoundViews
<1>3. known \in Seq(STRING) /\ ToSet(known) = ToSet(raw.order) \cap A /\ NoDuplicates(known)
  BY <1>2, ThoseAre
<1> HIDE DEF known
<1>4. new \in Seq(STRING) /\ ToSet(new) = A \cap (A \ ToSet(known)) /\ NoDuplicates(new)
  BY ThoseAre
<1> HIDE DEF new
<1>5. order \in Seq(STRING) /\ ToSet(order) = ToSet(known) \cup ToSet(new) /\ NoDuplicates(order)
  <2>1. ToSet(known) \cap ToSet(new) = {}
    BY <1>4
  <2> QED BY <1>3, <1>4, <2>1, JoinedAre
<1>6. ToSet(order) = A
  BY <1>3, <1>4, <1>5
<1> HIDE DEF order
<1>7. NoDuplicates(kept) /\ ToSet(kept) \subseteq ToSet(order)
  BY <1>5, ThoseAre
<1> HIDE DEF kept
<1>8. NoDuplicates(visible) /\ ToSet(visible) \subseteq ToSet(order)
  BY <1>5, <1>7
<1> HIDE DEF visible
<1>9. NoDuplicates(pinned) /\ ToSet(pinned) \subseteq ToSet(visible)
  BY <1>5, ThoseAre
<1> HIDE DEF pinned, read, A
<1>10. normalize_columns_payload_accepts(read, allowed)
  BY <1>1, <1>5, <1>6, <1>8, <1>9 DEF normalize_columns_payload_accepts, A
<1> QED BY <1>10 DEF read

LEMMA DefaultIsAccepted ==
  ASSUME NEW allowed \in Seq(STRING), NoDuplicates(allowed)
  PROVE  normalize_columns_payload_accepts(default_columns(allowed), allowed)
<1>1. ToSet(<<>>) = {} /\ NoDuplicates(<<>>)
  <2>1. <<>> \in Seq(STRING) /\ Len(<<>>) = 0
    OBVIOUS
  <2>2. ToSet(<<>>) = {<<>>[i] : i \in 1..Len(<<>>)}
    BY <2>1, NoDuplicatesIs
  <2>3. ToSet(<<>>) = {}
    BY <2>1, <2>2
  <2> QED BY <2>1, <2>3, FS_EmptySet DEF NoDuplicates
<1>2. /\ default_columns(allowed).visible = allowed /\ default_columns(allowed).order = allowed
      /\ default_columns(allowed).pinned = <<>>
  BY DEF default_columns
<1> QED BY <1>1, <1>2 DEF normalize_columns_payload_accepts

\* Rows, requests and pages.
Operations == {"save", "update", "select", "delete", "set_default", "page"}
Given == PresetIds \cup {NoPreset}
RowFits(v) == v.owner \in Subjects /\ v.name \in Names /\ v.view \in SoundViews
Holds(t, f, S) == f \in DOMAIN t /\ t[f] \in S
RequestFits(t) ==
  /\ Holds(t, "op", Operations) /\ Holds(t, "subject", Subjects) /\ Holds(t, "preset", Given)
  /\ t.op \in {"save", "update"} => Holds(t, "view", SoundViews)
  /\ t.op = "save" => Holds(t, "name", Names)
  /\ t.op = "delete" => Holds(t, "fallback", Given)
PageFits(v) == v # NoPreset => normalize_columns_payload_accepts(v.view, v.columns)

RowsFit == next_id \in 1..MaxPresets + 1 /\ \A p \in PresetIds : Exists(p) => RowFits(presets[p])
ChoicesFit ==
  /\ selection \in [Subjects -> Given] /\ default \in Given
  /\ preference \in [Subjects -> Layouts \cup {NoPreset}]
DefaultStands == default # NoPreset => Exists(default)
RequestsFit == \A r \in PageRequests : tx[r] # NoRequest => RequestFits(tx[r])
PagesFit == page = [s \in Subjects |-> page[s]] /\ \A s \in Subjects : PageFits(page[s])
LayoutsInv ==
  /\ PresetsInv /\ RowsFit /\ ChoicesFit /\ DefaultStands /\ RequestsFit /\ PagesFit
  /\ release \in DOMAIN Releases /\ requests \in 0..MaxRequests

LEMMA RequestsMove ==
  ASSUME PresetsInv, RequestsFit, NEW r \in PageRequests, NEW t, tx' = [tx EXCEPT ![r] = t],
         t = NoRequest \/ RequestFits(t)
  PROVE  RequestsFit'
<1>1. tx = [q \in PageRequests |-> tx[q]]
  BY DEF PresetsInv
<1>2. ASSUME NEW q \in PageRequests, tx'[q] # NoRequest PROVE RequestFits(tx'[q])
  <2>1. CASE q = r
    BY <1>1, <1>2, <2>1
  <2>2. CASE q # r
    <3>1. tx'[q] = tx[q]
      BY <1>1, <2>2
    <3> QED BY <1>2, <3>1 DEF RequestsFit
  <2> QED BY <2>1, <2>2
<1> QED BY <1>2 DEF RequestsFit

LEMMA ReadsFit ==
  ASSUME PresetsAssumption, LayoutsInv, NEW r \in PageRequests, NEW t, reads(r, t), RequestFits(t)
  PROVE  RowsFit' /\ ChoicesFit' /\ DefaultStands' /\ RequestsFit' /\ PagesFit'
         /\ release' \in DOMAIN Releases /\ requests' \in 0..MaxRequests
<1>1. /\ requests < MaxRequests /\ requests' = requests + 1 /\ tx' = [tx EXCEPT ![r] = t]
      /\ UNCHANGED <<presets, next_id, selection, default, preference, release, page>>
  BY DEF reads, tables
<1>2. RequestsFit'
  BY <1>1, RequestsMove DEF LayoutsInv
<1>3. RowsFit' /\ ChoicesFit' /\ DefaultStands' /\ PagesFit' /\ release' \in DOMAIN Releases
  BY <1>1 DEF LayoutsInv, RowsFit, ChoicesFit, DefaultStands, PagesFit, Exists
<1>4. requests' \in 0..MaxRequests
  BY <1>1 DEF LayoutsInv, PresetsAssumption
<1> QED BY <1>2, <1>3, <1>4

LEMMA CommitFits ==
  ASSUME LayoutsInv, NEW r \in PageRequests, tx[r] # NoRequest, NEW p \in Given, commit(r, p),
         RowsFit', ChoicesFit'
  PROVE  RequestsFit' /\ PagesFit' /\ release' \in DOMAIN Releases /\ requests' \in 0..MaxRequests
<1> DEFINE u == tx[r]
           t == [[[u EXCEPT !.stage = "reply"] EXCEPT !.ok = TRUE] EXCEPT !.preset = p]
<1>1. RequestIsSound(u, presets, next_id) /\ tx = [q \in PageRequests |-> tx[q]] /\ RequestFits(u)
  BY DEF LayoutsInv, PresetsInv, RequestsFit
<1>2. u = [f \in DOMAIN u |-> u[f]] /\ {"op", "stage", "subject", "preset", "ok"} \subseteq DOMAIN u
  BY <1>1 DEF RequestIsSound
<1>3. tx' = [tx EXCEPT ![r] = t]
  BY <1>1, <1>2 DEF commit
<1> HIDE DEF u
<1>4. /\ DOMAIN t = DOMAIN u /\ t.preset = p
      /\ \A f \in DOMAIN u \ {"stage", "ok", "preset"} : t[f] = u[f]
  BY <1>2
<1> HIDE DEF t
<1>5. RequestFits(t)
  <2>1. t.op = u.op /\ Holds(t, "op", Operations) /\ Holds(t, "subject", Subjects) /\ Holds(t, "preset", Given)
    BY <1>1, <1>2, <1>4 DEF RequestFits, Holds
  <2>2. \A S : /\ Holds(u, "view", S) => Holds(t, "view", S)
               /\ Holds(u, "name", S) => Holds(t, "name", S)
               /\ Holds(u, "fallback", S) => Holds(t, "fallback", S)
    BY <1>4 DEF Holds
  <2> QED BY <1>1, <2>1, <2>2 DEF RequestFits
<1>6. RequestsFit'
  BY <1>3, <1>5, RequestsMove DEF LayoutsInv
<1>7. UNCHANGED <<release, page, requests>>
  BY DEF commit
<1> QED BY <1>6, <1>7 DEF LayoutsInv, PagesFit

LEMMA RollbackFits ==
  ASSUME LayoutsInv, NEW r \in PageRequests, tx' = [tx EXCEPT ![r] = NoRequest],
         UNCHANGED <<presets, next_id, selection, default, preference, release, requests>>
  PROVE  RowsFit' /\ ChoicesFit' /\ DefaultStands' /\ RequestsFit' /\ release' \in DOMAIN Releases /\ requests' \in 0..MaxRequests
<1>1. RequestsFit'
  BY RequestsMove DEF LayoutsInv
<1> QED BY <1>1 DEF LayoutsInv, RowsFit, ChoicesFit, DefaultStands, Exists

\* What every step must keep, next to PresetsInv.
AllFits == RowsFit /\ ChoicesFit /\ DefaultStands /\ RequestsFit /\ PagesFit
        /\ release \in DOMAIN Releases /\ requests \in 0..MaxRequests

LEMMA RollsBack ==
  ASSUME LayoutsInv, NEW r \in PageRequests, rollback(r) PROVE AllFits'
<1>1. /\ tx' = [tx EXCEPT ![r] = NoRequest]
      /\ UNCHANGED <<presets, next_id, selection, default, preference, release, requests, page>>
  BY DEF rollback, tables
<1>2. PagesFit'
  BY <1>1 DEF LayoutsInv, PagesFit
<1> QED BY <1>1, <1>2, RollbackFits DEF AllFits

LEMMA RequestHolds ==
  ASSUME NEW op \in Operations, NEW s \in Subjects, NEW p \in Given
  PROVE  LET t == Request(op, s, p) IN
         Holds(t, "op", Operations) /\ Holds(t, "subject", Subjects) /\ Holds(t, "preset", Given) /\ t.op = op
BY DEF Request, Holds

\* What a request keeps of what it has read.
LEMMA KeepingHolds ==
  ASSUME NEW op \in Operations, NEW s \in Subjects, NEW p \in Given, NEW more,
         {"op", "stage", "subject", "preset", "ok"} \cap DOMAIN more = {}
  PROVE  LET t == Keeping(Request(op, s, p), more) IN
         /\ Holds(t, "op", Operations) /\ Holds(t, "subject", Subjects) /\ Holds(t, "preset", Given) /\ t.op = op
         /\ \A f \in DOMAIN more : f \in DOMAIN t /\ t[f] = more[f]
<1> DEFINE u == Request(op, s, p)
           t == Keeping(u, more)
<1>1. DOMAIN u = {"op", "stage", "subject", "preset", "ok"} /\ u.op = op
      /\ Holds(u, "op", Operations) /\ Holds(u, "subject", Subjects) /\ Holds(u, "preset", Given)
  BY RequestIs, RequestHolds
<1> HIDE DEF u
<1>2. t = [f \in DOMAIN u \cup DOMAIN more |-> IF f \in DOMAIN u THEN u[f] ELSE more[f]]
  BY DEF Keeping
<1> HIDE DEF t
<1>3. \A f \in DOMAIN u : f \in DOMAIN t /\ t[f] = u[f]
  BY <1>2
<1>4. \A f \in DOMAIN more : f \in DOMAIN t /\ t[f] = more[f]
  BY <1>1, <1>2
<1>5. t.op = op /\ Holds(t, "op", Operations) /\ Holds(t, "subject", Subjects) /\ Holds(t, "preset", Given)
  BY <1>1, <1>3 DEF Holds
<1> QED BY <1>4, <1>5 DEF t, u

LEMMA AcceptedIsSound ==
  ASSUME NEW l \in Layouts, NEW allowed, normalize_columns_payload_accepts(l, allowed)
  PROVE  l \in SoundViews
BY DEF normalize_columns_payload_accepts, SoundViews

LEMMA DuplicateIsGiven ==
  ASSUME PresetRowsInv, NEW s, NEW n PROVE duplicate(s, n) \in Given
<1>1. CASE duplicate(s, n) # NoPreset
  BY <1>1, DuplicateIs DEF Given
<1>2. CASE duplicate(s, n) = NoPreset
  BY <1>2 DEF Given
<1> QED BY <1>1, <1>2

LEMMA SaveFits ==
  ASSUME PresetsAssumption, LayoutsInv, NEW r \in PageRequests, NEW s \in Subjects, NEW n \in Names,
         NEW l \in Layouts, NEW o, save_preset(r, s, n, l, o)
  PROVE  AllFits'
<1> DEFINE dup == duplicate(s, n)
           more == [name |-> n, view |-> l, loaded |-> IF dup = NoPreset THEN NoPreset ELSE presets[dup].view]
           t == Keeping(Request("save", s, NoPreset), more)
           u == IF dup # NoPreset /\ ~o THEN [t EXCEPT !.stage = "reply", !.preset = dup]
                ELSE [t EXCEPT !.preset = dup]
<1>1. reads(r, u) /\ l \in SoundViews
  BY AcceptedIsSound DEF save_preset
<1>2. /\ Holds(t, "op", Operations) /\ Holds(t, "subject", Subjects) /\ Holds(t, "preset", Given) /\ t.op = "save"
      /\ \A f \in DOMAIN more : f \in DOMAIN t /\ t[f] = more[f]
  <2>1. {"op", "stage", "subject", "preset", "ok"} \cap DOMAIN more = {} /\ NoPreset \in Given /\ "save" \in Operations
    BY DEF Given, Operations
  <2> HIDE DEF more
  <2> QED BY <2>1, KeepingHolds
<1>3. Holds(t, "view", SoundViews) /\ Holds(t, "name", Names)
  BY <1>1, <1>2 DEF Holds
<1>4. dup \in Given
  BY DuplicateIsGiven DEF LayoutsInv, PresetsInv
<1> HIDE DEF t, dup, more
<1>5. /\ DOMAIN u = DOMAIN t /\ u.preset = dup
      /\ \A f \in DOMAIN t \ {"stage", "preset"} : u[f] = t[f]
  BY <1>2 DEF Holds
<1> HIDE DEF u
<1>6. RequestFits(u)
  BY <1>2, <1>3, <1>4, <1>5 DEF RequestFits, Holds
<1> QED BY <1>1, <1>6, ReadsFit DEF AllFits

LEMMA UpdateFits ==
  ASSUME PresetsAssumption, LayoutsInv, NEW r \in PageRequests, NEW s \in Subjects, NEW p \in PresetIds,
         NEW l \in Layouts, update_preset(r, s, p, l)
  PROVE  AllFits'
<1> DEFINE more == [view |-> l, loaded |-> presets[p].view]
           t == Keeping(Request("update", s, p), more)
<1>1. reads(r, t) /\ l \in SoundViews
  BY AcceptedIsSound DEF update_preset
<1>2. /\ Holds(t, "op", Operations) /\ Holds(t, "subject", Subjects) /\ Holds(t, "preset", Given) /\ t.op = "update"
      /\ \A f \in DOMAIN more : f \in DOMAIN t /\ t[f] = more[f]
  <2>1. {"op", "stage", "subject", "preset", "ok"} \cap DOMAIN more = {} /\ p \in Given /\ "update" \in Operations
    BY DEF Given, Operations
  <2> HIDE DEF more
  <2> QED BY <2>1, KeepingHolds
<1>3. Holds(t, "view", SoundViews)
  BY <1>1, <1>2 DEF Holds
<1> HIDE DEF t, more
<1>4. RequestFits(t)
  BY <1>2, <1>3 DEF RequestFits
<1> QED BY <1>1, <1>4, ReadsFit DEF AllFits

LEMMA DeleteFits ==
  ASSUME PresetsAssumption, LayoutsInv, NEW r \in PageRequests, NEW s \in Subjects, NEW p \in PresetIds,
         NEW k, delete_preset(r, s, p, k)
  PROVE  AllFits'
<1> DEFINE more == [was_active |-> selection[s] = p, keep_current |-> k, fallback |-> default]
           t == Keeping(Request("delete", s, p), more)
<1>1. reads(r, t)
  BY DEF delete_preset
<1>2. /\ Holds(t, "op", Operations) /\ Holds(t, "subject", Subjects) /\ Holds(t, "preset", Given) /\ t.op = "delete"
      /\ \A f \in DOMAIN more : f \in DOMAIN t /\ t[f] = more[f]
  <2>1. {"op", "stage", "subject", "preset", "ok"} \cap DOMAIN more = {} /\ p \in Given /\ "delete" \in Operations
    BY DEF Given, Operations
  <2> HIDE DEF more
  <2> QED BY <2>1, KeepingHolds
<1>3. Holds(t, "fallback", Given)
  <2>1. "fallback" \in DOMAIN more /\ more["fallback"] = default
    <3>1. PICK b \in BOOLEAN : b = (selection[s] = p)
      OBVIOUS
    <3> QED BY <3>1
  <2> HIDE DEF more, t
  <2> QED BY <1>2, <2>1 DEF Holds, LayoutsInv, ChoicesFit
<1> HIDE DEF t, more
<1>4. RequestFits(t)
  BY <1>2, <1>3 DEF RequestFits
<1> QED BY <1>1, <1>4, ReadsFit DEF AllFits

LEMMA OtherReadsFit ==
  ASSUME PresetsAssumption, LayoutsInv, NEW r \in PageRequests, NEW s \in Subjects,
         \/ \E p \in PresetIds \cup {NoPreset} : select_preset(r, s, p) \/ set_admin_default(r, s, p)
         \/ open_page(r, s)
  PROVE  AllFits'
<1>1. selection[s] \in Given
  BY DEF LayoutsInv, ChoicesFit
<1>2. \E p \in Given : \E op \in {"select", "set_default", "page"} : reads(r, Request(op, s, p))
  BY <1>1 DEF select_preset, set_admin_default, open_page, Given
<1>3. PICK p \in Given : \E op \in {"select", "set_default", "page"} : reads(r, Request(op, s, p))
  BY <1>2
<1>4. PICK op \in {"select", "set_default", "page"} : reads(r, Request(op, s, p))
  BY <1>3
<1> DEFINE t == Request(op, s, p)
<1>5. op \in Operations /\ op \notin {"save", "update", "delete"}
  BY DEF Operations
<1>6. Holds(t, "op", Operations) /\ Holds(t, "subject", Subjects) /\ Holds(t, "preset", Given) /\ t.op = op
  BY <1>5, RequestHolds
<1> HIDE DEF t
<1>7. RequestFits(t)
  BY <1>5, <1>6 DEF RequestFits
<1> QED BY <1>4, <1>7, ReadsFit DEF AllFits, t

\* A choice of a subject.
LEMMA SelectFits ==
  ASSUME ChoicesFit, NEW s, NEW p \in Given, select(s, p), UNCHANGED <<default, preference>>
  PROVE  ChoicesFit'
BY DEF ChoicesFit, select

LEMMA OverwriteFits ==
  ASSUME PresetsAssumption, LayoutsInv, NEW r \in PageRequests, writes(r, "save") \/ writes(r, "update"), overwrite_preset(r)
  PROVE  AllFits'
<1> DEFINE t == tx[r]
           p == t.preset
<1>1. CASE ~Exists(p)
  BY <1>1, RollsBack DEF overwrite_preset
<1>2. CASE Exists(p)
  <2>1. t # NoRequest /\ RequestFits(t) /\ t.op \in {"save", "update"}
    BY DEF writes, LayoutsInv, RequestsFit
  <2>2. p \in PresetIds /\ p \in Given /\ t.view \in SoundViews
    BY <1>2, <2>1 DEF Exists, RequestFits, Holds
  <2>3. /\ presets' = [presets EXCEPT ![p].view = overwritten(t)] /\ next_id' = next_id /\ commit(r, p)
        /\ IF t.op = "save" THEN select(t.subject, p) ELSE UNCHANGED <<selection, entered>>
        /\ UNCHANGED <<default, preference>>
    BY <1>2 DEF overwrite_preset
  <2>4. PresetRow(presets[p]) /\ RowFits(presets[p]) /\ presets = [q \in PresetIds |-> presets[q]]
    BY <1>2, <2>2 DEF LayoutsInv, PresetsInv, PresetRowsInv, RowsFit
  <2>5. overwritten(t) \in SoundViews
    BY <2>2, <2>4 DEF overwritten, RowFits
  <2>6. RowsFit'
    <3> DEFINE view == overwritten(t)
               this_row == presets[p]
               next == [this_row EXCEPT !.view = view]
    <3>1. presets' = [presets EXCEPT ![p] = next]
      BY <2>3
    <3>2. PresetRow(this_row) /\ RowFits(this_row) /\ view \in SoundViews
      BY <2>4, <2>5
    <3> HIDE DEF this_row, view
    <3>3. RowFits(next)
      BY <3>2 DEF PresetRow, RowFits
    <3> HIDE DEF next, p, t
    <3>4. \A q \in PresetIds : presets'[q] = IF q = p THEN next ELSE presets[q]
      BY <2>2, <2>4, <3>1
    <3> QED BY <2>3, <3>3, <3>4 DEF LayoutsInv, RowsFit, Exists
  <2>7. ChoicesFit'
    <3>1. CASE t.op = "save"
      BY <2>2, <2>3, <3>1, SelectFits DEF LayoutsInv
    <3>2. CASE t.op # "save"
      BY <2>3, <3>2 DEF LayoutsInv, ChoicesFit
    <3> QED BY <3>1, <3>2
  <2>8. DefaultStands'
    <3>1. \A q \in PresetIds : q # p => presets'[q] = presets[q]
      BY <2>2, <2>3, <2>4
    <3>2. presets'[p] # NoPreset
      <4> DEFINE view == overwritten(t)
                 this_row == presets[p]
                 next == [this_row EXCEPT !.view = view]
      <4>1. presets'[p] = next
        BY <2>2, <2>3, <2>4
      <4>2. PresetRow(this_row) /\ RowFits(this_row) /\ view \in SoundViews
        BY <2>4, <2>5
      <4> HIDE DEF this_row, view
      <4>3. next \in [owner : Subjects, name : Names, view : Layouts]
        BY <4>2 DEF PresetRow, RowFits, SoundViews
      <4> QED BY <4>1, <4>3 DEF PresetsAssumption
    <3> QED BY <2>3, <3>1, <3>2 DEF LayoutsInv, DefaultStands, Exists
  <2> QED BY <2>1, <2>2, <2>3, <2>6, <2>7, <2>8, CommitFits DEF AllFits
<1> QED BY <1>1, <1>2

LEMMA InsertFits ==
  ASSUME LayoutsInv, PresetsAssumption, NEW r \in PageRequests, writes(r, "save"), insert_preset(r)
  PROVE  AllFits'
<1> DEFINE t == tx[r]
<1>1. CASE duplicate(t.subject, t.name) # NoPreset
  BY <1>1, RollsBack DEF insert_preset
<1>2. CASE duplicate(t.subject, t.name) = NoPreset
  <2> DEFINE this_row == [owner |-> t.subject, name |-> t.name, view |-> t.view]
  <2>1. /\ next_id \in PresetIds /\ presets' = [presets EXCEPT ![next_id] = this_row]
        /\ next_id' = next_id + 1 /\ commit(r, next_id) /\ select(t.subject, next_id)
        /\ UNCHANGED <<default, preference>>
    BY <1>2 DEF insert_preset
  <2>2. t # NoRequest /\ RequestFits(t) /\ t.op = "save"
    BY DEF writes, LayoutsInv, RequestsFit
  <2>3. RowFits(this_row)
    BY <2>2 DEF RequestFits, Holds, RowFits
  <2> HIDE DEF this_row
  <2>4. RowsFit'
    <3>1. \A q \in PresetIds : presets'[q] = IF q = next_id THEN this_row ELSE presets[q]
      BY <2>1 DEF LayoutsInv, PresetsInv, PresetRowsInv
    <3>2. next_id' \in 1..MaxPresets + 1
      BY <2>1 DEF PresetIds, PresetsAssumption
    <3> QED BY <2>3, <3>1, <3>2 DEF LayoutsInv, RowsFit, Exists
  <2>5. next_id \in Given
    BY <2>1 DEF Given
  <2>6. ChoicesFit'
    BY <2>1, <2>5, SelectFits DEF LayoutsInv
  <2>7. DefaultStands'
    BY <2>1 DEF LayoutsInv, PresetsInv, PresetRowsInv, DefaultStands, Exists
  <2> QED BY <2>1, <2>2, <2>4, <2>5, <2>6, <2>7, CommitFits DEF AllFits
<1> QED BY <1>1, <1>2

LEMMA DeleteWritesFits ==
  ASSUME LayoutsInv, NEW r \in PageRequests, delete_preset_writes(r) PROVE AllFits'
<1> DEFINE t == tx[r]
           table == [presets EXCEPT ![t.preset] = NoPreset]
           fallback == IF t.fallback # NoPreset /\ table[t.fallback] # NoPreset THEN t.fallback ELSE NoPreset
           nulled == [s \in Subjects |-> IF selection[s] = t.preset THEN NoPreset ELSE selection[s]]
           falls_back == t.was_active /\ ~t.keep_current
<1>1. t # NoRequest /\ RequestFits(t) /\ t.op = "delete"
  BY DEF delete_preset_writes, writes, LayoutsInv, RequestsFit
<1>2. t.preset \in Given /\ t.fallback \in Given /\ NoPreset \in Given
  BY <1>1 DEF RequestFits, Holds, Given
<1>3. /\ presets' = table /\ next_id' = next_id /\ commit(r, t.preset) /\ preference' = preference
      /\ selection' = IF falls_back THEN [nulled EXCEPT ![t.subject] = fallback] ELSE nulled
      /\ default' = IF default = t.preset THEN NoPreset ELSE default
  BY DEF delete_preset_writes
<1>4. RowsFit'
  <2>1. \A q \in PresetIds : presets'[q] \in {presets[q], NoPreset}
    BY <1>3 DEF LayoutsInv, PresetsInv, PresetRowsInv
  <2> QED BY <1>3, <2>1 DEF LayoutsInv, RowsFit, Exists
<1>5. ChoicesFit'
  <2>1. nulled \in [Subjects -> Given] /\ default' \in Given
    BY <1>2, <1>3 DEF LayoutsInv, ChoicesFit
  <2>2. fallback \in Given
    BY <1>2
  <2> HIDE DEF nulled, fallback, falls_back
  <2>3. selection' \in [Subjects -> Given]
    BY <1>3, <2>1, <2>2
  <2> QED BY <1>3, <2>1, <2>3 DEF LayoutsInv, ChoicesFit
<1>6. DefaultStands'
  <2>1. \A q \in PresetIds : q # t.preset => presets'[q] = presets[q]
    BY <1>3 DEF LayoutsInv, PresetsInv, PresetRowsInv
  <2> QED BY <1>3, <2>1 DEF LayoutsInv, DefaultStands, Exists
<1> QED BY <1>1, <1>2, <1>3, <1>4, <1>5, <1>6, CommitFits DEF AllFits

LEMMA OtherWritesFit ==
  ASSUME LayoutsInv, NEW r \in PageRequests, select_preset_writes(r) \/ set_admin_default_writes(r)
  PROVE  AllFits'
<1> DEFINE p == tx[r].preset
<1>1. CASE rollback(r)
  BY <1>1, RollsBack
<1>2. CASE ~rollback(r)
  <2>1. tx[r] # NoRequest /\ commit(r, p) /\ UNCHANGED <<presets, next_id, preference>>
        /\ \/ \E s : select(s, p) /\ default' = default
           \/ default' = p /\ selection' = selection /\ (p # NoPreset => Exists(p))
    BY <1>2 DEF select_preset_writes, set_admin_default_writes, writes
  <2>2. p \in Given
    BY <2>1 DEF LayoutsInv, RequestsFit, RequestFits, Holds
  <2> HIDE DEF p
  <2>3. ChoicesFit'
    <3>1. CASE \E s : select(s, p) /\ default' = default
      BY <2>1, <2>2, <3>1, SelectFits DEF LayoutsInv
    <3>2. CASE default' = p /\ selection' = selection /\ (p # NoPreset => Exists(p))
      BY <2>1, <2>2, <3>2 DEF LayoutsInv, ChoicesFit
    <3> QED BY <2>1, <3>1, <3>2
  <2>4. RowsFit'
    BY <2>1 DEF LayoutsInv, RowsFit, Exists
  <2>5. DefaultStands'
    BY <2>1 DEF LayoutsInv, DefaultStands, Exists
  <2> QED BY <2>1, <2>2, <2>3, <2>4, <2>5, CommitFits DEF AllFits
<1> QED BY <1>1, <1>2

\* A page is shown.
LEMMA PageFitsItsTable ==
  ASSUME PresetsAssumption, LayoutsInv, NEW r \in PageRequests, resolve_queue_preset_state(r)
  PROVE  AllFits'
<1> DEFINE t == tx[r]
           s == t.subject
           active == IF Exists(t.preset) THEN t.preset ELSE default
           preferred == preference[s]
           Shows(view, p) == page' = [page EXCEPT ![s] = [preset |-> p, view |-> view, columns |-> allowed_columns]]
<1>1. /\ tx[r] # NoRequest /\ tx' = [tx EXCEPT ![r] = NoRequest] /\ selection' = selection
      /\ UNCHANGED <<presets, next_id, default, preference, release, requests>>
  BY DEF resolve_queue_preset_state, writes, closed_without_commit
<1>2. allowed_columns \in Seq(STRING) /\ NoDuplicates(allowed_columns)
  BY DEF allowed_columns, PresetsAssumption, LayoutsInv
<1>3. RequestFits(t)
  BY <1>1 DEF LayoutsInv, RequestsFit
<1>4. active \in Given
  BY <1>3 DEF LayoutsInv, ChoicesFit, RequestFits, Holds
<1>5. \/ active # NoPreset /\ Shows(tolerant_columns(presets[active].view, allowed_columns), active)
      \/ \E p : Shows(default_columns(allowed_columns), p)
      \/ \E p : normalize_columns_payload_accepts(preferred, allowed_columns) /\ Shows(preferred, p)
      \/ page' = page
  BY DEF resolve_queue_preset_state
<1>11. active # NoPreset => Exists(active)
  BY DEF LayoutsInv, DefaultStands
<1> DEFINE pageOf(view, p) == [preset |-> p, view |-> view, columns |-> allowed_columns]
<1>6. ASSUME NEW view, NEW p, normalize_columns_payload_accepts(view, allowed_columns) PROVE PageFits(pageOf(view, p))
  BY <1>6 DEF PageFits
<1>7. ASSUME NEW v, PageFits(v), page' = [page EXCEPT ![s] = v] PROVE PagesFit'
  <2> HIDE DEF s
  <2> QED BY <1>7 DEF LayoutsInv, PagesFit
<1>8. ASSUME NEW view, NEW p, Shows(view, p), normalize_columns_payload_accepts(view, allowed_columns) PROVE PagesFit'
  BY <1>6, <1>7, <1>8
<1>9. CASE page' = page
  <2>1. PagesFit'
    BY <1>9 DEF LayoutsInv, PagesFit
  <2> QED BY <1>1, <2>1, RollbackFits DEF AllFits
<1> HIDE DEF Shows, pageOf, s, active, preferred
<1>10. PagesFit'
  <2>1. CASE \E p : Shows(default_columns(allowed_columns), p)
    BY <1>2, <1>8, <2>1, DefaultIsAccepted
  <2>2. CASE \E p : normalize_columns_payload_accepts(preferred, allowed_columns) /\ Shows(preferred, p)
    BY <1>8, <2>2
  <2>3. CASE active # NoPreset /\ Shows(tolerant_columns(presets[active].view, allowed_columns), active)
    <3>1. active \in PresetIds
      BY <1>4, <2>3 DEF Given
    <3>2. presets[active].view \in SoundViews
      BY <1>11, <2>3, <3>1 DEF LayoutsInv, RowsFit, RowFits
    <3> QED BY <1>2, <1>8, <2>3, <3>2, TolerantIsAccepted
  <2>4. CASE page' = page
    BY <2>4 DEF LayoutsInv, PagesFit
  <2> QED BY <1>5, <2>1, <2>2, <2>3, <2>4
<1> QED BY <1>1, <1>10, RollbackFits DEF AllFits

LEMMA PreferenceFits ==
  ASSUME PresetsAssumption, LayoutsInv, NEW s \in Subjects, NEW l \in Layouts, save_admin_list_preference(s, l)
  PROVE  AllFits'
<1>1. /\ requests < MaxRequests /\ requests' = requests + 1 /\ preference' = [preference EXCEPT ![s] = l]
      /\ UNCHANGED <<presets, next_id, selection, default, tx, release, page>>
  BY DEF save_admin_list_preference
<1>2. requests' \in 0..MaxRequests
  BY <1>1 DEF LayoutsInv, PresetsAssumption
<1>3. ChoicesFit'
  BY <1>1 DEF LayoutsInv, ChoicesFit
<1>4. RowsFit' /\ DefaultStands' /\ RequestsFit' /\ PagesFit' /\ release' \in DOMAIN Releases
  BY <1>1 DEF LayoutsInv, RowsFit, DefaultStands, RequestsFit, PagesFit, Exists
<1> QED BY <1>2, <1>3, <1>4 DEF AllFits

LEMMA LayoutsStart == ASSUME PresetsAssumption, PresetsInit PROVE LayoutsInv
<1>1. RowsFit /\ ChoicesFit /\ DefaultStands /\ RequestsFit /\ PagesFit
  BY DEF PresetsAssumption, PresetsInit, RowsFit, ChoicesFit, DefaultStands, RequestsFit, PagesFit, PageFits, Exists, Given
<1>2. release \in DOMAIN Releases /\ requests \in 0..MaxRequests
  BY DEF PresetsAssumption, PresetsInit
<1> QED BY <1>1, <1>2, PresetsInitInv DEF LayoutsInv

LEMMA LayoutsStep == ASSUME PresetsAssumption, LayoutsInv, [PresetsNext]_presets_vars PROVE LayoutsInv'
<1>1. PresetsInv'
  BY PresetsStep DEF LayoutsInv
<1>0. AllFits' => LayoutsInv'
  BY <1>1 DEF AllFits, LayoutsInv
<1>2. CASE UNCHANGED presets_vars
  <2>1. UNCHANGED <<presets, next_id, selection, default, preference, tx, release, page, requests>>
    BY <1>2 DEF presets_vars
  <2>2. AllFits'
    BY <2>1 DEF LayoutsInv, AllFits, RowsFit, ChoicesFit, DefaultStands, RequestsFit, PagesFit, Exists
  <2> QED BY <1>1, <2>2 DEF LayoutsInv, AllFits
<1>3. CASE \E r \in PageRequests, s \in Subjects, n \in Names, l \in Layouts, o \in BOOLEAN :
             save_preset(r, s, n, l, o)
  BY <1>3, <1>0, SaveFits
<1>4. CASE \E r \in PageRequests, s \in Subjects, p \in PresetIds, l \in Layouts : update_preset(r, s, p, l)
  BY <1>4, <1>0, UpdateFits
<1>5. CASE \E r \in PageRequests, s \in Subjects :
             \/ \E p \in PresetIds \cup {NoPreset} : select_preset(r, s, p) \/ set_admin_default(r, s, p)
             \/ open_page(r, s)
  BY <1>5, <1>0, OtherReadsFit
<1>6. CASE \E r \in PageRequests, s \in Subjects, p \in PresetIds, k \in BOOLEAN : delete_preset(r, s, p, k)
  BY <1>6, <1>0, DeleteFits
<1>7. ASSUME NEW r \in PageRequests, save_preset_writes(r) PROVE AllFits'
  BY <1>7, InsertFits, OverwriteFits DEF save_preset_writes
<1>8. ASSUME NEW r \in PageRequests, update_preset_writes(r) PROVE AllFits'
  BY <1>8, OverwriteFits DEF update_preset_writes
<1>9. ASSUME NEW r \in PageRequests, delete_preset_writes(r) PROVE AllFits'
  BY <1>9, DeleteWritesFits
<1>10. ASSUME NEW r \in PageRequests, select_preset_writes(r) \/ set_admin_default_writes(r) PROVE AllFits'
  BY <1>10, OtherWritesFit
<1>11. ASSUME NEW r \in PageRequests, resolve_queue_preset_state(r) PROVE AllFits'
  BY <1>11, PageFitsItsTable
<1>12. ASSUME NEW r \in PageRequests, reply(r) PROVE AllFits'
  <2>1. tx' = [tx EXCEPT ![r] = NoRequest]
        /\ UNCHANGED <<presets, next_id, selection, default, preference, release, requests, page>>
    BY <1>12 DEF reply, tables
  <2>2. PagesFit'
    BY <2>1 DEF LayoutsInv, PagesFit
  <2> QED BY <2>1, <2>2, RollbackFits DEF AllFits
<1>13. CASE \E s \in Subjects, l \in Layouts : save_admin_list_preference(s, l)
  BY <1>13, <1>0, PreferenceFits
<1>14. CASE deploy
  <2>1. /\ UNCHANGED <<presets, next_id, selection, default, preference, requests, page>>
        /\ release' = release + 1 /\ release < Len(Releases) /\ tx' = [r \in PageRequests |-> NoRequest]
    BY <1>14 DEF deploy, tables
  <2>2. release' \in DOMAIN Releases
    BY <2>1 DEF LayoutsInv, PresetsAssumption
  <2>3. RowsFit' /\ ChoicesFit' /\ DefaultStands' /\ PagesFit' /\ requests' \in 0..MaxRequests
    BY <2>1 DEF LayoutsInv, RowsFit, ChoicesFit, DefaultStands, PagesFit, Exists
  <2>4. RequestsFit'
    BY <2>1 DEF RequestsFit
  <2> QED BY <1>0, <2>2, <2>3, <2>4 DEF AllFits
<1> QED BY <1>2, <1>3, <1>4, <1>5, <1>6, <1>7, <1>8, <1>9, <1>10, <1>11, <1>12, <1>13, <1>14, <1>0
        DEF PresetsNext

\* Whatever was stored, under whatever release, a page lays out every column of its
\* table once, and its layout is one that a save accepts (_tolerant_columns).
THEOREM PagesCanBeSaved == ASSUME PresetsAssumption PROVE PresetsSpec => []PageCanBeSaved
<1>1. PresetsInit => LayoutsInv
  BY LayoutsStart
<1>2. LayoutsInv /\ [PresetsNext]_presets_vars => LayoutsInv'
  BY LayoutsStep
<1>3. LayoutsInv => PageCanBeSaved
  <2>1. LayoutsInv => PresetsTypeOK
    <3> SUFFICES ASSUME LayoutsInv PROVE PresetsTypeOK
      OBVIOUS
    <3>1. \A p \in PresetIds : Exists(p) =>
            presets[p].owner \in Subjects /\ presets[p].name \in Names /\ presets[p].view \in Layouts
      BY DEF LayoutsInv, RowsFit, RowFits, SoundViews
    <3>2. \A p \in PresetIds : p >= next_id => presets[p] = NoPreset
      BY DEF LayoutsInv, PresetsInv, PresetRowsInv, PresetIds, Exists
    <3>3. selection \in [Subjects -> PresetIds \cup {NoPreset}] /\ default \in PresetIds \cup {NoPreset}
          /\ preference \in [Subjects -> Layouts \cup {NoPreset}]
      BY DEF LayoutsInv, ChoicesFit, Given
    <3> QED BY <3>1, <3>2, <3>3 DEF LayoutsInv, RowsFit, PresetsTypeOK
  <2> QED BY <2>1 DEF LayoutsInv, PagesFit, PageFits, PageCanBeSaved
<1> QED BY <1>1, <1>2, <1>3, PTL DEF PresetsSpec
-----------------------------------------------------------------------------
(* Pages of a timeline (module Timeline).                                   *)

\* A part that holds the first m keeps their places.
LEMMA FirstOnesStayFirst ==
  ASSUME NEW S, IsFiniteSet(S), NEW R, StrictOrder(S, R), NEW F \in SUBSET S, NEW m \in Nat, m <= Cardinality(S),
         \A x \in S \ F : Place(S, R, x) >= m
  PROVE  \A x \in F : IF Place(S, R, x) < m THEN Place(F, R, x) = Place(S, R, x) ELSE Place(F, R, x) >= m
<1> SUFFICES ASSUME NEW x \in F
             PROVE  IF Place(S, R, x) < m THEN Place(F, R, x) = Place(S, R, x) ELSE Place(F, R, x) >= m
  OBVIOUS
<1>1. \A y \in S : Place(S, R, y) \in Nat
  BY PlacesAreInOrder, FS_CardinalityType
<1>2. CASE Place(S, R, x) < m
  <2>1. ASSUME NEW y \in Below(S, R, x) PROVE y \in F
    <3>1. y \in S /\ Place(S, R, y) < Place(S, R, x)
      BY PlacesAreInOrder DEF Below
    <3> QED BY <1>1, <1>2, <3>1
  <2>2. Below(F, R, x) = Below(S, R, x)
    BY <2>1 DEF Below
  <2> QED BY <1>2, <2>2 DEF Place
<1>3. CASE ~(Place(S, R, x) < m)
  <2> DEFINE T == {y \in S : Place(S, R, y) \in 0..(m - 1)}
  <2>1. ASSUME NEW y \in T PROVE y \in Below(F, R, x)
    <3>1. y \in S /\ Place(S, R, y) < m /\ Place(S, R, y) < Place(S, R, x) /\ y # x
      BY <1>1, <1>3
    <3>2. y \in F
      BY <1>1, <3>1
    <3>3. ~(<<x, y>> \in R)
      BY <1>1, <3>1, PlacesAreInOrder
    <3> QED BY <3>1, <3>2, <3>3 DEF Below, StrictOrder
  <2>2. IsFiniteSet(T) /\ Cardinality(T) = m
    <3>1. CASE m = 0
      <4>1. T = {}
        BY <3>1
      <4> QED BY <3>1, <4>1, FS_EmptySet
    <3>2. CASE m # 0
      <4>1. m - 1 \in Nat /\ m - 1 < Cardinality(S) /\ 0 <= m - 1 + 1 /\ (m - 1) - 0 + 1 = m
        BY <3>2, FS_CardinalityType
      <4> HIDE DEF T
      <4>2. IsFiniteSet(T) /\ Cardinality(T) = (m - 1) - 0 + 1
        BY <4>1, PlacesAreCounted DEF T
      <4> QED BY <4>1, <4>2
    <3> QED BY <3>1, <3>2
  <2>3. IsFiniteSet(Below(F, R, x))
    BY FS_Subset DEF Below
  <2>4. Cardinality(T) <= Cardinality(Below(F, R, x))
    <3>1. T \in SUBSET Below(F, R, x)
      BY <2>1
    <3> HIDE DEF T
    <3> QED BY <2>3, <3>1, FS_Subset
  <2> HIDE DEF T
  <2> QED BY <1>3, <2>2, <2>4 DEF Place
<1> QED BY <1>2, <1>3

\* Pages are cut from what is sorted.
SortedBy(S, R) == \A x, y \in S : <<x, y>> \in R <=> Sorted(x, y)

LEMMA TimelineIs ==
  ASSUME NEW S, NEW R, SortedBy(S, R)
  PROVE  InOrder(S) = {<<Place(S, R, e), e>> : e \in S}
<1>1. \A e \in S : {f \in S : Sorted(f, e)} = Below(S, R, e)
  BY DEF SortedBy, Below
<1>2. \A e \in S : Cardinality({f \in S : Sorted(f, e)}) = Place(S, R, e)
  BY <1>1 DEF Place
<1> QED BY <1>2 DEF InOrder

LEMMA SliceIs ==
  ASSUME NEW S, NEW R, SortedBy(S, R), NEW offset, NEW limit
  PROVE  \A p : p \in Slice(InOrder(S), offset, limit) <=>
           \E e \in S : p = <<Place(S, R, e), e>> /\ Place(S, R, e) \in offset..(offset + limit - 1)
<1>1. \A p : p \in InOrder(S) <=> \E e \in S : p = <<Place(S, R, e), e>>
  BY TimelineIs
<1>2. \A p : p \in Slice(InOrder(S), offset, limit) <=> p \in InOrder(S) /\ p[1] \in offset..(offset + limit - 1)
  BY DEF Slice
<1>3. ASSUME NEW p, NEW e, p = <<Place(S, R, e), e>> PROVE p[1] = Place(S, R, e)
  BY <1>3
<1> QED BY <1>1, <1>2, <1>3

\* A page cut from the first ones of a timeline is the page of the timeline.
LEMMA PageOfAPart ==
  ASSUME NEW S, IsFiniteSet(S), NEW R, StrictOrder(S, R), SortedBy(S, R), NEW F \in SUBSET S,
         NEW offset \in Nat, NEW limit \in Nat, NEW m \in Nat,
         m = IF offset + limit < Cardinality(S) THEN offset + limit ELSE Cardinality(S),
         \A x \in S \ F : Place(S, R, x) >= m
  PROVE  Slice(InOrder(F), offset, limit) = Slice(InOrder(S), offset, limit)
<1>1. SortedBy(F, R)
  BY DEF SortedBy
<1>2. \A x \in S : Place(S, R, x) \in 0..(Cardinality(S) - 1) /\ Cardinality(S) \in Nat
  BY PlacesAreInOrder, FS_CardinalityType
<1>3. IsFiniteSet(F) /\ StrictOrder(F, R)
  BY FS_Subset DEF StrictOrder
<1>4. \A x \in F : Place(F, R, x) \in Nat
  <2>1. \A x \in F : Place(F, R, x) \in 0..(Cardinality(F) - 1) /\ Cardinality(F) \in Nat
    BY <1>3, PlacesAreInOrder, FS_CardinalityType
  <2> QED BY <2>1
<1>5. \A x \in F : IF Place(S, R, x) < m THEN Place(F, R, x) = Place(S, R, x) ELSE Place(F, R, x) >= m
  <2>1. m <= Cardinality(S)
    BY FS_CardinalityType
  <2> QED BY <2>1, FirstOnesStayFirst
<1>6. ASSUME NEW x \in F
      PROVE  /\ Place(F, R, x) \in offset..(offset + limit - 1) <=> Place(S, R, x) \in offset..(offset + limit - 1)
             /\ Place(S, R, x) \in offset..(offset + limit - 1) => Place(F, R, x) = Place(S, R, x)
  BY <1>2, <1>4, <1>5
<1>7. ASSUME NEW x \in S, Place(S, R, x) \in offset..(offset + limit - 1) PROVE x \in F
  BY <1>2, <1>7
<1>8. ASSUME NEW p
      PROVE  p \in Slice(InOrder(F), offset, limit) <=> p \in Slice(InOrder(S), offset, limit)
  <2>1. p \in Slice(InOrder(F), offset, limit) <=>
          \E e \in F : p = <<Place(F, R, e), e>> /\ Place(F, R, e) \in offset..(offset + limit - 1)
    BY <1>1, SliceIs
  <2>2. p \in Slice(InOrder(S), offset, limit) <=>
          \E e \in S : p = <<Place(S, R, e), e>> /\ Place(S, R, e) \in offset..(offset + limit - 1)
    BY SliceIs
  <2> QED BY <1>6, <1>7, <2>1, <2>2
<1> QED BY <1>8

\* How many rows a page has.
LEMMA PageIsFilled ==
  ASSUME NEW S, IsFiniteSet(S), NEW R, StrictOrder(S, R), SortedBy(S, R), NEW offset \in Nat, NEW limit \in Nat
  PROVE  Cardinality(Slice(InOrder(S), offset, limit)) =
           IF offset >= Cardinality(S) THEN 0
           ELSE IF offset + limit < Cardinality(S) THEN limit ELSE Cardinality(S) - offset
<1> DEFINE N == Cardinality(S)
           b == IF offset + limit < N THEN offset + limit - 1 ELSE N - 1
           T == {x \in S : Place(S, R, x) \in offset..b}
           cut == Slice(InOrder(S), offset, limit)
<1>1. N \in Nat /\ \A x \in S : Place(S, R, x) \in 0..(N - 1)
  BY PlacesAreInOrder, FS_CardinalityType
<1>2. \A p : p \in cut <=> \E e \in S : p = <<Place(S, R, e), e>> /\ Place(S, R, e) \in offset..(offset + limit - 1)
  BY SliceIs
<1>3. CASE offset >= N
  <2>1. cut = {}
    BY <1>1, <1>2, <1>3
  <2> QED BY <1>3, <2>1, FS_EmptySet
<1>4. CASE offset < N
  <2>1. b \in Nat \cup {-1} /\ b < N /\ offset <= b + 1
        /\ b - offset + 1 = IF offset + limit < N THEN limit ELSE N - offset
    BY <1>1, <1>4
  <2>2. \A x \in S : Place(S, R, x) \in offset..(offset + limit - 1) <=> x \in T
    BY <1>1
  <2>3. IsFiniteSet(T) /\ Cardinality(T) = b - offset + 1
    <3>1. CASE b \in Nat
      <4> HIDE DEF b
      <4> QED BY <2>1, <3>1, PlacesAreCounted
    <3>2. CASE b = -1
      <4>1. T = {} /\ b - offset + 1 = 0
        BY <1>1, <2>1, <3>2
      <4> QED BY <4>1, FS_EmptySet
    <3> QED BY <2>1, <3>1, <3>2
  <2> HIDE DEF T, b
  <2> DEFINE pair == [x \in T |-> <<Place(S, R, x), x>>]
  <2>4. T \in SUBSET S
    BY DEF T
  <2>5. \A p : p \in cut <=> \E e \in T : p = pair[e]
    BY <1>2, <2>2, <2>4
  <2> HIDE DEF cut
  <2>6. \A x, y \in T : pair[x] = pair[y] => x = y
    OBVIOUS
  <2>7. pair \in Bijection(T, cut)
    BY <2>5, <2>6 DEF Bijection, Injection, IsInjective, Surjection
  <2>8. ExistsBijection(T, cut)
    BY <2>7 DEF ExistsBijection
  <2>9. Cardinality(cut) = Cardinality(T)
    BY <2>3, <2>8, FS_Bijection
  <2> QED BY <1>1, <1>4, <2>1, <2>3, <2>9 DEF cut
<1> QED BY <1>1, <1>3, <1>4

\* The order of events.
EventSpace == [at : Nat, rank : Nat, source : TIMELINE_SOURCES, row : Nat]

LEMMA SourcesAreOrdered ==
  /\ \A s \in TIMELINE_SOURCES : Appended[s] \in Nat
  /\ \A s, t \in TIMELINE_SOURCES : Appended[s] = Appended[t] => s = t
<1>1. /\ Appended["auction"] = 1 /\ Appended["bid"] = 2 /\ Appended["complaint"] = 3
      /\ Appended["fraud"] = 4 /\ Appended["moderation"] = 5
  BY DEF Appended
<1>2. \A s \in TIMELINE_SOURCES : s \in {"auction", "bid", "complaint", "fraud", "moderation"}
  BY DEF TIMELINE_SOURCES, Tables
<1> QED BY <1>1, <1>2

LEMMA EventsAreOrdered ==
  ASSUME NEW e \in EventSpace, NEW f \in EventSpace, NEW g \in EventSpace
  PROVE  /\ ~Sorted(e, e)
         /\ Sorted(e, f) /\ Sorted(f, g) => Sorted(e, g)
         /\ e = f \/ Sorted(e, f) \/ Sorted(f, e)
<1>1. ASSUME NEW x \in EventSpace
      PROVE  x.at \in Nat /\ x.rank \in Nat /\ x.source \in TIMELINE_SOURCES /\ x.row \in Nat
             /\ Appended[x.source] \in Nat
  BY SourcesAreOrdered DEF EventSpace
<1>2. ~Sorted(e, e)
  BY <1>1 DEF Sorted
<1>3. Sorted(e, f) /\ Sorted(f, g) => Sorted(e, g)
  <2>1. /\ e.at \in Nat /\ e.rank \in Nat /\ Appended[e.source] \in Nat /\ e.row \in Nat
        /\ f.at \in Nat /\ f.rank \in Nat /\ Appended[f.source] \in Nat /\ f.row \in Nat
        /\ g.at \in Nat /\ g.rank \in Nat /\ Appended[g.source] \in Nat /\ g.row \in Nat
    BY <1>1
  <2> QED BY <2>1 DEF Sorted
<1>4. e = f \/ Sorted(e, f) \/ Sorted(f, e)
  <2>1. CASE e.at = f.at /\ e.rank = f.rank /\ e.source = f.source /\ e.row = f.row
    BY <2>1 DEF EventSpace
  <2>2. CASE e.source # f.source
    BY <1>1, <2>2, SourcesAreOrdered DEF Sorted
  <2>3. CASE e.source = f.source /\ ~(e.at = f.at /\ e.rank = f.rank /\ e.row = f.row)
    BY <1>1, <2>3 DEF Sorted
  <2> QED BY <2>1, <2>2, <2>3
<1> QED BY <1>2, <1>3, <1>4

TimelineOrder(S) == {p \in S \X S : Sorted(p[1], p[2])}

LEMMA TimelineIsOrdered ==
  ASSUME NEW S \in SUBSET EventSpace
  PROVE  StrictOrder(S, TimelineOrder(S)) /\ SortedBy(S, TimelineOrder(S))
<1>1. \A x, y \in S : <<x, y>> \in TimelineOrder(S) <=> Sorted(x, y)
  BY DEF TimelineOrder
<1>2. \A x, y, z \in S : ~Sorted(x, x) /\ (Sorted(x, y) /\ Sorted(y, z) => Sorted(x, z))
                         /\ (x = y \/ Sorted(x, y) \/ Sorted(y, x))
  BY EventsAreOrdered
<1> QED BY <1>1, <1>2 DEF StrictOrder, SortedBy

\* Rows come after the lot and are resolved after they come; only cases are resolved.
TimelineRow == [created_at : Nat, resolved_at : Nat \cup {NotYet}]
SoundAt(t, r, time) ==
  /\ r \in TimelineRow /\ r.created_at <= time
  /\ r.resolved_at # NotYet => t \in {"complaint", "fraud"} /\ r.created_at <= r.resolved_at
RowIsSound(t, r) == SoundAt(t, r, clock)
TimelineInv ==
  /\ clock \in Nat /\ starts_at \in Nat \cup {NotYet}
  /\ rows \in [Tables -> Seq(TimelineRow)]
  /\ \A t \in Tables : \A k \in DOMAIN rows[t] : RowIsSound(t, rows[t][k])
  /\ Len(rows["bid"]) + Len(rows["complaint"]) + Len(rows["fraud"]) + Len(rows["moderation"]) <= MaxRows

\* The rows of a table in their order.
OrderAmong(S, t) == {p \in S \X S : Older(t, p[1], p[2])}
RowOrder(t) == OrderAmong(DOMAIN rows[t], t)

LEMMA RowsAreOrdered ==
  ASSUME TimelineInv, NEW t \in Tables
  PROVE  /\ IsFiniteSet(DOMAIN rows[t]) /\ Cardinality(DOMAIN rows[t]) = Len(rows[t]) /\ Len(rows[t]) \in Nat
         /\ StrictOrder(DOMAIN rows[t], RowOrder(t))
         /\ \A k \in DOMAIN rows[t] : RowsBefore(t, k) = Place(DOMAIN rows[t], RowOrder(t), k)
         /\ \A j, k \in DOMAIN rows[t] : <<j, k>> \in RowOrder(t) <=> Older(t, j, k)
<1>1. rows[t] \in Seq(TimelineRow)
  BY DEF TimelineInv
<1>2. DOMAIN rows[t] = 1..Len(rows[t]) /\ Len(rows[t]) \in Nat
  BY <1>1
<1>3. IsFiniteSet(DOMAIN rows[t]) /\ Cardinality(DOMAIN rows[t]) = Len(rows[t])
  BY <1>2, FS_Interval
<1>4. \A j, k \in DOMAIN rows[t] : <<j, k>> \in RowOrder(t) <=> Older(t, j, k)
  <2>1. ASSUME NEW S PROVE \A j, k \in S : <<j, k>> \in OrderAmong(S, t) <=> Older(t, j, k)
    BY DEF OrderAmong
  <2> QED BY <2>1 DEF RowOrder
<1>5. \A k \in DOMAIN rows[t] : k \in Nat /\ rows[t][k].created_at \in Nat
  BY <1>2 DEF TimelineInv, RowIsSound, SoundAt, TimelineRow
<1>6. StrictOrder(DOMAIN rows[t], RowOrder(t))
  BY <1>4, <1>5 DEF StrictOrder, Older
<1>7. ASSUME NEW k \in DOMAIN rows[t] PROVE RowsBefore(t, k) = Place(DOMAIN rows[t], RowOrder(t), k)
  <2>1. {j \in DOMAIN rows[t] : Older(t, j, k)} = Below(DOMAIN rows[t], RowOrder(t), k)
    BY <1>4 DEF Below
  <2> QED BY <2>1 DEF RowsBefore, Place
<1> QED BY <1>2, <1>3, <1>4, <1>6, <1>7

LEMMA RowsAreCounted ==
  ASSUME TimelineInv, NEW t \in Tables
  PROVE  /\ \A k \in DOMAIN rows[t] : RowsBefore(t, k) \in 0..(Len(rows[t]) - 1)
         /\ \A j, k \in DOMAIN rows[t] : RowsBefore(t, j) = RowsBefore(t, k) => j = k
         /\ \A j, k \in DOMAIN rows[t] : Older(t, j, k) => RowsBefore(t, j) < RowsBefore(t, k)
<1> DEFINE S == DOMAIN rows[t]
           R == RowOrder(t)
<1>1. /\ IsFiniteSet(S) /\ Cardinality(S) = Len(rows[t]) /\ StrictOrder(S, R)
      /\ \A k \in S : RowsBefore(t, k) = Place(S, R, k)
      /\ \A j, k \in S : <<j, k>> \in R <=> Older(t, j, k)
  BY RowsAreOrdered
<1> HIDE DEF S, R
<1>2. /\ \A x \in S : Place(S, R, x) \in 0..(Cardinality(S) - 1)
      /\ \A x, y \in S : <<x, y>> \in R => Place(S, R, x) < Place(S, R, y)
      /\ \A x, y \in S : Place(S, R, x) = Place(S, R, y) => x = y
  BY <1>1, PlacesAreInOrder, PlacesAreTaken
<1>3. /\ \A k \in S : RowsBefore(t, k) \in 0..(Len(rows[t]) - 1)
      /\ \A j, k \in S : RowsBefore(t, j) = RowsBefore(t, k) => j = k
      /\ \A j, k \in S : Older(t, j, k) => RowsBefore(t, j) < RowsBefore(t, k)
  BY <1>1, <1>2
<1> QED BY <1>3 DEF S

\* The events of a row.
Created(t, k) == TimelineItem(rows[t][k].created_at, _timeline_order_rank(t, FALSE), t, RowsBefore(t, k))
Ended(t, k) == TimelineItem(rows[t][k].resolved_at, _timeline_order_rank(t, TRUE), t, RowsBefore(t, k))

LEMMA EventIs ==
  ASSUME NEW at \in Nat, NEW rank \in Nat, NEW source \in TIMELINE_SOURCES, NEW place \in Nat
  PROVE  LET e == TimelineItem(at, rank, source, place) IN
         e \in EventSpace /\ e.at = at /\ e.rank = rank /\ e.source = source /\ e.row = place
BY DEF TimelineItem, EventSpace

LEMMA EventsOfARow ==
  ASSUME TimelineInv, NEW t \in Tables, NEW k \in DOMAIN rows[t]
  PROVE  /\ Created(t, k) \in EventSpace /\ Created(t, k).source = t /\ Created(t, k).row = RowsBefore(t, k)
         /\ Created(t, k).at = rows[t][k].created_at /\ Created(t, k).rank = _timeline_order_rank(t, FALSE)
         /\ k \in Resolved(t) =>
              /\ t \in {"complaint", "fraud"} /\ Ended(t, k) \in EventSpace
              /\ Ended(t, k).source = t /\ Ended(t, k).row = RowsBefore(t, k)
              /\ Ended(t, k).at >= Created(t, k).at /\ Ended(t, k).rank > Created(t, k).rank
<1>1. RowIsSound(t, rows[t][k]) /\ RowsBefore(t, k) \in Nat /\ t \in TIMELINE_SOURCES
  <2>1. RowsBefore(t, k) \in 0..(Len(rows[t]) - 1) /\ Len(rows[t]) \in Nat
    BY RowsAreCounted, RowsAreOrdered
  <2> QED BY <2>1 DEF TimelineInv, TIMELINE_SOURCES
<1>2. rows[t][k].created_at \in Nat
  BY <1>1 DEF RowIsSound, SoundAt, TimelineRow
<1>3. _timeline_order_rank(t, FALSE) \in Nat
  BY DEF _timeline_order_rank, Tables
<1>4. k \in Resolved(t) =>
        /\ t \in {"complaint", "fraud"} /\ rows[t][k].resolved_at \in Nat
        /\ rows[t][k].created_at <= rows[t][k].resolved_at
  BY <1>1 DEF Resolved, RowIsSound, SoundAt, TimelineRow
<1>5. t \in {"complaint", "fraud"} =>
        _timeline_order_rank(t, FALSE) = 30 /\ _timeline_order_rank(t, TRUE) = 50
  BY DEF _timeline_order_rank
<1> DEFINE c == Created(t, k)
           d == Ended(t, k)
<1>8. /\ c \in EventSpace /\ c.source = t /\ c.row = RowsBefore(t, k)
      /\ c.at = rows[t][k].created_at /\ c.rank = _timeline_order_rank(t, FALSE)
  <2> DEFINE at == rows[t][k].created_at
             rank == _timeline_order_rank(t, FALSE)
             place == RowsBefore(t, k)
  <2>1. c = TimelineItem(at, rank, t, place)
    BY DEF Created
  <2>2. at \in Nat /\ rank \in Nat /\ place \in Nat /\ t \in TIMELINE_SOURCES
    BY <1>1, <1>2, <1>3
  <2> HIDE DEF at, rank, place, c
  <2>3. c \in EventSpace /\ c.source = t /\ c.row = place /\ c.at = at /\ c.rank = rank
    BY <2>1, <2>2, EventIs
  <2> QED BY <2>3 DEF at, rank, place
<1>9. ASSUME k \in Resolved(t)
      PROVE  /\ d \in EventSpace /\ d.source = t /\ d.row = RowsBefore(t, k)
             /\ d.at = rows[t][k].resolved_at /\ d.rank = 50 /\ c.rank = 30
  <2>1. _timeline_order_rank(t, TRUE) = 50 /\ _timeline_order_rank(t, FALSE) = 30
        /\ rows[t][k].resolved_at \in Nat
    BY <1>4, <1>5, <1>9
  <2>2. /\ d \in EventSpace /\ d.source = t /\ d.row = RowsBefore(t, k)
        /\ d.at = rows[t][k].resolved_at /\ d.rank = _timeline_order_rank(t, TRUE)
    <3> DEFINE at == rows[t][k].resolved_at
               rank == _timeline_order_rank(t, TRUE)
               place == RowsBefore(t, k)
    <3>1. d = TimelineItem(at, rank, t, place)
      BY DEF Ended
    <3>4. rank = 50
      BY <2>1
    <3>5. rank \in Nat
      <4> HIDE DEF rank
      <4> QED BY <3>4
    <3>2. at \in Nat /\ rank \in Nat /\ place \in Nat /\ t \in TIMELINE_SOURCES
      BY <1>1, <2>1, <3>5
    <3> HIDE DEF at, rank, place, d
    <3>3. d \in EventSpace /\ d.source = t /\ d.row = place /\ d.at = at /\ d.rank = rank
      BY <3>1, <3>2, EventIs
    <3> QED BY <3>3 DEF at, rank, place
  <2> HIDE DEF c, d
  <2> QED BY <1>8, <2>1, <2>2
<1> HIDE DEF c, d
<1>10. ASSUME k \in Resolved(t) PROVE d.at >= c.at /\ d.rank > c.rank
  <2>1. d.rank > c.rank
    BY <1>9, <1>10
  <2>2. rows[t][k].resolved_at >= rows[t][k].created_at
    BY <1>2, <1>4, <1>10
  <2> QED BY <1>8, <1>9, <1>10, <2>1, <2>2
<1> QED BY <1>4, <1>8, <1>9, <1>10 DEF c, d

LEMMA TableEventsAre ==
  ASSUME NEW t, NEW K
  PROVE  \A e : e \in TableEvents(t, K) <=>
           (\E k \in K : e = Created(t, k)) \/ (\E k \in K \cap Resolved(t) : e = Ended(t, k))
BY DEF TableEvents, Created, Ended

\* How many events a table gives.
LEMMA TableEventsCount ==
  ASSUME TimelineInv, NEW t \in Tables
  PROVE  /\ IsFiniteSet(TableEvents(t, DOMAIN rows[t]))
         /\ Cardinality(TableEvents(t, DOMAIN rows[t])) = Count(t)
         /\ \A e \in TableEvents(t, DOMAIN rows[t]) : e \in EventSpace /\ e.source = t
<1> DEFINE D == DOMAIN rows[t]
           A == {Created(t, k) : k \in D}
           B == {Ended(t, k) : k \in Resolved(t)}
           a == [k \in D |-> Created(t, k)]
           b == [k \in Resolved(t) |-> Ended(t, k)]
<1>1. Resolved(t) \in SUBSET D
  BY DEF Resolved
<1>2. IsFiniteSet(D) /\ Cardinality(D) = Len(rows[t]) /\ IsFiniteSet(Resolved(t)) /\ Len(rows[t]) \in Nat
  <2>1. IsFiniteSet(D) /\ Cardinality(D) = Len(rows[t]) /\ Len(rows[t]) \in Nat
    BY RowsAreOrdered
  <2> HIDE DEF D
  <2> QED BY <1>1, <2>1, FS_Subset
<1>3. TableEvents(t, D) = A \cup B
  BY <1>1 DEF TableEvents, Created, Ended
<1>4. \A j, k \in D : RowsBefore(t, j) = RowsBefore(t, k) => j = k
  BY RowsAreCounted
<1>5. \A k \in D : Created(t, k) \in EventSpace /\ Created(t, k).source = t /\ Created(t, k).row = RowsBefore(t, k)
                   /\ Created(t, k).rank = _timeline_order_rank(t, FALSE)
  BY EventsOfARow
<1>6. \A k \in Resolved(t) :
        /\ t \in {"complaint", "fraud"} /\ Ended(t, k) \in EventSpace /\ Ended(t, k).source = t
        /\ Ended(t, k).row = RowsBefore(t, k) /\ Ended(t, k).rank # _timeline_order_rank(t, FALSE)
  <2> TAKE k \in Resolved(t)
  <2>1. Created(t, k) \in EventSpace /\ Ended(t, k) \in EventSpace /\ Ended(t, k).rank > Created(t, k).rank
        /\ Created(t, k).rank = _timeline_order_rank(t, FALSE)
    BY <1>1, EventsOfARow
  <2>2. Ended(t, k).rank # Created(t, k).rank
    <3> DEFINE c == Created(t, k).rank
               d == Ended(t, k).rank
    <3>1. c \in Nat /\ d \in Nat /\ d > c
      BY <2>1 DEF EventSpace
    <3> HIDE DEF c, d
    <3>2. d # c
      BY <3>1
    <3> QED BY <3>2 DEF c, d
  <2> QED BY <1>1, <2>1, <2>2, EventsOfARow
<1> HIDE DEF D
<1>7. IsFiniteSet(A) /\ Cardinality(A) = Cardinality(D)
  <2>1. a \in [D -> A] /\ \A k \in D : a[k] = Created(t, k)
    OBVIOUS
  <2>2. \A e \in A : \E k \in D : a[k] = e
    OBVIOUS
  <2>3. \A j, k \in D : a[j] = a[k] => j = k
    <3>1. \A k \in D : a[k].row = RowsBefore(t, k)
      BY <1>5, <2>1
    <3> HIDE DEF a
    <3> QED BY <1>4, <3>1
  <2> HIDE DEF a, A
  <2>4. a \in Bijection(D, A)
    BY <2>1, <2>2, <2>3 DEF Bijection, Injection, IsInjective, Surjection
  <2> QED BY <1>2, <2>4, FS_Bijection DEF ExistsBijection
<1>8. IsFiniteSet(B) /\ Cardinality(B) = Cardinality(Resolved(t))
  <2>1. b \in [Resolved(t) -> B] /\ \A k \in Resolved(t) : b[k] = Ended(t, k)
    OBVIOUS
  <2>2. \A e \in B : \E k \in Resolved(t) : b[k] = e
    OBVIOUS
  <2>3. \A j, k \in Resolved(t) : b[j] = b[k] => j = k
    <3>1. \A k \in Resolved(t) : b[k].row = RowsBefore(t, k)
      BY <1>6, <2>1
    <3> HIDE DEF b
    <3> QED BY <1>1, <1>4, <3>1
  <2> HIDE DEF b, B
  <2>4. b \in Bijection(Resolved(t), B)
    BY <2>1, <2>2, <2>3 DEF Bijection, Injection, IsInjective, Surjection
  <2> QED BY <1>2, <2>4, FS_Bijection DEF ExistsBijection
<1>9. A \cap B = {}
  BY <1>5, <1>6
<1>10. Count(t) = Cardinality(D) + Cardinality(Resolved(t))
  <2>1. CASE t \in {"complaint", "fraud"}
    BY <1>2, <2>1 DEF Count
  <2>2. CASE t \in {"bid", "moderation"}
    <3>1. Resolved(t) = {}
      BY <1>6, <2>2
    <3> QED BY <1>2, <2>2, <3>1, FS_EmptySet DEF Count
  <2> QED BY <2>1, <2>2 DEF Tables
<1>11. \A e \in A \cup B : e \in EventSpace /\ e.source = t
  BY <1>5, <1>6
<1> HIDE DEF A, B
<1>12. IsFiniteSet(A \cup B) /\ Cardinality(A \cup B) = Cardinality(A) + Cardinality(B)
  <2>1. Cardinality(A \cup B) = Cardinality(A) + Cardinality(B) - Cardinality(A \cap B) /\ IsFiniteSet(A \cup B)
    BY <1>7, <1>8, FS_Union
  <2>2. Cardinality(A) \in Nat /\ Cardinality(B) \in Nat /\ Cardinality(A \cap B) = 0
    BY <1>7, <1>8, <1>9, FS_EmptySet, FS_CardinalityType
  <2> QED BY <2>1, <2>2
<1> QED BY <1>3, <1>7, <1>8, <1>10, <1>11, <1>12 DEF D

LEMMA AuctionEventsCount ==
  ASSUME TimelineInv
  PROVE  /\ IsFiniteSet(AuctionEvents) /\ Cardinality(AuctionEvents) = Count("auction")
         /\ \A e \in AuctionEvents : e \in EventSpace /\ e.source = "auction"
<1> DEFINE e == TimelineItem(0, _timeline_order_rank("auction", FALSE), "auction", 0)
           f == TimelineItem(starts_at, _timeline_order_rank("auction", FALSE), "auction", 1)
<1>1. _timeline_order_rank("auction", FALSE) \in Nat /\ "auction" \in TIMELINE_SOURCES
  BY DEF _timeline_order_rank, TIMELINE_SOURCES
<1>2. e \in EventSpace /\ e.source = "auction" /\ e.row = 0
  <2> DEFINE rank == _timeline_order_rank("auction", FALSE)
  <2>1. rank \in Nat
    BY <1>1
  <2> HIDE DEF rank
  <2>2. TimelineItem(0, rank, "auction", 0) \in EventSpace /\ TimelineItem(0, rank, "auction", 0).source = "auction"
        /\ TimelineItem(0, rank, "auction", 0).row = 0
    BY <1>1, <2>1, EventIs
  <2> QED BY <2>2 DEF rank
<1>3. f.source = "auction" /\ f.row = 1 /\ (starts_at # NotYet => f \in EventSpace)
  <2>1. f.source = "auction" /\ f.row = 1
    BY DEF TimelineItem
  <2>2. starts_at \in Nat => f \in EventSpace
    BY <1>1, EventIs
  <2> QED BY <2>1, <2>2 DEF TimelineInv
<1>4. AuctionEvents = {e} \cup IF starts_at = NotYet THEN {} ELSE {f}
  BY DEF AuctionEvents
<1> HIDE DEF e, f
<1>5. IsFiniteSet({e}) /\ Cardinality({e}) = 1 /\ IsFiniteSet({e} \cup {f}) /\ Cardinality({e} \cup {f}) = 2
  <2>1. IsFiniteSet({e}) /\ Cardinality({e}) = 1
    BY FS_Singleton
  <2>2. f \notin {e}
    BY <1>2, <1>3
  <2> QED BY <2>1, <2>2, FS_AddElement
<1>6. CASE starts_at = NotYet
  BY <1>2, <1>4, <1>5, <1>6 DEF Count
<1>7. CASE starts_at # NotYet
  BY <1>2, <1>3, <1>4, <1>5, <1>7 DEF Count
<1> QED BY <1>6, <1>7

LEMMA ApartAreCounted ==
  ASSUME NEW A, NEW B, IsFiniteSet(A), IsFiniteSet(B), A \cap B = {}
  PROVE  IsFiniteSet(A \cup B) /\ Cardinality(A \cup B) = Cardinality(A) + Cardinality(B)
<1>1. Cardinality(A \cup B) = Cardinality(A) + Cardinality(B) - Cardinality(A \cap B) /\ IsFiniteSet(A \cup B)
  BY FS_Union
<1>2. Cardinality(A) \in Nat /\ Cardinality(B) \in Nat /\ Cardinality(A \cap B) = 0
  BY FS_EmptySet, FS_CardinalityType
<1> QED BY <1>1, <1>2

\* All the events of the included sources.
EventsOf(s) == IF s = "auction" THEN AuctionEvents ELSE TableEvents(s, DOMAIN rows[s])
PartOf(included, s) == IF s \in included THEN EventsOf(s) ELSE {}
WholeOf(included) ==
  ((((PartOf(included, "auction") \cup PartOf(included, "bid")) \cup PartOf(included, "complaint"))
     \cup PartOf(included, "fraud")) \cup PartOf(included, "moderation"))

LEMMA PartIsCounted ==
  ASSUME TimelineInv, NEW included, NEW s \in TIMELINE_SOURCES
  PROVE  /\ IsFiniteSet(PartOf(included, s))
         /\ Cardinality(PartOf(included, s)) = IF s \in included THEN Count(s) ELSE 0
         /\ \A e \in PartOf(included, s) : e \in EventSpace /\ e.source = s
<1>1. IsFiniteSet(EventsOf(s)) /\ Cardinality(EventsOf(s)) = Count(s)
      /\ \A e \in EventsOf(s) : e \in EventSpace /\ e.source = s
  <2>1. CASE s = "auction"
    BY <2>1, AuctionEventsCount DEF EventsOf
  <2>2. CASE s # "auction"
    <3>1. s \in Tables
      BY <2>2 DEF TIMELINE_SOURCES
    <3> QED BY <2>2, <3>1, TableEventsCount DEF EventsOf
  <2> QED BY <2>1, <2>2
<1> QED BY <1>1, FS_EmptySet DEF PartOf

LEMMA WholeIsCounted ==
  ASSUME TimelineInv, NEW included \in SUBSET TIMELINE_SOURCES
  PROVE  /\ IsFiniteSet(WholeOf(included)) /\ Cardinality(WholeOf(included)) = _count_timeline_events(included)
         /\ WholeOf(included) \in SUBSET EventSpace
<1> DEFINE X(s) == PartOf(included, s)
           n(s) == IF s \in included THEN Count(s) ELSE 0
           A == X("auction") \cup X("bid")
           B == A \cup X("complaint")
           C == B \cup X("fraud")
           D == C \cup X("moderation")
<1>1. \A s \in TIMELINE_SOURCES : IsFiniteSet(X(s)) /\ Cardinality(X(s)) = n(s)
                                  /\ \A e \in X(s) : e \in EventSpace /\ e.source = s
  BY PartIsCounted
<1>2. {"auction", "bid", "complaint", "fraud", "moderation"} = TIMELINE_SOURCES
  BY DEF TIMELINE_SOURCES, Tables
<1> HIDE DEF X, n
<1>3. IsFiniteSet(A) /\ Cardinality(A) = n("auction") + n("bid")
  <2>1. X("auction") \cap X("bid") = {}
    BY <1>1, <1>2
  <2> QED BY <1>1, <1>2, <2>1, ApartAreCounted
<1>4. IsFiniteSet(B) /\ Cardinality(B) = n("auction") + n("bid") + n("complaint")
  <2>1. A \cap X("complaint") = {}
    BY <1>1, <1>2
  <2>2. IsFiniteSet(X("complaint")) /\ Cardinality(X("complaint")) = n("complaint")
    BY <1>1, <1>2
  <2> HIDE DEF A
  <2>3. IsFiniteSet(B) /\ Cardinality(B) = Cardinality(A) + Cardinality(X("complaint"))
    BY <1>3, <2>1, <2>2, ApartAreCounted
  <2> HIDE DEF B
  <2> QED BY <1>3, <2>2, <2>3
<1>5. IsFiniteSet(C) /\ Cardinality(C) = n("auction") + n("bid") + n("complaint") + n("fraud")
  <2>1. B \cap X("fraud") = {}
    BY <1>1, <1>2
  <2>2. IsFiniteSet(X("fraud")) /\ Cardinality(X("fraud")) = n("fraud")
    BY <1>1, <1>2
  <2> HIDE DEF B
  <2>3. IsFiniteSet(C) /\ Cardinality(C) = Cardinality(B) + Cardinality(X("fraud"))
    BY <1>4, <2>1, <2>2, ApartAreCounted
  <2> HIDE DEF C
  <2> QED BY <1>4, <2>2, <2>3
<1>6. IsFiniteSet(D) /\ Cardinality(D) = n("auction") + n("bid") + n("complaint") + n("fraud") + n("moderation")
  <2>1. C \cap X("moderation") = {}
    BY <1>1, <1>2
  <2>2. IsFiniteSet(X("moderation")) /\ Cardinality(X("moderation")) = n("moderation")
    BY <1>1, <1>2
  <2> HIDE DEF C
  <2>3. IsFiniteSet(D) /\ Cardinality(D) = Cardinality(C) + Cardinality(X("moderation"))
    BY <1>5, <2>1, <2>2, ApartAreCounted
  <2> HIDE DEF D
  <2> QED BY <1>5, <2>2, <2>3
<1>7. D \in SUBSET EventSpace
  BY <1>1, <1>2
<1>8. D = WholeOf(included)
  BY DEF WholeOf, X
<1>9. _count_timeline_events(included) = n("auction") + n("bid") + n("complaint") + n("fraud") + n("moderation")
  BY DEF _count_timeline_events, n
<1> HIDE DEF D
<1> QED BY <1>6, <1>7, <1>8, <1>9

\* What is built from the first m rows of each table, and from all of them.
LEMMA BuiltIs ==
  ASSUME NEW included \in SUBSET TIMELINE_SOURCES, NEW m
  PROVE  \A e : e \in _build_timeline_events(included, m) <=>
           \/ "auction" \in included /\ e \in AuctionEvents
           \/ \E t \in included \cap Tables : e \in TableEvents(t, Fetched(t, m))
BY DEF _build_timeline_events

LEMMA WholeIs ==
  ASSUME NEW included \in SUBSET TIMELINE_SOURCES
  PROVE  \A e : e \in WholeOf(included) <=>
           \/ "auction" \in included /\ e \in AuctionEvents
           \/ \E t \in included \cap Tables : e \in TableEvents(t, DOMAIN rows[t])
<1>1. ASSUME NEW e PROVE e \in WholeOf(included) <=> \E s \in TIMELINE_SOURCES : e \in PartOf(included, s)
  BY DEF WholeOf, TIMELINE_SOURCES, Tables
<1>2. ASSUME NEW e, NEW s \in TIMELINE_SOURCES
      PROVE  e \in PartOf(included, s) <=>
               \/ s = "auction" /\ "auction" \in included /\ e \in AuctionEvents
               \/ s \in included \cap Tables /\ e \in TableEvents(s, DOMAIN rows[s])
  BY DEF PartOf, EventsOf, TIMELINE_SOURCES, Tables
<1>3. "auction" \in TIMELINE_SOURCES /\ \A t \in Tables : t \in TIMELINE_SOURCES
  BY DEF TIMELINE_SOURCES
<1> QED BY <1>1, <1>2, <1>3

LEMMA AllRowsAreBuilt ==
  ASSUME TimelineAssumption, TimelineInv, NEW included \in SUBSET TIMELINE_SOURCES
  PROVE  _build_timeline_events(included, MaxRows) = WholeOf(included)
<1>1. \A t \in Tables : Fetched(t, MaxRows) = DOMAIN rows[t]
  <2> TAKE t \in Tables
  <2>1. \A s \in Tables : Len(rows[s]) \in Nat
    BY RowsAreOrdered
  <2>2. Len(rows[t]) <= MaxRows /\ MaxRows \in Nat
    <3>1. Len(rows["bid"]) \in Nat /\ Len(rows["complaint"]) \in Nat /\ Len(rows["fraud"]) \in Nat
          /\ Len(rows["moderation"]) \in Nat
      BY <2>1 DEF Tables
    <3>2. t \in {"bid", "complaint", "fraud", "moderation"}
      BY DEF Tables
    <3>3. Len(rows["bid"]) + Len(rows["complaint"]) + Len(rows["fraud"]) + Len(rows["moderation"]) <= MaxRows
          /\ MaxRows \in Nat
      BY DEF TimelineInv, TimelineAssumption
    <3>4. /\ Len(rows["bid"]) <= MaxRows /\ Len(rows["complaint"]) <= MaxRows
          /\ Len(rows["fraud"]) <= MaxRows /\ Len(rows["moderation"]) <= MaxRows
      <4> DEFINE a == Len(rows["bid"])
                 b == Len(rows["complaint"])
                 c == Len(rows["fraud"])
                 d == Len(rows["moderation"])
      <4>1. a \in Nat /\ b \in Nat /\ c \in Nat /\ d \in Nat /\ a + b + c + d <= MaxRows /\ MaxRows \in Nat
        BY <3>1, <3>3
      <4> HIDE DEF a, b, c, d
      <4>2. a <= MaxRows /\ b <= MaxRows /\ c <= MaxRows /\ d <= MaxRows
        BY <4>1
      <4> QED BY <4>2 DEF a, b, c, d
    <3> QED BY <3>2, <3>3, <3>4
  <2>3. \A k \in DOMAIN rows[t] : RowsBefore(t, k) < MaxRows
    <3>1. \A k \in DOMAIN rows[t] : RowsBefore(t, k) \in 0..(Len(rows[t]) - 1)
      BY RowsAreCounted
    <3> QED BY <2>1, <2>2, <3>1
  <2> QED BY <2>3 DEF Fetched
<1> QED BY <1>1, BuiltIs, WholeIs

\* Every row is an event of its table.
LEMMA RowsAreEvents ==
  ASSUME TimelineInv, NEW t \in Tables
  PROVE  \A j \in DOMAIN rows[t] :
           /\ Created(t, j) \in EventSpace /\ Created(t, j).source = t /\ Created(t, j).row = RowsBefore(t, j)
           /\ Created(t, j).at = rows[t][j].created_at /\ Created(t, j).rank = _timeline_order_rank(t, FALSE)
<1> TAKE j \in DOMAIN rows[t]
<1> QED BY EventsOfARow

\* The events of a row have the older rows of its table before them.
LEMMA OlderRowsComeFirst ==
  ASSUME TimelineInv, NEW S \in SUBSET EventSpace, IsFiniteSet(S), NEW t \in Tables, NEW k \in DOMAIN rows[t],
         \A j \in DOMAIN rows[t] : Created(t, j) \in S,
         NEW e \in S, e = Created(t, k) \/ (k \in Resolved(t) /\ e = Ended(t, k))
  PROVE  Place(S, TimelineOrder(S), e) >= RowsBefore(t, k)
<1> DEFINE R == TimelineOrder(S)
           J == {j \in DOMAIN rows[t] : Older(t, j, k)}
           f == [j \in J |-> Created(t, j)]
<1>0. \A j \in DOMAIN rows[t] :
        /\ Created(t, j) \in EventSpace /\ Created(t, j).source = t /\ Created(t, j).row = RowsBefore(t, j)
        /\ Created(t, j).at = rows[t][j].created_at /\ Created(t, j).rank = _timeline_order_rank(t, FALSE)
  BY RowsAreEvents
<1>1. e \in EventSpace /\ e.source = t /\ e.row = RowsBefore(t, k) /\ e.at >= rows[t][k].created_at
      /\ e.rank >= _timeline_order_rank(t, FALSE)
  <2> DEFINE c == Created(t, k)
             d == Ended(t, k)
             rank == _timeline_order_rank(t, FALSE)
             place == RowsBefore(t, k)
             at == rows[t][k].created_at
  <2>1. /\ c \in EventSpace /\ c.source = t /\ c.row = place /\ c.at = at /\ c.rank = rank
        /\ k \in Resolved(t) => d \in EventSpace /\ d.source = t /\ d.row = place /\ d.at >= c.at /\ d.rank > c.rank
    BY EventsOfARow
  <2>2. e = c \/ (k \in Resolved(t) /\ e = d)
    OBVIOUS
  <2> HIDE DEF c, d, rank, place, at
  <2>3. c.at \in Nat /\ c.rank \in Nat
    BY <2>1 DEF EventSpace
  <2>4. CASE e = c
    <3>1. c.at >= c.at /\ c.rank >= c.rank
      BY <2>3
    <3> QED BY <2>1, <2>4, <3>1 DEF rank, place, at
  <2>5. CASE k \in Resolved(t) /\ e = d
    <3>1. d.rank \in Nat
      BY <2>1, <2>5 DEF EventSpace
    <3>2. d.rank >= c.rank
      BY <2>1, <2>3, <2>5, <3>1
    <3>3. e \in EventSpace /\ e.source = t /\ e.row = place /\ e.at >= at /\ e.rank >= rank
      BY <2>1, <2>5, <3>2
    <3> QED BY <3>3 DEF rank, place, at
  <2> QED BY <2>2, <2>4, <2>5
<1>2. ASSUME NEW j \in J
      PROVE  /\ Created(t, j) \in S /\ Created(t, j).row = RowsBefore(t, j)
             /\ Sorted(Created(t, j), e)
  <2> DEFINE c == Created(t, j)
  <2>1. j \in DOMAIN rows[t] /\ Older(t, j, k)
    OBVIOUS
  <2>2. /\ c \in EventSpace /\ c.source = t /\ c.row = RowsBefore(t, j)
        /\ c.at = rows[t][j].created_at /\ c.rank = _timeline_order_rank(t, FALSE)
    BY <1>0, <2>1
  <2>3. c \in S
    BY <2>1
  <2>4. RowsBefore(t, j) < RowsBefore(t, k)
    BY <2>1, RowsAreCounted
  <2>5. rows[t][j].created_at <= rows[t][k].created_at
    <3>1. rows[t][j].created_at \in Nat /\ rows[t][k].created_at \in Nat
      BY <2>1 DEF TimelineInv, RowIsSound, SoundAt, TimelineRow
    <3> DEFINE a == rows[t][j].created_at
               b == rows[t][k].created_at
    <3>2. a < b \/ a = b
      BY <2>1 DEF Older
    <3> HIDE DEF a, b
    <3>3. a \in Nat /\ b \in Nat
      BY <3>1 DEF a, b
    <3>4. a <= b
      BY <3>2, <3>3
    <3> QED BY <3>4 DEF a, b
  <2> HIDE DEF c
  <2>6. c.at <= e.at /\ c.rank <= e.rank /\ c.row < e.row /\ c.source = e.source
    <3> DEFINE a == rows[t][j].created_at
               b == rows[t][k].created_at
               r == _timeline_order_rank(t, FALSE)
    <3>1. c.at = a /\ a <= b /\ e.at >= b /\ c.rank = r /\ e.rank >= r /\ c.row < e.row /\ c.source = e.source
      BY <1>1, <2>2, <2>4, <2>5
    <3>2. b \in Nat
      BY DEF TimelineInv, RowIsSound, SoundAt, TimelineRow
    <3>3. c.at \in Nat /\ e.at \in Nat /\ c.rank \in Nat /\ e.rank \in Nat
      BY <1>1, <2>2 DEF EventSpace
    <3> HIDE DEF a, b, r
    <3> QED BY <3>1, <3>2, <3>3
  <2>7. c.at \in Nat /\ e.at \in Nat /\ c.rank \in Nat /\ e.rank \in Nat
    BY <1>1, <2>2 DEF EventSpace
  <2>8. Sorted(c, e)
    BY <2>6, <2>7 DEF Sorted
  <2> QED BY <2>2, <2>3, <2>8 DEF c
<1>3. f \in [J -> Below(S, R, e)]
  <2>1. \A j \in J : Created(t, j) \in Below(S, R, e)
    BY <1>2 DEF Below, TimelineOrder
  <2> HIDE DEF J
  <2> QED BY <2>1
<1>4. \A i, j \in J : f[i] = f[j] => i = j
  <2>1. \A j \in J : f[j].row = RowsBefore(t, j) /\ j \in DOMAIN rows[t]
    BY <1>2
  <2>2. \A i, j \in DOMAIN rows[t] : RowsBefore(t, i) = RowsBefore(t, j) => i = j
    BY RowsAreCounted
  <2> HIDE DEF J, f
  <2> QED BY <2>1, <2>2
<1>5. f \in Injection(J, Below(S, R, e))
  <2> HIDE DEF J, f
  <2> QED BY <1>3, <1>4 DEF Injection, IsInjective
<1>6. IsFiniteSet(Below(S, R, e))
  <2>1. Below(S, R, e) \in SUBSET S
    BY DEF Below
  <2> QED BY <2>1, FS_Subset
<1>7. Cardinality(J) <= Cardinality(Below(S, R, e))
  <2> HIDE DEF J, f
  <2> QED BY <1>5, <1>6, FS_Injection
<1>8. Cardinality(J) = RowsBefore(t, k)
  BY DEF RowsBefore
<1>9. Cardinality(J) \in Int /\ Cardinality(Below(S, R, e)) \in Int
  <2>1. RowsBefore(t, k) \in 0..(Len(rows[t]) - 1)
    BY RowsAreCounted
  <2>2. RowsBefore(t, k) \in Int
    BY <2>1
  <2>3. Cardinality(Below(S, R, e)) \in Nat
    BY <1>6, FS_CardinalityType
  <2> QED BY <1>8, <2>2, <2>3
<1> HIDE DEF J
<1>10. Cardinality(Below(S, R, e)) >= Cardinality(J)
  BY <1>7, <1>9
<1> QED BY <1>8, <1>10 DEF Place

\* Whatever is not built has its place after what a page needs.
LEMMA WhatIsLeftOutIsLate ==
  ASSUME TimelineInv, NEW included \in SUBSET TIMELINE_SOURCES, NEW m \in Nat
  PROVE  LET W == WholeOf(included)
             F == _build_timeline_events(included, m)
         IN F \in SUBSET W /\ \A e \in W \ F : Place(W, TimelineOrder(W), e) >= m
<1> DEFINE W == WholeOf(included)
           F == _build_timeline_events(included, m)
           T == included \cap Tables
<1>1. \A e : e \in F <=> \/ "auction" \in included /\ e \in AuctionEvents
                        \/ \E t \in T : e \in TableEvents(t, Fetched(t, m))
  BY BuiltIs
<1>2. \A e : e \in W <=> \/ "auction" \in included /\ e \in AuctionEvents
                        \/ \E t \in T : e \in TableEvents(t, DOMAIN rows[t])
  BY WholeIs
<1>3. \A t \in Tables : Fetched(t, m) = {k \in DOMAIN rows[t] : RowsBefore(t, k) < m}
  BY DEF Fetched
<1>4. IsFiniteSet(W) /\ W \in SUBSET EventSpace
  BY WholeIsCounted
<1> HIDE DEF F, W
<1>5. \A t \in Tables : \A K :
        \A e : e \in TableEvents(t, K) <=>
          (\E k \in K : e = Created(t, k)) \/ (\E k \in K \cap Resolved(t) : e = Ended(t, k))
  BY TableEventsAre
<1>6. F \in SUBSET W
  <2>1. \A t \in T : \A e \in TableEvents(t, Fetched(t, m)) : e \in TableEvents(t, DOMAIN rows[t])
    BY <1>3, <1>5
  <2> QED BY <1>1, <1>2, <2>1
<1>7. ASSUME NEW e \in W \ F PROVE Place(W, TimelineOrder(W), e) >= m
  <2>1. PICK t \in T : e \in TableEvents(t, DOMAIN rows[t])
    BY <1>1, <1>2
  <2>2. e \notin TableEvents(t, Fetched(t, m))
    BY <1>1
  <2>3. PICK k \in DOMAIN rows[t] : e = Created(t, k) \/ (k \in Resolved(t) /\ e = Ended(t, k))
    BY <1>5, <2>1
  <2>4. k \notin Fetched(t, m)
    BY <1>5, <2>2, <2>3
  <2>5. RowsBefore(t, k) \in Int /\ ~(RowsBefore(t, k) < m)
    <3>1. RowsBefore(t, k) \in 0..(Len(rows[t]) - 1)
      BY RowsAreCounted
    <3> QED BY <1>3, <2>4, <3>1
  <2>6. \A j \in DOMAIN rows[t] : Created(t, j) \in W
    BY <1>2, <1>5
  <2>7. Place(W, TimelineOrder(W), e) >= RowsBefore(t, k)
    BY <1>4, <2>3, <2>6, OlderRowsComeFirst
  <2>8. Place(W, TimelineOrder(W), e) \in Int
    <3> DEFINE R == TimelineOrder(W)
    <3>1. StrictOrder(W, R)
      BY <1>4, TimelineIsOrdered
    <3> HIDE DEF R
    <3>2. Place(W, R, e) \in 0..(Cardinality(W) - 1)
      BY <1>4, <3>1, PlacesAreInOrder
    <3> QED BY <3>2 DEF R
  <2> QED BY <2>5, <2>7, <2>8
<1> QED BY <1>6, <1>7 DEF F, W

LEMMA TimelineIsCounted ==
  ASSUME NEW S, IsFiniteSet(S), NEW R, SortedBy(S, R)
  PROVE  Cardinality(InOrder(S)) = Cardinality(S)
<1> DEFINE pair == [x \in S |-> <<Place(S, R, x), x>>]
           T == InOrder(S)
<1>1. T = {<<Place(S, R, e), e>> : e \in S}
  BY TimelineIs
<1> HIDE DEF T
<1>2. pair \in [S -> T] /\ (\A p \in T : \E e \in S : pair[e] = p)
  BY <1>1
<1>3. \A x, y \in S : pair[x] = pair[y] => x = y
  OBVIOUS
<1> HIDE DEF pair
<1>4. pair \in Bijection(S, T)
  BY <1>2, <1>3 DEF Bijection, Injection, IsInjective, Surjection
<1> QED BY <1>4, FS_Bijection DEF ExistsBijection, T

\* A page is the part of the whole timeline it stands for.
LEMMA PageIsAPart ==
  ASSUME TimelineInv, NEW included \in SUBSET TIMELINE_SOURCES, NEW nr \in Nat, NEW limit \in Nat
  PROVE  LET W == WholeOf(included)
             built == build_auction_timeline_page(included, nr, limit)
         IN /\ built.items = Slice(InOrder(W), nr * limit, limit) /\ built.total = Cardinality(W)
            /\ nr * limit + Cardinality(built.items) < built.total <=> (nr + 1) * limit < Cardinality(W)
<1> DEFINE W == WholeOf(included)
           R == TimelineOrder(W)
           N == Cardinality(W)
           offset == nr * limit
           m == IF offset + limit < N THEN offset + limit ELSE N
           F == _build_timeline_events(included, m)
           built == build_auction_timeline_page(included, nr, limit)
<1>1. IsFiniteSet(W) /\ N = _count_timeline_events(included) /\ W \in SUBSET EventSpace
  BY WholeIsCounted
<1>2. StrictOrder(W, R) /\ SortedBy(W, R)
  BY <1>1, TimelineIsOrdered
<1>3. N \in Nat
  BY <1>1, FS_CardinalityType
<1>4. offset \in Nat /\ (nr + 1) * limit = offset + limit
  OBVIOUS
<1>5. built.total = N /\ built.items = IF offset >= N THEN {} ELSE Slice(InOrder(F), offset, limit)
  BY <1>1, <1>4 DEF build_auction_timeline_page
<1> HIDE DEF offset, N, W, R, built
<1>6. m \in Nat
  BY <1>3, <1>4
<1>7. F \in SUBSET W /\ \A e \in W \ F : Place(W, R, e) >= m
  <2> HIDE DEF m
  <2> QED BY <1>6, WhatIsLeftOutIsLate DEF W, R
<1> HIDE DEF F
<1>8. Slice(InOrder(F), offset, limit) = Slice(InOrder(W), offset, limit)
  <2>1. m = IF offset + limit < Cardinality(W) THEN offset + limit ELSE Cardinality(W)
    BY DEF N
  <2> HIDE DEF m
  <2> QED BY <1>1, <1>2, <1>4, <1>6, <1>7, <2>1, PageOfAPart
<1>9. Cardinality(Slice(InOrder(W), offset, limit)) =
        IF offset >= N THEN 0 ELSE IF offset + limit < N THEN limit ELSE N - offset
  BY <1>1, <1>2, <1>4, PageIsFilled DEF N
<1>10. offset >= N => Slice(InOrder(W), offset, limit) = {}
  <2>1. ASSUME NEW p \in Slice(InOrder(W), offset, limit), offset >= N PROVE FALSE
    <3>1. PICK e \in W : Place(W, R, e) \in offset..(offset + limit - 1)
      BY <1>2, <2>1, SliceIs
    <3>2. Place(W, R, e) \in 0..(N - 1)
      BY <1>1, <1>2, PlacesAreInOrder DEF N
    <3> QED BY <1>3, <1>4, <2>1, <3>1, <3>2
  <2> QED BY <2>1
<1>11. built.items = Slice(InOrder(W), offset, limit)
  BY <1>5, <1>8, <1>10
<1>12. offset + Cardinality(built.items) < built.total <=> (nr + 1) * limit < N
  <2> DEFINE shown == Cardinality(built.items)
  <2>1. shown = IF offset >= N THEN 0 ELSE IF offset + limit < N THEN limit ELSE N - offset
    BY <1>9, <1>11
  <2> HIDE DEF shown
  <2>2. offset + shown < N <=> offset + limit < N
    BY <1>3, <1>4, <2>1
  <2> QED BY <1>4, <1>5, <2>2 DEF shown
<1> QED BY <1>5, <1>11, <1>12 DEF offset, N, W, built

LEMMA TimelineInvMakesPagesWhole ==
  ASSUME TimelineAssumption, TimelineInv
  PROVE  TimelineIsWhole
<1> SUFFICES ASSUME NEW sources \in Filters, NEW limit \in Limits
             PROVE  LET whole == InOrder(_build_timeline_events(_normalize_sources(sources), MaxRows))
                        events == Cardinality(whole)
                    IN \A nr \in 0..(events \div limit + 1) :
                         LET shown == auction_timeline(sources, nr, limit)
                         IN /\ shown.items = Slice(whole, nr * limit, limit)
                            /\ shown.has_next <=> (nr + 1) * limit < events
  BY DEF TimelineIsWhole
<1> DEFINE included == _normalize_sources(sources)
           W == WholeOf(included)
           whole == InOrder(_build_timeline_events(included, MaxRows))
<1>1. included \in SUBSET TIMELINE_SOURCES /\ limit \in Nat
  BY DEF TimelineAssumption, _normalize_sources
<1> HIDE DEF included
<1>2. _build_timeline_events(included, MaxRows) = W
  BY <1>1, AllRowsAreBuilt
<1>3. whole = InOrder(W)
  BY <1>2
<1>4. IsFiniteSet(W) /\ SortedBy(W, TimelineOrder(W))
  BY <1>1, WholeIsCounted, TimelineIsOrdered
<1>5. Cardinality(whole) = Cardinality(W) /\ Cardinality(W) \in Nat
  BY <1>3, <1>4, TimelineIsCounted, FS_CardinalityType
<1>6. ASSUME NEW nr \in 0..(Cardinality(whole) \div limit + 1)
      PROVE  LET shown == auction_timeline(sources, nr, limit)
             IN /\ shown.items = Slice(whole, nr * limit, limit)
                /\ shown.has_next <=> (nr + 1) * limit < Cardinality(whole)
  <2> DEFINE built == build_auction_timeline_page(included, nr, limit)
             shown == auction_timeline(sources, nr, limit)
  <2>1. nr \in Nat
    OBVIOUS
  <2>2. /\ built.items = Slice(InOrder(W), nr * limit, limit)
        /\ nr * limit + Cardinality(built.items) < built.total <=> (nr + 1) * limit < Cardinality(W)
    BY <1>1, <2>1, PageIsAPart
  <2>3. /\ shown.items = built.items
        /\ shown.has_next <=> nr * limit + Cardinality(built.items) < built.total
    BY DEF auction_timeline, included
  <2> HIDE DEF built, shown, W, whole
  <2> QED BY <1>3, <1>5, <2>2, <2>3 DEF shown
<1> QED BY <1>6 DEF included

\* The rows of the model.
LEMMA TimelineStarts ==
  ASSUME TimelineAssumption, TimelineInit
  PROVE  TimelineInv
<1>1. \A t \in Tables : rows[t] = <<>>
  BY DEF TimelineInit
<1>2. rows \in [Tables -> Seq(TimelineRow)]
  BY DEF TimelineInit
<1>3. \A t \in Tables : DOMAIN rows[t] = {} /\ Len(rows[t]) = 0
  BY <1>1
<1>4. "bid" \in Tables /\ "complaint" \in Tables /\ "fraud" \in Tables /\ "moderation" \in Tables
  BY DEF Tables
<1>5. Len(rows["bid"]) + Len(rows["complaint"]) + Len(rows["fraud"]) + Len(rows["moderation"]) <= MaxRows
  <2>1. 0 + 0 + 0 + 0 <= MaxRows
    BY DEF TimelineAssumption
  <2>2. /\ Len(rows["bid"]) = 0 /\ Len(rows["complaint"]) = 0 /\ Len(rows["fraud"]) = 0
        /\ Len(rows["moderation"]) = 0
    BY <1>3, <1>4
  <2> HIDE <1>1, <1>2, <1>3
  <2> QED BY <2>1, <2>2
<1> QED BY <1>2, <1>3, <1>5 DEF TimelineInit, TimelineInv

LEMMA TimelineStep ==
  ASSUME TimelineAssumption, TimelineInv, [TimelineNext]_timeline_vars
  PROVE  TimelineInv'
<1> DEFINE Fits == Len(rows["bid"]) + Len(rows["complaint"]) + Len(rows["fraud"]) + Len(rows["moderation"]) <= MaxRows
<1>0. /\ clock \in Nat /\ starts_at \in Nat \cup {NotYet} /\ rows \in [Tables -> Seq(TimelineRow)]
      /\ \A t \in Tables : \A k \in DOMAIN rows[t] : RowIsSound(t, rows[t][k])
      /\ Fits /\ NotYet \notin Nat /\ MaxRows \in Nat
  BY DEF TimelineInv, TimelineAssumption
<1>1. CASE UNCHANGED timeline_vars
  BY <1>0, <1>1 DEF timeline_vars, TimelineInv, RowIsSound
<1>2. CASE publish
  BY <1>0, <1>2 DEF publish, TimelineInv, RowIsSound
<1>3. CASE ClockTicks
  <2>1. clock' = clock + 1 /\ rows' = rows /\ starts_at' = starts_at
    BY <1>3 DEF ClockTicks
  <2>2. ASSUME NEW t \in Tables, NEW k \in DOMAIN rows[t] PROVE RowIsSound(t, rows[t][k])'
    BY <1>0, <2>1 DEF RowIsSound, SoundAt, TimelineRow
  <2>3. clock' \in Nat /\ starts_at' \in Nat \cup {NotYet} /\ rows' \in [Tables -> Seq(TimelineRow)] /\ Fits'
    <3>1. clock' \in Nat
      BY <1>0, <2>1
    <3>2. starts_at' \in Nat \cup {NotYet} /\ rows' \in [Tables -> Seq(TimelineRow)]
      BY <1>0, <2>1
    <3>3. Fits'
      BY <1>0, <2>1
    <3> QED BY <3>1, <3>2, <3>3
  <2>4. \A t \in Tables : \A k \in DOMAIN rows'[t] : RowIsSound(t, rows[t][k])'
    BY <2>1, <2>2
  <2> QED BY <2>3, <2>4 DEF TimelineInv
<1>4. ASSUME NEW t \in Tables, row_is_added(t) PROVE TimelineInv'
  <2>1. PICK at \in {clock - 1, clock} \cap Nat :
          rows' = [rows EXCEPT ![t] = Append(@, [created_at |-> at, resolved_at |-> NotYet])]
    BY <1>4 DEF row_is_added
  <2> DEFINE r == [created_at |-> at, resolved_at |-> NotYet]
  <2>2. clock' = clock /\ starts_at' = starts_at
        /\ Len(rows["bid"]) + Len(rows["complaint"]) + Len(rows["fraud"]) + Len(rows["moderation"]) < MaxRows
    BY <1>4 DEF row_is_added
  <2>3. r \in TimelineRow /\ RowIsSound(t, r)'
    BY <1>0, <2>2 DEF TimelineRow, RowIsSound, SoundAt
  <2>4. rows'[t] = Append(rows[t], r) /\ \A s \in Tables \ {t} : rows'[s] = rows[s]
    BY <1>0, <2>1
  <2> HIDE DEF r
  <2>5. rows[t] \in Seq(TimelineRow) /\ rows'[t] \in Seq(TimelineRow) /\ Len(rows'[t]) = Len(rows[t]) + 1
    BY <1>0, <2>3, <2>4
  <2>6. rows' \in [Tables -> Seq(TimelineRow)]
    BY <1>0, <2>1, <2>4, <2>5
  <2>7. ASSUME NEW s \in Tables, NEW k \in DOMAIN rows'[s] PROVE RowIsSound(s, rows[s][k])'
    <3>1. CASE s = t /\ k = Len(rows[t]) + 1
      BY <2>3, <2>4, <2>5, <3>1
    <3>2. CASE ~(s = t /\ k = Len(rows[t]) + 1)
      <4>1. k \in DOMAIN rows[s] /\ rows'[s][k] = rows[s][k]
        BY <1>0, <2>4, <2>5, <3>2
      <4>2. RowIsSound(s, rows[s][k])
        BY <1>0, <4>1
      <4> QED BY <2>2, <4>1, <4>2 DEF RowIsSound
    <3> QED BY <3>1, <3>2
  <2>8. Fits'
    <3>1. \A s \in Tables : Len(rows[s]) \in Nat /\ Len(rows'[s]) = IF s = t THEN Len(rows[s]) + 1 ELSE Len(rows[s])
      BY <1>0, <2>4, <2>5
    <3> DEFINE l(s) == Len(rows[s])
               n(s) == Len(rows'[s])
    <3>2. \A s \in {"bid", "complaint", "fraud", "moderation"} :
            l(s) \in Nat /\ n(s) = IF s = t THEN l(s) + 1 ELSE l(s)
      BY <3>1 DEF Tables
    <3>3. l("bid") + l("complaint") + l("fraud") + l("moderation") < MaxRows
      BY <2>2
    <3>4. t \in {"bid", "complaint", "fraud", "moderation"}
      BY DEF Tables
    <3> HIDE DEF l, n
    <3>5. n("bid") + n("complaint") + n("fraud") + n("moderation") <= MaxRows
      BY <1>0, <3>2, <3>3, <3>4
    <3> QED BY <3>5 DEF n
  <2> QED BY <1>0, <2>2, <2>6, <2>7, <2>8 DEF TimelineInv
<1>5. ASSUME NEW t \in Tables, resolve(t) PROVE TimelineInv'
  <2>1. PICK j \in DOMAIN rows[t] : rows' = [rows EXCEPT ![t][j].resolved_at = clock]
    BY <1>5 DEF resolve
  <2>2. clock' = clock /\ starts_at' = starts_at /\ t \in {"complaint", "fraud"}
    BY <1>5 DEF resolve
  <2> DEFINE r == [rows[t][j] EXCEPT !.resolved_at = clock]
  <2>3. RowIsSound(t, rows[t][j])
    BY <1>0
  <2>10. rows[t][j] \in TimelineRow /\ rows[t][j].created_at <= clock
    BY <2>3 DEF RowIsSound, SoundAt
  <2>11. r \in TimelineRow /\ r.created_at = rows[t][j].created_at /\ r.resolved_at = clock
    <3> DEFINE x == rows[t][j]
    <3>1. x \in TimelineRow
      BY <2>10
    <3> HIDE DEF x
    <3>2. [x EXCEPT !.resolved_at = clock] \in TimelineRow
          /\ [x EXCEPT !.resolved_at = clock].created_at = x.created_at
          /\ [x EXCEPT !.resolved_at = clock].resolved_at = clock
      BY <1>0, <3>1 DEF TimelineRow
    <3> QED BY <3>2 DEF x
  <2>4. SoundAt(t, r, clock')
    <3>1. rows[t][j].created_at \in Nat
      BY <2>10 DEF TimelineRow
    <3> HIDE DEF r
    <3> QED BY <1>0, <2>2, <2>10, <2>11, <3>1 DEF SoundAt
  <2>5. rows'[t] = [rows[t] EXCEPT ![j] = r] /\ \A s \in Tables \ {t} : rows'[s] = rows[s]
    BY <1>0, <2>1
  <2> HIDE DEF r
  <2>6. rows[t] \in Seq(TimelineRow) /\ rows'[t] \in Seq(TimelineRow) /\ Len(rows'[t]) = Len(rows[t])
        /\ DOMAIN rows'[t] = DOMAIN rows[t]
    BY <1>0, <2>5, <2>11
  <2>7. rows' \in [Tables -> Seq(TimelineRow)]
    BY <1>0, <2>1, <2>5, <2>6
  <2>8. ASSUME NEW s \in Tables, NEW k \in DOMAIN rows'[s] PROVE RowIsSound(s, rows[s][k])'
    <3>1. CASE s = t /\ k = j
      <4>1. rows'[t][j] = r
        BY <2>5, <2>6
      <4> QED BY <2>2, <2>4, <3>1, <4>1 DEF RowIsSound
    <3>2. CASE ~(s = t /\ k = j)
      <4>1. k \in DOMAIN rows[s] /\ rows'[s][k] = rows[s][k]
        BY <1>0, <2>5, <2>6, <3>2
      <4>2. RowIsSound(s, rows[s][k])
        BY <1>0, <4>1
      <4> QED BY <2>2, <4>1, <4>2 DEF RowIsSound
    <3> QED BY <3>1, <3>2
  <2>9. \A s \in Tables : Len(rows'[s]) = Len(rows[s])
    BY <2>5, <2>6
  <2>12. Fits'
    BY <1>0, <2>9 DEF Tables
  <2> QED BY <1>0, <2>2, <2>7, <2>8, <2>12 DEF TimelineInv
<1> QED BY <1>1, <1>2, <1>3, <1>4, <1>5 DEF TimelineNext

\* Paging loses nothing: for any filter and any size of a page, the pages that
\* follow one another by their links are the whole timeline in its order.
THEOREM PagesAreWhole ==
  ASSUME TimelineAssumption
  PROVE  TimelineSpec => []TimelineIsWhole
<1>1. TimelineInit => TimelineInv
  BY TimelineStarts
<1>2. TimelineInv /\ [TimelineNext]_timeline_vars => TimelineInv'
  BY TimelineStep
<1>3. TimelineInv => TimelineIsWhole
  BY TimelineInvMakesPagesWhole
<1> QED BY <1>1, <1>2, <1>3, PTL DEF TimelineSpec
=============================================================================
