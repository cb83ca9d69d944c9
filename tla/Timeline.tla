------------------------------ MODULE Timeline ------------------------------
(***************************************************************************)
(* The timeline of a lot: events put together from five sources, and shown    *)
(* page by page from a part of each.  (src/app/services/timeline_service.py   *)
(* and the page of it in src/app/web/main.py.)                                *)
(*                                                                         *)
(* A row is created at the start of the transaction that adds it, so a row    *)
(* added later may be the older one; a case is resolved at the time of the     *)
(* handler, and the bulk form resolves it again.  Database and bot are taken   *)
(* to have one clock.  The id of a row is its place in the table here (for a   *)
(* bid it is a random UUID: any order of ties will do).  A page is read at one  *)
(* instant.  Definitions Bug_... are for mutation runs only.                   *)
(***************************************************************************)
EXTENDS Integers, Sequences, FiniteSets

CONSTANTS
  NotYet,
  Filters,   \* what the reader asks for: sets of sources
  Limits,    \* rows of a page
  MaxRows,   \* bound of the model: rows of all tables
  MaxClock    \* bound of the model

Tables == {"bid", "complaint", "fraud", "moderation"}
TIMELINE_SOURCES == Tables \cup {"auction"}

TimelineAssumption ==
  /\ NotYet \notin Nat
  /\ Filters \subseteq SUBSET TIMELINE_SOURCES
  /\ Limits \subseteq Nat \ {0} /\ IsFiniteSet(Limits)
  /\ MaxRows \in Nat /\ MaxClock \in Nat

VARIABLES
  clock,
  starts_at,   \* the lot was created at 0
  rows         \* of each table: [created_at, resolved_at]

timeline_vars == <<clock, starts_at, rows>>

TimelineInit == clock = 0 /\ starts_at = NotYet /\ rows = [t \in Tables |-> <<>>]

ClockTicks == clock < MaxClock /\ clock' = clock + 1 /\ UNCHANGED <<starts_at, rows>>

publish ==
  /\ starts_at = NotYet
  /\ starts_at' = clock
  /\ UNCHANGED <<clock, rows>>

\* A bid, a complaint, a signal or an entry of the moderation log.
row_is_added(t) ==
  /\ starts_at # NotYet
  /\ Len(rows["bid"]) + Len(rows["complaint"]) + Len(rows["fraud"]) + Len(rows["moderation"]) < MaxRows
  /\ \E at \in {clock - 1, clock} \cap Nat :
        rows' = [rows EXCEPT ![t] = Append(@, [created_at |-> at, resolved_at |-> NotYet])]
  /\ UNCHANGED <<clock, starts_at>>

\* resolve_complaint, resolve_fraud_signal and the bulk form.
resolve(t) ==
  /\ t \in {"complaint", "fraud"}
  /\ \E k \in DOMAIN rows[t] : rows' = [rows EXCEPT ![t][k].resolved_at = clock]
  /\ UNCHANGED <<clock, starts_at>>

TimelineNext == ClockTicks \/ publish \/ \E t \in Tables : row_is_added(t) \/ resolve(t)

TimelineSpec == TimelineInit /\ [][TimelineNext]_timeline_vars
-----------------------------------------------------------------------------
(* The five sources.                                                        *)

_normalize_sources(sources) == IF sources = {} THEN TIMELINE_SOURCES ELSE sources

Resolved(t) == {k \in DOMAIN rows[t] : rows[t][k].resolved_at # NotYet}

\* How many events of one source there are: counted, not built.
Count(source) ==
  CASE source = "auction" -> IF starts_at = NotYet THEN 1 ELSE 2
    [] source \in {"bid", "moderation"} -> Len(rows[source])
    [] OTHER -> Len(rows[source]) + Cardinality(Resolved(source))

_count_timeline_events(included) ==
  LET n(source) == IF source \in included THEN Count(source) ELSE 0
  IN n("auction") + n("bid") + n("complaint") + n("fraud") + n("moderation")

\* ORDER BY created_at, id
Older(t, j, k) ==
  \/ rows[t][j].created_at < rows[t][k].created_at
  \/ rows[t][j].created_at = rows[t][k].created_at /\ j < k

RowsBefore(t, k) == Cardinality({j \in DOMAIN rows[t] : Older(t, j, k)})

\* ... LIMIT max_per_source
Fetched(t, max_per_source) == {k \in DOMAIN rows[t] : RowsBefore(t, k) < max_per_source}

TimelineItem(at, rank, source, row) == [at |-> at, rank |-> rank, source |-> source, row |-> row]

_timeline_order_rank(source, is_resolution) ==
  CASE source = "auction" -> 10
    [] source = "bid" -> 20
    [] source = "moderation" -> 40
    [] OTHER -> IF is_resolution THEN 50 ELSE 30

AuctionEvents ==
  {TimelineItem(0, _timeline_order_rank("auction", FALSE), "auction", 0)} \cup
  (IF starts_at = NotYet THEN {} ELSE {TimelineItem(starts_at, _timeline_order_rank("auction", FALSE), "auction", 1)})

\* A row is an event, and a resolved one is another: the older rows first.
TableEvents(t, fetched) ==
  {TimelineItem(rows[t][k].created_at, _timeline_order_rank(t, FALSE), t, RowsBefore(t, k)) : k \in fetched} \cup
  {TimelineItem(rows[t][k].resolved_at, _timeline_order_rank(t, TRUE), t, RowsBefore(t, k)) : k \in fetched \cap Resolved(t)}

_build_timeline_events(included, max_per_source) ==
  (IF "auction" \in included THEN AuctionEvents ELSE {}) \cup
  UNION {TableEvents(t, Fetched(t, max_per_source)) : t \in included \cap Tables}
-----------------------------------------------------------------------------
(* Pages.                                                                   *)

\* The order the sources are appended in, which sorting keeps for equal keys.
Appended == [auction |-> 1, bid |-> 2, complaint |-> 3, fraud |-> 4, moderation |-> 5]

Sorted(e, f) ==
  \/ e.at < f.at
  \/ e.at = f.at /\ e.rank < f.rank
  \/ e.at = f.at /\ e.rank = f.rank /\ Appended[e.source] < Appended[f.source]
  \/ e.at = f.at /\ e.rank = f.rank /\ e.source = f.source /\ e.row < f.row

\* timeline.sort: each event with its place.
InOrder(events) == {<<Cardinality({f \in events : Sorted(f, e)}), e>> : e \in events}

\* timeline[offset : offset + limit]
Slice(timeline, offset, limit) == {p \in timeline : p[1] \in offset..(offset + limit - 1)}

Bug_build_auction_timeline_page(included, page, limit) ==
  LET total == _count_timeline_events(included)
      offset == page * limit
  IN [items |-> IF offset >= total THEN {}
                ELSE Slice(InOrder(_build_timeline_events(included, limit)), offset, limit),
      total |-> total]

build_auction_timeline_page(included, page, limit) ==
  LET total == _count_timeline_events(included)
      offset == page * limit
      fetch_limit == IF (page + 1) * limit < total THEN (page + 1) * limit ELSE total
  IN [items |-> IF offset >= total THEN {}
                ELSE Slice(InOrder(_build_timeline_events(included, fetch_limit)), offset, limit),
      total |-> total]

\* The page shown: its rows, and whether it links to a next one.
auction_timeline(sources, page, limit) ==
  LET built == build_auction_timeline_page(_normalize_sources(sources), page, limit)
  IN [items |-> built.items,
      has_next |-> page * limit + Cardinality(built.items) < built.total]
-----------------------------------------------------------------------------
(* Property.                                                                *)

\* Paging loses nothing: the pages that follow one another by their links are
\* the whole timeline in its order, each event once, although a page is made
\* of the first rows of each source only, and the number of events is not
\* taken from what is built (build_auction_timeline_page).
TimelineIsWhole ==
  \A sources \in Filters, limit \in Limits :
    LET whole == InOrder(_build_timeline_events(_normalize_sources(sources), MaxRows))
        events == Cardinality(whole)
    IN \A page \in 0..(events \div limit + 1) :
         LET shown == auction_timeline(sources, page, limit)
         IN /\ shown.items = Slice(whole, page * limit, limit)
            /\ shown.has_next <=> (page + 1) * limit < events
=============================================================================
