# LiteAuction in TLA+

LiteAuction is a Telegram bot (aiogram) with a web admin panel (FastAPI) over one
PostgreSQL database and a Redis. Users publish lots in chats, bid by pressing
buttons, and moderators keep order. This directory holds TLA+ modules for the
parts whose correctness depends on the order in which processes act, TLC
configurations that check them on small instances, and proofs for every instance.
`PROJECT.json` lists components, runs, mutants, the source line of every
definition, findings, hazards and theorems.

## The system

Two processes share the database: the bot (`src/app/main.py`: update handlers and
three watcher loops in one event loop) and the admin panel (`src/app/web/main.py`).
Handlers of different chats run interleaved at every `await`; handlers of one user
in one chat are kept apart by `RedisEventIsolation`.

| part | state | operations | what makes it right |
|---|---|---|---|
| lot lifecycle (`auction_service`, `moderation_service`) | `auctions`, `bids`, `auction_posts`, `blacklist_entries`, `moderation_logs` | publish, bid, buyout, extend, expire, freeze, unfreeze, end, remove bid, ban, unban | the highest standing bid wins; bids rise; a closed lot is final; the end adds up; the audit trail explains the state; a lot closes in the end |
| moderation queue (`complaint_service`, `fraud_service`, `bot/handlers/moderation.py`) | `complaints`, `fraud_signals`, cards in the moderators' chat | report, score a bid, decide by button | a card is decided once; a card closed by a sanction got it |
| close notices (`bid_actions`, `moderation`, watcher) | messages in the memory of the sender | put together at the close, sent after the commit | told once, told the truth, told at all |
| feedback and outbox (`feedback_service`, `outbox_service`) | `feedback_items`, `points_ledger`, `integration_outbox`; issues at GitHub | send in, take, approve, reject; claim, call, retry, give up | one verdict, one reward; a link to an issue that exists; every approval settled |
| points economy (`points_service`, boosts) | `points_ledger` | grant, spend, boost, adjust | never below zero, limits and cooldowns kept |
| posts (`publish_auction`, `inline_auction`, refresh) | Telegram messages | publish, refresh, compensate | posts show the last state, no card without a lot |
| appeals and escalation | `appeals` | open, review, decide, escalate | one decision, escalated once |
| guarantor requests | `guarantor_requests` | open, assign, reject | one decision, logged |
| notification delivery (`notification_*_service`, `_notify_outbid`, `send_user_topic_message`) | preferences, snoozes, Redis keys | press in the settings; debounce, digest, decide, defer, take the count, send | a deferred notice told once at most; the debounce ends on time |
| private topics | `user_private_topics` | create, re-create, prune | one topic per purpose |
| lot wizard (`create_auction.py`) | two FSM keys in Redis, the board in the chat, `auctions` | a handler for each step, cancel, restart | it can always be finished; one lot each; the board is true |
| channel direct messages (`suggested_posts.py`, `chat_owner_guard_service`) | `suggested_post_reviews`, `chat_owner_service_events` | capture, alert, decide, confirm | a decision is final and is what Telegram did |
| roles and verification (`rbac_service`, `verification_service`) | allow lists, `user_role_assignments`, verifications, Telegram | grant, revoke, verify, unverify from bot and panel | Telegram and the database agree |
| seller gate (`risk_eval_service`, `publish_gate_service`) | none of its own | score, judge | what is held against a seller never helps him |
| queue presets and list preferences | four tables, telemetry | save, update, select, delete, default, open a page | no layout lost unasked; a page can be saved |
| runtime settings | `runtime_setting_overrides`, a cache in each process | override, delete, read | never older than the cache allows |
| trade feedback | `trade_feedback` | write, write anew, hide, unhide | the log tells what is hidden |
| moderation checklists | items, replies, a dictionary in memory | tick, ask, answer, cancel | the log tells what is ticked and answered |
| anti-fool gate (`anti_fool_service`) | Redis keys | cooldown, arm and confirm | presses are only turned away |
| timelines (`timeline_service`, `/timeline/auction/...`) | none of its own | put the events of five tables in order, cut out a page | the pages together are the whole timeline |
| metrics, dashboards, texts | counters | read, render | nothing else depends on them |

Parts interact through the database (row locks), through calls inside one
transaction (a bid scores itself, an approval grants points and enqueues an
event), and through messages sent after the commit.

**What is hard.** The clock is read before the row lock. The watcher scans without a
lock. Sessions hold on to rows loaded before a lock. Early returns inside
`session.begin()` commit. Notices and post edits happen after the commit and die
with the process. GitHub and Telegram do not roll back. Redis has no transactions here: what is
read by one call is changed by another. `PROJECT.json` lists each hazard at its
line.

## Atomicity: what one step of a model is

PostgreSQL runs at READ COMMITTED. A transaction that locks its main row
(`SELECT ... FOR UPDATE`) before it reads what it decides on, and keeps the lock up
to its commit, is one atomic step taken when the lock is granted. This holds for
every writer of a lot: `process_bid_action`, the watcher's second half,
`activate_*`, and the services behind the moderators' commands. `remove_bid` locks
the bid and then the lot; nobody else locks bids, so the order cannot deadlock, and
the next leader is read under the lot's lock. The blacklist is read by a bid
without a lock on it, so a ban may commit next to a bid: that is the order
"bid, then ban".

Reads *before* the lock are steps of their own: `receive_bid` (the clock),
`watcher_scan` (the selected ids), `load_complaint_view` and
`load_fraud_signal_view` (the identity map), `claim_event` (GitHub is called with the
event's and the item's rows locked), `load_auction_view` (a refresh).

No query of the code uses `populate_existing`. When a session already holds an
object, a later `SELECT ... FOR UPDATE` of the same row locks it but hands back the
object with its old attributes. The buttons under a complaint or a fraud signal
load lot and bid that way before `freeze_auction` and `remove_bid` lock them; module
`ModerationQueue` models exactly this (`Seen`, `Flushed`: an attribute set to the value
it was loaded with is not in the UPDATE). The lot's commands in `Auction` start with
a fresh session and lock first.

`upsert_user` updates the row of the acting user at the start of each handler's
transaction, so two transactions of one user run one after the other: that is why
`create_complaint`, which checks for an open complaint of the same user without any
other lock, is one step.

## Modules

### EnglishAuction — the abstract specification

An ascending auction: an offer must beat every standing one and may not come from
the seller or the leader; an offer at the buyout price closes; a moderator may hold,
release, withdraw an offer; the close is final and the award goes to the best offer
that stands, also after a withdrawal. No clock, no database, no processes.

### Auction — the lot

One lot. `status`, `starts_at`, `ends_at`, `extensions_used`, `winner` are columns of
`auctions`; `bids` the lot's bids in insertion order with their `removed` flag;
`banned` the users with an active blacklist entry; `audit` the lot's moderation log;
`posts` its registered messages; `calls` the bid call each worker is in with the
clock it read; `due` whether the watcher's scan selected the lot. Init is a draft
as `create_draft_auction` leaves it.

`process_bid_action` is the disjunction of what a call can come to:
`bid_is_turned_down`, `bid_finds_lot_expired`, `bid_is_placed`. The order of the
code's early returns is kept where it can be seen (expiry before everything that
refuses a person).

Abstractions: minutes are ticks of `now`; the duplicate window of 15 seconds is
taken as unlimited, and since bids rise strictly (`BidsClimbBelowBuyout`) the check
never fires for a bidder who is not leading, whatever the window; `CANCELLED` is left
out because no code sets it; prices are naturals, as far below 2^31 as the code's
`Integer` columns need; a ban has no expiry because no code writes one; the Redis
cooldown and the buyout confirmation let every call through, so every behaviour they
allow is included.

### ModerationQueue — complaints and fraud signals (extends Auction)

Rows of `complaints` and `fraud_signals`, and for each card the button transaction
that holds its lock together with the view it loaded. `report_*` and `risk_*` are the
branches of `mod_report_action` and `mod_risk_action`. A fraud score is
nondeterministic; that a second open signal of the same user within the window is
suppressed is modelled. The button that closed a card is kept in `note`. `action_triage_bulk` is the
panel's bulk form: it writes its verdict on each card that is ticked, whatever the card's status and
without its lock, so that only a button's open transaction can delay it. It carries out no sanction and
leaves the lot alone, so a card it closes is marked "bulk" in the model, and `DecisionsStand` says that
nothing but this form decides a card again.

### AuctionNotices — who is told about the close (extends Auction)

Each sender (bid workers, watcher, the moderator's `/end`) has the notices it still
has to send. The admin panel ends lots without notices. A restart drops what was not
sent. A send is taken as delivered; what the user's settings do to it is in `Delivery`.

### Feedback — verdicts, rewards, outbox, GitHub

Items with their verdict, the points under each dedupe key, the outbox event under
each dedupe key, the button presses that were logged, and the workers. A worker's
transaction is open from `claim_event` to `issue_is_linked` or `call_fails`; in between
`create_issue` happens at GitHub and stays whatever becomes of the transaction
(`bot_restarts`). The backoff counts from the start of the pass, so what is left of it
after a failed call is anything up to the full wait. The order in which events are
claimed is left open; the watcher is assumed to be switched on. When the answer of GitHub
is lost, the retry creates a second issue: the code carries no idempotency key. The
model allows it, and `LinkIsSound` shows that the item then links to an issue that
exists and was created for it.

### Casework — guarantor requests and appeals

Requests are assigned or rejected, appeals reviewed and decided; each is one
transaction under the row's lock, so one action. The watcher's pass is three kinds
of step: the overdue appeals are marked and logged in one transaction
(`escalate_overdue_appeals`), then announced one by one (`send_escalation`), and what
is not announced when the bot dies or a send raises is lost
(`escalation_pass_is_lost`). The web admin's single forms are the same actions as the
buttons. Its bulk form (`action_triage_bulk`) takes several appeals in one transaction, passes over
those that are closed, and writes no entry in the moderation log; the history variable `unlogged` holds
the appeals it decided. `LogTellsTheCase` says that the log holds no verdict but the one a case got, once and from who
took it, and that it holds the verdict of every case decided one by one; of the appeals decided in bulk it does
not say that they are logged. What the repository expects, an entry for every decision, is `DecisionIsLogged`, which `cases_bulk`
shows to be violated. `CaseNext` takes the set of cases another transaction has locked: none in
the run of its own, those of the boosts in `PointsEconomy`. The intake cooldown of
requests lets everything through.

### PointsEconomy — the ledger and the boosts (extends Casework)

`ledger` holds the rows of `points_ledger` with their dedupe key, owner, amount and
time; `boosted` is `priority_boosted_at`. The three boosts are one transaction each, and
the same one but for the statuses they allow and their settings, so they are modelled
once, with the kind of the case as a parameter. `command_boost` begins the
transaction, `redeem_is_checked` locks the case, reads the clock and looks up every
limit, `spend_points` reads the balance, books the price and marks the case, and
`boost_is_rolled_back` is an error in between.

Why the limits hold is not to be seen in the boost: none of the rows it counts is
locked, and `spend_points` locks the user's row long after the limits were read. But
`upsert_user` has set `updated_at` of the user's row before, the session flushes that
with its next query, and the UPDATE keeps the row locked until the commit. Two boosts
of one user are therefore serial, and so are a boost and a moderator's correction
(`SELECT ... FOR UPDATE`); rewards are not, and only add points. The mutants of
`command_boost` and `mod_points` drop this lock and break `BoostLimitsHold` and
`BoostLeavesMinimum`.

### LotPosts — the cards of a lot in the chats

The lot is the abstract `EnglishAuction` (by INSTANCE): `Auction` implements it, and a
refresh only needs to know that the lot changes. A card goes through check and gate
(`publish_is_checked`, `publish_gate_refuses`: the gate's verdict is left open), is sent
with the look of a draft, and is registered by `activate_auction_chat_post` or
`activate_auction_inline_post` under the lot's lock. A chat card that comes second is
taken back; an inline card is registered whatever has become of the lot.

Whoever commits a change asks for a refresh. `load_auction_view` reads the lot's row,
`load_bids_and_posts` its bids and posts by later statements of a READ COMMITTED
transaction, so a view may be torn; then the posts are edited one by one, and a slow
handler may overwrite a newer look with an older one. The code does not prevent that,
so `lost` keeps, for each card, the latest version the card was due but does not show,
and `PostsFollowTheLot` says that nothing else makes a post stay behind: a post
registered, or a change committed, between the statements of a refresh is picked up by
the refresh that follows it. `failures` counts edits, activations and deletions
that fail, and handlers that die.

### PrivateTopics — the sections of a user's private chat

One user. `rows` is `user_private_topics` with at most one row for a purpose, `topics` and
`gone` are the topics at Telegram, `tx` what each transaction that runs
`ensure_user_private_topics` is at: it looks at the rows, at the user's rights, makes
what is missing (`create_forum_topic`, then `insert_topic`, which waits for an
uncommitted row of the same purpose and is undone by a committed one), looks at the
rows again, deletes what is redundant and commits. After it a message goes to its
section, or to the chat at large when Telegram turns that down. Commands run the same
transaction to find their section; when it is undone they fail. The user's and the
bot's settings and their caches are the nondeterministic `topics_are_left_alone`; the
retry without a message effect is part of the attempt; `trades` is treated like `points`.

Two messages for one user can each make a topic of a kind: no lock keeps them apart
(`upsert_user` locks the user in commands only). `TopicsAreRegistered` says how far this
goes, and `SectionsStay` that the sections in use survive it; both are about a Telegram
that does what it is asked, because a transaction that has seen no rows, fails to make
a topic and then looks at the rows again prunes what another has just registered.

### Delivery — whether a notice reaches its user

One user and one lot. `prefs` is the row of `user_notification_preferences`, `snooze` the pause
of the lot, `redis` the keys of this user (the debounce, the digest's count and emit key, a
count of deferred notices per event), `call` the place a notice is at. Each call to Redis is
a step, because others come in between; the SELECTs of a decision are one. A key with a
deadline is `[n, end]`, and `Kept` drops it when the clock reaches it; a key made by INCR has no
deadline until EXPIRE. `redis_fails` follows the code: the debounce lets the error out, so the notice is
lost, the others log it and go on. A call may also have been carried out when its answer is lost: for the SET NX of
debounce and digest this is `set_answer_is_lost`, for GETDEL a disjunct of `pop_deferred_notification_count`, and for INCR and EXPIRE it
comes to a success of the call, after INCR with a failure of EXPIRE. A debounce set that way is held for its whole time although no
notice was let through; `hist.lost` keeps when, and `SilenceIsBounded` bounds the silence after either. `restart` loses the notices under way. The hour is
`now % Day`, in a user's time zone by `prefs.offset`; `is_within_quiet_hours` covers intervals that wrap
around midnight.

### LotWizard — entering a lot

One user in one chat; `RedisEventIsolation` gives one handler at a time. `state` and `data` are the two
keys of the FSM, and a handler is dispatched on `state`. What it still has to do is `todo`: every
write of a key, every call to Telegram and the commit is a step, and `crash` drops the
rest. A board is shown by `upsert_create_wizard_progress`: not at all when the remembered text is the
same, otherwise posted anew, edited or sent, in that order, each of which may fail once.
Texts are the step, what the hint is about and the number of photos. Numbers other than prices
are flags, and a second failure or crash is beyond the bound. `spoilt.reopened` counts the crashes after which a
committed lot left its step behind (`draft_is_not_cleared`): only these let the last button make another lot, and
`OneDraftPerWizard` allows one for each and none for a crash or a failed call anywhere else.

### ChannelDesk — suggested posts and owner events

`review` and `event` are the two tables, `alerts` what was committed and not yet announced, `post` what
Telegram holds. `handlers`, `passes` and `first_handler` model how the router finds a handler. A decision
is three steps with the row locked: checks, the call to Telegram, the commit; the call may
take effect without an answer and the bot may be killed in between. Since no suggestion is
ever queued (see Findings), the decisions are checked from rows that an older release may
have left: `Init` lets each review be absent or PENDING.

### Verification — roles, scopes and the verified mark

`resolve_allowlist_role` and `resolve_tg_user_scopes` differ: the bot counts roles of the database, the
panel does not. A request calls Telegram, then locks or inserts the row, then commits; two first
requests about one target meet at the unique key. Overlapping requests, a kill after the call and
a lost answer leave mark and row apart, and nothing ever compares them: `spoilt` holds the targets for
which that happened, until a request has gone through alone, and `VerificationAgrees` says that
nothing else does. Users and chats have a table each and the same code.

### SellerGate — score and verdict

The facts are rows other parts write, so any one may change at any time. `marks`, `score` and `level` are
`evaluate_user_risk_snapshot`, threshold by threshold.

### RuntimeSettings — overrides and their cache

One key. The panel writes `row` in two steps (look, write), the bot's coroutines read it through a
cache that expires by the clock as read before the query. `since` is when each value was last in force. A write sets
the value whether or not it differs from the one read (the ORM would leave an equal one out of its UPDATE).

### QueuePresets — the layouts of the panel's queues

Presets, selections, the default and preferences are rows; a request is a step that reads and a step that
writes, and a third that records telemetry in a transaction of its own. Between reading and writing
another tab may have changed everything, so `insert_preset` can meet a unique key, and `overwrite_preset` a row that is
gone (StaleDataError). `overwritten` is the ORM's rule that a column is written when it differs from the value
read. `Releases` are the columns of the table before and after a deployment. `Those` is the comprehension
`[x for x in s if x in S]`, written by the places of what is kept so that it can be proved about. `closed_without_commit`: list pages
open their session without `begin()`, so what `resolve_queue_preset_state` writes there is undone.

### TradeFeedback — what the parties say of each other

Authors lock the lot and then their entry, moderators the entry. An entry keeps its status when written
anew. The bulk form changes several entries in one transaction without an entry in the log; `trade_unlogged`
counts what it did, so that `LogTellsVisibility` can say that log and bulk forms together tell what is
hidden.

### Checklists — ticks and replies

Two items, several moderators, each of whom has a handler per chat. A tick reads without a lock;
`upsert_user` keeps two transactions of one moderator apart. `pending` is the dictionary in memory: a reply is
taken for what it holds, and it is dropped after the commit, whatever is asked for by then. It is
lost by a restart. `reply_arrives` exists for the private chat only (see Findings).

### Timeline — the pages of a lot's history

`rows` are the lot's rows in four tables. A row's time is the start of the transaction that adds it, so rows
do not come in the order of their times; a signal, and a complaint by the bulk form, is resolved again at
a later time. `_build_timeline_events` takes the first rows of each source, `_count_timeline_events` counts
the events without building them, and `auction_timeline` shows a page and the link to the next. Sorting is
the place of an event among those that come before it (`Sorted`, `InOrder`), with ties as the stable sort
of the code leaves them. That a page needs no more than the first `(page + 1) * limit` rows of each source,
although a row gives one event or two, is what `TimelineIsWhole` checks. It rests on a row never being resolved
before it is created, so on bot and database having one clock and on the time zone of the session being UTC
(`created_at` is `TIMEZONE('utc', NOW())`). A page is read at one instant: pages read one after another while
rows are added may repeat or pass over an event.

### MCUserSide, MCPanel and MCCases — several components in one run

The components of each share no state, so a product would multiply states and show nothing. The
constant `Parts` names those a configuration checks, the initial state chooses one of them (`part`),
and only that one moves. Every property is about one component and holds trivially of the others' initial
states, so such a run checks what one run for each of them would. Each component's formulas carry its name
(`DeskSpec`, `WizardInit`, `SettingsNext`, ...), so that the composing module extends all of them and the
properties checked are those the theorems are about. A theorem about such a component is stated of its own
specification (`SettingsSpec` and so on); a state of the composed run is a state of the component that moves
next to the others' initial states.

### The proof modules

`AuctionProofs`, `NoticesProofs` and `QueueProofs` are about the lot, who is told of its close, and the queue;
`PointsEconomyProofs` about cases, ledger and boosts; `PostsProofs` about the cards in the chats; `FeedbackProofs`
about reports and trade feedback; `PanelProofs` about settings, the gate, checklists, verification, presets and timelines;
`UserSideProofs` about the desk, the wizard, the delivery and the sections of a chat. See below for what they prove.

## Runs

| run | instance | shows |
|---|---|---|
| `auction_safety` | 2 bidders, 2 workers, buyout at 3, 3 bids, 2 audit entries, 4 ticks, 1 extension | `TypeOK`, `HighestLiveBidderWins`, `BidsClimbBelowBuyout`, `EndIsAccountedFor`, `ClosedIsFinal`, `ImplementsEnglishAuction` |
| `queue_safety` | 1 bidder, 2 bids, 1 complaint, 1 signal, 2 audit entries | `SanctionsAreOnFile`, `SanctionsAreCarriedOut`, `DecisionsStand` |
| `notices` | 2 bidders, 1 worker, watcher, moderator, panel, 2 bids, 2 audit entries, 5 ticks, fair clock, watcher and sender | `AnnouncedOnce`, `WinNoticesAreTrue`, `AuditExplainsState`, `RunningLotCloses` |
| `points` | 1 user, 2 feedback items and 2 requests, 2 handlers, 1 correction, days of 3 ticks, 4 ticks | `BoostLimitsHold`, `BoostIsPaidFor`, `BoostLeavesMinimum` |
| `user_side` | wizard: 3 kinds of chat, 2 prices, 1 photo, 1 crash and 1 failing call; delivery: 2 notices at a time, 3 in all, 1 press, 3 ticks, every fault; sections: 2 transactions, 4 topics, 3 changes of rights, 1 failure; desk: 2 posts, 2 events, 2 moderators, 1 crash | `WizardIsComplete`, `OneDraftPerWizard`, `BoardIsCurrent`; `DeferredIsToldOnce`, `SilenceIsBounded`; `TopicsAreRegistered`, `MessagesComeInTheirSection`, `SectionsStay`; `ReviewsStand` |
| `panel` | presets: 2 requests at a time, 3 in all, 2 subjects, 3 layouts, 2 releases; verification: a user and a chat, a request of the bot and one of the panel; settings: 2 readers, 1 writer, 3 ticks; gate: counts to 4; checklist: 2 items, 2 moderators, 2 presses each; posts: 1 inline card, 1 handler, 2 offers, 1 failure, and either 2 `/publish` commands (symmetric) with 2 changes or 1 command with 3 (the publication is one) | `PageCanBeSaved`, `SavedWorkIsKept`; `VerificationAgrees`; `CacheIsFresh`; `MarksNeverHelp`; `ChecklistIsOnFile`; `CardsAreAccountedFor`, `PostsFollowTheLot` |
| `cases` | casework: 1 request, 2 appeals, 2 moderators, batches of 1, 3 ticks, fair clock and watcher; feedback: 2 items (one worth points), 2 workers, 3 attempts, 2 presses, 1 restart, fair workers; trade feedback: 3 authors, 2 transactions, 2 log entries of a kind; timeline: 3 rows, 2 ticks, 3 filters, pages of 1 and 2 | `LogTellsTheCase`, `AppealsAreFollowedUp`; `RewardFollowsVerdict`, `LinkIsSound`, `ApprovedIsSettled`; `LogTellsVisibility`; `TimelineIsWhole` |
| `queue_freeze` | 2 bidders, buyout, 1 complaint | finding: `FreezesOnlyRunningLot` is violated |
| `notices_close` | 1 worker | finding: `CloseIsAnnounced` is violated |
| `topics_regrant` | 1 transaction at a time | finding: `ModeratorsHaveTheirSection` is violated |
| `desk_suggestions` | the desk of `user_side` | finding: `SuggestionsAreQueued` is violated |
| `cases_bulk` | the appeals of `cases` | finding: `DecisionIsLogged` is violated |

The type invariant of a module is a conjunct of the first safety invariant of its run
(`SanctionsAreOnFile`, `AnnouncedOnce`, `BoostLimitsHold`, `CardsAreAccountedFor`, `TopicsAreRegistered`,
`LogTellsTheCase`, `RewardFollowsVerdict`, `PageCanBeSaved`).

Further configurations, to be run by hand: `Auction_timer.cfg` (MCAuction), `Delivery_digest.cfg` (MCDelivery) and
`QueuePresets_entry.cfg` (MCQueuePresets) each show a violation, see Findings; two check a component with
larger bounds and further properties: `Delivery.cfg` (MCDelivery) has `NoticesAddUp` and `PresetsMeanWhatTheySay`, which is about the
presets of the notification settings, `QueuePresets.cfg` (MCQueuePresets) has `TelemetryIsTrue`.

**Bounds.** `MaxTime`, `MaxBids`, `MaxAudit`, `MaxComplaints`, `MaxSignals`, `MaxPresses`
and `MaxRestarts` bound the model, not the code. Two bidders and two workers are
enough for every race between two bids; three bids allow outbidding, a removal and a
later bid that repeats an amount. In `auction_safety` the buyout price of 3 is met by
the second raise; in `notices` the price of 4, with a first raise to 2 and multipliers 1
and 3, is reached exactly, jumped over and missed. The clock reaches the
end of the lot with every extension used (a conjunct of `Activate` makes sure of it,
so that the run with liveness, `notices`, is not cut short by the bound). `HighestLiveBidderWins`,
`BidsClimbBelowBuyout`, `ClosedIsFinal`, `EndIsAccountedFor` and the refinement do not
rest on the bounds: they are proved for all of them.

In `points` a correction and two rewards give more than the boosts can use up, and
every limit that is set turns a boost down somewhere that the others would let
through: two boosts and 5 points a day, 7 points a week, a tick between any two
boosts and two between two guarantor boosts, a minimum balance of 1 and minimum
earnings of 4. Midnight falls inside the run (ticks 0 to 2 and 3 to 4). The weekly
count and the monthly cap are off: they are the daily count and the weekly cap with
another period. Appeals are left out of this run (their boost differs from the other
two by the statuses it allows); handlers, items and requests are symmetric. One user
is enough, as nothing in a boost reads the rows of another. In `cases` one of two
appeals that are overdue at the same time has to wait for the next batch, and a
review moves a deadline before and after the escalation; the request moves in a run of its own, since it
shares nothing with the appeals. In the timeline three rows give up to eight events with the two of the lot,
so a page of two may need rows of one source, of several, and fewer than there are; ties in time come
in every combination.

Among the posts two commands are the race for the one registered chat card, with an inline card
next to either and a change after the publication that an edit may miss; this is one part of `panel` (`cards`). In the other
(`posts`) one command is left out and there is a change more, so a refresh may fall behind two newer versions of the lot. The
publishers' own refreshes run next to the worker's, so three refreshes overlap in both.

For the sections two transactions are enough for every race for the one row of a purpose; four
topics are the three sections and a stray one; a second grant lets the rights
change between any two looks at them; the failure strikes at any call.

In the wizard one photo is the limit, so both a photo that counts and one too many occur; two
prices give a buyout below, at and above the start; one crash and one failing call may strike
anywhere, also both. In the delivery the debounce lasts two ticks, the digest's window three,
the day four, with one interval that wraps around midnight; of three notices two can overlap
and a third can follow. In the presets, two requests overlap and a third prepares them; one
layout is lawful, one shows no column and is legal to save too, one belongs to the second release only. In
the gate every combination of facts is reached; counts matter up to the threshold of 3.
In the cache a time to live of one tick and three ticks let a slow query outlive a fast one.

`notices` has one bid worker, so that two rulings and all extensions fit: of two bid
calls the second finds the lot closed, as it does after the watcher or a moderator.

`CHECK_DEADLOCK FALSE` is in every configuration because the bounded clock and the
bounded numbers of bids, log entries and presses let the model stop where the code
would go on.

**Fairness.** The clock runs. `run_auction_watcher` loops for ever, sleeps between
scans, catches every exception, and is started with the bot, so the scan is weakly
fair; a restart may cut a pass short again and again but not always, hence strong
fairness of `watcher_finalize`. Its sends end, so they are weakly fair. The outbox worker's steps are weakly fair for the same
reason, and so is the loop of the appeal watcher, which catches every exception and
sleeps; GitHub calls end by their 15 second timeout, and restarts are bounded. Nobody
else (users, moderators) is assumed to do anything.

## What is proved

Every theorem holds for all values of the constants that satisfy the named assumption of its module, which the
runs evaluate for theirs. Bounds like `MaxBids` are constants too: the theorems hold for any bound.

### The lot (`AuctionProofs`, `NoticesProofs`; `AuctionAssumption`, `SendersAssumption`)

| theorem | statement |
|---|---|
| `TypeCorrect` | `Spec => []TypeOK` |
| `AwardIsRight` | `Spec => []HighestLiveBidderWins` |
| `LadderIsSound` | `Spec => []BidsClimbBelowBuyout` |
| `EndAddsUp` | `Spec => []EndIsAccountedFor` |
| `HammerFallsOnce` | `Spec => ClosedIsFinal` |
| `LotImplementsAuction` | `Spec => ImplementsEnglishAuction` |
| `TrailExplainsLot` | `Spec => []AuditExplainsState` |
| `AnnouncedLotIsALot` | `NoticesSpec => Spec` |
| `CloseIsAnnouncedOnce` | `NoticesSpec => []AnnouncedOnce` |
| `WinnersAreToldTheTruth` | `NoticesSpec => []WinNoticesAreTrue` |

The inductive invariant `IInv` is `TypeOK`, `HighestLiveBidderWins`,
`BidsClimbBelowBuyout` and `Timed` (a published lot has a start and an end, a draft has
no bids). `HighestLiveBidderWins` is not inductive alone: a buyout awards the lot to the
caller without looking at the bids, which is right only because the buyout price
exceeds every standing bid of a running lot, the second half of `BidsClimbBelowBuyout`.
Conversely the ladder needs the current price to be the top of the live bids and the
early return for duplicates is never needed. For `EndIsAccountedFor` the invariant is
strengthened by `EInv`, which adds that a draft has no extensions and names the forced end; for the refinement by `AboveStart` (every standing bid is at
least the asking price). The lemmas say what `Top` is on a non-empty set of live bids
(a well-founded choice among finitely many rows), what appending a bid above the
current price does to it, and what removing a row does.

The audit trail needs in addition (`AInv`) that entries about removals name bids that exist: a removal appends
its entry and strikes its bid in one transaction, so the number of entries about a bid is one when it is struck
and none otherwise. Counting the entries of a sequence with one appended is done once, for any kind of entry, and used by
the queue as well.

The notices rest on `NInv`: nobody has anything to say before the close, the seller's notice goes first, a
notice is at one place only (sent, or in the hands of one sender), and each goes to the seller, to the winner on
record, or to a user whose bid was struck since. It needs `HammerFallsOnce`, since a notice put together at the close is sent later; the other
invariants of the lot carry over because the senders run the lot (`AnnouncedLotIsALot`).

### The queue (`QueueProofs`; `QueueAssumption`)

| theorem | statement |
|---|---|
| `SanctionsAreExplained` | `QueueSpec => []SanctionsAreOnFile` |
| `CardsAreDecidedOnce` | `QueueSpec => DecisionsStand` |
| `ClosedCardsAreCarriedOut` | `QueueSpec => []SanctionsAreCarriedOut` |

A stale view can put the wrong winner on record and reopen a finished lot (the finding of `queue_freeze`), so nothing
of what `AuctionProofs` shows of the award or of climbing bids holds here and none of it is used: the
types are proved anew for every step of the lot and of the cards, and from them the rest. `LInv` says that
the log explains what is frozen, banned and struck. `QInv` adds what is known while a card's button is under way: its card
is open and locked by nobody else, and a bid its view takes for removed is removed (`ViewsArePast`).
`CInv` counts: for each sanction the log has at least as many entries as cards were closed by it, and the bid of a card
closed by striking it, or by banning its bidder, is struck. Closing a card raises the count by one in the transaction that
appends the entry.

### Cases, points, boosts (`PointsEconomyProofs`; `CaseworkAssumption`, `PointsAssumption`)

| theorem | statement |
|---|---|
| `LogIsComplete` | `CaseSpec => []LogTellsTheCase` |
| `LimitsAreKept` | `Spec => []BoostLimitsHold` |
| `MarksArePaidFor` | `Spec => []BoostIsPaidFor` |
| `MinimumIsLeft` | `Spec => BoostLeavesMinimum` |

`CaseInv` says, for each kind of case, which entries its log has in which state; alerts and the appeals the bulk form
decided are tied to the state in the same way. Spec of the boosts is that of `PointsEconomy`, whose steps include those of the
cases under the locks of open boosts.

`PInv` is about what a boost between its checks and its payment has been promised (`Promised`): the
limits it looked up still hold. They do because the user's row is locked: no other boost and no correction of that user is
under way (`OneCall`), and rewards only add. The sums over the ledger (points of a day, of a week, the balance) are sums over finite sets of
rows; that one more row adds its amount, and that no row is taken twice, is shown by taking a smallest counterexample,
since the library's induction theorems cannot be instantiated with these provers. The dedupe key of a boost is that of its mark:
`BoostIsPaidFor` needs that a marked case has exactly one row and that a rolled back boost left neither.

### Cards in the chats (`PostsProofs`; `PostsAssumption`)

| theorem | statement |
|---|---|
| `EveryCardIsAccountedFor` | `Spec => []CardsAreAccountedFor` |
| `EveryPostFollowsTheLot` | `Spec => []PostsFollowTheLot` |

Versions of the lot are counted. `PostsInv` says for each registered card who answers for the newest version: the
card shows it, or has lost it, or a handler is still to load the lot, or has loaded this very version and not come to the
card yet; the exception is the first card of a lot whose own publisher failed after the commit. A handler that has loaded
the row at the newest version loads the bids of that version, since a later change would have made it an old one. A step of a handler passes
the duty on (asked, loaded, edited) or turns it into a loss; a new version is the duty of whoever committed it.

### Reports and trade feedback (`FeedbackProofs`; `FeedbackAssumption`)

| theorem | statement |
|---|---|
| `RewardsFollowVerdicts` | `FeedbackSpec => []RewardFollowsVerdict` |
| `LinksAreSound` | `FeedbackSpec => []LinkIsSound` |
| `HiddenIsLogged` | `TradeSpec => []LogTellsVisibility` |

`FeedbackInv` adds to the properties that an item has an event from its approval on, that a pending event has tries left
(`EventsFollowVerdicts`), and that a worker holds, alone, a pending event whose issue, if GitHub was reached, exists
(`JobsAreHeld`). The backoff doubles with each try; that `2 ^ n` is a number is had from the subsets of an interval. For
the trade feedback what a transaction read under its lock is still there, and nobody else has that lock: so the
comparison with the status it read decides correctly whether to write to the log.

### The panel's components (`PanelProofs`)

| theorem | statement | assumption |
|---|---|---|
| `CacheStaysFresh` | `SettingsSpec => []CacheIsFresh` | `SettingsAssumption` |
| `GateIsFair` | `GateSpec => MarksNeverHelp` | `GateAssumption` |
| `ChecklistStaysOnFile` | `ChecklistSpec => []ChecklistIsOnFile` | `ChecklistAssumption` |
| `MarksAgree` | `VerificationSpec => []VerificationAgrees` | `VerificationAssumption` |
| `WorkStaysSaved` | `PresetsSpec => SavedWorkIsKept` | none |
| `PagesCanBeSaved` | `PresetsSpec => []PageCanBeSaved` | `PresetsAssumption` |
| `PagesAreWhole` | `TimelineSpec => []TimelineIsWhole` | `TimelineAssumption` |

- *Cache.* A value in the cache, or in the hands of a coroutine, is in force or gave way no earlier
  than the clock the coroutine read. That is so because the clock is read before the row: a value
  stored late has an earlier deadline, not a later one.
- *Gate.* No invariant but the type: the proof is about `score`. A ban or an open signal weighs
  more than the bonus that it costs a verified seller, and the cap at 100 preserves the order.
- *Checklist.* An open question has been asked once more than it was answered (`Owed`), unless its answer
  is being dropped. This is why `pop_pending` has to drop whatever is asked for by then: otherwise a
  second answer to the same question could be saved.
- *Verification.* A request that nothing has spoilt is alone at its target, and once it has called, Telegram has what
  it is about to write. So mark and row can be apart only between call and commit, or after an overlap, a kill or a lost answer.
- *Presets.* What a save or an update found may be gone when it writes, but it is never another row: ids are
  not given twice (`PresetRowsInv`), and no statement changes an owner or a name. So the right to write, checked when
  the row was read, is still good (`RequestIsSound`), and the insert of a save can only add a row. That a page can be
  saved rests on what a filter gives (`ThoseAre`: those of a list that are in a set, each of them once) and on
  `LayoutsInv`: a stored layout names no column twice, whichever columns those were, and the default is a preset that
  exists, since its deletion sets it to NULL. The assumption says that layouts are lists of names, and that a
  release names its columns once.
- *Timeline.* The place of an event is the number of those before it, so the argument is about the size of finite
  sets (`PlacesAreTaken`: in a set that is in order every place is taken by one element). An event of a row
  that was not fetched has, of its own table alone, as many before it as the fetch allowed: each older row was created before
  it (`OlderRowsComeFirst`). So what is left out comes after the page, and the first ones keep their
  places (`FirstOnesStayFirst`, `PageOfAPart`). The number of events is what was counted, because events of two sources
  differ and so do those of two rows (`WholeIsCounted`); the link to the next page follows from how many
  places a page has (`PageIsFilled`). The invariant, `TimelineInv`, says that a row was created no later than it was
  resolved, and that only cases are resolved.

### What users meet (`UserSideProofs`)

| theorem | statement | assumption |
|---|---|---|
| `DecisionsStandAtTheDesk` | `DeskSpec => ReviewsStand` | none |
| `WizardsCanBeFinished` | `WizardSpec => []WizardIsComplete` | `WizardAssumption` |
| `WizardMakesOneLot` | `WizardSpec => []OneDraftPerWizard` | `WizardAssumption` |
| `BoardShowsTheStep` | `WizardSpec => []BoardIsCurrent` | `WizardAssumption` |
| `PutOffIsToldOnce` | `DeliverySpec => []DeferredIsToldOnce` | `DeliveryAssumption` |
| `SilenceEnds` | `DeliverySpec => []SilenceIsBounded` | `DeliveryAssumption` |
| `RegistersAgree` | `TopicsSpec => []TopicsAreRegistered` | `TopicsAssumption` |
| `SectionsAreKept` | `TopicsSpec => SectionsStay` | `TopicsAssumption` |
| `MessagesAreRouted` | `TopicsSpec => MessagesComeInTheirSection` | `TopicsAssumption` |

- *Desk.* Who decides holds the lock of a PENDING review, alone, and what he is about to note is what
  Telegram did. When the bot is killed between the call and the commit the review stays PENDING;
  a second call is refused by Telegram and noted as FAILED, so nothing untrue is noted.
- *Wizard.* The bot may be killed before any of the calls in `todo`, so the invariant speaks about the calls that are
  still to do: wherever they stop, the data in Redis suffice for the step in Redis (`Careful`); a lot that was
  committed is about to clear its wizard, unless a crash took that away and is counted (`DraftsAreCounted`); a board is shown in the step it is about, and noted at once (`Timely`).
  While nothing has failed the user has the board that is remembered, or a call to do is about to note or delete the other
  one (`Tidy`), and it shows the step or is about to (`StepIsShown`).
- *Delivery.* For each kind of notice, what was told, what Redis counts and what workers have in hand is at most what
  was put off (`Accounted`). It is inductive with `Placed`: a worker has a count in hand only once it has taken it out of
  Redis. Notices may be any number, but only finitely many are under way. The sum of what they have in hand is a fold that takes
  them in an order of its own; that one of them can be taken out of the sum, and that nobody else's part changes when
  one call moves on, is had by a smallest counterexample again. The debounce ends on time since
  only a notice that finds it gone sets it, and either is let through or is the one whose answer is lost.
- *Sections.* Several transactions make and delete topics of one chat, and see each other's rows only once
  they are committed. `TopicsInv` says that topics are registered for what they were made for, that what a transaction has
  made is in no row yet (`Locks`: the insert of a row waits for the transaction that holds its unique key), and that no two of them
  have made the same topic or hold the same row (`Apart`). As long as no call has failed, more holds: what a
  transaction knows of the sections is in the rows or made by itself, and it does not delete that (`UpToDate`); and rows come in the
  order auctions, support, moderation (`InOrder`). So a transaction that the unique key turns away has
  made nothing else by then, and undoing it loses no topic that counts. A topic is therefore in a row, in the hands of one transaction,
  or a second one for a purpose that has a row (`NoneIsLost`). The assumption says that `Nowhere` is not a thread.

### Only model-checked

- Liveness (`RunningLotCloses`, `ApprovedIsSettled`, `AppealsAreFollowedUp`): fairness and ENABLED are beyond the prover.
- The properties of the configurations to be run by hand.

## Findings

1. `Auction_timer.cfg`: the watcher closes a lot whose end a late bid has just moved out
   (`auction_service.py:817`; `README.md:18` promises the extension).
2. `queue_freeze`: a card's freeze button turns a bought out lot back into a frozen one.
3. `notices_close`: a raise that reaches the buyout price, or finds the lot expired,
   closes it and tells nobody.
4. `topics_regrant`: a moderator who was dismissed and appointed again never gets a
   moderation section, and each command that looks for one fails.
5. `desk_suggestions`: no suggested post is ever put before the moderators. The handler of
   owner events (`suggested_posts.py:152`) has the same filter, is declared before, and takes
   every message of every supergroup. `suggested_posts_router` also comes before
   `moderation_router` (`bot/handlers/__init__.py:29`), so a reply to a checklist item, for which the prompt
   asks "в чат модерации" (`moderation.py:3039`), never reaches `mod_checklist_reply_message`
   from that group; from a private chat it does.
6. `cases_bulk`: the bulk form decides appeals without an entry in the moderation log, which the single
   forms and the buttons write (`web/main.py:4799`); `docs/release/rc-1-manual-qa-matrix.md:24` expects "Appeal decision
   writes moderation audit trail".

Others are in the models without a run of their own:

- The buyout button pressed on an expired lot announces a buyout, although the lot ended for
  the previous leader (`handle_buyout_action` in `AuctionNotices`; `bid_actions.py:680` does not
  know which of the two its call came to).
- A lost answer of GitHub makes a second issue (`Feedback`).
- `Delivery_digest.cfg`: outbids may be suppressed again and again and no digest follows, because the
  emit key may outlive the count of the next window, though
  `docs/release/sprint-44-notification-digest-mode.md:13` promises "one digest message for that window".
- `QueuePresets_entry.cfg`: the default preset a first entry selects is not kept, because list pages
  never commit their session (`admin_queue_presets_service.py:560`, `web/main.py:2111`).
- A list preference stored before a release dropped a column makes its page fail
  (`resolve_queue_preset_state`, the branch without a change).
- Of two tabs that delete the selected preset the second applies the fallback although the first
  asked to keep the current layout (`delete_preset_writes`).
- The bulk form hides reviews of traders without an entry in the moderation log, which the single
  forms write (`web/main.py:4774`). It overwrites complaints and signals that were decided before
  (`web/main.py:4739`), and two bulk forms that tick the same rows in opposite orders can deadlock (PostgreSQL
  undoes one of them).
- The publish gate counts every active blacklist entry, expired or not, and is asked in an earlier
  transaction than the one that activates the lot (`publish_auction.py:118`).

## Not modelled

- `metrics`, dashboards, keyboards, texts and the exporters: they read or format, and
  nothing else depends on them. The counters of `notification_metrics_service` are in `Delivery`
  as how many notices were sent and suppressed.
- Cooldown and confirmation of the anti-fool gate: they only turn presses away, and the models
  let every press through.
- The heuristics of the fraud score: whether a bid raises a signal is left open.
- Sessions, tokens and confirmation pages of the admin panel, and its list pages, which read.
- Notices of freeze, unfreeze and removed bids, which are sent after the commit like those of
  the close.
