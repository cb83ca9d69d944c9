------------------------------ MODULE Feedback ------------------------------
(***************************************************************************)
(* Bug reports and suggestions of users: the moderators' verdict, the       *)
(* points it earns, and the GitHub issue an approved item becomes.          *)
(* (src/app/services/feedback_service.py, outbox_service.py, and the grant  *)
(* of points_service.py; callbacks in src/app/bot/handlers/feedback.py.)    *)
(*                                                                         *)
(* A verdict, its reward and its outbox event are one transaction under the *)
(* item's row lock.  A worker's transaction locks the event and the item    *)
(* and stays open while it talks to GitHub, which does not roll back.       *)
(* Definitions Bug_... are for mutation runs only, as in module Auction.    *)
(***************************************************************************)
EXTENDS Naturals, Sequences, FiniteSets, Functions

CONSTANTS
  Items,                   \* rows of feedback_items
  Workers,                 \* passes of the outbox watcher
  Reward,                  \* what each item's type earns
  MaxAttempts,             \* tries before an event is given up
  RetryBase, RetryMax,     \* backoff: first wait and its cap
  NoEvent, NoJob,          \* the code's None
  MaxPresses, MaxRestarts  \* bounds of the model, not of the code

FeedbackAssumption ==
  /\ Reward \in [Items -> Nat]
  /\ MaxAttempts \in Nat \ {0}
  /\ RetryBase \in Nat \ {0} /\ RetryMax \in Nat /\ RetryMax >= RetryBase
  /\ NoEvent \notin [status : {"pending", "done", "failed"}, attempts : Nat, wait : Nat]
  /\ NoJob \notin [item : Items, filed : BOOLEAN]
  /\ MaxPresses \in Nat /\ MaxRestarts \in Nat

VARIABLES
  verdict,   \* on each item, "ABSENT" before it is sent in
  linked,    \* the item carries the address of its issue
  ledger,    \* points granted under each item's dedupe key
  outbox,    \* the event under each item's dedupe key
  presses,   \* moderation log: the buttons that took effect on each item
  filings,   \* moderation log: CREATE_FEEDBACK_GITHUB_ISSUE entries
  job,       \* the event and item a worker has locked
  issues,    \* issues GitHub holds for each item
  restarts   \* how often the bot died

feedback == <<verdict, linked, ledger, presses, filings>>
feedback_vars == <<feedback, outbox, job, issues, restarts>>

Statuses == {"ABSENT", "NEW", "IN_REVIEW", "APPROVED", "REJECTED"}
Buttons == {"take", "approve", "reject"}
Event == [status : {"pending", "done", "failed"}, attempts : 0..MaxAttempts, wait : 0..RetryMax]
Job == [item : Items, filed : BOOLEAN]

FeedbackInit ==
  /\ verdict = [i \in Items |-> "ABSENT"]
  /\ linked = [i \in Items |-> FALSE]
  /\ ledger = [i \in Items |-> 0]
  /\ outbox = [i \in Items |-> NoEvent]
  /\ presses = [i \in Items |-> <<>>]
  /\ filings = [i \in Items |-> 0]
  /\ job = [w \in Workers |-> NoJob]
  /\ issues = [i \in Items |-> 0]
  /\ restarts = 0

Locked(i) == \E w \in Workers : job[w] # NoJob /\ job[w].item = i
-----------------------------------------------------------------------------
(* Intake and verdicts.                                                    *)

create_feedback(i) ==
  /\ verdict[i] = "ABSENT"
  /\ verdict' = [verdict EXCEPT ![i] = "NEW"]
  /\ UNCHANGED <<linked, ledger, presses, filings, outbox, job, issues, restarts>>

\* on_conflict_do_nothing: the first row under a dedupe key stays.
grant_points(i) == ledger' = IF ledger[i] = 0 THEN [ledger EXCEPT ![i] = Reward[i]] ELSE ledger

enqueue_feedback_issue_event(i) ==
  outbox' = IF outbox[i] = NoEvent
              THEN [outbox EXCEPT ![i] = [status |-> "pending", attempts |-> 0, wait |-> 0]]
              ELSE outbox

take_feedback_in_review(i) ==
  /\ verdict[i] \in {"NEW", "IN_REVIEW"}
  /\ verdict' = [verdict EXCEPT ![i] = "IN_REVIEW"]
  /\ UNCHANGED <<ledger, outbox>>

approve_feedback(i) ==
  /\ verdict[i] \in {"NEW", "IN_REVIEW", "APPROVED"}
  /\ verdict' = [verdict EXCEPT ![i] = "APPROVED"]
  /\ IF verdict[i] = "APPROVED"
       THEN UNCHANGED <<ledger, outbox>>
       ELSE grant_points(i) /\ enqueue_feedback_issue_event(i)

\* Bug: an approved item can still be rejected.
Bug_reject_feedback(i) ==
  /\ verdict[i] # "ABSENT"
  /\ verdict' = [verdict EXCEPT ![i] = "REJECTED"]
  /\ UNCHANGED <<ledger, outbox>>

reject_feedback(i) ==
  /\ verdict[i] \in {"NEW", "IN_REVIEW", "REJECTED"}
  /\ verdict' = [verdict EXCEPT ![i] = "REJECTED"]
  /\ UNCHANGED <<ledger, outbox>>

\* A button that found nothing left to do is logged like one that did it.
feedback_callbacks(i, button) ==
  /\ ~Locked(i)
  /\ Len(presses[i]) < MaxPresses
  /\ \/ button = "take" /\ take_feedback_in_review(i)
     \/ button = "approve" /\ approve_feedback(i)
     \/ button = "reject" /\ reject_feedback(i)
  /\ presses' = [presses EXCEPT ![i] = Append(@, button)]
  /\ UNCHANGED <<linked, filings, job, issues, restarts>>
-----------------------------------------------------------------------------
(* The outbox worker.                                                      *)

_backoff_seconds(n) == LET grown == RetryBase * 2 ^ (n - 1) IN
  IF grown < RetryMax THEN grown ELSE RetryMax

_mark_outbox_done(i) ==
  outbox' = [outbox EXCEPT ![i].attempts = @ + 1, ![i].status = "done", ![i].wait = 0]

\* The backoff counts from the start of the pass: the time the call took is
\* off it, and a long call may have used it up.
_mark_outbox_retry_or_fail(i) ==
  LET n == outbox[i].attempts + 1 IN
  IF n >= MaxAttempts
    THEN outbox' = [outbox EXCEPT ![i] = [status |-> "failed", attempts |-> n, wait |-> 0]]
    ELSE \E left \in 0.._backoff_seconds(n) :
           outbox' = [outbox EXCEPT ![i] = [status |-> "pending", attempts |-> n, wait |-> left]]

\* Bug: a locked event is not skipped.
Bug_Claimable(i) ==
  outbox[i] # NoEvent /\ outbox[i].status = "pending" /\ outbox[i].wait = 0

\* Bug: only fresh events are looked for.
Bug_Claimable_fresh(i) ==
  outbox[i] # NoEvent /\ outbox[i].status = "pending" /\ outbox[i].attempts = 0 /\ ~Locked(i)

\* Events that can be taken: pending, their wait over, not locked by another
\* worker.  Which of them is oldest is left open.
Claimable(i) ==
  outbox[i] # NoEvent /\ outbox[i].status = "pending" /\ outbox[i].wait = 0 /\ ~Locked(i)

\* An item that has its issue, or is not approved, needs no call.
claim_event(w) ==
  /\ job[w] = NoJob
  /\ \E i \in Items :
       /\ Claimable(i)
       /\ IF verdict[i] # "APPROVED" \/ linked[i]
            THEN _mark_outbox_done(i) /\ UNCHANGED job
            ELSE job' = [job EXCEPT ![w] = [item |-> i, filed |-> FALSE]] /\ UNCHANGED outbox
  /\ UNCHANGED <<feedback, issues, restarts>>

\* GitHub creates the issue; its answer is not back yet.
create_issue(w) ==
  /\ job[w] # NoJob /\ ~job[w].filed
  /\ issues' = [issues EXCEPT ![job[w].item] = @ + 1]
  /\ job' = [job EXCEPT ![w].filed = TRUE]
  /\ UNCHANGED <<feedback, outbox, restarts>>

\* The answer arrives: address, log entry and event are committed together.
issue_is_linked(w) ==
  /\ job[w] # NoJob /\ job[w].filed
  /\ LET i == job[w].item IN
       /\ linked' = [linked EXCEPT ![i] = TRUE]
       /\ filings' = [filings EXCEPT ![i] = @ + 1]
       /\ _mark_outbox_done(i)
  /\ job' = [job EXCEPT ![w] = NoJob]
  /\ UNCHANGED <<verdict, ledger, presses, issues, restarts>>

\* The call raises: refused, unreachable, timed out or its answer malformed.
\* Only in the first two cases is it sure that there is no issue.
call_fails(w) ==
  /\ job[w] # NoJob
  /\ _mark_outbox_retry_or_fail(job[w].item)
  /\ job' = [job EXCEPT ![w] = NoJob]
  /\ UNCHANGED <<feedback, issues, restarts>>

\* Time passes for the events that wait.
BackoffTick ==
  /\ \E i \in Items : outbox[i] # NoEvent /\ outbox[i].wait > 0
  /\ outbox' = [i \in Items |->
       IF outbox[i] # NoEvent /\ outbox[i].wait > 0
         THEN [outbox[i] EXCEPT !.wait = @ - 1] ELSE outbox[i]]
  /\ UNCHANGED <<feedback, job, issues, restarts>>

\* The bot dies: the workers' transactions are rolled back, GitHub's is not.
bot_restarts ==
  /\ restarts < MaxRestarts
  /\ restarts' = restarts + 1
  /\ job' = [w \in Workers |-> NoJob]
  /\ UNCHANGED <<feedback, outbox, issues>>

Work(w) == claim_event(w) \/ create_issue(w) \/ issue_is_linked(w) \/ call_fails(w)

FeedbackNext ==
  \/ \E i \in Items : create_feedback(i) \/ \E button \in Buttons : feedback_callbacks(i, button)
  \/ \E w \in Workers : Work(w)
  \/ BackoffTick
  \/ bot_restarts

FeedbackSpec == FeedbackInit /\ [][FeedbackNext]_feedback_vars

\* The watcher's loop never stops, and every call to GitHub ends by its
\* timeout at the latest.
FairFeedbackSpec == FeedbackSpec /\ WF_feedback_vars(BackoffTick) /\ \A w \in Workers : WF_feedback_vars(Work(w))
-----------------------------------------------------------------------------
(* Properties.                                                             *)

\* Every variable keeps its type; an event is tried MaxAttempts times at most.
TypeOK ==
  /\ verdict \in [Items -> Statuses] /\ linked \in [Items -> BOOLEAN]
  /\ ledger \in [Items -> Nat] /\ outbox \in [Items -> Event \cup {NoEvent}]
  /\ presses \in [Items -> Seq(Buttons)] /\ filings \in [Items -> Nat]
  /\ job \in [Workers -> Job \cup {NoJob}] /\ issues \in [Items -> Nat]
  /\ restarts \in Nat

\* The verdict, the reward and the moderation log agree: points were granted
\* exactly for approved items, and the log never shows both verdicts.
RewardFollowsVerdict ==
  TypeOK /\ \A i \in Items :
    /\ ledger[i] = IF verdict[i] = "APPROVED" THEN Reward[i] ELSE 0
    /\ "approve" \in Range(presses[i]) <=> verdict[i] = "APPROVED"
    /\ "reject" \in Range(presses[i]) <=> verdict[i] = "REJECTED"

\* An item is linked to an issue at most once and never to one that does not
\* exist, whatever fails and however many workers run; a finished event has
\* left its item linked, a given up one has not.
LinkIsSound ==
  \A i \in Items :
    /\ filings[i] = IF linked[i] THEN 1 ELSE 0
    /\ linked[i] => verdict[i] = "APPROVED" /\ issues[i] > 0
    /\ linked[i] <=> outbox[i] # NoEvent /\ outbox[i].status = "done"

\* Every approved item is dealt with in the end: its issue is linked, or the
\* event is given up after its last attempt.
ApprovedIsSettled ==
  \A i \in Items :
    verdict[i] = "APPROVED" ~> outbox[i] # NoEvent /\ outbox[i].status \in {"done", "failed"}
=============================================================================
