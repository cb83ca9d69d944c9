--------------------------- MODULE FeedbackProofs ---------------------------
(***************************************************************************)
(* Proofs about modules Feedback and TradeFeedback: what a report earns and   *)
(* the issue it becomes, for any number of reports, workers, tries, presses   *)
(* and restarts; and what the moderation log and the bulk forms say of hidden *)
(* feedback, for any number of authors, transactions and ratings.            *)
(***************************************************************************)
EXTENDS Feedback, TradeFeedback, TLAPS, FiniteSetTheorems
-----------------------------------------------------------------------------
(* Reports of users (module Feedback).                                      *)

\* Whether an item has an event, and of which status.
EventIs(i, s) == outbox[i] # NoEvent /\ outbox[i].status = s

\* An event is there from the approval on, and is given up after its last try.
EventsFollowVerdicts ==
  \A i \in Items :
    /\ outbox[i] # NoEvent <=> verdict[i] = "APPROVED"
    /\ EventIs(i, "pending") => outbox[i].attempts < MaxAttempts

\* A worker has an event to itself that is still to be dealt with.
JobsAreHeld ==
  /\ \A w \in Workers : job[w] # NoJob =>
       /\ EventIs(job[w].item, "pending")
       /\ job[w].filed => issues[job[w].item] > 0
  /\ \A v, w \in Workers :
       job[v] # NoJob /\ job[w] # NoJob /\ job[v].item = job[w].item => v = w

FeedbackInv ==
  /\ RewardFollowsVerdict /\ LinkIsSound
  /\ EventsFollowVerdicts /\ JobsAreHeld

\* Powers of two are numbers: so many sets has an interval.
LEMMA PowerIsANumber ==
  ASSUME NEW n \in Nat
  PROVE  2 ^ n \in Nat
<1>1. IsFiniteSet(1..n) /\ Cardinality(1..n) = n
  BY FS_Interval, 1 \in Int, n \in Int
<1>2. IsFiniteSet(SUBSET (1..n)) /\ Cardinality(SUBSET (1..n)) = 2 ^ n
  BY <1>1, FS_SUBSET
<1> QED
  BY <1>2, FS_CardinalityType

\* The wait for the next try is within its cap.
LEMMA BackoffIsCapped ==
  ASSUME FeedbackAssumption, NEW n \in Nat \ {0}, NEW left \in 0.._backoff_seconds(n)
  PROVE  left \in 0..RetryMax
<1> DEFINE p == 2 ^ (n - 1)
<1>1. p \in Nat
  BY PowerIsANumber, n - 1 \in Nat
<1> HIDE DEF p
<1>2. RetryBase * p \in Nat
  BY <1>1 DEF FeedbackAssumption
<1> DEFINE grown == RetryBase * p
<1>3. _backoff_seconds(n) = IF grown < RetryMax THEN grown ELSE RetryMax
  BY DEF _backoff_seconds, p
<1>4. grown \in Nat /\ RetryMax \in Nat
  BY <1>2 DEF FeedbackAssumption
<1> HIDE DEF grown
<1> QED
  BY <1>3, <1>4

\* What a button adds to the log of an item.
LEMMA ButtonIsLogged ==
  ASSUME NEW s \in Seq(Buttons), NEW b \in Buttons
  PROVE  Append(s, b) \in Seq(Buttons) /\ Range(Append(s, b)) = Range(s) \cup {b}
<1>1. Append(s, b) \in Seq(Buttons) /\ DOMAIN Append(s, b) = 1..Len(s) + 1 /\ Len(s) \in Nat
      /\ DOMAIN s = 1..Len(s)
  OBVIOUS
<1>2. \A k \in 1..Len(s) + 1 : Append(s, b)[k] = IF k = Len(s) + 1 THEN b ELSE s[k]
  OBVIOUS
<1> QED
  BY <1>1, <1>2 DEF Range

\* At first there is no feedback.
LEMMA FeedbackInitInv ==
  ASSUME FeedbackAssumption, FeedbackInit
  PROVE  FeedbackInv
<1>1. TypeOK
  BY DEF FeedbackInit, TypeOK, Statuses
<1>2. RewardFollowsVerdict
  BY <1>1 DEF FeedbackInit, RewardFollowsVerdict, Range
<1>3. LinkIsSound /\ EventsFollowVerdicts /\ JobsAreHeld
  BY DEF FeedbackInit, LinkIsSound, EventsFollowVerdicts, JobsAreHeld, EventIs
<1> QED
  BY <1>2, <1>3 DEF FeedbackInv

\* What the invariant says of the parts of the state an action leaves alone.
LEMMA TypesOfItems ==
  ASSUME FeedbackInv, NEW i \in Items
  PROVE  /\ verdict[i] \in Statuses /\ ledger[i] \in Nat /\ presses[i] \in Seq(Buttons)
         /\ outbox[i] \in Event \cup {NoEvent} /\ linked[i] \in BOOLEAN /\ issues[i] \in Nat
         /\ filings[i] \in Nat
BY DEF FeedbackInv, RewardFollowsVerdict, TypeOK

\* A new item has no verdict, no reward, no event.
LEMMA FeedbackIsSentIn ==
  ASSUME FeedbackAssumption, FeedbackInv, NEW i \in Items, create_feedback(i)
  PROVE  FeedbackInv'
<1> USE DEF create_feedback
<1>1. TypeOK /\ i \in DOMAIN verdict /\ verdict[i] = "ABSENT"
  BY DEF FeedbackInv, RewardFollowsVerdict, TypeOK
<1>2. TypeOK'
  BY <1>1 DEF TypeOK, Statuses
<1>3. \A k \in Items : verdict'[k] = IF k = i THEN "NEW" ELSE verdict[k]
  BY <1>1 DEF TypeOK
<1>4. RewardFollowsVerdict'
  BY <1>1, <1>2, <1>3 DEF FeedbackInv, RewardFollowsVerdict
<1>5. LinkIsSound'
  BY <1>1, <1>3 DEF FeedbackInv, LinkIsSound
<1>6. EventsFollowVerdicts' /\ JobsAreHeld'
  BY <1>1, <1>3 DEF FeedbackInv, EventsFollowVerdicts, JobsAreHeld, EventIs
<1> QED
  BY <1>4, <1>5, <1>6 DEF FeedbackInv

\* The event an approval enqueues.
Enqueued == [status |-> "pending", attempts |-> 0, wait |-> 0]

\* What a press does to its item, whichever the button: it only ever approves
\* an item that was neither approved nor rejected.
Pressed(i, b) ==
  \/ b = "take" /\ verdict[i] \notin {"APPROVED", "REJECTED", "ABSENT"}
     /\ verdict' = [verdict EXCEPT ![i] = "IN_REVIEW"] /\ UNCHANGED <<ledger, outbox>>
  \/ b = "reject" /\ verdict[i] \notin {"APPROVED", "ABSENT"}
     /\ verdict' = [verdict EXCEPT ![i] = "REJECTED"] /\ UNCHANGED <<ledger, outbox>>
  \/ b = "approve" /\ verdict[i] = "APPROVED" /\ UNCHANGED <<verdict, ledger, outbox>>
  \/ /\ b = "approve" /\ verdict[i] \notin {"APPROVED", "REJECTED", "ABSENT"}
     /\ verdict' = [verdict EXCEPT ![i] = "APPROVED"]
     /\ ledger' = [ledger EXCEPT ![i] = Reward[i]]
     /\ outbox' = [outbox EXCEPT ![i] = Enqueued]

\* What a press of a button does to its item.
LEMMA ButtonsPress ==
  ASSUME FeedbackAssumption, FeedbackInv, NEW i \in Items, NEW b \in Buttons,
         feedback_callbacks(i, b)
  PROVE  Pressed(i, b)
<1>1. TypeOK /\ verdict \in [Items -> Statuses] /\ ledger \in [Items -> Nat] /\ Reward[i] \in Nat
  BY DEF FeedbackInv, RewardFollowsVerdict, TypeOK, FeedbackAssumption
<1>2. ledger[i] = IF verdict[i] = "APPROVED" THEN Reward[i] ELSE 0
  BY DEF FeedbackInv, RewardFollowsVerdict
<1>3. outbox[i] # NoEvent <=> verdict[i] = "APPROVED"
  BY DEF FeedbackInv, EventsFollowVerdicts
<1>4. CASE b = "take" /\ take_feedback_in_review(i)
  BY <1>4 DEF take_feedback_in_review, Pressed
<1>5. CASE b = "reject" /\ reject_feedback(i)
  BY <1>5 DEF reject_feedback, Pressed
<1>6. CASE b = "approve" /\ approve_feedback(i)
  <2>1. CASE verdict[i] = "APPROVED"
    <3>1. verdict' = [verdict EXCEPT ![i] = "APPROVED"] /\ UNCHANGED <<ledger, outbox>>
      BY <1>6, <2>1 DEF approve_feedback
    <3>2. verdict' = verdict
      BY <3>1, <2>1, <1>1
    <3> QED
      BY <1>6, <2>1, <3>1, <3>2 DEF Pressed
  <2>2. CASE verdict[i] # "APPROVED"
    <3>1. verdict[i] \in {"NEW", "IN_REVIEW"} /\ verdict' = [verdict EXCEPT ![i] = "APPROVED"]
      BY <1>6, <2>2 DEF approve_feedback
    <3>2. grant_points(i) /\ enqueue_feedback_issue_event(i)
      BY <1>6, <2>2 DEF approve_feedback
    <3>3. ledger' = [ledger EXCEPT ![i] = Reward[i]]
      BY <3>2, <1>2, <2>2 DEF grant_points
    <3>4. outbox' = [outbox EXCEPT ![i] = Enqueued]
      BY <3>2, <1>3, <2>2 DEF enqueue_feedback_issue_event, Enqueued
    <3> QED
      BY <1>6, <3>1, <3>3, <3>4 DEF Pressed
  <2> QED
    BY <2>1, <2>2
<1> QED
  BY <1>4, <1>5, <1>6 DEF feedback_callbacks

\* A press keeps the invariant.
LEMMA ButtonKeeps ==
  ASSUME FeedbackAssumption, FeedbackInv, NEW i \in Items, NEW b \in Buttons,
         feedback_callbacks(i, b)
  PROVE  FeedbackInv'
<1>1. Pressed(i, b) /\ ~Locked(i)
  BY ButtonsPress DEF feedback_callbacks
<1>2. presses' = [presses EXCEPT ![i] = Append(presses[i], b)] /\ UNCHANGED <<linked, filings, job, issues, restarts>>
  BY DEF feedback_callbacks
<1>3. TypeOK /\ verdict \in [Items -> Statuses] /\ ledger \in [Items -> Nat] /\ Reward[i] \in Nat
      /\ presses \in [Items -> Seq(Buttons)] /\ outbox \in [Items -> Event \cup {NoEvent}]
  BY DEF FeedbackInv, RewardFollowsVerdict, TypeOK, FeedbackAssumption
<1>4. Enqueued \in Event /\ Enqueued # NoEvent
  BY DEF Enqueued, Event, FeedbackAssumption
<1>5. /\ Append(presses[i], b) \in Seq(Buttons)
      /\ Range(Append(presses[i], b)) = Range(presses[i]) \cup {b}
  BY <1>3, ButtonIsLogged
<1>6. /\ presses' \in [Items -> Seq(Buttons)]
      /\ Range(presses'[i]) = Range(presses[i]) \cup {b}
      /\ \A k \in Items \ {i} : presses'[k] = presses[k]
  BY <1>2, <1>3, <1>5
<1>7. /\ verdict' \in [Items -> Statuses] /\ ledger' \in [Items -> Nat]
      /\ outbox' \in [Items -> Event \cup {NoEvent}]
      /\ \A k \in Items \ {i} : verdict'[k] = verdict[k] /\ ledger'[k] = ledger[k] /\ outbox'[k] = outbox[k]
  BY <1>1, <1>3, <1>4 DEF Pressed, Statuses
<1>8. TypeOK'
  BY <1>2, <1>3, <1>6, <1>7 DEF TypeOK
<1>9. RewardFollowsVerdict'
  <2>1. ASSUME NEW k \in Items
        PROVE  /\ ledger'[k] = IF verdict'[k] = "APPROVED" THEN Reward[k] ELSE 0
               /\ "approve" \in Range(presses'[k]) <=> verdict'[k] = "APPROVED"
               /\ "reject" \in Range(presses'[k]) <=> verdict'[k] = "REJECTED"
    <3>1. /\ ledger[k] = IF verdict[k] = "APPROVED" THEN Reward[k] ELSE 0
          /\ "approve" \in Range(presses[k]) <=> verdict[k] = "APPROVED"
          /\ "reject" \in Range(presses[k]) <=> verdict[k] = "REJECTED"
      BY DEF FeedbackInv, RewardFollowsVerdict
    <3>2. CASE k # i
      BY <3>1, <3>2, <1>6, <1>7
    <3>3. CASE k = i
      BY <3>1, <3>3, <1>1, <1>3, <1>6 DEF Pressed
    <3> QED
      BY <3>2, <3>3
  <2> QED
    BY <2>1, <1>8 DEF RewardFollowsVerdict
<1>10. ASSUME NEW k \in Items
       PROVE  /\ verdict[k] = "APPROVED" => verdict'[k] = "APPROVED" /\ outbox'[k] = outbox[k]
              /\ outbox'[k] # outbox[k] => outbox'[k] = Enqueued /\ outbox[k] = NoEvent
              /\ outbox'[k] # NoEvent <=> verdict'[k] = "APPROVED"
  <2>1. outbox[k] # NoEvent <=> verdict[k] = "APPROVED"
    BY DEF FeedbackInv, EventsFollowVerdicts
  <2>2. CASE k # i
    BY <2>1, <2>2, <1>7
  <2>3. CASE k = i
    BY <2>1, <2>3, <1>1, <1>3, <1>4 DEF Pressed
  <2> QED
    BY <2>2, <2>3
<1>11. LinkIsSound'
  BY <1>2, <1>10 DEF FeedbackInv, LinkIsSound, Enqueued
<1>12. EventsFollowVerdicts'
  BY <1>10 DEF FeedbackInv, EventsFollowVerdicts, EventIs, Enqueued, FeedbackAssumption
<1>13. JobsAreHeld'
  <2>1. ASSUME NEW w \in Workers, job[w] # NoJob
        PROVE  job[w].item \in Items
    BY <2>1, <1>3 DEF TypeOK, Job
  <2>2. ASSUME NEW k \in Items, EventIs(k, "pending")
        PROVE  EventIs(k, "pending")'
    BY <2>2, <1>10 DEF EventIs
  <2> QED
    BY <2>1, <2>2, <1>2 DEF FeedbackInv, JobsAreHeld
<1> QED
  BY <1>9, <1>11, <1>12, <1>13 DEF FeedbackInv

\* What a worker does to the event of its item: it is over, or tried again later.
FinishedEvent(e) == [e EXCEPT !.attempts = e.attempts + 1, !.status = "done", !.wait = 0]
Retried(e, f) ==
  /\ f \in Event /\ f.status \in {"pending", "failed"}
  /\ f.status = "pending" => f.attempts < MaxAttempts

\* All of the event is written anew.
LEMMA EventIsRewritten ==
  ASSUME NEW e \in Event, NEW n \in 0..MaxAttempts, 0 \in 0..RetryMax
  PROVE  /\ [e EXCEPT !.attempts = n, !.status = "done", !.wait = 0] \in Event
         /\ [e EXCEPT !.attempts = n, !.status = "done", !.wait = 0].status = "done"
BY DEF Event

\* A finished event is done for good.
LEMMA EventIsFinished ==
  ASSUME FeedbackAssumption, FeedbackInv, NEW i \in Items, EventIs(i, "pending"), _mark_outbox_done(i)
  PROVE  /\ outbox' = [outbox EXCEPT ![i] = FinishedEvent(outbox[i])]
         /\ FinishedEvent(outbox[i]) \in Event /\ FinishedEvent(outbox[i]).status = "done"
         /\ FinishedEvent(outbox[i]) # NoEvent
<1>1. outbox \in [Items -> Event \cup {NoEvent}] /\ outbox[i] \in Event /\ outbox[i].attempts < MaxAttempts
  BY DEF FeedbackInv, RewardFollowsVerdict, TypeOK, EventsFollowVerdicts, EventIs
<1>2. MaxAttempts \in Nat /\ RetryMax \in Nat /\ outbox[i].attempts \in 0..MaxAttempts
  BY <1>1 DEF Event, FeedbackAssumption
<1>3. outbox[i].attempts + 1 \in 0..MaxAttempts
  BY <1>1, <1>2
<1>4. FinishedEvent(outbox[i]) \in Event /\ FinishedEvent(outbox[i]).status = "done"
  <2> DEFINE n == outbox[i].attempts + 1
  <2>1. n \in 0..MaxAttempts /\ 0 \in 0..RetryMax
    BY <1>2, <1>3
  <2> HIDE DEF n
  <2>2. /\ [outbox[i] EXCEPT !.attempts = n, !.status = "done", !.wait = 0] \in Event
        /\ [outbox[i] EXCEPT !.attempts = n, !.status = "done", !.wait = 0].status = "done"
    BY <2>1, <1>1, EventIsRewritten
  <2> QED
    BY <2>2 DEF n, FinishedEvent
<1>5. NoEvent \notin Event
  BY DEF FeedbackAssumption, Event
<1>6. outbox' = [outbox EXCEPT ![i] = FinishedEvent(outbox[i])]
  BY DEF _mark_outbox_done, FinishedEvent
<1> QED
  BY <1>4, <1>5, <1>6

\* An event whose call failed is tried later or given up.
LEMMA EventIsRetried ==
  ASSUME FeedbackAssumption, FeedbackInv, NEW i \in Items, EventIs(i, "pending"),
         _mark_outbox_retry_or_fail(i)
  PROVE  \E f : Retried(outbox[i], f) /\ outbox' = [outbox EXCEPT ![i] = f]
<1>1. outbox[i] \in Event /\ outbox[i].attempts < MaxAttempts
  BY DEF FeedbackInv, RewardFollowsVerdict, TypeOK, EventsFollowVerdicts, EventIs
<1> DEFINE n == outbox[i].attempts + 1
<1>2. MaxAttempts \in Nat /\ RetryMax \in Nat /\ n \in 0..MaxAttempts /\ n \in Nat \ {0}
  BY <1>1 DEF Event, FeedbackAssumption
<1>3. CASE n >= MaxAttempts
  <2> DEFINE f == [status |-> "failed", attempts |-> n, wait |-> 0]
  <2>1. outbox' = [outbox EXCEPT ![i] = f]
    BY <1>3 DEF _mark_outbox_retry_or_fail
  <2>2. Retried(outbox[i], f)
    BY <1>2 DEF Retried, Event
  <2> QED
    BY <2>1, <2>2
<1>4. CASE ~(n >= MaxAttempts)
  <2>1. PICK left \in 0.._backoff_seconds(n) :
          outbox' = [outbox EXCEPT ![i] = [status |-> "pending", attempts |-> n, wait |-> left]]
    BY <1>4 DEF _mark_outbox_retry_or_fail
  <2>2. left \in 0..RetryMax
    BY <1>2, BackoffIsCapped
  <2>3. n < MaxAttempts
    BY <1>2, <1>4
  <2> DEFINE f == [status |-> "pending", attempts |-> n, wait |-> left]
  <2>4. Retried(outbox[i], f)
    BY <1>2, <2>2, <2>3 DEF Retried, Event
  <2> QED
    BY <2>1, <2>4
<1> QED
  BY <1>3, <1>4

\* What an event that waits may become while no verdict and no link changes.
EventMoves(e, f) ==
  /\ f \in Event
  /\ f.status # "done"
  /\ f.status = "pending" => f.attempts < MaxAttempts

\* Of the outbox alone: the other parts of the invariant stay.
LEMMA EventChangesAlone ==
  ASSUME FeedbackAssumption, FeedbackInv, NEW i \in Items, NEW f, EventMoves(outbox[i], f),
         EventIs(i, "pending"), outbox' = [outbox EXCEPT ![i] = f],
         UNCHANGED <<feedback, issues, restarts>>,
         NEW w \in Workers, job[w] # NoJob, job[w].item = i, job' = [job EXCEPT ![w] = NoJob]
  PROVE  FeedbackInv'
<1> USE DEF feedback
<1>1. TypeOK /\ outbox \in [Items -> Event \cup {NoEvent}] /\ job \in [Workers -> Job \cup {NoJob}]
      /\ NoEvent \notin Event
  BY DEF FeedbackInv, RewardFollowsVerdict, TypeOK, FeedbackAssumption, Event
<1>2. /\ outbox' \in [Items -> Event \cup {NoEvent}] /\ outbox'[i] = f
      /\ \A k \in Items \ {i} : outbox'[k] = outbox[k]
  BY <1>1 DEF EventMoves
<1>3. /\ job' \in [Workers -> Job \cup {NoJob}] /\ job'[w] = NoJob
      /\ \A v \in Workers \ {w} : job'[v] = job[v]
  BY <1>1
<1>4. TypeOK'
  BY <1>1, <1>2, <1>3 DEF TypeOK
<1>5. RewardFollowsVerdict'
  BY <1>4 DEF FeedbackInv, RewardFollowsVerdict
<1>6. f # NoEvent /\ outbox[i] # NoEvent /\ f.status # "done" /\ outbox[i].status = "pending"
  BY <1>1 DEF EventMoves, EventIs
<1>7. LinkIsSound'
  BY <1>2, <1>6 DEF FeedbackInv, LinkIsSound
<1>8. EventsFollowVerdicts'
  BY <1>2, <1>6 DEF FeedbackInv, EventsFollowVerdicts, EventIs, EventMoves
<1>9. JobsAreHeld'
  <2>1. ASSUME NEW v \in Workers, job'[v] # NoJob
        PROVE  v # w /\ job'[v] = job[v] /\ job[v].item \in Items \ {i}
    <3>1. v # w /\ job'[v] = job[v]
      BY <2>1, <1>3
    <3>2. job[v].item # i
      BY <2>1, <3>1 DEF FeedbackInv, JobsAreHeld
    <3> QED
      BY <2>1, <3>1, <3>2, <1>1 DEF Job
  <2> QED
    BY <2>1, <1>2 DEF FeedbackInv, JobsAreHeld, EventIs
<1> QED
  BY <1>5, <1>7, <1>8, <1>9 DEF FeedbackInv

\* A call to GitHub that fails keeps the invariant.
LEMMA CallFailureKeeps ==
  ASSUME FeedbackAssumption, FeedbackInv, NEW w \in Workers, call_fails(w)
  PROVE  FeedbackInv'
<1> DEFINE i == job[w].item
<1>1. job[w] # NoJob /\ i \in Items /\ EventIs(i, "pending")
  BY DEF FeedbackInv, RewardFollowsVerdict, TypeOK, Job, JobsAreHeld, call_fails
<1>2. _mark_outbox_retry_or_fail(i) /\ job' = [job EXCEPT ![w] = NoJob]
      /\ UNCHANGED <<feedback, issues, restarts>>
  BY DEF call_fails
<1> HIDE DEF i
<1>3. PICK f : Retried(outbox[i], f) /\ outbox' = [outbox EXCEPT ![i] = f]
  BY <1>1, <1>2, EventIsRetried
<1>4. EventMoves(outbox[i], f)
  BY <1>3 DEF Retried, EventMoves
<1>5. job[w].item = i
  BY DEF i
<1> QED
  BY <1>1, <1>2, <1>3, <1>4, <1>5, EventChangesAlone

\* So does one that makes an issue, whatever becomes of the answer.
LEMMA IssueKeeps ==
  ASSUME FeedbackAssumption, FeedbackInv, NEW w \in Workers, create_issue(w)
  PROVE  FeedbackInv'
<1> USE DEF feedback
<1> DEFINE i == job[w].item
<1>1. job[w] # NoJob /\ job[w] \in Job /\ i \in Items /\ TypeOK
  BY DEF FeedbackInv, RewardFollowsVerdict, TypeOK, Job, create_issue
<1>2. /\ issues' = [issues EXCEPT ![i] = issues[i] + 1]
      /\ job' = [job EXCEPT ![w].filed = TRUE]
      /\ UNCHANGED <<verdict, linked, ledger, presses, filings, outbox, restarts>>
  BY DEF create_issue
<1>3. job \in [Workers -> Job \cup {NoJob}] /\ issues \in [Items -> Nat]
  BY <1>1 DEF TypeOK
<1>4. /\ job' \in [Workers -> Job \cup {NoJob}] /\ NoJob \notin Job
      /\ \A v \in Workers : /\ (job'[v] = NoJob) <=> (job[v] = NoJob)
                            /\ job[v] # NoJob => job'[v].item = job[v].item
                            /\ v # w => job'[v] = job[v]
  <2>1. NoJob \notin Job
    BY DEF FeedbackAssumption, Job
  <2>2. [job[w] EXCEPT !.filed = TRUE] \in Job /\ [job[w] EXCEPT !.filed = TRUE].item = job[w].item
    BY <1>1 DEF Job
  <2>3. job' = [job EXCEPT ![w] = [job[w] EXCEPT !.filed = TRUE]]
    BY <1>2
  <2> DEFINE j == [job[w] EXCEPT !.filed = TRUE]
  <2>4. j \in Job /\ j.item = job[w].item /\ job' = [job EXCEPT ![w] = j]
    BY <2>2, <2>3
  <2> HIDE DEF j
  <2>5. job'[w] = j /\ \A v \in Workers \ {w} : job'[v] = job[v]
    BY <2>4, <1>3
  <2>6. job' \in [Workers -> Job \cup {NoJob}]
    BY <2>4, <1>3
  <2> QED
    BY <2>1, <2>4, <2>5, <2>6, <1>1
<1>5. /\ issues' \in [Items -> Nat] /\ issues'[i] > 0
      /\ \A k \in Items : issues[k] > 0 => issues'[k] > 0
  BY <1>1, <1>2, <1>3
<1>6. TypeOK'
  BY <1>1, <1>2, <1>4, <1>5 DEF TypeOK
<1>7. RewardFollowsVerdict'
  BY <1>2, <1>6 DEF FeedbackInv, RewardFollowsVerdict
<1>8. LinkIsSound' /\ EventsFollowVerdicts'
  BY <1>2, <1>5 DEF FeedbackInv, LinkIsSound, EventsFollowVerdicts, EventIs
<1>9. JobsAreHeld'
  <2>1. ASSUME NEW v \in Workers, job'[v] # NoJob
        PROVE  /\ outbox'[job'[v].item] # NoEvent /\ outbox'[job'[v].item].status = "pending"
               /\ job'[v].filed => issues'[job'[v].item] > 0
    <3>1. job[v] # NoJob /\ job'[v].item = job[v].item /\ job[v].item \in Items
      BY <2>1, <1>3, <1>4 DEF Job
    <3>2. outbox'[job'[v].item] # NoEvent /\ outbox'[job'[v].item].status = "pending"
      BY <3>1, <1>2 DEF FeedbackInv, JobsAreHeld, EventIs
    <3>3. CASE v = w
      BY <3>1, <3>2, <3>3, <1>5
    <3>4. CASE v # w
      BY <3>1, <3>2, <3>4, <1>4, <1>5 DEF FeedbackInv, JobsAreHeld
    <3> QED
      BY <3>3, <3>4
  <2>2. ASSUME NEW u \in Workers, NEW v \in Workers,
               job'[u] # NoJob, job'[v] # NoJob, job'[u].item = job'[v].item
        PROVE  u = v
    BY <2>2, <1>4 DEF FeedbackInv, JobsAreHeld
  <2> QED
    BY <2>1, <2>2 DEF JobsAreHeld, EventIs
<1> QED
  BY <1>7, <1>8, <1>9 DEF FeedbackInv

\* An event that waits belongs to an approved item without an issue on file.
LEMMA PendingIsUnlinked ==
  ASSUME FeedbackInv, NEW i \in Items, EventIs(i, "pending")
  PROVE  verdict[i] = "APPROVED" /\ linked[i] = FALSE /\ filings[i] = 0
BY DEF FeedbackInv, RewardFollowsVerdict, TypeOK, LinkIsSound, EventsFollowVerdicts, EventIs

\* So does taking an event.
LEMMA ClaimKeeps ==
  ASSUME FeedbackAssumption, FeedbackInv, NEW w \in Workers, claim_event(w)
  PROVE  FeedbackInv'
<1> USE DEF feedback
<1>1. PICK i \in Items : /\ Claimable(i)
                         /\ IF verdict[i] # "APPROVED" \/ linked[i]
                              THEN _mark_outbox_done(i) /\ UNCHANGED job
                              ELSE /\ job' = [job EXCEPT ![w] = [item |-> i, filed |-> FALSE]]
                                   /\ UNCHANGED outbox
  BY DEF claim_event
<1>2. EventIs(i, "pending") /\ ~Locked(i)
  BY <1>1 DEF Claimable, EventIs
<1>3. verdict[i] = "APPROVED" /\ ~linked[i]
  BY <1>2, PendingIsUnlinked
<1> DEFINE j == [item |-> i, filed |-> FALSE]
<1>4. job' = [job EXCEPT ![w] = j] /\ UNCHANGED <<outbox, verdict, linked, ledger, presses, filings, issues, restarts>>
  BY <1>1, <1>3 DEF claim_event
<1>5. TypeOK /\ job \in [Workers -> Job \cup {NoJob}]
  BY DEF FeedbackInv, RewardFollowsVerdict, TypeOK
<1>6. j \in Job /\ j.item = i /\ j.filed = FALSE
  BY DEF Job
<1> HIDE DEF j
<1>7. job' \in [Workers -> Job \cup {NoJob}] /\ job'[w] = j /\ \A v \in Workers \ {w} : job'[v] = job[v]
  BY <1>4, <1>5, <1>6
<1>8. TypeOK'
  BY <1>4, <1>5, <1>7 DEF TypeOK
<1>9. RewardFollowsVerdict' /\ LinkIsSound' /\ EventsFollowVerdicts'
  BY <1>4, <1>8 DEF FeedbackInv, RewardFollowsVerdict, LinkIsSound, EventsFollowVerdicts, EventIs
<1>10. \A v \in Workers \ {w} : job[v] # NoJob => job[v].item # i
  BY <1>2 DEF Locked
<1>11. JobsAreHeld'
  BY <1>2, <1>4, <1>6, <1>7, <1>10 DEF FeedbackInv, JobsAreHeld, EventIs
<1> QED
  BY <1>9, <1>11 DEF FeedbackInv

\* So does the link to the issue.
LEMMA LinkKeeps ==
  ASSUME FeedbackAssumption, FeedbackInv, NEW w \in Workers, issue_is_linked(w)
  PROVE  FeedbackInv'
<1> DEFINE i == job[w].item
<1>1. job[w] # NoJob /\ i \in Items /\ EventIs(i, "pending") /\ issues[i] > 0
  BY DEF FeedbackInv, RewardFollowsVerdict, TypeOK, Job, JobsAreHeld, issue_is_linked
<1>2. /\ linked' = [linked EXCEPT ![i] = TRUE]
      /\ filings' = [filings EXCEPT ![i] = filings[i] + 1]
      /\ _mark_outbox_done(i)
      /\ job' = [job EXCEPT ![w] = NoJob]
      /\ UNCHANGED <<verdict, ledger, presses, issues, restarts>>
  BY DEF issue_is_linked
<1>3. TypeOK /\ job \in [Workers -> Job \cup {NoJob}] /\ outbox \in [Items -> Event \cup {NoEvent}]
      /\ linked \in [Items -> BOOLEAN] /\ filings \in [Items -> Nat]
  BY DEF FeedbackInv, RewardFollowsVerdict, TypeOK
<1>4. verdict[i] = "APPROVED" /\ linked[i] = FALSE /\ filings[i] = 0
  BY <1>1, PendingIsUnlinked
<1>5. job[w].item = i
  OBVIOUS
<1> HIDE DEF i
<1> DEFINE e == FinishedEvent(outbox[i])
<1>6. outbox' = [outbox EXCEPT ![i] = e] /\ e \in Event /\ e.status = "done" /\ e # NoEvent
  BY <1>1, <1>2, EventIsFinished
<1> HIDE DEF e
<1>7. /\ outbox' \in [Items -> Event \cup {NoEvent}] /\ outbox'[i] = e
      /\ \A k \in Items \ {i} : outbox'[k] = outbox[k]
  BY <1>1, <1>3, <1>6
<1>8. /\ linked' \in [Items -> BOOLEAN] /\ linked'[i] = TRUE
      /\ \A k \in Items \ {i} : linked'[k] = linked[k]
  BY <1>1, <1>2, <1>3
<1>9. /\ filings' \in [Items -> Nat] /\ filings'[i] = 1
      /\ \A k \in Items \ {i} : filings'[k] = filings[k]
  BY <1>1, <1>2, <1>3, <1>4
<1>10. /\ job' \in [Workers -> Job \cup {NoJob}] /\ job'[w] = NoJob
       /\ \A v \in Workers \ {w} : job'[v] = job[v]
  BY <1>2, <1>3
<1>11. TypeOK'
  BY <1>2, <1>3, <1>7, <1>8, <1>9, <1>10 DEF TypeOK
<1>12. RewardFollowsVerdict'
  BY <1>2, <1>11 DEF FeedbackInv, RewardFollowsVerdict
<1>13. LinkIsSound'
  BY <1>1, <1>2, <1>4, <1>6, <1>7, <1>8, <1>9 DEF FeedbackInv, LinkIsSound
<1>14. EventsFollowVerdicts'
  BY <1>2, <1>4, <1>6, <1>7 DEF FeedbackInv, EventsFollowVerdicts, EventIs
<1>15. JobsAreHeld'
  <2>1. ASSUME NEW v \in Workers, job'[v] # NoJob
        PROVE  v # w /\ job'[v] = job[v] /\ job[v].item \in Items \ {i}
    <3>1. v # w /\ job'[v] = job[v]
      BY <2>1, <1>10
    <3>2. job[v].item # i
      BY <2>1, <3>1, <1>1, <1>5 DEF FeedbackInv, JobsAreHeld
    <3> QED
      BY <2>1, <3>1, <3>2, <1>3 DEF Job
  <2> QED
    BY <2>1, <1>2, <1>7 DEF FeedbackInv, JobsAreHeld, EventIs
<1> QED
  BY <1>12, <1>13, <1>14, <1>15 DEF FeedbackInv

\* So does the passing of time.
LEMMA TickKeeps ==
  ASSUME FeedbackAssumption, FeedbackInv, BackoffTick
  PROVE  FeedbackInv'
<1> USE DEF feedback
<1>1. TypeOK /\ outbox \in [Items -> Event \cup {NoEvent}]
  BY DEF FeedbackInv, RewardFollowsVerdict, TypeOK
<1>2. UNCHANGED <<verdict, linked, ledger, presses, filings, job, issues, restarts>>
  BY DEF BackoffTick
<1>3. ASSUME NEW e \in Event, e.wait > 0
      PROVE  /\ [e EXCEPT !.wait = e.wait - 1] \in Event
             /\ [e EXCEPT !.wait = e.wait - 1].status = e.status
             /\ [e EXCEPT !.wait = e.wait - 1].attempts = e.attempts
  <2> DEFINE n == e.wait - 1
  <2>1. n \in 0..RetryMax
    BY <1>3 DEF Event, FeedbackAssumption
  <2> HIDE DEF n
  <2>2. /\ [e EXCEPT !.wait = n] \in Event
        /\ [e EXCEPT !.wait = n].status = e.status
        /\ [e EXCEPT !.wait = n].attempts = e.attempts
    BY <2>1 DEF Event
  <2> QED
    BY <2>2 DEF n
<1>4. NoEvent \notin Event
  BY DEF FeedbackAssumption, Event
<1>5. ASSUME NEW k \in Items
      PROVE  /\ outbox'[k] \in Event \cup {NoEvent}
             /\ (outbox'[k] = NoEvent) <=> (outbox[k] = NoEvent)
             /\ outbox[k] # NoEvent =>
                  outbox'[k].status = outbox[k].status /\ outbox'[k].attempts = outbox[k].attempts
  <2>1. outbox'[k] = IF outbox[k] # NoEvent /\ outbox[k].wait > 0
                       THEN [outbox[k] EXCEPT !.wait = outbox[k].wait - 1] ELSE outbox[k]
    BY DEF BackoffTick
  <2>2. CASE outbox[k] # NoEvent /\ outbox[k].wait > 0
    BY <2>1, <2>2, <1>1, <1>3, <1>4
  <2>3. CASE ~(outbox[k] # NoEvent /\ outbox[k].wait > 0)
    BY <2>1, <2>3, <1>1
  <2> QED
    BY <2>2, <2>3
<1>6. outbox' \in [Items -> Event \cup {NoEvent}]
  <2>1. DOMAIN outbox' = Items /\ outbox' = [k \in Items |-> outbox'[k]]
    BY DEF BackoffTick
  <2> QED
    BY <2>1, <1>5
<1>7. TypeOK'
  BY <1>1, <1>2, <1>6 DEF TypeOK
<1>8. RewardFollowsVerdict'
  BY <1>2, <1>7 DEF FeedbackInv, RewardFollowsVerdict
<1>9. LinkIsSound' /\ EventsFollowVerdicts'
  BY <1>2, <1>5 DEF FeedbackInv, LinkIsSound, EventsFollowVerdicts, EventIs
<1>10. JobsAreHeld'
  <2>1. ASSUME NEW w \in Workers, job[w] # NoJob
        PROVE  job[w].item \in Items
    BY <2>1, <1>1 DEF TypeOK, Job
  <2> QED
    BY <2>1, <1>2, <1>5 DEF FeedbackInv, JobsAreHeld, EventIs
<1> QED
  BY <1>8, <1>9, <1>10 DEF FeedbackInv

\* So does a restart, which undoes what was not committed.
LEMMA RestartKeeps ==
  ASSUME FeedbackAssumption, FeedbackInv, bot_restarts
  PROVE  FeedbackInv'
<1> USE DEF feedback
<1>1. TypeOK'
  BY DEF FeedbackInv, RewardFollowsVerdict, TypeOK, bot_restarts
<1>2. RewardFollowsVerdict' /\ LinkIsSound' /\ EventsFollowVerdicts'
  BY <1>1 DEF bot_restarts, FeedbackInv, RewardFollowsVerdict, LinkIsSound, EventsFollowVerdicts, EventIs
<1>3. JobsAreHeld'
  BY DEF bot_restarts, JobsAreHeld
<1> QED
  BY <1>2, <1>3 DEF FeedbackInv

\* Every step keeps the invariant of the feedback.
LEMMA FeedbackNextInv ==
  ASSUME FeedbackAssumption, FeedbackInv, [FeedbackNext]_feedback_vars
  PROVE  FeedbackInv'
<1>1. CASE UNCHANGED feedback_vars
  BY <1>1 DEF feedback_vars, feedback, FeedbackInv, RewardFollowsVerdict, TypeOK, LinkIsSound,
              EventsFollowVerdicts, JobsAreHeld, EventIs
<1>2. ASSUME NEW i \in Items, create_feedback(i)
      PROVE  FeedbackInv'
  BY <1>2, FeedbackIsSentIn
<1>3. ASSUME NEW i \in Items, NEW b \in Buttons, feedback_callbacks(i, b)
      PROVE  FeedbackInv'
  BY <1>3, ButtonKeeps
<1>4. ASSUME NEW w \in Workers, Work(w)
      PROVE  FeedbackInv'
  BY <1>4, ClaimKeeps, IssueKeeps, LinkKeeps, CallFailureKeeps DEF Work
<1> QED
  BY <1>1, <1>2, <1>3, <1>4, TickKeeps, RestartKeeps DEF FeedbackNext

\* The invariant holds of every behaviour of the feedback.
LEMMA FeedbackInvariant == ASSUME FeedbackAssumption PROVE FeedbackSpec => []FeedbackInv
<1>1. FeedbackInit => FeedbackInv
  BY FeedbackInitInv
<1>2. FeedbackInv /\ [FeedbackNext]_feedback_vars => FeedbackInv'
  BY FeedbackNextInv
<1> QED
  BY <1>1, <1>2, PTL DEF FeedbackSpec

\* Points were granted exactly for approved reports, and the moderation log
\* never shows both verdicts, however buttons, workers and restarts interleave
\* (feedback_service.py, outbox_service.py).
THEOREM RewardsFollowVerdicts ==
  ASSUME FeedbackAssumption PROVE FeedbackSpec => []RewardFollowsVerdict
<1>1. FeedbackInv => RewardFollowsVerdict
  BY DEF FeedbackInv
<1> QED
  BY <1>1, FeedbackInvariant, PTL

\* A report is linked to an issue at most once, never to one that does not
\* exist, and exactly when its event is done, whatever fails and however many
\* workers run (outbox_service.py).
THEOREM LinksAreSound ==
  ASSUME FeedbackAssumption PROVE FeedbackSpec => []LinkIsSound
<1>1. FeedbackInv => LinkIsSound
  BY DEF FeedbackInv
<1> QED
  BY <1>1, FeedbackInvariant, PTL
-----------------------------------------------------------------------------
(* Feedback of traders (module TradeFeedback).                              *)

WrittenEntry == [rating : Ratings, status : {"VISIBLE", "HIDDEN"}]
TradeEntry == WrittenEntry \cup {None}
Submitting == [stage : {"loaded"}, to : {"submit"}, author : Authors, rating : Ratings, seen : TradeEntry]
Moderating == [stage : {"loaded"}, to : {"VISIBLE", "HIDDEN"}, author : Authors, rating : {0}, seen : WrittenEntry]
OpenTransaction == Submitting \cup Moderating

TradeTypeInv ==
  /\ item \in [Authors -> TradeEntry]
  /\ trade_log \in [Authors -> [hide : Nat, unhide : Nat]]
  /\ trade_unlogged \in [Authors -> Int]
  /\ request \in [TradeRequests -> {Idle} \cup OpenTransaction]

\* What a transaction has read under its lock is what there is, and no other
\* transaction holds that lock.
LocksHold ==
  \A r \in TradeRequests : request[r] # Idle =>
    /\ request[r].seen = item[request[r].author]
    /\ \A s \in TradeRequests \ {r} : request[s] # Idle => request[s].author # request[r].author

TradeInv == TradeTypeInv /\ LocksHold /\ LogTellsVisibility

Balance(logged, bulk) == logged.hide - logged.unhide + bulk
Hidden(e) == IF e.status = "HIDDEN" THEN 1 ELSE 0

\* No entry is not a hidden entry.
LEMMA NoneIsNotWritten == None \notin WrittenEntry /\ Hidden(None) = 0 /\ None.status = "NONE"
BY DEF None, WrittenEntry, Hidden

\* A request at rest holds no transaction.
LEMMA IdleIsNotOpen == Idle \notin OpenTransaction
BY DEF Idle, OpenTransaction, Submitting, Moderating

\* What an open transaction is made of.
LEMMA OpenRequest ==
  ASSUME NEW q \in OpenTransaction
  PROVE  /\ q.author \in Authors /\ q.seen \in TradeEntry
         /\ q.to = "submit" => q.rating \in Ratings
         /\ q.to # "submit" => q.seen \in WrittenEntry
BY DEF OpenTransaction, Submitting, Moderating, TradeEntry

\* At first nothing is written.
LEMMA TradeInitInv == ASSUME TradeInit PROVE TradeInv
<1>1. /\ item = [a \in Authors |-> None] /\ request = [r \in TradeRequests |-> Idle]
      /\ trade_log = [a \in Authors |-> [hide |-> 0, unhide |-> 0]] /\ trade_unlogged = [a \in Authors |-> 0]
  BY DEF TradeInit
<1>2. TradeTypeInv
  BY <1>1 DEF TradeTypeInv, TradeEntry
<1>3. LocksHold
  BY <1>1 DEF LocksHold
<1>4. LogTellsVisibility
  BY <1>1, NoneIsNotWritten DEF LogTellsVisibility
<1> QED BY <1>2, <1>3, <1>4 DEF TradeInv

\* A transaction takes its lock and reads.
LEMMA EntryIsLoaded ==
  ASSUME TradeInv, NEW r \in TradeRequests, NEW q \in OpenTransaction, request[r] = Idle, ~EntryLocked(q.author),
         q.seen = item[q.author], request' = [request EXCEPT ![r] = q],
         UNCHANGED <<item, trade_log, trade_unlogged>>
  PROVE  TradeInv'
<1>1. TradeTypeInv'
  BY DEF TradeInv, TradeTypeInv
<1>2. \A s \in TradeRequests : request[s] # Idle => request[s].author # q.author
  BY DEF EntryLocked
<1>3. LocksHold'
  BY <1>2 DEF TradeInv, TradeTypeInv, LocksHold
<1>4. LogTellsVisibility'
  BY DEF TradeInv, LogTellsVisibility
<1> QED BY <1>1, <1>3, <1>4 DEF TradeInv

\* A transaction ends; if it has written, then its own entry only, and the log
\* tells what it did.
LEMMA TransactionEnds ==
  ASSUME TradeInv, NEW r \in TradeRequests, request[r] # Idle, UNCHANGED trade_unlogged,
         request' = [request EXCEPT ![r] = Idle],
         NEW e \in TradeEntry, item' = [item EXCEPT ![request[r].author] = e],
         trade_log' \in [Authors -> [hide : Nat, unhide : Nat]],
         \A a \in Authors \ {request[r].author} : trade_log'[a] = trade_log[a],
         Balance(trade_log'[request[r].author], trade_unlogged'[request[r].author]) = Hidden(e)
  PROVE  TradeInv'
<1> DEFINE b == request[r].author
<1>1. request[r] \in OpenTransaction /\ b \in Authors
  BY OpenRequest DEF TradeInv, TradeTypeInv
<1>2. TradeTypeInv'
  BY <1>1 DEF TradeInv, TradeTypeInv
<1>3. \A s \in TradeRequests : request'[s] # Idle => s # r /\ request'[s] = request[s] /\ request[s].author # b
  BY DEF TradeInv, TradeTypeInv, LocksHold
<1>4. \A s \in TradeRequests : request'[s] # Idle => item'[request[s].author] = item[request[s].author]
  <2> SUFFICES ASSUME NEW s \in TradeRequests, request'[s] # Idle
               PROVE  item'[request[s].author] = item[request[s].author]
    OBVIOUS
  <2>1. request[s] \in OpenTransaction /\ request[s].author # b
    BY <1>3 DEF TradeInv, TradeTypeInv
  <2>2. request[s].author \in Authors
    BY <2>1, OpenRequest
  <2> QED BY <2>1, <2>2 DEF TradeInv, TradeTypeInv
<1>5. LocksHold'
  BY <1>3, <1>4 DEF TradeInv, LocksHold
<1>6. ASSUME NEW a \in Authors PROVE Balance(trade_log'[a], trade_unlogged'[a]) = Hidden(item'[a])
  <2>1. CASE a = b
    BY <1>1, <2>1 DEF TradeInv, TradeTypeInv
  <2>2. CASE a # b
    BY <2>2 DEF TradeInv, TradeTypeInv, LogTellsVisibility, Balance, Hidden
  <2> QED BY <2>1, <2>2
<1>7. LogTellsVisibility'
  BY <1>6 DEF LogTellsVisibility, Balance, Hidden
<1> QED BY <1>2, <1>5, <1>7 DEF TradeInv

\* An author writes, or writes anew: the entry is visible, and a hidden one stays so.
LEMMA ReviewIsWritten ==
  ASSUME TradeInv, NEW r \in TradeRequests, submit_trade_feedback(r)
  PROVE  TradeInv'
<1> DEFINE a == request[r].author
           e == IF request[r].seen = None THEN [rating |-> request[r].rating, status |-> "VISIBLE"]
                ELSE [item[a] EXCEPT !.rating = request[r].rating]
<1>1. /\ request[r] # Idle /\ request[r].to = "submit" /\ item' = [item EXCEPT ![a] = e]
      /\ request' = [request EXCEPT ![r] = Idle] /\ UNCHANGED <<trade_log, trade_unlogged>>
  BY DEF submit_trade_feedback, TradeInv, TradeTypeInv
<1>2. a \in Authors /\ request[r].rating \in Ratings /\ request[r].seen \in TradeEntry
  BY <1>1, OpenRequest DEF TradeInv, TradeTypeInv
<1>3. request[r].seen = item[a] /\ Balance(trade_log[a], trade_unlogged[a]) = Hidden(item[a])
  BY <1>1, <1>2 DEF TradeInv, LocksHold, LogTellsVisibility, Balance, Hidden
<1>4. e \in WrittenEntry /\ Hidden(e) = Hidden(item[a])
  BY <1>2, <1>3, NoneIsNotWritten DEF TradeEntry, WrittenEntry, Hidden
<1>5. Balance(trade_log'[a], trade_unlogged'[a]) = Hidden(e) /\ trade_log' \in [Authors -> [hide : Nat, unhide : Nat]]
  <2>1. trade_log'[a] = trade_log[a] /\ trade_unlogged'[a] = trade_unlogged[a]
    BY <1>1
  <2> QED BY <1>1, <1>3, <1>4, <2>1 DEF Balance, TradeInv, TradeTypeInv
<1> HIDE DEF e
<1> QED BY <1>1, <1>4, <1>5, TransactionEnds DEF TradeEntry

\* A moderator hides or shows an entry, with a line in the log if it was not so before.
LEMMA VisibilityIsSet ==
  ASSUME TradeInv, NEW r \in TradeRequests, NEW to, NEW entry,
         <<to, entry>> \in {<<"HIDDEN", "hide">>, <<"VISIBLE", "unhide">>},
         set_trade_feedback_visibility(r, to, entry)
  PROVE  TradeInv'
<1> DEFINE a == request[r].author
<1>0. \/ to = "HIDDEN" /\ entry = "hide"
      \/ to = "VISIBLE" /\ entry = "unhide"
  OBVIOUS
<1>1. /\ request[r] # Idle /\ request[r].to = to
      /\ request' = [request EXCEPT ![r] = Idle] /\ UNCHANGED trade_unlogged
  BY DEF set_trade_feedback_visibility
<1>2. request[r] \in OpenTransaction /\ a \in Authors /\ request[r].seen \in WrittenEntry
  BY <1>0, <1>1, OpenRequest DEF TradeInv, TradeTypeInv
<1>3. item[a] = request[r].seen /\ Balance(trade_log[a], trade_unlogged[a]) = Hidden(item[a])
  BY <1>1, <1>2 DEF TradeInv, LocksHold, LogTellsVisibility, Balance, Hidden
<1>4. /\ item \in [Authors -> TradeEntry] /\ trade_log \in [Authors -> [hide : Nat, unhide : Nat]]
      /\ trade_unlogged \in [Authors -> Int]
  BY DEF TradeInv, TradeTypeInv
<1>5. CASE request[r].seen.status = to
  <2>1. UNCHANGED <<item, trade_log>>
    BY <1>5 DEF set_trade_feedback_visibility
  <2>2. item' = [item EXCEPT ![a] = item[a]] /\ item[a] \in TradeEntry
    BY <1>2, <1>4, <2>1
  <2>3. Balance(trade_log'[a], trade_unlogged'[a]) = Hidden(item[a])
    <3>1. trade_log'[a] = trade_log[a] /\ trade_unlogged'[a] = trade_unlogged[a]
      BY <1>1, <2>1
    <3> QED BY <1>1, <1>3, <2>1, <3>1 DEF Balance
  <2> QED BY <1>1, <1>4, <2>1, <2>2, <2>3, TransactionEnds
<1>6. CASE request[r].seen.status # to
  <2> DEFINE e == [item[a] EXCEPT !.status = to]
  <2>1. item' = [item EXCEPT ![a] = e] /\ trade_log' = [trade_log EXCEPT ![a][entry] = @ + 1]
    BY <1>6, <1>4, <1>2 DEF set_trade_feedback_visibility
  <2>2. e \in WrittenEntry /\ e.status = to /\ item[a].status \in {"VISIBLE", "HIDDEN"} \ {to}
    BY <1>0, <1>2, <1>3, <1>6 DEF WrittenEntry
  <2>3. trade_log'[a] = [trade_log[a] EXCEPT ![entry] = @ + 1]
    BY <1>2, <1>4, <2>1
  <2>4. trade_log'[a].hide - trade_log'[a].unhide =
          trade_log[a].hide - trade_log[a].unhide + (IF entry = "hide" THEN 1 ELSE -1)
    <3>1. trade_log[a] \in [hide : Nat, unhide : Nat]
      BY <1>2, <1>4
    <3> QED BY <1>0, <2>3, <3>1
  <2>5. Balance(trade_log'[a], trade_unlogged'[a]) = Hidden(e)
    <3>1. trade_log[a].hide \in Nat /\ trade_log[a].unhide \in Nat /\ trade_unlogged[a] \in Int
      BY <1>2, <1>4
    <3>2. Hidden(e) - Hidden(item[a]) = IF entry = "hide" THEN 1 ELSE -1
      BY <1>0, <2>2 DEF Hidden
    <3>3. Balance(trade_log'[a], trade_unlogged'[a]) = Balance(trade_log[a], trade_unlogged[a]) + (IF entry = "hide" THEN 1 ELSE -1)
      BY <1>1, <2>4, <3>1 DEF Balance
    <3> QED BY <1>3, <3>2, <3>3 DEF Hidden
  <2>6. trade_log' \in [Authors -> [hide : Nat, unhide : Nat]] /\ \A c \in Authors \ {a} : trade_log'[c] = trade_log[c]
    BY <1>0, <1>2, <1>4, <2>1
  <2> HIDE DEF e
  <2> QED BY <1>1, <2>1, <2>2, <2>5, <2>6, TransactionEnds DEF TradeEntry
<1> QED BY <1>5, <1>6

\* The bulk form writes entries nobody has locked.
LEMMA BulkFormIsWritten ==
  ASSUME TradeInv, NEW ticked \in SUBSET Authors, NEW status \in {"VISIBLE", "HIDDEN"},
         action_triage_bulk_feedback(ticked, status)
  PROVE  TradeInv'
<1> DEFINE changed == {a \in ticked : item[a].status # status}
           by(a) == IF a \notin changed THEN 0 ELSE IF status = "HIDDEN" THEN 1 ELSE -1
           new(a) == IF a \in changed THEN [item[a] EXCEPT !.status = status] ELSE item[a]
<1>1. /\ \A a \in ticked : item[a] # None /\ ~EntryLocked(a)
      /\ item' = [a \in Authors |-> new(a)] /\ trade_unlogged' = [a \in Authors |-> trade_unlogged[a] + by(a)]
      /\ UNCHANGED <<trade_log, request>>
  BY DEF action_triage_bulk_feedback
<1>2. /\ item \in [Authors -> TradeEntry] /\ trade_log \in [Authors -> [hide : Nat, unhide : Nat]]
      /\ trade_unlogged \in [Authors -> Int]
  BY DEF TradeInv, TradeTypeInv
<1>3. ASSUME NEW a \in Authors
      PROVE  new(a) \in TradeEntry /\ by(a) \in Int /\ Hidden(new(a)) = Hidden(item[a]) + by(a)
  <2>1. CASE a \in changed
    <3>1. item[a] \in WrittenEntry /\ item[a].status # status
      BY <1>1, <1>2, <2>1 DEF TradeEntry
    <3> QED BY <2>1, <3>1 DEF TradeEntry, WrittenEntry, Hidden
  <2>2. CASE a \notin changed
    BY <1>2, <2>2 DEF Hidden
  <2> QED BY <2>1, <2>2
<1> HIDE DEF by, new
<1>4. TradeTypeInv'
  BY <1>1, <1>2, <1>3 DEF TradeInv, TradeTypeInv
<1>5. ASSUME NEW r \in TradeRequests, request[r] # Idle
      PROVE  item'[request[r].author] = item[request[r].author]
  <2>1. request[r].author \in Authors
    BY <1>5, OpenRequest DEF TradeInv, TradeTypeInv
  <2>2. request[r].author \notin changed
    BY <1>1, <1>5 DEF EntryLocked
  <2> QED BY <1>1, <2>1, <2>2 DEF new
<1>6. LocksHold'
  BY <1>1, <1>5 DEF TradeInv, LocksHold
<1>7. ASSUME NEW a \in Authors PROVE Balance(trade_log'[a], trade_unlogged'[a]) = Hidden(item'[a])
  <2>1. item'[a] = new(a) /\ trade_unlogged'[a] = trade_unlogged[a] + by(a) /\ trade_log'[a] = trade_log[a]
    BY <1>1
  <2>2. trade_log[a].hide \in Nat /\ trade_log[a].unhide \in Nat /\ trade_unlogged[a] \in Int /\ by(a) \in Int
    BY <1>2, <1>3
  <2>3. Balance(trade_log[a], trade_unlogged[a]) = Hidden(item[a])
    BY DEF TradeInv, LogTellsVisibility, Balance, Hidden
  <2>4. Balance(trade_log'[a], trade_unlogged'[a]) = Balance(trade_log[a], trade_unlogged[a]) + by(a)
    BY <1>1, <2>1, <2>2 DEF Balance
  <2> QED BY <1>3, <2>1, <2>3, <2>4
<1>8. LogTellsVisibility'
  BY <1>7 DEF LogTellsVisibility, Balance, Hidden
<1> QED BY <1>4, <1>6, <1>8 DEF TradeInv

\* Every step keeps the invariant.
LEMMA TradeNextInv == ASSUME TradeInv, [TradeNext]_trade_vars PROVE TradeInv'
<1>1. CASE UNCHANGED <<item, trade_log, trade_unlogged, request>>
  BY <1>1 DEF TradeInv, TradeTypeInv, LocksHold, LogTellsVisibility
<1>2. CASE lot_closes
  BY <1>1, <1>2 DEF lot_closes
<1>3. ASSUME NEW r \in TradeRequests, NEW a \in Authors, NEW n \in Ratings, load_for_submit(r, a, n)
      PROVE  TradeInv'
  <2> DEFINE q == [stage |-> "loaded", to |-> "submit", author |-> a, rating |-> n, seen |-> item[a]]
  <2>1. /\ request[r] = Idle /\ ~EntryLocked(a) /\ request' = [request EXCEPT ![r] = q]
        /\ UNCHANGED <<item, trade_log, trade_unlogged>>
    BY <1>3 DEF load_for_submit
  <2>2. q \in OpenTransaction /\ q.author = a /\ q.seen = item[a]
    BY DEF TradeInv, TradeTypeInv, OpenTransaction, Submitting
  <2> HIDE DEF q
  <2> QED BY <2>1, <2>2, EntryIsLoaded
<1>4. ASSUME NEW r \in TradeRequests, NEW a \in Authors, NEW b \in BOOLEAN, load_for_moderation(r, a, b)
      PROVE  TradeInv'
  <2> DEFINE q == [stage |-> "loaded", author |-> a, rating |-> 0, seen |-> item[a],
                   to |-> IF b THEN "VISIBLE" ELSE "HIDDEN"]
  <2>1. /\ request[r] = Idle /\ ~EntryLocked(a) /\ item[a] # None /\ request' = [request EXCEPT ![r] = q]
        /\ UNCHANGED <<item, trade_log, trade_unlogged>>
    BY <1>4 DEF load_for_moderation
  <2>2. item[a] \in WrittenEntry
    BY <2>1 DEF TradeInv, TradeTypeInv, TradeEntry
  <2>3. q \in OpenTransaction /\ q.author = a /\ q.seen = item[a]
    BY <2>2 DEF OpenTransaction, Moderating
  <2> HIDE DEF q
  <2> QED BY <2>1, <2>3, EntryIsLoaded
<1>5. ASSUME NEW r \in TradeRequests, rolled_back(r)
      PROVE  TradeInv'
  <2> DEFINE a == request[r].author
  <2>1. a \in Authors /\ request[r] # Idle
    BY <1>5, OpenRequest DEF rolled_back, TradeInv, TradeTypeInv
  <2>2. item' = [item EXCEPT ![a] = item[a]] /\ item[a] \in TradeEntry /\ UNCHANGED <<trade_log, trade_unlogged>>
    BY <1>5, <2>1 DEF rolled_back, TradeInv, TradeTypeInv
  <2>3. Balance(trade_log'[a], trade_unlogged'[a]) = Hidden(item[a])
    <3>1. Balance(trade_log[a], trade_unlogged[a]) = Hidden(item[a])
      BY <2>1 DEF TradeInv, LogTellsVisibility, Balance, Hidden
    <3> QED BY <2>2, <3>1 DEF Balance
  <2> QED BY <1>5, <2>1, <2>2, <2>3, TransactionEnds DEF rolled_back, TradeInv, TradeTypeInv
<1>6. ASSUME NEW r \in TradeRequests,
             \/ submit_trade_feedback(r)
             \/ action_hide_trade_feedback(r) \/ action_unhide_trade_feedback(r)
      PROVE  TradeInv'
  BY <1>6, ReviewIsWritten, VisibilityIsSet
     DEF action_hide_trade_feedback, action_unhide_trade_feedback
<1>7. ASSUME NEW ticked \in SUBSET Authors, NEW status \in {"VISIBLE", "HIDDEN"},
             action_triage_bulk_feedback(ticked, status)
      PROVE  TradeInv'
  BY <1>7, BulkFormIsWritten
<1>8. CASE UNCHANGED trade_vars
  BY <1>1, <1>8 DEF trade_vars
<1> QED BY <1>2, <1>3, <1>4, <1>5, <1>6, <1>7, <1>8 DEF TradeNext

(* Log and bulk forms together tell which feedback is hidden, for any number  *)
(* of authors who write anew and of moderators who hide and unhide.           *)
THEOREM HiddenIsLogged == TradeSpec => []LogTellsVisibility
<1>1. TradeInit => TradeInv
  BY TradeInitInv
<1>2. TradeInv /\ [TradeNext]_trade_vars => TradeInv'
  BY TradeNextInv
<1>3. TradeInv => LogTellsVisibility
  BY DEF TradeInv
<1> QED BY <1>1, <1>2, <1>3, PTL DEF TradeSpec
=============================================================================
