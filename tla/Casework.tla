------------------------------ MODULE Casework ------------------------------
(***************************************************************************)
(* What users ask of the moderators in private: a guarantor for a deal, or  *)
(* a second look at a decision.  Requests are assigned or rejected; appeals *)
(* are reviewed against a deadline and escalated, once, when it passes.     *)
(* (src/app/services/guarantor_service.py, appeal_service.py,               *)
(* appeal_escalation_service.py and _watcher.py; the buttons of             *)
(* src/app/bot/handlers/guarantor.py and moderation.py, and the forms of    *)
(* src/app/web/main.py.)                                                    *)
(*                                                                         *)
(* Every operation is one transaction under the case's row lock, so it is   *)
(* one action here; module PointsEconomy adds transactions that hold the    *)
(* lock for longer, and tells these actions which rows are free.            *)
(***************************************************************************)
EXTENDS Naturals, Sequences, FiniteSets

CONSTANTS
  Requests, Appeals,    \* rows of guarantor_requests and appeals
  Moderators,
  NoOne, NoTime,        \* the code's None
  OpenSla, ReviewSla,   \* time an appeal may stay open, and in review
  BatchSize,            \* appeals the watcher escalates in one pass
  MaxTime, MaxLog       \* bounds of the model, not of the code

ASSUME CaseworkAssumption ==
  /\ Requests \cap Appeals = {}
  /\ NoOne \notin Moderators /\ NoTime \notin Nat
  /\ OpenSla \in Nat \ {0} /\ ReviewSla \in Nat \ {0} /\ BatchSize \in Nat \ {0}
  /\ MaxTime \in Nat /\ MaxLog \in Nat

VARIABLES
  now,        \* the clock of the database and the bot
  status,     \* "ABSENT" before the case is sent in
  resolver,   \* who took or decided the case
  deadline,   \* sla_deadline_at of an appeal
  escalated,  \* escalated_at of an appeal
  log,        \* the moderation log, per case: what was done and by whom
  to_alert,   \* escalations the watcher has committed and not announced
  alerts,     \* announcements in the moderators' topic, per appeal
  unlogged    \* ghost: appeals decided by the panel's bulk form

appeal == <<deadline, escalated, to_alert, alerts>>
case == <<status, resolver, log, unlogged>>
casework == <<now, case, appeal>>

Cases == Requests \cup Appeals
Active == {"OPEN", "IN_REVIEW"}
Closed == {"ASSIGNED", "RESOLVED", "REJECTED"}

CaseInit ==
  /\ now = 0
  /\ status = [t \in Cases |-> "ABSENT"]
  /\ resolver = [t \in Cases |-> NoOne]
  /\ deadline = [a \in Appeals |-> NoTime]
  /\ escalated = [a \in Appeals |-> NoTime]
  /\ log = [t \in Cases |-> <<>>]
  /\ to_alert = {}
  /\ alerts = [a \in Appeals |-> 0]
  /\ unlogged = {}

_log_action(t, m, action) == log' = [log EXCEPT ![t] = Append(@, [action |-> action, by |-> m])]
-----------------------------------------------------------------------------
(* Guarantor requests.                                                     *)

create_guarantor_request(r) ==
  /\ status[r] = "ABSENT"
  /\ status' = [status EXCEPT ![r] = "NEW"]
  /\ UNCHANGED <<now, resolver, log, unlogged, appeal>>

\* Pressing again changes nothing for the moderator who has the request, and
\* is refused to the others.
assign_guarantor_request(m, r) ==
  \/ /\ status[r] = "NEW"
     /\ status' = [status EXCEPT ![r] = "ASSIGNED"]
     /\ resolver' = [resolver EXCEPT ![r] = m]
  \/ /\ status[r] = "ASSIGNED" /\ resolver[r] = m
     /\ UNCHANGED <<status, resolver>>

reject_guarantor_request(m, r) ==
  \/ /\ status[r] = "NEW"
     /\ status' = [status EXCEPT ![r] = "REJECTED"]
     /\ resolver' = [resolver EXCEPT ![r] = m]
  \/ /\ status[r] = "REJECTED"
     /\ UNCHANGED <<status, resolver>>

\* A press that found nothing left to do is logged like one that did it.
guarantor_callbacks(m, r) ==
  /\ Len(log[r]) < MaxLog
  /\ \/ assign_guarantor_request(m, r) /\ _log_action(r, m, "ASSIGN")
     \/ reject_guarantor_request(m, r) /\ _log_action(r, m, "REJECT")
  /\ UNCHANGED <<now, unlogged, appeal>>
-----------------------------------------------------------------------------
(* Appeals.                                                                *)

\* One row per appellant and reference: sending it again finds the first.
create_appeal_from_ref(a) ==
  /\ status[a] = "ABSENT" /\ now + OpenSla <= MaxTime
  /\ status' = [status EXCEPT ![a] = "OPEN"]
  /\ deadline' = [deadline EXCEPT ![a] = now + OpenSla]
  /\ UNCHANGED <<now, resolver, log, unlogged, escalated, to_alert, alerts>>

\* Bug: a review clears the escalation along with the deadline.
Bug_mark_appeal_in_review(m, rows) ==
  /\ rows # {} /\ now + ReviewSla <= MaxTime
  /\ \A a \in rows : status[a] = "OPEN"
  /\ status' = [t \in Cases |-> IF t \in rows THEN "IN_REVIEW" ELSE status[t]]
  /\ resolver' = [t \in Cases |-> IF t \in rows THEN m ELSE resolver[t]]
  /\ deadline' = [a \in Appeals |-> IF a \in rows THEN now + ReviewSla ELSE deadline[a]]
  /\ escalated' = [a \in Appeals |-> IF a \in rows THEN NoTime ELSE escalated[a]]
  /\ UNCHANGED <<now, log, unlogged, to_alert, alerts>>

\* The review gets a deadline of its own; an escalation stays.  The bulk form
\* takes several appeals at once, and passes over those that are not open.
mark_appeal_in_review(m, rows) ==
  /\ rows # {} /\ now + ReviewSla <= MaxTime
  /\ \A a \in rows : status[a] = "OPEN"
  /\ status' = [t \in Cases |-> IF t \in rows THEN "IN_REVIEW" ELSE status[t]]
  /\ resolver' = [t \in Cases |-> IF t \in rows THEN m ELSE resolver[t]]
  /\ deadline' = [a \in Appeals |-> IF a \in rows THEN now + ReviewSla ELSE deadline[a]]
  /\ UNCHANGED <<now, log, unlogged, escalated, to_alert, alerts>>

\* Any moderator may decide, also on a colleague's review.
finalize_appeal(m, rows, verdict) ==
  /\ rows # {} /\ \A a \in rows : status[a] \in Active
  /\ status' = [t \in Cases |-> IF t \in rows THEN verdict ELSE status[t]]
  /\ resolver' = [t \in Cases |-> IF t \in rows THEN m ELSE resolver[t]]
  /\ deadline' = [a \in Appeals |-> IF a \in rows THEN NoTime ELSE deadline[a]]
  /\ UNCHANGED <<now, escalated, to_alert, alerts>>

\* The same buttons in the bot's panel and in the web admin.
decide_appeal(m, a) ==
  /\ Len(log[a]) < MaxLog
  /\ \/ finalize_appeal(m, {a}, "RESOLVED") /\ _log_action(a, m, "RESOLVE")
     \/ finalize_appeal(m, {a}, "REJECTED") /\ _log_action(a, m, "REJECT")
  /\ UNCHANGED unlogged

\* The bulk form decides all the appeals that are ticked in one transaction,
\* passing over the closed ones, and leaves no entry in the log.
action_triage_bulk(m, rows) ==
  /\ \E verdict \in {"RESOLVED", "REJECTED"} : finalize_appeal(m, rows, verdict)
  /\ unlogged' = unlogged \cup rows
  /\ UNCHANGED log

\* Bug: only appeals nobody has taken are looked for.
Bug_Overdue(a) == status[a] = "OPEN" /\ escalated[a] = NoTime /\ deadline[a] <= now

Overdue(a) == status[a] \in Active /\ escalated[a] = NoTime /\ deadline[a] <= now

\* The earliest deadlines first, as many as the batch takes, locked rows
\* skipped.  The mark and its log entry are committed before any word of it.
escalate_overdue_appeals(locked) ==
  LET overdue == {a \in Appeals \ locked : Overdue(a)}
  IN \E batch \in SUBSET overdue :
       /\ batch # {} /\ to_alert = {}
       /\ batch = overdue \/ Cardinality(batch) = BatchSize
       /\ Cardinality(batch) <= BatchSize
       /\ \A a \in batch, b \in overdue \ batch : deadline[a] <= deadline[b]
       /\ escalated' = [a \in Appeals |-> IF a \in batch THEN now ELSE escalated[a]]
       /\ log' = [t \in Cases |-> IF t \in batch THEN Append(log[t], [action |-> "ESCALATE", by |-> NoOne])
                                   ELSE log[t]]
       /\ to_alert' = batch
       /\ UNCHANGED <<now, status, resolver, unlogged, deadline, alerts>>

send_escalation(a) ==
  /\ a \in to_alert
  /\ alerts' = [alerts EXCEPT ![a] = @ + 1]
  /\ to_alert' = to_alert \ {a}
  /\ UNCHANGED <<now, case, deadline, escalated>>

\* The bot dies, or a send raises: the rest of the pass is never announced.
escalation_pass_is_lost ==
  /\ to_alert # {}
  /\ to_alert' = {}
  /\ UNCHANGED <<now, case, deadline, escalated, alerts>>

\* One pass of the watcher's loop, step by step.
run_appeal_escalation_watcher(locked) ==
  \/ escalate_overdue_appeals(locked)
  \/ \E a \in Appeals : send_escalation(a)

Tick ==
  /\ now < MaxTime
  /\ now' = now + 1
  /\ UNCHANGED <<case, appeal>>

CaseNext(locked) ==
  \/ \E r \in Requests : create_guarantor_request(r)
  \/ \E r \in Requests \ locked, m \in Moderators : guarantor_callbacks(m, r)
  \/ \E a \in Appeals : create_appeal_from_ref(a)
  \/ \E a \in Appeals \ locked, m \in Moderators : decide_appeal(m, a)
  \/ \E rows \in SUBSET (Appeals \ locked), m \in Moderators :
       mark_appeal_in_review(m, rows) \/ action_triage_bulk(m, rows)
  \/ run_appeal_escalation_watcher(locked)
  \/ escalation_pass_is_lost
  \/ Tick

CaseSpec == CaseInit /\ [][CaseNext({})]_casework

\* Time goes on, and the watcher's loop never stops.
FairCaseSpec == CaseSpec /\ WF_casework(Tick) /\ WF_casework(run_appeal_escalation_watcher({}))
-----------------------------------------------------------------------------
(* Properties.                                                             *)

\* Every variable keeps its type, and an appeal has a deadline exactly while
\* it waits for its decision.
CaseTypeOK ==
  /\ now \in Nat
  /\ status \in [Cases -> {"ABSENT", "NEW"} \cup Active \cup Closed]
  /\ resolver \in [Cases -> Moderators \cup {NoOne}]
  /\ deadline \in [Appeals -> Nat \cup {NoTime}]
  /\ \A a \in Appeals : deadline[a] # NoTime <=> status[a] \in Active
  /\ escalated \in [Appeals -> Nat \cup {NoTime}]
  /\ log \in [Cases -> Seq([action : {"ASSIGN", "RESOLVE", "REJECT", "ESCALATE"},
                           by : Moderators \cup {NoOne}])]
  /\ unlogged \subseteq Appeals
  /\ to_alert \subseteq Appeals /\ alerts \in [Appeals -> Nat]

\* The moderators hear of an escalation at most once, and of none that the
\* database does not know.
AlertsAreTrue ==
  \A a \in Appeals :
    /\ alerts[a] <= 1
    /\ a \in to_alert => alerts[a] = 0
    /\ a \in to_alert \/ alerts[a] > 0 => escalated[a] # NoTime

Entries(t, action) == {n \in DOMAIN log[t] : log[t][n].action = action}
Took(t, action) == Entries(t, action) # {} /\ \A n \in Entries(t, action) : log[t][n].by = resolver[t]

\* The moderation log tells how every case ended, and who decided it: it never
\* holds two verdicts on one case or an assignment to two moderators, an appeal
\* is decided once, and it is escalated at most once in its life, however often
\* its deadline moves and passes.  That the log holds the verdict is said of the
\* appeals decided one by one only: see DecisionIsLogged.  What the moderators
\* hear of an escalation is true.
LogTellsTheCase ==
  /\ CaseTypeOK /\ AlertsAreTrue
  /\ \A r \in Requests :
       /\ IF status[r] = "ASSIGNED" THEN Took(r, "ASSIGN") ELSE Entries(r, "ASSIGN") = {}
       /\ Entries(r, "REJECT") # {} <=> status[r] = "REJECTED"
  /\ \A a \in Appeals :
       /\ \A verdict \in {<<"RESOLVED", "RESOLVE">>, <<"REJECTED", "REJECT">>} :
            LET entries == Entries(a, verdict[2]) IN
            /\ entries # {} => /\ status[a] = verdict[1]
                               /\ Cardinality(entries) = 1 /\ Took(a, verdict[2])
            /\ status[a] = verdict[1] /\ a \notin unlogged => entries # {}
       /\ Cardinality(Entries(a, "ESCALATE")) = IF escalated[a] # NoTime THEN 1 ELSE 0

\* docs/release/rc-1-manual-qa-matrix.md:24: "Appeal decision writes moderation audit
\* trail", with the action RESOLVE_APPEAL or REJECT_APPEAL.
DecisionIsLogged ==
  \A a \in Appeals : /\ status[a] = "RESOLVED" => Entries(a, "RESOLVE") # {}
                     /\ status[a] = "REJECTED" => Entries(a, "REJECT") # {}

\* No appeal is forgotten: it is decided or escalated in the end.
AppealsAreFollowedUp ==
  \A a \in Appeals : status[a] \in Active ~> (status[a] \in Closed \/ escalated[a] # NoTime)
=============================================================================
