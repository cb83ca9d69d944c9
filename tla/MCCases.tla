------------------------------ MODULE MCCases -------------------------------
(***************************************************************************)
(* Cases of the moderators, feedback of users and of traders, and the         *)
(* timeline of a lot, which share no state, checked in one run: which of them *)
(* moves is chosen at the start, the others stay where they are.  Values: see *)
(* README.md.                                                                *)
(***************************************************************************)
EXTENDS Casework, Feedback, TradeFeedback, Timeline

CONSTANT Parts   \* which components may move

VARIABLE part

casework_vars == <<now, status, resolver, deadline, escalated, log, to_alert, alerts, unlogged>>
cases == <<part, casework_vars, feedback_vars, trade_vars, timeline_vars>>

MCReward == [i1 |-> 2, i2 |-> 0]
MCFilters == {{}, {"complaint"}, {"auction", "fraud", "moderation"}}

ASSUME CaseworkAssumption /\ FeedbackAssumption /\ TradeAssumption /\ TimelineAssumption

CasesInit ==
  /\ part \in Parts
  /\ CaseInit /\ FeedbackInit /\ TimelineInit
  /\ TradeInit /\ (part # "trade" => lot.seller = "seller")

CasesNext ==
  /\ UNCHANGED part
  /\ \/ /\ part \in {"requests", "appeals"} /\ CaseNext({})
        /\ \A t \in Cases : status'[t] # "ABSENT" => t \in (IF part = "requests" THEN Requests ELSE Appeals)
        /\ UNCHANGED <<feedback_vars, trade_vars, timeline_vars>>
     \/ part = "feedback" /\ FeedbackNext /\ UNCHANGED <<casework_vars, trade_vars, timeline_vars>>
     \/ part = "trade" /\ TradeNext /\ UNCHANGED <<casework_vars, feedback_vars, timeline_vars>>
     \/ part = "timeline" /\ TimelineNext /\ UNCHANGED <<casework_vars, feedback_vars, trade_vars>>

\* The fairness of Casework and Feedback.
CasesSpec ==
  /\ CasesInit /\ [][CasesNext]_cases
  /\ WF_casework_vars(part = "appeals" /\ Tick)
  /\ WF_casework_vars(part = "appeals" /\ run_appeal_escalation_watcher({}))
  /\ WF_feedback_vars(part = "feedback" /\ BackoffTick)
  /\ \A w \in Workers : WF_feedback_vars(part = "feedback" /\ Work(w))
=============================================================================
