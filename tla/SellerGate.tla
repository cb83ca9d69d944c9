------------------------------ MODULE SellerGate -----------------------------
(***************************************************************************)
(* What is held against a seller, the risk level it adds up to, and the gate *)
(* asked before a draft is published.                                       *)
(* (src/app/services/risk_eval_service.py and publish_gate_service.py.)       *)
(*                                                                         *)
(* The facts are rows that other parts of the system write (complaints,       *)
(* fraud signals, bans, removed bids, verification, guarantor requests,       *)
(* settings); here any of them may change at any time, one at a time.         *)
(* Definitions Bug_... are for mutation runs only.                            *)
(***************************************************************************)
EXTENDS Integers

CONSTANTS MaxCount,   \* complaints and removed bids counted to here
          MaxDays     \* days since a guarantor was assigned

GateAssumption == MaxCount \in Nat /\ MaxDays \in Nat

VARIABLES
  seller,    \* what the tables hold about him
  guarantor, \* days since the newest assignment, or NoGuarantor
  requires,  \* publish_high_risk_requires_guarantor
  max_age    \* publish_guarantor_assignment_max_age_days

gate_vars == <<seller, guarantor, requires, max_age>>

NoGuarantor == -1
Least(a, b) == IF a < b THEN a ELSE b
Greatest(a, b) == IF a > b THEN a ELSE b

Facts == [complaints_against : 0..MaxCount, open_fraud_signals : 0..1,
          has_active_blacklist : BOOLEAN, removed_bids : 0..MaxCount, is_verified : BOOLEAN]

(***************************************************************************)
(* evaluate_user_risk_snapshot.                                            *)
(***************************************************************************)
points(condition, n) == IF condition THEN n ELSE 0

Bug_marks(f) ==
  points(f.has_active_blacklist, 60) + points(f.open_fraud_signals > 0, 40)
    + (CASE f.complaints_against = 3 -> 30
         [] f.complaints_against >= 1 /\ f.complaints_against # 3 -> 15
         [] f.complaints_against = 0 -> 0)
    + (CASE f.removed_bids >= 3 -> 15 [] f.removed_bids \in {1, 2} -> 8 [] f.removed_bids = 0 -> 0)

marks(f) ==
  points(f.has_active_blacklist, 60) + points(f.open_fraud_signals > 0, 40)
    + (CASE f.complaints_against >= 3 -> 30
         [] f.complaints_against \in {1, 2} -> 15
         [] f.complaints_against = 0 -> 0)
    + (CASE f.removed_bids >= 3 -> 15 [] f.removed_bids \in {1, 2} -> 8 [] f.removed_bids = 0 -> 0)

\* Being verified counts for who is neither banned nor suspected.
score(f) ==
  LET trusted == f.is_verified /\ ~f.has_active_blacklist /\ f.open_fraud_signals = 0
  IN Least(Greatest(marks(f) - points(trusted, 10), 0), 100)

level(f) == IF score(f) >= 70 THEN "HIGH" ELSE IF score(f) >= 35 THEN "MEDIUM" ELSE "LOW"

has_assigned_guarantor_request(days, limit) == days # NoGuarantor /\ (limit = 0 \/ days <= limit)

evaluate_seller_publish_gate(f, days, gate_on, limit) ==
  ~gate_on \/ level(f) # "HIGH" \/ has_assigned_guarantor_request(days, limit)

GateInit ==
  /\ seller = [complaints_against |-> 0, open_fraud_signals |-> 0, has_active_blacklist |-> FALSE,
               removed_bids |-> 0, is_verified |-> FALSE]
  /\ guarantor = NoGuarantor
  /\ requires \in BOOLEAN
  /\ max_age \in 0..MaxDays

facts_change ==
  /\ seller' \in Facts
  /\ \E k \in DOMAIN seller : \A j \in DOMAIN seller \ {k} : seller'[j] = seller[j]
  /\ UNCHANGED <<guarantor, requires, max_age>>

settings_change ==
  /\ requires' \in BOOLEAN /\ max_age' \in 0..MaxDays
  /\ UNCHANGED <<seller, guarantor>>

guarantor_assigned ==
  /\ guarantor' = 0
  /\ UNCHANGED <<seller, requires, max_age>>

day_passes ==
  /\ guarantor \in 0..MaxDays
  /\ guarantor' = guarantor + 1
  /\ UNCHANGED <<seller, requires, max_age>>

GateNext == facts_change \/ settings_change \/ guarantor_assigned \/ day_passes

GateSpec == GateInit /\ [][GateNext]_gate_vars

(***************************************************************************)
(* Properties.                                                             *)
(***************************************************************************)
Allowed == evaluate_seller_publish_gate(seller, guarantor, requires, max_age)
Worse(g, f) ==
  /\ g # f
  /\ g.complaints_against >= f.complaints_against /\ g.removed_bids >= f.removed_bids
  /\ g.open_fraud_signals >= f.open_fraud_signals
  /\ f.has_active_blacklist => g.has_active_blacklist
  /\ g.is_verified => f.is_verified

(* Nothing that is held against a seller ever helps him: with one complaint,  *)
(* signal, ban or removed bid more, or the verification gone, the score does  *)
(* not fall and a gate that was shut does not open, across every threshold,   *)
(* the cap and the condition under which being verified counts.              *)
MarksNeverHelp ==
  [][(Worse(seller', seller) /\ UNCHANGED <<guarantor, requires, max_age>>) =>
        score(seller') >= score(seller) /\ (Allowed' => Allowed)]_gate_vars
=============================================================================
