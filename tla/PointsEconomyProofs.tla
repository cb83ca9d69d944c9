------------------------ MODULE PointsEconomyProofs ------------------------
(***************************************************************************)
(* Proofs about cases, points and boosts (modules Casework, PointsEconomy). *)
(***************************************************************************)
EXTENDS PointsEconomy, TLAPS, FiniteSetTheorems, WellFoundedInduction, SequenceTheorems

\* A non-empty set of numbers has a least one.
LEMMA LeastCount ==
  ASSUME NEW S \in SUBSET Nat, S # {}
  PROVE  \E m \in S : \A i \in S : m <= i
<1>1. PICK m \in S : \A i \in S : <<i, m>> \notin OpToRel(<, Nat)
  BY WFMin, NatLessThanWellFounded
<1>2. \A i \in S : m <= i
  <2> TAKE i \in S
  <2>1. i \in Nat /\ m \in Nat
    OBVIOUS
  <2>2. i < m => <<i, m>> \in OpToRel(<, Nat)
    BY <2>1 DEF OpToRel
  <2>3. ~(i < m)
    BY <2>2, <1>1
  <2> QED
    BY <2>1, <2>3
<1> QED
  BY <1>2

\* Of sets of rows there is one that has none of the others inside it: what
\* follows from it stands in for an induction on the number of rows.
LEMMA MinimalSubset ==
  ASSUME NEW S, IsFiniteSet(S), NEW Bad \in SUBSET SUBSET S, Bad # {}
  PROVE  \E m \in Bad : \A s \in Bad : s \subseteq m => s = m
<1> DEFINE Sizes == {Cardinality(s) : s \in Bad}
<1>1. \A s \in Bad : IsFiniteSet(s) /\ Cardinality(s) \in Nat
  BY FS_Subset, FS_CardinalityType
<1>2. Sizes \in SUBSET Nat /\ Sizes # {}
  BY <1>1
<1>3. PICK n \in Sizes : \A i \in Sizes : n <= i
  <2> HIDE DEF Sizes
  <2> QED
    BY <1>2, LeastCount
<1>4. PICK m \in Bad : n = Cardinality(m)
  BY <1>3
<1>5. ASSUME NEW s \in Bad, s \subseteq m
      PROVE  s = m
  <2>1. Cardinality(m) <= Cardinality(s)
    BY <1>3, <1>4
  <2>2. Cardinality(s) < Cardinality(m) \/ s = m
    BY <1>5, <1>1, FS_Subset
  <2> QED
    BY <2>1, <2>2, <1>1
<1> QED
  BY <1>5
-----------------------------------------------------------------------------
(* The sum of a set of rows.  The library folds over a row the CHOOSE takes *)
(* out of the set; that the sum is the same for every order is shown here.  *)

Picked(s) == CHOOSE x \in s : TRUE
Adds(f, rows) == f = [s \in SUBSET rows |-> IF s = {} THEN 0
                                              ELSE Picked(s).amount + f[s \ {Picked(s)}]]
Folded(rows) == CHOOSE f : Adds(f, rows)

\* A total, as the fold over sets that it is.
LEMMA TotalIsFolded ==
  ASSUME NEW rows
  PROVE  Total(rows) = Folded(rows)[rows]
BY DEF Total, MapThenSumSet, MapThenFoldSet, Folded, Adds, Picked

\* What is chosen from a set is in it.
LEMMA PickedIsThere ==
  ASSUME NEW s, s # {}
  PROVE  Picked(s) \in s
BY DEF Picked

\* Two foldings agree wherever both are defined.
LEMMA FoldsAgree ==
  ASSUME NEW S, NEW T, T \subseteq S, IsFiniteSet(S), NEW f, NEW g, Adds(f, S), Adds(g, T)
  PROVE  \A s \in SUBSET T : f[s] = g[s]
<1> DEFINE Bad == {s \in SUBSET T : f[s] # g[s]}
<1>1. SUFFICES ASSUME Bad # {} PROVE FALSE
  OBVIOUS
<1>2. IsFiniteSet(T)
  BY FS_Subset
<1>3. PICK m \in Bad : \A s \in Bad : s \subseteq m => s = m
  <2>1. Bad \in SUBSET SUBSET T
    OBVIOUS
  <2> HIDE DEF Bad
  <2> QED
    BY <2>1, <1>1, <1>2, MinimalSubset
<1>4. m # {}
  BY <1>3 DEF Adds
<1>5. Picked(m) \in m
  BY <1>4, PickedIsThere
<1>6. f[m] = Picked(m).amount + f[m \ {Picked(m)}]
  BY <1>4, <1>3 DEF Adds
<1>7. g[m] = Picked(m).amount + g[m \ {Picked(m)}]
  BY <1>4, <1>3 DEF Adds
<1>8. f[m \ {Picked(m)}] = g[m \ {Picked(m)}]
  <2>1. m \ {Picked(m)} \notin Bad
    BY <1>3, <1>5
  <2> QED
    BY <2>1, <1>3
<1> QED
  BY <1>6, <1>7, <1>8, <1>3

\* Every finite set of rows has a folding.
LEMMA FoldExists ==
  ASSUME NEW rows, IsFiniteSet(rows)
  PROVE  Adds(Folded(rows), rows)
<1> DEFINE Bad == {s \in SUBSET rows : ~ \E f : Adds(f, s)}
<1>1. SUFFICES ASSUME Bad # {} PROVE FALSE
  <2>1. rows \notin Bad => \E f : Adds(f, rows)
    OBVIOUS
  <2> QED
    BY <2>1 DEF Folded
<1>2. PICK m \in Bad : \A s \in Bad : s \subseteq m => s = m
  <2>1. Bad \in SUBSET SUBSET rows
    OBVIOUS
  <2> HIDE DEF Bad
  <2> QED
    BY <2>1, <1>1, MinimalSubset
<1>3. \A s \in SUBSET m : s # m => Adds(Folded(s), s)
  <2> SUFFICES ASSUME NEW s \in SUBSET m, s # m
               PROVE  \E f : Adds(f, s)
    BY DEF Folded
  <2>1. s \notin Bad /\ s \in SUBSET rows
    BY <1>2
  <2> QED
    BY <2>1
<1> DEFINE f == [s \in SUBSET m |-> IF s = {} THEN 0
                   ELSE IF s = m THEN Picked(m).amount + Folded(m \ {Picked(m)})[m \ {Picked(m)}]
                   ELSE Folded(s)[s]]
<1>4. ASSUME NEW s \in SUBSET m, s # {}
      PROVE  f[s] = Picked(s).amount + f[s \ {Picked(s)}]
  <2> DEFINE t == s \ {Picked(s)}
  <2>1. Picked(s) \in s
    BY <1>4, PickedIsThere
  <2>2. t \in SUBSET m /\ t # m /\ t \in SUBSET s /\ t # s
    BY <2>1
  <2>3. Adds(Folded(t), t)
    BY <2>2, <1>3
  <2>4. f[t] = Folded(t)[t]
    <3>1. CASE t = {}
      <4>1. Folded(t)[t] = 0
        BY <2>3, <3>1 DEF Adds
      <4> QED
        BY <4>1, <3>1, <2>2
    <3>2. CASE t # {}
      BY <3>2, <2>2
    <3> QED
      BY <3>1, <3>2
  <2>5. CASE s = m
    BY <2>4, <2>5, <1>4
  <2>6. CASE s # m
    <3>1. Adds(Folded(s), s)
      BY <2>6, <1>3
    <3>2. f[s] = Folded(s)[s]
      BY <1>4, <2>6
    <3>3. Folded(s)[s] = Picked(s).amount + Folded(s)[t]
      BY <3>1, <1>4 DEF Adds
    <3>4. IsFiniteSet(s)
      BY FS_Subset, <1>2
    <3>5. \A x \in SUBSET t : Folded(s)[x] = Folded(t)[x]
      BY <3>1, <2>3, <2>2, <3>4, FoldsAgree
    <3>6. Folded(s)[t] = Folded(t)[t]
      BY <3>5
    <3> QED
      BY <3>2, <3>3, <3>6, <2>4
  <2> QED
    BY <2>5, <2>6
<1>5. Adds(f, m)
  <2>1. \A s \in SUBSET m : f[s] = IF s = {} THEN 0 ELSE Picked(s).amount + f[s \ {Picked(s)}]
    BY <1>4
  <2>2. f = [s \in SUBSET m |-> f[s]]
    OBVIOUS
  <2> HIDE DEF f
  <2> QED
    BY <2>1, <2>2 DEF Adds
<1>6. \E g : Adds(g, m)
  BY <1>5
<1> QED
  BY <1>6, <1>2

\* The sum of a set with a row more.
Amounts(rows) == IsFiniteSet(rows) /\ \A r \in rows : r.amount \in Int

\* Nothing adds up to 0.
LEMMA TotalOfNone == Total({}) = 0
<1>1. IsFiniteSet({})
  BY FS_EmptySet
<1> QED
  BY <1>1, TotalIsFolded, FoldExists DEF Adds

\* A total is one of the rows and the total of the rest.
LEMMA TotalPicks ==
  ASSUME NEW rows, IsFiniteSet(rows), rows # {}
  PROVE  Total(rows) = Picked(rows).amount + Total(rows \ {Picked(rows)})
<1> DEFINE t == rows \ {Picked(rows)}
<1>1. IsFiniteSet(t) /\ t \in SUBSET rows
  BY FS_Subset
<1>2. Adds(Folded(rows), rows) /\ Adds(Folded(t), t)
  BY <1>1, FoldExists
<1>3. Folded(rows)[rows] = Picked(rows).amount + Folded(rows)[t]
  BY <1>2 DEF Adds
<1>4. \A x \in SUBSET t : Folded(rows)[x] = Folded(t)[x]
  BY <1>1, <1>2, FoldsAgree
<1>5. Folded(rows)[t] = Folded(t)[t]
  BY <1>4
<1> QED
  BY <1>3, <1>5, TotalIsFolded

\* Finitely many amounts add up to an integer.
LEMMA TotalIsInt ==
  ASSUME NEW rows, Amounts(rows)
  PROVE  Total(rows) \in Int
<1> DEFINE Bad == {s \in SUBSET rows : Total(s) \notin Int}
<1>1. SUFFICES ASSUME Bad # {} PROVE FALSE
  OBVIOUS
<1>2. PICK m \in Bad : \A s \in Bad : s \subseteq m => s = m
  <2>1. Bad \in SUBSET SUBSET rows
    OBVIOUS
  <2> HIDE DEF Bad
  <2> QED
    BY <2>1, <1>1, MinimalSubset DEF Amounts
<1>3. m # {}
  <2>1. Total({}) \in Int
    BY TotalOfNone
  <2>2. Total(m) \notin Int
    BY <1>2
  <2> HIDE DEF Bad
  <2> QED
    BY <2>1, <2>2
<1>4. Picked(m) \in m /\ IsFiniteSet(m)
  BY <1>3, PickedIsThere, <1>2, FS_Subset DEF Amounts
<1>5. Total(m \ {Picked(m)}) \in Int
  BY <1>2, <1>4
<1>6. Picked(m).amount \in Int
  BY <1>4, <1>2 DEF Amounts
<1>7. Total(m) = Picked(m).amount + Total(m \ {Picked(m)})
  BY <1>3, <1>4, TotalPicks
<1> QED
  BY <1>5, <1>6, <1>7, <1>2

\* Whichever row is taken out, the rest and the row add up to the sum.
LEMMA TotalTakesOut ==
  ASSUME NEW rows, Amounts(rows), NEW r \in rows
  PROVE  Total(rows) = r.amount + Total(rows \ {r})
<1> DEFINE Bad == {s \in SUBSET rows : \E x \in s : Total(s) # x.amount + Total(s \ {x})}
<1>1. SUFFICES ASSUME Bad # {} PROVE FALSE
  BY rows \notin Bad
<1>2. PICK m \in Bad : \A s \in Bad : s \subseteq m => s = m
  <2>1. Bad \in SUBSET SUBSET rows
    OBVIOUS
  <2> HIDE DEF Bad
  <2> QED
    BY <2>1, <1>1, MinimalSubset DEF Amounts
<1>3. PICK x \in m : Total(m) # x.amount + Total(m \ {x})
  BY <1>2
<1> DEFINE p == Picked(m)
<1>4. p \in m /\ m # {} /\ m \subseteq rows
  BY <1>2, <1>3, PickedIsThere
<1>5. \A s \in SUBSET m : IsFiniteSet(s) /\ Total(s) \in Int
  BY <1>4, FS_Subset, TotalIsInt DEF Amounts
<1>6. p.amount \in Int /\ x.amount \in Int
  BY <1>3, <1>4 DEF Amounts
<1>7. Total(m) = p.amount + Total(m \ {p})
  BY <1>4, <1>5, TotalPicks
<1>8. p # x
  BY <1>3, <1>7
<1>9. \A s \in SUBSET m : s # m => \A y \in s : Total(s) = y.amount + Total(s \ {y})
  BY <1>2, <1>4
<1>10. Total(m \ {p}) = x.amount + Total((m \ {p}) \ {x})
  BY <1>9, <1>4, <1>8
<1>11. Total(m \ {x}) = p.amount + Total((m \ {x}) \ {p})
  BY <1>9, <1>4, <1>8, <1>3
<1>12. (m \ {p}) \ {x} = (m \ {x}) \ {p}
  OBVIOUS
<1>13. Total((m \ {x}) \ {p}) \in Int
  BY <1>5
<1>14. Total(m) = p.amount + (x.amount + Total((m \ {x}) \ {p}))
  BY <1>7, <1>10, <1>12
<1>15. x.amount + Total(m \ {x}) = x.amount + (p.amount + Total((m \ {x}) \ {p}))
  BY <1>11
<1> DEFINE a == p.amount
           b == x.amount
           c == Total((m \ {x}) \ {p})
<1>16. a + (b + c) = b + (a + c)
  <2>1. a \in Int /\ b \in Int /\ c \in Int
    BY <1>6, <1>13
  <2> HIDE DEF a, b, c
  <2> QED
    BY <2>1
<1> QED
  BY <1>3, <1>14, <1>15, <1>16

\* A new row adds its amount to the total.
LEMMA TotalAddsRow ==
  ASSUME NEW rows, Amounts(rows), NEW r, r \notin rows, r.amount \in Int
  PROVE  /\ Amounts(rows \cup {r})
         /\ Total(rows \cup {r}) = Total(rows) + r.amount
<1>1. Amounts(rows \cup {r})
  BY FS_AddElement DEF Amounts
<1>2. Total(rows \cup {r}) = r.amount + Total((rows \cup {r}) \ {r})
  BY <1>1, TotalTakesOut
<1>3. (rows \cup {r}) \ {r} = rows
  OBVIOUS
<1>4. Total((rows \cup {r}) \ {r}) = Total(rows) /\ Total(rows) \in Int
  BY <1>3, TotalIsInt
<1>5. Total(rows \cup {r}) = r.amount + Total(rows)
  BY <1>2, <1>4
<1>6. r.amount + Total(rows) = Total(rows) + r.amount
  BY <1>4
<1> QED
  BY <1>1, <1>5, <1>6
-----------------------------------------------------------------------------
(* Types of the cases.                                                     *)

Entry == [action : {"ASSIGN", "RESOLVE", "REJECT", "ESCALATE"}, by : Moderators \cup {NoOne}]

\* An entry keeps the log's type.
LEMMA LoggedEntry ==
  ASSUME NEW t \in Cases, NEW m \in Moderators \cup {NoOne},
         NEW action \in {"ASSIGN", "RESOLVE", "REJECT", "ESCALATE"},
         log \in [Cases -> Seq(Entry)], _log_action(t, m, action)
  PROVE  log' \in [Cases -> Seq(Entry)]
<1>1. [action |-> action, by |-> m] \in Entry
  BY DEF Entry
<1>2. Append(log[t], [action |-> action, by |-> m]) \in Seq(Entry)
  BY <1>1
<1> QED
  BY <1>2 DEF _log_action


Statuses == {"ABSENT", "NEW", "OPEN", "IN_REVIEW", "ASSIGNED", "RESOLVED", "REJECTED"}

\* The types of the cases, apart from one another.
StatesTyped(s, r) == s \in [Cases -> Statuses] /\ r \in [Cases -> Moderators \cup {NoOne}]
DeadlinesTyped(d, s) == /\ d \in [Appeals -> Nat \cup {NoTime}]
                        /\ \A a \in Appeals : d[a] # NoTime <=> s[a] \in Active
EscalationsTyped(e, q, n) == /\ e \in [Appeals -> Nat \cup {NoTime}]
                             /\ q \subseteq Appeals /\ n \in [Appeals -> Nat]
LogTyped(l, b) == l \in [Cases -> Seq(Entry)] /\ b \subseteq Appeals

\* The types of the cases by their parts.
LEMMA CaseTypes ==
  CaseTypeOK <=> /\ now \in Nat /\ StatesTyped(status, resolver) /\ DeadlinesTyped(deadline, status)
                 /\ EscalationsTyped(escalated, to_alert, alerts) /\ LogTyped(log, unlogged)
<1>1. {"ABSENT", "NEW"} \cup Active \cup Closed = Statuses
  BY DEF Active, Closed, Statuses
<1> QED
  BY <1>1 DEF CaseTypeOK, Entry, StatesTyped, DeadlinesTyped, EscalationsTyped, LogTyped

\* And after a step.
LEMMA CaseTypesAfter ==
  ASSUME now' \in Nat, StatesTyped(status', resolver'), DeadlinesTyped(deadline', status'),
         EscalationsTyped(escalated', to_alert', alerts'), LogTyped(log', unlogged')
  PROVE  CaseTypeOK'
<1>1. {"ABSENT", "NEW"} \cup Active \cup Closed = Statuses
  BY DEF Active, Closed, Statuses
<1> QED
  BY <1>1 DEF CaseTypeOK, Entry, StatesTyped, DeadlinesTyped, EscalationsTyped, LogTyped

\* Every step of the cases keeps their types, whichever rows are locked.
LEMMA CaseStepKeepsTypes ==
  ASSUME NEW locked, CaseTypeOK, CaseNext(locked)
  PROVE  CaseTypeOK'
<1> USE CaseworkAssumption
<1>1. /\ now \in Nat /\ StatesTyped(status, resolver) /\ DeadlinesTyped(deadline, status)
      /\ EscalationsTyped(escalated, to_alert, alerts) /\ LogTyped(log, unlogged)
  BY CaseTypes
<1>2. Requests \subseteq Cases /\ Appeals \subseteq Cases
  BY DEF Cases
<1>3. ASSUME NEW r \in Requests, create_guarantor_request(r)
      PROVE  CaseTypeOK'
  <2>1. StatesTyped(status', resolver')
    BY <1>1, <1>2, <1>3 DEF create_guarantor_request, StatesTyped, Statuses
  <2>2. DeadlinesTyped(deadline', status')
    <3>1. deadline' = deadline /\ \A a \in Appeals : status'[a] = status[a]
      BY <1>1, <1>2, <1>3 DEF create_guarantor_request, appeal, StatesTyped
    <3> QED
      BY <1>1, <3>1 DEF DeadlinesTyped
  <2>3. UNCHANGED <<now, escalated, to_alert, alerts, log, unlogged>>
    BY <1>3 DEF create_guarantor_request, appeal
  <2> QED
    BY <1>1, <2>1, <2>2, <2>3, CaseTypesAfter
<1>4. ASSUME NEW r \in Requests, NEW m \in Moderators, guarantor_callbacks(m, r)
      PROVE  CaseTypeOK'
  <2>1. UNCHANGED <<now, unlogged, deadline, escalated, to_alert, alerts>>
    BY <1>4 DEF guarantor_callbacks, appeal
  <2>2. LogTyped(log', unlogged')
    <3>1. log' \in [Cases -> Seq(Entry)]
      BY <1>1, <1>4, <1>2, LoggedEntry DEF guarantor_callbacks, LogTyped
    <3> QED
      BY <1>1, <2>1, <3>1 DEF LogTyped
  <2>3. /\ status' \in {status, [status EXCEPT ![r] = "ASSIGNED"], [status EXCEPT ![r] = "REJECTED"]}
        /\ resolver' \in {resolver, [resolver EXCEPT ![r] = m]}
    BY <1>4 DEF guarantor_callbacks, assign_guarantor_request, reject_guarantor_request
  <2>4. StatesTyped(status', resolver')
    BY <1>1, <1>2, <2>3 DEF StatesTyped, Statuses
  <2>5. DeadlinesTyped(deadline', status')
    <3>1. \A a \in Appeals : status'[a] = status[a]
      BY <1>1, <1>2, <2>3 DEF StatesTyped
    <3> QED
      BY <1>1, <2>1, <3>1 DEF DeadlinesTyped
  <2> QED
    BY <1>1, <2>1, <2>2, <2>4, <2>5, CaseTypesAfter
<1>5. ASSUME NEW a \in Appeals, create_appeal_from_ref(a)
      PROVE  CaseTypeOK'
  <2>1. /\ status' = [status EXCEPT ![a] = "OPEN"]
        /\ deadline' = [deadline EXCEPT ![a] = now + OpenSla]
        /\ UNCHANGED <<now, resolver, log, unlogged, escalated, to_alert, alerts>>
    BY <1>5 DEF create_appeal_from_ref
  <2>2. StatesTyped(status', resolver')
    BY <1>1, <1>2, <2>1 DEF StatesTyped, Statuses
  <2>3. DeadlinesTyped(deadline', status')
    <3>1. now + OpenSla \in Nat
      BY <1>1
    <3>2. \A x \in Appeals : /\ status'[x] = IF x = a THEN "OPEN" ELSE status[x]
                             /\ deadline'[x] = IF x = a THEN now + OpenSla ELSE deadline[x]
      BY <1>1, <1>2, <2>1 DEF StatesTyped, DeadlinesTyped
    <3>3. deadline' \in [Appeals -> Nat \cup {NoTime}]
      BY <1>1, <2>1, <3>1 DEF DeadlinesTyped
    <3>4. now + OpenSla # NoTime
      BY <3>1
    <3> QED
      BY <1>1, <3>2, <3>3, <3>4 DEF DeadlinesTyped, Active
  <2> QED
    BY <1>1, <2>1, <2>2, <2>3, CaseTypesAfter
<1>6. ASSUME NEW m \in Moderators, NEW rows \in SUBSET Appeals, NEW v \in {"RESOLVED", "REJECTED"},
             finalize_appeal(m, rows, v)
      PROVE  /\ StatesTyped(status', resolver') /\ DeadlinesTyped(deadline', status')
             /\ UNCHANGED <<now, escalated, to_alert, alerts>>
  <2>1. /\ status' = [t \in Cases |-> IF t \in rows THEN v ELSE status[t]]
        /\ resolver' = [t \in Cases |-> IF t \in rows THEN m ELSE resolver[t]]
        /\ deadline' = [a \in Appeals |-> IF a \in rows THEN NoTime ELSE deadline[a]]
        /\ UNCHANGED <<now, escalated, to_alert, alerts>>
    BY <1>6 DEF finalize_appeal
  <2>2. StatesTyped(status', resolver')
    BY <1>1, <2>1 DEF StatesTyped, Statuses
  <2>3. DeadlinesTyped(deadline', status')
    BY <1>1, <1>2, <2>1 DEF DeadlinesTyped, Active
  <2> QED
    BY <2>1, <2>2, <2>3
<1>7. ASSUME NEW a \in Appeals, NEW m \in Moderators, decide_appeal(m, a)
      PROVE  CaseTypeOK'
  <2>1. log' \in [Cases -> Seq(Entry)]
    BY <1>1, <1>7, <1>2, LoggedEntry DEF decide_appeal, LogTyped
  <2>2. PICK v \in {"RESOLVED", "REJECTED"} : finalize_appeal(m, {a}, v)
    BY <1>7 DEF decide_appeal
  <2>3. unlogged' = unlogged
    BY <1>7 DEF decide_appeal
  <2>4. {a} \in SUBSET Appeals
    OBVIOUS
  <2>5. LogTyped(log', unlogged')
    BY <1>1, <2>1, <2>3 DEF LogTyped
  <2> QED
    BY <1>1, <1>6, <2>2, <2>4, <2>5, CaseTypesAfter
<1>8. ASSUME NEW rows \in SUBSET Appeals, NEW m \in Moderators, mark_appeal_in_review(m, rows)
      PROVE  CaseTypeOK'
  <2>1. /\ status' = [t \in Cases |-> IF t \in rows THEN "IN_REVIEW" ELSE status[t]]
        /\ resolver' = [t \in Cases |-> IF t \in rows THEN m ELSE resolver[t]]
        /\ deadline' = [a \in Appeals |-> IF a \in rows THEN now + ReviewSla ELSE deadline[a]]
        /\ UNCHANGED <<now, log, unlogged, escalated, to_alert, alerts>>
    BY <1>8 DEF mark_appeal_in_review
  <2>2. StatesTyped(status', resolver')
    BY <1>1, <2>1 DEF StatesTyped, Statuses
  <2>3. now + ReviewSla \in Nat /\ now + ReviewSla # NoTime
    BY <1>1
  <2>4. DeadlinesTyped(deadline', status')
    BY <1>1, <1>2, <2>1, <2>3 DEF DeadlinesTyped, Active
  <2> QED
    BY <1>1, <2>1, <2>2, <2>4, CaseTypesAfter
<1>9. ASSUME NEW rows \in SUBSET Appeals, NEW m \in Moderators, action_triage_bulk(m, rows)
      PROVE  CaseTypeOK'
  <2>1. PICK v \in {"RESOLVED", "REJECTED"} : finalize_appeal(m, rows, v)
    BY <1>9 DEF action_triage_bulk
  <2>2. LogTyped(log', unlogged')
    BY <1>1, <1>9 DEF action_triage_bulk, LogTyped
  <2> QED
    BY <1>1, <1>6, <2>1, <2>2, CaseTypesAfter
<1>10. ASSUME escalate_overdue_appeals(locked)
       PROVE  CaseTypeOK'
  <2>1. PICK batch \in SUBSET {a \in Appeals \ locked : Overdue(a)} :
          /\ escalated' = [a \in Appeals |-> IF a \in batch THEN now ELSE escalated[a]]
          /\ log' = [t \in Cases |-> IF t \in batch
                       THEN Append(log[t], [action |-> "ESCALATE", by |-> NoOne]) ELSE log[t]]
          /\ to_alert' = batch
          /\ UNCHANGED <<now, status, resolver, unlogged, deadline, alerts>>
    BY <1>10 DEF escalate_overdue_appeals
  <2>2. \A t \in Cases : Append(log[t], [action |-> "ESCALATE", by |-> NoOne]) \in Seq(Entry)
    <3>1. [action |-> "ESCALATE", by |-> NoOne] \in Entry
      BY DEF Entry
    <3> QED
      BY <1>1, <3>1 DEF LogTyped
  <2>3. LogTyped(log', unlogged')
    BY <1>1, <2>1, <2>2 DEF LogTyped
  <2>4. EscalationsTyped(escalated', to_alert', alerts')
    BY <1>1, <2>1 DEF EscalationsTyped
  <2> QED
    BY <1>1, <2>1, <2>3, <2>4, CaseTypesAfter
<1>11. ASSUME NEW a \in Appeals, send_escalation(a)
       PROVE  CaseTypeOK'
  <2>1. EscalationsTyped(escalated', to_alert', alerts')
    BY <1>1, <1>11 DEF send_escalation, EscalationsTyped
  <2>2. UNCHANGED <<now, status, resolver, log, unlogged, deadline>>
    BY <1>11 DEF send_escalation, case
  <2> QED
    BY <1>1, <2>1, <2>2, CaseTypesAfter
<1>12. CASE escalation_pass_is_lost
  <2>1. EscalationsTyped(escalated', to_alert', alerts')
    BY <1>1, <1>12 DEF escalation_pass_is_lost, EscalationsTyped
  <2>2. UNCHANGED <<now, status, resolver, log, unlogged, deadline>>
    BY <1>12 DEF escalation_pass_is_lost, case
  <2> QED
    BY <1>1, <2>1, <2>2, CaseTypesAfter
<1>13. CASE Tick
  <2>1. now' \in Nat
    BY <1>1, <1>13 DEF Tick
  <2>2. UNCHANGED <<status, resolver, log, unlogged, deadline, escalated, to_alert, alerts>>
    BY <1>13 DEF Tick, case, appeal
  <2> QED
    BY <1>1, <2>1, <2>2, CaseTypesAfter
<1>14. \A r \in Requests \ locked : r \in Requests
  OBVIOUS
<1>15. \A a \in Appeals \ locked : a \in Appeals
  OBVIOUS
<1>16. \A rows \in SUBSET (Appeals \ locked) : rows \in SUBSET Appeals
  OBVIOUS
<1> QED
  BY <1>3, <1>4, <1>5, <1>7, <1>8, <1>9, <1>10, <1>11, <1>12, <1>13, <1>14, <1>15, <1>16
     DEF CaseNext, run_appeal_escalation_watcher
-----------------------------------------------------------------------------
(* What the moderation log tells of a case.                                *)

EntriesOf(l, action) == {n \in DOMAIN l : l[n].action = action}
TookBy(l, action, m) == EntriesOf(l, action) # {} /\ \A n \in EntriesOf(l, action) : l[n].by = m

RequestLogged(l, s, m) ==
  /\ IF s = "ASSIGNED" THEN TookBy(l, "ASSIGN", m) ELSE EntriesOf(l, "ASSIGN") = {}
  /\ EntriesOf(l, "REJECT") # {} <=> s = "REJECTED"

VerdictLogged(a, l, s, m, b, v, action) ==
  IF s = v /\ a \notin b THEN Cardinality(EntriesOf(l, action)) = 1 /\ TookBy(l, action, m)
                         ELSE EntriesOf(l, action) = {}

AppealLogged(a, l, s, m, e, b) ==
  /\ VerdictLogged(a, l, s, m, b, "RESOLVED", "RESOLVE")
  /\ VerdictLogged(a, l, s, m, b, "REJECTED", "REJECT")
  /\ Cardinality(EntriesOf(l, "ESCALATE")) = IF e # NoTime THEN 1 ELSE 0

\* A button that finds an appeal waiting finds one no form has decided.
UnloggedAreDecided == \A a \in unlogged : status[a] \in {"RESOLVED", "REJECTED"}

\* The inductive invariant.
CaseInv ==
  /\ CaseTypeOK /\ AlertsAreTrue /\ UnloggedAreDecided
  /\ \A r \in Requests : RequestLogged(log[r], status[r], resolver[r])
  /\ \A a \in Appeals : AppealLogged(a, log[a], status[a], resolver[a], escalated[a], unlogged)

\* The invariant of the cases is enough for LogTellsTheCase.
LEMMA CaseInvTells ==
  ASSUME CaseInv
  PROVE  LogTellsTheCase
<1>1. \A t, action : /\ Entries(t, action) = EntriesOf(log[t], action)
                     /\ Took(t, action) <=> TookBy(log[t], action, resolver[t])
  BY DEF Entries, EntriesOf, Took, TookBy
<1>2. CaseTypeOK /\ AlertsAreTrue
  BY DEF CaseInv
<1>3. ASSUME NEW r \in Requests
      PROVE  /\ IF status[r] = "ASSIGNED" THEN Took(r, "ASSIGN") ELSE Entries(r, "ASSIGN") = {}
             /\ Entries(r, "REJECT") # {} <=> status[r] = "REJECTED"
  BY <1>1 DEF CaseInv, RequestLogged
<1>4. ASSUME NEW a \in Appeals
      PROVE  /\ \A v \in {<<"RESOLVED", "RESOLVE">>, <<"REJECTED", "REJECT">>} :
                  /\ Entries(a, v[2]) # {} => /\ status[a] = v[1]
                                              /\ Cardinality(Entries(a, v[2])) = 1 /\ Took(a, v[2])
                  /\ status[a] = v[1] /\ a \notin unlogged => Entries(a, v[2]) # {}
             /\ Cardinality(Entries(a, "ESCALATE")) = IF escalated[a] # NoTime THEN 1 ELSE 0
  <2>1. AppealLogged(a, log[a], status[a], resolver[a], escalated[a], unlogged)
    BY DEF CaseInv
  <2>2. /\ Entries(a, "RESOLVE") # {} => /\ status[a] = "RESOLVED"
                                         /\ Cardinality(Entries(a, "RESOLVE")) = 1 /\ Took(a, "RESOLVE")
        /\ status[a] = "RESOLVED" /\ a \notin unlogged => Entries(a, "RESOLVE") # {}
    <3>1. IF status[a] = "RESOLVED" /\ a \notin unlogged
            THEN Cardinality(Entries(a, "RESOLVE")) = 1 /\ Took(a, "RESOLVE")
            ELSE Entries(a, "RESOLVE") = {}
      BY <2>1, <1>1 DEF AppealLogged, VerdictLogged
    <3> QED
      BY <3>1 DEF Took
  <2>3. /\ Entries(a, "REJECT") # {} => /\ status[a] = "REJECTED"
                                         /\ Cardinality(Entries(a, "REJECT")) = 1 /\ Took(a, "REJECT")
        /\ status[a] = "REJECTED" /\ a \notin unlogged => Entries(a, "REJECT") # {}
    <3>1. IF status[a] = "REJECTED" /\ a \notin unlogged
            THEN Cardinality(Entries(a, "REJECT")) = 1 /\ Took(a, "REJECT")
            ELSE Entries(a, "REJECT") = {}
      BY <2>1, <1>1 DEF AppealLogged, VerdictLogged
    <3> QED
      BY <3>1 DEF Took
  <2>4. Cardinality(Entries(a, "ESCALATE")) = IF escalated[a] # NoTime THEN 1 ELSE 0
    BY <2>1, <1>1 DEF AppealLogged
  <2> QED
    BY <2>2, <2>3, <2>4
<1> QED
  BY <1>2, <1>3, <1>4 DEF LogTellsTheCase

\* One entry more.
LEMMA EntryAdded ==
  ASSUME NEW l \in Seq(Entry), NEW e \in Entry
  PROVE  /\ \A action : action # e.action => EntriesOf(Append(l, e), action) = EntriesOf(l, action)
         /\ EntriesOf(Append(l, e), e.action) = EntriesOf(l, e.action) \cup {Len(l) + 1}
         /\ \A action : EntriesOf(l, action) \subseteq 1..Len(l)
         /\ \A n \in 1..Len(l) : Append(l, e)[n] = l[n]
         /\ Append(l, e)[Len(l) + 1] = e
<1>1. /\ Len(Append(l, e)) = Len(l) + 1 /\ Len(l) \in Nat
      /\ DOMAIN l = 1..Len(l) /\ DOMAIN Append(l, e) = 1..(Len(l) + 1)
      /\ \A n \in 1..Len(l) : Append(l, e)[n] = l[n]
      /\ Append(l, e)[Len(l) + 1] = e
  OBVIOUS
<1>2. 1..(Len(l) + 1) = (1..Len(l)) \cup {Len(l) + 1} /\ Len(l) + 1 \notin 1..Len(l)
  BY <1>1
<1> DEFINE s == Append(l, e)
           k == Len(l) + 1
           d == 1..Len(l)
<1>3. /\ DOMAIN s = d \cup {k} /\ k \notin d /\ DOMAIN l = d
      /\ \A n \in d : s[n] = l[n]
      /\ s[k] = e
  BY <1>1, <1>2
<1> HIDE DEF s, k, d
<1>4. /\ \A action : action # e.action => EntriesOf(s, action) = EntriesOf(l, action)
      /\ EntriesOf(s, e.action) = EntriesOf(l, e.action) \cup {k}
      /\ \A action : EntriesOf(l, action) \subseteq d
  BY <1>3 DEF EntriesOf
<1> QED
  BY <1>1, <1>4 DEF s, k, d

\* The first entry of its kind.
LEMMA FirstEntry ==
  ASSUME NEW l \in Seq(Entry), NEW e \in Entry, EntriesOf(l, e.action) = {}
  PROVE  TookBy(Append(l, e), e.action, e.by) /\ Cardinality(EntriesOf(Append(l, e), e.action)) = 1
<1>1. EntriesOf(Append(l, e), e.action) = {Len(l) + 1}
  <2>1. EntriesOf(Append(l, e), e.action) = EntriesOf(l, e.action) \cup {Len(l) + 1}
    BY EntryAdded
  <2> QED
    BY <2>1
<1>2. Cardinality({Len(l) + 1}) = 1
  BY FS_Singleton
<1> QED
  BY <1>1, <1>2, EntryAdded DEF TookBy

\* Entries of another kind are told as before.
LEMMA OtherEntries ==
  ASSUME NEW l \in Seq(Entry), NEW e \in Entry, NEW action, action # e.action
  PROVE  /\ EntriesOf(Append(l, e), action) = EntriesOf(l, action)
         /\ \A m : TookBy(Append(l, e), action, m) <=> TookBy(l, action, m)
<1>1. /\ EntriesOf(Append(l, e), action) = EntriesOf(l, action)
      /\ EntriesOf(l, action) \subseteq 1..Len(l)
      /\ \A n \in 1..Len(l) : Append(l, e)[n] = l[n]
  BY EntryAdded
<1>2. \A n \in EntriesOf(l, action) : Append(l, e)[n] = l[n]
  BY <1>1
<1> QED
  BY <1>1, <1>2 DEF TookBy

Wrote(action, m) == [action |-> action, by |-> m]

\* A request that is free, or the moderator's already, is the moderator's.
LEMMA RequestIsTaken ==
  ASSUME NEW l \in Seq(Entry), NEW m \in Moderators, NEW s, NEW by, RequestLogged(l, s, by),
         s = "NEW" \/ (s = "ASSIGNED" /\ by = m)
  PROVE  RequestLogged(Append(l, Wrote("ASSIGN", m)), "ASSIGNED", m)
<1> DEFINE e == Wrote("ASSIGN", m)
<1>1. e \in Entry /\ e.action = "ASSIGN" /\ e.by = m
  BY DEF Wrote, Entry
<1> HIDE DEF e
<1>2. EntriesOf(Append(l, e), "REJECT") = EntriesOf(l, "REJECT")
  BY <1>1, OtherEntries
<1>3. EntriesOf(l, "REJECT") = {}
  BY DEF RequestLogged
<1>4. TookBy(Append(l, e), "ASSIGN", m)
  <2>1. CASE s = "NEW"
    BY <2>1, <1>1, FirstEntry DEF RequestLogged
  <2>2. CASE s = "ASSIGNED" /\ by = m
    <3>1. TookBy(l, "ASSIGN", m)
      BY <2>2 DEF RequestLogged
    <3>2. EntriesOf(l, "ASSIGN") # {} /\ \A n \in EntriesOf(l, "ASSIGN") : l[n].by = m
      BY <3>1 DEF TookBy
    <3>3. /\ EntriesOf(Append(l, e), e.action) = EntriesOf(l, e.action) \cup {Len(l) + 1}
          /\ EntriesOf(l, e.action) \subseteq 1..Len(l)
          /\ \A n \in 1..Len(l) : Append(l, e)[n] = l[n]
          /\ Append(l, e)[Len(l) + 1] = e
      BY <1>1, EntryAdded
    <3> QED
      BY <3>2, <3>3, <1>1 DEF TookBy
  <2> QED
    BY <2>1, <2>2
<1> QED
  BY <1>2, <1>3, <1>4 DEF RequestLogged, e

\* A request that is free, or rejected already, is rejected.
LEMMA RequestIsRejected ==
  ASSUME NEW l \in Seq(Entry), NEW m \in Moderators, NEW s \in {"NEW", "REJECTED"}, NEW by, NEW to,
         RequestLogged(l, s, by)
  PROVE  RequestLogged(Append(l, Wrote("REJECT", m)), "REJECTED", to)
<1> DEFINE e == Wrote("REJECT", m)
<1>1. e \in Entry /\ e.action = "REJECT"
  BY DEF Wrote, Entry
<1> HIDE DEF e
<1>2. EntriesOf(Append(l, e), "ASSIGN") = EntriesOf(l, "ASSIGN")
  BY <1>1, OtherEntries
<1>3. EntriesOf(l, "ASSIGN") = {}
  BY DEF RequestLogged
<1>4. EntriesOf(Append(l, e), "REJECT") # {}
  BY <1>1, EntryAdded
<1> QED
  BY <1>2, <1>3, <1>4 DEF RequestLogged, e

\* A verdict on an appeal that waits, and that no form has decided.
LEMMA AppealIsDecided ==
  ASSUME NEW l \in Seq(Entry), NEW m \in Moderators, NEW a, NEW s \in Active, NEW by, NEW t, NEW b,
         a \notin b, AppealLogged(a, l, s, by, t, b)
  PROVE  /\ AppealLogged(a, Append(l, Wrote("RESOLVE", m)), "RESOLVED", m, t, b)
         /\ AppealLogged(a, Append(l, Wrote("REJECT", m)), "REJECTED", m, t, b)
<1>1. EntriesOf(l, "RESOLVE") = {} /\ EntriesOf(l, "REJECT") = {}
  BY DEF AppealLogged, VerdictLogged, Active
<1>2. \A action \in {"RESOLVE", "REJECT"} :
        LET e == Wrote(action, m)
        IN /\ TookBy(Append(l, e), action, m) /\ Cardinality(EntriesOf(Append(l, e), action)) = 1
           /\ \A x : x # action => EntriesOf(Append(l, e), x) = EntriesOf(l, x)
  <2> TAKE action \in {"RESOLVE", "REJECT"}
  <2> DEFINE e == Wrote(action, m)
  <2>1. e \in Entry /\ e.action = action /\ e.by = m
    BY DEF Wrote, Entry
  <2> HIDE DEF e
  <2>2. TookBy(Append(l, e), action, m) /\ Cardinality(EntriesOf(Append(l, e), action)) = 1
    BY <1>1, <2>1, FirstEntry
  <2>3. \A x : x # action => EntriesOf(Append(l, e), x) = EntriesOf(l, x)
    BY <2>1, EntryAdded
  <2> QED
    BY <2>2, <2>3 DEF e
<1> QED
  BY <1>1, <1>2 DEF AppealLogged, VerdictLogged

\* The mark of an escalation and its entry.
LEMMA AppealIsEscalated ==
  ASSUME NEW l \in Seq(Entry), NEW a, NEW s, NEW by, NEW t \in Nat, NEW b,
         AppealLogged(a, l, s, by, NoTime, b)
  PROVE  AppealLogged(a, Append(l, Wrote("ESCALATE", NoOne)), s, by, t, b)
<1> DEFINE e == Wrote("ESCALATE", NoOne)
<1>1. e \in Entry /\ e.action = "ESCALATE"
  BY DEF Wrote, Entry
<1> HIDE DEF e
<1>2. EntriesOf(l, "ESCALATE") = {}
  <2>1. Cardinality(EntriesOf(l, "ESCALATE")) = 0
    BY DEF AppealLogged
  <2>2. EntriesOf(l, "ESCALATE") \subseteq 1..Len(l) /\ Len(l) \in Nat
    BY <1>1, EntryAdded
  <2>3. IsFiniteSet(EntriesOf(l, "ESCALATE"))
    <3>1. IsFiniteSet(1..Len(l))
      BY <2>2, FS_Interval, 1 \in Int, Len(l) \in Int
    <3> QED
      BY <3>1, <2>2, FS_Subset
  <2> QED
    BY <2>1, <2>3, FS_EmptySet
<1>3. Cardinality(EntriesOf(Append(l, e), "ESCALATE")) = 1
  BY <1>1, <1>2, FirstEntry
<1>4. \A x \in {"RESOLVE", "REJECT"} :
        /\ EntriesOf(Append(l, e), x) = EntriesOf(l, x)
        /\ TookBy(Append(l, e), x, by) <=> TookBy(l, x, by)
  BY <1>1, OtherEntries
<1>5. t # NoTime
  BY CaseworkAssumption
<1> QED
  BY <1>3, <1>4, <1>5 DEF AppealLogged, VerdictLogged, e

\* The log goes on telling the cases, whatever step is taken.
LEMMA CaseStepKeepsLog ==
  ASSUME NEW locked, CaseInv, CaseNext(locked)
  PROVE  CaseInv'
<1> USE CaseworkAssumption
<1>1. /\ CaseTypeOK /\ AlertsAreTrue /\ UnloggedAreDecided
      /\ \A r \in Requests : RequestLogged(log[r], status[r], resolver[r])
      /\ \A a \in Appeals : AppealLogged(a, log[a], status[a], resolver[a], escalated[a], unlogged)
  BY DEF CaseInv
<1>2. /\ now \in Nat /\ StatesTyped(status, resolver) /\ DeadlinesTyped(deadline, status)
      /\ EscalationsTyped(escalated, to_alert, alerts) /\ LogTyped(log, unlogged)
  BY <1>1, CaseTypes
<1>3. Requests \subseteq Cases /\ Appeals \subseteq Cases
  BY DEF Cases
<1>4. \A t \in Cases : log[t] \in Seq(Entry)
  BY <1>2 DEF LogTyped
<1>5. CaseTypeOK'
  BY <1>1, CaseStepKeepsTypes
<1>6. ASSUME UNCHANGED <<escalated, to_alert, alerts>>
      PROVE  AlertsAreTrue'
  BY <1>1, <1>6 DEF AlertsAreTrue
<1>7. ASSUME NEW r \in Requests, create_guarantor_request(r)
      PROVE  CaseInv'
  <2>1. /\ status' = [status EXCEPT ![r] = "NEW"] /\ status[r] = "ABSENT"
        /\ UNCHANGED <<now, resolver, log, unlogged, deadline, escalated, to_alert, alerts>>
    BY <1>7 DEF create_guarantor_request, appeal
  <2>2. \A t \in Cases : status'[t] = IF t = r THEN "NEW" ELSE status[t]
    BY <1>2, <2>1 DEF StatesTyped
  <2>3. RequestLogged(log[r], "NEW", resolver[r])
    BY <1>1, <2>1 DEF RequestLogged
  <2>4. \A x \in Requests : RequestLogged(log'[x], status'[x], resolver'[x])
    BY <1>1, <1>3, <2>1, <2>2, <2>3
  <2>5. \A a \in Appeals : status'[a] = status[a]
    BY <1>3, <2>2
  <2>6. \A a \in Appeals : AppealLogged(a, log'[a], status'[a], resolver'[a], escalated'[a], unlogged')
    BY <1>1, <2>1, <2>5
  <2>7. UnloggedAreDecided'
    BY <1>1, <1>2, <2>1, <2>5 DEF UnloggedAreDecided, LogTyped
  <2> QED
    BY <1>5, <1>6, <2>1, <2>4, <2>6, <2>7 DEF CaseInv
<1>8. ASSUME NEW r \in Requests, NEW m \in Moderators, guarantor_callbacks(m, r)
      PROVE  CaseInv'
  <2>1. UNCHANGED <<now, unlogged, deadline, escalated, to_alert, alerts>>
    BY <1>8 DEF guarantor_callbacks, appeal
  <2>2. CASE assign_guarantor_request(m, r) /\ _log_action(r, m, "ASSIGN")
    <3>1. /\ log' = [log EXCEPT ![r] = Append(@, Wrote("ASSIGN", m))]
          /\ status[r] = "NEW" \/ (status[r] = "ASSIGNED" /\ resolver[r] = m)
          /\ \A t \in Cases : status'[t] = IF t = r THEN "ASSIGNED" ELSE status[t]
          /\ \A t \in Cases : resolver'[t] = IF t = r THEN m ELSE resolver[t]
      BY <1>2, <2>2, <1>3 DEF assign_guarantor_request, _log_action, Wrote, StatesTyped
    <3>2. \A t \in Cases : log'[t] = IF t = r THEN Append(log[r], Wrote("ASSIGN", m)) ELSE log[t]
      BY <1>2, <3>1 DEF LogTyped
    <3>3. RequestLogged(Append(log[r], Wrote("ASSIGN", m)), "ASSIGNED", m)
      BY <1>1, <1>3, <1>4, <3>1, RequestIsTaken
    <3>4. \A x \in Requests : RequestLogged(log'[x], status'[x], resolver'[x])
      BY <1>1, <1>3, <3>1, <3>2, <3>3
    <3>5. \A a \in Appeals : status'[a] = status[a] /\ resolver'[a] = resolver[a] /\ log'[a] = log[a]
      BY <1>3, <3>1, <3>2
    <3> QED
      BY <1>1, <1>2, <1>5, <1>6, <2>1, <3>4, <3>5 DEF CaseInv, UnloggedAreDecided, LogTyped
  <2>3. CASE reject_guarantor_request(m, r) /\ _log_action(r, m, "REJECT")
    <3>1. /\ log' = [log EXCEPT ![r] = Append(@, Wrote("REJECT", m))]
          /\ status[r] \in {"NEW", "REJECTED"}
          /\ \A t \in Cases : status'[t] = IF t = r THEN "REJECTED" ELSE status[t]
          /\ \A t \in Cases : t # r => resolver'[t] = resolver[t]
      BY <1>2, <2>3, <1>3 DEF reject_guarantor_request, _log_action, Wrote, StatesTyped
    <3>2. \A t \in Cases : log'[t] = IF t = r THEN Append(log[r], Wrote("REJECT", m)) ELSE log[t]
      BY <1>2, <3>1 DEF LogTyped
    <3>3. RequestLogged(Append(log[r], Wrote("REJECT", m)), "REJECTED", resolver'[r])
      BY <1>1, <1>3, <1>4, <3>1, RequestIsRejected
    <3>4. \A x \in Requests : RequestLogged(log'[x], status'[x], resolver'[x])
      BY <1>1, <1>3, <3>1, <3>2, <3>3
    <3>5. \A a \in Appeals : status'[a] = status[a] /\ resolver'[a] = resolver[a] /\ log'[a] = log[a]
      BY <1>3, <3>1, <3>2
    <3> QED
      BY <1>1, <1>2, <1>5, <1>6, <2>1, <3>4, <3>5 DEF CaseInv, UnloggedAreDecided, LogTyped
  <2> QED
    BY <1>8, <2>2, <2>3 DEF guarantor_callbacks
<1>9. ASSUME NEW a \in Appeals, create_appeal_from_ref(a)
      PROVE  CaseInv'
  <2>1. /\ status' = [status EXCEPT ![a] = "OPEN"] /\ status[a] = "ABSENT"
        /\ UNCHANGED <<resolver, log, unlogged, escalated, to_alert, alerts>>
    BY <1>9 DEF create_appeal_from_ref
  <2>2. \A t \in Cases : status'[t] = IF t = a THEN "OPEN" ELSE status[t]
    BY <1>2, <2>1 DEF StatesTyped
  <2>3. AppealLogged(a, log[a], "OPEN", resolver[a], escalated[a], unlogged)
    BY <1>1, <2>1 DEF AppealLogged, VerdictLogged
  <2>4. \A x \in Appeals : AppealLogged(x, log'[x], status'[x], resolver'[x], escalated'[x], unlogged')
    BY <1>1, <1>3, <2>1, <2>2, <2>3
  <2>5. \A x \in Requests : status'[x] = status[x]
    BY <1>3, <2>2
  <2>6. \A x \in Requests : RequestLogged(log'[x], status'[x], resolver'[x])
    BY <1>1, <2>1, <2>5
  <2>7. UnloggedAreDecided'
    BY <1>1, <1>2, <1>3, <2>1, <2>2 DEF UnloggedAreDecided, LogTyped
  <2> QED
    BY <1>5, <1>6, <2>1, <2>4, <2>6, <2>7 DEF CaseInv
<1>10. \A a \in Appeals : status[a] \in Active => a \notin unlogged
  BY <1>1 DEF UnloggedAreDecided, Active
<1>11. ASSUME NEW a \in Appeals, NEW m \in Moderators, decide_appeal(m, a)
       PROVE  CaseInv'
  <2>1. PICK v \in {<<"RESOLVED", "RESOLVE">>, <<"REJECTED", "REJECT">>} :
          finalize_appeal(m, {a}, v[1]) /\ _log_action(a, m, v[2])
    BY <1>11 DEF decide_appeal
  <2>2. /\ status[a] \in Active
        /\ \A t \in Cases : status'[t] = IF t = a THEN v[1] ELSE status[t]
        /\ \A t \in Cases : resolver'[t] = IF t = a THEN m ELSE resolver[t]
        /\ UNCHANGED <<escalated, to_alert, alerts>>
    BY <2>1 DEF finalize_appeal
  <2>3. unlogged' = unlogged
    BY <1>11 DEF decide_appeal
  <2>4. \A t \in Cases : log'[t] = IF t = a THEN Append(log[a], Wrote(v[2], m)) ELSE log[t]
    BY <1>2, <2>1 DEF _log_action, Wrote, LogTyped
  <2>5. AppealLogged(a, Append(log[a], Wrote(v[2], m)), v[1], m, escalated[a], unlogged)
    BY <1>1, <1>3, <1>4, <1>10, <2>2, AppealIsDecided
  <2>6. \A x \in Appeals : AppealLogged(x, log'[x], status'[x], resolver'[x], escalated'[x], unlogged')
    BY <1>1, <1>3, <2>2, <2>3, <2>4, <2>5
  <2>7. \A x \in Requests : status'[x] = status[x] /\ resolver'[x] = resolver[x] /\ log'[x] = log[x]
    BY <1>3, <2>2, <2>4
  <2>8. UnloggedAreDecided'
    BY <1>1, <1>2, <1>3, <1>10, <2>2, <2>3 DEF UnloggedAreDecided, LogTyped
  <2> QED
    BY <1>1, <1>5, <1>6, <2>2, <2>6, <2>7, <2>8 DEF CaseInv
<1>12. ASSUME NEW rows \in SUBSET Appeals, NEW m \in Moderators, mark_appeal_in_review(m, rows)
       PROVE  CaseInv'
  <2>1. /\ \A x \in rows : status[x] = "OPEN"
        /\ \A t \in Cases : status'[t] = IF t \in rows THEN "IN_REVIEW" ELSE status[t]
        /\ \A t \in Cases : resolver'[t] = IF t \in rows THEN m ELSE resolver[t]
        /\ UNCHANGED <<log, unlogged, escalated, to_alert, alerts>>
    BY <1>12 DEF mark_appeal_in_review
  <2>2. \A a \in rows : AppealLogged(a, log[a], "IN_REVIEW", m, escalated[a], unlogged)
    BY <1>1, <2>1 DEF AppealLogged, VerdictLogged
  <2>3. \A x \in Appeals : AppealLogged(x, log'[x], status'[x], resolver'[x], escalated'[x], unlogged')
    BY <1>1, <1>3, <2>1, <2>2
  <2>4. \A x \in Requests : status'[x] = status[x] /\ resolver'[x] = resolver[x]
    BY <1>3, <2>1
  <2>5. UnloggedAreDecided'
    BY <1>1, <1>2, <1>3, <2>1 DEF UnloggedAreDecided, LogTyped
  <2> QED
    BY <1>1, <1>5, <1>6, <2>1, <2>3, <2>4, <2>5 DEF CaseInv
<1>13. ASSUME NEW rows \in SUBSET Appeals, NEW m \in Moderators, action_triage_bulk(m, rows)
       PROVE  CaseInv'
  <2>1. PICK v \in {"RESOLVED", "REJECTED"} : finalize_appeal(m, rows, v)
    BY <1>13 DEF action_triage_bulk
  <2>2. unlogged' = unlogged \cup rows /\ log' = log
    BY <1>13 DEF action_triage_bulk
  <2>3. /\ \A x \in rows : status[x] \in Active
        /\ \A t \in Cases : status'[t] = IF t \in rows THEN v ELSE status[t]
        /\ \A t \in Cases : resolver'[t] = IF t \in rows THEN m ELSE resolver[t]
        /\ UNCHANGED <<escalated, to_alert, alerts>>
    BY <2>1 DEF finalize_appeal
  <2>4. ASSUME NEW a \in rows
        PROVE  AppealLogged(a, log[a], v, m, escalated[a], unlogged \cup rows)
    <3>1. AppealLogged(a, log[a], status[a], resolver[a], escalated[a], unlogged)
      BY <1>1
    <3>2. status[a] # "RESOLVED" /\ status[a] # "REJECTED" /\ a \in unlogged \cup rows
      BY <2>3 DEF Active
    <3> QED
      BY <3>1, <3>2 DEF AppealLogged, VerdictLogged
  <2>5. \A a \in Appeals \ rows :
          AppealLogged(a, log[a], status[a], resolver[a], escalated[a], unlogged \cup rows)
    BY <1>1 DEF AppealLogged, VerdictLogged
  <2>6. \A x \in Appeals : AppealLogged(x, log'[x], status'[x], resolver'[x], escalated'[x], unlogged')
    BY <1>3, <2>2, <2>3, <2>4, <2>5
  <2>7. \A x \in Requests : status'[x] = status[x] /\ resolver'[x] = resolver[x]
    BY <1>3, <2>3
  <2>8. UnloggedAreDecided'
    BY <1>1, <1>2, <1>3, <2>2, <2>3 DEF UnloggedAreDecided, LogTyped
  <2> QED
    BY <1>1, <1>5, <1>6, <2>2, <2>3, <2>6, <2>7, <2>8 DEF CaseInv
<1>14. CASE escalate_overdue_appeals(locked)
  <2>1. PICK batch \in SUBSET {a \in Appeals \ locked : Overdue(a)} :
          /\ escalated' = [a \in Appeals |-> IF a \in batch THEN now ELSE escalated[a]]
          /\ log' = [t \in Cases |-> IF t \in batch
                       THEN Append(log[t], [action |-> "ESCALATE", by |-> NoOne]) ELSE log[t]]
          /\ to_alert' = batch
          /\ UNCHANGED <<now, status, resolver, unlogged, deadline, alerts>>
    BY <1>14 DEF escalate_overdue_appeals
  <2>2. to_alert = {}
    BY <1>14 DEF escalate_overdue_appeals
  <2>3. \A a \in batch : a \in Appeals /\ escalated[a] = NoTime
    BY DEF Overdue
  <2>4. \A a \in batch : AppealLogged(a, Append(log[a], Wrote("ESCALATE", NoOne)), status[a], resolver[a],
                                      now, unlogged)
    BY <1>1, <1>2, <1>3, <1>4, <2>3, AppealIsEscalated
  <2>5. \A a \in Appeals : escalated'[a] = IF a \in batch THEN now ELSE escalated[a]
    BY <2>1
  <2>6. \A t \in Cases : log'[t] = IF t \in batch THEN Append(log[t], Wrote("ESCALATE", NoOne)) ELSE log[t]
    BY <2>1 DEF Wrote
  <2>7. \A x \in Appeals : AppealLogged(x, log'[x], status'[x], resolver'[x], escalated'[x], unlogged')
    BY <1>1, <1>3, <2>1, <2>4, <2>5, <2>6
  <2>8. \A x \in Requests : log'[x] = log[x]
    BY <1>3, <2>3, <2>6
  <2>9. AlertsAreTrue'
    <3>1. now # NoTime
      BY <1>2
    <3>2. \A a \in batch : alerts[a] <= 1 /\ ~(alerts[a] > 0)
      BY <1>1, <2>3 DEF AlertsAreTrue
    <3>3. \A a \in batch : alerts[a] = 0
      BY <1>2, <2>3, <3>2 DEF EscalationsTyped
    <3> QED
      BY <1>1, <2>1, <2>2, <2>3, <2>5, <3>1, <3>3 DEF AlertsAreTrue
  <2>10. UnloggedAreDecided'
    BY <1>1, <2>1 DEF UnloggedAreDecided
  <2> QED
    BY <1>1, <1>5, <2>1, <2>7, <2>8, <2>9, <2>10 DEF CaseInv
<1>15. ASSUME UNCHANGED <<case, escalated>>, AlertsAreTrue'
       PROVE  CaseInv'
  BY <1>1, <1>5, <1>15 DEF CaseInv, case, UnloggedAreDecided
<1>16. ASSUME NEW a \in Appeals, send_escalation(a)
       PROVE  CaseInv'
  <2>1. /\ a \in to_alert /\ to_alert' = to_alert \ {a}
        /\ \A x \in Appeals : alerts'[x] = IF x = a THEN alerts[a] + 1 ELSE alerts[x]
        /\ UNCHANGED <<case, escalated>>
    BY <1>2, <1>16 DEF send_escalation, EscalationsTyped
  <2>2. alerts[a] = 0 /\ escalated[a] # NoTime
    BY <1>1, <2>1 DEF AlertsAreTrue
  <2>3. AlertsAreTrue'
    BY <1>1, <2>1, <2>2 DEF AlertsAreTrue
  <2> QED
    BY <1>15, <2>1, <2>3
<1>17. CASE escalation_pass_is_lost
  <2>1. to_alert' = {} /\ UNCHANGED <<case, escalated, alerts>>
    BY <1>17 DEF escalation_pass_is_lost
  <2>2. AlertsAreTrue'
    BY <1>1, <2>1 DEF AlertsAreTrue
  <2> QED
    BY <1>15, <2>1, <2>2
<1>18. CASE Tick
  BY <1>6, <1>15, <1>18 DEF Tick, appeal
<1>19. \A r \in Requests \ locked : r \in Requests
  OBVIOUS
<1>20. \A a \in Appeals \ locked : a \in Appeals
  OBVIOUS
<1>21. \A rows \in SUBSET (Appeals \ locked) : rows \in SUBSET Appeals
  OBVIOUS
<1> QED
  BY <1>7, <1>8, <1>9, <1>11, <1>12, <1>13, <1>14, <1>16, <1>17, <1>18, <1>19, <1>20, <1>21
     DEF CaseNext, run_appeal_escalation_watcher

\* At first no case is decided and nothing is logged.
LEMMA CaseStartsLogged == CaseInit => CaseInv
<1> SUFFICES ASSUME CaseInit PROVE CaseInv
  OBVIOUS
<1> USE CaseworkAssumption
<1>1. /\ now = 0 /\ status = [t \in Cases |-> "ABSENT"] /\ resolver = [t \in Cases |-> NoOne]
      /\ deadline = [a \in Appeals |-> NoTime] /\ escalated = [a \in Appeals |-> NoTime]
      /\ log = [t \in Cases |-> <<>>] /\ to_alert = {} /\ alerts = [a \in Appeals |-> 0] /\ unlogged = {}
  BY DEF CaseInit
<1>2. Requests \subseteq Cases /\ Appeals \subseteq Cases
  BY DEF Cases
<1>3. CaseTypeOK
  <2>1. StatesTyped(status, resolver)
    BY <1>1 DEF StatesTyped, Statuses
  <2>2. DeadlinesTyped(deadline, status)
    BY <1>1, <1>2 DEF DeadlinesTyped, Active
  <2>3. EscalationsTyped(escalated, to_alert, alerts)
    BY <1>1 DEF EscalationsTyped
  <2>4. LogTyped(log, unlogged)
    BY <1>1 DEF LogTyped
  <2> QED
    BY <1>1, <2>1, <2>2, <2>3, <2>4, CaseTypes
<1>4. AlertsAreTrue
  BY <1>1 DEF AlertsAreTrue
<1>5. \A action : EntriesOf(<<>>, action) = {}
  BY DEF EntriesOf
<1>6. Cardinality({}) = 0
  BY FS_EmptySet
<1>7. \A r \in Requests : RequestLogged(log[r], status[r], resolver[r])
  BY <1>1, <1>2, <1>5 DEF RequestLogged
<1>8. \A a \in Appeals : AppealLogged(a, log[a], status[a], resolver[a], escalated[a], unlogged)
  BY <1>1, <1>2, <1>5, <1>6 DEF AppealLogged, VerdictLogged
<1>9. UnloggedAreDecided
  BY <1>1 DEF UnloggedAreDecided
<1> QED
  BY <1>3, <1>4, <1>7, <1>8, <1>9 DEF CaseInv

\* The moderation log tells how every case ended and who decided it, an
\* escalation is announced at most once and is true.  Whether the log holds the
\* verdict is said of the appeals decided one by one, not of those the bulk form
\* has decided (guarantor_service.py, the appeal services and the buttons and
\* forms over them).
THEOREM LogIsComplete == CaseSpec => []LogTellsTheCase
<1>1. CaseInit => CaseInv
  BY CaseStartsLogged
<1>2. CaseInv /\ [CaseNext({})]_casework => CaseInv'
  <2> SUFFICES ASSUME CaseInv, [CaseNext({})]_casework PROVE CaseInv'
    OBVIOUS
  <2>1. CASE CaseNext({})
    BY <2>1, CaseStepKeepsLog
  <2>2. CASE UNCHANGED casework
    BY <2>2 DEF casework, case, appeal, CaseInv, CaseTypeOK, AlertsAreTrue, UnloggedAreDecided
  <2> QED
    BY <2>1, <2>2
<1>3. CaseInv => LogTellsTheCase
  BY CaseInvTells
<1> QED
  BY <1>1, <1>2, <1>3, PTL DEF CaseSpec
-----------------------------------------------------------------------------
(* Days, weeks and months.                                                 *)

\* A time not later than t lies in the same period exactly when it is not
\* before the period's start, which is how the code looks for it.
LEMMA SamePeriod ==
  ASSUME NEW P \in Nat \ {0}, NEW a \in Nat, NEW t \in Nat, a <= t
  PROVE  a >= t - (t % P) <=> a \div P = t \div P
<1> DEFINE q == t \div P
           d == a \div P
<1>1. /\ q \in Nat /\ t % P \in Nat /\ t % P < P /\ t = P * q + (t % P)
      /\ d \in Nat /\ a % P \in Nat /\ a % P < P /\ a = P * d + (a % P)
  OBVIOUS
<1>2. P * q \in Nat /\ P * d \in Nat
  BY <1>1
<1> HIDE DEF q, d
<1>3. ASSUME a >= t - (t % P), d # q PROVE FALSE
  <2>1. a >= P * q
    BY <1>1, <1>2, <1>3
  <2>2. CASE d < q
    <3>1. P * (d + 1) <= P * q
      BY <1>1, <2>2
    <3>2. P * (d + 1) = P * d + P
      BY <1>1
    <3> QED
      BY <1>1, <1>2, <2>1, <3>1, <3>2
  <2>3. CASE d > q
    <3>1. P * (q + 1) <= P * d
      BY <1>1, <2>3
    <3>2. P * (q + 1) = P * q + P
      BY <1>1
    <3> QED
      BY <1>1, <1>2, <3>1, <3>2
  <2> QED
    BY <1>1, <1>3, <2>2, <2>3
<1>4. ASSUME d = q PROVE a >= t - (t % P)
  <2>1. P * d = P * q
    BY <1>4
  <2> QED
    BY <1>1, <1>2, <2>1
<1> QED
  BY <1>3, <1>4 DEF q, d

\* What lies between two times of one period lies in it.
InOrder(a, t, n) == a <= t /\ t <= n
Together(P, a, n) == a \div P = n \div P

\* A time between two of one period is in that period.
LEMMA BetweenInPeriod ==
  ASSUME NEW P \in Nat \ {0}, NEW a \in Nat, NEW t \in Nat, NEW n \in Nat, InOrder(a, t, n),
         Together(P, a, n)
  PROVE  Together(P, t, n)
<1> USE DEF InOrder, Together
<1>1. a >= n - (n % P)
  BY SamePeriod
<1>2. t >= n - (n % P)
  <2>1. n % P \in Nat
    OBVIOUS
  <2> QED
    BY <1>1, <2>1
<1> QED
  BY <1>2, SamePeriod

Of(rows, period, t) == {r \in rows : r.at \div period = t \div period}
After(x, t) == x.at \in Nat /\ t <= x.at
Dated(rows, t) == \A r \in rows : r.at \in Nat /\ r.at <= t

\* The period a new row falls into holds it alone, or with the rows that were
\* counted when it was allowed.
Falls(rows, P, t, x) ==
  \A r \in rows \cup {x} :
    \/ r \in rows /\ Of(rows \cup {x}, P, r.at) = Of(rows, P, r.at)
    \/ Of(rows \cup {x}, P, r.at) = {x}
    \/ Of(rows \cup {x}, P, r.at) = Of(rows, P, t) \cup {x}

\* A row booked now falls into the period of now, with those of that period
\* only.
LEMMA PeriodAfterRow ==
  ASSUME NEW P \in Nat \ {0}, NEW rows, NEW t \in Nat, Dated(rows, t), NEW x, After(x, t)
  PROVE  Falls(rows, P, t, x)
<1> USE DEF Dated, Falls
<1>0. PICK n \in Nat : t <= n /\ x.at = n
  BY DEF After
<1> USE <1>0
<1> TAKE r \in rows \cup {x}
<1>1. CASE r.at \div P # n \div P
  <2>1. r \in rows
    BY <1>1
  <2>2. Of(rows \cup {x}, P, r.at) = Of(rows, P, r.at)
    BY <1>1 DEF Of
  <2> QED
    BY <2>1, <2>2
<1>2. CASE r.at \div P = n \div P
  <2>1. Of(rows \cup {x}, P, r.at) = Of(rows, P, n) \cup {x}
    BY <1>2 DEF Of
  <2>2. CASE Of(rows, P, n) = {}
    BY <2>1, <2>2
  <2>3. CASE Of(rows, P, n) # {}
    <3>1. PICK s \in rows : s.at \div P = n \div P
      BY <2>3 DEF Of
    <3>2. t \div P = n \div P
      <4>1. s.at \in Nat /\ s.at <= t
        BY <3>1
      <4>2. s.at \in Nat /\ InOrder(s.at, t, n) /\ Together(P, s.at, n)
        BY <3>1, <4>1 DEF InOrder, Together
      <4>3. Together(P, t, n)
        BY <4>2, BetweenInPeriod
      <4> QED
        BY <4>3 DEF Together
    <3>3. Of(rows, P, n) = Of(rows, P, t)
      BY <3>2 DEF Of
    <3> QED
      BY <2>1, <3>3
  <2> QED
    BY <2>2, <2>3
<1> QED
  BY <1>1, <1>2

\* A limit on the number of rows in a period.
LEMMA LimitKept ==
  ASSUME NEW P \in Nat \ {0}, NEW limit \in Nat, NEW rows, IsFiniteSet(rows),
         NEW t \in Nat, Dated(rows, t), NEW x, After(x, t), x \notin rows,
         Below(limit, Cardinality(Of(rows, P, t)) + 1),
         \A r \in rows : Below(limit, Cardinality(Of(rows, P, r.at)))
  PROVE  \A r \in rows \cup {x} : Below(limit, Cardinality(Of(rows \cup {x}, P, r.at)))
<1> DEFINE w == Of(rows, P, t)
<1>1. w \subseteq rows
  BY DEF Of
<1>2. IsFiniteSet(w) /\ x \notin w
  BY <1>1, FS_Subset
<1>3. Cardinality(w) \in Nat /\ Cardinality(w \cup {x}) = Cardinality(w) + 1 /\ Cardinality({x}) = 1
  BY <1>2, FS_AddElement, FS_CardinalityType, FS_Singleton
<1>4. Below(limit, Cardinality(w \cup {x})) /\ Below(limit, Cardinality({x}))
  <2>1. Below(limit, Cardinality(w) + 1)
    OBVIOUS
  <2> HIDE DEF w
  <2> QED
    BY <1>3, <2>1 DEF Below
<1>5. Falls(rows, P, t, x)
  BY PeriodAfterRow
<1> QED
  BY <1>4, <1>5 DEF Falls

\* A sum of payments is not positive.
Payments(rows) == \A r \in rows : r.amount <= 0

\* Payments add up to no more than 0.
LEMMA PaymentsAddUp ==
  ASSUME NEW rows, Amounts(rows), Payments(rows)
  PROVE  Total(rows) \in Int /\ Total(rows) <= 0
<1> USE DEF Payments
<1>0. Total(rows) \in Int
  BY TotalIsInt
<1> DEFINE Bad == {s \in SUBSET rows : ~(Total(s) <= 0)}
<1>1. SUFFICES ASSUME Bad # {} PROVE FALSE
  BY <1>0, rows \notin Bad
<1>2. PICK m \in Bad : \A s \in Bad : s \subseteq m => s = m
  <2>1. Bad \in SUBSET SUBSET rows
    OBVIOUS
  <2> HIDE DEF Bad
  <2> QED
    BY <2>1, <1>1, MinimalSubset DEF Amounts
<1>3. m # {} /\ m \subseteq rows
  <2>1. Total({}) <= 0
    BY TotalOfNone
  <2>2. ~(Total(m) <= 0) /\ m \subseteq rows
    BY <1>2
  <2> HIDE DEF Bad
  <2> QED
    BY <2>1, <2>2
<1>4. PICK r \in m : TRUE
  BY <1>3
<1>5. Amounts(m) /\ Amounts(m \ {r})
  BY <1>3, FS_Subset DEF Amounts
<1>6. Total(m) = r.amount + Total(m \ {r}) /\ Total(m \ {r}) \in Int
  BY <1>5, TotalTakesOut, TotalIsInt
<1>7. Total(m \ {r}) <= 0
  <2>1. m \ {r} \notin Bad
    BY <1>2, <1>4
  <2> QED
    BY <2>1, <1>3
<1>8. r.amount \in Int /\ r.amount <= 0
  BY <1>3, <1>4 DEF Amounts
<1>9. ~(Total(m) <= 0)
  BY <1>2
<1> HIDE DEF Bad
<1> QED
  BY <1>6, <1>7, <1>8, <1>9

\* A cap on what is paid in a period.
LEMMA CapKept ==
  ASSUME NEW P \in Nat \ {0}, NEW limit \in Nat, NEW rows, Amounts(rows),
         Payments(rows), NEW t \in Nat, Dated(rows, t), NEW x, After(x, t), x \notin rows,
         NEW cost \in Nat, x.amount = -cost,
         Below(limit, Spent(Of(rows, P, t)) + cost),
         \A r \in rows : Below(limit, Spent(Of(rows, P, r.at)))
  PROVE  \A r \in rows \cup {x} : Below(limit, Spent(Of(rows \cup {x}, P, r.at)))
<1> DEFINE w == Of(rows, P, t)
<1>1. w \subseteq rows
  BY DEF Of
<1>2. Amounts(w) /\ Amounts({}) /\ x \notin w /\ x.amount \in Int /\ Payments(w)
  BY <1>1, FS_Subset, FS_EmptySet DEF Amounts, Payments
<1>3. Total(w) \in Int /\ Total(w) <= 0
  BY <1>2, PaymentsAddUp
<1>4. Total(w \cup {x}) = Total(w) + x.amount
  BY <1>2, TotalAddsRow
<1>5. Total({x}) = x.amount
  <2>1. Total({} \cup {x}) = Total({}) + x.amount
    BY <1>2, TotalAddsRow
  <2>2. {} \cup {x} = {x}
    OBVIOUS
  <2> QED
    BY <2>1, <2>2, <1>2, TotalOfNone
<1>6. Below(limit, Spent(w \cup {x})) /\ Below(limit, Spent({x}))
  <2>1. Below(limit, Spent(w) + cost)
    OBVIOUS
  <2> HIDE DEF w
  <2> QED
    BY <1>3, <1>4, <1>5, <2>1 DEF Below, Spent
<1>7. Falls(rows, P, t, x)
  BY PeriodAfterRow
<1> QED
  BY <1>6, <1>7 DEF Falls
-----------------------------------------------------------------------------
(* The limits on one user's boosts, and one boost more.                    *)

\* The kind of a case is one of the kinds.
LEMMA KindIsOne ==
  ASSUME NEW t \in Tickets
  PROVE  Kind(t) \in Kinds
<1>1. CASE t \in Items
  <2>1. t \notin Cases
    BY <1>1, PointsAssumption
  <2>2. Kind(t) = "feedback"
    BY <1>1, <2>1 DEF Kind, Cases
  <2> QED
    BY <2>2 DEF Kinds
<1>2. CASE t \in Requests
  <2>1. t \notin Items /\ t \notin Appeals
    BY <1>2, PointsAssumption, CaseworkAssumption DEF Cases
  <2>2. Kind(t) = "guarantor"
    BY <1>2, <2>1 DEF Kind
  <2> QED
    BY <2>2 DEF Kinds
<1>3. CASE t \in Appeals
  <2>1. t \notin Items /\ t \notin Requests
    BY <1>3, PointsAssumption, CaseworkAssumption DEF Cases
  <2>2. Kind(t) = "appeal"
    BY <1>3, <2>1 DEF Kind
  <2> QED
    BY <2>2 DEF Kinds
<1> QED
  BY <1>1, <1>2, <1>3 DEF Tickets, Cases

\* The settings, one by one.
LEMMA Settings ==
  /\ Owner \in [Tickets -> Users] /\ Reward \in Nat \ {0} /\ Adjustments \subseteq Int
  /\ \A k \in Kinds : Cost[k] \in Nat \ {0} /\ KindDaily[k] \in Nat \ {0} /\ KindCooldown[k] \in Nat
  /\ Cooldown \in Nat /\ DailyLimit \in Nat /\ WeeklyLimit \in Nat
  /\ DailyCap \in Nat /\ WeeklyCap \in Nat /\ MonthlyCap \in Nat
  /\ MinBalance \in Nat /\ MinEarned \in Nat /\ MinAge \in Nat
  /\ Day \in Nat \ {0} /\ Week \in Nat \ {0} /\ Month \in Nat \ {0}
  /\ NoCall \notin Call /\ NoTime \notin Nat
BY PointsAssumption, CaseworkAssumption DEF Call

BoostsOf(rows, u) == {r \in rows : r.user = u /\ r.key[1] = "boost"}

Limits(b) ==
  \A r \in b :
    /\ Below(DailyLimit, Cardinality(Of(b, Day, r.at)))
    /\ Below(WeeklyLimit, Cardinality(Of(b, Week, r.at)))
    /\ Below(DailyCap, Spent(Of(b, Day, r.at)))
    /\ Below(WeeklyCap, Spent(Of(b, Week, r.at)))
    /\ Below(MonthlyCap, Spent(Of(b, Month, r.at)))

Room(b, t, cost) ==
  /\ Below(DailyLimit, Cardinality(Of(b, Day, t)) + 1)
  /\ Below(WeeklyLimit, Cardinality(Of(b, Week, t)) + 1)
  /\ Below(DailyCap, Spent(Of(b, Day, t)) + cost)
  /\ Below(WeeklyCap, Spent(Of(b, Week, t)) + cost)
  /\ Below(MonthlyCap, Spent(Of(b, Month, t)) + cost)

\* Rows of boosts, all of them payments.
Bookings(b) == b \subseteq Row /\ IsFiniteSet(b) /\ Payments(b)

\* A boost for which there was room keeps the limits of all periods.
LEMMA BoostKeepsLimits ==
  ASSUME NEW b, Bookings(b), NEW t \in Nat, Dated(b, t), NEW x, x \notin b, After(x, t),
         NEW cost \in Nat, x.amount = -cost, Room(b, t, cost), Limits(b)
  PROVE  Limits(b \cup {x})
<1>1. IsFiniteSet(b) /\ Payments(b) /\ Amounts(b)
  BY DEF Bookings, Row, Amounts
<1>2. /\ Below(DailyLimit, Cardinality(Of(b, Day, t)) + 1)
      /\ Below(WeeklyLimit, Cardinality(Of(b, Week, t)) + 1)
      /\ Below(DailyCap, Spent(Of(b, Day, t)) + cost)
      /\ Below(WeeklyCap, Spent(Of(b, Week, t)) + cost)
      /\ Below(MonthlyCap, Spent(Of(b, Month, t)) + cost)
  BY DEF Room
<1>3. /\ \A r \in b : Below(DailyLimit, Cardinality(Of(b, Day, r.at)))
      /\ \A r \in b : Below(WeeklyLimit, Cardinality(Of(b, Week, r.at)))
      /\ \A r \in b : Below(DailyCap, Spent(Of(b, Day, r.at)))
      /\ \A r \in b : Below(WeeklyCap, Spent(Of(b, Week, r.at)))
      /\ \A r \in b : Below(MonthlyCap, Spent(Of(b, Month, r.at)))
  BY DEF Limits
<1>4. \A r \in b \cup {x} : Below(DailyLimit, Cardinality(Of(b \cup {x}, Day, r.at)))
  BY <1>1, <1>2, <1>3, Settings, LimitKept
<1>5. \A r \in b \cup {x} : Below(WeeklyLimit, Cardinality(Of(b \cup {x}, Week, r.at)))
  BY <1>1, <1>2, <1>3, Settings, LimitKept
<1>6. \A r \in b \cup {x} : Below(DailyCap, Spent(Of(b \cup {x}, Day, r.at)))
  BY <1>1, <1>2, <1>3, Settings, CapKept
<1>7. \A r \in b \cup {x} : Below(WeeklyCap, Spent(Of(b \cup {x}, Week, r.at)))
  BY <1>1, <1>2, <1>3, Settings, CapKept
<1>8. \A r \in b \cup {x} : Below(MonthlyCap, Spent(Of(b \cup {x}, Month, r.at)))
  BY <1>1, <1>2, <1>3, Settings, CapKept
<1> QED
  BY <1>4, <1>5, <1>6, <1>7, <1>8 DEF Limits

Apart(r, s) == IF r.at >= s.at THEN r.at - s.at ELSE s.at - r.at
AreSpaced(r, s) ==
  /\ Apart(r, s) >= Cooldown
  /\ Kind(r.key[2]) = Kind(s.key[2]) => Apart(r, s) >= KindCooldown[Kind(r.key[2])]
Spaced(b) == \A r, s \in b : r # s => AreSpaced(r, s)

Waited(b, t, kind) ==
  \A r \in b : /\ t - r.at >= Cooldown
               /\ Kind(r.key[2]) = kind => t - r.at >= KindCooldown[kind]

\* A boost that waited keeps the cooldowns.
LEMMA BoostKeepsSpacing ==
  ASSUME NEW b, NEW t \in Nat, Dated(b, t), NEW x, After(x, t), Kind(x.key[2]) \in Kinds,
         Waited(b, t, Kind(x.key[2])), Spaced(b)
  PROVE  Spaced(b \cup {x})
<1>1. ASSUME NEW r \in b
      PROVE  AreSpaced(r, x) /\ AreSpaced(x, r)
  <2> DEFINE k == Kind(x.key[2])
             j == Kind(r.key[2])
             a == r.at
             n == x.at
  <2>1. /\ a \in Nat /\ n \in Nat /\ a <= t /\ t <= n
        /\ Cooldown \in Nat /\ KindCooldown[k] \in Nat
        /\ t - a >= Cooldown /\ (j = k => t - a >= KindCooldown[k])
    BY Settings DEF Dated, After, Waited
  <2>2. /\ Apart(r, x) = IF a >= n THEN a - n ELSE n - a
        /\ Apart(x, r) = IF n >= a THEN n - a ELSE a - n
    BY DEF Apart
  <2> HIDE DEF k, j, a, n
  <2>3. n - a >= t - a /\ n - a \in Int /\ (a >= n => a = n)
    BY <2>1
  <2>4. Apart(r, x) = n - a /\ Apart(x, r) = n - a
    BY <2>1, <2>2, <2>3
  <2>5. n - a >= Cooldown /\ (j = k => n - a >= KindCooldown[k])
    BY <2>1, <2>3
  <2> QED
    BY <2>4, <2>5 DEF AreSpaced, k, j
<1> QED
  BY <1>1 DEF Spaced

\* The marks of a user's boosts of one kind on one day.
MarksOn(B, u, kind, d) == {x \in Tickets : /\ Owner[x] = u /\ Kind(x) = kind
                                           /\ B[x] # NoTime /\ B[x] \div Day = d}
MarksHold(B, u) == \A t \in Tickets : B[t] # NoTime /\ Owner[t] = u =>
                     Cardinality(MarksOn(B, u, Kind(t), B[t] \div Day)) <= KindDaily[Kind(t)]
Marked(B) == {t \in Tickets : B[t] # NoTime}

\* A mark within the daily number of its kind keeps that number.
LEMMA MarkKeepsDaily ==
  ASSUME NEW B \in [Tickets -> Nat \cup {NoTime}], IsFiniteSet(Marked(B)),
         NEW t \in Tickets, NEW at \in Nat, B[t] = NoTime,
         Cardinality(MarksOn(B, Owner[t], Kind(t), at \div Day)) < KindDaily[Kind(t)],
         \A u \in Users : MarksHold(B, u)
  PROVE  \A u \in Users : MarksHold([B EXCEPT ![t] = at], u)
<1> DEFINE C == [B EXCEPT ![t] = at]
           o == Owner[t]
<1>1. /\ \A x \in Tickets : C[x] = IF x = t THEN at ELSE B[x]
      /\ at # NoTime
  BY Settings
<1> HIDE DEF C
<1> SUFFICES ASSUME NEW u \in Users, NEW x \in Tickets, C[x] # NoTime, Owner[x] = u
             PROVE  Cardinality(MarksOn(C, u, Kind(x), C[x] \div Day)) <= KindDaily[Kind(x)]
  BY DEF MarksHold, C
<1>2. CASE u = o /\ Kind(x) = Kind(t) /\ C[x] \div Day = at \div Day
  <2> DEFINE w == MarksOn(B, o, Kind(t), at \div Day)
  <2>1. MarksOn(C, u, Kind(x), C[x] \div Day) = w \cup {t}
    BY <1>1, <1>2 DEF MarksOn
  <2>2. IsFiniteSet(w) /\ t \notin w
    <3>1. w \subseteq Marked(B)
      BY DEF MarksOn, Marked
    <3>2. IsFiniteSet(w)
      BY <3>1, FS_Subset
    <3> QED
      BY <3>2 DEF MarksOn
  <2>3. Cardinality(w) \in Nat /\ Cardinality(w \cup {t}) = Cardinality(w) + 1
    BY <2>2, FS_AddElement, FS_CardinalityType
  <2>4. Cardinality(w) < KindDaily[Kind(t)] /\ KindDaily[Kind(t)] \in Nat
    BY Settings, KindIsOne
  <2>5. Cardinality(w \cup {t}) <= KindDaily[Kind(t)]
    <3> DEFINE n == Cardinality(w)
               k == KindDaily[Kind(t)]
    <3>1. n \in Nat /\ k \in Nat /\ n < k /\ Cardinality(w \cup {t}) = n + 1
      BY <2>3, <2>4
    <3> HIDE DEF n, k
    <3>2. Cardinality(w \cup {t}) <= k
      BY <3>1
    <3> QED
      BY <3>2 DEF k
  <2> HIDE DEF w
  <2> QED
    BY <1>2, <2>1, <2>5
<1>3. CASE ~(u = o /\ Kind(x) = Kind(t) /\ C[x] \div Day = at \div Day)
  <2>1. x # t
    BY <1>1, <1>3
  <2>2. C[x] = B[x] /\ B[x] # NoTime
    BY <1>1, <2>1
  <2>3. MarksOn(C, u, Kind(x), C[x] \div Day) = MarksOn(B, u, Kind(x), B[x] \div Day)
    <3>1. \A y \in Tickets : (/\ Owner[y] = u /\ Kind(y) = Kind(x) /\ C[y] # NoTime
                              /\ C[y] \div Day = C[x] \div Day)
                         <=> (/\ Owner[y] = u /\ Kind(y) = Kind(x) /\ B[y] # NoTime
                              /\ B[y] \div Day = B[x] \div Day)
      <4> TAKE y \in Tickets
      <4>1. CASE y = t
        BY <1>1, <1>3, <4>1, <2>2
      <4>2. CASE y # t
        BY <1>1, <4>2, <2>2
      <4> QED
        BY <4>1, <4>2
    <3> QED
      BY <3>1 DEF MarksOn
  <2>4. Cardinality(MarksOn(B, u, Kind(x), B[x] \div Day)) <= KindDaily[Kind(x)]
    BY <2>2 DEF MarksHold
  <2> QED
    BY <2>3, <2>4
<1> QED
  BY <1>2, <1>3
-----------------------------------------------------------------------------
(* The invariant of the points.                                            *)

BalanceOf(rows, u) == Total({r \in rows : r.user = u})
EarnedOf(rows, u) == Total({r \in rows : r.user = u /\ r.amount > 0})

\* What the checks of a boost found, and what its price may count on.
Funded(rows, u, cost) ==
  /\ MinBalance = 0 \/ BalanceOf(rows, u) - cost >= MinBalance
  /\ EarnedOf(rows, u) >= MinEarned

Checked(rows, B, c) ==
  LET b == BoostsOf(rows, c.user)
      kind == Kind(c.ticket)
  IN /\ c.user = Owner[c.ticket] /\ B[c.ticket] = NoTime
     /\ Dated(b, c.at)
     /\ Room(b, c.at, Cost[kind]) /\ Waited(b, c.at, kind)
     /\ Cardinality(MarksOn(B, c.user, kind, c.at \div Day)) < KindDaily[kind]
     /\ Funded(rows, c.user, Cost[kind])

LedgerTyped(rows, t) ==
  /\ rows \subseteq Row /\ IsFiniteSet(rows)
  /\ \A r, s \in rows : r.key = s.key => r = s
  /\ \A r \in rows : r.at <= t

MarksTyped(B) == B \in [Tickets -> Nat \cup {NoTime}] /\ IsFiniteSet(Marked(B))

CallsTyped(c) == c \in [Handlers -> Call \cup {NoCall}]

\* upsert_user locks the row: a user has one boost under way at most.
OneCall(c) == \A h, k \in Handlers : c[h] # NoCall /\ c[k] # NoCall /\ c[h].user = c[k].user => h = k

\* What BoostIsPaidFor says of one case.
PaidFor(rows, B, t) ==
  LET paid == {r \in rows : r.key = <<"boost", t>>} IN
  /\ B[t] # NoTime <=> paid # {}
  /\ \A r \in paid : /\ paid = {r} /\ r.user = Owner[t] /\ r.amount = -Cost[Kind(t)]
                     /\ B[t] <= r.at

Promised(rows, B, c, t) ==
  \A h \in Handlers : c[h] # NoCall /\ c[h].at # NoTime => c[h].at <= t /\ Checked(rows, B, c[h])

\* The inductive invariant.
PInv ==
  /\ CaseTypeOK /\ verdict \in [Items -> {"NEW", "APPROVED", "REJECTED"}]
  /\ LedgerTyped(ledger, now) /\ MarksTyped(boosted) /\ CallsTyped(calls)
  /\ OneCall(calls)
  /\ \A t \in Tickets : PaidFor(ledger, boosted, t)
  /\ \A u \in Users : /\ Limits(BoostsOf(ledger, u)) /\ Spaced(BoostsOf(ledger, u))
                      /\ MarksHold(boosted, u)
  /\ Promised(ledger, boosted, calls, now)

\* The invariant is enough for the limits and the marks.
LEMMA InvariantIsEnough ==
  ASSUME PInv
  PROVE  BoostLimitsHold /\ BoostIsPaidFor
<1>1. TypeOK
  BY DEF PInv, TypeOK, LedgerTyped, MarksTyped, CallsTyped
<1>2. BoostIsPaidFor
  BY DEF PInv, BoostIsPaidFor, PaidFor
<1>3. ASSUME NEW u \in Users
      PROVE  /\ Limits(BoostsOf(ledger, u)) /\ Spaced(BoostsOf(ledger, u)) /\ MarksHold(boosted, u)
             /\ Boosts(u) = BoostsOf(ledger, u)
  BY DEF PInv, Boosts, BoostsOf
<1>4. ASSUME NEW u \in Users
      PROVE  /\ \A r \in Boosts(u) :
                  /\ Below(DailyLimit, Cardinality({x \in Boosts(u) : x.at \div Day = r.at \div Day}))
                  /\ Below(WeeklyLimit, Cardinality({x \in Boosts(u) : x.at \div Week = r.at \div Week}))
                  /\ Below(DailyCap, Spent({x \in Boosts(u) : x.at \div Day = r.at \div Day}))
                  /\ Below(WeeklyCap, Spent({x \in Boosts(u) : x.at \div Week = r.at \div Week}))
                  /\ Below(MonthlyCap, Spent({x \in Boosts(u) : x.at \div Month = r.at \div Month}))
             /\ \A r, s \in Boosts(u) : r # s =>
                  LET apart == IF r.at >= s.at THEN r.at - s.at ELSE s.at - r.at
                  IN /\ apart >= Cooldown
                     /\ Kind(r.key[2]) = Kind(s.key[2]) => apart >= KindCooldown[Kind(r.key[2])]
             /\ \A t \in Tickets : boosted[t] # NoTime /\ Owner[t] = u =>
                  Cardinality({x \in Tickets : /\ Owner[x] = u /\ Kind(x) = Kind(t) /\ boosted[x] # NoTime
                                               /\ boosted[x] \div Day = boosted[t] \div Day})
                    <= KindDaily[Kind(t)]
  <2> DEFINE b == Boosts(u)
  <2>1. Limits(b) /\ Spaced(b) /\ MarksHold(boosted, u)
    BY <1>3
  <2> HIDE DEF b
  <2>2. \A r \in b :
          /\ Below(DailyLimit, Cardinality({x \in b : x.at \div Day = r.at \div Day}))
          /\ Below(WeeklyLimit, Cardinality({x \in b : x.at \div Week = r.at \div Week}))
          /\ Below(DailyCap, Spent({x \in b : x.at \div Day = r.at \div Day}))
          /\ Below(WeeklyCap, Spent({x \in b : x.at \div Week = r.at \div Week}))
          /\ Below(MonthlyCap, Spent({x \in b : x.at \div Month = r.at \div Month}))
    BY <2>1 DEF Limits, Of
  <2>3. \A r, s \in b : r # s =>
          LET apart == IF r.at >= s.at THEN r.at - s.at ELSE s.at - r.at
          IN /\ apart >= Cooldown
             /\ Kind(r.key[2]) = Kind(s.key[2]) => apart >= KindCooldown[Kind(r.key[2])]
    BY <2>1 DEF Spaced, AreSpaced, Apart
  <2>4. \A t \in Tickets : boosted[t] # NoTime /\ Owner[t] = u =>
          Cardinality({x \in Tickets : /\ Owner[x] = u /\ Kind(x) = Kind(t) /\ boosted[x] # NoTime
                                       /\ boosted[x] \div Day = boosted[t] \div Day})
            <= KindDaily[Kind(t)]
    BY <2>1 DEF MarksHold, MarksOn
  <2> QED
    BY <2>2, <2>3, <2>4 DEF b
<1> QED
  BY <1>1, <1>2, <1>4 DEF BoostLimitsHold

\* The clock of the cases only goes forward.
LEMMA CaseClock ==
  ASSUME NEW locked, now \in Nat, CaseNext(locked)
  PROVE  now' \in Nat /\ now <= now'
<1>1. now' = now \/ now' = now + 1
  BY DEF CaseNext, create_guarantor_request, guarantor_callbacks, create_appeal_from_ref, decide_appeal,
         finalize_appeal, mark_appeal_in_review, action_triage_bulk, run_appeal_escalation_watcher,
         escalate_overdue_appeals, send_escalation, escalation_pass_is_lost, Tick
<1> QED
  BY <1>1

\* Time passes over the promises and the rows.
LEMMA LaterIsNoWorse ==
  ASSUME PInv, now' \in Nat, now <= now', CaseTypeOK', UNCHANGED points
  PROVE  PInv'
<1>1. now \in Nat
  BY DEF PInv, CaseTypeOK
<1>2. LedgerTyped(ledger, now')
  <2>1. \A r \in ledger : r.at \in Nat /\ r.at <= now
    BY DEF PInv, LedgerTyped, Row
  <2>2. \A r \in ledger : r.at <= now'
    BY <1>1, <2>1
  <2> QED
    BY <2>2 DEF PInv, LedgerTyped
<1>3. Promised(ledger, boosted, calls, now')
  <2>1. \A h \in Handlers : calls[h] # NoCall /\ calls[h].at # NoTime => calls[h].at \in Nat
    BY DEF PInv, CallsTyped, Call
  <2>2. \A h \in Handlers : calls[h] # NoCall /\ calls[h].at # NoTime => calls[h].at <= now
    BY DEF PInv, Promised
  <2>3. \A h \in Handlers : calls[h] # NoCall /\ calls[h].at # NoTime => calls[h].at <= now'
    BY <1>1, <2>1, <2>2
  <2> QED
    BY <2>3 DEF PInv, Promised
<1> QED
  BY <1>2, <1>3 DEF PInv, points

\* A handler begins, is allowed, or ends.
LEMMA CallMoves ==
  ASSUME PInv, UNCHANGED <<casework, verdict, ledger, boosted>>, NEW h \in Handlers, NEW c \in Call \cup {NoCall},
         calls' = [calls EXCEPT ![h] = c],
         c # NoCall => /\ \A k \in Handlers : k # h /\ calls[k] # NoCall => calls[k].user # c.user
                       /\ c.at # NoTime => c.at <= now /\ Checked(ledger, boosted, c)
  PROVE  PInv'
<1>1. calls \in [Handlers -> Call \cup {NoCall}]
  BY DEF PInv, CallsTyped
<1>2. \A k \in Handlers : calls'[k] = IF k = h THEN c ELSE calls[k]
  BY <1>1
<1>3. CallsTyped(calls')
  BY <1>1 DEF CallsTyped
<1>4. OneCall(calls')
  <2>1. OneCall(calls)
    BY DEF PInv
  <2> QED
    BY <1>2, <2>1 DEF OneCall
<1>5. Promised(ledger, boosted, calls', now)
  <2>1. Promised(ledger, boosted, calls, now)
    BY DEF PInv
  <2> QED
    BY <1>2, <2>1 DEF Promised
<1> QED
  BY <1>3, <1>4, <1>5 DEF PInv, casework, case, appeal, CaseTypeOK

\* The rows of boosts.
LEMMA BoostRow ==
  ASSUME NEW r \in Row, r.key[1] = "boost"
  PROVE  r.key[2] \in Tickets /\ r.key = <<"boost", r.key[2]>>
<1>1. r.key \in ({"boost", "reward"} \X Tickets) \cup ({"manual"} \X (1..MaxAdjust))
  BY DEF Row
<1> QED
  BY <1>1

\* A user's boosts are rows booked at some time up to now.
LEMMA BoostsAreBookings ==
  ASSUME PInv, NEW u
  PROVE  Bookings(BoostsOf(ledger, u)) /\ \A r \in BoostsOf(ledger, u) : r.at \in Nat /\ r.at <= now
<1>1. ledger \subseteq Row /\ IsFiniteSet(ledger) /\ \A r \in ledger : r.at <= now
  BY DEF PInv, LedgerTyped
<1>2. BoostsOf(ledger, u) \subseteq ledger
  BY DEF BoostsOf
<1>3. IsFiniteSet(BoostsOf(ledger, u))
  BY <1>1, <1>2, FS_Subset
<1>4. ASSUME NEW r \in BoostsOf(ledger, u)
      PROVE  r.amount <= 0
  <2>1. r \in Row /\ r \in ledger /\ r.key[1] = "boost"
    BY <1>1, <1>2 DEF BoostsOf
  <2>2. r.key[2] \in Tickets /\ r.key = <<"boost", r.key[2]>>
    BY <2>1, BoostRow
  <2>3. PaidFor(ledger, boosted, r.key[2])
    BY <2>2 DEF PInv
  <2>4. r.amount = -Cost[Kind(r.key[2])]
    BY <2>1, <2>2, <2>3 DEF PaidFor
  <2>5. Cost[Kind(r.key[2])] \in Nat \ {0}
    BY <2>2, KindIsOne, Settings
  <2> QED
    BY <2>4, <2>5
<1>5. \A r \in BoostsOf(ledger, u) : r.at \in Nat /\ r.at <= now
  BY <1>1, <1>2 DEF Row
<1> QED
  BY <1>1, <1>2, <1>3, <1>4, <1>5 DEF Bookings, Payments

\* A row that is not a boost, and takes nothing from a user who is boosting,
\* breaks no promise.
LEMMA OtherRowIsFunded ==
  ASSUME NEW rows, rows \subseteq Row, IsFiniteSet(rows), NEW x \in Row, x \notin rows, NEW u, NEW cost \in Nat,
         x.user = u => x.amount > 0, Funded(rows, u, cost)
  PROVE  Funded(rows \cup {x}, u, cost)
<1> DEFINE own == {r \in rows : r.user = u}
           earned == {r \in rows : r.user = u /\ r.amount > 0}
<1>1. Amounts(own) /\ Amounts(earned) /\ x.amount \in Int
  BY FS_Subset DEF Amounts, Row
<1>2. CASE x.user # u
  <2>1. {r \in rows \cup {x} : r.user = u} = own
    BY <1>2
  <2>2. {r \in rows \cup {x} : r.user = u /\ r.amount > 0} = earned
    BY <1>2
  <2>3. BalanceOf(rows \cup {x}, u) = BalanceOf(rows, u) /\ EarnedOf(rows \cup {x}, u) = EarnedOf(rows, u)
    BY <2>1, <2>2 DEF BalanceOf, EarnedOf
  <2>4. BalanceOf(rows, u) \in Int /\ EarnedOf(rows, u) \in Int
    BY <1>1, TotalIsInt DEF BalanceOf, EarnedOf
  <2>5. MinBalance = 0 \/ BalanceOf(rows, u) - cost >= MinBalance
    BY DEF Funded
  <2>6. EarnedOf(rows, u) >= MinEarned
    BY DEF Funded
  <2>7. MinBalance = 0 \/ BalanceOf(rows \cup {x}, u) - cost >= MinBalance
    BY <2>3, <2>4, <2>5
  <2>8. EarnedOf(rows \cup {x}, u) >= MinEarned
    BY <2>3, <2>4, <2>6
  <2> QED
    BY <2>7, <2>8 DEF Funded
<1>3. CASE x.user = u
  <2>1. {r \in rows \cup {x} : r.user = u} = own \cup {x}
    BY <1>3
  <2>2. {r \in rows \cup {x} : r.user = u /\ r.amount > 0} = earned \cup {x}
    BY <1>3
  <2>3. Total(own \cup {x}) = Total(own) + x.amount /\ Total(earned \cup {x}) = Total(earned) + x.amount
    BY <1>1, TotalAddsRow
  <2>4. Total(own) \in Int /\ Total(earned) \in Int /\ x.amount > 0
    BY <1>1, <1>3, TotalIsInt
  <2>5. /\ BalanceOf(rows \cup {x}, u) = Total(own) + x.amount /\ BalanceOf(rows, u) = Total(own)
        /\ EarnedOf(rows \cup {x}, u) = Total(earned) + x.amount /\ EarnedOf(rows, u) = Total(earned)
    BY <2>1, <2>2, <2>3 DEF BalanceOf, EarnedOf
  <2>6. MinBalance \in Nat /\ MinEarned \in Nat
    BY Settings
  <2> HIDE DEF own, earned
  <2>7. MinBalance = 0 \/ Total(own) + x.amount - cost >= MinBalance
    BY <1>1, <2>4, <2>5, <2>6 DEF Funded
  <2>8. Total(earned) + x.amount >= MinEarned
    BY <1>1, <2>4, <2>5, <2>6 DEF Funded
  <2>9. MinBalance = 0 \/ BalanceOf(rows \cup {x}, u) - cost >= MinBalance
    <3> DEFINE before == Total(own)
               after == BalanceOf(rows \cup {x}, u)
    <3>1. after = before + x.amount /\ before \in Int /\ x.amount \in Int
      BY <1>1, <2>4, <2>5
    <3>2. MinBalance = 0 \/ before + x.amount - cost >= MinBalance
      BY <2>7
    <3> HIDE DEF before, after
    <3>3. MinBalance = 0 \/ after - cost >= MinBalance
      BY <2>6, <3>1, <3>2
    <3> QED
      BY <3>3 DEF after
  <2>10. EarnedOf(rows \cup {x}, u) >= MinEarned
    BY <2>5, <2>8
  <2> QED
    BY <2>9, <2>10 DEF Funded
<1> QED
  BY <1>2, <1>3

\* A row that is no boost, and takes nothing from who is about to pay, keeps
\* the invariant.
LEMMA OtherRowKeeps ==
  ASSUME PInv, UNCHANGED <<casework, boosted, calls>>, verdict' \in [Items -> {"NEW", "APPROVED", "REJECTED"}],
         NEW x \in Row, \A r \in ledger : r.key # x.key, x.key[1] # "boost", x.at = now,
         \A h \in Handlers : calls[h] # NoCall /\ calls[h].user = x.user => x.amount > 0,
         ledger' = ledger \cup {x}
  PROVE  PInv'
<1>1. ledger \subseteq Row /\ IsFiniteSet(ledger) /\ x \notin ledger /\ now \in Nat
  BY DEF PInv, LedgerTyped, CaseTypeOK
<1>2. LedgerTyped(ledger', now)
  <2>1. IsFiniteSet(ledger')
    BY <1>1, FS_AddElement
  <2> QED
    BY <1>1, <2>1 DEF PInv, LedgerTyped
<1>3. \A u : BoostsOf(ledger', u) = BoostsOf(ledger, u)
  BY DEF BoostsOf
<1>4. \A t \in Tickets : PaidFor(ledger', boosted, t)
  <2> TAKE t \in Tickets
  <2>1. x.key # <<"boost", t>>
    OBVIOUS
  <2>2. {r \in ledger' : r.key = <<"boost", t>>} = {r \in ledger : r.key = <<"boost", t>>}
    BY <2>1
  <2>3. PaidFor(ledger, boosted, t)
    BY DEF PInv
  <2> QED
    BY <2>2, <2>3 DEF PaidFor
<1>5. Promised(ledger', boosted, calls, now)
  <2> SUFFICES ASSUME NEW h \in Handlers, calls[h] # NoCall, calls[h].at # NoTime
               PROVE  calls[h].at <= now /\ Checked(ledger', boosted, calls[h])
    BY DEF Promised
  <2> DEFINE c == calls[h]
             cost == Cost[Kind(c.ticket)]
  <2>1. c.at <= now /\ Checked(ledger, boosted, c)
    BY DEF PInv, Promised
  <2>2. c \in Call
    BY DEF PInv, CallsTyped
  <2>3. cost \in Nat
    BY <2>2, KindIsOne, Settings DEF Call
  <2>4. c.user = x.user => x.amount > 0
    OBVIOUS
  <2> HIDE DEF c, cost
  <2>5. Funded(ledger, c.user, cost)
    BY <2>1 DEF Checked, cost
  <2>6. Funded(ledger', c.user, cost)
    BY <1>1, <2>3, <2>4, <2>5, OtherRowIsFunded
  <2>7. Checked(ledger', boosted, c)
    BY <1>3, <2>1, <2>6 DEF Checked, cost
  <2> QED
    BY <2>1, <2>7 DEF c
<1> QED
  BY <1>2, <1>3, <1>4, <1>5 DEF PInv, casework, case, appeal, CaseTypeOK

\* What the policy allows it promises.
LEMMA AllowedIsChecked ==
  ASSUME PInv, NEW t \in Tickets, NEW u \in Users, u = Owner[t], boosted[t] = NoTime, PolicyAllows(u, Kind(t)),
         NEW c, c.ticket = t, c.user = u, c.at = now
  PROVE  Checked(ledger, boosted, c)
<1> DEFINE b == BoostsOf(ledger, u)
           kind == Kind(t)
           cost == Cost[kind]
<1>1. now \in Nat /\ Day \in Nat \ {0} /\ Week \in Nat \ {0} /\ Month \in Nat \ {0}
  BY Settings DEF PInv, CaseTypeOK
<1>2. Boosts(u) = b
  BY DEF Boosts, BoostsOf
<1>3. \A r \in b : r.at \in Nat /\ r.at <= now
  BY BoostsAreBookings
<1>4. Dated(b, now)
  BY <1>3 DEF Dated
<1>5. ASSUME NEW P \in Nat \ {0}
      PROVE  Within(b, P, now) = Of(b, P, now)
  <2>1. \A r \in b : r.at >= now - (now % P) <=> r.at \div P = now \div P
    <3> TAKE r \in b
    <3> DEFINE a == r.at
    <3>1. a \in Nat /\ a <= now
      BY <1>3
    <3> HIDE DEF a
    <3>2. a >= now - (now % P) <=> a \div P = now \div P
      BY <1>1, <3>1, SamePeriod
    <3> QED
      BY <3>2 DEF a
  <2> QED
    BY <2>1 DEF Within, Of
<1>6. Within(b, Day, now) = Of(b, Day, now) /\ Within(b, Week, now) = Of(b, Week, now)
      /\ Within(b, Month, now) = Of(b, Month, now)
  BY <1>1, <1>5
<1>7. Room(b, now, cost)
  BY <1>2, <1>6 DEF PolicyAllows, Room
<1>8. Waited(b, now, kind)
  <2>1. /\ \A r \in KindBoosts(u, kind) : now - r.at >= KindCooldown[kind]
        /\ \A r \in b : now - r.at >= Cooldown
    BY <1>2 DEF PolicyAllows, KindAllows, CooledDown
  <2>2. \A r \in b : Kind(r.key[2]) = kind => r \in KindBoosts(u, kind)
    BY <1>2 DEF KindBoosts
  <2> QED
    BY <2>1, <2>2 DEF Waited
<1>9. Cardinality(MarksOn(boosted, u, kind, now \div Day)) < KindDaily[kind]
  <2>1. \A x \in Tickets : boosted[x] # NoTime =>
          (boosted[x] >= now - (now % Day) <=> boosted[x] \div Day = now \div Day)
    <3> SUFFICES ASSUME NEW x \in Tickets, boosted[x] # NoTime
                 PROVE  boosted[x] >= now - (now % Day) <=> boosted[x] \div Day = now \div Day
      OBVIOUS
    <3>1. PICK r \in ledger : boosted[x] <= r.at
      BY DEF PInv, PaidFor
    <3>2. r.at \in Nat /\ r.at <= now
      BY DEF PInv, LedgerTyped, Row
    <3> DEFINE a == boosted[x]
               n == r.at
    <3>3. a \in Nat
      BY DEF PInv, MarksTyped
    <3>4. a <= n /\ n \in Nat /\ n <= now
      BY <3>1, <3>2
    <3> HIDE DEF a, n
    <3>5. a <= now
      BY <1>1, <3>3, <3>4
    <3>6. a >= now - (now % Day) <=> a \div Day = now \div Day
      BY <1>1, <3>3, <3>5, SamePeriod
    <3> QED
      BY <3>6 DEF a
  <2>2. {x \in Tickets : Owner[x] = u /\ Kind(x) = kind /\ boosted[x] # NoTime
                                      /\ boosted[x] >= now - (now % Day)}
          = MarksOn(boosted, u, kind, now \div Day)
    BY <2>1 DEF MarksOn
  <2> QED
    BY <2>2 DEF PolicyAllows, KindAllows
<1>10. Funded(ledger, u, cost)
  BY DEF PolicyAllows, Funded, get_user_points_balance, total_earned, BalanceOf, EarnedOf
<1> HIDE DEF b, kind, cost
<1> QED
  BY <1>4, <1>7, <1>8, <1>9, <1>10 DEF Checked, b, kind, cost

\* The price is booked.
LEMMA SpendingMoves ==
  ASSUME PInv, NEW h \in Handlers, spend_points(h)
  PROVE  \/ UNCHANGED <<casework, verdict, ledger, boosted>> /\ calls' = [calls EXCEPT ![h] = NoCall]
         \/ \E c \in Call, x \in Row :
              /\ c = calls[h] /\ c # NoCall /\ c.at \in Nat
              /\ x.key = <<"boost", c.ticket>> /\ x.user = c.user /\ x.amount = -Cost[Kind(c.ticket)]
              /\ x.at = now
              /\ \A r \in ledger : r.key # x.key
              /\ BalanceOf(ledger, c.user) >= Cost[Kind(c.ticket)]
              /\ ledger' = ledger \cup {x}
              /\ boosted' = [boosted EXCEPT ![c.ticket] = c.at]
              /\ calls' = [calls EXCEPT ![h] = NoCall]
              /\ UNCHANGED <<casework, verdict>>
<1> DEFINE c == calls[h]
           cost == Cost[Kind(c.ticket)]
           x == [key |-> <<"boost", c.ticket>>, user |-> c.user, amount |-> -cost, at |-> now]
<1>1. c # NoCall /\ c.at # NoTime /\ c \in Call
  BY DEF spend_points, Busy, PInv, CallsTyped
<1>2. c.ticket \in Tickets /\ c.user \in Users /\ c.at \in Nat
  BY <1>1 DEF Call
<1>3. cost \in Nat /\ now \in Nat
  BY <1>2, KindIsOne, Settings DEF PInv, CaseTypeOK
<1>4. x \in Row
  BY <1>2, <1>3 DEF Row
<1>5. calls' = [calls EXCEPT ![h] = NoCall] /\ UNCHANGED <<casework, verdict>>
  BY DEF spend_points
<1>6. CASE get_user_points_balance(c.user) >= cost
  <2>1. /\ grant_points(<<"boost", c.ticket>>, c.user, -cost)
        /\ boosted' = [boosted EXCEPT ![c.ticket] = c.at]
    BY <1>6 DEF spend_points
  <2>2. \A r \in ledger : r.key # <<"boost", c.ticket>>
    <3>1. boosted[c.ticket] = NoTime
      BY <1>1 DEF PInv, Promised, Checked
    <3>2. PaidFor(ledger, boosted, c.ticket)
      BY <1>2 DEF PInv
    <3> QED
      BY <3>1, <3>2 DEF PaidFor
  <2>3. ledger' = ledger \cup {x}
    BY <2>1, <2>2 DEF grant_points
  <2>4. BalanceOf(ledger, c.user) >= cost
    BY <1>6 DEF get_user_points_balance, BalanceOf
  <2>5. /\ x.key = <<"boost", c.ticket>> /\ x.user = c.user /\ x.amount = -cost /\ x.at = now
    OBVIOUS
  <2> HIDE DEF c, x
  <2> QED
    BY <1>1, <1>2, <1>4, <1>5, <2>1, <2>2, <2>3, <2>4, <2>5 DEF c
<1>7. CASE ~(get_user_points_balance(c.user) >= cost)
  <2>1. UNCHANGED <<ledger, boosted>>
    BY <1>7 DEF spend_points
  <2> QED
    BY <1>5, <2>1
<1> QED
  BY <1>6, <1>7

\* Within the promise that was made for it, a boost keeps the limits, and is
\* marked and paid for.
LEMMA SpendKeeps ==
  ASSUME PInv, NEW h \in Handlers, NEW c \in Call, NEW x \in Row,
         c = calls[h], c # NoCall, c.at \in Nat,
         x.key = <<"boost", c.ticket>>, x.user = c.user, x.amount = -Cost[Kind(c.ticket)], x.at = now,
         \A r \in ledger : r.key # x.key,
         ledger' = ledger \cup {x}, boosted' = [boosted EXCEPT ![c.ticket] = c.at],
         calls' = [calls EXCEPT ![h] = NoCall], UNCHANGED <<casework, verdict>>
  PROVE  PInv'
<1> DEFINE t == c.ticket
           u == c.user
           cost == Cost[Kind(t)]
<1>1. t \in Tickets /\ u \in Users /\ cost \in Nat /\ Kind(t) \in Kinds
  BY KindIsOne, Settings DEF Call
<1>2. c.at # NoTime /\ c.at <= now /\ Checked(ledger, boosted, c) /\ now \in Nat
  BY Settings DEF PInv, Promised, CaseTypeOK
<1>3. /\ u = Owner[t] /\ boosted[t] = NoTime /\ Dated(BoostsOf(ledger, u), c.at)
      /\ Room(BoostsOf(ledger, u), c.at, cost) /\ Waited(BoostsOf(ledger, u), c.at, Kind(t))
      /\ Cardinality(MarksOn(boosted, u, Kind(t), c.at \div Day)) < KindDaily[Kind(t)]
  BY <1>2 DEF Checked
<1>4. LedgerTyped(ledger', now)
  <2>1. IsFiniteSet(ledger')
    BY FS_AddElement DEF PInv, LedgerTyped
  <2> QED
    BY <1>2, <2>1 DEF PInv, LedgerTyped
<1>5. boosted \in [Tickets -> Nat \cup {NoTime}] /\ IsFiniteSet(Marked(boosted))
  BY DEF PInv, MarksTyped
<1>6. \A y \in Tickets : boosted'[y] = IF y = t THEN c.at ELSE boosted[y]
  BY <1>5
<1>7. MarksTyped(boosted')
  <2>1. Marked(boosted') = Marked(boosted) \cup {t}
    BY <1>1, <1>2, <1>6 DEF Marked
  <2>2. IsFiniteSet(Marked(boosted'))
    <3>1. IsFiniteSet(Marked(boosted) \cup {t})
      BY <1>5, FS_AddElement
    <3> QED
      BY <2>1, <3>1
  <2> QED
    BY <1>1, <1>5, <2>2 DEF MarksTyped
<1>8. CallsTyped(calls') /\ OneCall(calls')
  BY DEF PInv, CallsTyped, OneCall
<1>9. ASSUME NEW y \in Tickets
      PROVE  PaidFor(ledger', boosted', y)
  <2>1. PaidFor(ledger, boosted, y)
    BY DEF PInv
  <2>2. CASE y # t
    <3>1. {r \in ledger' : r.key = <<"boost", y>>} = {r \in ledger : r.key = <<"boost", y>>}
      BY <2>2
    <3>2. boosted'[y] = boosted[y]
      BY <1>6, <2>2
    <3> QED
      BY <2>1, <3>1, <3>2 DEF PaidFor
  <2>3. CASE y = t
    <3>1. {r \in ledger' : r.key = <<"boost", y>>} = {x}
      BY <2>3
    <3>2. boosted'[y] = c.at
      BY <1>6, <2>3
    <3> QED
      BY <1>2, <1>3, <2>3, <3>1, <3>2 DEF PaidFor
  <2> QED
    BY <2>2, <2>3
<1>10. \A v \in Users : MarksHold(boosted', v)
  <2>1. \A v \in Users : MarksHold(boosted, v)
    BY DEF PInv
  <2>2. Cardinality(MarksOn(boosted, Owner[t], Kind(t), c.at \div Day)) < KindDaily[Kind(t)]
    BY <1>3
  <2>3. \A v \in Users : MarksHold([boosted EXCEPT ![t] = c.at], v)
    <3> DEFINE at == c.at
    <3>1. at \in Nat
      OBVIOUS
    <3> HIDE DEF at, t
    <3>2. Cardinality(MarksOn(boosted, Owner[t], Kind(t), at \div Day)) < KindDaily[Kind(t)]
      BY <2>2 DEF at
    <3>3. \A v \in Users : MarksHold([boosted EXCEPT ![t] = at], v)
      BY <1>1, <1>3, <1>5, <2>1, <3>1, <3>2, MarkKeepsDaily
    <3> QED
      BY <3>3 DEF at
  <2> QED
    BY <2>3
<1>11. ASSUME NEW v \in Users, v # u
       PROVE  BoostsOf(ledger', v) = BoostsOf(ledger, v)
  BY <1>11 DEF BoostsOf
<1>12. BoostsOf(ledger', u) = BoostsOf(ledger, u) \cup {x}
  BY DEF BoostsOf
<1>13. Limits(BoostsOf(ledger', u)) /\ Spaced(BoostsOf(ledger', u))
  <2> DEFINE b == BoostsOf(ledger, u)
  <2>1. Bookings(b) /\ x \notin b
    BY BoostsAreBookings DEF BoostsOf
  <2>2. Limits(b) /\ Spaced(b)
    BY <1>1 DEF PInv
  <2>3. x.amount = -cost /\ Kind(x.key[2]) = Kind(t)
    OBVIOUS
  <2> DEFINE at == c.at
  <2>4. at \in Nat /\ After(x, at)
    BY <1>2 DEF After
  <2>5. Dated(b, at) /\ Room(b, at, cost) /\ Waited(b, at, Kind(t))
    BY <1>3
  <2> HIDE DEF b, cost, at
  <2>6. Limits(b \cup {x})
    BY <1>1, <2>1, <2>2, <2>3, <2>4, <2>5, BoostKeepsLimits
  <2>7. Spaced(b \cup {x})
    BY <1>1, <2>2, <2>3, <2>4, <2>5, BoostKeepsSpacing
  <2> QED
    BY <1>12, <2>6, <2>7 DEF b
<1>14. \A v \in Users : Limits(BoostsOf(ledger', v)) /\ Spaced(BoostsOf(ledger', v))
  <2>1. \A v \in Users : Limits(BoostsOf(ledger, v)) /\ Spaced(BoostsOf(ledger, v))
    BY DEF PInv
  <2> QED
    BY <1>11, <1>13, <2>1
<1>15. Promised(ledger', boosted', calls', now)
  <2> SUFFICES ASSUME NEW k \in Handlers, calls'[k] # NoCall, calls'[k].at # NoTime
               PROVE  calls'[k].at <= now /\ Checked(ledger', boosted', calls'[k])
    BY DEF Promised
  <2>1. calls \in [Handlers -> Call \cup {NoCall}]
    BY DEF PInv, CallsTyped
  <2>2. k # h /\ calls'[k] = calls[k]
    BY <2>1
  <2> DEFINE d == calls[k]
             v == d.user
             dcost == Cost[Kind(d.ticket)]
  <2>3. d # NoCall /\ d.at # NoTime /\ d \in Call
    BY <2>1, <2>2
  <2>4. d.at <= now /\ Checked(ledger, boosted, d)
    BY <2>3 DEF PInv, Promised
  <2>5. v # u
    BY <2>2, <2>3 DEF PInv, OneCall
  <2>6. v \in Users /\ v = Owner[d.ticket] /\ d.ticket \in Tickets
    BY <2>3, <2>4 DEF Checked, Call
  <2>7. BoostsOf(ledger', v) = BoostsOf(ledger, v)
    BY <1>11, <2>5, <2>6
  <2>8. d.ticket # t /\ boosted'[d.ticket] = boosted[d.ticket]
    BY <1>3, <1>6, <2>5, <2>6
  <2>9. MarksOn(boosted', v, Kind(d.ticket), d.at \div Day) = MarksOn(boosted, v, Kind(d.ticket), d.at \div Day)
    <3>1. \A y \in Tickets : Owner[y] = v => boosted'[y] = boosted[y]
      BY <1>3, <1>6, <2>5
    <3> QED
      BY <3>1 DEF MarksOn
  <2>10. Funded(ledger', v, dcost)
    <3>1. ledger \subseteq Row /\ IsFiniteSet(ledger) /\ x \notin ledger
      BY DEF PInv, LedgerTyped
    <3>2. Funded(ledger, v, dcost)
      BY <2>4 DEF Checked
    <3>3. dcost \in Nat
      BY <2>6, KindIsOne, Settings
    <3>4. x.user # v
      BY <2>5
    <3> HIDE DEF dcost, v
    <3> QED
      BY <3>1, <3>2, <3>3, <3>4, OtherRowIsFunded
  <2>11. Checked(ledger', boosted', d)
    BY <2>4, <2>7, <2>8, <2>9, <2>10 DEF Checked
  <2> QED
    BY <2>2, <2>4, <2>11
<1> QED
  BY <1>4, <1>7, <1>8, <1>9, <1>10, <1>14, <1>15 DEF PInv, casework, case, appeal, CaseTypeOK

\* What an approval or a moderator books.
LEMMA GrantMoves ==
  ASSUME PInv, NEW key, NEW u \in Users, NEW amount \in Int,
         key \in {"boost", "reward"} \X Tickets \cup {"manual"} \X (1..MaxAdjust),
         grant_points(key, u, amount)
  PROVE  \/ ledger' = ledger
         \/ \E x \in Row : /\ x.key = key /\ x.user = u /\ x.amount = amount /\ x.at = now
                           /\ \A r \in ledger : r.key # x.key
                           /\ ledger' = ledger \cup {x}
<1> DEFINE x == [key |-> key, user |-> u, amount |-> amount, at |-> now]
<1>1. x \in Row
  BY DEF Row, PInv, CaseTypeOK
<1>2. CASE \E r \in ledger : r.key = key
  BY <1>2 DEF grant_points
<1>3. CASE ~ \E r \in ledger : r.key = key
  <2>1. ledger' = ledger \cup {x}
    BY <1>3 DEF grant_points
  <2>2. x.key = key /\ x.user = u /\ x.amount = amount /\ x.at = now
    OBVIOUS
  <2>3. \A r \in ledger : r.key # x.key
    BY <1>3, <2>2
  <2> HIDE DEF x
  <2> QED
    BY <1>1, <2>1, <2>2, <2>3
<1> QED
  BY <1>2, <1>3

\* The settled part of the invariant, with the verdicts apart.
LEMMA VerdictKeeps ==
  ASSUME PInv, verdict' \in [Items -> {"NEW", "APPROVED", "REJECTED"}],
         UNCHANGED <<casework, ledger, boosted, calls>>
  PROVE  PInv'
BY DEF PInv, casework, case, appeal, CaseTypeOK

\* Every step keeps the invariant of the ledger.
LEMMA PointsStepKeeps ==
  ASSUME PInv, Next
  PROVE  PInv'
<1>1. CASE CaseNext({t \in Cases : Locked(t)}) /\ UNCHANGED points
  <2>1. CaseTypeOK /\ now \in Nat
    BY DEF PInv, CaseTypeOK
  <2>2. CaseTypeOK'
    BY <1>1, <2>1, CaseStepKeepsTypes
  <2>3. now' \in Nat /\ now <= now'
    BY <1>1, <2>1, CaseClock
  <2> QED
    BY <1>1, <2>2, <2>3, LaterIsNoWorse
<1>2. ASSUME NEW i \in Items, approve_feedback(i)
      PROVE  PInv'
  <2>1. /\ verdict' \in [Items -> {"NEW", "APPROVED", "REJECTED"}]
        /\ grant_points(<<"reward", i>>, Owner[i], Reward)
        /\ UNCHANGED <<casework, boosted, calls>>
    BY <1>2 DEF approve_feedback, PInv
  <2>2. Owner[i] \in Users /\ Reward \in Int /\ Reward > 0 /\ i \in Tickets
    BY Settings DEF Tickets
  <2>3. <<"reward", i>> \in {"boost", "reward"} \X Tickets \cup {"manual"} \X (1..MaxAdjust)
    BY <2>2
  <2>4. CASE ledger' = ledger
    BY <2>1, <2>4, VerdictKeeps
  <2>5. CASE ledger' # ledger
    <3>1. PICK x \in Row : /\ x.key = <<"reward", i>> /\ x.amount = Reward /\ x.at = now
                           /\ \A r \in ledger : r.key # x.key
                           /\ ledger' = ledger \cup {x}
      BY <2>1, <2>2, <2>3, <2>5, GrantMoves
    <3>2. x.key[1] # "boost" /\ x.amount > 0
      BY <2>2, <3>1
    <3> QED
      BY <2>1, <3>1, <3>2, OtherRowKeeps
  <2> QED
    BY <2>4, <2>5
<1>3. ASSUME NEW i \in Items, reject_feedback(i)
      PROVE  PInv'
  <2>1. verdict' \in [Items -> {"NEW", "APPROVED", "REJECTED"}]
    BY <1>3 DEF reject_feedback, PInv
  <2> QED
    BY <1>3, <2>1, VerdictKeeps DEF reject_feedback
<1>4. ASSUME NEW n \in 1..MaxAdjust, NEW u \in Users, NEW amount \in Adjustments, mod_points(n, u, amount)
      PROVE  PInv'
  <2>1. /\ grant_points(<<"manual", n>>, u, amount) /\ ~UserLocked(u)
        /\ UNCHANGED <<casework, verdict, boosted, calls>>
    BY <1>4 DEF mod_points
  <2>2. amount \in Int
    BY Settings
  <2>3. <<"manual", n>> \in {"boost", "reward"} \X Tickets \cup {"manual"} \X (1..MaxAdjust)
    OBVIOUS
  <2>4. verdict' \in [Items -> {"NEW", "APPROVED", "REJECTED"}]
    BY <2>1 DEF PInv
  <2>5. CASE ledger' = ledger
    BY <2>1, <2>4, <2>5, VerdictKeeps
  <2>6. CASE ledger' # ledger
    <3>1. PICK x \in Row : /\ x.key = <<"manual", n>> /\ x.user = u /\ x.at = now
                           /\ \A r \in ledger : r.key # x.key
                           /\ ledger' = ledger \cup {x}
      BY <2>1, <2>2, <2>3, <2>6, GrantMoves
    <3>2. x.key[1] # "boost"
      BY <3>1
    <3>3. \A h \in Handlers : ~(calls[h] # NoCall /\ calls[h].user = x.user)
      BY <2>1, <3>1 DEF UserLocked, Busy
    <3> QED
      BY <2>1, <2>4, <3>1, <3>2, <3>3, OtherRowKeeps
  <2> QED
    BY <2>5, <2>6
<1>5. ASSUME NEW h \in Handlers, NEW t \in Tickets, NEW u \in Users, command_boost(h, t, u)
      PROVE  PInv'
  <2> DEFINE c == [ticket |-> t, user |-> u, at |-> NoTime]
  <2>1. c \in Call /\ c.user = u /\ c.at = NoTime
    BY DEF Call
  <2>2. \A k \in Handlers : calls[k] # NoCall => calls[k].user # u
    BY <1>5 DEF command_boost, UserLocked, Busy
  <2>3. calls' = [calls EXCEPT ![h] = c] /\ UNCHANGED <<casework, verdict, ledger, boosted>>
    BY <1>5 DEF command_boost
  <2> HIDE DEF c
  <2> QED
    BY <2>1, <2>2, <2>3, CallMoves
<1>6. ASSUME NEW h \in Handlers, UNCHANGED <<casework, verdict, ledger, boosted>>,
             calls' = [calls EXCEPT ![h] = NoCall]
      PROVE  PInv'
  BY <1>6, CallMoves
<1>7. ASSUME NEW h \in Handlers, redeem_is_checked(h)
      PROVE  PInv'
  <2> DEFINE d == calls[h]
             t == d.ticket
             u == d.user
             c == [d EXCEPT !.at = now]
  <2>1. d # NoCall /\ d \in Call /\ UNCHANGED <<casework, verdict, ledger, boosted>>
    BY <1>7 DEF redeem_is_checked, Busy, PInv, CallsTyped
  <2>2. CASE u = Owner[t] /\ Open(t) /\ boosted[t] = NoTime /\ PolicyAllows(u, Kind(t))
    <3>1. calls' = [calls EXCEPT ![h] = c]
      BY <1>7, <2>2 DEF redeem_is_checked
    <3>2. now \in Nat
      BY DEF PInv, CaseTypeOK
    <3>3. c \in Call /\ c.ticket = t /\ c.user = u /\ c.at = now
      BY <2>1, <3>2 DEF Call
    <3>4. t \in Tickets /\ u \in Users
      BY <2>1 DEF Call
    <3>5. Checked(ledger, boosted, c)
      <4> HIDE DEF c, t, u
      <4> QED
        BY <2>2, <3>3, <3>4, AllowedIsChecked
    <3>6. \A k \in Handlers : k # h /\ calls[k] # NoCall => calls[k].user # c.user
      BY <2>1, <3>3 DEF PInv, OneCall
    <3>7. c.at <= now
      BY <3>2, <3>3
    <3> HIDE DEF c
    <3> QED
      BY <2>1, <3>1, <3>3, <3>5, <3>6, <3>7, CallMoves
  <2>3. CASE ~(u = Owner[t] /\ Open(t) /\ boosted[t] = NoTime /\ PolicyAllows(u, Kind(t)))
    <3>1. calls' = [calls EXCEPT ![h] = NoCall]
      BY <1>7, <2>3 DEF redeem_is_checked
    <3> QED
      BY <1>6, <2>1, <3>1
  <2> QED
    BY <2>2, <2>3
<1>8. ASSUME NEW h \in Handlers, spend_points(h)
      PROVE  PInv'
  <2>1. CASE UNCHANGED <<casework, verdict, ledger, boosted>> /\ calls' = [calls EXCEPT ![h] = NoCall]
    BY <1>6, <2>1
  <2>2. CASE ~(UNCHANGED <<casework, verdict, ledger, boosted>> /\ calls' = [calls EXCEPT ![h] = NoCall])
    <3>1. PICK c \in Call, x \in Row :
              /\ c = calls[h] /\ c # NoCall /\ c.at \in Nat
              /\ x.key = <<"boost", c.ticket>> /\ x.user = c.user /\ x.amount = -Cost[Kind(c.ticket)]
              /\ x.at = now
              /\ \A r \in ledger : r.key # x.key
              /\ ledger' = ledger \cup {x}
              /\ boosted' = [boosted EXCEPT ![c.ticket] = c.at]
              /\ calls' = [calls EXCEPT ![h] = NoCall]
              /\ UNCHANGED <<casework, verdict>>
      BY <1>8, <2>2, SpendingMoves
    <3> QED
      BY <3>1, SpendKeeps
  <2> QED
    BY <2>1, <2>2
<1>9. ASSUME NEW h \in Handlers, boost_is_rolled_back(h)
      PROVE  PInv'
  BY <1>6, <1>9 DEF boost_is_rolled_back
<1> QED
  BY <1>1, <1>2, <1>3, <1>4, <1>5, <1>7, <1>8, <1>9 DEF Next, Boost

\* An empty ledger satisfies the invariant.
LEMMA PointsStart == Init => PInv
<1> SUFFICES ASSUME Init PROVE PInv
  OBVIOUS
<1>1. /\ CaseInit /\ verdict = [i \in Items |-> "NEW"] /\ ledger = {}
      /\ boosted = [t \in Tickets |-> NoTime] /\ calls = [h \in Handlers |-> NoCall]
  BY DEF Init
<1>2. CaseTypeOK
  BY <1>1, CaseStartsLogged DEF CaseInv
<1>3. IsFiniteSet({})
  BY FS_EmptySet
<1>4. LedgerTyped(ledger, now)
  BY <1>1, <1>3 DEF LedgerTyped
<1>5. Marked(boosted) = {}
  BY <1>1 DEF Marked
<1>6. MarksTyped(boosted)
  BY <1>1, <1>3, <1>5 DEF MarksTyped
<1>7. CallsTyped(calls) /\ OneCall(calls) /\ Promised(ledger, boosted, calls, now)
  BY <1>1 DEF CallsTyped, OneCall, Promised
<1>8. \A t \in Tickets : PaidFor(ledger, boosted, t)
  BY <1>1 DEF PaidFor
<1>9. \A u \in Users : /\ Limits(BoostsOf(ledger, u)) /\ Spaced(BoostsOf(ledger, u))
                       /\ MarksHold(boosted, u)
  BY <1>1 DEF Limits, Spaced, BoostsOf, MarksHold
<1> QED
  BY <1>1, <1>2, <1>4, <1>6, <1>7, <1>8, <1>9 DEF PInv

\* The invariant holds of every behaviour of the ledger.
LEMMA PointsInvariant == Spec => []PInv
<1>1. PInv /\ [Next]_vars => PInv'
  <2> SUFFICES ASSUME PInv, [Next]_vars PROVE PInv'
    OBVIOUS
  <2>1. CASE Next
    BY <2>1, PointsStepKeeps
  <2>2. CASE UNCHANGED vars
    BY <2>2, VerdictKeeps DEF vars, points, PInv
  <2> QED
    BY <2>1, <2>2
<1> QED
  BY <1>1, PointsStart, PTL DEF Spec

\* No user gets past the limits and cooldowns of boosts, whatever commands run
\* at the same time and wherever a period ends between a check and the booking
\* (points_service.py and the redeem functions of the three services).
THEOREM LimitsAreKept == Spec => []BoostLimitsHold
BY PointsInvariant, InvariantIsEnough, PTL

\* A case is marked as boosted exactly when its owner paid its price, once.
THEOREM MarksArePaidFor == Spec => []BoostIsPaidFor
BY PointsInvariant, InvariantIsEnough, PTL

\* The price of a boost leaves what its checks asked for.
LEMMA SpendLeavesEnough ==
  ASSUME NEW rows, rows \subseteq Row, IsFiniteSet(rows), NEW x \in Row, x \notin rows, NEW u, NEW cost \in Nat,
         x.user = u, x.amount = -cost, Funded(rows, u, cost), BalanceOf(rows, u) >= cost
  PROVE  BalanceOf(rows \cup {x}, u) >= MinBalance /\ EarnedOf(rows \cup {x}, u) >= MinEarned
<1> DEFINE own == {r \in rows : r.user = u}
           earned == {r \in rows : r.user = u /\ r.amount > 0}
<1>1. Amounts(own) /\ x.amount \in Int /\ MinBalance \in Nat
  BY FS_Subset, Settings DEF Amounts, Row
<1>2. {r \in rows \cup {x} : r.user = u} = own \cup {x}
  OBVIOUS
<1>3. ~(x.amount > 0)
  OBVIOUS
<1>4. {r \in rows \cup {x} : r.user = u /\ r.amount > 0} = earned
  BY <1>3
<1>5. EarnedOf(rows \cup {x}, u) >= MinEarned
  BY <1>4 DEF Funded, EarnedOf
<1>6. BalanceOf(rows \cup {x}, u) >= MinBalance
  <2> DEFINE before == BalanceOf(rows, u)
             after == BalanceOf(rows \cup {x}, u)
  <2>1. before = Total(own) /\ after = Total(own) + x.amount /\ Total(own) \in Int
    BY <1>1, <1>2, TotalAddsRow, TotalIsInt DEF BalanceOf
  <2>2. before >= cost /\ (MinBalance = 0 \/ before - cost >= MinBalance)
    BY DEF Funded
  <2> HIDE DEF before, after
  <2>3. before \in Int /\ after = before - cost
    BY <1>1, <2>1
  <2>4. after >= MinBalance
    BY <1>1, <2>2, <2>3
  <2> QED
    BY <2>4 DEF after
<1> QED
  BY <1>5, <1>6

BoostLeavesEnough ==
  \A u \in Users : Boosts(u)' # Boosts(u) =>
    get_user_points_balance(u)' >= MinBalance /\ total_earned(u)' >= MinEarned

\* A step that books a boost leaves its user enough.
LEMMA StepLeavesEnough ==
  ASSUME PInv, [Next]_vars
  PROVE  BoostLeavesEnough
<1>1. ASSUME ledger' = ledger
      PROVE  BoostLeavesEnough
  BY <1>1 DEF BoostLeavesEnough, Boosts
<1>2. ASSUME NEW x \in Row, x.key[1] # "boost", ledger' = ledger \cup {x}
      PROVE  BoostLeavesEnough
  <2>1. \A u : {r \in ledger' : r.user = u /\ r.key[1] = "boost"} = {r \in ledger : r.user = u /\ r.key[1] = "boost"}
    BY <1>2
  <2> QED
    BY <2>1 DEF BoostLeavesEnough, Boosts
<1>3. ASSUME NEW i \in Items, approve_feedback(i), ledger' # ledger
      PROVE  BoostLeavesEnough
  <2>1. Owner[i] \in Users /\ Reward \in Int /\ i \in Tickets /\ grant_points(<<"reward", i>>, Owner[i], Reward)
    BY <1>3, Settings DEF Tickets, approve_feedback
  <2>2. <<"reward", i>> \in {"boost", "reward"} \X Tickets \cup {"manual"} \X (1..MaxAdjust)
    BY <2>1
  <2>3. PICK x \in Row : x.key = <<"reward", i>> /\ ledger' = ledger \cup {x}
    BY <1>3, <2>1, <2>2, GrantMoves
  <2>4. x.key[1] # "boost"
    BY <2>3
  <2> QED
    BY <1>2, <2>3, <2>4
<1>4. ASSUME NEW n \in 1..MaxAdjust, NEW u \in Users, NEW amount \in Adjustments, mod_points(n, u, amount),
             ledger' # ledger
      PROVE  BoostLeavesEnough
  <2>1. amount \in Int /\ grant_points(<<"manual", n>>, u, amount)
    BY <1>4, Settings DEF mod_points
  <2>2. <<"manual", n>> \in {"boost", "reward"} \X Tickets \cup {"manual"} \X (1..MaxAdjust)
    OBVIOUS
  <2>3. PICK x \in Row : x.key = <<"manual", n>> /\ ledger' = ledger \cup {x}
    BY <1>4, <2>1, <2>2, GrantMoves
  <2>4. x.key[1] # "boost"
    BY <2>3
  <2> QED
    BY <1>2, <2>3, <2>4
<1>5. ASSUME NEW h \in Handlers, spend_points(h), ledger' # ledger
      PROVE  BoostLeavesEnough
  <2>1. PICK c \in Call, x \in Row :
          /\ c = calls[h] /\ c # NoCall /\ c.at \in Nat
          /\ x.key = <<"boost", c.ticket>> /\ x.user = c.user /\ x.amount = -Cost[Kind(c.ticket)]
          /\ \A r \in ledger : r.key # x.key
          /\ BalanceOf(ledger, c.user) >= Cost[Kind(c.ticket)]
          /\ ledger' = ledger \cup {x}
    BY <1>5, SpendingMoves
  <2> DEFINE u == c.user
             cost == Cost[Kind(c.ticket)]
  <2>2. Funded(ledger, u, cost)
    BY <2>1, Settings DEF PInv, Promised, Checked
  <2>3. cost \in Nat
    BY KindIsOne, Settings DEF Call
  <2>4. ledger \subseteq Row /\ IsFiniteSet(ledger) /\ x \notin ledger
    BY <2>1 DEF PInv, LedgerTyped
  <2>5. x.user = u /\ x.amount = -cost /\ BalanceOf(ledger, u) >= cost
    BY <2>1
  <2> HIDE DEF u, cost
  <2>6. BalanceOf(ledger \cup {x}, u) >= MinBalance /\ EarnedOf(ledger \cup {x}, u) >= MinEarned
    BY <2>2, <2>3, <2>4, <2>5, SpendLeavesEnough
  <2>7. get_user_points_balance(u)' >= MinBalance /\ total_earned(u)' >= MinEarned
    BY <2>1, <2>6 DEF get_user_points_balance, total_earned, BalanceOf, EarnedOf
  <2>8. ASSUME NEW v \in Users, v # u
        PROVE  Boosts(v)' = Boosts(v)
    BY <2>1, <2>5, <2>8 DEF Boosts
  <2> QED
    BY <2>7, <2>8 DEF BoostLeavesEnough
<1>6. CASE Next
  <2>1. CASE CaseNext({t \in Cases : Locked(t)}) /\ UNCHANGED points
    BY <1>1, <2>1 DEF points
  <2>2. ASSUME NEW i \in Items, reject_feedback(i)
        PROVE  BoostLeavesEnough
    BY <1>1, <2>2 DEF reject_feedback
  <2>3. ASSUME NEW h \in Handlers, NEW t \in Tickets, NEW u \in Users, command_boost(h, t, u)
        PROVE  BoostLeavesEnough
    BY <1>1, <2>3 DEF command_boost
  <2>4. ASSUME NEW h \in Handlers, redeem_is_checked(h) \/ boost_is_rolled_back(h)
        PROVE  BoostLeavesEnough
    BY <1>1, <2>4 DEF redeem_is_checked, boost_is_rolled_back
  <2> QED
    BY <1>1, <1>3, <1>4, <1>5, <1>6, <2>1, <2>2, <2>3, <2>4 DEF Next, Boost
<1>7. CASE UNCHANGED vars
  BY <1>1, <1>7 DEF vars, points
<1> QED
  BY <1>6, <1>7

\* A boost leaves its user the minimum balance, whatever was booked between its
\* checks and its price, and is for those who have earned enough.
THEOREM MinimumIsLeft == Spec => BoostLeavesMinimum
<1>1. PInv /\ [Next]_vars => BoostLeavesEnough
  BY StepLeavesEnough
<1> QED
  BY <1>1, PointsInvariant, PTL DEF Spec, BoostLeavesMinimum, BoostLeavesEnough
=============================================================================
