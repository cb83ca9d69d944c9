--------------------------- MODULE UserSideProofs ----------------------------
(***************************************************************************)
(* Proofs about components that users meet, each for any number of its      *)
(* actors: decisions on suggested posts, the wizard of lots, the delivery   *)
(* of notices, the sections of a private chat.  The components share no     *)
(* state; each part of this module is about one.                            *)
(***************************************************************************)
EXTENDS ChannelDesk, LotWizard, Delivery, PrivateTopics, SequenceTheorems, FiniteSetTheorems,
        WellFoundedInduction, TLAPS
-----------------------------------------------------------------------------
(* Decisions on suggested posts (module ChannelDesk).                       *)

Decision == [stage : {"call", "commit"}, post : Posts, approve : BOOLEAN, ok : BOOLEAN]
Verdict(j) == IF j.approve THEN "APPROVED" ELSE "DECLINED"

DeskTypeInv ==
  /\ review \in [Posts -> {None, "PENDING"} \cup Final]
  /\ post \in [Posts -> {"open", "APPROVED", "DECLINED"}]
  /\ job \in [Moderators -> {Idle} \cup Decision]

\* Who decides holds the lock of a review that is pending, alone, and notes
\* only what Telegram did.
DecisionsAreHeld ==
  \A m \in Moderators : job[m] # Idle =>
    /\ review[job[m].post] = "PENDING"
    /\ \A n \in Moderators \ {m} : job[n] # Idle => job[n].post # job[m].post
    /\ job[m].stage = "commit" /\ job[m].ok => post[job[m].post] = Verdict(job[m])

DeskInv == DeskTypeInv /\ DecisionsAreHeld

\* A moderator at rest holds no decision.
LEMMA IdleIsNoDecision == Idle \notin Decision /\ Idle.stage = "idle"
BY DEF Idle, Decision

\* What a decision under way is made of.
LEMMA DecisionHas ==
  ASSUME NEW j \in Decision
  PROVE  j.post \in Posts /\ j.stage \in {"call", "commit"} /\ j.approve \in BOOLEAN /\ j.ok \in BOOLEAN
BY DEF Decision

\* At first nobody decides.
LEMMA DeskInitInv == ASSUME DeskInit PROVE DeskInv
BY DEF DeskInit, DeskInv, DeskTypeInv, DecisionsAreHeld

\* The messages of the chat touch no review a moderator has locked.
LEMMA MessagesLeaveReviews ==
  ASSUME DeskInv, UNCHANGED <<post, job>>, NEW p \in Posts, NEW s \in {None, "PENDING"},
         review' = review \/ (review[p] = None /\ review' = [review EXCEPT ![p] = s])
  PROVE  DeskInv'
<1>1. DeskTypeInv'
  BY DEF DeskInv, DeskTypeInv
<1>2. \A q \in Posts : review[q] = "PENDING" => review'[q] = "PENDING"
  BY DEF DeskInv, DeskTypeInv, None
<1>3. DecisionsAreHeld'
  <2> SUFFICES ASSUME NEW m \in Moderators, job[m] # Idle
               PROVE  review'[job[m].post] = "PENDING"
    BY DEF DeskInv, DecisionsAreHeld, Verdict
  <2>1. job[m].post \in Posts
    BY DecisionHas DEF DeskInv, DeskTypeInv
  <2> QED BY <1>2, <2>1 DEF DeskInv, DecisionsAreHeld
<1> QED BY <1>1, <1>3 DEF DeskInv

\* A moderator takes the free lock of a pending review: nobody else decides it.
LEMMA DecisionBegins ==
  ASSUME DeskInv, NEW m \in Moderators, NEW p \in Posts, NEW b \in BOOLEAN, begin_decision(m, p, b)
  PROVE  DeskInv'
<1> DEFINE j == [stage |-> "call", post |-> p, approve |-> b, ok |-> FALSE]
<1>1. /\ ~locked(p) /\ review[p] = "PENDING" /\ job' = [job EXCEPT ![m] = j] /\ UNCHANGED <<review, post>>
  BY DEF begin_decision
<1>2. j \in Decision /\ j.post = p /\ j.stage = "call"
  BY DEF Decision
<1>3. \A n \in Moderators : job[n] # Idle => job[n].post # p
  <2> SUFFICES ASSUME NEW n \in Moderators, job[n] # Idle PROVE job[n].stage # "idle"
    BY <1>1 DEF locked
  <2> QED BY DecisionHas DEF DeskInv, DeskTypeInv
<1> HIDE DEF j
<1>4. DeskTypeInv'
  BY <1>1, <1>2 DEF DeskInv, DeskTypeInv
<1>5. DecisionsAreHeld'
  BY <1>1, <1>2, <1>3 DEF DeskInv, DeskTypeInv, DecisionsAreHeld, Verdict
<1> QED BY <1>4, <1>5 DEF DeskInv

\* A post is decided at Telegram once: what another moderator noted stays true.
LEMMA TelegramIsCalled ==
  ASSUME DeskInv, NEW m \in Moderators, call_telegram(m)
  PROVE  DeskInv'
<1> DEFINE p == job[m].post
           decided == Verdict(job[m])
<1>1. PICK applied \in BOOLEAN, answered \in BOOLEAN :
        /\ applied => post[p] = "open"
        /\ post' = [post EXCEPT ![p] = IF applied THEN decided ELSE @]
        /\ job' = [job EXCEPT ![m].stage = "commit", ![m].ok = applied /\ answered]
  BY DEF call_telegram, Verdict
<1>2. UNCHANGED review /\ job[m].stage = "call"
  BY DEF call_telegram
<1>3. job[m] \in Decision /\ p \in Posts /\ job[m] # Idle
  BY <1>2, IdleIsNoDecision, DecisionHas DEF DeskInv, DeskTypeInv
<1>4. PICK j \in Decision :
        /\ job' = [job EXCEPT ![m] = j]
        /\ j.post = p /\ j.stage = "commit" /\ j.ok = (applied /\ answered) /\ j.approve = job[m].approve
  <2> DEFINE j == [job[m] EXCEPT !.stage = "commit", !.ok = applied /\ answered]
  <2>1. j \in Decision /\ j.post = p /\ j.stage = "commit" /\ j.ok = (applied /\ answered)
        /\ j.approve = job[m].approve
    BY <1>3 DEF Decision
  <2>2. job' = [job EXCEPT ![m] = j]
    BY <1>1, <1>3 DEF DeskInv, DeskTypeInv
  <2> HIDE DEF j
  <2> QED BY <2>1, <2>2
<1>5. decided \in {"APPROVED", "DECLINED"} /\ Verdict(j) = decided
  BY <1>4 DEF Verdict
<1>6. DeskTypeInv'
  <2> HIDE DEF decided, p
  <2> QED BY <1>1, <1>2, <1>3, <1>4, <1>5 DEF DeskInv, DeskTypeInv
<1>7. ASSUME NEW n \in Moderators, job'[n] # Idle
      PROVE  /\ review[job'[n].post] = "PENDING"
             /\ \A k \in Moderators \ {n} : job'[k] # Idle => job'[k].post # job'[n].post
             /\ job'[n].stage = "commit" /\ job'[n].ok => post'[job'[n].post] = Verdict(job'[n])
  <2>1. \A k \in Moderators : /\ (job'[k] # Idle) => job[k] # Idle
                              /\ job'[k].post = job[k].post
                              /\ k # m => job'[k] = job[k]
    BY <1>3, <1>4 DEF DeskInv, DeskTypeInv
  <2>2. /\ review[job'[n].post] = "PENDING"
        /\ \A k \in Moderators \ {n} : job'[k] # Idle => job'[k].post # job'[n].post
    BY <1>7, <2>1 DEF DeskInv, DecisionsAreHeld
  <2>3. CASE n = m
    <3>1. job'[n] = j
      BY <1>4, <2>3 DEF DeskInv, DeskTypeInv
    <3>2. j.ok => post'[p] = decided
      BY <1>1, <1>3, <1>4 DEF DeskInv, DeskTypeInv
    <3> QED BY <1>4, <1>5, <2>2, <3>1, <3>2
  <2>4. CASE n # m
    <3>1. job'[n] = job[n] /\ job[n].post # p /\ job[n].post \in Posts
      BY <1>3, <1>7, <2>1, <2>4, DecisionHas DEF DeskInv, DeskTypeInv, DecisionsAreHeld
    <3>2. post'[job[n].post] = post[job[n].post]
      BY <1>1, <3>1 DEF DeskInv, DeskTypeInv
    <3> QED BY <1>7, <2>1, <2>2, <3>1, <3>2 DEF DeskInv, DecisionsAreHeld
  <2> QED BY <2>3, <2>4
<1>8. DecisionsAreHeld'
  BY <1>2, <1>7 DEF DecisionsAreHeld, Verdict
<1> QED BY <1>6, <1>8 DEF DeskInv

Outcome(j) ==
  CASE ~j.ok -> "FAILED" [] j.ok /\ j.approve -> "APPROVED" [] j.ok /\ ~j.approve -> "DECLINED"

\* A decision is noted, as what Telegram did, and its lock is released.
LEMMA DecisionIsCommitted ==
  ASSUME DeskInv, NEW m \in Moderators, handle_suggested_post_decision(m)
  PROVE  /\ DeskInv'
         /\ \A p \in Posts : review'[p] # review[p] =>
              /\ review[p] = "PENDING"
              /\ review'[p] \in {"APPROVED", "DECLINED"} => post'[p] = review'[p]
<1> DEFINE p == job[m].post
           s == Outcome(job[m])
<1>1. /\ job[m].stage = "commit" /\ review' = [review EXCEPT ![p] = s]
      /\ job' = [job EXCEPT ![m] = Idle] /\ UNCHANGED post
  BY DEF handle_suggested_post_decision, Outcome
<1>2. job[m] \in Decision /\ p \in Posts /\ job[m] # Idle
  BY <1>1, IdleIsNoDecision, DecisionHas DEF DeskInv, DeskTypeInv
<1>3. s \in Final /\ (s \in {"APPROVED", "DECLINED"} => job[m].ok /\ s = Verdict(job[m]))
  <2>1. job[m].ok \in BOOLEAN /\ job[m].approve \in BOOLEAN
    BY <1>2, DecisionHas
  <2> QED BY <2>1 DEF Outcome, Final, Verdict
<1>4. review[p] = "PENDING" /\ (job[m].ok => post[p] = Verdict(job[m]))
  BY <1>1, <1>2 DEF DeskInv, DecisionsAreHeld
<1> HIDE DEF s
<1>5. DeskTypeInv'
  BY <1>1, <1>2, <1>3 DEF DeskInv, DeskTypeInv
<1>6. ASSUME NEW n \in Moderators, job'[n] # Idle
      PROVE  n # m /\ job'[n] = job[n] /\ job[n].post # p /\ review'[job[n].post] = "PENDING"
  <2>1. n # m /\ job'[n] = job[n] /\ job[n] # Idle
    BY <1>1, <1>6 DEF DeskInv, DeskTypeInv
  <2>2. job[n].post # p /\ job[n].post \in Posts /\ review[job[n].post] = "PENDING"
    BY <1>2, <2>1, DecisionHas DEF DeskInv, DeskTypeInv, DecisionsAreHeld
  <2> QED BY <1>1, <2>1, <2>2 DEF DeskInv, DeskTypeInv
<1>7. DecisionsAreHeld'
  BY <1>1, <1>6 DEF DeskInv, DecisionsAreHeld, Verdict
<1>8. \A q \in Posts : review'[q] # review[q] => q = p /\ review'[q] = s
  BY <1>1, <1>2 DEF DeskInv, DeskTypeInv
<1> QED BY <1>1, <1>3, <1>4, <1>5, <1>7, <1>8 DEF DeskInv

\* What a step may do to a review.
Stands ==
  \A p \in Posts : review'[p] # review[p] =>
    /\ review[p] \in {None, "PENDING"}
    /\ review'[p] \in {"APPROVED", "DECLINED"} => post'[p] = review'[p]

\* Every step keeps the invariant, and no step touches a decision that stands.
LEMMA DeskNextInv == ASSUME DeskInv, [DeskNext]_desk_vars PROVE DeskInv' /\ Stands
<1>1. CASE UNCHANGED <<review, post, job>>
  BY <1>1 DEF DeskInv, DeskTypeInv, DecisionsAreHeld, Stands, Verdict
<1>2. ASSUME NEW e \in OwnerEvents, owner_event_arrives(e) \/ send_alert(e)
      PROVE  DeskInv' /\ Stands
  BY <1>1, <1>2 DEF owner_event_arrives, record_chat_owner_service_event, ignored, send_alert
<1>3. ASSUME NEW p \in Posts, suggestion_arrives(p)
      PROVE  DeskInv' /\ Stands
  <2>1. UNCHANGED <<post, job>>
    BY <1>3 DEF suggestion_arrives
  <2>2. \/ review' = review
        \/ review[p] = None /\ review' = [review EXCEPT ![p] = "PENDING"]
    BY <1>3 DEF suggestion_arrives, capture_suggested_post, ignored, DeskInv, DeskTypeInv
  <2>3. Stands
    BY <2>2 DEF Stands, DeskInv, DeskTypeInv
  <2> QED BY <2>1, <2>2, <2>3, MessagesLeaveReviews
<1>4. ASSUME NEW m \in Moderators, NEW p \in Posts, NEW b \in BOOLEAN, begin_decision(m, p, b)
      PROVE  DeskInv' /\ Stands
  BY <1>4, DecisionBegins DEF begin_decision, Stands
<1>5. ASSUME NEW m \in Moderators, call_telegram(m)
      PROVE  DeskInv' /\ Stands
  BY <1>5, TelegramIsCalled DEF call_telegram, Stands
<1>6. ASSUME NEW m \in Moderators, handle_suggested_post_decision(m)
      PROVE  DeskInv' /\ Stands
  BY <1>6, DecisionIsCommitted DEF Stands
<1>7. CASE confirm_chat_owner_events
  BY <1>1, <1>7 DEF confirm_chat_owner_events
<1>8. CASE crash
  BY <1>8 DEF crash, DeskInv, DeskTypeInv, DecisionsAreHeld, Stands
<1>9. CASE UNCHANGED desk_vars
  BY <1>1, <1>9 DEF desk_vars
<1> QED BY <1>2, <1>3, <1>4, <1>5, <1>6, <1>7, <1>8, <1>9 DEF DeskNext

(* A decision stands and is what Telegram did, for any number of moderators   *)
(* at any number of posts, and however often the bot is killed.              *)
THEOREM DecisionsStandAtTheDesk == DeskSpec => ReviewsStand
<1>1. DeskInit => DeskInv
  BY DeskInitInv
<1>2. DeskInv /\ [DeskNext]_desk_vars => DeskInv'
  BY DeskNextInv
<1>3. DeskInv /\ [DeskNext]_desk_vars =>
        [\A p \in Posts : (review'[p] # review[p]) =>
           /\ review[p] \in {None, "PENDING"}
           /\ (review'[p] \in {"APPROVED", "DECLINED"}) => (post'[p] = review'[p])]_desk_vars
  BY DeskNextInv DEF Stands
<1> QED BY <1>1, <1>2, <1>3, PTL DEF DeskSpec, ReviewsStand

-----------------------------------------------------------------------------
(* The wizard of lots (module LotWizard).                                   *)

Fields == DOMAIN Empty

\* q is a sequence, whatever it is made of.
IsSeq(q) == q \in Seq({q[i] : i \in DOMAIN q})

IsData(d) == d = [f \in Fields |-> d[f]] /\ d.photos \in Nat

\* The entered data is enough for step s: what WizardIsComplete says of the
\* step and the data of the wizard.
Enough(s, d) ==
  LET b == Before(s) IN
  /\ "photo" \in b => d.photos > 0
  /\ "description" \in b => d.description
  /\ "start_price" \in b => d.start_price \in Prices
  /\ "buyout_price" \in b => d.buyout_price = Skipped \/ d.buyout_price >= d.start_price
  /\ "min_step" \in b => d.min_step
  /\ "duration" \in b => d.duration

Written(d, w) == [d EXCEPT ![w.field] = w.to]

\* A write that never takes anything from a step.
Harmless(w) ==
  \/ w.field \in {"topic"}
  \/ w.field = "photos" /\ w.to \in Nat \ {0}
  \/ w.field \in {"description", "min_step", "duration", "anti_sniper"} /\ w.to = TRUE

\* A price is written first thing in the step that asks for it.
AskedFor(w, s) == w.field = s /\ s \in {"start_price", "buyout_price"}

Opening == {NoStep, "photo"}

\* What the handler has still to do leaves enough for each step it comes to.
StatesAreReady(q, s, d) ==
  \A i \in DOMAIN q : q[i].op = "state" =>
    \/ q[i].to \in Opening
    \/ i = 1 /\ Enough(q[i].to, d)
    \/ i = 2 /\ q[1].op = "data" /\ Enough(q[i].to, Written(d, q[1]))

WritesAreSafe(q, s) ==
  \A i \in DOMAIN q : q[i].op = "data" =>
    q[i].field \in Fields /\ (Harmless(q[i]) \/ (i = 1 /\ AskedFor(q[i], s)))

WipesAreLate(q, s) ==
  \A i \in DOMAIN q : q[i].op = "wipe" =>
    IF i = 1 THEN s = NoStep ELSE q[i - 1].op = "state" /\ q[i - 1].to = NoStep

Careful(q, s, d) == StatesAreReady(q, s, d) /\ WritesAreSafe(q, s) /\ WipesAreLate(q, s)

\* The lot was created and the wizard is about to be cleared.
WipeIsNext(q) ==
  \E i \in DOMAIN q : q[i].op = "wipe" /\ \A j \in 1..i - 1 : q[j].op # "commit"

\* One draft at most has not been accounted for by a death, and its wizard is about
\* to be cleared, or died when only the data was left.
DraftsAreCounted ==
  /\ drafts \in Nat
  /\ \/ drafts <= spoilt.reopened
     \/ /\ drafts = spoilt.reopened + 1
        /\ WipeIsNext(todo) \/ (state = NoStep /\ todo = <<>>)

\* A call for a board has these fields.
IsBoard(b) == b = [f \in {"op", "step", "note", "repost"} |-> b[f]]

\* Each board is shown in the step it is about.
BoardsAreTimely(q, s) ==
  \A i \in DOMAIN q : q[i].op = "board" =>
    /\ IsBoard(q[i])
    /\ \/ s = q[i].step /\ \A k \in 1..i - 1 : q[k].op # "state"
       \/ \E j \in 1..i - 1 : /\ q[j].op = "state" /\ q[j].to = q[i].step
                              /\ \A k \in j + 1..i - 1 : q[k].op # "state"

\* Whatever goes to a step shows it.
StatesAreShown(q) ==
  \A i \in DOMAIN q : q[i].op = "state" /\ q[i].to # NoStep =>
    \E k \in DOMAIN q : /\ k > i /\ q[k].op = "board"
                        /\ \A j \in i + 1..k - 1 : q[j].op \notin {"state", "wipe"}

\* What was shown is noted at once, after the old board was deleted.
NotesComeFirst(q, s) ==
  \A i \in DOMAIN q :
    /\ q[i].op = "shown" => q[i].text[1] = s /\ (i = 1 \/ (i = 2 /\ q[1].op = "delete"))
    /\ q[i].op = "delete" => i = 1 /\ 2 \in DOMAIN q /\ q[2].op = "shown"

CommitsComeLast(q, s) ==
  \A i \in DOMAIN q : q[i].op = "commit" =>
    s = "anti_sniper" /\ \A k \in DOMAIN q : k <= i /\ q[k].op \notin {"state", "wipe"}

Timely(q, s) ==
  BoardsAreTimely(q, s) /\ StatesAreShown(q) /\ NotesComeFirst(q, s) /\ CommitsComeLast(q, s)

\* One board with this id and text, or a second one to be deleted.
IsMessage(m) == m = [f \in {"id", "text"} |-> m[f]]
OneBoard(shown, id, text) ==
  id \in Nat \ {0} /\ \E m \in shown : shown = {m} /\ IsMessage(m) /\ m.id = id /\ m.text = text
TwoBoards(shown, old, id, text) ==
  /\ old # id /\ id \in Nat \ {0}
  /\ \E m, n \in shown : /\ shown = {m, n} /\ m.id = old
                         /\ IsMessage(n) /\ n.id = id /\ n.text = text
NoBoard(shown, d) == shown = {} /\ d.board = 0 /\ d.shown = <<>>

Starts(q, op) == q # <<>> /\ q[1].op = op

\* What the user sees is what the wizard remembers, or is about to.
Tidy(q, shown, d) ==
  \/ Starts(q, "shown") /\ OneBoard(shown, q[1].id, q[1].text)
  \/ Starts(q, "delete") /\ TwoBoards(shown, q[1].id, q[2].id, q[2].text)
  \/ /\ ~Starts(q, "shown") /\ ~Starts(q, "delete")
     /\ NoBoard(shown, d) \/ OneBoard(shown, d.board, d.shown)

BoardComes(q) == \E i \in DOMAIN q : q[i].op = "board" /\ \A k \in 1..i - 1 : q[k].op # "state"

\* It shows the step, or a board that does is about to be shown.
StepIsShown(q, s, shown, d) ==
  \/ s = NoStep \/ Starts(q, "shown") \/ Starts(q, "delete") \/ BoardComes(q)
  \/ shown # {} /\ d.shown[1] = s

WizardInv ==
  /\ IsData(data) /\ IsSeq(todo) /\ spoilt \in [crash : BOOLEAN, call : BOOLEAN, reopened : Nat]
  /\ Enough(state, data) /\ Careful(todo, state, data) /\ DraftsAreCounted
  /\ Timely(todo, state)
  /\ spoilt = Fresh => Tidy(todo, screen, data) /\ StepIsShown(todo, state, screen, data)

(***************************************************************************)
(* Sequences of calls.                                                     *)
(***************************************************************************)
\* r is q with k calls in the place of its first.
Replaced(r, q, k) ==
  /\ IsSeq(q) /\ IsSeq(r) /\ q # <<>> /\ k \in 0..2
  /\ Len(q) \in Nat \ {0} /\ DOMAIN q = 1..Len(q) /\ DOMAIN r = 1..Len(q) - 1 + k
  /\ \A i \in k + 1..Len(q) - 1 + k : r[i] = q[i + 1 - k]

\* What a sequence is made of.
LEMMA SeqParts ==
  ASSUME NEW q, IsSeq(q)
  PROVE  /\ Len(q) \in Nat /\ DOMAIN q = 1..Len(q)
         /\ q # <<>> => Head(q) = q[1] /\ Len(q) \in Nat \ {0}
BY EmptySeq, LenProperties, HeadTailProperties DEF IsSeq

\* A sequence over any set is one over what it is made of.
LEMMA FunIsSeq ==
  ASSUME NEW q, NEW S, q \in Seq(S)
  PROVE  IsSeq(q)
<1> DEFINE E == {q[i] : i \in DOMAIN q}
<1>1. q \in [1..Len(q) -> S] /\ Len(q) \in Nat /\ DOMAIN q = 1..Len(q)
  BY LenProperties
<1>2. q \in [1..Len(q) -> E]
  BY <1>1
<1>3. q \in Seq(E)
  <2> HIDE DEF E
  <2>1. Seq(E) = UNION {[1..k -> E] : k \in Nat}
    BY SeqDef
  <2> QED BY <1>1, <1>2, <2>1
<1> QED BY <1>3 DEF IsSeq

\* The rest of the calls: none in the place of the first.
LEMMA TailReplaces ==
  ASSUME NEW q, IsSeq(q), q # <<>>
  PROVE  Replaced(Tail(q), q, 0)
<1> DEFINE E == {q[i] : i \in DOMAIN q}
<1>1. q \in Seq(E)
  BY DEF IsSeq
<1>2. /\ Tail(q) \in Seq(E) /\ Len(Tail(q)) = Len(q) - 1
      /\ \A i \in 1..Len(Tail(q)) : Tail(q)[i] = q[i + 1]
  BY <1>1, HeadTailProperties
<1>3. IsSeq(Tail(q)) /\ DOMAIN Tail(q) = 1..Len(q) - 1
  BY <1>2, FunIsSeq, LenProperties
<1> QED BY <1>2, <1>3, SeqParts DEF Replaced

\* The rest with up to two calls before it.
LEMMA FrontReplaces ==
  ASSUME NEW q, IsSeq(q), q # <<>>, NEW p, IsSeq(p), Len(p) \in 0..2
  PROVE  Replaced(p \o Tail(q), q, Len(p)) /\ \A i \in 1..Len(p) : (p \o Tail(q))[i] = p[i]
<1> DEFINE E == {q[i] : i \in DOMAIN q} \cup {p[i] : i \in DOMAIN p}
           t == Tail(q)
           r == p \o t
<1>1. Replaced(t, q, 0)
  BY TailReplaces
<1>2. t \in Seq({t[i] : i \in DOMAIN t}) /\ p \in Seq({p[i] : i \in DOMAIN p})
  BY <1>1 DEF Replaced, IsSeq
<1>3. \A i \in DOMAIN t : t[i] \in E
  BY <1>1, SeqParts DEF Replaced
<1>4. t \in Seq(E) /\ p \in Seq(E)
  <2> DEFINE T == {t[i] : i \in DOMAIN t}
             P == {p[i] : i \in DOMAIN p}
  <2>1. T \subseteq E /\ P \subseteq E
    BY <1>3
  <2>2. t \in Seq(T) /\ p \in Seq(P)
    BY <1>2
  <2> HIDE DEF E, T, P, t
  <2> QED BY <2>1, <2>2, SeqMonotonic
<1>5. /\ r \in Seq(E) /\ Len(r) = Len(p) + Len(t)
      /\ \A i \in 1..Len(p) + Len(t) : r[i] = IF i <= Len(p) THEN p[i] ELSE t[i - Len(p)]
  BY <1>4, ConcatProperties
<1>6. Len(t) = Len(q) - 1 /\ Len(q) \in Nat \ {0}
  BY <1>1, <1>4, LenProperties, SeqParts DEF Replaced
<1>7. IsSeq(r) /\ DOMAIN r = 1..Len(r)
  BY <1>5, FunIsSeq, LenProperties
<1>8. ASSUME NEW i \in Len(p) + 1..Len(q) - 1 + Len(p)
      PROVE  r[i] = q[i + 1 - Len(p)]
  <2>1. r[i] = t[i - Len(p)]
    BY <1>5, <1>6
  <2>2. i - Len(p) \in 1..Len(q) - 1
    BY <1>6
  <2>3. t[i - Len(p)] = q[(i - Len(p)) + 1]
    BY <2>2, <1>1 DEF Replaced
  <2> QED BY <2>1, <2>3
<1>9. \A i \in 1..Len(p) : r[i] = p[i]
  BY <1>5, <1>6
<1> HIDE DEF r, t
<1> QED BY <1>5, <1>6, <1>7, <1>8, <1>9, SeqParts DEF Replaced, r, t

\* r begins with the k calls of p, put in the place of the first of q.
Begins(r, q, p, k) == Replaced(r, q, k) /\ \A i \in 1..k : r[i] = p[i]

\* What a handler has to do when p is put in the place of its first call.
LEMMA PutInFront ==
  ASSUME NEW p, IsSeq(p), Len(p) \in 0..2, IsSeq(todo), todo # <<>>, todo' = p \o Tail(todo)
  PROVE  Begins(todo', todo, p, Len(p))
<1> DEFINE t == todo
           r == p \o Tail(t)
<1>1. IsSeq(t) /\ t # <<>>
  OBVIOUS
<1> HIDE DEF t
<1>2. Begins(r, t, p, Len(p))
  BY <1>1, FrontReplaces DEF Begins
<1>3. todo' = r
  BY DEF t
<1> HIDE DEF r
<1> QED BY <1>2, <1>3 DEF t

\* Where the calls of the one are in the other.
LEMMA Places ==
  ASSUME NEW q, NEW r, NEW k, Replaced(r, q, k)
  PROVE  /\ k \in 0..2
         /\ \A i \in DOMAIN r : i > k =>
              /\ i + 1 - k \in DOMAIN q /\ i + 1 - k >= 2 /\ r[i] = q[i + 1 - k] /\ i \in Nat
         /\ \A j \in DOMAIN q : j >= 2 =>
              /\ j - 1 + k \in DOMAIN r /\ j - 1 + k > k /\ r[j - 1 + k] = q[j] /\ j \in Nat
         /\ \A j \in DOMAIN q : j \in Nat \ {0} /\ 1..j \subseteq DOMAIN q
         /\ \A i \in DOMAIN r : i \in Nat \ {0} /\ 1..i \subseteq DOMAIN r
<1>1. ASSUME NEW j \in DOMAIN q, j >= 2
      PROVE  j - 1 + k \in DOMAIN r /\ j - 1 + k > k /\ r[j - 1 + k] = q[j] /\ j \in Nat
  <2>1. j - 1 + k \in k + 1..Len(q) - 1 + k /\ j \in Nat /\ k \in 0..2
    BY <1>1 DEF Replaced
  <2>2. r[j - 1 + k] = q[(j - 1 + k) + 1 - k]
    BY <2>1 DEF Replaced
  <2>3. (j - 1 + k) + 1 - k = j
    BY <2>1
  <2> QED BY <2>1, <2>2, <2>3 DEF Replaced
<1> QED BY <1>1 DEF Replaced

(***************************************************************************)
(* What a call leaves of what was promised.                                *)
(***************************************************************************)
\* The step and the data after the first call of q, if it is one that sets
\* them; only a call about the board has others put in its place.
Moves(q, k, s, d, t, e) ==
  /\ q[1].op = "state" => k = 0 /\ t = q[1].to
  /\ q[1].op # "state" => t = s
  /\ q[1].op = "data" => k = 0 /\ e = Written(d, q[1])
  /\ q[1].op = "delete" => k = 0

\* The new calls are about the board.
OfTheBoard(r, k) == \A i \in 1..k : r[i].op \in {"board", "shown", "delete"}

\* What is done of a careful handler leaves a careful one.
LEMMA CarefulAfter ==
  ASSUME NEW q, NEW r, NEW k, Replaced(r, q, k), NEW s, NEW d, NEW t, NEW e,
         Careful(q, s, d), Moves(q, k, s, d, t, e), OfTheBoard(r, k)
  PROVE  Careful(r, t, e)
<1>1. ASSUME NEW i \in DOMAIN r, r[i].op \notin {"board", "shown", "delete"}
      PROVE  /\ i + 1 - k \in DOMAIN q /\ i + 1 - k >= 2 /\ r[i] = q[i + 1 - k] /\ k \in 0..2
             /\ i \in Nat /\ i >= k + 1
  BY <1>1 DEF Replaced, OfTheBoard
<1>2. StatesAreReady(r, t, e)
  <2> SUFFICES ASSUME NEW i \in DOMAIN r, r[i].op = "state"
               PROVE  r[i].to \in Opening \/ (i = 1 /\ Enough(r[i].to, e))
    BY DEF StatesAreReady
  <2> DEFINE j == i + 1 - k
  <2>1. j \in DOMAIN q /\ j >= 2 /\ r[i] = q[j] /\ k \in 0..2 /\ i \in Nat
    BY <1>1
  <2>2. \/ q[j].to \in Opening
        \/ j = 2 /\ q[1].op = "data" /\ Enough(q[j].to, Written(d, q[1]))
    BY <2>1 DEF Careful, StatesAreReady
  <2> QED BY <2>1, <2>2 DEF Moves
<1>3. WritesAreSafe(r, t)
  <2> SUFFICES ASSUME NEW i \in DOMAIN r, r[i].op = "data"
               PROVE  r[i].field \in Fields /\ Harmless(r[i])
    BY DEF WritesAreSafe
  <2> DEFINE j == i + 1 - k
  <2>1. j \in DOMAIN q /\ j >= 2 /\ r[i] = q[j]
    BY <1>1
  <2> QED BY <2>1 DEF Careful, WritesAreSafe
<1>4. WipesAreLate(r, t)
  <2> SUFFICES ASSUME NEW i \in DOMAIN r, r[i].op = "wipe"
               PROVE  IF i = 1 THEN t = NoStep ELSE r[i - 1].op = "state" /\ r[i - 1].to = NoStep
    BY DEF WipesAreLate
  <2> DEFINE j == i + 1 - k
  <2>1. j \in DOMAIN q /\ j >= 2 /\ r[i] = q[j] /\ k \in 0..2 /\ i \in Nat /\ i >= k + 1
    BY <1>1
  <2>2. q[j - 1].op = "state" /\ q[j - 1].to = NoStep
    BY <2>1 DEF Careful, WipesAreLate
  <2>3. CASE j = 2
    BY <2>1, <2>2, <2>3 DEF Moves
  <2>4. CASE j > 2
    <3>1. i - 1 \in k + 1..Len(q) - 1 + k /\ i - 1 # 0
      BY <2>1, <2>4 DEF Replaced
    <3>2. r[i - 1] = q[(i - 1) + 1 - k]
      BY <3>1 DEF Replaced
    <3>3. (i - 1) + 1 - k = j - 1
      BY <2>1
    <3> QED BY <2>2, <3>1, <3>2, <3>3, <2>1
  <2> QED BY <2>1, <2>3, <2>4
<1> QED BY <1>2, <1>3, <1>4 DEF Careful

\* The wipe that is next stays so.
LEMMA WipeStaysNext ==
  ASSUME NEW q, NEW r, NEW k, Replaced(r, q, k), OfTheBoard(r, k),
         q[1].op \notin {"wipe", "commit"}, WipeIsNext(q)
  PROVE  WipeIsNext(r)
<1>1. PICK i \in DOMAIN q : q[i].op = "wipe" /\ \A j \in 1..i - 1 : q[j].op # "commit"
  BY DEF WipeIsNext
<1> DEFINE n == i - 1 + k
<1>2. i # 1 /\ i \in Nat /\ k \in 0..2
  BY <1>1 DEF Replaced
<1>3. n \in DOMAIN r /\ r[n] = q[i]
  BY <1>2, Places
<1>4. ASSUME NEW j \in 1..n - 1
      PROVE  r[j].op # "commit"
  <2>1. CASE j <= k
    BY <2>1, <1>2 DEF OfTheBoard
  <2>2. CASE j > k
    <3>1. j \in DOMAIN r
      BY <1>2, <1>3, Places
    <3>2. r[j] = q[j + 1 - k]
      BY <2>2, <3>1, Places
    <3>3. j + 1 - k \in 1..i - 1
      BY <1>2, <2>2
    <3> QED BY <1>1, <3>2, <3>3
  <2> QED BY <1>2, <2>1, <2>2
<1> QED BY <1>1, <1>3, <1>4 DEF WipeIsNext

\* The new calls fit the step.
Fitting(r, k, s) ==
  /\ OfTheBoard(r, k)
  /\ k = 1 => \/ r[1].op = "board" /\ r[1].step = s /\ IsBoard(r[1])
              \/ r[1].op = "shown" /\ r[1].text[1] = s
  /\ k = 2 => r[1].op = "delete" /\ r[2].op = "shown" /\ r[2].text[1] = s

\* What is done of a timely handler leaves a timely one.
LEMMA TimelyAfter ==
  ASSUME NEW q, NEW r, NEW k, Replaced(r, q, k), NEW s, NEW d, NEW t, NEW e,
         Timely(q, s), Moves(q, k, s, d, t, e), Fitting(r, k, s)
  PROVE  Timely(r, t)
<1>1. ASSUME NEW i \in DOMAIN r, i > k
      PROVE  /\ i + 1 - k \in DOMAIN q /\ i + 1 - k >= 2 /\ r[i] = q[i + 1 - k] /\ k \in 0..2
             /\ i \in Nat
  BY <1>1 DEF Replaced
<1>2. ASSUME NEW j \in DOMAIN q, j >= 2
      PROVE  j - 1 + k \in DOMAIN r /\ r[j - 1 + k] = q[j] /\ j \in Nat /\ k \in 0..2
  BY <1>2 DEF Replaced
<1>3. \A i \in DOMAIN r : i \in Nat \ {0} /\ (i <= k => i \in 1..k)
  BY DEF Replaced
<1>a. k # 0 => t = s
  BY DEF Moves
<1>4. BoardsAreTimely(r, t)
  <2> DEFINE Shows(i) ==
               \/ t = r[i].step /\ \A m \in 1..i - 1 : r[m].op # "state"
               \/ \E j \in 1..i - 1 : /\ r[j].op = "state" /\ r[j].to = r[i].step
                                      /\ \A m \in j + 1..i - 1 : r[m].op # "state"
  <2> SUFFICES ASSUME NEW i \in DOMAIN r, r[i].op = "board"
               PROVE  IsBoard(r[i]) /\ Shows(i)
    BY DEF BoardsAreTimely
  <2>1. CASE i <= k
    <3>1. i \in 1..k /\ k \in 1..2
      BY <2>1, <1>3 DEF Replaced
    <3>2. k = 1 /\ i = 1
      BY <3>1 DEF Fitting
    <3>3. t = s /\ r[1].step = s /\ IsBoard(r[1])
      BY <3>2, <1>a DEF Fitting
    <3>4. \A m \in 1..i - 1 : r[m].op # "state"
      BY <3>2
    <3>5. IsBoard(r[i]) /\ t = r[i].step
      <4> USE <3>2
      <4> QED BY <3>3
    <3>6. Shows(i)
      BY <3>4, <3>5
    <3> HIDE DEF Shows
    <3> QED BY <3>5, <3>6
  <2>2. CASE i > k
    <3> DEFINE j == i + 1 - k
    <3>1. j \in DOMAIN q /\ j >= 2 /\ r[i] = q[j] /\ k \in 0..2 /\ i \in Nat
      BY <2>2, <1>1
    <3>2. ASSUME s = q[j].step, \A m \in 1..j - 1 : q[m].op # "state"
          PROVE  Shows(i)
      <4>1. t = s
        BY <3>1, <3>2 DEF Moves
      <4>2. ASSUME NEW m \in 1..i - 1 PROVE r[m].op # "state"
        <5>1. CASE m <= k
          BY <5>1, <3>1 DEF Fitting, OfTheBoard
        <5>2. CASE m > k
          <6>1. m \in DOMAIN r /\ m \in Nat
            BY <3>1, Places
          <6>2. m + 1 - k \in 1..j - 1 /\ r[m] = q[m + 1 - k]
            BY <5>2, <6>1, <3>1, <1>1
          <6> QED BY <3>2, <6>2
        <5> QED BY <3>1, <5>1, <5>2
      <4> QED BY <3>1, <3>2, <4>1, <4>2
    <3>3. ASSUME NEW p \in 1..j - 1, q[p].op = "state", q[p].to = q[j].step,
                 \A m \in p + 1..j - 1 : q[m].op # "state"
          PROVE  \/ t = r[i].step /\ \A m \in 1..i - 1 : r[m].op # "state"
                 \/ \E h \in 1..i - 1 : /\ r[h].op = "state" /\ r[h].to = r[i].step
                                        /\ \A m \in h + 1..i - 1 : r[m].op # "state"
      <4>1. CASE p = 1
        <5>1. k = 0 /\ t = r[i].step
          BY <4>1, <3>3, <3>1 DEF Moves
        <5>2. ASSUME NEW m \in 1..i - 1 PROVE r[m].op # "state"
          BY <4>1, <3>1, <3>3, <5>1 DEF Replaced
        <5> QED BY <5>1, <5>2
      <4>2. CASE p > 1
        <5> DEFINE h == p - 1 + k
        <5>1. h \in 1..i - 1 /\ r[h] = q[p]
          <6>1. p \in DOMAIN q /\ p >= 2 /\ p \in Nat
            BY <4>2, <3>1, Places
          <6> QED BY <6>1, <3>1, Places
        <5>2. ASSUME NEW m \in h + 1..i - 1 PROVE r[m].op # "state"
          <6>1. m \in k + 1..Len(q) - 1 + k /\ Len(q) \in Nat
            BY <4>2, <3>1 DEF Replaced
          <6>a. k \in 0..2 /\ i \in Nat
            BY <3>1
          <6>2. r[m] = q[m + 1 - k]
            BY <6>1 DEF Replaced
          <6>3. m + 1 - k \in p + 1..j - 1
            BY <6>a
          <6> QED BY <6>2, <6>3, <3>3
        <5> QED BY <3>1, <3>3, <5>1, <5>2
      <4> QED BY <3>1, <4>1, <4>2
    <3>4. /\ IsBoard(q[j])
          /\ \/ s = q[j].step /\ \A m \in 1..j - 1 : q[m].op # "state"
             \/ \E p \in 1..j - 1 : /\ q[p].op = "state" /\ q[p].to = q[j].step
                                    /\ \A m \in p + 1..j - 1 : q[m].op # "state"
      BY <3>1 DEF Timely, BoardsAreTimely
    <3>5. Shows(i)
      BY <3>2, <3>3, <3>4
    <3> QED BY <3>1, <3>4, <3>5
  <2>3. i <= k \/ i > k
    BY <1>3 DEF Replaced
  <2> HIDE DEF Shows
  <2> QED BY <2>1, <2>2, <2>3
<1>5. StatesAreShown(r)
  <2> SUFFICES ASSUME NEW i \in DOMAIN r, r[i].op = "state", r[i].to # NoStep
               PROVE  \E m \in DOMAIN r : /\ m > i /\ r[m].op = "board"
                        /\ \A j \in i + 1..m - 1 : r[j].op \notin {"state", "wipe"}
    BY DEF StatesAreShown
  <2> DEFINE j == i + 1 - k
  <2>1. i > k
    BY <1>3 DEF Fitting, OfTheBoard, Replaced
  <2>2. j \in DOMAIN q /\ j >= 2 /\ r[i] = q[j] /\ k \in 0..2 /\ i \in Nat
    BY <2>1, <1>1
  <2>3. PICK h \in DOMAIN q : /\ h > j /\ q[h].op = "board"
                              /\ \A g \in j + 1..h - 1 : q[g].op \notin {"state", "wipe"}
    BY <2>2 DEF Timely, StatesAreShown
  <2> DEFINE m == h - 1 + k
  <2>4. m \in DOMAIN r /\ r[m] = q[h] /\ m > i /\ h \in Nat
    <3>1. h \in Nat /\ j \in Nat /\ h >= 2
      BY <2>2, <2>3, Places
    <3> QED BY <3>1, <2>2, <2>3, <1>2
  <2>5. ASSUME NEW g \in i + 1..m - 1 PROVE r[g].op \notin {"state", "wipe"}
    <3>1. g \in DOMAIN r /\ g > k
      BY <2>2, <2>4, <2>1, Places
    <3>2. r[g] = q[g + 1 - k]
      BY <3>1, <1>1
    <3>3. g + 1 - k \in j + 1..h - 1
      BY <2>2, <2>4
    <3> QED BY <2>3, <3>2, <3>3
  <2> QED BY <2>3, <2>4, <2>5
<1>6. NotesComeFirst(r, t)
  <2> SUFFICES ASSUME NEW i \in DOMAIN r
               PROVE  /\ r[i].op = "shown" =>
                           r[i].text[1] = t /\ (i = 1 \/ (i = 2 /\ r[1].op = "delete"))
                      /\ r[i].op = "delete" => i = 1 /\ 2 \in DOMAIN r /\ r[2].op = "shown"
    BY DEF NotesComeFirst
  <2>1. CASE i <= k
    <3>1. k \in 1..2 /\ i \in 1..k /\ t = s
      BY <2>1, <1>3, <1>a DEF Replaced
    <3>2. k = 2 => 2 \in DOMAIN r
      BY DEF Replaced
    <3> QED BY <3>1, <3>2 DEF Fitting
  <2>2. CASE i > k
    <3> DEFINE j == i + 1 - k
    <3>1. j \in DOMAIN q /\ j >= 2 /\ r[i] = q[j] /\ k \in 0..2 /\ i \in Nat
      BY <2>2, <1>1
    <3>2. q[j].op # "delete"
      BY <3>1 DEF Timely, NotesComeFirst
    <3>3. q[j].op = "shown" => q[j].text[1] = s /\ j = 2 /\ q[1].op = "delete"
      BY <3>1 DEF Timely, NotesComeFirst
    <3> QED BY <3>1, <3>2, <3>3 DEF Moves
  <2> QED BY <2>1, <2>2, <1>3 DEF Replaced
<1>7. CommitsComeLast(r, t)
  <2> SUFFICES ASSUME NEW i \in DOMAIN r, r[i].op = "commit", NEW m \in DOMAIN r
               PROVE  t = "anti_sniper" /\ m <= i /\ r[m].op \notin {"state", "wipe"}
    BY DEF CommitsComeLast
  <2> DEFINE j == i + 1 - k
  <2>1. i > k
    BY <1>3 DEF Fitting, OfTheBoard, Replaced
  <2>2. j \in DOMAIN q /\ j >= 2 /\ r[i] = q[j] /\ k \in 0..2 /\ i \in Nat
    BY <2>1, <1>1
  <2>3. s = "anti_sniper" /\ \A h \in DOMAIN q : h <= j /\ q[h].op \notin {"state", "wipe"}
    BY <2>2 DEF Timely, CommitsComeLast
  <2>4. 1 \in DOMAIN q
    BY DEF Replaced
  <2>5. t = s
    BY <2>3, <2>4 DEF Moves
  <2>6. CASE m <= k
    BY <2>1, <2>3, <2>5, <2>6, <1>3 DEF Fitting, OfTheBoard, Replaced
  <2>7. CASE m > k
    <3>1. m + 1 - k \in DOMAIN q /\ r[m] = q[m + 1 - k] /\ m \in Nat
      BY <2>7, <1>1
    <3>2. m + 1 - k <= j
      BY <3>1, <2>3
    <3> QED BY <2>2, <2>3, <2>5, <3>1, <3>2
  <2> QED BY <2>6, <2>7, <1>3 DEF Replaced
<1> QED BY <1>4, <1>5, <1>6, <1>7 DEF Timely

(***************************************************************************)
(* Calls and data.                                                         *)
(***************************************************************************)
\* A call for a board, written out.
LEMMA BoardIs ==
  ASSUME NEW s, NEW n, NEW r, NEW b, b = Board(s, n, r)
  PROVE  b.op = "board" /\ b.step = s /\ IsBoard(b)
BY DEF Board, IsBoard

\* What the calls are made of.
LEMMA CallsAre ==
  /\ \A s : SetState(s).op = "state" /\ SetState(s).to = s
  /\ \A f, v : Update(f, v).op = "data" /\ Update(f, v).field = f /\ Update(f, v).to = v
  /\ \A s, n, r : Board(s, n, r).op = "board" /\ Board(s, n, r).step = s
  /\ Wipe.op = "wipe" /\ Commit.op = "commit"
  /\ \A t, i : remember(t, i).op = "shown" /\ remember(t, i).text = t /\ remember(t, i).id = i
  /\ \A i : Delete(i).op = "delete" /\ Delete(i).id = i
BY DEF SetState, Update, Board, Wipe, Commit, remember, Delete

\* Which steps come before which.
LEMMA BeforeIs ==
  ASSUME NEW s
  PROVE  /\ "photo" \in Before(s) <=>
              s \in {"description", "start_price", "buyout_price", "min_step", "duration",
                     "anti_sniper"}
         /\ "description" \in Before(s) <=>
              s \in {"start_price", "buyout_price", "min_step", "duration", "anti_sniper"}
         /\ "start_price" \in Before(s) <=>
              s \in {"buyout_price", "min_step", "duration", "anti_sniper"}
         /\ "buyout_price" \in Before(s) <=> s \in {"min_step", "duration", "anti_sniper"}
         /\ "min_step" \in Before(s) <=> s \in {"duration", "anti_sniper"}
         /\ "duration" \in Before(s) <=> s = "anti_sniper"
<1>1. /\ DOMAIN Steps = 1..7
      /\ Steps[1] = "photo" /\ Steps[2] = "description" /\ Steps[3] = "start_price"
      /\ Steps[4] = "buyout_price" /\ Steps[5] = "min_step" /\ Steps[6] = "duration"
      /\ Steps[7] = "anti_sniper"
  BY DEF Steps
<1>2. \A i \in 1..7 : Steps[i] \in Before(s) <=> \E k \in 1..7 : k > i /\ Steps[k] = s
  <2>1. \A i, j \in 1..7 : Steps[i] = Steps[j] => i = j
    BY <1>1
  <2> QED BY <1>1, <2>1 DEF Before
<1> QED BY <1>1, <1>2

\* Nothing is asked for before the first step.
LEMMA OpeningAsksNothing ==
  ASSUME NEW s \in Opening, NEW d
  PROVE  Enough(s, d)
BY BeforeIs DEF Opening, Enough, NoStep

\* Only the fields entered by the user count.
LEMMA EnoughReads ==
  ASSUME NEW s, NEW d, NEW e, Enough(s, d),
         \A f \in Fields \ {"board", "shown", "topic", "anti_sniper"} : d[f] = e[f]
  PROVE  Enough(s, e)
<1>1. {"photos", "description", "start_price", "buyout_price", "min_step", "duration"}
        \subseteq Fields \ {"board", "shown", "topic", "anti_sniper"}
  BY DEF Fields, Empty
<1> QED BY <1>1 DEF Enough

\* A write puts one field into the data.
LEMMA WriteIsData ==
  ASSUME NEW d, IsData(d), NEW c, c.field \in Fields, c.field = "photos" => c.to \in Nat
  PROVE  /\ IsData(Written(d, c)) /\ Written(d, c)[c.field] = c.to
         /\ \A f \in Fields : f # c.field => Written(d, c)[f] = d[f]
BY DEF IsData, Written, Fields, Empty

\* A write that was called safe takes nothing from the step.
LEMMA WriteLeavesEnough ==
  ASSUME NEW d, IsData(d), NEW s, Enough(s, d), NEW c, c.field \in Fields,
         Harmless(c) \/ AskedFor(c, s)
  PROVE  Enough(s, Written(d, c)) /\ IsData(Written(d, c))
<1>1. c.field = "photos" => c.to \in Nat \ {0}
  BY DEF Harmless, AskedFor
<1> DEFINE w == Written(d, c)
<1>2. IsData(w) /\ w[c.field] = c.to /\ \A f \in Fields : f # c.field => w[f] = d[f]
  BY <1>1, WriteIsData
<1>3. {"photos", "description", "start_price", "buyout_price", "min_step", "duration"}
        \subseteq Fields
  BY DEF Fields, Empty
<1> HIDE DEF w
<1>4. c.field \in {"topic", "anti_sniper"} => Enough(s, w)
  BY <1>2, EnoughReads
<1>5. c.field = "photos" => Enough(s, w)
  BY <1>1, <1>2, <1>3 DEF Enough
<1>6. c.field \in {"description", "min_step", "duration"} /\ c.to = TRUE => Enough(s, w)
  BY <1>2, <1>3 DEF Enough
<1>7. AskedFor(c, s) => Enough(s, w)
  BY <1>2, <1>3, BeforeIs DEF AskedFor, Enough
<1> QED BY <1>2, <1>4, <1>5, <1>6, <1>7 DEF Harmless, w

(***************************************************************************)
(* Messages and presses: what a handler is called for.                     *)
(***************************************************************************)
\* Nothing in q notes or deletes a board.
Plain(q) == \A i \in DOMAIN q : q[i].op \notin {"shown", "delete"}

\* Sequences written out.
LEMMA OneCall ==
  ASSUME NEW a PROVE IsSeq(<<a>>) /\ Len(<<a>>) = 1 /\ DOMAIN <<a>> = 1..1 /\ <<a>>[1] = a
<1>1. <<a>> \in Seq({a}) /\ Len(<<a>>) = 1 /\ DOMAIN <<a>> = 1..1 /\ <<a>>[1] = a
  OBVIOUS
<1>2. IsSeq(<<a>>)
  BY <1>1, FunIsSeq, Zenon
<1> QED BY <1>1, <1>2

\* The same for two calls.
LEMMA TwoCalls ==
  ASSUME NEW a, NEW b
  PROVE  LET q == <<a, b>> IN IsSeq(q) /\ Len(q) = 2 /\ DOMAIN q = 1..2 /\ q[1] = a /\ q[2] = b
<1> DEFINE q == <<a, b>>
<1>1. q \in Seq({a, b}) /\ Len(q) = 2 /\ DOMAIN q = 1..2 /\ q[1] = a /\ q[2] = b
  OBVIOUS
<1>2. IsSeq(q)
  BY <1>1, FunIsSeq, Zenon
<1> QED BY <1>1, <1>2

\* The same for three calls.
LEMMA ThreeCalls ==
  ASSUME NEW a, NEW b, NEW c
  PROVE  LET q == <<a, b, c>>
         IN  IsSeq(q) /\ DOMAIN q = 1..3 /\ q[1] = a /\ q[2] = b /\ q[3] = c
<1> DEFINE q == <<a, b, c>>
<1>1. q \in Seq({a, b, c}) /\ DOMAIN q = 1..3 /\ q[1] = a /\ q[2] = b /\ q[3] = c
  OBVIOUS
<1>2. IsSeq(q)
  BY <1>1, FunIsSeq, Zenon
<1> QED BY <1>1, <1>2

\* The same for clearing and three calls more.
LEMMA FiveCalls ==
  ASSUME NEW a, NEW b, NEW c, NEW d, NEW e
  PROVE  LET q == <<a, b>> \o <<c, d, e>>
         IN  /\ IsSeq(q) /\ DOMAIN q = 1..5
             /\ q[1] = a /\ q[2] = b /\ q[3] = c /\ q[4] = d /\ q[5] = e
<1> DEFINE S == {a, b, c, d, e}
           q == <<a, b>> \o <<c, d, e>>
<1>1. /\ <<a, b>> \in Seq(S) /\ Len(<<a, b>>) = 2 /\ <<a, b>>[1] = a /\ <<a, b>>[2] = b
      /\ <<c, d, e>> \in Seq(S) /\ Len(<<c, d, e>>) = 3
      /\ <<c, d, e>>[1] = c /\ <<c, d, e>>[2] = d /\ <<c, d, e>>[3] = e
  OBVIOUS
<1> HIDE DEF S
<1>2. /\ q \in Seq(S) /\ Len(q) = 5
      /\ \A i \in 1..5 : q[i] = IF i <= 2 THEN <<a, b>>[i] ELSE <<c, d, e>>[i - 2]
  BY <1>1, ConcatProperties
<1> HIDE DEF q
<1>3. IsSeq(q) /\ DOMAIN q = 1..5
  BY <1>2, FunIsSeq, LenProperties
<1>4. q[1] = a /\ q[2] = b /\ q[3] = c /\ q[4] = d /\ q[5] = e
  BY <1>1, <1>2
<1> QED BY <1>3, <1>4 DEF q

\* A handler that is careful, and shows the steps it goes to, keeps the
\* invariant: nothing is done but what it has to do.
LEMMA DispatchKeeps ==
  ASSUME WizardInv, NEW q, dispatch(q), IsSeq(q), Careful(q, state, data), Timely(q, state),
         Plain(q), state # NoStep \/ WipeIsNext(q)
  PROVE  WizardInv'
<1>1. /\ todo = <<>> /\ todo' = q /\ UNCHANGED <<chat, state, data, screen, drafts, spoilt>>
  BY DEF dispatch
<1>2. DOMAIN todo = {}
  BY <1>1
<1>3. DraftsAreCounted'
  BY <1>1, <1>2 DEF WizardInv, DraftsAreCounted, WipeIsNext
<1>4. \A op \in {"shown", "delete"} : ~Starts(<<>>, op) /\ ~Starts(q, op)
  <2>1. q # <<>> => 1 \in DOMAIN q
    BY SeqParts
  <2> QED BY <2>1 DEF Starts, Plain
<1>5. spoilt = Fresh => Tidy(q, screen, data) /\ StepIsShown(q, state, screen, data)
  <2>1. ~BoardComes(<<>>)
    BY <1>1, <1>2 DEF BoardComes
  <2> QED BY <1>1, <1>4, <2>1 DEF WizardInv, Tidy, StepIsShown
<1>6. IsData(data)' /\ IsSeq(todo)' /\ (spoilt \in [crash : BOOLEAN, call : BOOLEAN, reopened : Nat])'
  BY <1>1 DEF WizardInv
<1>7. Enough(state, data)' /\ Careful(todo, state, data)' /\ Timely(todo, state)'
  BY <1>1 DEF WizardInv
<1> QED BY <1>1, <1>3, <1>5, <1>6, <1>7 DEF WizardInv

\* From one step to the next: the entry, the step, the board.
LEMMA MoveIsCareful ==
  ASSUME NEW s, NEW d, NEW f \in Fields, NEW v, NEW n,
         Harmless(Update(f, v)) \/ AskedFor(Update(f, v), s), Enough(n, Written(d, Update(f, v)))
  PROVE  LET q == moves_on(f, v, n) IN IsSeq(q) /\ Careful(q, s, d) /\ Timely(q, s) /\ Plain(q)
<1> DEFINE q == moves_on(f, v, n)
           b == Board(n, "saved", FALSE)
<1>1. IsSeq(q) /\ DOMAIN q = 1..3 /\ q[1] = Update(f, v) /\ q[2] = SetState(n) /\ q[3] = b
  BY ThreeCalls DEF moves_on
<1>b. b.op = "board" /\ b.step = n /\ IsBoard(b)
  BY BoardIs
<1> HIDE DEF q, b
<1>2. /\ q[1].op = "data" /\ q[1].field = f
      /\ q[2].op = "state" /\ q[2].to = n /\ q[3].op = "board" /\ q[3].step = n /\ IsBoard(q[3])
  BY <1>1, <1>b, CallsAre
<1>3. Careful(q, s, d)
  BY <1>1, <1>2 DEF Careful, StatesAreReady, WritesAreSafe, WipesAreLate
<1>4. BoardsAreTimely(q, s)
  BY <1>1, <1>2 DEF BoardsAreTimely
<1>5. StatesAreShown(q)
  BY <1>1, <1>2 DEF StatesAreShown
<1>6. NotesComeFirst(q, s) /\ CommitsComeLast(q, s) /\ Plain(q)
  BY <1>1, <1>2 DEF NotesComeFirst, CommitsComeLast, Plain
<1> QED BY <1>1, <1>3, <1>4, <1>5, <1>6 DEF Timely, q

\* Nothing at all, one board of the step, or an entry that harms nothing.
LEMMA LittleIsCareful ==
  ASSUME NEW s, NEW d
  PROVE  /\ IsSeq(<<>>) /\ Careful(<<>>, s, d) /\ Timely(<<>>, s) /\ Plain(<<>>)
         /\ \A note, repost :
              LET q == <<Board(s, note, repost)>>
              IN  IsSeq(q) /\ Careful(q, s, d) /\ Timely(q, s) /\ Plain(q)
         /\ \A f, v : f \in Fields /\ Harmless(Update(f, v)) =>
              /\ LET q == <<Update(f, v)>>
                 IN  IsSeq(q) /\ Careful(q, s, d) /\ Timely(q, s) /\ Plain(q)
              /\ \A note, repost :
                   LET q == <<Update(f, v), Board(s, note, repost)>>
                   IN  IsSeq(q) /\ Careful(q, s, d) /\ Timely(q, s) /\ Plain(q)
<1> USE DEF Careful, StatesAreReady, WritesAreSafe, WipesAreLate, Timely, BoardsAreTimely,
            StatesAreShown, NotesComeFirst, CommitsComeLast, Plain
<1>1. IsSeq(<<>>) /\ Careful(<<>>, s, d) /\ Timely(<<>>, s) /\ Plain(<<>>)
  <2>1. <<>> \in Seq({}) /\ DOMAIN <<>> = {}
    OBVIOUS
  <2>2. IsSeq(<<>>)
    BY <2>1, FunIsSeq, Zenon
  <2> QED BY <2>1, <2>2
<1>2. ASSUME NEW note, NEW repost
      PROVE  LET q == <<Board(s, note, repost)>>
             IN  IsSeq(q) /\ Careful(q, s, d) /\ Timely(q, s) /\ Plain(q)
  <2> DEFINE q == <<Board(s, note, repost)>>
  <2>1. IsSeq(q) /\ DOMAIN q = 1..1 /\ q[1].op = "board" /\ q[1].step = s /\ IsBoard(q[1])
    BY OneCall, BoardIs
  <2> HIDE DEF q
  <2>2. Careful(q, s, d) /\ Timely(q, s) /\ Plain(q)
    BY <2>1
  <2> QED BY <2>1, <2>2 DEF q
<1>3. ASSUME NEW f, NEW v, f \in Fields, Harmless(Update(f, v))
      PROVE  LET q == <<Update(f, v)>>
             IN  IsSeq(q) /\ Careful(q, s, d) /\ Timely(q, s) /\ Plain(q)
  <2> DEFINE q == <<Update(f, v)>>
  <2>1. IsSeq(q) /\ DOMAIN q = 1..1 /\ q[1].op = "data" /\ q[1].field = f /\ Harmless(q[1])
    BY <1>3, OneCall, CallsAre
  <2> HIDE DEF q
  <2>2. Careful(q, s, d) /\ Timely(q, s) /\ Plain(q)
    BY <1>3, <2>1
  <2> QED BY <2>1, <2>2 DEF q
<1>4. ASSUME NEW f, NEW v, f \in Fields, Harmless(Update(f, v)), NEW note, NEW repost
      PROVE  LET q == <<Update(f, v), Board(s, note, repost)>>
             IN  IsSeq(q) /\ Careful(q, s, d) /\ Timely(q, s) /\ Plain(q)
  <2> DEFINE q == <<Update(f, v), Board(s, note, repost)>>
  <2>1. /\ IsSeq(q) /\ DOMAIN q = 1..2 /\ q[1].op = "data" /\ q[1].field = f /\ Harmless(q[1])
        /\ q[2].op = "board" /\ q[2].step = s /\ IsBoard(q[2])
    BY <1>4, TwoCalls, CallsAre, BoardIs
  <2> HIDE DEF q
  <2>2. Careful(q, s, d) /\ Plain(q)
    BY <1>4, <2>1
  <2>3. Timely(q, s)
    BY <2>1
  <2> QED BY <2>1, <2>2, <2>3 DEF q
<1> HIDE DEF Careful, StatesAreReady, WritesAreSafe, WipesAreLate, Timely, BoardsAreTimely,
            StatesAreShown, NotesComeFirst, CommitsComeLast, Plain
<1> QED BY <1>1, <1>2, <1>3, <1>4

\* f is what step s asks for, v an answer that is taken, and n the next step.
Answers(s, f, v, n, d) ==
  \/ s = "description" /\ f = s /\ v = TRUE /\ n = "start_price"
  \/ s = "start_price" /\ f = s /\ v \in Prices /\ n = "buyout_price"
  \/ s = "buyout_price" /\ f = s /\ (v = Skipped \/ v >= d.start_price) /\ n = "min_step"
  \/ s = "min_step" /\ f = s /\ v = TRUE /\ n = "duration"
  \/ s = "duration" /\ f = s /\ v = TRUE /\ n = "anti_sniper"

\* An answer is enough for the next step.
LEMMA NextStepIsReady ==
  ASSUME NEW d, IsData(d), NEW s, Enough(s, d), NEW f, NEW v, NEW n, Answers(s, f, v, n, d)
  PROVE  /\ f \in Fields /\ Enough(n, Written(d, Update(f, v)))
         /\ Harmless(Update(f, v)) \/ AskedFor(Update(f, v), s)
<1> DEFINE c == Update(f, v)
           w == Written(d, c)
<1>1. c.op = "data" /\ c.field = f /\ c.to = v
  BY CallsAre
<1>2. f \in Fields /\ f # "photos"
  BY DEF Answers, Fields, Empty
<1> HIDE DEF c
<1>3. IsData(w) /\ w[f] = v /\ \A g \in Fields : g # f => w[g] = d[g]
  BY <1>1, <1>2, WriteIsData
<1>4. {"photos", "description", "start_price", "buyout_price", "min_step", "duration"}
        \subseteq Fields
  BY DEF Fields, Empty
<1>5. Harmless(c) \/ AskedFor(c, s)
  BY <1>1 DEF Harmless, AskedFor, Answers
<1> HIDE DEF w
<1>6. s = "description" /\ f = s /\ v = TRUE /\ n = "start_price" => Enough(n, w)
  <2> SUFFICES ASSUME s = "description", f = "description", v = TRUE, n = "start_price"
               PROVE  Enough(n, w)
    OBVIOUS
  <2>1. d.photos > 0 /\ w.photos = d.photos /\ w.description = TRUE
    BY <1>3, <1>4, BeforeIs DEF Enough
  <2> QED BY <2>1, BeforeIs DEF Enough
<1>7. s = "start_price" /\ f = s /\ v \in Prices /\ n = "buyout_price" => Enough(n, w)
  BY <1>3, <1>4, BeforeIs DEF Enough
<1>8. s = "buyout_price" /\ f = s /\ (v = Skipped \/ v >= d.start_price) /\ n = "min_step"
        => Enough(n, w)
  BY <1>3, <1>4, BeforeIs DEF Enough
<1>9. s = "min_step" /\ f = s /\ v = TRUE /\ n = "duration" => Enough(n, w)
  <2> SUFFICES ASSUME s = "min_step", f = "min_step", v = TRUE, n = "duration"
               PROVE  Enough(n, w)
    OBVIOUS
  <2>1. /\ w.photos = d.photos /\ w.description = d.description /\ w.start_price = d.start_price
        /\ w.buyout_price = d.buyout_price /\ w.min_step = TRUE
    BY <1>3, <1>4
  <2>2. /\ d.photos > 0 /\ d.description /\ d.start_price \in Prices
        /\ d.buyout_price = Skipped \/ d.buyout_price >= d.start_price
    BY BeforeIs DEF Enough
  <2> QED BY <2>1, <2>2, BeforeIs DEF Enough
<1>10. s = "duration" /\ f = s /\ v = TRUE /\ n = "anti_sniper" => Enough(n, w)
  BY <1>3, <1>4, BeforeIs DEF Enough
<1> QED BY <1>2, <1>5, <1>6, <1>7, <1>8, <1>9, <1>10 DEF Answers, w, c

\* An entry that is taken leads to the next step.
LEMMA AnswerKeeps ==
  ASSUME WizardInv, NEW f, NEW v, NEW n, Answers(state, f, v, n, data),
         dispatch(moves_on(f, v, n))
  PROVE  WizardInv'
<1>1. IsData(data) /\ Enough(state, data)
  BY DEF WizardInv
<1>2. /\ f \in Fields /\ Enough(n, Written(data, Update(f, v)))
      /\ Harmless(Update(f, v)) \/ AskedFor(Update(f, v), state)
  BY <1>1, NextStepIsReady
<1> DEFINE q == moves_on(f, v, n)
<1>3. IsSeq(q) /\ Careful(q, state, data) /\ Timely(q, state) /\ Plain(q)
  BY <1>2, MoveIsCareful
<1> HIDE DEF q
<1>4. dispatch(q)
  BY DEF q
<1>5. state # NoStep
  BY DEF Answers, NoStep
<1> QED BY <1>3, <1>4, <1>5, DispatchKeeps

\* /newauction clears what was there and starts anew.
LEMMA StartKeeps ==
  ASSUME WizardInv, NEW t, command_new_auction(t)
  PROVE  WizardInv'
<1> DEFINE b == Board("photo", "start", FALSE)
           q == <<SetState(NoStep), Wipe>> \o <<SetState("photo"), Update("topic", t), b>>
<1>1. b.op = "board" /\ b.step = "photo" /\ IsBoard(b)
  BY BoardIs
<1>2. dispatch(q)
  BY DEF command_new_auction, clear
<1> HIDE DEF b
<1>3. /\ IsSeq(q) /\ DOMAIN q = 1..5 /\ q[1] = SetState(NoStep) /\ q[2] = Wipe
      /\ q[3] = SetState("photo") /\ q[4] = Update("topic", t) /\ q[5] = b
  BY FiveCalls
<1> HIDE DEF q
<1>4. /\ q[1].op = "state" /\ q[1].to = NoStep /\ q[2].op = "wipe"
      /\ q[3].op = "state" /\ q[3].to = "photo"
      /\ q[4].op = "data" /\ q[4].field = "topic"
      /\ q[5].op = "board" /\ q[5].step = "photo" /\ IsBoard(q[5])
  BY <1>1, <1>3, CallsAre
<1>5. "topic" \in Fields
  BY DEF Fields, Empty
<1>6. Careful(q, state, data)
  <2>1. StatesAreReady(q, state, data)
    BY <1>3, <1>4 DEF StatesAreReady, Opening
  <2>2. WritesAreSafe(q, state)
    BY <1>3, <1>4, <1>5 DEF WritesAreSafe, Harmless
  <2>3. WipesAreLate(q, state)
    BY <1>3, <1>4 DEF WipesAreLate
  <2> QED BY <2>1, <2>2, <2>3 DEF Careful
<1>7. Timely(q, state) /\ Plain(q)
  <2>1. BoardsAreTimely(q, state)
    BY <1>3, <1>4 DEF BoardsAreTimely
  <2>2. StatesAreShown(q)
    <3>1. \A j \in 3 + 1..5 - 1 : q[j].op \notin {"state", "wipe"}
      BY <1>4
    <3> QED BY <1>3, <1>4, <3>1 DEF StatesAreShown
  <2>3. NotesComeFirst(q, state) /\ CommitsComeLast(q, state) /\ Plain(q)
    BY <1>3, <1>4 DEF NotesComeFirst, CommitsComeLast, Plain
  <2> QED BY <2>1, <2>2, <2>3 DEF Timely
<1>8. WipeIsNext(q)
  <2>1. \A j \in 1..2 - 1 : q[j].op # "commit"
    BY <1>4
  <2> QED BY <1>3, <1>4, <2>1 DEF WipeIsNext
<1> QED BY <1>2, <1>3, <1>6, <1>7, <1>8, DispatchKeeps

\* Cancelling clears what was there.
LEMMA ClearIsCareful ==
  ASSUME NEW s, NEW d
  PROVE  /\ IsSeq(clear) /\ Careful(clear, s, d) /\ Timely(clear, s) /\ Plain(clear)
         /\ DOMAIN clear = 1..2 /\ Len(clear) = 2 /\ clear[1].op = "state"
         /\ clear[1].to = NoStep /\ clear[2].op = "wipe" /\ WipeIsNext(clear)
<1> DEFINE q == clear
<1>1. IsSeq(q) /\ Len(q) = 2 /\ DOMAIN q = 1..2 /\ q[1] = SetState(NoStep) /\ q[2] = Wipe
  BY TwoCalls DEF clear
<1> HIDE DEF q
<1>2. q[1].op = "state" /\ q[1].to = NoStep /\ q[2].op = "wipe"
  BY <1>1, CallsAre
<1>3. Careful(q, s, d)
  BY <1>1, <1>2 DEF Careful, StatesAreReady, WritesAreSafe, WipesAreLate, Opening
<1>4. Timely(q, s) /\ Plain(q)
  BY <1>1, <1>2 DEF Timely, BoardsAreTimely, StatesAreShown, NotesComeFirst, CommitsComeLast, Plain
<1>5. WipeIsNext(q)
  <2>1. \A j \in 1..2 - 1 : q[j].op # "commit"
    BY <1>2
  <2> QED BY <1>1, <1>2, <2>1 DEF WipeIsNext
<1> QED BY <1>1, <1>2, <1>3, <1>4, <1>5 DEF q

\* The last step: the wait, then the lot.
LEMMA LastStepIsCareful ==
  ASSUME NEW d
  PROVE  LET q == <<Update("anti_sniper", TRUE), Board("anti_sniper", "wait", FALSE), Commit>>
             s == "anti_sniper"
         IN  IsSeq(q) /\ Careful(q, s, d) /\ Timely(q, s) /\ Plain(q)
<1> DEFINE u == Update("anti_sniper", TRUE)
           b == Board("anti_sniper", "wait", FALSE)
           q == <<u, b, Commit>>
<1>1. u.op = "data" /\ u.field = "anti_sniper" /\ u.to = TRUE
  BY DEF Update
<1>2. b.op = "board" /\ b.step = "anti_sniper" /\ IsBoard(b)
  BY BoardIs
<1> HIDE DEF u, b
<1>3. IsSeq(q) /\ DOMAIN q = 1..3 /\ q[1] = u /\ q[2] = b /\ q[3] = Commit
  BY ThreeCalls
<1> HIDE DEF q
<1>4. q[3].op = "commit" /\ Harmless(u) /\ "anti_sniper" \in Fields
  BY <1>1, <1>3, CallsAre DEF Harmless, Fields, Empty
<1>5. Careful(q, "anti_sniper", d)
  BY <1>1, <1>2, <1>3, <1>4 DEF Careful, StatesAreReady, WritesAreSafe, WipesAreLate
<1>6. Timely(q, "anti_sniper") /\ Plain(q)
  BY <1>1, <1>2, <1>3, <1>4
     DEF Timely, BoardsAreTimely, StatesAreShown, NotesComeFirst, CommitsComeLast, Plain
<1> QED BY <1>3, <1>5, <1>6 DEF q, u, b

\* A message in a step that is a photo.
LEMMA PhotoKeeps ==
  ASSUME WizardAssumption, WizardInv, NEW s, NEW kind \in PhotoKinds, create_photo_step(s, kind)
  PROVE  WizardInv'
<1>1. state = s /\ state # NoStep /\ data.photos \in Nat
  BY DEF create_photo_step, in_step, WizardInv, IsData, NoStep
<1>2. Harmless(Update("photos", data.photos + 1)) /\ "photos" \in Fields
  BY <1>1, CallsAre DEF Harmless, Fields, Empty
<1> DEFINE q0 == <<>>
           q1 == <<Board(s, "error", FALSE)>>
           q2 == <<Update("photos", data.photos + 1), Board(s, "added", TRUE)>>
           q3 == <<Update("photos", data.photos + 1)>>
<1>3. dispatch(q0) \/ dispatch(q1) \/ dispatch(q2) \/ dispatch(q3)
  <2>1. CASE kind = "seen"
    BY <2>1 DEF create_photo_step
  <2>2. CASE kind # "seen" /\ data.photos >= MaxPhotos
    BY <2>2 DEF create_photo_step
  <2>3. CASE kind = "single" /\ data.photos < MaxPhotos
    <3>1. ~(data.photos >= MaxPhotos)
      BY <1>1, <2>3 DEF WizardAssumption
    <3> QED BY <2>3, <3>1 DEF create_photo_step
  <2>4. CASE kind = "album" /\ data.photos < MaxPhotos
    <3>1. ~(data.photos >= MaxPhotos)
      BY <1>1, <2>4 DEF WizardAssumption
    <3> QED BY <2>4, <3>1 DEF create_photo_step
  <2>5. data.photos >= MaxPhotos \/ data.photos < MaxPhotos
    BY <1>1 DEF WizardAssumption
  <2> QED BY <2>1, <2>2, <2>3, <2>4, <2>5 DEF PhotoKinds
<1>4. /\ IsSeq(q0) /\ Careful(q0, s, data) /\ Timely(q0, s) /\ Plain(q0)
      /\ IsSeq(q1) /\ Careful(q1, s, data) /\ Timely(q1, s) /\ Plain(q1)
      /\ IsSeq(q2) /\ Careful(q2, s, data) /\ Timely(q2, s) /\ Plain(q2)
      /\ IsSeq(q3) /\ Careful(q3, s, data) /\ Timely(q3, s) /\ Plain(q3)
  BY <1>2, LittleIsCareful
<1> HIDE DEF q0, q1, q2, q3
<1> QED BY <1>1, <1>3, <1>4, DispatchKeeps

\* A message the step cannot use.
LEMMA ErrorKeeps ==
  ASSUME WizardInv, state # NoStep, NEW note, dispatch(<<Board(state, note, FALSE)>>)
  PROVE  WizardInv'
<1> DEFINE q == <<Board(state, note, FALSE)>>
<1>1. IsSeq(q) /\ Careful(q, state, data) /\ Timely(q, state) /\ Plain(q)
  BY LittleIsCareful
<1>2. dispatch(q)
  OBVIOUS
<1> HIDE DEF q
<1> QED BY <1>1, <1>2, DispatchKeeps

\* The photos are all there.
LEMMA DoneKeeps ==
  ASSUME WizardInv, create_photos_done
  PROVE  WizardInv'
<1>1. state = "photo" /\ state # NoStep /\ data.photos \in Nat
  BY DEF create_photos_done, in_step, WizardInv, IsData, NoStep
<1>2. CASE data.photos = 0
  <2>1. dispatch(<<>>)
    BY <1>2 DEF create_photos_done
  <2> QED BY <1>1, <2>1, LittleIsCareful, DispatchKeeps
<1>3. CASE data.photos # 0
  <2> DEFINE b == Board("description", "saved", FALSE)
             q == <<SetState("description"), b>>
  <2>1. dispatch(q)
    BY <1>3 DEF create_photos_done
  <2>2. b.op = "board" /\ b.step = "description" /\ IsBoard(b)
    BY BoardIs
  <2> HIDE DEF b
  <2>3. IsSeq(q) /\ DOMAIN q = 1..2 /\ q[1] = SetState("description") /\ q[2] = b
    BY TwoCalls
  <2> HIDE DEF q
  <2>4. /\ q[1].op = "state" /\ q[1].to = "description"
        /\ q[2].op = "board" /\ q[2].step = "description" /\ IsBoard(q[2])
    BY <2>2, <2>3, CallsAre
  <2>5. Enough("description", data)
    BY <1>1, <1>3, BeforeIs DEF Enough
  <2>6. Careful(q, state, data)
    BY <2>3, <2>4, <2>5 DEF Careful, StatesAreReady, WritesAreSafe, WipesAreLate
  <2>7. Timely(q, state) /\ Plain(q)
    BY <2>3, <2>4
       DEF Timely, BoardsAreTimely, StatesAreShown, NotesComeFirst, CommitsComeLast, Plain
  <2> QED BY <1>1, <2>1, <2>3, <2>6, <2>7, DispatchKeeps
<1> QED BY <1>2, <1>3

\* What the user may do.
Entry ==
  \/ \E t \in Topics \cup {0} : command_new_auction(t)
  \/ cancel_creation
  \/ \E s \in {"photo", "description"}, k \in PhotoKinds : create_photo_step(s, k)
  \/ create_photos_done \/ create_description_step
  \/ \E p \in Prices : create_start_price_step(p)
  \/ create_buyout_skip
  \/ \E p \in Prices : create_buyout_step(p)
  \/ create_min_step_step \/ create_duration_step
  \/ \E b \in BOOLEAN : create_anti_sniper_step(b)
  \/ \E i \in DOMAIN Steps : create_step_invalid(Steps[i])

\* Whatever the user does keeps the invariant.
LEMMA EntryKeeps ==
  ASSUME WizardAssumption, WizardInv, Entry
  PROVE  WizardInv'
<1>1. ASSUME NEW t \in Topics \cup {0}, command_new_auction(t) PROVE WizardInv'
  BY <1>1, StartKeeps
<1>2. ASSUME cancel_creation PROVE WizardInv'
  <2>1. dispatch(clear)
    BY <1>2 DEF cancel_creation
  <2> QED BY <2>1, ClearIsCareful, DispatchKeeps
<1>3. ASSUME NEW s \in {"photo", "description"}, NEW k \in PhotoKinds, create_photo_step(s, k)
      PROVE  WizardInv'
  BY <1>3, PhotoKeeps
<1>4. ASSUME create_photos_done PROVE WizardInv'
  BY <1>4, DoneKeeps
<1>5. ASSUME create_description_step PROVE WizardInv'
  BY <1>5, AnswerKeeps DEF create_description_step, in_step, Answers
<1>6. ASSUME NEW p \in Prices, create_start_price_step(p) PROVE WizardInv'
  BY <1>6, AnswerKeeps DEF create_start_price_step, in_step, Answers
<1>7. ASSUME create_buyout_skip PROVE WizardInv'
  BY <1>7, AnswerKeeps DEF create_buyout_skip, in_step, Answers
<1>8. ASSUME NEW p \in Prices, create_buyout_step(p) PROVE WizardInv'
  <2>1. state = "buyout_price" /\ p \in Nat /\ data.start_price \in Nat
    BY <1>8, BeforeIs DEF create_buyout_step, in_step, WizardInv, Enough, WizardAssumption
  <2>2. CASE p < data.start_price
    BY <1>8, <2>1, <2>2, ErrorKeeps DEF create_buyout_step, NoStep
  <2>3. CASE ~(p < data.start_price)
    <3>1. p >= data.start_price
      BY <2>1, <2>3
    <3>2. dispatch(moves_on("buyout_price", p, "min_step"))
      BY <1>8, <2>3 DEF create_buyout_step
    <3> QED BY <2>1, <3>1, <3>2, AnswerKeeps DEF Answers
  <2> QED BY <2>2, <2>3
<1>9. ASSUME create_min_step_step PROVE WizardInv'
  BY <1>9, AnswerKeeps DEF create_min_step_step, in_step, Answers
<1>10. ASSUME create_duration_step PROVE WizardInv'
  BY <1>10, AnswerKeeps DEF create_duration_step, in_step, Answers
<1>11. ASSUME NEW b \in BOOLEAN, create_anti_sniper_step(b) PROVE WizardInv'
  <2>1. state = "anti_sniper"
    BY <1>11 DEF create_anti_sniper_step, in_step
  <2>2. CASE b
    <3>1. dispatch(clear)
      BY <1>11, <2>2 DEF create_anti_sniper_step
    <3> QED BY <3>1, ClearIsCareful, DispatchKeeps
  <2>3. CASE ~b
    <3> DEFINE q == <<Update("anti_sniper", TRUE), Board("anti_sniper", "wait", FALSE), Commit>>
    <3>1. dispatch(q)
      BY <1>11, <2>3 DEF create_anti_sniper_step
    <3>2. IsSeq(q) /\ Careful(q, state, data) /\ Timely(q, state) /\ Plain(q)
      BY <2>1, LastStepIsCareful
    <3>3. state # NoStep
      BY <2>1 DEF NoStep
    <3> HIDE DEF q
    <3> QED BY <3>1, <3>2, <3>3, DispatchKeeps
  <2> QED BY <2>2, <2>3
<1>12. ASSUME NEW i \in DOMAIN Steps, create_step_invalid(Steps[i]) PROVE WizardInv'
  <2>1. state = Steps[i] /\ dispatch(<<Board(Steps[i], "error", FALSE)>>)
    BY <1>12 DEF create_step_invalid, in_step
  <2>2. state # NoStep
    BY <2>1 DEF Steps, NoStep
  <2> QED BY <2>1, <2>2, ErrorKeeps
<1> QED BY <1>1, <1>2, <1>3, <1>4, <1>5, <1>6, <1>7, <1>8, <1>9, <1>10, <1>11, <1>12 DEF Entry

(***************************************************************************)
(* One call of the handler under way.                                      *)
(***************************************************************************)
\* The call that is made.
LEMMA DoingIs ==
  ASSUME WizardInv, NEW op, Doing(op)
  PROVE  /\ todo # <<>> /\ Head(todo) = todo[1] /\ todo[1].op = op /\ 1 \in DOMAIN todo
         /\ IsSeq(todo) /\ Replaced(Tail(todo), todo, 0)
<1>1. IsSeq(todo) /\ todo # <<>>
  BY DEF WizardInv, Doing
<1>2. Head(todo) = todo[1] /\ 1 \in DOMAIN todo
  BY <1>1, SeqParts
<1> QED BY <1>1, <1>2, TailReplaces DEF Doing

\* What the rest of the handler keeps.
LEMMA RestKeeps ==
  ASSUME WizardInv, NEW k, Replaced(todo', todo, k), Moves(todo, k, state, data, state', data'),
         Fitting(todo', k, state)
  PROVE  IsSeq(todo') /\ Careful(todo', state', data') /\ Timely(todo', state')
<1>1. Careful(todo, state, data) /\ Timely(todo, state)
  BY DEF WizardInv
<1>2. IsSeq(todo')
  BY DEF Replaced
<1> QED BY <1>1, <1>2, CarefulAfter, TimelyAfter DEF Fitting

\* A note comes first, or after a deletion.
LEMMA NoNoteNext ==
  ASSUME WizardInv, Replaced(todo', todo, 0), todo[1].op # "delete"
  PROVE  ~Starts(todo', "shown") /\ ~Starts(todo', "delete")
<1> SUFFICES ASSUME todo' # <<>>, todo'[1].op \in {"shown", "delete"}
             PROVE  FALSE
  BY DEF Starts
<1>1. 1 \in DOMAIN todo' /\ 2 \in DOMAIN todo /\ todo'[1] = todo[2]
  <2>1. 1 \in DOMAIN todo'
    BY SeqParts DEF Replaced
  <2> QED BY <2>1, Places
<1> QED BY <1>1 DEF WizardInv, Timely, NotesComeFirst

\* A board that is to come stays to come, unless it was the call.
LEMMA BoardStaysToCome ==
  ASSUME WizardInv, Replaced(todo', todo, 0), todo[1].op # "board", BoardComes(todo)
  PROVE  BoardComes(todo')
<1>1. PICK i \in DOMAIN todo : todo[i].op = "board" /\ \A k \in 1..i - 1 : todo[k].op # "state"
  BY DEF BoardComes
<1>2. i >= 2 /\ i \in Nat
  BY <1>1, Places
<1>3. i - 1 \in DOMAIN todo' /\ todo'[i - 1] = todo[i]
  BY <1>2, Places
<1>4. ASSUME NEW k \in 1..i - 2 PROVE todo'[k].op # "state"
  <2>1. k + 1 \in DOMAIN todo /\ k + 1 >= 2
    BY <1>2, Places
  <2>2. todo'[(k + 1) - 1 + 0] = todo[k + 1]
    BY <2>1, Places
  <2>3. (k + 1) - 1 + 0 = k
    OBVIOUS
  <2> QED BY <1>1, <1>2, <2>2, <2>3
<1>5. \A k \in 1..(i - 1) - 1 : todo'[k].op # "state"
  BY <1>2, <1>4
<1> QED BY <1>1, <1>3, <1>5 DEF BoardComes

\* The drafts of this wizard, if none is made and nothing is cleared.
LEMMA DraftsStay ==
  ASSUME WizardInv, NEW k, Replaced(todo', todo, k), OfTheBoard(todo', k),
         todo[1].op \notin {"wipe", "commit"}, drafts' = drafts, spoilt'.reopened = spoilt.reopened
  PROVE  DraftsAreCounted'
<1>1. WipeIsNext(todo) => WipeIsNext(todo')
  BY WipeStaysNext
<1>2. DraftsAreCounted /\ todo # <<>>
  BY DEF WizardInv, Replaced
<1> QED BY <1>1, <1>2 DEF DraftsAreCounted

\* The invariant after a step, by its parts.
LEMMA WizardInvAfter ==
  ASSUME IsData(data'), IsSeq(todo'), spoilt' \in [crash : BOOLEAN, call : BOOLEAN, reopened : Nat],
         Enough(state', data'), Careful(todo', state', data'), DraftsAreCounted',
         Timely(todo', state'),
         spoilt' = Fresh =>
           Tidy(todo', screen', data') /\ StepIsShown(todo', state', screen', data')
  PROVE  WizardInv'
BY DEF WizardInv

\* The step is written.
LEMMA StateKeeps ==
  ASSUME WizardInv, write_state
  PROVE  WizardInv'
<1>1. /\ todo # <<>> /\ todo[1].op = "state" /\ 1 \in DOMAIN todo /\ IsSeq(todo)
      /\ Replaced(todo', todo, 0) /\ state' = todo[1].to
      /\ UNCHANGED <<data, screen, drafts, spoilt>>
  BY DoingIs DEF write_state
<1>2. Moves(todo, 0, state, data, state', data') /\ Fitting(todo', 0, state)
  BY <1>1 DEF Moves, Fitting, OfTheBoard
<1>3. IsSeq(todo') /\ Careful(todo', state', data') /\ Timely(todo', state')
  BY <1>1, <1>2, RestKeeps
<1>4. Enough(state', data')
  <2>1. todo[1].to \in Opening \/ Enough(todo[1].to, data)
    BY <1>1 DEF WizardInv, Careful, StatesAreReady
  <2> QED BY <1>1, <2>1, OpeningAsksNothing
<1>5. DraftsAreCounted'
  BY <1>1, <1>2, DraftsStay DEF Fitting
<1>6. ASSUME spoilt = Fresh
      PROVE  Tidy(todo', screen', data') /\ StepIsShown(todo', state', screen', data')
  <2>1. ~Starts(todo', "shown") /\ ~Starts(todo', "delete")
    BY <1>1, NoNoteNext
  <2>2. Tidy(todo, screen, data)
    BY <1>6 DEF WizardInv
  <2>3. state' # NoStep => BoardComes(todo')
    <3> SUFFICES ASSUME state' # NoStep PROVE BoardComes(todo')
      OBVIOUS
    <3>1. PICK k \in DOMAIN todo : /\ k > 1 /\ todo[k].op = "board"
                                   /\ \A j \in 1 + 1..k - 1 : todo[j].op \notin {"state", "wipe"}
      BY <1>1 DEF WizardInv, Timely, StatesAreShown
    <3>2. k \in Nat /\ k >= 2 /\ 1..k \subseteq DOMAIN todo
      BY <3>1, <1>1, Places
    <3>3. k - 1 \in DOMAIN todo' /\ todo'[k - 1] = todo[k]
      BY <3>1, <3>2, <1>1, Places
    <3>4. ASSUME NEW j \in 1..(k - 1) - 1 PROVE todo'[j].op # "state"
      <4>1. j + 1 \in DOMAIN todo /\ j + 1 >= 2 /\ j + 1 \in 1 + 1..k - 1
        BY <3>2
      <4>2. todo'[(j + 1) - 1 + 0] = todo[j + 1]
        BY <4>1, <1>1, Places
      <4>3. (j + 1) - 1 + 0 = j
        OBVIOUS
      <4> QED BY <3>1, <4>1, <4>2, <4>3
    <3> QED BY <3>1, <3>3, <3>4 DEF BoardComes
  <2> QED BY <1>1, <2>1, <2>2, <2>3 DEF Tidy, StepIsShown, Starts
<1>7. IsData(data') /\ spoilt' \in [crash : BOOLEAN, call : BOOLEAN, reopened : Nat]
  BY <1>1 DEF WizardInv
<1> QED BY <1>1, <1>3, <1>4, <1>5, <1>6, <1>7, WizardInvAfter

\* An entry is written.
LEMMA DataKeeps ==
  ASSUME WizardInv, write_data
  PROVE  WizardInv'
<1>1. /\ todo # <<>> /\ todo[1].op = "data" /\ 1 \in DOMAIN todo /\ IsSeq(todo)
      /\ Replaced(todo', todo, 0) /\ data' = Written(data, todo[1])
      /\ UNCHANGED <<state, screen, drafts, spoilt>>
  BY DoingIs DEF write_data, Written
<1>2. Moves(todo, 0, state, data, state', data') /\ Fitting(todo', 0, state)
  BY <1>1 DEF Moves, Fitting, OfTheBoard
<1>3. IsSeq(todo') /\ Careful(todo', state', data') /\ Timely(todo', state')
  BY <1>1, <1>2, RestKeeps
<1>4. todo[1].field \in Fields /\ (Harmless(todo[1]) \/ AskedFor(todo[1], state))
  BY <1>1 DEF WizardInv, Careful, WritesAreSafe
<1>5. Enough(state', data') /\ IsData(data')
  BY <1>1, <1>4, WriteLeavesEnough DEF WizardInv
<1>6. DraftsAreCounted'
  BY <1>1, <1>2, DraftsStay DEF Fitting
<1>7. data'.board = data.board /\ data'.shown = data.shown
  <2>1. /\ todo[1].field \notin {"board", "shown"}
        /\ todo[1].field = "photos" => todo[1].to \in Nat
        /\ {"board", "shown"} \subseteq Fields
    BY <1>4 DEF Harmless, AskedFor, Fields, Empty
  <2> QED BY <1>1, <1>4, <2>1, WriteIsData DEF WizardInv
<1>8. ASSUME spoilt = Fresh
      PROVE  Tidy(todo', screen', data') /\ StepIsShown(todo', state', screen', data')
  <2>1. ~Starts(todo', "shown") /\ ~Starts(todo', "delete")
    BY <1>1, NoNoteNext
  <2>2. Tidy(todo, screen, data) /\ StepIsShown(todo, state, screen, data)
    BY <1>8 DEF WizardInv
  <2>3. BoardComes(todo) => BoardComes(todo')
    BY <1>1, BoardStaysToCome
  <2> QED BY <1>1, <1>7, <2>1, <2>2, <2>3 DEF Tidy, StepIsShown, Starts, NoBoard
<1>9. spoilt' \in [crash : BOOLEAN, call : BOOLEAN, reopened : Nat]
  BY <1>1 DEF WizardInv
<1> QED BY <1>1, <1>3, <1>5, <1>6, <1>8, <1>9, WizardInvAfter

\* The wizard is over.
LEMMA WipeKeeps ==
  ASSUME WizardInv, wipe_data
  PROVE  WizardInv'
<1>1. /\ todo # <<>> /\ todo[1].op = "wipe" /\ 1 \in DOMAIN todo /\ IsSeq(todo)
      /\ Replaced(todo', todo, 0) /\ data' = Empty /\ screen' = {} /\ drafts' = 0
      /\ spoilt' = Fresh /\ state' = state
  BY DoingIs DEF wipe_data
<1>2. Moves(todo, 0, state, data, state', data') /\ Fitting(todo', 0, state)
  BY <1>1 DEF Moves, Fitting, OfTheBoard
<1>3. IsSeq(todo') /\ Careful(todo', state', data') /\ Timely(todo', state')
  BY <1>1, <1>2, RestKeeps
<1>4. state' = NoStep
  BY <1>1 DEF WizardInv, Careful, WipesAreLate
<1>5. Enough(state', data')
  BY <1>4, OpeningAsksNothing DEF Opening
<1>6. IsData(data') /\ data'.board = 0 /\ data'.shown = <<>>
  BY <1>1 DEF IsData, Fields, Empty
<1>7. ~Starts(todo', "shown") /\ ~Starts(todo', "delete")
  BY <1>1, NoNoteNext
<1>8. Tidy(todo', screen', data') /\ StepIsShown(todo', state', screen', data')
  BY <1>1, <1>4, <1>6, <1>7 DEF Tidy, NoBoard, StepIsShown
<1>9. DraftsAreCounted' /\ spoilt' \in [crash : BOOLEAN, call : BOOLEAN, reopened : Nat]
  BY <1>1 DEF DraftsAreCounted, Fresh
<1> QED BY <1>3, <1>5, <1>6, <1>8, <1>9, WizardInvAfter

\* What was shown is noted.
LEMMA NoteKeeps ==
  ASSUME WizardInv, write_shown
  PROVE  WizardInv'
<1> DEFINE h == todo[1]
<1>1. /\ todo # <<>> /\ h.op = "shown" /\ 1 \in DOMAIN todo /\ IsSeq(todo)
      /\ Replaced(todo', todo, 0) /\ data' = [data EXCEPT !.shown = h.text, !.board = h.id]
      /\ UNCHANGED <<state, screen, drafts, spoilt>>
  BY DoingIs DEF write_shown
<1>2. Moves(todo, 0, state, data, state', data') /\ Fitting(todo', 0, state)
  BY <1>1 DEF Moves, Fitting, OfTheBoard
<1>3. IsSeq(todo') /\ Careful(todo', state', data') /\ Timely(todo', state')
  BY <1>1, <1>2, RestKeeps
<1>4. h.text[1] = state
  BY <1>1 DEF WizardInv, Timely, NotesComeFirst
<1> HIDE DEF h
<1>5. /\ IsData(data') /\ data'.board = h.id /\ data'.shown = h.text
      /\ \A f \in Fields \ {"board", "shown", "topic", "anti_sniper"} : data[f] = data'[f]
  BY <1>1 DEF WizardInv, IsData, Fields, Empty
<1>6. Enough(state', data')
  BY <1>1, <1>5, EnoughReads DEF WizardInv
<1>7. DraftsAreCounted'
  BY <1>1, <1>2, DraftsStay DEF Fitting, h
<1>8. ~Starts(todo', "shown") /\ ~Starts(todo', "delete")
  BY <1>1, NoNoteNext DEF h
<1>9. ASSUME spoilt = Fresh
      PROVE  Tidy(todo', screen', data') /\ StepIsShown(todo', state', screen', data')
  <2>1. OneBoard(screen, h.id, h.text)
    BY <1>1, <1>9 DEF WizardInv, Tidy, Starts, h
  <2>2. screen # {}
    BY <2>1 DEF OneBoard
  <2> QED BY <1>1, <1>4, <1>5, <1>8, <2>1, <2>2 DEF Tidy, StepIsShown
<1>10. spoilt' \in [crash : BOOLEAN, call : BOOLEAN, reopened : Nat]
  BY <1>1 DEF WizardInv
<1> QED BY <1>1, <1>3, <1>5, <1>6, <1>7, <1>9, <1>10, WizardInvAfter

\* A call put before two.
LEMMA OneAndTwo ==
  ASSUME NEW a, NEW b, NEW c
  PROVE  LET q == <<a>> \o <<b, c>>
         IN  IsSeq(q) /\ DOMAIN q = 1..3 /\ q[1] = a /\ q[2] = b /\ q[3] = c
<1> DEFINE S == {a, b, c}
           q == <<a>> \o <<b, c>>
<1>1. /\ <<a>> \in Seq(S) /\ Len(<<a>>) = 1 /\ <<a>>[1] = a
      /\ <<b, c>> \in Seq(S) /\ Len(<<b, c>>) = 2 /\ <<b, c>>[1] = b /\ <<b, c>>[2] = c
  OBVIOUS
<1> HIDE DEF S
<1>2. /\ q \in Seq(S) /\ Len(q) = 3
      /\ \A i \in 1..3 : q[i] = IF i <= 1 THEN <<a>>[i] ELSE <<b, c>>[i - 1]
  BY <1>1, ConcatProperties
<1> HIDE DEF q
<1>3. IsSeq(q) /\ DOMAIN q = 1..3
  BY <1>2, FunIsSeq, LenProperties
<1>4. q[1] = a /\ q[2] = b /\ q[3] = c
  BY <1>1, <1>2
<1> QED BY <1>3, <1>4 DEF q

\* A call put before another.
LEMMA OneAndOne ==
  ASSUME NEW a, NEW b
  PROVE  LET q == <<a>> \o <<b>> IN IsSeq(q) /\ Len(q) = 2 /\ q[1] = a /\ q[2] = b
<1> DEFINE S == {a, b}
           q == <<a>> \o <<b>>
<1>1. /\ <<a>> \in Seq(S) /\ Len(<<a>>) = 1 /\ <<a>>[1] = a
      /\ <<b>> \in Seq(S) /\ Len(<<b>>) = 1 /\ <<b>>[1] = b
  OBVIOUS
<1> HIDE DEF S
<1>2. /\ q \in Seq(S) /\ Len(q) = 2
      /\ \A i \in 1..2 : q[i] = IF i <= 1 THEN <<a>>[i] ELSE <<b>>[i - 1]
  BY <1>1, ConcatProperties
<1> HIDE DEF q
<1>3. IsSeq(q)
  BY <1>2, FunIsSeq
<1>4. q[1] = a /\ q[2] = b
  BY <1>1, <1>2
<1> QED BY <1>2, <1>3, <1>4 DEF q

\* The lot is created, and the wizard about to be cleared; or it is not.
LEMMA CommitKeeps ==
  ASSUME WizardInv, commit_draft
  PROVE  WizardInv'
<1> DEFINE b == Board("anti_sniper", "finished", FALSE)
           q == <<b>> \o clear
<1>1. /\ todo # <<>> /\ todo[1].op = "commit" /\ 1 \in DOMAIN todo /\ IsSeq(todo)
      /\ UNCHANGED <<state, data, screen, spoilt>>
      /\ (drafts' = drafts + 1 /\ todo' = q) \/ (drafts' = drafts /\ todo' = <<>>)
  BY DoingIs DEF commit_draft
<1>b. b.op = "board" /\ b.step = "anti_sniper" /\ IsBoard(b)
  BY BoardIs
<1> HIDE DEF b
<1>2. state = "anti_sniper" /\ \A k \in DOMAIN todo : k = 1
  <2>1. state = "anti_sniper" /\ \A k \in DOMAIN todo : k <= 1
    BY <1>1 DEF WizardInv, Timely, CommitsComeLast
  <2>2. \A k \in DOMAIN todo : k \in Nat \ {0}
    BY <1>1, SeqParts
  <2> QED BY <2>1, <2>2
<1>3. drafts \in Nat /\ spoilt.reopened \in Nat /\ drafts <= spoilt.reopened
  <2>1. ~WipeIsNext(todo)
    BY <1>1, <1>2 DEF WipeIsNext
  <2> QED BY <1>1, <2>1 DEF WizardInv, DraftsAreCounted
<1>4. /\ ~Starts(todo, "shown") /\ ~Starts(todo, "delete") /\ ~BoardComes(todo)
  BY <1>1, <1>2 DEF Starts, BoardComes
<1>5. spoilt = Fresh => (NoBoard(screen, data) \/ OneBoard(screen, data.board, data.shown))
  BY <1>4 DEF WizardInv, Tidy
<1>6. /\ IsData(data') /\ spoilt' \in [crash : BOOLEAN, call : BOOLEAN, reopened : Nat] /\ Enough(state', data')
  BY <1>1 DEF WizardInv
<1>7. CASE drafts' = drafts + 1 /\ todo' = q
  <2>1. /\ IsSeq(q) /\ DOMAIN q = 1..3 /\ q[1] = b /\ q[2] = SetState(NoStep) /\ q[3] = Wipe
    BY OneAndTwo DEF clear
  <2> HIDE DEF q
  <2>2. /\ q[1].op = "board" /\ q[1].step = "anti_sniper" /\ IsBoard(q[1])
        /\ q[2].op = "state" /\ q[2].to = NoStep /\ q[3].op = "wipe"
    BY <2>1, <1>b, CallsAre
  <2>3. Careful(q, "anti_sniper", data)
    BY <2>1, <2>2 DEF Careful, StatesAreReady, WritesAreSafe, WipesAreLate, Opening
  <2>4. Timely(q, "anti_sniper")
    BY <2>1, <2>2 DEF Timely, BoardsAreTimely, StatesAreShown, NotesComeFirst, CommitsComeLast
  <2>5. WipeIsNext(q) /\ BoardComes(q) /\ ~Starts(q, "shown") /\ ~Starts(q, "delete")
    BY <2>1, <2>2 DEF WipeIsNext, BoardComes, Starts
  <2>6. DraftsAreCounted'
    <3>1. drafts' \in Nat /\ (drafts' <= spoilt.reopened \/ drafts' = spoilt.reopened + 1)
      BY <1>3, <1>7
    <3> QED BY <1>1, <1>7, <2>5, <3>1 DEF DraftsAreCounted
  <2>7. spoilt' = Fresh => Tidy(q, screen', data') /\ StepIsShown(q, state', screen', data')
    BY <1>1, <1>5, <2>5 DEF Tidy, StepIsShown
  <2> QED BY <1>1, <1>2, <1>6, <1>7, <2>1, <2>3, <2>4, <2>6, <2>7, WizardInvAfter
<1>8. CASE drafts' = drafts /\ todo' = <<>>
  <2>1. IsSeq(todo') /\ Careful(todo', state', data') /\ Timely(todo', state')
    BY <1>8, LittleIsCareful
  <2>2. DraftsAreCounted'
    BY <1>1, <1>3, <1>8 DEF DraftsAreCounted
  <2>3. spoilt = Fresh => screen # {} /\ data.shown[1] = state
    BY <1>2, <1>4 DEF WizardInv, StepIsShown, NoStep
  <2>4. spoilt' = Fresh => Tidy(todo', screen', data') /\ StepIsShown(todo', state', screen', data')
    BY <1>1, <1>5, <1>8, <2>3 DEF Tidy, StepIsShown, Starts
  <2> QED BY <1>6, <2>1, <2>2, <2>4, WizardInvAfter
<1> QED BY <1>1, <1>7, <1>8

(***************************************************************************)
(* The board.                                                              *)
(***************************************************************************)
\* A board that is about to be shown is the one of the step.
LEMMA BoardIsOfTheStep ==
  ASSUME WizardInv, Doing("board")
  PROVE  /\ todo # <<>> /\ todo[1].op = "board" /\ Head(todo) = todo[1] /\ IsSeq(todo)
         /\ IsBoard(todo[1]) /\ todo[1].step = state /\ Text(todo[1])[1] = state
         /\ Text(todo[1]) # <<>> /\ ~Starts(todo, "shown") /\ ~Starts(todo, "delete")
         /\ spoilt = Fresh => (NoBoard(screen, data) \/ OneBoard(screen, data.board, data.shown))
<1>1. /\ todo # <<>> /\ todo[1].op = "board" /\ Head(todo) = todo[1] /\ IsSeq(todo)
      /\ 1 \in DOMAIN todo
  BY DoingIs
<1>2. IsBoard(todo[1]) /\ todo[1].step = state
  <2>1. 1..1 - 1 = {}
    OBVIOUS
  <2> QED BY <1>1, <2>1 DEF WizardInv, Timely, BoardsAreTimely
<1>3. Text(todo[1])[1] = state /\ Text(todo[1]) # <<>>
  BY <1>2 DEF Text
<1>4. ~Starts(todo, "shown") /\ ~Starts(todo, "delete")
  BY <1>1 DEF Starts
<1>5. spoilt = Fresh => (NoBoard(screen, data) \/ OneBoard(screen, data.board, data.shown))
  BY <1>4 DEF WizardInv, Tidy
<1> QED BY <1>1, <1>2, <1>3, <1>4, <1>5

\* What a step about the board keeps, whatever the user sees.
LEMMA BoardStepKeeps ==
  ASSUME WizardInv, NEW k, Replaced(todo', todo, k), todo[1].op \in {"board", "delete"},
         todo[1].op = "delete" => k = 0, Fitting(todo', k, state),
         UNCHANGED <<state, data, drafts>>, spoilt'.reopened = spoilt.reopened,
         spoilt' \in [crash : BOOLEAN, call : BOOLEAN, reopened : Nat],
         spoilt' = Fresh =>
           Tidy(todo', screen', data') /\ StepIsShown(todo', state', screen', data')
  PROVE  WizardInv'
<1>1. Moves(todo, k, state, data, state', data')
  BY DEF Moves
<1>2. IsSeq(todo') /\ Careful(todo', state', data') /\ Timely(todo', state')
  BY <1>1, RestKeeps
<1>3. DraftsAreCounted'
  BY DraftsStay DEF Fitting
<1>4. IsData(data') /\ Enough(state', data')
  BY DEF WizardInv
<1> QED BY <1>2, <1>3, <1>4, WizardInvAfter

\* What is known after a call that failed, and after one that did not.
LEMMA SpoiltIs ==
  ASSUME WizardInv
  PROVE  /\ call_fails => /\ spoilt'.reopened = spoilt.reopened /\ spoilt' # Fresh
                          /\ spoilt' \in [crash : BOOLEAN, call : BOOLEAN, reopened : Nat]
         /\ calls_work => spoilt' = spoilt /\ spoilt' \in [crash : BOOLEAN, call : BOOLEAN, reopened : Nat]
<1>1. spoilt \in [crash : BOOLEAN, call : BOOLEAN, reopened : Nat]
  BY DEF WizardInv
<1>2. ASSUME call_fails
      PROVE  /\ spoilt'.reopened = spoilt.reopened /\ spoilt' # Fresh
             /\ spoilt' \in [crash : BOOLEAN, call : BOOLEAN, reopened : Nat]
  <2>1. spoilt' = [spoilt EXCEPT !.call = TRUE]
    BY <1>2 DEF call_fails
  <2>2. spoilt'.call = TRUE /\ spoilt'.reopened = spoilt.reopened
    BY <1>1, <2>1
  <2>3. Fresh.call = FALSE
    BY DEF Fresh
  <2> QED BY <1>1, <2>1, <2>2, <2>3
<1>3. calls_work => spoilt' = spoilt
  BY DEF calls_work
<1> QED BY <1>1, <1>2, <1>3

\* The text is the one last shown: nothing is sent.
LEMMA UnchangedKeeps ==
  ASSUME WizardInv, board_unchanged
  PROVE  WizardInv'
<1>1. /\ Doing("board") /\ Replaced(todo', todo, 0) /\ data.shown = Text(todo[1])
      /\ UNCHANGED <<state, data, screen, drafts, spoilt>>
  BY DoingIs DEF board_unchanged
<1>2. /\ todo[1].op = "board" /\ Text(todo[1])[1] = state /\ Text(todo[1]) # <<>>
      /\ spoilt = Fresh => (NoBoard(screen, data) \/ OneBoard(screen, data.board, data.shown))
  BY <1>1, BoardIsOfTheStep
<1>3. ~Starts(todo', "shown") /\ ~Starts(todo', "delete")
  BY <1>1, <1>2, NoNoteNext
<1>4. ASSUME spoilt' = Fresh
      PROVE  Tidy(todo', screen', data') /\ StepIsShown(todo', state', screen', data')
  <2>1. OneBoard(screen, data.board, data.shown)
    BY <1>1, <1>2, <1>4 DEF NoBoard
  <2>2. screen # {}
    BY <2>1 DEF OneBoard
  <2> QED BY <1>1, <1>2, <1>3, <2>1, <2>2 DEF Tidy, StepIsShown
<1>5. Fitting(todo', 0, state)
  BY DEF Fitting, OfTheBoard
<1>6. spoilt' \in [crash : BOOLEAN, call : BOOLEAN, reopened : Nat]
  BY <1>1 DEF WizardInv
<1> QED BY <1>1, <1>2, <1>4, <1>5, <1>6, BoardStepKeeps

\* A new message is none of those the user sees, nor the one remembered.
LEMMA NewIdIsNew ==
  ASSUME NoBoard(screen, data) \/ OneBoard(screen, data.board, data.shown)
  PROVE  new_id \in Nat \ {0} /\ new_id # data.board
<1> DEFINE New(n) == /\ n # data.board /\ ~OnScreen(n)
                     /\ \A k \in 1..n - 1 : k = data.board \/ OnScreen(k)
           C == Cardinality(screen)
<1>1. C \in Nat
  BY FS_EmptySet, FS_Singleton, FS_CardinalityType DEF NoBoard, OneBoard
<1>2. \A n : OnScreen(n) => n = data.board
  BY DEF OnScreen, NoBoard, OneBoard
<1>3. \E n \in 1..C + 2 : New(n)
  <2> HIDE DEF C
  <2>1. CASE data.board # 1
    <3>1. New(1) /\ 1 \in 1..C + 2
      BY <1>1, <1>2, <2>1
    <3> QED BY <3>1
  <2>2. CASE data.board = 1
    <3>1. New(2) /\ 2 \in 1..C + 2
      BY <1>1, <1>2, <2>2
    <3> QED BY <3>1
  <2> QED BY <2>1, <2>2
<1>4. new_id \in 1..C + 2 /\ New(new_id)
  <2> HIDE DEF C
  <2>1. new_id = CHOOSE n \in 1..C + 2 : New(n)
    BY DEF new_id, C
  <2> HIDE DEF New
  <2> QED BY <1>3, <2>1
<1> HIDE DEF C
<1> QED BY <1>1, <1>4

\* A message below the photos, the old board to be deleted.
LEMMA RepostKeeps ==
  ASSUME WizardInv, board_is_reposted
  PROVE  WizardInv'
<1> DEFINE text == Text(todo[1])
<1>1. /\ Doing("board") /\ UNCHANGED <<state, data, drafts>> /\ data.board # 0
      /\ todo[1].op = "board" /\ IsBoard(todo[1]) /\ todo[1].step = state /\ text[1] = state
      /\ spoilt = Fresh => (NoBoard(screen, data) \/ OneBoard(screen, data.board, data.shown))
      /\ Head(todo) = todo[1] /\ IsSeq(todo) /\ todo # <<>>
  BY BoardIsOfTheStep DEF board_is_reposted, shows_board
<1>2. \/ answer(text, <<Delete(data.board)>>) /\ calls_work
      \/ /\ call_fails
         /\ todo' = <<[todo[1] EXCEPT !.repost = FALSE]>> \o Tail(todo)
  BY <1>1 DEF board_is_reposted
<1> HIDE DEF text
<1>3. CASE answer(text, <<Delete(data.board)>>) /\ calls_work
  <2> DEFINE n == new_id
             del == Delete(data.board)
             note == remember(text, n)
             p == <<del>> \o <<note>>
  <2>1. todo' = p \o Tail(todo) /\ screen' = screen \cup {[id |-> n, text |-> text]}
    BY <1>3 DEF answer
  <2>2. /\ del.op = "delete" /\ del.id = data.board
        /\ note.op = "shown" /\ note.text = text /\ note.id = n
    BY CallsAre
  <2>a. spoilt = Fresh => n \in Nat \ {0} /\ n # data.board
    BY <1>1, NewIdIsNew
  <2> HIDE DEF del, note, n
  <2>3. IsSeq(p) /\ Len(p) = 2 /\ p[1] = del /\ p[2] = note
    BY OneAndOne
  <2> HIDE DEF p
  <2>4. Replaced(todo', todo, 2) /\ todo'[1] = del /\ todo'[2] = note
    <3>1. Len(p) \in 0..2
      BY <2>3
    <3>2. Begins(todo', todo, p, 2)
      BY <1>1, <2>1, <2>3, <3>1, PutInFront, Zenon
    <3> QED BY <2>3, <3>2 DEF Begins
  <2>5. Fitting(todo', 2, state)
    BY <1>1, <2>2, <2>4 DEF Fitting, OfTheBoard
  <2>6. spoilt' = spoilt /\ spoilt' \in [crash : BOOLEAN, call : BOOLEAN, reopened : Nat]
    BY <1>3, SpoiltIs
  <2>7. ASSUME spoilt' = Fresh
        PROVE  Tidy(todo', screen', data') /\ StepIsShown(todo', state', screen', data')
    <3>1. OneBoard(screen, data.board, data.shown)
      BY <1>1, <2>6, <2>7 DEF NoBoard
    <3>2. PICK m \in screen : screen = {m} /\ m.id = data.board
      BY <3>1 DEF OneBoard
    <3> DEFINE new == [id |-> n, text |-> text]
    <3>3. IsMessage(new) /\ new.id = n /\ new.text = text
      BY DEF IsMessage
    <3>4. screen' = screen \cup {new}
      BY <2>1
    <3> HIDE DEF new
    <3>5. TwoBoards(screen', data.board, n, text)
      BY <3>2, <3>3, <3>4, <2>6, <2>7, <2>a DEF TwoBoards
    <3>6. Starts(todo', "delete")
      BY <2>2, <2>4, EmptySeq DEF Starts, Replaced
    <3> QED BY <2>2, <2>4, <3>5, <3>6 DEF Tidy, StepIsShown
  <2> QED BY <1>1, <2>4, <2>5, <2>6, <2>7, BoardStepKeeps
<1>4. CASE call_fails /\ todo' = <<[todo[1] EXCEPT !.repost = FALSE]>> \o Tail(todo)
  <2> DEFINE b == [todo[1] EXCEPT !.repost = FALSE]
             p == <<b>>
  <2>1. b.op = "board" /\ b.step = state /\ IsBoard(b)
    BY <1>1 DEF IsBoard
  <2>2. todo' = p \o Tail(todo)
    BY <1>4
  <2> HIDE DEF b
  <2>3. IsSeq(p) /\ Len(p) = 1 /\ p[1] = b
    BY OneCall
  <2> HIDE DEF p
  <2>4. Replaced(todo', todo, 1) /\ todo'[1] = b
    <3>1. Len(p) \in 0..2
      BY <2>3
    <3>2. Begins(todo', todo, p, 1)
      BY <1>1, <2>2, <2>3, <3>1, PutInFront, Zenon
    <3> QED BY <2>3, <3>2 DEF Begins
  <2>5. Fitting(todo', 1, state)
    BY <2>1, <2>4 DEF Fitting, OfTheBoard
  <2>6. /\ spoilt'.reopened = spoilt.reopened /\ spoilt' # Fresh
        /\ spoilt' \in [crash : BOOLEAN, call : BOOLEAN, reopened : Nat]
    BY <1>4, SpoiltIs
  <2> QED BY <1>1, <2>4, <2>5, <2>6, BoardStepKeeps
<1> QED BY <1>2, <1>3, <1>4

\* The note of what was shown takes the place of the board.
LEMMA NoteReplaces ==
  ASSUME WizardInv, Doing("board"), NEW id, NEW p, p = <<remember(Text(todo[1]), id)>>,
         todo' = p \o Tail(todo)
  PROVE  /\ Replaced(todo', todo, 1) /\ Fitting(todo', 1, state) /\ Starts(todo', "shown")
         /\ todo'[1].id = id /\ todo'[1].text = Text(todo[1])
<1> DEFINE text == Text(todo[1])
           note == remember(text, id)
<1>1. todo # <<>> /\ IsSeq(todo) /\ text[1] = state
  BY BoardIsOfTheStep
<1> HIDE DEF text
<1>2. note.op = "shown" /\ note.text = text /\ note.id = id
  BY CallsAre
<1>3. p = <<note>>
  BY DEF text
<1> HIDE DEF note
<1>4. IsSeq(p) /\ Len(p) = 1 /\ p[1] = note
  BY <1>3, OneCall
<1>5. Replaced(todo', todo, 1) /\ todo'[1] = note
  <2>1. Len(p) \in 0..2
    BY <1>4
  <2>2. Begins(todo', todo, p, 1)
    BY <1>1, <1>4, <2>1, PutInFront, Zenon
  <2> QED BY <1>4, <2>2 DEF Begins
<1>6. todo' # <<>>
  BY <1>5, EmptySeq DEF Replaced
<1>7. Fitting(todo', 1, state)
  BY <1>1, <1>2, <1>5 DEF Fitting, OfTheBoard
<1> QED BY <1>2, <1>5, <1>6, <1>7 DEF Starts, text

\* The board is edited where it is.
LEMMA EditKeeps ==
  ASSUME WizardInv, board_is_edited
  PROVE  WizardInv'
<1> DEFINE text == Text(todo[1])
           Edited(m) == IF m.id = data.board THEN [m EXCEPT !.text = text] ELSE m
<1>1. /\ Doing("board") /\ UNCHANGED <<state, data, drafts>> /\ Head(todo) = todo[1]
      /\ todo[1].op = "board"
      /\ spoilt = Fresh => (NoBoard(screen, data) \/ OneBoard(screen, data.board, data.shown))
  BY BoardIsOfTheStep DEF board_is_edited, shows_board
<1>2. /\ OnScreen(data.board) /\ calls_work
      /\ todo' = <<remember(text, data.board)>> \o Tail(todo)
      /\ screen' = {Edited(m) : m \in screen}
  BY <1>1 DEF board_is_edited
<1>3. /\ Replaced(todo', todo, 1) /\ Fitting(todo', 1, state) /\ Starts(todo', "shown")
      /\ todo'[1].id = data.board /\ todo'[1].text = text
  BY <1>1, <1>2, NoteReplaces
<1>4. spoilt' = spoilt /\ spoilt' \in [crash : BOOLEAN, call : BOOLEAN, reopened : Nat]
  BY <1>2, SpoiltIs
<1>5. ASSUME spoilt' = Fresh
      PROVE  Tidy(todo', screen', data') /\ StepIsShown(todo', state', screen', data')
  <2> HIDE DEF text
  <2>1. OneBoard(screen, data.board, data.shown)
    BY <1>1, <1>2, <1>4, <1>5 DEF NoBoard, OnScreen
  <2>2. PICK m \in screen : screen = {m} /\ IsMessage(m) /\ m.id = data.board
    BY <2>1 DEF OneBoard
  <2>3. Edited(m) = [m EXCEPT !.text = text]
    BY <2>2
  <2>4. IsMessage(Edited(m)) /\ Edited(m).id = data.board /\ Edited(m).text = text
    BY <2>2, <2>3 DEF IsMessage
  <2> HIDE DEF Edited
  <2>5. screen' = {Edited(m)}
    BY <1>2, <2>2
  <2>6. OneBoard(screen', data.board, text)
    BY <2>1, <2>4, <2>5 DEF OneBoard
  <2> QED BY <1>3, <2>6 DEF Tidy, StepIsShown
<1> QED BY <1>1, <1>3, <1>4, <1>5, BoardStepKeeps

\* A new board is sent, or even that fails.
LEMMA SendKeeps ==
  ASSUME WizardInv, board_is_sent
  PROVE  WizardInv'
<1> DEFINE text == Text(todo[1])
<1>1. /\ Doing("board") /\ UNCHANGED <<state, data, drafts>> /\ Head(todo) = todo[1]
      /\ todo[1].op = "board"
      /\ spoilt = Fresh => (NoBoard(screen, data) \/ OneBoard(screen, data.board, data.shown))
  BY BoardIsOfTheStep DEF board_is_sent, shows_board
<1>2. \/ ~OnScreen(data.board) /\ answer(text, <<>>) /\ calls_work
      \/ call_fails /\ answer(text, <<>>)
      \/ call_fails /\ todo' = <<remember(text, data.board)>> \o Tail(todo)
  BY <1>1 DEF board_is_sent
<1>3. ASSUME answer(text, <<>>)
      PROVE  /\ Replaced(todo', todo, 1) /\ Fitting(todo', 1, state) /\ Starts(todo', "shown")
             /\ todo'[1].id = new_id /\ todo'[1].text = text
             /\ screen' = screen \cup {[id |-> new_id, text |-> text]}
  <2> DEFINE p == <<remember(text, new_id)>>
             n == new_id
  <2>1. <<>> \o p = p
    <3> DEFINE note == remember(text, n)
    <3>1. p = <<note>>
      OBVIOUS
    <3> HIDE DEF note, p
    <3>2. p \in Seq({note})
      BY <3>1
    <3> QED BY <3>2, ConcatEmptySeq
  <2>2. todo' = p \o Tail(todo) /\ screen' = screen \cup {[id |-> n, text |-> text]}
    BY <1>3, <2>1 DEF answer
  <2>3. p = <<remember(text, n)>>
    OBVIOUS
  <2> HIDE DEF p, n
  <2>4. /\ Replaced(todo', todo, 1) /\ Fitting(todo', 1, state) /\ Starts(todo', "shown")
        /\ todo'[1].id = n /\ todo'[1].text = text
    BY <1>1, <2>2, <2>3, NoteReplaces
  <2> QED BY <2>2, <2>4 DEF n
<1>4. CASE ~OnScreen(data.board) /\ answer(text, <<>>) /\ calls_work
  <2>1. spoilt' = spoilt /\ spoilt' \in [crash : BOOLEAN, call : BOOLEAN, reopened : Nat]
    BY <1>4, SpoiltIs
  <2>2. ASSUME spoilt' = Fresh
        PROVE  Tidy(todo', screen', data') /\ StepIsShown(todo', state', screen', data')
    <3>1. NoBoard(screen, data)
      BY <1>1, <1>4, <2>1, <2>2 DEF OneBoard, OnScreen
    <3>2. new_id \in Nat \ {0}
      BY <3>1, NewIdIsNew
    <3> DEFINE new == [id |-> new_id, text |-> text]
    <3>3. IsMessage(new) /\ new.id = new_id /\ new.text = text
      BY DEF IsMessage
    <3>4. screen' = {new}
      BY <1>3, <1>4, <3>1 DEF NoBoard
    <3> HIDE DEF new
    <3>5. OneBoard(screen', new_id, text)
      BY <3>2, <3>3, <3>4 DEF OneBoard
    <3> QED BY <1>3, <1>4, <3>5 DEF Tidy, StepIsShown
  <2> QED BY <1>1, <1>3, <1>4, <2>1, <2>2, BoardStepKeeps
<1>5. CASE call_fails /\ answer(text, <<>>)
  <2>1. /\ spoilt'.reopened = spoilt.reopened /\ spoilt' # Fresh
        /\ spoilt' \in [crash : BOOLEAN, call : BOOLEAN, reopened : Nat]
    BY <1>5, SpoiltIs
  <2> QED BY <1>1, <1>3, <1>5, <2>1, BoardStepKeeps
<1>6. CASE call_fails /\ todo' = <<remember(text, data.board)>> \o Tail(todo)
  <2>1. /\ spoilt'.reopened = spoilt.reopened /\ spoilt' # Fresh
        /\ spoilt' \in [crash : BOOLEAN, call : BOOLEAN, reopened : Nat]
    BY <1>6, SpoiltIs
  <2>2. Replaced(todo', todo, 1) /\ Fitting(todo', 1, state)
    BY <1>1, <1>6, NoteReplaces
  <2> QED BY <1>1, <2>1, <2>2, BoardStepKeeps
<1> QED BY <1>2, <1>4, <1>5, <1>6

\* The old board is deleted, or that fails.
LEMMA DeletionKeeps ==
  ASSUME WizardInv, delete_board
  PROVE  WizardInv'
<1>1. /\ todo # <<>> /\ todo[1].op = "delete" /\ 1 \in DOMAIN todo /\ IsSeq(todo)
      /\ Replaced(todo', todo, 0) /\ UNCHANGED <<state, data, drafts>> /\ Doing("delete")
      /\ \/ screen' = Without(todo[1].id) /\ calls_work
         \/ call_fails
  BY DoingIs DEF delete_board
<1>2. Fitting(todo', 0, state)
  BY DEF Fitting, OfTheBoard
<1>3. 2 \in DOMAIN todo /\ todo[2].op = "shown"
  BY <1>1 DEF WizardInv, Timely, NotesComeFirst
<1>4. todo'[1] = todo[2] /\ Starts(todo', "shown")
  <2>1. 2 - 1 + 0 \in DOMAIN todo' /\ todo'[2 - 1 + 0] = todo[2]
    BY <1>1, <1>3, Places
  <2>2. todo' # <<>>
    BY <2>1
  <2> QED BY <1>3, <2>1, <2>2 DEF Starts
<1>5. CASE screen' = Without(todo[1].id) /\ calls_work
  <2>1. spoilt' = spoilt /\ spoilt' \in [crash : BOOLEAN, call : BOOLEAN, reopened : Nat]
    BY <1>5, SpoiltIs
  <2>2. ASSUME spoilt' = Fresh
        PROVE  Tidy(todo', screen', data') /\ StepIsShown(todo', state', screen', data')
    <3>1. TwoBoards(screen, todo[1].id, todo[2].id, todo[2].text)
      BY <1>1, <2>1, <2>2 DEF WizardInv, Tidy, Starts
    <3>2. OneBoard(screen', todo[2].id, todo[2].text)
      BY <1>5, <3>1 DEF TwoBoards, OneBoard, Without
    <3> QED BY <1>4, <3>2 DEF Tidy, StepIsShown
  <2> QED BY <1>1, <1>2, <2>1, <2>2, BoardStepKeeps
<1>6. CASE call_fails
  <2>1. /\ spoilt'.reopened = spoilt.reopened /\ spoilt' # Fresh
        /\ spoilt' \in [crash : BOOLEAN, call : BOOLEAN, reopened : Nat]
    BY <1>6, SpoiltIs
  <2> QED BY <1>1, <1>2, <2>1, BoardStepKeeps
<1> QED BY <1>1, <1>5, <1>6

(***************************************************************************)
(* The surroundings, and the wizard as a whole.                            *)
(***************************************************************************)
LEMMA CrashKeeps ==
  ASSUME WizardInv, wizard_crash
  PROVE  WizardInv'
<1>1. /\ todo' = <<>> /\ UNCHANGED <<state, data, screen, drafts>>
      /\ spoilt' = [spoilt EXCEPT !.crash = TRUE, !.reopened = IF draft_is_not_cleared THEN @ + 1 ELSE @]
  BY DEF wizard_crash
<1>2. /\ spoilt' \in [crash : BOOLEAN, call : BOOLEAN, reopened : Nat] /\ spoilt' # Fresh
      /\ spoilt'.reopened = IF draft_is_not_cleared THEN spoilt.reopened + 1 ELSE spoilt.reopened
  <2>1. spoilt \in [crash : BOOLEAN, call : BOOLEAN, reopened : Nat]
    BY DEF WizardInv
  <2> DEFINE n == IF draft_is_not_cleared THEN spoilt.reopened + 1 ELSE spoilt.reopened
  <2>2. spoilt' = [spoilt EXCEPT !.crash = TRUE, !.reopened = n] /\ n \in Nat
    BY <1>1, <2>1
  <2> HIDE DEF n
  <2>3. /\ spoilt' \in [crash : BOOLEAN, call : BOOLEAN, reopened : Nat]
        /\ spoilt'.crash = TRUE /\ spoilt'.reopened = n
    BY <2>1, <2>2
  <2>4. Fresh.crash = FALSE
    BY DEF Fresh
  <2>5. spoilt' # Fresh
    BY <2>3, <2>4
  <2> QED BY <2>3, <2>5 DEF n
<1>3. IsSeq(todo') /\ Careful(todo', state', data') /\ Timely(todo', state')
  BY <1>1, LittleIsCareful
<1>4. IsData(data') /\ Enough(state', data')
  BY <1>1 DEF WizardInv
<1>5. DraftsAreCounted'
  <2>1. /\ drafts \in Nat /\ spoilt.reopened \in Nat
        /\ drafts <= spoilt.reopened \/ drafts = spoilt.reopened + 1
    BY DEF WizardInv, DraftsAreCounted
  <2>2. CASE drafts <= spoilt.reopened
    BY <1>1, <1>2, <2>1, <2>2 DEF DraftsAreCounted
  <2>3. CASE draft_is_not_cleared
    BY <1>1, <1>2, <2>1, <2>3 DEF DraftsAreCounted
  <2>4. CASE drafts = spoilt.reopened + 1 /\ ~draft_is_not_cleared
    <3>1. WipeIsNext(todo) /\ ~(drafts <= spoilt.reopened)
      <4>1. todo # <<>> /\ ~(drafts <= spoilt.reopened)
        BY <2>1, <2>4 DEF wizard_crash
      <4> QED BY <4>1 DEF WizardInv, DraftsAreCounted
    <3>2. PICK i \in DOMAIN todo : todo[i].op = "wipe"
      BY <3>1 DEF WipeIsNext
    <3>3. IF i = 1 THEN state = NoStep ELSE todo[i - 1].op = "state" /\ todo[i - 1].to = NoStep
      BY <3>2 DEF WizardInv, Careful, WipesAreLate
    <3>4. i # 1 => i - 1 \in DOMAIN todo
      <4>1. i \in 1..Len(todo) /\ Len(todo) \in Nat /\ DOMAIN todo = 1..Len(todo)
        BY SeqParts DEF WizardInv
      <4> QED BY <4>1
    <3>5. drafts > spoilt.reopened
      BY <2>1, <2>4
    <3>6. state = NoStep
      BY <2>4, <3>3, <3>4, <3>5 DEF draft_is_not_cleared
    <3> QED BY <1>1, <1>2, <2>1, <2>4, <3>6 DEF DraftsAreCounted
  <2> QED BY <2>1, <2>2, <2>3, <2>4
<1> QED BY <1>2, <1>3, <1>4, <1>5, WizardInvAfter

\* The user deletes a message.
LEMMA UserKeeps ==
  ASSUME WizardInv, NEW m, user_deletes_board(m)
  PROVE  WizardInv'
<1>1. call_fails /\ UNCHANGED <<state, data, todo, drafts>>
  BY DEF user_deletes_board
<1>2. /\ spoilt'.reopened = spoilt.reopened /\ spoilt' # Fresh
      /\ spoilt' \in [crash : BOOLEAN, call : BOOLEAN, reopened : Nat]
  BY <1>1, SpoiltIs
<1>3. DraftsAreCounted'
  BY <1>1, <1>2 DEF WizardInv, DraftsAreCounted
<1>4. /\ IsData(data') /\ Enough(state', data') /\ IsSeq(todo')
      /\ Careful(todo', state', data') /\ Timely(todo', state')
  BY <1>1 DEF WizardInv
<1> QED BY <1>2, <1>3, <1>4, WizardInvAfter

\* The invariant holds before the first wizard.
LEMMA WizardStarts == WizardInit => WizardInv
<1> SUFFICES ASSUME WizardInit PROVE WizardInv
  OBVIOUS
<1>1. /\ state = NoStep /\ data = Empty /\ todo = <<>> /\ screen = {} /\ drafts = 0
      /\ spoilt = Fresh
  BY DEF WizardInit
<1>2. IsSeq(todo) /\ Careful(todo, state, data) /\ Timely(todo, state)
  BY <1>1, LittleIsCareful
<1>3. IsData(data) /\ data.board = 0 /\ data.shown = <<>>
  BY <1>1 DEF IsData, Fields, Empty
<1>4. Enough(state, data)
  BY <1>1, OpeningAsksNothing DEF Opening
<1>5. Tidy(todo, screen, data) /\ StepIsShown(todo, state, screen, data)
  BY <1>1, <1>3 DEF Tidy, NoBoard, Starts, StepIsShown
<1>6. DraftsAreCounted /\ spoilt \in [crash : BOOLEAN, call : BOOLEAN, reopened : Nat]
  BY <1>1 DEF DraftsAreCounted, Fresh
<1> QED BY <1>2, <1>3, <1>4, <1>5, <1>6 DEF WizardInv

\* Every step keeps the invariant.
LEMMA WizardStepKeeps ==
  ASSUME WizardAssumption, WizardInv, [WizardNext]_wizard_vars
  PROVE  WizardInv'
<1>1. CASE Entry
  BY <1>1, EntryKeeps
<1>2. CASE write_state
  BY <1>2, StateKeeps
<1>3. CASE write_data
  BY <1>3, DataKeeps
<1>4. CASE wipe_data
  BY <1>4, WipeKeeps
<1>5. CASE write_shown
  BY <1>5, NoteKeeps
<1>6. CASE commit_draft
  BY <1>6, CommitKeeps
<1>7. CASE board_unchanged
  BY <1>7, UnchangedKeeps
<1>8. CASE board_is_reposted
  BY <1>8, RepostKeeps
<1>9. CASE board_is_edited
  BY <1>9, EditKeeps
<1>10. CASE board_is_sent
  BY <1>10, SendKeeps
<1>11. CASE delete_board
  BY <1>11, DeletionKeeps
<1>12. CASE wizard_crash
  BY <1>12, CrashKeeps
<1>13. CASE \E m \in screen : user_deletes_board(m)
  BY <1>13, UserKeeps
<1>14. CASE UNCHANGED wizard_vars
  BY <1>14 DEF wizard_vars, WizardInv, DraftsAreCounted
<1> QED BY <1>1, <1>2, <1>3, <1>4, <1>5, <1>6, <1>7, <1>8, <1>9, <1>10, <1>11, <1>12, <1>13, <1>14
        DEF WizardNext, Entry

\* The invariant holds of every behaviour of the wizard.
LEMMA WizardInvHolds ==
  ASSUME WizardAssumption
  PROVE  WizardSpec => []WizardInv
<1>1. WizardInv /\ [WizardNext]_wizard_vars => WizardInv'
  BY WizardStepKeeps
<1> QED BY WizardStarts, <1>1, PTL DEF WizardSpec

(* Wherever the bot was killed between two writes to Redis, and whichever    *)
(* calls failed, the wizard holds what the steps before its step ask for.    *)
THEOREM WizardsCanBeFinished ==
  ASSUME WizardAssumption
  PROVE  WizardSpec => []WizardIsComplete
<1>1. WizardInv => WizardIsComplete
  BY DEF WizardInv, Enough, WizardIsComplete
<1> QED BY <1>1, WizardInvHolds, PTL

(* Each lot of one wizard but the first takes a death of its handler between *)
(* the commit of a lot and the clearing of the step.                         *)
THEOREM WizardMakesOneLot ==
  ASSUME WizardAssumption
  PROVE  WizardSpec => []OneDraftPerWizard
<1>1. WizardInv => OneDraftPerWizard
  <2> SUFFICES ASSUME WizardInv PROVE OneDraftPerWizard
    OBVIOUS
  <2>1. /\ drafts \in Nat /\ spoilt.reopened \in Nat
        /\ drafts <= spoilt.reopened \/ drafts = spoilt.reopened + 1
    BY DEF WizardInv, DraftsAreCounted
  <2> QED BY <2>1 DEF OneDraftPerWizard
<1> QED BY <1>1, WizardInvHolds, PTL

(* Unless a call failed or the bot was killed, the user has one board, the   *)
(* one remembered, and it shows the step.                                    *)
THEOREM BoardShowsTheStep ==
  ASSUME WizardAssumption
  PROVE  WizardSpec => []BoardIsCurrent
<1>1. WizardInv => BoardIsCurrent
  <2> SUFFICES ASSUME WizardInv, todo = <<>>, state # NoStep, spoilt = Fresh
               PROVE  \E m \in screen : screen = {m} /\ m.id = data.board /\ m.text[1] = state
    BY DEF BoardIsCurrent
  <2>1. /\ ~Starts(todo, "shown") /\ ~Starts(todo, "delete") /\ ~BoardComes(todo)
    BY DEF Starts, BoardComes
  <2>2. /\ NoBoard(screen, data) \/ OneBoard(screen, data.board, data.shown)
        /\ screen # {} /\ data.shown[1] = state
    BY <2>1 DEF WizardInv, Tidy, StepIsShown
  <2> QED BY <2>2 DEF NoBoard, OneBoard
<1> QED BY <1>1, WizardInvHolds, PTL
-----------------------------------------------------------------------------
(* Sums over workers.                                                       *)

\* A non-empty set of numbers has a least one.
LEMMA LeastCount ==
  ASSUME NEW S \in SUBSET Nat, S # {}
  PROVE  \E m \in S : \A i \in S : m <= i
<1>1. PICK m \in S : \A i \in S : <<i, m>> \notin OpToRel(<, Nat)
  BY WFMin, NatLessThanWellFounded
<1>2. \A i \in S : m <= i
  <2> TAKE i \in S
  <2>1. i \in Nat /\ m \in Nat
    OBVIOUS
  <2>2. i < m => <<i, m>> \in OpToRel(<, Nat)
    BY <2>1 DEF OpToRel
  <2>3. ~(i < m)
    BY <2>2, <1>1
  <2> QED
    BY <2>1, <2>3
<1> QED
  BY <1>2

\* Of sets of rows there is one that has none of the others inside it: what
\* follows from it stands in for an induction on the number of rows.
LEMMA MinimalSubset ==
  ASSUME NEW S, IsFiniteSet(S), NEW Bad \in SUBSET SUBSET S, Bad # {}
  PROVE  \E m \in Bad : \A s \in Bad : s \subseteq m => s = m
<1> DEFINE Sizes == {Cardinality(s) : s \in Bad}
<1>1. \A s \in Bad : IsFiniteSet(s) /\ Cardinality(s) \in Nat
  BY FS_Subset, FS_CardinalityType
<1>2. Sizes \in SUBSET Nat /\ Sizes # {}
  BY <1>1
<1>3. PICK n \in Sizes : \A i \in Sizes : n <= i
  <2> HIDE DEF Sizes
  <2> QED
    BY <1>2, LeastCount
<1>4. PICK m \in Bad : n = Cardinality(m)
  BY <1>3
<1>5. ASSUME NEW s \in Bad, s \subseteq m
      PROVE  s = m
  <2>1. Cardinality(m) <= Cardinality(s)
    BY <1>3, <1>4
  <2>2. Cardinality(s) < Cardinality(m) \/ s = m
    BY <1>5, <1>1, FS_Subset
  <2> QED
    BY <2>1, <2>2, <1>1
<1> QED
  BY <1>5
-----------------------------------------------------------------------------
(* The sum of what workers carry.  The library folds over a worker the      *)
(* CHOOSE takes out of the set; that the sum is the same for every order is  *)
(* shown here.                                                             *)

Carried(c, ws) == MapThenSumSet(LAMBDA w : c[w].count, ws)
Picked(s) == CHOOSE x \in s : TRUE
Adds(c, f, ws) == f = [s \in SUBSET ws |-> IF s = {} THEN 0
                                            ELSE c[Picked(s)].count + f[s \ {Picked(s)}]]
Folded(c, ws) == CHOOSE f : Adds(c, f, ws)

\* What is carried, as the fold over sets that it is.
LEMMA CarriedIsFolded ==
  ASSUME NEW c, NEW ws
  PROVE  Carried(c, ws) = Folded(c, ws)[ws]
BY DEF Carried, MapThenSumSet, MapThenFoldSet, Folded, Adds, Picked

\* What is chosen from a set is in it.
LEMMA PickedIsThere ==
  ASSUME NEW s, s # {}
  PROVE  Picked(s) \in s
BY DEF Picked

\* Two foldings agree wherever both are defined.
LEMMA FoldsAgree ==
  ASSUME NEW c, NEW S, NEW T, T \subseteq S, IsFiniteSet(S), NEW f, NEW g, Adds(c, f, S), Adds(c, g, T)
  PROVE  \A s \in SUBSET T : f[s] = g[s]
<1> DEFINE Bad == {s \in SUBSET T : f[s] # g[s]}
<1>1. SUFFICES ASSUME Bad # {} PROVE FALSE
  OBVIOUS
<1>2. IsFiniteSet(T)
  BY FS_Subset
<1>3. PICK m \in Bad : \A s \in Bad : s \subseteq m => s = m
  <2>1. Bad \in SUBSET SUBSET T
    OBVIOUS
  <2> HIDE DEF Bad
  <2> QED
    BY <2>1, <1>1, <1>2, MinimalSubset
<1>4. m # {}
  BY <1>3 DEF Adds
<1>5. Picked(m) \in m
  BY <1>4, PickedIsThere
<1>6. f[m] = c[Picked(m)].count + f[m \ {Picked(m)}]
  BY <1>4, <1>3 DEF Adds
<1>7. g[m] = c[Picked(m)].count + g[m \ {Picked(m)}]
  BY <1>4, <1>3 DEF Adds
<1>8. f[m \ {Picked(m)}] = g[m \ {Picked(m)}]
  <2>1. m \ {Picked(m)} \notin Bad
    BY <1>3, <1>5
  <2> QED
    BY <2>1, <1>3
<1> QED
  BY <1>6, <1>7, <1>8, <1>3

\* Every finite set of workers has a folding.
LEMMA FoldExists ==
  ASSUME NEW c, NEW ws, IsFiniteSet(ws)
  PROVE  Adds(c, Folded(c, ws), ws)
<1> DEFINE Bad == {s \in SUBSET ws : ~ \E f : Adds(c, f, s)}
<1>1. SUFFICES ASSUME Bad # {} PROVE FALSE
  <2>1. ws \notin Bad => \E f : Adds(c, f, ws)
    OBVIOUS
  <2> QED
    BY <2>1 DEF Folded
<1>2. PICK m \in Bad : \A s \in Bad : s \subseteq m => s = m
  <2>1. Bad \in SUBSET SUBSET ws
    OBVIOUS
  <2> HIDE DEF Bad
  <2> QED
    BY <2>1, <1>1, MinimalSubset
<1>3. \A s \in SUBSET m : s # m => Adds(c, Folded(c, s), s)
  <2> SUFFICES ASSUME NEW s \in SUBSET m, s # m
               PROVE  \E f : Adds(c, f, s)
    BY DEF Folded
  <2>1. s \notin Bad /\ s \in SUBSET ws
    BY <1>2
  <2> QED
    BY <2>1
<1> DEFINE f == [s \in SUBSET m |-> IF s = {} THEN 0
                   ELSE IF s = m THEN c[Picked(m)].count + Folded(c, m \ {Picked(m)})[m \ {Picked(m)}]
                   ELSE Folded(c, s)[s]]
<1>4. ASSUME NEW s \in SUBSET m, s # {}
      PROVE  f[s] = c[Picked(s)].count + f[s \ {Picked(s)}]
  <2> DEFINE t == s \ {Picked(s)}
  <2>1. Picked(s) \in s
    BY <1>4, PickedIsThere
  <2>2. t \in SUBSET m /\ t # m /\ t \in SUBSET s /\ t # s
    BY <2>1
  <2>3. Adds(c, Folded(c, t), t)
    BY <2>2, <1>3
  <2>4. f[t] = Folded(c, t)[t]
    <3>1. CASE t = {}
      <4>1. Folded(c, t)[t] = 0
        BY <2>3, <3>1 DEF Adds
      <4> QED
        BY <4>1, <3>1, <2>2
    <3>2. CASE t # {}
      BY <3>2, <2>2
    <3> QED
      BY <3>1, <3>2
  <2>5. CASE s = m
    BY <2>4, <2>5, <1>4
  <2>6. CASE s # m
    <3>1. Adds(c, Folded(c, s), s)
      BY <2>6, <1>3
    <3>2. f[s] = Folded(c, s)[s]
      BY <1>4, <2>6
    <3>3. Folded(c, s)[s] = c[Picked(s)].count + Folded(c, s)[t]
      BY <3>1, <1>4 DEF Adds
    <3>4. IsFiniteSet(s)
      BY FS_Subset, <1>2
    <3>5. \A x \in SUBSET t : Folded(c, s)[x] = Folded(c, t)[x]
      BY <3>1, <2>3, <2>2, <3>4, FoldsAgree
    <3>6. Folded(c, s)[t] = Folded(c, t)[t]
      BY <3>5
    <3> QED
      BY <3>2, <3>3, <3>6, <2>4
  <2> QED
    BY <2>5, <2>6
<1>5. Adds(c, f, m)
  <2>1. \A s \in SUBSET m : f[s] = IF s = {} THEN 0 ELSE c[Picked(s)].count + f[s \ {Picked(s)}]
    BY <1>4
  <2>2. f = [s \in SUBSET m |-> f[s]]
    OBVIOUS
  <2> HIDE DEF f
  <2> QED
    BY <2>1, <2>2 DEF Adds
<1>6. \E g : Adds(c, g, m)
  BY <1>5
<1> QED
  BY <1>6, <1>2

\* What workers carry are finitely many numbers.
Counts(c, ws) == IsFiniteSet(ws) /\ \A w \in ws : c[w].count \in Nat

\* Nobody carries nothing.
LEMMA NobodyCarries == ASSUME NEW c PROVE Carried(c, {}) = 0
<1>1. Adds(c, Folded(c, {}), {})
  BY FS_EmptySet, FoldExists
<1>2. Folded(c, {})[{}] = 0
  BY <1>1 DEF Adds
<1> QED
  BY <1>2, CarriedIsFolded

\* What is carried is what one carries and what the rest do.
LEMMA CarriedPicks ==
  ASSUME NEW c, NEW ws, IsFiniteSet(ws), ws # {}
  PROVE  Carried(c, ws) = c[Picked(ws)].count + Carried(c, ws \ {Picked(ws)})
<1> DEFINE t == ws \ {Picked(ws)}
<1>1. IsFiniteSet(t) /\ t \in SUBSET ws
  BY FS_Subset
<1>2. Adds(c, Folded(c, ws), ws) /\ Adds(c, Folded(c, t), t)
  BY <1>1, FoldExists
<1>3. Folded(c, ws)[ws] = c[Picked(ws)].count + Folded(c, ws)[t]
  BY <1>2 DEF Adds
<1>4. \A x \in SUBSET t : Folded(c, ws)[x] = Folded(c, t)[x]
  BY <1>1, <1>2, FoldsAgree
<1>5. Folded(c, ws)[t] = Folded(c, t)[t]
  BY <1>4
<1> QED
  BY <1>3, <1>5, CarriedIsFolded

\* Finitely many counts add up to a count.
LEMMA CarriedIsNat ==
  ASSUME NEW c, NEW ws, Counts(c, ws)
  PROVE  Carried(c, ws) \in Nat
<1> DEFINE Bad == {s \in SUBSET ws : Carried(c, s) \notin Nat}
<1>1. SUFFICES ASSUME Bad # {} PROVE FALSE
  OBVIOUS
<1>2. PICK m \in Bad : \A s \in Bad : s \subseteq m => s = m
  <2>1. Bad \in SUBSET SUBSET ws
    OBVIOUS
  <2> HIDE DEF Bad
  <2> QED
    BY <2>1, <1>1, MinimalSubset DEF Counts
<1>3. m # {}
  <2>1. Carried(c, {}) \in Nat
    BY NobodyCarries
  <2>2. Carried(c, m) \notin Nat
    BY <1>2
  <2> HIDE DEF Bad
  <2> QED
    BY <2>1, <2>2
<1>4. Picked(m) \in m /\ IsFiniteSet(m)
  BY <1>3, PickedIsThere, <1>2, FS_Subset DEF Counts
<1>5. Carried(c, m \ {Picked(m)}) \in Nat
  BY <1>2, <1>4
<1>6. c[Picked(m)].count \in Nat
  BY <1>4, <1>2 DEF Counts
<1>7. Carried(c, m) = c[Picked(m)].count + Carried(c, m \ {Picked(m)})
  BY <1>3, <1>4, CarriedPicks
<1> QED
  BY <1>5, <1>6, <1>7, <1>2

\* Whichever worker is taken out, the rest and what he carries add up to the sum.
LEMMA CarriedTakesOut ==
  ASSUME NEW c, NEW ws, Counts(c, ws), NEW w \in ws
  PROVE  Carried(c, ws) = c[w].count + Carried(c, ws \ {w})
<1> DEFINE Bad == {s \in SUBSET ws : \E x \in s : Carried(c, s) # c[x].count + Carried(c, s \ {x})}
<1>1. SUFFICES ASSUME Bad # {} PROVE FALSE
  BY ws \notin Bad
<1>2. PICK m \in Bad : \A s \in Bad : s \subseteq m => s = m
  <2>1. Bad \in SUBSET SUBSET ws
    OBVIOUS
  <2> HIDE DEF Bad
  <2> QED
    BY <2>1, <1>1, MinimalSubset DEF Counts
<1>3. PICK x \in m : Carried(c, m) # c[x].count + Carried(c, m \ {x})
  BY <1>2
<1> DEFINE p == Picked(m)
<1>4. p \in m /\ m # {} /\ m \subseteq ws
  BY <1>2, <1>3, PickedIsThere
<1>5. \A s \in SUBSET m : IsFiniteSet(s) /\ Carried(c, s) \in Nat
  BY <1>4, FS_Subset, CarriedIsNat DEF Counts
<1>6. c[p].count \in Nat /\ c[x].count \in Nat
  BY <1>3, <1>4 DEF Counts
<1>7. Carried(c, m) = c[p].count + Carried(c, m \ {p})
  BY <1>4, <1>5, CarriedPicks
<1>8. p # x
  BY <1>3, <1>7
<1>9. \A s \in SUBSET m : s # m => \A y \in s : Carried(c, s) = c[y].count + Carried(c, s \ {y})
  BY <1>2, <1>4
<1>10. Carried(c, m \ {p}) = c[x].count + Carried(c, (m \ {p}) \ {x})
  BY <1>9, <1>4, <1>8
<1>11. Carried(c, m \ {x}) = c[p].count + Carried(c, (m \ {x}) \ {p})
  BY <1>9, <1>4, <1>8, <1>3
<1>12. (m \ {p}) \ {x} = (m \ {x}) \ {p}
  OBVIOUS
<1>13. Carried(c, (m \ {x}) \ {p}) \in Nat
  BY <1>5
<1>14. Carried(c, m) = c[p].count + (c[x].count + Carried(c, (m \ {x}) \ {p}))
  BY <1>7, <1>10, <1>12
<1>15. c[x].count + Carried(c, m \ {x}) = c[x].count + (c[p].count + Carried(c, (m \ {x}) \ {p}))
  BY <1>11
<1> DEFINE i == c[p].count
           j == c[x].count
           k == Carried(c, (m \ {x}) \ {p})
<1>16. i + (j + k) = j + (i + k)
  <2>1. i \in Nat /\ j \in Nat /\ k \in Nat
    BY <1>6, <1>13
  <2> HIDE DEF i, j, k
  <2> QED
    BY <2>1
<1> QED
  BY <1>3, <1>14, <1>15, <1>16

\* Only what these workers carry matters.
LEMMA CarriedAgrees ==
  ASSUME NEW c, NEW d, NEW ws, IsFiniteSet(ws), \A w \in ws : c[w].count = d[w].count
  PROVE  Carried(c, ws) = Carried(d, ws)
<1> DEFINE Bad == {s \in SUBSET ws : Carried(c, s) # Carried(d, s)}
<1>1. SUFFICES ASSUME Bad # {} PROVE FALSE
  OBVIOUS
<1>2. PICK m \in Bad : \A s \in Bad : s \subseteq m => s = m
  <2>1. Bad \in SUBSET SUBSET ws
    OBVIOUS
  <2> HIDE DEF Bad
  <2> QED
    BY <2>1, <1>1, MinimalSubset
<1>3. m # {} /\ m \subseteq ws
  <2>1. Carried(c, {}) = Carried(d, {})
    BY NobodyCarries
  <2>2. m \in SUBSET ws /\ Carried(c, m) # Carried(d, m)
    BY <1>2
  <2> HIDE DEF Bad
  <2> QED
    BY <2>1, <2>2
<1>4. IsFiniteSet(m) /\ Picked(m) \in m
  BY <1>3, FS_Subset, PickedIsThere
<1>5. Carried(c, m \ {Picked(m)}) = Carried(d, m \ {Picked(m)})
  BY <1>2, <1>4
<1>6. Carried(c, m) = c[Picked(m)].count + Carried(c, m \ {Picked(m)})
  BY <1>3, <1>4, CarriedPicks
<1>7. Carried(d, m) = d[Picked(m)].count + Carried(d, m \ {Picked(m)})
  BY <1>3, <1>4, CarriedPicks
<1> QED
  BY <1>2, <1>3, <1>4, <1>5, <1>6, <1>7
-----------------------------------------------------------------------------
(* Whether a notice reaches its user (module Delivery).                     *)

Stops == {"idle", "gate", "digest_incr", "digest_expire", "digest_emit", "decision", "defer",
           "defer_expire", "pop", "send"}
Call == [at : Stops, event : Events \cup {"none"}, count : Nat]

\* A notice has a count of its own only while it is counted or sent.
Placed(v) ==
  /\ v.at # "idle" => v.event \in Events
  /\ v.at \in {"gate", "decision", "defer", "defer_expire", "pop"} => v.count = 0

Busy(c) == {w \in Workers : c[w].at # "idle"}

CallsAreSound(c) ==
  c \in [Workers -> Call] /\ IsFiniteSet(Busy(c)) /\ \A w \in Workers : Placed(c[w])

Keys == [debounce : Nat, count : Key, emit : Nat, deferred : [Events -> Key]]

HistIsSound(h) ==
  /\ h = [f \in {"begun", "sent", "suppressed", "aborted", "deferred", "told", "passed", "lost",
                 "digested"} |-> h[f]]
  /\ h.deferred \in [Events -> Nat] /\ h.told \in [Events -> Nat]
  /\ h.passed \in Nat /\ h.lost \in Nat

\* How many deferred notices worker's call v is about to tell of event e, and
\* how many all calls are.
InHand(v, e) == IF v.at = "send" /\ v.event = e THEN v.count ELSE 0
Senders(c, e) == {w \in Workers : c[w].at = "send" /\ c[w].event = e}
Owed(c, e) == Carried(c, Senders(c, e))

\* Each deferred notice is told, counted or in somebody's hands, once.
Accounted(h, r, c) == \A e \in Events : h.told[e] + r.deferred[e].n + Owed(c, e) <= h.deferred[e]

Ends_in_time(h, r) ==
  Held(r.debounce) => r.debounce <= h.passed + DebounceTtl \/ r.debounce <= h.lost + DebounceTtl

DeliveryInv ==
  /\ now \in Nat /\ redis \in Keys /\ HistIsSound(hist) /\ CallsAreSound(call)
  /\ Accounted(hist, redis, call) /\ Ends_in_time(hist, redis)

\* What is owed, with one worker set apart.
LEMMA OwedBesides ==
  ASSUME NEW c, CallsAreSound(c), NEW w \in Workers, NEW e
  PROVE  /\ IsFiniteSet(Senders(c, e) \ {w}) /\ Carried(c, Senders(c, e) \ {w}) \in Nat
         /\ InHand(c[w], e) \in Nat
         /\ Owed(c, e) = InHand(c[w], e) + Carried(c, Senders(c, e) \ {w})
<1> DEFINE S == Senders(c, e)
<1>1. IsFiniteSet(S) /\ IsFiniteSet(S \ {w})
  <2>1. S \subseteq Busy(c) /\ S \ {w} \subseteq Busy(c)
    BY DEF Senders, Busy
  <2> QED BY <2>1, FS_Subset DEF CallsAreSound
<1>2. \A x \in Workers : c[x].count \in Nat
  BY DEF CallsAreSound, Call
<1>3. Counts(c, S) /\ Counts(c, S \ {w})
  BY <1>1, <1>2 DEF Counts, Senders
<1>4. Carried(c, S \ {w}) \in Nat
  BY <1>3, CarriedIsNat
<1>5. CASE w \in S
  <2>1. Carried(c, S) = c[w].count + Carried(c, S \ {w})
    BY <1>3, <1>5, CarriedTakesOut
  <2>2. InHand(c[w], e) = c[w].count
    BY <1>5 DEF Senders, InHand
  <2>3. Owed(c, e) = InHand(c[w], e) + Carried(c, S \ {w})
    BY <2>1, <2>2 DEF Owed
  <2>4. InHand(c[w], e) \in Nat
    BY <1>2, <2>2
  <2> QED BY <1>1, <1>4, <2>3, <2>4
<1>6. CASE w \notin S
  <2>1. S \ {w} = S
    BY <1>6
  <2>2. InHand(c[w], e) = 0
    BY <1>6 DEF Senders, InHand
  <2>3. Owed(c, e) = Carried(c, S \ {w})
    BY <2>1 DEF Owed
  <2> HIDE DEF S
  <2>4. Owed(c, e) = InHand(c[w], e) + Carried(c, S \ {w})
    BY <1>4, <2>2, <2>3
  <2> QED BY <1>1, <1>4, <2>2, <2>4 DEF S
<1> QED BY <1>5, <1>6

\* What is owed is a number.
LEMMA OwedIsNat == ASSUME NEW c, CallsAreSound(c), NEW e PROVE Owed(c, e) \in Nat
<1>1. Senders(c, e) \subseteq Busy(c)
  BY DEF Senders, Busy
<1>2. IsFiniteSet(Senders(c, e))
  BY <1>1, FS_Subset DEF CallsAreSound
<1>3. Counts(c, Senders(c, e))
  BY <1>2 DEF Counts, Senders, CallsAreSound, Call
<1> QED BY <1>3, CarriedIsNat DEF Owed

\* What is owed changes by what the one call has in hand.
OwedMoved(c, d, w, v, e) ==
  /\ Owed(c, e) \in Nat /\ InHand(c[w], e) \in Nat /\ InHand(v, e) \in Nat
  /\ Owed(d, e) + InHand(c[w], e) = Owed(c, e) + InHand(v, e)

\* One call moves on.
LEMMA OwedMoves ==
  ASSUME NEW c, CallsAreSound(c), NEW w \in Workers, NEW v \in Call, Placed(v), NEW e,
         NEW d \in [Workers -> Call], d[w] = v, \A x \in Workers \ {w} : d[x] = c[x]
  PROVE  CallsAreSound(d) /\ OwedMoved(c, d, w, v, e)
<1>1. d \in [Workers -> Call] /\ d[w] = v /\ \A x \in Workers \ {w} : d[x] = c[x]
  OBVIOUS
<1>2. CallsAreSound(d)
  <2>1. Busy(d) \subseteq Busy(c) \cup {w}
    BY <1>1 DEF Busy
  <2>2. IsFiniteSet(Busy(c) \cup {w})
    BY FS_AddElement DEF CallsAreSound
  <2>3. IsFiniteSet(Busy(d))
    BY <2>1, <2>2, FS_Subset
  <2> QED BY <1>1, <2>3 DEF CallsAreSound
<1>3. Senders(d, e) \ {w} = Senders(c, e) \ {w}
  BY <1>1 DEF Senders
<1>4. Carried(c, Senders(c, e) \ {w}) = Carried(d, Senders(c, e) \ {w})
  <2> DEFINE ws == Senders(c, e) \ {w}
  <2>1. IsFiniteSet(ws)
    BY OwedBesides
  <2>2. \A x \in ws : c[x].count = d[x].count
    BY <1>1 DEF Senders
  <2> HIDE DEF ws
  <2>3. Carried(c, ws) = Carried(d, ws)
    BY <2>1, <2>2, CarriedAgrees
  <2> QED BY <2>3 DEF ws
<1>5. /\ Carried(c, Senders(c, e) \ {w}) \in Nat /\ InHand(c[w], e) \in Nat
      /\ Owed(c, e) = InHand(c[w], e) + Carried(c, Senders(c, e) \ {w})
  BY OwedBesides
<1>6. /\ InHand(v, e) \in Nat /\ Owed(d, e) = InHand(v, e) + Carried(d, Senders(d, e) \ {w})
  BY <1>1, <1>2, OwedBesides
<1> DEFINE rest == Carried(c, Senders(c, e) \ {w})
           i == InHand(c[w], e)
           j == InHand(v, e)
           k == Owed(d, e)
           l == Owed(c, e)
<1>7. rest \in Nat /\ i \in Nat /\ j \in Nat /\ l = i + rest /\ k = j + rest
  BY <1>3, <1>4, <1>5, <1>6
<1> HIDE DEF rest, i, j, k, l
<1>8. l \in Nat /\ k + i = l + j
  BY <1>7
<1> QED BY <1>2, <1>7, <1>8 DEF OwedMoved, i, j, k, l

\* One call moves on, and what it takes in hand comes from the count in Redis
\* or was told.
LEMMA CallMoves ==
  ASSUME DeliveryInv, NEW w \in Workers, NEW v \in Call, Placed(v), call' = [call EXCEPT ![w] = v],
         UNCHANGED now, redis' \in Keys, HistIsSound(hist'), Ends_in_time(hist', redis'),
         \A e \in Events :
           hist'.told[e] + redis'.deferred[e].n + InHand(v, e) + hist.deferred[e]
             <= hist.told[e] + redis.deferred[e].n + InHand(call[w], e) + hist'.deferred[e]
  PROVE  DeliveryInv'
<1>1. CallsAreSound(call) /\ Accounted(hist, redis, call) /\ HistIsSound(hist) /\ redis \in Keys
  BY DEF DeliveryInv
<1>2. /\ CallsAreSound(call')
      /\ call' \in [Workers -> Call] /\ call'[w] = v /\ \A x \in Workers \ {w} : call'[x] = call[x]
  <2>1. call' \in [Workers -> Call] /\ call'[w] = v /\ \A x \in Workers \ {w} : call'[x] = call[x]
    BY <1>1 DEF CallsAreSound
  <2> QED BY <1>1, <2>1, OwedMoves
<1>5. ASSUME NEW e
      PROVE  OwedMoved(call, call', w, v, e)
  BY <1>1, <1>2, OwedMoves
<1>3. ASSUME NEW e \in Events
      PROVE  hist'.told[e] + redis'.deferred[e].n + Owed(call', e) <= hist'.deferred[e]
  <2> DEFINE i == InHand(call[w], e)
             j == InHand(v, e)
             k == Owed(call', e)
             l == Owed(call, e)
             t == hist.told[e]
             u == hist'.told[e]
             m == redis.deferred[e].n
             n == redis'.deferred[e].n
             p == hist.deferred[e]
             q == hist'.deferred[e]
  <2>1. l \in Nat /\ i \in Nat /\ j \in Nat /\ k + i = l + j
    BY <1>5 DEF OwedMoved
  <2>2. t \in Nat /\ u \in Nat /\ p \in Nat /\ q \in Nat
    BY <1>1 DEF HistIsSound
  <2>3. m \in Nat /\ n \in Nat
    BY <1>1 DEF Keys, Key
  <2>4. t + m + l <= p
    BY <1>1 DEF Accounted
  <2>5. u + n + j + p <= t + m + i + q
    OBVIOUS
  <2>6. k \in Nat
    <3>1. /\ Carried(call', Senders(call', e) \ {w}) \in Nat /\ InHand(call'[w], e) \in Nat
          /\ Owed(call', e) = InHand(call'[w], e) + Carried(call', Senders(call', e) \ {w})
      BY <1>2, OwedBesides, Zenon
    <3> QED BY <3>1
  <2> HIDE DEF i, j, k, l, t, u, m, n, p, q
  <2>7. u + n + k <= q
    BY <2>1, <2>2, <2>3, <2>4, <2>5, <2>6
  <2> QED BY <2>7 DEF k, u, n, q
<1>4. Accounted(hist', redis', call')
  BY <1>3 DEF Accounted
<1> QED BY <1>2, <1>4 DEF DeliveryInv

\* What every call under way is made of.
LEMMA CallHas ==
  ASSUME DeliveryInv, NEW w \in Workers
  PROVE  /\ call[w] \in Call /\ Placed(call[w])
         /\ call[w].at # "idle" => call[w].event \in Events
         /\ redis \in Keys /\ HistIsSound(hist) /\ Ends_in_time(hist, redis) /\ now \in Nat
BY DEF DeliveryInv, CallsAreSound, Placed

\* Nothing in hand, or no less than in hand before.
LEMMA InHandIs ==
  ASSUME NEW v \in Call, NEW e
  PROVE  InHand(v, e) \in Nat /\ (v.at # "send" \/ v.event # e => InHand(v, e) = 0)
         /\ (v.at = "send" /\ v.event = e => InHand(v, e) = v.count)
BY DEF InHand, Call

\* Nobody tells anything new, and no count is raised.
LEMMA QuietCallMoves ==
  ASSUME DeliveryInv, NEW w \in Workers, NEW v \in Call, Placed(v), call' = [call EXCEPT ![w] = v],
         UNCHANGED now, redis' \in Keys, redis'.deferred = redis.deferred, HistIsSound(hist'),
         hist'.told = hist.told, hist'.deferred = hist.deferred, Ends_in_time(hist', redis'),
         v.at # "send" \/ v.count = 0
  PROVE  DeliveryInv'
<1>1. ASSUME NEW e \in Events
      PROVE  hist'.told[e] + redis'.deferred[e].n + InHand(v, e) + hist.deferred[e]
               <= hist.told[e] + redis.deferred[e].n + InHand(call[w], e) + hist'.deferred[e]
  <2> DEFINE i == InHand(call[w], e)
             t == hist.told[e]
             m == redis.deferred[e].n
             p == hist.deferred[e]
  <2>1. InHand(v, e) = 0 /\ i \in Nat
    BY CallHas, InHandIs
  <2>2. t \in Nat /\ m \in Nat /\ p \in Nat
    BY CallHas DEF HistIsSound, Keys, Key
  <2>3. hist'.told[e] = t /\ redis'.deferred[e].n = m /\ hist'.deferred[e] = p
    OBVIOUS
  <2> HIDE DEF i, t, m, p
  <2> QED BY <2>1, <2>2, <2>3 DEF i, t, m, p
<1> QED BY <1>1, CallMoves

\* A call at another place and with another count.
Moved(v, p, n) == [at |-> p, event |-> v.event, count |-> n]

LEMMA MovedIs ==
  ASSUME DeliveryInv, NEW w \in Workers, call[w].at # "idle", NEW p \in Stops, NEW n \in Nat,
         p \in {"gate", "decision", "defer", "defer_expire", "pop"} => n = 0
  PROVE  /\ Moved(call[w], p, n) \in Call /\ Placed(Moved(call[w], p, n))
         /\ Moved(call[w], p, n).at = p /\ Moved(call[w], p, n).count = n
         /\ Moved(call[w], p, n).event = call[w].event /\ call[w].event \in Events
BY CallHas DEF Moved, Placed, Call

\* A call that only goes to another place keeps its count.
LEMMA CallGoes ==
  ASSUME DeliveryInv, NEW w \in Workers, NEW p, Goes(w, p)
  PROVE  call' = [call EXCEPT ![w] = Moved(call[w], p, call[w].count)]
<1>1. call[w] \in Call /\ call \in [Workers -> Call]
  BY CallHas DEF DeliveryInv, CallsAreSound
<1>2. [call[w] EXCEPT !.at = p] = Moved(call[w], p, call[w].count)
  BY <1>1 DEF Call, Moved
<1> QED BY <1>2 DEF Goes

\* A call that goes to another place with a new count.
GoesWith(w, p, n) == call' = [call EXCEPT ![w].at = p, ![w].count = n]

LEMMA CallCounts ==
  ASSUME DeliveryInv, NEW w \in Workers, NEW p, NEW n, GoesWith(w, p, n)
  PROVE  call' = [call EXCEPT ![w] = Moved(call[w], p, n)]
<1>1. call[w] \in Call /\ call \in [Workers -> Call]
  BY CallHas DEF DeliveryInv, CallsAreSound
<1> DEFINE c == call[w]
           d == [[c EXCEPT !.at = p] EXCEPT !.count = n]
<1>2. d = Moved(c, p, n)
  <2>1. c = [f \in {"at", "event", "count"} |-> c[f]] /\ DOMAIN c = {"at", "event", "count"}
    BY <1>1 DEF Call
  <2> HIDE DEF c
  <2>2. DOMAIN d = {"at", "event", "count"} /\ d["at"] = p /\ d["event"] = c["event"] /\ d["count"] = n
    BY <2>1
  <2>3. d = [f \in {"at", "event", "count"} |-> d[f]]
    BY <2>1
  <2>4. Moved(c, p, n) = [f \in {"at", "event", "count"} |->
                            IF f = "at" THEN p ELSE IF f = "event" THEN c["event"] ELSE n]
    BY DEF Moved
  <2> HIDE DEF d
  <2> QED BY <2>2, <2>3, <2>4
<1>3. call' = [call EXCEPT ![w] = d]
  BY <1>1 DEF GoesWith
<1> QED BY <1>2, <1>3

\* Nobody in charge of a notice has a call at rest.
LEMMA NoNoticeIs == NoNotice \in Call /\ Placed(NoNotice) /\ NoNotice.at = "idle" /\ NoNotice.count = 0
BY DEF NoNotice, Call, Placed, Stops

\* What the history becomes when something is only counted.
LEMMA CountedOnly ==
  ASSUME HistIsSound(hist), NEW k \in {"begun", "sent", "suppressed", "aborted"}, Recorded(k)
  PROVE  HistIsSound(hist') /\ hist'.told = hist.told /\ hist'.deferred = hist.deferred
         /\ hist'.passed = hist.passed /\ hist'.lost = hist.lost
BY DEF HistIsSound, Recorded

\* A notice starts.
LEMMA BeginNoticeInv == ASSUME DeliveryInv, NEW w \in Workers, NEW e \in Events, begin_notice(w, e)
                        PROVE  DeliveryInv'
<1> DEFINE v == [NoNotice EXCEPT !.at = IF e = "outbid" THEN "gate" ELSE "decision", !.event = e]
<1>1. v \in Call /\ Placed(v) /\ v.at # "send"
  BY DEF NoNotice, Call, Placed, Stops
<1>2. call' = [call EXCEPT ![w] = v] /\ Recorded("begun") /\ UNCHANGED <<now, redis>>
  BY DEF begin_notice, Quiet
<1>3. HistIsSound(hist') /\ hist'.told = hist.told /\ hist'.deferred = hist.deferred
      /\ hist'.passed = hist.passed /\ hist'.lost = hist.lost
  BY <1>2, CallHas, CountedOnly
<1>4. redis' \in Keys /\ redis'.deferred = redis.deferred /\ Ends_in_time(hist', redis')
  BY <1>2, <1>3, CallHas DEF Ends_in_time
<1> HIDE DEF v
<1> QED BY <1>1, <1>2, <1>3, <1>4, QuietCallMoves

\* The debounce lets a notice through and starts anew, or sends it to the digest.
LEMMA DebounceInv ==
  ASSUME DeliveryAssumption, DeliveryInv, NEW w \in Workers, acquire_outbid_notification_debounce(w)
  PROVE  DeliveryInv'
<1>1. call[w].at = "gate" /\ call[w].count = 0 /\ UNCHANGED now
  BY CallHas DEF acquire_outbid_notification_debounce, WorkerAt, Quiet, Placed
<1>2. now \in Nat /\ redis \in Keys /\ HistIsSound(hist) /\ Ends_in_time(hist, redis) /\ DebounceTtl \in Nat
  BY CallHas DEF DeliveryAssumption
<1>3. CASE Held(redis.debounce)
  <2>1. Goes(w, "digest_incr") /\ Recorded("suppressed") /\ UNCHANGED redis
    BY <1>3 DEF acquire_outbid_notification_debounce
  <2>2. call' = [call EXCEPT ![w] = Moved(call[w], "digest_incr", 0)]
    BY <1>1, <2>1, CallGoes
  <2>3. HistIsSound(hist') /\ hist'.told = hist.told /\ hist'.deferred = hist.deferred
        /\ hist'.passed = hist.passed /\ hist'.lost = hist.lost
    BY <1>2, <2>1, CountedOnly
  <2>4. Ends_in_time(hist', redis')
    BY <1>2, <2>1, <2>3 DEF Ends_in_time
  <2>5. /\ Moved(call[w], "digest_incr", 0) \in Call /\ Placed(Moved(call[w], "digest_incr", 0))
        /\ Moved(call[w], "digest_incr", 0).at # "send"
    BY <1>1, MovedIs DEF Stops
  <2> QED BY <1>1, <1>2, <2>1, <2>2, <2>3, <2>4, <2>5, QuietCallMoves
<1>4. CASE ~Held(redis.debounce)
  <2>1. /\ Goes(w, "decision") /\ hist' = [hist EXCEPT !.passed = now]
        /\ redis' = [redis EXCEPT !.debounce = Deadline(DebounceTtl)]
    BY <1>4 DEF acquire_outbid_notification_debounce
  <2>2. call' = [call EXCEPT ![w] = Moved(call[w], "decision", 0)]
    BY <1>1, <2>1, CallGoes
  <2>3. HistIsSound(hist') /\ hist'.told = hist.told /\ hist'.deferred = hist.deferred
        /\ hist'.passed = now /\ hist'.lost = hist.lost
    BY <1>2, <2>1 DEF HistIsSound
  <2>4. redis' \in Keys /\ redis'.deferred = redis.deferred /\ redis'.debounce = now + DebounceTtl
    BY <1>2, <2>1 DEF Keys, Deadline
  <2>5. Ends_in_time(hist', redis')
    BY <1>2, <2>3, <2>4 DEF Ends_in_time
  <2>6. /\ Moved(call[w], "decision", 0) \in Call /\ Placed(Moved(call[w], "decision", 0))
        /\ Moved(call[w], "decision", 0).at # "send"
    BY <1>1, MovedIs DEF Stops
  <2> QED BY <1>1, <2>2, <2>3, <2>4, <2>5, <2>6, QuietCallMoves
<1> QED BY <1>3, <1>4

\* The three calls of the digest touch no deferred count.
LEMMA DigestInv ==
  ASSUME DeliveryAssumption, DeliveryInv, NEW w \in Workers,
         digest_incr(w) \/ digest_expire(w) \/ digest_emit(w)
  PROVE  DeliveryInv'
<1>1. UNCHANGED now /\ call[w].at # "idle" /\ now \in Nat /\ redis \in Keys /\ HistIsSound(hist)
      /\ Ends_in_time(hist, redis) /\ DigestWindow \in Nat /\ call \in [Workers -> Call]
  BY CallHas DEF digest_incr, digest_expire, digest_emit, Quiet, WorkerAt, DeliveryAssumption,
                 DeliveryInv, CallsAreSound
<1>2. CASE digest_incr(w)
  <2> DEFINE n == redis.count.n + 1
             p == IF n = 1 THEN "digest_expire" ELSE "digest_emit"
             end == IF n = 1 THEN Never ELSE redis.count.end
  <2>1. n \in Nat /\ Never \in Nat /\ end \in Nat
    BY <1>1 DEF Keys, Key, Never, DeliveryAssumption
  <2>2. /\ redis' = [redis EXCEPT !.count = [n |-> n, end |-> end]]
        /\ call' = [call EXCEPT ![w].at = p, ![w].count = n]
        /\ hist' = [hist EXCEPT !.digested = @ /\ n # 1]
    BY <1>2, <1>1 DEF digest_incr, Keys
  <2>3. p \in Stops /\ p \notin {"send", "gate", "decision", "defer", "defer_expire", "pop"}
    BY DEF Stops
  <2> HIDE DEF p, end
  <2>4. call' = [call EXCEPT ![w] = Moved(call[w], p, n)]
    <3>1. GoesWith(w, p, n)
      BY <2>2 DEF GoesWith
    <3> QED BY <3>1, CallCounts
  <2>5. HistIsSound(hist') /\ hist'.told = hist.told /\ hist'.deferred = hist.deferred
        /\ hist'.passed = hist.passed /\ hist'.lost = hist.lost
    BY <1>1, <2>2 DEF HistIsSound
  <2>6. redis' \in Keys /\ redis'.deferred = redis.deferred /\ redis'.debounce = redis.debounce
    BY <1>1, <2>1, <2>2 DEF Keys, Key
  <2>7. Ends_in_time(hist', redis')
    BY <1>1, <2>5, <2>6 DEF Ends_in_time
  <2>8. /\ Moved(call[w], p, n) \in Call /\ Placed(Moved(call[w], p, n))
        /\ Moved(call[w], p, n).at # "send"
    BY <1>1, <2>1, <2>3, MovedIs
  <2> QED BY <1>1, <2>4, <2>5, <2>6, <2>7, <2>8, QuietCallMoves
<1>3. CASE digest_expire(w)
  <2>1. redis' = [redis EXCEPT !.count.end = now + DigestWindow] /\ Ends(w) /\ UNCHANGED hist
    BY <1>3 DEF digest_expire, Deadline
  <2>2. redis' \in Keys /\ redis'.deferred = redis.deferred /\ redis'.debounce = redis.debounce
    BY <1>1, <2>1 DEF Keys, Key
  <2>3. Ends_in_time(hist', redis')
    BY <1>1, <2>1, <2>2 DEF Ends_in_time
  <2> QED BY <1>1, <2>1, <2>2, <2>3, NoNoticeIs, QuietCallMoves DEF Ends
<1>4. CASE digest_emit(w)
  <2>1. CASE Held(redis.emit)
    BY <1>1, <1>4, <2>1, NoNoticeIs, QuietCallMoves DEF digest_emit, Ends
  <2>2. CASE ~Held(redis.emit)
    <3>1. /\ redis' = [redis EXCEPT !.emit = now + DigestWindow]
          /\ call' = [call EXCEPT ![w].at = "decision", ![w].count = 0]
          /\ hist' = [hist EXCEPT !.digested = TRUE, !.begun = @ + 1]
      BY <1>4, <2>2 DEF digest_emit, Deadline
    <3>2. call' = [call EXCEPT ![w] = Moved(call[w], "decision", 0)]
      <4>1. GoesWith(w, "decision", 0)
        BY <3>1 DEF GoesWith
      <4> QED BY <4>1, CallCounts
    <3>3. HistIsSound(hist') /\ hist'.told = hist.told /\ hist'.deferred = hist.deferred
          /\ hist'.passed = hist.passed /\ hist'.lost = hist.lost
      BY <1>1, <3>1 DEF HistIsSound
    <3>4. redis' \in Keys /\ redis'.deferred = redis.deferred /\ redis'.debounce = redis.debounce
      BY <1>1, <3>1 DEF Keys
    <3>5. Ends_in_time(hist', redis')
      BY <1>1, <3>3, <3>4 DEF Ends_in_time
    <3>6. /\ Moved(call[w], "decision", 0) \in Call /\ Placed(Moved(call[w], "decision", 0))
          /\ Moved(call[w], "decision", 0).at # "send"
      BY <1>1, MovedIs DEF Stops
    <3> QED BY <1>1, <3>2, <3>3, <3>4, <3>5, <3>6, QuietCallMoves
  <2> QED BY <2>1, <2>2
<1> QED BY <1>2, <1>3, <1>4

\* The decision lets a notice pass, puts it off or drops it.
LEMMA DecideInv == ASSUME DeliveryInv, NEW w \in Workers, decide(w) PROVE DeliveryInv'
<1>1. /\ call[w].at = "decision" /\ call[w].count = 0 /\ UNCHANGED <<now, redis>>
      /\ redis \in Keys /\ HistIsSound(hist) /\ Ends_in_time(hist, redis)
  BY CallHas DEF decide, WorkerAt, Quiet, Placed
<1>2. \/ Goes(w, "pop") /\ UNCHANGED hist
      \/ Goes(w, "defer") /\ Recorded("suppressed")
      \/ Ends(w) /\ Recorded("suppressed")
  BY DEF decide
<1>3. ASSUME NEW k \in {"pop", "defer"}, Goes(w, k)
      PROVE  /\ call' = [call EXCEPT ![w] = Moved(call[w], k, 0)]
             /\ Moved(call[w], k, 0) \in Call /\ Placed(Moved(call[w], k, 0))
             /\ Moved(call[w], k, 0).at # "send"
  BY <1>1, <1>3, CallGoes, MovedIs DEF Stops
<1>4. /\ HistIsSound(hist') /\ hist'.told = hist.told /\ hist'.deferred = hist.deferred
      /\ hist'.passed = hist.passed /\ hist'.lost = hist.lost
  BY <1>1, <1>2, CountedOnly
<1>5. Ends_in_time(hist', redis')
  BY <1>1, <1>4 DEF Ends_in_time
<1>6. CASE \E k \in {"pop", "defer"} : Goes(w, k)
  BY <1>1, <1>3, <1>4, <1>5, <1>6, QuietCallMoves
<1>7. CASE Ends(w)
  BY <1>1, <1>4, <1>5, <1>7, NoNoticeIs, QuietCallMoves DEF Ends
<1> QED BY <1>2, <1>6, <1>7

\* A notice that is put off is counted in Redis and in the history.
LEMMA DeferInv ==
  ASSUME DeliveryAssumption, DeliveryInv, NEW w \in Workers, defer_notification_event(w)
  PROVE  DeliveryInv'
<1> DEFINE e == call[w].event
           key == [n |-> redis.deferred[e].n + 1,
                   end |-> IF redis.deferred[e].n = 0 THEN Never ELSE redis.deferred[e].end]
<1>1. /\ call[w].at = "defer" /\ call[w].count = 0 /\ UNCHANGED now /\ e \in Events
      /\ redis \in Keys /\ HistIsSound(hist) /\ Ends_in_time(hist, redis)
  BY CallHas DEF defer_notification_event, WorkerAt, Quiet, Placed
<1>2. /\ redis' = [redis EXCEPT !.deferred = [redis.deferred EXCEPT ![e] = key]]
      /\ hist' = [hist EXCEPT !.deferred = [hist.deferred EXCEPT ![e] = hist.deferred[e] + 1]]
      /\ Goes(w, "defer_expire")
  BY <1>1 DEF defer_notification_event, Keys, HistIsSound
<1>3. key \in Key /\ key.n = redis.deferred[e].n + 1
  <2>1. Never \in Nat
    BY DEF Never, DeliveryAssumption
  <2>2. redis.deferred[e].n \in Nat /\ redis.deferred[e].end \in Nat
    BY <1>1 DEF Keys, Key
  <2> QED BY <2>1, <2>2 DEF Key
<1> HIDE DEF key
<1>4. /\ call' = [call EXCEPT ![w] = Moved(call[w], "defer_expire", 0)]
      /\ Moved(call[w], "defer_expire", 0) \in Call /\ Placed(Moved(call[w], "defer_expire", 0))
      /\ Moved(call[w], "defer_expire", 0).at # "send"
  BY <1>1, <1>2, CallGoes, MovedIs DEF Stops
<1>5. /\ redis' \in Keys /\ redis'.debounce = redis.debounce
      /\ redis'.deferred = [redis.deferred EXCEPT ![e] = key]
  BY <1>1, <1>2, <1>3 DEF Keys
<1>6. /\ HistIsSound(hist') /\ hist'.told = hist.told /\ hist'.passed = hist.passed /\ hist'.lost = hist.lost
      /\ hist'.deferred = [hist.deferred EXCEPT ![e] = hist.deferred[e] + 1]
  BY <1>1, <1>2 DEF HistIsSound
<1>7. Ends_in_time(hist', redis')
  BY <1>1, <1>5, <1>6 DEF Ends_in_time
<1>8. ASSUME NEW f \in Events
      PROVE  hist'.told[f] + redis'.deferred[f].n + InHand(Moved(call[w], "defer_expire", 0), f)
               + hist.deferred[f]
               <= hist.told[f] + redis.deferred[f].n + InHand(call[w], f) + hist'.deferred[f]
  <2> DEFINE i == InHand(call[w], f)
             t == hist.told[f]
             m == redis.deferred[f].n
             p == hist.deferred[f]
             n == redis'.deferred[f].n
             q == hist'.deferred[f]
  <2>1. InHand(Moved(call[w], "defer_expire", 0), f) = 0 /\ i \in Nat
    BY <1>4, CallHas, InHandIs
  <2>2. t \in Nat /\ m \in Nat /\ p \in Nat /\ hist'.told[f] = t
    BY <1>1, <1>6 DEF HistIsSound, Keys, Key
  <2>3. (n = m /\ q = p) \/ (n = m + 1 /\ q = p + 1)
    BY <1>1, <1>3, <1>5, <1>6 DEF HistIsSound, Keys
  <2> HIDE DEF i, t, m, p, n, q
  <2> QED BY <2>1, <2>2, <2>3 DEF i, t, m, p, n, q
<1> QED BY <1>1, <1>4, <1>5, <1>6, <1>7, <1>8, CallMoves

\* The deadline of the count is set; the count stays.
LEMMA DeferExpireInv ==
  ASSUME DeliveryAssumption, DeliveryInv, NEW w \in Workers, defer_expire(w)
  PROVE  DeliveryInv'
<1> DEFINE e == call[w].event
           key == [redis.deferred[e] EXCEPT !.end = IF redis.deferred[e].n = 0 THEN 0
                                                    ELSE Deadline(DeferTtl)]
<1>1. /\ UNCHANGED <<now, hist>> /\ e \in Events /\ Ends(w)
      /\ redis \in Keys /\ HistIsSound(hist) /\ Ends_in_time(hist, redis) /\ now \in Nat
  BY CallHas DEF defer_expire, WorkerAt, Quiet
<1>2. redis' = [redis EXCEPT !.deferred = [redis.deferred EXCEPT ![e] = key]]
  BY <1>1 DEF defer_expire, Keys
<1>3. key \in Key /\ key.n = redis.deferred[e].n
  BY <1>1 DEF Keys, Key, Deadline, DeliveryAssumption
<1> HIDE DEF key
<1>4. /\ redis' \in Keys /\ redis'.debounce = redis.debounce
      /\ \A f \in Events : redis'.deferred[f].n = redis.deferred[f].n
  BY <1>1, <1>2, <1>3 DEF Keys
<1>5. Ends_in_time(hist', redis')
  BY <1>1, <1>4 DEF Ends_in_time
<1>6. ASSUME NEW f \in Events
      PROVE  hist'.told[f] + redis'.deferred[f].n + InHand(NoNotice, f) + hist.deferred[f]
               <= hist.told[f] + redis.deferred[f].n + InHand(call[w], f) + hist'.deferred[f]
  <2> DEFINE i == InHand(call[w], f)
             t == hist.told[f]
             m == redis.deferred[f].n
             p == hist.deferred[f]
  <2>1. InHand(NoNotice, f) = 0 /\ i \in Nat
    BY NoNoticeIs, CallHas, InHandIs
  <2>2. t \in Nat /\ m \in Nat /\ p \in Nat
    BY <1>1 DEF HistIsSound, Keys, Key
  <2>3. hist'.told[f] = t /\ redis'.deferred[f].n = m /\ hist'.deferred[f] = p
    BY <1>1, <1>4
  <2> HIDE DEF i, t, m, p
  <2> QED BY <2>1, <2>2, <2>3 DEF i, t, m, p
<1> QED BY <1>1, <1>4, <1>5, <1>6, NoNoticeIs, CallMoves DEF Ends

\* The count is taken out of Redis and in hand, or lost on the way.
LEMMA PopInv ==
  ASSUME DeliveryInv, NEW w \in Workers, pop_deferred_notification_count(w)
  PROVE  DeliveryInv'
<1> DEFINE e == call[w].event
<1>1. /\ call[w].at = "pop" /\ call[w].count = 0 /\ UNCHANGED <<now, hist>> /\ e \in Events
      /\ redis \in Keys /\ HistIsSound(hist) /\ Ends_in_time(hist, redis)
  BY CallHas DEF pop_deferred_notification_count, WorkerAt, Quiet, Placed
<1>2. PICK n \in {redis.deferred[e].n, 0} : GoesWith(w, "send", n)
  BY DEF pop_deferred_notification_count, GoesWith
<1>3. redis.deferred[e].n \in Nat /\ n \in Nat /\ n <= redis.deferred[e].n
  <2>1. redis.deferred[e].n \in Nat
    BY <1>1 DEF Keys, Key
  <2> QED BY <2>1, <1>2
<1> DEFINE v == Moved(call[w], "send", n)
<1>4. call' = [call EXCEPT ![w] = v]
  BY <1>2, CallCounts
<1>5. v \in Call /\ Placed(v) /\ v.at = "send" /\ v.event = e /\ v.count = n
  BY <1>1, <1>3, MovedIs DEF Stops
<1> HIDE DEF v
<1>6. /\ redis' \in Keys /\ redis'.debounce = redis.debounce
      /\ redis'.deferred = [redis.deferred EXCEPT ![e] = Absent]
  BY <1>1 DEF pop_deferred_notification_count, Keys, Key, Absent
<1>7. Ends_in_time(hist', redis')
  BY <1>1, <1>6 DEF Ends_in_time
<1>8. ASSUME NEW f \in Events
      PROVE  hist'.told[f] + redis'.deferred[f].n + InHand(v, f) + hist.deferred[f]
               <= hist.told[f] + redis.deferred[f].n + InHand(call[w], f) + hist'.deferred[f]
  <2> DEFINE t == hist.told[f]
             m == redis.deferred[f].n
             p == hist.deferred[f]
             q == redis'.deferred[f].n
             j == InHand(v, f)
  <2>1. InHand(call[w], f) = 0
    BY <1>1, CallHas, InHandIs
  <2>2. t \in Nat /\ m \in Nat /\ p \in Nat /\ hist'.told[f] = t /\ hist'.deferred[f] = p
    BY <1>1 DEF HistIsSound, Keys, Key
  <2>3. q \in Nat /\ j \in Nat /\ q + j <= m
    <3>1. CASE f = e
      <4>1. q = 0 /\ j = n
        BY <1>1, <1>5, <1>6, <3>1, InHandIs DEF Keys, Absent
      <4> QED BY <4>1, <1>3, <3>1
    <3>2. CASE f # e
      <4>1. q = m /\ j = 0
        BY <1>1, <1>5, <1>6, <3>2, InHandIs DEF Keys
      <4> QED BY <4>1, <2>2
    <3> QED BY <3>1, <3>2
  <2> HIDE DEF t, m, p, q, j
  <2> QED BY <2>1, <2>2, <2>3 DEF t, m, p, q, j
<1> QED BY <1>1, <1>4, <1>5, <1>6, <1>7, <1>8, CallMoves

\* What was in hand has been told.
LEMMA ArrivesInv == ASSUME DeliveryInv, NEW w \in Workers, message_arrives(w) PROVE DeliveryInv'
<1> DEFINE e == call[w].event
<1>1. /\ call[w].at = "send" /\ call[w].count \in Nat /\ UNCHANGED <<now, redis>> /\ e \in Events
      /\ redis \in Keys /\ HistIsSound(hist) /\ Ends_in_time(hist, redis) /\ Ends(w)
  BY CallHas DEF message_arrives, WorkerAt, Quiet, Call
<1>2. hist' = [hist EXCEPT !.told = [hist.told EXCEPT ![e] = hist.told[e] + call[w].count],
                           !.sent = hist.sent + 1]
  BY <1>1 DEF message_arrives, HistIsSound
<1>3. /\ HistIsSound(hist') /\ hist'.deferred = hist.deferred /\ hist'.passed = hist.passed /\ hist'.lost = hist.lost
      /\ hist'.told = [hist.told EXCEPT ![e] = hist.told[e] + call[w].count]
  <2> DEFINE told == [hist.told EXCEPT ![e] = hist.told[e] + call[w].count]
  <2>1. hist.told[e] + call[w].count \in Nat
    BY <1>1 DEF HistIsSound
  <2>2. told \in [Events -> Nat]
    BY <1>1, <2>1 DEF HistIsSound
  <2> HIDE DEF told
  <2> QED BY <1>1, <1>2, <2>2 DEF HistIsSound, told
<1>4. redis' \in Keys /\ Ends_in_time(hist', redis')
  BY <1>1, <1>3 DEF Ends_in_time
<1>5. ASSUME NEW f \in Events
      PROVE  hist'.told[f] + redis'.deferred[f].n + InHand(NoNotice, f) + hist.deferred[f]
               <= hist.told[f] + redis.deferred[f].n + InHand(call[w], f) + hist'.deferred[f]
  <2> DEFINE i == InHand(call[w], f)
             t == hist.told[f]
             u == hist'.told[f]
             m == redis.deferred[f].n
             p == hist.deferred[f]
  <2>1. InHand(NoNotice, f) = 0
    BY NoNoticeIs, InHandIs
  <2>2. t \in Nat /\ m \in Nat /\ p \in Nat /\ redis'.deferred[f].n = m /\ hist'.deferred[f] = p
    BY <1>1, <1>3 DEF HistIsSound, Keys, Key
  <2>3. i \in Nat /\ u = t + i
    <3>1. CASE f = e
      <4>1. i = call[w].count /\ u = hist.told[e] + call[w].count
        BY <1>1, <1>3, <3>1, CallHas, InHandIs DEF HistIsSound
      <4> QED BY <4>1, <1>1, <3>1
    <3>2. CASE f # e
      <4>1. i = 0 /\ u = t
        BY <1>1, <1>3, <3>2, CallHas, InHandIs DEF HistIsSound
      <4> QED BY <4>1, <2>2
    <3> QED BY <3>1, <3>2
  <2> HIDE DEF i, t, u, m, p
  <2> QED BY <2>1, <2>2, <2>3 DEF i, t, u, m, p
<1> QED BY <1>1, <1>3, <1>4, <1>5, NoNoticeIs, CallMoves DEF Ends

\* The message is refused: what was in hand is told to nobody.
LEMMA RefusedInv == ASSUME DeliveryInv, NEW w \in Workers, message_is_refused(w) PROVE DeliveryInv'
<1>1. /\ UNCHANGED <<now, redis>> /\ Ends(w) /\ Recorded("suppressed")
      /\ redis \in Keys /\ HistIsSound(hist) /\ Ends_in_time(hist, redis)
  BY CallHas DEF message_is_refused, Quiet
<1>2. /\ HistIsSound(hist') /\ hist'.told = hist.told /\ hist'.deferred = hist.deferred
      /\ hist'.passed = hist.passed /\ hist'.lost = hist.lost
  BY <1>1, CountedOnly
<1>3. Ends_in_time(hist', redis')
  BY <1>1, <1>2 DEF Ends_in_time
<1> QED BY <1>1, <1>2, <1>3, NoNoticeIs, QuietCallMoves DEF Ends

\* A call to Redis fails: the notice ends, or goes out without a summary.
LEMMA RedisFailsInv == ASSUME DeliveryInv, NEW w \in Workers, redis_fails(w) PROVE DeliveryInv'
<1>1. /\ UNCHANGED <<now, redis>> /\ (Recorded("aborted") \/ UNCHANGED hist)
      /\ redis \in Keys /\ HistIsSound(hist) /\ Ends_in_time(hist, redis)
      /\ \/ call[w].at = "pop" /\ Goes(w, "send")
         \/ Ends(w)
  BY CallHas DEF redis_fails, Quiet, WorkerAt
<1>2. /\ HistIsSound(hist') /\ hist'.told = hist.told /\ hist'.deferred = hist.deferred
      /\ hist'.passed = hist.passed /\ hist'.lost = hist.lost
  BY <1>1, CountedOnly
<1>3. Ends_in_time(hist', redis')
  BY <1>1, <1>2 DEF Ends_in_time
<1>4. CASE Ends(w)
  BY <1>1, <1>2, <1>3, <1>4, NoNoticeIs, QuietCallMoves DEF Ends
<1>5. CASE call[w].at = "pop" /\ Goes(w, "send")
  <2>1. call[w].count = 0
    BY <1>5, CallHas DEF Placed
  <2>2. /\ call' = [call EXCEPT ![w] = Moved(call[w], "send", 0)]
        /\ Moved(call[w], "send", 0) \in Call /\ Placed(Moved(call[w], "send", 0))
        /\ Moved(call[w], "send", 0).count = 0
    BY <1>5, <2>1, CallGoes, MovedIs DEF Stops
  <2> QED BY <1>1, <1>2, <1>3, <2>2, QuietCallMoves
<1> QED BY <1>1, <1>4, <1>5

\* Only the answer is lost: the key is there, and the notice ends.
LEMMA AnswerLostInv ==
  ASSUME DeliveryAssumption, DeliveryInv, NEW w \in Workers, set_answer_is_lost(w)
  PROVE  DeliveryInv'
<1>1. /\ UNCHANGED now /\ Ends(w) /\ now \in Nat /\ redis \in Keys /\ HistIsSound(hist)
      /\ Ends_in_time(hist, redis) /\ DebounceTtl \in Nat /\ DigestWindow \in Nat
  BY CallHas DEF set_answer_is_lost, Quiet, DeliveryAssumption
<1>2. CASE WorkerAt(w, "gate")
  <2>1. /\ redis' = [redis EXCEPT !.debounce = now + DebounceTtl]
        /\ hist' = [hist EXCEPT !.lost = now, !.aborted = @ + 1]
    BY <1>2 DEF set_answer_is_lost, WorkerAt, Deadline
  <2>2. /\ HistIsSound(hist') /\ hist'.told = hist.told /\ hist'.deferred = hist.deferred
        /\ hist'.lost = now
    BY <1>1, <2>1 DEF HistIsSound
  <2>3. redis' \in Keys /\ redis'.deferred = redis.deferred /\ redis'.debounce = now + DebounceTtl
    BY <1>1, <2>1 DEF Keys
  <2>4. Ends_in_time(hist', redis')
    BY <1>1, <2>2, <2>3 DEF Ends_in_time
  <2> QED BY <1>1, <2>2, <2>3, <2>4, NoNoticeIs, QuietCallMoves DEF Ends
<1>3. CASE ~WorkerAt(w, "gate")
  <2>1. redis' = [redis EXCEPT !.emit = now + DigestWindow] /\ UNCHANGED hist
    BY <1>3 DEF set_answer_is_lost, Deadline
  <2>2. redis' \in Keys /\ redis'.deferred = redis.deferred /\ redis'.debounce = redis.debounce
    BY <1>1, <2>1 DEF Keys
  <2>3. Ends_in_time(hist', redis')
    BY <1>1, <2>1, <2>2 DEF Ends_in_time
  <2> QED BY <1>1, <2>1, <2>2, <2>3, NoNoticeIs, QuietCallMoves DEF Ends
<1> QED BY <1>2, <1>3

\* The settings of the user decide what is sent, not what has been.
LEMMA PressesInv == ASSUME DeliveryInv, Presses PROVE DeliveryInv'
<1>1. UNCHANGED <<now, redis, call, hist>>
  BY DEF Presses, set_master_notifications_enabled, set_notification_preset,
     toggle_notification_event, set_notification_event_enabled, set_quiet_hours_settings,
     set_quiet_hours_timezone, set_auction_notification_snooze, clear_auction_notification_snooze,
     Press, Pause
<1> QED BY <1>1 DEF DeliveryInv

\* Keys fade: a count that is gone is told to nobody.
LEMMA TickInv == ASSUME DeliveryInv, Tick PROVE DeliveryInv'
<1>1. /\ now \in Nat /\ redis \in Keys /\ HistIsSound(hist) /\ CallsAreSound(call)
      /\ Accounted(hist, redis, call) /\ Ends_in_time(hist, redis)
  BY DEF DeliveryInv
<1>2. now' \in Nat /\ UNCHANGED <<call, hist>>
  BY <1>1 DEF Tick
<1>3. ASSUME NEW key \in Key
      PROVE  Kept(key, now') \in Key /\ Kept(key, now').n <= key.n
  BY DEF Kept, Absent, Key
<1>4. /\ redis' \in Keys
      /\ redis'.debounce \in {redis.debounce, 0}
      /\ \A e \in Events : redis'.deferred[e].n <= redis.deferred[e].n
  <2> DEFINE faded == [e \in Events |-> Kept(redis.deferred[e], now')]
             count == Kept(redis.count, now')
             debounce == IF redis.debounce > now' THEN redis.debounce ELSE 0
             emit == IF redis.emit > now' THEN redis.emit ELSE 0
  <2>1. redis' = [debounce |-> debounce, emit |-> emit, count |-> count, deferred |-> faded]
    BY DEF Tick
  <2>2. \A e \in Events : redis.deferred[e] \in Key
    BY <1>1 DEF Keys
  <2>3. faded \in [Events -> Key] /\ \A e \in Events : faded[e].n <= redis.deferred[e].n
    BY <2>2, <1>3
  <2>4. count \in Key /\ debounce \in Nat /\ emit \in Nat /\ debounce \in {redis.debounce, 0}
    BY <1>1, <1>3 DEF Keys
  <2> HIDE DEF faded, count, debounce, emit
  <2> QED BY <2>1, <2>3, <2>4 DEF Keys
<1>5. HistIsSound(hist') /\ CallsAreSound(call')
  BY <1>1, <1>2
<1>6. Ends_in_time(hist', redis')
  BY <1>1, <1>2, <1>4 DEF Ends_in_time, Held
<1>7. ASSUME NEW e \in Events
      PROVE  hist'.told[e] + redis'.deferred[e].n + Owed(call', e) <= hist'.deferred[e]
  <2> DEFINE t == hist.told[e]
             m == redis.deferred[e].n
             n == redis'.deferred[e].n
             k == Owed(call, e)
             p == hist.deferred[e]
  <2>1. t \in Nat /\ p \in Nat /\ m \in Nat /\ n \in Nat /\ n <= m
    BY <1>1, <1>4 DEF HistIsSound, Keys, Key
  <2>2. k \in Nat
    BY <1>1, OwedIsNat
  <2>3. t + m + k <= p
    BY <1>1 DEF Accounted
  <2>4. hist'.told[e] = t /\ hist'.deferred[e] = p /\ Owed(call', e) = k
    BY <1>2
  <2> HIDE DEF t, m, n, k, p
  <2>5. t + n + k <= p
    BY <2>1, <2>2, <2>3
  <2> QED BY <2>4, <2>5 DEF n
<1> QED BY <1>2, <1>4, <1>5, <1>6, <1>7 DEF DeliveryInv, Accounted

\* After a restart nobody has anything in hand.
LEMMA RestartInv == ASSUME DeliveryInv, restart PROVE DeliveryInv'
<1>1. /\ now \in Nat /\ redis \in Keys /\ HistIsSound(hist) /\ CallsAreSound(call)
      /\ Accounted(hist, redis, call) /\ Ends_in_time(hist, redis)
  BY DEF DeliveryInv
<1>2. UNCHANGED <<now, redis>> /\ call' = [w \in Workers |-> NoNotice]
  BY DEF restart, Quiet
<1>3. CallsAreSound(call')
  <2>1. \A w \in Workers : call'[w] = NoNotice
    BY <1>2
  <2>2. Busy(call') = {}
    BY <2>1, NoNoticeIs DEF Busy
  <2> QED BY <1>2, <2>1, <2>2, NoNoticeIs, FS_EmptySet DEF CallsAreSound
<1>4. ASSUME NEW e PROVE Owed(call', e) = 0
  <2>1. Senders(call', e) = {}
    BY <1>2, NoNoticeIs DEF Senders
  <2> QED BY <2>1, NobodyCarries DEF Owed
<1>5. /\ HistIsSound(hist') /\ hist'.told = hist.told /\ hist'.deferred = hist.deferred
      /\ hist'.passed = hist.passed /\ hist'.lost = hist.lost
  BY <1>1 DEF HistIsSound, restart
<1>6. ASSUME NEW e \in Events
      PROVE  hist'.told[e] + redis'.deferred[e].n + Owed(call', e) <= hist'.deferred[e]
  <2> DEFINE t == hist.told[e]
             m == redis.deferred[e].n
             k == Owed(call, e)
             p == hist.deferred[e]
  <2>1. t \in Nat /\ p \in Nat /\ m \in Nat
    BY <1>1 DEF HistIsSound, Keys, Key
  <2>2. k \in Nat
    BY <1>1, OwedIsNat
  <2>3. t + m + k <= p
    BY <1>1 DEF Accounted
  <2>4. hist'.told[e] = t /\ hist'.deferred[e] = p /\ Owed(call', e) = 0 /\ redis'.deferred[e].n = m
    BY <1>2, <1>4, <1>5
  <2> HIDE DEF t, m, k, p
  <2>5. t + m + 0 <= p
    BY <2>1, <2>2, <2>3
  <2> QED BY <2>4, <2>5
<1>7. Ends_in_time(hist', redis')
  BY <1>1, <1>2, <1>5 DEF Ends_in_time
<1> QED BY <1>1, <1>2, <1>3, <1>5, <1>6, <1>7 DEF DeliveryInv, Accounted

\* At first nothing has been put off, counted or told.
LEMMA DeliveryInitInv == ASSUME DeliveryInit PROVE DeliveryInv
<1>1. /\ now = 0 /\ call = [w \in Workers |-> NoNotice]
      /\ redis = [debounce |-> 0, count |-> Absent, emit |-> 0,
                  deferred |-> [e \in Events |-> Absent]]
      /\ hist = [begun |-> 0, sent |-> 0, suppressed |-> 0, aborted |-> 0,
                 deferred |-> [e \in Events |-> 0], told |-> [e \in Events |-> 0],
                 passed |-> 0, lost |-> 0, digested |-> FALSE]
  BY DEF DeliveryInit
<1>2. CallsAreSound(call)
  <2>1. \A w \in Workers : call[w] = NoNotice
    BY <1>1
  <2>2. Busy(call) = {}
    BY <2>1, NoNoticeIs DEF Busy
  <2> QED BY <1>1, <2>1, <2>2, NoNoticeIs, FS_EmptySet DEF CallsAreSound
<1>3. ASSUME NEW e PROVE Owed(call, e) = 0
  <2>1. Senders(call, e) = {}
    BY <1>1, NoNoticeIs DEF Senders
  <2> QED BY <2>1, NobodyCarries DEF Owed
<1>4. redis \in Keys /\ \A e \in Events : redis.deferred[e].n = 0
  BY <1>1 DEF Keys, Key, Absent
<1>5. HistIsSound(hist) /\ \A e \in Events : hist.told[e] = 0 /\ hist.deferred[e] = 0
  BY <1>1 DEF HistIsSound
<1>6. Accounted(hist, redis, call)
  BY <1>3, <1>4, <1>5 DEF Accounted
<1> QED BY <1>1, <1>2, <1>4, <1>5, <1>6 DEF DeliveryInv, Ends_in_time, Held

\* Every step keeps the accounts.
LEMMA DeliveryStep ==
  ASSUME DeliveryAssumption, DeliveryInv, [DeliveryNext]_delivery_vars PROVE DeliveryInv'
<1>1. CASE UNCHANGED delivery_vars
  BY <1>1 DEF delivery_vars, DeliveryInv
<1>2. ASSUME NEW w \in Workers, Notice(w) PROVE DeliveryInv'
  BY <1>2, BeginNoticeInv, DebounceInv, DigestInv, DecideInv, DeferInv, DeferExpireInv, PopInv,
     ArrivesInv, RefusedInv, RedisFailsInv, AnswerLostInv DEF Notice
<1> QED BY <1>1, <1>2, PressesInv, TickInv, RestartInv DEF DeliveryNext

\* The accounts as the property states them.
LEMMA AccountsSayIt == ASSUME DeliveryInv PROVE DeferredIsToldOnce /\ SilenceIsBounded
<1>1. DeferredIsToldOnce
  BY DEF DeliveryInv, Accounted, Owed, Carried, Senders, DeferredIsToldOnce, WorkerAt
<1> QED BY <1>1 DEF DeliveryInv, Ends_in_time, SilenceIsBounded

\* A notice put off in the quiet hours is counted in one summary at most, whatever
\* order the counts are raised, taken and sent in, and whatever fails or restarts
\* (defer_notification_event and pop_deferred_notification_count).
THEOREM PutOffIsToldOnce ==
  ASSUME DeliveryAssumption PROVE DeliverySpec => []DeferredIsToldOnce
<1>1. DeliveryInv /\ [DeliveryNext]_delivery_vars => DeliveryInv'
  BY DeliveryStep
<1>2. DeliveryInv => DeferredIsToldOnce
  BY AccountsSayIt
<1> QED BY <1>1, <1>2, DeliveryInitInv, PTL DEF DeliverySpec

\* A stream of outbids does not prolong the debounce: it ends on time after the notice
\* let through last, or after the last one for which the key was set and the answer of
\* Redis was lost (acquire_outbid_notification_debounce).
THEOREM SilenceEnds ==
  ASSUME DeliveryAssumption PROVE DeliverySpec => []SilenceIsBounded
<1>1. DeliveryInv /\ [DeliveryNext]_delivery_vars => DeliveryInv'
  BY DeliveryStep
<1>2. DeliveryInv => SilenceIsBounded
  BY AccountsSayIt
<1> QED BY <1>1, <1>2, DeliveryInitInv, PTL DEF DeliverySpec
-----------------------------------------------------------------------------
(* Sections of a private chat (module PrivateTopics).                       *)

Stages == {"over", "loaded", "creating", "inserting", "pruning", "deleting", "routed"}
TxFields == DOMAIN Over
Common == {"auctions", "support"}
Creatable == {"auctions", "support", "moderation"}
EarlierThan(p) == CASE p = "auctions" -> {} [] p = "support" -> {"auctions"} [] OTHER -> Common
RowThreads(rs) == {rs[p].thread : p \in Purposes}

\* The section that serves as p: a row of its own, or that of "points" for support.
SectionOf(rs, p) ==
  IF rs[p].active THEN rs[p].thread
  ELSE IF p = "support" /\ rs["points"].active THEN rs["points"].thread ELSE NoThread

\* Topics were made for what they are registered for.
RowsAreSound(rs, ts) ==
  /\ rs \in [Purposes -> [thread : {NoThread} \cup DOMAIN ts, active : BOOLEAN]]
  /\ \A p \in Purposes :
       IF rs[p].thread = NoThread THEN rs[p] = NoRow
       ELSE _canonical_purpose(ts[rs[p].thread]) = _canonical_purpose(p)

\* What a transaction holds at each stage.
Typed(v, ts, gn) ==
  /\ v = [f \in TxFields |-> v[f]] /\ v.stage \in Stages
  /\ DOMAIN v.known \subseteq Purposes /\ v.made \subseteq DOMAIN v.known \cap Creatable
  /\ v.fresh \in {NoThread} \cup DOMAIN ts /\ (v.fresh # NoThread <=> v.stage = "inserting")
  /\ v.doomed \subseteq DOMAIN ts /\ v.dead \subseteq gn
  /\ v.place \in {Nowhere, NoThread} \cup DOMAIN ts
  /\ v.stage # "deleting" => v.doomed = {} /\ v.dead = {}
  /\ v.stage \in {"over", "loaded", "routed"} => v.made = {}

\* It knows topics by what they were made for, and makes them in their order.
Knows(v, ts) ==
  /\ \A p \in DOMAIN v.known :
       v.known[p] \in DOMAIN ts /\ _canonical_purpose(ts[v.known[p]]) = _canonical_purpose(p)
  /\ \A p \in v.made : ts[v.known[p]] = p /\ EarlierThan(p) \subseteq DOMAIN v.known
  /\ v.stage = "inserting" =>
       ts[v.fresh] \in Creatable \ DOMAIN v.known /\ EarlierThan(ts[v.fresh]) \subseteq DOMAIN v.known

\* Nobody has committed what it has made.
Locks(v, rs) ==
  /\ \A p \in v.made : rs[p] = NoRow /\ v.known[p] \notin RowThreads(rs)
  /\ v.fresh # NoThread => v.fresh \notin RowThreads(rs)
  /\ v.doomed \subseteq RowThreads(rs)
  /\ "support" \in v.made => ~rs["points"].active
  /\ v.stage \in {"loaded", "creating", "inserting"} /\ "support" \notin DOMAIN v.known =>
       ~rs["points"].active

Apart(v, u) ==
  /\ v.made \cap u.made = {}
  /\ v.fresh # NoThread => v.fresh # u.fresh /\ \A p \in u.made : u.known[p] # v.fresh

\* Without failures: what it knows is in use, and not what it deletes.
UpToDate(v, rs) ==
  /\ v.stage # "pruning"
  /\ v.stage \in {"loaded", "creating", "inserting", "deleting"} =>
       \A p \in Common \cap DOMAIN v.known : p \in v.made \/ v.known[p] = SectionOf(rs, p)
  /\ v.doomed \cup v.dead # {} =>
       \A p \in Common : p \in DOMAIN v.known /\ v.known[p] \notin v.doomed \cup v.dead

InOrder(rs) ==
  /\ rs["support"] # NoRow \/ rs["moderation"] # NoRow => rs["auctions"] # NoRow
  /\ rs["moderation"] # NoRow => rs["support"] # NoRow \/ rs["points"].active

Accounts(v, t) == v.fresh = t \/ \E p \in v.made : v.known[p] = t

NoneIsLost(rs, ts, gn, txs) ==
  \A t \in DOMAIN ts \ gn :
    \/ \E p \in Purposes : rs[p] = [thread |-> t, active |-> TRUE]
    \/ \E h \in Handlers : Accounts(txs[h], t)
    \/ rs[ts[t]].thread \notin {NoThread, t}

NoneIsGone(rs, gn, txs) ==
  \A p \in Purposes : rs[p].active /\ rs[p].thread \in gn => \E h \in Handlers : rs[p].thread \in txs[h].dead

TopicsInv ==
  /\ moderator \in BOOLEAN /\ roleChanges \in 0..MaxRoleChanges /\ failures \in 0..MaxFailures
  /\ topics \in Seq(Purposes) /\ gone \subseteq DOMAIN topics /\ RowsAreSound(rows, topics)
  /\ tx = [h \in Handlers |-> tx[h]]
  /\ \A h \in Handlers : Typed(tx[h], topics, gone) /\ Knows(tx[h], topics) /\ Locks(tx[h], rows)
  /\ \A h, g \in Handlers : h # g => Apart(tx[h], tx[g])
  /\ failures = 0 =>
       /\ InOrder(rows) /\ gone \subseteq RowThreads(rows)
       /\ \A h \in Handlers : UpToDate(tx[h], rows)
       /\ NoneIsLost(rows, topics, gone, tx) /\ NoneIsGone(rows, gone, tx)

\* What the bot knows after a look at the rows, or after taking stock.
LEMMA NormalizedMap ==
  ASSUME NEW m, DOMAIN m \subseteq Purposes
  PROVE  LET n == _normalize_topics_map(m) IN
         /\ DOMAIN m \subseteq DOMAIN n /\ DOMAIN n \subseteq Purposes
         /\ \A p \in DOMAIN n \ {"support", "points"} : p \in DOMAIN m /\ n[p] = m[p]
         /\ "support" \in DOMAIN m => n["support"] = m["support"]
         /\ "support" \in DOMAIN n \/ "points" \in DOMAIN n =>
              /\ "support" \in DOMAIN m \/ "points" \in DOMAIN m
              /\ "support" \in DOMAIN n /\ "points" \in DOMAIN n => n["points"] = n["support"]
              /\ "support" \in DOMAIN n
         /\ "support" \notin DOMAIN m /\ "points" \in DOMAIN m => n["support"] = m["points"]
<1> DEFINE old == {"support", "points"} \cap DOMAIN m
           thread == m[IF "support" \in old THEN "support" ELSE "points"]
           n == _normalize_topics_map(m)
<1>1. CASE old = {}
  <2>1. n = m
    BY <1>1 DEF _normalize_topics_map
  <2> QED BY <1>1, <2>1
<1>2. CASE old # {}
  <2>1. n = [p \in DOMAIN m \cup {"support", "points"} |->
               IF p \in {"support", "points"} THEN thread ELSE m[p]]
    BY <1>2 DEF _normalize_topics_map
  <2>2. DOMAIN n = DOMAIN m \cup {"support", "points"} /\ n["support"] = thread /\ n["points"] = thread
        /\ \A p \in DOMAIN n \ {"support", "points"} : n[p] = m[p]
    BY <2>1
  <2>3. ("support" \in DOMAIN m => thread = m["support"])
        /\ ("support" \notin DOMAIN m => thread = m["points"])
    OBVIOUS
  <2> HIDE DEF n, thread
  <2> QED BY <1>2, <2>2, <2>3 DEF Purposes, n
<1> QED BY <1>1, <1>2

\* The sections in the rows.
LEMMA SectionsOfRows ==
  ASSUME NEW rs, NEW ts, RowsAreSound(rs, ts)
  PROVE  LET n == _normalize_topics_map(topics_map(rs)) IN
         /\ DOMAIN n \subseteq Purposes
         /\ \A p \in DOMAIN n :
              n[p] \in DOMAIN ts /\ _canonical_purpose(ts[n[p]]) = _canonical_purpose(p)
         /\ \A p \in Common :
              /\ p \in DOMAIN n <=> SectionOf(rs, p) # NoThread
              /\ p \in DOMAIN n => n[p] = SectionOf(rs, p)
         /\ "support" \notin DOMAIN n => ~rs["points"].active
<1> DEFINE m == topics_map(rs)
           n == _normalize_topics_map(m)
<1>1. DOMAIN m = {p \in Purposes : rs[p].active} /\ \A p \in DOMAIN m : m[p] = rs[p].thread
  BY DEF topics_map
<1>2. \A p \in Purposes : rs[p].active => rs[p].thread \in DOMAIN ts /\ rs[p].thread # NoThread
        /\ _canonical_purpose(ts[rs[p].thread]) = _canonical_purpose(p)
  BY DEF RowsAreSound, NoRow
<1>3. /\ DOMAIN m \subseteq DOMAIN n /\ DOMAIN n \subseteq Purposes
      /\ \A p \in DOMAIN n \ {"support", "points"} : p \in DOMAIN m /\ n[p] = m[p]
      /\ "support" \in DOMAIN m => n["support"] = m["support"]
      /\ "support" \in DOMAIN n \/ "points" \in DOMAIN n =>
              /\ "support" \in DOMAIN m \/ "points" \in DOMAIN m
              /\ "support" \in DOMAIN n /\ "points" \in DOMAIN n => n["points"] = n["support"]
              /\ "support" \in DOMAIN n
      /\ "support" \notin DOMAIN m /\ "points" \in DOMAIN m => n["support"] = m["points"]
  <2>1. DOMAIN m \subseteq Purposes
    BY <1>1
  <2> HIDE DEF m
  <2> QED BY <2>1, NormalizedMap
<1> HIDE DEF m, n
<1>4. \A p \in DOMAIN m : m[p] \in DOMAIN ts /\ m[p] # NoThread
        /\ _canonical_purpose(ts[m[p]]) = _canonical_purpose(p)
  BY <1>1, <1>2
<1>5. ASSUME NEW p \in DOMAIN n
      PROVE  n[p] \in DOMAIN ts /\ _canonical_purpose(ts[n[p]]) = _canonical_purpose(p)
  BY <1>3, <1>4 DEF _canonical_purpose
<1>6. /\ "auctions" \in DOMAIN n <=> SectionOf(rs, "auctions") # NoThread
      /\ "auctions" \in DOMAIN n => n["auctions"] = SectionOf(rs, "auctions")
  BY <1>1, <1>3, <1>4 DEF SectionOf, Purposes
<1>7. /\ "support" \in DOMAIN n <=> SectionOf(rs, "support") # NoThread
      /\ "support" \in DOMAIN n => n["support"] = SectionOf(rs, "support")
  BY <1>1, <1>3, <1>4 DEF SectionOf, Purposes
<1>8. "support" \notin DOMAIN n => ~rs["points"].active
  BY <1>1, <1>3 DEF Purposes
<1> QED BY <1>3, <1>5, <1>6, <1>7, <1>8 DEF Common, n, m

\* A transaction that gives up what it has made, or keeps it, is as apart from
\* the others as it was.
LEMMA ApartShrinks ==
  ASSUME NEW u, NEW v, NEW w, Apart(u, w), Apart(w, u), v.made \subseteq u.made,
         \A p \in v.made : v.known[p] = u.known[p], v.fresh \in {NoThread, u.fresh}
  PROVE  Apart(v, w) /\ Apart(w, v)
BY DEF Apart

\* Topics are added and deleted, and stay what they were made for.
Grows(ts, us, gn, hn) ==
  DOMAIN ts \subseteq DOMAIN us /\ (\A t \in DOMAIN ts : us[t] = ts[t]) /\ gn \subseteq hn

\* What is known of topics stays true.
LEMMA StaysTyped ==
  ASSUME NEW v, NEW ts, NEW us, NEW gn, NEW hn, Grows(ts, us, gn, hn), Typed(v, ts, gn)
  PROVE  Typed(v, us, hn)
BY DEF Typed, Grows

LEMMA StaysKnown ==
  ASSUME NEW v, NEW ts, NEW us, NEW gn, NEW hn, Grows(ts, us, gn, hn), Typed(v, ts, gn), Knows(v, ts)
  PROVE  Knows(v, us)
<1>1. \A p \in DOMAIN v.known :
        v.known[p] \in DOMAIN us /\ _canonical_purpose(us[v.known[p]]) = _canonical_purpose(p)
  BY DEF Knows, Grows
<1>2. \A p \in v.made : us[v.known[p]] = p /\ EarlierThan(p) \subseteq DOMAIN v.known
  BY DEF Knows, Grows, Typed
<1>3. v.stage = "inserting" => us[v.fresh] = ts[v.fresh]
  BY DEF Typed, Grows
<1> QED BY <1>1, <1>2, <1>3 DEF Knows

LEMMA StayRows ==
  ASSUME NEW rs, NEW ts, NEW us, NEW gn, NEW hn, Grows(ts, us, gn, hn), RowsAreSound(rs, ts)
  PROVE  RowsAreSound(rs, us)
<1>1. rs \in [Purposes -> [thread : {NoThread} \cup DOMAIN us, active : BOOLEAN]]
  BY DEF RowsAreSound, Grows
<1>2. \A p \in Purposes : rs[p].thread # NoThread => us[rs[p].thread] = ts[rs[p].thread]
  BY DEF RowsAreSound, Grows
<1> QED BY <1>1, <1>2 DEF RowsAreSound

\* What a step of one transaction leaves in order as long as nothing has failed:
\* u becomes v, topics ts become us, and those gone gn become hn.
InGoodOrder(v, u, rs, ts, us, gn, hn) ==
  /\ UpToDate(v, rs) /\ hn \subseteq RowThreads(rs) /\ hn \ gn \subseteq v.dead /\ u.dead \subseteq v.dead
  /\ \A t \in DOMAIN us \ hn :
       t \notin DOMAIN ts \/ Accounts(u, t) => Accounts(v, t) \/ rs[us[t]].thread \notin {NoThread, t}

\* One transaction is another now, the others are as they were.
Becomes(h, v) == tx' = [tx EXCEPT ![h] = v]

LEMMA BecomesIt ==
  ASSUME TopicsInv, NEW h \in Handlers, NEW v, Becomes(h, v)
  PROVE  /\ tx' = [g \in Handlers |-> tx'[g]] /\ tx'[h] = v
         /\ \A g \in Handlers \ {h} : tx'[g] = tx[g]
BY DEF TopicsInv, Becomes

\* A transaction moves on, and leaves the rows as they are.
LEMMA TxMoves ==
  ASSUME TopicsInv, NEW h \in Handlers, NEW v, Becomes(h, v), UNCHANGED <<moderator, roleChanges, rows>>,
         failures' \in 0..MaxFailures, failures' = 0 => failures = 0,
         Grows(topics, topics', gone, gone'), topics' \in Seq(Purposes), gone' \subseteq DOMAIN topics',
         Typed(v, topics', gone'), Knows(v, topics'), Locks(v, rows),
         \A g \in Handlers \ {h} : Apart(v, tx[g]) /\ Apart(tx[g], v),
         failures' = 0 => InGoodOrder(v, tx[h], rows, topics, topics', gone, gone')
  PROVE  TopicsInv'
<1>1. /\ tx' = [g \in Handlers |-> tx'[g]] /\ tx'[h] = v
      /\ \A g \in Handlers \ {h} : tx'[g] = tx[g]
  BY BecomesIt
<1>2. /\ moderator' \in BOOLEAN /\ roleChanges' \in 0..MaxRoleChanges
      /\ RowsAreSound(rows', topics')
  BY StayRows DEF TopicsInv
<1>3. ASSUME NEW g \in Handlers
      PROVE  Typed(tx'[g], topics', gone') /\ Knows(tx'[g], topics') /\ Locks(tx'[g], rows')
  <2>1. CASE g = h
    BY <1>1, <2>1
  <2>2. CASE g # h
    <3>1. Typed(tx[g], topics, gone) /\ Knows(tx[g], topics) /\ Locks(tx[g], rows)
      BY DEF TopicsInv
    <3>2. Typed(tx[g], topics', gone') /\ Knows(tx[g], topics')
      BY <3>1, StaysTyped, StaysKnown
    <3> QED BY <1>1, <2>2, <3>1, <3>2
  <2> QED BY <2>1, <2>2
<1>4. ASSUME NEW f \in Handlers, NEW g \in Handlers, f # g
      PROVE  Apart(tx'[f], tx'[g])
  <2>1. CASE f # h /\ g # h
    BY <1>1, <1>4, <2>1 DEF TopicsInv
  <2> QED BY <1>1, <1>4, <2>1
<1>5. ASSUME failures' = 0
      PROVE  /\ InOrder(rows') /\ gone' \subseteq RowThreads(rows')
             /\ \A g \in Handlers : UpToDate(tx'[g], rows')
             /\ NoneIsLost(rows', topics', gone', tx') /\ NoneIsGone(rows', gone', tx')
  <2>1. /\ InOrder(rows) /\ \A g \in Handlers : UpToDate(tx[g], rows)
        /\ NoneIsLost(rows, topics, gone, tx) /\ NoneIsGone(rows, gone, tx)
        /\ InGoodOrder(v, tx[h], rows, topics, topics', gone, gone')
    BY <1>5 DEF TopicsInv
  <2>2. /\ UpToDate(v, rows) /\ gone' \subseteq RowThreads(rows)
        /\ gone' \ gone \subseteq v.dead /\ tx[h].dead \subseteq v.dead
    BY <2>1 DEF InGoodOrder
  <2>3. ASSUME NEW t \in DOMAIN topics' \ gone'
        PROVE  \/ \E p \in Purposes : rows[p] = [thread |-> t, active |-> TRUE]
               \/ \E g \in Handlers : Accounts(tx'[g], t)
               \/ rows[topics'[t]].thread \notin {NoThread, t}
    <3>1. CASE t \in DOMAIN topics /\ ~Accounts(tx[h], t)
      <4>1. t \in DOMAIN topics \ gone /\ topics'[t] = topics[t]
        BY <2>3, <3>1 DEF Grows
      <4>2. \/ \E p \in Purposes : rows[p] = [thread |-> t, active |-> TRUE]
            \/ \E g \in Handlers : Accounts(tx[g], t)
            \/ rows[topics[t]].thread \notin {NoThread, t}
        BY <2>1, <4>1 DEF NoneIsLost
      <4>3. ASSUME NEW g \in Handlers, Accounts(tx[g], t) PROVE Accounts(tx'[g], t)
        BY <1>1, <3>1, <4>3
      <4> QED BY <4>1, <4>2, <4>3
    <3>2. CASE t \notin DOMAIN topics \/ Accounts(tx[h], t)
      <4>1. Accounts(v, t) \/ rows[topics'[t]].thread \notin {NoThread, t}
        BY <2>1, <2>3, <3>2 DEF InGoodOrder
      <4> QED BY <1>1, <4>1
    <3> QED BY <3>1, <3>2
  <2>4. ASSUME NEW p \in Purposes, rows[p].active, rows[p].thread \in gone'
        PROVE  \E g \in Handlers : rows[p].thread \in tx'[g].dead
    <3>1. CASE rows[p].thread \in gone
      <4>1. PICK g \in Handlers : rows[p].thread \in tx[g].dead
        BY <2>1, <2>4, <3>1 DEF NoneIsGone
      <4> QED BY <1>1, <2>2, <4>1
    <3>2. CASE rows[p].thread \notin gone
      BY <1>1, <2>2, <2>4, <3>2
    <3> QED BY <3>1, <3>2
  <2>5. \A g \in Handlers : UpToDate(tx'[g], rows)
    BY <1>1, <2>1, <2>2
  <2> QED BY <2>1, <2>2, <2>3, <2>4, <2>5 DEF NoneIsLost, NoneIsGone
<1> QED BY <1>1, <1>2, <1>3, <1>4, <1>5 DEF TopicsInv

\* What a transaction has been up to.
LEMMA TxHas ==
  ASSUME TopicsInv, NEW h \in Handlers
  PROVE  /\ Typed(tx[h], topics, gone) /\ Knows(tx[h], topics) /\ Locks(tx[h], rows)
         /\ \A g \in Handlers \ {h} : Apart(tx[h], tx[g]) /\ Apart(tx[g], tx[h])
         /\ RowsAreSound(rows, topics) /\ Grows(topics, topics, gone, gone)
         /\ topics \in Seq(Purposes) /\ gone \subseteq DOMAIN topics /\ failures \in 0..MaxFailures
         /\ failures = 0 => UpToDate(tx[h], rows) /\ gone \subseteq RowThreads(rows) /\ InOrder(rows)
BY DEF TopicsInv, Grows

\* A transaction moves on; rows, topics and chat stay as they are.
LEMMA QuietTxMoves ==
  ASSUME TopicsInv, NEW h \in Handlers, NEW v, Becomes(h, v),
         UNCHANGED <<moderator, roleChanges, rows, topics, gone>>,
         failures' \in 0..MaxFailures, failures' = 0 => failures = 0,
         Typed(v, topics, gone), Knows(v, topics), Locks(v, rows),
         \A g \in Handlers \ {h} : Apart(v, tx[g]) /\ Apart(tx[g], v),
         failures' = 0 =>
           /\ UpToDate(v, rows) /\ tx[h].dead \subseteq v.dead
           /\ \A t \in DOMAIN topics : Accounts(tx[h], t) =>
                Accounts(v, t) \/ rows[topics[t]].thread \notin {NoThread, t}
  PROVE  TopicsInv'
<1>1. failures' = 0 => InGoodOrder(v, tx[h], rows, topics, topics', gone, gone')
  <2> SUFFICES ASSUME failures' = 0
               PROVE  InGoodOrder(v, tx[h], rows, topics, topics, gone, gone)
    OBVIOUS
  <2>1. gone \subseteq RowThreads(rows)
    BY TxHas
  <2> QED BY <2>1 DEF InGoodOrder
<1> QED BY <1>1, TxHas, TxMoves

\* What a transaction may hold that has nothing but what it knows.
Bare(v) ==
  v.made = {} /\ v.fresh = NoThread /\ v.doomed = {} /\ v.dead = {} /\ v.stage # "inserting"

LEMMA BareIsApart ==
  ASSUME NEW v, Bare(v), NEW rs, NEW u
  PROVE  /\ Apart(v, u) /\ Apart(u, v)
         /\ (v.stage \in {"loaded", "creating"} /\ "support" \notin DOMAIN v.known => ~rs["points"].active)
              => Locks(v, rs)
BY DEF Bare, Apart, Locks

\* Of a transaction at rest.
LEMMA RestIs ==
  /\ TxFields = {"stage", "purpose", "access", "free", "known", "made", "fresh", "doomed", "dead", "place"}
  /\ Over = [f \in TxFields |-> Over[f]] /\ DOMAIN NoTopics = {}
  /\ Over.stage = "over" /\ Over.known = NoTopics /\ Over.made = {} /\ Over.fresh = NoThread
  /\ Over.doomed = {} /\ Over.dead = {} /\ Over.place = Nowhere
BY DEF TxFields, Over, NoTopics

\* v differs from u in the fields of F only.
Alike(v, u, F) == v = [f \in TxFields |-> v[f]] /\ \A f \in TxFields \ F : v[f] = u[f]

\* A transaction starts with a look at the rows.
LEMMA LoadInv == ASSUME TopicsInv, NEW h \in Handlers, load_user_topics_map(h) PROVE TopicsInv'
<1> DEFINE n == _normalize_topics_map(topics_map(rows))
           v == [Over EXCEPT !.stage = "loaded", !.free = TRUE, !.known = n]
<1>1. tx[h].stage = "over" /\ Becomes(h, v) /\ UNCHANGED <<moderator, roleChanges, rows, topics, gone, failures>>
  BY DEF load_user_topics_map, At, Becomes
<1>2. /\ v = [f \in TxFields |-> v[f]] /\ v.stage = "loaded" /\ v.known = n /\ v.made = {} /\ v.fresh = NoThread
      /\ v.doomed = {} /\ v.dead = {} /\ v.place = Nowhere
  BY DEF TxFields, Over
<1>3. /\ DOMAIN n \subseteq Purposes
      /\ \A p \in DOMAIN n :
           n[p] \in DOMAIN topics /\ _canonical_purpose(topics[n[p]]) = _canonical_purpose(p)
      /\ \A p \in Common : p \in DOMAIN n => n[p] = SectionOf(rows, p)
      /\ "support" \notin DOMAIN n => ~rows["points"].active
  BY TxHas, SectionsOfRows
<1> HIDE DEF n, v
<1>4. Bare(v)
  BY <1>2 DEF Bare
<1>5. Typed(v, topics, gone)
  BY <1>2, <1>3 DEF Typed, Stages
<1>6. Knows(v, topics)
  BY <1>2, <1>3 DEF Knows
<1>7. Locks(v, rows) /\ \A g \in Handlers \ {h} : Apart(v, tx[g]) /\ Apart(tx[g], v)
  BY <1>2, <1>3, <1>4, BareIsApart
<1>8. UpToDate(v, rows)
  BY <1>2, <1>3 DEF UpToDate
<1>9. tx[h].dead = {} /\ tx[h].made = {} /\ tx[h].fresh = NoThread
  BY <1>1, TxHas DEF Typed
<1>10. tx[h].dead \subseteq v.dead /\ \A t \in DOMAIN topics : ~Accounts(tx[h], t)
  <2>1. NoThread \notin DOMAIN topics
    BY TxHas DEF NoThread
  <2> QED BY <1>9, <2>1 DEF Accounts
<1> QED BY <1>1, <1>5, <1>6, <1>7, <1>8, <1>10, TxHas, QuietTxMoves

\* Who has access is looked up.
LEMMA AccessInv == ASSUME TopicsInv, NEW h \in Handlers, _can_user_access_moderation_topics(h) PROVE TopicsInv'
<1> DEFINE u == tx[h]
           v == tx'[h]
<1>1. u.stage = "loaded" /\ UNCHANGED <<moderator, roleChanges, rows, topics, gone, failures>>
      /\ tx' = [tx EXCEPT ![h].stage = "creating", ![h].access = moderator]
  BY DEF _can_user_access_moderation_topics, At
<1>2. /\ Typed(u, topics, gone) /\ Knows(u, topics) /\ Locks(u, rows)
      /\ \A g \in Handlers \ {h} : Apart(u, tx[g]) /\ Apart(tx[g], u)
      /\ failures = 0 => UpToDate(u, rows)
      /\ tx = [g \in Handlers |-> tx[g]] /\ failures \in 0..MaxFailures
  BY TxHas DEF TopicsInv
<1>3. Becomes(h, v) /\ Alike(v, u, {"stage", "access"}) /\ v.stage = "creating"
  <2>1. u = [f \in TxFields |-> u[f]]
    BY <1>2 DEF Typed
  <2>2. v = [[u EXCEPT !.stage = "creating"] EXCEPT !.access = moderator]
    BY <1>1, <1>2
  <2>3. Becomes(h, v)
    BY <1>1, <1>2 DEF Becomes
  <2> HIDE DEF u, v
  <2> QED BY <2>1, <2>2, <2>3, RestIs DEF Alike
<1>4. v.known = u.known /\ v.made = u.made /\ v.fresh = u.fresh /\ v.doomed = u.doomed
      /\ v.dead = u.dead /\ v.place = u.place /\ v = [f \in TxFields |-> v[f]]
  BY <1>3, RestIs DEF Alike
<1> HIDE DEF u, v
<1>5. Typed(v, topics, gone)
  BY <1>1, <1>2, <1>3, <1>4 DEF Typed, Stages
<1>6. Knows(v, topics)
  BY <1>1, <1>2, <1>3, <1>4 DEF Knows
<1>7. Locks(v, rows)
  BY <1>1, <1>2, <1>3, <1>4 DEF Locks
<1>8. \A g \in Handlers \ {h} : Apart(v, tx[g]) /\ Apart(tx[g], v)
  BY <1>2, <1>4, ApartShrinks
<1>9. failures = 0 => UpToDate(v, rows)
  BY <1>1, <1>2, <1>3, <1>4 DEF UpToDate
<1>10. tx[h].dead \subseteq v.dead /\ \A t \in DOMAIN topics : Accounts(tx[h], t) => Accounts(v, t)
  BY <1>4 DEF Accounts, u
<1> QED BY <1>1, <1>2, <1>3, <1>5, <1>6, <1>7, <1>8, <1>9, <1>10, QuietTxMoves

\* The topics are left alone.
LEMMA LeftAloneInv == ASSUME TopicsInv, NEW h \in Handlers, topics_are_left_alone(h) PROVE TopicsInv'
<1> DEFINE u == tx[h]
           v == tx'[h]
<1>1. u.stage = "creating" /\ u.made = {} /\ UNCHANGED <<moderator, roleChanges, rows, topics, gone, failures>>
  BY DEF topics_are_left_alone, At
<1>2. PICK known \in {u.known, NoTopics} :
        tx' = [tx EXCEPT ![h].stage = "deleting", ![h].free = FALSE, ![h].known = known]
  BY DEF topics_are_left_alone
<1>3. /\ Typed(u, topics, gone) /\ Knows(u, topics) /\ Locks(u, rows)
      /\ \A g \in Handlers \ {h} : Apart(u, tx[g]) /\ Apart(tx[g], u)
      /\ failures = 0 => UpToDate(u, rows)
      /\ tx = [g \in Handlers |-> tx[g]] /\ failures \in 0..MaxFailures
  BY TxHas DEF TopicsInv
<1>4. Becomes(h, v) /\ Alike(v, u, {"stage", "free", "known"}) /\ v.stage = "deleting" /\ v.known = known
  <2>1. u = [f \in TxFields |-> u[f]]
    BY <1>3 DEF Typed
  <2>2. v = [[[u EXCEPT !.stage = "deleting"] EXCEPT !.free = FALSE] EXCEPT !.known = known]
    BY <1>2, <1>3
  <2>3. Becomes(h, v)
    BY <1>2, <1>3 DEF Becomes
  <2> HIDE DEF u, v
  <2> QED BY <2>1, <2>2, <2>3, RestIs DEF Alike
<1>5. v.made = u.made /\ v.fresh = u.fresh /\ v.doomed = u.doomed
      /\ v.dead = u.dead /\ v.place = u.place /\ v = [f \in TxFields |-> v[f]]
  BY <1>4, RestIs DEF Alike
<1> HIDE DEF u, v
<1>6. Typed(v, topics, gone)
  BY <1>1, <1>2, <1>3, <1>4, <1>5, RestIs DEF Typed, Stages
<1>7. Knows(v, topics)
  BY <1>1, <1>2, <1>3, <1>4, <1>5, RestIs DEF Knows
<1>8. Locks(v, rows)
  BY <1>1, <1>3, <1>4, <1>5 DEF Locks
<1>9. \A g \in Handlers \ {h} : Apart(v, tx[g]) /\ Apart(tx[g], v)
  BY <1>1, <1>3, <1>5, ApartShrinks
<1>10. failures = 0 => UpToDate(v, rows)
  BY <1>1, <1>2, <1>3, <1>4, <1>5, RestIs DEF UpToDate, Typed
<1>11. tx[h].dead \subseteq v.dead /\ \A t \in DOMAIN topics : Accounts(tx[h], t) => Accounts(v, t)
  BY <1>1, <1>5 DEF Accounts, u
<1> QED BY <1>1, <1>3, <1>4, <1>6, <1>7, <1>8, <1>9, <1>10, <1>11, QuietTxMoves

\* One more topic.
LEMMA OneMoreTopic ==
  ASSUME NEW ts \in Seq(Purposes), NEW p \in Purposes, NEW gn, gn \subseteq DOMAIN ts
  PROVE  LET us == Append(ts, p) IN
         /\ us \in Seq(Purposes) /\ Grows(ts, us, gn, gn) /\ gn \subseteq DOMAIN us
         /\ Len(ts) + 1 \in DOMAIN us /\ us[Len(ts) + 1] = p
         /\ Len(ts) + 1 \notin DOMAIN ts /\ Len(ts) + 1 # NoThread
         /\ \A t \in DOMAIN us : t \notin DOMAIN ts => t = Len(ts) + 1
BY DEF Grows, NoThread

\* Sections are made in their order.
LEMMA NextIsInTurn ==
  ASSUME NEW h \in Handlers, NEW p, NextMissing(h, p)
  PROVE  p \in Creatable \ DOMAIN tx[h].known /\ EarlierThan(p) \subseteq DOMAIN tx[h].known /\ p \in Purposes
<1>1. PICK k \in 1..3 : /\ p = PURPOSE_ORDER[k] /\ p \in Missing(h)
                        /\ \A j \in 1..(k - 1) : PURPOSE_ORDER[j] \notin Missing(h)
  BY DEF NextMissing, PURPOSE_ORDER
<1>2. \A q \in Common : q \notin Missing(h) => q \in DOMAIN tx[h].known
  BY DEF Missing, _required_purposes, Common
<1>3. PURPOSE_ORDER[1] = "auctions" /\ PURPOSE_ORDER[2] = "support" /\ PURPOSE_ORDER[3] = "moderation"
  BY DEF PURPOSE_ORDER
<1>4. EarlierThan(p) \subseteq DOMAIN tx[h].known
  <2>1. CASE k = 1
    BY <1>1, <1>3, <2>1 DEF EarlierThan
  <2>2. CASE k = 2
    BY <1>1, <1>2, <1>3, <2>2 DEF EarlierThan, Common
  <2>3. CASE k = 3
    BY <1>1, <1>2, <1>3, <2>3 DEF EarlierThan, Common
  <2> QED BY <2>1, <2>2, <2>3
<1>5. p \in Creatable /\ p \notin DOMAIN tx[h].known
  BY <1>1, <1>3 DEF Creatable, Missing
<1> QED BY <1>4, <1>5 DEF Creatable, Purposes

\* A topic is made at Telegram.
LEMMA CreateInv == ASSUME TopicsInv, NEW h \in Handlers, create_forum_topic(h) PROVE TopicsInv'
<1> DEFINE u == tx[h]
           v == tx'[h]
           n == Len(topics) + 1
<1>1. u.stage = "creating" /\ UNCHANGED <<moderator, roleChanges, rows, gone, failures>>
      /\ tx' = [tx EXCEPT ![h].stage = "inserting", ![h].fresh = n]
  BY DEF create_forum_topic, At
<1>2. PICK p : NextMissing(h, p) /\ topics' = Append(topics, p)
  BY DEF create_forum_topic
<1>3. /\ Typed(u, topics, gone) /\ Knows(u, topics) /\ Locks(u, rows)
      /\ \A g \in Handlers \ {h} : Apart(u, tx[g]) /\ Apart(tx[g], u)
      /\ failures = 0 => UpToDate(u, rows) /\ gone \subseteq RowThreads(rows)
      /\ tx = [g \in Handlers |-> tx[g]] /\ failures \in 0..MaxFailures
      /\ topics \in Seq(Purposes) /\ gone \subseteq DOMAIN topics /\ RowsAreSound(rows, topics)
  BY TxHas DEF TopicsInv
<1>4. p \in Creatable \ DOMAIN u.known /\ EarlierThan(p) \subseteq DOMAIN u.known /\ p \in Purposes
  BY <1>2, NextIsInTurn
<1>5. /\ topics' \in Seq(Purposes) /\ Grows(topics, topics', gone, gone) /\ gone \subseteq DOMAIN topics'
      /\ n \in DOMAIN topics' /\ topics'[n] = p /\ n \notin DOMAIN topics /\ n # NoThread
      /\ \A t \in DOMAIN topics' : t \notin DOMAIN topics => t = n
  BY <1>2, <1>3, <1>4, OneMoreTopic
<1>6. Becomes(h, v) /\ Alike(v, u, {"stage", "fresh"}) /\ v.stage = "inserting" /\ v.fresh = n
  <2>1. u = [f \in TxFields |-> u[f]]
    BY <1>3 DEF Typed
  <2>2. v = [[u EXCEPT !.stage = "inserting"] EXCEPT !.fresh = n]
    BY <1>1, <1>3
  <2>3. Becomes(h, v)
    BY <1>1, <1>3 DEF Becomes
  <2> HIDE DEF u, v, n
  <2> QED BY <2>1, <2>2, <2>3, RestIs DEF Alike
<1>7. v.known = u.known /\ v.made = u.made /\ v.doomed = u.doomed
      /\ v.dead = u.dead /\ v.place = u.place /\ v = [f \in TxFields |-> v[f]]
  BY <1>6, RestIs DEF Alike
<1> HIDE DEF u, v, n
<1>8. Typed(u, topics', gone) /\ Knows(u, topics')
  BY <1>3, <1>5, StaysTyped, StaysKnown
<1>9. Typed(v, topics', gone)
  BY <1>1, <1>5, <1>6, <1>7, <1>8 DEF Typed, Stages
<1>10. Knows(v, topics')
  BY <1>4, <1>5, <1>6, <1>7, <1>8 DEF Knows
<1>11. Locks(v, rows)
  <2>1. n \notin RowThreads(rows)
    BY <1>3, <1>5 DEF RowThreads, RowsAreSound
  <2> QED BY <1>1, <1>3, <1>6, <1>7, <2>1 DEF Locks
<1>12. ASSUME NEW g \in Handlers \ {h}
       PROVE  Apart(v, tx[g]) /\ Apart(tx[g], v)
  <2>1. tx[g].fresh # n /\ \A q \in tx[g].made : tx[g].known[q] # n
    <3>1. Typed(tx[g], topics, gone) /\ Knows(tx[g], topics)
      BY DEF TopicsInv
    <3>2. tx[g].fresh \in {NoThread} \cup DOMAIN topics
          /\ \A q \in tx[g].made : tx[g].known[q] \in DOMAIN topics
      BY <3>1 DEF Typed, Knows
    <3> QED BY <3>2, <1>5
  <2>2. Apart(u, tx[g]) /\ Apart(tx[g], u)
    BY <1>3
  <2> QED BY <1>6, <1>7, <2>1, <2>2 DEF Apart
<1>13. failures = 0 => InGoodOrder(v, tx[h], rows, topics, topics', gone, gone)
  <2> SUFFICES ASSUME failures = 0 PROVE InGoodOrder(v, u, rows, topics, topics', gone, gone)
    BY DEF u
  <2>1. UpToDate(v, rows)
    BY <1>1, <1>3, <1>6, <1>7 DEF UpToDate
  <2>2. u.fresh = NoThread
    BY <1>1, <1>3 DEF Typed
  <2>3. \A t \in DOMAIN topics' \ gone : t \notin DOMAIN topics \/ Accounts(u, t) => Accounts(v, t)
    <3>1. NoThread \notin DOMAIN topics'
      BY <1>5 DEF NoThread
    <3> QED BY <1>5, <1>6, <1>7, <2>2, <3>1 DEF Accounts
  <2> QED BY <1>3, <1>7, <2>1, <2>3 DEF InGoodOrder
<1> QED BY <1>1, <1>3, <1>5, <1>6, <1>9, <1>10, <1>11, <1>12, <1>13, TxMoves

\* A failure is counted.
LEMMA FailuresCount ==
  ASSUME TopicsAssumption, TopicsInv, Fails PROVE failures' \in 0..MaxFailures /\ failures' # 0
BY DEF TopicsAssumption, TopicsInv, Fails

\* No topic is made, or nobody knows of it.
LEMMA CreationFailsInv ==
  ASSUME TopicsAssumption, TopicsInv, NEW h \in Handlers, creation_fails(h) PROVE TopicsInv'
<1> DEFINE u == tx[h]
           v == tx'[h]
<1>1. u.stage = "creating" /\ UNCHANGED <<moderator, roleChanges, rows, gone>>
      /\ failures < MaxFailures /\ failures' = failures + 1
  BY DEF creation_fails, At, Fails
<1>2. PICK stage \in {"pruning", "deleting"} : tx' = [tx EXCEPT ![h].stage = stage, ![h].free = FALSE]
  BY DEF creation_fails
<1>3. /\ Typed(u, topics, gone) /\ Knows(u, topics) /\ Locks(u, rows)
      /\ \A g \in Handlers \ {h} : Apart(u, tx[g]) /\ Apart(tx[g], u)
      /\ tx = [g \in Handlers |-> tx[g]] /\ failures \in 0..MaxFailures
      /\ topics \in Seq(Purposes) /\ gone \subseteq DOMAIN topics
  BY TxHas DEF TopicsInv
<1>4. failures' \in 0..MaxFailures /\ failures' # 0
  BY FailuresCount DEF creation_fails
<1>5. /\ topics' \in Seq(Purposes) /\ Grows(topics, topics', gone, gone') /\ gone' \subseteq DOMAIN topics'
  <2>1. CASE UNCHANGED topics
    BY <1>1, <1>3, <2>1 DEF Grows
  <2>2. CASE \E p : NextMissing(h, p) /\ topics' = Append(topics, p)
    BY <1>1, <1>3, <2>2, NextIsInTurn, OneMoreTopic
  <2> QED BY <2>1, <2>2 DEF creation_fails
<1>6. Becomes(h, v) /\ Alike(v, u, {"stage", "free"}) /\ v.stage = stage
  <2>1. u = [f \in TxFields |-> u[f]]
    BY <1>3 DEF Typed
  <2>2. v = [[u EXCEPT !.stage = stage] EXCEPT !.free = FALSE]
    BY <1>2, <1>3
  <2>3. Becomes(h, v)
    BY <1>2, <1>3 DEF Becomes
  <2> HIDE DEF u, v
  <2> QED BY <2>1, <2>2, <2>3, RestIs DEF Alike
<1>7. v.known = u.known /\ v.made = u.made /\ v.fresh = u.fresh /\ v.doomed = u.doomed
      /\ v.dead = u.dead /\ v.place = u.place /\ v = [f \in TxFields |-> v[f]]
  BY <1>6, RestIs DEF Alike
<1> HIDE DEF u, v
<1>8. Typed(u, topics', gone') /\ Knows(u, topics')
  BY <1>3, <1>5, StaysTyped, StaysKnown
<1>9. Typed(v, topics', gone')
  BY <1>1, <1>6, <1>7, <1>8 DEF Typed, Stages
<1>10. Knows(v, topics') /\ Locks(v, rows)
  BY <1>1, <1>3, <1>6, <1>7, <1>8 DEF Knows, Locks
<1>11. \A g \in Handlers \ {h} : Apart(v, tx[g]) /\ Apart(tx[g], v)
  BY <1>3, <1>7, ApartShrinks
<1> QED BY <1>1, <1>4, <1>5, <1>6, <1>9, <1>10, <1>11, TxMoves

\* A topic is entered in the rows, or the unique constraint undoes it all.
LEMMA InsertInv == ASSUME TopicsInv, NEW h \in Handlers, insert_topic(h) PROVE TopicsInv'
<1> DEFINE u == tx[h]
           p == topics[tx[h].fresh]
<1>1. u.stage = "inserting" /\ UNCHANGED <<moderator, roleChanges, rows, topics, gone, failures>>
      /\ \A g \in Handlers \ {h} : p \notin tx[g].made
  BY DEF insert_topic, At
<1>2. /\ Typed(u, topics, gone) /\ Knows(u, topics) /\ Locks(u, rows)
      /\ \A g \in Handlers \ {h} : Apart(u, tx[g]) /\ Apart(tx[g], u)
      /\ failures = 0 => UpToDate(u, rows) /\ InOrder(rows)
      /\ tx = [g \in Handlers |-> tx[g]] /\ failures \in 0..MaxFailures /\ RowsAreSound(rows, topics)
  BY TxHas DEF TopicsInv
<1>3. /\ u.fresh # NoThread /\ u.fresh \in DOMAIN topics /\ p \in Creatable \ DOMAIN u.known
      /\ EarlierThan(p) \subseteq DOMAIN u.known /\ p \in Purposes /\ u.fresh \notin RowThreads(rows)
      /\ u.dead = {} /\ u.doomed = {} /\ p \notin u.made
  BY <1>1, <1>2 DEF Typed, Knows, Locks, Creatable, Purposes
<1>4. CASE rows[p] = NoRow
  <2> DEFINE v == Registered(h, p)
  <2>1. Becomes(h, v)
    BY <1>4 DEF insert_topic, Becomes
  <2>2. /\ v = [f \in TxFields |-> v[f]] /\ v.stage = "creating" /\ v.made = u.made \cup {p}
        /\ v.fresh = NoThread /\ v.doomed = {} /\ v.dead = {} /\ v.place = u.place
        /\ v.known = [q \in DOMAIN u.known \cup {p} |-> IF q = p THEN u.fresh ELSE u.known[q]]
    <3> DEFINE known == [q \in DOMAIN u.known \cup {p} |-> IF q = p THEN u.fresh ELSE u.known[q]]
    <3>1. u = [f \in TxFields |-> u[f]]
      BY <1>2 DEF Typed
    <3>2. v = [[[[u EXCEPT !.stage = "creating"] EXCEPT !.made = u.made \cup {p}]
                 EXCEPT !.fresh = NoThread] EXCEPT !.known = known]
      BY <3>1, RestIs DEF Registered
    <3> HIDE DEF u, p, known, v
    <3>3. /\ v = [f \in TxFields |-> v[f]] /\ v.stage = "creating" /\ v.made = u.made \cup {p}
          /\ v.fresh = NoThread /\ v.doomed = u.doomed /\ v.dead = u.dead /\ v.place = u.place
          /\ v.known = known
      BY <3>1, <3>2, RestIs
    <3> QED BY <1>3, <3>3 DEF known
  <2>3. DOMAIN v.known = DOMAIN u.known \cup {p} /\ v.known[p] = u.fresh
        /\ \A q \in DOMAIN u.known : v.known[q] = u.known[q]
    BY <1>3, <2>2
  <2>4. topics[u.fresh] = p
    OBVIOUS
  <2> HIDE DEF v, p, u
  <2>5. Typed(v, topics, gone)
    BY <1>2, <1>3, <2>2, <2>3 DEF Typed, Stages
  <2>6. Knows(v, topics)
    <3>1. \A q \in DOMAIN v.known :
            v.known[q] \in DOMAIN topics /\ _canonical_purpose(topics[v.known[q]]) = _canonical_purpose(q)
      BY <1>2, <1>3, <2>3, <2>4 DEF Knows
    <3>2. ASSUME NEW q \in v.made
          PROVE  topics[v.known[q]] = q /\ EarlierThan(q) \subseteq DOMAIN v.known
      <4>1. CASE q = p
        BY <1>3, <2>3, <2>4, <4>1
      <4>2. CASE q # p
        <5>1. q \in u.made /\ q \in DOMAIN u.known
          BY <1>2, <2>2, <4>2 DEF Typed
        <5>2. topics[u.known[q]] = q /\ EarlierThan(q) \subseteq DOMAIN u.known
          BY <1>2, <5>1 DEF Knows
        <5> QED BY <2>3, <5>1, <5>2
      <4> QED BY <4>1, <4>2
    <3> QED BY <2>2, <3>1, <3>2 DEF Knows
  <2>7. Locks(v, rows)
    <3>1. \A q \in v.made : rows[q] = NoRow /\ v.known[q] \notin RowThreads(rows)
      BY <1>2, <1>3, <1>4, <2>2, <2>3 DEF Locks, Typed
    <3>2. "support" \in v.made => ~rows["points"].active
      BY <1>1, <1>2, <1>3, <2>2 DEF Locks
    <3>3. "support" \notin DOMAIN v.known => ~rows["points"].active
      BY <1>1, <1>2, <2>3 DEF Locks
    <3> QED BY <2>2, <3>1, <3>2, <3>3 DEF Locks
  <2>8. ASSUME NEW g \in Handlers \ {h}
        PROVE  Apart(v, tx[g]) /\ Apart(tx[g], v)
    <3>1. Apart(u, tx[g]) /\ Apart(tx[g], u) /\ p \notin tx[g].made
      BY <1>1, <1>2
    <3>2. u.made \subseteq DOMAIN u.known
      BY <1>2 DEF Typed
    <3> QED BY <1>3, <2>2, <2>3, <3>1, <3>2 DEF Apart
  <2>9. failures = 0 => UpToDate(v, rows)
    BY <1>1, <1>2, <2>2, <2>3 DEF UpToDate
  <2>10. \A t \in DOMAIN topics : Accounts(u, t) => Accounts(v, t)
    <3>1. \A q \in u.made : q \in v.made /\ v.known[q] = u.known[q]
      BY <1>2, <2>2, <2>3 DEF Typed
    <3>2. p \in v.made /\ v.known[p] = u.fresh
      BY <2>2, <2>3
    <3> QED BY <3>1, <3>2 DEF Accounts
  <2>11. tx[h].dead \subseteq v.dead /\ \A t \in DOMAIN topics : Accounts(tx[h], t) => Accounts(v, t)
    BY <1>3, <2>10 DEF u
  <2> QED BY <1>1, <1>2, <2>1, <2>5, <2>6, <2>7, <2>8, <2>9, <2>11, QuietTxMoves
<1>5. CASE rows[p] # NoRow
  <2> DEFINE v == RolledBack(h)
  <2>1. Becomes(h, v)
    BY <1>5 DEF insert_topic, Becomes
  <2>2. /\ v = [f \in TxFields |-> v[f]] /\ v.stage = "routed" /\ v.made = {}
        /\ v.fresh = NoThread /\ v.doomed = {} /\ v.dead = {} /\ v.place = u.place
        /\ v.known = NoTopics
    <3>1. u = [f \in TxFields |-> u[f]]
      BY <1>2 DEF Typed
    <3> QED BY <3>1, RestIs DEF RolledBack
  <2>3. topics[u.fresh] = p
    OBVIOUS
  <2> HIDE DEF v, p, u
  <2>4. Bare(v)
    BY <2>2 DEF Bare
  <2>5. Typed(v, topics, gone)
    BY <1>2, <2>2, RestIs DEF Typed, Stages
  <2>6. Knows(v, topics)
    BY <2>2, RestIs DEF Knows
  <2>7. Locks(v, rows) /\ \A g \in Handlers \ {h} : Apart(v, tx[g]) /\ Apart(tx[g], v)
    BY <2>2, <2>4, BareIsApart
  <2>8. ASSUME failures = 0
        PROVE  /\ UpToDate(v, rows) /\ tx[h].dead \subseteq v.dead
               /\ \A t \in DOMAIN topics : Accounts(tx[h], t) => rows[topics[t]].thread \notin {NoThread, t}
    <3>1. UpToDate(u, rows) /\ InOrder(rows)
      BY <1>2, <2>8
    <3>2. u.made = {}
      <4>1. \A q \in u.made : rows[q] = NoRow /\ q \in Creatable /\ q \in DOMAIN u.known
                              /\ EarlierThan(q) \subseteq DOMAIN u.known
        BY <1>2 DEF Locks, Typed, Knows
      <4>2. CASE p = "auctions"
        BY <4>1, <4>2, <1>3 DEF EarlierThan, Common, Creatable
      <4>3. CASE p = "support"
        <5>1. "auctions" \notin u.made
          BY <4>1, <4>3, <3>1, <1>5 DEF InOrder
        <5>2. "moderation" \notin u.made
          BY <4>1, <4>3, <1>3 DEF EarlierThan, Common
        <5> QED BY <4>1, <4>3, <5>1, <5>2, <1>3 DEF Creatable
      <4>4. CASE p = "moderation"
        <5>1. "auctions" \notin u.made
          BY <4>1, <4>4, <3>1, <1>5 DEF InOrder
        <5>2. "support" \notin u.made
          BY <4>1, <4>4, <3>1, <1>2, <1>5 DEF InOrder, Locks
        <5> QED BY <4>1, <4>4, <5>1, <5>2, <1>3 DEF Creatable
      <4> QED BY <4>2, <4>3, <4>4, <1>3 DEF Creatable
    <3>3. rows[p].thread # NoThread /\ rows[p].thread # u.fresh
      BY <1>2, <1>3, <1>5 DEF RowsAreSound, RowThreads
    <3>4. \A t \in DOMAIN topics : Accounts(u, t) => t = u.fresh
      BY <3>2 DEF Accounts
    <3>5. UpToDate(v, rows)
      BY <2>2 DEF UpToDate
    <3> QED BY <1>3, <2>2, <2>3, <3>3, <3>4, <3>5 DEF u
  <2> QED BY <1>1, <1>2, <2>1, <2>5, <2>6, <2>7, <2>8, QuietTxMoves
<1> QED BY <1>4, <1>5

\* The transaction takes stock of the threads no section in use needs.
LEMMA PruneInv == ASSUME TopicsInv, NEW h \in Handlers, _prune_legacy_private_topics(h) PROVE TopicsInv'
<1> DEFINE u == tx[h]
           v == tx'[h]
           n == _normalize_topics_map(tx[h].known)
           doomed == _redundant_private_topic_thread_ids(h, n)
<1>1. /\ u.stage = "pruning" \/ (u.stage = "creating" /\ Missing(h) = {})
      /\ UNCHANGED <<moderator, roleChanges, rows, topics, gone, failures>>
      /\ tx' = [tx EXCEPT ![h].stage = "deleting", ![h].known = n, ![h].doomed = doomed]
  BY DEF _prune_legacy_private_topics, At
<1>2. /\ Typed(u, topics, gone) /\ Knows(u, topics) /\ Locks(u, rows)
      /\ \A g \in Handlers \ {h} : Apart(u, tx[g]) /\ Apart(tx[g], u)
      /\ failures = 0 => UpToDate(u, rows)
      /\ tx = [g \in Handlers |-> tx[g]] /\ failures \in 0..MaxFailures /\ RowsAreSound(rows, topics)
  BY TxHas DEF TopicsInv
<1>3. Becomes(h, v) /\ Alike(v, u, {"stage", "known", "doomed"}) /\ v.stage = "deleting"
      /\ v.known = n /\ v.doomed = doomed
  <2>1. u = [f \in TxFields |-> u[f]]
    BY <1>2 DEF Typed
  <2>2. v = [[[u EXCEPT !.stage = "deleting"] EXCEPT !.known = n] EXCEPT !.doomed = doomed]
    BY <1>1, <1>2
  <2>3. Becomes(h, v)
    BY <1>1, <1>2 DEF Becomes
  <2> HIDE DEF u, v, n, doomed
  <2> QED BY <2>1, <2>2, <2>3, RestIs DEF Alike
<1>4. v.made = u.made /\ v.fresh = u.fresh /\ v.dead = u.dead /\ v.place = u.place
      /\ v = [f \in TxFields |-> v[f]]
  BY <1>3, RestIs DEF Alike
<1>5. /\ DOMAIN u.known \subseteq DOMAIN n /\ DOMAIN n \subseteq Purposes
      /\ \A p \in DOMAIN n \ {"support", "points"} : p \in DOMAIN u.known /\ n[p] = u.known[p]
      /\ "support" \in DOMAIN u.known => n["support"] = u.known["support"]
      /\ "support" \in DOMAIN n \/ "points" \in DOMAIN n =>
              /\ "support" \in DOMAIN u.known \/ "points" \in DOMAIN u.known
              /\ "support" \in DOMAIN n /\ "points" \in DOMAIN n => n["points"] = n["support"]
              /\ "support" \in DOMAIN n
      /\ "support" \notin DOMAIN u.known /\ "points" \in DOMAIN u.known => n["support"] = u.known["points"]
  <2>1. DOMAIN u.known \subseteq Purposes
    BY <1>2 DEF Typed
  <2> QED BY <2>1, NormalizedMap
<1>6. /\ doomed \subseteq RowThreads(rows) /\ doomed \subseteq DOMAIN topics
      /\ \A p \in Common \cap DOMAIN n : n[p] \notin doomed
  <2> HIDE DEF n
  <2>1. doomed \subseteq RowThreads(rows) /\ \A p \in Common \cap DOMAIN n : n[p] \notin doomed
    BY DEF _redundant_private_topic_thread_ids, RowThreads, Common, _required_purposes
  <2>2. \A p \in Purposes : rows[p].active => rows[p].thread \in DOMAIN topics
    BY <1>2 DEF RowsAreSound, NoRow
  <2>3. doomed \subseteq DOMAIN topics
    BY <2>2 DEF _redundant_private_topic_thread_ids
  <2> QED BY <2>1, <2>3
<1>7. Missing(h) = {} => Common \subseteq DOMAIN u.known
  BY DEF Missing, _required_purposes, Common
<1> HIDE DEF u, v, n, doomed
<1>8. \A p \in u.made : p \in DOMAIN n /\ n[p] = u.known[p]
  BY <1>2, <1>5 DEF Typed, Creatable
<1>9. Typed(v, topics, gone)
  BY <1>1, <1>2, <1>3, <1>4, <1>5, <1>6 DEF Typed, Stages
<1>10. Knows(v, topics)
  <2>1. \A p \in DOMAIN n :
          n[p] \in DOMAIN topics /\ _canonical_purpose(topics[n[p]]) = _canonical_purpose(p)
    BY <1>2, <1>5 DEF Knows, _canonical_purpose
  <2>2. \A p \in v.made : topics[v.known[p]] = p /\ EarlierThan(p) \subseteq DOMAIN v.known
    BY <1>2, <1>3, <1>4, <1>5, <1>8 DEF Knows
  <2> QED BY <1>3, <2>1, <2>2 DEF Knows
<1>11. Locks(v, rows)
  BY <1>1, <1>2, <1>3, <1>4, <1>6, <1>8 DEF Locks, Typed
<1>12. \A g \in Handlers \ {h} : Apart(v, tx[g]) /\ Apart(tx[g], v)
  BY <1>2, <1>3, <1>4, <1>8, ApartShrinks
<1>13. ASSUME failures = 0 PROVE UpToDate(v, rows)
  <2>1. UpToDate(u, rows) /\ u.stage = "creating" /\ Common \subseteq DOMAIN u.known
    BY <1>1, <1>2, <1>7, <1>13 DEF UpToDate
  <2>2. u.dead = {}
    BY <1>2, <2>1 DEF Typed
  <2>3. \A p \in Common : p \in DOMAIN n /\ n[p] = u.known[p] /\ n[p] \notin doomed
    BY <1>5, <1>6, <2>1 DEF Common
  <2> QED BY <1>3, <1>4, <2>1, <2>2, <2>3 DEF UpToDate
<1>14. tx[h].dead \subseteq v.dead /\ \A t \in DOMAIN topics : Accounts(tx[h], t) => Accounts(v, t)
  BY <1>3, <1>4, <1>8 DEF Accounts, u
<1> QED BY <1>1, <1>2, <1>3, <1>9, <1>10, <1>11, <1>12, <1>13, <1>14, QuietTxMoves

\* A thread is deleted in the chat, or was, or cannot be.
LEMMA DeleteInv ==
  ASSUME TopicsAssumption, TopicsInv, NEW h \in Handlers, NEW t, delete_forum_topic(h, t) PROVE TopicsInv'
<1> DEFINE u == tx[h]
           v == tx'[h]
<1>1. u.stage = "deleting" /\ t \in u.doomed /\ UNCHANGED <<moderator, roleChanges, rows, topics>>
  BY DEF delete_forum_topic, At
<1>2. /\ Typed(u, topics, gone) /\ Knows(u, topics) /\ Locks(u, rows)
      /\ \A g \in Handlers \ {h} : Apart(u, tx[g]) /\ Apart(tx[g], u)
      /\ failures = 0 => UpToDate(u, rows) /\ gone \subseteq RowThreads(rows)
      /\ tx = [g \in Handlers |-> tx[g]] /\ failures \in 0..MaxFailures
      /\ topics \in Seq(Purposes) /\ gone \subseteq DOMAIN topics
  BY TxHas DEF TopicsInv
<1>3. PICK dead \in {u.dead, u.dead \cup {t}} :
        /\ tx' = [tx EXCEPT ![h].doomed = @ \ {t}, ![h].dead = dead]
        /\ \/ dead = u.dead /\ gone' = gone
           \/ dead = u.dead \cup {t} /\ gone' = gone \cup {t}
  <2>1. CASE gone' = gone \cup {t} /\ tx' = [tx EXCEPT ![h].doomed = @ \ {t}, ![h].dead = @ \cup {t}]
    BY <1>2, <2>1
  <2>2. CASE UNCHANGED gone /\ tx' = [tx EXCEPT ![h].doomed = @ \ {t}]
    <3>1. [tx EXCEPT ![h].doomed = @ \ {t}] = [tx EXCEPT ![h].doomed = @ \ {t}, ![h].dead = u.dead]
      <4> DEFINE w == [u EXCEPT !.doomed = @ \ {t}]
                 x == [w EXCEPT !.dead = u.dead]
      <4>1. w = x
        <5>1. u = [f \in TxFields |-> u[f]]
          BY <1>2 DEF Typed
        <5> HIDE DEF u
        <5>2. w = [f \in TxFields |-> w[f]] /\ w.dead = u.dead
          BY <5>1, RestIs
        <5> QED BY <5>2, RestIs
      <4>2. [tx EXCEPT ![h].doomed = @ \ {t}] = [tx EXCEPT ![h] = w]
        BY <1>2
      <4>3. [tx EXCEPT ![h].doomed = @ \ {t}, ![h].dead = u.dead] = [tx EXCEPT ![h] = x]
        BY <1>2
      <4> QED BY <4>1, <4>2, <4>3
    <3> QED BY <2>2, <3>1
  <2> QED BY <2>1, <2>2 DEF delete_forum_topic
<1>4. Becomes(h, v) /\ Alike(v, u, {"doomed", "dead"}) /\ v.doomed = u.doomed \ {t} /\ v.dead = dead
  <2>1. u = [f \in TxFields |-> u[f]]
    BY <1>2 DEF Typed
  <2>2. v = [[u EXCEPT !.doomed = @ \ {t}] EXCEPT !.dead = dead]
    BY <1>2, <1>3
  <2>3. Becomes(h, v)
    BY <1>2, <1>3 DEF Becomes
  <2> HIDE DEF u, v
  <2> QED BY <2>1, <2>2, <2>3, RestIs DEF Alike
<1>5. v.stage = u.stage /\ v.known = u.known /\ v.made = u.made /\ v.fresh = u.fresh
      /\ v.place = u.place /\ v = [f \in TxFields |-> v[f]]
  BY <1>4, RestIs DEF Alike
<1>6. failures' \in 0..MaxFailures /\ (failures' = 0 => failures = 0)
  BY <1>2, FailuresCount DEF delete_forum_topic
<1> HIDE DEF u, v
<1>7. gone \subseteq gone' /\ gone' \subseteq gone \cup {t} /\ gone' \subseteq DOMAIN topics /\ dead \subseteq gone'
      /\ gone' \ gone \subseteq dead /\ u.dead \subseteq dead
  BY <1>1, <1>2, <1>3 DEF Typed
<1>8. Typed(v, topics, gone')
  BY <1>1, <1>2, <1>4, <1>5, <1>7 DEF Typed
<1>9. Knows(v, topics) /\ Locks(v, rows)
  BY <1>2, <1>4, <1>5 DEF Knows, Locks
<1>10. \A g \in Handlers \ {h} : Apart(v, tx[g]) /\ Apart(tx[g], v)
  BY <1>2, <1>5, ApartShrinks
<1>11. failures' = 0 => InGoodOrder(v, tx[h], rows, topics, topics, gone, gone')
  <2> SUFFICES ASSUME failures = 0 PROVE InGoodOrder(v, u, rows, topics, topics, gone, gone')
    BY <1>6 DEF u
  <2>1. UpToDate(u, rows) /\ gone \subseteq RowThreads(rows) /\ t \in RowThreads(rows)
    BY <1>1, <1>2 DEF Locks
  <2>2. v.doomed \cup v.dead \subseteq u.doomed \cup u.dead
    BY <1>1, <1>3, <1>4
  <2>3. UpToDate(v, rows)
    BY <1>5, <2>1, <2>2 DEF UpToDate
  <2>4. \A s \in DOMAIN topics : Accounts(u, s) => Accounts(v, s)
    BY <1>5 DEF Accounts
  <2> QED BY <1>4, <1>7, <2>1, <2>3, <2>4 DEF InGoodOrder
<1>12. Grows(topics, topics, gone, gone')
  BY <1>7 DEF Grows
<1> QED BY <1>1, <1>2, <1>4, <1>6, <1>7, <1>8, <1>9, <1>10, <1>11, <1>12, TxMoves

\* A message has been sent or given up, or a handler dies with what it has made.
LEMMA OverInv ==
  ASSUME TopicsAssumption, TopicsInv, NEW h \in Handlers, NEW p, NEW place \in {Nowhere, NoThread} \cup DOMAIN topics,
         Becomes(h, [Over EXCEPT !.purpose = p, !.place = place]) \/ Becomes(h, Over),
         UNCHANGED <<moderator, roleChanges, rows, topics, gone>>,
         Fails \/ (tx[h].stage = "routed" /\ UNCHANGED failures)
  PROVE  TopicsInv'
<1> DEFINE v == tx'[h]
<1>1. Becomes(h, v) /\ v = [f \in TxFields |-> v[f]] /\ v.stage = "over" /\ v.known = NoTopics /\ v.made = {}
      /\ v.fresh = NoThread /\ v.doomed = {} /\ v.dead = {}
      /\ v.place \in {Nowhere, NoThread} \cup DOMAIN topics
  <2>1. tx = [g \in Handlers |-> tx[g]]
    BY DEF TopicsInv
  <2>2. v = [Over EXCEPT !.purpose = p, !.place = place] \/ v = Over
    BY <2>1 DEF Becomes
  <2>3. Becomes(h, v)
    BY <2>1 DEF Becomes
  <2> HIDE DEF v
  <2> QED BY <2>2, <2>3, RestIs
<1>2. Typed(tx[h], topics, gone) /\ failures \in 0..MaxFailures
  BY TxHas
<1> HIDE DEF v
<1>3. Bare(v)
  BY <1>1 DEF Bare
<1>4. Typed(v, topics, gone)
  BY <1>1, RestIs DEF Typed, Stages
<1>5. Knows(v, topics) /\ UpToDate(v, rows)
  BY <1>1, RestIs DEF Knows, UpToDate
<1>6. Locks(v, rows) /\ \A g \in Handlers \ {h} : Apart(v, tx[g]) /\ Apart(tx[g], v)
  BY <1>1, <1>3, BareIsApart
<1>7. failures' \in 0..MaxFailures /\ (failures' = 0 => failures = 0 /\ tx[h].stage = "routed")
  BY <1>2, FailuresCount
<1>8. tx[h].stage = "routed" => tx[h].dead = {} /\ \A t \in DOMAIN topics : ~Accounts(tx[h], t)
  <2>1. NoThread \notin DOMAIN topics
    BY TxHas DEF NoThread
  <2> QED BY <1>2, <2>1 DEF Typed, Accounts
<1> QED BY <1>1, <1>4, <1>5, <1>6, <1>7, <1>8, QuietTxMoves

\* Where a message goes.
LEMMA TargetIs ==
  ASSUME TopicsInv, NEW h \in Handlers, NEW p
  PROVE  Target(h, p) \in {NoThread} \cup DOMAIN topics
BY TxHas DEF Target, Knows

\* Roles change, and the user deletes a section.
LEMMA WorldInv ==
  ASSUME TopicsAssumption, TopicsInv,
         grant_moderator_role \/ revoke_moderator_role \/ \E t \in Threads : user_deletes_topic(t)
  PROVE  TopicsInv'
<1>1. CASE grant_moderator_role \/ revoke_moderator_role
  <2>1. UNCHANGED <<rows, topics, gone, tx, failures>> /\ moderator' \in BOOLEAN
        /\ roleChanges' = roleChanges + 1 /\ roleChanges < MaxRoleChanges
    BY <1>1 DEF grant_moderator_role, revoke_moderator_role
  <2>2. roleChanges' \in 0..MaxRoleChanges
    BY <2>1 DEF TopicsInv, TopicsAssumption
  <2> QED BY <2>1, <2>2 DEF TopicsInv
<1>2. CASE \E t \in Threads : user_deletes_topic(t)
  <2>1. PICK t : t \in DOMAIN topics /\ gone' = gone \cup {t}
    BY <1>2 DEF user_deletes_topic
  <2>2. UNCHANGED <<moderator, roleChanges, rows, topics, tx>> /\ Fails
    BY <1>2 DEF user_deletes_topic
  <2>3. failures' \in 0..MaxFailures /\ failures' # 0
    BY <2>2, FailuresCount
  <2>4. Grows(topics, topics, gone, gone') /\ gone' \subseteq DOMAIN topics
    BY <2>1 DEF Grows, TopicsInv
  <2>5. \A h \in Handlers : Typed(tx[h], topics, gone')
    BY <2>4, StaysTyped DEF TopicsInv
  <2> QED BY <2>2, <2>3, <2>4, <2>5 DEF TopicsInv
<1> QED BY <1>1, <1>2

\* A transaction commits: its sections are in the rows, and the rows of the
\* threads it has deleted are off.
LEMMA CommitRows ==
  ASSUME TopicsInv, NEW h \in Handlers, commit(h)
  PROVE  /\ \A p \in tx[h].made : rows'[p] = [thread |-> tx[h].known[p], active |-> TRUE]
         /\ \A p \in Purposes \ tx[h].made :
              /\ rows'[p].thread = rows[p].thread
              /\ rows'[p].active <=> rows[p].active /\ rows[p].thread \notin tx[h].dead
              /\ rows[p] = NoRow <=> rows'[p] = NoRow
              /\ rows'[p] = [thread |-> rows'[p].thread, active |-> rows'[p].active]
         /\ tx[h].made \subseteq Purposes /\ RowsAreSound(rows', topics)
         /\ UNCHANGED <<moderator, roleChanges, topics, gone, failures>>
<1>1. /\ rows' = [p \in Purposes |->
           IF p \in tx[h].made THEN [thread |-> tx[h].known[p], active |-> TRUE]
           ELSE [rows[p] EXCEPT !.active = @ /\ rows[p].thread \notin tx[h].dead]]
      /\ UNCHANGED <<moderator, roleChanges, topics, gone, failures>>
  BY DEF commit
<1>2. /\ tx[h].made \subseteq Purposes /\ tx[h].made \subseteq DOMAIN tx[h].known
      /\ \A p \in tx[h].made : tx[h].known[p] \in DOMAIN topics /\ topics[tx[h].known[p]] = p
      /\ RowsAreSound(rows, topics) /\ NoThread \notin DOMAIN topics
  <2>1. Typed(tx[h], topics, gone) /\ Knows(tx[h], topics) /\ RowsAreSound(rows, topics)
    BY TxHas
  <2>2. NoThread \notin DOMAIN topics
    BY TxHas DEF NoThread
  <2>3. tx[h].made \subseteq Purposes /\ tx[h].made \subseteq DOMAIN tx[h].known
    BY <2>1 DEF Typed, Creatable, Purposes
  <2>4. \A p \in tx[h].made : tx[h].known[p] \in DOMAIN topics /\ topics[tx[h].known[p]] = p
    BY <2>1, <2>3 DEF Knows
  <2> QED BY <2>1, <2>2, <2>3, <2>4
<1>3. \A p \in tx[h].made : rows'[p] = [thread |-> tx[h].known[p], active |-> TRUE]
  BY <1>1, <1>2
<1>4. ASSUME NEW p \in Purposes \ tx[h].made
      PROVE  /\ rows'[p].thread = rows[p].thread
             /\ rows'[p].active <=> rows[p].active /\ rows[p].thread \notin tx[h].dead
             /\ rows[p] = NoRow <=> rows'[p] = NoRow
             /\ rows'[p] = [thread |-> rows'[p].thread, active |-> rows'[p].active]
             /\ rows'[p] \in [thread : {NoThread} \cup DOMAIN topics, active : BOOLEAN]
  <2>1. rows[p] \in [thread : {NoThread} \cup DOMAIN topics, active : BOOLEAN]
    BY <1>2 DEF RowsAreSound
  <2>2. PICK on \in BOOLEAN :
          /\ rows'[p] = [rows[p] EXCEPT !.active = on]
          /\ on <=> rows[p].active /\ rows[p].thread \notin tx[h].dead
    <3>1. rows'[p] = [rows[p] EXCEPT !.active = rows[p].active /\ rows[p].thread \notin tx[h].dead]
      BY <1>1
    <3>2. (rows[p].active /\ rows[p].thread \notin tx[h].dead) \in BOOLEAN
      OBVIOUS
    <3> QED BY <3>1, <3>2
  <2>3. rows'[p] = [thread |-> rows[p].thread, active |-> on]
    BY <2>1, <2>2
  <2>4. rows[p].thread = NoThread => rows[p] = NoRow /\ rows[p].active = FALSE
    BY <1>2 DEF RowsAreSound, NoRow
  <2>5. rows[p] = NoRow <=> rows'[p] = NoRow
    <3>1. CASE rows[p].thread = NoThread
      <4>1. on = FALSE
        BY <2>2, <2>4, <3>1
      <4> QED BY <2>3, <2>4, <3>1, <4>1 DEF NoRow
    <3>2. CASE rows[p].thread # NoThread
      BY <2>3, <3>2 DEF NoRow
    <3> QED BY <3>1, <3>2
  <2>6. rows'[p].thread = rows[p].thread /\ rows'[p].active = on
    BY <2>3
  <2> QED BY <2>1, <2>2, <2>3, <2>5, <2>6
<1>5. RowsAreSound(rows', topics)
  <2>1. \A p \in tx[h].made : rows'[p].thread = tx[h].known[p] /\ tx[h].known[p] # NoThread
          /\ rows'[p] \in [thread : {NoThread} \cup DOMAIN topics, active : BOOLEAN]
    <3> TAKE p \in tx[h].made
    <3> DEFINE t == tx[h].known[p]
    <3>1. t \in DOMAIN topics /\ t # NoThread
      BY <1>2
    <3>2. rows'[p] = [thread |-> t, active |-> TRUE]
      BY <1>3
    <3> HIDE DEF t
    <3> QED BY <3>1, <3>2 DEF t
  <2>2. rows' \in [Purposes -> [thread : {NoThread} \cup DOMAIN topics, active : BOOLEAN]]
    BY <1>1, <1>4, <2>1
  <2>3. ASSUME NEW p \in Purposes
        PROVE  IF rows'[p].thread = NoThread THEN rows'[p] = NoRow
               ELSE _canonical_purpose(topics[rows'[p].thread]) = _canonical_purpose(p)
    <3>1. CASE p \in tx[h].made
      BY <1>2, <2>1, <3>1
    <3>2. CASE p \notin tx[h].made
      BY <1>2, <1>4, <3>2 DEF RowsAreSound
    <3> QED BY <3>1, <3>2
  <2> QED BY <2>2, <2>3 DEF RowsAreSound
<1> QED BY <1>1, <1>2, <1>3, <1>4, <1>5

\* What is in use stays in use, if nothing has failed.
LEMMA CommitKeepsSections ==
  ASSUME TopicsInv, NEW h \in Handlers, commit(h), failures = 0, NEW p \in Common,
         SectionOf(rows, p) # NoThread
  PROVE  SectionOf(rows', p) = SectionOf(rows, p)
<1>1. UpToDate(tx[h], rows) /\ Locks(tx[h], rows) /\ tx[h].stage = "deleting"
      /\ RowsAreSound(rows, topics) /\ tx[h].made \subseteq Creatable
  BY TxHas DEF commit, At, Typed
<1>2. /\ \A q \in tx[h].made : rows[q] = NoRow
      /\ "support" \in tx[h].made => ~rows["points"].active
  BY <1>1 DEF Locks
<1>3. p \notin tx[h].made
  BY <1>2 DEF SectionOf, NoRow
<1>4. SectionOf(rows, p) \notin tx[h].dead
  <2>1. CASE tx[h].dead = {}
    BY <2>1
  <2>2. CASE tx[h].dead # {}
    <3>1. p \in DOMAIN tx[h].known /\ tx[h].known[p] \notin tx[h].dead
      BY <1>1, <2>2 DEF UpToDate
    <3>2. tx[h].known[p] = SectionOf(rows, p)
      BY <1>1, <1>3, <3>1 DEF UpToDate
    <3> QED BY <3>1, <3>2
  <2> QED BY <2>1, <2>2
<1>5. \A q \in Purposes \ tx[h].made :
        /\ rows'[q].thread = rows[q].thread
        /\ rows'[q].active <=> rows[q].active /\ rows[q].thread \notin tx[h].dead
  BY CommitRows
<1>6. "points" \notin tx[h].made /\ p \in Purposes /\ "points" \in Purposes
  BY <1>1 DEF Creatable, Common, Purposes
<1> QED BY <1>3, <1>4, <1>5, <1>6 DEF SectionOf

\* What other transactions hold is as it was, and what is in use is in order.
LEMMA CommitInv == ASSUME TopicsInv, NEW h \in Handlers, commit(h) PROVE TopicsInv'
<1> DEFINE u == tx[h]
           v == tx'[h]
<1>1. /\ u.stage = "deleting" /\ u.doomed = {}
      /\ tx' = [tx EXCEPT ![h].stage = "routed", ![h].made = {}, ![h].dead = {}]
  BY DEF commit, At
<1>2. /\ \A p \in u.made : rows'[p] = [thread |-> u.known[p], active |-> TRUE]
      /\ \A p \in Purposes \ u.made :
              /\ rows'[p].thread = rows[p].thread
              /\ rows'[p].active <=> rows[p].active /\ rows[p].thread \notin u.dead
              /\ rows[p] = NoRow <=> rows'[p] = NoRow
              /\ rows'[p] = [thread |-> rows'[p].thread, active |-> rows'[p].active]
      /\ u.made \subseteq Purposes /\ RowsAreSound(rows', topics)
      /\ UNCHANGED <<moderator, roleChanges, topics, gone, failures>>
  BY CommitRows
<1>3. /\ Typed(u, topics, gone) /\ Knows(u, topics) /\ Locks(u, rows) /\ RowsAreSound(rows, topics)
      /\ \A g \in Handlers \ {h} : Apart(u, tx[g]) /\ Apart(tx[g], u)
      /\ failures = 0 => UpToDate(u, rows) /\ gone \subseteq RowThreads(rows) /\ InOrder(rows)
      /\ tx = [g \in Handlers |-> tx[g]] /\ gone \subseteq DOMAIN topics /\ topics \in Seq(Purposes)
  BY TxHas DEF TopicsInv
<1>4. Becomes(h, v) /\ Alike(v, u, {"stage", "made", "dead"}) /\ v.stage = "routed" /\ v.made = {} /\ v.dead = {}
  <2>1. u = [f \in TxFields |-> u[f]]
    BY <1>3 DEF Typed
  <2>2. v = [[[u EXCEPT !.stage = "routed"] EXCEPT !.made = {}] EXCEPT !.dead = {}]
    BY <1>1, <1>3
  <2>3. Becomes(h, v)
    BY <1>1, <1>3 DEF Becomes
  <2> HIDE DEF u, v
  <2> QED BY <2>1, <2>2, <2>3, RestIs DEF Alike
<1>5. v.known = u.known /\ v.fresh = u.fresh /\ v.doomed = {} /\ v.place = u.place /\ v = [f \in TxFields |-> v[f]]
  BY <1>1, <1>4, RestIs DEF Alike
<1>6. tx' = [g \in Handlers |-> tx'[g]] /\ \A g \in Handlers \ {h} : tx'[g] = tx[g]
  BY <1>4, BecomesIt
<1>7. NoThread \notin DOMAIN topics
  BY <1>3 DEF NoThread
<1>8. ASSUME NEW p \in u.made
      PROVE  /\ rows[p] = NoRow /\ rows[p].thread = NoThread /\ ~rows[p].active
             /\ u.known[p] \in DOMAIN topics /\ u.known[p] # NoThread /\ topics[u.known[p]] = p
             /\ u.known[p] \notin RowThreads(rows)
             /\ rows'[p].thread = u.known[p]
  <2> DEFINE t == u.known[p]
  <2>1. rows[p] = NoRow /\ t \notin RowThreads(rows)
    BY <1>3 DEF Locks
  <2>2. p \in DOMAIN u.known
    BY <1>3 DEF Typed
  <2>3. t \in DOMAIN topics /\ topics[t] = p
    BY <1>3, <2>2 DEF Knows
  <2>4. rows'[p] = [thread |-> t, active |-> TRUE]
    BY <1>2
  <2> HIDE DEF t, u
  <2>5. rows'[p].thread = t
    BY <2>4
  <2> QED BY <1>7, <2>1, <2>3, <2>5 DEF t, NoRow
<1>9. u.fresh = NoThread /\ u.dead \subseteq gone
  BY <1>1, <1>3 DEF Typed
<1>10. ASSUME failures = 0, NEW p \in Common, SectionOf(rows, p) # NoThread
       PROVE  SectionOf(rows', p) = SectionOf(rows, p)
  BY <1>10, CommitKeepsSections
<1>11. ASSUME NEW t \in RowThreads(rows')
       PROVE  t \in RowThreads(rows) \/ \E p \in u.made : t = u.known[p]
  <2>1. PICK p \in Purposes : t = rows'[p].thread
    BY <1>11 DEF RowThreads
  <2>2. CASE p \in u.made
    BY <1>8, <2>1, <2>2
  <2>3. CASE p \notin u.made
    BY <1>2, <2>1, <2>3 DEF RowThreads
  <2> QED BY <2>2, <2>3
<1>12. ASSUME NEW t \in RowThreads(rows), t # NoThread
       PROVE  t \in RowThreads(rows')
  <2>1. PICK p \in Purposes : t = rows[p].thread
    BY DEF RowThreads
  <2>2. p \notin u.made
    BY <1>8, <1>12, <2>1
  <2> QED BY <1>2, <2>1, <2>2 DEF RowThreads
<1>13. rows'["points"].active => rows["points"].active
  <2>1. "points" \in Purposes \ u.made
    BY <1>3 DEF Typed, Creatable, Purposes
  <2> QED BY <1>2, <2>1
<1> HIDE DEF u, v
<1>14. Typed(v, topics, gone) /\ Knows(v, topics)
  <2>1. Typed(v, topics, gone)
    BY <1>3, <1>4, <1>5, <1>9 DEF Typed, Stages
  <2>2. Knows(v, topics)
    BY <1>3, <1>4, <1>5 DEF Knows
  <2> QED BY <2>1, <2>2
<1>15. Bare(v)
  BY <1>4, <1>5, <1>9 DEF Bare
<1>16. Locks(v, rows') /\ \A g \in Handlers \ {h} : Apart(v, tx[g]) /\ Apart(tx[g], v)
  BY <1>4, <1>15, BareIsApart
<1>17. ASSUME NEW g \in Handlers \ {h}
       PROVE  Typed(tx[g], topics, gone) /\ Knows(tx[g], topics) /\ Locks(tx[g], rows')
  <2>1. Typed(tx[g], topics, gone) /\ Knows(tx[g], topics) /\ Locks(tx[g], rows)
        /\ Apart(tx[g], u) /\ Apart(u, tx[g])
    BY <1>3 DEF TopicsInv
  <2>2. ASSUME NEW p \in tx[g].made
        PROVE  rows'[p] = NoRow /\ tx[g].known[p] \notin RowThreads(rows')
    <3>1. p \in Purposes \ u.made /\ rows[p] = NoRow /\ tx[g].known[p] \notin RowThreads(rows)
          /\ topics[tx[g].known[p]] = p
      BY <2>1 DEF Typed, Locks, Apart, Creatable, Purposes, Knows
    <3>2. \A q \in u.made : u.known[q] # tx[g].known[p]
      BY <1>8, <3>1
    <3> QED BY <1>2, <1>11, <3>1, <3>2
  <2>3. tx[g].fresh # NoThread => tx[g].fresh \notin RowThreads(rows')
    BY <1>11, <2>1 DEF Locks, Apart
  <2>4. tx[g].doomed \subseteq RowThreads(rows')
    BY <1>7, <1>12, <2>1 DEF Locks, Typed
  <2>5. Locks(tx[g], rows')
    BY <1>13, <2>1, <2>2, <2>3, <2>4 DEF Locks
  <2> QED BY <2>1, <2>5
<1>18. ASSUME NEW g \in Handlers
       PROVE  Typed(tx'[g], topics, gone) /\ Knows(tx'[g], topics) /\ Locks(tx'[g], rows')
  BY <1>6, <1>14, <1>16, <1>17 DEF v
<1>19. ASSUME NEW f \in Handlers, NEW g \in Handlers, f # g
       PROVE  Apart(tx'[f], tx'[g])
  <2>1. CASE f # h /\ g # h
    BY <1>6, <1>19, <2>1 DEF TopicsInv
  <2>2. CASE f = h \/ g = h
    BY <1>6, <1>16, <1>19, <2>2 DEF v
  <2> QED BY <2>1, <2>2
<1>20. ASSUME failures = 0
       PROVE  /\ InOrder(rows') /\ gone \subseteq RowThreads(rows')
              /\ \A g \in Handlers : UpToDate(tx'[g], rows')
              /\ NoneIsLost(rows', topics, gone, tx') /\ NoneIsGone(rows', gone, tx')
  <2>1. /\ InOrder(rows) /\ gone \subseteq RowThreads(rows) /\ \A g \in Handlers : UpToDate(tx[g], rows)
        /\ NoneIsLost(rows, topics, gone, tx) /\ NoneIsGone(rows, gone, tx) /\ UpToDate(u, rows)
    BY <1>3, <1>20 DEF TopicsInv
  <2>2. gone \subseteq RowThreads(rows')
    BY <1>3, <1>7, <1>12, <2>1
  <2>3. \A p \in Creatable : p \in u.made \/ rows[p] # NoRow => rows'[p] # NoRow
    <3> TAKE p \in Creatable
    <3>1. CASE p \in u.made
      <4>1. rows'[p].thread = u.known[p] /\ u.known[p] # NoThread
        BY <1>8, <3>1
      <4> QED BY <4>1 DEF NoRow
    <3>2. CASE p \notin u.made
      BY <1>2, <3>2 DEF Creatable, Purposes
    <3> QED BY <3>1, <3>2
  <2>4. \A p \in Common \cap DOMAIN u.known :
          p \in u.made \/ (u.known[p] = SectionOf(rows, p) /\ SectionOf(rows, p) # NoThread)
    BY <1>1, <1>3, <1>7, <2>1 DEF UpToDate, Knows
  <2>5. SectionOf(rows, "auctions") # NoThread => rows["auctions"] # NoRow
    BY DEF SectionOf, NoRow
  <2>6. \A rs : SectionOf(rs, "support") # NoThread => rs["support"].active \/ rs["points"].active
    BY DEF SectionOf
  <2>7. InOrder(rows')
    <3>1. ASSUME rows'["support"] # NoRow \/ rows'["moderation"] # NoRow
          PROVE  rows'["auctions"] # NoRow
      <4>1. CASE rows["support"] # NoRow \/ rows["moderation"] # NoRow
        BY <2>1, <2>3, <4>1 DEF InOrder, Creatable
      <4>2. CASE rows["support"] = NoRow /\ rows["moderation"] = NoRow
        <5>1. PICK p \in {"support", "moderation"} : p \in u.made
          BY <1>2, <3>1, <4>2 DEF Purposes
        <5>2. "auctions" \in DOMAIN u.known
          BY <1>3, <5>1 DEF Knows, EarlierThan, Common
        <5> QED BY <2>3, <2>4, <2>5, <5>2 DEF Common, Creatable
      <4> QED BY <4>1, <4>2
    <3>2. ASSUME rows'["moderation"] # NoRow
          PROVE  rows'["support"] # NoRow \/ rows'["points"].active
      <4>1. CASE "support" \in u.made \/ rows["support"] # NoRow
        BY <2>3, <4>1 DEF Creatable
      <4>2. CASE "support" \notin u.made /\ rows["support"] = NoRow
        <5>1. SectionOf(rows, "support") # NoThread
          <6>1. CASE "moderation" \in u.made
            <7>1. "support" \in DOMAIN u.known
              BY <1>3, <6>1 DEF Knows, EarlierThan, Common
            <7> QED BY <2>4, <4>2, <7>1 DEF Common
          <6>2. CASE "moderation" \notin u.made
            <7>1. rows["points"].active
              BY <1>2, <2>1, <3>2, <4>2, <6>2 DEF InOrder, Purposes
            <7>2. rows["points"].thread # NoThread
              BY <1>3, <7>1 DEF RowsAreSound, Purposes, NoRow
            <7>3. ~rows["support"].active
              BY <4>2 DEF NoRow
            <7> QED BY <7>1, <7>2, <7>3 DEF SectionOf
          <6> QED BY <6>1, <6>2
        <5>2. SectionOf(rows', "support") # NoThread
          BY <1>10, <1>20, <5>1 DEF Common
        <5>3. rows'["support"].active => rows'["support"] # NoRow
          BY DEF NoRow
        <5> QED BY <2>6, <5>2, <5>3
      <4> QED BY <4>1, <4>2
    <3> QED BY <3>1, <3>2 DEF InOrder
  <2>8. ASSUME NEW g \in Handlers
        PROVE  UpToDate(tx'[g], rows')
    <3>1. CASE g = h
      BY <1>4, <1>5, <3>1 DEF UpToDate, v
    <3>2. CASE g # h
      <4>1. UpToDate(tx[g], rows) /\ Knows(tx[g], topics) /\ tx'[g] = tx[g]
        BY <1>6, <1>17, <2>1, <3>2
      <4>2. \A p \in Common \cap DOMAIN tx[g].known :
              tx[g].known[p] = SectionOf(rows, p) => tx[g].known[p] = SectionOf(rows', p)
        BY <1>7, <1>10, <1>20, <4>1 DEF Knows
      <4>3. UpToDate(tx[g], rows')
        BY <4>1, <4>2 DEF UpToDate
      <4> QED BY <4>1, <4>3
    <3> QED BY <3>1, <3>2
  <2>9. ASSUME NEW t \in DOMAIN topics \ gone
        PROVE  \/ \E p \in Purposes : rows'[p] = [thread |-> t, active |-> TRUE]
               \/ \E g \in Handlers : Accounts(tx'[g], t)
               \/ rows'[topics[t]].thread \notin {NoThread, t}
    <3>1. CASE \E p \in Purposes : rows[p] = [thread |-> t, active |-> TRUE]
      <4>1. PICK p \in Purposes : rows[p] = [thread |-> t, active |-> TRUE]
        BY <3>1
      <4>2. rows[p].active /\ rows[p].thread = t /\ p \notin u.made
        BY <1>8, <4>1
      <4>3. rows'[p].thread = t /\ rows'[p].active
            /\ rows'[p] = [thread |-> rows'[p].thread, active |-> rows'[p].active]
        BY <1>2, <1>9, <2>9, <4>2
      <4>4. rows'[p].active = TRUE
        BY <1>2, <4>3 DEF RowsAreSound
      <4> QED BY <4>3, <4>4
    <3>2. CASE \E g \in Handlers : Accounts(tx[g], t)
      <4>1. PICK g \in Handlers : Accounts(tx[g], t)
        BY <3>2
      <4>2. CASE g = h
        <5>1. PICK p \in u.made : u.known[p] = t
          BY <1>7, <1>9, <4>1, <4>2 DEF Accounts, u
        <5> QED BY <1>2, <5>1
      <4>3. CASE g # h
        BY <1>6, <4>1, <4>3
      <4> QED BY <4>2, <4>3
    <3>3. CASE rows[topics[t]].thread \notin {NoThread, t}
      <4>1. topics[t] \in Purposes \ u.made
        BY <1>3, <1>8, <2>9, <3>3
      <4> QED BY <1>2, <3>3, <4>1
    <3> QED BY <2>1, <2>9, <3>1, <3>2, <3>3 DEF NoneIsLost
  <2>10. ASSUME NEW p \in Purposes, rows'[p].active, rows'[p].thread \in gone
         PROVE  \E g \in Handlers : rows'[p].thread \in tx'[g].dead
    <3>1. p \notin u.made
      BY <1>8, <2>1, <2>10
    <3>2. rows[p].active /\ rows[p].thread = rows'[p].thread /\ rows[p].thread \notin u.dead
      BY <1>2, <2>10, <3>1
    <3>3. PICK g \in Handlers : rows[p].thread \in tx[g].dead
      BY <2>1, <2>10, <3>2 DEF NoneIsGone
    <3>4. g # h
      BY <3>2, <3>3 DEF u
    <3> QED BY <1>6, <3>2, <3>3, <3>4
  <2> QED BY <2>2, <2>7, <2>8, <2>9, <2>10 DEF NoneIsLost, NoneIsGone
<1>21. /\ moderator' \in BOOLEAN /\ roleChanges' \in 0..MaxRoleChanges /\ failures' \in 0..MaxFailures
       /\ topics' \in Seq(Purposes) /\ gone' \subseteq DOMAIN topics' /\ RowsAreSound(rows', topics')
  BY <1>2 DEF TopicsInv
<1> QED BY <1>2, <1>6, <1>18, <1>19, <1>20, <1>21 DEF TopicsInv

\* A user the bot has not met, or one the older version has left behind.
LEMMA TopicsInitInv == ASSUME TopicsAssumption, TopicsInit PROVE TopicsInv
<1>1. PICK old \in {<<>>, <<"points">>, <<"auctions", "support", "points">>} :
        /\ topics = old
        /\ rows = [p \in Purposes |->
                    IF \E t \in DOMAIN old : old[t] = p
                      THEN [thread |-> CHOOSE t \in DOMAIN old : old[t] = p, active |-> TRUE]
                      ELSE NoRow]
  BY DEF TopicsInit
<1>2. moderator = FALSE /\ roleChanges = 0 /\ gone = {} /\ tx = [h \in Handlers |-> Over] /\ failures = 0
  BY DEF TopicsInit
<1>3. topics \in Seq(Purposes) /\ NoThread \notin DOMAIN topics
  <2>1. "points" \in Purposes /\ "auctions" \in Purposes /\ "support" \in Purposes
    BY DEF Purposes
  <2>2. CASE topics = <<>>
    BY <2>2 DEF NoThread
  <2>3. CASE topics = <<"points">>
    BY <2>1, <2>3 DEF NoThread
  <2>4. CASE topics = <<"auctions", "support", "points">>
    BY <2>1, <2>4 DEF NoThread
  <2> QED BY <1>1, <2>2, <2>3, <2>4
<1>4. ASSUME NEW p \in Purposes
      PROVE  \/ \E t \in DOMAIN topics : topics[t] = p /\ rows[p] = [thread |-> t, active |-> TRUE]
             \/ ~ (\E t \in DOMAIN topics : topics[t] = p) /\ rows[p] = NoRow
  <2>1. CASE \E t \in DOMAIN topics : topics[t] = p
    <3> DEFINE t == CHOOSE t \in DOMAIN topics : topics[t] = p
    <3>1. t \in DOMAIN topics /\ topics[t] = p
      BY <2>1
    <3>2. rows[p] = [thread |-> t, active |-> TRUE]
      BY <1>1, <2>1
    <3> QED BY <3>1, <3>2
  <2>2. CASE ~ \E t \in DOMAIN topics : topics[t] = p
    BY <1>1, <2>2
  <2> QED BY <2>1, <2>2
<1>5. RowsAreSound(rows, topics)
  <2>1. ASSUME NEW p \in Purposes
        PROVE  /\ rows[p] \in [thread : {NoThread} \cup DOMAIN topics, active : BOOLEAN]
               /\ IF rows[p].thread = NoThread THEN rows[p] = NoRow
                  ELSE _canonical_purpose(topics[rows[p].thread]) = _canonical_purpose(p)
    <3>1. CASE rows[p] = NoRow
      BY <3>1 DEF NoRow
    <3>2. CASE \E t \in DOMAIN topics : topics[t] = p /\ rows[p] = [thread |-> t, active |-> TRUE]
      BY <1>3, <3>2
    <3> QED BY <1>4, <3>1, <3>2
  <2> QED BY <1>1, <2>1 DEF RowsAreSound
<1>6. InOrder(rows)
  <2>1. rows["moderation"] = NoRow
    <3>1. \A t \in DOMAIN topics : topics[t] # "moderation"
      BY <1>1
    <3> QED BY <1>4, <3>1 DEF Purposes
  <2>2. (\E t \in DOMAIN topics : topics[t] = "support") => \E t \in DOMAIN topics : topics[t] = "auctions"
    BY <1>1
  <2>3. ASSUME NEW p \in Purposes
        PROVE  rows[p] # NoRow <=> \E t \in DOMAIN topics : topics[t] = p
    <3>1. CASE rows[p] = NoRow
      <4>1. ~rows[p].active
        BY <3>1 DEF NoRow
      <4>2. ASSUME NEW t, rows[p] = [thread |-> t, active |-> TRUE] PROVE FALSE
        BY <4>1, <4>2
      <4> QED BY <1>4, <3>1, <4>2
    <3>2. CASE rows[p] # NoRow
      BY <1>4, <3>2
    <3> QED BY <3>1, <3>2
  <2>4. "support" \in Purposes /\ "auctions" \in Purposes
    BY DEF Purposes
  <2>5. rows["support"] # NoRow => rows["auctions"] # NoRow
    BY <2>2, <2>3, <2>4
  <2> QED BY <2>1, <2>5 DEF InOrder
<1>7. NoneIsLost(rows, topics, gone, tx)
  <2> SUFFICES ASSUME NEW t \in DOMAIN topics
               PROVE  \E p \in Purposes : rows[p] = [thread |-> t, active |-> TRUE]
    BY DEF NoneIsLost
  <2>1. topics[t] \in Purposes
    BY <1>3
  <2>2. PICK s \in DOMAIN topics : topics[s] = topics[t] /\ rows[topics[t]] = [thread |-> s, active |-> TRUE]
    BY <1>4, <2>1
  <2>3. s = t
    BY <1>1, <2>2
  <2> QED BY <2>1, <2>2, <2>3
<1>8. \A h \in Handlers : tx[h] = Over
  BY <1>2
<1>9. Typed(Over, topics, gone) /\ Knows(Over, topics) /\ Locks(Over, rows) /\ UpToDate(Over, rows) /\ Apart(Over, Over)
  BY RestIs DEF Typed, Knows, Locks, UpToDate, Apart, Stages
<1>10. NoneIsGone(rows, gone, tx)
  BY <1>2 DEF NoneIsGone
<1>11. /\ moderator \in BOOLEAN /\ roleChanges \in 0..MaxRoleChanges /\ failures \in 0..MaxFailures
       /\ gone \subseteq DOMAIN topics /\ tx = [h \in Handlers |-> tx[h]] /\ gone \subseteq RowThreads(rows)
  <2>1. 0 \in 0..MaxRoleChanges /\ 0 \in 0..MaxFailures
    BY DEF TopicsAssumption
  <2>2. tx = [h \in Handlers |-> tx[h]]
    BY <1>2
  <2> QED BY <1>2, <2>1, <2>2
<1> QED BY <1>3, <1>5, <1>6, <1>7, <1>8, <1>9, <1>10, <1>11 DEF TopicsInv

\* Every step keeps the registers.
LEMMA TopicsStep ==
  ASSUME TopicsAssumption, TopicsInv, [TopicsNext]_topics_vars PROVE TopicsInv'
<1>1. CASE UNCHANGED topics_vars
  BY <1>1 DEF topics_vars, TopicsInv
<1>2. ASSUME NEW h \in Handlers, NEW p, send_user_topic_message(h, p) PROVE TopicsInv'
  BY <1>2, TargetIs, OverInv DEF send_user_topic_message, Sent, At, Becomes
<1>3. ASSUME NEW h \in Handlers, NEW p, message_is_given_up(h, p) PROVE TopicsInv'
  BY <1>3, OverInv DEF message_is_given_up, Sent, At, Becomes
<1>4. ASSUME NEW h \in Handlers, handler_dies(h) PROVE TopicsInv'
  BY <1>4, OverInv DEF handler_dies, Becomes
<1> QED BY <1>1, <1>2, <1>3, <1>4, WorldInv, LoadInv, AccessInv, LeftAloneInv, CreateInv, CreationFailsInv,
           InsertInv, PruneInv, DeleteInv, CommitInv DEF TopicsNext

\* The registers as the property states them.
LEMMA RegistersSayIt == ASSUME TopicsInv PROVE TopicsAreRegistered
<1>1. TopicsTypeOK
  <2>1. ASSUME NEW h \in Handlers
        PROVE  /\ DOMAIN tx[h].known \subseteq Purposes /\ tx[h].made \subseteq DOMAIN tx[h].known
               /\ tx[h].fresh \in {NoThread} \cup DOMAIN topics
               /\ tx[h].fresh # NoThread <=> At(h, "inserting")
               /\ tx[h].doomed \cup tx[h].dead \subseteq DOMAIN topics
               /\ tx[h].place \in {Nowhere, NoThread} \cup DOMAIN topics
    BY TxHas DEF Typed, At
  <2> QED BY <2>1 DEF TopicsTypeOK, TopicsInv, RowsAreSound
<1> QED BY <1>1 DEF TopicsAreRegistered, TopicsInv, NoneIsLost, NoneIsGone, Accounts

\* A commit is all that changes the rows.
LEMMA SectionsStep ==
  ASSUME TopicsAssumption, TopicsInv, TopicsInv', [TopicsNext]_topics_vars, failures' = 0,
         NEW p \in Common, p \in DOMAIN Sections
  PROVE  p \in DOMAIN Sections' /\ Sections'[p] = Sections[p]
<1>1. CASE UNCHANGED rows
  BY <1>1 DEF Sections, topics_map
<1>2. CASE \E h \in Handlers : commit(h)
  <2>1. PICK h \in Handlers : commit(h)
    BY <1>2
  <2>2. failures = 0
    BY <2>1 DEF commit
  <2>3. SectionOf(rows, p) # NoThread /\ Sections[p] = SectionOf(rows, p)
    BY SectionsOfRows DEF Sections, TopicsInv
  <2>4. SectionOf(rows', p) = SectionOf(rows, p)
    BY <2>1, <2>2, <2>3, CommitKeepsSections
  <2>5. RowsAreSound(rows', topics')
    BY DEF TopicsInv
  <2>6. p \in DOMAIN _normalize_topics_map(topics_map(rows'))
        /\ _normalize_topics_map(topics_map(rows'))[p] = SectionOf(rows', p)
    BY <2>3, <2>4, <2>5, SectionsOfRows
  <2> QED BY <2>3, <2>4, <2>6 DEF Sections
<1> QED BY <1>1, <1>2 DEF TopicsNext, topics_vars, grant_moderator_role, revoke_moderator_role,
           user_deletes_topic, load_user_topics_map, _can_user_access_moderation_topics,
           topics_are_left_alone, create_forum_topic, creation_fails, insert_topic,
           _prune_legacy_private_topics, delete_forum_topic, handler_dies, send_user_topic_message,
           message_is_given_up

\* A message in its section, or in none.
Delivered(h) ==
  LET p == tx'[h].purpose
      place == tx'[h].place
  IN CASE place = Nowhere  -> failures' > 0
       [] place = NoThread -> Target(h, p) \in {NoThread} \cup gone
       [] OTHER -> _canonical_purpose(topics[place]) = _canonical_purpose(p)

LEMMA MessageStep ==
  ASSUME TopicsAssumption, TopicsInv, [TopicsNext]_topics_vars, NEW h \in Handlers,
         tx[h].stage = "routed", tx'[h].stage = "over"
  PROVE  Delivered(h)
<1>1. tx = [g \in Handlers |-> tx[g]]
  BY DEF TopicsInv
<1>2. Nowhere \notin {NoThread} \cup DOMAIN topics
  BY TxHas DEF TopicsAssumption, NoThread
<1>3. ASSUME NEW p, send_user_topic_message(h, p) PROVE Delivered(h)
  <2> DEFINE place == IF Target(h, p) \in gone THEN NoThread ELSE Target(h, p)
  <2>1. tx'[h] = [Over EXCEPT !.purpose = p, !.place = place]
    BY <1>1, <1>3 DEF send_user_topic_message, Sent
  <2>2. tx'[h].purpose = p /\ tx'[h].place = place
    <3> HIDE DEF place
    <3> QED BY <2>1, RestIs
  <2>3. Target(h, p) \in {NoThread} \cup DOMAIN topics
    BY TargetIs
  <2>4. Target(h, p) # NoThread => _canonical_purpose(topics[Target(h, p)]) = _canonical_purpose(p)
    BY TxHas DEF Target, Knows
  <2>5. CASE place = NoThread
    <3>1. Target(h, p) \in {NoThread} \cup gone
      BY <2>5
    <3> QED BY <1>2, <2>2, <2>5, <3>1 DEF Delivered
  <2>6. CASE place # NoThread
    <3>1. place = Target(h, p) /\ place # Nowhere
      BY <1>2, <2>3, <2>6
    <3> QED BY <2>2, <2>4, <2>6, <3>1 DEF Delivered
  <2> QED BY <2>5, <2>6
<1>4. ASSUME Fails, tx'[h].place = Nowhere PROVE Delivered(h)
  <2>1. failures' > 0
    BY <1>4, FailuresCount DEF TopicsInv, Fails
  <2> QED BY <1>2, <1>4, <2>1 DEF Delivered
<1>5. ASSUME NEW p, message_is_given_up(h, p) PROVE Delivered(h)
  <2>1. tx'[h] = [Over EXCEPT !.purpose = p, !.place = Nowhere]
    BY <1>1, <1>5 DEF message_is_given_up, Sent
  <2> QED BY <1>4, <1>5, <2>1, RestIs DEF message_is_given_up
<1>6. ASSUME handler_dies(h) PROVE Delivered(h)
  <2>1. tx'[h] = Over
    BY <1>1, <1>6 DEF handler_dies
  <2> QED BY <1>4, <1>6, <2>1, RestIs DEF handler_dies
<1>7. ASSUME NEW g \in Handlers,
             \/ load_user_topics_map(g) \/ _can_user_access_moderation_topics(g)
             \/ topics_are_left_alone(g) \/ create_forum_topic(g) \/ creation_fails(g) \/ insert_topic(g)
             \/ _prune_legacy_private_topics(g) \/ (\E t \in Threads : delete_forum_topic(g, t)) \/ commit(g)
      PROVE  FALSE
  <2>1. g # h
    BY <1>7 DEF load_user_topics_map, _can_user_access_moderation_topics, topics_are_left_alone,
       create_forum_topic, creation_fails, insert_topic, _prune_legacy_private_topics,
       delete_forum_topic, commit, At
  <2>2. tx'[h] = tx[h]
    BY <1>1, <1>7, <2>1 DEF load_user_topics_map, _can_user_access_moderation_topics,
       topics_are_left_alone, create_forum_topic, creation_fails, insert_topic,
       _prune_legacy_private_topics, delete_forum_topic, commit
  <2> QED BY <2>2
<1>8. ASSUME NEW g \in Handlers, g # h,
             handler_dies(g) \/ \E p \in Purposes : send_user_topic_message(g, p) \/ message_is_given_up(g, p)
      PROVE  FALSE
  <2>1. tx'[h] = tx[h]
    BY <1>1, <1>8 DEF handler_dies, send_user_topic_message, message_is_given_up, Sent
  <2> QED BY <2>1
<1>9. tx' # tx
  OBVIOUS
<1> QED
  <2>1. CASE \E g \in Handlers : handler_dies(g)
             \/ \E p \in Purposes : send_user_topic_message(g, p) \/ message_is_given_up(g, p)
    BY <1>3, <1>5, <1>6, <1>8, <2>1
  <2> QED BY <1>7, <1>9, <2>1 DEF TopicsNext, topics_vars, grant_moderator_role, revoke_moderator_role,
             user_deletes_topic

\* Database and chat agree but for failures: whatever transactions overlap, a
\* topic no row or transaction knows of is a second one for a purpose that has a
\* row, and an active row has its topic (ensure_user_private_topics).
THEOREM RegistersAgree ==
  ASSUME TopicsAssumption PROVE TopicsSpec => []TopicsAreRegistered
<1>1. TopicsInv /\ [TopicsNext]_topics_vars => TopicsInv'
  BY TopicsStep
<1>2. TopicsInv => TopicsAreRegistered
  BY RegistersSayIt
<1> QED BY <1>1, <1>2, TopicsInitInv, PTL DEF TopicsSpec

\* As long as Telegram does what it is asked to, no transaction takes away or
\* replaces a section that is in use (_prune_legacy_private_topics).
THEOREM SectionsAreKept == ASSUME TopicsAssumption PROVE TopicsSpec => SectionsStay
<1>1. TopicsInv /\ [TopicsNext]_topics_vars => TopicsInv'
  BY TopicsStep
<1>2. TopicsInv /\ TopicsInv' /\ [TopicsNext]_topics_vars =>
        [failures' = 0 =>
           \A p \in {"auctions", "support"} \cap DOMAIN Sections :
             p \in DOMAIN Sections' /\ Sections'[p] = Sections[p]]_topics_vars
  BY SectionsStep DEF Common
<1> QED BY <1>1, <1>2, TopicsInitInv, PTL DEF TopicsSpec, SectionsStay

\* A message comes in the section made for what it is about, in the chat at large
\* only if that section is not there, and it comes (send_user_topic_message).
THEOREM MessagesAreRouted == ASSUME TopicsAssumption PROVE TopicsSpec => MessagesComeInTheirSection
<1>1. TopicsInv /\ [TopicsNext]_topics_vars => TopicsInv'
  BY TopicsStep
<1>2. TopicsInv /\ [TopicsNext]_topics_vars =>
        [\A h \in Handlers : At(h, "routed") /\ tx'[h].stage = "over" =>
           LET p == tx'[h].purpose
               place == tx'[h].place
           IN CASE place = Nowhere  -> failures' > 0
                [] place = NoThread -> Target(h, p) \in {NoThread} \cup gone
                [] OTHER -> _canonical_purpose(topics[place]) = _canonical_purpose(p)]_topics_vars
  BY MessageStep DEF Delivered, At
<1> QED BY <1>1, <1>2, TopicsInitInv, PTL DEF TopicsSpec, MessagesComeInTheirSection
=============================================================================
