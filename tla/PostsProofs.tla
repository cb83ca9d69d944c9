---------------------------- MODULE PostsProofs -----------------------------
(***************************************************************************)
(* Proofs about the cards of a lot (module LotPosts), for any number of     *)
(* cards, handlers, offers, changes and failures.                           *)
(*                                                                         *)
(* Versions of the lot are counted by `changes'.  The argument is that of   *)
(* whoever has to answer for the newest version on a card: either the card   *)
(* shows it or has lost it, or a handler is still to load the lot, or has    *)
(* loaded this very version and not come to the card yet.                    *)
(***************************************************************************)
EXTENDS LotPosts, FiniteSetTheorems, TLAPS

Phases == {"unlisted", "open", "held", "closed"}
Stages == {"new", "checked", "sent", "refused", "done", "abandoned"}

\* Each part of a book has a best offer, so that Leader means what it says.
HasBests(b) ==
  \A part \in SUBSET b : part # {} => \E o \in part : \A p \in part : p.amount <= o.amount

LotIsSound ==
  /\ phase \in Phases /\ changes \in 0..(MaxChanges + 1)
  /\ book \subseteq Offers /\ award \in Users \cup {NoUser} /\ HasBests(book)
  /\ phase = "unlisted" => changes = 0 /\ book = {}
  /\ changes = 0 => phase = "unlisted"

\* The first card publishes, and no second /publish command does.
PostsAreSound ==
  /\ posts \subseteq Cards /\ failures \in 0..MaxFailures
  /\ phase # "unlisted" <=> posts # {}
  /\ \A c, d \in posts \cap ChatCards : c = d

\* What was loaded at the present version is the lot as it is.
LoadIsSound(v) ==
  /\ v.at \in 1..changes /\ v.left \subseteq posts
  /\ v.at = changes => v.phase = phase /\ v.award = award /\ (v.loaded => v.book = book)

LoadsAreSound ==
  /\ refresh \in [Handlers -> Load \cup {NoRefresh, Asked}]
  /\ \A h \in Handlers : /\ refresh[h] # NoRefresh => changes # 0
                         /\ refresh[h] \notin {NoRefresh, Asked} => LoadIsSound(refresh[h])

IsCurrent(v) == v.phase = phase /\ v.award = award /\ v.book = book

\* Where a card stands in its publication.
CardIsAccounted(c) ==
  /\ stage[c] \in {"new", "checked", "sent"} => c \notin posts
  /\ stage[c] = "sent" => shown[c] = Draft
  /\ c \notin posts /\ shown[c] # NoCard => stage[c] \in {"sent", "refused", "abandoned"}

\* What a card shows and has lost.
CardIsDated(c) ==
  /\ lost[c] <= changes
  /\ shown[c] # NoCard => /\ shown[c].at <= changes
                          /\ lost[c] = 0 \/ lost[c] > shown[c].at
                          /\ shown[c].at = changes /\ changes # 0 => IsCurrent(shown[c])

\* Handler h is to bring the newest version to card c.
Brings(h, c) ==
  \/ refresh[h] = Asked
  \/ refresh[h] \notin {NoRefresh, Asked} /\ refresh[h].at = changes /\ c \in refresh[h].left

\* Somebody answers for the newest version on card c.
CardFollows(c) ==
  c \in posts /\ shown[c] # NoCard =>
    \/ changes = 1 /\ shown[c] = Draft /\ stage[c] \in {"refused", "abandoned"}
    \/ lost[c] = changes
    \/ shown[c].at = changes
    \/ \E h \in Handlers : Brings(h, c)

CardTypes ==
  /\ stage \in [Cards -> Stages] /\ shown \in [Cards -> View \cup {NoCard}]
  /\ lost \in [Cards -> Nat]

PostsInv ==
  /\ LotIsSound /\ PostsAreSound /\ LoadsAreSound /\ CardTypes
  /\ \A c \in Cards : CardIsAccounted(c) /\ CardIsDated(c) /\ CardFollows(c)

(***************************************************************************)
(* The lot.                                                                *)
(***************************************************************************)
\* Nothing a handler holds is taken for another.
LEMMA Apart ==
  /\ NoRefresh # Asked /\ NoCard \notin View /\ \A v \in Load : v # NoRefresh /\ v # Asked
  /\ Draft \in View /\ Draft.at = 0
BY PostsAssumption DEF View, Draft

\* The leader of a book that has a best offer is one of the users.
LEMMA BestIsOfTheBook ==
  ASSUME NEW b, b \subseteq Offers, HasBests(b)
  PROVE  Lot!Leader(b) \in Users \cup {NoUser}
<1>1. CASE b = {}
  BY <1>1 DEF Lot!Leader
<1>2. CASE b # {}
  <2>1. \E o \in b : \A p \in b : p.amount <= o.amount
    BY <1>2 DEF HasBests
  <2>2. Lot!Best(b) \in b
    BY <2>1 DEF Lot!Best
  <2>3. Lot!Best(b).user \in Users
    BY <2>2, PostsAssumption DEF Lot!Offer
  <2> QED BY <1>2, <2>3 DEF Lot!Leader
<1> QED BY <1>1, <1>2

\* An offer that beats a book is its best.
LEMMA BestsStay ==
  ASSUME NEW b, b \subseteq Offers, HasBests(b), NEW o \in Offers, \A p \in b : p.amount < o.amount
  PROVE  HasBests(b \cup {o})
<1> SUFFICES ASSUME NEW part \in SUBSET (b \cup {o}), part # {}
             PROVE  \E q \in part : \A p \in part : p.amount <= q.amount
  BY DEF HasBests
<1>1. CASE o \in part
  <2>1. \A p \in Offers : p.amount \in Nat
    BY PostsAssumption DEF Lot!Offer
  <2>2. \A p \in part : p.amount <= o.amount
    BY <2>1
  <2> QED BY <1>1, <2>2
<1>2. CASE o \notin part
  BY <1>2 DEF HasBests
<1> QED BY <1>1, <1>2

\* The first version of the lot is its listing.
LEMMA ListingKeeps ==
  ASSUME LotIsSound, phase = "unlisted", list_lot
  PROVE  LotIsSound' /\ changes = 0 /\ changes' = 1 /\ phase' # "unlisted"
<1>1. phase' = "open" /\ UNCHANGED <<book, award>> /\ changes' = changes + 1
  BY DEF list_lot, Lot!List
<1> QED BY <1>1, PostsAssumption DEF LotIsSound, Phases

\* Every later version is one of a lot that is published.
LEMMA ChangeKeeps ==
  ASSUME LotIsSound, changes < MaxChanges, lot_changes, changes' = changes + 1
  PROVE  LotIsSound' /\ phase # "unlisted" /\ phase' # "unlisted"
<1>1. changes' \in 0..(MaxChanges + 1) /\ changes' # 0
  BY PostsAssumption DEF LotIsSound
<1>2. phase # "unlisted"
  <2>1. phase = "unlisted" => book = {}
    BY DEF LotIsSound
  <2> QED BY <2>1 DEF lot_changes, Lot!Hold, Lot!Release, Lot!Close, Lot!Raise, Lot!Buyout,
                      Lot!Improves
<1>3. Lot!Leader(book) \in Users \cup {NoUser}
  BY BestIsOfTheBook DEF LotIsSound
<1>4. phase' \in Phases \ {"unlisted"} /\ award' \in Users \cup {NoUser} /\ book' \subseteq Offers
        /\ HasBests(book')
  <2>1. CASE Lot!Hold \/ Lot!Release \/ Lot!Close
    BY <2>1, <1>3 DEF LotIsSound, Lot!Hold, Lot!Release, Lot!Close, Phases
  <2>2. ASSUME NEW o \in Offers, Lot!Raise(o) \/ Lot!Buyout(o)
        PROVE  phase' \in Phases \ {"unlisted"} /\ award' \in Users \cup {NoUser}
                 /\ book' \subseteq Offers /\ HasBests(book')
    <3>1. book' = book \cup {o} /\ \A p \in book : p.amount < o.amount
      BY <2>2 DEF Lot!Raise, Lot!Buyout, Lot!Improves
    <3>2. HasBests(book')
      BY <3>1, BestsStay DEF LotIsSound
    <3>3. o.user \in Users
      BY PostsAssumption DEF Lot!Offer
    <3> QED BY <2>2, <1>2, <3>1, <3>2, <3>3 DEF LotIsSound, Phases, Lot!Raise, Lot!Buyout
  <2>3. ASSUME NEW o \in book, Lot!Withdraw(o)
        PROVE  phase' \in Phases \ {"unlisted"} /\ award' \in Users \cup {NoUser}
                 /\ book' \subseteq Offers /\ HasBests(book')
    <3>1. book' = book \ {o} /\ UNCHANGED phase
      BY <2>3 DEF Lot!Withdraw
    <3>2. book' \subseteq Offers /\ HasBests(book')
      BY <3>1 DEF LotIsSound, HasBests
    <3>3. Lot!Leader(book') \in Users \cup {NoUser}
      BY <3>2, BestIsOfTheBook
    <3>4. award' = Lot!Leader(book') \/ award' = award
      BY <2>3 DEF Lot!Withdraw
    <3> QED BY <1>2, <3>1, <3>2, <3>3, <3>4 DEF LotIsSound
  <2> QED BY <2>1, <2>2, <2>3 DEF lot_changes
<1> QED BY <1>1, <1>2, <1>4 DEF LotIsSound

(***************************************************************************)
(* Who answers for the newest version.                                     *)
(***************************************************************************)
\* A card nothing happens to, next to a lot and handlers nothing happens to.
LEMMA CardStays ==
  ASSUME NEW c \in Cards, CardIsAccounted(c), CardIsDated(c), CardFollows(c),
         UNCHANGED <<lot, posts, refresh>>,
         stage'[c] = stage[c], shown'[c] = shown[c], lost'[c] = lost[c]
  PROVE  CardIsAccounted(c)' /\ CardIsDated(c)' /\ CardFollows(c)'
<1>1. CardIsAccounted(c)'
  BY DEF CardIsAccounted
<1>2. CardIsDated(c)'
  BY DEF CardIsDated, IsCurrent, lot
<1>3. CardFollows(c)'
  BY DEF CardFollows, Brings, lot
<1> QED BY <1>1, <1>2, <1>3

\* Whoever is to load the lot brings everything; a new version makes all that
\* is loaded or shown an old one.
LEMMA AskingKeeps ==
  ASSUME PostsInv, NEW h \in Handlers, refresh' = [refresh EXCEPT ![h] = Asked],
         changes' = changes + 1 \/ (UNCHANGED lot /\ changes # 0),
         posts \subseteq posts', UNCHANGED <<shown, lost>>
  PROVE  LoadsAreSound' /\ \A c \in Cards : CardIsDated(c)' /\ CardFollows(c)'
<1>1. changes \in Nat /\ changes' \in Nat \ {0} /\ changes <= changes'
  BY DEF PostsInv, LotIsSound, lot
<1>2. \A g \in Handlers : refresh'[g] = IF g = h THEN Asked ELSE refresh[g]
  BY DEF PostsInv, LoadsAreSound
<1>3. refresh' \in [Handlers -> Load \cup {NoRefresh, Asked}]
  BY DEF PostsInv, LoadsAreSound
<1>4. ASSUME NEW v \in Load, LoadIsSound(v) PROVE LoadIsSound(v)'
  <2>1. v.at \in 1..changes' /\ v.left \subseteq posts'
    BY <1>1, <1>4 DEF LoadIsSound
  <2>2. CASE changes' = changes + 1
    <3>1. v.at # changes'
      BY <1>1, <1>4, <2>2 DEF LoadIsSound
    <3> QED BY <2>1, <3>1 DEF LoadIsSound
  <2>3. CASE UNCHANGED lot
    BY <1>4, <2>1, <2>3 DEF LoadIsSound, lot
  <2> QED BY <2>2, <2>3
<1>5. LoadsAreSound'
  <2>1. ASSUME NEW g \in Handlers, refresh'[g] \notin {NoRefresh, Asked}
        PROVE  LoadIsSound(refresh[g])'
    <3>1. refresh'[g] = refresh[g] /\ refresh[g] \in Load /\ LoadIsSound(refresh[g])
      BY <1>2, <2>1 DEF PostsInv, LoadsAreSound
    <3> DEFINE v == refresh[g]
    <3>2. ASSUME NEW w, w = v PROVE LoadIsSound(w)'
      BY <1>4, <3>1, <3>2
    <3> QED BY <3>1, <3>2 DEF LoadIsSound
  <2> QED BY <1>1, <1>3, <2>1 DEF LoadsAreSound
<1>6. ASSUME NEW c \in Cards PROVE CardIsDated(c)' /\ CardFollows(c)'
  <2>1. CardFollows(c)'
    BY <1>2 DEF CardFollows, Brings
  <2>2. CardIsDated(c) /\ lost[c] \in Nat /\ (shown[c] # NoCard => shown[c].at \in Nat)
    BY DEF PostsInv, CardTypes, View
  <2>3. CardIsDated(c)'
    <3>1. CASE changes' = changes + 1
      BY <1>1, <2>2, <3>1 DEF CardIsDated
    <3>2. CASE UNCHANGED lot
      BY <2>2, <3>2 DEF CardIsDated, IsCurrent, lot
    <3> QED BY <3>1, <3>2
  <2> QED BY <2>1, <2>3
<1> QED BY <1>5, <1>6

\* A handler loses what it had for some cards.
LEMMA LosingKeeps ==
  ASSUME PostsInv, NEW h \in Handlers, refresh[h] # NoRefresh, NEW cs, Loses(h, cs),
         UNCHANGED <<lot, shown>>
  PROVE  /\ lost' \in [Cards -> Nat] /\ \A c \in Cards : CardIsDated(c)'
         /\ \A c \in Cards : c \in cs /\ shown[c] # NoCard /\ Brings(h, c) =>
              lost'[c] = changes \/ shown[c].at = changes
         /\ \A c \in Cards : shown[c] # NoCard /\ lost[c] = changes =>
              lost'[c] = changes \/ shown[c].at = changes
<1> DEFINE n == IF refresh[h] = Asked THEN changes ELSE refresh[h].at
           New(c) == IF Later(lost[c], n) > shown[c].at THEN Later(lost[c], n) ELSE 0
<1>1. changes \in Nat
  BY DEF PostsInv, LotIsSound
<1>2. n \in 0..changes /\ \A c : Brings(h, c) => n = changes
  BY <1>1 DEF PostsInv, LoadsAreSound, LoadIsSound, Brings
<1>3. lost' = [c \in Cards |-> IF c \notin cs \/ shown[c] = NoCard THEN lost[c] ELSE New(c)]
  BY DEF Loses
<1> HIDE DEF n
<1>4. ASSUME NEW c \in Cards
      PROVE  /\ lost'[c] \in Nat /\ CardIsDated(c)'
             /\ c \in cs /\ shown[c] # NoCard /\ Brings(h, c) =>
                  lost'[c] = changes \/ shown[c].at = changes
             /\ shown[c] # NoCard /\ lost[c] = changes =>
                  lost'[c] = changes \/ shown[c].at = changes
  <2>1. /\ lost[c] \in Nat /\ lost[c] <= changes /\ CardIsDated(c)
        /\ shown[c] # NoCard => shown[c].at \in Nat /\ shown[c].at <= changes
    BY DEF PostsInv, CardTypes, CardIsDated, View
  <2>2. lost'[c] = IF c \notin cs \/ shown[c] = NoCard THEN lost[c] ELSE New(c)
    BY <1>3
  <2>3. CASE c \notin cs \/ shown[c] = NoCard
    BY <2>1, <2>2, <2>3 DEF CardIsDated, IsCurrent, lot
  <2>4. CASE c \in cs /\ shown[c] # NoCard
    <3> DEFINE l == Later(lost[c], n)
    <3>1. l \in 0..changes /\ l >= lost[c] /\ l >= n
      BY <1>1, <1>2, <2>1 DEF Later
    <3>2. lost'[c] = IF l > shown[c].at THEN l ELSE 0
      BY <2>2, <2>4
    <3> HIDE DEF l
    <3>3. lost'[c] \in Nat /\ lost'[c] <= changes /\ (lost'[c] = 0 \/ lost'[c] > shown[c].at)
      BY <1>1, <2>1, <3>1, <3>2
    <3>4. CardIsDated(c)'
      BY <2>1, <3>3 DEF CardIsDated, IsCurrent, lot
    <3>5. n = changes \/ lost[c] = changes => lost'[c] = changes \/ shown[c].at = changes
      BY <1>1, <1>2, <2>1, <2>4, <3>1, <3>2
    <3> QED BY <1>2, <3>3, <3>4, <3>5
  <2> QED BY <2>3, <2>4
<1>5. lost' \in [Cards -> Nat]
  <2>1. lost' = [c \in Cards |-> lost'[c]]
    BY <1>3
  <2> QED BY <1>4, <2>1
<1> QED BY <1>4, <1>5

\* A card is crossed off what its handler has to do.
LEMMA CrossingOffKeeps ==
  ASSUME PostsInv, NEW h \in Handlers, NEW c \in Cards, Editing(h, c), Crossed_off(h, c),
         UNCHANGED <<lot, posts>>
  PROVE  /\ LoadsAreSound'
         /\ \A g \in Handlers, d \in Cards : g # h \/ d # c => (Brings(g, d) => Brings(g, d)')
<1> DEFINE v == refresh[h]
           w == IF v.left \ {c} = {} THEN NoRefresh ELSE [v EXCEPT !.left = v.left \ {c}]
<1>1. v \in Load /\ v \notin {NoRefresh, Asked} /\ LoadIsSound(v) /\ c \in v.left /\ changes # 0
  BY DEF Editing, PostsInv, LoadsAreSound
<1>2. refresh' = [refresh EXCEPT ![h] = w] /\ refresh \in [Handlers -> Load \cup {NoRefresh, Asked}]
  <2>1. refresh' = [refresh EXCEPT ![h] = w]
    BY DEF Crossed_off
  <2>2. refresh \in [Handlers -> Load \cup {NoRefresh, Asked}]
    BY DEF PostsInv, LoadsAreSound
  <2> QED BY <2>1, <2>2
<1>3. w # NoRefresh => /\ w \in Load /\ w \notin {NoRefresh, Asked} /\ LoadIsSound(w) /\ w.at = v.at
                  /\ w.left = v.left \ {c}
  <2> SUFFICES ASSUME v.left \ {c} # {}
               PROVE  LET u == [v EXCEPT !.left = v.left \ {c}]
                      IN  /\ u \in Load /\ u \notin {NoRefresh, Asked} /\ LoadIsSound(u)
                          /\ u.at = v.at /\ u.left = v.left \ {c}
    OBVIOUS
  <2> DEFINE u == [v EXCEPT !.left = v.left \ {c}]
  <2> HIDE DEF v
  <2>1. /\ u \in Load /\ u.at = v.at /\ u.left = v.left \ {c} /\ u.phase = v.phase
        /\ u.award = v.award /\ u.book = v.book /\ u.loaded = v.loaded
    BY <1>1 DEF Load
  <2> HIDE DEF u
  <2>2. LoadIsSound(u)
    BY <1>1, <2>1 DEF LoadIsSound
  <2> QED BY <2>1, <2>2, Apart DEF u
<1>4. ASSUME NEW d \in Cards, d # c, Brings(h, d)
      PROVE  w # NoRefresh /\ w.at = changes /\ d \in w.left
  <2>1. v.at = changes /\ d \in v.left
    BY <1>1, <1>4 DEF Brings
  <2>2. v.left \ {c} # {}
    BY <1>4, <2>1
  <2>3. w = [v EXCEPT !.left = v.left \ {c}]
    BY <2>2
  <2> HIDE DEF v
  <2>4. w.at = v.at /\ w.left = v.left \ {c} /\ w \in Load
    BY <1>1, <2>3 DEF Load
  <2> QED BY <1>4, <2>1, <2>4, Apart
<1> HIDE DEF v, w
<1>5. \A g \in Handlers : refresh'[g] = IF g = h THEN w ELSE refresh[g]
  BY <1>2
<1>6. refresh' \in [Handlers -> Load \cup {NoRefresh, Asked}]
  BY <1>2, <1>3
<1>7. ASSUME NEW g \in Handlers, refresh'[g] \notin {NoRefresh, Asked}
      PROVE  LoadIsSound(refresh[g])'
  <2>1. CASE g = h
    <3>1. refresh'[g] = w /\ w # NoRefresh
      BY <1>5, <1>7, <2>1
    <3> QED BY <1>3, <3>1 DEF LoadIsSound, lot
  <2>2. CASE g # h
    <3>1. refresh'[g] = refresh[g] /\ LoadIsSound(refresh[g])
      BY <1>5, <1>7, <2>2 DEF PostsInv, LoadsAreSound
    <3> QED BY <3>1 DEF LoadIsSound, lot
  <2> QED BY <2>1, <2>2
<1>8. LoadsAreSound'
  BY <1>1, <1>6, <1>7 DEF LoadsAreSound, lot
<1>9. ASSUME NEW g \in Handlers, NEW d \in Cards, g # h \/ d # c, Brings(g, d)
      PROVE  Brings(g, d)'
  <2>1. CASE g = h
    BY <1>3, <1>4, <1>5, <1>9, <2>1 DEF Brings, lot
  <2>2. CASE g # h
    BY <1>5, <1>9, <2>2 DEF Brings, lot
  <2> QED BY <2>1, <2>2
<1> QED BY <1>8, <1>9

(***************************************************************************)
(* Publication.                                                            *)
(***************************************************************************)
\* The invariant by its parts.
LEMMA PostsInvAfter ==
  ASSUME LotIsSound', PostsAreSound', LoadsAreSound', CardTypes',
         \A c \in Cards : CardIsAccounted(c)' /\ CardIsDated(c)' /\ CardFollows(c)'
  PROVE  PostsInv'
BY DEF PostsInv

\* The lot and its posts stay as they are.
LEMMA LotStays ==
  ASSUME PostsInv, UNCHANGED <<lot, posts>>, failures' \in 0..MaxFailures
  PROVE  LotIsSound' /\ PostsAreSound' /\ (UNCHANGED refresh => LoadsAreSound')
BY DEF PostsInv, LotIsSound, PostsAreSound, LoadsAreSound, LoadIsSound, lot

\* A failure that is counted.
LEMMA FailuresAreFew ==
  ASSUME PostsInv
  PROVE  failures \in 0..MaxFailures /\ (Fails => failures' \in 0..MaxFailures)
BY PostsAssumption DEF PostsInv, PostsAreSound, Fails

\* A step about one card, that changes neither lot nor handlers.
LEMMA CardStepKeeps ==
  ASSUME PostsInv, NEW c \in Cards, UNCHANGED <<lot, posts, refresh, lost>>,
         failures' \in 0..MaxFailures,
         NEW s \in Stages, stage' = [stage EXCEPT ![c] = s],
         NEW v \in View \cup {NoCard}, shown' = [shown EXCEPT ![c] = v],
         (CardIsAccounted(c) /\ CardIsDated(c) /\ CardFollows(c)
            => CardIsAccounted(c)' /\ CardIsDated(c)' /\ CardFollows(c)')
  PROVE  PostsInv'
<1>1. LotIsSound' /\ PostsAreSound' /\ LoadsAreSound'
  BY LotStays
<1>2. CardTypes'
  BY DEF PostsInv, CardTypes
<1>3. ASSUME NEW d \in Cards PROVE CardIsAccounted(d)' /\ CardIsDated(d)' /\ CardFollows(d)'
  <2>1. CardIsAccounted(d) /\ CardIsDated(d) /\ CardFollows(d)
    BY DEF PostsInv
  <2>2. CASE d # c
    <3>1. stage'[d] = stage[d] /\ shown'[d] = shown[d] /\ lost'[d] = lost[d]
      BY <2>2 DEF PostsInv, CardTypes
    <3> QED BY <2>1, <3>1, CardStays
  <2>3. CASE d = c
    BY <2>1, <2>3
  <2> QED BY <2>2, <2>3
<1> QED BY <1>1, <1>2, <1>3, PostsInvAfter

\* Steps of a publication before the lot is touched, and what is left of one
\* that was refused.
LEMMA CardIsHandledKeeps ==
  ASSUME PostsInv, NEW c \in Cards,
         \/ publish_is_checked(c) \/ publish_gate_refuses(c) \/ send_card(c)
         \/ card_is_not_sent(c) \/ _safe_delete_messages(c) \/ card_is_abandoned(c)
  PROVE  PostsInv'
<1>1. stage[c] \in Stages /\ shown[c] \in View \cup {NoCard} /\ lost[c] \in Nat
      /\ stage' = [stage EXCEPT ![c] = stage'[c]] /\ shown' = [shown EXCEPT ![c] = shown'[c]]
      /\ UNCHANGED <<lot, posts, refresh, lost>> /\ failures' \in 0..MaxFailures
  BY FailuresAreFew DEF PostsInv, CardTypes, publish_is_checked, publish_gate_refuses, send_card,
     card_is_not_sent, _safe_delete_messages, card_is_abandoned
<1>2. CASE \/ publish_is_checked(c) \/ publish_gate_refuses(c) \/ card_is_not_sent(c)
  <2>1. /\ stage[c] \in {"new", "checked"} /\ stage'[c] \in {"checked", "done"} /\ UNCHANGED shown
    BY <1>1, <1>2 DEF PostsInv, CardTypes, publish_is_checked, publish_gate_refuses, card_is_not_sent
  <2>2. CardIsAccounted(c) => c \notin posts /\ shown[c] = NoCard
    BY <2>1 DEF CardIsAccounted
  <2>3. CardIsAccounted(c) /\ CardIsDated(c) => CardIsAccounted(c)' /\ CardIsDated(c)' /\ CardFollows(c)'
    BY <1>1, <2>1, <2>2 DEF CardIsAccounted, CardIsDated, CardFollows, lot
  <2> QED BY <1>1, <2>1, <2>3, CardStepKeeps DEF Stages
<1>3. CASE send_card(c)
  <2>1. stage[c] = "checked" /\ stage'[c] = "sent" /\ shown'[c] = Draft
    BY <1>3 DEF send_card, PostsInv, CardTypes
  <2>2. CardIsAccounted(c) => c \notin posts
    BY <2>1 DEF CardIsAccounted
  <2>3. changes \in Nat
    BY DEF PostsInv, LotIsSound
  <2>4. CardIsAccounted(c) /\ CardIsDated(c) => CardIsAccounted(c)' /\ CardIsDated(c)' /\ CardFollows(c)'
    BY <1>1, <2>1, <2>2, <2>3, Apart DEF CardIsAccounted, CardIsDated, CardFollows, lot
  <2> QED BY <1>1, <2>1, <2>4, Apart, CardStepKeeps DEF Stages
<1>4. CASE _safe_delete_messages(c)
  <2>1. stage'[c] = "done" /\ shown'[c] = NoCard
    BY <1>4 DEF _safe_delete_messages, PostsInv, CardTypes
  <2>2. CardIsAccounted(c) /\ CardIsDated(c) => CardIsAccounted(c)' /\ CardIsDated(c)' /\ CardFollows(c)'
    BY <1>1, <2>1 DEF CardIsAccounted, CardIsDated, CardFollows, lot
  <2> QED BY <1>1, <2>1, <2>2, CardStepKeeps DEF Stages
<1>5. CASE card_is_abandoned(c)
  <2>1. stage[c] \in {"sent", "refused"} /\ stage'[c] = "abandoned" /\ UNCHANGED shown
    BY <1>5 DEF card_is_abandoned, PostsInv, CardTypes
  <2>2. CardIsAccounted(c) /\ CardIsDated(c) => CardIsAccounted(c)' /\ CardIsDated(c)'
    BY <1>1, <2>1 DEF CardIsAccounted, CardIsDated, IsCurrent, lot
  <2>3. CardFollows(c) => CardFollows(c)'
    BY <1>1, <2>1 DEF CardFollows, Brings, lot
  <2> QED BY <1>1, <2>1, <2>2, <2>3, CardStepKeeps DEF Stages
<1> QED BY <1>2, <1>3, <1>4, <1>5

\* A card is registered and its handler is to refresh all of them; the lot is
\* listed if it was not.
LEMMA RegisteringKeeps ==
  ASSUME PostsInv, NEW c \in Cards, stage[c] = "sent", list_lot, posts' = posts \cup {c},
         phase = "unlisted" \/ c \notin ChatCards,
         stage' = [stage EXCEPT ![c] = "done"], refresh' = [refresh EXCEPT ![c] = Asked],
         UNCHANGED <<shown, failures, lost>>
  PROVE  PostsInv'
<1>1. /\ LotIsSound' /\ phase' # "unlisted"
      /\ changes' = changes + 1 \/ (UNCHANGED lot /\ changes # 0)
  <2>1. CASE phase = "unlisted"
    BY <2>1, ListingKeeps DEF PostsInv
  <2>2. CASE phase # "unlisted"
    BY <2>2, LotStays DEF PostsInv, LotIsSound, list_lot, lot
  <2> QED BY <2>1, <2>2
<1>2. PostsAreSound'
  <2>1. phase = "unlisted" => posts = {}
    BY DEF PostsInv, PostsAreSound
  <2> QED BY <1>1, <2>1 DEF PostsInv, PostsAreSound
<1>3. c \in Handlers
  BY DEF Handlers
<1>4. LoadsAreSound' /\ \A d \in Cards : CardIsDated(d)' /\ CardFollows(d)'
  BY <1>1, <1>3, AskingKeeps
<1>5. ASSUME NEW d \in Cards PROVE CardIsAccounted(d)'
  <2>1. stage'[d] = IF d = c THEN "done" ELSE stage[d]
    BY DEF PostsInv, CardTypes
  <2>2. CardIsAccounted(d)
    BY DEF PostsInv
  <2> QED BY <2>1, <2>2 DEF CardIsAccounted
<1>6. CardTypes'
  BY DEF PostsInv, CardTypes, Stages
<1> QED BY <1>1, <1>2, <1>4, <1>5, <1>6, PostsInvAfter

\* A card is registered, or refused because the lot is published already.
LEMMA ActivationKeeps ==
  ASSUME PostsInv, NEW c \in Cards,
         activate_auction_chat_post(c) \/ activate_auction_inline_post(c)
  PROVE  PostsInv'
<1>1. CASE activate_auction_inline_post(c)
  <2>1. c \notin ChatCards
    BY <1>1, PostsAssumption DEF activate_auction_inline_post
  <2> QED BY <1>1, <2>1, RegisteringKeeps DEF activate_auction_inline_post
<1>2. CASE activate_auction_chat_post(c) /\ phase = "unlisted"
  BY <1>2, RegisteringKeeps DEF activate_auction_chat_post
<1>3. CASE activate_auction_chat_post(c) /\ phase # "unlisted"
  <2>1. /\ stage[c] = "sent" /\ stage' = [stage EXCEPT ![c] = "refused"]
        /\ UNCHANGED <<lot, posts, refresh, shown, failures, lost>>
    BY <1>3 DEF activate_auction_chat_post, list_lot
  <2>2. stage'[c] = "refused" /\ shown' = [shown EXCEPT ![c] = shown[c]] /\ shown[c] \in View \cup {NoCard}
    BY <2>1 DEF PostsInv, CardTypes
  <2>3. CardIsAccounted(c) /\ CardIsDated(c) /\ CardFollows(c)
          => CardIsAccounted(c)' /\ CardIsDated(c)' /\ CardFollows(c)'
    BY <2>1, <2>2 DEF CardIsAccounted, CardIsDated, CardFollows, IsCurrent, lot
  <2> QED BY <2>1, <2>2, <2>3, FailuresAreFew, CardStepKeeps DEF Stages
<1> QED BY <1>1, <1>2, <1>3

\* The transaction raises.  If it was committed all the same, its card is the
\* only one of the first version, and nobody is told.
LEMMA RaisingKeeps ==
  ASSUME PostsInv, NEW c \in Cards, activation_raises(c)
  PROVE  PostsInv'
<1>1. /\ Fails /\ c \in ChatCards /\ stage[c] = "sent"
      /\ stage' = [stage EXCEPT ![c] = "refused"] /\ UNCHANGED <<shown, refresh, lost>>
      /\ failures' \in 0..MaxFailures
  BY FailuresAreFew DEF activation_raises
<1>2. /\ stage'[c] = "refused" /\ shown' = [shown EXCEPT ![c] = shown[c]]
      /\ shown[c] \in View \cup {NoCard}
  BY <1>1 DEF PostsInv, CardTypes
<1>3. CardIsAccounted(c) /\ c \notin posts /\ shown[c] = Draft
  BY <1>1 DEF PostsInv, CardIsAccounted
<1>4. CASE UNCHANGED <<lot, posts>>
  <2>1. CardIsDated(c) => CardIsAccounted(c)' /\ CardIsDated(c)' /\ CardFollows(c)'
    BY <1>1, <1>2, <1>3, <1>4 DEF CardIsAccounted, CardIsDated, CardFollows, IsCurrent, lot
  <2> QED BY <1>1, <1>2, <1>4, <2>1, CardStepKeeps DEF Stages
<1>5. CASE phase = "unlisted" /\ list_lot /\ posts' = posts \cup {c}
  <2>1. LotIsSound' /\ changes = 0 /\ changes' = 1 /\ phase' # "unlisted" /\ posts = {}
    BY <1>5, ListingKeeps DEF PostsInv, PostsAreSound
  <2>2. PostsAreSound'
    BY <1>1, <1>5, <2>1 DEF PostsInv, PostsAreSound
  <2>3. LoadsAreSound'
    <3>1. \A h \in Handlers : refresh[h] = NoRefresh
      BY <2>1 DEF PostsInv, LoadsAreSound
    <3> QED BY <1>1, <3>1 DEF PostsInv, LoadsAreSound
  <2>4. CardTypes'
    BY <1>1 DEF PostsInv, CardTypes, Stages
  <2>5. ASSUME NEW d \in Cards PROVE CardIsAccounted(d)' /\ CardIsDated(d)' /\ CardFollows(d)'
    <3>1. stage'[d] = IF d = c THEN "refused" ELSE stage[d]
      BY <1>1 DEF PostsInv, CardTypes
    <3>2. CardIsAccounted(d) /\ CardIsDated(d) /\ lost[d] \in Nat
          /\ (shown[d] # NoCard => shown[d].at \in Nat)
      BY DEF PostsInv, CardTypes, View
    <3>3. CardIsAccounted(d)'
      BY <1>1, <1>5, <2>1, <3>1, <3>2 DEF CardIsAccounted
    <3>4. CardIsDated(d)'
      BY <1>1, <2>1, <3>2 DEF CardIsDated
    <3>5. CardFollows(d)'
      BY <1>1, <1>3, <1>5, <2>1, <3>1 DEF CardFollows
    <3> QED BY <3>3, <3>4, <3>5
  <2> QED BY <2>1, <2>2, <2>3, <2>4, <2>5, PostsInvAfter
<1> QED BY <1>4, <1>5 DEF activation_raises

(***************************************************************************)
(* Changes and refreshes.                                                  *)
(***************************************************************************)
\* Whoever changes the lot, or is asked to refresh it.
LEMMA ChangingKeeps ==
  ASSUME PostsInv, NEW w \in Workers, handler_changes_lot(w) \/ callback_my_auction_refresh_posts(w)
  PROVE  PostsInv'
<1>1. /\ refresh' = [refresh EXCEPT ![w] = Asked] /\ UNCHANGED <<posts, stage, shown, failures, lost>>
      /\ w \in Handlers
  BY DEF handler_changes_lot, callback_my_auction_refresh_posts, Handlers
<1>2. /\ LotIsSound' /\ (phase # "unlisted" /\ phase' # "unlisted")
      /\ changes' = changes + 1 \/ (UNCHANGED lot /\ changes # 0)
  <2>1. CASE handler_changes_lot(w)
    BY <2>1, ChangeKeeps DEF handler_changes_lot, PostsInv
  <2>2. CASE callback_my_auction_refresh_posts(w)
    BY <2>2, LotStays DEF callback_my_auction_refresh_posts, PostsInv, LotIsSound, lot
  <2> QED BY <2>1, <2>2
<1>3. PostsAreSound' /\ CardTypes'
  BY <1>1, <1>2 DEF PostsInv, PostsAreSound, CardTypes
<1>4. LoadsAreSound' /\ \A c \in Cards : CardIsDated(c)' /\ CardFollows(c)'
  BY <1>1, <1>2, AskingKeeps
<1>5. \A c \in Cards : CardIsAccounted(c)'
  BY <1>1 DEF PostsInv, CardIsAccounted
<1> QED BY <1>2, <1>3, <1>4, <1>5, PostsInvAfter

\* A handler that loads brings what it brought.
LEMMA LoadingKeeps ==
  ASSUME PostsInv, NEW h \in Handlers, refresh[h] # NoRefresh, NEW v \in Load \cup {NoRefresh},
         refresh' = [refresh EXCEPT ![h] = v], v # NoRefresh => LoadIsSound(v),
         \A c \in posts : Brings(h, c) => v # NoRefresh /\ v.at = changes /\ c \in v.left,
         UNCHANGED <<lot, posts, stage, shown, failures, lost>>
  PROVE  PostsInv'
<1>1. LotIsSound' /\ PostsAreSound' /\ CardTypes'
  BY FailuresAreFew, LotStays DEF PostsInv, CardTypes
<1>2. \A g \in Handlers : refresh'[g] = IF g = h THEN v ELSE refresh[g]
  BY DEF PostsInv, LoadsAreSound
<1>3. LoadsAreSound'
  <2>1. refresh' \in [Handlers -> Load \cup {NoRefresh, Asked}] /\ changes' # 0
    BY DEF PostsInv, LoadsAreSound, lot
  <2>2. ASSUME NEW g \in Handlers, refresh'[g] \notin {NoRefresh, Asked}
        PROVE  LoadIsSound(refresh[g])'
    <3>1. LoadIsSound(refresh'[g])
      BY <1>2, <2>2 DEF PostsInv, LoadsAreSound
    <3> QED BY <3>1 DEF LoadIsSound, lot
  <2> QED BY <2>1, <2>2 DEF LoadsAreSound
<1>4. ASSUME NEW c \in Cards PROVE CardIsAccounted(c)' /\ CardIsDated(c)' /\ CardFollows(c)'
  <2>1. CardIsAccounted(c) /\ CardIsDated(c) /\ CardFollows(c)
    BY DEF PostsInv
  <2>2. \A g \in Handlers : c \in posts /\ Brings(g, c) => Brings(g, c)'
    <3>1. \A g \in Handlers : c \in posts /\ g # h /\ Brings(g, c) => Brings(g, c)'
      BY <1>2 DEF Brings, lot
    <3>2. c \in posts /\ Brings(h, c) => Brings(h, c)'
      <4> SUFFICES ASSUME c \in posts, Brings(h, c) PROVE Brings(h, c)'
        OBVIOUS
      <4>1. v # NoRefresh /\ v.at = changes /\ c \in v.left /\ v # Asked
        BY Apart
      <4> QED BY <1>2, <4>1 DEF Brings, lot
    <3> QED BY <3>1, <3>2
  <2>3. CardFollows(c)'
    BY <2>1, <2>2 DEF CardFollows, lot
  <2> QED BY <2>1, <2>3 DEF CardIsAccounted, CardIsDated, IsCurrent, lot
<1> QED BY <1>1, <1>3, <1>4, PostsInvAfter

\* The row of the lot is loaded.
LEMMA RowLoadKeeps ==
  ASSUME PostsInv, NEW h \in Handlers, load_auction_view(h)
  PROVE  PostsInv'
<1> DEFINE v == [phase |-> phase, award |-> award, at |-> changes, loaded |-> FALSE, book |-> {},
                 left |-> posts]
<1>1. refresh[h] = Asked /\ refresh' = [refresh EXCEPT ![h] = v]
      /\ UNCHANGED <<lot, posts, stage, shown, failures, lost>>
  BY DEF load_auction_view
<1>2. changes \in Nat \ {0}
  BY <1>1, Apart DEF PostsInv, LoadsAreSound, LotIsSound
<1>3. v \in Load
  BY <1>2 DEF Load, PostsInv, LotIsSound, PostsAreSound, Phases
<1>4. LoadIsSound(v) /\ v.at = changes /\ v.left = posts
  BY <1>2 DEF LoadIsSound
<1> HIDE DEF v
<1> QED BY <1>1, <1>3, <1>4, Apart, LoadingKeeps

\* Its bids and posts are loaded.
LEMMA BookLoadKeeps ==
  ASSUME PostsInv, NEW h \in Handlers, load_bids_and_posts(h)
  PROVE  PostsInv'
<1> DEFINE u == refresh[h]
           w == [u EXCEPT !.loaded = TRUE, !.book = book, !.left = posts]
<1>1. /\ u \in Load /\ u \notin {NoRefresh, Asked} /\ LoadIsSound(u)
      /\ refresh' = [refresh EXCEPT ![h] = IF posts = {} THEN NoRefresh ELSE w]
      /\ UNCHANGED <<lot, posts, stage, shown, failures, lost>>
  BY DEF load_bids_and_posts, Loading, PostsInv, LoadsAreSound
<1>2. \A c : Brings(h, c) => u.at = changes
  BY <1>1 DEF Brings
<1> HIDE DEF u
<1>3. /\ w \in Load /\ w.at = u.at /\ w.left = posts /\ w.phase = u.phase /\ w.award = u.award
      /\ w.book = book
  BY <1>1 DEF Load, PostsInv, LotIsSound, PostsAreSound
<1> HIDE DEF w
<1>4. LoadIsSound(w)
  BY <1>1, <1>3 DEF LoadIsSound
<1>5. CASE posts = {}
  BY <1>1, <1>5, LoadingKeeps DEF u
<1>6. CASE posts # {}
  <2>1. w # NoRefresh
    BY <1>3, Apart
  <2> QED BY <1>1, <1>2, <1>3, <1>4, <1>6, <2>1, LoadingKeeps DEF u
<1> QED BY <1>5, <1>6

\* A card is edited.
LEMMA EditingKeeps ==
  ASSUME PostsInv, NEW h \in Handlers, NEW c \in Cards, _refresh_auction_post_message(h, c)
  PROVE  PostsInv'
<1> DEFINE v == refresh[h]
<1>1. /\ Editing(h, c) /\ Crossed_off(h, c) /\ UNCHANGED <<lot, posts, stage, failures>>
  BY DEF _refresh_auction_post_message
<1>2. /\ v \in Load /\ v.at \in 1..changes /\ v.left \subseteq posts /\ v.loaded /\ c \in v.left
      /\ v.at = changes => IsCurrent(v)
  BY <1>1 DEF Editing, PostsInv, LoadsAreSound, LoadIsSound, IsCurrent
<1>3. /\ LoadsAreSound'
      /\ \A g \in Handlers, d \in Cards : g # h \/ d # c => (Brings(g, d) => Brings(g, d)')
  BY <1>1, CrossingOffKeeps
<1>4. LotIsSound' /\ PostsAreSound' /\ changes \in Nat
  BY <1>1, FailuresAreFew, LotStays DEF PostsInv, LotIsSound
<1>5. Brings(h, c) => v.at = changes
  BY <1>1 DEF Brings, Editing
<1> HIDE DEF v
<1>6. ASSUME NEW d \in Cards, shown'[d] = shown[d], lost'[d] = lost[d], d # c \/ shown[d] = NoCard
      PROVE  CardIsAccounted(d)' /\ CardIsDated(d)' /\ CardFollows(d)'
  <2>1. CardIsAccounted(d) /\ CardIsDated(d) /\ CardFollows(d)
    BY DEF PostsInv
  <2>2. CardIsAccounted(d)' /\ CardIsDated(d)'
    BY <1>1, <1>6, <2>1 DEF CardIsAccounted, CardIsDated, IsCurrent, lot
  <2>3. CardFollows(d)'
    BY <1>1, <1>3, <1>6, <2>1 DEF CardFollows, lot
  <2> QED BY <2>2, <2>3
<1>7. CASE shown[c] = NoCard
  <2>1. UNCHANGED <<shown, lost>>
    BY <1>7 DEF _refresh_auction_post_message
  <2>2. CardTypes'
    BY <1>1, <2>1 DEF PostsInv, CardTypes
  <2> QED BY <1>3, <1>4, <1>6, <1>7, <2>1, <2>2, PostsInvAfter
<1>8. CASE shown[c] # NoCard
  <2> DEFINE new == Rendered(v)
             l == Later(lost[c], shown[c].at)
             n == IF l > v.at THEN l ELSE 0
  <2>1. shown' = [shown EXCEPT ![c] = new] /\ lost' = [lost EXCEPT ![c] = n]
    BY <1>8 DEF _refresh_auction_post_message, v
  <2>2. /\ new \in View /\ new.at = v.at /\ new.phase = v.phase /\ new.award = v.award
        /\ new.book = v.book
    BY <1>2 DEF Rendered, Load, View
  <2>3. /\ lost[c] \in Nat /\ lost[c] <= changes /\ shown[c].at \in Nat /\ shown[c].at <= changes
    BY <1>8 DEF PostsInv, CardTypes, CardIsDated, View
  <2>4. l \in 0..changes /\ l >= lost[c] /\ l >= shown[c].at
    BY <1>4, <2>3 DEF Later
  <2> HIDE DEF l, new
  <2>5. n \in 0..changes /\ (n = 0 \/ n > v.at)
    BY <1>2, <1>4, <2>4
  <2>6. lost[c] = changes \/ shown[c].at = changes => n = changes \/ v.at = changes
    BY <1>2, <1>4, <2>3, <2>4
  <2> HIDE DEF n
  <2>7. CardTypes'
    BY <1>1, <2>1, <2>2, <2>5 DEF PostsInv, CardTypes
  <2>8. /\ shown'[c] = new /\ lost'[c] = n
        /\ \A d \in Cards \ {c} : shown'[d] = shown[d] /\ lost'[d] = lost[d]
    BY <2>1 DEF PostsInv, CardTypes
  <2>9. CardIsAccounted(c)' /\ CardIsDated(c)' /\ CardFollows(c)'
    <3>1. CardIsAccounted(c) /\ CardFollows(c) /\ c \in posts /\ new # NoCard
      BY <1>2, <2>2, Apart DEF PostsInv
    <3>2. CardIsAccounted(c)'
      BY <1>1, <3>1 DEF CardIsAccounted
    <3>3. CardIsDated(c)'
      BY <1>1, <1>2, <1>4, <2>2, <2>5, <2>8 DEF CardIsDated, IsCurrent, lot
    <3>4. ASSUME v.at = changes PROVE CardFollows(c)'
      BY <1>1, <2>2, <2>8, <3>4 DEF CardFollows, lot
    <3>5. ASSUME n = changes PROVE CardFollows(c)'
      BY <1>1, <2>8, <3>5 DEF CardFollows, lot
    <3>6. ASSUME NEW g \in Handlers, Brings(g, c) PROVE CardFollows(c)'
      <4>1. CASE g = h
        BY <1>5, <3>4, <3>6, <4>1
      <4>2. CASE g # h
        BY <1>3, <3>6, <4>2 DEF CardFollows
      <4> QED BY <4>1, <4>2
    <3>7. changes = 1 => v.at = changes
      BY <1>2
    <3>8. CardFollows(c)'
      <4>1. \/ changes = 1 \/ lost[c] = changes \/ shown[c].at = changes
            \/ \E g \in Handlers : Brings(g, c)
        BY <1>8, <3>1 DEF CardFollows
      <4> QED BY <2>6, <3>4, <3>5, <3>6, <3>7, <4>1
    <3> QED BY <3>2, <3>3, <3>8
  <2> QED BY <1>3, <1>4, <1>6, <2>7, <2>8, <2>9, PostsInvAfter
<1> QED BY <1>7, <1>8

\* An edit that fails, and is lost.
LEMMA EditFailureKeeps ==
  ASSUME PostsInv, NEW h \in Handlers, NEW c \in Cards, edit_fails(h, c)
  PROVE  PostsInv'
<1>1. /\ Editing(h, c) /\ Crossed_off(h, c) /\ Loses(h, {c}) /\ UNCHANGED <<lot, posts, stage, shown>>
      /\ failures' \in 0..MaxFailures /\ refresh[h] # NoRefresh
  BY FailuresAreFew DEF edit_fails, Editing
<1>2. /\ LoadsAreSound'
      /\ \A g \in Handlers, d \in Cards : g # h \/ d # c => (Brings(g, d) => Brings(g, d)')
  BY <1>1, CrossingOffKeeps
<1>3. /\ lost' \in [Cards -> Nat] /\ \A d \in Cards : CardIsDated(d)'
      /\ \A d \in Cards : d \in {c} /\ shown[d] # NoCard /\ Brings(h, d) =>
           lost'[d] = changes \/ shown[d].at = changes
      /\ \A d \in Cards : shown[d] # NoCard /\ lost[d] = changes =>
           lost'[d] = changes \/ shown[d].at = changes
  BY <1>1, LosingKeeps
<1>4. LotIsSound' /\ PostsAreSound' /\ CardTypes'
  BY <1>1, <1>3, LotStays DEF PostsInv, CardTypes
<1>5. ASSUME NEW d \in Cards PROVE CardIsAccounted(d)' /\ CardFollows(d)'
  <2>1. CardIsAccounted(d) /\ CardFollows(d)
    BY DEF PostsInv
  <2>2. ASSUME shown[d] # NoCard, NEW g \in Handlers, Brings(g, d)
        PROVE  lost'[d] = changes \/ shown[d].at = changes \/ Brings(g, d)'
    BY <1>2, <1>3, <2>2
  <2> QED BY <1>1, <1>3, <2>1, <2>2 DEF CardIsAccounted, CardFollows, lot
<1> QED BY <1>2, <1>3, <1>4, <1>5, PostsInvAfter

\* A handler that dies loses everything it had yet to do.
LEMMA DyingKeeps ==
  ASSUME PostsInv, NEW h \in Handlers, handler_dies(h)
  PROVE  PostsInv'
<1> DEFINE cs == IF refresh[h] = Asked THEN posts ELSE refresh[h].left
<1>1. /\ refresh[h] # NoRefresh /\ Loses(h, cs) /\ refresh' = [refresh EXCEPT ![h] = NoRefresh]
      /\ UNCHANGED <<lot, posts, stage, shown>> /\ failures' \in 0..MaxFailures
  BY FailuresAreFew DEF handler_dies
<1>2. \A c \in posts : Brings(h, c) => c \in cs
  BY DEF Brings
<1> HIDE DEF cs
<1>3. /\ lost' \in [Cards -> Nat] /\ \A d \in Cards : CardIsDated(d)'
      /\ \A d \in Cards : d \in cs /\ shown[d] # NoCard /\ Brings(h, d) =>
           lost'[d] = changes \/ shown[d].at = changes
      /\ \A d \in Cards : shown[d] # NoCard /\ lost[d] = changes =>
           lost'[d] = changes \/ shown[d].at = changes
  BY <1>1, LosingKeeps
<1>4. LotIsSound' /\ PostsAreSound' /\ CardTypes'
  BY <1>1, <1>3, LotStays DEF PostsInv, CardTypes
<1>5. \A g \in Handlers : refresh'[g] = IF g = h THEN NoRefresh ELSE refresh[g]
  BY <1>1 DEF PostsInv, LoadsAreSound
<1>6. LoadsAreSound'
  <2>1. refresh' \in [Handlers -> Load \cup {NoRefresh, Asked}] /\ changes' # 0
    BY <1>1 DEF PostsInv, LoadsAreSound, lot
  <2>2. ASSUME NEW g \in Handlers, refresh'[g] \notin {NoRefresh, Asked}
        PROVE  LoadIsSound(refresh[g])'
    <3>1. LoadIsSound(refresh'[g])
      BY <1>5, <2>2 DEF PostsInv, LoadsAreSound
    <3> QED BY <1>1, <3>1 DEF LoadIsSound, lot
  <2> QED BY <2>1, <2>2 DEF LoadsAreSound
<1>7. ASSUME NEW d \in Cards PROVE CardIsAccounted(d)' /\ CardFollows(d)'
  <2>1. CardIsAccounted(d) /\ CardFollows(d)
    BY DEF PostsInv
  <2>2. ASSUME NEW g \in Handlers, g # h, Brings(g, d) PROVE Brings(g, d)'
    BY <1>1, <1>5, <2>2 DEF Brings, lot
  <2>3. ASSUME d \in posts, shown[d] # NoCard, NEW g \in Handlers, Brings(g, d)
        PROVE  lost'[d] = changes \/ shown[d].at = changes \/ Brings(g, d)'
    BY <1>2, <1>3, <2>2, <2>3
  <2> QED BY <1>1, <1>3, <2>1, <2>3 DEF CardIsAccounted, CardFollows, lot
<1> QED BY <1>3, <1>4, <1>6, <1>7, PostsInvAfter

(***************************************************************************)
(* The theorems.                                                           *)
(***************************************************************************)
\* Before the lot is published there is nothing to follow.
LEMMA PostsStart ==
  ASSUME Init
  PROVE  PostsInv
<1>1. /\ phase = "unlisted" /\ book = {} /\ award = NoUser /\ changes = 0 /\ posts = {}
      /\ failures = 0 /\ stage = [c \in Cards |-> "new"] /\ shown = [c \in Cards |-> NoCard]
      /\ refresh = [h \in Handlers |-> NoRefresh] /\ lost = [c \in Cards |-> 0]
  BY DEF Init, Lot!Init
<1>2. LotIsSound /\ PostsAreSound
  BY <1>1, PostsAssumption DEF LotIsSound, PostsAreSound, HasBests, Phases
<1>3. LoadsAreSound /\ CardTypes
  BY <1>1 DEF LoadsAreSound, CardTypes, Stages
<1>4. \A c \in Cards : CardIsAccounted(c) /\ CardIsDated(c) /\ CardFollows(c)
  BY <1>1 DEF CardIsAccounted, CardIsDated, CardFollows
<1> QED BY <1>2, <1>3, <1>4 DEF PostsInv

\* Every step keeps the invariant.
LEMMA PostsStep ==
  ASSUME PostsInv, [Next]_vars
  PROVE  PostsInv'
<1>1. ASSUME NEW c \in Cards, Publish(c) PROVE PostsInv'
  BY <1>1, CardIsHandledKeeps, ActivationKeeps, RaisingKeeps DEF Publish
<1>2. ASSUME NEW w \in Workers, handler_changes_lot(w) \/ callback_my_auction_refresh_posts(w)
      PROVE  PostsInv'
  BY <1>2, ChangingKeeps
<1>3. ASSUME NEW h \in Handlers, Refresh(h) PROVE PostsInv'
  BY <1>3, RowLoadKeeps, BookLoadKeeps, EditingKeeps, EditFailureKeeps, DyingKeeps DEF Refresh
<1>4. CASE UNCHANGED vars
  <2>1. LotIsSound' /\ PostsAreSound' /\ LoadsAreSound' /\ CardTypes'
    BY <1>4, FailuresAreFew, LotStays DEF vars, PostsInv, CardTypes
  <2>2. ASSUME NEW c \in Cards PROVE CardIsAccounted(c)' /\ CardIsDated(c)' /\ CardFollows(c)'
    BY <1>4, CardStays DEF vars, PostsInv
  <2> QED BY <2>1, <2>2, PostsInvAfter
<1> QED BY <1>1, <1>2, <1>3, <1>4 DEF Next

\* The invariant holds throughout.
LEMMA PostsInvariance == Spec => []PostsInv
BY PostsStart, PostsStep, PTL DEF Spec

\* What the invariant says of the types.
LEMMA PostsTypes ==
  ASSUME PostsInv
  PROVE  PostsTypeOK
<1>1. ASSUME NEW h \in Handlers, refresh[h] \notin {NoRefresh, Asked}
      PROVE  Rendered(refresh[h]) \in View /\ refresh[h].left \subseteq posts
  <2>1. refresh[h] \in Load /\ LoadIsSound(refresh[h])
    BY <1>1 DEF PostsInv, LoadsAreSound
  <2> QED BY <2>1 DEF LoadIsSound, Load, View, Rendered
<1> QED BY <1>1 DEF PostsInv, PostsTypeOK, LotIsSound, PostsAreSound, CardTypes, Phases, Stages

\* A lot is published with its first card and by one command only: two
\* commands that both saw a draft cannot both register theirs, under the lock
\* of the lot.
THEOREM EveryCardIsAccountedFor == Spec => []CardsAreAccountedFor
<1>1. ASSUME PostsInv PROVE CardsAreAccountedFor
  <2> USE <1>1
  <2>1. Cardinality(posts \cap ChatCards) <= 1
    <3>1. CASE posts \cap ChatCards = {}
      BY <3>1, FS_EmptySet
    <3>2. ASSUME NEW c \in posts \cap ChatCards PROVE Cardinality(posts \cap ChatCards) <= 1
      <4>1. posts \cap ChatCards = {c}
        BY <3>2 DEF PostsInv, PostsAreSound
      <4> QED BY <4>1, FS_Singleton
    <3> QED BY <3>1, <3>2
  <2>2. phase # "unlisted" <=> posts # {}
    BY DEF PostsInv, PostsAreSound
  <2>3. \A c \in Cards \ posts : shown[c] # NoCard => stage[c] \in {"sent", "refused", "abandoned"}
    BY DEF PostsInv, CardIsAccounted
  <2> QED BY <2>1, <2>2, <2>3, PostsTypes DEF CardsAreAccountedFor
<1> QED BY <1>1, PostsInvariance, PTL

\* Once no handler is at it, every post shows the lot as it is, or has lost a
\* later version, or was left behind by its own publisher.
THEOREM EveryPostFollowsTheLot == Spec => []PostsFollowTheLot
<1>1. ASSUME PostsInv PROVE PostsFollowTheLot
  <2> SUFFICES ASSUME \A h \in Handlers : refresh[h] = NoRefresh, NEW c \in posts, shown[c] # NoCard
               PROVE  \/ stage[c] \in {"refused", "abandoned"} /\ shown[c] = Draft
                      \/ lost[c] > shown[c].at
                      \/ shown[c] = [phase |-> phase, award |-> award, book |-> book, at |-> shown[c].at]
    BY DEF PostsFollowTheLot
  <2>1. /\ c \in Cards /\ shown[c] \in View /\ CardIsDated(c) /\ CardFollows(c)
        /\ changes \in Nat \ {0}
    BY <1>1 DEF PostsInv, PostsAreSound, CardTypes, LotIsSound
  <2>2. \A h \in Handlers : ~Brings(h, c)
    BY Apart DEF Brings
  <2>3. CASE changes = 1 /\ shown[c] = Draft /\ stage[c] \in {"refused", "abandoned"}
    BY <2>3
  <2>4. CASE lost[c] = changes
    BY <2>1, <2>4 DEF CardIsDated
  <2>5. CASE shown[c].at = changes
    <3>1. shown[c].phase = phase /\ shown[c].award = award /\ shown[c].book = book
      BY <2>1, <2>5 DEF CardIsDated, IsCurrent
    <3>2. \A v \in View : v = [phase |-> v.phase, award |-> v.award, book |-> v.book, at |-> v.at]
      BY DEF View
    <3> QED BY <2>1, <3>1, <3>2
  <2> QED BY <2>1, <2>2, <2>3, <2>4, <2>5 DEF CardFollows
<1> QED BY <1>1, PostsInvariance, PTL
=============================================================================
