--------------------------- MODULE AuctionProofs ----------------------------
(***************************************************************************)
(* Proofs about module Auction, for every set of users and workers, every   *)
(* price, step, clock granularity and bound its assumption allows.          *)
(***************************************************************************)
EXTENDS Auction, TLAPS, FiniteSetTheorems, SequenceTheorems, WellFoundedInduction

\* A non-empty set of naturals has a least element.
LEMMA LeastNumber ==
  ASSUME NEW S \in SUBSET Nat, S # {}
  PROVE  \E m \in S : \A i \in S : m <= i
<1>1. PICK m \in S : \A i \in S : <<i, m>> \notin OpToRel(<, Nat)
  BY WFMin, NatLessThanWellFounded
<1>2. \A i \in S : m <= i
  <2> TAKE i \in S
  <2>1. i \in Nat /\ m \in Nat
    OBVIOUS
  <2>2. i < m => <<i, m>> \in OpToRel(<, Nat)
    BY <2>1 DEF OpToRel
  <2>3. ~(i < m)
    BY <2>2, <1>1
  <2> QED
    BY <2>1, <2>3
<1> QED
  BY <1>2

\* A non-empty set of positions of a sequence has a greatest element.
LEMMA GreatestPosition ==
  ASSUME NEW n \in Nat, NEW S \in SUBSET (1..n), S # {}
  PROVE  \E m \in S : \A i \in S : i <= m
<1>0. \A i \in S : i \in Nat
  OBVIOUS
<1> DEFINE T == {n - i : i \in S}
<1>1. T \in SUBSET Nat /\ T # {}
  <2>1. \A i \in S : n - i \in Nat
    OBVIOUS
  <2> QED
    BY <2>1
<1>2. PICK x \in T : \A y \in T : x <= y
  BY <1>1, LeastNumber
<1>3. PICK m \in S : x = n - m
  BY <1>2
<1>4. \A i \in S : i <= m
  <2> TAKE i \in S
  <2>1. n - m <= n - i
    BY <1>2, <1>3
  <2>2. i \in Nat /\ m \in Nat
    BY <1>0
  <2> QED
    BY <2>1, <2>2
<1> QED
  BY <1>4

\* Two messages, or two rows, one after the other.
LEMMA OneThenOne ==
  ASSUME NEW S, NEW x \in S, NEW y \in S
  PROVE  <<x>> \o <<y>> = <<x, y>>
<1>1. /\ <<x>> \in Seq(S) /\ <<y>> \in Seq(S) /\ <<x, y>> \in Seq(S)
      /\ Len(<<x>>) = 1 /\ Len(<<y>>) = 1 /\ Len(<<x, y>>) = 2
      /\ <<x, y>>[1] = x /\ <<x, y>>[2] = y
  OBVIOUS
<1> DEFINE s == <<x>>
           t == <<y>>
           u == <<x, y>>
<1>2. /\ s \in Seq(S) /\ t \in Seq(S) /\ u \in Seq(S)
      /\ Len(s) = 1 /\ Len(t) = 1 /\ Len(u) = 2
      /\ s[1] = x /\ t[1] = y /\ u[1] = x /\ u[2] = y
  BY <1>1
<1> HIDE DEF s, t, u
<1>3. /\ s \o t \in Seq(S) /\ Len(s \o t) = Len(s) + Len(t)
      /\ \A i \in 1..Len(s) + Len(t) :
           (s \o t)[i] = IF i <= Len(s) THEN s[i] ELSE t[i - Len(s)]
  BY <1>2, ConcatProperties
<1> DEFINE v == s \o t
<1>4. v \in Seq(S) /\ Len(v) = 2 /\ \A i \in 1..2 : v[i] = IF i <= 1 THEN s[i] ELSE t[i - 1]
  BY <1>2, <1>3
<1> HIDE DEF v
<1>5. \A i \in 1..Len(v) : v[i] = u[i]
  BY <1>2, <1>4
<1>6. v = u
  BY <1>2, <1>4, <1>5, SeqEqual
<1> QED
  BY <1>6 DEF s, t, u, v

\* Bid i beats all that stand among the first n.
LeadsFirst(b, i, n) == i <= n /\ \A j \in Live(b) : j <= n => Beats(b, i, j)

\* With one more bid, the leader goes on leading or the new bid does.
LEMMA NextLeader ==
  ASSUME NEW b \in Seq(Bid), NEW x \in 1..Len(b),
         NEW i \in Live(b), LeadsFirst(b, i, x - 1)
  PROVE  \E k \in Live(b) : LeadsFirst(b, k, x)
<1>1. \A j \in Live(b) : j \in Nat /\ b[j].amount \in Nat
  <2>1. \A j \in Live(b) : j \in 1..Len(b) /\ b[j] \in Bid
    BY DEF Live
  <2> QED
    BY <2>1 DEF Bid
<1>2. x \in Nat /\ i \in Nat /\ i <= x - 1 /\ i < x
  BY <1>1 DEF LeadsFirst
<1>3. \A j \in Live(b) : j <= x => j = x \/ Beats(b, i, j)
  <2> TAKE j \in Live(b)
  <2>1. j <= x => j = x \/ j <= x - 1
    BY <1>1, <1>2
  <2> QED
    BY <2>1 DEF LeadsFirst
<1>4. CASE x \in Live(b) /\ b[x].amount > b[i].amount
  <2>1. \A j \in Live(b) : j <= x => Beats(b, x, j)
    <3> TAKE j \in Live(b)
    <3>1. Beats(b, i, j) => b[j].amount <= b[i].amount
      BY <1>1 DEF Beats
    <3>2. b[j].amount <= b[i].amount => b[x].amount > b[j].amount
      <4>1. b[j].amount \in Nat /\ b[i].amount \in Nat /\ b[x].amount \in Nat
        BY <1>1, <1>4
      <4> QED
        BY <4>1, <1>4
    <3>3. j = x => Beats(b, x, j)
      BY <1>2 DEF Beats
    <3> QED
      BY <1>3, <3>1, <3>2, <3>3 DEF Beats
  <2> QED
    BY <1>2, <1>4, <2>1 DEF LeadsFirst
<1>5. CASE ~(x \in Live(b) /\ b[x].amount > b[i].amount)
  <2>1. x \in Live(b) => Beats(b, i, x)
    BY <1>1, <1>2, <1>5 DEF Beats
  <2>2. \A j \in Live(b) : j <= x => Beats(b, i, j)
    BY <1>3, <2>1
  <2> QED
    BY <1>2, <2>2 DEF LeadsFirst
<1> QED
  BY <1>4, <1>5

\* Some bid leads: there is no shortest run of bids without a leader.
LEMMA SomeBidLeads ==
  ASSUME NEW b \in Seq(Bid), Live(b) # {}
  PROVE  \E i \in Live(b) : \A j \in Live(b) : Beats(b, i, j)
<1> DEFINE Some(n) == \E i \in Live(b) : i <= n
           Led(n) == \E i \in Live(b) : LeadsFirst(b, i, n)
           Bad == {n \in 0..Len(b) : Some(n) /\ ~Led(n)}
<1>1. Len(b) \in Nat /\ \A i \in Live(b) : i \in 1..Len(b)
  BY DEF Live
<1>2. ASSUME NEW x \in Bad, \A n \in Bad : x <= n
      PROVE  FALSE
  <2>1. x \in 0..Len(b) /\ Some(x) /\ ~Led(x)
    OBVIOUS
  <2>2. x \in 1..Len(b) /\ x - 1 \in 0..Len(b) /\ ~(x <= x - 1)
    BY <1>1, <2>1
  <2>3. x - 1 \notin Bad
    BY <1>2, <2>2
  <2>4. ~Some(x - 1) \/ Led(x - 1)
    BY <2>2, <2>3
  <2>5. CASE ~Some(x - 1)
    <3>1. \A j \in Live(b) : j <= x => j = x
      BY <1>1, <2>2, <2>5
    <3>2. x \in Live(b)
      BY <2>1, <3>1
    <3>3. LeadsFirst(b, x, x)
      BY <2>2, <3>1 DEF LeadsFirst, Beats
    <3> QED
      BY <2>1, <3>2, <3>3
  <2>6. CASE Led(x - 1)
    BY <2>1, <2>2, <2>6, NextLeader
  <2> QED
    BY <2>4, <2>5, <2>6
<1>3. Bad = {}
  <2>1. Bad \in SUBSET Nat
    BY <1>1
  <2> HIDE DEF Bad
  <2> QED
    BY <2>1, <1>2, LeastNumber
<1>4. Len(b) \in 0..Len(b) /\ Some(Len(b))
  BY <1>1
<1>5. Led(Len(b))
  BY <1>3, <1>4
<1> QED
  BY <1>1, <1>5 DEF LeadsFirst

\* The top bid stands, and no other is higher.
LEMMA TopLeads ==
  ASSUME NEW b \in Seq(Bid), Live(b) # {}
  PROVE  /\ Top(b) \in Live(b)
         /\ \A j \in Live(b) : b[j].amount <= b[Top(b)].amount
<1>1. Top(b) \in Live(b) /\ \A j \in Live(b) : Beats(b, Top(b), j)
  BY SomeBidLeads DEF Top
<1>2. \A j \in Live(b) : b[j].amount \in Nat
  <2>1. \A j \in Live(b) : b[j] \in Bid
    BY DEF Live
  <2> QED
    BY <2>1 DEF Bid
<1> QED
  BY <1>1, <1>2 DEF Beats
-----------------------------------------------------------------------------
(* What the helpers over the bids return. *)

\* The leader is a user or nobody, and no standing bid exceeds the price.
LEMMA PriceIsHighest ==
  ASSUME NEW b \in Seq(Bid)
  PROVE  /\ TopUser(b) \in Users \cup {NoUser}
         /\ CurrentPrice(b) \in Nat
         /\ \A i \in Live(b) : b[i].amount <= CurrentPrice(b)
<1>1. CASE Live(b) = {}
  BY <1>1, AuctionAssumption DEF TopUser, CurrentPrice
<1>2. CASE Live(b) # {}
  <2>1. Top(b) \in Live(b) /\ \A j \in Live(b) : b[j].amount <= b[Top(b)].amount
    BY <1>2, TopLeads
  <2>2. b[Top(b)] \in Bid
    BY <2>1 DEF Live
  <2> QED
    BY <1>2, <2>1, <2>2 DEF TopUser, CurrentPrice, Bid
<1> QED
  BY <1>1, <1>2

\* A bid above every standing one leads.
LEMMA HigherBidLeads ==
  ASSUME NEW b \in Seq(Bid), Climbs(b),
         NEW r \in Bid, ~r.removed,
         \A i \in Live(b) : b[i].amount < r.amount
  PROVE  LET c == Append(b, r) IN
         /\ c \in Seq(Bid) /\ Climbs(c)
         /\ Live(c) = Live(b) \cup {Len(b) + 1}
         /\ \A i \in Live(b) : c[i] = b[i]
         /\ c[Len(b) + 1] = r
         /\ TopUser(c) = r.user
<1> DEFINE c == Append(b, r)
           n == Len(b) + 1
<1>1. /\ c \in Seq(Bid) /\ Len(b) \in Nat
      /\ DOMAIN b = 1..Len(b) /\ DOMAIN c = 1..n
      /\ c[n] = r /\ \A i \in 1..Len(b) : c[i] = b[i]
  OBVIOUS
<1>2. Live(c) = Live(b) \cup {n} /\ \A i \in Live(b) : c[i] = b[i] /\ i < n
  BY <1>1 DEF Live
<1>3. \A i \in Live(c) : i \in Nat /\ c[i].amount \in Nat /\ (i # n => i < n /\ c[i].amount < r.amount)
  <2> TAKE i \in Live(c)
  <2>1. i \in 1..n
    BY <1>1 DEF Live
  <2>2. c[i] \in Bid
    BY <2>1, <1>1
  <2>3. c[i].amount \in Nat
    BY <2>2 DEF Bid
  <2>4. i # n => i \in Live(b) /\ i < n
    BY <1>2
  <2> QED
    BY <2>1, <2>3, <2>4, <1>1, <1>2
<1> HIDE DEF c
<1>4. Climbs(c)
  <2> SUFFICES ASSUME NEW i \in Live(c), NEW j \in Live(c), i < j
               PROVE  c[i].amount < c[j].amount
    BY DEF Climbs
  <2>1. CASE j = n
    BY <2>1, <1>1, <1>3
  <2>2. CASE j # n
    <3>1. i # n
      BY <2>2, <1>1, <1>3
    <3> QED
      BY <3>1, <2>2, <1>2 DEF Climbs
  <2> QED
    BY <2>1, <2>2
<1>5. Top(c) = n
  <2>1. Top(c) \in Live(c) /\ \A j \in Live(c) : c[j].amount <= c[Top(c)].amount
    BY <1>1, <1>2, <1>4, TopLeads
  <2>2. c[n].amount <= c[Top(c)].amount
    BY <2>1, <1>2
  <2> QED
    BY <2>1, <2>2, <1>1, <1>3 DEF Bid
<1> QED
  BY <1>1, <1>2, <1>4, <1>5 DEF TopUser, c

\* c is b without bid i: the others stand as they did.
Struck(b, i, c) ==
  /\ c \in Seq(Bid) /\ Climbs(c) /\ Len(c) = Len(b)
  /\ Live(c) = Live(b) \ {i}
  /\ \A j \in Live(c) : c[j] = b[j]

\* Striking a bid leaves the others as they were.
LEMMA RemovalKeepsOthers ==
  ASSUME NEW b \in Seq(Bid), Climbs(b), NEW i \in Live(b)
  PROVE  Struck(b, i, [b EXCEPT ![i].removed = TRUE])
<1> DEFINE c == [b EXCEPT ![i].removed = TRUE]
<1>1. i \in 1..Len(b) /\ DOMAIN b = 1..Len(b) /\ Len(b) \in Nat /\ b[i] \in Bid
  BY DEF Live
<1>2. [b[i] EXCEPT !.removed = TRUE] \in Bid
  BY <1>1 DEF Bid
<1>3. c = [b EXCEPT ![i] = [b[i] EXCEPT !.removed = TRUE]]
  OBVIOUS
<1>4. c \in Seq(Bid) /\ Len(c) = Len(b) /\ DOMAIN c = DOMAIN b
  BY <1>1, <1>2, <1>3
<1>5. c[i].removed /\ \A j \in DOMAIN b : j # i => c[j] = b[j]
  BY <1>1, <1>3 DEF Bid
<1>6. Live(c) = Live(b) \ {i} /\ \A j \in Live(c) : c[j] = b[j]
  BY <1>4, <1>5 DEF Live
<1>7. Climbs(c)
  BY <1>6 DEF Climbs
<1> QED
  BY <1>4, <1>6, <1>7 DEF Struck

\* remove_bid strikes the bid it names.
LEMMA RemoveBidStrikes ==
  ASSUME TypeOK, Climbs(bids), NEW i \in BidIds, remove_bid(i)
  PROVE  i \in Live(bids) /\ Struck(bids, i, bids')
<1>1. i \in Live(bids) /\ bids' = [bids EXCEPT ![i].removed = TRUE]
  BY DEF remove_bid
<1>2. bids \in Seq(Bid)
  BY DEF TypeOK
<1>3. Struck(bids, i, [bids EXCEPT ![i].removed = TRUE])
  BY <1>1, <1>2, RemovalKeepsOthers
<1> QED
  BY <1>1, <1>3
-----------------------------------------------------------------------------
(* The inductive invariant.  The award can only be followed through a        *)
(* removal or a close if the bids climb, and they go on climbing only if no  *)
(* standing bid of a running lot has reached the buyout price.               *)

\* Once published a lot knows when it started and when it ends.
Timed == status # "DRAFT" => starts_at \in Nat /\ ends_at \in Nat

IInv == TypeOK /\ HighestLiveBidderWins /\ BidsClimbBelowBuyout /\ Timed

\* Rounding to the hour gives a time.
LEMMA RoundingIsATime ==
  ASSUME NEW t \in Nat
  PROVE  ScheduledEnd(t) \in Nat
<1>1. \A u \in Nat : u % Hour \in Nat /\ u % Hour <= u
  BY AuctionAssumption
<1>2. \A u \in Nat : ceil_to_next_hour(u) \in Nat
  BY <1>1, AuctionAssumption DEF ceil_to_next_hour
<1> QED
  BY <1>2, AuctionAssumption DEF ScheduledEnd

\* The amount of a bid that is placed beats the book, and stays below the
\* buyout price unless it buys the lot out.
LEMMA PlacedAmount ==
  ASSUME IInv, status = "ACTIVE", NEW c \in Call, ~Refused(c)
  PROVE  /\ RowOf(c) \in Bid /\ ~RowOf(c).removed
         /\ RowOf(c).user = c.user /\ RowOf(c).amount = Amount(c)
         /\ \A i \in Live(bids) : bids[i].amount < Amount(c)
         /\ ~BuysOut(c) /\ BuyoutPrice # NoPrice => Amount(c) < BuyoutPrice
<1>1. bids \in Seq(Bid) /\ Climbs(bids)
  BY DEF IInv, TypeOK, BidsClimbBelowBuyout
<1>2. CurrentPrice(bids) \in Nat /\ \A i \in Live(bids) : bids[i].amount <= CurrentPrice(bids)
  BY <1>1, PriceIsHighest
<1>3. \A i \in Live(bids) : bids[i].amount \in Nat
  <2>1. \A i \in Live(bids) : bids[i] \in Bid
    BY <1>1 DEF Live
  <2> QED
    BY <2>1 DEF Bid
<1>4. c.user \in Users /\ c.mult \in Nat \ {0} /\ c.buyout \in BOOLEAN
  BY AuctionAssumption DEF Call
<1>5. MinStep * c.mult \in Nat \ {0}
  BY <1>4, AuctionAssumption
<1>6. Raised(c) \in Nat /\ Raised(c) > CurrentPrice(bids)
  <2> DEFINE d == MinStep * c.mult
  <2>1. d \in Nat \ {0}
    BY <1>5
  <2> HIDE DEF d
  <2>2. CurrentPrice(bids) + d \in Nat /\ CurrentPrice(bids) + d > CurrentPrice(bids)
    BY <2>1, <1>2
  <2> QED
    BY <2>2 DEF Raised, d
<1>7. BuysOut(c) => BuyoutPrice \in Nat
  BY <1>4, AuctionAssumption DEF BuysOut, Refused
<1>8. BuyoutPrice # NoPrice => \A i \in Live(bids) : bids[i].amount < BuyoutPrice
  BY DEF IInv, BidsClimbBelowBuyout, Finished
<1>9. Amount(c) \in Nat /\ \A i \in Live(bids) : bids[i].amount < Amount(c)
  <2>1. CASE BuysOut(c)
    BY <2>1, <1>7, <1>8, AuctionAssumption DEF Amount
  <2>2. CASE ~BuysOut(c)
    BY <2>2, <1>2, <1>3, <1>6 DEF Amount
  <2> QED
    BY <2>1, <2>2
<1>10. ~BuysOut(c) /\ BuyoutPrice # NoPrice => Amount(c) < BuyoutPrice
  BY <1>6, AuctionAssumption DEF Amount, BuysOut
<1> QED
  BY <1>4, <1>9, <1>10 DEF RowOf, Bid

\* Closing a running or frozen lot in favour of the leader keeps the invariant.
LEMMA ClosingKeepsInvariant ==
  ASSUME IInv, status \in {"ACTIVE", "FROZEN"},
         status' = "ENDED", winner' = TopUser(bids),
         ends_at' \in Nat, extensions_used' = extensions_used, starts_at' = starts_at,
         UNCHANGED <<posts, bids, banned, now>>,
         audit' \in Seq(Audit), calls' \in [Handlers -> Call \cup {NoCall}], due' \in BOOLEAN
  PROVE  IInv'
<1>1. TopUser(bids) \in Users \cup {NoUser}
  BY PriceIsHighest DEF IInv, TypeOK, BidsClimbBelowBuyout
<1>2. TypeOK'
  BY <1>1 DEF IInv, TypeOK, Statuses
<1>3. HighestLiveBidderWins' /\ BidsClimbBelowBuyout'
  BY DEF IInv, HighestLiveBidderWins, BidsClimbBelowBuyout, Finished
<1>4. Timed'
  BY DEF IInv, Timed
<1> QED
  BY <1>2, <1>3, <1>4 DEF IInv

\* A step that leaves the bids and the winner alone, and neither opens nor
\* reopens the question of who won, only has its types to answer for.
LEMMA QuietStepKeepsInvariant ==
  ASSUME IInv, TypeOK', Timed', UNCHANGED <<bids, winner>>,
         (status \in Finished) <=> (status' \in Finished)
  PROVE  IInv'
<1>1. HighestLiveBidderWins' /\ BidsClimbBelowBuyout'
  BY DEF IInv, HighestLiveBidderWins, BidsClimbBelowBuyout
<1> QED
  BY <1>1 DEF IInv

\* The clock now and the time of finalize_auction_locked.
LEMMA FinalizeTime ==
  ASSUME IInv, NEW f, NEW w, finalize_auction_locked(f, w)
  PROVE  /\ status' = f /\ winner' = w /\ ends_at' \in Nat
         /\ starts_at' = starts_at /\ extensions_used' = extensions_used
BY DEF finalize_auction_locked, IInv, TypeOK

\* Activating a draft keeps the invariant.
LEMMA PublicationKeepsInvariant ==
  ASSUME IInv, Publication
  PROVE  IInv'
<1>1. ASSUME NEW p \in Posts, Activate, status = "DRAFT",
             posts' = posts \cup {p}, UNCHANGED <<bids, banned, audit, now, calls, due>>
      PROVE  IInv'
  <2>1. ScheduledEnd(now) \in Nat
    BY RoundingIsATime DEF IInv, TypeOK
  <2>2. /\ status' = "ACTIVE" /\ starts_at' = now /\ ends_at' \in Nat
        /\ UNCHANGED <<extensions_used, winner>>
    BY <1>1, <2>1 DEF Activate
  <2>3. TypeOK' /\ Timed'
    BY <1>1, <2>2 DEF IInv, TypeOK, Timed, Statuses
  <2> QED
    BY <1>1, <2>2, <2>3, QuietStepKeepsInvariant DEF Finished
<1>2. ASSUME NEW p \in Posts, UNCHANGED lot,
             posts' = posts \cup {p}, UNCHANGED <<bids, banned, audit, now, calls, due>>
      PROVE  IInv'
  <2>1. TypeOK' /\ Timed'
    BY <1>2 DEF IInv, TypeOK, Timed, lot
  <2> QED
    BY <1>2, <2>1, QuietStepKeepsInvariant DEF lot
<1> QED
  BY <1>1, <1>2 DEF Publication, activate_auction_chat_post, activate_auction_inline_post

\* A placed bid: the new row leads, and a buyout makes its owner the winner.
LEMMA PlacedBidKeepsInvariant ==
  ASSUME IInv, NEW c \in Call, bid_is_placed(c),
         calls' \in [Handlers -> Call \cup {NoCall}],
         UNCHANGED <<posts, banned, audit, now, due>>
  PROVE  IInv'
<1>1. /\ status = "ACTIVE" /\ ~Refused(c) /\ bids' = Append(bids, RowOf(c))
      /\ bids \in Seq(Bid) /\ Climbs(bids)
  BY DEF bid_is_placed, IInv, TypeOK, BidsClimbBelowBuyout
<1>2. /\ RowOf(c) \in Bid /\ ~RowOf(c).removed
      /\ RowOf(c).user = c.user /\ RowOf(c).amount = Amount(c)
      /\ \A i \in Live(bids) : bids[i].amount < Amount(c)
      /\ ~BuysOut(c) /\ BuyoutPrice # NoPrice => Amount(c) < BuyoutPrice
  BY <1>1, PlacedAmount
<1>3. /\ bids' \in Seq(Bid) /\ Climbs(bids')
      /\ Live(bids') = Live(bids) \cup {Len(bids) + 1}
      /\ \A i \in Live(bids) : bids'[i] = bids[i]
      /\ bids'[Len(bids) + 1] = RowOf(c)
      /\ TopUser(bids') = c.user
  <2>1. \A i \in Live(bids) : bids[i].amount < RowOf(c).amount
    BY <1>2
  <2>2. LET d == Append(bids, RowOf(c)) IN
        /\ d \in Seq(Bid) /\ Climbs(d)
        /\ Live(d) = Live(bids) \cup {Len(bids) + 1}
        /\ \A i \in Live(bids) : d[i] = bids[i]
        /\ d[Len(bids) + 1] = RowOf(c)
        /\ TopUser(d) = RowOf(c).user
    BY <1>1, <1>2, <2>1, HigherBidLeads
  <2> QED
    BY <1>1, <1>2, <2>2
<1>4. CASE BuysOut(c)
  <2>1. finalize_auction_locked("BOUGHT_OUT", c.user)
    BY <1>4 DEF bid_is_placed
  <2>2. /\ status' = "BOUGHT_OUT" /\ winner' = c.user /\ ends_at' \in Nat
        /\ starts_at' = starts_at /\ extensions_used' = extensions_used
    BY <2>1, FinalizeTime
  <2>3. TypeOK' /\ Timed'
    BY <1>1, <1>3, <2>2 DEF IInv, TypeOK, Timed, Statuses, Call
  <2>4. HighestLiveBidderWins' /\ BidsClimbBelowBuyout'
    BY <1>3, <2>2 DEF HighestLiveBidderWins, BidsClimbBelowBuyout, Finished
  <2> QED
    BY <2>3, <2>4 DEF IInv
<1>5. CASE ~BuysOut(c)
  <2>1. extend_end(c.at)
    BY <1>5 DEF bid_is_placed
  <2>2. /\ UNCHANGED <<status, starts_at, winner>>
        /\ ends_at' \in Nat /\ extensions_used' \in 0..MaxExtensions
    BY <1>1, <2>1, AuctionAssumption DEF extend_end, Extends, IInv, TypeOK, Timed
  <2>3. TypeOK' /\ Timed'
    BY <1>1, <1>3, <2>2 DEF IInv, TypeOK, Timed
  <2>4. BuyoutPrice # NoPrice => \A i \in Live(bids') : bids'[i].amount < BuyoutPrice
    BY <1>1, <1>2, <1>3, <1>5 DEF IInv, BidsClimbBelowBuyout, Finished
  <2>5. HighestLiveBidderWins' /\ BidsClimbBelowBuyout'
    BY <1>1, <1>3, <2>2, <2>4 DEF IInv, HighestLiveBidderWins, BidsClimbBelowBuyout, Finished
  <2> QED
    BY <2>3, <2>5 DEF IInv
<1> QED
  BY <1>4, <1>5

\* So does each branch of a bid call.
LEMMA BiddingKeepsInvariant ==
  ASSUME IInv, NEW h \in Handlers, receive_bid(h) \/ process_bid_action(h)
  PROVE  IInv'
<1>1. CASE receive_bid(h)
  <2>1. PICK u \in Users, b \in BOOLEAN, m \in Multipliers :
          calls' = [calls EXCEPT ![h] = [user |-> u, buyout |-> b, mult |-> m, at |-> now]]
    BY <1>1 DEF receive_bid
  <2>2. [user |-> u, buyout |-> b, mult |-> m, at |-> now] \in Call
    BY DEF Call, IInv, TypeOK
  <2>3. calls' \in [Handlers -> Call \cup {NoCall}]
    BY <2>1, <2>2 DEF IInv, TypeOK
  <2>4. UNCHANGED <<lot, posts, bids, banned, audit, now, due>>
    BY <1>1 DEF receive_bid
  <2>5. TypeOK' /\ Timed'
    BY <2>3, <2>4 DEF IInv, TypeOK, Timed, lot
  <2> QED
    BY <2>4, <2>5, QuietStepKeepsInvariant DEF lot
<1>2. CASE process_bid_action(h)
  <2>1. /\ calls[h] \in Call
        /\ calls' \in [Handlers -> Call \cup {NoCall}]
        /\ UNCHANGED <<posts, banned, audit, now, due>>
    BY <1>2 DEF process_bid_action, IInv, TypeOK
  <2>2. CASE bid_is_turned_down(calls[h])
    <3>1. TypeOK' /\ Timed' /\ UNCHANGED <<lot, bids>>
      BY <2>1, <2>2 DEF bid_is_turned_down, IInv, TypeOK, Timed, lot
    <3> QED
      BY <3>1, QuietStepKeepsInvariant DEF lot
  <2>3. CASE bid_finds_lot_expired(calls[h])
    <3>1. /\ status = "ACTIVE" /\ bids' = bids
          /\ finalize_auction_locked("ENDED", TopUser(bids))
      BY <2>3 DEF bid_finds_lot_expired
    <3>2. /\ status' = "ENDED" /\ winner' = TopUser(bids) /\ ends_at' \in Nat
          /\ starts_at' = starts_at /\ extensions_used' = extensions_used
      BY <3>1, FinalizeTime
    <3> QED
      BY <2>1, <3>1, <3>2, ClosingKeepsInvariant DEF IInv, TypeOK
  <2>4. CASE bid_is_placed(calls[h])
    BY <2>1, <2>4, PlacedBidKeepsInvariant
  <2> QED
    BY <1>2, <2>2, <2>3, <2>4 DEF process_bid_action
<1> QED
  BY <1>1, <1>2

\* So do the watcher's scan and its close.
LEMMA WatchingKeepsInvariant ==
  ASSUME IInv, Watching
  PROVE  IInv'
<1>1. CASE watcher_scan
  <2>1. TypeOK' /\ Timed' /\ UNCHANGED <<lot, bids>>
    BY <1>1 DEF watcher_scan, IInv, TypeOK, Timed, lot
  <2> QED
    BY <2>1, QuietStepKeepsInvariant DEF lot
<1>2. CASE watcher_finalize /\ status = "ACTIVE"
  <2>1. /\ finalize_auction_locked("ENDED", TopUser(bids))
        /\ due' = FALSE /\ UNCHANGED <<posts, bids, banned, audit, now, calls>>
    BY <1>2 DEF watcher_finalize
  <2>2. /\ status' = "ENDED" /\ winner' = TopUser(bids) /\ ends_at' \in Nat
        /\ starts_at' = starts_at /\ extensions_used' = extensions_used
    BY <2>1, FinalizeTime
  <2> QED
    BY <1>2, <2>1, <2>2, ClosingKeepsInvariant DEF IInv, TypeOK
<1>3. CASE watcher_finalize /\ status # "ACTIVE"
  <2>1. TypeOK' /\ Timed' /\ UNCHANGED <<lot, bids>>
    BY <1>3 DEF watcher_finalize, IInv, TypeOK, Timed, lot
  <2> QED
    BY <2>1, QuietStepKeepsInvariant DEF lot
<1> QED
  BY <1>1, <1>2, <1>3 DEF Watching

\* The moderators' actions.
LEMMA ModerationKeepsInvariant ==
  ASSUME IInv, Moderation
  PROVE  IInv'
<1>1. ASSUME NEW row \in Audit, _log_action(row)
      PROVE  audit' \in Seq(Audit)
  BY <1>1 DEF _log_action, IInv, TypeOK
<1>2. /\ [action |-> "FREEZE_AUCTION"] \in Audit /\ [action |-> "UNFREEZE_AUCTION"] \in Audit
      /\ [action |-> "END_AUCTION"] \in Audit
      /\ \A u \in Users : /\ [action |-> "BAN_USER", user |-> u] \in Audit
                          /\ [action |-> "UNBAN_USER", user |-> u] \in Audit
      /\ \A i \in Nat : [action |-> "REMOVE_BID", bid |-> i] \in Audit
  BY DEF Audit
<1>3. CASE freeze_auction \/ unfreeze_auction
  <2>1. audit' \in Seq(Audit)
    BY <1>1, <1>2, <1>3 DEF freeze_auction, unfreeze_auction
  <2>2. TypeOK' /\ Timed' /\ UNCHANGED <<bids, winner>>
    BY <1>3, <2>1 DEF freeze_auction, unfreeze_auction, IInv, TypeOK, Timed, Statuses
  <2> QED
    BY <1>3, <2>2, QuietStepKeepsInvariant DEF freeze_auction, unfreeze_auction, Finished
<1>4. CASE end_auction
  <2>1. audit' \in Seq(Audit)
    BY <1>1, <1>2, <1>4 DEF end_auction
  <2> QED
    BY <1>4, <2>1, ClosingKeepsInvariant DEF end_auction, IInv, TypeOK
<1>5. ASSUME NEW i \in BidIds, remove_bid(i)
      PROVE  IInv'
  <2>1. i \in Live(bids) /\ bids \in Seq(Bid) /\ Climbs(bids) /\ i \in Nat
    BY <1>5, AuctionAssumption DEF remove_bid, IInv, TypeOK, BidsClimbBelowBuyout, BidIds
  <2>2. /\ bids' \in Seq(Bid) /\ Climbs(bids')
        /\ Live(bids') = Live(bids) \ {i}
        /\ \A j \in Live(bids') : bids'[j] = bids[j]
    BY <1>5, RemoveBidStrikes DEF IInv, BidsClimbBelowBuyout, Struck
  <2>3. TopUser(bids') \in Users \cup {NoUser}
    BY <2>2, PriceIsHighest
  <2>4. audit' \in Seq(Audit)
    BY <1>1, <1>2, <1>5, <2>1 DEF remove_bid
  <2>5. TypeOK' /\ Timed'
    <3>1. /\ UNCHANGED <<status, starts_at, ends_at, extensions_used>>
          /\ UNCHANGED <<posts, banned, now, calls, due>>
          /\ winner' \in {TopUser(bids'), winner}
      BY <1>5 DEF remove_bid
    <3>2. TypeOK /\ Timed
      BY DEF IInv
    <3>3. winner' \in Users \cup {NoUser}
      BY <3>1, <3>2, <2>3 DEF TypeOK
    <3>4. TypeOK'
      BY <3>1, <3>2, <3>3, <2>2, <2>4 DEF TypeOK
    <3>5. Timed'
      BY <3>1, <3>2 DEF Timed
    <3> QED
      BY <3>4, <3>5
  <2>6. HighestLiveBidderWins'
    BY <1>5 DEF remove_bid, IInv, HighestLiveBidderWins
  <2>7. BidsClimbBelowBuyout'
    BY <1>5, <2>2 DEF remove_bid, IInv, BidsClimbBelowBuyout
  <2> QED
    BY <2>5, <2>6, <2>7 DEF IInv
<1>6. ASSUME NEW u \in Users, ban_user(u) \/ unban_user(u)
      PROVE  IInv'
  <2>1. audit' \in Seq(Audit)
    BY <1>1, <1>2, <1>6 DEF ban_user, unban_user
  <2>2. TypeOK' /\ Timed' /\ UNCHANGED <<lot, bids>>
    BY <1>6, <2>1 DEF ban_user, unban_user, IInv, TypeOK, Timed, lot
  <2> QED
    BY <2>2, QuietStepKeepsInvariant DEF lot
<1> QED
  BY <1>3, <1>4, <1>5, <1>6 DEF Moderation

\* A draft as create_draft_auction leaves it satisfies the invariant.
LEMMA InitialInvariant == Init => IInv
<1> SUFFICES ASSUME Init PROVE IInv
  OBVIOUS
<1>1. Live(bids) = {}
  BY DEF Init, Live
<1>2. TypeOK
  <2>1. bids \in Seq(Bid) /\ audit \in Seq(Audit)
    BY DEF Init
  <2>2. calls \in [Handlers -> Call \cup {NoCall}]
    BY DEF Init
  <2>3. extensions_used \in 0..MaxExtensions /\ now \in Nat
    BY AuctionAssumption DEF Init
  <2> QED
    BY <2>1, <2>2, <2>3 DEF Init, TypeOK, Statuses
<1>3. HighestLiveBidderWins /\ BidsClimbBelowBuyout /\ Timed
  BY <1>1 DEF Init, HighestLiveBidderWins, BidsClimbBelowBuyout, Climbs, Timed, Finished
<1> QED
  BY <1>2, <1>3 DEF IInv

\* Every step of the lot keeps the invariant.
LEMMA StepKeepsInvariant == IInv /\ [Next]_vars => IInv'
<1> SUFFICES ASSUME IInv, [Next]_vars PROVE IInv'
  OBVIOUS
<1>1. CASE Tick
  <2>1. TypeOK' /\ Timed' /\ UNCHANGED <<lot, bids>>
    BY <1>1 DEF Tick, IInv, TypeOK, Timed, lot
  <2> QED
    BY <2>1, QuietStepKeepsInvariant DEF lot
<1>2. CASE bot_restarts
  <2>1. TypeOK' /\ Timed' /\ UNCHANGED <<lot, bids>>
    BY <1>2 DEF bot_restarts, IInv, TypeOK, Timed, lot
  <2> QED
    BY <2>1, QuietStepKeepsInvariant DEF lot
<1>3. CASE UNCHANGED vars
  <2>1. TypeOK' /\ Timed' /\ UNCHANGED <<lot, bids>>
    BY <1>3 DEF vars, IInv, TypeOK, Timed, lot
  <2> QED
    BY <2>1, QuietStepKeepsInvariant DEF lot
<1> QED
  BY <1>1, <1>2, <1>3, PublicationKeepsInvariant, BiddingKeepsInvariant,
     WatchingKeepsInvariant, ModerationKeepsInvariant DEF Next, Bidding

\* The invariant holds of every behaviour of the lot.
LEMMA InvariantHolds == Spec => []IInv
BY InitialInvariant, StepKeepsInvariant, PTL DEF Spec
-----------------------------------------------------------------------------
(* The theorems. *)

\* Every column and every value a worker holds keeps its type.
THEOREM TypeCorrect == Spec => []TypeOK
<1>1. IInv => TypeOK
  BY DEF IInv
<1> QED
  BY <1>1, InvariantHolds, PTL

\* Whatever closes the lot and whatever is removed from it, before or after,
\* the winner on record is the owner of the highest bid that stands.
THEOREM AwardIsRight == Spec => []HighestLiveBidderWins
<1>1. IInv => HighestLiveBidderWins
  BY DEF IInv
<1> QED
  BY <1>1, InvariantHolds, PTL

\* Standing bids climb, and none of a lot still running is at the buyout price.
THEOREM LadderIsSound == Spec => []BidsClimbBelowBuyout
<1>1. IInv => BidsClimbBelowBuyout
  BY DEF IInv
<1> QED
  BY <1>1, InvariantHolds, PTL

\* The hammer falls once: no call, pass or command that started before the
\* close, or comes after it, changes the status or the end of a finished lot
\* or adds a bid to it.
THEOREM HammerFallsOnce == Spec => ClosedIsFinal
<1>1. IInv /\ [Next]_vars =>
        [(status \in Finished) =>
           status' = status /\ ends_at' = ends_at /\ Len(bids') = Len(bids)]_vars
  <2> SUFFICES ASSUME IInv, Next, status \in Finished
               PROVE  status' = status /\ ends_at' = ends_at /\ Len(bids') = Len(bids)
    OBVIOUS
  <2>1. status \notin {"DRAFT", "ACTIVE", "FROZEN"}
    BY DEF Finished
  <2>2. CASE Tick \/ bot_restarts \/ Watching
    BY <2>1, <2>2 DEF Tick, bot_restarts, Watching, watcher_scan, watcher_finalize, lot
  <2>3. CASE Publication
    BY <2>1, <2>3 DEF Publication, activate_auction_chat_post, activate_auction_inline_post, lot
  <2>4. CASE Bidding
    BY <2>1, <2>4 DEF Bidding, receive_bid, process_bid_action, bid_is_turned_down,
       bid_finds_lot_expired, bid_is_placed, lot
  <2>5. CASE Moderation
    <3>1. ASSUME NEW i \in BidIds, remove_bid(i)
          PROVE  Len(bids') = Len(bids)
      BY <3>1, RemoveBidStrikes DEF IInv, BidsClimbBelowBuyout, Struck
    <3> QED
      BY <2>1, <2>5, <3>1 DEF Moderation, freeze_auction, unfreeze_auction, end_auction,
         remove_bid, ban_user, unban_user, lot
  <2> QED
    BY <2>2, <2>3, <2>4, <2>5 DEF Next
<1> QED
  BY <1>1, InvariantHolds, PTL DEF Spec, ClosedIsFinal
-----------------------------------------------------------------------------
(* The end of the lot.  The limit on the extensions is part of the type; the  *)
(* rest of the property is kept step by step, together with the fact that a   *)
(* draft has been charged no extension.                                      *)

Accounted == ScheduledEnd(starts_at) + extensions_used * Extend
EndedByModerator == [action |-> "END_AUCTION"] \in Range(audit)
EInv ==
  /\ status = "DRAFT" => extensions_used = 0
  /\ status \notin Finished \cup {"DRAFT"} => ends_at = Accounted
  /\ status \in Finished => ends_at <= now /\ (ends_at <= Accounted \/ EndedByModerator)

\* One more extension costs one more Extend.
LEMMA OneMoreExtension ==
  ASSUME NEW n \in Nat
  PROVE  n * Extend \in Nat /\ (n + 1) * Extend = n * Extend + Extend
BY AuctionAssumption

\* What the end of a published lot is compared with is a number.
LEMMA AccountedIsATime ==
  ASSUME IInv, status # "DRAFT"
  PROVE  Accounted \in Nat
<1>1. ScheduledEnd(starts_at) \in Nat
  BY RoundingIsATime DEF IInv, Timed
<1>2. extensions_used * Extend \in Nat
  BY OneMoreExtension, AuctionAssumption DEF IInv, TypeOK
<1> QED
  BY <1>1, <1>2 DEF Accounted

\* A step that leaves the lot's row alone and forgets no audit row.
LEMMA QuietStepKeepsEnd ==
  ASSUME IInv, EInv, UNCHANGED <<starts_at, ends_at, extensions_used>>,
         status' = status \/ {status, status'} \subseteq {"ACTIVE", "FROZEN"},
         Range(audit) \subseteq Range(audit'), now' \in {now, now + 1}
  PROVE  EInv'
<1>1. Accounted' = Accounted /\ (EndedByModerator => EndedByModerator')
  BY DEF Accounted, EndedByModerator, ScheduledEnd, ceil_to_next_hour
<1>2. status \in Finished => ends_at' <= now'
  <2>1. now \in Nat /\ (status \in Finished => ends_at \in Nat /\ ends_at <= now)
    BY DEF IInv, TypeOK, Timed, EInv, Finished
  <2> QED
    BY <2>1
<1>3. (status' \in Finished <=> status \in Finished) /\ (status' = "DRAFT" <=> status = "DRAFT")
  BY DEF Finished
<1> QED
  BY <1>1, <1>2, <1>3 DEF EInv

\* finalize_auction_locked never moves the end out, nor leaves it in the future.
LEMMA FinalizeKeepsEnd ==
  ASSUME IInv, EInv, status = "ACTIVE", NEW f \in Finished, NEW w,
         finalize_auction_locked(f, w), audit' = audit, now' = now
  PROVE  EInv'
<1>1. /\ status' = f /\ starts_at' = starts_at /\ extensions_used' = extensions_used
      /\ ends_at' = IF ends_at > now THEN now ELSE ends_at
      /\ ends_at \in Nat /\ now \in Nat
  BY AuctionAssumption DEF finalize_auction_locked, IInv, TypeOK, Timed
<1>2. Accounted \in Nat /\ ends_at = Accounted /\ Accounted' = Accounted
  BY <1>1, AccountedIsATime DEF EInv, Accounted, Finished, ScheduledEnd, ceil_to_next_hour
<1>3. ends_at' <= Accounted' /\ ends_at' <= now'
  BY <1>1, <1>2
<1> QED
  BY <1>1, <1>3 DEF EInv, Finished

\* A bid that extends the lot charges it for the extension.
LEMMA ExtensionKeepsEnd ==
  ASSUME IInv, EInv, status = "ACTIVE", NEW at \in Nat, extend_end(at), audit' = audit, now' = now
  PROVE  EInv'
<1>1. CASE Extends(at)
  <2>1. /\ status' = "ACTIVE" /\ starts_at' = starts_at
        /\ ends_at' = ends_at + Extend /\ extensions_used' = extensions_used + 1
        /\ extensions_used \in Nat /\ ends_at \in Nat
    BY <1>1, AuctionAssumption DEF extend_end, IInv, TypeOK, Timed
  <2>2. ends_at = ScheduledEnd(starts_at) + extensions_used * Extend
    BY DEF EInv, Accounted, Finished
  <2>3. ScheduledEnd(starts_at) \in Nat /\ ScheduledEnd(starts_at)' = ScheduledEnd(starts_at)
    BY <2>1, RoundingIsATime DEF IInv, Timed, ScheduledEnd, ceil_to_next_hour
  <2>4. /\ extensions_used * Extend \in Nat
        /\ (extensions_used + 1) * Extend = extensions_used * Extend + Extend
    BY <2>1, OneMoreExtension
  <2>5. ends_at' = ScheduledEnd(starts_at)' + extensions_used' * Extend
    BY <2>1, <2>2, <2>3, <2>4, AuctionAssumption
  <2> QED
    BY <2>1, <2>5 DEF EInv, Accounted, Finished
<1>2. CASE ~Extends(at)
  BY <1>2, QuietStepKeepsEnd DEF extend_end
<1> QED
  BY <1>1, <1>2

\* An audit row is added at the end; none is lost.
LEMMA AuditGrows ==
  ASSUME IInv, NEW row \in Audit, _log_action(row)
  PROVE  Range(audit) \subseteq Range(audit') /\ row \in Range(audit')
<1>1. audit \in Seq(Audit) /\ audit' = Append(audit, row)
  BY DEF IInv, TypeOK, _log_action
<1>2. /\ Len(audit) \in Nat /\ DOMAIN audit = 1..Len(audit) /\ DOMAIN audit' = 1..(Len(audit) + 1)
      /\ \A k \in 1..Len(audit) : audit'[k] = audit[k]
      /\ audit'[Len(audit) + 1] = row
  BY <1>1
<1>3. ASSUME NEW k \in DOMAIN audit
      PROVE  audit[k] \in Range(audit')
  BY <1>2 DEF Range
<1> QED
  BY <1>2, <1>3 DEF Range

\* Every step of the lot keeps the account of its end.
LEMMA StepKeepsEnd == IInv /\ EInv /\ [Next]_vars => EInv'
<1> SUFFICES ASSUME IInv, EInv, [Next]_vars PROVE EInv'
  OBVIOUS
<1>1. CASE UNCHANGED vars \/ Tick \/ bot_restarts \/ watcher_scan
  BY <1>1, QuietStepKeepsEnd DEF vars, lot, Tick, bot_restarts, watcher_scan
<1>2. CASE watcher_finalize
  <2>1. TopUser(bids) = TopUser(bids) /\ "ENDED" \in Finished
    BY DEF Finished
  <2>2. CASE status = "ACTIVE"
    BY <1>2, <2>1, <2>2, FinalizeKeepsEnd DEF watcher_finalize
  <2>3. CASE status # "ACTIVE"
    BY <1>2, <2>3, QuietStepKeepsEnd DEF watcher_finalize, lot
  <2> QED
    BY <2>2, <2>3
<1>3. CASE Publication
  <2>1. CASE status = "DRAFT" /\ Activate
    <3>1. /\ status' = "ACTIVE" /\ extensions_used' = 0
          /\ ends_at' = ScheduledEnd(starts_at') /\ ScheduledEnd(starts_at') \in Nat
      BY <2>1, RoundingIsATime DEF Activate, EInv, IInv, TypeOK
    <3>2. 0 * Extend = 0
      BY AuctionAssumption
    <3>3. ends_at' = Accounted'
      BY <3>1, <3>2 DEF Accounted, ScheduledEnd, ceil_to_next_hour
    <3> QED
      BY <3>1, <3>3 DEF EInv, Finished
  <2>2. CASE UNCHANGED lot
    BY <1>3, <2>2, QuietStepKeepsEnd DEF Publication, activate_auction_chat_post,
       activate_auction_inline_post, lot
  <2> QED
    BY <1>3, <2>1, <2>2 DEF Publication, activate_auction_chat_post, activate_auction_inline_post
<1>4. CASE Bidding
  <2> SUFFICES ASSUME NEW h \in Handlers, receive_bid(h) \/ process_bid_action(h)
               PROVE  EInv'
    BY <1>4 DEF Bidding
  <2>1. CASE receive_bid(h)
    BY <2>1, QuietStepKeepsEnd DEF receive_bid, lot
  <2>2. CASE process_bid_action(h)
    <3>1. calls[h] \in Call /\ calls[h].at \in Nat /\ audit' = audit /\ now' = now
      BY <2>2 DEF process_bid_action, IInv, TypeOK, Call
    <3>2. CASE bid_is_turned_down(calls[h])
      BY <3>1, <3>2, QuietStepKeepsEnd DEF bid_is_turned_down, lot
    <3>3. CASE bid_finds_lot_expired(calls[h])
      <4>1. "ENDED" \in Finished
        BY DEF Finished
      <4> QED
        BY <3>1, <3>3, <4>1, FinalizeKeepsEnd DEF bid_finds_lot_expired
    <3>4. CASE bid_is_placed(calls[h])
      <4>1. "BOUGHT_OUT" \in Finished
        BY DEF Finished
      <4>2. CASE BuysOut(calls[h])
        BY <3>1, <3>4, <4>1, <4>2, FinalizeKeepsEnd DEF bid_is_placed
      <4>3. CASE ~BuysOut(calls[h])
        BY <3>1, <3>4, <4>3, ExtensionKeepsEnd DEF bid_is_placed
      <4> QED
        BY <4>2, <4>3
    <3> QED
      BY <2>2, <3>2, <3>3, <3>4 DEF process_bid_action
  <2> QED
    BY <2>1, <2>2
<1>5. CASE Moderation
  <2>1. CASE freeze_auction \/ unfreeze_auction
    <3>1. /\ [action |-> "FREEZE_AUCTION"] \in Audit /\ [action |-> "UNFREEZE_AUCTION"] \in Audit
      BY DEF Audit
    <3> QED
      BY <2>1, <3>1, AuditGrows, QuietStepKeepsEnd DEF freeze_auction, unfreeze_auction
  <2>2. CASE end_auction
    <3>1. [action |-> "END_AUCTION"] \in Audit
      BY DEF Audit
    <3>2. EndedByModerator' /\ status' = "ENDED"
      BY <2>2, <3>1, AuditGrows DEF end_auction, EndedByModerator
    <3>3. ends_at' = now /\ now' = now /\ now \in Nat
      BY <2>2 DEF end_auction, IInv, TypeOK
    <3>4. ends_at' <= now'
      BY <3>3
    <3> QED
      BY <3>2, <3>4 DEF EInv, Finished
  <2>3. ASSUME NEW i \in BidIds, remove_bid(i)
        PROVE  EInv'
    <3>1. [action |-> "REMOVE_BID", bid |-> i] \in Audit
      BY AuctionAssumption DEF Audit, BidIds
    <3> QED
      BY <2>3, <3>1, AuditGrows, QuietStepKeepsEnd DEF remove_bid
  <2>4. ASSUME NEW u \in Users, ban_user(u) \/ unban_user(u)
        PROVE  EInv'
    <3>1. /\ [action |-> "BAN_USER", user |-> u] \in Audit
          /\ [action |-> "UNBAN_USER", user |-> u] \in Audit
      BY DEF Audit
    <3> QED
      BY <2>4, <3>1, AuditGrows, QuietStepKeepsEnd DEF ban_user, unban_user, lot
  <2> QED
    BY <1>5, <2>1, <2>2, <2>3, <2>4 DEF Moderation
<1> QED
  BY <1>1, <1>2, <1>3, <1>4, <1>5 DEF Next, Watching

\* A running or frozen lot ends at the hour it was published for plus the
\* extensions it was charged, which are never more than it has; a closed lot does
\* not end in the future, and no close but a moderator's /end is dated later than
\* the end it had (process_bid_action, _finalize_auction_locked, end_auction).
THEOREM EndAddsUp == Spec => []EndIsAccountedFor
<1>1. Init => EInv
  BY DEF Init, EInv, Finished
<1>2. IInv /\ EInv => EndIsAccountedFor
  <2> SUFFICES ASSUME IInv, EInv, status # "DRAFT" PROVE EndIsAccountedFor
    BY DEF EndIsAccountedFor
  <2>1. extensions_used <= MaxExtensions
    BY AuctionAssumption DEF IInv, TypeOK
  <2> QED
    BY <2>1 DEF EInv, EndIsAccountedFor, Accounted, EndedByModerator
<1> QED
  BY <1>1, <1>2, StepKeepsEnd, InvariantHolds, PTL DEF Spec
-----------------------------------------------------------------------------
(* The lot implements the abstract auction.  A row stands for the offer it   *)
(* records; since standing bids climb, different standing rows are different *)
(* offers and the top row is the best offer.                                 *)

OfferOf(row) == [user |-> row.user, amount |-> row.amount]

\* No standing bid is below the asking price.
AboveStart == \A i \in Live(bids) : bids[i].amount >= StartPrice

\* Two standing bids differ in amount, so they are two offers.
LEMMA StandingRowsDiffer ==
  ASSUME NEW b \in Seq(Bid), Climbs(b), NEW i \in Live(b), NEW j \in Live(b), i # j
  PROVE  b[i].amount # b[j].amount /\ OfferOf(b[i]) # OfferOf(b[j])
<1>1. i \in Nat /\ j \in Nat /\ b[i] \in Bid /\ b[j] \in Bid
  BY DEF Live
<1>2. i < j \/ j < i
  BY <1>1
<1>3. b[i].amount # b[j].amount
  BY <1>1, <1>2 DEF Climbs, Bid
<1> QED
  BY <1>3 DEF OfferOf

Offers(b) == {OfferOf(b[i]) : i \in Live(b)}

\* The abstract leader of the standing offers is the user of the top bid.
LEMMA LeaderOfOffers ==
  ASSUME NEW b \in Seq(Bid), Climbs(b)
  PROVE  Abstract!Leader(Offers(b)) = TopUser(b)
<1>1. CASE Live(b) = {}
  BY <1>1 DEF Abstract!Leader, TopUser, Offers
<1>2. CASE Live(b) # {}
  <2> DEFINE t == Top(b)
             o == OfferOf(b[t])
  <2>1. t \in Live(b) /\ \A j \in Live(b) : b[j].amount <= b[t].amount
    BY <1>2, TopLeads
  <2>2. \A j \in Live(b) : b[j].amount \in Nat
    <3>1. \A j \in Live(b) : b[j] \in Bid
      BY DEF Live
    <3> QED
      BY <3>1 DEF Bid
  <2> HIDE DEF t
  <2>3. o \in Offers(b) /\ \A p \in Offers(b) : p.amount <= o.amount
    BY <2>1 DEF OfferOf, Offers
  <2>4. \A q \in Offers(b) : (\A p \in Offers(b) : p.amount <= q.amount) => q = o
    <3> SUFFICES ASSUME NEW j \in Live(b), j # t,
                        \A p \in Offers(b) : p.amount <= OfferOf(b[j]).amount
                 PROVE  FALSE
      BY DEF Offers
    <3>1. b[t].amount <= b[j].amount
      BY <2>3 DEF OfferOf
    <3>2. b[t].amount = b[j].amount
      BY <3>1, <2>1, <2>2
    <3> QED
      BY <3>2, <2>1, StandingRowsDiffer
  <2>5. Abstract!Best(Offers(b)) = o
    BY <2>3, <2>4 DEF Abstract!Best
  <2>6. Offers(b) # {}
    BY <2>3
  <2> QED
    BY <1>2, <2>5, <2>6 DEF Abstract!Leader, TopUser, t, OfferOf
<1> QED
  BY <1>1, <1>2

\* So the abstract leader of the book is whom the code takes for the leader.
LEMMA LeaderIsTopUser ==
  ASSUME IInv
  PROVE  Abstract!Leader(Book) = TopUser(bids)
<1>1. bids \in Seq(Bid) /\ Climbs(bids)
  BY DEF IInv, TypeOK, BidsClimbBelowBuyout
<1>2. Book = Offers(bids)
  BY DEF Book, Offers, OfferOf
<1> QED
  BY <1>1, <1>2, LeaderOfOffers

\* A placed bid is an offer above the asking price.
LEMMA PlacedAboveStart ==
  ASSUME IInv, AboveStart, status = "ACTIVE", NEW c \in Call, ~Refused(c)
  PROVE  Amount(c) >= StartPrice
<1>1. bids \in Seq(Bid) /\ Climbs(bids)
  BY DEF IInv, TypeOK, BidsClimbBelowBuyout
<1>2. CurrentPrice(bids) \in Nat /\ CurrentPrice(bids) >= StartPrice
  <2>1. CASE Live(bids) = {}
    BY <2>1, AuctionAssumption DEF CurrentPrice
  <2>2. CASE Live(bids) # {}
    BY <1>1, <2>2, TopLeads, PriceIsHighest DEF CurrentPrice, AboveStart
  <2> QED
    BY <2>1, <2>2
<1>3. MinStep * c.mult \in Nat
  <2>1. c.mult \in Nat
    BY AuctionAssumption DEF Call
  <2> QED
    BY <2>1, AuctionAssumption
<1>4. Raised(c) >= StartPrice
  <2> DEFINE d == MinStep * c.mult
  <2>1. d \in Nat
    BY <1>3
  <2> HIDE DEF d
  <2>2. CurrentPrice(bids) + d >= StartPrice
    BY <2>1, <1>2, AuctionAssumption
  <2> QED
    BY <2>2 DEF Raised, d
<1>5. BuysOut(c) => BuyoutPrice # NoPrice
  BY DEF BuysOut, Refused
<1> QED
  BY <1>4, <1>5, AuctionAssumption DEF Amount

\* Every step keeps all standing bids at or above the asking price.
LEMMA StepKeepsAboveStart == IInv /\ AboveStart /\ [Next]_vars => AboveStart'
<1> SUFFICES ASSUME IInv, AboveStart, [Next]_vars PROVE AboveStart'
  OBVIOUS
<1>1. bids \in Seq(Bid) /\ Climbs(bids)
  BY DEF IInv, TypeOK, BidsClimbBelowBuyout
<1>2. CASE bids' = bids
  BY <1>2 DEF AboveStart
<1>3. ASSUME NEW c \in Call, bid_is_placed(c)
      PROVE  AboveStart'
  <2>1. /\ RowOf(c) \in Bid /\ ~RowOf(c).removed
        /\ RowOf(c).amount = Amount(c)
        /\ \A i \in Live(bids) : bids[i].amount < Amount(c)
    BY <1>3, PlacedAmount DEF bid_is_placed
  <2>2. \A i \in Live(bids) : bids[i].amount < RowOf(c).amount
    BY <2>1
  <2>3. LET d == Append(bids, RowOf(c)) IN
        /\ Live(d) = Live(bids) \cup {Len(bids) + 1}
        /\ \A i \in Live(bids) : d[i] = bids[i]
        /\ d[Len(bids) + 1] = RowOf(c)
    BY <1>1, <2>1, <2>2, HigherBidLeads
  <2>4. bids' = Append(bids, RowOf(c)) /\ RowOf(c).amount >= StartPrice
    BY <1>3, <2>1, PlacedAboveStart DEF bid_is_placed
  <2> QED
    BY <2>3, <2>4 DEF AboveStart
<1>4. ASSUME NEW i \in BidIds, remove_bid(i)
      PROVE  AboveStart'
  <2>1. Live(bids') = Live(bids) \ {i} /\ \A j \in Live(bids') : bids'[j] = bids[j]
    BY <1>4, RemoveBidStrikes DEF IInv, BidsClimbBelowBuyout, Struck
  <2> QED
    BY <2>1 DEF AboveStart
<1>5. CASE Moderation
  BY <1>2, <1>4, <1>5 DEF Moderation, freeze_auction, unfreeze_auction, end_auction, ban_user, unban_user
<1>6. CASE Bidding
  <2> SUFFICES ASSUME NEW h \in Handlers, process_bid_action(h), bids' # bids
               PROVE  AboveStart'
    BY <1>2, <1>6 DEF Bidding, receive_bid
  <2>1. calls[h] \in Call
    BY DEF process_bid_action, IInv, TypeOK
  <2> QED
    BY <2>1, <1>3 DEF process_bid_action, bid_is_turned_down, bid_finds_lot_expired
<1> QED
  BY <1>2, <1>5, <1>6 DEF Next, vars, Tick, bot_restarts, Watching, watcher_scan, watcher_finalize,
     Publication, activate_auction_chat_post, activate_auction_inline_post

\* A step that touches neither status, bids nor winner is invisible.
LEMMA InvisibleStep ==
  ASSUME UNCHANGED <<status, bids, winner>>
  PROVE  UNCHANGED <<Phase, Book, winner>>
<1>1. Phase' = Phase
  BY DEF Phase
<1>2. Book' = Book
  BY DEF Book
<1> QED
  BY <1>1, <1>2

\* Any close by timer, late bid or moderator awards the best offer.
LEMMA CloseMaps ==
  ASSUME IInv, status \in {"ACTIVE", "FROZEN"}, status' = "ENDED",
         winner' = TopUser(bids), bids' = bids
  PROVE  Abstract!Close
<1>1. Book' = Book
  BY DEF Book
<1>2. Phase \in {"open", "held"} /\ Phase' = "closed"
  BY DEF Phase
<1> QED
  BY <1>1, <1>2, LeaderIsTopUser DEF Abstract!Close

\* A bid that is placed is an offer raised or a buyout.
LEMMA PlacedBidMaps ==
  ASSUME IInv, AboveStart, NEW c \in Call, bid_is_placed(c)
  PROVE  \E o \in Book' \cap Abstract!Offer : Abstract!Raise(o) \/ Abstract!Buyout(o)
<1> DEFINE o == OfferOf(RowOf(c))
<1>1. /\ status = "ACTIVE" /\ ~Refused(c) /\ bids' = Append(bids, RowOf(c))
      /\ bids \in Seq(Bid) /\ Climbs(bids)
  BY DEF bid_is_placed, IInv, TypeOK, BidsClimbBelowBuyout
<1>2. /\ RowOf(c) \in Bid /\ ~RowOf(c).removed
      /\ RowOf(c).user = c.user /\ RowOf(c).amount = Amount(c)
      /\ \A i \in Live(bids) : bids[i].amount < RowOf(c).amount
      /\ ~BuysOut(c) /\ BuyoutPrice # NoPrice => Amount(c) < BuyoutPrice
  BY <1>1, PlacedAmount
<1>3. LET d == Append(bids, RowOf(c)) IN
      /\ Live(d) = Live(bids) \cup {Len(bids) + 1}
      /\ \A i \in Live(bids) : d[i] = bids[i]
      /\ d[Len(bids) + 1] = RowOf(c)
  BY <1>1, <1>2, HigherBidLeads
<1>4. Book' = Book \cup {o}
  <2>1. Book = {OfferOf(bids[i]) : i \in Live(bids)} /\ Book' = {OfferOf(bids'[i]) : i \in Live(bids')}
    BY DEF Book, OfferOf
  <2>2. /\ Live(bids') = Live(bids) \cup {Len(bids) + 1}
        /\ \A i \in Live(bids) : bids'[i] = bids[i]
        /\ bids'[Len(bids) + 1] = RowOf(c)
    BY <1>1, <1>3
  <2> QED
    BY <2>1, <2>2
<1>5. o.user = c.user /\ o.amount = Amount(c) /\ o \in Abstract!Offer
  BY <1>2 DEF OfferOf, Abstract!Offer, Bid
<1>6. \A p \in Book : p.amount < o.amount
  BY <1>2, <1>5 DEF Book
<1>7. o.user \notin {Seller, Abstract!Leader(Book)}
  BY <1>1, <1>5, LeaderIsTopUser DEF Refused
<1>8. Phase = "open" /\ o.amount >= StartPrice
  BY <1>1, <1>5, PlacedAboveStart DEF Phase
<1> HIDE DEF o
<1>9. Abstract!Improves(o)
  BY <1>4, <1>6, <1>7, <1>8 DEF Abstract!Improves
<1>10. CASE BuysOut(c)
  <2>1. status' = "BOUGHT_OUT" /\ winner' = c.user /\ Amount(c) = BuyoutPrice
    BY <1>10 DEF bid_is_placed, finalize_auction_locked, Amount
  <2>2. Phase' = "closed"
    BY <2>1 DEF Phase
  <2>3. Abstract!Buyout(o)
    BY <1>5, <1>9, <2>1, <2>2 DEF Abstract!Buyout
  <2> QED
    BY <1>4, <1>5, <2>3
<1>11. CASE ~BuysOut(c)
  <2>1. UNCHANGED <<status, winner>>
    BY <1>11 DEF bid_is_placed, extend_end
  <2>2. Phase' = Phase
    BY <2>1 DEF Phase
  <2>3. Abstract!Raise(o)
    BY <1>2, <1>5, <1>9, <1>11, <2>1, <2>2 DEF Abstract!Raise
  <2> QED
    BY <1>4, <1>5, <2>3
<1> QED
  BY <1>10, <1>11

\* A removed bid is an offer withdrawn.
LEMMA RemovalMaps ==
  ASSUME IInv, IInv', NEW i \in BidIds, remove_bid(i)
  PROVE  \E o \in Book : Abstract!Withdraw(o)
<1> DEFINE o == OfferOf(bids[i])
<1>1. i \in Live(bids)
  BY DEF remove_bid
<1>2. bids \in Seq(Bid) /\ Climbs(bids)
  BY DEF IInv, TypeOK, BidsClimbBelowBuyout
<1>3. Live(bids') = Live(bids) \ {i} /\ \A j \in Live(bids') : bids'[j] = bids[j]
  BY RemoveBidStrikes DEF IInv, BidsClimbBelowBuyout, Struck
<1>4. \A j \in Live(bids) : j # i => OfferOf(bids[j]) # o
  BY <1>1, <1>2, StandingRowsDiffer
<1>5. o \in Book /\ Book' = Book \ {o}
  <2>1. Book = {OfferOf(bids[j]) : j \in Live(bids)} /\ Book' = {OfferOf(bids'[j]) : j \in Live(bids')}
    BY DEF Book, OfferOf
  <2> HIDE DEF o
  <2>2. \A j \in Live(bids') : OfferOf(bids'[j]) = OfferOf(bids[j])
    BY <1>3
  <2>3. o \in Book
    BY <2>1, <1>1 DEF o
  <2>4. ASSUME NEW p \in Book'
        PROVE  p \in Book \ {o}
    <3>1. PICK j \in Live(bids') : p = OfferOf(bids'[j])
      BY <2>1
    <3> QED
      BY <3>1, <2>1, <2>2, <1>3, <1>4
  <2>5. ASSUME NEW p \in Book \ {o}
        PROVE  p \in Book'
    <3>1. PICK j \in Live(bids) : p = OfferOf(bids[j])
      BY <2>1
    <3>2. j # i
      BY <3>1 DEF o
    <3> QED
      BY <3>1, <3>2, <2>1, <2>2, <1>3
  <2> QED
    BY <2>3, <2>4, <2>5
<1>6. Abstract!Leader(Book') = TopUser(bids')
  <2>1. bids' \in Seq(Bid) /\ Climbs(bids')
    BY DEF IInv, TypeOK, BidsClimbBelowBuyout
  <2>2. Book' = Offers(bids')
    BY DEF Book, Offers, OfferOf
  <2> QED
    BY <2>1, <2>2, LeaderOfOffers
<1>7. Phase' = Phase /\ (Phase = "closed" <=> status \in Finished)
  BY DEF remove_bid, Phase, IInv, TypeOK, Statuses, Finished
<1>8. Abstract!Withdraw(o)
  BY <1>5, <1>6, <1>7 DEF Abstract!Withdraw, remove_bid
<1> QED
  BY <1>5, <1>8

\* Every step of the lot is a step of the English auction or none.
LEMMA StepMaps ==
  IInv /\ IInv' /\ AboveStart /\ [Next]_vars => [Abstract!Next]_<<Phase, Book, winner>>
<1> SUFFICES ASSUME IInv, IInv', AboveStart, [Next]_vars
             PROVE  [Abstract!Next]_<<Phase, Book, winner>>
  OBVIOUS
<1>1. CASE UNCHANGED vars \/ Tick \/ bot_restarts \/ watcher_scan
  <2>1. UNCHANGED <<status, bids, winner>>
    BY <1>1 DEF vars, lot, Tick, bot_restarts, watcher_scan
  <2> QED
    BY <2>1, InvisibleStep
<1>2. CASE watcher_finalize
  <2>1. CASE status = "ACTIVE"
    <3>1. status' = "ENDED" /\ winner' = TopUser(bids) /\ bids' = bids
      BY <1>2, <2>1 DEF watcher_finalize, finalize_auction_locked
    <3> QED
      BY <2>1, <3>1, CloseMaps DEF Abstract!Next
  <2>2. CASE status # "ACTIVE"
    BY <1>2, <2>2, InvisibleStep DEF watcher_finalize, lot
  <2> QED
    BY <2>1, <2>2
<1>3. CASE Publication
  <2>1. CASE status = "DRAFT" /\ Activate /\ bids' = bids
    <3>1. Phase = "unlisted" /\ Phase' = "open" /\ Book' = Book /\ winner' = winner
      BY <2>1 DEF Activate, Phase, Book
    <3> QED
      BY <3>1 DEF Abstract!Next, Abstract!List
  <2>2. CASE UNCHANGED <<lot, bids>>
    BY <2>2, InvisibleStep DEF lot
  <2> QED
    BY <1>3, <2>1, <2>2 DEF Publication, activate_auction_chat_post, activate_auction_inline_post
<1>4. CASE Bidding
  <2> SUFFICES ASSUME NEW h \in Handlers, receive_bid(h) \/ process_bid_action(h)
               PROVE  [Abstract!Next]_<<Phase, Book, winner>>
    BY <1>4 DEF Bidding
  <2>1. CASE receive_bid(h)
    BY <2>1, InvisibleStep DEF receive_bid, lot
  <2>2. CASE process_bid_action(h)
    <3>1. calls[h] \in Call
      BY <2>2 DEF process_bid_action, IInv, TypeOK
    <3>2. CASE bid_is_turned_down(calls[h])
      BY <3>2, InvisibleStep DEF bid_is_turned_down, lot
    <3>3. CASE bid_finds_lot_expired(calls[h])
      <4>1. /\ status = "ACTIVE" /\ status' = "ENDED"
            /\ winner' = TopUser(bids) /\ bids' = bids
        BY <3>3 DEF bid_finds_lot_expired, finalize_auction_locked
      <4> QED
        BY <4>1, CloseMaps DEF Abstract!Next
    <3>4. CASE bid_is_placed(calls[h])
      BY <3>1, <3>4, PlacedBidMaps DEF Abstract!Next
    <3> QED
      BY <2>2, <3>2, <3>3, <3>4 DEF process_bid_action
  <2> QED
    BY <2>1, <2>2
<1>5. CASE Moderation
  <2>1. CASE freeze_auction
    <3>1. Phase = "open" /\ Phase' = "held" /\ Book' = Book /\ winner' = winner
      BY <2>1 DEF freeze_auction, Phase, Book
    <3> QED
      BY <3>1 DEF Abstract!Next, Abstract!Hold
  <2>2. CASE unfreeze_auction
    <3>1. Phase = "held" /\ Phase' = "open" /\ Book' = Book /\ winner' = winner
      BY <2>2 DEF unfreeze_auction, Phase, Book
    <3> QED
      BY <3>1 DEF Abstract!Next, Abstract!Release
  <2>3. CASE end_auction
    BY <2>3, CloseMaps DEF end_auction, Abstract!Next
  <2>4. ASSUME NEW i \in BidIds, remove_bid(i)
        PROVE  Abstract!Next
    BY <2>4, RemovalMaps DEF Abstract!Next
  <2>5. ASSUME NEW u \in Users, ban_user(u) \/ unban_user(u)
        PROVE  UNCHANGED <<Phase, Book, winner>>
    BY <2>5, InvisibleStep DEF ban_user, unban_user, lot
  <2> QED
    BY <1>5, <2>1, <2>2, <2>3, <2>4, <2>5 DEF Moderation
<1> QED
  BY <1>1, <1>2, <1>3, <1>4, <1>5 DEF Next, Watching

\* Every behaviour of the lot, with its row locks, late calls, expiry passes,
\* restarts and moderators, is a behaviour of the abstract English auction.
THEOREM LotImplementsAuction == Spec => ImplementsEnglishAuction
<1>1. Init => Abstract!Init /\ AboveStart
  <2>1. Init => Live(bids) = {}
    BY DEF Init, Live
  <2>2. Init => Phase = "unlisted" /\ Book = {} /\ winner = NoUser
    BY <2>1 DEF Init, Phase, Book
  <2> QED
    BY <2>1, <2>2 DEF Abstract!Init, AboveStart
<1>2. Spec => []AboveStart
  BY <1>1, InvariantHolds, StepKeepsAboveStart, PTL DEF Spec
<1> QED
  BY <1>1, <1>2, InvariantHolds, StepMaps, PTL DEF Spec, ImplementsEnglishAuction, Abstract!Spec
-----------------------------------------------------------------------------
(* The audit trail.  What Last and Rulings say of a trail is stated for a     *)
(* trail of any length, then followed through the one row each command adds.  *)

BanRulings == {"BAN_USER", "UNBAN_USER"}

\* The row is one that Last looks at.
Speaks(row, actions, about) == row.action \in actions /\ (actions = BanRulings => row.user = about)
Speaking(log, actions, about) == {k \in DOMAIN log : Speaks(log[k], actions, about)}
LastIn(log, actions, about) ==
  LET idx == Speaking(log, actions, about)
  IN IF idx = {} THEN "nothing" ELSE log[CHOOSE k \in idx : \A l \in idx : l <= k].action
RulingsIn(log, row) == Cardinality({k \in DOMAIN log : log[k] = row})

\* The last ruling is read off the log alone, before and after a step.
LEMMA LastReadsTrail ==
  ASSUME NEW actions, NEW about
  PROVE  /\ Last(actions, about) = LastIn(audit, actions, about)
         /\ Last(actions, about)' = LastIn(audit', actions, about)
BY DEF Last, LastIn, Speaking, Speaks, BanRulings

\* The number of rulings is read off the log alone too.
LEMMA RulingsReadTrail ==
  ASSUME NEW row
  PROVE  /\ Rulings(row) = RulingsIn(audit, row)
         /\ Rulings(row)' = RulingsIn(audit', row)
BY DEF Rulings, RulingsIn

\* A new row is the last word on what it speaks of, and changes nothing else.
LEMMA LastAfterRow ==
  ASSUME NEW log \in Seq(Audit), NEW row \in Audit, NEW actions, NEW about
  PROVE  LastIn(Append(log, row), actions, about) =
           IF Speaks(row, actions, about) THEN row.action ELSE LastIn(log, actions, about)
<1> DEFINE n == Len(log) + 1
           longer == Append(log, row)
           idx == Speaking(log, actions, about)
           more == Speaking(longer, actions, about)
<1>1. /\ Len(log) \in Nat /\ DOMAIN log = 1..Len(log) /\ DOMAIN longer = 1..n
      /\ longer[n] = row /\ \A k \in 1..Len(log) : longer[k] = log[k]
  OBVIOUS
<1> HIDE DEF longer
<1>2. idx \subseteq 1..Len(log) /\ n \notin idx /\ \A k \in idx : k \in Nat /\ k <= n
  BY <1>1 DEF Speaking
<1>3. CASE Speaks(row, actions, about)
  <2>1. more = idx \cup {n}
    BY <1>1, <1>3 DEF Speaking
  <2>2. \A k \in more : (\A l \in more : l <= k) => k = n
    BY <2>1, <1>1, <1>2
  <2>3. \A l \in more : l <= n
    BY <2>1, <1>1, <1>2
  <2>4. (CHOOSE k \in more : \A l \in more : l <= k) = n
    BY <2>1, <2>2, <2>3
  <2>5. LastIn(longer, actions, about) = longer[n].action
    BY <2>1, <2>4 DEF LastIn
  <2> QED
    BY <2>5, <1>1, <1>3 DEF longer
<1>4. CASE ~Speaks(row, actions, about)
  <2>1. more = idx
    BY <1>1, <1>4 DEF Speaking
  <2>2. CASE idx = {}
    BY <2>1, <2>2, <1>4 DEF LastIn, longer
  <2>3. CASE idx # {}
    <3> DEFINE m == CHOOSE k \in idx : \A l \in idx : l <= k
    <3>1. m \in idx
      <4>1. \E k \in idx : \A l \in idx : l <= k
        BY <1>1, <1>2, <2>3, GreatestPosition
      <4> QED
        BY <4>1
    <3>2. longer[m].action = log[m].action
      BY <3>1, <1>1, <1>2
    <3> QED
      BY <2>1, <2>3, <3>2, <1>4 DEF LastIn, longer
  <2> QED
    BY <2>2, <2>3
<1> QED
  BY <1>3, <1>4

\* A new row counts once, as itself.
LEMMA RulingsAfterRow ==
  ASSUME NEW log \in Seq(Audit), NEW row \in Audit, NEW other
  PROVE  /\ RulingsIn(log, other) \in Nat
         /\ RulingsIn(Append(log, row), other) = RulingsIn(log, other) + (IF other = row THEN 1 ELSE 0)
<1> DEFINE n == Len(log) + 1
           longer == Append(log, row)
           idx == {k \in DOMAIN log : log[k] = other}
           more == {k \in DOMAIN longer : longer[k] = other}
<1>1. /\ Len(log) \in Nat /\ DOMAIN log = 1..Len(log) /\ DOMAIN longer = 1..n
      /\ longer[n] = row /\ \A k \in 1..Len(log) : longer[k] = log[k]
  OBVIOUS
<1> HIDE DEF longer
<1>2. IsFiniteSet(idx) /\ Cardinality(idx) \in Nat
  <2>1. IsFiniteSet(1..Len(log))
    BY <1>1, FS_Interval
  <2>2. idx \in SUBSET (1..Len(log))
    BY <1>1
  <2> QED
    BY <2>1, <2>2, FS_Subset, FS_CardinalityType
<1>3. n \notin idx
  BY <1>1
<1>4. more = IF other = row THEN idx \cup {n} ELSE idx
  BY <1>1
<1>5. RulingsIn(log, other) = Cardinality(idx) /\ RulingsIn(longer, other) = Cardinality(more)
  BY DEF RulingsIn
<1> HIDE DEF idx, more
<1>6. Cardinality(idx \cup {n}) = Cardinality(idx) + 1
  BY <1>2, <1>3, FS_AddElement
<1> QED
  BY <1>2, <1>4, <1>5, <1>6 DEF longer
-----------------------------------------------------------------------------
(* The three parts of AuditExplainsState for any trail, lot, blacklist and    *)
(* bids, so that a step that adds two rows is two uses of the same lemma.     *)

FrozenOn(log, s) == s = "FROZEN" <=> LastIn(log, LotRulings, NoUser) = "FREEZE_AUCTION"
BannedOn(log, b) == \A u \in Users : u \in b <=> LastIn(log, BanRulings, u) = "BAN_USER"
RemovedOn(log, b) ==
  \A i \in DOMAIN b :
    RulingsIn(log, [action |-> "REMOVE_BID", bid |-> i]) = IF b[i].removed THEN 1 ELSE 0

\* The three parts of AuditExplainsState as relations of log and lot.
LEMMA OnFileReads ==
  /\ FreezeIsOnFile <=> FrozenOn(audit, status)
  /\ FreezeIsOnFile' <=> FrozenOn(audit', status')
  /\ BansAreOnFile <=> BannedOn(audit, banned)
  /\ BansAreOnFile' <=> BannedOn(audit', banned')
  /\ RemovalsAreOnFile <=> RemovedOn(audit, bids)
  /\ RemovalsAreOnFile' <=> RemovedOn(audit', bids')
<1>1. FreezeIsOnFile <=> FrozenOn(audit, status)
  BY LastReadsTrail DEF FreezeIsOnFile, FrozenOn
<1>2. FreezeIsOnFile' <=> FrozenOn(audit', status')
  BY LastReadsTrail DEF FreezeIsOnFile, FrozenOn
<1>3. BansAreOnFile <=> BannedOn(audit, banned)
  BY LastReadsTrail DEF BansAreOnFile, BannedOn, BanRulings
<1>4. BansAreOnFile' <=> BannedOn(audit', banned')
  BY LastReadsTrail DEF BansAreOnFile, BannedOn, BanRulings
<1>5. RemovalsAreOnFile <=> RemovedOn(audit, bids)
  BY DEF RemovalsAreOnFile, RemovedOn, Rulings, RulingsIn
<1>6. RemovalsAreOnFile' <=> RemovedOn(audit', bids')
  BY DEF RemovalsAreOnFile, RemovedOn, Rulings, RulingsIn
<1> QED
  BY <1>1, <1>2, <1>3, <1>4, <1>5, <1>6

\* What a row says of the lot's status, of the blacklist and of the bids before
\* and after the step that wrote it.
Freezes(row, s, t) ==
  t = "FROZEN" <=> IF row.action \in LotRulings THEN row.action = "FREEZE_AUCTION" ELSE s = "FROZEN"
Sentences(row, b, c) ==
  \A u \in Users :
    u \in c <=> IF row.action \in BanRulings /\ row.user = u THEN row.action = "BAN_USER" ELSE u \in b
Removal(i) == [action |-> "REMOVE_BID", bid |-> i]
Removes(row, b, c) ==
  /\ DOMAIN c = DOMAIN b
  /\ \A i \in DOMAIN b :
       /\ row = Removal(i) => b[i].removed = FALSE /\ c[i].removed = TRUE
       /\ row # Removal(i) => c[i].removed = b[i].removed

\* A ruling about the lot decides whether it is frozen; any other row leaves it.
LEMMA FreezeAfterRow ==
  ASSUME NEW log \in Seq(Audit), NEW row \in Audit, NEW s, NEW t,
         FrozenOn(log, s), Freezes(row, s, t)
  PROVE  FrozenOn(Append(log, row), t)
<1>1. Speaks(row, LotRulings, NoUser) <=> row.action \in LotRulings
  <2>1. LotRulings # BanRulings
    BY DEF LotRulings, BanRulings
  <2> QED
    BY <2>1 DEF Speaks
<1>2. LastIn(Append(log, row), LotRulings, NoUser) =
        IF Speaks(row, LotRulings, NoUser) THEN row.action ELSE LastIn(log, LotRulings, NoUser)
  BY LastAfterRow
<1> QED
  BY <1>1, <1>2 DEF FrozenOn, Freezes

\* A ruling about a user decides whether that user is banned.
LEMMA BansAfterRow ==
  ASSUME NEW log \in Seq(Audit), NEW row \in Audit, NEW b, NEW c,
         BannedOn(log, b), Sentences(row, b, c)
  PROVE  BannedOn(Append(log, row), c)
<1> SUFFICES ASSUME NEW u \in Users
             PROVE  u \in c <=> LastIn(Append(log, row), BanRulings, u) = "BAN_USER"
  BY DEF BannedOn
<1>1. LastIn(Append(log, row), BanRulings, u) =
        IF Speaks(row, BanRulings, u) THEN row.action ELSE LastIn(log, BanRulings, u)
  BY LastAfterRow
<1> QED
  BY <1>1 DEF BannedOn, Speaks, Sentences

\* A removal on record is counted for its bid.
LEMMA RemovalsAfterRow ==
  ASSUME NEW log \in Seq(Audit), NEW row \in Audit, NEW b, NEW c,
         RemovedOn(log, b), Removes(row, b, c)
  PROVE  RemovedOn(Append(log, row), c)
<1> SUFFICES ASSUME NEW i \in DOMAIN b
             PROVE  RulingsIn(Append(log, row), Removal(i)) = IF c[i].removed THEN 1 ELSE 0
  BY DEF RemovedOn, Removes, Removal
<1>1. RulingsIn(Append(log, row), Removal(i)) =
        RulingsIn(log, Removal(i)) + (IF Removal(i) = row THEN 1 ELSE 0)
  BY RulingsAfterRow
<1>2. RulingsIn(log, Removal(i)) = IF b[i].removed THEN 1 ELSE 0
  BY DEF RemovedOn, Removal
<1> QED
  BY <1>1, <1>2 DEF Removes

\* A trail without a row has no ruling in its words.
LEMMA NoRulings ==
  ASSUME NEW log, NEW row, \A k \in DOMAIN log : log[k] # row
  PROVE  RulingsIn(log, row) = 0
<1>1. {k \in DOMAIN log : log[k] = row} = {}
  OBVIOUS
<1> QED
  BY <1>1, FS_EmptySet DEF RulingsIn
-----------------------------------------------------------------------------
(* What the steps of the lot put on record: each command one row that says    *)
(* what it does, all other steps nothing, and then they do nothing of the kind. *)

\* The row of a placed bid, if only the types are known.
LEMMA RowIsABid ==
  ASSUME TypeOK, NEW c \in Call, ~Refused(c)
  PROVE  RowOf(c) \in Bid /\ ~RowOf(c).removed
<1>1. CurrentPrice(bids) \in Nat
  BY PriceIsHighest DEF TypeOK
<1>2. c.user \in Users /\ c.mult \in Nat \ {0} /\ c.buyout \in BOOLEAN
  BY AuctionAssumption DEF Call
<1>3. MinStep * c.mult \in Nat
  BY <1>2, AuctionAssumption
<1>4. Raised(c) \in Nat
  <2> DEFINE d == MinStep * c.mult
  <2>1. d \in Nat
    BY <1>3
  <2> HIDE DEF d
  <2>2. CurrentPrice(bids) + d \in Nat
    BY <2>1, <1>1
  <2> QED
    BY <2>2 DEF Raised, d
<1>5. BuysOut(c) => BuyoutPrice \in Nat
  BY <1>2, AuctionAssumption DEF BuysOut, Refused
<1>6. Amount(c) \in Nat
  BY <1>4, <1>5 DEF Amount
<1> QED
  BY <1>2, <1>6 DEF RowOf, Bid

\* A command adds one row, and the row says what the command did.
OnRecord(row) ==
  /\ audit' = Append(audit, row)
  /\ Freezes(row, status, status')
  /\ Sentences(row, banned, banned')
  /\ Removes(row, bids, bids')
  /\ row.action = "REMOVE_BID" => row.bid \in DOMAIN bids

\* A command that logs its ruling on the lot, and does no more, is on record.
LEMMA RulingOnLotIsOnRecord ==
  ASSUME NEW row \in Audit, row.action \in LotRulings, _log_action(row),
         status' = "FROZEN" <=> row.action = "FREEZE_AUCTION",
         UNCHANGED <<bids, banned>>
  PROVE  OnRecord(row)
<1>1. row.action \notin BanRulings /\ row.action # "REMOVE_BID"
  BY DEF LotRulings, BanRulings
<1>2. Removes(row, bids, bids')
  BY <1>1 DEF Removes, Removal
<1> QED
  BY <1>1, <1>2 DEF OnRecord, Freezes, Sentences, _log_action

\* The removal of a bid is on record.
LEMMA RemovalIsOnRecord ==
  ASSUME TypeOK, NEW i \in BidIds, remove_bid(i)
  PROVE  Removal(i) \in Audit /\ OnRecord(Removal(i))
<1> DEFINE row == Removal(i)
<1>1. /\ audit' = Append(audit, row) /\ bids' = [bids EXCEPT ![i].removed = TRUE]
      /\ UNCHANGED <<status, banned>>
  BY DEF remove_bid, _log_action, Removal
<1>2. /\ i \in Nat /\ bids \in Seq(Bid) /\ DOMAIN bids = 1..Len(bids)
      /\ i \in DOMAIN bids /\ ~bids[i].removed /\ bids[i] \in Bid
  <2>1. i \in Nat /\ i \in DOMAIN bids /\ ~bids[i].removed
    BY AuctionAssumption DEF remove_bid, Live, BidIds
  <2>2. bids \in Seq(Bid)
    BY DEF TypeOK
  <2>3. DOMAIN bids = 1..Len(bids)
    BY <2>2
  <2>4. bids[i] \in Bid
    BY <2>1, <2>2
  <2> QED
    BY <2>1, <2>2, <2>3, <2>4
<1>3. /\ row \in Audit /\ row.action = "REMOVE_BID" /\ row.bid = i
      /\ row.action \notin LotRulings /\ row.action \notin BanRulings
  BY <1>2 DEF Removal, Audit, LotRulings, BanRulings
<1>4. /\ DOMAIN bids' = DOMAIN bids /\ bids'[i].removed = TRUE
      /\ \A j \in DOMAIN bids : j # i => bids'[j] = bids[j]
  BY <1>1, <1>2 DEF Bid
<1>5. \A j \in DOMAIN bids : row = Removal(j) <=> j = i
  <2> TAKE j \in DOMAIN bids
  <2>1. Removal(j).bid = j
    BY DEF Removal
  <2> QED
    BY <2>1, <1>3
<1> HIDE DEF row
<1>6. Removes(row, bids, bids')
  BY <1>2, <1>4, <1>5 DEF Bid, Removes
<1>7. Freezes(row, status, status') /\ Sentences(row, banned, banned')
  BY <1>1, <1>3 DEF Freezes, Sentences
<1> QED
  BY <1>1, <1>2, <1>3, <1>6, <1>7 DEF OnRecord, row

\* A ban or pardon is on record.
LEMMA BanIsOnRecord ==
  ASSUME NEW u \in Users, ban_user(u) \/ unban_user(u)
  PROVE  \E row \in Audit : OnRecord(row)
<1> DEFINE ban == [action |-> "BAN_USER", user |-> u]
           pardon == [action |-> "UNBAN_USER", user |-> u]
<1>1. /\ ban \in Audit /\ ban.action = "BAN_USER" /\ ban.user = u
      /\ pardon \in Audit /\ pardon.action = "UNBAN_USER" /\ pardon.user = u
  BY DEF Audit
<1> HIDE DEF ban, pardon
<1>2. ASSUME NEW row \in {ban, pardon}, audit' = Append(audit, row),
             banned' = IF row.action = "BAN_USER" THEN banned \cup {u} ELSE banned \ {u},
             UNCHANGED <<status, bids>>
      PROVE  OnRecord(row)
  <2>1. /\ row.action \in BanRulings /\ row.user = u
        /\ row.action \notin LotRulings /\ row.action # "REMOVE_BID"
    BY <1>1 DEF LotRulings, BanRulings
  <2>2. Freezes(row, status, status')
    BY <1>2, <2>1 DEF Freezes
  <2>3. Sentences(row, banned, banned')
    BY <1>1, <1>2, <2>1 DEF Sentences
  <2>4. Removes(row, bids, bids')
    BY <1>2, <2>1 DEF Removes, Removal
  <2> QED
    BY <1>2, <2>1, <2>2, <2>3, <2>4 DEF OnRecord
<1>3. CASE ban_user(u)
  <2>1. audit' = Append(audit, ban) /\ banned' = banned \cup {u} /\ UNCHANGED <<status, bids>>
    BY <1>3 DEF ban_user, _log_action, ban, lot
  <2> QED
    BY <1>1, <1>2, <2>1
<1>4. CASE unban_user(u)
  <2>1. audit' = Append(audit, pardon) /\ banned' = banned \ {u} /\ UNCHANGED <<status, bids>>
    BY <1>4 DEF unban_user, _log_action, pardon, lot
  <2> QED
    BY <1>1, <1>2, <2>1
<1> QED
  BY <1>3, <1>4

\* Every command of a moderator is on record.
LEMMA CommandsAreOnRecord ==
  ASSUME TypeOK, Moderation
  PROVE  \E row \in Audit : OnRecord(row)
<1>1. /\ [action |-> "FREEZE_AUCTION"] \in Audit /\ [action |-> "UNFREEZE_AUCTION"] \in Audit
      /\ [action |-> "END_AUCTION"] \in Audit
      /\ {"FREEZE_AUCTION", "UNFREEZE_AUCTION", "END_AUCTION"} \subseteq LotRulings
  BY DEF Audit, LotRulings
<1>2. CASE freeze_auction
  BY <1>1, <1>2, RulingOnLotIsOnRecord DEF freeze_auction
<1>3. CASE unfreeze_auction
  BY <1>1, <1>3, RulingOnLotIsOnRecord DEF unfreeze_auction
<1>4. CASE end_auction
  BY <1>1, <1>4, RulingOnLotIsOnRecord DEF end_auction
<1> QED
  BY <1>2, <1>3, <1>4, RemovalIsOnRecord, BanIsOnRecord DEF Moderation

OffRecord ==
  /\ UNCHANGED <<audit, banned>>
  /\ status = "FROZEN" <=> status' = "FROZEN"
  /\ bids' = bids \/ \E r \in Bid : ~r.removed /\ bids' = Append(bids, r)

\* Nobody else touches the log, a ban, a freeze or a removal.
LEMMA OthersAreOffRecord ==
  ASSUME TypeOK, [Next]_vars, ~Moderation
  PROVE  OffRecord
<1>1. CASE UNCHANGED vars \/ Tick \/ bot_restarts \/ watcher_scan
  BY <1>1 DEF OffRecord, vars, lot, Tick, bot_restarts, watcher_scan
<1>2. CASE watcher_finalize
  BY <1>2 DEF OffRecord, watcher_finalize, finalize_auction_locked, lot
<1>3. CASE Publication
  BY <1>3 DEF OffRecord, Publication, Activate, activate_auction_chat_post,
     activate_auction_inline_post, lot
<1>4. CASE Bidding
  <2> SUFFICES ASSUME NEW h \in Handlers, receive_bid(h) \/ process_bid_action(h)
               PROVE  OffRecord
    BY <1>4 DEF Bidding
  <2>1. CASE receive_bid(h)
    BY <2>1 DEF OffRecord, receive_bid, lot
  <2>2. CASE process_bid_action(h)
    <3>1. calls[h] \in Call /\ UNCHANGED <<audit, banned>>
      BY <2>2 DEF process_bid_action, TypeOK
    <3>2. CASE bid_is_turned_down(calls[h])
      BY <3>1, <3>2 DEF OffRecord, bid_is_turned_down, lot
    <3>3. CASE bid_finds_lot_expired(calls[h])
      BY <3>1, <3>3 DEF OffRecord, bid_finds_lot_expired, finalize_auction_locked
    <3>4. CASE bid_is_placed(calls[h])
      <4>1. RowOf(calls[h]) \in Bid /\ ~RowOf(calls[h]).removed
        BY <3>1, <3>4, RowIsABid DEF bid_is_placed
      <4>2. status = "ACTIVE" /\ status' # "FROZEN" /\ bids' = Append(bids, RowOf(calls[h]))
        BY <3>4 DEF bid_is_placed, finalize_auction_locked, extend_end
      <4> QED
        BY <3>1, <4>1, <4>2 DEF OffRecord
    <3> QED
      BY <2>2, <3>2, <3>3, <3>4 DEF process_bid_action
  <2> QED
    BY <2>1, <2>2
<1> QED
  BY <1>1, <1>2, <1>3, <1>4 DEF Next, Watching

\* The freezes and the bans stay explained, whatever becomes of the bids.
LEMMA StepKeepsSanctions ==
  TypeOK /\ FreezeIsOnFile /\ BansAreOnFile /\ [Next]_vars => FreezeIsOnFile' /\ BansAreOnFile'
<1> SUFFICES ASSUME TypeOK, FreezeIsOnFile, BansAreOnFile, [Next]_vars
             PROVE  FrozenOn(audit', status') /\ BannedOn(audit', banned')
  BY OnFileReads
<1>1. audit \in Seq(Audit) /\ FrozenOn(audit, status) /\ BannedOn(audit, banned)
  BY OnFileReads DEF TypeOK
<1>2. ASSUME NEW row \in Audit, OnRecord(row)
      PROVE  FrozenOn(audit', status') /\ BannedOn(audit', banned')
  BY <1>1, <1>2, FreezeAfterRow, BansAfterRow DEF OnRecord
<1>3. CASE OffRecord
  BY <1>1, <1>3 DEF OffRecord, FrozenOn
<1> QED
  BY <1>2, <1>3, CommandsAreOnRecord, OthersAreOffRecord
-----------------------------------------------------------------------------
(* The inductive invariant of the audit trail: no removal is on record of a   *)
(* bid that has yet to be placed, or the count of a new bid would not be zero. *)

RemovalsNameBids ==
  \A k \in DOMAIN audit : audit[k].action = "REMOVE_BID" => audit[k].bid \in DOMAIN bids

AInv == AuditExplainsState /\ RemovalsNameBids

\* A command keeps the count of the removals.
LEMMA RecordedStepKeepsRemovals ==
  ASSUME TypeOK, RemovalsAreOnFile, RemovalsNameBids, NEW row \in Audit, OnRecord(row)
  PROVE  RemovalsAreOnFile' /\ RemovalsNameBids'
<1>1. audit \in Seq(Audit) /\ RemovedOn(audit, bids)
  BY OnFileReads DEF TypeOK
<1>2. /\ audit' = Append(audit, row) /\ Removes(row, bids, bids')
      /\ row.action = "REMOVE_BID" => row.bid \in DOMAIN bids
  BY DEF OnRecord
<1>3. RemovedOn(audit', bids')
  BY <1>1, <1>2, RemovalsAfterRow
<1>4. /\ Len(audit) \in Nat /\ DOMAIN audit = 1..Len(audit)
      /\ DOMAIN audit' = 1..(Len(audit) + 1)
      /\ audit'[Len(audit) + 1] = row /\ \A k \in 1..Len(audit) : audit'[k] = audit[k]
  BY <1>1, <1>2
<1>5. DOMAIN bids' = DOMAIN bids
  BY <1>2 DEF Removes
<1>6. RemovalsNameBids'
  BY <1>2, <1>4, <1>5 DEF RemovalsNameBids
<1> QED
  BY <1>3, <1>6, OnFileReads

\* So does a step that at most adds a standing bid.
LEMMA UnrecordedStepKeepsRemovals ==
  ASSUME TypeOK, RemovalsAreOnFile, RemovalsNameBids, OffRecord
  PROVE  RemovalsAreOnFile' /\ RemovalsNameBids'
<1>1. RemovedOn(audit, bids) /\ audit' = audit
  BY OnFileReads DEF OffRecord
<1>2. CASE bids' = bids
  BY <1>1, <1>2, OnFileReads DEF RemovalsNameBids
<1>3. ASSUME NEW r \in Bid, ~r.removed, bids' = Append(bids, r)
      PROVE  RemovalsAreOnFile' /\ RemovalsNameBids'
  <2> DEFINE n == Len(bids) + 1
  <2>1. bids \in Seq(Bid)
    BY DEF TypeOK
  <2>2. /\ Len(bids) \in Nat /\ DOMAIN bids = 1..Len(bids) /\ DOMAIN bids' = 1..n
        /\ bids'[n] = r /\ \A i \in DOMAIN bids : bids'[i] = bids[i]
    BY <1>3, <2>1
  <2>3. RemovalsNameBids'
    BY <1>1, <2>2 DEF RemovalsNameBids
  <2>4. RulingsIn(audit, [action |-> "REMOVE_BID", bid |-> n]) = 0
    <3>1. \A k \in DOMAIN audit : audit[k] # [action |-> "REMOVE_BID", bid |-> n]
      BY <2>2 DEF RemovalsNameBids
    <3> QED
      BY <3>1, NoRulings
  <2>5. RemovedOn(audit, bids')
    <3> SUFFICES ASSUME NEW i \in 1..n
                 PROVE  RulingsIn(audit, [action |-> "REMOVE_BID", bid |-> i]) =
                          IF bids'[i].removed THEN 1 ELSE 0
      BY <2>2 DEF RemovedOn
    <3>1. CASE i = n
      BY <3>1, <2>2, <2>4, <1>3
    <3>2. CASE i # n
      <4>1. i \in DOMAIN bids
        BY <3>2, <2>2
      <4> QED
        BY <4>1, <2>2, <1>1 DEF RemovedOn
    <3> QED
      BY <3>1, <3>2
  <2> QED
    BY <1>1, <2>3, <2>5, OnFileReads
<1> QED
  BY <1>2, <1>3 DEF OffRecord

\* Every step keeps the log an explanation of the lot.
LEMMA StepKeepsFile == TypeOK /\ AInv /\ [Next]_vars => AInv'
<1> SUFFICES ASSUME TypeOK, AInv, [Next]_vars PROVE AInv'
  OBVIOUS
<1>1. FreezeIsOnFile' /\ BansAreOnFile'
  BY StepKeepsSanctions DEF AInv, AuditExplainsState
<1>2. RemovalsAreOnFile' /\ RemovalsNameBids'
  BY CommandsAreOnRecord, OthersAreOffRecord, RecordedStepKeepsRemovals,
     UnrecordedStepKeepsRemovals DEF AInv, AuditExplainsState
<1> QED
  BY <1>1, <1>2 DEF AInv, AuditExplainsState

\* The empty log explains a draft.
LEMMA InitialFile == Init => AInv
<1> SUFFICES ASSUME Init PROVE AInv
  OBVIOUS
<1>1. audit = <<>> /\ DOMAIN audit = {} /\ bids = <<>> /\ DOMAIN bids = {}
  BY DEF Init
<1>2. \A actions, about : LastIn(audit, actions, about) = "nothing"
  <2>1. \A actions, about : Speaking(audit, actions, about) = {}
    BY <1>1 DEF Speaking
  <2> QED
    BY <2>1 DEF LastIn
<1>3. FrozenOn(audit, status) /\ BannedOn(audit, banned) /\ RemovedOn(audit, bids)
  BY <1>1, <1>2 DEF Init, FrozenOn, BannedOn, RemovedOn
<1> QED
  BY <1>1, <1>3, OnFileReads DEF AInv, AuditExplainsState, RemovalsNameBids

\* The audit trail can be relied on: it explains the lot's freeze, every ban
\* and every removal, whatever the order of the commands.
THEOREM TrailExplainsLot == Spec => []AuditExplainsState
<1>1. AInv => AuditExplainsState
  BY DEF AInv
<1> QED
  BY <1>1, InitialFile, StepKeepsFile, TypeCorrect, PTL DEF Spec
=============================================================================
