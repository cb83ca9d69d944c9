--------------------------- MODULE EnglishAuction ---------------------------
(***************************************************************************)
(* What LiteAuction promises about one lot, with no database, clock or      *)
(* process in sight: an ascending auction that a moderator may hold and     *)
(* release, whose offers may be withdrawn by a moderator, and that is       *)
(* closed once and for all, the award always going to the best offer that   *)
(* still stands.  Module Auction is shown to implement it.                  *)
(***************************************************************************)
EXTENDS Naturals

CONSTANTS
  Users,        \* everybody who may own or bid
  Seller,       \* the owner of the lot
  StartPrice,   \* the asking price
  BuyoutPrice,  \* the price that closes the lot at once, or NoPrice
  NoUser,       \* "nobody"
  NoPrice       \* "no buyout"

VARIABLES
  phase,  \* "unlisted", "open", "held" or "closed"
  book,   \* the offers that stand
  award   \* who won, NoUser before the close

Offer == [user : Users, amount : Nat]

\* The best offer of a book, and the user who made it.
Best(b) == CHOOSE o \in b : \A p \in b : p.amount <= o.amount
Leader(b) == IF b = {} THEN NoUser ELSE Best(b).user

Init ==
  /\ phase = "unlisted"
  /\ book = {}
  /\ award = NoUser

List ==
  /\ phase = "unlisted"
  /\ phase' = "open"
  /\ UNCHANGED <<book, award>>

Hold ==
  /\ phase = "open"
  /\ phase' = "held"
  /\ UNCHANGED <<book, award>>

Release ==
  /\ phase = "held"
  /\ phase' = "open"
  /\ UNCHANGED <<book, award>>

\* A new offer beats every standing one, and is nobody's own lot or lead.
Improves(o) ==
  /\ phase = "open"
  /\ o.user \notin {Seller, Leader(book)}
  /\ o.amount >= StartPrice
  /\ \A p \in book : p.amount < o.amount
  /\ book' = book \cup {o}

Raise(o) ==
  /\ Improves(o)
  /\ o.amount < BuyoutPrice \/ BuyoutPrice = NoPrice
  /\ UNCHANGED <<phase, award>>

Buyout(o) ==
  /\ Improves(o)
  /\ o.amount = BuyoutPrice
  /\ phase' = "closed"
  /\ award' = o.user

Close ==
  /\ phase \in {"open", "held"}
  /\ phase' = "closed"
  /\ award' = Leader(book)
  /\ UNCHANGED book

\* Withdrawing an offer after the close passes the award on.
Withdraw(o) ==
  /\ book' = book \ {o}
  /\ award' = IF phase = "closed" THEN Leader(book') ELSE award
  /\ UNCHANGED phase

Next ==
  \/ List \/ Hold \/ Release \/ Close
  \/ \E o \in book' \cap Offer : Raise(o) \/ Buyout(o)
  \/ \E o \in book : Withdraw(o)

Spec == Init /\ [][Next]_<<phase, book, award>>
=============================================================================
