--------------------------- MODULE OwnShareProofs ---------------------------
(* Why the book is the bot's share and the bot touches nothing else, for every  *)
(* size of position, every number of moves and of close-all processes.  The      *)
(* argument is about the book as it will be once the fill in flight is logged:    *)
(* it equals the bot's share, with the whole share recorded as netted while the    *)
(* user is on the other side, or the user closed some of the lots by hand and the   *)
(* book is ahead on a side the user has left.                                        *)
EXTENDS OwnShare, TLAPS

Opposite(x, y) == (x < 0 /\ y > 0) \/ (x > 0 /\ y < 0)
Between(x, y)  == IF y < 0 THEN y <= x /\ x <= 0 ELSE 0 <= x /\ x <= y

Books   == [qty : Int, netted : Nat]
FillSet == [qty : Int, room : Nat, back : BOOLEAN, writeoff : BOOLEAN]
Rounds  == [pc : {"idle", "close", "closed", "entry", "entered", "end"}, had : Int,
            want : Int, halted : BOOLEAN, fill : FillSet]
Closes  == [pc : {"off", "start", "wait", "book", "positions", "restore", "log", "zero"},
            book : Books, shows : Int, fill : FillSet, open : BOOLEAN]

ShareTypes ==
  /\ user \in Int /\ own \in Int /\ target \in Int /\ halt \in BOOLEAN
  /\ book \in Books /\ book.netted <= Abs(book.qty)
  /\ round \in Rounds /\ close \in [Flatteners -> Closes]
  /\ short \in {"none", "fresh", "old"}
  /\ lock \in Flatteners \cup {NoFlattener}

-----------------------------------------------------------------------------
(* Signs and sizes.                                                            *)

LEMMA Signs ==
  ASSUME NEW x \in Int, NEW y \in Int
  PROVE  /\ x * y < 0 <=> Opposite(x, y)
         /\ x * y > 0 <=> (x > 0 /\ y > 0) \/ (x < 0 /\ y < 0)
         /\ x * y <= 0 <=> Opposite(x, y) \/ x = 0 \/ y = 0
         /\ x * y >= 0 <=> ~Opposite(x, y)
<1>1. CASE x = 0
  BY <1>1 DEF Opposite
<1>2. CASE x > 0 /\ y > 0
  BY <1>2 DEF Opposite
<1>3. CASE x > 0 /\ y < 0
  BY <1>3 DEF Opposite
<1>4. CASE x < 0 /\ y > 0
  BY <1>4 DEF Opposite
<1>5. CASE x < 0 /\ y < 0
  BY <1>5 DEF Opposite
<1>6. CASE y = 0
  BY <1>6 DEF Opposite
<1> QED  BY <1>1, <1>2, <1>3, <1>4, <1>5, <1>6

LEMMA SgnTimes ==
  ASSUME NEW x \in Int, NEW y \in Int
  PROVE  /\ x > 0 => Sgn(x) = 1 /\ Sgn(x) * y = y /\ (-Sgn(x)) * y = -y
         /\ x < 0 => Sgn(x) = -1 /\ Sgn(x) * y = -y /\ (-Sgn(x)) * y = y
         /\ x = 0 => Sgn(x) = 0 /\ Sgn(x) * y = 0
BY DEF Sgn

(* What the account shows on the side of x and on the other one.                *)
LEMMA HeldIs ==
  ASSUME NEW x \in Int, user \in Int, own \in Int, x # 0
  PROVE  /\ Held(Sgn(x)) = (IF (x > 0 /\ Account > 0) \/ (x < 0 /\ Account < 0) THEN Abs(Account) ELSE 0)
         /\ Held(-Sgn(x)) = (IF Opposite(x, Account) THEN Abs(Account) ELSE 0)
<1>1. Account \in Int
  BY DEF Account
<1> DEFINE a == Account
<1>2. a \in Int
  BY <1>1
<1> HIDE DEF a
<1>3. /\ x > 0 => Sgn(x) * a = a /\ (-Sgn(x)) * a = -a
      /\ x < 0 => Sgn(x) * a = -a /\ (-Sgn(x)) * a = a
  BY <1>2, SgnTimes
<1>4. Held(Sgn(x)) = (IF Sgn(x) * a > 0 THEN Abs(a) ELSE 0) /\ Held(-Sgn(x)) = (IF (-Sgn(x)) * a > 0 THEN Abs(a) ELSE 0)
  BY DEF Held, a
<1>5. /\ Held(Sgn(x)) = (IF (x > 0 /\ a > 0) \/ (x < 0 /\ a < 0) THEN Abs(a) ELSE 0)
      /\ Held(-Sgn(x)) = (IF Opposite(x, a) THEN Abs(a) ELSE 0)
  BY <1>2, <1>3, <1>4 DEF Opposite
<1> QED  BY <1>5 DEF a

LEMMA AbsSum ==
  ASSUME NEW x \in Int, NEW y \in Int
  PROVE  /\ Abs(x) \in Nat /\ Abs(y) \in Nat /\ Abs(x + y) \in Nat
         /\ ~Opposite(x, y) => Abs(x + y) = Abs(x) + Abs(y)
BY DEF Abs, Opposite

(* A fill towards zero.                                                         *)
LEMMA ReplayIn ==
  ASSUME NEW b \in Books, NEW q \in Int, NEW back \in BOOLEAN, Opposite(b.qty, q), Abs(q) <= Abs(b.qty),
         b.netted <= Abs(b.qty)
  PROVE  LET r == Replay(b, q, 0, back) IN
         /\ r \in Books /\ r.qty = b.qty + q /\ r.netted <= Abs(r.qty)
         /\ ~back => r.netted = Least(b.netted, Abs(r.qty))
         /\ back => r.netted = (IF b.netted > Abs(q) THEN b.netted - Abs(q) ELSE 0)
         /\ b.netted = 0 => r.netted = 0
<1>1. ~(b.qty * q >= 0) /\ b.qty \in Int /\ b.netted \in Nat
  BY Signs DEF Books
<1>2. Replay(b, q, 0, back) =
        [qty |-> b.qty + q,
         netted |-> IF b.qty + q = 0 THEN 0
                    ELSE Least(IF back THEN IF b.netted > Abs(q) THEN b.netted - Abs(q) ELSE 0
                               ELSE b.netted, Abs(b.qty + q))]
  BY <1>1 DEF Replay, Abs, Opposite
<1> DEFINE m == IF b.qty + q = 0 THEN 0
                ELSE Least(IF back THEN IF b.netted > Abs(q) THEN b.netted - Abs(q) ELSE 0
                           ELSE b.netted, Abs(b.qty + q))
<1>3. /\ m \in Nat /\ m <= Abs(b.qty + q)
      /\ ~back => m = Least(b.netted, Abs(b.qty + q))
      /\ back => m = (IF b.netted > Abs(q) THEN b.netted - Abs(q) ELSE 0)
      /\ b.netted = 0 => m = 0
  BY <1>1 DEF Least, Abs, Opposite
<1> HIDE DEF m
<1> QED  BY <1>1, <1>2, <1>3 DEF Books, m

(* A fill away from zero, or from a flat book.                                  *)
LEMMA ReplayOut ==
  ASSUME NEW b \in Books, NEW q \in Int, NEW room \in Nat, NEW back \in BOOLEAN, ~Opposite(b.qty, q), b.netted <= Abs(b.qty)
  PROVE  LET r == Replay(b, q, room, back) IN
         /\ r \in Books /\ r.qty = b.qty + q /\ r.netted <= Abs(r.qty)
         /\ r.netted = b.netted + Least(Abs(q), room)
         /\ q = 0 => r = b
<1>1. b.qty * q >= 0 /\ b.qty \in Int /\ b.netted \in Nat
  BY Signs DEF Books
<1> DEFINE m == IF b.qty + q = 0 THEN 0 ELSE Least(b.netted + Least(Abs(q), room), Abs(b.qty + q))
<1>2. Replay(b, q, room, back) = [qty |-> b.qty + q, netted |-> m]
  BY <1>1 DEF Replay
<1>3. m \in Nat /\ m <= Abs(b.qty + q) /\ m = b.netted + Least(Abs(q), room)
  <2> DEFINE k == Least(Abs(q), room)
  <2>0. Abs(b.qty + q) = Abs(b.qty) + Abs(q) /\ Abs(q) \in Nat /\ Abs(b.qty) \in Nat
    BY <1>1, AbsSum
  <2>1. k \in Nat /\ k <= Abs(q) /\ Abs(b.qty + q) = Abs(b.qty) + Abs(q) /\ Abs(q) \in Nat /\ Abs(b.qty) \in Nat
            /\ Abs(b.qty + q) \in Nat
    BY <2>0 DEF Least
  <2>2. b.qty + q = 0 => Abs(b.qty + q) = 0
    BY DEF Abs
  <2> HIDE DEF k
  <2>3. b.netted + k <= Abs(b.qty + q) /\ b.netted + k \in Nat
    BY <1>1, <2>1
  <2>4. b.qty + q # 0 => Least(b.netted + k, Abs(b.qty + q)) = b.netted + k
    BY <2>1, <2>3, <1>1 DEF Least
  <2>5. m = b.netted + k
    BY <2>1, <2>2, <2>3, <2>4, <1>1 DEF k
  <2> QED  BY <2>3, <2>5 DEF k
<1>4. q = 0 => m = b.netted /\ b.qty + q = b.qty
  BY <1>1, <1>3 DEF Least, Abs
<1> HIDE DEF m
<1>5. b = [qty |-> b.qty, netted |-> b.netted]
  BY DEF Books
<1>6. /\ Replay(b, q, room, back).qty = b.qty + q
      /\ Replay(b, q, room, back).netted = m
      /\ Replay(b, q, room, back) \in Books
  <2>1. b.qty + q \in Int /\ m \in Nat
    BY <1>1, <1>3
  <2>2. [qty |-> b.qty + q, netted |-> m] \in Books
    BY <2>1 DEF Books
  <2> QED  BY <2>2, <1>2
<1>7. q = 0 => Replay(b, q, room, back) = b
  BY <1>2, <1>4, <1>5
<1> QED  BY <1>3, <1>6, <1>7
-----------------------------------------------------------------------------
(* What relates the user's position u, the bot's o and a book of c lots, m of    *)
(* them netted.  Roomy: netting leaves the account on the user's side, by at      *)
(* least the bot's lots.  Matches: the book is the share.  Behind: the user closed *)
(* lots by hand and the book claims more, on a side the user holds nothing of.      *)

Roomy(u, o) == Opposite(u, o) => Abs(u) >= 2 * Abs(o)
Matches(u, o, c, m) == o = c /\ (Opposite(u, o) => m = Abs(o))
Behind(u, o, c, m) ==
  /\ Between(o, c) /\ Abs(o) < Abs(c)
  /\ u = 0 \/ (Opposite(u, c) /\ m = Abs(o))
Share(u, o, c, m, h) == Roomy(u, o) /\ (Matches(u, o, c, m) \/ (h /\ Behind(u, o, c, m)))

(* Lots leave the bot's share: some of what was netted, given back by a plain     *)
(* order, or some of what the account shows, closed by a reduce-only one.          *)
LEMMA LotsLeave ==
  ASSUME NEW u \in Int, NEW o \in Int, NEW c \in Int, NEW m \in Nat, NEW q \in Int, NEW k \in Nat,
         NEW h, Share(u, o, c, m, h), Opposite(o, q), Abs(q) <= Abs(o),
         Opposite(u, o) => k = (IF m > Abs(q) THEN m - Abs(q) ELSE 0)
  PROVE  Share(u, o + q, c + q, k, h)
<1>1. Roomy(u, o + q)
  BY DEF Share, Roomy, Opposite, Abs
<1>2. CASE Matches(u, o, c, m)
  BY <1>1, <1>2 DEF Share, Matches, Opposite, Abs
<1>3. CASE h /\ Behind(u, o, c, m)
  <2>1. Between(o + q, c + q) /\ Abs(o + q) < Abs(c + q)
    BY <1>3 DEF Behind, Between, Opposite, Abs
  <2>2. u = 0 \/ (Opposite(u, c + q) /\ k = Abs(o + q))
    BY <1>3 DEF Behind, Between, Opposite, Abs
  <2> QED  BY <1>1, <1>3, <2>1, <2>2 DEF Share, Behind
<1> QED  BY <1>2, <1>3 DEF Share

(* Lots enter it, on the book's side; what the account shows of the other one is  *)
(* recorded as netted.                                                              *)
LEMMA LotsEnter ==
  ASSUME NEW u \in Int, NEW o \in Int, NEW c \in Int, NEW m \in Nat, NEW q \in Int, NEW k \in Nat,
         NEW h, NEW room \in Nat, Share(u, o, c, m, h), m <= Abs(c),
         ~Opposite(c, q), q # 0, Roomy(u, o + q),
         room = (IF Opposite(q, u + o) THEN Abs(u + o) ELSE 0), k = m + Least(Abs(q), room)
  PROVE  Share(u, o + q, c + q, k, h) /\ ~Opposite(o, q)
<1>1. ~Opposite(o, q)
  BY DEF Share, Matches, Behind, Between, Opposite, Abs
<1>2. Opposite(u, o + q) => Opposite(u, q) /\ Opposite(q, u + o) /\ room >= Abs(q) /\ k = m + Abs(q)
  BY <1>1 DEF Roomy, Opposite, Abs, Least
<1>3. CASE Matches(u, o, c, m)
  BY <1>1, <1>2, <1>3 DEF Share, Matches, Opposite, Abs
<1>4. CASE h /\ Behind(u, o, c, m)
  <2>1. Between(o + q, c + q) /\ Abs(o + q) < Abs(c + q)
    BY <1>4 DEF Behind, Between, Opposite, Abs
  <2>2. u = 0 \/ (Opposite(u, c + q) /\ k = Abs(o + q))
    BY <1>4, <1>2, <1>1 DEF Behind, Between, Opposite, Abs
  <2> QED  BY <1>1, <1>4, <2>1, <2>2 DEF Share, Behind
<1> QED  BY <1>1, <1>3, <1>4 DEF Share

(* The user's own trade: theirs grows on a free side or shrinks, or closes lots   *)
(* of the bot's; with the book behind they do not return to its side.              *)
OwnTrade(u, o, t, u2, o2, h, h2) ==
  \/ ~Opposite(o, t) /\ ~Opposite(o, u) /\ u2 = u + t /\ o2 = o /\ (h => h2)
  \/ Opposite(o, t) /\ u # 0 /\ u2 = u + t /\ o2 = o /\ (h => h2)
  \/ Opposite(o, t) /\ u = 0 /\ u2 = 0 /\ o2 = o + t /\ h2
  \/ o # 0 /\ ~Opposite(o, t) /\ Opposite(o, u) /\ Abs(u) > Abs(o) + 1 /\ Roomy(u + t, o)
     /\ u2 = u + t /\ o2 = o /\ (h => h2)
  \/ o # 0 /\ ~Opposite(o, t) /\ Opposite(o, u) /\ u2 = 0 /\ o2 = 0 /\ h2

LEMMA UserTrades ==
  ASSUME NEW u \in Int, NEW o \in Int, NEW c \in Int, NEW m \in Nat, NEW t \in {-1, 1},
         NEW u2 \in Int, NEW o2 \in Int, NEW h, NEW h2,
         Share(u, o, c, m, h), OwnTrade(u, o, t, u2, o2, h, h2),
         h /\ o # c => m = 0 /\ (o = 0 \/ Opposite(o, t)) /\ (c = 0 \/ Opposite(c, t))
  PROVE  /\ Share(u2, o2, c, m, h2)
         /\ Between(o2, o)
         /\ Abs(o2) <= Abs(o)
<1>1. Between(o2, o) /\ Abs(o2) <= Abs(o)
  BY DEF OwnTrade, Between, Opposite, Abs
<1>2. Roomy(u2, o2)
  BY DEF OwnTrade, Share, Roomy, Opposite, Abs
<1>3. CASE Matches(u, o, c, m)
  <2>1. CASE o2 = o
    BY <1>1, <1>2, <1>3, <2>1 DEF OwnTrade, Share, Matches, Opposite, Abs
  <2>2. CASE o2 # o
    <3>1. h2 /\ u2 = 0 /\ Abs(o2) < Abs(c) /\ Between(o2, c)
      BY <1>3, <2>2 DEF OwnTrade, Matches, Between, Opposite, Abs
    <3> QED  BY <1>1, <1>2, <3>1 DEF Share, Behind
  <2> QED  BY <2>1, <2>2, <1>1
<1>4. CASE h /\ Behind(u, o, c, m)
  <2>1. m = 0 /\ (o = 0 \/ Opposite(o, t)) /\ Opposite(c, t)
    BY <1>4 DEF Behind, Between, Opposite, Abs
  <2>2. Between(o2, c) /\ Abs(o2) < Abs(c)
    BY <1>4, <1>1 DEF Behind, Between, Opposite, Abs
  <2>3. h2
    BY <1>4 DEF OwnTrade
  <2>4. u2 = 0 \/ (Opposite(u2, c) /\ m = Abs(o2))
    BY <1>4, <2>1 DEF OwnTrade, Behind, Between, Opposite, Abs
  <2> QED  BY <1>1, <1>2, <2>2, <2>3, <2>4 DEF Share, Behind
<1> QED  BY <1>1, <1>3, <1>4 DEF Share
-----------------------------------------------------------------------------
(* The shapes of the state.                                                    *)

LEMMA RestTypes ==
  /\ NoFill \in FillSet /\ NoFill.qty = 0 /\ NoFill.room = 0 /\ ~NoFill.back /\ ~NoFill.writeoff
  /\ NoBook \in Books /\ NoBook.qty = 0 /\ NoBook.netted = 0
  /\ Idle \in Rounds /\ Idle.pc = "idle" /\ Idle.fill = NoFill
  /\ Off \in Closes /\ Off.pc = "off" /\ Off.fill = NoFill
BY DEF NoFill, FillSet, NoBook, Books, Idle, Rounds, Off, Closes

LEMMA FillTypes ==
  ASSUME NEW q \in Int, NEW w \in BOOLEAN
  PROVE  LET b == [NoFill EXCEPT !.qty = q, !.back = w]
             f == [NoFill EXCEPT !.qty = q, !.writeoff = w]
         IN /\ b \in FillSet /\ b.qty = q /\ b.room = 0 /\ (b.back <=> w) /\ ~b.writeoff
            /\ f \in FillSet /\ f.qty = q /\ f.room = 0 /\ ~f.back /\ (f.writeoff <=> w)
<1>1. ASSUME NEW f \in FillSet, ~f.back, ~f.writeoff, f.room = 0
      PROVE  LET b == [f EXCEPT !.qty = q, !.back = w]
                 g == [f EXCEPT !.qty = q, !.writeoff = w]
             IN /\ b \in FillSet /\ b.qty = q /\ b.room = 0 /\ (b.back <=> w) /\ ~b.writeoff
                /\ g \in FillSet /\ g.qty = q /\ g.room = 0 /\ ~g.back /\ (g.writeoff <=> w)
  <2>1. LET b == [f EXCEPT !.qty = q, !.back = w]
        IN b \in FillSet /\ b.qty = q /\ b.room = 0 /\ (b.back <=> w) /\ ~b.writeoff
    BY <1>1 DEF FillSet
  <2>2. LET g == [f EXCEPT !.qty = q, !.writeoff = w]
        IN g \in FillSet /\ g.qty = q /\ g.room = 0 /\ ~g.back /\ (g.writeoff <=> w)
    BY <1>1 DEF FillSet
  <2> QED  BY <2>1, <2>2
<1> QED  BY <1>1, RestTypes

LEMMA EntryTypes ==
  ASSUME NEW q \in Int, NEW room \in Nat
  PROVE  LET e == [NoFill EXCEPT !.qty = q, !.room = room]
         IN e \in FillSet /\ e.qty = q /\ e.room = room /\ ~e.back /\ ~e.writeoff
<1>1. ASSUME NEW f \in FillSet, ~f.back, ~f.writeoff
      PROVE  LET e == [f EXCEPT !.qty = q, !.room = room]
             IN e \in FillSet /\ e.qty = q /\ e.room = room /\ ~e.back /\ ~e.writeoff
  BY <1>1 DEF FillSet
<1> QED  BY <1>1, RestTypes

LEMMA LotTypes ==
  ASSUME ShareTypes
  PROVE  /\ Account \in Int /\ Held(Sgn(round.had)) \in Nat /\ Held(-Sgn(round.had)) \in Nat
         /\ Owned \in Nat /\ Asked \in Int /\ NettedLots \in Int /\ ReduceLots \in Int
         /\ EntryLots \in Int /\ round.had \in Int /\ round.want \in Int
         /\ book.qty \in Int /\ book.netted \in Nat /\ book.netted <= Abs(book.qty)
         /\ Sgn(round.had) \in {-1, 0, 1}
<1>1. round.had \in Int /\ round.want \in Int /\ book.qty \in Int /\ book.netted \in Nat /\ book.netted <= Abs(book.qty)
  BY DEF ShareTypes, Books, Rounds
<1>2. Account \in Int
  BY DEF ShareTypes, Account
<1>3. Held(Sgn(round.had)) \in Nat /\ Held(-Sgn(round.had)) \in Nat
  <2>1. Abs(Account) \in Nat
    BY <1>2 DEF Abs
  <2> QED  BY <2>1 DEF Held
<1>4. Owned \in Nat
  BY <1>1 DEF Owned, Abs
<1>5. Asked \in Int /\ EntryLots \in Int
  BY <1>1 DEF Asked, Abs, EntryLots
<1>6. (IF Whole THEN Owned ELSE Asked) \in Int
  BY <1>4, <1>5
<1>7. NettedLots \in Int
  BY <1>1, <1>3, <1>6 DEF NettedLots, Least
<1>8. Cap \in Int
  BY <1>4, <1>3 DEF Cap, Least
<1>9. ReduceLots \in Int
  BY <1>6, <1>8 DEF ReduceLots, Least
<1> QED  BY <1>1, <1>2, <1>3, <1>4, <1>5, <1>7, <1>9 DEF Sgn
-----------------------------------------------------------------------------
(* The invariant.                                                               *)

(* The one fill that is not in orders.jsonl yet, and the book with it.            *)
InFlight == IF round.fill # NoFill THEN round.fill
            ELSE IF lock \in Flatteners THEN close[lock].fill ELSE NoFill
Booked(b, fill) == IF fill.writeoff THEN NoBook ELSE Replay(b, fill.qty, fill.room, fill.back)
Due == Booked(book, InFlight)

ShareInv == Share(user, own, Due.qty, Due.netted, byHand)

(* One close-all at a time, under HALT, and none beside an order of a round.       *)
LockInv ==
  \A f \in Flatteners :
    /\ close[f].pc \notin {"off", "start"} => lock = f /\ halt
    /\ Closing(f) => round.fill = NoFill /\ round.pc \notin {"closed", "entered"}
    /\ close[f].pc # "log" => close[f].fill = NoFill
    /\ close[f].pc = "log" => close[f].fill.room = 0 /\ ~close[f].fill.writeoff
    /\ close[f].pc = "log" => Between(book.qty + close[f].fill.qty, book.qty)

(* The book a round started from can only shrink under it.                          *)
RoundInv ==
  /\ round.pc \notin {"closed", "entered"} => round.fill = NoFill
  /\ round.pc \in {"closed", "entered"} => marked = TRUE /\ round.fill.qty # 0
  /\ round.pc = "closed" => round.fill.room = 0 /\ Between(book.qty + round.fill.qty, book.qty)
  /\ round.pc = "entered" =>
       ~round.fill.back /\ ~round.fill.writeoff /\ ~Opposite(book.qty, round.fill.qty)
  /\ round.pc \in {"close", "closed", "entry"} => Between(book.qty, round.had)
  /\ round.pc \in {"close", "closed"} => round.had # 0
  /\ round.pc = "entry" =>
       Opposite(round.had, round.want) \/ round.had = 0 \/ Between(round.had, round.want)

(* The new side of a flip is opened from a flat book.                               *)
FlipInv ==
  Opposite(round.had, round.want) =>
    /\ round.pc = "entry" /\ short = "none" => book.qty = 0
    /\ round.pc = "closed" /\ (short = "none" \/ round.fill.writeoff) =>
         Booked(book, round.fill).qty = 0

(* What close-all is about to send covers the bot's whole share.                    *)
Covers(f) == IF Restores(f) THEN RestoreLots(f) ELSE IF Claims(f) THEN CloseLots(f) ELSE 0
CloseInv ==
  \A f \in Flatteners :
    /\ close[f].pc \in {"positions", "restore"} => close[f].book = book
    /\ close[f].pc = "restore" => Abs(own) <= Covers(f)
    /\ close[f].pc = "restore" /\ Restores(f) => RestoreLots(f) = Abs(own) /\ close[f].shows = Account
    /\ close[f].pc \in {"log", "zero"} /\ ~close[f].open => own = 0

BooksInv == ShareTypes /\ ShareInv /\ LockInv /\ RoundInv /\ FlipInv /\ CloseInv

-----------------------------------------------------------------------------
(* The book with the fill in flight.                                            *)

LEMMA BookedNothing ==
  ASSUME NEW b \in Books, b.netted <= Abs(b.qty)
  PROVE  Booked(b, NoFill) = b
<1>1. NoFill.qty = 0 /\ NoFill.room = 0 /\ ~NoFill.writeoff /\ NoFill.back \in BOOLEAN /\ b.qty \in Int
  BY RestTypes DEF FillSet, Books
<1>2. Replay(b, NoFill.qty, NoFill.room, NoFill.back) = b
  BY <1>1, ReplayOut DEF Opposite
<1> QED  BY <1>1, <1>2 DEF Booked

LEMMA BookedIn ==
  ASSUME NEW b \in Books, NEW fill \in FillSet, b.netted <= Abs(b.qty), ~fill.writeoff,
         fill.room = 0, Between(b.qty + fill.qty, b.qty)
  PROVE  LET r == Booked(b, fill) IN
         /\ r \in Books /\ r.qty = b.qty + fill.qty /\ r.netted <= Abs(r.qty)
         /\ b.netted = 0 => r.netted = 0
         /\ fill.back /\ fill.qty # 0 =>
              r.netted = (IF b.netted > Abs(fill.qty) THEN b.netted - Abs(fill.qty) ELSE 0)
<1>1. b.qty \in Int /\ fill.qty \in Int /\ fill.back \in BOOLEAN /\ b.netted \in Nat
  BY DEF Books, FillSet
<1>2. Booked(b, fill) = Replay(b, fill.qty, 0, fill.back)
  BY DEF Booked
<1> DEFINE q == fill.qty
           r == Replay(b, q, 0, fill.back)
<1>3. CASE q = 0
  <2>1. ~Opposite(b.qty, q)
    BY <1>3 DEF Opposite
  <2>2. r = b
    BY <1>1, <1>3, <2>1, ReplayOut
  <2> QED  BY <1>1, <1>2, <1>3, <2>2
<1>4. CASE q # 0
  <2>1. Opposite(b.qty, q) /\ Abs(q) <= Abs(b.qty)
    BY <1>1, <1>4 DEF Between, Opposite, Abs
  <2>2. /\ r \in Books /\ r.qty = b.qty + q /\ r.netted <= Abs(r.qty)
        /\ fill.back => r.netted = (IF b.netted > Abs(q) THEN b.netted - Abs(q) ELSE 0)
        /\ b.netted = 0 => r.netted = 0
    BY <1>1, <2>1, ReplayIn
  <2> QED  BY <1>2, <2>2
<1> QED  BY <1>3, <1>4

LEMMA BookedOut ==
  ASSUME NEW b \in Books, NEW fill \in FillSet, b.netted <= Abs(b.qty), ~fill.writeoff,
         ~Opposite(b.qty, fill.qty)
  PROVE  LET r == Booked(b, fill) IN
         /\ r \in Books /\ r.qty = b.qty + fill.qty /\ r.netted <= Abs(r.qty)
         /\ r.netted = b.netted + Least(Abs(fill.qty), fill.room)
<1>1. b.qty \in Int /\ fill.qty \in Int /\ fill.back \in BOOLEAN /\ fill.room \in Nat
  BY DEF Books, FillSet
<1>2. Booked(b, fill) = Replay(b, fill.qty, fill.room, fill.back)
  BY DEF Booked
<1> QED  BY <1>1, <1>2, ReplayOut

(* Which fill is in flight.                                                       *)
LEMMA QuietBook ==
  ASSUME BooksInv, round.pc \notin {"closed", "entered"},
         \A f \in Flatteners : close[f].pc # "log"
  PROVE  round.fill = NoFill /\ InFlight = NoFill /\ Due = book
<1>1. round.fill = NoFill
  BY DEF BooksInv, RoundInv
<1>2. InFlight = NoFill
  BY <1>1 DEF InFlight, BooksInv, LockInv
<1>3. book \in Books /\ book.netted <= Abs(book.qty)
  BY DEF BooksInv, ShareTypes
<1> QED  BY <1>1, <1>2, <1>3, BookedNothing DEF Due

LEMMA RoundBook ==
  ASSUME BooksInv, round.pc \in {"closed", "entered"}
  PROVE  /\ InFlight = round.fill /\ round.fill # NoFill
         /\ \A f \in Flatteners : ~Closing(f)
<1>1. round.fill # NoFill
  BY RestTypes DEF BooksInv, RoundInv
<1> QED  BY <1>1 DEF InFlight, BooksInv, LockInv

LEMMA CloseBook ==
  ASSUME BooksInv, NEW f \in Flatteners, Closing(f)
  PROVE  /\ InFlight = close[f].fill /\ lock = f /\ halt
         /\ round.fill = NoFill /\ round.pc \notin {"closed", "entered"}
         /\ close[f].pc # "log" => Due = book
<1>1. lock = f /\ halt /\ round.fill = NoFill /\ round.pc \notin {"closed", "entered"}
  BY DEF BooksInv, LockInv, Closing
<1>2. InFlight = close[f].fill
  BY <1>1 DEF InFlight
<1>3. book \in Books /\ book.netted <= Abs(book.qty)
  BY DEF BooksInv, ShareTypes
<1>4. close[f].pc # "log" => close[f].fill = NoFill
  BY DEF BooksInv, LockInv
<1> QED  BY <1>1, <1>2, <1>3, <1>4, BookedNothing DEF Due
-----------------------------------------------------------------------------
(* The closing leg of a round.                                                  *)

(* On the side of a position, what the account shows of it.                      *)
Shown(had, a)  == IF (had > 0 /\ a > 0) \/ (had < 0 /\ a < 0) THEN Abs(a) ELSE 0
Against(had, a) == IF Opposite(had, a) THEN Abs(a) ELSE 0
Away(had, n)   == IF had > 0 THEN -n ELSE n

LEMMA ExitNumbers ==
  ASSUME NEW u \in Int, NEW o \in Int, NEW c \in Int, NEW m \in Nat, NEW had \in Int, NEW n \in Nat,
         NEW h, Share(u, o, c, m, h), Between(c, had), c # 0, m > 0, Opposite(had, u + o),
         1 <= n, n <= m
  PROVE  Opposite(u, o) /\ Opposite(o, Away(had, n)) /\ n <= Abs(o)
<1>1. Opposite(u, o) /\ m = Abs(o)
  <2>1. CASE Matches(u, o, c, m)
    BY <2>1 DEF Matches, Between, Opposite, Abs
  <2>2. CASE Behind(u, o, c, m)
    BY <2>2 DEF Behind, Between, Opposite, Abs
  <2> QED  BY <2>1, <2>2 DEF Share
<1>2. (had > 0 /\ o > 0) \/ (had < 0 /\ o < 0)
  BY <1>1 DEF Share, Matches, Behind, Between, Opposite, Abs
<1> QED  BY <1>1, <1>2 DEF Away, Opposite, Abs

LEMMA ReduceNumbers ==
  ASSUME NEW u \in Int, NEW o \in Int, NEW c \in Int, NEW m \in Nat, NEW had \in Int, NEW n \in Nat,
         NEW h, Share(u, o, c, m, h), Between(c, had), 1 <= n, n <= Abs(c), n <= Shown(had, u + o)
  PROVE  /\ ~Opposite(u, o) /\ Opposite(o, Away(had, n)) /\ n <= Abs(o)
         /\ Shown(had, u + o) < Abs(c) => Shown(had, u + o) = Abs(o)
<1>1. ~Opposite(u, o) /\ n <= Abs(o) /\ (Shown(had, u + o) < Abs(c) => Shown(had, u + o) = Abs(o))
  <2>1. CASE Matches(u, o, c, m)
    BY <2>1 DEF Share, Roomy, Matches, Between, Opposite, Abs, Shown
  <2>2. CASE Behind(u, o, c, m)
    BY <2>2 DEF Share, Roomy, Behind, Between, Opposite, Abs, Shown
  <2> QED  BY <2>1, <2>2 DEF Share
<1>2. (had > 0 /\ o > 0) \/ (had < 0 /\ o < 0)
  BY <1>1 DEF Share, Matches, Behind, Between, Opposite, Abs
<1> QED  BY <1>1, <1>2 DEF Away, Opposite, Abs

LEMMA NothingNumbers ==
  ASSUME NEW u \in Int, NEW o \in Int, NEW c \in Int, NEW m \in Nat, NEW had \in Int,
         NEW h, Share(u, o, c, m, h), Between(c, had), c # 0, Shown(had, u + o) < Abs(c), o # 0,
         Shown(had, u + o) = 0
  PROVE  m > 0 /\ Against(had, u + o) > 0
<1>1. CASE Matches(u, o, c, m)
  BY <1>1 DEF Share, Roomy, Matches, Between, Opposite, Abs, Shown, Against
<1>2. CASE Behind(u, o, c, m)
  BY <1>2 DEF Share, Roomy, Behind, Between, Opposite, Abs, Shown, Against
<1> QED  BY <1>1, <1>2 DEF Share

LEMMA CloseSide ==
  ASSUME BooksInv, round.pc = "close"
  PROVE  /\ Owned = Abs(book.qty)
         /\ Held(Sgn(round.had)) = Shown(round.had, user + own)
         /\ Held(-Sgn(round.had)) = Against(round.had, user + own)
         /\ Flips <=> Opposite(round.had, round.want)
         /\ Flips => Whole
         /\ Sgn(round.had) \in {-1, 1}
         /\ \A n \in Int : /\ own - Sgn(round.had) * n = own + Away(round.had, n)
                           /\ -Sgn(round.had) * n = Away(round.had, n)
<1>1. round.had # 0 /\ Between(book.qty, round.had)
  BY DEF BooksInv, RoundInv
<1>2. /\ round.had \in Int /\ round.want \in Int /\ book.qty \in Int
      /\ user \in Int /\ own \in Int
  BY LotTypes DEF BooksInv, ShareTypes
<1>3. Account = user + own
  BY DEF Account
<1>4. Held(Sgn(round.had)) = Shown(round.had, user + own) /\ Held(-Sgn(round.had)) = Against(round.had, user + own)
  BY <1>1, <1>2, <1>3, HeldIs DEF Shown, Against
<1>5. Flips <=> Opposite(round.had, round.want)
  BY <1>2, Signs DEF Flips
<1>6. Owned = Abs(book.qty)
  <2>1. /\ round.had > 0 => Sgn(round.had) * book.qty = book.qty
        /\ round.had < 0 => Sgn(round.had) * book.qty = -book.qty
    BY <1>2, SgnTimes
  <2> DEFINE p == Sgn(round.had) * book.qty
  <2>2. Owned = IF p > 0 THEN Abs(book.qty) ELSE 0
    BY DEF Owned
  <2> HIDE DEF p
  <2>3. /\ round.had > 0 => p = book.qty
        /\ round.had < 0 => p = -book.qty
    BY <2>1 DEF p
  <2> QED  BY <1>1, <1>2, <2>2, <2>3 DEF Between, Abs
<1>7. Flips => Whole
  <2>1. Flips => round.had * round.want <= 0
    BY <1>2, <1>5, Signs
  <2>2. Flips => Asked = Abs(round.had)
    BY <2>1 DEF Asked
  <2> QED  BY <1>1, <1>2, <1>6, <2>2 DEF Whole, Between, Abs
<1>8. Sgn(round.had) \in {-1, 1}
  BY <1>1, <1>2 DEF Sgn
<1>9. \A n \in Int : /\ own - Sgn(round.had) * n = own + Away(round.had, n)
                     /\ -Sgn(round.had) * n = Away(round.had, n)
  BY <1>1, <1>2 DEF Sgn, Away
<1> QED  BY <1>4, <1>5, <1>6, <1>7, <1>8, <1>9

(* With no close-all under way and no fill of a round, the book is up to date.    *)
LEMMA CloseMayGo ==
  ASSUME ShareFaults = {}, BooksInv, MayClose, round.pc = "close"
  PROVE  /\ \A f \in Flatteners : ~Closing(f)
         /\ Due = book /\ round.fill = NoFill
         /\ Share(user, own, book.qty, book.netted, byHand)
<1>1. \A f \in Flatteners : ~Closing(f)
  BY DEF MayClose
<1>2. \A f \in Flatteners : close[f].pc # "log"
  BY <1>1 DEF Closing
<1>3. Due = book /\ round.fill = NoFill
  BY <1>2, QuietBook
<1> QED  BY <1>1, <1>3 DEF BooksInv, ShareInv

(* A fill of the closing leg, on its way into the log.                            *)
LEMMA ClosedKeeps ==
  ASSUME BooksInv, round.pc = "close", \A f \in Flatteners : ~Closing(f),
         NEW q \in Int, q # 0, Between(book.qty + q, book.qty), own' = own + q,
         round' \in Rounds, round'.pc = "closed", round'.had = round.had, round'.want = round.want,
         round'.fill.qty = q, round'.fill.room = 0,
         short' \in {"none", "fresh", "old"}, marked' = TRUE,
         Flips /\ (short' = "none" \/ round'.fill.writeoff) =>
           round'.fill.writeoff \/ q = -book.qty,
         Share(user, own', Booked(book, round'.fill).qty, Booked(book, round'.fill).netted, byHand),
         UNCHANGED <<user, byHand, book, target, halt, close, lock, moves>>
  PROVE  BooksInv'
<1>1. ShareTypes'
  BY DEF BooksInv, ShareTypes
<1>2. ShareInv'
  <2>1. round'.fill # NoFill
    BY RestTypes
  <2>2. Due' = Booked(book, round'.fill)
    BY <2>1 DEF Due, InFlight, Booked, Replay
  <2> QED  BY <2>2 DEF ShareInv
<1>3. LockInv'
  BY DEF BooksInv, LockInv, Closing
<1>4. RoundInv'
  BY DEF BooksInv, RoundInv
<1>5. FlipInv'
  <2>1. Flips <=> Opposite(round.had, round.want)
    BY CloseSide
  <2>2. round'.fill.writeoff => Booked(book, round'.fill).qty = 0
    BY RestTypes DEF Booked
  <2>3. ~round'.fill.writeoff => Booked(book, round'.fill).qty = book.qty + q
    <3>1. book \in Books /\ book.netted <= Abs(book.qty) /\ round'.fill \in FillSet
      BY DEF BooksInv, ShareTypes, Rounds
    <3> QED  BY <3>1, BookedIn
  <2>4. book.qty \in Int
    BY LotTypes DEF BooksInv
  <2>5. Booked(book, round.fill)' = Booked(book, round'.fill)
    BY DEF Booked, Replay
  <2> QED  BY <2>1, <2>2, <2>3, <2>4, <2>5 DEF FlipInv
<1>6. CloseInv'
  BY DEF BooksInv, CloseInv, Closing
<1> QED  BY <1>1, <1>2, <1>3, <1>4, <1>5, <1>6 DEF BooksInv

(* Lots leave the bot's share one step: never past zero.                          *)
Leaving == own' # own /\ Between(own', own) /\ user' = user /\ halt' = halt

LEMMA NettedExitKeeps ==
  ASSUME ShareFaults = {}, BooksInv, NettedExit
  PROVE  BooksInv' /\ Leaving
<1>1. PICK n \in 1 .. NettedLots :
        /\ Fills(n, Owned)
        /\ own' = own - Sgn(round.had) * n
        /\ round' = [round EXCEPT !.pc = "closed",
                       !.fill = [NoFill EXCEPT !.qty = -Sgn(round.had) * n, !.back = TRUE]]
  BY DEF NettedExit
<1>2. /\ round.pc = "close" /\ MayClose /\ Netted /\ short' = "none" /\ marked' = TRUE
      /\ UNCHANGED <<user, byHand, book, target, halt, close, lock, moves>>
  BY DEF NettedExit
<1>3. /\ \A f \in Flatteners : ~Closing(f)
      /\ Due = book /\ Share(user, own, book.qty, book.netted, byHand)
  BY <1>2, CloseMayGo
<1>4. /\ user \in Int /\ own \in Int /\ book.qty \in Int /\ book.netted \in Nat /\ round.had \in Int
      /\ book.netted <= Abs(book.qty) /\ book \in Books /\ NettedLots \in Int /\ round \in Rounds
  BY LotTypes DEF BooksInv, ShareTypes
<1>5. n \in Nat /\ 1 <= n
  BY <1>1, <1>4
<1> DEFINE q == Away(round.had, n)
<1>6. own' = own + q /\ -Sgn(round.had) * n = q /\ q \in Int
  BY <1>1, <1>2, <1>4, <1>5, CloseSide DEF Away
<1>7. n <= book.netted /\ n <= Owned /\ Owned = Abs(book.qty)
  <2>1. Owned = Abs(book.qty) /\ Owned \in Nat
    BY <1>2, LotTypes, CloseSide DEF BooksInv
  <2>2. n \in 1 .. Owned
    BY <1>1 DEF Fills
  <2>3. NettedLots <= book.netted
    <3>1. Asked \in Int /\ Held(-Sgn(round.had)) \in Nat
      BY LotTypes DEF BooksInv
    <3>2. (IF Whole THEN Owned ELSE Asked) \in Int
      BY <2>1, <3>1
    <3> QED  BY <3>1, <3>2, <1>4 DEF NettedLots, Least
  <2> QED  BY <1>1, <1>4, <2>1, <2>2, <2>3
<1>8. book.qty # 0 /\ book.netted > 0 /\ Opposite(round.had, user + own) /\ Between(book.qty, round.had)
  <2>1. Held(-Sgn(round.had)) = Against(round.had, user + own)
    BY <1>2, CloseSide
  <2>2. Opposite(round.had, user + own)
    BY <1>2, <2>1 DEF Netted, Against
  <2> QED  BY <1>2, <1>4, <1>7, <2>2 DEF Netted, Abs, BooksInv, RoundInv
<1>9. Opposite(user, own) /\ Opposite(own, q) /\ Abs(q) <= Abs(own) /\ q # 0
  <2>1. Opposite(user, own) /\ Opposite(own, q) /\ n <= Abs(own)
    BY <1>3, <1>4, <1>5, <1>7, <1>8, ExitNumbers
  <2> QED  BY <2>1, <1>4, <1>5 DEF Away, Abs, Opposite
<1> DEFINE fill == [NoFill EXCEPT !.qty = q, !.back = TRUE]
<1>10. fill \in FillSet /\ fill.qty = q /\ fill.room = 0 /\ fill.back /\ ~fill.writeoff
  BY <1>6, FillTypes
<1>11. /\ round' \in Rounds /\ round'.pc = "closed" /\ round'.fill = fill
       /\ round'.had = round.had /\ round'.want = round.want
  <2>1. round' = [round EXCEPT !.pc = "closed", !.fill = fill]
    BY <1>1, <1>6
  <2> HIDE DEF fill
  <2> QED  BY <1>4, <1>10, <2>1 DEF Rounds
<1> HIDE DEF fill
<1>12. Between(book.qty + q, book.qty)
  BY <1>4, <1>5, <1>7, <1>8 DEF Away, Between, Abs
<1>13. Share(user, own', Booked(book, fill).qty, Booked(book, fill).netted, byHand)
  <2> DEFINE r == Booked(book, fill)
  <2>1. /\ r \in Books /\ r.qty = book.qty + q
        /\ r.netted = (IF book.netted > Abs(q) THEN book.netted - Abs(q) ELSE 0)
    BY <1>4, <1>9, <1>10, <1>12, BookedIn
  <2>2. r.netted \in Nat
    BY <2>1 DEF Books
  <2> HIDE DEF r, q
  <2>3. Share(user, own + q, book.qty + q, r.netted, byHand)
    BY <1>3, <1>4, <1>6, <1>9, <2>1, <2>2, LotsLeave
  <2>4. Share(user, own', r.qty, r.netted, byHand)
    BY <1>6, <2>1, <2>3
  <2> QED  BY <2>4 DEF r
<1>14. Flips => q = -book.qty
  <2>1. Flips => n = Owned
    BY <1>1 DEF Fills
  <2> QED  BY <1>4, <1>5, <1>7, <1>8, <2>1 DEF Away, Between, Abs
<1>15. BooksInv'
  <2> HIDE DEF q
  <2> QED  BY <1>2, <1>3, <1>6, <1>9, <1>10, <1>11, <1>12, <1>13, <1>14, ClosedKeeps
<1>16. Leaving
  BY <1>2, <1>4, <1>6, <1>9 DEF Leaving, Between, Opposite, Abs
<1> QED  BY <1>15, <1>16

LEMMA ReduceFillsKeeps ==
  ASSUME ShareFaults = {}, BooksInv, ReduceFills
  PROVE  BooksInv' /\ Leaving
<1>1. PICK n \in 1 .. Least(ReduceLots, Held(Sgn(round.had))) :
        /\ Fills(n, ReduceLots)
        /\ own' = own - Sgn(round.had) * n
        /\ round' = [round EXCEPT !.pc = "closed",
                       !.fill = [NoFill EXCEPT !.qty = -Sgn(round.had) * n, !.writeoff = Forgets(n)]]
  BY DEF ReduceFills
<1>2. /\ round.pc = "close" /\ MayClose /\ short' = Noted(ReadsShort) /\ marked' = TRUE
      /\ UNCHANGED <<user, byHand, book, target, halt, close, lock, moves>>
  BY DEF ReduceFills
<1>3. /\ \A f \in Flatteners : ~Closing(f)
      /\ Due = book /\ Share(user, own, book.qty, book.netted, byHand)
  BY <1>2, CloseMayGo
<1>4. /\ user \in Int /\ own \in Int /\ book.qty \in Int /\ book.netted \in Nat /\ round.had \in Int
      /\ book.netted <= Abs(book.qty) /\ book \in Books /\ ReduceLots \in Int /\ round \in Rounds
      /\ Owned \in Nat /\ Asked \in Int
  BY LotTypes DEF BooksInv, ShareTypes
<1> DEFINE s == Shown(round.had, user + own)
<1>5. Held(Sgn(round.had)) = s /\ s \in Nat /\ Owned = Abs(book.qty) /\ (Flips => Whole)
  BY <1>2, <1>4, CloseSide, LotTypes DEF BooksInv
<1> HIDE DEF s
<1>6. n \in Nat /\ 1 <= n /\ n <= ReduceLots /\ n <= s
  BY <1>1, <1>4, <1>5 DEF Least
<1> DEFINE q == Away(round.had, n)
<1>7. own' = own + q /\ -Sgn(round.had) * n = q /\ q \in Int
  BY <1>1, <1>2, <1>4, <1>6, CloseSide DEF Away
<1>8. Cap = Least(Owned, s) /\ (Whole => ReduceLots = Least(Owned, s))
  <2>1. ~Unread
    BY <1>5, <1>6 DEF Unread
  <2>2. Cap = Least(Owned, s)
    BY <1>5, <2>1 DEF Cap
  <2> QED  BY <1>4, <1>5, <2>2 DEF ReduceLots, Least
<1>9. n <= Owned
  BY <1>4, <1>5, <1>6, <1>8 DEF ReduceLots, Least
<1>10. Between(book.qty, round.had)
  BY <1>2 DEF BooksInv, RoundInv
<1>11. /\ ~Opposite(user, own) /\ Opposite(own, q) /\ Abs(q) <= Abs(own) /\ q # 0
       /\ s < Owned => s = Abs(own)
  <2>1. /\ ~Opposite(user, own) /\ Opposite(own, q) /\ n <= Abs(own)
        /\ s < Owned => s = Abs(own)
    BY <1>3, <1>4, <1>5, <1>6, <1>9, <1>10, ReduceNumbers DEF s
  <2> QED  BY <2>1, <1>4, <1>6 DEF Away, Abs, Opposite
<1>12. Between(book.qty + q, book.qty)
  BY <1>4, <1>5, <1>6, <1>9, <1>10 DEF Away, Between, Abs
<1> DEFINE fill == [NoFill EXCEPT !.qty = q, !.writeoff = Forgets(n)]
<1>13. fill \in FillSet /\ fill.qty = q /\ fill.room = 0 /\ ~fill.back /\ (fill.writeoff <=> Forgets(n))
  <2>1. Forgets(n) \in BOOLEAN
    BY DEF Forgets
  <2> QED  BY <1>7, <2>1, FillTypes
<1>14. /\ round' \in Rounds /\ round'.pc = "closed" /\ round'.fill = fill
       /\ round'.had = round.had /\ round'.want = round.want
  <2>1. round' = [round EXCEPT !.pc = "closed", !.fill = fill]
    BY <1>1, <1>7
  <2> HIDE DEF fill
  <2> QED  BY <1>4, <1>13, <2>1 DEF Rounds
<1> HIDE DEF fill
<1>15. fill.writeoff => own' = 0
  <2> SUFFICES ASSUME Forgets(n) PROVE own + q = 0
    BY <1>7, <1>13
  <2>1. Whole /\ n >= ReduceLots /\ ReadsShort
    BY DEF Forgets, Confirmed
  <2>2. s < Owned
    BY <2>1, <1>5 DEF ReadsShort
  <2>3. n = s /\ s = Abs(own)
    BY <1>4, <1>5, <1>6, <1>8, <1>11, <2>1, <2>2 DEF Least
  <2> QED  BY <1>4, <1>6, <1>11, <2>3 DEF Away, Abs, Opposite
<1>16. Share(user, own', Booked(book, fill).qty, Booked(book, fill).netted, byHand)
  <2>1. CASE fill.writeoff
    <3>1. Booked(book, fill).qty = 0 /\ own' = 0
      BY <1>15, <2>1, RestTypes DEF Booked
    <3> QED  BY <3>1 DEF Share, Roomy, Matches, Opposite
  <2>2. CASE ~fill.writeoff
    <3> DEFINE r == Booked(book, fill)
    <3>1. r \in Books /\ r.qty = book.qty + q
      BY <1>4, <1>12, <1>13, <2>2, BookedIn
    <3>2. r.netted \in Nat
      BY <3>1 DEF Books
    <3> HIDE DEF r, q
    <3>3. Share(user, own + q, book.qty + q, r.netted, byHand)
      BY <1>3, <1>4, <1>7, <1>11, <3>1, <3>2, LotsLeave
    <3>4. Share(user, own', r.qty, r.netted, byHand)
      BY <1>7, <3>1, <3>3
    <3> QED  BY <3>4 DEF r
  <2> QED  BY <2>1, <2>2
<1>17. Flips /\ (short' = "none" \/ fill.writeoff) => fill.writeoff \/ q = -book.qty
  <2> SUFFICES ASSUME Flips, short' = "none" PROVE q = -book.qty
    OBVIOUS
  <2>1. ~ReadsShort
    BY <1>2 DEF Noted, BooksInv, ShareTypes
  <2>2. s >= Owned
    BY <2>1, <1>4, <1>5 DEF ReadsShort
  <2>3. n = ReduceLots
    BY <1>1 DEF Fills
  <2>4. n = Owned
    BY <1>4, <1>5, <1>8, <2>2, <2>3 DEF Least
  <2> QED  BY <1>4, <1>5, <1>6, <1>10, <2>4 DEF Away, Between, Abs
<1>18. short' \in {"none", "fresh", "old"}
  BY <1>2 DEF Noted, BooksInv, ShareTypes
<1>19. BooksInv'
  <2> HIDE DEF q
  <2> QED  BY <1>2, <1>3, <1>7, <1>11, <1>12, <1>13, <1>14, <1>16, <1>17, <1>18, ClosedKeeps
<1>20. Leaving
  BY <1>2, <1>4, <1>7, <1>11 DEF Leaving, Between, Opposite, Abs
<1> QED  BY <1>19, <1>20

-----------------------------------------------------------------------------
(* The steps of a round that move nothing, and those that only write the book.    *)

LEMMA RoundPasses ==
  ASSUME BooksInv, round.pc \notin {"closed", "entered"},
         round' \in Rounds, round'.pc \in {"idle", "close", "entry", "end"}, round'.fill = NoFill,
         short' \in {"none", "fresh", "old"}, target' \in Int,
         round'.pc \in {"close", "entry"} => Between(book.qty, round'.had),
         round'.pc = "close" => round'.had # 0,
         round'.pc = "entry" =>
           Opposite(round'.had, round'.want) \/ round'.had = 0 \/ Between(round'.had, round'.want),
         Opposite(round'.had, round'.want) /\ round'.pc = "entry" /\ short' = "none" => book.qty = 0,
         UNCHANGED <<user, own, byHand, book, halt, close, lock>>
  PROVE  BooksInv'
<1>1. ShareTypes'
  BY DEF BooksInv, ShareTypes
<1>2. round.fill = NoFill
  BY DEF BooksInv, RoundInv
<1>3. ShareInv'
  <2>1. InFlight' = InFlight
    BY <1>2 DEF InFlight
  <2>2. Due' = Due
    BY <2>1 DEF Due, Booked, Replay
  <2> QED  BY <2>2 DEF BooksInv, ShareInv
<1>4. LockInv'
  BY <1>2 DEF BooksInv, LockInv, Closing
<1>5. RoundInv'
  BY <1>2 DEF RoundInv
<1>6. FlipInv'
  BY DEF FlipInv
<1>7. CloseInv'
  BY DEF BooksInv, CloseInv, Covers, Restores, RestoreLots, Claims, CloseLots, Side, Account
<1> QED  BY <1>1, <1>3, <1>4, <1>5, <1>6, <1>7 DEF BooksInv

LEMMA AfterCloseIs ==
  ASSUME BooksInv, round.pc \in {"close", "closed"}
  PROVE  /\ Flips <=> Opposite(round.had, round.want)
         /\ AfterClose = (IF Opposite(round.had, round.want) THEN "entry" ELSE "end")
<1>1. round.had \in Int /\ round.want \in Int
  BY LotTypes DEF BooksInv
<1> QED  BY <1>1, Signs DEF Flips, AfterClose

LEMMA RoundStartKeeps ==
  ASSUME BooksInv, RoundStart
  PROVE  BooksInv'
<1> DEFINE closes == book.qty # 0 /\ (target * book.qty <= 0 \/ Abs(target) < Abs(book.qty))
<1>1. /\ round.pc = "idle" /\ target # book.qty /\ short' = Aged
      /\ round' = [pc |-> IF closes THEN "close" ELSE "entry", had |-> book.qty,
                   want |-> target, halted |-> halt, fill |-> NoFill]
      /\ UNCHANGED <<user, own, byHand, book, target, halt, marked, close, lock, moves>>
  BY DEF RoundStart, venue
<1>2. book.qty \in Int /\ target \in Int /\ short \in {"none", "fresh", "old"} /\ NoFill \in FillSet
  BY LotTypes, RestTypes DEF BooksInv, ShareTypes
<1>3. ~closes => book.qty = 0 \/ Between(book.qty, target)
  <2>1. target * book.qty <= 0 <=> Opposite(target, book.qty) \/ target = 0 \/ book.qty = 0
    BY <1>2, Signs
  <2> QED  BY <1>2, <2>1 DEF Between, Opposite, Abs
<1>4. closes => book.qty # 0
  OBVIOUS
<1> HIDE DEF closes
<1>5. /\ round'.pc = (IF closes THEN "close" ELSE "entry") /\ round'.fill = NoFill
      /\ round'.had = book.qty /\ round'.want = target
  BY <1>1
<1>6. short' \in {"none", "fresh", "old"}
  BY <1>1, <1>2 DEF Aged
<1>7. Between(book.qty, book.qty) /\ ~Opposite(book.qty, book.qty)
  BY <1>2 DEF Between, Opposite
<1>8. Opposite(book.qty, target) => closes \/ book.qty = 0
  BY <1>2, <1>3 DEF Between, Opposite
<1>9. Opposite(book.qty, target) => book.qty # 0
  BY <1>2 DEF Opposite
<1>10. round' \in Rounds
  BY <1>1, <1>2 DEF Rounds, BooksInv, ShareTypes
<1> QED  BY <1>1, <1>2, <1>3, <1>4, <1>5, <1>6, <1>7, <1>8, <1>9, <1>10, RoundPasses

LEMMA RoundGoesOn ==
  ASSUME BooksInv, round.pc \in {"close", "entry", "end"},
         round' \in Rounds, round'.pc \in {"idle", "entry", "end"}, round'.fill = NoFill,
         round'.pc = "entry" =>
           /\ round.pc = "close" /\ round'.had = round.had /\ round'.want = round.want
           /\ Opposite(round.had, round.want) /\ short' # "none",
         short' \in {"none", "fresh", "old"},
         UNCHANGED <<user, own, byHand, book, target, halt, close, lock>>
  PROVE  BooksInv'
<1>1. target \in Int /\ (round.pc = "close" => Between(book.qty, round.had))
  BY DEF BooksInv, ShareTypes, RoundInv
<1> QED  BY <1>1, RoundPasses

LEMMA RoundShape ==
  ASSUME BooksInv, round.pc \notin {"closed", "entered"},
         NEW p \in {"idle", "close", "entry", "end"}, round' = [round EXCEPT !.pc = p]
  PROVE  /\ round' \in Rounds /\ round'.pc = p /\ round'.fill = NoFill
         /\ round'.had = round.had /\ round'.want = round.want
BY DEF BooksInv, ShareTypes, Rounds, RoundInv

LEMMA QuietStepsKeep ==
  ASSUME BooksInv, NettedWaits \/ ReduceFails \/ EntryDenied \/ EntryFails \/ RoundEnds
  PROVE  BooksInv' /\ UNCHANGED <<user, own, halt>>
<1>1. short \in {"none", "fresh", "old"}
  BY DEF BooksInv, ShareTypes
<1>2. CASE NettedWaits
  <2>1. short' \in {"fresh", "old"} /\ round.pc = "close"
    BY <1>1, <1>2 DEF NettedWaits, Noted
  <2>2. AfterClose \in {"entry", "end"} /\ (AfterClose = "entry" => Opposite(round.had, round.want))
    BY <2>1, AfterCloseIs
  <2>3. BooksInv'
    <3>1. round' = [round EXCEPT !.pc = AfterClose] /\ UNCHANGED <<user, own, byHand, book, target, halt, close, lock>>
      BY <1>2 DEF NettedWaits, venue
    <3>2. /\ round' \in Rounds /\ round'.pc = AfterClose /\ round'.fill = NoFill
          /\ round'.had = round.had /\ round'.want = round.want
      BY <2>1, <2>2, <3>1, RoundShape
    <3> QED  BY <2>1, <2>2, <3>1, <3>2, RoundGoesOn
  <2> QED  BY <1>2, <2>3 DEF NettedWaits, venue
<1>3. CASE ReduceFails
  <2>1. short' \in {"none", "fresh", "old"}
    BY <1>1, <1>3 DEF ReduceFails, Noted
  <2>2. BooksInv'
    <3>1. /\ round' = [round EXCEPT !.pc = "end" ] /\ round.pc \in {"close", "entry"}
          /\ UNCHANGED <<user, own, byHand, book, target, halt, close, lock>>
      BY <1>3 DEF ReduceFails, venue
    <3>2. short' \in {"none", "fresh", "old"}
      BY <2>1, <1>3 DEF ReduceFails
    <3>3. round' \in Rounds /\ round'.pc = "end" /\ round'.fill = NoFill
      BY <3>1, RoundShape
    <3> QED  BY <3>1, <3>2, <3>3, RoundGoesOn
  <2> QED  BY <1>3, <2>2 DEF ReduceFails, venue
<1>4. CASE EntryDenied
  <2>1. BooksInv'
    <3>1. /\ round' = [round EXCEPT !.pc = "end" ] /\ round.pc \in {"close", "entry"}
          /\ UNCHANGED <<user, own, byHand, book, target, halt, close, lock>>
      BY <1>4 DEF EntryDenied, venue
    <3>2. short' \in {"none", "fresh", "old"}
      BY <1>1, <1>4 DEF EntryDenied
    <3>3. round' \in Rounds /\ round'.pc = "end" /\ round'.fill = NoFill
      BY <3>1, RoundShape
    <3> QED  BY <3>1, <3>2, <3>3, RoundGoesOn
  <2> QED  BY <1>4, <2>1 DEF EntryDenied, venue
<1>5. CASE EntryFails
  <2>1. BooksInv'
    <3>1. /\ round' = [round EXCEPT !.pc = "end" ] /\ round.pc \in {"close", "entry"}
          /\ UNCHANGED <<user, own, byHand, book, target, halt, close, lock>>
      BY <1>5 DEF EntryFails, venue
    <3>2. short' \in {"none", "fresh", "old"}
      BY <1>1, <1>5 DEF EntryFails
    <3>3. round' \in Rounds /\ round'.pc = "end" /\ round'.fill = NoFill
      BY <3>1, RoundShape
    <3> QED  BY <3>1, <3>2, <3>3, RoundGoesOn
  <2> QED  BY <1>5, <2>1 DEF EntryFails, venue
<1>6. CASE RoundEnds
  <2>1. BooksInv'
    BY <1>1, <1>6, RestTypes, RoundGoesOn DEF RoundEnds, venue
  <2> QED  BY <1>6, <2>1 DEF RoundEnds, venue
<1> QED  BY <1>2, <1>3, <1>4, <1>5, <1>6

(* Nothing to close: written off only when the share is nothing.                  *)
LEMMA ReduceNothingKeeps ==
  ASSUME ShareFaults = {}, BooksInv, ReduceNothing
  PROVE  BooksInv' /\ UNCHANGED <<user, own, halt>>
<1>1. /\ round.pc = "close" /\ MayClose /\ ~Netted /\ ReduceLots = 0
      /\ book' = (IF Forgets(0) THEN NoBook ELSE book)
      /\ short' = (IF Forgets(0) THEN "none" ELSE Noted(ReadsShort))
      /\ round' = [round EXCEPT !.pc = AfterClose]
      /\ UNCHANGED <<user, own, byHand, target, halt, close, lock, moves>>
  BY DEF ReduceNothing, shares
<1>2. /\ \A f \in Flatteners : ~Closing(f)
      /\ Due = book /\ Share(user, own, book.qty, book.netted, byHand) /\ round.fill = NoFill
  BY <1>1, CloseMayGo
<1>3. /\ user \in Int /\ own \in Int /\ book.qty \in Int /\ book.netted \in Nat /\ round.had \in Int
      /\ book.netted <= Abs(book.qty) /\ book \in Books /\ ReduceLots \in Int /\ round \in Rounds
      /\ Owned \in Nat /\ short \in {"none", "fresh", "old"} /\ target \in Int /\ halt \in BOOLEAN
      /\ lock \in Flatteners \cup {NoFlattener} /\ close \in [Flatteners -> Closes]
  BY LotTypes DEF BooksInv, ShareTypes
<1>4. Between(book.qty, round.had) /\ round.had # 0
  BY <1>1 DEF BooksInv, RoundInv
<1> DEFINE s == Shown(round.had, user + own)
<1>5. /\ Held(Sgn(round.had)) = s /\ s \in Nat /\ Owned = Abs(book.qty) /\ (Flips => Whole)
      /\ Held(-Sgn(round.had)) = Against(round.had, user + own)
  BY <1>1, <1>3, CloseSide, LotTypes DEF BooksInv
<1> HIDE DEF s
<1>6. Whole => (Unread /\ Owned = 0) \/ (~Unread /\ Least(Owned, s) = 0)
  <2>1. Whole => Least(Owned, Cap) = 0
    BY <1>1 DEF ReduceLots
  <2>2. Cap = (IF Unread THEN Owned ELSE Least(Owned, s))
    BY <1>5 DEF Cap
  <2> QED  BY <1>3, <1>5, <2>1, <2>2 DEF Least
<1>7. Forgets(0) => own = 0
  <2> SUFFICES ASSUME Forgets(0), own # 0 PROVE FALSE
    OBVIOUS
  <2>1. Whole /\ 0 < Owned /\ ReadsShort
    BY DEF Forgets, Confirmed
  <2>2. s = 0 /\ s < Owned
    BY <1>3, <1>5, <1>6, <2>1 DEF Least
  <2>3. book.qty # 0
    BY <1>3, <1>5, <2>1 DEF Abs
  <2>4. book.netted > 0 /\ Against(round.had, user + own) > 0
    BY <1>2, <1>3, <1>4, <1>5, <2>2, <2>3, NothingNumbers DEF s
  <2>5. Netted
    BY <1>5, <2>1, <2>2, <2>4 DEF Netted
  <2> QED  BY <1>1, <2>5
<1>8. Flips /\ short' = "none" => book'.qty = 0
  <2> SUFFICES ASSUME Flips, short' = "none", ~Forgets(0) PROVE book.qty = 0
    BY <1>1, RestTypes
  <2>1. ~ReadsShort
    BY <1>1, <1>3 DEF Noted
  <2>2. Owned = 0
    BY <1>3, <1>5, <1>6, <2>1 DEF ReadsShort, Least
  <2> QED  BY <1>3, <1>5, <2>2 DEF Abs
<1>9. /\ book' \in Books /\ book'.netted <= Abs(book'.qty)
      /\ Share(user, own, book'.qty, book'.netted, byHand)
      /\ Between(book'.qty, round.had)
  <2>1. CASE Forgets(0)
    <3>1. book' = NoBook /\ own = 0
      BY <1>1, <1>7, <2>1
    <3>2. book'.qty = 0 /\ book'.netted = 0 /\ book' \in Books
      BY <3>1, RestTypes
    <3> QED  BY <1>3, <3>1, <3>2 DEF Share, Roomy, Matches, Opposite, Between, Abs
  <2>2. CASE ~Forgets(0)
    BY <1>1, <1>2, <1>3, <1>4, <2>2
  <2> QED  BY <2>1, <2>2
<1>10. AfterClose \in {"entry", "end"} /\ (AfterClose = "entry" => Opposite(round.had, round.want))
       /\ (Flips <=> Opposite(round.had, round.want))
  BY <1>1, AfterCloseIs
<1>11. /\ round' \in Rounds /\ round'.pc = AfterClose /\ round'.fill = NoFill
       /\ round'.had = round.had /\ round'.want = round.want
  BY <1>1, <1>2, <1>3, <1>10 DEF Rounds
<1>12. short' \in {"none", "fresh", "old"}
  BY <1>1, <1>3 DEF Noted
<1>13. ShareTypes'
  BY <1>1, <1>3, <1>9, <1>11, <1>12 DEF ShareTypes
<1>14. ShareInv'
  <2>1. InFlight = NoFill
    BY <1>1, <1>2, QuietBook DEF Closing
  <2>2. InFlight' = NoFill
    BY <1>1, <1>2, <1>11, <2>1 DEF InFlight
  <2>3. Due' = book'
    BY <1>9, <2>2, BookedNothing DEF Due
  <2> QED  BY <1>1, <1>9, <2>3 DEF ShareInv
<1>15. LockInv'
  BY <1>1, <1>2, <1>10, <1>11 DEF BooksInv, LockInv, Closing
<1>16. RoundInv'
  BY <1>9, <1>10, <1>11 DEF RoundInv
<1>17. FlipInv'
  BY <1>8, <1>10, <1>11 DEF FlipInv
<1>18. CloseInv'
  BY <1>1, <1>2 DEF BooksInv, CloseInv, Closing
<1> QED  BY <1>1, <1>13, <1>14, <1>15, <1>16, <1>17, <1>18 DEF BooksInv

(* The round's fill is logged: the book is what it was about to be.               *)
LEMMA LoggedKeeps ==
  ASSUME BooksInv, round.pc \in {"closed", "entered"},
         book' = Due, book' \in Books, book'.netted <= Abs(book'.qty),
         round' \in Rounds, round'.fill = NoFill, round'.pc \in {"entry", "end"},
         round'.had = round.had, round'.want = round.want,
         round'.pc = "entry" =>
           /\ Opposite(round.had, round.want) /\ Between(book'.qty, round.had)
           /\ short' = "none" => book'.qty = 0,
         short' \in {"none", "fresh", "old"},
         UNCHANGED <<user, own, byHand, target, halt, close, lock>>
  PROVE  BooksInv'
<1>1. InFlight = round.fill /\ round.fill # NoFill /\ \A f \in Flatteners : ~Closing(f)
  BY RoundBook
<1>2. ShareTypes'
  BY DEF BooksInv, ShareTypes
<1>3. ShareInv'
  <2>1. \A f \in Flatteners : close[f].fill = NoFill
    BY <1>1 DEF BooksInv, LockInv, Closing
  <2>2. InFlight' = NoFill
    BY <2>1 DEF InFlight
  <2>3. Due' = book'
    BY <2>2, BookedNothing DEF Due
  <2> QED  BY <2>3 DEF BooksInv, ShareInv
<1>4. LockInv'
  BY <1>1 DEF BooksInv, LockInv, Closing
<1>5. RoundInv'
  BY DEF RoundInv
<1>6. FlipInv'
  BY DEF FlipInv
<1>7. CloseInv'
  BY <1>1 DEF BooksInv, CloseInv, Closing
<1> QED  BY <1>2, <1>3, <1>4, <1>5, <1>6, <1>7 DEF BooksInv

LEMMA CloseLoggedKeeps ==
  ASSUME BooksInv, CloseLogged
  PROVE  BooksInv' /\ UNCHANGED <<user, own, halt>>
<1>1. /\ round.pc = "closed"
      /\ book' = (IF round.fill.writeoff THEN NoBook ELSE Replay(book, round.fill.qty, 0, round.fill.back))
      /\ short' = (IF round.fill.writeoff THEN "none" ELSE short)
      /\ round' = [round EXCEPT !.pc = AfterClose, !.fill = NoFill]
      /\ UNCHANGED <<user, own, byHand, target, halt, marked, close, lock, moves>>
  BY DEF CloseLogged, shares
<1>2. /\ book \in Books /\ book.netted <= Abs(book.qty) /\ round \in Rounds /\ round.fill \in FillSet
      /\ short \in {"none", "fresh", "old"} /\ round.had \in Int /\ book.qty \in Int
  BY LotTypes DEF BooksInv, ShareTypes, Rounds
<1>3. /\ round.fill.room = 0 /\ Between(book.qty + round.fill.qty, book.qty)
      /\ Between(book.qty, round.had)
  BY <1>1 DEF BooksInv, RoundInv
<1>4. book' = Booked(book, round.fill) /\ book' = Due
  <2>1. InFlight = round.fill
    BY <1>1, RoundBook
  <2> QED  BY <1>1, <1>3, <2>1 DEF Booked, Due
<1>5. book' \in Books /\ book'.netted <= Abs(book'.qty) /\ Between(book'.qty, round.had)
  <2>1. CASE round.fill.writeoff
    <3>1. book'.qty = 0 /\ book'.netted = 0 /\ book' \in Books
      BY <1>1, <2>1, RestTypes
    <3> QED  BY <1>2, <3>1 DEF Between, Abs
  <2>2. CASE ~round.fill.writeoff
    <3>1. book' \in Books /\ book'.netted <= Abs(book'.qty) /\ book'.qty = book.qty + round.fill.qty
      BY <1>2, <1>3, <1>4, <2>2, BookedIn
    <3>2. round.fill.qty \in Int
      BY <1>2 DEF FillSet
    <3> QED  BY <1>2, <1>3, <3>1, <3>2 DEF Between
  <2> QED  BY <2>1, <2>2
<1>6. /\ Flips <=> Opposite(round.had, round.want)
      /\ AfterClose \in {"entry", "end"} /\ (AfterClose = "entry" => Opposite(round.had, round.want))
  BY <1>1, AfterCloseIs
<1>7. /\ round' \in Rounds /\ round'.fill = NoFill /\ round'.pc = AfterClose
      /\ round'.had = round.had /\ round'.want = round.want
  BY <1>1, <1>2, <1>6, RestTypes DEF Rounds
<1>8. short' = "none" => short = "none" \/ round.fill.writeoff
  BY <1>1
<1>9. Opposite(round.had, round.want) /\ short' = "none" => book'.qty = 0
  BY <1>1, <1>4, <1>8 DEF BooksInv, FlipInv
<1>10. short' \in {"none", "fresh", "old"}
  BY <1>1, <1>2
<1>11. BooksInv'
  BY <1>1, <1>4, <1>5, <1>6, <1>7, <1>9, <1>10, LoggedKeeps
<1> QED  BY <1>1, <1>11

LEMMA EntryLoggedKeeps ==
  ASSUME BooksInv, EntryLogged
  PROVE  BooksInv' /\ UNCHANGED <<user, own, halt>>
<1>1. /\ round.pc = "entered"
      /\ book' = Replay(book, round.fill.qty, round.fill.room, FALSE)
      /\ round' = [round EXCEPT !.pc = "end", !.fill = NoFill]
      /\ UNCHANGED <<user, own, byHand, target, halt, short, marked, close, lock, moves>>
  BY DEF EntryLogged, shares
<1>2. /\ book \in Books /\ book.netted <= Abs(book.qty) /\ round \in Rounds /\ round.fill \in FillSet
      /\ short \in {"none", "fresh", "old"}
  BY DEF BooksInv, ShareTypes, Rounds
<1>3. ~round.fill.back /\ ~round.fill.writeoff /\ ~Opposite(book.qty, round.fill.qty)
  BY <1>1 DEF BooksInv, RoundInv
<1>4. book' = Booked(book, round.fill) /\ book' = Due
  <2>1. InFlight = round.fill
    BY <1>1, RoundBook
  <2>2. book.qty * round.fill.qty >= 0
    BY <1>2, <1>3, Signs DEF Books, FillSet
  <2>3. Replay(book, round.fill.qty, round.fill.room, FALSE)
          = Replay(book, round.fill.qty, round.fill.room, round.fill.back)
    BY <2>2 DEF Replay
  <2> QED  BY <1>1, <1>3, <2>1, <2>3 DEF Booked, Due
<1>5. book' \in Books /\ book'.netted <= Abs(book'.qty)
  BY <1>2, <1>3, <1>4, BookedOut
<1>6. /\ round' \in Rounds /\ round'.fill = NoFill /\ round'.pc = "end"
      /\ round'.had = round.had /\ round'.want = round.want
  BY <1>1, <1>2, RestTypes DEF Rounds
<1>7. BooksInv'
  BY <1>1, <1>2, <1>4, <1>5, <1>6, LoggedKeeps
<1> QED  BY <1>1, <1>7

(* An entry widens the share, and only while trading is not halted.               *)
Widening == own' # own /\ Between(own, own') /\ ~halt /\ halt' = halt /\ user' = user

LEMMA EntryFillsKeeps ==
  ASSUME ShareFaults = {}, BooksInv, EntryFills
  PROVE  BooksInv' /\ Widening
<1>1. PICK n \in 1 .. Abs(EntryLots) :
        /\ RestoredWhole(user, own + Sgn(EntryLots) * n)
        /\ own' = own + Sgn(EntryLots) * n
        /\ round' = [round EXCEPT !.pc = "entered",
                       !.fill = [NoFill EXCEPT !.qty = Sgn(EntryLots) * n,
                                               !.room = Held(-Sgn(Sgn(EntryLots) * n))]]
  BY DEF EntryFills
<1>2. /\ round.pc = "entry" /\ ~halt /\ ~(Flips /\ short # "none") /\ marked' = TRUE
      /\ UNCHANGED <<user, byHand, book, target, halt, short, close, lock, moves>>
  BY DEF EntryFills
<1>3. /\ user \in Int /\ own \in Int /\ book.qty \in Int /\ book.netted \in Nat /\ round.had \in Int
      /\ round.want \in Int /\ EntryLots \in Int
      /\ book.netted <= Abs(book.qty) /\ book \in Books /\ round \in Rounds
  BY LotTypes DEF BooksInv, ShareTypes
<1>4. \A f \in Flatteners : ~Closing(f) /\ close[f].pc # "log"
  BY <1>2 DEF BooksInv, LockInv, Closing
<1>5. Due = book /\ round.fill = NoFill /\ Share(user, own, book.qty, book.netted, byHand)
  <2>1. Due = book /\ round.fill = NoFill
    BY <1>2, <1>4, QuietBook
  <2> QED  BY <2>1 DEF BooksInv, ShareInv
<1>6. n \in Nat /\ 1 <= n /\ n <= Abs(EntryLots)
  BY <1>1, <1>3 DEF Abs
<1> DEFINE q == Sgn(EntryLots) * n
<1>7. q = (IF EntryLots > 0 THEN n ELSE -n) /\ EntryLots # 0 /\ q \in Int /\ q # 0
  BY <1>3, <1>6 DEF Sgn, Abs
<1> HIDE DEF q
<1>8. ~Opposite(book.qty, q)
  <2>1. Between(book.qty, round.had)
    BY <1>2 DEF BooksInv, RoundInv
  <2>2. Flips <=> Opposite(round.had, round.want)
    BY <1>3, Signs DEF Flips
  <2>3. CASE Opposite(round.had, round.want)
    <3>1. book.qty = 0
      BY <1>2, <2>2, <2>3 DEF BooksInv, FlipInv
    <3> QED  BY <3>1 DEF Opposite
  <2>4. CASE ~Opposite(round.had, round.want)
    <3>1. EntryLots = round.want - round.had
      BY <2>2, <2>4 DEF EntryLots
    <3>2. round.had = 0 \/ Between(round.had, round.want)
      BY <1>2, <2>4 DEF BooksInv, RoundInv
    <3> QED  BY <1>3, <1>6, <1>7, <2>1, <3>1, <3>2 DEF Between, Opposite
  <2> QED  BY <2>3, <2>4
<1> DEFINE room == Held(-Sgn(q))
<1>9. room = (IF Opposite(q, user + own) THEN Abs(user + own) ELSE 0) /\ room \in Nat
  <2>1. room = (IF Opposite(q, user + own) THEN Abs(user + own) ELSE 0)
    BY <1>3, <1>7, HeldIs DEF Account
  <2> HIDE DEF room
  <2> QED  BY <1>3, <2>1 DEF Abs
<1> HIDE DEF room
<1>10. Roomy(user, own + q) /\ own' = own + q
  <2>1. user * (own + q) >= 0 \/ Abs(user) >= 2 * Abs(own + q)
    BY <1>1 DEF RestoredWhole, q
  <2>2. own + q \in Int
    BY <1>3, <1>7
  <2>3. user * (own + q) >= 0 <=> ~Opposite(user, own + q)
    BY <1>3, <2>2, Signs
  <2> QED  BY <1>1, <2>1, <2>3 DEF Roomy, q
<1> DEFINE fill == [NoFill EXCEPT !.qty = q, !.room = room]
<1>11. fill \in FillSet /\ fill.qty = q /\ fill.room = room /\ ~fill.back /\ ~fill.writeoff
  BY <1>7, <1>9, EntryTypes
<1>12. /\ round' \in Rounds /\ round'.pc = "entered" /\ round'.fill = fill
       /\ round'.had = round.had /\ round'.want = round.want
  <2>1. round' = [round EXCEPT !.pc = "entered", !.fill = fill]
    BY <1>1 DEF q, room
  <2> HIDE DEF fill
  <2> QED  BY <1>3, <1>11, <2>1 DEF Rounds
<1> HIDE DEF fill
<1> DEFINE r == Booked(book, fill)
<1>13. /\ r \in Books /\ r.qty = book.qty + q /\ r.netted = book.netted + Least(Abs(q), room)
       /\ r.netted \in Nat
  <2>1. r \in Books /\ r.qty = book.qty + q /\ r.netted = book.netted + Least(Abs(q), room)
    BY <1>3, <1>8, <1>11, BookedOut
  <2> QED  BY <2>1 DEF Books
<1> HIDE DEF r
<1>14. Share(user, own + q, book.qty + q, r.netted, byHand) /\ ~Opposite(own, q)
  BY <1>3, <1>5, <1>7, <1>8, <1>9, <1>10, <1>13, LotsEnter
<1>15. ShareTypes'
  BY <1>2, <1>3, <1>7, <1>10, <1>12 DEF BooksInv, ShareTypes
<1>16. ShareInv'
  <2>1. fill # NoFill
    BY <1>7, <1>11, RestTypes
  <2>2. Due' = r
    BY <1>2, <1>12, <2>1 DEF Due, InFlight, Booked, Replay, r
  <2> QED  BY <1>2, <1>10, <1>13, <1>14, <2>2 DEF ShareInv
<1>17. LockInv'
  BY <1>2, <1>4 DEF BooksInv, LockInv, Closing
<1>18. RoundInv'
  BY <1>2, <1>7, <1>8, <1>11, <1>12 DEF BooksInv, RoundInv
<1>19. FlipInv'
  BY <1>12 DEF FlipInv
<1>20. CloseInv'
  BY <1>2, <1>4 DEF BooksInv, CloseInv, Closing
<1>21. Widening
  BY <1>2, <1>3, <1>7, <1>10, <1>14 DEF Widening, Between, Opposite
<1> QED  BY <1>15, <1>16, <1>17, <1>18, <1>19, <1>20, <1>21 DEF BooksInv

-----------------------------------------------------------------------------
(* The steps of a close-all that move nothing.                                    *)

LEMMA ClosePasses ==
  ASSUME BooksInv, NEW f \in Flatteners, close[f].pc # "log",
         close' \in [Flatteners -> Closes], \A g \in Flatteners \ {f} : close'[g] = close[g],
         close'[f].fill = NoFill, close'[f].pc # "log",
         \/ lock' = lock
         \/ lock = NoFlattener /\ lock' = f
         \/ lock = f /\ lock' = NoFlattener,
         halt' \in BOOLEAN, halt => halt',
         close'[f].pc \notin {"off", "start"} => lock' = f /\ halt',
         close'[f].pc \notin {"off", "start", "wait"} =>
           round.fill = NoFill /\ round.pc \notin {"closed", "entered"},
         close'[f].pc \in {"positions", "restore"} => close'[f].book = book,
         close'[f].pc = "restore" => Abs(own) <= Covers(f)',
         close'[f].pc = "restore" /\ Restores(f)' =>
           RestoreLots(f)' = Abs(own) /\ close'[f].shows = Account,
         close'[f].pc = "zero" /\ ~close'[f].open => own = 0,
         UNCHANGED <<user, own, byHand, book, target, short, round, marked>>
  PROVE  BooksInv'
<1>1. ShareTypes'
  BY DEF BooksInv, ShareTypes
<1>2. close[f].fill = NoFill
  BY DEF BooksInv, LockInv
<1>3. ShareInv'
  <2>1. InFlight' = InFlight
    BY <1>2, ShareAssumption DEF InFlight
  <2>2. Due' = Due
    BY <2>1 DEF Due, Booked, Replay
  <2> QED  BY <2>2 DEF BooksInv, ShareInv
<1>4. LockInv'
  <2> SUFFICES ASSUME NEW g \in Flatteners
               PROVE  /\ close'[g].pc \notin {"off", "start"} => lock' = g /\ halt'
                      /\ Closing(g)' => round.fill = NoFill /\ round.pc \notin {"closed", "entered"}
                      /\ close'[g].pc # "log" => close'[g].fill = NoFill
                      /\ close'[g].pc = "log" => close'[g].fill.room = 0 /\ ~close'[g].fill.writeoff
                      /\ close'[g].pc = "log" => Between(book.qty + close'[g].fill.qty, book.qty)
    BY DEF LockInv
  <2>1. CASE g = f
    BY <2>1 DEF Closing
  <2>2. CASE g # f
    <3>1. close'[g] = close[g]
      BY <2>2
    <3>2. close[g].pc \notin {"off", "start"} => lock = g /\ halt
      BY DEF BooksInv, LockInv
    <3>3. close[g].pc \notin {"off", "start"} => lock' = g /\ halt'
      BY <2>2, <3>2, ShareAssumption
    <3> QED  BY <3>1, <3>3 DEF BooksInv, LockInv, Closing
  <2> QED  BY <2>1, <2>2
<1>5. RoundInv'
  BY DEF BooksInv, RoundInv
<1>6. FlipInv'
  <2>1. Booked(book, round.fill)' = Booked(book, round.fill)
    BY DEF Booked, Replay
  <2> QED  BY <2>1 DEF BooksInv, FlipInv
<1>7. CloseInv'
  <2> SUFFICES ASSUME NEW g \in Flatteners
               PROVE  /\ close'[g].pc \in {"positions", "restore"} => close'[g].book = book
                      /\ close'[g].pc = "restore" => Abs(own) <= Covers(g)'
                      /\ close'[g].pc = "restore" /\ Restores(g)' =>
                           RestoreLots(g)' = Abs(own) /\ close'[g].shows = Account
                      /\ close'[g].pc \in {"log", "zero"} /\ ~close'[g].open => own = 0
    BY DEF CloseInv, Account
  <2>1. CASE g = f
    BY <2>1
  <2>2. CASE g # f
    <3>1. close'[g] = close[g]
      BY <2>2
    <3>2. /\ Covers(g)' = Covers(g) /\ RestoreLots(g)' = RestoreLots(g)
          /\ Restores(g)' <=> Restores(g)
      BY <3>1 DEF Covers, Restores, RestoreLots, Claims, CloseLots, Side
    <3> QED  BY <3>1, <3>2 DEF BooksInv, CloseInv
  <2> QED  BY <2>1, <2>2
<1> QED  BY <1>1, <1>3, <1>4, <1>5, <1>6, <1>7 DEF BooksInv

LEMMA CoverNumbers ==
  ASSUME NEW u \in Int, NEW o \in Int, NEW c \in Int, NEW m \in Nat, NEW h, Share(u, o, c, m, h),
         m <= Abs(c)
  PROVE  /\ m > 0 /\ Opposite(c, u + o) => Least(Least(m, Abs(c)), Abs(u + o)) = Abs(o)
         /\ Shown(c, u + o) > 0 => Abs(o) <= Least(Abs(u + o), Abs(c))
         /\ ~(m > 0 /\ Opposite(c, u + o)) /\ ~(Shown(c, u + o) > 0) => o = 0
<1>1. CASE Matches(u, o, c, m)
  BY <1>1 DEF Share, Roomy, Matches, Opposite, Abs, Shown, Least
<1>2. CASE Behind(u, o, c, m)
  BY <1>2 DEF Share, Roomy, Behind, Between, Opposite, Abs, Shown, Least
<1> QED  BY <1>1, <1>2 DEF Share

(* The signs a close-all decides by.                                             *)
LEMMA SignsDecide ==
  ASSUME NEW c \in Int, NEW a \in Int
  PROVE  /\ Sgn(c) * a < 0 <=> Opposite(c, a)
         /\ Sgn(c) # 0 /\ Sgn(c) * a > 0 <=> Shown(c, a) > 0
<1> DEFINE p == Sgn(c) * a
<1>1. /\ c > 0 => p = a /\ Sgn(c) = 1
      /\ c < 0 => p = -a /\ Sgn(c) = -1
      /\ c = 0 => p = 0 /\ Sgn(c) = 0
  BY SgnTimes
<1> HIDE DEF p
<1>2. (p < 0 <=> Opposite(c, a)) /\ (Sgn(c) # 0 /\ p > 0 <=> Shown(c, a) > 0)
  BY <1>1 DEF Opposite, Shown, Abs
<1> QED  BY <1>2 DEF p

LEMMA CloseSigns ==
  ASSUME NEW f \in Flatteners, close \in [Flatteners -> Closes]
  PROVE  /\ Restores(f) <=> close[f].book.netted > 0 /\ Opposite(close[f].book.qty, close[f].shows)
         /\ Claims(f) <=> Shown(close[f].book.qty, close[f].shows) > 0
         /\ close[f].book.qty \in Int /\ close[f].book.netted \in Nat /\ close[f].shows \in Int
         /\ RestoreLots(f) \in Int /\ CloseLots(f) \in Nat
<1>1. close[f].book.qty \in Int /\ close[f].book.netted \in Nat /\ close[f].shows \in Int
  BY DEF Closes, Books
<1>2. RestoreLots(f) \in Int /\ CloseLots(f) \in Nat
  BY <1>1 DEF RestoreLots, CloseLots, Least, Abs
<1> QED  BY <1>1, <1>2, SignsDecide DEF Restores, Claims, Side

LEMMA ReadPositionsKeeps ==
  ASSUME BooksInv, NEW f \in Flatteners, ReadPositions(f)
  PROVE  BooksInv' /\ UNCHANGED <<user, own, halt>>
<1>1. /\ close[f].pc = "positions"
      /\ close' = [close EXCEPT ![f].pc = "restore", ![f].shows = Account]
      /\ UNCHANGED <<user, own, byHand, book, target, short, round, marked, halt, lock, moves>>
  BY DEF ReadPositions, venue, Reconciler
<1>2. /\ close \in [Flatteners -> Closes] /\ user \in Int /\ own \in Int /\ halt \in BOOLEAN
      /\ book.qty \in Int /\ book.netted \in Nat /\ book.netted <= Abs(book.qty) /\ Account \in Int
  BY LotTypes DEF BooksInv, ShareTypes
<1>3. /\ close' \in [Flatteners -> Closes] /\ close'[f].pc = "restore" /\ close'[f].shows = Account
      /\ close'[f].book = close[f].book /\ close'[f].fill = close[f].fill
      /\ \A g \in Flatteners \ {f} : close'[g] = close[g]
  BY <1>1, <1>2 DEF Closes
<1>4. close[f].book = book
  BY <1>1 DEF BooksInv, CloseInv
<1>5. /\ Due = book /\ lock = f /\ halt /\ round.fill = NoFill /\ round.pc \notin {"closed", "entered"}
  BY <1>1, CloseBook DEF Closing
<1>6. Share(user, own, book.qty, book.netted, byHand)
  BY <1>5 DEF BooksInv, ShareInv
<1>7. /\ Restores(f)' <=> book.netted > 0 /\ Opposite(book.qty, user + own)
      /\ Claims(f)' <=> Shown(book.qty, user + own) > 0
  <2>1. /\ Restores(f)' <=> book.netted > 0 /\ Sgn(book.qty) * (user + own) < 0
        /\ Claims(f)' <=> Sgn(book.qty) # 0 /\ Sgn(book.qty) * (user + own) > 0
    BY <1>1, <1>3, <1>4 DEF Restores, Claims, Side, Account
  <2> QED  BY <1>2, <2>1, SignsDecide
<1>8. Abs(own) <= Covers(f)' /\ (Restores(f)' => RestoreLots(f)' = Abs(own))
  <2>1. RestoreLots(f)' = Least(Least(book.netted, Abs(book.qty)), Abs(user + own))
    BY <1>1, <1>3, <1>4 DEF RestoreLots, Account
  <2>2. CloseLots(f)' = Least(Abs(user + own), Abs(book.qty))
    BY <1>1, <1>3, <1>4 DEF CloseLots, Account
  <2>3. Covers(f)' = IF Restores(f)' THEN RestoreLots(f)' ELSE IF Claims(f)' THEN CloseLots(f)' ELSE 0
    BY DEF Covers
  <2>4. Abs(own) \in Nat /\ (own = 0 => Abs(own) = 0)
    BY <1>2 DEF Abs
  <2> QED  BY <1>2, <1>6, <1>7, <2>1, <2>2, <2>3, <2>4, CoverNumbers
<1>9. close[f].fill = NoFill
  BY <1>1 DEF BooksInv, LockInv
<1> QED  BY <1>1, <1>2, <1>3, <1>4, <1>5, <1>8, <1>9, ClosePasses

LEMMA BeginsKeep ==
  ASSUME ShareFaults = {}, BooksInv, NEW f \in Flatteners,
         Launch(f) \/ TakeLock(f) \/ Refused(f) \/ Waited(f) \/ ReadBook(f) \/ PositionsFail(f)
  PROVE  BooksInv' /\ UNCHANGED <<user, own>> /\ (halt => halt')
<1>1. /\ close \in [Flatteners -> Closes] /\ halt \in BOOLEAN /\ book \in Books
      /\ Off \in Closes /\ Off.pc = "off" /\ Off.fill = NoFill
  BY RestTypes DEF BooksInv, ShareTypes
<1>2. close[f].pc # "log" => close[f].fill = NoFill
  BY DEF BooksInv, LockInv
<1>3. CASE Launch(f)
  <2>1. /\ close[f].pc = "off" /\ close' = [close EXCEPT ![f].pc = "start"] /\ lock' = lock
        /\ UNCHANGED <<user, own, byHand, book, target, short, round, marked>>
    BY <1>3 DEF Launch, venue, Reconciler
  <2>2. halt' \in BOOLEAN /\ (halt => halt')
    BY <1>1, <1>3 DEF Launch
  <2>3. /\ close' \in [Flatteners -> Closes] /\ close'[f].pc = "start" /\ close'[f].fill = NoFill
        /\ \A g \in Flatteners \ {f} : close'[g] = close[g]
    BY <1>1, <1>2, <2>1 DEF Closes
  <2>4. BooksInv'
    BY <2>1, <2>2, <2>3, ClosePasses
  <2> QED  BY <2>1, <2>2, <2>4
<1>4. CASE TakeLock(f)
  <2>1. /\ close[f].pc = "start" /\ lock = NoFlattener /\ lock' = f /\ halt' = TRUE
        /\ close' = [close EXCEPT ![f].pc = "wait"]
        /\ UNCHANGED <<user, own, byHand, book, target, short, round, marked>>
    BY <1>4 DEF TakeLock, venue, Reconciler
  <2>2. halt' \in BOOLEAN /\ halt'
    BY <2>1
  <2>3. /\ close' \in [Flatteners -> Closes] /\ close'[f].pc = "wait" /\ close'[f].fill = NoFill
        /\ \A g \in Flatteners \ {f} : close'[g] = close[g]
    BY <1>1, <1>2, <2>1 DEF Closes
  <2>4. BooksInv'
    BY <2>1, <2>2, <2>3, ClosePasses
  <2> QED  BY <2>1, <2>2, <2>4
<1>5. CASE Refused(f)
  <2>1. /\ close[f].pc = "start" /\ lock' = lock /\ halt' = halt /\ close' = [close EXCEPT ![f] = Off]
        /\ UNCHANGED <<user, own, byHand, book, target, short, round, marked>>
    BY <1>5 DEF Refused, venue, Reconciler
  <2>2. /\ close' \in [Flatteners -> Closes] /\ close'[f] = Off
        /\ \A g \in Flatteners \ {f} : close'[g] = close[g]
    BY <1>1, <2>1
  <2>3. BooksInv'
    BY <1>1, <2>1, <2>2, ClosePasses
  <2> QED  BY <2>1, <2>3
<1>6. CASE Waited(f)
  <2>1. /\ close[f].pc = "wait" /\ ~marked /\ lock' = lock /\ halt' = halt
        /\ close' = [close EXCEPT ![f].pc = "book"]
        /\ UNCHANGED <<user, own, byHand, book, target, short, round, marked>>
    BY <1>6 DEF Waited, venue, Reconciler
  <2>2. lock = f /\ halt /\ round.pc \notin {"closed", "entered"} /\ round.fill = NoFill
    BY <2>1 DEF BooksInv, LockInv, RoundInv
  <2>3. /\ close' \in [Flatteners -> Closes] /\ close'[f].pc = "book" /\ close'[f].fill = NoFill
        /\ \A g \in Flatteners \ {f} : close'[g] = close[g]
    BY <1>1, <1>2, <2>1 DEF Closes
  <2>4. BooksInv'
    BY <1>1, <2>1, <2>2, <2>3, ClosePasses
  <2> QED  BY <2>1, <2>4
<1>7. CASE ReadBook(f)
  <2>1. /\ close[f].pc = "book" /\ lock' = lock /\ halt' = halt
        /\ close' = [close EXCEPT ![f].pc = "positions", ![f].book = book]
        /\ UNCHANGED <<user, own, byHand, book, target, short, round, marked>>
    BY <1>7 DEF ReadBook, venue, Reconciler
  <2>2. lock = f /\ halt /\ round.pc \notin {"closed", "entered"} /\ round.fill = NoFill
    BY <2>1 DEF BooksInv, LockInv, Closing
  <2>3. /\ close' \in [Flatteners -> Closes] /\ close'[f].pc = "positions" /\ close'[f].fill = NoFill
        /\ close'[f].book = book
        /\ \A g \in Flatteners \ {f} : close'[g] = close[g]
    BY <1>1, <1>2, <2>1 DEF Closes
  <2>4. BooksInv'
    BY <1>1, <2>1, <2>2, <2>3, ClosePasses
  <2> QED  BY <2>1, <2>4
<1>8. CASE PositionsFail(f)
  <2>1. /\ close[f].pc = "positions" /\ lock' = NoFlattener /\ halt' = halt
        /\ close' = [close EXCEPT ![f] = Off]
        /\ UNCHANGED <<user, own, byHand, book, target, short, round, marked>>
    BY <1>8 DEF PositionsFail, venue, Reconciler
  <2>2. lock = f
    BY <2>1 DEF BooksInv, LockInv
  <2>3. /\ close' \in [Flatteners -> Closes] /\ close'[f] = Off
        /\ \A g \in Flatteners \ {f} : close'[g] = close[g]
    BY <1>1, <2>1
  <2>4. BooksInv'
    BY <1>1, <2>1, <2>2, <2>3, ClosePasses
  <2> QED  BY <2>1, <2>4
<1> QED  BY <1>3, <1>4, <1>5, <1>6, <1>7, <1>8

LEMMA NotClosedKeeps ==
  ASSUME ShareFaults = {}, BooksInv, NEW f \in Flatteners, CloseFails(f) \/ NothingToClose(f)
  PROVE  BooksInv' /\ UNCHANGED <<user, own, halt>>
<1>1. /\ close \in [Flatteners -> Closes] /\ halt \in BOOLEAN /\ own \in Int
  BY DEF BooksInv, ShareTypes
<1>2. /\ close[f].pc = "restore" /\ lock' = lock /\ halt' = halt
      /\ UNCHANGED <<user, own, byHand, book, target, short, round, marked>>
      /\ \/ close' = [close EXCEPT ![f].pc = "zero", ![f].open = TRUE]
         \/ close' = [close EXCEPT ![f].pc = "zero"] /\ ~Restores(f) /\ ~Claims(f)
  BY DEF CloseFails, NothingToClose, venue, Reconciler
<1>3. close[f].fill = NoFill /\ Abs(own) <= Covers(f)
  BY <1>2 DEF BooksInv, LockInv, CloseInv
<1>4. lock = f /\ halt /\ round.pc \notin {"closed", "entered"} /\ round.fill = NoFill
  BY <1>2 DEF BooksInv, LockInv, Closing
<1>5. /\ close' \in [Flatteners -> Closes] /\ close'[f].pc = "zero" /\ close'[f].fill = NoFill
      /\ ~close'[f].open => ~Restores(f) /\ ~Claims(f)
      /\ \A g \in Flatteners \ {f} : close'[g] = close[g]
  BY <1>1, <1>2, <1>3 DEF Closes
<1>6. ~close'[f].open => own = 0
  BY <1>1, <1>3, <1>5 DEF Covers, Abs
<1>7. BooksInv'
  BY <1>1, <1>2, <1>4, <1>5, <1>6, <1>3, ClosePasses
<1> QED  BY <1>2, <1>7

-----------------------------------------------------------------------------
(* The orders of a close-all, and what it writes into the book.                    *)

LEMMA FilledKeeps ==
  ASSUME BooksInv, NEW f \in Flatteners, close[f].pc = "restore",
         NEW q \in Int, Opposite(own, q), Abs(q) <= Abs(own), own' = own + q,
         close' \in [Flatteners -> Closes], \A g \in Flatteners \ {f} : close'[g] = close[g],
         close'[f].pc = "log", close'[f].fill.qty = q, close'[f].fill.room = 0,
         ~close'[f].fill.writeoff, Opposite(user, own) => close'[f].fill.back,
         ~close'[f].open => own' = 0,
         UNCHANGED <<user, byHand, book, target, short, round, marked, halt, lock>>
  PROVE  BooksInv' /\ Leaving
<1>1. lock = f /\ halt /\ round.pc \notin {"closed", "entered"} /\ round.fill = NoFill /\ Due = book
  BY CloseBook DEF Closing
<1>2. Share(user, own, book.qty, book.netted, byHand)
  BY <1>1 DEF BooksInv, ShareInv
<1>3. /\ user \in Int /\ own \in Int /\ book.qty \in Int /\ book.netted \in Nat
      /\ book.netted <= Abs(book.qty) /\ book \in Books /\ close'[f].fill \in FillSet
  BY LotTypes DEF BooksInv, ShareTypes, Closes
<1>4. Between(book.qty + q, book.qty) /\ q # 0
  BY <1>2, <1>3 DEF Share, Matches, Behind, Between, Opposite, Abs
<1> DEFINE r == Booked(book, close'[f].fill)
<1>5. /\ r \in Books /\ r.qty = book.qty + q
      /\ close'[f].fill.back =>
           r.netted = (IF book.netted > Abs(q) THEN book.netted - Abs(q) ELSE 0)
  BY <1>3, <1>4, BookedIn
<1>6. r.netted \in Nat
  BY <1>5 DEF Books
<1> HIDE DEF r
<1>7. Share(user, own + q, book.qty + q, r.netted, byHand)
  BY <1>2, <1>3, <1>5, <1>6, LotsLeave
<1>8. ShareTypes'
  BY <1>3 DEF BooksInv, ShareTypes
<1>9. ShareInv'
  <2>1. InFlight' = close'[f].fill
    BY <1>1 DEF InFlight
  <2>2. Due' = r
    BY <2>1 DEF Due, Booked, Replay, r
  <2> QED  BY <1>5, <1>7, <2>2 DEF ShareInv
<1>10. LockInv'
  <2> SUFFICES ASSUME NEW g \in Flatteners
               PROVE  /\ close'[g].pc \notin {"off", "start"} => lock = g /\ halt
                      /\ Closing(g)' => round.fill = NoFill /\ round.pc \notin {"closed", "entered"}
                      /\ close'[g].pc # "log" => close'[g].fill = NoFill
                      /\ close'[g].pc = "log" => close'[g].fill.room = 0 /\ ~close'[g].fill.writeoff
                      /\ close'[g].pc = "log" => Between(book.qty + close'[g].fill.qty, book.qty)
    BY DEF LockInv
  <2>1. CASE g = f
    BY <1>1, <1>4, <2>1
  <2>2. CASE g # f
    BY <2>2 DEF BooksInv, LockInv, Closing
  <2> QED  BY <2>1, <2>2
<1>11. RoundInv'
  BY DEF BooksInv, RoundInv
<1>12. FlipInv'
  BY <1>1 DEF BooksInv, FlipInv
<1>13. CloseInv'
  <2> SUFFICES ASSUME NEW g \in Flatteners
               PROVE  /\ close'[g].pc \in {"positions", "restore"} => close'[g].book = book
                      /\ close'[g].pc = "restore" => Abs(own') <= Covers(g)'
                      /\ close'[g].pc = "restore" /\ Restores(g)' =>
                           RestoreLots(g)' = Abs(own') /\ close'[g].shows = Account'
                      /\ close'[g].pc \in {"log", "zero"} /\ ~close'[g].open => own' = 0
    BY DEF CloseInv
  <2>1. CASE g = f
    BY <2>1
  <2>2. CASE g # f
    <3>1. close'[g] = close[g] /\ close[g].pc \in {"off", "start"}
      BY <1>1, <2>2 DEF BooksInv, LockInv
    <3> QED  BY <3>1
  <2> QED  BY <2>1, <2>2
<1>14. Leaving
  BY <1>3, <1>4 DEF Leaving, Between, Opposite, Abs
<1> QED  BY <1>8, <1>9, <1>10, <1>11, <1>12, <1>13, <1>14 DEF BooksInv

(* The shape a fill of close-all leaves.                                         *)
LEMMA FilledShape ==
  ASSUME BooksInv, NEW f \in Flatteners, close[f].pc = "restore",
         NEW n \in Nat, NEW all \in Int, 1 <= n, n <= all, NEW back \in BOOLEAN, Filled(f, n, all, back)
  PROVE  /\ own' = own + Away(book.qty, n) \/ book.qty = 0
         /\ close' \in [Flatteners -> Closes] /\ close'[f].pc = "log"
         /\ close'[f].fill.qty = Away(book.qty, n) \/ book.qty = 0
         /\ close'[f].fill.room = 0 /\ ~close'[f].fill.writeoff
         /\ close'[f].fill.back <=> back
         /\ ~close'[f].open => n = all
         /\ \A g \in Flatteners \ {f} : close'[g] = close[g]
         /\ UNCHANGED <<user, byHand, book, target, short, round, marked, halt, lock>>
<1>1. close[f].book = book /\ close \in [Flatteners -> Closes] /\ book.qty \in Int /\ own \in Int
  BY LotTypes DEF BooksInv, CloseInv, ShareTypes
<1> DEFINE q == -Side(f) * n
           fill == [NoFill EXCEPT !.qty = q, !.back = back]
           b == n < all
<1>2. /\ own' = own - Side(f) * n
      /\ close' = [close EXCEPT ![f].pc = "log", ![f].open = b, ![f].fill = fill]
      /\ UNCHANGED <<user, byHand, book, target, short, round, marked, halt, lock>>
  BY DEF Filled, Reconciler
<1>3. Side(f) = Sgn(book.qty)
  BY <1>1 DEF Side
<1>4. /\ q \in Int
      /\ book.qty # 0 => q = Away(book.qty, n) /\ own - Side(f) * n = own + Away(book.qty, n)
  BY <1>1, <1>3 DEF Sgn, Away
<1> HIDE DEF q
<1>5. fill \in FillSet /\ fill.qty = q /\ fill.room = 0 /\ (fill.back <=> back) /\ ~fill.writeoff
  BY <1>4, FillTypes
<1>6. b \in BOOLEAN /\ (~b => n = all)
  OBVIOUS
<1> HIDE DEF fill, b
<1>7. /\ close' \in [Flatteners -> Closes] /\ close'[f].pc = "log" /\ close'[f].fill = fill
      /\ close'[f].open = b
      /\ \A g \in Flatteners \ {f} : close'[g] = close[g]
  BY <1>1, <1>2, <1>5, <1>6 DEF Closes
<1> QED  BY <1>2, <1>4, <1>5, <1>6, <1>7

LEMMA RestoreKeeps ==
  ASSUME BooksInv, NEW f \in Flatteners, Restore(f)
  PROVE  BooksInv' /\ Leaving
<1>1. close[f].pc = "restore" /\ Restores(f)
  BY DEF Restore
<1>2. PICK n \in 1 .. RestoreLots(f) : Filled(f, n, RestoreLots(f), TRUE)
  BY DEF Restore
<1>3. /\ user \in Int /\ own \in Int /\ book.qty \in Int /\ book.netted \in Nat
      /\ close \in [Flatteners -> Closes]
  BY LotTypes DEF BooksInv, ShareTypes
<1>4. close[f].book = book /\ RestoreLots(f) = Abs(own) /\ close[f].shows = user + own
  BY <1>1 DEF BooksInv, CloseInv, Account
<1>5. n \in Nat /\ 1 <= n /\ n <= Abs(own)
  BY <1>3, <1>4 DEF Abs
<1>6. book.netted > 0 /\ Opposite(book.qty, user + own)
  BY <1>1, <1>3, <1>4, CloseSigns
<1>7. Share(user, own, book.qty, book.netted, byHand)
  <2>1. Due = book
    BY <1>1, CloseBook DEF Closing
  <2> QED  BY <2>1 DEF BooksInv, ShareInv
<1>8. Opposite(own, Away(book.qty, n)) /\ Abs(Away(book.qty, n)) = n /\ Away(book.qty, n) \in Int
      /\ book.qty # 0
  BY <1>3, <1>5, <1>6, <1>7 DEF Share, Matches, Behind, Between, Opposite, Abs, Away
<1> DEFINE q == Away(book.qty, n)
<1>9. /\ own' = own + q
      /\ close' \in [Flatteners -> Closes] /\ close'[f].pc = "log" /\ close'[f].fill.qty = q
      /\ close'[f].fill.room = 0 /\ ~close'[f].fill.writeoff /\ close'[f].fill.back
      /\ ~close'[f].open => n = Abs(own)
      /\ \A g \in Flatteners \ {f} : close'[g] = close[g]
      /\ UNCHANGED <<user, byHand, book, target, short, round, marked, halt, lock>>
  <2>1. RestoreLots(f) \in Int /\ TRUE \in BOOLEAN /\ n <= RestoreLots(f)
    BY <1>3, <1>4, <1>5, CloseSigns
  <2> QED  BY <1>1, <1>2, <1>4, <1>5, <1>8, <2>1, FilledShape
<1>10. ~close'[f].open => own' = 0
  BY <1>3, <1>5, <1>8, <1>9 DEF Opposite, Abs, Away
<1> HIDE DEF q
<1>11. Opposite(own, q) /\ Abs(q) <= Abs(own) /\ q \in Int
  BY <1>5, <1>8 DEF q
<1> QED  BY <1>1, <1>9, <1>10, <1>11, FilledKeeps

LEMMA CloseRowKeeps ==
  ASSUME BooksInv, NEW f \in Flatteners, CloseRow(f)
  PROVE  BooksInv' /\ Leaving
<1>1. close[f].pc = "restore" /\ Claims(f)
  BY DEF CloseRow
<1>2. PICK n \in 1 .. Least(CloseLots(f), Held(Side(f))) : Filled(f, n, CloseLots(f), FALSE)
  BY DEF CloseRow
<1>3. /\ user \in Int /\ own \in Int /\ book.qty \in Int /\ book.netted \in Nat
      /\ close \in [Flatteners -> Closes]
  BY LotTypes DEF BooksInv, ShareTypes
<1>4. close[f].book = book /\ Abs(own) <= Covers(f)
  BY <1>1 DEF BooksInv, CloseInv
<1>5. book.qty # 0 /\ ~Restores(f) /\ CloseLots(f) \in Nat /\ close[f].shows \in Int
  BY <1>1, <1>3, <1>4, CloseSigns DEF Shown, Opposite
<1>6. CloseLots(f) <= Abs(book.qty) /\ Abs(own) <= CloseLots(f)
  <2>1. CloseLots(f) <= Abs(book.qty)
    BY <1>3, <1>4, <1>5 DEF CloseLots, Least, Abs
  <2> QED  BY <1>1, <1>4, <1>5, <2>1 DEF Covers
<1>7. Held(Side(f)) = Shown(book.qty, user + own) /\ Shown(book.qty, user + own) \in Nat
  <2>1. Held(Side(f)) = Shown(book.qty, user + own)
    BY <1>3, <1>4, <1>5, HeldIs DEF Side, Shown, Account
  <2> QED  BY <1>3, <2>1 DEF Shown, Abs
<1>8. n \in Nat /\ 1 <= n /\ n <= CloseLots(f) /\ n <= Shown(book.qty, user + own)
  BY <1>5, <1>7 DEF Least
<1>9. Share(user, own, book.qty, book.netted, byHand)
  <2>1. Due = book
    BY <1>1, CloseBook DEF Closing
  <2> QED  BY <2>1 DEF BooksInv, ShareInv
<1>10. ~Opposite(user, own) /\ Opposite(own, Away(book.qty, n)) /\ n <= Abs(own)
  <2>1. Between(book.qty, book.qty) /\ n <= Abs(book.qty)
    BY <1>3, <1>5, <1>6, <1>8 DEF Between, Abs
  <2> QED  BY <1>3, <1>8, <1>9, <2>1, ReduceNumbers
<1> DEFINE q == Away(book.qty, n)
<1>11. Opposite(own, q) /\ Abs(q) <= Abs(own) /\ q \in Int
  BY <1>3, <1>8, <1>10 DEF Away, Abs
<1>12. /\ own' = own + q
       /\ close' \in [Flatteners -> Closes] /\ close'[f].pc = "log" /\ close'[f].fill.qty = q
       /\ close'[f].fill.room = 0 /\ ~close'[f].fill.writeoff
       /\ ~close'[f].open => n = CloseLots(f)
       /\ \A g \in Flatteners \ {f} : close'[g] = close[g]
       /\ UNCHANGED <<user, byHand, book, target, short, round, marked, halt, lock>>
  <2>1. FALSE \in BOOLEAN /\ CloseLots(f) \in Int
    BY <1>5
  <2> QED  BY <1>1, <1>2, <1>5, <1>8, <2>1, FilledShape
<1>13. ~close'[f].open => own' = 0
  BY <1>3, <1>5, <1>6, <1>8, <1>10, <1>11, <1>12 DEF Opposite, Abs, Away
<1> HIDE DEF q
<1> QED  BY <1>1, <1>10, <1>11, <1>12, <1>13, FilledKeeps

LEMMA WritesKeep ==
  ASSUME BooksInv, NEW f \in Flatteners, close[f].pc \in {"log", "zero"},
         book' \in Books, book'.netted <= Abs(book'.qty), Between(book'.qty, book.qty),
         Share(user, own, book'.qty, book'.netted, byHand),
         close' \in [Flatteners -> Closes], \A g \in Flatteners \ {f} : close'[g] = close[g],
         close'[f].fill = NoFill,
         \/ close'[f].pc = "zero" /\ lock' = f /\ (~close'[f].open => own = 0)
         \/ close'[f].pc = "off" /\ lock' = NoFlattener,
         UNCHANGED <<user, own, byHand, target, short, round, marked, halt>>
  PROVE  BooksInv'
<1>1. lock = f /\ halt /\ round.pc \notin {"closed", "entered"} /\ round.fill = NoFill
  BY CloseBook DEF Closing
<1>2. \A g \in Flatteners : g # f => close'[g] = close[g] /\ close[g].pc \in {"off", "start"}
  BY <1>1 DEF BooksInv, LockInv
<1>3. ShareTypes'
  BY DEF BooksInv, ShareTypes
<1>4. ShareInv'
  <2>1. InFlight' = NoFill
    BY <1>1, ShareAssumption DEF InFlight
  <2>2. Due' = book'
    BY <2>1, BookedNothing DEF Due
  <2> QED  BY <2>2 DEF ShareInv
<1>5. LockInv'
  <2> SUFFICES ASSUME NEW g \in Flatteners
               PROVE  /\ close'[g].pc \notin {"off", "start"} => lock' = g /\ halt
                      /\ Closing(g)' => round.fill = NoFill /\ round.pc \notin {"closed", "entered"}
                      /\ close'[g].pc # "log" /\ close'[g].fill = NoFill
    BY DEF LockInv
  <2>1. CASE g = f
    BY <1>1, <2>1
  <2>2. CASE g # f
    BY <1>1, <1>2, <2>2 DEF BooksInv, LockInv
  <2> QED  BY <2>1, <2>2
<1>6. RoundInv'
  <2>1. round.pc \in {"close", "entry"} => Between(book'.qty, round.had)
    <3>1. round.pc \in {"close", "entry"} => Between(book.qty, round.had)
      BY DEF BooksInv, RoundInv
    <3>2. book.qty \in Int /\ book'.qty \in Int /\ round.had \in Int
      BY LotTypes DEF BooksInv, Books
    <3> QED  BY <3>1, <3>2 DEF Between
  <2> QED  BY <1>1, <2>1 DEF BooksInv, RoundInv
<1>7. FlipInv'
  <2>1. book.qty = 0 => book'.qty = 0
    <3>1. book'.qty \in Int
      BY DEF Books
    <3> QED  BY <3>1 DEF Between
  <2> QED  BY <1>1, <2>1 DEF BooksInv, FlipInv
<1>8. CloseInv'
  <2> SUFFICES ASSUME NEW g \in Flatteners
               PROVE  /\ close'[g].pc \notin {"positions", "restore", "log"}
                      /\ close'[g].pc = "zero" /\ ~close'[g].open => own = 0
    BY DEF CloseInv
  <2>1. CASE g = f
    BY <2>1
  <2>2. CASE g # f
    BY <1>2, <2>2
  <2> QED  BY <2>1, <2>2
<1> QED  BY <1>3, <1>4, <1>5, <1>6, <1>7, <1>8 DEF BooksInv

LEMMA LogCloseKeeps ==
  ASSUME BooksInv, NEW f \in Flatteners, LogClose(f)
  PROVE  BooksInv' /\ UNCHANGED <<user, own, halt>>
<1>1. /\ close[f].pc = "log"
      /\ book' = Replay(book, close[f].fill.qty, 0, close[f].fill.back)
      /\ close' = [close EXCEPT ![f].pc = "zero", ![f].fill = NoFill]
      /\ UNCHANGED <<user, own, byHand, target, short, round, marked, halt, lock>>
  BY DEF LogClose, shares, Reconciler
<1>2. /\ book \in Books /\ book.netted <= Abs(book.qty) /\ close \in [Flatteners -> Closes]
      /\ close[f].fill \in FillSet
  BY DEF BooksInv, ShareTypes, Closes
<1>3. /\ close[f].fill.room = 0 /\ ~close[f].fill.writeoff
      /\ Between(book.qty + close[f].fill.qty, book.qty)
      /\ ~close[f].open => own = 0
  BY <1>1 DEF BooksInv, LockInv, CloseInv
<1>4. InFlight = close[f].fill /\ lock = f
  BY <1>1, CloseBook DEF Closing
<1>5. book' = Booked(book, close[f].fill) /\ book' = Due
  BY <1>1, <1>3, <1>4 DEF Booked, Due
<1>6. book' \in Books /\ book'.netted <= Abs(book'.qty) /\ Between(book'.qty, book.qty)
  BY <1>2, <1>3, <1>5, BookedIn
<1>7. Share(user, own, book'.qty, book'.netted, byHand)
  BY <1>5 DEF BooksInv, ShareInv
<1>8. /\ close' \in [Flatteners -> Closes] /\ close'[f].pc = "zero" /\ close'[f].fill = NoFill
      /\ close'[f].open = close[f].open
      /\ \A g \in Flatteners \ {f} : close'[g] = close[g]
  BY <1>1, <1>2, RestTypes DEF Closes
<1>9. lock' = f /\ (~close'[f].open => own = 0)
  BY <1>1, <1>3, <1>4, <1>8
<1>10. BooksInv'
  BY <1>1, <1>6, <1>7, <1>8, <1>9, WritesKeep
<1> QED  BY <1>1, <1>10

LEMMA ZeroKeeps ==
  ASSUME BooksInv, NEW f \in Flatteners, Zero(f)
  PROVE  BooksInv' /\ UNCHANGED <<user, own, halt>>
<1>1. /\ close[f].pc = "zero"
      /\ book' = (IF close[f].book.qty = 0 \/ close[f].open THEN book ELSE NoBook)
      /\ close' = [close EXCEPT ![f] = Off] /\ lock' = NoFlattener
      /\ UNCHANGED <<user, own, byHand, target, short, round, marked, halt>>
  BY DEF Zero, shares, Reconciler
<1>2. /\ book \in Books /\ book.netted <= Abs(book.qty) /\ book.qty \in Int
      /\ close \in [Flatteners -> Closes]
  BY LotTypes DEF BooksInv, ShareTypes
<1>3. Share(user, own, book.qty, book.netted, byHand)
  <2>1. Due = book
    BY <1>1, CloseBook DEF Closing
  <2> QED  BY <2>1 DEF BooksInv, ShareInv
<1>4. ~close[f].open => own = 0
  BY <1>1 DEF BooksInv, CloseInv
<1>5. /\ book' \in Books /\ book'.netted <= Abs(book'.qty) /\ Between(book'.qty, book.qty)
      /\ Share(user, own, book'.qty, book'.netted, byHand)
  <2>1. CASE book' = book
    BY <1>2, <1>3, <2>1 DEF Between
  <2>2. CASE book' # book
    <3>1. book' = NoBook /\ own = 0
      BY <1>1, <1>4, <2>2
    <3>2. book'.qty = 0 /\ book'.netted = 0 /\ book' \in Books
      BY <3>1, RestTypes
    <3> QED  BY <1>2, <3>1, <3>2 DEF Share, Roomy, Matches, Opposite, Between, Abs
  <2> QED  BY <2>1, <2>2
<1>6. /\ close' \in [Flatteners -> Closes] /\ close'[f].pc = "off" /\ close'[f].fill = NoFill
      /\ \A g \in Flatteners \ {f} : close'[g] = close[g]
  BY <1>1, <1>2, RestTypes
<1>7. BooksInv'
  BY <1>1, <1>5, <1>6, WritesKeep
<1> QED  BY <1>1, <1>7

-----------------------------------------------------------------------------
(* The strategies and the user.                                                   *)

LEMMA SwitchesKeep ==
  ASSUME ShareFaults = {}, BooksInv, Retarget \/ Start
  PROVE  BooksInv' /\ UNCHANGED <<user, own>>
<1>1. CASE Retarget
  <2>1. /\ target' \in Int
        /\ UNCHANGED <<user, own, byHand, book, halt, short, round, marked, close, lock>>
    BY <1>1, ShareAssumption DEF Retarget, venue
  <2>2. InFlight' = InFlight /\ Account' = Account
    BY <2>1 DEF InFlight, Account
  <2>3. ShareTypes' /\ ShareInv'
    BY <2>1, <2>2 DEF BooksInv, ShareTypes, ShareInv, Due, Booked, Replay
  <2>4. LockInv' /\ RoundInv'
    BY <2>1 DEF BooksInv, LockInv, RoundInv, Closing
  <2>5. FlipInv'
    BY <2>1 DEF BooksInv, FlipInv, Booked, Replay
  <2>6. CloseInv'
    BY <2>1 DEF BooksInv, CloseInv, Covers, Restores, RestoreLots, Claims, CloseLots, Side, Account
  <2> QED  BY <2>1, <2>3, <2>4, <2>5, <2>6 DEF BooksInv
<1>2. CASE Start
  <2>1. /\ halt' = FALSE /\ \A f \in Flatteners : close[f].pc = "off"
        /\ UNCHANGED <<user, own, byHand, book, target, short, round, marked, close, lock>>
    BY <1>2 DEF Start, venue, Reconciler
  <2>2. InFlight' = InFlight /\ halt' \in BOOLEAN
    BY <2>1 DEF InFlight
  <2>3. ShareTypes' /\ ShareInv'
    BY <2>1, <2>2 DEF BooksInv, ShareTypes, ShareInv, Due, Booked, Replay
  <2>4. LockInv' /\ RoundInv'
    BY <2>1 DEF BooksInv, LockInv, RoundInv, Closing
  <2>5. FlipInv'
    BY <2>1 DEF BooksInv, FlipInv, Booked, Replay
  <2>6. CloseInv'
    BY <2>1 DEF BooksInv, CloseInv
  <2> QED  BY <2>1, <2>3, <2>4, <2>5, <2>6 DEF BooksInv
<1> QED  BY <1>1, <1>2

(* The state of the book does not depend on byHand while it matches.              *)
LEMMA ToldKeeps ==
  ASSUME BooksInv, Told
  PROVE  BooksInv' /\ UNCHANGED <<user, own, halt>>
<1>1. /\ byHand' = FALSE /\ book.qty = own /\ round.fill = NoFill
      /\ \A f \in Flatteners : close[f].pc = "off"
      /\ UNCHANGED <<user, own, book, target, short, round, marked, halt, close, lock, moves>>
  BY DEF Told, Reconciler
<1>2. InFlight = NoFill /\ Due = book
  <2>1. round.pc \notin {"closed", "entered"}
    BY <1>1, RestTypes DEF BooksInv, RoundInv
  <2> QED  BY <1>1, <2>1, QuietBook
<1>3. Share(user, own, book.qty, book.netted, byHand')
  <2>1. Share(user, own, book.qty, book.netted, byHand)
    BY <1>2 DEF BooksInv, ShareInv
  <2>2. ~Behind(user, own, book.qty, book.netted)
    <3>1. own \in Int
      BY DEF BooksInv, ShareTypes
    <3> QED  BY <1>1, <3>1 DEF Behind, Abs
  <2> QED  BY <2>1, <2>2 DEF Share
<1>4. InFlight' = InFlight
  BY <1>1 DEF InFlight
<1>5. ShareTypes' /\ ShareInv'
  <2>1. Due' = Due
    BY <1>1, <1>4 DEF Due, Booked, Replay
  <2> QED  BY <1>1, <1>2, <1>3, <2>1 DEF BooksInv, ShareTypes, ShareInv
<1>6. LockInv' /\ RoundInv'
  BY <1>1 DEF BooksInv, LockInv, RoundInv, Closing
<1>7. FlipInv'
  BY <1>1 DEF BooksInv, FlipInv, Booked, Replay
<1>8. CloseInv'
  BY <1>1 DEF BooksInv, CloseInv
<1> QED  BY <1>1, <1>5, <1>6, <1>7, <1>8 DEF BooksInv

LEMMA DueTypes ==
  ASSUME BooksInv
  PROVE  Due \in Books
<1>1. book \in Books /\ book.netted <= Abs(book.qty) /\ round.fill \in FillSet
  BY DEF BooksInv, ShareTypes, Rounds
<1>2. CASE round.pc \in {"closed", "entered"}
  <2>1. Due = Booked(book, round.fill)
    BY <1>2, RoundBook DEF Due
  <2>2. CASE round.fill.writeoff
    BY <2>1, <2>2, RestTypes DEF Booked
  <2>3. CASE ~round.fill.writeoff /\ round.pc = "closed"
    BY <1>1, <2>1, <2>3, BookedIn DEF BooksInv, RoundInv
  <2>4. CASE ~round.fill.writeoff /\ round.pc = "entered"
    BY <1>1, <2>1, <2>4, BookedOut DEF BooksInv, RoundInv
  <2> QED  BY <1>2, <2>2, <2>3, <2>4
<1>3. CASE round.pc \notin {"closed", "entered"} /\ \E f \in Flatteners : close[f].pc = "log"
  <2>1. PICK f \in Flatteners : close[f].pc = "log"
    BY <1>3
  <2>2. Due = Booked(book, close[f].fill)
    BY <2>1, CloseBook DEF Due, Closing
  <2>3. close[f].fill.room = 0 /\ ~close[f].fill.writeoff /\ Between(book.qty + close[f].fill.qty, book.qty)
    BY <2>1 DEF BooksInv, LockInv
  <2>4. close[f].fill \in FillSet
    BY DEF BooksInv, ShareTypes, Closes
  <2> QED  BY <1>1, <2>2, <2>3, <2>4, BookedIn
<1>4. CASE round.pc \notin {"closed", "entered"} /\ \A f \in Flatteners : close[f].pc # "log"
  BY <1>1, <1>4, QuietBook
<1> QED  BY <1>2, <1>3, <1>4

(* With the book behind, what is in flight nets nothing and keeps its side.       *)
LEMMA DueIsBare ==
  ASSUME BooksInv, book.netted = 0, round.fill.room = 0, own # Due.qty
  PROVE  /\ Due.netted = 0 /\ Due.qty \in Int
         /\ \/ Due.qty = book.qty + round.fill.qty
            \/ round.fill.qty = 0 /\ Between(Due.qty, book.qty)
<1>1. /\ book \in Books /\ book.netted <= Abs(book.qty) /\ book.qty \in Int /\ own \in Int
      /\ round.fill \in FillSet /\ round.fill.qty \in Int
  BY LotTypes DEF BooksInv, ShareTypes, Rounds, FillSet
<1>2. CASE round.pc \in {"closed", "entered"}
  <2>1. Due = Booked(book, round.fill)
    BY <1>2, RoundBook DEF Due
  <2>2. ~round.fill.writeoff
    <3> SUFFICES ASSUME round.fill.writeoff PROVE FALSE
      OBVIOUS
    <3>1. Due.qty = 0
      BY <2>1, RestTypes DEF Booked
    <3> QED  BY <1>1, <3>1 DEF BooksInv, ShareInv, Share, Matches, Behind, Abs
  <2>3. CASE round.pc = "closed"
    <3>1. Between(book.qty + round.fill.qty, book.qty)
      BY <2>3 DEF BooksInv, RoundInv
    <3> QED  BY <1>1, <2>1, <2>2, <3>1, BookedIn
  <2>4. CASE round.pc = "entered"
    <3>1. ~Opposite(book.qty, round.fill.qty)
      BY <2>4 DEF BooksInv, RoundInv
    <3>2. Due.qty = book.qty + round.fill.qty /\ Due.netted = book.netted + Least(Abs(round.fill.qty), 0)
      BY <1>1, <2>1, <2>2, <3>1, BookedOut
    <3>3. Least(Abs(round.fill.qty), 0) = 0
      BY <1>1 DEF Least, Abs
    <3> QED  BY <1>1, <3>2, <3>3
  <2> QED  BY <1>2, <2>3, <2>4
<1>3. CASE round.pc \notin {"closed", "entered"} /\ \E f \in Flatteners : close[f].pc = "log"
  <2>1. PICK f \in Flatteners : close[f].pc = "log"
    BY <1>3
  <2>2. Due = Booked(book, close[f].fill) /\ round.fill = NoFill
    BY <2>1, CloseBook DEF Due, Closing
  <2>3. close[f].fill.room = 0 /\ ~close[f].fill.writeoff /\ Between(book.qty + close[f].fill.qty, book.qty)
    BY <2>1 DEF BooksInv, LockInv
  <2>4. close[f].fill \in FillSet /\ close[f].fill.qty \in Int
    BY DEF BooksInv, ShareTypes, Closes, FillSet
  <2>5. Due.qty = book.qty + close[f].fill.qty /\ Due.netted = 0
    BY <1>1, <2>2, <2>3, <2>4, BookedIn
  <2> QED  BY <1>1, <2>2, <2>3, <2>4, <2>5, RestTypes
<1>4. CASE round.pc \notin {"closed", "entered"} /\ \A f \in Flatteners : close[f].pc # "log"
  <2>1. Due = book /\ round.fill = NoFill
    BY <1>4, QuietBook
  <2> QED  BY <1>1, <2>1, RestTypes
<1> QED  BY <1>2, <1>3, <1>4

LEMMA TradeKeeps ==
  ASSUME ShareFaults = {}, BooksInv, NEW t \in {-1, 1}, Trade(t)
  PROVE  BooksInv' /\ Between(own', own) /\ halt' = halt
<1>1. /\ user \in Int /\ own \in Int /\ book.qty \in Int /\ round.fill.qty \in Int /\ t \in Int
  BY LotTypes DEF BooksInv, ShareTypes, Rounds, FillSet
<1> DEFINE s == Sgn(own)
<1>2. /\ UNCHANGED <<book, target, short, round, marked, halt, close, lock>>
      /\ byHand => t * own <= 0 /\ t * (book.qty + round.fill.qty) <= 0
      /\ byHand => book.netted = 0 /\ round.fill.room = 0
      /\ \A f \in Flatteners : ~(close[f].pc = "restore" /\ Restores(f))
  BY DEF Trade, Reconciler
<1>3. \/ s * t >= 0 /\ s * user >= 0 /\ user' = user + t /\ own' = own /\ byHand' = byHand
      \/ s * t < 0 /\ user # 0 /\ user' = user + t /\ own' = own /\ byHand' = byHand
      \/ s * t < 0 /\ user = 0 /\ user' = 0 /\ own' = own + t /\ byHand' = TRUE
      \/ s * t > 0 /\ s * user < 0 /\ Abs(user) > Abs(own) + 1 /\ RestoredWhole(user + t, own)
         /\ user' = user + t /\ own' = own /\ byHand' = byHand
      \/ s * t > 0 /\ s * user < 0 /\ Abs(user) = Abs(own) + 1
         /\ user' = 0 /\ own' = 0 /\ byHand' = TRUE
  BY DEF Trade
<1>4. /\ s * t < 0 <=> Opposite(own, t)
      /\ s * t >= 0 <=> ~Opposite(own, t)
      /\ s * t > 0 <=> own # 0 /\ ~Opposite(own, t)
      /\ s * user < 0 <=> Opposite(own, user)
      /\ s * user >= 0 <=> ~Opposite(own, user)
  BY <1>1 DEF Sgn, Opposite
<1> HIDE DEF s
<1>5. RestoredWhole(user + t, own) => Roomy(user + t, own)
  <2>1. user + t \in Int
    BY <1>1
  <2>2. (user + t) * own >= 0 => ~Opposite(user + t, own)
    BY <1>1, <2>1, Signs
  <2> QED  BY <2>2 DEF RestoredWhole, Roomy
<1>6. OwnTrade(user, own, t, user', own', byHand, byHand')
  BY <1>3, <1>4, <1>5 DEF OwnTrade
<1>7. byHand => /\ own = 0 \/ Opposite(own, t)
                /\ book.qty + round.fill.qty = 0 \/ Opposite(book.qty + round.fill.qty, t)
  <2>1. book.qty + round.fill.qty \in Int
    BY <1>1
  <2>2. /\ t * own <= 0 <=> Opposite(t, own) \/ t = 0 \/ own = 0
        /\ t * (book.qty + round.fill.qty) <= 0 <=>
             Opposite(t, book.qty + round.fill.qty) \/ t = 0 \/ book.qty + round.fill.qty = 0
    BY <1>1, <2>1, Signs
  <2> QED  BY <1>1, <1>2, <2>1, <2>2 DEF Opposite
<1>8. Due.qty \in Int /\ Due.netted \in Nat
  BY DueTypes DEF Books
<1>9. byHand /\ own # Due.qty =>
        Due.netted = 0 /\ (own = 0 \/ Opposite(own, t)) /\ (Due.qty = 0 \/ Opposite(Due.qty, t))
  <2> SUFFICES ASSUME byHand, own # Due.qty
               PROVE  Due.netted = 0 /\ (Due.qty = 0 \/ Opposite(Due.qty, t))
    BY <1>7
  <2>1. /\ Due.netted = 0
        /\ \/ Due.qty = book.qty + round.fill.qty
           \/ round.fill.qty = 0 /\ Between(Due.qty, book.qty)
    BY <1>2, DueIsBare
  <2> QED  BY <1>1, <1>7, <1>8, <2>1 DEF Between, Opposite
<1>10. user' \in Int /\ own' \in Int
  BY <1>1, <1>3
<1>11. /\ Share(user', own', Due.qty, Due.netted, byHand')
       /\ Between(own', own) /\ Abs(own') <= Abs(own)
  BY <1>1, <1>6, <1>8, <1>9, <1>10, UserTrades DEF BooksInv, ShareInv
<1>12. InFlight' = InFlight
  BY <1>2 DEF InFlight
<1>13. ShareTypes' /\ ShareInv'
  <2>1. Due' = Due
    BY <1>2, <1>12 DEF Due, Booked, Replay
  <2> QED  BY <1>2, <1>10, <1>11, <2>1 DEF BooksInv, ShareTypes, ShareInv
<1>14. LockInv' /\ RoundInv'
  BY <1>2 DEF BooksInv, LockInv, RoundInv, Closing
<1>15. FlipInv'
  BY <1>2 DEF BooksInv, FlipInv, Booked, Replay
<1>16. CloseInv'
  <2> SUFFICES ASSUME NEW f \in Flatteners
               PROVE  /\ close[f].pc \in {"positions", "restore"} => close[f].book = book
                      /\ close[f].pc = "restore" => Abs(own') <= Covers(f)' /\ ~Restores(f)'
                      /\ close[f].pc \in {"log", "zero"} /\ ~close[f].open => own' = 0
    BY <1>2 DEF CloseInv
  <2>1. Covers(f)' = Covers(f) /\ (Restores(f)' <=> Restores(f))
    BY <1>2 DEF Covers, Restores, RestoreLots, Claims, CloseLots, Side
  <2>2. Covers(f) \in Int
    <3>1. close \in [Flatteners -> Closes]
      BY DEF BooksInv, ShareTypes
    <3> QED  BY <3>1, CloseSigns DEF Covers
  <2>3. own = 0 => own' = 0
    BY <1>1, <1>10, <1>11 DEF Between
  <2>4. Abs(own) \in Int /\ Abs(own') \in Int
    BY <1>1, <1>10 DEF Abs
  <2> QED  BY <1>2, <1>11, <2>1, <2>2, <2>3, <2>4 DEF BooksInv, CloseInv
<1> QED  BY <1>2, <1>11, <1>13, <1>14, <1>15, <1>16 DEF BooksInv

-----------------------------------------------------------------------------
(* The theorems.                                                                  *)

LEMMA BooksStart == Init => BooksInv
<1> SUFFICES ASSUME Init PROVE BooksInv
  OBVIOUS
<1>1. /\ user \in Int /\ own = 0 /\ book = NoBook /\ target = 0 /\ halt = FALSE /\ short = "none"
      /\ round = Idle /\ close = [f \in Flatteners |-> Off] /\ lock = NoFlattener
  BY ShareAssumption DEF Init
<1>2. ShareTypes
  <2>1. book \in Books /\ book.netted <= Abs(book.qty)
    BY <1>1, RestTypes DEF Abs
  <2>2. round \in Rounds /\ close \in [Flatteners -> Closes]
    BY <1>1, RestTypes
  <2>3. target \in Int /\ own \in Int
    BY <1>1
  <2>4. short \in {"none", "fresh", "old"} /\ lock \in Flatteners \cup {NoFlattener}
    BY <1>1
  <2>5. halt \in BOOLEAN
    BY <1>1
  <2> QED  BY <1>1, <2>1, <2>2, <2>3, <2>4, <2>5 DEF ShareTypes
<1>3. round.pc = "idle" /\ round.fill = NoFill /\ \A f \in Flatteners : close[f].pc = "off" /\ close[f].fill = NoFill
  BY <1>1, RestTypes
<1>4. InFlight = NoFill
  BY <1>1, <1>3 DEF InFlight
<1>5. Due = book /\ Due.qty = 0
  BY <1>1, <1>2, <1>4, RestTypes, BookedNothing DEF Due, ShareTypes
<1>6. ShareInv
  BY <1>1, <1>5 DEF ShareInv, Share, Roomy, Matches, Opposite
<1>7. LockInv
  BY <1>3 DEF LockInv, Closing
<1>8. RoundInv /\ FlipInv /\ CloseInv
  BY <1>3 DEF RoundInv, FlipInv, CloseInv
<1> QED  BY <1>2, <1>6, <1>7, <1>8 DEF BooksInv

(* Every step keeps the invariant, and moves the share as the promise allows.      *)
Promised ==
  \/ Widening
  \/ Leaving
  \/ Between(own', own) /\ halt' = halt
  \/ user' = user /\ own' = own

LEMMA BooksStep ==
  ASSUME ShareFaults = {}, BooksInv, [Next]_vars
  PROVE  BooksInv' /\ Promised
<1>1. CASE RoundStart
  BY <1>1, RoundStartKeeps DEF Promised, RoundStart, venue
<1>2. CASE NettedWaits \/ ReduceFails \/ EntryDenied \/ EntryFails \/ RoundEnds
  BY <1>2, QuietStepsKeep DEF Promised
<1>3. CASE NettedExit
  BY <1>3, NettedExitKeeps DEF Promised
<1>4. CASE ReduceNothing
  BY <1>4, ReduceNothingKeeps DEF Promised
<1>5. CASE ReduceFills
  BY <1>5, ReduceFillsKeeps DEF Promised
<1>6. CASE CloseLogged
  BY <1>6, CloseLoggedKeeps DEF Promised
<1>7. CASE EntryFills
  BY <1>7, EntryFillsKeeps DEF Promised
<1>8. CASE EntryLogged
  BY <1>8, EntryLoggedKeeps DEF Promised
<1>9. ASSUME NEW f \in Flatteners, Launch(f) \/ CloseAll(f)
      PROVE  BooksInv' /\ Promised
  <2>1. CASE Launch(f) \/ TakeLock(f) \/ Refused(f) \/ Waited(f) \/ ReadBook(f) \/ PositionsFail(f)
    BY <2>1, BeginsKeep DEF Promised
  <2>2. CASE ReadPositions(f)
    BY <2>2, ReadPositionsKeeps DEF Promised
  <2>3. CASE Restore(f)
    BY <2>3, RestoreKeeps DEF Promised
  <2>4. CASE CloseRow(f)
    BY <2>4, CloseRowKeeps DEF Promised
  <2>5. CASE CloseFails(f) \/ NothingToClose(f)
    BY <2>5, NotClosedKeeps DEF Promised
  <2>6. CASE LogClose(f)
    BY <2>6, LogCloseKeeps DEF Promised
  <2>7. CASE Zero(f)
    BY <2>7, ZeroKeeps DEF Promised
  <2> QED  BY <1>9, <2>1, <2>2, <2>3, <2>4, <2>5, <2>6, <2>7 DEF CloseAll
<1>10. CASE Retarget \/ Start
  BY <1>10, SwitchesKeep DEF Promised
<1>11. ASSUME NEW t \in {-1, 1}, Trade(t)
       PROVE  BooksInv' /\ Promised
  BY <1>11, TradeKeeps DEF Promised
<1>12. CASE Told
  BY <1>12, ToldKeeps DEF Promised
<1>13. CASE UNCHANGED vars
  <2>1. UNCHANGED <<user, own, byHand, book, target, halt, short, round, marked, close, lock>>
    BY <1>13 DEF vars
  <2>2. InFlight' = InFlight
    BY <2>1 DEF InFlight
  <2>3. ShareTypes' /\ ShareInv'
    BY <2>1, <2>2 DEF BooksInv, ShareTypes, ShareInv, Due, Booked, Replay
  <2>4. LockInv' /\ RoundInv'
    BY <2>1 DEF BooksInv, LockInv, RoundInv, Closing
  <2>5. FlipInv'
    BY <2>1 DEF BooksInv, FlipInv, Booked, Replay
  <2>6. CloseInv'
    BY <2>1 DEF BooksInv, CloseInv, Covers, Restores, RestoreLots, Claims, CloseLots, Side, Account
  <2> QED  BY <2>1, <2>3, <2>4, <2>5, <2>6 DEF BooksInv, Promised
<1> QED
  BY <1>1, <1>2, <1>3, <1>4, <1>5, <1>6, <1>7, <1>8, <1>9, <1>10, <1>11, <1>12, <1>13
  DEF Next, Round, AtRest

LEMMA BooksAlways == ASSUME ShareFaults = {} PROVE Spec => []BooksInv
<1>1. BooksInv /\ [Next]_vars => BooksInv'
  BY BooksStep
<1> QED  BY <1>1, BooksStart, PTL DEF Spec

LEMMA BookIsDue ==
  ASSUME BooksInv
  PROVE  BookIsShare
<1> SUFFICES ASSUME ~byHand, round.fill = NoFill, \A f \in Flatteners : close[f].fill = NoFill
             PROVE  book.qty = own
  BY DEF BookIsShare
<1>1. InFlight = NoFill
  BY DEF InFlight
<1>2. Due = book
  BY <1>1, BookedNothing DEF Due, BooksInv, ShareTypes
<1> QED  BY <1>2 DEF BooksInv, ShareInv, Share, Matches

\* The book is the bot's share: once every fill is in orders.jsonl, what the replay of
\* lib/portfolio.py answers is what the bot holds of the account, whatever rounds,
\* write-offs, netted entries, partial fills and close-all processes did before, and
\* however much the user traded, for every size of position and number of moves.
THEOREM BookStaysTrue ==
  ASSUME ShareFaults = {}
  PROVE  Spec => []BookIsShare
<1>1. Spec => []BooksInv
  BY BooksAlways
<1>2. BooksInv => BookIsShare
  BY BookIsDue
<1> QED  BY <1>1, <1>2, PTL

-----------------------------------------------------------------------------
(* The step of the shares as the abstract account has it.                         *)

LEMMA Nearer ==
  ASSUME NEW x \in Int, NEW y \in Int, Between(y, x), y # x
  PROVE  /\ x * y >= 0 /\ y * x >= 0
         /\ (IF y < 0 THEN -y ELSE y) < (IF x < 0 THEN -x ELSE x)
<1>1. ~Opposite(x, y) /\ ~Opposite(y, x)
  BY DEF Between, Opposite
<1>2. x * y >= 0 /\ y * x >= 0
  BY <1>1, Signs
<1>3. (IF y < 0 THEN -y ELSE y) < (IF x < 0 THEN -x ELSE x)
  BY DEF Between
<1> QED  BY <1>2, <1>3

LEMMA SharesStep ==
  ASSUME BooksInv, BooksInv', Promised
  PROVE  Shares!Next \/ UNCHANGED <<user, own, halt>>
<1>1. own \in Int /\ own' \in Int
  BY DEF BooksInv, ShareTypes
<1>3. ASSUME Between(own', own), own' # own
      PROVE  Shares!Inward
  <2>1. /\ own * own' >= 0
        /\ (IF own' < 0 THEN -own' ELSE own') < (IF own < 0 THEN -own ELSE own)
    BY <1>1, <1>3, Nearer
  <2> QED  BY <2>1 DEF Shares!Inward, Shares!Size
<1>4. ASSUME Between(own, own'), own' # own
      PROVE  Shares!Outward
  <2>1. /\ own * own' >= 0
        /\ (IF own < 0 THEN -own ELSE own) < (IF own' < 0 THEN -own' ELSE own')
    BY <1>1, <1>4, Nearer
  <2>2. Shares!Size(own) < Shares!Size(own')
    BY <2>1 DEF Shares!Size
  <2>3. Shares!Size(own) \in Int
    BY <1>1 DEF Shares!Size
  <2>4. Shares!Size(own') \in Int
    BY <1>1 DEF Shares!Size
  <2> QED  BY <2>1, <2>2, <2>3, <2>4 DEF Shares!Outward
<1>5. CASE Widening
  BY <1>4, <1>5 DEF Widening, Shares!Next, Shares!Open
<1>6. CASE Leaving
  BY <1>3, <1>6 DEF Leaving, Shares!Next, Shares!Close
<1>7. CASE Between(own', own) /\ halt' = halt
  BY <1>3, <1>7 DEF Shares!Next, Shares!ByHand
<1>8. CASE user' = user /\ own' = own
  BY <1>8 DEF Shares!Next, Shares!Switch
<1> QED  BY <1>5, <1>6, <1>7, <1>8 DEF Promised

\* The reconciler and close-all implement one account with two owners (TwoShares): the
\* bot opens only while trading is not halted, every closing leg and every close-all
\* takes lots out of the bot's own share and never through zero into the user's, and
\* the user's position changes by the user's trades alone (lib/venue_wiring.py,
\* manager/flatten.py).
THEOREM TwoOwners ==
  ASSUME ShareFaults = {}
  PROVE  Spec => OnlyItsOwn
<1>1. Init => Shares!Init
  BY ShareAssumption DEF Init, Shares!Init
<1>2. BooksInv /\ BooksInv' /\ [Next]_vars => [Shares!Next]_<<user, own, halt>>
  BY BooksStep, SharesStep
<1>3. Spec => []BooksInv
  BY BooksAlways
<1> QED  BY <1>1, <1>2, <1>3, PTL DEF Spec, OnlyItsOwn, Shares!Spec
=============================================================================
