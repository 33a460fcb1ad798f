------------------------------ MODULE OwnShare ------------------------------
(* The bot's share of ONE swap position on a venue that keeps one net position *)
(* per symbol, and everything that may close it: a round of the reconciler     *)
(* (lib/portfolio.py reconcile through lib/venue_wiring.py auto_place_order)    *)
(* and close-all (manager/flatten.py), in two processes, beside a user who      *)
(* trades the same symbol by hand.  Quantities are whole lots, signed: long is  *)
(* positive.  The exchange shows the sum of both shares and nothing else.       *)
EXTENDS Integers, FiniteSets

CONSTANTS
  MaxTarget,      \* largest target of the strategies, in lots
  MaxUser,        \* largest position of the user, in lots
  MaxMoves,       \* changes of target, trades by hand and presses in one behaviour
  Flatteners,     \* close-all processes that may be launched
  NoFlattener,    \* the close-all lock is free
  ShareFaults     \* subset of AllShareFaults

(* part_netted:  an entry of more than half the user's opposite position          *)
(* long_wait:    an execution outlives close-all's wait for the markers          *)
(* part_flip:    the closing leg of a flip closes part and the entry leg goes on    *)
(* late_reduce:  a round sends a closing leg after close-all's wait              *)
(* start_inside: start is pressed while close-all runs                           *)
(* by_hand:      the user closes netted lots by hand and trades on before the book  *)
(*               is told, or between close-all's read and its restoring order       *)
(* unread_close: the exchange fills a close whose answer is an error             *)
AllShareFaults ==
  {"part_netted", "part_flip", "long_wait", "late_reduce", "start_inside",
   "by_hand", "unread_close"}

ASSUME ShareAssumption ==
  /\ MaxTarget \in Nat \ {0} /\ MaxUser \in Nat /\ MaxMoves \in Nat
  /\ IsFiniteSet(Flatteners) /\ NoFlattener \notin Flatteners
  /\ ShareFaults \subseteq AllShareFaults

VARIABLES
  user,     \* what the user holds
  own,      \* what the bot's fills, less what the user closed by hand, add up to
  byHand,   \* the user closed some of the bot's lots: the book says too much until it is told
  book,     \* what the replay of orders.jsonl answers: [qty, netted]
  target,   \* the lots the strategies want
  halt,     \* state/HALT
  short,    \* the record of an account read short of the book: "none", "fresh" (this round), "old"
  round,    \* the reconciler's round
  marked,   \* the in-flight marker of the round's order
  close,    \* the close-all processes
  lock,     \* state/flatten.lock
  moves     \* moves of the environment so far

vars == <<user, own, byHand, book, target, halt, short, round, marked, close, lock, moves>>
shares == <<user, own, byHand>>
venue  == <<user, own, byHand, book>>

Sgn(x) == IF x > 0 THEN 1 ELSE IF x < 0 THEN -1 ELSE 0
Abs(x) == IF x < 0 THEN -x ELSE x
Least(a, b) == IF a < b THEN a ELSE b

Account == user + own
(* Lots the account shows on side s (1 long, -1 short): _held_base.             *)
Held(s) == IF s * Account > 0 THEN Abs(Account) ELSE 0

NoBook == [qty |-> 0, netted |-> 0]
(* One fill of q signed lots replayed into the book (_ledger_walk).  room: how   *)
(* much of an entry the order lib saw net into an opposite position; back: the   *)
(* fill undid such netting.                                                      *)
Replay(b, q, room, back) ==
  LET qty == b.qty + q
      net == IF b.qty * q >= 0 THEN b.netted + Least(Abs(q), room)
             ELSE IF Abs(q) > Abs(b.qty) THEN 0
             ELSE IF back THEN IF b.netted > Abs(q) THEN b.netted - Abs(q) ELSE 0
             ELSE b.netted
  IN [qty |-> qty, netted |-> IF qty = 0 THEN 0 ELSE Least(net, Abs(qty))]

(* A leg of a round or a close: what filled and is not in orders.jsonl yet.      *)
NoFill == [qty |-> 0, room |-> 0, back |-> FALSE, writeoff |-> FALSE]
Idle == [pc |-> "idle", had |-> 0, want |-> 0, halted |-> FALSE, fill |-> NoFill]
Off == [pc |-> "off", book |-> NoBook, shows |-> 0, fill |-> NoFill, open |-> FALSE]

Init ==
  /\ user \in -MaxUser .. MaxUser /\ own = 0 /\ byHand = FALSE
  /\ book = NoBook /\ target = 0 /\ halt = FALSE /\ short = "none"
  /\ round = Idle /\ marked = FALSE
  /\ close = [f \in Flatteners |-> Off] /\ lock = NoFlattener /\ moves = 0

Move == moves < MaxMoves /\ moves' = moves + 1
Closing(f) == close[f].pc \notin {"off", "start", "wait"}

-----------------------------------------------------------------------------
(* The reconciler's round.                                                      *)

(* The record of the first short read does not outlive its round.                *)
AgedOut == "none"

(* Rounds are at least one poll apart, so a short read of an earlier round may    *)
(* now be confirmed (the record expires only after _ACCOUNT_SHORT_MAX_S).          *)
Aged == IF short = "fresh" THEN "old" ELSE short

(* reconcile: the round reads HALT, the target and the book once, and splits a   *)
(* flip into a close and an entry.                                               *)
RoundStart ==
  /\ round.pc = "idle" /\ target # book.qty
  /\ LET closes == book.qty # 0 /\ (target * book.qty <= 0 \/ Abs(target) < Abs(book.qty))
     IN round' = [pc |-> IF closes THEN "close" ELSE "entry", had |-> book.qty,
                  want |-> target, halted |-> halt, fill |-> NoFill]
  /\ short' = Aged
  /\ UNCHANGED <<venue, target, halt, marked, close, lock, moves>>

Flips == round.had * round.want < 0
(* The lots the closing leg asks for, and whether it is to leave the book flat.  *)
Asked == IF round.had * round.want <= 0 THEN Abs(round.had) ELSE Abs(round.had) - Abs(round.want)
Owned == IF Sgn(round.had) * book.qty > 0 THEN Abs(book.qty) ELSE 0
Whole == Asked >= Owned
Fills(n, all) == n \in 1 .. all /\ (Flips /\ "part_flip" \notin ShareFaults => n = all)
AfterClose == IF Flips THEN "entry" ELSE "end"

(* note_account_short: a read is believed on the second round that makes it.     *)
Noted(isShort) == IF ~isShort THEN "none" ELSE IF short = "none" THEN "fresh" ELSE short
Confirmed(isShort) == isShort /\ short = "old"

MayClose == "late_reduce" \in ShareFaults \/ \A f \in Flatteners : ~Closing(f)

(* _netted_exit: the account shows none of the bot's side and some of the other, *)
(* and the book recorded that an entry netted.                                   *)
Netted == Owned > 0 /\ book.netted > 0 /\ Held(Sgn(round.had)) = 0 /\ Held(-Sgn(round.had)) > 0
NettedLots == Least(Least(IF Whole THEN Owned ELSE Asked, book.netted), Held(-Sgn(round.had)))

(* The first such read waits for the next one: nothing is sent.                  *)
NettedWaits ==
  /\ round.pc = "close" /\ MayClose /\ Netted /\ ~Confirmed(TRUE)
  /\ short' = Noted(TRUE) /\ marked' = TRUE
  /\ round' = [round EXCEPT !.pc = AfterClose]
  /\ UNCHANGED <<venue, target, halt, close, lock, moves>>

(* Confirmed: a plain order gives the user's side back.  It may fill in part.    *)
NettedExit ==
  /\ round.pc = "close" /\ MayClose /\ Netted /\ Confirmed(TRUE)
  /\ \E n \in 1 .. NettedLots :
       /\ Fills(n, Owned)
       /\ own' = own - Sgn(round.had) * n
       /\ round' = [round EXCEPT !.pc = "closed",
                      !.fill = [NoFill EXCEPT !.qty = -Sgn(round.had) * n, !.back = TRUE]]
  /\ short' = "none" /\ marked' = TRUE
  /\ UNCHANGED <<user, byHand, book, target, halt, close, lock, moves>>

(* _book_reduce_qty: the bot's own lots, capped by what the account shows; an    *)
(* empty read is treated as a failed one until it is confirmed.                  *)
ReadsShort == Owned > 0 /\ Held(Sgn(round.had)) < Owned
Unread == Held(Sgn(round.had)) = 0 /\ ~Confirmed(ReadsShort)
Cap == IF Unread THEN Owned ELSE Least(Owned, Held(Sgn(round.had)))
ReduceLots == Least(IF Whole THEN Owned ELSE Asked, Cap)
(* _book_writeoff: what is left after a whole close can never be sold.           *)
Forgets(filled) == Whole /\ filled >= ReduceLots /\ filled < Owned /\ Confirmed(ReadsShort)

(* auto_place_order, reduce leg: nothing to send, and on a confirmed empty read  *)
(* the book is written off without an order.                                     *)
ReduceNothing ==
  /\ round.pc = "close" /\ MayClose /\ ~Netted /\ ReduceLots = 0
  /\ book' = IF Forgets(0) THEN NoBook ELSE book
  /\ short' = IF Forgets(0) THEN "none" ELSE Noted(ReadsShort)
  /\ marked' = TRUE /\ round' = [round EXCEPT !.pc = AfterClose]
  /\ UNCHANGED <<shares, target, halt, close, lock, moves>>

(* The venue fills a reduce-only order up to what the account shows, or less.    *)
ReduceFills ==
  /\ round.pc = "close" /\ MayClose /\ ~Netted
  /\ \E n \in 1 .. Least(ReduceLots, Held(Sgn(round.had))) :
       /\ Fills(n, ReduceLots)
       /\ own' = own - Sgn(round.had) * n
       /\ round' = [round EXCEPT !.pc = "closed",
                      !.fill = [NoFill EXCEPT !.qty = -Sgn(round.had) * n, !.writeoff = Forgets(n)]]
  /\ short' = Noted(ReadsShort) /\ marked' = TRUE
  /\ UNCHANGED <<user, byHand, book, target, halt, close, lock, moves>>

(* The venue refuses (nothing to reduce, an error): the round ends with a report.*)
ReduceFails ==
  /\ round.pc = "close" /\ MayClose /\ ReduceLots > 0
  /\ short' = IF Netted THEN short ELSE Noted(ReadsShort)
  /\ Netted => Confirmed(TRUE)
  /\ marked' = TRUE /\ round' = [round EXCEPT !.pc = "end"]
  /\ UNCHANGED <<venue, target, halt, close, lock, moves>>

(* _flush_legs, apply_ledger_writeoff: the close is in the log before the book   *)
(* is zeroed.  (With no write-off the line of a flip is written once, at its     *)
(* end; nothing reads it in between but another process.)                        *)
CloseLogged ==
  /\ round.pc = "closed"
  /\ LET b == Replay(book, round.fill.qty, 0, round.fill.back)
     IN book' = IF round.fill.writeoff THEN NoBook ELSE b
  /\ short' = IF round.fill.writeoff THEN "none" ELSE short
  /\ round' = [round EXCEPT !.pc = AfterClose, !.fill = NoFill]
  /\ UNCHANGED <<shares, target, halt, marked, close, lock, moves>>

EntryLots == IF Flips THEN round.want ELSE round.want - round.had
(* HALT, read at the round's start and now; and a flip does not open its new     *)
(* side while it is unknown whether the old one is closed.                       *)
EntryDenied ==
  /\ round.pc = "entry"
  /\ round.halted \/ halt \/ (Flips /\ short # "none")
  /\ round' = [round EXCEPT !.pc = "end"]
  /\ UNCHANGED <<venue, target, halt, short, marked, close, lock, moves>>

(* A netted share is given back whole only while the account shows at least as    *)
(* much of the other side: _netted_exit and _restore_netted both send no more.    *)
RestoredWhole(u, o) == "part_netted" \in ShareFaults \/ u * o >= 0 \/ Abs(u) >= 2 * Abs(o)

(* The entry; how much of it nets into an opposite position is read before it    *)
(* goes out (_netted_room).                                                      *)
EntryFills ==
  /\ round.pc = "entry" /\ ~round.halted /\ ~halt /\ ~(Flips /\ short # "none")
  /\ \E n \in 1 .. Abs(EntryLots) :
       LET q == Sgn(EntryLots) * n
       IN /\ RestoredWhole(user, own + q)
          /\ own' = own + q
          /\ round' = [round EXCEPT !.pc = "entered",
                         !.fill = [NoFill EXCEPT !.qty = q, !.room = Held(-Sgn(q))]]
  /\ marked' = TRUE
  /\ UNCHANGED <<user, byHand, book, target, halt, short, close, lock, moves>>

EntryFails ==
  /\ round.pc = "entry" /\ ~round.halted /\ ~halt
  /\ round' = [round EXCEPT !.pc = "end"] /\ marked' = TRUE
  /\ UNCHANGED <<venue, target, halt, short, close, lock, moves>>

EntryLogged ==
  /\ round.pc = "entered"
  /\ book' = Replay(book, round.fill.qty, round.fill.room, FALSE)
  /\ round' = [round EXCEPT !.pc = "end", !.fill = NoFill]
  /\ UNCHANGED <<shares, target, halt, short, marked, close, lock, moves>>

RoundEnds ==
  /\ round.pc = "end" /\ round' = Idle /\ marked' = FALSE
  /\ UNCHANGED <<venue, target, halt, short, close, lock, moves>>

Round == \/ RoundStart \/ NettedWaits \/ NettedExit \/ ReduceNothing \/ ReduceFills
         \/ ReduceFails \/ CloseLogged \/ EntryDenied \/ EntryFills \/ EntryFails
         \/ EntryLogged \/ RoundEnds

-----------------------------------------------------------------------------
(* Close-all.                                                                   *)

Reconciler == <<target, short, round, marked>>

(* _cmd_close_all trips HALT, then launches; by hand the script is just run.     *)
Launch(f) ==
  /\ close[f].pc = "off" /\ Move
  /\ \E pressed \in BOOLEAN : halt' = (halt \/ pressed)
  /\ close' = [close EXCEPT ![f].pc = "start"]
  /\ UNCHANGED <<venue, Reconciler, lock>>

(* _singleflight: one close-all per machine; it trips HALT itself.               *)
TakeLock(f) ==
  /\ close[f].pc = "start" /\ lock = NoFlattener
  /\ lock' = f /\ halt' = TRUE /\ close' = [close EXCEPT ![f].pc = "wait"]
  /\ UNCHANGED <<venue, Reconciler, moves>>

Refused(f) ==
  /\ close[f].pc = "start" /\ lock # NoFlattener
  /\ close' = [close EXCEPT ![f] = Off]
  /\ UNCHANGED <<venue, Reconciler, halt, lock, moves>>

(* Close-all does not wait for the marker of a running execution.                *)
WaitedNot(f) ==
  /\ close[f].pc = "wait"
  /\ close' = [close EXCEPT ![f].pc = "book"]
  /\ UNCHANGED <<venue, Reconciler, halt, lock, moves>>

(* _wait_for_inflight: until no execution is marked, or the deadline.            *)
Waited(f) ==
  /\ close[f].pc = "wait" /\ (~marked \/ "long_wait" \in ShareFaults)
  /\ close' = [close EXCEPT ![f].pc = "book"]
  /\ UNCHANGED <<venue, Reconciler, halt, lock, moves>>

(* _venue_book: the bot's book on this venue.                                    *)
ReadBook(f) ==
  /\ close[f].pc = "book"
  /\ close' = [close EXCEPT ![f].pc = "positions", ![f].book = book]
  /\ UNCHANGED <<venue, Reconciler, halt, lock, moves>>

ReadPositions(f) ==
  /\ close[f].pc = "positions"
  /\ close' = [close EXCEPT ![f].pc = "restore", ![f].shows = Account]
  /\ UNCHANGED <<venue, Reconciler, halt, lock, moves>>

(* get_positions failed: nothing is closed and nothing is swept.                 *)
PositionsFail(f) ==
  /\ close[f].pc = "positions"
  /\ close' = [close EXCEPT ![f] = Off] /\ lock' = NoFlattener
  /\ UNCHANGED <<venue, Reconciler, halt, moves>>

Side(f) == Sgn(close[f].book.qty)
Restores(f) == close[f].book.netted > 0 /\ Side(f) * close[f].shows < 0
RestoreLots(f) == Least(Least(close[f].book.netted, Abs(close[f].book.qty)), Abs(close[f].shows))
(* A row the book does not claim is the user's and stays untouched.              *)
Claims(f) == Side(f) # 0 /\ Side(f) * close[f].shows > 0
CloseLots(f) == Least(Abs(close[f].shows), Abs(close[f].book.qty))

Filled(f, n, all, back) ==
  /\ own' = own - Side(f) * n
  /\ close' = [close EXCEPT ![f].pc = "log", ![f].open = (n < all),
                 ![f].fill = [NoFill EXCEPT !.qty = -Side(f) * n, !.back = back]]
  /\ UNCHANGED <<user, byHand, book, Reconciler, halt, lock, moves>>

(* _restore_netted: a plain order of at most the recorded netted lots.  A book   *)
(* only partly netted leaves its rest open.                                      *)
Restore(f) ==
  /\ close[f].pc = "restore" /\ Restores(f)
  /\ \E n \in 1 .. RestoreLots(f) : Filled(f, n, RestoreLots(f), TRUE)

(* The reduce-only close of min(book, account).                                  *)
CloseRow(f) ==
  /\ close[f].pc = "restore" /\ Claims(f)
  /\ \E n \in 1 .. Least(CloseLots(f), Held(Side(f))) : Filled(f, n, CloseLots(f), FALSE)

(* An error: nothing filled, or, unread, it did; the key stays open either way.  *)
CloseFails(f) ==
  /\ close[f].pc = "restore" /\ (Restores(f) \/ Claims(f))
  /\ \/ own' = own
     \/ "unread_close" \in ShareFaults /\ Claims(f) /\ Held(Side(f)) >= CloseLots(f)
        /\ own' = own - Side(f) * CloseLots(f)
  /\ close' = [close EXCEPT ![f].pc = "zero", ![f].open = TRUE]
  /\ UNCHANGED <<user, byHand, book, Reconciler, halt, lock, moves>>

NothingToClose(f) ==
  /\ close[f].pc = "restore" /\ ~Restores(f) /\ ~Claims(f)
  /\ close' = [close EXCEPT ![f].pc = "zero"]
  /\ UNCHANGED <<venue, Reconciler, halt, lock, moves>>

LogClose(f) ==
  /\ close[f].pc = "log"
  /\ book' = Replay(book, close[f].fill.qty, 0, close[f].fill.back)
  /\ close' = [close EXCEPT ![f].pc = "zero", ![f].fill = NoFill]
  /\ UNCHANGED <<shares, Reconciler, halt, lock, moves>>

(* Close-all zeroes every row it read, one it left open included.                *)
ZeroWhatever(f) ==
  /\ close[f].pc = "zero"
  /\ book' = IF close[f].book.qty = 0 THEN book ELSE NoBook
  /\ close' = [close EXCEPT ![f] = Off] /\ lock' = NoFlattener
  /\ UNCHANGED <<shares, Reconciler, halt, moves>>

(* zero_ledger_symbols: every key the book had, closed or not shown by the       *)
(* account, except one left open.                                                *)
Zero(f) ==
  /\ close[f].pc = "zero"
  /\ book' = IF close[f].book.qty = 0 \/ close[f].open THEN book ELSE NoBook
  /\ close' = [close EXCEPT ![f] = Off] /\ lock' = NoFlattener
  /\ UNCHANGED <<shares, Reconciler, halt, moves>>

CloseAll(f) ==
  \/ TakeLock(f) \/ Refused(f) \/ Waited(f) \/ ReadBook(f) \/ ReadPositions(f)
  \/ PositionsFail(f) \/ Restore(f) \/ CloseRow(f) \/ CloseFails(f) \/ NothingToClose(f)
  \/ LogClose(f) \/ Zero(f)

-----------------------------------------------------------------------------
(* The strategies, the user's start, and the user's own trading.                *)

Retarget ==
  /\ Move /\ \E t \in -MaxTarget .. MaxTarget : t # target /\ target' = t
  /\ UNCHANGED <<venue, halt, short, round, marked, close, lock>>

Start ==
  /\ halt /\ Move /\ halt' = FALSE
  /\ "start_inside" \in ShareFaults \/ \A f \in Flatteners : close[f].pc = "off"
  /\ UNCHANGED <<venue, Reconciler, close, lock>>

(* One lot by hand.  On a net account a trade against the bot's side first uses  *)
(* up the user's own lots, then closes the bot's; one that brings the shown      *)
(* position to zero closes everything the user sees.  After closing some of the  *)
(* bot's lots the user does not reopen that side before the book was told.       *)
Trade(t) ==
  LET s == Sgn(own)
  IN /\ Move /\ (byHand => t * own <= 0 /\ t * (book.qty + round.fill.qty) <= 0)
     /\ Abs(user + t) <= MaxUser
     /\ \/ "by_hand" \in ShareFaults
        \/ /\ byHand => book.netted = 0 /\ round.fill.room = 0
           /\ \A f \in Flatteners : ~(close[f].pc = "restore" /\ Restores(f))
     /\ \/ s * t >= 0 /\ s * user >= 0 /\ user' = user + t /\ own' = own /\ byHand' = byHand
        \/ s * t < 0 /\ user # 0 /\ user' = user + t /\ own' = own /\ byHand' = byHand
        \/ s * t < 0 /\ user = 0 /\ user' = 0 /\ own' = own + t /\ byHand' = TRUE
        \/ s * t > 0 /\ s * user < 0 /\ Abs(user) > Abs(own) + 1 /\ RestoredWhole(user + t, own)
           /\ user' = user + t /\ own' = own /\ byHand' = byHand
        \/ s * t > 0 /\ s * user < 0 /\ Abs(user) = Abs(own) + 1
           /\ user' = 0 /\ own' = 0 /\ byHand' = TRUE
     /\ UNCHANGED <<book, Reconciler, halt, close, lock>>

(* The book was told: write-off or close brought it back to the bot's share.     *)
Told ==
  /\ byHand /\ book.qty = own /\ round.fill = NoFill /\ \A f \in Flatteners : close[f].pc = "off"
  /\ byHand' = FALSE
  /\ UNCHANGED <<user, own, book, Reconciler, halt, close, lock, moves>>

(* Nothing due: the machine waits for the next poll.                            *)
AtRest == target = book.qty /\ round.pc = "idle" /\ UNCHANGED vars

Next == \/ Round \/ (\E f \in Flatteners : Launch(f) \/ CloseAll(f))
        \/ Retarget \/ Start \/ (\E t \in {-1, 1} : Trade(t)) \/ Told \/ AtRest

Spec == Init /\ [][Next]_vars

(* The reconciler polls, a launched close-all runs to its end, and a venue that   *)
(* is asked again and again fills a closing order at last.                        *)
Fairness ==
  /\ WF_vars(Round) /\ \A f \in Flatteners : WF_vars(CloseAll(f))
  /\ SF_vars(ReduceFills) /\ SF_vars(NettedExit)

FairSpec == Spec /\ Fairness

TypeOK ==
  /\ user \in Int /\ own \in Int /\ byHand \in BOOLEAN /\ target \in Int /\ halt \in BOOLEAN
  /\ book.qty \in Int /\ book.netted \in 0 .. Abs(book.qty)
  /\ short \in {"none", "fresh", "old"} /\ marked \in BOOLEAN
  /\ lock \in Flatteners \cup {NoFlattener}

(* Once every fill is in orders.jsonl, the book is what the bot holds: no round,  *)
(* no write-off of what the account does not show and no close-all in between     *)
(* makes it claim the user's lots or forget its own, so a flat book means the     *)
(* account is exactly the user's (venue_wiring.py:378-383).                       *)
BookIsShare ==
  ~byHand /\ round.fill = NoFill /\ (\A f \in Flatteners : close[f].fill = NoFill)
    => book.qty = own

(* The bot opens only while trading is not halted and sells only what it holds:   *)
(* no closing leg of a round and no close-all, alone or beside each other, takes  *)
(* the bot's share through zero and eats into the user's (flatten.py:10-13).      *)
Shares == INSTANCE TwoShares WITH hand <- user, bot <- own
OnlyItsOwn == Shares!Spec

(* When the strategies want nothing any more, the book comes down to nothing,     *)
(* whatever netted, was closed by hand or reads short on the way: the second read *)
(* is taken and believed.                                                         *)
ExitsEnd == <>[](target = 0) => <>[](book.qty = 0)
=============================================================================
