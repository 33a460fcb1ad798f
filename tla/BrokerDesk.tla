----------------------------- MODULE BrokerDesk -----------------------------
(* Orders to the broker of Taiwan index futures (lib/order_president.py) and  *)
(* the worker that reads its account (lib/president_worker.py).  Any process   *)
(* may send: the reconciler, a close-all, a script.  None asks the broker what *)
(* is held: each decides on the worker's last read, and the marker of the last *)
(* send says whether that read is young enough to show it.                     *)
(*                                                                             *)
(* One root with two contract months, "old" and "new", and a bot that is long  *)
(* (short is the mirror image); time in steps of some seconds.  An order is    *)
(* immediate-or-cancel, any part of it may fill; the position query shows a    *)
(* fill within Lag.  The worker's poll and its early tick may fall at any      *)
(* time, so the flag that calls for one is left out, as are the age limit of a *)
(* read, maintenance, client tags and HALT.  A close is sized by the book as it *)
(* is at its claim: the age of a round's read of it is Execution's subject.    *)
EXTENDS Integers

CONSTANTS
  Senders,     \* processes that send orders
  Settle,      \* president_vault.ORDER_SETTLE_S
  Lag,         \* the query shows a fill at most so long after the send
  LoginMax,    \* from a claim to its send: LOGIN_TIMEOUT_S, which is above
               \* ORDER_SETTLE_S, and the list query
  Await,       \* confirm_timeout, and the line in the book
  MaxLots,     \* lots of one order
  MaxSends,    \* bound: orders claimed
  MaxMoves,    \* bound: lots the user buys in the broker's app
  Horizon,     \* bound: the clock
  DeskFaults

\* late_fill   a fill reported after the order gave up waiting, or a death before its line
DeskFaultKinds == {"late_fill"}

ASSUME DeskAssumption ==
  /\ Settle \in Nat /\ Lag \in Nat /\ LoginMax \in Nat /\ Await \in Nat
  /\ MaxLots \in Nat /\ MaxSends \in Nat /\ MaxMoves \in Nat /\ Horizon \in Nat
  /\ Lag < Settle /\ Await < Settle
  /\ DeskFaults \subseteq DeskFaultKinds

Contracts == {"old", "new"}

VARIABLES
  now,
  calendar,    \* "front"; "rolled": entries go to "new"; "settled": the time is past
  listed,      \* the broker lists "old"
  lotsHeld,    \* lots at the broker, the user's among them
  own,         \* ghost: the lots of them the bot's orders made
  book,        \* the bot's lots as its book has them
  sent,        \* ghost: orders sent so far, per contract
  lastSend,    \* ghost: when the last of them left; -1 none
  prompt,      \* ghost: the last of them that left within Settle of its claim
  outran,      \* ghost: one has left later than that
  query,       \* what the position query shows: lots, and (ghost) how many sends
  sendMarker,  \* president_last_order_at.json; -1 none
  order,       \* the order each caller is about
  reading,     \* the read the worker is about
  snapshot,    \* president_account.json
  sends, moves \* bounds

deskVars == <<now, calendar, listed, lotsHeld, own, book, sent, lastSend, prompt, outran, query,
              sendMarker, order, reading, snapshot, sends, moves>>
clock  == <<now, calendar, listed>>
wire   == <<sent, lastSend, prompt, outran>>
broker == <<lotsHeld, own, wire, query>>
reads  == <<reading, snapshot>>
bounds == <<sends, moves>>

Nothing == [m \in Contracts |-> 0]
NoOrder == [phase |-> "none"]
NoRead  == [ok |-> FALSE]

DeskInit ==
  /\ now = 0 /\ calendar = "front" /\ listed = TRUE
  /\ lotsHeld = Nothing /\ own = Nothing /\ book = Nothing
  /\ sent = Nothing /\ prompt = Nothing /\ outran = FALSE
  /\ query = [lots |-> Nothing, shown |-> Nothing]
  /\ lastSend = [m \in Contracts |-> -1] /\ sendMarker = lastSend
  /\ order = [c \in Senders |-> NoOrder]
  /\ reading = NoRead /\ snapshot = NoRead
  /\ sends = 0 /\ moves = 0

-----------------------------------------------------------------------------
(* The worker: reads of the account, written to a file.                      *)

\* read_account: the start is stamped, the margin is asked for ...
StartRead ==
  /\ reading = NoRead
  /\ reading' = [ok |-> FALSE, started |-> now]
  /\ UNCHANGED <<clock, broker, book, sendMarker, order, snapshot, bounds>>

\* ... then the positions, with the contract list of up to five minutes ago, or
\* none; and the file is written.
ReadPositions ==
  /\ reading # NoRead
  /\ \E l \in {"listed", "gone", "unread"} :
       /\ l = "gone" => ~listed
       /\ snapshot' = [ok |-> TRUE, started |-> reading.started, lots |-> query.lots,
                       shown |-> query.shown, oldIs |-> l]
  /\ reading' = NoRead
  /\ UNCHANGED <<clock, broker, book, sendMarker, order, bounds>>

\* Over the query limit the last read stands; after two failures the file says so.
ReadFails ==
  /\ reading # NoRead
  /\ reading' = NoRead /\ snapshot' \in {snapshot, NoRead}
  /\ UNCHANGED <<clock, broker, book, sendMarker, order, bounds>>

-----------------------------------------------------------------------------
(* An order.                                                                 *)

\* The margin of ORDER_SETTLE_S forgotten.
CaughtUpUnsettled(ms) == \A m \in ms : sendMarker[m] = -1 \/ snapshot.started >= sendMarker[m]

\* snapshot_caught_up: the read STARTED after the last send had settled.
CaughtUp(ms) == \A m \in ms : sendMarker[m] = -1 \/ snapshot.started >= sendMarker[m] + Settle

\* bot_rows: the held months the book has, without what has settled.
Rows ==
  {m \in Contracts : /\ snapshot.lots[m] # 0 /\ book[m] # 0
                     /\ m = "old" /\ calendar = "settled" => snapshot.oldIs = "listed"}

\* ListUnknown: a month past its settlement, and no list to tell.
Unknown ==
  /\ calendar = "settled" /\ snapshot.oldIs = "unread"
  /\ snapshot.lots["old"] # 0 /\ book["old"] # 0

\* computed_near: the roll comes the evening before the settlement.
Near == IF calendar = "front" THEN "old" ELSE "new"

\* _checked_close, for the root: one month, read after its last send, so many lots.
CloseGoesTo(m, n) ==
  /\ Rows = {m} /\ CaughtUp({m})
  /\ snapshot.lots[m] >= n

\* The calendar alone, whatever month is held.
EntryByCalendar(m) == CaughtUp(Contracts) /\ m = Near

\* _entry_contract_checked: read after every send; the month held, else the near one.
EntryGoesTo(m) ==
  /\ CaughtUp(Contracts)
  /\ \/ Rows = {m}
     \/ Rows = {} /\ m = Near

\* _claim, under the machine-wide lock: check, and put the marker down.
Claim(c, m, n, intent) ==
  /\ order[c].phase = "none"
  /\ sends < MaxSends /\ sends' = sends + 1
  /\ snapshot.ok /\ ~Unknown
  /\ \/ intent = "reduce" /\ n <= book[m] /\ CloseGoesTo(m, n)
     \/ intent = "entry" /\ EntryGoesTo(m)
  /\ sendMarker' = [sendMarker EXCEPT ![m] = now]
  /\ order' = [order EXCEPT ![c] = [phase |-> "login", intent |-> intent, month |-> m, lots |-> n,
                                    at |-> now, shown |-> snapshot.shown[m]]]
  /\ UNCHANGED <<clock, broker, book, reads, moves>>

\* The login is refused or fails, the month is not listed, a reboot stopped
\* trading; or the order is not taken, behind its second marker.
NotSent(c) ==
  /\ order[c].phase = "login"
  /\ sendMarker' \in {sendMarker, [sendMarker EXCEPT ![order[c].month] = now]}
  /\ order' = [order EXCEPT ![c] = NoOrder]
  /\ UNCHANGED <<clock, broker, book, reads, bounds>>

Prompt(o) == now < o.at + Settle

\* _send: the marker once more, and the order; a close can only close.
Send(c) ==
  LET o == order[c] IN
  /\ o.phase = "login"
  /\ o.intent = "entry" => o.month = "new" \/ listed
  /\ sendMarker' = [sendMarker EXCEPT ![o.month] = now]
  /\ \E f \in 0 .. o.lots :
       LET made == IF o.intent = "entry" THEN f ELSE -f IN
       /\ o.intent = "reduce" => f <= lotsHeld[o.month]
       /\ lotsHeld' = [lotsHeld EXCEPT ![o.month] = @ + made]
       /\ own' = [own EXCEPT ![o.month] = @ + made]
       /\ order' = [order EXCEPT ![c] = [phase |-> "sent", month |-> o.month, at |-> now,
                                         made |-> made]]
  /\ prompt' = IF Prompt(o) THEN [prompt EXCEPT ![o.month] = sent[o.month] + 1] ELSE prompt
  /\ outran' = (outran \/ ~Prompt(o))
  /\ sent' = [sent EXCEPT ![o.month] = @ + 1]
  /\ lastSend' = [lastSend EXCEPT ![o.month] = now]
  /\ UNCHANGED <<clock, query, book, reads, bounds>>

\* _await, and the caller's line in orders.jsonl.
Recorded(c) ==
  /\ order[c].phase = "sent"
  /\ \/ book' = [book EXCEPT ![order[c].month] = @ + order[c].made]
     \/ "late_fill" \in DeskFaults /\ UNCHANGED book
  /\ order' = [order EXCEPT ![c] = NoOrder]
  /\ UNCHANGED <<clock, broker, sendMarker, reads, bounds>>

-----------------------------------------------------------------------------
(* The broker, the user and the clock.                                       *)

\* The query comes to show what has been done.
Shows ==
  /\ query' = [lots |-> lotsHeld, shown |-> sent]
  /\ query' # query
  /\ UNCHANGED <<clock, lotsHeld, own, wire, book, sendMarker, order, reads, bounds>>

\* The user buys lots of their own in the broker's app, in either month; one they
\* sell again only takes from what is held beyond the bot's.
UserBuys(m) ==
  /\ moves < MaxMoves /\ moves' = moves + 1
  /\ m = "old" => listed
  /\ lotsHeld' = [lotsHeld EXCEPT ![m] = @ + 1]
  /\ UNCHANGED <<clock, own, wire, query, book, sendMarker, order, reads, sends>>

\* Entries roll, the evening before ...
Roll ==
  /\ calendar = "front"
  /\ calendar' = "rolled"
  /\ UNCHANGED <<now, listed, broker, book, sendMarker, order, reads, bounds>>

\* ... the time of settlement comes ...
SettlementTime ==
  /\ calendar = "rolled"
  /\ calendar' = "settled"
  /\ UNCHANGED <<now, listed, broker, book, sendMarker, order, reads, bounds>>

\* ... and "old" settles in cash, at once or after a holiday.
Settles ==
  /\ calendar = "settled" /\ listed
  /\ listed' = FALSE
  /\ lotsHeld' = [lotsHeld EXCEPT !["old"] = 0] /\ own' = [own EXCEPT !["old"] = 0]
  /\ UNCHANGED <<now, calendar, wire, query, book, sendMarker, order, reads, bounds>>

\* Time passes, but not past the moment a fill shows or a call returns.
Tick ==
  /\ now < Horizon
  /\ \A m \in Contracts : query.shown[m] < sent[m] => now < lastSend[m] + Lag
  /\ \A c \in Senders :
       /\ order[c].phase = "login" => now < order[c].at + LoginMax
       /\ order[c].phase = "sent" => now < order[c].at + Await
  /\ now' = now + 1
  /\ UNCHANGED <<calendar, listed, broker, book, sendMarker, order, reads, bounds>>

OrderStep(c) ==
  \/ \E m \in Contracts, n \in 1 .. MaxLots, i \in {"entry", "reduce"} : Claim(c, m, n, i)
  \/ NotSent(c) \/ Send(c) \/ Recorded(c)

DeskNext ==
  \/ StartRead \/ ReadPositions \/ ReadFails
  \/ \E c \in Senders : OrderStep(c)
  \/ \E m \in Contracts : UserBuys(m)
  \/ Shows \/ Roll \/ SettlementTime \/ Settles \/ Tick

DeskSpec == DeskInit /\ [][DeskNext]_deskVars

-----------------------------------------------------------------------------
(* What is relied on.                                                        *)

\* No order leaves on a read that misses an earlier order of its contract,
\* whoever sent it: not a close behind a close, not an entry behind an entry
\* (order_president._claim and _send_lock; ORDER_SETTLE_S, president_vault.py:73).
\* Neither may have spent ORDER_SETTLE_S on its login, as LOGIN_TIMEOUT_S lets it.
SendsInTurn ==
  [][\A c \in Senders :
       order[c].phase = "login" /\ order'[c].phase = "sent" /\ Prompt(order[c]) =>
         order[c].shown >= prompt[order[c].month]]_deskVars

\* The bot never holds two contract months of a root, whatever rolls or settles
\* between a claim, its fill and the read that shows it, and no close takes a lot
\* that is the user's, until a login has taken so long (order_president's
\* entry_contract and _checked_close).
OwnMonthOnly ==
  outran \/ /\ own["old"] = 0 \/ own["new"] = 0
            /\ \A m \in Contracts : own[m] >= 0
=============================================================================
