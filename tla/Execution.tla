----------------------------- MODULE Execution -----------------------------
(***************************************************************************)
(* One symbol of the reconciler in its own-book mode: the synchronous      *)
(* round (lib/portfolio.reconcile) and the TWAP / chase / custom threads   *)
(* it launches (lib/execute), the two in-flight markers they keep on disk, *)
(* the fills they append to manager/orders.jsonl, the death of the process *)
(* at any point, and the next start (reap_dead_inflight).                  *)
(*                                                                         *)
(* Quantities are signed whole lots, positive for long.  `pos' is what the *)
(* bot's orders have really made of the account; `book' is the replay of   *)
(* orders.jsonl, the only position the program diffs against.  What a      *)
(* living process still holds in memory is not a gap; everything else that *)
(* the two disagree on is Unaccounted.                                     *)
(***************************************************************************)
EXTENDS Integers, Sequences

CONSTANTS
  Targets,      \* the signed sizes the strategies may ask for, in lots
  Faults,       \* the environment faults of this instance, see FaultKinds
  MaxDeaths,    \* bound: how often the process may die
  MaxGap        \* bound: no fill goes missing that takes the gap past it

\* wedge: a thread ignores its stop for more than _REDUCE_ESCAPE_S.
\* unread_fill: the venue filled an order whose confirmation never came back.
\* lost_record: a TWAP thread raises between its fills and _finish, or the disk
\* is full when the fills are appended to orders.jsonl.
FaultKinds == {"wedge", "unread_fill", "lost_record"}

ASSUME ExecutionAssumption ==
  /\ Targets \subseteq Int
  /\ Faults \subseteq FaultKinds
  /\ MaxDeaths \in Nat
  /\ MaxGap \in Nat

VARIABLES
  pc,           \* where the reconciler process is, see PCs
  legs,         \* the legs of this round not yet dealt with, head first
  startHalted,  \* halted_at_start of this round
  unflushed,    \* fills of this round whose orders.jsonl line is not written
  thread,       \* the executor threads: the registered one, an abandoned one
  marker,       \* state/execution/inflight/<symbol>.json exists
  mktMarker,    \* state/execution/inflight/<symbol>_market.json exists
  pos, book,
  resting,      \* a limit order a dead process left at the venue
  target,       \* what the strategies ask for now
  halt,         \* state/HALT exists
  barred,       \* a restart stop or an account hold: no order of any kind
  reported,     \* the gap the user was told to verify
  acked,        \* the gap the user had been told of when pressing start
  deaths

round == <<pc, legs, startHalted, unflushed>>
disk  == <<marker, mktMarker>>
user  == <<target, barred>>
vars  == <<round, thread, disk, pos, book, resting, user, halt,
           reported, acked, deaths>>

PCs     == {"down", "boot", "reaped", "idle", "legs", "sent", "flushed"}
Living  == PCs \ {"down", "boot"}
Phases  == {"none", "work", "sent", "finish", "reap"}
Slots   == {"registered", "abandoned"}

Leg     == [qty : Int, reduce : BOOLEAN]
NoOrder == [qty |-> 0, reduce |-> FALSE]
Thread  == [phase : Phases, sign : {-1, 1}, reduce : BOOLEAN,
            left : Nat, filled : Int, stop : BOOLEAN]
NoThread == [phase |-> "none", sign |-> 1, reduce |-> FALSE,
             left |-> 0, filled |-> 0, stop |-> FALSE]

TypeOK ==
  /\ pc \in PCs
  /\ legs \in Seq(Leg)
  /\ startHalted \in BOOLEAN
  /\ unflushed \in Int
  /\ thread \in [Slots -> Thread]
  /\ marker \in BOOLEAN /\ mktMarker \in BOOLEAN
  /\ pos \in Int /\ book \in Int /\ resting \in Leg
  /\ target \in Int
  /\ halt \in BOOLEAN /\ barred \in BOOLEAN
  /\ reported \in Int /\ acked \in Int
  /\ deaths \in Nat

-----------------------------------------------------------------------------
Abs(n)       == IF n < 0 THEN -n ELSE n
Least(m, n)  == IF m < n THEN m ELSE n
SignOf(n)    == IF n < 0 THEN -1 ELSE 1
Toward(q, n) == IF q < 0 THEN -n ELSE n     \* n lots in the direction of q

\* Lots of a position p that an order in the direction of q would close.
Against(p, q) == IF (p > 0 /\ q < 0) \/ (p < 0 /\ q > 0) THEN Abs(p) ELSE 0

\* What the venue executes: a reduce-only order never goes through flat.
Executed(q, reduce) ==
  IF reduce THEN Toward(q, Least(Abs(q), Against(pos, q))) ELSE q

Unaccounted ==
  pos - book - unflushed - thread["registered"].filled
             - thread["abandoned"].filled

\* The sub_orders of one diff: a flip is a close leg and an entry leg.
LegsFor(b, t) ==
  IF b = t THEN <<>>
  ELSE IF (b > 0 /\ t < 0) \/ (b < 0 /\ t > 0)
       THEN <<[qty |-> -b, reduce |-> TRUE], [qty |-> t, reduce |-> FALSE]>>
       ELSE <<[qty |-> t - b, reduce |-> Abs(t) < Abs(b)]>>

\* A reduce order is sized from the book as it is when the order is sent, less
\* what this execution sold already (_book_row, _book_reduce_qty).
Owned(q, sold) ==
  IF Against(book, q) > Abs(sold) THEN Against(book, q) - Abs(sold) ELSE 0

Sized(q, reduce) ==
  IF reduce THEN Toward(q, Least(Abs(q), Owned(q, 0))) ELSE q

\* Mutant: the leg trusts what the round saw at its start.
EntryDeniedAtStart == startHalted

EntryDenied == startHalted \/ halt

\* A fill whose answer never came back; fills whose record is lost.  Both only
\* within the bound on the gap.
Unread(q) == "unread_fill" \in Faults /\ Abs(Unaccounted + q) <= MaxGap
Lost(q)   == "lost_record" \in Faults /\ q # 0 /\ Abs(Unaccounted + q) <= MaxGap

Init ==
  /\ pc = "idle" /\ legs = <<>> /\ startHalted = FALSE /\ unflushed = 0
  /\ thread = [s \in Slots |-> NoThread]
  /\ marker = FALSE /\ mktMarker = FALSE
  /\ pos = 0 /\ book = 0 /\ resting = NoOrder
  /\ target = 0 /\ halt = FALSE /\ barred = FALSE
  /\ reported = 0 /\ acked = 0 /\ deaths = 0

-----------------------------------------------------------------------------
(* The round: lib/portfolio.reconcile, run by the main thread of the         *)
(* reconciler.  It reads the book once, at its start.                        *)

StartRound ==
  /\ pc = "idle" /\ ~barred /\ LegsFor(book, target) # <<>>
  /\ legs' = LegsFor(book, target)
  /\ startHalted' = halt
  /\ pc' = "legs"
  /\ UNCHANGED <<unflushed, thread, disk, pos, book, resting, user, halt,
                 reported, acked, deaths>>

\* Mutant: the round waits for the HALT to lift instead of dropping the order.
DenyEntryWaiting ==
  /\ pc = "legs" /\ legs # <<>>
  /\ ~Head(legs).reduce /\ EntryDenied
  /\ UNCHANGED vars

\* An entry leg under HALT ends the order; the marker is not written yet.
DenyEntry ==
  /\ pc = "legs" /\ legs # <<>>
  /\ ~Head(legs).reduce /\ EntryDenied
  /\ legs' = <<>>
  /\ UNCHANGED <<pc, startHalted, unflushed, thread, disk, pos, book, resting,
                 user, halt, reported, acked, deaths>>

\* Mutant: a market order without its marker.
PlaceHeadUnmarked ==
  /\ pc = "legs" /\ legs # <<>>
  /\ Head(legs).reduce \/ ~EntryDenied
  /\ UNCHANGED mktMarker

\* The leg goes to place_order; from here on the market marker is on disk.
PlaceHead ==
  /\ pc = "legs" /\ legs # <<>>
  /\ Head(legs).reduce \/ ~EntryDenied
  /\ mktMarker' = TRUE

\* A restart stop answers False for the leg, an account hold raises.
SkipBarred ==
  /\ PlaceHead /\ barred
  /\ legs' \in {Tail(legs), <<>>}
  /\ UNCHANGED <<pc, startHalted, unflushed, thread, marker, pos, book, resting,
                 user, halt, reported, acked, deaths>>

\* dispatch_order finds a live execution of the symbol: an overdue one and an
\* entry whose target flipped are told to stop, the leg answers False.
Defer ==
  LET run == thread["registered"] IN
  /\ PlaceHead /\ ~barred
  /\ run.phase # "none"
  /\ \E overdue \in BOOLEAN :
       LET flipped == ~run.reduce /\ SignOf(Head(legs).qty) # run.sign IN
       thread' = [thread EXCEPT !["registered"].stop = @ \/ overdue \/ flipped]
  /\ legs' = Tail(legs)
  /\ UNCHANGED <<pc, startHalted, unflushed, marker, pos, book, resting,
                 user, halt, reported, acked, deaths>>

\* The escape hatch: a close does not wait for a thread that ignored its stop
\* for _REDUCE_ESCAPE_S.  The thread lives on, out of the registry.
Abandon ==
  LET run == thread["registered"] IN
  /\ "wedge" \in Faults
  /\ PlaceHead /\ ~barred
  /\ run.phase # "none" /\ run.stop /\ Head(legs).reduce
  /\ thread["abandoned"].phase = "none"      \* bound: one abandoned thread
  /\ thread' = [thread EXCEPT !["abandoned"] = run, !["registered"] = NoThread]
  /\ UNCHANGED <<round, marker, pos, book, resting, user, halt,
                 reported, acked, deaths>>

\* The market style, and nothing of the bot's own is left to close:
\* auto_place_order answers False.
SkipEmpty ==
  /\ PlaceHead /\ ~barred
  /\ thread["registered"].phase = "none"
  /\ Sized(Head(legs).qty, Head(legs).reduce) = 0
  /\ legs' = Tail(legs)
  /\ UNCHANGED <<pc, startHalted, unflushed, thread, marker, pos, book, resting,
                 user, halt, reported, acked, deaths>>

\* The market style: the order is at the venue until its answer comes.
SendMarket ==
  LET leg == Head(legs)
      qty == Sized(leg.qty, leg.reduce) IN
  /\ PlaceHead /\ ~barred
  /\ thread["registered"].phase = "none"
  /\ qty # 0
  /\ legs' = <<[leg EXCEPT !.qty = qty]>> \o Tail(legs)
  /\ pc' = "sent"
  /\ UNCHANGED <<startHalted, unflushed, thread, marker, pos, book, resting,
                 user, halt, reported, acked, deaths>>

NewRun(leg) ==
  [phase |-> "work", sign |-> SignOf(leg.qty), reduce |-> leg.reduce,
   left |-> Abs(leg.qty), filled |-> 0, stop |-> FALSE]

\* Mutant: a thread without its marker.
RegisterUnmarked(run) ==
  /\ thread' = [thread EXCEPT !["registered"] = run]
  /\ UNCHANGED marker

\* The registry entry and the marker are written under one lock.
Register(run) ==
  /\ thread' = [thread EXCEPT !["registered"] = run]
  /\ marker' = TRUE

\* The other styles: a thread is registered and started; the leg answers False.
Launch ==
  /\ PlaceHead /\ ~barred
  /\ thread["registered"].phase = "none"
  /\ Register(NewRun(Head(legs)))
  /\ legs' = Tail(legs)
  /\ UNCHANGED <<pc, startHalted, unflushed, pos, book, resting, user, halt,
                 reported, acked, deaths>>

Filled(q, reduce) == pos' = pos + Executed(q, reduce) /\ Executed(q, reduce) # 0

LegFilled ==
  LET leg == Head(legs) IN
  /\ pc = "sent" /\ Filled(leg.qty, leg.reduce)
  /\ unflushed' = unflushed + Executed(leg.qty, leg.reduce)
  /\ legs' = Tail(legs) /\ pc' = "legs"
  /\ UNCHANGED <<startHalted, thread, disk, book, resting, user, halt,
                 reported, acked, deaths>>

\* place_order raised: the order failed, the remaining legs are dropped.
LegFailed ==
  /\ pc = "sent"
  /\ legs' = <<>> /\ pc' = "legs"
  /\ UNCHANGED <<startHalted, unflushed, thread, disk, pos, book, resting, user,
                 halt, reported, acked, deaths>>

\* place_order raised although the venue had filled: OrderNotConfirmed, a
\* reply lost on the wire, a partial fill of an order that then expired.
LegUnread ==
  LET leg == Head(legs) IN
  /\ pc = "sent" /\ Filled(leg.qty, leg.reduce)
  /\ Unread(Executed(leg.qty, leg.reduce))
  /\ legs' = <<>> /\ pc' = "legs"
  /\ UNCHANGED <<startHalted, unflushed, thread, disk, book, resting, user, halt,
                 reported, acked, deaths>>

FlushLegs ==
  /\ pc = "legs" /\ legs = <<>>
  /\ book' = book + unflushed
  /\ unflushed' = 0
  /\ pc' = "flushed"
  /\ UNCHANGED <<legs, startHalted, thread, disk, pos, resting, user, halt,
                 reported, acked, deaths>>

\* The line could not be written: HALT, and the user is told that the book just
\* missed a fill -- unless a HALT stands already.
FlushLost ==
  /\ pc = "legs" /\ legs = <<>> /\ Lost(unflushed)
  /\ unflushed' = 0
  /\ halt' = TRUE
  /\ reported' = IF halt THEN reported ELSE Unaccounted + unflushed
  /\ pc' = "flushed"
  /\ UNCHANGED <<legs, startHalted, thread, disk, pos, book, resting, user,
                 acked, deaths>>

Unmark ==
  /\ pc = "flushed"
  /\ mktMarker' = FALSE
  /\ pc' = "idle"
  /\ UNCHANGED <<legs, startHalted, unflushed, thread, marker, pos, book, resting,
                 user, halt, reported, acked, deaths>>

-----------------------------------------------------------------------------
(* An executor thread: _twap_thread, _chase_thread, _custom_thread, one lot  *)
(* per child order.  `left' is what it may still send.                       *)

MayTrade(t) == ~barred /\ (t.reduce \/ ~halt)

Slice(s) ==
  LET t == thread[s] IN
  /\ t.phase = "work" /\ ~t.stop /\ t.left > 0
  /\ MayTrade(t)
  /\ t.reduce => Owned(t.sign, t.filled) > 0
  /\ thread' = [thread EXCEPT ![s].phase = "sent", ![s].left = @ - 1]
  /\ UNCHANGED <<round, disk, pos, book, resting, user, halt, reported, acked,
                 deaths>>

\* HALT, a restart stop, an account hold, or nothing left of its own to close:
\* the thread stops itself instead of sending the next child order.
SelfStop(s) ==
  LET t == thread[s] IN
  /\ t.phase = "work" /\ ~t.stop /\ t.left > 0
  /\ ~MayTrade(t) \/ (t.reduce /\ Owned(t.sign, t.filled) = 0)
  /\ thread' = [thread EXCEPT ![s].stop = TRUE, ![s].phase = "finish"]
  /\ UNCHANGED <<round, disk, pos, book, resting, user, halt, reported, acked,
                 deaths>>

SliceFilled(s) ==
  LET t == thread[s] IN
  /\ t.phase = "sent" /\ Filled(t.sign, t.reduce)
  /\ thread' = [thread EXCEPT ![s].phase = "work",
                              ![s].filled = @ + Executed(t.sign, t.reduce)]
  /\ UNCHANGED <<round, disk, book, resting, user, halt, reported, acked, deaths>>

\* Refused, or cancelled unfilled: the next child order, or the end (three
\* failures in a row, an exception, the executor's own choice).
SliceRefused(s) ==
  /\ thread[s].phase = "sent"
  /\ \E next \in {"work", "finish"} :
       thread' = [thread EXCEPT ![s].phase = next]
  /\ UNCHANGED <<round, disk, pos, book, resting, user, halt, reported, acked,
                 deaths>>

\* A child order that filled and could not be read: no fill price, a status
\* read that failed after the cancel (_account), an unconfirmed cancel.
SliceUnread(s) ==
  LET t == thread[s] IN
  /\ t.phase = "sent" /\ Filled(t.sign, t.reduce)
  /\ Unread(Executed(t.sign, t.reduce))
  /\ \E next \in {"work", "finish"} :
       thread' = [thread EXCEPT ![s].phase = next]
  /\ UNCHANGED <<round, disk, book, resting, user, halt, reported, acked, deaths>>

\* Mutant: only a run that sent everything leaves its loop.
LoopEndsWhenSent(s) ==
  /\ thread[s].phase = "work" /\ thread[s].left = 0
  /\ thread' = [thread EXCEPT ![s].phase = "finish"]
  /\ UNCHANGED <<round, disk, pos, book, resting, user, halt, reported, acked,
                 deaths>>

LoopEnds(s) ==
  /\ thread[s].phase = "work" /\ (thread[s].left = 0 \/ thread[s].stop)
  /\ thread' = [thread EXCEPT ![s].phase = "finish"]
  /\ UNCHANGED <<round, disk, pos, book, resting, user, halt, reported, acked,
                 deaths>>

Finish(s) ==
  /\ thread[s].phase = "finish"
  /\ book' = book + thread[s].filled
  /\ thread' = [thread EXCEPT ![s].phase = "reap", ![s].filled = 0]
  /\ UNCHANGED <<round, disk, pos, resting, user, halt, reported, acked, deaths>>

\* Mutant: whoever ends takes the marker, whosever it is.
ReapAny(s) ==
  /\ thread[s].phase = "reap"
  /\ thread' = [thread EXCEPT ![s] = NoThread]
  /\ marker' = FALSE
  /\ UNCHANGED <<round, mktMarker, pos, book, resting, user, halt, reported,
                 acked, deaths>>

\* Only the registered thread may take the entry and the marker with it.
ReapOwn(s) ==
  /\ thread[s].phase = "reap"
  /\ thread' = [thread EXCEPT ![s] = NoThread]
  /\ marker' = (marker /\ s # "registered")
  /\ UNCHANGED <<round, mktMarker, pos, book, resting, user, halt, reported,
                 acked, deaths>>

\* The fills of the thread are lost: the crash path of _twap_thread, or an
\* append that failed in _finish.  Again HALT and the request to verify.
RecordLost(s) ==
  LET t == thread[s] IN
  /\ t.phase \in {"work", "finish"} /\ Lost(t.filled)
  /\ thread' = [thread EXCEPT ![s].phase = "reap", ![s].filled = 0]
  /\ halt' = TRUE
  /\ reported' = IF halt THEN reported ELSE Unaccounted + t.filled
  /\ UNCHANGED <<round, disk, pos, book, resting, user, acked, deaths>>

-----------------------------------------------------------------------------
(* The process dies, and the next one starts.                                *)

LegAtVenue == IF pc = "sent" THEN Executed(Head(legs).qty, Head(legs).reduce) ELSE 0

SliceAtVenue(s) ==
  IF thread[s].phase = "sent" THEN Executed(thread[s].sign, thread[s].reduce) ELSE 0

\* Whatever lived in memory is gone.  An order that was at the venue may have
\* filled, may be refused, or, posted by a chase, may rest there.
Die ==
  /\ pc # "down" /\ deaths < MaxDeaths
  /\ deaths' = deaths + 1
  /\ \/ /\ pos' \in {pos, pos + LegAtVenue, pos + SliceAtVenue("registered"),
                    pos + SliceAtVenue("abandoned")}
        /\ resting' = resting
     \/ /\ SliceAtVenue("registered") # 0
        /\ resting' = [qty |-> thread["registered"].sign,
                       reduce |-> thread["registered"].reduce]
        /\ pos' = pos
  /\ pc' = "down"
  /\ legs' = <<>> /\ startHalted' = FALSE /\ unflushed' = 0
  /\ thread' = [s \in Slots |-> NoThread]
  /\ UNCHANGED <<disk, book, user, halt, reported, acked>>

RestingFills ==
  /\ resting # NoOrder
  /\ pos' = pos + Executed(resting.qty, resting.reduce)
  /\ resting' = NoOrder
  /\ UNCHANGED <<round, thread, disk, book, user, halt, reported, acked, deaths>>

\* Singleton lock, then sweep_orphan_orders: a cancel, best-effort.
Start ==
  /\ pc = "down"
  /\ pc' = "boot"
  /\ \/ resting' = NoOrder
     \/ "unread_fill" \in Faults /\ resting' = resting
  /\ UNCHANGED <<legs, startHalted, unflushed, thread, disk, pos, book, user, halt,
                 reported, acked, deaths>>

\* Mutant: the user is told, and trading goes on.
ReapWithoutHalt ==
  /\ pc = "boot" /\ (marker \/ mktMarker)
  /\ reported' = Unaccounted
  /\ pc' = "reaped"
  /\ UNCHANGED <<legs, startHalted, unflushed, thread, disk, pos, book, resting,
                 user, halt, acked, deaths>>

\* reap_dead_inflight: a marker at start is a death between a fill and its line.
ReapDeadInflight ==
  /\ pc = "boot" /\ (marker \/ mktMarker)
  /\ halt' = TRUE
  /\ reported' = Unaccounted
  /\ pc' = "reaped"
  /\ UNCHANGED <<legs, startHalted, unflushed, thread, disk, pos, book, resting,
                 user, acked, deaths>>

\* The evidence goes last.
ClearMarkers ==
  /\ pc = "reaped"
  /\ marker' = FALSE /\ mktMarker' = FALSE
  /\ pc' = "idle"
  /\ UNCHANGED <<legs, startHalted, unflushed, thread, pos, book, resting, user,
                 halt, reported, acked, deaths>>

NothingToReap ==
  /\ pc = "boot" /\ ~marker /\ ~mktMarker
  /\ pc' = "idle"
  /\ UNCHANGED <<legs, startHalted, unflushed, thread, disk, pos, book, resting,
                 user, halt, reported, acked, deaths>>

-----------------------------------------------------------------------------
(* The strategies, and the user at the web page.                             *)

SetTarget ==
  /\ target' \in Targets \ {target}
  /\ UNCHANGED <<round, thread, disk, pos, book, resting, barred, halt, reported,
                 acked, deaths>>

PressHalt ==
  /\ ~halt /\ halt' = TRUE
  /\ UNCHANGED <<round, thread, disk, pos, book, resting, user, reported, acked,
                 deaths>>

PressStart ==
  /\ halt \/ barred
  /\ halt' = FALSE /\ barred' = FALSE
  /\ acked' = reported
  /\ UNCHANGED <<round, thread, disk, pos, book, resting, target, reported, deaths>>

\* The machine rebooted while trading, or the account is not confirmed.
Bar ==
  /\ ~barred /\ barred' = TRUE
  /\ UNCHANGED <<round, thread, disk, pos, book, resting, target, halt, reported,
                 acked, deaths>>

MainThread ==
  \/ StartRound \/ DenyEntry \/ SkipBarred \/ Defer \/ Abandon \/ SkipEmpty
  \/ SendMarket \/ Launch \/ LegFilled \/ LegFailed \/ LegUnread
  \/ FlushLegs \/ FlushLost \/ Unmark
  \/ Start \/ ReapDeadInflight \/ ClearMarkers \/ NothingToReap

Executor(s) ==
  \/ Slice(s) \/ SelfStop(s) \/ SliceFilled(s) \/ SliceRefused(s)
  \/ SliceUnread(s) \/ LoopEnds(s) \/ Finish(s) \/ ReapOwn(s) \/ RecordLost(s)

Environment ==
  Die \/ RestingFills \/ SetTarget \/ PressHalt \/ PressStart \/ Bar

Next ==
  \/ MainThread
  \/ \E s \in Slots : Executor(s)
  \/ Environment

Spec == Init /\ [][Next]_vars

\* The operating system schedules both threads; a watchdog restarts a dead
\* process.  Nothing is assumed of the user, the strategies or the venue.
FairSpec ==
  /\ Spec
  /\ WF_vars(MainThread)
  /\ \A s \in Slots : WF_vars(Executor(s))

-----------------------------------------------------------------------------
\* Every fill the venue made is in the book, or in the memory of the living
\* process that will write it, or the user has been told the book may miss it;
\* while no process lives, the marker that will make the next one say so is
\* still on disk (lib/execute.py reap_dead_inflight; portfolio.py 2970-2977).
LossIsReported ==
  /\ pc \in Living => Unaccounted = reported
  /\ pc \notin Living => Unaccounted = reported \/ marker \/ mktMarker

\* An order that adds exposure leaves only when the user has been told of every
\* gap in the book and has pressed start since: a restart over a lost fill never
\* buys it again on its own.
EntryStep ==
  \/ pc = "legs" /\ pc' = "sent" /\ ~Head(legs).reduce
  \/ \E s \in Slots : /\ thread[s].phase = "work" /\ thread'[s].phase = "sent"
                      /\ ~thread[s].reduce
EntryKnowsTheGap == [][EntryStep => Unaccounted = acked]_vars

\* A gap the user was told of is not traded over before they press start, also
\* when the next process starts and when a HALT was standing already.
EntryAfterVerdict == [][EntryStep => reported = acked]_vars

\* In the process that wrote them, markers correspond to live threads
\* (list_inflight), so flatten, seed_ledger and the update script neither wait
\* for a run that is over nor act over one that is not.
MarkersAreThreads ==
  pc \in Living \ {"reaped"} => (marker <=> thread["registered"].phase # "none")

\* A thread that still holds fills the book has not seen is covered by a marker
\* until they are recorded (lib/execute.py 1305-1310).
MarkerCoversFills ==
  \A s \in Slots : thread[s].filled # 0 => marker

\* The registered execution keeps its marker whatever an abandoned one does.
RegisteredIsMarked == thread["registered"].phase # "none" => marker

\* While a symbol's execution is in flight further legs are only deferred
\* (lib/execute.py 313-315), so what is held plus what may still be sent never
\* leaves the range of the targets.
Outstanding ==
  LET run == thread["registered"]
      n   == run.left + (IF run.phase = "sent" THEN 1 ELSE 0)
  IN (IF pc = "sent" THEN Head(legs).qty ELSE 0) + Toward(run.sign, n)
WithinTargets ==
  pc \in Living /\ Unaccounted = 0 =>
    \E lo, hi \in Targets \cup {0} :
      lo <= pos + Outstanding /\ pos + Outstanding <= hi

\* A launched execution ends: it is recorded and leaves the registry.
ThreadsEnd ==
  \A s \in Slots : thread[s].phase # "none" ~> thread[s].phase = "none"

\* A round ends, whatever fails in it, and the daemon polls again.
RoundsEnd == pc \in {"legs", "sent", "flushed"} ~> pc = "idle"
=============================================================================
