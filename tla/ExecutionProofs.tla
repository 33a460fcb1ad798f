-------------------------- MODULE ExecutionProofs --------------------------
(***************************************************************************)
(* What holds of Execution for every set of targets and every bound: the   *)
(* type invariant, the two properties that no environment fault disturbs;  *)
(* when no fault happens, that no fill is ever lost silently; and what the *)
(* only ways are to a silent loss and out of the range of the targets.     *)
(***************************************************************************)
EXTENDS Execution, TLAPS

\* A market order at the venue is the head of the round's legs.
Shape == TypeOK /\ (pc = "sent" => legs # <<>>)

LEMMA NoThreadType == NoThread \in Thread /\ NoThread.phase = "none"
  BY DEF NoThread, Thread, Phases

LEMMA NoLegsType == <<>> \in Seq(Leg)
  OBVIOUS

LEMMA NoOrderType == NoOrder \in Leg
  BY DEF NoOrder, Leg

\* The venue executes a whole number of lots.
LEMMA ExecutedType ==
  ASSUME TypeOK, NEW q \in Int, NEW r \in BOOLEAN
  PROVE  Executed(q, r) \in Int
  BY DEF TypeOK, Executed, Toward, Least, Abs, Against

LEMMA UnaccountedType == TypeOK => Unaccounted \in Int
  BY DEF TypeOK, Unaccounted, Thread, Slots

LEMMA SizedType ==
  ASSUME TypeOK, NEW q \in Int, NEW r \in BOOLEAN
  PROVE  Sized(q, r) \in Int
  BY DEF TypeOK, Sized, Owned, Toward, Least, Abs, Against

\* A diff becomes at most two legs.
LEMMA LegsForType ==
  ASSUME NEW b \in Int, NEW t \in Int
  PROVE  LegsFor(b, t) \in Seq(Leg)
<1>1. \A q \in Int, r \in BOOLEAN : [qty |-> q, reduce |-> r] \in Leg
  BY DEF Leg
<1>2. -b \in Int /\ t - b \in Int /\ (Abs(t) < Abs(b)) \in BOOLEAN
  BY DEF Abs
<1>3. /\ [qty |-> -b, reduce |-> TRUE] \in Leg
      /\ [qty |-> t, reduce |-> FALSE] \in Leg
      /\ [qty |-> t - b, reduce |-> Abs(t) < Abs(b)] \in Leg
  BY <1>1, <1>2
<1> QED
  BY <1>3 DEF LegsFor

\* A run starts with a whole number of lots to send.
LEMMA NewRunType ==
  ASSUME NEW leg \in Leg
  PROVE  NewRun(leg) \in Thread /\ NewRun(leg).phase = "work"
                                /\ NewRun(leg).filled = 0
  BY DEF NewRun, Leg, Thread, Phases, SignOf, Abs

LEMMA ShapeInit == Init => Shape
<1> SUFFICES ASSUME Init PROVE Shape
  OBVIOUS
<1>1. thread \in [Slots -> Thread]
  BY NoThreadType DEF Init
<1>2. legs \in Seq(Leg) /\ resting \in Leg /\ pc \in PCs /\ pc # "sent"
  BY NoOrderType, NoLegsType DEF Init, PCs
<1>3. /\ unflushed \in Int /\ pos \in Int /\ book \in Int /\ target \in Int
      /\ reported \in Int /\ acked \in Int /\ deaths \in Nat
  BY DEF Init
<1>4. /\ startHalted \in BOOLEAN /\ marker \in BOOLEAN /\ mktMarker \in BOOLEAN
      /\ halt \in BOOLEAN /\ barred \in BOOLEAN
  BY Zenon DEF Init
<1> QED
  BY <1>1, <1>2, <1>3, <1>4 DEF Shape, TypeOK

\* The round keeps the shape of the state.
LEMMA ShapeMain == Shape /\ MainThread => Shape'
<1> SUFFICES ASSUME Shape, MainThread PROVE Shape'
  OBVIOUS
<1> USE DEF Shape, round, disk, user, PCs
<1>a. ASSUME legs # <<>> PROVE Head(legs) \in Leg /\ Tail(legs) \in Seq(Leg)
  BY <1>a DEF TypeOK
<1>b. ASSUME legs # <<>> PROVE Head(legs).qty \in Int /\ Head(legs).reduce \in BOOLEAN
  BY <1>a, <1>b DEF Leg
<1>c. \A s \in Slots : thread[s] \in Thread
  BY DEF TypeOK
<1>1. CASE StartRound
  <2>1. book \in Int /\ target \in Int
    BY DEF TypeOK
  <2>2. LegsFor(book, target) \in Seq(Leg)
    BY <2>1, LegsForType
  <2>3. legs' \in Seq(Leg) /\ pc' = "legs"
    BY <1>1, <2>2 DEF StartRound
  <2> QED BY <1>1, <2>3 DEF StartRound, TypeOK
<1>2. CASE DenyEntry
  BY <1>2 DEF DenyEntry, TypeOK
<1>3. CASE SkipBarred
  <2>1. legs' \in Seq(Leg)
    BY <1>3, <1>a, NoLegsType DEF SkipBarred, PlaceHead
  <2> QED BY <1>3, <2>1 DEF SkipBarred, PlaceHead, TypeOK
<1>4. CASE Defer
  BY <1>4, <1>a, <1>c DEF Defer, PlaceHead, TypeOK, Slots, Thread
<1>5. CASE Abandon
  BY <1>5, <1>c, NoThreadType DEF Abandon, PlaceHead, TypeOK, Slots
<1>6. CASE SkipEmpty
  BY <1>6, <1>a DEF SkipEmpty, PlaceHead, TypeOK
<1>7. CASE SendMarket
  <2>1. legs # <<>> BY <1>7 DEF SendMarket, PlaceHead
  <2>2. Sized(Head(legs).qty, Head(legs).reduce) \in Int
    BY <1>b, <2>1, SizedType
  <2> DEFINE new == [Head(legs) EXCEPT !.qty = Sized(Head(legs).qty, Head(legs).reduce)]
  <2>3. new \in Leg
    BY <1>a, <2>1, <2>2 DEF Leg
  <2> HIDE DEF new
  <2>4. <<new>> \o Tail(legs) \in Seq(Leg) /\ <<new>> \o Tail(legs) # <<>>
    BY <1>a, <2>1, <2>3
  <2>5. legs' = <<new>> \o Tail(legs)
    BY <1>7 DEF SendMarket, new
  <2> QED BY <1>7, <2>4, <2>5 DEF SendMarket, PlaceHead, TypeOK
<1>8. CASE Launch
  <2>1. legs # <<>> BY <1>8 DEF Launch, PlaceHead
  <2>2. thread' \in [Slots -> Thread]
    BY <1>8, <1>a, <1>c, <2>1, NewRunType DEF Launch, Register, TypeOK, Slots
  <2> QED BY <1>8, <1>a, <2>1, <2>2 DEF Launch, Register, PlaceHead, TypeOK
<1>9. CASE LegFilled
  <2>1. Executed(Head(legs).qty, Head(legs).reduce) \in Int
    BY <1>9, <1>b, ExecutedType DEF LegFilled
  <2> QED BY <1>9, <1>a, <2>1 DEF LegFilled, Filled, TypeOK
<1>10. CASE LegFailed
  BY <1>10 DEF LegFailed, TypeOK
<1>11. CASE LegUnread
  <2>1. Executed(Head(legs).qty, Head(legs).reduce) \in Int
    BY <1>11, <1>b, ExecutedType DEF LegUnread
  <2> QED BY <1>11, <2>1 DEF LegUnread, Filled, TypeOK
<1>12. CASE FlushLegs
  BY <1>12 DEF FlushLegs, TypeOK
<1>13. CASE FlushLost
  BY <1>13, UnaccountedType DEF FlushLost, TypeOK
<1>14. CASE Unmark
  BY <1>14 DEF Unmark, TypeOK
<1>15. CASE Start
  BY <1>15, NoOrderType DEF Start, TypeOK
<1>16. CASE ReapDeadInflight
  BY <1>16, UnaccountedType DEF ReapDeadInflight, TypeOK
<1>17. CASE ClearMarkers
  BY <1>17 DEF ClearMarkers, TypeOK
<1>18. CASE NothingToReap
  BY <1>18 DEF NothingToReap, TypeOK
<1> QED
  BY <1>1, <1>2, <1>3, <1>4, <1>5, <1>6, <1>7, <1>8, <1>9, <1>10, <1>11, <1>12,
     <1>13, <1>14, <1>15, <1>16, <1>17, <1>18 DEF MainThread

\* So does every step of an executor thread.
LEMMA ShapeExecutor ==
  ASSUME Shape, NEW s \in Slots, Executor(s) PROVE Shape'
<1> USE DEF Shape, round, disk, user
<1>a. thread[s] \in Thread /\ thread \in [Slots -> Thread]
  BY DEF TypeOK
<1>b. Executed(thread[s].sign, thread[s].reduce) \in Int
  BY <1>a, ExecutedType DEF Thread
<1>c. Unaccounted \in Int
  BY UnaccountedType
<1> DEFINE t == thread[s]
<1>d. \A p \in Phases : [t EXCEPT !.phase = p] \in Thread
  BY <1>a DEF Thread
<1>h. \A p \in Phases, f \in Int : [t EXCEPT !.phase = p, !.filled = f] \in Thread
  BY <1>a DEF Thread
<1>i. [t EXCEPT !.stop = TRUE, !.phase = "finish"] \in Thread
  BY <1>a DEF Thread, Phases
<1>j. [t EXCEPT !.phase = "reap", !.filled = 0] \in Thread
  <2>1. "reap" \in Phases /\ 0 \in Int
    BY DEF Phases
  <2> QED BY <1>h, <2>1
<1>k. t.left > 0 => [t EXCEPT !.phase = "sent", !.left = @ - 1] \in Thread
  <2>1. \A p \in Phases, l \in Nat : [t EXCEPT !.phase = p, !.left = l] \in Thread
    BY <1>a DEF Thread
  <2>2. "sent" \in Phases /\ (t.left > 0 => t.left - 1 \in Nat)
    BY <1>a DEF Phases, Thread
  <2> QED BY <2>1, <2>2
<1>e. t.filled \in Int /\ book \in Int /\ pos \in Int
  BY <1>a DEF Thread, TypeOK
<1>f. \A u \in Thread : [thread EXCEPT ![s] = u] \in [Slots -> Thread]
  BY <1>a
<1>g. {"none", "work", "sent", "finish", "reap"} = Phases
  BY DEF Phases
<1> QED
  <2>1. CASE Slice(s)
    <3>1. thread' = [thread EXCEPT ![s] = [t EXCEPT !.phase = "sent", !.left = @ - 1]]
      BY <2>1 DEF Slice
    <3>2. thread' \in [Slots -> Thread]
      BY <2>1, <3>1, <1>k, <1>f DEF Slice
    <3> QED BY <2>1, <3>2 DEF Slice, TypeOK
  <2>2. CASE SelfStop(s)
    <3>1. thread' = [thread EXCEPT ![s] = [t EXCEPT !.stop = TRUE, !.phase = "finish"]]
      BY <2>2 DEF SelfStop
    <3>2. thread' \in [Slots -> Thread]
      BY <3>1, <1>i, <1>f
    <3> QED BY <2>2, <3>2 DEF SelfStop, TypeOK
  <2>3. CASE SliceFilled(s)
    <3>1. \E f \in Int : thread' = [thread EXCEPT ![s] = [t EXCEPT !.phase = "work", !.filled = f]]
      <4>1. t.filled + Executed(t.sign, t.reduce) \in Int
        BY <1>b, <1>e
      <4> QED BY <2>3, <4>1 DEF SliceFilled
    <3>2. thread' \in [Slots -> Thread]
      BY <3>1, <1>h, <1>f, <1>g
    <3> QED BY <2>3, <3>2, <1>b DEF SliceFilled, Filled, TypeOK
  <2>4. CASE SliceRefused(s)
    <3>1. \E p \in Phases : thread' = [thread EXCEPT ![s] = [t EXCEPT !.phase = p]]
      BY <2>4, <1>g DEF SliceRefused
    <3>2. thread' \in [Slots -> Thread]
      BY <3>1, <1>d, <1>f
    <3> QED BY <2>4, <3>2 DEF SliceRefused, TypeOK
  <2>5. CASE SliceUnread(s)
    <3>1. \E p \in Phases : thread' = [thread EXCEPT ![s] = [t EXCEPT !.phase = p]]
      BY <2>5, <1>g DEF SliceUnread
    <3>2. thread' \in [Slots -> Thread]
      BY <3>1, <1>d, <1>f
    <3> QED BY <2>5, <3>2, <1>b DEF SliceUnread, Filled, TypeOK
  <2>6. CASE LoopEnds(s)
    <3>1. thread' = [thread EXCEPT ![s] = [t EXCEPT !.phase = "finish"]]
      BY <2>6 DEF LoopEnds
    <3>2. thread' \in [Slots -> Thread]
      BY <3>1, <1>d, <1>f, <1>g
    <3> QED BY <2>6, <3>2 DEF LoopEnds, TypeOK
  <2>7. CASE Finish(s)
    <3>1. thread' = [thread EXCEPT ![s] = [t EXCEPT !.phase = "reap", !.filled = 0]]
      BY <2>7 DEF Finish
    <3>2. thread' \in [Slots -> Thread]
      BY <3>1, <1>j, <1>f
    <3>3. book' \in Int
      BY <2>7, <1>e DEF Finish
    <3> QED BY <2>7, <3>2, <3>3 DEF Finish, TypeOK
  <2>8. CASE ReapOwn(s)
    <3>1. thread' \in [Slots -> Thread]
      BY <2>8, <1>a, NoThreadType DEF ReapOwn
    <3> QED BY <2>8, <3>1 DEF ReapOwn, TypeOK
  <2>9. CASE RecordLost(s)
    <3>1. thread' = [thread EXCEPT ![s] = [t EXCEPT !.phase = "reap", !.filled = 0]]
      BY <2>9 DEF RecordLost
    <3>2. thread' \in [Slots -> Thread]
      BY <3>1, <1>j, <1>f
    <3>3. reported' \in Int
      BY <2>9, <1>c, <1>e DEF RecordLost, TypeOK
    <3> QED BY <2>9, <3>2, <3>3 DEF RecordLost, TypeOK
  <2> QED
    BY <2>1, <2>2, <2>3, <2>4, <2>5, <2>6, <2>7, <2>8, <2>9 DEF Executor

\* What an order at the venue may still do is a whole number of lots.
LEMMA AtVenueType ==
  ASSUME Shape
  PROVE  LegAtVenue \in Int /\ \A s \in Slots : SliceAtVenue(s) \in Int
<1>1. pc = "sent" => Head(legs).qty \in Int /\ Head(legs).reduce \in BOOLEAN
  <2>1. pc = "sent" => Head(legs) \in Leg
    BY DEF Shape, TypeOK
  <2> QED BY <2>1 DEF Leg
<1>2. LegAtVenue \in Int
  BY <1>1, ExecutedType DEF Shape, LegAtVenue
<1>3. ASSUME NEW s \in Slots PROVE SliceAtVenue(s) \in Int
  <2>1. thread[s] \in Thread
    BY DEF Shape, TypeOK
  <2>2. thread[s].sign \in Int /\ thread[s].reduce \in BOOLEAN
    BY <2>1 DEF Thread
  <2> QED BY <2>2, ExecutedType DEF Shape, SliceAtVenue
<1> QED
  BY <1>2, <1>3

LEMMA ShapeEnvironment == Shape /\ Environment => Shape'
<1> SUFFICES ASSUME Shape, Environment PROVE Shape'
  OBVIOUS
<1> USE DEF Shape, round, disk, user, PCs
<1>1. CASE Die
  <2>1. pos' \in Int
    BY <1>1, AtVenueType DEF Die, TypeOK, Slots
  <2>2. resting' \in Leg
    <3>1. thread["registered"] \in Thread /\ resting \in Leg
      BY DEF TypeOK, Slots
    <3>2. [qty |-> thread["registered"].sign,
           reduce |-> thread["registered"].reduce] \in Leg
      BY <3>1 DEF Leg, Thread
    <3> QED BY <1>1, <3>1, <3>2 DEF Die
  <2>3. thread' \in [Slots -> Thread]
    BY <1>1, NoThreadType DEF Die
  <2>4. legs' \in Seq(Leg) /\ pc' \in PCs /\ pc' # "sent"
    BY <1>1, NoLegsType DEF Die
  <2>5. deaths' \in Nat /\ unflushed' \in Int
    BY <1>1 DEF Die, TypeOK
  <2>6. startHalted' \in BOOLEAN
    BY <1>1, Zenon DEF Die
  <2> QED BY <1>1, <2>1, <2>2, <2>3, <2>4, <2>5, <2>6 DEF Die, TypeOK
<1>2. CASE RestingFills
  <2>1. Executed(resting.qty, resting.reduce) \in Int
    BY ExecutedType DEF TypeOK, Leg
  <2> QED BY <1>2, <2>1, NoOrderType DEF RestingFills, TypeOK
<1>3. CASE SetTarget
  BY <1>3, ExecutionAssumption DEF SetTarget, TypeOK
<1>4. CASE PressHalt
  BY <1>4 DEF PressHalt, TypeOK
<1>5. CASE PressStart
  BY <1>5 DEF PressStart, TypeOK
<1>6. CASE Bar
  BY <1>6 DEF Bar, TypeOK
<1> QED
  BY <1>1, <1>2, <1>3, <1>4, <1>5, <1>6 DEF Environment

LEMMA ShapeStep == Shape /\ [Next]_vars => Shape'
<1> SUFFICES ASSUME Shape, [Next]_vars PROVE Shape'
  OBVIOUS
<1>1. CASE UNCHANGED vars
  BY <1>1 DEF Shape, TypeOK, vars, round, disk, user
<1> QED
  BY <1>1, ShapeMain, ShapeExecutor, ShapeEnvironment DEF Next

LEMMA ShapeAlways == Spec => []Shape
  BY ShapeInit, ShapeStep, PTL DEF Spec

\* The state is well-formed whatever the strategies ask for, whatever faults
\* the environment has, and however often the process dies.
THEOREM TypeCorrect == Spec => []TypeOK
<1>1. Shape => TypeOK
  BY DEF Shape
<1> QED
  BY <1>1, ShapeAlways, PTL

-----------------------------------------------------------------------------
(* What holds under every fault.                                             *)

\* No executor thread exists before the daemon has entered its loop.
Quiet ==
  pc \in {"down", "boot", "reaped"} => \A s \in Slots : thread[s] = NoThread

\* From the report of a gap until the user presses start, HALT stands.
HaltStands == halt \/ reported = acked

FaultInv == Shape /\ Quiet /\ HaltStands /\ RegisteredIsMarked

LEMMA FaultInit == Init => FaultInv
<1>1. Init => Quiet /\ RegisteredIsMarked
  BY NoThreadType DEF Init, Quiet, RegisteredIsMarked, Slots
<1>2. Init => HaltStands
  BY DEF Init, HaltStands
<1> QED
  BY <1>1, <1>2, ShapeInit DEF FaultInv

LEMMA FaultStep == FaultInv /\ [Next]_vars => FaultInv'
<1> SUFFICES ASSUME FaultInv, [Next]_vars PROVE FaultInv'
  OBVIOUS
<1> USE DEF FaultInv, Quiet, HaltStands, RegisteredIsMarked, round, disk, user
<1>s. Shape'
  BY ShapeStep
<1>t. /\ thread \in [Slots -> Thread]
      /\ "registered" \in Slots /\ "abandoned" \in Slots
      /\ pc \in PCs
  BY DEF Shape, TypeOK, Slots
<1>n. NoThread.phase = "none"
  BY NoThreadType
<1>1. CASE UNCHANGED vars
  BY <1>1, <1>s DEF vars
<1>2. CASE MainThread
  <2>1. CASE StartRound
    BY <2>1, <1>s DEF StartRound
  <2>2. CASE DenyEntry \/ SkipBarred \/ SkipEmpty \/ SendMarket
    BY <2>2, <1>s DEF DenyEntry, SkipBarred, SkipEmpty, SendMarket, PlaceHead
  <2>3. CASE Defer
    <3>1. thread'["registered"].phase = thread["registered"].phase /\ pc' = pc
      BY <2>3, <1>t DEF Defer, Thread
    <3> QED BY <2>3, <3>1, <1>s DEF Defer, PlaceHead
  <2>4. CASE Abandon
    <3>1. thread'["registered"] = NoThread
      BY <2>4, <1>t DEF Abandon
    <3> QED BY <2>4, <3>1, <1>s, <1>n DEF Abandon, PlaceHead
  <2>5. CASE Launch
    BY <2>5, <1>s DEF Launch, Register, PlaceHead
  <2>6. CASE LegFilled \/ LegFailed \/ LegUnread
    BY <2>6, <1>s DEF LegFilled, LegFailed, LegUnread
  <2>7. CASE FlushLegs \/ FlushLost \/ Unmark
    BY <2>7, <1>s DEF FlushLegs, FlushLost, Unmark
  <2>8. CASE Start
    BY <2>8, <1>s DEF Start
  <2>9. CASE ReapDeadInflight
    BY <2>9, <1>s DEF ReapDeadInflight
  <2>10. CASE ClearMarkers
    BY <2>10, <1>s, <1>t, <1>n DEF ClearMarkers
  <2>11. CASE NothingToReap
    BY <2>11, <1>s DEF NothingToReap
  <2> QED
    BY <1>2, <2>1, <2>2, <2>3, <2>4, <2>5, <2>6, <2>7, <2>8, <2>9, <2>10, <2>11
    DEF MainThread
<1>3. ASSUME NEW s \in Slots, Executor(s) PROVE FaultInv'
  <2>1. thread[s].phase # "none"
    BY <1>3 DEF Executor, Slice, SelfStop, SliceFilled, SliceRefused, SliceUnread,
                LoopEnds, Finish, ReapOwn, RecordLost
  <2>2. pc \notin {"down", "boot", "reaped"}
    BY <2>1, <1>n
  <2>3. pc' = pc /\ UNCHANGED acked
    BY <1>3 DEF Executor, Slice, SelfStop, SliceFilled, SliceRefused, SliceUnread,
                LoopEnds, Finish, ReapOwn, RecordLost
  <2>4. HaltStands'
    BY <1>3 DEF Executor, Slice, SelfStop, SliceFilled, SliceRefused, SliceUnread,
                LoopEnds, Finish, ReapOwn, RecordLost
  <2>5. RegisteredIsMarked'
    <3>1. CASE ReapOwn(s)
      BY <3>1, <1>t, <1>n DEF ReapOwn
    <3>2. CASE ~ReapOwn(s)
      <4>1. marker' = marker
        BY <1>3, <3>2 DEF Executor, Slice, SelfStop, SliceFilled, SliceRefused,
                SliceUnread, LoopEnds, Finish, RecordLost
      <4>2. s # "registered" => thread'["registered"] = thread["registered"]
        BY <1>3, <1>t DEF Executor, Slice, SelfStop, SliceFilled, SliceRefused,
                SliceUnread, LoopEnds, Finish, ReapOwn, RecordLost
      <4> QED BY <4>1, <4>2, <2>1
    <3> QED BY <3>1, <3>2
  <2> QED BY <2>2, <2>3, <2>4, <2>5, <1>s
<1>4. CASE Environment
  <2>1. CASE Die
    <3>1. \A s \in Slots : thread'[s] = NoThread
      BY <2>1 DEF Die
    <3> QED BY <2>1, <3>1, <1>s, <1>n, <1>t DEF Die
  <2>2. CASE RestingFills \/ SetTarget \/ PressHalt \/ PressStart \/ Bar
    BY <2>2, <1>s DEF RestingFills, SetTarget, PressHalt, PressStart, Bar
  <2> QED BY <1>4, <2>1, <2>2 DEF Environment
<1> QED
  BY <1>1, <1>2, <1>3, <1>4 DEF Next

LEMMA FaultAlways == Spec => []FaultInv
  BY FaultInit, FaultStep, PTL DEF Spec

\* The registered execution keeps its marker under every fault: neither a wedged
\* run that was abandoned nor a crash path of another thread takes it away.
THEOREM RegisteredStaysMarked == Spec => []RegisteredIsMarked
<1>1. FaultInv => RegisteredIsMarked
  BY DEF FaultInv
<1> QED
  BY <1>1, FaultAlways, PTL

\* An order that adds exposure is sent only where the kill switch was read clear.
LEMMA EntryReadsHalt == FaultInv /\ Next /\ EntryStep => ~halt
<1> SUFFICES ASSUME FaultInv, Next, EntryStep PROVE ~halt
  OBVIOUS
<1> USE DEF round, disk, user
<1>t. thread \in [Slots -> Thread]
  BY DEF FaultInv, Shape, TypeOK
<1>1. CASE pc = "legs" /\ pc' = "sent" /\ ~Head(legs).reduce
  <2>1. SendMarket
    <3>1. ASSUME NEW s \in Slots, Executor(s) PROVE FALSE
      BY <1>1, <3>1 DEF Executor, Slice, SelfStop, SliceFilled, SliceRefused,
            SliceUnread, LoopEnds, Finish, ReapOwn, RecordLost
    <3>2. ~Environment
      BY <1>1 DEF Environment, Die, RestingFills, SetTarget, PressHalt, PressStart, Bar
    <3>3. MainThread
      BY <3>1, <3>2 DEF Next
    <3> QED
      BY <1>1, <3>3 DEF MainThread, StartRound, DenyEntry, SkipBarred, Defer, Abandon,
            SkipEmpty, Launch, LegFilled, LegFailed, LegUnread, FlushLegs, FlushLost,
            Unmark, Start, ReapDeadInflight, ClearMarkers, NothingToReap
  <2> QED BY <1>1, <2>1 DEF SendMarket, PlaceHead, EntryDenied
<1>2. ASSUME NEW s \in Slots, thread[s].phase = "work", thread'[s].phase = "sent",
             ~thread[s].reduce
      PROVE  ~halt
  <2>1. CASE MainThread
    <3>1. thread'[s].phase # "sent"
      <4>1. CASE Launch
        BY <4>1, <1>2, <1>t DEF Launch, Register, NewRun
      <4>2. CASE Defer
        BY <4>2, <1>2, <1>t DEF Defer, Thread
      <4>3. CASE Abandon
        BY <4>3, <1>2, <1>t, NoThreadType DEF Abandon
      <4>4. CASE ~Launch /\ ~Defer /\ ~Abandon
        BY <1>2, <2>1, <4>4
        DEF MainThread, StartRound, DenyEntry, SkipBarred, SkipEmpty, SendMarket,
            LegFilled, LegFailed, LegUnread, FlushLegs, FlushLost, Unmark, Start,
            ReapDeadInflight, ClearMarkers, NothingToReap
      <4> QED BY <4>1, <4>2, <4>3, <4>4
    <3> QED BY <1>2, <3>1
  <2>2. ASSUME NEW u \in Slots, Executor(u) PROVE ~halt
    <3>1. CASE u # s
      BY <2>2, <3>1, <1>2, <1>t DEF Executor, Slice, SelfStop, SliceFilled,
            SliceRefused, SliceUnread, LoopEnds, Finish, ReapOwn, RecordLost
    <3>2. CASE u = s
      <4>1. Slice(s)
        BY <2>2, <3>2, <1>2, <1>t, NoThreadType
        DEF Executor, SelfStop, SliceFilled, SliceRefused, SliceUnread,
            LoopEnds, Finish, ReapOwn, RecordLost, Thread
      <4> QED BY <4>1, <1>2 DEF Slice, MayTrade
    <3> QED BY <3>1, <3>2
  <2>3. CASE Environment
    BY <2>3, <1>2, NoThreadType
    DEF Environment, Die, RestingFills, SetTarget, PressHalt, PressStart, Bar
  <2> QED BY <2>1, <2>2, <2>3 DEF Next
<1> QED
  BY <1>1, <1>2 DEF EntryStep

\* Whatever fails, after a gap was reported no order that adds exposure leaves
\* before the user has pressed start.
THEOREM EntryWaitsForVerdict == Spec => EntryAfterVerdict
<1>1. FaultInv /\ [Next]_vars => [EntryStep => reported = acked]_vars
  BY EntryReadsHalt DEF FaultInv, HaltStands
<1> QED
  BY <1>1, FaultAlways, PTL DEF Spec, EntryAfterVerdict

-----------------------------------------------------------------------------
(* What holds while every answer of the venue is read and no thread ignores   *)
(* its stop: the process may still die anywhere, and a record may be lost.     *)

\* Only an execution between its first fill and its record holds fills.
HeldByRuns == \A s \in Slots : thread[s].phase \in {"none", "reap"} => thread[s].filled = 0

\* Only a round that is dispatching holds fills, or has an order at the venue,
\* and then its marker is on disk.
HeldByRound ==
  /\ pc \notin {"legs", "sent"} => unflushed = 0
  /\ unflushed # 0 \/ pc = "sent" => mktMarker

\* A resting order outlives only a dead process, and its marker with it.
HeldByVenue == resting # NoOrder => pc = "down" /\ marker

LossInv ==
  /\ FaultInv /\ thread["abandoned"] = NoThread
  /\ HeldByRuns /\ HeldByRound /\ HeldByVenue
  /\ LossIsReported /\ MarkersAreThreads

LEMMA LossInit == Init => LossInv
<1> SUFFICES ASSUME Init PROVE LossInv
  OBVIOUS
<1>1. \A s \in Slots : thread[s] = NoThread
  BY DEF Init
<1>2. NoThread.phase = "none" /\ NoThread.filled = 0
  BY DEF NoThread
<1>3. Unaccounted = 0
  BY <1>1, <1>2 DEF Init, Unaccounted, Slots
<1> QED
  BY <1>1, <1>2, <1>3, FaultInit
  DEF Init, LossInv, HeldByRuns, HeldByRound, HeldByVenue, LossIsReported,
      MarkersAreThreads, Slots

\* What every step below starts from: the types, and what the one execution of
\* the symbol contributes to the gap.
LEMMA LossFacts ==
  ASSUME LossInv
  PROVE  /\ thread \in [Slots -> Thread] /\ Slots = {"registered", "abandoned"}
         /\ thread["registered"].filled \in Int /\ thread["abandoned"].filled = 0
         /\ thread["abandoned"].phase = "none"
         /\ pos \in Int /\ book \in Int /\ unflushed \in Int /\ reported \in Int
         /\ Unaccounted = pos - book - unflushed - thread["registered"].filled
         /\ thread["registered"].phase # "none" => pc \notin {"down", "boot", "reaped"}
<1>1. /\ thread \in [Slots -> Thread] /\ Slots = {"registered", "abandoned"}
      /\ pos \in Int /\ book \in Int /\ unflushed \in Int /\ reported \in Int
  BY DEF LossInv, FaultInv, Shape, TypeOK, Slots
<1>2. thread["registered"] \in Thread
  BY <1>1
<1>3. thread["registered"].filled \in Int
  BY <1>2 DEF Thread
<1>4. thread["abandoned"].filled = 0 /\ thread["abandoned"].phase = "none"
  BY DEF LossInv, NoThread
<1>5. Unaccounted = pos - book - unflushed - thread["registered"].filled
  BY <1>1, <1>3, <1>4 DEF Unaccounted
<1>6. thread["registered"].phase # "none" => pc \notin {"down", "boot", "reaped"}
  BY <1>1, NoThreadType DEF LossInv, FaultInv, Quiet
<1> QED
  BY <1>1, <1>3, <1>4, <1>5, <1>6

\* A step of the round, or of a start, keeps every fill in sight.
LEMMA LossMain ==
  ASSUME Faults \subseteq {"lost_record"}, LossInv, MainThread, ~FlushLost, FaultInv'
  PROVE  LossInv'
<1> USE LossFacts DEF round, disk, user
<1>f. "wedge" \notin Faults /\ "unread_fill" \notin Faults
  OBVIOUS
<1> USE DEF LossInv, HeldByRuns, HeldByRound, HeldByVenue, LossIsReported,
            MarkersAreThreads, Living, PCs
<1>1. CASE StartRound \/ DenyEntry \/ SkipBarred \/ SkipEmpty \/ SendMarket
  BY <1>1 DEF StartRound, DenyEntry, SkipBarred, SkipEmpty, SendMarket, PlaceHead,
              Unaccounted
<1>2. CASE Defer
  <2>1. /\ thread'["registered"].phase = thread["registered"].phase
        /\ thread'["registered"].filled = thread["registered"].filled
        /\ thread'["abandoned"] = thread["abandoned"]
    BY <1>2 DEF Defer, Thread
  <2>2. UNCHANGED <<pc, unflushed, marker, pos, book, resting, reported>> /\ mktMarker'
    BY <1>2 DEF Defer, PlaceHead
  <2>3. Unaccounted' = Unaccounted
    BY <2>1, <2>2 DEF Unaccounted
  <2>4. pc = "legs"
    BY <1>2 DEF Defer, PlaceHead
  <2> QED BY <2>1, <2>2, <2>3, <2>4
<1>3. CASE Launch
  <2>0. Head(legs) \in Leg
    BY <1>3 DEF Launch, PlaceHead, FaultInv, Shape, TypeOK
  <2>1. /\ thread'["registered"].phase = "work"
        /\ thread'["registered"].filled = 0
        /\ thread'["abandoned"] = thread["abandoned"]
    BY <1>3, <2>0, NewRunType DEF Launch, Register
  <2>2. UNCHANGED <<pc, unflushed, pos, book, resting, reported>> /\ mktMarker' /\ marker'
    BY <1>3 DEF Launch, PlaceHead, Register
  <2>3. thread["registered"].filled = 0 /\ pc = "legs"
    BY <1>3 DEF Launch, PlaceHead
  <2>4. Unaccounted' = Unaccounted
    BY <2>1, <2>2, <2>3 DEF Unaccounted
  <2> QED BY <2>1, <2>2, <2>3, <2>4
<1>4. CASE LegFilled
  <2>1. Executed(Head(legs).qty, Head(legs).reduce) \in Int
    <3>1. Head(legs) \in Leg
      BY <1>4 DEF LegFilled, FaultInv, Shape, TypeOK
    <3> QED BY <3>1, ExecutedType DEF Leg, FaultInv, Shape
  <2>2. Unaccounted' = Unaccounted
    BY <1>4, <2>1 DEF LegFilled, Filled, Unaccounted
  <2> QED BY <1>4, <2>2 DEF LegFilled
<1>5. CASE LegFailed
  BY <1>5 DEF LegFailed, Unaccounted
<1>6. CASE FlushLegs
  <2>1. Unaccounted' = Unaccounted
    BY <1>6 DEF FlushLegs, Unaccounted
  <2> QED BY <1>6, <2>1 DEF FlushLegs
<1>7. CASE Unmark
  BY <1>7 DEF Unmark, Unaccounted
<1>8. CASE Start
  <2>1. Unaccounted' = Unaccounted
    BY <1>8 DEF Start, Unaccounted
  <2> QED BY <1>8, <1>f, <2>1 DEF Start
<1>9. CASE ReapDeadInflight
  <2>1. Unaccounted' = Unaccounted
    BY <1>9 DEF ReapDeadInflight, Unaccounted
  <2> QED BY <1>9, <2>1 DEF ReapDeadInflight
<1>10. CASE ClearMarkers
  <2>1. Unaccounted' = Unaccounted
    BY <1>10 DEF ClearMarkers, Unaccounted
  <2> QED BY <1>10, <2>1 DEF ClearMarkers
<1>11. CASE NothingToReap
  <2>1. Unaccounted' = Unaccounted
    BY <1>11 DEF NothingToReap, Unaccounted
  <2>2. ~marker /\ ~mktMarker /\ pc = "boot" /\ pc' = "idle" /\ thread' = thread
    BY <1>11 DEF NothingToReap
  <2> QED BY <1>11, <2>1, <2>2 DEF NothingToReap
<1> QED
  BY <1>f, <1>1, <1>2, <1>3, <1>4, <1>5, <1>6, <1>7, <1>8, <1>9, <1>10, <1>11
  DEF MainThread, Abandon, LegUnread, Unread

\* A step of the execution keeps every fill in sight: a fill moves from the
\* venue to its memory, from there to the book, and only then does its marker go.
LEMMA LossExecutor ==
  ASSUME Faults \subseteq {"lost_record"}, LossInv, NEW s \in Slots, Executor(s),
         ~RecordLost(s), FaultInv'
  PROVE  LossInv'
<1> USE LossFacts DEF round, disk, user
<1>f. ~SliceUnread(s)
  BY DEF SliceUnread, Unread
<1>s. s = "registered" /\ thread[s].phase # "none"
  BY <1>f DEF Executor, Slice, SelfStop, SliceFilled, SliceRefused,
              LoopEnds, Finish, ReapOwn
<1>p. pc' = pc /\ pc \notin {"down", "boot", "reaped"}
  BY <1>f, <1>s DEF Executor, Slice, SelfStop, SliceFilled, SliceRefused,
                    LoopEnds, Finish, ReapOwn
<1>m. marker
  BY <1>s, <1>p DEF LossInv, MarkersAreThreads, Living, PCs, FaultInv, Shape, TypeOK
<1>k. /\ UNCHANGED <<unflushed, mktMarker, resting, reported>>
      /\ thread'["abandoned"] = thread["abandoned"]
  BY <1>f, <1>s DEF Executor, Slice, SelfStop, SliceFilled, SliceRefused,
                    LoopEnds, Finish, ReapOwn
<1>t. thread["registered"] \in Thread
  OBVIOUS
<1>u. /\ Unaccounted' = Unaccounted
      /\ thread'["registered"].phase \in {"none", "reap"} => thread'["registered"].filled = 0
      /\ marker' <=> thread'["registered"].phase # "none"
  <2>1. CASE Slice(s) \/ SelfStop(s) \/ SliceRefused(s) \/ LoopEnds(s)
    <3>1. /\ thread'["registered"].filled = thread["registered"].filled
          /\ thread'["registered"].phase \in {"work", "sent", "finish"}
      BY <2>1, <1>s, <1>t DEF Slice, SelfStop, SliceRefused, LoopEnds, Thread
    <3>2. UNCHANGED <<pos, book, unflushed, marker>>
      BY <2>1 DEF Slice, SelfStop, SliceRefused, LoopEnds
    <3> QED BY <3>1, <3>2, <1>k, <1>m DEF Unaccounted
  <2>2. CASE SliceFilled(s)
    <3>1. Executed(thread[s].sign, thread[s].reduce) \in Int
      BY <1>s, <1>t, ExecutedType DEF Thread, LossInv, FaultInv, Shape
    <3>2. /\ thread'["registered"].filled =
               thread["registered"].filled + Executed(thread[s].sign, thread[s].reduce)
          /\ thread'["registered"].phase = "work"
      BY <2>2, <1>s, <1>t DEF SliceFilled, Thread
    <3>3. /\ pos' = pos + Executed(thread[s].sign, thread[s].reduce)
          /\ UNCHANGED <<book, unflushed, marker>>
      BY <2>2 DEF SliceFilled, Filled
    <3> QED BY <3>1, <3>2, <3>3, <1>k, <1>m DEF Unaccounted
  <2>3. CASE Finish(s)
    <3>1. /\ thread'["registered"].filled = 0
          /\ thread'["registered"].phase = "reap"
      BY <2>3, <1>s, <1>t DEF Finish, Thread
    <3>2. /\ book' = book + thread["registered"].filled
          /\ UNCHANGED <<pos, unflushed, marker>>
      BY <2>3, <1>s DEF Finish
    <3> QED BY <3>1, <3>2, <1>k, <1>m DEF Unaccounted
  <2>4. CASE ReapOwn(s)
    <3>1. thread["registered"].filled = 0
      BY <2>4, <1>s DEF ReapOwn, LossInv, HeldByRuns
    <3>2. thread'["registered"] = NoThread /\ ~marker'
      BY <2>4, <1>s DEF ReapOwn
    <3>3. NoThread.filled = 0 /\ NoThread.phase = "none"
      BY DEF NoThread
    <3>4. UNCHANGED <<pos, book, unflushed>>
      BY <2>4 DEF ReapOwn
    <3> QED BY <3>1, <3>2, <3>3, <3>4, <1>k DEF Unaccounted
  <2> QED
    BY <1>f, <2>1, <2>2, <2>3, <2>4 DEF Executor
<1>1. thread'["abandoned"] = NoThread /\ HeldByRuns'
  <2>1. thread'["abandoned"].filled = 0
    BY <1>k
  <2> QED BY <1>k, <1>u, <2>1 DEF LossInv, HeldByRuns
<1>2. HeldByRound' /\ HeldByVenue'
  BY <1>p, <1>k DEF LossInv, HeldByRound, HeldByVenue
<1>3. LossIsReported' /\ MarkersAreThreads'
  <2>1. pc \in PCs
    BY DEF LossInv, FaultInv, Shape, TypeOK
  <2> QED
    BY <1>p, <1>k, <1>u, <2>1 DEF LossInv, LossIsReported, MarkersAreThreads, Living, PCs
<1> QED
  BY <1>1, <1>2, <1>3 DEF LossInv

\* Fills whose record is lost: by the round, by the execution.
Dropped == FlushLost \/ \E s \in Slots : RecordLost(s)

\* Such a step always moves the process on.
LEMMA DroppedMoves == LossInv /\ Dropped => ~UNCHANGED vars
<1> SUFFICES ASSUME LossInv, Dropped, UNCHANGED vars PROVE FALSE
  OBVIOUS
<1>1. CASE FlushLost
  BY <1>1 DEF FlushLost, vars, round
<1>2. CASE \E s \in Slots : RecordLost(s)
  <2>1. PICK s \in Slots : RecordLost(s)
    BY <1>2
  <2>2. thread'[s].phase = "reap" /\ thread[s].phase # "reap"
    BY <2>1 DEF RecordLost, LossInv, FaultInv, Shape, TypeOK, Thread
  <2> QED BY <2>2 DEF vars
<1> QED
  BY <1>1, <1>2 DEF Dropped

\* Without a HALT standing the user is told of all the book misses by then.
LEMMA LossDropped ==
  ASSUME LossInv, Dropped, ~halt, FaultInv'
  PROVE  LossInv'
<1> USE LossFacts DEF round, disk, user
<1>1. CASE FlushLost
  <2>1. /\ pc = "legs" /\ pc' = "flushed" /\ unflushed' = 0
        /\ UNCHANGED <<thread, marker, mktMarker, pos, book, resting>>
        /\ reported' = Unaccounted + unflushed
    BY <1>1 DEF FlushLost
  <2>2. Unaccounted' = reported'
    BY <2>1 DEF Unaccounted
  <2> QED
    BY <2>1, <2>2 DEF LossInv, HeldByRuns, HeldByRound, HeldByVenue, LossIsReported,
                      MarkersAreThreads, Living, PCs
<1>2. CASE \E s \in Slots : RecordLost(s)
  <2>1. RecordLost("registered")
    BY <1>2 DEF RecordLost
  <2>2. thread["registered"] \in Thread /\ thread["registered"].phase # "none"
    BY <2>1 DEF RecordLost
  <2>3. /\ thread'["registered"].phase = "reap" /\ thread'["registered"].filled = 0
        /\ thread'["abandoned"] = thread["abandoned"]
    BY <2>1, <2>2 DEF RecordLost, Thread
  <2>4. /\ UNCHANGED <<pc, unflushed, marker, mktMarker, pos, book, resting>>
        /\ reported' = Unaccounted + thread["registered"].filled
    BY <2>1 DEF RecordLost
  <2>5. Unaccounted' = reported'
    BY <2>3, <2>4 DEF Unaccounted
  <2>6. marker /\ pc \in Living \ {"reaped"}
    BY <2>2 DEF LossInv, MarkersAreThreads, FaultInv, Shape, TypeOK, Living, PCs
  <2> QED
    BY <2>3, <2>4, <2>5, <2>6
    DEF LossInv, HeldByRuns, HeldByRound, HeldByVenue, LossIsReported,
        MarkersAreThreads, Living
<1> QED
  BY <1>1, <1>2 DEF Dropped

\* When the process dies, whatever is lost has its marker.
LEMMA LossDie ==
  ASSUME LossInv, Die, FaultInv'
  PROVE  LossInv'
<1> USE LossFacts DEF round, disk, user
<1> DEFINE run == thread["registered"]
<1>1. /\ thread' = [s \in Slots |-> NoThread] /\ pc' = "down" /\ unflushed' = 0
      /\ UNCHANGED <<marker, mktMarker, book, reported>>
  BY DEF Die
<1>2. NoThread.filled = 0 /\ NoThread.phase = "none"
  BY DEF NoThread
<1>3. Unaccounted' = pos' - book
  <2>1. thread'["registered"] = NoThread /\ thread'["abandoned"] = NoThread
    BY <1>1
  <2>2. pos' \in Int
    BY DEF FaultInv, Shape, TypeOK
  <2> QED BY <1>1, <1>2, <2>1, <2>2 DEF Unaccounted
<1>4. pc \in Living /\ run.phase # "none" => marker
  BY DEF LossInv, FaultInv, RegisteredIsMarked
<1>5. pos' # pos \/ unflushed # 0 \/ run.filled # 0 => marker \/ mktMarker
  <2>1. pos' # pos => pc = "sent" \/ run.phase = "sent"
    BY DEF Die, LegAtVenue, SliceAtVenue
  <2>2. run.phase # "none" => marker
    BY DEF LossInv, FaultInv, RegisteredIsMarked
  <2>3. run.filled # 0 => run.phase # "none"
    BY DEF LossInv, HeldByRuns
  <2>4. pc = "sent" \/ unflushed # 0 => mktMarker
    BY DEF LossInv, HeldByRound
  <2> QED BY <2>1, <2>2, <2>3, <2>4
<1>6. resting' # NoOrder => marker
  <2>1. CASE resting' = resting
    BY <2>1 DEF Die, LossInv, HeldByVenue
  <2>2. CASE resting' # resting
    <3>1. run.phase = "sent"
      BY <2>2 DEF Die, SliceAtVenue
    <3> QED BY <3>1 DEF LossInv, FaultInv, RegisteredIsMarked
  <2> QED BY <2>1, <2>2
<1>7. pos' = pos /\ unflushed = 0 /\ run.filled = 0 => Unaccounted' = Unaccounted
  BY <1>3
<1>8. Unaccounted' = reported' \/ marker' \/ mktMarker'
  BY <1>1, <1>5, <1>7 DEF LossInv, LossIsReported
<1>9. HeldByRuns' /\ thread'["abandoned"] = NoThread
  BY <1>1, <1>2 DEF HeldByRuns
<1> QED
  BY <1>1, <1>6, <1>8, <1>9
  DEF LossInv, HeldByRound, HeldByVenue, LossIsReported, MarkersAreThreads, Living

LEMMA LossStep ==
  ASSUME Faults \subseteq {"lost_record"}, LossInv, [Next]_vars, Dropped => ~halt
  PROVE  LossInv'
<1> USE DEF round, disk, user
<1>f. FaultInv'
  BY FaultStep DEF LossInv
<1>1. CASE UNCHANGED vars
  BY <1>1, <1>f DEF vars, LossInv, HeldByRuns, HeldByRound, HeldByVenue,
                    LossIsReported, MarkersAreThreads, Unaccounted
<1>2. CASE MainThread
  BY <1>2, <1>f, LossMain, LossDropped DEF Dropped
<1>3. ASSUME NEW s \in Slots, Executor(s) PROVE LossInv'
  BY <1>3, <1>f, LossExecutor, LossDropped DEF Dropped
<1>4. CASE Environment
  <2>1. CASE Die
    BY <2>1, <1>f, LossDie
  <2>2. CASE RestingFills
    <3>1. marker /\ pc = "down" /\ UNCHANGED <<pc, thread, marker, mktMarker, unflushed>>
      BY <2>2 DEF RestingFills, LossInv, HeldByVenue
    <3>2. resting' = NoOrder
      BY <2>2 DEF RestingFills
    <3> QED
      BY <3>1, <3>2, <1>f DEF LossInv, HeldByRuns, HeldByRound, HeldByVenue,
                         LossIsReported, MarkersAreThreads, Living
  <2>3. CASE SetTarget \/ PressHalt \/ PressStart \/ Bar
    BY <2>3, <1>f DEF SetTarget, PressHalt, PressStart, Bar, LossInv, HeldByRuns,
                      HeldByRound, HeldByVenue, LossIsReported, MarkersAreThreads,
                      Unaccounted
  <2> QED BY <1>4, <2>1, <2>2, <2>3 DEF Environment
<1> QED
  BY <1>1, <1>2, <1>3, <1>4 DEF Next

LEMMA LossAlways ==
  ASSUME Faults = {}
  PROVE  Spec => []LossInv
<1>1. Init => LossInv
  BY LossInit
<1>2. LossInv /\ [Next]_vars => LossInv'
  BY LossStep DEF Dropped, FlushLost, RecordLost, Lost
<1> QED
  BY <1>1, <1>2, PTL DEF Spec

\* No fill is ever lost silently: wherever the process dies, the fills the book
\* misses are announced by a marker until the next start has told the user.
THEOREM NoSilentLoss ==
  ASSUME Faults = {}
  PROVE  Spec => []LossIsReported
<1>1. LossInv => LossIsReported
  BY DEF LossInv
<1> QED
  BY <1>1, LossAlways, PTL

\* A marker read in the daemon means a live execution, and the other way round.
THEOREM MarkersMatchThreads ==
  ASSUME Faults = {}
  PROVE  Spec => []MarkersAreThreads
<1>1. LossInv => MarkersAreThreads
  BY DEF LossInv
<1> QED
  BY <1>1, LossAlways, PTL

LEMMA EntryFromReported == LossInv /\ EntryStep => Unaccounted = reported
<1> SUFFICES ASSUME LossInv, EntryStep PROVE pc \in Living
  BY DEF LossInv, LossIsReported
<1>1. pc \in PCs
  BY DEF LossInv, FaultInv, Shape, TypeOK
<1>2. ASSUME NEW s \in Slots, thread[s].phase = "work" PROVE pc \in Living
  BY <1>1, <1>2, NoThreadType DEF LossInv, FaultInv, Quiet, Living
<1> QED BY <1>1, <1>2 DEF EntryStep, Living, PCs

\* No order adds exposure over a gap the user has not acknowledged: a restart
\* over a lost fill never buys it a second time on its own.
THEOREM NoBlindEntry ==
  ASSUME Faults = {}
  PROVE  Spec => EntryKnowsTheGap
<1>1. LossInv /\ [Next]_vars => [EntryStep => Unaccounted = acked]_vars
  BY EntryFromReported, EntryReadsHalt DEF LossInv, FaultInv, HaltStands
<1> QED
  BY <1>1, LossAlways, PTL DEF Spec, EntryKnowsTheGap

\* A record that is lost in spite of the disk or the thread (a full disk, a crash
\* path) is told too, and nothing is bought over it, provided that no HALT stands
\* when it is lost: that is the one condition under which the code stays silent
\* (lib/portfolio.py 2970-2977, lib/execute.py).
THEOREM OnlyHaltHidesALoss ==
  ASSUME Faults \subseteq {"lost_record"}
  PROVE  Spec /\ [][Dropped => ~halt]_vars
           => [](LossIsReported /\ MarkersAreThreads) /\ EntryKnowsTheGap
<1>1. LossInv /\ [Next]_vars /\ [Dropped => ~halt]_vars => LossInv'
  <2>1. CASE UNCHANGED vars
    BY <2>1, DroppedMoves, LossStep
  <2>2. CASE ~UNCHANGED vars
    BY <2>2, LossStep
  <2> QED BY <2>1, <2>2
<1>2. LossInv /\ [Next]_vars => [EntryStep => Unaccounted = acked]_vars
  BY EntryFromReported, EntryReadsHalt DEF LossInv, FaultInv, HaltStands
<1>3. LossInv => LossIsReported /\ MarkersAreThreads
  BY DEF LossInv
<1> QED
  BY LossInit, <1>1, <1>2, <1>3, PTL DEF Spec, EntryKnowsTheGap

-----------------------------------------------------------------------------
(* What keeps the position within the targets.  A round sizes its legs from  *)
(* the book as it read it at its start; a run that is recorded while a leg   *)
(* is still to be placed makes that reading stale, and the run `stale_book'  *)
(* shows where this leads.  It is the only way out of the range.             *)

RecordedBetweenRounds ==
  [][legs # <<>> /\ pc = "legs" /\ pc' = "legs" => book' = book]_vars

InRange(n) == \E lo, hi \in Targets \cup {0} : lo <= n /\ n <= hi

Run  == thread["registered"]
Rest == Run.left + (IF Run.phase = "sent" THEN 1 ELSE 0)
Kept == book + unflushed

\* Whatever becomes of the run and of each leg, a book of k stays in range.
RunFits(k)  == InRange(k) /\ InRange(k + Run.filled)
                          /\ InRange(k + Run.filled + Toward(Run.sign, Rest))
LegsFit(k)  == \A i \in 1 .. Len(legs) : InRange(k + legs[i].qty)
PairFits(k) == Len(legs) = 2 => InRange(k + legs[1].qty + legs[2].qty)

\* The line of the round may or may not be written before the process dies, so
\* both the book and what the book is about to be have to fit.
RangeInv ==
  /\ target \in Targets \cup {0}
  /\ Run.phase = "none" => Run = NoThread
  /\ pc = "sent" => Run.phase = "none"
  /\ legs # <<>> => pc \in {"legs", "sent"}
  /\ Len(legs) <= 2
  /\ RunFits(book) /\ LegsFit(book)
  /\ RunFits(Kept) /\ LegsFit(Kept) /\ PairFits(Kept)

\* The range has no holes.
LEMMA Between ==
  ASSUME NEW a \in Int, NEW b \in Int, NEW c \in Int, InRange(a), InRange(c),
         (a <= b /\ b <= c) \/ (c <= b /\ b <= a)
  PROVE  InRange(b)
<1>1. \A t \in Targets \cup {0} : t \in Int
  BY ExecutionAssumption
<1>2. PICK lo1, hi1 \in Targets \cup {0} : lo1 <= a /\ a <= hi1
  BY DEF InRange
<1>3. PICK lo2, hi2 \in Targets \cup {0} : lo2 <= c /\ c <= hi2
  BY DEF InRange
<1>4. (lo1 <= b /\ b <= hi2) \/ (lo2 <= b /\ b <= hi1)
  BY <1>1, <1>2, <1>3
<1> QED
  BY <1>2, <1>3, <1>4 DEF InRange

\* Neither the bot's own sizing nor the venue turns an order around or grows it.
Within(e, q) == (0 <= e /\ e <= q) \/ (q <= e /\ e <= 0)

LEMMA OrdersShrink ==
  ASSUME TypeOK, NEW q \in Int, NEW r \in BOOLEAN
  PROVE  Within(Sized(q, r), q) /\ Within(Executed(q, r), q)
  BY DEF TypeOK, Within, Sized, Owned, Executed, Toward, Least, Abs, Against

\* What fits with none and with all of an order fits with any part of it.
LEMMA PartFits ==
  ASSUME NEW k \in Int, NEW q \in Int, NEW e \in Int,
         InRange(k), InRange(k + q), Within(e, q)
  PROVE  InRange(k + e)
<1>1. (k <= k + e /\ k + e <= k + q) \/ (k + q <= k + e /\ k + e <= k)
  BY DEF Within
<1>2. k + e \in Int /\ k + q \in Int
  OBVIOUS
<1> QED
  BY <1>1, <1>2, Between

\* The legs of a diff: each alone, and both together, stay between the book and
\* the target.
LEMMA DiffFits ==
  ASSUME NEW b \in Int, NEW t \in Int, InRange(b), InRange(t), InRange(0)
  PROVE  /\ Len(LegsFor(b, t)) <= 2
         /\ \A i \in 1 .. Len(LegsFor(b, t)) : InRange(b + LegsFor(b, t)[i].qty)
         /\ Len(LegsFor(b, t)) = 2 =>
              InRange(b + LegsFor(b, t)[1].qty + LegsFor(b, t)[2].qty)
<1>1. CASE b = t
  BY <1>1 DEF LegsFor
<1>2. CASE b # t /\ ((b > 0 /\ t < 0) \/ (b < 0 /\ t > 0))
  <2> DEFINE L == <<[qty |-> -b, reduce |-> TRUE], [qty |-> t, reduce |-> FALSE]>>
  <2>1. LegsFor(b, t) = L
    BY <1>2 DEF LegsFor
  <2>2. Len(L) = 2 /\ L[1].qty = -b /\ L[2].qty = t
    OBVIOUS
  <2>3. InRange(b + t)
    <3>1. b + t \in Int /\ ((b <= b + t /\ b + t <= t) \/ (t <= b + t /\ b + t <= b))
      BY <1>2
    <3> QED BY <3>1, Between
  <2>4. b + (-b) = 0 /\ b + (-b) + t = t
    OBVIOUS
  <2>5. InRange(b + L[1].qty) /\ InRange(b + L[2].qty) /\ InRange(b + L[1].qty + L[2].qty)
    BY <2>2, <2>3, <2>4
  <2>6. \A i \in 1 .. 2 : i = 1 \/ i = 2
    OBVIOUS
  <2> HIDE DEF L
  <2> QED BY <2>1, <2>2, <2>5, <2>6
<1>3. CASE b # t /\ ~((b > 0 /\ t < 0) \/ (b < 0 /\ t > 0))
  <2> DEFINE L == <<[qty |-> t - b, reduce |-> Abs(t) < Abs(b)]>>
  <2>1. LegsFor(b, t) = L
    BY <1>3 DEF LegsFor
  <2>2. Len(L) = 1 /\ L[1].qty = t - b
    OBVIOUS
  <2>3. b + (t - b) = t
    OBVIOUS
  <2>4. \A i \in 1 .. 1 : i = 1
    OBVIOUS
  <2> HIDE DEF L
  <2> QED BY <2>1, <2>2, <2>3, <2>4
<1> QED
  BY <1>1, <1>2, <1>3

\* Fewer legs fit where more did.
LEMMA TailFits ==
  ASSUME legs \in Seq(Leg), legs # <<>>, Len(legs) <= 2
  PROVE  /\ Tail(legs) \in Seq(Leg) /\ Len(Tail(legs)) <= 1
         /\ \A i \in 1 .. Len(Tail(legs)) : i = 1 /\ Len(legs) = 2
                                            /\ Tail(legs)[i] = legs[2]
         /\ Len(legs) \in 1 .. 2 /\ Head(legs) = legs[1] /\ legs[1] \in Leg
         /\ Len(legs) = 2 => legs[2] \in Leg
<1>1. Len(legs) \in Nat /\ Len(legs) # 0
  OBVIOUS
<1>2. Len(Tail(legs)) = Len(legs) - 1 /\ Tail(legs) \in Seq(Leg)
  OBVIOUS
<1>3. \A i \in 1 .. Len(Tail(legs)) : Tail(legs)[i] = legs[i + 1]
  OBVIOUS
<1>4. \A i \in 1 .. Len(legs) : legs[i] \in Leg
  OBVIOUS
<1>5. Head(legs) = legs[1]
  OBVIOUS
<1> QED
  BY <1>1, <1>2, <1>3, <1>4, <1>5

LEMMA RangeInit == Init => RangeInv
<1> SUFFICES ASSUME Init PROVE RangeInv
  OBVIOUS
<1>1. Run = NoThread /\ Rest = 0 /\ Kept = 0 /\ book = 0
  BY DEF Init, Run, Rest, Kept, Slots, NoThread
<1>2. InRange(0)
  BY DEF InRange
<1>3. Run.filled = 0 /\ Toward(Run.sign, Rest) = 0
  BY <1>1 DEF NoThread, Toward
<1>4. RunFits(0)
  BY <1>2, <1>3 DEF RunFits
<1>5. legs = <<>> /\ Len(legs) = 0
  BY DEF Init
<1>6. LegsFit(0) /\ PairFits(0)
  BY <1>5 DEF LegsFit, PairFits
<1> QED
  BY <1>1, <1>4, <1>5, <1>6 DEF RangeInv, Init

\* What the steps below start from: the types, and what the one execution of the
\* symbol may still do.
LEMMA RangeFacts ==
  ASSUME LossInv, RangeInv
  PROVE  /\ TypeOK /\ book \in Int /\ unflushed \in Int /\ Kept \in Int /\ pos \in Int
         /\ legs \in Seq(Leg) /\ Run \in Thread /\ Run.filled \in Int /\ Run.left \in Nat
         /\ Run.sign \in {-1, 1} /\ Rest \in Nat
         /\ pc \notin {"legs", "sent"} => unflushed = 0 /\ Kept = book
<1>1. TypeOK
  BY DEF LossInv, FaultInv, Shape
<1>2. Run \in Thread
  BY <1>1 DEF TypeOK, Slots, Run
<1>3. Run.filled \in Int /\ Run.left \in Nat /\ Run.sign \in {-1, 1}
  BY <1>2 DEF Thread
<1>4. Rest \in Nat
  BY <1>3 DEF Rest
<1>5. pc \notin {"legs", "sent"} => unflushed = 0
  BY DEF LossInv, HeldByRound
<1> QED
  BY <1>1, <1>2, <1>3, <1>4, <1>5 DEF TypeOK, Kept

\* A step that leaves the books alone and takes the head off the legs, or all of
\* them, keeps what is left of the round in range.
LEMMA FewerLegs ==
  ASSUME LossInv, RangeInv, legs # <<>>, legs' \in {Tail(legs), <<>>},
         UNCHANGED <<book, unflushed>>
  PROVE  /\ LegsFit(book)' /\ LegsFit(Kept)' /\ PairFits(Kept)'
         /\ Len(legs') <= 2
<1>1. legs \in Seq(Leg) /\ Len(legs) <= 2
  BY RangeFacts DEF RangeInv
<1>2. Len(legs') <= 1 /\ Len(legs') \in Nat
  BY <1>1, TailFits
<1>3. \A i \in 1 .. Len(legs') : legs'[i] = legs[2] /\ 2 \in 1 .. Len(legs)
  BY <1>1, TailFits
<1>4. book' = book /\ Kept' = Kept
  BY DEF Kept
<1> QED
  BY <1>2, <1>3, <1>4 DEF RangeInv, LegsFit, PairFits

\* No run registered means no fill held and nothing left to send.
LEMMA NoRunLeft ==
  ASSUME Run = NoThread
  PROVE  Run.filled = 0 /\ Rest = 0 /\ Toward(Run.sign, Rest) = 0
         /\ \A k \in Int : RunFits(k) <=> InRange(k)
<1>1. Run.filled = 0 /\ Rest = 0 /\ Toward(Run.sign, Rest) = 0
  BY DEF NoThread, Rest, Toward
<1>2. \A k \in Int : k + 0 = k /\ k + 0 + 0 = k
  OBVIOUS
<1> QED
  BY <1>1, <1>2 DEF RunFits

\* The round starts from a book in range, with legs that lead to the target.
LEMMA RangeStart ==
  ASSUME LossInv, RangeInv, StartRound
  PROVE  RangeInv'
<1> USE RangeFacts DEF round, disk, user
<1>1. /\ legs' = LegsFor(book, target) /\ pc' = "legs"
      /\ UNCHANGED <<thread, book, unflushed, target>>
      /\ unflushed = 0 /\ Kept = book
  BY DEF StartRound
<1>2. Run' = Run /\ Rest' = Rest /\ Kept' = book /\ book' = book
  BY <1>1 DEF Run, Rest, Kept
<1>3. InRange(book) /\ InRange(target) /\ InRange(0) /\ target \in Int
  <2>1. target \in Targets \cup {0} /\ target \in Int
    BY DEF RangeInv, TypeOK
  <2>2. target <= target /\ 0 <= 0
    BY <2>1
  <2> QED BY <2>1, <2>2 DEF RangeInv, RunFits, InRange
<1>4. /\ Len(legs') <= 2
      /\ \A i \in 1 .. Len(legs') : InRange(book + legs'[i].qty)
      /\ Len(legs') = 2 => InRange(book + legs'[1].qty + legs'[2].qty)
  BY <1>1, <1>3, DiffFits
<1>5. LegsFit(book)' /\ LegsFit(Kept)' /\ PairFits(Kept)'
  BY <1>2, <1>4 DEF LegsFit, PairFits
<1>6. RunFits(book)' /\ RunFits(Kept)'
  BY <1>1, <1>2 DEF RangeInv, RunFits
<1> QED
  BY <1>1, <1>2, <1>4, <1>5, <1>6 DEF RangeInv

\* A leg that is dropped, deferred or answered False.
LEMMA RangeDrop ==
  ASSUME LossInv, RangeInv,
         DenyEntry \/ SkipBarred \/ Defer \/ SkipEmpty \/ LegFailed
  PROVE  RangeInv'
<1> USE RangeFacts DEF round, disk, user
<1>1. /\ UNCHANGED <<book, unflushed, target>>
      /\ legs' \in {Tail(legs), <<>>} /\ pc' = "legs" /\ legs # <<>>
  BY DEF DenyEntry, SkipBarred, Defer, SkipEmpty, LegFailed, PlaceHead, LossInv,
         FaultInv, Shape
<1>2. Run' = Run \/ (Run.phase # "none" /\ \E b \in BOOLEAN : Run' = [Run EXCEPT !.stop = b])
  <2>1. CASE Defer
    <3>1. thread["registered"] \in Thread /\ "registered" \in DOMAIN thread
      BY DEF TypeOK, Slots
    <3>2. \E b \in BOOLEAN : thread' = [thread EXCEPT !["registered"].stop = b]
      BY <2>1, <3>1 DEF Defer, Thread
    <3>3. Run.phase # "none"
      BY <2>1 DEF Defer, Run
    <3> QED BY <3>1, <3>2, <3>3 DEF Run
  <2>2. CASE ~Defer
    BY <2>2 DEF DenyEntry, SkipBarred, SkipEmpty, LegFailed, Run
  <2> QED BY <2>1, <2>2
<1>3. /\ Run'.phase = Run.phase /\ Run'.filled = Run.filled /\ Run'.sign = Run.sign
      /\ Run'.left = Run.left /\ Rest' = Rest
      /\ Run.phase = "none" => Run' = Run
  BY <1>2 DEF Thread, Rest
<1>4. book' = book /\ Kept' = Kept
  BY <1>1 DEF Kept
<1>5. RunFits(book)' /\ RunFits(Kept)'
  BY <1>3, <1>4 DEF RangeInv, RunFits
<1>6. LegsFit(book)' /\ LegsFit(Kept)' /\ PairFits(Kept)' /\ Len(legs') <= 2
  BY <1>1, FewerLegs
<1> QED
  BY <1>1, <1>3, <1>5, <1>6 DEF RangeInv

\* What a part of the head leg, the rest of the legs and both together come to.
LEMMA HeadFits ==
  ASSUME LossInv, RangeInv, legs # <<>>, NEW e \in Int, Within(e, Head(legs).qty)
  PROVE  /\ InRange(book + e) /\ InRange(Kept + e)
         /\ Len(legs) = 2 => InRange(Kept + e + legs[2].qty)
         /\ Len(legs) = 2 => InRange(book + legs[2].qty) /\ InRange(Kept + legs[2].qty)
<1> USE RangeFacts
<1>1. /\ Len(legs) \in 1 .. 2 /\ Head(legs) = legs[1]
      /\ legs[1].qty \in Int /\ (Len(legs) = 2 => legs[2].qty \in Int)
  BY TailFits DEF RangeInv, Leg
<1>2. InRange(book + legs[1].qty) /\ InRange(Kept + legs[1].qty)
  BY <1>1 DEF RangeInv, LegsFit
<1>3. InRange(book) /\ InRange(Kept)
  BY DEF RangeInv, RunFits
<1>4. InRange(book + e) /\ InRange(Kept + e)
  BY <1>1, <1>2, <1>3, PartFits
<1>5. Len(legs) = 2 => InRange(book + legs[2].qty) /\ InRange(Kept + legs[2].qty)
  BY <1>1 DEF RangeInv, LegsFit
<1>6. ASSUME Len(legs) = 2 PROVE InRange(Kept + e + legs[2].qty)
  <2> DEFINE k == Kept + legs[2].qty
  <2>1. legs[2].qty \in Int /\ k \in Int
    BY <1>1, <1>6
  <2>2. InRange(Kept + legs[1].qty + legs[2].qty)
    BY <1>6 DEF RangeInv, PairFits
  <2>3. /\ Kept + legs[1].qty + legs[2].qty = k + legs[1].qty
        /\ Kept + e + legs[2].qty = k + e
    <3>1. \A x, y, z \in Int : x + y + z = (x + z) + y
      OBVIOUS
    <3>2. Kept \in Int /\ legs[1].qty \in Int /\ legs[2].qty \in Int
      BY <1>1, <2>1
    <3>3. Kept + legs[1].qty + legs[2].qty = (Kept + legs[2].qty) + legs[1].qty
      BY <3>1, <3>2
    <3>4. Kept + e + legs[2].qty = (Kept + legs[2].qty) + e
      BY <3>1, <3>2
    <3> QED BY <3>3, <3>4
  <2>4. InRange(k) /\ InRange(k + legs[1].qty)
    BY <1>5, <1>6, <2>2, <2>3
  <2> HIDE DEF k
  <2> QED BY <1>1, <2>1, <2>3, <2>4, PartFits
<1> QED
  BY <1>4, <1>5, <1>6

\* A market order goes out at the size the bot's own book allows it.
LEMMA RangeSend ==
  ASSUME LossInv, RangeInv, SendMarket
  PROVE  RangeInv'
<1> USE RangeFacts DEF round, disk, user
<1> DEFINE leg == Head(legs)
           q   == Sized(leg.qty, leg.reduce)
<1>1. /\ legs' = <<[leg EXCEPT !.qty = q]>> \o Tail(legs) /\ legs # <<>>
      /\ pc' = "sent" /\ UNCHANGED <<thread, book, unflushed, target>>
      /\ Run.phase = "none"
  BY DEF SendMarket, PlaceHead, Run
<1>2. Run' = Run /\ Rest' = Rest /\ Kept' = Kept /\ book' = book
  BY <1>1 DEF Run, Rest, Kept
<1>3. leg \in Leg /\ leg.qty \in Int /\ leg.reduce \in BOOLEAN /\ Len(legs) \in 1 .. 2
  BY <1>1, TailFits DEF RangeInv, Leg
<1>4. q \in Int /\ Within(q, leg.qty)
  BY <1>3, SizedType, OrdersShrink
<1>5. /\ InRange(book + q) /\ InRange(Kept + q)
      /\ Len(legs) = 2 => InRange(Kept + q + legs[2].qty)
      /\ Len(legs) = 2 => InRange(book + legs[2].qty) /\ InRange(Kept + legs[2].qty)
  BY <1>1, <1>4, HeadFits
<1>6. /\ Len(legs') = Len(legs) /\ legs'[1].qty = q
      /\ Len(legs) = 2 => legs'[2] = legs[2]
  <2> DEFINE new == [leg EXCEPT !.qty = q]
             tl  == Tail(legs)
  <2>1. new.qty = q /\ new \in Leg
    BY <1>3, <1>4 DEF Leg
  <2>2. tl \in Seq(Leg) /\ Len(tl) = Len(legs) - 1 /\ (Len(legs) = 2 => tl[1] = legs[2])
    BY <1>1, <1>3
  <2>3. legs' = <<new>> \o tl /\ Len(<<new>>) = 1 /\ <<new>>[1] = new
        /\ <<new>> \in Seq(Leg)
    BY <1>1, <2>1
  <2> HIDE DEF new, tl
  <2>4. Len(legs') = 1 + Len(tl) /\ legs'[1] = new
    BY <2>2, <2>3
  <2>5. Len(tl) = 1 => legs'[2] = tl[1]
    BY <2>2, <2>3
  <2> QED BY <1>3, <2>1, <2>2, <2>4, <2>5
<1>7. \A i \in 1 .. Len(legs') : i = 1 \/ (i = 2 /\ Len(legs) = 2)
  BY <1>3, <1>6
<1> HIDE DEF q, leg
<1>8. LegsFit(book)' /\ LegsFit(Kept)' /\ PairFits(Kept)' /\ Len(legs') <= 2
  BY <1>2, <1>3, <1>5, <1>6, <1>7 DEF LegsFit, PairFits
<1>9. RunFits(book)' /\ RunFits(Kept)'
  BY <1>2 DEF RangeInv, RunFits
<1> QED
  BY <1>1, <1>2, <1>8, <1>9 DEF RangeInv

\* A run is given the whole leg to work off.
LEMMA RangeLaunch ==
  ASSUME LossInv, RangeInv, Launch
  PROVE  RangeInv'
<1> USE RangeFacts DEF round, disk, user
<1> DEFINE leg == Head(legs)
<1>1. /\ legs' = Tail(legs) /\ legs # <<>> /\ pc' = pc /\ pc = "legs"
      /\ UNCHANGED <<book, unflushed, target>>
  BY DEF Launch, PlaceHead
<1>2. leg \in Leg /\ leg.qty \in Int /\ Len(legs) \in 1 .. 2
  BY <1>1, TailFits DEF RangeInv, Leg
<1>3. Run' = NewRun(leg)
  BY DEF Launch, Register, Run, TypeOK, Slots
<1>4. /\ Run'.phase = "work" /\ Run'.filled = 0
      /\ Toward(Run'.sign, Rest') = leg.qty
  <2>1. /\ NewRun(leg).phase = "work" /\ NewRun(leg).filled = 0
        /\ NewRun(leg).sign = SignOf(leg.qty) /\ NewRun(leg).left = Abs(leg.qty)
    BY DEF NewRun
  <2>2. Rest' = Abs(leg.qty)
    BY <1>2, <1>3, <2>1 DEF Rest, Abs
  <2> QED BY <1>2, <1>3, <2>1, <2>2 DEF Toward, SignOf, Abs
<1>5. Within(leg.qty, leg.qty)
  BY <1>2 DEF Within
<1> HIDE DEF leg
<1>6. InRange(book + leg.qty) /\ InRange(Kept + leg.qty) /\ InRange(book) /\ InRange(Kept)
  BY <1>1, <1>2, <1>5, HeadFits DEF leg, RangeInv, RunFits
<1>7. book' = book /\ Kept' = Kept
  BY <1>1 DEF Kept
<1>8. book + 0 = book /\ Kept + 0 = Kept
  OBVIOUS
<1>9. RunFits(book)' /\ RunFits(Kept)'
  BY <1>4, <1>6, <1>7, <1>8 DEF RunFits
<1>10. LegsFit(book)' /\ LegsFit(Kept)' /\ PairFits(Kept)' /\ Len(legs') <= 2
  BY <1>1, FewerLegs
<1> QED
  BY <1>1, <1>4, <1>9, <1>10 DEF RangeInv

\* The answer of the venue comes: its fill waits for the line of the round.
LEMMA RangeFilled ==
  ASSUME LossInv, RangeInv, LegFilled
  PROVE  RangeInv'
<1> USE RangeFacts DEF round, disk, user
<1> DEFINE leg == Head(legs)
           e   == Executed(leg.qty, leg.reduce)
<1>1. /\ legs' = Tail(legs) /\ legs # <<>> /\ pc = "sent" /\ pc' = "legs"
      /\ unflushed' = unflushed + e
      /\ UNCHANGED <<thread, book, target>>
  BY DEF LegFilled, LossInv, FaultInv, Shape
<1>2. leg \in Leg /\ leg.qty \in Int /\ leg.reduce \in BOOLEAN /\ Len(legs) \in 1 .. 2
  BY <1>1, TailFits DEF RangeInv, Leg
<1>3. e \in Int /\ Within(e, leg.qty)
  BY <1>2, ExecutedType, OrdersShrink
<1>4. /\ InRange(book + e) /\ InRange(Kept + e)
      /\ Len(legs) = 2 => InRange(Kept + e + legs[2].qty)
      /\ Len(legs) = 2 => InRange(book + legs[2].qty)
  BY <1>1, <1>3, HeadFits
<1> HIDE DEF e, leg
<1>5. Run' = Run /\ Rest' = Rest /\ book' = book /\ Kept' = Kept + e
  BY <1>1, <1>3 DEF Run, Rest, Kept
<1>6. Run = NoThread
  BY <1>1 DEF RangeInv
<1>7. RunFits(book)' /\ RunFits(Kept)'
  <2>1. Kept + e \in Int
    BY <1>3
  <2>2. RunFits(book) /\ RunFits(Kept + e)
    BY <1>4, <1>6, <2>1, NoRunLeft DEF RangeInv
  <2> QED BY <1>5, <2>2 DEF RunFits
<1>8. /\ Len(legs') <= 1 /\ Len(legs') \in Nat
      /\ \A i \in 1 .. Len(legs') : legs'[i] = legs[2] /\ Len(legs) = 2
  BY <1>1, TailFits DEF RangeInv
<1>9. LegsFit(book)' /\ LegsFit(Kept)' /\ PairFits(Kept)' /\ Len(legs') <= 2
  BY <1>4, <1>5, <1>8 DEF LegsFit, PairFits
<1> QED
  BY <1>1, <1>5, <1>6, <1>7, <1>9 DEF RangeInv

\* The line of the round is written: the book becomes what it was about to be.
LEMMA RangeFlush ==
  ASSUME LossInv, RangeInv, FlushLegs
  PROVE  RangeInv'
<1> USE RangeFacts DEF round, disk, user
<1>1. /\ legs = <<>> /\ legs' = <<>> /\ pc' = "flushed"
      /\ book' = Kept /\ unflushed' = 0
      /\ UNCHANGED <<thread, target>>
  BY DEF FlushLegs, Kept
<1>2. Run' = Run /\ Rest' = Rest /\ Kept' = Kept
  <2>1. Kept' = book' + unflushed'
    BY DEF Kept
  <2> QED BY <1>1, <2>1 DEF Run, Rest
<1>3. RunFits(book)' /\ RunFits(Kept)'
  BY <1>1, <1>2 DEF RangeInv, RunFits
<1>4. Len(legs') = 0 /\ LegsFit(book)' /\ LegsFit(Kept)' /\ PairFits(Kept)'
  BY <1>1 DEF LegsFit, PairFits
<1> QED
  BY <1>1, <1>2, <1>3, <1>4 DEF RangeInv

\* Steps that touch neither the books, nor the legs, nor the run.
LEMMA RangeUntouched ==
  ASSUME LossInv, RangeInv, UNCHANGED <<legs, book, unflushed, thread>>,
         target' \in Targets \cup {0},
         pc' = pc \/ (pc \notin {"legs", "sent"} /\ pc' # "sent")
  PROVE  RangeInv'
<1>1. Run' = Run /\ Rest' = Rest /\ Kept' = Kept /\ book' = book
  BY DEF Run, Rest, Kept
<1>2. RunFits(book)' /\ RunFits(Kept)' /\ LegsFit(book)' /\ LegsFit(Kept)' /\ PairFits(Kept)'
  BY <1>1 DEF RangeInv, RunFits, LegsFit, PairFits
<1> QED
  BY <1>1, <1>2 DEF RangeInv

LEMMA RangeMain ==
  ASSUME Faults = {}, LossInv, RangeInv, MainThread
  PROVE  RangeInv'
<1> USE DEF round, disk, user
<1>1. CASE StartRound
  BY <1>1, RangeStart
<1>2. CASE DenyEntry \/ SkipBarred \/ Defer \/ SkipEmpty \/ LegFailed
  BY <1>2, RangeDrop
<1>3. CASE SendMarket \/ Launch \/ LegFilled \/ FlushLegs
  BY <1>3, RangeSend, RangeLaunch, RangeFilled, RangeFlush
<1>4. CASE Unmark \/ Start \/ ReapDeadInflight \/ ClearMarkers \/ NothingToReap
  <2>1. UNCHANGED <<legs, book, unflushed, thread, target>>
    BY <1>4 DEF Unmark, Start, ReapDeadInflight, ClearMarkers, NothingToReap
  <2>2. pc \notin {"legs", "sent"} /\ pc' # "sent"
    BY <1>4 DEF Unmark, Start, ReapDeadInflight, ClearMarkers, NothingToReap
  <2> QED BY <2>1, <2>2, RangeUntouched DEF RangeInv
<1> QED
  BY <1>1, <1>2, <1>3, <1>4
  DEF MainThread, Abandon, LegUnread, Unread, FlushLost, Lost

\* While the run works, what it has filled and what it may still send only move
\* towards each other.
LEMMA RunShrinks ==
  ASSUME LossInv, RangeInv, NEW run \in Thread, NEW rest \in Nat,
         run.sign = Run.sign,
         \/ run.filled = Run.filled /\ rest <= Rest
         \/ run.filled = Run.filled + Run.sign /\ rest = Rest - 1,
         NEW k \in Int, RunFits(k)
  PROVE  InRange(k + run.filled) /\ InRange(k + run.filled + Toward(run.sign, rest))
<1> USE RangeFacts
<1> DEFINE a == k + Run.filled
           q == Toward(Run.sign, Rest)
           e == run.filled - Run.filled
           f == e + Toward(run.sign, rest)
<1>1. run.filled \in Int
  BY DEF Thread
<1>2. a \in Int /\ q \in Int /\ e \in Int /\ f \in Int
  BY <1>1 DEF Toward
<1>3. Within(e, q) /\ Within(f, q)
  <2>1. Run.sign = 1 \/ Run.sign = -1
    OBVIOUS
  <2>2. CASE Run.sign = 1
    <3>1. q = Rest /\ Toward(run.sign, rest) = rest
      BY <2>2 DEF Toward
    <3>2. (e = 0 /\ rest <= Rest) \/ (e = 1 /\ rest = Rest - 1)
      BY <2>2, <1>1
    <3> QED BY <3>1, <3>2, <1>2 DEF Within
  <2>3. CASE Run.sign = -1
    <3>1. q = -Rest /\ Toward(run.sign, rest) = -rest
      BY <2>3 DEF Toward
    <3>2. (e = 0 /\ rest <= Rest) \/ (e = -1 /\ rest = Rest - 1)
      BY <2>3, <1>1
    <3> QED BY <3>1, <3>2, <1>2 DEF Within
  <2> QED BY <2>1, <2>2, <2>3
<1>4. k + run.filled = a + e /\ k + run.filled + Toward(run.sign, rest) = a + f
  BY <1>1 DEF Toward
<1>5. InRange(a) /\ InRange(a + q)
  BY DEF RunFits
<1> HIDE DEF a, q, e, f
<1> QED
  BY <1>2, <1>3, <1>4, <1>5, PartFits

\* A step of the run that leaves the book alone.
LEMMA RangeWorks ==
  ASSUME LossInv, RangeInv, UNCHANGED <<pc, legs, book, unflushed, target>>,
         Run.phase # "none", Run'.phase # "none", Run' \in Thread, Rest' \in Nat,
         Run'.sign = Run.sign,
         \/ Run'.filled = Run.filled /\ Rest' <= Rest
         \/ Run'.filled = Run.filled + Run.sign /\ Rest' = Rest - 1
  PROVE  RangeInv'
<1> USE RangeFacts
<1>1. book' = book /\ Kept' = Kept
  BY DEF Kept
<1>2. /\ InRange(book + Run'.filled)
      /\ InRange(book + Run'.filled + Toward(Run'.sign, Rest'))
  BY RunShrinks DEF RangeInv
<1>3. /\ InRange(Kept + Run'.filled)
      /\ InRange(Kept + Run'.filled + Toward(Run'.sign, Rest'))
  BY RunShrinks DEF RangeInv
<1>4. RunFits(book)' /\ RunFits(Kept)'
  BY <1>1, <1>2, <1>3 DEF RangeInv, RunFits
<1>5. LegsFit(book)' /\ LegsFit(Kept)' /\ PairFits(Kept)' /\ Len(legs') <= 2
  BY <1>1 DEF RangeInv, LegsFit, PairFits
<1> QED
  BY <1>4, <1>5 DEF RangeInv

\* A run is written to the book between two rounds, or has nothing to write.
LEMMA RangeFinish ==
  ASSUME LossInv, RangeInv, Finish("registered"), TypeOK',
         legs # <<>> /\ pc = "legs" /\ pc' = "legs" => book' = book
  PROVE  RangeInv'
<1> USE RangeFacts DEF round, disk, user
<1>1. /\ UNCHANGED <<pc, legs, unflushed, target>>
      /\ book' = book + Run.filled /\ Run.phase = "finish"
  BY DEF Finish, Run
<1>2. Run' = [Run EXCEPT !.phase = "reap", !.filled = 0]
  BY DEF Finish, Run, TypeOK, Slots
<1>3. /\ Run'.phase = "reap" /\ Run'.filled = 0 /\ Rest' = Rest
      /\ Run'.sign = Run.sign
  BY <1>1, <1>2 DEF Thread, Rest
<1>4. book' \in Int /\ Kept' = Kept + Run.filled /\ Kept' \in Int
  BY <1>1 DEF Kept
<1>5. RunFits(book)' /\ RunFits(Kept)'
  <2>1. /\ InRange(book') /\ InRange(book' + Toward(Run.sign, Rest))
        /\ InRange(Kept') /\ InRange(Kept' + Toward(Run.sign, Rest))
    BY <1>1, <1>4 DEF RangeInv, RunFits
  <2>2. book' + 0 = book' /\ Kept' + 0 = Kept'
    <3>1. \A k \in Int : k + 0 = k
      OBVIOUS
    <3> QED BY <1>4, <3>1
  <2> QED BY <1>3, <2>1, <2>2 DEF RunFits
<1>6. LegsFit(book)' /\ LegsFit(Kept)' /\ PairFits(Kept)'
  <2>1. CASE legs = <<>>
    BY <1>1, <2>1 DEF LegsFit, PairFits
  <2>2. CASE legs # <<>>
    <3>1. pc = "legs" /\ pc' = "legs"
      BY <1>1, <2>2 DEF RangeInv
    <3>2. book' = book /\ Kept' = Kept
      BY <2>2, <3>1, <1>1, <1>4
    <3> QED BY <1>1, <3>2 DEF RangeInv, LegsFit, PairFits
  <2> QED BY <2>1, <2>2
<1>7. pc # "sent"
  BY <1>1 DEF RangeInv
<1> QED
  BY <1>1, <1>3, <1>5, <1>6, <1>7 DEF RangeInv

LEMMA RangeExecutor ==
  ASSUME Faults = {}, LossInv, RangeInv, NEW s \in Slots, Executor(s), TypeOK',
         legs # <<>> /\ pc = "legs" /\ pc' = "legs" => book' = book
  PROVE  RangeInv'
<1> USE RangeFacts DEF round, disk, user
<1>s. s = "registered" /\ Run.phase # "none"
  BY LossFacts DEF Executor, Slice, SelfStop, SliceFilled, SliceRefused, SliceUnread,
         LoopEnds, Finish, ReapOwn, RecordLost, Run
<1>p. UNCHANGED <<pc, legs, unflushed, target>>
  BY DEF Executor, Slice, SelfStop, SliceFilled, SliceRefused, SliceUnread,
         LoopEnds, Finish, ReapOwn, RecordLost, Lost
<1>t. Run' \in Thread /\ Rest' \in Nat /\ "registered" \in DOMAIN thread
  <2>1. Run' \in Thread
    BY DEF TypeOK, Slots, Run
  <2>2. Run'.left \in Nat
    BY <2>1 DEF Thread
  <2>3. Rest' \in Nat
    BY <2>2 DEF Rest
  <2>4. "registered" \in DOMAIN thread
    BY DEF TypeOK, Slots
  <2> QED BY <2>1, <2>3, <2>4
<1>1. CASE Slice(s) \/ SelfStop(s) \/ LoopEnds(s) \/ SliceRefused(s)
  <2>1. /\ Run'.filled = Run.filled /\ Run'.sign = Run.sign
        /\ Run'.phase # "none" /\ Rest' <= Rest
    <3>1. CASE Slice(s)
      <4>1. Run' = [Run EXCEPT !.phase = "sent", !.left = @ - 1] /\ Run.phase = "work"
        BY <3>1, <1>s, <1>t DEF Slice, Run
      <4> QED BY <4>1 DEF Thread, Rest
    <3>2. CASE SelfStop(s)
      <4>1. Run' = [Run EXCEPT !.stop = TRUE, !.phase = "finish"]
        BY <3>2, <1>s, <1>t DEF SelfStop, Run
      <4> QED BY <4>1 DEF Thread, Rest
    <3>3. CASE LoopEnds(s) \/ SliceRefused(s)
      <4>1. \E p \in {"work", "finish"} : Run' = [Run EXCEPT !.phase = p]
        BY <3>3, <1>s, <1>t DEF LoopEnds, SliceRefused, Run
      <4> QED BY <4>1 DEF Thread, Rest
    <3> QED BY <1>1, <3>1, <3>2, <3>3
  <2>2. book' = book
    BY <1>1 DEF Slice, SelfStop, LoopEnds, SliceRefused
  <2> QED BY <1>s, <1>p, <1>t, <2>1, <2>2, RangeWorks
<1>2. CASE SliceFilled(s)
  <2> DEFINE e == Executed(Run.sign, Run.reduce)
  <2>1. e \in Int /\ Within(e, Run.sign) /\ e # 0
    <3>1. Run.sign \in Int /\ Run.reduce \in BOOLEAN
      BY DEF Thread
    <3>2. Executed(Run.sign, Run.reduce) # 0
      BY <1>2, <1>s DEF SliceFilled, Filled, Run
    <3> QED BY <3>1, <3>2, ExecutedType, OrdersShrink
  <2>2. e = Run.sign
    BY <2>1 DEF Within
  <2>3. Run' = [Run EXCEPT !.phase = "work", !.filled = @ + e] /\ Run.phase = "sent"
    BY <1>2, <1>s, <1>t DEF SliceFilled, Run
  <2> HIDE DEF e
  <2>4. /\ Run'.filled = Run.filled + Run.sign /\ Run'.sign = Run.sign
        /\ Run'.phase = "work" /\ Rest' = Rest - 1
    BY <2>2, <2>3 DEF Thread, Rest
  <2>5. book' = book
    BY <1>2 DEF SliceFilled
  <2> QED BY <1>s, <1>p, <1>t, <2>4, <2>5, RangeWorks
<1>3. CASE Finish(s)
  BY <1>3, <1>s, RangeFinish
<1>4. CASE ReapOwn(s)
  <2>1. Run' = NoThread /\ book' = book
    BY <1>4, <1>s, <1>t DEF ReapOwn, Run
  <2>2. Kept' = Kept
    BY <1>p, <2>1 DEF Kept
  <2>3. Run'.filled = 0 /\ Toward(Run'.sign, Rest') = 0
    BY <2>1 DEF NoThread, Rest, Toward
  <2>4. book + 0 = book /\ Kept + 0 = Kept
    OBVIOUS
  <2>5. RunFits(book)' /\ RunFits(Kept)'
    BY <2>1, <2>2, <2>3, <2>4 DEF RangeInv, RunFits
  <2>6. LegsFit(book)' /\ LegsFit(Kept)' /\ PairFits(Kept)'
    BY <1>p, <2>1, <2>2 DEF RangeInv, LegsFit, PairFits
  <2>7. pc # "sent"
    BY <1>s DEF RangeInv
  <2> QED BY <1>p, <2>1, <2>5, <2>6, <2>7 DEF RangeInv
<1> QED
  BY <1>1, <1>2, <1>3, <1>4 DEF Executor, SliceUnread, Unread, RecordLost, Lost

\* A death takes the round and the run with it; the books stay as they are.
LEMMA RangeDie ==
  ASSUME LossInv, RangeInv, Die
  PROVE  RangeInv'
<1> USE RangeFacts DEF round, disk, user
<1>1. /\ Run' = NoThread /\ legs' = <<>> /\ unflushed' = 0 /\ pc' = "down"
      /\ UNCHANGED <<book, target>>
  BY DEF Die, Run, Slots
<1>2. Kept' = book /\ book' = book
  BY <1>1 DEF Kept
<1>3. Run'.filled = 0 /\ Toward(Run'.sign, Rest') = 0
  BY <1>1 DEF NoThread, Rest, Toward
<1>4. book + 0 = book
  OBVIOUS
<1>5. RunFits(book)' /\ RunFits(Kept)'
  BY <1>2, <1>3, <1>4 DEF RangeInv, RunFits
<1>6. Len(legs') = 0 /\ LegsFit(book)' /\ LegsFit(Kept)' /\ PairFits(Kept)'
  BY <1>1 DEF LegsFit, PairFits
<1> QED
  BY <1>1, <1>5, <1>6 DEF RangeInv

LEMMA RangeStep ==
  ASSUME Faults = {}, LossInv, RangeInv, [Next]_vars, TypeOK',
         [legs # <<>> /\ pc = "legs" /\ pc' = "legs" => book' = book]_vars
  PROVE  RangeInv'
<1> USE DEF round, disk, user
<1>t. target \in Targets \cup {0}
  BY DEF RangeInv
<1>1. CASE UNCHANGED vars
  BY <1>1, <1>t, RangeUntouched DEF vars
<1>2. CASE MainThread
  BY <1>2, RangeMain
<1>3. ASSUME NEW s \in Slots, Executor(s) PROVE RangeInv'
  <2>1. legs # <<>> /\ pc = "legs" /\ pc' = "legs" => book' = book
    BY DEF vars
  <2> QED BY <1>3, <2>1, RangeExecutor
<1>4. CASE Environment
  <2>1. CASE Die
    BY <2>1, RangeDie
  <2>2. CASE RestingFills \/ PressHalt \/ PressStart \/ Bar
    BY <2>2, <1>t, RangeUntouched DEF RestingFills, PressHalt, PressStart, Bar
  <2>3. CASE SetTarget
    BY <2>3, RangeUntouched DEF SetTarget
  <2> QED BY <1>4, <2>1, <2>2, <2>3 DEF Environment
<1> QED
  BY <1>1, <1>2, <1>3, <1>4 DEF Next

\* What the account really holds and what is still under way.
LEMMA RangeMeansTargets == LossInv /\ RangeInv => WithinTargets
<1> SUFFICES ASSUME LossInv, RangeInv, pc \in Living, Unaccounted = 0
             PROVE  InRange(pos + Outstanding)
  BY DEF WithinTargets, InRange
<1> USE RangeFacts
<1>1. pos = Kept + Run.filled
  BY LossFacts DEF Kept, Run
<1>2. CASE pc = "sent"
  <2>1. Run.filled = 0 /\ Toward(Run.sign, Rest) = 0
    BY <1>2, NoRunLeft DEF RangeInv
  <2>2. legs # <<>>
    BY <1>2 DEF LossInv, FaultInv, Shape
  <2>3. Head(legs).qty \in Int
    <3>1. Head(legs) \in Leg
      BY <2>2, TailFits DEF RangeInv
    <3> QED BY <3>1 DEF Leg
  <2>4. Outstanding = Head(legs).qty
    BY <1>2, <2>1, <2>3 DEF Outstanding, Run, Rest
  <2>5. Within(Head(legs).qty, Head(legs).qty)
    BY <2>3 DEF Within
  <2>6. InRange(Kept + Head(legs).qty)
    BY <2>2, <2>3, <2>5, HeadFits
  <2> QED BY <1>1, <2>1, <2>4, <2>6
<1>3. CASE pc # "sent"
  <2>1. Toward(Run.sign, Rest) \in Int
    BY DEF Toward
  <2>2. Outstanding = Toward(Run.sign, Rest)
    BY <1>3, <2>1 DEF Outstanding, Run, Rest
  <2> QED BY <1>1, <2>2 DEF RangeInv, RunFits
<1> QED
  BY <1>2, <1>3

\* As long as no run writes its fills to the book while a round still has a leg
\* to place, what is held plus what is under way never leaves the range of the
\* targets, wherever the process dies: the sizes of a round are stale in no
\* other way (lib/execute.py 313-315, lib/portfolio.py reconcile).
THEOREM SizedWithinTargets ==
  ASSUME Faults = {}
  PROVE  Spec /\ RecordedBetweenRounds => []WithinTargets
<1>1. Init => LossInv /\ RangeInv
  BY LossInit, RangeInit
<1>2. /\ LossInv /\ RangeInv /\ [Next]_vars
      /\ [legs # <<>> /\ pc = "legs" /\ pc' = "legs" => book' = book]_vars
      => (LossInv /\ RangeInv)'
  <2> SUFFICES ASSUME LossInv, RangeInv, [Next]_vars,
                      [legs # <<>> /\ pc = "legs" /\ pc' = "legs" => book' = book]_vars
               PROVE  (LossInv /\ RangeInv)'
    OBVIOUS
  <2>1. LossInv'
    BY LossStep DEF Dropped, FlushLost, RecordLost, Lost
  <2>2. TypeOK'
    BY <2>1 DEF LossInv, FaultInv, Shape
  <2> QED BY <2>1, <2>2, RangeStep
<1> QED
  BY <1>1, <1>2, RangeMeansTargets, PTL DEF Spec, RecordedBetweenRounds
=============================================================================
