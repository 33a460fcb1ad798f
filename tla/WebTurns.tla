------------------------------ MODULE WebTurns ------------------------------
(***************************************************************************)
(* The web bridge (runtime/web_bridge.py) and the turns it starts: a poll  *)
(* thread that files messages the api leases to this machine, a queue per  *)
(* conversation in memory and on disk, a dispatcher that starts turns      *)
(* while a slot is free, a worker thread per running turn, and the Stop    *)
(* button.  The telegram bridge is a second process that takes slots.      *)
(***************************************************************************)
EXTENDS TurnSlots, Sequences

CONSTANTS
  Messages,     \* numbers, in the order the user sends them
  SessionOf,    \* the conversation of each message
  Telegram,     \* the telegram bridge's one turn
  NoMsg,
  BridgeFaults, \* ack_lost: the api may not hear an ack
  MaxMishaps,   \* bound on deaths, Stops, failed starts and lost leases together
  MaxTelegram   \* bound on the telegram bridge's turns

Sessions == Turns \ {Telegram}

ASSUME WebTurnsAssumption ==
  /\ Messages \subseteq Nat
  /\ "web" \in Bridges
  /\ Telegram \in Turns /\ BridgeOf[Telegram] = "telegram"
  /\ SessionOf \in [Messages -> Sessions]
  /\ \A s \in Sessions : BridgeOf[s] = "web"
  /\ NoMsg \notin Messages
  /\ BridgeFaults \subseteq {"ack_lost"}
  /\ {MaxMishaps, MaxTelegram} \subseteq Nat

VARIABLES
  lease,        \* the api's side of each message; one not yet sent is pending too
  up,           \* the bridge process lives
  hand,         \* what the poll thread is working on
  queue, disk,  \* _queues and state/web_queue.json
  seen,         \* _seen: message ids of this process
  run,          \* _running and its worker, per session
  queuedAt,     \* _queued_at: sessions reported as queued
  toReport,     \* sessions the dispatcher is about to report
  shown,        \* the last turn_state the browser has of each session
  flags,        \* stop files on disk
  mishaps, tgTurns, \* what has been used of the bounds
  starts,       \* ghost: how often a turn of each message was started
  gone,         \* ghost: messages that ended, were cancelled or died running
  late,         \* ghost: messages whose lease ran out
  exposed,      \* ghost: filed and not acked when the bridge died
  pressed       \* ghost: messages whose running turn the user stopped

memory == <<hand, queue, seen, run, queuedAt, toReport>>
ghosts == <<starts, gone, late, exposed, pressed>>
usage  == <<mishaps, tgTurns>>
webVars   == <<slotVars, lease, up, memory, disk, shown, flags, usage, ghosts>>

NoMessage     == [at |-> "none", msg |-> NoMsg, session |-> Telegram]
NoRun    == [at |-> "none", msg |-> NoMsg, more |-> FALSE]
Queues   == [Sessions -> Seq(Messages)]
Waiting(q) == UNION {{q[s][i] : i \in DOMAIN q[s]} : s \in Sessions}

WebTypeOK ==
  /\ SlotTypeOK
  /\ lease \in [Messages -> {"pending", "leased", "acked"}]
  /\ up \in BOOLEAN
  /\ hand \in [at : {"none", "file", "ack", "cancel", "find", "flag"},
               msg : Messages \cup {NoMsg}, session : Turns]
  /\ queue \in Queues /\ disk \in Queues /\ seen \subseteq Messages
  /\ run \in [Sessions -> [at : {"none", "post", "turn", "after", "done", "queued", "leave"},
                           msg : Messages \cup {NoMsg}, more : BOOLEAN]]
  /\ queuedAt \subseteq Sessions /\ toReport \subseteq Sessions
  /\ shown \in [Sessions -> {"none", "queued", "running", "done", "cancelled"}]
  /\ flags \subseteq Messages \cup Sessions
  /\ {mishaps, tgTurns} \subseteq Nat
  /\ starts \in [Messages -> Nat]
  /\ gone \subseteq Messages /\ late \subseteq Messages /\ exposed \subseteq Messages /\ pressed \subseteq Messages

WebInit ==
  /\ SlotInit
  /\ lease = [m \in Messages |-> "pending"] /\ up = TRUE /\ hand = NoMessage
  /\ queue = [s \in Sessions |-> <<>>] /\ disk = queue /\ seen = {}
  /\ run = [s \in Sessions |-> NoRun]
  /\ queuedAt = {} /\ toReport = {}
  /\ shown = [s \in Sessions |-> "none"] /\ flags = {}
  /\ mishaps = 0 /\ tgTurns = 0
  /\ starts = [m \in Messages |-> 0]
  /\ gone = {} /\ late = {} /\ exposed = {} /\ pressed = {}

\* _dispatch holds _lock while it looks for a slot.
Locked == Scanning("web")

Mishap == mishaps < MaxMishaps /\ mishaps' = mishaps + 1

Persist == disk' = queue'
Show(s, state) == shown' = [shown EXCEPT ![s] = state]

-----------------------------------------------------------------------------
(* The api and the poll thread.                                              *)

\* A claimed message whose ack has not come goes out again after 60 s.
LeaseEnds(m) ==
  /\ lease[m] = "leased" /\ Mishap
  /\ lease' = [lease EXCEPT ![m] = "pending"]
  /\ late' = late \cup {m}
  /\ UNCHANGED <<slotVars, up, memory, disk, shown, flags, tgTurns, starts, gone,
                 exposed, pressed>>

HandOut(m) ==
  /\ up /\ hand.at = "none"
  /\ lease[m] = "pending"
  /\ \A n \in Messages : n < m /\ SessionOf[n] = SessionOf[m] => lease[n] # "pending"
  /\ lease' = [lease EXCEPT ![m] = "leased"]
  /\ hand' = [at |-> "file", msg |-> m, session |-> SessionOf[m]]
  /\ UNCHANGED <<slotVars, up, disk, queue, seen, run, queuedAt, toReport,
                 shown, flags, usage, ghosts>>

\* _already_have, and the same question again under the lock.
IsKnown(m) ==
  m \in seen \cup Waiting(queue) \cup {run[s].msg : s \in Sessions}

\* Mutant: the ack goes out while the message is in memory only.
FileInMemory ==
  LET m == hand.msg  s == hand.session IN
  /\ hand.at = "file" /\ ~Locked
  /\ queue' = IF IsKnown(m) THEN queue ELSE [queue EXCEPT ![s] = Append(@, m)]
  /\ seen' = IF IsKnown(m) THEN seen ELSE seen \cup {m}
  /\ UNCHANGED disk
  /\ hand' = [hand EXCEPT !.at = "ack"]
  /\ UNCHANGED <<slotVars, lease, up, run, queuedAt, toReport, shown, flags, usage,
                 ghosts>>

\* _ingest of a user message: into the queue and onto the disk, then the ack.
File ==
  LET m == hand.msg  s == hand.session IN
  /\ hand.at = "file" /\ ~Locked
  /\ IF IsKnown(m) THEN UNCHANGED <<queue, seen, disk>>
     ELSE /\ queue' = [queue EXCEPT ![s] = Append(@, m)]
          /\ seen' = seen \cup {m}
          /\ Persist
  /\ hand' = [hand EXCEPT !.at = "ack"]
  /\ UNCHANGED <<slotVars, lease, up, run, queuedAt, toReport, shown, flags, usage,
                 ghosts>>

Ack ==
  /\ hand.at = "ack"
  /\ lease' \in {[lease EXCEPT ![hand.msg] = "acked"]}
                 \cup (IF "ack_lost" \in BridgeFaults THEN {lease} ELSE {})
  /\ hand' = NoMessage
  /\ UNCHANGED <<slotVars, up, disk, queue, seen, run, queuedAt, toReport,
                 shown, flags, usage, ghosts>>

-----------------------------------------------------------------------------
(* Stop, which reaches the same thread as an interrupt.                      *)

PressStop(s) ==
  /\ up /\ hand.at = "none" /\ Mishap
  /\ hand' = [at |-> "cancel", msg |-> NoMsg, session |-> s]
  /\ UNCHANGED <<slotVars, lease, up, disk, queue, seen, run, queuedAt, toReport,
                 shown, flags, tgTurns, ghosts>>

\* _cancel_queued: what has not started is withdrawn, unless a turn runs.
CancelQueued ==
  LET s == hand.session IN
  /\ hand.at = "cancel" /\ ~Locked
  /\ run[s].at = "none" /\ queue[s] # <<>>
  /\ gone' = gone \cup {queue[s][i] : i \in DOMAIN queue[s]}
  /\ queue' = [queue EXCEPT ![s] = <<>>]
  /\ queuedAt' = queuedAt \ {s}
  /\ Persist
  /\ Show(s, "cancelled")
  /\ hand' = NoMessage
  /\ UNCHANGED <<slotVars, lease, up, seen, run, toReport, flags, usage, starts,
                 late, exposed, pressed>>

NothingQueued ==
  LET s == hand.session IN
  /\ hand.at = "cancel" /\ ~Locked
  /\ run[s].at # "none" \/ queue[s] = <<>>
  /\ hand' = [hand EXCEPT !.at = "find"]
  /\ UNCHANGED <<slotVars, lease, up, disk, queue, seen, run, queuedAt, toReport,
                 shown, flags, usage, ghosts>>

\* Mutant: one stop file for all turns.
StopFileShared(s, m) == NoMsg

\* The path is minted for every turn.
StopFile(s, m) == m

\* _stop_running reads the path under the lock and writes the file after it.
FindStopFile ==
  LET s == hand.session IN
  /\ hand.at = "find" /\ ~Locked
  /\ IF run[s].at = "none" THEN hand' = NoMessage /\ UNCHANGED pressed
     ELSE /\ hand' = [hand EXCEPT !.at = "flag", !.msg = run[s].msg]
          /\ pressed' = pressed \cup {run[s].msg}
  /\ UNCHANGED <<slotVars, lease, up, disk, queue, seen, run, queuedAt, toReport,
                 shown, flags, usage, starts, gone, late, exposed>>

WriteStopFile ==
  /\ hand.at = "flag"
  /\ flags' = flags \cup {StopFile(hand.session, hand.msg)}
  /\ hand' = NoMessage
  /\ UNCHANGED <<slotVars, lease, up, disk, queue, seen, run, queuedAt, toReport,
                 shown, usage, ghosts>>

-----------------------------------------------------------------------------
(* The dispatcher.                                                           *)

Pending == {s \in Sessions : queue[s] # <<>> /\ run[s].at = "none"}
Oldest(s) == \A o \in Pending : queue[s][1] <= queue[o][1]

\* One pass of _dispatch: the oldest pending session asks for a slot.
Dispatch(s) ==
  /\ up /\ toReport = {} /\ s \in Pending /\ Oldest(s)
  /\ Acquire("web", s)
  /\ UNCHANGED <<lease, up, memory, disk, shown, flags, usage, ghosts>>

WebScan ==
  /\ Look("web") \/ Unlink("web") \/ CreateFails("web")
  /\ UNCHANGED <<lease, up, memory, disk, shown, flags, usage, ghosts>>

\* The entry leaves queue and disk; the worker thread starts.
StartTurn ==
  LET s == scan["web"].turn  m == queue[s][1] IN
  /\ Create("web")
  /\ queue' = [queue EXCEPT ![s] = Tail(@)]
  /\ run' = [run EXCEPT ![s] = [at |-> "post", msg |-> m, more |-> FALSE]]
  /\ queuedAt' = queuedAt \ {s}
  /\ Persist
  /\ starts' = [starts EXCEPT ![m] = @ + 1]
  /\ UNCHANGED <<lease, up, hand, seen, toReport, shown, flags, usage, gone, late,
                 exposed, pressed>>

\* Mutant: the entry goes to the end of its queue.
PutBackLast ==
  LET s == scan["web"].turn IN
  queue' = [queue EXCEPT ![s] = Append(Tail(@), Head(@))]

\* Mutant: what the dispatcher popped stays popped.
PutBackNothing ==
  LET s == scan["web"].turn IN queue' = [queue EXCEPT ![s] = Tail(@)]

PutBack == queue' = queue

\* No thread could be started: entry, registration and slot are undone.
StartFails ==
  /\ Mishap
  /\ scan["web"].at = "create" /\ slot[scan["web"].slot] = "free"
  /\ PutBack /\ Persist
  /\ queuedAt' = queuedAt \ {scan["web"].turn}
  /\ StopScan("web")
  /\ UNCHANGED <<slot, held, lease, up, hand, seen, run, toReport, shown, flags,
                 tgTurns, ghosts>>

\* Sessions left waiting: reported the first time, then every QUEUED_REFRESH.
LeftWaiting ==
  /\ up /\ ~Locked /\ toReport = {} /\ Pending # {}
  /\ \E some \in SUBSET Pending :
       /\ Pending \ queuedAt \subseteq some /\ some # {}
       /\ toReport' = some /\ queuedAt' = queuedAt \cup some
  /\ Refused
  /\ UNCHANGED <<slotVars, lease, up, hand, queue, seen, run, disk, shown, flags,
                 usage, ghosts>>

ReportQueued(s) ==
  /\ s \in toReport
  /\ toReport' = toReport \ {s}
  /\ Show(s, "queued")
  /\ UNCHANGED <<slotVars, lease, up, hand, queue, seen, run, queuedAt, disk, flags,
                 usage, ghosts>>

-----------------------------------------------------------------------------
(* The worker thread of a session.                                           *)

ReportRunning(s) ==
  /\ run[s].at = "post"
  /\ run' = [run EXCEPT ![s].at = "turn"]
  /\ Show(s, "running")
  /\ UNCHANGED <<slotVars, lease, up, hand, queue, seen, queuedAt, toReport, disk,
                 flags, usage, ghosts>>

\* The child ends, fails, is stopped, or is killed after TURN_TIMEOUT.
TurnEnds(s) ==
  /\ run[s].at = "turn" /\ Release(s)
  /\ flags' = flags \ {StopFile(s, run[s].msg)}
  /\ gone' = gone \cup {run[s].msg}
  /\ run' = [run EXCEPT ![s].at = "after"]
  /\ UNCHANGED <<lease, up, hand, queue, seen, queuedAt, toReport, disk, shown,
                 usage, starts, late, exposed, pressed>>

SeeMore(s) ==
  /\ run[s].at = "after" /\ ~Locked
  /\ run' = [run EXCEPT ![s].at = "done", ![s].more = queue[s] # <<>>]
  /\ queuedAt' = IF queue[s] # <<>> THEN queuedAt \cup {s} ELSE queuedAt
  /\ UNCHANGED <<slotVars, lease, up, hand, queue, seen, toReport, disk, shown, flags,
                 usage, ghosts>>

ReportDone(s) ==
  /\ run[s].at = "done"
  /\ run' = [run EXCEPT ![s].at = IF run[s].more THEN "queued" ELSE "leave"]
  /\ Show(s, "done")
  /\ UNCHANGED <<slotVars, lease, up, hand, queue, seen, queuedAt, toReport, disk,
                 flags, usage, ghosts>>

ReportMore(s) ==
  /\ run[s].at = "queued"
  /\ run' = [run EXCEPT ![s].at = "leave"]
  /\ Show(s, "queued")
  /\ UNCHANGED <<slotVars, lease, up, hand, queue, seen, queuedAt, toReport, disk,
                 flags, usage, ghosts>>

Leave(s) ==
  /\ run[s].at = "leave" /\ ~Locked
  /\ run' = [run EXCEPT ![s] = NoRun]
  /\ UNCHANGED <<slotVars, lease, up, hand, queue, seen, queuedAt, toReport, disk,
                 shown, flags, usage, ghosts>>

-----------------------------------------------------------------------------
(* Death and restart of the bridge; the telegram bridge.                     *)

\* SIGTERM tells the browser of each running turn first, SIGKILL does not.
Die ==
  /\ up /\ Mishap
  /\ BridgeDies("web")
  /\ up' = FALSE
  /\ shown' \in {shown, [s \in Sessions |-> IF run[s].at = "none" THEN shown[s]
                                            ELSE "done"]}
  /\ gone' = gone \cup ({run[s].msg : s \in Sessions} \ {NoMsg})
  /\ exposed' = exposed \cup {m \in seen : lease[m] # "acked"}
  /\ hand' = NoMessage /\ queue' = [s \in Sessions |-> <<>>] /\ seen' = {}
  /\ run' = [s \in Sessions |-> NoRun] /\ queuedAt' = {} /\ toReport' = {}
  /\ UNCHANGED <<lease, disk, flags, tgTurns, starts, late, pressed>>

\* _clear_stop_flags and _resume_queue, before the dispatcher runs.
Restart ==
  /\ ~up /\ up' = TRUE
  /\ flags' = {}
  /\ queue' = disk /\ seen' = Waiting(disk)
  /\ queuedAt' = {s \in Sessions : disk[s] # <<>>}
  /\ shown' = [s \in Sessions |-> IF disk[s] # <<>> THEN "queued" ELSE shown[s]]
  /\ UNCHANGED <<slotVars, lease, hand, run, toReport, disk, usage, ghosts>>

TelegramTurn ==
  /\ \/ /\ tgTurns < MaxTelegram /\ tgTurns' = tgTurns + 1 /\ Acquire("telegram", Telegram)
     \/ (Scan("telegram") \/ Release(Telegram)) /\ UNCHANGED tgTurns
  /\ UNCHANGED <<lease, up, memory, disk, shown, flags, mishaps, ghosts>>

Age ==
  /\ \E i \in SlotIds : GoStale(i)
  /\ UNCHANGED <<lease, up, memory, disk, shown, flags, usage, ghosts>>

PollThread == (\E m \in Messages : HandOut(m)) \/ File \/ Ack \/ CancelQueued
              \/ NothingQueued \/ FindStopFile \/ WriteStopFile
Dispatcher == (\E s \in Sessions : Dispatch(s) \/ ReportQueued(s))
              \/ WebScan \/ StartTurn \/ LeftWaiting
Worker(s)  == ReportRunning(s) \/ TurnEnds(s) \/ SeeMore(s) \/ ReportDone(s)
              \/ ReportMore(s) \/ Leave(s)

WebNext ==
  \/ PollThread \/ Dispatcher \/ StartFails \/ Die \/ Restart \/ TelegramTurn \/ Age
  \/ \E s \in Sessions : Worker(s) \/ PressStop(s)
  \/ \E m \in Messages : LeaseEnds(m)

WebSpec == WebInit /\ [][WebNext]_webVars

\* Threads are scheduled, a turn ends by TURN_TIMEOUT, services restart, and what
\* nobody touches grows stale.  Nothing is assumed of the user or the api.
WebFairSpec ==
  /\ WebSpec
  /\ WF_webVars(PollThread) /\ WF_webVars(Dispatcher) /\ WF_webVars(Restart) /\ WF_webVars(Age)
  /\ WF_webVars(TelegramTurn)
  /\ \A s \in Sessions : WF_webVars(Worker(s))

-----------------------------------------------------------------------------
\* What the api was told the machine holds is in the queue, on the disk while
\* the bridge is down, running, or over (web_bridge.py 16-18).
AckedIsKept ==
  \A m \in Messages : lease[m] = "acked" =>
    m \in gone \cup Waiting(IF up THEN queue ELSE disk) \cup {run[s].msg : s \in Sessions}

\* A message is answered once, whatever is redelivered; only one whose ack was
\* still out when the bridge died may run again (ack_message).
AnsweredOnce == \A m \in Messages : starts[m] > 1 => m \in exposed

\* The two together: whatever is lost, redelivered or restarted, an acknowledged
\* message is neither dropped nor answered twice.
ExactlyOnce == AckedIsKept /\ AnsweredOnce

\* Within a conversation turns start in the order the user wrote, also after a
\* failed start and after a restart; a message redelivered late may come later.
InOrderStep ==
  \A m, n \in Messages :
    (starts'[n] > starts[n] /\ m < n /\ SessionOf[m] = SessionOf[n]) =>
      m \in late \/ m \notin Waiting(queue)
StartsInOrder == [][InOrderStep]_webVars

\* A Stop kills the turn it was pressed for and none that starts later.
StopHitsItsTurn ==
  \A s \in Sessions :
    run[s].at = "turn" /\ StopFile(s, run[s].msg) \in flags => run[s].msg \in pressed

\* A message the machine has filed is answered or withdrawn, whatever dies and
\* whoever else takes the slots.
FiledIsAnswered == \A m \in Messages : (m \in Waiting(disk)) ~> (m \in gone)
=============================================================================
