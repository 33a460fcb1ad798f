---------------------------- MODULE CommandLoop ----------------------------
(***************************************************************************)
(* The poll loop of the command listener (runtime/command_listener.py,     *)
(* run): one command at a time, reports pushed by a single-flight thread   *)
(* with a dirty flag, the optimizer run by a worker that acks later.       *)
(* Neither a report nor the optimizer is promised to end.                  *)
(***************************************************************************)
EXTENDS Naturals, FiniteSets

CONSTANT MaxCommands   \* bound on commands the user sends

ASSUME CommandLoopAssumption == MaxCommands \in Nat

VARIABLES
  sent,      \* commands the api holds or has handed out: 1 .. sent
  taken,     \* commands dispatched
  loop,      \* the poll thread and the command it works on
  optLock,   \* _OPT_LOCK
  workers,   \* command-deferred threads, by command
  inflight, dirty,  \* the two events under report_lock
  reporter,  \* the command-report thread and what its current push has read
  done,      \* commands whose effect the machine has
  pushed,    \* commands a finished push had read the effect of
  unsaid     \* ghost: commands whose report or worker thread could not start

loopVars == <<sent, taken, loop, optLock, workers, inflight, dirty, reporter, done, pushed, unsaid>>

Commands == 1 .. MaxCommands
Resting  == [at |-> "poll", cmd |-> 0]
NoReport == [at |-> "none", has |-> {}]

LoopTypeOK ==
  /\ sent \in 0 .. MaxCommands /\ taken \subseteq Commands
  /\ loop \in [at : {"poll", "dispatch", "spawn", "report", "thread"}, cmd : 0 .. MaxCommands]
  /\ optLock \in BOOLEAN /\ workers \subseteq Commands
  /\ {inflight, dirty} \subseteq BOOLEAN
  /\ reporter \in [at : {"none", "push", "sent", "delay", "repush", "check"}, has : SUBSET Commands]
  /\ done \cup pushed \cup unsaid \subseteq Commands

LoopInit ==
  /\ sent = 0 /\ taken = {} /\ loop = Resting
  /\ optLock = FALSE /\ workers = {}
  /\ inflight = FALSE /\ dirty = FALSE /\ reporter = NoReport
  /\ done = {} /\ pushed = {} /\ unsaid = {}

UserSends ==
  /\ sent < MaxCommands /\ sent' = sent + 1
  /\ UNCHANGED <<taken, loop, optLock, workers, inflight, dirty, reporter, done, pushed, unsaid>>

\* poll_once hands out the oldest command.
PollOnce ==
  /\ loop.at = "poll" /\ Cardinality(taken) < sent
  /\ loop' = [at |-> "dispatch", cmd |-> Cardinality(taken) + 1]
  /\ UNCHANGED <<sent, taken, optLock, workers, inflight, dirty, reporter, done, pushed, unsaid>>

\* A handler returns or raises: either way a report follows.
DispatchPlain ==
  /\ loop.at = "dispatch"
  /\ taken' = taken \cup {loop.cmd} /\ done' = done \cup {loop.cmd}
  /\ loop' = [loop EXCEPT !.at = "report"]
  /\ UNCHANGED <<sent, optLock, workers, inflight, dirty, reporter, pushed, unsaid>>

\* manage_optimize: refused while the lock is held, else a Deferred that holds it.
DispatchOptimize ==
  /\ loop.at = "dispatch"
  /\ taken' = taken \cup {loop.cmd}
  /\ IF optLock
     THEN /\ loop' = [loop EXCEPT !.at = "report"] /\ done' = done \cup {loop.cmd}
          /\ UNCHANGED optLock
     ELSE /\ loop' = [loop EXCEPT !.at = "spawn"] /\ optLock' = TRUE
          /\ UNCHANGED done
  /\ UNCHANGED <<sent, workers, inflight, dirty, reporter, pushed, unsaid>>

SpawnWorker ==
  /\ loop.at = "spawn"
  /\ workers' = workers \cup {loop.cmd}
  /\ loop' = Resting
  /\ UNCHANGED <<sent, taken, optLock, inflight, dirty, reporter, done, pushed, unsaid>>

\* The thread cannot start: Deferred.cleanup frees the lock here.
SpawnFails ==
  /\ loop.at = "spawn"
  /\ optLock' = FALSE
  /\ unsaid' = unsaid \cup {loop.cmd}
  /\ loop' = Resting
  /\ UNCHANGED <<sent, taken, workers, inflight, dirty, reporter, done, pushed>>

\* _run_deferred: the optimizer ends, is timed out or raises; ack, cleanup, and
\* a push of its own.
WorkerEnds(c) ==
  /\ c \in workers
  /\ workers' = workers \ {c}
  /\ optLock' = FALSE
  /\ done' = done \cup {c} /\ pushed' = pushed \cup {c}
  /\ UNCHANGED <<sent, taken, loop, inflight, dirty, reporter, unsaid>>

\* Mutant: the loop waits for the report that is under way.
AskReportWaits ==
  /\ loop.at = "report" /\ ~inflight
  /\ inflight' = TRUE /\ loop' = [loop EXCEPT !.at = "thread"]
  /\ UNCHANGED <<sent, taken, optLock, workers, dirty, reporter, done, pushed, unsaid>>

\* Under report_lock: a report under way is marked dirty, else one is claimed.
AskReport ==
  /\ loop.at = "report"
  /\ IF inflight
     THEN dirty' = TRUE /\ loop' = Resting /\ UNCHANGED inflight
     ELSE inflight' = TRUE /\ loop' = [loop EXCEPT !.at = "thread"] /\ UNCHANGED dirty
  /\ UNCHANGED <<sent, taken, optLock, workers, reporter, done, pushed, unsaid>>

StartReport ==
  /\ loop.at = "thread"
  /\ reporter' = [at |-> "push", has |-> {}]
  /\ loop' = Resting
  /\ UNCHANGED <<sent, taken, optLock, workers, inflight, dirty, done, pushed, unsaid>>

StartReportFails ==
  /\ loop.at = "thread"
  /\ inflight' = FALSE /\ dirty' = FALSE
  /\ unsaid' = unsaid \cup done
  /\ loop' = Resting
  /\ UNCHANGED <<sent, taken, optLock, workers, reporter, done, pushed>>

\* on_applied reads the machine and sends what it read; one that fails is logged
\* and followed by the next.
PushReads ==
  /\ reporter.at \in {"push", "delay"}
  /\ reporter' = [at |-> IF reporter.at = "push" THEN "sent" ELSE "repush", has |-> done]
  /\ UNCHANGED <<sent, taken, loop, optLock, workers, inflight, dirty, done, pushed, unsaid>>

PushArrives ==
  /\ reporter.at \in {"sent", "repush"}
  /\ pushed' = pushed \cup reporter.has
  /\ reporter' = [at |-> IF reporter.at = "sent" THEN "delay" ELSE "check", has |-> {}]
  /\ UNCHANGED <<sent, taken, loop, optLock, workers, inflight, dirty, done, unsaid>>

\* Mutant: the dirty flag is not asked before the thread ends.
ReportEndsUnasked ==
  /\ reporter.at = "check"
  /\ inflight' = FALSE /\ dirty' = FALSE /\ reporter' = NoReport
  /\ UNCHANGED <<sent, taken, loop, optLock, workers, done, pushed, unsaid>>

\* Under report_lock: dirty means another round, else the thread ends.
ReportEnds ==
  /\ reporter.at = "check"
  /\ IF dirty
     THEN dirty' = FALSE /\ reporter' = [at |-> "push", has |-> {}] /\ UNCHANGED inflight
     ELSE inflight' = FALSE /\ reporter' = NoReport /\ UNCHANGED dirty
  /\ UNCHANGED <<sent, taken, loop, optLock, workers, done, pushed, unsaid>>

LoopStep ==
  \/ PollOnce \/ DispatchPlain \/ DispatchOptimize \/ SpawnWorker \/ SpawnFails
  \/ AskReport \/ StartReport \/ StartReportFails

LoopNext ==
  \/ UserSends \/ LoopStep
  \/ \E c \in workers : WorkerEnds(c)
  \/ PushReads \/ PushArrives \/ ReportEnds

\* Only the poll thread is promised its turns: a push may hang on the network
\* and the optimizer may run to its limit.
LoopFairness == WF_loopVars(LoopStep)

LoopSpec == LoopInit /\ [][LoopNext]_loopVars /\ LoopFairness

-----------------------------------------------------------------------------
(* Correctness.                                                              *)

\* When no report is under way the page has been sent everything: every command
\* is followed by a push that began after its effect, however pushes and
\* commands overlap.  Excepted are commands whose own thread could not start.
PageIsCurrent == ~inflight /\ loop.at # "report" => done \subseteq pushed \cup unsaid

\* A command the user sent (the halt of a panic) is dispatched, whatever reports
\* and the optimizer do.
PanicGetsThrough == \A c \in Commands : c <= sent ~> c \in taken
=============================================================================
