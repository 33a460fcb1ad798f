------------------------------ MODULE TurnStop ------------------------------
(* Stop pressed on an agent turn (runtime/turn_stop.py, run_turn of            *)
(* runtime/agent_turn.py, run of runtime/codex_engine.py, stopTurn of          *)
(* shell/main.js): the engine and its tools are killed, except what moves      *)
(* money.  Claude's tools write to files and outlive it; Codex's write into    *)
(* its pipes, so Codex is held for them, but not for ever.  A command stands   *)
(* for the session its tool runs in; one sweep of the watcher is one tick.     *)
EXTENDS Naturals, FiniteSets

CONSTANTS
  Tools,        \* commands the engine may run
  HoldMax,      \* ticks Codex is held for money commands (HOLD_MAX_S)
  CancelAfter,  \* ticks until the turn is cancelled (CANCEL_AFTER_S)
  ShellAfter,   \* silent ticks until the shell kills the runtime (STOP_KILL_MS)
  StopFaults    \* subset of AllStopFaults

(* blind:      the process table cannot be read                                 *)
(* late_spawn: the engine starts a tool while a sweep kills it                  *)
(* late_money: a command begins to move money after a sweep looked and before   *)
(*             the kill it decided on                                           *)
(* lost_names: the stream ends, and the watcher with it, before a sweep's names *)
(*             have come back from their thread                                 *)
(* wedged:     the runtime says nothing and sweeps nothing for a tick           *)
AllStopFaults == {"blind", "late_spawn", "late_money", "lost_names", "wedged"}

ASSUME StopAssumption ==
  /\ IsFiniteSet(Tools) /\ StopFaults \subseteq AllStopFaults
  /\ {HoldMax, CancelAfter, ShellAfter} \subseteq Nat \ {0}

VARIABLES
  codex,        \* the engine is Codex, not Claude
  desktop,      \* the launcher is the desktop shell, not the web bridge
  turn,         \* "spawn", "stream", "ending", "over", "killed"
  second,       \* the turn was resumed after an empty reply
  engine,       \* the engine's process is alive
  tool,         \* the processes of each command
  stopFile,      \* the launcher's flag file
  interrupted,  \* sink.interrupted
  sweeping,     \* the watcher has seen the stop
  holding, waited, quiet,  \* ticks: Codex held; towards the cancel; without a word to the shell
  left,         \* sink.stop_left_running: what the reply will name
  gaveUp,       \* sink.stop_gave_up
  cut           \* ghost: money commands killed, or whose output was cut, by the stop

timers   == <<holding, waited, quiet>>
turnVars == <<codex, desktop, turn, second>>
stopVars == <<turnVars, engine, tool, stopFile, interrupted, sweeping, timers, left, gaveUp, cut>>

(* named: money by its command line; script: once it has loaded an order lib;   *)
(* detached: in a session opened from inside a tool.                            *)
Kinds == {"plain", "named", "script", "detached"}
NoTool   == [kind |-> "plain", at |-> "off"]

StopTypeOK ==
  /\ {codex, desktop, second, engine, stopFile, interrupted, sweeping} \subseteq BOOLEAN
  /\ turn \in {"spawn", "stream", "ending", "over", "killed"}
  /\ tool \in [Tools -> [kind : Kinds, at : {"off", "runs", "marked", "done", "killed", "loose"}]]
  /\ holding \in 0..HoldMax /\ waited \in 0..CancelAfter /\ quiet \in 0..ShellAfter
  /\ left \cup gaveUp \cup cut \subseteq Tools

StopInit ==
  /\ codex \in BOOLEAN /\ desktop \in BOOLEAN /\ (codex => desktop)
  /\ turn = "spawn" /\ second = FALSE /\ engine = FALSE /\ tool = [t \in Tools |-> NoTool]
  /\ stopFile = FALSE /\ interrupted = FALSE /\ sweeping = FALSE
  /\ holding = 0 /\ waited = 0 /\ quiet = 0 /\ left = {} /\ gaveUp = {} /\ cut = {}

Runs(t)  == tool[t].at \in {"runs", "marked"}
Money(t) == tool[t].kind = "named" \/ tool[t].at = "marked"
TurnOver  == turn \in {"over", "killed"}

\* posix_targets: what is still a child of the turn's process through the engine.
InTree  == {t \in Tools : engine /\ Runs(t) /\ tool[t].kind # "detached"}
AtStake == {t \in InTree : Money(t)}

-----------------------------------------------------------------------------
(* The engine and its tools.                                                   *)

Spawned ==
  /\ turn = "spawn" /\ turn' = "stream" /\ engine' = TRUE
  /\ UNCHANGED <<codex, desktop, second, tool, stopFile, interrupted, sweeping, timers, left,
                 gaveUp, cut>>

MoneyMayBegin == gaveUp # {} /\ engine => "late_money" \in StopFaults

ToolBegins(t, kind) ==
  /\ tool[t].at = "off"
  /\ \/ engine /\ turn = "stream"
     \/ "late_spawn" \in StopFaults /\ sweeping /\ ~TurnOver
  /\ kind = "named" => MoneyMayBegin
  /\ tool' = [tool EXCEPT ![t] = [kind |-> kind, at |-> "runs"]]
  /\ UNCHANGED <<turnVars, engine, stopFile, interrupted, sweeping, timers, left, gaveUp, cut>>

\* mark_money_process, when the script imports an order lib.
Marks(t) ==
  /\ tool[t].kind = "script" /\ tool[t].at = "runs" /\ MoneyMayBegin
  /\ tool' = [tool EXCEPT ![t].at = "marked"]
  /\ UNCHANGED <<turnVars, engine, stopFile, interrupted, sweeping, timers, left, gaveUp, cut>>

Finishes(t) ==
  /\ Runs(t) /\ tool' = [tool EXCEPT ![t].at = "done"]
  /\ UNCHANGED <<turnVars, engine, stopFile, interrupted, sweeping, timers, left, gaveUp, cut>>

\* The engine ends by itself; what it leaves running belongs to no turn.  A turn of
\* Claude without a reply is resumed once, not after a stop.
EngineEnds ==
  /\ turn = "stream" /\ engine /\ engine' = FALSE
  /\ tool' = [t \in Tools |-> IF t \in InTree THEN [tool[t] EXCEPT !.at = "loose"] ELSE tool[t]]
  /\ \/ turn' = "ending" /\ UNCHANGED second
     \/ ~codex /\ ~second /\ ~interrupted /\ turn' = "spawn" /\ second' = TRUE
  /\ UNCHANGED <<codex, desktop, stopFile, interrupted, sweeping, timers, left, gaveUp, cut>>

\* The stream of a dead engine ends, or the loop over Claude's messages leaves at the
\* next block.  Codex is drained to its end.
StreamEnds ==
  /\ turn = "stream" /\ (~engine \/ (interrupted /\ ~codex))
  /\ turn' = "ending"
  /\ UNCHANGED <<codex, desktop, second, engine, tool, stopFile, interrupted, sweeping, timers,
                 left, gaveUp, cut>>
-----------------------------------------------------------------------------
(* The stop.                                                                   *)

Press ==
  /\ ~stopFile /\ ~TurnOver /\ stopFile' = TRUE
  /\ UNCHANGED <<turnVars, engine, tool, interrupted, sweeping, timers, left, gaveUp, cut>>

\* The api's answer to a chunk of the turn tells of the stop too.
Piggyback ==
  /\ ~desktop /\ stopFile /\ ~interrupted /\ turn = "stream" /\ interrupted' = TRUE
  /\ UNCHANGED <<turnVars, engine, tool, stopFile, sweeping, timers, left, gaveUp, cut>>

Notices ==
  /\ stopFile /\ ~sweeping /\ turn \in {"spawn", "stream"}
  /\ sweeping' = TRUE /\ interrupted' = TRUE
  /\ UNCHANGED <<turnVars, engine, tool, stopFile, timers, left, gaveUp, cut>>

\* Mutant: a kept command does not keep Codex.
NeverKept(hold) == FALSE

\* split_tree: a command that moves money is kept; with Codex held the whole tree is.
EngineKept(hold) == hold /\ AtStake # {}
Kept(hold) == IF EngineKept(hold) THEN InTree ELSE AtStake

\* kill_tree, and the commands its labels name.
KillTree(hold, names) ==
  \/ /\ "blind" \in StopFaults /\ names = {} /\ UNCHANGED <<tool, engine, cut>>
  \/ LET dies == InTree \ Kept(hold) IN
     /\ names = AtStake
     /\ engine' = (engine /\ EngineKept(hold))
     /\ tool' = [t \in Tools |-> IF t \in dies THEN [tool[t] EXCEPT !.at = "killed"] ELSE tool[t]]
     /\ \E torn \in SUBSET {t \in dies : tool[t].kind = "script"} :
          /\ torn # {} => "late_money" \in StopFaults
          /\ cut' = cut \cup torn \cup IF codex /\ ~engine' THEN AtStake ELSE {}

\* Mutant: the hold is never counted.
HeldForever(names) ==
  /\ waited' = 0 /\ quiet' = 0 /\ UNCHANGED <<turn, holding, gaveUp>>

\* The hold is counted, and the shell told that the turn is alive.
HeldOn(names) ==
  /\ holding' = holding + 1 /\ waited' = 0 /\ quiet' = 0
  /\ gaveUp' = IF holding' = HoldMax THEN names ELSE gaveUp
  /\ UNCHANGED turn

\* The fallback: the turn's task is cancelled, once.
NotHeld ==
  /\ IF waited = CancelAfter THEN turn' = "ending" /\ UNCHANGED waited
                             ELSE waited' = waited + 1 /\ UNCHANGED turn
  /\ quiet' = IF quiet < ShellAfter THEN quiet + 1 ELSE quiet
  /\ UNCHANGED <<holding, gaveUp>>

\* One turn of the watcher's loop.
Sweep ==
  /\ sweeping /\ turn \in {"spawn", "stream"}
  /\ \E names \in SUBSET Tools :
       LET hold == codex /\ holding < HoldMax IN
       /\ KillTree(hold, names)
       /\ \/ /\ left' = left \cup names
             /\ IF hold /\ names # {} THEN HeldOn(names) ELSE NotHeld
          \/ /\ "lost_names" \in StopFaults /\ engine /\ ~engine' /\ turn' = "ending"
             /\ UNCHANGED <<left, gaveUp, timers>>
  /\ UNCHANGED <<codex, desktop, second, stopFile, interrupted, sweeping>>

\* The end of run_turn: Codex's process is reaped with its run, then the last sweep.
WindUp ==
  /\ turn = "ending" /\ turn' = "over"
  /\ IF interrupted /\ ~codex
     THEN \E names \in SUBSET Tools : KillTree(FALSE, names) /\ left' = left \cup names
     ELSE /\ cut' = IF codex THEN cut \cup AtStake ELSE cut
          /\ engine' = (engine /\ ~codex) /\ UNCHANGED <<tool, left>>
  /\ UNCHANGED <<codex, desktop, second, stopFile, interrupted, sweeping, timers, gaveUp>>

Wedged ==
  /\ "wedged" \in StopFaults /\ stopFile /\ ~TurnOver /\ quiet < ShellAfter /\ quiet' = quiet + 1
  /\ UNCHANGED <<turnVars, engine, tool, stopFile, interrupted, sweeping, holding, waited, left,
                 gaveUp, cut>>

\* The shell's insurance against a runtime that hangs; Codex goes with its pipes.
ShellKills ==
  /\ desktop /\ stopFile /\ ~TurnOver /\ quiet = ShellAfter /\ turn' = "killed"
  /\ engine' = (engine /\ ~codex) /\ cut' = cut \cup IF codex THEN AtStake ELSE {}
  /\ UNCHANGED <<codex, desktop, second, tool, stopFile, interrupted, sweeping, timers, left,
                 gaveUp>>

StopNext ==
  \/ Spawned \/ EngineEnds \/ StreamEnds \/ Press \/ Piggyback \/ Notices \/ Sweep \/ WindUp
  \/ Wedged \/ ShellKills
  \/ \E t \in Tools : (\E kind \in Kinds : ToolBegins(t, kind)) \/ Marks(t) \/ Finishes(t)

\* The watcher polls and the turn winds up; a stream need not end, nor a command.
StopFairness == WF_stopVars(Notices) /\ WF_stopVars(Sweep) /\ WF_stopVars(WindUp)

StopSpec == StopInit /\ [][StopNext]_stopVars /\ StopFairness

-----------------------------------------------------------------------------

\* Stop cuts off no command that moves money unless the reply says it was not waited
\* for; and once a stopped turn is over, its engine is dead, nothing it ran goes on
\* except what moves money, and the reply names every such command.
StopIsExact ==
  /\ cut \subseteq gaveUp
  /\ turn = "over" /\ interrupted =>
       /\ ~engine
       /\ \A t \in Tools :
            Runs(t) /\ tool[t].kind # "detached" => Money(t) /\ t \in left \cup gaveUp

\* A stop ends the turn, whatever the engine, its stream and the money commands do.
StopEnds == stopFile ~> TurnOver
=============================================================================
