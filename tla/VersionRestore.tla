--------------------------- MODULE VersionRestore ---------------------------
(***************************************************************************)
(* Restoring a strategy version in place (runtime/command_listener.py,     *)
(* lib/strategy.py, the write tail of lib/runner.py), for one strategy:    *)
(* its file, version index, stats.json and rerun.json; backtests of the    *)
(* agent and the quiet re-run of a restore as processes; edits at any      *)
(* time; the listener's restore worker and watcher threads; its death.     *)
(***************************************************************************)
EXTENDS Naturals, FiniteSets, FiniteSetsExt

CONSTANTS
  Codes,         \* what the strategy file may hold
  MaxRuns,       \* bound on backtests, re-runs included
  MaxEdits,      \* bound on edits
  MaxTicks,      \* bound on live ticks
  MaxListenerDeaths,
  VersionsKeep,  \* VERSIONS_KEEP
  RestoreFaults  \* live_tick: the file may change under a live tick

ASSUME RestoreAssumption ==
  /\ Codes \subseteq Nat \ {0} /\ IsFiniteSet(Codes) /\ Codes # {}
  /\ {MaxRuns, MaxEdits, MaxTicks, MaxListenerDeaths} \subseteq Nat /\ VersionsKeep \in Nat \ {0}
  /\ RestoreFaults \subseteq {"live_tick"}

VARIABLES
  file,      \* the code in the strategy file
  index,     \* versions/index.json: counter, current and the versions with their code
  stats,     \* the code stats.json was computed from, 0 without the file
  rerun,     \* versions/rerun.json
  runs,      \* backtest processes, in the order they started
  tick,      \* the code a live tick has imported, 0 when none runs
  restorer,  \* the worker thread that holds _RESTORE_LOCK
  rerunWatchers, \* watcher threads: the run, and whether it is their own child
  alive,     \* the listener process lives
  edits, ticks, falls, \* what has been used of the bounds
  edited     \* ghost: the file was edited after it was last restored or run

restoreVars == <<file, index, stats, rerun, runs, tick, restorer, rerunWatchers, alive,
                 edits, ticks, falls, edited>>
bounds == <<edits, ticks, falls>>

NoRerun  == [n |-> 0, run |-> 0, status |-> "none"]
NoRun    == [at |-> "none", code |-> 0, expect |-> 0, wrote |-> FALSE]
AtEase   == [at |-> "idle", n |-> 0, run |-> 0]
RunIds   == 1 .. MaxRuns
Live(r)  == r \in RunIds /\ runs[r].at \notin {"none", "ended"}
Started  == {r \in RunIds : runs[r].at # "none"}
CodeOf(n) == {i.code : i \in {j \in index.items : j.n = n}}

RestoreTypeOK ==
  /\ file \in Codes
  /\ index.items \subseteq [n : Nat, code : Codes] /\ index.current \in Nat /\ index.counter \in Nat
  /\ stats \in Codes \cup {0} /\ tick \in Codes \cup {0}
  /\ rerun \in [n : Nat, run : 0 .. MaxRuns, status : {"none", "running", "failed"}]
  /\ runs \in [RunIds -> [at : {"none", "import", "lock", "compute", "tail", "ended"},
                          code : Codes \cup {0}, expect : Codes \cup {0}, wrote : BOOLEAN]]
  /\ restorer \in [at : {"idle", "kill", "start", "record"}, n : Nat, run : 0 .. MaxRuns]
  /\ rerunWatchers \subseteq [run : RunIds, own : BOOLEAN, gone : BOOLEAN]
  /\ {alive, edited} \subseteq BOOLEAN
  /\ edits \in 0 .. MaxEdits /\ ticks \in 0 .. MaxTicks /\ falls \in 0 .. MaxListenerDeaths

\* A strategy with one version, backtested.
RestoreInit ==
  /\ file \in Codes
  /\ index = [counter |-> 1, current |-> 1, items |-> {[n |-> 1, code |-> file]}]
  /\ stats = file /\ rerun = NoRerun
  /\ runs = [r \in RunIds |-> NoRun] /\ tick = 0
  /\ restorer = AtEase /\ rerunWatchers = {} /\ alive = TRUE
  /\ edits = 0 /\ ticks = 0 /\ falls = 0 /\ edited = FALSE

-----------------------------------------------------------------------------
(* The agent edits and backtests; the scheduler ticks an amount-0 strategy.  *)

EditFile(c) ==
  /\ edits < MaxEdits /\ edits' = edits + 1
  /\ tick = 0 \/ "live_tick" \in RestoreFaults
  /\ c # file /\ file' = c /\ edited' = TRUE
  /\ UNCHANGED <<index, stats, rerun, runs, tick, restorer, rerunWatchers, alive, ticks, falls>>

\* A process starts; r numbers it.
Begins(r, expect) ==
  /\ r \in RunIds /\ r = Cardinality(Started) + 1
  /\ runs' = [runs EXCEPT ![r] = [NoRun EXCEPT !.at = "import", !.expect = expect]]

AgentBacktests(r) ==
  /\ restorer.at \in {"kill", "start"} => r < MaxRuns   \* leave the re-run its place
  /\ Begins(r, 0)
  /\ UNCHANGED <<file, index, stats, rerun, tick, restorer, rerunWatchers, alive, bounds, edited>>

\* A live tick imports the file, and later writes stats.json without asking.
TickStarts ==
  /\ tick = 0 /\ ticks < MaxTicks /\ ticks' = ticks + 1
  /\ tick' = file
  /\ UNCHANGED <<file, index, stats, rerun, runs, restorer, rerunWatchers, alive, edits, falls, edited>>

TickWrites ==
  /\ tick # 0 /\ tick' = 0
  /\ stats' = tick
  /\ UNCHANGED <<file, index, rerun, runs, restorer, rerunWatchers, alive, bounds, edited>>

-----------------------------------------------------------------------------
(* A backtest (runner.run).                                                  *)

\* src0: the file as the process found it.
ReadSource(r) ==
  /\ runs[r].at = "import"
  /\ runs' = [runs EXCEPT ![r].at = "lock", ![r].code = file]
  /\ UNCHANGED <<file, index, stats, rerun, tick, restorer, rerunWatchers, alive, bounds, edited>>

\* One backtest of a strategy at a time: the agent's is refused, a quiet one waits a while.
TakeBacktestLock(r) ==
  /\ runs[r].at = "lock"
  /\ runs' = [runs EXCEPT ![r].at =
       IF \E q \in RunIds \ {r} : runs[q].at \in {"compute", "tail"} THEN "ended" ELSE "compute"]
  /\ UNCHANGED <<file, index, stats, rerun, tick, restorer, rerunWatchers, alive, bounds, edited>>

\* _superseded: the file is no longer what this run executes or was started for.
Superseded(r) ==
  \/ runs[r].expect \notin {0, runs[r].code}
  \/ file # runs[r].code

\* Data refused, an error, or the first look at the file: the run ends with nothing written.
Fails(r) ==
  /\ runs[r].at \in {"import", "lock", "compute"}
  /\ runs' = [runs EXCEPT ![r].at = "ended"]
  /\ UNCHANGED <<file, index, stats, rerun, tick, restorer, rerunWatchers, alive, bounds, edited>>

LooksBeforeLock(r) ==
  /\ runs[r].at = "compute"
  /\ runs' = [runs EXCEPT ![r].at = IF Superseded(r) THEN "ended" ELSE "tail"]
  /\ UNCHANGED <<file, index, stats, rerun, tick, restorer, rerunWatchers, alive, bounds, edited>>

\* _same_code_version: the current version first, else the newest with this code.
SameCode(code) ==
  LET hits == {i.n : i \in {j \in index.items : j.code = code}} IN
  IF index.current \in hits THEN {index.current}
  ELSE IF hits # {} THEN {Max(hits)} ELSE {}

\* _mint_version: a known code mints nothing, a new one gets the next number and
\* the oldest versions go.
Minted(code) ==
  IF SameCode(code) # {}
  THEN [index EXCEPT !.current = CHOOSE n \in SameCode(code) : TRUE]
  ELSE LET n == index.counter + 1
           all == index.items \cup {[n |-> n, code |-> code]} IN
       [counter |-> n, current |-> n,
        items |-> {i \in all : Cardinality({j \in all : j.n > i.n}) < VersionsKeep}]

WriteResults(r) ==
  /\ stats' = runs[r].code
  /\ index' = Minted(runs[r].code)
  /\ rerun' = NoRerun
  /\ edited' = (edited /\ file # runs[r].code)
  /\ runs' = [runs EXCEPT ![r].at = "ended", ![r].wrote = TRUE]

\* Mutant: the look before the lock was enough.
TailUnasked(r) ==
  /\ runs[r].at = "tail" /\ ~(restorer.at = "record" /\ restorer.run = r)
  /\ WriteResults(r)
  /\ UNCHANGED <<file, tick, restorer, rerunWatchers, alive, bounds>>

\* Under the versions lock: ask again, then stats.json, version and rerun.json.
\* A process takes longer to get here than its parent from Popen to the record.
Tail(r) ==
  /\ runs[r].at = "tail" /\ ~(restorer.at = "record" /\ restorer.run = r)
  /\ IF Superseded(r)
     THEN /\ runs' = [runs EXCEPT ![r].at = "ended"]
          /\ UNCHANGED <<stats, index, rerun, edited>>
     ELSE WriteResults(r)
  /\ UNCHANGED <<file, tick, restorer, rerunWatchers, alive, bounds>>

-----------------------------------------------------------------------------
(* version_restore, on a worker thread.                                      *)

\* strategy.restore in its subprocess, under the versions lock; the strategy is not live.
RestoreCode(n) ==
  /\ alive /\ restorer.at = "idle"
  /\ Cardinality(Started) < MaxRuns
  /\ tick = 0 \/ "live_tick" \in RestoreFaults
  /\ \E c \in CodeOf(n) : file' = c
  /\ index' = [index EXCEPT !.current = n]
  /\ stats' = 0 /\ edited' = FALSE
  /\ restorer' = [at |-> "kill", n |-> n, run |-> 0]
  /\ UNCHANGED <<rerun, runs, tick, rerunWatchers, alive, bounds>>

\* _kill_rerun: the re-run under way, if there is one.
KillRerun ==
  /\ restorer.at = "kill"
  /\ runs' = [r \in RunIds |->
       IF r = rerun.run /\ rerun.status = "running" /\ Live(r)
       THEN [runs[r] EXCEPT !.at = "ended"] ELSE runs[r]]
  /\ restorer' = [restorer EXCEPT !.at = "start"]
  /\ UNCHANGED <<file, index, stats, rerun, tick, rerunWatchers, alive, bounds, edited>>

\* Popen of the re-run, pinned to the hash of v<n>; a pruned version pins nothing.
StartRerun(r) ==
  /\ restorer.at = "start"
  /\ Begins(r, IF CodeOf(restorer.n) = {} THEN 0 ELSE CHOOSE c \in CodeOf(restorer.n) : TRUE)
  /\ restorer' = [restorer EXCEPT !.at = "record", !.run = r]
  /\ UNCHANGED <<file, index, stats, rerun, tick, rerunWatchers, alive, bounds, edited>>

RecordRerun ==
  /\ restorer.at = "record"
  /\ rerun' = [n |-> restorer.n, run |-> restorer.run, status |-> "running"]
  /\ rerunWatchers' = rerunWatchers \cup {[run |-> restorer.run, own |-> TRUE, gone |-> FALSE]}
  /\ restorer' = AtEase
  /\ UNCHANGED <<file, index, stats, runs, tick, alive, bounds, edited>>

\* No record, no run: nothing could ever report or stop it.
RecordRerunFails ==
  /\ restorer.at = "record"
  /\ runs' = [runs EXCEPT ![restorer.run].at = "ended"]
  /\ restorer' = AtEase
  /\ UNCHANGED <<file, index, stats, rerun, tick, rerunWatchers, alive, bounds, edited>>

-----------------------------------------------------------------------------
(* Watchers.                                                                 *)

\* The own child outlives its budget: killed, and settled as TIMEOUT.
RerunTimesOut(w) ==
  /\ w.own /\ ~w.gone /\ Live(w.run)
  /\ runs' = [runs EXCEPT ![w.run].at = "ended"]
  /\ rerunWatchers' = (rerunWatchers \ {w}) \cup {[w EXCEPT !.gone = TRUE]}
  /\ UNCHANGED <<file, index, stats, rerun, tick, restorer, alive, bounds, edited>>

SeesEnd(w) ==
  /\ ~w.gone /\ ~Live(w.run)
  /\ rerunWatchers' = (rerunWatchers \ {w}) \cup {[w EXCEPT !.gone = TRUE]}
  /\ UNCHANGED <<file, index, stats, rerun, runs, tick, restorer, alive, bounds, edited>>

\* Mutant: an overtaken re-run leaves its record.
SettledUnlessMoot(r) ==
  IF rerun.run # r \/ rerun.status # "running" \/ CodeOf(rerun.n) # {file} THEN rerun
  ELSE [rerun EXCEPT !.status = "failed"]

\* The record after _settle_rerun: only its own; moot when the file is not v<n> any more.
Settled(r) ==
  IF rerun.run # r \/ rerun.status # "running" THEN rerun
  ELSE IF CodeOf(rerun.n) # {file} THEN NoRerun
  ELSE [rerun EXCEPT !.status = "failed"]

SettleRerun(w) ==
  /\ w.gone /\ restorer.at = "idle"
  /\ rerun' = Settled(w.run)
  /\ rerunWatchers' = rerunWatchers \ {w}
  /\ UNCHANGED <<file, index, stats, runs, tick, restorer, alive, bounds, edited>>

ListenerFalls ==
  /\ alive /\ falls < MaxListenerDeaths /\ falls' = falls + 1
  /\ alive' = FALSE /\ restorer' = AtEase /\ rerunWatchers' = {}
  /\ UNCHANGED <<file, index, stats, rerun, runs, tick, edits, ticks, edited>>

\* _resume_restore_watch: adopt a live re-run, settle a dead one.
ListenerBack ==
  /\ ~alive /\ alive' = TRUE
  /\ IF rerun.status = "running" /\ Live(rerun.run)
     THEN /\ rerunWatchers' = {[run |-> rerun.run, own |-> FALSE, gone |-> FALSE]}
          /\ UNCHANGED rerun
     ELSE rerun' = Settled(rerun.run) /\ UNCHANGED rerunWatchers
  /\ UNCHANGED <<file, index, stats, runs, tick, restorer, bounds, edited>>

RunStep(r) ==
  ReadSource(r) \/ TakeBacktestLock(r) \/ Fails(r) \/ LooksBeforeLock(r) \/ Tail(r)

RestoreStep ==
  KillRerun \/ (\E r \in RunIds : StartRerun(r)) \/ RecordRerun \/ RecordRerunFails

WatcherStep(w) == RerunTimesOut(w) \/ SeesEnd(w) \/ SettleRerun(w)

RestoreNext ==
  \/ \E c \in Codes : EditFile(c)
  \/ \E r \in RunIds : AgentBacktests(r) \/ RunStep(r)
  \/ TickStarts \/ TickWrites
  \/ \E i \in index.items : RestoreCode(i.n)
  \/ RestoreStep
  \/ \E w \in rerunWatchers : WatcherStep(w)
  \/ ListenerFalls \/ ListenerBack

\* The listener's threads get their turns and the service brings it back.  A
\* re-run may hang as long as its own watcher lives to time it out; one that was
\* adopted has no budget and is assumed to end.
Adopted(r) == \E w \in rerunWatchers : w.run = r /\ ~w.own
RestoreFairness ==
  /\ WF_restoreVars(RestoreStep)
  /\ WF_restoreVars(\E w \in rerunWatchers : WatcherStep(w))
  /\ WF_restoreVars(ListenerBack)
  /\ WF_restoreVars(\E r \in RunIds : Adopted(r) /\ RunStep(r))

RestoreSpec == RestoreInit /\ [][RestoreNext]_restoreVars /\ RestoreFairness

-----------------------------------------------------------------------------
(* Correctness.                                                              *)

\* No version's code stands beside another version's numbers: until the file is
\* edited again, stats.json is absent or was computed from the code in the file,
\* and the current version is that code, whichever runs were overtaken by
\* restores and edits on the way.
NumbersMatchCode ==
  ~edited => stats = 0 \/ (stats = file /\ CodeOf(index.current) = {file})

\* A re-run does not show as running for ever.
RerunEnds == rerun.status = "running" ~> rerun.status # "running"
=============================================================================
