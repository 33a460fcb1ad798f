---------------------------- MODULE BacktestJob ----------------------------
(***************************************************************************)
(* The one background portfolio backtest (runtime/command_listener.py,     *)
(* manage_backtest and manage_cancel): a detached process, its record in   *)
(* mgmt_job.json, the watcher threads that settle the record, and the      *)
(* listener that may die and come back while the process goes on.          *)
(***************************************************************************)
EXTENDS Naturals, FiniteSets

CONSTANTS
  Pids,        \* process ids; the machine reuses them
  MaxBacktests, \* bound on backtests started
  MaxDeaths    \* bound on listener deaths and machine reboots together

ASSUME BacktestAssumption ==
  /\ IsFiniteSet(Pids) /\ 0 \notin Pids
  /\ {MaxBacktests, MaxDeaths} \subseteq Nat

VARIABLES
  proc,      \* what runs under each pid: a backtest (which), or another program
  job,       \* mgmt_job.json
  fresh,     \* stats.json was computed after the last backtest was started
  listening, \* the listener process lives
  hand,      \* where the poll thread is in a command
  handle,    \* _MGMT_PROC: the child this process started, 0 for none
  watchers,  \* watcher threads
  launched,  \* backtests started so far, which also numbers them
  deaths,    \* listener deaths and reboots so far
  wrote,     \* ghost: backtests that wrote their result
  astray     \* ghost: runs the listener died over before it recorded or killed them

jobVars == <<proc, job, fresh, listening, hand, handle, watchers, launched, deaths, wrote, astray>>

Nothing  == [kind |-> "none", run |-> 0]
Other    == [kind |-> "other", run |-> 0]
NoJob    == [pid |-> 0, run |-> 0, status |-> "none"]
NothingInHand == [at |-> "idle", pid |-> 0, run |-> 0, rc |-> "unknown"]
ExitCodes == {"zero", "nonzero", "unknown"}  \* unknown: not ended, or nobody waited
Verdicts == {"done", "error"}

JobTypeOK ==
  /\ proc \in [Pids -> [kind : {"none", "backtest", "dying", "other"}, run : 0 .. MaxBacktests]]
  /\ job \in [pid : Pids \cup {0}, run : 0 .. MaxBacktests,
              status : {"none", "running", "done", "error", "cancelled"}]
  /\ fresh \in BOOLEAN
  /\ listening \in BOOLEAN
  /\ hand \in [at : {"idle", "spawn", "record", "kill"}, pid : Pids \cup {0}, run : 0 .. MaxBacktests,
               rc : ExitCodes]
  /\ handle \in [pid : Pids \cup {0}, run : 0 .. MaxBacktests]
  /\ watchers \subseteq [pid : Pids, run : 0 .. MaxBacktests, own : BOOLEAN,
                         at : {"wait", "settle", "finish"},
                         rc : ExitCodes, verdict : Verdicts]
  /\ launched \in 0 .. MaxBacktests /\ deaths \in 0 .. MaxDeaths
  /\ wrote \cup astray \subseteq 1 .. MaxBacktests

JobInit ==
  /\ proc = [p \in Pids |-> Nothing]
  /\ job = NoJob /\ fresh = FALSE
  /\ listening = TRUE /\ hand = NothingInHand /\ handle = [pid |-> 0, run |-> 0]
  /\ watchers = {} /\ launched = 0 /\ deaths = 0 /\ wrote = {} /\ astray = {}

-----------------------------------------------------------------------------
(* What the listener believes.                                               *)

IsBacktest(p) == p \in Pids /\ proc[p].kind \in {"backtest", "dying"}

\* The own child is asked through its handle, any other pid by its command line.
Alive(p) ==
  IF handle.pid = p /\ p # 0
  THEN IsBacktest(p) /\ proc[p].run = handle.run
  ELSE IsBacktest(p)

\* _mgmt_result_fresh compares computed_at with the start of the job.
Verdict(j, rc) == IF rc \in {"zero", "unknown"} /\ fresh THEN "done" ELSE "error"

\* The record after _finish_mgmt_job: only the run it belongs to, only while running.
Finish(j, p, status) ==
  IF j.pid = p /\ j.status = "running" THEN [j EXCEPT !.status = status] ELSE j

\* The record after _reap_stale_mgmt_job.
Reaped(j) ==
  IF j.status = "running" /\ ~Alive(j.pid)
  THEN Finish(j, j.pid, Verdict(j, "unknown"))
  ELSE j

-----------------------------------------------------------------------------
(* manage_backtest, on the poll thread.                                      *)

\* Mutant: the running job is not looked at.
StartUnchecked ==
  /\ hand.at = "idle" /\ listening
  /\ launched < MaxBacktests
  /\ job' = Reaped(job)
  /\ hand' = [NothingInHand EXCEPT !.at = "spawn"]
  /\ UNCHANGED <<proc, fresh, listening, handle, watchers, launched, deaths, wrote, astray>>

StartBacktest ==
  /\ hand.at = "idle" /\ listening
  /\ launched < MaxBacktests
  /\ job' = Reaped(job)
  /\ hand' = IF job'.status = "running" /\ Alive(job'.pid)
             THEN hand ELSE [NothingInHand EXCEPT !.at = "spawn"]
  /\ UNCHANGED <<proc, fresh, listening, handle, watchers, launched, deaths, wrote, astray>>

\* Popen gets a free pid; the kernel goes round all pids before it hands one
\* out again, so none that a watcher still has to settle.
SpawnBacktest(p) ==
  /\ hand.at = "spawn"
  /\ proc[p] = Nothing /\ \A w \in watchers : w.pid # p
  /\ launched' = launched + 1 /\ fresh' = FALSE
  /\ proc' = [proc EXCEPT ![p] = [kind |-> "backtest", run |-> launched']]
  /\ hand' = [NothingInHand EXCEPT !.at = "record", !.pid = p, !.run = launched']
  /\ UNCHANGED <<job, listening, handle, watchers, deaths, wrote, astray>>

RecordBacktest ==
  /\ hand.at = "record"
  /\ job' = [pid |-> hand.pid, run |-> hand.run, status |-> "running"]
  /\ handle' = [pid |-> hand.pid, run |-> hand.run]
  /\ watchers' = watchers \cup
       {[pid |-> hand.pid, run |-> hand.run, own |-> TRUE,
         at |-> IF hand.rc = "unknown" THEN "wait" ELSE "settle",
         rc |-> hand.rc, verdict |-> "error"]}
  /\ hand' = NothingInHand
  /\ UNCHANGED <<proc, fresh, listening, launched, deaths, wrote, astray>>

\* The record cannot be written: a run nobody could report or cancel is killed.
RecordFails ==
  /\ hand.at = "record"
  /\ proc' = IF proc[hand.pid] = [kind |-> "backtest", run |-> hand.run]
             THEN [proc EXCEPT ![hand.pid].kind = "dying"] ELSE proc
  /\ hand' = NothingInHand
  /\ UNCHANGED <<job, fresh, listening, handle, watchers, launched, deaths, wrote, astray>>

-----------------------------------------------------------------------------
(* manage_cancel, on the poll thread.                                        *)

CancelBacktest ==
  /\ hand.at = "idle" /\ listening
  /\ LET j == Reaped(job) IN
     /\ job' = Finish(j, j.pid, "cancelled")
     /\ hand' = IF j.status = "running" THEN [NothingInHand EXCEPT !.at = "kill", !.pid = j.pid, !.run = j.run]
                ELSE hand
  /\ job' # job
  /\ UNCHANGED <<proc, fresh, listening, handle, watchers, launched, deaths, wrote, astray>>

KillBacktest ==
  /\ hand.at = "kill"
  /\ proc' = IF Alive(hand.pid) THEN [proc EXCEPT ![hand.pid].kind = "dying"] ELSE proc
  /\ hand' = NothingInHand
  /\ UNCHANGED <<job, fresh, listening, handle, watchers, launched, deaths, wrote, astray>>

\* killpg or taskkill fails and the run is still there: the record is opened again.
KillFails ==
  /\ hand.at = "kill" /\ Alive(hand.pid)
  /\ job' = IF job.pid = hand.pid THEN [job EXCEPT !.status = "running"] ELSE job
  /\ hand' = NothingInHand
  /\ UNCHANGED <<proc, fresh, listening, handle, watchers, launched, deaths, wrote, astray>>

-----------------------------------------------------------------------------
(* Watcher threads.                                                          *)

Becomes(w, v) == watchers' = (watchers \ {w}) \cup {v}

\* proc.wait returns in the thread that holds the handle.
ChildEnded(w, p, rc) ==
  IF w.own /\ w.at = "wait" /\ w.pid = p /\ w.run = proc[p].run
  THEN [w EXCEPT !.at = "settle", !.rc = rc] ELSE w

\* The adopted run is polled by pid and command line.
AdoptedEnded(w) ==
  /\ ~w.own /\ w.at = "wait" /\ ~Alive(w.pid)
  /\ Becomes(w, [w EXCEPT !.at = "settle"])
  /\ UNCHANGED <<proc, job, fresh, listening, hand, handle, launched, deaths, wrote, astray>>

\* _settle_mgmt_job reads the record and the result, then writes under the lock.
Settle(w) ==
  /\ w.at = "settle"
  /\ IF job.pid = w.pid
     THEN Becomes(w, [w EXCEPT !.at = "finish", !.verdict = Verdict(job, w.rc)])
     ELSE watchers' = watchers \ {w}
  /\ UNCHANGED <<proc, job, fresh, listening, hand, handle, launched, deaths, wrote, astray>>

FinishWatch(w) ==
  /\ w.at = "finish"
  /\ job' = Finish(job, w.pid, w.verdict)
  /\ watchers' = watchers \ {w}
  /\ UNCHANGED <<proc, fresh, listening, hand, handle, launched, deaths, wrote, astray>>

-----------------------------------------------------------------------------
(* Processes, and the death and return of the listener.                      *)

\* A backtest ends: with a result or without, by itself or by a signal.
BacktestEnds(p, rc, computed) ==
  /\ IsBacktest(p)
  /\ computed => rc = "zero"
  /\ proc[p].kind = "dying" => rc = "nonzero"
  /\ proc' = [proc EXCEPT ![p] = Nothing]
  /\ fresh' = (fresh \/ computed)
  /\ wrote' = IF computed THEN wrote \cup {proc[p].run} ELSE wrote
  /\ watchers' = {ChildEnded(w, p, rc) : w \in watchers}
  /\ hand' = IF hand.at = "record" /\ hand.run = proc[p].run
             THEN [hand EXCEPT !.rc = rc] ELSE hand
  /\ UNCHANGED <<job, listening, handle, launched, deaths, astray>>

\* Another program gets a free pid.
OtherStarts(p) ==
  /\ proc[p] = Nothing
  /\ proc' = [proc EXCEPT ![p] = Other]
  /\ UNCHANGED <<job, fresh, listening, hand, handle, watchers, launched, deaths, wrote, astray>>

OtherEnds(p) ==
  /\ proc[p] = Other
  /\ proc' = [proc EXCEPT ![p] = Nothing]
  /\ UNCHANGED <<job, fresh, listening, hand, handle, watchers, launched, deaths, wrote, astray>>

Forget ==
  /\ listening' = FALSE /\ hand' = NothingInHand
  /\ handle' = [pid |-> 0, run |-> 0] /\ watchers' = {}
  /\ deaths' = deaths + 1
  /\ astray' = IF hand.at \in {"record", "kill"} THEN astray \cup {hand.run} ELSE astray

\* The listener dies; its detached child goes on (or dies with the service tree).
ListenerDies ==
  /\ listening /\ deaths < MaxDeaths
  /\ Forget
  /\ proc' \in {proc, [p \in Pids |-> IF IsBacktest(p) THEN Nothing ELSE proc[p]]}
  /\ UNCHANGED <<job, fresh, launched, wrote>>

\* After a reboot every pid belongs to whatever got it next.
Reboot ==
  /\ deaths < MaxDeaths
  /\ Forget
  /\ \E took \in SUBSET Pids : proc' = [p \in Pids |-> IF p \in took THEN Other ELSE Nothing]
  /\ UNCHANGED <<job, fresh, launched, wrote>>

\* Mutant: the record of the previous process is not looked at.
ReturnUnwatched ==
  /\ ~listening /\ listening' = TRUE
  /\ UNCHANGED <<proc, job, fresh, hand, handle, watchers, launched, deaths, wrote, astray>>

\* _resume_mgmt_watch: adopt the run that outlived the last process, settle the dead one.
ListenerReturns ==
  /\ ~listening /\ listening' = TRUE
  /\ job' = Reaped(job)
  /\ watchers' = IF job.status = "running" /\ Alive(job.pid)
                 THEN {[pid |-> job.pid, run |-> job.run, own |-> FALSE, at |-> "wait",
                        rc |-> "unknown", verdict |-> "error"]}
                 ELSE {}
  /\ UNCHANGED <<proc, fresh, hand, handle, launched, deaths, wrote, astray>>

PollStep ==
  \/ StartBacktest \/ RecordBacktest \/ RecordFails
  \/ \E p \in Pids : SpawnBacktest(p)
  \/ CancelBacktest \/ KillBacktest \/ KillFails

WatchStep(w) == AdoptedEnded(w) \/ Settle(w) \/ FinishWatch(w)

JobNext ==
  \/ PollStep
  \/ \E w \in watchers : WatchStep(w)
  \/ \E p \in Pids, rc \in {"zero", "nonzero"}, computed \in BOOLEAN : BacktestEnds(p, rc, computed)
  \/ \E p \in Pids : OtherStarts(p) \/ OtherEnds(p)
  \/ ListenerDies \/ Reboot \/ ListenerReturns

\* The poll thread and the watcher threads get their turns and the service
\* brings the listener back.  Neither commands nor the end of a backtest are promised.
JobFairness ==
  /\ WF_jobVars(RecordBacktest \/ RecordFails)
  /\ WF_jobVars(KillBacktest \/ KillFails)
  /\ WF_jobVars(\E w \in watchers : WatchStep(w))
  /\ WF_jobVars(ListenerReturns)

JobSpec == JobInit /\ [][JobNext]_jobVars /\ JobFairness

-----------------------------------------------------------------------------
(* Correctness.                                                              *)

\* While the poll thread is between commands, a live backtest is the one
\* mgmt_job.json shows as running: none is hidden behind a cancelled or settled
\* record, and none runs beside a newer one.  Excepted is a run whose listener
\* died between Popen and record, or between a cancel's record and its kill.
RecordedRunShows ==
  hand.at = "idle" =>
    \A p \in Pids :
      proc[p].kind = "backtest" /\ proc[p].run \notin astray =>
        job = [pid |-> p, run |-> proc[p].run, status |-> "running"]

\* mgmt_job.json tells what became of the job: the live run shows, and a record that
\* says done shows the result of its own run, as long as no run the listener lost is
\* there to write over it.
RecordIsTrue ==
  /\ RecordedRunShows
  /\ job.status = "done" /\ astray = {} => job.run \in wrote

\* A record left at running by a run that is gone is settled.
JobSettles == (job.status = "running" /\ ~IsBacktest(job.pid)) ~> (job.status # "running" \/ IsBacktest(job.pid))
=============================================================================
