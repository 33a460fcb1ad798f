---------------------------- MODULE ListenerProofs ----------------------------
(* Proofs about the command listener: the poll loop and its reports            *)
(* (CommandLoop), the background backtest (BacktestJob) and the restoring of a *)
(* strategy version (VersionRestore).                                          *)
EXTENDS CommandLoop, BacktestJob, VersionRestore, FiniteSetTheorems, WellFoundedInduction, TLAPS

Unsent == done \ (pushed \cup unsaid)
(* A report is under way exactly while its thread runs or is about to; what it *)
(* has not read any more is marked dirty or about to be asked for.             *)
LoopShape ==
  /\ sent \in 0 .. MaxCommands /\ taken \subseteq Commands
  /\ loop \in [at : {"poll", "dispatch", "spawn", "report", "thread"}, cmd : 0 .. MaxCommands]
  /\ loop.at # "poll" => loop.cmd \in Commands
  /\ reporter \in [at : {"none", "push", "sent", "delay", "repush", "check"}, has : SUBSET Commands]
  /\ done \subseteq Commands /\ workers \subseteq Commands
PageInv ==
  /\ LoopShape
  /\ loop.at = "thread" => inflight
  /\ reporter.at # "none" => inflight /\ loop.at # "thread"
  /\ inflight /\ loop.at # "thread" => reporter.at # "none"
  /\ ~inflight /\ loop.at # "report" => Unsent = {}
  /\ reporter.at \in {"repush", "check"} => dirty \/ loop.at = "report" \/ Unsent \subseteq reporter.has
  /\ reporter.at = "check" => reporter.has = {}

LEMMA PageInit == LoopInit => PageInv
  BY CommandLoopAssumption DEF LoopInit, PageInv, LoopShape, Resting, NoReport, Unsent, Commands, CommandLoopAssumption

LEMMA PageStep == PageInv /\ [LoopNext]_loopVars => PageInv'
<1> SUFFICES ASSUME PageInv, [LoopNext]_loopVars PROVE PageInv'
  OBVIOUS
<1> USE CommandLoopAssumption DEF PageInv, LoopShape, CommandLoopAssumption, Unsent, Commands
<1>1. CASE UserSends
  BY <1>1 DEF UserSends
<1>2. CASE PollOnce
  <2>1. IsFiniteSet(taken)
    BY FS_Interval, FS_Subset, 1 \in Int, MaxCommands \in Int
  <2>2. Cardinality(taken) \in Nat
    BY <2>1, FS_CardinalityType
  <2>3. Cardinality(taken) + 1 \in Commands
    BY <1>2, <2>2 DEF PollOnce
  <2> QED
    BY <1>2, <2>3 DEF PollOnce
<1>3. CASE DispatchPlain
  BY <1>3 DEF DispatchPlain
<1>4. CASE DispatchOptimize
  BY <1>4 DEF DispatchOptimize
<1>5. CASE SpawnWorker
  <2>1. workers' \subseteq Commands /\ loop'.at = "poll" /\ loop.at = "spawn"
    BY <1>5 DEF SpawnWorker, Resting
  <2>2. LoopShape'
    BY <1>5, <2>1 DEF SpawnWorker, Resting
  <2> QED
    BY <1>5, <2>1, <2>2 DEF SpawnWorker
<1>14. CASE SpawnFails
  BY <1>14 DEF SpawnFails, Resting
<1>6. CASE AskReport
  BY <1>6 DEF AskReport, Resting
<1>7. CASE StartReport
  BY <1>7 DEF StartReport, Resting
<1>8. CASE StartReportFails
  BY <1>8 DEF StartReportFails, Resting
<1>9. ASSUME NEW c \in workers, WorkerEnds(c) PROVE PageInv'
  BY <1>9 DEF WorkerEnds
<1>10. CASE PushReads
  BY <1>10 DEF PushReads
<1>11. CASE PushArrives
  BY <1>11 DEF PushArrives
<1>12. CASE ReportEnds
  <2>1. CASE dirty
    BY <1>12, <2>1 DEF ReportEnds
  <2>2. CASE ~dirty
    <3>1. reporter'.at = "none" /\ ~inflight' /\ UNCHANGED <<loop, done, pushed, unsaid>>
      BY <1>12, <2>2 DEF ReportEnds, NoReport
    <3>2. LoopShape'
      BY <1>12, <2>2 DEF ReportEnds, NoReport
    <3> QED
      BY <1>12, <2>2, <3>1, <3>2 DEF ReportEnds
  <2> QED
    BY <2>1, <2>2
<1>13. CASE UNCHANGED loopVars
  BY <1>13 DEF loopVars
<1> QED
  BY <1>1, <1>2, <1>3, <1>4, <1>5, <1>6, <1>7, <1>8, <1>9, <1>10, <1>11, <1>12, <1>13,
     <1>14      DEF LoopNext, LoopStep

\* However commands, pushes, optimizer workers and threads that cannot start overlap: when
\* no report is under way the page has been sent every effect (command_listener.py run).
THEOREM NothingUnreported == LoopSpec => []PageIsCurrent
<1>1. PageInv => PageIsCurrent
  BY DEF PageInv, PageIsCurrent, Unsent
<1> QED
  BY <1>1, PageInit, PageStep, PTL DEF LoopSpec

-----------------------------------------------------------------------------
Processes == [kind : {"none", "backtest", "dying", "other"}, run : Nat]
Records   == [pid : Pids \cup {0}, run : Nat, status : {"none", "running", "done", "error", "cancelled"}]
Hands     == [at : {"idle", "spawn", "record", "kill"}, pid : Pids \cup {0}, run : Nat, rc : ExitCodes]
Watchers  == [pid : Pids, run : Nat, own : BOOLEAN, at : {"wait", "settle", "finish"},
              rc : ExitCodes, verdict : Verdicts]
JobShape ==
  /\ proc \in [Pids -> Processes] /\ job \in Records /\ hand \in Hands
  /\ handle \in [pid : Pids \cup {0}, run : Nat] /\ watchers \subseteq Watchers
  /\ launched \in Nat

(* A backtest nobody lost is shown by the record, or is the one the poll thread *)
(* is about to record or to kill; it is the last that was started.             *)
ShownOrInHand ==
  /\ \A p \in Pids : proc[p].kind = "backtest" /\ proc[p].run \notin astray =>
       \/ job.status = "running" /\ job.pid = p /\ job.run = proc[p].run
       \/ hand.at \in {"record", "kill"} /\ hand.pid = p /\ hand.run = proc[p].run
  /\ hand.at \in {"record", "kill"} => hand.run = launched /\ hand.pid \in Pids
  /\ hand.at = "kill" => job.pid = hand.pid /\ job.run = hand.run
  /\ hand.at \in {"spawn", "record"} => job.status # "running"
  /\ job.status = "running" => job.run = launched
  /\ \A p \in Pids : IsBacktest(p) => proc[p].run <= launched

(* What the listener knows of processes: the handle is the recorded run's, a    *)
(* watcher is of the recorded run or of one with another pid, and past its wait  *)
(* there is no backtest under that pid.                                        *)
Known ==
  /\ handle.pid # 0 => handle.pid = job.pid /\ handle.run = job.run
  /\ ~listening => hand.at = "idle" /\ handle.pid = 0 /\ watchers = {}
  /\ hand.at = "record" =>
       /\ \A w \in watchers : w.pid # hand.pid
       /\ \A q \in Pids : IsBacktest(q) /\ proc[q].run = hand.run => q = hand.pid
       /\ hand.rc # "unknown" => ~IsBacktest(hand.pid)
  /\ \A w \in watchers :
       /\ w.pid = job.pid => w.run = job.run
       /\ ~w.own => handle.pid # w.pid
       /\ w.at # "wait" => ~IsBacktest(w.pid)

(* A fresh result is the last run's own, and a verdict of done rests on one.    *)
ResultIsOwn ==
  astray = {} =>
    /\ fresh => launched \in wrote
    /\ job.status = "done" => job.run \in wrote
    /\ \A w \in watchers : w.at = "finish" /\ w.verdict = "done" /\ job.pid = w.pid /\ job.status = "running"
         => w.run \in wrote

JobInv == JobShape /\ ShownOrInHand /\ Known /\ ResultIsOwn

\* What the record becomes when a dead run is settled, in the terms the invariant keeps.
LEMMA ReapedIs ==
  ASSUME JobInv
  PROVE  /\ Reaped(job) \in Records
         /\ Reaped(job).pid = job.pid /\ Reaped(job).run = job.run
         /\ Reaped(job).status = "running" => Reaped(job) = job /\ Alive(job.pid)
         /\ Reaped(job) # job => job.status = "running" /\ ~Alive(job.pid) /\ Reaped(job).status \in {"done", "error"}
         /\ Reaped(job).status = "done" => job.status = "done" \/ (job.status = "running" /\ fresh)
  BY DEF JobInv, JobShape, Records, Reaped, Finish, Verdict

\* The recorded run, when it lives, is seen to live.
LEMMA ShownIsAlive ==
  ASSUME JobInv, NEW p \in Pids, proc[p].kind = "backtest", p = job.pid, proc[p].run = job.run
  PROVE  Alive(p)
  BY BacktestAssumption DEF JobInv, JobShape, Processes, Records, Known, Alive, IsBacktest, BacktestAssumption

\* A run that is told to die: nothing else of the processes changes.
LEMMA DyingIs ==
  ASSUME JobShape, NEW q \in Pids, proc' = [proc EXCEPT ![q].kind = "dying"]
  PROVE  /\ proc' \in [Pids -> Processes]
         /\ \A p \in Pids : proc'[p].run = proc[p].run
         /\ \A p \in Pids : proc'[p].kind = IF p = q THEN "dying" ELSE proc[p].kind
  BY DEF JobShape, Processes

\* A watcher whose fields change to some of its kind is a watcher.
LEMMA WatcherIs ==
  ASSUME NEW w \in Watchers, NEW a \in {"wait", "settle", "finish"}, NEW rc \in ExitCodes, NEW v \in Verdicts
  PROVE  /\ [w EXCEPT !.at = a] \in Watchers /\ [w EXCEPT !.at = a, !.rc = rc] \in Watchers
         /\ [w EXCEPT !.at = a, !.verdict = v] \in Watchers
  BY DEF Watchers

LEMMA JobStep == JobInv /\ [JobNext]_jobVars => JobInv'
<1> SUFFICES ASSUME JobInv, [JobNext]_jobVars PROVE JobInv'
  OBVIOUS
<1> USE BacktestAssumption DEF JobInv, JobShape, Processes, Records, Hands, Watchers, ShownOrInHand, Known, ResultIsOwn, BacktestAssumption
<1>1. CASE StartBacktest
  BY <1>1, ReapedIs, ShownIsAlive DEF StartBacktest, NothingInHand, ExitCodes, IsBacktest
<1>2. ASSUME NEW p \in Pids, SpawnBacktest(p) PROVE JobInv'
  <2>a. JobShape'
    <3>1. launched' \in Nat
      BY <1>2 DEF SpawnBacktest
    <3>3. hand' \in Hands
      BY <1>2, <3>1 DEF SpawnBacktest, NothingInHand, ExitCodes
    <3>2. proc' \in [Pids -> Processes]
      BY <1>2, <3>1 DEF SpawnBacktest
    <3> QED
      BY <1>2, <3>1, <3>2, <3>3 DEF SpawnBacktest
  <2>b. ShownOrInHand'
    BY <1>2 DEF SpawnBacktest, NothingInHand, ExitCodes, IsBacktest, Nothing
  <2>c. Known'
    BY <1>2 DEF SpawnBacktest, NothingInHand, ExitCodes, IsBacktest, Nothing
  <2>d. ResultIsOwn'
    BY <1>2 DEF SpawnBacktest, NothingInHand, ExitCodes, IsBacktest, Nothing
  <2> QED
    BY <2>a, <2>b, <2>c, <2>d
<1>3. CASE RecordBacktest
  <2>a. JobShape'
    <3> DEFINE n == [pid |-> hand.pid, run |-> hand.run, own |-> TRUE,
                     at |-> IF hand.rc = "unknown" THEN "wait" ELSE "settle",
                     rc |-> hand.rc, verdict |-> "error"]
    <3>1. n \in Watchers
      BY <1>3 DEF RecordBacktest, ExitCodes, Verdicts
    <3>2. watchers' = watchers \cup {n}
      BY <1>3 DEF RecordBacktest
    <3> HIDE DEF n
    <3> QED
      BY <1>3, <3>1, <3>2 DEF RecordBacktest, NothingInHand, ExitCodes
  <2>b. ShownOrInHand'
    BY <1>3 DEF RecordBacktest, NothingInHand, ExitCodes, IsBacktest, Verdicts
  <2>c. Known'
    BY <1>3 DEF RecordBacktest, NothingInHand, ExitCodes, IsBacktest, Verdicts
  <2>d. ResultIsOwn'
    BY <1>3 DEF RecordBacktest, NothingInHand, ExitCodes, IsBacktest, Verdicts
  <2> QED
    BY <2>a, <2>b, <2>c, <2>d
<1>4. CASE RecordFails
  BY <1>4 DEF RecordFails, NothingInHand, ExitCodes, IsBacktest
<1>5. CASE CancelBacktest
  <2>a. JobShape'
    BY <1>5, ReapedIs, ShownIsAlive DEF CancelBacktest, NothingInHand, ExitCodes, IsBacktest, Finish
  <2>b. ShownOrInHand'
    <3>1. CASE Reaped(job).status = "running"
      <4>1. /\ job' = [job EXCEPT !.status = "cancelled"] /\ UNCHANGED <<proc, astray, launched>>
            /\ hand' = [at |-> "kill", pid |-> job.pid, run |-> job.run, rc |-> "unknown"]
            /\ job.pid \in Pids /\ job.status = "running" /\ hand.at = "idle"
        BY <1>5, <3>1, ReapedIs DEF CancelBacktest, NothingInHand, Finish, Alive, IsBacktest
      <4> QED
        BY <4>1 DEF IsBacktest
    <3>2. CASE Reaped(job).status # "running"
      <4>1. /\ job' = Reaped(job) /\ UNCHANGED <<proc, astray, launched, hand>>
            /\ hand.at = "idle" /\ job.status = "running" /\ ~Alive(job.pid)
        BY <1>5, <3>2, ReapedIs DEF CancelBacktest, Finish
      <4> QED
        BY <3>2, <4>1, ReapedIs, ShownIsAlive DEF IsBacktest
    <3> QED
      BY <3>1, <3>2
  <2>c. Known'
    BY <1>5, ReapedIs, ShownIsAlive DEF CancelBacktest, NothingInHand, ExitCodes, IsBacktest, Finish
  <2>d. ResultIsOwn'
    BY <1>5, ReapedIs, ShownIsAlive DEF CancelBacktest, NothingInHand, ExitCodes, IsBacktest, Finish
  <2> QED
    BY <2>a, <2>b, <2>c, <2>d
<1>6. CASE KillBacktest
  <2>a. JobShape'
    BY <1>6, ShownIsAlive DEF KillBacktest, NothingInHand, ExitCodes, IsBacktest
  <2>k. /\ hand.at = "kill" /\ hand'.at = "idle"
        /\ UNCHANGED <<job, listening, handle, watchers, launched, astray>>
    BY <1>6 DEF KillBacktest, NothingInHand
  <2>e. ASSUME Alive(hand.pid) PROVE ShownOrInHand' /\ Known'
    <3>1. proc' = [proc EXCEPT ![hand.pid].kind = "dying"] /\ hand.pid \in Pids
      BY <1>6, <2>e DEF KillBacktest
    <3>2. /\ \A p \in Pids : proc'[p].run = proc[p].run
          /\ \A p \in Pids : proc'[p].kind = IF p = hand.pid THEN "dying" ELSE proc[p].kind
      BY <3>1, DyingIs
    <3>3. \A p \in Pids : IsBacktest(p)' => IsBacktest(p)
      BY <3>2, <2>e DEF IsBacktest, Alive
    <3>4. ShownOrInHand'
      BY <2>k, <3>2, <3>3
    <3>5. Known'
      BY <2>k, <3>3
    <3> QED
      BY <3>4, <3>5
  <2>f. ASSUME ~Alive(hand.pid) PROVE ShownOrInHand' /\ Known'
    <3>1. proc' = proc /\ \A p \in Pids : IsBacktest(p)' <=> IsBacktest(p)
      BY <1>6, <2>f DEF KillBacktest, IsBacktest
    <3>2. ShownOrInHand'
      BY <2>k, <2>f, <3>1, ShownIsAlive
    <3>3. Known'
      BY <2>k, <3>1
    <3> QED
      BY <3>2, <3>3
  <2>b. ShownOrInHand' /\ Known'
    BY <2>e, <2>f
  <2>d. ResultIsOwn'
    BY <1>6, ShownIsAlive DEF KillBacktest, NothingInHand, ExitCodes, IsBacktest
  <2> QED
    BY <2>a, <2>b, <2>d
<1>7. CASE KillFails
  <2>a. JobShape'
    BY <1>7 DEF KillFails, NothingInHand, ExitCodes, IsBacktest
  <2>b. ShownOrInHand'
    BY <1>7 DEF KillFails, NothingInHand, ExitCodes, IsBacktest
  <2>c. Known'
    BY <1>7 DEF KillFails, NothingInHand, ExitCodes, IsBacktest
  <2>d. ResultIsOwn'
    BY <1>7 DEF KillFails, NothingInHand, ExitCodes, IsBacktest, Alive
  <2> QED
    BY <2>a, <2>b, <2>c, <2>d
<1>8. ASSUME NEW w \in watchers, AdoptedEnded(w) PROVE JobInv'
  BY <1>8 DEF AdoptedEnded, Becomes, Alive, IsBacktest, ExitCodes, Verdicts
<1>9. ASSUME NEW w \in watchers, Settle(w) PROVE JobInv'
  <2>u. /\ UNCHANGED <<proc, job, fresh, listening, hand, handle, launched, wrote, astray>>
        /\ w \in Watchers /\ w.at = "settle" /\ Verdict(job, w.rc) \in Verdicts
    BY <1>9 DEF Settle, Verdict, Verdicts
  <2>1. CASE job.pid # w.pid
    BY <1>9, <2>1, <2>u DEF Settle, IsBacktest
  <2>2. CASE job.pid = w.pid
    <3> DEFINE n == [w EXCEPT !.at = "finish", !.verdict = Verdict(job, w.rc)]
    <3>1. watchers' = (watchers \ {w}) \cup {n}
      BY <1>9, <2>2 DEF Settle, Becomes
    <3>2. n \in Watchers
      BY <2>u, WatcherIs
    <3>3. n.pid = w.pid /\ n.run = w.run /\ n.own = w.own /\ n.at = "finish" /\ n.verdict = Verdict(job, w.rc)
      BY <2>u DEF Watchers
    <3> HIDE DEF n
    <3>4. JobShape' /\ ShownOrInHand'
      BY <2>u, <3>1, <3>2 DEF IsBacktest
    <3>5. Known'
      BY <2>u, <3>1, <3>3 DEF IsBacktest
    <3>6. ASSUME astray = {}, n.verdict = "done", job.status = "running" PROVE n.run \in wrote
      BY <2>2, <2>u, <3>3, <3>6 DEF Verdict
    <3>7. ResultIsOwn'
      BY <2>u, <3>1, <3>6
    <3> QED
      BY <3>4, <3>5, <3>7
  <2> QED
    BY <2>1, <2>2
<1>10. ASSUME NEW w \in watchers, FinishWatch(w) PROVE JobInv'
  BY <1>10 DEF FinishWatch, Finish, IsBacktest, ExitCodes, Verdicts
<1>11. ASSUME NEW p \in Pids, NEW rc \in {"zero", "nonzero"}, NEW computed \in BOOLEAN,
              BacktestEnds(p, rc, computed)
       PROVE  JobInv'
  <2>u. /\ UNCHANGED <<job, listening, handle, launched, astray>> /\ IsBacktest(p)
        /\ proc' = [proc EXCEPT ![p] = Nothing] /\ (computed => proc[p].kind = "backtest")
        /\ fresh' => fresh \/ computed
        /\ computed => proc[p].run \in wrote'
        /\ wrote \subseteq wrote'
        /\ hand' = IF hand.at = "record" /\ hand.run = proc[p].run THEN [hand EXCEPT !.rc = rc] ELSE hand
    BY <1>11 DEF BacktestEnds, IsBacktest
  <2>p. /\ proc' \in [Pids -> Processes]
        /\ ~IsBacktest(p)' /\ proc'[p].kind = "none"
        /\ \A q \in Pids \ {p} : proc'[q] = proc[q] /\ (IsBacktest(q)' <=> IsBacktest(q))
    BY <2>u DEF Nothing, IsBacktest
  <2>h. hand' \in Hands /\ hand'.at = hand.at /\ hand'.pid = hand.pid /\ hand'.run = hand.run
    BY <2>u DEF ExitCodes
  <2>r. hand'.rc # hand.rc => hand.at = "record" /\ hand.run = proc[p].run
    BY <2>u
  <2>w. ASSUME NEW v \in watchers'
        PROVE  /\ v \in Watchers
               /\ \E w \in watchers : /\ v.pid = w.pid /\ v.run = w.run /\ v.own = w.own /\ v.verdict = w.verdict
                                      /\ v.at # w.at => v.at = "settle" /\ w.pid = p
    <3>1. PICK w \in watchers : v = ChildEnded(w, p, rc)
      BY <1>11, <2>w DEF BacktestEnds
    <3>2. CASE v = w
      BY <3>2
    <3>3. CASE v # w
      <4>1. v = [w EXCEPT !.at = "settle", !.rc = rc] /\ w.pid = p /\ w \in Watchers
        BY <3>1, <3>3 DEF ChildEnded
      <4>2. v \in Watchers /\ v.at = "settle"
        BY <4>1 DEF ExitCodes
      <4> QED
        BY <4>1, <4>2
    <3> QED
      BY <3>2, <3>3
  <2>1. JobShape'
    BY <2>u, <2>p, <2>h, <2>w
  <2>2. ShownOrInHand'
    BY <2>u, <2>p, <2>h
  <2>3. Known'
    <3>1. hand'.at = "record" /\ hand'.rc # "unknown" => ~IsBacktest(hand.pid)'
      <4>1. CASE hand'.rc # hand.rc
        BY <2>u, <2>p, <2>h, <2>r, <4>1
      <4>2. CASE hand'.rc = hand.rc
        BY <2>p, <2>h, <4>2
      <4> QED
        BY <4>1, <4>2
    <3>2. hand'.at = "record" => \A v \in watchers' : v.pid # hand'.pid
      BY <2>h, <2>w
    <3>3. hand'.at = "record" => \A q \in Pids : IsBacktest(q)' /\ proc'[q].run = hand'.run => q = hand'.pid
      BY <2>h, <2>p
    <3>4. \A v \in watchers' : (v.pid = job'.pid => v.run = job'.run) /\ (~v.own => handle'.pid # v.pid)
      BY <2>u, <2>w
    <3>5. ASSUME NEW v \in watchers', v.at # "wait" PROVE ~IsBacktest(v.pid)'
      BY <2>p, <2>w, <3>5
    <3>6. ~listening' => hand'.at = "idle" /\ handle'.pid = 0 /\ watchers' = {}
      BY <2>u, <2>h, <2>w
    <3>7. handle'.pid # 0 => handle'.pid = job'.pid /\ handle'.run = job'.run
      BY <2>u
    <3> QED
      BY <3>1, <3>2, <3>3, <3>4, <3>5, <3>6, <3>7
  <2>4. ASSUME astray = {} PROVE fresh' => launched' \in wrote'
    BY <2>4, <2>u DEF IsBacktest
  <2>5. ResultIsOwn'
    <3>1. ASSUME astray = {}, NEW v \in watchers', v.at = "finish", v.verdict = "done", job.pid = v.pid,
                 job.status = "running"
          PROVE  v.run \in wrote'
      BY <2>u, <2>w, <3>1
    <3> QED
      BY <2>4, <2>u, <3>1
  <2> QED
    BY <2>1, <2>2, <2>3, <2>5
<1>12. ASSUME NEW p \in Pids, OtherStarts(p) \/ OtherEnds(p) PROVE JobInv'
  BY <1>12 DEF OtherStarts, OtherEnds, IsBacktest, Nothing, Other
<1>13. CASE ListenerDies
  BY <1>13 DEF ListenerDies, Forget, NothingInHand, ExitCodes, IsBacktest, Nothing
<1>14. CASE Reboot
  BY <1>14 DEF Reboot, Forget, NothingInHand, ExitCodes, IsBacktest, Nothing, Other
<1>15. CASE ListenerReturns
  <2>a. JobShape'
    <3>1. job' \in Records /\ UNCHANGED <<proc, hand, handle, launched>>
      BY <1>15, ReapedIs DEF ListenerReturns
    <3>2. ASSUME NEW v \in watchers' PROVE v \in Watchers
      <4>1. job.pid \in Pids
        BY <1>15, <3>2 DEF ListenerReturns, Alive, IsBacktest
      <4>2. v = [pid |-> job.pid, run |-> job.run, own |-> FALSE, at |-> "wait", rc |-> "unknown",
                 verdict |-> "error"]
        BY <1>15, <3>2 DEF ListenerReturns
      <4> QED
        BY <4>1, <4>2 DEF ExitCodes, Verdicts
    <3> QED
      BY <3>1, <3>2
  <2>b. ShownOrInHand'
    BY <1>15, ReapedIs, ShownIsAlive DEF ListenerReturns, Alive, IsBacktest, ExitCodes, Verdicts
  <2>c. Known'
    BY <1>15, ReapedIs, ShownIsAlive DEF ListenerReturns, Alive, IsBacktest, ExitCodes, Verdicts
  <2>d. ResultIsOwn'
    BY <1>15, ReapedIs, ShownIsAlive DEF ListenerReturns, Alive, IsBacktest, ExitCodes, Verdicts
  <2> QED
    BY <2>a, <2>b, <2>c, <2>d
<1>16. CASE UNCHANGED jobVars
  BY <1>16 DEF jobVars, IsBacktest
<1> QED
  BY <1>1, <1>2, <1>3, <1>4, <1>5, <1>6, <1>7, <1>8, <1>9, <1>10, <1>11, <1>12, <1>13, <1>14, <1>15,
     <1>16 DEF JobNext, PollStep, WatchStep

\* For any pids, deaths of the listener, reboots, cancels that fail and pids handed out
\* again: a live backtest is the one mgmt_job.json shows, and a record that says done
\* shows the result of its own run (command_listener.py manage_backtest, manage_cancel).
THEOREM RecordStaysTrue == JobSpec => []RecordIsTrue
<1>1. JobInit => JobInv
  BY BacktestAssumption DEF JobInit, JobInv, JobShape, Processes, Records, Hands, Watchers, ShownOrInHand, Known, ResultIsOwn, NoJob, NothingInHand,
     ExitCodes, Nothing, IsBacktest, BacktestAssumption
<1>2. JobInv => RecordIsTrue
  BY DEF JobInv, JobShape, Processes, Records, ShownOrInHand, ResultIsOwn, RecordIsTrue, RecordedRunShows
<1> QED
  BY <1>1, <1>2, JobStep, PTL DEF JobSpec

-----------------------------------------------------------------------------
IndexShape ==
  /\ index \in [counter : Nat, current : Nat, items : SUBSET [n : Nat, code : Codes]]
  /\ \A i \in index.items : i.n <= index.counter
  /\ \A i, j \in index.items : i.n = j.n => i.code = j.code
(* A version number names one code; while the file is as it was last restored or *)
(* run, the current version is that code, and no tick runs another.             *)
NumbersInv ==
  /\ IndexShape
  /\ file \in Codes
  /\ tick # 0 => tick = file
  /\ ~edited => CodeOf(index.current) = {file} /\ (stats = 0 \/ stats = file)

\* Some natural numbers have a least one.
LEMMA LeastIsThere ==
  ASSUME NEW T \in SUBSET Nat, T # {}
  PROVE  \E m \in T : \A k \in T : m <= k
<1>1. PICK m \in T : \A k \in T : ~ (<<k, m>> \in OpToRel(<, Nat))
  BY NatLessThanWellFounded, WFMin
<1>2. \A k \in T : ~ (k < m)
  BY <1>1 DEF OpToRel
<1> QED
  BY <1>2

\* The newest of some version numbers is one of them.
LEMMA NewestIsThere ==
  ASSUME NEW c \in Nat, NEW S \in SUBSET (0 .. c), S # {}
  PROVE  Max(S) \in S
<1> DEFINE T == {c - n : n \in S}
<1>1. T \in SUBSET Nat /\ T # {}
  <2>1. \A n \in S : c - n \in Nat
    OBVIOUS
  <2> QED
    BY <2>1
<1>2. PICK m \in T : \A k \in T : m <= k
  BY <1>1, LeastIsThere
<1>3. PICK x \in S : m = c - x
  BY <1>2
<1>4. \A y \in S : x >= y
  BY <1>2, <1>3
<1>5. Max(S) = CHOOSE x0 \in S : \A y \in S : x0 >= y
  BY DEF Max
<1> QED
  BY <1>4, <1>5

\* Minting keeps the index in shape and makes the code that ran the current version.
LEMMA MintedIs ==
  ASSUME IndexShape, NEW code \in Codes, index' = Minted(code)
  PROVE  IndexShape' /\ CodeOf(index.current)' = {code}
<1> USE RestoreAssumption DEF IndexShape, RestoreAssumption
<1>1. CASE SameCode(code) # {}
  <2> DEFINE hits == {i.n : i \in {j \in index.items : j.code = code}}
  <2>1. PICK k : k \in SameCode(code) /\ index' = [index EXCEPT !.current = k]
    BY <1>1 DEF Minted
  <2>2. hits \subseteq 0 .. index.counter
    OBVIOUS
  <2>3. hits # {} => Max(hits) \in hits
    BY <2>2, NewestIsThere
  <2>4. SameCode(code) \in {{index.current}, {Max(hits)}, {}} /\ SameCode(code) \subseteq hits
    <3> HIDE DEF hits
    <3> QED
      BY <2>3 DEF SameCode, hits
  <2>5. PICK i \in index.items : i.code = code /\ i.n = k
    BY <2>1, <2>4
  <2>6. index'.items = index.items /\ index'.counter = index.counter /\ index'.current = k
    BY <2>1
  <2>7. IndexShape'
    BY <2>1, <2>5
  <2> QED
    BY <2>5, <2>6, <2>7 DEF CodeOf
<1>2. CASE SameCode(code) = {}
  <2> DEFINE n == index.counter + 1
             new == [n |-> n, code |-> code]
             all == index.items \cup {new}
             kept == {i \in all : Cardinality({j \in all : j.n > i.n}) < VersionsKeep}
  <2>1. index' = [counter |-> n, current |-> n, items |-> kept]
    BY <1>2 DEF Minted
  <2>2. {j \in all : j.n > new.n} = {}
    OBVIOUS
  <2>3. Cardinality({j \in all : j.n > new.n}) = 0
    BY <2>2, FS_EmptySet
  <2>4. new \in kept
    <3>1. new \in all /\ 0 < VersionsKeep
      OBVIOUS
    <3> HIDE DEF all, new
    <3> QED
      BY <2>3, <3>1
  <2>5. all \subseteq [n : Nat, code : Codes] /\ kept \subseteq all /\ n \in Nat
    OBVIOUS
  <2>6. \A i, j \in all : i.n <= n /\ (i.n = j.n => i.code = j.code)
    OBVIOUS
  <2>7. \A i \in all : i.n = n => i.code = code
    OBVIOUS
  <2>8. new.n = n /\ new.code = code
    OBVIOUS
  <2> HIDE DEF kept, all, new, n
  <2> QED
    BY <2>1, <2>4, <2>5, <2>6, <2>7, <2>8 DEF CodeOf
<1> QED
  BY <1>1, <1>2

LEMMA NumbersStep ==
  ASSUME "live_tick" \notin RestoreFaults, NumbersInv, [RestoreNext]_restoreVars
  PROVE  NumbersInv'
<1> USE RestoreAssumption DEF NumbersInv, RestoreAssumption
<1>0. ASSUME UNCHANGED <<file, index, stats, tick, edited>> PROVE NumbersInv'
  BY <1>0 DEF IndexShape, CodeOf
<1>1. ASSUME NEW c \in Codes, EditFile(c) PROVE NumbersInv'
  BY <1>1 DEF EditFile, IndexShape
<1>2. ASSUME NEW r \in RunIds, AgentBacktests(r) PROVE NumbersInv'
  BY <1>0, <1>2 DEF AgentBacktests
<1>3. ASSUME NEW r \in RunIds, ReadSource(r) \/ TakeBacktestLock(r) \/ Fails(r) \/ LooksBeforeLock(r)
      PROVE  NumbersInv'
  BY <1>0, <1>3 DEF ReadSource, TakeBacktestLock, Fails, LooksBeforeLock
<1>4. ASSUME NEW r \in RunIds, Tail(r) PROVE NumbersInv'
  <2>1. CASE Superseded(r)
    BY <1>0, <1>4, <2>1 DEF Tail
  <2>2. CASE ~Superseded(r)
    <3>1. /\ file = runs[r].code /\ UNCHANGED <<file, tick>> /\ stats' = file
          /\ index' = Minted(file) /\ edited' = (edited /\ file # runs[r].code)
      BY <1>4, <2>2 DEF Tail, WriteResults, Superseded
    <3>2. IndexShape' /\ CodeOf(index.current)' = {file}
      BY <3>1, MintedIs
    <3> QED
      BY <3>1, <3>2
  <2> QED
    BY <2>1, <2>2
<1>5. CASE TickStarts \/ TickWrites
  BY <1>5 DEF TickStarts, TickWrites, IndexShape, CodeOf
<1>6. ASSUME NEW i \in index.items, RestoreCode(i.n) PROVE NumbersInv'
  <2>1. PICK c \in CodeOf(i.n) : file' = c
    BY <1>6 DEF RestoreCode
  <2>2. tick = 0 /\ tick' = tick /\ index' = [index EXCEPT !.current = i.n] /\ stats' = 0
    BY <1>6 DEF RestoreCode
  <2>3. PICK j \in index.items : j.n = i.n /\ j.code = c
    BY <2>1 DEF CodeOf
  <2>4. IndexShape' /\ index'.items = index.items /\ index'.current = i.n
    BY <2>2 DEF IndexShape
  <2>5. CodeOf(index.current)' = {c}
    BY <2>3, <2>4 DEF CodeOf, IndexShape
  <2>6. c \in Codes
    BY <2>3 DEF IndexShape
  <2> QED
    BY <2>1, <2>2, <2>4, <2>5, <2>6
<1>7. CASE RestoreStep
  BY <1>0, <1>7 DEF RestoreStep, KillRerun, StartRerun, RecordRerun, RecordRerunFails
<1>8. ASSUME NEW w \in rerunWatchers, WatcherStep(w) PROVE NumbersInv'
  BY <1>0, <1>8 DEF WatcherStep, RerunTimesOut, SeesEnd, SettleRerun
<1>9. CASE ListenerFalls \/ ListenerBack
  BY <1>0, <1>9 DEF ListenerFalls, ListenerBack
<1>10. CASE UNCHANGED restoreVars
  BY <1>0, <1>10 DEF restoreVars
<1> QED
  BY <1>1, <1>2, <1>3, <1>4, <1>5, <1>6, <1>7, <1>8, <1>9, <1>10 DEF RestoreNext, RunStep

\* For any codes, edits, restores, runs overtaken at any point and pruned versions: until the
\* file is edited again no version's code stands beside another version's numbers, when the
\* file does not change under a live tick (strategy.restore, runner._superseded).
THEOREM NumbersStayWithCode ==
  ASSUME "live_tick" \notin RestoreFaults
  PROVE  RestoreSpec => []NumbersMatchCode
<1>1. RestoreInit => NumbersInv
  <2> SUFFICES ASSUME RestoreInit PROVE NumbersInv
    OBVIOUS
  <2> DEFINE v1 == [n |-> 1, code |-> file]
  <2>1. index = [counter |-> 1, current |-> 1, items |-> {v1}] /\ file \in Codes /\ stats = file /\ tick = 0
    BY DEF RestoreInit
  <2>2. v1 \in [n : Nat, code : Codes] /\ v1.n = 1 /\ v1.code = file
    BY <2>1
  <2> HIDE DEF v1
  <2>3. IndexShape
    BY <2>1, <2>2 DEF IndexShape
  <2>4. CodeOf(index.current) = {file}
    BY <2>1, <2>2 DEF CodeOf
  <2> QED
    BY <2>1, <2>3, <2>4 DEF NumbersInv
<1>2. NumbersInv /\ [RestoreNext]_restoreVars => NumbersInv'
  BY NumbersStep
<1>3. NumbersInv => NumbersMatchCode
  BY DEF NumbersInv, NumbersMatchCode
<1> QED
  BY <1>1, <1>2, <1>3, PTL DEF RestoreSpec
=============================================================================
