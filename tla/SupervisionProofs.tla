-------------------------- MODULE SupervisionProofs --------------------------
(* Proofs about what supervises the reconciler: an update of the workspace     *)
(* (WorkspaceUpdate) and the start of the machine (MachineStart).              *)
EXTENDS WorkspaceUpdate, MachineStart, FiniteSetTheorems, TLAPS

(* The run of the script, in the types its steps keep.                         *)
Phases == {"none", "copy", "inflight", "marker", "busy", "clear", "restart", "record"}
Ends3  == {"no", "ok", "failed", "busy", "refused", "not_running_anymore"}
FileSet == ToSet(Files)
ScriptRuns == [phase : Phases, was : BOOLEAN, needs : BOOLEAN, todo : Seq(FileSet),
               refused : SUBSET FileSet, kept : BOOLEAN, restarted : Ends3]
UpdateShape ==
  /\ update \in ScriptRuns
  /\ loop \in {"poll", "cleared", "round"}
  /\ alive \in BOOLEAN

LEMMA FilesAre ==
  /\ FileSet = {"lib", "manager", "references"}
  /\ Files[1] = "lib" /\ Files[2] = "manager" /\ Files[3] = "references"
  BY DEF FileSet, ToSet, Files

(* What the order of the copy leaves of a set of files.                        *)
LEMMA InOrderIs ==
  ASSUME NEW s, s \subseteq FileSet
  PROVE  /\ InOrder(s) \in Seq(FileSet)
         /\ \A i \in DOMAIN InOrder(s) : InOrder(s)[i] \in s
<1> DEFINE Only(i) == IF Files[i] \in s THEN <<Files[i]>> ELSE <<>>
<1>1. \A i \in 1..3 : Only(i) \in Seq(s)
  BY FilesAre
<1> HIDE DEF Only
<1>2. Only(1) \o Only(2) \o Only(3) \in Seq(s)
  BY <1>1
<1>3. InOrder(s) \in Seq(s)
  BY <1>2 DEF InOrder, Only
<1>4. \A q \in Seq(s) : q \in Seq(FileSet) /\ \A i \in DOMAIN q : q[i] \in s
  OBVIOUS
<1> QED
  BY <1>3, <1>4

LEMMA CopyStep ==
  ASSUME NEW u \in ScriptRuns, NEW q \in Seq(FileSet), NEW p \in SUBSET FileSet
  PROVE  [u EXCEPT !.todo = q] \in ScriptRuns /\ [u EXCEPT !.todo = q, !.refused = p] \in ScriptRuns
  BY DEF ScriptRuns

LEMMA ShapeInit == UpdateInit => UpdateShape
  BY DEF UpdateInit, UpdateShape, NoUpdate, ScriptRuns, Phases, Ends3

LEMMA ShapeStep == UpdateShape /\ [UpdateNext]_updateVars => UpdateShape'
<1> SUFFICES ASSUME UpdateShape, [UpdateNext]_updateVars PROVE UpdateShape'
  OBVIOUS
<1> USE DEF UpdateShape
<1>0. NoUpdate \in ScriptRuns
  BY DEF NoUpdate, ScriptRuns, Phases, Ends3
<1>1. CASE Starts \/ Ends
  BY <1>1 DEF Starts, Ends, Started
<1>2. CASE HoldSeen \/ RoundMarked
  BY <1>2 DEF HoldSeen, RoundMarked
<1>3. CASE Dispatches \/ ExecutionEnds \/ RoundOver
  BY <1>3 DEF Dispatches, ExecutionEnds, RoundOver
<1>4. CASE MarkerAges \/ HoldAges \/ Released \/ Stops
  BY <1>4 DEF MarkerAges, HoldAges, Released, Stops, daemon
<1>5. ASSUME NEW f \in ToSet(Files), Edited(f) PROVE UpdateShape'
  BY <1>5 DEF Edited, daemon
<1>6. ASSUME NEW allow \in SUBSET ToSet(Files), Begins(allow) PROVE UpdateShape'
  <2>1. OldOfficial \subseteq FileSet /\ allow \subseteq FileSet
    BY DEF OldOfficial, FileSet
  <2>2. InOrder(OldOfficial) \o InOrder(allow) \in Seq(FileSet)
    BY <2>1, InOrderIs
  <2>3. NeedsRestart(allow) \in BOOLEAN /\ (ChangedHere # allow) \in BOOLEAN
    BY DEF NeedsRestart
  <2>4. update' = [NoUpdate EXCEPT !.phase = "copy", !.was = alive, !.needs = NeedsRestart(allow),
                     !.todo = InOrder(OldOfficial) \o InOrder(allow), !.kept = ChangedHere # allow]
    BY <1>6 DEF Begins
  <2>5. update' \in ScriptRuns
    BY <1>0, <2>2, <2>3, <2>4 DEF ScriptRuns, Phases
  <2> QED
    BY <1>6, <2>5 DEF Begins, daemon
<1>7. CASE Copies
  <2>1. Head(update.todo) \in FileSet /\ Tail(update.todo) \in Seq(FileSet)
    BY <1>7 DEF Copies, ScriptRuns
  <2> DEFINE t == Tail(update.todo)
             r == update.refused \cup {Head(update.todo)}
  <2>2. update' = [update EXCEPT !.todo = t] \/ update' = [update EXCEPT !.todo = t, !.refused = r]
    BY <1>7 DEF Copies
  <2>4. r \in SUBSET FileSet /\ t \in Seq(FileSet)
    BY <2>1 DEF ScriptRuns
  <2>3. update' \in ScriptRuns
    <3> HIDE DEF t, r
    <3> QED
      BY <2>2, <2>4, CopyStep
  <2> QED
    BY <1>7, <2>3 DEF Copies
<1>8. CASE Copied
  BY <1>8 DEF Copied, daemon, ScriptRuns, Phases, Ends3
<1>9. CASE LooksAtInflight \/ LooksAtMarker \/ Waits
  BY <1>9 DEF LooksAtInflight, LooksAtMarker, Waits, AfterInflight, daemon, ScriptRuns, Phases
<1>10. CASE Decides
  <2>1. Verdict \in Ends3 \cup {"restart"}
    BY DEF Verdict, Ends3
  <2>2. PICK v \in {Verdict, "failed"} :
          update' = IF v = "restart" THEN [update EXCEPT !.phase = "restart"]
                    ELSE [update EXCEPT !.phase = "record", !.restarted = v]
    BY <1>10 DEF Decides
  <2> QED
    BY <1>10, <2>1, <2>2 DEF Decides, daemon, ScriptRuns, Phases, Ends3
<1>11. CASE Restarts
  BY <1>11 DEF Restarts, Started, daemon, ScriptRuns, Phases, Ends3
<1>12. CASE Records \/ ScriptKilled \/ ScriptRaised
  BY <1>12, <1>0 DEF Records, ScriptKilled, ScriptRaised, Abandoned, daemon
<1>13. CASE UNCHANGED updateVars
  BY <1>13 DEF updateVars, daemon
<1> QED
  BY <1>1, <1>2, <1>3, <1>4, <1>5, <1>6, <1>7, <1>8, <1>9, <1>10, <1>11, <1>12, <1>13 DEF UpdateNext

(* An update whose restart is due, or that waits for a safe moment, holds the   *)
(* reconciler back; a round has its marker; and once the coast was found clear  *)
(* it stays clear.                                                             *)
Held ==
  /\ update.phase # "marker"
  /\ update.phase = "copy" /\ update.needs => hold = "fresh"
  /\ update.phase \in {"inflight", "busy", "clear", "restart"} => hold = "fresh"
  /\ loop # "cleared"
  /\ loop = "round" => marker = "fresh"
  /\ update.phase \in {"clear", "restart"} => loop # "round" /\ ~inflight
QuietInv == UpdateShape /\ Held

LEMMA QuietStep ==
  ASSUME {"late_marker", "long_round", "split_read"} \cap UpdateFaults = {},
         QuietInv, [UpdateNext]_updateVars
  PROVE  QuietInv'
<1>s. UpdateShape'
  BY ShapeStep DEF QuietInv
<1> USE DEF QuietInv, Held, UpdateShape, ScriptRuns, Phases, Ends3
<1>1. CASE Starts \/ Ends
  BY <1>1, <1>s DEF Starts, Ends, Started
<1>2. CASE HoldSeen \/ RoundMarked
  BY <1>2, <1>s DEF HoldSeen, RoundMarked
<1>3. CASE Dispatches \/ ExecutionEnds \/ RoundOver
  BY <1>3, <1>s DEF Dispatches, ExecutionEnds, RoundOver
<1>4. CASE MarkerAges \/ HoldAges \/ Released \/ Stops
  BY <1>4, <1>s DEF MarkerAges, HoldAges, Released, Stops, daemon
<1>5. ASSUME NEW f \in ToSet(Files), Edited(f) PROVE QuietInv'
  BY <1>5, <1>s DEF Edited, daemon
<1>6. ASSUME NEW allow \in SUBSET ToSet(Files), Begins(allow) PROVE QuietInv'
  <2>1. update'.phase = "copy" /\ update'.needs = NeedsRestart(allow)
    BY <1>6 DEF Begins, NoUpdate
  <2> QED
    BY <1>6, <1>s, <2>1 DEF Begins, daemon
<1>7. CASE Copies
  BY <1>7, <1>s DEF Copies
<1>8. CASE Copied
  BY <1>8, <1>s DEF Copied, daemon
<1>9. CASE LooksAtInflight \/ LooksAtMarker \/ Waits
  BY <1>9, <1>s DEF LooksAtInflight, LooksAtMarker, Waits, AfterInflight, daemon
<1>10. CASE Decides
  <2>1. Verdict = "restart" => update.phase = "clear"
    BY <1>10 DEF Decides, Verdict
  <2>2. PICK v \in {Verdict, "failed"} :
          update' = IF v = "restart" THEN [update EXCEPT !.phase = "restart"]
                    ELSE [update EXCEPT !.phase = "record", !.restarted = v]
    BY <1>10 DEF Decides
  <2> QED
    BY <1>10, <1>s, <2>1, <2>2 DEF Decides, daemon
<1>11. CASE Restarts
  BY <1>11, <1>s DEF Restarts, Started, daemon
<1>12. CASE Records \/ ScriptKilled \/ ScriptRaised
  BY <1>12, <1>s DEF Records, ScriptKilled, ScriptRaised, Abandoned, daemon, NoUpdate
<1>13. CASE UNCHANGED updateVars
  BY <1>13, <1>s DEF updateVars, daemon
<1> QED
  BY <1>1, <1>2, <1>3, <1>4, <1>5, <1>6, <1>7, <1>8, <1>9, <1>10, <1>11, <1>12, <1>13 DEF UpdateNext

\* However rounds, executions, starts and updates overlap, and whatever kills a script:
\* no restart falls into a round or an execution (update_workspace.py restart_reconciler).
THEOREM NothingIsCut ==
  ASSUME {"late_marker", "long_round", "split_read"} \cap UpdateFaults = {}
  PROVE  UpdateSpec => []NoOrderCut
<1>1. UpdateInit => QuietInv
  BY ShapeInit DEF UpdateInit, QuietInv, Held, NoUpdate
<1>2. QuietInv /\ [UpdateNext]_updateVars => QuietInv'
  BY QuietStep
<1>3. QuietInv => NoOrderCut
  BY DEF QuietInv, Held, NoOrderCut
<1> QED
  BY <1>1, <1>2, <1>3, PTL DEF UpdateSpec

NoCodeLeft == \A i \in DOMAIN update.todo : update.todo[i] \notin Code
Clean == behind = {} \/ abandoned
(* Code that was replaced under a running reconciler is owed a restart, or an   *)
(* update that knows of it has not ended; one that found nothing running finds  *)
(* nothing running to its end.                                                 *)
OwedInv ==
  /\ UpdateShape
  /\ ~alive => behind = {}
  /\ update.phase = "none" => pending \/ Clean
  /\ update.phase # "none" /\ ~update.was => ~alive /\ ~update.needs
  /\ update.phase = "copy" /\ ~update.needs => Clean /\ (update.was => NoCodeLeft)
  /\ update.phase \in {"inflight", "marker", "busy", "clear", "restart"} => update.needs
  /\ update.phase = "record" => Owed \/ Clean

LEMMA OwedStep ==
  ASSUME "started_meanwhile" \notin UpdateFaults, OwedInv, [UpdateNext]_updateVars
  PROVE  OwedInv'
<1>s. UpdateShape'
  BY ShapeStep DEF OwedInv
<1> USE DEF OwedInv, UpdateShape, ScriptRuns, Phases, Ends3, Clean, Owed
<1>1. CASE Starts \/ Ends
  BY <1>1, <1>s DEF Starts, Ends, Started, NoCodeLeft
<1>2. CASE HoldSeen \/ RoundMarked \/ Dispatches \/ ExecutionEnds \/ RoundOver
  BY <1>2, <1>s DEF HoldSeen, RoundMarked, Dispatches, ExecutionEnds, RoundOver, NoCodeLeft
<1>4. CASE MarkerAges \/ HoldAges \/ Released \/ Stops
  BY <1>4, <1>s DEF MarkerAges, HoldAges, Released, Stops, daemon, NoCodeLeft
<1>5. ASSUME NEW f \in ToSet(Files), Edited(f) PROVE OwedInv'
  BY <1>5, <1>s DEF Edited, daemon, NoCodeLeft
<1>6. ASSUME NEW allow \in SUBSET ToSet(Files), Begins(allow) PROVE OwedInv'
  <2> DEFINE first == InOrder(OldOfficial)
             then == InOrder(allow)
  <2>1. /\ update'.phase = "copy" /\ update'.needs = NeedsRestart(allow)
        /\ update'.was = alive /\ update'.todo = first \o then /\ update.phase = "none"
        /\ UNCHANGED <<pending, alive, behind, abandoned>>
    BY <1>6 DEF Begins, NoUpdate, daemon
  <2>2. OldOfficial \subseteq FileSet /\ allow \subseteq FileSet
    BY DEF OldOfficial, FileSet
  <2>3. /\ first \in Seq(FileSet) /\ then \in Seq(FileSet)
        /\ \A i \in DOMAIN first : first[i] \in OldOfficial
        /\ \A i \in DOMAIN then : then[i] \in allow
    BY <2>2, InOrderIs
  <2> HIDE DEF first, then
  <2>4. alive /\ ~NeedsRestart(allow) => ~pending /\ (OldOfficial \cup allow) \cap Code = {}
    BY DEF NeedsRestart, NotFinished
  <2>5. \A i \in DOMAIN (first \o then) : (first \o then)[i] \in OldOfficial \cup allow
    BY <2>3
  <2>6. ~NeedsRestart(allow) /\ alive => NoCodeLeft'
    BY <2>1, <2>4, <2>5 DEF NoCodeLeft
  <2> QED
    BY <1>s, <2>1, <2>4, <2>6 DEF NeedsRestart
<1>7. CASE Copies
  <2>1. /\ update.phase = "copy" /\ update.todo # <<>>
        /\ update'.phase = "copy" /\ update'.needs = update.needs /\ update'.was = update.was
        /\ update'.todo = Tail(update.todo) /\ UNCHANGED <<pending, alive, abandoned>>
        /\ \/ behind' = behind
           \/ alive /\ behind' = behind \cup ({Head(update.todo)} \cap Code)
    BY <1>7 DEF Copies
  <2>2. NoCodeLeft => NoCodeLeft' /\ Head(update.todo) \notin Code
    BY <2>1 DEF NoCodeLeft
  <2> QED
    BY <1>s, <2>1, <2>2
<1>8. CASE Copied
  <2>1. /\ update.phase = "copy" /\ UNCHANGED <<pending, alive, behind, abandoned>>
        /\ update'.was = update.was /\ update'.needs = update.needs
        /\ update'.phase \in {"record", "inflight"}
        /\ update'.phase = "record" => ~update.needs \/ update'.restarted = "refused"
        /\ update'.phase = "inflight" => update.needs
    BY <1>8 DEF Copied, daemon
  <2> QED
    BY <1>s, <2>1
<1>9. CASE LooksAtInflight \/ LooksAtMarker \/ Waits
  BY <1>9, <1>s DEF LooksAtInflight, LooksAtMarker, Waits, AfterInflight, daemon, NoCodeLeft
<1>10. CASE Decides
  <2>1. Verdict \in {"restart", "busy"} \/ ~alive
    BY DEF Verdict
  <2>2. PICK v \in {Verdict, "failed"} :
          update' = IF v = "restart" THEN [update EXCEPT !.phase = "restart"]
                    ELSE [update EXCEPT !.phase = "record", !.restarted = v]
    BY <1>10 DEF Decides
  <2> QED
    BY <1>10, <1>s, <2>1, <2>2 DEF Decides, daemon
<1>11. CASE Restarts
  <2>1. /\ update.phase = "restart" /\ update'.phase = "record"
        /\ update'.was = update.was /\ update'.needs = update.needs
    BY <1>11 DEF Restarts
  <2>2. CASE Started
    BY <1>s, <2>1, <2>2 DEF Started
  <2>3. CASE ~Started
    <3>1. update'.restarted = "failed"
      BY <1>11, <2>3 DEF Restarts, Started, daemon
    <3>2. (UNCHANGED <<alive, behind>>) \/ (alive' = FALSE /\ behind' = {})
      BY <1>11, <2>3 DEF Restarts, Started, daemon
    <3> QED
      BY <1>s, <2>1, <3>1, <3>2
  <2> QED
    BY <2>2, <2>3
<1>12. CASE Records \/ ScriptKilled \/ ScriptRaised
  BY <1>12, <1>s DEF Records, ScriptKilled, ScriptRaised, Abandoned, daemon, NoUpdate
<1>13. CASE UNCHANGED updateVars
  BY <1>13, <1>s DEF updateVars, daemon, NoCodeLeft
<1> QED
  BY <1>1, <1>2, <1>4, <1>5, <1>6, <1>7, <1>8, <1>9, <1>10, <1>11, <1>12, <1>13 DEF UpdateNext

\* For any releases, edits, refused copies, failed restarts and scripts that die: between
\* updates, code replaced under a running reconciler is written down as owed a restart.
THEOREM RestartIsOwed ==
  ASSUME "started_meanwhile" \notin UpdateFaults
  PROVE  UpdateSpec => []RestartOwed
<1>1. UpdateInit => OwedInv
  BY ShapeInit DEF UpdateInit, OwedInv, Clean, Owed, NoUpdate
<1>2. OwedInv /\ [UpdateNext]_updateVars => OwedInv'
  BY OwedStep
<1>3. OwedInv => RestartOwed
  BY DEF OwedInv, Clean, RestartOwed
<1> QED
  BY <1>1, <1>2, <1>3, PTL DEF UpdateSpec

-----------------------------------------------------------------------------
MachineShape ==
  /\ setup \in {"unit", "no_unit", "no_sudo"}
  /\ installed \in {"old", "new"}
  /\ proc \in [Places -> {"off", "old", "new"}]

(* A reconciler from before the lock runs alone, and a gated one never beside   *)
(* an old file: so a start never puts an old one next to another.              *)
OldRunsAlone == \A p, q \in Places : p # q /\ proc[p] = "old" => proc[q] = "off"
AloneInv ==
  /\ MachineShape
  /\ OldRunsAlone
  /\ installed = "old" => \A p \in Places : proc[p] # "new"
  /\ setup = "no_unit" => proc["unit"] = "off"
  /\ inHand = "restart" => proc["hand"] # "old" /\ (installed = "old" => proc["hand"] = "off")

LEMMA PlacesAre == Places = {"unit", "tmux", "hand"} /\ "unit" # "tmux" /\ "unit" # "hand" /\ "tmux" # "hand"
  BY DEF Places

\* A start leaves one supervised reconciler, in the place it chose.
LEMMA RestartLeaves ==
  ASSUME {"tmux_survives"} \cap StartFaults = {}, AloneInv, RestartDone
  PROVE  /\ proc' \in [Places -> {"off", "old", "new"}]
         /\ proc'["hand"] = proc["hand"]
         /\ \/ proc'["unit"] = installed /\ proc'["tmux"] = "off" /\ setup = "unit"
            \/ proc'["tmux"] = installed /\ proc'["unit"] = "off"
  BY DEF AloneInv, MachineShape, RestartDone, Cleared, Way, Becomes, Places, Runs, OldRunsAlone

LEMMA FailLeaves ==
  ASSUME AloneInv, RestartFails
  PROVE  /\ proc' \in [Places -> {"off", "old", "new"}]
         /\ proc'["hand"] = proc["hand"] /\ proc'["unit"] = proc["unit"]
         /\ proc'["tmux"] \in {"off", proc["tmux"]}
  BY DEF AloneInv, MachineShape, RestartFails, Becomes, Places

LEMMA StopLeaves ==
  ASSUME AloneInv, Becomes([proc EXCEPT !["unit"] = "off", !["tmux"] = "off"])
  PROVE  /\ proc' \in [Places -> {"off", "old", "new"}]
         /\ proc'["hand"] = proc["hand"] /\ proc'["unit"] = "off" /\ proc'["tmux"] = "off"
  BY DEF AloneInv, MachineShape, Becomes, Places

LEMMA AloneStep ==
  ASSUME {"tmux_survives", "unreadable"} \cap StartFaults = {},
         AloneInv, [MachineNext]_machineVars
  PROVE  AloneInv'
<1> USE PlacesAre DEF AloneInv, MachineShape, OldRunsAlone
<1>1. CASE (\E p \in Places : Beats(p)) \/ BeatAges \/ FollowEnds \/ PassExpires \/ Stamps
  BY <1>1 DEF Beats, BeatAges, FollowEnds, PassExpires, Stamps, machine, procs, start
<1>2. CASE HandRuns
  <2>1. /\ proc' = [proc EXCEPT !["hand"] = installed]
        /\ UNCHANGED <<setup, installed, inHand>>
        /\ \A p \in Places : proc[p] # "old"
        /\ installed = "old" => inHand = "idle" /\ \A p \in Places : proc[p] = "off"
    BY <1>2 DEF HandRuns, Becomes, Runs, machine, start
  <2> QED
    BY <2>1
<1>3. CASE HandEnds
  BY <1>3 DEF HandEnds, Becomes, machine
<1>4. CASE Updated \/ UnitArrives
  BY <1>4 DEF Updated, UnitArrives, procs, start
<1>5. CASE Reboot
  <2>1. PICK up \in {{}, IF setup = "no_unit" THEN {} ELSE {"unit"}} :
          proc' = [p \in Places |-> IF p \in up THEN installed ELSE "off"]
    BY <1>5 DEF Reboot
  <2> QED
    BY <1>5, <2>1 DEF Reboot, machine
<1>6. CASE ListenerRestarts \/ AlreadyRan \/ StopRecorded
  BY <1>6 DEF ListenerRestarts, AlreadyRan, StopRecorded, machine, procs, start
<1>7. CASE StopKills
  <2>1. UNCHANGED <<setup, installed, inHand>>
    BY <1>7 DEF StopKills, machine, start
  <2>2. CASE UNCHANGED procs
    BY <2>1, <2>2 DEF procs
  <2>3. CASE Becomes([proc EXCEPT !["unit"] = "off", !["tmux"] = "off"])
    BY <2>1, <2>3, StopLeaves
  <2> QED
    BY <1>7, <2>2, <2>3 DEF StopKills
<1>8. CASE StartAfterStop
  BY <1>8 DEF StartAfterStop, Strays, Runs, machine, procs
<1>9. CASE StartRestarts
  <2>1. UNCHANGED <<setup, installed>> /\ inHand = "restart" /\ inHand' # "restart"
    BY <1>9 DEF StartRestarts, machine
  <2>2. CASE RestartDone
    BY <2>1, <2>2, RestartLeaves
  <2>3. CASE RestartFails
    BY <2>1, <2>3, FailLeaves
  <2> QED
    BY <1>9, <2>2, <2>3 DEF StartRestarts
<1>10. CASE StartClears
  BY <1>10 DEF StartClears, machine, procs
<1>11. CASE Ensure
  <2>1. UNCHANGED <<setup, installed, inHand>> /\ inHand = "idle"
    BY <1>11 DEF Ensure, Press, machine
  <2>2. CASE UNCHANGED procs
    BY <2>1, <2>2 DEF procs
  <2>3. CASE Strays = {} /\ RestartDone
    BY <2>1, <2>3, RestartLeaves DEF Strays, Runs
  <2>4. CASE RestartFails
    BY <2>1, <2>4, FailLeaves
  <2> QED
    BY <1>11, <2>2, <2>3, <2>4 DEF Ensure, procs
<1>12. CASE FollowUp
  <2>1. UNCHANGED <<setup, installed, inHand>> /\ inHand = "idle"
    BY <1>12 DEF FollowUp, Press, machine
  <2>2. CASE UNCHANGED procs
    BY <2>1, <2>2 DEF procs
  <2>3. CASE Strays = {} /\ RestartDone
    BY <2>1, <2>3, RestartLeaves DEF Strays, Runs
  <2>4. CASE RestartFails
    BY <2>1, <2>4, FailLeaves
  <2> QED
    BY <1>12, <2>2, <2>3, <2>4 DEF FollowUp, procs
<1>13. CASE Unbind
  <2>1. UNCHANGED <<setup, installed, inHand>>
    BY <1>13 DEF Unbind, machine
  <2>2. CASE UNCHANGED procs
    BY <2>1, <2>2 DEF procs
  <2>3. CASE Becomes([proc EXCEPT !["unit"] = "off", !["tmux"] = "off"])
    BY <2>1, <2>3, StopLeaves
  <2> QED
    BY <1>13, <2>2, <2>3 DEF Unbind
<1>14. CASE CloseAll \/ ClosesByHand \/ CloserStarts \/ CloserRefused \/ CloserEnds
  BY <1>14 DEF CloseAll, ClosesByHand, CloserStarts, CloserRefused, CloserEnds, machine, procs, start
<1>15. CASE UNCHANGED machineVars
  BY <1>15 DEF machineVars
<1> QED
  BY <1>1, <1>2, <1>3, <1>4, <1>5, <1>6, <1>7, <1>8, <1>9, <1>10, <1>11, <1>12, <1>13, <1>14,
     <1>15 DEF MachineNext

\* For any boots, presses, runs by hand and failed starts: two reconcilers never trade the
\* same book, as long as tmux dies when told and the process list can be read
\* (command_listener.py _restart_reconciler, _stray_reconcilers).
THEOREM OneReconcilerTrades ==
  ASSUME {"tmux_survives", "unreadable"} \cap StartFaults = {}
  PROVE  MachineSpec => []OneTrades
<1>1. MachineInit => AloneInv
  BY StartAssumption DEF MachineInit, AloneInv, MachineShape, OldRunsAlone, StartAssumption, Places
<1>2. AloneInv /\ [MachineNext]_machineVars => AloneInv'
  BY AloneStep
<1>3. AloneInv => OneTrades
  <2> SUFFICES ASSUME AloneInv PROVE OneTrades
    OBVIOUS
  <2> DEFINE S == {p \in Places : CanTrade(p)}
  <2>1. ASSUME NEW p \in S, NEW q \in S PROVE p = q
    BY <2>1 DEF CanTrade, AloneInv, OldRunsAlone
  <2>2. CASE S = {}
    BY <2>2, FS_EmptySet DEF OneTrades
  <2>3. CASE \E p \in S : S = {p}
    BY <2>3, FS_Singleton DEF OneTrades
  <2> QED
    BY <2>1, <2>2, <2>3
<1> QED
  BY <1>1, <1>2, <1>3, PTL DEF MachineSpec

-----------------------------------------------------------------------------
Judged == boot \in {"known", "unknown"}
(* The machine rebooted while trading, and nobody has pressed start since.      *)
StayStopped == past.stopped /\ ~past.pressed
Blocked == record # "none" /\ (past.reported \/ \A p \in Supervised : proc[p] # "old")
Pasts == [stopped : BOOLEAN, pressed : BOOLEAN, reported : BOOLEAN, asked : Nat, granted : Nat]
(* The boot check records the stop before it kills, a kill that fails is         *)
(* reported, and nothing is in hand before the check is done or without a start. *)
StopInv ==
  /\ proc \in [Places -> {"off", "old", "new"}] /\ past \in Pasts
  /\ ~Judged \/ ~past.pressed => inHand = "idle"
  /\ StayStopped /\ Judged => Blocked
  /\ StayStopped /\ boot = "unjudged" => ~stamped \/ Blocked
  /\ StayStopped /\ boot = "kill" => record # "none"
(* Each pass a close-all got through the stop with was asked for.               *)
PassInv == past \in Pasts /\ past.granted + (IF pass = "fresh" THEN 1 ELSE 0) <= past.asked

\* The file on disk is one of the two.
LEMMA InstalledStep ==
  installed \in {"old", "new"} /\ [MachineNext]_machineVars => installed' \in {"old", "new"}
  BY DEF MachineNext, machineVars, machine, Beats, BeatAges, FollowEnds, PassExpires, Stamps, HandRuns,
         HandEnds, Updated, UnitArrives, Reboot, ListenerRestarts, AlreadyRan, StopRecorded, StopKills,
         StartAfterStop, StartRestarts, StartClears, Ensure, FollowUp, Unbind, CloseAll, ClosesByHand,
         CloserStarts, CloserRefused, CloserEnds

\* A reboot keeps count of passes and of what happened before it.
LEMMA RebootShape ==
  ASSUME past \in Pasts, Reboot
  PROVE  /\ past' \in Pasts
         /\ past'.asked = past.asked /\ past'.granted = past.granted /\ past'.pressed = FALSE
<1> DEFINE b == beat.age \in {"fresh", "late"}
<1>1. b \in BOOLEAN
  OBVIOUS
<1>2. past' = [past EXCEPT !.stopped = b, !.pressed = FALSE, !.reported = FALSE]
  BY DEF Reboot
<1> HIDE DEF b
<1> QED
  BY <1>1, <1>2 DEF Pasts

\* The processes a step leaves, when it changes them through the lock.
LEMMA ProcShapeStep ==
  ASSUME proc \in [Places -> {"off", "old", "new"}], [MachineNext]_machineVars,
         installed \in {"old", "new"}
  PROVE  proc' \in [Places -> {"off", "old", "new"}]
<1> USE PlacesAre
<1>1. CASE (\E p \in Places : Beats(p)) \/ BeatAges \/ FollowEnds \/ PassExpires \/ Stamps
  BY <1>1 DEF Beats, BeatAges, FollowEnds, PassExpires, Stamps, procs
<1>2. CASE HandRuns \/ HandEnds
  BY <1>2 DEF HandRuns, HandEnds, Becomes
<1>3. CASE Updated \/ UnitArrives
  BY <1>3 DEF Updated, UnitArrives, procs
<1>4. CASE Reboot
  BY <1>4 DEF Reboot
<1>5. CASE ListenerRestarts \/ AlreadyRan \/ StopRecorded \/ StartAfterStop \/ StartClears
  BY <1>5 DEF ListenerRestarts, AlreadyRan, StopRecorded, StartAfterStop, StartClears, procs
<1>6. ASSUME RestartDone \/ RestartFails PROVE proc' \in [Places -> {"off", "old", "new"}]
  BY <1>6 DEF RestartDone, RestartFails, Becomes, Cleared
<1>7. CASE StopKills \/ Unbind
  BY <1>7 DEF StopKills, Unbind, Becomes, procs
<1>8. CASE StartRestarts \/ Ensure \/ FollowUp
  BY <1>6, <1>8 DEF StartRestarts, Ensure, FollowUp, procs
<1>9. CASE CloseAll \/ ClosesByHand \/ CloserStarts \/ CloserRefused \/ CloserEnds
  BY <1>9 DEF CloseAll, ClosesByHand, CloserStarts, CloserRefused, CloserEnds, procs
<1>10. CASE UNCHANGED machineVars
  BY <1>10 DEF machineVars
<1> QED
  BY <1>1, <1>2, <1>3, <1>4, <1>5, <1>7, <1>8, <1>9, <1>10 DEF MachineNext

LEMMA PassStep == PassInv /\ [MachineNext]_machineVars => PassInv'
<1> SUFFICES ASSUME PassInv, [MachineNext]_machineVars PROVE PassInv'
  OBVIOUS
<1> USE DEF PassInv, Pasts
<1>1. CASE (\E p \in Places : Beats(p)) \/ BeatAges \/ FollowEnds \/ PassExpires \/ Stamps
  BY <1>1 DEF Beats, BeatAges, FollowEnds, PassExpires, Stamps, closing
<1>2. CASE HandRuns \/ HandEnds \/ Updated \/ UnitArrives
  BY <1>2 DEF HandRuns, HandEnds, Updated, UnitArrives, closing
<1>3. CASE Reboot
  <2>1. pass' # "fresh"
    BY <1>3 DEF Reboot
  <2> QED
    BY <1>3, <2>1, RebootShape
<1>4. CASE ListenerRestarts \/ AlreadyRan \/ StopRecorded \/ StopKills
  BY <1>4 DEF ListenerRestarts, AlreadyRan, StopRecorded, StopKills, closing
<1>5. CASE StartAfterStop \/ StartRestarts \/ StartClears \/ Ensure \/ FollowUp \/ Unbind
  BY <1>5 DEF StartAfterStop, StartRestarts, StartClears, Ensure, FollowUp, Unbind, closing
<1>6. CASE CloseAll
  BY <1>6 DEF CloseAll, closing
<1>7. CASE CloserStarts
  BY <1>7 DEF CloserStarts
<1>8. CASE ClosesByHand \/ CloserRefused \/ CloserEnds
  BY <1>8 DEF ClosesByHand, CloserRefused, CloserEnds
<1>9. CASE UNCHANGED machineVars
  BY <1>9 DEF machineVars
<1> QED
  BY <1>1, <1>2, <1>3, <1>4, <1>5, <1>6, <1>7, <1>8, <1>9 DEF MachineNext

LEMMA StopStep ==
  ASSUME "unrecorded" \notin StartFaults, StopInv, installed \in {"old", "new"},
         [MachineNext]_machineVars
  PROVE  StopInv'
<1>p. proc' \in [Places -> {"off", "old", "new"}]
  BY ProcShapeStep DEF StopInv
<1> USE PlacesAre DEF StopInv, Pasts, Judged, StayStopped, Blocked, Supervised
<1>1. CASE (\E p \in Places : Beats(p)) \/ BeatAges \/ FollowEnds \/ PassExpires \/ Stamps
  BY <1>1 DEF Beats, BeatAges, FollowEnds, PassExpires, Stamps, procs, stop, start
<1>2. CASE HandRuns \/ HandEnds
  BY <1>2, <1>p DEF HandRuns, HandEnds, Becomes, stop, start
<1>3. CASE Updated \/ UnitArrives
  BY <1>3 DEF Updated, UnitArrives, procs, stop, start
<1>4. CASE Reboot
  <2>1. inHand' = "idle" /\ boot' = "unjudged" /\ ~stamped'
    BY <1>4 DEF Reboot
  <2>2. past' \in Pasts
    BY <1>4, RebootShape DEF StopInv
  <2> QED
    BY <1>p, <2>1, <2>2
<1>5. CASE ListenerRestarts \/ AlreadyRan
  BY <1>5 DEF ListenerRestarts, AlreadyRan, BootJudged, procs, start
<1>6. CASE StopRecorded
  BY <1>6 DEF StopRecorded, procs, start
<1>7. CASE StopKills
  <2>1. CASE Becomes([proc EXCEPT !["unit"] = "off", !["tmux"] = "off"]) /\ UNCHANGED past
    BY <1>7, <2>1, <1>p DEF StopKills, Becomes, BootJudged, start
  <2>2. CASE past' = [past EXCEPT !.reported = TRUE] /\ UNCHANGED <<procs, record>>
    BY <1>7, <2>2 DEF StopKills, BootJudged, start, procs
  <2> QED
    BY <1>7, <2>1, <2>2 DEF StopKills
<1>8. CASE StartAfterStop
  BY <1>8 DEF StartAfterStop, Press, procs, stop
<1>9. CASE StartRestarts \/ StartClears
  BY <1>9, <1>p DEF StartRestarts, StartClears, stop
<1>10. CASE Ensure
  BY <1>10, <1>p DEF Ensure, Press, stop
<1>11. CASE FollowUp
  <2>1. UNCHANGED procs \/ record = "none"
    BY <1>11 DEF FollowUp, procs
  <2> QED
    BY <1>11, <2>1, <1>p DEF FollowUp, Press, stop, procs
<1>12. CASE Unbind
  BY <1>12, <1>p DEF Unbind, Becomes, Press, stop, procs
<1>13. CASE CloseAll \/ ClosesByHand \/ CloserStarts \/ CloserRefused \/ CloserEnds
  BY <1>13 DEF CloseAll, ClosesByHand, CloserStarts, CloserRefused, CloserEnds, Press, stop, procs, start
<1>14. CASE UNCHANGED machineVars
  BY <1>14 DEF machineVars
<1> QED
  BY <1>1, <1>2, <1>3, <1>4, <1>5, <1>6, <1>7, <1>8, <1>9, <1>10, <1>11, <1>12, <1>13, <1>14
     DEF MachineNext

\* A machine that rebooted while trading stays stopped until start is pressed, whatever is
\* restarted, killed, closed or run by hand meanwhile, provided the stop record could be
\* written; and no close-all sells without a pass that was asked for
\* (command_listener.py _judge_boot, _stop_after_restart; guard.py claim_close_all_pass).
THEOREM StopHolds ==
  ASSUME "unrecorded" \notin StartFaults
  PROVE  MachineSpec => []StoppedUntilStart
<1> DEFINE Inv == StopInv /\ PassInv /\ installed \in {"old", "new"}
<1>1. MachineInit => Inv
  BY StartAssumption DEF MachineInit, StopInv, PassInv, Pasts, Judged, StayStopped, Places, StartAssumption
<1>2. Inv /\ [MachineNext]_machineVars => Inv'
  <2> SUFFICES ASSUME Inv, [MachineNext]_machineVars PROVE Inv'
    OBVIOUS
  <2>1. StopInv' /\ PassInv'
    BY StopStep, PassStep
  <2>2. installed' \in {"old", "new"}
    BY InstalledStep
  <2> QED
    BY <2>1, <2>2
<1>3. Inv => StoppedUntilStart
  BY PlacesAre DEF StopInv, PassInv, Pasts, StoppedUntilStart, Judged, StayStopped, Blocked, Supervised, CanTrade
<1> QED
  BY <1>1, <1>2, <1>3, PTL DEF MachineSpec

-----------------------------------------------------------------------------
Somebody == \E p \in Places : Runs(p)
Done == {"running", "stray", "started"}
BeatShape == beat \in [age : {"none", "fresh", "late", "dead"}, later : BOOLEAN, gated : BOOLEAN]
LockInv ==
  /\ proc \in [Places -> {"off", "old", "new"}] /\ installed \in {"old", "new"}
  /\ lock # "free" => lock \in Places /\ proc[lock] = "new"
  /\ lock = "free" => \A p \in Places : proc[p] # "new"
(* A heartbeat that a start would trust has a reconciler behind it, and a start  *)
(* that is being answered has one too.                                          *)
BeatInv ==
  /\ BeatShape
  /\ beat.age = "fresh" /\ beat.later /\ (~marked \/ record # "none") => Somebody
  /\ beat.age = "fresh" /\ ~marked /\ record = "none" /\ (Judged \/ (boot = "unjudged" /\ stamped))
       => Somebody
  /\ ~Judged => inHand = "idle" /\ ack = "none"
  /\ inHand = "clear" => Somebody
  /\ ack \in Done => Somebody
  /\ ack \in Done /\ inHand = "idle" => record = "none"

LEMMA LockStep ==
  ASSUME LockInv, [MachineNext]_machineVars
  PROVE  LockInv'
<1>p. proc' \in [Places -> {"off", "old", "new"}] /\ installed' \in {"old", "new"}
  BY ProcShapeStep, InstalledStep DEF LockInv
<1>b. ASSUME NEW new, Becomes(new) PROVE LockInv'
  BY <1>b, <1>p DEF LockInv, Becomes, Lock, Places
<1>1. CASE Reboot
  BY <1>1, <1>p, PlacesAre DEF Reboot, LockInv
<1>2. CASE UNCHANGED procs
  BY <1>2, <1>p DEF LockInv, procs
<1>3. CASE (\E p \in Places : Beats(p)) \/ BeatAges \/ FollowEnds \/ PassExpires \/ Stamps
  BY <1>2, <1>3 DEF Beats, BeatAges, FollowEnds, PassExpires, Stamps
<1>4. CASE HandRuns \/ HandEnds
  BY <1>b, <1>4 DEF HandRuns, HandEnds
<1>5. CASE Updated \/ UnitArrives \/ ListenerRestarts \/ AlreadyRan \/ StopRecorded \/ StartAfterStop \/ StartClears
  BY <1>2, <1>5 DEF Updated, UnitArrives, ListenerRestarts, AlreadyRan, StopRecorded, StartAfterStop, StartClears
<1>6. ASSUME RestartDone \/ RestartFails PROVE LockInv'
  BY <1>b, <1>6 DEF RestartDone, RestartFails
<1>7. CASE StopKills \/ Unbind
  BY <1>2, <1>b, <1>7 DEF StopKills, Unbind
<1>8. CASE StartRestarts \/ Ensure \/ FollowUp
  BY <1>2, <1>6, <1>8 DEF StartRestarts, Ensure, FollowUp, procs
<1>9. CASE CloseAll \/ ClosesByHand \/ CloserStarts \/ CloserRefused \/ CloserEnds
  BY <1>2, <1>9 DEF CloseAll, ClosesByHand, CloserStarts, CloserRefused, CloserEnds
<1>10. CASE UNCHANGED machineVars
  BY <1>2, <1>10 DEF machineVars, procs
<1> QED
  BY <1>1, <1>3, <1>4, <1>5, <1>7, <1>8, <1>9, <1>10 DEF MachineNext

LEMMA BeatStep ==
  ASSUME "just_died" \notin StartFaults, LockInv, BeatInv, [MachineNext]_machineVars
  PROVE  BeatInv'
<1>p. proc' \in [Places -> {"off", "old", "new"}]
  BY ProcShapeStep DEF LockInv
<1>f. /\ Faded \in [age : {"none", "late", "dead"}, later : BOOLEAN, gated : BOOLEAN]
      /\ [Faded EXCEPT !.later = FALSE] \in [age : {"none", "late", "dead"}, later : BOOLEAN, gated : BOOLEAN]
  BY DEF Faded, BeatInv, BeatShape
<1>r. ASSUME RestartDone PROVE Somebody' /\ beat' = beat
  BY <1>r, <1>p, PlacesAre DEF RestartDone, Becomes, Way, Somebody, Runs, LockInv
<1>e. ASSUME RestartFails PROVE beat' = Faded
  BY <1>e DEF RestartFails
<1> HIDE DEF Faded, RestartDone, RestartFails
<1> USE DEF BeatInv, BeatShape, Judged, Done
<1>1. CASE \E p \in Places : Beats(p)
  <2>1. PICK p \in Places : Beats(p)
    BY <1>1
  <2>2. proc[p] # "off" /\ UNCHANGED <<procs, record, boot, stamped, inHand, ack>>
    BY <2>1 DEF Beats, stop, start, procs
  <2>3. Somebody'
    BY <2>2 DEF Somebody, Runs, procs
  <2>4. BeatShape'
    BY <2>1, Zenon DEF Beats, BeatShape
  <2> QED
    BY <2>2, <2>3, <2>4
<1>2. CASE BeatAges
  <2>1. beat' \in [age : {"late", "dead"}, later : BOOLEAN, gated : BOOLEAN]
    BY <1>2 DEF BeatAges
  <2> QED
    BY <1>2, <2>1 DEF BeatAges, procs, stop, start, Somebody, Runs
<1>3. CASE FollowEnds \/ PassExpires \/ Stamps
  BY <1>3 DEF FollowEnds, PassExpires, Stamps, procs, stop, start, Somebody, Runs
<1>4. CASE HandRuns
  <2>1. Somebody'
    BY <1>4, <1>p, PlacesAre DEF HandRuns, Becomes, Somebody, Runs, LockInv
  <2> QED
    BY <1>4, <2>1 DEF HandRuns, stop, start
<1>5. CASE HandEnds
  BY <1>5, <1>f DEF HandEnds, stop
<1>6. CASE Updated \/ UnitArrives
  BY <1>6 DEF Updated, UnitArrives, procs, stop, start, Somebody, Runs
<1>7. CASE Reboot
  <2>1. beat' \in [age : {"none", "fresh", "late", "dead"}, later : {FALSE}, gated : BOOLEAN]
    BY <1>7 DEF Reboot
  <2> QED
    BY <1>7, <2>1 DEF Reboot
<1>8. CASE ListenerRestarts \/ AlreadyRan
  BY <1>8 DEF ListenerRestarts, AlreadyRan, BootJudged, procs, start, Somebody, Runs
<1>9. CASE StopRecorded
  <2>1. beat' \in [age : {"none", "fresh", "late", "dead"}, later : {FALSE}, gated : BOOLEAN]
    BY <1>9 DEF StopRecorded
  <2> QED
    BY <1>9, <2>1 DEF StopRecorded, procs, start
<1>10. CASE StopKills
  <2>1. CASE beat' \in {Faded, [Faded EXCEPT !.later = FALSE]}
    BY <1>10, <1>f, <2>1 DEF StopKills, start
  <2>2. CASE (\E p \in Supervised : Runs(p)) /\ UNCHANGED <<procs, record, beat>>
    BY <1>10, <2>2, PlacesAre DEF StopKills, start, procs, Supervised, Somebody, Runs
  <2> QED
    BY <1>10, <2>1, <2>2 DEF StopKills
<1>11. CASE StartAfterStop
  BY <1>11, PlacesAre DEF StartAfterStop, Press, Strays, procs, stop, Somebody, Runs
<1>12. CASE StartRestarts
  BY <1>12, <1>r, <1>e, <1>f DEF StartRestarts, stop
<1>13. CASE StartClears
  BY <1>13 DEF StartClears, procs, Somebody, Runs
<1>14. CASE Ensure
  <2>1. Judged /\ record = "none" /\ UNCHANGED <<inHand, boot, stamped, record, marked>> /\ inHand = "idle"
    BY <1>14 DEF Ensure, Press, stop
  <2>2. CASE Alive /\ UNCHANGED <<procs, beat>>
    <3>1. Somebody
      BY <2>1, <2>2, PlacesAre DEF Alive, Supervised, Somebody
    <3> QED
      BY <2>1, <2>2, <3>1 DEF procs, Somebody, Runs
  <2>3. CASE Strays # {} /\ UNCHANGED <<procs, beat>>
    <3>1. Somebody
      BY <2>3, PlacesAre DEF Strays, Somebody
    <3> QED
      BY <2>1, <2>3, <3>1 DEF procs, Somebody, Runs
  <2>4. CASE RestartDone
    BY <1>r, <2>1, <2>4
  <2>5. CASE RestartFails /\ ack' = "failed"
    BY <1>e, <1>f, <2>1, <2>5
  <2> QED
    BY <1>14, <2>2, <2>3, <2>4, <2>5 DEF Ensure
<1>15. CASE FollowUp
  <2>1. Judged /\ UNCHANGED <<inHand, boot, stamped, record, marked>> /\ inHand = "idle" /\ ack' = "none"
    BY <1>15 DEF FollowUp, Press, stop
  <2>2. CASE UNCHANGED <<procs, beat>>
    BY <2>1, <2>2 DEF procs, Somebody, Runs
  <2>3. CASE RestartDone
    BY <1>r, <2>1, <2>3
  <2>4. CASE RestartFails
    BY <1>e, <1>f, <2>1, <2>4
  <2> QED
    BY <1>15, <2>2, <2>3, <2>4 DEF FollowUp
<1>16. CASE Unbind
  <2>1. Judged /\ UNCHANGED <<inHand, boot, stamped, record>> /\ inHand = "idle" /\ ack' = "none"
    BY <1>16 DEF Unbind, Press, stop
  <2>2. CASE UNCHANGED <<procs, marked, beat>>
    BY <2>1, <2>2 DEF procs, Somebody, Runs
  <2>3. CASE record = "none" /\ beat' = beat /\ marked' = (beat.age # "none")
    BY <2>1, <2>3
  <2>4. CASE beat' = Faded
    BY <1>f, <2>1, <2>4
  <2> QED
    BY <1>16, <2>2, <2>3, <2>4 DEF Unbind
<1>17. CASE CloseAll
  BY <1>17 DEF CloseAll, Press, procs, stop, Somebody, Runs
<1>18. CASE ClosesByHand \/ CloserStarts \/ CloserRefused \/ CloserEnds
  BY <1>18 DEF ClosesByHand, CloserStarts, CloserRefused, CloserEnds, procs, stop, start, Somebody, Runs
<1>19. CASE UNCHANGED machineVars
  BY <1>19 DEF machineVars, Somebody, Runs
<1> QED
  BY <1>1, <1>2, <1>3, <1>4, <1>5, <1>6, <1>7, <1>8, <1>9, <1>10, <1>11, <1>12, <1>13, <1>14, <1>15,
     <1>16, <1>17, <1>18, <1>19 DEF MachineNext

\* A start that was answered as done leaves a reconciler that may trade, over any reboots,
\* failed restarts, unbinds and follow-ups, unless one died less than 15 s before
\* (command_listener.py _start_after_restart_stop, _ensure_reconciler_running).
THEOREM AnsweredStartTrades ==
  ASSUME "just_died" \notin StartFaults
  PROVE  MachineSpec => []StartTrades
<1>1. MachineInit => LockInv /\ BeatInv
  BY PlacesAre DEF MachineInit, LockInv, BeatInv, BeatShape, NoBeat, Judged, Done
<1>2. LockInv /\ BeatInv /\ [MachineNext]_machineVars => LockInv' /\ BeatInv'
  BY LockStep, BeatStep
<1>3. LockInv /\ BeatInv => StartTrades
  BY DEF LockInv, BeatInv, StartTrades, Done, Somebody, Runs, CanTrade
<1> QED
  BY <1>1, <1>2, <1>3, PTL DEF MachineSpec
=============================================================================
