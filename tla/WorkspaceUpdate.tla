--------------------------- MODULE WorkspaceUpdate ---------------------------
(* An update of the workspace under a running reconciler                         *)
(* (manager/update_workspace.py): plan, copy, wait for a safe moment, restart,   *)
(* and the record of a restart still owed.  The reconciler's side is the hold it *)
(* honours before a round and the marker it keeps during one                     *)
(* (manager/reconciler.py), with the in-flight markers of lib/execute.py.        *)
EXTENDS Integers, Sequences, SequencesExt

CONSTANTS
  Changes,       \* what each official release changes: release -> set of files
  MaxEdits,      \* official files the user edits on this machine
  UpdateFaults   \* subset of AllUpdateFaults

(* killed:            the script dies, its hold stays                              *)
(* raised:            it ends with an exception after the plan, its hold goes      *)
(* started_meanwhile: a start while an update that found nothing running copies    *)
(* late_marker:       time passes between the look at the hold and the marker      *)
(* long_round:        a round lasts longer than ROUND_STALE_S                      *)
(* split_read:        time passes between the in-flight markers and the round's    *)
AllUpdateFaults ==
  {"killed", "raised", "started_meanwhile", "late_marker", "long_round", "split_read"}

Code     == {"lib", "manager"}                   \* CODE_DIRS
Files    == <<"lib", "manager", "references">>   \* in the order of the copy
Releases == DOMAIN Changes
Mine     == -1                                   \* what the user made of a file

ASSUME UpdateAssumption ==
  /\ Releases = 1..Len(Changes) /\ \A r \in Releases : Changes[r] \subseteq ToSet(Files)
  /\ MaxEdits \in Nat /\ UpdateFaults \subseteq AllUpdateFaults

VARIABLES
  clone,     \* the newest official release
  tree,      \* the release each file of the workspace last changed in, or Mine
  version,   \* VERSION of the workspace
  pending,   \* state/update_restart_pending.json is there
  hold,      \* state/execution/hold: "none", "fresh", "stale"
  update,    \* the run of the script
  alive,     \* the reconciler runs
  behind,    \* code an update replaced since the reconciler started
  loop,      \* "poll", "cleared" (saw no hold), "round"
  marker,    \* state/execution/round: "none", "fresh", "stale"
  inflight,  \* an execution has its marker in state/execution/inflight
  abandoned, \* a run ended before its records since the reconciler started
  edits

files      == <<tree, version>>
daemon     == <<alive, behind, loop, marker, inflight, abandoned>>
updateVars == <<clone, files, pending, hold, update, daemon, edits>>

Content(r, f) == Max({s \in 0..r : s = 0 \/ f \in Changes[s]})
NoUpdate == [phase |-> "none", was |-> FALSE, needs |-> FALSE, todo |-> <<>>,
             refused |-> {}, kept |-> FALSE, restarted |-> "no"]

UpdateInit ==
  /\ clone = 0 /\ tree = [f \in ToSet(Files) |-> 0] /\ version = 0
  /\ pending = FALSE /\ hold = "none" /\ update = NoUpdate
  /\ alive = TRUE /\ behind = {} /\ loop = "poll" /\ marker = "none" /\ inflight = FALSE
  /\ abandoned = FALSE /\ edits = 0

-----------------------------------------------------------------------------
(* The reconciler.                                                               *)

(* A start clears what a dead process left: its marker, its executions'.         *)
Started ==
  /\ alive' = TRUE /\ behind' = {} /\ abandoned' = FALSE
  /\ loop' = "poll" /\ marker' = "none" /\ inflight' = FALSE

Starts ==
  /\ ~alive /\ Started
  /\ update.phase = "none" \/ update.was \/ "started_meanwhile" \in UpdateFaults
  /\ UNCHANGED <<clone, files, pending, hold, update, edits>>
(* Stopped by the user or dead; what it wrote stays on disk.                     *)
Ends ==
  /\ alive /\ alive' = FALSE /\ behind' = {} /\ loop' = "poll"
  /\ UNCHANGED <<clone, files, pending, hold, update, marker, inflight, abandoned, edits>>

(* _update_hold: a stale hold is removed and ignored; then the round's marker.   *)
HoldSeen ==
  /\ alive /\ loop = "poll" /\ hold # "fresh" /\ hold' = "none"
  /\ \/ "late_marker" \in UpdateFaults /\ loop' = "cleared" /\ UNCHANGED marker
     \/ "late_marker" \notin UpdateFaults /\ loop' = "round" /\ marker' = "fresh"
  /\ UNCHANGED <<clone, files, pending, update, alive, behind, inflight, abandoned, edits>>
RoundMarked ==
  /\ loop = "cleared" /\ loop' = "round" /\ marker' = "fresh"
  /\ UNCHANGED <<clone, files, pending, hold, update, alive, behind, inflight, abandoned, edits>>
Dispatches ==
  /\ loop = "round" /\ inflight' = TRUE
  /\ UNCHANGED <<clone, files, pending, hold, update, alive, behind, loop, marker, abandoned, edits>>
ExecutionEnds ==
  /\ alive /\ inflight /\ inflight' = FALSE
  /\ UNCHANGED <<clone, files, pending, hold, update, alive, behind, loop, marker, abandoned, edits>>
RoundOver ==
  /\ loop = "round" /\ loop' = "poll" /\ marker' = "none"
  /\ UNCHANGED <<clone, files, pending, hold, update, alive, behind, inflight, abandoned, edits>>

(* 15 minutes: a round and a run of the script are shorter.                      *)
MarkerAges ==
  /\ marker = "fresh" /\ (loop # "round" \/ "long_round" \in UpdateFaults) /\ marker' = "stale"
  /\ UNCHANGED <<clone, files, pending, hold, update, alive, behind, loop, inflight, abandoned, edits>>
HoldAges ==
  /\ hold = "fresh" /\ update.phase = "none" /\ hold' = "stale"
  /\ UNCHANGED <<clone, files, pending, update, daemon, edits>>

-----------------------------------------------------------------------------
(* The script: apply --restart-ok.  It runs from the newest official release.    *)

Released ==
  /\ update.phase = "none" /\ clone < Len(Changes) /\ clone' = clone + 1
  /\ UNCHANGED <<files, pending, hold, update, daemon, edits>>
Edited(f) ==
  /\ edits < MaxEdits /\ edits' = edits + 1 /\ tree' = [tree EXCEPT ![f] = Mine]
  /\ UNCHANGED <<clone, version, pending, hold, update, daemon>>

(* plan: which files are older official ones, which the user changed.            *)
OldOfficial == {f \in ToSet(Files) : tree[f] \notin {Mine, Content(clone, f)}}
ChangedHere == {f \in ToSet(Files) : tree[f] = Mine}
InOrder(s)  ==
  LET Only(i) == IF Files[i] \in s THEN <<Files[i]>> ELSE <<>>
  IN Only(1) \o Only(2) \o Only(3)

(* A restart is owed for code to be written, by the record of an earlier run, or *)
(* by a tree that equals the clone under an older VERSION.                       *)
NotFinished == pending \/ (OldOfficial \cup ChangedHere = {} /\ version # clone)
NeedsRestart(allow) == alive /\ ((OldOfficial \cup allow) \cap Code # {} \/ NotFinished)

(* _run up to the copy; the hold goes down only for a restart.                   *)
Begins(allow) ==
  /\ update.phase = "none" /\ allow \subseteq ChangedHere
  /\ update' = [NoUpdate EXCEPT !.phase = "copy", !.was = alive, !.needs = NeedsRestart(allow),
                                !.todo = InOrder(OldOfficial) \o InOrder(allow),
                                !.kept = ChangedHere # allow]
  /\ hold' = IF NeedsRestart(allow) THEN "fresh" ELSE hold
  /\ UNCHANGED <<clone, files, pending, daemon, edits>>

(* A run that stops before the copy (no --restart-ok, a tampered clone) drops the *)
(* hold too, which is nobody's by then.                                          *)
Stops ==
  /\ update.phase = "none" /\ hold # "none" /\ hold' = "none"
  /\ UNCHANGED <<clone, files, pending, update, daemon, edits>>

(* One file: backup, tmp and replace; either may fail, and the file stays.       *)
Copies ==
  /\ update.phase = "copy" /\ update.todo # <<>>
  /\ LET f == Head(update.todo) IN
     \/ /\ tree' = [tree EXCEPT ![f] = Content(clone, f)]
        /\ behind' = IF alive THEN behind \cup ({f} \cap Code) ELSE behind
        /\ update' = [update EXCEPT !.todo = Tail(@)]
     \/ /\ update' = [update EXCEPT !.todo = Tail(@), !.refused = @ \cup {f}]
        /\ UNCHANGED <<tree, behind>>
  /\ UNCHANGED <<clone, version, pending, hold, alive, loop, marker, inflight, abandoned, edits>>

(* A tree part new, part old is never started.                                   *)
Copied ==
  /\ update.phase = "copy" /\ update.todo = <<>>
  /\ update' = IF ~update.needs THEN [update EXCEPT !.phase = "record"]
               ELSE IF update.refused \cap Code # {}
                    THEN [update EXCEPT !.phase = "record", !.restarted = "refused"]
                    ELSE [update EXCEPT !.phase = "inflight"]
  /\ UNCHANGED <<clone, files, pending, hold, daemon, edits>>

(* trading_busy, asked again by wait_not_busy: the in-flight markers, then the   *)
(* round's.                                                                      *)
AfterExecutions == IF inflight THEN "busy" ELSE "clear"
AfterInflight ==
  IF inflight THEN "busy"
  ELSE IF "split_read" \in UpdateFaults THEN "marker"
  ELSE IF marker = "fresh" THEN "busy" ELSE "clear"
LooksAtInflight ==
  /\ update.phase = "inflight" /\ update' = [update EXCEPT !.phase = AfterInflight]
  /\ UNCHANGED <<clone, files, pending, hold, daemon, edits>>
LooksAtMarker ==
  /\ update.phase = "marker"
  /\ update' = [update EXCEPT !.phase = IF marker = "fresh" THEN "busy" ELSE "clear"]
  /\ UNCHANGED <<clone, files, pending, hold, daemon, edits>>
Waits ==
  /\ update.phase = "busy" /\ update' = [update EXCEPT !.phase = "inflight"]
  /\ UNCHANGED <<clone, files, pending, hold, daemon, edits>>

(* The state is read again: gone means stopped by the user, unreadable does not. *)
Verdict == IF ~alive THEN "not_running_anymore"
           ELSE IF update.phase = "busy" THEN "busy" ELSE "restart"
Decides ==
  /\ update.phase \in {"busy", "clear"}
  /\ \E v \in {Verdict, "failed"} :
       update' = IF v = "restart" THEN [update EXCEPT !.phase = "restart"]
                 ELSE [update EXCEPT !.phase = "record", !.restarted = v]
  /\ UNCHANGED <<clone, files, pending, hold, daemon, edits>>

(* restart_reconciler: refused, done, or done and not up within ten seconds.     *)
Restarts ==
  /\ update.phase = "restart"
  /\ \/ Started /\ update' = [update EXCEPT !.phase = "record", !.restarted = "ok"]
     \/ /\ update' = [update EXCEPT !.phase = "record", !.restarted = "failed"]
        /\ \/ UNCHANGED daemon
           \/ Started
           \/ alive' = FALSE /\ behind' = {} /\ loop' = "poll" /\ UNCHANGED <<marker, inflight, abandoned>>
  /\ UNCHANGED <<clone, files, pending, hold, edits>>

(* The record of a restart owed, VERSION, and the hold last.                     *)
OwedIfFailed == update.restarted = "failed"
Owed    == update.restarted \in {"failed", "busy", "refused"}
Settled == update.restarted \in {"ok", "not_running_anymore"} \/ ~update.was
Records ==
  /\ update.phase = "record"
  /\ pending' = (Owed \/ (pending /\ ~Settled))
  /\ version' = IF update.kept \/ update.refused # {} \/ Owed THEN version ELSE clone
  /\ hold' = "none" /\ update' = NoUpdate
  /\ UNCHANGED <<clone, tree, daemon, edits>>

(* The script ends before its records.                                           *)
Abandoned ==
  /\ update.phase # "none" /\ update' = NoUpdate /\ abandoned' = TRUE
  /\ UNCHANGED <<clone, files, pending, alive, behind, loop, marker, inflight, edits>>
ScriptKilled == "killed" \in UpdateFaults /\ Abandoned /\ UNCHANGED hold
ScriptRaised == "raised" \in UpdateFaults /\ Abandoned /\ hold' = "none"

UpdateNext ==
  \/ Starts \/ Ends \/ HoldSeen \/ RoundMarked \/ Dispatches \/ ExecutionEnds \/ RoundOver
  \/ MarkerAges \/ HoldAges \/ Released \/ \E f \in ToSet(Files) : Edited(f)
  \/ \E allow \in SUBSET ToSet(Files) : Begins(allow)
  \/ Stops \/ Copies \/ Copied \/ LooksAtInflight \/ LooksAtMarker \/ Waits \/ Decides \/ Restarts
  \/ Records \/ ScriptKilled \/ ScriptRaised

UpdateSpec == UpdateInit /\ [][UpdateNext]_updateVars
-----------------------------------------------------------------------------
(* A restart is never due while the reconciler is inside a round or an execution *)
(* of it runs: the hold stops new rounds, and what began before it is waited     *)
(* for.                                                                          *)
NoOrderCut == update.phase = "restart" /\ alive => loop # "round" /\ ~inflight

(* Between updates, a reconciler that runs code an update has replaced since is  *)
(* written down as owed a restart, whatever was busy, refused or failed; an      *)
(* update that ended before its records is what the next property is about.      *)
RestartOwed == update.phase = "none" /\ alive /\ behind # {} => pending \/ abandoned

(* The promise of the script for that case: the next update restarts, also when  *)
(* the previous one never finished.  It does not when the code was copied and a  *)
(* file after it was not, or when the user keeps a file.                         *)
UnfinishedRestarts ==
  update.phase = "none" /\ alive /\ behind # {} => NeedsRestart(ChangedHere)
=============================================================================
