---------------------------- MODULE MachineStart ----------------------------
(* Which reconciler runs, and whether it may trade: the boot check of the        *)
(* listener (runtime/command_listener.py _judge_boot, _stop_after_restart), the  *)
(* user's start (_start_after_restart_stop, _ensure_reconciler_running), the web *)
(* page's follow-up restart_reconciler, an unbind, and a close-all with its      *)
(* one-time pass (lib/guard.py claim_close_all_pass) while the machine is        *)
(* stopped.  A reconciler runs under the systemd unit, under tmux or by hand;    *)
(* "old" is one from before the restart gate and the singleton lock.             *)
EXTENDS Integers, FiniteSets

CONSTANTS
  Setups,         \* what controls the unit: subset of {"unit", "no_unit", "no_sudo"}
  MaxBoots,       \* reboots
  MaxPresses,     \* start, restart, close-all and unbind commands
  MaxByHand,      \* reconcilers and close-alls run by hand
  MaxClosers,     \* close-all processes launched
  StartFaults     \* subset of AllStartFaults

(* unrecorded:    the stop record cannot be written                               *)
(* tmux_survives: tmux kill-session fails when a start clears the way              *)
(* unreadable:    the process list cannot be read                                 *)
(* stray:         a reconciler run by hand is there when trading is to be stopped *)
(* just_died:     a reconciler ended less than 15 s before a start                 *)
(* soon_again:    the listener restarts in the first minute after the boot         *)
AllStartFaults ==
  {"unrecorded", "tmux_survives", "unreadable", "stray", "just_died", "soon_again"}

ASSUME StartAssumption ==
  /\ Setups \subseteq {"unit", "no_unit", "no_sudo"}
  /\ {MaxBoots, MaxPresses, MaxByHand, MaxClosers} \subseteq Nat
  /\ StartFaults \subseteq AllStartFaults

Places == {"unit", "tmux", "hand"}
Supervised == {"unit", "tmux"}

VARIABLES
  setup,     \* this machine's supervisor
  installed,      \* manager/reconciler.py on disk: "old" or "new"
  proc,      \* the reconciler of each place: "off", "old", "new"
  lock,      \* who holds the singleton lock: a place or "free"
  beat,      \* heartbeat: age, whether it is later than the stop, marked by a gated version
  boot,      \* "known", "unjudged", "record", "kill" (the boot check's steps), "unknown"
  stamped,   \* the downtime watch has written its stamp later than a minute after this boot
  record,    \* state/reconciler_stopped.json: "none", "detected", "stopped"
  haltFile, marked,  \* state/HALT; reconciler_stop_mark is later than the heartbeat
  pass,      \* state/close_all_pass.json: "none", "fresh", "stale"
  closers,   \* close-all processes: how many are launched, closing, and had a pass
  inHand,    \* the command in hand: "idle", "start", "restart", "clear"
  follow,    \* _resume_started_at is less than RESUME_START_DEDUPE_S old
  ack,       \* what the last start answered: "none", "running", "stray", "started", "failed"
  past,      \* what happened: [stopped, pressed, reported, asked, granted]
  left       \* boots, presses and hand runs left

machineVars == <<setup, installed, proc, lock, beat, boot, stamped, record, haltFile, marked, pass, closers,
                 inHand, follow, ack, past, left>>
machine == <<setup, installed>>
procs   == <<proc, lock>>
stop    == <<boot, stamped, record>>
closing == <<pass, closers>>
start   == <<inHand, follow, ack>>

Runs(p)     == proc[p] # "off"
CanTrade(p) == proc[p] = "old" \/ (proc[p] = "new" /\ lock = p /\ record = "none")
NoBeat      == [age |-> "none", later |-> FALSE, gated |-> FALSE]

MachineInit ==
  /\ setup \in Setups /\ installed \in {"old", "new"}
  /\ proc = [p \in Places |-> "off"] /\ lock = "free"
  /\ beat = NoBeat /\ boot = "known" /\ stamped = TRUE /\ record = "none"
  /\ haltFile = FALSE /\ marked = FALSE /\ pass = "none"
  /\ closers = [launched |-> 0, closes |-> FALSE, granted |-> FALSE]
  /\ inHand = "idle" /\ follow = FALSE /\ ack = "none"
  /\ past = [stopped |-> FALSE, pressed |-> FALSE, reported |-> FALSE,
                asked |-> 0, granted |-> 0]
  /\ left = [boots |-> MaxBoots, presses |-> MaxPresses, hands |-> MaxByHand]

(* The processes after new ones came up: a gated version waits for the lock.     *)
Lock(new) ==
  IF lock # "free" /\ new[lock] = "new" THEN {lock}
  ELSE LET able == {p \in Places : new[p] = "new"} IN IF able = {} THEN {"free"} ELSE able
Becomes(new) == proc' = new /\ lock' \in Lock(new)
(* The heartbeat of one that ended, by the time anybody reads it.                *)
Faded == IF "just_died" \in StartFaults \/ beat.age # "fresh" THEN beat
         ELSE [beat EXCEPT !.age = "late"]

-----------------------------------------------------------------------------
(* The reconcilers.                                                              *)

(* Every round, gated or not, touches the heartbeat first; the gated version     *)
(* also its marker.  One that waits for the lock never gets that far.            *)
Beats(p) ==
  /\ proc[p] = "old" \/ (proc[p] = "new" /\ lock = p)
  /\ beat' = [age |-> "fresh", later |-> TRUE, gated |-> proc[p] = "new"]
  /\ marked' = FALSE
  /\ UNCHANGED <<machine, procs, stop, haltFile, closing, start, past, left>>

(* Time: a heartbeat grows old, past 15 s while a round is long, past 300 s only *)
(* when nothing runs; the dedupe window, the pass and the first minute pass.     *)
BeatAges ==
  /\ \/ beat.age = "fresh" /\ beat' = [beat EXCEPT !.age = "late"]
     \/ beat.age = "late" /\ (\A p \in Places : ~Runs(p)) /\ beat' = [beat EXCEPT !.age = "dead"]
  /\ UNCHANGED <<machine, procs, stop, haltFile, marked, closing, start, past, left>>
FollowEnds ==
  /\ follow /\ follow' = FALSE
  /\ UNCHANGED <<machine, procs, beat, stop, haltFile, marked, closing, inHand, ack, past, left>>
PassExpires ==
  /\ pass = "fresh" /\ pass' = "stale"
  /\ UNCHANGED <<machine, procs, beat, stop, haltFile, marked, closers, start, past, left>>
Stamps ==
  /\ boot \in {"known", "unknown"} /\ ~stamped /\ stamped' = TRUE
  /\ UNCHANGED <<machine, procs, beat, boot, record, haltFile, marked, closing, start, past, left>>

(* Someone runs manager/reconciler.py by hand, and it ends again.                *)
HandRuns ==
  /\ left.hands > 0 /\ ~Runs("hand") /\ left' = [left EXCEPT !.hands = @ - 1]
  /\ \A p \in Places : proc[p] # "old"
  /\ installed = "old" => inHand = "idle" /\ \A p \in Places : ~Runs(p)
  /\ installed = "new" => lock = "free"     \* it would exit on the lock
  /\ Becomes([proc EXCEPT !["hand"] = installed])
  /\ UNCHANGED <<machine, beat, stop, haltFile, marked, closing, start, past>>
HandEnds ==
  /\ Runs("hand") /\ inHand = "idle"
  /\ Becomes([proc EXCEPT !["hand"] = "off"])
  /\ beat' = Faded /\ ack' = "none"
  /\ UNCHANGED <<machine, stop, haltFile, marked, closing, inHand, follow, past, left>>

(* The workspace update replaces the file; a running process keeps the old code. *)
Updated ==
  /\ installed = "old" /\ installed' = "new"
  /\ UNCHANGED <<setup, procs, beat, stop, haltFile, marked, closing, start, past, left>>

(* The release channel brings the unit file and the sudo rule.                   *)
UnitArrives ==
  /\ setup # "unit" /\ setup' = "unit"
  /\ UNCHANGED <<installed, procs, beat, stop, haltFile, marked, closing, start, past, left>>

-----------------------------------------------------------------------------
(* A reboot and the boot check, which runs before the listener polls.            *)

(* Everything dies; a legacy autostart may bring the reconciler up before the    *)
(* listener runs.  HALT and the records are files and stay.                      *)
Reboot ==
  /\ left.boots > 0 /\ left' = [left EXCEPT !.boots = @ - 1]
  /\ \E up \in {{}, IF setup = "no_unit" THEN {} ELSE {"unit"}} :
       proc' = [p \in Places |-> IF p \in up THEN installed ELSE "off"]
  /\ lock' = IF proc'["unit"] = "new" THEN "unit" ELSE "free"
  /\ past' = [past EXCEPT !.stopped = beat.age \in {"fresh", "late"}, !.pressed = FALSE,
                                !.reported = FALSE]
  /\ boot' = "unjudged" /\ stamped' = FALSE
  /\ pass' = IF pass = "none" THEN "none" ELSE "stale"
  /\ closers' = [launched |-> 0, closes |-> FALSE, granted |-> FALSE]
  /\ inHand' = "idle" /\ follow' = FALSE /\ ack' = "none"
  /\ beat' = [beat EXCEPT !.gated = FALSE, !.later = FALSE]
  /\ UNCHANGED <<machine, record, haltFile, marked>>

(* The listener alone restarts (an update of the runtime): its memory is gone,   *)
(* and an unrecorded boot is judged again.                                       *)
ListenerRestarts ==
  /\ left.boots > 0 /\ left' = [left EXCEPT !.boots = @ - 1]
  /\ boot \in {"known", "unknown"} /\ ("soon_again" \in StartFaults \/ stamped)
  /\ boot' = IF boot = "known" THEN "known" ELSE "unjudged"
  /\ inHand' = "idle" /\ follow' = FALSE /\ ack' = "none"
  /\ UNCHANGED <<machine, procs, beat, stamped, record, haltFile, marked, closing, past>>

(* _judge_boot: the boot is written down whatever happens (or that write fails   *)
(* too); a runtime that already ran on this boot stops nothing.                  *)
BootJudged == boot' \in {"known", "unknown"}

AlreadyRan ==
  /\ boot = "unjudged" /\ stamped /\ BootJudged
  /\ UNCHANGED <<machine, procs, beat, stamped, record, haltFile, marked, closing, start, past, left>>

(* The stop relies on the kill and writes no record before it.                   *)
StopUnrecorded ==
  /\ boot = "unjudged" /\ ~stamped /\ boot' = "kill"
  /\ beat' = [beat EXCEPT !.later = FALSE]
  /\ UNCHANGED <<machine, procs, stamped, record, haltFile, marked, closing, start, past, left>>

(* _stop_after_restart: the record goes down first, when the heartbeat was alive *)
(* as the machine went down.                                                     *)
StopRecorded ==
  /\ boot = "unjudged" /\ ~stamped
  /\ \/ record' = IF past.stopped THEN "detected" ELSE record
     \/ "unrecorded" \in StartFaults /\ record' = record
  /\ beat' = [beat EXCEPT !.later = FALSE]
  /\ boot' = "kill"
  /\ UNCHANGED <<machine, procs, stamped, haltFile, marked, closing, start, past, left>>

(* _stop_reconciler: the unit, then tmux; by hand is neither.                    *)
Stoppable == setup # "no_sudo" \/ ~Runs("unit")
StopKills ==
  /\ boot = "kill" /\ BootJudged
  /\ \/ /\ Stoppable
        /\ Becomes([proc EXCEPT !["unit"] = "off", !["tmux"] = "off"])
        /\ record' = IF record = "detected" THEN "stopped" ELSE record
        /\ beat' = IF record = "detected" THEN [Faded EXCEPT !.later = FALSE] ELSE Faded
        /\ UNCHANGED past
     \/ /\ \E p \in Supervised : Runs(p)
        /\ past' = [past EXCEPT !.reported = TRUE]
        /\ UNCHANGED <<procs, record, beat>>
  /\ UNCHANGED <<machine, stamped, haltFile, marked, closing, start, left>>

-----------------------------------------------------------------------------
(* The commands.                                                                 *)

Press == inHand = "idle" /\ boot \in {"known", "unknown"} /\ left.presses > 0
         /\ left' = [left EXCEPT !.presses = @ - 1]

StraysIgnored == {}
Strays == IF "unreadable" \in StartFaults THEN {} ELSE {p \in {"hand"} : Runs(p)}

(* _restart_reconciler: tmux is cleared first in every setup; a unit that runs   *)
(* and cannot be controlled is an error, one that does not run falls back to     *)
(* tmux.                                                                         *)
Way ==
  IF setup = "unit" THEN "unit"
  ELSE IF setup = "no_sudo" /\ Runs("unit") THEN "error" ELSE "tmux"
Cleared == IF "tmux_survives" \in StartFaults /\ Way # "tmux"
           THEN {proc["tmux"], "off"} ELSE {"off"}
RestartDone == Way # "error" /\ beat' = beat /\ \E t \in Cleared :
  Becomes(IF Way = "unit" THEN [proc EXCEPT !["unit"] = installed, !["tmux"] = t]
          ELSE [proc EXCEPT !["tmux"] = installed])
RestartFails ==
  beat' = Faded /\ Becomes([proc EXCEPT !["tmux"] = IF Way = "tmux" THEN "off" ELSE @])

(* resume with a stop record, one at a time with the boot's listener: a fresh    *)
(* heartbeat later than the stop, or a stray, is un-gated by taking the record    *)
(* away; anything else is started first.                                         *)
StartAfterStop ==
  /\ Press /\ record # "none" /\ haltFile' = FALSE
  /\ past' = [past EXCEPT !.pressed = TRUE]
  /\ IF beat.age = "fresh" /\ beat.later THEN inHand' = "clear" /\ ack' = "running"
     ELSE IF Strays # {} THEN inHand' = "clear" /\ ack' = "stray"
     ELSE inHand' = "restart" /\ ack' = "none"
  /\ UNCHANGED <<machine, procs, beat, stop, marked, closing, follow>>

StartRestarts ==
  /\ inHand = "restart"
  /\ \/ RestartDone /\ inHand' = "clear" /\ ack' = "started"
     \/ RestartFails /\ inHand' = "idle" /\ ack' = "failed"
  /\ UNCHANGED <<machine, stop, haltFile, marked, closing, follow, past, left>>

StartClears ==
  /\ inHand = "clear" /\ inHand' = "idle"
  /\ \/ record' = "none" /\ follow' = TRUE /\ ack' = ack
     \/ record' = record /\ follow' = follow /\ ack' = "failed"
  /\ UNCHANGED <<machine, procs, beat, boot, stamped, haltFile, marked, closing, past, left>>

(* resume without one: _ensure_reconciler_running.                               *)
AliveByBeat ==
  IF beat.age \in {"none", "dead"} THEN FALSE
  ELSE beat.age = "fresh" \/ \E p \in Supervised : Runs(p)
Alive ==
  IF marked \/ beat.age \in {"none", "dead"} THEN FALSE
  ELSE beat.age = "fresh" \/ \E p \in Supervised : Runs(p)
Ensure ==
  /\ Press /\ record = "none" /\ haltFile' = FALSE
  /\ past' = [past EXCEPT !.pressed = TRUE]
  /\ \/ Alive /\ ack' = "running" /\ follow' = TRUE /\ UNCHANGED <<procs, beat>>
     \/ ~Alive /\ Strays # {} /\ ack' = "stray" /\ follow' = TRUE /\ UNCHANGED <<procs, beat>>
     \/ ~Alive /\ Strays = {} /\ RestartDone /\ ack' = "started" /\ follow' = TRUE
     \/ ~Alive /\ Strays = {} /\ RestartFails /\ ack' = "failed" /\ follow' = follow
  /\ UNCHANGED <<machine, stop, marked, closing, inHand>>

(* restart_reconciler, the page's follow-up or a press in the settings.          *)
FollowUp ==
  /\ Press /\ inHand' = inHand /\ ack' = "none"
  /\ \/ follow /\ follow' = FALSE /\ UNCHANGED <<procs, beat>>
     \/ ~follow /\ (record # "none" \/ Strays # {}) /\ UNCHANGED <<follow, procs, beat>>
     \/ ~follow /\ record = "none" /\ Strays = {} /\ follow' = follow
        /\ (RestartDone \/ RestartFails)
  /\ UNCHANGED <<machine, stop, haltFile, marked, closing, past>>

(* credentials_remove, full unbind: membership is cleared only once no daemon    *)
(* watches it.                                                                   *)
Unbind ==
  /\ Press /\ ("stray" \in StartFaults \/ ~Runs("hand"))
  /\ haltFile' = TRUE /\ ack' = "none"
  /\ \/ /\ Stoppable
        /\ Becomes([proc EXCEPT !["unit"] = "off", !["tmux"] = "off"])
        /\ marked' = (beat.age # "none") /\ follow' = FALSE
        /\ beat' = IF record = "none" THEN beat ELSE Faded   \* only Ensure reads the mark
     \/ (\E p \in Supervised : Runs(p)) /\ UNCHANGED <<procs, marked, beat, follow>>
  /\ UNCHANGED <<machine, stop, closing, inHand, past>>

(* Does the reconciler honour the record?  A running one must have proved it; of  *)
(* a stopped one the file on disk decides.                                       *)
Gated ==
  IF beat.age \in {"fresh", "late"} /\ beat.later THEN beat.gated ELSE installed = "new"

(* close_all: no HALT while the record holds everything back; the close-all it   *)
(* launches gets a pass.                                                         *)
CloseAll ==
  /\ Press /\ closers.launched < MaxClosers
  /\ haltFile' = (haltFile \/ record = "none" \/ ~Gated)
  /\ IF closers.closes THEN UNCHANGED <<closing, past>>
     ELSE /\ pass' = IF record # "none" THEN "fresh" ELSE pass
          /\ closers' = [closers EXCEPT !.launched = @ + 1]
          /\ past' = [past EXCEPT !.asked = @ + 1]
  /\ ack' = "none"
  /\ UNCHANGED <<machine, procs, beat, stop, marked, inHand, follow>>

ClosesByHand ==
  /\ left.hands > 0 /\ left' = [left EXCEPT !.hands = @ - 1]
  /\ closers.launched < MaxClosers /\ closers' = [closers EXCEPT !.launched = @ + 1]
  /\ UNCHANGED <<machine, procs, beat, stop, haltFile, marked, pass, start, past>>

(* flatten(): one at a time; during a stop only with the pass, else behind HALT. *)
CloserStarts ==
  /\ closers.launched > 0 /\ ~closers.closes
  /\ \/ /\ record # "none" /\ pass # "none" /\ pass' = "none"
        /\ closers' = [launched |-> closers.launched - 1, closes |-> pass = "fresh",
                       granted |-> pass = "fresh"]
        /\ past' = [past EXCEPT !.granted = IF pass = "fresh" THEN @ + 1 ELSE @]
        /\ haltFile' = haltFile
     \/ /\ record # "none" /\ pass = "none"
        /\ closers' = [closers EXCEPT !.launched = @ - 1]
        /\ UNCHANGED <<pass, haltFile, past>>
     \/ /\ record = "none" /\ haltFile' = TRUE
        /\ closers' = [launched |-> closers.launched - 1, closes |-> TRUE, granted |-> FALSE]
        /\ UNCHANGED <<pass, past>>
  /\ UNCHANGED <<machine, procs, beat, stop, marked, start, left>>

CloserRefused ==
  /\ closers.launched > 0 /\ closers.closes /\ closers' = [closers EXCEPT !.launched = @ - 1]
  /\ UNCHANGED <<machine, procs, beat, stop, haltFile, marked, pass, start, past, left>>
CloserEnds ==
  /\ closers.closes /\ closers' = [closers EXCEPT !.closes = FALSE, !.granted = FALSE]
  /\ UNCHANGED <<machine, procs, beat, stop, haltFile, marked, pass, start, past, left>>

MachineNext ==
  \/ (\E p \in Places : Beats(p)) \/ BeatAges \/ FollowEnds \/ PassExpires \/ Stamps
  \/ HandRuns \/ HandEnds \/ Updated \/ UnitArrives
  \/ Reboot \/ ListenerRestarts \/ AlreadyRan \/ StopRecorded \/ StopKills
  \/ StartAfterStop \/ StartRestarts \/ StartClears \/ Ensure \/ FollowUp \/ Unbind
  \/ CloseAll \/ ClosesByHand \/ CloserStarts \/ CloserRefused \/ CloserEnds

MachineSpec == MachineInit /\ [][MachineNext]_machineVars

-----------------------------------------------------------------------------
(* A machine that rebooted while trading stays stopped until the user presses     *)
(* start: once the boot check is done, no reconciler may trade, or the platform   *)
(* was told that one could not be stopped; and a close-all that sells meanwhile   *)
(* was asked for (command_listener.py:1975-1988).                                 *)
StoppedUntilStart ==
  /\ boot \in {"known", "unknown"} /\ past.stopped /\ ~past.pressed
       => record # "none" /\ (past.reported \/ \A p \in Places \ {"hand"} : ~CanTrade(p))
  /\ past.granted <= past.asked

(* Two reconcilers never trade the same book: not after a start over a survivor   *)
(* of the boot, not after a follow-up restart, not beside one run by hand         *)
(* (command_listener.py:2386-2397).                                               *)
OneTrades == Cardinality({p \in Places : CanTrade(p)}) <= 1

(* A start that was answered as done leaves a reconciler that may trade, not a    *)
(* stopped one or one behind the stop record (command_listener.py:2166-2168,      *)
(* 2405-2410).                                                                    *)
StartTrades ==
  inHand = "idle" /\ ack \in {"running", "stray", "started"} => \E p \in Places : CanTrade(p)
=============================================================================
