----------------------------- MODULE TurnSlots -----------------------------
(***************************************************************************)
(* The machine's budget of agent turns (runtime/turn_slots.py): slot files *)
(* that several bridge processes create with O_EXCL, keep fresh while      *)
(* their turn runs, and reclaim when nobody has touched them for STALE_S.  *)
(* A slot is `free' (no file), `fresh' or `stale'.                         *)
(***************************************************************************)
EXTENDS Naturals, FiniteSets

CONSTANTS
  Bridges,      \* the processes that start turns
  Turns,        \* the turns that may run at once, one per conversation
  BridgeOf,     \* the bridge a turn belongs to
  MaxTurns,     \* turn_limits.json: the cap of the plan
  SlotFaults    \* slow_reclaim: two bridges may reclaim one stale slot at once

ASSUME TurnSlotsAssumption ==
  /\ IsFiniteSet(Turns) /\ Turns # {}
  /\ BridgeOf \in [Turns -> Bridges]
  /\ MaxTurns \in Nat \ {0}
  /\ SlotFaults \subseteq {"slow_reclaim"}

VARIABLES
  slot,         \* the slot files
  held,         \* the slot each running turn holds
  scan          \* where each bridge is in acquire()

slotVars == <<slot, held, scan>>

SlotIds == 0 .. MaxTurns - 1
NoSlot  == MaxTurns

SlotTypeOK ==
  /\ slot \in [SlotIds -> {"free", "fresh", "stale"}]
  /\ held \in [Turns -> SlotIds \cup {NoSlot}]
  /\ scan \in [Bridges -> [at : {"off", "look", "unlink", "create"},
                           slot : SlotIds, turn : Turns]]

NotScanning == [at |-> "off", slot |-> 0, turn |-> CHOOSE t \in Turns : TRUE]

SlotInit ==
  /\ slot = [i \in SlotIds |-> "free"]
  /\ held = [t \in Turns |-> NoSlot]
  /\ scan = [b \in Bridges |-> NotScanning]

Scanning(b) == scan[b].at # "off"
At(b, step) == scan' = [scan EXCEPT ![b].at = step]
StopScan(b) == scan' = [scan EXCEPT ![b] = NotScanning]

\* running_count(): stale files do not count.
Running == {i \in SlotIds : slot[i] = "fresh"}

Acquire(b, t) ==
  /\ ~Scanning(b) /\ held[t] = NoSlot /\ BridgeOf[t] = b
  /\ Cardinality(Running) < MaxTurns
  /\ scan' = [scan EXCEPT ![b] = [at |-> "look", slot |-> 0, turn |-> t]]
  /\ UNCHANGED <<slot, held>>

\* The cap is reached, or memory is low and a turn runs already: None.
Refused == Running # {}

\* exists and _is_stale, asked before the file is touched.
Look(b) ==
  /\ scan[b].at = "look"
  /\ \/ "slow_reclaim" \in SlotFaults
     \/ \A c \in Bridges \ {b} : scan[c].at # "unlink" \/ scan[c].slot # scan[b].slot
  /\ At(b, IF slot[scan[b].slot] = "stale" THEN "unlink" ELSE "create")
  /\ UNCHANGED <<slot, held>>

Unlink(b) ==
  /\ scan[b].at = "unlink"
  /\ slot' = [slot EXCEPT ![scan[b].slot] = "free"]
  /\ At(b, "create")
  /\ UNCHANGED held

\* Mutant: the file is opened without O_EXCL.
CreateShared(b) ==
  /\ scan[b].at = "create"
  /\ slot' = [slot EXCEPT ![scan[b].slot] = "fresh"]
  /\ held' = [held EXCEPT ![scan[b].turn] = scan[b].slot]
  /\ StopScan(b)

\* O_CREAT | O_EXCL.
Create(b) ==
  /\ scan[b].at = "create" /\ slot[scan[b].slot] = "free"
  /\ slot' = [slot EXCEPT ![scan[b].slot] = "fresh"]
  /\ held' = [held EXCEPT ![scan[b].turn] = scan[b].slot]
  /\ StopScan(b)

\* FileExistsError: the next number, or None after the last one.
CreateFails(b) ==
  LET next == scan[b].slot + 1 IN
  /\ scan[b].at = "create" /\ slot[scan[b].slot] # "free"
  /\ scan' = IF next \in SlotIds
             THEN [scan EXCEPT ![b].at = "look", ![b].slot = next]
             ELSE [scan EXCEPT ![b] = NotScanning]
  /\ UNCHANGED <<slot, held>>

Release(t) ==
  /\ held[t] # NoSlot
  /\ slot' = [slot EXCEPT ![held[t]] = "free"]
  /\ held' = [held EXCEPT ![t] = NoSlot]
  /\ UNCHANGED scan

\* A bridge dies with its turns; its files stay.
BridgeDies(b) ==
  /\ held' = [t \in Turns |-> IF BridgeOf[t] = b THEN NoSlot ELSE held[t]]
  /\ StopScan(b)
  /\ UNCHANGED slot

\* keep_fresh touches every slot of a running turn; only the others age.
GoStale(i) ==
  /\ slot[i] = "fresh" /\ \A t \in Turns : held[t] # i
  /\ slot' = [slot EXCEPT ![i] = "stale"]
  /\ UNCHANGED <<held, scan>>

Scan(b) == Look(b) \/ Unlink(b) \/ Create(b) \/ CreateFails(b)

SlotNext ==
  \/ \E b \in Bridges : Scan(b) \/ BridgeDies(b) \/ \E t \in Turns : Acquire(b, t)
  \/ \E t \in Turns : Release(t)
  \/ \E i \in SlotIds : GoStale(i)

SlotSpec == SlotInit /\ [][SlotNext]_slotVars

-----------------------------------------------------------------------------
\* No more turns run at once than the plan allows, whichever bridges start them
\* and whatever dead bridges left behind (turn_slots.py 8-11).
TurnsInBudget == Cardinality({t \in Turns : held[t] # NoSlot}) <= MaxTurns

\* A turn that runs has its file, so the other bridges count it and leave it alone.
HeldIsFresh == \A t \in Turns : held[t] # NoSlot => slot[held[t]] = "fresh"
=============================================================================
