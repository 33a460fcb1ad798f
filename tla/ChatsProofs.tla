----------------------------- MODULE ChatsProofs -----------------------------
(* Proofs about the turns of the bridges and the pairing of the Telegram bot.   *)
(* For any number of bridges, turns and slots: as long as no two bridges reclaim *)
(* one stale slot at the same time, a slot file has one owner, and the turns     *)
(* that run are no more than the slots there are (TurnSlots), with the restarts  *)
(* and stops of the web bridge, too (WebTurns).  For any number of               *)
(* commands and any times: what a stop kills, keeps and names (TurnStop).  For   *)
(* any messages, sessions, crashes and lost calls: a message of the web has one  *)
(* turn, in its order, and a stop reaches its own turn (WebTurns).  For any bots, *)
(* links and messages: which chat talks to the machine, and once a message       *)
(* (TelegramPairing).                                                            *)
EXTENDS WebTurns, TurnStop, TelegramPairing, FiniteSetTheorems, TLAPS

-----------------------------------------------------------------------------
(* The slots.                                                                  *)

\* Two turns never share a slot file.
OneOwner == \A t, u \in Turns : held[t] # NoSlot /\ held[t] = held[u] => t = u

\* A bridge about to unlink a file is alone in that, and the file is still stale.
ReclaimIsSafe ==
  /\ \A b \in Bridges : scan[b].at = "unlink" => slot[scan[b].slot] = "stale"
  /\ \A b, c \in Bridges :
       scan[b].at = "unlink" /\ scan[c].at = "unlink" /\ scan[b].slot = scan[c].slot
         => b = c

SlotIInv == SlotTypeOK /\ HeldIsFresh /\ OneOwner /\ ReclaimIsSafe

LEMMA SlotIdsFacts ==
  /\ 0 \in SlotIds /\ NoSlot \notin SlotIds
  /\ IsFiniteSet(SlotIds) /\ Cardinality(SlotIds) = MaxTurns
<1> MaxTurns \in Nat /\ MaxTurns > 0
  BY TurnSlotsAssumption
<1>1. 0 \in SlotIds /\ NoSlot \notin SlotIds
  BY DEF SlotIds, NoSlot
<1>2. IsFiniteSet(SlotIds) /\ Cardinality(SlotIds) = MaxTurns
  BY FS_Interval DEF SlotIds
<1> QED  BY <1>1, <1>2

LEMMA NotScanningType ==
  NotScanning \in [at : {"off", "look", "unlink", "create"}, slot : SlotIds,
                   turn : Turns]
<1>1. (CHOOSE t \in Turns : TRUE) \in Turns
  BY TurnSlotsAssumption
<1> QED  BY <1>1, SlotIdsFacts DEF NotScanning

LEMMA SlotInitOK == SlotInit => SlotIInv
<1> SUFFICES ASSUME SlotInit PROVE SlotIInv
  OBVIOUS
<1>1. SlotTypeOK
  BY NotScanningType DEF SlotInit, SlotTypeOK
<1>2. HeldIsFresh /\ OneOwner
  BY DEF SlotInit, HeldIsFresh, OneOwner
<1>3. ReclaimIsSafe
  BY DEF SlotInit, ReclaimIsSafe, NotScanning
<1> QED  BY <1>1, <1>2, <1>3 DEF SlotIInv

LEMMA SlotStep ==
  ASSUME SlotFaults = {}, SlotIInv, [SlotNext]_slotVars
  PROVE  SlotIInv'
<1> USE SlotIdsFacts, TurnSlotsAssumption DEF SlotIInv, SlotTypeOK, HeldIsFresh, OneOwner, ReclaimIsSafe
<1>1. ASSUME NEW b \in Bridges, NEW t \in Turns, Acquire(b, t)
      PROVE  SlotIInv'
  BY <1>1 DEF Acquire, Scanning
<1>2. ASSUME NEW b \in Bridges, Look(b)
      PROVE  SlotIInv'
  <2>1. scan' = [scan EXCEPT ![b].at =
                   IF slot[scan[b].slot] = "stale" THEN "unlink" ELSE "create"]
    BY <1>2 DEF Look, At
  <2>2. slot' = slot /\ held' = held
    BY <1>2 DEF Look
  <2>3. SlotTypeOK' /\ HeldIsFresh' /\ OneOwner'
    BY <2>1, <2>2
  <2>4. ReclaimIsSafe'
    BY <1>2, <2>1, <2>2 DEF Look
  <2> QED  BY <2>3, <2>4
<1>3. ASSUME NEW b \in Bridges, Unlink(b)
      PROVE  SlotIInv'
  BY <1>3 DEF Unlink, At
<1>4. ASSUME NEW b \in Bridges, Create(b)
      PROVE  SlotIInv'
  <2>1. /\ scan' = [scan EXCEPT ![b] = NotScanning]
        /\ slot' = [slot EXCEPT ![scan[b].slot] = "fresh"]
        /\ held' = [held EXCEPT ![scan[b].turn] = scan[b].slot]
        /\ slot[scan[b].slot] = "free"
    BY <1>4 DEF Create, StopScan
  <2>2. SlotTypeOK'
    BY <2>1, NotScanningType
  <2>3. HeldIsFresh' /\ OneOwner'
    BY <2>1
  <2>4. ReclaimIsSafe'
    BY <2>1 DEF NotScanning
  <2> QED  BY <2>2, <2>3, <2>4
<1>5. ASSUME NEW b \in Bridges, CreateFails(b)
      PROVE  SlotIInv'
  <2>1. SlotTypeOK'
    BY <1>5, NotScanningType DEF CreateFails
  <2>2. HeldIsFresh' /\ OneOwner' /\ ReclaimIsSafe'
    BY <1>5 DEF CreateFails, NotScanning
  <2> QED  BY <2>1, <2>2
<1>6. ASSUME NEW t \in Turns, Release(t)
      PROVE  SlotIInv'
  BY <1>6 DEF Release
<1>7. ASSUME NEW b \in Bridges, BridgeDies(b)
      PROVE  SlotIInv'
  BY <1>7, NotScanningType DEF BridgeDies, StopScan, NotScanning
<1>8. ASSUME NEW i \in SlotIds, GoStale(i)
      PROVE  SlotIInv'
  BY <1>8 DEF GoStale
<1>9. CASE UNCHANGED slotVars
  BY <1>9 DEF slotVars
<1> QED  BY <1>1, <1>2, <1>3, <1>4, <1>5, <1>6, <1>7, <1>8, <1>9 DEF SlotNext, Scan

\* The slots are pigeonholes for the turns.
LEMMA OwnersAreFew == SlotIInv => TurnsInBudget
<1> SUFFICES ASSUME SlotIInv PROVE TurnsInBudget
  OBVIOUS
<1> DEFINE Holders == {t \in Turns : held[t] # NoSlot}
           f == [t \in Holders |-> held[t]]
<1>1. f \in Injection(Holders, SlotIds)
  BY DEF Injection, SlotIInv, SlotTypeOK, OneOwner, IsInjective
<1>2. Cardinality(Holders) <= Cardinality(SlotIds)
  BY <1>1, SlotIdsFacts, FS_Injection
<1> QED  BY <1>2, SlotIdsFacts DEF TurnsInBudget

\* A turn that runs has its slot file, fresh, so the other bridges count it and
\* leave it alone (keep_fresh, acquire).
THEOREM HeldStaysFresh == ASSUME SlotFaults = {} PROVE SlotSpec => []HeldIsFresh
<1>1. SlotIInv /\ [SlotNext]_slotVars => SlotIInv'
  BY SlotStep
<1>2. SlotIInv => HeldIsFresh
  BY DEF SlotIInv
<1> QED  BY SlotInitOK, <1>1, <1>2, PTL DEF SlotSpec

\* The machine never runs more turns than the plan allows, whichever bridges
\* start them and whatever dead ones left behind (acquire).
THEOREM BudgetKept == ASSUME SlotFaults = {} PROVE SlotSpec => []TurnsInBudget
<1>1. SlotIInv /\ [SlotNext]_slotVars => SlotIInv'
  BY SlotStep
<1> QED  BY SlotInitOK, <1>1, OwnersAreFew, PTL DEF SlotSpec

-----------------------------------------------------------------------------
(* The stop.                                                                   *)

\* What a dead engine left running moves money, and the reply will name it.
LeftIsNamed ==
  turn # "killed" /\ ~engine =>
    \A t \in Tools : Runs(t) /\ tool[t].kind # "detached" => Money(t) /\ t \in left \cup gaveUp

\* Codex is held for commands that move money, and given up only with their names.
HoldIsNamed ==
  /\ ~codex \/ turn = "spawn" => holding = 0
  /\ holding # HoldMax => gaveUp = {}
  /\ codex /\ engine /\ holding = HoldMax => gaveUp # {} /\ AtStake \subseteq gaveUp

\* Where the engine is, and how long the shell has heard nothing.
EngineInv ==
  /\ turn = "spawn" => ~engine
  /\ turn = "ending" /\ engine => interrupted /\ ~codex
  /\ turn = "over" => ~engine
  /\ turn \in {"spawn", "stream"} => quiet <= waited

StopIInv == StopTypeOK /\ LeftIsNamed /\ HoldIsNamed /\ EngineInv /\ cut \subseteq gaveUp

LEMMA StopStart == StopInit => StopIInv
<1> SUFFICES ASSUME StopInit PROVE StopIInv
  OBVIOUS
<1>1. NoTool \in [kind : Kinds, at : {"off", "runs", "marked", "done", "killed", "loose"}] /\ NoTool.at = "off"
  BY DEF NoTool, Kinds
<1>2. StopTypeOK
  <2>1. holding \in 0..HoldMax /\ waited \in 0..CancelAfter /\ quiet \in 0..ShellAfter
    BY StopAssumption DEF StopInit
  <2>2. tool \in [Tools -> [kind : Kinds, at : {"off", "runs", "marked", "done", "killed", "loose"}]]
    BY <1>1 DEF StopInit
  <2> QED  BY <2>1, <2>2 DEF StopInit, StopTypeOK
<1>3. \A t \in Tools : ~Runs(t)
  BY <1>1 DEF StopInit, Runs
<1>4. LeftIsNamed /\ HoldIsNamed /\ EngineInv /\ cut \subseteq gaveUp
  BY <1>3, StopAssumption DEF StopInit, LeftIsNamed, HoldIsNamed, EngineInv
<1> QED  BY <1>2, <1>4 DEF StopIInv

\* A command that finishes, or that another one's change leaves alone.
LEMMA OneTool ==
  ASSUME StopTypeOK, NEW t \in Tools, NEW k \in Kinds,
         NEW a \in {"off", "runs", "marked", "done", "killed", "loose"},
         tool' = [tool EXCEPT ![t] = [kind |-> k, at |-> a]]
  PROVE  /\ tool' \in [Tools -> [kind : Kinds, at : {"off", "runs", "marked", "done", "killed", "loose"}]]
         /\ tool'[t].kind = k /\ tool'[t].at = a
         /\ \A u \in Tools \ {t} : tool'[u] = tool[u]
BY DEF StopTypeOK

LEMMA OneToolMoves ==
  ASSUME StopTypeOK, NEW t \in Tools,
         NEW a \in {"off", "runs", "marked", "done", "killed", "loose"},
         tool' = [tool EXCEPT ![t].at = a]
  PROVE  /\ tool' \in [Tools -> [kind : Kinds, at : {"off", "runs", "marked", "done", "killed", "loose"}]]
         /\ tool'[t].kind = tool[t].kind /\ tool'[t].at = a
         /\ \A u \in Tools \ {t} : tool'[u] = tool[u]
BY DEF StopTypeOK

\* One sweep: it names what is at stake, keeps Codex only for that, and what runs on
\* under a dead engine is what it named.
LEMMA Swept ==
  ASSUME StopFaults = {}, StopTypeOK, NEW hold \in BOOLEAN, NEW names, KillTree(hold, names)
  PROVE  /\ names = AtStake
         /\ engine' \in BOOLEAN /\ (engine' <=> engine /\ hold /\ AtStake # {})
         /\ tool' \in [Tools -> [kind : Kinds, at : {"off", "runs", "marked", "done", "killed", "loose"}]]
         /\ \A t \in Tools : /\ tool'[t].kind = tool[t].kind
                             /\ tool'[t].at \in {"runs", "marked"} => tool'[t] = tool[t]
                             /\ tool'[t].at \in {"runs", "marked"} /\ ~engine' /\ t \in InTree => t \in AtStake
         /\ cut' = cut \cup (IF codex /\ ~engine' THEN AtStake ELSE {})
<1> DEFINE dies == InTree \ Kept(hold)
<1>1. /\ names = AtStake
      /\ engine' = (engine /\ EngineKept(hold))
      /\ tool' = [t \in Tools |-> IF t \in dies THEN [tool[t] EXCEPT !.at = "killed"] ELSE tool[t]]
      /\ cut' = cut \cup (IF codex /\ ~engine' THEN AtStake ELSE {})
  <2>1. \E torn \in SUBSET {t \in dies : tool[t].kind = "script"} :
          /\ torn # {} => "late_money" \in StopFaults
          /\ cut' = cut \cup torn \cup IF codex /\ ~engine' THEN AtStake ELSE {}
    BY DEF KillTree
  <2> QED  BY <2>1 DEF KillTree
<1>2. engine' \in BOOLEAN /\ (engine' <=> engine /\ hold /\ AtStake # {})
  BY <1>1 DEF EngineKept, StopTypeOK
<1>3. tool' \in [Tools -> [kind : Kinds, at : {"off", "runs", "marked", "done", "killed", "loose"}]]
  BY <1>1 DEF StopTypeOK
<1>4. ASSUME NEW t \in Tools
      PROVE  /\ tool'[t].kind = tool[t].kind
             /\ tool'[t].at \in {"runs", "marked"} => tool'[t] = tool[t] /\ t \notin dies
  BY <1>1, <1>4 DEF StopTypeOK
<1>5. ~engine' => Kept(hold) = AtStake \/ InTree = {}
  BY <1>1 DEF Kept, InTree
<1> QED  BY <1>1, <1>2, <1>3, <1>4, <1>5

LEMMA StopStep ==
  ASSUME StopFaults = {}, CancelAfter < ShellAfter, StopIInv, [StopNext]_stopVars
  PROVE  StopIInv'
<1> USE StopAssumption
<1>0. StopTypeOK /\ LeftIsNamed /\ HoldIsNamed /\ EngineInv /\ cut \subseteq gaveUp
  BY DEF StopIInv
<1>t. /\ HoldMax \in Nat /\ CancelAfter \in Nat /\ ShellAfter \in Nat
      /\ holding \in 0..HoldMax /\ waited \in 0..CancelAfter /\ quiet \in 0..ShellAfter
  BY <1>0 DEF StopTypeOK
<1>1. CASE Spawned
  <2>1. StopTypeOK'
    BY <1>0, <1>1 DEF Spawned, StopTypeOK, timers
  <2>2. LeftIsNamed' /\ EngineInv'
    BY <1>0, <1>1 DEF Spawned, LeftIsNamed, EngineInv, timers
  <2>3. HoldIsNamed'
    BY <1>0, <1>1, <1>t DEF Spawned, HoldIsNamed, timers
  <2> QED  BY <1>0, <1>1, <2>1, <2>2, <2>3 DEF StopIInv, Spawned
<1>2. ASSUME NEW t \in Tools, NEW kind \in Kinds, ToolBegins(t, kind)
      PROVE  StopIInv'
  <2>1. /\ engine /\ turn = "stream" /\ (kind = "named" => gaveUp = {})
        /\ tool' = [tool EXCEPT ![t] = [kind |-> kind, at |-> "runs"]]
        /\ UNCHANGED <<turnVars, engine, stopFile, interrupted, sweeping, timers, left, gaveUp, cut>>
    BY <1>2 DEF ToolBegins, MoneyMayBegin
  <2>2. /\ tool' \in [Tools -> [kind : Kinds, at : {"off", "runs", "marked", "done", "killed", "loose"}]]
        /\ tool'[t].kind = kind /\ tool'[t].at = "runs"
        /\ \A u \in Tools \ {t} : tool'[u] = tool[u]
    BY <1>0, <2>1, OneTool
  <2>3. gaveUp # {} => AtStake' \subseteq AtStake
    BY <2>1, <2>2 DEF AtStake, InTree, Runs, Money
  <2>4. StopTypeOK'
    BY <1>0, <2>1, <2>2 DEF StopTypeOK, turnVars, timers
  <2>5. LeftIsNamed' /\ EngineInv' /\ HoldIsNamed'
    BY <1>0, <2>1, <2>3 DEF LeftIsNamed, EngineInv, HoldIsNamed, turnVars, timers
  <2> QED  BY <1>0, <2>1, <2>4, <2>5 DEF StopIInv
<1>3. ASSUME NEW t \in Tools, Marks(t)
      PROVE  StopIInv'
  <2>1. /\ (gaveUp = {} \/ ~engine) /\ Runs(t)
        /\ tool' = [tool EXCEPT ![t].at = "marked"]
        /\ UNCHANGED <<turnVars, engine, stopFile, interrupted, sweeping, timers, left, gaveUp, cut>>
    BY <1>3 DEF Marks, MoneyMayBegin, Runs
  <2>2. /\ tool' \in [Tools -> [kind : Kinds, at : {"off", "runs", "marked", "done", "killed", "loose"}]]
        /\ tool'[t].kind = tool[t].kind /\ tool'[t].at = "marked"
        /\ \A u \in Tools \ {t} : tool'[u] = tool[u]
    BY <1>0, <2>1, OneToolMoves
  <2>3. StopTypeOK'
    BY <1>0, <2>1, <2>2 DEF StopTypeOK, turnVars, timers
  <2>4. LeftIsNamed'
    BY <1>0, <2>1, <2>2 DEF LeftIsNamed, Runs, Money, turnVars
  <2>5. EngineInv' /\ HoldIsNamed'
    BY <1>0, <2>1 DEF EngineInv, HoldIsNamed, turnVars, timers
  <2> QED  BY <1>0, <2>1, <2>3, <2>4, <2>5 DEF StopIInv
<1>4. ASSUME NEW t \in Tools, Finishes(t)
      PROVE  StopIInv'
  <2>1. /\ tool' = [tool EXCEPT ![t].at = "done"]
        /\ UNCHANGED <<turnVars, engine, stopFile, interrupted, sweeping, timers, left, gaveUp, cut>>
    BY <1>4 DEF Finishes
  <2>2. /\ tool' \in [Tools -> [kind : Kinds, at : {"off", "runs", "marked", "done", "killed", "loose"}]]
        /\ tool'[t].at = "done"
        /\ \A u \in Tools \ {t} : tool'[u] = tool[u]
    BY <1>0, <2>1, OneToolMoves
  <2>3. StopTypeOK'
    BY <1>0, <2>1, <2>2 DEF StopTypeOK, turnVars, timers
  <2>4. LeftIsNamed'
    BY <1>0, <2>1, <2>2 DEF LeftIsNamed, Runs, Money, turnVars
  <2>5. AtStake' \subseteq AtStake
    BY <2>1, <2>2 DEF AtStake, InTree, Runs, Money
  <2>6. EngineInv' /\ HoldIsNamed'
    BY <1>0, <2>1, <2>5 DEF EngineInv, HoldIsNamed, turnVars, timers
  <2> QED  BY <1>0, <2>1, <2>3, <2>4, <2>6 DEF StopIInv
<1>5. CASE EngineEnds
  <2>1. /\ turn = "stream" /\ engine /\ engine' = FALSE
        /\ tool' = [t \in Tools |-> IF t \in InTree THEN [tool[t] EXCEPT !.at = "loose"] ELSE tool[t]]
        /\ (turn' = "ending" /\ second' = second) \/ (turn' = "spawn" /\ second' = TRUE /\ ~codex)
        /\ UNCHANGED <<codex, desktop, stopFile, interrupted, sweeping, timers, left, gaveUp, cut>>
    BY <1>5 DEF EngineEnds
  <2>2. tool' \in [Tools -> [kind : Kinds, at : {"off", "runs", "marked", "done", "killed", "loose"}]]
    BY <1>0, <2>1 DEF StopTypeOK
  <2>3. \A t \in Tools : tool'[t].at \in {"runs", "marked"} => tool'[t] = tool[t] /\ t \notin InTree
    BY <1>0, <2>1 DEF StopTypeOK
  <2>4. LeftIsNamed'
    BY <2>1, <2>3 DEF LeftIsNamed, Runs, InTree
  <2>5. StopTypeOK'
    BY <1>0, <2>1, <2>2 DEF StopTypeOK, timers
  <2>6. EngineInv' /\ HoldIsNamed'
    BY <1>0, <2>1 DEF EngineInv, HoldIsNamed, timers
  <2> QED  BY <1>0, <2>1, <2>4, <2>5, <2>6 DEF StopIInv
<1>6. CASE StreamEnds
  <2>1. StopTypeOK' /\ LeftIsNamed' /\ EngineInv'
    BY <1>0, <1>6 DEF StreamEnds, StopTypeOK, LeftIsNamed, EngineInv, timers, Runs, Money
  <2>2. HoldIsNamed'
    BY <1>0, <1>6 DEF StreamEnds, HoldIsNamed, timers, AtStake, InTree, Runs, Money
  <2> QED  BY <1>0, <1>6, <2>1, <2>2 DEF StopIInv, StreamEnds
<1>7. CASE Press \/ Piggyback \/ Notices
  <2>1. /\ UNCHANGED <<turnVars, engine, tool, timers, left, gaveUp, cut>>
        /\ stopFile' \in BOOLEAN /\ interrupted' \in BOOLEAN /\ sweeping' \in BOOLEAN
        /\ interrupted => interrupted'
    <3>1. CASE Press
      BY <1>0, <3>1 DEF Press, StopTypeOK
    <3>2. CASE Piggyback
      BY <1>0, <3>2 DEF Piggyback, StopTypeOK
    <3>3. CASE Notices
      BY <1>0, <3>3 DEF Notices, StopTypeOK
    <3> QED  BY <1>7, <3>1, <3>2, <3>3
  <2>2. StopTypeOK'
    BY <1>0, <2>1 DEF StopTypeOK, turnVars, timers
  <2>3. LeftIsNamed' /\ HoldIsNamed'
    BY <1>0, <2>1 DEF LeftIsNamed, HoldIsNamed, AtStake, InTree, Runs, Money, turnVars, timers
  <2>4. EngineInv'
    BY <1>0, <2>1 DEF EngineInv, turnVars, timers
  <2> QED  BY <1>0, <2>1, <2>2, <2>3, <2>4 DEF StopIInv
<1>8. CASE Sweep
  <2>1. PICK names \in SUBSET Tools :
          LET hold == codex /\ holding < HoldMax IN
          /\ KillTree(hold, names)
          /\ left' = left \cup names
          /\ IF hold /\ names # {} THEN HeldOn(names) ELSE NotHeld
    BY <1>8 DEF Sweep
  <2> DEFINE hold == codex /\ holding < HoldMax
  <2>2. hold \in BOOLEAN /\ KillTree(hold, names)
    BY <1>0, <2>1 DEF StopTypeOK
  <2> HIDE DEF hold
  <2>3. /\ names = AtStake
        /\ engine' \in BOOLEAN /\ (engine' <=> engine /\ hold /\ AtStake # {})
        /\ tool' \in [Tools -> [kind : Kinds, at : {"off", "runs", "marked", "done", "killed", "loose"}]]
        /\ \A t \in Tools : /\ tool'[t].kind = tool[t].kind
                            /\ tool'[t].at \in {"runs", "marked"} => tool'[t] = tool[t]
                            /\ tool'[t].at \in {"runs", "marked"} /\ ~engine' /\ t \in InTree => t \in AtStake
        /\ cut' = cut \cup (IF codex /\ ~engine' THEN AtStake ELSE {})
    BY <1>0, <2>2, Swept
  <2>4. /\ turn \in {"spawn", "stream"} /\ left' = left \cup AtStake
        /\ UNCHANGED <<codex, desktop, second, stopFile, interrupted, sweeping>>
        /\ hold /\ AtStake # {} => HeldOn(names)
        /\ ~(hold /\ AtStake # {}) => NotHeld
    BY <1>8, <2>1, <2>3 DEF Sweep, hold
  <2>5. \/ /\ hold /\ AtStake # {} /\ engine' /\ engine
           /\ turn' = turn /\ holding' = holding + 1 /\ waited' = 0 /\ quiet' = 0
           /\ gaveUp' = IF holding' = HoldMax THEN AtStake ELSE gaveUp
        \/ /\ ~(hold /\ AtStake # {}) /\ ~engine'
           /\ holding' = holding /\ gaveUp' = gaveUp
           /\ \/ turn' = "ending" /\ waited' = waited
              \/ turn' = turn /\ waited # CancelAfter /\ waited' = waited + 1
           /\ quiet' = IF quiet < ShellAfter THEN quiet + 1 ELSE quiet
    <3>1. CASE hold /\ AtStake # {}
      <4>1. engine
        BY <3>1 DEF AtStake, InTree
      <4> QED  BY <2>3, <2>4, <3>1, <4>1 DEF HeldOn
    <3>2. CASE ~(hold /\ AtStake # {})
      BY <2>3, <2>4, <3>2 DEF NotHeld
    <3> QED  BY <3>1, <3>2
  <2>6. AtStake # {} => engine /\ turn = "stream"
    BY <1>0, <2>4 DEF AtStake, InTree, EngineInv
  <2>7. AtStake \subseteq Tools
    BY DEF AtStake, InTree
  <2>8. /\ turn' \in {"spawn", "stream", "ending", "over", "killed"}
        /\ holding' \in 0..HoldMax /\ waited' \in 0..CancelAfter /\ quiet' \in 0..ShellAfter
    BY <1>t, <2>4, <2>5 DEF hold
  <2>9. StopTypeOK'
    <3>1. left' \cup gaveUp' \cup cut' \subseteq Tools
      BY <1>0, <2>3, <2>4, <2>5, <2>7 DEF StopTypeOK
    <3> QED  BY <1>0, <2>3, <2>4, <2>8, <3>1 DEF StopTypeOK
  <2>10. AtStake' \subseteq AtStake
    BY <2>3 DEF AtStake, InTree, Runs, Money
  <2>11. LeftIsNamed'
    <3> SUFFICES ASSUME ~engine', NEW t \in Tools, tool'[t].at \in {"runs", "marked"}, tool'[t].kind # "detached"
                 PROVE  (tool'[t].kind = "named" \/ tool'[t].at = "marked") /\ t \in left' \cup gaveUp'
      BY DEF LeftIsNamed, Runs, Money
    <3>1. Runs(t) /\ tool[t].kind # "detached" /\ tool'[t] = tool[t]
      BY <2>3 DEF Runs
    <3>2. gaveUp' = gaveUp
      BY <2>5
    <3>3. CASE engine
      <4>1. t \in InTree
        BY <3>1, <3>3 DEF InTree
      <4>2. t \in AtStake
        BY <2>3, <4>1
      <4> QED  BY <2>4, <3>1, <4>2 DEF AtStake, Money
    <3>4. CASE ~engine
      BY <1>0, <2>4, <3>1, <3>2, <3>4 DEF LeftIsNamed, Money
    <3> QED  BY <3>3, <3>4
  <2>12. HoldIsNamed'
    <3>1. CASE hold /\ AtStake # {} /\ engine'
      BY <1>0, <1>t, <2>4, <2>5, <2>6, <2>10, <3>1 DEF HoldIsNamed, hold
    <3>2. CASE ~engine'
      BY <1>0, <1>t, <2>4, <2>5, <2>6, <3>2 DEF HoldIsNamed
    <3> QED  BY <2>5, <3>1, <3>2
  <2>13. EngineInv'
    BY <1>0, <1>t, <2>4, <2>5, <2>6 DEF EngineInv
  <2>14. cut' \subseteq gaveUp'
    <3>1. CASE hold /\ AtStake # {}
      <4>1. cut' = cut /\ holding # HoldMax
        BY <1>t, <2>3, <2>5, <3>1 DEF hold
      <4>2. cut = {}
        BY <1>0, <4>1 DEF HoldIsNamed
      <4> QED  BY <4>1, <4>2
    <3>2. CASE ~(hold /\ AtStake # {})
      <4>1. codex => AtStake \subseteq gaveUp
        BY <1>0, <1>t, <2>6, <3>2 DEF HoldIsNamed, hold
      <4> QED  BY <1>0, <2>3, <2>5, <3>2, <4>1
    <3> QED  BY <3>1, <3>2
  <2> QED  BY <2>9, <2>11, <2>12, <2>13, <2>14 DEF StopIInv
<1>9. CASE WindUp
  <2>1. /\ turn = "ending" /\ turn' = "over"
        /\ UNCHANGED <<codex, desktop, second, stopFile, interrupted, sweeping, timers, gaveUp>>
    BY <1>9 DEF WindUp
  <2>2. CASE interrupted /\ ~codex
    <3>1. PICK names \in SUBSET Tools : KillTree(FALSE, names) /\ left' = left \cup names
      BY <1>9, <2>2 DEF WindUp
    <3>2. ASSUME NEW hold \in BOOLEAN, KillTree(hold, names), ~hold
          PROVE  /\ names = AtStake
                 /\ ~engine' /\ engine' \in BOOLEAN
                 /\ tool' \in [Tools -> [kind : Kinds, at : {"off", "runs", "marked", "done", "killed", "loose"}]]
                 /\ \A t \in Tools : /\ tool'[t].kind = tool[t].kind
                                     /\ tool'[t].at \in {"runs", "marked"} => tool'[t] = tool[t]
                                     /\ tool'[t].at \in {"runs", "marked"} /\ ~engine' /\ t \in InTree => t \in AtStake
                 /\ cut' = cut \cup (IF codex /\ ~engine' THEN AtStake ELSE {})
      BY <1>0, <3>2, Swept
    <3>3. /\ names = AtStake
          /\ ~engine' /\ engine' \in BOOLEAN
          /\ tool' \in [Tools -> [kind : Kinds, at : {"off", "runs", "marked", "done", "killed", "loose"}]]
          /\ \A t \in Tools : /\ tool'[t].kind = tool[t].kind
                              /\ tool'[t].at \in {"runs", "marked"} => tool'[t] = tool[t]
                              /\ tool'[t].at \in {"runs", "marked"} /\ ~engine' /\ t \in InTree => t \in AtStake
          /\ cut' = cut
      BY <2>2, <3>1, <3>2
    <3>4. AtStake \subseteq Tools
      BY DEF AtStake, InTree
    <3>5. StopTypeOK'
      BY <1>0, <2>1, <3>1, <3>3, <3>4 DEF StopTypeOK, timers
    <3>6. LeftIsNamed'
      <4> SUFFICES ASSUME NEW t \in Tools, tool'[t].at \in {"runs", "marked"}, tool'[t].kind # "detached"
                   PROVE  (tool'[t].kind = "named" \/ tool'[t].at = "marked") /\ t \in left' \cup gaveUp'
        BY DEF LeftIsNamed, Runs, Money
      <4>1. Runs(t) /\ tool[t].kind # "detached" /\ tool'[t] = tool[t]
        BY <3>3 DEF Runs
      <4>2. CASE engine
        <5>1. t \in InTree
          BY <4>1, <4>2 DEF InTree
        <5>2. t \in AtStake
          BY <3>3, <5>1
        <5> QED  BY <3>1, <3>3, <4>1, <5>2 DEF AtStake, Money
      <4>3. CASE ~engine
        BY <1>0, <2>1, <3>1, <4>1, <4>3 DEF LeftIsNamed, Money
      <4> QED  BY <4>2, <4>3
    <3>7. HoldIsNamed' /\ EngineInv'
      BY <1>0, <2>1, <3>3 DEF HoldIsNamed, EngineInv, timers
    <3> QED  BY <1>0, <2>1, <3>3, <3>5, <3>6, <3>7 DEF StopIInv
  <2>3. CASE ~(interrupted /\ ~codex)
    <3>1. ~engine
      BY <1>0, <2>1, <2>3 DEF EngineInv
    <3>2. AtStake = {}
      BY <3>1 DEF AtStake, InTree
    <3>3. cut' = cut /\ engine' = FALSE /\ UNCHANGED <<tool, left>>
      BY <1>0, <1>9, <2>3, <3>1, <3>2 DEF WindUp, StopTypeOK
    <3>4. StopTypeOK' /\ LeftIsNamed'
      BY <1>0, <2>1, <3>1, <3>3 DEF StopTypeOK, LeftIsNamed, timers, Runs, Money
    <3>5. HoldIsNamed' /\ EngineInv'
      BY <1>0, <2>1, <3>3 DEF HoldIsNamed, EngineInv, timers
    <3> QED  BY <1>0, <2>1, <3>3, <3>4, <3>5 DEF StopIInv
  <2> QED  BY <2>2, <2>3
<1>10. CASE Wedged
  BY <1>10 DEF Wedged
<1>11. CASE ShellKills
  <2>1. /\ turn' = "killed" /\ quiet = ShellAfter /\ turn \notin {"over", "killed"}
        /\ UNCHANGED <<codex, desktop, second, tool, stopFile, interrupted, sweeping, timers, left, gaveUp>>
        /\ engine' = (engine /\ ~codex) /\ cut' = cut \cup IF codex THEN AtStake ELSE {}
    BY <1>11 DEF ShellKills, TurnOver
  <2>2. turn = "ending"
    BY <1>0, <1>t, <2>1 DEF EngineInv, StopTypeOK
  <2>3. codex => AtStake = {}
    BY <1>0, <2>2 DEF EngineInv, AtStake, InTree
  <2>4. cut' = cut /\ engine' \in BOOLEAN /\ (engine' => engine /\ ~codex)
    BY <1>0, <2>1, <2>3 DEF StopTypeOK
  <2>5. StopTypeOK'
    BY <1>0, <2>1, <2>4 DEF StopTypeOK, timers
  <2>6. LeftIsNamed' /\ HoldIsNamed' /\ EngineInv'
    BY <1>0, <2>1, <2>4 DEF LeftIsNamed, HoldIsNamed, EngineInv, timers
  <2> QED  BY <1>0, <2>1, <2>4, <2>5, <2>6 DEF StopIInv
<1>12. CASE UNCHANGED stopVars
  BY <1>0, <1>12 DEF stopVars, turnVars, timers, StopIInv, StopTypeOK, LeftIsNamed, HoldIsNamed, EngineInv,
                     AtStake, InTree, Runs, Money
<1> QED
  BY <1>1, <1>2, <1>3, <1>4, <1>5, <1>6, <1>7, <1>8, <1>9, <1>10, <1>11, <1>12 DEF StopNext

\* A stop cuts off no command that moves money unless the reply says it was not waited
\* for, and a stopped turn that is over has left nothing running but commands that move
\* money, every one of them named in the reply (turn_stop.py), for any number of
\* commands and however long Codex is held: as long as the turn is cancelled before the
\* shell's insurance runs out (CANCEL_AFTER_S of turn_stop.py, STOP_KILL_MS of
\* shell/main.js), the process table can be read, and the engine starts nothing and no
\* command turns to money while a sweep is at work.
THEOREM StopsAreExact ==
  ASSUME StopFaults = {}, CancelAfter < ShellAfter
  PROVE  StopSpec => []StopIsExact
<1>1. StopIInv /\ [StopNext]_stopVars => StopIInv'
  BY StopStep
<1>2. StopIInv => StopIsExact
  BY DEF StopIInv, StopIsExact, LeftIsNamed, EngineInv
<1> QED  BY StopStart, <1>1, <1>2, PTL DEF StopSpec

-----------------------------------------------------------------------------
(* The queues of the web bridge.                                               *)

\* What of the messages is on its way, in the end on the disk.
InTurn == {run[s].msg : s \in Sessions}
Keep == gone \cup Waiting(disk) \cup InTurn

\* The messages of a queue are of its conversation, each once, and in the order they
\* were sent but for those redelivered late.
Orderly(q, lates) ==
  \A s \in Sessions : \A i \in DOMAIN q[s] :
    /\ SessionOf[q[s][i]] = s
    /\ \A j \in DOMAIN q[s] : i < j => q[s][i] # q[s][j] /\ (q[s][i] < q[s][j] \/ q[s][j] \in lates)

\* Memory and disk agree while the bridge lives; a dead one remembers nothing.
MemInv ==
  /\ up => disk = queue
  /\ ~up => /\ \A s \in Sessions : queue[s] = <<>> /\ run[s].at = "none"
            /\ seen = {} /\ hand.at = "none" /\ ~Scanning("web")

\* A session looked up a slot for has a message and no worker.
ScanInv ==
  Scanning("web") =>
    scan["web"].turn \in Sessions /\ queue[scan["web"].turn] # <<>> /\ run[scan["web"].turn].at = "none"

\* A worker has its message, and after its turn that message is over.
RunInv ==
  \A s \in Sessions :
    /\ run[s].at = "none" <=> run[s].msg = NoMsg
    /\ run[s].at \in {"after", "done", "queued", "leave"} => run[s].msg \in gone

\* What the poll thread has in hand.
HandInv ==
  /\ hand.at \in {"file", "ack"} =>
       /\ hand.msg \in Messages /\ hand.session = SessionOf[hand.msg]
       /\ lease[hand.msg] # "acked" /\ (lease[hand.msg] = "leased" \/ hand.msg \in late)
  /\ hand.at = "ack" => hand.msg \in seen
  /\ hand.at = "file" =>
       \A m \in Waiting(disk) : SessionOf[m] = hand.session /\ hand.msg < m => hand.msg \in late
  /\ hand.at \in {"cancel", "find", "flag"} => hand.session \in Sessions
  /\ hand.at = "flag" => hand.msg \in pressed

\* What this process has filed is kept, and so is what it has acknowledged.
KeptInv ==
  /\ seen \subseteq Keep /\ (up => Waiting(disk) \subseteq seen)
  /\ InTurn \subseteq seen \cup {NoMsg}
  /\ \A m \in Messages : lease[m] = "acked" => m \in Keep

\* A message waits unanswered, and one that was answered is known or acknowledged,
\* unless it was exposed.
OnceInv ==
  \A m \in Messages \ exposed :
    /\ starts[m] <= 1
    /\ m \in Waiting(disk) => starts[m] = 0
    /\ starts[m] # 0 => m \in seen \/ lease[m] = "acked"

\* What waits was handed out, and nothing before it in its conversation is still to
\* be handed out for the first time.
OrderInv ==
  /\ Orderly(disk, late)
  /\ \A m \in Waiting(disk) : lease[m] # "pending" \/ m \in late
  /\ \A m, n \in Messages :
       /\ m < n /\ SessionOf[m] = SessionOf[n]
       /\ lease[n] # "pending" \/ n \in late
       => lease[m] # "pending" \/ m \in late

WebIInv ==
  /\ WebTypeOK /\ MemInv /\ ScanInv /\ RunInv /\ HandInv /\ KeptInv /\ OnceInv /\ OrderInv
  /\ flags \subseteq pressed

LEMMA WaitingIs ==
  ASSUME NEW q \in Queues, NEW m
  PROVE  m \in Waiting(q) <=> \E s \in Sessions : \E i \in 1 .. Len(q[s]) : q[s][i] = m
<1>1. \A s \in Sessions : q[s] \in Seq(Messages) /\ DOMAIN q[s] = 1 .. Len(q[s])
  BY DEF Queues
<1> QED  BY <1>1 DEF Waiting

LEMMA QueueTypes ==
  ASSUME NEW q \in Queues, NEW s \in Sessions
  PROVE  /\ q[s] \in Seq(Messages) /\ Len(q[s]) \in Nat /\ DOMAIN q[s] = 1 .. Len(q[s])
         /\ \A i \in 1 .. Len(q[s]) : q[s][i] \in Messages /\ q[s][i] \in Waiting(q)
         /\ q[s] # <<>> => Len(q[s]) > 0
<1>1. q[s] \in Seq(Messages)
  BY DEF Queues
<1>2. Len(q[s]) \in Nat /\ DOMAIN q[s] = 1 .. Len(q[s])
  BY <1>1
<1>3. \A i \in 1 .. Len(q[s]) : q[s][i] \in Messages
  BY <1>1, <1>2
<1>4. q[s] # <<>> => Len(q[s]) > 0
  BY <1>1
<1> QED  BY <1>1, <1>2, <1>3, <1>4, WaitingIs

LEMMA QueueAppend ==
  ASSUME NEW q \in Queues, NEW r \in Queues, NEW s \in Sessions, NEW m \in Messages,
         r[s] = Append(q[s], m), \A o \in Sessions \ {s} : r[o] = q[o]
  PROVE  \A x : x \in Waiting(r) <=> x \in Waiting(q) \/ x = m
<1>1. q[s] \in Seq(Messages) /\ Len(q[s]) \in Nat
  BY QueueTypes
<1>2. /\ r[s] = Append(q[s], m) /\ r[s] \in Seq(Messages) /\ Len(r[s]) = Len(q[s]) + 1
      /\ r[s][Len(q[s]) + 1] = m /\ \A i \in 1 .. Len(q[s]) : r[s][i] = q[s][i]
  BY <1>1 DEF Queues
<1>3. r \in Queues /\ \A o \in Sessions \ {s} : r[o] = q[o]
  BY <1>2 DEF Queues
<1>5. ASSUME NEW x
      PROVE  x \in Waiting(r) <=> x \in Waiting(q) \/ x = m
  <2>1. ASSUME x \in Waiting(r), x # m
        PROVE  x \in Waiting(q)
    <3>1a. PICK o \in Sessions : \E k \in 1 .. Len(r[o]) : r[o][k] = x
      BY <1>3, <2>1, WaitingIs
    <3>1. PICK i \in 1 .. Len(r[o]) : r[o][i] = x
      BY <3>1a
    <3>2. CASE o = s
      <4>1. i # Len(q[s]) + 1
        BY <1>2, <2>1, <3>1, <3>2
      <4>2. i \in 1 .. Len(q[s])
        BY <1>1, <1>2, <3>1, <3>2, <4>1
      <4> QED  BY <1>2, <3>1, <3>2, <4>2, WaitingIs
    <3>3. CASE o # s
      BY <1>3, <3>1, <3>3, WaitingIs
    <3> QED  BY <3>2, <3>3
  <2>2. ASSUME x \in Waiting(q)
        PROVE  x \in Waiting(r)
    <3>1a. PICK o \in Sessions : \E k \in 1 .. Len(q[o]) : q[o][k] = x
      BY <2>2, WaitingIs
    <3>1. PICK i \in 1 .. Len(q[o]) : q[o][i] = x
      BY <3>1a
    <3>2. CASE o = s
      <4>1. i \in 1 .. Len(r[s])
        BY <1>1, <1>2, <3>1, <3>2
      <4> QED  BY <1>2, <1>3, <3>1, <3>2, <4>1, WaitingIs
    <3>3. CASE o # s
      BY <1>3, <3>1, <3>3, WaitingIs
    <3> QED  BY <3>2, <3>3
  <2>3. m \in Waiting(r)
    <3>1. Len(q[s]) + 1 \in 1 .. Len(r[s])
      BY <1>1, <1>2
    <3> QED  BY <1>2, <1>3, <3>1, WaitingIs
  <2> QED  BY <2>1, <2>2, <2>3
<1> QED  BY <1>5

LEMMA AppendKeepsOrder ==
  ASSUME NEW q \in Queues, NEW r \in Queues, NEW s \in Sessions, NEW m \in Messages, NEW lates,
         r[s] = Append(q[s], m), \A o \in Sessions \ {s} : r[o] = q[o],
         Orderly(q, lates), SessionOf[m] = s, m \notin Waiting(q),
         \A n \in Waiting(q) : SessionOf[n] = s /\ m < n => m \in lates
  PROVE  Orderly(r, lates)
<1>1. q[s] \in Seq(Messages) /\ Len(q[s]) \in Nat
  BY QueueTypes
<1>2. /\ r[s] = Append(q[s], m) /\ r[s] \in Seq(Messages) /\ Len(r[s]) = Len(q[s]) + 1
      /\ r[s][Len(q[s]) + 1] = m /\ \A i \in 1 .. Len(q[s]) : r[s][i] = q[s][i]
  BY <1>1 DEF Queues
<1>3. r \in Queues /\ \A o \in Sessions \ {s} : r[o] = q[o]
  BY <1>2 DEF Queues
<1>0. \A o \in Sessions : DOMAIN r[o] = 1 .. Len(r[o])
  BY <1>3, QueueTypes
<1> SUFFICES ASSUME NEW o \in Sessions, NEW i \in 1 .. Len(r[o])
             PROVE  /\ SessionOf[r[o][i]] = o
                    /\ \A j \in 1 .. Len(r[o]) : i < j => r[o][i] # r[o][j] /\ (r[o][i] < r[o][j] \/ r[o][j] \in lates)
  BY <1>0 DEF Orderly
<1>4. CASE o # s
  <2>1. r[o] = q[o] /\ DOMAIN q[o] = 1 .. Len(r[o])
    BY <1>3, <1>4, QueueTypes
  <2> QED  BY <2>1 DEF Orderly
<1>5. CASE o = s
  <2>1. DOMAIN q[s] = 1 .. Len(q[s])
    BY QueueTypes
  <2>2. \A k \in 1 .. Len(q[s]) : q[s][k] \in Messages /\ q[s][k] \in Waiting(q) /\ SessionOf[q[s][k]] = s
    BY <2>1, QueueTypes DEF Orderly
  <2>3. \A k \in 1 .. Len(q[s]) : q[s][k] # m /\ (q[s][k] < m \/ m \in lates)
    <3>1. ASSUME NEW k \in 1 .. Len(q[s])
          PROVE  q[s][k] # m /\ (q[s][k] < m \/ m \in lates)
      <4>1. q[s][k] # m /\ (m < q[s][k] => m \in lates)
        BY <2>2
      <4>2. q[s][k] \in Nat /\ m \in Nat
        BY <2>2, WebTurnsAssumption
      <4> QED  BY <4>1, <4>2
    <3> QED  BY <3>1
  <2>4. SessionOf[r[s][i]] = s
    BY <1>1, <1>2, <1>5, <2>2
  <2>5. ASSUME NEW j \in 1 .. Len(r[s]), i < j
        PROVE  r[s][i] # r[s][j] /\ (r[s][i] < r[s][j] \/ r[s][j] \in lates)
    <3>1. i \in 1 .. Len(q[s])
      BY <1>1, <1>2, <1>5, <2>5
    <3>2. CASE j = Len(q[s]) + 1
      BY <1>2, <2>3, <3>1, <3>2
    <3>3. CASE j # Len(q[s]) + 1
      <4>1. j \in 1 .. Len(q[s])
        BY <1>1, <1>2, <2>5, <3>3
      <4> QED  BY <1>2, <2>1, <2>5, <3>1, <4>1 DEF Orderly
    <3> QED  BY <3>2, <3>3
  <2> QED  BY <1>5, <2>4, <2>5
<1> QED  BY <1>4, <1>5

LEMMA QueueTail ==
  ASSUME NEW q \in Queues, NEW r \in Queues, NEW s \in Sessions, q[s] # <<>>, NEW lates,
         r[s] = Tail(q[s]), \A o \in Sessions \ {s} : r[o] = q[o], Orderly(q, lates)
  PROVE  /\ q[s][1] \in Messages /\ q[s][1] \in Waiting(q)
         /\ Waiting(r) = Waiting(q) \ {q[s][1]}
         /\ Orderly(r, lates)
<1>1. q[s] \in Seq(Messages) /\ Len(q[s]) \in Nat /\ Len(q[s]) > 0
  BY QueueTypes
<1>2. /\ r[s] = Tail(q[s]) /\ r[s] \in Seq(Messages) /\ Len(r[s]) = Len(q[s]) - 1
      /\ \A i \in 1 .. Len(q[s]) - 1 : r[s][i] = q[s][i + 1]
  BY <1>1 DEF Queues
<1>3. r \in Queues /\ \A o \in Sessions \ {s} : r[o] = q[o]
  BY <1>2 DEF Queues
<1>4. 1 \in 1 .. Len(q[s]) /\ q[s][1] \in Messages /\ q[s][1] \in Waiting(q)
  BY <1>1, QueueTypes
<1>5. \A o \in Sessions : DOMAIN q[o] = 1 .. Len(q[o]) /\ DOMAIN r[o] = 1 .. Len(r[o])
  BY <1>3, QueueTypes
<1>6. ASSUME NEW x
      PROVE  x \in Waiting(r) <=> x \in Waiting(q) /\ x # q[s][1]
  <2>1. ASSUME x \in Waiting(r)
        PROVE  x \in Waiting(q) /\ x # q[s][1]
    <3>1a. PICK o \in Sessions : \E k \in 1 .. Len(r[o]) : r[o][k] = x
      BY <1>3, <2>1, WaitingIs
    <3>1. PICK i \in 1 .. Len(r[o]) : r[o][i] = x
      BY <3>1a
    <3>2. CASE o = s
      <4>0. i \in 1 .. Len(q[s]) - 1
        BY ONLY <1>2, <3>1, <3>2
      <4>1. i + 1 \in 1 .. Len(q[s]) /\ i \in 1 .. Len(q[s]) - 1 /\ 1 < i + 1
        BY ONLY <1>1, <4>0
      <4>2. q[s][i + 1] = x
        BY <1>2, <3>1, <3>2, <4>1
      <4>3. q[s][1] # q[s][i + 1]
        BY <1>4, <1>5, <4>1 DEF Orderly
      <4> QED  BY <4>1, <4>2, <4>3, WaitingIs
    <3>3. CASE o # s
      <4>1. r[o] = q[o] /\ i \in DOMAIN q[o] /\ 1 \in DOMAIN q[s]
        BY <1>3, <1>4, <1>5, <3>1, <3>3
      <4>2. SessionOf[x] = o /\ SessionOf[q[s][1]] = s
        BY <3>1, <4>1 DEF Orderly
      <4> QED  BY <1>3, <3>1, <3>3, <4>1, <4>2, WaitingIs
    <3> QED  BY <3>2, <3>3
  <2>2. ASSUME x \in Waiting(q), x # q[s][1]
        PROVE  x \in Waiting(r)
    <3>1a. PICK o \in Sessions : \E k \in 1 .. Len(q[o]) : q[o][k] = x
      BY <2>2, WaitingIs
    <3>1. PICK i \in 1 .. Len(q[o]) : q[o][i] = x
      BY <3>1a
    <3>2. CASE o = s
      <4>1. i # 1
        BY <2>2, <3>1, <3>2
      <4>2. i - 1 \in 1 .. Len(r[s]) /\ i - 1 \in 1 .. Len(q[s]) - 1 /\ (i - 1) + 1 = i
        BY <1>1, <1>2, <3>1, <3>2, <4>1
      <4>3. r[s][i - 1] = x
        BY <1>2, <3>1, <3>2, <4>2
      <4> QED  BY <1>3, <4>2, <4>3, WaitingIs
    <3>3. CASE o # s
      BY <1>3, <3>1, <3>3, WaitingIs
    <3> QED  BY <3>2, <3>3
  <2> QED  BY <2>1, <2>2
<1>7. Orderly(r, lates)
  <2> SUFFICES ASSUME NEW o \in Sessions, NEW i \in 1 .. Len(r[o])
               PROVE  /\ SessionOf[r[o][i]] = o
                      /\ \A j \in 1 .. Len(r[o]) : i < j => r[o][i] # r[o][j] /\ (r[o][i] < r[o][j] \/ r[o][j] \in lates)
    BY <1>5 DEF Orderly
  <2>1. CASE o # s
    <3>1. r[o] = q[o] /\ DOMAIN q[o] = 1 .. Len(r[o])
      BY <1>3, <1>5, <2>1
    <3> QED  BY <3>1 DEF Orderly
  <2>2. CASE o = s
    <3>1. \A k \in 1 .. Len(r[s]) : k + 1 \in DOMAIN q[s] /\ r[s][k] = q[s][k + 1]
      BY <1>1, <1>2, <1>5
    <3>2. \A k, j \in 1 .. Len(r[s]) : k < j => k + 1 < j + 1
      BY <1>1, <1>2
    <3>3. SessionOf[r[s][i]] = s
      <4>1. i + 1 \in DOMAIN q[s] /\ r[s][i] = q[s][i + 1]
        BY ONLY <2>2, <3>1, i \in 1 .. Len(r[o])
      <4> QED  BY <4>1 DEF Orderly
    <3>4. ASSUME NEW j \in 1 .. Len(r[s]), i < j
          PROVE  r[s][i] # r[s][j] /\ (r[s][i] < r[s][j] \/ r[s][j] \in lates)
      <4>1. i + 1 < j + 1 /\ i + 1 \in DOMAIN q[s] /\ j + 1 \in DOMAIN q[s]
        BY <2>2, <3>1, <3>2, <3>4
      <4>2. q[s][i + 1] # q[s][j + 1] /\ (q[s][i + 1] < q[s][j + 1] \/ q[s][j + 1] \in lates)
        BY <4>1 DEF Orderly
      <4> QED  BY <2>2, <3>1, <3>4, <4>2
    <3> QED  BY <2>2, <3>3, <3>4
  <2> QED  BY <2>1, <2>2
<1> QED  BY <1>3, <1>4, <1>6, <1>7

LEMMA QueueCleared ==
  ASSUME NEW q \in Queues, NEW r \in Queues, NEW s \in Sessions, NEW lates,
         r[s] = <<>>, \A o \in Sessions \ {s} : r[o] = q[o], Orderly(q, lates)
  PROVE  /\ Waiting(r) \subseteq Waiting(q)
         /\ Waiting(q) \subseteq Waiting(r) \cup {q[s][i] : i \in DOMAIN q[s]}
         /\ Orderly(r, lates)
<1>1. r[s] = <<>> /\ \A o \in Sessions \ {s} : r[o] = q[o]
  OBVIOUS
<1>2. Len(r[s]) = 0
  BY <1>1
<1>3. Waiting(r) \subseteq Waiting(q)
  BY <1>1 DEF Waiting
<1>4. Waiting(q) \subseteq Waiting(r) \cup {q[s][i] : i \in DOMAIN q[s]}
  BY <1>1 DEF Waiting
<1>5. Orderly(r, lates)
  <2> SUFFICES ASSUME NEW o \in Sessions, NEW i \in DOMAIN r[o]
               PROVE  /\ SessionOf[r[o][i]] = o
                      /\ \A j \in DOMAIN r[o] : i < j => r[o][i] # r[o][j] /\ (r[o][i] < r[o][j] \/ r[o][j] \in lates)
    BY DEF Orderly
  <2>1. o # s
    BY <1>1, <1>2
  <2>2. r[o] = q[o]
    BY <1>1, <2>1
  <2> QED  BY <2>2 DEF Orderly
<1> QED  BY <1>3, <1>4, <1>5

LEMMA NothingWaits ==
  ASSUME NEW q \in Queues, \A s \in Sessions : q[s] = <<>>
  PROVE  Waiting(q) = {} /\ \A lates : Orderly(q, lates)
<1>1. \A s \in Sessions : DOMAIN q[s] = {}
  OBVIOUS
<1> QED  BY <1>1 DEF Waiting, Orderly

LEMMA WebFacts ==
  /\ Sessions \subseteq Turns /\ "web" \in Bridges /\ "telegram" \in Bridges /\ Telegram \in Turns
  /\ NoMsg \notin Messages /\ SessionOf \in [Messages -> Sessions] /\ Messages \subseteq Nat
  /\ NoRun.at = "none" /\ NoRun.msg = NoMsg
  /\ NoMessage.at = "none" /\ NoMessage.msg = NoMsg /\ NoMessage.session \in Turns
<1>1. "telegram" \in Bridges
  BY WebTurnsAssumption, TurnSlotsAssumption
<1> QED  BY <1>1, WebTurnsAssumption DEF Sessions, NoRun, NoMessage

\* A step of the slots, or of a dispatcher that gives its slot back.
SlotMove(b, t) ==
  \/ Acquire(b, t) \/ Scan(b) \/ Release(t) \/ BridgeDies(b) \/ (\E i \in SlotIds : GoStale(i))
  \/ StopScan(b) /\ UNCHANGED <<slot, held>>
  \/ UNCHANGED slotVars

LEMMA SlotTypes ==
  ASSUME SlotTypeOK, NEW b \in Bridges, NEW t \in Turns, SlotMove(b, t)
  PROVE  SlotTypeOK'
<1> USE SlotIdsFacts, TurnSlotsAssumption, NotScanningType DEF SlotTypeOK
<1>1. CASE Acquire(b, t)
  BY <1>1 DEF Acquire
<1>2. CASE Look(b)
  BY <1>2 DEF Look, At
<1>3. CASE Unlink(b)
  BY <1>3 DEF Unlink, At
<1>4. CASE Create(b)
  BY <1>4 DEF Create, StopScan
<1>5. CASE CreateFails(b)
  BY <1>5 DEF CreateFails
<1>6. CASE Release(t)
  BY <1>6 DEF Release
<1>7. CASE BridgeDies(b)
  BY <1>7 DEF BridgeDies, StopScan
<1>8. CASE \E i \in SlotIds : GoStale(i)
  BY <1>8 DEF GoStale
<1>9. CASE StopScan(b) /\ UNCHANGED <<slot, held>>
  BY <1>9 DEF StopScan
<1>10. CASE UNCHANGED slotVars
  BY <1>10 DEF slotVars
<1> QED  BY <1>1, <1>2, <1>3, <1>4, <1>5, <1>6, <1>7, <1>8, <1>9, <1>10 DEF SlotMove, Scan

\* A step that files nothing and starts nothing, and forgets of the running messages
\* only those that are over.
LEMMA QuietStep ==
  ASSUME WebIInv, WebTypeOK', UNCHANGED <<lease, disk, seen, late, starts, exposed>>,
         up' => up, gone \subseteq gone',
         InTurn' \subseteq InTurn \cup {NoMsg}, InTurn \subseteq InTurn' \cup gone' \cup {NoMsg},
         MemInv', ScanInv', RunInv', HandInv', (flags \subseteq pressed)'
  PROVE  WebIInv'
<1>1. Waiting(disk)' = Waiting(disk)
  BY DEF Waiting
<1>2. Keep \subseteq Keep' \cup {NoMsg} /\ NoMsg \notin Messages
  BY <1>1, WebFacts DEF Keep
<1>3. KeptInv'
  BY <1>1, <1>2 DEF KeptInv, WebIInv, WebTypeOK
<1>4. OnceInv'
  BY <1>1 DEF OnceInv, WebIInv
<1>5. Orderly(disk, late)'
  BY DEF OrderInv, WebIInv, Orderly
<1>6. OrderInv'
  BY <1>1, <1>5 DEF OrderInv, WebIInv
<1> QED  BY <1>3, <1>4, <1>6 DEF WebIInv

-----------------------------------------------------------------------------
(* Steps that only move the slots, the reports or the poll thread.             *)

LEMMA ScanStep ==
  ASSUME WebIInv, SlotTypeOK', UNCHANGED <<lease, up, memory, disk, shown, flags, tgTurns, ghosts>>
                    \/ UNCHANGED <<lease, up, memory, disk, shown, flags, mishaps, ghosts>>,
         {mishaps, tgTurns}' \subseteq Nat,
         Scanning("web")' =>
           /\ up /\ scan'["web"].turn \in Sessions
           /\ queue[scan'["web"].turn] # <<>> /\ run[scan'["web"].turn].at = "none"
  PROVE  WebIInv'
<1>0. UNCHANGED <<lease, up, hand, queue, seen, run, queuedAt, toReport, disk, shown, flags, starts,
                  gone, late, exposed, pressed>>
  BY DEF memory, ghosts
<1>1. WebTypeOK'
  BY <1>0 DEF WebIInv, WebTypeOK, Queues
<1>2. MemInv' /\ ScanInv'
  BY <1>0 DEF WebIInv, MemInv, ScanInv
<1>3. RunInv'
  BY <1>0 DEF WebIInv, RunInv
<1>4. HandInv'
  BY <1>0 DEF WebIInv, HandInv, Waiting
<1>5. InTurn' = InTurn
  BY <1>0 DEF InTurn
<1> QED  BY <1>0, <1>1, <1>2, <1>3, <1>4, <1>5, QuietStep DEF WebIInv

LEMMA SlotSteps ==
  ASSUME WebIInv,
         (\E s \in Sessions : Dispatch(s)) \/ WebScan \/ StartFails \/ TelegramTurn \/ Age
  PROVE  WebIInv'
<1> USE WebFacts
<1>0. SlotTypeOK /\ MemInv /\ ScanInv /\ {mishaps, tgTurns} \subseteq Nat
  BY DEF WebIInv, WebTypeOK
<1>1. ASSUME NEW s \in Sessions, Dispatch(s)
      PROVE  WebIInv'
  <2>1. Acquire("web", s) /\ UNCHANGED <<lease, up, memory, disk, shown, flags, usage, ghosts>>
    BY <1>1 DEF Dispatch
  <2>2. SlotTypeOK'
    BY <1>0, <2>1, SlotTypes DEF SlotMove
  <2>3. scan'["web"].turn = s
    BY <1>0, <2>1 DEF Acquire, SlotTypeOK
  <2>4. up /\ queue[s] # <<>> /\ run[s].at = "none"
    BY <1>1 DEF Dispatch, Pending
  <2> QED  BY <1>0, <2>1, <2>2, <2>3, <2>4, ScanStep DEF usage
<1>2. CASE WebScan
  <2>1. UNCHANGED <<lease, up, memory, disk, shown, flags, usage, ghosts>>
    BY <1>2 DEF WebScan
  <2>2. SlotTypeOK'
    BY <1>0, <1>2, SlotTypes DEF SlotMove, WebScan, Scan
  <2>3. Scanning("web") /\ (Scanning("web")' => scan'["web"].turn = scan["web"].turn)
    BY <1>0, <1>2 DEF WebScan, Look, Unlink, CreateFails, At, Scanning, SlotTypeOK, NotScanning
  <2> QED  BY <1>0, <2>1, <2>2, <2>3, ScanStep DEF usage, MemInv, ScanInv
<1>3. CASE StartFails
  <2>1. /\ StopScan("web") /\ UNCHANGED <<slot, held, lease, up, hand, seen, run, toReport, shown, flags, tgTurns, ghosts>>
        /\ queue' = queue /\ disk' = queue /\ queuedAt' = queuedAt \ {scan["web"].turn}
        /\ mishaps' = mishaps + 1
    BY <1>3 DEF StartFails, PutBack, Persist, Mishap
  <2>2. Scanning("web")
    BY <1>3 DEF StartFails, Scanning
  <2>3. disk' = disk
    BY <1>0, <2>1, <2>2 DEF MemInv
  <2>4. SlotTypeOK'
    BY <1>0, <2>1, SlotTypes DEF SlotMove
  <2>5. ~Scanning("web")'
    BY <1>0, <2>1 DEF StopScan, Scanning, SlotTypeOK, NotScanning
  <2>6. UNCHANGED <<starts, gone, late, exposed, pressed>>
    BY <2>1 DEF ghosts
  <2>7. WebTypeOK'
    BY <2>1, <2>3, <2>4, <2>6 DEF WebIInv, WebTypeOK, Queues
  <2>8. MemInv' /\ ScanInv'
    BY <1>0, <2>1, <2>3, <2>5 DEF MemInv, ScanInv
  <2>9. RunInv' /\ HandInv'
    BY <2>1, <2>3, <2>6 DEF WebIInv, RunInv, HandInv, Waiting
  <2>10. InTurn' = InTurn
    BY <2>1 DEF InTurn
  <2> QED  BY <2>1, <2>3, <2>6, <2>7, <2>8, <2>9, <2>10, QuietStep DEF WebIInv
<1>4. CASE TelegramTurn
  <2>1. UNCHANGED <<lease, up, memory, disk, shown, flags, mishaps, ghosts>> /\ {mishaps, tgTurns}' \subseteq Nat
    BY <1>0, <1>4 DEF TelegramTurn
  <2>2. Acquire("telegram", Telegram) \/ Scan("telegram") \/ Release(Telegram)
    BY <1>4 DEF TelegramTurn
  <2>3. SlotTypeOK'
    BY <1>0, <2>2, SlotTypes DEF SlotMove
  <2>4. scan'["web"] = scan["web"]
    BY <1>0, <2>2 DEF Acquire, Scan, Look, Unlink, Create, CreateFails, Release, At, StopScan, SlotTypeOK
  <2> QED  BY <1>0, <2>1, <2>3, <2>4, ScanStep DEF MemInv, ScanInv, Scanning
<1>5. CASE Age
  <2>1. UNCHANGED <<lease, up, memory, disk, shown, flags, usage, ghosts>> /\ scan' = scan
    BY <1>5 DEF Age, GoStale
  <2>2. SlotTypeOK'
    BY <1>0, <1>5, SlotTypes DEF SlotMove, Age
  <2> QED  BY <1>0, <2>1, <2>2, ScanStep DEF MemInv, ScanInv, Scanning, usage
<1> QED  BY <1>1, <1>2, <1>3, <1>4, <1>5

\* A step of the poll thread that leaves the queues and the leases alone, or a report.
LEMMA ThreadStep ==
  ASSUME WebIInv, HandInv', UNCHANGED <<slotVars, lease, up, queue, disk, seen, run, tgTurns, starts, gone, late, exposed>>,
         mishaps' \in Nat, pressed \subseteq pressed', pressed' \subseteq Messages, (flags \subseteq pressed)',
         hand' \in [at : {"none", "file", "ack", "cancel", "find", "flag"},
                    msg : Messages \cup {NoMsg}, session : Turns],
         queuedAt' \subseteq Sessions, toReport' \subseteq Sessions,
         shown' \in [Sessions -> {"none", "queued", "running", "done", "cancelled"}],
         ~up => hand'.at = "none"
  PROVE  WebIInv'
<1>1. SlotTypeOK'
  BY DEF WebIInv, WebTypeOK, SlotTypeOK, slotVars
<1>2. WebTypeOK'
  BY <1>1 DEF WebIInv, WebTypeOK, Queues
<1>3. MemInv' /\ ScanInv'
  BY DEF WebIInv, MemInv, ScanInv, Scanning, slotVars
<1>4. RunInv'
  BY DEF WebIInv, RunInv
<1>5. InTurn' = InTurn
  BY DEF InTurn
<1> QED  BY <1>2, <1>3, <1>4, <1>5, QuietStep DEF WebIInv

LEMMA ThreadSteps ==
  ASSUME WebIInv,
         \/ NothingQueued \/ FindStopFile \/ WriteStopFile \/ LeftWaiting
         \/ \E s \in Sessions : PressStop(s) \/ ReportQueued(s)
  PROVE  WebIInv'
<1> USE WebFacts DEF WebIInv, WebTypeOK, ghosts, usage
<1>1. CASE NothingQueued
  <2>1. HandInv'
    BY <1>1 DEF NothingQueued, HandInv
  <2> QED  BY <1>1, <2>1, ThreadStep DEF NothingQueued, MemInv
<1>2. CASE FindStopFile
  <2>1. hand.session \in Sessions
    BY <1>2 DEF FindStopFile, HandInv
  <2>2. CASE run[hand.session].at = "none"
    <3>1. HandInv'
      BY <1>2, <2>2 DEF FindStopFile, HandInv
    <3>2. hand' = NoMessage /\ pressed' = pressed
      BY <1>2, <2>2 DEF FindStopFile
    <3>3. hand' \in [at : {"none", "file", "ack", "cancel", "find", "flag"},
                     msg : Messages \cup {NoMsg}, session : Turns]
      BY <3>2 DEF NoMessage
    <3> QED  BY <1>2, <3>1, <3>2, <3>3, ThreadStep DEF FindStopFile
  <2>3. CASE run[hand.session].at # "none"
    <3>1. run[hand.session].msg \in Messages
      BY <2>1, <2>3 DEF RunInv
    <3>2. /\ hand' = [hand EXCEPT !.at = "flag", !.msg = run[hand.session].msg]
          /\ pressed' = pressed \cup {run[hand.session].msg}
      BY <1>2, <2>3 DEF FindStopFile
    <3>3. HandInv'
      BY <1>2, <2>1, <3>2 DEF FindStopFile, HandInv
    <3> QED  BY <1>2, <3>1, <3>2, <3>3, ThreadStep DEF FindStopFile, MemInv
  <2> QED  BY <2>2, <2>3
<1>3. CASE WriteStopFile
  <2>1. hand.msg \in pressed /\ flags' = flags \cup {hand.msg} /\ hand' = NoMessage
    BY <1>3 DEF WriteStopFile, StopFile, HandInv
  <2>2. HandInv'
    BY <2>1 DEF HandInv
  <2>3. hand' \in [at : {"none", "file", "ack", "cancel", "find", "flag"},
                   msg : Messages \cup {NoMsg}, session : Turns]
    BY <2>1 DEF NoMessage
  <2> QED  BY <1>3, <2>1, <2>2, <2>3, ThreadStep DEF WriteStopFile
<1>4. CASE LeftWaiting
  <2>1. HandInv'
    BY <1>4 DEF LeftWaiting, HandInv, Waiting
  <2>2. toReport' \subseteq Sessions /\ queuedAt' \subseteq Sessions
    BY <1>4 DEF LeftWaiting, Pending
  <2> QED  BY <1>4, <2>1, <2>2, ThreadStep DEF LeftWaiting, MemInv
<1>5. ASSUME NEW s \in Sessions, PressStop(s)
      PROVE  WebIInv'
  <2>1. HandInv'
    BY <1>5 DEF PressStop, HandInv
  <2> QED  BY <1>5, <2>1, ThreadStep DEF PressStop, Mishap
<1>6. ASSUME NEW s \in Sessions, ReportQueued(s)
      PROVE  WebIInv'
  <2>1. HandInv'
    BY <1>6 DEF ReportQueued, HandInv, Waiting
  <2> QED  BY <1>6, <2>1, ThreadStep DEF ReportQueued, Show, MemInv
<1> QED  BY <1>1, <1>2, <1>3, <1>4, <1>5, <1>6

-----------------------------------------------------------------------------
(* The worker threads.                                                         *)

LEMMA WorkerStep ==
  ASSUME WebIInv, NEW s \in Sessions, run[s].at # "none", SlotTypeOK',
         run' \in [Sessions -> [at : {"none", "post", "turn", "after", "done", "queued", "leave"},
                                msg : Messages \cup {NoMsg}, more : BOOLEAN]],
         \A o \in Sessions \ {s} : run'[o] = run[o],
         \/ run'[s].msg = run[s].msg /\ run'[s].at # "none"
         \/ run'[s] = NoRun /\ run[s].msg \in gone,
         run'[s].at \in {"after", "done", "queued", "leave"} => run'[s].msg \in gone',
         scan'["web"] = scan["web"],
         UNCHANGED <<lease, up, hand, queue, disk, seen, usage, starts, late, exposed, pressed>>,
         gone \subseteq gone', gone' \subseteq Messages, flags' \subseteq flags,
         queuedAt' \subseteq Sessions, toReport' \subseteq Sessions,
         shown' \in [Sessions -> {"none", "queued", "running", "done", "cancelled"}]
  PROVE  WebIInv'
<1> USE WebFacts DEF WebIInv, WebTypeOK, usage
<1>1. WebTypeOK'
  BY DEF Queues
<1>2. MemInv'
  BY DEF MemInv, Scanning
<1>3. ScanInv'
  BY DEF ScanInv, Scanning
<1>4. RunInv'
  <2>1. ASSUME NEW o \in Sessions
        PROVE  /\ run'[o].at = "none" => run'[o].msg = NoMsg
               /\ run'[o].msg = NoMsg => run'[o].at = "none"
               /\ run'[o].at \in {"after", "done", "queued", "leave"} => run'[o].msg \in gone'
    <3>1. CASE o = s
      BY <3>1 DEF RunInv
    <3>2. CASE o # s
      BY <3>2 DEF RunInv
    <3> QED  BY <3>1, <3>2
  <2> QED  BY <2>1 DEF RunInv
<1>5. HandInv'
  BY DEF HandInv, Waiting
<1>6. ASSUME NEW o \in Sessions
      PROVE  run'[o].msg \in InTurn \cup {NoMsg} /\ run[o].msg \in InTurn' \cup gone'
  <2>1. CASE o = s
    BY <2>1 DEF InTurn
  <2>2. CASE o # s
    BY <2>2 DEF InTurn
  <2> QED  BY <2>1, <2>2
<1>7. InTurn' \subseteq InTurn \cup {NoMsg} /\ InTurn \subseteq InTurn' \cup gone'
  BY <1>6 DEF InTurn
<1> QED  BY <1>1, <1>2, <1>3, <1>4, <1>5, <1>7, QuietStep

\* What a worker does to its own entry.
LEMMA RunMoves ==
  ASSUME WebTypeOK, NEW s \in Sessions, NEW more \in BOOLEAN,
         NEW a \in {"post", "turn", "after", "done", "queued", "leave"},
         \/ run' = [run EXCEPT ![s].at = a]
         \/ run' = [run EXCEPT ![s].at = a, ![s].more = more]
  PROVE  /\ run' \in [Sessions -> [at : {"none", "post", "turn", "after", "done", "queued", "leave"},
                                   msg : Messages \cup {NoMsg}, more : BOOLEAN]]
         /\ \A o \in Sessions \ {s} : run'[o] = run[o]
         /\ run'[s].at = a /\ run'[s].msg = run[s].msg
BY DEF WebTypeOK

LEMMA WorkerSteps ==
  ASSUME WebIInv, NEW s \in Sessions, Worker(s)
  PROVE  WebIInv'
<1> USE WebFacts DEF WebIInv, WebTypeOK, ghosts, usage
<1>0. UNCHANGED slotVars => SlotTypeOK' /\ scan' = scan
  BY DEF SlotTypeOK, slotVars
<1>1. CASE ReportRunning(s)
  <2>1. run' = [run EXCEPT ![s].at = "turn"] /\ run[s].at # "none"
    BY <1>1 DEF ReportRunning
  <2>2. /\ run' \in [Sessions -> [at : {"none", "post", "turn", "after", "done", "queued", "leave"},
                                  msg : Messages \cup {NoMsg}, more : BOOLEAN]]
        /\ \A o \in Sessions \ {s} : run'[o] = run[o]
        /\ run'[s].at = "turn" /\ run'[s].msg = run[s].msg
    BY <2>1, RunMoves
  <2> QED  BY <1>0, <1>1, <2>1, <2>2, WorkerStep DEF ReportRunning, Show
<1>2. CASE TurnEnds(s)
  <2>1. run' = [run EXCEPT ![s].at = "after"] /\ run[s].at # "none"
    BY <1>2 DEF TurnEnds
  <2>2. /\ run' \in [Sessions -> [at : {"none", "post", "turn", "after", "done", "queued", "leave"},
                                  msg : Messages \cup {NoMsg}, more : BOOLEAN]]
        /\ \A o \in Sessions \ {s} : run'[o] = run[o]
        /\ run'[s].at = "after" /\ run'[s].msg = run[s].msg
    BY <2>1, RunMoves
  <2>3. run[s].msg \in Messages
    BY <1>2 DEF TurnEnds, RunInv
  <2>4. SlotTypeOK' /\ scan' = scan
    BY <1>2, SlotTypes DEF TurnEnds, SlotMove, Release
  <2> QED  BY <1>2, <2>1, <2>2, <2>3, <2>4, WorkerStep DEF TurnEnds
<1>3. CASE SeeMore(s)
  <2>0. PICK more \in BOOLEAN : run' = [run EXCEPT ![s].at = "done", ![s].more = more]
    BY <1>3 DEF SeeMore
  <2>1. /\ run[s].at # "none"
        /\ run[s].msg \in gone /\ queuedAt' \subseteq Sessions
    BY <1>3 DEF SeeMore, RunInv
  <2>2. /\ run' \in [Sessions -> [at : {"none", "post", "turn", "after", "done", "queued", "leave"},
                                  msg : Messages \cup {NoMsg}, more : BOOLEAN]]
        /\ \A o \in Sessions \ {s} : run'[o] = run[o]
        /\ run'[s].at = "done" /\ run'[s].msg = run[s].msg
    BY <2>0, RunMoves
  <2>3. UNCHANGED <<slotVars, lease, up, hand, queue, seen, toReport, disk, shown, flags, mishaps, tgTurns,
                    starts, gone, late, exposed, pressed>>
    BY <1>3 DEF SeeMore
  <2> QED  BY <1>0, <2>1, <2>2, <2>3, WorkerStep
<1>4. CASE ReportDone(s)
  <2>1. PICK a \in {"queued", "leave"} : run' = [run EXCEPT ![s].at = a]
    BY <1>4 DEF ReportDone
  <2>2. run[s].msg \in gone /\ run[s].at # "none"
    BY <1>4 DEF ReportDone, RunInv
  <2>3. /\ run' \in [Sessions -> [at : {"none", "post", "turn", "after", "done", "queued", "leave"},
                                  msg : Messages \cup {NoMsg}, more : BOOLEAN]]
        /\ \A o \in Sessions \ {s} : run'[o] = run[o]
        /\ run'[s].at = a /\ run'[s].msg = run[s].msg
    BY <2>1, RunMoves
  <2>4. run'[s].at # "none"
    BY <2>3
  <2>5. UNCHANGED <<slotVars, lease, up, hand, queue, seen, queuedAt, toReport, disk, flags, mishaps, tgTurns,
                    starts, gone, late, exposed, pressed>>
    BY <1>4 DEF ReportDone
  <2>6. shown' \in [Sessions -> {"none", "queued", "running", "done", "cancelled"}]
    BY <1>4 DEF ReportDone, Show
  <2> QED  BY <1>0, <2>2, <2>3, <2>4, <2>5, <2>6, WorkerStep
<1>5. CASE ReportMore(s)
  <2>1. run' = [run EXCEPT ![s].at = "leave"] /\ run[s].at # "none" /\ run[s].msg \in gone
    BY <1>5 DEF ReportMore, RunInv
  <2>2. /\ run' \in [Sessions -> [at : {"none", "post", "turn", "after", "done", "queued", "leave"},
                                  msg : Messages \cup {NoMsg}, more : BOOLEAN]]
        /\ \A o \in Sessions \ {s} : run'[o] = run[o]
        /\ run'[s].at = "leave" /\ run'[s].msg = run[s].msg
    BY <2>1, RunMoves
  <2> QED  BY <1>0, <1>5, <2>1, <2>2, WorkerStep DEF ReportMore, Show
<1>6. CASE Leave(s)
  <2>1. run[s].msg \in gone /\ run[s].at # "none" /\ run' = [run EXCEPT ![s] = NoRun]
    BY <1>6 DEF Leave, RunInv
  <2>2. NoRun \in [at : {"none", "post", "turn", "after", "done", "queued", "leave"},
                   msg : Messages \cup {NoMsg}, more : BOOLEAN]
    BY DEF NoRun
  <2>3. /\ run' \in [Sessions -> [at : {"none", "post", "turn", "after", "done", "queued", "leave"},
                                  msg : Messages \cup {NoMsg}, more : BOOLEAN]]
        /\ \A o \in Sessions \ {s} : run'[o] = run[o]
        /\ run'[s] = NoRun
    BY <2>1, <2>2
  <2> QED  BY <1>0, <1>6, <2>1, <2>3, WorkerStep DEF Leave
<1> QED  BY <1>1, <1>2, <1>3, <1>4, <1>5, <1>6 DEF Worker

-----------------------------------------------------------------------------
(* The leases.                                                                 *)

LEMMA LeaseSteps ==
  ASSUME WebIInv,
         Ack \/ \E m \in Messages : LeaseEnds(m) \/ HandOut(m)
  PROVE  WebIInv'
<1> USE WebFacts DEF WebIInv, WebTypeOK, ghosts, usage, memory
<1>0. UNCHANGED slotVars => SlotTypeOK' /\ scan' = scan
  BY DEF SlotTypeOK, slotVars
<1>a. UNCHANGED disk => Waiting(disk)' = Waiting(disk)
  BY DEF Waiting
<1>b. UNCHANGED run => InTurn' = InTurn
  BY DEF InTurn
<1>1. CASE Ack
  <2>1. hand.msg \in Messages /\ hand.msg \in seen /\ hand.msg \in Keep
    BY <1>1 DEF Ack, HandInv, KeptInv
  <2>2. /\ UNCHANGED <<slotVars, up, disk, queue, seen, run, queuedAt, toReport, shown, flags, usage, ghosts>>
        /\ hand' = NoMessage
        /\ lease' = [lease EXCEPT ![hand.msg] = "acked"] \/ lease' = lease
    BY <1>1 DEF Ack
  <2>3. Keep' = Keep
    BY <1>a, <1>b, <2>2 DEF Keep
  <2>4. /\ lease' \in [Messages -> {"pending", "leased", "acked"}]
        /\ \A m \in Messages : lease'[m] = lease[m] \/ (m = hand.msg /\ lease'[m] = "acked")
    BY <2>1, <2>2
  <2>5. WebTypeOK'
    BY <1>0, <2>2, <2>4 DEF Queues, NoMessage
  <2>6. MemInv' /\ ScanInv' /\ RunInv'
    BY <1>0, <2>2 DEF MemInv, ScanInv, RunInv, Scanning
  <2>7. HandInv'
    BY <2>2 DEF HandInv
  <2>8. KeptInv'
    BY <1>a, <1>b, <2>1, <2>2, <2>3, <2>4 DEF KeptInv
  <2>9. OnceInv'
    BY <1>a, <2>2, <2>4 DEF OnceInv
  <2>10. Orderly(disk, late)'
    BY <2>2 DEF OrderInv, Orderly
  <2>11. \A m \in Messages : lease'[m] # "pending" \/ m \in late <=> lease[m] # "pending" \/ m \in late
    BY <1>1, <2>4 DEF Ack, HandInv
  <2>12. \A m \in Waiting(disk) : m \in Messages
    BY WaitingIs, QueueTypes
  <2>13. OrderInv'
    BY <1>a, <2>2, <2>10, <2>11, <2>12 DEF OrderInv
  <2> QED  BY <2>2, <2>5, <2>6, <2>7, <2>8, <2>9, <2>13
<1>2. ASSUME NEW m \in Messages, LeaseEnds(m)
      PROVE  WebIInv'
  <2>1. /\ UNCHANGED <<slotVars, up, hand, queue, seen, run, queuedAt, toReport, disk, shown, flags, tgTurns, starts, gone, exposed, pressed>>
        /\ lease' = [lease EXCEPT ![m] = "pending"] /\ late' = late \cup {m} /\ lease[m] = "leased"
        /\ mishaps' = mishaps + 1
    BY <1>2 DEF LeaseEnds, Mishap
  <2>2. /\ lease' \in [Messages -> {"pending", "leased", "acked"}]
        /\ lease'[m] = "pending" /\ \A n \in Messages \ {m} : lease'[n] = lease[n]
    BY <2>1
  <2>3. Keep' = Keep
    BY <1>a, <1>b, <2>1 DEF Keep
  <2>4. WebTypeOK'
    BY <1>0, <2>1, <2>2 DEF Queues
  <2>5. MemInv' /\ ScanInv' /\ RunInv'
    BY <1>0, <2>1 DEF MemInv, ScanInv, RunInv, Scanning
  <2>6. HandInv'
    BY <1>a, <2>1, <2>2 DEF HandInv
  <2>7. KeptInv'
    BY <1>a, <1>b, <2>1, <2>2, <2>3 DEF KeptInv
  <2>8. OnceInv'
    BY <1>a, <2>1, <2>2 DEF OnceInv
  <2>9. Orderly(disk, late)'
    BY <2>1 DEF OrderInv, Orderly
  <2>10. OrderInv'
    BY <1>a, <2>1, <2>2, <2>9 DEF OrderInv
  <2> QED  BY <2>1, <2>4, <2>5, <2>6, <2>7, <2>8, <2>10
<1>3. ASSUME NEW m \in Messages, HandOut(m)
      PROVE  WebIInv'
  <2>1. /\ UNCHANGED <<slotVars, up, queue, seen, run, queuedAt, toReport, disk, shown, flags, usage, ghosts>>
        /\ lease' = [lease EXCEPT ![m] = "leased"] /\ lease[m] = "pending" /\ up
        /\ hand' = [at |-> "file", msg |-> m, session |-> SessionOf[m]]
        /\ \A n \in Messages : n < m /\ SessionOf[n] = SessionOf[m] => lease[n] # "pending"
    BY <1>3 DEF HandOut
  <2>2. /\ lease' \in [Messages -> {"pending", "leased", "acked"}]
        /\ lease'[m] = "leased" /\ \A n \in Messages \ {m} : lease'[n] = lease[n]
    BY <2>1
  <2>3. Keep' = Keep
    BY <1>a, <1>b, <2>1 DEF Keep
  <2>4. WebTypeOK'
    BY <1>0, <2>1, <2>2 DEF Queues
  <2>5. MemInv' /\ ScanInv' /\ RunInv'
    BY <1>0, <2>1 DEF MemInv, ScanInv, RunInv, Scanning
  <2>6. \A n \in Waiting(disk) : n \in Messages
    BY WaitingIs, QueueTypes
  <2>7. \A n \in Waiting(disk) : SessionOf[n] = SessionOf[m] /\ m < n => m \in late
    BY <2>1, <2>6 DEF OrderInv
  <2>8. HandInv'
    BY <1>a, <2>1, <2>2, <2>7 DEF HandInv
  <2>9. KeptInv'
    BY <1>a, <1>b, <2>1, <2>2, <2>3 DEF KeptInv
  <2>10. OnceInv'
    BY <1>a, <2>1, <2>2 DEF OnceInv
  <2>11. Orderly(disk, late)'
    BY <2>1 DEF OrderInv, Orderly
  <2>12. OrderInv'
    BY <1>a, <2>1, <2>2, <2>11 DEF OrderInv
  <2> QED  BY <2>1, <2>4, <2>5, <2>8, <2>9, <2>10, <2>12
<1> QED  BY <1>1, <1>2, <1>3

-----------------------------------------------------------------------------
(* The queues.                                                                 *)

LEMMA FileStep ==
  ASSUME WebIInv, File
  PROVE  WebIInv'
<1> USE WebFacts DEF WebIInv, WebTypeOK, ghosts, usage
<1> DEFINE m == hand.msg  s == hand.session
<1>1. /\ hand.at = "file" /\ hand' = [hand EXCEPT !.at = "ack"] /\ ~Scanning("web")
      /\ UNCHANGED <<slotVars, lease, up, run, queuedAt, toReport, shown, flags, mishaps, tgTurns,
                     starts, gone, late, exposed, pressed>>
  BY DEF File, Locked
<1>2. up /\ disk = queue
  BY <1>1 DEF MemInv
<1>3. m \in Messages /\ s = SessionOf[m] /\ s \in Sessions /\ lease[m] # "acked" /\ (lease[m] = "leased" \/ m \in late)
  BY <1>1 DEF HandInv
<1>4. SlotTypeOK' /\ scan' = scan
  BY <1>1 DEF SlotTypeOK, slotVars
<1>5. InTurn' = InTurn
  BY <1>1 DEF InTurn
<1>6. /\ hand' \in [at : {"none", "file", "ack", "cancel", "find", "flag"},
                    msg : Messages \cup {NoMsg}, session : Turns]
      /\ hand'.at = "ack" /\ hand'.msg = m /\ hand'.session = s
  BY <1>1
<1>7. CASE IsKnown(m)
  <2>1. UNCHANGED <<queue, seen, disk>>
    BY <1>7 DEF File
  <2>2. m \in seen
    BY <1>2, <1>3, <1>7 DEF IsKnown, KeptInv, InTurn
  <2>3. HandInv'
    BY <1>1, <1>3, <1>6, <2>1, <2>2 DEF HandInv
  <2>4. WebTypeOK'
    BY <1>1, <1>4, <1>6, <2>1 DEF Queues
  <2>5. MemInv' /\ ScanInv' /\ RunInv'
    BY <1>1, <1>2, <1>4, <2>1 DEF MemInv, ScanInv, RunInv, Scanning
  <2> QED  BY <1>1, <1>5, <2>1, <2>3, <2>4, <2>5, QuietStep
<1>8. CASE ~IsKnown(m)
  <2>1. queue' = [queue EXCEPT ![s] = Append(@, m)] /\ disk' = queue' /\ seen' = seen \cup {m}
    BY <1>8 DEF File, Persist
  <2>2. m \notin seen /\ m \notin Waiting(disk)
    BY <1>2, <1>8 DEF IsKnown
  <2>3. disk' \in Queues /\ disk'[s] = Append(disk[s], m) /\ \A o \in Sessions \ {s} : disk'[o] = disk[o]
    BY <1>2, <1>3, <2>1 DEF Queues
  <2>4. \A x : x \in Waiting(disk') <=> x \in Waiting(disk) \/ x = m
    <3>1. disk \in Queues
      OBVIOUS
    <3> HIDE DEF WebIInv, WebTypeOK, m, s
    <3> QED  BY ONLY <1>3, <2>3, <3>1, QueueAppend
  <2>5. Waiting(disk)' = Waiting(disk) \cup {m}
    BY <2>4 DEF Waiting
  <2>6. Keep' = Keep \cup {m}
    BY <1>1, <1>5, <2>5 DEF Keep
  <2>7. WebTypeOK'
    BY <1>1, <1>3, <1>4, <1>6, <2>1, <2>3
  <2>8. MemInv' /\ RunInv'
    BY <1>1, <1>2, <2>1 DEF MemInv, RunInv
  <2>9. ScanInv'
    BY <1>1, <1>4 DEF ScanInv, Scanning
  <2>10. HandInv'
    BY <1>1, <1>3, <1>6, <2>1 DEF HandInv
  <2>11. KeptInv'
    BY <1>1, <1>5, <2>1, <2>5, <2>6 DEF KeptInv
  <2>12. OnceInv'
    BY <1>1, <1>3, <2>1, <2>2, <2>5 DEF OnceInv
  <2>13. Orderly(disk', late)
    <3>1. \A n \in Waiting(disk) : SessionOf[n] = s /\ m < n => m \in late
      BY <1>1 DEF HandInv
    <3>2. disk \in Queues /\ Orderly(disk, late)
      BY DEF OrderInv
    <3> HIDE DEF WebIInv, WebTypeOK, m, s
    <3> QED  BY ONLY <1>3, <2>2, <2>3, <3>1, <3>2, AppendKeepsOrder
  <2>14. Orderly(disk, late)'
    BY <1>1, <2>13 DEF Orderly
  <2>15. OrderInv'
    BY <1>1, <1>3, <2>5, <2>14 DEF OrderInv
  <2> QED  BY <1>1, <2>7, <2>8, <2>9, <2>10, <2>11, <2>12, <2>15
<1> QED  BY <1>7, <1>8

LEMMA CancelStep ==
  ASSUME WebIInv, CancelQueued
  PROVE  WebIInv'
<1> USE WebFacts DEF WebIInv, WebTypeOK, ghosts, usage
<1> DEFINE s == hand.session
<1>1. /\ hand.at = "cancel" /\ hand' = NoMessage /\ ~Scanning("web") /\ run[s].at = "none"
      /\ gone' = gone \cup {queue[s][i] : i \in DOMAIN queue[s]}
      /\ queue' = [queue EXCEPT ![s] = <<>>] /\ disk' = queue' /\ queuedAt' = queuedAt \ {s}
      /\ shown' = [shown EXCEPT ![s] = "cancelled"]
      /\ UNCHANGED <<slotVars, lease, up, seen, run, toReport, flags, mishaps, tgTurns, starts,
                     late, exposed, pressed>>
  BY DEF CancelQueued, Locked, Persist, Show
<1>2. up /\ disk = queue
  BY <1>1 DEF MemInv
<1>3. s \in Sessions
  BY <1>1 DEF HandInv
<1>4. SlotTypeOK' /\ scan' = scan
  BY <1>1 DEF SlotTypeOK, slotVars
<1>5. InTurn' = InTurn
  BY <1>1 DEF InTurn
<1>6. disk' \in Queues /\ disk'[s] = <<>> /\ \A o \in Sessions \ {s} : disk'[o] = disk[o]
  <2>1. <<>> \in Seq(Messages)
    OBVIOUS
  <2> QED  BY <1>1, <1>2, <1>3, <2>1 DEF Queues
<1>7. /\ disk' \in Queues /\ Waiting(disk') \subseteq Waiting(disk)
      /\ Waiting(disk) \subseteq Waiting(disk') \cup {disk[s][i] : i \in DOMAIN disk[s]}
      /\ Orderly(disk', late)
  <2>1. disk \in Queues /\ Orderly(disk, late)
    BY DEF OrderInv
  <2> HIDE DEF WebIInv, WebTypeOK, s
  <2> QED  BY ONLY <1>3, <1>6, <2>1, QueueCleared
<1>8. /\ Waiting(disk)' \subseteq Waiting(disk)
      /\ Waiting(disk) \subseteq Waiting(disk)' \cup gone'
  <2>1. Waiting(disk') = Waiting(disk)'
    BY DEF Waiting
  <2>2. {disk[s][i] : i \in DOMAIN disk[s]} \subseteq gone'
    BY ONLY <1>1, <1>2
  <2> QED  BY ONLY <1>7, <2>1, <2>2
<1>9. gone' \subseteq Messages
  <2>1. \A i \in DOMAIN queue[s] : queue[s][i] \in Messages
    BY <1>3, QueueTypes
  <2>2. gone \subseteq Messages
    OBVIOUS
  <2> HIDE DEF s
  <2> QED  BY ONLY <1>1, <2>1, <2>2
<1>10. Keep \subseteq Keep'
  BY <1>1, <1>5, <1>8 DEF Keep
<1>11. WebTypeOK'
  BY <1>1, <1>3, <1>4, <1>7, <1>9 DEF NoMessage
<1>12. MemInv' /\ RunInv' /\ HandInv'
  BY <1>1, <1>2 DEF MemInv, RunInv, HandInv
<1>13. ScanInv'
  BY <1>1, <1>4 DEF ScanInv, Scanning
<1>14. KeptInv'
  BY <1>1, <1>5, <1>8, <1>10 DEF KeptInv
<1>15. OnceInv'
  BY <1>1, <1>8 DEF OnceInv
<1>16. Orderly(disk, late)'
  BY <1>1, <1>7 DEF Orderly
<1>17. OrderInv'
  BY <1>1, <1>8, <1>16 DEF OrderInv
<1> QED  BY <1>1, <1>11, <1>12, <1>13, <1>14, <1>15, <1>17

LEMMA StartStep ==
  ASSUME WebIInv, StartTurn
  PROVE  WebIInv'
<1> USE WebFacts DEF WebIInv, WebTypeOK, ghosts, usage
<1> DEFINE s == scan["web"].turn  m == queue[s][1]
<1>1. /\ Create("web") /\ queue' = [queue EXCEPT ![s] = Tail(@)]
      /\ run' = [run EXCEPT ![s] = [at |-> "post", msg |-> m, more |-> FALSE]]
      /\ queuedAt' = queuedAt \ {s} /\ disk' = queue' /\ starts' = [starts EXCEPT ![m] = @ + 1]
      /\ UNCHANGED <<lease, up, hand, seen, toReport, shown, flags, mishaps, tgTurns, gone, late,
                     exposed, pressed>>
  BY DEF StartTurn, Persist
<1>2. Scanning("web")
  BY <1>1 DEF Create, Scanning
<1>3. up /\ disk = queue
  BY <1>2 DEF MemInv
<1>4. s \in Sessions /\ queue[s] # <<>> /\ run[s].at = "none"
  BY <1>2 DEF ScanInv
<1>5. SlotTypeOK' /\ ~Scanning("web")'
  <2>1. SlotTypeOK'
    BY <1>1, SlotTypes DEF SlotMove, Scan
  <2>2. ~Scanning("web")'
    BY <1>1 DEF Create, StopScan, Scanning, SlotTypeOK, NotScanning
  <2> QED  BY <2>1, <2>2
<1>6. disk' \in Queues /\ disk'[s] = Tail(disk[s]) /\ \A o \in Sessions \ {s} : disk'[o] = disk[o]
  <2>1. Tail(disk[s]) \in Seq(Messages)
    BY <1>3, <1>4 DEF Queues
  <2> QED  BY <1>1, <1>3, <1>4, <2>1 DEF Queues
<1>7. /\ disk' \in Queues /\ m \in Messages /\ m \in Waiting(disk)
      /\ Waiting(disk') = Waiting(disk) \ {m} /\ Orderly(disk', late)
  <2>1. disk \in Queues /\ Orderly(disk, late) /\ disk[s] # <<>> /\ m = disk[s][1]
    BY <1>3, <1>4 DEF OrderInv
  <2> HIDE DEF WebIInv, WebTypeOK, m, s
  <2> QED  BY ONLY <1>4, <1>6, <2>1, QueueTail
<1>8. Waiting(disk)' = Waiting(disk) \ {m}
  BY <1>7 DEF Waiting
<1>9. /\ run' \in [Sessions -> [at : {"none", "post", "turn", "after", "done", "queued", "leave"},
                                msg : Messages \cup {NoMsg}, more : BOOLEAN]]
      /\ \A o \in Sessions \ {s} : run'[o] = run[o]
      /\ run'[s].at = "post" /\ run'[s].msg = m
  BY <1>1, <1>4, <1>7
<1>10. run[s].msg = NoMsg
  BY <1>4 DEF RunInv
<1>11. InTurn' \subseteq InTurn \cup {m} /\ InTurn \cup {m} \subseteq InTurn' \cup {NoMsg}
  <2>1. \A o \in Sessions : run'[o].msg \in InTurn \cup {m} /\ run[o].msg \in InTurn' \cup {NoMsg}
    BY <1>9, <1>10 DEF InTurn
  <2>2. m \in InTurn'
    BY <1>4, <1>9 DEF InTurn
  <2> QED  BY <2>1, <2>2 DEF InTurn
<1>12. Keep \subseteq Keep' \cup {NoMsg}
  BY <1>1, <1>8, <1>11 DEF Keep
<1>13. m \in seen /\ (m \notin exposed => starts[m] = 0)
  BY <1>3, <1>7 DEF KeptInv, OnceInv
<1>14. /\ starts' \in [Messages -> Nat] /\ starts'[m] = starts[m] + 1
       /\ \A n \in Messages \ {m} : starts'[n] = starts[n]
  <2>1. starts \in [Messages -> Nat]
    OBVIOUS
  <2> HIDE DEF m, s
  <2> QED  BY ONLY <1>1, <1>7, <2>1
<1>15. WebTypeOK'
  BY <1>1, <1>5, <1>7, <1>9, <1>14
<1>16. MemInv' /\ ScanInv'
  BY <1>1, <1>3, <1>5 DEF MemInv, ScanInv
<1>17. RunInv'
  <2>1. ASSUME NEW o \in Sessions
        PROVE  /\ run'[o].at = "none" => run'[o].msg = NoMsg
               /\ run'[o].msg = NoMsg => run'[o].at = "none"
               /\ run'[o].at \in {"after", "done", "queued", "leave"} => run'[o].msg \in gone'
    <3>1. CASE o = s
      BY <1>7, <1>9, <3>1
    <3>2. CASE o # s
      BY <1>1, <1>9, <3>2 DEF RunInv
    <3> QED  BY <3>1, <3>2
  <2> QED  BY <2>1 DEF RunInv
<1>18. HandInv'
  BY <1>1, <1>8 DEF HandInv
<1>19. KeptInv'
  BY <1>1, <1>8, <1>11, <1>12, <1>13 DEF KeptInv
<1>20. OnceInv'
  <2>1. ASSUME NEW n \in Messages \ exposed
        PROVE  /\ starts'[n] <= 1
               /\ n \in Waiting(disk)' => starts'[n] = 0
               /\ starts'[n] # 0 => n \in seen \/ lease[n] = "acked"
    <3>1. CASE n = m
      BY <1>8, <1>13, <1>14, <2>1, <3>1
    <3>2. CASE n # m
      BY <1>8, <1>14, <2>1, <3>2 DEF OnceInv
    <3> QED  BY <3>1, <3>2
  <2> QED  BY <1>1, <2>1 DEF OnceInv
<1>21. Orderly(disk, late)'
  BY <1>1, <1>7 DEF Orderly
<1>22. OrderInv'
  BY <1>1, <1>8, <1>21 DEF OrderInv
<1> QED  BY <1>1, <1>15, <1>16, <1>17, <1>18, <1>19, <1>20, <1>22

-----------------------------------------------------------------------------
(* Death and restart.                                                          *)

LEMMA DieStep ==
  ASSUME WebIInv, Die
  PROVE  WebIInv'
<1> USE WebFacts DEF WebIInv, WebTypeOK, ghosts, usage
<1>1. /\ BridgeDies("web") /\ up /\ up' = FALSE /\ mishaps' = mishaps + 1
      /\ gone' = gone \cup ({run[s].msg : s \in Sessions} \ {NoMsg})
      /\ exposed' = exposed \cup {m \in seen : lease[m] # "acked"}
      /\ hand' = NoMessage /\ queue' = [s \in Sessions |-> <<>>] /\ seen' = {}
      /\ run' = [s \in Sessions |-> NoRun] /\ queuedAt' = {} /\ toReport' = {}
      /\ UNCHANGED <<lease, disk, flags, tgTurns, starts, late, pressed>>
  BY DEF Die, Mishap
<1>2. shown' \in [Sessions -> {"none", "queued", "running", "done", "cancelled"}]
  BY DEF Die
<1>3. SlotTypeOK' /\ ~Scanning("web")'
  <2>1. SlotTypeOK'
    BY <1>1, SlotTypes DEF SlotMove
  <2>2. ~Scanning("web")'
    BY <1>1 DEF BridgeDies, StopScan, Scanning, SlotTypeOK, NotScanning
  <2> QED  BY <2>1, <2>2
<1>4. /\ run' \in [Sessions -> [at : {"none", "post", "turn", "after", "done", "queued", "leave"},
                                msg : Messages \cup {NoMsg}, more : BOOLEAN]]
      /\ \A s \in Sessions : run'[s].at = "none" /\ run'[s].msg = NoMsg
  BY <1>1 DEF NoRun
<1>5. InTurn' \subseteq {NoMsg} /\ InTurn \subseteq gone' \cup {NoMsg}
  BY <1>1, <1>4 DEF InTurn
<1>6. gone' \subseteq Messages /\ exposed' \subseteq Messages
  <2>1. \A s \in Sessions : run[s].msg \in Messages \cup {NoMsg}
    OBVIOUS
  <2>2. gone \subseteq Messages /\ exposed \subseteq Messages /\ seen \subseteq Messages
    OBVIOUS
  <2> QED  BY ONLY <1>1, <2>1, <2>2
<1>7. queue' \in Queues
  <2>1. <<>> \in Seq(Messages)
    OBVIOUS
  <2> QED  BY <1>1, <2>1 DEF Queues
<1>8. Waiting(disk)' = Waiting(disk)
  BY <1>1 DEF Waiting
<1>9. Keep \subseteq Keep' \cup {NoMsg}
  BY <1>1, <1>5, <1>8 DEF Keep
<1>10. WebTypeOK'
  <2>1. hand' \in [at : {"none", "file", "ack", "cancel", "find", "flag"},
                   msg : Messages \cup {NoMsg}, session : Turns]
    BY <1>1 DEF NoMessage
  <2>2. {mishaps, tgTurns}' \subseteq Nat
    <3>1. mishaps \in Nat /\ tgTurns \in Nat
      OBVIOUS
    <3> QED  BY ONLY <1>1, <3>1
  <2>3. disk' \in Queues
    BY <1>1
  <2>4. /\ lease' \in [Messages -> {"pending", "leased", "acked"}] /\ starts' \in [Messages -> Nat]
        /\ flags' \subseteq Messages \cup Sessions /\ late' \subseteq Messages /\ pressed' \subseteq Messages
    BY <1>1
  <2>5. up' \in BOOLEAN /\ seen' \subseteq Messages /\ queuedAt' \subseteq Sessions /\ toReport' \subseteq Sessions
    BY <1>1
  <2> QED  BY <1>2, <1>3, <1>4, <1>6, <1>7, <2>1, <2>2, <2>3, <2>4, <2>5
<1>11. MemInv' /\ ScanInv' /\ RunInv' /\ HandInv'
  BY <1>1, <1>3, <1>4 DEF MemInv, ScanInv, RunInv, HandInv
<1>12. KeptInv'
  BY <1>1, <1>5, <1>9 DEF KeptInv
<1>13. OnceInv'
  BY <1>1, <1>8 DEF OnceInv
<1>14. Orderly(disk, late)'
  BY <1>1 DEF OrderInv, Orderly
<1>15. OrderInv'
  BY <1>1, <1>8, <1>14 DEF OrderInv
<1> QED  BY <1>1, <1>10, <1>11, <1>12, <1>13, <1>15

LEMMA RestartStep ==
  ASSUME WebIInv, Restart
  PROVE  WebIInv'
<1> USE WebFacts DEF WebIInv, WebTypeOK, ghosts, usage
<1>1. /\ ~up /\ up' = TRUE /\ flags' = {} /\ queue' = disk /\ seen' = Waiting(disk)
      /\ queuedAt' = {s \in Sessions : disk[s] # <<>>}
      /\ UNCHANGED <<slotVars, lease, hand, run, toReport, disk, mishaps, tgTurns, starts, gone, late,
                     exposed, pressed>>
  BY DEF Restart
<1>2. shown' \in [Sessions -> {"none", "queued", "running", "done", "cancelled"}]
  BY DEF Restart
<1>3. SlotTypeOK' /\ scan' = scan
  BY <1>1 DEF SlotTypeOK, slotVars
<1>4. hand.at = "none" /\ ~Scanning("web") /\ seen = {} /\ \A s \in Sessions : run[s].msg = NoMsg
  BY <1>1 DEF MemInv, RunInv
<1>5. Waiting(disk) \subseteq Messages
  <2>1. \A m \in Waiting(disk) : m \in Messages
    BY WaitingIs, QueueTypes
  <2> QED  BY <2>1
<1>6. Waiting(disk)' = Waiting(disk) /\ InTurn' = InTurn /\ InTurn \subseteq {NoMsg}
  BY <1>1, <1>4 DEF Waiting, InTurn
<1>7. Keep' = Keep
  BY <1>1, <1>6 DEF Keep
<1>8. WebTypeOK'
  BY <1>1, <1>2, <1>3, <1>5
<1>9. MemInv' /\ RunInv' /\ HandInv'
  BY <1>1, <1>4 DEF MemInv, RunInv, HandInv
<1>10. ScanInv'
  BY <1>3, <1>4 DEF ScanInv, Scanning
<1>11. KeptInv'
  BY <1>1, <1>6, <1>7 DEF KeptInv, Keep
<1>12. OnceInv'
  BY <1>1, <1>4, <1>6 DEF OnceInv
<1>13. Orderly(disk, late)'
  BY <1>1 DEF OrderInv, Orderly
<1>14. OrderInv'
  BY <1>1, <1>6, <1>13 DEF OrderInv
<1> QED  BY <1>1, <1>8, <1>9, <1>10, <1>11, <1>12, <1>14

LEMMA WebStart == WebInit => WebIInv
<1> USE WebFacts
<1> SUFFICES ASSUME WebInit PROVE WebIInv
  OBVIOUS
<1>1. SlotTypeOK
  BY NotScanningType DEF WebInit, SlotInit, SlotTypeOK
<1>2. /\ lease = [m \in Messages |-> "pending"] /\ up = TRUE /\ hand = NoMessage
      /\ queue = [s \in Sessions |-> <<>>] /\ disk = queue /\ seen = {}
      /\ run = [s \in Sessions |-> NoRun]
      /\ queuedAt = {} /\ toReport = {}
      /\ shown = [s \in Sessions |-> "none"] /\ flags = {}
      /\ mishaps = 0 /\ tgTurns = 0
      /\ starts = [m \in Messages |-> 0]
      /\ gone = {} /\ late = {} /\ exposed = {} /\ pressed = {}
  BY DEF WebInit
<1>3. queue \in Queues
  <2>1. <<>> \in Seq(Messages)
    OBVIOUS
  <2> QED  BY <1>2, <2>1 DEF Queues
<1>4. WebTypeOK
  BY <1>1, <1>2, <1>3 DEF WebTypeOK, NoMessage, NoRun
<1>5. Waiting(disk) = {} /\ Orderly(disk, late)
  BY <1>2, <1>3, NothingWaits
<1>6. ~Scanning("web")
  BY DEF WebInit, SlotInit, Scanning, NotScanning
<1>7. MemInv /\ ScanInv /\ RunInv /\ HandInv
  BY <1>2, <1>6 DEF MemInv, ScanInv, RunInv, HandInv
<1>8. InTurn \subseteq {NoMsg}
  BY <1>2 DEF InTurn
<1>9. KeptInv /\ OnceInv /\ OrderInv
  BY <1>2, <1>5, <1>8 DEF KeptInv, OnceInv, OrderInv
<1> QED  BY <1>2, <1>4, <1>7, <1>9 DEF WebIInv

LEMMA WebStep == WebIInv /\ [WebNext]_webVars => WebIInv'
<1> SUFFICES ASSUME WebIInv, [WebNext]_webVars PROVE WebIInv'
  OBVIOUS
<1>1. CASE PollThread
  BY <1>1, LeaseSteps, FileStep, CancelStep, ThreadSteps DEF PollThread
<1>2. CASE Dispatcher
  BY <1>2, SlotSteps, ThreadSteps, StartStep DEF Dispatcher
<1>3. CASE StartFails \/ TelegramTurn \/ Age
  BY <1>3, SlotSteps
<1>4. CASE Die \/ Restart
  BY <1>4, DieStep, RestartStep
<1>5. CASE \E s \in Sessions : Worker(s) \/ PressStop(s)
  BY <1>5, WorkerSteps, ThreadSteps
<1>6. CASE \E m \in Messages : LeaseEnds(m)
  BY <1>6, LeaseSteps
<1>7. CASE UNCHANGED webVars
  <2>1. UNCHANGED <<slot, held, scan, lease, up, hand, queue, seen, run, queuedAt, toReport, disk, shown,
                    flags, mishaps, tgTurns, starts, gone, late, exposed, pressed>>
    BY <1>7 DEF webVars, slotVars, memory, ghosts, usage
  <2>2. WebTypeOK'
    BY <2>1 DEF WebIInv, WebTypeOK, SlotTypeOK, Queues
  <2>3. MemInv' /\ ScanInv' /\ RunInv' /\ HandInv'
    BY <2>1 DEF WebIInv, MemInv, ScanInv, RunInv, HandInv, Scanning, Waiting
  <2>4. InTurn' = InTurn
    BY <2>1 DEF InTurn
  <2> QED  BY <2>1, <2>2, <2>3, <2>4, QuietStep DEF WebIInv
<1> QED  BY <1>1, <1>2, <1>3, <1>4, <1>5, <1>6, <1>7 DEF WebNext

\* The message a turn starts with is the first of its queue; whatever waits behind
\* it was sent later or came back late.
LEMMA StartIsFirst ==
  ASSUME WebIInv, [WebNext]_webVars
  PROVE  InOrderStep
<1> USE WebFacts
<1> SUFFICES ASSUME NEW m \in Messages, NEW n \in Messages,
                    starts'[n] > starts[n], m < n, SessionOf[m] = SessionOf[n], m \in Waiting(queue)
             PROVE  m \in late
  BY DEF InOrderStep
<1>0. /\ queue \in Queues /\ starts \in [Messages -> Nat] /\ MemInv /\ ScanInv /\ OrderInv
  BY DEF WebIInv, WebTypeOK
<1>1. CASE StartTurn
  <2> DEFINE s == scan["web"].turn
  <2>1. Scanning("web")
    BY <1>1 DEF StartTurn, Create, Scanning
  <2>2. s \in Sessions /\ queue[s] # <<>> /\ disk = queue
    BY <1>0, <2>1 DEF ScanInv, MemInv
  <2>3. starts' = [starts EXCEPT ![queue[s][1]] = @ + 1]
    BY <1>1 DEF StartTurn
  <2>4. n = queue[s][1]
    <3>1. CASE n # queue[s][1]
      <4>1. starts'[n] = starts[n]
        BY <1>0, <2>3, <3>1
      <4>2. starts[n] \in Nat
        BY <1>0
      <4> QED  BY <4>1, <4>2
    <3> QED  BY <3>1
  <2>5. /\ DOMAIN queue[s] = 1 .. Len(queue[s]) /\ Len(queue[s]) \in Nat /\ Len(queue[s]) > 0
    BY <1>0, <2>2, QueueTypes
  <2>6. \A o \in Sessions : \A i \in DOMAIN queue[o] : SessionOf[queue[o][i]] = o
    BY <1>0, <2>2 DEF OrderInv, Orderly
  <2>7. PICK o \in Sessions : \E i \in 1 .. Len(queue[o]) : queue[o][i] = m
    BY <1>0, WaitingIs
  <2>8. o = s
    <3>1. DOMAIN queue[o] = 1 .. Len(queue[o])
      BY <1>0, QueueTypes
    <3>2. SessionOf[m] = o
      BY <2>6, <2>7, <3>1
    <3>3. 1 \in DOMAIN queue[s]
      BY <2>5
    <3>4. SessionOf[n] = s
      BY <2>2, <2>4, <2>6, <3>3
    <3> QED  BY <3>2, <3>4
  <2>9. PICK i \in 1 .. Len(queue[s]) : queue[s][i] = m
    BY <2>7, <2>8
  <2>10. i # 1
    BY <2>4, <2>9
  <2>11. 1 \in DOMAIN queue[s] /\ i \in DOMAIN queue[s] /\ 1 < i
    BY <2>5, <2>9, <2>10
  <2>12. n < m \/ m \in late
    BY <1>0, <2>2, <2>4, <2>9, <2>11 DEF OrderInv, Orderly
  <2> QED  BY <2>12
<1>2. CASE ~StartTurn
  <2>1. starts' = starts
    BY <1>2 DEF WebNext, PollThread, Dispatcher, Worker, HandOut, File, Ack, CancelQueued, NothingQueued,
       FindStopFile, WriteStopFile, Dispatch, ReportQueued, WebScan, LeftWaiting, StartFails, Die, Restart,
       TelegramTurn, Age, ReportRunning, TurnEnds, SeeMore, ReportDone, ReportMore, Leave, PressStop,
       LeaseEnds, webVars, ghosts
  <2>2. starts[n] \in Nat
    BY <1>0
  <2> QED  BY <2>1, <2>2
<1> QED  BY <1>1, <1>2

\* Whatever is redelivered, lost, withdrawn or cut short, a message the api was told
\* is held is on the disk, in the queue, in a turn or over, and no message is answered
\* twice unless its ack was still out when the bridge died (_ingest, _dispatch,
\* _resume_queue), for any number of messages, conversations, slots and mishaps.
THEOREM WebExactlyOnce == WebSpec => []ExactlyOnce
<1>1. WebIInv => ExactlyOnce
  <2> SUFFICES ASSUME WebIInv PROVE ExactlyOnce
    OBVIOUS
  <2>1. Waiting(disk) = Waiting(IF up THEN queue ELSE disk)
    BY DEF WebIInv, MemInv
  <2>2. AckedIsKept
    BY <2>1 DEF AckedIsKept, WebIInv, KeptInv, Keep, InTurn
  <2>3. AnsweredOnce
    <3>1. \A m \in Messages : starts[m] \in Nat
      BY DEF WebIInv, WebTypeOK
    <3> QED  BY <3>1 DEF AnsweredOnce, WebIInv, OnceInv
  <2> QED  BY <2>2, <2>3 DEF ExactlyOnce
<1> QED  BY WebStart, WebStep, <1>1, PTL DEF WebSpec

\* A stop file kills the turn its user pressed Stop for and never a later one of the
\* conversation, because its path is minted for each turn and cleared at a restart
\* (_stop_running, _clear_stop_flags).
THEOREM WebStopHits == WebSpec => []StopHitsItsTurn
<1>1. WebIInv => StopHitsItsTurn
  BY DEF WebIInv, StopHitsItsTurn, StopFile
<1> QED  BY WebStart, WebStep, <1>1, PTL DEF WebSpec

\* The turns of a conversation start in the order its messages were sent, also after
\* a failed start and after a restart, but for messages redelivered late (_dispatch).
THEOREM WebInOrder == WebSpec => StartsInOrder
<1>1. WebIInv /\ [WebNext]_webVars => [InOrderStep]_webVars
  BY StartIsFirst
<1> QED  BY WebStart, WebStep, <1>1, PTL DEF WebSpec, StartsInOrder

\* The telegram bridge looks for a slot for its own turn; and a worker of the web
\* bridge has a slot from its start to the end of its turn, and no other turn has.
WorkersHold ==
  /\ Scanning("telegram") => scan["telegram"].turn = Telegram
  /\ \A s \in Sessions : run[s].at \in {"post", "turn"} <=> held[s] # NoSlot

LEMMA WebMovesSlots ==
  ASSUME [WebNext]_webVars
  PROVE  [SlotNext]_slotVars \/ (StopScan("web") /\ UNCHANGED <<slot, held>>)
<1> USE WebFacts DEF SlotNext, Scan
<1>1. CASE PollThread
  <2>1. UNCHANGED slotVars
    BY <1>1 DEF PollThread, HandOut, File, Ack, CancelQueued, NothingQueued, FindStopFile, WriteStopFile
  <2> QED  BY <2>1
<1>2. CASE Dispatcher
  <2>1. ASSUME NEW s \in Sessions, Dispatch(s) PROVE SlotNext
    BY <2>1 DEF Dispatch
  <2>2. CASE WebScan \/ StartTurn
    BY <2>2 DEF WebScan, StartTurn
  <2>3. ASSUME NEW s \in Sessions, ReportQueued(s) PROVE UNCHANGED slotVars
    BY <2>3 DEF ReportQueued
  <2>4. CASE LeftWaiting
    BY <2>4 DEF LeftWaiting
  <2> QED  BY <1>2, <2>1, <2>2, <2>3, <2>4 DEF Dispatcher
<1>3. CASE StartFails
  BY <1>3 DEF StartFails
<1>4. CASE Die
  BY <1>4 DEF Die
<1>5. CASE Restart
  BY <1>5 DEF Restart
<1>6. CASE TelegramTurn
  BY <1>6 DEF TelegramTurn
<1>7. CASE Age
  BY <1>7 DEF Age
<1>8. ASSUME NEW s \in Sessions, Worker(s) PROVE SlotNext \/ UNCHANGED slotVars
  BY <1>8 DEF Worker, ReportRunning, TurnEnds, SeeMore, ReportDone, ReportMore, Leave
<1>9. ASSUME NEW s \in Sessions, PressStop(s) PROVE UNCHANGED slotVars
  BY <1>9 DEF PressStop
<1>10. ASSUME NEW m \in Messages, LeaseEnds(m) PROVE UNCHANGED slotVars
  BY <1>10 DEF LeaseEnds
<1>11. CASE UNCHANGED webVars
  BY <1>11 DEF webVars
<1> QED
  BY <1>1, <1>2, <1>3, <1>4, <1>5, <1>6, <1>7, <1>8, <1>9, <1>10, <1>11 DEF WebNext

\* A dispatcher that gives up its look for a slot leaves the slots as they are.
LEMMA GivingUp ==
  ASSUME SlotIInv, StopScan("web"), UNCHANGED <<slot, held>>
  PROVE  SlotIInv'
<1> USE SlotIdsFacts, WebFacts, NotScanningType DEF SlotIInv
<1>1. SlotTypeOK'
  BY DEF SlotTypeOK, StopScan
<1>2. HeldIsFresh' /\ OneOwner'
  BY DEF HeldIsFresh, OneOwner
<1>3. ReclaimIsSafe'
  BY DEF ReclaimIsSafe, SlotTypeOK, StopScan, NotScanning
<1> QED  BY <1>1, <1>2, <1>3

LEMMA WorkersStep ==
  ASSUME WebIInv, WorkersHold, [WebNext]_webVars
  PROVE  WorkersHold'
<1> USE WebFacts
<1>0. /\ SlotTypeOK /\ ScanInv /\ Telegram \notin Sessions /\ "telegram" # "web"
      /\ \A s \in Sessions : run[s].at \in {"none", "post", "turn", "after", "done", "queued", "leave"}
      /\ run \in [Sessions -> [at : {"none", "post", "turn", "after", "done", "queued", "leave"},
                               msg : Messages \cup {NoMsg}, more : BOOLEAN]]
      /\ NoSlot \notin SlotIds
  BY SlotIdsFacts DEF WebIInv, WebTypeOK, Sessions
<1>a. ASSUME UNCHANGED <<slotVars, run>> PROVE WorkersHold'
  BY <1>a DEF slotVars, WorkersHold, Scanning
<1>b. ASSUME UNCHANGED <<held, run>>, scan'["telegram"] = scan["telegram"] PROVE WorkersHold'
  BY <1>b DEF WorkersHold, Scanning
<1>1. CASE PollThread
  <2>1. UNCHANGED <<slotVars, run>>
    BY <1>1 DEF PollThread, HandOut, File, Ack, CancelQueued, NothingQueued, FindStopFile, WriteStopFile
  <2> QED  BY <1>a, <2>1
<1>2. CASE Dispatcher
  <2>1. ASSUME NEW s \in Sessions, Dispatch(s) PROVE WorkersHold'
    <3>1. UNCHANGED <<held, run>> /\ scan'["telegram"] = scan["telegram"]
      BY <1>0, <2>1 DEF Dispatch, Acquire, memory, SlotTypeOK
    <3> QED  BY <1>b, <3>1
  <2>2. CASE WebScan
    <3>1. UNCHANGED <<held, run>> /\ scan'["telegram"] = scan["telegram"]
      BY <1>0, <2>2 DEF WebScan, Look, Unlink, CreateFails, At, memory, SlotTypeOK
    <3> QED  BY <1>b, <3>1
  <2>3. CASE StartTurn
    <3> DEFINE t == scan["web"].turn
               m == queue[t][1]
    <3>1. Scanning("web") /\ scan["web"].slot \in SlotIds
      BY <1>0, <2>3 DEF StartTurn, Create, Scanning, SlotTypeOK
    <3>2. t \in Sessions
      BY <1>0, <3>1 DEF ScanInv
    <3>3. /\ held' = [held EXCEPT ![t] = scan["web"].slot]
          /\ scan' = [scan EXCEPT !["web"] = NotScanning]
          /\ run' = [run EXCEPT ![t] = [at |-> "post", msg |-> m, more |-> FALSE]]
      BY <2>3 DEF StartTurn, Create, StopScan
    <3>4. /\ scan'["telegram"] = scan["telegram"]
          /\ held'[t] # NoSlot /\ run'[t].at = "post"
          /\ \A s \in Sessions \ {t} : held'[s] = held[s] /\ run'[s] = run[s]
      BY <1>0, <3>1, <3>2, <3>3 DEF SlotTypeOK
    <3> QED  BY <3>4 DEF WorkersHold, Scanning
  <2>4. ASSUME NEW s \in Sessions, ReportQueued(s) PROVE WorkersHold'
    BY <1>a, <2>4 DEF ReportQueued
  <2>5. CASE LeftWaiting
    BY <1>a, <2>5 DEF LeftWaiting
  <2> QED  BY <1>2, <2>1, <2>2, <2>3, <2>4, <2>5 DEF Dispatcher
<1>3. CASE StartFails
  <2>1. UNCHANGED <<held, run>> /\ scan'["telegram"] = scan["telegram"]
    BY <1>0, <1>3 DEF StartFails, StopScan, SlotTypeOK
  <2> QED  BY <1>b, <2>1
<1>4. CASE Die
  <2>1. /\ \A s \in Sessions : held'[s] = NoSlot
        /\ scan'["telegram"] = scan["telegram"] /\ run' = [s \in Sessions |-> NoRun]
    <3>1. \A s \in Sessions : BridgeOf[s] = "web"
      BY WebTurnsAssumption
    <3> QED  BY <1>0, <1>4, <3>1 DEF Die, BridgeDies, StopScan, SlotTypeOK
  <2> QED  BY <2>1 DEF WorkersHold, Scanning
<1>5. CASE Restart
  BY <1>a, <1>5 DEF Restart
<1>6. CASE TelegramTurn
  <2>0. run' = run
    BY <1>6 DEF TelegramTurn, memory
  <2>1. CASE Acquire("telegram", Telegram)
    <3>1. held' = held /\ scan'["telegram"].turn = Telegram
      BY <1>0, <2>1 DEF Acquire, SlotTypeOK
    <3> QED  BY <2>0, <3>1 DEF WorkersHold
  <2>2. CASE Look("telegram") \/ Unlink("telegram") \/ CreateFails("telegram")
    <3>1. held' = held /\ Scanning("telegram")
          /\ (Scanning("telegram")' => scan'["telegram"].turn = scan["telegram"].turn)
      BY <1>0, <2>2 DEF Look, Unlink, CreateFails, At, Scanning, SlotTypeOK, NotScanning
    <3> QED  BY <2>0, <3>1 DEF WorkersHold
  <2>3. CASE Create("telegram")
    <3>1. scan["telegram"].turn = Telegram
      BY <2>3 DEF Create, Scanning, WorkersHold
    <3>2. /\ held' = [held EXCEPT ![Telegram] = scan["telegram"].slot]
          /\ scan' = [scan EXCEPT !["telegram"] = NotScanning]
      BY <2>3, <3>1 DEF Create, StopScan
    <3>3. ~Scanning("telegram")' /\ \A s \in Sessions : held'[s] = held[s]
      BY <1>0, <3>2 DEF SlotTypeOK, Scanning, NotScanning
    <3> QED  BY <2>0, <3>3 DEF WorkersHold
  <2>4. CASE Release(Telegram)
    <3>1. scan' = scan /\ \A s \in Sessions : held'[s] = held[s]
      BY <1>0, <2>4 DEF Release, SlotTypeOK
    <3> QED  BY <2>0, <3>1 DEF WorkersHold, Scanning
  <2> QED  BY <1>6, <2>1, <2>2, <2>3, <2>4 DEF TelegramTurn, Scan
<1>7. CASE Age
  <2>1. UNCHANGED <<held, scan, run>>
    BY <1>7 DEF Age, GoStale, memory
  <2> QED  BY <2>1 DEF WorkersHold, Scanning
<1>8. ASSUME NEW s \in Sessions, Worker(s) PROVE WorkersHold'
  <2>1. CASE TurnEnds(s)
    <3>1. scan' = scan /\ held' = [held EXCEPT ![s] = NoSlot] /\ run' = [run EXCEPT ![s].at = "after"]
      BY <2>1 DEF TurnEnds, Release
    <3>2. /\ held'[s] = NoSlot /\ run'[s].at = "after"
          /\ \A o \in Sessions \ {s} : held'[o] = held[o] /\ run'[o] = run[o]
      BY <1>0, <3>1 DEF SlotTypeOK
    <3> QED  BY <3>1, <3>2 DEF WorkersHold, Scanning
  <2>2. CASE ~TurnEnds(s)
    <3>1. /\ UNCHANGED slotVars
          /\ run[s].at \in {"post", "turn"} <=> run'[s].at \in {"post", "turn"}
          /\ \A o \in Sessions \ {s} : run'[o] = run[o]
      <4>1. CASE ReportRunning(s)
        BY <1>0, <4>1 DEF ReportRunning
      <4>2. CASE SeeMore(s)
        BY <1>0, <4>2 DEF SeeMore
      <4>3. CASE ReportDone(s)
        BY <1>0, <4>3 DEF ReportDone
      <4>4. CASE ReportMore(s)
        BY <1>0, <4>4 DEF ReportMore
      <4>5. CASE Leave(s)
        BY <1>0, <4>5 DEF Leave
      <4> QED  BY <1>8, <2>2, <4>1, <4>2, <4>3, <4>4, <4>5 DEF Worker
    <3> QED  BY <3>1 DEF WorkersHold, Scanning, slotVars
  <2> QED  BY <2>1, <2>2
<1>9. ASSUME NEW s \in Sessions, PressStop(s) PROVE WorkersHold'
  BY <1>a, <1>9 DEF PressStop
<1>10. ASSUME NEW m \in Messages, LeaseEnds(m) PROVE WorkersHold'
  BY <1>a, <1>10 DEF LeaseEnds, memory
<1>11. CASE UNCHANGED webVars
  BY <1>a, <1>11 DEF webVars, memory
<1> QED
  BY <1>1, <1>2, <1>3, <1>4, <1>5, <1>6, <1>7, <1>8, <1>9, <1>10, <1>11 DEF WebNext

\* With the queues, the workers and the restarts of the web bridge and the turns of the
\* telegram bridge, too, no more turns run at once than the plan allows; each worker has
\* its slot while its turn runs, and gives it back after it (_dispatch, acquire).
THEOREM WebInBudget ==
  ASSUME SlotFaults = {}
  PROVE  WebSpec => [](TurnsInBudget /\ WorkersHold)
<1> DEFINE I == WebIInv /\ SlotIInv /\ WorkersHold
<1>1. WebInit => I
  <2>1. WebInit => WorkersHold
    BY WebFacts, TurnSlotsAssumption DEF WebInit, SlotInit, WorkersHold, Scanning, NotScanning
  <2> QED  BY <2>1, WebStart, SlotInitOK DEF WebInit
<1>2. I /\ [WebNext]_webVars => I'
  <2> SUFFICES ASSUME I, [WebNext]_webVars PROVE I'
    OBVIOUS
  <2>1. SlotIInv'
    BY WebMovesSlots, SlotStep, GivingUp
  <2> QED  BY <2>1, WebStep, WorkersStep
<1>3. I => TurnsInBudget /\ WorkersHold
  BY OwnersAreFew
<1> QED
  BY <1>1, <1>2, <1>3, PTL DEF WebSpec

-----------------------------------------------------------------------------
(* The pairing of the Telegram bot.                                            *)

\* Messages are numbered as they are sent, and generations only grow.
SentInv ==
  /\ \A m \in Incoming : sent[m] <= backend.gen /\ (handled[m] > 0 => sent[m] # 0)
  /\ \A m, n \in Incoming : n < m /\ sent[m] # 0 => sent[n] # 0 /\ sent[n] <= sent[m]
  /\ backend.gen > 0

\* A pairing begins with its generation, and only a paired bot has a chat.
Sound(c) ==
  /\ c.bot # NoBot => c.at = c.gen
  /\ c.bot = NoBot => c.chat = NoChat
  /\ c.gen <= backend.gen

\* Every config read, written or about to be written is sound.
ConfigInv ==
  /\ Sound(config) /\ Sound(poller.local) /\ bridge.ident.gen <= backend.gen /\ reset.gen <= backend.gen
  /\ poller.at \in {"apply", "sync"} => Sound(poller.answer)
  /\ reset.at = "apply" => Sound(reset.answer)

\* Who may write the config, and what.
WriterInv ==
  /\ poller.at = "apply" => poller.answer.chat = NoChat
  /\ poller.at = "sync" => poller.answer.bot = NoBot
  /\ reset.at = "apply" =>
       reset.answer.chat = NoChat /\ (reset.answer.bot # NoBot => reset.answer.gen # 0)

\* The batch in hand, in order and not below the offset.
BatchInv ==
  /\ bridge.at \in {"pair", "write", "route"} =>
       bridge.batch # <<>> /\ bridge.offset = Head(bridge.batch) + 1
  /\ bridge.at \in {"top", "drain", "poll"} => bridge.batch = <<>>
  /\ bridge.at # "top" => bridge.ident.bot # NoBot
  /\ \A i, j \in DOMAIN bridge.batch : i < j => bridge.batch[i] < bridge.batch[j]
  /\ \A i \in DOMAIN bridge.batch :
       /\ BotOf[bridge.batch[i]] = bridge.ident.bot /\ sent[bridge.batch[i]] # 0
       /\ i > 1 \/ bridge.at = "batch" => bridge.batch[i] >= bridge.offset

\* The copy a bridge is about to write is of the pairing it has read.
PairInv ==
  /\ bridge.at = "pair" => bridge.chat = NoChat
  /\ bridge.at = "write" =>
       bridge.copy.bot = bridge.ident.bot /\ bridge.copy.gen = bridge.ident.gen /\ bridge.copy.at = bridge.ident.gen
  /\ bridge.ident.bot # NoBot => bridge.pairAt = bridge.ident.gen
  /\ bridge.at \in {"poll", "batch", "route"} => bridge.chat # NoChat \/ bridge.drained

\* What was sent before the pairing is below the offset once the backlog is drained.
DrainInv ==
  ~undrained /\ bridge.drained /\ bridge.ident.bot # NoBot =>
    /\ \A m \in Incoming : BotOf[m] = bridge.ident.bot /\ sent[m] # 0 /\ sent[m] < bridge.ident.gen
         => m < bridge.offset \/ m < confirmed[bridge.ident.bot]
    /\ \A i \in DOMAIN bridge.batch : sent[bridge.batch[i]] >= bridge.ident.gen

\* A bridge about to pair has drained the backlog.
FirstInv == bridge.at \in {"pair", "write"} => bridge.drained

\* A chat in the config was paired by a message.
ByInv == config.chat # NoChat => pairedBy \in Incoming

\* A pairing that went took the one turn on its way with it.
LateInv ==
  /\ lateTurns <= 0
  /\ bridge.at \in {"pair", "write", "route"} /\ IdentOf(config) # bridge.ident => lateTurns + 1 <= 0

LinkIInv ==
  /\ TypeOK /\ SentInv /\ ConfigInv /\ WriterInv /\ BatchInv /\ PairInv /\ DrainInv /\ FirstInv /\ ByInv /\ LateInv
  /\ PairedAfterLink

LEMMA PairFacts ==
  /\ Incoming \subseteq Nat \ {0} /\ Cardinality(Incoming) \in Nat /\ Gens \subseteq Nat /\ 0 \in Gens /\ 1 \in Gens
  /\ NoBot \notin Bots /\ NoChat \notin Chats
  /\ BotOf \in [Incoming -> Bots] /\ ChatOf \in [Incoming -> Chats] /\ MaxLinks \in Nat
  /\ Gens = 0 .. MaxLinks + 1
<1>1. Cardinality(Incoming) \in Nat
  BY PairingAssumption, FS_CardinalityType
<1>2. MaxLinks \in Nat /\ Gens \subseteq Nat /\ 0 \in Gens /\ 1 \in Gens
  BY PairingAssumption DEF Gens
<1> QED  BY <1>1, <1>2, PairingAssumption DEF Gens

LEMMA NumbersAre == \A m \in Incoming : m \in Nat /\ m > 0 /\ m + 1 \in Nat
<1>1. Incoming \subseteq Nat \ {0}
  BY PairFacts
<1> QED  BY ONLY <1>1

LEMMA UpdatesAre ==
  ASSUME NEW s
  PROVE  s \in Updates <=> s \in Seq(Incoming) /\ Len(s) <= Cardinality(Incoming)
<1>1. ASSUME s \in Updates
      PROVE  s \in Seq(Incoming) /\ Len(s) <= Cardinality(Incoming)
  <2>1. PICK n \in 0 .. Cardinality(Incoming) : s \in [1 .. n -> Incoming]
    BY <1>1 DEF Updates
  <2>2. n \in Nat /\ n <= Cardinality(Incoming)
    BY PairFacts
  <2>3. s \in Seq(Incoming) /\ Len(s) = n
    BY <2>1, <2>2
  <2> QED  BY <2>2, <2>3
<1>2. ASSUME s \in Seq(Incoming), Len(s) <= Cardinality(Incoming)
      PROVE  s \in Updates
  <2>1. Len(s) \in 0 .. Cardinality(Incoming) /\ s \in [1 .. Len(s) -> Incoming]
    BY <1>2, PairFacts
  <2> QED  BY <2>1 DEF Updates
<1> QED  BY <1>1, <1>2

LEMMA BatchTail ==
  ASSUME NEW s \in Updates, s # <<>>
  PROVE  /\ Tail(s) \in Updates /\ Head(s) \in Incoming /\ Head(s) = s[1] /\ 1 \in DOMAIN s
         /\ \A i \in DOMAIN Tail(s) : i \in Nat /\ i > 0 /\ i + 1 \in DOMAIN s /\ Tail(s)[i] = s[i + 1]
         /\ \A i \in DOMAIN s : i \in Nat /\ i > 0 /\ s[i] \in Incoming
<1>1. s \in Seq(Incoming) /\ Len(s) <= Cardinality(Incoming) /\ Len(s) \in Nat /\ Len(s) > 0
  BY UpdatesAre
<1>2. /\ Tail(s) \in Seq(Incoming) /\ Len(Tail(s)) = Len(s) - 1
      /\ \A i \in 1 .. Len(s) - 1 : Tail(s)[i] = s[i + 1]
  BY <1>1
<1>3. Tail(s) \in Updates
  <2>1. Len(Tail(s)) <= Cardinality(Incoming)
    BY ONLY <1>1, <1>2, PairFacts
  <2> QED  BY ONLY <1>2, <2>1, UpdatesAre
<1>4. DOMAIN s = 1 .. Len(s) /\ DOMAIN Tail(s) = 1 .. Len(s) - 1
  BY <1>1, <1>2
<1>5. Head(s) = s[1] /\ 1 \in DOMAIN s /\ Head(s) \in Incoming
  BY <1>1, <1>4
<1> QED  BY <1>1, <1>2, <1>3, <1>4, <1>5

LEMMA NoUpdates == <<>> \in Updates /\ DOMAIN <<>> = {}
<1>1. <<>> \in Seq(Incoming) /\ Len(<<>>) = 0 /\ DOMAIN <<>> = {}
  OBVIOUS
<1>2. Len(<<>>) <= Cardinality(Incoming)
  BY ONLY <1>1, PairFacts
<1>3. <<>> \in Updates
  BY ONLY <1>1, <1>2, UpdatesAre
<1> QED  BY <1>1, <1>3

LEMMA IdentIs ==
  ASSUME NEW c \in Configs
  PROVE  /\ IdentOf(c) \in [bot : Bots \cup {NoBot}, gen : Gens] /\ IdentOf(c).bot = c.bot
         /\ c.bot # NoBot => IdentOf(c).gen = c.gen
         /\ c.bot = NoBot => IdentOf(c).gen = 0
BY PairFacts DEF Configs, IdentOf, NoIdent

LEMMA BlankIs ==
  /\ Blank \in Configs /\ Blank.bot = NoBot /\ Blank.chat = NoChat /\ Blank.gen = 0 /\ Blank.at = 0
  /\ NoIdent \in [bot : Bots \cup {NoBot}, gen : Gens] /\ NoIdent.bot = NoBot /\ NoIdent.gen = 0
  /\ NoOffset \in [bot : Bots \cup {NoBot}, next : Nat] /\ NoOffset.bot = NoBot
BY PairFacts DEF Blank, Configs, NoIdent, NoOffset

PollerType == [at : {"idle", "fetch", "apply", "sync", "failed"}, local : Configs, answer : Configs, gen : Gens]
BridgeType == [at : {"top", "drain", "poll", "batch", "pair", "write", "route"},
               ident : [bot : Bots \cup {NoBot}, gen : Gens],
               chat : Chats \cup {NoChat}, pairAt : Gens, offset : Nat,
               drained : BOOLEAN, batch : Updates, copy : Configs]

LEMMA IdleIs ==
  /\ Idle \in PollerType /\ Idle.at = "idle" /\ Idle.local = Blank /\ Idle.gen = 0
  /\ NewBridge \in BridgeType /\ NewBridge.at = "top" /\ NewBridge.ident = NoIdent /\ NewBridge.batch = <<>>
  /\ ~NewBridge.drained
BY BlankIs, PairFacts, NoUpdates DEF Idle, NewBridge, PollerType, BridgeType

LEMMA TypeIs ==
  TypeOK <=>
    /\ backend \in [bot : Bots \cup {NoBot}, gen : Gens]
    /\ sent \in [Incoming -> Gens] /\ confirmed \in [Bots -> Nat]
    /\ config \in Configs
    /\ offsetFile \in [bot : Bots \cup {NoBot}, next : Nat]
    /\ poller \in PollerType /\ reset \in PollerType /\ bridge \in BridgeType
    /\ crashes \in Nat /\ undrained \in BOOLEAN
    /\ handled \in [Incoming -> Nat] /\ lateTurns \in Int
    /\ pairedBy \in Incoming \cup {0}
BY DEF TypeOK, PollerType, BridgeType

\* What a fetch of the poller and of the command can come to.
LEMMA PollerFetch ==
  ASSUME TypeOK, PollerFetches
  PROVE  \/ poller' = Idle
         \/ \E answer \in Answers :
              /\ poller' = [poller EXCEPT !.at = "apply", !.answer = answer]
              /\ answer.bot # NoBot \/ answer.gen # 0
         \/ \E answer \in Answers :
              /\ poller.local.bot = NoBot /\ answer.bot = NoBot
              /\ poller' = [poller EXCEPT !.at = "sync", !.answer = [poller.local EXCEPT !.gen = answer.gen]]
<1>1. CASE poller' = Idle
  BY <1>1
<1>2. ASSUME NEW answer \in Answers,
             poller' = CASE Converge(poller.local, answer) = "keep" -> Idle
                         [] Converge(poller.local, answer) = "apply" ->
                              [poller EXCEPT !.at = "apply", !.answer = answer]
                         [] OTHER -> [poller EXCEPT !.at = "sync",
                              !.answer = [poller.local EXCEPT !.gen = answer.gen]]
      PROVE  \/ poller' = Idle
             \/ /\ poller' = [poller EXCEPT !.at = "apply", !.answer = answer]
                /\ answer.bot # NoBot \/ answer.gen # 0
             \/ /\ poller.local.bot = NoBot /\ answer.bot = NoBot
                /\ poller' = [poller EXCEPT !.at = "sync", !.answer = [poller.local EXCEPT !.gen = answer.gen]]
  <2>1. CASE Converge(poller.local, answer) = "keep"
    BY <1>2, <2>1
  <2>2. CASE Converge(poller.local, answer) = "apply"
    <3>1. answer.bot # NoBot \/ answer.gen # 0
      BY <2>2 DEF Converge
    <3> QED  BY <1>2, <2>2, <3>1
  <2>3. CASE Converge(poller.local, answer) \notin {"keep", "apply"}
    <3>1. poller.local.bot = NoBot /\ answer.bot = NoBot
      BY <2>3 DEF Converge
    <3> QED  BY <1>2, <2>3, <3>1
  <2> QED  BY <2>1, <2>2, <2>3
<1> QED  BY <1>1, <1>2 DEF PollerFetches

LEMMA AnswerIs ==
  ASSUME TypeOK, NEW answer \in Answers
  PROVE  /\ answer \in Configs /\ answer.chat = NoChat /\ answer.at = answer.gen
         /\ answer.gen = 0 \/ answer.gen = backend.gen
         /\ answer.bot # NoBot => answer = Agreed
         /\ PairFaults = {} => answer = Agreed
<1>1. /\ Agreed \in Configs /\ Agreed.chat = NoChat /\ Agreed.at = Agreed.gen /\ Agreed.gen = backend.gen
  BY DEF Agreed, TypeOK, Configs
<1>2. answer = Agreed \/ (answer = Blank /\ PairFaults # {})
  BY DEF Answers
<1>3. CASE answer = Agreed
  BY <1>1, <1>3
<1>4. CASE answer = Blank /\ PairFaults # {}
  BY <1>4, BlankIs
<1> QED  BY <1>2, <1>3, <1>4

\* The steps of the bridge keep its record.
LEMMA BridgeTypes ==
  ASSUME TypeOK, BatchInv, Bridge \/ Crash
  PROVE  bridge' \in BridgeType
<1>0. bridge \in BridgeType /\ config \in Configs /\ offsetFile \in [bot : Bots \cup {NoBot}, next : Nat]
  BY TypeIs
<1> USE PairFacts
<1>1. CASE ReadConfig
  <2>1. IdentOf(config) \in [bot : Bots \cup {NoBot}, gen : Gens]
    BY <1>0, IdentIs
  <2>2. LoadOffset(config.bot) \in Nat
    BY <1>0 DEF LoadOffset
  <2>3. PICK at \in {"top", "drain", "poll"}, offset \in Nat, drained \in BOOLEAN :
          bridge' = [bridge EXCEPT !.at = at, !.ident = IdentOf(config), !.chat = config.chat,
                       !.pairAt = config.at, !.offset = offset, !.drained = drained]
    <3> DEFINE at == CASE config.bot = NoBot -> "top"
                       [] config.bot # NoBot /\ config.chat = NoChat
                            /\ ~(~(IdentOf(config) # bridge.ident) /\ bridge.drained) -> "drain"
                       [] OTHER -> "poll"
               offset == IF IdentOf(config) # bridge.ident /\ config.bot # NoBot THEN LoadOffset(config.bot)
                         ELSE bridge.offset
               drained == ~(IdentOf(config) # bridge.ident) /\ bridge.drained
    <3>1. at \in {"top", "drain", "poll"}
      OBVIOUS
    <3>2. offset \in Nat
      BY <1>0, <2>2 DEF BridgeType
    <3>3. drained \in BOOLEAN
      OBVIOUS
    <3>4. bridge' = [bridge EXCEPT !.at = at, !.ident = IdentOf(config), !.chat = config.chat,
                       !.pairAt = config.at, !.offset = offset, !.drained = drained]
      BY <1>1 DEF ReadConfig
    <3> HIDE DEF at, offset, drained
    <3> QED  BY <3>1, <3>2, <3>3, <3>4
  <2> QED  BY <1>0, <2>1, <2>3 DEF BridgeType, Configs
<1>2. CASE Drain
  <2>0. PICK updates \in Updates : \E n \in 0 .. Len(updates) :
          bridge' = [bridge EXCEPT !.at = "poll", !.offset = IF n = 0 THEN bridge.offset ELSE updates[n] + 1,
                       !.drained = TRUE]
    BY <1>2 DEF Drain, GetUpdates
  <2>1. PICK n \in 0 .. Len(updates) :
          bridge' = [bridge EXCEPT !.at = "poll", !.offset = IF n = 0 THEN bridge.offset ELSE updates[n] + 1,
                       !.drained = TRUE]
    BY <2>0
  <2>2. (IF n = 0 THEN bridge.offset ELSE updates[n] + 1) \in Nat
    <3>1. updates \in Seq(Incoming) /\ Len(updates) \in Nat
      BY UpdatesAre
    <3>2. CASE n = 0
      BY <1>0, <3>2 DEF BridgeType
    <3>3. CASE n # 0
      <4>1. n \in 1 .. Len(updates)
        BY <3>1, <3>3
      <4>2. updates[n] \in Nat
        <5>1. updates[n] \in Incoming
          BY ONLY <3>1, <4>1
        <5> QED  BY <5>1
      <4> QED  BY <3>3, <4>2
    <3> QED  BY <3>2, <3>3
  <2> QED  BY <1>0, <2>1, <2>2 DEF BridgeType
<1>3. CASE DrainFails
  BY <1>0, <1>3 DEF DrainFails, BridgeType
<1>4. CASE Poll
  BY <1>0, <1>4, NoUpdates, BlankIs DEF Poll, BackToTop, GetUpdates, BridgeType
<1>5. CASE Take
  <2>1. Head(bridge.batch) \in Incoming
    BY <1>0, <1>5, BatchTail DEF Take, BridgeType
  <2>2. Head(bridge.batch) + 1 \in Nat
    BY ONLY <2>1, NumbersAre
  <2>3. PICK at \in {"pair", "route"} : bridge' = [bridge EXCEPT !.offset = Head(bridge.batch) + 1, !.at = at]
    BY <1>5 DEF Take
  <2> QED  BY <1>0, <2>2, <2>3 DEF BridgeType
<1>6. CASE BatchEnds
  BY <1>0, <1>6, NoUpdates, BlankIs DEF BatchEnds, BackToTop, BridgeType
<1>7. CASE PairRead
  <2>1. CASE IdentOf(config) # bridge.ident
    <3>1. bridge' = [bridge EXCEPT !.at = "top", !.batch = <<>>, !.copy = Blank]
      BY <1>7, <2>1 DEF PairRead, BackToTop
    <3> QED  BY ONLY <1>0, <3>1, NoUpdates, BlankIs DEF BridgeType
  <2>2. CASE IdentOf(config) = bridge.ident
    <3>1. ChatOf[Head(bridge.batch)] \in Chats
      BY <1>0, <1>7, BatchTail DEF PairRead, BatchInv, BridgeType
    <3> DEFINE c == ChatOf[Head(bridge.batch)]
    <3>2. bridge' = [bridge EXCEPT !.at = "write", !.chat = c, !.copy = [config EXCEPT !.chat = c]]
      BY <1>7, <2>2 DEF PairRead
    <3>3. c \in Chats
      BY <3>1
    <3> HIDE DEF c
    <3>4. [config EXCEPT !.chat = c] \in Configs
      BY ONLY <1>0, <3>3 DEF Configs
    <3> QED  BY ONLY <1>0, <3>2, <3>3, <3>4 DEF BridgeType
  <2> QED  BY <2>1, <2>2
<1>8. CASE PairWrite
  BY <1>0, <1>8, BlankIs DEF PairWrite, BridgeType
<1>9. CASE Route
  <2>1. Tail(bridge.batch) \in Updates
    BY <1>0, <1>9, BatchTail DEF Route, BatchInv, BridgeType
  <2> QED  BY <1>0, <1>9, <2>1 DEF Route, BridgeType
<1>10. CASE Crash
  BY <1>10, IdleIs DEF Crash
<1> QED  BY <1>1, <1>2, <1>3, <1>4, <1>5, <1>6, <1>7, <1>8, <1>9, <1>10 DEF Bridge

LEMMA NextTypes ==
  ASSUME backend' \in [bot : Bots \cup {NoBot}, gen : Gens],
         sent' \in [Incoming -> Gens], confirmed' \in [Bots -> Nat],
         config' \in Configs,
         offsetFile' \in [bot : Bots \cup {NoBot}, next : Nat],
         poller' \in PollerType, reset' \in PollerType, bridge' \in BridgeType,
         crashes' \in Nat, undrained' \in BOOLEAN,
         handled' \in [Incoming -> Nat], lateTurns' \in Int,
         pairedBy' \in Incoming \cup {0}
  PROVE  TypeOK'
BY DEF TypeOK, PollerType, BridgeType

LEMMA PairTypes ==
  ASSUME TypeOK, BatchInv, WriterInv, [Next]_vars
  PROVE  TypeOK'
<1>0. /\ backend \in [bot : Bots \cup {NoBot}, gen : Gens]
      /\ sent \in [Incoming -> Gens] /\ confirmed \in [Bots -> Nat]
      /\ config \in Configs
      /\ offsetFile \in [bot : Bots \cup {NoBot}, next : Nat]
      /\ poller \in PollerType /\ reset \in PollerType /\ bridge \in BridgeType
      /\ crashes \in Nat /\ undrained \in BOOLEAN
      /\ handled \in [Incoming -> Nat] /\ lateTurns \in Int
      /\ pairedBy \in Incoming \cup {0}
  BY TypeIs
<1>1. ASSUME NEW m \in Incoming, Send(m)
      PROVE  TypeOK'
  <2>1. sent' \in [Incoming -> Gens]
    BY <1>0, <1>1 DEF Send
  <2>2. UNCHANGED <<backend, config, poller, reset, crashes, undrained, bridge, offsetFile, confirmed, handled, pairedBy, lateTurns>>
    BY <1>1 DEF Send, bridgeVars, ills
  <2> QED  BY <1>0, <2>1, <2>2, NextTypes
<1>2. ASSUME NEW bot \in Bots \cup {NoBot}, Link(bot)
      PROVE  TypeOK'
  <2>1. backend.gen + 1 \in Gens
    <3>1. backend.gen \in Nat /\ backend.gen <= MaxLinks
      BY <1>0, <1>2, PairFacts DEF Link
    <3> QED  BY ONLY <3>1, PairFacts
  <2>2. reset' \in PollerType
    <3>1. [Idle EXCEPT !.at = "fetch", !.gen = backend.gen + 1] \in PollerType
      BY <2>1, IdleIs DEF PollerType
    <3> QED  BY <1>0, <1>2, <3>1 DEF Link
  <2>3. UNCHANGED <<sent, config, poller, crashes, undrained, bridge, offsetFile, confirmed, handled, pairedBy, lateTurns>>
    BY <1>2 DEF Link, bridgeVars, ills
  <2>4. backend' \in [bot : Bots \cup {NoBot}, gen : Gens]
    BY <1>2, <2>1 DEF Link
  <2> QED  BY <1>0, <2>2, <2>3, <2>4, NextTypes
<1>3. CASE PollerReads
  <2>1. poller' \in PollerType
    BY <1>0, <1>3, IdleIs DEF PollerReads, PollerType
  <2>2. UNCHANGED <<backend, sent, config, reset, crashes, undrained, bridge, offsetFile, confirmed, handled, pairedBy, lateTurns>>
    BY <1>3 DEF PollerReads, bridgeVars, ills
  <2> QED  BY <1>0, <2>1, <2>2, NextTypes
<1>4. CASE PollerFetches
  <2>1. poller' \in PollerType
    <3>1. ASSUME NEW answer \in Answers
          PROVE  /\ [poller EXCEPT !.at = "apply", !.answer = answer] \in PollerType
                 /\ [poller EXCEPT !.at = "sync", !.answer = [poller.local EXCEPT !.gen = answer.gen]] \in PollerType
      <4>1. answer \in Configs /\ answer.gen \in Gens
        BY AnswerIs DEF Configs
      <4>2. [poller.local EXCEPT !.gen = answer.gen] \in Configs
        BY <1>0, <4>1 DEF PollerType, Configs
      <4> QED  BY <1>0, <4>1, <4>2 DEF PollerType
    <3> QED  BY <1>4, <3>1, PollerFetch, IdleIs
  <2>2. UNCHANGED <<backend, sent, config, reset, crashes, undrained, bridge, offsetFile, confirmed, handled, pairedBy, lateTurns>>
    BY <1>4 DEF PollerFetches, bridgeVars, ills
  <2> QED  BY <1>0, <2>1, <2>2, NextTypes
<1>5. CASE PollerApplies
  <2>1. poller.answer \in Configs
    BY <1>0 DEF PollerType
  <2>2. lateTurns' \in Int
    BY <1>0, <1>5 DEF PollerApplies, PairingGone
  <2>3. UNCHANGED <<backend, sent, reset, crashes, undrained, bridge, confirmed, handled, pairedBy>>
    BY <1>5 DEF PollerApplies, ills
  <2>4. /\ poller' = Idle /\ config' = poller.answer
        /\ offsetFile' = offsetFile \/ offsetFile' = NoOffset
    BY <1>5 DEF PollerApplies, Apply
  <2> QED  BY <1>0, <2>1, <2>2, <2>3, <2>4, IdleIs, BlankIs, NextTypes
<1>6. CASE PollerSyncs
  <2>1. poller.answer \in Configs
    BY <1>0 DEF PollerType
  <2>2. lateTurns' \in Int
    BY <1>0, <1>6 DEF PollerSyncs, PairingGone
  <2>3. UNCHANGED <<backend, sent, reset, crashes, undrained, bridge, offsetFile, confirmed, handled, pairedBy>>
    BY <1>6 DEF PollerSyncs, ills
  <2>4. /\ poller' = Idle /\ config' = poller.answer
        /\ offsetFile' = offsetFile \/ offsetFile' = NoOffset
    BY <1>6 DEF PollerSyncs
  <2> QED  BY <1>0, <2>1, <2>2, <2>3, <2>4, IdleIs, BlankIs, NextTypes
<1>7. CASE ResetFetches
  <2>1. reset' \in PollerType
    <3>1. \A answer \in Answers : [reset EXCEPT !.at = "apply", !.answer = answer] \in PollerType
      BY <1>0, AnswerIs DEF PollerType
    <3>2. [reset EXCEPT !.at = "failed"] \in PollerType
      BY <1>0 DEF PollerType
    <3> QED  BY <1>7, <3>1, <3>2 DEF ResetFetches
  <2>2. UNCHANGED <<backend, sent, config, poller, crashes, undrained, bridge, offsetFile, confirmed, handled, pairedBy, lateTurns>>
    BY <1>7 DEF ResetFetches, bridgeVars, ills
  <2> QED  BY <1>0, <2>1, <2>2, NextTypes
<1>8. CASE ResetApplies
  <2>1. config' \in Configs
    <3>1. reset.gen \in Gens /\ reset.answer \in Configs
      BY <1>0 DEF PollerType
    <3>2. [reset.answer EXCEPT !.gen = IF @ = 0 THEN reset.gen ELSE @] \in Configs
      BY <3>1 DEF Configs
    <3>3. [Blank EXCEPT !.gen = reset.gen] \in Configs
      BY <3>1, BlankIs DEF Configs
    <3> QED  BY <1>8, <3>2, <3>3 DEF ResetApplies, Apply
  <2>2. lateTurns' \in Int
    BY <1>0, <1>8 DEF ResetApplies, PairingGone
  <2>3. offsetFile' \in [bot : Bots \cup {NoBot}, next : Nat]
    BY <1>0, <1>8, BlankIs DEF ResetApplies, Apply
  <2>4. UNCHANGED <<backend, sent, poller, crashes, undrained, bridge, confirmed, handled, pairedBy>> /\ reset' = Idle
    BY <1>8 DEF ResetApplies, ills
  <2> QED  BY <1>0, <2>1, <2>2, <2>3, <2>4, IdleIs, NextTypes
<1>9. CASE Bridge \/ Crash
  <2>0. bridge' \in BridgeType /\ UNCHANGED <<backend, sent, poller, reset>>
    BY <1>9, BridgeTypes DEF Bridge, ReadConfig, Drain, DrainFails, Poll, Take, BatchEnds, PairRead, PairWrite,
                             Route, Crash
  <2>1. config' \in Configs
    <3>1. bridge.copy \in Configs
      BY <1>0 DEF BridgeType
    <3>2. config' = config \/ config' = bridge.copy
      BY <1>9 DEF Bridge, ReadConfig, Drain, DrainFails, Poll, Take, BatchEnds, PairRead, PairWrite, Route, Crash
    <3> QED  BY <1>0, <3>1, <3>2
  <2>2. crashes' \in Nat /\ undrained' \in BOOLEAN
    <3>1. crashes' = crashes \/ crashes' = crashes + 1
      BY <1>9 DEF Bridge, ReadConfig, Drain, DrainFails, Poll, Take, BatchEnds, PairRead, PairWrite, Route, Crash, ills
    <3>2. undrained' = undrained \/ undrained' = TRUE
      BY <1>9 DEF Bridge, ReadConfig, Drain, DrainFails, Poll, Take, BatchEnds, PairRead, PairWrite, Route, Crash, ills
    <3>3. crashes' \in Nat
      BY ONLY <1>0, <3>1
    <3> QED  BY ONLY <1>0, <3>2, <3>3
  <2>3. bridge.at \in {"batch", "pair", "write", "route"} /\ bridge.batch # <<>> => Head(bridge.batch) \in Incoming
    BY <1>0, BatchTail DEF BridgeType
  <2>4. bridge.at # "top" => bridge.ident.bot \in Bots
    BY <1>0 DEF BatchInv, BridgeType
  <2>5. confirmed' \in [Bots -> Nat]
    <3>1. CASE Drain \/ Poll
      <4>1. confirmed' = confirmed \/ confirmed' = [confirmed EXCEPT ![bridge.ident.bot] = Known(bridge.ident.bot, bridge.offset)]
        BY <3>1 DEF Drain, Poll, Confirm
      <4>2. Known(bridge.ident.bot, bridge.offset) \in Nat
        BY <1>0, <2>4, <3>1 DEF Drain, Poll, Known, BridgeType
      <4> QED  BY <1>0, <4>1, <4>2
    <3>2. CASE ~(Drain \/ Poll)
      BY <1>0, <1>9, <3>2 DEF Bridge, ReadConfig, DrainFails, Take, BatchEnds, PairRead, PairWrite, Route, Crash
    <3> QED  BY <3>1, <3>2
  <2>6. handled' \in [Incoming -> Nat] /\ lateTurns' \in Int
    <3>1. CASE Route
      <4> DEFINE m == Head(bridge.batch)
      <4>1. m \in Incoming
        BY <2>3, <3>1 DEF Route, BatchInv
      <4>2. handled' = [handled EXCEPT ![m] = @ + 1] \/ handled' = handled
        BY <3>1 DEF Route
      <4>3. lateTurns' = lateTurns + 1 \/ lateTurns' = lateTurns
        BY <3>1 DEF Route
      <4>4. lateTurns' \in Int
        BY ONLY <1>0, <4>3
      <4> HIDE DEF m
      <4>5. handled' \in [Incoming -> Nat]
        BY ONLY <1>0, <4>1, <4>2
      <4> QED  BY <4>4, <4>5
    <3>2. CASE ~Route
      <4>1. handled' = handled /\ (lateTurns' = lateTurns \/ lateTurns' = 0)
        BY <1>9, <3>2 DEF Bridge, ReadConfig, Drain, DrainFails, Poll, Take, BatchEnds, PairRead, PairWrite, Crash
      <4> QED  BY <1>0, <4>1
    <3> QED  BY <3>1, <3>2
  <2>7. pairedBy' \in Incoming \cup {0}
    <3>1. CASE PairWrite
      BY <1>0, <2>3, <3>1 DEF PairWrite, BatchInv
    <3>2. CASE ~PairWrite
      BY <1>0, <1>9, <3>2 DEF Bridge, ReadConfig, Drain, DrainFails, Poll, Take, BatchEnds, PairRead, Route, Crash
    <3> QED  BY <3>1, <3>2
  <2>8. offsetFile' \in [bot : Bots \cup {NoBot}, next : Nat]
    <3>1. CASE Take
      <4>1. Head(bridge.batch) \in Incoming /\ bridge.ident.bot \in Bots
        BY <2>3, <2>4, <3>1 DEF Take
      <4>2. Head(bridge.batch) + 1 \in Nat
        BY ONLY <4>1, NumbersAre
      <4> QED  BY <3>1, <4>1, <4>2 DEF Take
    <3>2. CASE Drain
      <4>1. bridge'.offset \in Nat
        BY <2>0 DEF BridgeType
      <4>2. offsetFile' = offsetFile \/ offsetFile' = [bot |-> bridge.ident.bot, next |-> bridge'.offset]
        BY <1>0, <3>2 DEF Drain, BridgeType
      <4> QED  BY <1>0, <2>4, <3>2, <4>1, <4>2 DEF Drain
    <3>3. CASE ~Take /\ ~Drain
      BY <1>0, <1>9, <3>3 DEF Bridge, ReadConfig, DrainFails, Poll, BatchEnds, PairRead, PairWrite, Route, Crash
    <3> QED  BY <3>1, <3>2, <3>3
  <2> QED  BY <1>0, <2>0, <2>1, <2>2, <2>5, <2>6, <2>7, <2>8, NextTypes
<1>10. CASE UNCHANGED vars
  <2>1. UNCHANGED <<backend, sent, config, poller, reset, crashes, undrained, bridge, offsetFile, confirmed, handled,
                    pairedBy, lateTurns>>
    BY <1>10 DEF vars, bridgeVars, ills
  <2> QED  BY <1>0, <2>1, NextTypes
<1> QED  BY <1>1, <1>2, <1>3, <1>4, <1>5, <1>6, <1>7, <1>8, <1>9, <1>10 DEF Next, Poller, Reset

\* What each step of the bridge does to its record.
BackAtTop ==
  /\ bridge'.at = "top" /\ bridge'.batch = <<>>
  /\ bridge'.ident = bridge.ident /\ bridge'.chat = bridge.chat /\ bridge'.pairAt = bridge.pairAt
  /\ bridge'.offset = bridge.offset /\ bridge'.drained = bridge.drained

SameIdent ==
  bridge'.ident = bridge.ident /\ bridge'.pairAt = bridge.pairAt

LEMMA ReadIs ==
  ASSUME TypeOK, ReadConfig
  PROVE  /\ bridge.at = "top" /\ bridge'.batch = bridge.batch /\ bridge'.copy = bridge.copy
         /\ bridge'.ident = IdentOf(config) /\ bridge'.chat = config.chat /\ bridge'.pairAt = config.at
         /\ bridge'.at \in {"top", "drain", "poll"} /\ (bridge'.at = "top" <=> config.bot = NoBot)
         /\ bridge'.at = "drain" => config.chat = NoChat /\ ~bridge'.drained
         /\ bridge'.at = "poll" => config.chat # NoChat \/ bridge'.drained
         /\ bridge'.drained => bridge.drained /\ IdentOf(config) = bridge.ident
         /\ IdentOf(config) = bridge.ident \/ config.bot = NoBot => bridge'.offset = bridge.offset
         /\ IdentOf(config) # bridge.ident /\ config.bot # NoBot => bridge'.offset = LoadOffset(config.bot)
         /\ lateTurns' = 0
         /\ UNCHANGED <<backend, sent, config, poller, reset, ills, offsetFile, confirmed, handled, pairedBy>>
<1>1. bridge \in BridgeType
  BY TypeIs
<1>2. bridge.drained \in BOOLEAN
  BY <1>1 DEF BridgeType
<1> DEFINE cur == IdentOf(config)
           drained == ~(cur # bridge.ident) /\ bridge.drained
           at == CASE config.bot = NoBot -> "top"
                   [] config.bot # NoBot /\ config.chat = NoChat /\ ~drained -> "drain"
                   [] OTHER -> "poll"
           offset == IF cur # bridge.ident /\ config.bot # NoBot THEN LoadOffset(config.bot)
                     ELSE bridge.offset
<1>3. /\ bridge' = [bridge EXCEPT !.at = at, !.ident = cur, !.chat = config.chat,
                       !.pairAt = config.at, !.offset = offset, !.drained = drained]
      /\ bridge.at = "top" /\ lateTurns' = 0
      /\ UNCHANGED <<backend, sent, config, poller, reset, ills, offsetFile, confirmed, handled, pairedBy>>
  BY DEF ReadConfig
<1>4. /\ at \in {"top", "drain", "poll"} /\ (at = "top" <=> config.bot = NoBot)
      /\ at = "drain" => config.chat = NoChat /\ ~drained
      /\ at = "poll" => config.chat # NoChat \/ drained
      /\ drained => bridge.drained /\ cur = bridge.ident
      /\ cur = bridge.ident \/ config.bot = NoBot => offset = bridge.offset
      /\ cur # bridge.ident /\ config.bot # NoBot => offset = LoadOffset(config.bot)
  BY <1>2
<1> HIDE DEF at, offset, drained
<1>5. /\ bridge'.batch = bridge.batch /\ bridge'.copy = bridge.copy /\ bridge'.at = at
      /\ bridge'.ident = cur /\ bridge'.chat = config.chat /\ bridge'.pairAt = config.at
      /\ bridge'.offset = offset /\ bridge'.drained = drained
  BY ONLY <1>1, <1>3 DEF BridgeType
<1> QED  BY <1>3, <1>4, <1>5

LEMMA DrainIs ==
  ASSUME TypeOK, Drain
  PROVE  /\ bridge.at = "drain" /\ bridge'.at = "poll" /\ bridge'.drained
         /\ SameIdent /\ bridge'.batch = bridge.batch /\ bridge'.chat = bridge.chat /\ bridge'.copy = bridge.copy
         /\ \E updates \in GetUpdates(bridge.ident.bot, bridge.offset) : \E n \in 0 .. Len(updates) :
              /\ n < Len(updates) => sent[updates[n + 1]] >= bridge.pairAt
              /\ bridge'.offset = IF n = 0 THEN bridge.offset ELSE updates[n] + 1
         /\ offsetFile' = IF bridge'.offset = 0 THEN offsetFile
                          ELSE [bot |-> bridge.ident.bot, next |-> bridge'.offset]
         /\ confirmed' = [confirmed EXCEPT ![bridge.ident.bot] = Known(bridge.ident.bot, bridge.offset)]
         /\ UNCHANGED <<backend, sent, config, poller, reset, ills, handled, pairedBy, lateTurns>>
<1>1. bridge \in BridgeType /\ sent \in [Incoming -> Gens]
  BY TypeIs
<1>2. PICK updates \in GetUpdates(bridge.ident.bot, bridge.offset) : \E n \in 0 .. Len(updates) :
        /\ n < Len(updates) => ~SentBefore(updates[n + 1], bridge.pairAt)
        /\ LET next == IF n = 0 THEN bridge.offset ELSE updates[n] + 1 IN
           /\ bridge' = [bridge EXCEPT !.at = "poll", !.offset = next, !.drained = TRUE]
           /\ offsetFile' = IF next = 0 THEN offsetFile ELSE [bot |-> bridge.ident.bot, next |-> next]
  BY DEF Drain
<1>3. PICK n \in 0 .. Len(updates) :
        /\ n < Len(updates) => ~SentBefore(updates[n + 1], bridge.pairAt)
        /\ LET next == IF n = 0 THEN bridge.offset ELSE updates[n] + 1 IN
           /\ bridge' = [bridge EXCEPT !.at = "poll", !.offset = next, !.drained = TRUE]
           /\ offsetFile' = IF next = 0 THEN offsetFile ELSE [bot |-> bridge.ident.bot, next |-> next]
  BY <1>2
<1> DEFINE next == IF n = 0 THEN bridge.offset ELSE updates[n] + 1
<1>4. /\ bridge' = [bridge EXCEPT !.at = "poll", !.offset = next, !.drained = TRUE]
      /\ offsetFile' = IF next = 0 THEN offsetFile ELSE [bot |-> bridge.ident.bot, next |-> next]
  BY <1>3
<1>5. n < Len(updates) => sent[updates[n + 1]] >= bridge.pairAt
  <2> SUFFICES ASSUME n < Len(updates)
               PROVE  sent[updates[n + 1]] >= bridge.pairAt
    OBVIOUS
  <2>1. updates \in Seq(Incoming) /\ Len(updates) \in Nat
    BY UpdatesAre DEF GetUpdates
  <2>2. updates[n + 1] \in Incoming
    <3>1. n + 1 \in 1 .. Len(updates)
      BY <2>1
    <3> QED  BY ONLY <2>1, <3>1
  <2>3. sent[updates[n + 1]] \in Nat /\ bridge.pairAt \in Nat
    BY <1>1, <2>2, PairFacts DEF BridgeType
  <2>4. ~(sent[updates[n + 1]] < bridge.pairAt)
    BY <1>3 DEF SentBefore
  <2> QED  BY ONLY <2>3, <2>4
<1>6. bridge'.offset = next
  <2> HIDE DEF next
  <2> QED  BY ONLY <1>1, <1>4 DEF BridgeType
<1>7. /\ bridge'.at = "poll" /\ bridge'.drained /\ SameIdent /\ bridge'.batch = bridge.batch
      /\ bridge'.chat = bridge.chat /\ bridge'.copy = bridge.copy
  <2> HIDE DEF next
  <2> QED  BY ONLY <1>1, <1>4 DEF BridgeType, SameIdent
<1>8. /\ bridge.at = "drain"
      /\ confirmed' = [confirmed EXCEPT ![bridge.ident.bot] = Known(bridge.ident.bot, bridge.offset)]
      /\ UNCHANGED <<backend, sent, config, poller, reset, ills, handled, pairedBy, lateTurns>>
  BY DEF Drain, Confirm
<1>9. offsetFile' = IF bridge'.offset = 0 THEN offsetFile ELSE [bot |-> bridge.ident.bot, next |-> bridge'.offset]
  BY ONLY <1>4, <1>6
<1>10. \E u \in GetUpdates(bridge.ident.bot, bridge.offset) : \E k \in 0 .. Len(u) :
         /\ k < Len(u) => sent[u[k + 1]] >= bridge.pairAt
         /\ bridge'.offset = IF k = 0 THEN bridge.offset ELSE u[k] + 1
  BY <1>5, <1>6
<1> QED  BY <1>7, <1>8, <1>9, <1>10

LEMMA FailsIs ==
  ASSUME TypeOK, DrainFails
  PROVE  /\ bridge.at = "drain" /\ bridge'.at = "poll" /\ bridge'.drained /\ undrained'
         /\ SameIdent /\ bridge'.batch = bridge.batch /\ bridge'.chat = bridge.chat
         /\ bridge'.offset = bridge.offset
         /\ UNCHANGED <<backend, sent, config, poller, reset, offsetFile, confirmed, handled, pairedBy, lateTurns>>
<1>1. bridge \in BridgeType
  BY TypeIs
<1> QED  BY <1>1 DEF DrainFails, BridgeType, SameIdent

LEMMA PollIs ==
  ASSUME TypeOK, Poll
  PROVE  /\ bridge.at = "poll" /\ SameIdent /\ bridge'.chat = bridge.chat /\ bridge'.drained = bridge.drained
         /\ bridge'.offset = bridge.offset
         /\ \/ BackAtTop /\ confirmed' = confirmed
            \/ /\ bridge'.at = "batch" /\ bridge'.batch \in GetUpdates(bridge.ident.bot, bridge.offset)
               /\ confirmed' = [confirmed EXCEPT ![bridge.ident.bot] = Known(bridge.ident.bot, bridge.offset)]
         /\ UNCHANGED <<backend, sent, config, poller, reset, ills, offsetFile, handled, pairedBy, lateTurns>>
<1>1. bridge \in BridgeType
  BY TypeIs
<1>2. /\ bridge.at = "poll"
      /\ UNCHANGED <<backend, sent, config, poller, reset, ills, offsetFile, handled, pairedBy, lateTurns>>
  BY DEF Poll
<1>3. CASE BackToTop /\ UNCHANGED confirmed
  BY <1>1, <1>2, <1>3 DEF BackToTop, BackAtTop, BridgeType, SameIdent
<1>4. ASSUME NEW updates \in GetUpdates(bridge.ident.bot, bridge.offset),
             bridge' = [bridge EXCEPT !.at = "batch", !.batch = updates], Confirm(bridge.ident.bot, bridge.offset)
      PROVE  /\ SameIdent /\ bridge'.chat = bridge.chat /\ bridge'.drained = bridge.drained
             /\ bridge'.offset = bridge.offset /\ bridge'.at = "batch" /\ bridge'.batch = updates
             /\ confirmed' = [confirmed EXCEPT ![bridge.ident.bot] = Known(bridge.ident.bot, bridge.offset)]
  BY <1>1, <1>4 DEF Confirm, BridgeType, SameIdent
<1>5. \/ BackToTop /\ UNCHANGED confirmed
      \/ \E updates \in GetUpdates(bridge.ident.bot, bridge.offset) :
           /\ bridge' = [bridge EXCEPT !.at = "batch", !.batch = updates]
           /\ Confirm(bridge.ident.bot, bridge.offset)
  BY DEF Poll
<1> QED  BY <1>2, <1>3, <1>4, <1>5

LEMMA TakeIs ==
  ASSUME TypeOK, Take
  PROVE  /\ bridge.at = "batch" /\ bridge.batch # <<>> /\ IdentOf(config) = bridge.ident
         /\ Head(bridge.batch) \in Incoming /\ Head(bridge.batch) = bridge.batch[1] /\ 1 \in DOMAIN bridge.batch
         /\ SameIdent /\ bridge'.chat = bridge.chat /\ bridge'.drained = bridge.drained
         /\ bridge'.batch = bridge.batch /\ bridge'.offset = Head(bridge.batch) + 1
         /\ bridge'.at \in {"pair", "route"} /\ (bridge'.at = "pair" => bridge.chat = NoChat)
         /\ offsetFile' = [bot |-> bridge.ident.bot, next |-> Head(bridge.batch) + 1]
         /\ UNCHANGED <<backend, sent, config, poller, reset, ills, confirmed, handled, pairedBy, lateTurns>>
<1>1. bridge \in BridgeType
  BY TypeIs
<1>2. PICK at \in {"pair", "route"} :
        /\ bridge' = [bridge EXCEPT !.offset = Head(bridge.batch) + 1, !.at = at]
        /\ at = "pair" => bridge.chat = NoChat
  BY DEF Take
<1>3. /\ bridge.at = "batch" /\ bridge.batch # <<>> /\ IdentOf(config) = bridge.ident
      /\ offsetFile' = [bot |-> bridge.ident.bot, next |-> Head(bridge.batch) + 1]
      /\ UNCHANGED <<backend, sent, config, poller, reset, ills, confirmed, handled, pairedBy, lateTurns>>
  BY DEF Take
<1>4. bridge.batch \in Updates
  BY <1>1 DEF BridgeType
<1>5. Head(bridge.batch) \in Incoming /\ Head(bridge.batch) = bridge.batch[1] /\ 1 \in DOMAIN bridge.batch
  BY ONLY <1>3, <1>4, BatchTail
<1>6. /\ SameIdent /\ bridge'.chat = bridge.chat /\ bridge'.drained = bridge.drained
      /\ bridge'.batch = bridge.batch /\ bridge'.offset = Head(bridge.batch) + 1 /\ bridge'.at = at
  BY ONLY <1>1, <1>2 DEF BridgeType, SameIdent
<1> QED  BY <1>2, <1>3, <1>5, <1>6

LEMMA EndsIs ==
  ASSUME TypeOK, BatchEnds
  PROVE  /\ bridge.at = "batch" /\ BackAtTop
         /\ UNCHANGED <<backend, sent, config, poller, reset, ills, offsetFile, confirmed, handled, pairedBy, lateTurns>>
<1>1. bridge \in BridgeType
  BY TypeIs
<1> QED  BY <1>1 DEF BatchEnds, BackToTop, BackAtTop, BridgeType

LEMMA PairReadIs ==
  ASSUME TypeOK, BatchInv, PairRead
  PROVE  /\ bridge.at = "pair"
         /\ \/ BackAtTop /\ IdentOf(config) # bridge.ident
            \/ /\ IdentOf(config) = bridge.ident /\ bridge'.at = "write" /\ SameIdent
               /\ bridge'.chat = ChatOf[Head(bridge.batch)]
               /\ bridge'.offset = bridge.offset /\ bridge'.drained = bridge.drained /\ bridge'.batch = bridge.batch
               /\ bridge'.copy.bot = config.bot /\ bridge'.copy.gen = config.gen /\ bridge'.copy.at = config.at
         /\ UNCHANGED <<backend, sent, config, poller, reset, ills, offsetFile, confirmed, handled, pairedBy, lateTurns>>
<1>1. bridge \in BridgeType /\ config \in Configs
  BY TypeIs
<1>2. /\ bridge.at = "pair"
      /\ UNCHANGED <<backend, sent, config, poller, reset, ills, offsetFile, confirmed, handled, pairedBy, lateTurns>>
  BY DEF PairRead
<1>3. CASE IdentOf(config) # bridge.ident
  <2>1. bridge' = [bridge EXCEPT !.at = "top", !.batch = <<>>, !.copy = Blank]
    BY <1>3 DEF PairRead, BackToTop
  <2>2. BackAtTop
    BY ONLY <1>1, <2>1 DEF BackAtTop, BridgeType
  <2> QED  BY <1>2, <1>3, <2>2
<1>4. CASE IdentOf(config) = bridge.ident
  <2> DEFINE c == ChatOf[Head(bridge.batch)]
  <2>1. bridge' = [bridge EXCEPT !.at = "write", !.chat = c, !.copy = [config EXCEPT !.chat = c]]
    BY <1>4 DEF PairRead
  <2> HIDE DEF c
  <2>2. /\ bridge'.at = "write" /\ SameIdent /\ bridge'.chat = c
        /\ bridge'.offset = bridge.offset /\ bridge'.drained = bridge.drained /\ bridge'.batch = bridge.batch
        /\ bridge'.copy.bot = config.bot /\ bridge'.copy.gen = config.gen /\ bridge'.copy.at = config.at
    BY ONLY <1>1, <2>1 DEF BridgeType, Configs, SameIdent
  <2> QED  BY <1>2, <1>4, <2>2 DEF c
<1> QED  BY <1>3, <1>4

LEMMA PairWriteIs ==
  ASSUME TypeOK, PairWrite
  PROVE  /\ bridge.at = "write" /\ bridge'.at = "route" /\ SameIdent /\ bridge'.chat = bridge.chat
         /\ bridge'.offset = bridge.offset /\ bridge'.drained = bridge.drained /\ bridge'.batch = bridge.batch
         /\ \/ config' = bridge.copy /\ pairedBy' = Head(bridge.batch)
            \/ config' = config /\ pairedBy' = pairedBy
         /\ UNCHANGED <<backend, sent, poller, reset, ills, offsetFile, confirmed, handled, lateTurns>>
<1>1. bridge \in BridgeType
  BY TypeIs
<1> QED  BY <1>1 DEF PairWrite, BridgeType, SameIdent

LEMMA RouteIs ==
  ASSUME TypeOK, BatchInv, Route
  PROVE  /\ bridge.at = "route" /\ bridge'.at = "batch" /\ SameIdent /\ bridge'.chat = bridge.chat
         /\ bridge'.offset = bridge.offset /\ bridge'.drained = bridge.drained /\ bridge'.batch = Tail(bridge.batch)
         /\ bridge.batch # <<>> /\ Head(bridge.batch) \in Incoming
         /\ \/ handled' = [handled EXCEPT ![Head(bridge.batch)] = @ + 1] \/ handled' = handled
         /\ \/ lateTurns' = lateTurns + 1 /\ IdentOf(config) # bridge.ident
            \/ lateTurns' = lateTurns
         /\ UNCHANGED <<backend, sent, config, poller, reset, ills, offsetFile, confirmed, pairedBy>>
<1>1. bridge \in BridgeType
  BY TypeIs
<1>2. bridge.batch \in Updates /\ bridge.at = "route" /\ bridge.batch # <<>>
  BY <1>1 DEF BridgeType, Route, BatchInv
<1>3. Head(bridge.batch) \in Incoming
  BY ONLY <1>2, BatchTail
<1>4. bridge' = [bridge EXCEPT !.at = "batch", !.batch = Tail(@)]
  BY DEF Route
<1>5. /\ bridge'.at = "batch" /\ SameIdent /\ bridge'.chat = bridge.chat
      /\ bridge'.offset = bridge.offset /\ bridge'.drained = bridge.drained /\ bridge'.batch = Tail(bridge.batch)
  BY ONLY <1>1, <1>4 DEF BridgeType, SameIdent
<1>6. /\ \/ handled' = [handled EXCEPT ![Head(bridge.batch)] = @ + 1] \/ handled' = handled
      /\ \/ lateTurns' = lateTurns + 1 /\ IdentOf(config) # bridge.ident
         \/ lateTurns' = lateTurns
      /\ UNCHANGED <<backend, sent, config, poller, reset, ills, offsetFile, confirmed, pairedBy>>
  BY DEF Route
<1> QED  BY <1>2, <1>3, <1>5, <1>6

LEMMA CrashIs ==
  ASSUME TypeOK, Crash
  PROVE  /\ bridge'.at = "top" /\ bridge'.batch = <<>> /\ bridge'.ident = NoIdent /\ ~bridge'.drained
         /\ UNCHANGED <<backend, sent, config, poller, reset, undrained, offsetFile, confirmed, handled, pairedBy, lateTurns>>
BY IdleIs DEF Crash

LEMMA WritersAre ==
  ASSUME TypeOK, ConfigInv, WriterInv, PollerApplies \/ PollerSyncs \/ ResetApplies
  PROVE  /\ Sound(config)' /\ config'.chat = NoChat /\ PairingGone
         /\ UNCHANGED <<backend, sent, ills, bridge, confirmed, handled, pairedBy>>
<1>1. poller \in PollerType /\ reset \in PollerType
  BY TypeIs
<1>2. CASE PollerApplies
  BY <1>2 DEF PollerApplies, Apply, ConfigInv, WriterInv, Sound
<1>3. CASE PollerSyncs
  BY <1>3 DEF PollerSyncs, ConfigInv, WriterInv, Sound
<1>4. CASE ResetApplies
  <2>1. PairingGone /\ UNCHANGED <<backend, sent, ills, bridge, confirmed, handled, pairedBy>>
    BY <1>4 DEF ResetApplies
  <2>2. CASE reset.at = "apply"
    <3>1. config' = [reset.answer EXCEPT !.gen = IF @ = 0 THEN reset.gen ELSE @]
      BY <1>4, <2>2 DEF ResetApplies, Apply
    <3>2. reset.answer \in Configs
      BY <1>1 DEF PollerType
    <3>3. /\ config'.bot = reset.answer.bot /\ config'.chat = reset.answer.chat /\ config'.at = reset.answer.at
          /\ config'.gen = IF reset.answer.gen = 0 THEN reset.gen ELSE reset.answer.gen
      BY ONLY <3>1, <3>2 DEF Configs
    <3>4. /\ Sound(reset.answer) /\ reset.gen <= backend.gen /\ reset.answer.chat = NoChat
          /\ reset.answer.bot # NoBot => reset.answer.gen # 0
      BY <2>2 DEF ConfigInv, WriterInv
    <3> QED  BY <2>1, <3>3, <3>4 DEF Sound
  <2>3. CASE reset.at # "apply"
    <3>1. config' = [Blank EXCEPT !.gen = reset.gen]
      BY <1>4, <2>3 DEF ResetApplies, Apply
    <3>2. config'.bot = NoBot /\ config'.chat = NoChat /\ config'.gen = reset.gen
      BY ONLY <3>1 DEF Blank
    <3> QED  BY <2>1, <3>2 DEF Sound, ConfigInv
  <2> QED  BY <2>2, <2>3
<1> QED  BY <1>2, <1>3, <1>4

LEMMA SentStep ==
  ASSUME TypeOK, SentInv, BatchInv, [Next]_vars
  PROVE  SentInv'
<1>0. /\ backend.gen \in Nat /\ sent \in [Incoming -> Gens] /\ handled \in [Incoming -> Nat]
      /\ \A m \in Incoming : sent[m] \in Nat
  BY TypeIs, PairFacts
<1>1. ASSUME NEW m \in Incoming, Send(m)
      PROVE  SentInv'
  <2>1. /\ sent[m] = 0 /\ \A n \in Incoming : n < m => sent[n] # 0
        /\ sent' = [sent EXCEPT ![m] = backend.gen] /\ backend' = backend /\ handled' = handled
    BY <1>1 DEF Send, bridgeVars
  <2>2. \A x \in Incoming : sent'[x] = IF x = m THEN backend.gen ELSE sent[x]
    BY <1>0, <2>1
  <2>3. ASSUME NEW k \in Incoming, NEW n \in Incoming, n < k, sent'[k] # 0
        PROVE  sent'[n] # 0 /\ sent'[n] <= sent'[k]
    <3>1. n \in Nat /\ k \in Nat /\ m \in Nat
      BY NumbersAre
    <3>2. CASE k = m
      BY <1>0, <2>1, <2>2, <2>3, <3>1, <3>2 DEF SentInv
    <3>3. CASE k # m
      <4>1. sent[k] # 0 /\ sent[n] # 0 /\ sent[n] <= sent[k]
        BY <2>2, <2>3, <3>3 DEF SentInv
      <4> QED  BY <2>1, <2>2, <3>3, <4>1
    <3> QED  BY <3>2, <3>3
  <2>4. \A x \in Incoming : sent'[x] <= backend'.gen /\ (handled'[x] > 0 => sent'[x] # 0)
    BY <1>0, <2>1, <2>2 DEF SentInv
  <2> QED  BY <2>1, <2>3, <2>4 DEF SentInv
<1>2. ASSUME NEW bot \in Bots \cup {NoBot}, Link(bot)
      PROVE  SentInv'
  <2>1. backend'.gen = backend.gen + 1 /\ sent' = sent /\ handled' = handled
    BY <1>2 DEF Link, bridgeVars
  <2> QED  BY <1>0, <2>1 DEF SentInv
<1>3. CASE Route
  <2>1. /\ backend' = backend /\ sent' = sent /\ bridge.at = "route" /\ bridge.batch # <<>>
        /\ Head(bridge.batch) \in Incoming
        /\ handled' = [handled EXCEPT ![Head(bridge.batch)] = @ + 1] \/ handled' = handled
    BY <1>3, RouteIs
  <2>2. sent[Head(bridge.batch)] # 0
    <3>1. bridge.batch \in Updates
      BY DEF TypeOK
    <3>2. Head(bridge.batch) = bridge.batch[1] /\ 1 \in DOMAIN bridge.batch
      BY ONLY <2>1, <3>1, BatchTail
    <3> QED  BY <3>2 DEF BatchInv
  <2>3. \A x \in Incoming : handled'[x] > 0 => handled[x] > 0 \/ x = Head(bridge.batch)
    BY <1>0, <2>1
  <2> QED  BY <2>1, <2>2, <2>3 DEF SentInv
<1>4. CASE UNCHANGED <<backend, sent, handled>>
  BY <1>4 DEF SentInv
<1> QED
  BY <1>1, <1>2, <1>3, <1>4 DEF Next, Poller, Reset, Bridge, PollerReads, PollerFetches, PollerApplies, PollerSyncs,
     ResetFetches, ResetApplies, ReadConfig, Drain, DrainFails, Poll, Take, BatchEnds, PairRead, PairWrite, Crash,
     vars, bridgeVars

LEMMA ConfigStep ==
  ASSUME TypeOK, SentInv, ConfigInv, WriterInv, BatchInv, PairInv, [Next]_vars
  PROVE  ConfigInv' /\ WriterInv'
<1>0. /\ backend.gen \in Nat /\ config \in Configs /\ backend.gen > 0
      /\ poller \in PollerType /\ reset \in PollerType /\ bridge \in BridgeType
      /\ \A c \in Configs : c.gen \in Nat
      /\ bridge.ident.gen \in Nat /\ reset.gen \in Nat
  <2>1. backend \in [bot : Bots \cup {NoBot}, gen : Gens] /\ config \in Configs
        /\ poller \in PollerType /\ reset \in PollerType /\ bridge \in BridgeType
    BY TypeIs
  <2> QED  BY <2>1, PairFacts DEF PollerType, BridgeType, Configs, SentInv
<1>1. ASSUME NEW m \in Incoming, Send(m)
      PROVE  ConfigInv' /\ WriterInv'
  BY <1>1 DEF Send, bridgeVars, ConfigInv, WriterInv, Sound
<1>2. ASSUME NEW bot \in Bots \cup {NoBot}, Link(bot)
      PROVE  ConfigInv' /\ WriterInv'
  <2>1. /\ backend'.gen = backend.gen + 1 /\ config' = config /\ poller' = poller /\ bridge' = bridge
        /\ reset' = reset \/ reset' = [Idle EXCEPT !.at = "fetch", !.gen = backend.gen + 1]
    BY <1>2 DEF Link, bridgeVars
  <2>2. reset' = reset \/ (reset'.at = "fetch" /\ reset'.gen = backend.gen + 1)
    BY <2>1, IdleIs DEF PollerType
  <2>3. \A c \in Configs : Sound(c) => (c.bot # NoBot => c.at = c.gen) /\ (c.bot = NoBot => c.chat = NoChat)
                                        /\ c.gen <= backend'.gen
    BY <1>0, <2>1 DEF Sound
  <2>4. poller.local \in Configs /\ poller.answer \in Configs /\ reset.answer \in Configs
    BY <1>0 DEF PollerType
  <2>5. /\ Sound(config)' /\ Sound(poller.local)'
        /\ poller'.at \in {"apply", "sync"} => Sound(poller.answer)'
    BY <1>0, <2>1, <2>3, <2>4 DEF ConfigInv, Sound
  <2>6. reset'.at = "apply" => Sound(reset.answer)'
    BY <2>1, <2>2, <2>3, <2>4 DEF ConfigInv, Sound
  <2>7. bridge'.ident.gen <= backend'.gen /\ reset'.gen <= backend'.gen
    BY <1>0, <2>1, <2>2 DEF ConfigInv
  <2>8. WriterInv'
    BY <2>1, <2>2 DEF WriterInv
  <2> QED  BY <2>5, <2>6, <2>7, <2>8 DEF ConfigInv
<1>3. CASE PollerReads
  <2>1. /\ poller'.at = "fetch" /\ poller'.local = config
        /\ UNCHANGED <<backend, config, reset, bridge>>
    BY <1>3, IdleIs DEF PollerReads, PollerType, bridgeVars
  <2> QED  BY <2>1 DEF ConfigInv, WriterInv, Sound
<1>4. CASE PollerFetches
  <2>0. UNCHANGED <<backend, config, reset, bridge>>
    BY <1>4 DEF PollerFetches, bridgeVars
  <2>1. CASE poller' = Idle
    <3>1. poller'.at = "idle" /\ poller'.local = Blank
      BY <2>1, IdleIs
    <3> QED  BY <1>0, <2>0, <3>1, BlankIs DEF ConfigInv, WriterInv, Sound
  <2>2. ASSUME NEW answer \in Answers, poller' = [poller EXCEPT !.at = "apply", !.answer = answer]
        PROVE  ConfigInv' /\ WriterInv'
    <3>1. answer \in Configs /\ answer.chat = NoChat /\ answer.at = answer.gen /\ answer.gen <= backend.gen
      BY <1>0, AnswerIs
    <3>2. poller'.at = "apply" /\ poller'.local = poller.local /\ poller'.answer = answer
      BY <1>0, <2>2 DEF PollerType
    <3> QED  BY <2>0, <3>1, <3>2 DEF ConfigInv, WriterInv, Sound
  <2>3. ASSUME NEW answer \in Answers, poller.local.bot = NoBot,
               poller' = [poller EXCEPT !.at = "sync", !.answer = [poller.local EXCEPT !.gen = answer.gen]]
        PROVE  ConfigInv' /\ WriterInv'
    <3>1. answer.gen <= backend.gen
      BY <1>0, AnswerIs
    <3>2. poller'.at = "sync" /\ poller'.local = poller.local
          /\ poller'.answer = [poller.local EXCEPT !.gen = answer.gen]
      BY <1>0, <2>3 DEF PollerType
    <3>3. /\ poller'.answer.bot = NoBot /\ poller'.answer.chat = poller.local.chat
          /\ poller'.answer.gen = answer.gen
      BY <1>0, <2>3, <3>2 DEF PollerType, Configs
    <3>4. Sound(poller.local)
      BY DEF ConfigInv
    <3> QED  BY <2>0, <2>3, <3>1, <3>2, <3>3, <3>4 DEF ConfigInv, WriterInv, Sound
  <2> QED  BY <1>4, <2>1, <2>2, <2>3, PollerFetch
<1>5. CASE PollerApplies \/ PollerSyncs \/ ResetApplies
  <2>1. Sound(config)' /\ UNCHANGED <<backend, bridge>>
    BY <1>5, WritersAre
  <2>2. /\ poller' = poller \/ (poller'.at = "idle" /\ poller'.local = Blank)
        /\ reset' = reset \/ (reset'.at = "idle" /\ reset'.gen = 0)
    BY <1>5, IdleIs DEF PollerApplies, PollerSyncs, ResetApplies
  <2>3. Sound(Blank)
    BY <1>0, BlankIs DEF Sound
  <2>4. poller.local \in Configs
    BY <1>0 DEF PollerType
  <2>5. Sound(poller.local)'
    BY <2>1, <2>2, <2>3 DEF ConfigInv, Sound
  <2>6. WriterInv'
    BY <2>2 DEF WriterInv
  <2>7. /\ bridge'.ident.gen <= backend'.gen /\ reset'.gen <= backend'.gen
        /\ poller'.at \in {"apply", "sync"} => Sound(poller.answer)'
        /\ reset'.at = "apply" => Sound(reset.answer)'
    BY <1>0, <2>1, <2>2 DEF ConfigInv, Sound
  <2> QED  BY <2>1, <2>5, <2>6, <2>7 DEF ConfigInv
<1>6. CASE ResetFetches
  <2>0. UNCHANGED <<backend, config, poller, bridge>>
    BY <1>6 DEF ResetFetches, bridgeVars
  <2>1. ASSUME NEW answer \in Answers, reset' = [reset EXCEPT !.at = "apply", !.answer = answer]
        PROVE  ConfigInv' /\ WriterInv'
    <3>1. /\ answer \in Configs /\ answer.chat = NoChat /\ answer.at = answer.gen /\ answer.gen <= backend.gen
          /\ answer.bot # NoBot => answer.gen # 0
      BY <1>0, AnswerIs DEF Agreed
    <3>2. reset'.at = "apply" /\ reset'.answer = answer /\ reset'.gen = reset.gen
      BY <1>0, <2>1 DEF PollerType
    <3> QED  BY <2>0, <3>1, <3>2 DEF ConfigInv, WriterInv, Sound
  <2>2. CASE reset' = [reset EXCEPT !.at = "failed"]
    <3>1. reset'.at = "failed" /\ reset'.gen = reset.gen
      BY <1>0, <2>2 DEF PollerType
    <3> QED  BY <2>0, <3>1 DEF ConfigInv, WriterInv, Sound
  <2> QED  BY <1>6, <2>1, <2>2 DEF ResetFetches
<1>7. CASE ReadConfig
  <2>1. bridge'.ident = IdentOf(config) /\ UNCHANGED <<backend, config, poller, reset>>
    BY <1>7, ReadIs
  <2>2. IdentOf(config).gen <= backend.gen
    BY <1>0, IdentIs DEF ConfigInv, Sound
  <2> QED  BY <2>1, <2>2 DEF ConfigInv, WriterInv, Sound
<1>8. CASE PairWrite
  <2>1. /\ bridge.at = "write" /\ bridge'.ident = bridge.ident /\ UNCHANGED <<backend, poller, reset>>
        /\ config' = bridge.copy \/ config' = config
    BY <1>8, PairWriteIs DEF SameIdent
  <2>2. /\ bridge.copy.bot = bridge.ident.bot /\ bridge.copy.gen = bridge.ident.gen
        /\ bridge.copy.at = bridge.ident.gen /\ bridge.ident.bot # NoBot
    BY <2>1 DEF PairInv, BatchInv
  <2>3. Sound(config)'
    BY <2>1, <2>2 DEF Sound, ConfigInv
  <2> QED  BY <2>1, <2>3 DEF ConfigInv, WriterInv, Sound
<1>9. CASE Crash
  <2>1. bridge'.ident = NoIdent /\ UNCHANGED <<backend, config, poller, reset>>
    BY <1>9, CrashIs
  <2> QED  BY <1>0, <2>1, BlankIs DEF ConfigInv, WriterInv, Sound
<1>10. CASE Drain \/ DrainFails \/ Poll \/ Take \/ BatchEnds \/ PairRead \/ Route
  <2>1. bridge'.ident = bridge.ident /\ UNCHANGED <<backend, config, poller, reset>>
    BY <1>10, DrainIs, FailsIs, PollIs, TakeIs, EndsIs, PairReadIs, RouteIs DEF SameIdent, BackAtTop
  <2> QED  BY <2>1 DEF ConfigInv, WriterInv, Sound
<1>11. CASE UNCHANGED vars
  BY <1>11 DEF vars, bridgeVars, ConfigInv, WriterInv, Sound
<1> QED  BY <1>1, <1>2, <1>3, <1>4, <1>5, <1>6, <1>7, <1>8, <1>9, <1>10, <1>11 DEF Next, Poller, Reset, Bridge

LEMMA ReturnedAre ==
  ASSUME TypeOK, NEW bot \in Bots, NEW u \in GetUpdates(bot, bridge.offset)
  PROVE  /\ u \in Seq(Incoming) /\ Len(u) \in Nat /\ DOMAIN u = 1 .. Len(u)
         /\ \A i \in DOMAIN u : /\ i \in Nat /\ u[i] \in Incoming /\ BotOf[u[i]] = bot /\ sent[u[i]] # 0
                                /\ u[i] >= bridge.offset /\ u[i] >= confirmed[bot]
         /\ \A i, j \in DOMAIN u : i < j => u[i] < u[j]
         /\ \A m \in Incoming : BotOf[m] = bot /\ sent[m] # 0 =>
              m < bridge.offset \/ m < confirmed[bot] \/ \E i \in DOMAIN u : u[i] = m
         /\ Known(bot, bridge.offset) \in Nat
         /\ Known(bot, bridge.offset) >= bridge.offset /\ Known(bot, bridge.offset) >= confirmed[bot]
<1>1. /\ u \in Updates
      /\ {u[i] : i \in DOMAIN u} = {m \in Incoming : BotOf[m] = bot /\ sent[m] # 0 /\ m >= Known(bot, bridge.offset)}
      /\ \A i, j \in DOMAIN u : i < j => u[i] < u[j]
  BY DEF GetUpdates
<1>2. u \in Seq(Incoming) /\ Len(u) \in Nat /\ DOMAIN u = 1 .. Len(u)
  BY ONLY <1>1, UpdatesAre
<1>3. bridge.offset \in Nat /\ confirmed[bot] \in Nat
  BY DEF TypeOK
<1>4. /\ Known(bot, bridge.offset) \in Nat
      /\ Known(bot, bridge.offset) >= bridge.offset /\ Known(bot, bridge.offset) >= confirmed[bot]
      /\ Known(bot, bridge.offset) = bridge.offset \/ Known(bot, bridge.offset) = confirmed[bot]
  BY <1>3 DEF Known
<1> HIDE DEF Known
<1>5. ASSUME NEW i \in DOMAIN u
      PROVE  /\ i \in Nat /\ u[i] \in Incoming /\ BotOf[u[i]] = bot /\ sent[u[i]] # 0
             /\ u[i] >= bridge.offset /\ u[i] >= confirmed[bot]
  <2>1. u[i] \in Incoming /\ BotOf[u[i]] = bot /\ sent[u[i]] # 0 /\ u[i] >= Known(bot, bridge.offset)
    BY ONLY <1>1, <1>5
  <2>2. u[i] \in Nat
    BY <2>1, NumbersAre
  <2>3. u[i] >= bridge.offset /\ u[i] >= confirmed[bot]
    BY ONLY <1>3, <1>4, <2>1, <2>2
  <2> QED  BY <1>2, <2>1, <2>3
<1>6. ASSUME NEW m \in Incoming, BotOf[m] = bot, sent[m] # 0
      PROVE  m < bridge.offset \/ m < confirmed[bot] \/ \E i \in DOMAIN u : u[i] = m
  <2>1. m \in Nat
    BY NumbersAre
  <2>2. CASE m >= Known(bot, bridge.offset)
    BY ONLY <1>1, <1>6, <2>2
  <2>3. CASE ~(m >= Known(bot, bridge.offset))
    BY ONLY <1>3, <1>4, <2>1, <2>3
  <2> QED  BY <2>2, <2>3
<1> QED  BY <1>1, <1>2, <1>4, <1>5, <1>6

LEMMA BatchStep ==
  ASSUME TypeOK, ConfigInv, BatchInv, PairInv, FirstInv, [Next]_vars
  PROVE  BatchInv' /\ PairInv' /\ FirstInv'
<1>0. /\ config \in Configs /\ bridge \in BridgeType /\ sent \in [Incoming -> Gens] /\ backend.gen \in Gens
      /\ bridge.batch \in Updates /\ bridge.ident.bot \in Bots \cup {NoBot} /\ bridge.offset \in Nat
  <2>1. bridge \in BridgeType
    BY TypeIs
  <2> QED  BY <2>1, TypeIs DEF BridgeType
<1>01. \A i \in DOMAIN bridge.batch : i \in Nat /\ bridge.batch[i] \in Incoming /\ bridge.batch[i] \in Nat
  <2>1. bridge.batch \in Seq(Incoming)
    BY <1>0, UpdatesAre
  <2> QED  BY <2>1, NumbersAre
<1>1. ASSUME NEW m \in Incoming, Send(m)
      PROVE  BatchInv' /\ PairInv' /\ FirstInv'
  <2>1. sent[m] = 0 /\ sent' = [sent EXCEPT ![m] = backend.gen] /\ bridge' = bridge
    BY <1>1 DEF Send, bridgeVars
  <2>2. \A x \in Incoming : sent[x] # 0 => sent'[x] = sent[x]
    BY <1>0, <2>1
  <2>3. \A i \in DOMAIN bridge.batch : sent'[bridge.batch[i]] # 0
    BY <1>01, <2>2 DEF BatchInv
  <2> QED  BY <2>1, <2>3 DEF BatchInv, PairInv, FirstInv
<1>2. ASSUME bridge' = bridge, sent' = sent
      PROVE  BatchInv' /\ PairInv' /\ FirstInv'
  BY <1>2 DEF BatchInv, PairInv, FirstInv
<1>3. ASSUME BackAtTop, sent' = sent
      PROVE  BatchInv' /\ PairInv' /\ FirstInv'
  <2>1. DOMAIN bridge'.batch = {}
    BY <1>3, NoUpdates DEF BackAtTop
  <2> QED  BY <1>3, <2>1 DEF BackAtTop, BatchInv, PairInv, FirstInv
<1>4. CASE ReadConfig
  <2>1. /\ bridge'.batch = bridge.batch /\ sent' = sent /\ bridge.at = "top"
        /\ bridge'.ident = IdentOf(config) /\ bridge'.chat = config.chat /\ bridge'.pairAt = config.at
        /\ bridge'.at \in {"top", "drain", "poll"} /\ (bridge'.at = "top" <=> config.bot = NoBot)
        /\ bridge'.at = "poll" => config.chat # NoChat \/ bridge'.drained
    BY <1>4, ReadIs
  <2>2. bridge'.batch = <<>> /\ DOMAIN bridge'.batch = {}
    BY <2>1, NoUpdates DEF BatchInv
  <2>3. IdentOf(config).bot = config.bot /\ (config.bot # NoBot => IdentOf(config).gen = config.gen /\ config.at = config.gen)
    BY <1>0, IdentIs DEF ConfigInv, Sound
  <2> QED  BY <2>1, <2>2, <2>3 DEF BatchInv, PairInv, FirstInv
<1>5. CASE Drain \/ DrainFails
  <2>1. /\ bridge.at = "drain" /\ bridge'.at = "poll" /\ bridge'.drained /\ SameIdent
        /\ bridge'.batch = bridge.batch /\ sent' = sent
    BY <1>5, DrainIs, FailsIs
  <2>2. bridge'.batch = <<>> /\ DOMAIN bridge'.batch = {}
    BY <2>1, NoUpdates DEF BatchInv
  <2> QED  BY <2>1, <2>2 DEF BatchInv, PairInv, FirstInv, SameIdent
<1>6. CASE Poll
  <2>1. /\ bridge.at = "poll" /\ SameIdent /\ bridge'.chat = bridge.chat /\ bridge'.drained = bridge.drained
        /\ bridge'.offset = bridge.offset /\ sent' = sent
        /\ BackAtTop \/ (bridge'.at = "batch" /\ bridge'.batch \in GetUpdates(bridge.ident.bot, bridge.offset))
    BY <1>6, PollIs
  <2>2. CASE bridge'.at = "batch" /\ bridge'.batch \in GetUpdates(bridge.ident.bot, bridge.offset)
    <3>1. bridge.ident.bot \in Bots
      BY <1>0, <2>1 DEF BatchInv
    <3>2. /\ \A i, j \in DOMAIN bridge'.batch : i < j => bridge'.batch[i] < bridge'.batch[j]
          /\ \A i \in DOMAIN bridge'.batch :
               /\ BotOf[bridge'.batch[i]] = bridge.ident.bot /\ sent[bridge'.batch[i]] # 0
               /\ bridge'.batch[i] >= bridge.offset
      BY <2>2, <3>1, ReturnedAre
    <3> QED  BY <2>1, <2>2, <3>1, <3>2 DEF BatchInv, PairInv, FirstInv, SameIdent
  <2> QED  BY <1>3, <2>1, <2>2
<1>7. CASE Take
  <2>1. /\ bridge.at = "batch" /\ bridge.batch # <<>> /\ sent' = sent
        /\ Head(bridge.batch) \in Incoming /\ Head(bridge.batch) = bridge.batch[1] /\ 1 \in DOMAIN bridge.batch
        /\ SameIdent /\ bridge'.chat = bridge.chat /\ bridge'.drained = bridge.drained
        /\ bridge'.batch = bridge.batch /\ bridge'.offset = Head(bridge.batch) + 1
        /\ bridge'.at \in {"pair", "route"} /\ (bridge'.at = "pair" => bridge.chat = NoChat)
    BY <1>7, TakeIs
  <2>2. ASSUME NEW i \in DOMAIN bridge.batch, i > 1
        PROVE  bridge.batch[i] >= Head(bridge.batch) + 1
    <3>1. bridge.batch[1] < bridge.batch[i]
      BY <2>1, <2>2, <1>01 DEF BatchInv
    <3>2. bridge.batch[1] \in Nat /\ bridge.batch[i] \in Nat
      BY <2>1, <2>2, <1>01
    <3> QED  BY <2>1, <3>1, <3>2
  <2>3. BatchInv'
    BY <2>1, <2>2 DEF BatchInv, SameIdent
  <2>4. PairInv'
    BY <2>1 DEF PairInv, SameIdent
  <2>5. bridge.chat # NoChat \/ bridge.drained
    BY <2>1 DEF PairInv
  <2>6. FirstInv'
    BY <2>1, <2>5 DEF FirstInv
  <2> QED  BY <2>3, <2>4, <2>6
<1>8. CASE BatchEnds
  BY <1>3, <1>8, EndsIs
<1>9. CASE PairRead
  <2>1. /\ bridge.at = "pair" /\ sent' = sent
        /\ \/ BackAtTop
           \/ /\ IdentOf(config) = bridge.ident /\ bridge'.at = "write" /\ SameIdent
              /\ bridge'.offset = bridge.offset /\ bridge'.drained = bridge.drained /\ bridge'.batch = bridge.batch
              /\ bridge'.copy.bot = config.bot /\ bridge'.copy.gen = config.gen /\ bridge'.copy.at = config.at
    BY <1>9, PairReadIs
  <2>2. CASE ~BackAtTop
    <3>1. bridge.ident.bot # NoBot
      BY <2>1 DEF BatchInv
    <3>2. /\ config.bot = bridge.ident.bot /\ config.gen = bridge.ident.gen /\ config.at = bridge.ident.gen
      BY <1>0, <2>1, <2>2, <3>1, IdentIs DEF ConfigInv, Sound
    <3>3. BatchInv'
      BY <2>1, <2>2 DEF BatchInv, SameIdent
    <3>4. PairInv' /\ FirstInv'
      BY <2>1, <2>2, <3>2 DEF PairInv, FirstInv, SameIdent
    <3> QED  BY <3>3, <3>4
  <2> QED  BY <1>3, <2>1, <2>2
<1>10. CASE PairWrite
  <2>1. /\ bridge.at = "write" /\ bridge'.at = "route" /\ SameIdent /\ bridge'.chat = bridge.chat /\ sent' = sent
        /\ bridge'.offset = bridge.offset /\ bridge'.drained = bridge.drained /\ bridge'.batch = bridge.batch
    BY <1>10, PairWriteIs
  <2> QED  BY <2>1 DEF BatchInv, PairInv, FirstInv, SameIdent
<1>11. CASE Route
  <2>1. /\ bridge.at = "route" /\ bridge'.at = "batch" /\ SameIdent /\ bridge'.chat = bridge.chat /\ sent' = sent
        /\ bridge'.offset = bridge.offset /\ bridge'.drained = bridge.drained /\ bridge'.batch = Tail(bridge.batch)
        /\ bridge.batch # <<>>
    BY <1>11, RouteIs
  <2>2. \A i \in DOMAIN bridge'.batch : /\ i \in Nat /\ i > 0 /\ i + 1 \in DOMAIN bridge.batch
                                         /\ bridge'.batch[i] = bridge.batch[i + 1]
    BY <1>0, <2>1, BatchTail
  <2>3. \A i, j \in DOMAIN bridge'.batch : i < j => bridge'.batch[i] < bridge'.batch[j]
    <3> SUFFICES ASSUME NEW i \in DOMAIN bridge'.batch, NEW j \in DOMAIN bridge'.batch, i < j
                 PROVE  bridge'.batch[i] < bridge'.batch[j]
      OBVIOUS
    <3>1. i + 1 < j + 1
      BY <2>2
    <3> QED  BY <2>2, <3>1 DEF BatchInv
  <2>4. \A i \in DOMAIN bridge'.batch :
          /\ BotOf[bridge'.batch[i]] = bridge'.ident.bot /\ sent'[bridge'.batch[i]] # 0
          /\ bridge'.batch[i] >= bridge'.offset
    <3> SUFFICES ASSUME NEW i \in DOMAIN bridge'.batch
                 PROVE  /\ BotOf[bridge'.batch[i]] = bridge'.ident.bot /\ sent'[bridge'.batch[i]] # 0
                        /\ bridge'.batch[i] >= bridge'.offset
      OBVIOUS
    <3>1. i + 1 > 1 /\ i + 1 \in DOMAIN bridge.batch /\ bridge'.batch[i] = bridge.batch[i + 1]
      BY <2>2
    <3> QED  BY <2>1, <3>1 DEF BatchInv, SameIdent
  <2>5. bridge'.ident.bot # NoBot
    BY <2>1 DEF BatchInv, SameIdent
  <2>6. BatchInv'
    BY <2>1, <2>3, <2>4, <2>5 DEF BatchInv
  <2>7. PairInv' /\ FirstInv'
    BY <2>1 DEF PairInv, FirstInv, SameIdent
  <2> QED  BY <2>6, <2>7
<1>12. CASE Crash
  <2>1. bridge'.at = "top" /\ bridge'.batch = <<>> /\ bridge'.ident.bot = NoBot /\ sent' = sent
    BY <1>12, CrashIs, BlankIs
  <2>2. DOMAIN bridge'.batch = {}
    BY <2>1, NoUpdates
  <2> QED  BY <2>1, <2>2 DEF BatchInv, PairInv, FirstInv
<1>13. CASE Poller \/ Reset \/ (\E bot \in Bots \cup {NoBot} : Link(bot)) \/ UNCHANGED vars
  BY <1>2, <1>13 DEF Poller, Reset, PollerReads, PollerFetches, PollerApplies, PollerSyncs,
     ResetFetches, ResetApplies, Link, vars, bridgeVars
<1> QED  BY <1>1, <1>4, <1>5, <1>6, <1>7, <1>8, <1>9, <1>10, <1>11, <1>12, <1>13 DEF Next, Bridge

\* The backlog drain passes every message of before the pairing.
LEMMA DrainPasses ==
  ASSUME TypeOK, SentInv, BatchInv, PairInv, Drain
  PROVE  /\ bridge'.offset \in Nat
         /\ \A m \in Incoming : BotOf[m] = bridge.ident.bot /\ sent[m] # 0 /\ sent[m] < bridge.ident.gen
              => m < bridge'.offset \/ m < confirmed'[bridge.ident.bot]
<1> DEFINE bot == bridge.ident.bot
<1>1. /\ bridge.at = "drain" /\ SameIdent
      /\ \E updates \in GetUpdates(bot, bridge.offset) : \E n \in 0 .. Len(updates) :
           /\ n < Len(updates) => sent[updates[n + 1]] >= bridge.pairAt
           /\ bridge'.offset = IF n = 0 THEN bridge.offset ELSE updates[n] + 1
      /\ confirmed' = [confirmed EXCEPT ![bot] = Known(bot, bridge.offset)]
  BY DrainIs
<1>2. /\ bot \in Bots /\ bridge.ident.gen \in Nat /\ bridge.pairAt = bridge.ident.gen /\ bridge.offset \in Nat
      /\ confirmed \in [Bots -> Nat] /\ \A m \in Incoming : sent[m] \in Nat
  <2>1. bridge \in BridgeType /\ sent \in [Incoming -> Gens] /\ confirmed \in [Bots -> Nat]
    BY TypeIs
  <2>2. bot # NoBot
    BY <1>1 DEF BatchInv
  <2> QED  BY <2>1, <2>2, PairFacts DEF BridgeType, PairInv
<1>3. PICK u \in GetUpdates(bot, bridge.offset) : \E n \in 0 .. Len(u) :
        /\ n < Len(u) => sent[u[n + 1]] >= bridge.pairAt
        /\ bridge'.offset = IF n = 0 THEN bridge.offset ELSE u[n] + 1
  BY <1>1
<1>4. PICK n \in 0 .. Len(u) :
        /\ n < Len(u) => sent[u[n + 1]] >= bridge.pairAt
        /\ bridge'.offset = IF n = 0 THEN bridge.offset ELSE u[n] + 1
  BY <1>3
<1> HIDE DEF bot
<1>5. /\ u \in Seq(Incoming) /\ Len(u) \in Nat /\ DOMAIN u = 1 .. Len(u)
      /\ \A i \in DOMAIN u : i \in Nat /\ u[i] \in Incoming
      /\ \A i, j \in DOMAIN u : i < j => u[i] < u[j]
      /\ \A m \in Incoming : BotOf[m] = bot /\ sent[m] # 0 =>
           m < bridge.offset \/ m < confirmed[bot] \/ \E i \in DOMAIN u : u[i] = m
      /\ \A i \in DOMAIN u : u[i] >= bridge.offset
      /\ Known(bot, bridge.offset) >= bridge.offset /\ Known(bot, bridge.offset) >= confirmed[bot]
      /\ Known(bot, bridge.offset) \in Nat
  BY <1>2, <1>3, ReturnedAre
<1>6. bridge'.offset \in Nat
  <2>1. n = 0 \/ n \in DOMAIN u
    BY <1>4, <1>5
  <2>2. CASE n = 0
    BY <1>2, <1>4, <2>2
  <2>3. CASE n # 0
    <3>1. u[n] + 1 \in Nat
      BY <1>5, <2>1, <2>3, NumbersAre
    <3> QED  BY ONLY <1>4, <2>3, <3>1
  <2> QED  BY <2>2, <2>3
<1>7. ASSUME NEW m \in Incoming, BotOf[m] = bot, sent[m] # 0, sent[m] < bridge.ident.gen
      PROVE  m < bridge'.offset \/ m < confirmed'[bot]
  <2>0. m \in Nat /\ confirmed'[bot] = Known(bot, bridge.offset) /\ confirmed[bot] \in Nat
    BY <1>1, <1>2, NumbersAre DEF bot
  <2>1. CASE m < bridge.offset \/ m < confirmed[bot]
    BY ONLY <1>2, <1>5, <2>0, <2>1
  <2>2. CASE \E i \in DOMAIN u : u[i] = m
    <3>1. PICK i \in DOMAIN u : u[i] = m
      BY <2>2
    <3>2. i \in 1 .. Len(u)
      BY <1>5, <3>1
    <3>3. CASE i <= n
      <4>1. n # 0 /\ n \in DOMAIN u /\ n \in Nat
        BY ONLY <1>4, <1>5, <3>2, <3>3
      <4>2. u[n] \in Nat /\ u[i] <= u[n]
        <5>1. u[n] \in Nat
          BY <1>5, <4>1, NumbersAre
        <5>2. i = n \/ i < n
          BY ONLY <3>2, <3>3, <4>1
        <5> QED  BY ONLY <1>5, <2>0, <3>1, <4>1, <5>1, <5>2
      <4>3. bridge'.offset = u[n] + 1
        BY <1>4, <4>1
      <4> QED  BY ONLY <2>0, <3>1, <4>2, <4>3
    <3>4. CASE ~(i <= n)
      <4>1. n < Len(u) /\ n + 1 \in DOMAIN u /\ (n + 1 = i \/ n + 1 < i)
        BY ONLY <1>4, <1>5, <3>2, <3>4
      <4> DEFINE k == u[n + 1]
      <4>2. k \in Incoming /\ (k = m \/ k < m)
        BY ONLY <1>5, <3>1, <4>1
      <4>3. sent[k] >= bridge.ident.gen
        BY <1>2, <1>4, <4>1
      <4> HIDE DEF k
      <4>4. sent[k] <= sent[m]
        BY <1>2, <1>7, <4>2 DEF SentInv
      <4>5. sent[k] \in Nat /\ sent[m] \in Nat
        BY <1>2, <4>2
      <4> QED  BY ONLY <1>2, <1>7, <4>3, <4>4, <4>5
    <3> QED  BY <3>3, <3>4
  <2> QED  BY <1>5, <1>7, <2>1, <2>2
<1> QED  BY <1>6, <1>7 DEF bot

LEMMA DrainStep ==
  ASSUME TypeOK, SentInv, ConfigInv, WriterInv, BatchInv, PairInv, DrainInv, [Next]_vars
  PROVE  DrainInv'
<1>0. /\ config \in Configs /\ bridge \in BridgeType /\ sent \in [Incoming -> Gens] /\ confirmed \in [Bots -> Nat]
      /\ bridge.batch \in Updates /\ bridge.ident.bot \in Bots \cup {NoBot} /\ bridge.offset \in Nat
      /\ bridge.ident.gen \in Nat /\ backend.gen \in Nat /\ \A m \in Incoming : sent[m] \in Nat
  <2>1. bridge \in BridgeType /\ config \in Configs /\ sent \in [Incoming -> Gens] /\ confirmed \in [Bots -> Nat]
        /\ backend \in [bot : Bots \cup {NoBot}, gen : Gens]
    BY TypeIs
  <2> QED  BY <2>1, PairFacts DEF BridgeType
<1>01. \A i \in DOMAIN bridge.batch : i \in Nat /\ bridge.batch[i] \in Incoming /\ bridge.batch[i] \in Nat
  <2>1. bridge.batch \in Seq(Incoming)
    BY <1>0, UpdatesAre
  <2> QED  BY <2>1, NumbersAre
<1>1. ASSUME NEW m \in Incoming, Send(m)
      PROVE  DrainInv'
  <2>1. /\ sent[m] = 0 /\ sent' = [sent EXCEPT ![m] = backend.gen]
        /\ UNCHANGED <<bridge, confirmed, undrained>>
    BY <1>1 DEF Send, bridgeVars, ills
  <2>2. \A x \in Incoming : sent'[x] = IF x = m THEN backend.gen ELSE sent[x]
    BY <1>0, <2>1
  <2>3. bridge.ident.gen <= backend.gen
    BY DEF ConfigInv
  <2> SUFFICES ASSUME ~undrained /\ bridge.drained /\ bridge.ident.bot # NoBot
               PROVE  /\ \A x \in Incoming : BotOf[x] = bridge.ident.bot /\ sent'[x] # 0 /\ sent'[x] < bridge.ident.gen
                           => x < bridge.offset \/ x < confirmed[bridge.ident.bot]
                      /\ \A i \in DOMAIN bridge.batch : sent'[bridge.batch[i]] >= bridge.ident.gen
    BY <2>1 DEF DrainInv
  <2>4. ASSUME NEW x \in Incoming, BotOf[x] = bridge.ident.bot, sent'[x] # 0, sent'[x] < bridge.ident.gen
        PROVE  x < bridge.offset \/ x < confirmed[bridge.ident.bot]
    <3>1. x # m
      BY <1>0, <2>2, <2>3, <2>4
    <3> QED  BY <2>2, <2>4, <3>1 DEF DrainInv
  <2>5. ASSUME NEW i \in DOMAIN bridge.batch
        PROVE  sent'[bridge.batch[i]] >= bridge.ident.gen
    <3>1. bridge.batch[i] # m /\ bridge.batch[i] \in Incoming
      BY <2>1, <1>01 DEF BatchInv
    <3> QED  BY <2>2, <3>1 DEF DrainInv
  <2> QED  BY <2>4, <2>5
<1>2. ASSUME UNCHANGED <<bridge, sent, confirmed, undrained>>
      PROVE  DrainInv'
  BY <1>2 DEF DrainInv
\* Nothing but less of the batch, and an offset that grows.
<1>3. ASSUME sent' = sent, confirmed' = confirmed, undrained' = undrained,
             bridge'.ident = bridge.ident, bridge'.drained = bridge.drained,
             bridge'.offset \in Nat, bridge'.offset >= bridge.offset,
             \A i \in DOMAIN bridge'.batch : \E j \in DOMAIN bridge.batch : bridge'.batch[i] = bridge.batch[j]
      PROVE  DrainInv'
  <2> SUFFICES ASSUME ~undrained /\ bridge.drained /\ bridge.ident.bot # NoBot
               PROVE  /\ \A x \in Incoming : BotOf[x] = bridge.ident.bot /\ sent[x] # 0 /\ sent[x] < bridge.ident.gen
                           => x < bridge'.offset \/ x < confirmed[bridge.ident.bot]
                      /\ \A i \in DOMAIN bridge'.batch : sent[bridge'.batch[i]] >= bridge.ident.gen
    BY <1>3 DEF DrainInv
  <2>1. ASSUME NEW x \in Incoming, BotOf[x] = bridge.ident.bot, sent[x] # 0, sent[x] < bridge.ident.gen
        PROVE  x < bridge'.offset \/ x < confirmed[bridge.ident.bot]
    <3>1. x < bridge.offset \/ x < confirmed[bridge.ident.bot]
      BY <2>1 DEF DrainInv
    <3>2. x \in Nat
      BY NumbersAre
    <3> QED  BY ONLY <1>0, <1>3, <3>1, <3>2
  <2>2. ASSUME NEW i \in DOMAIN bridge'.batch
        PROVE  sent[bridge'.batch[i]] >= bridge.ident.gen
    <3>1. PICK j \in DOMAIN bridge.batch : bridge'.batch[i] = bridge.batch[j]
      BY <1>3
    <3>2. sent[bridge.batch[j]] >= bridge.ident.gen
      BY DEF DrainInv
    <3> QED  BY ONLY <3>1, <3>2
  <2> QED  BY <2>1, <2>2
<1>31. ASSUME BackAtTop, sent' = sent, confirmed' = confirmed, undrained' = undrained
       PROVE  DrainInv'
  BY <1>0, <1>3, <1>31, NoUpdates DEF BackAtTop
<1>4. CASE ReadConfig
  <2>1. /\ bridge'.batch = bridge.batch
        /\ bridge'.drained => bridge.drained /\ bridge'.ident = bridge.ident /\ bridge'.offset = bridge.offset
        /\ UNCHANGED <<sent, confirmed, undrained>>
    BY <1>4, ReadIs DEF ills
  <2>2. CASE bridge'.drained
    BY <2>1, <2>2 DEF DrainInv
  <2>3. CASE ~bridge'.drained
    BY <2>3 DEF DrainInv
  <2> QED  BY <2>2, <2>3
<1>5. CASE Drain
  <2>1. /\ bridge.at = "drain" /\ SameIdent /\ bridge'.batch = bridge.batch /\ sent' = sent
    BY <1>5, DrainIs
  <2>2. DOMAIN bridge'.batch = {}
    BY <2>1, NoUpdates DEF BatchInv
  <2>3. \A m \in Incoming : BotOf[m] = bridge.ident.bot /\ sent[m] # 0 /\ sent[m] < bridge.ident.gen
          => m < bridge'.offset \/ m < confirmed'[bridge.ident.bot]
    BY <1>5, DrainPasses
  <2> QED  BY <2>1, <2>2, <2>3 DEF DrainInv, SameIdent
<1>6. CASE DrainFails
  BY <1>6, FailsIs DEF DrainInv
<1>7. CASE Poll
  <2>1. /\ bridge.at = "poll" /\ SameIdent /\ bridge'.drained = bridge.drained
        /\ bridge'.offset = bridge.offset /\ sent' = sent /\ undrained' = undrained
        /\ \/ BackAtTop /\ confirmed' = confirmed
           \/ /\ bridge'.batch \in GetUpdates(bridge.ident.bot, bridge.offset)
              /\ confirmed' = [confirmed EXCEPT ![bridge.ident.bot] = Known(bridge.ident.bot, bridge.offset)]
    BY <1>7, PollIs DEF ills
  <2>2. CASE BackAtTop /\ confirmed' = confirmed
    BY <1>31, <2>1, <2>2
  <2>3. CASE /\ bridge'.batch \in GetUpdates(bridge.ident.bot, bridge.offset)
             /\ confirmed' = [confirmed EXCEPT ![bridge.ident.bot] = Known(bridge.ident.bot, bridge.offset)]
    <3> DEFINE bot == bridge.ident.bot
               gen == bridge.ident.gen
    <3>0. bot \in Bots
      BY <1>0, <2>1 DEF BatchInv
    <3>1. /\ \A i \in DOMAIN bridge'.batch :
               /\ bridge'.batch[i] \in Incoming /\ BotOf[bridge'.batch[i]] = bot /\ sent[bridge'.batch[i]] # 0
               /\ bridge'.batch[i] >= bridge.offset /\ bridge'.batch[i] >= confirmed[bot]
          /\ Known(bot, bridge.offset) >= confirmed[bot] /\ Known(bot, bridge.offset) \in Nat
      BY <2>3, <3>0, ReturnedAre
    <3>2. confirmed'[bot] = Known(bot, bridge.offset) /\ confirmed[bot] \in Nat
      BY <1>0, <2>3, <3>0
    <3> SUFFICES ASSUME ~undrained /\ bridge.drained /\ bot # NoBot
                 PROVE  /\ \A x \in Incoming : BotOf[x] = bot /\ sent[x] # 0 /\ sent[x] < gen
                             => x < bridge.offset \/ x < confirmed'[bot]
                        /\ \A i \in DOMAIN bridge'.batch : sent[bridge'.batch[i]] >= gen
      BY <2>1 DEF DrainInv, SameIdent
    <3>3. \A x \in Incoming : BotOf[x] = bot /\ sent[x] # 0 /\ sent[x] < gen
            => x < bridge.offset \/ x < confirmed[bot]
      BY DEF DrainInv
    <3> HIDE DEF bot, gen
    <3>4. ASSUME NEW x \in Incoming, BotOf[x] = bot, sent[x] # 0, sent[x] < gen
          PROVE  x < bridge.offset \/ x < confirmed'[bot]
      <4>1. x \in Nat
        BY NumbersAre
      <4>2. x < bridge.offset \/ x < confirmed[bot]
        BY <3>3, <3>4
      <4> QED  BY ONLY <3>1, <3>2, <4>1, <4>2
    <3>5. ASSUME NEW i \in DOMAIN bridge'.batch
          PROVE  sent[bridge'.batch[i]] >= gen
      <4> DEFINE x == bridge'.batch[i]
      <4>1. x \in Incoming /\ BotOf[x] = bot /\ sent[x] # 0 /\ x >= bridge.offset /\ x >= confirmed[bot]
        BY <3>1
      <4> HIDE DEF x
      <4>2. x \in Nat /\ sent[x] \in Nat /\ gen \in Nat
        BY <1>0, <4>1, NumbersAre DEF gen
      <4>3. ~(sent[x] < gen)
        BY <1>0, <3>2, <3>3, <4>1, <4>2
      <4> QED  BY <4>2, <4>3 DEF x
    <3> QED  BY <3>4, <3>5
  <2> QED  BY <2>1, <2>2, <2>3
<1>8. CASE Take
  <2>1. /\ bridge.at = "batch" /\ Head(bridge.batch) \in Incoming
        /\ Head(bridge.batch) = bridge.batch[1] /\ 1 \in DOMAIN bridge.batch
        /\ SameIdent /\ bridge'.drained = bridge.drained
        /\ bridge'.batch = bridge.batch /\ bridge'.offset = Head(bridge.batch) + 1
        /\ UNCHANGED <<sent, confirmed, undrained>>
    BY <1>8, TakeIs DEF ills
  <2>2. Head(bridge.batch) >= bridge.offset /\ Head(bridge.batch) \in Nat
    BY <2>1, NumbersAre DEF BatchInv
  <2>3. bridge'.offset \in Nat /\ bridge'.offset >= bridge.offset
    BY ONLY <1>0, <2>1, <2>2
  <2> QED  BY <1>3, <2>1, <2>3 DEF SameIdent
<1>9. CASE Route
  <2>1. /\ SameIdent /\ bridge'.drained = bridge.drained /\ bridge'.batch = Tail(bridge.batch)
        /\ bridge.batch # <<>> /\ bridge'.offset = bridge.offset
        /\ UNCHANGED <<sent, confirmed, undrained>>
    BY <1>9, RouteIs DEF ills
  <2>2. \A i \in DOMAIN bridge'.batch : \E j \in DOMAIN bridge.batch : bridge'.batch[i] = bridge.batch[j]
    <3>1. \A i \in DOMAIN bridge'.batch : i + 1 \in DOMAIN bridge.batch /\ bridge'.batch[i] = bridge.batch[i + 1]
      BY <1>0, <2>1, BatchTail
    <3> QED  BY ONLY <3>1
  <2> QED  BY <1>0, <1>3, <2>1, <2>2 DEF SameIdent
<1>10. CASE BatchEnds
  BY <1>10, <1>31, EndsIs DEF ills
<1>11. CASE PairRead
  <2>1. \/ BackAtTop
        \/ /\ SameIdent /\ bridge'.drained = bridge.drained /\ bridge'.batch = bridge.batch
           /\ bridge'.offset = bridge.offset
    BY <1>11, PairReadIs
  <2>2. UNCHANGED <<sent, confirmed, undrained>>
    BY <1>11, PairReadIs DEF ills
  <2>3. CASE ~BackAtTop
    BY <1>0, <1>3, <2>1, <2>2, <2>3 DEF SameIdent
  <2> QED  BY <1>31, <2>2, <2>3
<1>12. CASE PairWrite
  BY <1>0, <1>3, <1>12, PairWriteIs DEF ills, SameIdent
<1>13. CASE Crash
  BY <1>13, CrashIs DEF DrainInv
<1>14. CASE Poller \/ Reset \/ (\E bot \in Bots \cup {NoBot} : Link(bot)) \/ UNCHANGED vars
  BY <1>2, <1>14 DEF Poller, Reset, PollerReads, PollerFetches, PollerApplies, PollerSyncs,
     ResetFetches, ResetApplies, Link, vars, bridgeVars, ills
<1> QED  BY <1>1, <1>4, <1>5, <1>6, <1>7, <1>8, <1>9, <1>10, <1>11, <1>12, <1>13, <1>14 DEF Next, Bridge

LEMMA LateStep ==
  ASSUME TypeOK, SentInv, ConfigInv, WriterInv, BatchInv, PairInv, DrainInv, FirstInv, ByInv, LateInv, PairedAfterLink,
         [Next]_vars
  PROVE  ByInv' /\ LateInv' /\ PairedAfterLink'
<1>0. /\ config \in Configs /\ bridge \in BridgeType /\ sent \in [Incoming -> Gens] /\ lateTurns \in Int
      /\ bridge.copy \in Configs /\ bridge.ident.gen \in Nat /\ backend.gen \in Nat
      /\ bridge.ident \in [bot : Bots \cup {NoBot}, gen : Gens] /\ bridge.batch \in Updates
      /\ config.at \in Nat /\ \A m \in Incoming : sent[m] \in Nat
  <2>1. bridge \in BridgeType /\ config \in Configs /\ sent \in [Incoming -> Gens] /\ lateTurns \in Int
        /\ backend \in [bot : Bots \cup {NoBot}, gen : Gens]
    BY TypeIs
  <2> QED  BY <2>1, PairFacts DEF BridgeType, Configs
\* What leaves the config alone.
<1>1. ASSUME config' = config, pairedBy' = pairedBy, sent' = sent, undrained' = undrained \/ undrained'
      PROVE  ByInv' /\ PairedAfterLink'
  BY <1>1 DEF ByInv, PairedAfterLink
<1>2. ASSUME NEW m \in Incoming, Send(m)
      PROVE  ByInv' /\ LateInv' /\ PairedAfterLink'
  <2>1. /\ sent[m] = 0 /\ sent' = [sent EXCEPT ![m] = backend.gen]
        /\ UNCHANGED <<bridge, config, pairedBy, lateTurns, undrained>>
    BY <1>2 DEF Send, bridgeVars, ills
  <2>2. \A x \in Incoming : sent'[x] = IF x = m THEN backend.gen ELSE sent[x]
    BY <1>0, <2>1
  <2>3. config.chat # NoChat => config.at <= backend.gen /\ pairedBy \in Incoming
    BY DEF ConfigInv, Sound, ByInv
  <2>4. PairedAfterLink'
    BY <1>0, <2>1, <2>2, <2>3 DEF PairedAfterLink
  <2> QED  BY <2>1, <2>4 DEF ByInv, LateInv
<1>3. CASE PollerApplies \/ PollerSyncs \/ ResetApplies
  <2>1. config'.chat = NoChat /\ PairingGone /\ bridge' = bridge
    BY <1>3, WritersAre
  <2>2. lateTurns' = lateTurns \/ lateTurns' = lateTurns - 1
    BY <2>1 DEF PairingGone
  <2>3. lateTurns' <= 0
    BY <1>0, <2>2 DEF LateInv
  <2>4. ASSUME bridge.at \in {"pair", "write", "route"}, IdentOf(config') # bridge.ident
        PROVE  lateTurns' + 1 <= 0
    <3>1. CASE IdentOf(config) = bridge.ident
      <4>1. lateTurns' = lateTurns - 1 /\ lateTurns <= 0
        BY <2>1, <2>4, <3>1 DEF PairingGone, LateInv
      <4> QED  BY ONLY <1>0, <4>1
    <3>2. CASE IdentOf(config) # bridge.ident
      <4>1. lateTurns' = lateTurns /\ lateTurns + 1 <= 0
        BY <2>1, <2>4, <3>2 DEF PairingGone, LateInv
      <4> QED  BY ONLY <4>1
    <3> QED  BY <3>1, <3>2
  <2>5. LateInv'
    BY <2>1, <2>3, <2>4 DEF LateInv, IdentOf
  <2> QED  BY <2>1, <2>5 DEF ByInv, PairedAfterLink
<1>4. CASE PairWrite
  <2>1. /\ bridge.at = "write" /\ bridge'.at = "route" /\ SameIdent
        /\ \/ config' = bridge.copy /\ pairedBy' = Head(bridge.batch)
           \/ config' = config /\ pairedBy' = pairedBy
        /\ UNCHANGED <<sent, undrained, lateTurns>>
    BY <1>4, PairWriteIs DEF ills
  <2>2. CASE config' = bridge.copy /\ pairedBy' = Head(bridge.batch)
    <3>1. /\ bridge.copy.bot = bridge.ident.bot /\ bridge.copy.gen = bridge.ident.gen
          /\ bridge.copy.at = bridge.ident.gen /\ bridge.ident.bot # NoBot /\ bridge.drained
          /\ bridge.batch # <<>>
      BY <2>1 DEF PairInv, BatchInv, FirstInv
    <3>2. Head(bridge.batch) \in Incoming /\ Head(bridge.batch) = bridge.batch[1] /\ 1 \in DOMAIN bridge.batch
      BY ONLY <1>0, <3>1, BatchTail
    <3>3. ~undrained => sent[Head(bridge.batch)] >= bridge.ident.gen
      BY <3>1, <3>2 DEF DrainInv
    <3>4. IdentOf(bridge.copy) = bridge.ident
      BY <1>0, <3>1 DEF IdentOf
    <3>5. IdentOf(config') = bridge'.ident
      BY <2>1, <2>2, <3>4 DEF SameIdent
    <3>6. LateInv'
      BY <2>1, <3>5 DEF LateInv, IdentOf
    <3>7. ByInv' /\ PairedAfterLink'
      BY <2>1, <2>2, <3>1, <3>2, <3>3 DEF ByInv, PairedAfterLink
    <3> QED  BY <3>6, <3>7
  <2>3. CASE config' = config /\ pairedBy' = pairedBy
    <3>1. LateInv'
      BY <2>1, <2>3 DEF LateInv, SameIdent, IdentOf
    <3> QED  BY <1>1, <2>1, <2>3, <3>1
  <2> QED  BY <2>1, <2>2, <2>3
<1>5. CASE Route
  <2>1. /\ bridge.at = "route" /\ bridge'.at = "batch"
        /\ \/ lateTurns' = lateTurns + 1 /\ IdentOf(config) # bridge.ident
           \/ lateTurns' = lateTurns
        /\ UNCHANGED <<sent, undrained, config, pairedBy>>
    BY <1>5, RouteIs DEF ills
  <2>2. lateTurns' <= 0
    BY <1>0, <2>1 DEF LateInv
  <2> QED  BY <1>1, <2>1, <2>2 DEF LateInv
<1>6. CASE ReadConfig
  <2>1. bridge'.at \in {"top", "drain", "poll"} /\ lateTurns' = 0 /\ UNCHANGED <<sent, undrained, config, pairedBy>>
    BY <1>6, ReadIs DEF ills
  <2> QED  BY <1>1, <2>1 DEF LateInv
<1>7. CASE Take
  <2>1. /\ IdentOf(config) = bridge.ident /\ SameIdent
        /\ UNCHANGED <<sent, undrained, config, pairedBy, lateTurns>>
    BY <1>7, TakeIs DEF ills
  <2>2. LateInv'
    BY <2>1 DEF LateInv, SameIdent, IdentOf
  <2> QED  BY <1>1, <2>1, <2>2
<1>8. CASE PairRead
  <2>1. /\ bridge'.at = "top" \/ (IdentOf(config) = bridge.ident /\ SameIdent)
        /\ UNCHANGED <<sent, undrained, config, pairedBy, lateTurns>>
    BY <1>8, PairReadIs DEF ills, BackAtTop
  <2>2. LateInv'
    BY <2>1 DEF LateInv, SameIdent, IdentOf
  <2> QED  BY <1>1, <2>1, <2>2
<1>9. CASE Drain \/ DrainFails \/ Poll \/ BatchEnds \/ Crash
  <2>1. /\ bridge'.at \in {"top", "poll", "batch"} /\ (undrained' = undrained \/ undrained')
        /\ UNCHANGED <<sent, config, pairedBy, lateTurns>>
    BY <1>9, DrainIs, FailsIs, PollIs, EndsIs, CrashIs DEF ills, BackAtTop
  <2> QED  BY <1>1, <2>1 DEF LateInv
<1>10. CASE PollerReads \/ PollerFetches \/ ResetFetches \/ (\E bot \in Bots \cup {NoBot} : Link(bot)) \/ UNCHANGED vars
  <2>1. UNCHANGED <<sent, config, pairedBy, lateTurns, bridge, undrained>>
    BY <1>10 DEF PollerReads, PollerFetches, ResetFetches, Link, vars, bridgeVars, ills
  <2>2. LateInv'
    BY <2>1 DEF LateInv, IdentOf
  <2> QED  BY <1>1, <2>1, <2>2
<1> QED  BY <1>2, <1>3, <1>4, <1>5, <1>6, <1>7, <1>8, <1>9, <1>10 DEF Next, Bridge, Poller, Reset

LEMMA LinkStart == Init => LinkIInv
<1> SUFFICES ASSUME Init
             PROVE  LinkIInv
  OBVIOUS
<1>1. /\ backend = [bot |-> NoBot, gen |-> 1]
      /\ sent = [m \in Incoming |-> 0] /\ confirmed = [b \in Bots |-> 0]
      /\ config = Blank /\ offsetFile = NoOffset
      /\ poller = Idle /\ reset = Idle /\ bridge = NewBridge /\ crashes = 0
      /\ undrained = FALSE
      /\ handled = [m \in Incoming |-> 0] /\ pairedBy = 0 /\ lateTurns = 0
  BY DEF Init
<1>2. TypeOK
  <2>1. backend \in [bot : Bots \cup {NoBot}, gen : Gens] /\ sent \in [Incoming -> Gens]
    BY <1>1, PairFacts
  <2>2. confirmed \in [Bots -> Nat] /\ handled \in [Incoming -> Nat] /\ lateTurns \in Int /\ pairedBy \in Incoming \cup {0}
        /\ crashes \in Nat
    BY <1>1
  <2>21. undrained \in BOOLEAN
    BY <1>1
  <2>3. config \in Configs /\ offsetFile \in [bot : Bots \cup {NoBot}, next : Nat]
        /\ poller \in PollerType /\ reset \in PollerType /\ bridge \in BridgeType
    BY <1>1, IdleIs, BlankIs
  <2> QED  BY ONLY <2>1, <2>2, <2>21, <2>3, TypeIs
<1>3. SentInv
  BY <1>1 DEF SentInv
<1>4. ConfigInv /\ WriterInv
  BY <1>1, IdleIs, BlankIs DEF ConfigInv, WriterInv, Sound
<1>5. BatchInv /\ PairInv /\ DrainInv /\ FirstInv
  <2>1. DOMAIN bridge.batch = {} /\ bridge.at = "top" /\ bridge.batch = <<>> /\ bridge.ident.bot = NoBot
    BY <1>1, IdleIs, BlankIs, NoUpdates
  <2> QED  BY <2>1 DEF BatchInv, PairInv, DrainInv, FirstInv
<1>6. ByInv /\ LateInv /\ PairedAfterLink
  BY <1>1, IdleIs, BlankIs DEF ByInv, LateInv, PairedAfterLink
<1> QED  BY <1>2, <1>3, <1>4, <1>5, <1>6 DEF LinkIInv

LEMMA LinkStep == LinkIInv /\ [Next]_vars => LinkIInv'
BY PairTypes, SentStep, ConfigStep, BatchStep, DrainStep, LateStep DEF LinkIInv

\* The chat in telegram.json wrote after the link it is paired under, unless a backlog
\* drain failed; and when a pairing goes, the chat before gets at most the turn that
\* was on its way.  So for any bots, chats and messages, however often the user
\* links and unlinks, whichever of the three writers of telegram.json comes between
\* the steps of another, and whatever crashes.
THEOREM ChatStaysLinked == Spec => []OnlyTheLinkedChat
<1>1. LinkIInv => OnlyTheLinkedChat
  BY DEF LinkIInv, OnlyTheLinkedChat, LateInv, OneLateTurn
<1> QED  BY LinkStart, LinkStep, <1>1, PTL DEF Spec

\* A message whose turn was started, or the one the bridge has taken.
Taken(m) == handled[m] > 0 \/ (bridge.at \in {"pair", "write", "route"} /\ m = Head(bridge.batch))

\* The offset on disk, or what the api was told to forget, covers a message.
Filed(m) == offsetFile.bot = BotOf[m] /\ m < offsetFile.next
Past(m)  == m < confirmed[BotOf[m]]

\* Whatever bot it came to, a pairing of that bot from now on begins after it.
Older(m) ==
  /\ backend.bot = BotOf[m] => sent[m] < backend.gen
  /\ config.bot = BotOf[m] => sent[m] < config.gen

\* A taken message is covered, or older than what its bot may be paired under.  The command
\* that failed drops the offset of a bot the config has not; so a message of the pairing
\* the web has now finds its bot in the config, or no command on its way.
Covered(m) ==
  /\ Filed(m) \/ Past(m) \/ Older(m)
  /\ backend.bot = BotOf[m] /\ sent[m] = backend.gen =>
       config.bot = BotOf[m] \/ (config.bot = NoBot /\ reset.at = "idle")
  /\ bridge.ident.bot \notin {NoBot, BotOf[m]} => Older(m)
  /\ config.bot = BotOf[m] /\ config.chat # NoChat => Filed(m) \/ Past(m)
  /\ bridge.ident.bot = BotOf[m] =>
       \/ m < bridge.offset \/ Past(m)
       \/ bridge.at = "drain" /\ sent[m] < bridge.ident.gen

TakenInv == \A m \in Incoming : Taken(m) => Covered(m)

\* What poller and command are about to write is what the api says.
AnswerInv ==
  /\ poller.at = "apply" => poller.answer = Agreed
  /\ poller.at = "sync" => backend.bot = NoBot
  /\ reset.at = "apply" => reset.answer = Agreed

\* A chat is paired by the bridge that has read this pairing, and the bridge writes the
\* offset before anything else of a message.
HoldsInv ==
  /\ config.chat # NoChat => bridge.ident \in {IdentOf(config), NoIdent}
  /\ bridge.at \in {"pair", "write"} =>
       /\ IdentOf(config) = bridge.ident
       /\ offsetFile.bot = bridge.ident.bot /\ offsetFile.next = bridge.offset

\* No message is in a batch that has had its turn.
OnceInHand == \A i \in DOMAIN bridge.batch : handled[bridge.batch[i]] = 0

DrainedInv == ~undrained => TakenInv /\ HoldsInv /\ OnceInHand /\ AtMostOnce

LEMMA AnswerStep ==
  ASSUME PairFaults = {}, TypeOK, AnswerInv, [Next]_vars
  PROVE  AnswerInv'
<1>0. poller \in PollerType /\ reset \in PollerType
  BY TypeIs
<1>1. ASSUME NEW bot \in Bots \cup {NoBot}, Link(bot)
      PROVE  AnswerInv'
  <2>1. /\ poller.at \notin {"apply", "sync"} /\ reset.at \notin {"apply", "sync"} /\ poller' = poller
        /\ reset' = reset \/ reset' = [Idle EXCEPT !.at = "fetch", !.gen = backend.gen + 1]
    BY <1>1 DEF Link, Settled
  <2>2. reset'.at \notin {"apply", "sync"}
    BY <2>1, IdleIs DEF PollerType
  <2> QED  BY <2>1, <2>2 DEF AnswerInv
<1>2. CASE PollerFetches
  <2>0. UNCHANGED <<backend, reset>>
    BY <1>2 DEF PollerFetches
  <2>1. CASE poller' = Idle
    BY <2>0, <2>1, IdleIs DEF AnswerInv, Agreed
  <2>2. ASSUME NEW answer \in Answers, poller' = [poller EXCEPT !.at = "apply", !.answer = answer]
        PROVE  AnswerInv'
    <3>1. answer = Agreed /\ poller'.at = "apply" /\ poller'.answer = answer
      BY <1>0, <2>2, AnswerIs DEF PollerType
    <3> QED  BY <2>0, <3>1 DEF AnswerInv, Agreed
  <2>3. ASSUME NEW answer \in Answers, answer.bot = NoBot,
               poller' = [poller EXCEPT !.at = "sync", !.answer = [poller.local EXCEPT !.gen = answer.gen]]
        PROVE  AnswerInv'
    <3>1. answer = Agreed /\ poller'.at = "sync"
      BY <1>0, <2>3, AnswerIs DEF PollerType
    <3>2. backend.bot = NoBot
      BY <2>3, <3>1 DEF Agreed
    <3> QED  BY <2>0, <3>1, <3>2 DEF AnswerInv, Agreed
  <2> QED  BY <1>2, <2>1, <2>2, <2>3, PollerFetch
<1>3. CASE ResetFetches
  <2>0. UNCHANGED <<backend, poller>>
    BY <1>3 DEF ResetFetches
  <2>1. ASSUME NEW answer \in Answers, reset' = [reset EXCEPT !.at = "apply", !.answer = answer]
        PROVE  AnswerInv'
    <3>1. answer = Agreed /\ reset'.answer = answer
      BY <1>0, <2>1, AnswerIs DEF PollerType
    <3> QED  BY <2>0, <3>1 DEF AnswerInv, Agreed
  <2>2. CASE reset' = [reset EXCEPT !.at = "failed"]
    <3>1. reset'.at = "failed"
      BY <1>0, <2>2 DEF PollerType
    <3> QED  BY <2>0, <3>1 DEF AnswerInv, Agreed
  <2> QED  BY <1>3, <2>1, <2>2 DEF ResetFetches
<1>4. ASSUME backend' = backend, poller' = poller \/ poller'.at \in {"idle", "fetch"},
             reset' = reset \/ reset'.at = "idle"
      PROVE  AnswerInv'
  BY <1>4 DEF AnswerInv, Agreed
<1>5. CASE PollerReads \/ PollerApplies \/ PollerSyncs \/ ResetApplies
  <2>1. /\ backend' = backend
        /\ reset' = reset \/ reset' = Idle
        /\ \/ poller' = poller \/ poller' = Idle
           \/ poller' = [Idle EXCEPT !.at = "fetch", !.local = config]
    BY <1>5 DEF PollerReads, PollerApplies, PollerSyncs, ResetApplies
  <2>2. poller' = poller \/ poller'.at \in {"idle", "fetch"}
    BY <2>1, IdleIs DEF PollerType
  <2>3. reset' = reset \/ reset'.at = "idle"
    BY <2>1, IdleIs
  <2> QED  BY <1>4, <2>1, <2>2, <2>3
<1>6. CASE (\E m \in Incoming : Send(m)) \/ Bridge \/ Crash \/ UNCHANGED vars
  <2>1. UNCHANGED <<backend, poller, reset>>
    BY <1>6 DEF Send, Bridge, ReadConfig, Drain, DrainFails, Poll, Take, BatchEnds, PairRead, PairWrite, Route, Crash, vars
  <2> QED  BY <1>4, <2>1
<1> QED  BY <1>1, <1>2, <1>3, <1>5, <1>6 DEF Next, Poller, Reset

\* What is applied is what the api says.
LEMMA AppliedAre ==
  ASSUME PairFaults = {}, TypeOK, SentInv, AnswerInv, PollerApplies \/ (ResetApplies /\ reset.at = "apply")
  PROVE  /\ config'.bot = backend.bot /\ config'.gen = backend.gen /\ config'.chat = NoChat
         /\ offsetFile' = IF backend.bot # NoBot /\ offsetFile.bot = backend.bot THEN offsetFile ELSE NoOffset
         /\ bridge.at \notin {"pair", "write"}
         /\ UNCHANGED <<backend, sent, undrained, bridge, confirmed, handled>>
<1>1. /\ Agreed.bot = backend.bot /\ Agreed.gen = backend.gen /\ Agreed.chat = NoChat /\ Agreed.gen # 0
  BY DEF Agreed, SentInv, TypeOK
<1>2. CASE PollerApplies
  <2>1. poller.answer = Agreed
    BY <1>2 DEF PollerApplies, AnswerInv
  <2> QED  BY <1>1, <1>2, <2>1 DEF PollerApplies, Apply, Undisturbed, ills
<1>3. CASE ResetApplies /\ reset.at = "apply"
  <2>1. reset.answer = Agreed
    BY <1>3 DEF AnswerInv
  <2>2. /\ Apply(Agreed.bot, [Agreed EXCEPT !.gen = IF @ = 0 THEN reset.gen ELSE @]) /\ Undisturbed
        /\ UNCHANGED <<backend, sent, undrained, bridge, confirmed, handled>>
    BY <1>3, <2>1 DEF ResetApplies, ills
  <2>3. [Agreed EXCEPT !.gen = IF @ = 0 THEN reset.gen ELSE @] = Agreed
    BY <1>1 DEF Agreed
  <2> QED  BY <1>1, <2>2, <2>3 DEF Apply, Undisturbed
<1> QED  BY <1>2, <1>3

LEMMA MessageIs ==
  ASSUME TypeOK, SentInv, BatchInv, NEW m \in Incoming
  PROVE  /\ BotOf[m] \in Bots /\ BotOf[m] # NoBot /\ m \in Nat
         /\ sent[m] \in Nat /\ sent[m] <= backend.gen /\ backend.gen \in Nat /\ config.gen \in Nat
         /\ confirmed[BotOf[m]] \in Nat /\ offsetFile.next \in Nat /\ bridge.offset \in Nat
         /\ bridge.ident.gen \in Nat /\ handled[m] \in Nat
         /\ Taken(m) => sent[m] # 0
<1>1. BotOf[m] \in Bots /\ BotOf[m] # NoBot /\ m \in Nat
  BY PairFacts, NumbersAre
<1>2. /\ sent \in [Incoming -> Gens] /\ backend \in [bot : Bots \cup {NoBot}, gen : Gens] /\ config \in Configs
      /\ confirmed \in [Bots -> Nat] /\ offsetFile \in [bot : Bots \cup {NoBot}, next : Nat]
      /\ bridge \in BridgeType /\ handled \in [Incoming -> Nat]
  BY TypeIs
<1>3. /\ sent[m] \in Nat /\ backend.gen \in Nat /\ config.gen \in Nat
      /\ confirmed[BotOf[m]] \in Nat /\ offsetFile.next \in Nat /\ bridge.offset \in Nat
      /\ bridge.ident.gen \in Nat /\ handled[m] \in Nat
  BY <1>1, <1>2, PairFacts DEF Configs, BridgeType
<1>4. ASSUME bridge.at \in {"pair", "write", "route"}, m = Head(bridge.batch)
      PROVE  sent[m] # 0
  <2>1. bridge.batch \in Updates /\ bridge.batch # <<>>
    BY <1>2, <1>4 DEF BridgeType, BatchInv
  <2>2. m = bridge.batch[1] /\ 1 \in DOMAIN bridge.batch
    BY <1>4, <2>1, BatchTail
  <2> QED  BY <2>2 DEF BatchInv
<1> QED  BY <1>1, <1>3, <1>4 DEF SentInv, Taken

\* Poller and command.
LEMMA CoveredByWriters ==
  ASSUME PairFaults = {}, TypeOK, SentInv, WriterInv, BatchInv, AnswerInv, PollerApplies \/ PollerSyncs \/ ResetApplies,
         NEW m \in Incoming, Covered(m)
  PROVE  Covered(m)'
<1>0. /\ BotOf[m] \in Bots /\ BotOf[m] # NoBot /\ sent[m] \in Nat /\ sent[m] <= backend.gen
      /\ backend.gen \in Nat /\ config.gen \in Nat
  BY MessageIs
<1>1. CASE PollerApplies \/ (ResetApplies /\ reset.at = "apply")
  <2>1. /\ config'.bot = backend.bot /\ config'.gen = backend.gen /\ config'.chat = NoChat
        /\ offsetFile' = IF backend.bot # NoBot /\ offsetFile.bot = backend.bot THEN offsetFile ELSE NoOffset
        /\ UNCHANGED <<backend, sent, bridge, confirmed>>
    BY <1>1, AppliedAre
  <2>2. Older(m) => Older(m)'
    BY <2>1 DEF Older
  <2>3. Past(m) => Past(m)'
    BY <2>1 DEF Past
  <2>4. Filed(m) => Filed(m)' \/ Older(m)'
    <3>1. CASE backend.bot = BotOf[m]
      BY <1>0, <2>1, <3>1 DEF Filed
    <3>2. CASE backend.bot # BotOf[m]
      BY <2>1, <3>2 DEF Older
    <3> QED  BY <3>1, <3>2
  <2>5. bridge.ident.bot \notin {NoBot, BotOf[m]} => Older(m)'
    BY <2>2 DEF Covered
  <2>6. bridge.ident.bot = BotOf[m] =>
          m < bridge.offset \/ Past(m)' \/ (bridge.at = "drain" /\ sent[m] < bridge.ident.gen)
    BY <2>3 DEF Covered
  <2>7. Filed(m)' \/ Past(m)' \/ Older(m)'
    BY <2>2, <2>3, <2>4 DEF Covered
  <2> QED  BY <2>1, <2>5, <2>6, <2>7 DEF Covered
<1>2. CASE PollerSyncs \/ (ResetApplies /\ reset.at # "apply")
  <2>1. /\ config'.bot = NoBot /\ UNCHANGED <<backend, sent, bridge, confirmed>>
        /\ backend.bot # BotOf[m] \/ reset'.at = "idle"
        /\ backend.bot = BotOf[m] /\ sent[m] = backend.gen => config.bot = BotOf[m]
        /\ \/ offsetFile' = offsetFile
           \/ offsetFile' = IF config.bot # NoBot /\ offsetFile.bot = config.bot THEN offsetFile ELSE NoOffset
    <3>1. CASE PollerSyncs
      <4>1. backend.bot = NoBot
        BY <3>1 DEF PollerSyncs, AnswerInv
      <4>2. config'.bot = NoBot
        BY <1>2, <3>1 DEF PollerSyncs, WriterInv
      <4> QED  BY <1>0, <3>1, <4>1, <4>2 DEF PollerSyncs
    <3>2. CASE ResetApplies /\ reset.at # "apply"
      <4>1. reset.at = "failed" /\ Apply(config.bot, [Blank EXCEPT !.gen = reset.gen]) /\ reset' = Idle
            /\ UNCHANGED <<backend, sent, bridge, confirmed>>
        BY <3>2 DEF ResetApplies
      <4>2. config'.bot = NoBot /\ reset'.at = "idle"
        BY <4>1, IdleIs DEF Apply, Blank
      <4> QED  BY <4>1, <4>2 DEF Covered, Apply
    <3> QED  BY <1>2, <3>1, <3>2
  <2>2. Older(m) => Older(m)'
    BY <1>0, <2>1 DEF Older
  <2>3. Past(m) => Past(m)'
    BY <2>1 DEF Past
  <2>4. Filed(m) => Filed(m)' \/ Older(m)'
    <3>1. CASE offsetFile' = offsetFile \/ config.bot = BotOf[m]
      BY <1>0, <2>1, <3>1 DEF Filed
    <3>2. CASE config.bot # BotOf[m]
      BY <1>0, <2>1, <3>2 DEF Older
    <3> QED  BY <3>1, <3>2
  <2>5. bridge.ident.bot \notin {NoBot, BotOf[m]} => Older(m)'
    BY <2>2 DEF Covered
  <2>6. bridge.ident.bot = BotOf[m] =>
          m < bridge.offset \/ Past(m)' \/ (bridge.at = "drain" /\ sent[m] < bridge.ident.gen)
    BY <2>3 DEF Covered
  <2>7. Filed(m)' \/ Past(m)' \/ Older(m)'
    BY <2>2, <2>3, <2>4 DEF Covered
  <2> QED  BY <1>0, <2>1, <2>5, <2>6, <2>7 DEF Covered
<1> QED  BY <1>1, <1>2

\* A new identity starts from the offset on disk.
LEMMA CoveredByRead ==
  ASSUME TypeOK, SentInv, BatchInv, ReadConfig, NEW m \in Incoming, Covered(m)
  PROVE  Covered(m)'
<1> DEFINE bot == BotOf[m]
<1>0. /\ bot \in Bots /\ bot # NoBot /\ sent[m] \in Nat /\ sent[m] <= backend.gen
      /\ backend.gen \in Nat /\ config.gen \in Nat
  BY MessageIs
<1>1. /\ bridge.at = "top"
      /\ bridge'.ident = IdentOf(config)
      /\ bridge'.at \in {"top", "drain", "poll"} /\ (bridge'.at = "top" <=> config.bot = NoBot)
      /\ bridge'.at = "poll" => config.chat # NoChat \/ bridge'.drained
      /\ bridge'.drained => IdentOf(config) = bridge.ident
      /\ IdentOf(config) = bridge.ident \/ config.bot = NoBot => bridge'.offset = bridge.offset
      /\ IdentOf(config) # bridge.ident /\ config.bot # NoBot => bridge'.offset = LoadOffset(config.bot)
      /\ UNCHANGED <<backend, sent, config, reset, offsetFile, confirmed>>
  BY ReadIs
<1>2. /\ IdentOf(config).bot = config.bot /\ (config.bot # NoBot => IdentOf(config).gen = config.gen)
  BY IdentIs DEF TypeOK
<1>3. (Filed(m) <=> Filed(m)') /\ (Past(m) <=> Past(m)') /\ (Older(m) <=> Older(m)')
  BY <1>1 DEF Filed, Past, Older
<1>4. config.bot \notin {NoBot, bot} => Older(m)
  <2>1. backend.bot = bot => sent[m] # backend.gen \/ config.bot \in {NoBot, bot}
    BY DEF Covered
  <2> QED  BY <1>0, <2>1 DEF Older
<1>5. ASSUME config.bot = bot
      PROVE  m < bridge'.offset \/ Past(m) \/ (bridge'.at = "drain" /\ sent[m] < config.gen)
  <2>1. CASE IdentOf(config) = bridge.ident
    <3>1. bridge'.offset = bridge.offset /\ bridge.ident.bot = bot
      BY <1>1, <1>2, <1>5, <2>1
    <3>2. m < bridge.offset \/ Past(m)
      BY <1>1, <3>1 DEF Covered
    <3> QED  BY <3>1, <3>2
  <2>2. CASE IdentOf(config) # bridge.ident
    <3>1. bridge'.offset = LoadOffset(bot) /\ ~bridge'.drained /\ bridge'.at # "top"
      BY <1>0, <1>1, <1>5, <2>2
    <3>2. Filed(m) => m < bridge'.offset
      BY <3>1 DEF Filed, LoadOffset
    <3>3. CASE config.chat # NoChat
      BY <1>5, <3>2, <3>3 DEF Covered
    <3>4. CASE config.chat = NoChat
      <4>1. bridge'.at = "drain"
        BY <1>1, <3>1, <3>4
      <4>2. Filed(m) \/ Past(m) \/ Older(m)
        BY DEF Covered
      <4> QED  BY <1>5, <3>2, <4>1, <4>2 DEF Older
    <3> QED  BY <3>3, <3>4
  <2> QED  BY <2>1, <2>2
<1>6. /\ Filed(m)' \/ Past(m)' \/ Older(m)'
      /\ backend'.bot = bot /\ sent'[m] = backend'.gen =>
           config'.bot = bot \/ (config'.bot = NoBot /\ reset'.at = "idle")
      /\ config'.bot = bot /\ config'.chat # NoChat => Filed(m)' \/ Past(m)'
  BY <1>1, <1>3 DEF Covered
<1>7. bridge'.ident.bot \notin {NoBot, bot} => Older(m)'
  BY <1>1, <1>2, <1>3, <1>4
<1>8. bridge'.ident.bot = bot =>
        m < bridge'.offset \/ Past(m)' \/ (bridge'.at = "drain" /\ sent'[m] < bridge'.ident.gen)
  BY <1>0, <1>1, <1>2, <1>3, <1>5
<1> QED  BY <1>6, <1>7, <1>8 DEF Covered

LEMMA CoveredByDrain ==
  ASSUME TypeOK, SentInv, BatchInv, PairInv, HoldsInv, Drain, NEW m \in Incoming, Taken(m), Covered(m)
  PROVE  Covered(m)'
<1> DEFINE bot == BotOf[m]
<1>0. /\ bot \in Bots /\ bot # NoBot /\ sent[m] \in Nat /\ sent[m] # 0 /\ m \in Nat
      /\ confirmed[bot] \in Nat /\ bridge.offset \in Nat
  BY MessageIs
<1>1. /\ bridge.at = "drain" /\ bridge'.at = "poll" /\ SameIdent
      /\ \E updates \in GetUpdates(bridge.ident.bot, bridge.offset) : \E n \in 0 .. Len(updates) :
           bridge'.offset = IF n = 0 THEN bridge.offset ELSE updates[n] + 1
      /\ offsetFile' = IF bridge'.offset = 0 THEN offsetFile
                       ELSE [bot |-> bridge.ident.bot, next |-> bridge'.offset]
      /\ confirmed' = [confirmed EXCEPT ![bridge.ident.bot] = Known(bridge.ident.bot, bridge.offset)]
      /\ UNCHANGED <<backend, sent, config, reset, handled>>
  BY DrainIs
<1>2. bridge.ident.bot \in Bots /\ confirmed \in [Bots -> Nat]
  <2>1. bridge \in BridgeType /\ confirmed \in [Bots -> Nat]
    BY TypeIs
  <2>2. bridge.ident.bot # NoBot
    BY <1>1 DEF BatchInv
  <2> QED  BY <2>1, <2>2 DEF BridgeType
<1>3. bridge'.offset >= bridge.offset /\ bridge'.offset \in Nat
  <2>1. PICK u \in GetUpdates(bridge.ident.bot, bridge.offset) : \E n \in 0 .. Len(u) :
          bridge'.offset = IF n = 0 THEN bridge.offset ELSE u[n] + 1
    BY <1>1
  <2>2. PICK n \in 0 .. Len(u) : bridge'.offset = IF n = 0 THEN bridge.offset ELSE u[n] + 1
    BY <2>1
  <2>3. /\ Len(u) \in Nat /\ DOMAIN u = 1 .. Len(u)
        /\ \A i \in DOMAIN u : u[i] >= bridge.offset /\ u[i] \in Incoming
    BY <1>2, <2>1, ReturnedAre
  <2>4. bridge'.offset \in Nat
    BY DrainPasses
  <2>5. CASE n = 0
    BY <1>0, <2>2, <2>5
  <2>6. CASE n # 0
    <3>1. u[n] >= bridge.offset /\ u[n] \in Incoming /\ bridge'.offset = u[n] + 1
      BY <2>2, <2>3, <2>6
    <3>2. u[n] \in Nat
      BY <3>1, NumbersAre
    <3> QED  BY ONLY <1>0, <2>4, <3>1, <3>2
  <2> QED  BY <2>4, <2>5, <2>6
<1>4. confirmed'[bot] >= confirmed[bot] /\ confirmed'[bot] \in Nat
  <2>1. Known(bridge.ident.bot, bridge.offset) >= confirmed[bridge.ident.bot] /\ Known(bridge.ident.bot, bridge.offset) \in Nat
    BY <1>1, <1>2, ReturnedAre
  <2> QED  BY <1>0, <1>1, <1>2, <2>1
<1>5. (Past(m) => Past(m)') /\ (Older(m) <=> Older(m)')
  BY <1>0, <1>1, <1>4 DEF Past, Older
<1>6. CASE bridge.ident.bot = bot
  <2>1. m < bridge'.offset \/ Past(m)'
    <3>1. CASE m < bridge.offset
      BY ONLY <1>0, <1>3, <3>1
    <3>2. CASE Past(m)
      BY <1>5, <3>2
    <3>3. CASE sent[m] < bridge.ident.gen
      <4>1. m < bridge'.offset \/ m < confirmed'[bridge.ident.bot]
        BY <1>0, <1>6, <3>3, DrainPasses
      <4> QED  BY <1>6, <4>1 DEF Past
    <3> QED  BY <1>6, <3>1, <3>2, <3>3 DEF Covered
  <2>2. m < bridge'.offset => Filed(m)'
    <3> SUFFICES ASSUME m < bridge'.offset  PROVE Filed(m)'
      OBVIOUS
    <3>1. bridge'.offset # 0
      BY ONLY <1>0, <1>3, m < bridge'.offset
    <3> QED  BY <1>1, <1>6, <3>1 DEF Filed
  <2> QED  BY <1>0, <1>1, <1>6, <2>1, <2>2 DEF Covered, SameIdent
<1>7. CASE bridge.ident.bot # bot
  <2>1. Older(m)'
    <3>1. bridge.ident.bot # NoBot
      BY <1>1 DEF BatchInv
    <3> QED  BY <1>5, <1>7, <3>1 DEF Covered
  <2>2. ~(config.bot = bot /\ config.chat # NoChat)
    <3>1. bridge.ident # NoIdent
      BY <1>1, BlankIs DEF BatchInv
    <3>2. config.chat # NoChat => IdentOf(config).bot = bridge.ident.bot
      BY <3>1 DEF HoldsInv
    <3> QED  BY <1>7, <3>2, IdentIs DEF TypeOK
  <2> QED  BY <1>1, <1>7, <2>1, <2>2 DEF Covered, SameIdent
<1> QED  BY <1>6, <1>7

LEMMA CoveredByTake ==
  ASSUME TypeOK, SentInv, BatchInv, PairInv, HoldsInv, Take, NEW m \in Incoming,
         Covered(m) \/ m = Head(bridge.batch)
  PROVE  Covered(m)'
<1> DEFINE bot == BotOf[m]
           head == Head(bridge.batch)
<1>0. /\ bot \in Bots /\ bot # NoBot /\ m \in Nat /\ bridge.offset \in Nat
  BY MessageIs
<1>1. /\ bridge.at = "batch" /\ IdentOf(config) = bridge.ident
      /\ head \in Incoming /\ head = bridge.batch[1] /\ 1 \in DOMAIN bridge.batch
      /\ SameIdent /\ bridge'.offset = head + 1 /\ bridge'.at \in {"pair", "route"}
      /\ offsetFile' = [bot |-> bridge.ident.bot, next |-> head + 1]
      /\ UNCHANGED <<backend, sent, config, reset, confirmed>>
  BY TakeIs
<1>2. head \in Nat /\ head >= bridge.offset /\ bridge.ident.bot # NoBot /\ BotOf[head] = bridge.ident.bot
  BY <1>1, NumbersAre DEF BatchInv
<1>3. config.bot = bridge.ident.bot
  BY <1>1, IdentIs DEF TypeOK
<1>4. (Past(m) <=> Past(m)') /\ (Older(m) <=> Older(m)')
  BY <1>1 DEF Past, Older
<1>5. CASE bridge.ident.bot = bot
  <2>1. m < head + 1 \/ Past(m)
    <3>1. CASE m = head
      BY ONLY <1>0, <3>1
    <3>2. CASE Covered(m)
      <4>1. m < bridge.offset \/ Past(m)
        BY <1>1, <1>5, <3>2 DEF Covered
      <4> QED  BY ONLY <1>0, <1>2, <4>1
    <3> QED  BY <3>1, <3>2
  <2>2. m < head + 1 => Filed(m)'
    BY <1>1, <1>5 DEF Filed
  <2> QED  BY <1>0, <1>1, <1>3, <1>4, <1>5, <2>1, <2>2 DEF Covered, SameIdent
<1>6. CASE bridge.ident.bot # bot
  <2>1. Covered(m) /\ Older(m)
    BY <1>2, <1>6 DEF Covered
  <2> QED  BY <1>1, <1>3, <1>4, <1>6, <2>1 DEF Covered, SameIdent
<1> QED  BY <1>5, <1>6

\* The rest leaves what covers a message alone, or adds to it.
LEMMA CoveredByPoll ==
  ASSUME TypeOK, SentInv, BatchInv, Poll, NEW m \in Incoming, Covered(m)
  PROVE  Covered(m)'
<1> DEFINE bot == BotOf[m]
<1>0. /\ bot \in Bots /\ bot # NoBot /\ m \in Nat /\ confirmed[bot] \in Nat
  BY MessageIs
<1>1. /\ bridge.at = "poll" /\ SameIdent /\ bridge'.offset = bridge.offset
      /\ \/ confirmed' = confirmed
         \/ /\ bridge'.batch \in GetUpdates(bridge.ident.bot, bridge.offset)
            /\ confirmed' = [confirmed EXCEPT ![bridge.ident.bot] = Known(bridge.ident.bot, bridge.offset)]
      /\ UNCHANGED <<backend, sent, config, reset, offsetFile>>
  BY PollIs
<1>2. bridge.ident.bot \in Bots /\ confirmed \in [Bots -> Nat]
  <2>1. bridge \in BridgeType /\ confirmed \in [Bots -> Nat]
    BY TypeIs
  <2>2. bridge.ident.bot # NoBot
    BY <1>1 DEF BatchInv
  <2> QED  BY <2>1, <2>2 DEF BridgeType
<1>3. confirmed'[bot] >= confirmed[bot] /\ confirmed'[bot] \in Nat
  <2>1. CASE confirmed' = confirmed
    BY <1>0, <2>1
  <2>2. CASE confirmed' # confirmed
    <3>1. /\ Known(bridge.ident.bot, bridge.offset) >= confirmed[bridge.ident.bot]
          /\ Known(bridge.ident.bot, bridge.offset) \in Nat
      BY <1>1, <1>2, <2>2, ReturnedAre
    <3> QED  BY <1>0, <1>1, <1>2, <2>2, <3>1
  <2> QED  BY <2>1, <2>2
<1>4. (Past(m) => Past(m)') /\ (Older(m) <=> Older(m)') /\ (Filed(m) <=> Filed(m)')
  BY <1>0, <1>1, <1>3 DEF Past, Older, Filed
<1> QED  BY <1>1, <1>4 DEF Covered, SameIdent

LEMMA CoveredByLink ==
  ASSUME TypeOK, SentInv, BatchInv, NEW bot \in Bots \cup {NoBot}, Link(bot), NEW m \in Incoming, Covered(m)
  PROVE  Covered(m)'
<1>0. sent[m] \in Nat /\ sent[m] <= backend.gen /\ backend.gen \in Nat
  BY MessageIs
<1>1. /\ backend'.gen = backend.gen + 1 /\ UNCHANGED <<sent, config, bridge, offsetFile, confirmed>>
  BY DEF Link, bridgeVars
<1>2. (Past(m) <=> Past(m)') /\ (Older(m) => Older(m)') /\ (Filed(m) <=> Filed(m)')
  BY <1>0, <1>1 DEF Past, Older, Filed
<1>3. sent'[m] # backend'.gen
  BY <1>0, <1>1
<1> QED  BY <1>1, <1>2, <1>3 DEF Covered

\* The pairing that is written is the one in the config, but for its chat.
LEMMA CoveredByPair ==
  ASSUME TypeOK, BatchInv, PairInv, HoldsInv, PairWrite, NEW m \in Incoming, Covered(m)
  PROVE  Covered(m)'
<1>1. /\ bridge.at = "write" /\ bridge'.at = "route" /\ SameIdent /\ bridge'.offset = bridge.offset
      /\ config' = bridge.copy \/ config' = config
      /\ UNCHANGED <<backend, sent, reset, offsetFile, confirmed>>
  BY PairWriteIs
<1>2. /\ bridge.copy.bot = bridge.ident.bot /\ bridge.copy.gen = bridge.ident.gen /\ bridge.ident.bot # NoBot
      /\ IdentOf(config) = bridge.ident
      /\ offsetFile.bot = bridge.ident.bot /\ offsetFile.next = bridge.offset
  BY <1>1 DEF PairInv, BatchInv, HoldsInv
<1>3. config'.bot = config.bot /\ config'.gen = config.gen /\ config.bot = bridge.ident.bot
  BY <1>1, <1>2, IdentIs DEF TypeOK
<1>4. (Past(m) <=> Past(m)') /\ (Older(m) <=> Older(m)') /\ (Filed(m) <=> Filed(m)')
  BY <1>1, <1>3 DEF Past, Older, Filed
<1>5. config.bot = BotOf[m] => Filed(m) \/ Past(m)
  BY <1>1, <1>2, <1>3 DEF Covered, Filed
<1> QED  BY <1>1, <1>3, <1>4, <1>5 DEF Covered, SameIdent

LEMMA TakenStep ==
  ASSUME PairFaults = {}, TypeOK, SentInv, WriterInv, BatchInv, PairInv, AnswerInv, TakenInv, HoldsInv, ~DrainFails, [Next]_vars
  PROVE  TakenInv'
<1> SUFFICES ASSUME NEW m \in Incoming, Taken(m)'
             PROVE  Covered(m)'
  BY DEF TakenInv
<1>0. Taken(m) => Covered(m)
  BY DEF TakenInv
<1>1. ASSUME NEW n \in Incoming, Send(n)
      PROVE  Covered(m)'
  <2>1. /\ sent[n] = 0 /\ sent' = [sent EXCEPT ![n] = backend.gen]
        /\ UNCHANGED <<backend, config, reset, bridge, offsetFile, confirmed, handled>>
    BY <1>1 DEF Send, bridgeVars
  <2>2. Taken(m) /\ sent[m] # 0
    BY <2>1, MessageIs DEF Taken
  <2>3. sent'[m] = sent[m]
    BY <2>1, <2>2 DEF TypeOK
  <2>4. (Past(m) <=> Past(m)') /\ (Older(m) <=> Older(m)') /\ (Filed(m) <=> Filed(m)')
    BY <2>1, <2>3 DEF Past, Older, Filed
  <2> QED  BY <1>0, <2>1, <2>2, <2>3, <2>4 DEF Covered
<1>2. ASSUME NEW bot \in Bots \cup {NoBot}, Link(bot)
      PROVE  Covered(m)'
  <2>1. bridge' = bridge /\ handled' = handled
    BY <1>2 DEF Link, bridgeVars
  <2>2. Taken(m)
    BY <2>1 DEF Taken
  <2> QED  BY <1>0, <1>2, <2>2, CoveredByLink
\* What covers a message is left alone.
<1>3. ASSUME UNCHANGED <<backend, sent, config, offsetFile, confirmed>>, reset'.at = "idle" \/ reset.at # "idle",
             (bridge'.ident = bridge.ident /\ bridge'.offset = bridge.offset) \/ bridge'.ident.bot = NoBot,
             bridge'.at = bridge.at \/ bridge.at # "drain", Taken(m)
      PROVE  Covered(m)'
  <2>1. (Past(m) <=> Past(m)') /\ (Older(m) <=> Older(m)') /\ (Filed(m) <=> Filed(m)')
    BY <1>3 DEF Past, Older, Filed
  <2>2. BotOf[m] # NoBot
    BY MessageIs
  <2> QED  BY <1>0, <1>3, <2>1, <2>2 DEF Covered
<1>4. CASE PollerApplies \/ PollerSyncs \/ ResetApplies
  <2>1. bridge' = bridge /\ handled' = handled
    BY <1>4 DEF PollerApplies, PollerSyncs, ResetApplies
  <2>2. Taken(m)
    BY <2>1 DEF Taken
  <2> QED  BY <1>0, <1>4, <2>2, CoveredByWriters
<1>5. CASE PollerReads \/ PollerFetches \/ ResetFetches \/ UNCHANGED vars
  <2>1. /\ UNCHANGED <<backend, sent, config, offsetFile, confirmed, bridge, handled>>
        /\ reset' = reset \/ reset.at = "fetch"
    BY <1>5 DEF PollerReads, PollerFetches, ResetFetches, vars, bridgeVars
  <2>2. Taken(m)
    BY <2>1 DEF Taken
  <2> QED  BY <1>3, <2>1, <2>2
<1>6. CASE ReadConfig
  <2>1. bridge.at = "top" /\ bridge'.at \in {"top", "drain", "poll"} /\ handled' = handled
    BY <1>6, ReadIs
  <2>2. Taken(m)
    BY <2>1 DEF Taken
  <2> QED  BY <1>0, <1>6, <2>2, CoveredByRead
<1>7. CASE Drain
  <2>1. bridge'.at = "poll" /\ handled' = handled
    BY <1>7, DrainIs
  <2>2. Taken(m)
    BY <2>1 DEF Taken
  <2> QED  BY <1>0, <1>7, <2>2, CoveredByDrain
<1>8. CASE Poll
  <2>1. bridge'.at \in {"top", "batch"} /\ handled' = handled
    BY <1>8, PollIs DEF BackAtTop
  <2>2. Taken(m)
    BY <2>1 DEF Taken
  <2> QED  BY <1>0, <1>8, <2>2, CoveredByPoll
<1>9. CASE Take
  <2>1. bridge'.batch = bridge.batch /\ handled' = handled
    BY <1>9, TakeIs
  <2>2. Taken(m) \/ m = Head(bridge.batch)
    BY <2>1 DEF Taken
  <2> QED  BY <1>0, <1>9, <2>2, CoveredByTake
<1>10. CASE BatchEnds
  <2>1. /\ bridge.at = "batch" /\ bridge'.at = "top" /\ handled' = handled /\ bridge'.ident = bridge.ident
        /\ bridge'.offset = bridge.offset /\ UNCHANGED <<backend, sent, config, offsetFile, confirmed, reset>>
    BY <1>10, EndsIs DEF BackAtTop
  <2>2. Taken(m)
    BY <2>1 DEF Taken
  <2> QED  BY <1>3, <2>1, <2>2
<1>11. CASE PairRead
  <2>1. /\ bridge.at = "pair" /\ handled' = handled /\ bridge'.ident = bridge.ident
        /\ bridge'.at = "top" \/ bridge'.batch = bridge.batch
        /\ bridge'.offset = bridge.offset /\ UNCHANGED <<backend, sent, config, offsetFile, confirmed, reset>>
    BY <1>11, PairReadIs DEF BackAtTop, SameIdent
  <2>2. Taken(m)
    BY <2>1 DEF Taken
  <2> QED  BY <1>3, <2>1, <2>2
<1>12. CASE PairWrite
  <2>1. bridge.at = "write" /\ bridge'.batch = bridge.batch /\ handled' = handled
    BY <1>12, PairWriteIs
  <2>2. Taken(m)
    BY <2>1 DEF Taken
  <2> QED  BY <1>0, <1>12, <2>2, CoveredByPair
<1>13. CASE Route
  <2>1. /\ bridge.at = "route" /\ bridge'.at = "batch" /\ bridge'.ident = bridge.ident
        /\ bridge'.offset = bridge.offset /\ UNCHANGED <<backend, sent, config, offsetFile, confirmed, reset>>
        /\ handled' = [handled EXCEPT ![Head(bridge.batch)] = @ + 1] \/ handled' = handled
    BY <1>13, RouteIs DEF SameIdent
  <2>2. handled'[m] > 0
    BY <2>1 DEF Taken
  <2>3. handled'[m] = handled[m] \/ m = Head(bridge.batch)
    BY <2>1 DEF TypeOK
  <2>4. Taken(m)
    BY <2>1, <2>2, <2>3 DEF Taken
  <2> QED  BY <1>3, <2>1, <2>4
<1>14. CASE Crash
  <2>1. /\ bridge'.at = "top" /\ bridge'.ident.bot = NoBot
        /\ UNCHANGED <<backend, sent, config, offsetFile, confirmed, reset, handled>>
    BY <1>14, CrashIs, BlankIs
  <2>2. Taken(m)
    BY <2>1 DEF Taken
  <2>3. (Past(m) <=> Past(m)') /\ (Older(m) <=> Older(m)') /\ (Filed(m) <=> Filed(m)') /\ BotOf[m] # NoBot
    BY <2>1, MessageIs DEF Past, Older, Filed
  <2> QED  BY <1>0, <2>1, <2>2, <2>3 DEF Covered
<1> QED
  BY <1>1, <1>2, <1>4, <1>5, <1>6, <1>7, <1>8, <1>9, <1>10, <1>11, <1>12, <1>13, <1>14 DEF Next, Poller, Reset, Bridge

LEMMA HoldsStep ==
  ASSUME PairFaults = {}, TypeOK, ConfigInv, WriterInv, BatchInv, PairInv, HoldsInv, [Next]_vars
  PROVE  HoldsInv'
<1>1. CASE PollerApplies \/ PollerSyncs \/ ResetApplies
  <2>1. config'.chat = NoChat /\ bridge' = bridge
    BY <1>1, WritersAre
  <2>2. bridge.at \notin {"pair", "write"}
    BY <1>1 DEF PollerApplies, PollerSyncs, ResetApplies, Undisturbed
  <2> QED  BY <2>1, <2>2 DEF HoldsInv
<1>2. ASSUME config' = config, bridge'.ident = bridge.ident, bridge'.at \notin {"pair", "write"}
      PROVE  HoldsInv'
  BY <1>2 DEF HoldsInv, IdentOf
<1>3. ASSUME UNCHANGED <<config, bridge, offsetFile>>
      PROVE  HoldsInv'
  BY <1>3 DEF HoldsInv, IdentOf
<1>4. CASE ReadConfig
  <2>1. config' = config /\ bridge'.ident = IdentOf(config) /\ bridge'.at \in {"top", "drain", "poll"}
    BY <1>4, ReadIs
  <2> QED  BY <2>1 DEF HoldsInv, IdentOf
<1>5. CASE Crash
  <2>1. config' = config /\ bridge'.ident = NoIdent /\ bridge'.at = "top"
    BY <1>5, CrashIs
  <2> QED  BY <2>1 DEF HoldsInv, IdentOf
<1>6. CASE Take
  <2>1. /\ IdentOf(config) = bridge.ident /\ config' = config /\ bridge'.ident = bridge.ident
        /\ offsetFile' = [bot |-> bridge.ident.bot, next |-> Head(bridge.batch) + 1]
        /\ bridge'.offset = Head(bridge.batch) + 1
    BY <1>6, TakeIs DEF SameIdent
  <2> QED  BY <2>1 DEF HoldsInv, IdentOf
<1>7. CASE PairRead
  <2>1. /\ bridge.at = "pair" /\ config' = config /\ bridge'.ident = bridge.ident /\ offsetFile' = offsetFile
        /\ bridge'.at = "top" \/ bridge'.offset = bridge.offset
    BY <1>7, PairReadIs DEF BackAtTop, SameIdent
  <2> QED  BY <2>1 DEF HoldsInv, IdentOf
<1>8. CASE PairWrite
  <2>1. /\ bridge.at = "write" /\ bridge'.at = "route" /\ bridge'.ident = bridge.ident
        /\ config' = bridge.copy \/ config' = config
    BY <1>8, PairWriteIs DEF SameIdent
  <2>2. /\ bridge.copy.bot = bridge.ident.bot /\ bridge.copy.gen = bridge.ident.gen /\ bridge.ident.bot # NoBot
        /\ bridge.ident \in [bot : Bots \cup {NoBot}, gen : Gens]
    BY <2>1 DEF PairInv, BatchInv, TypeOK
  <2>3. IdentOf(bridge.copy) = bridge.ident /\ IdentOf(config) = bridge.ident
    BY <2>1, <2>2 DEF IdentOf, HoldsInv
  <2>4. IdentOf(config') = bridge'.ident
    BY <2>1, <2>3
  <2> QED  BY <2>1, <2>4 DEF HoldsInv, IdentOf
<1>9. CASE Drain \/ DrainFails \/ Poll \/ BatchEnds \/ Route
  <2>1. config' = config /\ bridge'.ident = bridge.ident /\ bridge'.at \in {"top", "poll", "batch"}
    BY <1>9, DrainIs, FailsIs, PollIs, EndsIs, RouteIs DEF SameIdent, BackAtTop
  <2> QED  BY <1>2, <2>1
<1>10. CASE \/ PollerReads \/ PollerFetches \/ ResetFetches \/ (\E m \in Incoming : Send(m))
            \/ (\E bot \in Bots \cup {NoBot} : Link(bot)) \/ UNCHANGED vars
  <2>1. UNCHANGED <<config, bridge, offsetFile>>
    BY <1>10 DEF PollerReads, PollerFetches, ResetFetches, Send, Link, vars, bridgeVars
  <2> QED  BY <1>3, <2>1
<1> QED  BY <1>1, <1>4, <1>5, <1>6, <1>7, <1>8, <1>9, <1>10 DEF Next, Poller, Reset, Bridge

\* What getUpdates returns has had no turn, so a message of the batch has none until its own.
LEMMA HandStep ==
  ASSUME TypeOK, SentInv, BatchInv, TakenInv, OnceInHand, AtMostOnce, ~undrained, [Next]_vars
  PROVE  OnceInHand' /\ AtMostOnce'
<1>0. /\ bridge.batch \in Updates /\ handled \in [Incoming -> Nat] /\ bridge \in BridgeType
      /\ \A n \in Incoming : handled[n] <= 1
  <2>1. bridge \in BridgeType /\ handled \in [Incoming -> Nat]
    BY TypeIs
  <2> QED  BY <2>1 DEF BridgeType, AtMostOnce
<1>1. ASSUME handled' = handled,
             \A i \in DOMAIN bridge'.batch : \E j \in DOMAIN bridge.batch : bridge'.batch[i] = bridge.batch[j]
      PROVE  OnceInHand' /\ AtMostOnce'
  BY <1>0, <1>1 DEF OnceInHand, AtMostOnce
<1>2. CASE Poll
  <2>1. /\ bridge.at = "poll" /\ handled' = handled
        /\ bridge'.batch = <<>> \/ bridge'.batch \in GetUpdates(bridge.ident.bot, bridge.offset)
    BY <1>2, PollIs DEF BackAtTop
  <2>2. CASE bridge'.batch = <<>>
    BY <1>1, <2>1, <2>2, NoUpdates
  <2>3. CASE bridge'.batch \in GetUpdates(bridge.ident.bot, bridge.offset)
    <3>1. bridge.ident.bot \in Bots
      BY <1>0, <2>1 DEF BatchInv, BridgeType
    <3>2. ASSUME NEW i \in DOMAIN bridge'.batch
          PROVE  handled[bridge'.batch[i]] = 0
      <4> DEFINE m == bridge'.batch[i]
      <4>1. /\ m \in Incoming /\ BotOf[m] = bridge.ident.bot /\ m >= bridge.offset /\ m >= confirmed[BotOf[m]]
        BY <2>3, <3>1, ReturnedAre
      <4> HIDE DEF m
      <4>2. m \in Nat /\ bridge.offset \in Nat /\ confirmed[BotOf[m]] \in Nat /\ handled[m] \in Nat
        BY <4>1, MessageIs
      <4>3. ~Covered(m)
        BY <2>1, <4>1, <4>2 DEF Covered, Past
      <4>4. ~(handled[m] > 0)
        BY <4>1, <4>3 DEF TakenInv, Taken
      <4> QED  BY <4>2, <4>4 DEF m
    <3> QED  BY <1>0, <2>1, <3>2 DEF OnceInHand, AtMostOnce
  <2> QED  BY <2>1, <2>2, <2>3
<1>3. CASE Route
  <2> DEFINE head == Head(bridge.batch)
  <2>1. /\ bridge'.batch = Tail(bridge.batch) /\ bridge.batch # <<>> /\ head \in Incoming
        /\ handled' = [handled EXCEPT ![head] = @ + 1] \/ handled' = handled
    BY <1>3, RouteIs
  <2>2. /\ head = bridge.batch[1] /\ 1 \in DOMAIN bridge.batch
        /\ \A i \in DOMAIN Tail(bridge.batch) :
             i \in Nat /\ i > 0 /\ i + 1 \in DOMAIN bridge.batch /\ Tail(bridge.batch)[i] = bridge.batch[i + 1]
        /\ \A i \in DOMAIN bridge.batch : bridge.batch[i] \in Incoming
    BY <1>0, <2>1, BatchTail
  <2>3. handled[head] = 0
    BY <2>2 DEF OnceInHand
  <2> HIDE DEF head
  <2>4. \A n \in Incoming : handled'[n] = handled[n] \/ (n = head /\ handled'[n] = 1)
    BY <1>0, <2>1, <2>3
  <2>5. AtMostOnce'
    BY <1>0, <2>4 DEF AtMostOnce
  <2>6. ASSUME NEW i \in DOMAIN bridge'.batch
        PROVE  handled'[bridge'.batch[i]] = 0
    <3>1. i + 1 \in DOMAIN bridge.batch /\ bridge'.batch[i] = bridge.batch[i + 1] /\ 1 < i + 1
      BY <2>1, <2>2
    <3>2. head < bridge.batch[i + 1] /\ bridge.batch[i + 1] \in Incoming
      BY <2>2, <3>1 DEF BatchInv
    <3>3. head # bridge.batch[i + 1]
      BY <2>1, <3>2, NumbersAre
    <3>4. handled[bridge.batch[i + 1]] = 0
      BY <3>1 DEF OnceInHand
    <3> QED  BY <2>4, <3>1, <3>2, <3>3, <3>4
  <2> QED  BY <2>5, <2>6 DEF OnceInHand
<1>4. CASE BatchEnds \/ PairRead \/ Crash
  <2>1. handled' = handled /\ (bridge'.batch = <<>> \/ bridge'.batch = bridge.batch)
    BY <1>4, EndsIs, PairReadIs, CrashIs DEF BackAtTop
  <2> QED  BY <1>1, <2>1, NoUpdates
<1>5. CASE ReadConfig \/ Drain \/ DrainFails \/ Take \/ PairWrite
  <2>1. handled' = handled /\ bridge'.batch = bridge.batch
    BY <1>5, ReadIs, DrainIs, FailsIs, TakeIs, PairWriteIs
  <2> QED  BY <1>1, <2>1
<1>6. CASE \/ Poller \/ Reset \/ (\E m \in Incoming : Send(m)) \/ (\E bot \in Bots \cup {NoBot} : Link(bot))
           \/ UNCHANGED vars
  <2>1. handled' = handled /\ bridge' = bridge
    BY <1>6 DEF Poller, Reset, PollerReads, PollerFetches, PollerApplies, PollerSyncs, ResetFetches, ResetApplies,
                Send, Link, vars, bridgeVars
  <2> QED  BY <1>1, <2>1
<1> QED  BY <1>2, <1>3, <1>4, <1>5, <1>6 DEF Next, Bridge

LEMMA OnceStep ==
  ASSUME PairFaults = {}, LinkIInv, AnswerInv, DrainedInv, [Next]_vars
  PROVE  DrainedInv'
<1>1. CASE undrained \/ DrainFails
  <2>1. undrained'
    <3>1. CASE DrainFails
      BY <3>1 DEF DrainFails
    <3>2. CASE undrained
      BY <3>2 DEF Next, Poller, Reset, Bridge, PollerReads, PollerFetches, PollerApplies, PollerSyncs, ResetFetches,
         ResetApplies, Send, Link, ReadConfig, Drain, DrainFails, Poll, Take, BatchEnds, PairRead, PairWrite, Route, Crash,
         vars, bridgeVars, ills
    <3> QED  BY <1>1, <3>1, <3>2
  <2> QED  BY <2>1 DEF DrainedInv
<1>2. CASE ~undrained /\ ~DrainFails
  <2>1. TakenInv /\ HoldsInv /\ OnceInHand /\ AtMostOnce
    BY <1>2 DEF DrainedInv
  <2> QED  BY <1>2, <2>1, TakenStep, HoldsStep, HandStep DEF DrainedInv, LinkIInv
<1> QED  BY <1>1, <1>2

\* A message starts at most one turn, unless a backlog drain failed: for any bots, chats
\* and messages, however often the user links, unlinks and links again and whatever
\* crashes, as long as the api answers in full and nobody writes telegram.json between
\* what another writer reads and what it writes.
THEOREM TurnsAtMostOnce ==
  ASSUME PairFaults = {}
  PROVE  Spec => []AtMostOnce
<1>1. Init => LinkIInv /\ AnswerInv /\ DrainedInv
  <2> SUFFICES ASSUME Init
               PROVE  LinkIInv /\ AnswerInv /\ DrainedInv
    OBVIOUS
  <2>1. LinkIInv
    BY LinkStart
  <2>2. /\ poller = Idle /\ reset = Idle /\ bridge = NewBridge /\ config = Blank
        /\ handled = [m \in Incoming |-> 0]
    BY DEF Init
  <2>3. AnswerInv
    BY <2>2, IdleIs DEF AnswerInv
  <2>4. TakenInv
    BY <2>2, IdleIs DEF TakenInv, Taken
  <2>5. HoldsInv
    BY <2>2, IdleIs, BlankIs DEF HoldsInv
  <2>6. OnceInHand /\ AtMostOnce
    <3>1. DOMAIN bridge.batch = {}
      BY <2>2, IdleIs, NoUpdates
    <3> QED  BY <2>2, <3>1 DEF OnceInHand, AtMostOnce
  <2> QED  BY <2>1, <2>3, <2>4, <2>5, <2>6 DEF DrainedInv
<1>2. LinkIInv /\ AnswerInv /\ DrainedInv /\ [Next]_vars => (LinkIInv /\ AnswerInv /\ DrainedInv)'
  <2> SUFFICES ASSUME LinkIInv, AnswerInv, DrainedInv, [Next]_vars
               PROVE  LinkIInv' /\ AnswerInv' /\ DrainedInv'
    OBVIOUS
  <2>1. LinkIInv' /\ DrainedInv'
    BY LinkStep, OnceStep
  <2>2. AnswerInv'
    BY AnswerStep DEF LinkIInv
  <2> QED  BY <2>1, <2>2
<1>3. DrainedInv => AtMostOnce
  BY DEF DrainedInv, AtMostOnce
<1> QED  BY <1>1, <1>2, <1>3, PTL DEF Spec
=============================================================================
