---------------------------- MODULE MCSideBySide ----------------------------
(* Parts that share no state, side by side: the turns of the web bridge, the   *)
(* text of a turn, which reconciler trades, what a start catches up with, the  *)
(* cache of market data, an update of the workspace and the orders to the       *)
(* futures broker.  Each behaviour exercises one, and the run's states are the *)
(* sum of theirs and not the product.                                          *)
EXTENDS MCWebTurns, TurnReply, MachineStart, HaltGate, HistoryCache, WorkspaceUpdate,
        BrokerDesk

CONSTANTS c1, c2

VARIABLE part

\* The two processes on the cache, or at the broker, may be exchanged.
TwoCallers   == {c1, c2}
Exchangeable == Permutations(TwoCallers)

\* Code and references, references only, a part of the code.
ThreeReleases == <<{"lib", "manager", "references"}, {"references"}, {"manager"}>>

\* The parts at rest start in one of their initial states.
MCInit ==
  /\ part \in {"turns", "reply", "machine", "gate", "cache", "update", "desk"}
  /\ WebInit /\ UpdateInit /\ DeskInit
  /\ ReplyInit /\ (part # "reply" => streams /\ grouped)
  /\ MachineInit /\ (part # "machine" => setup = "unit" /\ installed = "new")
  /\ GateInit /\ (part # "gate" => funded = {} /\ \A n \in Strategies : signal[n] = NoSignal)
  /\ CacheInit /\ (part # "cache" => parts = NoDir /\ daily /\ single /\ since = 1)

MCNext ==
  /\ UNCHANGED part
  /\ \/ /\ part = "turns" /\ WebNext
        /\ UNCHANGED <<replyVars, machineVars, gateVars, cacheVars, updateVars, deskVars>>
     \/ /\ part = "reply" /\ ReplyNext
        /\ UNCHANGED <<webVars, machineVars, gateVars, cacheVars, updateVars, deskVars>>
     \/ /\ part = "machine" /\ MachineNext
        /\ UNCHANGED <<webVars, replyVars, gateVars, cacheVars, updateVars, deskVars>>
     \/ /\ part = "gate" /\ GateNext
        /\ UNCHANGED <<webVars, replyVars, machineVars, cacheVars, updateVars, deskVars>>
     \/ /\ part = "cache" /\ CacheNext
        /\ UNCHANGED <<webVars, replyVars, machineVars, gateVars, updateVars, deskVars>>
     \/ /\ part = "update" /\ UpdateNext
        /\ UNCHANGED <<webVars, replyVars, machineVars, gateVars, cacheVars, deskVars>>
     \/ /\ part = "desk" /\ DeskNext
        /\ UNCHANGED <<webVars, replyVars, machineVars, gateVars, cacheVars, updateVars>>

MCSpec ==
  /\ MCInit
  /\ [][MCNext]_<<part, webVars, replyVars, machineVars, gateVars, cacheVars, updateVars, deskVars>>
=============================================================================
