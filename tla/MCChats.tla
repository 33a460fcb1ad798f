------------------------------ MODULE MCChats ------------------------------
(* The turns of the two bridges, the pairing of a Telegram bot and the stop of *)
(* a turn, side by side: each behaviour exercises one of them.                 *)
EXTENDS MCWebTurns, MCTelegramPairing, TurnStop

VARIABLE part

MCInit ==
  /\ part \in {"turns", "pairing", "stop"}
  /\ WebInit /\ Init /\ StopInit
  /\ part # "stop" => ~codex /\ ~desktop

MCNext ==
  /\ UNCHANGED part
  /\ \/ part = "turns" /\ WebNext /\ UNCHANGED <<vars, stopVars>>
     \/ part = "pairing" /\ Next /\ UNCHANGED <<webVars, stopVars>>
     \/ part = "stop" /\ StopNext /\ UNCHANGED <<webVars, vars>>

\* Fairness of the modules, asked only where their actions can be taken.
TurnsFairness ==
  /\ WF_webVars(part = "turns" /\ PollThread) /\ WF_webVars(part = "turns" /\ Dispatcher)
  /\ WF_webVars(Restart) /\ WF_webVars(Age) /\ WF_webVars(part = "turns" /\ TelegramTurn)
  /\ \A s \in Sessions : WF_webVars(Worker(s))

PairingFairness ==
  /\ WF_vars(part = "pairing" /\ PollerReads) /\ WF_vars(PollerApplies) /\ WF_vars(PollerSyncs)
  /\ SF_vars(PollerAnswered)
  /\ WF_vars(Reset) /\ WF_vars(part = "pairing" /\ Bridge)

MCSpec ==
  /\ MCInit /\ [][MCNext]_<<part, webVars, vars, stopVars>>
  /\ TurnsFairness /\ PairingFairness /\ StopFairness

\* The file comes to say what the api says, though a command is lost, the api fails
\* and the bridge writes an old copy back (telegram_pairing.py 1-18).
Converges == <>[](part = "pairing" => Agrees)
=============================================================================
