------------------------------ MODULE HaltGate ------------------------------
(* Start without catching up: state/signal_gate.json between the command       *)
(* listener, which writes it before it clears HALT, and the rounds of the      *)
(* reconciler, which leave out a gated strategy's symbol until its signal      *)
(* changes.  All strategies here trade one symbol.  A signal is a direction,   *)
(* or the bar a portfolio last rebalanced on.                                  *)
EXTENDS Naturals

CONSTANTS
  Strategies,
  Signals,      \* directions, or rebalance bars
  NoSignal,     \* no state.json yet; not gated; not waiting
  MaxSignals,   \* changes of a signal in one behaviour
  MaxCommands,  \* commands of the user and edits of the configuration
  GateFaults    \* subset of AllGateFaults

(* resume_inside: resume_wait writes the gate while a round reads states and gate *)
(* halt_inside:   HALT is set and lifted again within one round                   *)
AllGateFaults == {"resume_inside", "halt_inside"}

ASSUME GateAssumption ==
  /\ NoSignal \notin Signals /\ MaxSignals \in Nat /\ MaxCommands \in Nat
  /\ GateFaults \subseteq AllGateFaults

VARIABLES
  signal,     \* state.json of each strategy
  funded,     \* the strategies with an amount and a venue in portfolio_config.json
  gate,       \* state/signal_gate.json: the signal waited on
  halted,     \* state/HALT
  command,    \* the listener's command: what it does next and what it read
  round,      \* the reconciler's round
  waiting,    \* ghost: the signal the user does not want to be caught up with
  asked,      \* ghost: the user's last start of this strategy was to wait
  signals, commands

listenerVars == <<command, commands>>
ghostVars    == <<waiting, asked>>
gateVars == <<signal, funded, gate, halted, round, signals, listenerVars, ghostVars>>

SignalsOrNone    == Signals \cup {NoSignal}
Readings == [Strategies -> SignalsOrNone]
NoCommand == [at |-> "idle", read |-> [n \in Strategies |-> NoSignal], picked |-> {}]
NoRound   == [at |-> "idle", halted |-> FALSE, seen |-> [n \in Strategies |-> NoSignal],
              funded |-> {}, lifted |-> {}, gated |-> FALSE]

GateTypeOK ==
  /\ {signal, gate, waiting} \subseteq Readings
  /\ funded \subseteq Strategies /\ asked \subseteq Strategies /\ halted \in BOOLEAN
  /\ command \in [at : {"idle", "write", "clear", "clean"}, read : Readings,
                  picked : SUBSET Strategies]
  /\ round \in [at : {"idle", "gate", "merge", "orders"}, halted : BOOLEAN, seen : Readings,
                funded : SUBSET Strategies, lifted : SUBSET Strategies, gated : BOOLEAN]
  /\ signals \in Nat /\ commands \in Nat

GateInit ==
  /\ signal \in Readings /\ funded \in SUBSET Strategies
  /\ gate = [n \in Strategies |-> NoSignal] /\ halted = TRUE
  /\ command = NoCommand /\ round = NoRound
  /\ waiting = gate /\ asked = {} /\ signals = 0 /\ commands = 0

Without(g, names) == [n \in Strategies |-> IF n \in names THEN NoSignal ELSE g[n]]

-----------------------------------------------------------------------------
(* Strategies. *)

NewSignal(n) ==
  /\ signals < MaxSignals /\ signals' = signals + 1
  /\ \E s \in Signals \ {signal[n]} : signal' = [signal EXCEPT ![n] = s]
  /\ waiting' = Without(waiting, {n})
  /\ UNCHANGED <<funded, gate, halted, round, listenerVars, asked>>

-----------------------------------------------------------------------------
(* The listener, one command at a time. *)

Free == command.at = "idle" /\ commands < MaxCommands
Issue == Free /\ commands' = commands + 1

(* The page offers start under HALT.                                           *)
MayStart ==
  halted /\ ("halt_inside" \in GateFaults \/ round.at = "idle" \/ round.halted)

SetHalt ==
  /\ Issue /\ halted' = TRUE
  /\ UNCHANGED <<signal, funded, gate, round, command, signals, ghostVars>>

\* Start at once: the gate goes before HALT does.
Resume ==
  /\ Issue /\ MayStart
  /\ gate' = [n \in Strategies |-> NoSignal]
  /\ command' = [command EXCEPT !.at = "clear"]
  /\ waiting' = gate' /\ asked' = {}
  /\ UNCHANGED <<signal, funded, halted, round, signals>>

\* Start and wait: every funded strategy's signal is read.  One that cannot be
\* read fails the command and HALT stays.
ResumeWait ==
  /\ Issue /\ MayStart
  /\ LET picked == {n \in funded : signal[n] # NoSignal} IN
     \/ /\ command' = [at |-> "write", read |-> signal, picked |-> picked]
        /\ waiting' = Without(signal, Strategies \ picked) /\ asked' = picked
     \/ /\ picked # {} /\ UNCHANGED <<command, ghostVars>>
  /\ UNCHANGED <<signal, funded, gate, halted, round, signals>>

WriteGate ==
  /\ command.at = "write"
  /\ round.at \in {"gate", "merge"} => "resume_inside" \in GateFaults
  /\ gate' = Without(command.read, Strategies \ command.picked)
  /\ command' = [command EXCEPT !.at = "clear"]
  /\ UNCHANGED <<signal, funded, halted, round, commands, signals, ghostVars>>

LiftHalt ==
  /\ command.at = "clear"
  /\ halted' = FALSE /\ command' = NoCommand
  /\ UNCHANGED <<signal, funded, gate, round, commands, signals, ghostVars>>

\* The amounts are saved on the page: the configuration first, then the gate
\* loses who is not funded now and who was not funded before.
SaveAmounts(names) ==
  /\ Issue
  /\ funded' = names
  /\ command' = [command EXCEPT !.at = "clean", !.picked = names \cap funded]
  /\ LET kept == asked \cap names \cap funded IN
     asked' = kept /\ waiting' = Without(waiting, Strategies \ kept)
  /\ UNCHANGED <<signal, gate, halted, round, signals>>

\* Mutant: only who is not funded now.
CleanGateOfUnfunded ==
  /\ command.at = "clean"
  /\ gate' = Without(gate, Strategies \ funded)
  /\ command' = NoCommand
  /\ UNCHANGED <<signal, funded, halted, round, commands, signals, ghostVars>>

CleanGate ==
  /\ command.at = "clean"
  /\ gate' = Without(gate, Strategies \ command.picked)
  /\ command' = NoCommand
  /\ UNCHANGED <<signal, funded, halted, round, commands, signals, ghostVars>>

\* The agent takes a strategy out of portfolio_config.json itself.
Unfund(n) ==
  /\ n \in funded /\ command.at = "idle" /\ commands < MaxCommands
  /\ commands' = commands + 1
  /\ funded' = funded \ {n} /\ waiting' = Without(waiting, {n}) /\ asked' = asked \ {n}
  /\ UNCHANGED <<signal, gate, halted, round, command, signals>>

-----------------------------------------------------------------------------
(* The reconciler. *)

\* HALT once, then configuration and states.
Begin ==
  /\ round.at = "idle"
  /\ round' = [round EXCEPT !.at = "gate", !.halted = halted, !.seen = signal,
                            !.funded = {n \in funded : signal[n] # NoSignal}]
  /\ UNCHANGED <<signal, funded, gate, halted, signals, listenerVars, ghostVars>>

Same(n) == round.seen[n] = gate[n]
OnGate  == {n \in round.funded : gate[n] # NoSignal}

\* One strategy that waits holds back the symbol for all.
ReadGate ==
  /\ round.at = "gate"
  /\ round' = [round EXCEPT !.at = "merge", !.lifted = {n \in OnGate : ~Same(n)},
                            !.gated = \E n \in OnGate : Same(n)]
  /\ UNCHANGED <<signal, funded, gate, halted, signals, listenerVars, ghostVars>>

\* The names it lifted leave the file as it is now.
Merge ==
  /\ round.at = "merge"
  /\ gate' = Without(gate, round.lifted)
  /\ round' = [round EXCEPT !.at = "orders"]
  /\ UNCHANGED <<signal, funded, halted, signals, listenerVars, ghostVars>>

\* Mutant: HALT is looked at when the order goes out and not when the round began.
MayOpenNow == ~halted

MayOpen == ~round.halted /\ ~halted

\* A leg that adds exposure towards the strategies' target.
EnterLeg ==
  /\ round.at = "orders" /\ ~round.gated /\ round.funded # {}
  /\ MayOpen
  /\ round' = NoRound
  /\ UNCHANGED <<signal, funded, gate, halted, signals, listenerVars, ghostVars>>

RoundEnds ==
  /\ round.at = "orders" /\ round' = NoRound
  /\ UNCHANGED <<signal, funded, gate, halted, signals, listenerVars, ghostVars>>

GateNext ==
  \/ \E n \in Strategies : NewSignal(n) \/ Unfund(n)
  \/ \E names \in SUBSET Strategies : SaveAmounts(names)
  \/ SetHalt \/ Resume \/ ResumeWait \/ WriteGate \/ LiftHalt \/ CleanGate
  \/ Begin \/ ReadGate \/ Merge \/ EnterLeg \/ RoundEnds

GateSpec == GateInit /\ [][GateNext]_gateVars

-----------------------------------------------------------------------------
\* After a start that waits, no order catches up with a signal the user asked not
\* to follow, though rounds under way then have read the files before (reconcile's
\* halted_at_start, resume_wait's order of writes, aggregate_portfolio's merge).
NoCatchUp ==
  [][EnterLeg => \A n \in round.funded : waiting[n] = NoSignal]_gateVars

\* No strategy is held back by a wait the user has not asked for or has taken back
\* (_cmd_resume, the clean-up after the amounts are saved).
HeldBackAsAsked ==
  command.at = "idle" => \A n \in funded : gate[n] # NoSignal => n \in asked
=============================================================================
