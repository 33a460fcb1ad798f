----------------------------- MODULE MCListener -----------------------------
(* Three parts of the command listener, which share the poll thread and no   *)
(* data, and the bot's share of an account, side by side: each behaviour     *)
(* exercises one of them, and the run's states are the sum and not the       *)
(* product.                                                                  *)
EXTENDS BacktestJob, CommandLoop, VersionRestore, OwnShare

CONSTANTS f1, f2

VARIABLE part

\* The parts at rest start in one of their initial states.
MCInit ==
  /\ part \in {"job", "loop", "restore", "share"}
  /\ JobInit /\ LoopInit /\ RestoreInit /\ Init
  /\ part # "share" => user = 0
  /\ part # "restore" => file = Min(Codes)

\* A part of the listener with nothing to do is at rest; the share's rest is its own.
MCNext ==
  /\ UNCHANGED part
  /\ \/ part = "job" /\ JobNext /\ UNCHANGED <<loopVars, restoreVars, vars>>
     \/ part = "loop" /\ LoopNext /\ UNCHANGED <<jobVars, restoreVars, vars>>
     \/ part = "restore" /\ RestoreNext /\ UNCHANGED <<jobVars, loopVars, vars>>
     \/ part = "share" /\ Next /\ UNCHANGED <<jobVars, loopVars, restoreVars>>
     \/ part # "share" /\ UNCHANGED <<jobVars, loopVars, restoreVars, vars>>

\* Fairness of the module, asked only where its actions can be taken.
ShareFairness ==
  /\ WF_vars(part = "share" /\ Round)
  /\ \A f \in Flatteners : WF_vars(part = "share" /\ CloseAll(f))
  /\ SF_vars(part = "share" /\ ReduceFills) /\ SF_vars(part = "share" /\ NettedExit)

MCSpec ==
  /\ MCInit /\ [][MCNext]_<<part, jobVars, loopVars, restoreVars, vars>>
  /\ JobFairness /\ LoopFairness /\ RestoreFairness /\ ShareFairness
=============================================================================
