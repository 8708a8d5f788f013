---------------------------- MODULE EvalRollout ----------------------------
(***************************************************************************)
(* The rollout driver, scripts/blockstacking-rollout.py, over the stack of *)
(* EvalStack : it starts the launcher in a session of its own, drives the  *)
(* bridge's HTTP interface through the rollouts, and takes everything down *)
(* again in its finally clause.                                            *)
(*                                                                         *)
(* A call that is not answered, or answered with an error, raises ; so do  *)
(* the waits at their deadline.  Left out : the checks of the arguments,   *)
(* what goes into session.json, the copies of the log files.  The number   *)
(* of rollouts and --leave-running are chosen where main reads them.       *)
(***************************************************************************)
EXTENDS EvalStack

VARIABLES
  driver,   \* where main is
  left,     \* --leave-running
  broken    \* the finally clause was itself interrupted

dvars == <<driver, left, broken>>
allVars == <<stackVars, dvars>>

Driving == {"ui", "model", "serving", "reset", "settle", "start", "running", "stop"}
Finally == {"shutdown", "artifacts", "grace", "ctrlc", "kill"}

DriverInit == StackInit /\ driver = "ui" /\ left = FALSE /\ broken = FALSE

\* The HTTP interface of a bridge that serves.
Answers == job["bridge"] = "up" /\ stage = "serving"

\* The finally clause ; with --leave-running there is nothing in it.
LeaveTry ==
  \/ driver' = "shutdown" /\ UNCHANGED left
  \/ driver' = "exited" /\ left' = TRUE

Proceed(next) == driver' = next /\ UNCHANGED left

\* One request : its answer, or a DriverError.
Ask(at, next) ==
  /\ driver = at /\ ((Answers /\ Proceed(next)) \/ LeaveTry)
  /\ UNCHANGED <<stackVars, broken>>

\* wait_for_ui : a launcher that is gone, or the deadline, ends it.
WaitForUi == Ask("ui", "model")

SelectModel == Ask("model", "serving")

\* The selected backend serves, and the controller does not switch.
WaitForModel ==
  /\ driver = "serving" /\ ((Answers /\ children # {} /\ Proceed("reset")) \/ LeaveTry)
  /\ UNCHANGED <<stackVars, broken>>

ResetScene == Ask("reset", "settle")
Settle == Ask("settle", "start")
StartRollout == Ask("start", "running")

\* A stream that does not come up is noted, and the rollout goes on ; its horizon is counted
\* by the wall clock, or by Isaac's, which may stand still or move backwards.
HoldHorizon ==
  /\ driver = "running" /\ (Proceed("stop") \/ LeaveTry)
  /\ UNCHANGED <<stackVars, broken>>

\* The last rollout leaves the loop.
StopRollout ==
  /\ driver = "stop" /\ ((Answers /\ Proceed("reset")) \/ LeaveTry)
  /\ UNCHANGED <<stackVars, broken>>

-----------------------------------------------------------------------------
(* The finally clause. *)

\* Isaac ends its run on request, when it answers at all.
RequestIsaacShutdown ==
  /\ driver = "shutdown" /\ driver' = "artifacts"
  /\ JobDies("isaac") \/ UNCHANGED stackVars
  /\ UNCHANGED <<left, broken>>

\* The files of the run, or three minutes.
WaitForArtifacts ==
  /\ driver = "artifacts" /\ driver' = "grace" /\ UNCHANGED <<stackVars, left, broken>>

\* terminate_launcher : its end by itself, ...
LauncherLeft ==
  /\ driver \in {"grace", "ctrlc", "kill"} /\ Out /\ driver' = "exited"
  /\ UNCHANGED <<stackVars, left, broken>>

\* Mutant : the launcher is expected to follow its simulator.
InterruptLauncher_Waits ==
  /\ driver = "grace" /\ Out /\ driver' = "ctrlc" /\ UNCHANGED <<stackVars, left, broken>>

\* ... or a Ctrl-C to its group after the grace, ...
InterruptLauncher ==
  /\ driver = "grace" /\ Interrupt /\ driver' = "ctrlc" /\ UNCHANGED <<left, broken>>

\* ... or a KILL to all of the group after three minutes more.
KillLauncher ==
  /\ driver = "ctrlc" /\ driver' = "kill"
  /\ Killed /\ ~heart' /\ watchdog' = "over" /\ loop' = "over"
  /\ UNCHANGED <<left, broken>>

\* Ctrl-C at the driver does not reach the launcher's session ; in the finally clause it
\* ends the driver then and there.
KeyboardInterrupt ==
  /\ \/ driver \in Driving /\ LeaveTry /\ UNCHANGED broken
     \/ driver \in Finally /\ driver' = "exited" /\ broken' = TRUE /\ UNCHANGED left
  /\ UNCHANGED stackVars

-----------------------------------------------------------------------------
DriverStep ==
  \/ WaitForUi \/ SelectModel \/ WaitForModel \/ ResetScene \/ Settle \/ StartRollout
  \/ HoldHorizon \/ StopRollout
  \/ RequestIsaacShutdown \/ WaitForArtifacts
  \/ LauncherLeft \/ InterruptLauncher \/ KillLauncher

RolloutNext == DriverStep \/ KeyboardInterrupt \/ (StackNext /\ UNCHANGED dvars)

RolloutSpec == DriverInit /\ [][RolloutNext]_allVars

\* The driver is one thread whose waits all have a deadline.
RolloutFairSpec == RolloutSpec /\ StackFairness /\ WF_allVars(DriverStep)

-----------------------------------------------------------------------------
RolloutTypeOK ==
  /\ driver \in Driving \union Finally \union {"exited"}
  /\ left \in BOOLEAN /\ broken \in BOOLEAN
  /\ left \/ broken => driver = "exited"

\* A driver that has begun to take the stack down comes to its end and no job is left, even
\* though the launcher of a dead Isaac waits for ever by itself (terminate_launcher), unless
\* the operator interrupts the taking down.
DriverEndsStack ==
  driver = "shutdown" ~>
    (broken \/ (driver = "exited" /\ AllEnded))

\* A driver that leaves, and was not told to leave the stack running, leaves no launcher.
ExitTakesLauncher == driver = "exited" => left \/ broken \/ Out

\* The types of both modules, and what may not be left when launcher or driver is done.
StackInv == StackTypeOK /\ RolloutTypeOK /\ TornDown /\ ExitTakesLauncher
=============================================================================
