----------------------------- MODULE EvalStack -----------------------------
(***************************************************************************)
(* The processes of one evaluation session : dev.sh psi0-isaac-eval, which *)
(* starts Isaac, the bridge and the SONIC controller and takes them down ; *)
(* the wrapper that runs each background job in the container ; and the    *)
(* bridge of scripts/psi0-isaac-eval.py with the policy backends it owns.  *)
(*                                                                         *)
(* The launcher holds a lease, a file its heartbeat touches every second ; *)
(* wrappers stop their job when the lease is gone or five seconds old.     *)
(* Left out : the argument parsing, the ports probed before anything is    *)
(* started, the banner, the log tails, the wall times ; an interrupt       *)
(* between the heartbeat or the watchdog and the variable that holds its   *)
(* pid ; the pidfile an earlier session left.                              *)
(***************************************************************************)
EXTENDS FiniteSets, Integers

VARIABLES
  launcher,   \* where the shell function psi0_isaac_eval is, "gone" once it is no more
  lease,      \* "none", "fresh" or "stale"
  heart,      \* psi0_eval_heartbeat runs
  watchdog,   \* psi0_eval_watchdog : "off", "watching", "telling", "over"
  abort,      \* PSI0_EVAL_ABORT_FILE exists
  job,        \* per job, its process : "none", "up", "ending" after a TERM, "dead"
  wrapper,    \* per job, its wrapper : "none", "asked" of docker, "starting" until the
              \* pidfile is written, "watching", "term", "over"
  pidfile,    \* the jobs whose pidfile exists
  entry,      \* per job, its entries in the launcher's arrays : "none", "half", "whole"
  missed,     \* history : the jobs whose stop found no entry or no pidfile
  stage,      \* how far the bridge has come
  children,   \* the policy backends the bridge has started
  loop,       \* the subshell that keeps the controller alive
  controller  \* the SONIC controller runs

noteVars  == <<entry, missed>>
stackVars == <<launcher, lease, heart, watchdog, abort, job, wrapper, pidfile, noteVars, stage,
               children, loop, controller>>

Jobs == {"isaac", "bridge"}
Cleaning == {"heart", "unlease", "unwatch", "uncontrol", "term_bridge", "kill_bridge",
             "term_isaac", "kill_isaac"}
Working == {"start", "isaac", "note_isaac", "bridge", "note_bridge", "alive", "steady", "init",
            "waiting"}

NoEntry == [j \in Jobs |-> "none"]

StackInit ==
  /\ launcher = "start" /\ lease = "none" /\ heart = FALSE
  /\ watchdog = "off" /\ abort = FALSE
  /\ job = [j \in Jobs |-> "none"] /\ wrapper = [j \in Jobs |-> "none"] /\ pidfile = {}
  /\ entry = NoEntry /\ missed = {}
  /\ stage = "socket" /\ children = {}
  /\ loop = "off" /\ controller = FALSE

\* The host sees a job end when its wrapper does.
Over(j) == wrapper[j] = "over"

Live(j) == job[j] \in {"up", "ending"}

\* The shell is no more, and its arrays with it.
ShellGone == launcher' = "gone" /\ entry' = NoEntry /\ missed' = {}

\* The process is gone, and with it how far the bridge had come.
EndJob(j) ==
  /\ job' = [job EXCEPT ![j] = "dead"]
  /\ stage' = IF j = "bridge" THEN "over" ELSE stage

\* kill -- -pid : every process of the job's group gets a TERM, or a KILL.
TermJob(j) == job' = [job EXCEPT ![j] = IF @ = "up" THEN "ending" ELSE @]
KillJob(j) == EndJob(j) /\ children' = IF j = "bridge" THEN {} ELSE children

-----------------------------------------------------------------------------
(* The launcher starts the session. *)

\* Mutant : the lease is left to the heartbeat's first beat.
PrepareLease_NoTouch ==
  /\ launcher = "start" /\ launcher' = "isaac" /\ heart' = TRUE
  /\ UNCHANGED <<lease, watchdog, abort, job, wrapper, pidfile, stage, children, loop,
                 controller, noteVars>>

PrepareLease ==
  /\ launcher = "start" /\ launcher' = "isaac"
  /\ lease' = "fresh" /\ heart' = TRUE
  /\ UNCHANGED <<watchdog, abort, job, wrapper, pidfile, stage, children, loop, controller, noteVars>>

\* psi0_eval_bg_start puts docker exec in the background, ...
StartJob(j, note) ==
  /\ launcher = j /\ launcher' = note
  /\ wrapper' = [wrapper EXCEPT ![j] = "asked"]
  /\ UNCHANGED <<lease, heart, watchdog, abort, job, pidfile, stage, children, loop, controller, noteVars>>

\* ... and enters it in its arrays, one after the other : the number of jobs is known
\* before the name of the pidfile.
RecordJob(j, note, next) ==
  /\ launcher = note
  /\ \/ /\ entry[j] = "none" /\ entry' = [entry EXCEPT ![j] = "half"]
        /\ UNCHANGED launcher
     \/ /\ entry[j] = "half" /\ entry' = [entry EXCEPT ![j] = "whole"]
        /\ launcher' = next
  /\ UNCHANGED <<lease, heart, watchdog, abort, job, wrapper, pidfile, missed, stage, children,
                 loop, controller>>

\* psi0_eval_require_alive, of the two, then the watchdog.
RequireAlive ==
  /\ launcher = "alive"
  /\ IF \E j \in Jobs : Over(j)
     THEN launcher' = "heart" /\ UNCHANGED watchdog
     ELSE launcher' = "steady" /\ watchdog' = "watching"
  /\ UNCHANGED <<lease, heart, abort, job, wrapper, pidfile, stage, children, loop, controller, noteVars>>

\* psi0_eval_wait_isaac_steady : it fails at its deadline, on a dead Isaac or an abort, and
\* succeeds once Isaac's log has grown for half a minute.
WaitSteady ==
  /\ launcher = "steady"
  /\ \/ launcher' = "heart" /\ UNCHANGED loop
     \/ /\ ~Over("isaac") /\ job["isaac"] # "none" /\ ~abort
        /\ launcher' = "init" /\ loop' = "check"
  /\ UNCHANGED <<lease, heart, watchdog, abort, job, wrapper, pidfile, stage, children,
                 controller, noteVars>>

\* Up to three minutes for "Init Done" in the log of the controller, which writes it once
\* it has Isaac's state.
WaitInit ==
  /\ launcher = "init"
  /\ launcher' = "heart" \/ (controller /\ job["isaac"] = "up" /\ launcher' = "waiting")
  /\ UNCHANGED <<lease, heart, watchdog, abort, job, wrapper, pidfile, stage, children, loop,
                 controller, noteVars>>

\* wait "$controller_job"
WaitController ==
  /\ launcher = "waiting" /\ loop = "over" /\ launcher' = "heart"
  /\ UNCHANGED <<lease, heart, watchdog, abort, job, wrapper, pidfile, stage, children, loop,
                 controller, noteVars>>

-----------------------------------------------------------------------------
(* psi0_eval_cleanup, step by step. *)

StopHeartbeat ==
  /\ launcher = "heart" /\ launcher' = "unlease" /\ heart' = FALSE
  /\ UNCHANGED <<lease, watchdog, abort, job, wrapper, pidfile, stage, children, loop,
                 controller, noteVars>>

DropLease ==
  /\ launcher = "unlease" /\ launcher' = "unwatch" /\ lease' = "none"
  /\ UNCHANGED <<heart, watchdog, abort, job, wrapper, pidfile, stage, children, loop,
                 controller, noteVars>>

StopWatchdog ==
  /\ launcher = "unwatch" /\ launcher' = "uncontrol"
  /\ watchdog' = (IF watchdog = "off" THEN "off" ELSE "over")
  /\ UNCHANGED <<lease, heart, abort, job, wrapper, pidfile, stage, children, loop, controller, noteVars>>

\* psi0_eval_stop_sonic_controller : a controller that has not written its pidfile is missed.
StopController ==
  /\ launcher = "uncontrol" /\ launcher' = "term_bridge" /\ controller' = FALSE
  /\ UNCHANGED <<lease, heart, watchdog, abort, job, wrapper, pidfile, stage, children, loop, noteVars>>

\* psi0_eval_bg_stop : a TERM to the group of the pidfile, and nothing at all without one.
\* A job that is not in the arrays is passed over ; one that is there by half is an unbound
\* variable, which ends the shell.
TermByPidfile(j, at, next, skip) ==
  /\ launcher = at
  /\ \/ entry[j] = "half" /\ ShellGone /\ UNCHANGED <<job, abort>>
     \/ /\ entry[j] = "whole" /\ j \in pidfile
        /\ launcher' = next /\ TermJob(j) /\ UNCHANGED <<noteVars, abort>>
     \/ /\ entry[j] = "none" \/ (entry[j] = "whole" /\ j \notin pidfile)
        /\ launcher' = skip /\ missed' = missed \union {j}
        /\ abort' = (abort /\ skip # "done") /\ UNCHANGED <<job, entry>>
  /\ UNCHANGED <<lease, heart, watchdog, wrapper, pidfile, stage, children, loop, controller>>

\* Mutant : a job that ignores the TERM is left to its wrapper.
KillByPidfile_TermOnly(j, at, next) ==
  /\ launcher = at /\ launcher' = next
  /\ pidfile' = pidfile \ {j} /\ abort' = (abort /\ next # "done")
  /\ UNCHANGED <<lease, heart, watchdog, job, wrapper, stage, children, loop, controller,
                 noteVars>>

\* ... two seconds later a KILL when the leader is still there ; then the pidfile goes.
KillByPidfile(j, at, next) ==
  /\ launcher = at /\ launcher' = next
  /\ IF job[j] = "ending" THEN KillJob(j) ELSE UNCHANGED <<job, stage, children>>
  /\ pidfile' = pidfile \ {j}
  /\ abort' = (abort /\ next # "done")
  /\ UNCHANGED <<lease, heart, watchdog, wrapper, loop, controller, noteVars>>

Cleanup ==
  \/ StopHeartbeat \/ DropLease \/ StopWatchdog \/ StopController
  \/ TermByPidfile("bridge", "term_bridge", "kill_bridge", "term_isaac")
  \/ KillByPidfile("bridge", "kill_bridge", "term_isaac")
  \/ TermByPidfile("isaac", "term_isaac", "kill_isaac", "done")
  \/ KillByPidfile("isaac", "kill_isaac", "done")

\* Ctrl-C, a TERM or a hang-up : the trap cleans up ; in the middle of a cleanup the second
\* call returns at once (PSI0_EVAL_CLEANED) and the trap exits.
Interrupt ==
  /\ \/ launcher \in Cleaning /\ ShellGone
     \/ launcher \in Working /\ launcher' = "heart" /\ UNCHANGED noteVars
  /\ UNCHANGED <<lease, heart, watchdog, abort, job, wrapper, pidfile, stage, children, loop,
                 controller>>

\* The launcher is killed, alone or with everything it runs on the host.
Killed ==
  /\ launcher \in Working \union Cleaning /\ ShellGone
  /\ \/ UNCHANGED <<heart, watchdog, loop>>
     \/ heart' = FALSE /\ watchdog' = "over" /\ loop' = "over"
  /\ UNCHANGED <<lease, abort, job, wrapper, pidfile, stage, children, controller>>

-----------------------------------------------------------------------------
(* The heartbeat, the watchdog and the controller's subshell on the host. *)

Out == launcher \in {"done", "gone"}

\* Mutant : the heartbeat goes on when its owner is gone.
LastBeat_GoesOn ==
  /\ heart /\ Out /\ lease' = "fresh"
  /\ UNCHANGED <<launcher, heart, watchdog, abort, job, wrapper, pidfile, stage, children, loop,
                 controller, noteVars>>

\* The owner is gone : the lease goes with it.
LastBeat ==
  /\ heart /\ Out /\ heart' = FALSE /\ lease' = "none"
  /\ UNCHANGED <<launcher, watchdog, abort, job, wrapper, pidfile, stage, children, loop,
                 controller, noteVars>>

\* Five seconds without a touch ; a heartbeat that runs touches it every second.
LeaseAges ==
  /\ lease = "fresh" /\ ~heart /\ lease' = "stale"
  /\ UNCHANGED <<launcher, heart, watchdog, abort, job, wrapper, pidfile, stage, children, loop,
                 controller, noteVars>>

\* A job that ended : the abort file, then the controller is stopped.
Tell ==
  \/ /\ watchdog = "watching" /\ \E j \in Jobs : Over(j)
     /\ watchdog' = "telling" /\ abort' = TRUE /\ UNCHANGED controller
  \/ /\ watchdog = "telling" /\ watchdog' = "over" /\ controller' = FALSE /\ UNCHANGED abort

WatchdogLooks ==
  /\ Tell
  /\ UNCHANGED <<launcher, lease, heart, job, wrapper, pidfile, stage, children, loop,
                 noteVars>>

\* The loop asks only for the file of the lease.
LoopChecks ==
  /\ loop = "check" /\ loop' = (IF lease = "none" THEN "over" ELSE "starting")
  /\ UNCHANGED <<launcher, lease, heart, watchdog, abort, job, wrapper, pidfile, stage,
                 children, controller, noteVars>>

\* run_sonic_controller, up to its pidfile and exec ; it replaces one it finds.
LoopStarts ==
  /\ loop = "starting" /\ loop' = "serving" /\ controller' = TRUE
  /\ UNCHANGED <<launcher, lease, heart, watchdog, abort, job, wrapper, pidfile, stage,
                 children, noteVars>>

LoopReturns ==
  /\ loop = "serving" /\ ~controller /\ loop' = "check"
  /\ UNCHANGED <<launcher, lease, heart, watchdog, abort, job, wrapper, pidfile, stage,
                 children, controller, noteVars>>

\* The subshell is killed ; nothing else ends it while the lease is there.
LoopDies ==
  /\ loop \in {"check", "starting", "serving"} /\ loop' = "over"
  /\ UNCHANGED <<launcher, lease, heart, watchdog, abort, job, wrapper, pidfile, stage,
                 children, controller, noteVars>>

\* The controller leaves when Isaac's state goes stale, or ends by itself.
ControllerExits ==
  /\ controller /\ controller' = FALSE
  /\ UNCHANGED <<launcher, lease, heart, watchdog, abort, job, wrapper, pidfile, stage,
                 children, loop, noteVars>>

-----------------------------------------------------------------------------
(* In the container : the wrappers and the jobs. *)

\* docker runs the wrapper : no old pidfile, then the job in a group of its own, ...
WrapperStarts(j) ==
  /\ wrapper[j] = "asked" /\ wrapper' = [wrapper EXCEPT ![j] = "starting"]
  /\ job' = [job EXCEPT ![j] = "up"] /\ pidfile' = pidfile \ {j}
  /\ UNCHANGED <<launcher, lease, heart, watchdog, abort, stage, children, loop, controller, noteVars>>

\* ... then its pidfile.
WrapperWrites(j) ==
  /\ wrapper[j] = "starting" /\ wrapper' = [wrapper EXCEPT ![j] = "watching"]
  /\ pidfile' = pidfile \union {j}
  /\ UNCHANGED <<launcher, lease, heart, watchdog, abort, job, stage, children, loop, controller, noteVars>>

\* docker exec fails, or its client is killed before the daemon has run anything.
ExecFails(j) ==
  /\ wrapper[j] = "asked" /\ wrapper' = [wrapper EXCEPT ![j] = "over"]
  /\ UNCHANGED <<launcher, lease, heart, watchdog, abort, job, pidfile, stage, children, loop,
                 controller, noteVars>>

\* Once a second : the job ended, or the lease is gone or old.
WrapperLooks(j) ==
  /\ wrapper[j] = "watching"
  /\ \/ job[j] = "dead" /\ wrapper' = [wrapper EXCEPT ![j] = "over"]
        /\ pidfile' = pidfile \ {j} /\ UNCHANGED job
     \/ job[j] # "dead" /\ lease # "fresh" /\ TermJob(j)
        /\ wrapper' = [wrapper EXCEPT ![j] = "term"] /\ UNCHANGED pidfile
  /\ UNCHANGED <<launcher, lease, heart, watchdog, abort, stage, children, loop, controller, noteVars>>

\* The leader left, or ten seconds have passed : the group is killed either way.
WrapperKills(j) ==
  /\ wrapper[j] = "term" /\ KillJob(j) /\ pidfile' = pidfile \ {j}
  /\ wrapper' = [wrapper EXCEPT ![j] = "over"]
  /\ UNCHANGED <<launcher, lease, heart, watchdog, abort, loop, controller,
                 noteVars>>

BridgeIs(at, next) == job["bridge"] = "up" /\ stage = at /\ stage' = next

\* It owns the action socket, validates the run directory and starts its policy server.
BridgeStartsServer ==
  /\ BridgeIs("socket", "loading") /\ children' = {"policy"}
  /\ UNCHANGED <<launcher, lease, heart, watchdog, abort, job, wrapper, pidfile, loop,
                 controller, noteVars>>

\* /info answers, for minutes it does not, and names the run that was asked for.
BridgeAdopts ==
  /\ BridgeIs("loading", "adopted")
  /\ UNCHANGED <<launcher, lease, heart, watchdog, abort, job, wrapper, pidfile, children, loop,
                 controller, noteVars>>

\* The settle streams, the GR00T group and the controller are built, the UI opens.
BridgeServes ==
  /\ BridgeIs("adopted", "serving")
  /\ UNCHANGED <<launcher, lease, heart, watchdog, abort, job, wrapper, pidfile, children, loop,
                 controller, noteVars>>

\* Any of that fails, or the UI ends : the finally clause stops the policy server, not the
\* GR00T group.
BridgeLeaves ==
  /\ job["bridge"] = "up"
  /\ EndJob("bridge") /\ children' = children \ {"policy"}
  /\ UNCHANGED <<launcher, lease, heart, watchdog, abort, wrapper, pidfile, loop,
                 controller, noteVars>>

\* A switch in the UI : the one backend goes before the other comes.
BridgeSwitches ==
  /\ job["bridge"] = "up" /\ stage = "serving"
  /\ children' \in (IF children = {} THEN {{"policy"}, {"groot"}} ELSE {{}})
  /\ UNCHANGED <<launcher, lease, heart, watchdog, abort, job, wrapper, pidfile, stage, loop,
                 controller, noteVars>>

\* A job ends on its TERM, if it does not hang : a serving bridge stops its policy server
\* first, one that is still loading is ended by the signal.
JobHeedsTerm(j) ==
  /\ job[j] = "ending" /\ EndJob(j)
  /\ children' = IF j = "bridge" /\ stage = "serving" THEN children \ {"policy"} ELSE children
  /\ UNCHANGED <<launcher, lease, heart, watchdog, abort, wrapper, pidfile, loop,
                 controller, noteVars>>

\* It crashes or, for Isaac, its duration is over : what it started stays.
JobDies(j) ==
  /\ job[j] = "up" /\ EndJob(j)
  /\ UNCHANGED <<launcher, lease, heart, watchdog, abort, wrapper, pidfile, children,
                 loop, controller, noteVars>>

-----------------------------------------------------------------------------
LauncherStep ==
  \/ PrepareLease
  \/ StartJob("isaac", "note_isaac") \/ RecordJob("isaac", "note_isaac", "bridge")
  \/ StartJob("bridge", "note_bridge") \/ RecordJob("bridge", "note_bridge", "alive")
  \/ RequireAlive \/ WaitSteady \/ WaitInit \/ WaitController \/ Cleanup

Loop == LoopChecks \/ LoopStarts \/ LoopReturns

StackNext ==
  \/ LauncherStep \/ Interrupt \/ Killed
  \/ LastBeat \/ LeaseAges \/ WatchdogLooks \/ Loop
  \/ LoopDies \/ ControllerExits
  \/ BridgeStartsServer \/ BridgeAdopts \/ BridgeServes \/ BridgeLeaves \/ BridgeSwitches
  \/ \E j \in Jobs : WrapperStarts(j) \/ WrapperWrites(j) \/ ExecFails(j)
  \/ \E j \in Jobs : WrapperLooks(j) \/ WrapperKills(j) \/ JobHeedsTerm(j) \/ JobDies(j)

StackSpec == StackInit /\ [][StackNext]_stackVars

\* Every shell of the stack goes on by itself, docker runs what it was asked to or fails, the
\* lease ages, a controller without Isaac leaves.  Nothing makes the operator interrupt, a
\* job die or a job heed a TERM.
StackFairness ==
  /\ WF_stackVars(LauncherStep) /\ WF_stackVars(LastBeat) /\ WF_stackVars(LeaseAges)
  /\ WF_stackVars(WatchdogLooks) /\ WF_stackVars(Loop)
  /\ WF_stackVars(ControllerExits /\ job["isaac"] = "dead")
  /\ \A j \in Jobs :
       /\ WF_stackVars(WrapperStarts(j) \/ ExecFails(j)) /\ WF_stackVars(WrapperWrites(j))
       /\ WF_stackVars(WrapperLooks(j)) /\ WF_stackVars(WrapperKills(j))

FairStackSpec == StackSpec /\ StackFairness

-----------------------------------------------------------------------------
\* A pidfile names a job that was started ; one policy backend at a time.
StackTypeOK ==
  /\ launcher \in Working \union Cleaning \union {"done", "gone"}
  /\ lease \in {"none", "fresh", "stale"} /\ heart \in BOOLEAN
  /\ watchdog \in {"off", "watching", "telling", "over"} /\ abort \in BOOLEAN
  /\ job \in [Jobs -> {"none", "up", "ending", "dead"}]
  /\ wrapper \in [Jobs -> {"none", "asked", "starting", "watching", "term", "over"}]
  /\ pidfile \subseteq {j \in Jobs : job[j] # "none"}
  /\ entry \in [Jobs -> {"none", "half", "whole"}] /\ missed \subseteq Jobs
  /\ stage \in {"socket", "loading", "adopted", "serving", "over"}
  /\ children \subseteq {"policy", "groot"} /\ Cardinality(children) <= 1
  /\ loop \in {"off", "check", "starting", "serving", "over"}
  /\ controller \in BOOLEAN

\* When the launcher has cleaned up, a job is left only if its stop came before its pidfile
\* or its entry, and then the lease is gone and a wrapper is there to see it, whatever a job
\* does with its TERM and whoever else was stopping it (psi0_eval_cleanup,
\* psi0_eval_bg_stop, the wrapper).
TornDown ==
  launcher = "done" =>
    \A j \in Jobs : Live(j) =>
      /\ j \in missed /\ lease = "none"
      /\ wrapper[j] \in {"starting", "watching", "term"}

\* A wrapper takes its job down only when the launcher is done with it : the lease of a
\* session at work is never missing or old (the touch before the first job, the heartbeat).
OnlyLeaselessJobsEnd ==
  [][\A j \in Jobs : wrapper[j] = "watching" /\ wrapper'[j] = "term"
                      => launcher \notin Working]_stackVars

\* No job runs, none is still to come.
AllEnded == \A j \in Jobs : ~Live(j) /\ wrapper[j] \in {"none", "over"}

\* However the launcher leaves, its jobs end (the lease, "a killed launcher can never leave
\* the simulation running"), also one docker had not begun and one the cleanup missed.
OutEndsJobs == Out ~> AllEnded

\* After a full cleanup the controller and the loop that restarts it end as well.
DoneEndsController == launcher = "done" ~> (~controller /\ loop \in {"off", "over"})

\* Together : no process of a session outlives its launcher for good.
SessionEnds == OutEndsJobs /\ DoneEndsController

\* The README's "a dead shared process ends the whole session" : once a job of a session at
\* work is over, the launcher leaves.
DeadJobEndsSession == (launcher = "waiting" /\ \E j \in Jobs : Over(j)) ~> Out
=============================================================================
