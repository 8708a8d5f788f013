# A specification of humanoid-lab

These modules specify the parts of humanoid-lab that decide which program may move
the robot, and when, and the parts that keep their promises across failures: the
control session and the action port of the bridge, the simulator's loop and its
resets, the start and end of an evaluation session, and the services and commands
that keep files. TLC checks them on small instances; TLAPS proves every safety
invariant and action property that these runs claim, for all values of the constants, some
of them for calls one at a time (section 4). Liveness is checked by TLC only.

Paths below are relative to `src/` of the source tree; `bridge/` stands for
`src/humanoid_lab/psi0_bridge/`, `isaac/` for `src/humanoid_lab/simulators/isaac/`.

## 1. Inventory

humanoid-lab is a workstation for the Unitree G1: an Isaac simulator or the robot,
a low-level whole-body controller (SONIC), and a policy (psi0, GR00T or FLUX) that
feeds it. A web page lets an operator start, stop, reset and switch policies.

```
 blockstacking-rollout.py -> dev.sh psi0-isaac-eval     (EvalRollout, EvalStack)
        |  HTTP                |  lease, wrappers
        v                      v  starts Isaac, bridge, SONIC
 browser -> app.py (a pool thread per request)
              |
        ModelController ---------> PolicyServerProcess, GrootProcessGroup
          |         |                    |                 |   (base directory:
          |      Session                 | WebSocket       |    BaseArtifact)
          |   (a loop thread per Start) <+                 | ZMQ
          |         | submit_psi                           |
          v         v                                      v
        ActionRouter  <--- WarmStart / InitialPose ---  VLA client
              |  the one socket
              v
            SONIC deploy  <-- DDS: commands, state -->  Isaac service
                                (DdsController, IsaacLoop)
        monitor <-- ZMQ: g1_debug, camera; control endpoint --> Isaac service
                                (ResetPipeline)
 evaluation/app.py : its own service, one worker, one GPU    (EvalRuns)
 conversion and packing commands : files on disk             (TrainingPack)
```

| Component | State | Operations | What is hard | What makes it correct |
|---|---|---|---|---|
| Control session, `bridge/session.py` | state word, starting, generation, stop event, send gate, thread, connection flag | start, stop, reset, adopt_policy, mark_error, the loop (fetch, connect, stream on either clock, fail) | pool threads and loop threads interleave; joins time out; events are written outside the lock | no action after a Stop, one current loop, ERROR is left by a Reset only, a Start resolves |
| Publisher, `bridge/publisher.py` | halted flag | publish, halt, resume | check, then send | at most the publish under way follows a halt |
| Action router, `bridge/action_router.py` | source, gate, generation, four bounded queues, a thread | select, resume, halt, submit, send_control, close | producers, callers and the socket thread; full queues; lock released before the send | only the selected source leaves; messages of an old generation do not |
| Model controller, `bridge/model_controller.py` | state word, switching, selected entry | start, stop, reset, switch, settle, rollback | calls of seconds with no lock held; failure of one step of many | fail closed: who owns the port after each call |
| Policy server and GR00T processes, `bridge/policy_server.py`, `bridge/groot_backend.py` | child processes | start, stop, alive | deaths at any time, start refused while one is up | the served checkpoint is the selected one |
| Checkpoint switching, `bridge/checkpoints.py` | selected run, lock | switch with rollback, discovery | as above, for one backend | as above |
| Reset client, monitor, camera and state sources, `bridge/{reset_client,monitor,camera,state_source,state}.py` | cached snapshots with ages | poll, invalidate, request_reset(_applied) | a fetch in flight while the cache is cleared; an acknowledgement of a queued request; lost round trips | a settle waits for a boundary; the stream comes to see the new scene |
| Warm start, initial pose, `bridge/{warmstart,initial_pose}.py` | thread, stop event, clock baseline | arm, halt, serve | a thread that outlives its join; the clock of the old episode | one stream at a time; silent after halt; an origin in the new episode |
| Base artifact, `bridge/base_artifact.py` | a directory, its record | verify, build, swap | a death between two renames, a removal that breaks off; a source replaced during a build | a failed build loses nothing; what is served is whole; reused only if it is what would be built |
| Clocks, `bridge/{policy_clock,sim_clock}.py` | origin, episode, rows emitted | update, latency_rows | floats at the boundary; clocks going back | rows due add up, neither twice nor lost |
| Actions, contracts, client, `bridge/{actions,contracts,psi0_client,...}.py` | adapter state | decode, encode | shapes and ranges | numeric |
| Operator application, `bridge/app.py` | none of its own | routes | requests in parallel | - |
| Simulator controllers, `src/humanoid_lab/controllers/` | newest command per topic, episode, ticks | publish_state, poll | DDS callbacks, time to live, episodes | no command taken in an old episode, or too long ago, is applied |
| Isaac service, `isaac/service.py` and its endpoints | tick, episode, pending reset, control mode, staged efforts, support band, pose hold | main loop, reset, apply, queue | reset requests against the loop; groups written only on change; releases counted over ticks | passive means no torque; band and hold outlast the start of control; every accepted reset is shown |
| Evaluation service, `src/humanoid_lab/evaluation/` | runs, persisted manifests, one worker, two models | create, cancel, execute, recover | crash between memory and disk; cancel against completion; failed unloads | a finished run stays finished; the models never share the GPU |
| Session launcher, `dev.sh` | lease, heartbeat, watchdog, wrappers, pid files | start, clean up | kills and signals at any step, TERMs ignored | nothing is left running |
| Rollout driver, `scripts/blockstacking-rollout.py` | where main is | drive, take down | interrupts in the finally clause | as above |
| Dataset converters, `scripts/convert-*.py`, `src/humanoid_lab/datasets/psi0_dex3/` | files | convert, pack, validate | runs that are killed and run again with other arguments | what a run that ends well leaves is whole and its own |
| FLUX ROS node, `third_party/flux/flux-inference/ros2/flux_dex3/` | executor, one pending request, session numbers | callbacks, network thread, chunk executor | timeouts, late replies, bounded queue | a chunk plays once, of this session |
| Analysis and experiment scripts, configuration, vendored training code | files | batch jobs | - | numeric, sequential or third-party |

`PROJECT.json` lists these with their files and status, and every hazard at its line.

## 2. Modules and the code

| Module | Models | Form |
|---|---|---|
| `Session` | `bridge/session.py`, `publisher.py`, what `checkpoints.py` does to a session | state machine, one action per access to shared state |
| `SessionProofs` | - | proofs about `Session` |
| `ActionPort` | the docstring of `ActionRouter` | abstract specification |
| `ActionRouter` | `bridge/action_router.py` | state machine, one action per critical section and per queue operation |
| `ActionRouterProofs` | - | proofs about `ActionRouter` |
| `ModelController` | `bridge/model_controller.py`, the two process classes, the parts it calls as seen by it | state machine, one action per critical section, call into a part, or wait |
| `ModelControllerProofs` | - | proofs about `ModelController` |
| `DdsController` | `controllers/flux_dds.py`, `sonic_dds.py` | operations and invariants, extended by `IsaacLoop` |
| `IsaacLoop` | `isaac/service.py`: run, reset_episode, `_apply_control`, band and hold | state machine composed with `DdsController`, one action per stage of an iteration |
| `IsaacLoopProofs` | - | proofs about `IsaacLoop` |
| `ResetPipeline` | `bridge/{reset_client,monitor,camera,state_source}.py`, `isaac/camera_service.py` and what a reset moves in `service.py` | composition across three processes, one action per message or stage |
| `ResetPipelineProofs` | - | proofs about `ResetPipeline` |
| `WarmStart` | `bridge/warmstart.py`, and `initial_pose.py` which uses it | state machine, one action per access to shared state |
| `WarmStartProofs` | - | proofs about `WarmStart` |
| `RunLifecycle` | what the evaluation service promises of a manifest | abstract specification |
| `EvalRuns` | `evaluation/app.py`, `policy.py`: requests, worker, recovery | state machine, one action per section under LOCK or step between |
| `EvalStack` | `dev.sh psi0-isaac-eval`, the wrapper, the bridge launcher's order | state machine of processes |
| `EvalRollout` | `scripts/blockstacking-rollout.py` | composed with `EvalStack` (EXTENDS) |
| `EvalProofs` | - | proofs about `EvalRuns` and its refinement of `RunLifecycle`, and about `EvalStack` with `EvalRollout` |
| `BaseArtifact` | `bridge/base_artifact.py`, `base_entry` | state machine, one action per file operation that a death may follow |
| `TrainingPack` | the production conversion and the psi0 pack: two scripts, `writer.py`, `validate.py` | state machine over a directory |
| `FileProofs` | - | proofs about `BaseArtifact` and about `TrainingPack` |
| `MC*` | - | constants for TLC |

### Session

A member of `Callers` is a pool thread of the web server carrying one call;
`call[c].at` is where it is. Loop thread `g` is the thread of the Start that claimed
generation `g`; `loop[g]` is where it is. Everything under `_lock` in the code is one
action (`StartClaim`, `StopSettle`, `LoopEnter`, `LoopFail`, ...), and everything
outside it is an action for each access (`StartUnstop`, `StartOpenGate`,
`StopHalt`, `LoopGate`, `LoopPublish`, ...), because that is where the code's order
matters. `StartReenter` is the refused Start that asks for the status inside the lock:
it sets `lockFree` to FALSE for good, and every action that needs the lock has it as a
guard. `revoked` and `late` are history variables. A checkpoint switch is a stop, the
server swap, and `adopt_policy()` or `mark_error()`.

`clock` is the policy clock's mode, chosen at start-up. On the wall clock a loop sends an
observation, waits for the answer and publishes it. On the simulation clock (the
launcher's default) two coroutines of the loop's thread alternate at their awaits: at
"await" the receiver waits, and the sender may find a tick due (`LoopTick`) and send;
neither flushes old replies, and the receiver does not test its generation before it
packs. The first of the two that ends takes the other with it (`LoopQuit`).

What is abstracted: observations and actions (only the generation they came from is
kept, in `shown`), the policy's identity, telemetry. Left out: the socket that `close()`
also closes when the session owns it.

### ActionPort and ActionRouter

`ActionPort` is the promise: a switch with a source, a gate and an epoch, and room for
one message that was taken from the selected source with the gate open.
`ActionRouter` has the three producer queues, the control queue, the producers'
`put_nowait` / `get_nowait` / `put_nowait` on a full queue, the drains, the calls and
the socket thread's cycle. A message is its generation tag. `IsPort` is the refinement:
`epoch` is the router's generation and `slot` is the message between the check and
the send.

### ModelController

A caller carries start, stop, reset or switch, and `call[c]` has its step and local
variables. A call into the router, the session or a process is one action that does
what that module's own specification (or class) does to the few variables seen here:
router source and gate, session state, which checkpoint the server serves, whether the
GR00T processes are up, whether the VLA client is playing, whether the settle stream
runs. The session's loop (`PsiRuns`, `PsiFails`) and the processes (`ServerDies`,
`GrootDies`) act by themselves. A wait with a timeout has two outcomes. A stop raises when
a process outlives its KILL (`GrootOutlives`, `SwitchStopServer`); a switch has no
rollback for that, and a Reset no ERROR.

Left out: `close()`, the keys "k" and "i", planner commands, an entry's availability.

### DdsController and IsaacLoop

`wire` is the newest message of a topic that nobody has taken. `held`, `commandTick` and
`ctlEpisode` are the controller's variables. A poll is `ReceiveCommands` with `Polled`,
which says whether it returns a command (finite, and with a body command to count from),
and `Usable` is the loop's own test of episode and time to live. A message carries, as
history, the episode of the state its writer had been shown (`from`) and the one it was
taken in.

`IsaacLoop` takes an iteration apart at the points where other threads can be seen:
the top (flags and timeline), a reset, the step (publish state, poll, apply, stage
efforts) and the flush to the solver. `owed` is, as history, the episode that answers the
last reset asked for: the next one, or the one after it when a reset is being done.
`effort[g]` is the message whose torque is staged for a group and `passive` the groups the loop believes to be zero already.
`band` is the support band's counters and `hold` the reset pose's history, reference and
release. The deployment is external: `Deploy` puts any target, or a value that is not
finite, on a topic at any time after it was shown a state.

### ResetPipeline

Simulator, monitor and client, each with its place (`sim`, `fetch`, `client`). A scene is
a number, and frames, states and observations are the number of the scene they show, so
"stale" is a comparison. Both ways to ask for a reset are there: the session's, which
returns when the request is queued, and the settle's, which polls for a larger episode
number (`path`). Frames wait in the simulator's buffer, in a reply, in the cache; states
in the socket and the cache; each of these survives a reset in the code for another
reason, which is what the module is for. Messages are lost, the simulator hangs or goes,
and people reset from its own window (`others`). A bad reply is retried (`FailFetch`); a
JPEG that Pillow cannot decode raises past the monitor and ends its thread
(`DecodeRaises`).

### WarmStart

Threads and stop events are numbered by the arming that made them; a thread always looks
at the event that the stream holds *now* (`event`), which is how one that outlived its
join comes back to life. `file` is the clock file with second, epoch (history) and
revision. `join` has both outcomes, and it can time out only while the thread imports
the packer's module (`loaded`).

### RunLifecycle and EvalRuns

`EvalRuns` has the handlers of creation (capacity check, snapshot without the lock,
insertion, save, submit), cancellation, and the worker in both executors, with the
unload of the other model, the chunks between which cancellation is looked at, the end
in memory and then on disk. Every save and every step of a model may fail, and the
process dies and recovers its manifests. `memory` and `disk` are separate, which is the
point: `LifecycleIsKept` is the refinement of `RunLifecycle` by what is on *disk*.

### EvalStack and EvalRollout

The launcher's function step by step with its cleanup, the heartbeat, the watchdog, the
loop that restarts the controller, and per job the process and its wrapper. A TERM may be
ignored, any process may die, the launcher be interrupted or killed. A job comes into
being in pieces, and an interrupt or a death comes between any two: docker is asked
(`StartJob`), the launcher's arrays get the job and then its pidfile (`RecordJob`), the
wrapper starts the process (`WrapperStarts`) and writes the pidfile (`WrapperWrites`). The
cleanup passes over a job without an entry or a pidfile (`missed`), and an entry of which
only half is there ends it. `stage` and
`children` are the bridge's own start and the backends it leaves when it is killed.
`EvalRollout` puts the driver's `main` above it: it starts the launcher as a process
group of its own, drives the HTTP interface and, in its finally clause, interrupts and
kills the launcher and stops the jobs.

### BaseArtifact

A launch verifies the directory or builds a new one in a temporary place and swaps it in
by file operations, two of them renames. Each step may fail, the rename that puts the old
directory back included, and a death may follow each. A removal takes a directory file by
file (`TearReplaced`) and ignores errors, so that part of it (`Torn`) may stay. The warm
start is replaced at any time, and what is served may be damaged between launches. `doubt`
marks the one case in which a record is written for weights it does not describe, `broke`
that a removal broke off.

### TrainingPack

`corpus`, `rows`, `clips`, `listed` and `info` are the files on disk, with None and
`Partial` as contents; `conv` and `job` are the two commands, killed anywhere and run
again with another selection, another version of the code and with or without
`--force`. A selection takes collections in any order. `PackMatches` is what the validator
finds again from the sources, `Validates` all that it wants: an episode that has no valid
anchor (`Anchored`) is refused. The clip pool is a set of numbers queued and a set being
encoded.

## 3. Runs

| Run | Question | Answer |
|---|---|---|
| `session_one` | one caller at a time, two generations, either clock: gates, ERROR, resolved starts, ended loops | holds |
| `session_many` | two callers at once, either clock: what a superseded loop can still send, and that calls return | holds |
| `router` | two producers and one caller: queues, commands, what leaves the socket, the refinement | holds |
| `controller_one` | one caller, two checkpoints and GR00T, failures at any time: who owns the port between calls | holds |
| `isaac_loop` | commands, resets, resets asked for during a reset, pauses, failures: what a torque comes from, when the robot is let go, that each reset is shown | holds |
| `reset_pipeline` | a reset against fetches in flight, losses, another client: what is served, armed and seen | holds |
| `warm_start` | arm and halt against a thread on the clock: one stream, its origin, silence | holds |
| `eval_runs` | requests, cancellation, failing saves, deaths: the refinement, the GPU, the worker's end | holds |
| `stack` | launcher, wrappers, bridge and driver with kills at every step: nothing is left | holds |
| `base_artifact` | builds that die, removals that break off, replaced sources, damage: what is served, what a failed launch keeps, that reuse is sound | holds |
| `training_pack` | commands killed and run again: what one that ends well leaves | holds |
| `double_start` | "refuses unless idle/stopped": does the refusal return? | no: it waits for its own lock (`session.py:268`) |

Each property of the runs that hold has a mutant: a plausible bug in a modelled
definition that makes it fail. Several invariants are conjunctions whose parts are named
and commented in the modules:

| Invariant | Parts |
|---|---|
| `IsaacLoop!LoopInv`, `SupportHolds` | `TypeOK`, `Limp`; `BandWaitsForClaim`, `HoldOutlastsSettle` |
| `ResetPipeline!PipelineInv`, `ResetSettles` | `TypeOK`, `SettleAfterBoundary`; `ResetReturns`, `ObservationCatchesUp` |
| `WarmStart!WarmInv` | `TypeOK`, `OneStream`, `SilentAfterHalt` |
| `EvalRuns!EvalInv` | `TypeOK`, `CapacityHolds`, `ActiveIsOwned` |
| `EvalRollout!StackInv`, `EvalStack!SessionEnds` | `StackTypeOK`, `RolloutTypeOK`, `TornDown`, `ExitTakesLauncher`; `OutEndsJobs`, `DoneEndsController` |
| `BaseArtifact!ArtifactInv` | `TypeOK`, `ServedIsWhole` |
| `TrainingPack!PackInv`, `EndsWell` | `PackTypeOK`, `ReportedIsThere`, `DeclaredHasRows`; `EndsMatching`, `ForcedShowsRows` |
| `ModelController!ControllerInv` | `TypeOK`, `VlaHeldBack`, `SettleOwnsPort` |

### Divergences

`double_start` is the one statement of the source that a run refutes; it is quoted under
`findings` in `PROJECT.json`. The statements below are defined in the modules as well,
and TLC refutes each of them when it is put in the place of a property of the run named.
None of the runs claims them.

| Definition, run | What the source says | What the code does |
|---|---|---|
| `Session!AdoptedStaysReady`, `session_one` | `session.py:223-224`: "ERROR clears and the session becomes ready (IDLE) again" | a loop that outlived the join still counts as current and can fail the adopted session (702) |
| `Session!StoppedStaysSilent`, `session_many` | `session.py:9-10`: Stop "joins the loop, so no further action is published" | a Stop inside a Start, before the event is cleared (277), leaves no trace; with one caller the property holds and is checked |
| `ModelController!ServesSelected`, `controller_one` | `README.md:136`: "the previous backend restarts and the session goes to `ERROR`" | the failed server is not stopped, so the rollback's start is refused (425-431) |
| `ModelController!ResetClearsError`, `controller_one` | `model_controller.py:111`: "session is in ERROR; Reset before Start" | Reset (149-177) does not reset the psi0 session underneath, which then refuses the Start |
| `ModelController!StopHolds`, `controller_one` with two callers | as `StoppedStaysSilent` | Start waits for SONIC between its check and its effect (115-117), and a Stop in between is undone |
| `ActionRouter!NothingFollowsSelect`, `router` | `model_controller.py:124-126`: select() is atomic, "so no settle token can follow it" | the message accepted before the select is sent after it (236-240); one, as `LateSendsOnce` says |
| `IsaacLoop!NothingInFlight`, `isaac_loop` | `isaac/service.py:540-542`, `1134-1137`: "anything in flight" fails the episode check | the wire has no episode: a message in flight is taken, and stamped, in the new one |
| `IsaacLoop!ReferenceWasHeld`, `isaac_loop` | `isaac/service.py:1011-1014`: the reference is what the controller "held for a full stable window" | it is the command after the window (1025-1030), which nothing compares with it |
| `ResetPipeline!StartSeesReset`, `reset_pipeline` | `session.py:321-323`: "a Start can never stream an observation captured before the robot and scene moved back" | the reset is only queued when the caches are dropped, and a fetch in flight stores its frame afterwards |
| `ResetPipeline!SettleOnOwnReset`, `reset_pipeline` | `bridge/reset_client.py:88-97`: waits "until the loop has actually run the reset" | any larger episode number answers it (102), also that of another client's reset |
| `WarmStart!HaltCanStop`, `warm_start` with two callers | `bridge/warmstart.py:221-227`: "`halt()` stops it and is called on every session transition" | two armings at once leave a stream that no variable names |
| `EvalStack!DeadJobEndsSession`, `stack` | `README.md:151`: "a dead shared process, ends the whole session" | once the controller is up nothing but the watchdog's abort asks for the jobs, and the loop restarts the controller (`dev.sh:1067`) |
| `ResetPipeline!BadFrameIsReported`, `reset_pipeline` | `bridge/camera.py:36`: CameraError is for a service that "returned something undecodable" | Pillow's error from `_decode_jpeg` (39-43) is another one, which `monitor.py` (232-238) does not catch: the monitor's thread ends |
| `BaseArtifact!OldWaitsForSuccess`, `base_artifact` | `bridge/base_artifact.py:290-291`: the previous copy stays as `.replaced`, "the next successful build reclaims it" | the next build removes it (295-296) before its own rename, and may then fail |
| `BaseArtifact!NeverPartial`, `base_artifact` | `bridge/base_artifact.py:288`: "the target never holds a partial dir" | a `.replaced` of which a removal has left a part is put back when the swap fails (302-303) |
| `TrainingPack!EndsAccepted`, `training_pack` | `validate.py:366-367`: an episode has a valid anchor | `convert.py:255-257` lets one without go through, and the conversion ends well |
| `TrainingPack!ClipsShowRows`, `training_pack` | `validate.py:3-6`: "re-derives every episode from the frozen sources" | without `--force` a clip of an earlier selection with as many frames stays under its number, and the validator counts its frames only |

Seen while reading and in no model: two concurrent callers can take a session out of the
ERROR that `mark_error()` just set (`session.py:417-421` looks at the generation only);
Start of GR00T while it is RUNNING toggles the client off (`model_controller.py:127-130`);
a bridge that is killed leaves its policy server to the container; a first manifest that
cannot be saved leaves a run "queued" until the service restarts (`EvalRuns` has it as
"leaked"); the docstring of `arm()`, by which a running stream is replaced, fails when the
first import outlasts the join of two seconds; the base record hashes its source after the
merge (`doubt` in `BaseArtifact`); `README.md:145` says that the neck channels fail closed,
for a launcher whose default is to discard them.

### Bounds

* `Callers`: one caller is the operator who waits for each answer; two are what the
  properties about overlapping calls need, since each of them is about a pair of calls.
* `Session!MaxGen`: a Start or Reset takes a generation. Two let a loop be superseded
  by another Start or by a Reset; the run with two callers uses one, since there the
  concurrency of the callers is the question. The bound is a guard of `StartClaim` and
  of a Reset's beginning.
* `Session!PromptFail`: TRUE says that the three assignments at the end of `_fail()`
  are over before an operator begins another call. They take microseconds; without the
  assumption the single-caller properties break: these writes, and the connection flag
  at `session.py:439`, are made with no look at the generation, so the loop of a session
  that was reset can shut the gate of the next one.
* `Blocking` (`Session`): the steps of a loop whose network wait can outlast the three
  seconds of `stop()`'s join. A send on the simulation clock is not among them: the
  receiver sees the stop and its end cancels the sender.
* `Depth` 2 is the code's own queue size; `CtlDepth` 1 (4 in the code) makes the full
  control queue frequent. `ActionRouter!MaxGen` 2: a message can be one or two generations
  old.
* `Checkpoints`: two, to tell the wrong checkpoint from the right one.
* `IsaacLoop`: one hand beside the body, since the hands have the same code and a group
  of each kind is what the passive bookkeeping tells apart; two targets, since the code
  asks only whether a position moved; ticks and windows scaled down (`Ttl`, `ArmTicks`,
  `ReleaseTicks`, `MinHold` 1, `HistTicks` 2, `MaxSupport` 3). `MaxEpisode` 2: two resets, so
  that one is asked for, up to tick `AskTick` of an episode, while another is waiting or
  being done. `MaxTick` is the ticks of each episode: five in the second, so
  that the longest release, four ticks after the settling, fits; three before it, enough
  to leave a reference and torques behind, and one in the third, which only has to begin.
* `ResetPipeline`: one reset of the client, one of somebody else, one lost round trip,
  bad reply or undecodable frame: the pairs are what the properties are about.
* `WarmStart`: two armings (the replaced event), a clock that goes to 3 with `Delay` and
  `Small` 1, so that a baseline can lie below and above `Small`; two tokens.
* `EvalRuns`: one video and two policy runs with room for two: the capacity, a queue of
  one behind the worker, and a switch of models in both directions; two chunks, so that a
  cancellation comes between chunks and after the last; two deaths, so that a recovery is
  recovered.
* `BaseArtifact`: two runs, one with a cache; three versions of the warm start, four
  launches: a build that dies, one that parks, one that reuses, one that finds damage.
* `TrainingPack`: two collections with three episodes, two of them of one length (the case
  in which counting frames cannot tell clips apart) and one of another (in which it can),
  one without a valid anchor; two versions of the code, three commands.
* `EvalStack` and `EvalRollout` are finite as they are.

### Fairness

Weak fairness on the steps of a call under way and on the steps of the threads: the
operating system schedules threads, and every wait in these calls has a deadline in
the code (joins, socket timeouts, readiness loops). Not fair: the beginning of a call,
the arrival of an observation or a tick (`LoopObserve`, `LoopTick`), a producer's decision
to submit, the session's connection, failures and deaths. A liveness property may
therefore not rely on the camera, the robot, the operator or a live server. In particular:

* `IsaacLoop`: the loop, the publisher thread, and the end of a loop that was asked to
  shut down. Nobody has to write commands or resume a paused timeline.
* `ResetPipeline`: the loop, the endpoints, the monitor's threads and the calls, weakly.
  Strong fairness on a step that renders, on the publication of the state into an empty
  socket and on its poll: the loop renders every few steps, and two threads that take
  turns at one variable each run again and again although the other disables them.
* `WarmStart`: calls and threads; the simulation may stand still.
* `EvalRuns`: the worker. Nobody has to restart a dead service.
* `EvalStack`, `EvalRollout`: every shell and the driver, docker running or refusing what
  it was asked, the wrappers, the ageing of the lease, and the controller's exit once Isaac
  is dead (it has lost its state stream). No job has to
  heed a TERM.
* `TrainingPack`: a command that runs and each thread of its pool.

`ModelController` and `BaseArtifact` have no liveness property and no fairness.

`CHECK_DEADLOCK FALSE` is set throughout: a session at its generation bound with its
loops done, a router after `close()`, a session whose lock is lost, a stack torn down, a
loop that was shut down and instances at their bounds really stop.

## 4. Proofs

A theorem holds for every value of the constants that the named `ASSUME` of its module
allows: any number of callers, runs, generations, episodes, versions. Almost none of the
properties is inductive, since each speaks of the moments the code promises something for
("between calls", "once the join is over") and says nothing about the steps in between.
The invariant that is inductive says what holds at each of those steps; every one was
checked by TLC on the run of its module before it was proved.

| Module | Theorems | Inductive invariant, and why the property needs it |
|---|---|---|
| `SessionProofs` | `TypeCorrect` (`TypeOK`), `SupersededOnce` (`SupersededSendsOnce`), any callers | `OnceInv`: a count of late sends says nothing of the next step. A loop that has spent its late send is on its way to a test it fails (`Spent`); it does not come back, because a generation once passed is never current again (`Born`) and a start() owns a thread nobody else starts (`OwnThread`) |
| `SessionProofs`, one caller | `CallerInvariant`, `SilentCorrect` (`SilentUnlessRunning`), `RunningCorrect` (`RunningHasLoop`), `ErrorIsKept` (`ErrorNeedsReset`), `StoppedIsSilent` (`StoppedStaysSilent`), `ReportsAreCurrent` (`ReportsCurrentLoop`) | `CallerInv`: `Place` says which of the gate, the publisher and the event a call has shut or opened at each of its steps. `LoopInv`: a loop that is not where a stop() can leave one behind (`Lag`) is the current one, and is the one `_thread` names until a stop() has waited for it (`Tied`), so that the join cannot look at the wrong thread. The three action properties follow: the places from which a loop sends, enters RUNNING or reports are not in `Lag` |
| `ActionRouterProofs` | `TypeCorrect`, `LateOnce` (`LateSendsOnce`), `SelectedOnly` (`LeavesSelected`), `Implements` (`IsPort`), `SubmitSucceeds` (`PutNeverRaises`) | `RouterInv`: the hand never holds a generation of the future, and one with a late message is not in the hand again, since the check compares tags; source and gate change with the generation. For the refinement, a step that accepts is `Take`, a send is `Emit`, the calls are the port's, the rest stutters. `RoomInv` for the put |
| `ModelControllerProofs` | `TypeCorrect`, `SwitchIsExclusive` (any callers); `CallsInvariant`, `ControllerCorrect` (`ControllerInv`), `PsiOwns` (`PsiOwnsPort`), one caller | `CallInv`: `Rest` is what a call finds and leaves, `Quiet` (gate shut, no settle, session not active) what stop() has established and a Reset or switch works under, and `Place` which of them holds at each step. The parts that act by themselves (`PsiFails`, `ServerDies`, ...) disturb neither. `SwitchInv`, for any callers: a call has the op of the steps it takes (`Fits`), so that every way out of a switch is its finally clause and no other call gives the lock back; TLC checked it with two callers and two checkpoints |
| `IsaacLoopProofs` | `IsaacInvariant`, `LoopCorrect` (`LoopInv`), `CommandsAreCurrent` (`CommandIsCurrent`), `SupportIsKept` (`SupportHolds`) | `IsaacInv`: what a controller holds is of its own episode (`HeldIsOwn`); a group the loop skips as passive has no torque staged (`PassiveIsLimp`); the counters of band and hold are shorter than the commands applied and the ticks spent (`BandCounts`, `HoldCounts`) |
| `ResetPipelineProofs` | `ResetInvariant`, `PipelineCorrect` (`PipelineInv`), `NoFrameOutlives` (`FrameOutlivesNoReset`) | `ResetInv`: scenes and resets still due add up to what was asked for (`Asked`); the episode lags the scene between the move and the bump only (`LoopInv`); a settle's reset waits for an episode past one that is no older than the one it began in (`WaitInv`) |
| `WarmStartProofs` | `ClockCorrect`, `OriginIsFresh` (`OriginAfterReset`), any callers; `StreamInvariant`, `WarmCorrect` (`WarmInv`), one caller | `ClockInv`: every sample kept anywhere was in the file, in the order of epochs and revisions. `StreamInv`: what lives is what `_thread` names, and it is cleared only for a thread that has ended, unless a join timed out |
| `EvalProofs`, requests | `RunsInvariant`, `EvalCorrect` (`EvalInv`), `GpuIsExclusive` (`GpuExclusive`), `ManifestsImplementLifecycle` (`LifecycleIsKept`) | `RunsInv`: the manifest in memory and on disk where the request, the queue or the worker has the run (`RequestInv`, `JobInv`), marks and requests to cancel together (`MarkInv`), an owner for each active run (`OwnerInv`), no run queued twice (`QueueInv`). Capacity: the runs are finitely many, and an insertion looks again. Refinement: each write of a manifest is a step of its life, every other step stutters |
| `EvalProofs`, sessions | `SessionInvariant`, `StackCorrect` (`StackInv`), `JobsKeepLease` (`OnlyLeaselessJobsEnd`) | `SessionInv`: `TornDown` speaks of the end only. A job that lives has a wrapper that has begun and is not over (`WatchedInv`), which is who will see the lease gone when the cleanup has missed the job; what each step of the cleanup has made true of a job it did not miss stays true, since a wrapper that was asked for and has not begun is such a miss (`CleanedInv`); from the first job on, the launcher at work has its heartbeat and a fresh lease, and from `unwatch` on a cleanup has dropped it for good (`LeaseInv`) |
| `FileProofs`, base artifact | `BaseInvariant`, `ArtifactCorrect` (`ArtifactInv`), `PreviousSurvives` (`PreviousKept`), `ReadyCorrect` (`ReadyIsSound`) | `BaseInv`: what the new directory holds at each step (`BuildInv`), where the old one is (`OldInv`), that only a removal that broke off leaves a part of one (`TornInv`), and that a record that can be read back names the weights beside it (`Honest`) |
| `FileProofs`, training pack | `FilesInvariant`, `PackCorrect` (`PackInv`), `PackEndsWell` (`EndsWell`) | `FilesInv`: the episodes a conversion has behind it are whole and of its code, or failed (`ConvInv`); the rows a job has behind it are those of its selection (`RowsInv`), and each of their clips is queued, being encoded, or shows an episode of that length, its own under `--force` (`PoolInv`); past the join nothing is open (`EndInv`). Of what an earlier, killed run left it says nothing but the types and that the rows `info.json` declares are there (`DeclaredHasRows`) |

The hypotheses of theorems, beside the assumptions on the constants:

* `OneCaller` (`SessionProofs`, `ModelControllerProofs`, `WarmStartProofs`): `Callers` is a
  singleton, an operator who waits for each answer. It is needed: with two callers TLC
  violates each of the eight properties proved under it (a Stop inside a Start, two
  armings at once; section 3, Divergences). The theorems without it say what is left
  with any callers.
* `PromptFail` (`SessionProofs`): as in section 3, Bounds; without it the late writes of
  `_fail()` break the properties.
* `OnePerQueue` (`SubmitSucceeds`): each queue has one producer, by the launcher's wiring.
* `BaseAssumption` says that no run directory is called "none", "absent" or "torn", the
  values that stand for no cache, no directory and a part of one.
* `PackEndsWell` is about what the validator finds again from the sources, not about all
  it wants: that every episode has an anchor (`EndsAccepted`) is false (section 3).
* `StackCorrect` leaves a job that the cleanup missed to its wrapper; that the wrapper
  ends it is liveness (`SessionEnds`).
* `SelectionAssumption` (`TrainingPack`) says that a selection is a sequence of episodes no
  longer than the episodes are many. A selection flattens the lists of the split's
  collections, and flattening is recursive, out of the prover's reach; `build_split` tests
  that the lists cover each collection's episodes and do not overlap
  (`datasets/psi0_dex3/split.py`), and TLC evaluates the assumption on the run.

Only model-checked:

* everything under fairness (`StartResolves`, `SupersededEnds`, `CallsReturn`,
  `ControlLeaves`, `ResetIsShown`, `ResetSettles`, `HaltEnds`, `JobEnds`, `SessionEnds`,
  `DriverEndsStack`, `CommandsEnd`): liveness is out of the prover's reach.

`EvalStack` and `EvalRollout` have no constants, so that the run visits every state there
is; their theorems say why no session leaves a job, which the run does not. `EvalProofs`
and `FileProofs` each extend modules of two components that share no state; the names of
the second component begin with its own word (`PackNext`, `StackInit`).

## 5. What is left

For overlapping calls, the theorems say what a superseded loop can still send, whose
command the socket carries, and that switches exclude each other. What one operator may
expect while another one's call is under way the source does not say, beyond what section 3
shows to fail.

Not modelled, and why:

* The clocks' arithmetic (`sim_clock.py`, `policy_clock.py`) is floating-point: what can
  go wrong there is a rounding at a tick's boundary, which integers would not show. The
  streams that use them have ticks that come or do not come.
* Adapters, contracts, image and joint conversion: functions of numbers.
* Scene construction, physics, rendering, video, measurement, kinematic replay: functions
  of the simulator; `IsaacLoop` has the loop around them.
* The pilot conversion (`convert-sonic-dataset.py`, `pilot.py`, `prepare-sonic-pilot.py`)
  and the production conversion share their shape; `TrainingPack` has the latter, which
  is the one the training uses. It leaves out an abort between the submission of a clip
  and the write of its rows, a collection that is asked for twice, and an encoder that
  outlives its killed Python: it writes to a file the next run has unlinked, or, beside a
  run with `--force`, to that run's.
* `EvalStack` leaves out an interrupt between the start of the heartbeat or the watchdog and
  the variable that keeps its pid, and the pidfile of an earlier session, which the wrapper
  removes first.
* `serve-psi0-sonic.py` and the GR00T wrappers run a server whose code is not in this
  repository; the states that matter are the server's.
* The FLUX ROS node, vendored training, server and viewers: third-party.
* About twenty thousand lines are one-shot analyses, ablations and comparisons over
  recorded arrays (`scripts/analyze-*`, `scripts/*-ab.py`, `scripts/experiments/`,
  `policy-token-support.py`, ...): one thread, no state between runs, nothing to retry. They
  are why the modules stand for a small part of the repository's lines: what has state that
  outlives a call, or more than one actor, is modelled, up to the items above.
* Tests, configuration, containers and locks: read for what they say of the program.
