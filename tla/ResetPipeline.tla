--------------------------- MODULE ResetPipeline ---------------------------
(***************************************************************************)
(* A reset from the client's button to the first observation after it :    *)
(* psi0_bridge/reset_client.py and the callers in session.py and           *)
(* model_controller.py, the observation monitor (monitor.py, camera.py,    *)
(* state_source.py), and the simulator's side of both, simulators/isaac/   *)
(* camera_service.py with the loop of service.py cut down to what a reset  *)
(* moves : scene, episode id, camera buffer, published state.              *)
(*                                                                         *)
(* A scene is its number : how often it has been restored.  A state or a   *)
(* frame is the number of the scene it shows.  The SONIC deploy, which is  *)
(* not in this repository, copies the robot's state to g1_debug.  Left     *)
(* out : pixels and joints, the age limits of snapshots (an arrival is     *)
(* stamped with the time it is stored at, so an old one passes them), the  *)
(* paused timeline and the physics, which IsaacLoop has, and the reset of  *)
(* a controller without a settle, which differs from the session's only in *)
(* keeping the snapshots when the request failed.                          *)
(***************************************************************************)
EXTENDS Integers

CONSTANTS
  MaxResets,  \* bound on the resets the client asks for
  MaxOthers,  \* bound on the resets asked for in the simulator's window
  MaxLosses   \* bound on the camera round trips that fail and the replies that are bad

ASSUME PipelineAssumption == {MaxResets, MaxOthers, MaxLosses} \subseteq Nat

None   == -1
Scenes == 0 .. MaxResets + MaxOthers
Paths  == {"session", "settle"}

VARIABLES
  \* the simulator
  sim,      \* its loop : "top", "moved", "bumped", "step", "hung", "gone"
  queued,   \* _pending_ui_reset
  episode,  \* episode_id
  scene,    \* number of the scene
  buffer,   \* HeadCameraBuffer : the scene of the retained frame, or None
  robot,    \* scene of the state the robot last published
  socket,   \* scene of the unread g1_debug sample, or None
  \* the monitor
  fetch,    \* the camera round trip : "none", "sent", "frame", "error", "stuck", or
            \* "ended", the monitor's thread is gone
  reply,    \* scene of the frame in its reply
  state,    \* cached state, or None
  frame,    \* cached frame, or None
  \* the client
  client,   \* "idle", "error", "before", "request", "poll", "drop", "ready", "running"
  path,     \* who resets : the session, or the controller with a settle to arm
  before,   \* episode read before the request
  failure,  \* the request raised ResetError
  settling, \* the settle stream is armed
  obs,      \* scenes of the last observation sent to the policy
  \* histories
  mark,     \* the scene the last accepted reset makes
  since,    \* the episode when the reset call began
  resets, others, losses

simVars     == <<sim, queued, episode, scene, buffer, robot, socket>>
monitorVars == <<fetch, reply, state, frame>>
clientVars  == <<client, path, before, failure, settling, obs, mark, since, resets>>
vars == <<simVars, monitorVars, clientVars, others, losses>>

NoObs == [state |-> None, frame |-> None]

Init ==
  /\ sim = "top" /\ queued = FALSE /\ episode = 0 /\ scene = 0
  /\ buffer = None /\ robot = 0 /\ socket = None
  /\ fetch = "none" /\ reply = None /\ state = None /\ frame = None
  /\ client = "idle" /\ path = "session" /\ before = 0 /\ failure = FALSE
  /\ settling = FALSE /\ obs = NoObs
  /\ mark = 0 /\ since = 0 /\ resets = 0 /\ others = 0 /\ losses = 0

-----------------------------------------------------------------------------
(* The simulation loop. *)

\* reset_episode writes the initial state first ...
MoveScene ==
  /\ sim = "top" /\ queued
  /\ sim' = "moved" /\ queued' = FALSE /\ scene' = scene + 1
  /\ UNCHANGED <<episode, buffer, robot, socket>>

\* ... then counts the episode ...
BumpEpisode ==
  /\ sim = "moved" /\ sim' = "bumped"
  /\ episode' = episode + 1
  /\ UNCHANGED <<queued, scene, buffer, robot, socket>>

\* Mutant : the frame of the old episode stays in the buffer.
DropFrame_Keeps ==
  /\ sim = "bumped" /\ sim' = "step"
  /\ UNCHANGED <<queued, episode, scene, buffer, robot, socket>>

\* ... then drops the camera frame ; the reset's own step follows.
DropFrame ==
  /\ sim = "bumped" /\ sim' = "step"
  /\ buffer' = None
  /\ UNCHANGED <<queued, episode, scene, robot, socket>>

\* A physics step publishes the robot's state and, on a rendered tick, a frame.
StepSim ==
  /\ (sim = "top" /\ ~queued) \/ sim = "step"
  /\ sim' = "top"
  /\ robot' = scene /\ buffer' \in {buffer, scene}
  /\ UNCHANGED <<queued, episode, scene, socket>>

\* A step that renders, for the fairness of the camera.
RenderedStep == StepSim /\ buffer' = scene

SimLoop == (MoveScene \/ BumpEpisode \/ DropFrame \/ StepSim)
             /\ UNCHANGED <<monitorVars, clientVars, others, losses>>

\* The SONIC deploy republishes the robot's state ; the subscriber conflates.
PublishDebug ==
  /\ socket' = robot
  /\ UNCHANGED <<sim, queued, episode, scene, buffer, robot, monitorVars, clientVars,
                 others, losses>>

\* The reset button of the simulator's window.
OtherReset ==
  /\ others < MaxOthers /\ sim \notin {"hung", "gone"}
  /\ others' = others + 1 /\ queued' = TRUE
  /\ UNCHANGED <<sim, episode, scene, buffer, robot, socket, monitorVars, clientVars, losses>>

\* The loop hangs, with endpoints that still answer, or the simulator is gone.
SimStops ==
  /\ sim # "gone" /\ sim' \in {"hung", "gone"}
  /\ UNCHANGED <<queued, episode, scene, buffer, robot, socket, monitorVars, clientVars,
                 others, losses>>

-----------------------------------------------------------------------------
(* The monitor's thread : state, camera, state again, one after the other. *)

PollState ==
  /\ fetch = "none" /\ socket # None
  /\ state' = socket /\ socket' = None
  /\ UNCHANGED <<sim, queued, episode, scene, buffer, robot, fetch, reply, frame,
                 clientVars, others, losses>>

SendFetch ==
  /\ fetch = "none" /\ fetch' = "sent"
  /\ UNCHANGED <<simVars, reply, state, frame, clientVars, others, losses>>

\* HeadCameraEndpoint.handle, on the camera endpoint's thread.
ServeFrame ==
  /\ fetch = "sent" /\ sim # "gone"
  /\ fetch' = IF buffer = None THEN "error" ELSE "frame"
  /\ reply' = buffer
  /\ UNCHANGED <<simVars, state, frame, clientVars, others, losses>>

StoreFrame ==
  /\ fetch = "frame"
  /\ frame' = reply /\ fetch' = "none" /\ reply' = None
  /\ UNCHANGED <<simVars, state, clientVars, others, losses>>

\* What fetch() reports as a CameraError : an error reply or one of the wrong shape, a
\* round trip that times out.
RoundTripFails ==
  \/ fetch = "error" /\ UNCHANGED losses
  \/ fetch \in {"sent", "frame"} /\ losses < MaxLosses /\ losses' = losses + 1
  \/ fetch = "sent" /\ sim = "gone" /\ UNCHANGED losses

\* Mutant : a round trip that times out leaves the REQ socket as it is.
FailFetch_NoReconnect ==
  /\ RoundTripFails
  /\ fetch' = IF fetch = "sent" THEN "stuck" ELSE "none"
  /\ reply' = None
  /\ UNCHANGED <<simVars, state, frame, clientVars, others>>

\* The failed fetch leaves the frame cached before.  One that timed out takes a new
\* socket, which drops a reply that comes late ; after a bad reply the old one will do.
FailFetch ==
  /\ RoundTripFails
  /\ fetch' = "none" /\ reply' = None
  /\ UNCHANGED <<simVars, state, frame, clientVars, others>>

\* A JPEG that begins like one and cannot be decoded : Pillow's error is no CameraError,
\* nobody catches it, and the monitor's thread ends, state and camera with it.
DecodeRaises ==
  /\ fetch = "frame" /\ losses < MaxLosses
  /\ losses' = losses + 1 /\ fetch' = "ended" /\ reply' = None
  /\ UNCHANGED <<simVars, state, frame, clientVars, others>>

Monitor == PollState \/ SendFetch \/ StoreFrame \/ FailFetch \/ DecodeRaises
-----------------------------------------------------------------------------
(* The client. *)

\* reset() of the session or the controller : the stream and the settle stop first.
BeginReset(p) ==
  /\ client \in {"idle", "error", "ready", "running"} /\ resets < MaxResets
  /\ resets' = resets + 1
  /\ path' = p /\ client' = IF p = "settle" THEN "before" ELSE "request"
  /\ failure' = FALSE /\ settling' = FALSE /\ since' = episode /\ obs' = NoObs
  /\ UNCHANGED <<simVars, monitorVars, before, mark, others, losses>>

\* _episode_id : the status endpoint reads the id between any two steps of the loop.
ReadBefore ==
  /\ client = "before" /\ sim # "gone"
  /\ before' = episode /\ client' = "request"
  /\ UNCHANGED <<simVars, monitorVars, path, failure, settling, obs, mark, since, resets,
                 others, losses>>

\* Mutant : a settle starts at the acknowledgement of the queue, like the others.
RequestReset_QueueAck ==
  /\ client = "request" /\ sim # "gone"
  /\ queued' = TRUE /\ mark' = scene + 1
  /\ client' = "drop"
  /\ UNCHANGED <<sim, episode, scene, buffer, robot, socket, monitorVars, path, before,
                 failure, settling, obs, since, resets, others, losses>>

\* request_reset : the control endpoint queues the reset and says so.
RequestReset ==
  /\ client = "request" /\ sim # "gone"
  /\ queued' = TRUE /\ mark' = scene + 1
  /\ client' = IF path = "settle" THEN "poll" ELSE "drop"
  /\ UNCHANGED <<sim, episode, scene, buffer, robot, socket, monitorVars, path, before,
                 failure, settling, obs, since, resets, others, losses>>

\* The wait of request_reset_applied ends with a larger episode id.
SeeApplied ==
  /\ client = "poll" /\ sim # "gone" /\ episode > before
  /\ client' = "drop"
  /\ UNCHANGED <<simVars, monitorVars, path, before, failure, settling, obs, mark, since,
                 resets, others, losses>>

\* A round trip without an answer in time, whose request may have been queued all the
\* same, or a reset not applied by the deadline.
Timeout ==
  /\ client \in {"before", "request", "poll"}
  /\ queued' \in {queued, queued \/ (client = "request" /\ sim # "gone")}
  /\ failure' = TRUE /\ client' = IF path = "session" THEN "drop" ELSE "error"
  /\ UNCHANGED <<sim, episode, scene, buffer, robot, socket, monitorVars, path, before,
                 settling, obs, mark, since, resets, others, losses>>

\* monitor.invalidate(), then the outcome and the settle.
Invalidate ==
  /\ client = "drop"
  /\ state' = None /\ frame' = None
  /\ client' = IF failure THEN "error" ELSE "idle"
  /\ settling' = (path = "settle")
  /\ UNCHANGED <<simVars, fetch, reply, path, before, failure, obs, mark, since, resets,
                 others, losses>>

ResetCall == ReadBefore \/ RequestReset \/ SeeApplied \/ Timeout \/ Invalidate

Start ==
  /\ client = "idle"
  /\ client' = "ready" /\ settling' = FALSE
  /\ UNCHANGED <<simVars, monitorVars, path, before, failure, obs, mark, since, resets,
                 others, losses>>

\* _wait_ready : both snapshots are there, or they are not in time.
Ready ==
  /\ client = "ready" /\ state # None /\ frame # None
  /\ client' = "running"
  /\ UNCHANGED <<simVars, monitorVars, path, before, failure, settling, obs, mark, since,
                 resets, others, losses>>

NotReady ==
  /\ client = "ready" /\ (state = None \/ frame = None)
  /\ client' = "error"
  /\ UNCHANGED <<simVars, monitorVars, path, before, failure, settling, obs, mark, since,
                 resets, others, losses>>

\* A turn of _stream : the cached snapshots are sent to the policy.
Observe ==
  /\ client = "running" /\ state # None /\ frame # None
  /\ obs' = [state |-> state, frame |-> frame]
  /\ UNCHANGED <<simVars, monitorVars, client, path, before, failure, settling, mark, since,
                 resets, others, losses>>

Stop ==
  /\ client \in {"ready", "running"}
  /\ client' = "idle" /\ obs' = NoObs
  /\ UNCHANGED <<simVars, monitorVars, path, before, failure, settling, mark, since,
                 resets, others, losses>>

Client == ResetCall \/ (\E p \in Paths : BeginReset(p)) \/ Start \/ Ready \/ NotReady
            \/ Observe \/ Stop

Next == SimLoop \/ PublishDebug \/ OtherReset \/ SimStops \/ Monitor \/ ServeFrame \/ Client

Spec == Init /\ [][Next]_vars

\* Loop, deploy, monitor, endpoints, reset calls and streams run ; people may not,
\* and nobody has to fail.
FairSpec ==
  /\ Spec
  /\ WF_vars(SimLoop)
  /\ SF_vars(RenderedStep /\ UNCHANGED <<monitorVars, clientVars, others, losses>>)
  /\ SF_vars(PublishDebug /\ socket = None) /\ SF_vars(PollState)
  /\ WF_vars(SendFetch) /\ WF_vars(ServeFrame) /\ WF_vars(StoreFrame) /\ WF_vars(FailFetch)
  /\ WF_vars(ResetCall) /\ WF_vars(Ready) /\ WF_vars(Observe)
-----------------------------------------------------------------------------
(* Properties. *)

\* In particular no scene and no episode begins that nobody asked for.
TypeOK ==
  /\ sim \in {"top", "moved", "bumped", "step", "hung", "gone"}
  /\ {queued, failure, settling} \subseteq BOOLEAN
  /\ episode \in Scenes /\ scene \in Scenes /\ robot \in Scenes
  /\ {buffer, socket, reply, state, frame} \subseteq Scenes \cup {None}
  /\ fetch \in {"none", "sent", "frame", "error", "stuck", "ended"}
  /\ client \in {"idle", "error", "before", "request", "poll", "drop", "ready", "running"}
  /\ path \in Paths /\ before \in Scenes
  /\ obs \in [state : Scenes \cup {None}, frame : Scenes \cup {None}]
  /\ {mark, since} \subseteq Nat
  /\ resets \in 0 .. MaxResets /\ others \in 0 .. MaxOthers /\ losses \in 0 .. MaxLosses

\* The camera endpoint never serves a frame from before a reset once the reset is
\* over, the purpose HeadCameraBuffer gives for invalidate().
FrameOutlivesNoReset == sim \in {"top", "step"} /\ buffer # None => buffer = scene

\* A settle stream is armed only once the simulator has begun an episode after Reset
\* was pressed, what request_reset_applied waits for, whichever answer is lost on
\* the way ; a Reset that failed arms none.
SettleAfterBoundary == settling => episode > since /\ ~failure

\* The types, and what a Reset waits for (request_reset_applied).
PipelineInv == TypeOK /\ SettleAfterBoundary

\* A Reset comes back, with or without an error, also from a simulator that hangs or
\* is gone.
ResetReturns == client \in {"before", "request", "poll", "drop"} ~>
                  client \in {"idle", "error"}

\* A stream that runs comes to see every scene : a lost camera round trip, a bad reply
\* or a frame kept from before the reset does not blind it for good.  The one thing
\* that does is a frame Pillow cannot decode (DecodeRaises).
ObservationCatchesUp ==
  \A n \in Scenes :
    (scene = n /\ client = "running") ~>
      \/ obs.state >= n /\ obs.frame >= n
      \/ client # "running" \/ sim \in {"hung", "gone"} \/ fetch = "ended"

\* Together : a Reset and the stream that follows it get through to the new scene, or
\* are told why not.
ResetSettles == ResetReturns /\ ObservationCatchesUp

\* What the docstring of CameraError says of a reply that cannot be decoded : it is an
\* error of the camera, which the monitor reports and outlives.
BadFrameIsReported == fetch = "frame" ~> fetch = "none"

\* What the docstring of request_reset_applied says : it returns when the loop has run
\* the reset that was asked for, so that a settle never precedes it.
SettleOnOwnReset == settling => scene >= mark

\* What the docstring of the session's reset says : a Start never streams an
\* observation captured before the robot and scene moved back.
StartSeesReset ==
  client = "running" /\ obs # NoObs => obs.state >= mark /\ obs.frame >= mark
=============================================================================
